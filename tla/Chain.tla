------------------------------- MODULE Chain -------------------------------
(***************************************************************************)
(* What consensus promises: the honest validators build one chain.  Each   *)
(* finalizes one block after the other, never takes one back, and puts at  *)
(* a height what any validator that is further along has there.            *)
(***************************************************************************)
EXTENDS Naturals, Sequences

CONSTANTS
    Node,     \* the honest validators
    Block     \* what they finalize: blocks, identified by their hashes

VARIABLE
    ledger    \* ledger[m]: the blocks m has finalized, in order

Init == ledger = [m \in Node |-> <<>>]

Finalize(m, block) ==
    /\ block \in Block
    /\ \A k \in Node : Len(ledger[k]) > Len(ledger[m]) =>
          ledger[k][Len(ledger[m]) + 1] = block
    /\ ledger' = [ledger EXCEPT ![m] = Append(@, block)]

Next == \E m \in Node :
          /\ ledger'[m] # <<>>
          /\ Finalize(m, ledger'[m][Len(ledger'[m])])

Spec == Init /\ [][Next]_ledger

TypeOK == ledger \in [Node -> Seq(Block)]

\* Of any two ledgers, one is a prefix of the other.
OneChain ==
    \A m, k \in Node : \A i \in 1 .. Len(ledger[m]) :
        i <= Len(ledger[k]) => ledger[m][i] = ledger[k][i]
=============================================================================
