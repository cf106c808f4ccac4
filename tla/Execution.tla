----------------------------- MODULE Execution -----------------------------
(***************************************************************************)
(* The execution layer, src/src/execution/state.py: a key-value map that   *)
(* signed transactions write to, each sender under its own keys and once   *)
(* for each nonce.                                                         *)
(***************************************************************************)
EXTENDS Naturals, Sequences, SequencesExt

CONSTANTS
    Account,   \* public keys
    Name,      \* the part of a key after its owner
    Value,
    Nonce,
    NoAccount  \* the owner of a key that has no "/" or names nobody

\* A state key is "<owner>/<name>".
Key == [owner : Account \cup {NoAccount}, name : Name]

\* verifies: whether the signature on this copy of it is the sender's.
Transaction == [sender : Account, key : Key, value : Value, nonce : Nonce,
                verifies : BOOLEAN]

\* The hash covers the signing payload, so not the signature.
tx_hash(tx) == [sender |-> tx.sender, key |-> tx.key, value |-> tx.value,
                nonce |-> tx.nonce]

State == [data : UNION {[keys -> Value] : keys \in SUBSET Key},
          seen_nonces : [Account -> SUBSET Nonce]]

NewState == [data |-> <<>>, seen_nonces |-> [a \in Account |-> {}]]

state_root(s) == s.data

tx_root(txs) == [i \in DOMAIN txs |-> tx_hash(txs[i])]

can_apply(s, tx) ==
    /\ tx.verifies
    /\ tx.key.owner = tx.sender
    /\ tx.nonce \notin s.seen_nonces[tx.sender]

\* Mutant: the nonce is not remembered.
apply_forgetting_nonce(s, tx) ==
    IF can_apply(s, tx)
    THEN [s EXCEPT !.data = [k \in DOMAIN @ \cup {tx.key} |->
                               IF k = tx.key THEN tx.value ELSE @[k]]]
    ELSE s

\* Mutant: the value is remembered in place of the nonce.
apply_remembering_value(s, tx) ==
    IF can_apply(s, tx)
    THEN [s EXCEPT !.data = [k \in DOMAIN @ \cup {tx.key} |->
                               IF k = tx.key THEN tx.value ELSE @[k]],
                   !.seen_nonces[tx.sender] = @ \cup {tx.value}]
    ELSE s

apply(s, tx) ==
    IF can_apply(s, tx)
    THEN [s EXCEPT !.data = [k \in DOMAIN @ \cup {tx.key} |->
                               IF k = tx.key THEN tx.value ELSE @[k]],
                   !.seen_nonces[tx.sender] = @ \cup {tx.nonce}]
    ELSE s

\* Transactions that cannot be applied are skipped.
apply_all(s, txs) == FoldLeft(apply, s, txs)

-----------------------------------------------------------------------------
(* What a list of transactions means, without executing it: one counts if  *)
(* it is well signed, writes to its sender's own keys, and is the first of *)
(* its sender with its nonce to do so; a key holds what the last           *)
(* transaction that counts wrote to it.                                    *)

InOrder(tx) == tx.verifies /\ tx.key.owner = tx.sender

Counted(txs) ==
    {i \in DOMAIN txs :
        /\ InOrder(txs[i])
        /\ \A j \in 1 .. i - 1 :
              ~ /\ InOrder(txs[j])
                /\ txs[j].sender = txs[i].sender
                /\ txs[j].nonce = txs[i].nonce}

Meaning(txs) ==
    LET C == Counted(txs)
    IN  [data |-> [k \in {txs[i].key : i \in C} |->
                     LET last == CHOOSE i \in C :
                                   /\ txs[i].key = k
                                   /\ \A j \in C : txs[j].key = k => j <= i
                     IN  txs[last].value],
         seen_nonces |-> [a \in Account |->
                            {txs[i].nonce : i \in {j \in C : txs[j].sender = a}}]]
=============================================================================
