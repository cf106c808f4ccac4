----------------------------- MODULE ChainProofs -----------------------------
(***************************************************************************)
(* The abstract chain keeps all ledgers on one chain.                      *)
(***************************************************************************)
EXTENDS Chain, TLAPS

\* Ledgers stay sequences of blocks.
LEMMA ChainTypeOK == Spec => []TypeOK
<1>1. Init => TypeOK
  BY DEF Init, TypeOK
<1>2. TypeOK /\ [Next]_ledger => TypeOK'
  <2> SUFFICES ASSUME TypeOK, [Next]_ledger
               PROVE  TypeOK'
    OBVIOUS
  <2>1. CASE UNCHANGED ledger
    BY <2>1 DEF TypeOK
  <2>2. CASE Next
    <3>1. PICK n \in Node, block \in Block :
            ledger' = [ledger EXCEPT ![n] = Append(@, block)]
      BY <2>2 DEF Next, Finalize
    <3>2. Append(ledger[n], block) \in Seq(Block)
      BY DEF TypeOK
    <3> QED
      BY <3>1, <3>2 DEF TypeOK
  <2> QED
    BY <2>1, <2>2
<1> QED
  BY <1>1, <1>2, PTL DEF Spec

\* Whoever appends to a ledger agrees with those that are further along, so
\* of two ledgers one is always a prefix of the other.
THEOREM ChainOneChain == Spec => []OneChain
<1>1. Init => OneChain
  BY DEF Init, OneChain
<1>2. TypeOK /\ OneChain /\ [Next]_ledger => OneChain'
  <2> SUFFICES ASSUME TypeOK, OneChain, [Next]_ledger
               PROVE  OneChain'
    OBVIOUS
  <2>1. CASE UNCHANGED ledger
    BY <2>1 DEF OneChain
  <2>2. CASE Next
    <3>1. PICK n \in Node, block \in Block : Finalize(n, block)
      BY <2>2 DEF Next, Finalize
    <3>2. ledger[n] \in Seq(Block) /\ ledger'[n] = Append(ledger[n], block)
      BY <3>1 DEF TypeOK, Finalize
    <3>3. \A m \in Node \ {n} : ledger'[m] = ledger[m]
      BY <3>1 DEF TypeOK, Finalize
    <3>4. \A m \in Node : ledger[m] \in Seq(Block)
      BY DEF TypeOK
    <3>5. SUFFICES ASSUME NEW m \in Node, NEW k \in Node,
                          NEW i \in 1 .. Len(ledger'[m]), i <= Len(ledger'[k])
                   PROVE  ledger'[m][i] = ledger'[k][i]
      BY DEF OneChain
    <3>6. \A j \in Node \ {n} : Len(ledger[j]) > Len(ledger[n]) =>
            ledger[j][Len(ledger[n]) + 1] = block
      BY <3>1 DEF Finalize
    <3>7. ASSUME NEW j \in Node \ {n}, NEW x \in 1 .. Len(ledger'[n]),
                 x <= Len(ledger'[j])
          PROVE  ledger'[n][x] = ledger'[j][x]
      <4>1. CASE x <= Len(ledger[n])
        <5>1. ledger'[n][x] = ledger[n][x]
          BY <3>2, <3>7, <4>1
        <5> QED
          BY <3>2, <3>3, <3>7, <4>1, <5>1 DEF OneChain
      <4>2. CASE x = Len(ledger[n]) + 1
        BY <3>2, <3>3, <3>4, <3>6, <3>7, <4>2
      <4> QED
        BY <3>2, <3>7, <4>1, <4>2
    <3>8. CASE m = n \/ k = n
      <4>1. CASE m = k
        BY <4>1
      <4>2. CASE m = n /\ k # n
        BY <3>5, <3>7, <4>2
      <4>3. CASE m # n /\ k = n
        <5>1. i \in 1 .. Len(ledger'[n]) /\ i <= Len(ledger'[m])
          BY <3>2, <3>3, <3>4, <3>5, <4>3
        <5> QED
          BY <3>7, <4>3, <5>1
      <4> QED
        BY <3>8, <4>1, <4>2, <4>3
    <3>9. CASE m # n /\ k # n
      BY <3>3, <3>5, <3>9 DEF OneChain
    <3> QED
      BY <3>8, <3>9
  <2> QED
    BY <2>1, <2>2
<1> QED
  BY <1>1, <1>2, ChainTypeOK, PTL DEF Spec
=============================================================================
