-------------------------- MODULE ExecutionProofs --------------------------
(***************************************************************************)
(* What a list of transactions leaves when it is executed, one at a time,  *)
(* is what it means: apply_all computes Meaning.                           *)
(***************************************************************************)
EXTENDS Execution, Integers, FiniteSetTheorems, TLAPS

-----------------------------------------------------------------------------
(* Induction, and the greatest and least elements of sets of indices.      *)

LEMMA Induction ==
    ASSUME NEW S, 0 \in S, \A k \in Nat : k \in S => k + 1 \in S
    PROVE  Nat \subseteq S
<1> SUFFICES ASSUME NEW x \in Nat, x \notin S PROVE FALSE
  OBVIOUS
<1> DEFINE T == {y \in 0 .. x : y \notin S}
           g == [y \in T |-> y - 1]
<1>1. IsFiniteSet(T) /\ x \in T
  <2>1. 0 \in Int /\ x \in Int /\ T \in SUBSET (0 .. x) /\ x \in T
    OBVIOUS
  <2> HIDE DEF T
  <2>2. IsFiniteSet(0 .. x)
    BY <2>1, FS_Interval
  <2> QED
    BY <2>1, <2>2, FS_Subset
<1>2. \A y \in T : y - 1 \in T /\ y - 1 # x
  <2> SUFFICES ASSUME NEW y \in T PROVE y - 1 \in T /\ y - 1 # x
    OBVIOUS
  <2>1. y \in Nat /\ y # 0 /\ y <= x
    OBVIOUS
  <2>2. y - 1 \in Nat /\ (y - 1) + 1 = y
    BY <2>1
  <2>3. y - 1 \notin S
    BY <2>2
  <2> QED
    BY <2>1, <2>2, <2>3
<1>3. \A y \in T : y \in Int
  OBVIOUS
<1> HIDE DEF T
<1>4. g \in Injection(T, T \ {x})
  BY <1>2, <1>3 DEF Injection, IsInjective
<1>5. Cardinality(T) <= Cardinality(T \ {x})
  BY <1>1, <1>4, FS_RemoveElement, FS_Injection
<1>6. Cardinality(T) \in Nat /\ Cardinality(T \ {x}) = Cardinality(T) - 1
  BY <1>1, FS_RemoveElement, FS_CardinalityType
<1> QED
  BY <1>5, <1>6

LEMMA Greatest ==
    ASSUME NEW S \in SUBSET Nat, NEW k \in S, \A i \in S : i <= k
    PROVE  Max(S) = k
<1> DEFINE P(x) == x \in S /\ \A y \in S : x >= y
<1>1. \A x, y \in S : x >= y /\ y >= x => x = y
  OBVIOUS
<1>2. \E x : P(x)
  OBVIOUS
<1>3. P(CHOOSE x : P(x))
  BY <1>2
<1>4. Max(S) = CHOOSE x : P(x)
  BY DEF Max
<1> QED
  BY <1>1, <1>3, <1>4

LEMMA Prefix ==
    ASSUME NEW k \in Nat, k # 0
    PROVE  Max(1 .. k) = k /\ (1 .. k) \ {k} = 1 .. (k - 1) /\ 1 .. k # {}
<1>1. 1 .. k \in SUBSET Nat /\ k \in 1 .. k /\ \A i \in 1 .. k : i <= k
  OBVIOUS
<1>2. Max(1 .. k) = k
  BY <1>1, Greatest
<1> QED
  BY <1>1, <1>2

LEMMA HasGreatest ==
    ASSUME NEW k \in Nat
    PROVE  \A u \in SUBSET (1 .. k) : u # {} => \E i \in u : \A j \in u : j <= i
<1> DEFINE Good(l) == \A u \in SUBSET (1 .. l) : u # {} => \E i \in u : \A j \in u : j <= i
           K == {l \in Nat : Good(l)}
<1>1. Good(0)
  <2>1. 1 .. 0 = {}
    OBVIOUS
  <2> QED
    BY <2>1
<1>2. ASSUME NEW l \in Nat, Good(l)
      PROVE  Good(l + 1)
  <2> SUFFICES ASSUME NEW u \in SUBSET (1 .. l + 1), u # {}
               PROVE  \E i \in u : \A j \in u : j <= i
    OBVIOUS
  <2>1. CASE l + 1 \in u
    BY <2>1
  <2>2. CASE l + 1 \notin u
    <3>1. u \in SUBSET (1 .. l)
      BY <2>2
    <3> QED
      BY <1>2, <3>1
  <2> QED
    BY <2>1, <2>2
<1> HIDE DEF Good
<1>3. 0 \in K /\ \A l \in Nat : l \in K => l + 1 \in K
  BY <1>1, <1>2
<1>4. k \in K
  <2> HIDE DEF K
  <2> QED
    BY <1>3, Induction
<1> QED
  BY <1>4 DEF Good

LEMMA HasLeast ==
    ASSUME NEW k \in Nat, NEW u \in SUBSET (1 .. k), u # {}
    PROVE  \E i \in u : \A j \in u : i <= j
<1> DEFINE v == {k + 1 - i : i \in u}
<1>1. v \in SUBSET (1 .. k) /\ v # {} /\ \A i \in v : k + 1 - i \in u
  <2>1. \A i \in u : i \in 1 .. k /\ k + 1 - (k + 1 - i) = i /\ k + 1 - i \in 1 .. k
    OBVIOUS
  <2>2. \A i \in v : \E j \in u : i = k + 1 - j
    OBVIOUS
  <2>3. v # {}
    OBVIOUS
  <2> HIDE DEF v
  <2> QED
    BY <2>1, <2>2, <2>3
<1>2. \A j \in u : k + 1 - j \in v /\ j \in Int
  OBVIOUS
<1> HIDE DEF v
<1>3. PICK i \in v : \A j \in v : j <= i
  BY <1>1, HasGreatest
<1>4. \A j \in u : k + 1 - i <= j
  BY <1>1, <1>2, <1>3
<1> QED
  BY <1>1, <1>4

LEMMA MaxIn ==
    ASSUME NEW k \in Nat, NEW u \in SUBSET (1 .. k), u # {}
    PROVE  Max(u) \in u
<1>1. PICK i \in u : \A j \in u : j <= i
  BY HasGreatest
<1> QED
  BY <1>1, Greatest

-----------------------------------------------------------------------------
(* FoldLeft.                                                               *)

\* I takes each set of indices of s to what g makes of those entries.
Folding(I, A, g, b, s) ==
    /\ I \in [SUBSET DOMAIN s -> A]
    /\ \A u \in SUBSET DOMAIN s :
          I[u] = IF u = {} THEN b ELSE g[<<I[u \ {Max(u)}], s[Max(u)]>>]

LEMMA FoldExists ==
    ASSUME NEW A, NEW X, NEW g \in [A \X X -> A], NEW b \in A, NEW s \in Seq(X)
    PROVE  \E I : Folding(I, A, g, b, s)
<1> DEFINE Sol(I, k) ==
             \A u \in SUBSET (1 .. k) :
                I[u] = IF u = {} THEN b ELSE g[<<I[u \ {Max(u)}], s[Max(u)]>>]
           Has(k) == \E I \in [SUBSET (1 .. k) -> A] : Sol(I, k)
           K == {k \in Nat : k <= Len(s) => Has(k)}
<1>1. Has(0)
  <2> DEFINE I == [u \in SUBSET (1 .. 0) |-> b]
  <2>1. I \in [SUBSET (1 .. 0) -> A] /\ Sol(I, 0)
    <3>1. 1 .. 0 = {}
      OBVIOUS
    <3> QED
      BY <3>1
  <2> QED
    BY <2>1
<1>2. ASSUME NEW k \in Nat, k + 1 <= Len(s), Has(k)
      PROVE  Has(k + 1)
  <2>1. PICK I \in [SUBSET (1 .. k) -> A] : Sol(I, k)
    BY <1>2
  <2> DEFINE J == [u \in SUBSET (1 .. k + 1) |->
                     IF k + 1 \in u THEN g[<<I[u \ {k + 1}], s[k + 1]>>] ELSE I[u]]
  <2>2. s[k + 1] \in X
    BY <1>2
  <2>3. \A u \in SUBSET (1 .. k + 1) :
           /\ u \ {k + 1} \in SUBSET (1 .. k)
           /\ k + 1 \notin u => u \in SUBSET (1 .. k)
    BY SMTT(40)
  <2>4. J \in [SUBSET (1 .. k + 1) -> A]
    BY <2>2, <2>3
  <2>5. ASSUME NEW u \in SUBSET (1 .. k + 1), k + 1 \in u
        PROVE  J[u] = g[<<J[u \ {Max(u)}], s[Max(u)]>>]
    <3>1. Max(u) = k + 1
      <4>1. u \in SUBSET Nat /\ k + 1 \in u /\ \A i \in u : i <= k + 1
        BY <2>5
      <4> QED
        BY <4>1, Greatest
    <3>2. u \ {k + 1} \in SUBSET (1 .. k + 1) /\ k + 1 \notin u \ {k + 1}
      OBVIOUS
    <3> QED
      BY <2>5, <3>1, <3>2
  <2>6. ASSUME NEW u \in SUBSET (1 .. k + 1), k + 1 \notin u, u # {}
        PROVE  J[u] = g[<<J[u \ {Max(u)}], s[Max(u)]>>]
    <3> DEFINE w == u \ {Max(u)}
    <3>1. w \in SUBSET (1 .. k + 1) /\ k + 1 \notin w /\ u \in SUBSET (1 .. k)
      BY <2>3, <2>6
    <3> HIDE DEF w
    <3>2. J[w] = I[w] /\ J[u] = I[u]
      BY <2>6, <3>1
    <3>3. I[u] = g[<<I[w], s[Max(u)]>>]
      BY <2>1, <2>6, <3>1 DEF w
    <3> QED
      BY <3>2, <3>3 DEF w
  <2>7. J[{}] = b
    BY <2>1
  <2>8. Sol(J, k + 1)
    <3> HIDE DEF J
    <3> QED
      BY <2>5, <2>6, <2>7
  <2> QED
    BY <2>4, <2>8
<1>3. Has(Len(s))
  <2> HIDE DEF Has
  <2>1. Len(s) \in Nat
    OBVIOUS
  <2>2. 0 \in K /\ \A k \in Nat : k \in K => k + 1 \in K
    BY <1>1, <1>2, <2>1
  <2>3. Nat \subseteq K
    <3> HIDE DEF K
    <3> QED
      BY <2>2, Induction
  <2> QED
    BY <2>1, <2>3
<1>4. DOMAIN s = 1 .. Len(s)
  OBVIOUS
<1> QED
  BY <1>3, <1>4 DEF Folding

\* h takes the length of each prefix of s to what g makes of it, e of s.
Steps(h, A, g, b, s, e) ==
    /\ h \in [0 .. Len(s) -> A] /\ h[0] = b /\ h[Len(s)] = e
    /\ \A k \in 1 .. Len(s) : h[k] = g[<<h[k - 1], s[k]>>]

\* iter does as g, where it stays in A.
Follows(iter, A, g, b, s) ==
    /\ iter[{}] = b
    /\ \A u \in SUBSET DOMAIN s : u # {} /\ iter[u \ {Max(u)}] \in A =>
          iter[u] = g[<<iter[u \ {Max(u)}], s[Max(u)]>>]

LEMMA FoldSteps ==
    ASSUME NEW A, NEW X, NEW g \in [A \X X -> A], NEW b \in A, NEW s \in Seq(X),
           NEW iter, Follows(iter, A, g, b, s)
    PROVE  \E h : Steps(h, A, g, b, s, iter[DOMAIN s])
<1> DEFINE h == [k \in 0 .. Len(s) |-> iter[1 .. k]]
<1>1. Len(s) \in Nat /\ DOMAIN s = 1 .. Len(s) /\ \A i \in 1 .. Len(s) : s[i] \in X
  OBVIOUS
<1>2. h[0] = b /\ h[Len(s)] = iter[DOMAIN s]
  <2>1. 1 .. 0 = {}
    OBVIOUS
  <2> QED
    BY <1>1, <2>1 DEF Follows
<1>3. ASSUME NEW k \in 1 .. Len(s), h[k - 1] \in A
      PROVE  h[k] = g[<<h[k - 1], s[k]>>]
  <2>1. k \in Nat /\ k # 0 /\ k - 1 \in 0 .. Len(s) /\ k \in 0 .. Len(s)
    BY <1>1
  <2>2. Max(1 .. k) = k /\ (1 .. k) \ {k} = 1 .. (k - 1) /\ 1 .. k # {}
    BY <2>1, Prefix
  <2>3. 1 .. k \in SUBSET DOMAIN s
    BY <1>1
  <2>4. h[k] = iter[1 .. k] /\ h[k - 1] = iter[1 .. (k - 1)]
    BY <2>1
  <2> QED
    BY <1>3, <2>2, <2>3, <2>4 DEF Follows
<1> DEFINE K == {k \in Nat : k <= Len(s) => h[k] \in A}
<1>4. K = Nat
  <2> HIDE DEF h
  <2>1. 0 \in K
    BY <1>2
  <2>2. ASSUME NEW k \in Nat, k \in K
        PROVE  k + 1 \in K
    <3> SUFFICES ASSUME k + 1 <= Len(s)
                 PROVE  h[k + 1] \in A
      OBVIOUS
    <3>1. h[k] \in A /\ k + 1 \in 1 .. Len(s) /\ (k + 1) - 1 = k
      BY <1>1, <2>2
    <3>2. h[k + 1] = g[<<h[k], s[k + 1]>>]
      BY <1>3, <3>1
    <3> QED
      BY <1>1, <3>1, <3>2
  <2>3. K \subseteq Nat
    OBVIOUS
  <2> HIDE DEF K
  <2> QED
    BY <2>1, <2>2, <2>3, Induction
<1>5. h \in [0 .. Len(s) -> A] /\ \A k \in 0 .. Len(s) : h[k] \in A
  <2>1. \A k \in 0 .. Len(s) : k \in Nat /\ k <= Len(s)
    BY <1>1
  <2>2. \A k \in 0 .. Len(s) : h[k] \in A
    <3> HIDE DEF h
    <3> QED
      BY <1>4, <2>1
  <2> QED
    BY <2>2
<1> HIDE DEF h
<1> QED
  BY <1>1, <1>2, <1>3, <1>5, SMTT(40) DEF Steps

-----------------------------------------------------------------------------
(* Execution.                                                              *)

LEMMA ApplyType ==
    ASSUME NEW s \in State, NEW t \in Transaction
    PROVE  apply(s, t) \in State
<1> DEFINE d == [k \in DOMAIN s.data \cup {t.key} |->
                   IF k = t.key THEN t.value ELSE s.data[k]]
<1>1. PICK keys \in SUBSET Key : s.data \in [keys -> Value]
  BY DEF State
<1>2. t.key \in Key /\ t.value \in Value /\ t.sender \in Account /\ t.nonce \in Nonce
  BY DEF Transaction
<1>3. d \in [keys \cup {t.key} -> Value] /\ keys \cup {t.key} \in SUBSET Key
  BY <1>1, <1>2
<1> HIDE DEF d
<1>4. d \in UNION {[K -> Value] : K \in SUBSET Key}
  BY <1>3
<1>5. [s EXCEPT !.data = d, !.seen_nonces[t.sender] = @ \cup {t.nonce}] \in State
  BY <1>2, <1>4 DEF State
<1> QED
  BY <1>5 DEF apply, d

LEMMA ApplySteps ==
    ASSUME NEW s \in State, NEW txs \in Seq(Transaction)
    PROVE  \E h : Steps(h, State, [y \in State \X Transaction |-> apply(y[1], y[2])],
                        s, txs, apply_all(s, txs))
<1> DEFINE g == [y \in State \X Transaction |-> apply(y[1], y[2])]
           Eq(i) == i = [u \in SUBSET DOMAIN txs |->
                           IF u = {} THEN s
                           ELSE apply(i[u \ {Max(u)}], txs[Max(u)])]
           iter == CHOOSE i : Eq(i)
<1>1. apply_all(s, txs) = iter[DOMAIN txs]
  BY DEF apply_all, FoldLeft, MapThenFoldSet
<1>2. g \in [State \X Transaction -> State]
  BY ApplyType
<1>3. \A u \in SUBSET DOMAIN txs : u # {} => txs[Max(u)] \in Transaction
  <2>1. Len(txs) \in Nat /\ DOMAIN txs = 1 .. Len(txs)
        /\ \A i \in 1 .. Len(txs) : txs[i] \in Transaction
    OBVIOUS
  <2> QED
    BY <2>1, MaxIn
<1>4. \E i : Eq(i)
  <2> HIDE DEF g
  <2>1. PICK I : Folding(I, State, g, s, txs)
    BY <1>2, FoldExists
  <2>2. \A u \in SUBSET DOMAIN txs : I[u] = IF u = {} THEN s
                                            ELSE apply(I[u \ {Max(u)}], txs[Max(u)])
    BY <2>1, <1>3 DEF g, Folding
  <2> QED
    BY <2>1, <2>2 DEF Folding
<1>5. Eq(iter)
  BY <1>4
<1> HIDE DEF iter
<1>6. Follows(iter, State, g, s, txs)
  BY <1>3, <1>5 DEF Follows
<1> HIDE DEF g
<1>7. \E h : Steps(h, State, g, s, txs, iter[DOMAIN txs])
  BY <1>2, <1>6, FoldSteps
<1> QED
  BY <1>1, <1>7 DEF g

-----------------------------------------------------------------------------
(* Meaning.                                                                *)

LEMMA CountedIndices ==
    ASSUME NEW x \in Seq(Transaction)
    PROVE  /\ Len(x) \in Nat /\ DOMAIN x = 1 .. Len(x)
           /\ Counted(x) \in SUBSET (1 .. Len(x))
           /\ \A i \in 1 .. Len(x) : /\ i \in Nat /\ x[i] \in Transaction
                                     /\ x[i].sender \in Account /\ x[i].nonce \in Nonce
                                     /\ x[i].key \in Key /\ x[i].value \in Value
<1>1. \A i \in 1 .. Len(x) : x[i] \in Transaction
  OBVIOUS
<1> QED
  BY <1>1 DEF Counted, Transaction

\* A key holds what the last transaction that counts wrote to it.
LEMMA MeaningData ==
    ASSUME NEW x \in Seq(Transaction), NEW i \in Counted(x),
           \A j \in Counted(x) : x[j].key = x[i].key => j <= i
    PROVE  /\ x[i].key \in DOMAIN Meaning(x).data
           /\ Meaning(x).data[x[i].key] = x[i].value
<1> DEFINE P(l) == /\ x[l].key = x[i].key
                   /\ \A j \in Counted(x) : x[j].key = x[i].key => j <= l
<1>1. \A l \in Counted(x) : P(l) => l = i
  BY CountedIndices
<1>2. P(i)
  OBVIOUS
<1>3. (CHOOSE l \in Counted(x) : P(l)) = i
  BY <1>1, <1>2
<1> QED
  BY <1>3 DEF Meaning

LEMMA MeaningDomain ==
    ASSUME NEW x \in Seq(Transaction)
    PROVE  DOMAIN Meaning(x).data = {x[i].key : i \in Counted(x)}
BY DEF Meaning

\* For each key written there is a last transaction that did.
LEMMA LastWrite ==
    ASSUME NEW x \in Seq(Transaction), NEW k \in DOMAIN Meaning(x).data
    PROVE  \E i \in Counted(x) : /\ x[i].key = k
                                 /\ \A j \in Counted(x) : x[j].key = k => j <= i
<1> DEFINE u == {i \in Counted(x) : x[i].key = k}
<1>1. u \in SUBSET (1 .. Len(x)) /\ u # {} /\ Len(x) \in Nat
  BY CountedIndices, MeaningDomain
<1>2. PICK i \in u : \A j \in u : j <= i
  <2> HIDE DEF u
  <2> QED
    BY <1>1, HasGreatest
<1> QED
  BY <1>2

LEMMA MeaningType ==
    ASSUME NEW x \in Seq(Transaction)
    PROVE  Meaning(x) \in State
<1>1. ASSUME NEW k \in DOMAIN Meaning(x).data
      PROVE  k \in Key /\ Meaning(x).data[k] \in Value
  <2>1. PICK i \in Counted(x) : /\ x[i].key = k
                                /\ \A j \in Counted(x) : x[j].key = k => j <= i
    BY LastWrite
  <2> QED
    BY <2>1, MeaningData, CountedIndices
<1> DEFINE d == Meaning(x).data
<1>2. d = [k \in DOMAIN d |-> d[k]]
  BY DEF Meaning
<1>3. d \in UNION {[keys -> Value] : keys \in SUBSET Key}
  <2> HIDE DEF d
  <2>1. d \in [DOMAIN d -> Value] /\ DOMAIN d \in SUBSET Key
    BY <1>1, <1>2 DEF d
  <2> QED
    BY <2>1
<1>4. Meaning(x).seen_nonces \in [Account -> SUBSET Nonce]
  BY CountedIndices DEF Meaning
<1>5. Meaning(x) = [data |-> d, seen_nonces |-> Meaning(x).seen_nonces]
  BY DEF Meaning
<1> QED
  BY <1>3, <1>4, <1>5 DEF State

LEMMA MeaningEmpty == Meaning(<<>>) = NewState
<1>1. Counted(<<>>) = {}
  BY DEF Counted
<1>2. Meaning(<<>>).data = <<>>
  <2>1. DOMAIN Meaning(<<>>).data = {}
    BY <1>1 DEF Meaning
  <2> QED
    BY <1>1 DEF Meaning
<1>3. Meaning(<<>>).seen_nonces = [a \in Account |-> {}]
  BY <1>1 DEF Meaning
<1> QED
  BY <1>2, <1>3 DEF Meaning, NewState

\* A well signed transaction is counted, or an earlier one of its sender and nonce.
LEMMA FirstCounts ==
    ASSUME NEW x \in Seq(Transaction), NEW j \in 1 .. Len(x), InOrder(x[j])
    PROVE  \E i \in Counted(x) : x[i].sender = x[j].sender /\ x[i].nonce = x[j].nonce
<1> DEFINE u == {i \in 1 .. Len(x) : /\ InOrder(x[i]) /\ x[i].sender = x[j].sender
                                     /\ x[i].nonce = x[j].nonce}
<1>1. u \in SUBSET (1 .. Len(x)) /\ j \in u /\ Len(x) \in Nat
  OBVIOUS
<1>2. PICK i \in u : \A l \in u : i <= l
  <2> HIDE DEF u
  <2> QED
    BY <1>1, HasLeast
<1>3. \A l \in 1 .. i - 1 : l \in 1 .. Len(x) /\ ~ (i <= l)
  BY CountedIndices
<1>4. \A l \in 1 .. i - 1 : l \notin u
  <2> HIDE DEF u
  <2> QED
    BY <1>2, <1>3
<1>5. i \in Counted(x)
  BY <1>3, <1>4, CountedIndices DEF Counted
<1> QED
  BY <1>5

LEMMA CanApplyMeaning ==
    ASSUME NEW x \in Seq(Transaction), NEW t \in Transaction
    PROVE  can_apply(Meaning(x), t) <=>
              /\ InOrder(t)
              /\ \A j \in 1 .. Len(x) : ~ /\ InOrder(x[j])
                                          /\ x[j].sender = t.sender
                                          /\ x[j].nonce = t.nonce
<1>1. Meaning(x).seen_nonces[t.sender] =
         {x[i].nonce : i \in {j \in Counted(x) : x[j].sender = t.sender}}
  BY DEF Meaning, Transaction
<1>2. \A i \in Counted(x) : i \in 1 .. Len(x) /\ InOrder(x[i])
  BY CountedIndices DEF Counted
<1>3. (t.nonce \in Meaning(x).seen_nonces[t.sender]) <=>
         \E j \in 1 .. Len(x) : /\ InOrder(x[j]) /\ x[j].sender = t.sender
                                /\ x[j].nonce = t.nonce
  BY <1>1, <1>2, FirstCounts
<1> QED
  BY <1>3 DEF can_apply, InOrder

LEMMA CountedAppend ==
    ASSUME NEW x \in Seq(Transaction), NEW t \in Transaction
    PROVE  Counted(Append(x, t)) =
              Counted(x) \cup (IF can_apply(Meaning(x), t) THEN {Len(x) + 1} ELSE {})
<1> DEFINE y == Append(x, t)
<1>1. /\ y \in Seq(Transaction) /\ Len(x) \in Nat /\ Len(y) = Len(x) + 1
      /\ y[Len(x) + 1] = t /\ \A i \in 1 .. Len(x) : y[i] = x[i]
  OBVIOUS
<1> HIDE DEF y
<1>2. DOMAIN y = 1 .. Len(x) + 1 /\ DOMAIN x = 1 .. Len(x)
  BY <1>1
<1>3. ASSUME NEW i \in 1 .. Len(x)
      PROVE  i \in Counted(y) <=> i \in Counted(x)
  <2>1. \A j \in 1 .. i - 1 : y[j] = x[j]
    BY <1>1
  <2>2. i \in DOMAIN y /\ i \in DOMAIN x /\ y[i] = x[i]
    BY <1>1, <1>2
  <2> QED
    BY <2>1, <2>2 DEF Counted
<1>4. Len(x) + 1 \in Counted(y) <=> can_apply(Meaning(x), t)
  <2>1. Len(x) + 1 \in DOMAIN y /\ (Len(x) + 1) - 1 = Len(x)
    BY <1>1, <1>2
  <2> QED
    <3> DEFINE before(j, z) == InOrder(z[j]) /\ z[j].sender = t.sender /\ z[j].nonce = t.nonce
    <3>1. Len(x) + 1 \in Counted(y) <=> InOrder(t) /\ \A j \in 1 .. Len(x) : ~before(j, y)
      BY <1>1, <2>1 DEF Counted
    <3>2. \A j \in 1 .. Len(x) : before(j, y) <=> before(j, x)
      BY <1>1
    <3> QED
      BY <3>1, <3>2, CanApplyMeaning
<1>5. /\ Counted(y) \subseteq 1 .. Len(x) + 1 /\ Counted(x) \subseteq 1 .. Len(x)
      /\ \A i \in 1 .. Len(x) + 1 : i \in 1 .. Len(x) \/ i = Len(x) + 1
      /\ Len(x) + 1 \notin 1 .. Len(x)
  BY <1>1, <1>2 DEF Counted
<1> QED
  BY <1>3, <1>4, <1>5 DEF y

LEMMA SameState ==
    ASSUME NEW s \in State, NEW u \in State, s.seen_nonces = u.seen_nonces,
           DOMAIN s.data = DOMAIN u.data, \A k \in DOMAIN s.data : s.data[k] = u.data[k]
    PROVE  s = u
<1>1. PICK keys : s.data \in [keys -> Value]
  BY DEF State
<1>2. PICK others : u.data \in [others -> Value]
  BY DEF State
<1>3. s.data = u.data
  BY <1>1, <1>2
<1> QED
  BY <1>3 DEF State

\* One more transaction makes of what the others mean what they mean with it.
LEMMA MeaningAppend ==
    ASSUME NEW x \in Seq(Transaction), NEW t \in Transaction
    PROVE  apply(Meaning(x), t) = Meaning(Append(x, t))
<1> DEFINE y == Append(x, t)
<1>1. /\ y \in Seq(Transaction) /\ Len(x) \in Nat /\ Len(y) = Len(x) + 1
      /\ y[Len(x) + 1] = t /\ \A i \in 1 .. Len(x) : y[i] = x[i]
  OBVIOUS
<1>2. Counted(y) = Counted(x) \cup (IF can_apply(Meaning(x), t) THEN {Len(x) + 1} ELSE {})
  BY CountedAppend
<1> HIDE DEF y
<1>3. /\ Meaning(x) \in State /\ Meaning(y) \in State
      /\ \A i \in Counted(x) : i \in 1 .. Len(x) /\ i # Len(x) + 1 /\ y[i] = x[i]
  BY <1>1, MeaningType, CountedIndices
<1>4. CASE ~can_apply(Meaning(x), t)
  <2>1. Counted(y) = Counted(x)
    BY <1>2, <1>4
  <2>2. Meaning(y).seen_nonces = Meaning(x).seen_nonces
    <3>1. ASSUME NEW a \in Account
          PROVE  Meaning(y).seen_nonces[a] = Meaning(x).seen_nonces[a]
      <4>1. {j \in Counted(y) : y[j].sender = a} = {j \in Counted(x) : x[j].sender = a}
        BY <1>3, <2>1
      <4>2. /\ Meaning(y).seen_nonces[a] = {y[i].nonce : i \in {j \in Counted(y) : y[j].sender = a}}
            /\ Meaning(x).seen_nonces[a] = {x[i].nonce : i \in {j \in Counted(x) : x[j].sender = a}}
        BY DEF Meaning
      <4> QED
        BY <1>3, <4>1, <4>2
    <3> QED
      BY <1>3, <3>1 DEF State
  <2>3. DOMAIN Meaning(y).data = DOMAIN Meaning(x).data
    BY <1>1, <1>3, <2>1, MeaningDomain, ZenonT(60)
  <2>4. ASSUME NEW k \in DOMAIN Meaning(x).data
        PROVE  Meaning(y).data[k] = Meaning(x).data[k]
    <3>1. PICK i \in Counted(x) : /\ x[i].key = k
                                  /\ \A j \in Counted(x) : x[j].key = k => j <= i
      BY LastWrite
    <3> QED
      BY <1>1, <1>3, <2>1, <3>1, MeaningData, SMTT(40)
  <2>5. Meaning(x) = Meaning(y)
    BY <1>3, <2>2, <2>3, <2>4, SameState
  <2> QED
    BY <1>4, <2>5 DEF apply, y
<1>5. CASE can_apply(Meaning(x), t)
  <2>1. Counted(y) = Counted(x) \cup {Len(x) + 1}
    BY <1>2, <1>5
  <2> DEFINE s == apply(Meaning(x), t)
  <2>2. /\ s \in State
        /\ s.data = [k \in DOMAIN Meaning(x).data \cup {t.key} |->
                       IF k = t.key THEN t.value ELSE Meaning(x).data[k]]
        /\ s.seen_nonces = [Meaning(x).seen_nonces EXCEPT ![t.sender] = @ \cup {t.nonce}]
    BY <1>3, <1>5, ApplyType DEF apply, State
  <2> HIDE DEF s
  <2>3. Meaning(y).seen_nonces = s.seen_nonces
    <3>1. ASSUME NEW a \in Account
          PROVE  Meaning(y).seen_nonces[a] = s.seen_nonces[a]
      <4>1. {j \in Counted(y) : y[j].sender = a} =
               {j \in Counted(x) : x[j].sender = a} \cup
                  (IF t.sender = a THEN {Len(x) + 1} ELSE {})
        BY <1>1, <1>3, <2>1
      <4>2. Meaning(y).seen_nonces[a] = {y[i].nonce : i \in {j \in Counted(y) : y[j].sender = a}}
            /\ Meaning(x).seen_nonces[a] = {x[i].nonce : i \in {j \in Counted(x) : x[j].sender = a}}
        BY DEF Meaning
      <4>3. Meaning(y).seen_nonces[a] = Meaning(x).seen_nonces[a] \cup
                                          (IF t.sender = a THEN {t.nonce} ELSE {})
        BY <1>1, <1>3, <4>1, <4>2
      <4> QED
        BY <1>3, <2>2, <4>3 DEF State
    <3> QED
      BY <1>3, <2>2, <3>1 DEF State
  <2>4. DOMAIN Meaning(y).data = DOMAIN s.data
    BY <1>1, <1>3, <2>1, <2>2, MeaningDomain
  <2>5. ASSUME NEW k \in DOMAIN s.data
        PROVE  Meaning(y).data[k] = s.data[k]
    <3>1. CASE k = t.key
      <4>1. Len(x) + 1 \in Counted(y) /\ \A j \in Counted(y) : j <= Len(x) + 1
        BY <1>1, <1>3, <2>1
      <4> QED
        BY <1>1, <2>2, <3>1, <4>1, MeaningData
    <3>2. CASE k # t.key
      <4>1. k \in DOMAIN Meaning(x).data
        BY <2>2, <3>2
      <4>2. PICK i \in Counted(x) : /\ x[i].key = k
                                    /\ \A j \in Counted(x) : x[j].key = k => j <= i
        BY <4>1, LastWrite
      <4>3. Meaning(x).data[k] = x[i].value
        BY <4>2, MeaningData
      <4>4. i \in Counted(y) /\ y[i].key = k /\ \A j \in Counted(y) : y[j].key = k => j <= i
        BY <1>1, <1>3, <2>1, <3>2, <4>2
      <4>5. Meaning(y).data[k] = x[i].value
        BY <1>1, <1>3, <4>4, MeaningData
      <4> QED
        BY <2>2, <3>2, <4>1, <4>3, <4>5
    <3> QED
      BY <3>1, <3>2
  <2>6. s = Meaning(y)
    <3>1. s \in State /\ Meaning(y) \in State
      BY <1>3, <2>2
    <3>2. \A k \in DOMAIN s.data : s.data[k] = Meaning(y).data[k]
      BY <2>5
    <3> QED
      BY <2>3, <2>4, <3>1, <3>2, SameState
  <2> QED
    BY <2>6 DEF s, y
<1> QED
  BY <1>4, <1>5

LEMMA ApplyAllMeaning ==
    ASSUME NEW x \in Seq(Transaction), NEW txs \in Seq(Transaction)
    PROVE  apply_all(Meaning(x), txs) = Meaning(x \o txs)
<1> DEFINE g == [y \in State \X Transaction |-> apply(y[1], y[2])]
           part(k) == x \o SubSeq(txs, 1, k)
<1>1. PICK h : Steps(h, State, g, Meaning(x), txs, apply_all(Meaning(x), txs))
  BY MeaningType, ApplySteps
<1>2. Len(txs) \in Nat /\ \A k \in 1 .. Len(txs) : txs[k] \in Transaction
  OBVIOUS
<1> DEFINE K == {k \in Nat : k <= Len(txs) => h[k] = Meaning(part(k))}
<1>3. 0 \in K
  <2>1. part(0) = x
    OBVIOUS
  <2> QED
    BY <1>1, <2>1 DEF Steps
<1>4. ASSUME NEW k \in Nat, k \in K
      PROVE  k + 1 \in K
  <2> SUFFICES ASSUME k + 1 <= Len(txs)
               PROVE  h[k + 1] = Meaning(part(k + 1))
    OBVIOUS
  <2>1. k + 1 \in 1 .. Len(txs) /\ (k + 1) - 1 = k /\ h[k] = Meaning(part(k))
    BY <1>2, <1>4
  <2>2. part(k) \in Seq(Transaction) /\ part(k + 1) = Append(part(k), txs[k + 1])
    BY <1>2, <2>1
  <2> HIDE DEF part
  <2>3. h[k + 1] = g[<<Meaning(part(k)), txs[k + 1]>>]
    <3> HIDE DEF g
    <3>1. h[k + 1] = g[<<h[(k + 1) - 1], txs[k + 1]>>]
      BY <1>1, <2>1 DEF Steps
    <3> QED
      BY <2>1, <3>1
  <2>4. Meaning(part(k)) \in State /\ txs[k + 1] \in Transaction
    BY <1>2, <2>1, <2>2, MeaningType
  <2>5. h[k + 1] = apply(Meaning(part(k)), txs[k + 1])
    BY <2>3, <2>4
  <2> QED
    BY <2>2, <2>4, <2>5, MeaningAppend
<1>5. Len(txs) \in K
  <2> HIDE DEF K
  <2> QED
    BY <1>2, <1>3, <1>4, Induction
<1>6. part(Len(txs)) = x \o txs
  OBVIOUS
<1> HIDE DEF part
<1> QED
  BY <1>1, <1>2, <1>5, <1>6 DEF Steps

\* Executing a list of transactions from the start leaves what the list means:
\* skipping is never wrong about what comes later.
THEOREM ExecutionIsMeaning ==
    \A txs \in Seq(Transaction) : apply_all(NewState, txs) = Meaning(txs)
<1> SUFFICES ASSUME NEW txs \in Seq(Transaction)
             PROVE  apply_all(NewState, txs) = Meaning(txs)
  OBVIOUS
<1>1. <<>> \in Seq(Transaction) /\ <<>> \o txs = txs
  OBVIOUS
<1> QED
  BY <1>1, MeaningEmpty, ApplyAllMeaning
=============================================================================
