------------------------- MODULE EngineSafetyProofs -------------------------
(***************************************************************************)
(* What holds of the honest validators of module Engine together: locks,   *)
(* decisions and unlocks are backed by quorums, and no two of them decide  *)
(* differently.                                                            *)
(*                                                                         *)
(* EngineProofs follows one node through a handler.  Here the same         *)
(* operators are followed through the states N of all nodes: With(N, m, t) *)
(* is N with m in state t, and one lemma, OneNode, says what m must do for *)
(* the invariant Safe to survive.                                          *)
(***************************************************************************)
EXTENDS EngineProofs

\* Any two quorums share an honest validator.  With n = 3f + 1 that is so of up
\* to f Byzantine validators (FewFaultsOf3f1), with n = 3f + 2 of f - 1 only.
FewFaults == 2 * quorum > n + Cardinality(Byzantine)

\* What the honest validators of N have signed.
Sent(N) == UNION {N[k].sent_votes : k \in Honest}

\* Voters and Certified, for a set of votes S.
VotersIn(S, height, r, phase, hash) ==
    Byzantine \cup
    {k \in Honest : [validator |-> k, height |-> height, round |-> r,
                     phase |-> phase, hash |-> hash] \in S}
CertifiedIn(S, height, r, phase, hash) ==
    Cardinality(VotersIn(S, height, r, phase, hash)) >= quorum

\* A bucket holds votes of the node's height that their validators have cast.
VotesHeld(s, S) ==
    \A v \in s.votes : v.height = s.height /\ (v.validator \in Byzantine \/ v \in S)

\* Locked and valid block have a prevote quorum of their round.
LockBacked(s, S) ==
    /\ s.locked_block # None =>
          CertifiedIn(S, s.height, s.locked_round, "PREVOTE", block_hash(s.locked_block))
    /\ s.valid_block # None =>
          CertifiedIn(S, s.height, s.valid_round, "PREVOTE", block_hash(s.valid_block))
    /\ s.locked_block = None => s.locked_round = -1

\* What is precommitted has a prevote quorum of that round, and the node holds
\* a lock of that round or a later one.
PrecommitBacked(s, S) ==
    \A w \in s.sent_votes : w.phase = "PRECOMMIT" /\ w.hash # NIL =>
       /\ CertifiedIn(S, w.height, w.round, "PREVOTE", w.hash)
       /\ w.height = s.height => s.locked_block # None /\ s.locked_round >= w.round

\* Every block of the ledger has a precommit quorum.
LedgerBacked(s, S) ==
    \A i \in 1 .. Len(s.ledger) : \E r \in Rounds :
        CertifiedIn(S, i - 1, r, "PRECOMMIT", block_hash(s.ledger[i]))

Backed(s, S) ==
    VotesHeld(s, S) /\ LockBacked(s, S) /\ PrecommitBacked(s, S) /\ LedgerBacked(s, S)

\* The validators that have precommitted the hash or could still do so.
Potential(N, height, r, hash) ==
    Byzantine \cup
    {k \in Honest :
        \/ N[k].height < height
        \/ N[k].height = height /\ N[k].round <= r
        \/ [validator |-> k, height |-> height, round |-> r,
            phase |-> "PRECOMMIT", hash |-> hash] \in N[k].sent_votes}
Hopeless(N, height, r, hash) == Cardinality(Potential(N, height, r, hash)) < quorum

\* v prevotes for another block than w precommitted in an earlier round.
Switches(w, v) ==
    /\ w.phase = "PRECOMMIT" /\ v.phase = "PREVOTE"
    /\ w.height = v.height /\ w.round < v.round
    /\ NIL \notin {w.hash, v.hash} /\ v.hash # w.hash

\* No honest validator turns its back on a block that can still be decided.
SwitchSafe(N) ==
    \A k \in Honest : \A w, v \in N[k].sent_votes :
        Switches(w, v) => Hopeless(N, w.height, w.round, w.hash)

\* UnlockIsJustified, with the block it prevotes for in place of some other.
SwitchJustified(N) ==
    \A k \in Honest : \A w, v \in N[k].sent_votes :
        Switches(w, v) => \E r \in Rounds :
            /\ r > w.round
            /\ Cardinality(VotersIn(Sent(N), w.height, r, "PREVOTE", v.hash)
                           \ (IF r >= v.round THEN {k} ELSE {})) >= quorum

\* A conjunct of Safe for each node, and one for what they must not do together.
Safe(N) ==
    /\ N \in [Honest -> NodeState]
    /\ \A k \in Honest :
          /\ N[k].node_id = k /\ VotesOK(N[k]) /\ ChainOK(N[k])
          /\ Backed(N[k], Sent(N))
    /\ FewFaults => SwitchSafe(N) /\ SwitchJustified(N)

With(N, m, t) == [N EXCEPT ![m] = t]

\* A handler that takes m to t is safe, unless the model has no such step.
SafeTo(N, m, t) == t.round <= MaxRound => Safe(With(N, m, t))

-----------------------------------------------------------------------------
(* Numbers and quorums.                                                    *)

LEMMA NodeNumbers ==
    \A x \in NodeState :
        /\ x.height \in Int /\ x.round \in Int
        /\ x.locked_round \in Int /\ x.valid_round \in Int
        /\ x.locked_round \in Rounds \cup {-1}
        /\ x.sent_votes \subseteq Vote /\ x.votes \subseteq Vote
BY BoundAssumption DEF NodeState, Heights, Rounds

LEMMA VoteNumbers ==
    \A v \in Vote : v.height \in Int /\ v.round \in Int /\ v.round \in Rounds /\ v.round >= 0
BY BoundAssumption DEF Vote, Heights, Rounds

LEMMA QuorumType == quorum \in Int
<1> HIDE DEF n
<1> QED
  BY NumberOfValidators DEF quorum, f

LEMMA VotersType ==
    \A S, height, r, phase, hash :
        /\ VotersIn(S, height, r, phase, hash) \subseteq Validator
        /\ IsFiniteSet(VotersIn(S, height, r, phase, hash))
        /\ Cardinality(VotersIn(S, height, r, phase, hash)) \in Nat
<1> SUFFICES ASSUME NEW S, NEW height, NEW r, NEW phase, NEW hash
             PROVE  LET V == VotersIn(S, height, r, phase, hash)
                    IN  V \subseteq Validator /\ IsFiniteSet(V) /\ Cardinality(V) \in Nat
  OBVIOUS
<1> DEFINE V == VotersIn(S, height, r, phase, hash)
<1>1. V \subseteq Validator
  BY ValidatorAssumption DEF VotersIn, Honest
<1> QED
  BY <1>1, ValidatorAssumption, FS_Subset, FS_CardinalityType

\* Whoever has a quorum keeps it as more is signed.
LEMMA CertifiedStays ==
    ASSUME NEW S, NEW T, S \subseteq T,
           NEW height, NEW r, NEW phase, NEW hash,
           CertifiedIn(S, height, r, phase, hash)
    PROVE  CertifiedIn(T, height, r, phase, hash)
<1>1. VotersIn(S, height, r, phase, hash) \in SUBSET VotersIn(T, height, r, phase, hash)
  BY DEF VotersIn
<1> QED
  BY <1>1, VotersType, QuorumType, FS_Subset DEF CertifiedIn

\* Two quorums share an honest validator.
LEMMA QuorumsMeet ==
    ASSUME FewFaults, NEW A \in SUBSET Validator, NEW B \in SUBSET Validator,
           Cardinality(A) >= quorum, Cardinality(B) >= quorum
    PROVE  \E k \in Honest : k \in A /\ k \in B
<1>1. /\ IsFiniteSet(A) /\ IsFiniteSet(B) /\ IsFiniteSet(Byzantine)
      /\ IsFiniteSet(A \cup B) /\ IsFiniteSet(A \cap B)
      /\ Cardinality(A \cup B) <= n
  <2>1. A \cup B \in SUBSET Validator /\ A \cap B \in SUBSET Validator
        /\ Byzantine \in SUBSET Validator
    BY ValidatorAssumption
  <2> QED
    BY <2>1, ValidatorAssumption, FS_Subset DEF n
<1>2. Cardinality(A \cup B) = Cardinality(A) + Cardinality(B) - Cardinality(A \cap B)
  BY <1>1, FS_Union
<1>3. /\ Cardinality(A) \in Nat /\ Cardinality(B) \in Nat
      /\ Cardinality(A \cup B) \in Nat /\ Cardinality(A \cap B) \in Nat
      /\ Cardinality(Byzantine) \in Nat
  BY <1>1, FS_CardinalityType
<1>4. Cardinality(A \cap B) > Cardinality(Byzantine)
  <2> HIDE DEF n, quorum
  <2> QED
    BY <1>1, <1>2, <1>3, QuorumType, NumberOfValidators DEF FewFaults
<1>5. ~ (A \cap B \subseteq Byzantine)
  <2> SUFFICES ASSUME A \cap B \subseteq Byzantine PROVE FALSE
    OBVIOUS
  <2>1. Cardinality(A \cap B) <= Cardinality(Byzantine)
    BY <1>1, FS_Subset
  <2> QED
    BY <1>3, <1>4, <2>1
<1> QED
  BY <1>5 DEF Honest

\* A hash that wins in a bucket has a quorum.
LEMMA Winner ==
    ASSUME NEW s \in NodeState, NEW S, VotesHeld(s, S), NEW r, NEW phase,
           NEW hash \in winners(s, r, phase)
    PROVE  CertifiedIn(S, s.height, r, phase, hash) /\ r \in Rounds
<1> DEFINE D == {v \in vote_bucket(s, r, phase) : v.hash = hash}
           V == VotersIn(S, s.height, r, phase, hash)
           g == [v \in D |-> v.validator]
<1>1. Cardinality(D) >= quorum /\ \E v \in D : TRUE
  BY DEF winners
<1>2. \A v \in D : /\ v \in Vote /\ v.height = s.height /\ v.round = r
                   /\ v.phase = phase /\ v.hash = hash
                   /\ v.validator \in Byzantine \/ v \in S
  BY NodeNumbers DEF vote_bucket, VotesHeld
<1> HIDE DEF D
<1>3. \A v \in D : v = [validator |-> v.validator, height |-> s.height, round |-> r,
                       phase |-> phase, hash |-> hash]
  BY <1>2 DEF Vote
<1>4. \A v \in D : v.validator \in V
  BY <1>2, <1>3 DEF VotersIn, Honest, Vote
<1>5. \A v, w \in D : v.validator = w.validator => v = w
  BY <1>3
<1> HIDE DEF V
<1>6. g \in Injection(D, V)
  BY <1>4, <1>5 DEF Injection, IsInjective
<1>7. Cardinality(D) <= Cardinality(V) /\ Cardinality(D) \in Nat /\ Cardinality(V) \in Nat
  BY <1>6, VotersType, FS_Injection, FS_CardinalityType DEF V
<1>8. Cardinality(V) >= quorum
  BY <1>1, <1>7, QuorumType
<1>9. r \in Rounds
  BY <1>1, <1>2, VoteNumbers
<1> QED
  BY <1>8, <1>9 DEF CertifiedIn, V

-----------------------------------------------------------------------------
(* What the invariant says of quorums.                                     *)

\* Nobody signs for an honest validator.
LEMMA OwnSent ==
    ASSUME NEW N, Safe(N), NEW v \in Sent(N), v.validator \in Honest
    PROVE  v \in N[v.validator].sent_votes /\ v \in Vote
<1>1. PICK k \in Honest : v \in N[k].sent_votes
  BY DEF Sent
<1>2. N[k] \in NodeState /\ N[k].node_id = k /\ VotesOK(N[k])
  BY DEF Safe
<1>3. v.validator = k
  BY <1>1, <1>2 DEF VotesOK
<1> QED
  BY <1>1, <1>2, <1>3, NodeNumbers

LEMMA OneCertificate ==
    ASSUME FewFaults, NEW N, Safe(N), NEW height, NEW r, NEW phase, NEW x, NEW y,
           CertifiedIn(Sent(N), height, r, phase, x),
           CertifiedIn(Sent(N), height, r, phase, y)
    PROVE  x = y
<1> DEFINE vote(k, hash) == [validator |-> k, height |-> height, round |-> r,
                             phase |-> phase, hash |-> hash]
<1>1. PICK k \in Honest : /\ k \in VotersIn(Sent(N), height, r, phase, x)
                         /\ k \in VotersIn(Sent(N), height, r, phase, y)
  BY VotersType, QuorumsMeet DEF CertifiedIn
<1>2. vote(k, x) \in Sent(N) /\ vote(k, y) \in Sent(N)
  BY <1>1 DEF VotersIn, Honest
<1>3. vote(k, x) \in N[k].sent_votes /\ vote(k, y) \in N[k].sent_votes
  BY <1>2, OwnSent
<1>4. vote(k, x) = vote(k, y)
  BY <1>3 DEF Safe, VotesOK
<1> QED
  BY <1>4

LEMMA PotentialType ==
    \A N, height, r, hash :
        /\ Potential(N, height, r, hash) \in SUBSET Validator
        /\ IsFiniteSet(Potential(N, height, r, hash))
        /\ Cardinality(Potential(N, height, r, hash)) \in Nat
<1> SUFFICES ASSUME NEW N, NEW height, NEW r, NEW hash
             PROVE  LET P == Potential(N, height, r, hash)
                    IN  P \in SUBSET Validator /\ IsFiniteSet(P) /\ Cardinality(P) \in Nat
  OBVIOUS
<1>1. Potential(N, height, r, hash) \in SUBSET Validator
  BY ValidatorAssumption DEF Potential, Honest
<1> QED
  BY <1>1, ValidatorAssumption, FS_Subset, FS_CardinalityType

\* Once a later round has a prevote quorum for another block, no block of an
\* earlier round can be decided any more.
LEMMA Settled ==
    ASSUME FewFaults, NEW N, Safe(N), NEW height, NEW r \in Rounds, NEW q \in Rounds,
           NEW x, NEW y, r < q, x # NIL, y # NIL, x # y,
           CertifiedIn(Sent(N), height, q, "PREVOTE", x)
    PROVE  Hopeless(N, height, r, y)
<1> SUFFICES ASSUME ~ Hopeless(N, height, r, y) PROVE FALSE
  OBVIOUS
<1> DEFINE v(k) == [validator |-> k, height |-> height, round |-> q,
                    phase |-> "PREVOTE", hash |-> x]
           w(k) == [validator |-> k, height |-> height, round |-> r,
                    phase |-> "PRECOMMIT", hash |-> y]
<1>1. PICK k \in Honest : /\ k \in VotersIn(Sent(N), height, q, "PREVOTE", x)
                         /\ k \in Potential(N, height, r, y)
  BY VotersType, PotentialType, QuorumType, QuorumsMeet DEF CertifiedIn, Hopeless
<1>2. v(k) \in N[k].sent_votes
  BY <1>1, OwnSent DEF VotersIn, Honest
<1>3. /\ height <= N[k].height
      /\ height = N[k].height => q <= N[k].round
  BY <1>2 DEF Safe, VotesOK
<1>4. height \in Int /\ N[k].height \in Int /\ N[k].round \in Int
      /\ r \in Int /\ q \in Int
  <2>1. N[k] \in NodeState /\ v(k) \in Vote
    BY <1>2, NodeNumbers DEF Safe
  <2>2. v(k).height = height
    OBVIOUS
  <2> QED
    BY <2>1, <2>2, NodeNumbers, VoteNumbers, BoundAssumption DEF Rounds
<1>5. w(k) \in N[k].sent_votes
  BY <1>1, <1>3, <1>4 DEF Potential, Honest
<1>6. Switches(w(k), v(k))
  BY DEF Switches
<1> QED
  BY <1>2, <1>5, <1>6 DEF Safe, SwitchSafe
-----------------------------------------------------------------------------
(* One node takes a step.                                                  *)

LEMMA WithNode ==
    ASSUME NEW N, Safe(N), NEW m \in Honest, NEW t
    PROVE  /\ With(N, m, t)[m] = t
           /\ \A k \in Honest \ {m} : With(N, m, t)[k] = N[k]
           /\ DOMAIN With(N, m, t) = Honest
           /\ With(N, m, N[m]) = N
           /\ \A u : With(With(N, m, u), m, t) = With(N, m, t)
BY DEF Safe, With

\* What nobody can decide any more stays so: who has left a round casts no
\* vote in it.
LEMMA HopelessStays ==
    ASSUME NEW N, Safe(N), NEW m \in Honest, NEW t \in NodeState, Forward(N[m], t),
           NEW height \in Int, NEW r \in Int, NEW hash, Hopeless(N, height, r, hash)
    PROVE  Hopeless(With(N, m, t), height, r, hash)
<1> DEFINE M == With(N, m, t)
           w(k) == [validator |-> k, height |-> height, round |-> r,
                    phase |-> "PRECOMMIT", hash |-> hash]
<1>1. M[m] = t /\ \A k \in Honest \ {m} : M[k] = N[k]
  BY WithNode
<1>2. /\ N[m].height \in Int /\ N[m].round \in Int
      /\ t.height \in Int /\ t.round \in Int
  BY NodeNumbers DEF Safe
<1> HIDE DEF M
<1>3. ASSUME NEW k \in Honest, k \in Potential(M, height, r, hash)
      PROVE  k \in Potential(N, height, r, hash)
  <2>1. CASE k # m
    BY <1>1, <1>3, <2>1 DEF Potential, Honest
  <2>2. CASE k = m
    <3>1. \/ t.height < height
          \/ t.height = height /\ t.round <= r
          \/ w(m) \in t.sent_votes
      BY <1>1, <1>3, <2>2 DEF Potential, Honest
    <3>2. CASE t.height < height \/ (t.height = height /\ t.round <= r)
      BY <1>2, <2>2, <3>2 DEF Forward, Potential
    <3>3. CASE w(m) \in t.sent_votes
      <4>1. w(m).height = height /\ w(m).round = r
        OBVIOUS
      <4>2. CASE w(m) \in N[m].sent_votes
        BY <2>2, <4>2 DEF Potential
      <4>3. CASE w(m) \notin N[m].sent_votes
        <5>1. \/ w(m).height > N[m].height
              \/ w(m).height = N[m].height /\ w(m).round >= N[m].round
          BY <3>3, <4>3 DEF Forward
        <5>2. N[m].height < height \/ (N[m].height = height /\ N[m].round <= r)
          BY <1>2, <4>1, <5>1
        <5> QED
          BY <2>2, <5>2 DEF Potential
      <4> QED
        BY <4>2, <4>3
    <3> QED
      BY <3>1, <3>2, <3>3
  <2> QED
    BY <2>1, <2>2
<1>4. Potential(M, height, r, hash) \in SUBSET Potential(N, height, r, hash)
  BY <1>3 DEF Potential
<1>5. Cardinality(Potential(M, height, r, hash)) <= Cardinality(Potential(N, height, r, hash))
  BY <1>4, PotentialType, FS_Subset
<1> QED
  BY <1>5, PotentialType, QuorumType DEF Hopeless, M

LEMMA BackedStays ==
    ASSUME NEW s, NEW S, NEW T, S \subseteq T, Backed(s, S)
    PROVE  Backed(s, T)
<1>1. VotesHeld(s, T)
  BY DEF Backed, VotesHeld
<1>2. LockBacked(s, T)
  BY CertifiedStays DEF Backed, LockBacked
<1>3. PrecommitBacked(s, T)
  BY CertifiedStays DEF Backed, PrecommitBacked
<1>4. LedgerBacked(s, T)
  BY CertifiedStays DEF Backed, LedgerBacked
<1> QED
  BY <1>1, <1>2, <1>3, <1>4 DEF Backed

\* The block a node with a lock prevotes for instead of one it precommitted had
\* a quorum in a later round, and the node's vote was not in it.
LEMMA Unlocks ==
    ASSUME FewFaults, NEW N, Safe(N), NEW m \in Honest,
           NEW w \in N[m].sent_votes, NEW v \in Vote, v \notin N[m].sent_votes,
           Switches(w, v), v.height = N[m].height => Obeys(N[m], v.hash),
           v.height >= N[m].height,
           \A x \in N[m].sent_votes :
              x.phase = v.phase /\ x.height = v.height => x.round < v.round
    PROVE  /\ Hopeless(N, w.height, w.round, w.hash)
           /\ \E r \in Rounds :
                 /\ r > w.round
                 /\ CertifiedIn(Sent(N), w.height, r, "PREVOTE", v.hash)
                 /\ r >= v.round => m \notin VotersIn(Sent(N), w.height, r, "PREVOTE", v.hash)
<1> DEFINE s == N[m]
           r == s.locked_round
<1>1. /\ s \in NodeState /\ VotesOK(s) /\ LockBacked(s, Sent(N))
      /\ PrecommitBacked(s, Sent(N)) /\ w \in Vote /\ s.height \in Int
  BY NodeNumbers DEF Safe, Backed
<1>2. w.height = s.height /\ v.height = s.height
  <2>1. w.height <= s.height
    BY <1>1 DEF VotesOK
  <2> QED
    BY <1>1, <2>1, VoteNumbers DEF Switches
<1>3. /\ CertifiedIn(Sent(N), s.height, w.round, "PREVOTE", w.hash)
      /\ s.locked_block # None /\ r >= w.round
  BY <1>1, <1>2 DEF PrecommitBacked, Switches
<1>4. v.hash = block_hash(s.locked_block)
  BY <1>2, <1>3 DEF Obeys, Switches
<1>5. CertifiedIn(Sent(N), s.height, r, "PREVOTE", v.hash)
  BY <1>1, <1>3, <1>4 DEF LockBacked
<1>6. r # w.round
  BY <1>3, <1>5, OneCertificate DEF Switches
<1>7. r \in Rounds /\ w.round \in Rounds /\ r > w.round
  BY <1>1, <1>3, <1>6, NodeNumbers, VoteNumbers
<1>8. Hopeless(N, w.height, w.round, w.hash)
  BY <1>2, <1>5, <1>7, Settled DEF Switches
<1>9. ASSUME r >= v.round
      PROVE  m \notin VotersIn(Sent(N), s.height, r, "PREVOTE", v.hash)
  <2> DEFINE x == [validator |-> m, height |-> s.height, round |-> r,
                   phase |-> "PREVOTE", hash |-> v.hash]
  <2> SUFFICES ASSUME x \in Sent(N) PROVE FALSE
    BY DEF VotersIn, Honest
  <2>1. x \in s.sent_votes
    BY OwnSent
  <2>2. x.round = r /\ x.height = s.height /\ x.phase = "PREVOTE"
    OBVIOUS
  <2>3. r < v.round
    BY <1>2, <2>1, <2>2 DEF Switches
  <2> QED
    BY <1>7, <1>9, <2>3, VoteNumbers, BoundAssumption DEF Rounds
<1> QED
  BY <1>2, <1>5, <1>7, <1>8, <1>9
\* What m may sign in one step: a precommit, or a prevote that obeys its lock.
MaySign(s, v) ==
    /\ v \in Vote /\ v.height >= s.height
    /\ v.phase = "PREVOTE" /\ v.height = s.height => Obeys(s, v.hash)

\* The invariant survives a step of m in which it casts at most one vote, and
\* after which its own lock, bucket and ledger are backed.
LEMMA OneNode ==
    ASSUME NEW N, Safe(N), NEW m \in Honest, NEW t \in NodeState,
           t.node_id = m, VotesOK(t), ChainOK(t), Forward(N[m], t),
           \/ t.sent_votes = N[m].sent_votes
           \/ \E v : MaySign(N[m], v) /\ t.sent_votes = N[m].sent_votes \cup {v},
           Backed(t, Sent(N) \cup t.sent_votes)
    PROVE  Safe(With(N, m, t))
<1> DEFINE M == With(N, m, t)
           s == N[m]
<1>1. /\ M[m] = t /\ \A k \in Honest \ {m} : M[k] = N[k]
      /\ M \in [Honest -> NodeState]
  BY WithNode DEF Safe, With
<1> HIDE DEF M
<1>2. s.sent_votes \subseteq t.sent_votes
  OBVIOUS
<1>3. Sent(M) = Sent(N) \cup t.sent_votes
  BY <1>1, <1>2 DEF Sent
<1>4. ASSUME NEW k \in Honest
      PROVE  /\ M[k].node_id = k /\ VotesOK(M[k]) /\ ChainOK(M[k])
             /\ Backed(M[k], Sent(M))
  BY <1>1, <1>3, BackedStays DEF Safe
<1>5. ASSUME FewFaults, NEW k \in Honest, NEW w \in M[k].sent_votes,
             NEW v \in M[k].sent_votes, Switches(w, v)
      PROVE  /\ Hopeless(M, w.height, w.round, w.hash)
             /\ \E r \in Rounds :
                   /\ r > w.round
                   /\ Cardinality(VotersIn(Sent(M), w.height, r, "PREVOTE", v.hash)
                                  \ (IF r >= v.round THEN {k} ELSE {})) >= quorum
  <2>1. w \in Vote /\ v \in Vote /\ w.height \in Int /\ w.round \in Int
    BY <1>1, NodeNumbers, VoteNumbers
  <2>2. SUFFICES /\ Hopeless(N, w.height, w.round, w.hash)
                 /\ \E r \in Rounds :
                      /\ r > w.round
                      /\ Cardinality(VotersIn(Sent(N), w.height, r, "PREVOTE", v.hash)
                                     \ (IF r >= v.round THEN {k} ELSE {})) >= quorum
    <3>1. ASSUME NEW r, NEW own
          PROVE  LET A == VotersIn(Sent(N), w.height, r, "PREVOTE", v.hash) \ own
                     B == VotersIn(Sent(M), w.height, r, "PREVOTE", v.hash) \ own
                 IN  /\ Cardinality(A) \in Nat /\ Cardinality(B) \in Nat
                     /\ Cardinality(A) <= Cardinality(B)
      <4> DEFINE A == VotersIn(Sent(N), w.height, r, "PREVOTE", v.hash) \ own
                 B == VotersIn(Sent(M), w.height, r, "PREVOTE", v.hash) \ own
      <4>1. A \in SUBSET B
        BY <1>3 DEF VotersIn
      <4>2. B \in SUBSET VotersIn(Sent(M), w.height, r, "PREVOTE", v.hash)
        OBVIOUS
      <4>3. IsFiniteSet(B)
        BY <4>2, VotersType, FS_Subset
      <4> HIDE DEF A, B
      <4>4. /\ Cardinality(A) \in Nat /\ Cardinality(B) \in Nat
            /\ Cardinality(A) <= Cardinality(B)
        BY <4>1, <4>3, FS_Subset, FS_CardinalityType
      <4> QED
        BY <4>4 DEF A, B
    <3>2. Hopeless(N, w.height, w.round, w.hash) => Hopeless(M, w.height, w.round, w.hash)
      BY <2>1, HopelessStays DEF M
    <3> DEFINE A(r) == VotersIn(Sent(N), w.height, r, "PREVOTE", v.hash)
                          \ (IF r >= v.round THEN {k} ELSE {})
               B(r) == VotersIn(Sent(M), w.height, r, "PREVOTE", v.hash)
                          \ (IF r >= v.round THEN {k} ELSE {})
    <3>3. \A r : /\ Cardinality(A(r)) \in Nat /\ Cardinality(B(r)) \in Nat
                 /\ Cardinality(A(r)) <= Cardinality(B(r))
      BY <3>1
    <3>4. (\E r \in Rounds : r > w.round /\ Cardinality(A(r)) >= quorum)
             => (\E r \in Rounds : r > w.round /\ Cardinality(B(r)) >= quorum)
      <4> HIDE DEF A, B
      <4> QED
        BY <3>3, QuorumType
    <3> QED
      BY <3>2, <3>4
  <2>3. CASE w \in N[k].sent_votes /\ v \in N[k].sent_votes
    BY <1>5, <2>3 DEF Safe, SwitchSafe, SwitchJustified
  <2>4. CASE ~ (w \in N[k].sent_votes /\ v \in N[k].sent_votes)
    <3>1. k = m
      BY <1>1, <2>4
    <3>2. /\ s \in NodeState /\ VotesOK(s) /\ s.height \in Int /\ s.round \in Int
          /\ s.sent_votes \subseteq Vote
          /\ v.height \in Int /\ v.round \in Int
      BY <2>1, NodeNumbers, VoteNumbers DEF Safe
    <3>3. PICK x : MaySign(s, x) /\ t.sent_votes = s.sent_votes \cup {x}
      BY <1>1, <2>4, <3>1
    <3>4. x \notin s.sent_votes /\ w # v
      BY <1>1, <2>4, <3>1, <3>3, <1>5 DEF Switches
    <3>5. CASE v \in s.sent_votes
      <4>1. w = x
        BY <1>1, <2>4, <3>1, <3>3, <3>5
      <4>2. w \in t.sent_votes \ s.sent_votes
        BY <3>3, <3>4, <4>1
      <4>3. \/ w.height > s.height
            \/ w.height = s.height /\ w.round >= s.round
        BY <4>2 DEF Forward
      <4>4. v.height <= s.height /\ (v.height = s.height => v.round <= s.round)
        BY <3>2, <3>5 DEF VotesOK
      <4> QED
        BY <1>5, <2>1, <3>2, <4>3, <4>4 DEF Switches
    <3>6. CASE v \notin s.sent_votes
      <4>1. v = x /\ w \in s.sent_votes
        BY <1>1, <3>1, <3>3, <3>4, <3>6
      <4>2. ASSUME NEW y \in s.sent_votes, y.phase = v.phase, y.height = v.height
            PROVE  y.round < v.round
        <5>1. y \in t.sent_votes /\ v \in t.sent_votes /\ y # v
          BY <3>3, <3>4, <4>1
        <5>2. y.round # v.round
          BY <4>2, <5>1 DEF VotesOK
        <5>3. \/ v.height > s.height
              \/ v.height = s.height /\ v.round >= s.round
          BY <3>6, <5>1 DEF Forward
        <5>4. y.height <= s.height /\ (y.height = s.height => y.round <= s.round)
          BY <3>2 DEF VotesOK
        <5>5. y.round \in Int /\ y.height \in Int
          BY <3>2, VoteNumbers
        <5> QED
          BY <3>2, <4>2, <5>2, <5>3, <5>4, <5>5
      <4>3. /\ Hopeless(N, w.height, w.round, w.hash)
            /\ \E r \in Rounds :
                 /\ r > w.round
                 /\ CertifiedIn(Sent(N), w.height, r, "PREVOTE", v.hash)
                 /\ r >= v.round => m \notin VotersIn(Sent(N), w.height, r, "PREVOTE", v.hash)
        BY <1>5, <2>1, <3>3, <3>6, <4>1, <4>2, Unlocks DEF MaySign, Switches
      <4>4. PICK r \in Rounds :
                 /\ r > w.round
                 /\ CertifiedIn(Sent(N), w.height, r, "PREVOTE", v.hash)
                 /\ r >= v.round => m \notin VotersIn(Sent(N), w.height, r, "PREVOTE", v.hash)
        BY <4>3
      <4>5. VotersIn(Sent(N), w.height, r, "PREVOTE", v.hash)
               \ (IF r >= v.round THEN {k} ELSE {})
              = VotersIn(Sent(N), w.height, r, "PREVOTE", v.hash)
        BY <3>1, <4>4
      <4> QED
        BY <4>3, <4>4, <4>5 DEF CertifiedIn
    <3> QED
      BY <3>5, <3>6
  <2> QED
    BY <2>3, <2>4
<1>6. FewFaults => SwitchSafe(M) /\ SwitchJustified(M)
  BY <1>5 DEF SwitchSafe, SwitchJustified
<1> QED
  BY <1>1, <1>4, <1>6 DEF Safe, M
-----------------------------------------------------------------------------
(* Entering a round.                                                       *)

\* What entering a round signs, and that it keeps the node backed.
LEMMA EntersBacked ==
    ASSUME NEW u \in NodeState, NEW t \in NodeState, NEW r \in Rounds, NEW S,
           SameLock(u, t), Enters(u, t, r), Backed(u, S)
    PROVE  /\ \/ t.sent_votes = u.sent_votes
              \/ \E v : /\ t.sent_votes = u.sent_votes \cup {v}
                       /\ v \in Vote /\ v.phase = "PREVOTE" /\ v.height = u.height
                       /\ Obeys(u, v.hash)
           /\ Backed(t, S \cup t.sent_votes)
<1> DEFINE T == S \cup t.sent_votes
<1>1. Backed(u, T)
  BY BackedStays
<1>2. CASE t.sent_votes = u.sent_votes /\ t.votes = u.votes
  BY <1>1, <1>2
     DEF Backed, VotesHeld, LockBacked, PrecommitBacked, LedgerBacked, SameLock
<1>3. CASE Proposes(u, t, r)
  <2>1. PICK hash \in Hash \cup {NIL} :
           Obeys(u, hash) /\ Signs(u, t, OwnVote(u, r, "PREVOTE", hash))
    BY <1>3 DEF Proposes
  <2> DEFINE v == OwnVote(u, r, "PREVOTE", hash)
  <2>2. v.phase = "PREVOTE" /\ v.height = u.height /\ v.hash = hash /\ v.round = r
    BY DEF OwnVote
  <2>3. v \in Vote
    BY DEF OwnVote, Vote, NodeState, Phase
  <2>4. t.sent_votes = u.sent_votes \cup {v} /\ t.votes = u.votes \cup {v}
    BY <2>1 DEF Signs
  <2> HIDE DEF v
  <2>5. VotesHeld(t, T)
    BY <1>1, <2>2, <2>4 DEF Backed, VotesHeld, SameLock
  <2>6. LockBacked(t, T) /\ LedgerBacked(t, T)
    BY <1>1 DEF Backed, LockBacked, LedgerBacked, SameLock
  <2>7. PrecommitBacked(t, T)
    BY <1>1, <2>2, <2>4 DEF Backed, PrecommitBacked, SameLock
  <2> QED
    BY <2>1, <2>2, <2>3, <2>4, <2>5, <2>6, <2>7 DEF Backed
<1> QED
  BY <1>2, <1>3 DEF Enters

LEMMA NextRoundSafe ==
    ASSUME NEW N, Safe(N), NEW m \in Honest, NEW data \in Data,
           N[m].timers \subseteq {N[m].timeout_event}
    PROVE  SafeTo(N, m, enter_round(N[m], N[m].round + 1, data))
<1> DEFINE s == N[m]
           r == s.round + 1
           t == enter_round(s, r, data)
<1>1. /\ s \in NodeState /\ VotesOK(s) /\ ChainOK(s) /\ s.node_id = m
      /\ Backed(s, Sent(N)) /\ s.round \in Nat /\ s.sent_votes \subseteq Vote
  BY BoundAssumption DEF Safe, NodeState, Rounds
<1>2. t.round = r
  BY <1>1, EnterRoundRound
<1>3. SUFFICES ASSUME r <= MaxRound PROVE Safe(With(N, m, t))
  BY <1>2 DEF SafeTo
<1>4. r \in Rounds
  BY <1>1, <1>3, BoundAssumption DEF Rounds
<1>5. \A v \in s.sent_votes : v.height = s.height => v.round < r
  BY <1>1, VoteNumbers DEF VotesOK
<1>6. /\ Good(t) /\ t.node_id = s.node_id /\ SameLock(s, t) /\ Enters(s, t, r)
      /\ \A v \in t.sent_votes \ s.sent_votes : v.height = s.height /\ v.round >= r
  BY <1>1, <1>4, <1>5, EnterRound
<1>7. t \in NodeState /\ VotesOK(t) /\ ChainOK(t)
  BY <1>6 DEF Good
<1>8. /\ \/ t.sent_votes = s.sent_votes
         \/ \E v : /\ t.sent_votes = s.sent_votes \cup {v}
                  /\ v \in Vote /\ v.phase = "PREVOTE" /\ v.height = s.height
                  /\ Obeys(s, v.hash)
      /\ Backed(t, Sent(N) \cup t.sent_votes)
  BY <1>1, <1>4, <1>6, <1>7, EntersBacked
<1>9. Forward(s, t)
  <2>1. t.sent_votes \subseteq Vote
    BY <1>7, NodeNumbers
  <2> QED
    BY <1>1, <1>2, <1>6, <2>1, NodeNumbers, VoteNumbers DEF Forward, SameLock
<1>10. \/ t.sent_votes = s.sent_votes
       \/ \E v : MaySign(s, v) /\ t.sent_votes = s.sent_votes \cup {v}
  BY <1>1, <1>8, NodeNumbers DEF MaySign
<1> HIDE DEF t
<1> QED
  BY <1>1, <1>6, <1>7, <1>8, <1>9, <1>10, OneNode

-----------------------------------------------------------------------------
(* Quorums.                                                                *)

LEMMA CommitSafe ==
    ASSUME NEW N, Safe(N), NEW m \in Honest, Good(N[m]), NEW data \in Data,
           N[m].height < MaxHeight, N[m].locked_block # None, NEW r \in Rounds,
           CertifiedIn(Sent(N), N[m].height, r, "PRECOMMIT", block_hash(N[m].locked_block))
    PROVE  SafeTo(N, m, commit(N[m], data))
<1> DEFINE s == N[m]
           S == Sent(N)
           u == Decided(s)
           t == enter_round(u, 0, data)
<1>1. /\ s \in NodeState /\ s.node_id = m /\ Backed(s, S) /\ s.height \in Nat
      /\ Len(s.ledger) = s.height /\ s.ledger \in Seq(Block)
      /\ s.locked_block \in Block
  BY BoundAssumption DEF Safe, Good, ChainOK, NodeState, Heights
<1>2. /\ u \in NodeState /\ VotesOK(u) /\ ChainOK(u) /\ Forward(s, u)
      /\ u.timers \subseteq {u.timeout_event}
      /\ u.node_id = s.node_id /\ u.height = s.height + 1
      /\ u.ledger = Append(s.ledger, s.locked_block)
      /\ u.locked_block = None /\ u.locked_round = -1 /\ u.valid_block = None
      /\ u.votes = {} /\ u.sent_votes = s.sent_votes /\ 0 \in Rounds
      /\ \A v \in u.sent_votes : v.height = u.height => v.round < 0
  BY Decide
<1> HIDE DEF u
<1>3. Backed(u, S)
  <2>1. LockBacked(u, S) /\ VotesHeld(u, S)
    BY <1>2 DEF LockBacked, VotesHeld
  <2>2. PrecommitBacked(u, S)
    <3>1. \A w \in u.sent_votes : w.height # u.height
      BY <1>2, NodeNumbers, VoteNumbers
    <3> QED
      BY <1>1, <1>2, <3>1 DEF Backed, PrecommitBacked
  <2>3. LedgerBacked(u, S)
    <3>1. ASSUME NEW i \in 1 .. Len(u.ledger)
          PROVE  \E q \in Rounds : CertifiedIn(S, i - 1, q, "PRECOMMIT", block_hash(u.ledger[i]))
      <4>1. Len(u.ledger) = Len(s.ledger) + 1
        BY <1>1, <1>2
      <4>2. CASE i \in 1 .. Len(s.ledger)
        <5>1. u.ledger[i] = s.ledger[i]
          BY <1>1, <1>2, <4>2
        <5> QED
          BY <1>1, <4>2, <5>1 DEF Backed, LedgerBacked
      <4>3. CASE i = Len(s.ledger) + 1
        <5>1. u.ledger[i] = s.locked_block /\ i - 1 = s.height
          BY <1>1, <1>2, <4>3
        <5> QED
          BY <5>1
      <4> QED
        BY <1>1, <4>1, <4>2, <4>3
    <3> QED
      BY <3>1 DEF LedgerBacked
  <2> QED
    BY <2>1, <2>2, <2>3 DEF Backed
<1>4. /\ Good(t) /\ t.node_id = u.node_id /\ t.height = u.height
      /\ SameLock(u, t) /\ Enters(u, t, 0)
      /\ \A v \in t.sent_votes \ u.sent_votes : v.height = u.height /\ v.round >= 0
  BY <1>2, EnterRound
<1>5. t \in NodeState /\ VotesOK(t) /\ ChainOK(t)
  BY <1>4 DEF Good
<1>6. /\ \/ t.sent_votes = u.sent_votes
         \/ \E v : /\ t.sent_votes = u.sent_votes \cup {v}
                  /\ v \in Vote /\ v.phase = "PREVOTE" /\ v.height = u.height
                  /\ Obeys(u, v.hash)
      /\ Backed(t, S \cup t.sent_votes)
  BY <1>2, <1>3, <1>4, <1>5, EntersBacked
<1>7. Forward(s, t)
  BY <1>1, <1>2, <1>4 DEF Forward
<1>8. \/ t.sent_votes = s.sent_votes
      \/ \E v : MaySign(s, v) /\ t.sent_votes = s.sent_votes \cup {v}
  BY <1>1, <1>2, <1>6 DEF MaySign
<1>9. commit(s, data) = t
  BY DEF commit, u, Decided
<1> HIDE DEF t
<1> QED
  BY <1>1, <1>2, <1>4, <1>5, <1>6, <1>7, <1>8, <1>9, OneNode DEF SafeTo

LEMMA StaySafe ==
    ASSUME NEW N, Safe(N), NEW m \in Honest
    PROVE  SafeTo(N, m, N[m])
BY WithNode DEF SafeTo

LEMMA TallyPrecommitsSafe ==
    ASSUME NEW N, Safe(N), NEW m \in Honest, Good(N[m]), NEW data \in Data, NEW r,
           N[m].height < MaxHeight
    PROVE  SafeTo(N, m, tally_precommits(N[m], r, data))
<1> DEFINE s == N[m]
           W == winners(s, r, "PRECOMMIT")
           h == CHOOSE x \in W : TRUE
<1>1. s \in NodeState /\ VotesHeld(s, Sent(N)) /\ s.timers \subseteq {s.timeout_event}
  BY DEF Safe, Backed, Good, TimerOK
<1>2. SafeTo(N, m, on_precommit_nil_quorum(s, r, data))
  BY <1>1, NextRoundSafe, StaySafe DEF on_precommit_nil_quorum
<1>3. ASSUME W # {} PROVE SafeTo(N, m, on_precommit_quorum(s, h, data))
  <2>1. h \in W
    BY <1>3
  <2>2. CertifiedIn(Sent(N), s.height, r, "PRECOMMIT", h) /\ r \in Rounds
    BY <1>1, <2>1, Winner
  <2> HIDE DEF h
  <2> QED
    BY <2>2, CommitSafe, StaySafe DEF on_precommit_quorum
<1> HIDE DEF W
<1> QED
  BY <1>2, <1>3, StaySafe DEF tally_precommits, W
\* A handler that goes on from u.
LEMMA SafeCompose ==
    ASSUME NEW N, Safe(N), NEW m \in Honest, NEW u, NEW t,
           SafeTo(With(N, m, u), m, t)
    PROVE  SafeTo(N, m, t)
BY WithNode DEF SafeTo

LEMMA SendPrecommitSafe ==
    ASSUME NEW N, Safe(N), NEW m \in Honest, Good(N[m]), NEW data \in Data,
           N[m].height < MaxHeight, NEW hash \in Hash \cup {NIL},
           hash # NIL =>
              /\ CertifiedIn(Sent(N), N[m].height, N[m].round, "PREVOTE", hash)
              /\ N[m].locked_block # None /\ N[m].locked_round >= N[m].round
    PROVE  SafeTo(N, m, send_precommit(N[m], hash, data))
<1> DEFINE s == N[m]
           u == cast_vote(s, "PRECOMMIT", hash)
           v == OwnVote(s, s.round, "PRECOMMIT", hash)
<1>1. CASE has_voted(s, s.node_id, s.round, "PRECOMMIT")
  BY <1>1, StaySafe DEF send_precommit
<1>2. CASE ~ has_voted(s, s.node_id, s.round, "PRECOMMIT")
  <2>1. /\ s \in NodeState /\ VotesOK(s) /\ ChainOK(s) /\ TimerOK(s)
        /\ s.node_id = m /\ Backed(s, Sent(N)) /\ s.height \in Int
    BY NodeNumbers DEF Good, Safe
  <2>2. Unsigned(s, s.round, "PRECOMMIT")
    BY <1>2, <2>1 DEF Unsigned, VotesOK, has_voted
  <2>3. /\ u \in NodeState /\ VotesOK(u) /\ ChainOK(u) /\ Forward(s, u)
        /\ u.timers = s.timers /\ u.timeout_event = s.timeout_event
        /\ u.height = s.height /\ u.round = s.round
        /\ u.node_id = s.node_id /\ SameLock(s, u)
        /\ u.votes = s.votes \cup {v} /\ u.sent_votes = s.sent_votes \cup {v}
    BY <2>1, <2>2, CastVote DEF Phase, Signs
  <2>4. Good(u)
    BY <2>1, <2>3 DEF Good, TimerOK
  <2>5. /\ v \in Vote /\ v.phase = "PRECOMMIT" /\ v.height = s.height
        /\ v.round = s.round /\ v.hash = hash
    <3>1. v \in u.sent_votes /\ u.sent_votes \subseteq Vote
      BY <2>3, NodeNumbers
    <3> QED
      BY <3>1 DEF OwnVote
  <2> HIDE DEF u, v
  <2> DEFINE T == Sent(N) \cup u.sent_votes
  <2>6. Backed(s, T)
    BY <2>1, BackedStays
  <2>7. VotesHeld(u, T) /\ LockBacked(u, T) /\ LedgerBacked(u, T)
    BY <2>3, <2>5, <2>6 DEF Backed, VotesHeld, LockBacked, LedgerBacked, SameLock
  <2>8. PrecommitBacked(u, T)
    <3>1. hash # NIL => CertifiedIn(T, s.height, s.round, "PREVOTE", hash)
      BY CertifiedStays
    <3> QED
      BY <2>3, <2>5, <2>6, <3>1 DEF Backed, PrecommitBacked, SameLock
  <2>9. MaySign(s, v)
    BY <2>1, <2>5 DEF MaySign
  <2>10. Safe(With(N, m, u))
    BY <2>1, <2>3, <2>7, <2>8, <2>9, OneNode DEF Backed
  <2>11. With(N, m, u)[m] = u
    BY WithNode
  <2>12. SafeTo(With(N, m, u), m, tally_precommits(u, s.round, data))
    BY <2>3, <2>4, <2>10, <2>11, TallyPrecommitsSafe
  <2>13. SafeTo(N, m, tally_precommits(u, s.round, data))
    BY <2>12, SafeCompose
  <2> QED
    BY <1>2, <2>13 DEF send_precommit, u
<1> QED
  BY <1>1, <1>2

LEMMA OnPrevoteQuorumSafe ==
    ASSUME NEW N, Safe(N), NEW m \in Honest, Good(N[m]), NEW data \in Data,
           N[m].height < MaxHeight, NEW r \in Rounds, NEW b \in Block,
           Extends(N[m], b),
           CertifiedIn(Sent(N), N[m].height, r, "PREVOTE", block_hash(b))
    PROVE  SafeTo(N, m, on_prevote_quorum(N[m], r, b, data))
<1> DEFINE s == N[m]
           u == Locked(s, r, b)
<1>1. /\ Good(u) /\ Forward(s, u)
      /\ u.height = s.height /\ u.round = s.round /\ u.node_id = s.node_id
      /\ u.ledger = s.ledger /\ u.votes = s.votes /\ u.sent_votes = s.sent_votes
      /\ IF r >= s.locked_round
         THEN u.locked_block = b /\ u.locked_round = r
         ELSE u.locked_block = s.locked_block /\ u.locked_round = s.locked_round
      /\ IF r >= s.valid_round
         THEN u.valid_block = b /\ u.valid_round = r
         ELSE u.valid_block = s.valid_block /\ u.valid_round = s.valid_round
  BY Lock
<1>2. /\ s \in NodeState /\ s.node_id = m /\ Backed(s, Sent(N))
      /\ s.locked_round \in Int /\ r \in Int /\ r >= 0 /\ b # None
      /\ s.sent_votes \subseteq Vote
  BY NodeNumbers, BoundAssumption, SentinelAssumption DEF Safe, Rounds
<1>3. on_prevote_quorum(s, r, b, data) =
        IF r = s.round /\ s.step = "PREVOTE"
        THEN send_precommit(u, block_hash(b), data) ELSE u
  BY DEF on_prevote_quorum, Locked
<1> HIDE DEF u
<1>4. Backed(u, Sent(N))
  <2>1. VotesHeld(u, Sent(N)) /\ LedgerBacked(u, Sent(N))
    BY <1>1, <1>2 DEF Backed, VotesHeld, LedgerBacked
  <2>2. LockBacked(u, Sent(N))
    BY <1>1, <1>2 DEF Backed, LockBacked
  <2>3. PrecommitBacked(u, Sent(N))
    <3>1. /\ s.locked_block # None => u.locked_block # None
          /\ u.locked_round >= s.locked_round
      BY <1>1, <1>2
    <3>2. u.locked_round \in Int /\ \A w \in s.sent_votes : w.round \in Int
      BY <1>1, <1>2, NodeNumbers, VoteNumbers DEF Good
    <3> QED
      BY <1>1, <1>2, <3>1, <3>2 DEF Backed, PrecommitBacked
  <2> QED
    BY <2>1, <2>2, <2>3 DEF Backed
<1>5. Safe(With(N, m, u)) /\ With(N, m, u)[m] = u
  <2>1. Sent(N) \cup u.sent_votes = Sent(N)
    BY <1>1 DEF Sent
  <2> QED
    BY <1>1, <1>2, <1>4, <2>1, OneNode, WithNode DEF Good
<1>6. Sent(With(N, m, u)) = Sent(N)
  BY <1>1, WithNode DEF Sent
<1>7. r = s.round => u.locked_block # None /\ u.locked_round >= u.round
  BY <1>1, <1>2 DEF Backed, LockBacked
<1>8. block_hash(b) \in Hash \cup {NIL}
  BY HashType
<1>9. SafeTo(With(N, m, u), m, u)
  BY <1>5, StaySafe
<1>10. r = s.round =>
          SafeTo(With(N, m, u), m, send_precommit(u, block_hash(b), data))
  BY <1>1, <1>5, <1>6, <1>7, <1>8, SendPrecommitSafe
<1> QED
  BY <1>3, <1>9, <1>10, SafeCompose

LEMMA TallyPrevotesSafe ==
    ASSUME NEW N, Safe(N), NEW m \in Honest, Good(N[m]), NEW data \in Data,
           N[m].height < MaxHeight, NEW r \in Rounds
    PROVE  SafeTo(N, m, tally_prevotes(N[m], r, data))
<1> DEFINE s == N[m]
           W == winners(s, r, "PREVOTE")
           P == {p \in s.proposals : p.round = r /\ block_hash(p.block) \in W}
           p0 == CHOOSE p \in P : TRUE
<1>1. s \in NodeState /\ ChainOK(s) /\ VotesHeld(s, Sent(N))
  BY DEF Safe, Backed
<1>2. SafeTo(N, m, on_prevote_nil_quorum(s, r, data))
  BY SendPrecommitSafe, StaySafe DEF on_prevote_nil_quorum
<1>3. ASSUME P # {}
      PROVE  SafeTo(N, m, on_prevote_quorum(s, r, p0.block, data))
  <2>1. p0 \in P
    BY <1>3
  <2>2. p0.block \in Block /\ Extends(s, p0.block) /\ block_hash(p0.block) \in W
    BY <1>1, <2>1 DEF NodeState, Proposal, ChainOK
  <2> HIDE DEF p0
  <2>3. CertifiedIn(Sent(N), s.height, r, "PREVOTE", block_hash(p0.block))
    BY <1>1, <2>2, Winner
  <2> QED
    BY <2>2, <2>3, OnPrevoteQuorumSafe
<1> HIDE DEF W
<1> QED
  BY <1>2, <1>3, StaySafe DEF tally_prevotes, W
-----------------------------------------------------------------------------
(* Messages.                                                               *)

LEMMA HandleProposalSafe ==
    ASSUME NEW N, Safe(N), NEW m \in Honest, Good(N[m]), NEW data \in Data,
           N[m].height < MaxHeight, NEW r \in Rounds, NEW b \in Block,
           Extends(N[m], b)
    PROVE  SafeTo(N, m, handle_proposal_local(N[m], b, r, data))
<1> DEFINE s == N[m]
           u == Stored(s, b, r)
           hash == prevote_hash(u, b, r)
           c == cast_vote(u, "PREVOTE", hash)
           M == With(N, m, u)
<1>1. /\ Good(u) /\ Forward(s, u) /\ SameLock(s, u)
      /\ u.round = s.round /\ u.node_id = s.node_id
      /\ u.votes = s.votes /\ u.sent_votes = s.sent_votes
  BY Store
<1>2. handle_proposal_local(s, b, r, data) =
        IF \/ r # u.round \/ u.step # "PROPOSE"
           \/ has_voted(u, u.node_id, r, "PREVOTE")
        THEN u ELSE tally_prevotes(c, r, data)
  BY DEF handle_proposal_local, Stored
<1>3. hash \in Hash \cup {NIL} /\ Obeys(u, hash)
  BY PrevoteHashType DEF prevote_hash, Obeys
<1> HIDE DEF u, hash
<1>4. /\ u \in NodeState /\ VotesOK(u) /\ ChainOK(u) /\ TimerOK(u)
      /\ u.node_id = m /\ u.height < MaxHeight /\ s.node_id = m
      /\ u.height \in Int
  BY <1>1, NodeNumbers DEF Good, Safe, SameLock
<1>5. Sent(N) \cup u.sent_votes = Sent(N) /\ Backed(u, Sent(N))
  <2>1. Backed(s, Sent(N))
    BY DEF Safe
  <2>2. Backed(u, Sent(N))
    BY <1>1, <2>1
       DEF Backed, VotesHeld, LockBacked, PrecommitBacked, LedgerBacked, SameLock
  <2> QED
    BY <1>1, <2>2 DEF Sent
<1>6. Safe(M) /\ M[m] = u
  BY <1>1, <1>4, <1>5, OneNode, WithNode
<1> HIDE DEF M
<1>7. SafeTo(M, m, u)
  BY <1>6, StaySafe
<1>8. ASSUME r = u.round, ~ has_voted(u, u.node_id, r, "PREVOTE")
      PROVE  SafeTo(M, m, tally_prevotes(c, r, data))
  <2> DEFINE v == OwnVote(u, u.round, "PREVOTE", hash)
             T == Sent(M) \cup c.sent_votes
  <2>1. Unsigned(u, u.round, "PREVOTE")
    BY <1>4, <1>8 DEF Unsigned, VotesOK, has_voted
  <2>2. /\ c \in NodeState /\ VotesOK(c) /\ ChainOK(c) /\ Forward(u, c)
        /\ c.timers = u.timers /\ c.timeout_event = u.timeout_event
        /\ c.height = u.height /\ c.round = u.round
        /\ c.node_id = u.node_id /\ SameLock(u, c)
        /\ c.votes = u.votes \cup {v} /\ c.sent_votes = u.sent_votes \cup {v}
    BY <1>3, <1>4, <2>1, CastVote DEF Phase, Signs
  <2>3. /\ v \in Vote /\ v.phase = "PREVOTE" /\ v.height = u.height
        /\ v.hash = hash
    <3>1. v \in c.sent_votes /\ c.sent_votes \subseteq Vote
      BY <2>2, NodeNumbers
    <3> QED
      BY <3>1 DEF OwnVote
  <2>4. MaySign(u, v)
    BY <1>3, <1>4, <2>3 DEF MaySign
  <2> HIDE DEF c, v
  <2>5. Backed(u, T)
    BY <1>6, BackedStays DEF Safe
  <2>6. Backed(c, T)
    <3>1. VotesHeld(c, T) /\ LockBacked(c, T) /\ LedgerBacked(c, T)
      BY <2>2, <2>3, <2>5 DEF Backed, VotesHeld, LockBacked, LedgerBacked, SameLock
    <3>2. PrecommitBacked(c, T)
      BY <2>2, <2>3, <2>5 DEF Backed, PrecommitBacked, SameLock
    <3> QED
      BY <3>1, <3>2 DEF Backed
  <2>7. Safe(With(M, m, c)) /\ With(M, m, c)[m] = c
    BY <1>4, <1>6, <2>2, <2>4, <2>6, OneNode, WithNode
  <2>8. Good(c) /\ c.height < MaxHeight
    BY <1>4, <2>2 DEF Good, TimerOK
  <2>9. SafeTo(With(M, m, c), m, tally_prevotes(c, r, data))
    BY <2>7, <2>8, TallyPrevotesSafe
  <2> QED
    BY <1>6, <2>9, SafeCompose
<1> QED
  BY <1>2, <1>7, <1>8, SafeCompose DEF M

LEMMA OnProposalSafe ==
    ASSUME NEW N, Safe(N), NEW m \in Honest, Good(N[m]), NEW data \in Data,
           N[m].height < MaxHeight, NEW p \in Proposal
    PROVE  SafeTo(N, m, on_proposal(N[m], p, data))
<1>1. p.block \in Block /\ p.round \in Rounds
  BY DEF Proposal
<1> QED
  BY <1>1, HandleProposalSafe, StaySafe DEF on_proposal, accept_header, Extends

LEMMA OnVoteSafe ==
    ASSUME NEW N, Safe(N), NEW m \in Honest, Good(N[m]), NEW data \in Data,
           N[m].height < MaxHeight, NEW v \in Vote,
           v.validator \in Byzantine \/ v \in Sent(N)
    PROVE  SafeTo(N, m, on_vote(N[m], v, data))
<1> DEFINE s == N[m]
           u == WithVote(s, v)
           M == With(N, m, u)
<1>1. CASE v.height # s.height \/ has_voted(s, v.validator, v.round, v.phase)
  BY <1>1, StaySafe DEF on_vote
<1>2. CASE ~ (v.height # s.height \/ has_voted(s, v.validator, v.round, v.phase))
  <2>1. /\ Good(u) /\ Forward(s, u) /\ SameLock(s, u) /\ u.node_id = s.node_id
        /\ u.votes = s.votes \cup {v} /\ u.sent_votes = s.sent_votes
    BY Count
  <2>2. on_vote(s, v, data) = IF v.phase = "PREVOTE" THEN tally_prevotes(u, v.round, data)
                              ELSE tally_precommits(u, v.round, data)
    BY <1>2 DEF on_vote, WithVote
  <2> HIDE DEF u
  <2>3. /\ u \in NodeState /\ VotesOK(u) /\ ChainOK(u)
        /\ u.node_id = m /\ u.height < MaxHeight /\ Backed(s, Sent(N))
    BY <2>1 DEF Good, Safe, SameLock
  <2>4. Sent(N) \cup u.sent_votes = Sent(N)
    BY <2>1 DEF Sent
  <2>5. Backed(u, Sent(N))
    <3>1. VotesHeld(u, Sent(N))
      BY <1>2, <2>1, <2>3 DEF Backed, VotesHeld, SameLock
    <3> QED
      BY <2>1, <2>3, <3>1
         DEF Backed, LockBacked, PrecommitBacked, LedgerBacked, SameLock
  <2>6. Safe(M) /\ M[m] = u
    BY <2>1, <2>3, <2>4, <2>5, OneNode, WithNode
  <2> HIDE DEF M
  <2>7. /\ SafeTo(M, m, tally_prevotes(u, v.round, data))
        /\ SafeTo(M, m, tally_precommits(u, v.round, data))
    BY <2>1, <2>3, <2>6, VoteNumbers, TallyPrevotesSafe, TallyPrecommitsSafe
  <2> QED
    BY <2>2, <2>7, SafeCompose DEF M
<1> QED
  BY <1>1, <1>2

-----------------------------------------------------------------------------
(* The events.                                                             *)

LEMMA InitSafe == Init => Safe(node)
<1> SUFFICES ASSUME Init PROVE Safe(node)
  OBVIOUS
<1>1. Inv
  BY InitInv
<1>2. ASSUME NEW k \in Honest
      PROVE  /\ node[k].sent_votes = {} /\ node[k].votes = {} /\ node[k].ledger = <<>>
             /\ node[k].locked_block = None /\ node[k].locked_round = -1
             /\ node[k].valid_block = None
  <2>1. node[k] = NewNode(k)
    BY DEF Init
  <2> QED
    BY <2>1 DEF NewNode
<1>3. ASSUME NEW k \in Honest PROVE Backed(node[k], Sent(node))
  BY <1>2 DEF Backed, VotesHeld, LockBacked, PrecommitBacked, LedgerBacked
<1>4. SwitchSafe(node) /\ SwitchJustified(node)
  BY <1>2 DEF SwitchSafe, SwitchJustified
<1> QED
  BY <1>1, <1>3, <1>4 DEF Safe, Inv, TypeOK

LEMMA SafeBecome ==
    ASSUME Inv, NEW m \in Honest, NEW t, Become(m, t), SafeTo(node, m, t)
    PROVE  Safe(node')
BY DEF Become, InBounds, SafeTo, With

LEMMA SafeDeliver ==
    ASSUME Inv, Safe(node), NEW m \in Honest, DeliverProposal(m) \/ DeliverVote(m)
    PROVE  Safe(node')
<1>1. Good(node[m]) /\ node[m].height < MaxHeight
  BY DEF DeliverProposal, DeliverVote, Running, Inv, TypeOK, Good
<1>2. CASE DeliverProposal(m)
  <2>1. PICK p \in Proposals, data \in Data : \E q \in AsHeld(p) :
           Become(m, on_proposal(node[m], q, data))
    BY <1>2 DEF DeliverProposal
  <2>2. PICK q \in AsHeld(p) : Become(m, on_proposal(node[m], q, data))
    BY <2>1
  <2>3. q \in Proposal
    BY <2>2, ProposalsType, AsHeldType
  <2> QED
    BY <1>1, <2>2, <2>3, OnProposalSafe, SafeBecome
<1>3. CASE DeliverVote(m)
  <2>1. PICK v \in Votes, data \in Data : Become(m, on_vote(node[m], v, data))
    BY <1>3 DEF DeliverVote
  <2>2. v \in Vote /\ (v.validator \in Byzantine \/ v \in Sent(node))
    BY <2>1, VotesType DEF Votes, HonestVotes, ByzantineVotes, Sent
  <2> QED
    BY <1>1, <2>1, <2>2, OnVoteSafe, SafeBecome
<1> QED
  BY <1>2, <1>3

LEMMA SafeTimeout ==
    ASSUME Inv, Safe(node), NEW m \in Honest, RoundTimeout(m)
    PROVE  Safe(node')
<1>1. PICK e \in node[m].timers, data \in Data :
         Become(m, enter_round([node[m] EXCEPT !.timers = @ \ {e}],
                               [node[m] EXCEPT !.timers = @ \ {e}].round + 1, data))
  BY DEF RoundTimeout
<1> DEFINE s == node[m]
           u == [s EXCEPT !.timers = @ \ {e}]
           M == With(node, m, u)
<1>2. /\ s \in NodeState /\ VotesOK(s) /\ ChainOK(s) /\ TimerOK(s) /\ s.node_id = m
      /\ e = s.timeout_event
  BY DEF Inv, TypeOK, NotStarted, TimerOK
<1>3. s.timers \ {e} \in SUBSET (Heights \X Rounds)
  BY <1>2 DEF NodeState
<1>4. /\ u \in NodeState /\ u.timers = s.timers \ {e}
      /\ u.timeout_event = s.timeout_event
      /\ u.sent_votes = s.sent_votes /\ u.votes = s.votes
      /\ u.round = s.round /\ u.node_id = s.node_id
      /\ SameLock(s, u) /\ u.proposals = s.proposals
  BY <1>2, <1>3, SMTT(30) DEF NodeState, SameLock
<1> HIDE DEF u
<1>5. VotesOK(u) /\ ChainOK(u)
  BY <1>2, <1>4 DEF VotesOK, ChainOK, Extends, parent_hash, SameLock
<1>6. Forward(s, u)
  BY <1>2, <1>4, NodeNumbers DEF Forward, SameLock
<1>7. Backed(u, Sent(node)) /\ Sent(node) \cup u.sent_votes = Sent(node)
  <2>1. Backed(s, Sent(node))
    BY DEF Safe
  <2> QED
    BY <1>4, <2>1 DEF Sent, Backed, VotesHeld, LockBacked, PrecommitBacked,
                      LedgerBacked, SameLock
<1>8. Safe(M) /\ M[m] = u
  BY <1>2, <1>4, <1>5, <1>6, <1>7, OneNode, WithNode
<1>9. u.timers \subseteq {u.timeout_event}
  BY <1>2, <1>4 DEF TimerOK
<1> HIDE DEF M
<1>10. SafeTo(M, m, enter_round(u, u.round + 1, data))
  BY <1>8, <1>9, NextRoundSafe
<1>11. SafeTo(node, m, enter_round(u, u.round + 1, data))
  BY <1>10, SafeCompose DEF M
<1> QED
  BY <1>1, <1>11, SafeBecome DEF u

LEMMA SafeCrash ==
    ASSUME Inv, Safe(node), NEW m \in Honest, Crash(m)
    PROVE  Safe(node')
<1> DEFINE s == node[m]
           t == [s EXCEPT !.crashed = TRUE]
<1>1. s \in NodeState /\ s.node_id = m /\ VotesOK(s) /\ ChainOK(s)
  BY DEF Safe
<1>2. /\ t \in NodeState /\ t.node_id = m
      /\ t.sent_votes = s.sent_votes /\ t.votes = s.votes
      /\ t.round = s.round /\ SameLock(s, t) /\ t.proposals = s.proposals
  BY <1>1 DEF NodeState, SameLock
<1>3. node' = With(node, m, t)
  BY DEF Crash, With
<1> HIDE DEF t
<1>4. VotesOK(t) /\ ChainOK(t)
  BY <1>1, <1>2 DEF VotesOK, ChainOK, Extends, parent_hash, SameLock
<1>5. Forward(s, t)
  BY <1>1, <1>2, NodeNumbers DEF Forward, SameLock
<1>6. Backed(t, Sent(node)) /\ Sent(node) \cup t.sent_votes = Sent(node)
  <2>1. Backed(s, Sent(node))
    BY DEF Safe
  <2> QED
    BY <1>2, <2>1 DEF Sent, Backed, VotesHeld, LockBacked, PrecommitBacked,
                      LedgerBacked, SameLock
<1> QED
  BY <1>1, <1>2, <1>3, <1>4, <1>5, <1>6, OneNode

\* The nodes start together, and sign at most a prevote each.
LEMMA SafeStart ==
    ASSUME Inv, Safe(node), Start
    PROVE  Safe(node')
<1>1. Inv'
  BY StartStep
<1>2. PICK data \in [Honest -> Data] :
         node' = [m \in Honest |-> IF node[m].crashed THEN node[m]
                                   ELSE enter_round(node[m], 0, data[m])]
  BY DEF Start
<1>3. ~ Started
  BY DEF Start
<1>4. ASSUME NEW m \in Honest
      PROVE  /\ Backed(node'[m], Sent(node) \cup node'[m].sent_votes)
             /\ \A v \in node'[m].sent_votes : v.phase = "PREVOTE"
             /\ node[m].sent_votes = {}
  <2> DEFINE s == node[m]
             t == enter_round(s, 0, data[m])
  <2>1. /\ s \in NodeState /\ VotesOK(s) /\ ChainOK(s) /\ NotStarted(s)
        /\ Backed(s, Sent(node)) /\ s.sent_votes = {}
    BY <1>3 DEF Inv, TypeOK, TimerOK, Started, Safe, NotStarted
  <2>2. CASE s.crashed
    BY <1>2, <2>1, <2>2, BackedStays
  <2>3. CASE ~ s.crashed
    <3>1. node'[m] = t
      BY <1>2, <2>3
    <3>2. s.timers \subseteq {s.timeout_event} /\ 0 \in Rounds /\ data[m] \in Data
      BY <2>1, BoundAssumption DEF NotStarted, Rounds
    <3>3. Good(t) /\ SameLock(s, t) /\ Enters(s, t, 0)
      BY <2>1, <3>2, EnterRound
    <3>4. /\ \/ t.sent_votes = s.sent_votes
             \/ \E v : /\ t.sent_votes = s.sent_votes \cup {v}
                      /\ v \in Vote /\ v.phase = "PREVOTE" /\ v.height = s.height
                      /\ Obeys(s, v.hash)
          /\ Backed(t, Sent(node) \cup t.sent_votes)
      BY <2>1, <3>2, <3>3, EntersBacked DEF Good
    <3> QED
      BY <2>1, <3>1, <3>4
  <2> QED
    BY <2>2, <2>3
<1>5. ASSUME NEW k \in Honest
      PROVE  /\ node'[k].node_id = k /\ VotesOK(node'[k]) /\ ChainOK(node'[k])
             /\ Backed(node'[k], Sent(node'))
  <2>1. Sent(node) \cup node'[k].sent_votes \subseteq Sent(node')
    BY <1>4 DEF Sent
  <2>2. Backed(node'[k], Sent(node'))
    BY <1>4, <2>1, BackedStays
  <2> QED
    BY <1>1, <2>2 DEF Inv, TypeOK, VotesOK, ChainOK, Extends, parent_hash
<1>6. SwitchSafe(node') /\ SwitchJustified(node')
  BY <1>4 DEF SwitchSafe, SwitchJustified, Switches
<1> QED
  BY <1>1, <1>5, <1>6 DEF Safe, Inv, TypeOK

SafeInv == Inv /\ Safe(node)

LEMMA SafeInvStep == SafeInv /\ [Next]_node => SafeInv'
<1> SUFFICES ASSUME SafeInv, [Next]_node PROVE Safe(node')
  BY InvStep DEF SafeInv
<1>1. CASE UNCHANGED node
  BY <1>1 DEF SafeInv
<1> QED
  BY <1>1, SafeStart, SafeDeliver, SafeTimeout, SafeCrash DEF Next, SafeInv

LEMMA SpecSafe == Spec => []SafeInv
<1>1. Init => SafeInv
  BY InitInv, InitSafe DEF SafeInv
<1> QED
  BY <1>1, SafeInvStep, PTL DEF Spec

-----------------------------------------------------------------------------
(* The properties.                                                         *)

LEMMA FewFaultsOf3f1 ==
    ASSUME NEW k \in Nat, n = 3 * k + 1, Cardinality(Byzantine) <= k
    PROVE  FewFaults
<1>1. Cardinality(Byzantine) \in Nat
  BY ValidatorAssumption, FS_Subset, FS_CardinalityType
<1> HIDE DEF n
<1>2. f = k
  BY DEF f
<1> QED
  BY <1>1, <1>2 DEF FewFaults, quorum

\* Safe counts the votes of all honest validators, the properties each one's
\* own: nobody signs for an honest validator.
LEMMA SameVoters ==
    ASSUME Safe(node), NEW height, NEW r, NEW phase, NEW hash
    PROVE  Voters(height, r, phase, hash) = VotersIn(Sent(node), height, r, phase, hash)
<1> DEFINE v(k) == [validator |-> k, height |-> height, round |-> r,
                    phase |-> phase, hash |-> hash]
<1>1. \A k \in Honest : v(k) \in Sent(node) <=> v(k) \in node[k].sent_votes
  <2> SUFFICES ASSUME NEW k \in Honest, v(k) \in Sent(node)
               PROVE  v(k) \in node[k].sent_votes
    BY DEF Sent
  <2> QED
    BY OwnSent
<1> QED
  BY <1>1 DEF Voters, VotersIn

\* What is decided at a height had a precommit quorum, and before that a prevote
\* quorum of the same round.
LEMMA DecisionHasPrevotes ==
    ASSUME FewFaults, NEW N, Safe(N), NEW height, NEW r, NEW x, x # NIL,
           CertifiedIn(Sent(N), height, r, "PRECOMMIT", x)
    PROVE  CertifiedIn(Sent(N), height, r, "PREVOTE", x)
<1> DEFINE w(k) == [validator |-> k, height |-> height, round |-> r,
                    phase |-> "PRECOMMIT", hash |-> x]
<1>1. PICK k \in Honest : k \in VotersIn(Sent(N), height, r, "PRECOMMIT", x)
  BY VotersType, QuorumsMeet DEF CertifiedIn
<1>2. w(k) \in N[k].sent_votes
  BY <1>1, OwnSent DEF VotersIn, Honest
<1>3. PrecommitBacked(N[k], Sent(N))
  BY DEF Safe, Backed
<1> QED
  BY <1>2, <1>3 DEF PrecommitBacked

\* An earlier and a later precommit quorum are for the same block.
LEMMA EarlierDecision ==
    ASSUME FewFaults, NEW N, Safe(N), NEW height, NEW r \in Rounds, NEW q \in Rounds,
           NEW x, NEW y, x # NIL, y # NIL, r < q,
           CertifiedIn(Sent(N), height, r, "PRECOMMIT", x),
           CertifiedIn(Sent(N), height, q, "PRECOMMIT", y)
    PROVE  x = y
<1> SUFFICES ASSUME x # y PROVE FALSE
  OBVIOUS
<1>1. Hopeless(N, height, r, x)
  BY DecisionHasPrevotes, Settled
<1>2. VotersIn(Sent(N), height, r, "PRECOMMIT", x) \in SUBSET Potential(N, height, r, x)
  BY OwnSent DEF VotersIn, Potential, Honest
<1>3. Cardinality(VotersIn(Sent(N), height, r, "PRECOMMIT", x))
        <= Cardinality(Potential(N, height, r, x))
  BY <1>2, PotentialType, FS_Subset
<1> QED
  BY <1>1, <1>3, VotersType, PotentialType, QuorumType DEF CertifiedIn, Hopeless

LEMMA OneDecision ==
    ASSUME FewFaults, NEW N, Safe(N), NEW height, NEW r \in Rounds, NEW q \in Rounds,
           NEW x, NEW y, x # NIL, y # NIL,
           CertifiedIn(Sent(N), height, r, "PRECOMMIT", x),
           CertifiedIn(Sent(N), height, q, "PRECOMMIT", y)
    PROVE  x = y
<1>1. r < q \/ q < r \/ r = q
  BY BoundAssumption DEF Rounds
<1>2. CASE r < q
  BY <1>2, EarlierDecision
<1>3. CASE q < r
  BY <1>3, EarlierDecision
<1>4. CASE r = q
  BY <1>4, OneCertificate
<1> QED
  BY <1>1, <1>2, <1>3, <1>4

LEMMA SafeAgreement ==
    ASSUME FewFaults, Safe(node)
    PROVE  Agreement
<1> SUFFICES ASSUME NEW m \in Honest, NEW k \in Honest,
                    NEW i \in 1 .. Len(node[m].ledger), i <= Len(node[k].ledger)
             PROVE  block_hash(node[m].ledger[i]) = block_hash(node[k].ledger[i])
  BY DEF Agreement
<1> DEFINE x == block_hash(node[m].ledger[i])
           y == block_hash(node[k].ledger[i])
<1>1. node[m].ledger \in Seq(Block) /\ node[k].ledger \in Seq(Block)
  BY DEF Safe, NodeState
<1>2. i \in 1 .. Len(node[k].ledger)
  BY <1>1
<1>3. node[m].ledger[i] \in Block /\ node[k].ledger[i] \in Block
  BY <1>1, <1>2
<1>4. x # NIL /\ y # NIL
  BY <1>3, HashType, SentinelAssumption
<1>5. LedgerBacked(node[m], Sent(node)) /\ LedgerBacked(node[k], Sent(node))
  BY DEF Safe, Backed
<1>6. PICK r \in Rounds : CertifiedIn(Sent(node), i - 1, r, "PRECOMMIT", x)
  BY <1>5 DEF LedgerBacked
<1>7. PICK q \in Rounds : CertifiedIn(Sent(node), i - 1, q, "PRECOMMIT", y)
  BY <1>2, <1>5 DEF LedgerBacked
<1> HIDE DEF x, y
<1>8. x = y
  BY <1>4, <1>6, <1>7, OneDecision
<1> QED
  BY <1>8 DEF x, y

\* A lock or a valid block is backed by a prevote quorum of the round recorded
\* for it, with any number of Byzantine validators (rule 4).
THEOREM EngineLockIsCertified == Spec => []LockIsCertified
<1>1. SafeInv => LockIsCertified
  BY SameVoters DEF SafeInv, Safe, Backed, LockBacked, CertifiedIn, Certified,
                    LockIsCertified
<1> QED
  BY <1>1, SpecSafe, PTL

\* A finalized block has a precommit quorum of one round.
THEOREM EngineDecisionIsCertified == Spec => []DecisionIsCertified
<1>1. SafeInv => DecisionIsCertified
  BY SameVoters DEF SafeInv, Safe, Backed, LedgerBacked, CertifiedIn, Certified,
                    DecisionIsCertified
<1> QED
  BY <1>1, SpecSafe, PTL

\* A validator that precommitted a block prevotes for another one only after a
\* prevote quorum of a later round for another block, to which its own votes of
\* that round or later add nothing (rule 5).
THEOREM EngineUnlockIsJustified ==
    ASSUME FewFaults
    PROVE  Spec => []UnlockIsJustified
<1>1. ASSUME SafeInv PROVE UnlockIsJustified
  <2> SUFFICES ASSUME NEW m \in Honest, NEW w \in node[m].sent_votes,
                      NEW v \in node[m].sent_votes, Switches(w, v)
               PROVE  \E r \in w.round + 1 .. MaxRound :
                      \E hash \in {x.hash : x \in HonestVotes} \ {NIL, w.hash} :
                         LET own == IF r >= v.round THEN {m} ELSE {}
                         IN  Cardinality(Voters(w.height, r, "PREVOTE", hash) \ own)
                                >= quorum
    BY DEF UnlockIsJustified, Switches
  <2>1. PICK r \in Rounds :
          /\ r > w.round
          /\ Cardinality(VotersIn(Sent(node), w.height, r, "PREVOTE", v.hash)
                         \ (IF r >= v.round THEN {m} ELSE {})) >= quorum
    BY <1>1 DEF SafeInv, Safe, SwitchJustified
  <2>2. w \in Vote
    BY <1>1, NodeNumbers DEF SafeInv, Safe
  <2>3. r \in w.round + 1 .. MaxRound
    BY <2>1, <2>2, VoteNumbers, BoundAssumption DEF Rounds
  <2>4. v.hash \in {x.hash : x \in HonestVotes} \ {NIL, w.hash}
    BY DEF HonestVotes, Switches
  <2>5. Cardinality(Voters(w.height, r, "PREVOTE", v.hash)
                    \ (IF r >= v.round THEN {m} ELSE {})) >= quorum
    BY <1>1, <2>1, SameVoters DEF SafeInv
  <2> QED
    BY <2>3, <2>4, <2>5
<1> QED
  BY <1>1, SpecSafe, PTL

\* No two honest validators finalize different blocks at one height, for any
\* number of validators any two quorums of which share an honest one.
THEOREM EngineAgreement ==
    ASSUME FewFaults
    PROVE  Spec => []Agreement
<1>1. SafeInv => Agreement
  BY SafeAgreement DEF SafeInv
<1> QED
  BY <1>1, SpecSafe, PTL

-----------------------------------------------------------------------------
(* The ledgers are the chain of module Chain.                              *)

\* The hashes of a ledger: what Finality!ledger has of a node.
Hashes(l) == [i \in 1 .. Len(l) |-> block_hash(l[i])]

LEMMA HashesType ==
    ASSUME NEW l \in Seq(Block)
    PROVE  Hashes(l) \in Seq(Hash) /\ Len(Hashes(l)) = Len(l)
<1>1. \A i \in 1 .. Len(l) : block_hash(l[i]) \in Hash
  BY HashType
<1>2. Len(l) \in Nat
  OBVIOUS
<1> QED
  BY <1>1, <1>2 DEF Hashes

LEMMA HashesAppend ==
    ASSUME NEW l \in Seq(Block), NEW b \in Block
    PROVE  /\ Hashes(Append(l, b)) = Append(Hashes(l), block_hash(b))
           /\ Hashes(Append(l, b)) # <<>>
           /\ Hashes(Append(l, b))[Len(Hashes(Append(l, b)))] = block_hash(b)
<1> DEFINE a == Append(l, b)
<1>1. /\ a \in Seq(Block) /\ Len(a) = Len(l) + 1 /\ a[Len(l) + 1] = b
      /\ \A i \in 1 .. Len(l) : a[i] = l[i]
      /\ Len(l) \in Nat
  OBVIOUS
<1>2. /\ Hashes(l) \in Seq(Hash) /\ Len(Hashes(l)) = Len(l)
      /\ Hashes(a) \in Seq(Hash) /\ Len(Hashes(a)) = Len(l) + 1
      /\ block_hash(b) \in Hash
  BY <1>1, HashesType, HashType
<1>3. \A i \in 1 .. Len(l) + 1 : Hashes(a)[i] = block_hash(a[i])
  BY <1>1 DEF Hashes
<1>4. \A i \in 1 .. Len(l) : Hashes(l)[i] = block_hash(l[i])
  BY DEF Hashes
<1> DEFINE c == Append(Hashes(l), block_hash(b))
<1>5. /\ c \in Seq(Hash) /\ Len(c) = Len(l) + 1 /\ c[Len(l) + 1] = block_hash(b)
      /\ \A i \in 1 .. Len(l) : c[i] = Hashes(l)[i]
  BY <1>2
<1> HIDE DEF a, c
<1>6. \A i \in 1 .. Len(l) + 1 : Hashes(a)[i] = c[i]
  BY <1>1, <1>3, <1>4, <1>5
<1>7. Hashes(a) = c
  BY <1>2, <1>5, <1>6, <1>1
<1> QED
  BY <1>1, <1>2, <1>3, <1>7 DEF a, c

\* A node appends a block no other than what any node further along has there.
LEMMA AppendExtendsChain ==
    ASSUME SafeInv, SafeInv', Agreement', NEW m \in Honest, NEW b \in Block,
           node'[m].ledger = Append(node[m].ledger, b),
           \A k \in Honest \ {m} : node'[k].ledger = node[k].ledger
    PROVE  Finality!Finalize(m, block_hash(b))
<1> DEFINE l(k) == node[k].ledger
           L == [k \in Honest |-> [i \in 1 .. Len(node[k].ledger) |->
                                     block_hash(node[k].ledger[i])]]
           M == [k \in Honest |-> [i \in 1 .. Len(node'[k].ledger) |->
                                     block_hash(node'[k].ledger[i])]]
<1>1. /\ \A k \in Honest : l(k) \in Seq(Block) /\ Len(l(k)) \in Nat
      /\ node'[m].ledger \in Seq(Block)
  BY DEF SafeInv, Safe, NodeState
<1>2. \A k \in Honest : L[k] = Hashes(l(k)) /\ M[k] = Hashes(node'[k].ledger)
  BY DEF Hashes
<1>3. block_hash(b) \in Hash
  BY HashType
<1>4. ASSUME NEW k \in Honest, Len(L[k]) > Len(L[m])
      PROVE  L[k][Len(L[m]) + 1] = block_hash(b)
  <2> DEFINE i == Len(l(m)) + 1
  <2>1. Len(l(k)) >= i /\ Len(L[m]) = Len(l(m)) /\ i \in 1 .. Len(l(k))
    BY <1>1, <1>2, <1>4, HashesType
  <2>2. k # m /\ node'[k].ledger = l(k)
    BY <1>1, <2>1
  <2>3. Len(node'[m].ledger) = i /\ node'[m].ledger[i] = b
    BY <1>1
  <2> HIDE DEF i
  <2>4. i \in 1 .. Len(node'[m].ledger) /\ i <= Len(node'[k].ledger)
    BY <1>1, <2>1, <2>2, <2>3
  <2>5. block_hash(node'[m].ledger[i]) = block_hash(node'[k].ledger[i])
    BY <2>4 DEF Agreement
  <2> QED
    BY <1>2, <2>1, <2>2, <2>3, <2>5 DEF Hashes, i
<1>5. M = [L EXCEPT ![m] = Append(@, block_hash(b))]
  <2>1. M[m] = Append(L[m], block_hash(b))
    BY <1>1, <1>2, HashesAppend, SMTT(40)
  <2>2. \A k \in Honest \ {m} : M[k] = L[k]
    BY <1>2
  <2> QED
    BY <2>1, <2>2
<1> QED
  BY <1>3, <1>4, <1>5 DEF Finality!Finalize

LEMMA StepGrows == Inv /\ Next => OneGrows
BY StartStep, TimeoutStep, DeliverStep, CrashStep DEF Next

LEMMA ChainStep ==
    ASSUME SafeInv, SafeInv', Agreement', Next
    PROVE  [Finality!Next]_([m \in Honest |-> [i \in 1 .. Len(node[m].ledger) |->
                                                 block_hash(node[m].ledger[i])]])
<1>1. PICK m \in Honest : /\ Grows(node[m], node'[m])
                         /\ \A k \in Honest \ {m} : node'[k].ledger = node[k].ledger
  BY StepGrows DEF SafeInv, OneGrows
<1>2. CASE node'[m].ledger = node[m].ledger
  BY <1>1, <1>2
<1>3. CASE \E b \in Block : node'[m].ledger = Append(node[m].ledger, b)
  <2>1. PICK b \in Block : node'[m].ledger = Append(node[m].ledger, b)
    BY <1>3
  <2>2. Finality!Finalize(m, block_hash(b))
    BY <1>1, <2>1, AppendExtendsChain
  <2>3. node[m].ledger \in Seq(Block)
    BY DEF SafeInv, Safe, NodeState
  <2>4. /\ Hashes(node'[m].ledger) # <<>>
        /\ Hashes(node'[m].ledger)[Len(Hashes(node'[m].ledger))] = block_hash(b)
    BY <2>1, <2>3, HashesAppend
  <2> DEFINE M == [k \in Honest |-> [i \in 1 .. Len(node'[k].ledger) |->
                                       block_hash(node'[k].ledger[i])]]
  <2>5. M[m] = Hashes(node'[m].ledger)
    BY DEF Hashes
  <2>6. M[m] # <<>> /\ Finality!Finalize(m, M[m][Len(M[m])])
    BY <2>2, <2>4, <2>5 DEF Finality!Finalize
  <2> QED
    BY <2>6 DEF Finality!Next, Finality!Finalize
<1> QED
  BY <1>1, <1>2, <1>3 DEF Grows

LEMMA ChainInit == Init => Finality!Init
<1> SUFFICES ASSUME Init, NEW m \in Honest
             PROVE  [i \in 1 .. Len(node[m].ledger) |-> block_hash(node[m].ledger[i])] = <<>>
  BY DEF Finality!Init
<1>1. node[m].ledger = <<>>
  BY DEF Init, NewNode
<1>2. Hashes(<<>>) \in Seq(Hash) /\ Len(Hashes(<<>>)) = 0
  <2>1. <<>> \in Seq(Block)
    OBVIOUS
  <2> QED
    BY <2>1, HashesType
<1>3. Hashes(<<>>) = <<>>
  BY <1>2
<1> QED
  BY <1>1, <1>3 DEF Hashes

\* The detailed protocol implements module Chain: every step finalizes at most
\* one block at one validator, after its last one, and the same that any
\* validator further along has there.
THEOREM EngineBuildsOneChain ==
    ASSUME FewFaults
    PROVE  Spec => BuildsOneChain
<1>1. SafeInv /\ SafeInv' /\ Agreement' /\ [Next]_node =>
        [Finality!Next]_([m \in Honest |-> [i \in 1 .. Len(node[m].ledger) |->
                                              block_hash(node[m].ledger[i])]])
  BY ChainStep
<1> QED
  BY <1>1, ChainInit, SpecSafe, EngineAgreement, PTL
     DEF Spec, BuildsOneChain, Finality!Spec

-----------------------------------------------------------------------------
(* No validator leaves a prevote quorum unused, although propose leaves    *)
(* out the tally of the proposer's own prevote: no honest validator        *)
(* prevotes in a round before its proposer has.  Here a handler is         *)
(* followed from one state of its node to the next, as in EngineProofs,    *)
(* while S, what the other honest validators have signed, stays as it is.  *)

\* Every prevote of S is of a round whose proposer has prevoted in S too.
Led(S) ==
    \A v \in S : v.phase = "PREVOTE" =>
        \/ proposer_for(v.height, v.round) \in Byzantine
        \/ \E w \in S : /\ w.validator = proposer_for(v.height, v.round)
                        /\ w.phase = "PREVOTE"
                        /\ w.height = v.height /\ w.round = v.round

\* A node proposes in the rounds it leads, and prevotes there.
ProposedOK(s) ==
    \A p \in s.sent_proposals :
        /\ proposer_for(p.block.height, p.round) = s.node_id
        /\ \E v \in s.sent_votes :
              v.phase = "PREVOTE" /\ v.height = p.block.height /\ v.round = p.round

\* Who has not precommitted in its round can still do so, and who has prevoted
\* in it has a proposal for it.
Awaits(s) ==
    /\ s.step # "PRECOMMIT" => Unsigned(s, s.round, "PRECOMMIT")
    /\ s.step = "PREVOTE" => \E p \in s.proposals : p.round = s.round

\* PrevoteQuorumIsActedOn, for one node.
Acted(s) ==
    s.step = "PREVOTE" =>
        \A h \in winners(s, s.round, "PREVOTE") :
           h # NIL /\ \A p \in s.proposals : p.round = s.round => block_hash(p.block) # h

\* The node s among others that have signed S.
Among(s, S) ==
    /\ s \in NodeState /\ s.node_id \in Honest
    /\ \A v \in S : v.validator # s.node_id
    /\ VotesHeld(s, S \cup s.sent_votes)
    /\ Led(S \cup s.sent_votes)
    /\ ProposedOK(s)

\* What ProposerFindsNoQuorum says of a node that goes from s to t.
Unanswered(s, t) ==
    t.sent_proposals # s.sent_proposals => winners(t, t.round, "PREVOTE") = {}

\* What a handler makes of s: a step of the model unless it passes MaxRound.
Reacts(s, S, t) ==
    t.round <= MaxRound =>
        /\ Among(t, S) /\ Awaits(t) /\ Acted(t)
        /\ s.sent_votes \subseteq t.sent_votes
        /\ Unanswered(s, t)

-----------------------------------------------------------------------------
(* Entering a round.                                                       *)

\* The proposer of a fresh round is the first to prevote in it.
LEMMA FirstPrevote ==
    ASSUME NEW u, NEW S, Among(u, S), NEW r \in Rounds,
           NEW t \in NodeState, t.height = u.height,
           proposer_for(u.height, r) = u.node_id,
           \A v \in u.sent_votes : v.height = u.height => v.round < r,
           NEW x, t.sent_votes = u.sent_votes \cup {x}, x.validator = u.node_id,
           VotesHeld(t, S \cup t.sent_votes)
    PROVE  winners(t, r, "PREVOTE") = {}
<1> SUFFICES ASSUME NEW h \in winners(t, r, "PREVOTE") PROVE FALSE
  OBVIOUS
<1> DEFINE T == S \cup t.sent_votes
           V == VotersIn(T, t.height, r, "PREVOTE", h)
           vote(k) == [validator |-> k, height |-> t.height, round |-> r,
                       phase |-> "PREVOTE", hash |-> h]
<1>1. Cardinality(V) >= quorum
  BY Winner DEF CertifiedIn
<1>2. u.node_id \notin Byzantine
  BY DEF Among, Honest
<1>3. ASSUME NEW k \in Honest, k # u.node_id, vote(k) \in T PROVE FALSE
  <2>1. vote(k).validator = k /\ vote(k).phase = "PREVOTE"
        /\ vote(k).height = u.height /\ vote(k).round = r
    OBVIOUS
  <2> HIDE DEF vote
  <2>2. vote(k) \in S \cup u.sent_votes
    BY <1>3, <2>1
  <2>3. PICK w \in S \cup u.sent_votes :
          w.validator = u.node_id /\ w.height = u.height /\ w.round = r
    BY <1>2, <2>1, <2>2 DEF Among, Led
  <2>4. w \in u.sent_votes
    BY <2>3 DEF Among
  <2> QED
    BY <2>3, <2>4, BoundAssumption DEF Rounds
<1>4. V \in SUBSET (Byzantine \cup {u.node_id})
  BY <1>3 DEF VotersIn
<1>5. /\ IsFiniteSet(Byzantine) /\ IsFiniteSet(Byzantine \cup {u.node_id})
      /\ Cardinality(Byzantine \cup {u.node_id}) = Cardinality(Byzantine) + 1
  BY <1>2, ValidatorAssumption, FS_Subset, FS_AddElement
<1>6. /\ Cardinality(V) <= Cardinality(Byzantine \cup {u.node_id})
      /\ Cardinality(V) \in Nat /\ Cardinality(Byzantine) \in Nat
  BY <1>4, <1>5, FS_Subset, FS_CardinalityType
<1> QED
  BY <1>1, <1>5, <1>6, QuorumType, LeaderAssumption

LEMMA EnterReacts ==
    ASSUME NEW u, NEW S, Among(u, S), NEW r \in Rounds,
           NEW t \in NodeState, SameLock(u, t), Enters(u, t, r),
           t.round = r, t.node_id = u.node_id,
           \A v \in u.sent_votes : v.height = u.height => v.round < r
    PROVE  Reacts(u, S, t)
<1>1. r \in Int /\ u.height = t.height
  BY BoundAssumption DEF Rounds, SameLock
<1>2. CASE proposer_for(u.height, r) # u.node_id
  <2>1. /\ t.step = "PROPOSE" /\ t.votes = u.votes /\ t.sent_votes = u.sent_votes
        /\ t.sent_proposals = u.sent_proposals
    BY <1>2 DEF Enters
  <2>2. Among(t, S)
    BY <1>1, <2>1 DEF Among, VotesHeld, ProposedOK
  <2>3. Awaits(t) /\ Acted(t)
    BY <1>1, <2>1 DEF Awaits, Acted, Unsigned
  <2> QED
    BY <2>1, <2>2, <2>3 DEF Reacts, Unanswered
<1>3. CASE proposer_for(u.height, r) = u.node_id
  <2>1. Proposes(u, t, r)
    BY <1>3 DEF Enters
  <2>2. PICK hash \in Hash \cup {NIL} : Signs(u, t, OwnVote(u, r, "PREVOTE", hash))
    BY <2>1 DEF Proposes
  <2>3. PICK p \in Proposal :
          /\ p.round = r /\ p.block.height = u.height
          /\ t.proposals = {q \in u.proposals : q.round # r} \cup {p}
          /\ t.sent_proposals = u.sent_proposals \cup {p}
    BY <2>1 DEF Proposes
  <2> DEFINE x == OwnVote(u, r, "PREVOTE", hash)
  <2>4. /\ x.validator = u.node_id /\ x.phase = "PREVOTE"
        /\ x.height = u.height /\ x.round = r
    BY DEF OwnVote
  <2>5. t.votes = u.votes \cup {x} /\ t.sent_votes = u.sent_votes \cup {x}
    BY <2>2 DEF Signs
  <2> HIDE DEF x
  <2>6. VotesHeld(t, S \cup t.sent_votes)
    BY <1>1, <2>4, <2>5 DEF Among, VotesHeld
  <2>7. Led(S \cup t.sent_votes)
    BY <1>3, <2>4, <2>5 DEF Among, Led
  <2>8. ProposedOK(t)
    BY <1>3, <2>3, <2>4, <2>5 DEF Among, ProposedOK
  <2>9. Among(t, S)
    BY <2>6, <2>7, <2>8 DEF Among
  <2>10. winners(t, r, "PREVOTE") = {}
    BY <1>1, <1>3, <2>4, <2>5, <2>6, FirstPrevote
  <2>11. Awaits(t) /\ Acted(t)
    BY <1>1, <2>3, <2>4, <2>5, <2>10 DEF Awaits, Acted, Unsigned
  <2> QED
    BY <2>5, <2>9, <2>10, <2>11 DEF Reacts, Unanswered
<1> QED
  BY <1>2, <1>3

LEMMA NextRoundReacts ==
    ASSUME NEW s, NEW S, Among(s, S), VotesOK(s), ChainOK(s),
           s.timers \subseteq {s.timeout_event}, NEW data \in Data
    PROVE  Reacts(s, S, enter_round(s, s.round + 1, data))
<1> DEFINE r == s.round + 1
           t == enter_round(s, r, data)
<1>1. s \in NodeState /\ s.round \in Nat
  BY BoundAssumption DEF Among, NodeState, Rounds
<1>2. t.round = r
  BY <1>1, EnterRoundRound
<1>3. SUFFICES ASSUME r <= MaxRound PROVE Reacts(s, S, t)
  BY <1>2 DEF Reacts
<1>4. r \in Rounds
  BY <1>1, <1>3, BoundAssumption DEF Rounds
<1>5. \A v \in s.sent_votes : v.height = s.height => v.round < r
  BY <1>1, NodeNumbers, VoteNumbers DEF VotesOK
<1>6. Good(t) /\ t.node_id = s.node_id /\ SameLock(s, t) /\ Enters(s, t, r)
  BY <1>1, <1>4, <1>5, EnterRound
<1> HIDE DEF t, r
<1> QED
  BY <1>2, <1>4, <1>5, <1>6, EnterReacts DEF Good, t, r

-----------------------------------------------------------------------------
(* Quorums.                                                                *)

\* A handler that goes on from u.
LEMMA ReactsOn ==
    ASSUME NEW s, NEW u, NEW S, NEW t, s.sent_votes \subseteq u.sent_votes,
           u.sent_proposals = s.sent_proposals, Reacts(u, S, t)
    PROVE  Reacts(s, S, t)
BY DEF Reacts, Unanswered

LEMMA StayReacts ==
    ASSUME NEW s, NEW S, Among(s, S), Awaits(s), Acted(s)
    PROVE  Reacts(s, S, s)
BY DEF Reacts, Unanswered

LEMMA CommitReacts ==
    ASSUME NEW s, NEW S, Among(s, S), Good(s), NEW data \in Data,
           s.height < MaxHeight, s.locked_block # None
    PROVE  Reacts(s, S, commit(s, data))
<1> DEFINE u == Decided(s)
           t == enter_round(u, 0, data)
<1>1. /\ u \in NodeState /\ VotesOK(u) /\ ChainOK(u)
      /\ u.timers \subseteq {u.timeout_event}
      /\ u.node_id = s.node_id /\ u.votes = {} /\ u.sent_votes = s.sent_votes
      /\ u.sent_proposals = s.sent_proposals /\ 0 \in Rounds
      /\ \A v \in u.sent_votes : v.height = u.height => v.round < 0
  BY Decide
<1> HIDE DEF u
<1>2. Among(u, S)
  BY <1>1 DEF Among, VotesHeld, ProposedOK
<1>3. Good(t) /\ t.node_id = u.node_id /\ t.round = 0 /\ SameLock(u, t) /\ Enters(u, t, 0)
  BY <1>1, EnterRound
<1>4. commit(s, data) = t
  BY DEF commit, u, Decided
<1> HIDE DEF t
<1>5. Reacts(u, S, t)
  BY <1>1, <1>2, <1>3, EnterReacts DEF Good
<1> QED
  BY <1>1, <1>4, <1>5, ReactsOn

LEMMA TallyPrecommitsReacts ==
    ASSUME NEW s, NEW S, Among(s, S), Good(s), Awaits(s), Acted(s),
           NEW data \in Data, NEW r, s.height < MaxHeight
    PROVE  Reacts(s, S, tally_precommits(s, r, data))
<1>1. VotesOK(s) /\ ChainOK(s) /\ s.timers \subseteq {s.timeout_event}
  BY DEF Good, TimerOK
<1>2. Reacts(s, S, on_precommit_nil_quorum(s, r, data))
  BY <1>1, NextRoundReacts, StayReacts DEF on_precommit_nil_quorum
<1>3. \A hash : Reacts(s, S, on_precommit_quorum(s, hash, data))
  BY CommitReacts, StayReacts DEF on_precommit_quorum
<1> QED
  BY <1>2, <1>3, StayReacts DEF tally_precommits

\* A precommit answers whatever quorum the node holds.
LEMMA SendPrecommitReacts ==
    ASSUME NEW s, NEW S, Among(s, S), Good(s), Awaits(s),
           s.step = "PREVOTE", NEW data \in Data, s.height < MaxHeight,
           NEW hash \in Hash \cup {NIL}
    PROVE  Reacts(s, S, send_precommit(s, hash, data))
<1> DEFINE u == cast_vote(s, "PRECOMMIT", hash)
           v == OwnVote(s, s.round, "PRECOMMIT", hash)
<1>1. /\ s \in NodeState /\ VotesOK(s) /\ ChainOK(s) /\ TimerOK(s)
      /\ Unsigned(s, s.round, "PRECOMMIT")
  BY DEF Good, Awaits
<1>2. ~ has_voted(s, s.node_id, s.round, "PRECOMMIT")
  BY DEF Among, VotesHeld, Honest, Awaits, Unsigned, has_voted
<1>3. /\ u \in NodeState /\ VotesOK(u) /\ ChainOK(u)
      /\ u.timers = s.timers /\ u.timeout_event = s.timeout_event
      /\ u.height = s.height /\ u.round = s.round /\ u.node_id = s.node_id
      /\ u.step = "PRECOMMIT" /\ u.sent_proposals = s.sent_proposals
      /\ u.votes = s.votes \cup {v} /\ u.sent_votes = s.sent_votes \cup {v}
  BY <1>1, CastVote DEF Phase, Signs
<1>4. v.phase = "PRECOMMIT" /\ v.height = s.height
  BY DEF OwnVote
<1> HIDE DEF u, v
<1>5. Good(u) /\ Awaits(u) /\ Acted(u)
  BY <1>1, <1>3 DEF Good, TimerOK, Awaits, Acted
<1>6. Among(u, S)
  <2>1. VotesHeld(u, S \cup u.sent_votes)
    BY <1>3, <1>4 DEF Among, VotesHeld
  <2>2. Led(S \cup u.sent_votes)
    BY <1>3, <1>4 DEF Among, Led
  <2>3. ProposedOK(u)
    BY <1>3 DEF Among, ProposedOK
  <2> QED
    BY <1>3, <2>1, <2>2, <2>3 DEF Among
<1>7. Reacts(u, S, tally_precommits(u, s.round, data))
  BY <1>3, <1>5, <1>6, TallyPrecommitsReacts
<1> QED
  BY <1>2, <1>3, <1>7, ReactsOn DEF send_precommit, u

LEMMA OnPrevoteQuorumReacts ==
    ASSUME NEW s, NEW S, Among(s, S), Good(s), Awaits(s),
           NEW data \in Data, s.height < MaxHeight, NEW r \in Rounds,
           NEW b \in Block, Extends(s, b), r # s.round => Acted(s)
    PROVE  Reacts(s, S, on_prevote_quorum(s, r, b, data))
<1> DEFINE u == Locked(s, r, b)
<1>1. /\ Good(u) /\ u.height = s.height /\ u.round = s.round /\ u.step = s.step
      /\ u.node_id = s.node_id /\ u.proposals = s.proposals
      /\ u.votes = s.votes /\ u.sent_votes = s.sent_votes
      /\ u.sent_proposals = s.sent_proposals
  BY Lock
<1>2. on_prevote_quorum(s, r, b, data) =
        IF r = s.round /\ s.step = "PREVOTE"
        THEN send_precommit(u, block_hash(b), data) ELSE u
  BY DEF on_prevote_quorum, Locked
<1> HIDE DEF u
<1>3. Among(u, S) /\ Awaits(u)
  BY <1>1 DEF Good, Among, VotesHeld, ProposedOK, Awaits, Unsigned
<1>4. CASE r = s.round /\ s.step = "PREVOTE"
  <2>1. block_hash(b) \in Hash \cup {NIL}
    BY HashType
  <2>2. Reacts(u, S, send_precommit(u, block_hash(b), data))
    BY <1>1, <1>3, <1>4, <2>1, SendPrecommitReacts
  <2> QED
    BY <1>1, <1>2, <1>4, <2>2, ReactsOn
<1>5. CASE ~ (r = s.round /\ s.step = "PREVOTE")
  <2>1. Acted(u)
    BY <1>1, <1>5 DEF Acted, winners, vote_bucket
  <2> QED
    BY <1>1, <1>2, <1>3, <1>5, <2>1, StayReacts, ReactsOn
<1> QED
  BY <1>4, <1>5

\* Every tally of the node's round leaves no quorum unanswered.
LEMMA TallyPrevotesReacts ==
    ASSUME NEW s, NEW S, Among(s, S), Good(s), Awaits(s),
           NEW data \in Data, s.height < MaxHeight, NEW r \in Rounds,
           r # s.round => Acted(s)
    PROVE  Reacts(s, S, tally_prevotes(s, r, data))
<1> DEFINE W == winners(s, r, "PREVOTE")
           P == {p \in s.proposals : p.round = r /\ block_hash(p.block) \in W}
           p0 == CHOOSE p \in P : TRUE
<1>1. s \in NodeState /\ ChainOK(s)
  BY DEF Good
<1>2. ASSUME NIL \in W
      PROVE  Reacts(s, S, on_prevote_nil_quorum(s, r, data))
  <2>1. CASE r = s.round /\ s.step = "PREVOTE"
    BY <2>1, SendPrecommitReacts DEF on_prevote_nil_quorum
  <2>2. CASE ~ (r = s.round /\ s.step = "PREVOTE")
    BY <2>2, StayReacts DEF on_prevote_nil_quorum, Acted
  <2> QED
    BY <2>1, <2>2
<1>3. ASSUME P # {}
      PROVE  Reacts(s, S, on_prevote_quorum(s, r, p0.block, data))
  <2>1. p0 \in P
    BY <1>3
  <2>2. p0.block \in Block /\ Extends(s, p0.block)
    BY <1>1, <2>1 DEF NodeState, Proposal, ChainOK
  <2> HIDE DEF p0
  <2> QED
    BY <2>2, OnPrevoteQuorumReacts
<1>4. ASSUME NIL \notin W, P = {}
      PROVE  Reacts(s, S, s)
  <2>1. Acted(s)
    BY <1>4 DEF Acted
  <2> QED
    BY <2>1, StayReacts
<1> HIDE DEF W
<1> QED
  BY <1>2, <1>3, <1>4 DEF tally_prevotes, W

-----------------------------------------------------------------------------
(* Messages.                                                               *)

\* The proposer of the node's round, if honest, has prevoted.
LeaderVoted(s, S) ==
    \/ proposer_for(s.height, s.round) \in Byzantine
    \/ \E w \in S \cup s.sent_votes :
          /\ w.validator = proposer_for(s.height, s.round) /\ w.phase = "PREVOTE"
          /\ w.height = s.height /\ w.round = s.round

\* Storing a proposal leaves no quorum unanswered: a node that has prevoted has
\* one for its round already.
LEMMA StoreReacts ==
    ASSUME NEW s, NEW S, Among(s, S), Good(s), Awaits(s), Acted(s),
           NEW r \in Rounds, NEW b \in Block, Extends(s, b)
    PROVE  LET u == Stored(s, b, r) IN Among(u, S) /\ Awaits(u) /\ Acted(u)
<1> DEFINE u == Stored(s, b, r)
<1>1. /\ Good(u) /\ u.height = s.height /\ u.round = s.round /\ u.step = s.step
      /\ u.node_id = s.node_id /\ u.votes = s.votes /\ u.sent_votes = s.sent_votes
      /\ u.sent_proposals = s.sent_proposals
      /\ s.proposals \subseteq u.proposals
      /\ \A p \in u.proposals \ s.proposals :
            p.round = r /\ ~ \E q \in s.proposals : q.round = r
  BY Store DEF SameLock
<1> HIDE DEF u
<1>2. Among(u, S)
  BY <1>1 DEF Good, Among, VotesHeld, ProposedOK
<1>3. Awaits(u)
  BY <1>1 DEF Awaits, Unsigned
<1>4. Acted(u)
  <2>1. u.step = "PREVOTE" =>
          \A p \in u.proposals : p.round = s.round => p \in s.proposals
    BY <1>1 DEF Awaits
  <2> QED
    BY <1>1, <2>1 DEF Acted, winners, vote_bucket
<1> QED
  BY <1>2, <1>3, <1>4 DEF u

LEMMA HandleProposalReacts ==
    ASSUME NEW s, NEW S, Among(s, S), Good(s), Awaits(s), Acted(s),
           NEW data \in Data, s.height < MaxHeight, NEW r \in Rounds, NEW b \in Block,
           Extends(s, b), r = s.round => LeaderVoted(s, S)
    PROVE  Reacts(s, S, handle_proposal_local(s, b, r, data))
<1> DEFINE u == Stored(s, b, r)
           hash == prevote_hash(u, b, r)
           c == cast_vote(u, "PREVOTE", hash)
<1>1. /\ Good(u) /\ u.height = s.height /\ u.round = s.round /\ u.step = s.step
      /\ u.node_id = s.node_id /\ u.sent_votes = s.sent_votes
      /\ u.sent_proposals = s.sent_proposals /\ \E p \in u.proposals : p.round = r
  BY Store DEF SameLock
<1>2. Among(u, S) /\ Awaits(u) /\ Acted(u)
  BY StoreReacts
<1>3. handle_proposal_local(s, b, r, data) =
        IF \/ r # u.round \/ u.step # "PROPOSE"
           \/ has_voted(u, u.node_id, r, "PREVOTE")
        THEN u ELSE tally_prevotes(c, r, data)
  BY DEF handle_proposal_local, Stored
<1>4. hash \in Hash \cup {NIL}
  BY PrevoteHashType
<1> HIDE DEF u, hash
<1>5. CASE \/ r # u.round \/ u.step # "PROPOSE"
           \/ has_voted(u, u.node_id, r, "PREVOTE")
  BY <1>1, <1>2, <1>3, <1>5, StayReacts, ReactsOn
<1>6. CASE ~ (\/ r # u.round \/ u.step # "PROPOSE"
              \/ has_voted(u, u.node_id, r, "PREVOTE"))
  <2> DEFINE v == OwnVote(u, u.round, "PREVOTE", hash)
  <2>1. u \in NodeState /\ VotesOK(u) /\ ChainOK(u) /\ TimerOK(u)
    BY <1>1 DEF Good
  <2>2. Unsigned(u, u.round, "PREVOTE")
    BY <1>6, <2>1 DEF Unsigned, VotesOK, has_voted
  <2>3. /\ c \in NodeState /\ VotesOK(c) /\ ChainOK(c)
        /\ c.timers = u.timers /\ c.timeout_event = u.timeout_event
        /\ c.height = u.height /\ c.round = u.round /\ c.node_id = u.node_id
        /\ c.votes = u.votes \cup {v} /\ c.sent_votes = u.sent_votes \cup {v}
        /\ c.proposals = u.proposals /\ c.sent_proposals = u.sent_proposals
    BY <1>4, <2>1, <2>2, CastVote DEF Phase, Signs
  <2>4. v.phase = "PREVOTE" /\ v.height = u.height /\ v.round = u.round
    BY DEF OwnVote
  <2> HIDE DEF c, v
  <2>5. Good(c) /\ c.height < MaxHeight
    BY <1>1, <2>1, <2>3 DEF Good, TimerOK
  <2>6. Awaits(c)
    BY <1>1, <1>2, <1>6, <2>3, <2>4 DEF Awaits, Unsigned
  <2>7. Among(c, S)
    <3>1. VotesHeld(c, S \cup c.sent_votes)
      BY <1>2, <2>3, <2>4 DEF Among, VotesHeld
    <3>2. LeaderVoted(u, S)
      BY <1>1, <1>6 DEF LeaderVoted
    <3>3. Led(S \cup c.sent_votes)
      BY <1>2, <2>3, <2>4, <3>2 DEF Among, Led, LeaderVoted
    <3>4. ProposedOK(c)
      BY <1>2, <2>3 DEF Among, ProposedOK
    <3> QED
      BY <1>2, <2>3, <3>1, <3>3, <3>4 DEF Among
  <2>8. Reacts(c, S, tally_prevotes(c, r, data))
    BY <1>6, <2>3, <2>5, <2>6, <2>7, TallyPrevotesReacts
  <2> QED
    BY <1>1, <1>3, <1>6, <2>3, <2>8, ReactsOn
<1> QED
  BY <1>5, <1>6

LEMMA OnProposalReacts ==
    ASSUME NEW s, NEW S, Among(s, S), Good(s), Awaits(s), Acted(s),
           NEW data \in Data, s.height < MaxHeight, NEW p \in Proposal,
           p.round = s.round /\ p.block.height = s.height => LeaderVoted(s, S)
    PROVE  Reacts(s, S, on_proposal(s, p, data))
<1>1. p.block \in Block /\ p.round \in Rounds
  BY DEF Proposal
<1> QED
  BY <1>1, HandleProposalReacts, StayReacts DEF on_proposal, accept_header, Extends

LEMMA OnVoteReacts ==
    ASSUME NEW s, NEW S, Among(s, S), Good(s), Awaits(s), Acted(s),
           NEW data \in Data, s.height < MaxHeight, NEW v \in Vote,
           v.validator \in Byzantine \/ v \in S \cup s.sent_votes
    PROVE  Reacts(s, S, on_vote(s, v, data))
<1> DEFINE u == WithVote(s, v)
<1>1. CASE v.height # s.height \/ has_voted(s, v.validator, v.round, v.phase)
  BY <1>1, StayReacts DEF on_vote
<1>2. CASE ~ (v.height # s.height \/ has_voted(s, v.validator, v.round, v.phase))
  <2>1. /\ Good(u) /\ u.height = s.height /\ u.round = s.round /\ u.step = s.step
        /\ u.node_id = s.node_id /\ u.votes = s.votes \cup {v}
        /\ u.sent_votes = s.sent_votes /\ u.proposals = s.proposals
        /\ u.sent_proposals = s.sent_proposals
    BY Count DEF SameLock
  <2>2. on_vote(s, v, data) = IF v.phase = "PREVOTE" THEN tally_prevotes(u, v.round, data)
                              ELSE tally_precommits(u, v.round, data)
    BY <1>2 DEF on_vote, WithVote
  <2> HIDE DEF u
  <2>3. Awaits(u) /\ u.height < MaxHeight /\ v.round \in Rounds
    BY <2>1, VoteNumbers DEF Awaits, Unsigned
  <2>4. Among(u, S)
    <3>1. VotesHeld(u, S \cup u.sent_votes)
      BY <1>2, <2>1 DEF Among, VotesHeld
    <3> QED
      BY <2>1, <3>1 DEF Good, Among, ProposedOK
  <2>5. v.phase # "PREVOTE" \/ v.round # s.round => Acted(u)
    <3>1. v.phase # "PREVOTE" \/ v.round # s.round =>
            vote_bucket(u, s.round, "PREVOTE") = vote_bucket(s, s.round, "PREVOTE")
      BY <2>1 DEF vote_bucket
    <3> QED
      BY <2>1, <3>1 DEF Acted, winners
  <2>6. CASE v.phase = "PREVOTE"
    BY <2>1, <2>2, <2>3, <2>4, <2>5, <2>6, TallyPrevotesReacts, ReactsOn
  <2>7. CASE v.phase # "PREVOTE"
    BY <2>1, <2>2, <2>3, <2>4, <2>5, <2>7, TallyPrecommitsReacts, ReactsOn
  <2> QED
    BY <2>6, <2>7
<1> QED
  BY <1>1, <1>2

-----------------------------------------------------------------------------
(* The events.                                                             *)

\* What ProposerFindsNoQuorum says of a step.
ProposersUnanswered == \A k \in Honest : Unanswered(node[k], node'[k])

Answered(N) ==
    /\ Led(Sent(N))
    /\ \A k \in Honest : ProposedOK(N[k]) /\ Awaits(N[k]) /\ Acted(N[k])

\* What the honest validators other than m have signed.
Others(m) == UNION {node[k].sent_votes : k \in Honest \ {m}}

LEMMA AmongOthers ==
    ASSUME Safe(node), Answered(node), NEW m \in Honest
    PROVE  /\ Among(node[m], Others(m))
           /\ Sent(node) = Others(m) \cup node[m].sent_votes
<1>1. Sent(node) = Others(m) \cup node[m].sent_votes
  BY DEF Sent, Others
<1>2. \A v \in Others(m) : v.validator # node[m].node_id
  BY DEF Others, Safe, VotesOK
<1> QED
  BY <1>1, <1>2 DEF Safe, Backed, Answered, Among

LEMMA AnsweredBecome ==
    ASSUME Safe(node), Answered(node), NEW m \in Honest, NEW t, Become(m, t),
           Reacts(node[m], Others(m), t)
    PROVE  Answered(node') /\ ProposersUnanswered
<1>1. /\ node'[m] = t /\ \A k \in Honest \ {m} : node'[k] = node[k]
      /\ t.round <= MaxRound
  BY DEF Become, InBounds, Safe
<1>2. Sent(node') = Others(m) \cup t.sent_votes
  BY <1>1 DEF Sent, Others
<1>3. ProposersUnanswered
  BY <1>1 DEF Reacts, ProposersUnanswered, Unanswered
<1> QED
  BY <1>1, <1>2, <1>3 DEF Reacts, Among, Answered

\* A proposal for the round a node is in comes from a Byzantine proposer, or
\* from one that has prevoted.
LEMMA ProposalHasLeader ==
    ASSUME Inv, Safe(node), Answered(node), NEW m \in Honest,
           NEW p \in Proposals, NEW q \in AsHeld(p),
           q.round = node[m].round, q.block.height = node[m].height
    PROVE  LeaderVoted(node[m], Others(m))
<1>1. q.round = p.round /\ q.block.height = p.block.height
  BY ProposalsType DEF AsHeld, Proposal, Block
<1>2. CASE p \in HonestProposals
  <2>1. PICK k \in Honest : p \in node[k].sent_proposals
    BY <1>2 DEF HonestProposals
  <2>2. PICK v \in node[k].sent_votes :
          /\ v.phase = "PREVOTE" /\ v.height = p.block.height /\ v.round = p.round
          /\ proposer_for(p.block.height, p.round) = node[k].node_id
    BY <2>1 DEF Answered, ProposedOK
  <2>3. v.validator = node[k].node_id /\ v \in Others(m) \cup node[m].sent_votes
    BY AmongOthers DEF Safe, VotesOK, Sent
  <2> QED
    BY <1>1, <2>2, <2>3 DEF LeaderVoted
<1>3. CASE p \in ByzantineProposals
  <2>1. PICK x \in {y \in Rounds \X {parent_hash(node[k]) : k \in Honest} :
                      proposer_for(Len(y[2]), y[1]) \in Byzantine \ Silent},
             late \in {0, 1}, data \in Data :
           p = [round |-> x[1],
                block |-> [height |-> Len(x[2]), parent |-> x[2],
                           proposer |-> proposer_for(Len(x[2]), x[1]),
                           time |-> x[1] + late, data |-> data]]
    BY <1>3 DEF ByzantineProposals
  <2>2. p.round = x[1] /\ p.block.height = Len(x[2])
    BY <2>1
  <2> QED
    BY <1>1, <2>1, <2>2 DEF LeaderVoted
<1> QED
  BY <1>2, <1>3 DEF Proposals

LEMMA AnsweredDeliver ==
    ASSUME Inv, Safe(node), Answered(node), NEW m \in Honest,
           DeliverProposal(m) \/ DeliverVote(m)
    PROVE  Answered(node') /\ ProposersUnanswered
<1>1. Good(node[m]) /\ node[m].height < MaxHeight
  BY DEF DeliverProposal, DeliverVote, Running, Inv, TypeOK, Good
<1>2. Among(node[m], Others(m)) /\ Awaits(node[m]) /\ Acted(node[m])
  BY AmongOthers DEF Answered
<1>3. CASE DeliverProposal(m)
  <2>1. PICK p \in Proposals, data \in Data : \E q \in AsHeld(p) :
           Become(m, on_proposal(node[m], q, data))
    BY <1>3 DEF DeliverProposal
  <2>2. PICK q \in AsHeld(p) : Become(m, on_proposal(node[m], q, data))
    BY <2>1
  <2>3. q \in Proposal
    BY <2>2, ProposalsType, AsHeldType
  <2>4. Reacts(node[m], Others(m), on_proposal(node[m], q, data))
    BY <1>1, <1>2, <2>3, ProposalHasLeader, OnProposalReacts
  <2> QED
    BY <2>2, <2>4, AnsweredBecome
<1>4. CASE DeliverVote(m)
  <2>1. PICK v \in Votes, data \in Data : Become(m, on_vote(node[m], v, data))
    BY <1>4 DEF DeliverVote
  <2>2. v \in Vote /\ (v.validator \in Byzantine \/ v \in Sent(node))
    BY <2>1, VotesType DEF Votes, HonestVotes, ByzantineVotes, Sent
  <2>3. Reacts(node[m], Others(m), on_vote(node[m], v, data))
    BY <1>1, <1>2, <2>2, AmongOthers, OnVoteReacts
  <2> QED
    BY <2>1, <2>3, AnsweredBecome
<1> QED
  BY <1>3, <1>4

LEMMA AnsweredTimeout ==
    ASSUME Inv, Safe(node), Answered(node), NEW m \in Honest,
           RoundTimeout(m)
    PROVE  Answered(node') /\ ProposersUnanswered
<1>1. PICK e \in node[m].timers, data \in Data :
         Become(m, enter_round([node[m] EXCEPT !.timers = @ \ {e}],
                               [node[m] EXCEPT !.timers = @ \ {e}].round + 1, data))
  BY DEF RoundTimeout
<1> DEFINE s == node[m]
           u == [s EXCEPT !.timers = @ \ {e}]
<1>2. /\ s \in NodeState /\ VotesOK(s) /\ ChainOK(s) /\ TimerOK(s)
  BY DEF Inv, TypeOK, NotStarted, TimerOK
<1>3. s.timers \ {e} \in SUBSET (Heights \X Rounds)
  BY <1>2 DEF NodeState
<1>4. /\ u \in NodeState /\ u.timers = s.timers \ {e}
      /\ u.timeout_event = s.timeout_event
      /\ u.sent_votes = s.sent_votes /\ u.votes = s.votes
      /\ u.sent_proposals = s.sent_proposals
      /\ u.round = s.round /\ u.node_id = s.node_id
      /\ SameLock(s, u) /\ u.proposals = s.proposals
  BY <1>2, <1>3, SMTT(30) DEF NodeState, SameLock
<1>5. Become(m, enter_round(u, u.round + 1, data))
  BY <1>1
<1> HIDE DEF u
<1>6. VotesOK(u) /\ ChainOK(u) /\ u.timers \subseteq {u.timeout_event}
  BY <1>2, <1>4 DEF VotesOK, ChainOK, Extends, parent_hash, SameLock, TimerOK
<1>7. Among(u, Others(m))
  <2>1. Among(s, Others(m)) /\ u.height = s.height
    BY <1>4, AmongOthers DEF SameLock
  <2> HIDE DEF s
  <2> QED
    BY <1>4, <2>1 DEF Among, VotesHeld, ProposedOK
<1>8. Reacts(s, Others(m), enter_round(u, u.round + 1, data))
  BY <1>4, <1>6, <1>7, NextRoundReacts, ReactsOn
<1> QED
  BY <1>5, <1>8, AnsweredBecome

LEMMA AnsweredCrash ==
    ASSUME Safe(node), Answered(node), NEW m \in Honest, Crash(m)
    PROVE  Answered(node') /\ ProposersUnanswered
<1> DEFINE s == node[m]
           t == [s EXCEPT !.crashed = TRUE]
<1>1. /\ t.sent_votes = s.sent_votes /\ t.sent_proposals = s.sent_proposals
      /\ t.votes = s.votes /\ t.proposals = s.proposals
      /\ t.height = s.height /\ t.round = s.round /\ t.step = s.step
      /\ t.node_id = s.node_id
  BY DEF Safe, NodeState
<1>2. node'[m] = t /\ \A k \in Honest \ {m} : node'[k] = node[k]
  BY DEF Crash, Safe
<1> HIDE DEF t
<1>3. Sent(node') = Sent(node)
  BY <1>1, <1>2 DEF Sent
<1>4. ProposedOK(t) /\ Awaits(t) /\ Acted(t)
  BY <1>1 DEF Answered, ProposedOK, Awaits, Unsigned, Acted, winners, vote_bucket
<1>5. ProposersUnanswered
  BY <1>1, <1>2 DEF ProposersUnanswered, Unanswered
<1> QED
  BY <1>2, <1>3, <1>4, <1>5 DEF Answered

LEMMA AnsweredStart ==
    ASSUME Inv, Safe(node), Answered(node), Start
    PROVE  Answered(node') /\ ProposersUnanswered
<1>1. PICK data \in [Honest -> Data] :
         node' = [m \in Honest |-> IF node[m].crashed THEN node[m]
                                   ELSE enter_round(node[m], 0, data[m])]
  BY DEF Start
<1>2. \A m \in Honest : NotStarted(node[m])
  BY DEF Start, Started, Inv, TimerOK
<1>3. ASSUME NEW m \in Honest
      PROVE  /\ Led(node'[m].sent_votes)
             /\ ProposedOK(node'[m]) /\ Awaits(node'[m]) /\ Acted(node'[m])
             /\ Unanswered(node[m], node'[m])
  <2> DEFINE s == node[m]
             t == enter_round(s, 0, data[m])
  <2>1. /\ s \in NodeState /\ VotesOK(s) /\ ChainOK(s) /\ s.sent_votes = {}
        /\ s.timers \subseteq {s.timeout_event} /\ 0 \in Rounds
    BY <1>2, BoundAssumption DEF Inv, TypeOK, NotStarted, Rounds
  <2>2. CASE s.crashed
    BY <1>1, <2>1, <2>2 DEF Led, Answered, Unanswered
  <2>3. CASE ~ s.crashed
    <3>1. Good(t) /\ t.node_id = s.node_id /\ t.round = 0 /\ SameLock(s, t) /\ Enters(s, t, 0)
      BY <2>1, EnterRound
    <3>2. Among(s, {})
      <4>1. Others(m) = {}
        BY <1>2 DEF Others, NotStarted
      <4> QED
        BY <4>1, AmongOthers
    <3>3. node'[m] = t
      BY <1>1, <2>3
    <3> HIDE DEF t
    <3>4. Reacts(s, {}, t)
      BY <2>1, <3>1, <3>2, EnterReacts DEF Good
    <3>5. t.round <= MaxRound
      BY <3>1, BoundAssumption
    <3> QED
      BY <3>3, <3>4, <3>5 DEF Reacts, Among
  <2> QED
    BY <2>2, <2>3
<1>4. Led(Sent(node'))
  BY <1>3 DEF Led, Sent
<1> QED
  BY <1>3, <1>4 DEF Answered, ProposersUnanswered

QuorumInv == SafeInv /\ Answered(node)

LEMMA QuorumInvInit == Init => QuorumInv
<1> SUFFICES ASSUME Init PROVE QuorumInv
  OBVIOUS
<1>1. SafeInv
  BY InitInv, InitSafe DEF SafeInv
<1>2. ASSUME NEW k \in Honest
      PROVE  /\ node[k].sent_votes = {} /\ node[k].sent_proposals = {}
             /\ node[k].step = "PROPOSE"
  <2>1. node[k] = NewNode(k)
    BY DEF Init
  <2> QED
    BY <2>1 DEF NewNode
<1> QED
  BY <1>1, <1>2
     DEF QuorumInv, Answered, Led, Sent, ProposedOK, Awaits, Acted, Unsigned

LEMMA QuorumInvStep ==
    QuorumInv /\ [Next]_node => QuorumInv' /\ ProposersUnanswered
<1> SUFFICES ASSUME QuorumInv, [Next]_node PROVE Answered(node') /\ ProposersUnanswered
  BY SafeInvStep DEF QuorumInv
<1>1. CASE UNCHANGED node
  BY <1>1 DEF QuorumInv, ProposersUnanswered, Unanswered
<1> QED
  BY <1>1, AnsweredStart, AnsweredDeliver, AnsweredTimeout, AnsweredCrash
     DEF Next, QuorumInv, SafeInv

\* Whatever the order in which the proposal, its own vote and the others' reach
\* a node, it has precommitted once it holds a prevote quorum of its round for
\* NIL or for the proposal it has, and has prevoted itself.
THEOREM EnginePrevoteQuorumIsActedOn == Spec => []PrevoteQuorumIsActedOn
<1>1. QuorumInv => PrevoteQuorumIsActedOn
  BY DEF QuorumInv, Answered, Acted, PrevoteQuorumIsActedOn
<1> QED
  BY <1>1, QuorumInvInit, QuorumInvStep, PTL DEF Spec

\* A proposer that prevotes in the round it enters finds no quorum there, so that
\* the tally in _propose, which the operator propose leaves out, does nothing.
THEOREM EngineProposerFindsNoQuorum == Spec => ProposerFindsNoQuorum
<1>1. QuorumInv /\ [Next]_node =>
        [\A m \in Honest :
            node'[m].sent_proposals # node[m].sent_proposals =>
                winners(node'[m], node'[m].round, "PREVOTE") = {}]_node
  BY QuorumInvStep DEF ProposersUnanswered, Unanswered
<1> QED
  BY <1>1, QuorumInvInit, QuorumInvStep, PTL DEF Spec, ProposerFindsNoQuorum
=============================================================================
