---------------------------- MODULE EngineProofs ----------------------------
(***************************************************************************)
(* What holds of one validator of module Engine whatever the others and    *)
(* the network do, for any validator set, bounds and contents.  Every      *)
(* handler is a composition of operators from a node's state to its state  *)
(* afterwards, so there is one lemma for each operator, in the order of    *)
(* the module, that says what it preserves.                                *)
(***************************************************************************)
EXTENDS Engine, SequencesExt, FiniteSetTheorems, TLAPS

\* What a node has signed: in no height or round ahead of its own, once for
\* each height, round and phase, and counted in its own bucket while it is at
\* that height.
VotesOK(s) ==
    /\ \A v \in s.sent_votes :
          /\ v.height <= s.height
          /\ v.height = s.height => v.round <= s.round /\ v \in s.votes
          /\ v.validator = s.node_id
    /\ \A v, w \in s.sent_votes :
          v.height = w.height /\ v.round = w.round /\ v.phase = w.phase => v = w

\* The only timer of a started node is the one of its round.
TimerOK(s) ==
    s.timers = {<<s.height, s.round>>} /\ s.timeout_event = <<s.height, s.round>>

\* The ledger has one block per height, and what the node holds of the
\* current height extends it.
Extends(s, b) == b.height = s.height /\ b.parent = parent_hash(s)
ChainOK(s) ==
    /\ Len(s.ledger) = s.height /\ Len(parent_hash(s)) = s.height
    /\ \A p \in s.proposals : Extends(s, p.block)
    /\ s.locked_block # None => Extends(s, s.locked_block)
    /\ s.valid_block # None => Extends(s, s.valid_block)

Good(s) == s \in NodeState /\ VotesOK(s) /\ ChainOK(s) /\ TimerOK(s)

\* A node goes forward from s to t (ForwardOnly, for one node).
Forward(s, t) ==
    /\ \/ t.height > s.height
       \/ /\ t.height = s.height /\ t.round >= s.round
          /\ t.locked_round >= s.locked_round
          /\ t.valid_round >= s.valid_round
    /\ \A v \in t.sent_votes \ s.sent_votes :
          \/ v.height > s.height
          \/ v.height = s.height /\ v.round >= s.round

\* One step finalizes one block or none.
Grows(s, t) ==
    t.ledger = s.ledger \/ \E b \in Block : t.ledger = Append(s.ledger, b)

\* What a handler makes of s: a step of the model unless it passes MaxRound.
Outcome(s, t) ==
    t.round <= MaxRound =>
        /\ Good(t) /\ Forward(s, t) /\ Grows(s, t)
        /\ t.node_id = s.node_id /\ t.crashed = s.crashed

\* What s and t have decided and locked is the same.
SameLock(s, t) ==
    /\ t.height = s.height /\ t.ledger = s.ledger
    /\ t.locked_block = s.locked_block /\ t.locked_round = s.locked_round
    /\ t.valid_block = s.valid_block /\ t.valid_round = s.valid_round

\* The vote of s for this hash, and t after s has cast it.
OwnVote(s, r, phase, hash) ==
    [validator |-> s.node_id, height |-> s.height, round |-> r,
     phase |-> phase, hash |-> hash]
Signs(s, t, v) ==
    t.votes = s.votes \cup {v} /\ t.sent_votes = s.sent_votes \cup {v}

\* A prevote for this hash respects the lock (rule 5).
Obeys(s, hash) ==
    hash # NIL /\ s.locked_block # None => hash = block_hash(s.locked_block)

\* The block b is one that s builds in round r.
Builds(s, b, r) == Extends(s, b) /\ b.proposer = s.node_id /\ b.time = r

\* t is s after it has proposed in round r and prevoted.
Proposes(s, t, r) ==
    /\ t.step = "PREVOTE"
    /\ \E hash \in Hash \cup {NIL} :
          Obeys(s, hash) /\ Signs(s, t, OwnVote(s, r, "PREVOTE", hash))
    /\ \E p \in Proposal :
          /\ p.round = r /\ p.block.height = s.height
          /\ t.proposals = {q \in s.proposals : q.round # r} \cup {p}
          /\ t.sent_proposals = s.sent_proposals \cup {p}
          /\ s.node_id \in Byzantine => Builds(s, p.block, r)
          /\ \E hash \in {NIL, block_hash(p.block)} :
                Signs(s, t, OwnVote(s, r, "PREVOTE", hash))

\* t is s after it has entered round r, where it proposes if it is its turn.
Enters(s, t, r) ==
    IF proposer_for(s.height, r) = s.node_id THEN Proposes(s, t, r)
    ELSE /\ t.step = "PROPOSE"
         /\ t.votes = s.votes /\ t.sent_votes = s.sent_votes
         /\ t.proposals = s.proposals /\ t.sent_proposals = s.sent_proposals

-----------------------------------------------------------------------------
(* Constants, blocks and hashes.                                           *)

LEMMA NumberOfValidators == n \in Nat /\ n >= 4
BY ValidatorAssumption, FS_CardinalityType DEF n

LEMMA ProposerType ==
    \A height \in Nat, round \in Nat : proposer_for(height, round) \in Validator
<1> SUFFICES ASSUME NEW height \in Nat, NEW round \in Nat
             PROVE  proposer_for(height, round) \in Validator
  OBVIOUS
<1> HIDE DEF n
<1>1. (height + round) % n \in 0 .. n - 1
  BY NumberOfValidators
<1> QED
  BY <1>1, ValidatorAssumption DEF proposer_for

LEMMA HashType == \A b \in Block : block_hash(b) \in Hash
BY DEF Block, block_hash, Hash, Header

LEMMA ParentHashType == \A s \in NodeState : parent_hash(s) \in Hash
<1> SUFFICES ASSUME NEW s \in NodeState PROVE parent_hash(s) \in Hash
  OBVIOUS
<1>1. s.ledger \in Seq(Block)
  BY DEF NodeState
<1>2. CASE s.ledger = <<>>
  BY <1>2 DEF parent_hash, Hash
<1>3. CASE s.ledger # <<>>
  <2>1. s.ledger[Len(s.ledger)] \in Block
    BY <1>1, <1>3
  <2> QED
    BY <1>3, <2>1, HashType DEF parent_hash
<1> QED
  BY <1>2, <1>3

LEMMA NewBlockType ==
    \A s \in NodeState, data \in Data : new_block(s, data) \in Block
<1> SUFFICES ASSUME NEW s \in NodeState, NEW data \in Data
             PROVE  new_block(s, data) \in Block
  OBVIOUS
<1>1. /\ s.height \in Heights /\ s.node_id \in Validator
      /\ s.round \in Nat /\ parent_hash(s) \in Hash
  BY BoundAssumption, ParentHashType DEF NodeState, Rounds
<1> QED
  BY <1>1 DEF new_block, Block

LEMMA PrevoteHashType ==
    \A s, r : \A b \in Block : prevote_hash(s, b, r) \in Hash \cup {NIL}
BY HashType DEF prevote_hash

-----------------------------------------------------------------------------
(* Voting, proposing, entering a round.                                    *)

\* Nothing signed yet for this round of the node's height.
Unsigned(s, r, phase) ==
    \A v \in s.sent_votes :
        ~ (v.height = s.height /\ v.round = r /\ v.phase = phase)

LEMMA CastVote ==
    ASSUME NEW s \in NodeState, VotesOK(s), ChainOK(s),
           NEW phase \in Phase, NEW hash \in Hash \cup {NIL},
           Unsigned(s, s.round, phase)
    PROVE  LET t == cast_vote(s, phase, hash)
           IN  /\ t \in NodeState /\ VotesOK(t) /\ ChainOK(t) /\ Forward(s, t)
               /\ t.timers = s.timers /\ t.timeout_event = s.timeout_event
               /\ t.height = s.height /\ t.round = s.round
               /\ t.node_id = s.node_id /\ t.crashed = s.crashed
               /\ SameLock(s, t) /\ t.step = phase
               /\ Signs(s, t, OwnVote(s, s.round, phase, hash))
               /\ t.proposals = s.proposals /\ t.sent_proposals = s.sent_proposals
<1> DEFINE t == cast_vote(s, phase, hash)
           v == [validator |-> s.node_id, height |-> s.height, round |-> s.round,
                 phase |-> phase, hash |-> hash]
<1>1. v \in Vote
  BY DEF Vote, NodeState
<1>2. t = [s EXCEPT !.step = phase, !.votes = @ \cup {v},
                    !.sent_votes = @ \cup {v}]
  BY DEF cast_vote
<1>3. /\ t.sent_votes = s.sent_votes \cup {v} /\ t.votes = s.votes \cup {v}
      /\ t.timers = s.timers /\ t.timeout_event = s.timeout_event
      /\ t.height = s.height /\ t.round = s.round
      /\ t.node_id = s.node_id /\ t.crashed = s.crashed
      /\ t.locked_round = s.locked_round /\ t.valid_round = s.valid_round
      /\ t.ledger = s.ledger /\ t.proposals = s.proposals
      /\ t.locked_block = s.locked_block /\ t.valid_block = s.valid_block
      /\ t.step = phase /\ t.sent_proposals = s.sent_proposals
  BY <1>2 DEF NodeState
<1>10. v = OwnVote(s, s.round, phase, hash)
  BY DEF OwnVote
<1>4. t \in NodeState
  <2>1. /\ phase \in {"PROPOSE", "PREVOTE", "PRECOMMIT"}
        /\ s.votes \cup {v} \in SUBSET Vote /\ s.sent_votes \cup {v} \in SUBSET Vote
    BY <1>1 DEF NodeState, Phase
  <2> HIDE DEF v
  <2> QED
    BY <1>2, <2>1, ZenonT(60) DEF NodeState
<1>5. /\ v.validator = s.node_id /\ v.height = s.height /\ v.round = s.round
      /\ v.phase = phase
  OBVIOUS
<1>6. /\ s.height \in Int /\ s.round \in Int
      /\ s.locked_round \in Int /\ s.valid_round \in Int
  BY BoundAssumption DEF NodeState, Heights, Rounds
<1> HIDE DEF t, v
<1>7. VotesOK(t)
  BY <1>3, <1>5, <1>6 DEF VotesOK, Unsigned
<1>8. Forward(s, t)
  BY <1>3, <1>5, <1>6 DEF Forward
<1>9. ChainOK(t)
  BY <1>3 DEF ChainOK, Extends, parent_hash
<1> QED
  BY <1>3, <1>4, <1>7, <1>8, <1>9, <1>10 DEF t, SameLock, Signs

LEMMA Propose ==
    ASSUME NEW s \in NodeState, VotesOK(s), ChainOK(s), NEW data \in Data,
           Unsigned(s, s.round, "PREVOTE")
    PROVE  LET t == propose(s, data)
           IN  /\ t \in NodeState /\ VotesOK(t) /\ ChainOK(t) /\ Forward(s, t)
               /\ t.timers = s.timers /\ t.timeout_event = s.timeout_event
               /\ t.height = s.height /\ t.round = s.round
               /\ t.node_id = s.node_id /\ t.crashed = s.crashed
               /\ SameLock(s, t) /\ Proposes(s, t, s.round)
<1> DEFINE b == IF s.valid_block # None /\ s.node_id \notin Byzantine
                THEN s.valid_block ELSE new_block(s, data)
           p == [round |-> s.round, block |-> b]
           u == [s EXCEPT !.proposals = {q \in @ : q.round # s.round} \cup {p},
                          !.sent_proposals = @ \cup {p}]
<1>1. /\ b \in Block /\ Extends(s, b)
      /\ s.node_id \in Byzantine => Builds(s, b, s.round)
  BY NewBlockType DEF NodeState, ChainOK, Extends, Builds, new_block
<1> HIDE DEF b
<1>2. p \in Proposal
  BY <1>1 DEF Proposal, NodeState
<1>3. /\ {q \in s.proposals : q.round # s.round} \cup {p} \in SUBSET Proposal
      /\ s.sent_proposals \cup {p} \in SUBSET Proposal
      /\ p.block = b
  BY <1>2 DEF NodeState
<1> HIDE DEF p
<1>4. u \in NodeState
  BY <1>3 DEF NodeState
<1>5. /\ u.sent_votes = s.sent_votes /\ u.votes = s.votes
      /\ u.timers = s.timers /\ u.timeout_event = s.timeout_event
      /\ u.height = s.height /\ u.round = s.round
      /\ u.node_id = s.node_id /\ u.crashed = s.crashed
      /\ u.locked_round = s.locked_round /\ u.valid_round = s.valid_round
      /\ u.ledger = s.ledger
      /\ u.proposals = {q \in s.proposals : q.round # s.round} \cup {p}
      /\ u.locked_block = s.locked_block /\ u.valid_block = s.valid_block
      /\ u.sent_proposals = s.sent_proposals \cup {p}
  BY DEF NodeState
<1> HIDE DEF u
<1>6. VotesOK(u) /\ ChainOK(u) /\ Unsigned(u, u.round, "PREVOTE")
  BY <1>1, <1>3, <1>5 DEF VotesOK, Unsigned, ChainOK, Extends, parent_hash
<1> DEFINE hash == prevote_hash(u, b, u.round)
<1>7. hash \in Hash \cup {NIL} /\ hash \in {NIL, block_hash(b)} /\ Obeys(s, hash)
  BY <1>1, <1>5, PrevoteHashType DEF Obeys, prevote_hash
<1> HIDE DEF hash
<1> DEFINE t == cast_vote(u, "PREVOTE", hash)
<1>8. /\ t \in NodeState /\ VotesOK(t) /\ ChainOK(t) /\ Forward(u, t)
      /\ t.timers = u.timers /\ t.timeout_event = u.timeout_event
      /\ t.height = u.height /\ t.round = u.round
      /\ t.node_id = u.node_id /\ t.crashed = u.crashed
      /\ SameLock(u, t) /\ t.step = "PREVOTE"
      /\ Signs(u, t, OwnVote(u, u.round, "PREVOTE", hash))
      /\ t.proposals = u.proposals /\ t.sent_proposals = u.sent_proposals
  BY <1>4, <1>6, <1>7, CastVote DEF Phase
<1>9. propose(s, data) = t
  BY DEF propose, b, p, u, hash
<1> HIDE DEF t
<1>10. Forward(s, t)
  BY <1>5, <1>8 DEF Forward
<1>11. SameLock(s, t)
  BY <1>5, <1>8 DEF SameLock
<1>12. Proposes(s, t, s.round)
  <2>1. Signs(s, t, OwnVote(s, s.round, "PREVOTE", hash))
    BY <1>5, <1>8 DEF Signs, OwnVote
  <2>2. p.round = s.round /\ p.block = b /\ b.height = s.height
    BY <1>1, <1>3 DEF Extends, p
  <2> QED
    BY <1>1, <1>2, <1>5, <1>7, <1>8, <2>1, <2>2 DEF Proposes
<1> QED
  BY <1>5, <1>8, <1>9, <1>10, <1>11, <1>12 DEF t

\* The round is fresh: everything signed at this height is of an earlier one.
LEMMA EnterRound ==
    ASSUME NEW s \in NodeState, VotesOK(s), ChainOK(s),
           NEW data \in Data, NEW r \in Rounds,
           s.timers \subseteq {s.timeout_event},
           \A v \in s.sent_votes : v.height = s.height => v.round < r
    PROVE  LET t == enter_round(s, r, data)
           IN  /\ Good(t) /\ t.height = s.height /\ t.round = r
               /\ t.node_id = s.node_id /\ t.crashed = s.crashed
               /\ t.locked_round >= s.locked_round /\ t.valid_round >= s.valid_round
               /\ \A v \in t.sent_votes \ s.sent_votes :
                     v.height = s.height /\ v.round >= r
               /\ SameLock(s, t) /\ Enters(s, t, r)
<1> DEFINE a == [s EXCEPT !.round = r, !.step = "PROPOSE"]
           e == <<a.height, a.round>>
           u == reset_round_timeout(a)
           t == enter_round(s, r, data)
<1>1. s.height \in Heights /\ s.round \in Rounds /\ r \in Int
  BY BoundAssumption DEF NodeState, Rounds
<1>2. u = [[[s EXCEPT !.round = r, !.step = "PROPOSE"]
                EXCEPT !.timers = @ \ {s.timeout_event}]
                EXCEPT !.timers = @ \cup {<<s.height, r>>},
                       !.timeout_event = <<s.height, r>>]
  BY DEF reset_round_timeout, cancel, NodeState
<1>3. /\ u.height = s.height /\ u.round = r /\ u.step = "PROPOSE"
      /\ u.sent_votes = s.sent_votes /\ u.votes = s.votes
      /\ u.timers = {<<s.height, r>>} /\ u.timeout_event = <<s.height, r>>
      /\ u.node_id = s.node_id /\ u.crashed = s.crashed
      /\ u.sent_proposals = s.sent_proposals
      /\ u.locked_round = s.locked_round /\ u.valid_round = s.valid_round
      /\ u.ledger = s.ledger /\ u.proposals = s.proposals
      /\ u.locked_block = s.locked_block /\ u.valid_block = s.valid_block
  <2>1. s.timers \ {s.timeout_event} = {}
    OBVIOUS
  <2>2. u.timers = (s.timers \ {s.timeout_event}) \cup {<<s.height, r>>}
    BY <1>2 DEF NodeState
  <2>3. u.timers = {<<s.height, r>>}
    BY <2>1, <2>2
  <2> QED
    BY <1>2, <2>3, ZenonT(60) DEF NodeState
<1>4. u \in NodeState
  <2>1. <<s.height, r>> \in Heights \X Rounds
    BY <1>1
  <2> DEFINE T1 == s.timers \ {s.timeout_event}
             T2 == T1 \cup {<<s.height, r>>}
             E2 == <<s.height, r>>
             b  == [s EXCEPT !.round = r, !.step = "PROPOSE"]
             c  == [b EXCEPT !.timers = T1]
  <2>2. /\ T1 \in SUBSET (Heights \X Rounds) /\ T2 \in SUBSET (Heights \X Rounds)
        /\ E2 \in (Heights \X Rounds) \cup {<<>>}
    BY <2>1 DEF NodeState
  <2>3. b \in NodeState /\ b.timers = s.timers
    BY DEF NodeState
  <2>4. u = [[b EXCEPT !.timers = @ \ {s.timeout_event}]
               EXCEPT !.timers = @ \cup {<<s.height, r>>},
                      !.timeout_event = <<s.height, r>>]
    BY <1>2
  <2> HIDE DEF b
  <2>5. u = [c EXCEPT !.timers = T2, !.timeout_event = E2]
    BY <2>3, <2>4 DEF NodeState
  <2> HIDE DEF T1, T2, E2
  <2>6. c \in NodeState
    BY <2>2, <2>3, ZenonT(60) DEF NodeState
  <2> HIDE DEF c
  <2> QED
    BY <2>2, <2>5, <2>6, ZenonT(60) DEF NodeState
<1> HIDE DEF u
<1>5. /\ s.height \in Int /\ \A v \in Vote : v.round \in Int /\ v.height \in Int
      /\ s.sent_votes \subseteq Vote
      /\ s.locked_round \in Int /\ s.valid_round \in Int
  BY BoundAssumption DEF NodeState, Heights, Rounds, Vote
<1>6. VotesOK(u) /\ Unsigned(u, u.round, "PREVOTE") /\ ChainOK(u)
  BY <1>1, <1>3, <1>5 DEF VotesOK, Unsigned, ChainOK, Extends, parent_hash
<1>7. CASE ~ is_proposer(u)
  <2>1. t = u
    BY <1>7 DEF enter_round, u
  <2>2. SameLock(s, t) /\ Enters(s, t, r)
    BY <1>3, <1>7, <2>1 DEF SameLock, Enters, is_proposer
  <2> QED
    BY <1>3, <1>4, <1>5, <1>6, <2>1, <2>2 DEF Good, TimerOK
<1>8. CASE is_proposer(u)
  <2>1. t = propose(u, data)
    BY <1>8 DEF enter_round, u
  <2>2. /\ t \in NodeState /\ VotesOK(t) /\ ChainOK(t) /\ Forward(u, t)
        /\ t.timers = u.timers /\ t.timeout_event = u.timeout_event
        /\ t.height = u.height /\ t.round = u.round
        /\ t.node_id = u.node_id /\ t.crashed = u.crashed
        /\ SameLock(u, t) /\ Proposes(u, t, u.round)
    BY <1>4, <1>6, <2>1, Propose
  <2>3. Good(t)
    BY <1>3, <2>2 DEF Good, TimerOK
  <2>4. \A v \in t.sent_votes : v.height <= t.height
    BY <2>2 DEF VotesOK
  <2>5. \A v \in t.sent_votes \ s.sent_votes : v.height = s.height /\ v.round >= r
    <3>1. t.sent_votes \subseteq Vote
      BY <2>2 DEF NodeState
    <3> QED
      BY <1>3, <1>5, <2>2, <2>4, <3>1 DEF Forward
  <2>6. SameLock(s, t)
    BY <1>3, <2>2 DEF SameLock
  <2>7. Enters(s, t, r)
    <3>1. /\ \A b : Builds(u, b, r) = Builds(s, b, r)
          /\ \A hash : /\ Obeys(u, hash) = Obeys(s, hash)
                        /\ Signs(u, t, OwnVote(u, r, "PREVOTE", hash))
                             = Signs(s, t, OwnVote(s, r, "PREVOTE", hash))
      BY <1>3 DEF Builds, Extends, parent_hash, Signs, OwnVote, Obeys
    <3>2. Proposes(s, t, r)
      BY <1>3, <2>2, <3>1 DEF Proposes
    <3> QED
      BY <1>3, <1>8, <3>2 DEF Enters, is_proposer
  <2> QED
    BY <1>3, <1>5, <2>2, <2>3, <2>5, <2>6, <2>7 DEF Forward
<1> QED
  BY <1>7, <1>8

-----------------------------------------------------------------------------
(* Quorums.                                                                *)

\* The first half of commit: the locked block appended, a new ConsensusState.
Decided(s) ==
    [cancel(s) EXCEPT !.ledger = Append(@, s.locked_block), !.height = @ + 1,
                      !.locked_block = None, !.locked_round = -1,
                      !.valid_block = None, !.valid_round = -1,
                      !.proposals = {}, !.votes = {}]

LEMMA Decide ==
    ASSUME NEW s, Good(s), s.height < MaxHeight, s.locked_block # None
    PROVE  LET u == Decided(s)
           IN  /\ u \in NodeState /\ VotesOK(u) /\ ChainOK(u) /\ Forward(s, u)
               /\ u.timers \subseteq {u.timeout_event}
               /\ u.node_id = s.node_id /\ u.crashed = s.crashed
               /\ u.height = s.height + 1 /\ u.round = s.round
               /\ u.ledger = Append(s.ledger, s.locked_block)
               /\ u.locked_block = None /\ u.locked_round = -1
               /\ u.valid_block = None /\ u.valid_round = -1
               /\ u.proposals = {} /\ u.votes = {}
               /\ u.sent_votes = s.sent_votes
               /\ u.sent_proposals = s.sent_proposals
               /\ 0 \in Rounds
               /\ \A v \in u.sent_votes : v.height = u.height => v.round < 0
<1> DEFINE u == Decided(s)
<1>1. s \in NodeState /\ VotesOK(s) /\ ChainOK(s) /\ TimerOK(s)
  BY DEF Good
<1>2. u = [[s EXCEPT !.timers = @ \ {s.timeout_event}] EXCEPT
                   !.ledger = Append(@, s.locked_block), !.height = @ + 1,
                   !.locked_block = None, !.locked_round = -1,
                   !.valid_block = None, !.valid_round = -1,
                   !.proposals = {}, !.votes = {}]
  BY DEF cancel, Decided
<1>3. /\ u.height = s.height + 1 /\ u.sent_votes = s.sent_votes
      /\ u.timers = s.timers \ {s.timeout_event}
      /\ u.timeout_event = s.timeout_event
      /\ u.node_id = s.node_id /\ u.crashed = s.crashed
      /\ u.ledger = Append(s.ledger, s.locked_block) /\ u.proposals = {}
      /\ u.locked_block = None /\ u.valid_block = None
      /\ u.locked_round = -1 /\ u.valid_round = -1
      /\ u.votes = {} /\ u.round = s.round
      /\ u.sent_proposals = s.sent_proposals
  BY <1>1, <1>2, SMTT(30) DEF NodeState
<1>4. s.height \in Nat /\ s.height + 1 \in Heights
  BY <1>1, BoundAssumption DEF NodeState, Heights
<1>5. u \in NodeState
  <2> DEFINE L == Append(s.ledger, s.locked_block)
             h == s.height + 1
             T == s.timers \ {s.timeout_event}
             x == [s EXCEPT !.ledger = L, !.height = h, !.timers = T]
             y == [x EXCEPT !.locked_block = None, !.locked_round = -1,
                            !.valid_block = None, !.valid_round = -1]
             z == [y EXCEPT !.proposals = {}, !.votes = {}]
  <2>1. L \in Seq(Block) /\ h \in Heights /\ T \in SUBSET (Heights \X Rounds)
    BY <1>1, <1>4 DEF NodeState
  <2>2. u = z
    BY <1>1, <1>2, ZenonT(60) DEF NodeState
  <2> HIDE DEF L, h, T
  <2>3. x \in NodeState
    BY <1>1, <2>1 DEF NodeState
  <2> HIDE DEF x
  <2>4. y \in NodeState
    BY <2>3 DEF NodeState
  <2> HIDE DEF y
  <2>5. z \in NodeState
    BY <2>4 DEF NodeState
  <2> QED
    BY <2>2, <2>5
<1> HIDE DEF u
<1>6. \A v \in Vote : v.height \in Int /\ v.round \in Int
  BY BoundAssumption DEF Vote, Heights, Rounds
<1>7. \A v \in s.sent_votes : v.height <= s.height /\ v \in Vote
  BY <1>1 DEF VotesOK, NodeState
<1>8. \A v \in u.sent_votes : v.height < u.height
  BY <1>3, <1>4, <1>6, <1>7
<1>9. VotesOK(u)
  BY <1>1, <1>3, <1>4, <1>6, <1>7, <1>8 DEF VotesOK
<1> DEFINE b == s.locked_block
<1>10. ChainOK(u)
  <2>1. b \in Block /\ s.ledger \in Seq(Block) /\ Len(b.parent) = s.height
        /\ b.parent \in Seq(Header)
    BY <1>1 DEF NodeState, ChainOK, Extends, Block, Hash
  <2>2. u.ledger # <<>> /\ Len(u.ledger) = u.height /\ u.ledger[Len(u.ledger)] = b
    <3>1. Len(s.ledger) = s.height
      BY <1>1 DEF ChainOK
    <3>2. u.ledger = Append(s.ledger, b)
      BY <1>3
    <3> HIDE DEF b
    <3>3. /\ Len(u.ledger) = Len(s.ledger) + 1
          /\ u.ledger[Len(s.ledger) + 1] = b
          /\ u.ledger \in Seq(Block)
      BY <2>1, <3>2
    <3> QED
      BY <1>3, <1>4, <3>1, <3>3
  <2>3. parent_hash(u) = block_hash(b)
    BY <2>2 DEF parent_hash
  <2>4. Len(parent_hash(u)) = s.height + 1
    BY <2>1, <2>3 DEF block_hash, Header
  <2> QED
    BY <1>3, <2>2, <2>4 DEF ChainOK
<1>11. u.timers \subseteq {u.timeout_event} /\ 0 \in Rounds
  BY <1>1, <1>3, BoundAssumption DEF TimerOK, Rounds
<1>12. \A v \in u.sent_votes : v.height = u.height => v.round < 0
  BY <1>3, <1>4, <1>6, <1>7, <1>8
<1>13. Forward(s, u)
  BY <1>3, <1>4 DEF Forward
<1> QED
  BY <1>3, <1>5, <1>9, <1>10, <1>11, <1>12, <1>13 DEF u

LEMMA Commit ==
    ASSUME NEW s, Good(s), NEW data \in Data, s.height < MaxHeight,
           s.locked_block # None
    PROVE  Outcome(s, commit(s, data))
<1> DEFINE u == Decided(s)
           t == enter_round(u, 0, data)
<1>1. s \in NodeState /\ s.height \in Int
  BY BoundAssumption DEF Good, NodeState, Heights
<1>2. /\ u \in NodeState /\ VotesOK(u) /\ ChainOK(u)
      /\ u.timers \subseteq {u.timeout_event} /\ 0 \in Rounds
      /\ u.node_id = s.node_id /\ u.crashed = s.crashed
      /\ u.height = s.height + 1 /\ u.sent_votes = s.sent_votes
      /\ u.ledger = Append(s.ledger, s.locked_block)
      /\ \A v \in u.sent_votes : v.height = u.height => v.round < 0
  BY Decide
<1> HIDE DEF u
<1>3. /\ Good(t) /\ t.height = u.height /\ t.ledger = u.ledger
      /\ t.node_id = u.node_id /\ t.crashed = u.crashed
      /\ \A v \in t.sent_votes \ u.sent_votes : v.height = u.height
  BY <1>2, EnterRound DEF SameLock
<1>4. Forward(s, t)
  BY <1>1, <1>2, <1>3 DEF Forward
<1>5. Grows(s, t)
  BY <1>1, <1>2, <1>3 DEF Grows, NodeState
<1>6. commit(s, data) = t
  BY DEF commit, u, Decided
<1> QED
  BY <1>2, <1>3, <1>4, <1>5, <1>6 DEF Outcome

\* Whatever the round, the node ends up in it.
LEMMA EnterRoundRound ==
    ASSUME NEW s \in NodeState, NEW data, NEW r
    PROVE  enter_round(s, r, data).round = r
<1> DEFINE u == [[[s EXCEPT !.round = r, !.step = "PROPOSE"]
                     EXCEPT !.timers = @ \ {s.timeout_event}]
                     EXCEPT !.timers = @ \cup {<<s.height, r>>},
                            !.timeout_event = <<s.height, r>>]
           b == IF u.valid_block # None /\ u.node_id \notin Byzantine
                THEN u.valid_block ELSE new_block(u, data)
           p == [round |-> u.round, block |-> b]
           w == [u EXCEPT !.proposals = {q \in @ : q.round # u.round} \cup {p},
                          !.sent_proposals = @ \cup {p}]
           hash == prevote_hash(w, b, w.round)
           v == [validator |-> w.node_id, height |-> w.height, round |-> w.round,
                 phase |-> "PREVOTE", hash |-> hash]
           z == [w EXCEPT !.step = "PREVOTE", !.votes = @ \cup {v},
                          !.sent_votes = @ \cup {v}]
<1>1. u = reset_round_timeout([s EXCEPT !.round = r, !.step = "PROPOSE"])
  BY DEF reset_round_timeout, cancel, NodeState
<1>2. u.round = r /\ DOMAIN u = DOMAIN s
  BY DEF NodeState
<1>3. w.round = u.round /\ DOMAIN w = DOMAIN u
  BY <1>2
<1>4. z.round = w.round
  OBVIOUS
<1>5. propose(u, data) = z
  BY DEF propose, cast_vote
<1> QED
  BY <1>1, <1>2, <1>3, <1>4, <1>5 DEF enter_round

\* One step of a handler after another.
LEMMA Compose ==
    ASSUME NEW s \in NodeState, NEW u \in NodeState, Forward(s, u),
           u.node_id = s.node_id, u.crashed = s.crashed, u.ledger = s.ledger,
           NEW t, Outcome(u, t)
    PROVE  Outcome(s, t)
<1> SUFFICES ASSUME t.round <= MaxRound
             PROVE  /\ Forward(s, t) /\ Good(t) /\ Grows(s, t)
                    /\ t.node_id = s.node_id /\ t.crashed = s.crashed
  BY DEF Outcome
<1>1. /\ Good(t) /\ Forward(u, t) /\ Grows(s, t)
      /\ t.node_id = u.node_id /\ t.crashed = u.crashed
  BY DEF Outcome, Grows
<1>2. \A x \in NodeState : /\ x.height \in Int /\ x.round \in Int
                           /\ x.locked_round \in Int /\ x.valid_round \in Int
                           /\ x.sent_votes \subseteq Vote
  BY BoundAssumption DEF NodeState, Heights, Rounds
<1>3. \A v \in Vote : v.height \in Int /\ v.round \in Int
  BY BoundAssumption DEF Vote, Heights, Rounds
<1>4. t \in NodeState
  BY <1>1 DEF Good
<1>5. Forward(s, t)
  BY <1>1, <1>2, <1>3, <1>4 DEF Forward
<1> QED
  BY <1>1, <1>5

LEMMA Unchanged == ASSUME NEW s, Good(s) PROVE Outcome(s, s)
BY BoundAssumption DEF Outcome, Good, Forward, Grows, NodeState, Rounds

LEMMA NextRound ==
    ASSUME NEW s \in NodeState, VotesOK(s), ChainOK(s), NEW data \in Data,
           s.timers \subseteq {s.timeout_event}
    PROVE  Outcome(s, enter_round(s, s.round + 1, data))
<1> DEFINE t == enter_round(s, s.round + 1, data)
<1>1. t.round = s.round + 1
  BY EnterRoundRound
<1>2. SUFFICES ASSUME s.round + 1 <= MaxRound PROVE Outcome(s, t)
  BY <1>1 DEF Outcome
<1>3. s.round + 1 \in Rounds /\ s.round \in Nat
  BY <1>2, BoundAssumption DEF NodeState, Rounds
<1>4. \A v \in s.sent_votes : v.height = s.height => v.round < s.round + 1
  <2>1. \A v \in s.sent_votes : v.round \in Int
    BY BoundAssumption DEF NodeState, Vote, Rounds
  <2> QED
    BY <1>3, <2>1 DEF VotesOK
<1>5. /\ Good(t) /\ t.height = s.height /\ t.round = s.round + 1
      /\ t.node_id = s.node_id /\ t.crashed = s.crashed
      /\ t.locked_round >= s.locked_round /\ t.valid_round >= s.valid_round
      /\ \A v \in t.sent_votes \ s.sent_votes :
            v.height = s.height /\ v.round >= s.round + 1
      /\ Grows(s, t)
  BY <1>3, <1>4, EnterRound DEF SameLock, Grows
<1>6. t.sent_votes \subseteq Vote
  BY <1>5 DEF Good, NodeState
<1>7. \A v \in Vote : v.round \in Int
  BY BoundAssumption DEF Vote, Rounds
<1>8. Forward(s, t)
  BY <1>3, <1>5, <1>6, <1>7 DEF Forward
<1> QED
  BY <1>5, <1>8 DEF Outcome

LEMMA TallyPrecommits ==
    ASSUME NEW s, Good(s), NEW data \in Data, NEW r, s.height < MaxHeight
    PROVE  Outcome(s, tally_precommits(s, r, data))
<1>1. \A hash : Outcome(s, on_precommit_quorum(s, hash, data))
  BY Commit, Unchanged DEF on_precommit_quorum
<1>2. Outcome(s, on_precommit_nil_quorum(s, r, data))
  BY NextRound, Unchanged DEF on_precommit_nil_quorum, Good, TimerOK
<1> QED
  BY <1>1, <1>2, Unchanged DEF tally_precommits

LEMMA SendPrecommit ==
    ASSUME NEW s, Good(s), NEW data \in Data, NEW hash \in Hash \cup {NIL},
           s.height < MaxHeight
    PROVE  Outcome(s, send_precommit(s, hash, data))
<1> DEFINE u == cast_vote(s, "PRECOMMIT", hash)
<1>1. CASE has_voted(s, s.node_id, s.round, "PRECOMMIT")
  BY <1>1, Unchanged DEF send_precommit
<1>2. CASE ~ has_voted(s, s.node_id, s.round, "PRECOMMIT")
  <2>1. s \in NodeState /\ VotesOK(s) /\ ChainOK(s) /\ TimerOK(s)
    BY DEF Good
  <2>2. Unsigned(s, s.round, "PRECOMMIT")
    BY <1>2, <2>1 DEF Unsigned, VotesOK, has_voted
  <2>3. /\ u \in NodeState /\ VotesOK(u) /\ ChainOK(u) /\ Forward(s, u)
        /\ u.timers = s.timers /\ u.timeout_event = s.timeout_event
        /\ u.height = s.height /\ u.round = s.round
        /\ u.node_id = s.node_id /\ u.crashed = s.crashed
        /\ u.ledger = s.ledger
    BY <2>1, <2>2, CastVote DEF Phase, SameLock
  <2>4. Good(u) /\ u.height < MaxHeight
    BY <2>1, <2>3 DEF Good, TimerOK
  <2>5. Outcome(u, tally_precommits(u, s.round, data))
    BY <2>4, TallyPrecommits
  <2>6. Outcome(s, tally_precommits(u, s.round, data))
    BY <2>1, <2>3, <2>5, Compose
  <2> QED
    BY <1>2, <2>6 DEF send_precommit
<1> QED
  BY <1>1, <1>2

\* s with the lock and the valid block a prevote quorum gives it.
Locked(s, r, b) ==
    LET lock == IF r >= s.locked_round
                THEN [s EXCEPT !.locked_block = b, !.locked_round = r] ELSE s
    IN  IF r >= s.valid_round
        THEN [lock EXCEPT !.valid_block = b, !.valid_round = r] ELSE lock

LEMMA Lock ==
    ASSUME NEW s, Good(s), NEW r \in Rounds, NEW b \in Block, Extends(s, b)
    PROVE  LET u == Locked(s, r, b)
           IN  /\ Good(u) /\ Forward(s, u) /\ Outcome(s, u)
               /\ u.height = s.height /\ u.round = s.round /\ u.step = s.step
               /\ u.node_id = s.node_id /\ u.crashed = s.crashed
               /\ u.ledger = s.ledger /\ u.proposals = s.proposals
               /\ u.votes = s.votes /\ u.sent_votes = s.sent_votes
               /\ u.sent_proposals = s.sent_proposals
               /\ IF r >= s.locked_round
                  THEN u.locked_block = b /\ u.locked_round = r
                  ELSE /\ u.locked_block = s.locked_block
                       /\ u.locked_round = s.locked_round
               /\ IF r >= s.valid_round
                  THEN u.valid_block = b /\ u.valid_round = r
                  ELSE /\ u.valid_block = s.valid_block
                       /\ u.valid_round = s.valid_round
<1> DEFINE lock  == IF r >= s.locked_round
                    THEN [s EXCEPT !.locked_block = b, !.locked_round = r] ELSE s
           valid == IF r >= s.valid_round
                    THEN [lock EXCEPT !.valid_block = b, !.valid_round = r]
                    ELSE lock
<1>1. s \in NodeState /\ VotesOK(s) /\ ChainOK(s) /\ TimerOK(s)
  BY DEF Good
<1>2. \A x \in NodeState : /\ x.height \in Int /\ x.round \in Int
                           /\ x.locked_round \in Int /\ x.valid_round \in Int
  BY BoundAssumption DEF NodeState, Heights, Rounds
<1>3. r \in Int
  BY BoundAssumption DEF Rounds
<1> DEFINE Same(u) == /\ u.sent_votes = s.sent_votes /\ u.votes = s.votes
                      /\ u.timers = s.timers /\ u.timeout_event = s.timeout_event
                      /\ u.height = s.height /\ u.round = s.round
                      /\ u.node_id = s.node_id /\ u.crashed = s.crashed
                      /\ u.ledger = s.ledger /\ u.proposals = s.proposals
                      /\ u.sent_proposals = s.sent_proposals /\ u.step = s.step
           NewLock(u) == IF r >= s.locked_round
                         THEN u.locked_block = b /\ u.locked_round = r
                         ELSE /\ u.locked_block = s.locked_block
                              /\ u.locked_round = s.locked_round
           NewValid(u) == IF r >= s.valid_round
                          THEN u.valid_block = b /\ u.valid_round = r
                          ELSE /\ u.valid_block = s.valid_block
                               /\ u.valid_round = s.valid_round
<1>4. /\ lock \in NodeState /\ Same(lock) /\ NewLock(lock)
      /\ lock.valid_block = s.valid_block /\ lock.valid_round = s.valid_round
  <2>1. CASE r >= s.locked_round
    <3>1. lock = [s EXCEPT !.locked_block = b, !.locked_round = r]
      BY <2>1
    <3>2. lock \in NodeState
      BY <1>1, <3>1, ZenonT(60) DEF NodeState
    <3>3. lock.locked_round = r /\ lock.locked_block = b
      BY <1>1, <3>1 DEF NodeState
    <3>4. Same(lock) /\ lock.valid_block = s.valid_block /\ lock.valid_round = s.valid_round
      BY <1>1, <3>1 DEF NodeState
    <3> QED
      BY <2>1, <3>2, <3>3, <3>4
  <2>2. CASE ~ (r >= s.locked_round)
    <3>1. lock = s
      BY <2>2
    <3> QED
      BY <1>1, <1>2, <2>2, <3>1
  <2> QED
    BY <2>1, <2>2
<1> HIDE DEF lock
<1>5. valid \in NodeState /\ Same(valid) /\ NewLock(valid) /\ NewValid(valid)
  <2>1. CASE r >= s.valid_round
    <3>1. valid = [lock EXCEPT !.valid_block = b, !.valid_round = r]
      BY <2>1
    <3>2. valid \in NodeState
      BY <1>4, <3>1, ZenonT(60) DEF NodeState
    <3>3. valid.valid_round = r /\ valid.valid_block = b
      BY <1>4, <3>1 DEF NodeState
    <3>4. /\ Same(valid) /\ valid.locked_round = lock.locked_round
          /\ valid.locked_block = lock.locked_block
      BY <1>4, <3>1 DEF NodeState
    <3> QED
      BY <1>4, <2>1, <3>2, <3>3, <3>4
  <2>2. CASE ~ (r >= s.valid_round)
    <3>1. valid = lock
      BY <2>2
    <3> QED
      BY <1>1, <1>2, <1>4, <2>2, <3>1
  <2> QED
    BY <2>1, <2>2
<1> HIDE DEF valid
<1>6. VotesOK(valid) /\ TimerOK(valid)
  BY <1>1, <1>5 DEF VotesOK, TimerOK
<1>7. ChainOK(valid)
  BY <1>1, <1>5 DEF ChainOK, Extends, parent_hash
<1>8. Forward(s, valid)
  BY <1>1, <1>2, <1>3, <1>5 DEF Forward
<1>9. Good(valid)
  BY <1>5, <1>6, <1>7 DEF Good
<1>10. Outcome(s, valid)
  BY <1>5, <1>8, <1>9 DEF Outcome, Grows
<1>11. valid = Locked(s, r, b)
  BY DEF Locked, lock, valid
<1> HIDE DEF Locked
<1> QED
  BY <1>5, <1>8, <1>9, <1>10, <1>11

LEMMA OnPrevoteQuorum ==
    ASSUME NEW s, Good(s), NEW data \in Data, NEW r \in Rounds, NEW b \in Block,
           Extends(s, b), s.height < MaxHeight
    PROVE  Outcome(s, on_prevote_quorum(s, r, b, data))
<1> DEFINE u == Locked(s, r, b)
<1>1. /\ Good(u) /\ Forward(s, u) /\ Outcome(s, u)
      /\ u.height = s.height /\ u.ledger = s.ledger
      /\ u.node_id = s.node_id /\ u.crashed = s.crashed
  BY Lock
<1>2. on_prevote_quorum(s, r, b, data) =
        IF r = s.round /\ s.step = "PREVOTE"
        THEN send_precommit(u, block_hash(b), data) ELSE u
  BY DEF on_prevote_quorum, Locked
<1> HIDE DEF u
<1>3. block_hash(b) \in Hash \cup {NIL}
  BY HashType
<1>4. Outcome(u, send_precommit(u, block_hash(b), data))
  BY <1>1, <1>3, SendPrecommit
<1>5. Outcome(s, send_precommit(u, block_hash(b), data))
  BY <1>1, <1>4, Compose DEF Good
<1> QED
  BY <1>1, <1>2, <1>5

LEMMA TallyPrevotes ==
    ASSUME NEW s, Good(s), NEW data \in Data, NEW r \in Rounds, s.height < MaxHeight
    PROVE  Outcome(s, tally_prevotes(s, r, data))
<1> DEFINE W == winners(s, r, "PREVOTE")
           P == {p \in s.proposals : p.round = r /\ block_hash(p.block) \in W}
<1>1. Outcome(s, on_prevote_nil_quorum(s, r, data))
  BY SendPrecommit, Unchanged DEF on_prevote_nil_quorum
<1>2. ASSUME P # {}
      PROVE  Outcome(s, on_prevote_quorum(s, r, (CHOOSE p \in P : TRUE).block, data))
  <2> DEFINE p == CHOOSE q \in P : TRUE
  <2>1. p \in s.proposals
    BY <1>2
  <2>2. p.block \in Block /\ Extends(s, p.block)
    BY <2>1 DEF Good, NodeState, Proposal, ChainOK
  <2> QED
    BY <2>2, OnPrevoteQuorum
<1> HIDE DEF W
<1> QED
  BY <1>1, <1>2, Unchanged DEF tally_prevotes, W

-----------------------------------------------------------------------------
(* Messages.                                                               *)

\* s with the proposal, unless it has one for that round.
Stored(s, b, r) ==
    IF \E p \in s.proposals : p.round = r THEN s
    ELSE [s EXCEPT !.proposals = @ \cup {[round |-> r, block |-> b]}]

LEMMA Store ==
    ASSUME NEW s, Good(s), NEW r \in Rounds, NEW b \in Block, Extends(s, b)
    PROVE  LET u == Stored(s, b, r)
           IN  /\ Good(u) /\ Forward(s, u) /\ Outcome(s, u) /\ SameLock(s, u)
               /\ u.round = s.round /\ u.step = s.step
               /\ u.node_id = s.node_id /\ u.crashed = s.crashed
               /\ u.votes = s.votes /\ u.sent_votes = s.sent_votes
               /\ u.sent_proposals = s.sent_proposals
               /\ s.proposals \subseteq u.proposals
               /\ \A p \in u.proposals \ s.proposals :
                     p.round = r /\ ~ \E q \in s.proposals : q.round = r
               /\ \E p \in u.proposals : p.round = r
<1> DEFINE P == s.proposals \cup {[round |-> r, block |-> b]}
           u == IF \E p \in s.proposals : p.round = r THEN s
                ELSE [s EXCEPT !.proposals = P]
<1>1. s \in NodeState /\ VotesOK(s) /\ ChainOK(s) /\ TimerOK(s)
  BY DEF Good
<1>2. P \in SUBSET Proposal /\ \A p \in P : Extends(s, p.block)
  BY <1>1 DEF NodeState, Proposal, ChainOK
<1>10. /\ s.proposals \subseteq P /\ \A p \in P \ s.proposals : p.round = r
       /\ \E p \in P : p.round = r
  <2> DEFINE q == [round |-> r, block |-> b]
  <2>1. q.round = r
    OBVIOUS
  <2>2. P = s.proposals \cup {q}
    OBVIOUS
  <2> HIDE DEF q, P
  <2> QED
    BY <2>1, <2>2
<1> HIDE DEF P
<1>3. /\ u \in NodeState
      /\ u.sent_votes = s.sent_votes /\ u.votes = s.votes
      /\ u.timers = s.timers /\ u.timeout_event = s.timeout_event
      /\ u.height = s.height /\ u.round = s.round
      /\ u.node_id = s.node_id /\ u.crashed = s.crashed
      /\ u.locked_round = s.locked_round /\ u.valid_round = s.valid_round
      /\ u.locked_block = s.locked_block /\ u.valid_block = s.valid_block
      /\ u.ledger = s.ledger /\ u.proposals \in {s.proposals, P}
      /\ u.step = s.step /\ u.sent_proposals = s.sent_proposals
      /\ u.proposals # s.proposals => ~ \E p \in s.proposals : p.round = r
      /\ u.proposals = s.proposals => \E p \in s.proposals : p.round = r
  <2>1. CASE \E p \in s.proposals : p.round = r
    <3>1. u = s
      BY <2>1
    <3> QED
      BY <1>1, <2>1, <3>1
  <2>2. CASE ~ \E p \in s.proposals : p.round = r
    <3>1. u = [s EXCEPT !.proposals = P]
      BY <2>2
    <3>2. P # s.proposals
      BY <1>10, <2>2
    <3>3. u \in NodeState
      BY <1>1, <1>2, <3>1 DEF NodeState
    <3> QED
      BY <1>1, <2>2, <3>1, <3>2, <3>3 DEF NodeState
  <2> QED
    BY <2>1, <2>2
<1>4. \A x \in NodeState : /\ x.height \in Int /\ x.round \in Int
                           /\ x.locked_round \in Int /\ x.valid_round \in Int
  BY BoundAssumption DEF NodeState, Heights, Rounds
<1> HIDE DEF u
<1>5. VotesOK(u) /\ TimerOK(u) /\ ChainOK(u) /\ Forward(s, u)
  BY <1>1, <1>2, <1>3, <1>4
     DEF VotesOK, TimerOK, ChainOK, Extends, parent_hash, Forward
<1>6. Good(u)
  BY <1>3, <1>5 DEF Good
<1>7. Outcome(s, u) /\ SameLock(s, u)
  BY <1>3, <1>5, <1>6 DEF Outcome, Grows, SameLock
<1>8. u = Stored(s, b, r)
  BY DEF u, P, Stored
<1>9. /\ s.proposals \subseteq u.proposals
      /\ \A p \in u.proposals \ s.proposals :
            p.round = r /\ ~ \E q \in s.proposals : q.round = r
      /\ \E p \in u.proposals : p.round = r
  BY <1>3, <1>10
<1> HIDE DEF Stored
<1> QED
  BY <1>3, <1>5, <1>6, <1>7, <1>8, <1>9

LEMMA HandleProposal ==
    ASSUME NEW s, Good(s), NEW data \in Data, NEW r \in Rounds, NEW b \in Block,
           Extends(s, b), s.height < MaxHeight
    PROVE  Outcome(s, handle_proposal_local(s, b, r, data))
<1> DEFINE u == Stored(s, b, r)
           c == cast_vote(u, "PREVOTE", prevote_hash(u, b, r))
<1>1. s \in NodeState
  BY DEF Good
<1>3. /\ Good(u) /\ Forward(s, u) /\ Outcome(s, u)
      /\ u.height = s.height /\ u.ledger = s.ledger
      /\ u.node_id = s.node_id /\ u.crashed = s.crashed
  BY Store DEF SameLock
<1>5. /\ u \in NodeState /\ VotesOK(u) /\ ChainOK(u) /\ TimerOK(u)
      /\ u.height < MaxHeight
  BY <1>3 DEF Good
<1>6. handle_proposal_local(s, b, r, data) =
        IF \/ r # u.round \/ u.step # "PROPOSE"
           \/ has_voted(u, u.node_id, r, "PREVOTE")
        THEN u ELSE tally_prevotes(c, r, data)
  BY DEF handle_proposal_local, Stored
<1> HIDE DEF u
<1>7. CASE \/ r # u.round \/ u.step # "PROPOSE"
           \/ has_voted(u, u.node_id, r, "PREVOTE")
  <2>1. handle_proposal_local(s, b, r, data) = u
    BY <1>6, <1>7
  <2> QED
    BY <1>3, <2>1
<1>8. CASE ~ (\/ r # u.round \/ u.step # "PROPOSE"
              \/ has_voted(u, u.node_id, r, "PREVOTE"))
  <2>1. handle_proposal_local(s, b, r, data) = tally_prevotes(c, r, data)
    BY <1>6, <1>8
  <2>2. Unsigned(u, u.round, "PREVOTE")
    BY <1>5, <1>8 DEF Unsigned, VotesOK, has_voted
  <2>3. prevote_hash(u, b, r) \in Hash \cup {NIL}
    BY PrevoteHashType
  <2>4. /\ c \in NodeState /\ VotesOK(c) /\ ChainOK(c) /\ Forward(u, c)
        /\ c.timers = u.timers /\ c.timeout_event = u.timeout_event
        /\ c.height = u.height /\ c.round = u.round
        /\ c.node_id = u.node_id /\ c.crashed = u.crashed
        /\ c.ledger = u.ledger
    BY <1>5, <1>8, <2>2, <2>3, CastVote DEF Phase, SameLock
  <2>5. Good(c) /\ c.height < MaxHeight
    BY <1>5, <2>4 DEF Good, TimerOK
  <2>6. Outcome(c, tally_prevotes(c, r, data))
    BY <2>5, TallyPrevotes
  <2> HIDE DEF c
  <2>7. Outcome(u, tally_prevotes(c, r, data))
    BY <1>5, <2>4, <2>6, Compose
  <2>8. Outcome(s, tally_prevotes(c, r, data))
    BY <1>1, <1>3, <1>5, <2>7, Compose
  <2> QED
    BY <2>1, <2>8
<1> QED
  BY <1>7, <1>8

LEMMA OnProposal ==
    ASSUME NEW s, Good(s), NEW data \in Data, NEW p \in Proposal, s.height < MaxHeight
    PROVE  Outcome(s, on_proposal(s, p, data))
<1>1. p.block \in Block /\ p.round \in Rounds
  BY DEF Proposal
<1> QED
  BY <1>1, HandleProposal, Unchanged DEF on_proposal, accept_header, Extends

\* s with the vote in its bucket.
WithVote(s, v) == [s EXCEPT !.votes = @ \cup {v}]

LEMMA Count ==
    ASSUME NEW s, Good(s), NEW v \in Vote
    PROVE  LET u == WithVote(s, v)
           IN  /\ Good(u) /\ Forward(s, u) /\ SameLock(s, u)
               /\ u.round = s.round /\ u.step = s.step
               /\ u.node_id = s.node_id /\ u.crashed = s.crashed
               /\ u.votes = s.votes \cup {v} /\ u.sent_votes = s.sent_votes
               /\ u.proposals = s.proposals
               /\ u.sent_proposals = s.sent_proposals
<1> DEFINE u == [s EXCEPT !.votes = @ \cup {v}]
<1>1. s \in NodeState /\ VotesOK(s) /\ ChainOK(s) /\ TimerOK(s)
  BY DEF Good
<1>2. s.votes \cup {v} \in SUBSET Vote /\ v.round \in Rounds
  BY <1>1 DEF NodeState, Vote
<1>3. /\ u \in NodeState
      /\ u.sent_votes = s.sent_votes /\ u.votes = s.votes \cup {v}
      /\ u.timers = s.timers /\ u.timeout_event = s.timeout_event
      /\ u.height = s.height /\ u.round = s.round
      /\ u.node_id = s.node_id /\ u.crashed = s.crashed
      /\ u.locked_round = s.locked_round /\ u.valid_round = s.valid_round
      /\ u.locked_block = s.locked_block /\ u.valid_block = s.valid_block
      /\ u.ledger = s.ledger /\ u.proposals = s.proposals
      /\ u.step = s.step /\ u.sent_proposals = s.sent_proposals
  BY <1>1, <1>2 DEF NodeState
<1>4. /\ s.height \in Int /\ s.round \in Int
      /\ s.locked_round \in Int /\ s.valid_round \in Int
  BY <1>1, BoundAssumption DEF NodeState, Heights, Rounds
<1> HIDE DEF u
<1>5. VotesOK(u) /\ TimerOK(u) /\ ChainOK(u) /\ Forward(s, u)
  BY <1>1, <1>3, <1>4
     DEF VotesOK, TimerOK, ChainOK, Extends, parent_hash, Forward
<1>6. Good(u) /\ SameLock(s, u)
  BY <1>3, <1>5 DEF Good, SameLock
<1> QED
  BY <1>3, <1>5, <1>6 DEF u, WithVote

LEMMA OnVote ==
    ASSUME NEW s, Good(s), NEW data \in Data, NEW v \in Vote, s.height < MaxHeight
    PROVE  Outcome(s, on_vote(s, v, data))
<1> DEFINE u == WithVote(s, v)
<1>1. /\ Good(u) /\ Forward(s, u) /\ u.height < MaxHeight /\ u.ledger = s.ledger
      /\ u.node_id = s.node_id /\ u.crashed = s.crashed
      /\ v.round \in Rounds
  BY Count DEF SameLock, Vote
<1>2. on_vote(s, v, data) \in {s, tally_prevotes(u, v.round, data),
                               tally_precommits(u, v.round, data)}
  BY DEF on_vote, WithVote
<1> HIDE DEF u
<1>3. /\ Outcome(u, tally_prevotes(u, v.round, data))
      /\ Outcome(u, tally_precommits(u, v.round, data))
  BY <1>1, TallyPrevotes, TallyPrecommits
<1>4. /\ Outcome(s, tally_prevotes(u, v.round, data))
      /\ Outcome(s, tally_precommits(u, v.round, data))
  BY <1>1, <1>3, Compose DEF Good
<1> QED
  BY <1>2, <1>4, Unchanged

-----------------------------------------------------------------------------
(* The events.                                                             *)

NotStarted(s) ==
    /\ s.timers = {} /\ s.timeout_event = <<>> /\ s.sent_votes = {}
    /\ s.round = 0

Inv ==
    /\ TypeOK
    /\ \A m \in Honest :
          /\ VotesOK(node[m]) /\ ChainOK(node[m])
          /\ TimerOK(node[m]) \/ NotStarted(node[m])
          /\ Started => TimerOK(node[m]) \/ node[m].crashed

\* At most one validator finalizes a block in a step, and only one block.
OneGrows ==
    \E m \in Honest :
        /\ Grows(node[m], node'[m])
        /\ \A k \in Honest \ {m} : node'[k].ledger = node[k].ledger

LEMMA InitInv == Init => Inv
<1> SUFFICES ASSUME Init PROVE Inv
  OBVIOUS
<1>1. \A m \in Honest : /\ NewNode(m) \in NodeState
                        /\ NewNode(m).timers = {}
  <2> SUFFICES ASSUME NEW m \in Honest
               PROVE  NewNode(m) \in NodeState /\ NewNode(m).timers = {}
    OBVIOUS
  <2>1. 0 \in Heights /\ 0 \in Rounds /\ m \in Validator /\ <<>> \in Seq(Block)
    BY BoundAssumption DEF Heights, Rounds, Honest
  <2> QED
    BY <2>1 DEF NewNode, NodeState
<1>2. TypeOK
  BY <1>1 DEF Init, TypeOK, NewNode
<1>3. ~ Started
  BY <1>1 DEF Init, Started
<1>4. ASSUME NEW m \in Honest
      PROVE  VotesOK(node[m]) /\ ChainOK(node[m]) /\ NotStarted(node[m])
  <2>1. node[m] = NewNode(m)
    BY DEF Init
  <2> QED
    BY <2>1 DEF NewNode, VotesOK, ChainOK, NotStarted, parent_hash
<1> QED
  BY <1>2, <1>3, <1>4 DEF Inv

\* A proposal stays one, whatever copies of its transactions a node has.
LEMMA AsHeldType ==
    ASSUME NEW p \in Proposal, NEW q \in AsHeld(p)
    PROVE  q \in Proposal
<1>1. PICK held \in Data : q = [p EXCEPT !.block.data = held]
  BY DEF AsHeld
<1>2. [p.block EXCEPT !.data = held] \in Block
  BY DEF Proposal, Block
<1> QED
  BY <1>1, <1>2 DEF Proposal

\* Whatever is on the network is a proposal.
LEMMA ProposalsType == Inv => Proposals \subseteq Proposal
<1> SUFFICES ASSUME Inv PROVE Proposals \subseteq Proposal
  OBVIOUS
<1>1. HonestProposals \subseteq Proposal
  BY DEF HonestProposals, Inv, TypeOK, NodeState
<1>2. ASSUME NEW p \in ByzantineProposals
      PROVE  p \in Proposal
  <2>1. PICK x \in Rounds \X {parent_hash(node[m]) : m \in Honest},
             late \in {0, 1}, data \in Data :
           p = [round |-> x[1],
                block |-> [height |-> Len(x[2]), parent |-> x[2],
                           proposer |-> proposer_for(Len(x[2]), x[1]),
                           time |-> x[1] + late, data |-> data]]
    BY <1>2 DEF ByzantineProposals
  <2>2. PICK m \in Honest : x[2] = parent_hash(node[m])
    BY <2>1
  <2>3. x[1] \in Rounds /\ x[1] \in Nat /\ late \in Nat /\ data \in Data
    BY <2>1, BoundAssumption DEF Rounds
  <2>4. node[m] \in NodeState /\ ChainOK(node[m])
    BY DEF Inv, TypeOK
  <2>5. x[2] \in Hash /\ Len(x[2]) \in Heights /\ Len(x[2]) \in Nat
    BY <2>2, <2>4, ParentHashType, BoundAssumption DEF ChainOK, NodeState, Heights
  <2>6. proposer_for(Len(x[2]), x[1]) \in Validator
    BY <2>3, <2>5, ProposerType
  <2> QED
    BY <2>1, <2>3, <2>5, <2>6 DEF Proposal, Block
<1> QED
  BY <1>1, <1>2 DEF Proposals

LEMMA VotesType == Inv => Votes \subseteq Vote
<1> SUFFICES ASSUME Inv PROVE Votes \subseteq Vote
  OBVIOUS
<1>1. HonestVotes \subseteq Vote
  BY DEF HonestVotes, Inv, TypeOK, NodeState
<1>2. {block_hash(p.block) : p \in Proposals} \subseteq Hash
  BY ProposalsType, HashType DEF Proposal
<1>3. Byzantine \subseteq Validator
  BY ValidatorAssumption
<1>4. ByzantineVotes \subseteq Vote
  BY <1>2, <1>3 DEF ByzantineVotes, Vote
<1> QED
  BY <1>1, <1>4 DEF Votes

\* What an event at m preserves, once it is known to be one step of m.
LEMMA BecomeInv ==
    ASSUME Inv, NEW m \in Honest, NEW t, Become(m, t),
           Outcome(node[m], t), TimerOK(node[m])
    PROVE  Inv' /\ OneGrows /\ \A k \in Honest : Forward(node[k], node'[k])
<1>1. /\ Good(t) /\ Forward(node[m], t) /\ Grows(node[m], t)
      /\ t.node_id = node[m].node_id
      /\ \A k \in Honest : node'[k] = IF k = m THEN t ELSE node[k]
      /\ node' \in [Honest -> NodeState]
  <2>1. node \in [Honest -> NodeState]
    BY DEF Inv, TypeOK
  <2>2. t.round <= MaxRound /\ node' = [node EXCEPT ![m] = t]
    BY DEF Become, InBounds
  <2>3. /\ Good(t) /\ Forward(node[m], t) /\ Grows(node[m], t)
        /\ t.node_id = node[m].node_id
    BY <2>2 DEF Outcome
  <2>4. t \in NodeState
    BY <2>3 DEF Good
  <2> QED
    BY <2>1, <2>2, <2>3, <2>4
<1>2. \A k \in Honest : Forward(node[k], node[k])
  BY BoundAssumption, SMTT(30) DEF Inv, TypeOK, NodeState, Heights, Rounds, Forward
<1>3. TypeOK'
  BY <1>1 DEF Inv, TypeOK
<1>4. Started
  BY DEF Started, TimerOK
<1>5. ASSUME NEW k \in Honest
      PROVE  /\ VotesOK(node'[k]) /\ ChainOK(node'[k])
             /\ TimerOK(node'[k]) \/ NotStarted(node'[k])
             /\ TimerOK(node'[k]) \/ node'[k].crashed
  BY <1>1, <1>4 DEF Inv, Good
<1>6. OneGrows
  BY <1>1 DEF OneGrows
<1> QED
  BY <1>1, <1>2, <1>3, <1>5, <1>6
     DEF Inv, VotesOK, ChainOK, TimerOK, NotStarted, Extends, parent_hash

LEMMA StartStep ==
    ASSUME Inv, Start
    PROVE  Inv' /\ OneGrows /\ \A m \in Honest : Forward(node[m], node'[m])
<1>1. ~ Started
  BY DEF Start
<1>2. PICK data \in [Honest -> Data] :
         node' = [m \in Honest |-> IF node[m].crashed THEN node[m]
                                   ELSE enter_round(node[m], 0, data[m])]
  BY DEF Start
<1>3. ASSUME NEW m \in Honest
      PROVE  /\ node'[m] \in NodeState /\ node'[m].node_id = m
             /\ VotesOK(node'[m]) /\ ChainOK(node'[m])
             /\ TimerOK(node'[m]) \/ NotStarted(node'[m])
             /\ TimerOK(node'[m]) \/ node'[m].crashed
             /\ Forward(node[m], node'[m])
             /\ node'[m].ledger = node[m].ledger
  <2> DEFINE s == node[m]
  <2>1. /\ s \in NodeState /\ s.node_id = m /\ VotesOK(s) /\ ChainOK(s)
        /\ NotStarted(s)
    BY <1>1 DEF Inv, TypeOK, TimerOK, Started
  <2>2. CASE s.crashed
    BY <1>2, <2>1, <2>2, BoundAssumption, SMTT(30) DEF Forward, NodeState, Heights, Rounds
  <2>3. CASE ~ s.crashed
    <3> DEFINE t == enter_round(s, 0, data[m])
    <3>1. node'[m] = t
      BY <1>2, <2>3
    <3>2. /\ s.timers \subseteq {s.timeout_event} /\ 0 \in Rounds /\ data[m] \in Data
          /\ \A v \in s.sent_votes : v.height = s.height => v.round < 0
      BY <2>1, BoundAssumption DEF NotStarted, Rounds
    <3>3. /\ Good(t) /\ t.height = s.height /\ t.round = 0
          /\ t.node_id = s.node_id /\ t.crashed = s.crashed
          /\ t.locked_round >= s.locked_round /\ t.valid_round >= s.valid_round
          /\ \A v \in t.sent_votes \ s.sent_votes : v.height = s.height /\ v.round >= 0
          /\ t.ledger = s.ledger
      BY <2>1, <3>2, EnterRound DEF SameLock
    <3>4. s.round = 0
      BY <2>1 DEF NotStarted
    <3> QED
      BY <2>1, <3>1, <3>3, <3>4 DEF Good, Forward
  <2> QED
    BY <2>2, <2>3
<1>4. TypeOK'
  BY <1>2, <1>3 DEF TypeOK
<1>5. OneGrows
  BY <1>3 DEF Start, OneGrows, Grows
<1> QED
  BY <1>3, <1>4, <1>5
     DEF Inv, VotesOK, ChainOK, TimerOK, NotStarted, Extends, parent_hash

LEMMA TimeoutStep ==
    ASSUME Inv, NEW m \in Honest, RoundTimeout(m)
    PROVE  Inv' /\ OneGrows /\ \A k \in Honest : Forward(node[k], node'[k])
<1>1. PICK e \in node[m].timers, data \in Data :
         Become(m, enter_round([node[m] EXCEPT !.timers = @ \ {e}],
                               [node[m] EXCEPT !.timers = @ \ {e}].round + 1, data))
  BY DEF RoundTimeout
<1> DEFINE s == node[m]
           u == [s EXCEPT !.timers = @ \ {e}]
           t == enter_round(u, u.round + 1, data)
<1>2. /\ s \in NodeState /\ VotesOK(s) /\ ChainOK(s) /\ TimerOK(s)
      /\ e = s.timeout_event
  BY DEF Inv, TypeOK, NotStarted, TimerOK
<1>3. s.timers \ {e} \in SUBSET (Heights \X Rounds)
  BY <1>2 DEF NodeState
<1>4. /\ u \in NodeState /\ u.timers = s.timers \ {e}
      /\ u.sent_votes = s.sent_votes /\ u.votes = s.votes
      /\ u.timeout_event = s.timeout_event
      /\ u.height = s.height /\ u.round = s.round
      /\ u.node_id = s.node_id /\ u.crashed = s.crashed
      /\ u.locked_round = s.locked_round /\ u.valid_round = s.valid_round
      /\ u.locked_block = s.locked_block /\ u.valid_block = s.valid_block
      /\ u.ledger = s.ledger /\ u.proposals = s.proposals
  BY <1>2, <1>3, SMTT(30) DEF NodeState
<1>5. Become(m, t)
  BY <1>1
<1> HIDE DEF u
<1>6. VotesOK(u) /\ ChainOK(u)
  BY <1>2, <1>4 DEF VotesOK, ChainOK, Extends, parent_hash
<1>7. u.timers \subseteq {u.timeout_event}
  BY <1>2, <1>4 DEF TimerOK
<1>8. Outcome(u, t)
  BY <1>4, <1>6, <1>7, NextRound
<1>9. Forward(s, u)
  BY <1>2, <1>4, BoundAssumption, SMTT(30) DEF Forward, NodeState, Heights, Rounds
<1>10. Outcome(s, t)
  BY <1>2, <1>4, <1>8, <1>9, Compose
<1> QED
  BY <1>2, <1>5, <1>10, BecomeInv

LEMMA DeliverStep ==
    ASSUME Inv, NEW m \in Honest, DeliverProposal(m) \/ DeliverVote(m)
    PROVE  Inv' /\ OneGrows /\ \A k \in Honest : Forward(node[k], node'[k])
<1>1. Good(node[m]) /\ node[m].height < MaxHeight
  BY DEF DeliverProposal, DeliverVote, Running, Inv, TypeOK, Good
<1>2. PICK t : Become(m, t) /\ Outcome(node[m], t)
  <2>1. CASE DeliverProposal(m)
    <3>1. PICK p \in Proposals, data \in Data : \E q \in AsHeld(p) :
             Become(m, on_proposal(node[m], q, data))
      BY <2>1 DEF DeliverProposal
    <3>2. PICK q \in AsHeld(p) : Become(m, on_proposal(node[m], q, data))
      BY <3>1
    <3>3. q \in Proposal
      BY <3>2, ProposalsType, AsHeldType
    <3> QED
      BY <1>1, <3>2, <3>3, OnProposal
  <2>2. CASE DeliverVote(m)
    <3>1. PICK v \in Votes, data \in Data : Become(m, on_vote(node[m], v, data))
      BY <2>2 DEF DeliverVote
    <3> QED
      BY <1>1, <3>1, VotesType, OnVote
  <2> QED
    BY <2>1, <2>2
<1> QED
  BY <1>1, <1>2, BecomeInv DEF Good

LEMMA CrashStep ==
    ASSUME Inv, NEW m \in Honest, Crash(m)
    PROVE  Inv' /\ OneGrows /\ \A k \in Honest : Forward(node[k], node'[k])
<1> DEFINE t == [node[m] EXCEPT !.crashed = TRUE]
<1>1. node[m] \in NodeState /\ node[m].node_id = m
  BY DEF Inv, TypeOK
<1>2. /\ t \in NodeState /\ t.crashed /\ t.node_id = m /\ t.timers = node[m].timers
      /\ t.timeout_event = node[m].timeout_event
      /\ t.sent_votes = node[m].sent_votes /\ t.votes = node[m].votes
      /\ t.height = node[m].height /\ t.round = node[m].round
      /\ t.locked_round = node[m].locked_round /\ t.valid_round = node[m].valid_round
      /\ t.locked_block = node[m].locked_block /\ t.valid_block = node[m].valid_block
      /\ t.ledger = node[m].ledger /\ t.proposals = node[m].proposals
  BY <1>1 DEF NodeState
<1>3. \A k \in Honest : node'[k] = IF k = m THEN t ELSE node[k]
  BY DEF Crash, Inv, TypeOK
<1>4. TypeOK'
  BY <1>1, <1>2 DEF Crash, Inv, TypeOK
<1> HIDE DEF t
<1>5. Started' = Started
  BY <1>2, <1>3 DEF Started
<1>7. OneGrows
  BY <1>2, <1>3 DEF OneGrows, Grows
<1>6. ASSUME NEW k \in Honest
      PROVE  /\ VotesOK(node'[k]) /\ ChainOK(node'[k])
             /\ TimerOK(node'[k]) \/ NotStarted(node'[k])
             /\ Started => TimerOK(node'[k]) \/ node'[k].crashed
             /\ Forward(node[k], node'[k])
  <2>1. /\ node[k].height \in Int /\ node[k].round \in Int
        /\ node[k].locked_round \in Int /\ node[k].valid_round \in Int
    BY BoundAssumption DEF Inv, TypeOK, NodeState, Heights, Rounds
  <2>2. Forward(node[k], node'[k])
    BY <1>2, <1>3, <2>1 DEF Forward
  <2>3. CASE k # m
    BY <1>3, <2>2, <2>3 DEF Inv
  <2>4. CASE k = m
    BY <1>2, <1>3, <2>2, <2>4
       DEF Inv, TypeOK, VotesOK, ChainOK, TimerOK, NotStarted, Extends, parent_hash
  <2> QED
    BY <2>3, <2>4
<1> QED
  BY <1>4, <1>5, <1>6, <1>7
     DEF Inv, VotesOK, ChainOK, TimerOK, NotStarted, Extends, parent_hash

LEMMA InvStep == Inv /\ [Next]_node => Inv'
<1>1. ASSUME Inv, UNCHANGED node
      PROVE  Inv'
  BY <1>1 DEF Inv, TypeOK, VotesOK, ChainOK, TimerOK, NotStarted, Extends,
              parent_hash, Started
<1> QED
  BY <1>1, StartStep, TimeoutStep, DeliverStep, CrashStep DEF Next

\* Every field of every node keeps to its type: no handler leaves a node, or
\* puts a block or a vote into the network, outside the bounds.
THEOREM EngineTypeOK == Spec => []TypeOK
BY InitInv, InvStep, PTL DEF Spec, Inv

LEMMA InvImpliesVoteOnce == Inv => VoteOnce
BY DEF Inv, VotesOK, VoteOnce

\* Rules 1 and 2: no honest validator signs two votes for one height, round
\* and phase.
THEOREM EngineVoteOnce == Spec => []VoteOnce
BY InitInv, InvStep, InvImpliesVoteOnce, PTL DEF Spec

LEMMA InvImpliesOneTimer == Inv => OneTimer
BY DEF Inv, TimerOK, OneTimer

\* A started validator that has not crashed has one timer, for its round.
THEOREM EngineOneTimer == Spec => []OneTimer
BY InitInv, InvStep, InvImpliesOneTimer, PTL DEF Spec

LEMMA StepIsForward ==
    Inv /\ Next => \A m \in Honest : Forward(node[m], node'[m])
BY StartStep, TimeoutStep, DeliverStep, CrashStep DEF Next

\* No validator goes back to a height, round, lock or valid block it has left,
\* or signs for one (rule 6).
THEOREM EngineForwardOnly == Spec => ForwardOnly
<1>1. Inv /\ [Next]_node =>
        [\A m \in Honest :
           LET s == node[m]
               t == node'[m]
           IN  /\ \/ t.height > s.height
                  \/ /\ t.height = s.height /\ t.round >= s.round
                     /\ t.locked_round >= s.locked_round
                     /\ t.valid_round >= s.valid_round
               /\ \A v \in t.sent_votes \ s.sent_votes :
                     \/ v.height > s.height
                     \/ v.height = s.height /\ v.round >= s.round]_node
  BY StepIsForward DEF Forward
<1> QED
  BY <1>1, InitInv, InvStep, PTL DEF Spec, ForwardOnly

-----------------------------------------------------------------------------
(* Lists of lists: what FlattenSeq makes of them.                          *)

LEMMA CountingUp ==
    ASSUME NEW k \in Nat, NEW S, 0 \in S, \A i \in 0 .. k - 1 : i \in S => i + 1 \in S
    PROVE  k \in S
<1> SUFFICES ASSUME k \notin S PROVE FALSE
  OBVIOUS
<1> DEFINE T == {y \in 0 .. k : y \notin S}
           g == [y \in T |-> y - 1]
<1>1. IsFiniteSet(T) /\ k \in T
  <2>1. 0 \in Int /\ k \in Int /\ T \in SUBSET (0 .. k) /\ k \in T
    OBVIOUS
  <2> HIDE DEF T
  <2>2. IsFiniteSet(0 .. k)
    BY <2>1, FS_Interval
  <2> QED
    BY <2>1, <2>2, FS_Subset
<1>2. \A y \in T : y - 1 \in T /\ y - 1 # k
  <2> SUFFICES ASSUME NEW y \in T PROVE y - 1 \in T /\ y - 1 # k
    OBVIOUS
  <2>1. y \in Nat /\ y # 0 /\ y <= k
    OBVIOUS
  <2>2. y - 1 \in 0 .. k - 1 /\ (y - 1) + 1 = y
    BY <2>1
  <2>3. y - 1 \notin S
    BY <2>2
  <2> QED
    BY <2>1, <2>2, <2>3
<1>3. \A y \in T : y \in Int
  OBVIOUS
<1> HIDE DEF T
<1>4. g \in Injection(T, T \ {k})
  BY <1>2, <1>3 DEF Injection, IsInjective
<1>5. Cardinality(T) <= Cardinality(T \ {k})
  BY <1>1, <1>4, FS_RemoveElement, FS_Injection
<1>6. Cardinality(T) \in Nat /\ Cardinality(T \ {k}) = Cardinality(T) - 1
  BY <1>1, FS_RemoveElement, FS_CardinalityType
<1> QED
  BY <1>5, <1>6

\* h flattens the first k lists of ss.
Flattens(h, ss, k) ==
    \A i \in 1 .. k : h[i] = IF i = 1 THEN ss[i] ELSE h[i - 1] \o ss[i]

\* h and g agree up to k.
Agree(h, g, k) == \A i \in 1 .. k : h[i] = g[i]

LEMMA FlattensOnce ==
    ASSUME NEW k \in Nat, NEW h, NEW g, NEW ss, NEW zz,
           Flattens(h, ss, k), Flattens(g, zz, k), Agree(ss, zz, k)
    PROVE  Agree(h, g, k)
<1> DEFINE S == {i \in Nat : i \in 1 .. k => h[i] = g[i]}
<1>1. 0 \in S
  OBVIOUS
<1>2. ASSUME NEW i \in Nat, i \in S
      PROVE  i + 1 \in S
  <2> SUFFICES ASSUME i + 1 \in 1 .. k
               PROVE  h[i + 1] = g[i + 1]
    OBVIOUS
  <2>1. (i + 1) - 1 = i /\ (i + 1 = 1 \/ i \in 1 .. k) /\ ss[i + 1] = zz[i + 1]
    BY DEF Agree
  <2>2. h[i + 1] = (IF i + 1 = 1 THEN ss[i + 1] ELSE h[(i + 1) - 1] \o ss[i + 1])
    BY DEF Flattens
  <2>3. g[i + 1] = (IF i + 1 = 1 THEN zz[i + 1] ELSE g[(i + 1) - 1] \o zz[i + 1])
    BY DEF Flattens
  <2>4. i + 1 = 1 \/ h[i] = g[i]
    BY <1>2, <2>1
  <2> QED
    BY <2>1, <2>2, <2>3, <2>4
<1>3. Nat \subseteq S
  <2> HIDE DEF S
  <2> QED
    BY <1>1, <1>2, CountingUp
<1> QED
  BY <1>3 DEF Agree

LEMMA FlattensExists ==
    ASSUME NEW T, NEW ss \in Seq(Seq(T))
    PROVE  \E h \in [1 .. Len(ss) -> Seq(T)] : Flattens(h, ss, Len(ss))
<1> DEFINE Has(k) == \E h \in [1 .. k -> Seq(T)] : Flattens(h, ss, k)
           S == {k \in Nat : k <= Len(ss) => Has(k)}
<1>1. Len(ss) \in Nat /\ \A i \in 1 .. Len(ss) : ss[i] \in Seq(T)
  OBVIOUS
<1>2. Has(0)
  <2>1. [i \in 1 .. 0 |-> <<>>] \in [1 .. 0 -> Seq(T)]
    OBVIOUS
  <2>2. Flattens([i \in 1 .. 0 |-> <<>>], ss, 0)
    BY DEF Flattens
  <2> QED
    BY <2>1, <2>2
<1>3. ASSUME NEW k \in Nat, k + 1 <= Len(ss), Has(k)
      PROVE  Has(k + 1)
  <2>1. PICK h \in [1 .. k -> Seq(T)] : Flattens(h, ss, k)
    BY <1>3
  <2> DEFINE next == IF k + 1 = 1 THEN ss[k + 1] ELSE h[k] \o ss[k + 1]
             g == [i \in 1 .. k + 1 |-> IF i = k + 1 THEN next ELSE h[i]]
  <2>2. next \in Seq(T)
    <3>1. ss[k + 1] \in Seq(T) /\ (k + 1 = 1 \/ h[k] \in Seq(T))
      BY <1>1, <1>3
    <3> QED
      BY <3>1
  <2>3. /\ \A i \in 1 .. k + 1 : i = k + 1 \/ i \in 1 .. k
        /\ \A i \in 1 .. k : i \in 1 .. k + 1 /\ i # k + 1 /\ (i = 1 \/ i - 1 \in 1 .. k)
        /\ k + 1 \in 1 .. k + 1 /\ (k + 1) - 1 = k /\ (k + 1 = 1 \/ k \in 1 .. k)
    OBVIOUS
  <2>4. /\ g \in [1 .. k + 1 -> Seq(T)] /\ g[k + 1] = next
        /\ \A i \in 1 .. k : g[i] = h[i]
    <3> HIDE DEF next
    <3> QED
      BY <2>2, <2>3
  <2> HIDE DEF g
  <2>5. ASSUME NEW i \in 1 .. k + 1
        PROVE  g[i] = IF i = 1 THEN ss[i] ELSE g[i - 1] \o ss[i]
    <3>1. CASE i = k + 1
      BY <2>3, <2>4, <3>1
    <3>2. CASE i \in 1 .. k
      <4>1. h[i] = IF i = 1 THEN ss[i] ELSE h[i - 1] \o ss[i]
        BY <2>1, <3>2 DEF Flattens
      <4> QED
        BY <2>3, <2>4, <3>2, <4>1
    <3> QED
      BY <2>3, <3>1, <3>2
  <2> QED
    BY <2>4, <2>5 DEF Flattens
<1> HIDE DEF Has
<1>4. 0 \in S /\ \A k \in Nat : k \in S => k + 1 \in S
  BY <1>1, <1>2, <1>3
<1>5. Len(ss) \in S
  <2> HIDE DEF S
  <2> QED
    BY <1>1, <1>4, CountingUp
<1> QED
  BY <1>5 DEF Has

LEMMA FlattenSteps ==
    ASSUME NEW T, NEW ss \in Seq(Seq(T)), ss # <<>>
    PROVE  \E h \in [1 .. Len(ss) -> Seq(T)] :
              Flattens(h, ss, Len(ss)) /\ FlattenSeq(ss) = h[Len(ss)]
<1> DEFINE Eq(h) == h = [i \in 1 .. Len(ss) |-> IF i = 1 THEN ss[i] ELSE h[i - 1] \o ss[i]]
           flatten == CHOOSE h : Eq(h)
<1>1. Len(ss) \in Nat /\ Len(ss) # 0
  OBVIOUS
<1>2. FlattenSeq(ss) = flatten[Len(ss)]
  BY <1>1 DEF FlattenSeq
<1>3. PICK h \in [1 .. Len(ss) -> Seq(T)] : Flattens(h, ss, Len(ss))
  BY FlattensExists
<1>4. Eq(h)
  BY <1>3 DEF Flattens
<1>5. Eq(flatten)
  BY <1>4
<1> HIDE DEF flatten
<1>6. Flattens(flatten, ss, Len(ss))
  BY <1>5 DEF Flattens
<1>7. flatten[Len(ss)] = h[Len(ss)]
  <2>1. Agree(ss, ss, Len(ss))
    BY DEF Agree
  <2>2. Agree(flatten, h, Len(ss))
    BY <1>1, <1>3, <1>6, <2>1, FlattensOnce
  <2> QED
    BY <1>1, <2>2 DEF Agree
<1> QED
  BY <1>2, <1>3, <1>7

LEMMA FlattenAppend ==
    ASSUME NEW T, NEW ss \in Seq(Seq(T)), NEW s \in Seq(T)
    PROVE  /\ FlattenSeq(ss) \in Seq(T)
           /\ FlattenSeq(Append(ss, s)) = FlattenSeq(ss) \o s
<1> DEFINE zz == Append(ss, s)
<1>1. /\ zz \in Seq(Seq(T)) /\ zz # <<>> /\ Len(ss) \in Nat /\ Len(zz) = Len(ss) + 1
      /\ zz[Len(ss) + 1] = s /\ \A i \in 1 .. Len(ss) : zz[i] = ss[i]
  <2> DEFINE X == Seq(T)
  <2>1. ss \in Seq(X) /\ s \in X
    OBVIOUS
  <2> HIDE DEF X
  <2>2. /\ zz \in Seq(X) /\ Len(ss) \in Nat /\ Len(zz) = Len(ss) + 1
        /\ zz[Len(ss) + 1] = s /\ \A i \in 1 .. Len(ss) : zz[i] = ss[i]
    BY <2>1
  <2>3. zz # <<>>
    <3> HIDE DEF zz
    <3>1. Len(<<>>) = 0 /\ Len(zz) # 0
      BY <2>2
    <3> QED
      BY <3>1
  <2> QED
    BY <2>2, <2>3 DEF X
<1> HIDE DEF zz
<1>2. PICK g \in [1 .. Len(zz) -> Seq(T)] :
         Flattens(g, zz, Len(zz)) /\ FlattenSeq(zz) = g[Len(zz)]
  BY <1>1, FlattenSteps
<1>3. FlattenSeq(zz) = IF Len(ss) + 1 = 1 THEN s ELSE g[Len(ss)] \o s
  <2>1. Len(ss) + 1 \in 1 .. Len(zz) /\ (Len(ss) + 1) - 1 = Len(ss)
    BY <1>1
  <2>2. g[Len(ss) + 1] = IF Len(ss) + 1 = 1 THEN zz[Len(ss) + 1]
                         ELSE g[(Len(ss) + 1) - 1] \o zz[Len(ss) + 1]
    BY <1>2, <2>1 DEF Flattens
  <2> QED
    BY <1>1, <1>2, <2>1, <2>2
<1>4. CASE ss = <<>>
  <2>1. FlattenSeq(ss) = <<>>
    BY <1>4 DEF FlattenSeq
  <2>2. Len(ss) + 1 = 1 /\ FlattenSeq(ss) \o s = s /\ FlattenSeq(ss) \in Seq(T)
    <3>1. <<>> \o s = s /\ <<>> \in Seq(T)
      OBVIOUS
    <3>2. Len(<<>>) + 1 = 1
      OBVIOUS
    <3>3. Len(ss) + 1 = 1
      BY ONLY <1>4, <3>2
    <3> QED
      BY ONLY <2>1, <3>1, <3>3
  <2> QED
    BY <1>3, <2>2 DEF zz
<1>5. CASE ss # <<>>
  <2>1. PICK h \in [1 .. Len(ss) -> Seq(T)] :
           Flattens(h, ss, Len(ss)) /\ FlattenSeq(ss) = h[Len(ss)]
    BY <1>5, FlattenSteps
  <2>2. Len(ss) \in 1 .. Len(ss) /\ Len(ss) + 1 # 1
    BY <1>5
  <2>3. Flattens(g, zz, Len(ss))
    <3>1. \A i \in 1 .. Len(ss) : i \in 1 .. Len(zz)
      BY <1>1
    <3> QED
      BY <1>2, <3>1 DEF Flattens
  <2>4. h[Len(ss)] = g[Len(ss)]
    <3>1. Agree(zz, ss, Len(ss))
      BY <1>1 DEF Agree
    <3>2. Agree(g, h, Len(ss))
      BY <1>1, <2>1, <2>3, <3>1, FlattensOnce
    <3> QED
      BY <2>2, <3>2 DEF Agree
  <2>5. h[Len(ss)] \in Seq(T)
    BY <2>1, <2>2
  <2> QED
    BY <1>3, <2>1, <2>2, <2>4, <2>5 DEF zz
<1> QED
  BY <1>4, <1>5
=============================================================================
