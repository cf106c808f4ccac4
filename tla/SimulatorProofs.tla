-------------------------- MODULE SimulatorProofs --------------------------
(***************************************************************************)
(* The scenarios implement module Engine: whatever the clock, the delays   *)
(* and byzantine.py do is a behaviour of Engine (SimInv).  And their event *)
(* queue is in order and has each timer once (QueueInv).                   *)
(*                                                                         *)
(* The Byzantine validators of Engine sign anything for what honest ones   *)
(* have proposed, and propose anything on top of what an honest validator  *)
(* has finalized last.  So the proof follows what a Byzantine validator,   *)
(* which here runs an engine of its own, can say: it proposes on a chain   *)
(* that has a precommit quorum, and votes for what has been proposed.      *)
(* S and Q are what the honest validators have signed and proposed.        *)
(***************************************************************************)
EXTENDS Simulator, EngineSafetyProofs

\* The chain that this hash ends has been decided, or could have been.
Decidable(hash, S) ==
    hash # <<>> => \E r \in Rounds : CertifiedIn(S, Len(hash) - 1, r, "PRECOMMIT", hash)

\* A proposal of a Byzantine validator, in a round that it leads.
Forged(p, S) ==
    /\ p.block.proposer = proposer_for(p.block.height, p.round)
    /\ p.block.proposer \in Active
    /\ p.block.time \in {p.round, p.round + 1}
    /\ Len(p.block.parent) = p.block.height
    /\ Decidable(p.block.parent, S)

Genuine(p, S, Q) == p \in Q \/ Forged(p, S)

\* The vote v is for nothing, or for something that has been proposed.
Names(v, S, Q) ==
    \/ v.hash \in {NIL, Fabricated}
    \/ \E p \in Proposal : /\ Genuine(p, S, Q)
                           /\ p.block.height = v.height /\ v.hash = block_hash(p.block)

\* What the Byzantine validator s has said and heard.
Vouched(s, S, Q) ==
    /\ VotesHeld(s, S) /\ LedgerBacked(s, S)
    /\ \A p \in s.proposals : Genuine(p, S, Q)
    /\ \A p \in s.sent_proposals : Forged(p, S) /\ p.block.time = p.round
    /\ \A v \in s.sent_votes : Names(v, S, Q)

\* From s to t a validator takes nothing back and proposes once.
Keeps(s, t) ==
    /\ s.sent_votes \subseteq t.sent_votes
    /\ \E p : t.sent_proposals \in {s.sent_proposals, s.sent_proposals \cup {p}}

Vouches(s, t, S, Q) == s.node_id \in Active /\ Vouched(s, S, Q) => Vouched(t, S, Q)

\* What a handler makes of s: a step of the model unless it passes MaxRound.
Speaks(s, t, S, Q) == t.round <= MaxRound => Keeps(s, t) /\ Vouches(s, t, S, Q)

\* u is s after a part of a handler that proposes nothing.
Quiet(s, u, S, Q) ==
    /\ s.sent_votes \subseteq u.sent_votes /\ u.sent_proposals = s.sent_proposals
    /\ u.node_id = s.node_id /\ Vouches(s, u, S, Q)

-----------------------------------------------------------------------------
(* Entering a round.                                                       *)

LEMMA SpeaksOn ==
    ASSUME NEW s, NEW u, NEW t, NEW S, NEW Q, Quiet(s, u, S, Q), Speaks(u, t, S, Q)
    PROVE  Speaks(s, t, S, Q)
BY DEF Quiet, Speaks, Keeps, Vouches

LEMMA StaySpeaks ==
    ASSUME NEW s, NEW S, NEW Q
    PROVE  Speaks(s, s, S, Q)
BY DEF Speaks, Keeps, Vouches

LEMMA QuietSpeaks ==
    ASSUME NEW s, NEW u, NEW S, NEW Q, Quiet(s, u, S, Q)
    PROVE  Speaks(s, u, S, Q)
BY StaySpeaks, SpeaksOn

\* The parent of a block a node builds has a precommit quorum.
LEMMA ParentDecidable ==
    ASSUME NEW s \in NodeState, ChainOK(s), NEW S, LedgerBacked(s, S)
    PROVE  /\ parent_hash(s) \in Hash /\ Len(parent_hash(s)) = s.height
           /\ Decidable(parent_hash(s), S)
<1>1. /\ parent_hash(s) \in Hash /\ Len(parent_hash(s)) = s.height
      /\ Len(s.ledger) = s.height /\ s.ledger \in Seq(Block)
  BY ParentHashType DEF ChainOK, NodeState
<1>2. ASSUME parent_hash(s) # <<>>
      PROVE  \E r \in Rounds :
                CertifiedIn(S, Len(parent_hash(s)) - 1, r, "PRECOMMIT", parent_hash(s))
  <2>1. s.ledger # <<>> /\ parent_hash(s) = block_hash(s.ledger[Len(s.ledger)])
    BY <1>2 DEF parent_hash
  <2>2. Len(s.ledger) \in 1 .. Len(s.ledger)
    BY <1>1, <2>1
  <2> QED
    BY <1>1, <2>1, <2>2 DEF LedgerBacked
<1> QED
  BY <1>1, <1>2 DEF Decidable

\* A Byzantine validator that enters a round it leads proposes there, and
\* prevotes for that or nothing.
LEMMA EnterSpeaks ==
    ASSUME NEW u \in NodeState, NEW t \in NodeState, NEW r \in Rounds, NEW S, NEW Q,
           ChainOK(u), SameLock(u, t), Enters(u, t, r), t.node_id = u.node_id
    PROVE  Speaks(u, t, S, Q)
<1>1. CASE proposer_for(u.height, r) # u.node_id
  <2>1. /\ t.votes = u.votes /\ t.sent_votes = u.sent_votes
        /\ t.proposals = u.proposals /\ t.sent_proposals = u.sent_proposals
    BY <1>1 DEF Enters
  <2>2. Vouches(u, t, S, Q)
    BY <2>1 DEF Vouches, Vouched, VotesHeld, LedgerBacked, SameLock
  <2> QED
    BY <2>1, <2>2 DEF Speaks, Keeps
<1>2. CASE proposer_for(u.height, r) = u.node_id
  <2>1. PICK p \in Proposal :
          /\ p.round = r /\ p.block.height = u.height
          /\ t.proposals = {q \in u.proposals : q.round # r} \cup {p}
          /\ t.sent_proposals = u.sent_proposals \cup {p}
          /\ u.node_id \in Byzantine => Builds(u, p.block, r)
          /\ \E hash \in {NIL, block_hash(p.block)} :
                Signs(u, t, OwnVote(u, r, "PREVOTE", hash))
    BY <1>2 DEF Enters, Proposes
  <2>2. PICK hash \in {NIL, block_hash(p.block)} :
           Signs(u, t, OwnVote(u, r, "PREVOTE", hash))
    BY <2>1
  <2> DEFINE v == OwnVote(u, r, "PREVOTE", hash)
  <2>3. v.hash = hash /\ v.height = u.height /\ v.validator = u.node_id
    BY DEF OwnVote
  <2>4. t.votes = u.votes \cup {v} /\ t.sent_votes = u.sent_votes \cup {v}
    BY <2>2 DEF Signs
  <2> HIDE DEF v
  <2>5. ASSUME u.node_id \in Active, Vouched(u, S, Q)
        PROVE  Vouched(t, S, Q)
    <3>1. Builds(u, p.block, r) /\ u.node_id \in Byzantine
      BY <2>1, <2>5 DEF Active
    <3>2. Forged(p, S) /\ p.block.time = p.round
      BY <1>2, <2>1, <2>5, <3>1, ParentDecidable DEF Forged, Builds, Extends, Vouched
    <3>3. Genuine(p, S, Q)
      BY <3>2 DEF Genuine
    <3>4. Names(v, S, Q)
      BY <2>1, <2>3, <3>3 DEF Names
    <3>5. VotesHeld(t, S)
      BY <2>3, <2>4, <2>5, <3>1 DEF VotesHeld, SameLock, Vouched
    <3>6. LedgerBacked(t, S)
      BY <2>5 DEF LedgerBacked, SameLock, Vouched
    <3> QED
      BY <2>1, <2>4, <2>5, <3>2, <3>3, <3>4, <3>5, <3>6 DEF Vouched
  <2> QED
    BY <2>1, <2>4, <2>5 DEF Speaks, Keeps, Vouches
<1> QED
  BY <1>1, <1>2

LEMMA NextRoundSpeaks ==
    ASSUME NEW s \in NodeState, VotesOK(s), ChainOK(s), NEW data \in Data, NEW S, NEW Q,
           s.timers \subseteq {s.timeout_event}
    PROVE  Speaks(s, enter_round(s, s.round + 1, data), S, Q)
<1> DEFINE r == s.round + 1
           t == enter_round(s, r, data)
<1>1. s.round \in Nat
  BY BoundAssumption DEF NodeState, Rounds
<1>2. t.round = r
  BY <1>1, EnterRoundRound
<1>3. SUFFICES ASSUME r <= MaxRound PROVE Speaks(s, t, S, Q)
  BY <1>2 DEF Speaks
<1>4. r \in Rounds
  BY <1>1, <1>3, BoundAssumption DEF Rounds
<1>5. \A v \in s.sent_votes : v.height = s.height => v.round < r
  BY <1>1, NodeNumbers, VoteNumbers DEF VotesOK
<1>6. Good(t) /\ t.node_id = s.node_id /\ SameLock(s, t) /\ Enters(s, t, r)
  BY <1>1, <1>4, <1>5, EnterRound
<1> HIDE DEF t, r
<1> QED
  BY <1>4, <1>6, EnterSpeaks DEF Good, t, r

-----------------------------------------------------------------------------
(* Quorums.                                                                *)

\* A vote for nothing or for a block the node has heard of.
LEMMA CastQuiet ==
    ASSUME NEW s, Good(s), NEW phase \in Phase, NEW hash \in Hash \cup {NIL},
           Unsigned(s, s.round, phase), NEW S, NEW Q,
           Vouched(s, S, Q) => Names(OwnVote(s, s.round, phase, hash), S, Q)
    PROVE  LET u == cast_vote(s, phase, hash)
           IN  Good(u) /\ u.height = s.height /\ u.round = s.round /\ Quiet(s, u, S, Q)
<1> DEFINE u == cast_vote(s, phase, hash)
           v == OwnVote(s, s.round, phase, hash)
<1>1. s \in NodeState /\ VotesOK(s) /\ ChainOK(s) /\ TimerOK(s)
  BY DEF Good
<1>2. /\ u \in NodeState /\ VotesOK(u) /\ ChainOK(u)
      /\ u.timers = s.timers /\ u.timeout_event = s.timeout_event
      /\ u.height = s.height /\ u.round = s.round /\ u.node_id = s.node_id
      /\ SameLock(s, u)
      /\ u.votes = s.votes \cup {v} /\ u.sent_votes = s.sent_votes \cup {v}
      /\ u.proposals = s.proposals /\ u.sent_proposals = s.sent_proposals
  BY <1>1, CastVote DEF Signs
<1>3. v.validator = s.node_id /\ v.height = s.height
  BY DEF OwnVote
<1> HIDE DEF u, v
<1>4. Good(u)
  BY <1>1, <1>2 DEF Good, TimerOK
<1>5. ASSUME s.node_id \in Active, Vouched(s, S, Q)
      PROVE  Vouched(u, S, Q)
  <2>1. VotesHeld(u, S)
    BY <1>2, <1>3, <1>5 DEF Vouched, VotesHeld, Active
  <2>2. LedgerBacked(u, S)
    BY <1>2, <1>5 DEF Vouched, LedgerBacked, SameLock
  <2>3. Names(v, S, Q)
    BY <1>5 DEF v
  <2> QED
    BY <1>2, <1>5, <2>1, <2>2, <2>3 DEF Vouched
<1> QED
  BY <1>2, <1>4, <1>5 DEF Quiet, Vouches, u

\* The locked block that the votes of one round decide has a precommit quorum.
LEMMA CommitSpeaks ==
    ASSUME NEW s, Good(s), NEW data \in Data, NEW S, NEW Q, NEW r,
           s.height < MaxHeight, s.locked_block # None,
           block_hash(s.locked_block) \in winners(s, r, "PRECOMMIT")
    PROVE  Speaks(s, commit(s, data), S, Q)
<1> DEFINE u == Decided(s)
           t == enter_round(u, 0, data)
<1>1. /\ u \in NodeState /\ VotesOK(u) /\ ChainOK(u)
      /\ u.timers \subseteq {u.timeout_event}
      /\ u.node_id = s.node_id /\ u.votes = {} /\ u.proposals = {}
      /\ u.ledger = Append(s.ledger, s.locked_block)
      /\ u.sent_votes = s.sent_votes /\ u.sent_proposals = s.sent_proposals
      /\ 0 \in Rounds
      /\ \A v \in u.sent_votes : v.height = u.height => v.round < 0
  BY Decide
<1> HIDE DEF u
<1>2. Good(t) /\ t.node_id = u.node_id /\ t.round = 0 /\ SameLock(u, t) /\ Enters(u, t, 0)
  BY <1>1, EnterRound
<1>3. commit(s, data) = t
  BY DEF commit, u, Decided
<1> HIDE DEF t
<1>4. Speaks(u, t, S, Q)
  BY <1>1, <1>2, EnterSpeaks DEF Good
<1>5. ASSUME Vouched(s, S, Q)
      PROVE  Vouched(u, S, Q)
  <2>1. /\ s \in NodeState /\ s.ledger \in Seq(Block) /\ s.locked_block \in Block
        /\ Len(s.ledger) = s.height /\ s.height \in Nat
    BY BoundAssumption DEF Good, NodeState, ChainOK, Heights
  <2>2. /\ CertifiedIn(S, s.height, r, "PRECOMMIT", block_hash(s.locked_block))
        /\ r \in Rounds
    BY <1>5, <2>1, Winner DEF Vouched
  <2>3. /\ Len(u.ledger) = s.height + 1 /\ u.ledger[s.height + 1] = s.locked_block
        /\ \A i \in 1 .. s.height : u.ledger[i] = s.ledger[i]
    BY <1>1, <2>1
  <2>4. ASSUME NEW i \in 1 .. Len(u.ledger)
        PROVE  \E q \in Rounds :
                  CertifiedIn(S, i - 1, q, "PRECOMMIT", block_hash(u.ledger[i]))
    <3>1. CASE i = s.height + 1
      <4>1. i - 1 = s.height
        BY <2>1, <3>1
      <4> QED
        BY <2>2, <2>3, <3>1, <4>1
    <3>2. CASE i # s.height + 1
      <4>1. i \in 1 .. s.height
        BY <2>1, <2>3, <3>2
      <4> QED
        BY <1>5, <2>1, <2>3, <4>1 DEF Vouched, LedgerBacked
    <3> QED
      BY <3>1, <3>2
  <2> QED
    BY <1>1, <1>5, <2>4 DEF Vouched, VotesHeld, LedgerBacked
<1> QED
  BY <1>1, <1>3, <1>4, <1>5, SpeaksOn DEF Quiet, Vouches

LEMMA TallyPrecommitsSpeaks ==
    ASSUME NEW s, Good(s), NEW data \in Data, NEW S, NEW Q, NEW r, s.height < MaxHeight
    PROVE  Speaks(s, tally_precommits(s, r, data), S, Q)
<1> DEFINE W == winners(s, r, "PRECOMMIT")
           h == CHOOSE x \in W : TRUE
<1>1. s \in NodeState /\ VotesOK(s) /\ ChainOK(s) /\ s.timers \subseteq {s.timeout_event}
  BY DEF Good, TimerOK
<1>2. Speaks(s, on_precommit_nil_quorum(s, r, data), S, Q)
  BY <1>1, NextRoundSpeaks, StaySpeaks DEF on_precommit_nil_quorum
<1>3. ASSUME W # {}
      PROVE  Speaks(s, on_precommit_quorum(s, h, data), S, Q)
  <2>1. h \in W
    BY <1>3
  <2> HIDE DEF h
  <2> QED
    BY <2>1, CommitSpeaks, StaySpeaks DEF on_precommit_quorum
<1> HIDE DEF W
<1> QED
  BY <1>2, <1>3, StaySpeaks DEF tally_precommits, W

LEMMA SendPrecommitSpeaks ==
    ASSUME NEW s, Good(s), NEW data \in Data, NEW hash \in Hash \cup {NIL},
           s.height < MaxHeight, NEW S, NEW Q,
           Vouched(s, S, Q) => Names(OwnVote(s, s.round, "PRECOMMIT", hash), S, Q)
    PROVE  Speaks(s, send_precommit(s, hash, data), S, Q)
<1> DEFINE u == cast_vote(s, "PRECOMMIT", hash)
<1>1. CASE has_voted(s, s.node_id, s.round, "PRECOMMIT")
  BY <1>1, StaySpeaks DEF send_precommit
<1>2. CASE ~ has_voted(s, s.node_id, s.round, "PRECOMMIT")
  <2>1. Unsigned(s, s.round, "PRECOMMIT")
    BY <1>2 DEF Good, Unsigned, VotesOK, has_voted
  <2>2. Good(u) /\ u.height = s.height /\ Quiet(s, u, S, Q)
    BY <2>1, CastQuiet DEF Phase
  <2> HIDE DEF u
  <2>3. Speaks(u, tally_precommits(u, s.round, data), S, Q)
    BY <2>2, TallyPrecommitsSpeaks
  <2> QED
    BY <1>2, <2>2, <2>3, SpeaksOn DEF send_precommit, u
<1> QED
  BY <1>1, <1>2

LEMMA OnPrevoteQuorumSpeaks ==
    ASSUME NEW s, Good(s), NEW data \in Data, NEW r \in Rounds, s.height < MaxHeight,
           NEW b \in Block, Extends(s, b), NEW S, NEW Q, NEW p \in s.proposals,
           p.block = b
    PROVE  Speaks(s, on_prevote_quorum(s, r, b, data), S, Q)
<1> DEFINE u == Locked(s, r, b)
<1>1. /\ Good(u) /\ u.height = s.height /\ u.node_id = s.node_id
      /\ u.ledger = s.ledger /\ u.proposals = s.proposals
      /\ u.votes = s.votes /\ u.sent_votes = s.sent_votes
      /\ u.sent_proposals = s.sent_proposals
  BY Lock
<1>2. on_prevote_quorum(s, r, b, data) =
        IF r = s.round /\ s.step = "PREVOTE"
        THEN send_precommit(u, block_hash(b), data) ELSE u
  BY DEF on_prevote_quorum, Locked
<1> HIDE DEF u
<1>3. Vouched(u, S, Q) = Vouched(s, S, Q)
  BY <1>1 DEF Vouched, VotesHeld, LedgerBacked
<1>4. Quiet(s, u, S, Q)
  BY <1>1, <1>3 DEF Quiet, Vouches
<1> DEFINE v == OwnVote(u, u.round, "PRECOMMIT", block_hash(b))
<1>5. ASSUME Vouched(u, S, Q) PROVE Names(v, S, Q)
  <2>1. v.hash = block_hash(b) /\ v.height = s.height /\ p \in Proposal
    BY <1>1 DEF OwnVote, Good, NodeState
  <2> HIDE DEF v
  <2> QED
    BY <1>1, <1>5, <2>1 DEF Vouched, Names, Extends
<1>6. block_hash(b) \in Hash \cup {NIL}
  BY HashType
<1>7. Speaks(u, send_precommit(u, block_hash(b), data), S, Q)
  BY <1>1, <1>5, <1>6, SendPrecommitSpeaks
<1> QED
  BY <1>2, <1>4, <1>7, SpeaksOn, QuietSpeaks

LEMMA TallyPrevotesSpeaks ==
    ASSUME NEW s, Good(s), NEW data \in Data, NEW r \in Rounds, s.height < MaxHeight,
           NEW S, NEW Q
    PROVE  Speaks(s, tally_prevotes(s, r, data), S, Q)
<1> DEFINE W == winners(s, r, "PREVOTE")
           P == {p \in s.proposals : p.round = r /\ block_hash(p.block) \in W}
           p0 == CHOOSE p \in P : TRUE
           v == OwnVote(s, s.round, "PRECOMMIT", NIL)
<1>1. Names(v, S, Q)
  BY DEF Names, OwnVote
<1>2. Speaks(s, on_prevote_nil_quorum(s, r, data), S, Q)
  BY <1>1, SendPrecommitSpeaks, StaySpeaks DEF on_prevote_nil_quorum
<1>3. ASSUME P # {}
      PROVE  Speaks(s, on_prevote_quorum(s, r, p0.block, data), S, Q)
  <2>1. p0 \in s.proposals
    BY <1>3
  <2>2. p0.block \in Block /\ Extends(s, p0.block)
    BY <2>1 DEF Good, NodeState, Proposal, ChainOK
  <2> HIDE DEF p0
  <2> QED
    BY <2>1, <2>2, OnPrevoteQuorumSpeaks
<1> HIDE DEF W
<1> QED
  BY <1>2, <1>3, StaySpeaks DEF tally_prevotes, W

-----------------------------------------------------------------------------
(* Messages.                                                               *)

LEMMA HandleProposalSpeaks ==
    ASSUME NEW s, Good(s), NEW data \in Data, s.height < MaxHeight, NEW S, NEW Q,
           NEW p \in Proposal, Extends(s, p.block), Genuine(p, S, Q)
    PROVE  Speaks(s, handle_proposal_local(s, p.block, p.round, data), S, Q)
<1> DEFINE r == p.round
           b == p.block
           u == Stored(s, b, r)
           hash == prevote_hash(u, b, r)
           c == cast_vote(u, "PREVOTE", hash)
           v == OwnVote(u, u.round, "PREVOTE", hash)
<1>1. r \in Rounds /\ b \in Block /\ p = [round |-> r, block |-> b]
  BY DEF Proposal
<1>2. /\ Good(u) /\ u.height = s.height /\ u.round = s.round /\ SameLock(s, u)
      /\ u.node_id = s.node_id /\ u.votes = s.votes /\ u.sent_votes = s.sent_votes
      /\ u.sent_proposals = s.sent_proposals
  BY <1>1, Store DEF SameLock
<1>3. u.proposals \subseteq s.proposals \cup {p}
  <2>1. u = IF \E q \in s.proposals : q.round = r THEN s
            ELSE [s EXCEPT !.proposals = @ \cup {p}]
    BY <1>1 DEF Stored
  <2> QED
    BY <2>1 DEF Good, NodeState
<1>4. handle_proposal_local(s, b, r, data) =
        IF \/ r # u.round \/ u.step # "PROPOSE"
           \/ has_voted(u, u.node_id, r, "PREVOTE")
        THEN u ELSE tally_prevotes(c, r, data)
  BY DEF handle_proposal_local, Stored
<1>5. hash \in Hash \cup {NIL} /\ hash \in {NIL, block_hash(b)}
  BY <1>1, PrevoteHashType DEF prevote_hash
<1> HIDE DEF u, hash
<1>6. Quiet(s, u, S, Q)
  BY <1>2, <1>3 DEF Quiet, Vouches, Vouched, VotesHeld, LedgerBacked, SameLock
<1>7. CASE \/ r # u.round \/ u.step # "PROPOSE"
           \/ has_voted(u, u.node_id, r, "PREVOTE")
  BY <1>4, <1>6, <1>7, QuietSpeaks
<1>8. CASE ~ (\/ r # u.round \/ u.step # "PROPOSE"
              \/ has_voted(u, u.node_id, r, "PREVOTE"))
  <2>1. Unsigned(u, u.round, "PREVOTE")
    BY <1>2, <1>8 DEF Good, Unsigned, VotesOK, has_voted
  <2>2. Names(v, S, Q)
    <3>1. v.hash = hash /\ v.height = s.height
      BY <1>2 DEF OwnVote
    <3> HIDE DEF v
    <3> QED
      BY <1>5, <3>1 DEF Names, Extends
  <2>3. Good(c) /\ c.height = u.height /\ Quiet(u, c, S, Q)
    BY <1>2, <1>5, <2>1, <2>2, CastQuiet DEF Phase
  <2> HIDE DEF c
  <2>4. Speaks(c, tally_prevotes(c, r, data), S, Q)
    BY <1>1, <1>2, <2>3, TallyPrevotesSpeaks
  <2> QED
    BY <1>4, <1>6, <1>8, <2>3, <2>4, SpeaksOn
<1> QED
  BY <1>7, <1>8

LEMMA OnProposalSpeaks ==
    ASSUME NEW s, Good(s), NEW data \in Data, s.height < MaxHeight, NEW S, NEW Q,
           NEW p \in Proposal, Genuine(p, S, Q)
    PROVE  Speaks(s, on_proposal(s, p, data), S, Q)
BY HandleProposalSpeaks, StaySpeaks DEF on_proposal, accept_header, Extends

LEMMA OnVoteSpeaks ==
    ASSUME NEW s, Good(s), NEW data \in Data, s.height < MaxHeight, NEW S, NEW Q,
           NEW v \in Vote, v.validator \in Byzantine \/ v \in S
    PROVE  Speaks(s, on_vote(s, v, data), S, Q)
<1> DEFINE u == WithVote(s, v)
<1>1. CASE v.height # s.height \/ has_voted(s, v.validator, v.round, v.phase)
  BY <1>1, StaySpeaks DEF on_vote
<1>2. CASE ~ (v.height # s.height \/ has_voted(s, v.validator, v.round, v.phase))
  <2>1. /\ Good(u) /\ u.height = s.height /\ u.node_id = s.node_id /\ SameLock(s, u)
        /\ u.votes = s.votes \cup {v} /\ u.sent_votes = s.sent_votes
        /\ u.proposals = s.proposals /\ u.sent_proposals = s.sent_proposals
    BY Count DEF SameLock
  <2>2. on_vote(s, v, data) = IF v.phase = "PREVOTE" THEN tally_prevotes(u, v.round, data)
                              ELSE tally_precommits(u, v.round, data)
    BY <1>2 DEF on_vote, WithVote
  <2> HIDE DEF u
  <2>3. Quiet(s, u, S, Q)
    BY <1>2, <2>1 DEF Quiet, Vouches, Vouched, VotesHeld, LedgerBacked, SameLock
  <2>4. /\ Speaks(u, tally_prevotes(u, v.round, data), S, Q)
        /\ Speaks(u, tally_precommits(u, v.round, data), S, Q)
    BY <2>1, VoteNumbers, TallyPrevotesSpeaks, TallyPrecommitsSpeaks
  <2> QED
    BY <2>2, <2>3, <2>4, SpeaksOn
<1> QED
  BY <1>1, <1>2

-----------------------------------------------------------------------------
(* The order of the queue.                                                 *)

\* at[k] is the position in X of the k-th event of Y, which has those of X at
\* the positions I.
InPlace(at, X, I, Y) ==
    /\ at \in Bijection(1 .. Cardinality(I), I)
    /\ Y = [k \in 1 .. Cardinality(I) |-> X[at[k]]]
    /\ \A k, l \in 1 .. Cardinality(I) : k < l => Precedes(X, at[k], at[l])

LEMMA InOrder ==
    ASSUME NEW X, NEW I, IsFiniteSet(I), \A i \in I : i \in Int /\ X[i].time \in Int
    PROVE  \E at : InPlace(at, X, I, in_order(X, I))
<1> DEFINE upto(i) == {j \in I : j = i \/ Precedes(X, j, i)}
           place == [i \in I |-> Cardinality(upto(i))]
           N == 1 .. Cardinality(I)
           at == [k \in N |-> CHOOSE i \in I : place[i] = k]
<1>1. /\ \A i, j, k \in I : Precedes(X, i, j) /\ Precedes(X, j, k) => Precedes(X, i, k)
      /\ \A i, j \in I : i = j \/ Precedes(X, i, j) \/ Precedes(X, j, i)
      /\ \A i, j \in I : Precedes(X, i, j) => ~ Precedes(X, j, i) /\ i # j
  BY DEF Precedes
<1>2. ASSUME NEW i \in I
      PROVE  IsFiniteSet(upto(i)) /\ place[i] \in N /\ place[i] = Cardinality(upto(i))
  <2>1. upto(i) \in SUBSET I /\ i \in upto(i)
    OBVIOUS
  <2>2. place[i] = Cardinality(upto(i))
    OBVIOUS
  <2> HIDE DEF upto, place
  <2>3. /\ IsFiniteSet(upto(i)) /\ Cardinality(upto(i)) <= Cardinality(I)
        /\ Cardinality(upto(i)) \in Nat /\ Cardinality(I) \in Nat
    BY <2>1, FS_Subset, FS_CardinalityType
  <2>4. Cardinality(upto(i)) # 0
    BY <2>1, <2>3, FS_EmptySet
  <2> QED
    BY <2>2, <2>3, <2>4
<1>3. ASSUME NEW i \in I, NEW j \in I, Precedes(X, i, j)
      PROVE  place[i] < place[j]
  <2>1. upto(i) \in SUBSET (upto(j) \ {j}) /\ j \in upto(j)
    BY <1>1, <1>3
  <2> HIDE DEF upto, place
  <2>2. /\ IsFiniteSet(upto(j) \ {j})
        /\ Cardinality(upto(j) \ {j}) = Cardinality(upto(j)) - 1
        /\ Cardinality(upto(i)) <= Cardinality(upto(j) \ {j})
        /\ Cardinality(upto(i)) \in Nat /\ Cardinality(upto(j)) \in Nat
    BY <1>2, <2>1, FS_RemoveElement, FS_Subset, FS_CardinalityType
  <2> QED
    BY <1>2, <2>2
<1>4. IsFiniteSet(N) /\ Cardinality(N) = Cardinality(I) /\ Cardinality(I) \in Nat
  <2>1. Cardinality(I) \in Nat
    BY FS_CardinalityType
  <2> QED
    BY <2>1, FS_Interval
<1>5. in_order(X, I) = [k \in N |-> X[at[k]]]
  <2>1. \A k \in N : at[k] = CHOOSE i \in I : place[i] = k
    OBVIOUS
  <2>2. in_order(X, I) = [k \in N |-> X[CHOOSE i \in I : place[i] = k]]
    BY DEF in_order
  <2> QED
    BY <2>1, <2>2
<1> HIDE DEF place, upto
<1>6. /\ place \in [I -> N]
      /\ \A i, j \in I : place[i] = place[j] => i = j
      /\ \A i, j \in I : place[i] < place[j] => Precedes(X, i, j)
  <2>1. place \in [I -> N]
    BY <1>2 DEF place
  <2>2. \A i \in I : place[i] \in Int
    BY <1>2, <1>4
  <2> QED
    BY <1>1, <1>3, <2>1, <2>2
<1>7. place \in Injection(I, N)
  BY <1>6 DEF Injection, IsInjective
<1>8. place \in Surjection(I, N)
  BY <1>4, <1>7, FS_Injection
<1>9. \A k \in N : at[k] \in I /\ place[at[k]] = k
  BY <1>8 DEF Surjection
<1>10. at \in [N -> I]
  BY <1>9
<1> HIDE DEF at, N
<1>11. at \in Bijection(N, I)
  <2>1. \A k, l \in N : at[k] = at[l] => k = l
    BY <1>9
  <2>2. \A i \in I : place[i] \in N /\ at[place[i]] = i
    BY <1>6, <1>9
  <2> QED
    BY <1>10, <2>1, <2>2 DEF Bijection, Injection, Surjection, IsInjective
<1>12. \A k, l \in N : k < l => Precedes(X, at[k], at[l])
  BY <1>6, <1>9
<1> QED
  BY <1>5, <1>11, <1>12 DEF InPlace, N

\* Whatever holds of the events that are put in order holds of the result.
LEMMA InOrderType ==
    ASSUME NEW T, NEW X, NEW I, IsFiniteSet(I),
           \A i \in I : i \in Int /\ X[i].time \in Int /\ X[i] \in T
    PROVE  in_order(X, I) \in Seq(T)
<1>1. PICK at : InPlace(at, X, I, in_order(X, I))
  BY InOrder
<1>2. Cardinality(I) \in Nat
  BY FS_CardinalityType
<1>3. \A k \in 1 .. Cardinality(I) : at[k] \in I
  BY <1>1 DEF InPlace, Bijection, Injection
<1> DEFINE N == Cardinality(I)
<1> HIDE DEF N
<1>4. [k \in 1 .. N |-> X[at[k]]] \in Seq(T)
  BY <1>2, <1>3 DEF N
<1> QED
  BY <1>1, <1>4 DEF InPlace, N

-----------------------------------------------------------------------------
(* What a handler sends.                                                   *)

LEMMA SetToSeqType ==
    ASSUME NEW A, IsFiniteSet(A)
    PROVE  SetToSeq(A) \in [1 .. Cardinality(A) -> A] /\ IsInjective(SetToSeq(A))
<1>1. \E h \in [1 .. Cardinality(A) -> A] : IsInjective(h)
  BY FS_CardinalityType DEF ExistsBijection, Bijection, Injection
<1> QED
  BY <1>1 DEF SetToSeq

LEMMA SetToSeqIn ==
    ASSUME NEW A, IsFiniteSet(A), NEW T, A \subseteq T
    PROVE  SetToSeq(A) \in Seq(T)
<1>1. Cardinality(A) \in Nat /\ SetToSeq(A) \in [1 .. Cardinality(A) -> A]
  BY SetToSeqType, FS_CardinalityType
<1> DEFINE N == Cardinality(A)
           L == SetToSeq(A)
<1> HIDE DEF N, L
<1>2. N \in Nat /\ L \in [1 .. N -> T]
  BY <1>1 DEF N, L
<1> QED
  BY <1>2 DEF L

\* A set with no two elements is finite.
LEMMA AtMostOne ==
    ASSUME NEW A, \A x, y \in A : x = y
    PROVE  IsFiniteSet(A)
<1>1. A = {} \/ \E x : A = {x}
  OBVIOUS
<1> QED
  BY <1>1, FS_EmptySet, FS_Singleton

LEMMA OthersType ==
    ASSUME NEW L \in Seq(Validator), NEW i \in DOMAIN L
    PROVE  RemoveAt(L, i) \in Seq(Validator)
<1>1. i \in 1 .. Len(L) /\ Len(L) \in Nat
  OBVIOUS
<1>2. SubSeq(L, 1, i - 1) \in Seq(Validator) /\ SubSeq(L, i + 1, Len(L)) \in Seq(Validator)
  BY <1>1
<1> QED
  BY <1>2 DEF RemoveAt

LEMMA ReceiversType ==
    ASSUME NEW m \in Validator
    PROVE  others(Registered, m) \in Seq(Validator) /\ peers(m) \in Seq(Validator)
<1> DEFINE L == [i \in 1 .. n |-> validators[i - 1]]
           choice(K) == CHOOSE i \in DOMAIN K : K[i] = m
<1>1. n \in Nat
  BY NumberOfValidators
<1> HIDE DEF n
<1>2. \A i \in 1 .. n : i - 1 \in 0 .. n - 1
  BY <1>1
<1>3. L \in Seq(Validator) /\ DOMAIN L = 1 .. n
  BY <1>1, <1>2, ValidatorAssumption
<1>4. \E i \in DOMAIN L : L[i] = m
  <2>1. PICK k \in 0 .. n - 1 : validators[k] = m
    BY ValidatorAssumption
  <2>2. k + 1 \in 1 .. n /\ (k + 1) - 1 = k
    BY <1>1, <2>1
  <2> QED
    BY <2>1, <2>2
<1>5. Registered \in Seq(Validator) /\ \E i \in DOMAIN Registered : Registered[i] = m
  BY NetworkAssumption
<1>6. peers(m) = RemoveAt(L, choice(L)) /\ others(Registered, m) = RemoveAt(Registered, choice(Registered))
  BY DEF peers, others
<1> HIDE DEF L
<1>7. choice(L) \in DOMAIN L /\ choice(Registered) \in DOMAIN Registered
  BY <1>4, <1>5
<1> HIDE DEF choice
<1> QED
  BY <1>3, <1>5, <1>6, <1>7, OthersType

\* What a validator has to send or schedule once it is in state t.
Items(t) ==
    [kind : {"TIMEOUT"}, body : t.timers]
    \cup [kind : {"PROPOSAL"}, body : t.sent_proposals]
    \cup [kind : {"VOTE"}, body : t.sent_votes]

LEMMA EmittedType ==
    ASSUME NEW s, NEW t, Keeps(s, t), VotesOK(t)
    PROVE  Emitted(s, t) \in Seq(Items(t))
<1> DEFINE from == <<s.height, s.round>>
           to   == <<t.height, t.round>>
           T(at) == {[kind |-> "TIMEOUT", body |-> x] :
                       x \in (t.timers \ s.timers) \cap {at}}
           P(at) == {[kind |-> "PROPOSAL", body |-> p] :
                       p \in {q \in t.sent_proposals \ s.sent_proposals :
                                <<q.block.height, q.round>> = at}}
           V(at, phase) ==
             {[kind |-> "VOTE", body |-> v] :
                v \in {w \in t.sent_votes \ s.sent_votes :
                         <<w.height, w.round>> = at /\ w.phase = phase}}
           in(at) == SetToSeq(T(at)) \o SetToSeq(P(at))
                     \o SetToSeq(V(at, "PREVOTE")) \o SetToSeq(V(at, "PRECOMMIT"))
<1>1. Emitted(s, t) = IF from = to THEN in(to) ELSE in(from) \o in(to)
  BY DEF Emitted
<1>2. ASSUME NEW at
      PROVE  SetToSeq(T(at)) \in Seq(Items(t))
  <2>1. T(at) \subseteq Items(t) /\ \A x, y \in T(at) : x = y
    BY DEF Items
  <2> HIDE DEF T
  <2> QED
    BY <2>1, AtMostOne, SetToSeqIn
<1>3. ASSUME NEW at
      PROVE  SetToSeq(P(at)) \in Seq(Items(t))
  <2>1. PICK p : t.sent_proposals \in {s.sent_proposals, s.sent_proposals \cup {p}}
    BY DEF Keeps
  <2>2. P(at) \subseteq Items(t) /\ \A x, y \in P(at) : x = y
    BY <2>1 DEF Items
  <2> HIDE DEF P
  <2> QED
    BY <2>2, AtMostOne, SetToSeqIn
<1>4. ASSUME NEW at, NEW phase
      PROVE  SetToSeq(V(at, phase)) \in Seq(Items(t))
  <2>1. V(at, phase) \subseteq Items(t) /\ \A x, y \in V(at, phase) : x = y
    BY DEF VotesOK, Items
  <2> HIDE DEF V
  <2> QED
    BY <2>1, AtMostOne, SetToSeqIn
<1> HIDE DEF T, P, V
<1>5. in(from) \in Seq(Items(t)) /\ in(to) \in Seq(Items(t))
  <2> DEFINE Z == Seq(Items(t))
  <2>1. \A a, b, c, d \in Z : a \o b \o c \o d \in Z
    <3> DEFINE I == Items(t)
    <3> HIDE DEF I
    <3>1. \A a, b, c, d \in Seq(I) : a \o b \o c \o d \in Seq(I)
      OBVIOUS
    <3> QED
      BY <3>1 DEF I
  <2>3. \A phase : SetToSeq(V(from, phase)) \in Z /\ SetToSeq(V(to, phase)) \in Z
    BY <1>4
  <2> HIDE DEF Z, from, to
  <2>4. /\ SetToSeq(T(from)) \in Z /\ SetToSeq(T(to)) \in Z
        /\ SetToSeq(P(from)) \in Z /\ SetToSeq(P(to)) \in Z
    BY <1>2, <1>3 DEF Z
  <2> QED
    BY <2>1, <2>3, <2>4 DEF Z
<1> HIDE DEF in
<1> DEFINE J == Items(t)
<1>6. in(from) \in Seq(J) /\ in(to) \in Seq(J)
  BY <1>5
<1> HIDE DEF J
<1>7. in(from) \o in(to) \in Seq(J)
  BY <1>6
<1> QED
  BY <1>1, <1>6, <1>7 DEF J

\* The same with the validators it is for: m told them something each.
Parcels(m, t) ==
    [kind : {"TIMEOUT"}, to : {m}, body : t.timers]
    \cup {[kind |-> "PROPOSAL", to |-> k, body |-> told(m, k, "PROPOSAL", p)] :
            k \in Validator, p \in t.sent_proposals}
    \cup {[kind |-> "VOTE", to |-> k, body |-> told(m, k, "VOTE", v)] :
            k \in Validator, v \in t.sent_votes}

LEMMA AddressedType ==
    ASSUME NEW m \in Validator, NEW t, NEW x \in Items(t)
    PROVE  addressed(m, x) \in Seq(Parcels(m, t))
<1> DEFINE R == IF m \in Honest THEN others(Registered, m) ELSE peers(m)
           to(k) == [kind |-> x.kind, to |-> k, body |-> told(m, k, x.kind, x.body)]
<1>1. R \in Seq(Validator)
  BY ReceiversType
<1>2. CASE x.kind = "TIMEOUT"
  <2>1. [kind |-> x.kind, to |-> m, body |-> x.body] \in Parcels(m, t)
    BY <1>2 DEF Items, Parcels
  <2> QED
    BY <1>2, <2>1 DEF addressed
<1>3. CASE x.kind # "TIMEOUT"
  <2>1. \A k \in Validator : to(k) \in Parcels(m, t)
    BY <1>3 DEF Items, Parcels
  <2>2. addressed(m, x) = [i \in DOMAIN R |-> to(R[i])]
    BY <1>3 DEF addressed
  <2> HIDE DEF R, to
  <2>3. /\ Len(R) \in Nat /\ DOMAIN R = 1 .. Len(R)
        /\ \A i \in 1 .. Len(R) : R[i] \in Validator
    BY <1>1
  <2>4. \A i \in 1 .. Len(R) : to(R[i]) \in Parcels(m, t)
    BY <2>1, <2>3
  <2> DEFINE N == Len(R)
  <2> HIDE DEF N
  <2>5. [i \in 1 .. N |-> to(R[i])] \in Seq(Parcels(m, t))
    BY <2>3, <2>4 DEF N
  <2> QED
    BY <2>2, <2>3, <2>5 DEF N
<1> QED
  BY <1>2, <1>3

LEMMA FlattenType ==
    ASSUME NEW T, NEW ss \in Seq(Seq(T))
    PROVE  FlattenSeq(ss) \in Seq(T)
BY FlattenAppend, <<>> \in Seq(T)

LEMMA PostedType ==
    ASSUME NEW m \in Validator, NEW s, NEW t, Keeps(s, t), VotesOK(t)
    PROVE  posted(m, s, t) \in Seq(Parcels(m, t))
<1> DEFINE L == Emitted(s, t)
           P == Parcels(m, t)
           ss == [i \in DOMAIN L |-> addressed(m, L[i])]
<1>1. posted(m, s, t) = FlattenSeq(ss)
  BY DEF posted
<1>2. L \in Seq(Items(t))
  BY EmittedType
<1> HIDE DEF L
<1>3. Len(L) \in Nat /\ DOMAIN L = 1 .. Len(L) /\ \A i \in 1 .. Len(L) : L[i] \in Items(t)
  <2> DEFINE I == Items(t)
  <2> HIDE DEF I
  <2>1. L \in Seq(I)
    BY <1>2 DEF I
  <2> QED
    BY <2>1 DEF I
<1>4. \A i \in 1 .. Len(L) : addressed(m, L[i]) \in Seq(P)
  BY <1>3, AddressedType
<1> HIDE DEF P
<1>5. ss \in Seq(Seq(P))
  <2> DEFINE Z == Seq(P)
             N == Len(L)
             a(i) == addressed(m, L[i])
  <2>1. \A i \in 1 .. N : a(i) \in Z
    BY <1>4
  <2>2. N \in Nat /\ ss = [i \in 1 .. N |-> a(i)]
    BY <1>3
  <2> HIDE DEF Z, N, a, ss
  <2>3. ss \in Seq(Z)
    BY <2>1, <2>2
  <2> QED
    BY <2>3 DEF Z
<1> HIDE DEF ss
<1> QED
  BY <1>1, <1>5, FlattenType DEF P

-----------------------------------------------------------------------------
(* The network.                                                            *)

\* The events that x, sent at this time, may become.
Arrivals(x, time) ==
    {[time |-> time + d, kind |-> x.kind, to |-> x.to, body |-> x.body] : d \in Nat}

\* c[i] is what the network makes of L[i]: a timer it leaves as it is.
Carries(L, time, c) ==
    /\ c = [i \in DOMAIN L |-> c[i]]
    /\ \A i \in DOMAIN L :
          /\ c[i] \in Seq(Arrivals(L[i], time))
          /\ L[i].kind = "TIMEOUT" => Len(c[i]) = 1

LEMMA ReorderType ==
    \A k \in Nat : k >= 1 /\ k <= Len(reorder_list) => reorder_list[k] \in Nat
<1>1. reorder_list \in Seq(Nat)
  BY NetworkAssumption
<1> QED
  BY <1>1

LEMMA SendShape ==
    ASSUME NEW P, NEW L \in Seq(P), NEW time \in Nat, NEW q, NEW I,
           order_index \in Nat, Send(L, time, q, I)
    PROVE  /\ \E c : /\ Carries(L, time, c)
                     /\ \E X \in {q \o FlattenSeq(c)} :
                           queue' = in_order(X, I \cup (DOMAIN X \ DOMAIN q))
           /\ order_index' \in Nat
<1> DEFINE M == {i \in DOMAIN L : L[i].kind # "TIMEOUT"}
<1>1. \A k, S : \A X \in AtMost(k, S) : X \subseteq S
  BY DEF AtMost
<1>2. PICK lost \in AtMost(IF stabilized THEN 0 ELSE MaxLost - faults.lost, M) :
      \E slow   \in AtMost(IF stabilized THEN 0 ELSE MaxSlow - faults.slow, M \ lost),
         copied \in AtMost(MaxCopied - faults.copied, M \ lost) :
        LET index(i) == order_index + Cardinality({j \in M \ lost : j <= i})
            delay(i) ==
                IF i \notin M THEN round_timeout
                ELSE IF index(i) <= Len(reorder_list) THEN reorder_list[index(i)]
                ELSE IF i \in slow THEN max_delay
                ELSE IF stabilized THEN bounded_delay ELSE min_delay
            event(i) == [time |-> time + delay(i), kind |-> L[i].kind,
                         to |-> L[i].to, body |-> L[i].body]
            copies(i) == IF i \in lost THEN <<>>
                         ELSE IF i \in copied THEN <<event(i), event(i)>>
                         ELSE <<event(i)>>
        IN  /\ \E X \in {q \o FlattenSeq([i \in DOMAIN L |-> copies(i)])} :
                  queue' = in_order(X, I \cup (DOMAIN X \ DOMAIN q))
            /\ order_index' =
                  LET used == order_index + Cardinality(M \ lost)
                  IN  IF used < Len(reorder_list) THEN used ELSE Len(reorder_list)
  BY ZenonT(60) DEF Send
<1>3. PICK slow   \in AtMost(IF stabilized THEN 0 ELSE MaxSlow - faults.slow, M \ lost),
           copied \in AtMost(MaxCopied - faults.copied, M \ lost) :
        LET index(i) == order_index + Cardinality({j \in M \ lost : j <= i})
            delay(i) ==
                IF i \notin M THEN round_timeout
                ELSE IF index(i) <= Len(reorder_list) THEN reorder_list[index(i)]
                ELSE IF i \in slow THEN max_delay
                ELSE IF stabilized THEN bounded_delay ELSE min_delay
            event(i) == [time |-> time + delay(i), kind |-> L[i].kind,
                         to |-> L[i].to, body |-> L[i].body]
            copies(i) == IF i \in lost THEN <<>>
                         ELSE IF i \in copied THEN <<event(i), event(i)>>
                         ELSE <<event(i)>>
        IN  /\ \E X \in {q \o FlattenSeq([i \in DOMAIN L |-> copies(i)])} :
                  queue' = in_order(X, I \cup (DOMAIN X \ DOMAIN q))
            /\ order_index' =
                  LET used == order_index + Cardinality(M \ lost)
                  IN  IF used < Len(reorder_list) THEN used ELSE Len(reorder_list)
  BY <1>2
<1> DEFINE index(i) == order_index + Cardinality({j \in M \ lost : j <= i})
           delay(i) ==
               IF i \notin M THEN round_timeout
               ELSE IF index(i) <= Len(reorder_list) THEN reorder_list[index(i)]
               ELSE IF i \in slow THEN max_delay
               ELSE IF stabilized THEN bounded_delay ELSE min_delay
           event(i) == [time |-> time + delay(i), kind |-> L[i].kind,
                        to |-> L[i].to, body |-> L[i].body]
           copies(i) == IF i \in lost THEN <<>>
                        ELSE IF i \in copied THEN <<event(i), event(i)>>
                        ELSE <<event(i)>>
           c == [i \in DOMAIN L |-> copies(i)]
<1>4. /\ \E X \in {q \o FlattenSeq(c)} :
            queue' = in_order(X, I \cup (DOMAIN X \ DOMAIN q))
      /\ order_index' = IF order_index + Cardinality(M \ lost) < Len(reorder_list)
                        THEN order_index + Cardinality(M \ lost) ELSE Len(reorder_list)
  BY <1>3
<1>5. /\ lost \subseteq M /\ copied \subseteq M /\ M \subseteq DOMAIN L
      /\ \A i \in DOMAIN L : i \in Int /\ (i \in M <=> L[i].kind # "TIMEOUT")
  <2>1. /\ lost \in AtMost(IF stabilized THEN 0 ELSE MaxLost - faults.lost, M)
        /\ copied \in AtMost(MaxCopied - faults.copied, M \ lost)
    OBVIOUS
  <2>2. lost \subseteq M /\ copied \subseteq M \ lost
    BY ONLY <1>1, <2>1
  <2>3. \A i \in DOMAIN L : i \in Int
    OBVIOUS
  <2>4. \A i \in DOMAIN L : i \in M <=> L[i].kind # "TIMEOUT"
    OBVIOUS
  <2> QED
    BY <2>2, <2>3, <2>4
<1>6. IsFiniteSet(DOMAIN L)
  <2>1. DOMAIN L = 1 .. Len(L) /\ Len(L) \in Int
    OBVIOUS
  <2> QED
    BY <2>1, FS_Interval
<1> HIDE DEF M
<1>7. Cardinality(M \ lost) \in Nat /\ Len(reorder_list) \in Nat
  <2>1. M \ lost \in SUBSET DOMAIN L
    BY <1>5
  <2> QED
    BY <1>6, <2>1, FS_Subset, FS_CardinalityType, NetworkAssumption
<1>8. ASSUME NEW i \in DOMAIN L, i \notin lost
      PROVE  delay(i) \in Nat
  <2>1. CASE i \notin M
    BY <2>1, NetworkAssumption
  <2>2. CASE i \in M
    <3> DEFINE S == {j \in M \ lost : j <= i}
    <3>1. S \in SUBSET DOMAIN L /\ i \in S
      BY <1>5, <1>8, <2>2
    <3>2. index(i) = order_index + Cardinality(S)
      OBVIOUS
    <3> HIDE DEF S
    <3>3. Cardinality(S) \in Nat /\ Cardinality(S) # 0
      BY <1>6, <3>1, FS_Subset, FS_CardinalityType, FS_EmptySet
    <3>4. index(i) \in Nat /\ index(i) >= 1
      BY <3>2, <3>3
    <3> HIDE DEF index
    <3>5. index(i) <= Len(reorder_list) => reorder_list[index(i)] \in Nat
      BY <3>4, ReorderType
    <3> QED
      BY <2>2, <3>5, NetworkAssumption
  <2> QED
    BY <2>1, <2>2
<1> HIDE DEF delay, index
<1>9. Carries(L, time, c)
  <2> SUFFICES ASSUME NEW i \in DOMAIN L
               PROVE  /\ c[i] \in Seq(Arrivals(L[i], time))
                      /\ L[i].kind = "TIMEOUT" => Len(c[i]) = 1
    BY DEF Carries
  <2>1. c[i] = copies(i)
    OBVIOUS
  <2>2. i \notin lost => event(i) \in Arrivals(L[i], time)
    BY <1>8 DEF Arrivals
  <2>3. L[i].kind = "TIMEOUT" => copies(i) = <<event(i)>>
    BY <1>5
  <2> DEFINE A == Arrivals(L[i], time)
  <2> HIDE DEF A, event, c
  <2>4. /\ <<>> \in Seq(A)
        /\ i \notin lost => <<event(i)>> \in Seq(A) /\ <<event(i), event(i)>> \in Seq(A)
    BY <2>2 DEF A
  <2>5. copies(i) \in Seq(A)
    BY <2>4
  <2>6. Len(<<event(i)>>) = 1
    OBVIOUS
  <2> HIDE DEF copies
  <2> QED
    BY <2>1, <2>3, <2>5, <2>6 DEF A
<1> HIDE DEF c
<1>10. order_index' \in Nat
  BY <1>4, <1>7
<1> QED
  BY <1>4, <1>9, <1>10

LEMMA ConcatIndex ==
    ASSUME NEW A, NEW B, NEW q \in Seq(A), NEW F \in Seq(B)
    PROVE  LET X == q \o F
           IN  /\ DOMAIN q \subseteq DOMAIN X /\ IsFiniteSet(DOMAIN X)
               /\ \A i \in DOMAIN X : i \in Int
               /\ \A i \in DOMAIN q : X[i] = q[i]
               /\ \A i \in DOMAIN X \ DOMAIN q : i - Len(q) \in DOMAIN F /\ X[i] = F[i - Len(q)]
               /\ \A j \in DOMAIN F : /\ Len(q) + j \in DOMAIN X \ DOMAIN q
                                      /\ X[Len(q) + j] = F[j]
<1> DEFINE X == q \o F
           C == A \cup B
<1>1. q \in Seq(C) /\ F \in Seq(C)
  OBVIOUS
<1> HIDE DEF C
<1>2. /\ Len(q) \in Nat /\ Len(F) \in Nat /\ Len(X) = Len(q) + Len(F)
      /\ DOMAIN q = 1 .. Len(q) /\ DOMAIN F = 1 .. Len(F) /\ DOMAIN X = 1 .. Len(X)
      /\ \A i \in 1 .. Len(q) + Len(F) :
            X[i] = IF i <= Len(q) THEN q[i] ELSE F[i - Len(q)]
  BY <1>1
<1>3. IsFiniteSet(DOMAIN X)
  BY <1>2, FS_Interval
<1> HIDE DEF X
<1> QED
  BY <1>2, <1>3 DEF X

\* The events of q at the positions I, and those of c, lie in Y in order.
Merges(at, q, I, c, Y) ==
    LET X == q \o FlattenSeq(c)
    IN  InPlace(at, X, I \cup (DOMAIN X \ DOMAIN q), Y)

\* What is on the queue after a message has been sent.
LEMMA SendPlaced ==
    ASSUME NEW P, NEW L \in Seq(P), NEW time \in Nat, NEW T, NEW q \in Seq(T),
           NEW I \in SUBSET DOMAIN q, NEW E,
           \A e \in E : e.time \in Nat,
           \A i \in I : q[i] \in E,
           \A x \in P : Arrivals(x, time) \subseteq E,
           order_index \in Nat, Send(L, time, q, I)
    PROVE  /\ queue' \in Seq(E) /\ order_index' \in Nat
           /\ \E c, at : /\ c \in Seq(Seq(E)) /\ Carries(L, time, c)
                         /\ Merges(at, q, I, c, queue')
<1>0. /\ \E c : /\ Carries(L, time, c)
                /\ \E X \in {q \o FlattenSeq(c)} :
                      queue' = in_order(X, I \cup (DOMAIN X \ DOMAIN q))
      /\ order_index' \in Nat
  BY SendShape
<1>1. PICK c : /\ Carries(L, time, c)
               /\ \E X \in {q \o FlattenSeq(c)} :
                     queue' = in_order(X, I \cup (DOMAIN X \ DOMAIN q))
  BY <1>0
<1> DEFINE X == q \o FlattenSeq(c)
           J == I \cup (DOMAIN X \ DOMAIN q)
<1>2. queue' = in_order(X, J)
  BY <1>1
<1>3. c \in Seq(Seq(E))
  <2> DEFINE Z == Seq(E)
  <2>1. \A i \in DOMAIN L : c[i] \in Z
    <3> SUFFICES ASSUME NEW i \in DOMAIN L PROVE c[i] \in Seq(E)
      OBVIOUS
    <3> DEFINE A == Arrivals(L[i], time)
    <3>1. A \subseteq E /\ c[i] \in Seq(A)
      BY <1>1 DEF Carries
    <3> HIDE DEF A
    <3> QED
      BY <3>1
  <2>2. c = [i \in DOMAIN L |-> c[i]] /\ DOMAIN L = 1 .. Len(L) /\ Len(L) \in Nat
    BY <1>1 DEF Carries
  <2> HIDE DEF Z
  <2>3. [i \in DOMAIN L |-> c[i]] \in Seq(Z)
    BY <2>1, <2>2
  <2> QED
    BY <2>2, <2>3 DEF Z
<1> DEFINE F == FlattenSeq(c)
<1>4. F \in Seq(E)
  BY <1>3, FlattenType
<1>5. X = q \o F
  OBVIOUS
<1> HIDE DEF F, X
<1>6. /\ DOMAIN q \subseteq DOMAIN X /\ IsFiniteSet(DOMAIN X)
      /\ \A i \in DOMAIN X : i \in Int
      /\ \A i \in DOMAIN q : X[i] = q[i]
      /\ \A i \in DOMAIN X \ DOMAIN q : i - Len(q) \in DOMAIN F /\ X[i] = F[i - Len(q)]
  BY <1>4, <1>5, ConcatIndex
<1>7. \A j \in DOMAIN F : F[j] \in E
  BY <1>4
<1>8. \A i \in J : i \in Int /\ X[i].time \in Int /\ X[i] \in E
  BY <1>6, <1>7
<1>9. IsFiniteSet(J)
  BY <1>6, FS_Subset
<1> HIDE DEF J
<1>10. in_order(X, J) \in Seq(E)
  BY <1>8, <1>9, InOrderType
<1>11. PICK at : InPlace(at, X, J, queue')
  BY <1>2, <1>8, <1>9, InOrder
<1>12. Merges(at, q, I, c, queue')
  BY <1>5, <1>11 DEF Merges, J, F
<1> QED
  BY <1>0, <1>1, <1>2, <1>3, <1>10, <1>12

\* The network delivers only what has been sent, and keeps only what is asked.
LEMMA SendType ==
    ASSUME NEW P, NEW L \in Seq(P), NEW time \in Nat, NEW T, NEW q \in Seq(T),
           NEW I \in SUBSET DOMAIN q, NEW E,
           \A e \in E : e.time \in Nat,
           \A i \in I : q[i] \in E,
           \A x \in P : Arrivals(x, time) \subseteq E,
           order_index \in Nat, Send(L, time, q, I)
    PROVE  queue' \in Seq(E) /\ order_index' \in Nat
BY SendPlaced

-----------------------------------------------------------------------------
(* What may be on the queue.                                               *)

\* A vote that an honest validator has cast, or a Byzantine one may cast.
Credible(v, S, Q) ==
    v \in Vote /\ (v \in S \/ (v.validator \in Active /\ Names(v, S, Q)))

\* The event x is due, if the timers of validator k are tm[k].
Sound(x, tm, S, Q) ==
    \/ x.kind = "TIMEOUT" /\ x.body \in tm[x.to]
    \/ x.kind = "PROPOSAL" /\ x.body \in Proposal /\ Genuine(x.body, S, Q)
    \/ x.kind = "VOTE" /\ Credible(x.body, S, Q)

Events(tm, S, Q) ==
    {e \in [time : Nat, kind : {"TIMEOUT", "PROPOSAL", "VOTE"}, to : Validator,
            body : (Heights \X Rounds) \cup Proposal \cup Vote] : Sound(e, tm, S, Q)}

Timers == [k \in Validator |-> engine(k).timers]

\* The more has been signed and proposed, the more goes.
LEMMA SoundStays ==
    ASSUME NEW S, NEW S2, NEW Q, NEW Q2, S \subseteq S2, Q \subseteq Q2
    PROVE  /\ \A p : Forged(p, S) => Forged(p, S2)
           /\ \A p : Genuine(p, S, Q) => Genuine(p, S2, Q2)
           /\ \A v : Names(v, S, Q) => Names(v, S2, Q2)
           /\ \A v : Credible(v, S, Q) => Credible(v, S2, Q2)
           /\ \A s : Vouched(s, S, Q) => Vouched(s, S2, Q2)
<1>1. \A height, r, phase, hash :
         CertifiedIn(S, height, r, phase, hash) => CertifiedIn(S2, height, r, phase, hash)
  BY CertifiedStays
<1>2. \A p : Forged(p, S) => Forged(p, S2)
  BY <1>1 DEF Forged, Decidable
<1>3. \A p : Genuine(p, S, Q) => Genuine(p, S2, Q2)
  BY <1>2 DEF Genuine
<1>4. \A v : Names(v, S, Q) => Names(v, S2, Q2)
  BY <1>3 DEF Names
<1>5. \A v : Credible(v, S, Q) => Credible(v, S2, Q2)
  BY <1>4 DEF Credible
<1>6. \A s : Vouched(s, S, Q) => Vouched(s, S2, Q2)
  BY <1>1, <1>2, <1>3, <1>4 DEF Vouched, VotesHeld, LedgerBacked
<1> QED
  BY <1>2, <1>3, <1>4, <1>5, <1>6

\* What an honest validator tells the others is what it has sent.
LEMMA HonestParcels ==
    ASSUME NEW m \in Honest, NEW t \in NodeState, NEW tm, tm[m] = t.timers,
           NEW S, NEW Q, t.sent_votes \subseteq S, t.sent_proposals \subseteq Q,
           NEW time \in Nat, NEW x \in Parcels(m, t)
    PROVE  Arrivals(x, time) \subseteq Events(tm, S, Q)
<1>1. /\ x.to \in Validator /\ x.kind \in {"TIMEOUT", "PROPOSAL", "VOTE"}
      /\ x.kind = "TIMEOUT" => x.to = m /\ x.body \in t.timers
      /\ x.kind = "PROPOSAL" => x.body \in t.sent_proposals
      /\ x.kind = "VOTE" => x.body \in t.sent_votes
  BY DEF Parcels, told, Honest
<1>2. /\ t.timers \subseteq Heights \X Rounds
      /\ t.sent_proposals \subseteq Proposal /\ t.sent_votes \subseteq Vote
  BY DEF NodeState
<1>3. Sound(x, tm, S, Q)
  <2>1. x.kind = "TIMEOUT" => x.body \in tm[x.to]
    BY <1>1
  <2>2. x.kind = "PROPOSAL" => x.body \in Proposal /\ Genuine(x.body, S, Q)
    BY <1>1, <1>2 DEF Genuine
  <2>3. x.kind = "VOTE" => Credible(x.body, S, Q)
    BY <1>1, <1>2 DEF Credible
  <2> QED
    BY <1>1, <2>1, <2>2, <2>3 DEF Sound
<1>4. x.body \in (Heights \X Rounds) \cup Proposal \cup Vote
  BY <1>1, <1>2
<1> QED
  BY <1>1, <1>3, <1>4 DEF Arrivals, Events, Sound

\* A Byzantine validator tells some of them otherwise.
LEMMA ByzantineParcels ==
    ASSUME NEW m \in Active, NEW t \in NodeState, t.node_id = m, VotesOK(t),
           NEW tm, tm[m] = t.timers, NEW S, NEW Q, Vouched(t, S, Q),
           NEW time \in Nat, NEW x \in Parcels(m, t)
    PROVE  Arrivals(x, time) \subseteq Events(tm, S, Q)
<1>1. m \in Validator
  BY ValidatorAssumption DEF Active
<1>2. /\ t.timers \subseteq Heights \X Rounds
      /\ t.sent_proposals \subseteq Proposal /\ t.sent_votes \subseteq Vote
  BY DEF NodeState
<1>3. ASSUME NEW k \in Validator, NEW p \in t.sent_proposals
      PROVE  /\ told(m, k, "PROPOSAL", p) \in Proposal
             /\ Genuine(told(m, k, "PROPOSAL", p), S, Q)
  <2>1. /\ Forged(p, S) /\ p.block.time = p.round
        /\ p \in Proposal /\ p.block \in Block /\ p.round \in Rounds
    BY <1>2, <1>3 DEF Vouched, Proposal
  <2> DEFINE b == [p.block EXCEPT !.time = @ + 1]
             z == [p EXCEPT !.block.time = @ + 1]
  <2>2. /\ b \in Block /\ b.time = p.block.time + 1 /\ b.height = p.block.height
        /\ b.parent = p.block.parent /\ b.proposer = p.block.proposer
    BY <2>1 DEF Block
  <2>3. z = [p EXCEPT !.block = b]
    BY <2>1 DEF Proposal, Block
  <2> HIDE DEF b, z
  <2>4. z \in Proposal /\ z.block = b /\ z.round = p.round
    BY <2>1, <2>2, <2>3 DEF Proposal
  <2>5. Forged(z, S)
    BY <2>1, <2>2, <2>4 DEF Forged
  <2>6. told(m, k, "PROPOSAL", p) \in {p, z}
    BY DEF told, z
  <2> QED
    BY <2>1, <2>4, <2>5, <2>6 DEF Genuine
<1>4. ASSUME NEW k \in Validator, NEW v \in t.sent_votes
      PROVE  Credible(told(m, k, "VOTE", v), S, Q)
  <2>1. v \in Vote /\ v.validator = m /\ Names(v, S, Q)
    BY <1>2, <1>4 DEF Vouched, VotesOK
  <2> DEFINE w == [v EXCEPT !.hash = Fabricated]
  <2>2. w \in Vote /\ w.validator = m /\ w.hash = Fabricated
    BY <2>1 DEF Vote
  <2>3. told(m, k, "VOTE", v) \in {v, w}
    BY DEF told
  <2> HIDE DEF w
  <2>4. Names(w, S, Q)
    BY <2>2 DEF Names
  <2> QED
    BY <2>1, <2>2, <2>3, <2>4 DEF Credible
<1>5. /\ x.to \in Validator /\ x.kind \in {"TIMEOUT", "PROPOSAL", "VOTE"}
      /\ x.kind = "TIMEOUT" => x.to = m /\ x.body \in t.timers
      /\ x.kind = "PROPOSAL" => x.body \in Proposal /\ Genuine(x.body, S, Q)
      /\ x.kind = "VOTE" => Credible(x.body, S, Q)
  <2>1. CASE x \in [kind : {"TIMEOUT"}, to : {m}, body : t.timers]
    BY <1>1, <2>1
  <2>2. CASE x \in {[kind |-> "PROPOSAL", to |-> k, body |-> told(m, k, "PROPOSAL", p)] :
                      k \in Validator, p \in t.sent_proposals}
    <3>1. PICK k \in Validator, p \in t.sent_proposals :
            x = [kind |-> "PROPOSAL", to |-> k, body |-> told(m, k, "PROPOSAL", p)]
      BY <2>2
    <3>2. x.kind = "PROPOSAL" /\ x.to = k /\ x.body = told(m, k, "PROPOSAL", p)
      BY <3>1
    <3> QED
      BY <1>3, <3>2
  <2>3. CASE x \in {[kind |-> "VOTE", to |-> k, body |-> told(m, k, "VOTE", v)] :
                      k \in Validator, v \in t.sent_votes}
    <3>1. PICK k \in Validator, v \in t.sent_votes :
            x = [kind |-> "VOTE", to |-> k, body |-> told(m, k, "VOTE", v)]
      BY <2>3
    <3>2. x.kind = "VOTE" /\ x.to = k /\ x.body = told(m, k, "VOTE", v)
      BY <3>1
    <3> QED
      BY <1>4, <3>2
  <2> QED
    BY <2>1, <2>2, <2>3 DEF Parcels
<1>6. Sound(x, tm, S, Q) /\ x.body \in (Heights \X Rounds) \cup Proposal \cup Vote
  BY <1>2, <1>5 DEF Sound, Credible
<1> QED
  BY <1>5, <1>6 DEF Arrivals, Events, Sound

-----------------------------------------------------------------------------
(* The engines of a run, and what one turn of the clock makes of one.      *)

\* s is the engine of validator k; on tells whether the run has started.
Fit(s, k, on) ==
    /\ s \in NodeState /\ s.node_id = k /\ VotesOK(s) /\ ChainOK(s)
    /\ IF on /\ ~ s.crashed THEN TimerOK(s) ELSE NotStarted(s) /\ s.sent_proposals = {}

\* The inductive invariant of a run.
SimInv ==
    /\ SafeInv
    /\ \A k \in Validator : Fit(engine(k), k, Started)
    /\ \A m \in Honest : ~ node[m].crashed
    /\ \A b \in Silent : byz[b].crashed
    /\ \A b \in Active : Vouched(byz[b], Sent(node), HonestProposals)
    /\ byz = [b \in Byzantine |-> byz[b]]
    /\ queue \in Seq(Events(Timers, Sent(node), HonestProposals))
    /\ ~ Started => queue = <<>>
    /\ now \in Nat /\ order_index \in Nat

handled(e, s, data) ==
    IF e.kind = "TIMEOUT"
    THEN enter_round([s EXCEPT !.timers = @ \ {e.body}], s.round + 1, data)
    ELSE IF e.kind = "PROPOSAL" THEN on_proposal(s, e.body, data)
    ELSE on_vote(s, e.body, data)

\* The event e takes its validator from s to t.
Turned(e, s, t) ==
    /\ queue # <<>> /\ e = Head(queue) /\ s = engine(e.to)
    /\ now' = e.time /\ stabilized' = stabilized
    /\ node' = IF e.to \in Honest THEN [node EXCEPT ![e.to] = t] ELSE node
    /\ byz' = IF e.to \in Honest THEN byz ELSE [byz EXCEPT ![e.to] = t]
    /\ Send(posted(e.to, s, t), e.time, Tail(queue), kept(Tail(queue), e.to, t))
    /\ t.round <= MaxRound
    /\ \/ t = s /\ (s.height = MaxHeight \/ (s.crashed /\ e.kind # "TIMEOUT"))
       \/ /\ s.height # MaxHeight /\ (~ s.crashed \/ e.kind = "TIMEOUT")
          /\ \E data \in Data : t = handled(e, s, data)

LEMMA TurnTaken ==
    ASSUME TimeoutTurn \/ ProposalTurn \/ VoteTurn
    PROVE  \E e, s, t : Turned(e, s, t)
<1>1. CASE TimeoutTurn
  <2> DEFINE after(e, s, data) ==
               IF s.height = MaxHeight THEN s
               ELSE enter_round([s EXCEPT !.timers = @ \ {e.body}], s.round + 1, data)
  <2>1. queue # <<>> /\ Head(queue).kind = "TIMEOUT" /\ stabilized' = stabilized
    BY <1>1 DEF TimeoutTurn, Turn
  <2>2. PICK e \in {Head(queue)}, data \in Data :
         \E s \in {engine(e.to)} : \E t \in {after(e, s, data)} :
            /\ InBounds(t)
            /\ now' = e.time
            /\ node' = IF e.to \in Honest THEN [node EXCEPT ![e.to] = t] ELSE node
            /\ byz' = IF e.to \in Honest THEN byz ELSE [byz EXCEPT ![e.to] = t]
            /\ \E L \in {posted(e.to, s, t)} :
                  Send(L, e.time, Tail(queue), kept(Tail(queue), e.to, t))
    BY <1>1 DEF TimeoutTurn, Turn
  <2>3. PICK s \in {engine(e.to)} : \E t \in {after(e, s, data)} :
            /\ InBounds(t)
            /\ now' = e.time
            /\ node' = IF e.to \in Honest THEN [node EXCEPT ![e.to] = t] ELSE node
            /\ byz' = IF e.to \in Honest THEN byz ELSE [byz EXCEPT ![e.to] = t]
            /\ \E L \in {posted(e.to, s, t)} :
                  Send(L, e.time, Tail(queue), kept(Tail(queue), e.to, t))
    BY <2>2
  <2> DEFINE t == after(e, s, data)
  <2>4. /\ InBounds(t)
        /\ now' = e.time
        /\ node' = IF e.to \in Honest THEN [node EXCEPT ![e.to] = t] ELSE node
        /\ byz' = IF e.to \in Honest THEN byz ELSE [byz EXCEPT ![e.to] = t]
        /\ Send(posted(e.to, s, t), e.time, Tail(queue), kept(Tail(queue), e.to, t))
    BY <2>3
  <2>5. \/ t = s /\ (s.height = MaxHeight \/ (s.crashed /\ e.kind # "TIMEOUT"))
        \/ /\ s.height # MaxHeight /\ (~ s.crashed \/ e.kind = "TIMEOUT")
           /\ t = handled(e, s, data)
    BY <2>1, <2>2 DEF handled
  <2> HIDE DEF t
  <2> QED
    BY <2>1, <2>2, <2>3, <2>4, <2>5 DEF Turned, InBounds
<1>2. CASE ProposalTurn
  <2> DEFINE after(e, s, data) ==
               IF s.height = MaxHeight THEN s
               ELSE IF s.crashed THEN s ELSE on_proposal(s, e.body, data)
  <2>1. queue # <<>> /\ Head(queue).kind = "PROPOSAL" /\ stabilized' = stabilized
    BY <1>2 DEF ProposalTurn, Turn
  <2>2. PICK e \in {Head(queue)}, data \in Data :
         \E s \in {engine(e.to)} : \E t \in {after(e, s, data)} :
            /\ InBounds(t)
            /\ now' = e.time
            /\ node' = IF e.to \in Honest THEN [node EXCEPT ![e.to] = t] ELSE node
            /\ byz' = IF e.to \in Honest THEN byz ELSE [byz EXCEPT ![e.to] = t]
            /\ \E L \in {posted(e.to, s, t)} :
                  Send(L, e.time, Tail(queue), kept(Tail(queue), e.to, t))
    BY <1>2 DEF ProposalTurn, Turn
  <2>3. PICK s \in {engine(e.to)} : \E t \in {after(e, s, data)} :
            /\ InBounds(t)
            /\ now' = e.time
            /\ node' = IF e.to \in Honest THEN [node EXCEPT ![e.to] = t] ELSE node
            /\ byz' = IF e.to \in Honest THEN byz ELSE [byz EXCEPT ![e.to] = t]
            /\ \E L \in {posted(e.to, s, t)} :
                  Send(L, e.time, Tail(queue), kept(Tail(queue), e.to, t))
    BY <2>2
  <2> DEFINE t == after(e, s, data)
  <2>4. /\ InBounds(t)
        /\ now' = e.time
        /\ node' = IF e.to \in Honest THEN [node EXCEPT ![e.to] = t] ELSE node
        /\ byz' = IF e.to \in Honest THEN byz ELSE [byz EXCEPT ![e.to] = t]
        /\ Send(posted(e.to, s, t), e.time, Tail(queue), kept(Tail(queue), e.to, t))
    BY <2>3
  <2>5. \/ t = s /\ (s.height = MaxHeight \/ (s.crashed /\ e.kind # "TIMEOUT"))
        \/ /\ s.height # MaxHeight /\ (~ s.crashed \/ e.kind = "TIMEOUT")
           /\ t = handled(e, s, data)
    BY <2>1, <2>2 DEF handled
  <2> HIDE DEF t
  <2> QED
    BY <2>1, <2>2, <2>3, <2>4, <2>5 DEF Turned, InBounds
<1>3. CASE VoteTurn
  <2> DEFINE after(e, s, data) ==
               IF s.height = MaxHeight THEN s
               ELSE IF s.crashed THEN s ELSE on_vote(s, e.body, data)
  <2>1. queue # <<>> /\ Head(queue).kind = "VOTE" /\ stabilized' = stabilized
    BY <1>3 DEF VoteTurn, Turn
  <2>2. PICK e \in {Head(queue)}, data \in Data :
         \E s \in {engine(e.to)} : \E t \in {after(e, s, data)} :
            /\ InBounds(t)
            /\ now' = e.time
            /\ node' = IF e.to \in Honest THEN [node EXCEPT ![e.to] = t] ELSE node
            /\ byz' = IF e.to \in Honest THEN byz ELSE [byz EXCEPT ![e.to] = t]
            /\ \E L \in {posted(e.to, s, t)} :
                  Send(L, e.time, Tail(queue), kept(Tail(queue), e.to, t))
    BY <1>3 DEF VoteTurn, Turn
  <2>3. PICK s \in {engine(e.to)} : \E t \in {after(e, s, data)} :
            /\ InBounds(t)
            /\ now' = e.time
            /\ node' = IF e.to \in Honest THEN [node EXCEPT ![e.to] = t] ELSE node
            /\ byz' = IF e.to \in Honest THEN byz ELSE [byz EXCEPT ![e.to] = t]
            /\ \E L \in {posted(e.to, s, t)} :
                  Send(L, e.time, Tail(queue), kept(Tail(queue), e.to, t))
    BY <2>2
  <2> DEFINE t == after(e, s, data)
  <2>4. /\ InBounds(t)
        /\ now' = e.time
        /\ node' = IF e.to \in Honest THEN [node EXCEPT ![e.to] = t] ELSE node
        /\ byz' = IF e.to \in Honest THEN byz ELSE [byz EXCEPT ![e.to] = t]
        /\ Send(posted(e.to, s, t), e.time, Tail(queue), kept(Tail(queue), e.to, t))
    BY <2>3
  <2>5. \/ t = s /\ (s.height = MaxHeight \/ (s.crashed /\ e.kind # "TIMEOUT"))
        \/ /\ s.height # MaxHeight /\ (~ s.crashed \/ e.kind = "TIMEOUT")
           /\ t = handled(e, s, data)
    BY <2>1, <2>2 DEF handled
  <2> HIDE DEF t
  <2> QED
    BY <2>1, <2>2, <2>3, <2>4, <2>5 DEF Turned, InBounds
<1> QED
  BY <1>1, <1>2, <1>3

\* What the timer, a proposal or a vote makes of an engine.
LEMMA Served ==
    ASSUME NEW s, Good(s), NEW e, NEW data \in Data, s.height < MaxHeight, NEW S, NEW Q,
           NEW tm, tm[e.to] = s.timers, e \in Events(tm, S, Q)
    PROVE  /\ Outcome(s, handled(e, s, data)) /\ Speaks(s, handled(e, s, data), S, Q)
           /\ e.kind = "TIMEOUT" => handled(e, s, data).round = s.round + 1
<1>1. /\ s \in NodeState /\ VotesOK(s) /\ ChainOK(s) /\ TimerOK(s)
  BY DEF Good
<1>2. CASE e.kind = "TIMEOUT"
  <2> DEFINE u == [s EXCEPT !.timers = @ \ {e.body}]
             t == enter_round(u, u.round + 1, data)
  <2>1. s.timers \ {e.body} \in SUBSET (Heights \X Rounds)
    BY <1>1 DEF NodeState
  <2>2. /\ u \in NodeState /\ u.timers = s.timers \ {e.body}
        /\ u.sent_votes = s.sent_votes /\ u.votes = s.votes
        /\ u.timeout_event = s.timeout_event
        /\ u.height = s.height /\ u.round = s.round
        /\ u.node_id = s.node_id /\ u.crashed = s.crashed
        /\ u.locked_round = s.locked_round /\ u.valid_round = s.valid_round
        /\ u.locked_block = s.locked_block /\ u.valid_block = s.valid_block
        /\ u.ledger = s.ledger /\ u.proposals = s.proposals
        /\ u.sent_proposals = s.sent_proposals
    BY <1>1, <2>1, SMTT(30) DEF NodeState
  <2>3. handled(e, s, data) = t
    BY <1>2, <2>2 DEF handled
  <2> HIDE DEF u
  <2>4. VotesOK(u) /\ ChainOK(u) /\ u.timers \subseteq {u.timeout_event}
    BY <1>1, <2>2 DEF VotesOK, ChainOK, Extends, parent_hash, TimerOK
  <2>5. Outcome(u, t) /\ Speaks(u, t, S, Q) /\ t.round = u.round + 1
    BY <2>2, <2>4, NextRound, NextRoundSpeaks, EnterRoundRound
  <2>6. Forward(s, u)
    BY <1>1, <2>2, BoundAssumption, SMTT(30) DEF Forward, NodeState, Heights, Rounds
  <2>7. Quiet(s, u, S, Q)
    BY <2>2 DEF Quiet, Vouches, Vouched, VotesHeld, LedgerBacked
  <2> HIDE DEF t
  <2> QED
    BY <1>1, <2>2, <2>3, <2>5, <2>6, <2>7, Compose, SpeaksOn
<1>3. CASE e.kind = "PROPOSAL"
  <2>1. e.body \in Proposal /\ Genuine(e.body, S, Q)
    BY <1>3 DEF Events, Sound
  <2> QED
    BY <1>3, <2>1, OnProposal, OnProposalSpeaks DEF handled
<1>4. CASE e.kind = "VOTE"
  <2>1. e.body \in Vote /\ (e.body.validator \in Byzantine \/ e.body \in S)
    BY <1>4 DEF Events, Sound, Credible, Active
  <2> QED
    BY <1>4, <2>1, OnVote, OnVoteSpeaks DEF handled
<1> QED
  BY <1>2, <1>3, <1>4 DEF Events

LEMMA TurnedFit ==
    ASSUME SimInv, NEW e, NEW s, NEW t, Turned(e, s, t)
    PROVE  /\ Started /\ e \in Events(Timers, Sent(node), HonestProposals)
           /\ Tail(queue) \in Seq(Events(Timers, Sent(node), HonestProposals))
           /\ e.to \in Validator /\ e.time \in Nat
           /\ Fit(s, e.to, TRUE) /\ Fit(t, e.to, TRUE)
           /\ Keeps(s, t) /\ t.crashed = s.crashed /\ t.height >= s.height
           /\ e.to \in Active => Vouched(t, Sent(node), HonestProposals)
           /\ t # s => Good(s) /\ s.height < MaxHeight /\ Outcome(s, t)
           /\ e.kind = "TIMEOUT" => t.round = s.round + 1 \/ s.height = MaxHeight
           /\ e.kind = "TIMEOUT" => TimerOK(s) /\ s.timers = {e.body}
<1> DEFINE S == Sent(node)
           Q == HonestProposals
           E == Events(Timers, S, Q)
<1>1. e \in E /\ Tail(queue) \in Seq(E) /\ Started
  <2>1. queue \in Seq(E) /\ queue # <<>> /\ e = Head(queue) /\ Started
    BY DEF SimInv, Turned
  <2> HIDE DEF E
  <2> QED
    BY <2>1
<1>2. e.to \in Validator /\ e.time \in Nat /\ s = engine(e.to) /\ Timers[e.to] = s.timers
  BY <1>1 DEF Events, Turned, Timers
<1>3. Fit(s, e.to, TRUE)
  BY <1>1, <1>2 DEF SimInv
<1>4. e.kind = "TIMEOUT" => e.body \in s.timers
  BY <1>1, <1>2 DEF Events, Sound
<1>5. e.kind = "TIMEOUT" => TimerOK(s) /\ s.timers = {e.body} /\ ~ s.crashed
  BY <1>3, <1>4 DEF Fit, NotStarted, TimerOK
<1>6. e.to \in Active => s.node_id \in Active /\ Vouched(s, S, Q)
  BY <1>2, <1>3 DEF SimInv, Fit, Active, engine, Honest
<1>7. s.height \in Int /\ MaxHeight \in Int /\ s.height <= MaxHeight
  BY <1>3, BoundAssumption DEF Fit, NodeState, Heights
<1>8. CASE t = s
  <2>1. Keeps(s, s) /\ s.height >= s.height
    BY <1>7 DEF Keeps
  <2>2. e.kind = "TIMEOUT" => t.round = s.round + 1 \/ s.height = MaxHeight
    <3> SUFFICES ASSUME e.kind = "TIMEOUT", s.height # MaxHeight PROVE t.round = s.round + 1
      OBVIOUS
    <3>1. Good(s) /\ s.height < MaxHeight
      BY <1>3, <1>5, <1>7 DEF Fit, Good
    <3>2. PICK data \in Data : t = handled(e, s, data)
      BY DEF Turned
    <3> QED
      BY <1>1, <1>2, <3>1, <3>2, Served
  <2> HIDE DEF E, S, Q
  <2>3. Fit(t, e.to, TRUE) /\ Keeps(s, t) /\ t.crashed = s.crashed /\ t.height >= s.height
    BY <1>3, <1>8, <2>1
  <2>4. e.to \in Active => Vouched(t, S, Q)
    BY <1>6, <1>8
  <2> QED
    BY <1>1, <1>2, <1>3, <1>5, <1>8, <2>2, <2>3, <2>4 DEF E, S, Q
<1>9. CASE t # s
  <2>1. /\ s.height < MaxHeight /\ ~ s.crashed /\ t.round <= MaxRound
        /\ \E data \in Data : t = handled(e, s, data)
    BY <1>5, <1>7, <1>9 DEF Turned
  <2>2. Good(s)
    BY <1>3, <2>1 DEF Fit, Good
  <2>3. PICK data \in Data : t = handled(e, s, data)
    BY <2>1
  <2>4. /\ Outcome(s, t) /\ Speaks(s, t, S, Q)
        /\ e.kind = "TIMEOUT" => t.round = s.round + 1
    BY <1>1, <1>2, <2>1, <2>2, <2>3, Served
  <2>5. /\ Good(t) /\ Forward(s, t) /\ t.node_id = s.node_id /\ t.crashed = s.crashed
        /\ Keeps(s, t) /\ Vouches(s, t, S, Q)
    BY <2>1, <2>4 DEF Outcome, Speaks
  <2>6. Fit(t, e.to, TRUE)
    BY <1>3, <2>1, <2>5 DEF Fit, Good
  <2>7. t.height >= s.height
    <3>1. t.height \in Int
      BY <2>5, NodeNumbers DEF Good
    <3> QED
      BY <1>7, <2>5, <3>1 DEF Forward
  <2>8. e.to \in Active => Vouched(t, S, Q)
    BY <1>6, <2>5 DEF Vouches
  <2> QED
    BY <1>1, <1>2, <1>3, <1>5, <2>1, <2>2, <2>4, <2>5, <2>6, <2>7, <2>8
<1> QED
  BY <1>8, <1>9

-----------------------------------------------------------------------------
(* The turn of an honest validator is a step of Engine.                    *)

\* Only one chain of a length can have been decided: what a Byzantine validator
\* builds on is what an honest one at that height has finalized.
LEMMA OneParent ==
    ASSUME FewFaults, SafeInv, NEW m \in Honest, NEW hash \in Hash,
           Len(hash) = node[m].height, Decidable(hash, Sent(node))
    PROVE  hash = parent_hash(node[m])
<1> DEFINE parent == parent_hash(node[m])
           S == Sent(node)
<1>1. /\ node[m] \in NodeState /\ ChainOK(node[m]) /\ LedgerBacked(node[m], S)
      /\ Safe(node)
  BY DEF SafeInv, Safe, Backed
<1>2. parent \in Hash /\ Len(parent) = node[m].height /\ Decidable(parent, S)
  BY <1>1, ParentDecidable
<1>3. NIL \notin Hash /\ Hash = Seq(Header)
  BY SentinelAssumption DEF Hash
<1> HIDE DEF parent, S
<1>4. hash = <<>> <=> parent = <<>>
  <2> DEFINE H == Header
  <2> HIDE DEF H
  <2>1. \A x \in Seq(H) : x = <<>> <=> Len(x) = 0
    OBVIOUS
  <2> QED
    BY <1>2, <1>3, <2>1 DEF H
<1>5. CASE hash # <<>>
  <2>1. PICK r \in Rounds : CertifiedIn(S, Len(hash) - 1, r, "PRECOMMIT", hash)
    BY <1>5 DEF Decidable, S
  <2>2. PICK q \in Rounds : CertifiedIn(S, Len(parent) - 1, q, "PRECOMMIT", parent)
    BY <1>2, <1>4, <1>5 DEF Decidable
  <2>3. CertifiedIn(S, Len(hash) - 1, q, "PRECOMMIT", parent)
    BY <1>2, <2>2
  <2> QED
    BY <1>1, <1>2, <1>3, <2>1, <2>3, OneDecision DEF S, parent
<1> QED
  BY <1>4, <1>5 DEF parent

\* A forged proposal that an honest validator looks at is one Engine knows.
LEMMA ForgedIsProposed ==
    ASSUME FewFaults, SafeInv, NEW m \in Honest, NEW p \in Proposal,
           Genuine(p, Sent(node), HonestProposals), p.block.height = node[m].height
    PROVE  p \in Proposals
<1>1. CASE p \in HonestProposals
  BY <1>1 DEF Proposals
<1>2. CASE Forged(p, Sent(node))
  <2>1. p.block \in Block /\ p.round \in Rounds /\ p.block.parent \in Hash /\ p.block.data \in Data
    BY DEF Proposal, Block
  <2>2. p.block.parent = parent_hash(node[m])
    BY <1>2, <2>1, OneParent DEF Forged
  <2> DEFINE x == <<p.round, parent_hash(node[m])>>
  <2>3. PICK late \in {0, 1} : p.block.time = p.round + late
    <3>1. p.round \in Int /\ p.round + 0 = p.round
      BY <2>1, BoundAssumption DEF Rounds
    <3>2. p.block.time = p.round + 0 \/ p.block.time = p.round + 1
      BY <1>2, <3>1 DEF Forged
    <3> QED
      BY <3>2
  <2>4. /\ x \in Rounds \X {parent_hash(node[k]) : k \in Honest}
        /\ x[1] = p.round /\ x[2] = p.block.parent
    BY <2>1, <2>2
  <2>5. Len(x[2]) = p.block.height
    BY <1>2, <2>4 DEF Forged
  <2> HIDE DEF x
  <2>6. proposer_for(Len(x[2]), x[1]) = p.block.proposer /\ p.block.proposer \in Byzantine \ Silent
    BY <1>2, <2>4, <2>5 DEF Forged, Active
  <2>7. p = [round |-> x[1],
             block |-> [height |-> Len(x[2]), parent |-> x[2],
                        proposer |-> proposer_for(Len(x[2]), x[1]),
                        time |-> x[1] + late, data |-> p.block.data]]
    <3>1. p.block = [height |-> p.block.height, parent |-> p.block.parent,
                     proposer |-> p.block.proposer, time |-> p.block.time,
                     data |-> p.block.data]
      BY <2>1 DEF Block
    <3>2. p = [round |-> p.round, block |-> p.block]
      BY DEF Proposal
    <3> QED
      BY <2>3, <2>4, <2>5, <2>6, <3>1, <3>2
  <2>8. p \in ByzantineProposals
    BY <2>1, <2>4, <2>6, <2>7 DEF ByzantineProposals
  <2> QED
    BY <2>8 DEF Proposals
<1> QED
  BY <1>1, <1>2 DEF Genuine

\* So is the vote of a Byzantine validator that an honest one looks at.
LEMMA CredibleIsVoted ==
    ASSUME FewFaults, SafeInv, NEW m \in Honest, NEW v,
           Credible(v, Sent(node), HonestProposals), v.height = node[m].height
    PROVE  v \in Votes
<1>1. v \in Vote
  BY DEF Credible
<1>2. CASE v \in Sent(node)
  BY <1>2 DEF Sent, Votes, HonestVotes
<1>3. CASE v.validator \in Active /\ Names(v, Sent(node), HonestProposals)
  <2>1. v.hash \in {block_hash(p.block) : p \in Proposals} \cup {NIL, Fabricated}
    BY <1>3, ForgedIsProposed DEF Names
  <2>2. v \in [validator : Byzantine \ Silent, height : Heights, round : Rounds, phase : Phase,
               hash : {block_hash(p.block) : p \in Proposals} \cup {NIL, Fabricated}]
    BY <1>1, <1>3, <2>1 DEF Vote, Active
  <2> QED
    BY <2>2 DEF Votes, ByzantineVotes
<1> QED
  BY <1>2, <1>3 DEF Credible

LEMMA TurnedStep ==
    ASSUME FewFaults, SimInv, NEW e, NEW s, NEW t, Turned(e, s, t)
    PROVE  [Next]_node
<1>1. CASE e.to \notin Honest
  BY <1>1 DEF Turned
<1>2. CASE e.to \in Honest /\ t = s
  BY <1>2 DEF Turned, engine, SimInv, SafeInv, Inv, TypeOK
<1>3. CASE e.to \in Honest /\ t # s
  <2> DEFINE m == e.to
  <2>1. /\ m \in Honest /\ s = node[m] /\ ~ s.crashed
        /\ node' = [node EXCEPT ![m] = t] /\ t.round <= MaxRound
    BY <1>3 DEF Turned, engine, SimInv
  <2>2. Running(m)
    BY <2>1, <1>3, TurnedFit, ZenonT(60) DEF Running
  <2>3. PICK data \in Data : t = handled(e, s, data)
    BY <1>3 DEF Turned
  <2>4. Become(m, t)
    BY <2>1 DEF Become, InBounds
  <2>5. e \in Events(Timers, Sent(node), HonestProposals) /\ Timers[m] = s.timers
    BY <2>1, TurnedFit DEF Timers, Turned
  <2> HIDE DEF m
  <2>6. CASE e.kind = "TIMEOUT"
    <3>1. e.body \in s.timers
      BY <2>5, <2>6 DEF Events, Sound, m
    <3>2. [s EXCEPT !.timers = @ \ {e.body}].round = s.round
      BY <2>1 DEF SimInv, SafeInv, Inv, TypeOK, NodeState
    <3>3. t = enter_round([s EXCEPT !.timers = @ \ {e.body}],
                          [s EXCEPT !.timers = @ \ {e.body}].round + 1, data)
      BY <2>3, <2>6, <3>2 DEF handled
    <3>4. RoundTimeout(m)
      BY <2>1, <2>2, <2>4, <3>1, <3>3 DEF RoundTimeout
    <3> QED
      BY <2>1, <3>4 DEF Next
  <2>7. CASE e.kind = "PROPOSAL"
    <3> DEFINE p == e.body
    <3>1. /\ p \in Proposal /\ Genuine(p, Sent(node), HonestProposals)
          /\ t = on_proposal(s, p, data)
      BY <2>3, <2>5, <2>7 DEF Events, Sound, handled
    <3> HIDE DEF p
    <3>2. p.block.height = s.height
      BY <1>3, <3>1 DEF on_proposal, accept_header
    <3>3. p \in Proposals
      BY <2>1, <3>1, <3>2, ForgedIsProposed DEF SimInv
    <3>4. p \in AsHeld(p)
      BY <3>1 DEF AsHeld, Proposal, Block
    <3>5. DeliverProposal(m)
      BY <2>1, <2>2, <2>4, <3>1, <3>3, <3>4 DEF DeliverProposal
    <3> QED
      BY <2>1, <3>5 DEF Next
  <2>8. CASE e.kind = "VOTE"
    <3> DEFINE v == e.body
    <3>1. Credible(v, Sent(node), HonestProposals) /\ t = on_vote(s, v, data)
      BY <2>3, <2>5, <2>8 DEF Events, Sound, handled
    <3> HIDE DEF v
    <3>2. v.height = s.height
      BY <1>3, <3>1 DEF on_vote
    <3>3. v \in Votes
      BY <2>1, <3>1, <3>2, CredibleIsVoted DEF SimInv
    <3>4. DeliverVote(m)
      BY <2>1, <2>2, <2>4, <3>1, <3>3 DEF DeliverVote
    <3> QED
      BY <2>1, <3>4 DEF Next
  <2> QED
    BY <2>5, <2>6, <2>7, <2>8 DEF Events
<1> QED
  BY <1>1, <1>2, <1>3

-----------------------------------------------------------------------------
(* The invariant.                                                          *)

\* Whatever a validator sends in state t can be received.
LEMMA ParcelsSound ==
    ASSUME NEW m \in Validator, NEW t, Fit(t, m, TRUE), NEW tm, tm[m] = t.timers,
           NEW S, NEW Q,
           m \in Honest => t.sent_votes \subseteq S /\ t.sent_proposals \subseteq Q,
           m \in Active => Vouched(t, S, Q), m \in Silent => t.crashed,
           NEW time \in Nat, NEW x \in Parcels(m, t)
    PROVE  Arrivals(x, time) \subseteq Events(tm, S, Q)
<1>1. t \in NodeState /\ t.node_id = m /\ VotesOK(t)
  BY DEF Fit
<1>2. m \in Honest \/ m \in Active \/ m \in Silent
  BY DEF Honest, Active
<1>3. CASE m \in Honest
  BY <1>1, <1>3, HonestParcels
<1>4. CASE m \in Active
  BY <1>1, <1>4, ByzantineParcels
<1>5. CASE m \in Silent
  <2>1. t.timers = {} /\ t.sent_proposals = {} /\ t.sent_votes = {}
    BY <1>5 DEF Fit, NotStarted
  <2> QED
    BY <2>1 DEF Parcels
<1> QED
  BY <1>2, <1>3, <1>4, <1>5

LEMMA KeptProposals ==
    ASSUME NEW s, NEW t, Keeps(s, t)
    PROVE  s.sent_votes \subseteq t.sent_votes /\ s.sent_proposals \subseteq t.sent_proposals
BY DEF Keeps

\* The engines after a step that takes each of them forward.
LEMMA EnginesAfter ==
    ASSUME SimInv, SafeInv', Started', byz' = [b \in Byzantine |-> byz'[b]],
           \A k \in Validator : /\ Fit(engine(k)', k, TRUE) /\ Keeps(engine(k), engine(k)')
                                /\ engine(k)'.crashed = engine(k).crashed,
           \A b \in Active : Vouched(byz'[b], Sent(node), HonestProposals),
           queue' \in Seq(Events(Timers', Sent(node'), HonestProposals')),
           now' \in Nat, order_index' \in Nat
    PROVE  SimInv'
<1>1. \A m \in Honest : m \in Validator /\ engine(m) = node[m] /\ engine(m)' = node'[m]
  BY DEF engine, Honest
<1>2. \A b \in Byzantine : b \in Validator /\ engine(b) = byz[b] /\ engine(b)' = byz'[b]
  BY ValidatorAssumption DEF engine, Honest
<1>3. Sent(node) \subseteq Sent(node') /\ HonestProposals \subseteq HonestProposals'
  <2>1. \A m \in Honest : /\ node[m].sent_votes \subseteq node'[m].sent_votes
                           /\ node[m].sent_proposals \subseteq node'[m].sent_proposals
    <3> SUFFICES ASSUME NEW m \in Honest
                 PROVE  /\ node[m].sent_votes \subseteq node'[m].sent_votes
                        /\ node[m].sent_proposals \subseteq node'[m].sent_proposals
      OBVIOUS
    <3>1. Keeps(engine(m), engine(m)')
      BY <1>1
    <3>2. Keeps(node[m], node'[m])
      BY <1>1, <3>1
    <3> QED
      BY <3>2, KeptProposals
  <2> QED
    BY <2>1 DEF Sent, HonestProposals
<1>4. \A m \in Honest : ~ node'[m].crashed
  BY <1>1, ZenonT(60) DEF SimInv
<1>5. \A b \in Silent : byz'[b].crashed
  <2> SUFFICES ASSUME NEW b \in Silent PROVE byz'[b].crashed
    OBVIOUS
  <2>1. b \in Byzantine /\ byz[b].crashed
    BY ValidatorAssumption DEF SimInv
  <2>2. engine(b)'.crashed = engine(b).crashed
    BY <1>2, <2>1
  <2> QED
    BY <1>2, <2>1, <2>2
<1>6. \A b \in Active : Vouched(byz'[b], Sent(node'), HonestProposals')
  BY <1>3, SoundStays
<1> QED
  BY <1>4, <1>5, <1>6 DEF SimInv

\* What they send can be received.
LEMMA SentSound ==
    ASSUME SimInv, NEW S, NEW Q, NEW tm, NEW k \in Validator, NEW t,
           Fit(t, k, TRUE), t.crashed = engine(k).crashed, tm[k] = t.timers,
           k \in Honest => t.sent_votes \subseteq S /\ t.sent_proposals \subseteq Q,
           Sent(node) \subseteq S, HonestProposals \subseteq Q,
           k \in Active => Vouched(t, Sent(node), HonestProposals),
           NEW time \in Nat, NEW x \in Parcels(k, t)
    PROVE  Arrivals(x, time) \subseteq Events(tm, S, Q)
<1>1. k \in Active => Vouched(t, S, Q)
  BY SoundStays
<1>2. k \in Silent => t.crashed
  BY ValidatorAssumption DEF SimInv, engine, Honest
<1> QED
  BY <1>1, <1>2, ParcelsSound

LEMMA TurnedSends ==
    ASSUME FewFaults, SimInv, NEW e, NEW s, NEW t, Turned(e, s, t)
    PROVE  /\ SafeInv' /\ Started' /\ byz' = [b \in Byzantine |-> byz'[b]]
           /\ s = engine(e.to)
           /\ \A k \in Validator :
                 /\ engine(k)' = IF k = e.to THEN t ELSE engine(k)
                 /\ Fit(engine(k)', k, TRUE) /\ Keeps(engine(k), engine(k)')
                 /\ engine(k)'.crashed = engine(k).crashed
                 /\ Timers'[k] = IF k = e.to THEN t.timers ELSE Timers[k]
           /\ \A b \in Active : Vouched(byz'[b], Sent(node), HonestProposals)
           /\ Sent(node) \subseteq Sent(node') /\ HonestProposals \subseteq HonestProposals'
           /\ posted(e.to, s, t) \in Seq(Parcels(e.to, t))
           /\ \A x \in Parcels(e.to, t) :
                 Arrivals(x, e.time) \subseteq Events(Timers', Sent(node'), HonestProposals')
<1> DEFINE m == e.to
           S == Sent(node)
           Q == HonestProposals
           E == Events(Timers, S, Q)
           E2 == Events(Timers', Sent(node'), HonestProposals')
           L == posted(m, s, t)
           q == Tail(queue)
<1>1. /\ Started /\ m \in Validator /\ e.time \in Nat /\ q \in Seq(E)
      /\ Fit(s, m, TRUE) /\ Fit(t, m, TRUE) /\ Keeps(s, t) /\ t.crashed = s.crashed
      /\ m \in Active => Vouched(t, S, Q)
  BY TurnedFit
<1>2. SafeInv'
  BY TurnedStep, SafeInvStep DEF SimInv
<1>3. s = engine(m) /\ \A k \in Validator : engine(k)' = IF k = m THEN t ELSE engine(k)
  BY <1>1 DEF Turned, engine, Honest, SimInv, SafeInv, Inv, TypeOK
<1>4. byz' = [b \in Byzantine |-> byz'[b]]
  BY DEF Turned, SimInv
<1>5. Started'
  <2>1. PICK k \in Honest : node[k].timers # {}
    BY <1>1 DEF Started
  <2>2. m \in Honest => ~ t.crashed
    BY <1>1, <1>3 DEF engine, SimInv
  <2>3. m \in Honest => t.timers # {}
    BY <1>1, <2>2 DEF Fit, TimerOK
  <2>4. node'[k].timers # {}
    BY <1>3, <2>1, <2>3 DEF engine, Honest
  <2> QED
    BY <2>1, <2>4 DEF Started
<1>6. ASSUME NEW k \in Validator
      PROVE  /\ Fit(engine(k)', k, TRUE) /\ Keeps(engine(k), engine(k)')
             /\ engine(k)'.crashed = engine(k).crashed
  <2>1. Keeps(engine(k), engine(k))
    BY DEF Keeps
  <2>2. Fit(engine(k), k, TRUE)
    BY <1>1 DEF SimInv
  <2> QED
    BY <1>1, <1>3, <2>1, <2>2
<1>7. \A b \in Active : Vouched(byz'[b], S, Q)
  <2> SUFFICES ASSUME NEW b \in Active PROVE Vouched(byz'[b], S, Q)
    OBVIOUS
  <2>1. b \in Validator /\ engine(b) = byz[b] /\ engine(b)' = byz'[b]
    BY ValidatorAssumption DEF engine, Honest, Active
  <2> QED
    BY <1>1, <1>3, <2>1 DEF SimInv
<1>8. /\ S \subseteq Sent(node') /\ Q \subseteq HonestProposals'
      /\ m \in Honest => /\ t.sent_votes \subseteq Sent(node')
                         /\ t.sent_proposals \subseteq HonestProposals'
  <2>1. \A k \in Honest : k \in Validator /\ engine(k) = node[k] /\ engine(k)' = node'[k]
    BY DEF engine, Honest
  <2>2. \A k \in Honest : /\ node[k].sent_votes \subseteq node'[k].sent_votes
                           /\ node[k].sent_proposals \subseteq node'[k].sent_proposals
    <3> SUFFICES ASSUME NEW k \in Honest
                 PROVE  /\ node[k].sent_votes \subseteq node'[k].sent_votes
                        /\ node[k].sent_proposals \subseteq node'[k].sent_proposals
      OBVIOUS
    <3>1. Keeps(engine(k), engine(k)')
      BY <1>6, <2>1
    <3>2. Keeps(node[k], node'[k])
      BY <2>1, <3>1
    <3> QED
      BY <3>2, KeptProposals
  <2>3. m \in Honest => node'[m] = t
    BY <1>1, <1>3, <2>1
  <2> QED
    BY <2>2, <2>3 DEF Sent, HonestProposals
<1>9. \A k \in Validator : Timers'[k] = IF k = m THEN t.timers ELSE Timers[k]
  BY <1>3 DEF Timers
<1>10. L \in Seq(Parcels(m, t))
  BY <1>1, PostedType DEF Fit
<1>11. \A x \in Parcels(m, t) : Arrivals(x, e.time) \subseteq E2
  BY <1>1, <1>3, <1>8, <1>9, SentSound
<1> QED
  BY <1>2, <1>3, <1>4, <1>5, <1>6, <1>7, <1>8, <1>9, <1>10, <1>11

LEMMA TurnedInv ==
    ASSUME FewFaults, SimInv, NEW e, NEW s, NEW t, Turned(e, s, t)
    PROVE  SimInv'
<1> DEFINE m == e.to
           S == Sent(node)
           Q == HonestProposals
           E == Events(Timers, S, Q)
           S2 == Sent(node')
           Q2 == HonestProposals'
           E2 == Events(Timers', S2, Q2)
           L == posted(m, s, t)
           q == Tail(queue)
           I == kept(q, m, t)
<1>1. m \in Validator /\ e.time \in Nat /\ q \in Seq(E)
  BY TurnedFit
<1>2. /\ \A k \in Validator : Timers'[k] = IF k = m THEN t.timers ELSE Timers[k]
      /\ S \subseteq S2 /\ Q \subseteq Q2
      /\ L \in Seq(Parcels(m, t)) /\ \A x \in Parcels(m, t) : Arrivals(x, e.time) \subseteq E2
  BY TurnedSends
<1>3. I \in SUBSET DOMAIN q
  BY DEF kept
<1>4. ASSUME NEW i \in I
       PROVE  q[i] \in E2
  <2>1. q[i] \in E
    BY <1>1, <1>3
  <2>2. q[i].kind # "TIMEOUT" \/ q[i].to # m \/ q[i].body \in t.timers
    BY <1>4 DEF kept
  <2> DEFINE x == q[i]
  <2> HIDE DEF q, I
  <2>3. Sound(x, Timers', S2, Q2)
    <3>1. x.to \in Validator /\ Sound(x, Timers, S, Q)
      BY <2>1 DEF Events
    <3> HIDE DEF x
    <3>2. x.kind = "TIMEOUT" /\ x.body \in Timers[x.to] => x.body \in Timers'[x.to]
      BY <1>2, <2>2, <3>1 DEF x
    <3>3. Genuine(x.body, S, Q) => Genuine(x.body, S2, Q2)
      BY <1>2, SoundStays
    <3>4. Credible(x.body, S, Q) => Credible(x.body, S2, Q2)
      BY <1>2, SoundStays
    <3> HIDE DEF S, Q, S2, Q2
    <3> QED
      BY <3>1, <3>2, <3>3, <3>4 DEF Sound
  <2> QED
    BY <2>1, <2>3 DEF Events
<1>5. queue' \in Seq(E2) /\ order_index' \in Nat
  <2>1. Send(L, e.time, q, I) /\ order_index \in Nat
    BY DEF Turned, SimInv
  <2>2. \A x \in E2 : x.time \in Nat
    BY DEF Events
  <2> HIDE DEF L, q, I, E, E2, m
  <2>3. \A i \in I : q[i] \in E2
    BY <1>4
  <2> QED
    BY <1>1, <1>2, <1>3, <2>1, <2>2, <2>3, SendType
<1>6. now' \in Nat
  BY <1>1 DEF Turned
<1> QED
  BY <1>5, <1>6, TurnedSends, EnginesAfter

LEMMA HonestExists == FewFaults => Honest # {}
<1> HIDE DEF n
<1>1. \A k \in Nat : k >= 4 => /\ (k - 1) \div 3 \in Nat
                               /\ 3 * ((k - 1) \div 3) <= k - 1
  OBVIOUS
<1>2. f \in Nat /\ 3 * f <= n - 1
  BY <1>1, NumberOfValidators DEF f
<1> HIDE DEF f
<1>3. Cardinality(Validator) >= quorum
  BY <1>2, NumberOfValidators DEF quorum, n
<1> QED
  BY <1>3, QuorumsMeet

\* Whoever is started and has not crashed enters round 0.
LEMMA StartedFit ==
    ASSUME NEW s, NEW k, Fit(s, k, FALSE), NEW data \in Data, NEW S, NEW Q
    PROVE  LET t == started(s, data)
           IN  /\ Fit(t, k, TRUE) /\ Keeps(s, t) /\ t.crashed = s.crashed
               /\ ~ s.crashed => Good(t)
               /\ k \in Active /\ Vouched(s, S, Q) => Vouched(t, S, Q)
<1> DEFINE t == started(s, data)
<1>1. /\ s \in NodeState /\ s.node_id = k /\ VotesOK(s) /\ ChainOK(s)
      /\ NotStarted(s) /\ s.sent_proposals = {}
  BY DEF Fit
<1>2. CASE s.crashed
  <2>1. t = s
    BY <1>2 DEF started
  <2> QED
    BY <1>1, <1>2, <2>1 DEF Fit, Keeps
<1>3. CASE ~ s.crashed
  <2>1. t = enter_round(s, 0, data)
    BY <1>3 DEF started
  <2>2. /\ 0 \in Rounds /\ s.timers \subseteq {s.timeout_event} /\ s.sent_votes = {}
    BY <1>1, BoundAssumption DEF NotStarted, Rounds
  <2>3. /\ Good(t) /\ t.round = 0 /\ t.node_id = s.node_id /\ t.crashed = s.crashed
        /\ SameLock(s, t) /\ Enters(s, t, 0)
    BY <1>1, <2>1, <2>2, EnterRound
  <2> HIDE DEF t
  <2>4. Speaks(s, t, S, Q)
    BY <1>1, <2>2, <2>3, EnterSpeaks DEF Good
  <2>5. Keeps(s, t) /\ Vouches(s, t, S, Q)
    BY <2>3, <2>4, BoundAssumption DEF Speaks
  <2> QED
    BY <1>1, <1>3, <2>3, <2>5 DEF Fit, Good, Vouches, t
<1> QED
  BY <1>2, <1>3

\* What validator k sends when it is started.
first(k, data) == posted(k, engine(k), started(engine(k), data))

\* Every validator is started, with this data.
Begun(data) ==
    /\ Start /\ SafeInv' /\ Started' /\ byz' = [b \in Byzantine |-> byz'[b]]
    /\ \A k \in Validator :
          /\ engine(k)' = started(engine(k), data)
          /\ Fit(engine(k), k, FALSE) /\ Fit(started(engine(k), data), k, TRUE)
          /\ Keeps(engine(k), started(engine(k), data))
          /\ started(engine(k), data).crashed = engine(k).crashed
          /\ first(k, data) \in Seq(Parcels(k, started(engine(k), data)))
          /\ \A x \in Parcels(k, started(engine(k), data)) :
                Arrivals(x, 0) \subseteq Events(Timers', Sent(node'), HonestProposals')
    /\ \A b \in Active : Vouched(byz'[b], Sent(node), HonestProposals)
    /\ Send(FlattenSeq([i \in DOMAIN Registered |-> first(Registered[i], data)]), 0, <<>>, {})

LEMMA StartSends ==
    ASSUME FewFaults, SimInv, SimStart
    PROVE  \E data \in Data : Begun(data)
<1>1. PICK data \in Data :
         /\ node' = [m \in Honest |-> started(node[m], data)]
         /\ byz' = [b \in Byzantine |-> started(byz[b], data)]
         /\ \E L \in {FlattenSeq([i \in DOMAIN Registered |->
                         posted(Registered[i], engine(Registered[i]),
                                started(engine(Registered[i]), data))])} :
               Send(L, 0, <<>>, {})
  BY DEF SimStart
<1> DEFINE t(k) == started(engine(k), data)
           S == Sent(node)
           Q == HonestProposals
           E2 == Events(Timers', Sent(node'), HonestProposals')
<1>2. ~ Started /\ UNCHANGED now
  BY DEF SimStart
<1>3. \A k \in Validator : Fit(engine(k), k, FALSE)
  BY <1>2 DEF SimInv, Fit
<1>4. /\ \A m \in Honest : m \in Validator /\ engine(m) = node[m]
      /\ \A b \in Byzantine : b \in Validator /\ engine(b) = byz[b]
      /\ \A k \in Validator : engine(k)' = t(k)
  BY <1>1, ValidatorAssumption DEF engine, Honest
<1>5. \A k \in Validator :
         /\ Fit(t(k), k, TRUE) /\ Keeps(engine(k), t(k)) /\ t(k).crashed = engine(k).crashed
         /\ ~ engine(k).crashed => Good(t(k))
         /\ k \in Active /\ Vouched(engine(k), S, Q) => Vouched(t(k), S, Q)
  BY <1>3, StartedFit
<1>6. Start
  <2>1. \E m \in Honest : ~ node[m].crashed
    BY HonestExists DEF SimInv
  <2> DEFINE d == [m \in Honest |-> data]
  <2>2. d \in [Honest -> Data] /\ \A m \in Honest : d[m] = data
    OBVIOUS
  <2>3. node' = [m \in Honest |-> IF node[m].crashed THEN node[m]
                                  ELSE enter_round(node[m], 0, d[m])]
    BY <1>1, <2>2 DEF started
  <2> HIDE DEF d
  <2> QED
    BY <1>2, <2>1, <2>2, <2>3 DEF Start
<1>7. SafeInv'
  BY <1>6, SafeInvStep DEF SimInv, Next
<1>8. byz' = [b \in Byzantine |-> byz'[b]]
  BY <1>1
<1>9. Started'
  <2>1. PICK m \in Honest : TRUE
    BY HonestExists
  <2>2. node'[m] = t(m) /\ Good(t(m))
    BY <1>1, <1>4, <1>5 DEF SimInv
  <2> HIDE DEF t
  <2> QED
    BY <2>2 DEF Started, Good, TimerOK
<1> HIDE DEF t
<1>10. \A b \in Active : Vouched(byz'[b], S, Q)
  <2> SUFFICES ASSUME NEW b \in Active PROVE Vouched(byz'[b], S, Q)
    OBVIOUS
  <2>1. b \in Byzantine /\ b \in Validator /\ engine(b) = byz[b] /\ byz'[b] = t(b)
    BY <1>1, <1>4 DEF Active, t
  <2> QED
    BY <1>5, <2>1 DEF SimInv
<1>11. S \subseteq Sent(node') /\ Q \subseteq HonestProposals'
  <2>1. \A m \in Honest : node[m].sent_votes = {} /\ node[m].sent_proposals = {}
    BY <1>3, <1>4 DEF Fit, NotStarted
  <2> QED
    BY <2>1 DEF Sent, HonestProposals
<1>12. \A m \in Honest : /\ t(m).sent_votes \subseteq Sent(node')
                         /\ t(m).sent_proposals \subseteq HonestProposals'
  <2>1. \A m \in Honest : t(m) = node'[m]
    BY <1>1, <1>4 DEF t
  <2> QED
    BY <2>1 DEF Sent, HonestProposals
<1>13. \A k \in Validator : Timers'[k] = t(k).timers
  BY <1>4 DEF Timers
<1>14. ASSUME NEW k \in Validator
       PROVE  /\ first(k, data) \in Seq(Parcels(k, t(k)))
              /\ \A x \in Parcels(k, t(k)) : Arrivals(x, 0) \subseteq E2
  <2>1. first(k, data) \in Seq(Parcels(k, t(k)))
    BY <1>5, PostedType DEF Fit, first, t
  <2>2. byz'[k] = t(k) \/ k \notin Active
    BY <1>1, <1>4 DEF t, Active
  <2> QED
    BY <1>5, <1>10, <1>11, <1>12, <1>13, <2>1, <2>2, SentSound
<1>15. Send(FlattenSeq([i \in DOMAIN Registered |-> first(Registered[i], data)]), 0, <<>>, {})
  BY <1>1 DEF first
<1>16. \A k \in Validator :
          /\ engine(k)' = t(k) /\ Fit(engine(k), k, FALSE) /\ Fit(t(k), k, TRUE)
          /\ Keeps(engine(k), t(k)) /\ t(k).crashed = engine(k).crashed
  BY <1>3, <1>4, <1>5 DEF t
<1> QED
  BY <1>6, <1>7, <1>8, <1>9, <1>10, <1>14, <1>15, <1>16 DEF Begun, t

\* The messages of all of them, in one list.
LEMMA BegunFlat ==
    ASSUME NEW data, Begun(data)
    PROVE  LET P  == UNION {Parcels(k, started(engine(k), data)) : k \in Validator}
               ss == [i \in DOMAIN Registered |-> first(Registered[i], data)]
           IN  /\ ss \in Seq(Seq(P)) /\ FlattenSeq(ss) \in Seq(P)
               /\ \A i \in DOMAIN ss : Registered[i] \in Validator /\ ss[i] = first(Registered[i], data)
               /\ \A x \in P :
                     Arrivals(x, 0) \subseteq Events(Timers', Sent(node'), HonestProposals')
<1> DEFINE P(k) == Parcels(k, started(engine(k), data))
           U == UNION {P(k) : k \in Validator}
           ss == [i \in DOMAIN Registered |-> first(Registered[i], data)]
           E2 == Events(Timers', Sent(node'), HonestProposals')
<1>1. \A k \in Validator : first(k, data) \in Seq(U)
  <2> SUFFICES ASSUME NEW k \in Validator PROVE first(k, data) \in Seq(U)
    OBVIOUS
  <2>1. first(k, data) \in Seq(P(k)) /\ P(k) \subseteq U
    BY DEF Begun
  <2> HIDE DEF P, U
  <2> QED
    BY <2>1
<1>2. \A x \in U : Arrivals(x, 0) \subseteq E2
  <2> SUFFICES ASSUME NEW k \in Validator, NEW x \in P(k) PROVE Arrivals(x, 0) \subseteq E2
    OBVIOUS
  <2> QED
    BY DEF Begun
<1> DEFINE Z == Seq(U)
           N == Len(Registered)
<1>3. N \in Nat /\ DOMAIN Registered = 1 .. N /\ \A i \in 1 .. N : Registered[i] \in Validator
  BY NetworkAssumption
<1>4. \A i \in 1 .. N : first(Registered[i], data) \in Z
  BY <1>1, <1>3
<1>5. ss = [i \in 1 .. N |-> first(Registered[i], data)]
  BY <1>3
<1> HIDE DEF Z, N, ss, U
<1>6. ss \in Seq(Z)
  BY <1>3, <1>4, <1>5
<1>7. ss \in Seq(Seq(U))
  BY <1>6 DEF Z
<1>8. \A i \in DOMAIN ss : Registered[i] \in Validator /\ ss[i] = first(Registered[i], data)
  BY <1>3, <1>5
<1> QED
  BY <1>2, <1>7, <1>8, FlattenType DEF U, ss

LEMMA SimStartStep ==
    ASSUME FewFaults, SimInv, SimStart
    PROVE  Start /\ SimInv'
<1>1. PICK data \in Data : Begun(data)
  BY StartSends
<1> DEFINE E2 == Events(Timers', Sent(node'), HonestProposals')
           P == UNION {Parcels(k, started(engine(k), data)) : k \in Validator}
           L == FlattenSeq([i \in DOMAIN Registered |-> first(Registered[i], data)])
           q == <<>>
           I == {}
<1>2. L \in Seq(P) /\ \A x \in P : Arrivals(x, 0) \subseteq E2
  BY <1>1, BegunFlat
<1>3. queue' \in Seq(E2) /\ order_index' \in Nat
  <2>1. Send(L, 0, q, I) /\ order_index \in Nat /\ 0 \in Nat
    BY <1>1 DEF SimInv, Begun
  <2>2. \A x \in E2 : x.time \in Nat
    BY DEF Events
  <2>3. /\ q \in Seq({}) /\ I \in SUBSET DOMAIN q /\ \A i \in I : q[i] \in E2
    OBVIOUS
  <2> HIDE DEF L, E2, P, q, I
  <2> QED
    BY <1>2, <2>1, <2>2, <2>3, SendType
<1>4. now' \in Nat
  BY DEF SimInv, SimStart
<1>5. /\ SafeInv' /\ Started' /\ byz' = [b \in Byzantine |-> byz'[b]]
      /\ \A k \in Validator : /\ Fit(engine(k)', k, TRUE) /\ Keeps(engine(k), engine(k)')
                              /\ engine(k)'.crashed = engine(k).crashed
      /\ \A b \in Active : Vouched(byz'[b], Sent(node), HonestProposals)
      /\ Start
  BY <1>1 DEF Begun
<1> QED
  BY <1>3, <1>4, <1>5, EnginesAfter

LEMMA SimInvInit == SimInit => SimInv
<1> SUFFICES ASSUME SimInit PROVE SimInv
  OBVIOUS
<1>1. PICK running \in SUBSET Active :
         byz = [b \in Byzantine |-> [NewNode(b) EXCEPT !.crashed = b \notin running]]
  BY DEF SimInit
<1>2. SafeInv
  BY InitInv, InitSafe DEF SimInit, SafeInv
<1>3. \A m \in Honest : node[m] = NewNode(m)
  BY DEF SimInit, Init
<1>4. ~ Started
  <2>1. \A m \in Honest : NewNode(m).timers = {}
    BY DEF NewNode
  <2> QED
    BY <1>3, <2>1 DEF Started
<1>5. ASSUME NEW k \in Validator, NEW crashed \in BOOLEAN
      PROVE  LET s == [NewNode(k) EXCEPT !.crashed = crashed]
             IN  /\ Fit(s, k, FALSE) /\ s.crashed = crashed /\ s.votes = {}
                 /\ s.proposals = {} /\ s.sent_proposals = {} /\ s.sent_votes = {}
                 /\ s.ledger = <<>>
  <2> DEFINE s == [NewNode(k) EXCEPT !.crashed = crashed]
  <2>1. 0 \in Heights /\ 0 \in Rounds /\ <<>> \in Seq(Block)
    BY BoundAssumption DEF Heights, Rounds
  <2>2. s \in NodeState
    BY <2>1 DEF NewNode, NodeState
  <2>3. s.node_id = k /\ VotesOK(s) /\ ChainOK(s) /\ NotStarted(s) /\ s.sent_proposals = {}
    BY DEF NewNode, VotesOK, ChainOK, NotStarted, parent_hash
  <2>4. /\ s.crashed = crashed /\ s.votes = {} /\ s.proposals = {}
        /\ s.sent_votes = {} /\ s.ledger = <<>>
    BY DEF NewNode
  <2> HIDE DEF s
  <2> QED
    BY <2>2, <2>3, <2>4 DEF Fit, s
<1>6. \A b \in Byzantine : byz[b] = [NewNode(b) EXCEPT !.crashed = b \notin running]
  BY <1>1
<1>7. \A k \in Validator : Fit(engine(k), k, Started)
  <2> SUFFICES ASSUME NEW k \in Validator PROVE Fit(engine(k), k, FALSE)
    BY <1>4 DEF Fit
  <2>1. CASE k \in Honest
    <3>1. NewNode(k) = [NewNode(k) EXCEPT !.crashed = FALSE]
      <4> DEFINE s == NewNode(k)
      <4>1. s \in NodeState /\ s.crashed = FALSE
        <5>1. s = node[k] /\ node[k] \in NodeState
          BY <1>2, <1>3, <2>1 DEF SafeInv, Inv, TypeOK
        <5>2. s.crashed = FALSE
          BY DEF NewNode
        <5> QED
          BY <5>1, <5>2
      <4> HIDE DEF s
      <4>2. s = [s EXCEPT !.crashed = FALSE]
        BY <4>1 DEF NodeState
      <4> QED
        BY <4>2 DEF s
    <3> QED
      BY <1>3, <1>5, <2>1, <3>1, ZenonT(60) DEF engine
  <2>2. CASE k \in Byzantine
    BY <1>5, <1>6, <2>2 DEF engine, Honest
  <2> QED
    BY <2>1, <2>2 DEF Honest
<1>8. \A m \in Honest : ~ node[m].crashed
  <2>1. \A m \in Honest : ~ NewNode(m).crashed
    BY DEF NewNode
  <2> QED
    BY <1>3, <2>1
<1>9. \A b \in Silent : byz[b].crashed
  <2> SUFFICES ASSUME NEW b \in Silent PROVE byz[b].crashed
    OBVIOUS
  <2>1. b \in Byzantine /\ b \in Validator /\ b \notin running
    BY ValidatorAssumption DEF Active
  <2> QED
    BY <1>5, <1>6, <2>1
<1>10. \A b \in Active : Vouched(byz[b], Sent(node), HonestProposals)
  <2> SUFFICES ASSUME NEW b \in Active PROVE Vouched(byz[b], Sent(node), HonestProposals)
    OBVIOUS
  <2>1. b \in Byzantine /\ b \in Validator
    BY ValidatorAssumption DEF Active
  <2>2. /\ byz[b].votes = {} /\ byz[b].proposals = {} /\ byz[b].sent_proposals = {}
        /\ byz[b].sent_votes = {} /\ byz[b].ledger = <<>>
    BY <1>5, <1>6, <2>1
  <2> QED
    BY <2>2 DEF Vouched, VotesHeld, LedgerBacked
<1>11. byz = [b \in Byzantine |-> byz[b]]
  BY <1>1
<1> QED
  BY <1>2, <1>4, <1>7, <1>8, <1>9, <1>10, <1>11 DEF SimInv, SimInit

LEMMA SimInvStep ==
    ASSUME FewFaults, SimInv, [SimNext]_simvars
    PROVE  SimInv' /\ [Next]_node
<1>1. CASE SimStart
  BY <1>1, SimStartStep DEF Next
<1>2. CASE TimeoutTurn \/ ProposalTurn \/ VoteTurn
  BY <1>2, TurnTaken, TurnedInv, TurnedStep
<1>3. CASE Stabilize \/ Finish \/ UNCHANGED simvars
  <2>1. UNCHANGED <<node, byz, queue, order_index>> /\ now' \in Nat
    BY <1>3, NetworkAssumption DEF Stabilize, Finish, simvars, SimInv
  <2>2. SafeInv'
    BY <2>1, SafeInvStep DEF SimInv
  <2>3. Started' = Started /\ \A k \in Validator : engine(k)' = engine(k)
    BY <2>1 DEF Started, engine
  <2>4. Timers' = Timers
    BY <2>3 DEF Timers
  <2>5. HonestProposals' = HonestProposals
    BY <2>1 DEF HonestProposals
  <2> QED
    BY <2>1, <2>2, <2>3, <2>4, <2>5 DEF SimInv
<1> QED
  BY <1>1, <1>2, <1>3 DEF SimNext

LEMMA SpecSimInv ==
    ASSUME FewFaults
    PROVE  SimSpec => []SimInv
BY SimInvInit, SimInvStep, PTL DEF SimSpec

\* Whatever the delays, the losses and byzantine.py do in a scenario, its honest
\* validators are at work as in module Engine: what is proved of Engine holds
\* for the scenarios of main.py.
THEOREM SimulatorImplementsEngine ==
    ASSUME FewFaults
    PROVE  SimSpec => ImplementsEngine
<1>1. SimInit => Init
  BY DEF SimInit
<1>2. SimInv /\ [SimNext]_simvars => [Next]_node
  BY SimInvStep
<1> QED
  BY <1>1, <1>2, SpecSimInv, PTL DEF SimSpec, ImplementsEngine, Spec

-----------------------------------------------------------------------------
(* One event among many.                                                   *)

\* The list L has an element of A; it has no more than one.
Has(L, A)  == \E i \in DOMAIN L : L[i] \in A
Once(L, A) == \A i, j \in DOMAIN L : L[i] \in A /\ L[j] \in A => i = j

LEMMA ConcatOnce ==
    ASSUME NEW T, NEW K \in Seq(T), NEW L \in Seq(T), NEW A,
           Once(K, A), Once(L, A), ~ (Has(K, A) /\ Has(L, A))
    PROVE  Once(K \o L, A) /\ (Has(K \o L, A) <=> Has(K, A) \/ Has(L, A))
<1> DEFINE X == K \o L
<1>1. /\ Len(K) \in Nat /\ Len(L) \in Nat /\ Len(X) = Len(K) + Len(L)
      /\ DOMAIN K = 1 .. Len(K) /\ DOMAIN L = 1 .. Len(L) /\ DOMAIN X = 1 .. Len(X)
      /\ \A i \in 1 .. Len(K) + Len(L) :
            X[i] = IF i <= Len(K) THEN K[i] ELSE L[i - Len(K)]
  OBVIOUS
<1>2. \A i \in DOMAIN X : \/ i \in DOMAIN K /\ X[i] = K[i]
                          \/ i - Len(K) \in DOMAIN L /\ X[i] = L[i - Len(K)]
  BY <1>1
<1>3. /\ \A i \in DOMAIN K : i \in DOMAIN X /\ X[i] = K[i]
      /\ \A i \in DOMAIN L : i + Len(K) \in DOMAIN X /\ X[i + Len(K)] = L[i]
  BY <1>1
<1>4. \A i, j \in DOMAIN X : i - Len(K) = j - Len(K) => i = j
  BY <1>1
<1> HIDE DEF X
<1>5. Once(X, A)
  BY <1>2, <1>4 DEF Once, Has
<1>6. Has(X, A) <=> Has(K, A) \/ Has(L, A)
  BY <1>2, <1>3 DEF Has
<1> QED
  BY <1>5, <1>6 DEF X

LEMMA FlattenOnce ==
    ASSUME NEW T, NEW ss \in Seq(Seq(T)), NEW A,
           \A i \in DOMAIN ss : Once(ss[i], A),
           \A i, j \in DOMAIN ss : Has(ss[i], A) /\ Has(ss[j], A) => i = j
    PROVE  /\ Once(FlattenSeq(ss), A)
           /\ Has(FlattenSeq(ss), A) <=> \E i \in DOMAIN ss : Has(ss[i], A)
<1>1. CASE ss = <<>>
  <2>1. FlattenSeq(ss) = <<>> /\ DOMAIN ss = {} /\ DOMAIN <<>> = {}
    BY <1>1 DEF FlattenSeq
  <2> QED
    BY <2>1 DEF Once, Has
<1>2. CASE ss # <<>>
  <2> DEFINE Z == Seq(T)
             N == Len(ss)
  <2>1. PICK h \in [1 .. N -> Z] : Flattens(h, ss, N) /\ FlattenSeq(ss) = h[N]
    BY <1>2, FlattenSteps
  <2>2. N \in Nat /\ DOMAIN ss = 1 .. N /\ (\A i \in 1 .. N : ss[i] \in Z) /\ N # 0
    BY <1>2
  <2> DEFINE Good1(k) == /\ Once(h[k], A)
                         /\ Has(h[k], A) <=> \E i \in 1 .. k : Has(ss[i], A)
             S == {k \in Nat : k \in 1 .. N => Good1(k)}
  <2> HIDE DEF Z, N
  <2>3. ASSUME NEW k \in 0 .. N - 1, k \in S
        PROVE  k + 1 \in S
    <3>1. k \in Nat /\ k + 1 \in 1 .. N /\ (k + 1) - 1 = k /\ (k = 0 \/ k \in 1 .. N)
      BY <2>2
    <3>2. h[k + 1] = IF k + 1 = 1 THEN ss[k + 1] ELSE h[(k + 1) - 1] \o ss[k + 1]
      BY <2>1, <3>1 DEF Flattens
    <3>3. CASE k = 0
      <4>1. h[1] = ss[1] /\ 1 .. 1 = {1}
        BY <3>2, <3>3
      <4>2. Good1(1)
        BY <2>2, <3>1, <3>3, <4>1, SMTT(40)
      <4> QED
        BY <3>3, <4>2
    <3>4. CASE k # 0
      <4>1. h[k + 1] = h[k] \o ss[k + 1] /\ k \in 1 .. N /\ Good1(k)
        <5>1. k + 1 # 1 /\ k \in 1 .. N
          BY <3>1, <3>4
        <5>2. Good1(k)
          <6> HIDE DEF Good1
          <6> QED
            BY <2>3, <5>1
        <5> QED
          BY <3>1, <3>2, <5>1, <5>2
      <4>2. h[k] \in Z /\ ss[k + 1] \in Z /\ Once(ss[k + 1], A)
        BY <2>1, <2>2, <3>1, <4>1
      <4>3. \A i \in 1 .. k : i \in 1 .. N /\ i # k + 1 /\ i \in 1 .. k + 1
        BY <2>2, <3>1
      <4>4. ~ (Has(h[k], A) /\ Has(ss[k + 1], A))
        BY <2>2, <3>1, <4>1, <4>3
      <4>5. Once(h[k + 1], A) /\ (Has(h[k + 1], A) <=> Has(h[k], A) \/ Has(ss[k + 1], A))
        <5> DEFINE u == h[k]
                   v == ss[k + 1]
        <5>1. u \in Seq(T) /\ v \in Seq(T) /\ Once(u, A) /\ Once(v, A) /\ ~ (Has(u, A) /\ Has(v, A))
          BY <4>1, <4>2, <4>4 DEF Z
        <5> HIDE DEF u, v
        <5>2. Once(u \o v, A) /\ (Has(u \o v, A) <=> Has(u, A) \/ Has(v, A))
          BY <5>1, ConcatOnce
        <5> QED
          BY <4>1, <5>2 DEF u, v
      <4>6. \A i \in 1 .. k + 1 : i = k + 1 \/ i \in 1 .. k
        BY <3>1
      <4>7. k + 1 \in 1 .. k + 1
        BY <3>1
      <4>8. Good1(k + 1)
        BY <4>1, <4>3, <4>5, <4>6, <4>7
      <4> QED
        BY <3>1, <4>8
    <3> QED
      BY <3>3, <3>4
  <2>4. 0 \in S
    OBVIOUS
  <2> HIDE DEF S, Good1
  <2>5. N \in S
    BY <2>2, <2>3, <2>4, CountingUp
  <2>6. N \in 1 .. N
    BY <2>2
  <2>7. Good1(N)
    BY <2>5, <2>6 DEF S
  <2> QED
    BY <2>1, <2>2, <2>7 DEF Good1
<1> QED
  BY <1>1, <1>2

\* A set with no two elements as a list.
LEMMA SetToSeqOnce ==
    ASSUME NEW B, \A x, y \in B : x = y, NEW A
    PROVE  /\ Once(SetToSeq(B), A)
           /\ Has(SetToSeq(B), A) <=> \E x \in B : x \in A
<1> DEFINE L == SetToSeq(B)
<1>1. IsFiniteSet(B) /\ Cardinality(B) \in Nat
  BY AtMostOne, FS_CardinalityType
<1>2. L \in [1 .. Cardinality(B) -> B] /\ IsInjective(L)
  BY <1>1, SetToSeqType
<1>3. B # {} => 1 \in 1 .. Cardinality(B)
  BY <1>1, FS_EmptySet
<1> DEFINE N == 1 .. Cardinality(B)
<1> HIDE DEF L, N
<1>4. L \in [N -> B] /\ (B # {} => 1 \in N)
  BY <1>2, <1>3 DEF N
<1>5. Once(L, A)
  BY <1>2, <1>4 DEF Once, IsInjective
<1>6. Has(L, A) <=> \E x \in B : x \in A
  BY <1>4 DEF Has
<1> QED
  BY <1>5, <1>6 DEF L

-----------------------------------------------------------------------------
(* A validator schedules the timer of a new round, and no other.           *)

LEMMA EmittedTimer ==
    ASSUME NEW s, NEW t, Keeps(s, t), VotesOK(t), t.timers \subseteq {<<t.height, t.round>>}
    PROVE  LET A == [kind : {"TIMEOUT"}, body : t.timers]
           IN  /\ Once(Emitted(s, t), A)
               /\ Has(Emitted(s, t), A) <=> t.timers \ s.timers # {}
<1> DEFINE A == [kind : {"TIMEOUT"}, body : t.timers]
           from == <<s.height, s.round>>
           to   == <<t.height, t.round>>
           T(at) == {[kind |-> "TIMEOUT", body |-> x] :
                       x \in (t.timers \ s.timers) \cap {at}}
           P(at) == {[kind |-> "PROPOSAL", body |-> p] :
                       p \in {q \in t.sent_proposals \ s.sent_proposals :
                                <<q.block.height, q.round>> = at}}
           V(at, phase) ==
             {[kind |-> "VOTE", body |-> v] :
                v \in {w \in t.sent_votes \ s.sent_votes :
                         <<w.height, w.round>> = at /\ w.phase = phase}}
           in(at) == SetToSeq(T(at)) \o SetToSeq(P(at))
                     \o SetToSeq(V(at, "PREVOTE")) \o SetToSeq(V(at, "PRECOMMIT"))
           I == Items(t)
<1>1. Emitted(s, t) = IF from = to THEN in(to) ELSE in(from) \o in(to)
  BY DEF Emitted
<1>2. ASSUME NEW at
      PROVE  /\ SetToSeq(T(at)) \in Seq(I) /\ Once(SetToSeq(T(at)), A)
             /\ Has(SetToSeq(T(at)), A) <=> at \in t.timers \ s.timers
  <2>1. T(at) \subseteq I /\ \A x, y \in T(at) : x = y
    BY DEF Items
  <2>2. (\E x \in T(at) : x \in A) <=> at \in t.timers \ s.timers
    <3> DEFINE y == [kind |-> "TIMEOUT", body |-> at]
    <3>1. \A x \in T(at) : at \in t.timers \ s.timers
      OBVIOUS
    <3>2. at \in t.timers \ s.timers => y \in T(at) /\ y \in A
      OBVIOUS
    <3> HIDE DEF T, A, y
    <3> QED
      BY <3>1, <3>2
  <2> HIDE DEF T, A, I
  <2> QED
    BY <2>1, <2>2, AtMostOne, SetToSeqIn, SetToSeqOnce
<1>3. ASSUME NEW at
      PROVE  /\ SetToSeq(P(at)) \in Seq(I) /\ Once(SetToSeq(P(at)), A)
             /\ ~ Has(SetToSeq(P(at)), A)
  <2>1. PICK p : t.sent_proposals \in {s.sent_proposals, s.sent_proposals \cup {p}}
    BY DEF Keeps
  <2>2. P(at) \subseteq I /\ (\A x, y \in P(at) : x = y) /\ ~ \E x \in P(at) : x \in A
    BY <2>1 DEF Items
  <2> HIDE DEF P, A, I
  <2> QED
    BY <2>2, AtMostOne, SetToSeqIn, SetToSeqOnce
<1>4. ASSUME NEW at, NEW phase
      PROVE  /\ SetToSeq(V(at, phase)) \in Seq(I) /\ Once(SetToSeq(V(at, phase)), A)
             /\ ~ Has(SetToSeq(V(at, phase)), A)
  <2>1. V(at, phase) \subseteq I /\ (\A x, y \in V(at, phase) : x = y) /\ ~ \E x \in V(at, phase) : x \in A
    BY DEF VotesOK, Items
  <2> HIDE DEF V, A, I
  <2> QED
    BY <2>1, AtMostOne, SetToSeqIn, SetToSeqOnce
<1> HIDE DEF T, P, V, A, I
<1>5. ASSUME NEW at
      PROVE  in(at) \in Seq(I) /\ Once(in(at), A) /\ (Has(in(at), A) <=> at \in t.timers \ s.timers)
  <2> DEFINE a == SetToSeq(T(at))
             b == SetToSeq(P(at))
             c == SetToSeq(V(at, "PREVOTE"))
             d == SetToSeq(V(at, "PRECOMMIT"))
  <2>1. /\ a \in Seq(I) /\ Once(a, A) /\ (Has(a, A) <=> at \in t.timers \ s.timers)
        /\ b \in Seq(I) /\ Once(b, A) /\ ~ Has(b, A)
        /\ c \in Seq(I) /\ Once(c, A) /\ ~ Has(c, A)
        /\ d \in Seq(I) /\ Once(d, A) /\ ~ Has(d, A)
    BY <1>2, <1>3, <1>4
  <2>2. in(at) = a \o b \o c \o d
    OBVIOUS
  <2> HIDE DEF a, b, c, d, in
  <2> DEFINE ab == a \o b
             abc == ab \o c
             abcd == abc \o d
  <2>3. ab \in Seq(I) /\ Once(ab, A) /\ (Has(ab, A) <=> Has(a, A))
    BY <2>1, ConcatOnce
  <2> HIDE DEF ab
  <2>4. abc \in Seq(I) /\ Once(abc, A) /\ (Has(abc, A) <=> Has(a, A))
    BY <2>1, <2>3, ConcatOnce
  <2> HIDE DEF abc
  <2>5. abcd \in Seq(I) /\ Once(abcd, A) /\ (Has(abcd, A) <=> Has(a, A))
    BY <2>1, <2>4, ConcatOnce
  <2>6. in(at) = abcd
    BY <2>2 DEF ab, abc, abcd
  <2> HIDE DEF abcd
  <2> QED
    BY <2>1, <2>5, <2>6
<1> HIDE DEF in
<1>6. t.timers \ s.timers # {} <=> to \in t.timers \ s.timers
  OBVIOUS
<1>7. CASE from = to
  BY <1>1, <1>5, <1>6, <1>7 DEF A
<1>8. CASE from # to
  <2>1. from \notin t.timers \ s.timers
    BY <1>8
  <2> HIDE DEF from, to
  <2>2. /\ Once(in(from) \o in(to), A)
        /\ Has(in(from) \o in(to), A) <=> to \in t.timers \ s.timers
    BY <1>5, <2>1, ConcatOnce
  <2> QED
    BY <1>1, <1>6, <1>8, <2>2 DEF A
<1> QED
  BY <1>7, <1>8

\* The timers of validator k among the events of P.
Alarms(P, k) == {x \in P : x.kind = "TIMEOUT" /\ x.to = k}

LEMMA PostedTimer ==
    ASSUME NEW m \in Validator, NEW s, NEW t, Keeps(s, t), VotesOK(t),
           t.timers \subseteq {<<t.height, t.round>>}, NEW k
    PROVE  LET A == Alarms(Parcels(m, t), k)
           IN  /\ Once(posted(m, s, t), A)
               /\ Has(posted(m, s, t), A) <=> k = m /\ t.timers \ s.timers # {}
<1> DEFINE L == Emitted(s, t)
           P == Parcels(m, t)
           A == Alarms(P, k)
           B == [kind : {"TIMEOUT"}, body : t.timers]
           ss == [i \in DOMAIN L |-> addressed(m, L[i])]
<1>1. posted(m, s, t) = FlattenSeq(ss)
  BY DEF posted
<1>2. L \in Seq(Items(t)) /\ Once(L, B) /\ (Has(L, B) <=> t.timers \ s.timers # {})
  BY EmittedType, EmittedTimer
<1> HIDE DEF L
<1>3. Len(L) \in Nat /\ DOMAIN L = 1 .. Len(L) /\ \A i \in 1 .. Len(L) : L[i] \in Items(t)
  <2> DEFINE I == Items(t)
  <2> HIDE DEF I
  <2>1. L \in Seq(I)
    BY <1>2 DEF I
  <2> QED
    BY <2>1 DEF I
<1>4. ASSUME NEW x \in Items(t)
      PROVE  /\ addressed(m, x) \in Seq(P) /\ Once(addressed(m, x), A)
             /\ Has(addressed(m, x), A) <=> k = m /\ x \in B
  <2>1. addressed(m, x) \in Seq(P)
    BY AddressedType
  <2>2. CASE x.kind = "TIMEOUT"
    <3> DEFINE y == [kind |-> x.kind, to |-> m, body |-> x.body]
    <3>1. x \in B /\ y \in P /\ (y \in A <=> k = m)
      BY <2>2 DEF Items, Parcels, Alarms
    <3>2. addressed(m, x) = <<y>>
      BY <2>2 DEF addressed
    <3> HIDE DEF y, A, B
    <3>3. DOMAIN <<y>> = {1} /\ <<y>>[1] = y
      OBVIOUS
    <3> QED
      BY <2>1, <3>1, <3>2, <3>3 DEF Once, Has
  <2>3. CASE x.kind # "TIMEOUT"
    <3>1. x \notin B
      BY <2>3
    <3> DEFINE R == IF m \in Honest THEN others(Registered, m) ELSE peers(m)
               to(j) == [kind |-> x.kind, to |-> j, body |-> told(m, j, x.kind, x.body)]
    <3>2. addressed(m, x) = [i \in DOMAIN R |-> to(R[i])]
      BY <2>3 DEF addressed
    <3>3. \A j : to(j) \notin A
      BY <2>3 DEF Alarms
    <3> HIDE DEF R, to, A, B
    <3> QED
      BY <2>1, <3>1, <3>2, <3>3 DEF Once, Has
  <2> QED
    BY <2>2, <2>3
<1> HIDE DEF P, A, B
<1>5. ss \in Seq(Seq(P))
  <2> DEFINE Z == Seq(P)
             N == Len(L)
             a(i) == addressed(m, L[i])
  <2>1. \A i \in 1 .. N : a(i) \in Z
    BY <1>3, <1>4
  <2>2. N \in Nat /\ ss = [i \in 1 .. N |-> a(i)]
    BY <1>3
  <2> HIDE DEF Z, N, a, ss
  <2>3. ss \in Seq(Z)
    BY <2>1, <2>2
  <2> QED
    BY <2>3 DEF Z
<1>6. /\ DOMAIN ss = DOMAIN L
      /\ \A i \in DOMAIN L : Once(ss[i], A) /\ (Has(ss[i], A) <=> k = m /\ L[i] \in B)
  BY <1>3, <1>4
<1> HIDE DEF ss
<1>7. \A i, j \in DOMAIN ss : Has(ss[i], A) /\ Has(ss[j], A) => i = j
  BY <1>2, <1>6 DEF Once
<1>8. /\ Once(FlattenSeq(ss), A)
      /\ Has(FlattenSeq(ss), A) <=> \E i \in DOMAIN ss : Has(ss[i], A)
  BY <1>5, <1>6, <1>7, FlattenOnce
<1>9. (\E i \in DOMAIN ss : Has(ss[i], A)) <=> k = m /\ Has(L, B)
  BY <1>6 DEF Has
<1> QED
  BY <1>1, <1>2, <1>8, <1>9 DEF A, P

-----------------------------------------------------------------------------
(* The queue stays in order, with each timer once.                         *)

LEMMA SendSorted ==
    ASSUME NEW P, NEW L \in Seq(P), NEW time \in Nat, NEW T, NEW q \in Seq(T),
           NEW I \in SUBSET DOMAIN q, NEW E,
           \A e \in E : e.time \in Nat,
           \A i \in I : q[i] \in E,
           \A x \in P : Arrivals(x, time) \subseteq E,
           order_index \in Nat, Send(L, time, q, I)
    PROVE  \A k, l \in DOMAIN queue' : k < l => queue'[k].time <= queue'[l].time
<1>0. /\ queue' \in Seq(E)
      /\ \E c, at : /\ c \in Seq(Seq(E)) /\ Carries(L, time, c)
                         /\ Merges(at, q, I, c, queue')
  BY SendPlaced
<1>1. PICK c, at : c \in Seq(Seq(E)) /\ Merges(at, q, I, c, queue')
  BY <1>0
<1> DEFINE X == q \o FlattenSeq(c)
           J == I \cup (DOMAIN X \ DOMAIN q)
           N == Cardinality(J)
<1>2. /\ queue' = [k \in 1 .. N |-> X[at[k]]]
      /\ \A k, l \in 1 .. N : k < l => Precedes(X, at[k], at[l])
  BY <1>1 DEF Merges, InPlace
<1> HIDE DEF X, N
<1>3. DOMAIN queue' = 1 .. N /\ \A k \in 1 .. N : queue'[k] = X[at[k]]
  BY <1>2
<1>4. \A k \in DOMAIN queue' : queue'[k].time \in Int
  BY <1>0
<1> SUFFICES ASSUME NEW k \in DOMAIN queue', NEW l \in DOMAIN queue', k < l
             PROVE  queue'[k].time <= queue'[l].time
  OBVIOUS
<1>5. X[at[k]].time < X[at[l]].time \/ X[at[k]].time = X[at[l]].time
  BY <1>2, <1>3 DEF Precedes
<1> QED
  BY <1>3, <1>4, <1>5

LEMMA SendAlarms ==
    ASSUME NEW P, NEW L \in Seq(P), NEW time \in Nat, NEW T, NEW q \in Seq(T),
           NEW I \in SUBSET DOMAIN q, NEW E,
           \A e \in E : e.time \in Nat,
           \A i \in I : q[i] \in E,
           \A x \in P : Arrivals(x, time) \subseteq E,
           order_index \in Nat, Send(L, time, q, I),
           NEW k, Once(L, Alarms(P, k)),
           \A i, j \in I : q[i] \in Alarms(E, k) /\ q[j] \in Alarms(E, k) => i = j,
           Has(L, Alarms(P, k)) => ~ \E i \in I : q[i] \in Alarms(E, k)
    PROVE  /\ Once(queue', Alarms(E, k))
           /\ \/ Has(L, Alarms(P, k))
              \/ \E i \in I : q[i] \in Alarms(E, k)
              => Has(queue', Alarms(E, k))
<1> DEFINE A == Alarms(E, k)
           B == Alarms(P, k)
<1>0. \E c, at : /\ c \in Seq(Seq(E)) /\ Carries(L, time, c)
                         /\ Merges(at, q, I, c, queue')
  BY SendPlaced
<1>1. PICK c, at : /\ c \in Seq(Seq(E)) /\ Carries(L, time, c)
                   /\ Merges(at, q, I, c, queue')
  BY <1>0
<1> DEFINE F == FlattenSeq(c)
           X == q \o F
           J == I \cup (DOMAIN X \ DOMAIN q)
<1>2. F \in Seq(E)
  BY <1>1, FlattenType
<1>3. /\ DOMAIN c = DOMAIN L
      /\ \A i \in DOMAIN L : /\ c[i] \in Seq(Arrivals(L[i], time)) /\ L[i] \in P
                             /\ L[i].kind = "TIMEOUT" => Len(c[i]) = 1
  BY <1>1 DEF Carries
<1>4. ASSUME NEW i \in DOMAIN L
      PROVE  Once(c[i], A) /\ (Has(c[i], A) <=> L[i] \in B)
  <2>1. \A y \in Arrivals(L[i], time) : y.kind = L[i].kind /\ y.to = L[i].to /\ y \in E
    <3>1. L[i] \in P
      BY <1>3
    <3>2. Arrivals(L[i], time) \subseteq E
      BY <3>1
    <3>3. \A y \in Arrivals(L[i], time) : y.kind = L[i].kind /\ y.to = L[i].to
      BY DEF Arrivals
    <3> QED
      BY <3>2, <3>3
  <2> DEFINE K == c[i]
             R == Arrivals(L[i], time)
  <2>2. K \in Seq(R) /\ L[i] \in P /\ (L[i].kind = "TIMEOUT" => Len(K) = 1)
    BY <1>3
  <2>3. \A y \in R : y \in A <=> L[i] \in B
    BY <2>1, <2>2 DEF Alarms
  <2>4. L[i] \in B => L[i].kind = "TIMEOUT"
    BY DEF Alarms
  <2> HIDE DEF K, R, A, B
  <2>5. DOMAIN K = 1 .. Len(K) /\ Len(K) \in Nat /\ \A j \in DOMAIN K : K[j] \in R
    BY <2>2
  <2>6. L[i] \in B => DOMAIN K = {1}
    BY <2>2, <2>4, <2>5
  <2>7. Once(K, A)
    BY <2>3, <2>5, <2>6 DEF Once
  <2>8. Has(K, A) <=> L[i] \in B
    BY <2>3, <2>5, <2>6 DEF Has
  <2> QED
    BY <2>7, <2>8 DEF K
<1> HIDE DEF A, B
<1>5. \A i, j \in DOMAIN c : Has(c[i], A) /\ Has(c[j], A) => i = j
  BY <1>3, <1>4 DEF Once, B
<1>6. Once(F, A) /\ (Has(F, A) <=> \E i \in DOMAIN c : Has(c[i], A))
  BY <1>1, <1>3, <1>4, <1>5, FlattenOnce
<1>7. Has(F, A) <=> Has(L, B)
  BY <1>3, <1>4, <1>6 DEF Has
<1> HIDE DEF F
<1>8. /\ DOMAIN q \subseteq DOMAIN X /\ IsFiniteSet(DOMAIN X)
      /\ \A i \in DOMAIN X : i \in Int
      /\ \A i \in DOMAIN q : X[i] = q[i]
      /\ \A i \in DOMAIN X \ DOMAIN q : i - Len(q) \in DOMAIN F /\ X[i] = F[i - Len(q)]
      /\ \A j \in DOMAIN F : /\ Len(q) + j \in DOMAIN X \ DOMAIN q
                             /\ X[Len(q) + j] = F[j]
  BY <1>2, ConcatIndex
<1> DEFINE N == Cardinality(J)
<1>9. /\ at \in Bijection(1 .. N, J)
      /\ queue' = [l \in 1 .. N |-> X[at[l]]]
  BY <1>1 DEF Merges, InPlace, F
<1> HIDE DEF X, N
<1>10. ASSUME NEW i \in J, NEW j \in J, X[i] \in A, X[j] \in A
       PROVE  i = j
  <2>1. CASE i \in I /\ j \in I
    BY <1>8, <1>10, <2>1 DEF A
  <2>2. CASE i \notin I /\ j \notin I
    <3>1. /\ i - Len(q) \in DOMAIN F /\ X[i] = F[i - Len(q)] /\ i \in Int
          /\ j - Len(q) \in DOMAIN F /\ X[j] = F[j - Len(q)] /\ j \in Int
      BY <1>8, <2>2
    <3>2. i - Len(q) = j - Len(q)
      BY <1>6, <1>10, <3>1 DEF Once
    <3> QED
      BY <3>1, <3>2
  <2>3. ASSUME NEW a \in I, NEW b \in J \ I, X[a] \in A, X[b] \in A
        PROVE  FALSE
    <3>1. q[a] \in A
      BY <1>8, <2>3
    <3>2. b \in DOMAIN X \ DOMAIN q
      BY <2>3
    <3>3. Has(F, A)
      BY <1>8, <2>3, <3>2 DEF Has
    <3> QED
      BY <1>7, <3>1, <3>3 DEF A, B
  <2> QED
    BY <1>10, <2>1, <2>2, <2>3
<1>11. Has(L, B) \/ (\E i \in I : q[i] \in A) => \E i \in J : X[i] \in A
  <2>1. ASSUME Has(L, B) PROVE \E i \in J : X[i] \in A
    <3>1. PICK j \in DOMAIN F : F[j] \in A
      BY <1>7, <2>1 DEF Has
    <3> QED
      BY <1>8, <3>1
  <2>2. ASSUME NEW i \in I, q[i] \in A PROVE \E j \in J : X[j] \in A
    BY <1>8, <2>2
  <2> QED
    BY <2>1, <2>2
<1> HIDE DEF J
<1>12. /\ DOMAIN queue' = 1 .. N /\ \A l \in 1 .. N : queue'[l] = X[at[l]] /\ at[l] \in J
       /\ \A l, r \in 1 .. N : at[l] = at[r] => l = r
       /\ \A i \in J : \E l \in 1 .. N : at[l] = i
  BY <1>9 DEF Bijection, Injection, Surjection, IsInjective
<1>13. Once(queue', A)
  BY <1>10, <1>12 DEF Once
<1>14. (\E i \in J : X[i] \in A) => Has(queue', A)
  BY <1>12 DEF Has
<1> QED
  BY <1>11, <1>13, <1>14 DEF A, B

-----------------------------------------------------------------------------
(* The queue is in order, holds nothing from the past and each timer once. *)

AllEvents ==
    [time : Nat, kind : {"TIMEOUT", "PROPOSAL", "VOTE"}, to : Validator,
     body : (Heights \X Rounds) \cup Proposal \cup Vote]

QueueInv ==
    /\ \A i \in DOMAIN queue : queue[i].time >= now
    /\ \A i, j \in DOMAIN queue : i < j => queue[i].time <= queue[j].time
    /\ \A k \in Validator :
          /\ Once(queue, Alarms(AllEvents, k))
          /\ engine(k).height < MaxHeight /\ engine(k).timers # {} =>
                Has(queue, Alarms(AllEvents, k))
    /\ ~ Started => now = 0

\* A validator has no timer but that of its round.
LEMMA OwnTimer ==
    ASSUME NEW s, NEW k, NEW on, Fit(s, k, on)
    PROVE  s.timers \subseteq {<<s.height, s.round>>}
BY DEF Fit, TimerOK, NotStarted

LEMMA QueueInvInit == SimInit => QueueInv
<1> SUFFICES ASSUME SimInit PROVE QueueInv
  OBVIOUS
<1>1. queue = <<>> /\ now = 0 /\ DOMAIN <<>> = {}
  BY DEF SimInit
<1>2. \A k \in Validator : engine(k).timers = {}
  BY SimInvInit DEF SimInv, Fit, NotStarted, SimInit, Init, Started, NewNode
<1> QED
  BY <1>1, <1>2 DEF QueueInv, Once

LEMMA StartQueue ==
    ASSUME FewFaults, SimInv, QueueInv, SimStart
    PROVE  QueueInv'
<1>1. PICK data \in Data : Begun(data)
  BY StartSends
<1> DEFINE t(k) == started(engine(k), data)
           P == UNION {Parcels(k, t(k)) : k \in Validator}
           ss == [i \in DOMAIN Registered |-> first(Registered[i], data)]
           L == FlattenSeq(ss)
           q == <<>>
           I == {}
           E == {x \in AllEvents : x.time >= 0}
<1>2. /\ ss \in Seq(Seq(P)) /\ L \in Seq(P)
      /\ \A i \in DOMAIN ss : Registered[i] \in Validator /\ ss[i] = first(Registered[i], data)
      /\ \A x \in P : Arrivals(x, 0) \subseteq E
  <2>1. Events(Timers', Sent(node'), HonestProposals') \subseteq E
    BY DEF Events, AllEvents
  <2> QED
    BY <1>1, <2>1, BegunFlat
<1>3. /\ Send(L, 0, q, I) /\ order_index \in Nat /\ 0 \in Nat
      /\ \A x \in E : x.time \in Nat
      /\ q \in Seq({}) /\ I \in SUBSET DOMAIN q /\ \A i \in I : q[i] \in E
  BY <1>1 DEF Begun, SimInv, AllEvents
<1>4. now' = 0 /\ Started'
  BY <1>1 DEF QueueInv, SimStart, Begun
<1>5. ASSUME NEW k \in Validator
      PROVE  /\ Once(L, Alarms(P, k))
             /\ Has(L, Alarms(P, k)) <=> t(k).timers # {}
  <2> DEFINE A == Alarms(P, k)
  <2>1. ASSUME NEW j \in Validator
        PROVE  /\ Once(first(j, data), A)
               /\ Has(first(j, data), A) <=> k = j /\ t(j).timers # {}
    <3> DEFINE B == Alarms(Parcels(j, t(j)), k)
               K == first(j, data)
    <3>1. /\ Fit(engine(j), j, FALSE) /\ Fit(t(j), j, TRUE) /\ Keeps(engine(j), t(j))
          /\ K \in Seq(Parcels(j, t(j)))
      BY <1>1 DEF Begun
    <3>2. engine(j).timers = {} /\ VotesOK(t(j)) /\ t(j).timers \subseteq {<<t(j).height, t(j).round>>}
      BY <3>1, OwnTimer DEF Fit, NotStarted
    <3>3. /\ Once(K, B)
          /\ Has(K, B) <=> k = j /\ t(j).timers # {}
      BY <3>1, <3>2, PostedTimer DEF first
    <3>4. \A i \in DOMAIN K : K[i] \in B <=> K[i] \in A
      <4> DEFINE Pj == Parcels(j, t(j))
      <4>1. Pj \subseteq P
        OBVIOUS
      <4> HIDE DEF Pj, P, K, t
      <4>2. K \in Seq(Pj)
        BY <3>1 DEF Pj
      <4>3. \A i \in DOMAIN K : K[i] \in Pj
        BY <4>2
      <4> QED
        BY <4>1, <4>3 DEF Pj, Alarms
    <3> HIDE DEF A, B, K, t
    <3> QED
      BY <3>3, <3>4 DEF Once, Has, K
  <2>2. /\ DOMAIN ss = DOMAIN Registered
        /\ \A i, j \in DOMAIN ss : Registered[i] = Registered[j] => i = j
    BY NetworkAssumption DEF IsInjective
  <2> HIDE DEF A, ss, P, t, L
  <2>3. \A i \in DOMAIN ss : /\ Once(ss[i], A)
                             /\ Has(ss[i], A) <=> k = Registered[i] /\ t(k).timers # {}
    BY <1>2, <2>1
  <2>4. Once(L, A) /\ (Has(L, A) <=> \E i \in DOMAIN ss : Has(ss[i], A))
    BY <1>2, <2>2, <2>3, FlattenOnce DEF L
  <2>5. \E i \in DOMAIN ss : Registered[i] = k
    BY <2>2, NetworkAssumption
  <2> QED
    BY <2>3, <2>4, <2>5 DEF A
<1> HIDE DEF L, P, ss, t, E, q, I
<1>6. queue' \in Seq(E)
  BY <1>2, <1>3, SendType
<1>7. \A i \in DOMAIN queue' : queue'[i].time >= now'
  BY <1>4, <1>6 DEF E
<1>8. \A i, j \in DOMAIN queue' : i < j => queue'[i].time <= queue'[j].time
  BY <1>2, <1>3, SendSorted
<1>9. ASSUME NEW k \in Validator
      PROVE  /\ Once(queue', Alarms(AllEvents, k))
             /\ engine(k)'.timers # {} => Has(queue', Alarms(AllEvents, k))
  <2>1. I = {}
    BY DEF I
  <2>2. /\ \A i, j \in I : q[i] \in Alarms(E, k) /\ q[j] \in Alarms(E, k) => i = j
        /\ Has(L, Alarms(P, k)) => ~ \E i \in I : q[i] \in Alarms(E, k)
        /\ Once(L, Alarms(P, k))
    BY <1>5, <2>1
  <2>3. /\ Once(queue', Alarms(E, k))
        /\ \/ Has(L, Alarms(P, k))
           \/ \E i \in I : q[i] \in Alarms(E, k)
           => Has(queue', Alarms(E, k))
    BY <1>2, <1>3, <2>2, SendAlarms
  <2>4. Alarms(E, k) = Alarms(AllEvents, k)
    BY DEF Alarms, E, AllEvents
  <2>5. engine(k)' = t(k)
    BY <1>1 DEF Begun, t
  <2> QED
    BY <1>5, <2>3, <2>4, <2>5
<1> QED
  BY <1>4, <1>7, <1>8, <1>9 DEF QueueInv

LEMMA TurnedQueue ==
    ASSUME FewFaults, SimInv, QueueInv, NEW e, NEW s, NEW t, Turned(e, s, t)
    PROVE  QueueInv'
<1> DEFINE m == e.to
           S == Sent(node)
           Q == HonestProposals
           E0 == Events(Timers, S, Q)
           E == {x \in AllEvents : x.time >= e.time}
           P == Parcels(m, t)
           L == posted(m, s, t)
           q == Tail(queue)
           I == kept(q, m, t)
<1>1. /\ Started /\ m \in Validator /\ e.time \in Nat /\ q \in Seq(E0) /\ e \in E0
      /\ Fit(s, m, TRUE) /\ Fit(t, m, TRUE) /\ Keeps(s, t) /\ t.height >= s.height
      /\ t # s => TimerOK(s) /\ TimerOK(t)
      /\ e.kind = "TIMEOUT" => t.round = s.round + 1 \/ s.height = MaxHeight
  <2>1. t # s => TimerOK(s) /\ TimerOK(t)
    BY TurnedFit DEF Good, Outcome, Turned
  <2> QED
    BY <2>1, TurnedFit
<1>2. /\ Started' /\ s = engine(m)
      /\ \A k \in Validator : engine(k)' = IF k = m THEN t ELSE engine(k)
      /\ L \in Seq(P) /\ \A x \in P : Arrivals(x, e.time) \subseteq AllEvents
  <2>1. Events(Timers', Sent(node'), HonestProposals') \subseteq AllEvents
    BY DEF Events, AllEvents
  <2>2. \A x \in P : Arrivals(x, e.time) \subseteq AllEvents
    BY <2>1, TurnedSends
  <2> QED
    BY <2>2, TurnedSends
<1>3. /\ queue \in Seq(E0) /\ queue # <<>> /\ e = queue[1] /\ now' = e.time
      /\ Send(L, e.time, q, I) /\ order_index \in Nat /\ t.round <= MaxRound
  BY DEF Turned, SimInv
<1>4. /\ \A i \in DOMAIN q : i + 1 \in DOMAIN queue /\ q[i] = queue[i + 1] /\ i + 1 > 1
      /\ \A i \in DOMAIN queue : i = 1 \/ (i - 1 \in DOMAIN q /\ q[i - 1] = queue[i])
      /\ 1 \in DOMAIN queue /\ \A i \in DOMAIN q : i \in Int
  <2> HIDE DEF E0
  <2> QED
    BY <1>3
<1>5. I \in SUBSET DOMAIN q
  BY DEF kept
<1>6. E0 \subseteq AllEvents
  BY DEF Events, AllEvents
<1>7. \A x \in P : Arrivals(x, e.time) \subseteq E
  <2>1. \A x, y : y \in Arrivals(x, e.time) => y.time >= e.time
    BY <1>1 DEF Arrivals
  <2> QED
    BY <1>2, <2>1
<1>8. \A i \in I : q[i] \in E
  <2> SUFFICES ASSUME NEW i \in I PROVE q[i] \in E
    OBVIOUS
  <2>1. i + 1 \in DOMAIN queue /\ q[i] = queue[i + 1] /\ 1 < i + 1
    BY <1>4, <1>5
  <2>2. queue[1].time <= queue[i + 1].time
    BY <1>4, <2>1 DEF QueueInv
  <2>3. q[i] \in AllEvents
    BY <1>1, <1>5, <1>6
  <2>4. q[i].time \in Nat
    BY <2>3 DEF AllEvents
  <2> QED
    BY <1>1, <1>3, <2>1, <2>2, <2>3, <2>4
<1>9. \A x \in E : x.time \in Nat
  BY DEF AllEvents
<1> HIDE DEF E0, E, P, L, q
<1>10. queue' \in Seq(E)
  BY <1>1, <1>2, <1>3, <1>5, <1>7, <1>8, <1>9, SendType
<1>11. \A i \in DOMAIN queue' : queue'[i].time >= now'
  BY <1>3, <1>10 DEF E
<1>12. \A i, j \in DOMAIN queue' : i < j => queue'[i].time <= queue'[j].time
  BY <1>1, <1>2, <1>3, <1>5, <1>7, <1>8, <1>9, SendSorted
<1>13. ASSUME NEW k \in Validator
       PROVE  /\ Once(queue', Alarms(AllEvents, k))
              /\ engine(k)'.height < MaxHeight /\ engine(k)'.timers # {} =>
                    Has(queue', Alarms(AllEvents, k))
  <2> DEFINE A == Alarms(AllEvents, k)
             New == k = m /\ t.timers \ s.timers # {}
             Old == \E i \in I : q[i] \in A
  <2>1. /\ Once(L, Alarms(P, k)) /\ (Has(L, Alarms(P, k)) <=> New)
    <3>1. VotesOK(t) /\ t.timers \subseteq {<<t.height, t.round>>}
      BY <1>1, OwnTimer DEF Fit
    <3> QED
      BY <1>1, <3>1, PostedTimer DEF L, P
  <2>2. \A i, j \in I : q[i] \in A /\ q[j] \in A => i = j
    <3> SUFFICES ASSUME NEW i \in I, NEW j \in I, q[i] \in A, q[j] \in A
                 PROVE  i = j
      OBVIOUS
    <3>1. i + 1 = j + 1
      BY <1>4, <1>5 DEF QueueInv, Once
    <3> QED
      BY <1>4, <1>5, <3>1
  <2>3. ~ (New /\ Old)
    <3> SUFFICES ASSUME k = m, NEW i \in I, q[i] \in A
                 PROVE  t.timers \ s.timers = {}
      OBVIOUS
    <3>1. q[i].kind = "TIMEOUT" /\ q[i].to = m
      BY DEF Alarms
    <3>2. q[i].body \in t.timers
      BY <3>1 DEF I, kept
    <3>3. q[i] \in E0
      BY <1>1, <1>5
    <3>4. q[i].body \in s.timers
      BY <1>2, <3>1, <3>3 DEF E0, Events, Sound, Timers
    <3>5. t.timers \subseteq {<<t.height, t.round>>}
      BY <1>1, OwnTimer
    <3> QED
      BY <3>2, <3>4, <3>5
  <2>4. A = {x \in AllEvents : x.kind = "TIMEOUT" /\ x.to = k} /\ Alarms(E, k) \subseteq A
    BY DEF Alarms, E
  <2>5. \A i \in I : q[i] \in Alarms(E, k) <=> q[i] \in A
    BY <1>8, <2>4 DEF Alarms, E
  <2>6. /\ Once(queue', Alarms(E, k))
        /\ New \/ Old => Has(queue', Alarms(E, k))
    <3>1. /\ \A i, j \in I : q[i] \in Alarms(E, k) /\ q[j] \in Alarms(E, k) => i = j
          /\ Old <=> \E i \in I : q[i] \in Alarms(E, k)
      <4> HIDE DEF A, I
      <4> QED
        BY <2>2, <2>5
    <3>2. Has(L, Alarms(P, k)) => ~ \E i \in I : q[i] \in Alarms(E, k)
      <4> HIDE DEF New, Old
      <4> QED
        BY <2>1, <2>3, <3>1
    <3>3. Once(L, Alarms(P, k))
      BY <2>1
    <3> HIDE DEF A, I, m, New, Old
    <3>4. /\ Once(queue', Alarms(E, k))
          /\ \/ Has(L, Alarms(P, k))
             \/ \E i \in I : q[i] \in Alarms(E, k)
             => Has(queue', Alarms(E, k))
      BY <1>1, <1>2, <1>3, <1>5, <1>7, <1>8, <1>9, <3>1, <3>2, <3>3, SendAlarms
    <3> QED
      BY <2>1, <3>1, <3>4
  <2>7. Once(queue', A) /\ (Has(queue', Alarms(E, k)) => Has(queue', A))
    <3>1. \A i \in DOMAIN queue' : queue'[i] \in A <=> queue'[i] \in Alarms(E, k)
      BY <1>10, <2>4 DEF Alarms, E
    <3> HIDE DEF A
    <3> QED
      BY <2>6, <3>1 DEF Once, Has
  <2>8. ASSUME engine(k)'.height < MaxHeight, engine(k)'.timers # {}
        PROVE  New \/ Old
    <3>1. CASE k # m
      <4>1. Has(queue, A)
        BY <1>2, <2>8, <3>1 DEF QueueInv
      <4>2. PICK j \in DOMAIN queue : queue[j] \in A
        BY <4>1 DEF Has
      <4>3. queue[j].to = k
        BY <4>2 DEF Alarms
      <4>4. j # 1
        BY <1>3, <3>1, <4>3
      <4>5. j - 1 \in DOMAIN q /\ q[j - 1] = queue[j]
        BY <1>4, <4>4
      <4>6. j - 1 \in I
        BY <3>1, <4>3, <4>5 DEF I, kept
      <4> QED
        BY <4>2, <4>5, <4>6
    <3>2. CASE k = m /\ ~ New
      <4>1. t.height < MaxHeight /\ t.timers # {} /\ t.timers \subseteq s.timers
        BY <1>2, <2>8, <3>2
      <4>2. /\ s.timers \subseteq {<<s.height, s.round>>}
            /\ t.timers \subseteq {<<t.height, t.round>>}
        BY <1>1, OwnTimer
      <4>3. s.timers = t.timers /\ t.height = s.height /\ t.round = s.round
        BY <4>1, <4>2
      <4>4. s.round # s.round + 1 /\ s.height < MaxHeight /\ s.height # MaxHeight
        <5>1. s.round \in Int /\ s.height \in Int
          BY <1>1, NodeNumbers DEF Fit
        <5> QED
          BY <4>1, <4>3, <5>1, BoundAssumption
      <4>5. e.kind # "TIMEOUT"
        BY <1>1, <4>3, <4>4
      <4>6. Has(queue, A)
        BY <1>2, <3>2, <4>1, <4>3, <4>4 DEF QueueInv
      <4>7. PICK j \in DOMAIN queue : queue[j] \in A
        BY <4>6 DEF Has
      <4>8. queue[j].kind = "TIMEOUT" /\ queue[j].to = m
        BY <3>2, <4>7 DEF Alarms
      <4>9. j - 1 \in DOMAIN q /\ q[j - 1] = queue[j]
        BY <1>3, <1>4, <4>5, <4>8
      <4>10. queue[j].body \in s.timers
        <5>1. queue[j] \in E0
          BY <1>3
        <5> QED
          BY <1>2, <4>8, <5>1 DEF E0, Events, Sound, Timers
      <4>11. j - 1 \in I
        BY <4>3, <4>9, <4>10 DEF I, kept
      <4> QED
        BY <4>7, <4>9, <4>11
    <3> QED
      BY <3>1, <3>2
  <2> QED
    BY <2>6, <2>7, <2>8
<1> QED
  BY <1>2, <1>11, <1>12, <1>13 DEF QueueInv

LEMMA QueueInvStep ==
    ASSUME FewFaults, SimInv, QueueInv, [SimNext]_simvars
    PROVE  QueueInv'
<1>1. CASE SimStart
  BY <1>1, StartQueue
<1>2. CASE TimeoutTurn \/ ProposalTurn \/ VoteTurn
  BY <1>2, TurnTaken, TurnedQueue
<1>3. CASE Stabilize \/ Finish \/ UNCHANGED simvars
  <2>1. UNCHANGED <<node, byz, queue>>
    BY <1>3 DEF Stabilize, Finish, simvars
  <2>2. Started' = Started /\ \A k \in Validator : engine(k)' = engine(k)
    BY <2>1 DEF Started, engine
  <2>3. ~ Started => now' = now
    BY <1>3 DEF Stabilize, Finish, simvars, SimInv
  <2>4. ASSUME NEW i \in DOMAIN queue
        PROVE  queue[i].time >= now'
    <3> DEFINE E == Events(Timers, Sent(node), HonestProposals)
    <3>1. \A x \in E : x.time \in Nat
      BY DEF Events
    <3>2. queue \in Seq(E)
      BY DEF SimInv
    <3> HIDE DEF E
    <3>3. /\ i = 1 \/ 1 < i
          /\ 1 \in DOMAIN queue /\ queue # <<>> /\ Head(queue) = queue[1]
          /\ queue[1].time \in Nat /\ queue[i].time \in Nat
      BY <3>1, <3>2
    <3>4. queue[1].time <= queue[i].time
      BY <3>3 DEF QueueInv
    <3>5. now' = now \/ (now' \in Nat /\ queue[1].time > now')
      BY <1>3, <3>3, NetworkAssumption DEF Stabilize, Finish, simvars, Over, Until
    <3> QED
      BY <3>3, <3>4, <3>5 DEF QueueInv
  <2> QED
    BY <2>1, <2>2, <2>3, <2>4 DEF QueueInv
<1> QED
  BY <1>1, <1>2, <1>3 DEF SimNext

\* The invariants of the queue give the type invariant.
LEMMA QueueTyped ==
    ASSUME SimInv, QueueInv
    PROVE  SimTypeOK
<1> DEFINE E == Events(Timers, Sent(node), HonestProposals)
<1>1. queue \in Seq(E)
  BY DEF SimInv
<1>2. /\ \A x \in E : x.time \in Nat /\ x.to \in Validator
      /\ \A x \in E : x \in AllEvents
      /\ \A x \in E : x.kind = "TIMEOUT" => x.body \in engine(x.to).timers
  BY DEF Events, AllEvents, Sound, Timers
<1> HIDE DEF E
<1>3. ASSUME NEW i \in DOMAIN queue
      PROVE  /\ queue[i] \in E /\ queue[i].to \in Validator
             /\ i > 1 => queue[i - 1].time <= queue[i].time
  <2>1. queue[i] \in E /\ i \in Nat /\ (i > 1 => i - 1 \in DOMAIN queue /\ i - 1 < i)
    BY <1>1
  <2> QED
    BY <1>2, <2>1 DEF QueueInv
<1>4. ASSUME NEW m \in Validator, engine(m).height < MaxHeight
      PROVE  LET mine == {i \in DOMAIN queue :
                            queue[i].kind = "TIMEOUT" /\ queue[i].to = m}
             IN  /\ {queue[i].body : i \in mine} = engine(m).timers
                 /\ Cardinality(mine) = Cardinality(engine(m).timers)
  <2> DEFINE mine == {i \in DOMAIN queue :
                        queue[i].kind = "TIMEOUT" /\ queue[i].to = m}
             tm == engine(m).timers
             A == Alarms(AllEvents, m)
  <2>1. \A i \in DOMAIN queue : i \in mine <=> queue[i] \in A
    BY <1>2, <1>3 DEF Alarms
  <2>2. \A i, j \in mine : i = j
    BY <2>1 DEF QueueInv, Once
  <2>3. tm # {} => mine # {}
    <3>1. tm # {} => Has(queue, A)
      BY <1>4 DEF QueueInv
    <3> QED
      BY <2>1, <3>1 DEF Has
  <2>4. \A i \in mine : queue[i].body \in tm
    BY <1>2, <1>3
  <2>5. \A x, y \in tm : x = y
    <3>1. Fit(engine(m), m, Started)
      BY DEF SimInv
    <3>2. tm \subseteq {<<engine(m).height, engine(m).round>>}
      BY <3>1, OwnTimer
    <3> QED
      BY <3>2
  <2> HIDE DEF mine, tm
  <2>6. {queue[i].body : i \in mine} = tm
    BY <2>3, <2>4, <2>5
  <2>7. Cardinality(mine) = Cardinality(tm)
    <3>1. CASE tm = {}
      <4>1. mine = {}
        BY <2>4, <3>1
      <4> QED
        BY <3>1, <4>1
    <3>2. CASE tm # {}
      <4>1. PICK i \in mine : TRUE
        BY <2>3, <3>2
      <4>2. mine = {i} /\ tm = {queue[i].body}
        BY <2>2, <2>4, <2>5, <4>1
      <4> QED
        BY <4>2, FS_Singleton
    <3> QED
      BY <3>1, <3>2
  <2> QED
    BY <2>6, <2>7 DEF mine, tm
<1>5. byz \in [Byzantine -> NodeState]
  <2>1. \A b \in Byzantine : b \in Validator /\ engine(b) = byz[b]
    BY ValidatorAssumption DEF engine, Honest
  <2>2. \A b \in Byzantine : byz[b] \in NodeState
    BY <2>1 DEF SimInv, Fit
  <2> QED
    BY <2>2 DEF SimInv
<1> QED
  BY <1>3, <1>4, <1>5 DEF SimTypeOK, QueueInv

\* In a scenario the queue is in the order of time and holds nothing from the
\* past; of every validator that is at work it holds the pending timer, and
\* holds it once, whatever was cancelled, delivered twice or delayed.
THEOREM SimulatorTypeOK ==
    ASSUME FewFaults
    PROVE  SimSpec => []SimTypeOK
<1>1. SimInit => QueueInv
  BY QueueInvInit
<1>2. SimInv /\ QueueInv /\ [SimNext]_simvars => QueueInv'
  BY QueueInvStep
<1>3. SimInv /\ QueueInv => SimTypeOK
  BY QueueTyped
<1> QED
  BY <1>1, <1>2, <1>3, SpecSimInv, PTL DEF SimSpec

\* In a scenario no two correct nodes finalize different blocks at a height.
THEOREM SimulatorAgreement ==
    ASSUME FewFaults
    PROVE  SimSpec => []Agreement
BY SimulatorImplementsEngine, EngineAgreement, PTL DEF ImplementsEngine
=============================================================================
