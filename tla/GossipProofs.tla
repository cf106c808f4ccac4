---------------------------- MODULE GossipProofs ----------------------------
(***************************************************************************)
(* Module Gossip implements module Engine: whatever the mempools hold and  *)
(* whichever bodies are fetched late or never, a node takes a proposal as  *)
(* it would from the network of Engine, so that all that is proved of its  *)
(* engine holds here.  The states of the nodes are what their ledgers      *)
(* mean, and what they finalize is in order, since honest validators that  *)
(* had checked it have prevoted it.                                        *)
(***************************************************************************)
EXTENDS Gossip, EngineSafetyProofs, ExecutionProofs

\* The fields of a node.
Field == {"node_id", "height", "ledger", "crashed", "timers", "timeout_event",
          "sent_votes", "sent_proposals", "round", "step", "locked_block",
          "locked_round", "valid_block", "valid_round", "proposals", "votes"}

\* s and t have the fields of a node, and t has sent what s has.
Sends(s, t) ==
    DOMAIN s = Field /\ DOMAIN t = Field /\ s.sent_proposals \subseteq t.sent_proposals

\* Two outcomes of one handler, that differ in what a new block contains.
Alike(s, t, u) == Sends(s, t) /\ t.ledger = u.ledger

-----------------------------------------------------------------------------
(* The contents of a block a node builds decide nothing about its ledger,  *)
(* so a handler decides the same whatever these are.                       *)

LEMMA CastVoteSends ==
    ASSUME NEW s, NEW phase, NEW hash, DOMAIN s = Field
    PROVE  Sends(s, cast_vote(s, phase, hash)) /\ cast_vote(s, phase, hash).ledger = s.ledger
BY DEF cast_vote, Field, Sends

LEMMA EnterRoundSends ==
    ASSUME NEW s, NEW r, NEW d, DOMAIN s = Field
    PROVE  Sends(s, enter_round(s, r, d)) /\ enter_round(s, r, d).ledger = s.ledger
<1> DEFINE u == [s EXCEPT !.round = r, !.step = "PROPOSE"]
           t == reset_round_timeout(u)
<1>1. Sends(s, u) /\ u.ledger = s.ledger
  BY DEF Sends, Field
<1> HIDE DEF u
<1>2. Sends(s, t) /\ t.ledger = s.ledger
  BY <1>1 DEF reset_round_timeout, cancel, Sends, Field
<1> HIDE DEF t
<1>3. Sends(s, propose(t, d)) /\ propose(t, d).ledger = s.ledger
  <2> DEFINE b == IF t.valid_block # None /\ t.node_id \notin Byzantine
                  THEN t.valid_block ELSE new_block(t, d)
             p == [round |-> t.round, block |-> b]
             w == [t EXCEPT !.proposals = {q \in @ : q.round # t.round} \cup {p},
                            !.sent_proposals = @ \cup {p}]
  <2>1. propose(t, d) = cast_vote(w, "PREVOTE", prevote_hash(w, b, w.round))
    BY DEF propose
  <2> HIDE DEF b, p
  <2>2. Sends(t, w) /\ w.ledger = t.ledger
    BY <1>2 DEF Sends, Field
  <2> HIDE DEF w
  <2> QED
    BY <1>2, <2>1, <2>2, CastVoteSends DEF Sends
<1>4. enter_round(s, r, d) = IF is_proposer(t) THEN propose(t, d) ELSE t
  BY DEF enter_round, t, u
<1> QED
  BY <1>2, <1>3, <1>4

LEMMA CommitAlike ==
    ASSUME NEW s, NEW d, NEW e, DOMAIN s = Field
    PROVE  Alike(s, commit(s, d), commit(s, e))
<1> DEFINE t == [cancel(s) EXCEPT
                   !.ledger = Append(@, s.locked_block), !.height = @ + 1,
                   !.locked_block = None, !.locked_round = -1,
                   !.valid_block = None, !.valid_round = -1,
                   !.proposals = {}, !.votes = {}]
<1>1. Sends(s, t)
  BY DEF cancel, Sends, Field
<1>2. commit(s, d) = enter_round(t, 0, d) /\ commit(s, e) = enter_round(t, 0, e)
  BY DEF commit
<1> HIDE DEF t
<1> QED
  BY <1>1, <1>2, EnterRoundSends DEF Sends, Alike

LEMMA TallyPrecommitsAlike ==
    ASSUME NEW s, NEW r, NEW d, NEW e, DOMAIN s = Field
    PROVE  Alike(s, tally_precommits(s, r, d), tally_precommits(s, r, e))
<1> DEFINE hash == CHOOSE h \in winners(s, r, "PRECOMMIT") : TRUE
<1>1. Alike(s, s, s)
  BY DEF Alike, Sends
<1>2. Alike(s, on_precommit_nil_quorum(s, r, d), on_precommit_nil_quorum(s, r, e))
  BY <1>1, EnterRoundSends DEF on_precommit_nil_quorum, Alike
<1>3. Alike(s, on_precommit_quorum(s, hash, d), on_precommit_quorum(s, hash, e))
  BY <1>1, CommitAlike DEF on_precommit_quorum
<1> QED
  BY <1>1, <1>2, <1>3 DEF tally_precommits

LEMMA SendPrecommitAlike ==
    ASSUME NEW s, NEW hash, NEW d, NEW e, DOMAIN s = Field
    PROVE  Alike(s, send_precommit(s, hash, d), send_precommit(s, hash, e))
<1>1. Alike(s, s, s)
  BY DEF Alike, Sends
<1> DEFINE t == cast_vote(s, "PRECOMMIT", hash)
<1>2. Sends(s, t)
  BY CastVoteSends
<1> HIDE DEF t
<1>3. Alike(t, tally_precommits(t, s.round, d), tally_precommits(t, s.round, e))
  BY <1>2, TallyPrecommitsAlike DEF Sends
<1>4. Alike(s, tally_precommits(t, s.round, d), tally_precommits(t, s.round, e))
  BY <1>2, <1>3 DEF Alike, Sends
<1> QED
  BY <1>1, <1>4 DEF send_precommit, t

LEMMA TallyPrevotesAlike ==
    ASSUME NEW s, NEW r, NEW d, NEW e, DOMAIN s = Field
    PROVE  Alike(s, tally_prevotes(s, r, d), tally_prevotes(s, r, e))
<1>1. Alike(s, s, s)
  BY DEF Alike, Sends
<1>2. Alike(s, on_prevote_nil_quorum(s, r, d), on_prevote_nil_quorum(s, r, e))
  BY <1>1, SendPrecommitAlike DEF on_prevote_nil_quorum
<1>3. ASSUME NEW b
      PROVE  Alike(s, on_prevote_quorum(s, r, b, d), on_prevote_quorum(s, r, b, e))
  <2> DEFINE lock  == IF r >= s.locked_round
                      THEN [s EXCEPT !.locked_block = b, !.locked_round = r] ELSE s
             valid == IF r >= s.valid_round
                      THEN [lock EXCEPT !.valid_block = b, !.valid_round = r]
                      ELSE lock
  <2>1. Sends(s, lock)
    BY DEF Sends, Field
  <2> HIDE DEF lock
  <2>2. Sends(s, valid)
    BY <2>1 DEF Sends, Field
  <2>3. \A x : on_prevote_quorum(s, r, b, x) =
                  IF r = s.round /\ s.step = "PREVOTE"
                  THEN send_precommit(valid, block_hash(b), x) ELSE valid
    BY DEF on_prevote_quorum, lock
  <2> HIDE DEF valid
  <2>4. Alike(valid, send_precommit(valid, block_hash(b), d),
                     send_precommit(valid, block_hash(b), e))
    BY <2>2, SendPrecommitAlike DEF Sends
  <2> QED
    BY <2>2, <2>3, <2>4 DEF Alike, Sends
<1> QED
  BY <1>1, <1>2, <1>3 DEF tally_prevotes

LEMMA HandleProposalAlike ==
    ASSUME NEW s, NEW b, NEW r, NEW d, NEW e, DOMAIN s = Field
    PROVE  Alike(s, handle_proposal_local(s, b, r, d), handle_proposal_local(s, b, r, e))
<1> DEFINE t == IF \E p \in s.proposals : p.round = r THEN s
                ELSE [s EXCEPT !.proposals = @ \cup {[round |-> r, block |-> b]}]
           u == cast_vote(t, "PREVOTE", prevote_hash(t, b, r))
<1>1. Sends(s, t)
  BY DEF Sends, Field
<1>2. \A x : handle_proposal_local(s, b, r, x) =
        IF r # t.round \/ t.step # "PROPOSE" \/ has_voted(t, t.node_id, r, "PREVOTE")
        THEN t ELSE tally_prevotes(u, r, x)
  BY DEF handle_proposal_local
<1> HIDE DEF t
<1>3. Sends(t, u)
  BY <1>1, CastVoteSends DEF Sends
<1> HIDE DEF u
<1>4. Alike(u, tally_prevotes(u, r, d), tally_prevotes(u, r, e))
  BY <1>3, TallyPrevotesAlike DEF Sends
<1> QED
  BY <1>1, <1>2, <1>3, <1>4 DEF Alike, Sends

LEMMA OnProposalAlike ==
    ASSUME NEW s, NEW p, NEW d, NEW e, DOMAIN s = Field
    PROVE  Alike(s, on_proposal(s, p, d), on_proposal(s, p, e))
BY HandleProposalAlike DEF on_proposal, Alike, Sends

LEMMA OnVoteAlike ==
    ASSUME NEW s, NEW v, NEW d, NEW e, DOMAIN s = Field
    PROVE  Alike(s, on_vote(s, v, d), on_vote(s, v, e))
<1> DEFINE t == [s EXCEPT !.votes = @ \cup {v}]
<1>1. Sends(s, t)
  BY DEF Sends, Field
<1> HIDE DEF t
<1>2. /\ Alike(t, tally_prevotes(t, v.round, d), tally_prevotes(t, v.round, e))
      /\ Alike(t, tally_precommits(t, v.round, d), tally_precommits(t, v.round, e))
  BY <1>1, TallyPrevotesAlike, TallyPrecommitsAlike DEF Sends
<1> QED
  BY <1>1, <1>2 DEF on_vote, t, Alike, Sends

-----------------------------------------------------------------------------
(* A handler finalizes what the node had or is given, and prevotes that or *)
(* a block it builds.                                                      *)

Blocks(s) ==
    {p.block : p \in s.proposals} \cup ({s.locked_block, s.valid_block} \ {None})

Prevotes(s) == {v \in s.sent_votes : v.phase = "PREVOTE" /\ v.hash # NIL}

\* In state s a node finds a block of X valid, for which it casts v.
CastFor(s, v, X) ==
    /\ v.height = s.height
    /\ \E b \in X : v.hash = block_hash(b) /\ validate_block(s, b, v.round)

\* From s to t nothing is finalized, and only blocks of s and X are used.
Quiet(s, t, X) ==
    /\ DOMAIN s = Field /\ DOMAIN t = Field
    /\ t.height = s.height /\ t.ledger = s.ledger
    /\ Blocks(t) \subseteq Blocks(s) \cup X
    /\ \A v \in Prevotes(t) \ Prevotes(s) : CastFor(s, v, Blocks(s) \cup X)

\* t has finalized a block of s and starts the next height without any.
Finalizes(s, t) ==
    /\ DOMAIN t = Field
    /\ \E b \in Blocks(s) : t.ledger = Append(s.ledger, b)
    /\ t.height = s.height + 1 /\ Blocks(t) = {} /\ t.sent_votes = s.sent_votes

\* A handler that is given the blocks B, and may build one with contents d.
Effect(s, t, B, d) ==
    \E u, w, X :
       /\ Quiet(s, u, B)
       /\ w = u \/ Finalizes(u, w)
       /\ Quiet(w, t, X) /\ \A b \in X : b.data = d

LEMMA QuietStay ==
    ASSUME NEW s, NEW X, DOMAIN s = Field
    PROVE  Quiet(s, s, X)
BY DEF Quiet

LEMMA QuietOn ==
    ASSUME NEW s, NEW t, NEW u, NEW X, Quiet(s, t, X), Quiet(t, u, X)
    PROVE  Quiet(s, u, X)
<1>1. parent_hash(t) = parent_hash(s)
  BY DEF Quiet, parent_hash
<1>2. ASSUME NEW v \in Prevotes(u), v \notin Prevotes(s)
      PROVE  CastFor(s, v, Blocks(s) \cup X)
  <2>1. CASE v \in Prevotes(t)
    BY <1>2, <2>1 DEF Quiet
  <2>2. CASE CastFor(t, v, Blocks(t) \cup X)
    BY <1>1, <2>2 DEF Quiet, CastFor, validate_block, accept_header
  <2> QED
    BY <1>2, <2>1, <2>2 DEF Quiet
<1> QED
  BY <1>2 DEF Quiet

LEMMA EffectOfQuiet ==
    ASSUME NEW s, NEW t, NEW B, NEW d, Quiet(s, t, B)
    PROVE  Effect(s, t, B, d)
<1>1. Quiet(t, t, {})
  BY QuietStay DEF Quiet
<1> QED
  BY <1>1 DEF Effect

LEMMA EffectOn ==
    ASSUME NEW s, NEW t, NEW u, NEW B, NEW d, Quiet(s, t, B), Effect(t, u, B, d)
    PROVE  Effect(s, u, B, d)
BY QuietOn DEF Effect

LEMMA CastQuiet ==
    ASSUME NEW s, NEW phase, NEW hash, NEW X, DOMAIN s = Field,
           \/ phase # "PREVOTE" \/ hash = NIL
           \/ \E b \in Blocks(s) \cup X :
                 hash = block_hash(b) /\ validate_block(s, b, s.round)
    PROVE  Quiet(s, cast_vote(s, phase, hash), X)
<1> DEFINE t == cast_vote(s, phase, hash)
           v == [validator |-> s.node_id, height |-> s.height, round |-> s.round,
                 phase |-> phase, hash |-> hash]
<1>1. /\ DOMAIN t = Field /\ t.height = s.height /\ t.ledger = s.ledger
      /\ t.sent_votes = s.sent_votes \cup {v} /\ Blocks(t) = Blocks(s)
  BY DEF cast_vote, Field, Blocks
<1>2. v.phase = phase /\ v.hash = hash /\ v.height = s.height /\ v.round = s.round
  OBVIOUS
<1> HIDE DEF t, v
<1>3. \A w \in Prevotes(t) \ Prevotes(s) : CastFor(s, w, Blocks(s) \cup X)
  BY <1>1, <1>2 DEF Prevotes, CastFor
<1> QED
  BY <1>1, <1>3 DEF Quiet, t

LEMMA PrevoteQuiet ==
    ASSUME NEW s, NEW b, NEW X, DOMAIN s = Field, b \in Blocks(s) \cup X
    PROVE  Quiet(s, cast_vote(s, "PREVOTE", prevote_hash(s, b, s.round)), X)
<1>1. \/ prevote_hash(s, b, s.round) = NIL
      \/ prevote_hash(s, b, s.round) = block_hash(b) /\ validate_block(s, b, s.round)
  BY DEF prevote_hash
<1> QED
  BY <1>1, CastQuiet

LEMMA ProposeQuiet ==
    ASSUME NEW s, NEW d, DOMAIN s = Field
    PROVE  \E X : Quiet(s, propose(s, d), X) /\ \A b \in X : b.data = d
<1> DEFINE new == new_block(s, d)
           b == IF s.valid_block # None /\ s.node_id \notin Byzantine
                THEN s.valid_block ELSE new
           p == [round |-> s.round, block |-> b]
           t == [s EXCEPT !.proposals = {q \in @ : q.round # s.round} \cup {p},
                          !.sent_proposals = @ \cup {p}]
<1>1. propose(s, d) = cast_vote(t, "PREVOTE", prevote_hash(t, b, t.round))
  BY DEF propose
<1>2. new.data = d
  BY DEF new_block
<1>3. b \in Blocks(s) \cup {new}
  BY DEF Blocks
<1>4. p.block = b
  OBVIOUS
<1> HIDE DEF new, b, p
<1>5. /\ DOMAIN t = Field /\ t.height = s.height /\ t.ledger = s.ledger
      /\ t.sent_votes = s.sent_votes
      /\ t.proposals \subseteq s.proposals \cup {p}
      /\ t.locked_block = s.locked_block /\ t.valid_block = s.valid_block
      /\ p \in t.proposals
  BY DEF Field
<1> HIDE DEF t
<1>6. Quiet(s, t, {new})
  BY <1>3, <1>4, <1>5 DEF Quiet, Blocks, Prevotes
<1>7. b \in Blocks(t)
  BY <1>4, <1>5 DEF Blocks
<1>8. Quiet(t, propose(s, d), {new})
  BY <1>1, <1>5, <1>7, PrevoteQuiet
<1>9. Quiet(s, propose(s, d), {new})
  BY <1>6, <1>8, QuietOn
<1> QED
  BY <1>2, <1>9

LEMMA EnterRoundQuiet ==
    ASSUME NEW s, NEW r, NEW d, DOMAIN s = Field
    PROVE  \E X : Quiet(s, enter_round(s, r, d), X) /\ \A b \in X : b.data = d
<1> DEFINE u == [s EXCEPT !.round = r, !.step = "PROPOSE"]
           t == reset_round_timeout(u)
<1>1. enter_round(s, r, d) = IF is_proposer(t) THEN propose(t, d) ELSE t
  BY DEF enter_round
<1>2. /\ DOMAIN u = Field /\ u.height = s.height /\ u.ledger = s.ledger
      /\ u.sent_votes = s.sent_votes /\ Blocks(u) = Blocks(s)
  BY DEF Field, Blocks
<1> HIDE DEF u
<1>3. /\ DOMAIN t = Field /\ t.height = u.height /\ t.ledger = u.ledger
      /\ t.sent_votes = u.sent_votes /\ Blocks(t) = Blocks(u)
  BY <1>2 DEF reset_round_timeout, cancel, Field, Blocks
<1> HIDE DEF t
<1>4. \A X : Quiet(s, t, X)
  BY <1>2, <1>3 DEF Quiet, Prevotes
<1>5. Quiet(s, t, {})
  BY <1>4
<1>6. PICK X : Quiet(t, propose(t, d), X) /\ \A b \in X : b.data = d
  BY <1>3, ProposeQuiet
<1>7. Quiet(s, propose(t, d), X)
  BY <1>4, <1>6, QuietOn
<1> QED
  BY <1>1, <1>5, <1>6, <1>7

LEMMA EnterRoundEffect ==
    ASSUME NEW s, NEW r, NEW B, NEW d, DOMAIN s = Field
    PROVE  Effect(s, enter_round(s, r, d), B, d)
<1>1. Quiet(s, s, B)
  BY QuietStay
<1>2. PICK X : Quiet(s, enter_round(s, r, d), X) /\ \A b \in X : b.data = d
  BY EnterRoundQuiet
<1> QED
  BY <1>1, <1>2 DEF Effect

LEMMA CommitEffect ==
    ASSUME NEW s, NEW B, NEW d, DOMAIN s = Field, s.locked_block # None
    PROVE  Effect(s, commit(s, d), B, d)
<1> DEFINE t == [cancel(s) EXCEPT
                   !.ledger = Append(@, s.locked_block), !.height = @ + 1,
                   !.locked_block = None, !.locked_round = -1,
                   !.valid_block = None, !.valid_round = -1,
                   !.proposals = {}, !.votes = {}]
<1>1. commit(s, d) = enter_round(t, 0, d)
  BY DEF commit
<1>2. /\ DOMAIN t = Field /\ t.ledger = Append(s.ledger, s.locked_block)
      /\ t.height = s.height + 1 /\ t.sent_votes = s.sent_votes
      /\ t.proposals = {} /\ t.locked_block = None /\ t.valid_block = None
  BY DEF cancel, Field
<1> HIDE DEF t
<1>3. Blocks(t) = {} /\ s.locked_block \in Blocks(s)
  BY <1>2 DEF Blocks
<1>4. Finalizes(s, t)
  BY <1>2, <1>3 DEF Finalizes
<1>5. Quiet(s, s, B)
  BY QuietStay
<1>6. PICK X : Quiet(t, commit(s, d), X) /\ \A b \in X : b.data = d
  BY <1>1, <1>2, EnterRoundQuiet
<1> QED
  BY <1>4, <1>5, <1>6 DEF Effect

LEMMA TallyPrecommitsEffect ==
    ASSUME NEW s, NEW r, NEW B, NEW d, DOMAIN s = Field
    PROVE  Effect(s, tally_precommits(s, r, d), B, d)
<1>1. Effect(s, s, B, d)
  BY QuietStay, EffectOfQuiet
<1>2. Effect(s, on_precommit_nil_quorum(s, r, d), B, d)
  BY <1>1, EnterRoundEffect DEF on_precommit_nil_quorum
<1>3. \A hash : Effect(s, on_precommit_quorum(s, hash, d), B, d)
  BY <1>1, CommitEffect DEF on_precommit_quorum
<1> QED
  BY <1>1, <1>2, <1>3 DEF tally_precommits

LEMMA SendPrecommitEffect ==
    ASSUME NEW s, NEW hash, NEW B, NEW d, DOMAIN s = Field
    PROVE  Effect(s, send_precommit(s, hash, d), B, d)
<1>1. Effect(s, s, B, d)
  BY QuietStay, EffectOfQuiet
<1> DEFINE t == cast_vote(s, "PRECOMMIT", hash)
<1>2. Quiet(s, t, B)
  BY CastQuiet
<1>3. send_precommit(s, hash, d) =
        IF has_voted(s, s.node_id, s.round, "PRECOMMIT") THEN s
        ELSE tally_precommits(t, s.round, d)
  BY DEF send_precommit
<1> HIDE DEF t
<1>4. Effect(t, tally_precommits(t, s.round, d), B, d)
  BY <1>2, TallyPrecommitsEffect DEF Quiet
<1> QED
  BY <1>1, <1>2, <1>3, <1>4, EffectOn

LEMMA OnPrevoteQuorumEffect ==
    ASSUME NEW s, NEW r, NEW b, NEW B, NEW d, DOMAIN s = Field, b \in Blocks(s)
    PROVE  Effect(s, on_prevote_quorum(s, r, b, d), B, d)
<1> DEFINE lock  == IF r >= s.locked_round
                    THEN [s EXCEPT !.locked_block = b, !.locked_round = r] ELSE s
           valid == IF r >= s.valid_round
                    THEN [lock EXCEPT !.valid_block = b, !.valid_round = r]
                    ELSE lock
<1>1. on_prevote_quorum(s, r, b, d) =
         IF r = s.round /\ s.step = "PREVOTE"
         THEN send_precommit(valid, block_hash(b), d) ELSE valid
  BY DEF on_prevote_quorum
<1>2. /\ DOMAIN lock = Field /\ lock.height = s.height /\ lock.ledger = s.ledger
      /\ lock.sent_votes = s.sent_votes /\ lock.proposals = s.proposals
      /\ lock.locked_block \in {b, s.locked_block} /\ lock.valid_block = s.valid_block
  BY DEF Field
<1> HIDE DEF lock
<1>3. /\ DOMAIN valid = Field /\ valid.height = s.height /\ valid.ledger = s.ledger
      /\ valid.sent_votes = s.sent_votes /\ valid.proposals = s.proposals
      /\ valid.locked_block \in {b, s.locked_block}
      /\ valid.valid_block \in {b, s.valid_block}
  BY <1>2 DEF Field
<1> HIDE DEF valid
<1>4. Quiet(s, valid, B)
  BY <1>3 DEF Quiet, Blocks, Prevotes
<1>5. Effect(valid, send_precommit(valid, block_hash(b), d), B, d)
  BY <1>3, SendPrecommitEffect
<1> QED
  BY <1>1, <1>4, <1>5, EffectOn, EffectOfQuiet

LEMMA TallyPrevotesEffect ==
    ASSUME NEW s, NEW r, NEW B, NEW d, DOMAIN s = Field
    PROVE  Effect(s, tally_prevotes(s, r, d), B, d)
<1>1. Effect(s, s, B, d)
  BY QuietStay, EffectOfQuiet
<1>2. Effect(s, on_prevote_nil_quorum(s, r, d), B, d)
  BY <1>1, SendPrecommitEffect DEF on_prevote_nil_quorum
<1> DEFINE P == {p \in s.proposals : p.round = r
                                     /\ block_hash(p.block) \in winners(s, r, "PREVOTE")}
           b == (CHOOSE p \in P : TRUE).block
<1>3. ASSUME P # {}
      PROVE  Effect(s, on_prevote_quorum(s, r, b, d), B, d)
  <2>1. b \in Blocks(s)
    BY <1>3 DEF Blocks
  <2> QED
    BY <2>1, OnPrevoteQuorumEffect
<1> QED
  BY <1>1, <1>2, <1>3 DEF tally_prevotes

LEMMA HandleProposalEffect ==
    ASSUME NEW s, NEW b, NEW r, NEW d, DOMAIN s = Field
    PROVE  Effect(s, handle_proposal_local(s, b, r, d), {b}, d)
<1> DEFINE q == [round |-> r, block |-> b]
           t == IF \E p \in s.proposals : p.round = r THEN s
                ELSE [s EXCEPT !.proposals = @ \cup {q}]
           u == cast_vote(t, "PREVOTE", prevote_hash(t, b, r))
<1>1. handle_proposal_local(s, b, r, d) =
        IF r # t.round \/ t.step # "PROPOSE" \/ has_voted(t, t.node_id, r, "PREVOTE")
        THEN t ELSE tally_prevotes(u, r, d)
  BY DEF handle_proposal_local
<1>2. q.block = b
  OBVIOUS
<1> HIDE DEF q
<1>3. /\ DOMAIN t = Field /\ t.height = s.height /\ t.ledger = s.ledger
      /\ t.sent_votes = s.sent_votes /\ t.proposals \subseteq s.proposals \cup {q}
      /\ t.locked_block = s.locked_block /\ t.valid_block = s.valid_block
  BY DEF Field
<1> HIDE DEF t
<1>4. Quiet(s, t, {b})
  BY <1>2, <1>3 DEF Quiet, Blocks, Prevotes
<1>5. r = t.round => Quiet(t, u, {b})
  BY <1>3, PrevoteQuiet
<1> HIDE DEF u
<1>6. r = t.round => Effect(u, tally_prevotes(u, r, d), {b}, d)
  BY <1>5, TallyPrevotesEffect DEF Quiet
<1>7. r = t.round => Effect(s, tally_prevotes(u, r, d), {b}, d)
  BY <1>4, <1>5, <1>6, EffectOn
<1> QED
  BY <1>1, <1>4, <1>7, EffectOfQuiet

LEMMA OnProposalEffect ==
    ASSUME NEW s, NEW p, NEW d, DOMAIN s = Field
    PROVE  Effect(s, on_proposal(s, p, d), {p.block}, d)
BY HandleProposalEffect, QuietStay, EffectOfQuiet DEF on_proposal

LEMMA OnVoteEffect ==
    ASSUME NEW s, NEW v, NEW B, NEW d, DOMAIN s = Field
    PROVE  Effect(s, on_vote(s, v, d), B, d)
<1> DEFINE t == [s EXCEPT !.votes = @ \cup {v}]
<1>1. on_vote(s, v, d) =
        IF v.height # s.height \/ has_voted(s, v.validator, v.round, v.phase) THEN s
        ELSE IF v.phase = "PREVOTE" THEN tally_prevotes(t, v.round, d)
             ELSE tally_precommits(t, v.round, d)
  BY DEF on_vote
<1>2. Quiet(s, t, B)
  BY DEF Quiet, Blocks, Prevotes, Field
<1> HIDE DEF t
<1>3. /\ Effect(t, tally_prevotes(t, v.round, d), B, d)
      /\ Effect(t, tally_precommits(t, v.round, d), B, d)
  BY <1>2, TallyPrevotesEffect, TallyPrecommitsEffect DEF Quiet
<1> QED
  BY <1>1, <1>2, <1>3, EffectOn, EffectOfQuiet, QuietStay

-----------------------------------------------------------------------------
(* Parked headers.                                                         *)

\* What is parked was proposed, and is of the height and chain of the node.
Parked ==
    /\ Inv
    /\ pending_headers \in [Honest -> SUBSET Proposal]
    /\ \A m \in Honest : \A p \in pending_headers[m] :
          p \in Proposals /\ accept_header(node[m], p.block, p.round)

\* The blocks B are acceptable proposals, put together from this mempool.
Given(m, pool, B) ==
    \A b \in B : \E p \in Proposal :
       /\ b = assembled(p, pool, state[m]).block /\ b.data \in Data
       /\ missing(pool, tx_hashes(p)) = <<>>
       /\ accept_header(node[m], p.block, p.round)

\* What a block has in it that m builds when it has settled.
Built(m) == packed(mempool'[m], state'[m])

\* m has handled an event, with this mempool and these headers parked.
Handled(m, pool, parked) ==
    /\ \A k \in Honest \ {m} : node'[k] = node[k]
    /\ Sends(node[m], node'[m])
    /\ Settle(m, node'[m].ledger, pool, parked)
    /\ parked \in SUBSET pending_headers[m]
    /\ Built(m) \in Data
    /\ \E B : Given(m, pool, B) /\ Effect(node[m], node'[m], B, Built(m))

LEMMA NodeField == Inv => \A m \in Honest : DOMAIN node[m] = Field
BY DEF Inv, TypeOK, NodeState, Field

\* Nothing proposed on the chain of m is taken back, unless m commits.
LEMMA ProposalStays ==
    ASSUME NEW m \in Honest, NEW p \in Proposals,
           p.block.parent = parent_hash(node[m]),
           parent_hash(node'[m]) = parent_hash(node[m]),
           \A k \in Honest : node[k].sent_proposals \subseteq node'[k].sent_proposals
    PROVE  p \in Proposals'
<1>1. CASE p \in HonestProposals
  BY <1>1 DEF HonestProposals, Proposals
<1>2. CASE p \in ByzantineProposals
  <2>1. PICK x \in {y \in Rounds \X {parent_hash(node[k]) : k \in Honest} :
                       proposer_for(Len(y[2]), y[1]) \in Byzantine \ Silent},
             late \in {0, 1}, data \in Data :
           p = [round |-> x[1],
                block |-> [height |-> Len(x[2]), parent |-> x[2],
                           proposer |-> proposer_for(Len(x[2]), x[1]),
                           time |-> x[1] + late, data |-> data]]
    BY <1>2 DEF ByzantineProposals
  <2>2. x[2] = parent_hash(node'[m])
    BY <2>1
  <2>3. x \in {y \in Rounds \X {parent_hash(node'[k]) : k \in Honest} :
                  proposer_for(Len(y[2]), y[1]) \in Byzantine \ Silent}
    BY <2>1, <2>2
  <2>4. p \in ByzantineProposals'
    BY <2>1, <2>3 DEF ByzantineProposals
  <2> QED
    BY <2>4 DEF Proposals
<1> QED
  BY <1>1, <1>2 DEF Proposals

\* An event of the engine of m keeps what remains parked acceptable: nothing
\* does, unless the ledger is the old one.
LEMMA EventParks ==
    ASSUME Parked, Next, NEW m \in Honest, NEW pool, NEW parked, Handled(m, pool, parked)
    PROVE  Parked'
<1> DEFINE s == node[m]
           t == node'[m]
           done == SubSeq(t.ledger, Len(s.ledger) + 1, Len(t.ledger))
<1>1. Inv /\ Inv' /\ OneGrows
  BY InvStep, StepGrows DEF Parked
<1>2. /\ s \in NodeState /\ t \in NodeState
      /\ \A k \in Honest \ {m} : node'[k] = node[k]
      /\ Len(s.ledger) = s.height /\ Len(t.ledger) = t.height
  BY <1>1 DEF Inv, TypeOK, ChainOK, Handled
<1>3. \A k \in Honest : node[k].sent_proposals \subseteq node'[k].sent_proposals
  BY <1>2 DEF Handled, Sends
<1>4. Grows(s, t)
  BY <1>1, <1>2 DEF OneGrows, Grows
<1>5. /\ pending_headers' = [pending_headers EXCEPT ![m] = parked_after(parked, done)]
      /\ parked_after(parked, done) \in SUBSET pending_headers[m]
  BY DEF Handled, Settle, parked_after
<1>6. pending_headers' \in [Honest -> SUBSET Proposal]
  BY <1>5 DEF Parked
<1>7. ASSUME NEW p \in pending_headers'[m]
      PROVE  p \in Proposals' /\ accept_header(t, p.block, p.round)
  <2>1. done = <<>> /\ p \in pending_headers[m]
    BY <1>5, <1>7 DEF parked_after, Parked
  <2>2. t.ledger = s.ledger
    <3>1. ASSUME NEW b \in Block, t.ledger = Append(s.ledger, b)
          PROVE  FALSE
      <4>1. s.ledger \in Seq(Block)
        BY <1>2 DEF NodeState
      <4>2. Len(t.ledger) = Len(s.ledger) + 1 /\ Len(s.ledger) \in Nat
        BY <3>1, <4>1
      <4>3. Len(done) = 1
        BY <4>2
      <4>4. Len(done) = 0
        <5> HIDE DEF done
        <5> QED
          BY <2>1
      <4> QED
        BY <4>3, <4>4
    <3> QED
      BY <1>4, <3>1 DEF Grows
  <2>3. parent_hash(t) = parent_hash(s) /\ t.height = s.height
    BY <1>2, <2>2 DEF parent_hash
  <2>4. p \in Proposals /\ accept_header(s, p.block, p.round)
    BY <2>1 DEF Parked
  <2> QED
    BY <1>2, <1>3, <2>3, <2>4, ProposalStays DEF accept_header
<1>8. ASSUME NEW k \in Honest \ {m}, NEW p \in pending_headers'[k]
      PROVE  p \in Proposals' /\ accept_header(node'[k], p.block, p.round)
  <2>1. p \in pending_headers[k] /\ node'[k] = node[k]
    BY <1>2, <1>5, <1>8 DEF Parked
  <2>2. p \in Proposals /\ accept_header(node[k], p.block, p.round)
    BY <2>1 DEF Parked
  <2> QED
    BY <1>3, <2>1, <2>2, ProposalStays DEF accept_header
<1> QED
  BY <1>1, <1>2, <1>6, <1>7, <1>8 DEF Parked

\* So does any step that finalizes nothing and parks only what is acceptable.
LEMMA QuietParks ==
    ASSUME Parked, Inv',
           \A k \in Honest : /\ node'[k].ledger = node[k].ledger
                             /\ node[k].sent_proposals \subseteq node'[k].sent_proposals,
           pending_headers' \in [Honest -> SUBSET Proposal],
           \A k \in Honest : \A p \in pending_headers'[k] :
              p \in Proposals /\ accept_header(node[k], p.block, p.round)
    PROVE  Parked'
<1>1. \A k \in Honest : /\ parent_hash(node'[k]) = parent_hash(node[k])
                        /\ node'[k].height = node[k].height
  BY DEF parent_hash, Parked, Inv, ChainOK
<1>2. ASSUME NEW k \in Honest, NEW p \in pending_headers'[k]
      PROVE  p \in Proposals' /\ accept_header(node'[k], p.block, p.round)
  <2>1. p \in Proposals /\ accept_header(node[k], p.block, p.round)
    BY <1>2
  <2> QED
    BY <1>1, <2>1, ProposalStays DEF accept_header
<1> QED
  BY <1>2 DEF Parked

-----------------------------------------------------------------------------
(* Each event of Gossip is one of Engine, or leaves all nodes alone.       *)

\* The copies a node has of the contents are a way to hold the proposal.
LEMMA AssembledAsHeld ==
    ASSUME NEW p \in Proposal, NEW pool, NEW st,
           assembled(p, pool, st).block.data \in Data
    PROVE  assembled(p, pool, st) \in AsHeld(p)
<1> DEFINE q == assembled(p, pool, st)
<1>1. /\ q = [p EXCEPT !.block.data = q.block.data]
      /\ q.block.data.hashed = p.block.data.hashed
  BY DEF assembled, Proposal, Block
<1> QED
  BY <1>1 DEF AsHeld

\* A handler settles as it leaves the ledger, whatever the block it may build.
LEMMA BecomeHandled ==
    ASSUME Parked, NEW m \in Honest, NEW t, NEW u, NEW pool,
           NEW parked \in SUBSET pending_headers[m], NEW B,
           Become(m, t), Alike(node[m], t, u), Settle(m, u.ledger, pool, parked),
           Built(m) \in Data, Given(m, pool, B), Effect(node[m], t, B, Built(m))
    PROVE  Handled(m, pool, parked)
<1>1. node'[m] = t /\ \A k \in Honest \ {m} : node'[k] = node[k]
  BY DEF Become, Parked, Inv, TypeOK
<1>2. Settle(m, node'[m].ledger, pool, parked)
  BY <1>1 DEF Alike
<1> QED
  BY <1>1, <1>2 DEF Handled, Alike

LEMMA DeliverHeaderStep ==
    ASSUME Parked, NEW m \in Honest, DeliverHeader(m, node[m])
    PROVE  Next /\ Handled(m, mempool[m], pending_headers[m])
<1>1. PICK p \in Proposals :
         LET q == assembled(p, mempool[m], state[m])
         IN  /\ accept_header(node[m], p.block, p.round)
             /\ missing(mempool[m], tx_hashes(p)) = <<>>
             /\ q.block.data \in Data
             /\ Handle(m, mempool[m], pending_headers[m],
                       LAMBDA d : on_proposal(node[m], q, d))
  BY DEF DeliverHeader
<1> DEFINE q == assembled(p, mempool[m], state[m])
           data == Built(m)
<1>2. PICK e :
         /\ data \in Data
         /\ Become(m, on_proposal(node[m], q, data))
         /\ Settle(m, on_proposal(node[m], q, e).ledger, mempool[m], pending_headers[m])
  BY <1>1 DEF Handle, Built
<1>3. p \in Proposal /\ q \in AsHeld(p)
  BY <1>1, ProposalsType, AssembledAsHeld DEF Parked
<1>4. Given(m, mempool[m], {q.block})
  BY <1>1, <1>3 DEF Given
<1> HIDE DEF q, data
<1>5. DeliverProposal(m)
  BY <1>2, <1>3 DEF DeliverHeader, Up, DeliverProposal
<1>6. Alike(node[m], on_proposal(node[m], q, data), on_proposal(node[m], q, e))
  BY NodeField, OnProposalAlike DEF Parked
<1>7. Effect(node[m], on_proposal(node[m], q, data), {q.block}, data)
  BY NodeField, OnProposalEffect DEF Parked
<1> QED
  BY <1>2, <1>4, <1>5, <1>6, <1>7, BecomeHandled DEF Next, data

LEMMA AbsorbBodiesStep ==
    ASSUME Parked, NEW m \in Honest, AbsorbBodies(m, node[m])
    PROVE  \E x \in responses : \E rest \in SUBSET pending_headers[m] :
              \/ Next /\ Handled(m, absorb(mempool[m], x.bodies), rest)
              \/ /\ mempool' = [mempool EXCEPT ![m] = absorb(mempool[m], x.bodies)]
                 /\ pending_headers' = [pending_headers EXCEPT ![m] = rest]
                 /\ UNCHANGED <<node, state>>
<1>1. PICK x \in responses : \E pool \in {absorb(mempool[m], x.bodies)} :
         LET here == {p \in pending_headers[m] : p.round = x.round}
             rest == pending_headers[m] \ here
             ready == {p \in here : missing(pool, tx_hashes(p)) = <<>>}
         IN  \/ /\ mempool' = [mempool EXCEPT ![m] = pool]
                /\ pending_headers' = [pending_headers EXCEPT ![m] = rest]
                /\ UNCHANGED <<node, state>>
             \/ \E p \in ready :
                   LET q == assembled(p, pool, state[m])
                   IN  /\ q.block.data \in Data
                       /\ Handle(m, pool, rest,
                            LAMBDA d : handle_proposal_local(
                                         node[m], q.block, q.round, d))
  BY DEF AbsorbBodies
<1> DEFINE pool == absorb(mempool[m], x.bodies)
           rest == pending_headers[m] \ {p \in pending_headers[m] : p.round = x.round}
           do(q, d) == handle_proposal_local(node[m], q.block, q.round, d)
           data == Built(m)
<1>2. \/ /\ mempool' = [mempool EXCEPT ![m] = pool]
         /\ pending_headers' = [pending_headers EXCEPT ![m] = rest]
         /\ UNCHANGED <<node, state>>
      \/ \E p \in pending_headers[m] : \E e :
            /\ data \in Data
            /\ missing(pool, tx_hashes(p)) = <<>>
            /\ assembled(p, pool, state[m]).block.data \in Data
            /\ Become(m, do(assembled(p, pool, state[m]), data))
            /\ Settle(m, do(assembled(p, pool, state[m]), e).ledger, pool, rest)
  BY <1>1 DEF Handle, Built
<1>3. rest \in SUBSET pending_headers[m]
  OBVIOUS
<1> HIDE DEF pool, rest, data
<1>4. ASSUME NEW p \in pending_headers[m], NEW e, data \in Data,
             missing(pool, tx_hashes(p)) = <<>>,
             assembled(p, pool, state[m]).block.data \in Data,
             Become(m, do(assembled(p, pool, state[m]), data)),
             Settle(m, do(assembled(p, pool, state[m]), e).ledger, pool, rest)
      PROVE  Next /\ Handled(m, pool, rest)
  <2> DEFINE q == assembled(p, pool, state[m])
  <2>1. p \in Proposals /\ p \in Proposal /\ accept_header(node[m], p.block, p.round)
    BY ProposalsType DEF Parked
  <2>2. q \in AsHeld(p)
    BY <1>4, <2>1, AssembledAsHeld
  <2>3. accept_header(node[m], q.block, q.round)
    BY <2>1 DEF assembled, accept_header, Proposal, Block
  <2>4. Become(m, do(q, data)) /\ Settle(m, do(q, e).ledger, pool, rest)
    BY <1>4
  <2>5. Given(m, pool, {q.block})
    BY <1>4, <2>1 DEF Given
  <2> HIDE DEF q
  <2>6. do(q, data) = on_proposal(node[m], q, data)
    BY <2>3 DEF on_proposal
  <2>7. DeliverProposal(m)
    BY <1>4, <2>1, <2>2, <2>4, <2>6 DEF AbsorbBodies, Up, DeliverProposal
  <2>8. Alike(node[m], do(q, data), do(q, e))
    BY NodeField, HandleProposalAlike DEF Parked
  <2>9. Effect(node[m], do(q, data), {q.block}, data)
    BY NodeField, HandleProposalEffect DEF Parked
  <2> HIDE DEF do
  <2> QED
    BY <1>3, <1>4, <2>4, <2>5, <2>7, <2>8, <2>9, BecomeHandled DEF Next, data
<1> QED
  BY <1>2, <1>3, <1>4 DEF pool

LEMMA VoteStep ==
    ASSUME Parked, NEW m \in Honest, GossipVote(m, node[m])
    PROVE  Next /\ Handled(m, mempool[m], pending_headers[m])
<1>1. PICK v \in Votes :
         Handle(m, mempool[m], pending_headers[m], LAMBDA d : on_vote(node[m], v, d))
  BY DEF GossipVote
<1> DEFINE data == Built(m)
<1>2. PICK e :
         /\ data \in Data
         /\ Become(m, on_vote(node[m], v, data))
         /\ Settle(m, on_vote(node[m], v, e).ledger, mempool[m], pending_headers[m])
  BY <1>1 DEF Handle, Built
<1> HIDE DEF data
<1>3. DeliverVote(m)
  BY <1>2 DEF GossipVote, Up, DeliverVote
<1>4. Alike(node[m], on_vote(node[m], v, data), on_vote(node[m], v, e))
  BY NodeField, OnVoteAlike DEF Parked
<1>5. Effect(node[m], on_vote(node[m], v, data), {}, data)
  BY NodeField, OnVoteEffect DEF Parked
<1>6. Given(m, mempool[m], {})
  BY DEF Given
<1> QED
  BY <1>2, <1>3, <1>4, <1>5, <1>6, BecomeHandled DEF Next, data

LEMMA GossipTimeoutStep ==
    ASSUME Parked, NEW m \in Honest, GossipTimeout(m)
    PROVE  Next /\ Handled(m, mempool[m], pending_headers[m])
<1>1. PICK t \in node[m].timers :
         LET s == [node[m] EXCEPT !.timers = @ \ {t}]
         IN  Handle(m, mempool[m], pending_headers[m],
                    LAMBDA d : enter_round(s, s.round + 1, d))
  BY DEF GossipTimeout
<1> DEFINE s == [node[m] EXCEPT !.timers = @ \ {t}]
           do(d) == enter_round(s, s.round + 1, d)
           data == Built(m)
<1>2. PICK e :
         /\ data \in Data
         /\ Become(m, do(data))
         /\ Settle(m, do(e).ledger, mempool[m], pending_headers[m])
  BY <1>1 DEF Handle, Built
<1> HIDE DEF data
<1>3. RoundTimeout(m)
  BY <1>2 DEF GossipTimeout, RoundTimeout
<1>4. Sends(node[m], s) /\ Quiet(node[m], s, {})
  BY NodeField DEF Parked, Sends, Field, Quiet, Blocks, Prevotes
<1> HIDE DEF s
<1>5. Alike(node[m], do(data), do(e))
  BY <1>4, EnterRoundSends DEF Alike, Sends
<1>6. Effect(s, do(data), {}, data)
  BY <1>4, EnterRoundEffect DEF Sends
<1>7. Effect(node[m], do(data), {}, data)
  BY <1>4, <1>6, EffectOn
<1>8. Given(m, mempool[m], {})
  BY DEF Given
<1> HIDE DEF do
<1> QED
  BY <1>2, <1>3, <1>5, <1>7, <1>8, BecomeHandled DEF Next, data

LEMMA GossipStartStep ==
    ASSUME Parked, GossipStart
    PROVE  Next /\ Parked'
<1> DEFINE data == [m \in Honest |-> packed(mempool[m], state[m])]
<1>1. data \in [Honest -> Data]
  BY DEF GossipStart
<1>2. node' = [m \in Honest |-> IF node[m].crashed THEN node[m]
                                ELSE enter_round(node[m], 0, data[m])]
  BY DEF GossipStart
<1> HIDE DEF data
<1>3. Next
  BY <1>1, <1>2 DEF GossipStart, Start, Next
<1>4. Inv'
  BY <1>3, InvStep DEF Parked
<1>5. ASSUME NEW k \in Honest
      PROVE  /\ node'[k].ledger = node[k].ledger
             /\ node[k].sent_proposals \subseteq node'[k].sent_proposals
  BY <1>2, NodeField, EnterRoundSends DEF Parked, Sends
<1> QED
  BY <1>3, <1>4, <1>5, QuietParks DEF GossipStart, Parked

LEMMA ParkHeaderStep ==
    ASSUME Parked, NEW m \in Honest, ParkHeader(m)
    PROVE  Parked'
<1>1. PICK p \in Proposals :
         /\ accept_header(node[m], p.block, p.round)
         /\ pending_headers' = [pending_headers EXCEPT
              ![m] = {q \in @ : q.round # p.round} \cup {p}]
  BY DEF ParkHeader
<1>2. p \in Proposal
  BY ProposalsType DEF Parked
<1>3. UNCHANGED node /\ Inv'
  BY InvStep DEF ParkHeader, Parked
<1>4. /\ pending_headers' \in [Honest -> SUBSET Proposal]
      /\ \A k \in Honest : pending_headers'[k] \subseteq
            pending_headers[k] \cup (IF k = m THEN {p} ELSE {})
  BY <1>1, <1>2 DEF Parked
<1> QED
  BY <1>1, <1>3, <1>4, QuietParks DEF Parked

LEMMA GossipCrashStep ==
    ASSUME Parked, NEW m \in Honest, GossipCrash(m)
    PROVE  Next /\ Parked'
<1>1. Next
  BY DEF GossipCrash, Next
<1>2. Inv'
  BY <1>1, InvStep DEF Parked
<1>3. \A k \in Honest : /\ node'[k].ledger = node[k].ledger
                        /\ node'[k].sent_proposals = node[k].sent_proposals
  BY NodeField DEF GossipCrash, Crash, Parked, Inv, TypeOK, NodeState
<1> QED
  BY <1>1, <1>2, <1>3, QuietParks DEF GossipCrash, Parked

LEMMA IdleStep ==
    ASSUME Parked, UNCHANGED <<node, pending_headers>>
    PROVE  Parked'
<1>1. Inv'
  BY InvStep DEF Parked
<1> QED
  BY <1>1, QuietParks DEF Parked

\* What a step of Gossip is for the nodes, the mempools and the states.
Moves(m) ==
    \/ Next /\ Handled(m, mempool[m], pending_headers[m])
    \/ \E x \in responses : \E rest \in SUBSET pending_headers[m] :
          \/ Next /\ Handled(m, absorb(mempool[m], x.bodies), rest)
          \/ /\ mempool' = [mempool EXCEPT ![m] = absorb(mempool[m], x.bodies)]
             /\ pending_headers' = [pending_headers EXCEPT ![m] = rest]
             /\ UNCHANGED <<node, state>>

LEMMA EventStep ==
    ASSUME Parked, NEW m \in Honest,
           \/ DeliverHeader(m, node[m]) \/ AbsorbBodies(m, node[m])
           \/ GossipVote(m, node[m]) \/ GossipTimeout(m)
    PROVE  Moves(m)
BY DeliverHeaderStep, AbsorbBodiesStep, VoteStep, GossipTimeoutStep DEF Moves

LEMMA MovesStep ==
    ASSUME Parked, NEW m \in Honest, Moves(m)
    PROVE  [Next]_node /\ Parked'
<1>1. ASSUME NEW rest \in SUBSET pending_headers[m], UNCHANGED node,
             pending_headers' = [pending_headers EXCEPT ![m] = rest]
      PROVE  Parked'
  <2>1. Inv'
    BY <1>1, InvStep DEF Parked
  <2> QED
    BY <1>1, <2>1, QuietParks DEF Parked
<1>2. ASSUME NEW pool, NEW rest, Next, Handled(m, pool, rest)
      PROVE  Parked'
  BY <1>2, EventParks
<1> QED
  BY <1>1, <1>2 DEF Moves

LEMMA GossipStep == Parked /\ [GossipNext]_vars => [Next]_node /\ Parked'
<1> SUFFICES ASSUME Parked, [GossipNext]_vars
             PROVE  [Next]_node /\ Parked'
  OBVIOUS
<1>1. CASE UNCHANGED vars
  BY <1>1, IdleStep DEF vars
<1>2. CASE GossipStart
  BY <1>2, GossipStartStep
<1>3. CASE reset_mempool
  BY <1>3, IdleStep DEF reset_mempool
<1>4. ASSUME NEW m \in Honest,
             \/ DeliverHeader(m, node[m]) \/ AbsorbBodies(m, node[m])
             \/ GossipVote(m, node[m]) \/ GossipTimeout(m)
      PROVE  [Next]_node /\ Parked'
  BY <1>4, EventStep, MovesStep
<1>5. ASSUME NEW m \in Honest, GossipCrash(m)
      PROVE  [Next]_node /\ Parked'
  BY <1>5, GossipCrashStep
<1>6. ASSUME NEW m \in Honest, ParkHeader(m)
      PROVE  [Next]_node /\ Parked'
  BY <1>6, ParkHeaderStep DEF ParkHeader
<1>7. ASSUME NEW m \in Honest, ServeBodies(m) \/ submit_tx(m)
      PROVE  [Next]_node /\ Parked'
  BY <1>7, IdleStep DEF ServeBodies, submit_tx
<1> QED
  BY <1>1, <1>2, <1>3, <1>4, <1>5, <1>6, <1>7 DEF GossipNext

LEMMA GossipInitParked == GossipInit => Init /\ Parked
BY InitInv DEF GossipInit, Parked

-----------------------------------------------------------------------------
(* Lists of transactions.                                                  *)

\* those looks at one entry after the other: h takes the length of each prefix
\* to what is kept of it.
Keeps(h, list, S) ==
    /\ h \in [0 .. Len(list) -> Seq(Range(list) \cap S)]
    /\ h[0] = <<>> /\ h[Len(list)] = those(list, S)
    /\ \A k \in 1 .. Len(list) :
          h[k] = IF list[k] \in S THEN Append(h[k - 1], list[k]) ELSE h[k - 1]

LEMMA ThoseSteps ==
    ASSUME NEW T, NEW list \in Seq(T), NEW S
    PROVE  \E h : Keeps(h, list, S)
<1> DEFINE R == Range(list)
           A == Seq(R \cap S)
           g == [y \in A \X R |-> IF y[2] \in S THEN Append(y[1], y[2]) ELSE y[1]]
           Eq(i) == i = [u \in SUBSET DOMAIN list |->
                           IF u = {} THEN <<>>
                           ELSE IF list[Max(u)] \in S
                           THEN Append(i[u \ {Max(u)}], list[Max(u)])
                           ELSE i[u \ {Max(u)}]]
           iter == CHOOSE i : Eq(i)
<1>1. those(list, S) = iter[DOMAIN list]
  BY DEF those, FoldLeft, MapThenFoldSet
<1>2. /\ list \in Seq(R) /\ Len(list) \in Nat /\ DOMAIN list = 1 .. Len(list)
      /\ \A k \in 1 .. Len(list) : list[k] \in R
  BY DEF Range
<1>3. \A u \in SUBSET DOMAIN list : u # {} => list[Max(u)] \in R
  BY <1>2, MaxIn DEF Range
<1> HIDE DEF R
<1>4. g \in [A \X R -> A] /\ <<>> \in A
  OBVIOUS
<1>5. \E i : Eq(i)
  <2> HIDE DEF A, g
  <2>1. PICK I : Folding(I, A, g, <<>>, list)
    BY <1>2, <1>4, FoldExists
  <2>2. \A u \in SUBSET DOMAIN list : I[u] = IF u = {} THEN <<>>
                           ELSE IF list[Max(u)] \in S
                           THEN Append(I[u \ {Max(u)}], list[Max(u)])
                           ELSE I[u \ {Max(u)}]
    BY <2>1, <1>3 DEF g, Folding
  <2> QED
    BY <2>1, <2>2 DEF Folding
<1>6. Eq(iter)
  BY <1>5
<1> HIDE DEF iter
<1>7. Follows(iter, A, g, <<>>, list)
  BY <1>3, <1>6 DEF Follows
<1> HIDE DEF A, g
<1>8. PICK h : Steps(h, A, g, <<>>, list, iter[DOMAIN list])
  BY <1>2, <1>4, <1>7, FoldSteps
<1>9. ASSUME NEW k \in 1 .. Len(list)
      PROVE  h[k] = IF list[k] \in S THEN Append(h[k - 1], list[k]) ELSE h[k - 1]
  <2>1. k - 1 \in 0 .. Len(list) /\ list[k] \in R
    BY <1>2
  <2>2. h[k - 1] \in A /\ h[k] = g[<<h[k - 1], list[k]>>]
    BY <1>8, <2>1 DEF Steps
  <2> QED
    BY <2>1, <2>2 DEF g
<1>10. /\ h \in [0 .. Len(list) -> A] /\ h[0] = <<>> /\ h[Len(list)] = iter[DOMAIN list]
  BY <1>8 DEF Steps
<1> QED
  BY <1>1, <1>9, <1>10 DEF A, R, Keeps

LEMMA ThoseType ==
    ASSUME NEW T, NEW list \in Seq(T), NEW S
    PROVE  those(list, S) \in Seq(Range(list) \cap S)
<1>1. PICK h : Keeps(h, list, S)
  BY ThoseSteps
<1> DEFINE A == Seq(Range(list) \cap S)
<1>2. /\ h \in [0 .. Len(list) -> A] /\ Len(list) \in 0 .. Len(list)
      /\ h[Len(list)] = those(list, S)
  BY <1>1 DEF Keeps
<1> HIDE DEF A
<1>3. those(list, S) \in A
  BY <1>2
<1> QED
  BY <1>3 DEF A

\* Only well signed bodies are absorbed.
LEMMA AbsorbType ==
    ASSUME NEW pool \in Seq(Transaction), NEW received \in Seq(Transaction)
    PROVE  absorb(pool, received) \in
              Seq(Range(pool) \cup {t \in Range(received) : t.verifies})
<1> DEFINE R == Range(received)
           A == Seq(Range(pool) \cup {t \in R : t.verifies})
           skip(have, t) == ~t.verifies \/ tx_hash(t) \in hashes(have)
           g == [y \in A \X R |-> IF skip(y[1], y[2]) THEN y[1] ELSE Append(y[1], y[2])]
           Eq(i) == i = [u \in SUBSET DOMAIN received |->
                           IF u = {} THEN pool
                           ELSE IF skip(i[u \ {Max(u)}], received[Max(u)])
                           THEN i[u \ {Max(u)}]
                           ELSE Append(i[u \ {Max(u)}], received[Max(u)])]
           iter == CHOOSE i : Eq(i)
<1>1. absorb(pool, received) = iter[DOMAIN received]
  BY DEF absorb, FoldLeft, MapThenFoldSet
<1>2. received \in Seq(R) /\ Len(received) \in Nat /\ DOMAIN received = 1 .. Len(received)
  BY DEF Range
<1>3. \A u \in SUBSET DOMAIN received : u # {} => received[Max(u)] \in R
  BY <1>2, MaxIn DEF Range
<1>4. pool \in A
  BY DEF Range
<1> HIDE DEF R
<1>5. g \in [A \X R -> A]
  <2>1. \A y \in A \X R : ~skip(y[1], y[2]) => Append(y[1], y[2]) \in A
    OBVIOUS
  <2> HIDE DEF skip
  <2> QED
    BY <2>1
<1>6. \E i : Eq(i)
  <2> HIDE DEF A, g, skip
  <2>1. PICK I : Folding(I, A, g, pool, received)
    BY <1>2, <1>4, <1>5, FoldExists
  <2>2. \A u \in SUBSET DOMAIN received : I[u] = IF u = {} THEN pool
                           ELSE IF skip(I[u \ {Max(u)}], received[Max(u)])
                           THEN I[u \ {Max(u)}]
                           ELSE Append(I[u \ {Max(u)}], received[Max(u)])
    BY <2>1, <1>3 DEF g, Folding
  <2> QED
    BY <2>1, <2>2 DEF Folding
<1>7. Eq(iter)
  BY <1>6
<1> HIDE DEF iter, skip
<1>8. Follows(iter, A, g, pool, received)
  BY <1>3, <1>7 DEF Follows
<1> HIDE DEF A, g
<1>9. PICK h : Steps(h, A, g, pool, received, iter[DOMAIN received])
  BY <1>2, <1>4, <1>5, <1>8, FoldSteps
<1>10. iter[DOMAIN received] \in A
  BY <1>2, <1>9 DEF Steps
<1> QED
  BY <1>1, <1>10 DEF A, R

\* A node sends what it holds.
LEMMA BodiesType ==
    ASSUME NEW T, NEW pool \in Seq(Transaction), NEW wanted \in Seq(T)
    PROVE  bodies(pool, wanted) \in Seq(Range(pool))
<1> DEFINE here == those(wanted, hashes(pool))
<1>1. here \in Seq(hashes(pool))
  <2>1. here \in Seq(Range(wanted) \cap hashes(pool))
    BY ThoseType
  <2> HIDE DEF here
  <2> QED
    BY <2>1
<1>2. ASSUME NEW h \in hashes(pool)
      PROVE  tx_by_hash(pool, h) \in Range(pool)
  <2> DEFINE u == {i \in 1 .. Len(pool) : tx_hash(pool[i]) = h}
  <2>1. Len(pool) \in Nat /\ DOMAIN pool = 1 .. Len(pool) /\ u \in SUBSET (1 .. Len(pool))
    OBVIOUS
  <2>2. u # {}
    BY <2>1 DEF hashes, Range
  <2>3. PICK i \in u : \A j \in u : j <= i
    <3> HIDE DEF u
    <3> QED
      BY <2>1, <2>2, HasGreatest
  <2>4. \E l \in DOMAIN pool : /\ tx_hash(pool[l]) = h
                               /\ \A j \in DOMAIN pool : tx_hash(pool[j]) = h => j <= l
    BY <2>1, <2>3
  <2> QED
    BY <2>4 DEF tx_by_hash, Range
<1> HIDE DEF here
<1>3. Len(here) \in Nat /\ DOMAIN here = 1 .. Len(here)
  BY <1>1
<1>4. bodies(pool, wanted) = [i \in 1 .. Len(here) |-> tx_by_hash(pool, here[i])]
  BY <1>3 DEF bodies, here
<1>5. \A i \in 1 .. Len(here) : tx_by_hash(pool, here[i]) \in Range(pool)
  BY <1>1, <1>2
<1> QED
  BY <1>3, <1>4, <1>5

\* Of a list within S all is kept.
LEMMA ThoseAll ==
    ASSUME NEW T, NEW list \in Seq(T), NEW S, \A k \in 1 .. Len(list) : list[k] \in S
    PROVE  those(list, S) = list
<1>1. PICK h : Keeps(h, list, S)
  BY ThoseSteps
<1>2. Len(list) \in Nat
  OBVIOUS
<1> DEFINE K == {k \in Nat : k <= Len(list) => h[k] = SubSeq(list, 1, k)}
<1>3. 0 \in K
  <2>1. SubSeq(list, 1, 0) = <<>>
    OBVIOUS
  <2> QED
    BY <1>1, <2>1 DEF Keeps
<1>4. ASSUME NEW k \in Nat, k \in K
      PROVE  k + 1 \in K
  <2> SUFFICES ASSUME k + 1 <= Len(list)
               PROVE  h[k + 1] = SubSeq(list, 1, k + 1)
    OBVIOUS
  <2>1. k + 1 \in 1 .. Len(list) /\ (k + 1) - 1 = k /\ h[k] = SubSeq(list, 1, k)
    BY <1>2, <1>4
  <2>2. h[k + 1] = Append(SubSeq(list, 1, k), list[k + 1])
    BY <1>1, <2>1 DEF Keeps
  <2> QED
    BY <1>2, <2>1, <2>2
<1>5. Len(list) \in K
  <2> HIDE DEF K
  <2> QED
    BY <1>2, <1>3, <1>4, Induction
<1>6. SubSeq(list, 1, Len(list)) = list
  OBVIOUS
<1> QED
  BY <1>1, <1>2, <1>5, <1>6 DEF Keeps

\* Of a list from which nothing is kept, nothing is in S.
LEMMA ThoseNone ==
    ASSUME NEW T, NEW list \in Seq(T), NEW S, those(list, S) = <<>>
    PROVE  \A k \in 1 .. Len(list) : list[k] \notin S
<1>1. PICK h : Keeps(h, list, S)
  BY ThoseSteps
<1> DEFINE A == Seq(Range(list) \cap S)
<1>0. h \in [0 .. Len(list) -> A] /\ h[Len(list)] = <<>>
  BY <1>1 DEF Keeps
<1>2. Len(list) \in Nat
  OBVIOUS
<1>3. \A y \in A : \A x : Len(y) \in Nat /\ Append(y, x) # <<>>
  <2> SUFFICES ASSUME NEW y \in A, NEW x
               PROVE  Len(y) \in Nat /\ Append(y, x) # <<>>
    OBVIOUS
  <2>1. Len(Append(y, x)) = Len(y) + 1 /\ Len(y) \in Nat /\ Len(<<>>) = 0
    OBVIOUS
  <2> QED
    BY <2>1
<1> HIDE DEF A
<1> DEFINE Some(k) == \E j \in 1 .. k : list[j] \in S
           K == {k \in Nat : k <= Len(list) => (Some(k) => h[k] # <<>>)}
<1>4. 0 \in K
  OBVIOUS
<1>5. ASSUME NEW k \in Nat, k \in K
      PROVE  k + 1 \in K
  <2> SUFFICES ASSUME k + 1 <= Len(list), Some(k + 1)
               PROVE  h[k + 1] # <<>>
    OBVIOUS
  <2>1. /\ k + 1 \in 1 .. Len(list) /\ (k + 1) - 1 = k /\ k \in 0 .. Len(list)
        /\ Some(k) => h[k] # <<>>
    BY <1>2, <1>5
  <2>2. h[k] \in A
    BY <1>0, <2>1
  <2>3. CASE list[k + 1] \in S
    BY <1>1, <1>3, <2>1, <2>2, <2>3 DEF Keeps
  <2>4. CASE list[k + 1] \notin S
    <3>1. PICK j \in 1 .. k + 1 : list[j] \in S
      OBVIOUS
    <3>2. j \in 1 .. k
      BY <2>4, <3>1
    <3> QED
      BY <1>1, <2>1, <2>4, <3>1, <3>2 DEF Keeps
  <2> QED
    BY <2>3, <2>4
<1>6. Len(list) \in K
  <2> HIDE DEF K
  <2> QED
    BY <1>2, <1>4, <1>5, Induction
<1> QED
  BY <1>0, <1>2, <1>6

\* If nothing is missing, the copies a node puts together have the hashes wanted.
LEMMA BodiesMatch ==
    ASSUME NEW T, NEW pool \in Seq(Transaction), NEW wanted \in Seq(T),
           missing(pool, wanted) = <<>>
    PROVE  tx_root(bodies(pool, wanted)) = wanted
<1>1. \A k \in 1 .. Len(wanted) : wanted[k] \in hashes(pool)
  <2>1. \A k \in 1 .. Len(wanted) : wanted[k] \notin Range(wanted) \ hashes(pool)
    BY ThoseNone DEF missing
  <2>2. \A k \in 1 .. Len(wanted) : wanted[k] \in Range(wanted)
    BY DEF Range
  <2> QED
    BY <2>1, <2>2
<1>2. those(wanted, hashes(pool)) = wanted
  BY <1>1, ThoseAll
<1>3. ASSUME NEW h \in hashes(pool)
      PROVE  tx_hash(tx_by_hash(pool, h)) = h
  <2> DEFINE u == {i \in 1 .. Len(pool) : tx_hash(pool[i]) = h}
  <2>1. Len(pool) \in Nat /\ DOMAIN pool = 1 .. Len(pool) /\ u \in SUBSET (1 .. Len(pool))
    OBVIOUS
  <2>2. u # {}
    BY <2>1 DEF hashes, Range
  <2>3. PICK i \in u : \A j \in u : j <= i
    <3> HIDE DEF u
    <3> QED
      BY <2>1, <2>2, HasGreatest
  <2>4. \E l \in DOMAIN pool : /\ tx_hash(pool[l]) = h
                               /\ \A j \in DOMAIN pool : tx_hash(pool[j]) = h => j <= l
    BY <2>1, <2>3
  <2> HIDE DEF u
  <2> QED
    BY <2>4 DEF tx_by_hash
<1>4. DOMAIN wanted = 1 .. Len(wanted) /\ wanted = [i \in 1 .. Len(wanted) |-> wanted[i]]
  OBVIOUS
<1>5. bodies(pool, wanted) = [i \in 1 .. Len(wanted) |-> tx_by_hash(pool, wanted[i])]
  BY <1>2, <1>4 DEF bodies
<1> QED
  BY <1>1, <1>3, <1>4, <1>5 DEF tx_root

-----------------------------------------------------------------------------
(* Mempools and states.                                                    *)

Payloads(ledger) == FlattenSeq([i \in DOMAIN ledger |-> ledger[i].data.transactions])

LEMMA PayloadsType ==
    ASSUME NEW ledger \in Seq(Block)
    PROVE  Payloads(ledger) \in Seq(Transaction)
<1> DEFINE lists == [i \in DOMAIN ledger |-> ledger[i].data.transactions]
<1>1. \A c \in Block : c.data.transactions \in Seq(Transaction)
  BY DataAssumption DEF Block
<1>2. lists \in Seq(Seq(Transaction)) /\ <<>> \in Seq(Transaction)
  BY <1>1
<1> HIDE DEF lists
<1>3. FlattenSeq(lists) \in Seq(Transaction)
  BY <1>2, FlattenAppend
<1> QED
  BY <1>3 DEF Payloads, lists

LEMMA PayloadsAppend ==
    ASSUME NEW ledger \in Seq(Block), NEW b \in Block
    PROVE  /\ Payloads(ledger) \in Seq(Transaction)
           /\ b.data.transactions \in Seq(Transaction)
           /\ Payloads(Append(ledger, b)) = Payloads(ledger) \o b.data.transactions
<1> DEFINE lists(l) == [i \in DOMAIN l |-> l[i].data.transactions]
           zz == Append(ledger, b)
<1>1. \A c \in Block : c.data.transactions \in Seq(Transaction)
  BY DataAssumption DEF Block
<1>2. /\ Len(ledger) \in Nat /\ DOMAIN ledger = 1 .. Len(ledger)
      /\ \A i \in 1 .. Len(ledger) : ledger[i] \in Block
  OBVIOUS
<1>3. lists(ledger) \in Seq(Seq(Transaction)) /\ Len(lists(ledger)) = Len(ledger)
  BY <1>1, <1>2
<1>4. /\ zz \in Seq(Block) /\ DOMAIN zz = 1 .. Len(ledger) + 1
      /\ zz[Len(ledger) + 1] = b /\ \A i \in 1 .. Len(ledger) : zz[i] = ledger[i]
  OBVIOUS
<1>5. lists(zz) = Append(lists(ledger), b.data.transactions)
  <2> HIDE DEF zz
  <2>1. DOMAIN lists(zz) = 1 .. Len(ledger) + 1
        /\ \A i \in 1 .. Len(ledger) + 1 : lists(zz)[i] = zz[i].data.transactions
    BY <1>4
  <2>2. \A i \in 1 .. Len(ledger) : lists(ledger)[i] = zz[i].data.transactions
    BY <1>2, <1>4
  <2>3. lists(zz) = [i \in 1 .. Len(ledger) + 1 |-> zz[i].data.transactions]
    BY <1>4
  <2> HIDE DEF lists
  <2> QED
    BY <1>1, <1>2, <1>3, <1>4, <2>2, <2>3
<1> HIDE DEF lists
<1>6. Payloads(ledger) = FlattenSeq(lists(ledger)) /\ Payloads(zz) = FlattenSeq(lists(zz))
  BY DEF Payloads, lists
<1> QED
  BY <1>1, <1>3, <1>5, <1>6, FlattenAppend DEF zz

\* m has finalized and executed these transactions.
Executes(m, txs, pool, kept) ==
    /\ History(m) \in Seq(Transaction) /\ History(m)' = History(m) \o txs
    /\ \A k \in Honest \ {m} : History(k)' = History(k)
    /\ mempool' = [mempool EXCEPT ![m] = pruned(pool, txs)]
    /\ state' = [state EXCEPT ![m] = apply_all(state[m], txs)]
    /\ pending_headers' = [pending_headers EXCEPT ![m] = kept]

\* An event executes what it finalizes, once, and nothing else.
LEMMA HandledExecutes ==
    ASSUME Parked, Next, NEW m \in Honest, NEW pool, NEW parked, Handled(m, pool, parked)
    PROVE  \E txs \in Seq(Transaction) : \E kept \in SUBSET parked :
              Executes(m, txs, pool, kept)
<1> DEFINE s == node[m]
           t == node'[m]
           done == SubSeq(t.ledger, Len(s.ledger) + 1, Len(t.ledger))
           txs == IF done = <<>> THEN <<>> ELSE Last(done).data.transactions
<1>1. s.ledger \in Seq(Block) /\ Inv' /\ OneGrows
  BY InvStep, StepGrows DEF Parked, Inv, TypeOK, NodeState
<1>2. \A k \in Honest : History(k) = Payloads(node[k].ledger)
                        /\ History(k)' = Payloads(node'[k].ledger)
  BY DEF History, Payloads
<1>3. \A k \in Honest \ {m} : History(k)' = History(k)
  BY <1>2 DEF Handled
<1>4. Grows(s, t)
  BY <1>1 DEF OneGrows, Grows, Handled
<1>5. txs \in Seq(Transaction) /\ Payloads(t.ledger) = Payloads(s.ledger) \o txs
      /\ Payloads(s.ledger) \in Seq(Transaction)
  <2>1. Payloads(s.ledger) \in Seq(Transaction)
    BY <1>1, PayloadsType
  <2>2. CASE t.ledger = s.ledger
    <3>1. Len(done) = 0
      BY <1>1, <2>2
    <3>2. done = <<>>
      BY <1>1, <2>2
    <3>3. txs = <<>>
      BY <3>2
    <3> QED
      BY <2>1, <2>2, <3>3
  <2>3. ASSUME NEW b \in Block, t.ledger = Append(s.ledger, b)
        PROVE  txs = b.data.transactions
    <3>1. /\ Len(s.ledger) \in Nat /\ Len(t.ledger) = Len(s.ledger) + 1
          /\ t.ledger[Len(s.ledger) + 1] = b
      BY <1>1, <2>3
    <3>2. Len(done) = 1 /\ done[1] = b
      BY <1>1, <2>3, <3>1
    <3>3. Len(<<>>) # 1
      OBVIOUS
    <3> HIDE DEF done
    <3> QED
      BY <3>2, <3>3 DEF Last, txs
  <2> HIDE DEF txs
  <2> QED
    BY <1>1, <1>4, <2>1, <2>2, <2>3, PayloadsAppend DEF Grows
<1>6. /\ mempool' = [mempool EXCEPT ![m] = pruned(pool, txs)]
      /\ state' = [state EXCEPT ![m] = apply_all(state[m], txs)]
      /\ pending_headers' = [pending_headers EXCEPT ![m] = parked_after(parked, done)]
      /\ parked_after(parked, done) \in SUBSET parked
  BY DEF Handled, Settle, parked_after
<1> HIDE DEF txs, done
<1> QED
  BY <1>2, <1>3, <1>5, <1>6 DEF Executes

\* What is in the mempool of m is well signed or came from its clients.
Known(m, t) == t.verifies \/ \E txs \in Offered[m] : t \in Range(txs)

\* The inductive invariant.  The state of a node is the execution of its ledger,
\* and the two only change together.
Books == GossipTypeOK /\ NothingSmuggled /\ StateIsLedger

LEMMA BooksInit == GossipInit => Books
<1> SUFFICES ASSUME GossipInit PROVE Books
  OBVIOUS
<1>1. ASSUME NEW m \in Honest
      PROVE  History(m) = <<>> /\ state[m] = Meaning(History(m))
  <2>1. node[m].ledger = <<>>
    BY DEF GossipInit, Init, NewNode
  <2>2. History(m) = <<>>
    BY <2>1 DEF History, FlattenSeq
  <2> QED
    BY <2>2, MeaningEmpty DEF GossipInit
<1>2. NewState \in State /\ <<>> \in Seq(Transaction)
  <2>1. <<>> \in Seq(Transaction)
    OBVIOUS
  <2> QED
    BY <2>1, MeaningEmpty, MeaningType
<1>3. GossipTypeOK
  BY <1>2 DEF GossipTypeOK, GossipInit
<1>4. NothingSmuggled
  BY DEF NothingSmuggled, GossipInit, Range
<1> QED
  BY <1>1, <1>3, <1>4 DEF Books, StateIsLedger

\* One node's books.
LEMMA ExecuteBooks ==
    ASSUME Books, NEW m \in Honest, NEW pool \in Seq(Transaction),
           \A t \in Range(pool) : Known(m, t),
           NEW txs \in Seq(Transaction), NEW kept \in SUBSET pending_headers[m],
           Executes(m, txs, pool, kept),
           UNCHANGED <<requests, responses>>
    PROVE  Books'
<1>1. pruned(pool, txs) \in Seq(Transaction)
      /\ \A t \in Range(pruned(pool, txs)) : Known(m, t)
  <2>1. pruned(pool, txs) \in Seq(Range(pool) \cap (Range(pool) \ Range(txs)))
    BY ThoseType DEF pruned
  <2>2. Range(pool) \subseteq Transaction
    BY DEF Range
  <2> DEFINE q == pruned(pool, txs)
  <2> HIDE DEF q
  <2>3. q \in Seq(Range(pool) \cap (Range(pool) \ Range(txs)))
    BY <2>1 DEF q
  <2>4. q \in Seq(Transaction) /\ Range(q) \subseteq Range(pool)
    BY <2>2, <2>3 DEF Range
  <2> QED
    BY <2>4 DEF q
<1>2. apply_all(state[m], txs) = Meaning(History(m) \o txs)
      /\ History(m) \o txs \in Seq(Transaction)
  BY ApplyAllMeaning DEF Books, StateIsLedger, Executes
<1>3. apply_all(state[m], txs) \in State
  BY <1>2, MeaningType
<1>4. StateIsLedger'
  BY <1>2 DEF Books, StateIsLedger, GossipTypeOK, Executes
<1>5. NothingSmuggled'
  BY <1>1 DEF Books, NothingSmuggled, GossipTypeOK, Known, Executes
<1>6. GossipTypeOK'
  <2>1. mempool' \in [Honest -> Seq(Transaction)] /\ state' \in [Honest -> State]
    BY <1>1, <1>3 DEF Books, GossipTypeOK, Executes
  <2>2. \A k \in Honest : pending_headers'[k] \subseteq pending_headers[k]
    BY DEF Books, GossipTypeOK, Executes
  <2> QED
    BY <2>1, <2>2 DEF Books, GossipTypeOK, Executes
<1> QED
  BY <1>4, <1>5, <1>6 DEF Books

\* Steps that finalize nothing and leave the states alone.
LEMMA QuietBooks ==
    ASSUME Books, UNCHANGED state, \A k \in Honest : node'[k].ledger = node[k].ledger
    PROVE  StateIsLedger'
<1>1. \A k \in Honest : History(k)' = History(k)
  BY DEF History
<1> QED
  BY <1>1 DEF Books, StateIsLedger

LEMMA AbsorbKnown ==
    ASSUME Books, NEW m \in Honest, NEW x \in responses
    PROVE  /\ absorb(mempool[m], x.bodies) \in Seq(Transaction)
           /\ \A t \in Range(absorb(mempool[m], x.bodies)) : Known(m, t)
<1> DEFINE pool == absorb(mempool[m], x.bodies)
<1>1. mempool[m] \in Seq(Transaction) /\ x.bodies \in Seq(Transaction)
  BY DEF Books, GossipTypeOK
<1>2. pool \in Seq(Range(mempool[m]) \cup {t \in Range(x.bodies) : t.verifies})
  BY <1>1, AbsorbType
<1> HIDE DEF pool
<1>3. Range(mempool[m]) \subseteq Transaction /\ Range(x.bodies) \subseteq Transaction
  BY <1>1 DEF Range
<1>4. pool \in Seq(Transaction)
      /\ Range(pool) \subseteq Range(mempool[m]) \cup {t \in Range(x.bodies) : t.verifies}
  BY <1>2, <1>3 DEF Range
<1>5. \A t \in Range(mempool[m]) : Known(m, t)
  BY DEF Books, NothingSmuggled, Known
<1>6. \A t \in Range(pool) : Known(m, t)
  BY <1>4, <1>5 DEF Known
<1> QED
  BY <1>4, <1>6 DEF pool

LEMMA MovesBooks ==
    ASSUME Parked, Books, NEW m \in Honest, Moves(m), UNCHANGED <<requests, responses>>
    PROVE  Books'
<1>1. ASSUME NEW pool \in Seq(Transaction), \A t \in Range(pool) : Known(m, t),
             NEW rest \in SUBSET pending_headers[m], Next, Handled(m, pool, rest)
      PROVE  Books'
  <2>1. PICK txs \in Seq(Transaction) : \E kept \in SUBSET rest :
              Executes(m, txs, pool, kept)
    BY <1>1, HandledExecutes
  <2>2. PICK kept \in SUBSET rest : Executes(m, txs, pool, kept)
    BY <2>1
  <2>3. kept \in SUBSET pending_headers[m]
    OBVIOUS
  <2> QED
    BY <1>1, <2>2, <2>3, ExecuteBooks
<1>2. mempool[m] \in Seq(Transaction) /\ \A t \in Range(mempool[m]) : Known(m, t)
  BY DEF Books, GossipTypeOK, NothingSmuggled, Known
<1>3. CASE Next /\ Handled(m, mempool[m], pending_headers[m])
  BY <1>1, <1>2, <1>3
<1>4. ASSUME NEW x \in responses, NEW rest \in SUBSET pending_headers[m],
             Next, Handled(m, absorb(mempool[m], x.bodies), rest)
      PROVE  Books'
  BY <1>1, <1>4, AbsorbKnown
<1>5. ASSUME NEW x \in responses, NEW rest \in SUBSET pending_headers[m],
             mempool' = [mempool EXCEPT ![m] = absorb(mempool[m], x.bodies)],
             pending_headers' = [pending_headers EXCEPT ![m] = rest],
             UNCHANGED <<node, state>>
      PROVE  Books'
  <2>1. StateIsLedger'
    BY <1>5, QuietBooks
  <2>2. NothingSmuggled'
    BY <1>5, AbsorbKnown DEF Books, NothingSmuggled, GossipTypeOK, Known
  <2>3. mempool' \in [Honest -> Seq(Transaction)]
        /\ \A k \in Honest : pending_headers'[k] \subseteq pending_headers[k]
    BY <1>5, AbsorbKnown DEF Books, GossipTypeOK
  <2>4. GossipTypeOK'
    BY <1>5, <2>3 DEF Books, GossipTypeOK
  <2> QED
    BY <2>1, <2>2, <2>4 DEF Books
<1> QED
  BY <1>3, <1>4, <1>5 DEF Moves

LEMMA ParkBooks ==
    ASSUME Parked, Books, NEW m \in Honest, ParkHeader(m)
    PROVE  Books'
<1>1. PICK p \in Proposals :
         LET wanted == missing(mempool[m], tx_hashes(p))
         IN  /\ pending_headers' = [pending_headers EXCEPT
                    ![m] = {q \in @ : q.round # p.round} \cup {p}]
             /\ requests' = requests \cup
                    {[to |-> p.block.proposer, from |-> m, round |-> p.round,
                      tx_hashes |-> wanted]}
  BY DEF ParkHeader
<1> DEFINE H == {tx_hash(t) : t \in Transaction}
           wanted == missing(mempool[m], tx_hashes(p))
<1>2. p \in Proposal /\ p.block.proposer \in Validator /\ p.round \in Rounds
      /\ tx_hashes(p) \in Seq(H)
  BY ProposalsType, DataAssumption DEF Parked, Proposal, Block, tx_hashes
<1>3. wanted \in Seq(H)
  <2> DEFINE R == Range(tx_hashes(p))
  <2> HIDE DEF H
  <2>1. R \subseteq H
    BY <1>2 DEF Range
  <2>2. missing(mempool[m], tx_hashes(p)) \in
           Seq(R \cap (R \ hashes(mempool[m])))
    BY <1>2, ThoseType DEF missing
  <2> HIDE DEF R
  <2> QED
    BY <2>1, <2>2
<1> HIDE DEF H, wanted
<1>4. pending_headers' \in [Honest -> SUBSET Proposal]
      /\ \A k \in Honest : \A q, r \in pending_headers'[k] : q.round = r.round => q = r
  BY <1>1, <1>2 DEF Books, GossipTypeOK
<1>5. ASSUME NEW q \in requests'
      PROVE  /\ q.to \in Validator /\ q.from \in Honest /\ q.round \in Rounds
             /\ q.tx_hashes \in Seq(H)
  <2>1. requests' = requests \cup {[to |-> p.block.proposer, from |-> m,
                                    round |-> p.round, tx_hashes |-> wanted]}
    BY <1>1 DEF wanted
  <2>2. \A r \in requests : /\ r.to \in Validator /\ r.from \in Honest /\ r.round \in Rounds
                            /\ r.tx_hashes \in Seq(H)
    BY DEF Books, GossipTypeOK, H
  <2>3. CASE q \in requests
    BY <2>2, <2>3
  <2>4. CASE q = [to |-> p.block.proposer, from |-> m, round |-> p.round,
                  tx_hashes |-> wanted]
    BY <1>2, <1>3, <2>4
  <2> QED
    BY <1>5, <2>1, <2>3, <2>4
<1>6. GossipTypeOK'
  BY <1>4, <1>5 DEF ParkHeader, Books, GossipTypeOK, H
<1>7. NothingSmuggled' /\ StateIsLedger'
  BY QuietBooks DEF ParkHeader, Books, NothingSmuggled
<1> QED
  BY <1>6, <1>7 DEF Books

LEMMA ServeBooks ==
    ASSUME Books, NEW m \in Honest, ServeBodies(m)
    PROVE  Books'
<1>1. PICK q \in requests :
         responses' = responses \cup {[to |-> q.from, round |-> q.round,
                                       bodies |-> bodies(mempool[m], q.tx_hashes)]}
  BY DEF ServeBodies
<1>2. bodies(mempool[m], q.tx_hashes) \in Seq(Transaction)
  <2>1. mempool[m] \in Seq(Transaction) /\ q.tx_hashes \in Seq({tx_hash(t) : t \in Transaction})
    BY DEF Books, GossipTypeOK
  <2>2. bodies(mempool[m], q.tx_hashes) \in Seq(Range(mempool[m]))
    BY <2>1, BodiesType
  <2>3. Range(mempool[m]) \subseteq Transaction
    BY <2>1 DEF Range
  <2> QED
    BY <2>2, <2>3
<1>3. ASSUME NEW x \in responses'
      PROVE  x.to \in Honest /\ x.round \in Rounds /\ x.bodies \in Seq(Transaction)
  <2>1. q.from \in Honest /\ q.round \in Rounds
    BY DEF Books, GossipTypeOK
  <2>2. CASE x \in responses
    BY <2>2 DEF Books, GossipTypeOK
  <2>3. CASE x = [to |-> q.from, round |-> q.round,
                  bodies |-> bodies(mempool[m], q.tx_hashes)]
    BY <1>2, <2>1, <2>3
  <2> QED
    BY <1>1, <1>3, <2>2, <2>3
<1>4. GossipTypeOK'
  BY <1>3 DEF ServeBodies, Books, GossipTypeOK
<1>5. NothingSmuggled' /\ StateIsLedger'
  BY QuietBooks DEF ServeBodies, Books, NothingSmuggled
<1> QED
  BY <1>4, <1>5 DEF Books

LEMMA SubmitBooks ==
    ASSUME Books, NEW m \in Honest, submit_tx(m)
    PROVE  Books'
<1>1. PICK txs \in Offered[m] : mempool' = [mempool EXCEPT ![m] = @ \o txs]
  BY DEF submit_tx
<1>2. mempool[m] \in Seq(Transaction) /\ txs \in Seq(Transaction)
  BY OfferedAssumption DEF Books, GossipTypeOK
<1>3. mempool[m] \o txs \in Seq(Transaction)
      /\ Range(mempool[m] \o txs) \subseteq Range(mempool[m]) \cup Range(txs)
  BY <1>2 DEF Range
<1>4. GossipTypeOK'
  BY <1>1, <1>3 DEF submit_tx, Books, GossipTypeOK
<1>5. NothingSmuggled'
  BY <1>1, <1>3 DEF submit_tx, Books, NothingSmuggled, GossipTypeOK
<1>6. StateIsLedger'
  BY QuietBooks DEF submit_tx
<1> QED
  BY <1>4, <1>5, <1>6 DEF Books

LEMMA BooksStep == Parked /\ Books /\ [GossipNext]_vars => Books'
<1> SUFFICES ASSUME Parked, Books, [GossipNext]_vars
             PROVE  Books'
  OBVIOUS
<1>1. ASSUME UNCHANGED <<mempool, state, pending_headers, requests, responses>>,
             \A k \in Honest : node'[k].ledger = node[k].ledger
      PROVE  Books'
  BY <1>1, QuietBooks DEF Books, GossipTypeOK, NothingSmuggled
<1>2. CASE UNCHANGED vars
  BY <1>1, <1>2 DEF vars
<1>3. CASE GossipStart
  <2>1. ASSUME NEW k \in Honest
        PROVE  node'[k].ledger = node[k].ledger
    BY <1>3, NodeField, EnterRoundSends DEF GossipStart, Parked
  <2> QED
    BY <1>1, <1>3, <2>1 DEF GossipStart
<1>4. CASE reset_mempool
  <2>1. StateIsLedger'
    BY <1>4, QuietBooks DEF reset_mempool
  <2>2. NothingSmuggled'
    BY <1>4 DEF reset_mempool, NothingSmuggled, Range
  <2>3. GossipTypeOK'
    <3>1. <<>> \in Seq(Transaction)
      OBVIOUS
    <3>2. mempool' \in [Honest -> Seq(Transaction)]
      BY <1>4, <3>1 DEF reset_mempool
    <3> QED
      BY <1>4, <3>2 DEF reset_mempool, Books, GossipTypeOK
  <2> QED
    BY <2>1, <2>2, <2>3 DEF Books
<1>5. ASSUME NEW m \in Honest,
             \/ DeliverHeader(m, node[m]) \/ AbsorbBodies(m, node[m])
             \/ GossipVote(m, node[m]) \/ GossipTimeout(m)
      PROVE  Books'
  <2>1. UNCHANGED <<requests, responses>>
    BY <1>5 DEF DeliverHeader, AbsorbBodies, GossipVote, GossipTimeout
  <2>2. Moves(m)
    BY <1>5, EventStep
  <2> QED
    BY <2>1, <2>2, MovesBooks
<1>6. ASSUME NEW m \in Honest, GossipCrash(m)
      PROVE  Books'
  <2>1. \A k \in Honest : node'[k].ledger = node[k].ledger
    BY <1>6, NodeField DEF GossipCrash, Crash, Parked, Inv, TypeOK, NodeState
  <2> QED
    BY <1>1, <1>6, <2>1 DEF GossipCrash
<1>7. ASSUME NEW m \in Honest, ParkHeader(m) \/ ServeBodies(m) \/ submit_tx(m)
      PROVE  Books'
  BY <1>7, ParkBooks, ServeBooks, SubmitBooks
<1> QED
  BY <1>2, <1>3, <1>4, <1>5, <1>6, <1>7 DEF GossipNext

-----------------------------------------------------------------------------
(* What nodes hold, finalize and vouch for.                                *)

\* A client has handed over t.
Handed(t) == \E k \in Honest : \E txs \in Offered[k] : t \in Range(txs)

\* d are contents a node with state st may hold: its copies are those that the
\* header commits to, and if it finds them in order then they are.
Sound(d, st) ==
    /\ tx_root(d.transactions) = d.hashed.tx_root
    /\ \A t \in Range(d.transactions) : Handed(t)
    /\ d.valid => /\ \A t \in Range(d.transactions) : t.verifies
                  /\ d.hashed.state_root = state_root(apply_all(st, d.transactions))

\* The blocks of the ledger follow each other.
Linked(ledger) ==
    \A i \in 1 .. Len(ledger) :
       /\ ledger[i].height = i - 1
       /\ ledger[i].parent = (IF i = 1 THEN <<>> ELSE block_hash(ledger[i - 1]))
       /\ tx_root(ledger[i].data.transactions) = ledger[i].data.hashed.tx_root

\* The state that this ledger has led to.
Executed(ledger) == Meaning(Payloads(ledger))

\* What the node with this ledger prevoted is as FinalizedBlocksAreValid and
\* StateRootsAreRight ask, from the blocks below as the node has executed them.
Vouched(ledger, v) ==
    LET b   == Last(v.hash)
        txs == Signed(b.data.tx_root)
    IN  /\ b.proposer = proposer_for(v.height, v.round)
        /\ \A t \in Range(txs) : Handed(t)
        /\ b.data.state_root
              = state_root(apply_all(Executed(SubSeq(ledger, 1, v.height)), txs))

\* A node vouches for what it finalized and prevoted, and what it holds is sound.
Vouches(s) ==
    /\ s.ledger \in Seq(Block) /\ s.height = Len(s.ledger) /\ Linked(s.ledger)
    /\ \A b \in Blocks(s) : b.data \in Data /\ Sound(b.data, Executed(s.ledger))
    /\ \A v \in Prevotes(s) : v.height \in 0 .. s.height /\ Vouched(s.ledger, v)

\* The inductive invariant.
Vouching ==
    /\ \A m \in Honest : /\ \A t \in Range(mempool[m]) : Handed(t)
                         /\ Vouches(node[m])
    /\ \A x \in responses : \A t \in Range(x.bodies) : Handed(t)

\* Well signed copies are what the header commits to, signed.
LEMMA SignedBack ==
    ASSUME NEW d \in Data, tx_root(d.transactions) = d.hashed.tx_root,
           \A t \in Range(d.transactions) : t.verifies
    PROVE  d.transactions = Signed(d.hashed.tx_root)
<1> DEFINE txs == d.transactions
           root == [i \in 1 .. Len(txs) |-> tx_hash(txs[i])]
<1>1. txs \in Seq(Transaction)
  BY DataAssumption
<1>2. /\ Len(txs) \in Nat /\ DOMAIN txs = 1 .. Len(txs)
      /\ \A i \in 1 .. Len(txs) : txs[i] \in Transaction /\ txs[i] \in Range(txs)
      /\ txs = [i \in 1 .. Len(txs) |-> txs[i]]
  BY <1>1 DEF Range
<1>3. d.hashed.tx_root = root
  BY <1>2 DEF tx_root
<1> HIDE DEF txs
<1>4. ASSUME NEW i \in 1 .. Len(txs)
      PROVE  [sender |-> root[i].sender, key |-> root[i].key, value |-> root[i].value,
              nonce |-> root[i].nonce, verifies |-> TRUE] = txs[i]
  <2>1. txs[i].verifies
    BY <1>2 DEF txs
  <2>2. txs[i].verifies \in BOOLEAN
    BY <1>2 DEF Transaction
  <2>3. txs[i].verifies = TRUE
    BY <2>1, <2>2
  <2> QED
    BY <1>2, <2>3 DEF Transaction, tx_hash
<1>5. Signed(root) = txs
  BY <1>2, <1>4 DEF Signed
<1> QED
  BY <1>3, <1>5 DEF txs

LEMMA PackedSound ==
    ASSUME NEW pool \in Seq(Transaction), \A t \in Range(pool) : Handed(t), NEW st
    PROVE  Sound(packed(pool, st), st)
BY DEF Sound, packed

LEMMA AssembledSound ==
    ASSUME NEW p \in Proposal, NEW pool \in Seq(Transaction),
           \A t \in Range(pool) : Handed(t), NEW st, missing(pool, tx_hashes(p)) = <<>>
    PROVE  Sound(assembled(p, pool, st).block.data, st)
<1> DEFINE H == {tx_hash(t) : t \in Transaction}
           d == assembled(p, pool, st).block.data
           txs == bodies(pool, tx_hashes(p))
<1>1. tx_hashes(p) \in Seq(H)
  BY DataAssumption DEF Proposal, Block, tx_hashes
<1>2. /\ d.transactions = txs /\ d.hashed = p.block.data.hashed
      /\ d.valid => /\ state_root(apply_all(st, txs)) = d.hashed.state_root
                    /\ \A t \in Range(txs) : t.verifies
  BY DEF assembled, Proposal, Block
<1> HIDE DEF H, d
<1>3. tx_root(txs) = d.hashed.tx_root
  BY <1>1, <1>2, BodiesMatch DEF tx_hashes
<1>4. Range(txs) \subseteq Range(pool)
  <2>1. txs \in Seq(Range(pool))
    BY <1>1, BodiesType
  <2> HIDE DEF txs
  <2> QED
    BY <2>1 DEF Range
<1> HIDE DEF txs
<1> QED
  BY <1>2, <1>3, <1>4 DEF Sound, d

LEMMA CastVouched ==
    ASSUME NEW s, NEW X, s.ledger \in Seq(Block), s.height = Len(s.ledger),
           \A b \in X : b.data \in Data /\ Sound(b.data, Executed(s.ledger)),
           NEW v, CastFor(s, v, X)
    PROVE  v.height = s.height /\ Vouched(s.ledger, v)
<1>1. PICK b \in X : v.hash = block_hash(b) /\ validate_block(s, b, v.round)
  BY DEF CastFor
<1> DEFINE hd == [height |-> b.height, proposer |-> b.proposer,
                  time |-> b.time, data |-> b.data.hashed]
<1>2. /\ v.height = s.height /\ b.parent = parent_hash(s) /\ b.data.valid
      /\ b.proposer = proposer_for(s.height, v.round)
  BY <1>1 DEF CastFor, validate_block, accept_header
<1>3. parent_hash(s) \in Seq(Header)
  <2>1. CASE s.ledger = <<>>
    BY <2>1 DEF parent_hash
  <2>2. CASE s.ledger # <<>>
    <3>1. s.ledger[Len(s.ledger)] \in Block
      BY <2>2
    <3> QED
      BY <2>2, <3>1, HashType DEF parent_hash, Hash
  <2> QED
    BY <2>1, <2>2
<1>4. v.hash = Append(b.parent, hd)
  BY <1>1 DEF block_hash
<1>5. hd.proposer = b.proposer /\ hd.data = b.data.hashed
  OBVIOUS
<1> HIDE DEF hd
<1>6. Last(v.hash) = hd
  <2>1. \A x \in Seq(Header) : \A y : Append(x, y)[Len(Append(x, y))] = y
    OBVIOUS
  <2> QED
    BY <1>2, <1>3, <1>4, <2>1 DEF Last
<1>7. SubSeq(s.ledger, 1, v.height) = s.ledger
  BY <1>2
<1>8. /\ b.data.transactions = Signed(b.data.hashed.tx_root)
      /\ \A t \in Range(b.data.transactions) : Handed(t)
      /\ b.data.hashed.state_root
           = state_root(apply_all(Executed(s.ledger), b.data.transactions))
  BY <1>2, SignedBack DEF Sound
<1> QED
  BY <1>2, <1>5, <1>6, <1>7, <1>8 DEF Vouched

LEMMA QuietVouches ==
    ASSUME NEW s, NEW t, NEW X, Vouches(s), Quiet(s, t, X),
           \A b \in X : b.data \in Data /\ Sound(b.data, Executed(s.ledger))
    PROVE  Vouches(t)
<1>1. /\ s.ledger \in Seq(Block) /\ s.height = Len(s.ledger)
      /\ \A b \in Blocks(s) \cup X : b.data \in Data /\ Sound(b.data, Executed(s.ledger))
      /\ \A v \in Prevotes(s) : v.height \in 0 .. s.height /\ Vouched(s.ledger, v)
  BY DEF Vouches
<1>2. s.height \in 0 .. s.height
  BY <1>1
<1>3. ASSUME NEW v \in Prevotes(t)
      PROVE  v.height \in 0 .. s.height /\ Vouched(s.ledger, v)
  <2>1. CASE v \in Prevotes(s)
    BY <1>1, <2>1
  <2>2. CASE CastFor(s, v, Blocks(s) \cup X)
    BY <1>1, <1>2, <2>2, CastVouched
  <2> QED
    BY <2>1, <2>2 DEF Quiet
<1> QED
  BY <1>1, <1>3 DEF Quiet, Vouches

LEMMA FinalizesVouches ==
    ASSUME NEW s, NEW t, Vouches(s), Finalizes(s, t),
           \A b \in Blocks(s) : b \in Block /\ Extends(s, b)
    PROVE  Vouches(t)
<1>1. PICK b \in Blocks(s) : t.ledger = Append(s.ledger, b)
  BY DEF Finalizes
<1>2. /\ s.ledger \in Seq(Block) /\ s.height = Len(s.ledger) /\ Len(s.ledger) \in Nat
      /\ b \in Block /\ b.height = Len(s.ledger) /\ b.parent = parent_hash(s)
      /\ t.height = s.height + 1 /\ t.sent_votes = s.sent_votes /\ Blocks(t) = {}
  BY DEF Vouches, Finalizes, Extends
<1>3. /\ t.ledger \in Seq(Block) /\ Len(t.ledger) = Len(s.ledger) + 1
      /\ t.ledger[Len(s.ledger) + 1] = b
      /\ \A i \in 1 .. Len(s.ledger) : t.ledger[i] = s.ledger[i]
  BY <1>1, <1>2
<1>4. Linked(t.ledger)
  <2>1. ASSUME NEW i \in 1 .. Len(s.ledger)
        PROVE  /\ t.ledger[i].height = i - 1
               /\ t.ledger[i].parent = (IF i = 1 THEN <<>> ELSE block_hash(t.ledger[i - 1]))
               /\ tx_root(t.ledger[i].data.transactions) = t.ledger[i].data.hashed.tx_root
    <3>1. i = 1 \/ i - 1 \in 1 .. Len(s.ledger)
      BY <1>2
    <3> QED
      BY <1>3, <3>1 DEF Vouches, Linked
  <2>2. b.parent = (IF Len(s.ledger) + 1 = 1 THEN <<>> ELSE block_hash(t.ledger[Len(s.ledger)]))
    <3>1. s.ledger = <<>> <=> Len(s.ledger) = 0
      BY <1>2
    <3>2. Len(s.ledger) # 0 => Len(s.ledger) \in 1 .. Len(s.ledger)
      BY <1>2
    <3> QED
      BY <1>2, <1>3, <3>1, <3>2 DEF parent_hash
  <2>3. tx_root(b.data.transactions) = b.data.hashed.tx_root
    BY DEF Vouches, Sound
  <2>4. \A i \in 1 .. Len(t.ledger) : i \in 1 .. Len(s.ledger) \/ i = Len(s.ledger) + 1
    BY <1>2, <1>3
  <2>5. (Len(s.ledger) + 1) - 1 = Len(s.ledger)
    BY <1>2
  <2> QED
    BY <1>2, <1>3, <2>1, <2>2, <2>3, <2>4, <2>5 DEF Linked
<1>5. ASSUME NEW v \in Prevotes(t)
      PROVE  v.height \in 0 .. t.height /\ Vouched(t.ledger, v)
  <2>1. v.height \in 0 .. s.height /\ Vouched(s.ledger, v)
    BY <1>2 DEF Vouches, Prevotes
  <2>2. SubSeq(t.ledger, 1, v.height) = SubSeq(s.ledger, 1, v.height)
    BY <1>1, <1>2, <1>3, <2>1
  <2>3. v.height \in 0 .. t.height
    BY <1>2, <2>1
  <2>4. Vouched(t.ledger, v)
    BY <2>1, <2>2 DEF Vouched
  <2> QED
    BY <2>3, <2>4
<1> QED
  BY <1>2, <1>3, <1>4, <1>5 DEF Vouches

LEMMA EffectVouches ==
    ASSUME NEW s, NEW t, NEW B, NEW d, Vouches(s), Effect(s, t, B, d),
           \A b \in Blocks(s) \cup B : b \in Block /\ Extends(s, b),
           \A b \in B : Sound(b.data, Executed(s.ledger)),
           d \in Data, Sound(d, Executed(t.ledger))
    PROVE  Vouches(t)
<1>1. PICK u, w, X : /\ Quiet(s, u, B)
                     /\ w = u \/ Finalizes(u, w)
                     /\ Quiet(w, t, X) /\ \A b \in X : b.data = d
  BY DEF Effect
<1>2. \A b \in B : b.data \in Data
  BY DEF Block
<1>3. Vouches(u)
  BY <1>1, <1>2, QuietVouches
<1>4. parent_hash(u) = parent_hash(s) /\ u.height = s.height
      /\ Blocks(u) \subseteq Blocks(s) \cup B
  BY <1>1 DEF Quiet, parent_hash
<1>5. \A b \in Blocks(u) : b \in Block /\ Extends(u, b)
  BY <1>4 DEF Extends
<1>6. Vouches(w)
  BY <1>1, <1>3, <1>5, FinalizesVouches
<1>7. \A b \in X : b.data \in Data /\ Sound(b.data, Executed(w.ledger))
  BY <1>1 DEF Quiet
<1> QED
  BY <1>1, <1>6, <1>7, QuietVouches

LEMMA VouchingInit == GossipInit => Vouching
<1> SUFFICES ASSUME GossipInit PROVE Vouching
  OBVIOUS
<1>1. ASSUME NEW m \in Honest
      PROVE  Vouches(node[m]) /\ Range(mempool[m]) = {}
  <2>1. /\ node[m].ledger = <<>> /\ node[m].height = 0 /\ node[m].sent_votes = {}
        /\ node[m].proposals = {} /\ node[m].locked_block = None
        /\ node[m].valid_block = None /\ mempool[m] = <<>>
    BY DEF GossipInit, Init, NewNode
  <2>2. Blocks(node[m]) = {} /\ Prevotes(node[m]) = {}
    BY <2>1 DEF Blocks, Prevotes
  <2>3. <<>> \in Seq(Block) /\ Len(<<>>) = 0 /\ 1 .. 0 = {}
    OBVIOUS
  <2>4. Linked(node[m].ledger)
    BY <2>1, <2>3 DEF Linked
  <2> QED
    BY <2>1, <2>2, <2>3, <2>4 DEF Vouches, Range
<1> QED
  BY <1>1 DEF Vouching, GossipInit

\* What a node holds extends its chain.
LEMMA BlocksExtend ==
    ASSUME Inv, NEW m \in Honest
    PROVE  \A b \in Blocks(node[m]) : b \in Block /\ Extends(node[m], b)
<1>1. node[m] \in NodeState /\ ChainOK(node[m])
  BY DEF Inv, TypeOK
<1> QED
  BY <1>1 DEF Blocks, ChainOK, NodeState, Proposal

\* So do the proposals it puts together, and they are sound.
LEMMA GivenSound ==
    ASSUME NEW m \in Honest, NEW pool \in Seq(Transaction),
           \A t \in Range(pool) : Handed(t), NEW B, Given(m, pool, B)
    PROVE  \A b \in B : /\ b \in Block /\ Extends(node[m], b)
                        /\ Sound(b.data, state[m])
<1> SUFFICES ASSUME NEW b \in B
             PROVE  b \in Block /\ Extends(node[m], b) /\ Sound(b.data, state[m])
  OBVIOUS
<1>1. PICK p \in Proposal :
         /\ b = assembled(p, pool, state[m]).block /\ b.data \in Data
         /\ missing(pool, tx_hashes(p)) = <<>>
         /\ accept_header(node[m], p.block, p.round)
  BY DEF Given
<1>2. assembled(p, pool, state[m]) \in Proposal
  BY <1>1, AssembledAsHeld, AsHeldType
<1>3. b.height = p.block.height /\ b.parent = p.block.parent
  BY <1>1 DEF assembled, Proposal, Block
<1>4. Sound(b.data, state[m])
  BY <1>1, AssembledSound
<1> QED
  BY <1>1, <1>2, <1>3, <1>4 DEF Extends, accept_header, Proposal

LEMMA HandledVouches ==
    ASSUME Parked, Books, Books', Vouching, Next, NEW m \in Honest,
           NEW pool \in Seq(Transaction), \A t \in Range(pool) : Handed(t),
           NEW parked, Handled(m, pool, parked), UNCHANGED responses
    PROVE  Vouching'
<1>1. /\ state[m] = Executed(node[m].ledger)
      /\ state'[m] = Executed(node'[m].ledger)
  BY DEF Books, StateIsLedger, History, Executed, Payloads
<1>2. PICK txs \in Seq(Transaction) : \E kept \in SUBSET parked :
              Executes(m, txs, pool, kept)
  BY HandledExecutes
<1>3. /\ mempool' = [mempool EXCEPT ![m] = pruned(pool, txs)]
      /\ mempool' \in [Honest -> Seq(Transaction)]
      /\ mempool \in [Honest -> Seq(Transaction)]
  BY <1>2 DEF Executes, Books, GossipTypeOK
<1>4. mempool'[m] \in Seq(Transaction) /\ \A t \in Range(mempool'[m]) : Handed(t)
  <2>1. pruned(pool, txs) \in Seq(Range(pool) \cap (Range(pool) \ Range(txs)))
    BY ThoseType DEF pruned
  <2>2. mempool'[m] = pruned(pool, txs)
    BY <1>3
  <2> DEFINE q == pruned(pool, txs)
  <2> HIDE DEF q
  <2>3. q \in Seq(Range(pool) \cap (Range(pool) \ Range(txs)))
    BY <2>1 DEF q
  <2>4. Range(q) \subseteq Range(pool)
    BY <2>3 DEF Range
  <2> QED
    BY <1>3, <2>2, <2>4 DEF q
<1>5. Sound(Built(m), Executed(node'[m].ledger))
  BY <1>1, <1>4, PackedSound DEF Built
<1>6. PICK B : Given(m, pool, B) /\ Effect(node[m], node'[m], B, Built(m))
  BY DEF Handled
<1>7. \A b \in B : b \in Block /\ Extends(node[m], b)
                   /\ Sound(b.data, Executed(node[m].ledger))
  BY <1>1, <1>6, GivenSound
<1>8. \A b \in Blocks(node[m]) \cup B : b \in Block /\ Extends(node[m], b)
  BY <1>7, BlocksExtend DEF Parked
<1>9. Vouches(node'[m])
  <2>1. Vouches(node[m]) /\ Built(m) \in Data
    BY DEF Vouching, Handled
  <2> QED
    BY <1>5, <1>6, <1>7, <1>8, <2>1, EffectVouches
<1>10. \A k \in Honest \ {m} : node'[k] = node[k] /\ mempool'[k] = mempool[k]
  BY <1>3 DEF Handled
<1>11. \A k \in Honest : Vouches(node'[k]) /\ \A t \in Range(mempool'[k]) : Handed(t)
  BY <1>4, <1>9, <1>10 DEF Vouching
<1> QED
  BY <1>11 DEF Vouching

\* What there is to show of any step.
LEMMA PoolsVouch ==
    ASSUME Vouching, \A k \in Honest : Vouches(node'[k]),
           \A k \in Honest : \A t \in Range(mempool'[k]) : Handed(t),
           \A x \in responses' : \A t \in Range(x.bodies) : Handed(t)
    PROVE  Vouching'
BY DEF Vouching

LEMMA AbsorbHanded ==
    ASSUME Books, Vouching, NEW m \in Honest, NEW x \in responses
    PROVE  /\ absorb(mempool[m], x.bodies) \in Seq(Transaction)
           /\ \A t \in Range(absorb(mempool[m], x.bodies)) : Handed(t)
<1> DEFINE pool == absorb(mempool[m], x.bodies)
<1>1. mempool[m] \in Seq(Transaction) /\ x.bodies \in Seq(Transaction)
  BY DEF Books, GossipTypeOK
<1>2. pool \in Seq(Range(mempool[m]) \cup {t \in Range(x.bodies) : t.verifies})
  BY <1>1, AbsorbType
<1> HIDE DEF pool
<1>3. Range(pool) \subseteq Range(mempool[m]) \cup Range(x.bodies)
  BY <1>2 DEF Range
<1>4. pool \in Seq(Transaction)
  BY AbsorbKnown DEF pool
<1> QED
  BY <1>3, <1>4 DEF pool, Vouching

LEMMA MovesVouch ==
    ASSUME Parked, Books, Books', Vouching, NEW m \in Honest, Moves(m),
           UNCHANGED <<requests, responses>>
    PROVE  Vouching'
<1>1. mempool[m] \in Seq(Transaction) /\ \A t \in Range(mempool[m]) : Handed(t)
  BY DEF Books, GossipTypeOK, Vouching
<1>2. CASE Next /\ Handled(m, mempool[m], pending_headers[m])
  BY <1>1, <1>2, HandledVouches
<1>3. ASSUME NEW x \in responses, NEW rest \in SUBSET pending_headers[m],
             Next, Handled(m, absorb(mempool[m], x.bodies), rest)
      PROVE  Vouching'
  BY <1>3, AbsorbHanded, HandledVouches
<1>4. ASSUME NEW x \in responses,
             mempool' = [mempool EXCEPT ![m] = absorb(mempool[m], x.bodies)],
             UNCHANGED <<node, state>>
      PROVE  Vouching'
  <2>1. \A k \in Honest : \A t \in Range(mempool'[k]) : Handed(t)
    BY <1>4, AbsorbHanded DEF Books, GossipTypeOK, Vouching
  <2> QED
    BY <1>4, <2>1, PoolsVouch DEF Vouching
<1> QED
  BY <1>2, <1>3, <1>4 DEF Moves

LEMMA StartVouches ==
    ASSUME Parked, Books, Vouching, GossipStart
    PROVE  Vouching'
<1>1. ASSUME NEW m \in Honest
      PROVE  Vouches(node'[m])
  <2> DEFINE d == packed(mempool[m], state[m])
             t == enter_round(node[m], 0, d)
  <2>1. d \in Data /\ node'[m] = IF node[m].crashed THEN node[m] ELSE t
    BY DEF GossipStart
  <2>2. state[m] = Executed(node[m].ledger)
    BY DEF Books, StateIsLedger, History, Executed, Payloads
  <2>3. mempool[m] \in Seq(Transaction) /\ Vouches(node[m])
        /\ \A x \in Range(mempool[m]) : Handed(x)
    BY DEF Books, GossipTypeOK, Vouching
  <2>4. Sound(d, Executed(node[m].ledger))
    BY <2>2, <2>3, PackedSound
  <2> HIDE DEF d
  <2>5. DOMAIN node[m] = Field
    BY NodeField DEF Parked
  <2>6. Effect(node[m], t, {}, d)
    BY <2>5, EnterRoundEffect
  <2>7. t.ledger = node[m].ledger
    BY <2>5, EnterRoundSends
  <2> HIDE DEF t
  <2>8. \A b \in Blocks(node[m]) \cup {} : b \in Block /\ Extends(node[m], b)
    BY BlocksExtend DEF Parked
  <2>9. Vouches(t)
    <3>1. Sound(d, Executed(t.ledger))
      BY <2>4, <2>7
    <3>2. \A b \in {} : Sound(b.data, Executed(node[m].ledger))
      OBVIOUS
    <3> QED
      BY <2>1, <2>3, <2>6, <2>8, <3>1, <3>2, EffectVouches
  <2> QED
    BY <2>1, <2>3, <2>9
<1> QED
  BY <1>1, PoolsVouch DEF GossipStart, Vouching

LEMMA CrashVouches ==
    ASSUME Parked, Vouching, NEW m \in Honest, GossipCrash(m)
    PROVE  Vouching'
<1>1. ASSUME NEW k \in Honest
      PROVE  Vouches(node'[k])
  <2>1. DOMAIN node[k] = Field /\ node \in [Honest -> NodeState]
    BY NodeField DEF Parked, Inv, TypeOK
  <2>2. /\ node'[k].ledger = node[k].ledger /\ node'[k].height = node[k].height
        /\ node'[k].sent_votes = node[k].sent_votes
        /\ node'[k].proposals = node[k].proposals
        /\ node'[k].locked_block = node[k].locked_block
        /\ node'[k].valid_block = node[k].valid_block
    BY <2>1 DEF GossipCrash, Crash, NodeState
  <2>3. Blocks(node'[k]) = Blocks(node[k]) /\ Prevotes(node'[k]) = Prevotes(node[k])
    BY <2>2 DEF Blocks, Prevotes
  <2> QED
    BY <2>2, <2>3 DEF Vouches, Vouching
<1> QED
  BY <1>1, PoolsVouch DEF GossipCrash, Vouching

LEMMA ServeVouches ==
    ASSUME Books, Vouching, NEW m \in Honest, ServeBodies(m)
    PROVE  Vouching'
<1>1. PICK q \in requests :
         responses' = responses \cup {[to |-> q.from, round |-> q.round,
                                       bodies |-> bodies(mempool[m], q.tx_hashes)]}
  BY DEF ServeBodies
<1>2. \A t \in Range(bodies(mempool[m], q.tx_hashes)) : Handed(t)
  <2> DEFINE sent == bodies(mempool[m], q.tx_hashes)
  <2>1. mempool[m] \in Seq(Transaction) /\ q.tx_hashes \in Seq({tx_hash(t) : t \in Transaction})
    BY DEF Books, GossipTypeOK
  <2>2. sent \in Seq(Range(mempool[m]))
    BY <2>1, BodiesType
  <2> HIDE DEF sent
  <2>3. Range(sent) \subseteq Range(mempool[m])
    BY <2>2 DEF Range
  <2> QED
    BY <2>3 DEF sent, Vouching
<1>3. ASSUME NEW x \in responses'
      PROVE  \A t \in Range(x.bodies) : Handed(t)
  <2>1. CASE x \in responses
    BY <2>1 DEF Vouching
  <2>2. CASE x = [to |-> q.from, round |-> q.round,
                  bodies |-> bodies(mempool[m], q.tx_hashes)]
    BY <1>2, <2>2
  <2> QED
    BY <1>1, <1>3, <2>1, <2>2
<1> QED
  BY <1>3, PoolsVouch DEF ServeBodies, Vouching

LEMMA SubmitVouches ==
    ASSUME Books, Vouching, NEW m \in Honest, submit_tx(m)
    PROVE  Vouching'
<1>1. PICK txs \in Offered[m] : mempool' = [mempool EXCEPT ![m] = @ \o txs]
  BY DEF submit_tx
<1>2. mempool[m] \in Seq(Transaction) /\ txs \in Seq(Transaction)
  BY OfferedAssumption DEF Books, GossipTypeOK
<1>3. Range(mempool[m] \o txs) \subseteq Range(mempool[m]) \cup Range(txs)
  BY <1>2 DEF Range
<1>4. \A t \in Range(mempool[m] \o txs) : Handed(t)
  BY <1>3 DEF Handed, Vouching
<1>5. \A k \in Honest : \A t \in Range(mempool'[k]) : Handed(t)
  BY <1>1, <1>4 DEF Books, GossipTypeOK, Vouching
<1> QED
  BY <1>5, PoolsVouch DEF submit_tx, Vouching

LEMMA VouchingStep ==
    Parked /\ Books /\ Books' /\ Vouching /\ [GossipNext]_vars => Vouching'
<1> SUFFICES ASSUME Parked, Books, Books', Vouching, [GossipNext]_vars
             PROVE  Vouching'
  OBVIOUS
<1>1. CASE UNCHANGED vars
  BY <1>1, PoolsVouch DEF vars, Vouching
<1>2. CASE reset_mempool
  BY <1>2, PoolsVouch DEF reset_mempool, Vouching, Range
<1>3. ASSUME NEW m \in Honest,
             \/ DeliverHeader(m, node[m]) \/ AbsorbBodies(m, node[m])
             \/ GossipVote(m, node[m]) \/ GossipTimeout(m)
      PROVE  Vouching'
  <2>1. UNCHANGED <<requests, responses>>
    BY <1>3 DEF DeliverHeader, AbsorbBodies, GossipVote, GossipTimeout
  <2>2. Moves(m)
    BY <1>3, EventStep
  <2> QED
    BY <2>1, <2>2, MovesVouch
<1>4. ASSUME NEW m \in Honest, ParkHeader(m)
      PROVE  Vouching'
  BY <1>4, PoolsVouch DEF ParkHeader, Vouching
<1>5. ASSUME NEW m \in Honest, GossipCrash(m) \/ ServeBodies(m) \/ submit_tx(m)
      PROVE  Vouching'
  BY <1>5, CrashVouches, ServeVouches, SubmitVouches
<1> QED
  BY <1>1, <1>2, <1>3, <1>4, <1>5, StartVouches DEF GossipNext

-----------------------------------------------------------------------------
(* What is vouched for is in order.                                       *)

LEMMA LastHash ==
    ASSUME NEW b \in Block
    PROVE  Last(block_hash(b)) = [height |-> b.height, proposer |-> b.proposer,
                                  time |-> b.time, data |-> b.data.hashed]
<1> DEFINE hd == [height |-> b.height, proposer |-> b.proposer,
                  time |-> b.time, data |-> b.data.hashed]
<1>1. b.parent \in Seq(Header) /\ block_hash(b) = Append(b.parent, hd)
  BY DEF Block, Hash, block_hash
<1>2. \A x \in Seq(Header) : \A y : Append(x, y)[Len(Append(x, y))] = y
  OBVIOUS
<1> HIDE DEF hd
<1>3. Last(block_hash(b)) = hd
  BY <1>1, <1>2 DEF Last
<1> QED
  BY <1>3 DEF hd

LEMMA SignedType ==
    ASSUME NEW root \in Seq({tx_hash(t) : t \in Transaction})
    PROVE  /\ Signed(root) \in Seq(Transaction)
           /\ \A h \in Range(root) : \E t \in Range(Signed(root)) :
                 t.verifies /\ tx_hash(t) = h
<1> DEFINE H == {tx_hash(t) : t \in Transaction}
           sign(h) == [sender |-> h.sender, key |-> h.key, value |-> h.value,
                       nonce |-> h.nonce, verifies |-> TRUE]
<1>1. \A h \in H : sign(h) \in Transaction /\ sign(h).verifies /\ tx_hash(sign(h)) = h
  BY DEF tx_hash, Transaction
<1>2. /\ root \in Seq(H) /\ Len(root) \in Nat /\ DOMAIN root = 1 .. Len(root)
      /\ \A i \in 1 .. Len(root) : root[i] \in H
  OBVIOUS
<1>3. Signed(root) = [i \in 1 .. Len(root) |-> sign(root[i])]
  BY <1>2 DEF Signed
<1> HIDE DEF H, sign
<1>4. Signed(root) \in Seq(Transaction)
  BY <1>1, <1>2, <1>3
<1>5. ASSUME NEW i \in 1 .. Len(root)
      PROVE  /\ sign(root[i]) \in Range(Signed(root))
             /\ sign(root[i]).verifies /\ tx_hash(sign(root[i])) = root[i]
  BY <1>1, <1>2, <1>3 DEF Range
<1>6. \A h \in Range(root) : \E i \in 1 .. Len(root) : h = root[i]
  BY <1>2 DEF Range
<1> QED
  BY <1>4, <1>5, <1>6

\* What an honest validator has prevoted is in order as that node sees it.
LEMMA PrevoterVouches ==
    ASSUME Safe(node), Vouching, NEW b \in Block, NEW height, NEW r, NEW k \in Honest,
           k \in VotersIn(Sent(node), height, r, "PREVOTE", block_hash(b))
    PROVE  LET txs == Signed(b.data.hashed.tx_root)
           IN  /\ height \in 0 .. Len(node[k].ledger)
               /\ b.proposer = proposer_for(height, r)
               /\ \A t \in Range(txs) : Handed(t)
               /\ b.data.hashed.state_root
                     = state_root(apply_all(Executed(SubSeq(node[k].ledger, 1, height)), txs))
<1> DEFINE v == [validator |-> k, height |-> height, round |-> r,
                 phase |-> "PREVOTE", hash |-> block_hash(b)]
<1>1. v \in Sent(node)
  BY DEF VotersIn, Honest
<1>2. v \in node[k].sent_votes
  BY <1>1, OwnSent
<1>3. block_hash(b) # NIL
  BY HashType, SentinelAssumption
<1>4. /\ v.height = height /\ v.round = r /\ v.phase = "PREVOTE" /\ v.hash = block_hash(b)
  OBVIOUS
<1> HIDE DEF v
<1>5. v \in Prevotes(node[k])
  BY <1>2, <1>3, <1>4 DEF Prevotes
<1>6. /\ v.height \in 0 .. Len(node[k].ledger) /\ Vouched(node[k].ledger, v)
  BY <1>5 DEF Vouching, Vouches
<1>7. /\ Last(block_hash(b)).proposer = b.proposer
      /\ Last(block_hash(b)).data = b.data.hashed
  BY LastHash
<1> QED
  BY <1>4, <1>6, <1>7 DEF Vouched

\* A finalized block had a prevote quorum.
LEMMA DecisionPrevoted ==
    ASSUME FewFaults, Safe(node), NEW m \in Honest, NEW i \in 1 .. Len(node[m].ledger)
    PROVE  /\ node[m].ledger[i] \in Block
           /\ \E r \in Rounds : CertifiedIn(Sent(node), i - 1, r, "PREVOTE",
                                            block_hash(node[m].ledger[i]))
<1>1. node[m].ledger \in Seq(Block) /\ LedgerBacked(node[m], Sent(node))
  BY DEF Safe, NodeState, Backed
<1>2. node[m].ledger[i] \in Block
  BY <1>1
<1>3. block_hash(node[m].ledger[i]) # NIL
  BY <1>2, HashType, SentinelAssumption
<1>4. PICK r \in Rounds : CertifiedIn(Sent(node), i - 1, r, "PRECOMMIT",
                                      block_hash(node[m].ledger[i]))
  BY <1>1 DEF LedgerBacked
<1> QED
  BY <1>2, <1>3, <1>4, DecisionHasPrevotes

LEMMA VouchingValid ==
    ASSUME FewFaults, Safe(node), Vouching
    PROVE  FinalizedBlocksAreValid
<1> SUFFICES ASSUME NEW m \in Honest, NEW i \in 1 .. Len(node[m].ledger)
             PROVE  LET b == node[m].ledger[i]
                    IN  /\ b.height = i - 1
                        /\ b.parent = (IF i = 1 THEN <<>>
                                       ELSE block_hash(node[m].ledger[i - 1]))
                        /\ \E r \in Rounds : b.proposer = proposer_for(b.height, r)
                        /\ \A h \in Range(b.data.hashed.tx_root) :
                              \E k \in Honest : \E txs \in Offered[k] :
                                 \E t \in Range(txs) : t.verifies /\ tx_hash(t) = h
  BY DEF FinalizedBlocksAreValid
<1> DEFINE b == node[m].ledger[i]
<1>1. /\ b.height = i - 1
      /\ b.parent = (IF i = 1 THEN <<>> ELSE block_hash(node[m].ledger[i - 1]))
  BY DEF Vouching, Vouches, Linked
<1> HIDE DEF b
<1>2. PICK r \in Rounds : CertifiedIn(Sent(node), i - 1, r, "PREVOTE", block_hash(b))
  BY DecisionPrevoted DEF b
<1>3. b \in Block
  BY DecisionPrevoted DEF b
<1>4. PICK k \in Honest : k \in VotersIn(Sent(node), i - 1, r, "PREVOTE", block_hash(b))
  BY <1>2, VotersType, QuorumsMeet DEF CertifiedIn
<1>5. b.proposer = proposer_for(i - 1, r)
      /\ \A t \in Range(Signed(b.data.hashed.tx_root)) : Handed(t)
  BY <1>3, <1>4, PrevoterVouches
<1>6. b.data.hashed.tx_root \in Seq({tx_hash(t) : t \in Transaction})
  BY <1>3, DataAssumption DEF Block
<1>7. \A h \in Range(b.data.hashed.tx_root) :
         \E k2 \in Honest : \E txs \in Offered[k2] :
            \E t \in Range(txs) : t.verifies /\ tx_hash(t) = h
  BY <1>5, <1>6, SignedType DEF Handed
<1> QED
  BY <1>1, <1>5, <1>7 DEF b

\* What a node with good copies only has executed is what headers promise.
LEMMA ExecutedPromised ==
    ASSUME FewFaults, Safe(node), Vouching, NEW m \in Honest, NEW k \in Honest,
           NEW i \in Nat, i <= Len(node[m].ledger), i <= Len(node[k].ledger),
           k \notin Strayed(i)
    PROVE  Payloads(SubSeq(node[k].ledger, 1, i)) = Promised(m, i)
<1> DEFINE l == node[k].ledger
           part == SubSeq(l, 1, i)
<1>1. l \in Seq(Block) /\ node[m].ledger \in Seq(Block) /\ Linked(l)
  BY DEF Vouching, Vouches
<1>2. /\ Len(l) \in Nat /\ Len(node[m].ledger) \in Nat /\ DOMAIN part = 1 .. i
      /\ \A j \in 1 .. i : /\ part[j] = l[j] /\ l[j] \in Block
                           /\ j \in 1 .. Len(l) /\ j \in 1 .. Len(node[m].ledger)
                           /\ node[m].ledger[j] \in Block
  BY <1>1
<1>3. ASSUME NEW j \in 1 .. i
      PROVE  l[j].data.transactions = Signed(node[m].ledger[j].data.hashed.tx_root)
  <2>1. tx_root(l[j].data.transactions) = l[j].data.hashed.tx_root
    BY <1>1, <1>2 DEF Linked
  <2>2. \A t \in Range(l[j].data.transactions) : t.verifies
    BY <1>2 DEF Strayed
  <2>3. l[j].data \in Data
    BY <1>2 DEF Block
  <2>4. l[j].data.transactions = Signed(l[j].data.hashed.tx_root)
    BY <2>1, <2>2, <2>3, SignedBack
  <2>5. block_hash(l[j]) = block_hash(node[m].ledger[j])
    BY <1>2, SafeAgreement DEF Agreement
  <2>6. l[j].data.hashed = node[m].ledger[j].data.hashed
    <3>1. /\ Last(block_hash(l[j])).data = l[j].data.hashed
          /\ Last(block_hash(node[m].ledger[j])).data = node[m].ledger[j].data.hashed
      BY <1>2, LastHash
    <3> QED
      BY <2>5, <3>1
  <2> QED
    BY <2>4, <2>6
<1> HIDE DEF l, part
<1>4. [j \in DOMAIN part |-> part[j].data.transactions]
        = [j \in 1 .. i |-> Signed(node[m].ledger[j].data.hashed.tx_root)]
  BY <1>2, <1>3
<1> QED
  BY <1>4 DEF Payloads, Promised, part, l

LEMMA PromisedAppend ==
    ASSUME NEW m \in Honest, node[m].ledger \in Seq(Block),
           NEW i \in 1 .. Len(node[m].ledger)
    PROVE  /\ Promised(m, i - 1) \in Seq(Transaction)
           /\ Signed(node[m].ledger[i].data.hashed.tx_root) \in Seq(Transaction)
           /\ Promised(m, i) = Promised(m, i - 1)
                                 \o Signed(node[m].ledger[i].data.hashed.tx_root)
<1> DEFINE s(j) == Signed(node[m].ledger[j].data.hashed.tx_root)
           list(k) == [j \in 1 .. k |-> s(j)]
<1>1. Len(node[m].ledger) \in Nat /\ i \in Nat /\ i - 1 \in Nat
      /\ \A j \in 1 .. i : node[m].ledger[j] \in Block
  OBVIOUS
<1>2. \A j \in 1 .. i : s(j) \in Seq(Transaction)
  <2> SUFFICES ASSUME NEW j \in 1 .. i PROVE s(j) \in Seq(Transaction)
    OBVIOUS
  <2>1. node[m].ledger[j].data.hashed.tx_root \in Seq({tx_hash(t) : t \in Transaction})
    BY <1>1, DataAssumption DEF Block
  <2> QED
    BY <2>1, SignedType
<1>3. Promised(m, i) = FlattenSeq(list(i)) /\ Promised(m, i - 1) = FlattenSeq(list(i - 1))
  BY DEF Promised
<1> HIDE DEF s
<1> DEFINE A == Seq(Transaction)
<1>4. \A j \in 1 .. i : s(j) \in A
  BY <1>2
<1> HIDE DEF A
<1>5. list(i - 1) \in Seq(A) /\ Len(list(i - 1)) = i - 1
  BY <1>1, <1>4
<1>6. list(i) = Append(list(i - 1), s(i))
  BY <1>1, <1>4
<1>7. list(i - 1) \in Seq(Seq(Transaction)) /\ s(i) \in Seq(Transaction)
  BY <1>1, <1>2, <1>5 DEF A
<1> HIDE DEF list
<1> QED
  BY <1>3, <1>6, <1>7, FlattenAppend DEF s

LEMMA VouchingRoots ==
    ASSUME FewFaults, Safe(node), Vouching
    PROVE  StateRootsAreRight
<1> SUFFICES ASSUME NEW m \in Honest, NEW i \in 1 .. Len(node[m].ledger),
                    Cardinality(Byzantine \cup Strayed(i - 1)) < quorum
             PROVE  node[m].ledger[i].data.hashed.state_root
                       = state_root(Meaning(Promised(m, i)))
  BY DEF StateRootsAreRight
<1> DEFINE b == node[m].ledger[i]
<1>1. b \in Block
  BY DecisionPrevoted
<1>2. PICK r \in Rounds : CertifiedIn(Sent(node), i - 1, r, "PREVOTE", block_hash(b))
  BY DecisionPrevoted
<1> DEFINE V == VotersIn(Sent(node), i - 1, r, "PREVOTE", block_hash(b))
           U == Byzantine \cup Strayed(i - 1)
<1>3. PICK k \in Honest : k \in V /\ k \notin Strayed(i - 1)
  <2>1. Cardinality(V) >= quorum /\ Cardinality(V) \in Nat
    BY <1>2, VotersType DEF CertifiedIn
  <2>2. U \in SUBSET Validator
    BY ValidatorAssumption DEF Strayed, Honest
  <2>3. IsFiniteSet(U) /\ Cardinality(U) \in Nat
    BY <2>2, ValidatorAssumption, FS_Subset, FS_CardinalityType
  <2>4. V \subseteq Validator
    BY VotersType
  <2>5. ~ (V \subseteq U)
    <3> SUFFICES ASSUME V \subseteq U PROVE FALSE
      OBVIOUS
    <3>1. Cardinality(V) <= Cardinality(U)
      BY <2>3, FS_Subset
    <3>2. Cardinality(U) < quorum
      OBVIOUS
    <3> HIDE DEF U, V
    <3> QED
      BY <2>1, <2>3, <3>1, <3>2, QuorumType
  <2> QED
    BY <2>4, <2>5 DEF Honest
<1> DEFINE txs == Signed(b.data.hashed.tx_root)
<1>4. /\ i - 1 \in 0 .. Len(node[k].ledger)
      /\ b.data.hashed.state_root
            = state_root(apply_all(Executed(SubSeq(node[k].ledger, 1, i - 1)), txs))
  BY <1>1, <1>3, PrevoterVouches
<1>5. node[m].ledger \in Seq(Block) /\ node[k].ledger \in Seq(Block)
  BY DEF Vouching, Vouches
<1>6. i - 1 \in Nat /\ i - 1 <= Len(node[m].ledger) /\ i - 1 <= Len(node[k].ledger)
  BY <1>4, <1>5
<1>7. Payloads(SubSeq(node[k].ledger, 1, i - 1)) = Promised(m, i - 1)
  BY <1>3, <1>6, ExecutedPromised
<1>8. /\ Promised(m, i - 1) \in Seq(Transaction) /\ txs \in Seq(Transaction)
      /\ Promised(m, i) = Promised(m, i - 1) \o txs
  BY <1>5, PromisedAppend
<1> HIDE DEF txs
<1>9. apply_all(Meaning(Promised(m, i - 1)), txs) = Meaning(Promised(m, i))
  BY <1>8, ApplyAllMeaning
<1> QED
  BY <1>4, <1>7, <1>9 DEF Executed

-----------------------------------------------------------------------------
(* The theorems.                                                           *)

\* The engine under Gossip is the engine of Engine: that a proposal waits for
\* its bodies, is put together from the copies a node has, or is dropped, shows
\* it nothing that loss, delay and other copies there do not.
THEOREM GossipImplementsEngine == GossipSpec => Spec
BY GossipInitParked, GossipStep, PTL DEF GossipSpec, Spec

\* A header that waits for its bodies stays acceptable: on_body_response may
\* handle it without looking at it again.
THEOREM GossipParkedIsAcceptable == GossipSpec => []ParkedIsAcceptable
<1>1. Parked => ParkedIsAcceptable
  BY DEF Parked, ParkedIsAcceptable
<1> QED
  BY <1>1, GossipInitParked, GossipStep, PTL DEF GossipSpec

\* So no two validators finalize different blocks at one height, whatever their
\* mempools hold and whichever bodies arrive.
THEOREM GossipAgreement ==
    ASSUME FewFaults
    PROVE  GossipSpec => []Agreement
BY GossipImplementsEngine, EngineAgreement, PTL

LEMMA GossipBooks == GossipSpec => []Books
BY GossipInitParked, GossipStep, BooksInit, BooksStep, PTL DEF GossipSpec

\* Mempools, states, parked headers, requests and responses have their types, and
\* one header at most is parked for a round.
THEOREM GossipTypes == GossipSpec => []GossipTypeOK
<1>1. Books => GossipTypeOK
  BY DEF Books
<1> QED
  BY <1>1, GossipBooks, PTL

\* No badly signed transaction enters a mempool from another node: absorb drops
\* it, and a commit only takes transactions away.
THEOREM GossipNothingSmuggled == GossipSpec => []NothingSmuggled
<1>1. Books => NothingSmuggled
  BY DEF Books
<1> QED
  BY <1>1, GossipBooks, PTL

\* The state of a node is what its ledger means, however long the run: each
\* transaction counts once, for its owner, although it is executed block by block
\* on whatever copies the node has.
THEOREM GossipStateIsLedger == GossipSpec => []StateIsLedger
<1>1. Books => StateIsLedger
  BY DEF Books
<1> QED
  BY <1>1, GossipBooks, PTL

\* The invariants of nodes, books and vouching together.
LEMMA GossipVouching == GossipSpec => [](SafeInv /\ Vouching)
<1>1. GossipInit => Parked /\ Books /\ Vouching
  BY GossipInitParked, BooksInit, VouchingInit
<1>2. Parked /\ Books /\ Vouching /\ [GossipNext]_vars => (Parked /\ Books /\ Vouching)'
  BY GossipStep, BooksStep, VouchingStep
<1> QED
  BY <1>1, <1>2, GossipImplementsEngine, SpecSafe, PTL DEF GossipSpec

\* Although a commit validates nothing, what it appends extends the chain, is of
\* a proposer of its height, and has only transactions that clients signed.
THEOREM GossipFinalizedBlocksAreValid ==
    ASSUME FewFaults
    PROVE  GossipSpec => []FinalizedBlocksAreValid
<1>1. SafeInv /\ Vouching => FinalizedBlocksAreValid
  BY VouchingValid DEF SafeInv
<1> QED
  BY <1>1, GossipVouching, PTL

\* The state root of a finalized header is that of the state which all transactions
\* up to it amount to, unless too many nodes have executed badly signed copies.
THEOREM GossipStateRootsAreRight ==
    ASSUME FewFaults
    PROVE  GossipSpec => []StateRootsAreRight
<1>1. SafeInv /\ Vouching => StateRootsAreRight
  BY VouchingRoots DEF SafeInv
<1> QED
  BY <1>1, GossipVouching, PTL
=============================================================================
