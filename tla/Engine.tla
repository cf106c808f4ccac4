------------------------------- MODULE Engine -------------------------------
(***************************************************************************)
(* The Tendermint-style consensus engine of src/src/consensus/engine.py,   *)
(* one instance per honest validator, over a network that may lose, delay, *)
(* duplicate and reorder messages (src/src/network/simulator.py,           *)
(* NetworkConfig), with validators that crash (Node.crash) and validators  *)
(* that equivocate (src/src/byzantine.py).                                 *)
(*                                                                         *)
(* The VirtualClock runs one event at a time to its end, so a handler with *)
(* everything it calls is one atomic step.  A method of ConsensusEngine is *)
(* an operator of the same name from the state of a node to its state      *)
(* afterwards; an action of this module is one event of the clock.         *)
(*                                                                         *)
(* What a node has of the transactions and the two roots of a block is one *)
(* element d of Data: d.hashed is what the block hash covers of it, and    *)
(* d.valid whether signatures and roots are in order.  Each node puts its  *)
(* own copies of the transactions into the block, and the hash does not    *)
(* cover their signatures, so two nodes may judge one block differently.   *)
(* Module Gossip says what Data is.                                        *)
(***************************************************************************)
EXTENDS Integers, Sequences, FiniteSets

CONSTANTS
    Validator,   \* the fixed validator set
    validators,  \* its sorted list, as a function on 0..n-1
    Byzantine,   \* the validators that do not follow the protocol
    Silent,      \* the ones among them that never send anything
    Crashable,   \* the honest validators the scenario may crash
    Data,        \* abstract block contents: transactions and the two roots
    MaxHeight,   \* bound: a node stops once it has finalized this many blocks
    MaxRound,    \* bound: no node goes past this round of a height
    NIL,         \* the vote for no block
    Fabricated,  \* the hash of no block, which a Byzantine validator votes for
    None         \* Python's None where a block is expected

n      == Cardinality(Validator)
f      == (n - 1) \div 3
quorum == 2 * f + 1

Honest == Validator \ Byzantine

Heights == 0 .. MaxHeight
Rounds  == 0 .. MaxRound
Phase   == {"PREVOTE", "PRECOMMIT"}

(***************************************************************************)
(* A block hash is modelled by what it commits to: the fields of the       *)
(* header and, through parent_hash, those of every ancestor.  Distinct     *)
(* blocks thus have distinct hashes, and the hash of a block determines    *)
(* the chain it ends.                                                      *)
(***************************************************************************)
Header == [height : Heights, proposer : Validator, time : Nat,
           data : {d.hashed : d \in Data}]
Hash   == Seq(Header)
Block  == [height : Heights, parent : Hash, proposer : Validator, time : Nat,
           data : Data]

Vote     == [validator : Validator, height : Heights, round : Rounds,
             phase : Phase, hash : Hash \cup {NIL, Fabricated}]
Proposal == [round : Rounds, block : Block]

\* With 6 validators (quorum 3) one bucket can hold two quorums, which _tally
\* handles one after the other; so can it with fewer than 4.
ASSUME ValidatorAssumption ==
    /\ IsFiniteSet(Validator)
    /\ n >= 4 /\ n # 6
    /\ validators \in [0 .. n - 1 -> Validator]
    /\ \A v \in Validator : \E i \in 0 .. n - 1 : validators[i] = v
    /\ Byzantine \subseteq Validator
    /\ Silent \subseteq Byzantine
    /\ Crashable \subseteq Honest

\* The Byzantine validators and one other are no quorum.  byzantine.py:19-22
\* promises more: at most f of n = 3f + 1 are Byzantine, and f + 1 < 2f + 1.
\* propose relies on it.
ASSUME LeaderAssumption == Cardinality(Byzantine) + 1 < quorum

ASSUME BoundAssumption == MaxHeight \in Nat /\ MaxRound \in Nat

ASSUME SentinelAssumption ==
    NIL \notin Hash /\ Fabricated \notin Hash /\ None \notin Block

VARIABLE node    \* node[m]: the state of the honest validator m

-----------------------------------------------------------------------------
(* The state of a node: the fields of ConsensusEngine and Node, those of   *)
(* its ConsensusState, and what it has broadcast.                          *)

NodeState ==
    [node_id        : Validator,
     height         : Heights,
     ledger         : Seq(Block),
     crashed        : BOOLEAN,
     timers         : SUBSET (Heights \X Rounds),
     timeout_event  : (Heights \X Rounds) \cup {<<>>},
     sent_votes     : SUBSET Vote,
     sent_proposals : SUBSET Proposal,
     round          : Rounds,
     step           : {"PROPOSE", "PREVOTE", "PRECOMMIT"},
     locked_block   : Block \cup {None},
     locked_round   : Rounds \cup {-1},
     valid_block    : Block \cup {None},
     valid_round    : Rounds \cup {-1},
     proposals      : SUBSET Proposal,
     votes          : SUBSET Vote]

\* A node as it is constructed, before start().
NewNode(m) ==
    [node_id |-> m, height |-> 0, ledger |-> <<>>, crashed |-> FALSE,
     timers |-> {}, timeout_event |-> <<>>,
     sent_votes |-> {}, sent_proposals |-> {},
     round |-> 0, step |-> "PROPOSE",
     locked_block |-> None, locked_round |-> -1,
     valid_block |-> None, valid_round |-> -1,
     proposals |-> {}, votes |-> {}]

block_hash(b) ==
    Append(b.parent, [height |-> b.height, proposer |-> b.proposer,
                      time |-> b.time, data |-> b.data.hashed])

parent_hash(s) ==
    IF s.ledger = <<>> THEN <<>> ELSE block_hash(s.ledger[Len(s.ledger)])

proposer_for(height, round) == validators[(height + round) % n]

is_proposer(s) == proposer_for(s.height, s.round) = s.node_id

\* Mutant: counts the votes of all rounds together.
vote_bucket_of_any_round(s, r, phase) == {v \in s.votes : v.phase = phase}

vote_bucket(s, r, phase) == {v \in s.votes : v.round = r /\ v.phase = phase}

has_voted(s, m, r, phase) ==
    \E v \in s.votes : v.validator = m /\ v.round = r /\ v.phase = phase

\* Mutant: one vote short of a quorum is enough.
winners_one_short(s, r, phase) ==
    LET bucket == vote_bucket(s, r, phase)
    IN  {h \in {v.hash : v \in bucket} :
            Cardinality({v \in bucket : v.hash = h}) >= quorum - 1}

\* Mutant: a quorum is not enough.
winners_above_quorum(s, r, phase) ==
    LET bucket == vote_bucket(s, r, phase)
    IN  {h \in {v.hash : v \in bucket} :
            Cardinality({v \in bucket : v.hash = h}) > quorum}

\* The hashes for which the bucket holds a quorum (_tally).
winners(s, r, phase) ==
    LET bucket == vote_bucket(s, r, phase)
    IN  {h \in {v.hash : v \in bucket} :
            Cardinality({v \in bucket : v.hash = h}) >= quorum}

-----------------------------------------------------------------------------
(* Voting and proposing.                                                   *)

\* _send_vote up to its broadcast: the vote goes into the node's own bucket
\* and onto the network.
cast_vote(s, phase, hash) ==
    LET v == [validator |-> s.node_id, height |-> s.height, round |-> s.round,
              phase |-> phase, hash |-> hash]
    IN  [s EXCEPT !.step = phase, !.votes = @ \cup {v},
                  !.sent_votes = @ \cup {v}]

\* The header checks that need no body.
accept_header(s, b, r) ==
    /\ b.height = s.height
    /\ b.parent = parent_hash(s)
    /\ b.proposer = proposer_for(s.height, r)

\* Mutant: nothing of the body is validated.
validate_header_only(s, b, r) == accept_header(s, b, r)

validate_block(s, b, r) == accept_header(s, b, r) /\ b.data.valid

\* Mutant: the lock does not bind the prevote.
prevote_hash_without_lock(s, b, r) ==
    IF validate_block(s, b, r) THEN block_hash(b) ELSE NIL

\* What a node prevotes on a proposal of its round: the block if it is valid
\* and agrees with the lock, NIL otherwise.
prevote_hash(s, b, r) ==
    IF /\ validate_block(s, b, r)
       /\ s.locked_block # None => block_hash(b) = block_hash(s.locked_block)
    THEN block_hash(b)
    ELSE NIL

\* Mutant: the timestamp of the round before.
new_block_of_previous_round(s, data) ==
    [height |-> s.height, parent |-> parent_hash(s), proposer |-> s.node_id,
     time |-> s.round - 1, data |-> data]

new_block(s, data) ==
    [height |-> s.height, parent |-> parent_hash(s), proposer |-> s.node_id,
     time |-> s.round, data |-> data]

\* The re-proposed valid_block or a fresh block, broadcast, then prevoted.  A
\* ByzantineEngine never re-proposes.
\* The code tallies that prevote at once, inside the call that enters the round.
\* Here the tally is left out, as it does nothing: no honest validator prevotes
\* in a round before its proposer has proposed, and the Byzantine ones and the
\* proposer are no quorum (ProposerFindsNoQuorum).
propose(s, data) ==
    LET b == IF s.valid_block # None /\ s.node_id \notin Byzantine
             THEN s.valid_block ELSE new_block(s, data)
        p == [round |-> s.round, block |-> b]
        t == [s EXCEPT !.proposals = {q \in @ : q.round # s.round} \cup {p},
                       !.sent_proposals = @ \cup {p}]
    IN  cast_vote(t, "PREVOTE", prevote_hash(t, b, t.round))

\* Mutant: the pending timer survives.
cancel_nothing(s) == s

cancel(s) == [s EXCEPT !.timers = @ \ {s.timeout_event}]

\* A timer event is identified by the height and round it was scheduled in:
\* a node schedules one on entering a round and enters no round twice.
reset_round_timeout(s) ==
    LET t == <<s.height, s.round>>
    IN  [cancel(s) EXCEPT !.timers = @ \cup {t}, !.timeout_event = t]

\* Mutant: a new round starts without the lock.
enter_round_unlocked(s, r, data) ==
    LET t == reset_round_timeout(
               [s EXCEPT !.round = r, !.step = "PROPOSE",
                         !.locked_block = None, !.locked_round = -1])
    IN  IF is_proposer(t) THEN propose(t, data) ELSE t

enter_round(s, r, data) ==
    LET t == reset_round_timeout([s EXCEPT !.round = r, !.step = "PROPOSE"])
    IN  IF is_proposer(t) THEN propose(t, data) ELSE t

-----------------------------------------------------------------------------
(* Quorums.                                                                *)

\* Mutant: the ConsensusState of the old height is kept.
commit_keeping_state(s, data) ==
    enter_round([cancel(s) EXCEPT !.ledger = Append(@, s.locked_block),
                                  !.height = @ + 1], 0, data)

\* _on_precommit_quorum once its checks have passed: append the locked block,
\* replace the ConsensusState, start the next height.
commit(s, data) ==
    LET t == [cancel(s) EXCEPT
                !.ledger = Append(@, s.locked_block), !.height = @ + 1,
                !.locked_block = None, !.locked_round = -1,
                !.valid_block = None, !.valid_round = -1,
                !.proposals = {}, !.votes = {}]
    IN  enter_round(t, 0, data)

on_precommit_quorum(s, hash, data) ==
    IF s.locked_block # None /\ block_hash(s.locked_block) = hash
    THEN commit(s, data) ELSE s

on_precommit_nil_quorum(s, r, data) ==
    IF r = s.round THEN enter_round(s, r + 1, data) ELSE s

\* _tally of precommits.  No two hashes win, as 2 * quorum > n (n # 6).
tally_precommits(s, r, data) ==
    LET W == winners(s, r, "PRECOMMIT")
    IN  IF W = {} THEN s
        ELSE LET hash == CHOOSE h \in W : TRUE
             IN  IF hash = NIL THEN on_precommit_nil_quorum(s, r, data)
                 ELSE on_precommit_quorum(s, hash, data)

\* _send_vote(PRECOMMIT, hash) with its tally.
send_precommit(s, hash, data) ==
    IF has_voted(s, s.node_id, s.round, "PRECOMMIT") THEN s
    ELSE tally_precommits(cast_vote(s, "PRECOMMIT", hash), s.round, data)

\* Mutant: a quorum of an older round replaces the lock.
on_prevote_quorum_of_any_round(s, r, b, data) ==
    LET t == [s EXCEPT !.locked_block = b, !.locked_round = r,
                       !.valid_block = b, !.valid_round = r]
    IN  IF r = s.round /\ s.step = "PREVOTE"
        THEN send_precommit(t, block_hash(b), data) ELSE t

on_prevote_quorum(s, r, b, data) ==
    LET lock  == IF r >= s.locked_round
                 THEN [s EXCEPT !.locked_block = b, !.locked_round = r] ELSE s
        valid == IF r >= s.valid_round
                 THEN [lock EXCEPT !.valid_block = b, !.valid_round = r]
                 ELSE lock
    IN  IF r = s.round /\ s.step = "PREVOTE"
        THEN send_precommit(valid, block_hash(b), data) ELSE valid

on_prevote_nil_quorum(s, r, data) ==
    IF r = s.round /\ s.step = "PREVOTE"
    THEN send_precommit(s, NIL, data) ELSE s

\* _tally of prevotes, with the check of _on_prevote_quorum that the quorum
\* is for the proposal this node has for that round.
tally_prevotes(s, r, data) ==
    LET W == winners(s, r, "PREVOTE")
        P == {p \in s.proposals : p.round = r /\ block_hash(p.block) \in W}
    IN  IF NIL \in W THEN on_prevote_nil_quorum(s, r, data)
        ELSE IF P # {}
             THEN on_prevote_quorum(s, r, (CHOOSE p \in P : TRUE).block, data)
             ELSE s

-----------------------------------------------------------------------------
(* Message handlers.                                                       *)

\* Mutant: prevotes every proposal of its round.
handle_each_proposal(s, b, r, data) ==
    LET t == IF \E p \in s.proposals : p.round = r THEN s
             ELSE [s EXCEPT !.proposals = @ \cup {[round |-> r, block |-> b]}]
    IN  IF r # t.round THEN t
        ELSE tally_prevotes(cast_vote(t, "PREVOTE", prevote_hash(t, b, r)),
                            r, data)

\* Mutant: the node's own prevote is not tallied.
handle_proposal_without_tally(s, b, r, data) ==
    LET t == IF \E p \in s.proposals : p.round = r THEN s
             ELSE [s EXCEPT !.proposals = @ \cup {[round |-> r, block |-> b]}]
    IN  IF r # t.round \/ t.step # "PROPOSE" THEN t
        ELSE cast_vote(t, "PREVOTE", prevote_hash(t, b, r))

handle_proposal_local(s, b, r, data) ==
    LET t == IF \E p \in s.proposals : p.round = r THEN s
             ELSE [s EXCEPT !.proposals = @ \cup {[round |-> r, block |-> b]}]
    IN  IF \/ r # t.round
           \/ t.step # "PROPOSE"
           \/ has_voted(t, t.node_id, r, "PREVOTE")
        THEN t
        ELSE tally_prevotes(cast_vote(t, "PREVOTE", prevote_hash(t, b, r)),
                            r, data)

\* The receiver gets the header first and asks for the bodies it misses; this
\* step is the moment it has accepted the one and holds the others.
on_proposal(s, p, data) ==
    IF accept_header(s, p.block, p.round)
    THEN handle_proposal_local(s, p.block, p.round, data) ELSE s

on_vote(s, v, data) ==
    IF v.height # s.height \/ has_voted(s, v.validator, v.round, v.phase)
    THEN s
    ELSE LET t == [s EXCEPT !.votes = @ \cup {v}]
         IN  IF v.phase = "PREVOTE" THEN tally_prevotes(t, v.round, data)
             ELSE tally_precommits(t, v.round, data)

-----------------------------------------------------------------------------
(* The network: what was sent can arrive at any time, any number of times, *)
(* or never.  A Byzantine validator that is not silent signs votes for     *)
(* anything proposed so far, for NIL or for the hash of no block, and in   *)
(* the rounds it leads proposes blocks that differ in timestamp or         *)
(* contents on any finalized chain.  That is wider than ByzantineEngine.   *)
(* It does not pass off a proposal of another validator, or of an earlier  *)
(* round, as one of a later round, which the signed header would allow.    *)

HonestVotes     == UNION {node[m].sent_votes : m \in Honest}
HonestProposals == UNION {node[m].sent_proposals : m \in Honest}

ByzantineProposals ==
    {[round |-> x[1],
      block |-> [height |-> Len(x[2]), parent |-> x[2],
                 proposer |-> proposer_for(Len(x[2]), x[1]),
                 time |-> x[1] + late, data |-> data]] :
        x \in {y \in Rounds \X {parent_hash(node[m]) : m \in Honest} :
                  proposer_for(Len(y[2]), y[1]) \in Byzantine \ Silent},
        late \in {0, 1}, data \in Data}

Proposals == HonestProposals \cup ByzantineProposals

ByzantineVotes ==
    [validator : Byzantine \ Silent, height : Heights, round : Rounds, phase : Phase,
     hash : {block_hash(p.block) : p \in Proposals} \cup {NIL, Fabricated}]

Votes == HonestVotes \cup ByzantineVotes

-----------------------------------------------------------------------------
(* The events.                                                             *)

Init == node = [m \in Honest |-> NewNode(m)]

Started == \E m \in Honest : node[m].timers # {}

\* Bounds: a node at MaxHeight takes no further event (run_until_height
\* stops there), and no event takes a node past MaxRound.
Running(m)   == Started /\ node[m].height < MaxHeight
InBounds(s)  == s.round <= MaxRound

Become(m, s) == InBounds(s) /\ node' = [node EXCEPT ![m] = s]

\* The harness starts every node before it runs the clock.
Start ==
    /\ ~Started
    /\ \E m \in Honest : ~node[m].crashed
    /\ \E data \in [Honest -> Data] :
          node' = [m \in Honest |->
                     IF node[m].crashed THEN node[m]
                     ELSE enter_round(node[m], 0, data[m])]

\* What a node can make of a proposal with its own copies of the transactions.
AsHeld(p) ==
    {[p EXCEPT !.block.data = held] :
        held \in {d \in Data : d.hashed = p.block.data.hashed}}

DeliverProposal(m) ==
    /\ Running(m) /\ ~node[m].crashed
    /\ \E p \in Proposals, data \in Data : \E q \in AsHeld(p) :
          Become(m, on_proposal(node[m], q, data))

DeliverVote(m) ==
    /\ Running(m) /\ ~node[m].crashed
    /\ \E v \in Votes, data \in Data : Become(m, on_vote(node[m], v, data))

\* The timer fires whether or not the node has crashed.
RoundTimeout(m) ==
    /\ Running(m)
    /\ \E t \in node[m].timers, data \in Data :
          LET s == [node[m] EXCEPT !.timers = @ \ {t}]
          IN  Become(m, enter_round(s, s.round + 1, data))

Crash(m) ==
    /\ m \in Crashable /\ ~node[m].crashed
    /\ node' = [node EXCEPT ![m].crashed = TRUE]

Next ==
    \/ Start
    \/ \E m \in Honest :
          \/ DeliverProposal(m)
          \/ DeliverVote(m)
          \/ RoundTimeout(m)
          \/ Crash(m)

Spec == Init /\ [][Next]_node

-----------------------------------------------------------------------------
(* Properties.                                                             *)

\* Every field of every node keeps to its type: in particular no handler
\* leaves a node past the bounds, and a node keeps its identity.
TypeOK ==
    /\ node \in [Honest -> NodeState]
    /\ \A m \in Honest : node[m].node_id = m

\* The validators that can be shown to have cast this vote.
Voters(height, r, phase, hash) ==
    Byzantine \cup
    {m \in Honest : [validator |-> m, height |-> height, round |-> r,
                     phase |-> phase, hash |-> hash] \in node[m].sent_votes}

\* A quorum for the hash exists, or could be completed by Byzantine votes.
Certified(height, r, phase, hash) ==
    Cardinality(Voters(height, r, phase, hash)) >= quorum

\* Two honest validators never finalize different blocks at one height
\* (what assert_no_conflicting_finalization and byzantine.py are about).
Agreement ==
    \A m, k \in Honest : \A i \in 1 .. Len(node[m].ledger) :
        i <= Len(node[k].ledger) =>
            block_hash(node[m].ledger[i]) = block_hash(node[k].ledger[i])

\* The finalized chains are the one chain of module Chain.
Finality == INSTANCE Chain WITH
    Node   <- Honest,
    Block  <- Hash,
    ledger <- [m \in Honest |-> [i \in 1 .. Len(node[m].ledger) |->
                                   block_hash(node[m].ledger[i])]]

\* Every step finalizes at most one block at one validator, after its last
\* one, and the same that any validator further along has there.
BuildsOneChain == Finality!Spec

\* Rules 1 and 2: an honest validator signs at most one vote for a height,
\* round and phase, whatever is redelivered to it and whichever of the three
\* paths to _send_vote it takes.
VoteOnce ==
    \A m \in Honest : \A v, w \in node[m].sent_votes :
        v.height = w.height /\ v.round = w.round /\ v.phase = w.phase => v = w

\* Rule 4: a lock, and the valid_block a proposer re-proposes, are backed by
\* a prevote quorum of the round they are recorded for.
LockIsCertified ==
    \A m \in Honest :
        LET s == node[m]
            backed(b, r) == Certified(s.height, r, "PREVOTE", block_hash(b))
        IN  /\ s.locked_block # None => backed(s.locked_block, s.locked_round)
            /\ s.valid_block # None => backed(s.valid_block, s.valid_round)

\* Rule 5: a validator that precommitted a block prevotes for another one in
\* a later round only if a round after the precommit had a prevote quorum for
\* some other block before it prevoted: its own votes of the round of that
\* prevote, and of the rounds it had yet to reach, are not in it.
UnlockIsJustified ==
    \A m \in Honest : \A w, v \in node[m].sent_votes :
        (/\ w.phase = "PRECOMMIT" /\ v.phase = "PREVOTE"
         /\ w.height = v.height /\ w.round < v.round
         /\ NIL \notin {w.hash, v.hash} /\ v.hash # w.hash)
        => \E r \in w.round + 1 .. MaxRound :
           \E hash \in {x.hash : x \in HonestVotes} \ {NIL, w.hash} :
              LET own == IF r >= v.round THEN {m} ELSE {}
              IN  Cardinality(Voters(w.height, r, "PREVOTE", hash) \ own)
                     >= quorum

\* A finalized block has a precommit quorum of one single round.
DecisionIsCertified ==
    \A m \in Honest : \A i \in 1 .. Len(node[m].ledger) :
        \E r \in Rounds :
            Certified(i - 1, r, "PRECOMMIT", block_hash(node[m].ledger[i]))

\* A started node has exactly one pending timer, the one of the round it is
\* in: no earlier timer survives to fire in a later round or height, and the
\* node is never left without one.
OneTimer ==
    \A m \in Honest :
        Started /\ ~node[m].crashed =>
            node[m].timers = {<<node[m].height, node[m].round>>}

\* A node that has prevoted and holds a prevote quorum of its round for NIL,
\* or for the proposal it has, has precommitted: no order of arrival of the
\* proposal, its own vote and the others' leaves the quorum unused.
PrevoteQuorumIsActedOn ==
    \A m \in Honest :
        LET s == node[m]
        IN  s.step = "PREVOTE" =>
              \A h \in winners(s, s.round, "PREVOTE") :
                 h # NIL /\ \A p \in s.proposals :
                               p.round = s.round => block_hash(p.block) # h

\* A node never goes back: its height and, within a height, its round and
\* the rounds of its lock and valid block never decrease, and it signs no
\* vote for a height or round it has left (rule 6).
ForwardOnly ==
    [][\A m \in Honest :
         LET s == node[m]
             t == node'[m]
         IN  /\ \/ t.height > s.height
                \/ /\ t.height = s.height /\ t.round >= s.round
                   /\ t.locked_round >= s.locked_round
                   /\ t.valid_round >= s.valid_round
             /\ \A v \in t.sent_votes \ s.sent_votes :
                   \/ v.height > s.height
                   \/ v.height = s.height /\ v.round >= s.round]_node

\* A proposer that prevotes its own proposal on entering the round, in the same
\* call, finds no quorum of prevotes there, whatever it has been sent for that
\* round before: the tally in _propose cannot make it precommit, let alone
\* commit or leave the round, before the call that enters it has returned.
ProposerFindsNoQuorum ==
    [][\A m \in Honest :
         node'[m].sent_proposals # node[m].sent_proposals =>
             winners(node'[m], node'[m].round, "PREVOTE") = {}]_node

-----------------------------------------------------------------------------
(* What comments of the source say and the code does not do.               *)

\* engine.py:57-61: "a quorum for round r is always resolved against round
\* r's actual block, regardless of what round we've personally moved on to".
\* A node that holds a precommit quorum for the proposal it keeps for that
\* round has decided (and so dropped both with its ConsensusState).
PrecommitQuorumIsResolved ==
    \A m \in Honest : \A p \in node[m].proposals :
        block_hash(p.block) \notin winners(node[m], p.round, "PRECOMMIT")

\* engine.py:173-177: a proposer with a valid_block "MUST re-propose that
\* exact value".  A validator of the proposal's height accepts its header.
ReproposalIsAccepted ==
    \A m, k \in Honest : \A p \in node[m].sent_proposals :
        node[k].height = p.block.height =>
            accept_header(node[k], p.block, p.round)

\* node.py:46-48: a crashed validator "stops proposing and voting".
CrashedIsSilent ==
    [][\A m \in Honest : node[m].crashed =>
          /\ node'[m].sent_votes = node[m].sent_votes
          /\ node'[m].sent_proposals = node[m].sent_proposals]_node
=============================================================================
