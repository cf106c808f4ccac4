------------------------------ MODULE MCGossip ------------------------------
(***************************************************************************)
(* Gossip on four validators, for TLC.  As in MCEngine, votes are only     *)
(* delivered together with the event that first depends on them; all else  *)
(* is a step of GossipNext.                                                *)
(***************************************************************************)
EXTENDS Gossip, MCEngine

CONSTANTS alice, bob

VARIABLE instance   \* which of five instances is explored

Tx(sender, owner, value, verifies) ==
    [sender |-> sender, key |-> [owner |-> owner, name |-> "x"],
     value |-> value, nonce |-> 0, verifies |-> verifies]

Plain    == Tx(alice, alice, 1, TRUE)
Unsigned == Tx(alice, alice, 1, FALSE)
Replay   == Tx(alice, alice, 2, TRUE)
Stolen   == Tx(bob, alice, 2, TRUE)
Forged   == Tx(bob, alice, 1, FALSE)
Bobs     == Tx(bob, bob, 1, TRUE)

\* What clients hand to the validators in each instance.
Nothing  == [m \in Validator |-> {}]
Mixed    == v0 :> {<<Stolen, Plain, Plain, Replay>>} @@ v1 :> {<<Unsigned>>} @@ Nothing
TwoBlocks == v0 :> {<<Plain>>} @@ v1 :> {<<Plain, Replay, Bobs>>} @@ Nothing
BadCopy  == v0 :> {<<Plain>>} @@ v1 :> {<<Unsigned>>} @@ v2 :> {<<Plain>>} @@ Nothing
Tampered == [m \in Validator |-> {<<Forged>>}]

Handed == [heights |-> Mixed, rounds |-> Mixed, blocks |-> TwoBlocks,
           outvoted |-> BadCopy, tampered |-> Tampered]

Offers == [m \in Validator |-> UNION {Handed[i][m] : i \in DOMAIN Handed}]

Lists(S, size) == UNION {[1 .. k -> S] : k \in 0 .. size}
Hashes(S) == {tx_hash(t) : t \in S}

\* The contents of a block with up to size transactions of S.
Contents(S, size, roots) ==
    [transactions : Lists(S, size), valid : BOOLEAN,
     hashed : [tx_root : Lists(Hashes(S), size), state_root : roots]]

PoolContents ==
    Contents({Plain, Unsigned, Replay, Stolen}, 4, {<<>>} \cup [{Plain.key} -> {1, 2}])
    \cup Contents({Plain, Replay, Bobs}, 3,
                  UNION {[keys -> {1, 2}] : keys \in SUBSET {Plain.key, Bobs.key}})
    \cup Contents({Forged}, 1, {<<>>})

\* Votes that lift a bucket to one less than a quorum, which the vote that m
\* casts in the event completes.
Waiting(m, L, phase) ==
    IF has_voted(node[m], m, node[m].round, phase) THEN {{}}
    ELSE {{}} \cup Lifts(node[m], L, node[m].round, phase, quorum - 1)

\* The event has used the quorums it was given votes for.
Used(m, P, C) ==
    /\ P # {} => \E v \in node'[m].sent_votes \ node[m].sent_votes :
                    v.phase = "PRECOMMIT"
    /\ C # {} => node'[m].height > node[m].height

\* A quorum of votes for one hash, or the rest of one.
CollectQuorum(m, L) ==
    /\ Up(m)
    /\ \E r \in Rounds, phase \in Phase :
       \E W \in Lifts(node[m], L, r, phase, quorum) :
       \E C \in IF phase = "PREVOTE" THEN Waiting(m, L, "PRECOMMIT") ELSE {{}} :
          LET last == CHOOSE v \in W : TRUE
          IN  /\ Handle(m, mempool[m], pending_headers[m], LAMBDA d :
                    on_vote([node[m] EXCEPT !.votes = @ \cup C \cup (W \ {last})],
                            last, d))
              /\ [node'[m] EXCEPT !.votes = node[m].votes] # node[m]
              /\ Used(m, {}, C)
    /\ UNCHANGED <<requests, responses>>

CollectGossip(m) ==
    \E L \in {Lacking(node[m])} :
       \/ \E P \in Waiting(m, L, "PREVOTE"), C \in Waiting(m, L, "PRECOMMIT") :
          \E s \in {[node[m] EXCEPT !.votes = @ \cup P \cup C]} :
             /\ DeliverHeader(m, s) \/ AbsorbBodies(m, s)
             /\ Used(m, P, C)
       \/ CollectQuorum(m, L)

\* Who is handed transactions after the start: anybody, or the proposer of the
\* height.
MayComeLate(m) ==
    \/ instance = "rounds"
    \/ instance \in {"heights", "tampered"} /\ m = proposer_for(node[m].height, 0)

\* v3 is down from the start in all instances but one.
AllSetUp ==
    /\ instance = "outvoted" <=> ~node[v3].crashed
    /\ instance \in {"blocks", "outvoted"} =>
          \A m \in Validator : mempool[m] = <<>> => Handed[instance][m] = {}

\* At height 1 of "blocks" the nodes time out in the order v1, v0, v2.
MayTimeOut(m) ==
    \/ instance = "rounds"
    \/ /\ instance = "blocks" /\ node[m].height = 1
       /\ (m = v0 => node[v1].round = 1) /\ (m = v2 => node[v0].round = 1)

MayCrash(m) == IF m = v3 THEN instance # "outvoted" /\ ~Started ELSE instance = "rounds"

CollectGossipNext ==
    /\ \/ AllSetUp /\ GossipStart
       \/ reset_mempool
       \/ \E m \in Honest :
             \/ ParkHeader(m) \/ ServeBodies(m) \/ CollectGossip(m)
             \/ MayTimeOut(m) /\ GossipTimeout(m)
             \/ MayCrash(m) /\ GossipCrash(m)
             \/ /\ submit_tx(m) /\ (Started => MayComeLate(m))
                /\ \E txs \in Handed[instance][m] : mempool'[m] = mempool[m] \o txs
    /\ UNCHANGED instance

CollectGossipInit == GossipInit /\ instance \in DOMAIN Handed

CollectGossipSpec ==
    CollectGossipInit /\ [][CollectGossipNext]_<<vars, instance>>

\* Instance "heights" explores both heights without timeout or crash, "rounds"
\* both rounds, a crash included, of height 0 without the badly signed copy,
\* "blocks" a second block that is not empty and a round more of its height,
\* "outvoted" one round of four validators of which v1 has a bad copy, and
\* "tampered" the first round when all are handed what nobody signed (T3).
\* The states one step further are checked and not continued.
InInstance ==
    /\ instance \notin {"heights", "blocks"} => \A m \in Honest : node[m].height = 0
    /\ instance = "rounds" =>
          \A m \in Honest : \A t \in Range(mempool[m]) : t.verifies
    /\ instance \in {"outvoted", "tampered"} => \A m \in Honest : node[m].round = 0
=============================================================================
