------------------------------ MODULE MCEngine ------------------------------
(***************************************************************************)
(* Engine on four and five validators, for TLC.                            *)
(*                                                                         *)
(* Spec delivers one vote at a time.  A vote that completes no quorum only *)
(* enters a bucket of its receiver: no other node sees it, it commutes     *)
(* with every step of the others, and since nothing sent is ever withdrawn *)
(* it can be delivered just before the step that first depends on it.      *)
(* CollectSpec explores only such runs: its steps are runs of DeliverVote  *)
(* at one node, then one DeliverProposal or DeliverVote that changes more  *)
(* than a bucket.  It reaches the states of Spec, up to votes that no step *)
(* has depended on.  Spec itself is checked on smaller instances.          *)
(***************************************************************************)
EXTENDS Engine, FiniteSetsExt, TLC

CONSTANTS v0, v1, v2, v3, v4

FourValidators == 0 :> v0 @@ 1 :> v1 @@ 2 :> v2 @@ 3 :> v3
FiveValidators == FourValidators @@ 4 :> v4

\* v2 and v3 propose in no round the instances with this symmetry reach.
NonProposers == Permutations({v2, v3})

Good == [hashed |-> "good", valid |-> TRUE]
OnlyGood == {Good}

\* What votes can be for.  A vote for Fabricated is in no quorum.
Known == {block_hash(p.block) : p \in Proposals} \cup {NIL}

\* The votes that could still enter a bucket of node state s.
Lacking(s) ==
    LET forged == {[validator |-> b, height |-> s.height, round |-> r,
                    phase |-> phase, hash |-> h] :
                      b \in Byzantine \ Silent, r \in Rounds, phase \in Phase,
                      h \in Known}
    IN  {v \in HonestVotes \cup forged :
            /\ v.height = s.height /\ v.validator # s.node_id
            /\ ~has_voted(s, v.validator, v.round, v.phase)}

\* One set of k of the votes V, if there is one.  Which one does not matter:
\* any vote left out can be replaced by one of the same validator.
Pick(k, V) ==
    IF k \in 1 .. Cardinality(V)
    THEN {CHOOSE W \in kSubset(k, V) : TRUE} ELSE {}

\* From the votes L, sets for one hash that lift the bucket of s for the
\* round and phase to size, or add one if it has reached it.
Lifts(s, L, r, phase, size) ==
    LET open == {v \in L : v.round = r /\ v.phase = phase}
        held(hash) == Cardinality({v \in vote_bucket(s, r, phase) :
                                     v.hash = hash})
    IN  UNION {Pick(IF held(hash) >= quorum THEN 1 ELSE size - held(hash),
                    {v \in open : v.hash = hash}) :
               hash \in {v.hash : v \in open}}

\* handle(s) is what an event with the votes W makes of s: it changes more than
\* a bucket, or it can wait.
Visible(s, handle(_)) == \E t \in {handle(s)} : [t EXCEPT !.votes = s.votes] # s

\* The votes of L that waited and are delivered just before the event: they
\* matter if the node casts its own in it.
\* (TLC evaluates e once in \E x \in {e}, and at every use in a LET.)
Waited(s, L, W, handle(_)) ==
    LET slots(V) == {<<v.validator, v.round, v.phase>> : v \in V}
        after(X) == handle([s EXCEPT !.votes = @ \cup X])
        choices(t, phase) ==
            IF /\ ~has_voted(s, s.node_id, s.round, phase)
               /\ t.height > s.height \/ has_voted(t, s.node_id, s.round, phase)
            THEN {{}} \cup Lifts(s, L, s.round, phase, quorum - 1) ELSE {{}}
    IN  {X \in UNION {UNION {{P \cup C : C \in choices(t, "PRECOMMIT")} :
                             t \in {after(P)}} :
                      P \in UNION {choices(t, "PREVOTE") : t \in {after({})}}} :
            slots(X) \cap slots(W) = {}}

\* Scenario T6 crashes its validator before it starts the others.  Where one
\* crashes later, the state is checked and not continued.
CrashedFromTheStart ==
    \A m \in Honest :
        node[m].crashed => node[m] = [NewNode(m) EXCEPT !.crashed = TRUE]

CollectProposal(m) ==
    /\ Running(m) /\ ~node[m].crashed
    /\ \E L \in {Lacking(node[m])} :
       \E p \in Proposals, data \in Data : \E q \in AsHeld(p) :
          LET handle(s) == on_proposal(s, q, data)
          IN  /\ Visible(node[m], handle)
              /\ \E X \in Waited(node[m], L, {}, handle) :
                    Become(m, handle([node[m] EXCEPT !.votes = @ \cup X]))

CollectVotes(m) ==
    /\ Running(m) /\ ~node[m].crashed
    /\ \E L \in {Lacking(node[m])} :
       \E r \in Rounds, phase \in Phase, data \in Data :
       \E W \in Lifts(node[m], L, r, phase, quorum) :
          LET last == CHOOSE v \in W : TRUE
              handle(s) == on_vote([s EXCEPT !.votes = @ \cup (W \ {last})],
                                   last, data)
          IN  /\ Visible(node[m], handle)
              /\ \E X \in Waited(node[m], L, W, handle) :
                    Become(m, handle([node[m] EXCEPT !.votes = @ \cup X]))

CollectNext ==
    \/ Start
    \/ \E m \in Honest :
          \/ CollectProposal(m)
          \/ CollectVotes(m)
          \/ RoundTimeout(m)
          \/ Crash(m)

CollectSpec == Init /\ [][CollectNext]_node
=============================================================================
