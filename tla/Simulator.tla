------------------------------ MODULE Simulator ------------------------------
(***************************************************************************)
(* Engine as the scenarios run it: on the event queue of the VirtualClock, *)
(* with the delays of src/src/network/simulator.py (Network.send), and     *)
(* with Byzantine validators that do what src/src/byzantine.py makes them  *)
(* do.  Where Engine lets any message arrive at any time, here the clock   *)
(* and the few faults of a run decide.                                     *)
(*                                                                         *)
(* A Byzantine validator runs the engine too (byz), and shows half of its  *)
(* peers other votes and proposals than the other half.                    *)
(***************************************************************************)
EXTENDS Engine, SequencesExt

CONSTANTS
    Registered,      \* the validators in the order of Network.nodes
    round_timeout,   \* times and delays in units of 0.01 virtual seconds
    bounded_delay,
    min_delay, max_delay,
    reorder_list,    \* the delays of the first messages
    StabilizeAt,     \* when the harness stabilizes the network (0: it is stable)
    Deadline,        \* when the run ends
    MaxLost, MaxCopied, MaxSlow   \* bounds: the faults of a run

ASSUME NetworkAssumption ==
    /\ Registered \in Seq(Validator)
    /\ \A v \in Validator : \E i \in DOMAIN Registered : Registered[i] = v
    /\ IsInjective(Registered)
    /\ {round_timeout, bounded_delay, min_delay, max_delay} \subseteq Nat
    /\ reorder_list \in Seq(Nat)
    /\ {StabilizeAt, Deadline, MaxLost, MaxCopied, MaxSlow} \subseteq Nat

VARIABLES
    byz,          \* byz[b]: the engine of the Byzantine validator b
    queue,        \* VirtualClock._heap: what is scheduled, in order
    now,
    stabilized,
    order_index,  \* Network._order_index
    faults        \* the messages lost, duplicated and delayed by max_delay so far

simvars == <<node, byz, queue, now, stabilized, order_index, faults>>

engine(m) == IF m \in Honest THEN node[m] ELSE byz[m]

-----------------------------------------------------------------------------
(* What a handler leaves behind.                                           *)

\* What a validator schedules and sends while its engine goes from s to t, in
\* the order in which the code does: the timer of a new round, then the
\* proposal, the prevote and the precommit of that round.
Emitted(s, t) ==
    LET from == <<s.height, s.round>>
        to   == <<t.height, t.round>>
        timer(at) == SetToSeq({[kind |-> "TIMEOUT", body |-> x] :
                                 x \in (t.timers \ s.timers) \cap {at}})
        proposal(at) ==
            SetToSeq({[kind |-> "PROPOSAL", body |-> p] :
                        p \in {q \in t.sent_proposals \ s.sent_proposals :
                                 <<q.block.height, q.round>> = at}})
        vote(at, phase) ==
            SetToSeq({[kind |-> "VOTE", body |-> v] :
                        v \in {w \in t.sent_votes \ s.sent_votes :
                                 <<w.height, w.round>> = at /\ w.phase = phase}})
        in(at) == timer(at) \o proposal(at)
                  \o vote(at, "PREVOTE") \o vote(at, "PRECOMMIT")
    IN  IF from = to THEN in(to) ELSE in(from) \o in(to)

\* The list L without m.
others(L, m) == RemoveAt(L, CHOOSE i \in DOMAIN L : L[i] = m)

\* The other validators, in the sorted order.
peers(m) == others([i \in 1 .. n |-> validators[i - 1]], m)

\* _peer_halves: the ones that see what a Byzantine validator itself believes.
first_half(m) == {peers(m)[i] : i \in 1 .. (n - 1) \div 2}

\* Mutant: every validator has two faces.
told_by_all(m, k, kind, body) ==
    IF k \in first_half(m) THEN body
    ELSE IF kind = "VOTE" THEN [body EXCEPT !.hash = Fabricated]
    ELSE [body EXCEPT !.block.time = @ + 1]

\* What validator m tells k.
told(m, k, kind, body) ==
    IF m \in Honest \/ k \in first_half(m) THEN body
    ELSE IF kind = "VOTE" THEN [body EXCEPT !.hash = Fabricated]
    ELSE [body EXCEPT !.block.time = @ + 1]

\* The events and messages for one thing emitted: broadcast, or _send_to the
\* two halves.
addressed(m, x) ==
    IF x.kind = "TIMEOUT" THEN <<[kind |-> x.kind, to |-> m, body |-> x.body]>>
    ELSE LET receivers == IF m \in Honest THEN others(Registered, m) ELSE peers(m)
         IN  [i \in DOMAIN receivers |->
                [kind |-> x.kind, to |-> receivers[i],
                 body |-> told(m, receivers[i], x.kind, x.body)]]

posted(m, s, t) ==
    LET each(L) == FlattenSeq([i \in DOMAIN L |-> addressed(m, L[i])])
    IN  each(Emitted(s, t))

-----------------------------------------------------------------------------
(* The event queue.                                                        *)

\* Mutant: the times are not looked at.
Precedes_by_id(X, i, j) == i < j

\* What is due first, and of that what was scheduled first.
Precedes(X, i, j) ==
    X[i].time < X[j].time \/ (X[i].time = X[j].time /\ i < j)

\* The events of X at the positions I, in the order in which they are due.
in_order(X, I) ==
    LET place == [i \in I |-> Cardinality({j \in I : j = i \/ Precedes(X, j, i)})]
    IN  [k \in 1 .. Cardinality(I) |-> X[CHOOSE i \in I : place[i] = k]]

\* Mutant: a cancelled timer stays in the queue.
keep_timers(q, m, t) == DOMAIN q

\* cancel: of the timers of m, the queue q keeps those that its engine t has.
kept(q, m, t) ==
    {i \in DOMAIN q : q[i].kind # "TIMEOUT" \/ q[i].to # m \/ q[i].body \in t.timers}

AtMost(k, S) == IF k = 0 THEN {{}} ELSE {X \in SUBSET S : Cardinality(X) <= k}

\* send, for every message of the list L, at this time: it may be dropped or
\* slow until the network is stable, and be sent twice.  Timers are scheduled
\* as they are.  The events of q at the positions I stay.
Send(L, time, q, I) ==
    LET M == {i \in DOMAIN L : L[i].kind # "TIMEOUT"}
    IN  \E lost   \in AtMost(IF stabilized THEN 0 ELSE MaxLost - faults.lost, M) :
        \E slow   \in AtMost(IF stabilized THEN 0 ELSE MaxSlow - faults.slow,
                             M \ lost),
           copied \in AtMost(MaxCopied - faults.copied, M \ lost) :
          LET index(i) == order_index + Cardinality({j \in M \ lost : j <= i})
              delay(i) ==
                  IF i \notin M THEN round_timeout
                  ELSE IF index(i) <= Len(reorder_list) THEN reorder_list[index(i)]
                  ELSE IF i \in slow THEN max_delay
                  ELSE IF stabilized THEN bounded_delay ELSE min_delay
              event(i) == [time |-> time + delay(i), kind |-> L[i].kind,
                           to |-> L[i].to, body |-> L[i].body]
              copies(i) == IF i \in lost THEN <<>>
                           ELSE IF i \in copied THEN <<event(i), event(i)>>
                           ELSE <<event(i)>>
          IN  /\ \E X \in {q \o FlattenSeq([i \in DOMAIN L |-> copies(i)])} :
                    queue' = in_order(X, I \cup (DOMAIN X \ DOMAIN q))
              /\ order_index' =
                    LET used == order_index + Cardinality(M \ lost)
                    IN  IF used < Len(reorder_list) THEN used ELSE Len(reorder_list)
              /\ faults' = [lost   |-> faults.lost + Cardinality(lost),
                            copied |-> faults.copied + Cardinality(copied),
                            slow   |-> faults.slow + Cardinality(slow)]

-----------------------------------------------------------------------------
(* The run (run_timeline).                                                 *)

Active == Byzantine \ Silent

\* A Byzantine validator that is not silent may also be one that was never
\* started (scenario T6).
SimInit ==
    /\ Init
    /\ \E running \in SUBSET Active :
          byz = [b \in Byzantine |-> [NewNode(b) EXCEPT !.crashed = b \notin running]]
    /\ queue = <<>> /\ now = 0 /\ order_index = 0
    /\ stabilized = (StabilizeAt = 0)
    /\ faults = [lost |-> 0, copied |-> 0, slow |-> 0]

started(s, data) == IF s.crashed THEN s ELSE enter_round(s, 0, data)

\* Every node is started, in the order in which they are registered.
SimStart ==
    /\ ~Started
    /\ \E data \in Data :
          LET first(m) == posted(m, engine(m), started(engine(m), data))
          IN  /\ node' = [m \in Honest |-> started(node[m], data)]
              /\ byz' = [b \in Byzantine |-> started(byz[b], data)]
              /\ \E L \in {FlattenSeq([i \in DOMAIN Registered |->
                                         first(Registered[i])])} :
                    Send(L, 0, <<>>, {})
    /\ UNCHANGED <<now, stabilized>>

Until == IF stabilized THEN Deadline ELSE StabilizeAt

\* One turn of VirtualClock.run: the first event, if it is of this kind, is
\* handled to its end.  As in Engine, a node at MaxHeight does nothing more.
Turn(kind, handle(_, _, _)) ==
    /\ queue # <<>> /\ Head(queue).kind = kind /\ Head(queue).time <= Until
    /\ \E e \in {Head(queue)}, data \in Data :
       \E s \in {engine(e.to)} :
       \E t \in {IF s.height = MaxHeight THEN s ELSE handle(s, e.body, data)} :
          /\ InBounds(t)
          /\ now' = e.time
          /\ node' = IF e.to \in Honest THEN [node EXCEPT ![e.to] = t] ELSE node
          /\ byz' = IF e.to \in Honest THEN byz ELSE [byz EXCEPT ![e.to] = t]
          /\ \E L \in {posted(e.to, s, t)} :
                Send(L, e.time, Tail(queue), kept(Tail(queue), e.to, t))
    /\ UNCHANGED stabilized

TimeoutTurn ==
    Turn("TIMEOUT", LAMBDA s, timer, data :
        enter_round([s EXCEPT !.timers = @ \ {timer}], s.round + 1, data))

\* _deliver drops what is for a crashed node.
ProposalTurn ==
    Turn("PROPOSAL", LAMBDA s, p, data :
        IF s.crashed THEN s ELSE on_proposal(s, p, data))

VoteTurn ==
    Turn("VOTE", LAMBDA s, v, data : IF s.crashed THEN s ELSE on_vote(s, v, data))

Over == queue # <<>> => Head(queue).time > Until

\* The queue has no more events until then: run() returns, and the harness
\* stabilizes the network.
Stabilize ==
    /\ Started /\ ~stabilized /\ Over
    /\ stabilized' = TRUE
    /\ now' = IF queue = <<>> THEN now ELSE StabilizeAt
    /\ UNCHANGED <<node, byz, queue, order_index, faults>>

Finish ==
    /\ stabilized /\ queue # <<>> /\ Over /\ now # Deadline
    /\ now' = Deadline
    /\ UNCHANGED <<node, byz, queue, stabilized, order_index, faults>>

SimNext == SimStart \/ TimeoutTurn \/ ProposalTurn \/ VoteTurn \/ Stabilize \/ Finish

\* The run is over, or has come to the bound MaxRound.
Ended ==
    \/ Started /\ stabilized /\ (queue = <<>> \/ now = Deadline)
    \/ \E m \in Validator : engine(m).round = MaxRound

\* The harness drains the queue: weak fairness of SimNext, which is enabled
\* until Ended, in a form that does not make TLC evaluate ENABLED.
DrainsTheQueue == []<>Ended \/ []<><<TRUE>>_simvars

SimSpec == SimInit /\ [][SimNext]_simvars /\ DrainsTheQueue

-----------------------------------------------------------------------------
(* Properties.                                                             *)

\* The queue is in the order of time and holds nothing from the past, each
\* pending timer once; the Byzantine validators run an engine like any other.
SimTypeOK ==
    /\ \A i \in DOMAIN queue :
          /\ queue[i].time >= now
          /\ i > 1 => queue[i - 1].time <= queue[i].time
          /\ queue[i].to \in Validator
    /\ \A m \in {k \in Validator : engine(k).height < MaxHeight} :
          LET mine == {i \in DOMAIN queue :
                         queue[i].kind = "TIMEOUT" /\ queue[i].to = m}
          IN  /\ {queue[i].body : i \in mine} = engine(m).timers
              /\ Cardinality(mine) = Cardinality(engine(m).timers)
    /\ byz \in [Byzantine -> NodeState]

\* Whatever the clock, the delays and byzantine.py do is a behaviour of Engine:
\* its theorems hold for the scenarios, in which a cancelled timer is an entry
\* of the queue and equivocation goes to two halves of the network.
ImplementsEngine == Spec

\* Unless a message is lost or slow, a round ends without a decision only if its
\* proposer is faulty (scenarios T6 and T7): no timer of an earlier round or
\* height and no duplicated or reordered message cuts off a proposer that works.
RoundsEndForCause ==
    faults.lost + faults.slow = 0 =>
       \A m \in Honest : \A r \in 0 .. node[m].round - 1 :
          proposer_for(node[m].height, r) \in Byzantine

\* Unless a message is lost or slow, every honest validator finalizes the
\* target number of blocks before the run ends, although one validator is
\* silent or equivocates ("still finalize -- liveness after a correct proposer
\* is eventually selected", scenario T6; run_until_height).  One slow message
\* is enough to prevent it.
TargetIsReached ==
    <>(\/ faults.lost + faults.slow > 0
       \/ \A m \in Honest : node[m].height = MaxHeight)

-----------------------------------------------------------------------------
(* What the repository says and the code does not do.                      *)

last_block(m) == parent_hash(node[m])

\* main.py, run_t5: "Correct nodes should still reach quorum agreement once
\* conditions improve".  (No node was stopped by the bound MaxHeight.)
QuorumAgreement ==
    now = Deadline /\ Over /\ (\A m \in Honest : node[m].height < MaxHeight) =>
       \E m \in Honest :
          Cardinality({k \in Honest : last_block(k) = last_block(m)}) >= quorum
=============================================================================
