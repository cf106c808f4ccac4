---------------------------- MODULE VirtualClock ----------------------------
(***************************************************************************)
(* The discrete-event scheduler of src/src/network/simulator.py.  Every    *)
(* delivery and every round timeout is an event of it; run() executes them *)
(* one at a time in the order of (when, event_id), and the callbacks it    *)
(* executes, like the harness between two calls of run(), schedule and     *)
(* cancel further ones.                                                    *)
(*                                                                         *)
(* Virtual time is in natural numbers, so round(now + delay, 9) is exact.  *)
(***************************************************************************)
EXTENDS Integers, Sequences, FiniteSets

CONSTANTS
    Delays,      \* the delays and run lengths in use
    MaxEvents,   \* bound: events scheduled between two resets
    MaxNow,      \* bound: no deadline of a run() is past this time
    None         \* Python's None: no deadline

ASSUME DelayAssumption == Delays \subseteq Nat
ASSUME BoundAssumption == MaxEvents \in Nat /\ MaxNow \in Nat
ASSUME NoneAssumption == None \notin Nat

VARIABLES
    now,         \* the virtual time
    heap,        \* the pending events
    seq,         \* the last event id handed out
    cancelled,   \* the ids given to cancel() and not met by run() since
    running,     \* whether run() is executing, and
    until,       \* its deadline, or None
    fired,       \* history: the events executed, in order
    revoked      \* history: the ids cancelled before their event was executed

vars == <<now, heap, seq, cancelled, running, until, fired, revoked>>

Id    == Nat \ {0}
Event == [when : Nat, id : Id]

\* The order of the heap.
Before(a, b) == a.when < b.when \/ (a.when = b.when /\ a.id < b.id)

\* Mutant: the heap is keyed by time alone.
FirstByTime(e) == e \in heap /\ \A x \in heap : e.when <= x.when

\* Mutant: the queue is in order of insertion.
FirstInserted(e) == e \in heap /\ \A x \in heap : e.id <= x.id

First(e) == e \in heap /\ \A x \in heap \ {e} : Before(e, x)

Overdue(e) == until # None /\ e.when > until

Init ==
    /\ now = 0 /\ heap = {} /\ seq = 0 /\ cancelled = {}
    /\ running = FALSE /\ until = None /\ fired = <<>> /\ revoked = {}

Schedule(delay) ==
    /\ seq < MaxEvents
    /\ seq' = seq + 1
    /\ heap' = heap \cup {[when |-> now + delay, id |-> seq + 1]}
    /\ UNCHANGED <<now, cancelled, running, until, fired, revoked>>

Executed == {fired[i].id : i \in 1 .. Len(fired)}

\* cancel() takes any id: its event may be pending, have fired (a node cancels
\* the timer that is just firing), have been cancelled, or not be scheduled yet
\* (an id from before a reset()).  cancel(None) does nothing.
Cancel(id) ==
    /\ cancelled' = cancelled \cup {id}
    /\ revoked' = revoked \cup ({id} \ Executed)
    /\ UNCHANGED <<now, heap, seq, running, until, fired>>

\* The harness calls run() with a deadline, which is never in the past, and the
\* tests mostly without one.
Run(u) ==
    /\ ~running
    /\ u # None => u >= now
    /\ running' = TRUE /\ until' = u
    /\ UNCHANGED <<now, heap, seq, cancelled, fired, revoked>>

\* One turn of the loop of run(): the first event is dropped if cancelled,
\* put back if it is past the deadline, executed otherwise.

\* Mutant: a cancelled event stays at the head of the queue.
SkipKeepingEvent(e) ==
    /\ running /\ First(e) /\ e.id \in cancelled
    /\ UNCHANGED vars

Skip(e) ==
    /\ running /\ First(e) /\ e.id \in cancelled
    /\ heap' = heap \ {e}
    /\ cancelled' = cancelled \ {e.id}
    /\ UNCHANGED <<now, seq, running, until, fired, revoked>>

\* Mutant: time stops short of the deadline.
PauseEarly(e) ==
    /\ running /\ First(e) /\ e.id \notin cancelled /\ Overdue(e)
    /\ now' = until - 1
    /\ running' = FALSE
    /\ UNCHANGED <<heap, seq, cancelled, until, fired, revoked>>

\* Mutant: the popped event is not put back.
PauseLosingEvent(e) ==
    /\ running /\ First(e) /\ e.id \notin cancelled /\ Overdue(e)
    /\ now' = until
    /\ running' = FALSE
    /\ heap' = heap \ {e}
    /\ UNCHANGED <<seq, cancelled, until, fired, revoked>>

Pause(e) ==
    /\ running /\ First(e) /\ e.id \notin cancelled /\ Overdue(e)
    /\ now' = until
    /\ running' = FALSE
    /\ UNCHANGED <<heap, seq, cancelled, until, fired, revoked>>

\* Mutant: cancel() has no effect on an event that is due.
FireCancelled(e) ==
    /\ running /\ First(e) /\ ~Overdue(e)
    /\ heap' = heap \ {e}
    /\ now' = e.when
    /\ fired' = Append(fired, e)
    /\ UNCHANGED <<seq, cancelled, running, until, revoked>>

Fire(e) ==
    /\ running /\ First(e) /\ e.id \notin cancelled /\ ~Overdue(e)
    /\ heap' = heap \ {e}
    /\ now' = e.when
    /\ fired' = Append(fired, e)
    /\ UNCHANGED <<seq, cancelled, running, until, revoked>>

\* run() returns: the queue is empty, or stop_condition() holds.
Return ==
    /\ running
    /\ running' = FALSE
    /\ UNCHANGED <<now, heap, seq, cancelled, until, fired, revoked>>

\* reset(), between two runs.
Reset ==
    /\ ~running
    /\ now' = 0 /\ heap' = {} /\ seq' = 0 /\ cancelled' = {}
    /\ fired' = <<>> /\ revoked' = {}
    /\ UNCHANGED <<running, until>>

\* The loop goes on by itself; schedule, cancel and run are calls.
Loop == \E e \in heap : Skip(e) \/ Pause(e) \/ Fire(e)

Next ==
    \/ \E d \in Delays : Schedule(d)
    \/ \E id \in 1 .. MaxEvents : Cancel(id)
    \/ \E d \in Delays : now + d <= MaxNow /\ Run(now + d)
    \/ Run(None)
    \/ Loop
    \/ Return
    \/ Reset

Spec == Init /\ [][Next]_vars /\ WF_vars(Loop)

-----------------------------------------------------------------------------
TypeOK ==
    /\ now \in Nat /\ until \in Nat \cup {None} /\ seq \in Nat
    /\ heap \subseteq Event
    /\ cancelled \subseteq Id /\ revoked \subseteq Id
    /\ running \in BOOLEAN
    /\ fired \in Seq(Event)

\* Events are executed in the order of their time and, at one time, of their
\* scheduling: what makes two runs of a scenario identical.  It also holds
\* across calls of run() and for events a callback schedules for its own
\* time.
FiredInOrder ==
    \A i, j \in 1 .. Len(fired) : i < j => Before(fired[i], fired[j])

\* An event whose id was cancelled before it fired is never executed: a node
\* that has left a round is not called back by its timer.
RevokedNeverFires ==
    \A i \in 1 .. Len(fired) : fired[i].id \notin revoked

\* No event is lost or executed twice: each id handed out is pending,
\* executed, or was cancelled before it was, and only one of the first two.
NothingIsLost ==
    LET pending == {e.id : e \in heap}
    IN  /\ pending \cup Executed \cup (revoked \cap 1 .. seq) = 1 .. seq
        /\ pending \cap Executed = {}
        /\ Cardinality(Executed) = Len(fired)

\* Time never goes back, except by reset().
TimeForward == [][now' >= now \/ (~running /\ seq' = 0)]_vars

\* A due event is executed, unless it is cancelled or run() is stopped.
DueEventFires ==
    \A i \in 1 .. MaxEvents :
        (running /\ \E e \in heap : e.id = i /\ ~Overdue(e))
            ~> (~running \/ i \notin {e.id : e \in heap})
=============================================================================
