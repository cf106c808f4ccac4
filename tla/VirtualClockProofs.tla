------------------------- MODULE VirtualClockProofs -------------------------
(***************************************************************************)
(* The virtual clock executes events in one order and honours cancel(),    *)
(* for any delays, number of events and deadlines.                         *)
(***************************************************************************)
EXTENDS VirtualClock, FiniteSetTheorems, TLAPS

\* Nothing pending is in the past or before anything executed, ids are
\* unique, and what was revoked and can still come is known as cancelled.
Pending ==
    /\ \A e \in heap : e.when >= now /\ e.id \in 1 .. seq
    /\ \A e, x \in heap : e.id = x.id => e = x
    /\ \A e \in heap : e.id \in revoked => e.id \in cancelled
    /\ \A id \in revoked : id > seq => id \in cancelled
    /\ running /\ until # None => until >= now

History ==
    /\ \A i \in 1 .. Len(fired) : fired[i].when <= now /\ fired[i].id \in 1 .. seq
    /\ \A i \in 1 .. Len(fired), e \in heap :
          Before(fired[i], e) /\ fired[i].id # e.id

Inv == TypeOK /\ Pending /\ History /\ FiredInOrder /\ RevokedNeverFires

LEMMA InitInv == Init => Inv
<1> SUFFICES ASSUME Init
             PROVE  Inv
  OBVIOUS
<1>1. fired = <<>> /\ Len(fired) = 0
  BY DEF Init
<1>2. fired \in Seq(Event)
  BY DEF Init
<1>3. TypeOK
  BY <1>2 DEF Init, TypeOK
<1>4. Pending /\ History /\ FiredInOrder /\ RevokedNeverFires
  BY <1>1 DEF Init, Pending, History, FiredInOrder, RevokedNeverFires
<1> QED
  BY <1>3, <1>4 DEF Inv

LEMMA FiredEvents ==
    ASSUME TypeOK
    PROVE  \A i \in 1 .. Len(fired) : fired[i].when \in Nat /\ fired[i].id \in Nat
<1>1. \A i \in 1 .. Len(fired) : fired[i] \in Event
  BY DEF TypeOK
<1> QED
  BY <1>1 DEF Event, Id

\* One step at a time: the type first, then the order.
LEMMA TypeStep == Inv /\ [Next]_vars => TypeOK'
<1> SUFFICES ASSUME Inv, [Next]_vars
             PROVE  TypeOK'
  OBVIOUS
<1> USE DelayAssumption, NoneAssumption DEF Inv, TypeOK, Event, Id, Overdue
<1>1. ASSUME NEW d \in Delays, Schedule(d)
      PROVE  TypeOK'
  <2>1. now + d \in Nat /\ seq + 1 \in Nat \ {0}
    OBVIOUS
  <2>2. heap' \subseteq Event
    BY <1>1, <2>1 DEF Schedule
  <2> QED
    BY <1>1, <2>1, <2>2 DEF Schedule
<1>2. ASSUME NEW id \in 1 .. MaxEvents, Cancel(id)
      PROVE  TypeOK'
  <2>1. id \in Nat \ {0}
    BY BoundAssumption
  <2>2. cancelled' \subseteq Nat \ {0} /\ revoked' \subseteq Nat \ {0}
    BY <1>2, <2>1 DEF Cancel
  <2> QED
    BY <1>2, <2>2 DEF Cancel
<1>3. ASSUME NEW u \in {now + d : d \in Delays} \cup {None}, Run(u)
      PROVE  TypeOK'
  BY <1>3 DEF Run
<1>4. ASSUME NEW e \in heap, Skip(e)
      PROVE  TypeOK'
  BY <1>4 DEF Skip
<1>5. ASSUME NEW e \in heap, Pause(e)
      PROVE  TypeOK'
  BY <1>5 DEF Pause
<1>6. ASSUME NEW e \in heap, Fire(e)
      PROVE  TypeOK'
  BY <1>6 DEF Fire
<1>7. CASE Return
  BY <1>7 DEF Return
<1>8. CASE Reset
  BY <1>8 DEF Reset
<1>9. CASE UNCHANGED vars
  BY <1>9 DEF vars
<1> QED
  BY <1>1, <1>2, <1>3, <1>4, <1>5, <1>6, <1>7, <1>8, <1>9 DEF Next, Loop

LEMMA InvStep == Inv /\ [Next]_vars => Inv'
<1> SUFFICES ASSUME Inv, [Next]_vars
             PROVE  (Pending /\ History /\ FiredInOrder /\ RevokedNeverFires)'
  BY TypeStep DEF Inv
<1> USE DEF Inv
<1> DEFINE Goal == (Pending /\ History /\ FiredInOrder /\ RevokedNeverFires)'
<1>1. ASSUME NEW d \in Delays, Schedule(d)
      PROVE  Goal
  <2>1. PICK new \in Event : /\ new.when = now + d /\ new.id = seq + 1
                             /\ heap' = heap \cup {new} /\ seq' = seq + 1
    <3>1. now + d \in Nat /\ seq + 1 \in Nat \ {0}
      BY DelayAssumption DEF TypeOK
    <3>2. [when |-> now + d, id |-> seq + 1] \in Event
      BY <3>1 DEF Event, Id
    <3> QED
      BY <1>1, <3>2 DEF Schedule
  <2>2. UNCHANGED <<now, cancelled, running, until, fired, revoked>>
    BY <1>1 DEF Schedule
  <2>3. new.when >= now /\ new.id \notin 1 .. seq /\ new.id \in 1 .. seq'
    BY <2>1, DelayAssumption DEF TypeOK
  <2>4. Pending'
    <3>1. \A id \in revoked : id > seq => id \in cancelled
      BY DEF Pending
    <3>2. seq \in Nat /\ \A id \in revoked : id \in Nat
      BY DEF TypeOK, Id
    <3>3. /\ new.id \in revoked => new.id \in cancelled
          /\ \A id \in revoked : id > seq' => id \in cancelled
      BY <2>1, <3>1, <3>2
    <3>4. /\ \A e \in heap' : e.when >= now' /\ e.id \in 1 .. seq'
          /\ \A e, x \in heap' : e.id = x.id => e = x
      BY <2>1, <2>2, <2>3, <3>2 DEF Pending
    <3> QED
      BY <2>1, <2>2, <3>3, <3>4 DEF Pending
  <2>5. History'
    <3>1. \A i \in 1 .. Len(fired) :
             /\ fired[i].when <= now /\ fired[i].id \in 1 .. seq'
             /\ Before(fired[i], new) /\ fired[i].id # new.id
      <4> SUFFICES ASSUME NEW i \in 1 .. Len(fired)
                   PROVE  /\ fired[i].when <= now /\ fired[i].id \in 1 .. seq'
                          /\ Before(fired[i], new) /\ fired[i].id # new.id
        OBVIOUS
      <4>1. /\ fired[i].when <= now /\ fired[i].id \in 1 .. seq
            /\ fired[i].when \in Nat /\ now \in Nat /\ seq \in Nat
        BY FiredEvents DEF History, TypeOK
      <4>2. new.when \in Nat
        BY DEF Event
      <4> QED
        BY <2>1, <2>3, <4>1, <4>2 DEF Before
    <3> QED
      BY <2>1, <2>2, <3>1 DEF History
  <2> QED
    BY <2>2, <2>4, <2>5 DEF FiredInOrder, RevokedNeverFires
<1>2. ASSUME NEW id \in 1 .. MaxEvents, Cancel(id)
      PROVE  Goal
  <2>1. UNCHANGED <<now, heap, seq, running, until, fired>>
    BY <1>2 DEF Cancel
  <2>2. Pending'
    <3>1. /\ cancelled' = cancelled \cup {id}
          /\ revoked' \subseteq revoked \cup {id}
      BY <1>2 DEF Cancel
    <3> QED
      BY <2>1, <3>1 DEF Pending
  <2>3. RevokedNeverFires'
    BY <1>2, <2>1 DEF RevokedNeverFires, Executed, Cancel
  <2> QED
    BY <2>1, <2>2, <2>3 DEF History, FiredInOrder
<1>3. ASSUME NEW u \in {now + d : d \in Delays} \cup {None}, Run(u)
      PROVE  Goal
  BY <1>3 DEF Run, Pending, History, FiredInOrder, RevokedNeverFires
<1>4. ASSUME NEW e \in heap, Skip(e)
      PROVE  Goal
  <2>1. /\ heap' = heap \ {e} /\ cancelled' = cancelled \ {e.id}
        /\ UNCHANGED <<now, seq, running, until, fired, revoked>>
    BY <1>4 DEF Skip
  <2>2. e.id <= seq
    BY DEF Pending
  <2>3. Pending'
    BY <2>1, <2>2 DEF Pending, TypeOK, Id
  <2> QED
    BY <2>1, <2>3 DEF History, FiredInOrder, RevokedNeverFires
<1>5. ASSUME NEW e \in heap, Pause(e)
      PROVE  Goal
  <2>1. /\ now' = until /\ until >= now /\ running' = FALSE
        /\ UNCHANGED <<heap, seq, cancelled, until, fired, revoked>>
    BY <1>5 DEF Pause, Overdue, Pending
  <2>2. until \in Nat /\ \A x \in heap : x.when >= until
    BY <1>5 DEF Pause, Overdue, First, Before, TypeOK, Event
  <2>3. Pending'
    BY <2>1, <2>2 DEF Pending
  <2>4. History'
    <3>1. \A i \in 1 .. Len(fired) : fired[i].when <= until
      BY <2>1, <2>2, FiredEvents DEF History, TypeOK
    <3> QED
      BY <2>1, <3>1 DEF History
  <2> QED
    BY <2>1, <2>3, <2>4 DEF FiredInOrder, RevokedNeverFires
<1>6. ASSUME NEW e \in heap, Fire(e)
      PROVE  Goal
  <2>1. /\ heap' = heap \ {e} /\ now' = e.when /\ fired' = Append(fired, e)
        /\ e \in Event /\ (until # None => e.when <= until)
        /\ e.id \notin cancelled
        /\ UNCHANGED <<seq, cancelled, running, until, revoked>>
    BY <1>6 DEF Fire, Overdue, TypeOK, Event
  <2>2. /\ Len(fired') = Len(fired) + 1 /\ fired'[Len(fired) + 1] = e
        /\ \A i \in 1 .. Len(fired) : fired'[i] = fired[i]
    BY <2>1 DEF TypeOK
  <2>3. Len(fired) \in Nat
    BY DEF TypeOK
  <2>4. \A x \in heap' : Before(e, x) /\ x.when >= e.when /\ e.id # x.id
    BY <1>6, <2>1 DEF Fire, First, Before, Pending, TypeOK, Event
  <2>5. Pending'
    BY <2>1, <2>4 DEF Pending, TypeOK
  <2>6. History'
    <3>1. \A i \in 1 .. Len(fired) :
             fired[i].when <= e.when /\ fired[i].id \in 1 .. seq
      BY <2>1, FiredEvents DEF History, Before, Event
    <3>2. e.id \in 1 .. seq
      BY DEF Pending
    <3>3. \A i \in 1 .. Len(fired') :
             fired'[i].when <= now' /\ fired'[i].id \in 1 .. seq'
      BY <2>1, <2>2, <2>3, <3>1, <3>2 DEF Event
    <3>4. \A i \in 1 .. Len(fired'), x \in heap' :
             Before(fired'[i], x) /\ fired'[i].id # x.id
      BY <2>1, <2>2, <2>3, <2>4 DEF History
    <3> QED
      BY <3>3, <3>4 DEF History
  <2>7. FiredInOrder'
    <3>1. SUFFICES ASSUME NEW i \in 1 .. Len(fired'), NEW j \in 1 .. Len(fired'),
                          i < j
                   PROVE  Before(fired'[i], fired'[j])
      BY DEF FiredInOrder, Before
    <3>2. CASE j = Len(fired) + 1
      BY <2>1, <2>2, <2>3, <3>1, <3>2 DEF History
    <3>3. CASE j \in 1 .. Len(fired)
      BY <2>2, <2>3, <3>1, <3>3 DEF FiredInOrder
    <3> QED
      BY <2>2, <2>3, <3>2, <3>3
  <2>8. RevokedNeverFires'
    BY <2>1, <2>2, <2>3 DEF RevokedNeverFires, Pending
  <2> QED
    BY <2>5, <2>6, <2>7, <2>8
<1>7. CASE Return
  BY <1>7 DEF Return, Pending, History, FiredInOrder, RevokedNeverFires
<1>8. CASE Reset
  <2>1. /\ heap' = {} /\ revoked' = {} /\ fired' = <<>> /\ now' = 0 /\ seq' = 0
        /\ running' = FALSE
    BY <1>8 DEF Reset, TypeOK
  <2> QED
    BY <2>1 DEF Pending, History, FiredInOrder, RevokedNeverFires
<1>9. CASE UNCHANGED vars
  BY <1>9 DEF vars, Pending, History, FiredInOrder, RevokedNeverFires
<1> QED
  BY <1>1, <1>2, <1>3, <1>4, <1>5, <1>6, <1>7, <1>8, <1>9 DEF Next, Loop

\* The clock's variables stay numbers, events and ids.
THEOREM ClockTypeOK == Spec => []TypeOK
BY InitInv, InvStep, PTL DEF Spec, Inv

\* Whatever is scheduled, from callbacks or between runs, is executed in the
\* order of time and, at one time, of scheduling.
THEOREM ClockFiresInOrder == Spec => []FiredInOrder
BY InitInv, InvStep, PTL DEF Spec, Inv

\* An event whose id was cancelled before it fired is never executed.
THEOREM ClockRevokedNeverFires == Spec => []RevokedNeverFires
BY InitInv, InvStep, PTL DEF Spec, Inv

-----------------------------------------------------------------------------
(* No event is lost.                                                       *)

pending == {e.id : e \in heap}

\* NothingIsLost needs to know that what run() drops as cancelled was cancelled
\* before it was executed.
Accounted ==
    /\ cancelled \subseteq Executed \cup revoked
    /\ pending \cup Executed \cup (revoked \cap 1 .. seq) = 1 .. seq
    /\ pending \cap Executed = {}
    /\ Cardinality(Executed) = Len(fired)

LEMMA ExecutedFinite == TypeOK => IsFiniteSet(Executed) /\ Len(fired) \in Nat
<1> SUFFICES ASSUME TypeOK PROVE IsFiniteSet(Executed) /\ Len(fired) \in Nat
  OBVIOUS
<1>1. Len(fired) \in Nat /\ IsFiniteSet(1 .. Len(fired))
  BY FS_Interval DEF TypeOK
<1> DEFINE g == [i \in 1 .. Len(fired) |-> fired[i].id]
<1>2. g \in Surjection(1 .. Len(fired), Executed)
  BY DEF Surjection, Executed
<1> QED
  BY <1>1, <1>2, FS_Surjection

LEMMA AccountedInit == Init => Accounted
<1> SUFFICES ASSUME Init PROVE Accounted
  OBVIOUS
<1>1. Len(fired) = 0 /\ Executed = {} /\ pending = {}
  BY DEF Init, Executed, pending
<1> QED
  BY <1>1, FS_EmptySet DEF Init, Accounted

LEMMA AccountedStep == Inv /\ Accounted /\ [Next]_vars => Accounted'
<1> SUFFICES ASSUME Inv, Accounted, [Next]_vars PROVE Accounted'
  OBVIOUS
<1>0. seq \in Nat /\ TypeOK
  BY DEF Inv, TypeOK
<1>1. ASSUME NEW d \in Delays, Schedule(d)
      PROVE  Accounted'
  <2> DEFINE new == [when |-> now + d, id |-> seq + 1]
  <2>1. /\ heap' = heap \cup {new} /\ seq' = seq + 1
        /\ UNCHANGED <<cancelled, fired, revoked>>
    BY <1>1 DEF Schedule
  <2>2. new.id = seq + 1
    OBVIOUS
  <2> HIDE DEF new
  <2>3. pending' = pending \cup {seq + 1} /\ Executed' = Executed
    BY <2>1, <2>2 DEF pending, Executed
  <2>4. 1 .. seq + 1 = (1 .. seq) \cup {seq + 1} /\ seq + 1 \notin 1 .. seq
    BY <1>0
  <2> HIDE DEF pending, Executed
  <2>5. seq + 1 \notin Executed
    BY <2>4 DEF Accounted
  <2> QED
    BY <2>1, <2>2, <2>3, <2>4, <2>5 DEF Accounted
<1>2. ASSUME NEW id \in 1 .. MaxEvents, Cancel(id)
      PROVE  Accounted'
  <2>1. /\ UNCHANGED <<heap, seq, fired>> /\ cancelled' = cancelled \cup {id}
        /\ revoked' = revoked \cup ({id} \ Executed)
        /\ pending' = pending /\ Executed' = Executed
    BY <1>2 DEF Cancel, pending, Executed
  <2> HIDE DEF pending, Executed
  <2> QED
    BY <2>1 DEF Accounted
<1>3. ASSUME NEW e \in heap, Skip(e)
      PROVE  Accounted'
  <2>1. /\ heap' = heap \ {e} /\ cancelled' = cancelled \ {e.id}
        /\ UNCHANGED <<seq, fired, revoked>> /\ Executed' = Executed
        /\ e.id \in revoked
    BY <1>3 DEF Skip, Executed, Accounted, pending
  <2>2. pending' \subseteq pending /\ pending \subseteq pending' \cup {e.id}
    BY <2>1 DEF pending
  <2> HIDE DEF pending, Executed
  <2> QED
    BY <2>1, <2>2 DEF Accounted
<1>4. ASSUME NEW e \in heap, Fire(e)
      PROVE  Accounted'
  <2>1. /\ heap' = heap \ {e} /\ fired' = Append(fired, e)
        /\ UNCHANGED <<seq, cancelled, revoked>>
        /\ fired \in Seq(Event) /\ e \in Event
    BY <1>4 DEF Fire, Inv, TypeOK
  <2>2. /\ Len(fired') = Len(fired) + 1 /\ fired'[Len(fired) + 1] = e
        /\ \A i \in 1 .. Len(fired) : fired'[i] = fired[i]
        /\ Len(fired) \in Nat
    BY <2>1
  <2>3. Executed' = Executed \cup {e.id}
    BY <2>2 DEF Executed
  <2>4. pending' = pending \ {e.id} /\ e.id \in pending
    BY <2>1 DEF pending, Inv, Pending
  <2> HIDE DEF pending, Executed
  <2>5. Cardinality(Executed \cup {e.id}) = Cardinality(Executed) + 1
    BY <1>0, <2>4, ExecutedFinite, FS_AddElement DEF Accounted
  <2>6. pending' \cup Executed' \cup (revoked' \cap 1 .. seq') = 1 .. seq'
    BY <2>1, <2>3, <2>4 DEF Accounted
  <2> QED
    BY <2>1, <2>2, <2>3, <2>4, <2>5, <2>6 DEF Accounted
<1>5. CASE Reset
  <2>1. /\ heap' = {} /\ revoked' = {} /\ fired' = <<>> /\ seq' = 0 /\ cancelled' = {}
    BY <1>5 DEF Reset
  <2>2. Len(fired') = 0 /\ Executed' = {} /\ pending' = {}
    BY <2>1 DEF Executed, pending
  <2> QED
    BY <2>1, <2>2, FS_EmptySet DEF Accounted
<1>6. ASSUME UNCHANGED <<heap, seq, cancelled, fired, revoked>>
      PROVE  Accounted'
  BY <1>6 DEF Accounted, pending, Executed
<1> QED
  BY <1>1, <1>2, <1>3, <1>4, <1>5, <1>6 DEF Next, Loop, Run, Pause, Return, vars

\* Each event scheduled is pending, executed or was cancelled before, and
\* it is executed once.
THEOREM ClockLosesNothing == Spec => []NothingIsLost
<1>1. Accounted => NothingIsLost
  BY DEF Accounted, NothingIsLost, pending, Executed
<1> QED
  BY <1>1, InitInv, InvStep, AccountedInit, AccountedStep, PTL DEF Spec

\* Time never goes back while a run lasts, nor from one run to the next.
THEOREM ClockTimeForward == Spec => TimeForward
<1>1. Inv /\ [Next]_vars => [now' >= now \/ (~running /\ seq' = 0)]_vars
  <2> SUFFICES ASSUME Inv, Next PROVE now' >= now \/ (~running /\ seq' = 0)
    OBVIOUS
  <2>1. now \in Nat
    BY DEF Inv, TypeOK
  <2>2. ASSUME NEW e \in heap, Skip(e) \/ Pause(e) \/ Fire(e)
        PROVE  now' >= now
    BY <2>1, <2>2 DEF Inv, Pending, Skip, Pause, Fire, Overdue
  <2> QED
    BY <2>1, <2>2 DEF Next, Loop, Schedule, Cancel, Run, Return, Reset
<1> QED
  BY <1>1, InitInv, InvStep, PTL DEF Spec, TimeForward
=============================================================================
