------------------------- MODULE RateLimiterProofs -------------------------
(***************************************************************************)
(* The rate limiter keeps to its limit and suppresses nothing without      *)
(* cause, for any set of nodes, limit, window and block duration.          *)
(***************************************************************************)
EXTENDS RateLimiter, FiniteSetTheorems, TLAPS

StampOf(q) == [time |-> q.time, id |-> q.id]

\* Attempts are finitely many, not in the future and told apart by their id.
History ==
    \A s \in Peer :
        /\ IsFiniteSet(attempts[s]) /\ IsFiniteSet(send_times[s])
        /\ \A q \in attempts[s] : q.time <= now /\ q.id < Cardinality(attempts[s])
        /\ \A q, u \in attempts[s] : q.id = u.id => q = u

\* The limiter forgets no message that passed within the window, and counts
\* nothing that was not attempted.
Remembered ==
    \A s \in Peer :
        /\ \A q \in attempts[s] :
              q.passed /\ q.time >= now - rate_window => StampOf(q) \in send_times[s]
        /\ \A t \in send_times[s] : \E q \in attempts[s] : StampOf(q) = t

\* RateRespected for windows that end at any time.
Passed(A, time)  == {q \in A : q.passed /\ q.time \in Window(time)}
Tried(A, time)   == {q \in A : q.time \in Window(time)}
RateAtAnyTime ==
    \A s \in Peer : \A time \in Nat :
        Cardinality(Passed(attempts[s], time)) <= rate_limit

\* A block was caused by an excess to the peer that blocks.
Excess(A, u) == Cardinality(Tried(A, u.time)) > rate_limit
BlockedForCause ==
    \A r, s \in Peer :
        blocked_until[<<r, s>>] # 0 =>
            \E u \in attempts[s] :
                /\ u.to = r /\ Excess(attempts[s], u)
                /\ blocked_until[<<r, s>>] = u.time + block_duration

Inv ==
    /\ TypeOK /\ History /\ Remembered /\ RateAtAnyTime /\ BlockedForCause
    /\ SuppressedForCause

LEMMA InitInv == Init => Inv
<1> SUFFICES ASSUME Init PROVE Inv
  OBVIOUS
<1>1. TypeOK
  BY DEF Init, TypeOK
<1>2. \A s \in Peer : attempts[s] = {} /\ send_times[s] = {}
  BY DEF Init
<1>3. History
  BY <1>2, FS_EmptySet DEF History
<1>4. Remembered /\ SuppressedForCause
  BY <1>2 DEF Remembered, SuppressedForCause
<1>5. RateAtAnyTime
  <2> SUFFICES ASSUME NEW s \in Peer, NEW time \in Nat
               PROVE  Cardinality(Passed(attempts[s], time)) <= rate_limit
    BY DEF RateAtAnyTime
  <2>1. Passed(attempts[s], time) = {}
    BY <1>2 DEF Passed
  <2> QED
    BY <2>1, FS_EmptySet, LimitAssumption
<1>6. BlockedForCause
  BY DEF Init, BlockedForCause
<1> QED
  BY <1>1, <1>3, <1>4, <1>5, <1>6 DEF Inv

\* More attempts never undo an excess.
LEMMA ExcessGrows ==
    ASSUME NEW A, NEW B, IsFiniteSet(B), A \subseteq B, NEW u, Excess(A, u)
    PROVE  Excess(B, u)
<1>1. Tried(B, u.time) \in SUBSET B /\ Tried(A, u.time) \in SUBSET Tried(B, u.time)
  BY DEF Tried
<1>2. IsFiniteSet(Tried(B, u.time))
  BY <1>1, FS_Subset
<1>3. /\ Cardinality(Tried(A, u.time)) <= Cardinality(Tried(B, u.time))
      /\ Cardinality(Tried(B, u.time)) \in Nat /\ Cardinality(Tried(A, u.time)) \in Nat
  BY <1>1, <1>2, FS_Subset, FS_CardinalityType
<1> QED
  BY <1>3, LimitAssumption DEF Excess

\* What every message given to send() adds to the history of its sender.
LEMMA RecordAdds ==
    ASSUME TypeOK, History, NEW s \in Peer, NEW r \in Peer, NEW passed \in BOOLEAN,
           Record(s, r, passed), now' = now
    PROVE  \E new \in Attempt :
              /\ new = [time |-> now, id |-> Cardinality(attempts[s]), to |-> r,
                        passed |-> passed]
              /\ new \notin attempts[s]
              /\ attempts' = [attempts EXCEPT ![s] = attempts[s] \cup {new}]
              /\ IsFiniteSet(attempts'[s])
              /\ \A q \in attempts'[s] : q.time <= now' /\ q.id < Cardinality(attempts'[s])
              /\ \A q, u \in attempts'[s] : q.id = u.id => q = u
<1> DEFINE new == [time |-> now, id |-> Cardinality(attempts[s]), to |-> r,
                   passed |-> passed]
<1>1. /\ IsFiniteSet(attempts[s]) /\ Cardinality(attempts[s]) \in Nat
      /\ attempts[s] \in SUBSET Attempt /\ now \in Nat
  BY FS_CardinalityType DEF History, TypeOK
<1>2. /\ new \in Attempt /\ new.id = Cardinality(attempts[s])
      /\ new.time = now
  BY <1>1 DEF Attempt
<1>3. \A q \in attempts[s] : q.id \in Nat /\ q.id < Cardinality(attempts[s])
  BY <1>1 DEF History, Attempt
<1>4. new \notin attempts[s]
  BY <1>1, <1>2, <1>3
<1>5. /\ attempts' = [attempts EXCEPT ![s] = attempts[s] \cup {new}]
      /\ attempts'[s] = attempts[s] \cup {new}
  BY DEF Record, TypeOK
<1> HIDE DEF new
<1>6. /\ IsFiniteSet(attempts'[s])
      /\ Cardinality(attempts'[s]) = Cardinality(attempts[s]) + 1
  BY <1>1, <1>4, <1>5, FS_AddElement
<1>7. \A q \in attempts'[s] : q.time <= now' /\ q.id < Cardinality(attempts'[s])
  BY <1>1, <1>2, <1>3, <1>5, <1>6 DEF History
<1>8. \A q, u \in attempts'[s] : q.id = u.id => q = u
  BY <1>1, <1>2, <1>3, <1>5 DEF History
<1> QED
  BY <1>2, <1>4, <1>5, <1>6, <1>7, <1>8 DEF new

\* Attempts of one sender are counted like their stamps.
LEMMA StampsCount ==
    ASSUME NEW A, IsFiniteSet(A), \A q, u \in A : q.id = u.id => q = u,
           NEW T, IsFiniteSet(T)
    PROVE  /\ (\A q \in A : StampOf(q) \in T) => Cardinality(A) <= Cardinality(T)
           /\ (\A t \in T : \E q \in A : StampOf(q) = t) =>
                 Cardinality(T) <= Cardinality(A)
<1>1. ASSUME \A q \in A : StampOf(q) \in T
      PROVE  Cardinality(A) <= Cardinality(T)
  <2> DEFINE g == [q \in A |-> StampOf(q)]
  <2>1. g \in [A -> T]
    BY <1>1
  <2>2. \A q, u \in A : g[q] = g[u] => q = u
    BY DEF StampOf
  <2>3. g \in Injection(A, T)
    BY <2>1, <2>2 DEF Injection, IsInjective
  <2> QED
    BY <2>3, FS_Injection
<1>2. ASSUME \A t \in T : \E q \in A : StampOf(q) = t
      PROVE  Cardinality(T) <= Cardinality(A)
  <2> DEFINE g == [t \in T |-> CHOOSE q \in A : StampOf(q) = t]
  <2>1. \A t \in T : g[t] \in A /\ StampOf(g[t]) = t
    BY <1>2
  <2>2. g \in [T -> A]
    BY <2>1
  <2>3. g \in Injection(T, A)
    BY <2>1, <2>2 DEF Injection, IsInjective
  <2> QED
    BY <2>3, FS_Injection
<1> QED
  BY <1>1, <1>2

LEMMA AdvanceStep == Inv /\ Advance => Inv'
<1> SUFFICES ASSUME Inv, Advance PROVE Inv'
  OBVIOUS
<1>1. /\ now \in Nat /\ now' = now + 1
      /\ UNCHANGED <<send_times, blocked_until, attempts>>
  BY DEF Inv, TypeOK, Advance
<1>2. \A s \in Peer : \A q \in attempts[s] : q.time \in Nat
  BY DEF Inv, TypeOK, Attempt
<1>3. TypeOK' /\ History'
  BY <1>1, <1>2 DEF Inv, TypeOK, History
<1>4. Remembered'
  BY <1>1, <1>2, LimitAssumption DEF Inv, Remembered
<1>5. RateAtAnyTime' /\ BlockedForCause' /\ SuppressedForCause'
  BY <1>1, SMTT(30) DEF Inv, RateAtAnyTime, BlockedForCause, SuppressedForCause, Passed,
              Excess, Tried, Window
<1> QED
  BY <1>3, <1>4, <1>5 DEF Inv

LEMMA BlockedStep ==
    ASSUME Inv, NEW s \in Peer, NEW r \in Peer, SendBlocked(s, r)
    PROVE  Inv'
<1>1. UNCHANGED <<now, send_times, blocked_until>> /\ Record(s, r, FALSE)
  BY DEF SendBlocked
<1>2. PICK new \in Attempt :
          /\ new = [time |-> now, id |-> Cardinality(attempts[s]), to |-> r,
                    passed |-> FALSE]
          /\ attempts' = [attempts EXCEPT ![s] = attempts[s] \cup {new}]
          /\ IsFiniteSet(attempts'[s])
          /\ \A q \in attempts'[s] : q.time <= now' /\ q.id < Cardinality(attempts'[s])
          /\ \A q, u \in attempts'[s] : q.id = u.id => q = u
  BY <1>1, RecordAdds DEF Inv
<1>3. \A x \in Peer : /\ attempts[x] \subseteq Attempt
                      /\ attempts'[x] = IF x = s THEN attempts[s] \cup {new}
                                                 ELSE attempts[x]
  BY <1>2 DEF Inv, TypeOK
<1>4. ~new.passed /\ new.time = now /\ new.to = r
  BY <1>2
<1>5. TypeOK'
  BY <1>1, <1>2 DEF Inv, TypeOK
<1>6. History'
  BY <1>1, <1>2, <1>3 DEF Inv, History
<1>7. Remembered'
  BY <1>1, <1>3, <1>4 DEF Inv, Remembered
<1>8. RateAtAnyTime'
  <2>1. \A x \in Peer, time \in Nat :
           Passed(attempts'[x], time) = Passed(attempts[x], time)
    BY <1>3, <1>4 DEF Passed
  <2> QED
    BY <2>1 DEF Inv, RateAtAnyTime, Passed, Window
<1>9. \A x \in Peer : \A u \in attempts[x] :
         Excess(attempts[x], u) => Excess(attempts'[x], u)
  BY <1>3, <1>6, ExcessGrows DEF History
<1>10. BlockedForCause'
  <2> SUFFICES ASSUME NEW k \in Peer, NEW x \in Peer, blocked_until'[<<k, x>>] # 0
               PROVE  \E u \in attempts'[x] :
                         /\ u.to = k /\ Excess(attempts'[x], u)
                         /\ blocked_until'[<<k, x>>] = u.time + block_duration
    BY DEF BlockedForCause, Excess, Tried, Window
  <2>1. PICK u \in attempts[x] :
           /\ u.to = k /\ Excess(attempts[x], u)
           /\ blocked_until[<<k, x>>] = u.time + block_duration
    BY <1>1 DEF Inv, BlockedForCause
  <2> QED
    BY <1>1, <1>3, <1>9, <2>1
<1>11. SuppressedForCause'
  <2> DEFINE Cause(A, a) == \E u \in A :
                /\ u.to = a.to
                /\ u = a \/ a.time \in u.time .. u.time + block_duration - 1
                /\ Excess(A, u)
  <2>1. SUFFICES ASSUME NEW x \in Peer, NEW a \in attempts'[x], ~a.passed
                 PROVE  Cause(attempts'[x], a)
    BY DEF SuppressedForCause, Excess, Tried, Window
  <2>2. CASE a \in attempts[x]
    <3>1. Cause(attempts[x], a)
      BY <2>1, <2>2 DEF Inv, SuppressedForCause, Excess, Tried, Window
    <3> QED
      BY <3>1, <1>3, <1>9
  <2>3. CASE x = s /\ a = new
    <3>1. blocked_until[<<r, s>>] \in Nat /\ now < blocked_until[<<r, s>>] /\ now \in Nat
      BY DEF SendBlocked, is_blocked, Inv, TypeOK
    <3>2. PICK u \in attempts[s] :
             /\ u.to = r /\ Excess(attempts[s], u)
             /\ blocked_until[<<r, s>>] = u.time + block_duration
      BY <3>1 DEF Inv, BlockedForCause
    <3>3. u.time \in Nat /\ u.time <= now
      BY <1>3 DEF Attempt, Inv, History
    <3>4. a.time \in u.time .. u.time + block_duration - 1
      BY <1>4, <2>3, <3>1, <3>2, <3>3, LimitAssumption
    <3> QED
      BY <1>3, <1>4, <1>9, <2>3, <3>2, <3>4
  <2> QED
    BY <1>3, <2>2, <2>3
<1> QED
  BY <1>5, <1>6, <1>7, <1>8, <1>10, <1>11 DEF Inv

LEMMA CountedStep ==
    ASSUME Inv, NEW s \in Peer, NEW r \in Peer, SendCounted(s, r)
    PROVE  Inv'
<1> DEFINE stamp  == [time |-> now, id |-> Cardinality(attempts[s])]
           times  == recent(s) \cup {stamp}
           excess == Cardinality(times) > rate_limit
<1>1. /\ send_times' = [send_times EXCEPT ![s] = times]
      /\ blocked_until' = [blocked_until EXCEPT ![<<r, s>>] = block_expiry(excess)]
      /\ Record(s, r, ~excess)
      /\ now' = now
  BY DEF SendCounted
<1>2. PICK new \in Attempt :
          /\ new = [time |-> now, id |-> Cardinality(attempts[s]), to |-> r,
                    passed |-> ~excess]
          /\ new \notin attempts[s]
          /\ attempts' = [attempts EXCEPT ![s] = attempts[s] \cup {new}]
          /\ IsFiniteSet(attempts'[s])
          /\ \A q \in attempts'[s] : q.time <= now' /\ q.id < Cardinality(attempts'[s])
          /\ \A q, u \in attempts'[s] : q.id = u.id => q = u
  BY <1>1, RecordAdds DEF Inv
<1>3. \A x \in Peer : /\ attempts[x] \subseteq Attempt
                      /\ attempts'[x] = IF x = s THEN attempts[s] \cup {new}
                                                 ELSE attempts[x]
                      /\ send_times'[x] = IF x = s THEN times ELSE send_times[x]
  BY <1>1, <1>2 DEF Inv, TypeOK
<1>4. /\ new.passed = ~excess /\ new.time = now /\ new.to = r
      /\ StampOf(new) = stamp /\ stamp \in Stamp /\ now \in Nat
  BY <1>2 DEF StampOf, Attempt, Stamp, Inv, TypeOK
<1>5. /\ IsFiniteSet(times) /\ Cardinality(times) \in Nat
      /\ times \subseteq send_times[s] \cup {stamp}
  <2>1. IsFiniteSet(send_times[s]) /\ recent(s) \in SUBSET send_times[s]
    BY DEF Inv, History, recent
  <2> QED
    BY <2>1, FS_Subset, FS_AddElement, FS_CardinalityType
<1> HIDE DEF stamp, times, excess
<1>6. TypeOK'
  <2>1. block_expiry(excess) \in Nat
    BY <1>4, LimitAssumption DEF block_expiry
  <2>2. times \subseteq Stamp
    BY <1>4, <1>5 DEF Inv, TypeOK
  <2> QED
    BY <1>1, <1>2, <2>1, <2>2 DEF Inv, TypeOK
<1>7. History'
  BY <1>1, <1>2, <1>3, <1>5, ZenonT(60) DEF Inv, History
<1>8. Remembered'
  <2>1. \A q \in attempts'[s] :
           q.passed /\ q.time >= now - rate_window => StampOf(q) \in times
    <3>1. \A q \in attempts[s] :
             q.passed /\ q.time >= now - rate_window => StampOf(q) \in recent(s)
      BY DEF Inv, Remembered, recent, StampOf
    <3> QED
      BY <1>3, <1>4, <3>1 DEF times
  <2>2. \A t \in times : \E q \in attempts'[s] : StampOf(q) = t
    BY <1>3, <1>4, <1>5 DEF Inv, Remembered
  <2> QED
    BY <1>1, <1>3, <2>1, <2>2 DEF Inv, Remembered
<1>9. RateAtAnyTime'
  <2> SUFFICES ASSUME NEW x \in Peer, NEW time \in Nat
               PROVE  Cardinality(Passed(attempts'[x], time)) <= rate_limit
    BY DEF RateAtAnyTime, Passed, Window
  <2>1. CASE Passed(attempts'[x], time) = Passed(attempts[x], time)
    BY <2>1 DEF Inv, RateAtAnyTime
  <2>2. CASE x = s /\ ~excess /\ now \in Window(time)
    <3> DEFINE A == Passed(attempts'[s], time)
    <3>1. A \in SUBSET attempts'[s] /\ IsFiniteSet(A)
      BY <1>2, FS_Subset DEF Passed
    <3>2. \A q \in A : StampOf(q) \in times
      <4> SUFFICES ASSUME NEW q \in A PROVE StampOf(q) \in times
        OBVIOUS
      <4>1. /\ q \in attempts'[s] /\ q.passed /\ q.time \in Window(time)
            /\ q.time \in Nat /\ q.time <= now
        BY <1>1, <1>2, <1>3 DEF Passed, Attempt
      <4>2. CASE q = new
        BY <1>4, <4>2 DEF times
      <4>3. CASE q \in attempts[s]
        BY <4>1, <4>3, <2>2, <1>4, LimitAssumption
           DEF Inv, Remembered, recent, times, StampOf, Window
      <4> QED
        BY <1>3, <4>1, <4>2, <4>3
    <3>3. \A q, u \in A : q.id = u.id => q = u
      BY <1>2, <3>1
    <3>4. Cardinality(A) <= Cardinality(times) /\ Cardinality(A) \in Nat
      BY <1>5, <3>1, <3>2, <3>3, StampsCount, FS_CardinalityType
    <3> QED
      BY <2>2, <3>4, <1>5, LimitAssumption DEF excess
  <2>3. CASE x # s \/ excess \/ now \notin Window(time)
    BY <1>3, <1>4, <2>1, <2>3 DEF Passed
  <2> QED
    BY <2>2, <2>3
<1>10. excess => Excess(attempts'[s], new)
  <2> SUFFICES ASSUME excess PROVE Excess(attempts'[s], new)
    OBVIOUS
  <2> DEFINE A == Tried(attempts'[s], new.time)
  <2>1. A \in SUBSET attempts'[s] /\ IsFiniteSet(A)
    BY <1>2, FS_Subset DEF Tried
  <2>2. \A t \in times : \E q \in A : StampOf(q) = t
    <3> SUFFICES ASSUME NEW t \in times PROVE \E q \in A : StampOf(q) = t
      OBVIOUS
    <3>1. CASE t = stamp
      BY <1>3, <1>4, <3>1, LimitAssumption DEF Tried, Window
    <3>2. CASE t \in recent(s)
      <4>1. PICK q \in attempts[s] : StampOf(q) = t
        BY <3>2 DEF Inv, Remembered, recent
      <4>2. q.time = t.time /\ q.time \in Nat /\ q.time <= now
        BY <1>3, <4>1 DEF StampOf, Attempt, Inv, History
      <4>3. t.time >= now - rate_window
        BY <3>2 DEF recent
      <4> QED
        BY <1>3, <1>4, <4>1, <4>2, <4>3, LimitAssumption DEF Tried, Window
    <3> QED
      BY <3>1, <3>2 DEF times
  <2>3. \A q, u \in A : q.id = u.id => q = u
    BY <1>2, <2>1
  <2>4. Cardinality(times) <= Cardinality(A) /\ Cardinality(A) \in Nat
    BY <1>5, <2>1, <2>2, <2>3, StampsCount, FS_CardinalityType
  <2> QED
    BY <2>4, <1>5, LimitAssumption DEF excess, Excess
<1>11. \A x \in Peer : \A u \in attempts[x] :
         Excess(attempts[x], u) => Excess(attempts'[x], u)
  BY <1>3, <1>7, ExcessGrows DEF History
<1>12. BlockedForCause'
  <2> SUFFICES ASSUME NEW k \in Peer, NEW x \in Peer, blocked_until'[<<k, x>>] # 0
               PROVE  \E u \in attempts'[x] :
                         /\ u.to = k /\ Excess(attempts'[x], u)
                         /\ blocked_until'[<<k, x>>] = u.time + block_duration
    BY DEF BlockedForCause, Excess, Tried, Window
  <2>1. CASE k = r /\ x = s
    <3>1. blocked_until'[<<r, s>>] = block_expiry(excess)
      BY <1>1 DEF Inv, TypeOK
    <3>2. excess /\ blocked_until'[<<r, s>>] = now + block_duration
      BY <2>1, <3>1 DEF block_expiry
    <3> QED
      BY <1>3, <1>4, <1>10, <2>1, <3>2
  <2>2. CASE ~(k = r /\ x = s)
    <3>1. blocked_until'[<<k, x>>] = blocked_until[<<k, x>>]
      BY <1>1, <2>2 DEF Inv, TypeOK
    <3>2. PICK u \in attempts[x] :
             /\ u.to = k /\ Excess(attempts[x], u)
             /\ blocked_until[<<k, x>>] = u.time + block_duration
      BY <3>1 DEF Inv, BlockedForCause
    <3> QED
      BY <1>3, <1>11, <3>1, <3>2
  <2> QED
    BY <2>1, <2>2
<1>13. SuppressedForCause'
  <2> DEFINE Cause(A, a) == \E u \in A :
                /\ u.to = a.to
                /\ u = a \/ a.time \in u.time .. u.time + block_duration - 1
                /\ Excess(A, u)
  <2>1. SUFFICES ASSUME NEW x \in Peer, NEW a \in attempts'[x], ~a.passed
                 PROVE  Cause(attempts'[x], a)
    BY DEF SuppressedForCause, Excess, Tried, Window
  <2>2. CASE a \in attempts[x]
    <3>1. Cause(attempts[x], a)
      BY <2>1, <2>2 DEF Inv, SuppressedForCause, Excess, Tried, Window
    <3> QED
      BY <3>1, <1>3, <1>11
  <2>3. CASE x = s /\ a = new
    BY <1>4, <1>10, <2>1, <2>3
  <2> QED
    BY <1>3, <2>2, <2>3
<1> QED
  BY <1>6, <1>7, <1>8, <1>9, <1>12, <1>13 DEF Inv

LEMMA InvStep == Inv /\ [Next]_vars => Inv'
<1>1. ASSUME Inv, UNCHANGED vars
      PROVE  Inv'
  <2>1. TypeOK' /\ History' /\ Remembered'
    BY <1>1 DEF Inv, vars, TypeOK, History, Remembered
  <2>2. RateAtAnyTime' /\ BlockedForCause'
    BY <1>1 DEF Inv, vars, RateAtAnyTime, BlockedForCause, Passed, Excess, Tried,
                Window
  <2>3. SuppressedForCause'
    BY <1>1 DEF Inv, vars, SuppressedForCause, Window
  <2> QED
    BY <2>1, <2>2, <2>3 DEF Inv
<1> QED
  BY <1>1, AdvanceStep, BlockedStep, CountedStep DEF Next

LEMMA InvImpliesRate == Inv => RateRespected
<1> SUFFICES ASSUME Inv, NEW s \in Peer, NEW p \in attempts[s]
             PROVE  Cardinality(Passed(attempts[s], p.time)) <= rate_limit
  BY DEF RateRespected, Passed
<1>1. p.time \in Nat
  BY DEF Inv, TypeOK, Attempt
<1> QED
  BY <1>1 DEF Inv, RateAtAnyTime

\* The limiter's variables stay times and messages.
THEOREM RateTypeOK == Spec => []TypeOK
BY InitInv, InvStep, PTL DEF Spec, Inv

\* A sender never gets more than rate_limit messages through in a window.
THEOREM RateIsRespected == Spec => []RateRespected
BY InitInv, InvStep, InvImpliesRate, PTL DEF Spec

\* Every suppressed message has an excess of its own sender behind it.
THEOREM RateSuppressedForCause == Spec => []SuppressedForCause
BY InitInv, InvStep, PTL DEF Spec, Inv
=============================================================================
