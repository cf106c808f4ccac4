---------------------------- MODULE RateLimiter ----------------------------
(***************************************************************************)
(* The outbound rate limit of src/src/network/simulator.py                 *)
(* (Network._rate_limit_blocks), which send() consults before a message    *)
(* enters the network.  A sender is counted over all its receivers; when   *)
(* it exceeds rate_limit within rate_window, the receiver of the excess    *)
(* message blocks it for block_duration.  What is suppressed is never sent *)
(* again, so a limit that suppresses too much costs votes.                 *)
(***************************************************************************)
EXTENDS Integers, FiniteSets

CONSTANTS
    Peer,            \* the nodes
    rate_limit,      \* messages a sender may emit ...
    rate_window,     \* ... within this much virtual time
    block_duration,  \* how long a receiver blocks a sender that exceeds it
    MaxNow,          \* bound on the virtual time
    MaxSends         \* bound on the messages of all senders

\* rate_limit = 0 switches the mechanism off.
ASSUME LimitAssumption ==
    /\ rate_limit \in Nat \ {0}
    /\ rate_window \in Nat /\ block_duration \in Nat
    /\ MaxNow \in Nat /\ MaxSends \in Nat

VARIABLES
    now,             \* the time of the virtual clock
    send_times,      \* send_times[s]: the recent messages of s that counted
    blocked_until,   \* blocked_until[<<r, s>>]: 0 when r does not block s
    attempts         \* history: every message given to send(), with its fate

vars == <<now, send_times, blocked_until, attempts>>

\* A message by its sender's count; the list of times may repeat a time.
Stamp   == [time : Nat, id : Nat]
Attempt == [time : Nat, id : Nat, to : Peer, passed : BOOLEAN]

Init ==
    /\ now = 0
    /\ send_times = [s \in Peer |-> {}]
    /\ blocked_until = [pair \in Peer \X Peer |-> 0]
    /\ attempts = [s \in Peer |-> {}]

\* Mutant: the far end of the window is left out.
recent_exclusive(s) == {t \in send_times[s] : t.time > now - rate_window}

recent(s) == {t \in send_times[s] : t.time >= now - rate_window}

\* Mutant: the block lasts through its last instant.
is_blocked_at_expiry(r, s) ==
    blocked_until[<<r, s>>] # 0 /\ now <= blocked_until[<<r, s>>]

is_blocked(r, s) == now < blocked_until[<<r, s>>]

\* Mutant: the block is dated back, so that it never holds.
block_expiry_dated_back(excess) == IF excess THEN now - block_duration ELSE 0

block_expiry(excess) == IF excess THEN now + block_duration ELSE 0

WithinBound == Cardinality(UNION {{s} \X attempts[s] : s \in Peer}) < MaxSends

Record(s, r, passed) ==
    attempts' = [attempts EXCEPT ![s] = @ \cup
        {[time |-> now, id |-> Cardinality(@), to |-> r, passed |-> passed]}]

\* A message to a peer that blocks its sender is dropped, and not counted.
SendBlocked(s, r) ==
    /\ WithinBound
    /\ is_blocked(r, s)
    /\ Record(s, r, FALSE)
    /\ UNCHANGED <<now, send_times, blocked_until>>

\* Any other message counts, those dropped for exceeding the limit included.
SendCounted(s, r) ==
    LET times  == recent(s) \cup {[time |-> now, id |-> Cardinality(attempts[s])]}
        excess == Cardinality(times) > rate_limit
    IN  /\ WithinBound
        /\ ~is_blocked(r, s)
        /\ send_times' = [send_times EXCEPT ![s] = times]
        /\ blocked_until' = [blocked_until EXCEPT ![<<r, s>>] =
                               block_expiry(excess)]
        /\ Record(s, r, ~excess)
        /\ UNCHANGED now

\* The clock moves on to a later event.
Advance ==
    /\ now < MaxNow
    /\ now' = now + 1
    /\ UNCHANGED <<send_times, blocked_until, attempts>>

Next ==
    \/ \E s, r \in Peer : s # r /\ (SendBlocked(s, r) \/ SendCounted(s, r))
    \/ Advance

Spec == Init /\ [][Next]_vars

-----------------------------------------------------------------------------
TypeOK ==
    /\ now \in Nat
    /\ send_times \in [Peer -> SUBSET Stamp]
    /\ blocked_until \in [Peer \X Peer -> Nat]
    /\ attempts \in [Peer -> SUBSET Attempt]

Window(time) == time - rate_window .. time

\* A sender never gets more than rate_limit messages through in any span of
\* rate_window, ends included, whichever peers it sends them to and however
\* its blocks interleave (simulator.py:101-105).
RateRespected ==
    \A s \in Peer : \A p \in attempts[s] :
        Cardinality({q \in attempts[s] :
                       q.passed /\ q.time \in Window(p.time)}) <= rate_limit

\* A message is suppressed only for a cause: its sender tried to exceed the
\* limit, with this message or less than block_duration before it with one
\* to the same peer.  A sender within the limit loses nothing, and a block
\* ends.
SuppressedForCause ==
    \A s \in Peer : \A a \in attempts[s] :
        ~a.passed =>
            \E u \in attempts[s] :
                /\ u.to = a.to
                /\ u = a \/ a.time \in u.time .. u.time + block_duration - 1
                /\ Cardinality({q \in attempts[s] : q.time \in Window(u.time)})
                     > rate_limit
=============================================================================
