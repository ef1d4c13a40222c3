---------------------------- MODULE RateLimiter ----------------------------
(***************************************************************************)
(* The sliding-window limiter, src/RateLimiter.cpp, as the threads of one  *)
(* process use it (src/mainbfs.cpp: 20 per second shared by all threads;   *)
(* src/worker_v3.cpp: 1 per second, one thread).                           *)
(*                                                                         *)
(* acquire() reads the clock, then waits for the mutex, and only then looks *)
(* at the deque: time may pass, and other threads may be granted, between  *)
(* the two.  A refused call sleeps outside the mutex and starts over.      *)
(***************************************************************************)
EXTENDS Integers, Sequences

CONSTANTS
    Threads,    \* the callers
    MaxReq,     \* _max_req
    Window,     \* _window, in ticks
    MaxDelay,   \* bound: ticks a thread may be held up before its next step
    MaxTime,    \* bound on the clock
    MaxCalls,   \* bound on the calls of acquire
    LastCall    \* bound: no call starts later than this

ASSUME LimitAssumption == MaxReq \in Nat \ {0} /\ Window \in Nat \ {0}
ASSUME BoundsAssumption ==
    MaxDelay \in Nat /\ MaxTime \in Nat /\ MaxCalls \in Nat /\ LastCall \in Nat

VARIABLES
    clock,          \* steady_clock
    stamps,         \* every time stamp pushed on the deque so far, in order
    popped,         \* how many of them have been popped: _timestamps is the rest
    pc,             \* "idle", "stamped" (has read the clock, wants the mutex), "sleeping"
    now,            \* the time the thread read (0 when it holds none)
    wake,           \* when its sleep ends (0 when it does not sleep)
    calls,          \* history: calls of acquire so far
    grantedAt,      \* history: when the call that pushed stamps[i] was granted
    seen            \* history: how many grants there were when the thread fell asleep

vars == <<clock, stamps, popped, pc, now, wake, calls, grantedAt, seen>>

NotYet == -1        \* seen[t] while the call of t has not been refused

Init ==
    /\ clock = 0
    /\ stamps = <<>>
    /\ popped = 0
    /\ pc = [t \in Threads |-> "idle"]
    /\ now = [t \in Threads |-> 0]
    /\ wake = [t \in Threads |-> 0]
    /\ calls = 0
    /\ grantedAt = <<>>
    /\ seen = [t \in Threads |-> NotYet]

\* Time passes, but no thread that could take its step is held up for longer
\* than MaxDelay.
Tick ==
    /\ clock < MaxTime
    /\ \A t \in Threads :
          /\ pc[t] = "stamped" => clock - now[t] < MaxDelay
          /\ pc[t] = "sleeping" => clock - wake[t] < MaxDelay
    /\ clock' = clock + 1
    /\ UNCHANGED <<stamps, popped, pc, now, wake, calls, grantedAt, seen>>

ReadClock(t) ==
    /\ pc' = [pc EXCEPT ![t] = "stamped"]
    /\ now' = [now EXCEPT ![t] = clock]
    /\ wake' = [wake EXCEPT ![t] = 0]

\* A thread calls acquire(): it reads the clock before it asks for the mutex.
Call(t) ==
    /\ pc[t] = "idle"
    /\ calls < MaxCalls /\ clock <= LastCall
    /\ calls' = calls + 1
    /\ ReadClock(t)
    /\ UNCHANGED <<clock, stamps, popped, grantedAt, seen>>

\* The sleep is over and acquire() starts again.
Retry(t) ==
    /\ pc[t] = "sleeping"
    /\ clock >= wake[t]
    /\ ReadClock(t)
    /\ UNCHANGED <<clock, stamps, popped, calls, grantedAt, seen>>

\* The pops stop after the k-th stamp: those up to it have expired at n, and the
\* next one has not.
ExpiredEarly(k, n) ==
    /\ \A i \in (popped + 1)..k : n - stamps[i] >= Window - 1
    /\ k < Len(stamps) => n - stamps[k + 1] < Window - 1
ExpiredNone(k, n) == k = popped
Expired(k, n) ==
    /\ \A i \in (popped + 1)..k : n - stamps[i] >= Window
    /\ k < Len(stamps) => n - stamps[k + 1] < Window

\* How long a refused call sleeps: until the front entry expires.
ElapsedTime(n, front) == n - front
WaitDoubled(n, front) == Window + Window - (n - front)
WaitFor(n, front) == Window - (n - front)

\* The deque, once it starts after the k-th stamp, has room for one more.
HasTokenPlusOne(k) == Len(stamps) - k <= MaxReq
HasToken(k) == Len(stamps) - k < MaxReq

Grant(t, k) ==
    /\ HasToken(k)
    /\ stamps' = Append(stamps, now[t])
    /\ grantedAt' = Append(grantedAt, clock)
    /\ pc' = [pc EXCEPT ![t] = "idle"]
    /\ seen' = [seen EXCEPT ![t] = NotYet]
    /\ UNCHANGED wake

Refuse(t, k) ==
    /\ ~HasToken(k)
    /\ wake' = [wake EXCEPT ![t] = clock + WaitFor(now[t], stamps[k + 1])]
    /\ pc' = [pc EXCEPT ![t] = "sleeping"]
    /\ seen' = [seen EXCEPT ![t] = Len(stamps)]
    /\ UNCHANGED <<stamps, grantedAt>>

\* The critical section: pop what has expired, then take a token or go to sleep.
Enter(t) ==
    /\ pc[t] = "stamped"
    /\ \E k \in popped..Len(stamps) :
          /\ Expired(k, now[t])
          /\ popped' = k
          /\ Grant(t, k) \/ Refuse(t, k)
    /\ now' = [now EXCEPT ![t] = 0]
    /\ UNCHANGED <<clock, calls>>

Next == Tick \/ \E t \in Threads : Call(t) \/ Enter(t) \/ Retry(t)

Spec == Init /\ [][Next]_vars

\* Time goes on and a thread that can step does; nobody has to call acquire.
FairSpec ==
    /\ Spec
    /\ WF_vars(Tick)
    /\ \A t \in Threads : WF_vars(Enter(t)) /\ WF_vars(Retry(t))

-----------------------------------------------------------------------------
(***************************************************************************)
(* Properties.                                                             *)
(***************************************************************************)

\* Types, and never more than MaxReq time stamps in the deque.
TypeOK ==
    /\ clock \in 0..MaxTime
    /\ stamps \in Seq(Nat)
    /\ popped \in 0..Len(stamps) /\ Len(stamps) - popped <= MaxReq
    /\ pc \in [Threads -> {"idle", "stamped", "sleeping"}]
    /\ now \in [Threads -> Nat]
    /\ wake \in [Threads -> Nat]
    /\ calls \in 0..MaxCalls
    /\ grantedAt \in Seq(Nat) /\ Len(grantedAt) = Len(stamps)
    /\ seen \in [Threads -> Nat \cup {NotYet}]

\* What the limiter does ensure however the threads interleave: a call is granted
\* no earlier than a window after the time READ by the call MaxReq grants before
\* it (RateLimiter.cpp:8-27).  Since that time was read at most MaxDelay before
\* its own grant, any MaxReq + 1 grants span at least Window - MaxDelay.
GrantsSpaced ==
    \A i, j \in 1..Len(stamps) : j = i + MaxReq => grantedAt[j] >= stamps[i] + Window

\* A thread never sleeps longer than a window plus the time by which its reading
\* of the clock may lag behind another thread's.
SleepBounded ==
    \A t \in Threads : pc[t] = "sleeping" => wake[t] - clock <= Window + MaxDelay

\* Refusals are never for nothing: a call that slept and is refused again has
\* been overtaken by another grant, so with finitely many calls none starves
\* (RateLimiter.cpp:18-24).
RefusedOnlyIfOvertaken ==
    [][\A t \in Threads :
          pc[t] = "stamped" /\ pc'[t] = "sleeping" /\ seen[t] # NotYet
             => Len(stamps) > seen[t]]_vars

\* Every call is granted in the end, once no more calls come in.
EveryCallGranted == \A t \in Threads : pc[t] # "idle" ~> pc[t] = "idle"

\* RateLimiter.h:7 "within time_window at most max_req calls of acquire()": any
\* MaxReq + 1 grants would span a window.  The stale reading of the clock breaks
\* it.
WindowRespected ==
    \A i, j \in 1..Len(stamps) : j = i + MaxReq => grantedAt[j] >= grantedAt[i] + Window
=============================================================================
