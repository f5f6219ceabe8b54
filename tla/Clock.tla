------------------------------- MODULE Clock -------------------------------
(***************************************************************************)
(* What a Clock (src/src/xstate/scheduler.py) promises: the callback of a   *)
(* timer is called once, not before its time, earliest first, and not at   *)
(* all when the timer was cleared before.                                  *)
(***************************************************************************)
EXTENDS Naturals, Sequences

CONSTANTS
    MaxTimers,  \* bound: timers ever set
    MaxTime     \* bound: the last instant

VARIABLES
    now,      \* the time
    due,      \* timer -> when it is due; timers are 1..Len(due)
    pending,  \* timers set, not called and not cleared
    called    \* timers whose callback was called, in order

vars == <<now, due, pending, called>>

Init == now = 0 /\ due = <<>> /\ pending = {} /\ called = <<>>

\* t is due before u; timers due together keep the order they were set in.
Before(t, u) == due[t] < due[u] \/ (due[t] = due[u] /\ t <= u)

SetTimeout ==
    /\ Len(due) < MaxTimers
    /\ \E d \in 0..MaxTime : due' = Append(due, d)
    /\ pending' = pending \cup {Len(due) + 1}
    /\ UNCHANGED <<now, called>>

ClearTimeout ==
    /\ \E t \in 1..MaxTimers : pending' = pending \ {t}
    /\ UNCHANGED <<now, due, called>>

Call ==
    /\ \E t \in pending :
          /\ due[t] <= now /\ \A u \in pending : Before(t, u)
          /\ pending' = pending \ {t}
          /\ called' = Append(called, t)
    /\ UNCHANGED <<now, due>>

Tick ==
    /\ now < MaxTime
    /\ now' = now + 1
    /\ UNCHANGED <<due, pending, called>>

Next == SetTimeout \/ ClearTimeout \/ Call \/ Tick

Spec == Init /\ [][Next]_vars
=============================================================================
