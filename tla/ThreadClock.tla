---------------------------- MODULE ThreadClock ----------------------------
(***************************************************************************)
(* ThreadClock of src/src/xstate/scheduler.py: one worker thread, started  *)
(* by the first timer and gone after the last, that sleeps until the head  *)
(* of a heap is due.  Cleared timers stay in the heap until they reach its *)
(* head.  Every block under the condition is one action; set_timeout and   *)
(* clear_timeout are called by any thread, the worker's callbacks included. *)
(***************************************************************************)
EXTENDS Naturals, Sequences, FiniteSets

CONSTANTS
    MaxTimers,  \* bound: timers ever set
    MaxTime     \* bound: the last instant

ASSUME ClockAssumption == MaxTimers \in Nat /\ MaxTime \in Nat

VARIABLES
    now,      \* time.monotonic()
    due,      \* timer -> when it is due; timers are 1..Len(due)
    pending,  \* the keys of _timers
    heap,     \* the timers of _heap
    worker,   \* none, scan, wait, call
    wake,     \* when the wait of the worker times out
    called    \* history: timers whose callback was called, in order

vars == <<now, due, pending, heap, worker, wake, called>>

Init ==
    /\ now = 0
    /\ due = <<>> /\ pending = {} /\ heap = {}
    /\ worker = "none" /\ wake = 0
    /\ called = <<>>

\* The order of the heap.
Before(t, u) == due[t] < due[u] \/ (due[t] = due[u] /\ t <= u)

\* self._condition.notify()
Notified == IF worker = "wait" THEN "scan" ELSE worker

-----------------------------------------------------------------------------
\* Mutant of SetTimeout: a worker that is asleep is not told.
SetUnnoticed ==
    /\ Len(due) < MaxTimers
    /\ \E d \in 0..MaxTime : due' = Append(due, d)
    /\ pending' = pending \cup {Len(due) + 1}
    /\ heap' = heap \cup {Len(due) + 1}
    /\ worker' = IF worker = "none" THEN "scan" ELSE worker
    /\ UNCHANGED <<now, wake, called>>

\* set_timeout.  The due time was computed before the lock was taken: it may
\* be over already.
SetTimeout ==
    /\ Len(due) < MaxTimers
    /\ \E d \in 0..MaxTime : due' = Append(due, d)
    /\ pending' = pending \cup {Len(due) + 1}
    /\ heap' = heap \cup {Len(due) + 1}
    /\ worker' = IF worker = "none" THEN "scan" ELSE Notified
    /\ UNCHANGED <<now, wake, called>>

\* clear_timeout, of any timer, pending or not.
ClearTimeout ==
    /\ \E t \in 1..Len(due) : pending' = pending \ {t}
    /\ worker' = Notified
    /\ UNCHANGED <<now, due, heap, wake, called>>

-----------------------------------------------------------------------------
(* _run *)

\* t is at the head of the heap once the cleared timers above it are popped.
AtHead(t) == t \in heap \cap pending /\ \A u \in heap \cap pending : Before(t, u)
Popped(t) == {u \in heap \ pending : Before(u, t)}

\* The head is not due: sleep until it is.
Sleep ==
    /\ worker = "scan"
    /\ \E t \in heap : AtHead(t) /\ due[t] > now
                       /\ heap' = heap \ Popped(t) /\ wake' = due[t]
    /\ worker' = "wait"
    /\ UNCHANGED <<now, due, pending, called>>

\* The wait times out.
Wake ==
    /\ worker = "wait" /\ now >= wake
    /\ worker' = "scan"
    /\ UNCHANGED <<now, due, pending, heap, wake, called>>

\* Mutant of Call: looks at the timer set first, not at the earliest.
CallOldest ==
    /\ worker = "scan"
    /\ \E t \in heap \cap pending :
          /\ \A u \in heap \cap pending : t <= u
          /\ due[t] <= now
          /\ heap' = heap \ {t}
          /\ pending' = pending \ {t}
          /\ called' = Append(called, t)
    /\ worker' = "call"
    /\ UNCHANGED <<now, due, wake>>

\* The head is due: take it and call its callback.
Call ==
    /\ worker = "scan"
    /\ \E t \in heap : /\ AtHead(t) /\ due[t] <= now
                       /\ heap' = heap \ (Popped(t) \cup {t})
                       /\ pending' = pending \ {t}
                       /\ called' = Append(called, t)
    /\ worker' = "call"
    /\ UNCHANGED <<now, due, wake>>

\* The callback returns or raises, which is printed.
Returned ==
    /\ worker = "call"
    /\ worker' = "scan"
    /\ UNCHANGED <<now, due, pending, heap, wake, called>>

\* Mutant of Exit: the field _worker keeps the thread that is gone.
ExitKeepsWorker ==
    /\ worker = "scan" /\ heap \cap pending = {}
    /\ heap' = {}
    /\ worker' = "gone"
    /\ UNCHANGED <<now, due, pending, wake, called>>

\* Only cleared timers are left: the worker clears its field and returns.
Exit ==
    /\ worker = "scan" /\ heap \cap pending = {}
    /\ heap' = {}
    /\ worker' = "none"
    /\ UNCHANGED <<now, due, pending, wake, called>>

Tick ==
    /\ now < MaxTime
    /\ now' = now + 1
    /\ UNCHANGED <<due, pending, heap, worker, wake, called>>

-----------------------------------------------------------------------------
Run == Sleep \/ Wake \/ Call \/ Returned \/ Exit

Next == SetTimeout \/ ClearTimeout \/ Run \/ Tick

Spec == Init /\ [][Next]_vars

\* Time passes, the worker is scheduled and callbacks return.
FairSpec == Spec /\ WF_vars(Run) /\ WF_vars(Tick)

-----------------------------------------------------------------------------
(* Properties *)

TypeOK ==
    /\ now \in 0..MaxTime
    /\ due \in Seq(0..MaxTime) /\ Len(due) <= MaxTimers
    /\ pending \subseteq 1..Len(due) /\ heap \subseteq 1..Len(due)
    /\ worker \in {"none", "scan", "wait", "call"}
    /\ wake \in 0..MaxTime
    /\ called \in Seq(1..Len(due))

\* No timer is forgotten: one that is pending is in the heap, has a worker,
\* and the worker does not sleep past it, whatever was set or cleared while
\* the worker was falling asleep, waking, calling or about to leave.
NoTimerForgotten ==
    /\ pending \subseteq heap
    /\ pending # {} => worker # "none"
    /\ worker = "wait" => \A t \in pending : wake <= due[t]

\* runtimes.md, 63: every timer is called or cleared in the end, and the worker
\* exits after the last one fires or is cancelled.
TimersSettle ==
    /\ \A t \in 1..MaxTimers : t \in pending ~> t \notin pending
    /\ pending = {} ~> worker = "none" \/ pending # {}

\* The heap, the sleeping and the restarting of the worker are not visible:
\* callbacks are called once, in time and in order.
Abstract == INSTANCE Clock
ImplementsClock == Abstract!Spec
=============================================================================
