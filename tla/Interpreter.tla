---------------------------- MODULE Interpreter ----------------------------
(***************************************************************************)
(* The synchronous Interpreter of src/src/xstate/interpreter.py: one       *)
(* object, shared by the threads that call start, send, stop, subscribe    *)
(* and unsubscribe (a ThreadClock worker delivering a timeout is a thread   *)
(* that calls send).                                                        *)
(*                                                                         *)
(* Every `with self._lock` block is one step.  Between two blocks user     *)
(* code runs unlocked (guards and assigns inside machine.transition, the   *)
(* inspector, actions, listeners) and may itself call back into the        *)
(* interpreter: those are the program counters in Callback.                *)
(*                                                                         *)
(* An event is the number of its acceptance; a snapshot is the sequence of *)
(* the events folded into it, so machine.transition(s, e) is Append(s, e)  *)
(* and a lost, repeated or reordered event is visible in the snapshot.     *)
(***************************************************************************)
EXTENDS Naturals, Sequences, FiniteSets

CONSTANTS
    Thread,      \* threads that use the interpreter
    Listener,    \* callables passed to subscribe
    MaxSends,    \* bound: accepted calls of send
    MaxActions   \* bound: actions of one snapshot

ASSUME BoundsAssumption == MaxSends \in Nat /\ MaxActions \in Nat

VARIABLES
    \* fields of the object
    status, state, processing, queue, listeners,
    \* locals of each thread
    pc,       \* where the thread is
    ev,       \* the event popped by _drain_event_queue
    snap,     \* the snapshot _process read, then the one it executes
    todo,     \* actions of snap not yet run
    targets,  \* the tuple of listeners _notify has still to call
    sub,      \* the first call of a listener that subscribe owes, if any
    \* history
    accepted, \* number of accepted sends
    dropped,  \* accepted events discarded unprocessed
    best,     \* per listener, length of the newest snapshot it was given
    skipped   \* length (plus one) of the snapshot whose effects raised last

fields == <<status, state, processing, queue, listeners>>
locals == <<pc, ev, snap, todo, targets, sub>>
history == <<accepted, dropped, best, skipped>>
vars == <<fields, locals, history>>

Status == {"not_started", "running", "stopped"}
Running == status = "running"

Callback == {"transition", "inspect", "action", "listener"}
Effect == {"started", "inspect", "exec", "call", "action",
           "notify", "loop", "deliver", "listener"}
PC == {"idle", "drain", "popped", "transition", "fail"} \cup Effect

Restored == 0   \* start(initial_state): a snapshot that folds in event 0
Snapshot == Seq(0..MaxSends)
FirstCall == [listener : Listener, seen : Nat]

Values(s) == {s[i] : i \in DOMAIN s}

-----------------------------------------------------------------------------
Init ==
    /\ status = "not_started"
    /\ state = <<>>
    /\ processing = FALSE
    /\ queue = <<>>
    /\ listeners = {}
    /\ pc = [t \in Thread |-> "idle"]
    /\ ev = [t \in Thread |-> 0]
    /\ snap = [t \in Thread |-> <<>>]
    /\ todo = [t \in Thread |-> 0]
    /\ targets = [t \in Thread |-> {}]
    /\ sub = [t \in Thread |-> {}]
    /\ accepted = 0
    /\ dropped = {}
    /\ best = [l \in Listener |-> 0]
    /\ skipped = 0

Goto(t, label) == pc' = [pc EXCEPT ![t] = label]

\* Thread t runs user code: its own, or a callable the interpreter called.
MayCall(t) == pc[t] \in {"idle"} \cup Callback /\ sub[t] = {}

\* A listener is given a snapshot.
Hear(l, n) == best' = [best EXCEPT ![l] = IF n > @ THEN n ELSE @]

-----------------------------------------------------------------------------
(* start *)

\* Mutant of Start: the boundary is not claimed.
StartUnclaimed(t) ==
    /\ MayCall(t)
    /\ status = "not_started"
    /\ status' = "running"
    /\ \E s \in {state, <<Restored>>} :
          /\ state' = s
          /\ snap' = [snap EXCEPT ![t] = s]
    /\ Goto(t, "started")
    /\ UNCHANGED <<processing, queue, listeners, ev, todo, targets, sub, history>>

\* First lock block: claim the lifecycle and the processing boundary.
Start(t) ==
    /\ MayCall(t)
    /\ status = "not_started"
    /\ status' = "running"
    /\ processing' = TRUE
    /\ \E s \in {state, <<Restored>>} :
          /\ state' = s
          /\ snap' = [snap EXCEPT ![t] = s]
    /\ Goto(t, "started")
    /\ UNCHANGED <<queue, listeners, ev, todo, targets, sub, history>>

\* Second lock block: _sync_delays, which may raise (an unknown delay), but
\* is not called when stop() came in between.
StartSync(t) ==
    /\ pc[t] = "started"
    /\ \/ \E n \in 0..MaxActions :
             /\ todo' = [todo EXCEPT ![t] = n]
             /\ Goto(t, "inspect")
             /\ UNCHANGED skipped
       \/ /\ Running
          /\ Goto(t, "fail")
          /\ skipped' = Len(state) + 1
          /\ UNCHANGED todo
    /\ UNCHANGED <<fields, ev, snap, targets, sub, accepted, dropped, best>>

-----------------------------------------------------------------------------
(* send, stop, subscribe, unsubscribe: calls from user code *)

\* Mutant of Send: drains whether or not another thread is draining.
SendUnguarded(t) ==
    /\ MayCall(t)
    /\ Running
    /\ accepted < MaxSends
    /\ accepted' = accepted + 1
    /\ queue' = Append(queue, accepted + 1)
    /\ processing' = TRUE
    /\ IF pc[t] = "idle" THEN Goto(t, "drain") ELSE UNCHANGED pc
    /\ UNCHANGED <<status, state, listeners, ev, snap, todo, targets, sub,
                   dropped, best, skipped>>

\* A send that is accepted; one before start or after stop changes nothing.
Send(t) ==
    /\ MayCall(t)
    /\ Running
    /\ accepted < MaxSends
    /\ accepted' = accepted + 1
    /\ queue' = Append(queue, accepted + 1)
    /\ IF processing THEN UNCHANGED <<processing, pc>>
                     ELSE processing' = TRUE /\ Goto(t, "drain")
    /\ UNCHANGED <<status, state, listeners, ev, snap, todo, targets, sub,
                   dropped, best, skipped>>

\* Mutant of Stop: the queue is left for the drain to find.
StopKeepsQueue(t) ==
    /\ MayCall(t)
    /\ status' = "stopped"
    /\ listeners' = {}
    /\ UNCHANGED <<state, processing, queue, locals, history>>

Stop(t) ==
    /\ MayCall(t)
    /\ status' = "stopped"
    /\ listeners' = {}
    /\ queue' = <<>>
    /\ dropped' = dropped \cup Values(queue)
    /\ UNCHANGED <<state, processing, locals, accepted, best, skipped>>

\* Mutant of Subscribe: a macrostep under way is trusted to notify.
SubscribeQuiet(t, l) ==
    /\ MayCall(t)
    /\ listeners' = listeners \cup {l}
    /\ sub' = [sub EXCEPT ![t] =
                 IF Running /\ ~processing THEN {[listener |-> l, seen |-> Len(state) + 1]}
                                           ELSE {}]
    /\ UNCHANGED <<status, state, processing, queue, pc, ev, snap, todo,
                   targets, history>>

\* The lock block of subscribe: register and read the state ...
Subscribe(t, l) ==
    /\ MayCall(t)
    /\ listeners' = listeners \cup {l}
    /\ sub' = [sub EXCEPT ![t] =
                 IF Running THEN {[listener |-> l, seen |-> Len(state) + 1]}
                            ELSE {}]
    /\ UNCHANGED <<status, state, processing, queue, pc, ev, snap, todo,
                   targets, history>>

\* ... and the call of the listener, after the lock is released.
SubscribeCall(t) ==
    /\ \E c \in sub[t] : Hear(c.listener, c.seen)
    /\ sub' = [sub EXCEPT ![t] = {}]
    /\ UNCHANGED <<fields, pc, ev, snap, todo, targets, accepted, dropped, skipped>>

Unsubscribe(t, l) ==
    /\ MayCall(t)
    /\ l \in listeners
    /\ listeners' = listeners \ {l}
    /\ UNCHANGED <<status, state, processing, queue, locals, history>>

-----------------------------------------------------------------------------
(* _drain_event_queue and _process *)

\* The loop's lock block: release the boundary ...
DrainDone(t) ==
    /\ pc[t] = "drain"
    /\ ~Running \/ queue = <<>>
    /\ processing' = FALSE
    /\ Goto(t, "idle")
    /\ UNCHANGED <<status, state, queue, listeners, ev, snap, todo, targets, sub, history>>

\* Mutant of DrainPop: takes the newest event.
DrainPopNewest(t) ==
    /\ pc[t] = "drain"
    /\ Running /\ queue # <<>>
    /\ ev' = [ev EXCEPT ![t] = queue[Len(queue)]]
    /\ queue' = SubSeq(queue, 1, Len(queue) - 1)
    /\ Goto(t, "popped")
    /\ UNCHANGED <<status, state, processing, listeners, snap, todo, targets, sub, history>>

\* ... or take the next event.
DrainPop(t) ==
    /\ pc[t] = "drain"
    /\ Running /\ queue # <<>>
    /\ ev' = [ev EXCEPT ![t] = Head(queue)]
    /\ queue' = Tail(queue)
    /\ Goto(t, "popped")
    /\ UNCHANGED <<status, state, processing, listeners, snap, todo, targets, sub, history>>

\* A lock block of _process finds the interpreter stopped and returns.
ProcessStopped(t) ==
    /\ pc[t] \in {"popped", "transition"} /\ sub[t] = {}
    /\ ~Running
    /\ dropped' = dropped \cup {ev[t]}
    /\ Goto(t, "drain")
    /\ UNCHANGED <<fields, ev, snap, todo, targets, sub, accepted, best, skipped>>

\* First lock block of _process: read the base snapshot.
ProcessRead(t) ==
    /\ pc[t] = "popped"
    /\ Running
    /\ snap' = [snap EXCEPT ![t] = state]
    /\ Goto(t, "transition")
    /\ UNCHANGED <<fields, ev, todo, targets, sub, history>>

\* Mutant of Commit: does not check again that the interpreter is running.
CommitUnchecked(t) ==
    /\ pc[t] = "transition" /\ sub[t] = {}
    /\ state' = Append(snap[t], ev[t])
    /\ snap' = [snap EXCEPT ![t] = Append(snap[t], ev[t])]
    /\ Goto(t, "inspect")
    /\ UNCHANGED <<status, processing, queue, listeners, ev, todo, targets, sub, history>>

\* Second lock block of _process: install the next snapshot and reconcile
\* the timers, which may raise after the snapshot is installed.
Commit(t) ==
    /\ pc[t] = "transition" /\ sub[t] = {}
    /\ Running
    /\ LET next == Append(snap[t], ev[t]) IN
          /\ state' = next
          /\ snap' = [snap EXCEPT ![t] = next]
          /\ \/ \E n \in 0..MaxActions :
                   /\ todo' = [todo EXCEPT ![t] = n]
                   /\ Goto(t, "inspect")
                   /\ UNCHANGED skipped
             \/ /\ Goto(t, "fail")
                /\ skipped' = Len(next) + 1
                /\ UNCHANGED todo
    /\ UNCHANGED <<status, processing, queue, listeners, ev, targets, sub,
                   accepted, dropped, best>>

-----------------------------------------------------------------------------
(* _inspect_trace, _execute and _notify: the effects of snap[t] *)

\* The inspector (fail-open: what it raises is swallowed), an action or a
\* listener returns.
Return(t) ==
    /\ pc[t] \in {"inspect", "action", "listener"} /\ sub[t] = {}
    /\ Goto(t, IF pc[t] = "listener" THEN "loop" ELSE "exec")
    /\ UNCHANGED <<fields, ev, snap, todo, targets, sub, history>>

\* Mutant of ExecCheck: runs one action too many.
ExecCheckPastEnd(t) ==
    /\ pc[t] = "exec"
    /\ IF todo[t] >= 0 /\ Running
       THEN /\ todo' = [todo EXCEPT ![t] = @ - 1]
            /\ Goto(t, "call")
       ELSE /\ todo' = [todo EXCEPT ![t] = 0]
            /\ Goto(t, "notify")
    /\ UNCHANGED <<fields, ev, snap, targets, sub, history>>

\* Head of the loop of _execute: the status check of the next action.
ExecCheck(t) ==
    /\ pc[t] = "exec"
    /\ IF todo[t] > 0 /\ Running
       THEN /\ todo' = [todo EXCEPT ![t] = @ - 1]
            /\ Goto(t, "call")
       ELSE /\ todo' = [todo EXCEPT ![t] = 0]
            /\ Goto(t, "notify")
    /\ UNCHANGED <<fields, ev, snap, targets, sub, history>>

\* The action is called, outside the lock.
ActionBegin(t) ==
    /\ pc[t] = "call"
    /\ Goto(t, "action")
    /\ UNCHANGED <<fields, ev, snap, todo, targets, sub, history>>

\* _notify copies the listeners under the lock.
NotifyCopy(t) ==
    /\ pc[t] = "notify"
    /\ targets' = [targets EXCEPT ![t] = listeners]
    /\ Goto(t, "loop")
    /\ UNCHANGED <<fields, ev, snap, todo, sub, history>>

\* Head of the loop of _notify: the status check of the next listener.
NotifyCheck(t) ==
    /\ pc[t] = "loop"
    /\ IF targets[t] # {} /\ Running
       THEN Goto(t, "deliver") /\ UNCHANGED targets
       ELSE Goto(t, "drain") /\ targets' = [targets EXCEPT ![t] = {}]
    /\ UNCHANGED <<fields, ev, snap, todo, sub, history>>

\* The listener is called, outside the lock.
NotifyCall(t) ==
    /\ pc[t] = "deliver"
    /\ \E l \in targets[t] :
          /\ targets' = [targets EXCEPT ![t] = @ \ {l}]
          /\ Hear(l, Len(snap[t]) + 1)
    /\ Goto(t, "listener")
    /\ UNCHANGED <<fields, ev, snap, todo, sub, accepted, dropped, skipped>>

-----------------------------------------------------------------------------
(* Exceptions *)

\* A guard, an assign, an action or a listener raises.
Raise(t) ==
    /\ pc[t] \in {"transition", "action", "listener"} /\ sub[t] = {}
    /\ dropped' = IF pc[t] = "transition" THEN dropped \cup {ev[t]} ELSE dropped
    /\ todo' = [todo EXCEPT ![t] = 0]
    /\ targets' = [targets EXCEPT ![t] = {}]
    /\ skipped' = Len(state) + 1
    /\ Goto(t, "fail")
    /\ UNCHANGED <<fields, ev, snap, sub, accepted, best>>

\* Mutants of Fail: the queue is kept; the boundary is not released.
FailKeepsQueue(t) ==
    /\ pc[t] = "fail"
    /\ processing' = FALSE
    /\ Goto(t, "idle")
    /\ UNCHANGED <<status, state, queue, listeners, ev, snap, todo, targets, sub, history>>
FailHolds(t) ==
    /\ pc[t] = "fail"
    /\ queue' = <<>>
    /\ dropped' = dropped \cup Values(queue)
    /\ Goto(t, "idle")
    /\ UNCHANGED <<status, state, processing, listeners, ev, snap, todo, targets, sub,
                   accepted, best, skipped>>

\* The except clauses of start and _drain_event_queue: discard the queue,
\* release the boundary and propagate to the caller.
Fail(t) ==
    /\ pc[t] = "fail"
    /\ queue' = <<>>
    /\ processing' = FALSE
    /\ dropped' = dropped \cup Values(queue)
    /\ Goto(t, "idle")
    /\ UNCHANGED <<status, state, listeners, ev, snap, todo, targets, sub,
                   accepted, best, skipped>>

-----------------------------------------------------------------------------
\* What a thread does of itself once it is inside the interpreter.
Work(t) ==
    \/ StartSync(t) \/ SubscribeCall(t)
    \/ DrainDone(t) \/ DrainPop(t)
    \/ ProcessStopped(t) \/ ProcessRead(t) \/ Commit(t)
    \/ ExecCheck(t) \/ ActionBegin(t)
    \/ NotifyCopy(t) \/ NotifyCheck(t) \/ NotifyCall(t)
    \/ Return(t) \/ Raise(t) \/ Fail(t)

\* What user code may ask for.
Call(t) ==
    \/ Start(t) \/ Send(t) \/ Stop(t)
    \/ \E l \in Listener : Subscribe(t, l) \/ Unsubscribe(t, l)

Next == \E t \in Thread : Work(t) \/ Call(t)

Spec == Init /\ [][Next]_vars

\* A thread inside the interpreter keeps running, and the callables it runs
\* return or raise after finitely many calls (SubscribeCall alone is not
\* progress of the callable that made the call).
Progress(t) == Work(t) /\ ~SubscribeCall(t)
Fairness == \A t \in Thread : WF_vars(SubscribeCall(t)) /\ SF_vars(Progress(t))
FairSpec == Spec /\ Fairness

-----------------------------------------------------------------------------
(* Properties *)

TypeOK ==
    /\ status \in Status
    /\ state \in Snapshot
    /\ processing \in BOOLEAN
    /\ queue \in Seq(1..MaxSends)
    /\ listeners \subseteq Listener
    /\ pc \in [Thread -> PC]
    /\ ev \in [Thread -> 0..MaxSends]
    /\ snap \in [Thread -> Snapshot]
    /\ todo \in [Thread -> 0..MaxActions]
    /\ targets \in [Thread -> SUBSET Listener]
    /\ sub \in [Thread -> SUBSET FirstCall]
    /\ accepted \in 0..MaxSends
    /\ dropped \subseteq 0..MaxSends
    /\ best \in [Listener -> Nat]
    /\ skipped \in Nat

\* _processing is a lock without an owner: it is set exactly while one thread
\* is between claiming and releasing the boundary, and never two are,
\* whatever raises, stops or calls back in between.
SingleOwner ==
    /\ processing <=> \E t \in Thread : pc[t] # "idle"
    /\ \A t, u \in Thread : pc[t] # "idle" /\ pc[u] # "idle" => t = u

\* No lost wakeup: a queued event always has a thread that will drain it.
\* (send returns at once when it sees _processing set.)
NoStrandedEvent == queue # <<>> => Running /\ processing

\* Run to completion: the snapshot a transition is computed from is still the
\* current one at the commit, and the snapshot whose actions and listeners
\* are running is still the current one: no commit comes in between.
RunToCompletion ==
    \A t \in Thread : pc[t] \in Effect \cup {"transition"} => snap[t] = state

\* The event a thread has popped and not yet folded in or given up.
InFlight == {ev[t] : t \in {u \in Thread : pc[u] \in {"popped", "transition"}}}

\* Every accepted event is in exactly one place (queued, being processed,
\* folded into the snapshot, discarded), and snapshots fold events in the
\* order send accepted them, whatever was discarded in between.
FifoExactlyOnce ==
    /\ 1..accepted = (Values(state) \ {Restored}) \cup Values(queue) \cup InFlight \cup dropped
    /\ \A i, j \in DOMAIN state : i < j => state[i] < state[j]
    /\ \A i, j \in DOMAIN queue : i < j => queue[i] < queue[j]
    /\ \A e \in InFlight : /\ \A i \in DOMAIN queue : e < queue[i]
                           /\ \A i \in DOMAIN state : state[i] < e
    /\ \A i \in DOMAIN state, j \in DOMAIN queue : state[i] < queue[j]
    /\ dropped \cap (Values(state) \cup Values(queue) \cup InFlight) = {}

\* Once nothing is being processed, a registered listener has been given the
\* current snapshot (by its first call, owed or made, or by a notification),
\* unless the effects of that very snapshot raised.
NoMissedSnapshot ==
    \A l \in listeners :
        Running /\ ~processing /\ skipped # Len(state) + 1 =>
            \/ best[l] = Len(state) + 1
            \/ \E t \in Thread : \E c \in sub[t] :
                  c.listener = l /\ c.seen = Len(state) + 1

\* stop is final: afterwards no snapshot is installed, nothing is queued and
\* the interpreter does not restart, even with a macrostep under way.
StopIsFinal ==
    [][status = "stopped" =>
         status' = "stopped" /\ state' = state /\ queue' = <<>>]_vars

\* The processing boundary is always released, whatever user code raises and
\* stops; with NoStrandedEvent, every accepted event is folded into the snapshot
\* or discarded in the end.
BoundaryReleased == processing ~> ~processing

-----------------------------------------------------------------------------
(* The interpreter implements the mailbox: threads, locks, callbacks and the
   order of their steps are not visible in snapshots.                       *)

Mbox == INSTANCE Mailbox WITH
    MaxEvents <- MaxSends,
    snapshot <- state,
    inbox <- queue,
    taken <- InFlight,
    busy <- processing,
    count <- accepted

\* Every behaviour of the threads is a behaviour of the sequential mailbox.
ImplementsMailbox == Mbox!Spec
=============================================================================
