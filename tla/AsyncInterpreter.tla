-------------------------- MODULE AsyncInterpreter --------------------------
(***************************************************************************)
(* The AsyncInterpreter of src/src/xstate/async_interpreter.py: one object *)
(* on one event loop, used by application tasks and by the timer tasks it   *)
(* creates itself.                                                          *)
(*                                                                         *)
(* Tasks are cooperative: the one in `running` goes on until it suspends,   *)
(* in an awaitable action (await), on its own future (answer) or in the     *)
(* gather of stop; only there do other tasks run, and only there does a     *)
(* cancellation that was asked for arrive.  Events and snapshots are those  *)
(* of Interpreter.                                                          *)
(***************************************************************************)
EXTENDS Naturals, Sequences, FiniteSets

CONSTANTS
    Task,        \* tasks of the application
    AfterTask, SendTask, \* bound: tasks of _schedule that are alive or in a table
    After,       \* states with an `after` delay
    SendId,      \* ids of delayed sends
    MaxSends,    \* bound: accepted calls of send
    MaxActions,  \* bound: actions of one snapshot
    MaxCancels,  \* bound: cancellations by the application
    None

ASSUME AsyncAssumption ==
    /\ MaxSends \in Nat /\ MaxActions \in Nat /\ MaxCancels \in Nat
    /\ Task \cap AfterTask = {} /\ (Task \cup AfterTask) \cap SendTask = {}
    /\ SendId \cap SendTask = {}
    /\ None \notin Task \cup AfterTask \cup SendTask

VARIABLES
    \* fields of the object
    status, state, processing, owner, queue,
    active,     \* the states of After in the configuration of `state`
    scheduled,  \* _scheduled: state -> task or None
    sends,      \* _send_timers: id, or the task itself -> task or None
    \* the event loop
    running,    \* the task that runs, or None
    fut,        \* event -> its future
    cancel,     \* who asked to cancel the task and was not heard yet
    \* locals of each task
    pc,         \* where the task is
    own,        \* the event its send appended (0 in start)
    ev,         \* the event its drain has popped (0 in start)
    todo,       \* actions not yet run
    wait,       \* the tasks its stop gathers
    back,       \* where its stop returns to
    \* history
    accepted, cancels

fields == <<status, state, processing, owner, queue>>
tables == <<active, scheduled, sends>>
locals == <<own, ev, todo, wait, back>>
vars == <<fields, tables, running, fut, cancel, pc, locals, accepted, cancels>>

Timer == AfterTask \cup SendTask
Coro == Task \cup Timer
Running == status = "running"
Restored == 0   \* start(initial_state)

\* Where a task has the processing boundary.
Inside == {"drain", "popped", "exec", "action", "await", "fail"}

Values(s) == {s[i] : i \in DOMAIN s}

-----------------------------------------------------------------------------
Init ==
    /\ status = "not_started" /\ state = <<>>
    /\ processing = FALSE /\ owner = None /\ queue = <<>>
    /\ active \in SUBSET After
    /\ scheduled = [a \in After |-> None]
    /\ sends = [k \in SendId \cup SendTask |-> None]
    /\ running = None
    /\ fut = [e \in 1..MaxSends |-> "none"]
    /\ cancel = [t \in Coro |-> "no"]
    /\ pc = [t \in Coro |-> IF t \in Task THEN "idle" ELSE "done"]
    /\ own = [t \in Coro |-> 0] /\ ev = [t \in Coro |-> 0]
    /\ todo = [t \in Coro |-> 0]
    /\ wait = [t \in Coro |-> {}] /\ back = [t \in Coro |-> "idle"]
    /\ accepted = 0 /\ cancels = 0

\* Task t may run, and goes on to pc `label`; it suspends there or not.
Turn(t) == running \in {None, t}
Suspended == {"idle", "await", "answer", "gather", "sleep", "done"}
Goto(t, label) ==
    /\ pc' = [pc EXCEPT ![t] = label]
    /\ running' = IF label \in Suspended THEN None ELSE t

\* Where a task goes when its outermost call returns or raises.
Home(t) == IF t \in Task THEN "idle" ELSE "done"

-----------------------------------------------------------------------------
(* Timer tasks *)

\* The task objects a table may still hold are not used again.
Held == {scheduled[a] : a \in After} \cup {sends[k] : k \in SendId \cup SendTask}
Free == {k \in Timer : pc[k] = "done" /\ k \notin Held
                       /\ \A t \in Coro : k \notin wait[t]}

\* Tasks made for the states in `made`, whichever they are: none can be told
\* from another.  Disabled when there are too few.
TasksFor(made) == {new \in [made -> Free \cap AfterTask] :
                      \A a, b \in made : new[a] = new[b] => a = b}
Made(made) == IF TasksFor(made) = {} THEN {} ELSE {CHOOSE new \in TasksFor(made) : TRUE}
NewSend == IF Free \cap SendTask = {} THEN {} ELSE {CHOOSE k \in Free \cap SendTask : TRUE}

\* task.cancel() on each task of S: nothing for one that is done; a future
\* that the task awaits is cancelled with it.
Cancelled(S, who) ==
    [t \in Coro |-> IF t \in S /\ pc[t] # "done" THEN who ELSE cancel[t]]
Abandoned(S) == {own[t] : t \in {u \in S : pc[u] = "answer"}}
FutCancelled(S) ==
    [e \in 1..MaxSends |->
        IF e \in Abandoned(S) /\ fut[e] = "pending" THEN "cancelled" ELSE fut[e]]

\* The names _sync_delays drops from the table, ...
Unwanted(wanted) == {a \in After : scheduled[a] # None /\ a \notin wanted}

\* ... and those it makes tasks for; some only, when a delay does not resolve.
Missing(wanted) == {a \in wanted : scheduled[a] = None}

\* The tables and the tasks when _sync_delays drops the names in `gone` and
\* makes the tasks `new`, while t goes on to `label`.
Reschedule(t, label, gone, new, asked) ==
    LET fresh == {new[a] : a \in DOMAIN new} IN
    /\ scheduled' = [a \in After |-> IF a \in DOMAIN new THEN new[a]
                                     ELSE IF a \in gone THEN None ELSE scheduled[a]]
    /\ cancel' = [u \in Coro |-> IF u \in fresh THEN "no" ELSE Cancelled(asked, "own")[u]]
    /\ fut' = FutCancelled(asked)
    /\ pc' = [u \in Coro |-> IF u \in fresh THEN "sleep" ELSE IF u = t THEN label ELSE pc[u]]

\* Mutant of SyncDelays: the tasks of states that were left are dropped, not
\* cancelled.
SyncDelaysForgets(t, label, wanted, made) ==
    \E new \in Made(made) : Reschedule(t, label, Unwanted(wanted), new, {})

\* _sync_delays: cancels the tasks of states that are not active any more,
\* the task that runs this included, and schedules the states in `made`.
SyncDelays(t, label, wanted, made) ==
    LET gone == Unwanted(wanted) IN
    \E new \in Made(made) :
        Reschedule(t, label, gone, new, {scheduled[a] : a \in gone})

\* ... with an exception when some delay does not resolve.
Reconcile(t, wanted) ==
    /\ running' = t
    /\ \/ /\ SyncDelays(t, "exec", wanted, Missing(wanted))
          /\ \E n \in 0..MaxActions : todo' = [todo EXCEPT ![t] = n]
       \/ /\ \E made \in SUBSET Missing(wanted) :
                made # Missing(wanted) /\ SyncDelays(t, "fail", wanted, made)
          /\ todo' = todo

-----------------------------------------------------------------------------
(* start, send, stop *)

\* Task t is in code of its own; a timer task, at the end of its sleep.
Calls(t) == Turn(t) /\ IF t \in Task THEN pc[t] = "idle"
                       ELSE pc[t] = "sleep" /\ cancel[t] = "no"

\* Task t runs an action of the macrostep it drives.
Acts(t) == Turn(t) /\ pc[t] = "action"

Start(t) ==
    /\ Calls(t) /\ t \in Task
    /\ status = "not_started"
    /\ status' = "running" /\ processing' = TRUE /\ owner' = t
    /\ \/ UNCHANGED <<state, active>>
       \/ state' = <<Restored>> /\ active' \in SUBSET After
    /\ Reconcile(t, active')
    /\ UNCHANGED <<queue, sends, own, ev, wait, back, accepted, cancels>>

\* Mutant of Send: a send from an action awaits its own event.
SendAwaits(t) ==
    /\ Calls(t) \/ Acts(t)
    /\ Running /\ accepted < MaxSends
    /\ accepted' = accepted + 1
    /\ queue' = Append(queue, accepted + 1)
    /\ fut' = [fut EXCEPT ![accepted + 1] = "pending"]
    /\ own' = [own EXCEPT ![t] = accepted + 1]
    /\ IF processing
       THEN Goto(t, "answer") /\ UNCHANGED <<processing, owner>>
       ELSE processing' = TRUE /\ owner' = t /\ Goto(t, "drain")
    /\ UNCHANGED <<status, state, tables, cancel, ev, todo, wait, back, cancels>>

\* A send that is accepted.  The task that drives the macrostep goes on at
\* once, another one awaits the event's future or becomes the driver.
Send(t) ==
    /\ Calls(t) \/ Acts(t)
    /\ Running /\ accepted < MaxSends
    /\ accepted' = accepted + 1
    /\ queue' = Append(queue, accepted + 1)
    /\ fut' = [fut EXCEPT ![accepted + 1] = "pending"]
    /\ IF owner = t
       THEN UNCHANGED <<processing, owner, pc, running, own>>
       ELSE /\ own' = [own EXCEPT ![t] = accepted + 1]
            /\ IF processing
               THEN Goto(t, "answer") /\ UNCHANGED <<processing, owner>>
               ELSE processing' = TRUE /\ owner' = t /\ Goto(t, "drain")
    /\ UNCHANGED <<status, state, tables, cancel, ev, todo, wait, back, cancels>>

\* The future of its event is settled.
Answered(t) ==
    /\ Turn(t) /\ pc[t] = "answer" /\ cancel[t] = "no"
    /\ fut[own[t]] # "pending"
    /\ own' = [own EXCEPT ![t] = 0]
    /\ Goto(t, Home(t))
    /\ UNCHANGED <<fields, tables, fut, cancel, ev, todo, wait, back, accepted, cancels>>

\* A timer finds the interpreter stopped.
FireStopped(t) ==
    /\ Calls(t) /\ t \in Timer
    /\ ~Running
    /\ Goto(t, "done")
    /\ UNCHANGED <<fields, tables, fut, cancel, locals, accepted, cancels>>

\* stop, from a task's own code or from an action.
Stop(t) ==
    LET tasks == Held \ {None} IN
    /\ (Calls(t) /\ t \in Task) \/ Acts(t)
    /\ status' = "stopped"
    /\ queue' = <<>>
    /\ cancel' = Cancelled(tasks, "own")
    /\ fut' = [e \in 1..MaxSends |->
                  IF e \in Values(queue) /\ FutCancelled(tasks)[e] = "pending"
                  THEN "result" ELSE FutCancelled(tasks)[e]]
    /\ scheduled' = [a \in After |-> None] /\ sends' = [k \in SendId \cup SendTask |-> None]
    /\ IF tasks \ {t} = {}
       THEN UNCHANGED <<pc, running, wait, back>>
       ELSE /\ wait' = [wait EXCEPT ![t] = tasks \ {t}]
            /\ back' = [back EXCEPT ![t] = pc[t]]
            /\ Goto(t, "gather")
    /\ UNCHANGED <<state, processing, owner, active, own, ev, todo, accepted, cancels>>

\* Every task that stop gathers has ended.
Gathered(t) ==
    /\ Turn(t) /\ pc[t] = "gather" /\ cancel[t] = "no"
    /\ \A u \in wait[t] : pc[u] = "done"
    /\ wait' = [wait EXCEPT ![t] = {}]
    /\ back' = [back EXCEPT ![t] = "idle"]
    /\ Goto(t, back[t])
    /\ UNCHANGED <<fields, tables, fut, cancel, own, ev, todo, accepted, cancels>>

-----------------------------------------------------------------------------
(* _drain_event_queue and _process *)

DrainPop(t) ==
    /\ Turn(t) /\ pc[t] = "drain"
    /\ Running /\ queue # <<>>
    /\ ev' = [ev EXCEPT ![t] = Head(queue)]
    /\ queue' = Tail(queue)
    /\ Goto(t, "popped")
    /\ UNCHANGED <<status, state, processing, owner, tables, fut, cancel,
                   own, todo, wait, back, accepted, cancels>>

\* Mutant of DrainDone: the task that is remembered for re-entrance stays.
DrainDoneKeepsOwner(t) ==
    /\ Turn(t) /\ pc[t] = "drain"
    /\ ~Running \/ queue = <<>>
    /\ processing' = FALSE /\ owner' = owner
    /\ own' = [own EXCEPT ![t] = 0]
    /\ cancel' = [cancel EXCEPT ![t] = "no"]
    /\ Goto(t, Home(t))
    /\ UNCHANGED <<status, state, queue, tables, fut, ev, todo, wait, back, accepted, cancels>>

\* The loop ends: start or send releases the boundary and returns.
DrainDone(t) ==
    /\ Turn(t) /\ pc[t] = "drain"
    /\ ~Running \/ queue = <<>>
    /\ processing' = FALSE /\ owner' = None
    /\ own' = [own EXCEPT ![t] = 0]
    /\ cancel' = [cancel EXCEPT ![t] = "no"]
    /\ Goto(t, Home(t))
    /\ UNCHANGED <<status, state, queue, tables, fut, ev, todo, wait, back, accepted, cancels>>

\* The transition, its snapshot and the reconciliation of the timers: no other
\* task runs in between.
Commit(t) ==
    /\ Turn(t) /\ pc[t] = "popped"
    /\ state' = Append(state, ev[t])
    /\ active' \in SUBSET After
    /\ Reconcile(t, active')
    /\ UNCHANGED <<status, processing, owner, queue, sends, own, ev, wait, back,
                   accepted, cancels>>

\* Mutant of Finish: the caller is told before the actions have run.
FinishEarly(t) ==
    /\ Turn(t) /\ pc[t] = "exec"
    /\ fut' = [e \in 1..MaxSends |->
                  IF e = ev[t] /\ fut[e] = "pending" THEN "result" ELSE fut[e]]
    /\ UNCHANGED <<ev, todo, pc, running>>
    /\ UNCHANGED <<fields, tables, cancel, own, wait, back, accepted, cancels>>

\* _execute has run every action or finds the interpreter stopped; listeners
\* are notified and the caller gets its result.
Finish(t) ==
    /\ Turn(t) /\ pc[t] = "exec"
    /\ todo[t] = 0 \/ ~Running
    /\ fut' = [e \in 1..MaxSends |->
                  IF e = ev[t] /\ fut[e] = "pending" THEN "result" ELSE fut[e]]
    /\ ev' = [ev EXCEPT ![t] = 0] /\ todo' = [todo EXCEPT ![t] = 0]
    /\ Goto(t, "drain")
    /\ UNCHANGED <<fields, tables, cancel, own, wait, back, accepted, cancels>>

\* Mutant of NextAction: one action past the last.
NextActionPastEnd(t) ==
    /\ Turn(t) /\ pc[t] = "exec"
    /\ Running
    /\ todo' = [todo EXCEPT ![t] = @ - 1]

\* The next action of the snapshot ...
NextAction(t) ==
    /\ Turn(t) /\ pc[t] = "exec"
    /\ todo[t] > 0 /\ Running
    /\ todo' = [todo EXCEPT ![t] = @ - 1]

\* ... is a callable, awaitable or not,
CallAction(t) ==
    /\ NextAction(t)
    /\ Goto(t, "action")
    /\ UNCHANGED <<fields, tables, fut, cancel, own, ev, wait, back, accepted, cancels>>

\* ... a send without a delay, which only appends its event,
ExecuteSend(t) ==
    /\ NextAction(t)
    /\ accepted < MaxSends
    /\ accepted' = accepted + 1
    /\ queue' = Append(queue, accepted + 1)
    /\ fut' = [fut EXCEPT ![accepted + 1] = "pending"]
    /\ UNCHANGED <<status, state, processing, owner, tables, running, cancel, pc,
                   own, ev, wait, back, cancels>>

\* ... a send with a delay: a task, in the table under its id or itself,
ExecuteDelayed(t) ==
    /\ NextAction(t)
    /\ \E k \in NewSend : \E id \in SendId \cup {k} :
          /\ sends' = [sends EXCEPT ![id] = k]
          /\ pc' = [pc EXCEPT ![k] = "sleep"]
          /\ cancel' = [cancel EXCEPT ![k] = "no"]
    /\ UNCHANGED <<fields, active, scheduled, running, fut, own, ev, wait, back,
                   accepted, cancels>>

\* ... or a cancel of a delayed send, possibly of the one that drives this.
ExecuteCancel(t) ==
    /\ NextAction(t)
    /\ \E id \in SendId :
          /\ sends[id] # None
          /\ sends' = [sends EXCEPT ![id] = None]
          /\ cancel' = Cancelled({sends[id]}, "own")
          /\ fut' = FutCancelled({sends[id]})
    /\ UNCHANGED <<fields, active, scheduled, running, pc, own, ev, wait, back,
                   accepted, cancels>>

-----------------------------------------------------------------------------
(* Actions, exceptions and cancellation *)

\* The action awaits something, which lets other tasks run, ...
Suspend(t) ==
    /\ Acts(t)
    /\ Goto(t, "await")
    /\ UNCHANGED <<fields, tables, fut, cancel, locals, accepted, cancels>>

\* ... and goes on when it has it.
Resume(t) ==
    /\ Turn(t) /\ pc[t] = "await" /\ cancel[t] = "no"
    /\ Goto(t, "action")
    /\ UNCHANGED <<fields, tables, fut, cancel, locals, accepted, cancels>>

Return(t) ==
    /\ Acts(t)
    /\ Goto(t, "exec")
    /\ UNCHANGED <<fields, tables, fut, cancel, locals, accepted, cancels>>

\* A guard or an assign, an action, a delay or a listener raises.
Raise(t) ==
    /\ Turn(t)
    /\ pc[t] \in {"popped", "action"} \/ (pc[t] = "exec" /\ Running)
    /\ Goto(t, "fail")
    /\ UNCHANGED <<fields, tables, fut, cancel, locals, accepted, cancels>>

\* The application cancels a task of its own that is suspended in a call.
Cancel(t) ==
    /\ running = None
    /\ t \in Task /\ pc[t] \in {"await", "answer", "gather"} /\ cancel[t] = "no"
    /\ cancels < MaxCancels
    /\ cancels' = cancels + 1
    /\ cancel' = [cancel EXCEPT ![t] = "app"]
    /\ fut' = FutCancelled({t})
    /\ UNCHANGED <<fields, tables, running, pc, locals, accepted>>

\* A cancellation arrives where its task is suspended: the sleep of a timer
\* ends it, an action and the stop that it awaits raise, and so does a send or
\* a stop of the task's own.
CancelArrives(t) ==
    /\ Turn(t) /\ cancel[t] # "no"
    /\ pc[t] \in {"sleep", "await", "answer", "gather"}
    /\ cancel' = [cancel EXCEPT ![t] = "no"]
    /\ IF pc[t] = "await" \/ (pc[t] = "gather" /\ back[t] = "action")
       THEN Goto(t, "fail") /\ UNCHANGED own
       ELSE Goto(t, Home(t)) /\ own' = [own EXCEPT ![t] = 0]
    /\ wait' = [wait EXCEPT ![t] = {}]
    /\ back' = [back EXCEPT ![t] = "idle"]
    /\ UNCHANGED <<fields, tables, fut, ev, todo, accepted, cancels>>

\* Mutant of Fail: cancellation settles the event that was taken only.
FailKeepsQueue(t) ==
    /\ Turn(t) /\ pc[t] = "fail"
    /\ fut' = [e \in 1..MaxSends |->
                  IF e = ev[t] /\ fut[e] = "pending" THEN "failed" ELSE fut[e]]
    /\ processing' = FALSE /\ owner' = None
    /\ own' = [own EXCEPT ![t] = 0] /\ ev' = [ev EXCEPT ![t] = 0]
    /\ todo' = [todo EXCEPT ![t] = 0]
    /\ cancel' = [cancel EXCEPT ![t] = "no"]
    /\ Goto(t, Home(t))
    /\ UNCHANGED <<status, state, queue, tables, wait, back, accepted, cancels>>

\* The except and finally clauses of start, send and _drain_event_queue.
Fail(t) ==
    /\ Turn(t) /\ pc[t] = "fail"
    /\ fut' = [e \in 1..MaxSends |->
                  IF e \in Values(queue) \cup {ev[t]} /\ fut[e] = "pending"
                  THEN "failed" ELSE fut[e]]
    /\ queue' = <<>>
    /\ processing' = FALSE /\ owner' = None
    /\ own' = [own EXCEPT ![t] = 0] /\ ev' = [ev EXCEPT ![t] = 0]
    /\ todo' = [todo EXCEPT ![t] = 0]
    /\ cancel' = [cancel EXCEPT ![t] = "no"]
    /\ Goto(t, Home(t))
    /\ UNCHANGED <<status, state, tables, wait, back, accepted, cancels>>

-----------------------------------------------------------------------------
\* What happens without another call of the application.
Work(t) ==
    \/ Answered(t) \/ FireStopped(t) \/ Gathered(t)
    \/ DrainPop(t) \/ DrainDone(t) \/ Commit(t) \/ Finish(t)
    \/ CallAction(t) \/ ExecuteSend(t) \/ ExecuteDelayed(t) \/ ExecuteCancel(t)
    \/ Resume(t) \/ Return(t) \/ Raise(t) \/ CancelArrives(t) \/ Fail(t)

Call(t) == Start(t) \/ Send(t) \/ Stop(t) \/ Suspend(t) \/ Cancel(t)

Next == \E t \in Coro : Work(t) \/ Call(t)

Spec == Init /\ [][Next]_vars

\* The loop goes on while a task is ready, what an action awaits comes to an
\* end, and the action that runs, of which there is one, returns in the end.
Fairness == WF_vars(\E t \in Coro : Work(t)) /\ SF_vars(\E t \in Coro : Return(t))
FairSpec == Spec /\ Fairness

-----------------------------------------------------------------------------
(* Properties *)

PC == {"idle", "done", "sleep", "drain", "popped", "exec", "action", "await",
       "answer", "gather", "fail"}
Status == {"not_started", "running", "stopped"}

TypeOK ==
    /\ status \in Status /\ state \in Seq(0..MaxSends)
    /\ processing \in BOOLEAN /\ owner \in Coro \cup {None}
    /\ queue \in Seq(1..MaxSends)
    /\ active \subseteq After
    /\ scheduled \in [After -> Timer \cup {None}]
    /\ sends \in [SendId \cup SendTask -> Timer \cup {None}]
    /\ running \in Coro \cup {None}
    /\ fut \in [1..MaxSends -> {"none", "pending", "result", "failed", "cancelled"}]
    /\ cancel \in [Coro -> {"no", "app", "own"}]
    /\ pc \in [Coro -> PC]
    /\ own \in [Coro -> 0..MaxSends] /\ ev \in [Coro -> 0..MaxSends]
    /\ todo \in [Coro -> 0..MaxActions]
    /\ wait \in [Coro -> SUBSET Timer] /\ back \in [Coro -> {"idle", "action"}]
    /\ accepted \in 0..MaxSends /\ cancels \in 0..MaxCancels

\* Task t is between claiming and releasing the boundary.
Drives(t) == pc[t] \in Inside \/ (pc[t] = "gather" /\ back[t] = "action")

\* The boundary has one owner, the task that send recognises as re-entrant,
\* across every suspension, cancellation, exception and stop; and a task runs
\* alone.
SingleOwner ==
    /\ processing <=> owner # None
    /\ \A t \in Coro : Drives(t) <=> owner = t
    /\ \A t \in Coro : running = t <=> pc[t] \notin Suspended

\* No future is forgotten and none is answered too early: a pending one
\* belongs to an event that is queued or under way; one with a result, to an
\* event that was folded in and whose actions are over (or to a stop).  So a
\* task that has drained has its own answer: future.result() at the end of send
\* does not raise InvalidStateError.
PromisesKept ==
    \A e \in 1..accepted :
        /\ fut[e] = "pending" =>
               e \in Values(queue) \cup {ev[t] : t \in {u \in Coro : Drives(u)}}
        /\ fut[e] = "result" =>
               \/ status = "stopped"
               \/ e \in Values(state) /\ \A t \in Coro : ev[t] # e
        /\ \A t \in Coro : pc[t] = "drain" /\ own[t] = e /\ (~Running \/ queue = <<>>) =>
               fut[e] # "pending"

\* The table of `after` tasks follows the configuration, and is complete: an
\* entry belongs to an active state, and an `after` task that may still fire is
\* in the table, where leaving the state or stop() reaches it.
AfterTasksReachable ==
    /\ \A a \in After : scheduled[a] # None => a \in active
    /\ status = "stopped" => Held \subseteq {None}
    /\ \A k \in AfterTask : pc[k] = "sleep" /\ cancel[k] = "no" =>
           \E a \in After : scheduled[a] = k

\* Every `await send(event)` comes back, with a result or an exception: a task
\* that waits for the answer to its event does not wait for ever.
CallersAnswered == \A t \in Coro : pc[t] = "answer" ~> pc[t] # "answer"

\* The event whose transition has not returned.
InFlight == {ev[t] : t \in {u \in Coro : pc[u] = "popped"}}

\* The asyncio interpreter keeps the promises of the mailbox too.
Mbox == INSTANCE Mailbox WITH
    MaxEvents <- MaxSends,
    snapshot <- state,
    inbox <- queue,
    taken <- InFlight,
    busy <- processing,
    count <- accepted
ImplementsMailbox == Mbox!Spec
=============================================================================
