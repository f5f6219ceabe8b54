------------------------------ MODULE Docking ------------------------------
(***************************************************************************)
(* The docking controller of src/docs/examples/docking_controller.py, a     *)
(* facade that composes an Interpreter, a clock and a drive: one lock is    *)
(* held from the admission of an operation to its end, so operations do not *)
(* overlap; what runs beside them is the clock, whose callback may have     *)
(* left the clock, and wait for the lock, when its timer is cancelled.      *)
(*                                                                         *)
(* The chart is docking_controller.json.  A drive command may raise at any   *)
(* point; a callback that re-enters the controller is refused with an        *)
(* exception and is a command that raises.                                   *)
(***************************************************************************)
EXTENDS Naturals, Sequences, FiniteSets

CONSTANTS
    MaxCalls,      \* bound: operations of the application
    MaxTime,       \* bound: the simulated time
    PhaseTimeout   \* the delay of `phaseTimeout`

ASSUME DockingAssumption == MaxCalls \in Nat /\ MaxTime \in Nat /\ PhaseTimeout \in Nat \ {0}

VARIABLES
    clock,     \* the clock the controller was given: thread or simulated
    now,       \* the time of a simulated clock
    under,     \* timers that are pending in the clock
    leaving,   \* timers the clock has called and that wait for the lock
    timeouts,  \* _timeouts of the wrapper: the timers not cancelled or delivered
    due,       \* timer -> when it is due
    setIn,     \* timer -> the operation and the phase it was set in
    service,   \* number of interpreters made; the last is _service
    running,   \* status of _service is running
    phase,     \* its state
    cleanup,   \* _cleanup_pending
    \* the admitted operation
    op,        \* none, start, tick, cancel, close, timer, advance
    target,    \* of an advance: the time it goes to
    pc,        \* idle, close, abort, open, act or loop
    todo,      \* drive commands left
    \* the drive, and history
    moving,    \* begin was called and no stop has succeeded since
    raised,    \* a command has raised since the operation began
    calls

clocks == <<clock, now, under, leaving, due, setIn>>
machine == <<service, running, phase>>
admitted == <<op, target, pc, todo>>
drive == <<cleanup, moving, raised>>
vars == <<clocks, timeouts, machine, admitted, drive, calls>>

Active == {"staging", "scanning", "docking"}
Following == [staging |-> "scanning", scanning |-> "docking", docking |-> "completed"]
Command == [staging |-> "stage", scanning |-> "scan", docking |-> "dock"]

Timers == DOMAIN due
NewTimer == Len(due) + 1

-----------------------------------------------------------------------------
Init ==
    /\ clock \in {"thread", "simulated"} /\ now = 0
    /\ under = {} /\ leaving = {} /\ timeouts = {}
    /\ due = <<>> /\ setIn = <<>>
    /\ service = 0 /\ running = FALSE /\ phase = "ready"
    /\ op = "none" /\ target = 0 /\ pc = "idle" /\ todo = <<>>
    /\ cleanup = FALSE /\ moving = FALSE /\ raised = FALSE
    /\ calls = 0

Operating == running /\ phase \in Active

\* An operation of the application gets the lock, and goes on at `label`.
Admit(name, label) ==
    /\ op = "none" /\ op' = name /\ pc' = label
    /\ calls < MaxCalls /\ calls' = calls + 1

\* The lock is given back; an exception goes up through an advance too.
Release == op' = "none" /\ pc' = "idle" /\ todo' = <<>> /\ target' = 0

-----------------------------------------------------------------------------
(* The interpreter: a macrostep commits, reconciles its timer, then acts *)

\* Mutant of Cancelled: a timer that has left the clock is not invalidated.
CancelledInClock == timeouts \cap under

\* clear_timeout of the wrapper, for the timers of the phase that ends.
Cancelled == timeouts

\* Mutant of Enter: only the first phase has a timeout.
EnterUntimed(s, p, fired) ==
    LET set == IF p = "staging" THEN {Len(due) + 1} ELSE {} IN
    /\ service' = s /\ phase' = p
    /\ under' = (under \ (Cancelled \cup fired)) \cup set
    /\ timeouts' = (timeouts \ (Cancelled \cup fired)) \cup set
    /\ due' = IF set = {} THEN due ELSE Append(due, now' + PhaseTimeout)
    /\ setIn' = IF set = {} THEN setIn ELSE Append(setIn, <<s, p>>)

\* The chart of interpreter s goes to p, on a timer in `fired` or an event.
Enter(s, p, fired) ==
    LET set == IF p \in Active THEN {Len(due) + 1} ELSE {} IN
    /\ service' = s /\ phase' = p
    /\ under' = (under \ (Cancelled \cup fired)) \cup set
    /\ timeouts' = (timeouts \ (Cancelled \cup fired)) \cup set
    /\ due' = IF set = {} THEN due ELSE Append(due, now' + PhaseTimeout)
    /\ setIn' = IF set = {} THEN setIn ELSE Append(setIn, <<s, p>>)

Stay == UNCHANGED <<service, phase, under, timeouts, due, setIn>>

-----------------------------------------------------------------------------
(* start, tick, cancel, close *)

\* start closes what there is, unless it is still active.
CallStart ==
    /\ ~Operating
    /\ Admit("start", IF service = 0 THEN "open" ELSE "close")
    /\ UNCHANGED <<clocks, timeouts, machine, target, todo, drive>>

\* A new interpreter starts and is sent START.
Open ==
    /\ pc = "open" /\ pc' = "act" /\ todo' = <<"begin">>
    /\ now' = now /\ Enter(service + 1, "staging", {})
    /\ running' = TRUE /\ raised' = FALSE
    /\ UNCHANGED <<clock, leaving, op, target, cleanup, moving, calls>>

\* A tick chooses by its sample: a fault, the next phase, or the same one.
CallTick ==
    /\ Operating /\ Admit("tick", "act") /\ now' = now
    /\ \/ Enter(service, "failed", {}) /\ todo' = <<"halt">>
       \/ /\ Enter(service, Following[phase], {})
          /\ todo' = IF phase = "docking" THEN <<"dock", "halt">> ELSE <<Command[phase]>>
       \/ Stay /\ todo' = <<Command[phase]>>
    /\ UNCHANGED <<clock, leaving, running, target, drive>>

\* Mutant of CallCancel: the chart's cancelled state has no halt.
CallCancelQuiet ==
    /\ Admit("cancel", "act") /\ service > 0 /\ now' = now
    /\ IF Operating THEN Enter(service, "cancelled", {}) ELSE Stay
    /\ todo' = <<>>
    /\ UNCHANGED <<clock, leaving, running, target, drive>>

\* A cancel is ignored by a chart that has ended or was stopped.
CallCancel ==
    /\ Admit("cancel", "act") /\ service > 0 /\ now' = now
    /\ IF Operating THEN Enter(service, "cancelled", {}) /\ todo' = <<"halt">>
       ELSE Stay /\ todo' = <<>>
    /\ UNCHANGED <<clock, leaving, running, target, drive>>

CallClose ==
    /\ Admit("close", "close")
    /\ UNCHANGED <<clocks, timeouts, machine, target, todo, drive>>

\* Mutant of StopDrive: the pending mark goes before the stop succeeds.
StopDriveFirst(ok) ==
    /\ cleanup' = FALSE /\ moving' = (moving /\ ~ok)
    /\ raised' = (raised \/ ~ok)

\* _stop_drive with a cleanup pending: only a stop that succeeds clears it.
StopDrive(ok) ==
    /\ cleanup' = ~ok /\ moving' = (moving /\ ~ok)
    /\ raised' = (raised \/ ~ok)

\* _close_current: the interpreter stops, and cancels its timer, even when the
\* drive does not; start goes on only when it does.
Close ==
    /\ pc \in {"close", "abort"}
    /\ \E ok \in BOOLEAN :
          /\ IF cleanup THEN StopDrive(ok) ELSE ok /\ UNCHANGED drive
          /\ IF ok /\ op = "start" /\ pc = "close"
             THEN pc' = "open" /\ UNCHANGED <<op, target, todo>>
             ELSE Release
    /\ running' = FALSE
    /\ under' = under \ Cancelled /\ timeouts' = timeouts \ Cancelled
    /\ UNCHANGED <<clock, now, leaving, due, setIn, service, phase, calls>>

-----------------------------------------------------------------------------
(* The drive commands of the macrostep *)

\* The next command returns or raises; begin is marked before it is called.
Act ==
    /\ pc = "act" /\ todo # <<>>
    /\ \E ok \in BOOLEAN :
          /\ CASE Head(todo) = "begin" -> cleanup' = TRUE /\ moving' = TRUE
                                          /\ raised' = (raised \/ ~ok)
               [] Head(todo) = "halt" /\ cleanup -> StopDrive(ok)
               [] Head(todo) = "halt" /\ ~cleanup -> ok /\ UNCHANGED drive
               [] OTHER -> raised' = (raised \/ ~ok) /\ UNCHANGED <<cleanup, moving>>
          /\ IF ok THEN todo' = Tail(todo) /\ UNCHANGED <<op, target, pc>>
             ELSE IF op = "start"
             THEN pc' = "abort" /\ todo' = <<>> /\ UNCHANGED <<op, target>>
             ELSE Release
    /\ UNCHANGED <<clocks, timeouts, machine, calls>>

\* The operation ends, or the timer that an advance has fired.
Return ==
    /\ pc = "act" /\ todo = <<>>
    /\ IF op = "timer" /\ target > 0
       THEN op' = "advance" /\ pc' = "loop" /\ UNCHANGED <<target, todo>>
       ELSE Release
    /\ UNCHANGED <<clocks, timeouts, machine, drive, calls>>

-----------------------------------------------------------------------------
(* Timers *)

\* The timer's callback is admitted: nothing when it was cancelled, and the
\* interpreter that set it sees its `after` event otherwise.
Fire(k) ==
    /\ op' = "timer" /\ pc' = "act"
    /\ IF k \in timeouts /\ Operating /\ setIn[k] = <<service, phase>>
       THEN Enter(service, "failed", {k}) /\ todo' = <<"halt">>
       ELSE /\ timeouts' = timeouts \ {k} /\ under' = under \ {k} /\ todo' = <<>>
            /\ UNCHANGED <<service, phase, due, setIn>>

\* The worker of a ThreadClock calls one timer, ...
Dispatch ==
    /\ clock = "thread" /\ leaving = {}
    /\ \E k \in under : under' = under \ {k} /\ leaving' = {k}
    /\ UNCHANGED <<clock, now, due, setIn, timeouts, machine, admitted, drive, calls>>

\* ... which waits for the lock.
Deliver ==
    /\ op = "none" /\ now' = now
    /\ \E k \in leaving : leaving' = {} /\ Fire(k)
    /\ UNCHANGED <<clock, running, target, drive, calls>>

\* advance_time holds the lock, but each timer it fires is admitted by itself.
CallAdvance ==
    /\ clock = "simulated" /\ service > 0
    /\ Admit("advance", "loop") /\ target' \in now..MaxTime
    /\ UNCHANGED <<clocks, timeouts, machine, todo, drive>>

Late == {k \in under : due[k] <= target}

\* SimulatedClock.increment: the timer that is due first, at its time, ...
AdvanceFires ==
    /\ pc = "loop"
    /\ \E k \in Late :
          /\ \A j \in Late : due[k] < due[j] \/ (due[k] = due[j] /\ k <= j)
          /\ now' = due[k]
          /\ Fire(k)
    /\ UNCHANGED <<clock, leaving, running, target, drive, calls>>

\* ... until none is.
AdvanceEnds ==
    /\ pc = "loop" /\ Late = {}
    /\ now' = target /\ Release
    /\ UNCHANGED <<clock, under, leaving, due, setIn, timeouts, machine, drive, calls>>

-----------------------------------------------------------------------------
Calls == CallStart \/ CallTick \/ CallCancel \/ CallClose \/ CallAdvance
Steps == Open \/ Close \/ Act \/ Return \/ AdvanceFires \/ AdvanceEnds

Next == Calls \/ Steps \/ Dispatch \/ Deliver

Spec == Init /\ [][Next]_vars

\* Drive commands return, the clock calls what is due, and its worker gets the
\* lock that others give back again and again.
FairSpec == Spec /\ WF_vars(Steps) /\ WF_vars(Dispatch) /\ SF_vars(Deliver)

-----------------------------------------------------------------------------
(* Properties *)

\* The drive is begun only when it rests, commanded only when it was begun and
\* by the operation that is under way, and marked for cleanup while it may move:
\* whatever command raises, whatever operation or timer comes next.
DriveProtocol ==
    /\ moving => cleanup
    /\ pc = "open" => ~moving
    /\ pc = "act" /\ todo # <<>> =>
           CASE Head(todo) = "begin" -> ~moving
             [] Head(todo) = "halt" -> TRUE
             [] OTHER -> moving /\ running

\* At rest the drive may move only under an operation that is active, unless
\* one of its commands has raised: completion, failure, timeout, cancel and
\* close stop it, in whatever order they get the lock.
DriveStopped == pc = "idle" /\ moving => Operating \/ raised

\* An active phase has one timeout, its own, which will still be delivered; a
\* chart that has ended or was stopped has none, not even one that is waiting
\* for the lock.
PhaseHasItsTimeout ==
    IF Operating
    THEN \E k \in under \cup leaving : timeouts = {k} /\ setIn[k] = <<service, phase>>
    ELSE timeouts = {}

\* With a ThreadClock no phase lasts for ever, whatever the ticks report.
PhaseEnds ==
    \A s \in 1..MaxCalls, p \in Active :
        clock = "thread" /\ running /\ service = s /\ phase = p
            ~> ~(running /\ service = s /\ phase = p)
=============================================================================
