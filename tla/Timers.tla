------------------------------- MODULE Timers -------------------------------
(***************************************************************************)
(* The timers of an Interpreter (src/src/xstate/interpreter.py) and the    *)
(* clock that fires them: the table _scheduled of `after` transitions,      *)
(* reconciled by _sync_delays inside the lock block of a commit, and the   *)
(* table _send_timers of delayed sends, written by the send and cancel     *)
(* actions outside any lock, while another thread may stop the interpreter. *)
(*                                                                         *)
(* Macrosteps are serial (theorem MacrostepsAreSerial of the interpreter), *)
(* so one program counter, owner, stands for the thread that has the       *)
(* boundary.  A macrostep is what it does to timers: the states with an     *)
(* after transition that are active, those it exits and enters again, and  *)
(* the send and cancel actions it leaves to the runtime.                   *)
(***************************************************************************)
EXTENDS Naturals, Sequences, FiniteSets, Functions

CONSTANTS
    After,      \* states with one `after` transition each
    SendId,     \* ids given to send(..., id=...)
    Anonymous,  \* a delayed send without id
    Reentry,    \* whether a macrostep may exit a state and enter it again
    MaxTimers   \* bound: timers ever set

ASSUME TimersAssumption ==
    /\ MaxTimers \in Nat /\ Reentry \in BOOLEAN /\ IsFiniteSet(After)
    /\ SendId \cap Nat = {} /\ After \cap SendId = {}
    /\ Anonymous \notin After \cup SendId

VARIABLES
    \* the interpreter
    status, active,  \* lifecycle; the after states of the configuration
    scheduled,       \* _scheduled: after state -> timer
    sends,           \* _send_timers: send id or timer -> timer
    queue,           \* after timers whose event is in the event queue
    \* the clock
    set,             \* number of timers set; timers are 1..set
    what,            \* timer -> its after state or send id
    live,            \* timers pending in the clock
    ringing,         \* timers taken by the clock's thread, not yet sent
    \* the thread of the macrostep
    owner, key, held,
    \* the thread inside stop()
    stopper, visited, size,
    \* history
    since,           \* after state -> timers set before its last entry
    rung,            \* after state -> its last timer that rang, or 0
    synced           \* the last reconciliation was not cut short

macro == <<owner, key, held>>
stopping == <<stopper, visited, size>>
clock == <<set, what, live, ringing>>
vars == <<status, active, scheduled, sends, queue, clock, macro, stopping, since, rung, synced>>

Timer == 1..MaxTimers
Empty == [x \in {} |-> 0]
Put(f, k, v) == [x \in DOMAIN f \cup {k} |-> IF x = k THEN v ELSE f[x]]
Without(f, S) == Restrict(f, DOMAIN f \ S)

Running == status = "running"
LockFree == stopper = "none"

Init ==
    /\ status = "not_started"
    /\ active \in SUBSET After
    /\ scheduled = Empty /\ sends = Empty
    /\ queue = <<>>
    /\ set = 0 /\ what = Empty /\ live = {} /\ ringing = {}
    /\ owner = "idle" /\ key = Anonymous /\ held = 0
    /\ stopper = "none" /\ visited = {} /\ size = 0
    /\ since = [s \in After |-> 0]
    /\ rung = [s \in After |-> 0]
    /\ synced = TRUE

-----------------------------------------------------------------------------
(* _sync_delays *)

\* Mutant of Unwanted: timers of exited states are left running.
NoneUnwanted(A) == {}

\* The after states that have a timer to cancel when A is the configuration.
Unwanted(A) == DOMAIN scheduled \ A

\* Mutant of Missing: only looks at the states that were not active.
MissingFromActive(A) == A \ active

\* The after states that have a timer to set.
Missing(A) == A \ DOMAIN scheduled

\* Cancel, then schedule.  A delay that does not resolve raises after some of
\* the timers (those of B) are set; the rest is not reconciled.
SyncDelays(A) ==
    \E B \in SUBSET Missing(A) :
        LET n == Cardinality(B)
            id == CHOOSE f \in [B -> set + 1..set + n] : IsInjective(f)
            kept == Without(scheduled, Unwanted(A))
        IN /\ set + n <= MaxTimers
           /\ set' = set + n
           /\ what' = [t \in 1..set + n |->
                         IF t <= set THEN what[t] ELSE CHOOSE s \in B : id[s] = t]
           /\ live' = (live \ {scheduled[s] : s \in Unwanted(A)}) \cup set + 1..set + n
           /\ scheduled' = [s \in DOMAIN kept \cup B |->
                              IF s \in B THEN id[s] ELSE kept[s]]
           /\ \/ B = Missing(A) /\ owner' = "effects" /\ synced' = TRUE
              \/ B # Missing(A) /\ owner' = "idle" /\ synced' = FALSE

-----------------------------------------------------------------------------
(* Macrosteps *)

Start ==
    /\ status = "not_started" /\ LockFree
    /\ status' = "running"
    /\ owner' = "starting"
    /\ UNCHANGED <<active, scheduled, sends, queue, clock, key, held, stopping,
                   since, rung, synced>>

\* The second lock block of start, unless stop() came in between.
StartSync ==
    /\ owner = "starting" /\ LockFree
    /\ \/ Running /\ SyncDelays(active)
       \/ ~Running /\ owner' = "effects" /\ UNCHANGED <<scheduled, synced, set, what, live>>
    /\ UNCHANGED <<status, active, sends, queue, ringing, key, held, stopping, since, rung>>

\* A macrostep for an external event, or for the oldest timer event: that of
\* a state that is not active changes nothing.
Commit ==
    /\ owner = "idle" /\ LockFree /\ Running
    /\ queue' \in {queue} \cup IF queue = <<>> THEN {} ELSE {Tail(queue)}
    /\ \E A \in SUBSET After :
        \E again \in IF Reentry THEN SUBSET (A \cap active) ELSE {{}} :
          /\ queue' # queue /\ what[Head(queue)] \in After \ active
                => A = active /\ again = {}
          /\ active' = A
          /\ since' = [s \in After |-> IF s \in (A \ active) \cup again THEN set ELSE since[s]]
          /\ SyncDelays(A)
    /\ UNCHANGED <<status, sends, ringing, key, held, stopping, rung>>

\* The status check of _execute, then the next action: a delayed send, a
\* cancel, or nothing more (done, raised, or stopped).
NextAction ==
    /\ owner = "effects" /\ LockFree
    /\ \/ /\ Running /\ set < MaxTimers
          /\ owner' = "arm"
          /\ key' \in SendId \cup {Anonymous}
       \/ /\ Running
          /\ owner' = "cancel"
          /\ key' \in SendId
       \/ /\ owner' = "idle"
          /\ UNCHANGED key
    /\ UNCHANGED <<status, active, scheduled, sends, queue, clock, held, stopping,
                   since, rung, synced>>

\* Mutant of Arm: the timer's number is taken but not counted.
ArmUncounted ==
    /\ owner = "arm"
    /\ what' = Put(what, set + 1, key)
    /\ live' = live \cup {set + 1}
    /\ held' = set + 1
    /\ owner' = "record"
    /\ UNCHANGED <<status, active, scheduled, sends, queue, set, ringing, key, stopping,
                   since, rung, synced>>

\* _execute_send: the clock takes the timer ...
Arm ==
    /\ owner = "arm"
    /\ set' = set + 1
    /\ what' = Put(what, set + 1, key)
    /\ live' = live \cup {set + 1}
    /\ held' = set + 1
    /\ owner' = "record"
    /\ UNCHANGED <<status, active, scheduled, sends, queue, ringing, key, stopping,
                   since, rung, synced>>

\* ... and the table records it, by its id or by its timer.
Record ==
    /\ owner = "record"
    /\ sends' = Put(sends, IF key = Anonymous THEN held ELSE key, held)
    /\ owner' = "effects" /\ key' = Anonymous /\ held' = 0
    /\ UNCHANGED <<status, active, scheduled, queue, clock, stopping, since, rung, synced>>

\* _execute_cancel: pop the entry ...
CancelPop ==
    /\ owner = "cancel"
    /\ IF key \in DOMAIN sends
       THEN held' = sends[key] /\ owner' = "clear" /\ sends' = Without(sends, {key})
       ELSE owner' = "effects" /\ UNCHANGED <<held, sends>>
    /\ key' = Anonymous
    /\ UNCHANGED <<status, active, scheduled, queue, clock, stopping, since, rung, synced>>

\* ... and clear its timer.
CancelClear ==
    /\ owner = "clear"
    /\ live' = live \ {held}
    /\ owner' = "effects" /\ held' = 0
    /\ UNCHANGED <<status, active, scheduled, sends, queue, set, what, ringing, key,
                   stopping, since, rung, synced>>

-----------------------------------------------------------------------------
(* The clock *)

\* The clock's thread takes a timer that is due (the event of a delayed send
\* becomes one of the external events) ...
Ring(t) ==
    /\ t \in live
    /\ live' = live \ {t}
    /\ IF what[t] \in After
       THEN rung' = [rung EXCEPT ![what[t]] = t] /\ ringing' = ringing \cup {t}
       ELSE UNCHANGED <<rung, ringing>>
    /\ UNCHANGED <<status, active, scheduled, sends, queue, set, what, macro, stopping,
                   since, synced>>

\* ... and calls send.
Deliver(t) ==
    /\ t \in ringing /\ LockFree
    /\ ringing' = ringing \ {t}
    /\ queue' = IF Running THEN Append(queue, t) ELSE queue
    /\ UNCHANGED <<status, active, scheduled, sends, set, what, live, macro, stopping,
                   since, rung, synced>>

-----------------------------------------------------------------------------
(* stop, which holds the lock from StopScheduled to StopEnd.  The iteration
   over _send_timers raises when its size has changed.                      *)

\* Mutant of StopScheduled: the table is cleared before its timers.
StopForgets ==
    /\ LockFree
    /\ scheduled' = Empty
    /\ stopper' = "iterate" /\ visited' = {} /\ size' = Cardinality(DOMAIN sends)
    /\ UNCHANGED <<status, active, sends, queue, clock, macro, since, rung, synced>>

StopScheduled ==
    /\ LockFree
    /\ live' = live \ Range(scheduled)
    /\ scheduled' = Empty
    /\ stopper' = "iterate" /\ visited' = {} /\ size' = Cardinality(DOMAIN sends)
    /\ UNCHANGED <<status, active, sends, queue, set, what, ringing, macro, since, rung, synced>>

StopSend ==
    /\ stopper = "iterate"
    /\ Cardinality(DOMAIN sends) = size
    /\ \E k \in DOMAIN sends \ visited :
          /\ live' = live \ {sends[k]}
          /\ visited' = visited \cup {k}
    /\ UNCHANGED <<status, active, scheduled, sends, queue, set, what, ringing, macro,
                   stopper, size, since, rung, synced>>

StopIterated ==
    /\ stopper = "iterate"
    /\ IF Cardinality(DOMAIN sends) = size
       THEN DOMAIN sends \subseteq visited /\ stopper' = "clear" /\ UNCHANGED synced
       ELSE stopper' = "none" /\ synced' = FALSE
    /\ visited' = {} /\ size' = 0
    /\ UNCHANGED <<status, active, scheduled, sends, queue, clock, macro, since, rung>>

StopEnd ==
    /\ stopper = "clear"
    /\ sends' = Empty
    /\ queue' = <<>>
    /\ status' = "stopped"
    /\ stopper' = "none"
    /\ UNCHANGED <<active, scheduled, clock, macro, visited, size, since, rung, synced>>

-----------------------------------------------------------------------------
Inside == StartSync \/ NextAction \/ Arm \/ Record \/ CancelPop \/ CancelClear
Stopping == StopSend \/ StopIterated \/ StopEnd
Clock == \E t \in Timer : Ring(t) \/ Deliver(t)

Next == Start \/ Commit \/ Inside \/ Clock \/ StopScheduled \/ Stopping

Spec == Init /\ [][Next]_vars

\* The clock rings every timer it holds; threads inside start, a macrostep or
\* stop() keep running, and get the lock that stop() releases again and again.
Fairness ==
    /\ \A t \in Timer : WF_vars(Ring(t))
    /\ SF_vars(Inside) /\ WF_vars(Stopping)
FairSpec == Spec /\ Fairness

-----------------------------------------------------------------------------
(* Properties *)

TypeOK ==
    /\ status \in {"not_started", "running", "stopped"}
    /\ active \subseteq After
    /\ DOMAIN scheduled \subseteq After /\ Range(scheduled) \subseteq 1..set
    /\ DOMAIN sends \subseteq SendId \cup 1..set /\ Range(sends) \subseteq 1..set
    /\ set \in 0..MaxTimers
    /\ what \in [1..set -> After \cup SendId \cup {Anonymous}]
    /\ live \cup ringing \cup Range(queue) \subseteq 1..set
    /\ owner \in {"idle", "starting", "effects", "arm", "record", "cancel", "clear"}
    /\ key \in SendId \cup {Anonymous} /\ held \in 0..set
    /\ stopper \in {"none", "iterate", "clear"}
    /\ visited \subseteq SendId \cup 1..set /\ size \in Nat
    /\ since \in [After -> 0..set] /\ rung \in [After -> 0..set]
    /\ synced \in BOOLEAN

\* No `after` timer is ever out of reach: one that is pending is the one its
\* state has in the table, where a commit or stop() finds it, whatever was
\* cut short before; a stopped interpreter has none.
AfterTimersReachable ==
    /\ \A t \in live : what[t] \in After =>
          what[t] \in DOMAIN scheduled /\ scheduled[what[t]] = t
    /\ status = "stopped" => scheduled = Empty

\* _sync_delays, 411: the table is that of the configuration.
ReconciledWithConfiguration ==
    Running /\ LockFree /\ owner # "starting" =>
        /\ DOMAIN scheduled \subseteq active
        /\ synced => DOMAIN scheduled = active

\* _sync_delays, 411: "timers for exited states are cancelled; newly entered
\* states with `after` are scheduled".  The timer of an active state was set
\* when the state was last entered.
DelayStartsOnEntry ==
    Running /\ LockFree /\ synced /\ owner # "starting" =>
        \A s \in active : s \in DOMAIN scheduled /\ scheduled[s] > since[s]

\* The delay of a state that stays active elapses: its timer rings after the
\* entry, unless the interpreter is stopped or an exception intervened.
DelayElapses ==
    \A s \in After :
        Running /\ s \in active /\ synced
            ~> rung[s] > since[s] \/ s \notin active \/ ~Running \/ ~synced

\* runtimes.md, 75: "stopping an interpreter cancels its active `after` timers
\* and delayed sends".
StopCancelsTimers == status = "stopped" /\ LockFree => live = {}
=============================================================================
