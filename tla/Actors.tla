------------------------------- MODULE Actors -------------------------------
(***************************************************************************)
(* The actor tree of src/src/xstate/actor.py: a machine actor, the children *)
(* its states invoke and its application spawns, and the lifecycle locks    *)
(* that its threads take on the way down and on the way up.                 *)
(*                                                                         *)
(* A thread is a stack of calls; each call has a label, the lock it entered *)
(* with, and its locals.  What the code keeps in flags that a `finally`     *)
(* resets (_stopping, _syncing, _processing) is a call on a stack here.     *)
(* The parent's interpreter is the one of Mailbox: one thread drains, an    *)
(* event commits some configuration, and user code runs in between.         *)
(***************************************************************************)
EXTENDS Naturals, Sequences, SequencesExt, FiniteSets

CONSTANTS
    Thread,
    Child,       \* bound: as many children, spawned and invoked, are created
    InvId,       \* ids of the invoke declarations
    SpawnId,     \* ids the application spawns under
    MaxSends,    \* bound: events sent by user code
    SendsUnderChildLock, \* the code of a child that is started or stopped
                         \* sends to a parent whose lock its thread lacks
    None

ASSUME ActorsAssumption ==
    /\ InvId \cap SpawnId = {} /\ None \notin Child \cup InvId \cup SpawnId
    /\ MaxSends \in Nat
    /\ "none" \notin Child \cup {None}
    /\ IsFiniteSet(Child) /\ IsFiniteSet(InvId)
    /\ SendsUnderChildLock \in BOOLEAN

VARIABLES
    \* the parent
    ist,        \* its interpreter: not_started, running, stopped
    sub,        \* _invocation_sub is set
    conf,       \* invocations of the active states
    mail,       \* queued events: None, or the child a completion is from
    children, invoked,     \* _children and _invoked: id -> child or None
    \* the children
    id,         \* its id, None before it is created
    cst,        \* its status
    snap,       \* its snapshot: active, or settled (done or error)
    listening,  \* the invoke listener is among its listeners
    told,       \* sent["done"] of that listener
    \* the threads
    stack,
    \* history
    delivered,  \* completions of the child that reached the queue
    torn,       \* user code raised and no reconciliation has run since
    cut,        \* children whose stop an exception from user code cut short
    lost,       \* children unlinked in the place of an older one with their id
    sends, entries

parent == <<ist, sub, conf, mail>>
tables == <<children, invoked>>
child == <<id, cst, snap, listening, told>>
counts == <<delivered, torn, cut, lost, sends, entries>>
vars == <<parent, tables, child, stack, counts>>

Id == InvId \cup SpawnId
Parent == None   \* the lock of the parent, and the source of its own events
NoLock == "none"

\* A call, made with a child or an id, before it has taken a lock.
Frame(op, arg) ==
    [op |-> op, arg |-> arg, lock |-> NoLock, gone |-> {}, ids |-> {}, changed |-> FALSE]
Holding(op, lock) == [Frame(op, lock) EXCEPT !.lock = lock]

Top(t) == stack[t][Len(stack[t])]
At(t, op) == stack[t] # <<>> /\ Top(t).op = op
Calls(t) == {stack[t][k] : k \in DOMAIN stack[t]}
Live(op) == {f \in UNION {Calls(t) : t \in Thread} : f.op = op}

\* The locks are reentrant.
Holds(t, lock) == \E f \in Calls(t) : f.lock = lock
CanTake(t, lock) == \A u \in Thread \ {t} : ~Holds(u, lock)

\* The flags, and the interpreter's processing boundary.
Stopping == Live("stopkids") # {}
Syncing == Live("recon") \cup Live("leave") \cup Live("enter") # {}
ChildStopping(c) == \E f \in Live("cleanup") : f.arg = c
Drains(t) == \E f \in Calls(t) : f.op \in {"drain", "act"}
Processing == \E t \in Thread : Drains(t)

\* The call on top goes on as `frames`: none when it returns, itself under
\* another label and with the call it makes on top otherwise.
Becomes(t, frames) == stack' = [stack EXCEPT ![t] = Front(@) \o frames]
Pushes(t, frame) == stack' = [stack EXCEPT ![t] = Append(@, frame)]

Created == {c \in Child : id[c] # None}
Fresh == Child \ Created

\* The bound: a child for each of the entries into states that invoke and of
\* the spawns.
MayCreate(n) == n + Cardinality({c \in Created : id[c] \in SpawnId}) <= Cardinality(Child)

\* The actors of the system that have id i.
Registered(i) == {c \in Created : id[c] = i /\ cst[c] # "stopped"}

-----------------------------------------------------------------------------
Init ==
    /\ ist = "not_started" /\ sub = FALSE /\ mail = <<>>
    /\ conf \in SUBSET InvId /\ entries = Cardinality(conf) /\ entries <= Cardinality(Child)
    /\ children = [i \in Id |-> None] /\ invoked = [i \in InvId |-> None]
    /\ id = [c \in Child |-> None]
    /\ cst = [c \in Child |-> "not_started"]
    /\ snap = [c \in Child |-> "active"]
    /\ listening = [c \in Child |-> FALSE] /\ told = [c \in Child |-> FALSE]
    /\ stack = [t \in Thread |-> <<>>]
    /\ delivered = [c \in Child |-> 0]
    /\ torn = FALSE /\ cut = {} /\ lost = {} /\ sends = 0

-----------------------------------------------------------------------------
(* User code: a thread of the application, or an action of the parent *)

UserCode(t) == stack[t] = <<>> \/ At(t, "act")

\* A child's code runs under its lifecycle lock.
ChildCode(t) == At(t, "run") \/ At(t, "cleanup")
MaySend(t) == UserCode(t) \/ (ChildCode(t) /\ (SendsUnderChildLock \/ Holds(t, Parent)))

\* A timer of the parent calls its interpreter.
CallSend(t) ==
    /\ MaySend(t)
    /\ sends < MaxSends /\ sends' = sends + 1
    /\ \/ Pushes(t, Frame("send", None))
       \/ stack[t] = <<>> /\ Pushes(t, Frame("isend", None))
    /\ UNCHANGED <<parent, tables, child, delivered, torn, cut, lost, entries>>

CallStart(t) ==
    /\ stack[t] = <<>> /\ ist # "stopped" /\ ~sub
    /\ Pushes(t, Frame("start", None))
    /\ UNCHANGED <<parent, tables, child, counts>>

CallStop(t) ==
    /\ UserCode(t) /\ ist # "stopped"
    /\ Pushes(t, Frame("stop", None))
    /\ UNCHANGED <<parent, tables, child, counts>>

\* The application starts and stops the children it has spawned, not those
\* that the configuration owns.
CallChild(t) ==
    /\ UserCode(t)
    /\ \E c \in Created, op \in {"cstart", "cstop"} :
          /\ id[c] \in SpawnId
          /\ IF op = "cstart" THEN cst[c] = "not_started" ELSE cst[c] # "stopped"
          /\ Pushes(t, Frame(op, c))
    /\ UNCHANGED <<parent, tables, child, counts>>

\* The task of a promise or of an observable has a result or an error.
Settles(c) == snap[c] = "active" /\ snap' = [snap EXCEPT ![c] = "settled"]

\* An observable emits a value, a child machine changes without completing.
Emits(c) == UNCHANGED snap

\* A running child settles, or emits another snapshot, and tells its listener.
ChildChanges(t) ==
    /\ UserCode(t)
    /\ \E c \in Created :
          /\ cst[c] = "running" /\ listening[c]
          /\ Settles(c) \/ (stack[t] = <<>> /\ Emits(c))
          /\ Pushes(t, Frame("cnotify", c))
    /\ UNCHANGED <<parent, tables, id, cst, listening, told, counts>>

\* A new child; a parent that is stopping or has stopped stops it at once.
Create(c, i) ==
    /\ id' = [id EXCEPT ![c] = i]
    /\ IF Stopping \/ ist = "stopped"
       THEN cst' = [cst EXCEPT ![c] = "stopped"] /\ UNCHANGED children
       ELSE children' = [children EXCEPT ![i] = c] /\ UNCHANGED cst

\* spawn, from user code: under an id that no actor of the system has.
Spawn(t) ==
    /\ UserCode(t) /\ CanTake(t, Parent)
    /\ MayCreate(entries + 1)
    /\ \E i \in SpawnId, c \in Fresh : Registered(i) = {} /\ Create(c, i)
    /\ UNCHANGED <<parent, invoked, snap, listening, told, stack, counts>>

-----------------------------------------------------------------------------
(* send and the interpreter of the parent *)

Send(t) ==
    /\ At(t, "send") /\ CanTake(t, Parent)
    /\ Becomes(t, IF Stopping \/ ist = "stopped" THEN <<>>
                  ELSE <<Frame("isend", Top(t).arg)>>)
    /\ UNCHANGED <<parent, tables, child, counts>>

\* Interpreter.send: dropped, queued, or drained by this thread.
InterpreterSend(t) ==
    /\ At(t, "isend")
    /\ IF ist = "running"
       THEN /\ mail' = Append(mail, Top(t).arg)
            /\ delivered' = [c \in Child |-> delivered[c] + IF Top(t).arg = c THEN 1 ELSE 0]
            /\ Becomes(t, IF Processing THEN <<>> ELSE <<Frame("drain", None)>>)
       ELSE Becomes(t, <<>>) /\ UNCHANGED <<mail, delivered>>
    /\ UNCHANGED <<ist, sub, conf, tables, child, torn, cut, lost, sends, entries>>

\* The next event commits some configuration; or the loop ends.
Drain(t) ==
    /\ At(t, "drain")
    /\ IF ist = "running" /\ mail # <<>>
       THEN /\ mail' = Tail(mail)
            /\ conf' \in SUBSET InvId
            /\ entries' = entries + Cardinality(conf' \ conf) /\ MayCreate(entries')
            /\ Becomes(t, <<Frame("act", None)>>)
       ELSE Becomes(t, <<>>) /\ UNCHANGED <<mail, conf, entries>>
    /\ UNCHANGED <<ist, sub, tables, child, delivered, torn, cut, lost, sends>>

\* The actions are over and listeners are told, the reconciler among them.
Notify(t) ==
    /\ At(t, "act")
    /\ Becomes(t, <<Frame("drain", None)>>
                  \o IF ist = "running" /\ sub THEN <<Frame("sync", None)>> ELSE <<>>)
    /\ UNCHANGED <<parent, tables, child, counts>>

\* User code raises: an action of the parent, the start of a child, or the
\* resolution of an invocation's logic or input; or a pass does: one that finds
\* an entry gone, as the cleanup of another child has stopped the parent, or an
\* id taken, by a child whose own stop was cut short.  The finally clauses of
\* every call on the stack run.
Raise(t) ==
    /\ \/ At(t, "act") \/ At(t, "run")
       \/ /\ At(t, "leave")
          /\ IF Top(t).gone = {} THEN \E i \in Top(t).ids : invoked[i] = None
             ELSE \E i \in Top(t).gone : invoked[i] = None
       \/ At(t, "enter") /\ \E i \in Top(t).ids : Registered(i) # {}
    /\ stack' = [stack EXCEPT ![t] = <<>>]
    /\ mail' = IF Drains(t) THEN <<>> ELSE mail
    /\ torn' = TRUE
    /\ cut' = cut \cup {f.arg : f \in {g \in Calls(t) : g.op = "cleanup"}}
    /\ UNCHANGED <<ist, sub, conf, tables, child, delivered, lost, sends, entries>>

-----------------------------------------------------------------------------
(* start and stop of the parent *)

\* A second call goes on where a first one that raised has ended.
Start(t) ==
    /\ At(t, "start") /\ CanTake(t, Parent)
    /\ IF Stopping \/ ist = "stopped" \/ sub
       THEN Becomes(t, <<>>) /\ UNCHANGED ist
       ELSE /\ ist' = "running"
            /\ Becomes(t, <<Holding("subscribe", Parent)>>
                  \o IF ist = "not_started" THEN <<Frame("act", None)>> ELSE <<>>)
    /\ UNCHANGED <<sub, conf, mail, tables, child, counts>>

\* The reconciler is subscribed, and called at once.
Subscribe(t) ==
    /\ At(t, "subscribe")
    /\ sub' = TRUE
    /\ Becomes(t, <<Holding("return", Parent)>>
                  \o IF ist = "running" THEN <<Frame("sync", None)>> ELSE <<>>)
    /\ UNCHANGED <<ist, conf, mail, tables, child, counts>>

\* The with statement of a call ends.
Return(t) ==
    /\ At(t, "return")
    /\ Becomes(t, <<>>)
    /\ UNCHANGED <<parent, tables, child, counts>>

\* Mutant of Stop: every id is looked up, one that has no child too.
StopEveryId(t) ==
    /\ At(t, "stop") /\ CanTake(t, Parent)
    /\ IF Stopping \/ ist = "stopped"
       THEN Becomes(t, <<>>) /\ UNCHANGED sub
       ELSE /\ sub' = FALSE
            /\ Becomes(t, <<[Holding("stopkids", Parent) EXCEPT
                              !.ids = {children[i] : i \in Id}]>>)
    /\ UNCHANGED <<ist, conf, mail, tables, child, counts>>

\* The children are those of the table now.
Stop(t) ==
    /\ At(t, "stop") /\ CanTake(t, Parent)
    /\ IF Stopping \/ ist = "stopped"
       THEN Becomes(t, <<>>) /\ UNCHANGED sub
       ELSE /\ sub' = FALSE
            /\ Becomes(t, <<[Holding("stopkids", Parent) EXCEPT
                              !.ids = {children[i] : i \in Id} \ {None}]>>)
    /\ UNCHANGED <<ist, conf, mail, tables, child, counts>>

\* Mutant of StopChild: the children are not stopped.
StopChildForgets(t) ==
    /\ At(t, "stopkids")
    /\ \E c \in Top(t).ids : Becomes(t, <<[Top(t) EXCEPT !.ids = @ \ {c}]>>)
    /\ UNCHANGED <<parent, tables, child, counts>>

StopChild(t) ==
    /\ At(t, "stopkids")
    /\ \E c \in Top(t).ids :
          Becomes(t, <<[Top(t) EXCEPT !.ids = @ \ {c}], Frame("cstop", c)>>)
    /\ UNCHANGED <<parent, tables, child, counts>>

StopSelf(t) ==
    /\ At(t, "stopkids") /\ Top(t).ids = {}
    /\ children' = [i \in Id |-> None] /\ invoked' = [i \in InvId |-> None]
    /\ ist' = "stopped" /\ mail' = <<>>
    /\ Becomes(t, <<>>)
    /\ UNCHANGED <<sub, conf, child, counts>>

-----------------------------------------------------------------------------
(* start and stop of a child, and what it tells *)

ChildStart(t) ==
    /\ At(t, "cstart")
    /\ LET c == Top(t).arg IN
       /\ CanTake(t, c)
       /\ IF cst[c] = "not_started" /\ ~ChildStopping(c)
          THEN cst' = [cst EXCEPT ![c] = "running"] /\ Becomes(t, <<Holding("run", c)>>)
          ELSE Becomes(t, <<>>) /\ UNCHANGED cst
    /\ UNCHANGED <<parent, tables, id, snap, listening, told, counts>>

\* The function of a promise has returned a value or has raised.
Resolves(c) == snap' = [snap EXCEPT ![c] = "settled"]

\* A callback has run, or a task was made that settles later.
StaysActive(c) == UNCHANGED snap

\* Its code has run, and the child notifies.
ChildStarted(t) ==
    /\ At(t, "run")
    /\ LET c == Top(t).arg IN
       /\ Resolves(c) \/ StaysActive(c)
       /\ Becomes(t, <<Holding("return", c), Frame("cnotify", c)>>)
    /\ UNCHANGED <<parent, tables, id, cst, listening, told, counts>>

\* Mutant of ChildNotify: any snapshot is taken for the last one.
ChildNotifyOnce(t) ==
    /\ At(t, "cnotify")
    /\ LET c == Top(t).arg IN
       IF listening[c] /\ ~told[c]
       THEN /\ told' = [told EXCEPT ![c] = TRUE]
            /\ Becomes(t, IF snap[c] = "settled" THEN <<Frame("send", c)>> ELSE <<>>)
       ELSE Becomes(t, <<>>) /\ UNCHANGED told
    /\ UNCHANGED <<parent, tables, id, cst, snap, listening, counts>>

\* The invoke listener tells the parent of the completion, once.
ChildNotify(t) ==
    /\ At(t, "cnotify")
    /\ LET c == Top(t).arg IN
       IF listening[c] /\ ~told[c] /\ snap[c] = "settled"
       THEN told' = [told EXCEPT ![c] = TRUE] /\ Becomes(t, <<Frame("send", c)>>)
       ELSE Becomes(t, <<>>) /\ UNCHANGED told
    /\ UNCHANGED <<parent, tables, id, cst, snap, listening, counts>>

ChildStop(t) ==
    /\ At(t, "cstop")
    /\ LET c == Top(t).arg IN
       /\ CanTake(t, c)
       /\ Becomes(t, IF ChildStopping(c) \/ cst[c] = "stopped" THEN <<>>
                     ELSE <<Holding("cleanup", c)>>)
    /\ UNCHANGED <<parent, tables, child, counts>>

\* Mutant of ChildStopped: the child's lock is kept on the way to the parent.
ChildStoppedHolds(t) ==
    /\ At(t, "cleanup")
    /\ LET c == Top(t).arg IN
       /\ cst' = [cst EXCEPT ![c] = "stopped"]
       /\ listening' = [listening EXCEPT ![c] = FALSE]
       /\ Becomes(t, <<Holding("unlink", c)>>)
    /\ UNCHANGED <<parent, tables, id, snap, told, counts>>

\* The cleanup has run: the backend stops and the child leaves the system.
ChildStopped(t) ==
    /\ At(t, "cleanup")
    /\ LET c == Top(t).arg IN
       /\ cst' = [cst EXCEPT ![c] = "stopped"]
       /\ listening' = [listening EXCEPT ![c] = FALSE]
       /\ Becomes(t, <<Frame("unlink", c)>>)
    /\ UNCHANGED <<parent, tables, id, snap, told, counts>>

\* The child leaves the parent's table, by its id: the entry may be that of
\* another child, which was spawned under the id since this one is stopped.
Unlink(t) ==
    /\ At(t, "unlink") /\ CanTake(t, Parent)
    /\ LET i == id[Top(t).arg] IN
       /\ children' = [children EXCEPT ![i] = None]
       /\ lost' = lost \cup ({children[i]} \ {Top(t).arg, None})
    /\ Becomes(t, <<>>)
    /\ UNCHANGED <<parent, invoked, child, delivered, torn, cut, sends, entries>>

-----------------------------------------------------------------------------
(* _sync_invocations and _reconcile_invocations_once *)

Sync(t) ==
    /\ At(t, "sync") /\ CanTake(t, Parent)
    /\ Becomes(t, IF Stopping \/ ist # "running" \/ Syncing THEN <<>>
                  ELSE <<Holding("recon", Parent)>>)
    /\ UNCHANGED <<parent, tables, child, counts>>

\* A pass reads the configuration, unless the parent is stopped under way.
Reconcile(t) ==
    /\ At(t, "recon")
    /\ torn' = FALSE
    /\ Becomes(t, IF Stopping \/ ist # "running" THEN <<>>
                  ELSE <<[Holding("leave", Parent) EXCEPT !.ids = conf,
                            !.gone = {i \in InvId : invoked[i] # None} \ conf]>>)
    /\ UNCHANGED <<parent, tables, child, delivered, cut, lost, sends, entries>>

\* The invocation of a state that was left: forgotten, then stopped.
LeaveInvocation(t) ==
    /\ At(t, "leave")
    /\ \E i \in Top(t).gone :
          /\ invoked[i] # None
          /\ invoked' = [invoked EXCEPT ![i] = None]
          /\ children' = [children EXCEPT ![i] = None]
          /\ Becomes(t, <<[Top(t) EXCEPT !.gone = @ \ {i}, !.changed = TRUE],
                          Frame("cstop", invoked[i])>>)
    /\ UNCHANGED <<parent, child, counts>>

\* Logic and input of all the new ones are resolved first.
Resolve(t) ==
    /\ At(t, "leave") /\ Top(t).gone = {}
    /\ Becomes(t, <<[Top(t) EXCEPT !.op = "enter", !.ids = {i \in @ : invoked[i] = None}]>>)
    /\ UNCHANGED <<parent, tables, child, counts>>

\* The listener is there before the child starts.
EnterInvocation(t) ==
    /\ At(t, "enter")
    /\ \E i \in Top(t).ids, c \in Fresh :
          /\ Registered(i) = {} /\ Create(c, i)
          /\ invoked' = [invoked EXCEPT ![i] = c]
          /\ listening' = [listening EXCEPT ![c] = TRUE]
          /\ Becomes(t, <<[Top(t) EXCEPT !.ids = @ \ {i}, !.changed = TRUE],
                          Frame("cstart", c)>>)
    /\ UNCHANGED <<parent, snap, told, counts>>

\* Mutant of EndPass: one pass is enough.
EndPassAlways(t) ==
    /\ At(t, "enter") /\ Top(t).ids = {}
    /\ Becomes(t, <<>>)
    /\ UNCHANGED <<parent, tables, child, counts>>

\* Another pass follows one that changed something.
EndPass(t) ==
    /\ At(t, "enter") /\ Top(t).ids = {}
    /\ Becomes(t, IF Top(t).changed THEN <<Holding("recon", Parent)>> ELSE <<>>)
    /\ UNCHANGED <<parent, tables, child, counts>>

-----------------------------------------------------------------------------
\* What a thread does inside a call of the library.
Work(t) ==
    \/ Send(t) \/ InterpreterSend(t) \/ Drain(t) \/ Notify(t)
    \/ Start(t) \/ Subscribe(t) \/ Return(t) \/ Stop(t) \/ StopChild(t) \/ StopSelf(t)
    \/ ChildStart(t) \/ ChildStarted(t) \/ ChildNotify(t)
    \/ ChildStop(t) \/ ChildStopped(t) \/ Unlink(t)
    \/ Sync(t) \/ Reconcile(t) \/ LeaveInvocation(t) \/ Resolve(t)
    \/ EnterInvocation(t) \/ EndPass(t)

User(t) ==
    \/ CallSend(t) \/ CallStart(t) \/ CallStop(t) \/ CallChild(t)
    \/ ChildChanges(t) \/ Spawn(t) \/ Raise(t)

Next == \E t \in Thread : Work(t) \/ User(t)

Spec == Init /\ [][Next]_vars

-----------------------------------------------------------------------------
(* Properties *)

Labels == {"send", "isend", "drain", "act", "start", "subscribe", "return", "stop",
           "stopkids", "cstart", "run", "cnotify", "cstop", "cleanup", "unlink",
           "sync", "recon", "leave", "enter"}

OnChild == {"cstart", "run", "cnotify", "cstop", "cleanup", "unlink"}

TypeOK ==
    /\ ist \in {"not_started", "running", "stopped"} /\ sub \in BOOLEAN
    /\ conf \subseteq InvId /\ mail \in Seq(Child \cup {None})
    /\ children \in [Id -> Child \cup {None}] /\ invoked \in [InvId -> Child \cup {None}]
    /\ id \in [Child -> Id \cup {None}]
    /\ cst \in [Child -> {"not_started", "running", "stopped"}]
    /\ snap \in [Child -> {"active", "settled"}]
    /\ listening \in [Child -> BOOLEAN] /\ told \in [Child -> BOOLEAN]
    /\ \A t \in Thread : stack[t] \in Seq(
          [op : Labels, arg : Child \cup {None}, lock : Child \cup {Parent, NoLock},
           gone : SUBSET InvId, ids : SUBSET (Child \cup InvId), changed : BOOLEAN])
    /\ \A t \in Thread : \A f \in Calls(t) : f.op \in OnChild => f.arg \in Child
    /\ delivered \in [Child -> Nat] /\ torn \in BOOLEAN
    /\ cut \subseteq Child /\ lost \subseteq Child
    /\ sends \in 0..MaxSends /\ entries \in Nat

Idle == \A t \in Thread : stack[t] = <<>>

\* Entering the invoking state starts the child, leaving it stops the child,
\* whatever the threads that sent the events, the completions that came in the
\* meantime and the children that settle while they are started: when every
\* call has returned, the running children are those of the configuration.
InvocationsFollowConfiguration ==
    Idle /\ ist = "running" /\ sub /\ ~torn =>
        /\ \A i \in InvId : invoked[i] # None <=> i \in conf
        /\ \A i \in conf : children[i] = invoked[i]
        /\ \A c \in Created : id[c] \in InvId =>
               (cst[c] = "running" /\ c \notin cut <=> invoked[id[c]] = c)

\* A parent that has stopped has no child that is not stopped, even one that
\* is spawned or invoked while or after it stops; but for one whose own stop
\* led to that of its parent, or was cut short by an exception, and for a
\* spawned one that lost its place in the table to the stop of an older child.
StoppedTree ==
    ist = "stopped" => \A c \in Created :
        \/ cst[c] = "stopped" \/ c \in cut \/ (c \in lost /\ id[c] \in SpawnId)
        \/ \E f \in Live("cstop") \cup Live("cleanup") : f.arg = c

\* actors.md, 130: "stopping the parent stops those children as well".  All of
\* them, but one whose stop user code cut short, when every call has returned.
ParentStopsChildren ==
    Idle /\ ist = "stopped" => \A c \in Created : cst[c] = "stopped" \/ c \in cut

\* The completion of an invoked child reaches the parent's queue at most once,
\* and exactly once unless the child or the parent is stopped first.
CompletionsDelivered ==
    \A c \in Child :
        /\ delivered[c] <= 1
        /\ Idle /\ ist = "running" /\ listening[c] /\ snap[c] = "settled" =>
               delivered[c] = 1

\* The lock that thread t asks for.
Wanted(t) ==
    IF \E op \in {"send", "start", "stop", "unlink", "sync"} : At(t, op) THEN Parent
    ELSE IF At(t, "cstart") \/ At(t, "cstop") THEN Top(t).arg ELSE NoLock
Waits(t, u) == Wanted(t) # NoLock /\ Holds(u, Wanted(t))

\* actor.py:801 says of stop: "Do not hold this actor's lock while acquiring its
\* parent's lock."  No two threads wait for a lock that the other one holds.
NoLockCycle ==
    \A t, u \in Thread : t # u => ~(Waits(t, u) /\ Waits(u, t))
=============================================================================
