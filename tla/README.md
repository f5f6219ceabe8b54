# xstate-python in TLA+

TLA+ modules for `xstate-python` (`src/src/xstate`): what the parser makes of a
config, the statechart algorithm that computes macrosteps, the two interpreters
that run them (among threads and callbacks, and among asyncio tasks), their
timers and clocks, the actor tree with its lifecycle locks, checkpoints, and the
docking controller of the examples, which composes an interpreter, a clock and a
device. TLC checks them on small instances; TLAPS proves every safety property
of the interpreters, the timers, the actors, the clock and the docking
controller, for every number of threads, tasks, children, listeners, events,
timers and calls, and for charts of every shape that conflicts are resolved,
configurations are legal, history can be restored, no active state is entered,
done events are raised exactly on completion, and a checkpoint restores what it
was made of. Liveness stays with TLC.

## The system

| Part | State | Operations | Interacts with |
|---|---|---|---|
| Parser (`config_parser.py`) | none: a dict in, a machine out | ids, targets, descriptors, numbering of nodes and transitions, refusal of bad configs | read by the algorithm |
| Statechart algorithm (`algorithm.py`, `machine.py`, `state.py`) | none of its own: a snapshot (configuration, history, context, output) in, a snapshot out | initial transition, transition; inside: select, resolve conflicts, exit, enter, record history, raise, done events | called by the interpreters; calls guards and assigns |
| `Interpreter` (`interpreter.py`) | status, current snapshot, processing flag, event queue, listeners, timer tables | start, send, stop, subscribe, unsubscribe; inside: drain, process, execute, notify, reconcile timers | threads, clock, actions, listeners, owning actor |
| `AsyncInterpreter` (`async_interpreter.py`) | the same plus futures, timer tasks and the owning task | the same, awaitable | the asyncio loop |
| Clocks (`scheduler.py`) | pending timeouts; a heap and an on-demand worker thread | set, clear, increment, run | call `Interpreter.send` |
| Actors (`actor.py`) | registry, lifecycle locks, children, invoked children, listeners, a backend per kind of logic | create, start, stop, send, spawn, reconcile invocations | each other, interpreters, futures, callbacks, observables |
| Snapshots (`snapshot.py`) | none | serialise, restore | the algorithm, `start(initial_state)` |
| Docking controller (`docs/examples/docking_controller.py`) | its lock, interpreter, pending cleanup, timeouts | start, tick, cancel, close, advance_time, timer callbacks | an interpreter, a clock, a drive |
| Guards, actions, contexts, SCXML, mermaid, schema, typed set-up, other examples | none at run time | translation of data | |

What makes each part correct:

- algorithm: the configuration is always a legal tree; transitions taken
  together do not compete; history can be restored; a state is entered only
  after it was exited; done events are raised once, when something completes; a
  macrostep ends if the machine has a limit.
- interpreter: one macrostep at a time; every accepted event is handled once and
  in order; no wakeup is lost; exceptions release the boundary; stop is final;
  listeners do not miss the current snapshot.
- timers: the tables agree with the configuration and the clock; a delay starts
  at entry and elapses; stop and cancel leave nothing behind.
- async interpreter: all of the interpreter's, and every awaiting sender is
  answered, whoever is cancelled.
- clocks: a timer that is set fires once unless cleared, and the worker exits
  only when there is none.
- actors: no deadlock between lifecycle locks; an invoked child lives exactly as
  long as its state; a completion is delivered once; a stopped parent leaves no
  child running.
- snapshots: restoring a serialised snapshot gives the same machine.
- docking controller: the drive is commanded only when it was begun and is
  stopped in the end; an active phase has one timeout, its own.

What is hard: the interpreter releases its lock around every call of user code,
and that code may call back or run next to other threads; a stop may fall
between any two lock blocks; an exception may leave a macrostep half done; a
macrostep combines history, parallel regions and competing transitions; timers
fire while their states are being left; a task is cancelled at any await, by
others or by its own macrostep; a child settles while it is started, stops its
parent while it is stopped, or raises in between; a checkpoint may be restored
at any point. `PROJECT.json` lists each hazard at its
line with the properties that watch it.

## Modules

| Module | Models |
|---|---|
| `Mailbox` | what an interpreter promises: a sequential machine with a mailbox |
| `Interpreter` | `interpreter.py`: threads, lock blocks, callbacks, exceptions |
| `InterpreterProofs` | theorems about `Interpreter` |
| `AsyncInterpreter` | `async_interpreter.py`: tasks, futures, timer tasks, cancellation |
| `AsyncProofs` | theorems about `AsyncInterpreter` |
| `Timers` | `_scheduled`, `_send_timers`, `stop` and the clock |
| `TimersProofs` | theorems about `Timers` |
| `Clock` | what a clock promises: callbacks once, in time, in order, unless cleared |
| `ThreadClock` | `ThreadClock` of `scheduler.py`: heap, condition, worker |
| `ThreadClockProofs` | theorems about `ThreadClock` |
| `ConfigParser` | `config_parser.py`: from the dict of a config to nodes and transitions |
| `Statechart` | `algorithm.py` with the loop of `machine.py` and the output rule of `state.py`; EXTENDS `ConfigParser` |
| `StatechartProofs` | theorems about `Statechart` and `Persistence` |
| `Persistence` | `snapshot.py` and a process that restarts from its checkpoint; EXTENDS `Statechart` |
| `Actors` | `actor.py`: a parent, invoked and spawned children, lifecycle locks |
| `ActorsProofs` | theorems about `Actors`: types, the calls of the threads, the locks |
| `ActorsTreeProofs` | theorems about `Actors`: which children run, completions; EXTENDS `ActorsProofs` |
| `Docking` | `docking_controller.py` with its chart: interpreter, clock and drive together |
| `DockingProofs` | theorems about `Docking` |
| `MCInterpreter`, `MCAsyncInterpreter`, `MCTimers`, `MCThreadClock`, `MCStatechart`, `MCPersistence`, `MCActors`, `MCDocking` | instances for TLC |

### Interpreter

Each `with self._lock` block of the source is one action, since the blocks
exclude one another; what runs between two blocks is an action of its own.
`pc[t]` says where a thread is: `idle` is the caller's own code, `drain` the
head of `_drain_event_queue`, `popped` and `transition` the two halves of
`_process`, `inspect`, `exec`, `call`, `action`, `notify`, `loop`, `deliver`
and `listener` the effects of a snapshot, `fail` the `except` clauses. A thread
in a callback (`transition`, `inspect`, `action`, `listener`) may call any
public method, as user code may. A timer is a thread that calls `send`.

An event is the number of its acceptance and `state` is the sequence of the
events folded into the snapshot, so that loss, repetition and reordering are
visible. The history variables `accepted`, `dropped`, `best` and `skipped`
only record.

`Mailbox` has no threads: events are accepted, taken one at a time, folded in or
given up; the machine rests with an empty inbox unless it was stopped; an
exception empties the inbox. `ImplementsMailbox` maps `queue` to its inbox,
the event between `DrainPop` and `Commit` to the event taken, and `processing`
to busy.

### AsyncInterpreter

All of it runs on one event loop, so a step is what a task does up to its next
suspension, cut where another actor could tell the difference: `running` is the
task that has the loop, and it goes on until it suspends in an awaitable action
(`await`), on the future of its own event (`answer`), in the `gather` of `stop`
(`gather`) or in the sleep of a timer (`sleep`). `pc` has the labels of
`Interpreter`. `Commit` is one step, because no other task runs between the
transition, the commit and the reconciliation of the timers. The tables hold
tasks; task objects are model values and are used again once no table, no
`gather` and no sleep refers to them.

`cancel[t]` records that somebody called `t.cancel()`: the application
(`Cancel`), `stop`, `_sync_delays` or a `cancel` action (`Cancelled`, which also
cancels the future the task awaits). `CancelArrives` is the `CancelledError` that
the task meets at its next suspension; a task may be asked to cancel itself,
which is what happens when an `after` event leaves the state of its own timer.
`Fail` is the `except` and `finally` clauses of `start`, `send` and
`_drain_event_queue`, which settle the futures of all queued callers.

### Timers

Macrosteps are serial (a theorem about `Interpreter`), so one program counter
`owner` stands for the thread that has the boundary. A macrostep is what it does
to timers: the new set of active `after` states, those it exited and entered
again (only when `Reentry`), and delayed sends and cancels. `SyncDelays` may
raise after setting some of its timers; a delay that is a callable and itself stops
the interpreter is left out (`interpreter.py:428`). The steps of `_execute_send` and
`_execute_cancel` that touch the clock and the table are separate and take no
lock; `stop` is as many steps as its iteration over `_send_timers`, which fails
when the size of the table has changed, as a Python dictionary does. The clock is
what the interpreter can see of one: set, clear, and a thread that takes a
timer and then calls `send`. It is weaker than `Clock`: there are no due times, so
timers ring in any order, and several may be on their way at once.

### ThreadClock

Every block under the condition is one action. `worker` says where the worker
thread is: `none` (the field `_worker` is `None`), `scan` (it has the head of the
heap to look at), `wait` (it sleeps, until `wake` or a notification), `call` (it
runs a callback, outside the lock). The heap is a set with the order `Before`
(due time, then number), of which only the head is ever read. A cleared timer
leaves the dictionary at once and the heap only when it is above the first
pending one. The due time is computed before the lock is taken, so a timer may
be due when it is set. Callbacks may set and clear timers, as any thread may:
these actions are enabled in every state of the worker. That the worker cannot be
started (`scheduler.py:109` raises when the process has no thread left) is left out.
`ImplementsClock` hides
the heap, the worker and its waits.

### ConfigParser

A config is a function from paths (sequences of keys) to records that have the
fields the dict of the state has. `Built` and `Resolved` are the two passes of
the parser over the tree, parents first and children first; one counter numbers
the nodes and then the transitions, and the algorithm breaks ties by these
numbers, so `Transitions` has them as the code makes them. `Relative` resolves
`#id`, `.key.key` and `key.key`; `Declared` lists the handlers of `on`,
`always`, `onDone`, `invoke` and `after` in the order the code adds them;
`Accepted` is when no `InvalidConfigError` is raised for what is modelled: values
of the wrong Python type, tags, actions and, in strict mode, names that are not
registered are refused as well. Two things are assumed of
the configs: keys contain no dot, and no two states have the same id.

### Statechart

The chart is data: it is the machine that `ConfigParser` makes of a config. The
tree is given by constants and the set of transitions is chosen at `Init` from a
family, so that one run covers all the configs of the family (`MCStatechart`
writes them as dicts; its assumption `TreeIsParsed`, which TLC evaluates, says
that the constants are the tree the parser makes of them). `TreeAssumption` and
`ChartsAssumption` say what the parser makes of any config: a tree whose nodes
come after their parents, and transitions numbered children first. One action is
one turn of `main_event_loop2` (`EventlessStep`, `InternalStep`, `Settle`) or
the head of `initial_event_loop` or `main_event_loop` (`Start`, `Receive`). The
operators carry the names of the functions they translate, and thread the set of
states entered so far as the code does, because the code's results depend on
that order: `InOrder` is a loop over a list, each member of which makes a new
set of the one before. The mutual recursion of `add_descendent_states_to_enter`
and `add_ancestor_states_to_enter` is one recursive function of the node,
`AddDescendants`, which `AddAncestors` is given. The elements of a recorded
history are visited in document order, where the code iterates over a set, and
the targets of a transition likewise, where the code takes them as they are
listed (`algorithm.py:104`): for states that can be active together the
resulting set is the same. Guards are nondeterministic, `in` guards are
evaluated; contexts, donedata and the actions left to the runtime are not part
of the model.

`MaxIterations` is a limit or `Unlimited`, the code's default `None`
(`Spent`, `algorithm.py:813`). An unlimited machine never raises
`InfiniteLoopError` and its macrostep may go on for ever, so `MacrostepEnds` asks for
a limit; the theorems hold with a limit and without. TLC runs
`statechart_macrosteps` with a limit, because without one its looping charts have
queues of every length, and `statechart_output`, whose chart does not loop, without.
With a limit of 0 no machine can start, in the model as in the code. The number of
microsteps is a local variable of the loop and starts at 0 in each.

### Persistence

`Serialize` is the state value with the recorded history, `Deserialize` finds
the nodes that the value names again; contexts are left out and donedata are
static. `Restart` may happen in every state: whatever was under way is lost, and
the machine goes on from the last snapshot it returned, as
`start(initial_state)` does. The root of a machine is in no value, so the code
does not restore it: what the root declares is then not active, against what
persistence.md promises of the active configuration, its timers and its
children. No property depends on that: `CheckpointRestores` is about the states
below the root, and `LegalConfiguration` asks for the root unless a restored
snapshot had lost it, so that both hold of a version that restores it too. The
nested functions of `snapshot.py` are recursive functions of the node: the value
is the part of it that each node has in it.

### Actors

A machine actor with the children its states invoke and those its application
spawns. A thread is a stack of calls: each call has a label, the lock it holds
(lifecycle locks are reentrant) and its locals, so that code which calls back up
the tree, and exceptions that unwind it, are what they are in the code. The flags
`_stopping`, `_syncing` and `_processing`, which a `finally` resets, are calls on
a stack. The parent's interpreter is the one of `Mailbox`: one thread drains, an
event commits some configuration. The registry of the system is read from the
children: `Registered(i)` are those under an id that are not stopped, and `Spawn` may
use any other id, that of a child which has been stopped and has still to be removed
from the parent's table (`Unlink`, by its id) included. `lost` records the children
that such a removal unlinked instead of the stopped one. An invoked child is never
lost, because it is stopped below a call that holds the parent's lock.

`Start`, `Stop`, `Spawn`, `Sync`, `Reconcile`, `LeaveInvocation`, `Resolve`,
`EnterInvocation`, `EndPass` are the machine's backend; `ChildStart`,
`ChildStarted`, `ChildNotify`, `ChildStop`, `ChildStopped`, `Unlink` the actor
around any other backend. `Resolves` and `Settles` are a promise or an
observable that has its result, in the start or later; `Emits` and `StaysActive`
the values before. A settled child may still be stopped, and a stopped one never
tells.

Assumed of the environment: ids of spawned children are not those of
invocations; the application starts and stops only the
children it spawned; `Raise` covers every exception but one that a cleanup itself
starts, and unwinds the stack in one step. Two differences from the code change no
property: an exception that comes up through the function of a promise or an
observable is caught there and settles the child (`actor.py:468`, `558`), where
`Raise` unwinds the callers too; and `sub` is set before the first reconciliation, where
`_invocation_sub` is assigned after it (`actor.py:776`) and stays `None` when it
raises. `SendsUnderChildLock` says
whether the code of a child that is being started or stopped may send to a parent
whose lock its thread does not have: this separates the run that shows what holds
from the run that shows the deadlock.

### Docking

The lock of the controller is held from the admission of an operation to its end,
so one operation is under way at a time (`op`, `pc`, `todo`): it may commit a
macrostep of the chart (`Enter`), which invalidates the old timeout and sets the
new one, and then runs its drive commands one by one, each of which may raise.
What runs beside it is a clock: `Dispatch` takes a timer out of a `ThreadClock`
(`leaving`), and `Deliver` is its callback when it gets the lock, by which time the
timer may have been invalidated. With a `SimulatedClock` the operation
`advance_time` fires timers itself (`AdvanceFires`). The drive is recorded by
`moving`.

## Runs

| Run | Question | Bounds | Distinct states |
|---|---|---|---|
| `interpreter_safety` | one owner, no lost event, run to completion, FIFO, no missed snapshot, stop is final, refinement of `Mailbox`, release of the boundary | 2 threads, 1 listener, 3 events, at most 1 action per snapshot | 206,963 |
| `async_safety` | one driver, futures answered once and when due, timer tasks within reach, callers answered, refinement of `Mailbox` | 2 application tasks, 2 tasks of `after` and 2 of delayed sends, 1 `after` state, 1 send id, 2 events, 1 action, 1 cancellation by the application | 168,486 |
| `timers_safety` | tables, configuration and clock agree; delays start at entry and elapse | 2 states, 1 send id, 3 timers, no re-entry | 1,055,799 |
| `timers_reentry`, `timers_stop_leak` | two statements of the documentation that the code does not keep | 1 state, 1 send id, 2 timers | |
| `threadclock` | no timer is forgotten by a worker that sleeps, leaves and is started again; timers settle; refinement of `Clock` | 4 timers, 4 instants | 420,962 |
| `statechart_macrosteps` | legality, conflict resolution, history under competition; done events, checkpoints and the end of long macrosteps | every pair of a transition of one region (from 4 states at 3 levels, external or internal) and one of the other region or of their parent, to 10 targets or a source; 65 configs that raise, complete and loop; up to 4 microsteps; a restart in any state | 80,359 |
| `statechart_output` | a statement of the documentation that the algorithm does not keep | one chart | |
| `actors_tree` | children follow the configuration, completions come once, no lock cycle | 2 threads, 2 invocations, 1 spawned id (used again), 1 event beside the completions, 3 children: spawns and entries into invoking states together | 1,834,577 |
| `actors_lock_order` | a comment that the code does not keep | the same with 1 invocation and 2 events, and children that send while they start or stop | |
| `actors_id_reuse` | a statement of the documentation that the code does not keep | 2 threads, 3 children, 1 invocation, 1 spawned id, 1 event | |
| `docking_drive` | protocol of the drive; timeouts of the phases | 7 operations, time 5, timeout 2 | 92,385 |

Why the bounds are enough. Two threads are an owner and one that races with
the release of the boundary, stops or subscribes (the theorems hold for any
number); three events are one in flight, one queued and one accepted later, the
least that can show a change of order; one action separates the status check from
the effects and the notification. In `async_safety` one task drives while the
other waits for its answer, stops or is cancelled, and a timer task may take the
place of either; two `after` tasks are the one that was cancelled and the one that
replaces it; two delayed sends under one id are one that is in the table and one
that was replaced there, which is the timer that fires after `stop`
(`FireStopped`). Two `after` states of `Timers` are one that is left and one that stays; three
timers are one that was set before, one set now and one leaked. Four timers of
the clock are one that is slept on, one that is set before it, one cleared
inside the heap and one set when the worker leaves; four instants let
two of them be due together and one be due when it is set. The tree of the
statechart runs has a parallel state with a shallow or deep history, a region with
a nested compound state, a history node and a final state, and a simple region:
every branch of the entry and exit algorithms is reached in it. Four microsteps
are two raised events with their consequences. All charts of the run have the deep
history in the parallel state and the shallow one in the region, and the same
entry and exit actions that raise: the constants are those of the tree. Three children are two
invocations, or one that replaces another, beside a spawned one, or two that are
spawned under one id; two threads are
enough for a cycle of a parent's and a child's lock, and one event beside the
completions of the children lets a configuration be left and entered again.
Tasks of the event loop that have ended and are in no table are alike, so the
next one made is a fixed one of them. Seven operations lead the docking
chart through all phases and begin a second run; two timeouts fit into the time.

Fairness. `Interpreter`: a thread inside the interpreter keeps running
(threads of the operating system), and a callable returns after finitely many
calls into the interpreter, hence strong fairness of `Progress`: such a call
disables the other steps for a moment without being progress. A callable that
never returns blocks the interpreter in the code as well. `AsyncInterpreter`: the
loop runs a task that is ready, what an action awaits comes to an end, and the
action that runs returns (strong fairness, for the same reason). `Timers`: the
clock rings its timers, the threads inside the interpreter and `stop` keep running
and are not shut out of the lock for ever. `ThreadClock`: time passes, the worker
is scheduled and callbacks return; nothing is assumed of those who set and clear.
`Statechart`: the loop runs by itself. `Docking`: drive commands return, the clock
calls what is due, and its worker gets the lock that others release again and
again (strong fairness of `Deliver`). `Actors` has no liveness property: what its
threads owe is said of the states in which every call has returned.

`CHECK_DEADLOCK FALSE` stands in the configurations of `Actors`,
`AsyncInterpreter` and `Docking` alone: their bounded environments may have
nothing left to ask for when everything is stopped or closed.

What the violation runs show, each with the line it contradicts in `findings`:

- `timers_reentry`: an `after` delay does not restart when a macrostep exits and
  re-enters its state, so a self-transition on `after` fires once only;
- `timers_stop_leak`: a delayed send may set its timer after `stop()` returned;
- `statechart_output`: an event after completion erases the machine's output;
- `actors_lock_order`: a child whose start or cleanup sends to its parent waits for
  the parent's lock with its own held, while the parent's `stop` holds the
  parent's and waits for the child's;
- `actors_id_reuse`: a child that is stopped and unregistered is unlinked from its
  parent's table only later and by its id, so a child that another thread spawns
  under that id in between loses its place and outlives its parent.

Also seen while modelling, and stated by no run:

- an action or a listener may begin after `stop()` has returned in another
  thread, since the status check and the call are not one step;
- the first call of a new listener is made outside the lock and may come after
  the notification of a newer snapshot (`NoMissedSnapshot` says that it does get
  the newer one);
- `stop()` may raise while it iterates over `_send_timers`, if a delayed send is
  recorded at that moment: the `after` timers are gone and the interpreter runs
  on (`StopIterated`);
- a second delayed send with an id puts the first out of reach of `cancel` and
  `stop`, in both interpreters (`Record`, `ExecuteDelayed`);
- when an asyncio `after` event leaves the state of its own timer, or a `cancel`
  names the delayed send that is being delivered, the macrostep cancels the task
  that runs it: the next action that awaits raises `CancelledError`;
- a transition from an atomic state to the deep history of an active ancestor
  that recorded that state enters the states in between again without exiting
  them: it exits as an atomic self-transition and enters as a history transition;
- more generally, a transition from inside a state to that state's own history,
  when what it restores lies in one region of a parallel state in between: the
  other regions of that state are active and get their initial children as well;
- the history of a parallel state that has neither a record nor a target enters
  the active root again, or, in another parallel state, the initial children of
  the siblings that are active; the comment at `algorithm.py:142` says that a
  history node is always a child of a compound state, which nothing asks for;
- targets that cannot be active together (two children of a compound state, or a
  state and its descendant) are all entered, and the configuration is not legal;
- an initial child that is a history node without a target makes the algorithm
  recurse for ever;
- a final state that is a child of a parallel state raises `done.state` of that
  state when it is entered, although the other regions are not final: `enter_states`
  raises the event of the parent whatever it is, and `is_in_final_state` says no;
- a parallel state that is a region of another parallel state: when the last
  region to complete is one of the inner state's, the inner `done.state` is raised
  and the outer one is not, because `enter_states` looks at the grandparent of a
  final state and no further; and, alike, a `raise` of a `done.state` event by an
  action cannot be told from completion (`WellFormedDone`, below, excludes these three);
- two states with one id silently replace one another in `_id_map`, and the
  delays `1000` and `"1000"` of a state make the same `after` event;
- the root is not in a configuration restored from a checkpoint
  (`Machine._get_configuration` takes it from the value, which does not name it), so
  what it declares (tags, meta, `after`, `invoke`) is not active there, although
  persistence.md:77 says that the active configuration is reconstructed, and :97 and
  :102 that its timers and invoked children are;
- a machine without `max_iterations`, which is the default, may stay in a macrostep
  for ever;
- a state that one macrostep exits and enters again keeps the child it invoked,
  and two active states whose invocations have one id share a child;
- the completion of a child that was replaced may be queued before it is stopped
  and is then delivered to the new entry of its state;
- a cleanup that raises leaves its child running and registered, so a later
  invocation under its id fails; a cleanup that stops the parent makes the pass
  under way fail with `KeyError`; a failing pass leaves the invocations that it
  entered before; a stop of the parent that such a cleanup cuts short leaves children
  it has stopped in `_invoked`, so that a second `start` does not invoke them again;
- `to_promise` of an actor that is stopped never resolves;
- `snapshot.invoke.<id>` events, which the documentation of actors and the parser
  name, are never sent.

Every property of a passing run has a mutant, an operator just before the
definition it changes, that breaks the property.

## Proofs

`InterpreterProofs` proves, for all sets `Thread` and `Listener` and all bounds,
from `BoundsAssumption` alone:

- `TypeCorrect`, `OneOwner`, `NoLostWakeup` and `MacrostepsAreSerial`:
  `TypeOK`, `SingleOwner`, `NoStrandedEvent` and `RunToCompletion` are
  invariants;
- `EventsOnceInOrder`: `FifoExactlyOnce` is an invariant;
- `ListenersAreCurrent`: `NoMissedSnapshot` is an invariant;
- `StopCorrect`: the action property `StopIsFinal`;
- `Refinement`: `Spec => Mbox!Spec`.

The core of all of them is the conjunction of the four first invariants. None is
inductive alone: a thread that commits preserves `RunToCompletion` of the others
only because it is the single owner; a thread that releases the boundary keeps
`SingleOwner` only because no other is inside; and no event is stranded when it
does so because the queue was seen empty in the same lock block. `OwnerStep`,
`QueueStep` and `SnapshotStep` prove one conjunct each, action by action, from the
invariant before the step; `StepCases` splits the next-state relation. The
refinement maps every step of a thread to one step of the mailbox or to none;
that a mailbox takes one event at a time is `SingleOwner` again.

`EventsOnceInOrder` splits `FifoExactlyOnce` (`FifoParts`): the events in the
snapshot, the one in flight, the queue and the discarded ones are those accepted
so far, and none is discarded and elsewhere (`Placed`); the snapshot, the event in
flight and the queue are increasing in this order (`Sorted`), so that no event is in
two of them. `FifoAccept`, `FifoTake`, `FifoFold`, `FifoGiveUp` and `FifoDiscard`
say that each way an event can move keeps both, and `FifoStep` maps every action
to one of them or to none; that at most one event is in flight is `SingleOwner`.
`Fresh` (nothing is accepted before the start) is what `start(initial_state)` needs,
which replaces the snapshot.

`ListenersAreCurrent` says at every step what `NoMissedSnapshot` says at rest: a
registered listener has the current snapshot, or is about to get it in its first
call (`Served`), or is one of those that the owner of the macrostep has still to
tell (`Telling`), unless the effects of the snapshot raised (`Told`). `Recent`, that
nobody was given more than there is, makes it inductive: a listener that registers
reads the current snapshot in the lock block that makes it a listener, and the owner
copies the set of listeners in another one.

`ThreadClockProofs` proves, for all bounds, from `ClockAssumption` alone:

- `ClockTypes` and `PendingTimersHaveWorker`: `TypeOK` and `NoTimerForgotten` are
  invariants;
- `ClockRefinement`: `Spec => Abstract!Spec`.

The inductive invariant is `TypeOK /\ NoTimerForgotten`. The three parts of
`NoTimerForgotten` need one another: the worker leaves only when no timer of the
heap is pending, which tells that none is pending because pending timers are in
the heap; and it falls asleep until the time of the earliest pending one for
the same reason. In the refinement, calling the head of the heap is calling the
earliest pending timer, again because all of them are in the heap.

`DockingProofs` proves, for all bounds and every timeout, from `DockingAssumption`
alone:

- `PhasesTimeOut`: `PhaseHasItsTimeout` is an invariant;
- `DriveInOrder` and `DriveIsStopped`: so are `DriveProtocol` and `DriveStopped`.

The first is inductive with the types and `OneLeaving` (the worker calls one timer at
a time): a callback that finds its timer cancelled takes nothing from the phase,
because the one timer that is not cancelled is another one, and that is still in the
clock. `EnterKeeps`, `FireKeeps` and `RestKeeps` are the three ways an action can
touch the timers. The other two follow from `DriveInv`: `CommandsLeft` ties the
commands of the macrostep that are still to come to the state the chart has
reached, `Driven` says that an active chart and a moving drive go together but for
the first and the last command, and `Marked` that a drive which may move is marked
for cleanup, so that closing it stops it.

`TimersProofs` proves, for all sets of states and send ids and any number of timers,
from `TimersAssumption` (in particular, states and send ids are different names):

- `TimerTypes`, `NoAfterTimerLost` and `TablesAgree`: `TypeOK`,
  `AfterTimersReachable` and `ReconciledWithConfiguration` are invariants;
- `DelaysCountFromEntry`: if no macrostep exits a state and enters it again
  (`~Reentry`), so is `DelayStartsOnEntry`; with re-entry it is false, which is what
  `timers_reentry` shows.

The inductive invariant adds two facts to the properties: between the halves of a
delayed send or of a cancel the thread has the number of a timer (`Kept`), and
`stop()` has emptied `_scheduled` before it goes on to `_send_timers`
(`StopSwept`). The second is why a delayed send that makes that iteration fail
does not lose an `after` timer. A reconciliation that raises in the middle is why
`DelaysCountFromEntry` needs `Younger`, which speaks of the states that the
reconciliation has not reached as well.

`AsyncProofs` proves, for any number of tasks and events, from `AsyncAssumption` alone:

- `TypeCorrect`, `OneOwner`: `TypeOK` and `SingleOwner` are invariants;
- `NoAfterTaskLost`, `PromisesAreKept`: so are `AfterTasksReachable` and `PromisesKept`;
- `Refinement`: `Spec => Mbox!Spec`, the mailbox that `Interpreter` implements too.

`SingleOwner` is inductive with `TypeOK` and `Quiet` (a stopped object has no queue and
no task between the pop of an event and its transition, so `stop()` takes the
boundary from nobody in there). `Footprint` says what one step may touch: its own
locals, and of other tasks only their cancellation and their making; that the others
stay where they are (`OthersStay`) is then said once for all actions. `PromisesKept`
needs to know which events there are: they are numbered as they are accepted
(`Numbered`), none is queued twice or queued and popped (`Once`), and a future is
pending only while its event is queued or popped, and has a result only after its
event was folded in and left, or after a stop (`Answers`). `DataAccept`, `DataTake`,
`DataFold`, `DataAnswer`, `DataDiscard` and `DataStart` are the ways an event can
move. That an event popped is in the snapshot before its actions run (`Taken`) is
what lets the end of `send` read its own future. `Rescheduled` is what `_sync_delays` makes
true whether it ends or is cut short; `AfterTasksReachable` follows from it.

`ActorsProofs` and `ActorsTreeProofs` prove, for any number of threads, children,
ids and events, from `ActorsAssumption` (finitely many children and invocations; the
ids of these are not those of spawned children):

- `ActorTypes`: `TypeOK` is an invariant;
- `LocksExclude`: no two threads hold one lock. The model's locks are read from the
  stacks of calls, so this is a theorem and not an assumption;
- `NoDeadlyEmbrace`: without `SendsUnderChildLock`, `NoLockCycle` is an invariant;
  with it, it is false, which is what `actors_lock_order` shows;
- `ParentStopsTree`, `InvocationsFollow`, `CompletionsOnce`: so are `StoppedTree`,
  `InvocationsFollowConfiguration` and `CompletionsDelivered`.

Everything rests on what the stacks look like (`Frames`): which calls can be made
from which, with which lock, and that an invoked child is started and stopped only
below a call that holds the parent's lock (`InvokedUnderParent`). `FramesMove` says
once what the new calls of a step have to satisfy, and `GoesOn`,
`GoesOnAndCalls` and the like are the few shapes that all actions have. With
`Exclusive` it gives the order of the locks (`LockOrder`): parent before child, but
for a child that notifies nobody. `StoppedTree` needs that each child that is up is in
the tables (`UpInTable`, `UpInvoked`) or before the `stop()` under way (`UpInStop`), and that
a child is cleaned up once and unlinked after that (`CleanedOnce`, `Unlinked`). An
unlinking removes the entry of another child only if that has a spawned id, and
then records it as lost: the entry of an invocation is that child's or none while it
is being stopped (`Entries`), as no other can be made under the parent's lock. A child
is up, down or lost (`Out`), which is what `StoppedTree` comes down to.
`InvocationsFollow` says at every step what the property says at rest: a
configuration that differs from the table is about to be reconciled (`Due`).
`CompletionsOnce` likewise: a completion that was told has arrived, or a thread
carries it (`Carries`), or the parent stopped (`ToldOnce`, `ToldAtLeast`).

`StatechartProofs` proves, for any tree and any sets of transitions, from
`TreeAssumption`, `ChartsAssumption` and `IterationsAssumption`:

- `ConflictsAreResolved`: `ConflictsResolved` is an invariant, on every chart;
- `TypeCorrect`, `ConfigurationsAreLegal`, `HistoryIsRestorable`,
  `StatesEnteredOnce`: on well-formed charts so are `TypeOK`, `LegalConfiguration`,
  `HistoryRestorable` and `EnteredOnce`;
- `CheckpointsRestore`: so is `CheckpointRestores`;
- `CompletionIsRaisedOnce`: so is `DoneOnceCompleted`, where done events mean
  completion (`WellFormedDone`).

They are proved of `PSpec`, the machine that may restart from its last checkpoint in
every state, and all that do not speak of checkpoints or done events of `Spec`, the
machine without restarts, as well. `LegalInv` says that the configuration is complete
with its root (`Complete`), and `RootActive` that the root is in it unless it was not in
the last snapshot: a microstep never leaves the root but to enter it again.

`ConflictsResolved` speaks of one state, so it needs no induction over steps, but one
over the transitions that `remove_conflicting_transitions` folds: when a
transition comes, those it conflicts with that were kept come from states that it is
never below, because transitions are numbered children first; so the branch of the
code that removes a transition kept before is never taken (`FilteredResolves`), and
what is dropped was dropped for a rival that stays.

Well-formed (`WellFormedTree`, `WellFormedCharts`) is what legality needs and the
parser does not ask for: a state with children is not atomic, a parallel state has a
region, an initial child is not a history node, the default targets of a history
node lie below its parent, and there are some when that is parallel; targets listed
together can be active together (`Orthogonal`); and a history node is not taken
from inside its parent, unless it stands for several regions of a parallel one.
Each of the last three excludes charts whose configurations are not legal (above).
`WellFormedDone` adds what makes a done event say that something completed: final
states are children of compound states, no parallel state is a region of another,
and no action raises a `done.state` event. Each excludes charts for which
`DoneOnceCompleted` is false (above).
All charts of `statechart_macrosteps` are well-formed in each of these ways, which
TLC evaluates (`ChartsAreWellFormed`): history taken from outside, in competition with
other transitions, and from inside a region are among them.

`LegalInv` says that the configuration is one of the full trees of the root, that
each history node remembers what such a tree had below its parent (`Remembers`),
and that the last snapshot has both, because `Exceeded` goes back to it. That a
microstep keeps it takes four facts:

- what is entered for one target is a branch of a full tree, whatever was entered
  before beside it (`Build`, `Landings`, `DownLands`), restored states included
  (`MemoryIs`, `RememberedSensible`); orthogonal targets give branches of one full
  tree (`SkeletonIs`);
- the walk up from a target adds the regions that nothing has entered and no
  others: what was entered grows along the path, complete below each of its nodes
  (`PieceBuilt`, by induction on the nodes of the path), so that all targets together
  make a complete piece below the domain (`TargetsEntered`, `TransitionEnters`);
- the domain of a transition does not depend on what its history nodes remember
  (`DomainIs`), so that the exit set, computed before history is recorded, and the
  entry set, computed after, fit (`ExitIs`, `EntrySetIs`);
- transitions that are no rivals work in zones apart, each below a domain that
  stays active (`Zone`, `Apart`, `NoRivalsApart`), so their pieces do not meet.

A checkpoint restores its snapshot because the value of a complete tree has a part for
each active node that names what is active below it (`PartsAre`), and `NamedIs`
finds from these parts the nodes of the tree and no others, root excepted
(`ValueRestores`); whether a state is complete does not depend on the root
(`FinalWithoutRoot`). `RestartLegal` then keeps `LegalInv`.

`DoneOnceCompleted` speaks of the whole list of events that a microstep raises, exit
actions and transitions included (`MicrostepDone`). Of the entered final states one
completes a given state, looked at with the configuration as it is when each is added,
or none does (`OneCompletes`): a compound state has one active child (`OnlyChild`), so a
final one is either kept or entered; of a parallel state it is the final state of its
regions that is added last (`HasLast`), and those before it find a region that is
not complete yet. A fold over states of which one raises an event, and once, has the
event once (`RaisedIs`).

Every invariant used in an induction was checked by TLC on the instance of the
corresponding run before it was proved.

Only model-checked: liveness (`BoundaryReleased`, `DelayElapses`, `TimersSettle`,
`CallersAnswered`, `PhaseEnds`, `MacrostepEnds`), since fairness and ENABLED are out
of the prover's reach. That the tree given as constants is the one the parser makes
of the configs (`TreeIsParsed`) is evaluated by TLC for the instance.

## Not modelled

SCXML and mermaid translation, JSON schema, typed set-up, action builders, calling
conventions of handlers: they transform data and keep no state. Contexts and
assigns: user code over user data, applied in the order of the actions, which is
modelled. `to_promise`, and the conversion of a callback's or observable's
functions to the protocol of a backend. `SimulatedClock` apart from the
controller that uses it: a sequential queue. The other examples and the
inspector: pure I/O.

## Plan

Next, in this order:

1. `Actors`: a tree of three levels, with a machine for a child, so that a
   reconciliation can stop one; `to_promise`.
2. Contexts in `Statechart` and `Persistence`, as the sequence of assigns applied.
