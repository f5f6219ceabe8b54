--------------------------- MODULE DockingProofs ---------------------------
(***************************************************************************)
(* Docking: the protocol of the drive and the timeouts of its phases, for  *)
(* every number of calls, every time and every timeout.                    *)
(***************************************************************************)
EXTENDS Docking, TLAPS

Phases == {"ready", "completed", "failed", "cancelled"} \cup Active
Commands == {"stage", "scan", "dock"}

\* What the invariants need to know of the types.
Types ==
    /\ now \in Nat /\ target \in Nat /\ service \in Nat /\ calls \in Nat
    /\ due \in Seq(Nat) /\ setIn \in Seq(Nat \X Phases) /\ Len(setIn) = Len(due)
    /\ under \subseteq 1..Len(due) /\ leaving \subseteq 1..Len(due)
    /\ timeouts \subseteq 1..Len(due)
    /\ phase \in Phases
    /\ running \in BOOLEAN /\ cleanup \in BOOLEAN
    /\ moving \in BOOLEAN /\ raised \in BOOLEAN

\* The worker calls one timer at a time.
OneLeaving == \A j, k \in leaving : j = k

TimerInv == Types /\ OneLeaving /\ PhaseHasItsTimeout

\* The commands left are those of one macrostep, in a chart that is where the
\* macrostep has led it.
Begins == pc = "act" /\ todo = <<"begin">>
Halts == pc = "act" /\ (todo = <<"halt">> \/ \E c \in Commands : todo = <<c, "halt">>)

CommandsLeft ==
    pc = "act" =>
        \/ todo = <<>>
        \/ Begins /\ Operating /\ ~moving
        \/ todo = <<"halt">> /\ ~Operating
        \/ \E c \in Commands : todo = <<c>> /\ Operating /\ moving
        \/ \E c \in Commands : todo = <<c, "halt">> /\ running /\ moving /\ ~Operating

\* The drive moves under an active chart, from the call of begin until it is
\* stopped, unless a command has raised.
Driven ==
    /\ Operating => moving \/ Begins
    /\ moving => Operating \/ raised \/ Halts

Marked ==
    /\ moving => cleanup
    /\ pc = "open" => ~moving
    /\ service = 0 => ~running /\ ~moving
    /\ op = "none" <=> pc = "idle"
    /\ pc = "idle" => todo = <<>>

DriveInv == CommandsLeft /\ Driven /\ Marked

-----------------------------------------------------------------------------
(* Sequences of one and two commands *)

LEMMA Tuples ==
    ASSUME NEW a, NEW b
    PROVE  /\ Head(<<a>>) = a /\ Tail(<<a>>) = <<>> /\ <<a>> # <<>>
           /\ Head(<<a, b>>) = a /\ Tail(<<a, b>>) = <<b>> /\ <<a, b>> # <<>>
<1>1. /\ Head(<<a>>) = a /\ Tail(<<a>>) = <<>> /\ <<a>> # <<>>
      /\ Head(<<a, b>>) = a /\ <<a, b>> # <<>>
  OBVIOUS
<1>2. Tail(<<a, b>>) = <<b>>
  OBVIOUS
<1> QED BY <1>1, <1>2

LEMMA NewEntry ==
    ASSUME NEW S, NEW s \in Seq(S), NEW x \in S
    PROVE  /\ Append(s, x) \in Seq(S) /\ Len(Append(s, x)) = Len(s) + 1
           /\ Append(s, x)[Len(s) + 1] = x
           /\ \A i \in 1..Len(s) : Append(s, x)[i] = s[i]
OBVIOUS

-----------------------------------------------------------------------------
(* Timeouts *)

LEMMA TimerInit == Init => TimerInv
<1> SUFFICES ASSUME Init PROVE TimerInv
  OBVIOUS
<1>1. <<>> \in Seq(Nat) /\ <<>> \in Seq(Nat \X Phases) /\ Len(<<>>) = 0
  OBVIOUS
<1>2. Types
  BY <1>1 DEF Init, Types, Phases
<1> QED BY <1>2 DEF Init, TimerInv, OneLeaving, PhaseHasItsTimeout, Operating

\* A chart that enters a phase has its timeout, and no other one is left.
LEMMA EnterPhase ==
    ASSUME Types, NEW s \in Nat, NEW p \in Phases, NEW fired \in SUBSET (1..Len(due)),
           now' \in Nat, Enter(s, p, fired)
    PROVE  /\ due' \in Seq(Nat) /\ setIn' \in Seq(Nat \X Phases) /\ Len(setIn') = Len(due')
           /\ Len(due) <= Len(due')
           /\ under' \subseteq 1..Len(due') /\ timeouts' \subseteq 1..Len(due')
           /\ service' = s /\ phase' = p
           /\ IF p \in Active
              THEN \E k \in under' : timeouts' = {k} /\ setIn'[k] = <<s, p>>
              ELSE timeouts' = {}
<1>1. CASE p \in Active
  <2> DEFINE k == Len(due) + 1
  <2>1. /\ due' = Append(due, now' + PhaseTimeout) /\ setIn' = Append(setIn, <<s, p>>)
        /\ under' = (under \ (timeouts \cup fired)) \cup {k}
        /\ timeouts' = (timeouts \ (timeouts \cup fired)) \cup {k}
        /\ service' = s /\ phase' = p
    BY <1>1 DEF Enter, Cancelled
  <2>2. now' + PhaseTimeout \in Nat /\ Len(due) \in Nat
    <3>1. now' + PhaseTimeout \in Nat
      <4>1. PhaseTimeout \in Nat
        BY DockingAssumption
      <4>2. \A x, y \in Nat : x + y \in Nat
        OBVIOUS
      <4>3. now' \in Nat
        OBVIOUS
      <4> QED BY <4>1, <4>2, <4>3, Zenon
    <3>2. Len(due) \in Nat
      BY DEF Types
    <3> QED BY <3>1, <3>2
  <2>4. <<s, p>> \in Nat \X Phases
    OBVIOUS
  <2>3. /\ due' \in Seq(Nat) /\ Len(due') = k
        /\ setIn' \in Seq(Nat \X Phases) /\ Len(setIn') = k /\ setIn'[k] = <<s, p>>
    BY <2>1, <2>2, <2>4, NewEntry DEF Types
  <2>5. under' \subseteq 1..k /\ timeouts' = {k} /\ k \in under' /\ Len(due) <= k
    <3>1. Len(due) <= k /\ 1..Len(due) \subseteq 1..k /\ k \in 1..k
      BY <2>2
    <3>2. under \subseteq 1..Len(due)
      BY DEF Types
    <3> QED BY <2>1, <3>1, <3>2
  <2>6. timeouts' \subseteq 1..k
    BY <2>2, <2>5
  <2> QED BY <1>1, <2>1, <2>3, <2>5, <2>6
<1>2. CASE p \notin Active
  BY <1>2 DEF Enter, Cancelled, Types
<1> QED BY <1>1, <1>2

\* So a step that enters a phase keeps the invariant.
LEMMA EnterKeeps ==
    ASSUME TimerInv, NEW s \in Nat, NEW p \in Phases, NEW fired \in SUBSET (1..Len(due)),
           Enter(s, p, fired), p \in Active => running',
           now' \in Nat, target' \in Nat, calls' \in Nat, leaving' \subseteq leaving,
           running' \in BOOLEAN, cleanup' \in BOOLEAN, moving' \in BOOLEAN, raised' \in BOOLEAN
    PROVE  TimerInv'
<1>1. /\ due' \in Seq(Nat) /\ setIn' \in Seq(Nat \X Phases) /\ Len(setIn') = Len(due')
      /\ Len(due) <= Len(due')
      /\ under' \subseteq 1..Len(due') /\ timeouts' \subseteq 1..Len(due')
      /\ service' = s /\ phase' = p
      /\ IF p \in Active
         THEN \E k \in under' : timeouts' = {k} /\ setIn'[k] = <<s, p>>
         ELSE timeouts' = {}
  BY EnterPhase DEF TimerInv
<1>2. leaving' \subseteq 1..Len(due')
  <2>1. leaving \subseteq 1..Len(due) /\ Len(due) \in Nat /\ Len(due') \in Nat
    BY <1>1 DEF TimerInv, Types
  <2> QED BY <1>1, <2>1
<1>3. Types'
  BY <1>1, <1>2 DEF Types
<1>4. PhaseHasItsTimeout'
  BY <1>1 DEF PhaseHasItsTimeout, Operating
<1> QED BY <1>3, <1>4 DEF TimerInv, OneLeaving

\* The callback of a timer that the clock has called: `fired` is no longer in
\* the clock or waiting.
LEMMA FireKeeps ==
    ASSUME TimerInv, NEW k \in under \cup leaving, Fire(k),
           leaving' \subseteq leaving, \A j \in leaving : j = k \/ j \in leaving',
           now' \in Nat, target' \in Nat, calls' \in Nat, UNCHANGED <<running, drive>>
    PROVE  TimerInv'
<1>1. k \in 1..Len(due) /\ service \in Nat
  BY DEF TimerInv, Types
<1>2. CASE k \in timeouts /\ Operating /\ setIn[k] = <<service, phase>>
  <2>1. Enter(service, "failed", {k})
    BY <1>2 DEF Fire
  <2> QED BY <1>1, <2>1, EnterKeeps DEF TimerInv, Types, drive, Phases, Active
<1>3. CASE ~(k \in timeouts /\ Operating /\ setIn[k] = <<service, phase>>)
  <2>1. /\ timeouts' = timeouts \ {k} /\ under' = under \ {k}
        /\ UNCHANGED <<service, phase, due, setIn>>
    BY <1>3 DEF Fire
  <2>2. Operating => k \notin timeouts
    BY <1>3 DEF TimerInv, PhaseHasItsTimeout
  <2>3. PhaseHasItsTimeout'
    BY <2>1, <2>2 DEF TimerInv, PhaseHasItsTimeout, Operating
  <2> QED BY <2>1, <2>3 DEF TimerInv, Types, OneLeaving, drive
<1> QED BY <1>2, <1>3

\* What touches neither the chart nor its timers.
LEMMA RestKeeps ==
    ASSUME TimerInv, UNCHANGED <<under, leaving, timeouts, due, setIn, running, phase, service>>,
           now' \in Nat, target' \in Nat, calls' \in Nat,
           cleanup' \in BOOLEAN, moving' \in BOOLEAN, raised' \in BOOLEAN
    PROVE  TimerInv'
BY DEF TimerInv, Types, OneLeaving, PhaseHasItsTimeout, Operating

LEMMA TimerStep == TimerInv /\ [Next]_vars => TimerInv'
<1> SUFFICES ASSUME TimerInv, [Next]_vars PROVE TimerInv'
  OBVIOUS
<1> USE DEF clocks, machine, admitted, drive
<1>0. /\ now \in Nat /\ target \in Nat /\ service \in Nat /\ calls \in Nat /\ calls + 1 \in Nat
      /\ running \in BOOLEAN /\ cleanup \in BOOLEAN /\ moving \in BOOLEAN /\ raised \in BOOLEAN
      /\ phase \in Phases /\ {} \in SUBSET (1..Len(due))
  BY DEF TimerInv, Types
<1>1. CASE CallStart \/ CallClose
  BY <1>0, <1>1, RestKeeps DEF CallStart, CallClose, Admit
<1>2. CASE CallAdvance
  <2>1. target' \in Nat
    BY <1>0, <1>2, DockingAssumption DEF CallAdvance
  <2> QED BY <1>0, <1>2, <2>1, RestKeeps DEF CallAdvance, Admit
<1>3. CASE CallTick
  <2>1. /\ Operating /\ calls' = calls + 1 /\ UNCHANGED <<now, leaving, running, target, drive>>
    BY <1>3 DEF CallTick, Admit
  <2>2. CASE Enter(service, "failed", {})
    BY <1>0, <2>1, <2>2, EnterKeeps DEF Phases, Active
  <2>3. CASE Enter(service, Following[phase], {})
    <3>1. Following[phase] \in Phases
      BY <2>1 DEF Operating, Following, Active, Phases
    <3> QED BY <1>0, <2>1, <2>3, <3>1, EnterKeeps DEF Operating
  <2>4. CASE Stay
    BY <1>0, <2>1, <2>4, RestKeeps DEF Stay
  <2> QED BY <1>3, <2>2, <2>3, <2>4 DEF CallTick
<1>4. CASE CallCancel
  <2>1. calls' = calls + 1 /\ UNCHANGED <<now, leaving, running, target, drive>>
    BY <1>4 DEF CallCancel, Admit
  <2>2. CASE Enter(service, "cancelled", {})
    BY <1>0, <2>1, <2>2, EnterKeeps DEF Phases, Active
  <2>3. CASE Stay
    BY <1>0, <2>1, <2>3, RestKeeps DEF Stay
  <2> QED BY <1>4, <2>2, <2>3 DEF CallCancel
<1>5. CASE Open
  <2>1. /\ Enter(service + 1, "staging", {}) /\ running' = TRUE /\ raised' = FALSE
        /\ UNCHANGED <<now, leaving, target, cleanup, moving, calls>>
    BY <1>5 DEF Open
  <2>2. service + 1 \in Nat /\ "staging" \in Phases
    BY <1>0 DEF Phases, Active
  <2> QED BY <1>0, <2>1, <2>2, EnterKeeps
<1>6. CASE Close
  <2>1. cleanup' \in BOOLEAN /\ moving' \in BOOLEAN /\ raised' \in BOOLEAN
    BY <1>0, <1>6 DEF Close, StopDrive
  <2>2. target' \in Nat
    BY <1>0, <1>6 DEF Close, Release
  <2> QED BY <1>0, <1>6, <2>1, <2>2
        DEF Close, Cancelled, TimerInv, Types, OneLeaving, PhaseHasItsTimeout, Operating
<1>7. CASE Act
  <2>1. cleanup' \in BOOLEAN /\ moving' \in BOOLEAN /\ raised' \in BOOLEAN
    BY <1>0, <1>7 DEF Act, StopDrive
  <2>2. target' \in Nat
    BY <1>0, <1>7 DEF Act, Release
  <2> QED BY <1>0, <1>7, <2>1, <2>2, RestKeeps DEF Act
<1>8. CASE Return
  <2>1. target' \in Nat
    BY <1>0, <1>8 DEF Return, Release
  <2> QED BY <1>0, <1>8, <2>1, RestKeeps DEF Return
<1>9. CASE Dispatch
  BY <1>9 DEF Dispatch, TimerInv, Types, OneLeaving, PhaseHasItsTimeout, Operating
<1>10. CASE Deliver
  <2>1. PICK k \in leaving : leaving' = {} /\ Fire(k)
    BY <1>10 DEF Deliver
  <2>2. \A j \in leaving : j = k
    BY <2>1 DEF TimerInv, OneLeaving
  <2> QED BY <1>0, <1>10, <2>1, <2>2, FireKeeps DEF Deliver
<1>11. CASE AdvanceFires
  <2>1. PICK k \in Late : now' = due[k] /\ Fire(k)
    BY <1>11 DEF AdvanceFires
  <2>2. k \in under /\ now' \in Nat
    BY <2>1 DEF Late, TimerInv, Types
  <2> QED BY <1>0, <1>11, <2>1, <2>2, FireKeeps DEF AdvanceFires
<1>12. CASE AdvanceEnds
  BY <1>0, <1>12, RestKeeps DEF AdvanceEnds, Release
<1>13. CASE UNCHANGED vars
  BY <1>0, <1>13, RestKeeps DEF vars
<1> QED BY <1>1, <1>2, <1>3, <1>4, <1>5, <1>6, <1>7, <1>8, <1>9, <1>10, <1>11, <1>12, <1>13
      DEF Next, Calls, Steps

\* An active phase has one timeout, its own, which the clock has or is
\* delivering; a chart that has ended or was stopped has none: the
\* invalidation of pending timers in _close_current and in the reconciliation
\* reaches a timer that has left the clock.
THEOREM PhasesTimeOut == Spec => []PhaseHasItsTimeout
<1>1. TimerInv => PhaseHasItsTimeout
  BY DEF TimerInv
<1> QED BY TimerInit, TimerStep, <1>1, PTL DEF Spec

-----------------------------------------------------------------------------
(* The drive *)

LEMMA DriveInit == Init => DriveInv
BY DEF Init, DriveInv, CommandsLeft, Driven, Marked, Begins, Halts, Operating, Active

\* The last command of a macrostep, or an operation that ends.
LEMMA ReleaseKeeps ==
    ASSUME DriveInv, Release, running' \in BOOLEAN,
           moving' => cleanup', service' = 0 => ~running' /\ ~moving',
           Operating' => moving', moving' => Operating' \/ raised'
    PROVE  DriveInv'
BY DEF DriveInv, CommandsLeft, Driven, Marked, Begins, Halts, Release

LEMMA DriveStep == TimerInv /\ DriveInv /\ [Next]_vars => DriveInv'
<1> SUFFICES ASSUME TimerInv, DriveInv, [Next]_vars PROVE DriveInv'
  OBVIOUS
<1> USE DEF clocks, machine, admitted, drive
<1>0. /\ service \in Nat /\ running \in BOOLEAN /\ cleanup \in BOOLEAN
      /\ moving \in BOOLEAN /\ raised \in BOOLEAN /\ phase \in Phases
  BY DEF TimerInv, Types
<1>1. CASE CallStart
  BY <1>0, <1>1 DEF CallStart, Admit, DriveInv, CommandsLeft, Driven, Marked, Begins, Halts, Operating
<1>2. CASE CallClose
  BY <1>0, <1>2 DEF CallClose, Admit, DriveInv, CommandsLeft, Driven, Marked, Begins, Halts, Operating
<1>3. CASE CallAdvance
  BY <1>0, <1>3 DEF CallAdvance, Admit, DriveInv, CommandsLeft, Driven, Marked, Begins, Halts, Operating
<1>4. CASE CallTick
  <2>1. /\ Operating /\ pc = "idle" /\ pc' = "act" /\ op' = "tick" /\ moving
        /\ UNCHANGED <<running, drive>>
    BY <1>4 DEF CallTick, Admit, DriveInv, Driven, Marked, Begins
  <2>2. CASE Enter(service, "failed", {}) /\ todo' = <<"halt">>
    BY <1>0, <2>1, <2>2, Tuples
       DEF Enter, DriveInv, CommandsLeft, Driven, Marked, Begins, Halts, Operating, Active
  <2>3. CASE Enter(service, Following[phase], {}) /\ phase = "docking" /\ todo' = <<"dock", "halt">>
    <3>1. phase' = "completed" /\ service' = service
      BY <2>3 DEF Enter, Following, Active
    <3>2. ~Operating' /\ running' /\ moving' /\ Halts'
      BY <2>1, <2>3, <3>1 DEF Operating, Active, Halts, Commands
    <3> QED BY <1>0, <2>1, <2>3, <3>1, <3>2
            DEF DriveInv, CommandsLeft, Driven, Marked, Halts
  <2>4. CASE /\ (Enter(service, Following[phase], {}) /\ phase # "docking") \/ Stay
             /\ todo' = <<Command[phase]>>
    <3>1. phase' \in Active /\ service' = service
      BY <2>1, <2>4 DEF Enter, Stay, Operating, Following, Active
    <3>2. Operating' /\ moving'
      BY <2>1, <3>1 DEF Operating
    <3>3. Command[phase] \in Commands
      BY <2>1 DEF Operating, Active, Command, Commands
    <3> QED BY <1>0, <2>1, <2>4, <3>1, <3>2, <3>3
            DEF DriveInv, CommandsLeft, Driven, Marked
  <2> QED BY <1>4, <2>1, <2>2, <2>3, <2>4 DEF CallTick
<1>5. CASE CallCancel
  <2>1. /\ pc = "idle" /\ pc' = "act" /\ op' = "cancel" /\ UNCHANGED <<running, drive>>
    BY <1>5 DEF CallCancel, Admit, DriveInv, Marked
  <2>2. CASE Operating /\ Enter(service, "cancelled", {}) /\ todo' = <<"halt">>
    <3>1. service' = service /\ ~Operating' /\ Halts'
      BY <2>1, <2>2 DEF Enter, Operating, Active, Halts
    <3> QED BY <1>0, <2>1, <2>2, <3>1 DEF DriveInv, CommandsLeft, Driven, Marked
  <2>3. CASE ~Operating /\ Stay /\ todo' = <<>>
    BY <1>0, <2>1, <2>3
       DEF Stay, Operating, DriveInv, CommandsLeft, Driven, Marked, Begins, Halts
  <2> QED BY <1>5, <2>1, <2>2, <2>3 DEF CallCancel
<1>6. CASE Open
  <2>1. /\ service' = service + 1 /\ Operating' /\ ~moving' /\ Begins'
        /\ pc' = "act" /\ todo' = <<"begin">> /\ op' = op /\ op # "none"
    BY <1>6 DEF Open, Enter, Operating, Active, Begins, DriveInv, Marked
  <2> QED BY <1>0, <2>1 DEF DriveInv, CommandsLeft, Driven, Marked
<1>7. CASE Close
  <2>1. PICK ok \in BOOLEAN :
           /\ IF cleanup THEN StopDrive(ok) ELSE ok /\ UNCHANGED drive
           /\ IF ok /\ op = "start" /\ pc = "close"
              THEN pc' = "open" /\ UNCHANGED <<op, target, todo>>
              ELSE Release
    BY <1>7 DEF Close
  <2>2. /\ moving' => cleanup' /\ raised'
        /\ ok => ~moving'
    BY <1>0, <2>1 DEF StopDrive, DriveInv, Marked
  <2>3. /\ running' = FALSE /\ UNCHANGED <<service, phase>> /\ pc \in {"close", "abort"}
        /\ service' = 0 => ~moving'
    BY <1>0, <1>7, <2>1 DEF Close, StopDrive, DriveInv, Marked
  <2>4. CASE ok /\ op = "start" /\ pc = "close"
    BY <1>0, <2>1, <2>2, <2>3, <2>4
       DEF Operating, DriveInv, CommandsLeft, Driven, Marked
  <2>5. CASE Release
    BY <2>2, <2>3, <2>5, ReleaseKeeps DEF Operating
  <2> QED BY <2>1, <2>4, <2>5
<1>8. CASE Act
  <2>1. /\ pc = "act" /\ todo # <<>> /\ op # "none"
        /\ UNCHANGED <<service, running, phase>> /\ Operating' = Operating
    BY <1>8 DEF Act, DriveInv, Marked, Operating
  <2>2. PICK ok \in BOOLEAN :
          /\ CASE Head(todo) = "begin" -> cleanup' = TRUE /\ moving' = TRUE
                                          /\ raised' = (raised \/ ~ok)
               [] Head(todo) = "halt" /\ cleanup -> StopDrive(ok)
               [] Head(todo) = "halt" /\ ~cleanup -> ok /\ UNCHANGED drive
               [] OTHER -> raised' = (raised \/ ~ok) /\ UNCHANGED <<cleanup, moving>>
          /\ IF ok THEN todo' = Tail(todo) /\ UNCHANGED <<op, target, pc>>
             ELSE IF op = "start"
             THEN pc' = "abort" /\ todo' = <<>> /\ UNCHANGED <<op, target>>
             ELSE Release
    BY <1>8 DEF Act
  \* The drive after the command.
  <2>3. /\ moving' => cleanup'
        /\ ~ok \/ raised => raised'
        /\ service' = 0 => ~running' /\ ~moving'
    <3>1. service = 0 => Head(todo) # "begin"
      BY <1>0, <2>1, Tuples DEF DriveInv, CommandsLeft, Marked, Begins, Operating, Commands
    <3> QED BY <1>0, <2>1, <2>2, <3>1 DEF StopDrive, DriveInv, Marked
  <2>4. Operating => moving'
    BY <1>0, <2>1, <2>2, Tuples DEF DriveInv, CommandsLeft, Driven, Begins, Commands
  \* It raises.
  <2>5. CASE ~ok
    <3>1. CASE pc' = "abort" /\ todo' = <<>> /\ UNCHANGED <<op, target>>
      BY <1>0, <2>1, <2>3, <2>4, <2>5, <3>1 DEF DriveInv, CommandsLeft, Driven, Marked
    <3>2. CASE Release
      BY <1>0, <2>1, <2>3, <2>4, <2>5, <3>2, ReleaseKeeps
    <3> QED BY <2>2, <2>5, <3>1, <3>2
  \* It returns.
  <2>6. CASE ok
    <3>1. todo' = Tail(todo) /\ UNCHANGED <<op, target, pc>>
      BY <2>2, <2>6
    <3>2. CASE todo = <<"begin">> /\ Operating
      BY <1>0, <2>1, <2>3, <2>4, <3>1, <3>2, Tuples
         DEF DriveInv, CommandsLeft, Driven, Marked
    <3>3. CASE todo = <<"halt">> /\ ~Operating
      <4>1. todo' = <<>> /\ ~moving'
        BY <1>0, <2>1, <2>2, <2>6, <3>1, <3>3, Tuples DEF StopDrive, DriveInv, Marked
      <4> QED BY <1>0, <2>1, <2>3, <3>1, <3>3, <4>1 DEF DriveInv, CommandsLeft, Driven, Marked
    <3>4. CASE \E c \in Commands : todo = <<c>> /\ Operating /\ moving
      BY <1>0, <2>1, <2>3, <2>4, <3>1, <3>4, Tuples
         DEF DriveInv, CommandsLeft, Driven, Marked
    <3>5. ASSUME NEW c \in Commands, todo = <<c, "halt">>, running, moving, ~Operating PROVE DriveInv'
      <4>1. todo' = <<"halt">> /\ Halts'
        BY <2>1, <3>1, <3>5, Tuples DEF Halts
      <4> QED BY <1>0, <2>1, <2>3, <3>1, <3>5, <4>1 DEF DriveInv, CommandsLeft, Driven, Marked
    <3> QED BY <2>1, <3>2, <3>3, <3>4, <3>5 DEF DriveInv, CommandsLeft, Begins
  <2> QED BY <2>5, <2>6
<1>9. CASE Return
  <2>1. /\ pc = "act" /\ todo = <<>> /\ UNCHANGED <<service, running, phase, drive>>
    BY <1>9 DEF Return
  <2>2. ~Begins /\ ~Halts
    BY <2>1, Tuples DEF Begins, Halts
  <2>3. CASE op = "timer" /\ op' = "advance" /\ pc' = "loop" /\ UNCHANGED <<target, todo>>
    BY <1>0, <2>1, <2>2, <2>3 DEF Operating, DriveInv, CommandsLeft, Driven, Marked
  <2>4. CASE Release
    BY <1>0, <2>1, <2>2, <2>4, ReleaseKeeps DEF Operating, DriveInv, Driven, Marked
  <2> QED BY <1>9, <2>3, <2>4 DEF Return
<1>10. CASE Dispatch
  BY <1>10 DEF Dispatch, Operating, DriveInv, CommandsLeft, Driven, Marked, Begins, Halts
<1>11. ASSUME NEW k, Fire(k), pc # "act", UNCHANGED <<running, drive>> PROVE DriveInv'
  <2>1. pc' = "act" /\ op' = "timer" /\ service' = service
    BY <1>11 DEF Fire, Enter
  <2>2. CASE Operating /\ Enter(service, "failed", {k}) /\ todo' = <<"halt">>
    <3>1. ~Operating' /\ Halts'
      BY <2>1, <2>2 DEF Enter, Operating, Active, Halts
    <3> QED BY <1>0, <1>11, <2>1, <2>2, <3>1 DEF DriveInv, CommandsLeft, Driven, Marked
  <2>3. CASE todo' = <<>> /\ phase' = phase
    BY <1>0, <1>11, <2>1, <2>3
       DEF Operating, DriveInv, CommandsLeft, Driven, Marked, Begins, Halts
  <2> QED BY <1>11, <2>2, <2>3 DEF Fire
<1>12. CASE Deliver
  BY <1>11, <1>12 DEF Deliver, DriveInv, Marked
<1>13. CASE AdvanceFires
  BY <1>11, <1>13 DEF AdvanceFires
<1>14. CASE AdvanceEnds
  BY <1>0, <1>14, ReleaseKeeps
     DEF AdvanceEnds, Operating, DriveInv, Driven, Marked, Begins, Halts
<1>15. CASE UNCHANGED vars
  BY <1>15 DEF vars, Operating, DriveInv, CommandsLeft, Driven, Marked, Begins, Halts
<1> QED BY <1>1, <1>2, <1>3, <1>4, <1>5, <1>6, <1>7, <1>8, <1>9, <1>10, <1>12, <1>13, <1>14, <1>15
      DEF Next, Calls, Steps

LEMMA DriveInvImplies == DriveInv => DriveProtocol /\ DriveStopped
<1> SUFFICES ASSUME DriveInv PROVE DriveProtocol /\ DriveStopped
  OBVIOUS
<1>1. DriveStopped
  BY DEF DriveInv, Driven, DriveStopped, Halts
<1>2. ASSUME pc = "act", todo # <<>>
      PROVE  CASE Head(todo) = "begin" -> ~moving
               [] Head(todo) = "halt" -> TRUE
               [] OTHER -> moving /\ running
  BY <1>2, Tuples DEF DriveInv, CommandsLeft, Begins, Operating, Commands
<1> QED BY <1>1, <1>2 DEF DriveProtocol, DriveInv, Marked

\* The drive is begun only when it rests, and commanded only after that by the
\* operation under way: exceptions and timeouts leave no other order.
THEOREM DriveInOrder == Spec => []DriveProtocol
BY TimerInit, TimerStep, DriveInit, DriveStep, DriveInvImplies, PTL DEF Spec

\* No sequence of operations, timers and exceptions leaves a drive moving with
\* no active operation, unless one of its commands raised.
THEOREM DriveIsStopped == Spec => []DriveStopped
BY TimerInit, TimerStep, DriveInit, DriveStep, DriveInvImplies, PTL DEF Spec
=============================================================================
