------------------------- MODULE InterpreterProofs -------------------------
(***************************************************************************)
(* Theorems about Interpreter, for every set of threads and listeners and  *)
(* every bound on sends and actions.                                       *)
(*                                                                         *)
(* The argument: _processing is a lock whose owner is the one thread that  *)
(* is not idle (SingleOwner).  Everything else follows from that: only the *)
(* owner pops, commits and runs effects, so nothing is committed between   *)
(* its reads and its writes (RunToCompletion), a queued event always has   *)
(* an owner to drain it (NoStrandedEvent), and the steps of all threads    *)
(* are the steps of one sequential mailbox (ImplementsMailbox).            *)
(***************************************************************************)
EXTENDS Interpreter, TLAPS

\* Before start nothing is queued and nobody is inside.
Quiet == status = "not_started" => ~processing /\ queue = <<>>

\* The inductive invariant of the ownership protocol.
IInv == TypeOK /\ SingleOwner /\ NoStrandedEvent /\ RunToCompletion /\ Quiet

-----------------------------------------------------------------------------
\* A step of Interpreter is a step of one of its actions, or changes nothing.
LEMMA StepCases ==
    ASSUME [Next]_vars
    PROVE  \/ \E t \in Thread : Work(t)
           \/ \E t \in Thread : Start(t) \/ Send(t) \/ Stop(t)
           \/ \E t \in Thread, l \in Listener : Subscribe(t, l) \/ Unsubscribe(t, l)
           \/ UNCHANGED vars
BY DEF Next, Call

\* Values of a sequence over a set are members of that set.
LEMMA ValuesIn ==
    ASSUME NEW S, NEW s \in Seq(S)
    PROVE  Values(s) \subseteq S
BY DEF Values

LEMMA TypeInit == Init => TypeOK
<1> SUFFICES ASSUME Init PROVE TypeOK
  OBVIOUS
<1>1. state \in Snapshot /\ snap \in [Thread -> Snapshot] /\ queue \in Seq(1..MaxSends)
  BY DEF Init, Snapshot
<1>2. status \in Status /\ pc \in [Thread -> PC]
  BY DEF Init, Status, PC
<1>3. /\ ev \in [Thread -> 0..MaxSends] /\ todo \in [Thread -> 0..MaxActions]
      /\ targets \in [Thread -> SUBSET Listener] /\ sub \in [Thread -> SUBSET FirstCall]
  BY BoundsAssumption DEF Init
<1>4. accepted \in 0..MaxSends
  BY BoundsAssumption DEF Init
<1>5. /\ processing \in BOOLEAN /\ listeners \subseteq Listener
      /\ dropped \subseteq 0..MaxSends
  BY Zenon DEF Init
<1>6. best \in [Listener -> Nat] /\ skipped \in Nat
  BY DEF Init
<1> QED
  BY <1>1, <1>2, <1>3, <1>4, <1>5, <1>6 DEF TypeOK

\* Every variable keeps its type.
LEMMA TypeStep == TypeOK /\ [Next]_vars => TypeOK'
<1> SUFFICES ASSUME TypeOK, [Next]_vars PROVE TypeOK'
  OBVIOUS
<1>0. /\ Len(state) + 1 \in Nat
      /\ \A t \in Thread : Len(snap[t]) + 1 \in Nat
      /\ Values(queue) \subseteq 0..MaxSends
  <2>1. Len(state) + 1 \in Nat
    BY DEF TypeOK, Snapshot
  <2>2. \A t \in Thread : Len(snap[t]) + 1 \in Nat
    BY DEF TypeOK, Snapshot
  <2>3. Values(queue) \subseteq 1..MaxSends
    BY ValuesIn DEF TypeOK
  <2> QED
    BY <2>1, <2>2, <2>3, BoundsAssumption
<1> USE BoundsAssumption DEF TypeOK, PC, Effect, Goto
<1>1. ASSUME NEW t \in Thread, Work(t) PROVE TypeOK'
  <2>1. CASE StartSync(t)
    BY <2>1, <1>0 DEF StartSync, fields
  <2>2. CASE SubscribeCall(t)
    BY <2>2 DEF SubscribeCall, fields, Hear, FirstCall
  <2>3. CASE DrainDone(t)
    BY <2>3 DEF DrainDone, history
  <2>4. CASE DrainPop(t)
    <3>1. queue # <<>> => Head(queue) \in 0..MaxSends /\ Tail(queue) \in Seq(1..MaxSends)
      OBVIOUS
    <3> QED
      BY <2>4, <3>1 DEF DrainPop, history
  <2>5. CASE ProcessStopped(t)
    BY <2>5 DEF ProcessStopped, fields
  <2>6. CASE ProcessRead(t)
    BY <2>6 DEF ProcessRead, fields, history
  <2>7. CASE Commit(t)
    <3>1. Append(snap[t], ev[t]) \in Snapshot
      BY DEF Snapshot
    <3>2. Len(Append(snap[t], ev[t])) + 1 \in Nat
      BY <3>1 DEF Snapshot
    <3> QED
      BY <2>7, <3>1, <3>2 DEF Commit
  <2>8. CASE Return(t)
    BY <2>8 DEF Return, fields, history
  <2>9. CASE ExecCheck(t)
    <3>1. todo[t] > 0 => todo[t] - 1 \in 0..MaxActions
      OBVIOUS
    <3>2. todo' \in [Thread -> 0..MaxActions]
      <4>1. CASE todo[t] > 0 /\ Running
        BY <2>9, <3>1, <4>1 DEF ExecCheck
      <4>2. CASE ~(todo[t] > 0 /\ Running)
        <5>1. 0 \in 0..MaxActions /\ todo' = [todo EXCEPT ![t] = 0]
          BY <2>9, <4>2 DEF ExecCheck
        <5> QED
          BY <5>1
      <4> QED
        BY <4>1, <4>2
    <3> QED
      BY <2>9, <3>2 DEF ExecCheck, fields, history
  <2>10. CASE ActionBegin(t)
    BY <2>10 DEF ActionBegin, fields, history
  <2>11. CASE NotifyCopy(t)
    BY <2>11 DEF NotifyCopy, fields, history
  <2>12. CASE NotifyCheck(t)
    BY <2>12 DEF NotifyCheck, fields, history
  <2>13. CASE NotifyCall(t)
    BY <2>13, <1>0 DEF NotifyCall, fields, Hear
  <2>14. CASE Raise(t)
    <3>1. dropped' \subseteq 0..MaxSends
      BY <2>14 DEF Raise
    <3>2. todo' \in [Thread -> 0..MaxActions]
      BY <2>14 DEF Raise
    <3> QED
      BY <2>14, <3>1, <3>2, <1>0 DEF Raise, fields
  <2>15. CASE Fail(t)
    <3>1. queue' \in Seq(1..MaxSends)
      BY <2>15 DEF Fail
    <3> QED
      BY <2>15, <3>1, <1>0 DEF Fail
  <2> QED
    BY <1>1, <2>1, <2>2, <2>3, <2>4, <2>5, <2>6, <2>7, <2>8, <2>9, <2>10,
       <2>11, <2>12, <2>13, <2>14, <2>15 DEF Work
<1>2. ASSUME NEW t \in Thread, Start(t) PROVE TypeOK'
  <2>1. state \in Snapshot /\ <<Restored>> \in Snapshot
    BY DEF Snapshot, Restored
  <2>2. state' \in Snapshot /\ snap' \in [Thread -> Snapshot]
    BY <1>2, <2>1 DEF Start
  <2> QED
    BY <1>2, <2>2 DEF Start, history, Status
<1>3. ASSUME NEW t \in Thread, Send(t) PROVE TypeOK'
  <2>1. accepted' \in 1..MaxSends
    BY <1>3 DEF Send
  <2>2. queue' \in Seq(1..MaxSends)
    BY <1>3, <2>1 DEF Send
  <2>3. processing' \in BOOLEAN /\ pc' \in [Thread -> PC]
    BY <1>3 DEF Send
  <2> QED
    BY <1>3, <2>1, <2>2, <2>3 DEF Send
<1>4. ASSUME NEW t \in Thread, Stop(t) PROVE TypeOK'
  <2>1. queue' \in Seq(1..MaxSends)
    BY <1>4 DEF Stop
  <2> QED
    BY <1>4, <2>1, <1>0 DEF Stop, locals, Status
<1>5. ASSUME NEW t \in Thread, NEW l \in Listener, Subscribe(t, l) PROVE TypeOK'
  <2>1. {[listener |-> l, seen |-> Len(state) + 1]} \in SUBSET FirstCall
    BY <1>0 DEF FirstCall
  <2> QED
    BY <1>5, <2>1 DEF Subscribe, history
<1>6. ASSUME NEW t \in Thread, NEW l \in Listener, Unsubscribe(t, l) PROVE TypeOK'
  BY <1>6 DEF Unsubscribe, locals, history
<1>7. CASE UNCHANGED vars
  BY <1>7 DEF vars, fields, locals, history
<1> QED
  BY <1>1, <1>2, <1>3, <1>4, <1>5, <1>6, <1>7, StepCases

\* Every reachable state is well typed.
THEOREM TypeCorrect == Spec => []TypeOK
<1> QED
  BY TypeInit, TypeStep, PTL DEF Spec
-----------------------------------------------------------------------------
(* The ownership protocol *)

LEMMA InvInit == Init => IInv
<1> SUFFICES ASSUME Init PROVE IInv
  OBVIOUS
<1>1. TypeOK
  BY TypeInit
<1>2. SingleOwner /\ NoStrandedEvent /\ RunToCompletion /\ Quiet
  BY DEF Init, SingleOwner, NoStrandedEvent, RunToCompletion, Effect, Quiet
<1> QED
  BY <1>1, <1>2 DEF IInv

\* The boundary keeps one owner: it is claimed only when it is free, and
\* released only by the thread that holds it, as it leaves.
LEMMA OwnerStep == IInv /\ [Next]_vars => SingleOwner'
<1> SUFFICES ASSUME IInv, [Next]_vars PROVE SingleOwner'
  OBVIOUS
<1>0. TypeOK /\ SingleOwner /\ Quiet
  BY DEF IInv
<1> USE <1>0 DEF TypeOK, SingleOwner, Goto
<1>1. ASSUME NEW t \in Thread, Work(t) PROVE SingleOwner'
  <2>1. CASE StartSync(t)
    BY <2>1 DEF StartSync, fields
  <2>2. CASE SubscribeCall(t)
    BY <2>2 DEF SubscribeCall, fields
  <2>3. CASE DrainDone(t)
    BY <2>3 DEF DrainDone, history
  <2>4. CASE DrainPop(t)
    BY <2>4 DEF DrainPop, history
  <2>5. CASE ProcessStopped(t)
    BY <2>5 DEF ProcessStopped, fields
  <2>6. CASE ProcessRead(t)
    BY <2>6 DEF ProcessRead, fields, history
  <2>7. CASE Commit(t)
    BY <2>7 DEF Commit
  <2>8. CASE Return(t)
    BY <2>8 DEF Return, fields, history
  <2>9. CASE ExecCheck(t)
    BY <2>9 DEF ExecCheck, fields, history
  <2>10. CASE ActionBegin(t)
    BY <2>10 DEF ActionBegin, fields, history
  <2>11. CASE NotifyCopy(t)
    BY <2>11 DEF NotifyCopy, fields, history
  <2>12. CASE NotifyCheck(t)
    BY <2>12 DEF NotifyCheck, fields, history
  <2>13. CASE NotifyCall(t)
    BY <2>13 DEF NotifyCall, fields
  <2>14. CASE Raise(t)
    BY <2>14 DEF Raise, fields
  <2>15. CASE Fail(t)
    BY <2>15 DEF Fail
  <2> QED
    BY <1>1, <2>1, <2>2, <2>3, <2>4, <2>5, <2>6, <2>7, <2>8, <2>9, <2>10, <2>11, <2>12,
       <2>13, <2>14, <2>15 DEF Work
<1>2. ASSUME NEW t \in Thread, Start(t) PROVE SingleOwner'
  BY <1>2 DEF Start, MayCall, Quiet
<1>3. ASSUME NEW t \in Thread, Send(t) PROVE SingleOwner'
  BY <1>3 DEF Send, MayCall
<1>4. ASSUME NEW t \in Thread, Stop(t) PROVE SingleOwner'
  BY <1>4 DEF Stop, locals
<1>5. ASSUME NEW t \in Thread, NEW l \in Listener, Subscribe(t, l) PROVE SingleOwner'
  BY <1>5 DEF Subscribe
<1>6. ASSUME NEW t \in Thread, NEW l \in Listener, Unsubscribe(t, l) PROVE SingleOwner'
  BY <1>6 DEF Unsubscribe, locals
<1>7. CASE UNCHANGED vars
  BY <1>7 DEF vars, fields, locals
<1> QED
  BY <1>1, <1>2, <1>3, <1>4, <1>5, <1>6, <1>7, StepCases

\* What is queued always has an owner: only a running interpreter queues, and
\* the owner leaves only when it has seen the queue empty or emptied it.
LEMMA QueueStep == IInv /\ [Next]_vars => NoStrandedEvent' /\ Quiet'
<1> SUFFICES ASSUME IInv, [Next]_vars PROVE NoStrandedEvent' /\ Quiet'
  OBVIOUS
<1> USE DEF IInv, NoStrandedEvent, Quiet, Running
<1>1. ASSUME NEW t \in Thread, Work(t) PROVE NoStrandedEvent' /\ Quiet'
  <2>1. CASE StartSync(t)
    BY <2>1 DEF StartSync, fields
  <2>2. CASE SubscribeCall(t)
    BY <2>2 DEF SubscribeCall, fields
  <2>3. CASE DrainDone(t)
    BY <2>3 DEF DrainDone, history
  <2>4. CASE DrainPop(t)
    BY <2>4 DEF DrainPop, history
  <2>5. CASE ProcessStopped(t)
    BY <2>5 DEF ProcessStopped, fields
  <2>6. CASE ProcessRead(t)
    BY <2>6 DEF ProcessRead, fields, history
  <2>7. CASE Commit(t)
    BY <2>7 DEF Commit
  <2>8. CASE Return(t)
    BY <2>8 DEF Return, fields, history
  <2>9. CASE ExecCheck(t)
    BY <2>9 DEF ExecCheck, fields, history
  <2>10. CASE ActionBegin(t)
    BY <2>10 DEF ActionBegin, fields, history
  <2>11. CASE NotifyCopy(t)
    BY <2>11 DEF NotifyCopy, fields, history
  <2>12. CASE NotifyCheck(t)
    BY <2>12 DEF NotifyCheck, fields, history
  <2>13. CASE NotifyCall(t)
    BY <2>13 DEF NotifyCall, fields
  <2>14. CASE Raise(t)
    BY <2>14 DEF Raise, fields
  <2>15. CASE Fail(t)
    BY <2>15 DEF Fail
  <2> QED
    BY <1>1, <2>1, <2>2, <2>3, <2>4, <2>5, <2>6, <2>7, <2>8, <2>9, <2>10, <2>11, <2>12,
       <2>13, <2>14, <2>15 DEF Work
<1>2. ASSUME NEW t \in Thread, Start(t) PROVE NoStrandedEvent' /\ Quiet'
  BY <1>2 DEF Start, MayCall, history
<1>3. ASSUME NEW t \in Thread, Send(t) PROVE NoStrandedEvent' /\ Quiet'
  BY <1>3 DEF Send, MayCall
<1>4. ASSUME NEW t \in Thread, Stop(t) PROVE NoStrandedEvent' /\ Quiet'
  BY <1>4 DEF Stop, MayCall, locals
<1>5. ASSUME NEW t \in Thread, NEW l \in Listener, Subscribe(t, l) PROVE NoStrandedEvent' /\ Quiet'
  BY <1>5 DEF Subscribe, MayCall, history
<1>6. ASSUME NEW t \in Thread, NEW l \in Listener, Unsubscribe(t, l)
     PROVE NoStrandedEvent' /\ Quiet'
  BY <1>6 DEF Unsubscribe, MayCall, locals, history
<1>7. CASE UNCHANGED vars
  BY <1>7 DEF vars, fields, locals
<1> QED
  BY <1>1, <1>2, <1>3, <1>4, <1>5, <1>6, <1>7, StepCases

\* Only the owner installs a snapshot, so no other thread's base or effects
\* become stale.
LEMMA SnapshotStep == IInv /\ [Next]_vars => RunToCompletion'
<1> SUFFICES ASSUME IInv, [Next]_vars PROVE RunToCompletion'
  OBVIOUS
<1>0. TypeOK /\ SingleOwner /\ RunToCompletion /\ Quiet
  BY DEF IInv
<1> USE <1>0 DEF TypeOK, SingleOwner, RunToCompletion, Effect, Goto
<1>1. ASSUME NEW t \in Thread, Work(t) PROVE RunToCompletion'
  <2>1. CASE StartSync(t)
    BY <2>1 DEF StartSync, fields
  <2>2. CASE SubscribeCall(t)
    BY <2>2 DEF SubscribeCall, fields
  <2>3. CASE DrainDone(t)
    BY <2>3 DEF DrainDone, history
  <2>4. CASE DrainPop(t)
    BY <2>4 DEF DrainPop, history
  <2>5. CASE ProcessStopped(t)
    BY <2>5 DEF ProcessStopped, fields
  <2>6. CASE ProcessRead(t)
    BY <2>6 DEF ProcessRead, fields, history
  <2>7. CASE Commit(t)
    BY <2>7 DEF Commit
  <2>8. CASE Return(t)
    BY <2>8 DEF Return, fields, history
  <2>9. CASE ExecCheck(t)
    BY <2>9 DEF ExecCheck, fields, history
  <2>10. CASE ActionBegin(t)
    BY <2>10 DEF ActionBegin, fields, history
  <2>11. CASE NotifyCopy(t)
    BY <2>11 DEF NotifyCopy, fields, history
  <2>12. CASE NotifyCheck(t)
    BY <2>12 DEF NotifyCheck, fields, history
  <2>13. CASE NotifyCall(t)
    BY <2>13 DEF NotifyCall, fields
  <2>14. CASE Raise(t)
    BY <2>14 DEF Raise, fields
  <2>15. CASE Fail(t)
    BY <2>15 DEF Fail
  <2> QED
    BY <1>1, <2>1, <2>2, <2>3, <2>4, <2>5, <2>6, <2>7, <2>8, <2>9, <2>10, <2>11, <2>12,
       <2>13, <2>14, <2>15 DEF Work
<1>2. ASSUME NEW t \in Thread, Start(t) PROVE RunToCompletion'
  BY <1>2 DEF Start, MayCall, history, Quiet
<1>3. ASSUME NEW t \in Thread, Send(t) PROVE RunToCompletion'
  BY <1>3 DEF Send, MayCall
<1>4. ASSUME NEW t \in Thread, Stop(t) PROVE RunToCompletion'
  BY <1>4 DEF Stop, MayCall, locals
<1>5. ASSUME NEW t \in Thread, NEW l \in Listener, Subscribe(t, l) PROVE RunToCompletion'
  BY <1>5 DEF Subscribe, MayCall, history
<1>6. ASSUME NEW t \in Thread, NEW l \in Listener, Unsubscribe(t, l) PROVE RunToCompletion'
  BY <1>6 DEF Unsubscribe, MayCall, locals, history
<1>7. CASE UNCHANGED vars
  BY <1>7 DEF vars, fields, locals
<1> QED
  BY <1>1, <1>2, <1>3, <1>4, <1>5, <1>6, <1>7, StepCases

LEMMA InvStep == IInv /\ [Next]_vars => IInv'
BY TypeStep, OwnerStep, QueueStep, SnapshotStep DEF IInv

LEMMA Invariance == Spec => []IInv
<1> QED
  BY InvInit, InvStep, PTL DEF Spec

\* One thread at most is between claiming and releasing the processing
\* boundary, and _processing says whether one is.
THEOREM OneOwner == Spec => []SingleOwner
<1>1. IInv => SingleOwner
  BY DEF IInv
<1> QED
  BY <1>1, Invariance, PTL

\* An accepted event that waits in the queue has an owner that will drain it.
THEOREM NoLostWakeup == Spec => []NoStrandedEvent
<1>1. IInv => NoStrandedEvent
  BY DEF IInv
<1> QED
  BY <1>1, Invariance, PTL

\* No snapshot is installed between the read of a base snapshot and its
\* commit, nor while the actions and listeners of a snapshot run.
THEOREM MacrostepsAreSerial == Spec => []RunToCompletion
<1>1. IInv => RunToCompletion
  BY DEF IInv
<1> QED
  BY <1>1, Invariance, PTL

-----------------------------------------------------------------------------
(* stop *)

\* A step of a stopped interpreter installs no snapshot and queues nothing.
LEMMA StoppedStep ==
    IInv /\ [Next]_vars /\ status = "stopped" =>
        status' = "stopped" /\ state' = state /\ queue' = <<>>
<1> DEFINE Still == status' = "stopped" /\ state' = state /\ queue' = <<>>
<1> SUFFICES ASSUME IInv, [Next]_vars, status = "stopped" PROVE Still
  OBVIOUS
<1>0. ~Running /\ queue = <<>>
  BY DEF IInv, NoStrandedEvent, Running
<1> USE <1>0
<1>1. ASSUME NEW t \in Thread, Work(t) PROVE Still
  <2>1. CASE StartSync(t)
    BY <2>1 DEF StartSync, fields
  <2>2. CASE SubscribeCall(t)
    BY <2>2 DEF SubscribeCall, fields
  <2>3. CASE DrainDone(t)
    BY <2>3 DEF DrainDone, history
  <2>4. CASE DrainPop(t)
    BY <2>4 DEF DrainPop, history
  <2>5. CASE ProcessStopped(t)
    BY <2>5 DEF ProcessStopped, fields
  <2>6. CASE ProcessRead(t)
    BY <2>6 DEF ProcessRead, fields, history
  <2>7. CASE Commit(t)
    BY <2>7 DEF Commit
  <2>8. CASE Return(t)
    BY <2>8 DEF Return, fields, history
  <2>9. CASE ExecCheck(t)
    BY <2>9 DEF ExecCheck, fields, history
  <2>10. CASE ActionBegin(t)
    BY <2>10 DEF ActionBegin, fields, history
  <2>11. CASE NotifyCopy(t)
    BY <2>11 DEF NotifyCopy, fields, history
  <2>12. CASE NotifyCheck(t)
    BY <2>12 DEF NotifyCheck, fields, history
  <2>13. CASE NotifyCall(t)
    BY <2>13 DEF NotifyCall, fields
  <2>14. CASE Raise(t)
    BY <2>14 DEF Raise, fields
  <2>15. CASE Fail(t)
    BY <2>15 DEF Fail
  <2> QED
    BY <1>1, <2>1, <2>2, <2>3, <2>4, <2>5, <2>6, <2>7, <2>8, <2>9, <2>10, <2>11, <2>12,
       <2>13, <2>14, <2>15 DEF Work
<1>2. ASSUME NEW t \in Thread, Start(t) PROVE Still
  BY <1>2 DEF Start, MayCall, history
<1>3. ASSUME NEW t \in Thread, Send(t) PROVE Still
  BY <1>3 DEF Send, MayCall
<1>4. ASSUME NEW t \in Thread, Stop(t) PROVE Still
  BY <1>4 DEF Stop, MayCall, locals
<1>5. ASSUME NEW t \in Thread, NEW l \in Listener, Subscribe(t, l) PROVE Still
  BY <1>5 DEF Subscribe, MayCall, history
<1>6. ASSUME NEW t \in Thread, NEW l \in Listener, Unsubscribe(t, l) PROVE Still
  BY <1>6 DEF Unsubscribe, MayCall, locals, history
<1>7. CASE UNCHANGED vars
  BY <1>7 DEF vars, fields
<1> QED
  BY <1>1, <1>2, <1>3, <1>4, <1>5, <1>6, <1>7, StepCases

\* After stop no snapshot is installed, nothing is queued and the interpreter
\* does not restart, even when a macrostep was under way.
THEOREM StopCorrect == Spec => StopIsFinal
<1>1. IInv /\ [Next]_vars =>
        [status = "stopped" =>
           status' = "stopped" /\ state' = state /\ queue' = <<>>]_vars
  BY StoppedStep
<1> QED
  BY <1>1, Invariance, PTL DEF Spec, StopIsFinal

-----------------------------------------------------------------------------
(* Refinement of the mailbox *)

\* The owner is the only thread that can hold a popped event.
LEMMA InFlightOfOwner ==
    ASSUME SingleOwner, NEW t \in Thread, pc[t] # "idle"
    PROVE  InFlight = IF pc[t] \in {"popped", "transition"} THEN {ev[t]} ELSE {}
BY DEF SingleOwner, InFlight

LEMMA InFlightIdle == ASSUME SingleOwner, ~processing PROVE InFlight = {}
BY DEF SingleOwner, InFlight

LEMMA RefinesInit == Init => Mbox!Init
<1>1. Init => InFlight = {}
  BY DEF Init, InFlight
<1> QED
  BY <1>1 DEF Init, Mbox!Init

\* The steps that pop, commit, give up and release are the mailbox's own; a
\* transition that raises gives its event up; the others leave it alone.
LEMMA RefinesWork ==
    ASSUME IInv, IInv', NEW t \in Thread, Work(t)
    PROVE  [Mbox!Next]_(Mbox!vars)
<1>0. TypeOK /\ SingleOwner /\ SingleOwner' /\ RunToCompletion
  BY DEF IInv
<1>a. pc[t] # "idle" => /\ processing
                        /\ InFlight = IF pc[t] \in {"popped", "transition"} THEN {ev[t]} ELSE {}
  BY <1>0, InFlightOfOwner DEF SingleOwner
<1>b. pc'[t] # "idle" => InFlight' = IF pc'[t] \in {"popped", "transition"} THEN {ev'[t]} ELSE {}
  BY <1>0 DEF SingleOwner, InFlight
<1>c. ~processing' => InFlight' = {}
  BY <1>0 DEF SingleOwner, InFlight
<1> USE DEF TypeOK, Goto
<1>1. CASE StartSync(t)
  BY <1>0, <1>a, <1>b, <1>1 DEF StartSync, fields, Mbox!vars
<1>2. CASE SubscribeCall(t)
  BY <1>2 DEF SubscribeCall, fields, InFlight, Mbox!vars
<1>3. CASE DrainDone(t)
  <2>1. Mbox!Rest
    BY <1>0, <1>a, <1>b, <1>c, <1>3 DEF DrainDone, history, Mbox!Rest, RunToCompletion, Running
  <2> QED
    BY <2>1 DEF Mbox!Next
<1>4. CASE DrainPop(t)
  <2>1. Mbox!Take
    BY <1>0, <1>a, <1>b, <1>c, <1>4 DEF DrainPop, history, Mbox!Take, RunToCompletion, Running
  <2> QED
    BY <2>1 DEF Mbox!Next
<1>5. CASE ProcessStopped(t)
  <2>1. Mbox!GiveUp
    BY <1>0, <1>a, <1>b, <1>c, <1>5 DEF ProcessStopped, fields, Mbox!GiveUp,
       RunToCompletion, Running
  <2> QED
    BY <2>1 DEF Mbox!Next
<1>6. CASE ProcessRead(t)
  BY <1>0, <1>a, <1>b, <1>6 DEF ProcessRead, fields, history, Mbox!vars
<1>7. CASE Commit(t)
  <2>1. Mbox!Fold
    BY <1>0, <1>a, <1>b, <1>c, <1>7 DEF Commit, Mbox!Fold, RunToCompletion, Running
  <2> QED
    BY <2>1 DEF Mbox!Next
<1>8. CASE Return(t)
  BY <1>0, <1>a, <1>b, <1>8 DEF Return, fields, history, Mbox!vars
<1>9. CASE ExecCheck(t)
  BY <1>0, <1>a, <1>b, <1>9 DEF ExecCheck, fields, history, Mbox!vars
<1>10. CASE ActionBegin(t)
  BY <1>0, <1>a, <1>b, <1>10 DEF ActionBegin, fields, history, Mbox!vars
<1>11. CASE NotifyCopy(t)
  BY <1>0, <1>a, <1>b, <1>11 DEF NotifyCopy, fields, history, Mbox!vars
<1>12. CASE NotifyCheck(t)
  BY <1>0, <1>a, <1>b, <1>12 DEF NotifyCheck, fields, history, Mbox!vars
<1>13. CASE NotifyCall(t)
  BY <1>0, <1>a, <1>b, <1>13 DEF NotifyCall, fields, Mbox!vars
<1>14. CASE Raise(t)
  <2>1. CASE pc[t] = "transition"
    <3>1. Mbox!GiveUp
      BY <1>0, <1>a, <1>b, <1>14, <2>1 DEF Raise, fields, Mbox!GiveUp
    <3> QED
      BY <3>1 DEF Mbox!Next
  <2>2. CASE pc[t] # "transition"
    BY <1>0, <1>a, <1>b, <1>14, <2>2 DEF Raise, fields, Mbox!vars
  <2> QED
    BY <2>1, <2>2
<1>15. CASE Fail(t)
  <2>1. Mbox!Abort
    BY <1>0, <1>a, <1>b, <1>c, <1>15 DEF Fail, Mbox!Abort, RunToCompletion, Running
  <2> QED
    BY <2>1 DEF Mbox!Next
<1> QED
  BY <1>1, <1>2, <1>3, <1>4, <1>5, <1>6, <1>7, <1>8, <1>9, <1>10, <1>11, <1>12, <1>13,
     <1>14, <1>15 DEF Work

LEMMA RefinesStep == IInv /\ IInv' /\ [Next]_vars => [Mbox!Next]_(Mbox!vars)
<1> SUFFICES ASSUME IInv, IInv', [Next]_vars PROVE [Mbox!Next]_(Mbox!vars)
  OBVIOUS
<1>0. TypeOK /\ SingleOwner /\ SingleOwner' /\ Quiet
  BY DEF IInv
<1>1. ASSUME NEW t \in Thread, Work(t) PROVE [Mbox!Next]_(Mbox!vars)
  BY <1>1, RefinesWork
<1>2. ASSUME NEW t \in Thread, Start(t) PROVE [Mbox!Next]_(Mbox!vars)
  <2>1. InFlight = {}
    BY <1>0, <1>2, InFlightIdle DEF Start, Quiet
  <2>2. InFlight' = {}
    BY <1>0, <1>2 DEF Start, Goto, SingleOwner, InFlight, TypeOK, MayCall, Quiet
  <2>3. Mbox!Start
    BY <1>2, <2>1, <2>2 DEF Start, Mbox!Start, history, Restored
  <2> QED
    BY <2>3 DEF Mbox!Next
<1>3. ASSUME NEW t \in Thread, Send(t) PROVE [Mbox!Next]_(Mbox!vars)
  <2>1. InFlight' = InFlight
    <3>1. CASE processing
      BY <1>3, <3>1 DEF Send, InFlight
    <3>2. CASE ~processing
      BY <1>0, <1>3, <3>2, InFlightIdle DEF Send, Goto, TypeOK, SingleOwner, InFlight
    <3> QED
      BY <3>1, <3>2
  <2>2. Mbox!Accept
    BY <1>0, <1>3, <2>1 DEF Send, Running, Mbox!Accept, TypeOK
  <2> QED
    BY <2>2 DEF Mbox!Next
<1>4. ASSUME NEW t \in Thread, Stop(t) PROVE [Mbox!Next]_(Mbox!vars)
  <2>1. Mbox!Stop
    BY <1>4 DEF Stop, locals, InFlight, Mbox!Stop
  <2> QED
    BY <2>1 DEF Mbox!Next
<1>5. ASSUME NEW t \in Thread, NEW l \in Listener, Subscribe(t, l)
      PROVE  [Mbox!Next]_(Mbox!vars)
  BY <1>5 DEF Subscribe, history, InFlight, Mbox!vars
<1>6. ASSUME NEW t \in Thread, NEW l \in Listener, Unsubscribe(t, l)
      PROVE  [Mbox!Next]_(Mbox!vars)
  BY <1>6 DEF Unsubscribe, locals, history, InFlight, Mbox!vars
<1>7. CASE UNCHANGED vars
  BY <1>7 DEF vars, fields, locals, history, InFlight, Mbox!vars
<1> QED
  BY <1>1, <1>2, <1>3, <1>4, <1>5, <1>6, <1>7, StepCases

\* Threads, locks, callbacks and exceptions implement the sequential mailbox.
THEOREM Refinement == Spec => ImplementsMailbox
<1> QED
  BY RefinesInit, RefinesStep, Invariance, PTL
     DEF Spec, ImplementsMailbox, Mbox!Spec

-----------------------------------------------------------------------------
(* Every accepted event once, in order *)

Increasing(s) == \A i, j \in DOMAIN s : i < j => s[i] < s[j]
Below(S, T) == \A x \in S, y \in T : x < y

\* FifoExactlyOnce, said of the values of the two sequences.
Placed(s, q, taken, given) ==
    /\ 1..accepted = (Values(s) \ {Restored}) \cup Values(q) \cup taken \cup given
    /\ given \cap (Values(s) \cup Values(q) \cup taken) = {}
Sorted(s, q, taken) ==
    /\ Increasing(s) /\ Increasing(q)
    /\ Below(taken, Values(q)) /\ Below(Values(s), taken) /\ Below(Values(s), Values(q))

LEMMA FifoParts ==
    FifoExactlyOnce <=> Placed(state, queue, InFlight, dropped) /\ Sorted(state, queue, InFlight)
BY DEF FifoExactlyOnce, Placed, Sorted, Increasing, Below, Values

LEMMA ValuesAppend ==
    ASSUME NEW S, NEW s \in Seq(S), NEW e \in S
    PROVE  Values(Append(s, e)) = Values(s) \cup {e}
<1> DEFINE r == Append(s, e)
<1>1. /\ Len(s) \in Nat /\ DOMAIN s = 1..Len(s) /\ DOMAIN r = 1..(Len(s) + 1)
      /\ \A i \in DOMAIN s : r[i] = s[i]
      /\ r[Len(s) + 1] = e
  OBVIOUS
<1>2. \A i \in DOMAIN r : r[i] \in Values(s) \cup {e}
  BY <1>1 DEF Values
<1>3. e \in Values(r) /\ \A i \in DOMAIN s : s[i] \in Values(r)
  BY <1>1 DEF Values
<1> QED
  BY <1>2, <1>3 DEF Values

LEMMA ValuesTail ==
    ASSUME NEW S, NEW s \in Seq(S), s # <<>>
    PROVE  Values(s) = {Head(s)} \cup Values(Tail(s))
<1>1. \A i \in DOMAIN s : s[i] \in {Head(s)} \cup Values(Tail(s))
  <2> SUFFICES ASSUME NEW i \in DOMAIN s PROVE s[i] \in {Head(s)} \cup Values(Tail(s))
    OBVIOUS
  <2>1. CASE i = 1
    BY <2>1
  <2>2. CASE i # 1
    <3>1. i - 1 \in DOMAIN Tail(s) /\ Tail(s)[i - 1] = s[i]
      BY <2>2
    <3> QED
      BY <3>1 DEF Values
  <2> QED
    BY <2>1, <2>2
<1>2. \A i \in DOMAIN Tail(s) : Tail(s)[i] \in Values(s)
  BY DEF Values
<1>3. Head(s) \in Values(s)
  BY DEF Values
<1> QED
  BY <1>1, <1>2, <1>3 DEF Values

LEMMA ValuesEmpty == Values(<<>>) = {}
BY DEF Values

\* The head of an increasing sequence is below its tail, which is increasing.
LEMMA IncreasingTail ==
    ASSUME NEW s \in Seq(Nat), s # <<>>, Increasing(s)
    PROVE  Increasing(Tail(s)) /\ Below({Head(s)}, Values(Tail(s)))
<1>1. \A i \in DOMAIN Tail(s) : /\ i \in Nat /\ i + 1 \in DOMAIN s
                               /\ 1 < i + 1 /\ Tail(s)[i] = s[i + 1]
  OBVIOUS
<1>2. Increasing(Tail(s))
  BY <1>1 DEF Increasing
<1>3. 1 \in DOMAIN s /\ Head(s) = s[1]
  OBVIOUS
<1>4. \A i \in DOMAIN Tail(s) : Head(s) < Tail(s)[i]
  BY <1>1, <1>3 DEF Increasing
<1> QED
  BY <1>2, <1>4 DEF Below, Values

LEMMA IncreasingAppend ==
    ASSUME NEW s \in Seq(Nat), NEW e \in Nat, Increasing(s), Below(Values(s), {e})
    PROVE  Increasing(Append(s, e))
<1> DEFINE r == Append(s, e)
<1> SUFFICES ASSUME NEW i \in DOMAIN r, NEW j \in DOMAIN r, i < j PROVE r[i] < r[j]
  BY DEF Increasing
<1>1. i \in DOMAIN s /\ r[i] = s[i]
  OBVIOUS
<1>2. CASE j \in DOMAIN s
  BY <1>1, <1>2 DEF Increasing
<1>3. CASE j = Len(s) + 1
  BY <1>1, <1>3 DEF Below, Values
<1> QED
  BY <1>2, <1>3

\* Values are numbers of accepted events, or 0 in a restored snapshot.
LEMMA FifoTypes ==
    ASSUME TypeOK
    PROVE  /\ state \in Seq(Nat) /\ queue \in Seq(Nat) /\ accepted \in Nat
           /\ Values(state) \subseteq Nat /\ Values(queue) \subseteq Nat \ {0}
           /\ InFlight \subseteq Nat
<1>1. Values(state) \subseteq 0..MaxSends /\ Values(queue) \subseteq 1..MaxSends
  BY ValuesIn DEF TypeOK, Snapshot
<1>2. state \in Seq(Nat) /\ queue \in Seq(Nat) /\ accepted \in Nat
  BY BoundsAssumption DEF TypeOK, Snapshot
<1>3. InFlight \subseteq Nat
  BY BoundsAssumption DEF TypeOK, InFlight
<1> QED
  BY <1>1, <1>2, <1>3, BoundsAssumption

LEMMA FifoStays ==
    ASSUME FifoExactlyOnce, UNCHANGED <<state, queue, InFlight, dropped, accepted>>
    PROVE  FifoExactlyOnce'
BY DEF FifoExactlyOnce

\* A new event is after all others.
LEMMA FifoAccept ==
    ASSUME TypeOK, FifoExactlyOnce,
           accepted' = accepted + 1, queue' = Append(queue, accepted + 1),
           UNCHANGED <<state, InFlight, dropped>>
    PROVE  FifoExactlyOnce'
<1> DEFINE e == accepted + 1
<1>0. Placed(state, queue, InFlight, dropped) /\ Sorted(state, queue, InFlight)
  BY FifoParts
<1>1. Values(queue') = Values(queue) \cup {e}
  BY FifoTypes, ValuesAppend
<1>2. e \in Nat /\ 1..e = (1..accepted) \cup {e}
  BY FifoTypes
<1>3. \A x \in Values(state) \cup Values(queue) \cup InFlight : x < e
  <2>1. \A x \in Values(state) \cup Values(queue) \cup InFlight : x = Restored \/ x \in 1..accepted
    BY <1>0 DEF Placed
  <2> QED
    BY <2>1, FifoTypes DEF Restored
<1>4. e # Restored /\ e \notin dropped
  <2>1. dropped \subseteq 1..accepted
    BY <1>0 DEF Placed
  <2> QED
    BY <2>1, FifoTypes DEF Restored
<1>5. Increasing(queue')
  BY <1>0, <1>3, FifoTypes, IncreasingAppend DEF Sorted, Below
<1>6. Placed(state, queue, InFlight, dropped)'
  BY <1>0, <1>1, <1>2, <1>3, <1>4 DEF Placed
<1>7. Sorted(state, queue, InFlight)'
  BY <1>0, <1>1, <1>3, <1>5 DEF Sorted, Below
<1> QED
  BY <1>6, <1>7, FifoParts, PTL

\* The oldest event is taken.
LEMMA FifoTake ==
    ASSUME TypeOK, FifoExactlyOnce, queue # <<>>, InFlight = {},
           InFlight' = {Head(queue)}, queue' = Tail(queue),
           UNCHANGED <<state, dropped, accepted>>
    PROVE  FifoExactlyOnce'
<1>0. Placed(state, queue, InFlight, dropped) /\ Sorted(state, queue, InFlight)
  BY FifoParts
<1>1. Values(queue) = Values(queue') \cup InFlight'
  BY FifoTypes, ValuesTail
<1>2. Increasing(queue') /\ Below(InFlight', Values(queue'))
  BY <1>0, FifoTypes, IncreasingTail DEF Sorted
<1>3. Placed(state, queue, InFlight, dropped)'
  BY <1>0, <1>1 DEF Placed
<1>4. Sorted(state, queue, InFlight)'
  BY <1>0, <1>1, <1>2 DEF Sorted, Below
<1> QED
  BY <1>3, <1>4, FifoParts, PTL

\* The event in flight is the last of the snapshot.
LEMMA FifoFold ==
    ASSUME TypeOK, FifoExactlyOnce, NEW e \in Nat, InFlight = {e}, InFlight' = {},
           state' = Append(state, e), UNCHANGED <<queue, dropped, accepted>>,
           e # Restored
    PROVE  FifoExactlyOnce'
<1>0. Placed(state, queue, InFlight, dropped) /\ Sorted(state, queue, InFlight)
  BY FifoParts
<1>1. Values(state') = Values(state) \cup {e}
  BY FifoTypes, ValuesAppend
<1>2. Increasing(state')
  BY <1>0, FifoTypes, IncreasingAppend DEF Sorted
<1>3. Placed(state, queue, InFlight, dropped)'
  BY <1>0, <1>1 DEF Placed
<1>4. Sorted(state, queue, InFlight)'
  BY <1>0, <1>1, <1>2 DEF Sorted, Below
<1> QED
  BY <1>3, <1>4, FifoParts, PTL

\* The event in flight is given up.
LEMMA FifoGiveUp ==
    ASSUME TypeOK, FifoExactlyOnce, InFlight' = {}, dropped' = dropped \cup InFlight,
           UNCHANGED <<state, queue, accepted>>
    PROVE  FifoExactlyOnce'
<1>0. Placed(state, queue, InFlight, dropped) /\ Sorted(state, queue, InFlight)
  BY FifoParts
<1>1. InFlight \cap (Values(state) \cup Values(queue)) = {}
  BY <1>0, FifoTypes DEF Sorted, Below
<1>2. Placed(state, queue, InFlight, dropped)'
  BY <1>0, <1>1 DEF Placed
<1>3. Sorted(state, queue, InFlight)'
  BY <1>0 DEF Sorted, Below
<1> QED
  BY <1>2, <1>3, FifoParts, PTL

\* What is queued is discarded.
LEMMA FifoDiscard ==
    ASSUME TypeOK, FifoExactlyOnce, queue' = <<>>, dropped' = dropped \cup Values(queue),
           UNCHANGED <<state, InFlight, accepted>>
    PROVE  FifoExactlyOnce'
<1>0. Placed(state, queue, InFlight, dropped) /\ Sorted(state, queue, InFlight)
  BY FifoParts
<1>1. Values(queue) \cap (Values(state) \cup InFlight) = {}
  BY <1>0, FifoTypes DEF Sorted, Below
<1>2. Values(queue') = {} /\ Increasing(queue')
  BY ValuesEmpty DEF Increasing
<1>3. Placed(state, queue, InFlight, dropped)'
  BY <1>0, <1>1, <1>2 DEF Placed
<1>4. Sorted(state, queue, InFlight)'
  BY <1>0, <1>2 DEF Sorted, Below
<1> QED
  BY <1>3, <1>4, FifoParts, PTL

\* Nothing was accepted, and a restored snapshot holds event 0 alone.
LEMMA FifoStart ==
    ASSUME TypeOK, FifoExactlyOnce, accepted = 0, queue = <<>>, InFlight = {},
           state' \in {state, <<Restored>>},
           UNCHANGED <<queue, InFlight, dropped, accepted>>
    PROVE  FifoExactlyOnce'
<1>0. Placed(state, queue, InFlight, dropped) /\ Sorted(state, queue, InFlight)
  BY FifoParts
<1>1. CASE state' = state
  BY <1>1, FifoStays
<1>2. CASE state' = <<Restored>>
  <2>1. Values(state') = {Restored} /\ Increasing(state')
    BY <1>2 DEF Values, Increasing
  <2>2. 1..accepted = {} /\ Values(queue) = {}
    BY ValuesEmpty
  <2>3. dropped = {}
    BY <1>0, <2>2 DEF Placed
  <2>4. Placed(state, queue, InFlight, dropped)'
    BY <2>1, <2>2, <2>3 DEF Placed
  <2>5. Sorted(state, queue, InFlight)'
    BY <1>0, <2>1, <2>2 DEF Sorted, Below
  <2> QED
    BY <2>4, <2>5, FifoParts, PTL
<1> QED
  BY <1>1, <1>2

\* No event is accepted before start.
Fresh == status = "not_started" => accepted = 0

FifoInv == FifoExactlyOnce /\ Fresh

LEMMA FifoInit == Init => FifoInv
BY DEF Init, FifoInv, Fresh, FifoExactlyOnce, InFlight, Values, Restored

LEMMA FreshStep == IInv /\ Fresh /\ [Next]_vars => Fresh'
<1> SUFFICES ASSUME Fresh, [Next]_vars PROVE Fresh'
  OBVIOUS
<1>1. ASSUME NEW t \in Thread, Work(t) PROVE UNCHANGED <<status, accepted>>
  BY <1>1 DEF Work, StartSync, SubscribeCall, DrainDone, DrainPop, ProcessStopped, ProcessRead,
     Commit, Return, ExecCheck, ActionBegin, NotifyCopy, NotifyCheck, NotifyCall, Raise, Fail,
     fields, history
<1>2. ASSUME NEW t \in Thread, Start(t) PROVE Fresh'
  BY <1>2 DEF Start, Fresh
<1>3. ASSUME NEW t \in Thread, Send(t) PROVE Fresh'
  BY <1>3 DEF Send, Fresh, Running
<1>4. ASSUME NEW t \in Thread, Stop(t) PROVE Fresh'
  BY <1>4 DEF Stop, Fresh
<1>5. ASSUME NEW t \in Thread, NEW l \in Listener, Subscribe(t, l) PROVE Fresh'
  BY <1>5 DEF Subscribe, Fresh, history
<1>6. ASSUME NEW t \in Thread, NEW l \in Listener, Unsubscribe(t, l) PROVE Fresh'
  BY <1>6 DEF Unsubscribe, Fresh, history
<1>7. CASE UNCHANGED vars
  BY <1>7 DEF vars, fields, history, Fresh
<1> QED
  BY <1>1, <1>2, <1>3, <1>4, <1>5, <1>6, <1>7, StepCases DEF Fresh

\* The owner's steps: take, fold, give up, discard; the others move no event.
LEMMA FifoWork ==
    ASSUME IInv, IInv', FifoExactlyOnce, NEW t \in Thread, Work(t)
    PROVE  FifoExactlyOnce'
<1>0. TypeOK /\ SingleOwner /\ SingleOwner' /\ RunToCompletion
  BY DEF IInv
<1>a. pc[t] # "idle" => InFlight = IF pc[t] \in {"popped", "transition"} THEN {ev[t]} ELSE {}
  BY <1>0, InFlightOfOwner
<1>b. pc'[t] # "idle" => InFlight' = IF pc'[t] \in {"popped", "transition"} THEN {ev'[t]} ELSE {}
  BY <1>0 DEF SingleOwner, InFlight
<1>c. ~processing' => InFlight' = {}
  BY <1>0 DEF SingleOwner, InFlight
<1> DEFINE Stays == UNCHANGED <<state, queue, InFlight, dropped, accepted>>
<1>d. Stays => FifoExactlyOnce'
  BY FifoStays
<1> HIDE DEF Stays
<1> USE DEF TypeOK, Goto
<1>1. CASE StartSync(t)
  <2>1. Stays
    BY <1>0, <1>a, <1>b, <1>1 DEF StartSync, fields, Stays
  <2> QED
    BY <2>1, <1>d
<1>2. CASE SubscribeCall(t)
  <2>1. Stays
    BY <1>2 DEF SubscribeCall, fields, InFlight, Stays
  <2> QED
    BY <2>1, <1>d
<1>3. CASE DrainDone(t)
  <2>1. Stays
    BY <1>0, <1>a, <1>c, <1>3 DEF DrainDone, history, Stays
  <2> QED
    BY <2>1, <1>d
<1>4. CASE DrainPop(t)
  <2>1. /\ queue # <<>> /\ InFlight = {} /\ InFlight' = {Head(queue)}
        /\ queue' = Tail(queue) /\ UNCHANGED <<state, dropped, accepted>>
    BY <1>0, <1>a, <1>b, <1>4 DEF DrainPop, history
  <2> QED
    BY <1>0, <2>1, FifoTake
<1>5. CASE ProcessStopped(t)
  <2>1. /\ InFlight' = {} /\ dropped' = dropped \cup InFlight
        /\ UNCHANGED <<state, queue, accepted>>
    BY <1>0, <1>a, <1>b, <1>5 DEF ProcessStopped, fields
  <2> QED
    BY <1>0, <2>1, FifoGiveUp
<1>6. CASE ProcessRead(t)
  <2>1. Stays
    BY <1>0, <1>a, <1>b, <1>6 DEF ProcessRead, fields, history, Stays
  <2> QED
    BY <2>1, <1>d
<1>7. CASE Commit(t)
  <2>1. /\ InFlight = {ev[t]} /\ InFlight' = {} /\ state' = Append(state, ev[t])
        /\ UNCHANGED <<queue, dropped, accepted>>
    BY <1>0, <1>a, <1>b, <1>7 DEF Commit, RunToCompletion
  <2>2. ev[t] \in Nat /\ ev[t] # Restored
    BY <1>0, <2>1 DEF FifoExactlyOnce, Restored
  <2> QED
    BY <1>0, <2>1, <2>2, FifoFold
<1>8. CASE Return(t)
  <2>1. Stays
    BY <1>0, <1>a, <1>b, <1>8 DEF Return, fields, history, Stays
  <2> QED
    BY <2>1, <1>d
<1>9. CASE ExecCheck(t)
  <2>1. Stays
    BY <1>0, <1>a, <1>b, <1>9 DEF ExecCheck, fields, history, Stays
  <2> QED
    BY <2>1, <1>d
<1>10. CASE ActionBegin(t)
  <2>1. Stays
    BY <1>0, <1>a, <1>b, <1>10 DEF ActionBegin, fields, history, Stays
  <2> QED
    BY <2>1, <1>d
<1>11. CASE NotifyCopy(t)
  <2>1. Stays
    BY <1>0, <1>a, <1>b, <1>11 DEF NotifyCopy, fields, history, Stays
  <2> QED
    BY <2>1, <1>d
<1>12. CASE NotifyCheck(t)
  <2>1. Stays
    BY <1>0, <1>a, <1>b, <1>12 DEF NotifyCheck, fields, history, Stays
  <2> QED
    BY <2>1, <1>d
<1>13. CASE NotifyCall(t)
  <2>1. Stays
    BY <1>0, <1>a, <1>b, <1>13 DEF NotifyCall, fields, Stays
  <2> QED
    BY <2>1, <1>d
<1>14. CASE Raise(t)
  <2>1. /\ InFlight' = {} /\ dropped' = dropped \cup InFlight
        /\ UNCHANGED <<state, queue, accepted>>
    BY <1>0, <1>a, <1>b, <1>14 DEF Raise, fields
  <2> QED
    BY <1>0, <2>1, FifoGiveUp
<1>15. CASE Fail(t)
  <2>1. /\ queue' = <<>> /\ dropped' = dropped \cup Values(queue)
        /\ UNCHANGED <<state, InFlight, accepted>>
    BY <1>0, <1>a, <1>c, <1>15 DEF Fail
  <2> QED
    BY <1>0, <2>1, FifoDiscard
<1> QED
  BY <1>1, <1>2, <1>3, <1>4, <1>5, <1>6, <1>7, <1>8, <1>9, <1>10, <1>11, <1>12, <1>13,
     <1>14, <1>15 DEF Work

LEMMA FifoStep == IInv /\ IInv' /\ FifoInv /\ [Next]_vars => FifoInv'
<1> SUFFICES ASSUME IInv, IInv', FifoExactlyOnce, Fresh, [Next]_vars PROVE FifoExactlyOnce'
  BY FreshStep DEF FifoInv
<1>0. TypeOK /\ SingleOwner /\ SingleOwner' /\ Quiet
  BY DEF IInv
<1>1. ASSUME NEW t \in Thread, Work(t) PROVE FifoExactlyOnce'
  BY <1>1, FifoWork
<1>2. ASSUME NEW t \in Thread, Start(t) PROVE FifoExactlyOnce'
  <2>1. InFlight = {}
    BY <1>0, <1>2, InFlightIdle DEF Start, Quiet
  <2>2. InFlight' = {}
    BY <1>0, <1>2 DEF Start, Goto, SingleOwner, InFlight, TypeOK, MayCall, Quiet
  <2>3. /\ accepted = 0 /\ queue = <<>> /\ state' \in {state, <<Restored>>}
        /\ UNCHANGED <<queue, dropped, accepted>>
    BY <1>0, <1>2 DEF Start, Quiet, Fresh, history
  <2> QED
    BY <1>0, <2>1, <2>2, <2>3, FifoStart
<1>3. ASSUME NEW t \in Thread, Send(t) PROVE FifoExactlyOnce'
  <2>1. InFlight' = InFlight
    <3>1. CASE processing
      BY <1>3, <3>1 DEF Send, InFlight
    <3>2. CASE ~processing
      BY <1>0, <1>3, <3>2, InFlightIdle DEF Send, Goto, TypeOK, SingleOwner, InFlight
    <3> QED
      BY <3>1, <3>2
  <2>2. /\ accepted' = accepted + 1 /\ queue' = Append(queue, accepted + 1)
        /\ UNCHANGED <<state, dropped>>
    BY <1>3 DEF Send
  <2> QED
    BY <1>0, <2>1, <2>2, FifoAccept
<1>4. ASSUME NEW t \in Thread, Stop(t) PROVE FifoExactlyOnce'
  <2>1. /\ queue' = <<>> /\ dropped' = dropped \cup Values(queue)
        /\ UNCHANGED <<state, InFlight, accepted>>
    BY <1>4 DEF Stop, locals, InFlight
  <2> QED
    BY <1>0, <2>1, FifoDiscard
<1>5. ASSUME NEW t \in Thread, NEW l \in Listener, Subscribe(t, l) PROVE FifoExactlyOnce'
  <2>1. UNCHANGED <<state, queue, InFlight, dropped, accepted>>
    BY <1>5 DEF Subscribe, history, InFlight
  <2> QED
    BY <2>1, FifoStays
<1>6. ASSUME NEW t \in Thread, NEW l \in Listener, Unsubscribe(t, l) PROVE FifoExactlyOnce'
  <2>1. UNCHANGED <<state, queue, InFlight, dropped, accepted>>
    BY <1>6 DEF Unsubscribe, locals, history, InFlight
  <2> QED
    BY <2>1, FifoStays
<1>7. CASE UNCHANGED vars
  <2>1. UNCHANGED <<state, queue, InFlight, dropped, accepted>>
    BY <1>7 DEF vars, fields, locals, history, InFlight
  <2> QED
    BY <2>1, FifoStays
<1> QED
  BY <1>1, <1>2, <1>3, <1>4, <1>5, <1>6, <1>7, StepCases

\* Whatever threads send, stop or raise, every accepted event is queued, in
\* flight, folded into the snapshot or discarded, never two of these, and
\* events are folded in the order in which they were accepted.
THEOREM EventsOnceInOrder == Spec => []FifoExactlyOnce
<1>1. FifoInv => FifoExactlyOnce
  BY DEF FifoInv
<1> QED
  BY <1>1, FifoInit, FifoStep, Invariance, PTL DEF Spec

-----------------------------------------------------------------------------
(* No listener misses the last snapshot *)

\* Listener l has heard the current snapshot, or is about to hear it first.
Served(l) ==
    \/ best[l] = Len(state) + 1
    \/ \E t \in Thread : \E c \in sub[t] : c.listener = l /\ c.seen = Len(state) + 1

\* The listeners thread t has still to tell of its snapshot, or may have to.
Telling(t) ==
    IF pc[t] \in {"started", "inspect", "exec", "call", "action", "notify"} THEN Listener
    ELSE IF pc[t] \in {"loop", "deliver", "listener"} THEN targets[t] ELSE {}

\* NoMissedSnapshot at every step: who is not served will be told.
Told ==
    Running /\ skipped # Len(state) + 1 =>
        \A l \in listeners : Served(l) \/ \E t \in Thread : l \in Telling(t)

\* Nothing a listener was given is newer than the current snapshot.
Recent ==
    /\ status = "not_started" => state = <<>>
    /\ \A l \in Listener : best[l] <= Len(state) + 1
    /\ \A t \in Thread : \A c \in sub[t] : c.seen <= Len(state) + 1 /\ sub[t] = {c}

LEMMA HeardInit == Init => Told /\ Recent
BY DEF Init, Told, Recent

LEMMA LenTypes ==
    ASSUME TypeOK
    PROVE  /\ Len(state) \in Nat /\ \A t \in Thread : Len(snap[t]) \in Nat
           /\ \A t \in Thread : Len(Append(snap[t], ev[t])) = Len(snap[t]) + 1
BY DEF TypeOK, Snapshot

\* A step that installs no snapshot and gives nothing to a listener.
LEMMA RecentStays ==
    ASSUME Recent, UNCHANGED <<state, best, sub>>, status' = "not_started" => status = "not_started"
    PROVE  Recent'
BY DEF Recent

\* Listener l is given the current snapshot or an older one.
LEMMA RecentHears ==
    ASSUME TypeOK, Recent, NEW l \in Listener, NEW n \in Nat, n <= Len(state) + 1, Hear(l, n)
    PROVE  /\ \A k \in Listener : best'[k] <= Len(state) + 1
           /\ \A k \in Listener : best[k] = Len(state) + 1 => best'[k] = Len(state) + 1
           /\ n = Len(state) + 1 => best'[l] = Len(state) + 1
<1>1. /\ Len(state) \in Nat /\ best \in [Listener -> Nat]
      /\ \A k \in Listener : best[k] <= Len(state) + 1
  BY LenTypes DEF TypeOK, Recent
<1>2. best' = [best EXCEPT ![l] = IF n > best[l] THEN n ELSE best[l]]
  BY DEF Hear
<1> QED
  BY <1>1, <1>2

LEMMA RecentWork ==
    ASSUME IInv, Recent, NEW t \in Thread, Work(t)
    PROVE  Recent'
<1>0. TypeOK /\ SingleOwner /\ RunToCompletion
  BY DEF IInv
<1>1. CASE SubscribeCall(t)
  <2>1. PICK c \in sub[t] : Hear(c.listener, c.seen)
    BY <1>1 DEF SubscribeCall
  <2>2. c.listener \in Listener /\ c.seen \in Nat /\ c.seen <= Len(state) + 1
    BY <1>0 DEF TypeOK, FirstCall, Recent
  <2>3. \A k \in Listener : best'[k] <= Len(state) + 1
    BY <1>0, <2>1, <2>2, RecentHears
  <2> QED
    BY <1>0, <1>1, <2>3 DEF SubscribeCall, fields, Recent, TypeOK
<1>2. CASE NotifyCall(t)
  <2>1. PICK l \in targets[t] : Hear(l, Len(snap[t]) + 1)
    BY <1>2 DEF NotifyCall
  <2>2. l \in Listener /\ Len(snap[t]) = Len(state)
    BY <1>0, <1>2 DEF NotifyCall, TypeOK, RunToCompletion, Effect
  <2>3. Len(snap[t]) + 1 \in Nat /\ Len(snap[t]) + 1 <= Len(state) + 1
    BY <1>0, <2>2, LenTypes
  <2>4. \A k \in Listener : best'[k] <= Len(state) + 1
    BY <1>0, <2>1, <2>2, <2>3, RecentHears
  <2> QED
    BY <1>2, <2>4 DEF NotifyCall, fields, Recent
<1>3. CASE Commit(t)
  <2>1. Len(state') = Len(state) + 1
    BY <1>0, <1>3, LenTypes DEF Commit, RunToCompletion
  <2>2. \A l \in Listener : best[l] \in Nat
    BY <1>0 DEF TypeOK
  <2>3. \A u \in Thread : \A c \in sub[u] : c.seen \in Nat
    BY <1>0 DEF TypeOK, FirstCall
  <2>4. UNCHANGED <<status, best, sub>> /\ Running
    BY <1>3 DEF Commit
  <2> QED
    BY <1>0, <2>1, <2>2, <2>3, <2>4, LenTypes DEF Recent, Running
<1>4. CASE ~SubscribeCall(t) /\ ~NotifyCall(t) /\ ~Commit(t)
  <2>1. UNCHANGED <<state, best, sub, status>>
    BY <1>4 DEF Work, StartSync, DrainDone, DrainPop, ProcessStopped, ProcessRead, Return,
       ExecCheck, ActionBegin, NotifyCopy, NotifyCheck, Raise, Fail, fields, history
  <2> QED
    BY <2>1, RecentStays
<1> QED
  BY <1>1, <1>2, <1>3, <1>4

LEMMA RecentStep == IInv /\ Recent /\ [Next]_vars => Recent'
<1> SUFFICES ASSUME IInv, Recent, [Next]_vars PROVE Recent'
  OBVIOUS
<1>0. TypeOK
  BY DEF IInv
<1>1. ASSUME NEW t \in Thread, Work(t) PROVE Recent'
  BY <1>1, RecentWork
<1>2. ASSUME NEW t \in Thread, Start(t) PROVE Recent'
  <2>1. state = <<>> /\ Len(state') \in Nat /\ Len(state) <= Len(state')
    BY <1>2 DEF Start, Recent
  <2>2. UNCHANGED <<best, sub>> /\ status' = "running"
    BY <1>2 DEF Start, history
  <2>3. /\ \A l \in Listener : best[l] \in Nat
        /\ \A u \in Thread : \A c \in sub[u] : c.seen \in Nat
    BY <1>0 DEF TypeOK, FirstCall
  <2> QED
    BY <1>0, <2>1, <2>2, <2>3, LenTypes DEF Recent
<1>3. ASSUME NEW t \in Thread, Send(t) PROVE Recent'
  BY <1>3, RecentStays DEF Send
<1>4. ASSUME NEW t \in Thread, Stop(t) PROVE Recent'
  BY <1>4, RecentStays DEF Stop, locals
<1>5. ASSUME NEW t \in Thread, NEW l \in Listener, Subscribe(t, l) PROVE Recent'
  <2>1. \A u \in Thread : sub'[u] = sub[u] \/ sub'[u] = {}
                          \/ sub'[u] = {[listener |-> l, seen |-> Len(state) + 1]}
    BY <1>0, <1>5 DEF Subscribe, TypeOK
  <2>2. UNCHANGED <<status, state, best>>
    BY <1>5 DEF Subscribe, history
  <2>3. \A u \in Thread : \A c \in sub'[u] : c.seen <= Len(state) + 1 /\ sub'[u] = {c}
    BY <1>0, <2>1, LenTypes DEF Recent
  <2> QED
    BY <2>2, <2>3 DEF Recent
<1>6. ASSUME NEW t \in Thread, NEW l \in Listener, Unsubscribe(t, l) PROVE Recent'
  BY <1>6, RecentStays DEF Unsubscribe, locals, history
<1>7. CASE UNCHANGED vars
  BY <1>7, RecentStays DEF vars, fields, locals, history
<1> QED
  BY <1>1, <1>2, <1>3, <1>4, <1>5, <1>6, <1>7, StepCases

\* Nobody who was served or about to be told is forgotten, and no one registers.
LEMMA ToldStays ==
    ASSUME Told, UNCHANGED <<state, skipped>>, Running' => Running,
           listeners' \subseteq listeners,
           \A l \in listeners' : Served(l) => Served(l)',
           \A l \in listeners', u \in Thread : l \in Telling(u) => Served(l)' \/ l \in Telling(u)'
    PROVE  Told'
BY DEF Told

LEMMA ToldWork ==
    ASSUME IInv, Recent, Told, NEW t \in Thread, Work(t)
    PROVE  Told'
<1>0. TypeOK /\ SingleOwner /\ RunToCompletion
  BY DEF IInv
<1> DEFINE Same == UNCHANGED <<status, state, listeners, best, sub, skipped>>
<1>a. Same => \A l \in listeners : Served(l) => Served(l)'
  BY DEF Served
<1>b. \A u \in Thread : UNCHANGED <<pc[u], targets[u]>> => Telling(u)' = Telling(u)
  BY DEF Telling
<1>c. ASSUME Same, \A l \in listeners, u \in Thread : l \in Telling(u) => l \in Telling(u)'
      PROVE  Told'
  BY <1>a, <1>c, ToldStays DEF Running
<1>d. ASSUME skipped' = Len(state') + 1 PROVE Told'
  BY <1>d DEF Told
<1>e. ASSUME ~Running' PROVE Told'
  BY <1>e DEF Told
<1> USE DEF TypeOK, Goto
<1>1. CASE StartSync(t)
  <2>1. CASE skipped' = Len(state) + 1
    BY <1>1, <1>d, <2>1 DEF StartSync, fields
  <2>2. CASE skipped' # Len(state) + 1
    BY <1>0, <1>1, <1>b, <1>c, <2>2 DEF StartSync, fields, Telling
  <2> QED
    BY <2>1, <2>2
<1>2. CASE SubscribeCall(t)
  <2>1. PICK c \in sub[t] : Hear(c.listener, c.seen)
    BY <1>2 DEF SubscribeCall
  <2>2. c.listener \in Listener /\ c.seen \in Nat /\ c.seen <= Len(state) + 1 /\ sub[t] = {c}
    BY <1>0 DEF FirstCall, Recent
  <2>3. /\ \A k \in Listener : best[k] = Len(state) + 1 => best'[k] = Len(state) + 1
        /\ c.seen = Len(state) + 1 => best'[c.listener] = Len(state) + 1
    BY <1>0, <2>1, <2>2, RecentHears
  <2>4. \A l \in listeners : Served(l) => Served(l)'
    BY <1>0, <1>2, <2>2, <2>3 DEF SubscribeCall, fields, Served
  <2>5. /\ \A u \in Thread : Telling(u)' = Telling(u)
        /\ UNCHANGED <<status, state, listeners, skipped>>
    BY <1>2, <1>b DEF SubscribeCall, fields
  <2> QED
    BY <2>4, <2>5, ToldStays DEF Running
<1>3. CASE DrainDone(t)
  BY <1>0, <1>3, <1>b, <1>c DEF DrainDone, history, Telling
<1>4. CASE DrainPop(t)
  BY <1>0, <1>4, <1>b, <1>c DEF DrainPop, history, Telling
<1>5. CASE ProcessStopped(t)
  BY <1>5, <1>e DEF ProcessStopped, fields, Running
<1>6. CASE ProcessRead(t)
  BY <1>0, <1>6, <1>b, <1>c DEF ProcessRead, fields, history, Telling
<1>7. CASE Commit(t)
  <2>1. CASE skipped' = Len(state') + 1
    BY <2>1, <1>d
  <2>2. CASE skipped' # Len(state') + 1
    <3>1. pc'[t] = "inspect" /\ listeners' \subseteq Listener
      BY <1>0, <1>7, <2>2 DEF Commit
    <3>2. \A l \in listeners' : l \in Telling(t)'
      BY <3>1 DEF Telling
    <3> QED
      BY <3>2 DEF Told
  <2> QED
    BY <2>1, <2>2
<1>8. CASE Return(t)
  BY <1>0, <1>8, <1>b, <1>c DEF Return, fields, history, Telling
<1>9. CASE ExecCheck(t)
  BY <1>0, <1>9, <1>b, <1>c DEF ExecCheck, fields, history, Telling
<1>10. CASE ActionBegin(t)
  BY <1>0, <1>10, <1>b, <1>c DEF ActionBegin, fields, history, Telling
<1>11. CASE NotifyCopy(t)
  BY <1>0, <1>11, <1>b, <1>c DEF NotifyCopy, fields, history, Telling
<1>12. CASE NotifyCheck(t)
  <2>1. CASE ~Running
    BY <1>12, <1>e, <2>1 DEF NotifyCheck, fields, Running
  <2>2. CASE Running
    BY <1>0, <1>12, <1>b, <1>c, <2>2 DEF NotifyCheck, fields, history, Telling
  <2> QED
    BY <2>1, <2>2
<1>13. CASE NotifyCall(t)
  <2>1. PICK k \in targets[t] : /\ Hear(k, Len(snap[t]) + 1)
                                /\ targets' = [targets EXCEPT ![t] = @ \ {k}]
    BY <1>13 DEF NotifyCall
  <2>2. k \in Listener /\ Len(snap[t]) = Len(state)
    BY <1>0, <1>13 DEF NotifyCall, RunToCompletion, Effect
  <2>3. Len(state) + 1 \in Nat /\ Len(snap[t]) + 1 <= Len(state) + 1
    BY <1>0, <2>2, LenTypes
  <2>4. /\ \A l \in Listener : best[l] = Len(state) + 1 => best'[l] = Len(state) + 1
        /\ best'[k] = Len(state) + 1
    BY <1>0, <2>1, <2>2, <2>3, RecentHears
  <2>5. UNCHANGED <<status, state, listeners, sub, skipped>>
    BY <1>13 DEF NotifyCall, fields
  <2>6. \A l \in listeners : Served(l) => Served(l)'
    BY <1>0, <2>4, <2>5 DEF Served
  <2>7. \A l \in listeners, u \in Thread : l \in Telling(u) => Served(l)' \/ l \in Telling(u)'
    <3>1. \A u \in Thread \ {t} : Telling(u)' = Telling(u)
      BY <1>0, <1>13, <1>b, <2>1 DEF NotifyCall
    <3>2. Telling(t) = targets[t] /\ Telling(t)' = targets[t] \ {k}
      BY <1>0, <1>13, <2>1 DEF NotifyCall, Telling
    <3>3. Served(k)'
      BY <2>4, <2>5 DEF Served
    <3> QED
      BY <3>1, <3>2, <3>3
  <2> QED
    BY <2>5, <2>6, <2>7, ToldStays DEF Running
<1>14. CASE Raise(t)
  BY <1>14, <1>d DEF Raise, fields
<1>15. CASE Fail(t)
  BY <1>0, <1>15, <1>b, <1>c DEF Fail, Telling
<1> QED
  BY <1>1, <1>2, <1>3, <1>4, <1>5, <1>6, <1>7, <1>8, <1>9, <1>10, <1>11, <1>12, <1>13,
     <1>14, <1>15 DEF Work

LEMMA ToldStep == IInv /\ Recent /\ Told /\ [Next]_vars => Told'
<1> SUFFICES ASSUME IInv, Recent, Told, [Next]_vars PROVE Told'
  OBVIOUS
<1>0. TypeOK /\ SingleOwner /\ Quiet
  BY DEF IInv
<1>1. ASSUME NEW t \in Thread, Work(t) PROVE Told'
  BY <1>1, ToldWork
<1>2. ASSUME NEW t \in Thread, Start(t) PROVE Told'
  <2>1. pc'[t] = "started" /\ listeners' \subseteq Listener
    BY <1>0, <1>2 DEF Start, Goto, TypeOK
  <2>2. \A l \in listeners' : l \in Telling(t)'
    BY <2>1 DEF Telling
  <2> QED
    BY <2>2 DEF Told
<1>3. ASSUME NEW t \in Thread, Send(t) PROVE Told'
  <2>1. UNCHANGED <<status, state, listeners, best, sub, skipped, targets>>
    BY <1>3 DEF Send
  <2>2. \A u \in Thread : Telling(u)' = Telling(u)
    <3>1. CASE processing
      BY <1>3, <3>1 DEF Send, Telling
    <3>2. CASE ~processing
      BY <1>0, <1>3, <3>2 DEF Send, Telling, Goto, TypeOK, SingleOwner
    <3> QED
      BY <3>1, <3>2
  <2>3. \A l \in listeners : Served(l) => Served(l)'
    BY <2>1 DEF Served
  <2> QED
    BY <2>1, <2>2, <2>3, ToldStays DEF Running
<1>4. ASSUME NEW t \in Thread, Stop(t) PROVE Told'
  BY <1>4 DEF Stop, Told, Running
<1>5. ASSUME NEW t \in Thread, NEW l \in Listener, Subscribe(t, l) PROVE Told'
  <2>1. CASE ~Running
    BY <1>5, <2>1 DEF Subscribe, Told, Running
  <2>2. CASE Running
    <3>1. /\ UNCHANGED <<status, state, best, skipped, pc, targets>>
          /\ listeners' = listeners \cup {l}
          /\ sub[t] = {} /\ sub' = [sub EXCEPT ![t] = {[listener |-> l, seen |-> Len(state) + 1]}]
      BY <1>5, <2>2 DEF Subscribe, MayCall, history
    <3>2. \A u \in Thread : Telling(u)' = Telling(u)
      BY <3>1 DEF Telling
    <3>3. \A k \in listeners : Served(k) => Served(k)'
      BY <1>0, <3>1 DEF Served, TypeOK
    <3>4. Served(l)'
      BY <1>0, <3>1 DEF Served, TypeOK
    <3> QED
      BY <3>1, <3>2, <3>3, <3>4 DEF Told, Running
  <2> QED
    BY <2>1, <2>2
<1>6. ASSUME NEW t \in Thread, NEW l \in Listener, Unsubscribe(t, l) PROVE Told'
  <2>1. /\ UNCHANGED <<status, state, best, sub, skipped, pc, targets>>
        /\ listeners' \subseteq listeners
    BY <1>6 DEF Unsubscribe, locals, history
  <2> QED
    BY <2>1 DEF Told, Served, Telling, Running
<1>7. CASE UNCHANGED vars
  BY <1>7 DEF vars, fields, locals, history, Told, Served, Telling, Running
<1> QED
  BY <1>1, <1>2, <1>3, <1>4, <1>5, <1>6, <1>7, StepCases

\* When nothing is being processed, every registered listener has the current
\* snapshot or is about to get it from its own subscribe, unless the effects of
\* that snapshot raised: whenever it subscribed, and whoever commits meanwhile.
THEOREM ListenersAreCurrent == Spec => []NoMissedSnapshot
<1>1. IInv /\ Told => NoMissedSnapshot
  <2> SUFFICES ASSUME SingleOwner, Told, ~processing PROVE NoMissedSnapshot
    BY DEF IInv, NoMissedSnapshot
  <2>1. \A t \in Thread : Telling(t) = {}
    BY DEF SingleOwner, Telling
  <2> QED
    BY <2>1 DEF Told, Served, NoMissedSnapshot
<1> QED
  BY <1>1, HeardInit, RecentStep, ToldStep, Invariance, PTL DEF Spec
=============================================================================
