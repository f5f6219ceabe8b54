----------------------------- MODULE AsyncProofs -----------------------------
(***************************************************************************)
(* Theorems about AsyncInterpreter, for every set of tasks, delays and ids *)
(* and every bound on sends, actions and cancellations.                    *)
(*                                                                         *)
(* The argument: a task touches its own locals only, and other tasks only  *)
(* by waking or cancelling them (Footprint).  So the boundary has one      *)
(* owner across every suspension (SingleOwner), an event that was popped   *)
(* has not been popped before (Once) and is folded in before its actions   *)
(* run (Taken), and a future that is still pending belongs to an event     *)
(* that is queued or in the owner's hands (PromisesKept).                  *)
(***************************************************************************)
EXTENDS AsyncInterpreter, TLAPS

\* Outside its life the object has no owner and no queue, and nothing is
\* between the pop of an event and its transition: stop cannot run there.
Quiet ==
    /\ status = "not_started" => owner = None
    /\ ~Running => queue = <<>>
    /\ \A t \in Coro : pc[t] = "popped" => Running

\* Events are numbers of accepted sends, and futures exist for those only.
Numbered ==
    /\ status = "not_started" => accepted = 0
    /\ Values(queue) \subseteq 1..accepted
    /\ \A t \in Coro : ev[t] \in 0..accepted
    /\ Values(state) \subseteq 0..accepted
    /\ \A e \in 1..MaxSends : e > accepted => fut[e] = "none"

\* No event is popped twice.
Distinct(s) == \A i, j \in DOMAIN s : s[i] = s[j] => i = j
Once ==
    /\ Distinct(queue)
    /\ Values(queue) \cap Values(state) = {}
    /\ \A t \in Coro : ev[t] \notin Values(queue)

\* A pending future belongs to an event that is queued or was popped; one with
\* a result, to an event that was folded in and is over, or to a stop.
Answers ==
    \A e \in 1..accepted :
        /\ fut[e] = "pending" => e \in Values(queue) \/ \E t \in Coro : ev[t] = e
        /\ fut[e] = "result" =>
               \/ status = "stopped"
               \/ e \in Values(state) /\ \A t \in Coro : ev[t] # e

\* A driver has the event it popped, and has folded it in before its actions.
Acting == {"exec", "action", "await", "gather"}
TakenBy(t) == ev[t] # 0 => /\ Drives(t) /\ pc[t] # "drain"
                           /\ pc[t] \in Acting => ev[t] \in Values(state)
Taken == \A t \in Coro : TakenBy(t)

Data == Numbered /\ Once /\ Answers

\* The inductive invariant of the ownership protocol.
OInv == TypeOK /\ SingleOwner /\ Quiet

-----------------------------------------------------------------------------
\* A step of AsyncInterpreter is a step of one task, or changes nothing.
LEMMA StepCases ==
    ASSUME [Next]_vars
    PROVE  (\E t \in Coro : Work(t) \/ Call(t)) \/ UNCHANGED vars
BY DEF Next

\* None is no task, and a task of the application is no timer.
LEMMA Names ==
    /\ None \notin Coro /\ None \notin Timer
    /\ Task \cap Timer = {} /\ AfterTask \cap SendTask = {}
    /\ Task \subseteq Coro /\ Timer \subseteq Coro /\ AfterTask \subseteq Timer
    /\ SendTask \subseteq Timer
BY AsyncAssumption DEF Coro, Timer

\* Values of a sequence over a set are members of that set.
LEMMA ValuesIn ==
    ASSUME NEW S, NEW s \in Seq(S)
    PROVE  Values(s) \subseteq S
BY DEF Values

-----------------------------------------------------------------------------
(* What the operators of the timer tables do *)

\* Tasks that are made come from the free ones, one for each state.
LEMMA Making ==
    ASSUME NEW made, NEW new \in Made(made)
    PROVE  /\ new \in [made -> Free \cap AfterTask]
           /\ \A a, b \in made : new[a] = new[b] => a = b
<1>1. new \in TasksFor(made)
  BY DEF Made
<1> QED
  BY <1>1 DEF TasksFor

LEMMA MakingSend ==
    ASSUME NEW k \in NewSend
    PROVE  k \in Free \cap SendTask
BY DEF NewSend

\* Cancelling tasks settles the pending futures they await, and no other.
LEMMA Cancelling ==
    ASSUME TypeOK, NEW S
    PROVE  /\ FutCancelled(S) \in
                  [1..MaxSends -> {"none", "pending", "result", "failed", "cancelled"}]
           /\ \A e \in 1..MaxSends :
                 \/ FutCancelled(S)[e] = fut[e]
                 \/ fut[e] = "pending" /\ FutCancelled(S)[e] = "cancelled"
           /\ Cancelled(S, "own") \in [Coro -> {"no", "app", "own"}]
           /\ \A t \in Coro : Cancelled(S, "own")[t] =
                                 IF t \in S /\ pc[t] # "done" THEN "own" ELSE cancel[t]
<1> USE DEF TypeOK
<1>1. \A e \in 1..MaxSends : FutCancelled(S)[e] =
          IF e \in Abandoned(S) /\ fut[e] = "pending" THEN "cancelled" ELSE fut[e]
  BY DEF FutCancelled
<1>2. DOMAIN FutCancelled(S) = 1..MaxSends
      /\ FutCancelled(S) = [e \in 1..MaxSends |-> FutCancelled(S)[e]]
  BY DEF FutCancelled
<1>3. \A t \in Coro : Cancelled(S, "own")[t] =
                         IF t \in S /\ pc[t] # "done" THEN "own" ELSE cancel[t]
  BY DEF Cancelled
<1>4. Cancelled(S, "own") = [t \in Coro |-> Cancelled(S, "own")[t]]
  BY DEF Cancelled
<1>5. \A t \in Coro : Cancelled(S, "own")[t] \in {"no", "app", "own"}
  BY <1>3
<1>6. Cancelled(S, "own") \in [Coro -> {"no", "app", "own"}]
  BY <1>4, <1>5
<1>7. \A e \in 1..MaxSends :
         FutCancelled(S)[e] \in {"none", "pending", "result", "failed", "cancelled"}
  BY <1>1
<1>8. FutCancelled(S) \in
          [1..MaxSends -> {"none", "pending", "result", "failed", "cancelled"}]
  BY <1>2, <1>7
<1> QED
  BY <1>1, <1>3, <1>6, <1>8

\* Task u was over and is made anew.
Wakes(u) == u \in Timer /\ pc[u] = "done" /\ pc'[u] = "sleep"

\* Only t goes on; other tasks stay where they are or are made anew.
Alone(t) == \A u \in Coro \ {t} : pc'[u] = pc[u] \/ Wakes(u)

\* Futures are left alone or cancelled.
Settles == \A e \in 1..MaxSends :
               fut'[e] = fut[e] \/ (fut[e] = "pending" /\ fut'[e] = "cancelled")

\* The `after` tasks that may still fire are in the table.
Reachable == \A k \in AfterTask : pc[k] = "sleep" /\ cancel[k] = "no" =>
                 \E a \in After : scheduled[a] = k

\* What _sync_delays makes true, whether it comes to its end or not.
Rescheduled(t, wanted) ==
    /\ pc' \in [Coro -> PC] /\ Alone(t) /\ pc'[t] \in {"exec", "fail"}
    /\ cancel' \in [Coro -> {"no", "app", "own"}]
    /\ fut' \in [1..MaxSends -> {"none", "pending", "result", "failed", "cancelled"}]
    /\ scheduled' \in [After -> Timer \cup {None}]
    /\ Settles
    /\ \A a \in After : scheduled'[a] # None => a \in wanted
    /\ Reachable => Reachable'

LEMMA Syncing ==
    ASSUME TypeOK, NEW t \in Coro, pc[t] # "done",
           NEW label \in {"exec", "fail"}, NEW wanted \in SUBSET After,
           NEW made \in SUBSET Missing(wanted), SyncDelays(t, label, wanted, made)
    PROVE  Rescheduled(t, wanted)
<1> DEFINE gone == Unwanted(wanted)
           asked == {scheduled[a] : a \in gone}
<1>1. PICK new \in Made(made) : Reschedule(t, label, gone, new, asked)
  BY DEF SyncDelays
<1>2. /\ new \in [made -> Free \cap AfterTask]
      /\ \A a \in made : new[a] \in Free /\ new[a] \in AfterTask
  BY Making
<1> DEFINE fresh == {new[a] : a \in DOMAIN new}
<1>3. /\ DOMAIN new = made /\ made \subseteq After /\ made \subseteq wanted
      /\ \A a \in made : scheduled[a] = None
  BY <1>2 DEF Missing
<1>4. \A u \in fresh : /\ u \in AfterTask /\ u \in Timer /\ u \in Coro
                       /\ pc[u] = "done" /\ u # t /\ u \notin Held
  BY <1>2, <1>3, Names DEF Free
<1>5. /\ scheduled' = [a \in After |-> IF a \in made THEN new[a]
                                       ELSE IF a \in gone THEN None ELSE scheduled[a]]
      /\ cancel' = [u \in Coro |-> IF u \in fresh THEN "no" ELSE Cancelled(asked, "own")[u]]
      /\ fut' = FutCancelled(asked)
      /\ pc' = [u \in Coro |-> IF u \in fresh THEN "sleep"
                               ELSE IF u = t THEN label ELSE pc[u]]
  BY <1>1, <1>3 DEF Reschedule
<1> HIDE DEF asked, fresh
<1>6. /\ Cancelled(asked, "own") \in [Coro -> {"no", "app", "own"}]
      /\ \A u \in Coro : Cancelled(asked, "own")[u] =
                            IF u \in asked /\ pc[u] # "done" THEN "own" ELSE cancel[u]
  BY Cancelling
<1>7. /\ Settles
      /\ fut' \in [1..MaxSends -> {"none", "pending", "result", "failed", "cancelled"}]
  BY <1>5, Cancelling DEF Settles
<1>8. /\ \A u \in Coro : pc'[u] = IF u \in fresh THEN "sleep"
                                  ELSE IF u = t THEN label ELSE pc[u]
      /\ pc' \in [Coro -> PC]
  <2>1. pc \in [Coro -> PC] /\ label \in PC /\ "sleep" \in PC
    BY DEF TypeOK, PC
  <2> QED
    BY <1>5, <2>1
<1>9. Alone(t) /\ pc'[t] \in {"exec", "fail"}
  BY <1>4, <1>8 DEF Alone, Wakes
<1>10. cancel' \in [Coro -> {"no", "app", "own"}]
       /\ \A u \in Coro : cancel'[u] = IF u \in fresh THEN "no"
                          ELSE IF u \in asked /\ pc[u] # "done" THEN "own" ELSE cancel[u]
  BY <1>5, <1>6
<1>11. /\ \A a \in After : scheduled'[a] = IF a \in made THEN new[a]
                                ELSE IF a \in gone THEN None ELSE scheduled[a]
       /\ scheduled' \in [After -> Timer \cup {None}]
  <2>1. scheduled \in [After -> Timer \cup {None}] /\ \A a \in made : new[a] \in Timer
    BY <1>2, Names DEF TypeOK
  <2> QED
    BY <1>5, <2>1
<1>12. \A a \in After : scheduled'[a] # None => a \in wanted
  BY <1>11, <1>3 DEF Unwanted
<1>13. ASSUME Reachable PROVE Reachable'
  <2> SUFFICES ASSUME NEW k \in AfterTask, pc'[k] = "sleep", cancel'[k] = "no"
               PROVE  \E a \in After : scheduled'[a] = k
    BY DEF Reachable
  <2>0. k \in Coro /\ k # None
    BY Names
  <2>1. CASE k \in fresh
    <3>1. PICK a \in made : k = new[a]
      BY <2>1, <1>3 DEF fresh
    <3> QED
      BY <3>1, <1>3, <1>11
  <2>2. CASE k \notin fresh
    <3>1. pc[k] = "sleep" /\ ~(k \in asked /\ pc[k] # "done") /\ cancel[k] = "no"
      BY <2>0, <2>2, <1>8, <1>10
    <3>2. PICK a \in After : scheduled[a] = k
      BY <1>13, <3>1 DEF Reachable
    <3>3. a \notin gone /\ a \notin made
      BY <3>1, <3>2, <2>0, <1>3 DEF asked
    <3> QED
      BY <3>2, <3>3, <1>11
  <2> QED
    BY <2>1, <2>2
<1> QED
  BY <1>7, <1>8, <1>9, <1>10, <1>11, <1>12, <1>13 DEF Rescheduled

LEMMA Reconciling ==
    ASSUME TypeOK, NEW t \in Coro, pc[t] # "done", NEW wanted \in SUBSET After,
           Reconcile(t, wanted)
    PROVE  /\ Rescheduled(t, wanted) /\ running' = t
           /\ todo' \in [Coro -> 0..MaxActions]
           /\ \A u \in Coro \ {t} : todo'[u] = todo[u]
<1>1. Missing(wanted) \subseteq Missing(wanted)
  OBVIOUS
<1>2. Rescheduled(t, wanted) /\ running' = t
  <2>1. CASE SyncDelays(t, "exec", wanted, Missing(wanted))
    <3>1. "exec" \in {"exec", "fail"}
      OBVIOUS
    <3> QED
      BY <2>1, <3>1, <1>1, Syncing DEF Reconcile
  <2>2. CASE \E made \in SUBSET Missing(wanted) : SyncDelays(t, "fail", wanted, made)
    <3>1. "fail" \in {"exec", "fail"}
      OBVIOUS
    <3> QED
      BY <2>2, <3>1, Syncing DEF Reconcile
  <2> QED
    BY <2>1, <2>2 DEF Reconcile
<1>3. \/ todo' = todo
      \/ \E n \in 0..MaxActions : todo' = [todo EXCEPT ![t] = n]
  BY DEF Reconcile
<1>4. todo \in [Coro -> 0..MaxActions]
  BY DEF TypeOK
<1> QED
  BY <1>2, <1>3, <1>4

-----------------------------------------------------------------------------
(* Types *)

LEMMA TypeInit == Init => TypeOK
<1> SUFFICES ASSUME Init PROVE TypeOK
  OBVIOUS
<1> USE DEF Init
<1>1. /\ status \in Status /\ state \in Seq(0..MaxSends)
      /\ queue \in Seq(1..MaxSends) /\ active \subseteq After
      /\ owner \in Coro \cup {None} /\ running \in Coro \cup {None}
  BY DEF Status
<1>2. processing \in BOOLEAN
  BY Zenon
<1>3. /\ scheduled \in [After -> Timer \cup {None}]
      /\ sends \in [SendId \cup SendTask -> Timer \cup {None}]
  OBVIOUS
<1>4. /\ fut \in [1..MaxSends -> {"none", "pending", "result", "failed", "cancelled"}]
      /\ cancel \in [Coro -> {"no", "app", "own"}]
      /\ pc \in [Coro -> PC]
  BY DEF PC
<1>5. /\ own \in [Coro -> 0..MaxSends] /\ ev \in [Coro -> 0..MaxSends]
      /\ todo \in [Coro -> 0..MaxActions]
      /\ accepted \in 0..MaxSends /\ cancels \in 0..MaxCancels
  BY AsyncAssumption
<1>6. wait \in [Coro -> SUBSET Timer] /\ back \in [Coro -> {"idle", "action"}]
  OBVIOUS
<1> QED
  BY <1>1, <1>2, <1>3, <1>4, <1>5, <1>6 DEF TypeOK

\* What one step of task t may touch: it runs alone, its own locals change, and
\* of the other tasks it only makes some anew.
Footprint(t) ==
    /\ running \in {None, t}
    /\ Alone(t)
    /\ \A u \in Coro \ {t} :
          /\ own'[u] = own[u] /\ ev'[u] = ev[u] /\ todo'[u] = todo[u]
          /\ wait'[u] = wait[u] /\ back'[u] = back[u]

\* The next action of a snapshot is counted down.
LEMMA CountDown ==
    ASSUME TypeOK, NEW t \in Coro, NextAction(t)
    PROVE  /\ running \in {None, t} /\ pc[t] = "exec" /\ Running
           /\ todo' \in [Coro -> 0..MaxActions]
           /\ \A u \in Coro \ {t} : todo'[u] = todo[u]
<1>1. todo \in [Coro -> 0..MaxActions] /\ todo[t] > 0
  BY DEF TypeOK, NextAction
<1>2. todo[t] - 1 \in 0..MaxActions /\ todo' = [todo EXCEPT ![t] = todo[t] - 1]
  BY <1>1, AsyncAssumption DEF NextAction
<1> QED
  BY <1>1, <1>2 DEF NextAction, Turn

\* Where a step goes.
LEMMA Going ==
    \A t \in Coro, label \in PC : TypeOK /\ Goto(t, label) =>
        /\ pc' \in [Coro -> PC] /\ running' \in Coro \cup {None}
        /\ pc'[t] = label
        /\ \A u \in Coro \ {t} : pc'[u] = pc[u]
        /\ running' = IF label \in Suspended THEN None ELSE t
BY DEF TypeOK, Goto

\* A task that stops waits for the timer tasks that are left, and remembers
\* where it came from.
LEMMA Waits ==
    ASSUME TypeOK, NEW t \in Coro, Stop(t), pc[t] \in {"idle", "action"}
    PROVE  /\ wait' \in [Coro -> SUBSET Timer] /\ back' \in [Coro -> {"idle", "action"}]
           /\ \A u \in Coro \ {t} : wait'[u] = wait[u] /\ back'[u] = back[u]
<1>1. wait \in [Coro -> SUBSET Timer] /\ back \in [Coro -> {"idle", "action"}]
  BY DEF TypeOK
<1>2. (Held \ {None}) \ {t} \subseteq Timer
  BY DEF TypeOK, Held
<1>3. PICK S : S = (Held \ {None}) \ {t}
  OBVIOUS
<1>4. /\ wait' = wait \/ wait' = [wait EXCEPT ![t] = S]
      /\ back' = back \/ back' = [back EXCEPT ![t] = pc[t]]
  BY <1>3 DEF Stop
<1>5. S \in SUBSET Timer
  BY <1>2, <1>3
<1>6. wait' \in [Coro -> SUBSET Timer] /\ \A u \in Coro \ {t} : wait'[u] = wait[u]
  BY <1>1, <1>4, <1>5
<1>7. back' \in [Coro -> {"idle", "action"}] /\ \A u \in Coro \ {t} : back'[u] = back[u]
  BY <1>1, <1>4
<1> QED
  BY <1>6, <1>7

\* The locals of a task are reset when its call is over.
LEMMA Resets ==
    ASSUME TypeOK, NEW t \in Coro
    PROVE  /\ own' = [own EXCEPT ![t] = 0] =>
                  /\ own' \in [Coro -> 0..MaxSends] /\ own'[t] = 0
                  /\ \A u \in Coro \ {t} : own'[u] = own[u]
           /\ ev' = [ev EXCEPT ![t] = 0] =>
                  /\ ev' \in [Coro -> 0..MaxSends] /\ ev'[t] = 0
                  /\ \A u \in Coro \ {t} : ev'[u] = ev[u]
           /\ todo' = [todo EXCEPT ![t] = 0] =>
                  /\ todo' \in [Coro -> 0..MaxActions]
                  /\ \A u \in Coro \ {t} : todo'[u] = todo[u]
           /\ cancel' = [cancel EXCEPT ![t] = "no"] =>
                  cancel' \in [Coro -> {"no", "app", "own"}]
<1>1. 0 \in 0..MaxSends /\ 0 \in 0..MaxActions
  BY AsyncAssumption
<1>2. own \in [Coro -> 0..MaxSends] /\ ev \in [Coro -> 0..MaxSends]
      /\ todo \in [Coro -> 0..MaxActions] /\ cancel \in [Coro -> {"no", "app", "own"}]
  BY DEF TypeOK
<1> QED
  BY <1>1, <1>2

\* Every variable keeps its type, and a step has its footprint.
LEMMA TypeWork ==
    ASSUME TypeOK, NEW t \in Coro, Work(t)
    PROVE  TypeOK' /\ Footprint(t)
<1>0. Home(t) \in PC /\ None \notin Coro /\ Home(t) \in {"idle", "done"}
  BY Names DEF Home, PC
<1> USE AsyncAssumption DEF TypeOK, Footprint, Alone, Turn, Goto, fields, tables, locals
<1>1. CASE Answered(t)
  BY <1>1, <1>0 DEF Answered
<1>2. CASE FireStopped(t)
  BY <1>2 DEF FireStopped, Calls, PC
<1>3. CASE Gathered(t)
  <2>1. back[t] \in PC
    BY DEF PC
  <2> QED
    BY <1>3, <2>1 DEF Gathered
<1>4. CASE DrainPop(t)
  <2>1. Head(queue) \in 0..MaxSends /\ Tail(queue) \in Seq(1..MaxSends) /\ "popped" \in PC
    BY <1>4 DEF DrainPop, PC
  <2> QED
    BY <1>4, <2>1 DEF DrainPop
<1>5. CASE DrainDone(t)
  <2>1. pc' \in [Coro -> PC] /\ running' \in Coro \cup {None}
        /\ \A u \in Coro \ {t} : pc'[u] = pc[u]
    BY <1>5, <1>0, Going DEF DrainDone
  <2>2. /\ own' \in [Coro -> 0..MaxSends] /\ \A u \in Coro \ {t} : own'[u] = own[u]
        /\ cancel' \in [Coro -> {"no", "app", "own"}]
    BY <1>5, Resets DEF DrainDone
  <2>3. /\ running \in {None, t} /\ owner' \in Coro \cup {None} /\ processing' = FALSE
        /\ UNCHANGED <<status, state, queue, tables, fut, ev, todo, wait, back, accepted, cancels>>
    BY <1>5 DEF DrainDone
  <2> QED
    BY <2>1, <2>2, <2>3
<1>6. CASE Commit(t)
  <2>1. PICK w \in SUBSET After : w = active' /\ Reconcile(t, w)
    BY <1>6 DEF Commit
  <2>2. /\ Rescheduled(t, w) /\ running' = t
        /\ todo' \in [Coro -> 0..MaxActions]
        /\ \A u \in Coro \ {t} : todo'[u] = todo[u]
    BY <1>6, <2>1, Reconciling DEF Commit
  <2>3. state' \in Seq(0..MaxSends)
    BY <1>6 DEF Commit
  <2> QED
    BY <1>6, <2>1, <2>2, <2>3 DEF Commit, Rescheduled
<1>7. CASE Finish(t)
  <2>1. "drain" \in PC /\ 0 \in 0..MaxSends /\ 0 \in 0..MaxActions
    BY DEF PC
  <2> QED
    BY <1>7, <2>1 DEF Finish
<1>8. CASE CallAction(t)
  BY <1>8, CountDown DEF CallAction, PC
<1>9. CASE ExecuteSend(t)
  BY <1>9, CountDown DEF ExecuteSend
<1>10. CASE ExecuteDelayed(t)
  <2>1. PICK k \in NewSend : \E id \in SendId \cup {k} :
            /\ sends' = [sends EXCEPT ![id] = k]
            /\ pc' = [pc EXCEPT ![k] = "sleep"]
            /\ cancel' = [cancel EXCEPT ![k] = "no"]
    BY <1>10 DEF ExecuteDelayed
  <2>2. k \in SendTask /\ k \in Timer /\ k \in Coro /\ pc[k] = "done" /\ "sleep" \in PC
    BY MakingSend, Names DEF Free, PC
  <2>3. sends' \in [SendId \cup SendTask -> Timer \cup {None}]
    BY <2>1, <2>2
  <2>4. pc' \in [Coro -> PC] /\ \A u \in Coro \ {t} : pc'[u] = pc[u] \/ Wakes(u)
    BY <2>1, <2>2 DEF Wakes
  <2>5. cancel' \in [Coro -> {"no", "app", "own"}]
    BY <2>1, <2>2
  <2> QED
    BY <1>10, <2>3, <2>4, <2>5, CountDown DEF ExecuteDelayed
<1>11. CASE ExecuteCancel(t)
  <2>1. PICK id \in SendId : /\ sends' = [sends EXCEPT ![id] = None]
                             /\ cancel' = Cancelled({sends[id]}, "own")
                             /\ fut' = FutCancelled({sends[id]})
    BY <1>11 DEF ExecuteCancel
  <2>2. /\ cancel' \in [Coro -> {"no", "app", "own"}]
        /\ fut' \in [1..MaxSends -> {"none", "pending", "result", "failed", "cancelled"}]
    BY <2>1, Cancelling
  <2> QED
    BY <1>11, <2>1, <2>2, CountDown DEF ExecuteCancel
<1>12. CASE Resume(t)
  BY <1>12 DEF Resume, PC
<1>13. CASE Return(t)
  BY <1>13 DEF Return, Acts, PC
<1>14. CASE Raise(t)
  BY <1>14 DEF Raise, PC
<1>15. CASE CancelArrives(t)
  <2>1. "fail" \in PC
    BY DEF PC
  <2>2. pc' \in [Coro -> PC] /\ running' \in Coro \cup {None}
        /\ \A u \in Coro \ {t} : pc'[u] = pc[u]
    BY <1>15, <2>1, <1>0, Going DEF CancelArrives
  <2>3. own' \in [Coro -> 0..MaxSends] /\ \A u \in Coro \ {t} : own'[u] = own[u]
    BY <1>15, Resets DEF CancelArrives
  <2>4. /\ cancel' \in [Coro -> {"no", "app", "own"}]
        /\ wait' \in [Coro -> SUBSET Timer] /\ back' \in [Coro -> {"idle", "action"}]
        /\ \A u \in Coro \ {t} : wait'[u] = wait[u] /\ back'[u] = back[u]
    BY <1>15 DEF CancelArrives
  <2>5. running \in {None, t} /\ UNCHANGED <<fields, tables, fut, ev, todo, accepted, cancels>>
    BY <1>15 DEF CancelArrives
  <2> QED
    BY <2>2, <2>3, <2>4, <2>5
<1>16. CASE Fail(t)
  <2>1. pc' \in [Coro -> PC] /\ running' \in Coro \cup {None}
        /\ \A u \in Coro \ {t} : pc'[u] = pc[u]
    BY <1>16, <1>0, Going DEF Fail
  <2>2. fut' \in [1..MaxSends -> {"none", "pending", "result", "failed", "cancelled"}]
    BY <1>16 DEF Fail
  <2>3. /\ own' \in [Coro -> 0..MaxSends] /\ ev' \in [Coro -> 0..MaxSends]
        /\ todo' \in [Coro -> 0..MaxActions] /\ cancel' \in [Coro -> {"no", "app", "own"}]
        /\ \A u \in Coro \ {t} : own'[u] = own[u] /\ ev'[u] = ev[u] /\ todo'[u] = todo[u]
    BY <1>16, Resets DEF Fail
  <2>4. processing' = FALSE /\ queue' \in Seq(1..MaxSends)
    BY <1>16 DEF Fail
  <2>5. /\ running \in {None, t} /\ owner' \in Coro \cup {None}
        /\ UNCHANGED <<status, state, tables, wait, back, accepted, cancels>>
    BY <1>16 DEF Fail
  <2> QED
    BY <2>1, <2>2, <2>3, <2>4, <2>5
<1> QED
  BY <1>1, <1>2, <1>3, <1>4, <1>5, <1>6, <1>7, <1>8, <1>9, <1>10, <1>11, <1>12,
     <1>13, <1>14, <1>15, <1>16 DEF Work

LEMMA TypeCall ==
    ASSUME TypeOK, NEW t \in Coro, Call(t)
    PROVE  TypeOK' /\ Footprint(t)
<1> USE AsyncAssumption DEF TypeOK, Footprint, Alone, Turn, fields, tables, locals
<1>0. {"answer", "drain", "gather", "await"} \subseteq PC
  BY DEF PC
<1>1. CASE Start(t)
  <2>0. running \in {None, t} /\ pc[t] = "idle"
    BY <1>1, Names DEF Start, Calls
  <2>1. PICK w \in SUBSET After : w = active' /\ Reconcile(t, w)
    BY <1>1 DEF Start
  <2>2. /\ Rescheduled(t, w) /\ running' = t
        /\ todo' \in [Coro -> 0..MaxActions]
        /\ \A u \in Coro \ {t} : todo'[u] = todo[u]
    BY <2>0, <2>1, Reconciling
  <2>3. state' \in Seq(0..MaxSends)
    <3>1. <<0>> \in Seq(0..MaxSends) /\ state \in Seq(0..MaxSends)
      OBVIOUS
    <3> QED
      BY <1>1, <3>1 DEF Start, Restored
  <2>4. status' \in Status /\ processing' = TRUE /\ owner' \in Coro \cup {None}
    BY <1>1 DEF Start, Status
  <2>5. active' \subseteq After
        /\ UNCHANGED <<queue, sends, own, ev, wait, back, accepted, cancels>>
    BY <1>1 DEF Start
  <2> QED
    BY <2>0, <2>2, <2>3, <2>4, <2>5 DEF Rescheduled
<1>2. CASE Send(t)
  <2>0. running \in {None, t}
    BY <1>2 DEF Send, Calls, Acts
  <2>1. /\ accepted + 1 \in 1..MaxSends /\ accepted' \in 0..MaxSends
        /\ queue' \in Seq(1..MaxSends)
        /\ fut' \in [1..MaxSends -> {"none", "pending", "result", "failed", "cancelled"}]
    BY <1>2 DEF Send
  <2>2. /\ own' \in [Coro -> 0..MaxSends] /\ \A u \in Coro \ {t} : own'[u] = own[u]
    BY <1>2, <2>1 DEF Send
  <2>3. /\ pc' \in [Coro -> PC] /\ running' \in Coro \cup {None}
        /\ \A u \in Coro \ {t} : pc'[u] = pc[u]
    BY <1>2, <1>0, Going DEF Send
  <2>4. processing' \in BOOLEAN /\ owner' \in Coro \cup {None}
    BY <1>2 DEF Send
  <2> QED
    BY <1>2, <2>0, <2>1, <2>2, <2>3, <2>4 DEF Send
<1>3. CASE Stop(t)
  <2> DEFINE tasks == Held \ {None}
  <2>0. running \in {None, t} /\ pc[t] \in {"idle", "action"}
    BY <1>3, Names DEF Stop, Calls, Acts
  <2>1. tasks \subseteq Timer
    BY DEF Held
  <2>2. /\ FutCancelled(tasks) \in
               [1..MaxSends -> {"none", "pending", "result", "failed", "cancelled"}]
        /\ cancel' \in [Coro -> {"no", "app", "own"}]
    BY <1>3, Cancelling DEF Stop
  <2>3. fut' \in [1..MaxSends -> {"none", "pending", "result", "failed", "cancelled"}]
    BY <1>3, <2>2 DEF Stop
  <2>4. /\ pc' \in [Coro -> PC] /\ running' \in Coro \cup {None}
        /\ \A u \in Coro \ {t} : pc'[u] = pc[u]
    BY <1>3, <1>0, Going DEF Stop
  <2>5. /\ wait' \in [Coro -> SUBSET Timer] /\ back' \in [Coro -> {"idle", "action"}]
        /\ \A u \in Coro \ {t} : wait'[u] = wait[u] /\ back'[u] = back[u]
    BY <1>3, <2>0, Waits
  <2>6. status' \in Status /\ queue' \in Seq(1..MaxSends)
        /\ scheduled' \in [After -> Timer \cup {None}]
    BY <1>3 DEF Stop, Status
  <2>8. sends' \in [SendId \cup SendTask -> Timer \cup {None}]
    BY <1>3 DEF Stop
  <2>7. UNCHANGED <<state, processing, owner, active, own, ev, todo, accepted, cancels>>
    BY <1>3 DEF Stop
  <2> QED
    BY <2>0, <2>2, <2>3, <2>4, <2>5, <2>6, <2>7, <2>8
<1>4. CASE Suspend(t)
  BY <1>4, <1>0, Going DEF Suspend, Acts
<1>5. CASE Cancel(t)
  <2>1. fut' \in [1..MaxSends -> {"none", "pending", "result", "failed", "cancelled"}]
    BY <1>5, Cancelling DEF Cancel
  <2>2. cancels' \in 0..MaxCancels /\ cancel' \in [Coro -> {"no", "app", "own"}]
    BY <1>5 DEF Cancel
  <2> QED
    BY <1>5, <2>1, <2>2 DEF Cancel
<1> QED
  BY <1>1, <1>2, <1>3, <1>4, <1>5 DEF Call

LEMMA TypeStep == TypeOK /\ [Next]_vars => TypeOK'
<1> SUFFICES ASSUME TypeOK, [Next]_vars PROVE TypeOK'
  OBVIOUS
<1>1. CASE UNCHANGED vars
  BY <1>1 DEF TypeOK, vars, fields, tables, locals
<1> QED
  BY <1>1, TypeWork, TypeCall, StepCases

\* Every variable of an AsyncInterpreter keeps its type; in particular a stop
\* returns to the code of its own task or to the action that called it.
THEOREM TypeCorrect == Spec => []TypeOK
<1> QED
  BY TypeInit, TypeStep, PTL DEF Spec

-----------------------------------------------------------------------------
(* The boundary *)

LEMMA OwnerInit == Init => OInv
<1> SUFFICES ASSUME Init PROVE OInv
  OBVIOUS
<1>1. TypeOK
  BY TypeInit
<1>2. SingleOwner
  BY Names DEF Init, SingleOwner, Drives, Inside, Suspended
<1>3. Quiet
  BY DEF Init, Quiet, Running
<1> QED
  BY <1>1, <1>2, <1>3 DEF OInv

\* A task that runs has no other task with it, and what another task drives or
\* has popped stays with it.
LEMMA OthersStay ==
    ASSUME OInv, NEW t \in Coro, Footprint(t)
    PROVE  \A u \in Coro \ {t} :
               /\ Drives(u)' <=> Drives(u)
               /\ pc'[u] \in Suspended /\ pc[u] \in Suspended
               /\ pc'[u] # "popped" /\ running # u
<1> SUFFICES ASSUME NEW u \in Coro \ {t}
             PROVE  /\ Drives(u)' <=> Drives(u)
                    /\ pc'[u] \in Suspended /\ pc[u] \in Suspended
                    /\ pc'[u] # "popped" /\ running # u
  OBVIOUS
<1>1. running # u
  BY Names DEF Footprint
<1>2. pc[u] \in Suspended
  BY <1>1 DEF OInv, SingleOwner
<1>3. pc'[u] = pc[u] \/ (pc[u] = "done" /\ pc'[u] = "sleep")
  BY DEF Footprint, Alone, Wakes
<1>4. back'[u] = back[u]
  BY DEF Footprint
<1> QED
  BY <1>1, <1>2, <1>3, <1>4 DEF Drives, Inside, Suspended

\* So the boundary keeps its one owner if the task that runs agrees.
LEMMA OwnerOf ==
    ASSUME OInv, TypeOK', NEW t \in Coro, Footprint(t),
           processing' <=> owner' # None,
           owner' = owner \/ (owner \in {None, t} /\ owner' \in {None, t}),
           Drives(t)' <=> owner' = t,
           running' = IF pc'[t] \in Suspended THEN None ELSE t
    PROVE  SingleOwner'
<1>1. \A u \in Coro : Drives(u)' <=> owner' = u
  <2> SUFFICES ASSUME NEW u \in Coro \ {t} PROVE Drives(u)' <=> owner' = u
    OBVIOUS
  <2>1. Drives(u) <=> owner = u
    BY DEF OInv, SingleOwner
  <2>2. owner = u <=> owner' = u
    BY Names
  <2> QED
    BY <2>1, <2>2, OthersStay
<1>2. \A u \in Coro : running' = u <=> pc'[u] \notin Suspended
  <2> SUFFICES ASSUME NEW u \in Coro PROVE running' = u <=> pc'[u] \notin Suspended
    OBVIOUS
  <2>1. CASE u = t
    BY <2>1, Names
  <2>2. CASE u # t
    BY <2>2, OthersStay, Names
  <2> QED
    BY <2>1, <2>2
<1> QED
  BY <1>1, <1>2 DEF SingleOwner

\* What the rest of the invariant needs of a step.
LEMMA QuietOf ==
    ASSUME OInv, NEW t \in Coro, Footprint(t),
           status' = "not_started" => status = "not_started" /\ owner' = owner,
           status' = "running" \/ queue' = <<>> \/ (status' = status /\ queue' = queue),
           pc'[t] = "popped" => status' = "running"
    PROVE  Quiet'
<1>1. \A u \in Coro : pc'[u] = "popped" => status' = "running"
  BY OthersStay
<1> QED
  BY <1>1 DEF OInv, Quiet, Running

\* Where the task of a step is, and what it has, when it starts.
LEMMA Stands ==
    ASSUME OInv, NEW t \in Coro
    PROVE  /\ pc[t] \in Inside => owner = t /\ processing
           /\ pc[t] \notin Inside \cup {"gather"} => owner # t
           /\ pc[t] = "gather" => (owner = t <=> back[t] = "action")
           /\ owner = t => processing
           /\ t # None
BY Names DEF OInv, SingleOwner, Drives, Inside

\* What a step of t has to do for the boundary and the queue.
Keeps(t) ==
    /\ processing' <=> owner' # None
    /\ owner' = owner \/ (owner \in {None, t} /\ owner' \in {None, t})
    /\ Drives(t)' <=> owner' = t
    /\ running' = IF pc'[t] \in Suspended THEN None ELSE t
    /\ status' = "not_started" => status = "not_started" /\ owner' = owner
    /\ status' = "running" \/ queue' = <<>> \/ (status' = status /\ queue' = queue)
    /\ pc'[t] = "popped" => status' = "running"

LEMMA KeepsOwner ==
    ASSUME OInv, TypeOK', NEW t \in Coro, Footprint(t), Keeps(t)
    PROVE  OInv'
<1>1. SingleOwner'
  BY OwnerOf DEF Keeps
<1>2. Quiet'
  BY QuietOf DEF Keeps
<1> QED
  BY <1>1, <1>2 DEF OInv

\* A step that leaves the boundary and the status alone.
LEMMA KeepsSame ==
    ASSUME OInv, NEW t \in Coro,
           UNCHANGED <<processing, owner, status>>,
           Drives(t)' <=> Drives(t), pc'[t] # "popped",
           running' = IF pc'[t] \in Suspended THEN None ELSE t,
           Running \/ queue' = queue
    PROVE  Keeps(t)
<1>1. (processing <=> owner # None) /\ (Drives(t) <=> owner = t)
  BY DEF OInv, SingleOwner
<1> QED
  BY <1>1 DEF Keeps, Running

LEMMA OwnerWork ==
    ASSUME OInv, NEW t \in Coro, Work(t), TypeOK', Footprint(t)
    PROVE  Keeps(t)
<1> USE Stands DEF fields
<1>0. /\ TypeOK /\ {"popped", "drain", "fail", "action", "exec", "idle", "done"} \subseteq PC
      /\ Home(t) \in {"idle", "done"} /\ t # None
  BY Names DEF OInv, PC, Home
<1> DEFINE At(label) == /\ pc'[t] = label
                        /\ running' = IF label \in Suspended THEN None ELSE t
<1>g. \A label \in PC : Goto(t, label) => At(label)
  BY <1>0, Going
<1> HIDE DEF At
<1>1. CASE Answered(t)
  <2>1. pc[t] = "answer" /\ UNCHANGED <<processing, owner, status, queue>> /\ At(Home(t))
    BY <1>1, <1>0, <1>g DEF Answered
  <2> QED
    BY <2>1, <1>0, KeepsSame DEF At, Drives, Inside
<1>2. CASE FireStopped(t)
  <2>1. /\ pc[t] = "sleep" /\ UNCHANGED <<processing, owner, status, queue>> /\ At("done")
    BY <1>2, <1>0, <1>g, Names DEF FireStopped, Calls
  <2> QED
    BY <2>1, <1>0, KeepsSame DEF At, Drives, Inside
<1>3. CASE Gathered(t)
  <2>1. back[t] \in {"idle", "action"}
    BY <1>0 DEF TypeOK
  <2>2. pc[t] = "gather" /\ UNCHANGED <<processing, owner, status, queue>> /\ At(back[t])
    BY <1>3, <1>0, <1>g, <2>1 DEF Gathered
  <2>3. Drives(t)' <=> Drives(t)
    BY <2>1, <2>2 DEF At, Drives, Inside
  <2> QED
    BY <2>1, <2>2, <2>3, KeepsSame DEF At
<1>4. CASE DrainPop(t)
  <2>1. pc[t] = "drain" /\ UNCHANGED <<processing, owner, status>> /\ Running /\ At("popped")
    BY <1>4, <1>0, <1>g DEF DrainPop
  <2>2. owner = t /\ processing
    BY <2>1 DEF Inside
  <2> QED
    BY <2>1, <2>2, <1>0 DEF Keeps, At, Drives, Inside, Suspended, Running
<1>5. CASE DrainDone(t)
  <2>1. pc[t] = "drain" /\ UNCHANGED <<status, queue>> /\ At(Home(t))
        /\ ~processing' /\ owner' = None
    BY <1>5, <1>0, <1>g DEF DrainDone
  <2>2. owner = t /\ status # "not_started"
    BY <2>1, <1>0 DEF Inside, OInv, Quiet
  <2> QED
    BY <2>1, <2>2, <1>0 DEF Keeps, At, Drives, Inside, Suspended
<1>6. CASE Commit(t)
  <2>0. pc[t] = "popped" /\ UNCHANGED <<processing, owner, status, queue>>
    BY <1>6 DEF Commit
  <2>1. PICK w \in SUBSET After : w = active' /\ Reconcile(t, w)
    BY <1>6 DEF Commit
  <2>2. pc'[t] \in {"exec", "fail"} /\ running' = t
    BY <1>0, <2>0, <2>1, Reconciling DEF Rescheduled
  <2> QED
    BY <2>0, <2>2, KeepsSame DEF Drives, Inside, Suspended
<1>7. CASE Finish(t)
  <2>1. pc[t] = "exec" /\ UNCHANGED <<processing, owner, status, queue>> /\ At("drain")
    BY <1>7, <1>0, <1>g DEF Finish
  <2> QED
    BY <2>1, <1>0, KeepsSame DEF At, Drives, Inside, Suspended
<1>8. CASE CallAction(t)
  <2>1. pc[t] = "exec" /\ UNCHANGED <<processing, owner, status, queue>> /\ At("action")
    BY <1>8, <1>0, <1>g DEF CallAction, NextAction
  <2> QED
    BY <2>1, <1>0, KeepsSame DEF At, Drives, Inside, Suspended
<1>e. pc[t] = "exec" => running = t
  BY DEF OInv, SingleOwner, Suspended
<1>9. CASE ExecuteSend(t)
  <2>1. pc[t] = "exec" /\ Running /\ UNCHANGED <<processing, owner, status, pc, running, back>>
    BY <1>9 DEF ExecuteSend, NextAction
  <2> QED
    BY <2>1, <1>e, KeepsSame DEF Drives, Inside, Suspended
<1>10. CASE ExecuteDelayed(t)
  <2>1. pc[t] = "exec" /\ Running /\ UNCHANGED <<processing, owner, status, queue, running, back>>
    BY <1>10 DEF ExecuteDelayed, NextAction
  <2>2. pc'[t] = pc[t]
    <3>1. PICK k \in NewSend : pc' = [pc EXCEPT ![k] = "sleep"]
      BY <1>10 DEF ExecuteDelayed
    <3>2. k # t
      BY <2>1, MakingSend DEF Free
    <3> QED
      BY <3>1, <3>2, <1>0 DEF TypeOK
  <2> QED
    BY <2>1, <2>2, <1>e, KeepsSame DEF Drives, Inside, Suspended
<1>11. CASE ExecuteCancel(t)
  <2>1. pc[t] = "exec" /\ UNCHANGED <<processing, owner, status, queue, pc, running, back>>
    BY <1>11 DEF ExecuteCancel, NextAction
  <2> QED
    BY <2>1, <1>e, KeepsSame DEF Drives, Inside, Suspended
<1>12. CASE Resume(t)
  <2>1. pc[t] = "await" /\ UNCHANGED <<processing, owner, status, queue>> /\ At("action")
    BY <1>12, <1>0, <1>g DEF Resume
  <2> QED
    BY <2>1, <1>0, KeepsSame DEF At, Drives, Inside, Suspended
<1>13. CASE Return(t)
  <2>1. pc[t] = "action" /\ UNCHANGED <<processing, owner, status, queue>> /\ At("exec")
    BY <1>13, <1>0, <1>g DEF Return, Acts
  <2> QED
    BY <2>1, <1>0, KeepsSame DEF At, Drives, Inside, Suspended
<1>14. CASE Raise(t)
  <2>1. /\ pc[t] \in {"popped", "action", "exec"}
        /\ UNCHANGED <<processing, owner, status, queue>> /\ At("fail")
    BY <1>14, <1>0, <1>g DEF Raise
  <2> QED
    BY <2>1, <1>0, KeepsSame DEF At, Drives, Inside, Suspended
<1>15. CASE CancelArrives(t)
  <2>1. /\ pc[t] \in {"sleep", "await", "answer", "gather"}
        /\ UNCHANGED <<processing, owner, status, queue>>
        /\ IF Drives(t) THEN At("fail") ELSE At(Home(t))
    BY <1>15, <1>0, <1>g DEF CancelArrives, Drives, Inside
  <2>2. CASE Drives(t)
    BY <2>1, <2>2, KeepsSame DEF At, Drives, Inside, Suspended
  <2>3. CASE ~Drives(t)
    <3>1. ~Drives(t)' /\ pc'[t] # "popped"
      BY <2>1, <2>3, <1>0 DEF At, Drives, Inside
    <3> QED
      BY <2>1, <2>3, <3>1, KeepsSame DEF At
  <2> QED
    BY <2>2, <2>3
<1>16. CASE Fail(t)
  <2>1. pc[t] = "fail" /\ UNCHANGED status /\ queue' = <<>> /\ At(Home(t))
        /\ ~processing' /\ owner' = None
    BY <1>16, <1>0, <1>g DEF Fail
  <2>2. owner = t /\ status # "not_started"
    BY <2>1, <1>0 DEF Inside, OInv, Quiet
  <2> QED
    BY <2>1, <2>2, <1>0 DEF Keeps, At, Drives, Inside, Suspended
<1> QED
  BY <1>1, <1>2, <1>3, <1>4, <1>5, <1>6, <1>7, <1>8, <1>9, <1>10, <1>11, <1>12,
     <1>13, <1>14, <1>15, <1>16 DEF Work

LEMMA OwnerCall ==
    ASSUME OInv, NEW t \in Coro, Call(t), TypeOK', Footprint(t)
    PROVE  Keeps(t)
<1> USE Stands DEF fields
<1>0. /\ TypeOK /\ {"answer", "drain", "gather", "await"} \subseteq PC /\ t # None
      /\ pc[t] \notin Suspended => running = t
  BY Names DEF OInv, PC, SingleOwner
<1> DEFINE At(label) == /\ pc'[t] = label
                        /\ running' = IF label \in Suspended THEN None ELSE t
<1>g. \A label \in PC : Goto(t, label) => At(label)
  BY <1>0, Going
<1> HIDE DEF At
<1>1. CASE Start(t)
  <2>0. /\ pc[t] = "idle" /\ status = "not_started"
        /\ status' = "running" /\ processing' = TRUE /\ owner' = t
    BY <1>1 DEF Start, Calls
  <2>1. PICK w \in SUBSET After : w = active' /\ Reconcile(t, w)
    <3>1. active \subseteq After
      BY <1>0 DEF TypeOK
    <3> QED
      BY <1>1, <3>1 DEF Start
  <2>2. pc'[t] \in {"exec", "fail"} /\ running' = t
    BY <1>0, <2>0, <2>1, Reconciling DEF Rescheduled
  <2>3. owner = None
    BY <2>0 DEF OInv, Quiet
  <2> QED
    BY <1>0, <2>0, <2>2, <2>3 DEF Keeps, Drives, Inside, Suspended
<1>2. CASE Send(t)
  <2>0. /\ pc[t] \in {"idle", "sleep", "action"} /\ Running /\ status' = status
        /\ pc[t] = "action" => running = t
    BY <1>2, <1>0 DEF Send, Calls, Acts, Suspended
  <2>1. CASE owner = t
    <3>1. pc[t] = "action" /\ UNCHANGED <<processing, owner, pc, running, back>>
      BY <1>2, <2>0, <2>1 DEF Send, Inside
    <3> QED
      BY <2>0, <3>1, KeepsSame DEF Drives, Inside, Suspended
  <2>2. CASE owner # t /\ processing
    <3>1. pc[t] # "action" /\ At("answer") /\ UNCHANGED <<processing, owner>>
      BY <1>2, <1>0, <1>g, <2>0, <2>2 DEF Send, Inside
    <3> QED
      BY <2>0, <3>1, KeepsSame DEF At, Drives, Inside, Suspended
  <2>3. CASE owner # t /\ ~processing
    <3>1. pc[t] # "action" /\ At("drain") /\ processing' /\ owner' = t
      BY <1>2, <1>0, <1>g, <2>0, <2>3 DEF Send, Inside
    <3>2. owner = None
      BY <2>3 DEF OInv, SingleOwner
    <3> QED
      BY <1>0, <2>0, <3>1, <3>2 DEF Keeps, At, Drives, Inside, Suspended, Running
  <2> QED
    BY <2>1, <2>2, <2>3
<1>3. CASE Stop(t)
  <2>0. /\ pc[t] \in {"idle", "action"} /\ UNCHANGED <<processing, owner>>
        /\ status' = "stopped" /\ queue' = <<>>
    BY <1>3, Names DEF Stop, Calls, Acts
  <2>1. /\ Drives(t)' <=> Drives(t)
        /\ pc'[t] # "popped"
        /\ running' = IF pc'[t] \in Suspended THEN None ELSE t
    <3>1. CASE UNCHANGED <<pc, running, back>>
      <4>1. pc[t] = "idle" => running = None
        BY <1>3, <1>0 DEF Stop, Calls, Acts, OInv, SingleOwner, Turn, Suspended
      <4> QED
        BY <2>0, <3>1, <4>1, <1>0 DEF Drives, Suspended
    <3>2. CASE At("gather") /\ back' = [back EXCEPT ![t] = pc[t]]
      <4>1. back'[t] = pc[t]
        BY <3>2, <1>0 DEF TypeOK
      <4> QED
        BY <2>0, <3>2, <4>1 DEF At, Drives, Inside, Suspended
    <3> QED
      BY <1>3, <1>0, <1>g, <3>1, <3>2 DEF Stop
  <2>2. (processing <=> owner # None) /\ (Drives(t) <=> owner = t)
    BY DEF OInv, SingleOwner
  <2> QED
    BY <2>0, <2>1, <2>2 DEF Keeps
<1>4. CASE Suspend(t)
  <2>1. pc[t] = "action" /\ UNCHANGED <<processing, owner, status, queue>> /\ At("await")
    BY <1>4, <1>0, <1>g DEF Suspend, Acts
  <2> QED
    BY <2>1, <1>0, KeepsSame DEF At, Drives, Inside, Suspended
<1>5. CASE Cancel(t)
  <2>1. /\ pc[t] \in {"await", "answer", "gather"} /\ running = None
        /\ UNCHANGED <<processing, owner, status, queue, pc, running, back>>
    BY <1>5 DEF Cancel, locals
  <2> QED
    BY <2>1, KeepsSame DEF Drives, Inside, Suspended
<1> QED
  BY <1>1, <1>2, <1>3, <1>4, <1>5 DEF Call

LEMMA OwnerStep == OInv /\ [Next]_vars => OInv'
<1> SUFFICES ASSUME OInv, [Next]_vars PROVE OInv'
  OBVIOUS
<1>0. TypeOK /\ TypeOK'
  BY TypeStep DEF OInv
<1>1. CASE UNCHANGED vars
  BY <1>1, <1>0 DEF OInv, SingleOwner, Quiet, Drives, Running, vars, fields, locals
<1>2. ASSUME NEW t \in Coro, Work(t) \/ Call(t) PROVE OInv'
  <2>1. Footprint(t)
    BY <1>0, <1>2, TypeWork, TypeCall
  <2>2. Keeps(t)
    BY <1>0, <1>2, <2>1, OwnerWork, OwnerCall
  <2> QED
    BY <1>0, <2>1, <2>2, KeepsOwner
<1> QED
  BY <1>1, <1>2, StepCases

LEMMA Ownership == Spec => []OInv
<1> QED
  BY OwnerInit, OwnerStep, PTL DEF Spec

\* The boundary of the asyncio interpreter has one owner, the task that send
\* recognises as re-entrant, across every suspension of an action, every
\* cancellation, exception and stop; and one task runs at a time.
THEOREM OneOwner == Spec => []SingleOwner
<1>1. OInv => SingleOwner
  BY DEF OInv
<1> QED
  BY <1>1, Ownership, PTL

-----------------------------------------------------------------------------
(* The tables of timer tasks *)

\* The parts of AfterTasksReachable.
Follows == \A a \in After : scheduled[a] # None => a \in active
Emptied == status = "stopped" => Held \subseteq {None}

LEMMA TableParts == AfterTasksReachable <=> Follows /\ Emptied /\ Reachable
BY DEF AfterTasksReachable, Follows, Emptied, Reachable

LEMMA TablesInit == Init => AfterTasksReachable
<1> SUFFICES ASSUME Init PROVE AfterTasksReachable
  OBVIOUS
<1>1. Follows
  BY DEF Init, Follows
<1>2. Emptied
  BY DEF Init, Emptied
<1>3. Reachable
  BY Names DEF Init, Reachable
<1> QED
  BY <1>1, <1>2, <1>3, TableParts

\* A step that leaves the tables alone, and makes no `after` task anew.
LEMMA TablesStay ==
    ASSUME AfterTasksReachable, UNCHANGED tables,
           status' = "stopped" => status = "stopped",
           \A k \in AfterTask : pc'[k] = "sleep" /\ cancel'[k] = "no" =>
                                    pc[k] = "sleep" /\ cancel[k] = "no"
    PROVE  AfterTasksReachable'
BY DEF AfterTasksReachable, Held, tables

\* A step of t that cancels none but t, and goes on elsewhere than in a sleep.
LEMMA TablesGo ==
    ASSUME AfterTasksReachable, TypeOK, NEW t \in Coro, NEW label \in PC \ {"sleep"},
           Goto(t, label), UNCHANGED <<tables, status>>,
           cancel' = cancel \/ cancel' = [cancel EXCEPT ![t] = "no"]
    PROVE  AfterTasksReachable'
<1>1. pc'[t] # "sleep" /\ \A u \in Coro \ {t} : pc'[u] = pc[u]
  BY Going
<1>2. \A u \in Coro \ {t} : cancel'[u] = cancel[u]
  BY DEF TypeOK
<1>3. \A k \in AfterTask : pc'[k] = "sleep" /\ cancel'[k] = "no" =>
                               pc[k] = "sleep" /\ cancel[k] = "no"
  BY <1>1, <1>2, Names
<1> QED
  BY <1>3, TablesStay

LEMMA TablesWork ==
    ASSUME AfterTasksReachable, OInv, NEW t \in Coro, Work(t)
    PROVE  AfterTasksReachable'
<1>0. TypeOK /\ Home(t) \in PC \ {"sleep"}
      /\ {"done", "popped", "drain", "action", "exec", "fail"} \subseteq PC \ {"sleep"}
  BY DEF OInv, Home, PC
<1> USE DEF fields, locals
<1>1. CASE Answered(t)
  <2>1. Goto(t, Home(t)) /\ UNCHANGED <<tables, status, cancel>>
    BY <1>1 DEF Answered
  <2> QED
    BY <1>0, <2>1, TablesGo
<1>2. CASE FireStopped(t)
  <2>1. Goto(t, "done") /\ UNCHANGED <<tables, status, cancel>>
    BY <1>2 DEF FireStopped
  <2> QED
    BY <1>0, <2>1, TablesGo
<1>3. CASE Gathered(t)
  <2>1. Goto(t, back[t]) /\ UNCHANGED <<tables, status, cancel>>
    BY <1>3 DEF Gathered
  <2>2. back[t] \in PC \ {"sleep"}
    BY <1>0 DEF TypeOK, PC
  <2> QED
    BY <1>0, <2>1, <2>2, TablesGo
<1>4. CASE DrainPop(t)
  <2>1. Goto(t, "popped") /\ UNCHANGED <<tables, status, cancel>>
    BY <1>4 DEF DrainPop
  <2> QED
    BY <1>0, <2>1, TablesGo
<1>5. CASE DrainDone(t)
  <2>1. /\ Goto(t, Home(t)) /\ UNCHANGED <<tables, status>>
        /\ cancel' = [cancel EXCEPT ![t] = "no"]
    BY <1>5 DEF DrainDone
  <2> QED
    BY <1>0, <2>1, TablesGo
<1>6. CASE Commit(t)
  <2>1. PICK w \in SUBSET After : w = active' /\ Reconcile(t, w)
    BY <1>6 DEF Commit
  <2>2. pc[t] = "popped" /\ status' = status
    BY <1>6 DEF Commit
  <2>3. Rescheduled(t, w)
    BY <1>0, <2>1, <2>2, Reconciling
  <2>4. Running
    BY <2>2 DEF OInv, Quiet
  <2>5. Follows' /\ Reachable'
    BY <2>1, <2>3, TableParts DEF Rescheduled, Follows
  <2>6. Emptied'
    BY <2>2, <2>4 DEF Emptied, Running
  <2> QED
    BY <2>5, <2>6, TableParts DEF AfterTasksReachable, Follows, Emptied, Reachable
<1>7. CASE Finish(t)
  <2>1. Goto(t, "drain") /\ UNCHANGED <<tables, status, cancel>>
    BY <1>7 DEF Finish
  <2> QED
    BY <1>0, <2>1, TablesGo
<1>8. CASE CallAction(t)
  <2>1. Goto(t, "action") /\ UNCHANGED <<tables, status, cancel>>
    BY <1>8 DEF CallAction
  <2> QED
    BY <1>0, <2>1, TablesGo
<1>9. CASE ExecuteSend(t)
  BY <1>9, TablesStay DEF ExecuteSend
<1>10. CASE ExecuteDelayed(t)
  <2>1. PICK k \in NewSend : /\ pc' = [pc EXCEPT ![k] = "sleep"]
                             /\ cancel' = [cancel EXCEPT ![k] = "no"]
    BY <1>10 DEF ExecuteDelayed
  <2>2. k \in SendTask /\ k \in Coro
    BY MakingSend, Names
  <2>3. \A u \in AfterTask : pc'[u] = pc[u] /\ cancel'[u] = cancel[u]
    BY <2>1, <2>2, <1>0, Names DEF TypeOK
  <2>4. UNCHANGED <<active, scheduled, status>> /\ Running
    BY <1>10 DEF ExecuteDelayed, NextAction
  <2>5. Follows' /\ Reachable'
    BY <2>3, <2>4, TableParts DEF Follows, Reachable
  <2>6. Emptied'
    BY <2>4 DEF Emptied, Running
  <2> QED
    BY <2>5, <2>6 DEF AfterTasksReachable, Follows, Emptied, Reachable
<1>11. CASE ExecuteCancel(t)
  <2>1. PICK id \in SendId : cancel' = Cancelled({sends[id]}, "own")
    BY <1>11 DEF ExecuteCancel
  <2>2. \A u \in Coro : cancel'[u] = "own" \/ cancel'[u] = cancel[u]
    BY <2>1, <1>0, Cancelling
  <2>3. UNCHANGED <<active, scheduled, status, pc>> /\ Running
    BY <1>11 DEF ExecuteCancel, NextAction
  <2>4. Follows' /\ Reachable'
    BY <2>2, <2>3, Names, TableParts DEF Follows, Reachable
  <2>5. Emptied'
    BY <2>3 DEF Emptied, Running
  <2> QED
    BY <2>4, <2>5 DEF AfterTasksReachable, Follows, Emptied, Reachable
<1>12. CASE Resume(t)
  <2>1. Goto(t, "action") /\ UNCHANGED <<tables, status, cancel>>
    BY <1>12 DEF Resume
  <2> QED
    BY <1>0, <2>1, TablesGo
<1>13. CASE Return(t)
  <2>1. Goto(t, "exec") /\ UNCHANGED <<tables, status, cancel>>
    BY <1>13 DEF Return
  <2> QED
    BY <1>0, <2>1, TablesGo
<1>14. CASE Raise(t)
  <2>1. Goto(t, "fail") /\ UNCHANGED <<tables, status, cancel>>
    BY <1>14 DEF Raise
  <2> QED
    BY <1>0, <2>1, TablesGo
<1>15. CASE CancelArrives(t)
  <2>1. /\ Goto(t, "fail") \/ Goto(t, Home(t))
        /\ UNCHANGED <<tables, status>> /\ cancel' = [cancel EXCEPT ![t] = "no"]
    BY <1>15 DEF CancelArrives
  <2> QED
    BY <1>0, <2>1, TablesGo
<1>16. CASE Fail(t)
  <2>1. /\ Goto(t, Home(t)) /\ UNCHANGED <<tables, status>>
        /\ cancel' = [cancel EXCEPT ![t] = "no"]
    BY <1>16 DEF Fail
  <2> QED
    BY <1>0, <2>1, TablesGo
<1> QED
  BY <1>1, <1>2, <1>3, <1>4, <1>5, <1>6, <1>7, <1>8, <1>9, <1>10, <1>11, <1>12,
     <1>13, <1>14, <1>15, <1>16 DEF Work

LEMMA TablesCall ==
    ASSUME AfterTasksReachable, OInv, NEW t \in Coro, Call(t)
    PROVE  AfterTasksReachable'
<1>0. TypeOK /\ {"answer", "drain", "await", "gather"} \subseteq PC \ {"sleep"}
  BY DEF OInv, PC
<1> USE DEF fields, locals
<1>1. CASE Start(t)
  <2>0. pc[t] = "idle" /\ status' = "running"
    BY <1>1 DEF Start, Calls
  <2>1. PICK w \in SUBSET After : w = active' /\ Reconcile(t, w)
    <3>1. active \subseteq After
      BY <1>0 DEF TypeOK
    <3> QED
      BY <1>1, <3>1 DEF Start
  <2>2. Rescheduled(t, w)
    BY <1>0, <2>0, <2>1, Reconciling
  <2>3. Follows' /\ Reachable'
    BY <2>1, <2>2, TableParts DEF Rescheduled, Follows
  <2>4. Emptied'
    BY <2>0 DEF Emptied
  <2> QED
    BY <2>3, <2>4 DEF AfterTasksReachable, Follows, Emptied, Reachable
<1>2. CASE Send(t)
  <2>1. /\ Goto(t, "answer") \/ Goto(t, "drain") \/ pc' = pc
        /\ UNCHANGED <<tables, status, cancel>>
    BY <1>2 DEF Send
  <2>2. CASE pc' = pc
    BY <2>1, <2>2, TablesStay
  <2> QED
    BY <1>0, <2>1, <2>2, TablesGo
<1>3. CASE Stop(t)
  <2>1. /\ cancel' = Cancelled(Held \ {None}, "own")
        /\ scheduled' = [a \in After |-> None]
        /\ sends' = [k \in SendId \cup SendTask |-> None]
    BY <1>3 DEF Stop
  <2>2. \A u \in Coro : pc'[u] = pc[u] \/ pc'[u] = "gather"
    BY <1>3, <1>0 DEF Stop, Goto, TypeOK
  <2>3. \A u \in Coro : cancel'[u] =
                           IF u \in Held \ {None} /\ pc[u] # "done" THEN "own" ELSE cancel[u]
    BY <2>1, <1>0, Cancelling
  <2>4. \A k \in AfterTask : ~(pc'[k] = "sleep" /\ cancel'[k] = "no")
    <3> SUFFICES ASSUME NEW k \in AfterTask, pc'[k] = "sleep", cancel'[k] = "no"
                 PROVE  FALSE
      OBVIOUS
    <3>1. k \in Coro /\ k # None
      BY Names
    <3>2. pc[k] = "sleep" /\ cancel[k] = "no" /\ k \notin Held
      BY <2>2, <2>3, <3>1
    <3> QED
      BY <3>2 DEF AfterTasksReachable, Held
  <2>5. Follows' /\ Reachable'
    BY <2>1, <2>4 DEF Follows, Reachable
  <2>6. Emptied'
    BY <2>1 DEF Emptied, Held
  <2> QED
    BY <2>5, <2>6 DEF AfterTasksReachable, Follows, Emptied, Reachable
<1>4. CASE Suspend(t)
  <2>1. Goto(t, "await") /\ UNCHANGED <<tables, status, cancel>>
    BY <1>4 DEF Suspend
  <2> QED
    BY <1>0, <2>1, TablesGo
<1>5. CASE Cancel(t)
  <2>1. /\ cancel' = [cancel EXCEPT ![t] = "app"]
        /\ UNCHANGED <<tables, status, pc>>
    BY <1>5 DEF Cancel
  <2>2. \A u \in Coro : cancel'[u] = cancel[u] \/ cancel'[u] = "app"
    BY <2>1, <1>0 DEF TypeOK
  <2> QED
    BY <2>1, <2>2, Names, TablesStay
<1> QED
  BY <1>1, <1>2, <1>3, <1>4, <1>5 DEF Call

\* The table of `after` tasks follows the configuration and is complete: a
\* task that may still fire is in it, where leaving its state or stop reaches
\* it; a stop leaves none behind.
THEOREM NoAfterTaskLost == Spec => []AfterTasksReachable
<1>1. OInv /\ AfterTasksReachable /\ [Next]_vars => AfterTasksReachable'
  <2> SUFFICES ASSUME OInv, AfterTasksReachable, [Next]_vars PROVE AfterTasksReachable'
    OBVIOUS
  <2>1. CASE UNCHANGED vars
    BY <2>1 DEF AfterTasksReachable, Held, vars, fields, tables
  <2> QED
    BY <2>1, TablesWork, TablesCall, StepCases
<1> QED
  BY <1>1, TablesInit, Ownership, PTL DEF Spec

-----------------------------------------------------------------------------
(* Events and their futures *)

LEMMA ValuesAppend ==
    ASSUME NEW S, NEW s \in Seq(S), NEW e \in S
    PROVE  /\ Values(Append(s, e)) = Values(s) \cup {e}
           /\ e \notin Values(s) /\ Distinct(s) => Distinct(Append(s, e))
<1> DEFINE r == Append(s, e)
<1>1. /\ Len(s) \in Nat /\ DOMAIN s = 1..Len(s) /\ DOMAIN r = 1..(Len(s) + 1)
      /\ \A i \in DOMAIN s : r[i] = s[i]
      /\ r[Len(s) + 1] = e
  OBVIOUS
<1> HIDE DEF r
<1>2. \A i \in DOMAIN r : i \in DOMAIN s \/ i = Len(s) + 1
  BY <1>1
<1>3. \A i \in DOMAIN r : r[i] \in Values(s) \cup {e}
  BY <1>1, <1>2 DEF Values
<1>4. e \in Values(r) /\ \A i \in DOMAIN s : s[i] \in Values(r)
  BY <1>1 DEF Values
<1>5. Values(r) = Values(s) \cup {e}
  BY <1>3, <1>4 DEF Values
<1>6. ASSUME e \notin Values(s), Distinct(s), NEW i \in DOMAIN r, NEW j \in DOMAIN r,
             r[i] = r[j]
      PROVE  i = j
  <2>1. \A k \in DOMAIN s : r[k] = s[k] /\ s[k] # e
    BY <1>1, <1>6 DEF Values
  <2> QED
    BY <1>1, <1>2, <1>6, <2>1 DEF Distinct
<1>7. e \notin Values(s) /\ Distinct(s) => Distinct(r)
  BY <1>6 DEF Distinct
<1> QED
  BY <1>5, <1>7 DEF r

LEMMA ValuesFold ==
    \A s \in Seq(0..MaxSends), e \in 0..MaxSends :
        Values(Append(s, e)) = Values(s) \cup {e}
<1> SUFFICES ASSUME NEW s \in Seq(0..MaxSends), NEW e \in 0..MaxSends
             PROVE  Values(Append(s, e)) = Values(s) \cup {e}
  OBVIOUS
<1> DEFINE S == 0..MaxSends
<1>1. s \in Seq(S) /\ e \in S
  OBVIOUS
<1> HIDE DEF S
<1> QED
  BY <1>1, ValuesAppend

LEMMA ValuesTail ==
    ASSUME NEW S, NEW s \in Seq(S), s # <<>>
    PROVE  /\ Values(s) = {Head(s)} \cup Values(Tail(s))
           /\ Distinct(s) => Head(s) \notin Values(Tail(s)) /\ Distinct(Tail(s))
<1>1. /\ 1 \in DOMAIN s /\ Head(s) = s[1]
      /\ \A i \in DOMAIN Tail(s) : /\ i \in Nat /\ i # 0 /\ i + 1 \in DOMAIN s
                                   /\ Tail(s)[i] = s[i + 1]
      /\ \A i \in DOMAIN s : /\ i \in Nat
                             /\ i = 1 \/ (i - 1 \in DOMAIN Tail(s) /\ Tail(s)[i - 1] = s[i])
  OBVIOUS
<1> DEFINE r == Tail(s)
<1> HIDE DEF r
<1>2. \A i \in DOMAIN s : s[i] \in {Head(s)} \cup Values(r)
  BY <1>1 DEF Values, r
<1>3. Head(s) \in Values(s) /\ \A i \in DOMAIN r : r[i] \in Values(s)
  BY <1>1 DEF Values, r
<1>4. Values(s) = {Head(s)} \cup Values(r)
  BY <1>2, <1>3 DEF Values
<1>5. ASSUME Distinct(s)
      PROVE  Head(s) \notin Values(r) /\ Distinct(r)
  <2>1. \A i \in DOMAIN r : i \in Nat /\ i + 1 \in DOMAIN s /\ r[i] = s[i + 1] /\ i + 1 # 1
    BY <1>1 DEF r
  <2>2. \A i \in DOMAIN r : r[i] # Head(s)
    BY <1>1, <1>5, <2>1 DEF Distinct
  <2>3. ASSUME NEW i \in DOMAIN r, NEW j \in DOMAIN r, r[i] = r[j] PROVE i = j
    <3>1. i + 1 = j + 1
      BY <1>5, <2>1, <2>3 DEF Distinct
    <3> QED
      BY <2>1, <3>1
  <2> QED
    BY <2>2, <2>3 DEF Values, Distinct
<1> QED
  BY <1>4, <1>5 DEF r

LEMMA ValuesEmpty == Values(<<>>) = {}
BY DEF Values

LEMMA DataInit == Init => Data /\ Taken
<1> SUFFICES ASSUME Init PROVE Data /\ Taken
  OBVIOUS
<1> USE DEF Init, Values
<1>1. Numbered
  BY AsyncAssumption DEF Numbered
<1>2. Once
  BY DEF Once, Distinct
<1>3. Answers
  BY DEF Answers
<1>4. Taken
  BY DEF Taken, TakenBy
<1> QED
  BY <1>1, <1>2, <1>3, <1>4 DEF Data

\* Only the owner has an event.
LEMMA EventOfOwner ==
    ASSUME OInv, Taken, NEW t \in Coro
    PROVE  /\ ev[t] # 0 => owner = t /\ Drives(t)
           /\ owner = t => \A u \in Coro \ {t} : ev[u] = 0
           /\ ~Drives(t) => ev[t] = 0
<1>1. \A u \in Coro : ev[u] # 0 => owner = u
  BY DEF OInv, SingleOwner, Taken, TakenBy
<1> QED
  BY <1>1 DEF Taken, TakenBy

\* What other tasks have popped is not touched.
LEMMA TakenOf ==
    ASSUME OInv, Taken, NEW t \in Coro, Footprint(t),
           TakenBy(t)',
           \A u \in Coro \ {t} : ev[u] # 0 => Values(state) \subseteq Values(state)'
    PROVE  Taken'
<1> SUFFICES ASSUME NEW u \in Coro \ {t} PROVE TakenBy(u)'
  BY DEF Taken
<1>1. /\ Drives(u)' <=> Drives(u)
      /\ ev'[u] = ev[u]
      /\ pc'[u] = pc[u] \/ Wakes(u)
  BY OthersStay DEF Footprint, Alone
<1>2. TakenBy(u)
  BY DEF Taken
<1> QED
  BY <1>1, <1>2 DEF TakenBy, Wakes, Drives, Inside, Acting

\* A step that moves no event, and at most cancels futures.
LEMMA DataStays ==
    ASSUME TypeOK, TypeOK', Data, UNCHANGED <<state, queue, ev, accepted>>,
           fut' = fut \/ Settles,
           status' = "not_started" => status = "not_started",
           status = "stopped" => status' = "stopped"
    PROVE  Data'
<1>1. Numbered'
  BY DEF Data, Numbered, Settles
<1>2. Once'
  BY DEF Data, Once
<1>3. Answers'
  <2> SUFFICES ASSUME NEW e \in 1..accepted
               PROVE  /\ fut'[e] = "pending" => e \in Values(queue) \/ \E t \in Coro : ev[t] = e
                      /\ fut'[e] = "result" =>
                            \/ status' = "stopped"
                            \/ e \in Values(state) /\ \A t \in Coro : ev[t] # e
    BY DEF Answers
  <2>1. e \in 1..MaxSends
    BY AsyncAssumption DEF TypeOK
  <2>2. fut'[e] \in {"pending", "result"} => fut[e] = fut'[e]
    BY <2>1 DEF Settles
  <2> QED
    BY <2>2 DEF Data, Answers
<1> QED
  BY <1>1, <1>2, <1>3 DEF Data

\* The task of a step that moves no event still has its own.
LEMMA TakenStays ==
    ASSUME OInv, Taken, NEW t \in Coro, Footprint(t), UNCHANGED <<state, ev>>,
           ev[t] # 0 => /\ Drives(t)' /\ pc'[t] # "drain"
                        /\ pc'[t] \in Acting => pc[t] \in Acting
    PROVE  Taken'
<1>1. TakenBy(t)'
  BY DEF Taken, TakenBy
<1> QED
  BY <1>1, TakenOf

\* A send: the event goes behind the queue, with a future of its own.
LEMMA DataAccept ==
    ASSUME TypeOK, TypeOK', Data, UNCHANGED <<state, ev, status>>, Running,
           accepted < MaxSends, accepted' = accepted + 1,
           queue' = Append(queue, accepted + 1),
           fut' = [fut EXCEPT ![accepted + 1] = "pending"]
    PROVE  Data'
<1>0. /\ accepted \in Nat /\ accepted + 1 \in 1..MaxSends /\ queue \in Seq(1..MaxSends)
      /\ \A e \in 1..MaxSends : fut'[e] = IF e = accepted + 1 THEN "pending" ELSE fut[e]
  BY AsyncAssumption DEF TypeOK
<1>1. /\ Values(queue) \subseteq 1..accepted /\ Values(state) \subseteq 0..accepted
      /\ \A t \in Coro : ev[t] \in 0..accepted
      /\ \A e \in 1..MaxSends : e > accepted => fut[e] = "none"
      /\ accepted + 1 \notin Values(queue)
  BY <1>0 DEF Data, Numbered
<1>2. /\ Values(queue') = Values(queue) \cup {accepted + 1}
      /\ Distinct(queue) => Distinct(queue')
  <2>1. PICK e \in 1..MaxSends : e = accepted + 1
    BY <1>0
  <2>2. PICK q \in Seq(1..MaxSends) : q = queue
    BY <1>0
  <2>3. /\ Values(Append(q, e)) = Values(q) \cup {e}
        /\ e \notin Values(q) /\ Distinct(q) => Distinct(Append(q, e))
    BY ValuesAppend
  <2>4. PICK r : r = Append(q, e)
    OBVIOUS
  <2>5. queue' = r /\ e \notin Values(q)
    BY <1>1, <2>1, <2>2, <2>4
  <2>6. Values(r) = Values(q) \cup {e} /\ (Distinct(q) => Distinct(r))
    BY <2>3, <2>4, <2>5
  <2> QED
    BY <2>1, <2>2, <2>5, <2>6
<1>3. Numbered'
  <2>1. /\ Values(queue') \subseteq 1..accepted' /\ Values(state') \subseteq 0..accepted'
        /\ \A t \in Coro : ev'[t] \in 0..accepted'
    BY <1>0, <1>1, <1>2
  <2>2. \A e \in 1..MaxSends : e > accepted' => fut'[e] = "none"
    BY <1>0, <1>1
  <2> QED
    BY <2>1, <2>2 DEF Numbered, Values, Running
<1>4. Once'
  <2>1. /\ accepted + 1 \notin Values(state)
        /\ \A t \in Coro : ev[t] # accepted + 1
    BY <1>0, <1>1
  <2>2. /\ Values(queue') \cap Values(state') = {}
        /\ \A t \in Coro : ev'[t] \notin Values(queue')
    BY <1>2, <2>1 DEF Data, Once
  <2>3. Distinct(queue')
    BY <1>2 DEF Data, Once
  <2> QED
    BY <2>2, <2>3 DEF Once
<1>5. Answers'
  <2> SUFFICES ASSUME NEW e \in 1..accepted + 1
               PROVE  /\ fut'[e] = "pending" =>
                            e \in Values(queue') \/ \E t \in Coro : ev[t] = e
                      /\ fut'[e] = "result" =>
                            \/ status = "stopped"
                            \/ e \in Values(state) /\ \A t \in Coro : ev[t] # e
    BY DEF Answers, Values
  <2>1. CASE e = accepted + 1
    BY <2>1, <1>0, <1>2
  <2>2. CASE e # accepted + 1
    <3>1. e \in 1..accepted /\ e \in 1..MaxSends
      <4>1. accepted \in Nat /\ accepted < MaxSends
        BY <1>0
      <4> QED
        BY <2>2, <4>1, AsyncAssumption
    <3> QED
      BY <3>1, <2>2, <1>0, <1>2 DEF Data, Answers
  <2> QED
    BY <2>1, <2>2
<1> QED
  BY <1>3, <1>4, <1>5 DEF Data

\* The owner, which has no event, takes the head of the queue.
LEMMA DataTake ==
    ASSUME TypeOK, TypeOK', Data, NEW t \in Coro, \A u \in Coro : ev[u] = 0,
           Running, queue # <<>>,
           UNCHANGED <<status, state, fut, accepted>>,
           ev' = [ev EXCEPT ![t] = Head(queue)], queue' = Tail(queue)
    PROVE  Data'
<1>0. /\ queue \in Seq(1..MaxSends)
      /\ \A u \in Coro : ev'[u] = IF u = t THEN Head(queue) ELSE 0
  BY DEF TypeOK
<1>1. /\ Values(queue) = {Head(queue)} \cup Values(queue')
      /\ Head(queue) \notin Values(queue')
      /\ Distinct(queue')
  BY <1>0, ValuesTail DEF Data, Once
<1>2. /\ Values(queue) \subseteq 1..accepted /\ accepted \in Nat
      /\ Head(queue) \in 1..accepted /\ 0 \notin Values(queue)
      /\ Head(queue) \notin Values(state)
  BY <1>1 DEF Data, Numbered, Once, TypeOK
<1>3. Numbered'
  <2>1. \A u \in Coro : ev'[u] \in 0..accepted
    BY <1>0, <1>2
  <2> QED
    BY <1>1, <2>1 DEF Data, Numbered, Values
<1>4. Once'
  <2>1. Values(queue') \cap Values(state) = {}
    BY <1>1 DEF Data, Once
  <2>2. \A u \in Coro : ev'[u] \notin Values(queue')
    BY <1>0, <1>1, <1>2
  <2> QED
    BY <1>1, <2>1, <2>2 DEF Once
<1>5. Answers'
  <2> SUFFICES ASSUME NEW e \in 1..accepted
               PROVE  /\ fut[e] = "pending" =>
                            e \in Values(queue') \/ \E u \in Coro : ev'[u] = e
                      /\ fut[e] = "result" =>
                            e \in Values(state) /\ \A u \in Coro : ev'[u] # e
    BY DEF Answers, Values
  <2>1. e # 0
    BY <1>2
  <2>2. fut[e] = "pending" => e \in Values(queue)
    BY <2>1 DEF Data, Answers
  <2>3. fut[e] = "result" => e \in Values(state)
    BY DEF Data, Answers, Running
  <2>4. e # Head(queue) => \A u \in Coro : ev'[u] # e
    BY <1>0, <2>1
  <2> QED
    BY <2>2, <2>3, <2>4, <1>0, <1>1, <1>2
<1> QED
  BY <1>3, <1>4, <1>5 DEF Data

\* The event that was taken is folded in.
LEMMA DataFold ==
    ASSUME TypeOK, TypeOK', Data, NEW t \in Coro,
           UNCHANGED <<status, queue, ev, accepted>>, Settles,
           state' = Append(state, ev[t])
    PROVE  Data' /\ Values(state') = Values(state) \cup {ev[t]}
<1>0. state \in Seq(0..MaxSends) /\ ev[t] \in 0..MaxSends
  BY DEF TypeOK
<1>1. Values(state') = Values(state) \cup {ev[t]}
  <2>1. PICK e \in 0..MaxSends : e = ev[t]
    BY <1>0
  <2>2. PICK s \in Seq(0..MaxSends) : s = state
    BY <1>0
  <2>3. Values(Append(s, e)) = Values(s) \cup {e}
    BY ValuesFold
  <2>4. PICK r : r = Append(s, e)
    OBVIOUS
  <2>5. state' = r
    BY <2>1, <2>2, <2>4
  <2>6. Values(r) = Values(s) \cup {e}
    BY <2>3, <2>4
  <2> QED
    BY <2>1, <2>2, <2>5, <2>6
<1>2. Numbered'
  <2>1. Values(state') \subseteq 0..accepted
    BY <1>1 DEF Data, Numbered
  <2>2. \A e \in 1..MaxSends : e > accepted => fut'[e] = "none"
    BY DEF Data, Numbered, Settles
  <2> QED
    BY <2>1, <2>2 DEF Data, Numbered, Values
<1>3. Once'
  BY <1>1 DEF Data, Once, Values
<1>4. Answers'
  <2> SUFFICES ASSUME NEW e \in 1..accepted
               PROVE  /\ fut'[e] = "pending" => e \in Values(queue) \/ \E u \in Coro : ev[u] = e
                      /\ fut'[e] = "result" =>
                            \/ status = "stopped"
                            \/ e \in Values(state') /\ \A u \in Coro : ev[u] # e
    BY DEF Answers, Values
  <2>1. e \in 1..MaxSends
    BY AsyncAssumption DEF TypeOK
  <2>2. fut'[e] \in {"pending", "result"} => fut[e] = fut'[e]
    BY <2>1 DEF Settles
  <2> QED
    BY <2>2, <1>1 DEF Data, Answers
<1> QED
  BY <1>1, <1>2, <1>3, <1>4 DEF Data

\* The caller of an event that was folded in gets its result.
LEMMA DataAnswer ==
    ASSUME TypeOK, TypeOK', Data, NEW t \in Coro, \A u \in Coro \ {t} : ev[u] = 0,
           UNCHANGED <<status, state, queue, accepted>>,
           ev[t] # 0 => ev[t] \in Values(state),
           fut' = [e \in 1..MaxSends |->
                      IF e = ev[t] /\ fut[e] = "pending" THEN "result" ELSE fut[e]],
           ev' = [ev EXCEPT ![t] = 0]
    PROVE  Data'
<1>0. /\ \A u \in Coro : ev'[u] = 0
      /\ \A e \in 1..MaxSends :
            fut'[e] = IF e = ev[t] /\ fut[e] = "pending" THEN "result" ELSE fut[e]
      /\ accepted \in Nat /\ accepted <= MaxSends
  BY AsyncAssumption DEF TypeOK
<1>1. Numbered'
  <2>1. \A u \in Coro : ev'[u] \in 0..accepted
    BY <1>0
  <2>2. \A e \in 1..MaxSends : e > accepted => fut'[e] = "none"
    BY <1>0 DEF Data, Numbered
  <2> QED
    BY <2>1, <2>2 DEF Data, Numbered, Values
<1>2. Once'
  <2>1. \A u \in Coro : ev'[u] \notin Values(queue)
    BY <1>0 DEF Data, Numbered
  <2> QED
    BY <2>1 DEF Data, Once, Values
<1>3. Answers'
  <2> SUFFICES ASSUME NEW e \in 1..accepted
               PROVE  /\ fut'[e] = "pending" => e \in Values(queue)
                      /\ fut'[e] = "result" =>
                            \/ status = "stopped"
                            \/ e \in Values(state) /\ \A u \in Coro : ev'[u] # e
    BY DEF Answers, Values
  <2>1. e \in 1..MaxSends /\ e # 0
    BY <1>0, AsyncAssumption
  <2>2. fut'[e] = "pending" => fut[e] = "pending" /\ e # ev[t]
    BY <1>0, <2>1
  <2>3. fut'[e] = "pending" => e \in Values(queue)
    BY <2>1, <2>2 DEF Data, Answers
  <2>4. fut'[e] = "result" => fut[e] = "result" \/ e = ev[t]
    BY <1>0, <2>1
  <2> QED
    BY <1>0, <2>1, <2>3, <2>4 DEF Data, Answers
<1> QED
  BY <1>1, <1>2, <1>3 DEF Data

\* A stop or an exception settles what it discards.
LEMMA DataDiscard ==
    ASSUME TypeOK, TypeOK', Data, UNCHANGED <<state, accepted>>, queue' = <<>>,
           \A u \in Coro : ev'[u] \in {0, ev[u]},
           \A e \in 1..MaxSends :
              /\ fut[e] = "none" => fut'[e] = "none"
              /\ fut'[e] = "pending" => /\ fut[e] = "pending" /\ e \notin Values(queue)
                                        /\ \A u \in Coro : ev[u] = e => ev'[u] = e
              /\ fut'[e] = "result" => fut[e] = "result" \/ status' = "stopped",
           status' = "not_started" => status = "not_started",
           status = "stopped" => status' = "stopped"
    PROVE  Data'
<1>0. accepted \in Nat /\ accepted <= MaxSends /\ Values(queue') = {}
  BY AsyncAssumption, ValuesEmpty DEF TypeOK
<1>1. Numbered'
  <2>1. \A u \in Coro : ev'[u] \in 0..accepted
    BY <1>0 DEF Data, Numbered
  <2>2. \A e \in 1..MaxSends : e > accepted => fut'[e] = "none"
    BY DEF Data, Numbered
  <2>3. Values(queue') \subseteq 1..accepted
    BY <1>0
  <2> QED
    BY <2>1, <2>2, <2>3 DEF Data, Numbered
<1>2. Once'
  BY <1>0 DEF Once, Distinct
<1>3. Answers'
  <2> SUFFICES ASSUME NEW e \in 1..accepted
               PROVE  /\ fut'[e] = "pending" => \E u \in Coro : ev'[u] = e
                      /\ fut'[e] = "result" =>
                            \/ status' = "stopped"
                            \/ e \in Values(state) /\ \A u \in Coro : ev'[u] # e
    BY DEF Answers
  <2>1. e \in 1..MaxSends /\ e # 0
    BY <1>0, AsyncAssumption
  <2>2. ASSUME fut'[e] = "pending" PROVE \E u \in Coro : ev'[u] = e
    BY <2>1, <2>2 DEF Data, Answers
  <2>3. ASSUME fut'[e] = "result", status' # "stopped"
        PROVE  e \in Values(state) /\ \A u \in Coro : ev'[u] # e
    <3>1. e \in Values(state) /\ \A u \in Coro : ev[u] # e
      BY <2>1, <2>3 DEF Data, Answers
    <3> QED
      BY <2>1, <3>1
  <2> QED
    BY <2>2, <2>3
<1> QED
  BY <1>1, <1>2, <1>3 DEF Data

\* Before start nothing was accepted; a restored snapshot has no event in it.
LEMMA DataStart ==
    ASSUME TypeOK, TypeOK', Data, OInv, status = "not_started", status' = "running",
           UNCHANGED <<queue, ev, accepted>>, Settles,
           state' = state \/ state' = <<Restored>>
    PROVE  Data' /\ \A u \in Coro : ev[u] = 0
<1>1. queue = <<>> /\ accepted = 0 /\ Values(queue') = {}
  BY ValuesEmpty DEF OInv, Quiet, Running, Data, Numbered
<1>2. \A u \in Coro : ev[u] = 0 /\ ev'[u] = 0
  BY <1>1 DEF Data, Numbered
<1>3. Values(state') \subseteq 0..0
  <2>1. Values(state) \subseteq 0..0
    BY <1>1 DEF Data, Numbered
  <2>2. Values(<<0>>) \subseteq 0..0
    BY DEF Values
  <2> QED
    BY <2>1, <2>2 DEF Restored
<1>4. Numbered'
  <2>1. \A e \in 1..MaxSends : e > accepted => fut'[e] = "none"
    BY <1>1 DEF Data, Numbered, Settles
  <2> QED
    BY <1>1, <1>2, <1>3, <2>1 DEF Numbered
<1>5. Once'
  BY <1>1 DEF Once, Distinct
<1>6. Answers'
  BY <1>1 DEF Answers
<1> QED
  BY <1>2, <1>4, <1>5, <1>6 DEF Data

LEMMA PromisesWork ==
    ASSUME OInv, TypeOK', Data, Taken, NEW t \in Coro, Work(t), Footprint(t)
    PROVE  Data' /\ Taken'
<1>0. /\ TypeOK /\ Home(t) \in PC /\ Home(t) \in {"idle", "done"}
      /\ {"popped", "drain", "fail", "action", "exec", "done"} \subseteq PC
      /\ pc[t] = "drain" => ev[t] = 0
      /\ Drives(t) <=> owner = t
  BY DEF OInv, PC, Home, Taken, TakenBy, SingleOwner
<1>g. \A label \in PC : Goto(t, label) => pc'[t] = label
  BY <1>0, Going
<1> USE EventOfOwner DEF fields, locals
<1>1. CASE Answered(t)
  <2>1. /\ UNCHANGED <<state, queue, ev, accepted, fut, status>> /\ pc[t] = "answer"
    BY <1>1 DEF Answered
  <2>2. ev[t] = 0
    BY <2>1 DEF Drives, Inside
  <2> QED
    BY <1>0, <2>1, <2>2, DataStays, TakenStays
<1>2. CASE FireStopped(t)
  <2>1. /\ UNCHANGED <<state, queue, ev, accepted, fut, status>> /\ pc[t] \in {"idle", "sleep"}
    BY <1>2 DEF FireStopped, Calls
  <2>2. ev[t] = 0
    BY <2>1 DEF Drives, Inside
  <2> QED
    BY <1>0, <2>1, <2>2, DataStays, TakenStays
<1>3. CASE Gathered(t)
  <2>1. /\ UNCHANGED <<state, queue, ev, accepted, fut, status>> /\ pc[t] = "gather"
        /\ Goto(t, back[t])
    BY <1>3 DEF Gathered
  <2>2. back[t] \in {"idle", "action"} /\ back[t] \in PC
    BY <1>0 DEF TypeOK, PC
  <2>3. pc'[t] = back[t]
    BY <1>g, <2>1, <2>2
  <2>4. ev[t] # 0 => pc'[t] = "action"
    BY <2>1, <2>2, <2>3 DEF Drives, Inside
  <2> QED
    BY <1>0, <2>1, <2>4, DataStays, TakenStays DEF Drives, Inside, Acting
<1>4. CASE DrainPop(t)
  <2>1. /\ pc[t] = "drain" /\ Running /\ queue # <<>>
        /\ ev' = [ev EXCEPT ![t] = Head(queue)] /\ queue' = Tail(queue)
        /\ Goto(t, "popped") /\ UNCHANGED <<status, state, fut, accepted>>
    BY <1>4 DEF DrainPop
  <2>2. \A u \in Coro : ev[u] = 0
    BY <1>0, <2>1 DEF Drives, Inside
  <2>3. TakenBy(t)'
    BY <1>0, <1>g, <2>1 DEF TakenBy, Drives, Inside, Acting
  <2> QED
    BY <1>0, <2>1, <2>2, <2>3, DataTake, TakenOf
<1>5. CASE DrainDone(t)
  <2>1. /\ UNCHANGED <<state, queue, ev, accepted, fut, status>> /\ pc[t] = "drain"
    BY <1>5 DEF DrainDone
  <2> QED
    BY <1>0, <2>1, DataStays, TakenStays
<1>6. CASE Commit(t)
  <2>1. PICK w \in SUBSET After : w = active' /\ Reconcile(t, w)
    BY <1>6 DEF Commit
  <2>2. /\ pc[t] = "popped" /\ state' = Append(state, ev[t])
        /\ UNCHANGED <<status, queue, ev, accepted>>
    BY <1>6 DEF Commit
  <2>3. Settles /\ pc'[t] \in {"exec", "fail"}
    BY <1>0, <2>1, <2>2, Reconciling DEF Rescheduled
  <2>4. Data' /\ Values(state') = Values(state) \cup {ev[t]}
    BY <1>0, <2>2, <2>3, DataFold
  <2>5. TakenBy(t)'
    BY <2>2, <2>3, <2>4 DEF TakenBy, Drives, Inside
  <2> QED
    BY <2>4, <2>5, TakenOf
<1>7. CASE Finish(t)
  <2>1. /\ pc[t] = "exec" /\ UNCHANGED <<status, state, queue, accepted>>
        /\ ev' = [ev EXCEPT ![t] = 0]
        /\ fut' = [e \in 1..MaxSends |->
                      IF e = ev[t] /\ fut[e] = "pending" THEN "result" ELSE fut[e]]
    BY <1>7 DEF Finish
  <2>2. \A u \in Coro \ {t} : ev[u] = 0
    BY <1>0, <2>1 DEF Drives, Inside
  <2>3. ev[t] # 0 => ev[t] \in Values(state)
    BY <2>1 DEF Taken, TakenBy, Acting
  <2>4. Data'
    BY <1>0, <2>1, <2>2, <2>3, DataAnswer
  <2>5. TakenBy(t)'
    BY <1>0, <2>1 DEF TakenBy, TypeOK
  <2> QED
    BY <2>1, <2>2, <2>4, <2>5, TakenOf
<1>8. CASE CallAction(t)
  <2>1. /\ UNCHANGED <<state, queue, ev, accepted, fut, status>> /\ pc[t] = "exec"
        /\ pc'[t] = "action"
    BY <1>0, <1>8, <1>g DEF CallAction, NextAction
  <2> QED
    BY <1>0, <2>1, DataStays, TakenStays DEF Drives, Inside, Acting
<1>9. CASE ExecuteSend(t)
  <2>1. /\ UNCHANGED <<state, ev, status, pc>> /\ pc[t] = "exec" /\ Running
        /\ accepted < MaxSends /\ accepted' = accepted + 1
        /\ queue' = Append(queue, accepted + 1)
        /\ fut' = [fut EXCEPT ![accepted + 1] = "pending"]
    BY <1>9 DEF ExecuteSend, NextAction
  <2>2. Data'
    BY <1>0, <2>1, DataAccept
  <2>3. Taken'
    BY <2>1, TakenStays DEF Drives, Inside
  <2> QED
    BY <2>2, <2>3
<1>10. CASE ExecuteDelayed(t)
  <2>1. /\ UNCHANGED <<state, queue, ev, accepted, fut, status>> /\ pc[t] = "exec"
    BY <1>10 DEF ExecuteDelayed, NextAction
  <2>2. pc'[t] = pc[t]
    <3>1. PICK k \in NewSend : pc' = [pc EXCEPT ![k] = "sleep"]
      BY <1>10 DEF ExecuteDelayed
    <3>2. k # t
      BY <2>1, MakingSend DEF Free
    <3> QED
      BY <3>1, <3>2, <1>0 DEF TypeOK
  <2> QED
    BY <1>0, <2>1, <2>2, DataStays, TakenStays DEF Drives, Inside, Acting
<1>11. CASE ExecuteCancel(t)
  <2>1. /\ UNCHANGED <<state, queue, ev, accepted, status, pc>> /\ pc[t] = "exec"
    BY <1>11 DEF ExecuteCancel, NextAction
  <2>2. PICK id \in SendId : fut' = FutCancelled({sends[id]})
    BY <1>11 DEF ExecuteCancel
  <2>3. Settles
    BY <1>0, <2>2, Cancelling DEF Settles
  <2> QED
    BY <1>0, <2>1, <2>3, DataStays, TakenStays DEF Drives, Inside, Acting
<1>12. CASE Resume(t)
  <2>1. /\ UNCHANGED <<state, queue, ev, accepted, fut, status>> /\ pc[t] = "await"
        /\ pc'[t] = "action"
    BY <1>0, <1>12, <1>g DEF Resume
  <2> QED
    BY <1>0, <2>1, DataStays, TakenStays DEF Drives, Inside, Acting
<1>13. CASE Return(t)
  <2>1. /\ UNCHANGED <<state, queue, ev, accepted, fut, status>> /\ pc[t] = "action"
        /\ pc'[t] = "exec"
    BY <1>0, <1>13, <1>g DEF Return, Acts
  <2> QED
    BY <1>0, <2>1, DataStays, TakenStays DEF Drives, Inside, Acting
<1>14. CASE Raise(t)
  <2>1. /\ UNCHANGED <<state, queue, ev, accepted, fut, status>> /\ pc'[t] = "fail"
    BY <1>0, <1>14, <1>g DEF Raise
  <2> QED
    BY <1>0, <2>1, DataStays, TakenStays DEF Drives, Inside, Acting
<1>15. CASE CancelArrives(t)
  <2>1. /\ UNCHANGED <<state, queue, ev, accepted, fut, status>>
        /\ pc[t] \in {"sleep", "await", "answer", "gather"}
        /\ pc'[t] = "fail" \/ ~Drives(t)
    BY <1>0, <1>15, <1>g DEF CancelArrives, Drives, Inside
  <2> QED
    BY <1>0, <2>1, DataStays, TakenStays DEF Drives, Inside, Acting
<1>16. CASE Fail(t)
  <2>1. /\ pc[t] = "fail" /\ UNCHANGED <<status, state, accepted>> /\ queue' = <<>>
        /\ ev' = [ev EXCEPT ![t] = 0]
        /\ fut' = [e \in 1..MaxSends |->
                      IF e \in Values(queue) \cup {ev[t]} /\ fut[e] = "pending"
                      THEN "failed" ELSE fut[e]]
    BY <1>16 DEF Fail
  <2>2. \A u \in Coro \ {t} : ev[u] = 0
    BY <1>0, <2>1 DEF Drives, Inside
  <2>3. \A u \in Coro : ev'[u] = IF u = t THEN 0 ELSE ev[u]
    BY <1>0, <2>1 DEF TypeOK
  <2>4. \A e \in 1..MaxSends :
            /\ fut[e] = "none" => fut'[e] = "none"
            /\ fut'[e] = "pending" => /\ fut[e] = "pending" /\ e \notin Values(queue)
                                      /\ \A u \in Coro : ev[u] = e => ev'[u] = e
            /\ fut'[e] = "result" => fut[e] = "result"
    BY <2>1, <2>3
  <2>5. Data'
    BY <1>0, <2>1, <2>3, <2>4, DataDiscard
  <2>6. TakenBy(t)'
    BY <2>3 DEF TakenBy
  <2> QED
    BY <2>2, <2>5, <2>6, TakenOf
<1> QED
  BY <1>1, <1>2, <1>3, <1>4, <1>5, <1>6, <1>7, <1>8, <1>9, <1>10, <1>11, <1>12,
     <1>13, <1>14, <1>15, <1>16 DEF Work

LEMMA PromisesCall ==
    ASSUME OInv, TypeOK', Data, Taken, NEW t \in Coro, Call(t), Footprint(t)
    PROVE  Data' /\ Taken'
<1>0. /\ TypeOK /\ {"answer", "drain", "await", "gather"} \subseteq PC
      /\ Drives(t) <=> owner = t
  BY DEF OInv, PC, SingleOwner
<1>g. \A label \in PC : Goto(t, label) => pc'[t] = label
  BY <1>0, Going
<1> USE EventOfOwner DEF fields, locals
<1>1. CASE Start(t)
  <2>0. /\ pc[t] = "idle" /\ status = "not_started" /\ status' = "running"
        /\ UNCHANGED <<queue, ev, accepted>>
        /\ state' = state \/ state' = <<Restored>>
    BY <1>1 DEF Start, Calls
  <2>1. PICK w \in SUBSET After : w = active' /\ Reconcile(t, w)
    <3>1. active \subseteq After
      BY <1>0 DEF TypeOK
    <3> QED
      BY <1>1, <3>1 DEF Start
  <2>2. Settles
    BY <1>0, <2>0, <2>1, Reconciling DEF Rescheduled
  <2>3. Data' /\ \A u \in Coro : ev[u] = 0
    BY <1>0, <2>0, <2>2, DataStart
  <2>4. TakenBy(t)'
    BY <2>0, <2>3 DEF TakenBy
  <2> QED
    BY <2>3, <2>4, TakenOf
<1>2. CASE Send(t)
  <2>1. /\ UNCHANGED <<state, ev, status>> /\ Running
        /\ accepted < MaxSends /\ accepted' = accepted + 1
        /\ queue' = Append(queue, accepted + 1)
        /\ fut' = [fut EXCEPT ![accepted + 1] = "pending"]
        /\ UNCHANGED <<back, wait>>
    BY <1>2 DEF Send
  <2>2. Data'
    BY <1>0, <2>1, DataAccept
  <2>3. CASE owner = t
    <3>1. pc' = pc /\ pc[t] \in {"idle", "sleep", "action"}
      BY <1>2, <2>3 DEF Send, Calls, Acts
    <3> QED
      BY <1>0, <2>1, <2>2, <2>3, <3>1, TakenStays DEF Drives, Inside
  <2>4. CASE owner # t
    BY <1>0, <2>1, <2>2, <2>4, TakenStays
  <2> QED
    BY <2>3, <2>4
<1>3. CASE Stop(t)
  <2>1. /\ UNCHANGED <<state, ev, accepted>> /\ queue' = <<>> /\ status' = "stopped"
        /\ pc[t] \in {"idle", "action"}
    BY <1>3 DEF Stop, Calls, Acts
  <2>2. PICK S : /\ S = Held \ {None}
                 /\ fut' = [e \in 1..MaxSends |->
                               IF e \in Values(queue) /\ FutCancelled(S)[e] = "pending"
                               THEN "result" ELSE FutCancelled(S)[e]]
    BY <1>3 DEF Stop
  <2>3. \A e \in 1..MaxSends :
            /\ fut[e] = "none" => fut'[e] = "none"
            /\ fut'[e] = "pending" => fut[e] = "pending" /\ e \notin Values(queue)
    BY <1>0, <2>2, Cancelling
  <2>4. Data'
    BY <1>0, <2>1, <2>3, DataDiscard
  <2>5. \/ pc'[t] = pc[t]
        \/ pc'[t] = "gather" /\ back'[t] = pc[t]
    BY <1>3, <1>0, <1>g DEF Stop, TypeOK
  <2>6. Taken'
    BY <1>0, <2>1, <2>5, TakenStays DEF Drives, Inside, Acting
  <2> QED
    BY <2>4, <2>6
<1>4. CASE Suspend(t)
  <2>1. /\ UNCHANGED <<state, queue, ev, accepted, fut, status>> /\ pc[t] = "action"
        /\ pc'[t] = "await"
    BY <1>0, <1>4, <1>g DEF Suspend, Acts
  <2> QED
    BY <1>0, <2>1, DataStays, TakenStays DEF Drives, Inside, Acting
<1>5. CASE Cancel(t)
  <2>1. /\ UNCHANGED <<state, queue, ev, accepted, status, pc, back>>
        /\ fut' = FutCancelled({t}) /\ pc[t] \in {"await", "answer", "gather"}
    BY <1>5 DEF Cancel
  <2>2. Settles
    BY <1>0, <2>1, Cancelling DEF Settles
  <2> QED
    BY <1>0, <2>1, <2>2, DataStays, TakenStays DEF Drives, Inside, Acting
<1> QED
  BY <1>1, <1>2, <1>3, <1>4, <1>5 DEF Call

LEMMA DataStep == OInv /\ TypeOK' /\ Data /\ Taken /\ [Next]_vars => Data' /\ Taken'
<1> SUFFICES ASSUME OInv, TypeOK', Data, Taken, [Next]_vars PROVE Data' /\ Taken'
  OBVIOUS
<1>0. TypeOK
  BY DEF OInv
<1>1. CASE UNCHANGED vars
  <2>1. Data'
    BY <1>0, <1>1, DataStays DEF vars, fields, locals
  <2>2. Taken'
    BY <1>1 DEF Taken, TakenBy, Drives, vars, fields, locals
  <2> QED
    BY <2>1, <2>2
<1>2. ASSUME NEW t \in Coro, Work(t) \/ Call(t) PROVE Data' /\ Taken'
  <2>1. Footprint(t)
    BY <1>0, <1>2, TypeWork, TypeCall
  <2> QED
    BY <1>2, <2>1, PromisesWork, PromisesCall
<1> QED
  BY <1>1, <1>2, StepCases

LEMMA EventsSafe == Spec => [](OInv /\ Data /\ Taken)
<1>1. OInv /\ OInv' /\ Data /\ Taken /\ [Next]_vars => Data' /\ Taken'
  BY DataStep DEF OInv
<1> QED
  BY <1>1, DataInit, Ownership, PTL DEF Spec

LEMMA PromisesFollow == OInv /\ Data /\ Taken => PromisesKept
<1> SUFFICES ASSUME OInv, Data, Taken, NEW e \in 1..accepted
             PROVE  /\ fut[e] = "pending" =>
                          e \in Values(queue) \cup {ev[t] : t \in {u \in Coro : Drives(u)}}
                    /\ fut[e] = "result" =>
                          \/ status = "stopped"
                          \/ e \in Values(state) /\ \A t \in Coro : ev[t] # e
                    /\ \A t \in Coro :
                          pc[t] = "drain" /\ own[t] = e /\ (~Running \/ queue = <<>>) =>
                              fut[e] # "pending"
  BY DEF PromisesKept
<1>0. e # 0
  BY AsyncAssumption DEF OInv, TypeOK
<1>1. ASSUME fut[e] = "pending", e \notin Values(queue)
      PROVE  \E t \in Coro : ev[t] = e /\ Drives(t) /\ pc[t] # "drain"
  BY <1>0, <1>1 DEF Data, Answers, Taken, TakenBy
<1>2. ASSUME NEW t \in Coro, pc[t] = "drain", ~Running \/ queue = <<>>
      PROVE  fut[e] # "pending"
  <2>1. owner = t /\ e \notin Values(queue)
    BY <1>2, Stands, ValuesEmpty DEF OInv, Quiet, Inside
  <2>2. \A u \in Coro : ev[u] # e
    BY <1>0, <1>2, <2>1, EventOfOwner DEF Taken, TakenBy
  <2> QED
    BY <1>1, <2>1, <2>2
<1> QED
  BY <1>1, <1>2 DEF Data, Answers

\* No future is forgotten and none is answered too early: a pending one belongs
\* to an event that is queued or under way, one with a result to an event whose
\* macrostep is over or to a stop, and a task that has drained has its own
\* answer, so that future.result() at the end of send does not raise
\* InvalidStateError.
THEOREM PromisesAreKept == Spec => []PromisesKept
<1> QED
  BY EventsSafe, PromisesFollow, PTL

-----------------------------------------------------------------------------
(* The refinement of Mailbox *)

\* Only the task of the step can have an event in flight.
LEMMA InFlightOf ==
    ASSUME OInv, NEW t \in Coro, Footprint(t)
    PROVE  /\ InFlight = IF pc[t] = "popped" THEN {ev[t]} ELSE {}
           /\ InFlight' = IF pc'[t] = "popped" THEN {ev'[t]} ELSE {}
<1>1. \A u \in Coro \ {t} : pc[u] # "popped" /\ pc'[u] # "popped"
  BY OthersStay DEF Suspended
<1> QED
  BY <1>1 DEF InFlight

LEMMA RefinesInit == Init => Mbox!Init
<1> SUFFICES ASSUME Init PROVE Mbox!Init
  OBVIOUS
<1>1. InFlight = {}
  BY DEF Init, InFlight
<1> QED
  BY <1>1 DEF Init, Mbox!Init

\* A step that leaves the mailbox alone.
LEMMA Stutters ==
    ASSUME OInv, NEW t \in Coro, Footprint(t),
           UNCHANGED <<status, state, queue, processing, accepted>>,
           pc[t] # "popped", pc'[t] # "popped"
    PROVE  UNCHANGED Mbox!vars
<1>1. InFlight' = InFlight
  BY InFlightOf
<1> QED
  BY <1>1 DEF Mbox!vars

\* A send puts its event in the mailbox, whichever task makes it.
LEMMA Accepts ==
    ASSUME OInv, NEW t \in Coro, Footprint(t),
           Running, accepted < MaxSends, accepted' = accepted + 1,
           queue' = Append(queue, accepted + 1),
           processing', UNCHANGED <<status, state>>,
           pc[t] # "popped", pc'[t] # "popped"
    PROVE  Mbox!Next
<1>1. InFlight' = InFlight
  BY InFlightOf
<1>2. Mbox!Accept
  BY <1>1 DEF Mbox!Accept, Running
<1> QED
  BY <1>2 DEF Mbox!Next

\* The steps that pop, commit, give up and release are the mailbox's own; a
\* transition that raises gives its event up; the others leave it alone.
LEMMA RefinesWork ==
    ASSUME OInv, NEW t \in Coro, Work(t), Footprint(t)
    PROVE  [Mbox!Next]_(Mbox!vars)
<1>0. /\ TypeOK /\ Home(t) \in PC /\ Home(t) # "popped"
      /\ {"popped", "drain", "fail", "action", "exec", "done"} \subseteq PC
  BY DEF OInv, PC, Home
<1>g. \A label \in PC : Goto(t, label) => pc'[t] = label
  BY <1>0, Going
<1>a. pc[t] \in Inside => processing
  BY Stands
<1> USE DEF fields
<1>1. CASE Answered(t)
  <2>1. UNCHANGED <<status, state, queue, processing, accepted>>
        /\ pc[t] # "popped" /\ pc'[t] # "popped"
    BY <1>0, <1>g, <1>1 DEF Answered
  <2> QED
    BY <2>1, Stutters
<1>2. CASE FireStopped(t)
  <2>1. UNCHANGED <<status, state, queue, processing, accepted>>
        /\ pc[t] # "popped" /\ pc'[t] # "popped"
    BY <1>0, <1>g, <1>2 DEF FireStopped, Calls
  <2> QED
    BY <2>1, Stutters
<1>3. CASE Gathered(t)
  <2>1. back[t] \in PC /\ back[t] # "popped"
    BY <1>0 DEF TypeOK, PC
  <2>2. UNCHANGED <<status, state, queue, processing, accepted>>
        /\ pc[t] # "popped" /\ pc'[t] # "popped"
    BY <1>g, <1>3, <2>1 DEF Gathered
  <2> QED
    BY <2>2, Stutters
<1>4. CASE DrainPop(t)
  <2>1. /\ pc[t] = "drain" /\ Running /\ queue # <<>> /\ queue' = Tail(queue)
        /\ pc'[t] = "popped" /\ UNCHANGED <<status, state, processing, accepted>>
    BY <1>0, <1>g, <1>4 DEF DrainPop
  <2>2. ev'[t] = Head(queue)
    BY <1>0, <1>4 DEF DrainPop, TypeOK
  <2>3. InFlight = {} /\ InFlight' = {Head(queue)} /\ processing
    BY <1>a, <2>1, <2>2, InFlightOf DEF Inside
  <2>4. Mbox!Take
    BY <2>1, <2>3 DEF Mbox!Take, Running
  <2> QED
    BY <2>4 DEF Mbox!Next
<1>5. CASE DrainDone(t)
  <2>1. /\ pc[t] = "drain" /\ (~Running \/ queue = <<>>) /\ processing' = FALSE
        /\ pc'[t] # "popped" /\ UNCHANGED <<status, state, queue, accepted>>
    BY <1>0, <1>g, <1>5 DEF DrainDone
  <2>2. InFlight = {} /\ InFlight' = {} /\ processing
    BY <1>a, <2>1, InFlightOf DEF Inside
  <2>3. Mbox!Rest
    BY <2>1, <2>2 DEF Mbox!Rest, Running
  <2> QED
    BY <2>3 DEF Mbox!Next
<1>6. CASE Commit(t)
  <2>1. PICK w \in SUBSET After : w = active' /\ Reconcile(t, w)
    BY <1>6 DEF Commit
  <2>2. /\ pc[t] = "popped" /\ state' = Append(state, ev[t])
        /\ UNCHANGED <<status, queue, processing, accepted>>
    BY <1>6 DEF Commit
  <2>3. pc'[t] # "popped"
    BY <1>0, <2>1, <2>2, Reconciling DEF Rescheduled
  <2>4. InFlight = {ev[t]} /\ InFlight' = {} /\ processing /\ Running
    BY <1>a, <2>2, <2>3, InFlightOf DEF Inside, OInv, Quiet
  <2>5. Mbox!Fold
    BY <2>2, <2>4 DEF Mbox!Fold, Running
  <2> QED
    BY <2>5 DEF Mbox!Next
<1>7. CASE Finish(t)
  <2>1. UNCHANGED <<status, state, queue, processing, accepted>>
        /\ pc[t] # "popped" /\ pc'[t] # "popped"
    BY <1>0, <1>g, <1>7 DEF Finish
  <2> QED
    BY <2>1, Stutters
<1>8. CASE CallAction(t)
  <2>1. UNCHANGED <<status, state, queue, processing, accepted>>
        /\ pc[t] # "popped" /\ pc'[t] # "popped"
    BY <1>0, <1>g, <1>8 DEF CallAction, NextAction
  <2> QED
    BY <2>1, Stutters
<1>9. CASE ExecuteSend(t)
  <2>1. /\ pc[t] = "exec" /\ pc' = pc /\ Running /\ accepted < MaxSends
        /\ accepted' = accepted + 1 /\ queue' = Append(queue, accepted + 1)
        /\ UNCHANGED <<status, state, processing>>
    BY <1>9 DEF ExecuteSend, NextAction
  <2>2. processing' /\ pc[t] # "popped" /\ pc'[t] # "popped"
    BY <1>a, <2>1 DEF Inside
  <2> QED
    BY <2>1, <2>2, Accepts
<1>10. CASE ExecuteDelayed(t)
  <2>1. UNCHANGED <<status, state, queue, processing, accepted>> /\ pc[t] = "exec"
    BY <1>10 DEF ExecuteDelayed, NextAction
  <2>2. pc'[t] # "popped"
    BY <1>0, <1>10, <2>1 DEF ExecuteDelayed, TypeOK
  <2> QED
    BY <2>1, <2>2, Stutters
<1>11. CASE ExecuteCancel(t)
  <2>1. UNCHANGED <<status, state, queue, processing, accepted>>
        /\ pc[t] # "popped" /\ pc'[t] # "popped"
    BY <1>11 DEF ExecuteCancel, NextAction
  <2> QED
    BY <2>1, Stutters
<1>12. CASE Resume(t)
  <2>1. UNCHANGED <<status, state, queue, processing, accepted>>
        /\ pc[t] # "popped" /\ pc'[t] # "popped"
    BY <1>0, <1>g, <1>12 DEF Resume
  <2> QED
    BY <2>1, Stutters
<1>13. CASE Return(t)
  <2>1. UNCHANGED <<status, state, queue, processing, accepted>>
        /\ pc[t] # "popped" /\ pc'[t] # "popped"
    BY <1>0, <1>g, <1>13 DEF Return, Acts
  <2> QED
    BY <2>1, Stutters
<1>14. CASE Raise(t)
  <2>1. UNCHANGED <<status, state, queue, processing, accepted>>
        /\ pc[t] \in {"popped", "action", "exec"} /\ pc'[t] = "fail"
    BY <1>0, <1>g, <1>14 DEF Raise
  <2>2. CASE pc[t] = "popped"
    <3>1. InFlight = {ev[t]} /\ InFlight' = {} /\ processing
      BY <1>a, <2>1, <2>2, InFlightOf DEF Inside
    <3>2. Mbox!GiveUp
      BY <2>1, <3>1 DEF Mbox!GiveUp
    <3> QED
      BY <3>2 DEF Mbox!Next
  <2>3. CASE pc[t] # "popped"
    BY <2>1, <2>3, Stutters
  <2> QED
    BY <2>2, <2>3
<1>15. CASE CancelArrives(t)
  <2>1. UNCHANGED <<status, state, queue, processing, accepted>>
        /\ pc[t] # "popped" /\ pc'[t] # "popped"
    BY <1>0, <1>g, <1>15 DEF CancelArrives
  <2> QED
    BY <2>1, Stutters
<1>16. CASE Fail(t)
  <2>1. /\ pc[t] = "fail" /\ queue' = <<>> /\ processing' = FALSE
        /\ pc'[t] # "popped" /\ UNCHANGED <<status, state, accepted>>
    BY <1>0, <1>g, <1>16 DEF Fail
  <2>2. InFlight = {} /\ InFlight' = {} /\ processing
    BY <1>a, <2>1, InFlightOf DEF Inside
  <2>3. Mbox!Abort
    BY <2>1, <2>2 DEF Mbox!Abort
  <2> QED
    BY <2>3 DEF Mbox!Next
<1> QED
  BY <1>1, <1>2, <1>3, <1>4, <1>5, <1>6, <1>7, <1>8, <1>9, <1>10, <1>11, <1>12,
     <1>13, <1>14, <1>15, <1>16 DEF Work

LEMMA RefinesCall ==
    ASSUME OInv, NEW t \in Coro, Call(t), Footprint(t)
    PROVE  [Mbox!Next]_(Mbox!vars)
<1>0. TypeOK /\ {"answer", "drain", "await", "gather"} \subseteq PC
  BY DEF OInv, PC
<1>g. \A label \in PC : Goto(t, label) => pc'[t] = label
  BY <1>0, Going
<1> USE DEF fields
<1>1. CASE Start(t)
  <2>0. /\ pc[t] = "idle" /\ status = "not_started" /\ status' = "running"
        /\ processing' = TRUE /\ UNCHANGED <<queue, accepted>>
        /\ state' \in {state, <<0>>}
    BY <1>1 DEF Start, Calls, Restored
  <2>1. PICK w \in SUBSET After : w = active' /\ Reconcile(t, w)
    <3>1. active \subseteq After
      BY <1>0 DEF TypeOK
    <3> QED
      BY <1>1, <3>1 DEF Start
  <2>2. pc'[t] # "popped"
    BY <1>0, <2>0, <2>1, Reconciling DEF Rescheduled
  <2>3. InFlight' = InFlight
    BY <2>0, <2>2, InFlightOf
  <2>4. Mbox!Start
    BY <2>0, <2>3 DEF Mbox!Start
  <2> QED
    BY <2>4 DEF Mbox!Next
<1>2. CASE Send(t)
  <2>1. /\ pc[t] \in {"idle", "sleep", "action"} /\ Running /\ accepted < MaxSends
        /\ accepted' = accepted + 1 /\ queue' = Append(queue, accepted + 1)
        /\ UNCHANGED <<status, state>>
    BY <1>2 DEF Send, Calls, Acts
  <2>2. pc'[t] # "popped"
    BY <1>0, <1>2, <1>g, <2>1 DEF Send
  <2>3. processing'
    BY <1>2, Stands DEF Send
  <2> QED
    BY <2>1, <2>2, <2>3, Accepts
<1>3. CASE Stop(t)
  <2>1. /\ pc[t] \in {"idle", "action"} /\ status' = "stopped" /\ queue' = <<>>
        /\ UNCHANGED <<state, processing, accepted>>
    BY <1>3 DEF Stop, Calls, Acts
  <2>2. pc'[t] # "popped"
    BY <1>0, <1>3, <1>g, <2>1 DEF Stop
  <2>3. InFlight' = InFlight
    BY <2>1, <2>2, InFlightOf
  <2>4. Mbox!Stop
    BY <2>1, <2>3 DEF Mbox!Stop
  <2> QED
    BY <2>4 DEF Mbox!Next
<1>4. CASE Suspend(t)
  <2>1. UNCHANGED <<status, state, queue, processing, accepted>>
        /\ pc[t] # "popped" /\ pc'[t] # "popped"
    BY <1>0, <1>g, <1>4 DEF Suspend, Acts
  <2> QED
    BY <2>1, Stutters
<1>5. CASE Cancel(t)
  <2>1. UNCHANGED <<status, state, queue, processing, accepted>>
        /\ pc[t] # "popped" /\ pc'[t] # "popped"
    BY <1>5 DEF Cancel
  <2> QED
    BY <2>1, Stutters
<1> QED
  BY <1>1, <1>2, <1>3, <1>4, <1>5 DEF Call

LEMMA RefinesStep == OInv /\ [Next]_vars => [Mbox!Next]_(Mbox!vars)
<1> SUFFICES ASSUME OInv, [Next]_vars PROVE [Mbox!Next]_(Mbox!vars)
  OBVIOUS
<1>1. CASE UNCHANGED vars
  BY <1>1 DEF vars, fields, locals, InFlight, Mbox!vars
<1>2. ASSUME NEW t \in Coro, Work(t) \/ Call(t) PROVE [Mbox!Next]_(Mbox!vars)
  <2>1. Footprint(t)
    BY <1>2, TypeWork, TypeCall DEF OInv
  <2> QED
    BY <1>2, <2>1, RefinesWork, RefinesCall
<1> QED
  BY <1>1, <1>2, StepCases

\* Tasks, suspensions, cancellations and exceptions implement the sequential
\* mailbox, the one that Interpreter implements with threads and a lock.
THEOREM Refinement == Spec => ImplementsMailbox
<1> QED
  BY RefinesInit, RefinesStep, Ownership, PTL
     DEF Spec, ImplementsMailbox, Mbox!Spec

=============================================================================
