------------------------- MODULE ThreadClockProofs -------------------------
(***************************************************************************)
(* Theorems about ThreadClock, for every number of timers and every time.  *)
(***************************************************************************)
EXTENDS ThreadClock, SequenceTheorems, TLAPS

Inv == TypeOK /\ NoTimerForgotten

LEMMA InvInit == Init => Inv
<1> SUFFICES ASSUME Init PROVE Inv
  OBVIOUS
<1>1. TypeOK
  BY ClockAssumption DEF Init, TypeOK
<1>2. NoTimerForgotten
  BY DEF Init, NoTimerForgotten
<1> QED
  BY <1>1, <1>2 DEF Inv

\* A timer that is set gets the next number and keeps the others' times.
LEMMA Appended ==
  ASSUME TypeOK, NEW d \in 0..MaxTime, due' = Append(due, d), Len(due) < MaxTimers
  PROVE  /\ due' \in Seq(0..MaxTime) /\ Len(due') = Len(due) + 1
         /\ Len(due') <= MaxTimers
         /\ 1..Len(due') = 1..Len(due) \cup {Len(due) + 1}
         /\ \A t \in 1..Len(due) : due'[t] = due[t]
         /\ due'[Len(due) + 1] = d
<1>1. due \in Seq(0..MaxTime) /\ Len(due) \in Nat
  BY DEF TypeOK
<1> QED
  BY <1>1, ClockAssumption

\* Times are naturals.
LEMMA Times ==
  ASSUME TypeOK
  PROVE  /\ now \in Nat /\ wake \in Nat /\ Len(due) \in Nat
         /\ \A t \in 1..Len(due) : due[t] \in 0..MaxTime
<1>1. due \in Seq(0..MaxTime)
  BY DEF TypeOK
<1> QED
  BY <1>1, ClockAssumption DEF TypeOK

LEMMA TypeStep == TypeOK /\ [Next]_vars => TypeOK'
<1> SUFFICES ASSUME TypeOK, [Next]_vars PROVE TypeOK'
  OBVIOUS
<1>1. CASE SetTimeout
  <2> PICK d \in 0..MaxTime : due' = Append(due, d)
    BY <1>1 DEF SetTimeout
  <2>1. /\ due' \in Seq(0..MaxTime) /\ Len(due') <= MaxTimers
        /\ 1..Len(due') = 1..Len(due) \cup {Len(due) + 1}
    BY <1>1, Appended DEF SetTimeout
  <2>2. /\ pending' \subseteq 1..Len(due') /\ heap' \subseteq 1..Len(due')
        /\ worker' \in {"none", "scan", "wait", "call"}
        /\ now' \in 0..MaxTime /\ wake' \in 0..MaxTime
    BY <1>1, <2>1 DEF SetTimeout, TypeOK, Notified
  <2>3. called' \in Seq(1..Len(due'))
    BY <1>1, <2>1 DEF SetTimeout, TypeOK
  <2> QED
    BY <2>1, <2>2, <2>3 DEF TypeOK
<1>2. CASE ClearTimeout
  BY <1>2 DEF ClearTimeout, TypeOK, Notified
<1>3. CASE Sleep
  BY <1>3, Times DEF Sleep, TypeOK
<1>4. CASE Wake
  BY <1>4 DEF Wake, TypeOK
<1>5. CASE Call
  <2> PICK t \in heap : /\ heap' = heap \ (Popped(t) \cup {t})
                        /\ pending' = pending \ {t}
                        /\ called' = Append(called, t)
    BY <1>5 DEF Call
  <2>1. called' \in Seq(1..Len(due))
    BY DEF TypeOK
  <2> QED
    BY <1>5, <2>1 DEF Call, TypeOK
<1>6. CASE Returned
  BY <1>6 DEF Returned, TypeOK
<1>7. CASE Exit
  BY <1>7 DEF Exit, TypeOK
<1>8. CASE Tick
  BY <1>8, ClockAssumption DEF Tick, TypeOK
<1>9. CASE UNCHANGED vars
  BY <1>9 DEF vars, TypeOK
<1> QED
  BY <1>1, <1>2, <1>3, <1>4, <1>5, <1>6, <1>7, <1>8, <1>9 DEF Next, Run

\* Every step keeps each pending timer in the heap, with a worker that does
\* not sleep past it: whoever sets or clears one wakes the worker, and the
\* worker sleeps until the earliest and leaves only an empty table.
LEMMA ForgottenStep == Inv /\ [Next]_vars => NoTimerForgotten'
<1> SUFFICES ASSUME Inv, [Next]_vars PROVE NoTimerForgotten'
  OBVIOUS
<1> USE DEF Inv
<1>1. CASE SetTimeout
  <2>1. worker' # "none" /\ worker' # "wait"
    BY <1>1 DEF SetTimeout, Notified, TypeOK
  <2> QED
    BY <1>1, <2>1 DEF SetTimeout, NoTimerForgotten
<1>2. CASE ClearTimeout
  <2>1. worker' # "wait" /\ (worker # "none" => worker' # "none")
    BY <1>2 DEF ClearTimeout, Notified
  <2> QED
    BY <1>2, <2>1 DEF ClearTimeout, NoTimerForgotten
<1>3. CASE Sleep
  <2> PICK t \in heap : AtHead(t) /\ heap' = heap \ Popped(t) /\ wake' = due[t]
    BY <1>3 DEF Sleep
  <2>1. pending \subseteq heap'
    BY DEF Popped, NoTimerForgotten
  <2>2. \A u \in pending : due[t] <= due[u]
    BY Times DEF AtHead, Before, NoTimerForgotten, TypeOK
  <2> QED
    BY <1>3, <2>1, <2>2 DEF Sleep, NoTimerForgotten
<1>4. CASE Wake
  BY <1>4 DEF Wake, NoTimerForgotten
<1>5. CASE Call
  BY <1>5 DEF Call, Popped, NoTimerForgotten
<1>6. CASE Returned
  BY <1>6 DEF Returned, NoTimerForgotten
<1>7. CASE Exit
  BY <1>7 DEF Exit, NoTimerForgotten
<1>8. CASE Tick
  BY <1>8 DEF Tick, NoTimerForgotten
<1>9. CASE UNCHANGED vars
  BY <1>9 DEF vars, NoTimerForgotten
<1> QED
  BY <1>1, <1>2, <1>3, <1>4, <1>5, <1>6, <1>7, <1>8, <1>9 DEF Next, Run

LEMMA Invariance == Spec => []Inv
<1>1. Inv /\ [Next]_vars => Inv'
  BY TypeStep, ForgottenStep DEF Inv
<1> QED
  BY InvInit, <1>1, PTL DEF Spec

\* Every variable of the clock keeps its type.
THEOREM ClockTypes == Spec => []TypeOK
<1>1. Inv => TypeOK
  BY DEF Inv
<1> QED
  BY Invariance, <1>1, PTL

\* A pending timer is in the heap of a worker that does not sleep past it,
\* for every number of timers (ThreadClock._run and set_timeout).
THEOREM PendingTimersHaveWorker == Spec => []NoTimerForgotten
<1>1. Inv => NoTimerForgotten
  BY DEF Inv
<1> QED
  BY Invariance, <1>1, PTL

-----------------------------------------------------------------------------
LEMMA RefinesStep == Inv /\ [Next]_vars => [Abstract!Next]_(Abstract!vars)
<1> SUFFICES ASSUME Inv, [Next]_vars PROVE [Abstract!Next]_(Abstract!vars)
  OBVIOUS
<1> USE DEF Abstract!Next, Abstract!vars
<1>1. CASE SetTimeout
  BY <1>1 DEF SetTimeout, Abstract!SetTimeout
<1>2. CASE ClearTimeout
  <2>1. \A t \in 1..Len(due) : t \in 1..MaxTimers
    BY ClockAssumption, Times DEF Inv, TypeOK
  <2> QED
    BY <1>2, <2>1 DEF ClearTimeout, Abstract!ClearTimeout
<1>3. CASE Call
  <2> PICK t \in heap : /\ AtHead(t) /\ due[t] <= now
                        /\ pending' = pending \ {t}
                        /\ called' = Append(called, t)
    BY <1>3 DEF Call
  <2>1. t \in pending /\ \A u \in pending : Abstract!Before(t, u)
    BY DEF AtHead, Before, Abstract!Before, Inv, NoTimerForgotten
  <2> QED
    BY <1>3, <2>1 DEF Call, Abstract!Call
<1>4. CASE Tick
  BY <1>4 DEF Tick, Abstract!Tick
<1>5. CASE Sleep \/ Wake \/ Returned \/ Exit \/ UNCHANGED vars
  BY <1>5 DEF Sleep, Wake, Returned, Exit, vars
<1> QED
  BY <1>1, <1>2, <1>3, <1>4, <1>5 DEF Next, Run

\* The worker thread implements the clock the interpreter relies on: callbacks
\* are called at most once, in time, in order, and not after clear_timeout.
THEOREM ClockRefinement == Spec => ImplementsClock
<1>1. Init => Abstract!Init
  BY DEF Init, Abstract!Init
<1> QED
  BY <1>1, RefinesStep, Invariance, PTL DEF Spec, ImplementsClock, Abstract!Spec
=============================================================================
