---------------------------- MODULE TimersProofs ----------------------------
(***************************************************************************)
(* Theorems about Timers, for every set of states and send ids and every    *)
(* number of timers.                                                       *)
(***************************************************************************)
EXTENDS Timers, FiniteSetTheorems, SequenceTheorems, TLAPS

\* What the types need beside TypeOK: the queue is a sequence, the table of
\* sends is finite, and between the two halves of a delayed send, or of a
\* cancel, the thread has the number of a timer.
Kept ==
    /\ queue \in Seq(1..set)
    /\ IsFiniteSet(DOMAIN sends)
    /\ owner \in {"record", "clear"} => held \in 1..set
    /\ owner = "arm" => set < MaxTimers

\* stop() has emptied the table before it goes on.
StopSwept == stopper # "none" \/ status = "stopped" => scheduled = Empty

TInv == TypeOK /\ Kept
IInv == TInv /\ StopSwept /\ AfterTimersReachable /\ ReconciledWithConfiguration

-----------------------------------------------------------------------------
(* The operators of the tables *)

LEMMA PutProperties ==
  ASSUME NEW f, NEW k, NEW v
  PROVE  /\ DOMAIN Put(f, k, v) = DOMAIN f \cup {k}
         /\ Put(f, k, v)[k] = v
         /\ \A x \in DOMAIN f : x # k => Put(f, k, v)[x] = f[x]
         /\ Range(Put(f, k, v)) \subseteq Range(f) \cup {v}
BY DEF Put, Range

LEMMA WithoutProperties ==
  ASSUME NEW f, NEW S
  PROVE  /\ DOMAIN Without(f, S) = DOMAIN f \ S
         /\ \A x \in DOMAIN f \ S : Without(f, S)[x] = f[x]
         /\ Range(Without(f, S)) \subseteq Range(f)
BY DEF Without, Restrict, Range

LEMMA EmptyProperties == DOMAIN Empty = {} /\ Range(Empty) = {}
BY DEF Empty, Range

\* The numbers of the timers that a reconciliation sets: one for each state of
\* B, all those after n, and the state of each can be told from its number.
LEMMA NewTimers ==
  ASSUME NEW n \in Nat, NEW B, IsFiniteSet(B)
  PROVE  LET m == Cardinality(B)
             id == CHOOSE f \in [B -> n + 1..n + m] : IsInjective(f)
         IN  /\ m \in Nat /\ id \in [B -> n + 1..n + m]
             /\ \A s \in B : (CHOOSE r \in B : id[r] = id[s]) = s
             /\ \A t \in n + 1..n + m : \E s \in B : id[s] = t
<1> DEFINE m == Cardinality(B)
           N == n + 1..n + m
           id == CHOOSE f \in [B -> N] : IsInjective(f)
<1>1. m \in Nat
  BY FS_CardinalityType
<1>card. IsFiniteSet(N) /\ Cardinality(N) = m
  <2> HIDE DEF m
  <2>1. n + 1 \in Int /\ n + m \in Int
    BY <1>1
  <2> QED
    BY <1>1, <2>1, FS_Interval
<1>2. PICK g \in Bijection(B, N) : TRUE
  BY <1>card, FS_SameCardinalityBij DEF ExistsBijection
<1>3. g \in [B -> N] /\ IsInjective(g)
  BY <1>2 DEF Bijection, Injection
<1>4. id \in [B -> N] /\ IsInjective(id)
  BY <1>3
<1> HIDE DEF id
<1>5. \A r, s \in B : id[r] = id[s] => r = s
  BY <1>4 DEF IsInjective
<1>6. \A s \in B : (CHOOSE r \in B : id[r] = id[s]) = s
  BY <1>5
<1>7. id \in Injection(B, N)
  BY <1>4 DEF Injection
<1> HIDE DEF N
<1>8. id \in Surjection(B, N)
  BY <1>card, <1>7, FS_Injection
<1>9. \A t \in N : \E s \in B : id[s] = t
  BY <1>8 DEF Surjection
<1> QED
  BY <1>1, <1>4, <1>6, <1>9 DEF id, N

-----------------------------------------------------------------------------
(* What a reconciliation leaves behind *)

\* The timers of the states that left A are cancelled, those of the others
\* stay, and each state of A without one gets a new one, or some do and the
\* delay of another raises.
LEMMA Reconciled ==
  ASSUME TypeOK, NEW A \in SUBSET After, SyncDelays(A)
  PROVE  /\ set' \in 0..MaxTimers /\ set <= set'
         /\ what' \in [1..set' -> After \cup SendId \cup {Anonymous}]
         /\ \A t \in 1..set : what'[t] = what[t]
         /\ live' \subseteq 1..set'
         /\ DOMAIN scheduled' \subseteq A /\ Range(scheduled') \subseteq 1..set'
         /\ \A s \in DOMAIN scheduled \cap A :
                s \in DOMAIN scheduled' /\ scheduled'[s] = scheduled[s]
         /\ \A s \in DOMAIN scheduled' \ DOMAIN scheduled : scheduled'[s] > set
         /\ \A t \in live' :
                \/ t \in live /\ \A s \in DOMAIN scheduled \ A : scheduled[s] # t
                \/ \E s \in DOMAIN scheduled' : what'[t] = s /\ scheduled'[s] = t
         /\ \/ owner' = "effects" /\ synced' = TRUE /\ DOMAIN scheduled' = A
            \/ owner' = "idle" /\ synced' = FALSE
<1> DEFINE Fresh(B) == set + 1..set + Cardinality(B)
           Id(B) == CHOOSE f \in [B -> Fresh(B)] : IsInjective(f)
           old == Without(scheduled, Unwanted(A))
<1>1. PICK B \in SUBSET Missing(A) :
         /\ set + Cardinality(B) <= MaxTimers
         /\ set' = set + Cardinality(B)
         /\ what' = [t \in 1..set + Cardinality(B) |->
                       IF t <= set THEN what[t] ELSE CHOOSE s \in B : Id(B)[s] = t]
         /\ live' = (live \ {scheduled[s] : s \in Unwanted(A)}) \cup Fresh(B)
         /\ scheduled' = [s \in DOMAIN old \cup B |->
                            IF s \in B THEN Id(B)[s] ELSE old[s]]
         /\ \/ B = Missing(A) /\ owner' = "effects" /\ synced' = TRUE
            \/ B # Missing(A) /\ owner' = "idle" /\ synced' = FALSE
  BY DEF SyncDelays
<1> DEFINE m == Cardinality(B)
           N == Fresh(B)
           id == Id(B)
<1>2. set \in Nat /\ MaxTimers \in Nat /\ set <= MaxTimers
  BY TimersAssumption DEF TypeOK
<1>3. B \subseteq A /\ B \subseteq After /\ B \cap DOMAIN scheduled = {} /\ IsFiniteSet(B)
  BY TimersAssumption, FS_Subset DEF Missing
<1>4. /\ m \in Nat /\ id \in [B -> N]
      /\ \A s \in B : (CHOOSE r \in B : id[r] = id[s]) = s
      /\ \A t \in N : \E s \in B : id[s] = t
  BY <1>2, <1>3, NewTimers
<1>5. /\ set' = set + m /\ set' <= MaxTimers
      /\ what' = [t \in 1..set + m |->
                    IF t <= set THEN what[t] ELSE CHOOSE s \in B : id[s] = t]
      /\ live' = (live \ {scheduled[s] : s \in Unwanted(A)}) \cup N
      /\ scheduled' = [s \in DOMAIN old \cup B |-> IF s \in B THEN id[s] ELSE old[s]]
      /\ \/ B = Missing(A) /\ owner' = "effects" /\ synced' = TRUE
         \/ B # Missing(A) /\ owner' = "idle" /\ synced' = FALSE
  BY <1>1
<1>6. \A t : t \in N <=> t \in Int /\ t > set /\ t <= set + m
  <2>1. \A k \in Nat : \A t :
            t \in set + 1..set + k <=> t \in Int /\ t > set /\ t <= set + k
    BY <1>2
  <2> QED
    BY <2>1, <1>4
<1>7. /\ DOMAIN old = DOMAIN scheduled \cap A
      /\ \A s \in DOMAIN old : old[s] = scheduled[s]
  <2>1. DOMAIN scheduled \ Unwanted(A) = DOMAIN scheduled \cap A
    BY DEF Unwanted
  <2>2. /\ DOMAIN old = DOMAIN scheduled \ Unwanted(A)
        /\ \A s \in DOMAIN scheduled \ Unwanted(A) : old[s] = scheduled[s]
    BY WithoutProperties
  <2> QED
    BY <2>1, <2>2
<1>8. \A s \in DOMAIN scheduled : scheduled[s] \in 1..set
  BY DEF TypeOK, Range
<1> HIDE DEF id, N, m, old
<1>9. /\ set' \in 0..MaxTimers /\ set <= set'
      /\ \A t \in 1..set : t \in 1..set'
  BY <1>2, <1>4, <1>5
<1>10. \A t \in N : what'[t] \in B /\ id[what'[t]] = t
  <2> TAKE t \in N
  <2>1. t \in 1..set + m /\ ~(t <= set)
    BY <1>2, <1>4, <1>6
  <2>2. what'[t] = CHOOSE s \in B : id[s] = t
    BY <2>1, <1>5
  <2> QED
    BY <2>2, <1>4
<1>11. /\ what' \in [1..set' -> After \cup SendId \cup {Anonymous}]
       /\ \A t \in 1..set : what'[t] = what[t]
  <2>1. \A t \in 1..set' : t \in 1..set \/ t \in N
    BY <1>2, <1>4, <1>5, <1>6
  <2>2. \A t \in 1..set : what'[t] = what[t]
    BY <1>2, <1>5, <1>9
  <2>3. \A t \in 1..set' : what'[t] \in After \cup SendId \cup {Anonymous}
    BY <2>1, <2>2, <1>3, <1>10 DEF TypeOK
  <2> QED
    BY <2>2, <2>3, <1>5
<1>12. live' \subseteq 1..set'
  <2>1. N \subseteq 1..set'
    BY <1>2, <1>4, <1>5, <1>6
  <2> QED
    BY <2>1, <1>5, <1>9 DEF TypeOK
<1>13. DOMAIN scheduled' = (DOMAIN scheduled \cap A) \cup B
  BY <1>5, <1>7
<1>14. /\ \A s \in DOMAIN scheduled \cap A : scheduled'[s] = scheduled[s]
       /\ \A s \in B : scheduled'[s] = id[s] /\ id[s] \in N
  BY <1>3, <1>4, <1>5, <1>7
<1>15. Range(scheduled') \subseteq 1..set'
  <2>1. N \subseteq 1..set'
    BY <1>2, <1>4, <1>5, <1>6
  <2> QED
    BY <2>1, <1>8, <1>9, <1>13, <1>14 DEF Range
<1>16. \A s \in DOMAIN scheduled' \ DOMAIN scheduled : scheduled'[s] > set
  BY <1>6, <1>13, <1>14
<1>17. ASSUME NEW t \in live'
       PROVE  \/ t \in live /\ \A s \in DOMAIN scheduled \ A : scheduled[s] # t
              \/ \E s \in DOMAIN scheduled' : what'[t] = s /\ scheduled'[s] = t
  <2>1. CASE t \in N
    BY <2>1, <1>10, <1>13, <1>14
  <2>2. CASE t \notin N
    BY <2>2, <1>5 DEF Unwanted
  <2> QED
    BY <2>1, <2>2
<1>18. B = Missing(A) => DOMAIN scheduled' = A
  BY <1>13 DEF Missing
<1> QED
  BY <1>3, <1>5, <1>9, <1>11, <1>12, <1>13, <1>14, <1>15, <1>16, <1>17, <1>18

-----------------------------------------------------------------------------
(* Types *)

LEMMA Numbers ==
  ASSUME TypeOK
  PROVE  /\ set \in Nat /\ MaxTimers \in Nat /\ set <= MaxTimers
         /\ \A n \in Nat : set <= n => 1..set \subseteq 1..n /\ 0..set \subseteq 0..n
BY TimersAssumption DEF TypeOK

LEMMA SeqRange ==
  ASSUME NEW S, NEW q \in Seq(S)
  PROVE  Range(q) \subseteq S
BY LenProperties DEF Range

LEMMA TypeInit == Init => TInv
<1> SUFFICES ASSUME Init PROVE TInv
  OBVIOUS
<1>1. /\ DOMAIN scheduled = {} /\ Range(scheduled) = {}
      /\ DOMAIN sends = {} /\ Range(sends) = {}
  BY EmptyProperties DEF Init
<1>2. queue = <<>> /\ Range(queue) = {} /\ queue \in Seq(1..set)
  BY EmptySeq DEF Init, Range
<1>3. what \in [1..set -> After \cup SendId \cup {Anonymous}]
  <2>1. 1..0 = {}
    OBVIOUS
  <2> QED
    BY <2>1 DEF Init, Empty
<1>4. TypeOK
  BY <1>1, <1>2, <1>3, TimersAssumption DEF Init, TypeOK
<1>5. Kept
  BY <1>1, <1>2, FS_EmptySet DEF Init, Kept
<1> QED
  BY <1>4, <1>5 DEF TInv

\* Of a reconciliation, when the rest of the state is as it was.
LEMMA TypeSync ==
  ASSUME TInv, NEW A \in SUBSET After, SyncDelays(A),
         owner \in {"idle", "starting"}, active' \in SUBSET After,
         queue' = queue \/ (queue # <<>> /\ queue' = Tail(queue)),
         since' \in [After -> {since[s] : s \in After} \cup {set}],
         UNCHANGED <<status, sends, ringing, key, held, stopping, rung>>
  PROVE  TInv'
<1>1. set \in Nat /\ set' \in 0..MaxTimers /\ set <= set'
  BY Reconciled, Numbers DEF TInv
<1>2. 1..set \subseteq 1..set' /\ 0..set \subseteq 0..set'
  BY <1>1
<1>3. queue \in Seq(1..set) /\ Range(queue) \subseteq 1..set
  BY DEF TInv, TypeOK, Kept
<1>4. queue' \in Seq(1..set) /\ Range(queue') \subseteq 1..set
  BY <1>3 DEF Range
<1>5. queue' \in Seq(1..set')
  BY <1>2, <1>4, SeqMonotonic
<1>6. since' \in [After -> 0..set'] /\ rung' \in [After -> 0..set']
  BY <1>1, <1>2 DEF TInv, TypeOK
<1>7. /\ DOMAIN sends' \subseteq SendId \cup 1..set' /\ Range(sends') \subseteq 1..set'
      /\ ringing' \subseteq 1..set' /\ held' \in 0..set'
      /\ visited' \subseteq SendId \cup 1..set'
  BY <1>2 DEF TInv, TypeOK, stopping
<1>8. /\ what' \in [1..set' -> After \cup SendId \cup {Anonymous}]
      /\ live' \subseteq 1..set'
      /\ DOMAIN scheduled' \subseteq After /\ Range(scheduled') \subseteq 1..set'
      /\ owner' \in {"effects", "idle"} /\ synced' \in BOOLEAN
  BY Reconciled DEF TInv
<1>9. TypeOK'
  BY <1>1, <1>2, <1>4, <1>6, <1>7, <1>8 DEF TInv, TypeOK, stopping
<1>10. Kept'
  BY <1>5, <1>8 DEF TInv, Kept
<1> QED
  BY <1>9, <1>10 DEF TInv

LEMMA TypeStep == TInv /\ [Next]_vars => TInv'
<1> SUFFICES ASSUME TInv, [Next]_vars PROVE TInv'
  OBVIOUS
<1> USE DEF TInv
<1>1. CASE Start
  BY <1>1 DEF Start, TypeOK, Kept, clock, stopping
<1>2. CASE StartSync
  <2>1. CASE Running /\ SyncDelays(active)
    <3>1. since' \in [After -> {since[s] : s \in After} \cup {set}]
      BY <1>2 DEF StartSync, TypeOK
    <3> QED
      BY <1>2, <2>1, <3>1, TypeSync DEF StartSync, TypeOK
  <2>2. CASE ~Running
    BY <1>2, <2>2 DEF StartSync, TypeOK, Kept, stopping
  <2> QED
    BY <1>2, <2>1, <2>2 DEF StartSync
<1>3. CASE Commit
  <2>1. PICK A \in SUBSET After, again \in SUBSET After :
           /\ active' = A /\ SyncDelays(A)
           /\ since' = [s \in After |-> IF s \in (A \ active) \cup again
                                        THEN set ELSE since[s]]
    BY <1>3 DEF Commit
  <2>2. since' \in [After -> {since[s] : s \in After} \cup {set}]
    BY <2>1 DEF TypeOK
  <2> QED
    BY <1>3, <2>1, <2>2, TypeSync DEF Commit
<1>4. CASE NextAction
  BY <1>4 DEF NextAction, TypeOK, Kept, clock, stopping
<1>5. CASE Arm
  <2>1. /\ set \in Nat /\ set + 1 \in 0..MaxTimers
        /\ 1..set + 1 = 1..set \cup {set + 1} /\ 0..set \subseteq 0..set + 1
    BY <1>5, Numbers DEF Arm, Kept
  <2>2. what' = [x \in 1..set \cup {set + 1} |-> IF x = set + 1 THEN key ELSE what[x]]
    BY <1>5 DEF Arm, Put, TypeOK
  <2>3. what' \in [1..set' -> After \cup SendId \cup {Anonymous}]
    BY <1>5, <2>1, <2>2 DEF Arm, TypeOK
  <2>4. queue' \in Seq(1..set')
    BY <1>5, <2>1, SeqMonotonic DEF Arm, Kept
  <2>5. TypeOK'
    <3>1. /\ since' \in [After -> 0..set'] /\ rung' \in [After -> 0..set']
          /\ held' \in 0..set' /\ set' \in 0..MaxTimers
      BY <1>5, <2>1 DEF Arm, TypeOK
    <3>2. /\ Range(scheduled') \subseteq 1..set' /\ Range(sends') \subseteq 1..set'
          /\ DOMAIN sends' \subseteq SendId \cup 1..set'
          /\ visited' \subseteq SendId \cup 1..set'
          /\ live' \cup ringing' \cup Range(queue') \subseteq 1..set'
      BY <1>5, <2>1 DEF Arm, TypeOK, stopping
    <3> QED
      BY <1>5, <2>3, <3>1, <3>2 DEF Arm, TypeOK, stopping
  <2>6. Kept'
    BY <1>5, <2>1, <2>4 DEF Arm, Kept
  <2> QED
    BY <2>5, <2>6
<1>6. CASE Record
  <2> DEFINE k == IF key = Anonymous THEN held ELSE key
  <2>1. k \in SendId \cup 1..set /\ held \in 1..set
    BY <1>6 DEF Record, TypeOK, Kept
  <2>2. /\ DOMAIN sends' = DOMAIN sends \cup {k}
        /\ Range(sends') \subseteq Range(sends) \cup {held}
    BY <1>6, PutProperties DEF Record
  <2>3. IsFiniteSet(DOMAIN sends')
    BY <2>2, FS_AddElement DEF Kept
  <2>4. TypeOK'
    BY <1>6, <2>1, <2>2, Numbers DEF Record, TypeOK, clock, stopping
  <2>5. Kept'
    BY <1>6, <2>3 DEF Record, Kept, clock
  <2> QED
    BY <2>4, <2>5
<1>7. CASE CancelPop
  <2>1. CASE key \in DOMAIN sends
    <3>1. held' = sends[key] /\ owner' = "clear" /\ held' \in 1..set
      BY <1>7, <2>1 DEF CancelPop, TypeOK, Range
    <3>2. DOMAIN sends' \subseteq DOMAIN sends /\ Range(sends') \subseteq Range(sends)
      <4>1. sends' = Without(sends, {key})
        BY <1>7, <2>1 DEF CancelPop
      <4>2. /\ DOMAIN Without(sends, {key}) = DOMAIN sends \ {key}
            /\ Range(Without(sends, {key})) \subseteq Range(sends)
        BY WithoutProperties
      <4> QED
        BY <4>1, <4>2
    <3>3. IsFiniteSet(DOMAIN sends')
      BY <3>2, FS_Subset DEF Kept
    <3>4. TypeOK'
      BY <1>7, <3>1, <3>2, Numbers DEF CancelPop, TypeOK, clock, stopping
    <3>5. Kept'
      BY <1>7, <3>1, <3>3 DEF CancelPop, Kept, clock
    <3> QED
      BY <3>4, <3>5
  <2>2. CASE key \notin DOMAIN sends
    BY <1>7, <2>2 DEF CancelPop, TypeOK, Kept, clock, stopping
  <2> QED
    BY <2>1, <2>2
<1>8. CASE CancelClear
  BY <1>8, Numbers DEF CancelClear, TypeOK, Kept, stopping
<1>9. ASSUME NEW t \in Timer, Ring(t) PROVE TInv'
  BY <1>9, Numbers DEF Ring, TypeOK, Kept, macro, stopping
<1>10. ASSUME NEW t \in Timer, Deliver(t) PROVE TInv'
  <2>1. t \in 1..set /\ queue \in Seq(1..set)
    BY <1>10 DEF Deliver, TypeOK, Kept
  <2>2. queue' \in Seq(1..set) /\ Range(queue') \subseteq 1..set
    <3>1. queue' = Append(queue, t) \/ queue' = queue
      BY <1>10 DEF Deliver
    <3>2. Append(queue, t) \in Seq(1..set)
      BY <2>1, AppendProperties
    <3>3. queue' \in Seq(1..set)
      BY <2>1, <3>1, <3>2
    <3> QED
      BY <3>3, SeqRange
  <2>3. TypeOK'
    BY <1>10, <2>2 DEF Deliver, TypeOK, macro, stopping
  <2>4. Kept'
    BY <1>10, <2>2 DEF Deliver, Kept, macro
  <2> QED
    BY <2>3, <2>4
<1>11. CASE StopScheduled
  <2>1. size' \in Nat
    BY <1>11, FS_CardinalityType DEF StopScheduled, Kept
  <2>2. DOMAIN scheduled' = {} /\ Range(scheduled') = {}
    BY <1>11, EmptyProperties DEF StopScheduled
  <2> QED
    BY <1>11, <2>1, <2>2 DEF StopScheduled, TypeOK, Kept, macro
<1>12. CASE StopSend
  BY <1>12 DEF StopSend, TypeOK, Kept, macro
<1>13. CASE StopIterated
  BY <1>13 DEF StopIterated, TypeOK, Kept, macro, clock
<1>14. CASE StopEnd
  <2>1. DOMAIN sends' = {} /\ Range(sends') = {}
    BY <1>14, EmptyProperties DEF StopEnd
  <2>2. queue' = <<>> /\ Range(queue') = {} /\ queue' \in Seq(1..set)
    BY <1>14, EmptySeq DEF StopEnd, Range
  <2>3. IsFiniteSet(DOMAIN sends')
    BY <2>1, FS_EmptySet
  <2> QED
    BY <1>14, <2>1, <2>2, <2>3 DEF StopEnd, TypeOK, Kept, macro, clock
<1>15. CASE UNCHANGED vars
  BY <1>15 DEF vars, clock, macro, stopping, TypeOK, Kept
<1> QED
  BY <1>1, <1>2, <1>3, <1>4, <1>5, <1>6, <1>7, <1>8, <1>9, <1>10, <1>11, <1>12,
     <1>13, <1>14, <1>15
     DEF Next, Inside, Stopping, Clock

-----------------------------------------------------------------------------
(* The tables and the clock *)

LEMMA InvInit == Init => IInv
<1> SUFFICES ASSUME Init PROVE IInv
  OBVIOUS
<1> QED
  BY TypeInit DEF Init, IInv, StopSwept, AfterTimersReachable,
                  ReconciledWithConfiguration, Running

\* A reconciliation leaves a pending `after` timer only where its state has it.
LEMMA ReachableSync ==
  ASSUME IInv, NEW A \in SUBSET After, SyncDelays(A)
  PROVE  \A t \in live' : what'[t] \in After =>
             what'[t] \in DOMAIN scheduled' /\ scheduled'[what'[t]] = t
<1> SUFFICES ASSUME NEW t \in live', what'[t] \in After
             PROVE  what'[t] \in DOMAIN scheduled' /\ scheduled'[what'[t]] = t
  OBVIOUS
<1> DEFINE s == what'[t]
<1>1. CASE t \in live /\ \A r \in DOMAIN scheduled \ A : scheduled[r] # t
  <2>1. what'[t] = what[t]
    BY <1>1, Reconciled DEF IInv, TInv, TypeOK
  <2>2. s \in DOMAIN scheduled /\ scheduled[s] = t
    BY <1>1, <2>1 DEF IInv, AfterTimersReachable
  <2>3. s \in DOMAIN scheduled \cap A
    BY <1>1, <2>2
  <2> QED
    BY <2>2, <2>3, Reconciled DEF IInv, TInv
<1>2. CASE \E r \in DOMAIN scheduled' : what'[t] = r /\ scheduled'[r] = t
  BY <1>2
<1> QED
  BY <1>1, <1>2, Reconciled DEF IInv, TInv

\* Nothing else is lost or added: the timers that are pending are some of
\* those before, and the table is as it was.
LEMMA ReachableStays ==
  ASSUME IInv, live' \subseteq live, what' = what, scheduled' = scheduled,
         status' = "stopped" => scheduled = Empty
  PROVE  AfterTimersReachable'
BY DEF IInv, AfterTimersReachable

LEMMA ReachableStep == IInv /\ [Next]_vars => AfterTimersReachable'
<1> SUFFICES ASSUME IInv, [Next]_vars PROVE AfterTimersReachable'
  OBVIOUS
<1> USE DEF IInv
<1>1. CASE StartSync
  <2>1. CASE Running /\ SyncDelays(active)
    <3>1. active \in SUBSET After /\ status' # "stopped"
      BY <1>1, <2>1 DEF StartSync, TInv, TypeOK, Running
    <3> QED
      BY <2>1, <3>1, ReachableSync DEF AfterTimersReachable
  <2>2. CASE ~Running
    BY <1>1, <2>2 DEF StartSync, AfterTimersReachable
  <2> QED
    BY <1>1, <2>1, <2>2 DEF StartSync
<1>2. CASE Commit
  <2>1. PICK A \in SUBSET After : SyncDelays(A)
    BY <1>2 DEF Commit
  <2>2. status' # "stopped"
    BY <1>2 DEF Commit, Running
  <2> QED
    BY <2>1, <2>2, ReachableSync DEF AfterTimersReachable
<1>3. CASE Arm
  <2>1. what' = [x \in DOMAIN what \cup {set + 1} |-> IF x = set + 1 THEN key ELSE what[x]]
    BY <1>3 DEF Arm, Put
  <2>2. /\ live \subseteq 1..set /\ DOMAIN what = 1..set /\ set \in Nat
        /\ key \notin After
    BY TimersAssumption DEF TInv, TypeOK
  <2>3. \A t \in live : t # set + 1 /\ what'[t] = what[t]
    BY <2>1, <2>2
  <2>4. what'[set + 1] \notin After
    BY <2>1, <2>2
  <2>5. live' = live \cup {set + 1} /\ scheduled' = scheduled /\ status' = status
    BY <1>3 DEF Arm
  <2> QED
    BY <2>3, <2>4, <2>5 DEF AfterTimersReachable
<1>4. CASE StopScheduled
  <2>1. \A t \in live' : what[t] \notin After
    BY <1>4 DEF StopScheduled, AfterTimersReachable, Range
  <2> QED
    BY <1>4, <2>1 DEF StopScheduled, AfterTimersReachable
<1>5. CASE StopEnd
  BY <1>5, ReachableStays DEF StopEnd, StopSwept, clock
<1>6. CASE Start \/ NextAction \/ Record \/ CancelPop \/ CancelClear
  BY <1>6, ReachableStays
     DEF Start, NextAction, Record, CancelPop, CancelClear, AfterTimersReachable, clock
<1>7. ASSUME NEW t \in Timer, Ring(t) \/ Deliver(t) PROVE AfterTimersReachable'
  BY <1>7, ReachableStays DEF Ring, Deliver, AfterTimersReachable
<1>8. CASE StopSend \/ StopIterated
  BY <1>8, ReachableStays DEF StopSend, StopIterated, AfterTimersReachable, clock
<1>9. CASE UNCHANGED vars
  BY <1>9, ReachableStays DEF vars, clock, AfterTimersReachable
<1> QED
  BY <1>1, <1>2, <1>3, <1>4, <1>5, <1>6, <1>7, <1>8, <1>9
     DEF Next, Inside, Stopping, Clock

LEMMA SweptStep == IInv /\ [Next]_vars => StopSwept'
<1> SUFFICES ASSUME IInv, [Next]_vars PROVE StopSwept'
  OBVIOUS
<1> USE DEF IInv, StopSwept
<1>1. CASE StartSync \/ Commit
  <2>1. CASE Running
    BY <1>1, <2>1 DEF StartSync, Commit, Running, LockFree, stopping
  <2>2. CASE ~Running
    BY <1>1, <2>2 DEF StartSync, Commit, stopping
  <2> QED
    BY <2>1, <2>2
<1>2. CASE Start \/ NextAction \/ Arm \/ Record \/ CancelPop \/ CancelClear
  BY <1>2 DEF Start, NextAction, Arm, Record, CancelPop, CancelClear, LockFree, stopping
<1>3. ASSUME NEW t \in Timer, Ring(t) \/ Deliver(t) PROVE StopSwept'
  BY <1>3 DEF Ring, Deliver, stopping
<1>4. CASE StopScheduled
  BY <1>4 DEF StopScheduled
<1>5. CASE Stopping
  BY <1>5 DEF Stopping, StopSend, StopIterated, StopEnd
<1>6. CASE UNCHANGED vars
  BY <1>6 DEF vars, stopping
<1> QED
  BY <1>1, <1>2, <1>3, <1>4, <1>5, <1>6 DEF Next, Inside, Clock

LEMMA ReconciledStep == IInv /\ [Next]_vars => ReconciledWithConfiguration'
<1> SUFFICES ASSUME IInv, [Next]_vars PROVE ReconciledWithConfiguration'
  OBVIOUS
<1> USE DEF IInv, ReconciledWithConfiguration
<1>1. CASE StartSync
  <2>1. CASE Running /\ SyncDelays(active)
    <3>1. active \in SUBSET After /\ active' = active
      BY <1>1 DEF StartSync, TInv, TypeOK
    <3> QED
      BY <2>1, <3>1, Reconciled DEF TInv
  <2>2. CASE ~Running
    BY <1>1, <2>2 DEF StartSync, Running
  <2> QED
    BY <1>1, <2>1, <2>2 DEF StartSync
<1>2. CASE Commit
  <2>1. PICK A \in SUBSET After : active' = A /\ SyncDelays(A)
    BY <1>2 DEF Commit
  <2> QED
    BY <2>1, Reconciled DEF TInv
<1>3. CASE Start
  BY <1>3 DEF Start
<1>4. CASE NextAction \/ Arm \/ Record \/ CancelPop \/ CancelClear
  BY <1>4 DEF NextAction, Arm, Record, CancelPop, CancelClear, LockFree, Running, stopping
<1>5. ASSUME NEW t \in Timer, Ring(t) \/ Deliver(t) PROVE ReconciledWithConfiguration'
  BY <1>5 DEF Ring, Deliver, stopping, macro, Running, LockFree
<1>6. CASE StopScheduled
  BY <1>6 DEF StopScheduled, LockFree
<1>7. CASE StopSend
  BY <1>7 DEF StopSend, LockFree
<1>8. CASE StopIterated
  <2>1. DOMAIN scheduled' = {}
    BY <1>8, EmptyProperties DEF StopIterated, StopSwept
  <2> QED
    BY <1>8, <2>1 DEF StopIterated, LockFree
<1>9. CASE StopEnd
  BY <1>9 DEF StopEnd, Running
<1>10. CASE UNCHANGED vars
  BY <1>10 DEF vars, stopping, macro, Running, LockFree
<1> QED
  BY <1>1, <1>2, <1>3, <1>4, <1>5, <1>6, <1>7, <1>8, <1>9, <1>10
     DEF Next, Inside, Stopping, Clock

LEMMA InvStep == IInv /\ [Next]_vars => IInv'
BY TypeStep, SweptStep, ReachableStep, ReconciledStep DEF IInv

LEMMA Invariance == Spec => []IInv
  BY InvInit, InvStep, PTL DEF Spec

\* The tables of _sync_delays and of send, and the counters of the model, stay
\* in their types, whatever is cut short by stop() or by an exception.
THEOREM TimerTypes == Spec => []TypeOK
<1>1. IInv => TypeOK
  BY DEF IInv, TInv
<1> QED
  BY <1>1, Invariance, PTL

\* A pending `after` timer is in the table of _sync_delays under its state, in
\* reach of the next commit and of stop(); stop() leaves none there.
THEOREM NoAfterTimerLost == Spec => []AfterTimersReachable
<1>1. IInv => AfterTimersReachable
  BY DEF IInv
<1> QED
  BY <1>1, Invariance, PTL

\* Between the lock blocks of a running interpreter, the table of _sync_delays
\* has the states of the configuration and no other, or fewer after an exception.
THEOREM TablesAgree == Spec => []ReconciledWithConfiguration
<1>1. IInv => ReconciledWithConfiguration
  BY DEF IInv
<1> QED
  BY <1>1, Invariance, PTL

-----------------------------------------------------------------------------
(* When delays start *)

\* A timer of the table is younger than the entry of its state, also of one
\* that a reconciliation which was cut short has left without.
Younger == \A s \in DOMAIN scheduled : scheduled[s] > since[s]

LEMMA YoungerSync ==
  ASSUME IInv, Younger, NEW A \in SUBSET After, SyncDelays(A),
         \A s \in After : since'[s] = since[s] \/ (s \notin DOMAIN scheduled /\ since'[s] = set)
  PROVE  Younger'
<1> SUFFICES ASSUME NEW s \in DOMAIN scheduled' PROVE scheduled'[s] > since'[s]
  BY DEF Younger
<1>0. TypeOK
  BY DEF IInv, TInv
<1>1. s \in A /\ s \in After /\ set \in Nat /\ since[s] \in 0..set
  <2>1. DOMAIN scheduled' \subseteq A
    BY <1>0, Reconciled
  <2>2. set \in Nat /\ since \in [After -> 0..set]
    BY <1>0 DEF TypeOK
  <2> QED
    BY <2>1, <2>2
<1>2. CASE s \in DOMAIN scheduled
  <2>1. scheduled'[s] = scheduled[s] /\ since'[s] = since[s]
    BY <1>1, <1>2, Reconciled DEF IInv, TInv
  <2> QED
    BY <1>2, <2>1 DEF Younger
<1>3. CASE s \notin DOMAIN scheduled
  <2>1. scheduled'[s] > set /\ scheduled'[s] \in Nat
    <3>1. /\ Range(scheduled') \subseteq 1..set'
          /\ \A r \in DOMAIN scheduled' \ DOMAIN scheduled : scheduled'[r] > set
      BY <1>0, Reconciled
    <3> QED
      BY <1>3, <3>1 DEF Range
  <2> QED
    BY <1>1, <2>1
<1> QED
  BY <1>2, <1>3

LEMMA YoungerStep ==
  ASSUME ~Reentry, IInv, Younger, [Next]_vars
  PROVE  Younger'
<1>1. CASE StartSync
  <2>1. CASE Running /\ SyncDelays(active)
    <3>1. active \in SUBSET After /\ since' = since
      BY <1>1, <2>1 DEF StartSync, IInv, TInv, TypeOK
    <3> QED
      BY <2>1, <3>1, YoungerSync
  <2>2. CASE ~Running
    BY <1>1, <2>2 DEF StartSync, Younger
  <2> QED
    BY <1>1, <2>1, <2>2 DEF StartSync
<1>2. CASE Commit
  <2>1. PICK A \in SUBSET After :
           /\ SyncDelays(A)
           /\ since' = [s \in After |-> IF s \in A \ active THEN set ELSE since[s]]
    BY <1>2 DEF Commit
  <2>2. DOMAIN scheduled \subseteq active
    BY <1>2 DEF Commit, IInv, ReconciledWithConfiguration
  <2> QED
    BY <2>1, <2>2, YoungerSync
<1>3. CASE StopScheduled
  BY <1>3, EmptyProperties DEF StopScheduled, Younger
<1>4. CASE Start \/ NextAction \/ Arm \/ Record \/ CancelPop \/ CancelClear
  BY <1>4 DEF Start, NextAction, Arm, Record, CancelPop, CancelClear, Younger
<1>5. CASE Clock
  BY <1>5 DEF Clock, Ring, Deliver, Younger
<1>6. CASE Stopping
  BY <1>6 DEF Stopping, StopSend, StopIterated, StopEnd, Younger
<1>7. CASE UNCHANGED vars
  BY <1>7 DEF vars, Younger
<1> QED
  BY <1>1, <1>2, <1>3, <1>4, <1>5, <1>6, <1>7 DEF Next, Inside

\* When no macrostep exits a state and enters it again, the delay of an active
\* state counts from its last entry, however often a reconciliation was cut
\* short by a delay that does not resolve.
THEOREM DelaysCountFromEntry == ASSUME ~Reentry PROVE Spec => []DelayStartsOnEntry
<1>1. Init => Younger
  BY EmptyProperties DEF Init, Younger
<1>2. IInv /\ Younger /\ [Next]_vars => Younger'
  BY YoungerStep
<1>3. IInv /\ Younger => DelayStartsOnEntry
  BY DEF IInv, ReconciledWithConfiguration, Younger, DelayStartsOnEntry
<1> QED
  BY <1>1, <1>2, <1>3, Invariance, PTL DEF Spec

=============================================================================
