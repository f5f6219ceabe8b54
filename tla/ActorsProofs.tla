---------------------------- MODULE ActorsProofs ----------------------------
(***************************************************************************)
(* Theorems about Actors, for every number of threads, children and         *)
(* invocations.                                                            *)
(*                                                                         *)
(* A step of a thread takes the call on top of its stack away, or leaves it *)
(* there, and puts at most two calls on top (Moves).  What the proofs need  *)
(* to know of the calls of a stack is the invariant Frames; the lemma       *)
(* FramesMove says once what new calls have to satisfy.                     *)
(***************************************************************************)
EXTENDS Actors, FiniteSetTheorems, SequenceTheorems, TLAPS

Call == [op : Labels, arg : Child \cup {None}, lock : Child \cup {Parent, NoLock},
         gone : SUBSET InvId, ids : SUBSET (Child \cup InvId), changed : BOOLEAN]

\* Calls that other calls are made from; the others return first.
Resting == {"drain", "act", "subscribe", "return", "stopkids", "run", "cleanup",
            "leave", "enter"}
Passing == Labels \ Resting

\* Calls on a child that its lock, or the way to it, belongs to.
Owning == {"cstart", "run", "return", "cstop", "cleanup", "unlink"}

\* What the children of a parent that stops may still do.
Winding == {"cstop", "cleanup", "unlink", "send"}

\* The lock of each call, and what it is made with; `made` are the children.
Formed(f, made) ==
    /\ f.op \in Passing \cup {"drain", "act"} => f.lock = NoLock \/ f.op = "recon"
    /\ f.op \in {"subscribe", "stopkids", "recon", "leave", "enter"} => f.lock = Parent
    /\ f.op \in {"run", "cleanup", "return"} => f.lock = f.arg
    /\ f.op \in OnChild \/ f.arg # None => f.arg \in made
    /\ f.op = "stopkids" => f.ids \subseteq made
    /\ f.op \in {"leave", "enter"} => f.ids \subseteq InvId

Formation == \A t \in Thread : \A k \in DOMAIN stack[t] : Formed(stack[t][k], Created)

Stacks == stack \in [Thread -> Seq(Call)]

\* Only calls that rest have others on top of them.
Order == \A t \in Thread : \A k \in DOMAIN stack[t] :
    k # Len(stack[t]) => stack[t][k].op \in Resting

\* The thread of position k of t's stack has the parent's lock.
Guarded(t, k) == \E j \in 1..k - 1 : stack[t][j].lock = Parent

\* An invoked child is started and stopped by threads with the parent's lock.
InvokedUnderParent == \A t \in Thread : \A k \in DOMAIN stack[t] :
    stack[t][k].op \in Owning /\ stack[t][k].arg \in Child /\ id[stack[t][k].arg] \in InvId
        => Guarded(t, k)

\* A parent that stops runs no user code but that of children that stop.
StopUndisturbed == \A t \in Thread : \A k, j \in DOMAIN stack[t] :
    stack[t][k].op = "stopkids" /\ k < j => stack[t][j].op \in Winding

\* A pass that calls a child has recorded that it changes something.
PassRecords == \A t \in Thread : \A k \in DOMAIN stack[t] :
    stack[t][k].op \in {"leave", "enter"} /\ k # Len(stack[t]) => stack[t][k].changed

Frames == Stacks /\ Formation /\ Order /\ InvokedUnderParent /\ StopUndisturbed /\ PassRecords

\* No two threads hold the same lock.
Exclusive == \A t, u \in Thread : \A l \in Child \cup {Parent} :
    Holds(t, l) /\ Holds(u, l) => t = u

\* Parent before child: a thread that goes on with a child's lock has the
\* parent's, or is about to find that nobody listens to the child.
LockOrder == \A t \in Thread : \A k \in DOMAIN stack[t] :
    k # Len(stack[t]) /\ stack[t][k].lock \in Child =>
        \/ Guarded(t, k)
        \/ k = Len(stack[t]) - 1 /\ At(t, "cnotify") /\ ~listening[Top(t).arg]

\* A child that is not created yet is as it was.
Untouched == \A c \in Child : id[c] = None =>
    /\ cst[c] = "not_started" /\ snap[c] = "active"
    /\ ~listening[c] /\ ~told[c] /\ delivered[c] = 0 /\ c \notin cut

\* The tables have children under their own id; listeners are on invoked ones.
Tables ==
    /\ \A i \in Id : children[i] # None => id[children[i]] = i
    /\ \A i \in InvId : invoked[i] # None => id[invoked[i]] = i
    /\ \A c \in Child : listening[c] => id[c] \in InvId

-----------------------------------------------------------------------------
(* What a step does to a stack *)

\* Thread t keeps its n oldest calls, and goes on with the calls `new`.
Moves(t, n, new) ==
    /\ n \in 0..Len(stack[t]) /\ new \in Seq(Call)
    /\ stack' \in [Thread -> Seq(Call)]
    /\ \A u \in Thread \ {t} : stack'[u] = stack[u]
    /\ Len(stack'[t]) = n + Len(new)
    /\ \A k \in 1..n : stack'[t][k] = stack[t][k]
    /\ \A k \in 1..Len(new) : stack'[t][n + k] = new[k]

LEMMA BecomesMoves ==
  ASSUME Stacks, NEW t \in Thread, stack[t] # <<>>, NEW new \in Seq(Call),
         Becomes(t, new)
  PROVE  Moves(t, Len(stack[t]) - 1, new)
<1>1. stack[t] \in Seq(Call) /\ Len(stack[t]) \in Nat \ {0}
  BY DEF Stacks
<1>2. /\ Front(stack[t]) \in Seq(Call) /\ Len(Front(stack[t])) = Len(stack[t]) - 1
      /\ \A k \in 1..Len(stack[t]) - 1 : Front(stack[t])[k] = stack[t][k]
  BY <1>1 DEF Front
<1>3. stack' = [stack EXCEPT ![t] = Front(stack[t]) \o new]
  BY DEF Becomes
<1>4. stack'[t] = Front(stack[t]) \o new
  BY <1>3 DEF Stacks
<1>5. /\ stack'[t] \in Seq(Call)
      /\ Len(stack'[t]) = Len(stack[t]) - 1 + Len(new)
      /\ \A k \in 1..Len(stack[t]) - 1 : stack'[t][k] = stack[t][k]
      /\ \A k \in 1..Len(new) : stack'[t][Len(stack[t]) - 1 + k] = new[k]
  <2> DEFINE front == Front(stack[t])
  <2> HIDE DEF front
  <2>1. front \in Seq(Call) /\ Len(front) = Len(stack[t]) - 1 /\ stack'[t] = front \o new
    BY <1>2, <1>4 DEF front
  <2>2. /\ front \o new \in Seq(Call)
        /\ Len(front \o new) = Len(front) + Len(new)
        /\ \A k \in 1..Len(front) : (front \o new)[k] = front[k]
        /\ \A k \in 1..Len(new) : (front \o new)[Len(front) + k] = new[k]
    <3>1. /\ front \o new \in Seq(Call)
          /\ Len(front \o new) = Len(front) + Len(new)
          /\ \A i \in 1..Len(front) + Len(new) :
                (front \o new)[i] = IF i <= Len(front) THEN front[i] ELSE new[i - Len(front)]
      BY <2>1, ConcatProperties
    <3>2. Len(front) \in Nat /\ Len(new) \in Nat
      BY <2>1
    <3>3. \A k \in 1..Len(new) : /\ Len(front) + k \in 1..Len(front) + Len(new)
                                  /\ ~(Len(front) + k <= Len(front))
                                  /\ Len(front) + k - Len(front) = k
      BY <3>2
    <3>4. \A k \in 1..Len(new) : (front \o new)[Len(front) + k] = new[k]
      BY <3>1, <3>3
    <3> QED
      BY <3>1, <3>2, <3>4
  <2> QED
    BY <1>2, <2>1, <2>2 DEF front
<1>6. stack' \in [Thread -> Seq(Call)] /\ \A u \in Thread \ {t} : stack'[u] = stack[u]
  BY <1>3, <1>4, <1>5 DEF Stacks
<1> QED
  BY <1>1, <1>5, <1>6 DEF Moves

LEMMA PushesMoves ==
  ASSUME Stacks, NEW t \in Thread, NEW f \in Call, Pushes(t, f)
  PROVE  Moves(t, Len(stack[t]), <<f>>)
<1>1. stack[t] \in Seq(Call) /\ Len(stack[t]) \in Nat
  BY DEF Stacks
<1>2. stack' = [stack EXCEPT ![t] = Append(stack[t], f)]
  BY DEF Pushes
<1>3. stack'[t] = Append(stack[t], f)
  BY <1>2 DEF Stacks
<1>4. /\ stack'[t] \in Seq(Call)
      /\ Len(stack'[t]) = Len(stack[t]) + 1
      /\ \A k \in 1..Len(stack[t]) : stack'[t][k] = stack[t][k]
      /\ stack'[t][Len(stack[t]) + 1] = f
  BY <1>1, <1>3
<1>5. stack' \in [Thread -> Seq(Call)] /\ \A u \in Thread \ {t} : stack'[u] = stack[u]
  BY <1>2, <1>3, <1>4 DEF Stacks
<1>6. <<f>> \in Seq(Call) /\ Len(<<f>>) = 1 /\ <<f>>[1] = f
  OBVIOUS
<1> QED
  BY <1>1, <1>4, <1>5, <1>6 DEF Moves

LEMMA RaiseMoves ==
  ASSUME Stacks, NEW t \in Thread, stack' = [stack EXCEPT ![t] = <<>>]
  PROVE  Moves(t, 0, <<>>)
<1>1. stack[t] \in Seq(Call) /\ Len(stack[t]) \in Nat
  BY DEF Stacks
<1>2. stack'[t] = <<>> /\ \A u \in Thread \ {t} : stack'[u] = stack[u]
  BY DEF Stacks
<1>3. stack' \in [Thread -> Seq(Call)] /\ <<>> \in Seq(Call) /\ Len(<<>>) = 0
  BY DEF Stacks
<1> QED
  BY <1>1, <1>2, <1>3 DEF Moves

\* The calls that a step puts on a stack.
LEMMA Calling ==
  \A op \in Labels, arg \in Child \cup {None} :
      /\ Frame(op, arg) \in Call
      /\ Frame(op, arg).op = op /\ Frame(op, arg).arg = arg
      /\ Frame(op, arg).lock = NoLock
      /\ Frame(op, arg).ids = {} /\ Frame(op, arg).changed = FALSE
      /\ Holding(op, arg) \in Call
      /\ Holding(op, arg).op = op /\ Holding(op, arg).lock = arg
      /\ Holding(op, arg).arg = arg
      /\ Holding(op, arg).gone = {}
      /\ Holding(op, arg).ids = {} /\ Holding(op, arg).changed = FALSE
BY ZenonT(90) DEF Frame, Holding, Call, Parent

LEMMA OnTop ==
  ASSUME Stacks, NEW t \in Thread, stack[t] # <<>>
  PROVE  /\ Len(stack[t]) \in Nat \ {0} /\ Len(stack[t]) \in DOMAIN stack[t]
         /\ Top(t) = stack[t][Len(stack[t])] /\ Top(t) \in Call
         /\ DOMAIN stack[t] = 1..Len(stack[t])
BY DEF Stacks, Top

-----------------------------------------------------------------------------
(* The calls of the stacks *)

\* A call that may have another one on top of it.
Rests(f) == f.op \in Resting /\ (f.op \in {"leave", "enter"} => f.changed)

\* What the new calls of a step have to be for the calls of all stacks to be
\* well-formed and well-ordered again.
Fit(t, n, new) ==
    /\ Len(new) <= 2
    /\ n > 0 /\ n = Len(stack[t]) /\ new # <<>> => Rests(stack[t][n])
    /\ Len(new) = 2 => Rests(new[1])
    /\ \A k \in 1..n : stack[t][k].op = "stopkids" =>
           \A i \in 1..Len(new) : new[i].op \in Winding
    /\ Len(new) = 2 /\ new[1].op = "stopkids" => new[2].op \in Winding

\* Call f is of no invoked child, or its thread has the parent's lock.
Allowed(t, n, new, i) ==
    new[i].op \in Owning /\ new[i].arg \in Child /\ id'[new[i].arg] \in InvId =>
        \/ \E j \in 1..n : stack[t][j].lock = Parent
        \/ i = 2 /\ new[1].lock = Parent

LEMMA Positions ==
  ASSUME Stacks, NEW t \in Thread, NEW n, NEW new, Moves(t, n, new)
  PROVE  /\ n \in Nat /\ Len(new) \in Nat /\ n <= Len(stack[t]) /\ Len(stack[t]) \in Nat
         /\ \A u \in Thread : DOMAIN stack[u] = 1..Len(stack[u])
         /\ DOMAIN stack'[t] = 1..n + Len(new) /\ Len(stack'[t]) = n + Len(new)
         /\ \A k \in DOMAIN stack'[t] :
               \/ k \in 1..n /\ k \in DOMAIN stack[t] /\ stack'[t][k] = stack[t][k]
               \/ \E i \in 1..Len(new) : k = n + i /\ stack'[t][k] = new[i]
         /\ \A k \in 1..n : k \in DOMAIN stack'[t]
         /\ \A i \in 1..Len(new) : n + i \in DOMAIN stack'[t] /\ stack'[t][n + i] = new[i]
<1>1. /\ n \in 0..Len(stack[t]) /\ new \in Seq(Call)
      /\ stack' \in [Thread -> Seq(Call)]
      /\ Len(stack'[t]) = n + Len(new)
      /\ \A k \in 1..n : stack'[t][k] = stack[t][k]
      /\ \A k \in 1..Len(new) : stack'[t][n + k] = new[k]
  BY DEF Moves
<1>2. /\ \A u \in Thread : DOMAIN stack[u] = 1..Len(stack[u]) /\ Len(stack[u]) \in Nat
      /\ DOMAIN stack'[t] = 1..Len(stack'[t]) /\ Len(new) \in Nat
  BY <1>1 DEF Stacks
<1>3. n \in Nat /\ n <= Len(stack[t])
  BY <1>1, <1>2
<1>4. ASSUME NEW k \in 1..n + Len(new)
      PROVE  k \in 1..n \/ \E i \in 1..Len(new) : k = n + i
  <2>1. CASE k <= n
    BY <2>1, <1>3
  <2>2. CASE k > n
    <3>1. k - n \in 1..Len(new) /\ k = n + (k - n)
      BY <2>2, <1>2, <1>3
    <3> QED
      BY <3>1
  <2> QED
    BY <2>1, <2>2, <1>3
<1>5. /\ \A k \in 1..n : k \in 1..n + Len(new) /\ k \in 1..Len(stack[t])
      /\ \A i \in 1..Len(new) : n + i \in 1..n + Len(new)
  BY <1>2, <1>3
<1>6. ASSUME NEW k \in DOMAIN stack'[t]
      PROVE  \/ k \in 1..n /\ k \in DOMAIN stack[t] /\ stack'[t][k] = stack[t][k]
             \/ \E i \in 1..Len(new) : k = n + i /\ stack'[t][k] = new[i]
  <2>1. k \in 1..n + Len(new)
    BY <1>1, <1>2
  <2>2. CASE k \in 1..n
    BY <2>2, <1>1, <1>2, <1>5
  <2>3. CASE \E i \in 1..Len(new) : k = n + i
    BY <2>3, <1>1
  <2> QED
    BY <2>1, <2>2, <2>3, <1>4
<1>7. /\ \A k \in 1..n : k \in DOMAIN stack'[t]
      /\ \A i \in 1..Len(new) : n + i \in DOMAIN stack'[t] /\ stack'[t][n + i] = new[i]
  BY <1>1, <1>2, <1>5
<1> QED
  BY <1>1, <1>2, <1>3, <1>6, <1>7

LEMMA FirstOfTwo ==
  ASSUME NEW n \in Nat, NEW l \in Nat, l <= 2, NEW i \in 1..l, n + i # n + l
  PROVE  i = 1 /\ l = 2
OBVIOUS

LEMMA BothOfTwo ==
  ASSUME NEW n \in Nat, NEW l \in Nat, l <= 2, NEW h \in 1..l, NEW i \in 1..l,
         n + h < n + i
  PROVE  h = 1 /\ i = 2 /\ l = 2
OBVIOUS

LEMMA FramesMove ==
  ASSUME Frames, NEW t \in Thread, NEW n, NEW new, Moves(t, n, new), Fit(t, n, new),
         \A c \in Created : c \in Created' /\ id'[c] = id[c],
         \A i \in 1..Len(new) : Formed(new[i], Created') /\ Allowed(t, n, new, i)
  PROVE  Frames'
<1> USE DEF Frames
<1>1. /\ n \in Nat /\ Len(new) \in Nat /\ n <= Len(stack[t]) /\ Len(stack[t]) \in Nat
      /\ \A u \in Thread : DOMAIN stack[u] = 1..Len(stack[u])
      /\ DOMAIN stack'[t] = 1..n + Len(new) /\ Len(stack'[t]) = n + Len(new)
      /\ \A k \in DOMAIN stack'[t] :
            \/ k \in 1..n /\ k \in DOMAIN stack[t] /\ stack'[t][k] = stack[t][k]
            \/ \E i \in 1..Len(new) : k = n + i /\ stack'[t][k] = new[i]
      /\ \A k \in 1..n : k \in DOMAIN stack'[t]
      /\ \A i \in 1..Len(new) : n + i \in DOMAIN stack'[t] /\ stack'[t][n + i] = new[i]
  BY Positions
<1>2. Stacks' /\ \A u \in Thread \ {t} : stack'[u] = stack[u]
  BY DEF Moves, Stacks
<1>0. \A i \in 1..Len(new) : n + i # n + Len(new) => i = 1 /\ Len(new) = 2
  <2>1. Len(new) \in Nat /\ Len(new) <= 2 /\ n \in Nat
    BY <1>1 DEF Fit
  <2> QED
    BY <2>1, FirstOfTwo
<1>9. /\ \A k \in 1..n : k \in DOMAIN stack[t] /\ stack'[t][k] = stack[t][k]
      /\ \A k \in 1..n : \A j \in 1..k - 1 : j \in 1..n
  BY <1>1 DEF Moves
<1>3. \A f : Formed(f, Created) => Formed(f, Created')
  BY DEF Formed
<1>4. Formation'
  <2> SUFFICES ASSUME NEW u \in Thread, NEW k \in DOMAIN stack'[u]
               PROVE  Formed(stack'[u][k], Created')
    BY DEF Formation
  <2>1. CASE u # t
    BY <2>1, <1>2, <1>3 DEF Formation
  <2>2. CASE u = t
    BY <2>2, <1>1, <1>3 DEF Formation
  <2> QED
    BY <2>1, <2>2
<1>5. Order'
  <2> SUFFICES ASSUME NEW u \in Thread, NEW k \in DOMAIN stack'[u], k # Len(stack'[u])
               PROVE  stack'[u][k].op \in Resting
    BY DEF Order
  <2>1. CASE u # t
    BY <2>1, <1>2 DEF Order
  <2>2. CASE u = t /\ k \in 1..n
    <3>1. CASE k # Len(stack[t])
      BY <2>2, <3>1, <1>1 DEF Order
    <3>2. CASE k = Len(stack[t])
      <4>1. n > 0 /\ n = Len(stack[t]) /\ Len(new) # 0
        BY <2>2, <3>2, <1>1
      <4>2. Rests(stack[t][n]) /\ stack'[u][k] = stack[t][n]
        BY <2>2, <3>2, <4>1, <1>9 DEF Fit
      <4> QED
        BY <4>2 DEF Rests
    <3> QED
      BY <3>1, <3>2
  <2>3. ASSUME u = t, NEW i \in 1..Len(new), k = n + i, stack'[t][k] = new[i]
        PROVE  stack'[u][k].op \in Resting
    <3>1. i = 1 /\ Len(new) = 2
      BY <2>3, <1>0, <1>1
    <3> QED
      BY <2>3, <3>1 DEF Fit, Rests
  <2> QED
    BY <2>1, <2>2, <2>3, <1>1
<1>6. PassRecords'
  <2> SUFFICES ASSUME NEW u \in Thread, NEW k \in DOMAIN stack'[u], k # Len(stack'[u]),
                      stack'[u][k].op \in {"leave", "enter"}
               PROVE  stack'[u][k].changed
    BY DEF PassRecords
  <2>1. CASE u # t
    BY <2>1, <1>2 DEF PassRecords
  <2>2. CASE u = t /\ k \in 1..n
    <3>1. CASE k # Len(stack[t])
      BY <2>2, <3>1, <1>1 DEF PassRecords
    <3>2. CASE k = Len(stack[t])
      <4>1. n > 0 /\ n = Len(stack[t]) /\ Len(new) # 0
        BY <2>2, <3>2, <1>1
      <4>2. Rests(stack[t][n]) /\ stack'[u][k] = stack[t][n]
        BY <2>2, <3>2, <4>1, <1>9 DEF Fit
      <4> QED
        BY <4>2 DEF Rests
    <3> QED
      BY <3>1, <3>2
  <2>3. ASSUME u = t, NEW i \in 1..Len(new), k = n + i, stack'[t][k] = new[i]
        PROVE  stack'[u][k].changed
    <3>1. i = 1 /\ Len(new) = 2
      BY <2>3, <1>0, <1>1
    <3> QED
      BY <2>3, <3>1 DEF Fit, Rests
  <2> QED
    BY <2>1, <2>2, <2>3, <1>1
<1>7. InvokedUnderParent'
  <2> SUFFICES ASSUME NEW u \in Thread, NEW k \in DOMAIN stack'[u],
                      stack'[u][k].op \in Owning, stack'[u][k].arg \in Child,
                      id'[stack'[u][k].arg] \in InvId
               PROVE  \E j \in 1..k - 1 : stack'[u][j].lock = Parent
    BY DEF InvokedUnderParent, Guarded
  <2>1. ASSUME NEW v \in Thread, NEW i \in DOMAIN stack[v], stack[v][i].op \in Owning,
               stack[v][i].arg \in Child, id'[stack[v][i].arg] \in InvId
        PROVE  \E j \in 1..i - 1 : stack[v][j].lock = Parent
    <3>1. stack[v][i].arg \in Created
      BY <2>1, ActorsAssumption DEF Formation, Formed
    <3> QED
      BY <2>1, <3>1 DEF InvokedUnderParent, Guarded
  <2>2. CASE u # t
    BY <2>1, <2>2, <1>2
  <2>3. CASE u = t /\ k \in 1..n
    <3>1. k \in DOMAIN stack[t] /\ stack'[t][k] = stack[t][k]
      BY <2>3, <1>9
    <3>2. PICK j \in 1..k - 1 : stack[t][j].lock = Parent
      BY <2>1, <2>3, <3>1
    <3>3. stack'[t][j] = stack[t][j]
      BY <2>3, <3>2, <1>9
    <3> QED
      BY <2>3, <3>2, <3>3
  <2>4. ASSUME u = t, NEW i \in 1..Len(new), k = n + i, stack'[t][k] = new[i]
        PROVE  \E j \in 1..k - 1 : stack'[u][j].lock = Parent
    <3>1. CASE \E j \in 1..n : stack[t][j].lock = Parent
      <4>1. PICK j \in 1..n : stack[t][j].lock = Parent
        BY <3>1
      <4>2. j \in 1..k - 1 /\ stack'[t][j] = stack[t][j]
        BY <2>4, <4>1, <1>1 DEF Moves
      <4> QED
        BY <2>4, <4>1, <4>2
    <3>2. CASE i = 2 /\ new[1].lock = Parent
      <4>1. n + 1 \in 1..k - 1 /\ 1 \in 1..Len(new)
        BY <2>4, <3>2, <1>1
      <4> QED
        BY <2>4, <3>2, <4>1, <1>1
    <3> QED
      BY <2>4, <3>1, <3>2 DEF Allowed
  <2> QED
    BY <2>2, <2>3, <2>4, <1>1
<1>8. StopUndisturbed'
  <2> SUFFICES ASSUME NEW u \in Thread, NEW k \in DOMAIN stack'[u], NEW j \in DOMAIN stack'[u],
                      stack'[u][k].op = "stopkids", k < j
               PROVE  stack'[u][j].op \in Winding
    BY DEF StopUndisturbed
  <2>1. CASE u # t
    BY <2>1, <1>2 DEF StopUndisturbed
  <2>2. CASE u = t /\ j \in 1..n
    <3>1. k \in 1..n
      BY <2>2, <1>1
    <3>2. /\ k \in DOMAIN stack[t] /\ stack'[t][k] = stack[t][k]
          /\ j \in DOMAIN stack[t] /\ stack'[t][j] = stack[t][j]
      BY <2>2, <3>1, <1>9
    <3> QED
      BY <2>2, <3>2 DEF StopUndisturbed
  <2>3. ASSUME u = t, NEW i \in 1..Len(new), j = n + i, stack'[t][j] = new[i]
        PROVE  stack'[u][j].op \in Winding
    <3>1. CASE k \in 1..n
      BY <2>3, <3>1, <1>9 DEF Fit
    <3>2. CASE k \notin 1..n
      <4>1. PICK h \in 1..Len(new) : k = n + h /\ stack'[t][k] = new[h]
        BY <2>3, <3>2, <1>1
      <4>2. h = 1 /\ i = 2 /\ Len(new) = 2
        <5>1. n + h < n + i /\ Len(new) <= 2 /\ n \in Nat /\ Len(new) \in Nat
          BY <2>3, <4>1, <1>1 DEF Fit
        <5> QED
          BY <5>1, BothOfTwo
      <4> QED
        BY <2>3, <4>1, <4>2 DEF Fit
    <3> QED
      BY <3>1, <3>2
  <2> QED
    BY <2>1, <2>2, <2>3, <1>1
<1> QED
  BY <1>2, <1>4, <1>5, <1>6, <1>7, <1>8

-----------------------------------------------------------------------------
(* Steps that return, go on, call and raise *)

\* Children are not taken away, and keep their id.
Keeping == \A c \in Created : c \in Created' /\ id'[c] = id[c]

\* A call that goes on as f, or calls f, when the one it replaces is g.
Succeeds(f, g) ==
    /\ Formed(f, Created')
    /\ g.op \in Winding => f.op \in Winding \/ ~Stopping
    /\ f.op \in Owning /\ f.arg \in Child => g.op \in Owning /\ g.arg = f.arg

LEMMA TopGuarded ==
  ASSUME Frames, NEW t \in Thread, stack[t] # <<>>, Top(t).op \in Owning,
         Top(t).arg \in Child, id[Top(t).arg] \in InvId
  PROVE  \E j \in 1..Len(stack[t]) - 1 : stack[t][j].lock = Parent
<1>1. Len(stack[t]) \in DOMAIN stack[t] /\ Top(t) = stack[t][Len(stack[t])]
  BY OnTop DEF Frames
<1> QED
  BY <1>1 DEF Frames, InvokedUnderParent, Guarded

LEMMA TopUndisturbed ==
  ASSUME Frames, NEW t \in Thread, stack[t] # <<>>,
         NEW k \in 1..Len(stack[t]) - 1, stack[t][k].op = "stopkids"
  PROVE  Top(t).op \in Winding /\ Stopping
<1>1. /\ Len(stack[t]) \in DOMAIN stack[t] /\ Top(t) = stack[t][Len(stack[t])]
      /\ k \in DOMAIN stack[t] /\ k < Len(stack[t])
  BY OnTop DEF Frames
<1>2. stack[t][k] \in Live("stopkids")
  BY <1>1 DEF Live, Calls
<1> QED
  BY <1>1, <1>2 DEF Frames, StopUndisturbed, Stopping

LEMMA FramesReturn ==
  ASSUME Frames, NEW t \in Thread, stack[t] # <<>>, Keeping, Becomes(t, <<>>)
  PROVE  Frames'
<1>1. Moves(t, Len(stack[t]) - 1, <<>>)
  <2>1. <<>> \in Seq(Call)
    OBVIOUS
  <2> QED
    BY <2>1, BecomesMoves DEF Frames
<1>2. Fit(t, Len(stack[t]) - 1, <<>>)
  BY OnTop DEF Fit, Frames
<1> QED
  BY <1>1, <1>2, FramesMove DEF Keeping

LEMMA FramesRaise ==
  ASSUME Frames, NEW t \in Thread, Keeping, stack' = [stack EXCEPT ![t] = <<>>]
  PROVE  Frames'
<1>1. Moves(t, 0, <<>>)
  BY RaiseMoves DEF Frames
<1>2. Fit(t, 0, <<>>)
  BY DEF Fit
<1> QED
  BY <1>1, <1>2, FramesMove DEF Keeping

LEMMA FramesGoOn ==
  ASSUME Frames, NEW t \in Thread, stack[t] # <<>>, Keeping,
         NEW f \in Call, Becomes(t, <<f>>), Succeeds(f, Top(t))
  PROVE  Frames'
<1> DEFINE n == Len(stack[t]) - 1
<1>1. Moves(t, n, <<f>>)
  <2>1. <<f>> \in Seq(Call)
    OBVIOUS
  <2> QED
    BY <2>1, BecomesMoves DEF Frames
<1>2. Len(stack[t]) \in Nat \ {0} /\ Top(t) \in Call
  BY OnTop DEF Frames
<1>3. ASSUME NEW k \in 1..n, stack[t][k].op = "stopkids"
      PROVE  f.op \in Winding
  BY <1>3, TopUndisturbed DEF Succeeds
<1>4. Fit(t, n, <<f>>)
  <2>1. Len(<<f>>) = 1 /\ <<f>>[1] = f
    OBVIOUS
  <2> QED
    BY <2>1, <1>2, <1>3 DEF Fit
<1>5. Allowed(t, n, <<f>>, 1)
  <2>1. CASE f.op \in Owning /\ f.arg \in Child /\ id'[f.arg] \in InvId
    <3>1. Top(t).op \in Owning /\ Top(t).arg = f.arg
      BY <2>1 DEF Succeeds
    <3>2. Top(t).arg \in Created
      BY <2>1, <3>1, OnTop, ActorsAssumption DEF Frames, Formation, Formed
    <3> QED
      BY <2>1, <3>1, <3>2, TopGuarded DEF Allowed, Keeping
  <2> QED
    BY <2>1 DEF Allowed
<1>6. \A i \in 1..Len(<<f>>) : Formed(<<f>>[i], Created') /\ Allowed(t, n, <<f>>, i)
  BY <1>5 DEF Succeeds
<1> QED
  BY <1>1, <1>4, <1>6, FramesMove DEF Keeping

LEMMA FramesGoOnAndCall ==
  ASSUME Frames, NEW t \in Thread, stack[t] # <<>>, Keeping,
         NEW f \in Call, NEW g \in Call, Becomes(t, <<f, g>>), Rests(f),
         Succeeds(f, Top(t)), Formed(g, Created'),
         Top(t).op \notin Winding, f.op = "stopkids" => g.op \in Winding,
         g.op \in Owning /\ g.arg \in Child => f.lock = Parent
  PROVE  Frames'
<1> DEFINE n == Len(stack[t]) - 1
           new == <<f, g>>
<1>1. Moves(t, n, new)
  <2>1. <<f, g>> \in Seq(Call)
    OBVIOUS
  <2> QED
    BY <2>1, BecomesMoves DEF Frames
<1>2. Len(stack[t]) \in Nat \ {0} /\ Top(t) \in Call
  BY OnTop DEF Frames
<1>3. \A k \in 1..n : stack[t][k].op # "stopkids"
  BY TopUndisturbed
<1>4. Fit(t, n, new)
  <2>1. Len(new) = 2 /\ new[1] = f /\ new[2] = g
    OBVIOUS
  <2> QED
    BY <2>1, <1>2, <1>3 DEF Fit
<1>5. Allowed(t, n, new, 1)
  <2>1. CASE f.op \in Owning /\ f.arg \in Child /\ id'[f.arg] \in InvId
    <3>1. Top(t).op \in Owning /\ Top(t).arg = f.arg
      BY <2>1 DEF Succeeds
    <3>2. Top(t).arg \in Created
      BY <2>1, <3>1, OnTop, ActorsAssumption DEF Frames, Formation, Formed
    <3> QED
      BY <2>1, <3>1, <3>2, TopGuarded DEF Allowed, Keeping
  <2> QED
    BY <2>1 DEF Allowed
<1>6. Allowed(t, n, new, 2)
  BY DEF Allowed
<1>7. \A i \in 1..Len(new) : Formed(new[i], Created') /\ Allowed(t, n, new, i)
  BY <1>5, <1>6 DEF Succeeds
<1> QED
  BY <1>1, <1>4, <1>7, FramesMove DEF Keeping

LEMMA FramesCall ==
  ASSUME Frames, NEW t \in Thread, Keeping, NEW f \in Call, Pushes(t, f),
         Formed(f, Created'),
         stack[t] # <<>> => Rests(Top(t)) /\ Top(t).op \notin {"stopkids", "leave", "enter"},
         stack[t] # <<>> => f.op \in Winding \/ Top(t).op \notin Winding,
         f.op \in Owning /\ f.arg \in Child => id'[f.arg] \notin InvId
  PROVE  Frames'
<1> DEFINE n == Len(stack[t])
<1>1. Moves(t, n, <<f>>)
  BY PushesMoves DEF Frames
<1>2. n \in Nat /\ (n > 0 => stack[t] # <<>> /\ Top(t) = stack[t][n])
  BY DEF Frames, Stacks, Top
<1>3. ASSUME NEW k \in 1..n, stack[t][k].op = "stopkids"
      PROVE  f.op \in Winding
  <2>1. stack[t] # <<>> /\ Top(t) = stack[t][n]
    BY <1>2
  <2>2. k # n
    BY <2>1, <1>3
  <2>3. k \in 1..Len(stack[t]) - 1
    BY <2>2, <1>2
  <2> QED
    BY <2>1, <2>3, <1>3, TopUndisturbed
<1>4. Fit(t, n, <<f>>)
  <2>1. Len(<<f>>) = 1 /\ <<f>>[1] = f
    OBVIOUS
  <2> QED
    BY <2>1, <1>2, <1>3 DEF Fit
<1>5. \A i \in 1..Len(<<f>>) : Formed(<<f>>[i], Created') /\ Allowed(t, n, <<f>>, i)
  BY DEF Allowed
<1> QED
  BY <1>1, <1>4, <1>5, FramesMove DEF Keeping

-----------------------------------------------------------------------------
(* Every step keeps the calls in order *)

\* The variables other than the stacks have their types.
Data ==
    /\ ist \in {"not_started", "running", "stopped"} /\ sub \in BOOLEAN
    /\ conf \subseteq InvId /\ mail \in Seq(Child \cup {None})
    /\ children \in [Id -> Child \cup {None}] /\ invoked \in [InvId -> Child \cup {None}]
    /\ id \in [Child -> Id \cup {None}]
    /\ cst \in [Child -> {"not_started", "running", "stopped"}]
    /\ snap \in [Child -> {"active", "settled"}]
    /\ listening \in [Child -> BOOLEAN] /\ told \in [Child -> BOOLEAN]
    /\ delivered \in [Child -> Nat] /\ torn \in BOOLEAN
    /\ cut \subseteq Child /\ lost \subseteq Child
    /\ sends \in 0..MaxSends /\ entries \in Nat

LEMMA Concats ==
  ASSUME NEW f \in Call, NEW g \in Call
  PROVE  <<f>> \o <<>> = <<f>> /\ <<f>> \o <<g>> = <<f, g>>
<1>1. <<f>> \in Seq(Call) /\ <<g>> \in Seq(Call) /\ <<f, g>> \in Seq(Call)
  OBVIOUS
<1>2. <<f>> \o <<>> = <<f>>
  BY <1>1, ConcatEmptySeq
<1> DEFINE a == <<f>> \o <<g>>
           b == <<f, g>>
<1>3. /\ a \in Seq(Call) /\ Len(a) = Len(<<f>>) + Len(<<g>>)
      /\ \A i \in 1..Len(<<f>>) + Len(<<g>>) :
            a[i] = IF i <= Len(<<f>>) THEN <<f>>[i] ELSE <<g>>[i - Len(<<f>>)]
  BY <1>1, ConcatProperties
<1>4. Len(<<f>>) = 1 /\ Len(<<g>>) = 1 /\ Len(b) = 2 /\ b[1] = f /\ b[2] = g
      /\ <<f>>[1] = f /\ <<g>>[1] = g
  OBVIOUS
<1>5. Len(a) = 2 /\ a[1] = f /\ a[2] = g
  BY <1>3, <1>4
<1>6. \A i \in 1..Len(a) : a[i] = b[i]
  BY <1>4, <1>5
<1>7. a = b
  <2> HIDE DEF a, b
  <2> QED
    BY <1>1, <1>3, <1>4, <1>5, <1>6, SeqEqual DEF b
<1> QED
  BY <1>2, <1>7

\* The call on top, as a case of Frames.
LEMMA TopFormed ==
  ASSUME Frames, NEW t \in Thread, NEW op, At(t, op)
  PROVE  /\ stack[t] # <<>> /\ Top(t).op = op
         /\ Top(t) \in Call /\ Formed(Top(t), Created)
         /\ Top(t).arg \in Child \cup {None}
BY OnTop DEF Frames, Formation, At, Call

LEMMA InTables ==
  ASSUME Data, Tables
  PROVE  /\ \A i \in Id : children[i] # None => children[i] \in Created
         /\ \A i \in InvId : invoked[i] # None => invoked[i] \in Created
         /\ InvId \subseteq Id /\ None \notin Id /\ Created \subseteq Child /\ None \notin Created
BY ActorsAssumption DEF Data, Tables, Created, Id

LEMMA FramesUser ==
  ASSUME Frames, Data, Tables, NEW t \in Thread, User(t)
  PROVE  Frames'
<1>0. \A op \in Labels, arg \in Child \cup {None} :
          /\ Frame(op, arg) \in Call /\ Frame(op, arg).op = op
          /\ Frame(op, arg).arg = arg /\ Frame(op, arg).lock = NoLock
  BY Calling
<1> USE DEF Resting, Passing, Owning, Winding, Labels, OnChild
<1>1. CASE id' = id /\ (CallSend(t) \/ CallStart(t) \/ CallStop(t) \/ CallChild(t) \/ ChildChanges(t))
  <2>0. Keeping
    BY <1>1 DEF Keeping, Created
  <2>1. stack[t] # <<>> /\ UserCode(t) => Top(t).op = "act"
    BY DEF UserCode, At
  <2>2. PICK op \in {"send", "isend", "start", "stop", "cstart", "cstop", "cnotify"},
             arg \in Created \cup {None} :
          /\ Pushes(t, Frame(op, arg))
          /\ op \in OnChild => arg \in Created
          /\ stack[t] # <<>> => Top(t).op \in {"act", "run", "cleanup"}
          /\ stack[t] # <<>> /\ Top(t).op # "act" => op = "send"
          /\ op \in {"cstart", "cstop"} => id[arg] \in SpawnId
    <3>1. CASE CallSend(t)
      BY <3>1, <2>1 DEF CallSend, MaySend, ChildCode, At
    <3>2. CASE CallStart(t)
      BY <3>2 DEF CallStart
    <3>3. CASE CallStop(t)
      BY <3>3, <2>1 DEF CallStop
    <3>4. CASE CallChild(t)
      BY <3>4, <2>1 DEF CallChild
    <3>5. CASE ChildChanges(t)
      BY <3>5, <2>1 DEF ChildChanges
    <3> QED
      BY <1>1, <3>1, <3>2, <3>3, <3>4, <3>5
  <2>3. op \in Labels /\ arg \in Child \cup {None}
    BY DEF Created
  <2>4. /\ Frame(op, arg) \in Call /\ Frame(op, arg).op = op
        /\ Frame(op, arg).arg = arg /\ Frame(op, arg).lock = NoLock
    BY <1>0, <2>3
  <2>5. Created' = Created
    BY <1>1 DEF Created
  <2>6. Formed(Frame(op, arg), Created')
    BY <2>2, <2>4, <2>5 DEF Formed
  <2>7. op \in {"cstart", "cstop"} => id'[arg] \notin InvId
    BY <1>1, <2>2, ActorsAssumption
  <2>8. op \in Owning => op \in {"cstart", "cstop"}
    OBVIOUS
  <2> QED
    BY <2>0, <2>2, <2>4, <2>6, <2>7, <2>8, FramesCall DEF Rests
<1>2. CASE Spawn(t)
  <2>1. Keeping /\ stack' = stack
    BY <1>2 DEF Spawn, Create, Keeping, Created, Fresh, Data
  <2>2. Created \subseteq Created'
    BY <2>1 DEF Keeping
  <2>3. \A f : Formed(f, Created) => Formed(f, Created')
    BY <2>2 DEF Formed
  <2>4. Formation'
    BY <2>1, <2>3 DEF Frames, Formation
  <2>5. ASSUME NEW u \in Thread, NEW k \in DOMAIN stack[u],
               stack[u][k].op \in Owning, stack[u][k].arg \in Child, id'[stack[u][k].arg] \in InvId
        PROVE  Guarded(u, k)
    <3>1. stack[u][k].arg \in Created
      BY <2>5, ActorsAssumption DEF Frames, Formation, Formed
    <3> QED
      BY <2>1, <2>5, <3>1 DEF Frames, InvokedUnderParent, Keeping
  <2>6. InvokedUnderParent'
    BY <2>1, <2>5 DEF InvokedUnderParent, Guarded
  <2> QED
    BY <2>1, <2>4, <2>6 DEF Frames, Stacks, Order, StopUndisturbed, PassRecords
<1>3. CASE Raise(t)
  BY <1>3, FramesRaise DEF Raise, Keeping, Created, child
<1>4. CallSend(t) \/ CallStart(t) \/ CallStop(t) \/ CallChild(t) \/ ChildChanges(t) => id' = id
  BY DEF CallSend, CallStart, CallStop, CallChild, ChildChanges, child
<1> QED
  BY <1>1, <1>2, <1>3, <1>4 DEF User

\* The three ways in which a thread goes on inside a call of the library.
Takes(t, f) == f.lock = NoLock \/ Holds(t, f.lock) \/ CanTake(t, f.lock)

GoesOn(t, f) ==
    /\ f \in Call /\ Becomes(t, <<f>>)
    /\ Succeeds(f, Top(t)) /\ Takes(t, f)
    /\ At(t, "cnotify") => listening[Top(t).arg]

GoesOnAndCalls(t, f, g) ==
    /\ f \in Call /\ g \in Call /\ Becomes(t, <<f, g>>)
    /\ Succeeds(f, Top(t)) /\ Takes(t, f) /\ Rests(f)
    /\ Formed(g, Created') /\ g.lock = NoLock
    /\ Top(t).op \notin Winding /\ Top(t).op # "cnotify"
    /\ f.op = "stopkids" => g.op \in Winding
    /\ g.op \in Owning /\ g.arg \in Child => f.lock = Parent
    /\ f.lock \in Child => \/ Guarded(t, Len(stack[t]))
                           \/ g.op = "cnotify" /\ g.arg \in Created /\ ~listening[g.arg]

Goes(t) ==
    /\ stack[t] # <<>>
    /\ \/ Becomes(t, <<>>)
       \/ \E f \in Call : GoesOn(t, f)
       \/ \E f, g \in Call : GoesOnAndCalls(t, f, g)

LEMMA Keeps ==
  ASSUME Frames, Data, NEW t \in Thread, Work(t) \/ User(t)
  PROVE  /\ Keeping /\ Created \subseteq Created'
         /\ \A c \in Created : listening'[c] => listening[c]
<1>1. CASE Spawn(t) \/ EnterInvocation(t)
  <2>1. PICK c \in Fresh, i \in Id : Create(c, i) /\ (listening' = listening \/ listening' = [listening EXCEPT ![c] = TRUE])
    <3>1. CASE Spawn(t)
      BY <3>1 DEF Spawn, Id
    <3>2. CASE EnterInvocation(t)
      <4>1. Top(t).ids \subseteq InvId
        BY <3>2, TopFormed DEF EnterInvocation, Formed
      <4> QED
        BY <3>2, <4>1 DEF EnterInvocation, Id
    <3> QED
      BY <1>1, <3>1, <3>2
  <2> QED
    BY <2>1, ActorsAssumption DEF Keeping, Create, Created, Fresh, Data, Id
<1>2. CASE id' = id /\ (listening' = listening \/ \E c \in Child : listening' = [listening EXCEPT ![c] = FALSE])
  BY <1>2 DEF Keeping, Created, Data
<1>3. CASE ChildStopped(t)
  BY <1>3, <1>2 DEF ChildStopped, Keeping, Created, Data
<1>4. Spawn(t) \/ EnterInvocation(t) \/ ChildStopped(t) \/ (id' = id /\ listening' = listening)
  BY DEF Work, User, child, Send, InterpreterSend, Drain, Notify, Start, Subscribe, Return, Stop,
         StopChild, StopSelf, ChildStart, ChildStarted, ChildNotify, ChildStop,
         Unlink, Sync, Reconcile, LeaveInvocation, Resolve, EndPass,
         CallSend, CallStart, CallStop, CallChild, ChildChanges, Raise
<1> QED
  BY <1>1, <1>2, <1>3, <1>4

LEMMA WorkGoes ==
  ASSUME Frames, Data, Tables, NEW t \in Thread, Work(t)
  PROVE  Goes(t)
<1>0. \A op \in Labels, arg \in Child \cup {None} :
          /\ Frame(op, arg) \in Call /\ Frame(op, arg).op = op
          /\ Frame(op, arg).arg = arg /\ Frame(op, arg).lock = NoLock
          /\ Holding(op, arg) \in Call /\ Holding(op, arg).op = op
          /\ Holding(op, arg).arg = arg /\ Holding(op, arg).lock = arg
          /\ Holding(op, arg).ids = {}
  BY Calling
<1>k. /\ Created \subseteq Created' /\ Created \subseteq Child /\ None \notin Child
      /\ NoLock \notin Child /\ NoLock # None
  BY Keeps, InTables, ActorsAssumption DEF NoLock
<1>t. \A op \in Labels : At(t, op) =>
          /\ stack[t] # <<>> /\ Top(t).op = op
          /\ Top(t) \in Call /\ Formed(Top(t), Created)
          /\ Top(t).arg \in Child \cup {None}
          /\ op \in OnChild => Top(t).arg \in Created
          /\ \A o \in Labels : At(t, o) => o = op
  BY TopFormed DEF At, Formed
<1>h. stack[t] # <<>> => (Top(t).lock = NoLock \/ Holds(t, Top(t).lock))
  BY OnTop DEF Holds, Calls, Frames
<1>r. ASSUME NEW op \in Labels, At(t, op), Becomes(t, <<>>)
      PROVE  Goes(t)
  BY <1>r, <1>t DEF Goes
<1>s. ASSUME NEW op \in Labels \ Winding, op # "cnotify", At(t, op),
             NEW f \in Call, Becomes(t, <<f>>), Formed(f, Created'), Takes(t, f),
             f.op \notin Owning \/ f.arg \notin Child
      PROVE  Goes(t)
  BY <1>s, <1>t DEF Goes, GoesOn, Succeeds, Labels
<1>p. ASSUME NEW op \in Labels \ Winding, op # "cnotify", At(t, op),
             NEW f \in Call, NEW g \in Call, Becomes(t, <<f, g>>),
             Formed(f, Created'), Formed(g, Created'), Takes(t, f), Rests(f), g.lock = NoLock,
             f.op \notin Owning \/ f.arg \notin Child, f.lock \notin Child,
             f.op = "stopkids" => g.op \in Winding,
             g.op \in Owning /\ g.arg \in Child => f.lock = Parent
      PROVE  Goes(t)
  BY <1>p, <1>t DEF Goes, GoesOnAndCalls, Succeeds, Labels
<1>1. CASE Send(t)
  <2>1. At(t, "send")
    BY <1>1 DEF Send
  <2>2. CASE Becomes(t, <<>>)
    BY <2>1, <2>2, <1>r DEF Labels
  <2>3. CASE Becomes(t, <<Frame("isend", Top(t).arg)>>) /\ ~Stopping
    <3>2. Top(t).arg # None => Top(t).arg \in Created
      BY <2>1, <1>t DEF Labels, Formed
    <3>3. GoesOn(t, Frame("isend", Top(t).arg))
      BY <2>1, <2>3, <3>2, <1>0, <1>k, <1>t
         DEF GoesOn, Succeeds, Takes, Formed, Labels, Owning, OnChild, Passing, Resting
    <3> QED
      BY <2>1, <3>3, <1>t DEF Goes, Labels, GoesOn
  <2> QED
    BY <1>1, <2>2, <2>3 DEF Send
<1>2. CASE InterpreterSend(t)
  <2>1. At(t, "isend") /\ (Becomes(t, <<>>) \/ Becomes(t, <<Frame("drain", None)>>))
    BY <1>2 DEF InterpreterSend
  <2> QED
    BY <2>1, <1>0, <1>k, <1>r, <1>s
       DEF Takes, Formed, Labels, Owning, Winding, OnChild, Passing, Resting
<1>3. CASE Drain(t)
  <2>1. At(t, "drain") /\ (Becomes(t, <<>>) \/ Becomes(t, <<Frame("act", None)>>))
    BY <1>3 DEF Drain
  <2> QED
    BY <2>1, <1>0, <1>k, <1>r, <1>s
       DEF Takes, Formed, Labels, Owning, Winding, OnChild, Passing, Resting
<1>4. CASE Notify(t)
  <2> DEFINE f == Frame("drain", None)
             g == Frame("sync", None)
  <2>1. f \in Call /\ g \in Call /\ f.op = "drain" /\ g.op = "sync"
        /\ f.lock = NoLock /\ g.lock = NoLock /\ f.arg = None /\ g.arg = None
    BY <1>0 DEF Labels
  <2>2. At(t, "act") /\ (Becomes(t, <<f>>) \/ Becomes(t, <<f, g>>))
    BY <1>4, <2>1, Concats DEF Notify
  <2> HIDE DEF f, g
  <2>3. Formed(f, Created') /\ Formed(g, Created') /\ Takes(t, f) /\ Rests(f)
    BY <2>1 DEF Formed, Passing, Resting, Labels, OnChild, Takes, Rests
  <2> QED
    BY <2>1, <2>2, <2>3, <1>k, <1>s, <1>p DEF Labels, Owning, Winding
<1>5. CASE Start(t)
  <2> DEFINE f == Holding("subscribe", Parent)
             g == Frame("act", None)
  <2>1. f \in Call /\ g \in Call /\ f.op = "subscribe" /\ g.op = "act"
        /\ f.lock = Parent /\ g.lock = NoLock /\ f.arg = None /\ g.arg = None
    BY <1>0 DEF Labels, Parent
  <2>2. At(t, "start") /\ CanTake(t, Parent)
        /\ (Becomes(t, <<>>) \/ Becomes(t, <<f>>) \/ Becomes(t, <<f, g>>))
    BY <1>5, <2>1, Concats DEF Start
  <2> HIDE DEF f, g
  <2>3. Formed(f, Created') /\ Formed(g, Created') /\ Takes(t, f) /\ Rests(f)
    BY <2>1, <2>2 DEF Formed, Passing, Resting, Labels, OnChild, Takes, Rests
  <2> QED
    BY <2>1, <2>2, <2>3, <1>k, <1>r, <1>s, <1>p DEF Labels, Owning, Winding, Parent
<1>6. CASE Subscribe(t)
  <2> DEFINE f == Holding("return", Parent)
             g == Frame("sync", None)
  <2>1. f \in Call /\ g \in Call /\ f.op = "return" /\ g.op = "sync"
        /\ f.lock = Parent /\ g.lock = NoLock /\ f.arg = None /\ g.arg = None
    BY <1>0 DEF Labels, Parent
  <2>2. At(t, "subscribe") /\ (Becomes(t, <<f>>) \/ Becomes(t, <<f, g>>))
    BY <1>6, <2>1, Concats DEF Subscribe
  <2> HIDE DEF f, g
  <2>3. Top(t).lock = Parent
    BY <2>2, <1>t DEF Formed, Labels
  <2>4. Formed(f, Created') /\ Formed(g, Created') /\ Takes(t, f) /\ Rests(f)
    BY <2>1, <2>2, <2>3, <1>k, <1>h, <1>t
       DEF Formed, Passing, Resting, Labels, OnChild, Takes, Rests, Parent
  <2> QED
    BY <2>1, <2>2, <2>4, <1>k, <1>s, <1>p DEF Labels, Owning, Winding, Parent
<1>7. CASE Return(t)
  BY <1>7, <1>r DEF Return, Labels
<1>8. CASE Stop(t)
  <2> DEFINE kids == {children[i] : i \in Id} \ {None}
             f == [Holding("stopkids", Parent) EXCEPT !.ids = kids]
  <2>1. kids \subseteq Created
    BY InTables
  <2>2. f \in Call /\ f.op = "stopkids" /\ f.lock = Parent /\ f.arg = None /\ f.ids = kids
    <3> HIDE DEF kids
    <3> QED
      BY <2>1, <1>k, <1>0 DEF Labels, Parent, Call
  <2>3. At(t, "stop") /\ CanTake(t, Parent) /\ (Becomes(t, <<>>) \/ Becomes(t, <<f>>))
    BY <1>8 DEF Stop
  <2> HIDE DEF f, kids
  <2>4. Formed(f, Created') /\ Takes(t, f)
    BY <2>1, <2>2, <2>3, <1>k DEF Formed, Passing, Resting, Labels, OnChild, Takes, Parent
  <2> QED
    BY <2>2, <2>3, <2>4, <1>k, <1>r, <1>s DEF Labels, Owning, Winding
<1>9. CASE StopChild(t)
  <2>1. At(t, "stopkids")
    BY <1>9 DEF StopChild
  <2>2. PICK c \in Top(t).ids :
           Becomes(t, <<[Top(t) EXCEPT !.ids = @ \ {c}], Frame("cstop", c)>>)
    BY <1>9 DEF StopChild
  <2> DEFINE f == [Top(t) EXCEPT !.ids = @ \ {c}]
             g == Frame("cstop", c)
  <2>3. Top(t) \in Call /\ Top(t).op = "stopkids" /\ Top(t).lock = Parent
        /\ Top(t).ids \subseteq Created /\ c \in Created
        /\ (Top(t).arg # None => Top(t).arg \in Created)
    BY <2>1, <1>t DEF Formed, Labels
  <2>4. f \in Call /\ f.op = "stopkids" /\ f.lock = Parent /\ f.arg = Top(t).arg
        /\ f.ids \subseteq Created
    BY <2>3 DEF Call
  <2>5. g \in Call /\ g.op = "cstop" /\ g.arg = c /\ g.lock = NoLock
    BY <2>3, <1>0, <1>k DEF Labels
  <2> HIDE DEF f, g
  <2>6. Formed(f, Created') /\ Formed(g, Created') /\ Takes(t, f) /\ Rests(f)
    BY <2>1, <2>3, <2>4, <2>5, <1>k, <1>h, <1>t
       DEF Formed, Passing, Resting, Labels, OnChild, Takes, Rests, Parent
  <2> QED
    BY <2>1, <2>2, <2>4, <2>5, <2>6, <1>k, <1>p DEF Labels, Owning, Winding, Parent, f, g
<1>10. CASE StopSelf(t)
  BY <1>10, <1>r DEF StopSelf, Labels
<1>11. CASE ChildStart(t)
  <2> DEFINE c == Top(t).arg
             f == Holding("run", c)
  <2>1. At(t, "cstart") /\ CanTake(t, c) /\ (Becomes(t, <<>>) \/ Becomes(t, <<f>>))
    BY <1>11 DEF ChildStart
  <2>2. c \in Created /\ Top(t).op = "cstart"
    BY <2>1, <1>t DEF Labels, OnChild
  <2>3. f \in Call /\ f.op = "run" /\ f.arg = c /\ f.lock = c
    BY <2>2, <1>0, <1>k DEF Labels
  <2> HIDE DEF f
  <2>4. Formed(f, Created') /\ Takes(t, f) /\ Succeeds(f, Top(t))
    BY <2>1, <2>2, <2>3, <1>k
       DEF Formed, Passing, Resting, Labels, OnChild, Takes, Succeeds, Owning, Winding
  <2>5. Becomes(t, <<f>>) => GoesOn(t, f)
    BY <2>1, <2>2, <2>3, <2>4, <1>t DEF GoesOn, At, Labels
  <2> QED
    BY <2>1, <2>3, <2>5, <1>r, <1>t DEF Goes, Labels
<1>12. CASE ChildStarted(t)
  <2> DEFINE c == Top(t).arg
             f == Holding("return", c)
             g == Frame("cnotify", c)
  <2>1. At(t, "run") /\ Becomes(t, <<f, g>>)
    BY <1>12 DEF ChildStarted
  <2>2. c \in Created /\ c \in Child /\ Top(t).op = "run" /\ Top(t).lock = c /\ stack[t] # <<>>
    BY <2>1, <1>t, <1>k DEF Labels, OnChild, Formed
  <2>3. /\ f \in Call /\ f.op = "return" /\ f.arg = c /\ f.lock = c
        /\ g \in Call /\ g.op = "cnotify" /\ g.arg = c /\ g.lock = NoLock
    BY <2>2, <1>0 DEF Labels
  <2>4. Guarded(t, Len(stack[t])) \/ ~listening[c]
    <3>1. CASE id[c] \in InvId
      BY <2>2, <3>1, TopGuarded DEF Guarded, Owning
    <3>2. CASE id[c] \notin InvId
      BY <2>2, <3>2 DEF Tables
    <3> QED
      BY <3>1, <3>2
  <2> HIDE DEF f, g
  <2>5. /\ Formed(f, Created') /\ Formed(g, Created') /\ Takes(t, f) /\ Rests(f)
        /\ Succeeds(f, Top(t))
    BY <2>1, <2>2, <2>3, <1>k, <1>h
       DEF Formed, Passing, Resting, Labels, OnChild, Takes, Rests, Succeeds, Owning, Winding
  <2>6. GoesOnAndCalls(t, f, g)
    BY <2>1, <2>2, <2>3, <2>4, <2>5 DEF GoesOnAndCalls, Owning, Winding
  <2> QED
    BY <2>2, <2>3, <2>6 DEF Goes
<1>13. CASE ChildNotify(t)
  <2> DEFINE c == Top(t).arg
             f == Frame("send", c)
  <2>1. At(t, "cnotify") /\ (Becomes(t, <<>>) \/ (Becomes(t, <<f>>) /\ listening[c]))
    BY <1>13 DEF ChildNotify
  <2>2. c \in Created /\ c \in Child /\ Top(t).op = "cnotify"
    BY <2>1, <1>t, <1>k DEF Labels, OnChild
  <2>3. f \in Call /\ f.op = "send" /\ f.arg = c /\ f.lock = NoLock
    BY <2>2, <1>0, <1>k DEF Labels
  <2> HIDE DEF f
  <2>4. Formed(f, Created') /\ Takes(t, f) /\ Succeeds(f, Top(t))
    BY <2>1, <2>2, <2>3, <1>k
       DEF Formed, Passing, Resting, Labels, OnChild, Takes, Succeeds, Owning, Winding
  <2>5. Becomes(t, <<f>>) /\ listening[c] => GoesOn(t, f)
    BY <2>1, <2>2, <2>3, <2>4, <1>t DEF GoesOn
  <2> QED
    BY <2>1, <2>3, <2>5, <1>r, <1>t DEF Goes, Labels
<1>14. CASE ChildStop(t)
  <2> DEFINE c == Top(t).arg
             f == Holding("cleanup", c)
  <2>1. At(t, "cstop") /\ CanTake(t, c) /\ (Becomes(t, <<>>) \/ Becomes(t, <<f>>))
    BY <1>14 DEF ChildStop
  <2>2. c \in Created /\ Top(t).op = "cstop"
    BY <2>1, <1>t DEF Labels, OnChild
  <2>3. f \in Call /\ f.op = "cleanup" /\ f.arg = c /\ f.lock = c
    BY <2>2, <1>0, <1>k DEF Labels
  <2> HIDE DEF f
  <2>4. Formed(f, Created') /\ Takes(t, f) /\ Succeeds(f, Top(t))
    BY <2>1, <2>2, <2>3, <1>k
       DEF Formed, Passing, Resting, Labels, OnChild, Takes, Succeeds, Owning, Winding
  <2>5. Becomes(t, <<f>>) => GoesOn(t, f)
    BY <2>1, <2>2, <2>3, <2>4, <1>t DEF GoesOn, At, Labels
  <2> QED
    BY <2>1, <2>3, <2>5, <1>r, <1>t DEF Goes, Labels
<1>15. CASE ChildStopped(t)
  <2> DEFINE c == Top(t).arg
             f == Frame("unlink", c)
  <2>1. At(t, "cleanup") /\ Becomes(t, <<f>>)
    BY <1>15 DEF ChildStopped
  <2>2. c \in Created /\ Top(t).op = "cleanup" /\ stack[t] # <<>>
    BY <2>1, <1>t DEF Labels, OnChild
  <2>3. f \in Call /\ f.op = "unlink" /\ f.arg = c /\ f.lock = NoLock
    BY <2>2, <1>0, <1>k DEF Labels
  <2> HIDE DEF f
  <2>4. Formed(f, Created') /\ Takes(t, f) /\ Succeeds(f, Top(t))
    BY <2>1, <2>2, <2>3, <1>k
       DEF Formed, Passing, Resting, Labels, OnChild, Takes, Succeeds, Owning, Winding
  <2>5. GoesOn(t, f)
    BY <2>1, <2>2, <2>3, <2>4 DEF GoesOn, At
  <2> QED
    BY <2>2, <2>3, <2>5 DEF Goes
<1>16. CASE Unlink(t)
  BY <1>16, <1>r DEF Unlink, Labels
<1>17. CASE Sync(t) \/ Reconcile(t) \/ Resolve(t) \/ EndPass(t)
  <2> DEFINE f == Holding("recon", Parent)
             g == [Holding("leave", Parent) EXCEPT !.ids = conf,
                            !.gone = {i \in InvId : invoked[i] # None} \ conf]
             h == [Top(t) EXCEPT !.op = "enter", !.ids = {i \in @ : invoked[i] = None}]
  <2>1. PICK op \in {"sync", "recon", "leave", "enter"} :
           /\ At(t, op) /\ (op = "sync" => CanTake(t, Parent))
           /\ \/ Becomes(t, <<>>)
              \/ op \in {"sync", "enter"} /\ Becomes(t, <<f>>)
              \/ op = "recon" /\ Becomes(t, <<g>>)
              \/ op = "leave" /\ Becomes(t, <<h>>)
    <3>1. CASE Sync(t)
      BY <3>1 DEF Sync
    <3>2. CASE Reconcile(t)
      BY <3>2 DEF Reconcile
    <3>3. CASE Resolve(t)
      BY <3>3 DEF Resolve
    <3>4. CASE EndPass(t)
      BY <3>4 DEF EndPass
    <3> QED
      BY <1>17, <3>1, <3>2, <3>3, <3>4
  <2>2. f \in Call /\ f.op = "recon" /\ f.arg = None /\ f.lock = Parent
    BY <1>0 DEF Labels, Parent
  <2>3. g \in Call /\ g.op = "leave" /\ g.arg = None /\ g.lock = Parent /\ g.ids = conf
    <3>1. Holding("leave", Parent) \in Call /\ conf \subseteq InvId
          /\ Holding("leave", Parent).op = "leave" /\ Holding("leave", Parent).arg = None
          /\ Holding("leave", Parent).lock = Parent
      BY <1>0 DEF Labels, Parent, Data
    <3> QED
      BY <3>1 DEF Call
  <2>4. op = "leave" => h \in Call /\ h.op = "enter" /\ h.lock = Parent /\ h.ids \subseteq InvId
                        /\ (h.arg # None => h.arg \in Created)
    <3>1. op = "leave" => Top(t) \in Call /\ Top(t).op = "leave" /\ Top(t).lock = Parent
                          /\ Top(t).ids \subseteq InvId
                          /\ (Top(t).arg # None => Top(t).arg \in Created)
      BY <2>1, <1>t DEF Formed, Labels
    <3> QED
      BY <3>1 DEF Call, Labels
  <2>5. Takes(t, f) /\ (op # "sync" => Takes(t, g) /\ (op = "leave" => Takes(t, h)))
    <3>1. op # "sync" => Holds(t, Parent)
      <4>1. op # "sync" => Top(t).lock = Parent /\ stack[t] # <<>>
        BY <2>1, <1>t DEF Formed, Labels
      <4>2. Parent # NoLock
        BY <1>k DEF Parent
      <4> QED
        BY <4>1, <4>2, <1>h
    <3> QED
      BY <3>1, <2>1, <2>2, <2>3, <2>4 DEF Takes
  <2> HIDE DEF f, g, h
  <2>6. Formed(f, Created') /\ Formed(g, Created') /\ (op = "leave" => Formed(h, Created'))
    BY <2>2, <2>3, <2>4, <1>k, conf \subseteq InvId
       DEF Formed, Passing, Resting, Labels, OnChild, Data
  <2> QED
    BY <2>1, <2>2, <2>3, <2>4, <2>5, <2>6, <1>k, <1>r, <1>s DEF Labels, Owning, Winding
<1>18. CASE LeaveInvocation(t)
  <2>1. At(t, "leave")
    BY <1>18 DEF LeaveInvocation
  <2>2. PICK i \in Top(t).gone :
           /\ invoked[i] # None
           /\ Becomes(t, <<[Top(t) EXCEPT !.gone = @ \ {i}, !.changed = TRUE],
                           Frame("cstop", invoked[i])>>)
    BY <1>18 DEF LeaveInvocation
  <2> DEFINE f == [Top(t) EXCEPT !.gone = @ \ {i}, !.changed = TRUE]
             g == Frame("cstop", invoked[i])
  <2>3. Top(t) \in Call /\ Top(t).op = "leave" /\ Top(t).lock = Parent
        /\ Top(t).ids \subseteq InvId /\ Top(t).gone \subseteq InvId
        /\ (Top(t).arg # None => Top(t).arg \in Created)
    BY <2>1, <1>t DEF Formed, Labels, Call
  <2>4. f \in Call /\ f.op = "leave" /\ f.lock = Parent /\ f.arg = Top(t).arg
        /\ f.ids \subseteq InvId /\ f.changed
    BY <2>3 DEF Call
  <2>5. invoked[i] \in Created
    BY <2>2, <2>3, InTables
  <2>6. g \in Call /\ g.op = "cstop" /\ g.arg = invoked[i] /\ g.lock = NoLock
    BY <2>5, <1>0, <1>k DEF Labels
  <2> HIDE DEF f, g
  <2>7. Formed(f, Created') /\ Formed(g, Created') /\ Takes(t, f) /\ Rests(f)
    BY <2>1, <2>3, <2>4, <2>5, <2>6, <1>k, <1>h, <1>t
       DEF Formed, Passing, Resting, Labels, OnChild, Takes, Rests, Parent
  <2> QED
    BY <2>1, <2>2, <2>4, <2>6, <2>7, <1>k, <1>p DEF Labels, Owning, Winding, Parent, f, g
<1>19. CASE EnterInvocation(t)
  <2>1. At(t, "enter")
    BY <1>19 DEF EnterInvocation
  <2>2. PICK i \in Top(t).ids, c \in Fresh :
           /\ Create(c, i)
           /\ Becomes(t, <<[Top(t) EXCEPT !.ids = @ \ {i}, !.changed = TRUE],
                           Frame("cstart", c)>>)
    BY <1>19 DEF EnterInvocation
  <2> DEFINE f == [Top(t) EXCEPT !.ids = @ \ {i}, !.changed = TRUE]
             g == Frame("cstart", c)
  <2>3. Top(t) \in Call /\ Top(t).op = "enter" /\ Top(t).lock = Parent
        /\ Top(t).ids \subseteq InvId
        /\ (Top(t).arg # None => Top(t).arg \in Created)
    BY <2>1, <1>t DEF Formed, Labels, Call
  <2>4. f \in Call /\ f.op = "enter" /\ f.lock = Parent /\ f.arg = Top(t).arg
        /\ f.ids \subseteq InvId /\ f.changed
    BY <2>3 DEF Call
  <2>5. c \in Created' /\ c \in Child
    BY <2>2, <2>3, InTables DEF Create, Created, Fresh, Data
  <2>6. g \in Call /\ g.op = "cstart" /\ g.arg = c /\ g.lock = NoLock
    BY <2>5, <1>0 DEF Labels
  <2> HIDE DEF f, g
  <2>7. Formed(f, Created') /\ Formed(g, Created') /\ Takes(t, f) /\ Rests(f)
    BY <2>1, <2>3, <2>4, <2>5, <2>6, <1>k, <1>h, <1>t
       DEF Formed, Passing, Resting, Labels, OnChild, Takes, Rests, Parent
  <2> QED
    BY <2>1, <2>2, <2>4, <2>6, <2>7, <1>k, <1>p DEF Labels, Owning, Winding, Parent, f, g
<1> QED
  BY <1>1, <1>2, <1>3, <1>4, <1>5, <1>6, <1>7, <1>8, <1>9, <1>10, <1>11, <1>12, <1>13,
     <1>14, <1>15, <1>16, <1>17, <1>18, <1>19 DEF Work

LEMMA FramesWork ==
  ASSUME Frames, NEW t \in Thread, Keeping, Goes(t)
  PROVE  Frames'
<1>1. stack[t] # <<>>
  BY DEF Goes
<1>2. CASE Becomes(t, <<>>)
  BY <1>1, <1>2, FramesReturn
<1>3. ASSUME NEW f \in Call, GoesOn(t, f)
      PROVE  Frames'
  <2>1. Becomes(t, <<f>>) /\ Succeeds(f, Top(t))
    BY <1>3 DEF GoesOn
  <2> QED
    BY <1>1, <2>1, FramesGoOn
<1>4. ASSUME NEW f \in Call, NEW g \in Call, GoesOnAndCalls(t, f, g)
      PROVE  Frames'
  <2>1. /\ Becomes(t, <<f, g>>) /\ Rests(f)
        /\ Succeeds(f, Top(t)) /\ Formed(g, Created')
        /\ Top(t).op \notin Winding /\ (f.op = "stopkids" => g.op \in Winding)
        /\ (g.op \in Owning /\ g.arg \in Child => f.lock = Parent)
    BY <1>4 DEF GoesOnAndCalls
  <2> QED
    BY <1>1, <2>1, FramesGoOnAndCall
<1> QED
  BY <1>2, <1>3, <1>4 DEF Goes

LEMMA FramesStep ==
  ASSUME Frames, Data, Tables, [Next]_vars
  PROVE  Frames'
<1>1. CASE UNCHANGED vars
  BY <1>1 DEF vars, child, Frames, Stacks, Formation, Order, InvokedUnderParent, Guarded,
              StopUndisturbed, PassRecords, Created
<1>2. ASSUME NEW t \in Thread, Work(t)
      PROVE  Frames'
  BY <1>2, WorkGoes, Keeps, FramesWork
<1>3. ASSUME NEW t \in Thread, User(t)
      PROVE  Frames'
  BY <1>3, FramesUser
<1> QED
  BY <1>1, <1>2, <1>3 DEF Next

-----------------------------------------------------------------------------
(* The calls under way, and the locks *)

\* A step of thread t takes the calls `old` away and adds the calls `new`.
Changes(t, old, new) ==
    /\ \A u \in Thread \ {t} : Calls(u)' = Calls(u)
    /\ Calls(t)' \subseteq Calls(t) \cup new
    /\ (Calls(t) \ old) \cup new \subseteq Calls(t)'

LEMMA CallsMove ==
  ASSUME Stacks, NEW t \in Thread, NEW n, NEW new, Moves(t, n, new)
  PROVE  /\ \A u \in Thread \ {t} : Calls(u)' = Calls(u)
         /\ Calls(t)' \subseteq Calls(t) \cup {new[i] : i \in 1..Len(new)}
         /\ {stack[t][k] : k \in 1..n} \cup {new[i] : i \in 1..Len(new)} \subseteq Calls(t)'
<1>1. /\ \A k \in DOMAIN stack'[t] :
            \/ k \in 1..n /\ k \in DOMAIN stack[t] /\ stack'[t][k] = stack[t][k]
            \/ \E i \in 1..Len(new) : k = n + i /\ stack'[t][k] = new[i]
      /\ \A k \in 1..n : k \in DOMAIN stack'[t]
      /\ \A i \in 1..Len(new) : n + i \in DOMAIN stack'[t] /\ stack'[t][n + i] = new[i]
  BY Positions
<1>2. /\ \A u \in Thread \ {t} : stack'[u] = stack[u]
      /\ \A k \in 1..n : stack'[t][k] = stack[t][k]
  BY DEF Moves
<1>3. Calls(t)' \subseteq Calls(t) \cup {new[i] : i \in 1..Len(new)}
  BY <1>1 DEF Calls
<1>4. {stack[t][k] : k \in 1..n} \cup {new[i] : i \in 1..Len(new)} \subseteq Calls(t)'
  <2>1. \A k \in 1..n : stack[t][k] \in Calls(t)'
    <3>1. \A k \in 1..n : stack'[t][k] \in Calls(t)'
      BY <1>1 DEF Calls
    <3> QED
      BY <3>1, <1>2
  <2>2. \A i \in 1..Len(new) : new[i] \in Calls(t)'
    <3>1. \A i \in 1..Len(new) : stack'[t][n + i] \in Calls(t)'
      BY <1>1 DEF Calls
    <3> QED
      BY <3>1, <1>1
  <2> QED
    BY <2>1, <2>2
<1> QED
  BY <1>2, <1>3, <1>4 DEF Calls

LEMMA BecomesChanges ==
  ASSUME Stacks, NEW t \in Thread, stack[t] # <<>>
  PROVE  /\ Becomes(t, <<>>) => Changes(t, {Top(t)}, {})
         /\ \A f \in Call : Becomes(t, <<f>>) => Changes(t, {Top(t)}, {f})
         /\ \A f, g \in Call : Becomes(t, <<f, g>>) => Changes(t, {Top(t)}, {f, g})
<1> DEFINE n == Len(stack[t]) - 1
<1>1. Calls(t) \ {Top(t)} \subseteq {stack[t][k] : k \in 1..n}
  <2> SUFFICES ASSUME NEW k \in DOMAIN stack[t], stack[t][k] # Top(t)
               PROVE  k \in 1..n
    BY DEF Calls
  <2> QED
    BY OnTop
<1>2. ASSUME NEW new \in Seq(Call), Becomes(t, new)
      PROVE  Changes(t, {Top(t)}, {new[i] : i \in 1..Len(new)})
  <2>1. Moves(t, n, new)
    BY <1>2, BecomesMoves
  <2> HIDE DEF n
  <2> QED
    BY <2>1, <1>1, CallsMove DEF Changes
<1>3. Becomes(t, <<>>) => Changes(t, {Top(t)}, {})
  <2>1. <<>> \in Seq(Call) /\ {<<>>[i] : i \in 1..Len(<<>>)} = {}
    OBVIOUS
  <2> QED
    BY <2>1, <1>2
<1>4. ASSUME NEW f \in Call, Becomes(t, <<f>>)
      PROVE  Changes(t, {Top(t)}, {f})
  <2>1. <<f>> \in Seq(Call) /\ {<<f>>[i] : i \in 1..Len(<<f>>)} = {f}
    OBVIOUS
  <2> QED
    BY <2>1, <1>2, <1>4
<1>5. ASSUME NEW f \in Call, NEW g \in Call, Becomes(t, <<f, g>>)
      PROVE  Changes(t, {Top(t)}, {f, g})
  <2>1. <<f, g>> \in Seq(Call) /\ {<<f, g>>[i] : i \in 1..Len(<<f, g>>)} = {f, g}
    <3>1. 1..Len(<<f, g>>) = {1, 2} /\ <<f, g>>[1] = f /\ <<f, g>>[2] = g
      OBVIOUS
    <3> QED
      BY <3>1
  <2> QED
    BY <2>1, <1>2, <1>5
<1> QED
  BY <1>3, <1>4, <1>5

LEMMA PushesChanges ==
  ASSUME Stacks, NEW t \in Thread, NEW f \in Call, Pushes(t, f)
  PROVE  Changes(t, {}, {f})
<1>1. Moves(t, Len(stack[t]), <<f>>)
  BY PushesMoves
<1>2. {<<f>>[i] : i \in 1..Len(<<f>>)} = {f}
  OBVIOUS
<1>3. Calls(t) = {stack[t][k] : k \in 1..Len(stack[t])}
  BY DEF Calls, Stacks
<1> QED
  BY <1>1, <1>2, <1>3, CallsMove DEF Changes

LEMMA RaiseChanges ==
  ASSUME Stacks, NEW t \in Thread, stack' = [stack EXCEPT ![t] = <<>>]
  PROVE  Changes(t, Calls(t), {}) /\ Calls(t)' = {}
BY DEF Changes, Calls, Stacks

LEMMA LiveChanges ==
  ASSUME NEW t \in Thread, NEW old, NEW new, Changes(t, old, new), NEW op
  PROVE  /\ Live(op)' \subseteq Live(op) \cup {f \in new : f.op = op}
         /\ (Live(op) \ old) \cup {f \in new : f.op = op} \subseteq Live(op)'
<1>1. ASSUME NEW f, f.op = op, NEW u \in Thread, f \in Calls(u)'
      PROVE  f \in Live(op) \cup {g \in new : g.op = op}
  BY <1>1 DEF Changes, Live
<1>2. ASSUME NEW f, f.op = op, NEW u \in Thread, f \in Calls(u), f \notin old
      PROVE  f \in Live(op)'
  BY <1>2 DEF Changes, Live
<1>3. ASSUME NEW f \in new, f.op = op
      PROVE  f \in Live(op)'
  BY <1>3 DEF Changes, Live
<1> QED
  BY <1>1, <1>2, <1>3 DEF Live

LEMMA ExclusiveMove ==
  ASSUME Exclusive, NEW t \in Thread, NEW old, NEW new, Changes(t, old, new),
         \A f \in new : Takes(t, f)
  PROVE  Exclusive'
<1> SUFFICES ASSUME NEW u \in Thread, NEW v \in Thread, NEW l \in Child \cup {Parent},
                    Holds(u, l)', Holds(v, l)'
             PROVE  u = v
  BY DEF Exclusive
<1>1. NoLock \notin Child \cup {Parent}
  BY ActorsAssumption DEF NoLock, Parent
<1>2. \A w \in Thread \ {t} : Holds(w, l)' => Holds(w, l)
  BY DEF Changes, Holds
<1>3. Holds(t, l)' => Holds(t, l) \/ CanTake(t, l)
  BY <1>1 DEF Changes, Holds, Takes
<1>4. ASSUME NEW w \in Thread \ {t}, Holds(w, l)', Holds(t, l)'
      PROVE  FALSE
  BY <1>2, <1>3, <1>4 DEF Exclusive, CanTake
<1> QED
  BY <1>2, <1>4 DEF Exclusive

LEMMA ExclusiveStep ==
  ASSUME Frames, Data, Tables, Exclusive, [Next]_vars
  PROVE  Exclusive'
<1>1. CASE stack' = stack
  BY <1>1 DEF Exclusive, Holds, Calls
<1>2. ASSUME NEW t \in Thread, Work(t)
      PROVE  Exclusive'
  <2>1. Goes(t) /\ stack[t] # <<>>
    BY <1>2, WorkGoes DEF Goes
  <2>2. CASE Becomes(t, <<>>)
    <3>1. Changes(t, {Top(t)}, {})
      BY <2>1, <2>2, BecomesChanges DEF Frames
    <3> QED
      BY <3>1, ExclusiveMove
  <2>3. ASSUME NEW f \in Call, GoesOn(t, f)
        PROVE  Exclusive'
    <3>1. Changes(t, {Top(t)}, {f}) /\ Takes(t, f)
      BY <2>1, <2>3, BecomesChanges DEF Frames, GoesOn
    <3> QED
      BY <3>1, ExclusiveMove
  <2>4. ASSUME NEW f \in Call, NEW g \in Call, GoesOnAndCalls(t, f, g)
        PROVE  Exclusive'
    <3>1. Changes(t, {Top(t)}, {f, g}) /\ Takes(t, f) /\ Takes(t, g)
      BY <2>1, <2>4, BecomesChanges DEF Frames, GoesOnAndCalls, Takes
    <3> QED
      BY <3>1, ExclusiveMove
  <2> QED
    BY <2>1, <2>2, <2>3, <2>4 DEF Goes
<1>3. ASSUME NEW t \in Thread, User(t)
      PROVE  Exclusive'
  <2>1. CASE Raise(t)
    BY <2>1, RaiseChanges, ExclusiveMove DEF Raise, Frames
  <2>2. ASSUME NEW f \in Call, Pushes(t, f), f.lock = NoLock
        PROVE  Exclusive'
    <3>1. Changes(t, {}, {f}) /\ Takes(t, f)
      BY <2>2, PushesChanges DEF Frames, Takes
    <3> QED
      BY <3>1, ExclusiveMove
  <2>3. CASE stack' # stack /\ ~Raise(t)
    <3>1. PICK op \in Labels, arg \in Child \cup {None} : Pushes(t, Frame(op, arg))
      BY <1>3, <2>3 DEF User, CallSend, CallStart, CallStop, CallChild, ChildChanges, Spawn,
                        Created, Labels
    <3>2. Frame(op, arg) \in Call /\ Frame(op, arg).lock = NoLock
      BY Calling
    <3> QED
      BY <3>1, <3>2, <2>2
  <2> QED
    BY <1>1, <2>1, <2>3
<1> QED
  BY <1>1, <1>2, <1>3 DEF Next, vars

\* A listener is added to a child that nobody calls yet.
LEMMA StaysUnheard ==
  ASSUME Frames, Data, NEW t \in Thread, Work(t) \/ User(t), NEW u \in Thread,
         At(u, "cnotify"), ~listening[Top(u).arg]
  PROVE  ~listening'[Top(u).arg]
<1>1. Top(u).arg \in Created
  BY TopFormed DEF Formed, OnChild
<1> QED
  BY <1>1, Keeps

LEMMA LockOrderMove ==
  ASSUME Stacks, NEW t \in Thread, NEW n, NEW new, Moves(t, n, new), Len(new) <= 2,
         \A u \in Thread : At(u, "cnotify") /\ ~listening[Top(u).arg] => ~listening'[Top(u).arg],
         LockOrder,
         n = Len(stack[t]) /\ n > 0 /\ Len(new) > 0 /\ stack[t][n].lock \in Child => Guarded(t, n),
         At(t, "cnotify") /\ Len(new) > 0 => listening[Top(t).arg],
         Len(new) = 2 /\ new[1].lock \in Child =>
            (\E j \in 1..n : stack[t][j].lock = Parent)
            \/ (new[2].op = "cnotify" /\ ~listening'[new[2].arg])
  PROVE  LockOrder'
<1>1. /\ n \in Nat /\ Len(new) \in Nat /\ n <= Len(stack[t]) /\ Len(stack[t]) \in Nat
      /\ \A u \in Thread : DOMAIN stack[u] = 1..Len(stack[u])
      /\ DOMAIN stack'[t] = 1..n + Len(new) /\ Len(stack'[t]) = n + Len(new)
      /\ \A k \in DOMAIN stack'[t] :
            \/ k \in 1..n /\ k \in DOMAIN stack[t] /\ stack'[t][k] = stack[t][k]
            \/ \E i \in 1..Len(new) : k = n + i /\ stack'[t][k] = new[i]
      /\ \A i \in 1..Len(new) : n + i \in DOMAIN stack'[t] /\ stack'[t][n + i] = new[i]
  BY Positions
<1>2. /\ \A u \in Thread \ {t} : stack'[u] = stack[u]
      /\ \A k \in 1..n : stack'[t][k] = stack[t][k]
  BY DEF Moves
<1> SUFFICES ASSUME NEW u \in Thread, NEW k \in DOMAIN stack'[u],
                    k # Len(stack'[u]), stack'[u][k].lock \in Child
             PROVE  Guarded(u, k)' \/ (k = Len(stack'[u]) - 1 /\ At(u, "cnotify")'
                                       /\ ~(listening[Top(u).arg])')
  BY DEF LockOrder
<1>3. CASE u # t
  <2>1. stack'[u] = stack[u]
    BY <1>2, <1>3
  <2>2. Guarded(u, k) \/ (k = Len(stack[u]) - 1 /\ At(u, "cnotify") /\ ~listening[Top(u).arg])
    BY <2>1 DEF LockOrder
  <2>3. Guarded(u, k) => Guarded(u, k)'
    BY <2>1 DEF Guarded
  <2>4. (At(u, "cnotify") => At(u, "cnotify")') /\ Top(u)' = Top(u)
    BY <2>1 DEF At, Top
  <2> QED
    BY <2>1, <2>2, <2>3, <2>4
<1>4. CASE u = t /\ k \in 1..n
  <2>1. Guarded(t, k) => Guarded(t, k)'
    <3>1. \A j \in 1..k - 1 : stack'[t][j] = stack[t][j]
      BY <1>1, <1>2, <1>4
    <3> QED
      BY <3>1 DEF Guarded
  <2>2. CASE k = Len(stack[t])
    <3>1. n = Len(stack[t]) /\ n > 0 /\ Len(new) > 0 /\ stack[t][n].lock \in Child
      <4>1. stack'[t][k] = stack[t][k]
        BY <1>2, <1>4
      <4>2. k = n /\ Len(new) # 0
        BY <1>1, <1>4, <2>2
      <4> QED
        BY <4>1, <4>2, <1>1, <1>4, <2>2
    <3> QED
      BY <3>1, <2>1, <2>2, <1>4
  <2>3. CASE k # Len(stack[t])
    <3>1. k \in DOMAIN stack[t] /\ stack[t][k].lock \in Child
      <4>1. stack'[t][k] = stack[t][k]
        BY <1>2, <1>4
      <4> QED
        BY <4>1, <1>1, <1>4
    <3>2. Guarded(t, k) \/ (k = Len(stack[t]) - 1 /\ At(t, "cnotify") /\ ~listening[Top(t).arg])
      BY <3>1, <2>3 DEF LockOrder
    <3>3. CASE k = Len(stack[t]) - 1 /\ At(t, "cnotify") /\ ~listening[Top(t).arg]
      <4>1. Len(new) = 0
        BY <3>3, <1>1
      <4>2. n = Len(stack[t])
        BY <4>1, <3>3, <1>1, <1>4
      <4>3. stack'[t] = stack[t]
        <5>1. stack'[t] \in Seq(Call) /\ stack[t] \in Seq(Call)
          BY DEF Moves, Stacks
        <5>2. Len(stack'[t]) = Len(stack[t])
          BY <4>1, <4>2, <1>1
        <5>3. \A j \in 1..Len(stack'[t]) : stack'[t][j] = stack[t][j]
          BY <5>2, <4>2, <1>2
        <5> QED
          BY <5>1, <5>2, <5>3, SeqEqual
      <4>4. At(t, "cnotify")' /\ Top(t)' = Top(t)
        BY <3>3, <4>3 DEF At, Top
      <4> QED
        BY <3>3, <4>3, <4>4, <1>4
    <3> QED
      BY <3>2, <3>3, <2>1, <1>4
  <2> QED
    BY <2>2, <2>3
<1>5. ASSUME u = t, NEW i \in 1..Len(new), k = n + i, stack'[t][k] = new[i]
      PROVE  Guarded(u, k)' \/ (k = Len(stack'[u]) - 1 /\ At(u, "cnotify")'
                                /\ ~(listening[Top(u).arg])')
  <2>1. i = 1 /\ Len(new) = 2
    <3>1. n + i # n + Len(new)
      BY <1>5, <1>1
    <3>2. n \in Nat /\ Len(new) \in Nat /\ Len(new) <= 2
      BY <1>1
    <3> QED
      BY <3>1, <3>2, FirstOfTwo
  <2>2. CASE \E j \in 1..n : stack[t][j].lock = Parent
    <3>1. PICK j \in 1..n : stack[t][j].lock = Parent
      BY <2>2
    <3>2. j \in 1..k - 1 /\ stack'[t][j] = stack[t][j]
      BY <3>1, <1>1, <1>2, <1>5
    <3> QED
      BY <3>1, <3>2, <1>5 DEF Guarded
  <2>3. CASE new[2].op = "cnotify" /\ ~listening'[new[2].arg]
    <3>1. Len(stack'[t]) = n + 2 /\ stack'[t][n + 2] = new[2] /\ n \in Nat
      BY <2>1, <1>1
    <3>2. stack'[t] # <<>> /\ Top(t)' = new[2]
      BY <3>1 DEF Top
    <3> QED
      BY <2>1, <2>3, <3>1, <3>2, <1>5 DEF At
  <2> QED
    BY <2>1, <2>2, <2>3, <1>5
<1> QED
  BY <1>3, <1>4, <1>5, <1>1

LEMMA LockOrderStep ==
  ASSUME ~SendsUnderChildLock, Frames, Data, Tables, LockOrder, [Next]_vars
  PROVE  LockOrder'
<1>1. CASE stack' = stack /\ listening' = listening
  BY <1>1 DEF LockOrder, Guarded, At, Top
<1>2. ASSUME NEW t \in Thread, Work(t)
      PROVE  LockOrder'
  <2> DEFINE n == Len(stack[t]) - 1
  <2>1. Goes(t) /\ stack[t] # <<>>
    BY <1>2, WorkGoes DEF Goes
  <2>2. \A u \in Thread : At(u, "cnotify") /\ ~listening[Top(u).arg] => ~listening'[Top(u).arg]
    BY <1>2, StaysUnheard
  <2>3. n # Len(stack[t]) /\ Len(stack[t]) = n + 1
    BY <2>1, OnTop DEF Frames
  <2>4. ASSUME NEW new \in Seq(Call), Becomes(t, new), Len(new) <= 2,
               At(t, "cnotify") /\ Len(new) > 0 => listening[Top(t).arg],
               Len(new) = 2 /\ new[1].lock \in Child =>
                  (\E j \in 1..n : stack[t][j].lock = Parent)
                  \/ (new[2].op = "cnotify" /\ ~listening'[new[2].arg])
        PROVE  LockOrder'
    <3>1. Moves(t, n, new)
      BY <2>1, <2>4, BecomesMoves DEF Frames
    <3> HIDE DEF n
    <3> QED
      BY <3>1, <2>2, <2>3, <2>4, LockOrderMove DEF Frames
  <2>5. CASE Becomes(t, <<>>)
    <3>1. <<>> \in Seq(Call) /\ Len(<<>>) <= 2 /\ ~(Len(<<>>) > 0) /\ Len(<<>>) # 2
      OBVIOUS
    <3> QED
      BY <3>1, <2>4, <2>5
  <2>6. ASSUME NEW f \in Call, GoesOn(t, f)
        PROVE  LockOrder'
    <3>1. <<f>> \in Seq(Call) /\ Len(<<f>>) <= 2 /\ Len(<<f>>) # 2
      OBVIOUS
    <3>2. Becomes(t, <<f>>) /\ (At(t, "cnotify") => listening[Top(t).arg])
      BY <2>6 DEF GoesOn
    <3> QED
      BY <3>1, <3>2, <2>4
  <2>7. ASSUME NEW f \in Call, NEW g \in Call, GoesOnAndCalls(t, f, g)
        PROVE  LockOrder'
    <3>1. <<f, g>> \in Seq(Call) /\ Len(<<f, g>>) = 2 /\ <<f, g>>[1] = f /\ <<f, g>>[2] = g
      OBVIOUS
    <3>2. Becomes(t, <<f, g>>) /\ ~At(t, "cnotify")
          /\ (f.lock \in Child => \/ Guarded(t, Len(stack[t]))
                                  \/ g.op = "cnotify" /\ g.arg \in Created /\ ~listening[g.arg])
      BY <2>7 DEF GoesOnAndCalls, At
    <3>3. g.arg \in Created /\ ~listening[g.arg] => ~listening'[g.arg]
      BY <1>2, Keeps
    <3>4. Guarded(t, Len(stack[t])) => \E j \in 1..n : stack[t][j].lock = Parent
      BY DEF Guarded
    <3>5. /\ Len(<<f, g>>) <= 2
          /\ At(t, "cnotify") /\ Len(<<f, g>>) > 0 => listening[Top(t).arg]
          /\ Len(<<f, g>>) = 2 /\ <<f, g>>[1].lock \in Child =>
                (\E j \in 1..n : stack[t][j].lock = Parent)
                \/ (<<f, g>>[2].op = "cnotify" /\ ~listening'[<<f, g>>[2].arg])
      BY <3>1, <3>2, <3>3, <3>4
    <3>6. <<f, g>> \in Seq(Call) /\ Becomes(t, <<f, g>>)
      BY <3>1, <3>2
    <3> HIDE DEF n
    <3> QED
      BY <3>5, <3>6, <2>4
  <2> QED
    BY <2>1, <2>5, <2>6, <2>7 DEF Goes
<1>3. ASSUME NEW t \in Thread, User(t)
      PROVE  LockOrder'
  <2>1. \A u \in Thread : At(u, "cnotify") /\ ~listening[Top(u).arg] => ~listening'[Top(u).arg]
    BY <1>3, StaysUnheard
  <2>2. CASE Raise(t)
    <3>1. Moves(t, 0, <<>>)
      BY <2>2, RaiseMoves DEF Raise, Frames
    <3>2. Len(<<>>) <= 2 /\ ~(Len(<<>>) > 0) /\ Len(<<>>) # 2 /\ ~(0 > 0)
      OBVIOUS
    <3> QED
      BY <3>1, <3>2, <2>1, LockOrderMove DEF Frames
  <2>3. ASSUME NEW f \in Call, Pushes(t, f), stack[t] # <<>> => Top(t).op \in {"act", "run", "cleanup"},
               At(t, "run") \/ At(t, "cleanup") => Holds(t, Parent)
        PROVE  LockOrder'
    <3> DEFINE n == Len(stack[t])
    <3>1. Moves(t, n, <<f>>)
      BY <2>3, PushesMoves DEF Frames
    <3>2. n > 0 /\ stack[t][n].lock \in Child => Guarded(t, n)
      <4>1. SUFFICES ASSUME n > 0, stack[t][n].lock \in Child
                     PROVE  Guarded(t, n)
        OBVIOUS
      <4>2. stack[t] # <<>> /\ Top(t) = stack[t][n] /\ Top(t).op \in Labels
        BY <4>1, <2>3 DEF Top, Labels
      <4>3. Formed(Top(t), Created)
        BY <4>2, TopFormed DEF At
      <4>4. Top(t).op # "act"
        BY <4>1, <4>2, <4>3, ActorsAssumption DEF Formed, NoLock
      <4>5. Holds(t, Parent)
        BY <4>2, <4>4, <2>3 DEF At
      <4>6. PICK j \in DOMAIN stack[t] : stack[t][j].lock = Parent
        BY <4>5 DEF Holds, Calls
      <4>7. j # n /\ DOMAIN stack[t] = 1..n /\ n \in Nat
        BY <4>1, <4>2, <4>6, OnTop, ActorsAssumption DEF Parent, Frames
      <4>8. j \in 1..n - 1
        BY <4>6, <4>7
      <4> QED
        BY <4>6, <4>8 DEF Guarded
    <3>3. Len(<<f>>) <= 2 /\ Len(<<f>>) # 2 /\ ~At(t, "cnotify")
      BY <2>3 DEF At
    <3> HIDE DEF n
    <3> QED
      BY <3>1, <3>2, <3>3, <2>1, LockOrderMove DEF Frames
  <2>4. CASE CallSend(t) \/ CallStart(t) \/ CallStop(t) \/ CallChild(t) \/ ChildChanges(t)
    <3>1. PICK op \in Labels, arg \in Child \cup {None} : Pushes(t, Frame(op, arg))
      BY <2>4 DEF CallSend, CallStart, CallStop, CallChild, ChildChanges, Created, Labels
    <3>2. Frame(op, arg) \in Call
      BY Calling
    <3>3. /\ stack[t] # <<>> => Top(t).op \in {"act", "run", "cleanup"}
          /\ At(t, "run") \/ At(t, "cleanup") => Holds(t, Parent)
      BY <2>4 DEF CallSend, CallStart, CallStop, CallChild, ChildChanges, MaySend, UserCode,
                  ChildCode, At
    <3> QED
      BY <3>1, <3>2, <3>3, <2>3
  <2>5. CASE Spawn(t)
    BY <2>5, <1>1 DEF Spawn
  <2> QED
    BY <1>3, <2>2, <2>4, <2>5 DEF User
<1> QED
  BY <1>1, <1>2, <1>3 DEF Next, vars, child

LEMMA NobodyWaits ==
  ASSUME Frames, Exclusive, LockOrder
  PROVE  NoLockCycle
<1> SUFFICES ASSUME NEW t \in Thread, NEW u \in Thread, t # u, Waits(t, u), Waits(u, t)
             PROVE  FALSE
  BY DEF NoLockCycle
<1>1. ASSUME NEW v \in Thread, Wanted(v) # NoLock
      PROVE  /\ Wanted(v) \in Child \cup {Parent} /\ stack[v] # <<>> /\ Top(v).lock = NoLock
             /\ Top(v).op # "cnotify"
  <2>1. PICK op \in {"send", "start", "stop", "unlink", "sync", "cstart", "cstop"} :
           At(v, op) /\ (Wanted(v) = Parent \/ (op \in {"cstart", "cstop"} /\ Wanted(v) = Top(v).arg))
    BY <1>1 DEF Wanted
  <2>2. stack[v] # <<>> /\ Top(v).op = op /\ Formed(Top(v), Created)
    BY <2>1, TopFormed
  <2> QED
    BY <2>1, <2>2 DEF Formed, OnChild, Passing, Resting, Labels, Created
<1>2. ASSUME NEW v \in Thread, NEW l \in Child \cup {Parent}, Holds(v, l), Wanted(v) # NoLock
      PROVE  Holds(v, Parent)
  <2>1. CASE l = Parent
    BY <2>1, <1>2
  <2>2. CASE l \in Child
    <3>1. PICK k \in DOMAIN stack[v] : stack[v][k].lock = l
      BY <1>2 DEF Holds, Calls
    <3>2. k # Len(stack[v])
      BY <3>1, <2>2, <1>1, <1>2, ActorsAssumption DEF Top, NoLock
    <3>3. Guarded(v, k)
      BY <3>1, <3>2, <2>2, <1>1, <1>2 DEF LockOrder, At
    <3>4. PICK j \in 1..k - 1 : stack[v][j].lock = Parent
      BY <3>3 DEF Guarded
    <3>5. j \in DOMAIN stack[v]
      BY <3>1, <3>4 DEF Frames, Stacks
    <3> QED
      BY <3>4, <3>5 DEF Holds, Calls
  <2> QED
    BY <2>1, <2>2
<1>3. Holds(t, Parent) /\ Holds(u, Parent)
  BY <1>1, <1>2 DEF Waits
<1> QED
  BY <1>3 DEF Exclusive

-----------------------------------------------------------------------------
(* The tables and the children *)

\* The child that the call on top is about.
LEMMA TopChild ==
  ASSUME Frames, Data, NEW t \in Thread, NEW op \in OnChild, At(t, op)
  PROVE  Top(t).arg \in Created /\ Top(t).arg \in Child
BY TopFormed DEF Formed, Created

\* What a new child changes.
LEMMA Creation ==
  ASSUME Data, NEW c \in Fresh, NEW i \in Id, Create(c, i)
  PROVE  /\ c \in Child /\ c \notin Created /\ id[c] = None
         /\ id' \in [Child -> Id \cup {None}] /\ id'[c] = i
         /\ \A d \in Child : d # c => id'[d] = id[d] /\ cst'[d] = cst[d]
         /\ cst' \in [Child -> {"not_started", "running", "stopped"}]
         /\ children' \in [Id -> Child \cup {None}]
         /\ \A j \in Id : j # i => children'[j] = children[j]
         /\ \/ (Stopping \/ ist = "stopped") /\ children' = children /\ cst'[c] = "stopped"
            \/ ~(Stopping \/ ist = "stopped") /\ children'[i] = c /\ cst'[c] = cst[c]
         /\ i # None /\ Created' = Created \cup {c}
<1>1. c \in Child /\ c \notin Created /\ id[c] = None /\ id' = [id EXCEPT ![c] = i] /\ i # None
  BY ActorsAssumption DEF Create, Fresh, Created, Id
<1>2. /\ id' \in [Child -> Id \cup {None}] /\ id'[c] = i
      /\ \A d \in Child : d # c => id'[d] = id[d]
  BY <1>1 DEF Data
<1>3. Created' = Created \cup {c}
  BY <1>1, <1>2 DEF Created
<1>4. CASE Stopping \/ ist = "stopped"
  <2>1. cst' = [cst EXCEPT ![c] = "stopped"] /\ children' = children
    BY <1>4 DEF Create
  <2> QED
    BY <1>1, <1>2, <1>3, <1>4, <2>1 DEF Data
<1>5. CASE ~(Stopping \/ ist = "stopped")
  <2>1. cst' = cst /\ children' = [children EXCEPT ![i] = c]
    BY <1>5 DEF Create
  <2> QED
    BY <1>1, <1>2, <1>3, <1>5, <2>1 DEF Data
<1> QED
  BY <1>4, <1>5

LEMMA DataStep ==
  ASSUME Frames, Data, Tables, [Next]_vars
  PROVE  Data'
<1> USE DEF Data
<1>1. CASE UNCHANGED vars
  BY <1>1 DEF vars, parent, tables, child, counts
<1>2. ASSUME NEW t \in Thread, Work(t)
      PROVE  Data'
  <2> USE DEF parent, tables, child, counts
  <2>1. CASE Send(t) \/ Notify(t) \/ Return(t) \/ StopChild(t) \/ ChildStop(t) \/ Sync(t)
             \/ Resolve(t) \/ EndPass(t)
    BY <2>1 DEF Send, Notify, Return, StopChild, ChildStop, Sync, Resolve, EndPass
  <2>2. CASE InterpreterSend(t)
    <3>1. Top(t).arg \in Child \cup {None}
      BY <2>2, TopFormed DEF InterpreterSend
    <3>2. mail' \in Seq(Child \cup {None})
      <4>1. Append(mail, Top(t).arg) \in Seq(Child \cup {None})
        BY <3>1
      <4> QED
        BY <2>2, <4>1 DEF InterpreterSend
    <3>3. delivered' \in [Child -> Nat]
      <4>1. \A c \in Child : delivered[c] + (IF Top(t).arg = c THEN 1 ELSE 0) \in Nat
        OBVIOUS
      <4>2. CASE ist = "running"
        BY <2>2, <4>1, <4>2 DEF InterpreterSend
      <4>3. CASE ist # "running"
        BY <2>2, <4>3 DEF InterpreterSend
      <4> QED
        BY <4>2, <4>3
    <3>4. ist' = ist /\ sub' = sub /\ conf' = conf /\ children' = children
          /\ invoked' = invoked /\ id' = id /\ cst' = cst /\ snap' = snap
          /\ listening' = listening /\ told' = told
          /\ torn' = torn /\ cut' = cut /\ lost' = lost
          /\ sends' = sends /\ entries' = entries
      BY <2>2 DEF InterpreterSend
    <3> QED
      BY <3>2, <3>3, <3>4
  <2>3. CASE Drain(t)
    <3>1. CASE mail' = Tail(mail) /\ mail # <<>> /\ conf' \in SUBSET InvId
               /\ entries' = entries + Cardinality(conf' \ conf)
      <4>1. Cardinality(conf' \ conf) \in Nat
        <5>1. IsFiniteSet(conf' \ conf)
          BY <3>1, ActorsAssumption, FS_Subset
        <5> QED
          BY <5>1, FS_CardinalityType
      <4>2. entries' \in Nat
        BY <3>1, <4>1
      <4>3. mail' \in Seq(Child \cup {None})
        BY <3>1
      <4> QED
        BY <2>3, <3>1, <4>2, <4>3 DEF Drain
    <3>2. CASE UNCHANGED <<mail, conf, entries>>
      BY <2>3, <3>2 DEF Drain
    <3> QED
      BY <2>3, <3>1, <3>2 DEF Drain
  <2>4. CASE Start(t) \/ Subscribe(t) \/ Stop(t) \/ StopSelf(t) \/ Reconcile(t)
    <3>1. StopSelf(t) => mail' \in Seq(Child \cup {None})
      BY DEF StopSelf
    <3> QED
      BY <2>4, <3>1 DEF Start, Subscribe, Stop, StopSelf, Reconcile
  <2>5. CASE ChildStart(t) \/ ChildStarted(t) \/ ChildNotify(t) \/ ChildStopped(t)
    BY <2>5 DEF ChildStart, ChildStarted, ChildNotify, ChildStopped, Resolves, StaysActive
  <2>6. CASE Unlink(t)
    <3>1. /\ children' = [children EXCEPT ![id[Top(t).arg]] = None]
          /\ lost' = lost \cup ({children[id[Top(t).arg]]} \ {Top(t).arg, None})
      BY <2>6 DEF Unlink
    <3>2. id[Top(t).arg] \in Id
      BY <2>6, TopChild DEF Unlink, OnChild, Created
    <3>3. children' \in [Id -> Child \cup {None}] /\ lost' \subseteq Child
      BY <3>1, <3>2
    <3> QED
      BY <2>6, <3>3 DEF Unlink
  <2>7. CASE LeaveInvocation(t)
    BY <2>7 DEF LeaveInvocation
  <2>8. CASE EnterInvocation(t)
    <3>1. Top(t).ids \subseteq InvId
      BY <2>8, TopFormed DEF EnterInvocation, Formed
    <3>2. PICK i \in Top(t).ids, c \in Fresh :
             /\ Create(c, i) /\ invoked' = [invoked EXCEPT ![i] = c]
             /\ listening' = [listening EXCEPT ![c] = TRUE]
      BY <2>8 DEF EnterInvocation
    <3>3. i \in Id /\ i \in InvId
      BY <3>1, <3>2 DEF Id
    <3>4. id' \in [Child -> Id \cup {None}] /\ children' \in [Id -> Child \cup {None}]
          /\ cst' \in [Child -> {"not_started", "running", "stopped"}] /\ c \in Child
      BY <3>2, <3>3, Creation
    <3> QED
      BY <2>8, <3>2, <3>3, <3>4 DEF EnterInvocation
  <2> QED
    BY <1>2, <2>1, <2>2, <2>3, <2>4, <2>5, <2>6, <2>7, <2>8 DEF Work
<1>3. ASSUME NEW t \in Thread, User(t)
      PROVE  Data'
  <2> USE DEF parent, tables, child, counts
  <2>1. CASE CallSend(t) \/ CallStart(t) \/ CallStop(t) \/ CallChild(t)
    BY <2>1, ActorsAssumption DEF CallSend, CallStart, CallStop, CallChild
  <2>2. CASE ChildChanges(t)
    BY <2>2 DEF ChildChanges, Settles, Emits
  <2>3. CASE Spawn(t)
    <3>1. PICK i \in SpawnId, c \in Fresh : Create(c, i)
      BY <2>3 DEF Spawn
    <3>2. i \in Id
      BY DEF Id
    <3>3. id' \in [Child -> Id \cup {None}] /\ children' \in [Id -> Child \cup {None}]
          /\ cst' \in [Child -> {"not_started", "running", "stopped"}]
      BY <3>1, <3>2, Creation
    <3> QED
      BY <2>3, <3>3 DEF Spawn
  <2>4. CASE Raise(t)
    <3>1. cut' \subseteq Child
      <4>1. \A k \in DOMAIN stack[t] : stack[t][k].op = "cleanup" => stack[t][k].arg \in Child
        BY DEF Frames, Formation, Formed, OnChild, Created
      <4> QED
        BY <2>4, <4>1 DEF Raise, Calls
    <3>2. mail' \in Seq(Child \cup {None})
      BY <2>4 DEF Raise
    <3> QED
      BY <2>4, <3>1, <3>2 DEF Raise
  <2> QED
    BY <1>3, <2>1, <2>2, <2>3, <2>4 DEF User
<1> QED
  BY <1>1, <1>2, <1>3 DEF Next

LEMMA TablesStep ==
  ASSUME Frames, Data, Tables, [Next]_vars
  PROVE  Tables'
<1>1. CASE id' = id /\ (\A c \in Child : listening'[c] => listening[c])
           /\ (\A i \in Id : children'[i] \in {children[i], None})
           /\ (\A i \in InvId : invoked'[i] \in {invoked[i], None})
  BY <1>1 DEF Tables, Created, Data
<1>2. ASSUME NEW c \in Fresh, NEW i \in Id, Create(c, i),
             \/ invoked' = invoked /\ listening' = listening
             \/ /\ i \in InvId
                /\ invoked' = [invoked EXCEPT ![i] = c]
                /\ listening' = [listening EXCEPT ![c] = TRUE]
      PROVE  Tables'
  <2>1. /\ c \in Child /\ id[c] = None /\ id' = [id EXCEPT ![c] = i] /\ id'[c] = i
        /\ \A d \in Child : d # c => id'[d] = id[d]
        /\ None \notin Id /\ InvId \subseteq Id
        /\ \A j \in Id : children'[j] = children[j] \/ (j = i /\ children'[j] = c)
    <3>1. id' = [id EXCEPT ![c] = i]
      BY <1>2 DEF Create
    <3> QED
      BY <1>2, <3>1, InTables, Creation
  <2>2. \A j \in Id : children'[j] # None => id'[children'[j]] = j
    BY <2>1 DEF Tables, Data
  <2>3. \A j \in InvId : invoked'[j] # None => id'[invoked'[j]] = j
    BY <1>2, <2>1 DEF Tables, Data
  <2>4. \A d \in Child : listening'[d] => id'[d] \in InvId
    BY <1>2, <2>1 DEF Tables, Data
  <2> QED
    BY <2>2, <2>3, <2>4 DEF Tables
<1>3. ASSUME NEW t \in Thread, Spawn(t)
      PROVE  Tables'
  <2>1. PICK i \in SpawnId, c \in Fresh : Create(c, i)
    BY <1>3 DEF Spawn
  <2> QED
    BY <1>3, <2>1, <1>2 DEF Spawn, Id
<1>4. ASSUME NEW t \in Thread, EnterInvocation(t)
      PROVE  Tables'
  <2>1. Top(t).ids \subseteq InvId
    BY <1>4, TopFormed DEF EnterInvocation, Formed
  <2>2. PICK i \in Top(t).ids, c \in Fresh :
           /\ Create(c, i) /\ invoked' = [invoked EXCEPT ![i] = c]
           /\ listening' = [listening EXCEPT ![c] = TRUE]
    BY <1>4 DEF EnterInvocation
  <2>3. i \in Id /\ i \in InvId
    BY <2>1, <2>2, ActorsAssumption DEF Id
  <2> QED
    BY <2>2, <2>3, <1>2
<1>5. ASSUME NEW t \in Thread, Work(t) \/ User(t), ~Spawn(t), ~EnterInvocation(t)
      PROVE  Tables'
  <2> USE DEF tables, child, Data
  <2>1. CASE ChildStopped(t) \/ LeaveInvocation(t) \/ StopSelf(t) \/ Unlink(t)
    BY <2>1, <1>1, InTables DEF ChildStopped, LeaveInvocation, StopSelf, Unlink, Id
  <2>2. CASE ~(ChildStopped(t) \/ LeaveInvocation(t) \/ StopSelf(t) \/ Unlink(t))
    <3>1. id' = id /\ listening' = listening /\ children' = children /\ invoked' = invoked
      BY <1>5, <2>2 DEF Work, User, Send, InterpreterSend, Drain, Notify, Start, Subscribe, Return,
            Stop, StopChild, ChildStart, ChildStarted, ChildNotify, ChildStop,
            Sync, Reconcile, Resolve, EndPass,
            CallSend, CallStart, CallStop, CallChild, ChildChanges, Raise
    <3> QED
      BY <3>1, <1>1
  <2> QED
    BY <2>1, <2>2
<1>6. CASE UNCHANGED vars
  BY <1>6, <1>1 DEF vars, tables, child
<1> QED
  BY <1>3, <1>4, <1>5, <1>6 DEF Next

LEMMA UntouchedStep ==
  ASSUME Frames, Data, Tables, Untouched, [Next]_vars
  PROVE  Untouched'
<1> SUFFICES ASSUME NEW c \in Child, id'[c] = None
             PROVE  /\ cst'[c] = "not_started" /\ snap'[c] = "active"
                    /\ ~listening'[c] /\ ~told'[c] /\ delivered'[c] = 0 /\ c \notin cut'
  BY DEF Untouched
<1> USE DEF Data, child, counts
<1>1. CASE UNCHANGED vars
  BY <1>1 DEF vars, Untouched
<1>2. ASSUME NEW t \in Thread, Work(t) \/ User(t)
      PROVE  id[c] = None /\ c \notin Created /\ cst[c] = "not_started" /\ snap[c] = "active"
             /\ ~listening[c] /\ ~told[c] /\ delivered[c] = 0 /\ c \notin cut
  BY <1>2, Keeps DEF Untouched, Keeping, Created
<1>3. ASSUME NEW t \in Thread, Work(t)
      PROVE  /\ cst'[c] = "not_started" /\ snap'[c] = "active"
             /\ ~listening'[c] /\ ~told'[c] /\ delivered'[c] = 0 /\ c \notin cut'
  <2>1. id[c] = None /\ c \notin Created /\ cst[c] = "not_started" /\ snap[c] = "active"
        /\ ~listening[c] /\ ~told[c] /\ delivered[c] = 0 /\ c \notin cut
    BY <1>2, <1>3
  <2>2. CASE InterpreterSend(t)
    <3>1. Top(t).arg # c
      BY <2>1, <2>2, TopFormed, ActorsAssumption DEF InterpreterSend, Formed
    <3>2. delivered'[c] = 0
      <4>1. CASE ist = "running"
        BY <2>1, <2>2, <3>1, <4>1 DEF InterpreterSend
      <4>2. CASE ist # "running"
        BY <2>1, <2>2, <4>2 DEF InterpreterSend
      <4> QED
        BY <4>1, <4>2
    <3> QED
      BY <2>1, <2>2, <3>2 DEF InterpreterSend
  <2>3. CASE ChildStart(t) \/ ChildStarted(t) \/ ChildNotify(t) \/ ChildStopped(t)
    <3>1. Top(t).arg # c
      BY <2>1, <2>3, TopChild DEF ChildStart, ChildStarted, ChildNotify, ChildStopped, OnChild
    <3> QED
      BY <2>1, <2>3, <3>1 DEF ChildStart, ChildStarted, ChildNotify, ChildStopped,
                              Resolves, StaysActive
  <2>4. CASE EnterInvocation(t)
    <3>1. PICK i \in Top(t).ids, d \in Fresh :
             Create(d, i) /\ listening' = [listening EXCEPT ![d] = TRUE]
      BY <2>4 DEF EnterInvocation
    <3>2. i # None
      <4>1. Top(t).ids \subseteq InvId
        BY <2>4, TopFormed DEF EnterInvocation, Formed
      <4> QED
        BY <4>1, ActorsAssumption
    <3>3. d # c
      BY <3>1, <3>2 DEF Create, Fresh
    <3>4. cst'[c] = cst[c] /\ listening'[c] = listening[c]
      BY <3>1, <3>3 DEF Create
    <3> QED
      BY <2>1, <2>4, <3>4 DEF EnterInvocation
  <2>5. CASE ~(InterpreterSend(t) \/ ChildStart(t) \/ ChildStarted(t) \/ ChildNotify(t)
               \/ ChildStopped(t) \/ EnterInvocation(t))
    <3>1. cst' = cst /\ snap' = snap /\ listening' = listening /\ told' = told
          /\ delivered' = delivered /\ cut' = cut
      BY <1>3, <2>5 DEF Work, Send, Drain, Notify, Start, Subscribe, Return, Stop, StopChild,
             StopSelf, ChildStop, Unlink, Sync, Reconcile, LeaveInvocation, Resolve, EndPass
    <3> QED
      BY <2>1, <3>1
  <2> QED
    BY <2>2, <2>3, <2>4, <2>5
<1>4. ASSUME NEW t \in Thread, User(t)
      PROVE  /\ cst'[c] = "not_started" /\ snap'[c] = "active"
             /\ ~listening'[c] /\ ~told'[c] /\ delivered'[c] = 0 /\ c \notin cut'
  <2>1. id[c] = None /\ c \notin Created /\ cst[c] = "not_started" /\ snap[c] = "active"
        /\ ~listening[c] /\ ~told[c] /\ delivered[c] = 0 /\ c \notin cut
    BY <1>2, <1>4
  <2>2. CASE ChildChanges(t)
    BY <2>1, <2>2 DEF ChildChanges, Settles, Emits
  <2>3. CASE Spawn(t)
    <3>1. PICK i \in SpawnId, d \in Fresh : Create(d, i)
      BY <2>3 DEF Spawn
    <3>2. d # c
      BY <3>1, ActorsAssumption DEF Create, Fresh
    <3>3. cst'[c] = cst[c]
      BY <3>1, <3>2 DEF Create
    <3> QED
      BY <2>1, <2>3, <3>3 DEF Spawn
  <2>4. CASE Raise(t)
    <3>1. \A k \in DOMAIN stack[t] : stack[t][k].op = "cleanup" => stack[t][k].arg # c
      BY <2>1 DEF Frames, Formation, Formed, OnChild
    <3> QED
      BY <2>1, <2>4, <3>1 DEF Raise, Calls
  <2>5. CASE CallSend(t) \/ CallStart(t) \/ CallStop(t) \/ CallChild(t)
    BY <2>1, <2>5 DEF CallSend, CallStart, CallStop, CallChild
  <2> QED
    BY <1>4, <2>2, <2>3, <2>4, <2>5 DEF User
<1> QED
  BY <1>1, <1>3, <1>4 DEF Next

-----------------------------------------------------------------------------
(* The theorems on types and locks *)

Sound == Frames /\ Data /\ Tables /\ Untouched /\ Exclusive

LEMMA SoundInit == Init => Sound
<1> SUFFICES ASSUME Init
             PROVE  Sound
  OBVIOUS
<1> USE DEF Init
<1>1. \A t \in Thread : stack[t] = <<>> /\ Calls(t) = {}
  BY DEF Calls
<1>2. Frames
  <2>1. Stacks
    BY DEF Stacks
  <2> QED
    BY <1>1, <2>1 DEF Frames, Formation, Order, InvokedUnderParent, StopUndisturbed, PassRecords
<1>3. Data
  <2>1. Cardinality(conf) \in Nat
    <3>1. IsFiniteSet(conf)
      BY ActorsAssumption, FS_Subset
    <3> QED
      BY <3>1, FS_CardinalityType
  <2>2. entries \in Nat /\ sends \in 0..MaxSends
    BY <2>1, ActorsAssumption
  <2>3. mail \in Seq(Child \cup {None})
    OBVIOUS
  <2> QED
    BY <2>2, <2>3 DEF Data
<1>4. Tables /\ Untouched
  BY DEF Tables, Untouched, Created, Id
<1>5. Exclusive
  BY <1>1 DEF Exclusive, Holds
<1> QED
  BY <1>2, <1>3, <1>4, <1>5 DEF Sound

LEMMA SoundStep == Sound /\ [Next]_vars => Sound'
BY FramesStep, DataStep, TablesStep, UntouchedStep, ExclusiveStep DEF Sound

LEMMA SoundAlways == Spec => []Sound
BY SoundInit, SoundStep, PTL DEF Spec

\* Every reachable state is well-typed: the calls on a child name one, the
\* tables hold children, the counters stay within their bounds.
THEOREM ActorTypes == Spec => []TypeOK
<1>1. Sound => TypeOK
  <2> SUFFICES ASSUME Sound
               PROVE  TypeOK
    OBVIOUS
  <2>1. \A t \in Thread : stack[t] \in Seq(Call)
    BY DEF Sound, Frames, Stacks
  <2>2. \A t \in Thread : \A f \in Calls(t) : f.op \in OnChild => f.arg \in Child
    BY DEF Sound, Frames, Formation, Formed, Calls, Created
  <2> QED
    BY <2>1, <2>2 DEF Sound, Data, TypeOK, Call
<1> QED
  BY <1>1, SoundAlways, PTL

\* No two threads hold one lock: what the reentrant locks of actor.py promise,
\* and what every argument about a call that holds one rests on.
THEOREM LocksExclude == Spec => []Exclusive
<1>1. Sound => Exclusive
  BY DEF Sound
<1> QED
  BY <1>1, SoundAlways, PTL

\* Where the code of children sends to the parent only with the parent's lock,
\* no two threads wait for each other: a thread takes the lock of the parent
\* before that of a child, or after it has given that one back.
THEOREM NoDeadlyEmbrace ==
  ASSUME ~SendsUnderChildLock
  PROVE  Spec => []NoLockCycle
<1>1. Init => LockOrder
  BY DEF Init, LockOrder
<1>2. Sound /\ LockOrder /\ [Next]_vars => LockOrder'
  BY LockOrderStep DEF Sound
<1>3. Sound /\ LockOrder => NoLockCycle
  BY NobodyWaits DEF Sound
<1> QED
  BY <1>1, <1>2, <1>3, SoundAlways, PTL DEF Spec

=============================================================================
