-------------------------- MODULE StatechartProofs --------------------------
(***************************************************************************)
(* What the algorithm of Statechart keeps on every chart: the transitions  *)
(* taken together never conflict, and, on well-formed charts, every        *)
(* configuration is a legal tree, history can be restored, no active state *)
(* is entered, done events are raised on completion and only once, and a   *)
(* checkpoint of Persistence restores what it was made of.                 *)
(*                                                                         *)
(* FullTrees(d) are the complete configurations of d and of what is below  *)
(* it.  A microstep removes all that is active below the domain d of a     *)
(* transition.  Adding the descendants of its targets enters branches of   *)
(* one full tree (Landings, Branches); adding their ancestors completes    *)
(* the regions beside them, so that all of it is a piece that fits below d *)
(* (Pieces, PieceBuilt, TargetsEntered, TransitionEnters).                 *)
(* What history remembers is branches of a full tree as well (Remembers).  *)
(* LegalInv puts this together, of machines that restart too: a restored   *)
(* configuration is complete but for the root (Complete), which no state   *)
(* value names.                                                            *)
(***************************************************************************)
EXTENDS Persistence, FiniteSetTheorems, WellFoundedInduction, TLAPS

-----------------------------------------------------------------------------
(* Finite sets and folds *)

\* A set of numbers that is not empty has a least one.
LEMMA LeastNumber ==
    ASSUME NEW S, S \subseteq Nat, S # {}
    PROVE  \E k \in S : \A j \in S : k <= j
<1>1. PICK k \in S : \A j \in S : <<j, k>> \notin OpToRel(<, Nat)
  BY NatLessThanWellFounded, WFMin
<1>2. \A j \in S : ~(j < k)
  BY <1>1 DEF OpToRel
<1> QED
  BY <1>2

\* Of finitely many members one has the greatest key.
LEMMA HasLast ==
    ASSUME NEW S, IsFiniteSet(S), S # {}, NEW key, \A x \in S : key[x] \in Int
    PROVE  \E x \in S : \A y \in S : key[y] <= key[x]
<1> DEFINE Bad == {k \in Nat : \E T \in SUBSET S :
                      /\ T # {} /\ Cardinality(T) = k
                      /\ \A x \in T : \E y \in T : ~(key[y] <= key[x])}
<1>1. SUFFICES ASSUME Bad # {} PROVE FALSE
  <2>1. Cardinality(S) \in Nat
    BY FS_CardinalityType
  <2> QED
    BY <2>1
<1>2. PICK k \in Bad : \A j \in Bad : k <= j
  BY <1>1, LeastNumber
<1>3. PICK T \in SUBSET S : /\ T # {} /\ Cardinality(T) = k
                            /\ \A x \in T : \E y \in T : ~(key[y] <= key[x])
  OBVIOUS
<1>4. PICK x \in T : TRUE
  BY <1>3
<1>5. IsFiniteSet(T)
  BY FS_Subset
<1>6. /\ IsFiniteSet(T \ {x}) /\ Cardinality(T \ {x}) = k - 1
  BY <1>3, <1>4, <1>5, FS_RemoveElement
<1>7. T \ {x} # {}
  BY <1>3, <1>4
<1>8. Cardinality(T \ {x}) \in Nat /\ k \in Nat
  BY <1>6, FS_CardinalityType
<1>9. k - 1 \notin Bad
  BY <1>2, <1>8
<1>10. PICK z \in T \ {x} : \A y \in T \ {x} : key[y] <= key[z]
  BY <1>6, <1>7, <1>8, <1>9
<1>11. key[x] \in Int /\ key[z] \in Int
  BY <1>4, <1>10
<1>12. CASE key[x] <= key[z]
  BY <1>3, <1>10, <1>12
<1>13. CASE ~(key[x] <= key[z])
  <2>1. \A y \in T : key[y] <= key[x]
    BY <1>10, <1>11, <1>13
  <2> QED
    BY <2>1, <1>3, <1>4
<1> QED
  BY <1>12, <1>13

\* The member of S with the greatest key: the last one that a fold applies.
Latest(key, S) == CHOOSE x \in S : \A y \in S : key[y] <= key[x]

LEMMA LatestIs ==
    ASSUME NEW S, IsFiniteSet(S), NEW key, \A x \in S : key[x] \in Int,
           NEW T \in SUBSET S, T # {}
    PROVE  /\ Latest(key, T) \in T
           /\ \A y \in T : key[y] <= key[Latest(key, T)]
           /\ IsFiniteSet(T) /\ IsFiniteSet(T \ {Latest(key, T)})
           /\ Cardinality(T) \in Nat \ {0}
           /\ Cardinality(T \ {Latest(key, T)}) = Cardinality(T) - 1
<1>1. IsFiniteSet(T)
  BY FS_Subset
<1>2. \E x \in T : \A y \in T : key[y] <= key[x]
  BY <1>1, HasLast
<1>3. /\ Latest(key, T) \in T
      /\ \A y \in T : key[y] <= key[Latest(key, T)]
  BY <1>2 DEF Latest
<1>4. Cardinality(T) \in Nat /\ Cardinality(T) # 0
  BY <1>1, FS_CardinalityType, FS_EmptySet
<1> QED
  BY <1>1, <1>3, <1>4, FS_RemoveElement

\* What a fold makes of T, when f says what it makes of less.
FoldStep(f, T, key, step, base) ==
    IF T = {} THEN base ELSE step[Latest(key, T)][f[T \ {Latest(key, T)}]]

FoldUpTo(f, k, S, key, step, base) ==
    /\ f = [T \in SUBSET S |-> f[T]]
    /\ \A T \in SUBSET S : Cardinality(T) <= k => f[T] = FoldStep(f, T, key, step, base)

\* The recursion of a fold over a finite set has a solution.
LEMMA FoldExists ==
    ASSUME NEW S, IsFiniteSet(S), NEW key, \A x \in S : key[x] \in Int, NEW step, NEW base
    PROVE  \E f : f = [T \in SUBSET S |-> FoldStep(f, T, key, step, base)]
<1>6. \A T \in SUBSET S : T # {} =>
           /\ Cardinality(T) \in Nat \ {0}
           /\ Cardinality(T \ {Latest(key, T)}) = Cardinality(T) - 1
  BY LatestIs
<1> DEFINE Bad == {k \in Nat : ~\E f : FoldUpTo(f, k, S, key, step, base)}
<1>1. Bad = {}
  <2>1. SUFFICES ASSUME Bad # {} PROVE FALSE
    OBVIOUS
  <2>2. PICK k \in Bad : \A j \in Bad : k <= j
    BY <2>1, LeastNumber
  <2>a. k \in Nat /\ ~\E f : FoldUpTo(f, k, S, key, step, base)
    OBVIOUS
  <2>b. \A j \in Nat : j < k => \E f : FoldUpTo(f, j, S, key, step, base)
    BY <2>2
  <2> HIDE DEF Bad
  <2>3. CASE k = 0
    <3> DEFINE f == [T \in SUBSET S |-> base]
    <3>1. ASSUME NEW T \in SUBSET S, Cardinality(T) <= 0
          PROVE  f[T] = FoldStep(f, T, key, step, base)
      <4>1. T # {} => Cardinality(T) \in Nat \ {0}
        BY LatestIs
      <4>2. T = {}
        BY <4>1, <3>1
      <4> QED
        BY <4>2 DEF FoldStep
    <3>2. FoldUpTo(f, k, S, key, step, base)
      BY <3>1, <2>3 DEF FoldUpTo
    <3> QED
      BY <3>2, <2>a
  <2>4. CASE k # 0
    <3>1. k - 1 \in Nat /\ k - 1 < k
      BY <2>a, <2>4
    <3>2. PICK g : FoldUpTo(g, k - 1, S, key, step, base)
      BY <3>1, <2>b
    <3> DEFINE f == [T \in SUBSET S |->
                        IF Cardinality(T) = k THEN FoldStep(g, T, key, step, base) ELSE g[T]]
    <3>3. ASSUME NEW T \in SUBSET S, Cardinality(T) <= k
          PROVE  f[T] = FoldStep(f, T, key, step, base)
      <4>1. CASE T = {}
        <5>1. Cardinality(T) = 0
          BY <4>1, FS_EmptySet
        <5>0. Cardinality(T) <= k - 1
          BY <5>1, <3>1
        <5>2. g[T] = FoldStep(g, T, key, step, base)
          BY <5>0, <3>2 DEF FoldUpTo
        <5>3. f[T] = g[T]
          BY <5>1, <2>4
        <5> QED
          BY <5>2, <5>3, <4>1 DEF FoldStep
      <4>2. CASE T # {}
        <5> DEFINE R == T \ {Latest(key, T)}
        <5>1. Cardinality(T) \in Nat \ {0} /\ Cardinality(R) = Cardinality(T) - 1
          BY <4>2, <1>6
        <5>2. R \in SUBSET S
          OBVIOUS
        <5>3. f[R] = g[R]
          BY <5>1, <5>2, <3>3, <2>a
        <5>4. FoldStep(f, T, key, step, base) = FoldStep(g, T, key, step, base)
          BY <5>3 DEF FoldStep
        <5>5. CASE Cardinality(T) = k
          BY <5>4, <5>5
        <5>6. CASE Cardinality(T) # k
          <6>1. Cardinality(T) <= k - 1
            BY <5>1, <5>6, <3>3, <2>a
          <6>2. g[T] = FoldStep(g, T, key, step, base)
            BY <6>1, <3>2 DEF FoldUpTo
          <6> QED
            BY <6>2, <5>4, <5>6
        <5> QED
          BY <5>5, <5>6
      <4> QED
        BY <4>1, <4>2
    <3>4. FoldUpTo(f, k, S, key, step, base)
      BY <3>3 DEF FoldUpTo
    <3> QED
      BY <3>4, <2>a
  <2> QED
    BY <2>3, <2>4
<1>2. Cardinality(S) \in Nat
  BY FS_CardinalityType
<1>3. PICK f : FoldUpTo(f, Cardinality(S), S, key, step, base)
  BY <1>1, <1>2
<1>4. \A T \in SUBSET S : Cardinality(T) <= Cardinality(S)
  BY FS_Subset
<1>5. f = [T \in SUBSET S |-> FoldStep(f, T, key, step, base)]
  BY <1>3, <1>4 DEF FoldUpTo
<1> QED
  BY <1>5

\* A relation between the members that were applied and what they made holds of
\* all members and the result of the fold, if each step keeps it.
LEMMA InOrderKeeps ==
    ASSUME NEW S, IsFiniteSet(S), NEW key, \A x \in S : key[x] \in Int,
           NEW step, DOMAIN step = S, NEW base, NEW Rel,
           <<{}, base>> \in Rel,
           ASSUME NEW T \in SUBSET S, NEW x \in S \ T, NEW a, <<T, a>> \in Rel,
                  \A y \in T : key[y] <= key[x]
           PROVE  <<T \cup {x}, step[x][a]>> \in Rel
    PROVE  <<S, InOrder(key, step, base)>> \in Rel
<1> DEFINE iter == CHOOSE f : f = [T \in SUBSET S |-> FoldStep(f, T, key, step, base)]
           Bad == {k \in Nat : \E T \in SUBSET S : Cardinality(T) = k /\ <<T, iter[T]>> \notin Rel}
<1>1. iter = [T \in SUBSET S |-> FoldStep(iter, T, key, step, base)]
  BY FoldExists
<1>2. InOrder(key, step, base) = iter[S]
  BY DEF InOrder, MapThenFoldSet, FoldStep, Latest
<1> HIDE DEF iter
<1>3. Bad = {}
  <2>1. SUFFICES ASSUME Bad # {} PROVE FALSE
    OBVIOUS
  <2>2. PICK k \in Bad : \A j \in Bad : k <= j
    BY <2>1, LeastNumber
  <2>3. PICK T \in SUBSET S : Cardinality(T) = k /\ <<T, iter[T]>> \notin Rel
    OBVIOUS
  <2>4. T # {}
    BY <2>3, <1>1 DEF FoldStep
  <2> DEFINE x == Latest(key, T)
             R == T \ {x}
  <2>5. /\ x \in T /\ \A y \in T : key[y] <= key[x]
        /\ Cardinality(T) \in Nat \ {0} /\ Cardinality(R) = Cardinality(T) - 1
    BY <2>4, LatestIs
  <2>6. <<R, iter[R]>> \in Rel
    <3>1. Cardinality(R) \in Nat /\ Cardinality(R) < k /\ R \in SUBSET S
      BY <2>3, <2>5
    <3>2. ~(k <= Cardinality(R)) /\ \A j \in Bad : k <= j
      BY <3>1, <2>2
    <3> HIDE DEF Bad
    <3>3. Cardinality(R) \notin Bad
      BY <3>2
    <3> QED
      BY <3>1, <3>3 DEF Bad
  <2>7. iter[T] = step[x][iter[R]]
    BY <2>4, <1>1 DEF FoldStep
  <2>8. <<R \cup {x}, step[x][iter[R]]>> \in Rel
    BY <2>5, <2>6
  <2>9. R \cup {x} = T
    BY <2>5
  <2> QED
    BY <2>3, <2>7, <2>8, <2>9
<1>4. Cardinality(S) \in Nat
  BY FS_CardinalityType
<1> QED
  BY <1>2, <1>3, <1>4

\* A fold whose members each work in a zone of their own: what is in a zone in
\* the end is what its member made of it, and nothing is removed.
ZonedFold(S, key, step, U, base, Zone, Good) ==
    /\ IsFiniteSet(S) /\ DOMAIN step = S /\ base \in SUBSET U
    /\ \A x \in S : key[x] \in Int
    /\ \A x \in S : Zone[x] \subseteq U
    /\ \A x, y \in S : x # y => Zone[x] \cap Zone[y] = {}
    /\ \A x \in S : \A a \in SUBSET U : a \cap Zone[x] = base \cap Zone[x] =>
           /\ a \subseteq step[x][a] /\ step[x][a] \subseteq a \cup Zone[x]
           /\ step[x][a] \cap Zone[x] \in Good[x]

LEMMA InOrderZones ==
    ASSUME NEW S, NEW key, NEW step, NEW U, NEW base, NEW Zone, NEW Good,
           ZonedFold(S, key, step, U, base, Zone, Good)
    PROVE  LET r == InOrder(key, step, base) IN
           /\ r \in SUBSET U /\ base \subseteq r
           /\ \A z \in r : z \in base \/ \E x \in S : z \in Zone[x]
           /\ \A x \in S : r \cap Zone[x] \in Good[x]
<1> DEFINE Sound(T, a) ==
               /\ base \subseteq a
               /\ \A z \in a : z \in base \/ \E x \in T : z \in Zone[x]
               /\ \A x \in T : a \cap Zone[x] \in Good[x]
           Rel == {q \in (SUBSET S) \X (SUBSET U) : Sound(q[1], q[2])}
<1> USE DEF ZonedFold
<1>1. <<{}, base>> \in Rel
  OBVIOUS
<1>2. ASSUME NEW T \in SUBSET S, NEW x \in S \ T, NEW a, <<T, a>> \in Rel,
             \A y \in T : key[y] <= key[x]
      PROVE  <<T \cup {x}, step[x][a]>> \in Rel
  <2>1. a \in SUBSET U /\ Sound(T, a)
    BY <1>2
  <2>2. a \cap Zone[x] = base \cap Zone[x]
    BY <2>1
  <2> DEFINE b == step[x][a]
  <2>3. /\ a \subseteq b /\ b \subseteq a \cup Zone[x] /\ b \cap Zone[x] \in Good[x]
    BY <2>1, <2>2
  <2> HIDE DEF b
  <2>4. b \in SUBSET U
    BY <2>1, <2>3
  <2>5. \A y \in T : b \cap Zone[y] = a \cap Zone[y]
    BY <2>3
  <2>6. base \subseteq b
    BY <2>1, <2>3
  <2>7. \A z \in b : z \in base \/ \E y \in T \cup {x} : z \in Zone[y]
    BY <2>1, <2>3
  <2>8. \A y \in T \cup {x} : b \cap Zone[y] \in Good[y]
    BY <2>1, <2>3, <2>5
  <2>9. Sound(T \cup {x}, b)
    BY <2>6, <2>7, <2>8
  <2>10. T \cup {x} \in SUBSET S
    OBVIOUS
  <2> HIDE DEF Sound
  <2> QED
    BY <2>4, <2>9, <2>10 DEF b
<1>3. <<S, InOrder(key, step, base)>> \in Rel
  <2> HIDE DEF Rel
  <2> QED
    BY <1>1, <1>2, InOrderKeeps
<1> QED
  BY <1>3

-----------------------------------------------------------------------------
(* The tree *)

\* The document numbers the nodes.
LEMMA NodesNumbered ==
    /\ Root \in Node /\ IsFiniteSet(Node) /\ NoNode \notin Node /\ History \subseteq Node
    /\ \A n \in Node : Order[n] \in Nat /\ Order[n] <= Len(Doc)
    /\ \A m, n \in Node : Order[m] = Order[n] => m = n
    /\ Len(Doc) \in Nat
<1>1. Doc \in Seq(Node) /\ Doc # <<>> /\ IsInjective(Doc) /\ NoNode \notin Node
  BY TreeAssumption
<1>2. Len(Doc) \in Nat \ {0} /\ DOMAIN Doc = 1..Len(Doc)
  BY <1>1
<1>3. \A n \in Node : Order[n] \in DOMAIN Doc /\ Doc[Order[n]] = n
  BY DEF Order, Node, ToSet
<1>4. Root \in Node
  BY <1>2 DEF Root, Node, ToSet
<1>5. Doc \in Surjection(1..Len(Doc), Node)
  BY <1>1, <1>2 DEF Surjection, Node, ToSet
<1>6. IsFiniteSet(Node)
  BY <1>2, <1>5, FS_Surjection, FS_Interval
<1>7. History \subseteq Node
  BY DEF History
<1> QED
  BY <1>1, <1>2, <1>3, <1>4, <1>6, <1>7

LEMMA ParentIs ==
    ASSUME NEW n \in Node, n # Root
    PROVE  Parent[n] \in Node /\ Order[Parent[n]] < Order[n]
BY TreeAssumption

\* From the root down.
LEMMA TreeInduction ==
    ASSUME NEW S, Root \in S, \A n \in Node \ {Root} : Parent[n] \in S => n \in S
    PROVE  Node \subseteq S
<1> DEFINE Bad == {k \in Nat : \E n \in Node : Order[n] = k /\ n \notin S}
<1>1. SUFFICES ASSUME Bad # {} PROVE FALSE
  BY NodesNumbered
<1>2. PICK k \in Bad : \A j \in Bad : k <= j
  BY <1>1, LeastNumber
<1>3. PICK n \in Node : Order[n] = k /\ n \notin S
  OBVIOUS
<1>4. Parent[n] \in Node /\ Order[Parent[n]] < Order[n] /\ Parent[n] \notin S
  BY <1>3, ParentIs
<1>5. Order[Parent[n]] \in Bad
  BY <1>4, NodesNumbered
<1>6. k <= Order[Parent[n]] /\ k \in Nat
  BY <1>2, <1>5
<1> QED
  BY <1>3, <1>4, <1>6, NodesNumbered

\* From later nodes to earlier ones.
LEMMA ReverseInduction ==
    ASSUME NEW S, \A n \in Node : (\A m \in Node : Order[n] < Order[m] => m \in S) => n \in S
    PROVE  Node \subseteq S
<1> DEFINE Bad == {k \in Nat : \E n \in Node : Len(Doc) - Order[n] = k /\ n \notin S}
<1>1. SUFFICES ASSUME Bad # {} PROVE FALSE
  <2>1. \A n \in Node : Len(Doc) - Order[n] \in Nat
    BY NodesNumbered
  <2> QED
    BY <2>1
<1>2. PICK k \in Bad : \A j \in Bad : k <= j
  BY <1>1, LeastNumber
<1>3. PICK n \in Node : Len(Doc) - Order[n] = k /\ n \notin S
  OBVIOUS
<1>4. PICK m \in Node : Order[n] < Order[m] /\ m \notin S
  BY <1>3
<1>5. Len(Doc) - Order[m] \in Bad
  BY <1>4, NodesNumbered
<1>6. k <= Len(Doc) - Order[m]
  BY <1>2, <1>5
<1> QED
  BY <1>3, <1>4, <1>6, NodesNumbered

AncestorsStep(f, n) == IF n = Root THEN {} ELSE {Parent[n]} \cup f[Parent[n]]

\* The recursion of Ancestors has a solution.
LEMMA AncestorsExist ==
    \E f : f = [n \in Node |-> AncestorsStep(f, n)]
<1> DEFINE UpTo(f, k) == /\ f = [n \in Node |-> f[n]]
                         /\ \A n \in Node : Order[n] <= k => f[n] = AncestorsStep(f, n)
           Bad == {k \in Nat : ~\E f : UpTo(f, k)}
<1>1. Bad = {}
  <2>1. SUFFICES ASSUME Bad # {} PROVE FALSE
    OBVIOUS
  <2>2. PICK k \in Bad : \A j \in Bad : k <= j
    BY <2>1, LeastNumber
  <2>3. k \in Nat /\ ~\E f : UpTo(f, k)
    OBVIOUS
  <2>4. \A j \in Nat : j < k => \E f : UpTo(f, j)
    BY <2>2
  <2>5. \E g : \A n \in Node : Order[n] < k => g[n] = AncestorsStep(g, n)
    <3>1. CASE k = 0
      BY <3>1, NodesNumbered
    <3>2. CASE k # 0
      <4>1. k - 1 \in Nat /\ k - 1 < k
        BY <2>3, <3>2
      <4>2. PICK g : UpTo(g, k - 1)
        BY <4>1, <2>4
      <4> QED
        BY <4>1, <4>2, NodesNumbered
    <3> QED
      BY <3>1, <3>2
  <2>6. PICK g : \A n \in Node : Order[n] < k => g[n] = AncestorsStep(g, n)
    BY <2>5
  <2> DEFINE f == [n \in Node |-> IF Order[n] = k THEN AncestorsStep(g, n) ELSE g[n]]
  <2>7. ASSUME NEW n \in Node, Order[n] <= k
        PROVE  f[n] = AncestorsStep(f, n)
    <3>1. n # Root => f[Parent[n]] = g[Parent[n]]
      BY <2>3, <2>7, ParentIs, NodesNumbered
    <3>2. AncestorsStep(f, n) = AncestorsStep(g, n)
      BY <3>1 DEF AncestorsStep
    <3>3. Order[n] = k \/ Order[n] < k
      BY <2>3, <2>7, NodesNumbered
    <3> QED
      BY <2>6, <3>2, <3>3
  <2>8. UpTo(f, k)
    BY <2>7
  <2> QED
    BY <2>3, <2>8
<1>2. PICK f : UpTo(f, Len(Doc))
  BY <1>1, NodesNumbered
<1>3. f = [n \in Node |-> AncestorsStep(f, n)]
  BY <1>2, NodesNumbered
<1> QED
  BY <1>3

LEMMA AncestorsAre ==
    ASSUME NEW n \in Node
    PROVE  Ancestors[n] = IF n = Root THEN {} ELSE {Parent[n]} \cup Ancestors[Parent[n]]
<1> DEFINE up == CHOOSE f : f = [m \in Node |-> AncestorsStep(f, m)]
<1>1. up = [m \in Node |-> AncestorsStep(up, m)]
  BY AncestorsExist
<1>2. Ancestors = up
  BY DEF Ancestors, AncestorsStep
<1> QED
  BY <1>1, <1>2 DEF AncestorsStep

LEMMA AncestorsTyped ==
    \A n \in Node : /\ Ancestors[n] \subseteq Node
                    /\ \A a \in Ancestors[n] : Order[a] < Order[n]
                    /\ n \notin Ancestors[n]
                    /\ n # Root => Root \in Ancestors[n]
<1> DEFINE S == {n \in Node : /\ Ancestors[n] \subseteq Node
                              /\ \A a \in Ancestors[n] : Order[a] < Order[n]
                              /\ n # Root => Root \in Ancestors[n]}
<1>1. Root \in S
  BY NodesNumbered, AncestorsAre
<1>2. ASSUME NEW n \in Node \ {Root}, Parent[n] \in S
      PROVE  n \in S
  <2>1. Ancestors[n] = {Parent[n]} \cup Ancestors[Parent[n]]
    BY AncestorsAre
  <2>2. Parent[n] \in Node /\ Order[Parent[n]] < Order[n]
    BY ParentIs
  <2>3. ASSUME NEW a \in Ancestors[n]
        PROVE  a \in Node /\ Order[a] < Order[n]
    <3>1. CASE a = Parent[n]
      BY <3>1, <2>2
    <3>2. CASE a \in Ancestors[Parent[n]]
      BY <3>2, <1>2, <2>2, NodesNumbered
    <3> QED
      BY <2>1, <2>3, <3>1, <3>2
  <2>4. Root \in Ancestors[n]
    BY <2>1, <1>2
  <2> QED
    BY <2>3, <2>4
<1>3. Node \subseteq S
  BY <1>1, <1>2, TreeInduction
<1>4. \A n \in Node : n \notin Ancestors[n]
  BY <1>3, NodesNumbered
<1> QED
  BY <1>3, <1>4

\* An ancestor of an ancestor is one.
LEMMA AncestorsTransitive ==
    \A n \in Node : \A b \in Ancestors[n] : Ancestors[b] \subseteq Ancestors[n]
<1> DEFINE S == {n \in Node : \A b \in Ancestors[n] : Ancestors[b] \subseteq Ancestors[n]}
<1>1. Root \in S
  BY NodesNumbered, AncestorsAre
<1>2. ASSUME NEW n \in Node \ {Root}, Parent[n] \in S
      PROVE  n \in S
  BY <1>2, AncestorsAre
<1>3. Node \subseteq S
  BY <1>1, <1>2, TreeInduction
<1> QED
  BY <1>3

\* The ancestors of a node are on one branch.
LEMMA AncestorsComparable ==
    \A n \in Node : \A a, b \in Ancestors[n] :
        a = b \/ a \in Ancestors[b] \/ b \in Ancestors[a]
<1> DEFINE S == {n \in Node : \A a, b \in Ancestors[n] :
                     a = b \/ a \in Ancestors[b] \/ b \in Ancestors[a]}
<1>1. Root \in S
  BY NodesNumbered, AncestorsAre
<1>2. ASSUME NEW n \in Node \ {Root}, Parent[n] \in S
      PROVE  n \in S
  BY <1>2, AncestorsAre
<1>3. Node \subseteq S
  BY <1>1, <1>2, TreeInduction
<1> QED
  BY <1>3

\* The child of an ancestor on the way to a node.
LEMMA ChildOnPath ==
    \A n \in Node : \A a \in Ancestors[n] :
        \E c \in Node \ {Root} : Parent[c] = a /\ (c = n \/ c \in Ancestors[n])
<1> DEFINE S == {n \in Node : \A a \in Ancestors[n] :
                     \E c \in Node \ {Root} : Parent[c] = a /\ (c = n \/ c \in Ancestors[n])}
<1>1. Root \in S
  BY NodesNumbered, AncestorsAre
<1>2. ASSUME NEW n \in Node \ {Root}, Parent[n] \in S
      PROVE  n \in S
  <2>1. Ancestors[n] = {Parent[n]} \cup Ancestors[Parent[n]]
    BY AncestorsAre
  <2> QED
    BY <1>2, <2>1
<1>3. Node \subseteq S
  BY <1>1, <1>2, TreeInduction
<1> QED
  BY <1>3

\* Below a state is below its child on the way.
LEMMA ParentAbove ==
    ASSUME NEW n \in Node \ {Root}
    PROVE  /\ Parent[n] \in Ancestors[n]
           /\ \A a \in Ancestors[n] : a = Parent[n] \/ a \in Ancestors[Parent[n]]
BY AncestorsAre

-----------------------------------------------------------------------------
(* Selection *)

LEMMA TransitionsTyped ==
    ASSUME NEW c \in Charts, NEW t \in c
    PROVE  /\ t.source \in Node /\ t.targets \subseteq Node /\ t.order \in Nat
           /\ t.event \in [tokens : Seq(STRING), wild : BOOLEAN]
           /\ t.event.wild \in BOOLEAN /\ Len(t.event.tokens) \in Nat
<1>1. /\ t.source \in Node /\ t.targets \subseteq Node /\ t.order \in Nat
      /\ t.event \in [tokens : Seq(STRING), wild : BOOLEAN]
  BY ChartsAssumption DEF Event
<1>2. t.event.wild \in BOOLEAN /\ t.event.tokens \in Seq(STRING)
  BY <1>1
<1> QED
  BY <1>1, <1>2

\* Two wildcards of one length that match an event are the same.
LEMMA SamePrefix ==
    ASSUME NEW s \in Seq(STRING), NEW r \in Seq(STRING), Len(s) = Len(r), NEW e,
           IsPrefix(s, e), IsPrefix(r, e)
    PROVE  s = r
<1>1. SubSeq(s, 1, Len(s)) = SubSeq(r, 1, Len(r))
  BY DEF IsPrefix
<1>2. SubSeq(s, 1, Len(s)) = s /\ SubSeq(r, 1, Len(r)) = r
  OBVIOUS
<1> QED
  BY <1>1, <1>2

\* Of the transitions that may be selected at once, one comes first.
LEMMA FirstExists ==
    ASSUME NEW c \in Charts, NEW ts \in SUBSET c, ts # {}, NEW e,
           (\A t \in ts : Matches(t.event, e)) \/ (\A t, u \in ts : t.event = u.event)
    PROVE  \E t \in ts : \A u \in ts : Before(t, u)
<1> DEFINE exact == {t \in ts : ~t.event.wild}
           wild == {t \in ts : t.event.wild}
           long == {t \in wild : \A u \in wild : Len(u.event.tokens) <= Len(t.event.tokens)}
           early == [t \in c |-> 0 - t.order]
           length == [t \in c |-> Len(t.event.tokens)]
<1>1. IsFiniteSet(ts) /\ IsFiniteSet(exact) /\ IsFiniteSet(wild) /\ IsFiniteSet(long)
  <2>1. IsFiniteSet(ts)
    BY ChartsAssumption, FS_Subset
  <2> QED
    BY <2>1, FS_Subset
<1>2. \A t \in c : /\ t.order \in Nat /\ early[t] \in Int /\ early[t] = 0 - t.order
                   /\ length[t] \in Int /\ length[t] = Len(t.event.tokens)
                   /\ t.event.wild \in BOOLEAN
                   /\ t.event \in [tokens : Seq(STRING), wild : BOOLEAN]
  BY TransitionsTyped
<1> HIDE DEF early, length
<1>3. \A t, u \in c :
          t.event.tokens = u.event.tokens /\ t.event.wild = u.event.wild => t.event = u.event
  BY <1>2
<1>4. \A t, u \in exact : t.event = u.event
  <2>1. CASE \A t \in ts : Matches(t.event, e)
    <3>1. \A t \in exact : t.event.tokens = e /\ t.event.wild = FALSE /\ t \in c
      BY <2>1, <1>2 DEF Matches
    <3> QED
      BY <3>1, <1>3
  <2>2. CASE \A t, u \in ts : t.event = u.event
    BY <2>2
  <2> QED
    BY <2>1, <2>2
<1>5. \A t, u \in wild : Len(t.event.tokens) = Len(u.event.tokens) => t.event = u.event
  <2>1. CASE \A t \in ts : Matches(t.event, e)
    <3>1. \A t \in wild : /\ IsPrefix(t.event.tokens, e) /\ t.event.wild = TRUE /\ t \in c
                          /\ t.event.tokens \in Seq(STRING)
      BY <2>1, <1>2 DEF Matches
    <3>2. ASSUME NEW t \in wild, NEW u \in wild, Len(t.event.tokens) = Len(u.event.tokens)
          PROVE  t.event = u.event
      <4>1. t.event.tokens = u.event.tokens
        BY <3>1, <3>2, SamePrefix
      <4> QED
        BY <4>1, <3>1, <1>3
    <3> QED
      BY <3>2
  <2>2. CASE \A t, u \in ts : t.event = u.event
    BY <2>2
  <2> QED
    BY <2>1, <2>2
<1>6. CASE exact # {}
  <2>1. PICK t \in exact : \A u \in exact : early[u] <= early[t]
    BY <1>1, <1>2, <1>6, HasLast
  <2>2. \A u \in exact : t.order <= u.order
    BY <2>1, <1>2
  <2>3. \A u \in exact : Before(t, u)
    BY <2>2, <1>4 DEF Before
  <2>4. \A u \in wild : Before(t, u)
    BY DEF Before
  <2> QED
    BY <2>3, <2>4
<1>7. CASE exact = {}
  <2>1. wild = ts
    BY <1>7
  <2>2. PICK l \in wild : \A u \in wild : length[u] <= length[l]
    <3>1. wild # {} /\ \A x \in wild : length[x] \in Int
      BY <2>1, <1>2
    <3> HIDE DEF wild
    <3> QED
      BY <1>1, <3>1, HasLast
  <2>3. l \in long
    BY <2>2, <1>2
  <2>4. PICK t \in long : \A u \in long : early[u] <= early[t]
    <3>1. long # {} /\ \A x \in long : early[x] \in Int
      BY <2>3, <1>2
    <3> HIDE DEF long
    <3> QED
      BY <1>1, <3>1, HasLast
  <2>5. ASSUME NEW u \in wild
        PROVE  Before(t, u)
    <3>1. /\ Len(u.event.tokens) <= Len(t.event.tokens)
          /\ Len(u.event.tokens) \in Int /\ Len(t.event.tokens) \in Int
      BY <1>2
    <3>2. CASE Len(u.event.tokens) < Len(t.event.tokens)
      BY <3>2, <1>2 DEF Before
    <3>3. CASE Len(u.event.tokens) = Len(t.event.tokens)
      <4>1. u \in long
        BY <3>3
      <4>2. t.order <= u.order
        BY <4>1, <2>4, <1>2
      <4> QED
        BY <4>2, <3>3, <1>5 DEF Before
    <3> QED
      BY <3>1, <3>2, <3>3
  <2> QED
    BY <2>1, <2>5
<1> QED
  BY <1>6, <1>7

\* What is selected among candidates: at most one transition of each state, and
\* only of active atomic states and their ancestors.
LEMMA EnabledIs ==
    ASSUME NEW c \in Charts, NEW cand \in SUBSET c, NEW conf, NEW held, NEW e,
           (\A t \in cand : Matches(t.event, e)) \/ (\A t, u \in cand : t.event = u.event)
    PROVE  /\ Enabled(cand, conf, held) \subseteq cand
           /\ \A t, u \in Enabled(cand, conf, held) : t.source = u.source => t = u
           /\ \A t \in Enabled(cand, conf, held) :
                  \E a \in conf : IsAtomic(a) /\ t.source \in {a} \cup Ancestors[a]
<1> DEFINE of(n) == {t \in cand : t.source = n /\ Passes(t, conf, held)}
           able(a) == {n \in {a} \cup Ancestors[a] : of(n) # {}}
           first(n) == CHOOSE t \in of(n) : \A u \in of(n) : Before(t, u)
<1>1. ASSUME NEW n, of(n) # {}
      PROVE  first(n) \in of(n) /\ first(n) \in cand /\ first(n).source = n
  <2>1. \E t \in of(n) : \A u \in of(n) : Before(t, u)
    BY <1>1, FirstExists
  <2> QED
    BY <2>1
<1>2. ASSUME NEW a, able(a) # {}
      PROVE  Innermost(able(a)) \in able(a)
  <2>1. able(a) \subseteq Node
    BY TransitionsTyped
  <2>2. IsFiniteSet(able(a)) /\ \A n \in able(a) : Order[n] \in Int
    BY <2>1, NodesNumbered, FS_Subset
  <2>3. \E n \in able(a) : \A m \in able(a) : Order[m] <= Order[n]
    BY <2>2, <1>2, HasLast
  <2> QED
    BY <2>3 DEF Innermost
<1>3. ASSUME NEW t \in Enabled(cand, conf, held)
      PROVE  /\ t \in cand /\ t = first(t.source)
             /\ \E a \in conf : IsAtomic(a) /\ t.source \in {a} \cup Ancestors[a]
  <2>1. PICK a \in conf : IsAtomic(a) /\ able(a) # {} /\ t = first(Innermost(able(a)))
    BY DEF Enabled
  <2>2. Innermost(able(a)) \in able(a)
    BY <2>1, <1>2
  <2> HIDE DEF first
  <2>3. t \in cand /\ t.source = Innermost(able(a))
    BY <2>1, <2>2, <1>1
  <2>4. t.source \in {a} \cup Ancestors[a]
    BY <2>2, <2>3
  <2> QED
    BY <2>1, <2>3, <2>4
<1> HIDE DEF first
<1> QED
  BY <1>3

LEMMA SelectForIs ==
    ASSUME chart \in Charts, NEW e, NEW held
    PROVE  LET ts == SelectFor(e, held) IN
           /\ ts \subseteq chart
           /\ \A t, u \in ts : t.source = u.source => t = u
           /\ \A t \in ts : \E a \in config : IsAtomic(a) /\ t.source \in {a} \cup Ancestors[a]
<1> DEFINE cand == {t \in chart : t.event # Eventless /\ Matches(t.event, e)}
<1>1. cand \in SUBSET chart /\ \A t \in cand : Matches(t.event, e)
  OBVIOUS
<1>2. SelectFor(e, held) = Enabled(cand, config, held)
  BY DEF SelectFor
<1> HIDE DEF cand
<1>3. /\ Enabled(cand, config, held) \subseteq cand
      /\ \A t, u \in Enabled(cand, config, held) : t.source = u.source => t = u
      /\ \A t \in Enabled(cand, config, held) :
             \E a \in config : IsAtomic(a) /\ t.source \in {a} \cup Ancestors[a]
  BY <1>1, EnabledIs
<1> QED
  BY <1>1, <1>2, <1>3

LEMMA SelectEventlessIs ==
    ASSUME chart \in Charts, NEW held
    PROVE  LET ts == SelectEventless(held) IN
           /\ ts \subseteq chart
           /\ \A t, u \in ts : t.source = u.source => t = u
           /\ \A t \in ts : \E a \in config : IsAtomic(a) /\ t.source \in {a} \cup Ancestors[a]
<1> DEFINE cand == {t \in chart : t.event = Eventless}
<1>1. cand \in SUBSET chart /\ \A t, u \in cand : t.event = u.event
  OBVIOUS
<1>2. SelectEventless(held) = Enabled(cand, config, held)
  BY DEF SelectEventless
<1> HIDE DEF cand
<1>3. /\ Enabled(cand, config, held) \subseteq cand
      /\ \A t, u \in Enabled(cand, config, held) : t.source = u.source => t = u
      /\ \A t \in Enabled(cand, config, held) :
             \E a \in config : IsAtomic(a) /\ t.source \in {a} \cup Ancestors[a]
  BY <1>1, EnabledIs
<1> QED
  BY <1>1, <1>2, <1>3

-----------------------------------------------------------------------------
(* Conflicts *)

\* Transitions that exit a state together.
Rival(t, u, conf, h) ==
    t # u /\ ExitSet({t}, conf, h) \cap ExitSet({u}, conf, h) # {}

\* u goes before t: it is below it, or beside it and earlier in the document.
Precedes(u, t) ==
    \/ IsDescendant(u.source, t.source)
    \/ ~IsDescendant(t.source, u.source) /\ Order[u.source] < Order[t.source]

\* Filtered keeps transitions that are no rivals, and drops a transition only
\* for a rival that precedes it: since a transition is numbered after all those
\* it could replace, none is ever replaced.
LEMMA FilteredResolves ==
    ASSUME NEW c \in Charts, NEW ts \in SUBSET c,
           \A t, u \in ts : t.source = u.source => t = u,
           NEW conf, NEW h
    PROVE  LET taken == Filtered(ts, conf, h) IN
           /\ taken \subseteq ts
           /\ \A t, u \in taken : ~Rival(t, u, conf, h)
           /\ \A t \in ts \ taken : \E u \in taken : Rival(t, u, conf, h) /\ Precedes(u, t)
<1> DEFINE exits == [t \in ts |-> ExitSet({t}, conf, h)]
           rivals(t, kept) == {u \in kept : exits[t] \cap exits[u] # {}}
           add(t, kept) ==
               IF \A u \in rivals(t, kept) : IsDescendant(t.source, u.source)
               THEN (kept \ rivals(t, kept)) \cup {t} ELSE kept
           key == [t \in ts |-> t.order]
           step == [t \in ts |-> [kept \in SUBSET ts |-> add(t, kept)]]
           Settled(T, kept) ==
               /\ kept \subseteq T
               /\ \A t, u \in kept : ~Rival(t, u, conf, h)
               /\ \A t \in T \ kept : \E u \in kept : Rival(t, u, conf, h) /\ Precedes(u, t)
           Rel == {q \in (SUBSET ts) \X (SUBSET ts) : Settled(q[1], q[2])}
<1>1. IsFiniteSet(ts) /\ DOMAIN step = ts
  BY ChartsAssumption, FS_Subset
<1>2. \A t \in ts : /\ key[t] = t.order /\ key[t] \in Int
                    /\ t.source \in Node /\ t.source # NoNode
  BY TransitionsTyped, NodesNumbered
<1>3. <<{}, {}>> \in Rel
  OBVIOUS
<1>4. ASSUME NEW T \in SUBSET ts, NEW x \in ts \ T, NEW kept, <<T, kept>> \in Rel,
             \A y \in T : key[y] <= key[x]
      PROVE  <<T \cup {x}, step[x][kept]>> \in Rel
  <2>1. kept \in SUBSET ts /\ Settled(T, kept)
    BY <1>4
  <2>2. step[x][kept] = add(x, kept)
    BY <2>1
  <2>3. ASSUME NEW u \in T
        PROVE  u # x /\ Precedes(u, x) /\ ~IsDescendant(x.source, u.source)
    <3>1. u # x /\ u \in ts /\ x \in ts /\ u.source # x.source
      BY <2>3
    <3>2. u.order < x.order
      <4>1. u.order # x.order
        BY <3>1, ChartsAssumption
      <4>2. u.order <= x.order /\ u.order \in Nat /\ x.order \in Nat
        <5>1. key[u] <= key[x] /\ key[u] = u.order /\ key[x] = x.order
          BY <3>1, <1>2, <1>4
        <5> QED
          BY <5>1, <3>1, TransitionsTyped
      <4> QED
        BY <4>1, <4>2
    <3>3. NumberedBefore(u, x)
      BY <3>1, <3>2, ChartsAssumption
    <3>4. Precedes(u, x)
      BY <3>1, <3>3 DEF NumberedBefore, Precedes
    <3>5. ~IsDescendant(x.source, u.source)
      BY <3>1, <3>3, <1>2, AncestorsTyped, AncestorsTransitive DEF NumberedBefore, IsDescendant
    <3> QED
      BY <3>1, <3>4, <3>5
  <2>4. CASE rivals(x, kept) = {}
    <3>1. step[x][kept] = kept \cup {x}
      BY <2>2, <2>4
    <3>2. \A u \in kept : ~Rival(x, u, conf, h) /\ ~Rival(u, x, conf, h)
      BY <2>1, <2>4 DEF Rival
    <3>3. ~Rival(x, x, conf, h)
      BY DEF Rival
    <3>4. Settled(T \cup {x}, kept \cup {x}) /\ kept \cup {x} \in SUBSET ts
      BY <2>1, <3>2, <3>3
    <3> HIDE DEF step, Settled
    <3> QED
      BY <3>1, <3>4, <2>1
  <2>5. CASE rivals(x, kept) # {}
    <3>1. PICK u \in kept : exits[x] \cap exits[u] # {}
      BY <2>5
    <3>2. u \in T /\ u \in ts
      BY <2>1
    <3>3. u # x /\ Precedes(u, x) /\ ~IsDescendant(x.source, u.source)
      BY <2>3, <3>2
    <3>4. step[x][kept] = kept
      BY <2>2, <3>1, <3>3
    <3>5. Rival(x, u, conf, h)
      BY <3>1, <3>2, <3>3 DEF Rival
    <3>6. Settled(T \cup {x}, kept)
      BY <2>1, <3>3, <3>5
    <3> HIDE DEF step, Settled
    <3> QED
      BY <3>4, <3>6, <2>1
  <2> QED
    BY <2>4, <2>5
<1>5. <<ts, InOrder(key, step, {})>> \in Rel
  <2> HIDE DEF key, step, Rel
  <2> QED
    BY <1>1, <1>2, <1>3, <1>4, InOrderKeeps
<1>6. Filtered(ts, conf, h) = InOrder(key, step, {})
  BY DEF Filtered
<1> QED
  BY <1>5, <1>6

LEMMA ChartIsConstant ==
    (Spec => [](chart \in Charts)) /\ (PSpec => [](chart \in Charts))
<1>1. Init => chart \in Charts
  BY DEF Init
<1>2. chart \in Charts /\ [Next]_vars => (chart \in Charts)'
  BY DEF Next, vars, Start, EventlessStep, InternalStep, Settle, Receive
<1>3. chart \in Charts /\ [PNext]_vars => (chart \in Charts)'
  BY <1>2 DEF PNext, Restart, vars
<1> QED
  BY <1>1, <1>2, <1>3, PTL DEF Spec, PSpec

LEMMA ResolvedState == chart \in Charts => ConflictsResolved
<1> SUFFICES ASSUME chart \in Charts, NEW e \in External
             PROVE  LET able == SelectFor(e, Guarded)
                        taken == Filtered(able, config, hist)
                        exits == [t \in able |-> ExitSet({t}, config, hist)]
                        Rivals(t, u) == t # u /\ exits[t] \cap exits[u] # {}
                    IN /\ \A t, u \in taken : ~Rivals(t, u)
                       /\ \A t \in able \ taken : \E u \in taken :
                              /\ Rivals(t, u)
                              /\ \/ IsDescendant(u.source, t.source)
                                 \/ /\ ~IsDescendant(t.source, u.source)
                                    /\ Order[u.source] < Order[t.source]
  BY DEF ConflictsResolved
<1> DEFINE able == SelectFor(e, Guarded)
           taken == Filtered(able, config, hist)
<1>1. able \subseteq chart /\ \A t, u \in able : t.source = u.source => t = u
  BY SelectForIs
<1> HIDE DEF able
<1>2. /\ taken \subseteq able
      /\ \A t, u \in taken : ~Rival(t, u, config, hist)
      /\ \A t \in able \ taken :
             \E u \in taken : Rival(t, u, config, hist) /\ Precedes(u, t)
  BY <1>1, FilteredResolves
<1> HIDE DEF taken
<1> DEFINE exits == [t \in able |-> ExitSet({t}, config, hist)]
           Rivals(t, u) == t # u /\ exits[t] \cap exits[u] # {}
<1>3. \A t, u \in able : Rivals(t, u) <=> Rival(t, u, config, hist)
  BY DEF Rival
<1> HIDE DEF Rivals
<1>4. /\ \A t, u \in taken : ~Rivals(t, u)
      /\ \A t \in able \ taken : \E u \in taken :
             /\ Rivals(t, u)
             /\ \/ IsDescendant(u.source, t.source)
                \/ /\ ~IsDescendant(t.source, u.source)
                   /\ Order[u.source] < Order[t.source]
  BY <1>2, <1>3 DEF Precedes
<1> QED
  BY <1>4 DEF Rivals, able, taken

\* ConflictsResolved, for every chart that the parser makes: what is taken
\* together exits no state twice, and what is dropped has a rival before it, in
\* the configurations of a machine that was restored too.
THEOREM ConflictsAreResolved ==
    (Spec => []ConflictsResolved) /\ (PSpec => []ConflictsResolved)
BY ChartIsConstant, ResolvedState, PTL

-----------------------------------------------------------------------------
(* Complete subtrees *)

Below(d) == {n \in Node : IsDescendant(n, d)}
Sub(n) == {n} \cup Below(n)

\* The complete subtrees of n: n with one child of each compound state, every
\* child of each parallel state, and nothing else.
FullTrees(n) ==
    {K \in SUBSET (Sub(n) \ History) :
        /\ n \in K
        /\ \A m \in K : /\ m # n => Parent[m] \in K
                        /\ Kind[m] = "compound" => \E k \in Kids[m] : Kids[m] \cap K = {k}
                        /\ Kind[m] = "parallel" => Kids[m] \subseteq K}

LEMMA KidsAre ==
    /\ Kids \in [Node -> SUBSET (Node \ History)]
    /\ \A p \in Node : \A c \in Kids[p] :
           /\ c \in Node \ {Root} /\ c \notin History /\ Parent[c] = p
           /\ p \in Ancestors[c] /\ Order[p] < Order[c]
           /\ Sub(c) \subseteq Below(p) /\ p \notin Sub(c)
    /\ \A p \in Node : IsFiniteSet(Kids[p])
<1>1. \A p \in Node : Kids[p] = {c \in Node \ History : c # Root /\ Parent[c] = p}
  BY DEF Kids
<1>2. Kids \in [Node -> SUBSET (Node \ History)]
  BY DEF Kids
<1>3. ASSUME NEW p \in Node, NEW c \in Kids[p]
      PROVE  /\ c \in Node \ {Root} /\ c \notin History /\ Parent[c] = p
             /\ p \in Ancestors[c] /\ Order[p] < Order[c]
             /\ Sub(c) \subseteq Below(p) /\ p \notin Sub(c)
  <2>1. c \in Node \ {Root} /\ c \notin History /\ Parent[c] = p
    BY <1>1
  <2>2. p \in Ancestors[c]
    BY <2>1, ParentAbove
  <2>3. Order[p] < Order[c]
    BY <2>1, ParentIs
  <2>4. c # NoNode /\ p # NoNode
    BY <2>1, NodesNumbered
  <2>5. Sub(c) \subseteq Below(p)
    BY <2>1, <2>2, <2>4, AncestorsTransitive DEF Sub, Below, IsDescendant
  <2>6. p \notin Sub(c)
    BY <2>2, <2>1, <2>4, AncestorsTyped, AncestorsTransitive DEF Sub, Below, IsDescendant
  <2> QED
    BY <2>1, <2>2, <2>3, <2>5, <2>6
<1>4. \A p \in Node : IsFiniteSet(Kids[p])
  BY <1>2, NodesNumbered, FS_Subset
<1> QED
  BY <1>2, <1>3, <1>4

LEMMA BelowIs ==
    /\ \A n, m \in Node : n \in Below(m) <=> m \in Ancestors[n]
    /\ Below(NoNode) = Node
    /\ \A d : Below(d) \subseteq Node
    /\ \A n \in Node : n \in Sub(n) /\ Sub(n) \subseteq Node /\ n \notin Below(n)
    /\ \A n \in Node : \A m \in Below(n) : Sub(m) \subseteq Below(n)
    /\ \A d \in Node \cup {NoNode} : \A m \in Below(d) : Sub(m) \subseteq Below(d)
BY NodesNumbered, AncestorsTyped, AncestorsTransitive DEF Below, Sub, IsDescendant

\* Different children of a state have nothing in common.
LEMMA SiblingsDisjoint ==
    ASSUME NEW p \in Node, NEW b \in Kids[p], NEW c \in Kids[p], b # c
    PROVE  Sub(b) \cap Sub(c) = {}
<1>1. /\ b \in Node \ {Root} /\ c \in Node \ {Root} /\ Parent[b] = p /\ Parent[c] = p
      /\ b # NoNode /\ c # NoNode
  BY KidsAre, NodesNumbered
<1>2. /\ b \notin Ancestors[c] /\ c \notin Ancestors[b]
  <2>1. p \notin Ancestors[p] /\ b \notin Ancestors[p] /\ c \notin Ancestors[p] /\ b # p /\ c # p
    BY <1>1, KidsAre, AncestorsTyped, AncestorsTransitive
  <2> QED
    BY <1>1, <2>1, ParentAbove
<1>3. ASSUME NEW x \in Sub(b) \cap Sub(c)
      PROVE  FALSE
  <2>1. x \in Node /\ (x = b \/ b \in Ancestors[x]) /\ (x = c \/ c \in Ancestors[x])
    BY <1>1 DEF Sub, Below, IsDescendant
  <2> QED
    BY <2>1, <1>2, AncestorsComparable
<1> QED
  BY <1>3

\* The part of a complete subtree at one of its nodes is complete.
LEMMA FullPart ==
    ASSUME NEW n \in Node, NEW K \in FullTrees(n), NEW m \in K
    PROVE  K \cap Sub(m) \in FullTrees(m)
<1>1. K \subseteq Node /\ K \cap History = {} /\ m \in Node
  BY BelowIs DEF FullTrees
<1>2. \A x \in K : Kids[x] \in SUBSET Node
  BY <1>1, KidsAre
<1>3. ASSUME NEW x \in K \cap Sub(m)
      PROVE  /\ Kids[x] \subseteq Sub(m)
             /\ x # m => Parent[x] \in K \cap Sub(m)
             /\ Kind[x] = "compound" =>
                    \E k \in Kids[x] : Kids[x] \cap (K \cap Sub(m)) = {k}
             /\ Kind[x] = "parallel" => Kids[x] \subseteq K \cap Sub(m)
  <2>1. Kids[x] \subseteq Sub(m)
    <3>1. \A c \in Kids[x] : c \in Below(x)
      BY <1>1, KidsAre, BelowIs
    <3> QED
      BY <3>1, <1>1, BelowIs DEF Sub
  <2>2. ASSUME x # m
        PROVE  Parent[x] \in K \cap Sub(m)
    <3>1. x \in Below(m) /\ m \in Ancestors[x] /\ x # Root /\ x \in Node
      BY <1>1, <2>2, BelowIs, AncestorsAre DEF Sub
    <3>2. Parent[x] = m \/ m \in Ancestors[Parent[x]]
      BY <3>1, ParentAbove
    <3>3. Parent[x] \in Node
      BY <3>1, ParentIs
    <3>4. Parent[x] \in Sub(m)
      BY <3>2, <3>3, <1>1, BelowIs DEF Sub
    <3>5. x # n
      <4>1. m = n \/ n \in Ancestors[m]
        BY <1>1, BelowIs DEF FullTrees, Sub
      <4> QED
        BY <4>1, <3>1, <1>1, AncestorsTyped, AncestorsTransitive
    <3> QED
      BY <3>4, <3>5 DEF FullTrees
  <2>3. ASSUME Kind[x] = "compound"
        PROVE  \E k \in Kids[x] : Kids[x] \cap (K \cap Sub(m)) = {k}
    <3>1. PICK k \in Kids[x] : Kids[x] \cap K = {k}
      BY <2>3 DEF FullTrees
    <3> QED
      BY <3>1, <2>1
  <2>4. Kind[x] = "parallel" => Kids[x] \subseteq K \cap Sub(m)
    BY <2>1 DEF FullTrees
  <2> QED
    BY <2>1, <2>2, <2>3, <2>4
<1>4. m \in K \cap Sub(m) /\ K \cap Sub(m) \subseteq Sub(m) \ History
  BY <1>1, BelowIs
<1> QED
  BY <1>3, <1>4 DEF FullTrees

\* A complete subtree of a child, under a compound state without other entries.
LEMMA FullUnderCompound ==
    ASSUME NEW n \in Node, Kind[n] = "compound", NEW c \in Kids[n], NEW K \in FullTrees(c)
    PROVE  {n} \cup K \in FullTrees(n)
<1>1. /\ c # n /\ Parent[c] = n /\ n \notin History /\ Sub(c) \subseteq Below(n) /\ n \notin Sub(c)
  BY KidsAre, AncestorsTyped DEF History
<1>2. K \subseteq Sub(c) /\ K \cap History = {} /\ c \in K
  BY DEF FullTrees
<1>3. {n} \cup K \subseteq Sub(n) \ History
  BY <1>1, <1>2 DEF Sub
<1>4. Kids[n] \cap ({n} \cup K) = {c}
  <2>1. n \notin Kids[n]
    BY KidsAre, AncestorsTyped
  <2>2. \A b \in Kids[n] : b # c => b \notin K
    BY <1>2, SiblingsDisjoint DEF Sub
  <2> QED
    BY <2>1, <2>2, <1>2
<1>5. ASSUME NEW m \in K
      PROVE  /\ m # n /\ Parent[m] \in {n} \cup K
             /\ Kids[m] \cap ({n} \cup K) = Kids[m] \cap K
  <2>1. m # n
    BY <1>1, <1>2
  <2>2. Parent[m] \in {n} \cup K
    BY <1>1 DEF FullTrees
  <2>3. n \notin Kids[m]
    <3>1. m \in Node /\ n \in Ancestors[m]
      BY <1>1, <1>2, BelowIs
    <3> QED
      BY <3>1, KidsAre, AncestorsTyped, AncestorsTransitive
  <2> QED
    BY <2>1, <2>2, <2>3
<1>6. \A m \in {n} \cup K :
          /\ m # n => Parent[m] \in {n} \cup K
          /\ Kind[m] = "compound" => \E k \in Kids[m] : Kids[m] \cap ({n} \cup K) = {k}
          /\ Kind[m] = "parallel" => Kids[m] \subseteq {n} \cup K
  BY <1>4, <1>5 DEF FullTrees
<1> QED
  BY <1>3, <1>6 DEF FullTrees

\* A parallel state with a complete subtree of every child.
LEMMA FullUnderParallel ==
    ASSUME NEW n \in Node, Kind[n] = "parallel", NEW K \in SUBSET Below(n),
           \A x \in K : \E c \in Kids[n] : x \in Sub(c),
           \A c \in Kids[n] : K \cap Sub(c) \in FullTrees(c)
    PROVE  {n} \cup K \in FullTrees(n)
<1>1. n \notin History /\ n \notin Below(n)
  BY BelowIs DEF History
<1>2. ASSUME NEW m \in K
      PROVE  /\ m # n /\ m \notin History /\ Parent[m] \in {n} \cup K
             /\ Kind[m] = "compound" => \E k \in Kids[m] : Kids[m] \cap ({n} \cup K) = {k}
             /\ Kind[m] = "parallel" => Kids[m] \subseteq {n} \cup K
  <2>1. PICK c \in Kids[n] : m \in K \cap Sub(c)
    OBVIOUS
  <2> DEFINE C == K \cap Sub(c)
  <2>2. C \in FullTrees(c) /\ m \in C /\ c \in Node /\ Parent[c] = n /\ m # n
    BY <2>1, <1>1, KidsAre
  <2>3. m \notin History /\ Parent[m] \in {n} \cup K
    BY <2>2 DEF FullTrees
  <2>4. Kids[m] \cap ({n} \cup K) = Kids[m] \cap C
    <3>1. m \in Node
      BY <2>2, BelowIs
    <3>2. Kids[m] \subseteq Sub(c)
      BY <3>1, <2>2, KidsAre, BelowIs DEF Sub
    <3>3. n \notin Sub(c)
      BY KidsAre
    <3> QED
      BY <3>2, <3>3
  <2> HIDE DEF C
  <2>5. /\ Kind[m] = "compound" => \E k \in Kids[m] : Kids[m] \cap C = {k}
        /\ Kind[m] = "parallel" => Kids[m] \subseteq C
    BY <2>2 DEF FullTrees
  <2>6. C \subseteq K
    BY DEF C
  <2> QED
    BY <2>2, <2>3, <2>4, <2>5, <2>6
<1>3. \A c \in Kids[n] : c \in K
  BY DEF FullTrees
<1> QED
  BY <1>1, <1>2, <1>3 DEF FullTrees, Sub

\* What enters c and its descendants makes a complete subtree, when nothing
\* below c was entered before, and touches nothing else.
Enters(down, c) ==
    \A a \in SUBSET Node : a \cap Below(c) = {} =>
        /\ a \subseteq down[c][a] /\ down[c][a] \subseteq a \cup Sub(c)
        /\ down[c][a] \cap Sub(c) \in FullTrees(c)

\* r is acc with the regions of p that had no entries, each a complete subtree.
WithRegions(p, acc, r) ==
    /\ r \in SUBSET Node /\ acc \subseteq r
    /\ \A x \in r : x \in acc \/ \E c \in Kids[p] : acc \cap Below(c) = {} /\ x \in Sub(c)
    /\ \A c \in Kids[p] : IF acc \cap Below(c) = {} THEN r \cap Sub(c) \in FullTrees(c)
                          ELSE r \cap Sub(c) = acc \cap Sub(c)

\* AddRegions enters the regions without entries, and only those.
LEMMA RegionsAdded ==
    ASSUME NEW p \in Node, NEW down, \A c \in Kids[p] : Enters(down, c), NEW acc \in SUBSET Node
    PROVE  WithRegions(p, acc, AddRegions(p, down, acc))
<1> DEFINE step == [c \in Kids[p] |-> [a \in SUBSET Node |->
                        IF \E s \in a : IsDescendant(s, c) THEN a ELSE down[c][a]]]
           Zone == [c \in Kids[p] |-> Sub(c)]
           Good == [c \in Kids[p] |-> IF acc \cap Below(c) = {} THEN FullTrees(c)
                                      ELSE {acc \cap Sub(c)}]
<1>1. IsFiniteSet(Kids[p]) /\ DOMAIN step = Kids[p] /\ \A c \in Kids[p] : Order[c] \in Int
  BY KidsAre, NodesNumbered
<1>2. \A c \in Kids[p] : Zone[c] \subseteq Node
  BY KidsAre, BelowIs
<1>3. \A b, c \in Kids[p] : b # c => Zone[b] \cap Zone[c] = {}
  BY SiblingsDisjoint
<1>4. ASSUME NEW c \in Kids[p], NEW a \in SUBSET Node, a \cap Zone[c] = acc \cap Zone[c]
      PROVE  /\ a \subseteq step[c][a] /\ step[c][a] \subseteq a \cup Zone[c]
             /\ step[c][a] \cap Zone[c] \in Good[c]
  <2>1. c \in Node /\ a \cap Below(c) = acc \cap Below(c)
    BY <1>4, KidsAre DEF Sub
  <2>2. (\E s \in a : IsDescendant(s, c)) <=> a \cap Below(c) # {}
    BY DEF Below
  <2>3. CASE acc \cap Below(c) = {}
    <3>1. step[c][a] = down[c][a]
      BY <2>1, <2>2, <2>3
    <3> QED
      BY <3>1, <2>1, <2>3 DEF Enters
  <2>4. CASE acc \cap Below(c) # {}
    <3>1. step[c][a] = a
      BY <2>1, <2>2, <2>4
    <3> QED
      BY <3>1, <2>4, <1>4
  <2> QED
    BY <2>3, <2>4
<1> DEFINE r == InOrder(Order, step, acc)
<1>5. /\ r \in SUBSET Node /\ acc \subseteq r
      /\ \A x \in r : x \in acc \/ \E c \in Kids[p] : x \in Zone[c]
      /\ \A c \in Kids[p] : r \cap Zone[c] \in Good[c]
  <2> HIDE DEF step, Zone, Good
  <2>1. \A c \in Kids[p] : \A a \in SUBSET Node : a \cap Zone[c] = acc \cap Zone[c] =>
            /\ a \subseteq step[c][a] /\ step[c][a] \subseteq a \cup Zone[c]
            /\ step[c][a] \cap Zone[c] \in Good[c]
    BY <1>4
  <2>2. ZonedFold(Kids[p], Order, step, Node, acc, Zone, Good)
    BY <1>1, <1>2, <1>3, <2>1 DEF ZonedFold
  <2> QED
    BY <2>2, InOrderZones
<1>6. AddRegions(p, down, acc) = r
  BY DEF AddRegions
<1> HIDE DEF r
<1>7. \A c \in Kids[p] : IF acc \cap Below(c) = {} THEN r \cap Sub(c) \in FullTrees(c)
                         ELSE r \cap Sub(c) = acc \cap Sub(c)
  BY <1>5
<1>8. ASSUME NEW x \in r, x \notin acc
      PROVE  \E c \in Kids[p] : acc \cap Below(c) = {} /\ x \in Sub(c)
  BY <1>5, <1>7, <1>8
<1> QED
  BY <1>5, <1>6, <1>7, <1>8 DEF WithRegions

-----------------------------------------------------------------------------
(* AddDescendants *)

Restored(n, h) == IF h[n] # {} THEN h[n] ELSE DefaultTarget(n)

\* What a history node stands for are nodes of another kind.
Restorable(h) == \A n \in History : Restored(n, h) \subseteq Node \ History

DownStep(down, h, n, acc) ==
    CASE Kind[n] = "history" ->
            InOrder(Order, [s \in Restored(n, h) |-> [a \in SUBSET Node |->
                                AddAncestors(s, Parent[n], down, a)]],
                    InOrder(Order, [s \in Restored(n, h) |-> down[s]], acc))
      [] Kind[n] = "compound" -> down[Initial[n]][acc \cup {n}]
      [] Kind[n] = "parallel" -> AddRegions(n, down, acc \cup {n})
      [] OTHER -> acc \cup {n}

LEMMA RegionsCongruent ==
    ASSUME NEW p \in Node, NEW f, NEW g, \A c \in Kids[p] : f[c] = g[c], NEW acc
    PROVE  AddRegions(p, f, acc) = AddRegions(p, g, acc)
<1>1. [c \in Kids[p] |-> [a \in SUBSET Node |->
           IF \E s \in a : IsDescendant(s, c) THEN a ELSE f[c][a]]]
      = [c \in Kids[p] |-> [a \in SUBSET Node |->
           IF \E s \in a : IsDescendant(s, c) THEN a ELSE g[c][a]]]
  OBVIOUS
<1> QED
  BY <1>1 DEF AddRegions

LEMMA ProperAncestorsAre ==
    ASSUME NEW s \in Node, NEW top \in Node \cup {NoNode},
           top = NoNode \/ top \in Ancestors[s]
    PROVE  ProperAncestors(s, top) = Ancestors[s] \cap Below(top)
<1>1. Ancestors[s] \subseteq Node
  BY AncestorsTyped
<1>2. CASE top = NoNode
  BY <1>1, <1>2, BelowIs, NodesNumbered DEF ProperAncestors
<1>3. CASE top \in Ancestors[s]
  BY <1>1, <1>3, BelowIs DEF ProperAncestors
<1> QED
  BY <1>2, <1>3

LEMMA AncestorsCongruent ==
    ASSUME NEW s \in Node, NEW top, NEW f, NEW g, \A c \in Node \ History : f[c] = g[c], NEW acc
    PROVE  AddAncestors(s, top, f, acc) = AddAncestors(s, top, g, acc)
<1>1. ProperAncestors(s, top) \subseteq Node
  BY AncestorsTyped DEF ProperAncestors
<1>2. \A p \in Node : \A a : AddRegions(p, f, a) = AddRegions(p, g, a)
  BY RegionsCongruent, KidsAre
<1>3. [p \in ProperAncestors(s, top) |-> [a \in SUBSET Node |->
           IF Kind[p] = "parallel" THEN AddRegions(p, f, a \cup {p}) ELSE a \cup {p}]]
      = [p \in ProperAncestors(s, top) |-> [a \in SUBSET Node |->
           IF Kind[p] = "parallel" THEN AddRegions(p, g, a \cup {p}) ELSE a \cup {p}]]
  BY <1>1, <1>2
<1> QED
  BY <1>3 DEF AddAncestors

LEMMA DownCongruent ==
    ASSUME WellFormedTree, NEW h, Restorable(h), NEW f, NEW g, NEW n \in Node, NEW acc,
           \A m \in Node \ History : (n \in History \/ Order[n] < Order[m]) => f[m] = g[m]
    PROVE  DownStep(f, h, n, acc) = DownStep(g, h, n, acc)
<1>1. CASE Kind[n] = "history"
  <2>1. n \in History /\ Restored(n, h) \subseteq Node \ History
    BY <1>1 DEF History, Restorable
  <2>2. [s \in Restored(n, h) |-> f[s]] = [s \in Restored(n, h) |-> g[s]]
    BY <2>1
  <2>3. \A s \in Node : \A a : AddAncestors(s, Parent[n], f, a) = AddAncestors(s, Parent[n], g, a)
    BY <2>1, AncestorsCongruent
  <2>4. [s \in Restored(n, h) |-> [a \in SUBSET Node |-> AddAncestors(s, Parent[n], f, a)]]
        = [s \in Restored(n, h) |-> [a \in SUBSET Node |-> AddAncestors(s, Parent[n], g, a)]]
    BY <2>1, <2>3
  <2> QED
    BY <2>2, <2>4, <1>1 DEF DownStep
<1>2. CASE Kind[n] = "compound"
  <2>1. Initial[n] \in Node \ History /\ Order[n] < Order[Initial[n]]
    BY <1>2, TreeAssumption DEF WellFormedTree
  <2> QED
    BY <2>1, <1>2 DEF DownStep
<1>3. CASE Kind[n] = "parallel"
  <2>1. \A c \in Kids[n] : f[c] = g[c]
    BY KidsAre
  <2> QED
    BY <2>1, <1>3, RegionsCongruent DEF DownStep
<1>4. CASE Kind[n] \notin {"history", "compound", "parallel"}
  BY <1>4 DEF DownStep
<1> QED
  BY <1>1, <1>2, <1>3, <1>4

\* The recursion of AddDescendants has a solution.
LEMMA DownExists ==
    ASSUME WellFormedTree, NEW h, Restorable(h)
    PROVE  \E f : f = [n \in Node |-> [acc \in SUBSET Node |-> DownStep(f, h, n, acc)]]
<1> DEFINE Solves(f, n) == f[n] = [acc \in SUBSET Node |-> DownStep(f, h, n, acc)]
           From(f, k) == \A n \in Node \ History : Len(Doc) - Order[n] <= k => Solves(f, n)
           Bad == {k \in Nat : ~\E f : From(f, k)}
<1> HIDE DEF Solves
<1>1. Bad = {}
  <2>1. SUFFICES ASSUME Bad # {} PROVE FALSE
    OBVIOUS
  <2>2. PICK k \in Bad : \A j \in Bad : k <= j
    BY <2>1, LeastNumber
  <2>3. k \in Nat /\ ~\E f : From(f, k)
    OBVIOUS
  <2>4. \A j \in Nat : j < k => \E f : From(f, j)
    BY <2>2
  <2>5. \E g : \A n \in Node \ History : Len(Doc) - Order[n] < k => Solves(g, n)
    <3>1. CASE k = 0
      <4>1. \A n \in Node : ~(Len(Doc) - Order[n] < 0)
        BY NodesNumbered
      <4> QED
        BY <4>1, <3>1
    <3>2. CASE k # 0
      <4>1. k - 1 \in Nat /\ k - 1 < k
        BY <2>3, <3>2
      <4>2. PICK g : From(g, k - 1)
        BY <4>1, <2>4
      <4>3. \A n \in Node : Len(Doc) - Order[n] < k => Len(Doc) - Order[n] <= k - 1
        BY <4>1, <2>3, NodesNumbered
      <4> QED
        BY <4>2, <4>3
    <3> QED
      BY <3>1, <3>2
  <2>6. PICK g : \A n \in Node \ History : Len(Doc) - Order[n] < k => Solves(g, n)
    BY <2>5
  <2> DEFINE f == [n \in Node |-> IF Len(Doc) - Order[n] = k
                                  THEN [acc \in SUBSET Node |-> DownStep(g, h, n, acc)]
                                  ELSE g[n]]
  <2>7. ASSUME NEW n \in Node \ History, Len(Doc) - Order[n] <= k
        PROVE  Solves(f, n)
    <3>1. \A m \in Node : Order[n] < Order[m] => f[m] = g[m]
      BY <2>3, <2>7, NodesNumbered
    <3>2. ASSUME NEW acc
          PROVE  DownStep(f, h, n, acc) = DownStep(g, h, n, acc)
      <4> HIDE DEF f
      <4> QED
        BY <3>1, DownCongruent
    <3>3. Len(Doc) - Order[n] = k \/ Len(Doc) - Order[n] < k
      BY <2>3, <2>7, NodesNumbered
    <3>4. CASE Len(Doc) - Order[n] = k
      BY <3>2, <3>4 DEF Solves
    <3>5. CASE Len(Doc) - Order[n] < k
      <4>1. f[n] = g[n]
        BY <3>5, <2>3
      <4> HIDE DEF f
      <4> QED
        BY <4>1, <3>2, <3>5, <2>6 DEF Solves
    <3> QED
      BY <3>3, <3>4, <3>5
  <2>8. From(f, k)
    BY <2>7
  <2> QED
    BY <2>3, <2>8
<1>2. PICK g : From(g, Len(Doc))
  BY <1>1, NodesNumbered
<1> DEFINE f == [n \in Node |-> IF n \in History THEN [acc \in SUBSET Node |-> DownStep(g, h, n, acc)]
                                ELSE g[n]]
<1>3. \A m \in Node \ History : f[m] = g[m]
  OBVIOUS
<1>4. ASSUME NEW n \in Node
      PROVE  f[n] = [acc \in SUBSET Node |-> DownStep(f, h, n, acc)]
  <2>1. ASSUME NEW acc
        PROVE  DownStep(f, h, n, acc) = DownStep(g, h, n, acc)
    <3> HIDE DEF f
    <3> QED
      BY <1>3, DownCongruent
  <2>2. CASE n \in History
    BY <2>1, <2>2
  <2>3. CASE n \notin History
    <3>1. Len(Doc) - Order[n] <= Len(Doc)
      BY NodesNumbered
    <3>2. Solves(g, n)
      BY <3>1, <2>3, <1>2
    <3>3. f[n] = g[n]
      BY <2>3
    <3> HIDE DEF f
    <3> QED
      BY <2>1, <3>2, <3>3 DEF Solves
  <2> QED
    BY <2>2, <2>3
<1>5. f = [n \in Node |-> [acc \in SUBSET Node |-> DownStep(f, h, n, acc)]]
  <2> DEFINE F == [n \in Node |-> [acc \in SUBSET Node |-> DownStep(f, h, n, acc)]]
  <2>1. \A n \in Node : f[n] = F[n]
    BY <1>4
  <2> QED
    BY <2>1
<1> QED
  BY <1>5

LEMMA DownIs ==
    ASSUME WellFormedTree, NEW h, Restorable(h), NEW n \in Node, NEW acc \in SUBSET Node
    PROVE  AddDescendants(h)[n][acc] = DownStep(AddDescendants(h), h, n, acc)
<1> DEFINE down == CHOOSE f : f = [m \in Node |-> [a \in SUBSET Node |-> DownStep(f, h, m, a)]]
<1>1. down = [m \in Node |-> [a \in SUBSET Node |-> DownStep(down, h, m, a)]]
  BY DownExists
<1>2. AddDescendants(h) = down
  BY DEF AddDescendants, DownStep, Restored
<1> HIDE DEF down
<1>3. down[n] = [a \in SUBSET Node |-> DownStep(down, h, n, a)]
  BY <1>1
<1>4. down[n][acc] = DownStep(down, h, n, acc)
  BY <1>3
<1> QED
  BY <1>2, <1>4

\* A state that is no history node is entered with a complete subtree.
LEMMA DownEnters ==
    ASSUME WellFormedTree, NEW h, Restorable(h)
    PROVE  \A n \in Node \ History : Enters(AddDescendants(h), n)
<1> DEFINE down == AddDescendants(h)
           S == {n \in Node : n \in History \/ Enters(down, n)}
<1>1. \A n \in Node : \A a \in SUBSET Node : down[n][a] = DownStep(down, h, n, a)
  BY DownIs
<1> HIDE DEF down
<1>2. ASSUME NEW n \in Node, \A m \in Node : Order[n] < Order[m] => m \in S
      PROVE  n \in S
  <2>1. SUFFICES ASSUME n \notin History PROVE Enters(down, n)
    OBVIOUS
  <2>2. SUFFICES ASSUME NEW a \in SUBSET Node, a \cap Below(n) = {}
                 PROVE  /\ a \subseteq down[n][a] /\ down[n][a] \subseteq a \cup Sub(n)
                        /\ down[n][a] \cap Sub(n) \in FullTrees(n)
    BY DEF Enters
  <2> DEFINE b == a \cup {n}
             r == down[n][a]
  <2>3. b \in SUBSET Node /\ b \cap Below(n) = {} /\ b \cap Sub(n) = {n}
    BY <2>2, BelowIs DEF Sub
  <2>4. \A c \in Kids[n] : Enters(down, c) /\ c \in Node
    BY <1>2, KidsAre
  <2>5. r = DownStep(down, h, n, a)
    BY <1>1
  <2> HIDE DEF r
  <2>6. CASE Kind[n] = "compound"
    <3> DEFINE c == Initial[n]
    <3>1. c \in Kids[n]
      BY <2>6, TreeAssumption DEF WellFormedTree, Kids
    <3>2. r = down[c][b]
      BY <2>5, <2>6 DEF DownStep
    <3> HIDE DEF c
    <3>3. Sub(c) \subseteq Below(n) /\ b \cap Below(c) = {}
      BY <3>1, <2>3, KidsAre DEF Sub
    <3>4. b \subseteq r /\ r \subseteq b \cup Sub(c) /\ r \cap Sub(c) \in FullTrees(c)
      BY <3>1, <3>2, <3>3, <2>3, <2>4 DEF Enters
    <3>5. r \cap Sub(n) = {n} \cup (r \cap Sub(c))
      BY <3>3, <3>4, <2>3 DEF Sub
    <3>6. r \cap Sub(n) \in FullTrees(n)
      BY <3>1, <3>4, <3>5, <2>6, FullUnderCompound
    <3> QED
      BY <3>3, <3>4, <3>6 DEF Sub, r
  <2>7. CASE Kind[n] = "parallel"
    <3> DEFINE K == r \cap Below(n)
    <3>1. r = AddRegions(n, down, b)
      BY <2>5, <2>7 DEF DownStep
    <3>2. /\ r \in SUBSET Node /\ b \subseteq r
          /\ \A x \in r : x \in b \/ \E c \in Kids[n] : b \cap Below(c) = {} /\ x \in Sub(c)
          /\ \A c \in Kids[n] : IF b \cap Below(c) = {} THEN r \cap Sub(c) \in FullTrees(c)
                                ELSE r \cap Sub(c) = b \cap Sub(c)
      <4>1. \A c \in Kids[n] : Enters(down, c)
        BY <2>4
      <4>2. b \in SUBSET Node
        BY <2>3
      <4> HIDE DEF b
      <4>3. WithRegions(n, b, r)
        BY <3>1, <4>1, <4>2, RegionsAdded
      <4> QED
        BY <4>3 DEF WithRegions
    <3>3. \A c \in Kids[n] : Sub(c) \subseteq Below(n) /\ b \cap Below(c) = {}
      BY <2>3, KidsAre DEF Sub
    <3>4. /\ K \in SUBSET Below(n)
          /\ \A x \in K : \E c \in Kids[n] : x \in Sub(c)
          /\ \A c \in Kids[n] : K \cap Sub(c) \in FullTrees(c)
      <4>1. \A c \in Kids[n] : K \cap Sub(c) = r \cap Sub(c)
        BY <3>3
      <4> QED
        BY <4>1, <3>2, <3>3, <2>3
    <3> HIDE DEF K
    <3>5. {n} \cup K \in FullTrees(n)
      BY <3>4, <2>7, FullUnderParallel
    <3>6. r \cap Sub(n) = {n} \cup K
      BY <3>2 DEF K, Sub
    <3>7. r \subseteq a \cup Sub(n)
      BY <3>2, <3>3 DEF Sub
    <3> QED
      BY <3>2, <3>5, <3>6, <3>7 DEF r
  <2>8. CASE Kind[n] \notin {"history", "compound", "parallel"}
    <3>1. r = b
      BY <2>5, <2>8 DEF DownStep
    <3>2. {n} \in FullTrees(n)
      BY <2>1, <2>8 DEF FullTrees, Sub
    <3> QED
      BY <3>1, <3>2, <2>3 DEF Sub, r
  <2>9. Kind[n] # "history"
    BY <2>1 DEF History
  <2> QED
    BY <2>6, <2>7, <2>8, <2>9
<1>3. Node \subseteq S
  BY <1>2, ReverseInduction
<1> QED
  BY <1>3 DEF down

-----------------------------------------------------------------------------
(* The branches of a configuration: sets of nodes up to the root, with one
   child of each compound state, whose parallel states may lack regions.     *)

Branches ==
    {G \in SUBSET (Node \ History) :
        /\ Root \in G
        /\ \A m \in G : /\ m # Root => Parent[m] \in G
                        /\ Kind[m] = "compound" => \E k \in Kids[m] : Kids[m] \cap G = {k}}

\* What is entered below d: complete but for the regions of d itself.
Pieces(d) ==
    {K \in SUBSET (Below(d) \ History) :
        /\ d = NoNode => Root \in K
        /\ \A m \in K : m = Root \/ Parent[m] \in K \cup {d}
        /\ \A m \in (K \cup {d}) \cap Node :
               Kind[m] = "compound" => \E k \in Kids[m] : Kids[m] \cap K = {k}
        /\ \A m \in K : Kind[m] = "parallel" => Kids[m] \subseteq K}

\* Ancestors are compound or parallel states.
LEMMA InnerNodes ==
    ASSUME WellFormedTree
    PROVE  \A n \in Node : \A a \in Ancestors[n] :
               Kind[a] \in {"compound", "parallel"} /\ a \in Node \ History
<1> SUFFICES ASSUME NEW n \in Node, NEW a \in Ancestors[n]
             PROVE  Kind[a] \in {"compound", "parallel"} /\ a \in Node \ History
  OBVIOUS
<1>1. PICK c \in Node \ {Root} : Parent[c] = a
  BY ChildOnPath
<1>2. Kind[a] \in {"compound", "parallel"} /\ a \in Node
  BY <1>1, AncestorsTyped DEF WellFormedTree
<1> QED
  BY <1>2 DEF History

\* A node has one ancestor, or is itself, below each of its ancestors.
LEMMA OneKid ==
    ASSUME NEW n \in Node, NEW b \in {n} \cup Ancestors[n], NEW c \in {n} \cup Ancestors[n],
           b # Root, c # Root, Parent[b] = Parent[c]
    PROVE  b = c
<1>1. b \in Node \ {Root} /\ c \in Node \ {Root}
  BY AncestorsTyped
<1>2. b = c \/ b \in Ancestors[c] \/ c \in Ancestors[b]
  BY AncestorsComparable
<1>3. \A x, y \in Node \ {Root} : Parent[x] = Parent[y] => x \notin Ancestors[y]
  <2> SUFFICES ASSUME NEW x \in Node \ {Root}, NEW y \in Node \ {Root},
                      Parent[x] = Parent[y], x \in Ancestors[y]
               PROVE  FALSE
    OBVIOUS
  <2>1. x = Parent[y] \/ x \in Ancestors[Parent[y]]
    BY ParentAbove
  <2>2. Parent[x] \in Node /\ Order[Parent[x]] < Order[x]
    BY ParentIs
  <2>3. Order[x] <= Order[Parent[x]]
    BY <2>1, <2>2, AncestorsTyped, NodesNumbered
  <2> QED
    BY <2>2, <2>3, NodesNumbered
<1> QED
  BY <1>1, <1>2, <1>3

LEMMA BranchesUp ==
    ASSUME NEW G \in Branches
    PROVE  \A x \in G : Ancestors[x] \subseteq G
<1> DEFINE S == {n \in Node : n \in G => Ancestors[n] \subseteq G}
<1>1. Root \in S
  BY NodesNumbered, AncestorsAre
<1>2. ASSUME NEW n \in Node \ {Root}, Parent[n] \in S
      PROVE  n \in S
  BY <1>2, AncestorsAre DEF Branches
<1>3. Node \subseteq S
  BY <1>1, <1>2, TreeInduction
<1> QED
  BY <1>3 DEF Branches

LEMMA PieceOfFull ==
    ASSUME NEW n \in Node, NEW K \in FullTrees(n)
    PROVE  K \cap Below(n) \in Pieces(n)
<1>1. /\ K \subseteq Sub(n) /\ K \cap History = {} /\ n \in K /\ n \notin Below(n) /\ n # NoNode
  BY BelowIs, NodesNumbered DEF FullTrees
<1>2. K = {n} \cup (K \cap Below(n)) /\ K \cap Below(n) \subseteq Below(n) \ History
  BY <1>1 DEF Sub
<1>3. \A m \in K : Kids[m] \subseteq Below(n)
  <2> SUFFICES ASSUME NEW m \in K, NEW c \in Kids[m]
               PROVE  c \in Below(n)
    OBVIOUS
  <2>1. m \in Node /\ c \in Node /\ m \in Ancestors[c]
    BY <1>1, BelowIs, KidsAre
  <2> QED
    BY <2>1, <1>1, <1>2, BelowIs, AncestorsTransitive
<1>4. \A m \in K : /\ m # n => Parent[m] \in K
                   /\ Kind[m] = "compound" => \E k \in Kids[m] : Kids[m] \cap K = {k}
                   /\ Kind[m] = "parallel" => Kids[m] \subseteq K
  BY DEF FullTrees
<1>5. \A m \in K : Kids[m] \cap K = Kids[m] \cap (K \cap Below(n))
  BY <1>3
<1> QED
  BY <1>1, <1>2, <1>3, <1>4, <1>5 DEF Pieces

-----------------------------------------------------------------------------
(* Targets: what is entered for one, and the branches of several            *)

\* Where target s and its descendants are entered.
Place(s) == IF s \in History THEN Below(Parent[s]) ELSE Sub(s)

\* What is entered there: a state with all of it, or states below the parent
\* of a history node.
Landings(s) ==
    {K \in SUBSET Place(s) :
        /\ K # {} /\ K \cap Below(Spot(s)) \in Pieces(Spot(s))
        /\ s \notin History => s \in K
        /\ s \notin History /\ Kind[s] = "parallel" => Kids[s] \subseteq K}

Branch(s, acc) == (acc \cap Place(s)) \cup {Spot(s)} \cup Ancestors[Spot(s)]

LEMMA SpotIs ==
    ASSUME WellFormedTree, NEW s \in Node
    PROVE  /\ Spot(s) \in Node \ History /\ Spot(s) # NoNode
           /\ Place(s) \subseteq Sub(Spot(s)) /\ Below(Spot(s)) \subseteq Place(s)
           /\ Place(s) \subseteq Node
           /\ s \notin History => Spot(s) = s
           /\ s \in History => /\ Spot(s) = Parent[s] /\ Spot(s) \in Ancestors[s]
                               /\ Kind[Spot(s)] \in {"compound", "parallel"}
                               /\ s # Root
<1>1. CASE s \in History
  <2>1. s # Root
    BY <1>1, TreeAssumption
  <2>2. Parent[s] \in Ancestors[s] /\ Parent[s] \in Node
    BY <2>1, ParentAbove, ParentIs
  <2>3. Kind[Parent[s]] \in {"compound", "parallel"} /\ Parent[s] \in Node \ History
    BY <2>2, InnerNodes
  <2> QED
    BY <1>1, <2>1, <2>2, <2>3, NodesNumbered, BelowIs DEF Spot, Place, Sub
<1>2. CASE s \notin History
  BY <1>2, NodesNumbered, BelowIs DEF Spot, Place, Sub
<1> QED
  BY <1>1, <1>2

LEMMA BranchIs ==
    ASSUME WellFormedTree, NEW s \in Node, NEW acc, acc \cap Place(s) \in Landings(s)
    PROVE  Branch(s, acc) \in Branches
<1> DEFINE z == Spot(s)
           K == acc \cap Place(s)
           L == K \cap Below(z)
           G == Branch(s, acc)
<1>1. /\ z \in Node \ History /\ z # NoNode
      /\ Place(s) \subseteq Sub(z) /\ Place(s) \subseteq Node
  BY SpotIs
<1>2. L \in Pieces(z)
  BY DEF Landings
<1> HIDE DEF z
<1>3. G = L \cup {z} \cup Ancestors[z]
  BY <1>1 DEF Branch, Sub, z
<1>4. Ancestors[z] \subseteq Node \ History
  BY <1>1, InnerNodes
<1>5. L \subseteq Below(z) \ History /\ Below(z) \subseteq Node
  BY <1>2, BelowIs DEF Pieces
<1> HIDE DEF L, G
<1>6. G \in SUBSET (Node \ History)
  BY <1>1, <1>3, <1>4, <1>5
<1>7. Root \in G
  BY <1>1, <1>3, AncestorsTyped
<1>8. ASSUME NEW m \in G, m # Root
      PROVE  Parent[m] \in G
  <2>1. CASE m \in L
    BY <2>1, <1>2, <1>3, <1>8 DEF Pieces
  <2>2. CASE m = z
    BY <2>2, <1>1, <1>3, <1>8, ParentAbove
  <2>3. CASE m \in Ancestors[z]
    BY <2>3, <1>1, <1>3, <1>4, <1>8, ParentAbove, AncestorsTransitive
  <2> QED
    BY <2>1, <2>2, <2>3, <1>3
<1>9. ASSUME NEW m \in G, Kind[m] = "compound"
      PROVE  \E k \in Kids[m] : Kids[m] \cap G = {k}
  <2>1. m \in Node /\ \A c \in Kids[m] : c \in Node /\ c # Root /\ Parent[c] = m /\ m \in Ancestors[c]
    BY <1>6, KidsAre
  <2>2. CASE m \in L \cup {z}
    <3>1. PICK k \in Kids[m] : Kids[m] \cap L = {k}
      BY <2>1, <2>2, <1>2, <1>9 DEF Pieces
    <3>2. \A c \in Kids[m] : c # z /\ c \notin Ancestors[z]
      <4>1. m = z \/ z \in Ancestors[m]
        BY <2>1, <2>2, <1>5, <1>1, BelowIs
      <4>2. \A c \in Kids[m] : z \in Ancestors[c]
        BY <4>1, <2>1, AncestorsTransitive
      <4> QED
        BY <4>2, <2>1, <1>1, AncestorsTyped, AncestorsTransitive
    <3>3. Kids[m] \cap G = {k}
      BY <3>1, <3>2, <1>3
    <3> QED
      BY <3>3
  <2>3. CASE m \in Ancestors[z]
    <3>1. PICK k \in Node \ {Root} : Parent[k] = m /\ (k = z \/ k \in Ancestors[z])
      BY <2>3, <1>1, ChildOnPath
    <3>2. k \in Node \ History /\ k \in Kids[m] /\ k \in G
      BY <3>1, <1>1, <1>3, <1>4, <2>1 DEF Kids
    <3>3. ASSUME NEW c \in Kids[m] \cap G PROVE c = k
      <4>1. c \notin L
        <5>1. SUFFICES ASSUME c \in L PROVE FALSE
          OBVIOUS
        <5>2. m \in L \cup {z}
          BY <5>1, <2>1, <1>2 DEF Pieces
        <5>3. m = z \/ z \in Ancestors[m]
          BY <5>2, <1>5, <1>1, BelowIs
        <5> QED
          BY <5>3, <2>3, <1>1, AncestorsTyped, AncestorsTransitive
      <4>2. c \in {z} \cup Ancestors[z]
        BY <4>1, <1>3
      <4> QED
        BY <4>2, <3>1, <2>1, <1>1, OneKid
    <3> QED
      BY <3>2, <3>3
  <2> QED
    BY <2>2, <2>3, <1>3
<1> QED
  BY <1>6, <1>7, <1>8, <1>9 DEF Branches, G

\* Orthogonal targets are in places of their own.
LEMMA PlacesDisjoint ==
    ASSUME WellFormedTree, NEW S \in SUBSET Node, Orthogonal(S), NEW s \in S, NEW u \in S, s # u
    PROVE  /\ Sub(Spot(s)) \cap Sub(Spot(u)) = {} /\ Place(s) \cap Place(u) = {}
           /\ Spot(s) # Spot(u) /\ Spot(s) \notin Ancestors[Spot(u)] /\ Spot(u) \notin Ancestors[Spot(s)]
<1>1. /\ Spot(s) \in Node /\ Spot(u) \in Node
      /\ Place(s) \subseteq Sub(Spot(s)) /\ Place(u) \subseteq Sub(Spot(u))
  BY SpotIs
<1>2. Spot(s) # Spot(u) /\ Spot(s) \notin Ancestors[Spot(u)] /\ Spot(u) \notin Ancestors[Spot(s)]
  BY DEF Orthogonal, IsDescendant
<1>3. ASSUME NEW x \in Sub(Spot(s)), x \in Sub(Spot(u)) PROVE FALSE
  <2>1. x \in Node
    BY <1>1, <1>3, BelowIs
  <2>2. /\ x = Spot(s) \/ Spot(s) \in Ancestors[x]
        /\ x = Spot(u) \/ Spot(u) \in Ancestors[x]
    BY <1>1, <1>3, <2>1, BelowIs DEF Sub
  <2> QED
    BY <2>1, <2>2, <1>2, AncestorsComparable
<1> QED
  BY <1>1, <1>2, <1>3

\* A branch of one target has no other child of a compound state of the branch
\* of another.
LEMMA BranchesAgree ==
    ASSUME WellFormedTree, NEW S \in SUBSET Node, Orthogonal(S), NEW s \in S, NEW u \in S,
           NEW acc, acc \cap Place(s) \in Landings(s), acc \cap Place(u) \in Landings(u),
           NEW m \in Branch(s, acc), Kind[m] = "compound", NEW k \in Kids[m], k \in Branch(u, acc)
    PROVE  k \in Branch(s, acc)
<1>1. SUFFICES ASSUME s # u PROVE k \in Branch(s, acc)
  OBVIOUS
<1> DEFINE y == Spot(s)
           z == Spot(u)
<1>2. /\ y \in Node /\ z \in Node /\ y # z /\ Sub(y) \cap Sub(z) = {}
      /\ y \notin Ancestors[z] /\ z \notin Ancestors[y]
      /\ Place(s) \subseteq Sub(y) /\ Place(u) \subseteq Sub(z)
  BY <1>1, SpotIs, PlacesDisjoint
<1>3. /\ Branch(s, acc) \in Branches /\ Branch(u, acc) \in Branches
  BY BranchIs
<1>4. /\ Branch(s, acc) \subseteq Sub(y) \cup Ancestors[y] /\ Ancestors[y] \subseteq Branch(s, acc)
      /\ Branch(u, acc) \subseteq Sub(z) \cup Ancestors[z]
  BY <1>2, BelowIs DEF Branch
<1>5. \A a \in Ancestors[y] \cap Ancestors[z] :
          Kind[a] = "compound" => Kids[a] \cap Ancestors[y] \cap Ancestors[z] # {}
  BY <1>1 DEF Orthogonal
<1> HIDE DEF y, z
<1>6. m \in Node /\ k \in Node \ {Root} /\ Parent[k] = m /\ m \in Branch(u, acc)
  BY <1>3, KidsAre DEF Branches
<1>7. m \notin Sub(y)
  <2>1. SUFFICES ASSUME m \in Sub(y) PROVE FALSE
    OBVIOUS
  <2>2. m = y \/ y \in Ancestors[m]
    BY <2>1, <1>2, <1>6, BelowIs DEF Sub
  <2>3. m \in Ancestors[z]
    BY <2>1, <1>2, <1>4, <1>6
  <2> QED
    BY <2>2, <2>3, <1>2, AncestorsTransitive
<1>8. m \notin Sub(z)
  <2>1. SUFFICES ASSUME m \in Sub(z) PROVE FALSE
    OBVIOUS
  <2>2. m = z \/ z \in Ancestors[m]
    BY <2>1, <1>2, <1>6, BelowIs DEF Sub
  <2>3. m \in Ancestors[y]
    BY <1>7, <1>4
  <2> QED
    BY <2>2, <2>3, <1>2, AncestorsTransitive
<1>9. m \in Ancestors[y] /\ m \in Ancestors[z]
  BY <1>4, <1>6, <1>7, <1>8
<1>10. PICK c \in Kids[m] : c \in Ancestors[y] /\ c \in Ancestors[z]
  BY <1>5, <1>9
<1>11. c # Root /\ Parent[c] = m
  BY <1>6, KidsAre
<1>12. k \in {z} \cup Ancestors[z]
  <2>1. k \notin Below(z)
    <3>1. SUFFICES ASSUME z \in Ancestors[k] PROVE FALSE
      BY <1>2, <1>6, BelowIs
    <3>2. z = m \/ z \in Ancestors[m]
      BY <3>1, <1>6, ParentAbove
    <3> QED
      BY <3>2, <1>6, <1>8, <1>2, BelowIs DEF Sub
  <2> QED
    BY <2>1, <1>4 DEF Sub
<1>13. k = c
  BY <1>2, <1>6, <1>10, <1>11, <1>12, OneKid
<1> QED
  BY <1>4, <1>10, <1>13

Skeleton(S, acc) == UNION {Branch(s, acc) : s \in S}

\* The branches of orthogonal targets are those of one configuration.
LEMMA SkeletonIs ==
    ASSUME WellFormedTree, NEW S \in SUBSET Node, S # {}, Orthogonal(S),
           NEW acc, \A s \in S : acc \cap Place(s) \in Landings(s)
    PROVE  Skeleton(S, acc) \in Branches
<1> DEFINE G == Skeleton(S, acc)
<1>1. \A s \in S : Branch(s, acc) \in Branches /\ Branch(s, acc) \subseteq G
  BY BranchIs DEF Skeleton
<1>2. \A x \in G : \E s \in S : x \in Branch(s, acc)
  BY DEF Skeleton
<1> HIDE DEF G
<1>3. G \subseteq Node \ History /\ Root \in G
  BY <1>1, <1>2 DEF Branches
<1>4. ASSUME NEW m \in G, m # Root
      PROVE  Parent[m] \in G
  BY <1>1, <1>2, <1>4 DEF Branches
<1>5. ASSUME NEW m \in G, Kind[m] = "compound"
      PROVE  \E k \in Kids[m] : Kids[m] \cap G = {k}
  <2>1. PICK s \in S : m \in Branch(s, acc)
    BY <1>2
  <2>2. PICK k \in Kids[m] : Kids[m] \cap Branch(s, acc) = {k}
    BY <2>1, <1>1, <1>5 DEF Branches
  <2>3. \A c \in Kids[m] \cap G : c \in Branch(s, acc)
    BY <2>1, <1>2, <1>5, BranchesAgree
  <2> QED
    BY <2>2, <2>3, <1>1
<1> QED
  BY <1>3, <1>4, <1>5 DEF Branches, G

-----------------------------------------------------------------------------
(* AddAncestors: what was entered grows along the path to d                 *)

\* acc has, below d, nodes of the branches G, from which only those of the
\* path are missing.
Build(G, acc, path, d) ==
    /\ G \in Branches /\ acc \in SUBSET Node
    /\ d = NoNode \/ d \in G
    /\ acc \cap Below(d) \subseteq G
    /\ path \subseteq G \cap Below(d) /\ G \cap Below(d) \subseteq acc \cup path
    /\ \A m \in acc \cap Below(d) : Kind[m] = "parallel" => Kids[m] \subseteq G
    /\ \A g \in G \cap Below(d) : acc \cap Sub(g) # {}

\* The step of AddAncestors for p.
Adding(p, down, acc) ==
    IF Kind[p] = "parallel" THEN AddRegions(p, down, acc \cup {p}) ELSE acc \cup {p}

LEMMA StateAdded ==
    ASSUME NEW G, NEW acc, NEW path, NEW d \in Node \cup {NoNode}, Build(G, acc, path, d),
           NEW p \in path, Kind[p] # "parallel"
    PROVE  Build(G, acc \cup {p}, path, d)
<1>1. p \in G /\ p \in Below(d) /\ p \in Node
  BY BelowIs DEF Build
<1> QED
  BY <1>1 DEF Build

LEMMA ParallelAdded ==
    ASSUME NEW G, NEW acc, NEW path, NEW d \in Node \cup {NoNode}, Build(G, acc, path, d),
           NEW p \in path, Kind[p] = "parallel", NEW r, WithRegions(p, acc \cup {p}, r)
    PROVE  /\ Build(G \cup (r \cap Below(d)), r, path, d)
           /\ acc \cup {p} \subseteq r /\ r \subseteq acc \cup Below(d)
<1> DEFINE b == acc \cup {p}
           H == G \cup (r \cap Below(d))
           New == {c \in Kids[p] : b \cap Below(c) = {}}
<1>1. /\ p \in G /\ p \in Below(d) /\ p \in Node /\ Below(d) \subseteq Node
      /\ acc \in SUBSET Node /\ G \in Branches /\ G \subseteq Node \ History
  BY BelowIs DEF Build, Branches
<1>2. \A c \in Kids[p] : /\ c \in Node \ {Root} /\ c \notin History /\ Parent[c] = p
                         /\ Sub(c) \subseteq Below(p) /\ p \notin Sub(c) /\ Sub(c) \subseteq Node
                         /\ Sub(c) = {c} \cup Below(c)
  BY <1>1, KidsAre, BelowIs DEF Sub
<1>3. Below(p) \subseteq Below(d) /\ \A c \in Kids[p] : Sub(c) \subseteq Below(d)
  BY <1>1, <1>2, BelowIs DEF Sub
<1>4. /\ b \subseteq r /\ r \subseteq Node
      /\ \A x \in r \ b : \E c \in New : x \in Sub(c)
      /\ \A c \in New : r \cap Sub(c) \in FullTrees(c)
  BY DEF WithRegions
<1>5. b \cap Below(d) \subseteq G /\ \A g \in G \cap Below(d) : acc \cap Sub(g) # {}
  BY <1>1 DEF Build
<1> HIDE DEF b
<1>6. ASSUME NEW c \in New
      PROVE  /\ H \cap Sub(c) = r \cap Sub(c) /\ c \in r
             /\ \A m \in r \cap Sub(c) :
                    /\ m # c => Parent[m] \in r \cap Sub(c)
                    /\ Kind[m] = "compound" => \E k \in Kids[m] : Kids[m] \cap (r \cap Sub(c)) = {k}
                    /\ Kind[m] = "parallel" => Kids[m] \subseteq r \cap Sub(c)
  <2>1. ASSUME NEW g \in G \cap Sub(c) PROVE g \in r
    <3>1. g \in Below(d) /\ g \in Node /\ c \in Node
      BY <1>2, <1>3, <1>6
    <3>2. PICK x \in acc : x \in Sub(g)
      BY <3>1, <1>5
    <3>3. g = c \/ g \in Below(c)
      BY <1>2, <1>6
    <3>4. x \in Sub(c) /\ x \notin Below(c)
      <4>1. g \in Below(c) => Sub(g) \subseteq Below(c)
        BY <3>1, BelowIs
      <4> QED
        BY <4>1, <3>2, <3>3, <1>2, <1>6 DEF b
    <3>5. g \notin Below(c)
      BY <3>1, <3>2, <3>4, BelowIs
    <3>6. x = c /\ g = c
      BY <3>3, <3>4, <3>5, <1>2, <1>6
    <3> QED
      BY <3>2, <3>6, <1>4 DEF b
  <2>2. c \in r
    BY <1>4, <1>6 DEF FullTrees
  <2>3. H \cap Sub(c) = r \cap Sub(c)
    BY <2>1, <1>3, <1>6
  <2>4. r \cap Sub(c) \in FullTrees(c)
    BY <1>4, <1>6
  <2> QED
    BY <2>2, <2>3, <2>4 DEF FullTrees
<1>7. \A x \in H \ G : \E c \in New : x \in Sub(c) /\ x \in r
  BY <1>1, <1>4, <1>5
<1> HIDE DEF H, New
<1>8. New \subseteq Kids[p] /\ G \subseteq H /\ r \cap Below(d) \subseteq H /\ H \subseteq G \cup (r \cap Below(d))
  BY DEF New, H
<1>9. H \in SUBSET (Node \ History)
  <2>1. \A c \in New : r \cap Sub(c) \cap History = {}
    BY <1>4 DEF FullTrees
  <2> QED
    BY <2>1, <1>7, <1>8, <1>1
<1>10. ASSUME NEW m \in H, m # Root
       PROVE  Parent[m] \in H
  <2>1. CASE m \in G
    BY <2>1, <1>1, <1>8, <1>10 DEF Branches
  <2>2. CASE m \notin G
    <3>1. PICK c \in New : m \in Sub(c) /\ m \in r
      BY <2>2, <1>7
    <3> QED
      BY <3>1, <1>1, <1>2, <1>3, <1>6, <1>8
  <2> QED
    BY <2>1, <2>2
<1>11. ASSUME NEW m \in H, Kind[m] = "compound"
       PROVE  \E k \in Kids[m] : Kids[m] \cap H = {k}
  <2>1. m \in Node /\ \A x \in Kids[m] : x \in Node \ {Root} /\ Parent[x] = m
    BY <1>9, KidsAre
  <2>2. CASE \E c \in New : m \in Sub(c)
    <3>1. PICK c \in New : m \in Sub(c)
      BY <2>2
    <3>2. m \in r \cap Sub(c)
      BY <3>1, <1>6
    <3>3. PICK k \in Kids[m] : Kids[m] \cap (r \cap Sub(c)) = {k}
      BY <3>1, <3>2, <1>6, <1>11
    <3>4. Kids[m] \subseteq Sub(c)
      <4>1. c \in Node /\ Sub(c) = {c} \cup Below(c) /\ (m = c \/ m \in Below(c))
        BY <3>1, <1>2, <1>8
      <4>2. \A x \in Kids[m] : x \in Below(m)
        BY <2>1, KidsAre, BelowIs
      <4>3. m \in Below(c) => Below(m) \subseteq Below(c)
        BY <4>1, BelowIs DEF Sub
      <4> QED
        BY <4>1, <4>2, <4>3
    <3>5. Kids[m] \cap H = Kids[m] \cap (r \cap Sub(c))
      BY <3>1, <3>4, <1>6
    <3> QED
      BY <3>3, <3>5
  <2>3. CASE \A c \in New : m \notin Sub(c)
    <3>1. m \in G /\ m # p
      BY <2>3, <1>7, <1>11
    <3>2. PICK k \in Kids[m] : Kids[m] \cap G = {k}
      BY <3>1, <1>1, <1>11 DEF Branches
    <3>3. ASSUME NEW x \in Kids[m], x \in H PROVE x \in G
      <4>1. SUFFICES ASSUME x \notin G PROVE FALSE
        OBVIOUS
      <4>2. PICK c \in New : x \in Sub(c) /\ x \in r
        BY <4>1, <3>3, <1>7
      <4>3. x # c
        BY <4>2, <3>1, <2>1, <1>2, <1>8
      <4>4. Parent[x] \in Sub(c)
        BY <4>2, <4>3, <1>6
      <4> QED
        BY <4>2, <4>4, <2>1, <2>3
    <3>4. Kids[m] \cap H = Kids[m] \cap G
      BY <3>3, <1>8
    <3> QED
      BY <3>2, <3>4
  <2> QED
    BY <2>2, <2>3
<1>12. H \in Branches
  BY <1>1, <1>8, <1>9, <1>10, <1>11 DEF Branches
<1>13. ASSUME NEW m \in r \cap Below(d), Kind[m] = "parallel"
       PROVE  Kids[m] \subseteq H
  <2>1. CASE \E c \in New : m \in Sub(c)
    BY <2>1, <1>13, <1>6
  <2>2. CASE m = p
    <3> SUFFICES ASSUME NEW c \in Kids[p] PROVE c \in H
      BY <2>2
    <3>1. CASE c \in New
      BY <3>1, <1>2, <1>3, <1>6, <1>8
    <3>2. CASE c \notin New
      <4>1. PICK x \in b : x \in Below(c)
        BY <3>2 DEF New
      <4>2. x \in Node /\ c \in Node /\ x \in Below(d) /\ x \in G
        BY <4>1, <1>2, <1>3, <1>5
      <4>3. c \in Ancestors[x]
        BY <4>1, <4>2, BelowIs
      <4> QED
        BY <4>2, <4>3, <1>1, <1>8, BranchesUp
    <3> QED
      BY <3>1, <3>2
  <2>3. CASE m # p /\ \A c \in New : m \notin Sub(c)
    <3>1. m \in acc \cap Below(d)
      BY <2>3, <1>4, <1>13 DEF b
    <3> QED
      BY <3>1, <1>13, <1>8 DEF Build
  <2> QED
    BY <2>1, <2>2, <2>3
<1>14. ASSUME NEW g \in H \cap Below(d)
       PROVE  r \cap Sub(g) # {}
  <2>1. CASE g \in G
    BY <2>1, <1>4, <1>5, <1>14 DEF b
  <2>2. CASE g \notin G
    BY <2>2, <1>7, <1>9, <1>14, BelowIs
  <2> QED
    BY <2>1, <2>2
<1>15. r \subseteq acc \cup Below(d)
  BY <1>1, <1>3, <1>4, <1>8 DEF b
<1>16. /\ d = NoNode \/ d \in G
       /\ path \subseteq G \cap Below(d) /\ G \cap Below(d) \subseteq acc \cup path
  BY DEF Build
<1>17. path \subseteq H \cap Below(d) /\ H \cap Below(d) \subseteq r \cup path
  BY <1>16, <1>8, <1>4 DEF b
<1>18. Build(H, r, path, d)
  BY <1>4, <1>8, <1>12, <1>13, <1>14, <1>16, <1>17 DEF Build
<1> QED
  BY <1>4, <1>15, <1>18 DEF b, H

Grown(acc, path, d) == \E G : Build(G, acc, path, d)

\* r is acc and more of what is below d.
Grows(acc, r, path, d) ==
    Grown(r, path, d) /\ acc \subseteq r /\ r \subseteq acc \cup Below(d)

EntersAll(down) == \A n \in Node \ History : Enters(down, n)

LEMMA AncestorAdded ==
    ASSUME NEW down, EntersAll(down), NEW acc, NEW path, NEW d \in Node \cup {NoNode},
           Grown(acc, path, d), NEW p \in path
    PROVE  Grows(acc, Adding(p, down, acc), path, d) /\ p \in Adding(p, down, acc)
<1>1. PICK G : Build(G, acc, path, d)
  BY DEF Grown
<1>2. p \in Node /\ p \in Below(d) /\ acc \cup {p} \in SUBSET Node
  BY <1>1, BelowIs DEF Build
<1>3. CASE Kind[p] # "parallel"
  BY <1>1, <1>2, <1>3, StateAdded DEF Grown, Grows, Adding
<1>4. CASE Kind[p] = "parallel"
  <2>1. \A c \in Kids[p] : Enters(down, c)
    BY <1>2, KidsAre DEF EntersAll
  <2> DEFINE b == acc \cup {p}
             r == AddRegions(p, down, b)
  <2>2. WithRegions(p, b, r)
    <3> HIDE DEF b
    <3>1. b \in SUBSET Node
      BY <1>2 DEF b
    <3> QED
      BY <2>1, <3>1, <1>2, RegionsAdded
  <2> HIDE DEF r
  <2>3. /\ Build(G \cup (r \cap Below(d)), r, path, d)
        /\ acc \cup {p} \subseteq r /\ r \subseteq acc \cup Below(d)
    BY <1>1, <1>4, <2>2, ParallelAdded
  <2>4. Grows(acc, r, path, d) /\ p \in r
    BY <2>3 DEF Grows, Grown
  <2> QED
    BY <2>4, <1>4 DEF Adding, r
<1> QED
  BY <1>3, <1>4

LEMMA AncestorsAdded ==
    ASSUME NEW down, EntersAll(down), NEW acc, NEW path, NEW d \in Node \cup {NoNode},
           Grown(acc, path, d), NEW s \in Node, ProperAncestors(s, d) \subseteq path
    PROVE  LET r == AddAncestors(s, d, down, acc) IN
           Grows(acc, r, path, d) /\ ProperAncestors(s, d) \subseteq r
<1> DEFINE PA == ProperAncestors(s, d)
           step == [p \in PA |-> [a \in SUBSET Node |->
                        IF Kind[p] = "parallel" THEN AddRegions(p, down, a \cup {p})
                                                ELSE a \cup {p}]]
           Sound(T, a) == Grows(acc, a, path, d) /\ T \subseteq a
           Rel == {q \in (SUBSET PA) \X (SUBSET Node) : Sound(q[1], q[2])}
<1>1. PA \subseteq Node /\ IsFiniteSet(PA) /\ \A p \in PA : Outward[p] \in Int
  <2>1. PA \subseteq Ancestors[s] /\ Ancestors[s] \subseteq Node
    BY AncestorsTyped DEF ProperAncestors
  <2> QED
    BY <2>1, NodesNumbered, FS_Subset DEF Outward
<1>2. AddAncestors(s, d, down, acc) = InOrder(Outward, step, acc)
  BY DEF AddAncestors
<1>3. \A p \in PA : \A a \in SUBSET Node : step[p][a] = Adding(p, down, a)
  BY DEF Adding
<1>4. DOMAIN step = PA
  OBVIOUS
<1> HIDE DEF step, PA
<1>5. acc \in SUBSET Node
  BY DEF Grown, Build
<1>6. <<{}, acc>> \in Rel
  BY <1>5 DEF Grows
<1>7. ASSUME NEW T \in SUBSET PA, NEW p \in PA \ T, NEW a, <<T, a>> \in Rel,
             \A y \in T : Outward[y] <= Outward[p]
      PROVE  <<T \cup {p}, step[p][a]>> \in Rel
  <2>1. a \in SUBSET Node /\ Grows(acc, a, path, d) /\ T \subseteq a
    BY <1>7
  <2>2. p \in path
    BY DEF PA
  <2> DEFINE b == Adding(p, down, a)
  <2>3. Grows(a, b, path, d) /\ p \in b
    BY <2>1, <2>2, AncestorAdded DEF Grows
  <2> HIDE DEF b
  <2>4. b \in SUBSET Node
    BY <2>3 DEF Grows, Grown, Build
  <2>5. Grows(acc, b, path, d) /\ T \cup {p} \subseteq b
    BY <2>1, <2>3 DEF Grows
  <2>6. step[p][a] = b
    BY <1>3, <2>1 DEF b
  <2> QED
    BY <2>4, <2>5, <2>6
<1>8. <<PA, InOrder(Outward, step, acc)>> \in Rel
  <2> HIDE DEF Rel
  <2> QED
    BY <1>1, <1>4, <1>6, <1>7, InOrderKeeps
<1>9. Grows(acc, InOrder(Outward, step, acc), path, d) /\ PA \subseteq InOrder(Outward, step, acc)
  BY <1>8
<1> QED
  BY <1>2, <1>9 DEF PA

\* The ancestors below d of the states in X.
PathOf(X, d) == UNION {ProperAncestors(x, d) : x \in X}

\* The step of a fold that adds the ancestors of x.
Joining(X, d, down) == [x \in X |-> [a \in SUBSET Node |-> AddAncestors(x, d, down, a)]]

LEMMA TargetsJoined ==
    ASSUME NEW down, EntersAll(down), NEW acc, NEW X \in SUBSET Node, NEW d \in Node \cup {NoNode},
           Grown(acc, PathOf(X, d), d)
    PROVE  LET r == InOrder(Order, Joining(X, d, down), acc) IN
           Grows(acc, r, PathOf(X, d), d) /\ PathOf(X, d) \subseteq r
<1> DEFINE path == PathOf(X, d)
           step == Joining(X, d, down)
           Sound(T, a) == Grows(acc, a, path, d) /\ PathOf(T, d) \subseteq a
           Rel == {q \in (SUBSET X) \X (SUBSET Node) : Sound(q[1], q[2])}
<1>1. IsFiniteSet(X) /\ \A x \in X : Order[x] \in Int
  BY NodesNumbered, FS_Subset
<1>2. \A x \in X : ProperAncestors(x, d) \subseteq path
  BY DEF PathOf
<1>3. \A x \in X : \A a \in SUBSET Node : step[x][a] = AddAncestors(x, d, down, a)
  BY DEF Joining
<1>4. DOMAIN step = X
  BY DEF Joining
<1> HIDE DEF step, path
<1>5. acc \in SUBSET Node /\ Grown(acc, path, d)
  BY DEF Grown, Build, path
<1>6. <<{}, acc>> \in Rel
  BY <1>5 DEF Grows, PathOf
<1>7. ASSUME NEW T \in SUBSET X, NEW x \in X \ T, NEW a, <<T, a>> \in Rel,
             \A y \in T : Order[y] <= Order[x]
      PROVE  <<T \cup {x}, step[x][a]>> \in Rel
  <2>1. a \in SUBSET Node /\ Grows(acc, a, path, d) /\ PathOf(T, d) \subseteq a
    BY <1>7
  <2> DEFINE b == AddAncestors(x, d, down, a)
  <2>2. x \in Node /\ ProperAncestors(x, d) \subseteq path /\ Grown(a, path, d)
    BY <1>2, <2>1 DEF Grows
  <2>3. Grows(a, b, path, d) /\ ProperAncestors(x, d) \subseteq b
    BY <2>2, AncestorsAdded
  <2>4. step[x][a] = b
    BY <1>3, <2>1
  <2> HIDE DEF b
  <2>5. b \in SUBSET Node
    BY <2>3 DEF Grows, Grown, Build
  <2>6. PathOf(T \cup {x}, d) = PathOf(T, d) \cup ProperAncestors(x, d)
    BY DEF PathOf
  <2>7. Grows(acc, b, path, d) /\ PathOf(T \cup {x}, d) \subseteq b
    BY <2>1, <2>3, <2>6 DEF Grows
  <2>8. T \cup {x} \in SUBSET X
    OBVIOUS
  <2> QED
    BY <2>4, <2>5, <2>7, <2>8
<1>8. <<X, InOrder(Order, step, acc)>> \in Rel
  <2> HIDE DEF Rel
  <2> QED
    BY <1>1, <1>4, <1>6, <1>7, InOrderKeeps
<1> QED
  BY <1>8 DEF step, path

\* With the whole path, what is below d is complete but for its own regions.
LEMMA PieceBuilt ==
    ASSUME NEW acc, NEW path, NEW d \in Node \cup {NoNode}, Grown(acc, path, d), path \subseteq acc
    PROVE  acc \cap Below(d) \in Pieces(d)
<1>1. PICK G : Build(G, acc, path, d)
  BY DEF Grown
<1> DEFINE K == acc \cap Below(d)
<1>2. K = G \cap Below(d) /\ G \in Branches /\ G \subseteq Node \ History /\ (d = NoNode \/ d \in G)
  BY <1>1 DEF Build, Branches
<1>3. \A m \in K : Kind[m] = "parallel" => Kids[m] \subseteq G
  BY <1>1 DEF Build
<1> HIDE DEF K
<1>4. d = NoNode => Root \in K
  BY <1>2, BelowIs, NodesNumbered DEF Branches
<1>5. ASSUME NEW m \in K, m # Root
      PROVE  Parent[m] \in K \cup {d}
  <2>1. m \in Node /\ Parent[m] \in G /\ Parent[m] \in Node
    BY <1>2, <1>5, ParentIs DEF Branches
  <2>2. CASE d = NoNode
    BY <2>1, <2>2, <1>2, BelowIs
  <2>3. CASE d # NoNode
    <3>1. d \in Node /\ d \in Ancestors[m]
      BY <2>1, <2>3, <1>2, BelowIs
    <3>2. Parent[m] = d \/ Parent[m] \in Below(d)
      BY <3>1, <2>1, <1>5, ParentAbove, BelowIs
    <3> QED
      BY <3>2, <2>1, <1>2
  <2> QED
    BY <2>2, <2>3
<1>6. \A m \in (K \cup {d}) \cap Node : m \in G /\ Kids[m] \subseteq Below(d)
  <2> SUFFICES ASSUME NEW m \in Node, m \in K \cup {d}
               PROVE  m \in G /\ Kids[m] \subseteq Below(d)
    OBVIOUS
  <2>1. m \in G
    BY <1>2, NodesNumbered
  <2>2. \A c \in Kids[m] : c \in Node /\ c \in Below(m)
    BY KidsAre, BelowIs
  <2>3. CASE m \in Below(d)
    <3>1. Sub(m) \subseteq Below(d)
      BY <2>3, BelowIs
    <3> QED
      BY <3>1, <2>1, <2>2 DEF Sub
  <2>4. CASE m = d
    BY <2>1, <2>2, <2>4
  <2> QED
    BY <2>3, <2>4, <1>2
<1>7. \A m \in (K \cup {d}) \cap Node : Kids[m] \cap G = Kids[m] \cap K
  BY <1>2, <1>6
<1>8. \A m \in (K \cup {d}) \cap Node :
          Kind[m] = "compound" => \E k \in Kids[m] : Kids[m] \cap K = {k}
  BY <1>2, <1>6, <1>7 DEF Branches
<1>9. \A m \in K : Kind[m] = "parallel" => Kids[m] \subseteq K
  BY <1>2, <1>3, <1>6
<1>10. K \in SUBSET (Below(d) \ History)
  BY <1>2
<1> QED
  BY <1>4, <1>5, <1>8, <1>9, <1>10 DEF Pieces, K

-----------------------------------------------------------------------------
(* Entering orthogonal targets below d                                      *)

\* The states that a target stands for.
Stands(s, h) == IF s \in History THEN Restored(s, h) ELSE {s}

LandingsOf(s, h) == {K \in Landings(s) : Stands(s, h) \subseteq K}

\* down enters target s in its place.
Lands(down, s, h) ==
    \A a \in SUBSET Node : a \cap Place(s) = {} =>
        /\ a \subseteq down[s][a] /\ down[s][a] \subseteq a \cup Place(s)
        /\ down[s][a] \cap Place(s) \in LandingsOf(s, h)

LEMMA StateLands ==
    ASSUME NEW down, NEW h, NEW s \in Node \ History, Enters(down, s)
    PROVE  Lands(down, s, h)
<1> SUFFICES ASSUME NEW a \in SUBSET Node, a \cap Place(s) = {}
             PROVE  /\ a \subseteq down[s][a] /\ down[s][a] \subseteq a \cup Place(s)
                    /\ down[s][a] \cap Place(s) \in LandingsOf(s, h)
  BY DEF Lands
<1>1. Place(s) = Sub(s) /\ Spot(s) = s /\ Stands(s, h) = {s} /\ Below(s) \subseteq Sub(s)
  BY DEF Place, Spot, Stands, Sub
<1> DEFINE K == down[s][a] \cap Sub(s)
<1>2. a \subseteq down[s][a] /\ down[s][a] \subseteq a \cup Sub(s) /\ K \in FullTrees(s)
  BY <1>1 DEF Enters
<1> HIDE DEF K
<1>3. K \cap Below(s) \in Pieces(s) /\ s \in K /\ K \subseteq Sub(s)
      /\ (Kind[s] = "parallel" => Kids[s] \subseteq K)
  BY <1>2, PieceOfFull DEF FullTrees
<1>4. K \in LandingsOf(s, h)
  BY <1>1, <1>3 DEF LandingsOf, Landings
<1> QED
  BY <1>1, <1>2, <1>4 DEF K

\* Where to enter the targets S, of which h says what history nodes stand for.
Enterable(S, d, h) ==
    /\ S \in SUBSET Node /\ S # {} /\ Orthogonal(S)
    /\ \A s \in S : /\ Place(s) \subseteq Below(d)
                    /\ d = NoNode \/ d = Spot(s) \/ d \in Ancestors[Spot(s)]
                    /\ Stands(s, h) # {} /\ Stands(s, h) \subseteq Node

\* Entering the targets S, which stand for X, when nothing is entered below d.
Entering(down, h, S, X, d, acc) ==
    /\ EntersAll(down) /\ Enterable(S, d, h) /\ d \in Node \cup {NoNode}
    /\ \A s \in S : Lands(down, s, h)
    /\ acc \in SUBSET Node /\ acc \cap Below(d) = {}
    /\ X = UNION {Stands(s, h) : s \in S}

Entered(down, S, X, d, acc) ==
    InOrder(Order, Joining(X, d, down), InOrder(Order, [s \in S |-> down[s]], acc))

LEMMA TargetsEntered ==
    ASSUME WellFormedTree, NEW down, NEW h, NEW S, NEW X, NEW d, NEW acc,
           Entering(down, h, S, X, d, acc)
    PROVE  LET r == Entered(down, S, X, d, acc) IN
           /\ acc \subseteq r /\ r \subseteq acc \cup Below(d)
           /\ r \cap Below(d) \in Pieces(d) /\ X \subseteq r
<1> DEFINE step == [s \in S |-> down[s]]
           Zone == [s \in S |-> Place(s)]
           Good == [s \in S |-> LandingsOf(s, h)]
           b == InOrder(Order, step, acc)
           path == PathOf(X, d)
<1>1. /\ S \in SUBSET Node /\ S # {} /\ Orthogonal(S)
      /\ \A s \in S : /\ Place(s) \subseteq Below(d)
                      /\ d = NoNode \/ d = Spot(s) \/ d \in Ancestors[Spot(s)]
                      /\ Stands(s, h) # {} /\ Stands(s, h) \subseteq Node
  BY DEF Entering, Enterable
<1>0. /\ EntersAll(down) /\ d \in Node \cup {NoNode} /\ \A s \in S : Lands(down, s, h)
      /\ acc \in SUBSET Node /\ acc \cap Below(d) = {}
      /\ X = UNION {Stands(s, h) : s \in S}
  BY DEF Entering
<1>2. Below(d) \subseteq Node
  BY BelowIs
<1>3. ZonedFold(S, Order, step, Node, acc, Zone, Good)
  <2>1. IsFiniteSet(S) /\ \A s \in S : Order[s] \in Int
    BY <1>1, NodesNumbered, FS_Subset
  <2>2. \A x, y \in S : x # y => Place(x) \cap Place(y) = {}
    BY <1>1, PlacesDisjoint
  <2>3. \A s \in S : acc \cap Place(s) = {} /\ Place(s) \subseteq Node
    BY <1>0, <1>1, <1>2
  <2>4. ASSUME NEW s \in S, NEW a \in SUBSET Node, a \cap Place(s) = {}
        PROVE  /\ a \subseteq down[s][a] /\ down[s][a] \subseteq a \cup Place(s)
               /\ down[s][a] \cap Place(s) \in LandingsOf(s, h)
    BY <2>4, <1>0 DEF Lands
  <2> QED
    BY <2>1, <2>2, <2>3, <2>4, <1>0 DEF ZonedFold
<1>4. /\ b \in SUBSET Node /\ acc \subseteq b
      /\ \A z \in b : z \in acc \/ \E s \in S : z \in Zone[s]
      /\ \A s \in S : b \cap Zone[s] \in Good[s]
  <2> HIDE DEF step, Zone, Good
  <2> QED
    BY <1>3, InOrderZones
<1>5. /\ \A z \in b : z \in acc \/ \E s \in S : z \in Place(s)
      /\ \A s \in S : b \cap Place(s) \in Landings(s) /\ Stands(s, h) \subseteq b \cap Place(s)
  BY <1>4 DEF LandingsOf
<1> HIDE DEF b
<1> DEFINE G == Skeleton(S, b)
<1>6. G \in Branches
  BY <1>1, <1>5, SkeletonIs
<1>7. /\ \A g \in G : \E s \in S : g \in Branch(s, b)
      /\ \A s \in S : Branch(s, b) \subseteq G
  BY DEF Skeleton
<1> HIDE DEF G
<1>8. G \subseteq Node /\ \A x \in G : Ancestors[x] \subseteq G
  BY <1>6, BranchesUp DEF Branches
<1>9. \A s \in S : b \cap Place(s) \subseteq G /\ Spot(s) \in G
  BY <1>7 DEF Branch
<1>10. \A x \in X : x \in Node /\ x \in b /\ x \in G /\ x \in Below(d)
  BY <1>0, <1>1, <1>5, <1>9
<1>11. \A x \in X : ProperAncestors(x, d) = Ancestors[x] \cap Below(d)
  <2> SUFFICES ASSUME NEW x \in X
               PROVE  ProperAncestors(x, d) = Ancestors[x] \cap Below(d)
    OBVIOUS
  <2>1. d = NoNode \/ d \in Ancestors[x]
    BY <1>0, <1>10, BelowIs
  <2> QED
    BY <2>1, <1>0, <1>10, ProperAncestorsAre
<1>12. path \subseteq G \cap Below(d)
  BY <1>8, <1>10, <1>11 DEF PathOf
<1>13. b \cap Below(d) \subseteq G /\ \A z \in b \cap Below(d) : \E s \in S : z \in Place(s)
  BY <1>0, <1>5, <1>9
<1>14. ASSUME NEW g \in G \cap Below(d)
       PROVE  g \in b \cup path /\ b \cap Sub(g) # {}
  <2>1. PICK s \in S : g \in Branch(s, b)
    BY <1>7
  <2>2. PICK x \in Stands(s, h) : TRUE
    BY <1>1
  <2>3. x \in X /\ x \in b /\ x \in Node /\ s \in Node /\ g \in Node /\ x \in Place(s)
    <3>1. x \in X
      BY <1>0, <2>2
    <3>2. x \in Place(s) /\ s \in Node
      BY <1>1, <1>5, <2>2
    <3> QED
      BY <3>1, <3>2, <1>8, <1>10
  <2>4. g \in Sub(g)
    BY <2>3, BelowIs
  <2>5. CASE g \in b
    BY <2>4, <2>5
  <2>6. CASE g \notin b
    <3>1. g = Spot(s) \/ g \in Ancestors[Spot(s)]
      BY <2>1, <2>6 DEF Branch
    <3>2. x = Spot(s) \/ Spot(s) \in Ancestors[x]
      <4>1. x \in Sub(Spot(s)) /\ Spot(s) \in Node
        BY <2>3, SpotIs
      <4> QED
        BY <4>1, <2>3, BelowIs DEF Sub
    <3>3. g = x \/ g \in Ancestors[x]
      BY <3>1, <3>2, <2>3, AncestorsTransitive
    <3>4. g \in Ancestors[x]
      BY <3>3, <2>3, <2>6
    <3>5. g \in path
      BY <3>4, <2>3, <1>11 DEF PathOf
    <3>6. x \in Sub(g)
      BY <3>4, <2>3, BelowIs DEF Sub
    <3> QED
      BY <3>5, <3>6, <2>3
  <2> QED
    BY <2>5, <2>6
<1>15. ASSUME NEW m \in b \cap Below(d), Kind[m] = "parallel"
       PROVE  Kids[m] \subseteq G
  <2>1. PICK s \in S : m \in Place(s)
    BY <1>13
  <2> DEFINE K == b \cap Place(s)
  <2>2. K \in Landings(s) /\ m \in K /\ K \subseteq G /\ s \in Node
    BY <2>1, <1>1, <1>5, <1>9
  <2> HIDE DEF K
  <2>3. CASE m \in Below(Spot(s))
    BY <2>2, <2>3, <1>15 DEF Landings, Pieces
  <2>4. CASE m \notin Below(Spot(s))
    <3>1. s \notin History /\ m = s
      BY <2>1, <2>4 DEF Place, Spot, Sub
    <3> QED
      BY <3>1, <2>2, <1>15 DEF Landings
  <2> QED
    BY <2>3, <2>4
<1>16. d = NoNode \/ d \in G
  BY <1>1, <1>8, <1>9
<1>17. Build(G, b, path, d)
  BY <1>4, <1>6, <1>12, <1>13, <1>14, <1>15, <1>16 DEF Build
<1>18. Grown(b, path, d) /\ X \in SUBSET Node
  BY <1>10, <1>17 DEF Grown
<1> DEFINE r == InOrder(Order, Joining(X, d, down), b)
<1>19. Grows(b, r, path, d) /\ path \subseteq r
  BY <1>0, <1>18, TargetsJoined
<1> HIDE DEF r, path
<1>20. r \cap Below(d) \in Pieces(d)
  BY <1>0, <1>19, PieceBuilt DEF Grows
<1>21. acc \subseteq r /\ r \subseteq acc \cup Below(d) /\ X \subseteq r
  <2>1. b \subseteq r /\ r \subseteq b \cup Below(d)
    BY <1>19 DEF Grows
  <2>2. b \subseteq acc \cup Below(d)
    BY <1>1, <1>5
  <2> QED
    BY <2>1, <2>2, <1>4, <1>10
<1> QED
  BY <1>20, <1>21 DEF r, b, Entered

-----------------------------------------------------------------------------
(* History                                                                  *)

\* T is not within one child of n's parent.
Spread(n, T) == \A c \in Kids[Parent[n]] : \E x \in T : x \notin Sub(c)

\* What the history node n can stand for.
SensibleFor(n, T) ==
    /\ T # {} /\ T \subseteq Below(Parent[n]) \ History /\ Orthogonal(T)
    /\ Kind[Parent[n]] = "parallel" /\ Spread(n, HistoryTarget[n]) => Spread(n, T)

Sensible(h) == \A n \in History : SensibleFor(n, Restored(n, h))

\* What is recorded for n when conf is left.
Memory(n, conf) ==
    IF n \in Deep THEN {s \in conf : IsAtomic(s) /\ IsDescendant(s, Parent[n])}
    ELSE {s \in conf : s # Root /\ Parent[s] = Parent[n]}

\* Every record was made of a legal configuration.
Remembers(h) ==
    /\ h \in [History -> SUBSET (Node \ History)]
    /\ \A n \in History : h[n] = {} \/ \E C \in FullTrees(Root) :
                                           Parent[n] \in C /\ h[n] = Memory(n, C)

LEMMA FullIsBranches == FullTrees(Root) \subseteq Branches
BY NodesNumbered, BelowIs DEF FullTrees, Branches

\* Every active state has an active atomic state.
LEMMA AtomicBelow ==
    ASSUME WellFormedTree, NEW C \in FullTrees(Root), NEW p \in C
    PROVE  \E a \in C : IsAtomic(a) /\ a \in Sub(p)
<1>1. C \subseteq Node /\ p \in Node
  BY NodesNumbered, BelowIs DEF FullTrees
<1> DEFINE A == C \cap Sub(p)
<1>2. IsFiniteSet(A) /\ p \in A /\ \A x \in A : Order[x] \in Int /\ x \in Node
  BY <1>1, NodesNumbered, BelowIs, FS_Subset
<1>3. PICK a \in A : \A y \in A : Order[y] <= Order[a]
  <2> HIDE DEF A
  <2> QED
    BY <1>2, HasLast
<1>4. \A c \in Kids[a] : c \notin C
  <2> SUFFICES ASSUME NEW c \in Kids[a], c \in C PROVE FALSE
    OBVIOUS
  <2>1. Order[a] < Order[c] /\ c \in Sub(a) /\ c \in Node
    BY <1>2, KidsAre, BelowIs DEF Sub
  <2>2. Sub(a) \subseteq Sub(p)
    BY <1>1, <1>2, BelowIs DEF Sub
  <2>3. Order[c] <= Order[a] /\ Order[a] \in Int /\ Order[c] \in Int
    BY <1>2, <1>3, <2>1, <2>2
  <2> HIDE DEF A
  <2> QED
    BY <2>1, <2>3
<1>5. Kind[a] # "compound"
  BY <1>4 DEF FullTrees
<1>6. Kind[a] # "parallel"
  BY <1>2, <1>4 DEF FullTrees, WellFormedTree
<1>7. IsAtomic(a)
  BY <1>2, <1>5, <1>6, TreeAssumption DEF IsAtomic
<1> QED
  BY <1>7

\* States of a legal configuration, none below another, are orthogonal.
LEMMA ActiveOrthogonal ==
    ASSUME NEW C \in FullTrees(Root), NEW T \in SUBSET C,
           \A s, u \in T : s \notin Ancestors[u]
    PROVE  Orthogonal(T)
<1> SUFFICES ASSUME NEW s \in T, NEW u \in T, s # u
             PROVE  LET common == Ancestors[Spot(s)] \cap Ancestors[Spot(u)]
                    IN /\ Spot(s) # Spot(u) /\ ~IsDescendant(Spot(u), Spot(s))
                       /\ \A m \in common : Kind[m] = "compound" => Kids[m] \cap common # {}
  BY DEF Orthogonal
<1>1. C \in Branches /\ C \subseteq Node \ History
  BY FullIsBranches DEF Branches
<1>2. Spot(s) = s /\ Spot(u) = u /\ s # NoNode /\ s \in Node /\ u \in Node
  BY <1>1, NodesNumbered DEF Spot
<1>3. ASSUME NEW m \in Ancestors[s], m \in Ancestors[u], Kind[m] = "compound"
      PROVE  Kids[m] \cap Ancestors[s] \cap Ancestors[u] # {}
  <2>1. m \in C /\ m \in Node
    BY <1>1, BranchesUp
  <2>2. PICK k \in Kids[m] : Kids[m] \cap C = {k}
    BY <2>1, <1>3 DEF FullTrees
  <2>3. \A x \in T : m \in Ancestors[x] => k = x \/ k \in Ancestors[x]
    <3> SUFFICES ASSUME NEW x \in T, m \in Ancestors[x]
                 PROVE  k = x \/ k \in Ancestors[x]
      OBVIOUS
    <3>1. x \in Node /\ x \in C
      BY <1>1
    <3>2. PICK c \in Node \ {Root} : Parent[c] = m /\ (c = x \/ c \in Ancestors[x])
      BY <3>1, ChildOnPath
    <3>3. c \in C
      BY <3>1, <3>2, <1>1, BranchesUp
    <3>4. c \in Kids[m]
      BY <3>2, <3>3, <1>1, <2>1 DEF Kids
    <3> QED
      BY <3>2, <3>3, <3>4, <2>2
  <2>4. (k = s \/ k \in Ancestors[s]) /\ (k = u \/ k \in Ancestors[u])
    BY <2>3, <1>3
  <2>5. k \in Ancestors[s] /\ k \in Ancestors[u]
    BY <2>4
  <2> QED
    BY <2>5
<1> QED
  BY <1>2, <1>3 DEF IsDescendant

LEMMA MemoryIs ==
    ASSUME WellFormedTree, NEW n \in History, NEW C \in FullTrees(Root), Parent[n] \in C,
           HistoryTarget[n] \subseteq Below(Parent[n])
    PROVE  SensibleFor(n, Memory(n, C))
<1> DEFINE p == Parent[n]
           T == Memory(n, C)
<1>1. C \in Branches /\ C \subseteq Node \ History /\ p \in C /\ p \in Node /\ p # NoNode
  BY FullIsBranches, NodesNumbered DEF Branches
<1>2. Kind[p] \in {"compound", "parallel"}
  BY SpotIs, NodesNumbered DEF Spot
<1>3. T \subseteq C /\ T \subseteq Below(p) \ History
  <2>1. \A s \in C : s # Root /\ Parent[s] = p => s \in Below(p)
    BY <1>1, ParentAbove, BelowIs
  <2> QED
    BY <2>1, <1>1, BelowIs DEF Memory, IsDescendant
<1>4. \A c \in Kids[p] : c \in C => \E x \in T : x \in Sub(c)
  <2> SUFFICES ASSUME NEW c \in Kids[p], c \in C PROVE \E x \in T : x \in Sub(c)
    OBVIOUS
  <2>1. c \in Node \ {Root} /\ Parent[c] = p /\ Sub(c) \subseteq Below(p) /\ c \in Sub(c)
    BY <1>1, KidsAre, BelowIs
  <2>2. CASE n \notin Deep
    BY <2>1, <2>2 DEF Memory
  <2>3. CASE n \in Deep
    <3>1. PICK a \in C : IsAtomic(a) /\ a \in Sub(c)
      BY AtomicBelow
    <3>2. IsDescendant(a, p)
      BY <2>1, <3>1, <1>1, BelowIs DEF IsDescendant
    <3> QED
      BY <3>1, <3>2, <2>3 DEF Memory
  <2> QED
    BY <2>2, <2>3
<1>5. \E c \in Kids[p] : c \in C
  <2>1. CASE Kind[p] = "compound"
    BY <2>1, <1>1 DEF FullTrees
  <2>2. CASE Kind[p] = "parallel"
    BY <2>2, <1>1 DEF FullTrees, WellFormedTree
  <2> QED
    BY <2>1, <2>2, <1>2
<1>6. \A s, u \in T : s \notin Ancestors[u]
  <2> SUFFICES ASSUME NEW s \in T, NEW u \in T, s \in Ancestors[u] PROVE FALSE
    OBVIOUS
  <2>0. s \in Node /\ u \in Node
    BY <1>1, <1>3
  <2>1. CASE n \in Deep
    <3>1. Kind[s] \in {"compound", "parallel"}
      BY <2>0, InnerNodes
    <3>2. IsAtomic(s)
      BY <2>1 DEF Memory
    <3> QED
      BY <3>1, <3>2 DEF IsAtomic
  <2>2. CASE n \notin Deep
    <3>1. s # Root /\ u # Root /\ Parent[s] = p /\ Parent[u] = p
      BY <2>2 DEF Memory
    <3>2. s = u
      BY <3>1, <2>0, OneKid
    <3> QED
      BY <3>2, <2>0, AncestorsTyped
  <2> QED
    BY <2>1, <2>2
<1>7. ASSUME Kind[p] = "parallel", Spread(n, HistoryTarget[n])
      PROVE  Spread(n, T)
  <2> SUFFICES ASSUME NEW c \in Kids[p] PROVE \E x \in T : x \notin Sub(c)
    BY DEF Spread
  <2>1. PICK x \in HistoryTarget[n] : x \notin Sub(c)
    BY <1>7 DEF Spread
  <2>2. x \in Node /\ p \in Ancestors[x] /\ x \notin History
    BY <2>1, <1>1, BelowIs DEF WellFormedTree
  <2>3. PICK b \in Node \ {Root} : Parent[b] = p /\ (b = x \/ b \in Ancestors[x])
    BY <2>2, ChildOnPath
  <2>4. b \in Kids[p]
    BY <2>2, <2>3, InnerNodes, <1>1 DEF Kids
  <2>5. b # c
    BY <2>1, <2>2, <2>3, BelowIs DEF Sub
  <2>6. b \in C
    BY <2>4, <1>1, <1>7 DEF FullTrees
  <2>7. PICK y \in T : y \in Sub(b)
    BY <2>4, <2>6, <1>4
  <2>8. Sub(b) \cap Sub(c) = {}
    BY <2>4, <2>5, <1>1, SiblingsDisjoint
  <2> QED
    BY <2>7, <2>8
<1>8. Orthogonal(T)
  <2> HIDE DEF T
  <2> QED
    BY <1>3, <1>6, ActiveOrthogonal
<1> QED
  BY <1>3, <1>4, <1>5, <1>7, <1>8 DEF SensibleFor

LEMMA RememberedSensible ==
    ASSUME WellFormedTree, NEW h, Remembers(h)
    PROVE  Sensible(h)
<1> SUFFICES ASSUME NEW n \in History PROVE SensibleFor(n, Restored(n, h))
  BY DEF Sensible
<1>1. /\ n \in Node /\ Parent[n] \in Node /\ Parent[n] # NoNode
      /\ Kind[Parent[n]] \in {"compound", "parallel"}
  BY SpotIs, NodesNumbered DEF Spot
<1>2. HistoryTarget[n] \subseteq Below(Parent[n]) \ History
  BY <1>1, TreeAssumption, BelowIs DEF WellFormedTree, IsDescendant
<1>3. CASE h[n] # {}
  BY <1>2, <1>3, MemoryIs DEF Remembers, Restored
<1>4. CASE h[n] = {} /\ HistoryTarget[n] # {}
  <2>1. Restored(n, h) = HistoryTarget[n]
    BY <1>4 DEF Restored, DefaultTarget
  <2> QED
    BY <2>1, <1>2, <1>4 DEF SensibleFor, WellFormedTree
<1>5. CASE h[n] = {} /\ HistoryTarget[n] = {}
  <2>1. Kind[Parent[n]] = "compound"
    BY <1>1, <1>5 DEF WellFormedTree
  <2> DEFINE i == Initial[Parent[n]]
  <2>2. Restored(n, h) = {i}
    BY <1>5, <2>1 DEF Restored, DefaultTarget, InitialOf
  <2>3. i \in Node \ {Root} /\ Parent[i] = Parent[n] /\ i \notin History
    BY <1>1, <2>1, TreeAssumption DEF WellFormedTree
  <2> HIDE DEF i
  <2>4. i \in Below(Parent[n])
    <3>1. Parent[i] \in Ancestors[i] /\ i \in Node
      BY <2>3, ParentAbove
    <3> QED
      BY <3>1, <2>3, <1>1, BelowIs
  <2>5. Orthogonal({i})
    BY DEF Orthogonal
  <2> QED
    BY <2>1, <2>2, <2>3, <2>4, <2>5 DEF SensibleFor
<1> QED
  BY <1>3, <1>4, <1>5

-----------------------------------------------------------------------------
(* What AddDescendants enters for any target                                *)

LEMMA DownLands ==
    ASSUME WellFormedTree, NEW h, Sensible(h)
    PROVE  \A s \in Node : Lands(AddDescendants(h), s, h)
<1> DEFINE down == AddDescendants(h)
<1>1. Restorable(h)
  BY BelowIs DEF Sensible, SensibleFor, Restorable
<1>2. EntersAll(down)
  BY <1>1, DownEnters DEF EntersAll
<1>3. \A n \in Node : \A a \in SUBSET Node : down[n][a] = DownStep(down, h, n, a)
  BY <1>1, DownIs
<1> HIDE DEF down
<1>4. \A s \in Node \ History : Lands(down, s, h)
  BY <1>2, StateLands DEF EntersAll
<1>5. ASSUME NEW n \in History, NEW a \in SUBSET Node, a \cap Place(n) = {}
      PROVE  /\ a \subseteq down[n][a] /\ down[n][a] \subseteq a \cup Place(n)
             /\ down[n][a] \cap Place(n) \in LandingsOf(n, h)
  <2> DEFINE p == Parent[n]
             T == Restored(n, h)
             r == down[n][a]
  <2>1. n \in Node /\ Kind[n] = "history" /\ p \in Node /\ p # NoNode /\ Place(n) = Below(p)
        /\ Spot(n) = p /\ Stands(n, h) = T
    BY SpotIs, NodesNumbered DEF History, Place, Spot, Stands
  <2>2. T # {} /\ T \subseteq Below(p) \ History /\ Orthogonal(T) /\ T \in SUBSET Node
    BY BelowIs DEF Sensible, SensibleFor
  <2>3. r = DownStep(down, h, n, a)
    BY <2>1, <1>3
  <2> HIDE DEF r
  <2>4. r = Entered(down, T, T, p, a)
    BY <2>1, <2>3 DEF DownStep, Joining, Entered
  <2> HIDE DEF T, p
  <2>5. \A s \in T : /\ s \in Node \ History /\ Spot(s) = s /\ Place(s) = Sub(s) /\ Stands(s, h) = {s}
                     /\ Sub(s) \subseteq Below(p) /\ p \in Ancestors[s]
    BY <2>1, <2>2, BelowIs DEF Spot, Place, Stands
  <2>6. Enterable(T, p, h)
    BY <2>2, <2>5 DEF Enterable
  <2>7. \A s \in T : Lands(down, s, h)
    BY <2>5, <1>4
  <2>8. T = UNION {Stands(s, h) : s \in T}
    BY <2>5
  <2>9. p \in Node \cup {NoNode} /\ a \cap Below(p) = {}
    BY <2>1, <1>5
  <2>10. /\ a \subseteq r /\ r \subseteq a \cup Below(p)
         /\ r \cap Below(p) \in Pieces(p) /\ T \subseteq r
    <3>1. Entering(down, h, T, T, p, a)
      BY <2>6, <2>7, <2>8, <2>9, <1>2 DEF Entering
    <3> QED
      BY <2>4, <3>1, TargetsEntered
  <2>11. r \cap Place(n) \in LandingsOf(n, h)
    BY <2>1, <2>2, <2>10 DEF LandingsOf, Landings
  <2> QED
    BY <2>1, <2>10, <2>11 DEF r
<1>6. \A s \in History : Lands(down, s, h)
  BY <1>5 DEF Lands
<1> QED
  BY <1>4, <1>6 DEF down

\* The recursion of EffectiveTargets ends with what the targets stand for.
LEMMA EffectiveIs ==
    ASSUME WellFormedTree, NEW h, Sensible(h), NEW targets \in SUBSET Node
    PROVE  EffectiveTargets(targets, h) = UNION {Stands(s, h) : s \in targets}
<1> DEFINE Step(f, s) == IF s \notin History THEN {s}
                         ELSE IF h[s] # {} THEN h[s]
                         ELSE UNION {f[d] : d \in DefaultTarget(s)}
           f == CHOOSE g : g = [s \in Node |-> Step(g, s)]
           g == [s \in Node |-> Stands(s, h)]
<1>1. \A s \in History : h[s] = {} => DefaultTarget(s) \subseteq Node \ History
  BY BelowIs DEF Sensible, SensibleFor, Restored
<1>2. ASSUME NEW e, \A s \in Node \ History : e[s] = {s}, NEW s \in Node
      PROVE  Step(e, s) = Stands(s, h)
  <2>1. CASE s \in History /\ h[s] = {}
    <3>1. UNION {e[d] : d \in DefaultTarget(s)} = DefaultTarget(s)
      BY <2>1, <1>1, <1>2
    <3> QED
      BY <2>1, <3>1 DEF Stands, Restored
  <2>2. CASE ~(s \in History /\ h[s] = {})
    BY <2>2 DEF Stands, Restored
  <2> QED
    BY <2>1, <2>2
<1>3. \A s \in Node \ History : g[s] = {s}
  BY DEF Stands
<1>4. g = [s \in Node |-> Step(g, s)]
  <2>1. \A s \in Node : Step(g, s) = Stands(s, h)
    <3> HIDE DEF g, Step
    <3> QED
      BY <1>2, <1>3
  <2> QED
    BY <2>1
<1>5. f = [s \in Node |-> Step(f, s)]
  <2> HIDE DEF g
  <2> QED
    BY <1>4
<1>6. EffectiveTargets(targets, h) = UNION {f[s] : s \in targets}
  BY DEF EffectiveTargets
<1> HIDE DEF f
<1>7. \A s \in Node \ History : f[s] = {s}
  BY <1>5
<1>8. \A s \in Node : f[s] = Step(f, s)
  <2> HIDE DEF Step
  <2> QED
    BY <1>5
<1>9. \A s \in Node : f[s] = Stands(s, h)
  <2> HIDE DEF Step
  <2> QED
    BY <1>2, <1>7, <1>8
<1> QED
  BY <1>6, <1>9

\* Folds of nothing and of one step.
LEMMA InOrderNone ==
    ASSUME NEW key, NEW step, DOMAIN step = {}, NEW base
    PROVE  InOrder(key, step, base) = base
<1> DEFINE Rel == {<<{}, base>>}
<1>1. IsFiniteSet({}) /\ \A x \in {} : key[x] \in Int
  BY FS_EmptySet
<1>2. <<{}, InOrder(key, step, base)>> \in Rel
  BY <1>1, InOrderKeeps
<1> QED
  BY <1>2

LEMMA InOrderOne ==
    ASSUME NEW key, NEW step, NEW x, DOMAIN step = {x}, key[x] \in Int, NEW base
    PROVE  InOrder(key, step, base) = step[x][base]
<1> DEFINE Rel == {<<{}, base>>, <<{x}, step[x][base]>>}
<1>1. IsFiniteSet({x}) /\ \A y \in {x} : key[y] \in Int
  BY FS_Singleton
<1>2. ASSUME NEW T \in SUBSET {x}, NEW y \in {x} \ T, NEW a, <<T, a>> \in Rel,
             \A z \in T : key[z] <= key[y]
      PROVE  <<T \cup {y}, step[y][a]>> \in Rel
  BY <1>2
<1>3. <<{x}, InOrder(key, step, base)>> \in Rel
  <2>1. <<{}, base>> \in Rel
    OBVIOUS
  <2> HIDE DEF Rel
  <2> QED
    BY <2>1, <1>1, <1>2, InOrderKeeps
<1> QED
  BY <1>3

-----------------------------------------------------------------------------
(* The domain of a transition                                               *)

\* The transitions whose microsteps are legal.
Proper(t) == t.source \in Node \ History /\ t.targets \in SUBSET Node /\ WellFormed(t)

\* Every target is entered below a.
Covers(a, t) == \A s \in t.targets : Place(s) \subseteq Below(a)

\* A history node that the source of a transition is below stands for states
\* in several regions.
LEMMA HistoryWithin ==
    ASSUME WellFormedTree, NEW h, Sensible(h), NEW t, Proper(t), NEW s \in t.targets, s \in History,
           NEW a \in {t.source} \cup Ancestors[t.source], Parent[s] \in Ancestors[a]
    PROVE  \E x \in Stands(s, h) : x \notin Sub(a)
<1> DEFINE p == Parent[s]
           T == Stands(s, h)
<1>1. /\ t.source \in Node /\ a \in Node \ History /\ s \in Node /\ p \in Node /\ p # NoNode
  BY AncestorsTyped, InnerNodes, SpotIs DEF Proper, Spot
<1>2. p \in Ancestors[t.source]
  BY <1>1, AncestorsTransitive
<1>3. /\ Kind[p] = "parallel"
      /\ \A c \in Kids[p] : \E x \in HistoryTarget[s] : x # c /\ ~IsDescendant(x, c)
  BY <1>2 DEF Proper, WellFormed, IsDescendant
<1>4. Spread(s, HistoryTarget[s])
  BY <1>3 DEF Spread, Sub, Below
<1>5. SensibleFor(s, T)
  BY DEF Sensible, Stands
<1>6. Spread(s, T)
  BY <1>3, <1>4, <1>5 DEF SensibleFor
<1>7. PICK c \in Node \ {Root} : Parent[c] = p /\ (c = a \/ c \in Ancestors[a])
  BY <1>1, ChildOnPath
<1>8. c \in Kids[p]
  BY <1>1, <1>7, InnerNodes DEF Kids
<1>9. PICK x \in T : x \notin Sub(c)
  BY <1>6, <1>8 DEF Spread
<1>10. Sub(a) \subseteq Sub(c)
  BY <1>1, <1>7, BelowIs DEF Sub
<1> QED
  BY <1>9, <1>10

\* Whatever is remembered, the states that the targets stand for are below an
\* ancestor of the source when the targets are entered below it.
LEMMA CoversIs ==
    ASSUME WellFormedTree, NEW h, Sensible(h), NEW t, Proper(t),
           NEW a \in {t.source} \cup Ancestors[t.source]
    PROVE  (\A x \in EffectiveTargets(t.targets, h) : IsDescendant(x, a)) <=> Covers(a, t)
<1> DEFINE X == EffectiveTargets(t.targets, h)
<1>1. t.targets \in SUBSET Node /\ t.source \in Node /\ a \in Node /\ a # NoNode
  BY AncestorsTyped, NodesNumbered DEF Proper
<1>2. X = UNION {Stands(s, h) : s \in t.targets}
  BY <1>1, EffectiveIs
<1> HIDE DEF X
<1>3. ASSUME NEW s \in t.targets
      PROVE  (\A x \in Stands(s, h) : IsDescendant(x, a)) <=> Place(s) \subseteq Below(a)
  <2>1. CASE s \notin History
    <3>1. Stands(s, h) = {s} /\ Place(s) = Sub(s) /\ s \in Node
      BY <1>1, <2>1 DEF Stands, Place
    <3> QED
      BY <3>1, <1>1, BelowIs DEF IsDescendant
  <2>2. CASE s \in History
    <3> DEFINE p == Parent[s]
               T == Stands(s, h)
    <3>1. p \in Node /\ Place(s) = Below(p) /\ s \in Node
      BY <1>1, <2>2, SpotIs DEF Spot, Place
    <3>2. T # {} /\ T \subseteq Below(p) /\ T \subseteq Node
      BY <2>2, BelowIs DEF Sensible, SensibleFor, Stands
    <3>3. (\A x \in T : IsDescendant(x, a)) <=> (\A x \in T : a \in Ancestors[x])
      BY <1>1 DEF IsDescendant
    <3>4. Place(s) \subseteq Below(a) => \A x \in T : a \in Ancestors[x]
      BY <3>1, <3>2, <1>1, BelowIs
    <3>5. ASSUME \A x \in T : a \in Ancestors[x]
          PROVE  Place(s) \subseteq Below(a)
      <4>1. PICK x \in T : TRUE
        BY <3>2
      <4>2. p \in Ancestors[x] /\ a \in Ancestors[x] /\ x \in Node
        BY <3>1, <3>2, <3>5, BelowIs
      <4>3. \A y \in T : y \in Sub(a)
        BY <3>2, <3>5, <1>1, BelowIs DEF Sub
      <4>4. p \notin Ancestors[a]
        BY <2>2, <4>3, HistoryWithin
      <4>5. a = p \/ a \in Ancestors[p]
        BY <4>2, <4>4, AncestorsComparable
      <4>6. Below(p) \subseteq Below(a)
        BY <4>5, <3>1, <1>1, BelowIs DEF Sub
      <4> QED
        BY <4>6, <3>1
    <3> QED
      BY <3>3, <3>4, <3>5
  <2> QED
    BY <2>1, <2>2
<1>4. (\A x \in X : IsDescendant(x, a)) <=> \A s \in t.targets : \A x \in Stands(s, h) : IsDescendant(x, a)
  BY <1>2
<1> QED
  BY <1>3, <1>4 DEF Covers, X

LEMMA SelfIs ==
    ASSUME WellFormedTree, NEW h, Sensible(h), NEW t, Proper(t)
    PROVE  /\ EffectiveTargets(t.targets, h) = {} <=> t.targets = {}
           /\ EffectiveTargets(t.targets, h) = {t.source} <=> t.targets = {t.source}
<1> DEFINE X == EffectiveTargets(t.targets, h)
<1>1. t.targets \in SUBSET Node /\ t.source \in Node \ History
  BY DEF Proper
<1>2. X = UNION {Stands(s, h) : s \in t.targets}
  BY <1>1, EffectiveIs
<1> HIDE DEF X
<1>3. \A s \in t.targets : Stands(s, h) # {}
  BY DEF Stands, Sensible, SensibleFor
<1>4. X = {} <=> t.targets = {}
  BY <1>2, <1>3
<1>5. t.targets = {t.source} => X = {t.source}
  BY <1>1, <1>2 DEF Stands
<1>6. ASSUME X = {t.source}
      PROVE  t.targets = {t.source}
  <2>1. ASSUME NEW s \in t.targets PROVE s \notin History
    <3>1. SUFFICES ASSUME s \in History PROVE FALSE
      OBVIOUS
    <3>2. Stands(s, h) = {t.source}
      BY <1>2, <1>3, <1>6
    <3>3. t.source \in Below(Parent[s]) /\ Parent[s] \in Node
      BY <3>1, <3>2, <1>1, SpotIs DEF Sensible, SensibleFor, Stands, Spot
    <3>4. Parent[s] \in Ancestors[t.source]
      BY <3>3, <1>1, BelowIs
    <3>5. \E x \in Stands(s, h) : x \notin Sub(t.source)
      BY <3>1, <3>4, HistoryWithin
    <3> QED
      BY <3>2, <3>5, <1>1, BelowIs
  <2>2. \A s \in t.targets : Stands(s, h) = {s}
    BY <2>1 DEF Stands
  <2>3. \A s \in t.targets : s = t.source
    BY <2>2, <1>2, <1>6
  <2>4. t.targets # {}
    BY <1>4, <1>6
  <2> QED
    BY <2>3, <2>4
<1> QED
  BY <1>4, <1>5, <1>6 DEF X

\* The domain does not depend on what is remembered.
DomainOf(t) ==
    CASE t.targets = {} -> NoNode
      [] IsAtomicSelf(t, t.targets) -> Parent[t.source]
      [] /\ t.targets # {} /\ ~IsAtomicSelf(t, t.targets)
         /\ t.internal /\ Kind[t.source] = "compound" /\ Covers(t.source, t) -> t.source
      [] OTHER -> LET common == {a \in Ancestors[t.source] : Kind[a] = "compound" /\ Covers(a, t)}
                  IN IF common = {} THEN NoNode ELSE Innermost(common)

LEMMA DomainIs ==
    ASSUME WellFormedTree, NEW h, Sensible(h), NEW t, Proper(t)
    PROVE  Domain(t, h) = DomainOf(t)
<1> DEFINE X == EffectiveTargets(t.targets, h)
           P(a) == Kind[a] = "compound" /\ \A x \in X : IsDescendant(x, a)
           C(a) == Kind[a] = "compound" /\ Covers(a, t)
<1>1. X = {} <=> t.targets = {}
  BY SelfIs
<1>2. IsAtomicSelf(t, X) <=> IsAtomicSelf(t, t.targets)
  BY SelfIs DEF IsAtomicSelf
<1>3. (\A x \in X : IsDescendant(x, t.source)) <=> Covers(t.source, t)
  BY CoversIs
<1>4. \A a \in Ancestors[t.source] : P(a) <=> C(a)
  BY CoversIs
<1>5. FindLCCA(t.source, X) =
          LET common == {a \in Ancestors[t.source] : Kind[a] = "compound" /\ Covers(a, t)}
          IN IF common = {} THEN NoNode ELSE Innermost(common)
  <2>1. {a \in Ancestors[t.source] : P(a)} = {a \in Ancestors[t.source] : C(a)}
    <3> HIDE DEF P, C
    <3> QED
      BY <1>4
  <2> QED
    BY <2>1 DEF FindLCCA
<1> HIDE DEF X
<1> QED
  BY <1>1, <1>2, <1>3, <1>5 DEF Domain, DomainOf, X

\* The domain of a transition that is neither targetless nor an atomic self
\* transition.
LEMMA DomainFound ==
    ASSUME WellFormedTree, NEW t, Proper(t), t.targets # {}, ~IsAtomicSelf(t, t.targets)
    PROVE  /\ DomainOf(t) \in Node \cup {NoNode} /\ Covers(DomainOf(t), t)
           /\ DomainOf(t) # NoNode =>
                  /\ DomainOf(t) \in {t.source} \cup Ancestors[t.source]
                  /\ DomainOf(t) \in Node /\ Kind[DomainOf(t)] = "compound"
<1> DEFINE common == {a \in Ancestors[t.source] : Kind[a] = "compound" /\ Covers(a, t)}
<1>1. t.source \in Node /\ t.targets \in SUBSET Node
  BY DEF Proper
<1>2. Covers(NoNode, t)
  BY <1>1, SpotIs, BelowIs DEF Covers
<1>3. CASE t.internal /\ Kind[t.source] = "compound" /\ Covers(t.source, t)
  BY <1>1, <1>3, NodesNumbered DEF DomainOf
<1>4. CASE ~(t.internal /\ Kind[t.source] = "compound" /\ Covers(t.source, t))
  <2>1. DomainOf(t) = IF common = {} THEN NoNode ELSE Innermost(common)
    BY <1>4 DEF DomainOf
  <2>2. CASE common = {}
    BY <2>1, <2>2, <1>2
  <2>3. CASE common # {}
    <3>1. common \subseteq Ancestors[t.source] /\ common \subseteq Node
      BY <1>1, AncestorsTyped
    <3>2. IsFiniteSet(common) /\ \A x \in common : Order[x] \in Int
      BY <3>1, NodesNumbered, FS_Subset
    <3>3. \E x \in common : \A y \in common : Order[y] <= Order[x]
      <4> HIDE DEF common
      <4> QED
        BY <3>2, <2>3, HasLast
    <3>4. Innermost(common) \in common
      <4> HIDE DEF common
      <4> QED
        BY <3>3 DEF Innermost
    <3>5. DomainOf(t) \in common
      BY <2>1, <2>3, <3>4
    <3> QED
      BY <3>1, <3>5, NodesNumbered
  <2> QED
    BY <2>2, <2>3
<1> QED
  BY <1>3, <1>4

-----------------------------------------------------------------------------
(* The states that a transition exits and enters                            *)

\* A transition that leaves and enters what is below its domain.
Whole(t) == t.targets # {} /\ ~IsAtomicSelf(t, t.targets)

Zone(t) == IF Whole(t) THEN Below(DomainOf(t)) ELSE t.targets

Entries(t) == IF Whole(t) THEN Pieces(DomainOf(t)) ELSE {t.targets}

\* An atomic state has nothing below it.
LEMMA AtomicAlone ==
    ASSUME WellFormedTree, NEW n \in Node, IsAtomic(n)
    PROVE  Sub(n) = {n} /\ n # Root
<1>1. Kind[n] \notin {"compound", "parallel"}
  BY DEF IsAtomic
<1> QED
  BY <1>1, InnerNodes, BelowIs DEF Sub, WellFormedTree

LEMMA ZoneTyped ==
    ASSUME NEW t, Proper(t)
    PROVE  Zone(t) \subseteq Node
BY BelowIs DEF Zone, Proper

LEMMA DomainEnterable ==
    ASSUME WellFormedTree, NEW h, Sensible(h), NEW t, Proper(t), Whole(t)
    PROVE  Enterable(t.targets, DomainOf(t), h)
<1> DEFINE d == DomainOf(t)
<1>1. d \in Node \cup {NoNode} /\ Covers(d, t) /\ t.targets # {} /\ t.targets \in SUBSET Node
      /\ Orthogonal(t.targets)
  BY DomainFound DEF Whole, Proper, WellFormed
<1> HIDE DEF d
<1>2. ASSUME NEW s \in t.targets
      PROVE  d = NoNode \/ d = Spot(s) \/ d \in Ancestors[Spot(s)]
  <2>1. SUFFICES ASSUME d # NoNode PROVE d = Spot(s) \/ d \in Ancestors[Spot(s)]
    OBVIOUS
  <2>2. s \in Node /\ d \in Node /\ Place(s) \subseteq Below(d)
    BY <1>1, <2>1 DEF Covers
  <2>3. CASE s \in History
    <3>1. s \in Node \ {Root} /\ Parent[s] \in Node /\ Spot(s) = Parent[s] /\ Place(s) = Below(Parent[s])
      BY <2>2, <2>3, SpotIs DEF Place
    <3>2. s \in Below(Parent[s])
      BY <3>1, ParentAbove, BelowIs
    <3>3. d \in Ancestors[s]
      BY <2>2, <3>1, <3>2, BelowIs
    <3> QED
      BY <3>1, <3>3, ParentAbove
  <2>4. CASE s \notin History
    <3>1. Spot(s) = s /\ s \in Place(s)
      BY <2>4 DEF Spot, Place, Sub
    <3> QED
      BY <3>1, <2>2, BelowIs
  <2> QED
    BY <2>3, <2>4
<1>3. \A s \in t.targets : Stands(s, h) # {} /\ Stands(s, h) \subseteq Node
  BY <1>1, BelowIs DEF Sensible, SensibleFor, Stands
<1> QED
  BY <1>1, <1>2, <1>3 DEF Enterable, Covers, d

\* What a transition adds to the entry set.
EntryStep(t, h, acc) ==
    Entered(AddDescendants(h), t.targets, EffectiveTargets(t.targets, h), Domain(t, h), acc)

LEMMA TransitionEnters ==
    ASSUME WellFormedTree, NEW h, Sensible(h), NEW t, Proper(t),
           NEW acc \in SUBSET Node, acc \cap Zone(t) = {}
    PROVE  LET r == EntryStep(t, h, acc) IN
           /\ acc \subseteq r /\ r \subseteq acc \cup Zone(t) /\ r \cap Zone(t) \in Entries(t)
<1> DEFINE down == AddDescendants(h)
           X == EffectiveTargets(t.targets, h)
           d == DomainOf(t)
           r == EntryStep(t, h, acc)
<1>1. /\ t.targets \in SUBSET Node /\ t.source \in Node \ History
      /\ X = UNION {Stands(s, h) : s \in t.targets}
  BY EffectiveIs DEF Proper
<1>2. r = Entered(down, t.targets, X, d, acc)
  BY DomainIs DEF EntryStep
<1>3. EntersAll(down)
  BY DownEnters, BelowIs DEF EntersAll, Sensible, SensibleFor, Restorable
<1>4. \A s \in t.targets : Lands(down, s, h)
  BY <1>1, DownLands
<1> HIDE DEF r, X, d, down
<1>5. CASE Whole(t)
  <2>1. d \in Node \cup {NoNode} /\ Enterable(t.targets, d, h)
    BY <1>5, DomainFound, DomainEnterable DEF Whole, d
  <2>2. Zone(t) = Below(d) /\ Entries(t) = Pieces(d)
    BY <1>5 DEF Zone, Entries, d
  <2>3. Entering(down, h, t.targets, X, d, acc)
    BY <2>1, <2>2, <1>1, <1>3, <1>4 DEF Entering
  <2>4. /\ acc \subseteq r /\ r \subseteq acc \cup Below(d) /\ r \cap Below(d) \in Pieces(d)
    BY <2>3, <1>2, TargetsEntered
  <2> QED
    BY <2>2, <2>4 DEF r
<1>6. CASE t.targets = {}
  <2>1. X = {}
    BY <1>1, <1>6
  <2>2. DOMAIN Joining(X, d, down) = {} /\ DOMAIN [s \in t.targets |-> down[s]] = {}
    BY <2>1, <1>6 DEF Joining
  <2>3. r = acc
    BY <2>2, <1>2, InOrderNone DEF Entered
  <2>4. Zone(t) = {} /\ Entries(t) = {{}}
    BY <1>6 DEF Zone, Entries, Whole
  <2> QED
    BY <2>3, <2>4 DEF r
<1>7. CASE t.targets # {} /\ IsAtomicSelf(t, t.targets)
  <2> DEFINE s == t.source
             b == down[s][acc]
  <2>1. /\ t.targets = {s} /\ s \in Node \ History /\ IsAtomic(s) /\ s # Root /\ Sub(s) = {s}
        /\ X = {s} /\ Place(s) = {s} /\ Stands(s, h) = {s}
    <3>1. t.targets = {s} /\ IsAtomic(s)
      BY <1>7 DEF IsAtomicSelf
    <3>2. Sub(s) = {s} /\ s # Root /\ Stands(s, h) = {s}
      BY <3>1, <1>1, AtomicAlone DEF Stands
    <3> QED
      BY <3>1, <3>2, <1>1 DEF Place
  <2>2. Zone(t) = {s} /\ Entries(t) = {{s}}
    BY <2>1, <1>7 DEF Zone, Entries, Whole
  <2>3. d = Parent[s]
    BY <1>7 DEF DomainOf, d
  <2> HIDE DEF s
  <2>4. ProperAncestors(s, d) = {}
    <3>1. d \in Ancestors[s] /\ d \in Node /\ \A a \in Ancestors[s] : a = d \/ a \in Ancestors[d]
      BY <2>1, <2>3, ParentAbove, ParentIs
    <3>2. ProperAncestors(s, d) = Ancestors[s] \cap Below(d)
      BY <2>1, <3>1, ProperAncestorsAre
    <3>3. ASSUME NEW a \in Ancestors[s], a \in Below(d) PROVE FALSE
      <4>1. a \in Node /\ d \in Ancestors[a]
        BY <3>1, <3>3, <2>1, AncestorsTyped, BelowIs
      <4> QED
        BY <3>1, <4>1, AncestorsTyped, AncestorsTransitive
    <3> QED
      BY <3>2, <3>3
  <2>5. acc \subseteq b /\ b \subseteq acc \cup {s} /\ s \in b
    BY <2>1, <2>2, <1>4 DEF Lands, LandingsOf
  <2>6. b = acc \cup {s} /\ b \in SUBSET Node
    BY <2>5, <2>1
  <2>7. InOrder(Order, [x \in t.targets |-> down[x]], acc) = b
    <3> DEFINE step == [x \in t.targets |-> down[x]]
    <3>1. DOMAIN step = {s} /\ Order[s] \in Int
      BY <2>1, NodesNumbered
    <3>2. step[s] = down[s]
      BY <2>1
    <3> HIDE DEF step
    <3>3. InOrder(Order, step, acc) = step[s][acc]
      BY <3>1, InOrderOne
    <3> QED
      BY <3>2, <3>3 DEF step
  <2> HIDE DEF b
  <2>8. AddAncestors(s, d, down, b) = b
    <3> DEFINE step == [p \in ProperAncestors(s, d) |-> [a \in SUBSET Node |->
                            IF Kind[p] = "parallel" THEN AddRegions(p, down, a \cup {p})
                                                    ELSE a \cup {p}]]
    <3>1. DOMAIN step = {}
      BY <2>4
    <3>2. AddAncestors(s, d, down, b) = InOrder(Outward, step, b)
      BY DEF AddAncestors
    <3> HIDE DEF step
    <3> QED
      BY <3>1, <3>2, InOrderNone
  <2>9. InOrder(Order, Joining(X, d, down), b) = b
    <3>1. DOMAIN Joining(X, d, down) = {s} /\ Order[s] \in Int
      BY <2>1, NodesNumbered DEF Joining
    <3>2. Joining(X, d, down)[s][b] = b
      BY <2>1, <2>6, <2>8 DEF Joining
    <3> QED
      BY <3>1, <3>2, InOrderOne
  <2>10. r = b
    BY <1>2, <2>7, <2>9 DEF Entered
  <2> QED
    BY <2>2, <2>6, <2>10 DEF r
<1> QED
  BY <1>5, <1>6, <1>7 DEF Whole

-----------------------------------------------------------------------------
(* A microstep                                                              *)

\* Transitions that work in zones of their own, below active states.
Apart(ts, conf) ==
    /\ IsFiniteSet(ts)
    /\ \A t \in ts : Proper(t) /\ t.order \in Nat
    /\ \A t, u \in ts : t # u => Zone(t) \cap Zone(u) = {}
    /\ \A t \in ts : IsAtomicSelf(t, t.targets) => t.source \in conf
    /\ \A t \in ts : Whole(t) /\ DomainOf(t) # NoNode =>
           DomainOf(t) \in conf /\ \A u \in ts : DomainOf(t) \notin Zone(u)

LEMMA EntrySetIs ==
    ASSUME WellFormedTree, NEW h, Sensible(h), NEW ts, NEW conf, Apart(ts, conf)
    PROVE  LET e == EntrySet(ts, h) IN
           /\ e \in SUBSET Node
           /\ \A x \in e : \E t \in ts : x \in Zone(t)
           /\ \A t \in ts : e \cap Zone(t) \in Entries(t)
<1> DEFINE key == [t \in ts |-> t.order]
           step == [t \in ts |-> [acc \in SUBSET Node |-> EntryStep(t, h, acc)]]
           Zones == [t \in ts |-> Zone(t)]
           Good == [t \in ts |-> Entries(t)]
           e == EntrySet(ts, h)
<1>1. e = InOrder(key, step, {})
  BY DEF EntrySet, EntryStep, Entered, Joining
<1>2. ASSUME NEW t \in ts, NEW a \in SUBSET Node, a \cap Zone(t) = {}
      PROVE  /\ a \subseteq EntryStep(t, h, a) /\ EntryStep(t, h, a) \subseteq a \cup Zone(t)
             /\ EntryStep(t, h, a) \cap Zone(t) \in Entries(t)
  <2>1. Proper(t)
    BY DEF Apart
  <2> QED
    BY <2>1, <1>2, TransitionEnters
<1>3. \A t \in ts : \A a \in SUBSET Node : step[t][a] = EntryStep(t, h, a)
  OBVIOUS
<1>4. IsFiniteSet(ts) /\ \A t \in ts : key[t] \in Int
  BY DEF Apart
<1>5. /\ \A t \in ts : Zone(t) \subseteq Node
      /\ \A t, u \in ts : t # u => Zone(t) \cap Zone(u) = {}
  BY ZoneTyped DEF Apart
<1>6. DOMAIN step = ts
  OBVIOUS
<1> HIDE DEF step, key, e
<1>7. ASSUME NEW t \in ts, NEW a \in SUBSET Node, a \cap Zone(t) = {}
      PROVE  /\ a \subseteq step[t][a] /\ step[t][a] \subseteq a \cup Zone(t)
             /\ step[t][a] \cap Zone(t) \in Entries(t)
  <2>1. step[t][a] = EntryStep(t, h, a)
    BY <1>3
  <2>2. /\ a \subseteq EntryStep(t, h, a) /\ EntryStep(t, h, a) \subseteq a \cup Zone(t)
        /\ EntryStep(t, h, a) \cap Zone(t) \in Entries(t)
    BY <1>2, <1>7
  <2> QED
    BY <2>1, <2>2
<1>8. ZonedFold(ts, key, step, Node, {}, Zones, Good)
  BY <1>4, <1>5, <1>6, <1>7 DEF ZonedFold
<1>9. /\ e \in SUBSET Node
      /\ \A z \in e : z \in {} \/ \E t \in ts : z \in Zones[t]
      /\ \A t \in ts : e \cap Zones[t] \in Good[t]
  <2> HIDE DEF Zones, Good
  <2> QED
    BY <1>1, <1>8, InOrderZones
<1> QED
  BY <1>9 DEF e

\* A transition exits the active states of its zone.
LEMMA ExitIs ==
    ASSUME WellFormedTree, NEW h, Sensible(h), NEW t, Proper(t), NEW conf \in SUBSET Node,
           IsAtomicSelf(t, t.targets) => t.source \in conf
    PROVE  ExitSet({t}, conf, h) = conf \cap Zone(t)
<1> DEFINE X == EffectiveTargets(t.targets, h)
<1>1. IsAtomicSelf(t, X) <=> IsAtomicSelf(t, t.targets)
  BY SelfIs DEF IsAtomicSelf
<1>2. Domain(t, h) = DomainOf(t)
  BY DomainIs
<1> HIDE DEF X
<1>3. CASE t.targets = {}
  <2>1. ExitSet({t}, conf, h) = {}
    BY <1>3 DEF ExitSet
  <2> QED
    BY <2>1, <1>3 DEF Zone, Whole
<1>4. CASE t.targets # {}
  <2>1. {u \in {t} : u.targets # {}} = {t}
    BY <1>4
  <2>2. ExitSet({t}, conf, h) = IF IsAtomicSelf(t, X) THEN {t.source}
                                ELSE {n \in conf : IsDescendant(n, Domain(t, h))}
    BY <2>1 DEF ExitSet, X
  <2>3. CASE IsAtomicSelf(t, t.targets)
    <3>1. ExitSet({t}, conf, h) = {t.source} /\ Zone(t) = {t.source}
      BY <2>2, <2>3, <1>1 DEF Zone, Whole, IsAtomicSelf
    <3> QED
      BY <3>1, <2>3
  <2>4. CASE ~IsAtomicSelf(t, t.targets)
    <3>1. Zone(t) = Below(DomainOf(t))
      BY <1>4, <2>4 DEF Zone, Whole
    <3> QED
      BY <3>1, <2>2, <2>4, <1>1, <1>2 DEF Below
  <2> QED
    BY <2>3, <2>4
<1> QED
  BY <1>3, <1>4

LEMMA ExitSetUnion ==
    ASSUME NEW ts, NEW conf, NEW h
    PROVE  ExitSet(ts, conf, h) = UNION {ExitSet({t}, conf, h) : t \in ts}
<1> DEFINE F(t) == LET targets == EffectiveTargets(t.targets, h) IN
                   IF IsAtomicSelf(t, targets) THEN {t.source}
                   ELSE {n \in conf : IsDescendant(n, Domain(t, h))}
<1>1. \A us : \A x : x \in ExitSet(us, conf, h) <=> \E t \in us : t.targets # {} /\ x \in F(t)
  BY DEF ExitSet
<1> HIDE DEF F
<1>2. \A t : \A x : x \in ExitSet({t}, conf, h) <=> t.targets # {} /\ x \in F(t)
  BY <1>1
<1>3. \A x : x \in ExitSet(ts, conf, h) <=> \E t \in ts : x \in ExitSet({t}, conf, h)
  BY <1>1, <1>2
<1> QED
  BY <1>3

\* The transitions ts make a legal configuration of a legal one.
LEMMA LegalStep ==
    ASSUME WellFormedTree, NEW ts, NEW conf \in SUBSET Node, Apart(ts, conf),
           conf \in FullTrees(Root) \/ \E t \in ts : Whole(t) /\ DomainOf(t) = NoNode,
           NEW e \in SUBSET Node, \A x \in e : \E t \in ts : x \in Zone(t),
           \A t \in ts : e \cap Zone(t) \in Entries(t)
    PROVE  (conf \ UNION {Zone(t) : t \in ts}) \cup e \in FullTrees(Root)
<1> DEFINE N == (conf \ UNION {Zone(t) : t \in ts}) \cup e
<1>1. Sub(Root) = Node /\ Root \in Node
  BY NodesNumbered, AncestorsTyped, BelowIs DEF Sub
<1>2. CASE \E t \in ts : Whole(t) /\ DomainOf(t) = NoNode
  <2>1. PICK t \in ts : Whole(t) /\ DomainOf(t) = NoNode
    BY <1>2
  <2>2. Zone(t) = Node /\ Entries(t) = Pieces(NoNode)
    BY <2>1, BelowIs DEF Zone, Entries
  <2>3. N = e /\ e \in Pieces(NoNode)
    <3>1. e \cap Node = e
      OBVIOUS
    <3> QED
      BY <2>2, <3>1
  <2> HIDE DEF N
  <2>4. /\ N \subseteq Node \ History /\ Root \in N
        /\ \A m \in N : /\ m = Root \/ Parent[m] \in N \cup {NoNode}
                        /\ Kind[m] = "compound" => \E k \in Kids[m] : Kids[m] \cap N = {k}
                        /\ Kind[m] = "parallel" => Kids[m] \subseteq N
    BY <2>3 DEF Pieces
  <2>5. \A m \in N : m # Root => Parent[m] \in Node /\ Parent[m] # NoNode
    BY <2>4, ParentIs, NodesNumbered
  <2> QED
    BY <2>4, <2>5, <1>1 DEF FullTrees, N
<1>3. CASE conf \in FullTrees(Root) /\ \A t \in ts : Whole(t) => DomainOf(t) # NoNode
  <2> DEFINE Wholes == {t \in ts : Whole(t)}
  <2>1. ASSUME NEW t \in Wholes
        PROVE  /\ DomainOf(t) \in Node /\ DomainOf(t) \in conf /\ \A u \in ts : DomainOf(t) \notin Zone(u)
               /\ Kind[DomainOf(t)] = "compound"
               /\ Zone(t) = Below(DomainOf(t)) /\ e \cap Below(DomainOf(t)) \in Pieces(DomainOf(t))
    <3>1. Whole(t) /\ Proper(t) /\ DomainOf(t) # NoNode /\ e \cap Zone(t) \in Entries(t)
      BY <1>3 DEF Apart
    <3>2. Zone(t) = Below(DomainOf(t)) /\ Entries(t) = Pieces(DomainOf(t))
      BY <3>1 DEF Zone, Entries
    <3>3. DomainOf(t) \in Node /\ Kind[DomainOf(t)] = "compound"
      BY <3>1, DomainFound DEF Whole
    <3> QED
      BY <3>1, <3>2, <3>3 DEF Apart
  <2>2. ASSUME NEW t \in ts, ~Whole(t)
        PROVE  Zone(t) \subseteq conf /\ e \cap Zone(t) = Zone(t)
    <3>1. Zone(t) = t.targets /\ e \cap Zone(t) = t.targets
      BY <2>2 DEF Zone, Entries
    <3>2. t.targets \subseteq conf
      BY <2>2 DEF Whole, IsAtomicSelf, Apart
    <3> QED
      BY <3>1, <3>2
  <2>3. \A x : (\A t \in Wholes : x \notin Zone(t)) => (x \in N <=> x \in conf)
    <3> SUFFICES ASSUME NEW x, \A t \in Wholes : x \notin Zone(t)
                 PROVE  x \in N <=> x \in conf
      OBVIOUS
    <3>1. CASE \E t \in ts : x \in Zone(t)
      <4>1. PICK t \in ts : x \in Zone(t)
        BY <3>1
      <4>2. ~Whole(t)
        BY <4>1
      <4> QED
        BY <4>1, <4>2, <2>2
    <3>2. CASE \A t \in ts : x \notin Zone(t)
      BY <3>2
    <3> QED
      BY <3>1, <3>2
  <2>4. \A t \in Wholes : \A x \in Zone(t) : x \in N <=> x \in e
    OBVIOUS
  <2> HIDE DEF N, Wholes
  <2>5. /\ conf \subseteq Node \ History /\ Root \in conf
        /\ \A m \in conf : /\ m # Root => Parent[m] \in conf
                           /\ Kind[m] = "compound" => \E k \in Kids[m] : Kids[m] \cap conf = {k}
                           /\ Kind[m] = "parallel" => Kids[m] \subseteq conf
    BY <1>3 DEF FullTrees
  <2>6. \A t \in Wholes : \A x \in N \cap Zone(t) : x \in e \cap Below(DomainOf(t))
    BY <2>1, <2>4
  <2>7. N \subseteq Node \ History
    <3> SUFFICES ASSUME NEW x \in N PROVE x \in Node \ History
      OBVIOUS
    <3>1. CASE \E t \in Wholes : x \in Zone(t)
      BY <3>1, <2>1, <2>6, BelowIs DEF Pieces
    <3>2. CASE \A t \in Wholes : x \notin Zone(t)
      BY <3>2, <2>3, <2>5
    <3> QED
      BY <3>1, <3>2
  <2>8. Root \in N
    <3>1. ASSUME NEW t \in Wholes PROVE Root \notin Zone(t)
      <4>1. DomainOf(t) \in Node /\ Zone(t) = Below(DomainOf(t))
        BY <2>1
      <4>2. Ancestors[Root] = {}
        BY <1>1, AncestorsAre
      <4> QED
        BY <4>1, <4>2, <1>1, BelowIs
    <3> QED
      BY <3>1, <2>3, <2>5
  <2>9. ASSUME NEW t \in Wholes, NEW m \in N, m \in Zone(t) \/ m = DomainOf(t)
        PROVE  /\ m \in Zone(t) => /\ m # Root => Parent[m] \in N
                                   /\ Kind[m] = "parallel" => Kids[m] \subseteq N
               /\ Kind[m] = "compound" => \E k \in Kids[m] : Kids[m] \cap N = {k}
    <3> DEFINE d == DomainOf(t)
               K == e \cap Below(d)
    <3>1. K \in Pieces(d) /\ d \in Node /\ m \in Node /\ Zone(t) = Below(d)
      BY <2>1, <2>7
    <3>2. K \subseteq N /\ \A x \in Below(d) : x \in N <=> x \in K
      BY <2>4, <3>1
    <3>3. d \in N
      <4>1. d \in conf /\ \A u \in Wholes : d \notin Zone(u)
        BY <2>1 DEF Wholes
      <4> QED
        BY <4>1, <2>3
    <3>4. m \in K \cup {d}
      BY <2>9, <3>1, <3>2
    <3> HIDE DEF K, d
    <3>5. Kids[m] \subseteq Below(d)
      <4>1. \A c \in Kids[m] : c \in Below(m)
        BY <3>1, KidsAre, BelowIs
      <4>2. m = d \/ Sub(m) \subseteq Below(d)
        BY <3>1, <3>4, BelowIs DEF K
      <4> QED
        BY <4>1, <4>2 DEF Sub
    <3>6. Kids[m] \cap N = Kids[m] \cap K
      BY <3>2, <3>5
    <3>7. Kind[m] = "compound" => \E k \in Kids[m] : Kids[m] \cap N = {k}
      BY <3>1, <3>4, <3>6 DEF Pieces
    <3>8. ASSUME m \in Zone(t)
          PROVE  (m # Root => Parent[m] \in N) /\ (Kind[m] = "parallel" => Kids[m] \subseteq N)
      <4>1. m \in K
        BY <3>1, <3>2, <3>8
      <4> QED
        BY <4>1, <3>1, <3>2, <3>3 DEF Pieces
    <3> QED
      BY <3>7, <3>8
  <2>10. ASSUME NEW m \in N, \A t \in Wholes : m \notin Zone(t)
         PROVE  /\ m # Root => Parent[m] \in N
                /\ Kind[m] = "compound" => \E k \in Kids[m] : Kids[m] \cap N = {k}
                /\ Kind[m] = "parallel" => Kids[m] \subseteq N
    <3>1. m \in conf /\ m \in Node
      BY <2>3, <2>5, <2>10
    <3>2. ASSUME m # Root PROVE Parent[m] \in N
      <4>1. Parent[m] \in conf /\ Parent[m] \in Ancestors[m] /\ Parent[m] \in Node
        BY <3>1, <3>2, <2>5, ParentAbove
      <4>2. \A t \in Wholes : Parent[m] \notin Zone(t)
        <5> SUFFICES ASSUME NEW t \in Wholes, Parent[m] \in Zone(t) PROVE FALSE
          OBVIOUS
        <5>1. DomainOf(t) \in Node /\ Zone(t) = Below(DomainOf(t)) /\ m \notin Zone(t)
          BY <2>1, <2>10
        <5>2. DomainOf(t) \in Ancestors[Parent[m]]
          BY <5>1, <4>1, BelowIs
        <5>3. DomainOf(t) \in Ancestors[m]
          BY <5>2, <4>1, <3>1, AncestorsTransitive
        <5> QED
          BY <5>1, <5>3, <3>1, BelowIs
      <4> QED
        BY <4>1, <4>2, <2>3
    <3>3. ASSUME \A t \in Wholes : m # DomainOf(t)
          PROVE  Kids[m] \cap N = Kids[m] \cap conf
      <4>1. ASSUME NEW c \in Kids[m], NEW t \in Wholes, c \in Zone(t) PROVE FALSE
        <5>1. c \in Node \ {Root} /\ Parent[c] = m
          BY <3>1, KidsAre
        <5>2. DomainOf(t) \in Node /\ Zone(t) = Below(DomainOf(t)) /\ m \notin Zone(t)
              /\ m # DomainOf(t)
          BY <2>1, <2>10, <3>3
        <5>3. DomainOf(t) \in Ancestors[c]
          BY <4>1, <5>1, <5>2, BelowIs
        <5>4. DomainOf(t) \in Ancestors[m]
          BY <5>1, <5>2, <5>3, ParentAbove
        <5> QED
          BY <5>2, <5>4, <3>1, BelowIs
      <4> QED
        BY <4>1, <2>3
    <3>4. CASE \E t \in Wholes : m = DomainOf(t)
      <4>1. PICK t \in Wholes : m = DomainOf(t)
        BY <3>4
      <4>2. Kind[m] = "compound"
        BY <4>1, <2>1
      <4> QED
        BY <4>1, <4>2, <3>2, <2>9
    <3>5. CASE \A t \in Wholes : m # DomainOf(t)
      <4>1. Kids[m] \cap N = Kids[m] \cap conf
        BY <3>3, <3>5
      <4> QED
        BY <4>1, <3>1, <3>2, <2>5
    <3> QED
      BY <3>4, <3>5
  <2>11. \A m \in N : /\ m # Root => Parent[m] \in N
                      /\ Kind[m] = "compound" => \E k \in Kids[m] : Kids[m] \cap N = {k}
                      /\ Kind[m] = "parallel" => Kids[m] \subseteq N
    <3> SUFFICES ASSUME NEW m \in N
                 PROVE  /\ m # Root => Parent[m] \in N
                        /\ Kind[m] = "compound" => \E k \in Kids[m] : Kids[m] \cap N = {k}
                        /\ Kind[m] = "parallel" => Kids[m] \subseteq N
      OBVIOUS
    <3>1. CASE \E t \in Wholes : m \in Zone(t)
      BY <3>1, <2>9
    <3>2. CASE \A t \in Wholes : m \notin Zone(t)
      BY <3>2, <2>10
    <3> QED
      BY <3>1, <3>2
  <2> QED
    BY <2>7, <2>8, <2>11, <1>1 DEF FullTrees, N
<1> QED
  BY <1>2, <1>3

-----------------------------------------------------------------------------
(* Transitions that are no rivals are apart                                 *)

\* An active state, or one without active states above which the source is.
LEMMA ZoneActive ==
    ASSUME WellFormedTree, NEW C \in FullTrees(Root), NEW t, Proper(t), t.source \in C
    PROVE  /\ ~Whole(t) => Zone(t) \subseteq C /\ \A x \in Zone(t) : IsAtomic(x)
           /\ Whole(t) => C \cap Below(DomainOf(t)) # {}
           /\ Whole(t) /\ DomainOf(t) # NoNode => DomainOf(t) \in C
<1> DEFINE d == DomainOf(t)
<1>1. C \in Branches /\ C \subseteq Node \ History /\ Root \in C /\ t.source \in Node
  BY FullIsBranches DEF Branches, Proper
<1>2. ~Whole(t) => Zone(t) \subseteq C /\ \A x \in Zone(t) : IsAtomic(x)
  BY DEF Zone, Whole, IsAtomicSelf
<1>3. ASSUME Whole(t), d # NoNode
      PROVE  d \in C /\ C \cap Below(d) # {}
  <2>1. d \in {t.source} \cup Ancestors[t.source] /\ d \in Node /\ Kind[d] = "compound"
    BY <1>3, DomainFound DEF Whole
  <2> HIDE DEF d
  <2>2. d \in C
    BY <1>1, <2>1, BranchesUp
  <2>3. PICK k \in Kids[d] : k \in C
    BY <2>1, <2>2 DEF FullTrees
  <2>4. k \in Below(d)
    BY <2>1, <2>3, KidsAre, BelowIs
  <2> QED
    BY <2>2, <2>3, <2>4
<1>4. d = NoNode => C \cap Below(d) # {}
  BY <1>1, BelowIs
<1> QED
  BY <1>2, <1>3, <1>4

\* Two subtrees that have a node in common are one in the other.
LEMMA BelowNested ==
    ASSUME NEW b \in Node \cup {NoNode}, NEW d \in Node \cup {NoNode}, NEW x \in Below(b), x \in Below(d)
    PROVE  Below(b) \subseteq Below(d) \/ Below(d) \subseteq Below(b)
<1>1. CASE b = NoNode \/ d = NoNode
  BY <1>1, BelowIs
<1>2. CASE b # NoNode /\ d # NoNode
  <2>1. x \in Node /\ b \in Node /\ d \in Node /\ b \in Ancestors[x] /\ d \in Ancestors[x]
    BY <1>2, BelowIs
  <2>2. b = d \/ b \in Below(d) \/ d \in Below(b)
    BY <2>1, AncestorsComparable, BelowIs
  <2> QED
    BY <2>1, <2>2, BelowIs DEF Sub
<1> QED
  BY <1>1, <1>2

LEMMA NoRivalsApart ==
    ASSUME WellFormedTree, NEW C \in FullTrees(Root), NEW h, Sensible(h), NEW ts, IsFiniteSet(ts),
           \A t \in ts : Proper(t) /\ t.order \in Nat /\ t.source \in C,
           \A t, u \in ts : ~Rival(t, u, C, h)
    PROVE  Apart(ts, C)
<1>1. C \subseteq Node
  BY FullIsBranches DEF Branches
<1>2. \A t \in ts : ExitSet({t}, C, h) = C \cap Zone(t)
  BY <1>1, ExitIs
<1>3. \A t, u \in ts : t # u => C \cap Zone(t) \cap Zone(u) = {}
  BY <1>2 DEF Rival
<1>4. \A t \in ts : /\ ~Whole(t) => Zone(t) \subseteq C /\ \A x \in Zone(t) : IsAtomic(x)
                    /\ Whole(t) => C \cap Below(DomainOf(t)) # {}
                    /\ Whole(t) /\ DomainOf(t) # NoNode => DomainOf(t) \in C
  BY ZoneActive
<1>5. \A t \in ts : Whole(t) => /\ Zone(t) = Below(DomainOf(t)) /\ DomainOf(t) \in Node \cup {NoNode}
                                /\ DomainOf(t) # NoNode => Kind[DomainOf(t)] = "compound"
  BY DomainFound DEF Zone, Whole
<1>6. ASSUME NEW t \in ts, NEW u \in ts, t # u, NEW x \in Zone(t), x \in Zone(u)
      PROVE  FALSE
  <2>1. CASE ~Whole(t) \/ ~Whole(u)
    BY <2>1, <1>3, <1>4, <1>6
  <2>2. CASE Whole(t) /\ Whole(u)
    <3>1. Zone(t) \subseteq Zone(u) \/ Zone(u) \subseteq Zone(t)
      BY <2>2, <1>5, <1>6, BelowNested
    <3>2. C \cap Zone(t) # {} /\ C \cap Zone(u) # {}
      BY <2>2, <1>4, <1>5
    <3> QED
      BY <3>1, <3>2, <1>3, <1>6
  <2> QED
    BY <2>1, <2>2
<1>7. ASSUME NEW t \in ts, Whole(t), DomainOf(t) # NoNode, NEW u \in ts, DomainOf(t) \in Zone(u)
      PROVE  FALSE
  <2> DEFINE d == DomainOf(t)
  <2>1. d \in Node /\ d \in C /\ Kind[d] = "compound" /\ Zone(t) = Below(d)
    BY <1>4, <1>5, <1>7
  <2> HIDE DEF d
  <2>2. u # t
    BY <2>1, <1>7, BelowIs DEF d
  <2>3. CASE ~Whole(u)
    <3>1. IsAtomic(d)
      BY <2>3, <1>4, <1>7 DEF d
    <3> QED
      BY <3>1, <2>1 DEF IsAtomic
  <2>4. CASE Whole(u)
    <3>1. d \in Below(DomainOf(u)) /\ Zone(u) = Below(DomainOf(u)) /\ DomainOf(u) \in Node \cup {NoNode}
      BY <2>4, <1>5, <1>7 DEF d
    <3>2. Below(d) \subseteq Zone(u)
      BY <3>1, BelowIs DEF Sub
    <3>3. C \cap Below(d) # {}
      BY <1>4, <1>7 DEF d
    <3> QED
      BY <3>2, <3>3, <2>1, <2>2, <1>3
  <2> QED
    BY <2>3, <2>4
<1>8. \A t, u \in ts : t # u => Zone(t) \cap Zone(u) = {}
  BY <1>6
<1>9. \A t \in ts : Whole(t) /\ DomainOf(t) # NoNode =>
          DomainOf(t) \in C /\ \A u \in ts : DomainOf(t) \notin Zone(u)
  BY <1>4, <1>7
<1> QED
  BY <1>8, <1>9 DEF Apart

-----------------------------------------------------------------------------
(* The inductive invariant                                                  *)

\* A machine that was restored has no root in its configuration.
Rooted(conf) == conf \cup {Root}
Complete(conf) == Rooted(conf) \in FullTrees(Root)

\* What a snapshot holds: no configuration yet, or a legal one.
SnapshotLegal(s) ==
    /\ DOMAIN s = {"config", "hist", "output"}
    /\ s.config = {} \/ Complete(s.config)
    /\ Remembers(s.hist)
    /\ s.output \in Node \cup {NoNode}

\* Configurations are complete trees, in the snapshots to fall back on too, and
\* history remembers what complete trees had.
LegalInv ==
    /\ chart \in Charts
    /\ phase \in {"new", "macrostep", "settled"}
    /\ iterations \in Nat /\ (MaxIterations # Unlimited => iterations <= MaxIterations)
    /\ output \in Node \cup {NoNode}
    /\ IF phase = "new" THEN config = {} ELSE Complete(config)
    /\ Remembers(hist)
    /\ SnapshotLegal(committed)
    /\ last.entered \in SUBSET Node /\ last.entered \cap last.kept = {}

\* The root is active, unless the snapshot the machine was restored from had
\* lost it.
RootActive ==
    phase # "new" =>
        Root \in config \/ (committed.config # {} /\ Root \notin committed.config)

LEMMA CompleteIs ==
    ASSUME WellFormedTree, NEW conf, Complete(conf)
    PROVE  /\ conf \subseteq Node \ History /\ Rooted(conf) \subseteq Node \ History
           /\ \E c \in conf : c # Root
           /\ \A a \in conf : {a} \cup Ancestors[a] \subseteq Rooted(conf)
           /\ \A n \in History : Memory(n, conf) = Memory(n, Rooted(conf))
<1> DEFINE C == Rooted(conf)
<1>1. C \in Branches /\ C \subseteq Node \ History /\ Root \in C
  BY FullIsBranches DEF Branches, Complete
<1>2. conf \subseteq C /\ \A x \in C : x = Root \/ x \in conf
  BY DEF Rooted
<1>3. Kind[Root] \in {"compound", "parallel"}
  BY DEF WellFormedTree
<1>4. \E c \in Kids[Root] : c \in C
  <2>1. CASE Kind[Root] = "compound"
    BY <2>1, <1>1 DEF Complete, FullTrees
  <2>2. CASE Kind[Root] = "parallel"
    <3>1. Kids[Root] # {} /\ Kids[Root] \subseteq C
      BY <2>2, <1>1, NodesNumbered DEF Complete, FullTrees, WellFormedTree
    <3> QED
      BY <3>1
  <2> QED
    BY <1>3, <2>1, <2>2
<1>5. \A c \in Kids[Root] : c # Root
  BY NodesNumbered, KidsAre
<1>6. \A a \in C : Ancestors[a] \subseteq C
  BY <1>1, BranchesUp
<1>7. ~IsAtomic(Root)
  BY <1>3 DEF IsAtomic
<1> HIDE DEF C
<1>8. ASSUME NEW n \in History
      PROVE  Memory(n, conf) = Memory(n, C)
  BY <1>2, <1>7 DEF Memory
<1> QED
  BY <1>1, <1>2, <1>4, <1>5, <1>6, <1>8 DEF C

LEMMA RecordedRemembers ==
    ASSUME WellFormedTree, NEW h, Remembers(h), NEW conf, NEW exiting \in SUBSET conf,
           conf = {} \/ Complete(conf)
    PROVE  Remembers(Recorded(exiting, conf, h))
<1> DEFINE r == Recorded(exiting, conf, h)
<1>1. r = [n \in History |-> IF Parent[n] \notin exiting THEN h[n] ELSE Memory(n, conf)]
  BY DEF Recorded, Memory
<1> HIDE DEF r
<1>2. conf \subseteq Node \ History
  BY CompleteIs
<1>3. ASSUME NEW n \in History
      PROVE  /\ r[n] \in SUBSET (Node \ History)
             /\ r[n] = {} \/ \E C \in FullTrees(Root) : Parent[n] \in C /\ r[n] = Memory(n, C)
  <2>1. CASE Parent[n] \notin exiting
    BY <1>1, <2>1 DEF Remembers
  <2>2. CASE Parent[n] \in exiting
    <3>1. r[n] = Memory(n, conf) /\ Complete(conf) /\ Parent[n] \in conf
      BY <1>1, <2>2
    <3>2. Memory(n, conf) \subseteq conf
      BY DEF Memory
    <3>3. Memory(n, conf) = Memory(n, Rooted(conf)) /\ Parent[n] \in Rooted(conf)
      BY <3>1, CompleteIs DEF Rooted
    <3> QED
      BY <3>1, <3>2, <3>3, <1>2 DEF Complete
  <2> QED
    BY <2>1, <2>2
<1>4. r \in [History -> SUBSET (Node \ History)]
  BY <1>1, <1>3
<1> QED
  BY <1>3, <1>4 DEF Remembers, r

\* Transitions that are apart exit what is active in their zones.
LEMMA ExitIsZone ==
    ASSUME WellFormedTree, Remembers(hist), config = {} \/ Complete(config),
           NEW ts, Apart(ts, Rooted(config))
    PROVE  ExitSet(ts, config, hist) = config \cap UNION {Zone(t) : t \in ts}
<1> DEFINE exiting == ExitSet(ts, config, hist)
           zone == UNION {Zone(t) : t \in ts}
<1>0. config \subseteq Node /\ Rooted(config) \in SUBSET Node
  BY CompleteIs, NodesNumbered DEF Rooted
<1>1. Sensible(hist)
  BY RememberedSensible
<1>2. \A t \in ts : ExitSet({t}, config, hist) = config \cap Zone(t)
  <2> SUFFICES ASSUME NEW t \in ts PROVE ExitSet({t}, config, hist) = config \cap Zone(t)
    OBVIOUS
  <2>1. Proper(t) /\ (IsAtomicSelf(t, t.targets) => t.source \in Rooted(config))
    BY DEF Apart
  <2>2. IsAtomicSelf(t, t.targets) => t.source # Root
    BY DEF IsAtomicSelf, IsAtomic, WellFormedTree
  <2> QED
    BY <2>1, <2>2, <1>0, <1>1, ExitIs DEF Rooted
<1>3. exiting = UNION {ExitSet({t}, config, hist) : t \in ts}
  BY ExitSetUnion
<1>4. \A x : x \in exiting <=> \E t \in ts : x \in ExitSet({t}, config, hist)
  BY <1>3
<1>5. \A x : x \in zone <=> \E t \in ts : x \in Zone(t)
  OBVIOUS
<1> HIDE DEF exiting, zone
<1>6. \A x : x \in exiting <=> x \in config /\ x \in zone
  <2> SUFFICES ASSUME NEW x PROVE x \in exiting <=> x \in config /\ x \in zone
    OBVIOUS
  <2>1. \A t \in ts : x \in ExitSet({t}, config, hist) <=> x \in config /\ x \in Zone(t)
    BY <1>2
  <2> QED
    BY <2>1, <1>4, <1>5
<1>7. exiting = config \cap zone
  BY <1>6
<1> QED
  BY <1>7 DEF exiting, zone

\* The microstep of transitions that are apart.
LEMMA MicrostepLegal ==
    ASSUME WellFormedTree, Remembers(hist), config = {} \/ Complete(config),
           NEW ts, Apart(ts, Rooted(config)),
           Complete(config) \/ \E t \in ts : Whole(t) /\ DomainOf(t) = NoNode,
           NEW q, NEW out \in Node \cup {NoNode}, Microstep(ts, q, out)
    PROVE  /\ Complete(config') /\ Remembers(hist')
           /\ output' \in Node \cup {NoNode}
           /\ last'.entered \in SUBSET Node /\ last'.entered \cap last'.kept = {}
           /\ Root \in config \/ (\E t \in ts : Whole(t) /\ DomainOf(t) = NoNode) =>
                  Root \in config'
<1> DEFINE exiting == ExitSet(ts, config, hist)
           h == Recorded(exiting, config, hist)
           kept == config \ exiting
           e == EntrySet(ts, h)
           zone == UNION {Zone(t) : t \in ts}
           donedata == {n \in e : Kind[n] = "final" /\ n \in Kids[Root]}
<1>1. /\ config' = kept \cup e /\ hist' = h
      /\ output' = IF donedata = {} THEN out ELSE Innermost(donedata)
      /\ last'.entered = e /\ last'.kept = kept
  BY DEF Microstep, ExitStates, EnterStates
<1>2. config \subseteq Node /\ Rooted(config) \in SUBSET Node
  BY CompleteIs, NodesNumbered DEF Rooted
<1>3. exiting = config \cap zone
  BY ExitIsZone
<1> HIDE DEF exiting
<1>4. Remembers(h)
  BY <1>3, RecordedRemembers
<1> HIDE DEF h
<1>5. /\ e \in SUBSET Node
      /\ \A x \in e : \E t \in ts : x \in Zone(t)
      /\ \A t \in ts : e \cap Zone(t) \in Entries(t)
  BY <1>4, RememberedSensible, EntrySetIs
<1> HIDE DEF e
<1>6. kept = config \ zone
  BY <1>3
<1>7. (Rooted(config) \ zone) \cup e \in FullTrees(Root)
  BY <1>2, <1>5, LegalStep DEF Complete
<1>8. e \cap kept = {}
  BY <1>5, <1>6
<1>9. output' \in Node \cup {NoNode}
  <2>1. donedata \subseteq Node /\ IsFiniteSet(donedata) /\ \A x \in donedata : Order[x] \in Int
    <3>1. donedata \subseteq Node
      BY <1>5
    <3> QED
      BY <3>1, NodesNumbered, FS_Subset
  <2> HIDE DEF donedata
  <2>2. donedata # {} => Innermost(donedata) \in donedata
    BY <2>1, HasLast DEF Innermost
  <2> QED
    BY <2>1, <2>2, <1>1
<1>10. Complete(config')
  <2>1. Root \in (Rooted(config) \ zone) \cup e
    BY <1>7 DEF FullTrees
  <2>2. Rooted(config') = (Rooted(config) \ zone) \cup e
    <3> HIDE DEF zone, kept
    <3> QED
      BY <2>1, <1>1, <1>6 DEF Rooted
  <2> QED
    BY <2>2, <1>7 DEF Complete
<1>11. ASSUME Root \in config PROVE Root \in config'
  <2>1. Rooted(config) = config /\ Root \in (Rooted(config) \ zone) \cup e
    BY <1>7, <1>11 DEF FullTrees, Rooted
  <2> QED
    BY <2>1, <1>1, <1>6
<1>12. ASSUME NEW t \in ts, Whole(t), DomainOf(t) = NoNode PROVE Root \in config'
  <2>1. Zone(t) = Node /\ e \cap Node = e /\ e \in Pieces(NoNode)
    BY <1>5, <1>12, BelowIs DEF Zone, Entries
  <2>2. Root \in e
    BY <2>1 DEF Pieces
  <2> QED
    BY <2>2, <1>1
<1> QED
  BY <1>1, <1>4, <1>6, <1>8, <1>9, <1>10, <1>11, <1>12, <1>5

\* Transitions that are no rivals are none when the root is active.
LEMMA RootNoRival ==
    ASSUME WellFormedTree, NEW conf, Complete(conf), NEW h, Sensible(h), NEW t, NEW u, Proper(t), Proper(u),
           t.source \in Rooted(conf), u.source \in Rooted(conf), ~Rival(t, u, conf, h)
    PROVE  ~Rival(t, u, Rooted(conf), h)
<1> SUFFICES ASSUME t # u, NEW x, x \in ExitSet({t}, Rooted(conf), h), x \in ExitSet({u}, Rooted(conf), h)
             PROVE  FALSE
  BY DEF Rival
<1>1. conf \in SUBSET Node /\ Rooted(conf) \in SUBSET Node /\ \E c \in conf : c # Root
  BY CompleteIs
<1>2. \A v \in {t, u} : IsAtomicSelf(v, v.targets) => v.source # Root /\ v.source \in conf
  BY DEF IsAtomicSelf, IsAtomic, WellFormedTree, Rooted
<1>3. \A v \in {t, u} : /\ ExitSet({v}, conf, h) = conf \cap Zone(v)
                        /\ ExitSet({v}, Rooted(conf), h) = Rooted(conf) \cap Zone(v)
  BY <1>1, <1>2, ExitIs DEF Rooted
<1>4. conf \cap Zone(t) \cap Zone(u) = {}
  BY <1>3 DEF Rival
<1>5. x = Root /\ Root \in Zone(t) /\ Root \in Zone(u)
  BY <1>3, <1>4 DEF Rooted
<1>6. ASSUME NEW v \in {t, u} PROVE Zone(v) = Node
  <2>1. Root \in Zone(v) /\ Proper(v)
    BY <1>5
  <2>2. Whole(v)
    BY <2>1, <1>2 DEF Zone, Whole, IsAtomicSelf
  <2>3. DomainOf(v) \in Node \cup {NoNode} /\ Zone(v) = Below(DomainOf(v))
    BY <2>1, <2>2, DomainFound DEF Zone, Whole
  <2>4. Ancestors[Root] = {} /\ Root \in Node
    BY NodesNumbered, AncestorsAre
  <2> QED
    BY <2>1, <2>3, <2>4, BelowIs
<1> QED
  BY <1>1, <1>4, <1>6

\* The transitions taken of those an event enables.
LEMMA TakenApart ==
    ASSUME WellFormedTree, WellFormedCharts, chart \in Charts, Complete(config),
           Remembers(hist), NEW able, able \in SUBSET chart,
           \A t, u \in able : t.source = u.source => t = u,
           \A t \in able : \E a \in config : IsAtomic(a) /\ t.source \in {a} \cup Ancestors[a]
    PROVE  Apart(Filtered(able, config, hist), Rooted(config))
<1> DEFINE taken == Filtered(able, config, hist)
           C == Rooted(config)
<1>1. taken \subseteq able /\ \A t, u \in taken : ~Rival(t, u, config, hist)
  BY FilteredResolves
<1> HIDE DEF taken
<1>2. IsFiniteSet(taken)
  <2>1. IsFiniteSet(chart)
    BY ChartsAssumption
  <2> QED
    BY <2>1, <1>1, FS_Subset
<1>3. C \subseteq Node \ History /\ \A a \in config : {a} \cup Ancestors[a] \subseteq C
  BY CompleteIs
<1>4. \A t \in taken : Proper(t) /\ t.order \in Nat /\ t.source \in C
  <2> SUFFICES ASSUME NEW t \in taken PROVE Proper(t) /\ t.order \in Nat /\ t.source \in C
    OBVIOUS
  <2>1. t \in chart /\ t.source \in Node /\ t.targets \subseteq Node /\ t.order \in Nat
    BY <1>1, TransitionsTyped
  <2>2. t.source \in C
    <3>1. PICK a \in config : t.source \in {a} \cup Ancestors[a]
      BY <1>1
    <3> QED
      BY <3>1, <1>3
  <2>3. WellFormed(t)
    BY <2>1 DEF WellFormedCharts
  <2> QED
    BY <2>1, <2>2, <2>3, <1>3 DEF Proper
<1>5. Sensible(hist)
  BY RememberedSensible
<1>6. \A t, u \in taken : ~Rival(t, u, C, hist)
  BY <1>1, <1>4, <1>5, RootNoRival
<1>7. Apart(taken, C)
  BY <1>2, <1>4, <1>5, <1>6, NoRivalsApart DEF Complete
<1> QED
  BY <1>7 DEF taken

\* The transition that enters the machine.
LEMMA InitialApart ==
    ASSUME WellFormedTree
    PROVE  /\ Apart({InitialTransition}, Rooted({}))
           /\ Whole(InitialTransition) /\ DomainOf(InitialTransition) = NoNode
<1> DEFINE t == InitialTransition
           i == InitialOf(Root)
<1>1. /\ t.source = Root /\ t.targets = {i} /\ t.internal = FALSE /\ t.order = 0
  BY DEF InitialTransition
<1>2. Root \in Node \ History /\ Kind[Root] \in {"compound", "parallel"}
  BY NodesNumbered, TreeAssumption DEF WellFormedTree
<1>3. i \in Node \ History
  BY <1>2, TreeAssumption DEF InitialOf, WellFormedTree
<1> HIDE DEF t, i
<1>4. WellFormed(t)
  BY <1>1, <1>3 DEF WellFormed, Orthogonal
<1>5. Proper(t)
  BY <1>1, <1>2, <1>3, <1>4 DEF Proper
<1>6. ~IsAtomicSelf(t, t.targets) /\ Whole(t)
  BY <1>1, <1>2 DEF IsAtomicSelf, IsAtomic, Whole
<1>7. DomainOf(t) = NoNode
  <2>1. Ancestors[Root] = {}
    BY <1>2, AncestorsAre
  <2>2. {a \in Ancestors[t.source] : Kind[a] = "compound" /\ Covers(a, t)} = {}
    BY <1>1, <2>1
  <2> QED
    BY <1>1, <1>6, <2>2 DEF DomainOf, Whole
<1>8. Apart({t}, Rooted({}))
  <2>a. t.order \in Nat
    BY <1>1
  <2>b. IsFiniteSet({t})
    BY FS_Singleton
  <2> DEFINE S == {t}
  <2>2. \A v \in S : v = t
    OBVIOUS
  <2> HIDE DEF S
  <2>3. Apart(S, Rooted({}))
    BY <2>a, <2>b, <2>2, <1>5, <1>6, <1>7 DEF Apart, S
  <2> QED
    BY <2>3 DEF S
<1> QED
  BY <1>6, <1>7, <1>8 DEF t

LEMMA TakeLegal ==
    ASSUME WellFormedTree, LegalInv, NEW ts, Apart(ts, Rooted(config)),
           Complete(config) \/ \E t \in ts : Whole(t) /\ DomainOf(t) = NoNode,
           NEW q, NEW out \in Node \cup {NoNode}, NEW n \in Nat, Take(ts, q, out, n),
           UNCHANGED <<chart, committed>>
    PROVE  LegalInv'
<1>1. config = {} \/ Complete(config)
  BY DEF LegalInv
<1>2. Microstep(ts, q, out)
  BY DEF Take
<1>3. /\ Complete(config') /\ Remembers(hist')
      /\ output' \in Node \cup {NoNode}
      /\ last'.entered \in SUBSET Node /\ last'.entered \cap last'.kept = {}
  BY <1>1, <1>2, MicrostepLegal DEF LegalInv
<1>4. /\ phase' = "macrostep" /\ iterations' \in Nat
      /\ MaxIterations # Unlimited => iterations' <= MaxIterations
  BY IterationsAssumption DEF Take, Spent
<1>5. chart' \in Charts /\ SnapshotLegal(committed')
  BY DEF LegalInv
<1> QED
  BY <1>3, <1>4, <1>5 DEF LegalInv

LEMMA ExceededLegal ==
    ASSUME LegalInv, Exceeded, UNCHANGED <<chart, committed>>
    PROVE  LegalInv'
<1>1. SnapshotLegal(committed) /\ chart' = chart /\ committed' = committed
  BY DEF LegalInv
<1>2. IF phase' = "new" THEN config' = {} ELSE Complete(config')
  BY <1>1 DEF Exceeded, SnapshotLegal
<1>3. phase' \in {"new", "macrostep", "settled"} /\ Remembers(hist') /\ output' \in Node \cup {NoNode}
  BY <1>1 DEF Exceeded, SnapshotLegal
<1>4. last'.entered = {}
  BY DEF Exceeded, NoStep
<1> QED
  BY <1>1, <1>2, <1>3, <1>4, IterationsAssumption DEF LegalInv, Exceeded

\* No transition is taken: only the loop goes on.
LEMMA NoneTakenLegal ==
    ASSUME LegalInv, phase # "new", phase' \in {"macrostep", "settled"},
           iterations' \in {0, iterations}, output' \in {output, NoNode}, last' = NoStep,
           SnapshotLegal(committed'), UNCHANGED <<chart, config, hist>>
    PROVE  LegalInv'
<1>1. /\ last'.entered = {} /\ iterations' \in Nat
      /\ MaxIterations # Unlimited => iterations' <= MaxIterations
  BY IterationsAssumption DEF NoStep, LegalInv
<1> QED
  BY <1>1 DEF LegalInv

LEMMA LegalInit == Init => LegalInv
<1> SUFFICES ASSUME Init PROVE LegalInv
  OBVIOUS
<1>1. Remembers(hist)
  BY DEF Init, Remembers
<1>2. SnapshotLegal(committed)
  BY <1>1 DEF Init, SnapshotLegal
<1>3. last.entered = {}
  BY DEF Init, NoStep
<1> QED
  BY <1>1, <1>2, <1>3, IterationsAssumption DEF Init, LegalInv

\* A step takes transitions that are apart, ...
Takes(ts, q, out, n) ==
    /\ ts \in SUBSET (chart \cup {InitialTransition}) /\ ts # {} /\ Apart(ts, Rooted(config))
    /\ out \in Node \cup {NoNode} /\ n \in Nat
    /\ Take(ts, q, out, n) /\ UNCHANGED <<chart, committed>>
    /\ phase # "new" \/ \E t \in ts : Whole(t) /\ DomainOf(t) = NoNode

Taking == \E ts, q, out, n : Takes(ts, q, out, n)

\* ... goes on without any, or returns a snapshot, ...
Passing ==
    /\ phase # "new" /\ phase' \in {"macrostep", "settled"}
    /\ iterations' \in {0, iterations} /\ output' \in {output, NoNode}
    /\ last' = NoStep /\ committed' \in {committed, Snapshot}
    /\ UNCHANGED <<chart, config, hist>>

\* ... or gives up.
GivingUp == Exceeded /\ UNCHANGED <<chart, committed>>

LEMMA NextIs ==
    ASSUME WellFormedTree, WellFormedCharts, LegalInv, Next
    PROVE  Taking \/ Passing \/ GivingUp
<1>1. /\ chart \in Charts /\ Remembers(hist) /\ iterations \in Nat
      /\ output \in Node \cup {NoNode} /\ NoNode \in Node \cup {NoNode}
      /\ phase # "new" => Complete(config)
  BY DEF LegalInv
<1>2. CASE Start
  <2> DEFINE ts == {InitialTransition}
  <2>1. config = {} /\ Take(ts, <<>>, NoNode, 0) /\ UNCHANGED <<chart, committed>>
    BY <1>2 DEF Start, LegalInv
  <2>2. Apart(ts, Rooted(config))
    BY <2>1, InitialApart
  <2>3. \E t \in ts : Whole(t) /\ DomainOf(t) = NoNode
    BY InitialApart
  <2>4. ts # {} /\ ts \in SUBSET (chart \cup {InitialTransition})
    OBVIOUS
  <2> HIDE DEF ts
  <2>5. Takes(ts, <<>>, NoNode, 0)
    BY <2>1, <2>2, <2>3, <2>4, <1>1 DEF Takes
  <2> QED
    BY <2>5 DEF Taking
<1>3. ASSUME NEW able, able \in SUBSET chart, \A t, u \in able : t.source = u.source => t = u,
             \A t \in able : \E a \in config : IsAtomic(a) /\ t.source \in {a} \cup Ancestors[a],
             phase # "new", NEW q, NEW out \in Node \cup {NoNode}, NEW n \in Nat,
             Filtered(able, config, hist) # {},
             Take(Filtered(able, config, hist), q, out, n), UNCHANGED <<chart, committed>>
      PROVE  Taking
  <2> DEFINE ts == Filtered(able, config, hist)
  <2>1. Apart(ts, Rooted(config))
    BY <1>1, <1>3, TakenApart
  <2>2. Take(ts, q, out, n) /\ ts # {}
    BY <1>3
  <2>3. ts \in SUBSET (chart \cup {InitialTransition})
    <3>1. IsFiniteSet(able)
      BY <1>1, <1>3, ChartsAssumption, FS_Subset
    <3>2. \A t \in able : t.order \in Nat
      BY <1>1, <1>3, ChartsAssumption
    <3>3. ts \subseteq able
      BY <1>1, <1>3, <3>1, <3>2, FilteredResolves
    <3> QED
      BY <3>3, <1>3
  <2> HIDE DEF ts
  <2>4. Takes(ts, q, out, n)
    BY <2>1, <2>2, <2>3, <1>3 DEF Takes
  <2> QED
    BY <2>4 DEF Taking
<1>4. ASSUME NEW e \in External, Receive(e)
      PROVE  Taking \/ Passing
  <2>1. phase = "settled" /\ UNCHANGED <<chart, committed>>
    BY <1>4 DEF Receive
  <2>2. PICK held \in SUBSET Guarded :
            LET ts == Filtered(SelectFor(e, held), config, hist) IN
            IF ts # {} THEN Take(ts, <<>>, NoNode, 0)
            ELSE /\ phase' = "macrostep" /\ iterations' = 0 /\ output' = NoNode /\ last' = NoStep
                 /\ UNCHANGED <<config, hist, queue>>
    BY <1>4 DEF Receive
  <2> DEFINE able == SelectFor(e, held)
  <2>3. /\ able \in SUBSET chart /\ \A t, u \in able : t.source = u.source => t = u
        /\ \A t \in able : \E a \in config : IsAtomic(a) /\ t.source \in {a} \cup Ancestors[a]
    BY <1>1, SelectForIs
  <2> HIDE DEF able
  <2>4. CASE Filtered(able, config, hist) # {}
    <3>1. Take(Filtered(able, config, hist), <<>>, NoNode, 0)
      BY <2>2, <2>4 DEF able
    <3> QED
      BY <2>1, <2>3, <2>4, <3>1, <1>1, <1>3
  <2>5. CASE Filtered(able, config, hist) = {}
    <3>1. /\ phase' = "macrostep" /\ iterations' = 0 /\ output' = NoNode /\ last' = NoStep
          /\ UNCHANGED <<config, hist>>
      BY <2>2, <2>5 DEF able
    <3> QED
      BY <2>1, <3>1 DEF Passing
  <2> QED
    BY <2>4, <2>5
<1>5. CASE EventlessStep
  <2>1. phase = "macrostep" /\ UNCHANGED <<chart, committed>>
    BY <1>5 DEF EventlessStep
  <2>2. PICK held \in SUBSET Guarded :
            LET ts == Filtered(SelectEventless(held), config, hist) IN
            ts # {} /\ (Take(ts, queue, output, iterations) \/ Exceeded)
    BY <1>5 DEF EventlessStep
  <2> DEFINE able == SelectEventless(held)
  <2>3. /\ able \in SUBSET chart /\ \A t, u \in able : t.source = u.source => t = u
        /\ \A t \in able : \E a \in config : IsAtomic(a) /\ t.source \in {a} \cup Ancestors[a]
    BY <1>1, SelectEventlessIs
  <2>4. /\ Filtered(able, config, hist) # {}
        /\ Take(Filtered(able, config, hist), queue, output, iterations) \/ Exceeded
    BY <2>2
  <2> HIDE DEF able
  <2>5. CASE Take(Filtered(able, config, hist), queue, output, iterations)
    BY <2>1, <2>3, <2>4, <2>5, <1>1, <1>3
  <2>6. CASE Exceeded
    BY <2>1, <2>6 DEF GivingUp
  <2> QED
    BY <2>4, <2>5, <2>6
<1>6. CASE InternalStep
  <2>1. phase = "macrostep" /\ UNCHANGED <<chart, committed>>
    BY <1>6 DEF InternalStep
  <2>2. PICK held \in SUBSET Guarded :
            LET ts == Filtered(SelectFor(Head(queue), held), config, hist) IN
            IF ts # {} THEN Take(ts, Tail(queue), output, iterations) \/ Exceeded
            ELSE /\ last' = NoStep
                 /\ UNCHANGED <<config, hist, output, phase, iterations>>
    BY <1>6 DEF InternalStep
  <2> DEFINE able == SelectFor(Head(queue), held)
  <2>3. /\ able \in SUBSET chart /\ \A t, u \in able : t.source = u.source => t = u
        /\ \A t \in able : \E a \in config : IsAtomic(a) /\ t.source \in {a} \cup Ancestors[a]
    BY <1>1, SelectForIs
  <2>4. IF Filtered(able, config, hist) # {}
        THEN Take(Filtered(able, config, hist), Tail(queue), output, iterations) \/ Exceeded
        ELSE /\ last' = NoStep
             /\ UNCHANGED <<config, hist, output, phase, iterations>>
    BY <2>2
  <2> HIDE DEF able
  <2>5. CASE /\ Filtered(able, config, hist) # {}
             /\ Take(Filtered(able, config, hist), Tail(queue), output, iterations)
    BY <2>1, <2>3, <2>5, <1>1, <1>3
  <2>6. CASE Exceeded
    BY <2>1, <2>6 DEF GivingUp
  <2>7. CASE last' = NoStep /\ UNCHANGED <<config, hist, output, phase, iterations>>
    BY <2>1, <2>7 DEF Passing
  <2> QED
    BY <2>4, <2>5, <2>6, <2>7
<1>7. CASE Settle
  BY <1>7 DEF Settle, Passing
<1> QED
  BY <1>2, <1>4, <1>5, <1>6, <1>7 DEF Next

LEMMA LegalNext ==
    ASSUME WellFormedTree, WellFormedCharts, LegalInv, [Next]_vars
    PROVE  LegalInv'
<1>1. CASE Taking
  <2>0. PICK ts, q, out, n : Takes(ts, q, out, n)
    BY <1>1 DEF Taking
  <2>1. /\ Apart(ts, Rooted(config)) /\ out \in Node \cup {NoNode} /\ n \in Nat
        /\ Take(ts, q, out, n) /\ UNCHANGED <<chart, committed>>
        /\ phase # "new" \/ \E t \in ts : Whole(t) /\ DomainOf(t) = NoNode
    BY <2>0 DEF Takes
  <2>2. Complete(config) \/ \E t \in ts : Whole(t) /\ DomainOf(t) = NoNode
    BY <2>1 DEF LegalInv
  <2> QED
    BY <2>1, <2>2, TakeLegal
<1>2. CASE Passing
  <2>1. SnapshotLegal(Snapshot) /\ SnapshotLegal(committed)
    BY <1>2 DEF SnapshotLegal, Snapshot, LegalInv, Passing
  <2> QED
    BY <1>2, <2>1, NoneTakenLegal DEF Passing
<1>3. CASE GivingUp
  BY <1>3, ExceededLegal DEF GivingUp
<1>4. CASE UNCHANGED vars
  BY <1>4 DEF vars, LegalInv
<1> QED
  BY <1>1, <1>2, <1>3, <1>4, NextIs

-----------------------------------------------------------------------------
(* Checkpoints                                                              *)

ValueStep(f, conf, m) ==
    LET below == ActiveChildren(m, conf) IN
    IF Kind[m] = "compound" /\ \E c \in below : IsAtomic(c)
    THEN Key(CHOOSE c \in below : TRUE)
    ELSE Dictionary([c \in below |-> f[c]])

\* The recursion of StateValue has a solution.
LEMMA ValueExists ==
    ASSUME NEW conf \in SUBSET Node
    PROVE  \E f : f = [n \in Node |-> ValueStep(f, conf, n)]
<1>1. ASSUME NEW f, NEW g, NEW n \in Node, \A m \in Node : Order[n] < Order[m] => f[m] = g[m]
      PROVE  ValueStep(f, conf, n) = ValueStep(g, conf, n)
  <2>1. \A c \in ActiveChildren(n, conf) : f[c] = g[c]
    BY <1>1, ParentIs DEF ActiveChildren
  <2>2. [c \in ActiveChildren(n, conf) |-> f[c]] = [c \in ActiveChildren(n, conf) |-> g[c]]
    BY <2>1
  <2> QED
    BY <2>2 DEF ValueStep
<1> DEFINE Solves(f, n) == f[n] = ValueStep(f, conf, n)
           From(f, k) == \A n \in Node : Len(Doc) - Order[n] <= k => Solves(f, n)
           Bad == {k \in Nat : ~\E f : From(f, k)}
<1> HIDE DEF Solves
<1>2. Bad = {}
  <2>1. SUFFICES ASSUME Bad # {} PROVE FALSE
    OBVIOUS
  <2>2. PICK k \in Bad : \A j \in Bad : k <= j
    BY <2>1, LeastNumber
  <2>3. k \in Nat /\ ~\E f : From(f, k)
    OBVIOUS
  <2>4. \A j \in Nat : j < k => \E f : From(f, j)
    BY <2>2
  <2>5. \E g : \A n \in Node : Len(Doc) - Order[n] < k => Solves(g, n)
    <3>1. CASE k = 0
      <4>1. \A n \in Node : ~(Len(Doc) - Order[n] < 0)
        BY NodesNumbered
      <4> QED
        BY <4>1, <3>1
    <3>2. CASE k # 0
      <4>1. k - 1 \in Nat /\ k - 1 < k
        BY <2>3, <3>2
      <4>2. PICK g : From(g, k - 1)
        BY <4>1, <2>4
      <4>3. \A n \in Node : Len(Doc) - Order[n] < k => Len(Doc) - Order[n] <= k - 1
        BY <4>1, <2>3, NodesNumbered
      <4> QED
        BY <4>2, <4>3
    <3> QED
      BY <3>1, <3>2
  <2>6. PICK g : \A n \in Node : Len(Doc) - Order[n] < k => Solves(g, n)
    BY <2>5
  <2> DEFINE f == [n \in Node |-> IF Len(Doc) - Order[n] = k THEN ValueStep(g, conf, n) ELSE g[n]]
  <2>7. ASSUME NEW n \in Node, Len(Doc) - Order[n] <= k
        PROVE  Solves(f, n)
    <3>1. \A m \in Node : Order[n] < Order[m] => f[m] = g[m]
      BY <2>3, <2>7, NodesNumbered
    <3>2. ValueStep(f, conf, n) = ValueStep(g, conf, n)
      <4> HIDE DEF f
      <4> QED
        BY <3>1, <1>1
    <3>3. Len(Doc) - Order[n] = k \/ Len(Doc) - Order[n] < k
      BY <2>3, <2>7, NodesNumbered
    <3>4. CASE Len(Doc) - Order[n] = k
      BY <3>2, <3>4 DEF Solves
    <3>5. CASE Len(Doc) - Order[n] < k
      <4>1. f[n] = g[n]
        BY <3>5, <2>3
      <4> HIDE DEF f
      <4> QED
        BY <4>1, <3>2, <3>5, <2>6 DEF Solves
    <3> QED
      BY <3>3, <3>4, <3>5
  <2>8. From(f, k)
    BY <2>7
  <2> QED
    BY <2>3, <2>8
<1>3. PICK g : From(g, Len(Doc))
  BY <1>2, NodesNumbered
<1> DEFINE f == [n \in Node |-> g[n]]
<1>4. ASSUME NEW n \in Node
      PROVE  f[n] = ValueStep(f, conf, n)
  <2>1. ValueStep(f, conf, n) = ValueStep(g, conf, n)
    <3>1. \A m \in Node : f[m] = g[m]
      OBVIOUS
    <3> HIDE DEF f
    <3> QED
      BY <3>1, <1>1
  <2>2. g[n] = ValueStep(g, conf, n)
    <3>1. Len(Doc) - Order[n] <= Len(Doc)
      BY NodesNumbered
    <3> QED
      BY <3>1, <1>3 DEF Solves
  <2> QED
    BY <2>1, <2>2
<1>5. f = [n \in Node |-> ValueStep(f, conf, n)]
  <2> DEFINE F == [n \in Node |-> ValueStep(f, conf, n)]
  <2>1. \A n \in Node : f[n] = F[n]
    BY <1>4
  <2> QED
    BY <2>1
<1> QED
  BY <1>5

\* The values of the nodes of a configuration.
Values(conf) == CHOOSE f : f = [n \in Node |-> ValueStep(f, conf, n)]

LEMMA ValuesAre ==
    ASSUME NEW conf \in SUBSET Node
    PROVE  /\ StateValue(Root, conf) = Values(conf)[Root]
           /\ \A n \in Node : Values(conf)[n] = ValueStep(Values(conf), conf, n)
<1>1. Values(conf) = [n \in Node |-> ValueStep(Values(conf), conf, n)]
  BY ValueExists DEF Values
<1>2. StateValue(Root, conf) = Values(conf)[Root]
  BY DEF StateValue, Values, ValueStep
<1> QED
  BY <1>1, <1>2

\* The part of a value that is that of n, when f gives those of its parent.
PartStep(f, value, n) ==
    IF n = Root THEN value
    ELSE LET v == f[Parent[n]] IN
         IF "dict" \in DOMAIN v /\ n \in DOMAIN v.dict THEN v.dict[n]
         ELSE Dictionary(<<>>)

\* The recursion of Configuration has the solution w, and no other.
LEMMA PartsAre ==
    ASSUME NEW value, NEW w, w = [n \in Node |-> PartStep(w, value, n)]
    PROVE  Configuration(value) = {n \in Node \ {Root} : n \in Named(w[Parent[n]])}
<1> DEFINE at == CHOOSE f : f = [n \in Node |-> PartStep(f, value, n)]
<1>1. at = [n \in Node |-> PartStep(at, value, n)]
  OBVIOUS
<1>2. Configuration(value) = {n \in Node \ {Root} : n \in Named(at[Parent[n]])}
  BY DEF Configuration, PartStep
<1> HIDE DEF at
<1>3. \A n \in Node : at[n] = PartStep(at, value, n) /\ w[n] = PartStep(w, value, n)
  <2>1. \A n \in Node : at[n] = PartStep(at, value, n)
    BY <1>1
  <2> QED
    BY <2>1
<1> DEFINE S == {n \in Node : at[n] = w[n]}
<1>4. Root \in S
  BY <1>3, NodesNumbered DEF PartStep
<1>5. ASSUME NEW n \in Node \ {Root}, Parent[n] \in S
      PROVE  n \in S
  <2>1. at[Parent[n]] = w[Parent[n]]
    BY <1>5
  <2>2. PartStep(at, value, n) = PartStep(w, value, n)
    BY <2>1 DEF PartStep
  <2> QED
    BY <2>2, <1>3
<1>6. Node \subseteq S
  BY <1>4, <1>5, TreeInduction
<1>7. \A n \in Node \ {Root} : at[Parent[n]] = w[Parent[n]]
  BY <1>6, ParentIs
<1> QED
  BY <1>2, <1>7

\* What a dictionary and a key name.
LEMMA NamedIs ==
    /\ \A n : Named(Key(n)) = {n} /\ "dict" \notin DOMAIN Key(n)
    /\ \A f : /\ Named(Dictionary(f)) = DOMAIN f
              /\ "dict" \in DOMAIN Dictionary(f) /\ Dictionary(f).dict = f
    /\ DOMAIN <<>> = {}
BY DEF Named, Key, Dictionary

\* What is written of a complete configuration, root or not, is read again.
LEMMA ValueRestores ==
    ASSUME WellFormedTree, NEW conf, Complete(conf)
    PROVE  Configuration(StateValue(Root, conf)) = conf \ {Root}
<1> DEFINE C == Rooted(conf)
           V == Values(conf)
           E == Dictionary(<<>>)
           w == [n \in Node |-> IF n \in C THEN V[n] ELSE E]
           value == StateValue(Root, conf)
<1>1. conf \in SUBSET Node /\ C \subseteq Node \ History /\ Root \in C /\ Root \in Node
  BY CompleteIs, NodesNumbered DEF Rooted
<1>2. value = V[Root] /\ \A n \in Node : V[n] = ValueStep(V, conf, n)
  BY <1>1, ValuesAre
<1>3. /\ \A n \in C : /\ n # Root => Parent[n] \in C
                      /\ Kind[n] = "compound" => \E k \in Kids[n] : Kids[n] \cap C = {k}
      /\ \A n : n \in C <=> n = Root \/ n \in conf
  BY DEF Complete, FullTrees, Rooted
<1> HIDE DEF C, V, value
<1>4. ASSUME NEW n \in C
      PROVE  ActiveChildren(n, conf) = {c \in C : c # Root /\ Parent[c] = n}
  BY <1>3 DEF ActiveChildren
<1>5. ASSUME NEW n \in C, Kind[n] = "compound", \E c \in ActiveChildren(n, conf) : IsAtomic(c)
      PROVE  \E k \in C : IsAtomic(k) /\ ActiveChildren(n, conf) = {k} /\ V[n] = Key(k)
  <2>1. PICK k \in Kids[n] : Kids[n] \cap C = {k}
    BY <1>3, <1>5
  <2>2. ActiveChildren(n, conf) = {k}
    <3>1. Kids[n] = {c \in Node \ History : c # Root /\ Parent[c] = n}
      BY <1>1 DEF Kids
    <3> QED
      BY <3>1, <2>1, <1>1, <1>4
  <2>3. V[n] = Key(CHOOSE c \in {k} : TRUE)
    BY <1>1, <1>2, <1>5, <2>2 DEF ValueStep
  <2>4. (CHOOSE c \in {k} : TRUE) = k
    OBVIOUS
  <2> QED
    BY <2>1, <2>2, <2>3, <2>4, <1>5
<1>6. ASSUME NEW n \in C, ~(Kind[n] = "compound" /\ \E c \in ActiveChildren(n, conf) : IsAtomic(c))
      PROVE  V[n] = Dictionary([c \in ActiveChildren(n, conf) |-> V[c]])
  BY <1>1, <1>2, <1>6 DEF ValueStep
<1>7. \A n \in C : Named(V[n]) = ActiveChildren(n, conf)
  BY <1>5, <1>6, NamedIs
<1>8. ASSUME NEW n \in C, IsAtomic(n)
      PROVE  V[n] = E
  <2>1. ActiveChildren(n, conf) = {}
    <3>1. \A c \in Node \ {Root} : Parent[c] # n
      BY <1>8, <1>1 DEF WellFormedTree, IsAtomic
    <3> QED
      BY <3>1, <1>1 DEF ActiveChildren
  <2>2. Kind[n] # "compound"
    BY <1>8 DEF IsAtomic
  <2>3. V[n] = Dictionary([c \in {} |-> V[c]])
    BY <2>1, <2>2, <1>6
  <2>4. [c \in {} |-> V[c]] = <<>>
    OBVIOUS
  <2> QED
    BY <2>3, <2>4
<1>9. ASSUME NEW n \in Node
      PROVE  w[n] = PartStep(w, value, n)
  <2>1. CASE n = Root
    BY <2>1, <1>1, <1>2 DEF PartStep
  <2>2. CASE n # Root /\ n \in C
    <3>1. Parent[n] \in C /\ Parent[n] \in Node /\ w[Parent[n]] = V[Parent[n]] /\ w[n] = V[n]
      BY <2>2, <1>1, <1>3
    <3>2. n \in ActiveChildren(Parent[n], conf)
      BY <2>2, <3>1, <1>4
    <3> HIDE DEF w, E
    <3>3. CASE V[Parent[n]] = Dictionary([c \in ActiveChildren(Parent[n], conf) |-> V[c]])
      BY <3>1, <3>2, <3>3, <2>2, NamedIs DEF PartStep
    <3>4. CASE V[Parent[n]] = Key(n) /\ IsAtomic(n)
      <4>1. "dict" \notin DOMAIN w[Parent[n]]
        BY <3>1, <3>4, NamedIs
      <4> QED
        BY <4>1, <3>1, <3>4, <2>2, <1>8 DEF PartStep, E
    <3> QED
      BY <3>1, <3>2, <3>3, <3>4, <1>5, <1>6
  <2>3. CASE n \notin C
    <3>1. n # Root /\ Parent[n] \in Node /\ w[n] = E
      BY <2>3, <1>1, ParentIs
    <3>2. ~("dict" \in DOMAIN w[Parent[n]] /\ n \in DOMAIN w[Parent[n]].dict)
      <4>1. CASE Parent[n] \in C
        <5>1. w[Parent[n]] = V[Parent[n]]
          BY <4>1, <3>1
        <5>2. n \notin ActiveChildren(Parent[n], conf)
          BY <4>1, <2>3, <1>4
        <5> HIDE DEF w, E
        <5>3. CASE \E k : V[Parent[n]] = Key(k)
          BY <5>1, <5>3, NamedIs
        <5>4. CASE V[Parent[n]] = Dictionary([c \in ActiveChildren(Parent[n], conf) |-> V[c]])
          BY <5>1, <5>2, <5>4, NamedIs
        <5> QED
          BY <5>3, <5>4, <4>1, <1>5, <1>6
      <4>2. CASE Parent[n] \notin C
        <5>1. w[Parent[n]] = E
          BY <4>2, <3>1
        <5> HIDE DEF w
        <5> QED
          BY <5>1, NamedIs
      <4> QED
        BY <4>1, <4>2
    <3> HIDE DEF w
    <3> QED
      BY <3>1, <3>2 DEF PartStep
  <2> QED
    BY <2>1, <2>2, <2>3
<1>10. w = [n \in Node |-> PartStep(w, value, n)]
  <2> DEFINE F == [n \in Node |-> PartStep(w, value, n)]
  <2>1. \A n \in Node : w[n] = F[n]
    BY <1>9
  <2> QED
    BY <2>1
<1>11. ASSUME NEW n \in Node \ {Root}
       PROVE  n \in Named(w[Parent[n]]) <=> n \in conf
  <2>1. Parent[n] \in Node
    BY ParentIs
  <2>2. CASE Parent[n] \in C
    <3>1. w[Parent[n]] = V[Parent[n]]
      BY <2>1, <2>2
    <3> HIDE DEF w
    <3> QED
      BY <2>2, <3>1, <1>3, <1>4, <1>7
  <2>3. CASE Parent[n] \notin C
    <3>1. w[Parent[n]] = E
      BY <2>1, <2>3
    <3>2. n \notin conf
      BY <2>3, <1>3
    <3> HIDE DEF w
    <3> QED
      BY <3>1, <3>2, NamedIs
  <2> QED
    BY <2>2, <2>3
<1> HIDE DEF w
<1>12. Configuration(value) = {n \in Node \ {Root} : n \in Named(w[Parent[n]])}
  BY <1>10, PartsAre
<1> QED
  BY <1>1, <1>11, <1>12 DEF value

FinalStep(f, conf, n) ==
    \/ Kind[n] = "compound" /\ \E c \in Kids[n] : Kind[c] = "final" /\ c \in conf
    \/ Kind[n] = "parallel" /\ \A c \in Kids[n] : f[c]

\* The recursion of IsInFinal has a solution.
LEMMA FinalExists ==
    ASSUME NEW conf
    PROVE  \E f : f = [n \in Node |-> FinalStep(f, conf, n)]
<1>1. ASSUME NEW f, NEW g, NEW n \in Node, \A m \in Node : Order[n] < Order[m] => f[m] = g[m]
      PROVE  FinalStep(f, conf, n) = FinalStep(g, conf, n)
  <2>1. \A c \in Kids[n] : f[c] = g[c]
    BY <1>1, KidsAre
  <2> QED
    BY <2>1, Zenon DEF FinalStep
<1> DEFINE Solves(f, n) == f[n] = FinalStep(f, conf, n)
           From(f, k) == \A n \in Node : Len(Doc) - Order[n] <= k => Solves(f, n)
           Bad == {k \in Nat : ~\E f : From(f, k)}
<1> HIDE DEF Solves
<1>2. Bad = {}
  <2>1. SUFFICES ASSUME Bad # {} PROVE FALSE
    OBVIOUS
  <2>2. PICK k \in Bad : \A j \in Bad : k <= j
    BY <2>1, LeastNumber
  <2>3. k \in Nat /\ ~\E f : From(f, k)
    OBVIOUS
  <2>4. \A j \in Nat : j < k => \E f : From(f, j)
    BY <2>2
  <2>5. \E g : \A n \in Node : Len(Doc) - Order[n] < k => Solves(g, n)
    <3>1. CASE k = 0
      <4>1. \A n \in Node : ~(Len(Doc) - Order[n] < 0)
        BY NodesNumbered
      <4> QED
        BY <4>1, <3>1
    <3>2. CASE k # 0
      <4>1. k - 1 \in Nat /\ k - 1 < k
        BY <2>3, <3>2
      <4>2. PICK g : From(g, k - 1)
        BY <4>1, <2>4
      <4>3. \A n \in Node : Len(Doc) - Order[n] < k => Len(Doc) - Order[n] <= k - 1
        BY <4>1, <2>3, NodesNumbered
      <4> QED
        BY <4>2, <4>3
    <3> QED
      BY <3>1, <3>2
  <2>6. PICK g : \A n \in Node : Len(Doc) - Order[n] < k => Solves(g, n)
    BY <2>5
  <2> DEFINE f == [n \in Node |-> IF Len(Doc) - Order[n] = k THEN FinalStep(g, conf, n) ELSE g[n]]
  <2>7. ASSUME NEW n \in Node, Len(Doc) - Order[n] <= k
        PROVE  Solves(f, n)
    <3>1. \A m \in Node : Order[n] < Order[m] => f[m] = g[m]
      BY <2>3, <2>7, NodesNumbered
    <3>2. FinalStep(f, conf, n) = FinalStep(g, conf, n)
      <4> HIDE DEF f
      <4> QED
        BY <3>1, <1>1
    <3>3. Len(Doc) - Order[n] = k \/ Len(Doc) - Order[n] < k
      BY <2>3, <2>7, NodesNumbered
    <3>4. CASE Len(Doc) - Order[n] = k
      BY <3>2, <3>4 DEF Solves
    <3>5. CASE Len(Doc) - Order[n] < k
      <4>1. f[n] = g[n]
        BY <3>5, <2>3
      <4> HIDE DEF f
      <4> QED
        BY <4>1, <3>2, <3>5, <2>6 DEF Solves
    <3> QED
      BY <3>3, <3>4, <3>5
  <2>8. From(f, k)
    BY <2>7
  <2> QED
    BY <2>3, <2>8
<1>3. PICK g : From(g, Len(Doc))
  BY <1>2, NodesNumbered
<1> DEFINE f == [n \in Node |-> g[n]]
<1>4. ASSUME NEW n \in Node
      PROVE  f[n] = FinalStep(f, conf, n)
  <2>1. FinalStep(f, conf, n) = FinalStep(g, conf, n)
    <3>1. \A m \in Node : f[m] = g[m]
      OBVIOUS
    <3> HIDE DEF f
    <3> QED
      BY <3>1, <1>1
  <2>2. g[n] = FinalStep(g, conf, n)
    <3>1. Len(Doc) - Order[n] <= Len(Doc)
      BY NodesNumbered
    <3> QED
      BY <3>1, <1>3 DEF Solves
  <2> QED
    BY <2>1, <2>2
<1>5. f = [n \in Node |-> FinalStep(f, conf, n)]
  <2> DEFINE F == [n \in Node |-> FinalStep(f, conf, n)]
  <2>1. \A n \in Node : f[n] = F[n]
    BY <1>4
  <2> QED
    BY <2>1
<1> QED
  BY <1>5

LEMMA IsInFinalIs ==
    ASSUME NEW n \in Node, NEW conf
    PROVE  /\ Kind[n] = "compound" =>
                  (IsInFinal(n, conf) <=> \E c \in Kids[n] : Kind[c] = "final" /\ c \in conf)
           /\ Kind[n] = "parallel" =>
                  (IsInFinal(n, conf) <=> \A c \in Kids[n] : IsInFinal(c, conf))
           /\ Kind[n] \notin {"compound", "parallel"} => ~IsInFinal(n, conf)
<1> DEFINE final == CHOOSE f : f = [m \in Node |-> FinalStep(f, conf, m)]
<1>1. final = [m \in Node |-> FinalStep(final, conf, m)]
  BY FinalExists
<1>2. \A m : IsInFinal(m, conf) = final[m]
  BY DEF IsInFinal, FinalStep
<1> HIDE DEF final
<1>3. IsInFinal(n, conf) = FinalStep(final, conf, n)
  BY <1>1, <1>2
<1>4. \A c \in Kids[n] : IsInFinal(c, conf) = final[c]
  BY <1>2
<1>5. CASE Kind[n] = "compound"
  <2>1. FinalStep(final, conf, n) = \E c \in Kids[n] : Kind[c] = "final" /\ c \in conf
    BY <1>5 DEF FinalStep
  <2> QED
    BY <2>1, <1>3, <1>5
<1>6. CASE Kind[n] = "parallel"
  <2>1. FinalStep(final, conf, n) = \A c \in Kids[n] : final[c]
    BY <1>6 DEF FinalStep
  <2> QED
    BY <2>1, <1>3, <1>4, <1>6
<1>7. CASE Kind[n] \notin {"compound", "parallel"}
  <2>1. FinalStep(final, conf, n) = FALSE
    BY <1>7 DEF FinalStep
  <2> QED
    BY <2>1, <1>3, <1>7
<1> QED
  BY <1>5, <1>6, <1>7

\* The root is no child: whether it is active does not matter.
LEMMA FinalWithoutRoot ==
    ASSUME NEW conf
    PROVE  \A n \in Node : IsInFinal(n, conf \ {Root}) <=> IsInFinal(n, conf)
<1> DEFINE S == {n \in Node : IsInFinal(n, conf \ {Root}) <=> IsInFinal(n, conf)}
<1>1. ASSUME NEW n \in Node, \A m \in Node : Order[n] < Order[m] => m \in S
      PROVE  n \in S
  <2>1. \A c \in Kids[n] : /\ c # Root
                           /\ IsInFinal(c, conf \ {Root}) <=> IsInFinal(c, conf)
    BY <1>1, KidsAre
  <2>2. CASE Kind[n] = "compound"
    BY <2>1, <2>2, IsInFinalIs
  <2>3. CASE Kind[n] = "parallel"
    BY <2>1, <2>3, IsInFinalIs
  <2>4. CASE Kind[n] \notin {"compound", "parallel"}
    BY <2>4, IsInFinalIs
  <2> QED
    BY <2>2, <2>3, <2>4
<1>2. Node \subseteq S
  <2> HIDE DEF S
  <2> QED
    BY <1>1, ReverseInduction
<1> QED
  BY <1>2

\* What is restored from a snapshot that holds a configuration.
LEMMA SnapshotRestores ==
    ASSUME WellFormedTree, NEW s, SnapshotLegal(s), s.config # {}
    PROVE  LET r == Deserialize(Serialize(s)) IN
           /\ r.config = s.config \ {Root} /\ r.hist = s.hist
           /\ r.output \in Node \cup {NoNode}
           /\ DOMAIN r = {"config", "hist", "output"}
           /\ IsInFinal(Root, r.config) <=> IsInFinal(Root, s.config)
<1> DEFINE data == Serialize(s)
           conf == Configuration(data.value)
           final == {n \in conf : Kind[n] = "final" /\ Parent[n] = Root}
           r == Deserialize(data)
<1>1. Complete(s.config) /\ s.config \subseteq Node /\ Root \in Node
  BY CompleteIs, NodesNumbered DEF SnapshotLegal
<1>2. conf = s.config \ {Root}
  BY <1>1, ValueRestores DEF Serialize
<1>3. r.config = conf /\ DOMAIN r = {"config", "hist", "output"}
  BY DEF Deserialize
<1>4. r.hist = s.hist
  <2>1. s.hist = [h \in History |-> s.hist[h]]
    BY DEF SnapshotLegal, Remembers
  <2>2. r.hist = [h \in History |-> IF h \in DOMAIN data.hist THEN data.hist[h] ELSE {}]
    BY DEF Deserialize
  <2>3. data.hist = [h \in {g \in History : s.hist[g] # {}} |-> s.hist[h]]
    BY DEF Serialize
  <2> HIDE DEF data, r
  <2>4. \A h \in History : (IF h \in DOMAIN data.hist THEN data.hist[h] ELSE {}) = s.hist[h]
    BY <2>3
  <2> QED
    BY <2>1, <2>2, <2>4
<1>5. r.output \in Node \cup {NoNode}
  <2>1. r.output = IF final = {} THEN NoNode ELSE CHOOSE n \in final : TRUE
    BY DEF Deserialize
  <2>2. final \subseteq Node
    BY <1>1, <1>2
  <2> HIDE DEF final, r
  <2> QED
    BY <2>1, <2>2
<1> HIDE DEF r, conf
<1>6. IsInFinal(Root, r.config) <=> IsInFinal(Root, s.config)
  BY <1>1, <1>2, <1>3, FinalWithoutRoot
<1> QED
  BY <1>2, <1>3, <1>4, <1>5, <1>6 DEF r

LEMMA RestartLegal ==
    ASSUME WellFormedTree, LegalInv, Restart
    PROVE  LegalInv'
<1> DEFINE s == Deserialize(Serialize(committed))
<1>1. /\ committed.config # {} /\ SnapshotLegal(committed)
      /\ committed' = s /\ config' = s.config /\ hist' = s.hist /\ output' = s.output
      /\ phase' = "settled" /\ last' = NoStep /\ chart' = chart /\ iterations' = 0
  BY DEF Restart, LegalInv
<1>2. /\ s.config = committed.config \ {Root} /\ s.hist = committed.hist
      /\ s.output \in Node \cup {NoNode} /\ DOMAIN s = {"config", "hist", "output"}
  BY <1>1, SnapshotRestores
<1> HIDE DEF s
<1>3. Rooted(s.config) = Rooted(committed.config)
  BY <1>2 DEF Rooted
<1>4. Complete(s.config) /\ Remembers(s.hist)
  BY <1>1, <1>2, <1>3 DEF SnapshotLegal, Complete
<1>5. SnapshotLegal(committed')
  BY <1>1, <1>2, <1>4 DEF SnapshotLegal
<1>6. last'.entered = {} /\ (MaxIterations # Unlimited => iterations' <= MaxIterations)
  BY <1>1, IterationsAssumption DEF NoStep
<1> QED
  BY <1>1, <1>2, <1>4, <1>5, <1>6 DEF LegalInv

\* From any legal configuration, by any mix of transitions, history, parallel
\* and competing ones, the algorithm reaches only legal configurations, and
\* remembers only what it can restore; so does a machine that was restored.
THEOREM LegalInvariant ==
    ASSUME WellFormedTree, WellFormedCharts
    PROVE  (Spec => []LegalInv) /\ (PSpec => []LegalInv)
<1>1. Init => LegalInv
  BY LegalInit
<1>2. LegalInv /\ [Next]_vars => LegalInv'
  BY LegalNext
<1>3. LegalInv /\ [PNext]_vars => LegalInv'
  BY LegalNext, RestartLegal DEF PNext
<1> QED
  BY <1>1, <1>2, <1>3, PTL DEF Spec, PSpec

\* A restart keeps of a snapshot every active state below the root, the history
\* and the completion, at every point of every execution with restarts.
THEOREM CheckpointsRestore ==
    ASSUME WellFormedTree, WellFormedCharts
    PROVE  PSpec => []CheckpointRestores
<1>1. LegalInv => CheckpointRestores
  BY SnapshotRestores DEF LegalInv, CheckpointRestores
<1> QED
  BY <1>1, LegalInvariant, PTL

-----------------------------------------------------------------------------
(* Done events                                                              *)

Never(q, e) == \A i \in DOMAIN q : q[i] # e
Once(q, e) == \E i \in DOMAIN q : \A j \in DOMAIN q : q[j] = e <=> j = i

LEMMA OccurrencesAre ==
    ASSUME NEW q \in Seq(Event), NEW e
    PROVE  /\ Never(q, e) => Cardinality({i \in DOMAIN q : q[i] = e}) = 0
           /\ Once(q, e) => Cardinality({i \in DOMAIN q : q[i] = e}) = 1
<1>1. ASSUME Never(q, e) PROVE Cardinality({i \in DOMAIN q : q[i] = e}) = 0
  <2>1. {i \in DOMAIN q : q[i] = e} = {}
    BY <1>1 DEF Never
  <2> QED
    BY <2>1, FS_EmptySet
<1>2. ASSUME Once(q, e) PROVE Cardinality({i \in DOMAIN q : q[i] = e}) = 1
  <2>1. PICK i \in DOMAIN q : \A j \in DOMAIN q : q[j] = e <=> j = i
    BY <1>2 DEF Once
  <2>2. {j \in DOMAIN q : q[j] = e} = {i}
    BY <2>1
  <2> QED
    BY <2>2, FS_Singleton
<1> QED
  BY <1>1, <1>2

LEMMA OccurrencesJoin ==
    ASSUME NEW q \in Seq(Event), NEW r \in Seq(Event), NEW e
    PROVE  /\ q \o r \in Seq(Event)
           /\ Never(q, e) /\ Never(r, e) => Never(q \o r, e)
           /\ Once(q, e) /\ Never(r, e) => Once(q \o r, e)
           /\ Never(q, e) /\ Once(r, e) => Once(q \o r, e)
<1> DEFINE s == q \o r
<1>1. /\ s \in Seq(Event) /\ Len(q) \in Nat /\ Len(r) \in Nat /\ Len(s) = Len(q) + Len(r)
      /\ DOMAIN q = 1..Len(q) /\ DOMAIN r = 1..Len(r) /\ DOMAIN s = 1..Len(s)
  OBVIOUS
<1>2. /\ \A i \in 1..Len(q) : s[i] = q[i]
      /\ \A i \in 1..Len(r) : s[Len(q) + i] = r[i]
  OBVIOUS
<1>3. \A i \in DOMAIN s : i \in 1..Len(q) \/ \E j \in 1..Len(r) : i = Len(q) + j
  <2> SUFFICES ASSUME NEW i \in DOMAIN s, i \notin 1..Len(q)
               PROVE  \E j \in 1..Len(r) : i = Len(q) + j
    OBVIOUS
  <2>1. i - Len(q) \in 1..Len(r) /\ i = Len(q) + (i - Len(q))
    BY <1>1
  <2> QED
    BY <2>1
<1> HIDE DEF s
<1>4. ASSUME Never(q, e), Never(r, e) PROVE Never(s, e)
  BY <1>1, <1>2, <1>3, <1>4 DEF Never
<1>5. ASSUME Once(q, e), Never(r, e) PROVE Once(s, e)
  <2>1. PICK i \in DOMAIN q : \A j \in DOMAIN q : q[j] = e <=> j = i
    BY <1>5 DEF Once
  <2>2. i \in DOMAIN s /\ s[i] = e
    BY <2>1, <1>1, <1>2
  <2>3. ASSUME NEW j \in DOMAIN s, s[j] = e PROVE j = i
    BY <2>1, <2>3, <1>1, <1>2, <1>3, <1>5 DEF Never
  <2> QED
    BY <2>2, <2>3 DEF Once
<1>6. ASSUME Never(q, e), Once(r, e) PROVE Once(s, e)
  <2>1. PICK i \in DOMAIN r : \A j \in DOMAIN r : r[j] = e <=> j = i
    BY <1>6 DEF Once
  <2>2. Len(q) + i \in DOMAIN s /\ s[Len(q) + i] = e
    BY <2>1, <1>1, <1>2
  <2>3. ASSUME NEW j \in DOMAIN s, s[j] = e PROVE j = Len(q) + i
    <3>1. j \notin 1..Len(q)
      BY <2>3, <1>1, <1>2, <1>6 DEF Never
    <3>2. PICK k \in 1..Len(r) : j = Len(q) + k
      BY <3>1, <1>3
    <3>3. r[k] = e /\ k \in DOMAIN r
      BY <3>2, <2>3, <1>1, <1>2
    <3> QED
      BY <3>2, <3>3, <2>1
  <2> QED
    BY <2>2, <2>3 DEF Once
<1> QED
  BY <1>1, <1>4, <1>5, <1>6 DEF s

\* Of those that raise, only one of X raises e, if any, and once.
OnlyBy(raises, X, e) ==
    /\ \A x, y \in X : x = y
    /\ \A y \in DOMAIN raises : /\ raises[y] \in Seq(Event)
                                /\ IF y \in X THEN Once(raises[y], e) ELSE Never(raises[y], e)

\* An event that at most one raises, and raises once, is raised once in all, or
\* never.
LEMMA RaisedIs ==
    ASSUME NEW raises, NEW X, NEW e, OnlyBy(raises, X, e), IsFiniteSet(DOMAIN raises),
           NEW key, \A y \in DOMAIN raises : key[y] \in Int
    PROVE  LET r == RaisedInOrder(key, raises) IN
           r \in Seq(Event) /\ IF DOMAIN raises \cap X # {} THEN Once(r, e) ELSE Never(r, e)
<1> DEFINE S == DOMAIN raises
<1>0. /\ IsFiniteSet(S) /\ (\A y \in S : key[y] \in Int) /\ (\A x, y \in X : x = y)
      /\ \A y \in S : /\ raises[y] \in Seq(Event)
                      /\ IF y \in X THEN Once(raises[y], e) ELSE Never(raises[y], e)
  BY DEF OnlyBy
<1> DEFINE step == [y \in S |-> [q \in Seq(Event) |-> q \o raises[y]]]
           Rel == {w \in (SUBSET S) \X Seq(Event) :
                      IF w[1] \cap X # {} THEN Once(w[2], e) ELSE Never(w[2], e)}
<1>1. <<{}, <<>>>> \in Rel
  <2>1. Never(<<>>, e) /\ <<>> \in Seq(Event)
    BY DEF Never
  <2> QED
    BY <2>1
<1>2. ASSUME NEW T \in SUBSET S, NEW y \in S \ T, NEW a, <<T, a>> \in Rel
      PROVE  <<T \cup {y}, step[y][a]>> \in Rel
  <2>1. a \in Seq(Event) /\ IF T \cap X # {} THEN Once(a, e) ELSE Never(a, e)
    BY <1>2
  <2>2. step[y][a] = a \o raises[y]
    BY <2>1
  <2>3. raises[y] \in Seq(Event) /\ IF y \in X THEN Once(raises[y], e) ELSE Never(raises[y], e)
    BY <1>0
  <2> HIDE DEF step
  <2>4. step[y][a] \in Seq(Event)
    BY <2>1, <2>2, <2>3, OccurrencesJoin
  <2>5. IF (T \cup {y}) \cap X # {} THEN Once(step[y][a], e) ELSE Never(step[y][a], e)
    <3>1. CASE y \in X
      <4>1. T \cap X = {} /\ (T \cup {y}) \cap X # {}
        BY <3>1, <1>0
      <4> QED
        BY <4>1, <3>1, <2>1, <2>2, <2>3, OccurrencesJoin
    <3>2. CASE y \notin X
      <4>1. (T \cup {y}) \cap X = T \cap X
        BY <3>2
      <4> QED
        BY <4>1, <3>2, <2>1, <2>2, <2>3, OccurrencesJoin
    <3> QED
      BY <3>1, <3>2
  <2> QED
    BY <2>4, <2>5
<1>3. RaisedInOrder(key, raises) = InOrder(key, step, <<>>)
  BY DEF RaisedInOrder
<1> HIDE DEF S
<1>4. DOMAIN step = S
  OBVIOUS
<1>5. <<S, InOrder(key, step, <<>>)>> \in Rel
  <2> HIDE DEF Rel, step
  <2> QED
    BY <1>0, <1>1, <1>2, <1>4, InOrderKeeps
<1> QED
  BY <1>3, <1>5 DEF S

\* Completion only grows with the configuration, and closed forms of it when
\* regions are compound states.
LEMMA FinalRegions ==
    ASSUME WellFormedTree, WellFormedDone, NEW n \in Node, Kind[n] = "parallel", NEW conf
    PROVE  IsInFinal(n, conf) <=>
               \A c \in Kids[n] : /\ Kind[c] = "compound"
                                  /\ \E f \in Kids[c] : Kind[f] = "final" /\ f \in conf
<1>1. ASSUME NEW c \in Kids[n]
      PROVE  IsInFinal(c, conf) <=> /\ Kind[c] = "compound"
                                    /\ \E f \in Kids[c] : Kind[f] = "final" /\ f \in conf
  <2>1. c \in Node \ {Root} /\ Parent[c] = n
    BY KidsAre
  <2>2. Kind[c] # "parallel"
    BY <2>1 DEF WellFormedDone
  <2>3. CASE Kind[c] = "compound"
    BY <2>1, <2>3, IsInFinalIs
  <2>4. CASE Kind[c] # "compound"
    BY <2>1, <2>2, <2>4, IsInFinalIs
  <2> QED
    BY <2>3, <2>4
<1> QED
  BY <1>1, IsInFinalIs

\* Final states are in compound states.
LEMMA FinalsAre ==
    ASSUME WellFormedTree, WellFormedDone, NEW m \in Node, Kind[m] = "final"
    PROVE  /\ m # Root /\ m \in Kids[Parent[m]] /\ Parent[m] \in Node /\ Kind[Parent[m]] = "compound"
           /\ Parent[m] # Root =>
                  /\ Parent[m] \in Kids[Parent[Parent[m]]] /\ Parent[Parent[m]] \in Node
                  /\ Parent[Parent[m]] # Parent[m]
<1>1. m # Root /\ m \notin History
  BY DEF WellFormedTree, History
<1>2. Parent[m] \in Node /\ m \in Kids[Parent[m]]
  BY <1>1, ParentIs DEF Kids
<1>3. Kind[Parent[m]] = "compound" /\ Parent[m] \notin History
  BY DEF WellFormedDone, History
<1>4. ASSUME Parent[m] # Root
      PROVE  /\ Parent[m] \in Kids[Parent[Parent[m]]] /\ Parent[Parent[m]] \in Node
             /\ Parent[Parent[m]] # Parent[m]
  <2>1. Parent[Parent[m]] \in Node /\ Order[Parent[Parent[m]]] < Order[Parent[m]]
    BY <1>2, <1>4, ParentIs
  <2>2. Parent[m] \in Kids[Parent[Parent[m]]]
    BY <1>2, <1>3, <1>4, <2>1 DEF Kids
  <2>3. Parent[Parent[m]] # Parent[m]
    BY <2>1, <1>2, NodesNumbered
  <2> QED
    BY <2>1, <2>2, <2>3
<1> QED
  BY <1>1, <1>2, <1>3, <1>4

\* Whether entering final state m, in the configuration so far, raises the done
\* event of n.
Completes(m, n, conf) ==
    \/ Parent[m] = n
    \/ /\ Parent[m] # Root /\ Parent[Parent[m]] = n
       /\ Kind[n] = "parallel" /\ IsInFinal(n, conf)

LEMMA DoneTyped ==
    /\ \A n \in Node : Done(n) \in Event /\ <<Done(n)>> \in Seq(Event)
    /\ \A m, n : Done(m) = Done(n) <=> m = n
<1>1. ASSUME NEW n \in Node
      PROVE  Done(n) \in Event
  <2>1. n \in STRING /\ "done" \in STRING /\ "state" \in STRING
    BY TreeAssumption
  <2>2. \A S : \A a, b, c \in S : <<a, b, c>> \in Seq(S)
    OBVIOUS
  <2>3. <<"done", "state", n>> \in Seq(STRING)
    BY <2>1, <2>2
  <2> QED
    BY <2>3 DEF Done, Event
<1>2. ASSUME NEW m, NEW n, Done(m) = Done(n)
      PROVE  m = n
  <2>1. Done(m)[3] = m /\ Done(n)[3] = n
    BY DEF Done
  <2> QED
    BY <2>1, <1>2
<1> HIDE DEF Done
<1> QED
  BY <1>1, <1>2

LEMMA DoneEventsAre ==
    ASSUME WellFormedTree, WellFormedDone, NEW m \in Node, Kind[m] = "final", NEW conf,
           NEW n \in Node
    PROVE  /\ DoneEvents(m, conf) \in Seq(Event)
           /\ IF Completes(m, n, conf) THEN Once(DoneEvents(m, conf), Done(n))
                                       ELSE Never(DoneEvents(m, conf), Done(n))
<1> DEFINE p == Parent[m]
           g == Parent[p]
           more == p # Root /\ Kind[g] = "parallel" /\ IsInFinal(g, conf)
           rest == IF more THEN <<Done(g)>> ELSE <<>>
<1>1. p \in Node /\ (p # Root => g \in Node /\ g # p) /\ Kind[p] = "compound"
  BY FinalsAre
<1>2. DoneEvents(m, conf) = <<Done(p)>> \o rest
  BY DEF DoneEvents
<1>3. Completes(m, n, conf) <=> n = p \/ (n = g /\ more)
  BY DEF Completes
<1> HIDE DEF more
<1>4. \A k \in Node : /\ <<Done(k)>> \in Seq(Event)
                      /\ k = n => Once(<<Done(k)>>, Done(n))
                      /\ k # n => Never(<<Done(k)>>, Done(n))
  <2> SUFFICES ASSUME NEW k \in Node
               PROVE  /\ <<Done(k)>> \in Seq(Event)
                      /\ k = n => Once(<<Done(k)>>, Done(n))
                      /\ k # n => Never(<<Done(k)>>, Done(n))
    OBVIOUS
  <2>1. <<Done(k)>> \in Seq(Event) /\ (Done(k) = Done(n) <=> k = n)
    BY DoneTyped
  <2> HIDE DEF Done
  <2>2. DOMAIN <<Done(k)>> = {1} /\ <<Done(k)>>[1] = Done(k)
    OBVIOUS
  <2> QED
    BY <2>1, <2>2 DEF Once, Never
<1>5. <<>> \in Seq(Event) /\ Never(<<>>, Done(n))
  BY DEF Never
<1>6. more => g \in Node /\ g # p
  BY <1>1 DEF more
<1>7. /\ rest \in Seq(Event)
      /\ IF n = g /\ more THEN Once(rest, Done(n)) ELSE Never(rest, Done(n))
  BY <1>4, <1>5, <1>6
<1> HIDE DEF rest
<1>8. <<Done(p)>> \in Seq(Event)
  BY <1>1, <1>4
<1>9. CASE n = p
  <2>1. Once(<<Done(p)>>, Done(n)) /\ Never(rest, Done(n))
    BY <1>1, <1>4, <1>6, <1>7, <1>9
  <2> QED
    BY <2>1, <1>2, <1>3, <1>7, <1>8, <1>9, OccurrencesJoin
<1>10. CASE n # p
  <2>1. Never(<<Done(p)>>, Done(n))
    BY <1>1, <1>4, <1>10
  <2> QED
    BY <2>1, <1>2, <1>3, <1>7, <1>8, <1>10, OccurrencesJoin
<1> QED
  BY <1>9, <1>10

\* In a complete configuration, a compound state has one child.
LEMMA OnlyChild ==
    ASSUME WellFormedTree, NEW conf, Complete(conf), NEW p \in Node, Kind[p] = "compound",
           NEW a \in Kids[p], NEW b \in Kids[p], a \in conf, b \in conf
    PROVE  a = b
<1>1. a \in Rooted(conf) /\ b \in Rooted(conf) /\ a # Root /\ Parent[a] = p
  BY KidsAre DEF Rooted
<1>2. p \in Rooted(conf)
  BY <1>1 DEF Complete, FullTrees
<1>3. \E k \in Kids[p] : Kids[p] \cap Rooted(conf) = {k}
  BY <1>2 DEF Complete, FullTrees
<1> QED
  BY <1>1, <1>3

\* Of the states entered, one raises the done event of n when n is completed,
\* and none does otherwise.
LEMMA OneCompletes ==
    ASSUME WellFormedTree, WellFormedDone, NEW n \in Node, NEW kept, NEW e \in SUBSET Node,
           Complete(kept \cup e), e \cap kept = {}
    PROVE  LET upTo(m) == kept \cup {x \in e : Order[x] <= Order[m]}
               R == {m \in e : Kind[m] = "final" /\ Completes(m, n, upTo(m))}
           IN IF IsInFinal(n, kept \cup e) /\ ~IsInFinal(n, kept)
              THEN \E x \in e : R = {x} ELSE R = {}
<1> DEFINE conf == kept \cup e
           upTo(m) == kept \cup {x \in e : Order[x] <= Order[m]}
           R == {m \in e : Kind[m] = "final" /\ Completes(m, n, upTo(m))}
           F == {m \in e : Kind[m] = "final" /\ Parent[m] # Root /\ Parent[Parent[m]] = n}
<1>1. CASE Kind[n] = "compound"
  <2>1. R = {m \in e : Kind[m] = "final" /\ m \in Kids[n]}
    <3>1. \A m \in Node : Kind[m] = "final" => (Parent[m] = n <=> m \in Kids[n])
      BY FinalsAre, KidsAre
    <3> QED
      BY <3>1, <1>1 DEF Completes
  <2>2. \A k : IsInFinal(n, k) <=> \E c \in Kids[n] : Kind[c] = "final" /\ c \in k
    BY <1>1, IsInFinalIs
  <2> HIDE DEF R
  <2>3. \A a, b \in Kids[n] : a \in conf /\ b \in conf => a = b
    BY <1>1, OnlyChild
  <2>4. CASE IsInFinal(n, conf) /\ ~IsInFinal(n, kept)
    <3>1. PICK c \in Kids[n] : Kind[c] = "final" /\ c \in conf
      BY <2>2, <2>4
    <3>2. c \in e
      BY <3>1, <2>2, <2>4
    <3>3. R = {c}
      BY <3>1, <3>2, <2>1, <2>3
    <3> QED
      BY <3>2, <3>3, <2>4 DEF R
  <2>5. CASE ~IsInFinal(n, conf)
    <3>1. R = {}
      BY <2>1, <2>2, <2>5
    <3> QED
      BY <3>1, <2>5 DEF R
  <2>6. CASE IsInFinal(n, kept)
    <3>1. PICK c \in Kids[n] : Kind[c] = "final" /\ c \in kept
      BY <2>2, <2>6
    <3>2. R = {}
      BY <3>1, <2>1, <2>3
    <3> QED
      BY <3>2, <2>6 DEF R
  <2> QED
    BY <2>4, <2>5, <2>6
<1>2. CASE Kind[n] = "parallel"
  <2> DEFINE Fin(c, k) == Kind[c] = "compound" /\ \E f \in Kids[c] : Kind[f] = "final" /\ f \in k
  <2>1. \A k : IsInFinal(n, k) <=> \A c \in Kids[n] : Fin(c, k)
    BY <1>2, FinalRegions
  <2>2. \A m \in F : /\ Parent[m] \in Kids[n] /\ Kind[Parent[m]] = "compound" /\ m \in Kids[Parent[m]]
                     /\ m \in e /\ Kind[m] = "final" /\ m \in Node
    BY FinalsAre
  <2>3. \A c \in Kids[n] : \A f \in Kids[c] : f \in e /\ Kind[f] = "final" => f \in F
    BY KidsAre
  <2>4. \A c \in Kids[n] : Kind[c] = "compound" =>
            \A a, b \in Kids[c] : a \in conf /\ b \in conf => a = b
    BY KidsAre, OnlyChild
  <2>5. R = {m \in F : IsInFinal(n, upTo(m))}
    <3>1. \A m \in Node : Kind[m] = "final" => Parent[m] # n
      BY <1>2, FinalsAre
    <3> QED
      BY <3>1, <1>2 DEF Completes
  <2> HIDE DEF R, F
  <2>6. CASE IsInFinal(n, conf) /\ ~IsInFinal(n, kept)
    <3>1. F # {}
      <4>1. PICK c \in Kids[n] : ~Fin(c, kept) /\ Fin(c, conf)
        BY <2>1, <2>6
      <4>2. PICK f \in Kids[c] : Kind[f] = "final" /\ f \in conf
        BY <4>1
      <4>3. f \in e
        BY <4>1, <4>2
      <4> QED
        BY <4>2, <4>3, <2>3
    <3>2. F \subseteq Node /\ F \subseteq e /\ IsFiniteSet(F) /\ \A x \in F : Order[x] \in Int
      <4>1. F \subseteq Node /\ F \subseteq e
        BY <2>2
      <4> QED
        BY <4>1, NodesNumbered, FS_Subset
    <3>3. PICK x \in F : \A y \in F : Order[y] <= Order[x]
      BY <3>1, <3>2, HasLast
    <3>4. IsInFinal(n, upTo(x))
      <4>1. ASSUME NEW c \in Kids[n] PROVE Fin(c, upTo(x))
        <5>1. Fin(c, conf)
          BY <2>1, <2>6
        <5>2. PICK f \in Kids[c] : Kind[f] = "final" /\ f \in conf
          BY <5>1
        <5>3. f \in e => Order[f] <= Order[x]
          BY <5>2, <2>3, <3>3
        <5> QED
          BY <5>1, <5>2, <5>3
      <4> QED
        BY <4>1, <2>1
    <3>5. ASSUME NEW y \in F, IsInFinal(n, upTo(y)) PROVE y = x
      <4>1. PICK f \in Kids[Parent[x]] : Kind[f] = "final" /\ f \in upTo(y)
        BY <2>1, <2>2, <3>5
      <4>2. f = x
        BY <4>1, <2>2, <2>4
      <4>3. Order[x] <= Order[y]
        BY <4>1, <4>2, <2>2
      <4>4. Order[y] <= Order[x] /\ x \in Node /\ y \in Node
        BY <3>2, <3>3
      <4> QED
        BY <4>3, <4>4, NodesNumbered
    <3>6. R = {x}
      BY <2>5, <3>4, <3>5
    <3>7. x \in e
      BY <2>2
    <3> QED
      BY <3>6, <3>7, <2>6 DEF R
  <2>7. CASE ~IsInFinal(n, conf)
    <3>1. ASSUME NEW m \in F, IsInFinal(n, upTo(m)) PROVE FALSE
      <4>1. \A c \in Kids[n] : Fin(c, upTo(m))
        BY <2>1, <3>1
      <4>2. \A c \in Kids[n] : Fin(c, conf)
        BY <4>1
      <4> QED
        BY <4>2, <2>1, <2>7
    <3>2. R = {}
      BY <3>1, <2>5
    <3> QED
      BY <3>2, <2>7 DEF R
  <2>8. CASE IsInFinal(n, kept)
    <3>1. ASSUME NEW m \in F PROVE FALSE
      <4>1. PICK f \in Kids[Parent[m]] : f \in kept
        BY <2>1, <2>2, <2>8
      <4>2. f = m
        BY <4>1, <2>2, <2>4
      <4> QED
        BY <4>1, <4>2, <2>2
    <3>2. R = {}
      BY <3>1, <2>5
    <3> QED
      BY <3>2, <2>8 DEF R
  <2> QED
    BY <2>6, <2>7, <2>8
<1>3. CASE Kind[n] \notin {"compound", "parallel"}
  <2>1. ~IsInFinal(n, conf)
    BY <1>3, IsInFinalIs
  <2>2. \A m \in Node : Kind[m] = "final" => Parent[m] # n
    BY <1>3, FinalsAre
  <2>3. R = {}
    BY <2>2, <1>3 DEF Completes
  <2> HIDE DEF R
  <2> QED
    BY <2>1, <2>3 DEF R
<1> QED
  BY <1>1, <1>2, <1>3

\* The events that one microstep raises.
LEMMA MicrostepDone ==
    ASSUME WellFormedTree, WellFormedDone, LegalInv, NEW ts, NEW q, NEW out, NEW n,
           Takes(ts, q, out, n)
    PROVE  DoneOnceCompleted'
<1>1. /\ chart \in Charts /\ Remembers(hist) /\ (config = {} \/ Complete(config))
      /\ Complete(config) \/ \E t \in ts : Whole(t) /\ DomainOf(t) = NoNode
  BY DEF LegalInv, Takes
<1>2. /\ ts \in SUBSET (chart \cup {InitialTransition}) /\ ts # {} /\ Apart(ts, Rooted(config))
      /\ out \in Node \cup {NoNode} /\ Microstep(ts, q, out)
  BY DEF Takes, Take
<1> DEFINE exiting == ExitSet(ts, config, hist)
           kept == config \ exiting
           e == EntrySet(ts, Recorded(exiting, config, hist))
           upTo(m) == kept \cup {x \in e : Order[x] <= Order[m]}
           leaving == [m \in exiting |-> ExitRaise[m]]
           acting == [t \in ts |-> t.raises]
           entering == [m \in e |->
               EntryRaise[m] \o IF Kind[m] = "final" THEN DoneEvents(m, upTo(m)) ELSE <<>>]
           left == RaisedInOrder(Outward, leaving)
           content == RaisedInOrder([t \in ts |-> t.order], acting)
           entered == RaisedInOrder(Order, entering)
<1>3. /\ config' = kept \cup e
      /\ last' = [taken |-> ts, kept |-> kept, entered |-> e, raised |-> left \o content \o entered]
  BY <1>2 DEF Microstep, ExitStates, EnterStates, TransitionContent
<1>4. Complete(kept \cup e) /\ e \in SUBSET Node /\ e \cap kept = {}
  <2>1. Complete(config') /\ last'.entered \in SUBSET Node /\ last'.entered \cap last'.kept = {}
    BY <1>1, <1>2, MicrostepLegal
  <2> QED
    BY <2>1, <1>3
<1>5. exiting \in SUBSET Node
  <2>1. config \subseteq Node
    BY <1>1, CompleteIs
  <2>2. exiting \subseteq config
    BY <1>1, <1>2, ExitIsZone
  <2> QED
    BY <2>1, <2>2
<1> HIDE DEF exiting, e
<1> SUFFICES ASSUME NEW node \in Node
             PROVE  Cardinality({i \in DOMAIN last'.raised : last'.raised[i] = Done(node)})
                      = IF /\ last'.taken # {} /\ IsInFinal(node, config')
                           /\ ~IsInFinal(node, last'.kept)
                        THEN 1 ELSE 0
  BY DEF DoneOnceCompleted
<1> DEFINE d == Done(node)
           completed == IsInFinal(node, kept \cup e) /\ ~IsInFinal(node, kept)
<1>6. /\ \A m \in Node : /\ EntryRaise[m] \in Seq(Event) /\ Never(EntryRaise[m], d)
                         /\ ExitRaise[m] \in Seq(Event) /\ Never(ExitRaise[m], d)
      /\ \A t \in ts : t.raises \in Seq(Event) /\ Never(t.raises, d)
  <2>1. \A r : d \notin Range(r) => Never(r, d)
    BY DEF Range, Never
  <2>2. \A m \in Node : d \notin Range(EntryRaise[m]) /\ d \notin Range(ExitRaise[m])
    BY DEF WellFormedDone
  <2>3. ASSUME NEW t \in ts
        PROVE  t.raises \in Seq(Event) /\ Never(t.raises, d)
    <3>1. CASE t \in chart
      <4>1. t.raises \in Seq(Event)
        BY <3>1, <1>1, ChartsAssumption
      <4>2. d \notin Range(t.raises)
        BY <3>1, <1>1 DEF WellFormedDone
      <4> QED
        BY <4>1, <4>2, <2>1
    <3>2. CASE t = InitialTransition
      <4>1. t.raises = <<>>
        BY <3>2 DEF InitialTransition
      <4> HIDE DEF d
      <4> QED
        BY <4>1 DEF Never
    <3> QED
      BY <3>1, <3>2, <1>2
  <2>4. \A m \in Node : EntryRaise[m] \in Seq(Event) /\ ExitRaise[m] \in Seq(Event)
    BY TreeAssumption
  <2> HIDE DEF d
  <2> QED
    BY <2>1, <2>2, <2>3, <2>4
<1> HIDE DEF d
<1>7. left \in Seq(Event) /\ Never(left, d)
  <2>1. IsFiniteSet(exiting) /\ \A m \in exiting : Outward[m] \in Int
    BY <1>5, NodesNumbered, FS_Subset DEF Outward
  <2>2. DOMAIN leaving = exiting /\ \A m \in exiting : leaving[m] = ExitRaise[m]
    OBVIOUS
  <2>3. \A m \in exiting : leaving[m] \in Seq(Event) /\ Never(leaving[m], d)
    BY <2>2, <1>5, <1>6
  <2> HIDE DEF leaving
  <2>4. OnlyBy(leaving, {}, d)
    BY <2>2, <2>3 DEF OnlyBy
  <2>5. DOMAIN leaving \cap {} = {}
    OBVIOUS
  <2> QED
    BY <2>1, <2>2, <2>4, <2>5, RaisedIs
<1>8. content \in Seq(Event) /\ Never(content, d)
  <2> DEFINE key == [t \in ts |-> t.order]
  <2>1. IsFiniteSet(ts) /\ \A t \in ts : key[t] \in Int
    BY <1>2 DEF Apart
  <2>2. DOMAIN acting = ts /\ \A t \in ts : acting[t] = t.raises
    OBVIOUS
  <2>3. \A t \in ts : acting[t] \in Seq(Event) /\ Never(acting[t], d)
    BY <2>2, <1>6
  <2> HIDE DEF acting, key
  <2>4. OnlyBy(acting, {}, d)
    BY <2>2, <2>3 DEF OnlyBy
  <2>5. DOMAIN acting \cap {} = {}
    OBVIOUS
  <2>6. RaisedInOrder(key, acting) \in Seq(Event) /\ Never(RaisedInOrder(key, acting), d)
    BY <2>1, <2>2, <2>4, <2>5, RaisedIs
  <2> QED
    BY <2>6 DEF key
<1> DEFINE R == {m \in e : Kind[m] = "final" /\ Completes(m, node, upTo(m))}
<1>9. IF completed THEN \E x \in e : R = {x} ELSE R = {}
  BY <1>4, OneCompletes
<1>10. /\ IsFiniteSet(e) /\ \A m \in e : Order[m] \in Int
       /\ DOMAIN entering = e
  BY <1>4, NodesNumbered, FS_Subset
<1>11. ASSUME NEW m \in e
       PROVE  /\ entering[m] \in Seq(Event)
              /\ IF m \in R THEN Once(entering[m], d) ELSE Never(entering[m], d)
  <2>1. m \in Node /\ EntryRaise[m] \in Seq(Event) /\ Never(EntryRaise[m], d)
    BY <1>4, <1>6
  <2> DEFINE rest == IF Kind[m] = "final" THEN DoneEvents(m, upTo(m)) ELSE <<>>
  <2>2. entering[m] = EntryRaise[m] \o rest
    OBVIOUS
  <2> HIDE DEF entering
  <2>3. CASE Kind[m] = "final"
    <3>1. /\ rest \in Seq(Event)
          /\ IF Completes(m, node, upTo(m)) THEN Once(rest, d) ELSE Never(rest, d)
      <4> HIDE DEF upTo
      <4> QED
        BY <2>1, <2>3, DoneEventsAre DEF d
    <3>2. m \in R <=> Completes(m, node, upTo(m))
      BY <2>3
    <3> HIDE DEF rest, R, upTo
    <3> QED
      BY <3>1, <3>2, <2>1, <2>2, OccurrencesJoin
  <2>4. CASE Kind[m] # "final"
    <3>1. rest = <<>> /\ rest \in Seq(Event) /\ Never(rest, d) /\ m \notin R
      BY <2>4 DEF Never
    <3> HIDE DEF rest, R
    <3> QED
      BY <3>1, <2>1, <2>2, OccurrencesJoin
  <2> QED
    BY <2>3, <2>4
<1> HIDE DEF entering, R, completed
<1>12. /\ entered \in Seq(Event)
       /\ IF completed THEN Once(entered, d) ELSE Never(entered, d)
  <2>1. /\ \A x, y \in R : x = y
        /\ e \cap R # {} <=> completed
    BY <1>9
  <2>2. OnlyBy(entering, R, d)
    BY <2>1, <1>10, <1>11 DEF OnlyBy
  <2> QED
    BY <2>1, <2>2, <1>10, RaisedIs
<1> HIDE DEF left, content, entered
<1> DEFINE raised == left \o content \o entered
<1>13. /\ raised \in Seq(Event)
       /\ IF completed THEN Once(raised, d) ELSE Never(raised, d)
  <2>1. left \o content \in Seq(Event) /\ Never(left \o content, d)
    BY <1>7, <1>8, OccurrencesJoin
  <2> QED
    BY <2>1, <1>12, OccurrencesJoin
<1>14. last'.raised = raised /\ last'.taken = ts /\ last'.kept = kept
  BY <1>3
<1> HIDE DEF raised
<1>15. Cardinality({i \in DOMAIN raised : raised[i] = d}) = IF completed THEN 1 ELSE 0
  BY <1>13, OccurrencesAre
<1> QED
  BY <1>2, <1>3, <1>14, <1>15 DEF d, completed

\* Without a microstep nothing is raised.
LEMMA NoStepDone ==
    /\ last = NoStep => DoneOnceCompleted
    /\ last' = NoStep => DoneOnceCompleted'
<1>1. Cardinality({}) = 0 /\ NoStep.raised = <<>> /\ NoStep.taken = {}
  BY FS_EmptySet DEF NoStep
<1>2. \A n : {i \in DOMAIN NoStep.raised : NoStep.raised[i] = Done(n)} = {}
  BY <1>1
<1> QED
  BY <1>1, <1>2 DEF DoneOnceCompleted

\* In every execution, with restarts at any point, a microstep raises
\* done.state of exactly the states it completes, once each, in whatever order
\* it enters the final states of several regions.
THEOREM CompletionIsRaisedOnce ==
    ASSUME WellFormedTree, WellFormedCharts, WellFormedDone
    PROVE  PSpec => []DoneOnceCompleted
<1>1. Init => DoneOnceCompleted
  BY NoStepDone DEF Init
<1>2. LegalInv /\ DoneOnceCompleted /\ [PNext]_vars => DoneOnceCompleted'
  <2> SUFFICES ASSUME LegalInv, DoneOnceCompleted, [PNext]_vars PROVE DoneOnceCompleted'
    OBVIOUS
  <2>1. CASE Taking
    BY <2>1, MicrostepDone DEF Taking
  <2>2. CASE Passing \/ GivingUp \/ Restart
    BY <2>2, NoStepDone DEF Passing, GivingUp, Exceeded, Restart
  <2>3. CASE UNCHANGED vars
    BY <2>3 DEF vars, DoneOnceCompleted
  <2> QED
    BY <2>1, <2>2, <2>3, NextIs DEF PNext
<1>3. PSpec => []LegalInv
  BY LegalInvariant
<1> QED
  BY <1>1, <1>2, <1>3, PTL DEF PSpec

-----------------------------------------------------------------------------
(* The root                                                                 *)

\* The root is active from the first microstep on.
LEMMA RootNext ==
    ASSUME WellFormedTree, WellFormedCharts, LegalInv, RootActive, [PNext]_vars
    PROVE  RootActive'
<1>1. CASE Taking
  <2>0. PICK ts, q, out, n : Takes(ts, q, out, n)
    BY <1>1 DEF Taking
  <2>1. /\ Apart(ts, Rooted(config)) /\ out \in Node \cup {NoNode} /\ n \in Nat
        /\ Take(ts, q, out, n) /\ UNCHANGED <<chart, committed>>
        /\ phase # "new" \/ \E t \in ts : Whole(t) /\ DomainOf(t) = NoNode
    BY <2>0 DEF Takes
  <2>2. Microstep(ts, q, out) /\ Remembers(hist) /\ (config = {} \/ Complete(config))
    BY <2>1 DEF Take, LegalInv
  <2>3. Complete(config) \/ \E t \in ts : Whole(t) /\ DomainOf(t) = NoNode
    BY <2>1 DEF LegalInv
  <2>4. CASE Root \in config \/ \E t \in ts : Whole(t) /\ DomainOf(t) = NoNode
    <3>1. Root \in config'
      BY <2>1, <2>2, <2>3, <2>4, MicrostepLegal
    <3> QED
      BY <3>1 DEF RootActive
  <2>5. CASE Root \notin config /\ phase # "new"
    BY <2>1, <2>5 DEF RootActive
  <2> QED
    BY <2>1, <2>4, <2>5
<1>2. CASE Passing
  <2>1. config # {}
    BY <1>2, CompleteIs DEF Passing, LegalInv
  <2> QED
    BY <1>2, <2>1 DEF Passing, Snapshot, RootActive
<1>3. CASE GivingUp
  BY <1>3 DEF GivingUp, Exceeded, RootActive
<1>4. CASE Restart
  <2>1. committed'.config # {}
    BY <1>4, RestartLegal, CompleteIs DEF Restart, LegalInv
  <2> QED
    BY <1>4, <2>1 DEF Restart, RootActive
<1>5. CASE UNCHANGED vars
  BY <1>5 DEF vars, RootActive
<1> QED
  BY <1>1, <1>2, <1>3, <1>4, <1>5, NextIs DEF PNext

LEMMA RootedInvariant ==
    ASSUME WellFormedTree, WellFormedCharts
    PROVE  /\ Spec => [](LegalInv /\ RootActive)
           /\ PSpec => [](LegalInv /\ RootActive)
<1>1. Init => LegalInv /\ RootActive
  BY LegalInit DEF Init, RootActive
<1>2. LegalInv /\ RootActive /\ [Next]_vars => (LegalInv /\ RootActive)'
  BY LegalNext, RootNext DEF PNext
<1>3. LegalInv /\ RootActive /\ [PNext]_vars => (LegalInv /\ RootActive)'
  BY LegalNext, RestartLegal, RootNext DEF PNext
<1> QED
  BY <1>1, <1>2, <1>3, PTL DEF Spec, PSpec

-----------------------------------------------------------------------------
(* The properties of the runs                                               *)

LEMMA FullIsLegal ==
    ASSUME NEW n \in Node, NEW K \in FullTrees(n)
    PROVE  LegalBelow(n, K)
<1> SUFFICES ASSUME NEW m \in K
             PROVE  /\ m # n => Parent[m] \in K
                    /\ Kind[m] = "compound" => Cardinality(Kids[m] \cap K) = 1
                    /\ Kind[m] = "parallel" => Kids[m] \subseteq K
  BY DEF LegalBelow
<1>1. /\ m # n => Parent[m] \in K
      /\ Kind[m] = "compound" => \E k \in Kids[m] : Kids[m] \cap K = {k}
      /\ Kind[m] = "parallel" => Kids[m] \subseteq K
  BY DEF FullTrees
<1> QED
  BY <1>1, FS_Singleton

LEMMA MemoryRestorable ==
    ASSUME WellFormedTree, NEW n \in History, NEW C \in FullTrees(Root), Parent[n] \in C
    PROVE  LET p == Parent[n]
               T == Memory(n, C)
               up == UNION {ProperAncestors(s, p) : s \in T}
           IN IF n \in Deep
              THEN LegalBelow(p, {p} \cup up \cup T)
              ELSE /\ T \subseteq Kids[p]
                   /\ Kind[p] = "compound" => Cardinality(T) = 1
                   /\ Kind[p] = "parallel" => T = Kids[p]
<1> DEFINE p == Parent[n]
           T == Memory(n, C)
           up == UNION {ProperAncestors(s, p) : s \in T}
<1>1. C \in Branches /\ C \subseteq Node \ History /\ p \in C /\ p \in Node /\ p # NoNode
  BY FullIsBranches, NodesNumbered DEF Branches
<1>2. CASE n \in Deep
  <2>1. T = {s \in C : IsAtomic(s) /\ s \in Below(p)}
    BY <1>1, <1>2 DEF Memory, Below
  <2> HIDE DEF T
  <2>2. \A s \in T : ProperAncestors(s, p) = Ancestors[s] \cap Below(p)
    <3> SUFFICES ASSUME NEW s \in T PROVE ProperAncestors(s, p) = Ancestors[s] \cap Below(p)
      OBVIOUS
    <3>1. s \in Node /\ p \in Ancestors[s]
      BY <2>1, <1>1, BelowIs
    <3> QED
      BY <3>1, <1>1, ProperAncestorsAre
  <2>3. \A x \in up : x \in C /\ x \in Below(p)
    BY <2>1, <2>2, <1>1, BranchesUp
  <2>4. ASSUME NEW x \in C, x \in Below(p)
        PROVE  x \in up \cup T
    <3>1. PICK a \in C : IsAtomic(a) /\ a \in Sub(x)
      BY AtomicBelow
    <3>2. a \in T /\ a \in Node /\ x \in Node
      BY <3>1, <2>1, <2>4, <1>1, BelowIs
    <3>3. x = a \/ x \in Ancestors[a]
      BY <3>1, <3>2, BelowIs DEF Sub
    <3> QED
      BY <3>2, <3>3, <2>2, <2>4
  <2>5. T \subseteq C \cap Below(p)
    BY <2>1
  <2> HIDE DEF up
  <2>6. {p} \cup up \cup T = C \cap Sub(p)
    BY <2>3, <2>4, <2>5, <1>1 DEF Sub
  <2>7. C \cap Sub(p) \in FullTrees(p)
    BY <1>1, NodesNumbered, FullPart
  <2>8. LegalBelow(p, {p} \cup up \cup T)
    BY <2>6, <2>7, <1>1, FullIsLegal
  <2> QED
    BY <2>8, <1>2 DEF up, T
<1>3. CASE n \notin Deep
  <2>1. T = Kids[p] \cap C
    BY <1>1, <1>3 DEF Memory, Kids
  <2>2. /\ Kind[p] = "compound" => \E k \in Kids[p] : Kids[p] \cap C = {k}
        /\ Kind[p] = "parallel" => Kids[p] \subseteq C
    BY <1>1 DEF FullTrees
  <2> QED
    BY <2>1, <2>2, <1>3, FS_Singleton
<1> QED
  BY <1>2, <1>3

\* The working copies of the configuration, the history and the last snapshot
\* hold what their types say, in every run of a well-formed chart, with
\* restarts from a checkpoint or without.
THEOREM TypeCorrect ==
    ASSUME WellFormedTree, WellFormedCharts
    PROVE  (Spec => []TypeOK) /\ (PSpec => []TypeOK)
<1>1. LegalInv => TypeOK
  <2> SUFFICES ASSUME LegalInv PROVE TypeOK
    OBVIOUS
  <2>1. config \subseteq Node \ History
    BY CompleteIs DEF LegalInv
  <2> QED
    BY <2>1 DEF LegalInv, TypeOK, Remembers, SnapshotLegal
<1> QED
  BY <1>1, LegalInvariant, PTL

\* After every microstep the active states are a complete tree from the root:
\* whatever mix of history, parallel and competing transitions led there, no
\* region is lost, doubled or left without its parent, in a machine that was
\* restored too.
THEOREM ConfigurationsAreLegal ==
    ASSUME WellFormedTree, WellFormedCharts
    PROVE  (Spec => []LegalConfiguration) /\ (PSpec => []LegalConfiguration)
<1>1. LegalInv /\ RootActive => LegalConfiguration
  <2> SUFFICES ASSUME LegalInv, RootActive, Active
               PROVE  /\ LegalBelow(Root, config \cup {Root})
                      /\ Root \in config \/ (committed.config # {} /\ Root \notin committed.config)
    BY DEF LegalConfiguration
  <2>1. phase # "new" /\ Rooted(config) \in FullTrees(Root)
    BY DEF LegalInv, Active, Complete
  <2>2. LegalBelow(Root, config \cup {Root})
    BY <2>1, NodesNumbered, FullIsLegal DEF Rooted
  <2> QED
    BY <2>1, <2>2 DEF RootActive
<1> QED
  BY <1>1, RootedInvariant, PTL

\* What history remembers is, with its ancestors, a complete tree of the parent
\* of the history node, so that restoring it makes no illegal configuration.
THEOREM HistoryIsRestorable ==
    ASSUME WellFormedTree, WellFormedCharts
    PROVE  (Spec => []HistoryRestorable) /\ (PSpec => []HistoryRestorable)
<1>1. LegalInv => HistoryRestorable
  <2> SUFFICES ASSUME LegalInv, NEW n \in History, hist[n] # {}
               PROVE  LET p == Parent[n]
                          up == UNION {ProperAncestors(s, p) : s \in hist[n]}
                      IN IF n \in Deep
                         THEN LegalBelow(p, {p} \cup up \cup hist[n])
                         ELSE /\ hist[n] \subseteq Kids[p]
                              /\ Kind[p] = "compound" => Cardinality(hist[n]) = 1
                              /\ Kind[p] = "parallel" => hist[n] = Kids[p]
    BY DEF HistoryRestorable
  <2>1. PICK C \in FullTrees(Root) : Parent[n] \in C /\ hist[n] = Memory(n, C)
    BY DEF LegalInv, Remembers
  <2> QED
    BY <2>1, MemoryRestorable
<1> QED
  BY <1>1, LegalInvariant, PTL

\* No microstep enters a state that it left active: entry actions do not run
\* twice, in whatever order the entry sets of several transitions are made.
THEOREM StatesEnteredOnce ==
    ASSUME WellFormedTree, WellFormedCharts
    PROVE  (Spec => []EnteredOnce) /\ (PSpec => []EnteredOnce)
<1>1. LegalInv => EnteredOnce
  BY DEF LegalInv, EnteredOnce
<1> QED
  BY <1>1, LegalInvariant, PTL

=============================================================================
