--------------------------- MODULE HierarchyProofs ---------------------------
(***************************************************************************)
(* What the two walks of Hierarchy compute, for every tree and every       *)
(* depth, and the two of Access against them: the scope of a station       *)
(* manager is a union of subtrees, and so is what the tree of the web      *)
(* application shows, circles included; and what an edit takes off it.     *)
(*                                                                         *)
(* The library's induction theorems take an operator as parameter; here    *)
(* induction over the naturals is a least counterexample, taken from the   *)
(* well-foundedness of strict inclusion between finite sets.               *)
(***************************************************************************)
EXTENDS Access, Sequences, FiniteSetTheorems, WellFoundedInduction, TLAPS

-----------------------------------------------------------------------------
(***************************************************************************)
(* Least counterexamples.                                                  *)
(***************************************************************************)
\* A set of naturals that is not empty has a least member.
LEMMA LeastNat ==
  ASSUME NEW S \in SUBSET Nat, S # {}
  PROVE  \E m \in S : \A k \in S : m <= k
<1>1. PICK n \in S : TRUE OBVIOUS
<1> DEFINE T == {0 .. k : k \in S \cap 0 .. n}
<1>2. IsWellFoundedOn(StrictSubsetOrdering(0 .. n), SUBSET (0 .. n))
  <2>1. IsFiniteSet(0 .. n) BY <1>1, FS_Interval
  <2>2. QED
    BY <2>1, FS_StrictSubsetOrderingWellFounded, FS_FiniteSubsetsOfFinite, Zenon
<1>3. T \subseteq SUBSET (0 .. n) /\ T # {} BY <1>1
<1>4. \E x \in T : \A y \in T : ~ (<<y, x>> \in StrictSubsetOrdering(0 .. n))
  <2> HIDE DEF T
  <2> QED BY <1>2, <1>3, WFMin
<1>5. PICK m \in S \cap 0 .. n :
        \A y \in T : ~ (<<y, 0 .. m>> \in StrictSubsetOrdering(0 .. n))
  BY <1>4
<1>6. ASSUME NEW k \in S, k < m PROVE FALSE
  <2>1. 0 .. k \in T BY <1>5, <1>6
  <2>2. 0 .. k \in SUBSET (0 .. n) /\ 0 .. m \in SUBSET (0 .. n) BY <1>5, <1>6
  <2>3. 0 .. k \subseteq 0 .. m /\ 0 .. k # 0 .. m BY <1>5, <1>6
  <2>4. <<0 .. k, 0 .. m>> \in StrictSubsetOrdering(0 .. n)
    BY <2>2, <2>3 DEF StrictSubsetOrdering
  <2>5. QED BY <2>1, <2>4, <1>5
<1>7. QED BY <1>5, <1>6

\* Induction, over a set instead of a predicate.
LEMMA Induction ==
  ASSUME NEW d \in Nat, NEW S, 0 \in S, \A k \in 1 .. d : k - 1 \in S => k \in S
  PROVE  0 .. d \subseteq S
<1> DEFINE Bad == {k \in 0 .. d : k \notin S}
<1>1. SUFFICES ASSUME Bad # {} PROVE FALSE OBVIOUS
<1>2. PICK m \in Bad : \A k \in Bad : m <= k
  <2>1. Bad \in SUBSET Nat OBVIOUS
  <2> HIDE DEF Bad
  <2> QED BY <1>1, <2>1, LeastNat
<1>3. m \in 1 .. d /\ m - 1 \in 0 .. d BY <1>2
<1>4. m - 1 \in S BY <1>2, <1>3
<1>5. QED BY <1>2, <1>3, <1>4

-----------------------------------------------------------------------------
(***************************************************************************)
(* The walk up.                                                            *)
(***************************************************************************)
Place == Node \cup {NoNode}

\* f is the walk of d steps from n.
Walk(parent, n, d, f) ==
  /\ f \in [0 .. d -> Place]
  /\ f[0] = n
  /\ \A k \in 1 .. d : f[k] = Above(parent)[f[k - 1]]

LEMMA AboveType ==
  ASSUME NEW parent \in [Node -> Place]
  PROVE  Above(parent) \in [Place -> Place] /\ Above(parent)[NoNode] = NoNode
BY HierarchyAssumption DEF Above, Place

\* There is a walk of every length.
LEMMA WalkExists ==
  ASSUME NEW parent \in [Node -> Place], NEW n \in Place, NEW d \in Nat
  PROVE  \E f \in [0 .. d -> Place] : Walk(parent, n, d, f)
<1> DEFINE S == {k \in 0 .. d : \E f \in [0 .. k -> Place] : Walk(parent, n, k, f)}
<1>1. 0 \in S
  <2> DEFINE f == [k \in 0 .. 0 |-> n]
  <2>1. f \in [0 .. 0 -> Place] /\ Walk(parent, n, 0, f) BY DEF Walk
  <2>2. QED BY <2>1
<1>2. ASSUME NEW k \in 1 .. d, k - 1 \in S PROVE k \in S
  <2>1. PICK f \in [0 .. (k - 1) -> Place] : Walk(parent, n, k - 1, f) BY <1>2
  <2> DEFINE g == [j \in 0 .. k |-> IF j = k THEN Above(parent)[f[k - 1]] ELSE f[j]]
  <2>2. Above(parent)[f[k - 1]] \in Place BY AboveType, <2>1
  <2>3. g \in [0 .. k -> Place] BY <2>1, <2>2
  <2>4. g[0] = n BY <2>1 DEF Walk
  <2>5. ASSUME NEW j \in 1 .. k PROVE g[j] = Above(parent)[g[j - 1]]
    <3>1. CASE j = k BY <3>1
    <3>2. CASE j # k
      <4>1. j \in 1 .. (k - 1) BY <3>2
      <4>2. f[j] = Above(parent)[f[j - 1]] BY <4>1, <2>1 DEF Walk
      <4>3. g[j] = f[j] /\ g[j - 1] = f[j - 1] BY <4>1, <3>2
      <4>4. QED BY <4>2, <4>3
    <3>3. QED BY <3>1, <3>2
  <2>6. Walk(parent, n, k, g) BY <2>3, <2>4, <2>5 DEF Walk
  <2>7. QED BY <2>3, <2>6
<1>3. 0 .. d \subseteq S
  <2> HIDE DEF S
  <2> QED BY <1>1, <1>2, Induction
<1>4. QED BY <1>3

\* Climb is the walk.
LEMMA ClimbWalks ==
  ASSUME NEW parent \in [Node -> Place], NEW n \in Place, NEW d \in Nat
  PROVE  Walk(parent, n, d, Climb(parent, n, d))
<1> DEFINE above == Above(parent)
           IsClimb(f) == f = [k \in 0 .. d |-> IF k = 0 THEN n ELSE above[f[k - 1]]]
<1>1. PICK f \in [0 .. d -> Place] : Walk(parent, n, d, f) BY WalkExists
<1>2. IsClimb(f)
  <2>1. f = [k \in 0 .. d |-> f[k]] BY <1>1
  <2>2. ASSUME NEW k \in 0 .. d PROVE f[k] = IF k = 0 THEN n ELSE above[f[k - 1]]
    BY <1>1 DEF Walk
  <2>3. QED BY <2>1, <2>2
<1>3. Climb(parent, n, d) = CHOOSE g : IsClimb(g) BY DEF Climb
<1>4. IsClimb(Climb(parent, n, d))
  <2> HIDE DEF IsClimb
  <2> QED BY <1>2, <1>3
<1> DEFINE at == Climb(parent, n, d)
<1> HIDE DEF at
<1>5. \A k \in 0 .. d : at[k] = IF k = 0 THEN n ELSE above[at[k - 1]] BY <1>4 DEF at
<1>6. DOMAIN at = 0 .. d BY <1>4 DEF at
<1>7. at[0] = n BY <1>5
<1>8. \A k \in 1 .. d : at[k] = above[at[k - 1]] BY <1>5
<1>9. \A k \in 0 .. d : at[k] \in Place
  <2> DEFINE S == {k \in 0 .. d : at[k] \in Place}
  <2>1. 0 \in S BY <1>7
  <2>2. \A k \in 1 .. d : k - 1 \in S => k \in S BY <1>8, AboveType
  <2>3. 0 .. d \subseteq S
    <3> HIDE DEF S
    <3> QED BY <2>1, <2>2, Induction
  <2>4. QED BY <2>3
<1>10. at \in [0 .. d -> Place]
  <2>1. at = [k \in 0 .. d |-> at[k]] BY <1>4, <1>6 DEF at
  <2>2. QED BY <2>1, <1>9
<1>11. QED BY <1>7, <1>8, <1>10 DEF Walk, at

\* Two climbs from a node agree as far as both go.
LEMMA ClimbsAgree ==
  ASSUME NEW parent \in [Node -> Place], NEW n \in Place, NEW d \in Nat, NEW e \in Nat,
         NEW k \in 0 .. d, k <= e
  PROVE  Climb(parent, n, d)[k] = Climb(parent, n, e)[k]
<1> DEFINE f == Climb(parent, n, d)
           g == Climb(parent, n, e)
           S == {j \in 0 .. k : f[j] = g[j]}
<1>1. Walk(parent, n, d, f) /\ Walk(parent, n, e, g) BY ClimbWalks
<1> HIDE DEF f, g
<1>2. 0 \in S BY <1>1 DEF Walk
<1>3. \A j \in 1 .. k : j - 1 \in S => j \in S BY <1>1 DEF Walk
<1>4. 0 .. k \subseteq S
  <2> HIDE DEF S
  <2> QED BY <1>2, <1>3, Induction
<1>5. QED BY <1>4 DEF f, g

\* Above a root there is nothing any more.
LEMMA ClimbEnds ==
  ASSUME NEW parent \in [Node -> Place], NEW n \in Place, NEW d \in Nat,
         NEW i \in 0 .. d, NEW k \in i .. d, Climb(parent, n, d)[i] = NoNode
  PROVE  Climb(parent, n, d)[k] = NoNode
<1> DEFINE f == Climb(parent, n, d)
           S == {j \in 0 .. (k - i) : f[i + j] = NoNode}
<1>1. Walk(parent, n, d, f) BY ClimbWalks
<1>2. f[i] = NoNode OBVIOUS
<1> HIDE DEF f
<1>3. 0 \in S BY <1>2
<1>4. ASSUME NEW j \in 1 .. (k - i), j - 1 \in S PROVE j \in S
  <2>1. i + j \in 1 .. d /\ (i + j) - 1 = i + (j - 1) OBVIOUS
  <2>2. f[i + j] = Above(parent)[f[i + (j - 1)]] BY <2>1, <1>1 DEF Walk
  <2>3. f[i + (j - 1)] = NoNode BY <1>4
  <2>4. QED BY <2>2, <2>3, AboveType
<1>5. 0 .. (k - i) \subseteq S
  <2> HIDE DEF S
  <2>1. k - i \in Nat OBVIOUS
  <2> QED BY <1>3, <1>4, <2>1, Induction
<1>6. f[i + (k - i)] = NoNode BY <1>5
<1>7. QED BY <1>6 DEF f

-----------------------------------------------------------------------------
(***************************************************************************)
(* The list of ancestors.                                                  *)
(***************************************************************************)
\* The nodes of a climb are its first ones, so that the cardinality in
\* Ancestors is a length.
LEMMA NodesComeFirst ==
  ASSUME NEW parent \in [Node -> Place], NEW n \in Node, NEW d \in Nat
  PROVE  LET at == Climb(parent, n, d)
             C  == {k \in DOMAIN at : at[k] # NoNode}
         IN  /\ Cardinality(C) \in 1 .. d + 1
             /\ C = 0 .. (Cardinality(C) - 1)
<1> DEFINE at == Climb(parent, n, d)
           C  == {k \in DOMAIN at : at[k] # NoNode}
           D  == {k \in 0 .. d : at[k] = NoNode}
<1>1. Walk(parent, n, d, at) BY ClimbWalks DEF Place
<1>2. \A i \in 0 .. d : \A k \in i .. d : at[i] = NoNode => at[k] = NoNode
  BY ClimbEnds DEF Place
<1>3. n # NoNode BY HierarchyAssumption
<1> HIDE DEF at
<1>4. PICK t \in 1 .. d + 1 : C = 0 .. (t - 1)
  <2>1. CASE D = {}
    <3>1. C = 0 .. d BY <2>1, <1>1 DEF Walk
    <3>2. QED BY <3>1
  <2>2. CASE D # {}
    <3>1. PICK t \in D : \A k \in D : t <= k
      <4>1. D \in SUBSET Nat OBVIOUS
      <4> HIDE DEF D
      <4> QED BY <2>2, <4>1, LeastNat
    <3>2. t # 0 BY <3>1, <1>1, <1>3 DEF Walk
    <3>3. C = 0 .. (t - 1)
      <4>1. ASSUME NEW k \in C PROVE k \in 0 .. (t - 1)
        <5>1. k \in 0 .. d /\ at[k] # NoNode BY <1>1 DEF Walk
        <5>2. ~ (t <= k) BY <5>1, <1>2, <3>1
        <5>3. QED BY <5>1, <5>2, <3>1
      <4>2. ASSUME NEW k \in 0 .. (t - 1) PROVE k \in C
        BY <3>1, <1>1 DEF Walk
      <4>3. QED BY <4>1, <4>2
    <3>4. QED BY <3>1, <3>2, <3>3
  <2>3. QED BY <2>1, <2>2
<1>5. Cardinality(0 .. (t - 1)) = t BY <1>4, FS_Interval
<1>6. QED BY <1>4, <1>5 DEF at

\* getAncestors returns nodes.
LEMMA AncestorsAreNodes ==
  ASSUME NEW parent \in [Node -> Place], NEW n \in Node
  PROVE  Ancestors(parent, n) \in Seq(Node)
<1> DEFINE at == Climb(parent, n, MaxDepth)
           C  == {k \in DOMAIN at : at[k] # NoNode}
<1>1. Walk(parent, n, MaxDepth, at) BY ClimbWalks, HierarchyAssumption DEF Place
<1>2. /\ Cardinality(C) \in 1 .. MaxDepth + 1
      /\ C = 0 .. (Cardinality(C) - 1)
  BY NodesComeFirst, HierarchyAssumption
<1>3. Ancestors(parent, n) = [i \in 1 .. Cardinality(C) |-> at[i - 1]] BY DEF Ancestors
<1> HIDE DEF at
<1>4. Cardinality(C) \in Nat /\ \A i \in 1 .. Cardinality(C) : i - 1 \in C
  <2> HIDE DEF C
  <2>1. QED BY <1>2, HierarchyAssumption
<1>5. \A i \in 1 .. Cardinality(C) : at[i - 1] \in Node
  <2>1. \A k \in C : at[k] \in Node BY <1>1 DEF Walk, Place
  <2>2. QED BY <1>4, <2>1
<1> HIDE DEF C
<1>6. QED BY <1>3, <1>4, <1>5

\* Where every chain of parents ends within MaxDepth nodes, the list climbed
\* from m names every node whose subtree m is in: the walk up misses nothing
\* that the walk down counts.
THEOREM WalksAgree ==
  ASSUME NEW parent \in [Node -> Place], NEW archived,
         NEW m \in Node, NEW n \in Node,
         Climb(parent, m, MaxDepth + 1)[MaxDepth + 1] = NoNode,
         m \in Subtree(parent, archived, n)
  PROVE  \E i \in DOMAIN Ancestors(parent, m) : Ancestors(parent, m)[i] = n
<1> DEFINE down == Climb(parent, m, Cardinality(Node))
           at   == Climb(parent, m, MaxDepth)
           C    == {k \in DOMAIN at : at[k] # NoNode}
<1>1. Cardinality(Node) \in Nat /\ MaxDepth \in Nat /\ n # NoNode /\ m \in Place
  BY HierarchyAssumption, FS_CardinalityType DEF Place
<1>2. Walk(parent, m, Cardinality(Node), down) /\ Walk(parent, m, MaxDepth, at)
  BY <1>1, ClimbWalks
<1>3. PICK k \in 0 .. Cardinality(Node) : down[k] = n
  BY <1>2 DEF Subtree, LivePath, Walk
<1>4. k <= MaxDepth
  <2>1. SUFFICES ASSUME k > MaxDepth PROVE FALSE BY <1>1
  <2>2. Climb(parent, m, Cardinality(Node))[MaxDepth + 1]
          = Climb(parent, m, MaxDepth + 1)[MaxDepth + 1]
    BY <1>1, <2>1, ClimbsAgree
  <2>3. down[MaxDepth + 1] = NoNode BY <2>2
  <2>4. down[k] = NoNode BY <1>1, <2>1, <2>3, ClimbEnds
  <2>5. QED BY <2>4, <1>3, <1>1
<1>5. at[k] = n BY <1>1, <1>3, <1>4, ClimbsAgree
<1>6. /\ Cardinality(C) \in 1 .. MaxDepth + 1
      /\ C = 0 .. (Cardinality(C) - 1)
  BY NodesComeFirst, <1>1
<1>7. Ancestors(parent, m) = [i \in 1 .. Cardinality(C) |-> at[i - 1]] BY DEF Ancestors
<1> HIDE DEF at
<1>8. k \in C BY <1>1, <1>2, <1>4, <1>5 DEF Walk
<1> HIDE DEF C
<1>9. k + 1 \in 1 .. Cardinality(C) BY <1>1, <1>6, <1>8
<1>10. Ancestors(parent, m)[k + 1] = n BY <1>5, <1>7, <1>9
<1>11. QED BY <1>7, <1>9, <1>10

-----------------------------------------------------------------------------
(***************************************************************************)
(* areNodesInScope.                                                        *)
(***************************************************************************)
LEMMA ByIdType ==
  ASSUME NEW parent \in [Node -> Place], NEW hidden
  PROVE  ById(parent, hidden) \in [Node -> Place]
BY DEF ById, Place

\* As far as a node's chain of parents is live, the cursor follows it.
LEMMA CursorFollows ==
  ASSUME NEW parent \in [Node -> Place], NEW hidden, NEW n \in Node,
         NEW d \in Nat, NEW k \in 0 .. d,
         \A j \in 0 .. k : Climb(parent, n, d)[j] \notin hidden
  PROVE  Climb(ById(parent, hidden), n, d)[k] = Climb(parent, n, d)[k]
<1> DEFINE f == Climb(parent, n, d)
           g == Climb(ById(parent, hidden), n, d)
           S == {j \in 0 .. k : g[j] = f[j]}
<1>1. Walk(parent, n, d, f) /\ Walk(ById(parent, hidden), n, d, g)
  BY ClimbWalks, ByIdType DEF Place
<1>2. \A j \in 0 .. k : f[j] \notin hidden OBVIOUS
<1> HIDE DEF f, g
<1>3. 0 \in S BY <1>1 DEF Walk
<1>4. ASSUME NEW j \in 1 .. k, j - 1 \in S PROVE j \in S
  <2>1. g[j] = Above(ById(parent, hidden))[f[j - 1]] /\ f[j] = Above(parent)[f[j - 1]]
    BY <1>1, <1>4 DEF Walk
  <2>2. f[j - 1] \in Place /\ f[j - 1] \notin hidden BY <1>1, <1>2 DEF Walk
  <2>3. QED BY <2>1, <2>2 DEF Above, ById, Place
<1>5. 0 .. k \subseteq S
  <2> HIDE DEF S
  <2> QED BY <1>3, <1>4, Induction
<1>6. QED BY <1>5 DEF f, g

\* The cursor is at a live node only if the whole chain up to there is live.
LEMMA CursorIsLive ==
  ASSUME NEW parent \in [Node -> Place], NEW hidden, NEW n \in Node,
         NEW d \in Nat, NEW k \in 0 .. d,
         Climb(ById(parent, hidden), n, d)[k] \in Node \ hidden
  PROVE  \A j \in 0 .. k : Climb(parent, n, d)[j] \notin hidden
<1> DEFINE f == Climb(parent, n, d)
           g == Climb(ById(parent, hidden), n, d)
           S == {j \in 0 .. k : g[j] = f[j]}
<1>1. /\ Walk(parent, n, d, f) /\ Walk(ById(parent, hidden), n, d, g)
      /\ ById(parent, hidden) \in [Node -> Place] /\ n \in Place
  BY ClimbWalks, ByIdType DEF Place
<1>2. g[k] \in Node \ hidden OBVIOUS
<1>3. \A i \in 0 .. d : \A m \in i .. d : g[i] = NoNode => g[m] = NoNode
  BY <1>1, ClimbEnds
<1> HIDE DEF f, g
<1>4. ASSUME NEW j \in 0 .. k PROVE g[j] \in Node \ hidden
  <2>1. g[j] # NoNode BY <1>2, <1>3, HierarchyAssumption
  <2>2. g[j] \in Node BY <1>1, <2>1 DEF Walk, Place
  <2>3. ASSUME g[j] \in hidden PROVE FALSE
    <3>1. j + 1 \in 1 .. k BY <1>2, <2>3
    <3>2. g[j + 1] = Above(ById(parent, hidden))[g[j]] BY <1>1, <3>1 DEF Walk
    <3>3. g[j + 1] = NoNode BY <2>2, <2>3, <3>2 DEF Above, ById
    <3>4. QED BY <1>2, <1>3, <3>1, <3>3, HierarchyAssumption
  <2>4. QED BY <2>2, <2>3
<1>5. 0 \in S BY <1>1 DEF Walk
<1>6. ASSUME NEW j \in 1 .. k, j - 1 \in S PROVE j \in S
  <2>1. g[j] = Above(ById(parent, hidden))[g[j - 1]] /\ f[j] = Above(parent)[g[j - 1]]
    BY <1>1, <1>6 DEF Walk
  <2>2. g[j - 1] \in Node \ hidden BY <1>4
  <2>3. QED BY <2>1, <2>2 DEF Above, ById
<1>7. 0 .. k \subseteq S
  <2> HIDE DEF S
  <2> QED BY <1>5, <1>6, Induction
<1>8. \A j \in 0 .. k : f[j] \notin hidden BY <1>4, <1>7
<1>9. QED BY <1>8 DEF f

\* A live node is in the scope of some live nodes exactly if it is in the subtree
\* of one of them, as the rollups walk it (hierarchy-scope.ts 53-75).
THEOREM ScopeIsSubtrees ==
  ASSUME NEW parent \in [Node -> Place], NEW hidden, NEW scope, scope # {},
         scope \subseteq Node \ hidden, NEW n \in Node \ hidden
  PROVE  IsNodeInScope(parent, hidden, scope, n)
           <=> \E s \in scope : n \in Subtree(parent, hidden, s)
<1> DEFINE C == Cardinality(Node)
           f == Climb(parent, n, C)
           g == Climb(ById(parent, hidden), n, C)
<1>1. C \in Nat BY HierarchyAssumption, FS_CardinalityType
<1>2. Walk(parent, n, C, f) /\ Walk(ById(parent, hidden), n, C, g)
  BY <1>1, ClimbWalks, ByIdType DEF Place
<1>3. \A k \in 0 .. C : (\A j \in 0 .. k : f[j] \notin hidden) => g[k] = f[k]
  BY <1>1, CursorFollows
<1>4. \A k \in 0 .. C : g[k] \in Node \ hidden => \A j \in 0 .. k : f[j] \notin hidden
  BY <1>1, CursorIsLive
<1>5. ScopeClimb(parent, hidden, n) = {g[k] : k \in DOMAIN g} \ {NoNode}
  BY DEF ScopeClimb
<1>6. \A s : n \in Subtree(parent, hidden, s)
               <=> \E k \in DOMAIN f : f[k] = s /\ \A j \in 0 .. k : f[j] \notin hidden
  BY DEF Subtree, LivePath
<1> HIDE DEF f, g, C
<1>7. DOMAIN f = 0 .. C /\ DOMAIN g = 0 .. C BY <1>2 DEF Walk
<1>8. ASSUME NEW s \in scope
      PROVE  s \in ScopeClimb(parent, hidden, n) <=> n \in Subtree(parent, hidden, s)
  <2>1. s \in Node \ hidden /\ s # NoNode BY HierarchyAssumption
  <2>2. s \in ScopeClimb(parent, hidden, n) <=> \E k \in 0 .. C : g[k] = s
    BY <1>5, <1>7, <2>1
  <2>3. QED BY <1>3, <1>4, <1>6, <1>7, <2>1, <2>2
<1>9. QED BY <1>8 DEF IsNodeInScope

-----------------------------------------------------------------------------
(***************************************************************************)
(* buildHierarchyTree.                                                     *)
(***************************************************************************)
\* A family of sets that starts with the roots and takes one level more each time.
Levels(parent, live, d, f) ==
  /\ DOMAIN f = 0 .. d
  /\ f[0] = Roots(parent, live)
  /\ \A k \in 1 .. d : f[k] = f[k - 1] \cup {n \in live : parent[n] \in f[k - 1]}

LEMMA LevelsExist ==
  ASSUME NEW parent, NEW live, NEW d \in Nat
  PROVE  \E f : f = [k \in 0 .. d |-> f[k]] /\ Levels(parent, live, d, f)
<1> DEFINE Good(k, f) == f = [j \in 0 .. k |-> f[j]] /\ Levels(parent, live, k, f)
           S == {k \in 0 .. d : \E f : Good(k, f)}
<1>1. 0 \in S
  <2> DEFINE f == [k \in 0 .. 0 |-> Roots(parent, live)]
  <2>1. Good(0, f) BY DEF Levels
  <2>2. QED BY <2>1
<1>2. ASSUME NEW k \in 1 .. d, k - 1 \in S PROVE k \in S
  <2>1. PICK f : Good(k - 1, f) BY <1>2
  <2> DEFINE next == f[k - 1] \cup {n \in live : parent[n] \in f[k - 1]}
             g == [j \in 0 .. k |-> IF j = k THEN next ELSE f[j]]
  <2>2. g = [j \in 0 .. k |-> g[j]] /\ DOMAIN g = 0 .. k OBVIOUS
  <2>3. g[0] = Roots(parent, live) BY <2>1 DEF Levels
  <2>4. ASSUME NEW j \in 1 .. k
        PROVE  g[j] = g[j - 1] \cup {n \in live : parent[n] \in g[j - 1]}
    <3>1. CASE j = k
      <4>1. g[j] = next /\ g[j - 1] = f[k - 1] BY <3>1
      <4>2. QED BY <4>1
    <3>2. CASE j # k
      <4>1. j \in 1 .. (k - 1) /\ g[j] = f[j] /\ g[j - 1] = f[j - 1] BY <3>2
      <4>2. f[j] = f[j - 1] \cup {n \in live : parent[n] \in f[j - 1]}
        BY <2>1, <4>1 DEF Levels
      <4>3. QED BY <4>1, <4>2
    <3>3. QED BY <3>1, <3>2
  <2> HIDE DEF g
  <2>5. Good(k, g) BY <2>2, <2>3, <2>4 DEF Levels
  <2>6. QED BY <2>5
<1>3. 0 .. d \subseteq S
  <2> HIDE DEF S
  <2> QED BY <1>1, <1>2, Induction
<1>4. QED BY <1>3

\* The nodes shown are the last of such levels.
LEMMA TreeHasLevels ==
  ASSUME NEW parent, NEW live
  PROVE  \E f : /\ Levels(parent, live, Cardinality(Node), f)
               /\ TreeNodes(parent, live) = f[Cardinality(Node)]
<1> DEFINE C == Cardinality(Node)
           IsShown(f) == f = [k \in 0 .. C |->
             IF k = 0 THEN Roots(parent, live)
             ELSE f[k - 1] \cup {n \in live : parent[n] \in f[k - 1]}]
<1>1. C \in Nat BY HierarchyAssumption, FS_CardinalityType
<1> HIDE DEF C
<1>2. PICK f : f = [k \in 0 .. C |-> f[k]] /\ Levels(parent, live, C, f)
  BY <1>1, LevelsExist
<1>3. IsShown(f)
  <2>1. ASSUME NEW k \in 0 .. C
        PROVE  f[k] = IF k = 0 THEN Roots(parent, live)
                      ELSE f[k - 1] \cup {n \in live : parent[n] \in f[k - 1]}
    BY <1>1, <1>2 DEF Levels
  <2>2. QED BY <1>2, <2>1
<1> DEFINE shown == CHOOSE g : IsShown(g)
<1>4. TreeNodes(parent, live) = shown[C] BY DEF TreeNodes, C
<1>5. IsShown(shown)
  <2> HIDE DEF IsShown
  <2> QED BY <1>3
<1> HIDE DEF shown
<1>6. Levels(parent, live, C, shown)
  <2>1. DOMAIN shown = 0 .. C BY <1>5
  <2>2. \A k \in 0 .. C : shown[k] = IF k = 0 THEN Roots(parent, live)
           ELSE shown[k - 1] \cup {n \in live : parent[n] \in shown[k - 1]}
    BY <1>5
  <2>3. QED BY <1>1, <2>1, <2>2 DEF Levels
<1>7. QED BY <1>4, <1>6 DEF C

\* The climb from a node's parent is the rest of the climb from the node.
LEMMA ClimbShifts ==
  ASSUME NEW parent \in [Node -> Place], NEW n \in Node, NEW d \in Nat, NEW k \in 0 .. d,
         k < d
  PROVE  Climb(parent, n, d)[k + 1] = Climb(parent, parent[n], d)[k]
<1> DEFINE f == Climb(parent, n, d)
           g == Climb(parent, parent[n], d)
           S == {j \in 0 .. k : f[j + 1] = g[j]}
<1>1. Walk(parent, n, d, f) /\ Walk(parent, parent[n], d, g)
  BY ClimbWalks DEF Place
<1> HIDE DEF f, g
<1>2. 0 \in S
  <2>1. f[1] = Above(parent)[f[0]] /\ f[0] = n /\ g[0] = parent[n] BY <1>1 DEF Walk
  <2>2. QED BY <2>1, HierarchyAssumption DEF Above
<1>3. ASSUME NEW j \in 1 .. k, j - 1 \in S PROVE j \in S
  <2>1. g[j] = Above(parent)[g[j - 1]] BY <1>1 DEF Walk
  <2>2. j + 1 \in 1 .. d /\ (j + 1) - 1 = j OBVIOUS
  <2>3. f[j + 1] = Above(parent)[f[j]] BY <1>1, <2>2 DEF Walk
  <2>4. f[j] = g[j - 1] BY <1>3
  <2>5. QED BY <2>1, <2>3, <2>4
<1>4. 0 .. k \subseteq S
  <2> HIDE DEF S
  <2> QED BY <1>2, <1>3, Induction
<1>5. QED BY <1>4 DEF f, g

\* k steps up from n is a root, and all up to there is live.
RootAt(parent, live, n, k) ==
  LET at == Climb(parent, n, Cardinality(Node))
  IN  at[k] \in Roots(parent, live) /\ \A j \in 0 .. k : at[j] \in live

LEMMA RootAbove ==
  ASSUME NEW parent \in [Node -> Place], NEW live \in SUBSET Node,
         NEW n \in live, parent[n] \in live, NEW k \in 0 .. Cardinality(Node),
         k < Cardinality(Node), RootAt(parent, live, parent[n], k)
  PROVE  RootAt(parent, live, n, k + 1)
<1> DEFINE C == Cardinality(Node)
           f == Climb(parent, n, C)
           g == Climb(parent, parent[n], C)
<1>1. C \in Nat BY HierarchyAssumption, FS_CardinalityType
<1>2. \A j \in 0 .. C : j < C => f[j + 1] = g[j] BY <1>1, ClimbShifts
<1>3. f[0] = n BY <1>1, ClimbWalks DEF Walk, Place
<1>4. g[k] \in Roots(parent, live) /\ \A j \in 0 .. k : g[j] \in live BY DEF RootAt
<1>5. k \in 0 .. C /\ k < C OBVIOUS
<1> HIDE DEF f, g, C
<1>6. ASSUME NEW j \in 0 .. (k + 1) PROVE f[j] \in live
  <2>1. CASE j = 0 BY <1>3, <2>1
  <2>2. CASE j # 0
    <3>1. j - 1 \in 0 .. k /\ j - 1 \in 0 .. C /\ j - 1 < C /\ (j - 1) + 1 = j
      BY <1>1, <1>5, <2>2
    <3>2. QED BY <1>2, <1>4, <3>1
  <2>3. QED BY <2>1, <2>2
<1>7. f[k + 1] \in Roots(parent, live) BY <1>2, <1>4, <1>5
<1>8. QED BY <1>6, <1>7 DEF RootAt, f, C

\* The tree shows the live nodes above which there is a root.
LEMMA ShownHasRoot ==
  ASSUME NEW parent \in [Node -> Place], NEW live \in SUBSET Node, NEW n \in live
  PROVE  n \in TreeNodes(parent, live)
           <=> \E k \in 0 .. Cardinality(Node) : RootAt(parent, live, n, k)
<1> DEFINE C == Cardinality(Node)
<1>1. C \in Nat BY HierarchyAssumption, FS_CardinalityType
<1>2. PICK shown : Levels(parent, live, C, shown) /\ TreeNodes(parent, live) = shown[C]
  BY TreeHasLevels
<1>3. \A m \in live, k \in 0 .. C :
        k < C /\ parent[m] \in live /\ RootAt(parent, live, parent[m], k)
          => RootAt(parent, live, m, k + 1)
  BY RootAbove
<1>4. \A m \in live : Walk(parent, m, C, Climb(parent, m, C)) BY <1>1, ClimbWalks DEF Place
<1> HIDE DEF C
<1>5. \A m \in Roots(parent, live) : m \in live /\ RootAt(parent, live, m, 0)
  BY <1>4 DEF Roots, RootAt, Walk, C
<1>6. ASSUME n \in shown[C] PROVE \E k \in 0 .. C : RootAt(parent, live, n, k)
  <2> DEFINE S == {k \in 0 .. C : \A m \in shown[k] :
                     m \in live /\ \E j \in 0 .. k : RootAt(parent, live, m, j)}
  <2>1. 0 \in S BY <1>1, <1>2, <1>5 DEF Levels
  <2>2. ASSUME NEW k \in 1 .. C, k - 1 \in S PROVE k \in S
    <3>1. SUFFICES ASSUME NEW m \in shown[k]
                   PROVE  m \in live /\ \E j \in 0 .. k : RootAt(parent, live, m, j)
      OBVIOUS
    <3>2. \A q \in shown[k - 1] :
            q \in live /\ \E j \in 0 .. (k - 1) : RootAt(parent, live, q, j)
      BY <2>2
    <3>3. CASE m \in shown[k - 1] BY <3>2, <3>3
    <3>4. CASE m \in live /\ parent[m] \in shown[k - 1]
      <4>1. PICK j \in 0 .. (k - 1) : RootAt(parent, live, parent[m], j) BY <3>2, <3>4
      <4>2. j \in 0 .. C /\ j < C /\ j + 1 \in 0 .. k BY <1>1
      <4>3. RootAt(parent, live, m, j + 1) BY <1>3, <3>2, <3>4, <4>1, <4>2
      <4>4. QED BY <3>4, <4>2, <4>3
    <3>5. QED BY <1>2, <3>3, <3>4 DEF Levels
  <2>3. 0 .. C \subseteq S
    <3> HIDE DEF S
    <3> QED BY <1>1, <2>1, <2>2, Induction
  <2>4. QED BY <1>1, <1>6, <2>3
<1>7. ASSUME NEW k \in 0 .. C, RootAt(parent, live, n, k) PROVE n \in shown[C]
  <2> DEFINE at == Climb(parent, n, C)
             S == {i \in 0 .. k : at[k - i] \in shown[i]}
             T == {i \in 0 .. (C - k) : n \in shown[k + i]}
  <2>1. Walk(parent, n, C, at) BY <1>4
  <2>2. at[k] \in Roots(parent, live) /\ \A j \in 0 .. k : at[j] \in live
    BY <1>7 DEF RootAt, C
  <2> HIDE DEF at
  <2>3. 0 \in S BY <1>2, <2>2 DEF Levels
  <2>4. ASSUME NEW i \in 1 .. k, i - 1 \in S PROVE i \in S
    <3>1. at[k - (i - 1)] \in shown[i - 1] BY <2>4
    <3>2. (k - i) + 1 = k - (i - 1) /\ (k - i) + 1 \in 1 .. C /\ k - i \in 0 .. k
      BY <1>1
    <3>3. at[(k - i) + 1] = Above(parent)[at[k - i]] BY <2>1, <3>2 DEF Walk
    <3>4. at[k - i] \in live BY <2>2, <3>2
    <3>5. parent[at[k - i]] \in shown[i - 1]
      BY <3>1, <3>2, <3>3, <3>4, HierarchyAssumption DEF Above
    <3>6. at[k - i] \in shown[i] BY <1>1, <1>2, <3>4, <3>5 DEF Levels
    <3>7. QED BY <3>6
  <2>5. 0 .. k \subseteq S
    <3> HIDE DEF S
    <3> QED BY <1>1, <2>3, <2>4, Induction
  <2>6. n \in shown[k]
    <3>1. k \in S BY <1>1, <2>5
    <3>2. at[k - k] = n BY <1>1, <2>1 DEF Walk
    <3>3. QED BY <3>1, <3>2
  <2>7. 0 \in T BY <1>1, <2>6
  <2>8. ASSUME NEW i \in 1 .. (C - k), i - 1 \in T PROVE i \in T
    <3>1. k + i \in 1 .. C /\ (k + i) - 1 = k + (i - 1) BY <1>1
    <3>2. shown[k + (i - 1)] \subseteq shown[k + i] BY <1>2, <3>1 DEF Levels
    <3>3. QED BY <2>8, <3>2
  <2>9. 0 .. (C - k) \subseteq T
    <3>1. C - k \in Nat BY <1>1
    <3> HIDE DEF T
    <3> QED BY <2>7, <2>8, <3>1, Induction
  <2>10. C - k \in T /\ k + (C - k) = C BY <1>1, <2>9
  <2>11. QED BY <2>10
<1>8. QED BY <1>2, <1>6, <1>7 DEF C

LEMMA TreeIsLive ==
  ASSUME NEW parent, NEW live
  PROVE  TreeNodes(parent, live) \subseteq live
<1> DEFINE C == Cardinality(Node)
<1>1. C \in Nat BY HierarchyAssumption, FS_CardinalityType
<1>2. PICK shown : Levels(parent, live, C, shown) /\ TreeNodes(parent, live) = shown[C]
  BY TreeHasLevels
<1> HIDE DEF C
<1> DEFINE S == {k \in 0 .. C : shown[k] \subseteq live}
<1>3. 0 \in S BY <1>1, <1>2 DEF Levels, Roots
<1>4. ASSUME NEW k \in 1 .. C, k - 1 \in S PROVE k \in S BY <1>2, <1>4 DEF Levels
<1>5. 0 .. C \subseteq S
  <2> HIDE DEF S
  <2> QED BY <1>1, <1>3, <1>4, Induction
<1>6. QED BY <1>1, <1>2, <1>5

\* The tree of the web application shows a live node exactly if it is in the
\* subtree of a live node whose parent is not live, as the rollups walk it down in
\* SQL: the two walks agree on circles too (lib/hierarchy.ts 26-57, metric-rollup.ts).
THEOREM TreeIsSubtrees ==
  ASSUME NEW parent \in [Node -> Place], NEW live \in SUBSET Node, NEW n \in live
  PROVE  n \in TreeNodes(parent, live)
           <=> \E r \in live : /\ parent[r] \notin live
                               /\ n \in Subtree(parent, Node \ live, r)
<1> DEFINE C == Cardinality(Node)
           at == Climb(parent, n, C)
           hidden == Node \ live
<1>1. C \in Nat BY HierarchyAssumption, FS_CardinalityType
<1>2. Walk(parent, n, C, at) BY <1>1, ClimbWalks DEF Place
<1>3. \A i \in 0 .. C : \A k \in i .. C : at[i] = NoNode => at[k] = NoNode
  BY <1>1, ClimbEnds DEF Place
<1>4. \A r : n \in Subtree(parent, hidden, r)
               <=> \E k \in DOMAIN at : at[k] = r /\ \A j \in 0 .. k : at[j] \notin hidden
  BY DEF Subtree, LivePath
<1>5. \A k : RootAt(parent, live, n, k)
               <=> at[k] \in Roots(parent, live) /\ \A j \in 0 .. k : at[j] \in live
  BY DEF RootAt
<1> HIDE DEF C, at
<1>6. DOMAIN at = 0 .. C /\ \A k \in 0 .. C : at[k] \in Place BY <1>2 DEF Walk
<1>7. ASSUME NEW k \in 0 .. C, RootAt(parent, live, n, k)
      PROVE  \E r \in live : parent[r] \notin live /\ n \in Subtree(parent, hidden, r)
  <2>1. at[k] \in live /\ parent[at[k]] \notin live BY <1>5, <1>7 DEF Roots
  <2>2. n \in Subtree(parent, hidden, at[k]) BY <1>4, <1>5, <1>6, <1>7
  <2>3. QED BY <2>1, <2>2
<1>8. ASSUME NEW r \in live, parent[r] \notin live, n \in Subtree(parent, hidden, r)
      PROVE  \E k \in 0 .. C : RootAt(parent, live, n, k)
  <2>1. PICK k \in 0 .. C : at[k] = r /\ \A j \in 0 .. k : at[j] \notin hidden
    BY <1>4, <1>6, <1>8
  <2>2. ASSUME NEW j \in 0 .. k PROVE at[j] \in live
    <3>1. j \in 0 .. C /\ k \in j .. C BY <1>1
    <3>2. at[j] # NoNode BY <1>3, <2>1, <3>1, HierarchyAssumption
    <3>3. QED BY <1>6, <2>1, <3>1, <3>2 DEF Place
  <2>3. at[k] \in Roots(parent, live) BY <1>8, <2>1 DEF Roots
  <2>4. QED BY <1>5, <2>2, <2>3
<1>9. QED BY <1>7, <1>8, ShownHasRoot DEF C

-----------------------------------------------------------------------------
(***************************************************************************)
(* A subtree as the least set that has its top and, with a node, the live  *)
(* children of it; and the tree of the web application as the least set    *)
(* that has the roots and, with a node, its live children.                 *)
(***************************************************************************)
\* From where a climb comes back to a node, it goes on as it did from there.
LEMMA ClimbRepeats ==
  ASSUME NEW parent \in [Node -> Place], NEW n \in Place, NEW d \in Nat,
         NEW i \in 0 .. d, NEW j \in i .. d, Climb(parent, n, d)[i] = Climb(parent, n, d)[j],
         NEW t \in 0 .. (d - j)
  PROVE  Climb(parent, n, d)[i + t] = Climb(parent, n, d)[j + t]
<1> DEFINE f == Climb(parent, n, d)
           S == {u \in 0 .. t : f[i + u] = f[j + u]}
<1>1. Walk(parent, n, d, f) BY ClimbWalks
<1>2. f[i] = f[j] OBVIOUS
<1> HIDE DEF f
<1>3. 0 \in S BY <1>2
<1>4. ASSUME NEW u \in 1 .. t, u - 1 \in S PROVE u \in S
  <2>1. /\ i + u \in 1 .. d /\ (i + u) - 1 = i + (u - 1)
        /\ j + u \in 1 .. d /\ (j + u) - 1 = j + (u - 1)
    OBVIOUS
  <2>2. f[i + u] = Above(parent)[f[i + (u - 1)]] BY <2>1, <1>1 DEF Walk
  <2>3. f[j + u] = Above(parent)[f[j + (u - 1)]] BY <2>1, <1>1 DEF Walk
  <2>4. QED BY <1>4, <2>2, <2>3
<1>5. 0 .. t \subseteq S
  <2> HIDE DEF S
  <2> QED BY <1>3, <1>4, Induction
<1>6. QED BY <1>5 DEF f

\* A climb that meets a node meets it before it has made as many steps as there are
\* nodes: on the way to it, it meets none twice.
LEMMA MeetsEarly ==
  ASSUME NEW parent \in [Node -> Place], NEW n \in Node, NEW k \in 0 .. Cardinality(Node),
         Climb(parent, n, Cardinality(Node))[k] \in Node,
         \A j \in 0 .. Cardinality(Node) :
           j < k => Climb(parent, n, Cardinality(Node))[j] # Climb(parent, n, Cardinality(Node))[k]
  PROVE  k < Cardinality(Node)
<1> DEFINE C == Cardinality(Node)
           f == Climb(parent, n, C)
           Last(i) == {f[j] : j \in (C - i) .. C}
           S == {i \in 0 .. C : IsFiniteSet(Last(i)) /\ Cardinality(Last(i)) = i + 1}
<1>1. C \in Nat BY HierarchyAssumption, FS_CardinalityType
<1>2. Walk(parent, n, C, f) BY <1>1, ClimbWalks DEF Place
<1>3. \A i \in 0 .. C : \A j \in i .. C : f[i] = NoNode => f[j] = NoNode
  BY <1>1, ClimbEnds DEF Place
<1>4. \A i \in 0 .. C : \A j \in i .. C :
        f[i] = f[j] => \A t \in 0 .. (C - j) : f[i + t] = f[j + t]
  BY <1>1, ClimbRepeats DEF Place
<1>5. SUFFICES ASSUME k = C PROVE FALSE BY <1>1
<1>6. f[C] \in Node /\ \A j \in 0 .. C : j < C => f[j] # f[C] BY <1>5
<1> HIDE DEF C, f
<1>7. 0 \in S
  <2>1. Last(0) = {f[C]}
    <3>1. (C - 0) .. C = {C} BY <1>1
    <3>2. QED BY <3>1
  <2>2. IsFiniteSet({f[C]}) /\ Cardinality({f[C]}) = 1 BY FS_Singleton
  <2>3. QED BY <1>1, <2>1, <2>2
<1>8. ASSUME NEW i \in 1 .. C, i - 1 \in S PROVE i \in S
  <2>1. i \in 0 .. C /\ i - 1 \in 0 .. C /\ C - i \in 0 .. C BY <1>1
  <2>2. Last(i) = Last(i - 1) \cup {f[C - i]}
    <3>1. (C - i) .. C = ((C - (i - 1)) .. C) \cup {C - i} BY <1>1
    <3>2. QED BY <3>1
  <2>3. f[C - i] \notin Last(i - 1)
    <3>1. SUFFICES ASSUME NEW j \in (C - (i - 1)) .. C, f[C - i] = f[j] PROVE FALSE
      OBVIOUS
    <3>2. j \in (C - i) .. C /\ C - j \in 0 .. (C - j) /\ j + (C - j) = C
          /\ (C - i) + (C - j) \in 0 .. C /\ (C - i) + (C - j) < C
      BY <1>1, <2>1
    <3>3. f[(C - i) + (C - j)] = f[C] BY <1>4, <2>1, <3>1, <3>2
    <3>4. QED BY <1>6, <3>2, <3>3
  <2>4. IsFiniteSet(Last(i - 1)) /\ Cardinality(Last(i - 1)) = (i - 1) + 1 BY <1>8
  <2> HIDE DEF Last
  <2>5. /\ IsFiniteSet(Last(i - 1) \cup {f[C - i]})
        /\ Cardinality(Last(i - 1) \cup {f[C - i]}) = Cardinality(Last(i - 1)) + 1
    BY <2>3, <2>4, FS_AddElement
  <2>6. Cardinality(Last(i)) = i + 1 BY <1>1, <2>2, <2>4, <2>5
  <2>7. QED BY <2>1, <2>2, <2>5, <2>6
<1>9. 0 .. C \subseteq S
  <2> HIDE DEF S
  <2> QED BY <1>1, <1>7, <1>8, Induction
<1>10. Cardinality(Last(C)) = C + 1 BY <1>1, <1>9
<1>11. Last(C) \subseteq Node
  <2>1. ASSUME NEW j \in 0 .. C PROVE f[j] \in Node
    <3>1. f[j] # NoNode BY <1>1, <1>3, <1>6, HierarchyAssumption
    <3>2. QED BY <1>2, <3>1 DEF Walk, Place
  <2>2. (C - C) .. C = 0 .. C BY <1>1
  <2>3. QED BY <2>1, <2>2
<1>12. Cardinality(Last(C)) <= C
  <2> HIDE DEF Last
  <2>1. QED BY <1>11, HierarchyAssumption, FS_Subset DEF C
<1>13. QED BY <1>1, <1>10, <1>12

\* Below a live node there is the node, and with a node its live children.
LEMMA SubtreeHas ==
  ASSUME NEW parent \in [Node -> Place], NEW hidden, NEW top \in Node \ hidden
  PROVE  top \in Subtree(parent, hidden, top)
<1> DEFINE C == Cardinality(Node)
           at == Climb(parent, top, C)
<1>1. C \in Nat BY HierarchyAssumption, FS_CardinalityType
<1>2. Walk(parent, top, C, at) BY <1>1, ClimbWalks DEF Place
<1>3. 0 \in LivePath(parent, hidden, top, top)
  <2>1. 0 \in DOMAIN at /\ at[0] = top BY <1>1, <1>2 DEF Walk
  <2>2. QED BY <2>1 DEF LivePath
<1>4. QED BY <1>3 DEF Subtree

LEMMA SubtreeGrows ==
  ASSUME NEW parent \in [Node -> Place], NEW hidden, NEW top \in Node,
         NEW m \in Node \ hidden, parent[m] \in Subtree(parent, hidden, top)
  PROVE  m \in Subtree(parent, hidden, top)
<1> DEFINE C == Cardinality(Node)
           p == parent[m]
           f == Climb(parent, m, C)
           g == Climb(parent, p, C)
           K == {k \in 0 .. C : g[k] = top /\ \A j \in 0 .. k : g[j] \notin hidden}
<1>1. C \in Nat /\ p \in Node BY HierarchyAssumption, FS_CardinalityType DEF Subtree
<1>2. Walk(parent, m, C, f) /\ Walk(parent, p, C, g) BY <1>1, ClimbWalks DEF Place
<1>3. \A k \in 0 .. C : k < C => f[k + 1] = g[k] BY <1>1, ClimbShifts
<1>4. K # {} BY <1>2 DEF Subtree, LivePath, Walk
<1>5. \A k \in 0 .. C :
        g[k] \in Node /\ (\A j \in 0 .. C : j < k => g[j] # g[k]) => k < C
  BY <1>1, MeetsEarly
<1>6. m \in Subtree(parent, hidden, top)
        <=> \E k \in DOMAIN f : f[k] = top /\ \A j \in 0 .. k : f[j] \notin hidden
  BY DEF Subtree, LivePath
<1> HIDE DEF C, p, f, g
<1>7. PICK k \in K : \A j \in K : k <= j
  <2>1. K \in SUBSET Nat OBVIOUS
  <2> HIDE DEF K
  <2> QED BY <1>4, <2>1, LeastNat
<1>8. k < C
  <2>1. \A j \in 0 .. C : j < k => g[j] # g[k] BY <1>7
  <2>2. QED BY <1>5, <1>7, <2>1
<1>9. k + 1 \in DOMAIN f /\ f[k + 1] = top BY <1>1, <1>2, <1>3, <1>7, <1>8 DEF Walk
<1>10. ASSUME NEW j \in 0 .. (k + 1) PROVE f[j] \notin hidden
  <2>1. CASE j = 0 BY <1>2, <2>1 DEF Walk
  <2>2. CASE j # 0
    <3>1. j - 1 \in 0 .. k /\ j - 1 \in 0 .. C /\ j - 1 < C /\ (j - 1) + 1 = j
      BY <1>1, <1>8, <2>2
    <3>2. f[j] = g[j - 1] BY <1>3, <3>1
    <3>3. QED BY <1>7, <3>1, <3>2
  <2>3. QED BY <2>1, <2>2
<1>11. QED BY <1>6, <1>9, <1>10

LEMMA SubtreeClimbs ==
  ASSUME NEW parent \in [Node -> Place], NEW hidden, NEW top \in Node,
         NEW m \in Subtree(parent, hidden, top)
  PROVE  m \in Node \ hidden /\ (m # top => parent[m] \in Subtree(parent, hidden, top))
<1> DEFINE C == Cardinality(Node)
           p == parent[m]
           f == Climb(parent, m, C)
           g == Climb(parent, p, C)
<1>1. C \in Nat /\ m \in Node BY HierarchyAssumption, FS_CardinalityType DEF Subtree
<1>2. Walk(parent, m, C, f) /\ Walk(parent, p, C, g) BY <1>1, ClimbWalks DEF Place
<1>3. \A k \in 0 .. C : k < C => f[k + 1] = g[k] BY <1>1, ClimbShifts
<1>4. \A i \in 0 .. C : \A j \in i .. C : f[i] = NoNode => f[j] = NoNode
  BY <1>1, ClimbEnds DEF Place
<1>5. PICK k \in 0 .. C : f[k] = top /\ \A j \in 0 .. k : f[j] \notin hidden
  BY <1>2 DEF Subtree, LivePath, Walk
<1>6. p \in Subtree(parent, hidden, top)
        <=> p \in Node /\ \E i \in DOMAIN g : g[i] = top /\ \A j \in 0 .. i : g[j] \notin hidden
  BY DEF Subtree, LivePath
<1> HIDE DEF C, p, f, g
<1>7. m \in Node \ hidden BY <1>1, <1>2, <1>5 DEF Walk
<1>8. ASSUME m # top PROVE p \in Subtree(parent, hidden, top)
  <2>1. k # 0 BY <1>2, <1>5, <1>8 DEF Walk
  <2>2. k - 1 \in 0 .. C /\ k - 1 < C /\ (k - 1) + 1 = k BY <1>1, <2>1
  <2>3. g[k - 1] = top /\ k - 1 \in DOMAIN g BY <1>2, <1>3, <1>5, <2>2 DEF Walk
  <2>4. ASSUME NEW j \in 0 .. (k - 1) PROVE g[j] \notin hidden
    <3>1. j \in 0 .. C /\ j < C /\ j + 1 \in 0 .. k BY <1>1, <2>2
    <3>2. QED BY <1>3, <1>5, <3>1
  <2>5. p \in Node
    <3>1. f[1] = Above(parent)[f[0]] /\ f[0] = m /\ f[1] \in Place BY <1>1, <1>2, <2>1, <2>2 DEF Walk
    <3>2. f[1] = p BY <1>1, <3>1, HierarchyAssumption DEF Above, p
    <3>3. f[1] # NoNode
      <4>1. 1 \in 0 .. C /\ k \in 1 .. C BY <1>1, <2>1
      <4>2. QED BY <1>4, <1>5, <4>1, HierarchyAssumption
    <3>4. QED BY <3>1, <3>2, <3>3 DEF Place
  <2>6. QED BY <1>6, <2>3, <2>4, <2>5
<1>9. QED BY <1>7, <1>8 DEF p

LEMMA SubtreeLeast ==
  ASSUME NEW parent \in [Node -> Place], NEW hidden, NEW top \in Node, NEW X, top \in X,
         \A m \in Node \ hidden : parent[m] \in X => m \in X
  PROVE  Subtree(parent, hidden, top) \subseteq X
<1> SUFFICES ASSUME NEW n \in Subtree(parent, hidden, top) PROVE n \in X OBVIOUS
<1> DEFINE C == Cardinality(Node)
           at == Climb(parent, n, C)
<1>1. C \in Nat /\ n \in Node BY HierarchyAssumption, FS_CardinalityType DEF Subtree
<1>2. Walk(parent, n, C, at) BY <1>1, ClimbWalks DEF Place
<1>3. PICK k \in 0 .. C : at[k] = top /\ \A j \in 0 .. k : at[j] \notin hidden
  BY <1>2 DEF Subtree, LivePath, Walk
<1>4. \A i \in 0 .. C : \A j \in i .. C : at[i] = NoNode => at[j] = NoNode
  BY <1>1, ClimbEnds DEF Place
<1> HIDE DEF C, at
<1> DEFINE S == {i \in 0 .. k : at[k - i] \in X}
<1>5. 0 \in S BY <1>1, <1>3
<1>6. ASSUME NEW i \in 1 .. k, i - 1 \in S PROVE i \in S
  <2>1. /\ (k - i) + 1 = k - (i - 1) /\ (k - i) + 1 \in 1 .. C
        /\ k - i \in 0 .. k /\ k - i \in 0 .. C /\ k \in (k - i) .. C
        /\ ((k - i) + 1) - 1 = k - i
    BY <1>1
  <2>2. at[(k - i) + 1] = Above(parent)[at[k - i]] BY <1>2, <2>1 DEF Walk
  <2>3. at[k - i] \in Node \ hidden
    <3>1. at[k - i] # NoNode BY <1>3, <1>4, <2>1, HierarchyAssumption
    <3>2. at[k - i] \in Place BY <1>2, <2>1 DEF Walk
    <3>3. QED BY <1>3, <2>1, <3>1, <3>2 DEF Place
  <2>4. parent[at[k - i]] \in X BY <1>6, <2>1, <2>2, <2>3, HierarchyAssumption DEF Above
  <2>5. QED BY <2>3, <2>4
<1>7. 0 .. k \subseteq S
  <2> HIDE DEF S
  <2> QED BY <1>1, <1>5, <1>6, Induction
<1>8. at[k - k] \in X BY <1>1, <1>7
<1>9. QED BY <1>1, <1>2, <1>8 DEF Walk

\* On the tree there are the roots, and with a node its live children.
LEMMA TreeGrows ==
  ASSUME NEW parent \in [Node -> Place], NEW live \in SUBSET Node, NEW n \in live,
         parent[n] \in live => parent[n] \in TreeNodes(parent, live)
  PROVE  n \in TreeNodes(parent, live)
<1> DEFINE hidden == Node \ live
<1>1. n \in Node \ hidden OBVIOUS
<1>2. CASE parent[n] \notin live
  <2>1. n \in Subtree(parent, hidden, n) BY <1>1, SubtreeHas
  <2>2. QED BY <1>2, <2>1, TreeIsSubtrees
<1>3. CASE parent[n] \in live
  <2>1. PICK r \in live : parent[r] \notin live /\ parent[n] \in Subtree(parent, hidden, r)
    BY <1>3, TreeIsSubtrees
  <2>2. n \in Subtree(parent, hidden, r) BY <1>1, <2>1, SubtreeGrows
  <2>3. QED BY <2>1, <2>2, TreeIsSubtrees
<1>4. QED BY <1>2, <1>3

\* And there are only live nodes, of the parents that are on it or not live.
LEMMA TreeLeast ==
  ASSUME NEW parent \in [Node -> Place], NEW live \in SUBSET Node, NEW X,
         \A n \in live : parent[n] \notin live \/ parent[n] \in X => n \in X
  PROVE  TreeNodes(parent, live) \subseteq X
<1> DEFINE hidden == Node \ live
<1>1. TreeNodes(parent, live) \subseteq live BY TreeIsLive
<1>2. ASSUME NEW n \in TreeNodes(parent, live) PROVE n \in X
  <2>1. n \in live BY <1>1
  <2>2. PICK r \in live : parent[r] \notin live /\ n \in Subtree(parent, hidden, r)
    BY <2>1, TreeIsSubtrees
  <2>3. r \in X /\ r \in Node BY <2>2
  <2>4. \A m \in Node \ hidden : parent[m] \in X => m \in X OBVIOUS
  <2>5. Subtree(parent, hidden, r) \subseteq X BY <2>3, <2>4, SubtreeLeast
  <2>6. QED BY <2>2, <2>5
<1>3. QED BY <1>2

(***************************************************************************)
(* What becomes of the tree when nodes come, go and move.                  *)
(***************************************************************************)
LEMMA ComingHidesNone ==
  ASSUME NEW parent \in [Node -> Place], NEW after \in [Node -> Place],
         NEW live \in SUBSET Node, NEW more \in SUBSET Node, live \subseteq more,
         \A n \in live : after[n] = parent[n] /\ (parent[n] \in more => parent[n] \in live)
  PROVE  TreeNodes(parent, live) \subseteq TreeNodes(after, more)
<1> DEFINE X == TreeNodes(after, more)
<1>1. ASSUME NEW n \in live, parent[n] \notin live \/ parent[n] \in X PROVE n \in X
  <2>1. n \in more /\ (after[n] \in more => after[n] \in X) BY <1>1
  <2>2. QED BY <2>1, TreeGrows
<1> HIDE DEF X
<1>2. TreeNodes(parent, live) \subseteq X BY <1>1, TreeLeast
<1>3. QED BY <1>2 DEF X

LEMMA GoingHidesNone ==
  ASSUME NEW parent \in [Node -> Place],
         NEW live \in SUBSET Node, NEW less \in SUBSET live
  PROVE  TreeNodes(parent, live) \cap less \subseteq TreeNodes(parent, less)
<1> DEFINE T == TreeNodes(parent, less)
           X == T \cup (live \ less)
<1>1. ASSUME NEW n \in live, parent[n] \notin live \/ parent[n] \in X PROVE n \in X
  <2>1. CASE n \in less
    <3>1. parent[n] \in less => parent[n] \in T BY <1>1
    <3>2. QED BY <2>1, <3>1, TreeGrows
  <2>2. QED BY <2>1
<1> HIDE DEF X
<1>2. TreeNodes(parent, live) \subseteq X BY <1>1, TreeLeast
<1>3. QED BY <1>2 DEF X

\* A node that is moved takes what is below it off the tree, if it is moved below
\* itself or off the tree, and nothing otherwise.
LEMMA MovingHides ==
  ASSUME NEW parent \in [Node -> Place], NEW live \in SUBSET Node,
         NEW top \in live, NEW q \in Place, NEW n \in TreeNodes(parent, live)
  PROVE  LET D == Subtree(parent, Node \ live, top)
             T == TreeNodes(parent, live)
         IN  n \notin TreeNodes([parent EXCEPT ![top] = q], live)
               <=> q \in D \cup (live \ T) /\ n \in D
<1> DEFINE D == Subtree(parent, Node \ live, top)
           T == TreeNodes(parent, live)
           after == [parent EXCEPT ![top] = q]
           T2 == TreeNodes(after, live)
<1>1. /\ after \in [Node -> Place] /\ after[top] = q
      /\ \A m \in live : m # top => after[m] = parent[m]
  OBVIOUS
<1>2. top \in D BY SubtreeHas
<1>3. \A m \in live : parent[m] \in D => m \in D BY SubtreeGrows
<1>4. D \subseteq live /\ \A m \in D : m # top => parent[m] \in D BY SubtreeClimbs
<1>5. \A X : top \in X /\ (\A m \in live : parent[m] \in X => m \in X) => D \subseteq X
  <2>1. live = Node \ (Node \ live) OBVIOUS
  <2>2. QED BY <2>1, SubtreeLeast
<1>6. \A m \in live : (parent[m] \in live => parent[m] \in T) => m \in T BY TreeGrows
<1> HIDE DEF after
<1>7. \A m \in live : (after[m] \in live => after[m] \in T2) => m \in T2 BY <1>1, TreeGrows
<1>8. \A X : (\A m \in live : parent[m] \notin live \/ parent[m] \in X => m \in X) => T \subseteq X
  BY TreeLeast
<1>9. \A X : (\A m \in live : after[m] \notin live \/ after[m] \in X => m \in X) => T2 \subseteq X
  BY <1>1, TreeLeast
<1> HIDE DEF D, T, T2
<1>10. T \subseteq T2 \cup D
  <2>1. ASSUME NEW m \in live, parent[m] \notin live \/ parent[m] \in T2 \cup D
        PROVE  m \in T2 \cup D
    BY <1>1, <1>2, <1>3, <1>7, <2>1
  <2>2. QED BY <1>8, <2>1
<1>11. ASSUME q \notin D \cup (live \ T) PROVE D \subseteq T2
  <2>1. top \in T2 BY <1>1, <1>7, <1>10, <1>11
  <2>2. \A m \in live : parent[m] \in T2 => m \in T2 BY <1>1, <1>7, <2>1
  <2>3. QED BY <1>5, <2>1, <2>2
<1>12. ASSUME q \in D \cup (live \ T) PROVE T2 \subseteq T \ D
  <2>1. ASSUME NEW m \in live, after[m] \notin live \/ after[m] \in T \ D PROVE m \in T \ D
    <3>1. m # top BY <1>1, <1>4, <1>12, <2>1
    <3>2. after[m] = parent[m] BY <1>1, <3>1
    <3>3. m \in T BY <1>6, <2>1, <3>2
    <3>4. m \notin D BY <1>4, <2>1, <3>1, <3>2
    <3>5. QED BY <3>3, <3>4
  <2>2. QED BY <1>9, <2>1
<1>13. n \in T BY DEF T
<1>14. n \notin T2 <=> q \in D \cup (live \ T) /\ n \in D BY <1>10, <1>11, <1>12, <1>13
<1>15. QED BY <1>14 DEF D, T, T2, after
==============================================================================
