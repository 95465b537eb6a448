---------------------- MODULE VoltageConstraintsProofs ----------------------
(***************************************************************************)
(* An accepted system of voltage constraints has a solution, a rejected one *)
(* has none, no solution lies outside of an answer, and both its ends are   *)
(* tight: for any constraints and any budgets.                              *)
(***************************************************************************)
EXTENDS VoltageConstraints, FiniteSetTheorems, WellFoundedInduction, TLAPS

Place == [root : Nodes, offset : Int]
Walks == [node : Nodes, caller : {"left", "right", "settle"}, cursor : Nodes,
          root : Nodes \union {None}, offset : Int, rest : Int]
Dists == UNION {[S -> Int] : S \in SUBSET Roots}
Items == Int \X Roots
Searches == [positive : Nodes, negative : Nodes, forward : Dists \union {None}, from : Int,
             distance : Dists, queue : SUBSET Items]
Caches == [root : Nodes, forward : Dists, reverse : Dists]

InForest == pc \in {"join", "climb", "compress", "settle"}
InGraph == pc \in {"bound", "relax", "ready", "search"}

\* A find is for an end of the constraint at hand, or to settle a node.
Walking ==
  pc \in {"climb", "compress"} =>
    /\ walk \in Walks
    /\ pc = "compress" => walk.root \in Nodes
    /\ walk.caller # "settle" => at \in DOMAIN system /\ IsPoint(Constraint)
    /\ walk.caller = "left" => walk.node = Constraint.positive
    /\ walk.caller = "right" => walk.node = Constraint.negative /\ left \in Place

\* Once all nodes are placed, edges lead from root to root and have potentials.
Placed ==
  /\ placed \in [Nodes -> Place \union {None}]
  /\ InForest => DOMAIN edges = {}
  /\ InGraph => (\A n \in Nodes : placed[n] # None) /\ DOMAIN edges \subseteq Roots \X Roots
  /\ InGraph /\ pc # "bound" => potential \in [Roots -> Int]

\* Nothing was asked before there is somebody to answer, and an answer is about nodes.
Asking ==
  /\ ~Serving => search = None /\ cache = None /\ answer = None /\ failed = FALSE
  /\ pc = "search" => search \in Searches /\ failed = FALSE
  /\ cache # None => cache \in Caches
  /\ Answered => answer.positive \in Nodes /\ answer.negative \in Nodes

TypeInv == TypeOK /\ Walking /\ Placed /\ Asking

-----------------------------------------------------------------------------
\* A constraint of the system names nodes, and bounds their difference.
LEMMA ConstraintType ==
  ASSUME TypeOK, NEW i \in DOMAIN system
  PROVE  /\ system[i] \in Constraints
         /\ ~(system[i].lower = None /\ system[i].upper = None)
BY SystemAssumption DEF TypeOK

LEMMA InitTypes == Init => TypeInv
<1> SUFFICES ASSUME Init PROVE TypeInv
  OBVIOUS
<1>1. system \in Systems /\ Len(system) \in Nat /\ at \in 1 .. Len(system) + 1
  <2>1. system \in Seq(Constraints) /\ system \in Systems
    BY SystemAssumption DEF Init
  <2> QED
    BY <2>1 DEF Init
<1>2. /\ edges \in [DOMAIN edges -> Int] /\ DOMAIN edges = {}
      /\ potential \in [DOMAIN potential -> Int] /\ DOMAIN potential = {}
  BY DEF Init
<1>3. parent \in [Nodes -> Nodes] /\ weight \in [Nodes -> Int] /\ size \in [Nodes -> Nat]
  BY DEF Init
<1>4. visits \in 0 .. MaxVisits + 1 /\ queries \in 0 .. MaxQueries + 1 /\ visits <= MaxVisits /\ queries <= MaxQueries
  BY LimitAssumption DEF Init
<1>5. /\ \A n \in Nodes : placed[n] = None
      /\ pc = "join" /\ answer = None /\ round = 0 /\ changed = FALSE /\ todo = {} /\ failed = FALSE
  BY DEF Init
<1>6. TypeOK
  <2>1. /\ edges \in [DOMAIN edges -> Int] /\ DOMAIN edges \subseteq Nodes \X Nodes
        /\ potential \in [DOMAIN potential -> Int] /\ DOMAIN potential \subseteq Nodes
    BY <1>2
  <2>2. ~(visits > MaxVisits \/ queries > MaxQueries)
    BY <1>4, LimitAssumption
  <2> QED
    BY <1>1, <1>3, <1>4, <1>5, <2>1, <2>2 DEF TypeOK
<1>7. placed \in [Nodes -> Place \union {None}] /\ search = None /\ cache = None
  BY DEF Init
<1>8. Walking /\ Placed
  BY <1>2, <1>5, <1>7 DEF Walking, Placed, InForest, InGraph
<1>9. Asking
  BY <1>5, <1>7 DEF Asking, Serving, Answered
<1> QED
  BY <1>6, <1>8, <1>9 DEF TypeInv

LEMMA SystemType ==
  ASSUME TypeOK
  PROVE  system \in Seq(Constraints) /\ Len(system) \in Nat /\ DOMAIN system = 1 .. Len(system)
<1>1. system \in Seq(Constraints)
  BY SystemAssumption DEF TypeOK
<1> QED
  BY <1>1

\* Before there are edges, a step may only change what is before them.
LEMMA ForestFrame ==
  ASSUME TypeInv, InForest, UNCHANGED <<system, afterForest>>,
         pc' \in {"join", "climb", "compress", "settle", "inconsistent", "exhausted"},
         at' \in Nat, at' >= at, at' <= Len(system) + 1,
         parent' \in [Nodes -> Nodes], weight' \in [Nodes -> Int], size' \in [Nodes -> Nat],
         Walking'
  PROVE  TypeInv'
<1> USE DEF TypeInv, afterForest, relaxation, service
<1>0. Len(system) \in Nat
  BY SystemType
<1>1. TypeOK'
  <2>1. /\ (system \in Systems)' /\ (at \in 1 .. Len(system) + 1)'
        /\ (pc \in {"join", "climb", "compress", "settle", "bound", "relax", "ready", "search",
             "inconsistent", "exhausted"})'
    BY <1>0 DEF TypeOK
  <2>2. /\ (\A n \in Nodes : placed[n] # None => placed[n] \in [root : Nodes, offset : Int])'
        /\ (edges \in [DOMAIN edges -> Int] /\ DOMAIN edges \subseteq Nodes \X Nodes)'
        /\ (potential \in [DOMAIN potential -> Int] /\ DOMAIN potential \subseteq Nodes)'
        /\ (round \in Nat /\ changed \in BOOLEAN /\ todo \subseteq DOMAIN edges)'
    BY DEF TypeOK
  <2>3. /\ (visits \in 0 .. MaxVisits + 1 /\ queries \in 0 .. MaxQueries + 1 /\ failed \in BOOLEAN)'
        /\ (visits > MaxVisits \/ queries > MaxQueries => failed \/ pc = "exhausted")'
        /\ (answer # None => answer.result \in Intervals \union {Exceeded, Unknown})'
    BY DEF TypeOK, InForest
  <2> QED
    BY <2>1, <2>2, <2>3 DEF TypeOK
<1>2. Placed'
  BY DEF Placed, InForest, InGraph
<1>3. Asking'
  BY DEF Asking, Serving, Answered, InForest
<1> QED
  BY <1>1, <1>2, <1>3

\* What the two loops of find do to its local variables.
LEMMA WalkMoves ==
  ASSUME NEW w \in Walks, NEW c \in Nodes, NEW k \in Int
  PROVE  /\ [w EXCEPT !.offset = k, !.cursor = c] \in Walks
         /\ [w EXCEPT !.rest = k, !.cursor = c] \in Walks
BY DEF Walks

LEMMA ForestTypes ==
  ASSUME TypeInv, ForestStep PROVE TypeInv'
<1> USE DEF TypeInv
<1>0. system \in Seq(Constraints) /\ Len(system) \in Nat /\ DOMAIN system = 1 .. Len(system)
  BY SystemType
<1> DEFINE Facts == /\ at \in 1 .. Len(system) + 1
                    /\ parent \in [Nodes -> Nodes] /\ weight \in [Nodes -> Int] /\ size \in [Nodes -> Nat]
<1>a. Facts
  BY DEF TypeOK
<1>1. CASE SkipRange
  BY <1>0, <1>1, <1>a, ForestFrame DEF SkipRange, InForest, forest, find, Walking
<1>2. CASE StartJoin
  <2>1. Constraint \in Constraints
    BY <1>0, <1>2, <1>a DEF StartJoin, Constraint
  <2>2. Walking'
    BY <1>0, <1>2, <1>a, <2>1 DEF StartJoin, Walking, Walk, Walks, Constraints, Constraint, IsPoint
  <2> QED
    BY <1>0, <1>2, <1>a, <2>2, ForestFrame DEF StartJoin, InForest, forest, Walk
<1>3. CASE Climb
  <2>1. Walking'
    <3>1. pc = "climb" /\ walk \in Walks /\ walk.cursor \in Nodes /\ UNCHANGED <<system, at, left>>
      BY <1>3 DEF Climb, Walking, Walks
    <3>2. /\ walk' \in Walks /\ walk'.caller = walk.caller /\ walk'.node = walk.node
          /\ pc' # "compress"
      <4>1. parent[walk.cursor] \in Nodes /\ weight[walk.cursor] \in Int /\ walk.offset \in Int
        BY <1>a, <3>1 DEF Walks
      <4>2. CASE walk' = walk
        BY <1>3, <3>1, <4>2 DEF Climb
      <4>3. CASE walk' = [walk EXCEPT !.offset = walk.offset + weight[walk.cursor], !.cursor = parent[walk.cursor]]
        <5>1. pc' = "climb" \/ pc' = "exhausted"
          BY <1>3, <3>1 DEF Climb
        <5>2. walk' \in Walks
          <6>1. walk.offset + weight[walk.cursor] \in Int
            BY <4>1
          <6> QED
            BY <3>1, <4>1, <4>3, <6>1, WalkMoves
        <5>3. walk'.caller = walk.caller /\ walk'.node = walk.node
          BY <3>1, <4>3 DEF Walks
        <5> QED
          BY <5>1, <5>2, <5>3
      <4> QED
        BY <1>3, <4>2, <4>3 DEF Climb
    <3> QED
      BY <3>1, <3>2 DEF Walking, Constraint
  <2> QED
    <3>1. pc' \in {"climb", "exhausted"} /\ InForest /\ UNCHANGED <<system, at, forest, afterForest>>
      BY <1>3 DEF Climb, InForest
    <3> QED
      BY <1>0, <1>a, <2>1, <3>1, ForestFrame DEF forest
<1>4. CASE ReachRoot
  <2>1. Walking'
    <3>1. pc = "climb" /\ walk \in Walks /\ UNCHANGED <<system, at, left>> /\ pc' = "compress"
      BY <1>4 DEF ReachRoot, Walking
    <3>2. /\ walk' \in Walks /\ walk'.caller = walk.caller /\ walk'.node = walk.node /\ walk'.root \in Nodes
      BY <1>4, <3>1 DEF ReachRoot, Walks
    <3> QED
      BY <3>1, <3>2 DEF Walking, Constraint
  <2> QED
    <3>1. pc' = "compress" /\ InForest /\ UNCHANGED <<system, at, forest, afterForest>>
      BY <1>4 DEF ReachRoot, InForest
    <3> QED
      BY <1>0, <1>a, <2>1, <3>1, ForestFrame DEF forest
<1>5. CASE Compress
  <2>1. Walking'
    <3>1. pc = "compress" /\ walk \in Walks /\ walk.root \in Nodes /\ UNCHANGED <<system, pc, at, left>>
      BY <1>5 DEF Compress, Walking
    <3>2. parent[walk.cursor] \in Nodes /\ walk.rest - weight[walk.cursor] \in Int
      BY <1>a, <3>1 DEF Walks
    <3>3. walk' = [walk EXCEPT !.rest = walk.rest - weight[walk.cursor], !.cursor = parent[walk.cursor]]
      BY <1>5 DEF Compress
    <3>4. walk' \in Walks
      BY <3>1, <3>2, <3>3, WalkMoves
    <3>5. walk'.caller = walk.caller /\ walk'.node = walk.node /\ walk'.root = walk.root
      BY <3>1, <3>3 DEF Walks
    <3> QED
      BY <3>1, <3>4, <3>5 DEF Walking, Constraint
  <2>2. walk.cursor \in Nodes /\ walk.root \in Nodes /\ walk.rest \in Int
    BY <1>5 DEF Compress, Walking, Walks
  <2> QED
    BY <1>0, <1>5, <1>a, <2>1, <2>2, ForestFrame DEF Compress, InForest
<1>6. CASE FoundPositive
  <2>1. Constraint \in Constraints /\ walk \in Walks /\ walk.root \in Nodes /\ at \in DOMAIN system /\ IsPoint(Constraint)
    BY <1>0, <1>6, <1>a DEF FoundPositive, Returns, Constraint, Walking
  <2>2. left' \in Place
    BY <1>6, <2>1 DEF FoundPositive, Result, Walks, Place
  <2>3. walk' \in Walks /\ walk'.node = Constraint.negative /\ walk'.caller = "right" /\ pc' = "climb"
    BY <1>6, <2>1 DEF FoundPositive, Walk, Walks, Constraints
  <2>4. UNCHANGED <<system, at, forest, afterForest>> /\ InForest
    BY <1>6 DEF FoundPositive, Returns, InForest
  <2>5. Walking'
    BY <2>1, <2>2, <2>3, <2>4 DEF Walking, Constraint
  <2> QED
    BY <1>0, <1>a, <2>3, <2>4, <2>5, ForestFrame DEF forest
<1>7. CASE JoinTooLong
  <2>1. pc' = "exhausted" /\ InForest /\ UNCHANGED <<system, at, forest, afterForest>>
    BY <1>7 DEF JoinTooLong, Returns, InForest
  <2>2. Walking'
    BY <2>1 DEF Walking
  <2> QED
    BY <1>0, <1>a, <2>1, <2>2, ForestFrame DEF forest
<1>8. CASE JoinSame
  <2>1. pc' \in {"join", "inconsistent"} /\ InForest /\ UNCHANGED <<system, forest, afterForest>>
    BY <1>8 DEF JoinSame, Returns, InForest
  <2>2. Walking'
    BY <2>1 DEF Walking
  <2>3. at' = at + 1 /\ at <= Len(system)
    BY <1>0, <1>8 DEF JoinSame, Returns, Walking
  <2> QED
    BY <1>0, <1>a, <2>1, <2>2, <2>3, ForestFrame DEF forest
<1>9. CASE JoinTrees
  <2>1. pc' = "join" /\ InForest /\ UNCHANGED <<system, afterForest>>
    BY <1>9 DEF JoinTrees, Returns, InForest
  <2>2. Walking'
    BY <2>1 DEF Walking
  <2>3. at' = at + 1 /\ at <= Len(system) /\ left \in Place /\ walk \in Walks /\ walk.root \in Nodes
    BY <1>0, <1>9 DEF JoinTrees, Returns, Walking
  <2>4. Delta \in Int
    <3>1. Constraint \in Constraints /\ IsPoint(Constraint)
      BY <1>0, <1>9 DEF JoinTrees, Returns, Walking, Constraint
    <3> QED
      BY <2>3, <3>1, NumberAssumption DEF Delta, IsPoint, Constraints, Endpoints, Place, Walks
  <2>5. \A a, b \in Nodes : Hung(a, b) => parent' \in [Nodes -> Nodes] /\ weight' \in [Nodes -> Int] /\ size' \in [Nodes -> Nat]
    BY <1>a, <2>4 DEF Hung
  <2>6. parent' \in [Nodes -> Nodes] /\ weight' \in [Nodes -> Int] /\ size' \in [Nodes -> Nat]
    BY <1>9, <2>3, <2>5 DEF JoinTrees, Place
  <2> QED
    BY <1>0, <1>a, <2>1, <2>2, <2>3, <2>6, ForestFrame
<1>10. CASE JoinsDone
  <2>1. pc' = "settle" /\ InForest /\ UNCHANGED <<system, at, forest, afterForest>>
    BY <1>10 DEF JoinsDone, InForest
  <2>2. Walking'
    BY <2>1 DEF Walking
  <2> QED
    BY <1>0, <1>a, <2>1, <2>2, ForestFrame DEF forest
<1>11. CASE Settle
  <2>1. InForest /\ UNCHANGED <<system, at, forest, afterForest>> /\ pc' = "climb"
    BY <1>11 DEF Settle, InForest, Walk
  <2>2. Walking'
    BY <1>11, <2>1 DEF Settle, Walk, Walking, Walks
  <2> QED
    BY <1>0, <1>a, <2>1, <2>2, ForestFrame DEF forest
<1>12. CASE FoundPlace
  <2>1. pc' = "settle" /\ pc = "compress" /\ walk.caller = "settle" /\ walk \in Walks /\ walk.root \in Nodes
    BY <1>12 DEF FoundPlace, Returns, Walking
  <2>2. UNCHANGED <<system, at, parent, weight, size, edges, potential, round, changed, todo, visits, queries, failed, cache, search, answer>>
    BY <1>12 DEF FoundPlace, forest, relaxation, service
  <2>3. Result \in Place /\ walk.node \in Nodes
    BY <2>1 DEF Walks, Place, Result
  <2>4. placed' \in [Nodes -> Place \union {None}]
    BY <1>12, <2>3 DEF FoundPlace, Placed
  <2>5. TypeOK'
    <3>1. (\A n \in Nodes : placed[n] # None => placed[n] \in [root : Nodes, offset : Int])'
      BY <2>4 DEF Place
    <3> QED
      BY <2>1, <2>2, <3>1 DEF TypeOK
  <2>6. Walking' /\ Placed'
    BY <2>1, <2>2, <2>4 DEF Walking, Placed, InForest, InGraph
  <2>7. Asking'
    BY <2>1, <2>2 DEF Asking, Serving, Answered
  <2> QED
    BY <2>5, <2>6, <2>7
<1>13. CASE AllSettled
  <2>1. pc = "settle" /\ pc' = "bound" /\ at' = 1 /\ UNCHANGED <<system, forest, afterForest>>
    BY <1>13 DEF AllSettled
  <2>2. TypeOK'
    BY <1>0, <2>1 DEF TypeOK, forest, afterForest, relaxation, service
  <2>3. Walking' /\ Placed'
    BY <1>13, <2>1 DEF AllSettled, Walking, Placed, InForest, InGraph, afterForest, Roots
  <2>4. Asking'
    BY <2>1 DEF Asking, Serving, Answered, afterForest, service
  <2> QED
    BY <2>2, <2>3, <2>4
<1> QED
  BY <1>1, <1>2, <1>3, <1>4, <1>5, <1>6, <1>7, <1>8, <1>9, <1>10, <1>11, <1>12, <1>13 DEF ForestStep

LEMMA RootsAreNodes ==
  ASSUME TypeInv, InGraph
  PROVE  /\ Roots \subseteq Nodes
         /\ \A n \in Nodes : placed[n] \in Place /\ placed[n].root \in Roots /\ placed[n].offset \in Int
<1>1. \A n \in Nodes : placed[n] \in Place
  BY DEF TypeInv, Placed
<1> QED
  BY <1>1 DEF Roots, Place

\* A step of the constructor changes no place and no query.
LEMMA BoundFrame ==
  ASSUME TypeInv, pc \in {"bound", "relax"}, UNCHANGED <<system, forest, find, placed, service>>,
         pc' \in {"bound", "relax", "ready", "inconsistent", "exhausted"},
         at' \in 1 .. Len(system) + 1,
         edges' \in [DOMAIN edges' -> Int], DOMAIN edges' \subseteq Roots \X Roots,
         potential' \in [DOMAIN potential' -> Int], DOMAIN potential' \subseteq Nodes,
         pc' \in {"relax", "ready"} => potential' \in [Roots -> Int],
         round' \in Nat, changed' \in BOOLEAN, todo' \subseteq DOMAIN edges',
         visits' \in 0 .. MaxVisits + 1, visits' > MaxVisits => pc' = "exhausted"
  PROVE  TypeInv'
<1> USE DEF TypeInv
<1>1. Roots' = Roots /\ Roots \subseteq Nodes
  BY RootsAreNodes DEF Roots, InGraph
<1>2. TypeOK'
  <2>1. /\ (system \in Systems)' /\ (at \in 1 .. Len(system) + 1)'
        /\ (pc \in {"join", "climb", "compress", "settle", "bound", "relax", "ready", "search",
             "inconsistent", "exhausted"})'
        /\ (parent \in [Nodes -> Nodes] /\ weight \in [Nodes -> Int] /\ size \in [Nodes -> Nat])'
    BY DEF TypeOK, forest
  <2>2. /\ (\A n \in Nodes : placed[n] # None => placed[n] \in [root : Nodes, offset : Int])'
        /\ (edges \in [DOMAIN edges -> Int] /\ DOMAIN edges \subseteq Nodes \X Nodes)'
        /\ (potential \in [DOMAIN potential -> Int] /\ DOMAIN potential \subseteq Nodes)'
        /\ (round \in Nat /\ changed \in BOOLEAN /\ todo \subseteq DOMAIN edges)'
    BY <1>1 DEF TypeOK
  <2>3. queries' \in 0 .. MaxQueries + 1 /\ failed' \in BOOLEAN /\ (queries' > MaxQueries => failed')
        /\ (answer # None => answer.result \in Intervals \union {Exceeded, Unknown})'
    BY DEF TypeOK, service
  <2> QED
    BY <2>1, <2>2, <2>3 DEF TypeOK
<1>3. Walking' /\ Placed'
  BY <1>1 DEF Walking, Placed, InForest, InGraph
<1>4. Asking'
  BY DEF Asking, Serving, Answered, service
<1> QED
  BY <1>2, <1>3, <1>4

\* The edges of one constraint.
LEMMA NewEdgesType ==
  ASSUME TypeInv, pc = "bound", at \in DOMAIN system,
         NEW p, p = placed[Constraint.positive], NEW n, n = placed[Constraint.negative]
  PROVE  /\ DOMAIN NewEdges(Constraint, p, n) \subseteq Roots \X Roots
         /\ NewEdges(Constraint, p, n) \in [DOMAIN NewEdges(Constraint, p, n) -> Int]
<1>1. Constraint \in Constraints
  BY ConstraintType DEF TypeInv, Constraint
<1>2. p.root \in Roots /\ p.offset \in Int /\ n.root \in Roots /\ n.offset \in Int
  BY <1>1, RootsAreNodes DEF InGraph, Constraints
<1>3. /\ Constraint.upper # None => Constraint.upper \in Int
      /\ Constraint.lower # None => Constraint.lower \in Int
  BY <1>1 DEF Constraints, Endpoints
<1> DEFINE S == {f \in {<<n.root, p.root>>, <<p.root, n.root>>} :
                   IF f[2] = p.root THEN Constraint.upper # None ELSE Constraint.lower # None}
           w(e) == IF e[2] = p.root THEN Constraint.upper + n.offset - p.offset
                   ELSE p.offset - n.offset - Constraint.lower
<1>4. NewEdges(Constraint, p, n) = [e \in S |-> w(e)]
  BY DEF NewEdges
<1>5. S \subseteq Roots \X Roots
  BY <1>2
<1>6. \A e \in S : w(e) \in Int
  BY <1>2, <1>3
<1> QED
  BY <1>4, <1>5, <1>6

LEMMA BoundTypes ==
  ASSUME TypeInv, BoundStep PROVE TypeInv'
<1> USE DEF TypeInv
<1>0. system \in Seq(Constraints) /\ Len(system) \in Nat /\ DOMAIN system = 1 .. Len(system)
  BY SystemType
<1>a. /\ at \in 1 .. Len(system) + 1 /\ edges \in [DOMAIN edges -> Int]
      /\ potential \in [DOMAIN potential -> Int] /\ DOMAIN potential \subseteq Nodes
      /\ round \in Nat /\ changed \in BOOLEAN /\ todo \subseteq DOMAIN edges
      /\ visits \in 0 .. MaxVisits + 1 /\ (visits > MaxVisits => failed \/ pc = "exhausted")
  BY DEF TypeOK
<1>b. pc \in {"bound", "relax"} => /\ DOMAIN edges \subseteq Roots \X Roots
                                   /\ pc = "relax" => potential \in [Roots -> Int]
  BY DEF Placed, InGraph
<1>c. pc \in {"bound", "relax"} => Roots \subseteq Nodes
  BY RootsAreNodes DEF InGraph
<1>d. pc \in {"bound", "relax"} => visits <= MaxVisits
  BY <1>a, LimitAssumption DEF Asking, Serving
<1>1. CASE CheckBounds
  <2>1. pc' \in {"bound", "inconsistent"} /\ pc = "bound" /\ at' = at + 1 /\ at <= Len(system)
    BY <1>1 DEF CheckBounds
  <2>2. UNCHANGED <<system, forest, find, placed, edges, potential, round, changed, todo, visits, service>>
    BY <1>1 DEF CheckBounds, afterForest, relaxation
  <2> QED
    <3>1. pc \in {"bound", "relax"} /\ UNCHANGED <<system, forest, find, placed, service>>
      BY <2>1, <2>2
    <3>2. pc' \in {"bound", "relax", "ready", "inconsistent", "exhausted"} /\ at' \in 1 .. Len(system) + 1
      BY <1>0, <1>a, <2>1
    <3>3. edges' \in [DOMAIN edges' -> Int] /\ DOMAIN edges' \subseteq Roots \X Roots
      BY <1>a, <1>b, <2>1, <2>2
    <3>4. potential' \in [DOMAIN potential' -> Int] /\ DOMAIN potential' \subseteq Nodes
      BY <1>a, <1>b, <2>1, <2>2
    <3>5. round' \in Nat /\ changed' \in BOOLEAN /\ todo' \subseteq DOMAIN edges'
      BY <1>a, <2>2
    <3>6. visits' \in 0 .. MaxVisits + 1 /\ (visits' > MaxVisits => pc' = "exhausted")
      BY <1>a, <1>d, <2>1, <2>2, LimitAssumption
    <3>7. pc' \in {"relax", "ready"} => potential' \in [Roots -> Int]
      BY <2>1
    <3> QED
      BY <3>1, <3>2, <3>3, <3>4, <3>5, <3>6, <3>7, BoundFrame
<1>2. CASE AddEdges
  <2> DEFINE p == placed[Constraint.positive]
             n == placed[Constraint.negative]
             new == NewEdges(Constraint, p, n)
  <2>1. pc' \in {"bound", "exhausted"} /\ pc = "bound" /\ at' = at + 1 /\ at \in DOMAIN system
    BY <1>0, <1>2, <1>a DEF AddEdges
  <2>2. UNCHANGED <<system, forest, find, placed, potential, round, changed, todo, visits, service>>
    BY <1>2 DEF AddEdges, relaxation
  <2>3. DOMAIN new \subseteq Roots \X Roots /\ new \in [DOMAIN new -> Int]
    BY <2>1, NewEdgesType
  <2>4. edges' = [e \in DOMAIN edges \union DOMAIN new |->
                    IF e \in DOMAIN new /\ (e \in DOMAIN edges => new[e] < edges[e]) THEN new[e] ELSE edges[e]]
    BY <1>2 DEF AddEdges
  <2> HIDE DEF new
  <2>5. edges' \in [DOMAIN edges' -> Int] /\ DOMAIN edges' \subseteq Roots \X Roots /\ DOMAIN edges \subseteq DOMAIN edges'
    BY <1>a, <1>b, <2>1, <2>3, <2>4
  <2> QED
    BY <1>0, <1>a, <1>d, <2>1, <2>2, <2>5, BoundFrame, LimitAssumption, SMTT(30)
<1>3. CASE BoundsDone
  <2>1. /\ pc' = "relax" /\ pc = "bound" /\ potential' = [r \in Roots |-> 0] /\ round' = 1
        /\ changed' = FALSE /\ todo' = DOMAIN edges
        /\ UNCHANGED <<system, at, forest, find, placed, edges, visits, service>>
    BY <1>3 DEF BoundsDone
  <2> QED
    <3>1. potential' \in [Roots -> Int] /\ DOMAIN potential' = Roots
      BY <2>1
    <3>3. potential' \in [DOMAIN potential' -> Int] /\ DOMAIN potential' \subseteq Nodes
      BY <1>c, <2>1, <3>1
    <3>4. round' \in Nat /\ changed' \in BOOLEAN /\ at' \in 1 .. Len(system) + 1 /\ visits' \in 0 .. MaxVisits + 1 /\ visits' <= MaxVisits
      BY <1>a, <1>d, <2>1, LimitAssumption
    <3>2. edges' \in [DOMAIN edges' -> Int] /\ DOMAIN edges' \subseteq Roots \X Roots /\ todo' \subseteq DOMAIN edges'
      BY <1>a, <1>b, <2>1
    <3> QED
      BY <2>1, <3>1, <3>2, <3>3, <3>4, BoundFrame, LimitAssumption
<1>4. CASE Relax
  <2>1. pc = "relax" /\ UNCHANGED <<system, at, forest, find, placed, edges, round, service>> /\ visits' = visits + 1
    BY <1>4 DEF Relax
  <2>2. PICK e \in todo :
          /\ todo' = todo \ {e}
          /\ IF visits >= MaxVisits \/ ~Fits(potential[e[1]] + edges[e])
             THEN pc' = "exhausted" /\ UNCHANGED <<potential, changed>>
             ELSE /\ UNCHANGED pc
                  /\ changed' = (changed \/ potential[e[1]] + edges[e] < potential[e[2]])
                  /\ potential' = [potential EXCEPT ![e[2]] = IF potential[e[1]] + edges[e] < @
                                                              THEN potential[e[1]] + edges[e] ELSE @]
    BY <1>4 DEF Relax
  <2>3. potential \in [Roots -> Int] /\ e[1] \in Roots /\ e[2] \in Roots /\ edges[e] \in Int
    BY <1>a, <1>b, <2>1
  <2>4. potential' \in [Roots -> Int] /\ changed' \in BOOLEAN
    <3>1. CASE UNCHANGED <<potential, changed>>
      BY <1>a, <2>3, <3>1
    <3>2. CASE ~UNCHANGED <<potential, changed>>
      <4>1. /\ changed' = (changed \/ potential[e[1]] + edges[e] < potential[e[2]])
            /\ potential' = [potential EXCEPT ![e[2]] = IF potential[e[1]] + edges[e] < @
                                                        THEN potential[e[1]] + edges[e] ELSE @]
        BY <2>2, <3>2
      <4>2. potential' \in [Roots -> Int]
        BY <2>3, <4>1
      <4>3. changed' \in BOOLEAN
        BY <4>1, Zenon
      <4> QED
        BY <4>2, <4>3
    <3> QED
      BY <3>1, <3>2
  <2>5. pc' \in {"relax", "exhausted"} /\ visits' \in 0 .. MaxVisits + 1 /\ (visits' > MaxVisits => pc' = "exhausted")
    BY <1>a, <1>d, <2>1, <2>2, LimitAssumption
  <2> QED
    <3>1. DOMAIN potential' = Roots /\ todo' \subseteq DOMAIN edges /\ potential' \in [DOMAIN potential' -> Int]
      BY <1>a, <2>2, <2>4
    <3>2. edges' \in [DOMAIN edges' -> Int] /\ DOMAIN edges' \subseteq Roots \X Roots /\ todo' \subseteq DOMAIN edges'
      BY <1>a, <1>b, <2>1, <3>1
    <3> QED
      BY <1>0, <1>a, <1>c, <2>1, <2>4, <2>5, <3>1, <3>2, BoundFrame
<1>5. CASE RoundsDone
  <2>1. /\ pc' \in {"ready", "exhausted"} /\ pc = "relax"
        /\ UNCHANGED <<system, at, forest, find, placed, edges, potential, round, changed, todo, visits, service>>
    BY <1>5 DEF RoundsDone, relaxation
  <2> QED
    BY <1>0, <1>a, <1>b, <1>c, <1>d, <2>1, BoundFrame, LimitAssumption
<1>6. CASE EndRound
  <2>1. /\ pc' \in {"relax", "inconsistent"} /\ pc = "relax"
        /\ UNCHANGED <<system, at, forest, find, placed, edges, potential, visits, service>>
    BY <1>6 DEF EndRound
  <2>2. round' \in Nat /\ changed' \in BOOLEAN /\ todo' \subseteq DOMAIN edges
    <3>1. \/ UNCHANGED <<round, changed, todo>>
          \/ round' = round + 1 /\ changed' = FALSE /\ todo' = DOMAIN edges
      BY <1>6 DEF EndRound
    <3>2. round' \in Nat /\ todo' \subseteq DOMAIN edges
      BY <1>a, <3>1
    <3>3. changed' \in BOOLEAN
      BY <1>a, <3>1, Zenon
    <3> QED
      BY <3>2, <3>3
  <2> QED
    <3>1. edges' \in [DOMAIN edges' -> Int] /\ DOMAIN edges' \subseteq Roots \X Roots /\ todo' \subseteq DOMAIN edges'
      BY <1>a, <1>b, <2>1, <2>2
    <3>2. potential' \in [Roots -> Int] /\ DOMAIN potential' = Roots
      BY <1>b, <2>1
    <3> QED
      BY <1>0, <1>a, <1>c, <1>d, <2>1, <2>2, <3>1, <3>2, BoundFrame, LimitAssumption
<1> QED
  BY <1>1, <1>2, <1>3, <1>4, <1>5, <1>6 DEF BoundStep

\* A query changes nothing of what was constructed.
LEMMA ServiceFrame ==
  ASSUME TypeInv, Serving, UNCHANGED construction, pc' \in {"ready", "search"},
         todo' \subseteq DOMAIN edges,
         visits' \in 0 .. MaxVisits + 1, queries' \in 0 .. MaxQueries + 1, failed' \in BOOLEAN,
         visits' > MaxVisits \/ queries' > MaxQueries => failed',
         pc' = "search" => search' \in Searches /\ failed' = FALSE,
         cache' # None => cache' \in Caches,
         answer' # None => answer'.result \in Intervals \union {Exceeded, Unknown},
         Answered' => answer'.positive \in Nodes /\ answer'.negative \in Nodes
  PROVE  TypeInv'
<1> USE DEF TypeInv
<1>1. /\ UNCHANGED <<system, at, parent, weight, size, walk, left, placed, edges, potential, round, changed>>
      /\ Roots' = Roots /\ Dists' = Dists /\ Items' = Items
  BY DEF construction, forest, find, relaxation, Roots, Dists, Items
<1>2. Searches' = Searches /\ Caches' = Caches
  BY <1>1 DEF Searches, Caches
<1>3. TypeOK'
  BY <1>1 DEF TypeOK
<1>4. Walking' /\ Placed'
  BY <1>1 DEF Walking, Placed, InForest, InGraph, Serving
<1>5. Asking'
  BY <1>2 DEF Asking, Serving
<1> QED
  BY <1>3, <1>4, <1>5

LEMMA IntervalType ==
  ASSUME TypeInv, Serving, NEW p \in Nodes, NEW n \in Nodes, NEW forward \in Dists, NEW reverse \in Dists
  PROVE  Interval(p, n, forward, reverse) \in Intervals
<1> DEFINE root == placed[p].root
           base == potential[root] - potential[placed[n].root] + Offset(p, n)
<1>1. root \in Roots /\ base \in Int
  <2>1. InGraph /\ potential \in [Roots -> Int]
    BY DEF TypeInv, Placed, InGraph, Serving
  <2> QED
    BY <2>1, RootsAreNodes DEF Offset
<1>2. /\ root \in DOMAIN reverse => base - reverse[root] \in Int
      /\ root \in DOMAIN forward => base + forward[root] \in Int
  <2>1. /\ root \in DOMAIN reverse => reverse[root] \in Int
        /\ root \in DOMAIN forward => forward[root] \in Int
    BY DEF Dists
  <2> QED
    BY <1>1, <2>1
<1> HIDE DEF base
<1>3. Interval(p, n, forward, reverse) =
        [lower |-> IF root \in DOMAIN reverse THEN base - reverse[root] ELSE None,
         upper |-> IF root \in DOMAIN forward THEN base + forward[root] ELSE None]
  BY DEF Interval, base
<1> QED
  BY <1>2, <1>3 DEF Intervals, Endpoints

\* Every reply that is no interval keeps the types; so does one that concludes.
LEMMA ReplyTypes ==
  ASSUME TypeInv, Serving, UNCHANGED construction, NEW p, NEW n, NEW result,
         Reply(p, n, result),
         \/ result \in {Exceeded, Unknown}
         \/ result \in Intervals /\ p \in Nodes /\ n \in Nodes,
         visits' \in 0 .. MaxVisits + 1, queries' \in 0 .. MaxQueries + 1, failed' \in BOOLEAN,
         visits' > MaxVisits \/ queries' > MaxQueries => failed',
         cache' # None => cache' \in Caches
  PROVE  TypeInv'
<1>1. pc' = "ready" /\ todo' = {} /\ answer' = [positive |-> p, negative |-> n, result |-> result]
  BY DEF Reply
<1>2. answer'.result = result /\ answer'.positive = p /\ answer'.negative = n
  BY <1>1
<1>3. Answered' => answer'.positive \in Nodes /\ answer'.negative \in Nodes
  BY <1>2 DEF Answered
<1>4. answer'.result \in Intervals \union {Exceeded, Unknown}
  BY <1>2
<1> QED
  BY <1>1, <1>3, <1>4, ServiceFrame

LEMMA ConcludeTypes ==
  ASSUME TypeInv, Serving, UNCHANGED construction, NEW p \in Nodes, NEW n \in Nodes,
         NEW forward \in Dists, NEW reverse \in Dists, Conclude(p, n, forward, reverse),
         visits' \in 0 .. MaxVisits, queries' \in 0 .. MaxQueries, failed = FALSE,
         cache' # None => cache' \in Caches
  PROVE  TypeInv'
<1>1. Interval(p, n, forward, reverse) \in Intervals
  BY IntervalType
<1>2. visits' \in 0 .. MaxVisits + 1 /\ queries' \in 0 .. MaxQueries + 1 /\ ~(visits' > MaxVisits \/ queries' > MaxQueries)
  BY LimitAssumption
<1>3. \/ Reply(p, n, Interval(p, n, forward, reverse)) /\ UNCHANGED failed
      \/ Refuse(p, n)
  BY DEF Conclude
<1>4. CASE Reply(p, n, Interval(p, n, forward, reverse)) /\ UNCHANGED failed
  BY <1>1, <1>2, <1>4, ReplyTypes
<1>5. CASE Refuse(p, n)
  BY <1>2, <1>5, ReplyTypes DEF Refuse
<1> QED
  BY <1>3, <1>4, <1>5

\* A search begins at a root.
LEMMA DistancesType ==
  ASSUME TypeInv, InGraph, NEW p \in Nodes, NEW n \in Nodes, NEW forward \in Dists \union {None},
         Distances(p, n, forward)
  PROVE  search' \in Searches
<1> DEFINE r == placed[n].root
<1>1. r \in Roots
  BY RootsAreNodes
<1> HIDE DEF r
<1> DEFINE d == [x \in {r} |-> 0]
           q == {<<0, r>>}
<1>2. d \in Dists
  <2>1. d \in [{r} -> Int] /\ {r} \in SUBSET Roots
    BY <1>1
  <2> HIDE DEF d
  <2> QED
    BY <2>1 DEF Dists
<1>3. q \in SUBSET Items
  BY <1>1 DEF Items
<1>4. search' = [positive |-> p, negative |-> n, forward |-> forward, from |-> 0, distance |-> d, queue |-> q]
  BY DEF Distances, r
<1> HIDE DEF d, q
<1> QED
  BY <1>2, <1>3, <1>4 DEF Searches

LEMMA AskTypes ==
  ASSUME TypeInv, NEW p, NEW n, Ask(p, n) PROVE TypeInv'
<1>a. /\ visits \in 0 .. MaxVisits + 1 /\ queries \in 0 .. MaxQueries + 1 /\ failed \in BOOLEAN
      /\ todo \subseteq DOMAIN edges
      /\ cache # None => cache \in Caches
      /\ Serving => (visits > MaxVisits \/ queries > MaxQueries => failed)
  BY DEF TypeInv, TypeOK, Asking, Serving
<1>b. pc = "ready" => Serving /\ InGraph
  BY DEF Serving, InGraph
<1>1. CASE AskFailed(p, n)
  <2>1. /\ Serving /\ failed = TRUE /\ Reply(p, n, Exceeded) /\ UNCHANGED construction
        /\ visits' = visits /\ queries' = queries /\ failed' = failed /\ cache' = cache
    BY <1>1, <1>b DEF AskFailed
  <2>2. Exceeded \in {Exceeded, Unknown}
    OBVIOUS
  <2>3. /\ visits' \in 0 .. MaxVisits + 1 /\ queries' \in 0 .. MaxQueries + 1 /\ failed' = TRUE
        /\ cache' # None => cache' \in Caches
    BY <1>a, <2>1
  <2> QED
    BY <2>1, <2>2, <2>3, ReplyTypes
<1>2. CASE AskTooOften(p, n)
  <2>1. /\ Serving /\ UNCHANGED construction /\ Reply(p, n, Exceeded) /\ failed' = TRUE
        /\ UNCHANGED <<visits, cache>> /\ queries' = queries + 1 /\ failed = FALSE
    BY <1>2, <1>a, <1>b DEF AskTooOften, Refuse
  <2>2. queries' \in 0 .. MaxQueries + 1
    BY <1>a, <2>1, LimitAssumption
  <2> QED
    BY <1>a, <2>1, <2>2, ReplyTypes
<1>c. Counted => /\ failed = FALSE /\ Serving /\ InGraph /\ queries' \in 0 .. MaxQueries + 1
                 /\ queries' <= MaxQueries /\ visits <= MaxVisits
  BY <1>a, <1>b, LimitAssumption DEF Counted
<1>3. CASE AskUnknown(p, n)
  BY <1>3, <1>a, <1>c, LimitAssumption, ReplyTypes DEF AskUnknown
<1>4. CASE AskTooLong(p, n)
  BY <1>4, <1>a, <1>c, LimitAssumption, ReplyTypes DEF AskTooLong
<1>5. CASE AskSameTree(p, n)
  <2>1. p \in Nodes /\ n \in Nodes /\ Counted
    BY <1>5 DEF AskSameTree, Asked
  <2>2. Offset(p, n) \in Int
    BY <1>c, <2>1, RootsAreNodes DEF Offset
  <2>3. [lower |-> Offset(p, n), upper |-> Offset(p, n)] \in Intervals
    BY <2>2 DEF Intervals, Endpoints
  <2> QED
    BY <1>5, <1>a, <1>c, <2>1, <2>3, LimitAssumption, ReplyTypes DEF AskSameTree
<1>6. CASE AskCached(p, n)
  <2>1. p \in Nodes /\ n \in Nodes /\ Counted /\ cache # None
    BY <1>6 DEF AskCached, Asked, Cached
  <2>2. cache.forward \in Dists /\ cache.reverse \in Dists
    BY <1>a, <2>1 DEF Caches
  <2>3. visits' \in 0 .. MaxVisits /\ queries' \in 0 .. MaxQueries /\ UNCHANGED <<construction, cache>>
    BY <1>6, <1>a, <1>c, <2>1, LimitAssumption DEF AskCached
  <2> QED
    BY <1>6, <1>a, <1>c, <2>1, <2>2, <2>3, ConcludeTypes DEF AskCached
<1>7. CASE AskNew(p, n)
  <2>1. /\ p \in Nodes /\ n \in Nodes /\ Counted /\ Distances(p, n, None) /\ pc' = "search"
        /\ UNCHANGED <<construction, todo, visits, failed, cache, answer>>
    BY <1>7 DEF AskNew, Asked
  <2>3. search' \in Searches
    BY <1>c, <2>1, DistancesType
  <2>4. Answered' => Answered /\ UNCHANGED answer
    BY <1>c, <2>1 DEF Answered, Serving
  <2>5. /\ answer' # None => answer'.result \in Intervals \union {Exceeded, Unknown}
        /\ Answered' => answer'.positive \in Nodes /\ answer'.negative \in Nodes
    BY <2>1, <2>4 DEF TypeInv, TypeOK, Asking
  <2>6. /\ visits' \in 0 .. MaxVisits + 1 /\ failed' = FALSE /\ todo' \subseteq DOMAIN edges
        /\ ~(visits' > MaxVisits \/ queries' > MaxQueries)
    BY <1>a, <1>c, <2>1, LimitAssumption
  <2> QED
    BY <1>a, <1>c, <2>1, <2>3, <2>5, <2>6, ServiceFrame
<1> QED
  BY <1>1, <1>2, <1>3, <1>4, <1>5, <1>6, <1>7 DEF Ask

LEMMA SearchTypes ==
  ASSUME TypeInv, SearchStep PROVE TypeInv'
<1>a. /\ pc = "search" /\ Serving /\ InGraph /\ search \in Searches /\ failed = FALSE
      /\ search.distance \in Dists /\ search.queue \subseteq Items /\ search.from \in Int
      /\ search.positive \in Nodes /\ search.negative \in Nodes
      /\ search.forward \in Dists \union {None}
  BY DEF SearchStep, Pop, Visit, ForwardDone, ReverseDone, Searched, Serving, InGraph, TypeInv, Asking, Searches
<1>b. /\ visits \in 0 .. MaxVisits /\ queries \in 0 .. MaxQueries
      /\ edges \in [DOMAIN edges -> Int] /\ DOMAIN edges \subseteq Roots \X Roots
      /\ todo \subseteq DOMAIN edges /\ potential \in [Roots -> Int]
  <2>1. /\ visits \in 0 .. MaxVisits + 1 /\ queries \in 0 .. MaxQueries + 1
        /\ ~(visits > MaxVisits \/ queries > MaxQueries)
    BY <1>a DEF TypeInv, TypeOK
  <2>2. visits \in 0 .. MaxVisits /\ queries \in 0 .. MaxQueries
    BY <2>1, LimitAssumption
  <2> QED
    BY <1>a, <2>2 DEF TypeInv, TypeOK, Placed
<1>c. /\ cache # None => cache \in Caches
      /\ answer # None => answer.result \in Intervals \union {Exceeded, Unknown}
      /\ Answered => answer.positive \in Nodes /\ answer.negative \in Nodes
  BY <1>a DEF TypeInv, TypeOK, Asking
<1>d. pc' \in {"ready", "search"} /\ UNCHANGED answer =>
         (Answered' => answer'.positive \in Nodes /\ answer'.negative \in Nodes)
  BY <1>a, <1>c DEF Answered, Serving
<1>e. /\ 0 .. MaxVisits \subseteq 0 .. MaxVisits + 1 /\ 0 .. MaxQueries \subseteq 0 .. MaxQueries + 1
      /\ \A k \in 0 .. MaxVisits : ~(k > MaxVisits) /\ k + 1 \in 0 .. MaxVisits + 1
      /\ \A k \in 0 .. MaxQueries : ~(k > MaxQueries)
  BY LimitAssumption
<1>1. CASE Pop
  <2>1. /\ UNCHANGED <<construction, pc, visits, queries, failed, cache, answer>>
        /\ \E item \in search.queue :
             /\ search' = [search EXCEPT !.queue = @ \ {item}, !.from = item[1]]
             /\ \/ todo' = {e \in DOMAIN edges : Near(e) = item[2]}
                \/ todo' = {}
    BY <1>1 DEF Pop
  <2>2. todo' \subseteq DOMAIN edges
    BY <2>1
  <2>3. search' \in Searches
    BY <1>a, <2>1 DEF Searches, Items
  <2> QED
    BY <1>a, <1>b, <1>c, <1>d, <1>e, <2>1, <2>2, <2>3, ServiceFrame
<1>2. CASE Visit
  <2>1. UNCHANGED <<construction, queries, cache>> /\ visits' = visits + 1
    BY <1>2 DEF Visit
  <2> DEFINE c(e) == search.from + Reduced(e)
             closer(e) == [search EXCEPT
                             !.distance = [n \in DOMAIN search.distance \union {Other(e)} |->
                                             IF n = Other(e) THEN c(e) ELSE search.distance[n]],
                             !.queue = search.queue \union {<<c(e), Other(e)>>}]
  <2>2. PICK e \in todo :
          IF visits >= MaxVisits \/ ~Fits(c(e))
          THEN Refuse(search.positive, search.negative)
          ELSE /\ todo' = todo \ {e}
               /\ search' = IF Closer(Other(e), c(e)) THEN closer(e) ELSE search
               /\ UNCHANGED <<pc, failed, answer>>
    BY <1>2 DEF Visit
  <2>3. Other(e) \in Roots /\ c(e) \in Int
    <3>1. e[1] \in Roots /\ e[2] \in Roots /\ edges[e] \in Int
      BY <1>b
    <3>2. potential[e[1]] \in Int /\ potential[e[2]] \in Int
      BY <1>b, <3>1
    <3> QED
      BY <1>a, <3>1, <3>2 DEF Reduced, Other
  <2>4. closer(e) \in Searches
    <3> DEFINE d == [n \in DOMAIN search.distance \union {Other(e)} |->
                       IF n = Other(e) THEN c(e) ELSE search.distance[n]]
               q == search.queue \union {<<c(e), Other(e)>>}
    <3> HIDE DEF c
    <3>1. d \in Dists
      <4>1. d \in [DOMAIN search.distance \union {Other(e)} -> Int]
        BY <1>a, <2>3 DEF Dists
      <4>2. DOMAIN search.distance \union {Other(e)} \in SUBSET Roots
        BY <1>a, <2>3 DEF Dists
      <4> HIDE DEF d
      <4> QED
        BY <4>1, <4>2 DEF Dists
    <3>2. q \in SUBSET Items
      BY <1>a, <2>3 DEF Items
    <3>3. closer(e) = [search EXCEPT !.distance = d, !.queue = q]
      OBVIOUS
    <3> HIDE DEF d, q, closer
    <3> QED
      BY <1>a, <3>1, <3>2, <3>3 DEF Searches
  <2>6. visits' \in 0 .. MaxVisits + 1 /\ queries' \in 0 .. MaxQueries + 1
    BY <1>b, <1>e, <2>1
  <2> HIDE DEF c, closer
  <2>5. CASE visits >= MaxVisits \/ ~Fits(c(e))
    <3>1. Reply(search.positive, search.negative, Exceeded) /\ failed' = TRUE
      BY <2>2, <2>5 DEF Refuse
    <3> QED
      BY <1>a, <1>b, <1>c, <2>1, <2>6, <3>1, ReplyTypes
  <2>7. CASE ~(visits >= MaxVisits \/ ~Fits(c(e)))
    <3>1. /\ todo' \subseteq DOMAIN edges /\ search' \in Searches /\ UNCHANGED <<pc, failed, answer>>
      BY <1>a, <1>b, <2>2, <2>4, <2>7
    <3>2. visits' \in 0 .. MaxVisits
      BY <1>b, <2>1, <2>7, LimitAssumption
    <3> QED
      BY <1>a, <1>b, <1>c, <1>d, <1>e, <2>1, <2>6, <3>1, <3>2, ServiceFrame
  <2> QED
    BY <2>5, <2>7
<1>3. CASE ForwardDone
  <2>1. /\ Distances(search.positive, search.negative, search.distance)
        /\ UNCHANGED <<construction, pc, todo, visits, queries, failed, cache, answer>>
    BY <1>3 DEF ForwardDone
  <2>2. search' \in Searches
    BY <1>a, <2>1, DistancesType
  <2> QED
    BY <1>a, <1>b, <1>c, <1>d, <1>e, <2>1, <2>2, ServiceFrame
<1>4. CASE ReverseDone
  <2>1. /\ cache' = [root |-> placed[search.negative].root,
                     forward |-> search.forward, reverse |-> search.distance]
        /\ Conclude(search.positive, search.negative, search.forward, search.distance)
        /\ UNCHANGED <<construction, visits, queries>> /\ search.forward \in Dists
    BY <1>4, <1>a DEF ReverseDone
  <2>2. cache' \in Caches
    <3>1. placed[search.negative].root \in Nodes
      BY <1>a, RootsAreNodes
    <3> QED
      BY <1>a, <2>1, <3>1 DEF Caches
  <2> QED
    BY <1>a, <1>b, <2>1, <2>2, ConcludeTypes
<1> QED
  BY <1>1, <1>2, <1>3, <1>4 DEF SearchStep

LEMMA NextTypes ==
  ASSUME TypeInv, [Next]_vars PROVE TypeInv'
<1>1. CASE ForestStep
  BY <1>1, ForestTypes
<1>2. CASE BoundStep
  BY <1>2, BoundTypes
<1>3. CASE SearchStep
  BY <1>3, SearchTypes
<1>4. ASSUME NEW q \in Queries, Ask(q[1], q[2]) PROVE TypeInv'
  BY <1>4, AskTypes
<1>5. CASE UNCHANGED vars
  <2> USE <1>5 DEF vars, forest, find, relaxation, service
  <2>1. TypeOK'
    BY DEF TypeInv, TypeOK
  <2>2. Walking' /\ Placed'
    BY DEF TypeInv, Walking, Constraint, IsPoint, Placed, InForest, InGraph, Roots
  <2>3. Asking'
    BY DEF TypeInv, Asking, Serving, Searches, Caches, Dists, Items, Roots, Answered
  <2> QED
    BY <2>1, <2>2, <2>3 DEF TypeInv
<1> QED
  BY <1>1, <1>2, <1>3, <1>4, <1>5 DEF Next, Work

\* All the variables of a system and of its queries keep their types, and work
\* beyond the limits is always noticed: VoltageSystem.
THEOREM TypeCorrect == Spec => []TypeOK
<1>1. Init => TypeInv
  BY InitTypes
<1>2. TypeInv /\ [Next]_vars => TypeInv'
  BY NextTypes
<1>3. TypeInv => TypeOK
  BY DEF TypeInv
<1> QED
  BY <1>1, <1>2, <1>3, PTL DEF Spec
-----------------------------------------------------------------------------
(***************************************************************************)
(* What was accepted has a solution.  The bounds are all looked at after    *)
(* the forest is complete, those of exact differences again; so this needs  *)
(* nothing from the forest but that every node has a place in it.           *)
(***************************************************************************)

\* The constraint holds already, or there are edges at least as strict.
Covered(c) ==
  LET p == placed[c.positive]
      n == placed[c.negative]
      up == <<n.root, p.root>>
      down == <<p.root, n.root>>
  IN  IF p.root = n.root
      THEN Allows(c, p.offset - n.offset)
      ELSE /\ c.upper # None => up \in DOMAIN edges /\ edges[up] <= c.upper + n.offset - p.offset
           /\ c.lower # None => down \in DOMAIN edges /\ edges[down] <= p.offset - n.offset - c.lower

Respected(e) == potential[e[2]] <= potential[e[1]] + edges[e]

FeasInv ==
  /\ pc = "bound" => \A i \in DOMAIN system : i < at => Covered(system[i])
  /\ InGraph /\ pc # "bound" => \A i \in DOMAIN system : Covered(system[i])
  /\ pc = "relax" /\ ~changed => \A e \in DOMAIN edges \ todo : Respected(e)
  /\ Serving => \A e \in DOMAIN edges : Respected(e)

\* An end of a constraint is a number or missing.
LEMMA EndTypes ==
  ASSUME NEW c \in Constraints
  PROVE  /\ c.positive \in Nodes /\ c.negative \in Nodes
         /\ c.lower # None => c.lower \in Int
         /\ c.upper # None => c.upper \in Int
BY DEF Constraints, Endpoints

\* The voltages that potentials of the roots stand for.
VoltsOf(q) == [n \in Nodes |-> q[placed[n].root] + placed[n].offset]

LEMMA CoveredKept ==
  ASSUME TypeInv, InGraph, NEW q \in [Roots -> Int], \A e \in DOMAIN edges : q[e[2]] <= q[e[1]] + edges[e],
         NEW i \in DOMAIN system, Covered(system[i])
  PROVE  Keeps(VoltsOf(q), system[i])
<1> DEFINE c == system[i]
           p == placed[c.positive]
           n == placed[c.negative]
           v == VoltsOf(q)
<1>1. c \in Constraints
  BY ConstraintType DEF TypeInv
<1> HIDE DEF c
<1>2. /\ c.positive \in Nodes /\ c.negative \in Nodes
      /\ c.lower # None => c.lower \in Int
      /\ c.upper # None => c.upper \in Int
  BY <1>1, EndTypes
<1>3. /\ p.root \in Roots /\ p.offset \in Int /\ n.root \in Roots /\ n.offset \in Int
  BY <1>2, RootsAreNodes
<1>4. /\ q[p.root] \in Int /\ q[n.root] \in Int
      /\ edges \in [DOMAIN edges -> Int]
  BY <1>3 DEF TypeInv, TypeOK
<1>5. v[c.positive] - v[c.negative] = q[p.root] + p.offset - (q[n.root] + n.offset)
  <2>1. v[c.positive] = q[p.root] + p.offset /\ v[c.negative] = q[n.root] + n.offset
    BY <1>2 DEF VoltsOf
  <2> QED
    BY <1>3, <1>4, <2>1
<1> DEFINE up == <<n.root, p.root>>
           down == <<p.root, n.root>>
<1>6. CASE p.root = n.root
  <2>1. Allows(c, p.offset - n.offset)
    BY <1>6 DEF Covered, c
  <2>2. v[c.positive] - v[c.negative] = p.offset - n.offset
    BY <1>3, <1>4, <1>5, <1>6
  <2> HIDE DEF v
  <2> QED
    BY <2>1, <2>2 DEF Keeps, c, v
<1>7. CASE p.root # n.root
  <2>1. /\ c.upper # None => up \in DOMAIN edges /\ edges[up] <= c.upper + n.offset - p.offset
        /\ c.lower # None => down \in DOMAIN edges /\ edges[down] <= p.offset - n.offset - c.lower
    BY <1>7 DEF Covered, c
  <2>2. up \in DOMAIN edges => q[p.root] <= q[n.root] + edges[up] /\ edges[up] \in Int
    BY <1>4
  <2>3. down \in DOMAIN edges => q[n.root] <= q[p.root] + edges[down] /\ edges[down] \in Int
    BY <1>4
  <2> HIDE DEF up, down, p, n, v
  <2>4. c.upper # None => q[p.root] + p.offset - (q[n.root] + n.offset) <= c.upper
    BY <1>2, <1>3, <1>4, <2>1, <2>2
  <2>5. c.lower # None => c.lower <= q[p.root] + p.offset - (q[n.root] + n.offset)
    BY <1>2, <1>3, <1>4, <2>1, <2>3
  <2> QED
    BY <1>5, <2>4, <2>5 DEF Keeps, Allows, c, v
<1> QED
  BY <1>6, <1>7

\* Potentials that respect every edge keep every constraint.
LEMMA PotentialsSolve ==
  ASSUME TypeInv, FeasInv, Serving, NEW q \in [Roots -> Int],
         \A e \in DOMAIN edges : q[e[2]] <= q[e[1]] + edges[e]
  PROVE  VoltsOf(q) \in [Nodes -> Int] /\ Solves(VoltsOf(q))
<1>1. InGraph /\ \A i \in DOMAIN system : Covered(system[i])
  BY DEF Serving, InGraph, FeasInv
<1>2. \A n \in Nodes : placed[n].root \in Roots /\ placed[n].offset \in Int
  BY <1>1, RootsAreNodes
<1>3. VoltsOf(q) \in [Nodes -> Int]
  BY <1>2 DEF VoltsOf
<1> QED
  BY <1>1, <1>3, CoveredKept DEF Solves

LEMMA RespectedSolves ==
  ASSUME TypeInv, FeasInv PROVE AcceptedIsFeasible
<1> SUFFICES ASSUME Serving PROVE Solves(Found)
  BY DEF AcceptedIsFeasible
<1>1. potential \in [Roots -> Int] /\ \A e \in DOMAIN edges : potential[e[2]] <= potential[e[1]] + edges[e]
  BY DEF Serving, InGraph, FeasInv, Respected, TypeInv, Placed
<1> QED
  BY <1>1, PotentialsSolve DEF Found, VoltsOf

\* More and stricter edges cover what was covered.
LEMMA StillCovered ==
  ASSUME placed' = placed, NEW c,
         DOMAIN edges \subseteq DOMAIN edges', \A e \in DOMAIN edges : edges'[e] <= edges[e],
         edges \in [DOMAIN edges -> Int], edges' \in [DOMAIN edges' -> Int], InGraph, TypeInv,
         c \in Constraints, Covered(c)
  PROVE  Covered(c)'
<1> DEFINE p == placed[c.positive]
           n == placed[c.negative]
           up == <<n.root, p.root>>
           down == <<p.root, n.root>>
<1>1. /\ c.lower # None => c.lower \in Int
      /\ c.upper # None => c.upper \in Int
      /\ p.offset \in Int /\ n.offset \in Int
  BY EndTypes, RootsAreNodes
<1>2. CASE p.root = n.root
  BY <1>2 DEF Covered, Allows
<1>3. CASE p.root # n.root
  <2>1. /\ c.upper # None => up \in DOMAIN edges /\ edges[up] <= c.upper + n.offset - p.offset
        /\ c.lower # None => down \in DOMAIN edges /\ edges[down] <= p.offset - n.offset - c.lower
    BY <1>3 DEF Covered
  <2>2. \A e \in DOMAIN edges : e \in DOMAIN edges' /\ edges[e] \in Int /\ edges'[e] \in Int /\ edges'[e] <= edges[e]
    OBVIOUS
  <2>3. c.upper # None => up \in DOMAIN edges' /\ edges'[up] <= c.upper + n.offset - p.offset
    <3> HIDE DEF up, p, n
    <3> QED
      BY <1>1, <2>1, <2>2
  <2>4. c.lower # None => down \in DOMAIN edges' /\ edges'[down] <= p.offset - n.offset - c.lower
    <3> HIDE DEF down, p, n
    <3> QED
      BY <1>1, <2>1, <2>2
  <2> QED
    BY <1>3, <2>3, <2>4 DEF Covered
<1> QED
  BY <1>2, <1>3

LEMMA BoundFeasible ==
  ASSUME TypeInv, FeasInv, BoundStep PROVE FeasInv'
<1> USE DEF TypeInv
<1>a. /\ system \in Seq(Constraints) /\ Len(system) \in Nat /\ DOMAIN system = 1 .. Len(system)
      /\ at \in 1 .. Len(system) + 1 /\ edges \in [DOMAIN edges -> Int]
  BY SystemType DEF TypeOK
<1>1. CASE CheckBounds
  <2>0. at \in DOMAIN system
    BY <1>1, <1>a DEF CheckBounds
  <2>1. /\ pc = "bound" /\ at \in DOMAIN system /\ at' = at + 1 /\ UNCHANGED <<system, placed, edges>>
        /\ pc' = "bound" \/ pc' = "inconsistent"
    BY <1>1, <2>0 DEF CheckBounds, afterForest
  <2>2. pc' = "bound" => Covered(system[at])
    BY <1>1 DEF CheckBounds, Covered, Constraint
  <2>3. \A i \in DOMAIN system : i < at => Covered(system[i])
    BY <2>1 DEF FeasInv
  <2>4. \A i \in DOMAIN system : i < at' /\ pc' = "bound" => Covered(system[i])
    BY <1>a, <2>1, <2>2, <2>3
  <2>5. \A i \in DOMAIN system : Covered(system[i])' <=> Covered(system[i])
    BY <2>1 DEF Covered, Allows
  <2> QED
    BY <2>1, <2>4, <2>5 DEF FeasInv, InGraph, Serving
<1>2. CASE AddEdges
  <2> DEFINE p == placed[Constraint.positive]
             n == placed[Constraint.negative]
             new == NewEdges(Constraint, p, n)
  <2>0. at \in DOMAIN system
    BY <1>2, <1>a DEF AddEdges
  <2>1. /\ pc = "bound" /\ at \in DOMAIN system /\ at' = at + 1 /\ UNCHANGED <<system, placed>>
        /\ pc' = "bound" \/ pc' = "exhausted"
        /\ p.root # n.root
        /\ edges' = [e \in DOMAIN edges \union DOMAIN new |->
                        IF e \in DOMAIN new /\ (e \in DOMAIN edges => new[e] < edges[e])
                        THEN new[e] ELSE edges[e]]
    BY <1>2, <2>0 DEF AddEdges
  <2>2. Constraint \in Constraints /\ system[at] = Constraint
    BY <1>a, <2>1 DEF Constraint
  <2>3. p.offset \in Int /\ n.offset \in Int /\ p \in Place /\ n \in Place /\ InGraph
    BY <2>1, <2>2, EndTypes, RootsAreNodes DEF InGraph
  <2>4. new \in [DOMAIN new -> Int]
    BY <2>1, NewEdgesType
  <2>5. /\ DOMAIN edges' = DOMAIN edges \union DOMAIN new
        /\ \A e \in DOMAIN edges : edges'[e] \in Int /\ edges'[e] <= edges[e]
        /\ \A e \in DOMAIN new : edges'[e] \in Int /\ edges'[e] <= new[e]
    <3> HIDE DEF new
    <3>1. \A e \in DOMAIN edges : edges[e] \in Int
      BY <1>a
    <3>2. \A e \in DOMAIN new : new[e] \in Int
      BY <2>4
    <3> QED
      BY <2>1, <3>1, <3>2
  <2>6. edges' \in [DOMAIN edges' -> Int]
    <3>1. edges' = [e \in DOMAIN edges' |-> edges'[e]]
      BY <2>1
    <3>2. \A e \in DOMAIN edges' : edges'[e] \in Int
      BY <2>5
    <3> QED
      BY <3>1, <3>2
  <2>7. ASSUME NEW c, c = Constraint PROVE Covered(c)'
    <3> DEFINE up == <<n.root, p.root>>
               down == <<p.root, n.root>>
    <3>1. /\ p = placed[c.positive] /\ n = placed[c.negative] /\ p.root # n.root
          /\ placed'[c.positive] = p /\ placed'[c.negative] = n
      BY <2>1, <2>7
    <3>2. c.upper # None => up \in DOMAIN new /\ new[up] = c.upper + n.offset - p.offset
      BY <2>7, <3>1 DEF NewEdges
    <3>3. c.lower # None => down \in DOMAIN new /\ new[down] = p.offset - n.offset - c.lower
      BY <2>7, <3>1 DEF NewEdges
    <3>4. c.upper # None => up \in DOMAIN edges' /\ edges'[up] <= c.upper + n.offset - p.offset
      BY <2>5, <3>2
    <3>5. c.lower # None => down \in DOMAIN edges' /\ edges'[down] <= p.offset - n.offset - c.lower
      BY <2>5, <3>3
    <3> HIDE DEF p, n
    <3> QED
      BY <3>1, <3>4, <3>5 DEF Covered
  <2>8. ASSUME NEW i \in DOMAIN system, i < at', NEW c, c = system[i] PROVE Covered(c)'
    <3>1. CASE i = at
      BY <2>2, <2>7, <2>8, <3>1
    <3>2. CASE i # at
      <4>1. i < at
        BY <1>a, <2>1, <2>8, <3>2
      <4>2. Covered(c) /\ c \in Constraints
        BY <2>1, <2>8, <4>1, ConstraintType DEF FeasInv
      <4> QED
        BY <1>a, <2>1, <2>3, <2>5, <2>6, <4>2, StillCovered
    <3> QED
      BY <3>1, <3>2
  <2>9. \A i \in DOMAIN system : i < at' => Covered(system[i])'
    <3> SUFFICES ASSUME NEW i \in DOMAIN system, i < at' PROVE Covered(system[i])'
      OBVIOUS
    <3>1. PICK c : c = system[i]
      OBVIOUS
    <3>2. Covered(c)' /\ system'[i] = c
      BY <2>1, <2>8, <3>1
    <3> QED
      BY <3>2 DEF Covered
  <2> QED
    BY <2>1, <2>9 DEF FeasInv, InGraph, Serving
<1>3. CASE BoundsDone
  <2>1. /\ pc = "bound" /\ at > Len(system) /\ pc' = "relax" /\ todo' = DOMAIN edges
        /\ UNCHANGED <<system, placed, edges>>
    BY <1>3 DEF BoundsDone
  <2>2. \A i \in DOMAIN system : Covered(system[i])
    BY <1>a, <2>1 DEF FeasInv
  <2>3. \A i \in DOMAIN system : Covered(system[i])'
    BY <2>1, <2>2 DEF Covered
  <2> QED
    BY <2>1, <2>3 DEF FeasInv, InGraph, Serving
<1>4. CASE Relax
  <2>1. /\ pc = "relax" /\ pc' \in {"relax", "exhausted"} /\ UNCHANGED <<system, placed, edges>>
    BY <1>4 DEF Relax
  <2>2. \A i \in DOMAIN system : Covered(system[i])'
    BY <2>1 DEF Covered, FeasInv, InGraph
  <2>3. ASSUME pc' = "relax", ~changed' PROVE \A e \in DOMAIN edges \ todo' : Respected(e)'
    <3>1. PICK e \in todo :
            /\ todo' = todo \ {e}
            /\ changed' = (changed \/ potential[e[1]] + edges[e] < potential[e[2]])
            /\ potential' = [potential EXCEPT ![e[2]] = IF potential[e[1]] + edges[e] < @
                                                        THEN potential[e[1]] + edges[e] ELSE @]
      BY <1>4, <2>3 DEF Relax
    <3>2. potential \in [Roots -> Int] /\ e \in Roots \X Roots /\ edges[e] \in Int
      BY <1>a, <2>1 DEF TypeOK, Placed, InGraph
    <3>3. ~changed /\ ~(potential[e[1]] + edges[e] < potential[e[2]])
      BY <2>3, <3>1, Zenon
    <3>4. potential' = potential /\ Respected(e)
      BY <3>1, <3>2, <3>3 DEF Respected
    <3>5. \A f \in DOMAIN edges \ todo : Respected(f)
      BY <2>1, <3>3 DEF FeasInv
    <3> QED
      BY <2>1, <3>1, <3>4, <3>5 DEF Respected
  <2> QED
    BY <2>1, <2>2, <2>3 DEF FeasInv, Serving
<1>5. CASE RoundsDone
  <2>1. /\ pc = "relax" /\ todo = {} /\ ~changed /\ pc' \in {"ready", "exhausted"}
        /\ UNCHANGED <<system, placed, edges, potential>>
    BY <1>5 DEF RoundsDone, relaxation
  <2>2. \A i \in DOMAIN system : Covered(system[i])'
    BY <2>1 DEF Covered, FeasInv, InGraph
  <2>3. \A e \in DOMAIN edges : Respected(e)'
    BY <2>1 DEF Respected, FeasInv
  <2> QED
    BY <2>1, <2>2, <2>3 DEF FeasInv
<1>6. CASE EndRound
  <2>1. /\ pc = "relax" /\ UNCHANGED <<system, placed, edges, potential>>
        /\ \/ pc' = "inconsistent"
           \/ pc' = "relax" /\ todo' = DOMAIN edges
    BY <1>6 DEF EndRound
  <2>2. \A i \in DOMAIN system : Covered(system[i])'
    BY <2>1 DEF Covered, FeasInv, InGraph
  <2> QED
    BY <2>1, <2>2 DEF FeasInv, Serving
<1> QED
  BY <1>1, <1>2, <1>3, <1>4, <1>5, <1>6 DEF BoundStep

LEMMA OtherFeasible ==
  ASSUME TypeInv, FeasInv, ForestStep \/ SearchStep \/ UNCHANGED vars \/ \E p, n : Ask(p, n)
  PROVE  FeasInv'
<1>1. CASE ForestStep
  <2>1. InForest /\ pc' # "relax" /\ ~Serving' /\ (pc' = "bound" => at' = 1 /\ UNCHANGED system)
    BY <1>1 DEF ForestStep, SkipRange, StartJoin, Climb, ReachRoot, Compress, FoundPositive, JoinTooLong,
       JoinSame, JoinTrees, JoinsDone, Settle, FoundPlace, AllSettled, Returns, Walk, InForest, Serving
  <2>2. \A i \in DOMAIN system : ~(i < 1)
    BY SystemType DEF TypeInv
  <2> QED
    BY <2>1, <2>2 DEF FeasInv, InGraph, Serving
<1>2. CASE SearchStep \/ \E p, n : Ask(p, n)
  <2>1. Serving /\ Serving' /\ UNCHANGED <<system, placed, edges, potential>>
    <3>1. UNCHANGED construction => UNCHANGED <<system, placed, edges, potential>>
      BY DEF construction, relaxation
    <3>2. \A p, n, forward, reverse : Conclude(p, n, forward, reverse) => pc' = "ready"
      BY DEF Conclude, Refuse, Reply
    <3>3. \A p, n : Refuse(p, n) => pc' = "ready"
      BY DEF Refuse, Reply
    <3>4. \A p, n, result : Reply(p, n, result) => pc' = "ready"
      BY DEF Reply
    <3>5. CASE Visit
      BY <3>1, <3>3, <3>5 DEF Visit, Serving
    <3>6. CASE Pop \/ ForwardDone \/ ReverseDone
      BY <3>1, <3>2, <3>6 DEF Pop, ForwardDone, ReverseDone, Searched, Serving
    <3>7. CASE \E p, n : Ask(p, n)
      BY <3>1, <3>2, <3>3, <3>4, <3>7 DEF Ask, AskFailed, AskTooOften, AskUnknown,
       AskTooLong, AskSameTree, AskCached, AskNew, Asked, Counted, Serving
    <3> QED
      BY <1>2, <3>5, <3>6, <3>7 DEF SearchStep
  <2>2. \A i \in DOMAIN system : Covered(system[i])'
    BY <2>1 DEF Covered, FeasInv, InGraph, Serving
  <2>3. \A e \in DOMAIN edges : Respected(e)'
    BY <2>1 DEF Respected, FeasInv
  <2> QED
    BY <2>1, <2>2, <2>3 DEF FeasInv, Serving
<1>3. CASE UNCHANGED vars
  BY <1>3 DEF vars, relaxation, FeasInv, InGraph, Serving, Covered, Respected
<1> QED
  BY <1>1, <1>2, <1>3

LEMMA InitFeasible == Init => FeasInv
BY DEF Init, FeasInv, InGraph, Serving

LEMMA NextFeasible ==
  ASSUME TypeInv, FeasInv, [Next]_vars PROVE FeasInv'
BY BoundFeasible, OtherFeasible DEF Next, Work

\* A system of voltage constraints that was accepted has a solution, which the
\* potentials of its roots give: _feasible_potentials.
THEOREM AcceptedHasSolution == Spec => []AcceptedIsFeasible
<1>1. Init => TypeInv /\ FeasInv
  BY InitTypes, InitFeasible
<1>2. (TypeInv /\ FeasInv) /\ [Next]_vars => (TypeInv /\ FeasInv)'
  BY NextTypes, NextFeasible
<1>3. TypeInv /\ FeasInv => AcceptedIsFeasible
  BY RespectedSolves
<1> QED
  BY <1>1, <1>2, <1>3, PTL DEF Spec

-----------------------------------------------------------------------------
(***************************************************************************)
(* Among the solutions of the edges that are nowhere above zero there is a  *)
(* greatest one.  The rounds come down to it, and reach it at one more root *)
(* in each round.                                                          *)
(***************************************************************************)
Feasible(d) ==
  /\ d \in [Roots -> Int]
  /\ \A r \in Roots : d[r] <= 0
  /\ \A e \in DOMAIN edges : d[e[2]] <= d[e[1]] + edges[e]

Highest(D) ==
  /\ Feasible(D)
  /\ \A d \in [Roots -> Int] : Feasible(d) => \A r \in Roots : d[r] <= D[r]

\* F are roots whose potential is final, as many as there were rounds.
Reached(D, F) ==
  /\ F \subseteq Roots
  /\ F = Roots \/ round <= Cardinality(F)
  /\ \A r \in F : potential[r] = D[r]
  /\ \A e \in DOMAIN edges \ todo : e[1] \in F => potential[e[2]] <= D[e[1]] + edges[e]
  /\ F = Roots => ~changed

Approached(D) ==
  /\ \A r \in Roots : D[r] <= potential[r] /\ potential[r] <= 0
  /\ \E F \in SUBSET Roots : Reached(D, F)

RelaxInv == pc = "relax" => \A D \in [Roots -> Int] : Highest(D) => Approached(D)

\* Induction on the natural numbers, for a set of them.
LEMMA SetOfAllNaturals ==
  ASSUME NEW S \in SUBSET Nat, 0 \in S, \A k \in S : k + 1 \in S
  PROVE  S = Nat
<1> DEFINE T == Nat \ S
<1>1. SUFFICES ASSUME T # {} PROVE FALSE
  OBVIOUS
<1>2. PICK m \in T : \A k \in T : <<k, m>> \notin OpToRel(<, Nat)
  <2>1. T \subseteq Nat
    OBVIOUS
  <2> HIDE DEF T
  <2> QED
    BY <1>1, <2>1, WFMin, NatLessThanWellFounded, Zenon
<1>3. \A k \in T : ~(k < m)
  BY <1>2 DEF OpToRel
<1>4. m - 1 \notin T /\ m # 0 /\ m \in Nat /\ m \notin S
  BY <1>3
<1> QED
  BY <1>4

\* Finitely many numbers have a bound.
LEMMA HasBound ==
  ASSUME NEW D, IsFiniteSet(D), NEW f \in [D -> Int]
  PROVE  \E high \in Nat : \A x \in D : f[x] <= high
<1>1. PICK n \in Nat : ExistsSurjection(1 .. n, D)
  BY FS_NatSurjection
<1>2. PICK s \in [1 .. n -> D] : \A x \in D : \E i \in 1 .. n : s[i] = x
  BY <1>1 DEF ExistsSurjection, Surjection
<1> DEFINE K == {k \in Nat : \E high \in Nat : \A i \in 1 .. n : i <= k => f[s[i]] <= high}
<1>3. 0 \in K
  OBVIOUS
<1>4. ASSUME NEW k \in K PROVE k + 1 \in K
  <2>1. PICK high \in Nat : \A i \in 1 .. n : i <= k => f[s[i]] <= high
    OBVIOUS
  <2>2. CASE k + 1 \in 1 .. n /\ f[s[k + 1]] > high
    <3>1. f[s[k + 1]] \in Nat
      BY <1>2, <2>2
    <3>2. ASSUME NEW i \in 1 .. n, i <= k + 1 PROVE f[s[i]] <= f[s[k + 1]]
      <4>1. CASE i = k + 1
        BY <3>1, <4>1
      <4>2. CASE i <= k
        <5>1. f[s[i]] \in Int /\ f[s[i]] <= high
          BY <1>2, <2>1, <4>2
        <5> QED
          BY <2>2, <3>1, <5>1
      <4> QED
        BY <3>2, <4>1, <4>2
    <3>3. \E top \in Nat : \A i \in 1 .. n : i <= k + 1 => f[s[i]] <= top
      BY <3>1, <3>2
    <3> QED
      BY <3>3
  <2>3. CASE ~(k + 1 \in 1 .. n /\ f[s[k + 1]] > high)
    <3>1. \A i \in 1 .. n : i <= k + 1 => f[s[i]] <= high
      BY <1>2, <2>1, <2>3
    <3> QED
      BY <3>1
  <2> QED
    BY <2>2, <2>3
<1>5. n \in K
  <2>1. K \in SUBSET Nat
    OBVIOUS
  <2> HIDE DEF K
  <2> QED
    BY <1>3, <1>4, <2>1, SetOfAllNaturals
<1> QED
  BY <1>2, <1>5

\* Numbers that are at most zero have a greatest one among them.
LEMMA Largest ==
  ASSUME NEW S, S \subseteq Int, S # {}, \A k \in S : k <= 0
  PROVE  \E m \in S : \A k \in S : k <= m
<1> DEFINE T == {n \in Nat : -n \in S}
<1>1. T \subseteq Nat /\ T # {}
  <2>1. PICK k \in S : TRUE
    OBVIOUS
  <2>2. -k \in Nat /\ -(-k) = k
    BY <2>1
  <2> QED
    BY <2>1, <2>2
<1>2. PICK u \in T : \A n \in T : <<n, u>> \notin OpToRel(<, Nat)
  <2> HIDE DEF T
  <2> QED
    BY <1>1, WFMin, NatLessThanWellFounded, Zenon
<1>3. u \in Nat /\ -u \in S /\ \A n \in T : ~(n < u)
  <2>1. u \in Nat /\ -u \in S
    OBVIOUS
  <2> HIDE DEF T
  <2>2. \A n \in T : ~(n < u)
    BY <1>1, <1>2, <2>1, Zenon DEF OpToRel
  <2> QED
    BY <2>1, <2>2
<1>4. ASSUME NEW k \in S PROVE k <= -u
  <2>1. -k \in Nat /\ -(-k) = k
    OBVIOUS
  <2>2. -k \in T
    BY <1>4, <2>1
  <2> QED
    BY <1>3, <2>1, <2>2
<1> QED
  BY <1>3, <1>4

LEMMA HighestExists ==
  ASSUME TypeInv, InGraph, NEW d0, Feasible(d0)
  PROVE  \E D \in [Roots -> Int] : Highest(D)
<1> DEFINE S(r) == {d[r] : d \in {f \in [Roots -> Int] : Feasible(f)}}
           D == [r \in Roots |-> CHOOSE m \in S(r) : \A k \in S(r) : k <= m]
<1>1. ASSUME NEW r \in Roots
      PROVE  D[r] \in S(r) /\ \A k \in S(r) : k <= D[r]
  <2>1. S(r) \subseteq Int /\ \A k \in S(r) : k <= 0
    BY DEF Feasible
  <2>2. d0[r] \in S(r)
    BY DEF Feasible
  <2>3. D[r] = CHOOSE m \in S(r) : \A k \in S(r) : k <= m
    OBVIOUS
  <2> HIDE DEF S, D
  <2>4. \E m \in S(r) : \A k \in S(r) : k <= m
    BY <2>1, <2>2, Largest
  <2> QED
    BY <2>3, <2>4
<1> HIDE DEF D
<1>2. \A r \in Roots : \E d \in [Roots -> Int] : Feasible(d) /\ d[r] = D[r]
  BY <1>1
<1>3. \A d \in [Roots -> Int] : Feasible(d) => \A r \in Roots : d[r] <= D[r]
  BY <1>1
<1>4. D \in [Roots -> Int]
  <2>1. \A r \in Roots : D[r] \in Int
    BY <1>2
  <2> QED
    BY <2>1 DEF D
<1>5. \A r \in Roots : D[r] <= 0
  BY <1>2 DEF Feasible
<1>6. ASSUME NEW e \in DOMAIN edges PROVE D[e[2]] <= D[e[1]] + edges[e]
  <2>1. e[1] \in Roots /\ e[2] \in Roots /\ edges[e] \in Int
    BY DEF TypeInv, TypeOK, Placed
  <2>2. PICK d \in [Roots -> Int] : Feasible(d) /\ d[e[2]] = D[e[2]]
    BY <1>2, <2>1
  <2>3. d[e[2]] <= d[e[1]] + edges[e] /\ d[e[1]] <= D[e[1]]
    BY <1>3, <2>1, <2>2 DEF Feasible
  <2>4. d[e[1]] \in Int /\ D[e[1]] \in Int /\ d[e[2]] \in Int
    BY <1>4, <2>1, <2>2
  <2> QED
    BY <2>1, <2>2, <2>3, <2>4
<1> QED
  BY <1>3, <1>4, <1>5, <1>6 DEF Highest, Feasible

\* Nothing but an edge from F keeps the rest of the greatest solution from rising.
LEMMA Supported ==
  ASSUME TypeInv, InGraph, NEW D \in [Roots -> Int], Highest(D), NEW F \in SUBSET Roots, F # Roots,
         \A r \in Roots \ F : D[r] < 0
  PROVE  \E e \in DOMAIN edges : e[1] \in F /\ e[2] \in Roots \ F /\ D[e[2]] = D[e[1]] + edges[e]
<1> SUFFICES ASSUME \A e \in DOMAIN edges : e[1] \in F /\ e[2] \in Roots \ F => D[e[2]] # D[e[1]] + edges[e]
             PROVE  FALSE
  OBVIOUS
<1> DEFINE d == [r \in Roots |-> IF r \in F THEN D[r] ELSE D[r] + 1]
<1>1. d \in [Roots -> Int] /\ \A r \in Roots : D[r] <= d[r] /\ d[r] <= 0
  BY DEF Highest, Feasible
<1>2. ASSUME NEW e \in DOMAIN edges PROVE d[e[2]] <= d[e[1]] + edges[e]
  <2>1. e[1] \in Roots /\ e[2] \in Roots /\ edges[e] \in Int
    BY DEF TypeInv, TypeOK, Placed
  <2>2. D[e[2]] <= D[e[1]] + edges[e] /\ D[e[1]] \in Int /\ D[e[2]] \in Int
    BY <2>1 DEF Highest, Feasible
  <2>3. CASE e[1] \in F /\ e[2] \notin F
    <3>1. D[e[2]] # D[e[1]] + edges[e]
      BY <2>1, <2>3
    <3> QED
      BY <2>1, <2>2, <2>3, <3>1
  <2>4. CASE ~(e[1] \in F /\ e[2] \notin F)
    BY <2>1, <2>2, <2>4
  <2> QED
    BY <2>3, <2>4
<1>3. Feasible(d)
  BY <1>1, <1>2 DEF Feasible
<1>4. PICK r \in Roots : r \notin F
  OBVIOUS
<1>5. d[r] = D[r] + 1 /\ D[r] \in Int
  BY <1>4
<1>6. d[r] <= D[r]
  <2> HIDE DEF d
  <2> QED
    BY <1>1, <1>3 DEF Highest
<1> QED
  BY <1>5, <1>6

LEMMA RootsFinite ==
  ASSUME TypeInv, InGraph
  PROVE  /\ IsFiniteSet(Roots) /\ Cardinality(Roots) \in Nat
         /\ \A F \in SUBSET Roots : IsFiniteSet(F) /\ Cardinality(F) \in Nat /\ Cardinality(F) <= Cardinality(Roots)
                                    /\ (Cardinality(F) >= Cardinality(Roots) => F = Roots)
<1>1. IsFiniteSet(Roots)
  BY RootsAreNodes, NodeAssumption, FS_Subset
<1>2. Cardinality(Roots) \in Nat
  BY <1>1, FS_CardinalityType
<1>3. ASSUME NEW F \in SUBSET Roots
      PROVE  IsFiniteSet(F) /\ Cardinality(F) \in Nat /\ Cardinality(F) <= Cardinality(Roots)
                            /\ (Cardinality(F) >= Cardinality(Roots) => F = Roots)
  <2>1. IsFiniteSet(F) /\ Cardinality(F) <= Cardinality(Roots) /\ (Cardinality(Roots) = Cardinality(F) => Roots = F)
    BY <1>1, FS_Subset
  <2>2. Cardinality(F) \in Nat
    BY <2>1, FS_CardinalityType
  <2> QED
    BY <1>2, <2>1, <2>2
<1> QED
  BY <1>1, <1>2, <1>3

\* A root whose potential is the greatest solution there is is in place before
\* the first round.
LEMMA FirstRound ==
  ASSUME TypeInv, BoundsDone PROVE RelaxInv'
<1>1. /\ pc = "bound" /\ UNCHANGED <<placed, edges>> /\ potential' = [r \in Roots |-> 0] /\ round' = 1
      /\ changed' = FALSE /\ todo' = DOMAIN edges /\ InGraph /\ Roots' = Roots
  BY DEF BoundsDone, InGraph, Roots
<1> SUFFICES ASSUME NEW D \in [Roots -> Int], Highest(D)' PROVE Approached(D)'
  BY <1>1 DEF RelaxInv
<1>2. Highest(D)
  BY <1>1 DEF Highest, Feasible
<1>3. \A r \in Roots : D[r] <= 0 /\ D[r] \in Int
  BY <1>2 DEF Highest, Feasible
<1> DEFINE F == {r \in Roots : D[r] = 0}
<1>4. F = Roots \/ 1 <= Cardinality(F)
  <2>1. SUFFICES ASSUME F # Roots PROVE 1 <= Cardinality(F)
    OBVIOUS
  <2>2. \A r \in Roots \ F : D[r] < 0
    BY <1>3
  <2>3. F # {}
    <3> HIDE DEF F
    <3>1. F \in SUBSET Roots
      BY DEF F
    <3> QED
      BY <1>1, <1>2, <2>1, <2>2, <3>1, Supported
  <2>4. Cardinality(F) \in Nat /\ Cardinality(F) # 0
    <3>1. F \in SUBSET Roots
      OBVIOUS
    <3> HIDE DEF F
    <3> QED
      BY <1>1, <2>3, <3>1, RootsFinite, FS_EmptySet
  <2> QED
    BY <2>4
<1>5. PICK G \in SUBSET Roots : G = F
  OBVIOUS
<1>6. Reached(D, G)'
  <2>1. \A r \in G : potential'[r] = D[r]
    BY <1>1, <1>5
  <2> HIDE DEF F
  <2> QED
    BY <1>1, <1>4, <1>5, <2>1 DEF Reached
<1>7. \A r \in Roots : D[r] <= potential'[r] /\ potential'[r] <= 0
  BY <1>1, <1>3
<1> QED
  BY <1>1, <1>6, <1>7 DEF Approached

\* No edge takes a potential below the greatest solution.
LEMMA RelaxApproaches ==
  ASSUME TypeInv, RelaxInv, Relax PROVE RelaxInv'
<1>1. /\ pc = "relax" /\ InGraph /\ UNCHANGED <<placed, edges, round>> /\ Roots' = Roots
  BY DEF Relax, InGraph, Roots
<1> SUFFICES ASSUME pc' = "relax", NEW D \in [Roots -> Int], Highest(D)' PROVE Approached(D)'
  BY <1>1 DEF RelaxInv
<1>2. PICK e \in todo :
        /\ todo' = todo \ {e}
        /\ changed' = (changed \/ potential[e[1]] + edges[e] < potential[e[2]])
        /\ potential' = [potential EXCEPT ![e[2]] = IF potential[e[1]] + edges[e] < @
                                                    THEN potential[e[1]] + edges[e] ELSE @]
  BY <1>1 DEF Relax
<1>3. Highest(D) /\ Approached(D)
  BY <1>1 DEF Highest, Feasible, RelaxInv
<1>4. /\ potential \in [Roots -> Int] /\ edges \in [DOMAIN edges -> Int] /\ e \in DOMAIN edges
      /\ \A f \in DOMAIN edges : f[1] \in Roots /\ f[2] \in Roots
  BY <1>1 DEF TypeInv, TypeOK, Placed
<1>5. e[1] \in Roots /\ e[2] \in Roots /\ edges[e] \in Int
  BY <1>4
<1> DEFINE w == potential[e[1]] + edges[e]
<1>6. /\ w \in Int /\ D[e[1]] + edges[e] <= w /\ D[e[2]] <= w /\ D[e[2]] \in Int
  <2>1. D[e[2]] <= D[e[1]] + edges[e] /\ D[e[1]] <= potential[e[1]]
    BY <1>3, <1>4, <1>5 DEF Highest, Feasible, Approached
  <2>2. D[e[1]] \in Int /\ D[e[2]] \in Int /\ potential[e[1]] \in Int
    BY <1>4, <1>5
  <2> QED
    BY <1>5, <2>1, <2>2
<1>7. /\ \A r \in Roots \ {e[2]} : potential'[r] = potential[r]
      /\ potential'[e[2]] \in {potential[e[2]], w} /\ potential'[e[2]] <= potential[e[2]] /\ potential'[e[2]] <= w
  <2> HIDE DEF w
  <2>1. potential' = [potential EXCEPT ![e[2]] = IF w < potential[e[2]] THEN w ELSE potential[e[2]]]
    BY <1>2 DEF w
  <2> QED
    BY <1>4, <1>5, <1>6, <2>1
<1> HIDE DEF w
<1>8. \A r \in Roots : /\ potential'[r] \in Int /\ potential[r] \in Int /\ D[r] \in Int
                       /\ D[r] <= potential'[r] /\ potential'[r] <= potential[r] /\ potential'[r] <= 0
  BY <1>3, <1>4, <1>5, <1>6, <1>7 DEF Approached
<1>9. PICK F \in SUBSET Roots : Reached(D, F)
  BY <1>3 DEF Approached
<1>10. \A r \in F : potential'[r] = D[r]
  <2>1. \A r \in F : r \in Roots /\ potential[r] = D[r]
    BY <1>9 DEF Reached
  <2> QED
    BY <1>8, <2>1
<1>11. \A f \in DOMAIN edges \ todo' : f[1] \in F => potential'[f[2]] <= D[f[1]] + edges[f]
  <2> SUFFICES ASSUME NEW f \in DOMAIN edges \ todo', f[1] \in F
               PROVE  potential'[f[2]] <= D[f[1]] + edges[f]
    OBVIOUS
  <2>1. f[1] \in Roots /\ f[2] \in Roots /\ edges[f] \in Int
    BY <1>4
  <2>2. CASE f = e
    <3>1. potential[e[1]] = D[e[1]]
      BY <1>9, <2>2 DEF Reached
    <3> QED
      BY <1>7, <2>2, <3>1 DEF w
  <2>3. CASE f # e
    <3>1. potential[f[2]] <= D[f[1]] + edges[f]
      BY <1>2, <1>9, <2>3 DEF Reached
    <3> QED
      BY <1>8, <2>1, <3>1
  <2> QED
    BY <2>2, <2>3
<1>12. F = Roots => ~changed'
  <2> SUFFICES ASSUME F = Roots PROVE ~changed'
    OBVIOUS
  <2>1. ~changed /\ potential[e[2]] = D[e[2]]
    BY <1>5, <1>9 DEF Reached
  <2>2. ~(w < potential[e[2]])
    BY <1>6, <2>1
  <2> QED
    BY <1>2, <2>1, <2>2, Zenon DEF w
<1>13. Reached(D, F)'
  BY <1>1, <1>9, <1>10, <1>11, <1>12 DEF Reached
<1> QED
  BY <1>1, <1>8, <1>13 DEF Approached

\* A round that changes something leaves one root more in place than it found,
\* so it is not the last.
LEMMA RoundGains ==
  ASSUME TypeInv, InGraph, pc = "relax", todo = {}, changed, NEW D \in [Roots -> Int], Highest(D), Approached(D)
  PROVE  /\ round < Cardinality(Roots)
         /\ \E F \in SUBSET Roots : round + 1 <= Cardinality(F) /\ \A r \in F : potential[r] = D[r]
<1>1. PICK F \in SUBSET Roots : Reached(D, F)
  BY DEF Approached
<1>2. F # Roots /\ round <= Cardinality(F) /\ round \in Nat
  BY <1>1 DEF Reached, TypeInv, TypeOK
<1> DEFINE G == {r \in Roots : potential[r] = D[r]}
<1>3. CASE G = Roots
  <2>1. F # Roots /\ Cardinality(F) < Cardinality(Roots)
    BY <1>2, RootsFinite
  <2>2. Cardinality(F) \in Nat /\ Cardinality(Roots) \in Nat
    BY RootsFinite
  <2>3. round + 1 <= Cardinality(Roots) /\ \A r \in Roots : potential[r] = D[r]
    BY <1>2, <1>3, <2>1, <2>2
  <2> QED
    BY <1>2, <2>1, <2>2, <2>3
<1>4. CASE G # Roots
  <2>1. F \subseteq G
    BY <1>1 DEF Reached
  <2>2. \A r \in Roots \ F : D[r] <= 0 /\ D[r] \in Int
    BY DEF Highest, Feasible
  <2>3. PICK b \in Roots \ F : potential[b] = D[b]
    <3>1. CASE \E b \in Roots \ F : D[b] = 0
      <4>1. PICK b \in Roots \ F : D[b] = 0
        BY <3>1
      <4>2. potential[b] <= 0 /\ D[b] <= potential[b]
        BY DEF Approached
      <4>3. potential[b] \in Int
        BY DEF TypeInv, Placed, InGraph
      <4> QED
        BY <4>1, <4>2, <4>3
    <3>2. CASE ~\E b \in Roots \ F : D[b] = 0
      <4>1. \A r \in Roots \ F : D[r] < 0
        BY <2>2, <3>2
      <4>2. PICK e \in DOMAIN edges : e[1] \in F /\ e[2] \in Roots \ F /\ D[e[2]] = D[e[1]] + edges[e]
        BY <1>2, <4>1, Supported
      <4>3. potential[e[2]] <= D[e[2]] /\ D[e[2]] <= potential[e[2]]
        BY <1>1, <4>2 DEF Reached, Approached
      <4>4. potential[e[2]] \in Int /\ D[e[2]] \in Int
        BY <4>2 DEF TypeInv, Placed, InGraph
      <4> QED
        BY <4>2, <4>3, <4>4
    <3> QED
      BY <3>1, <3>2
  <2>4. /\ F \union {b} \in SUBSET Roots /\ Cardinality(F \union {b}) = Cardinality(F) + 1
        /\ \A r \in F \union {b} : potential[r] = D[r]
    <3>1. IsFiniteSet(F)
      BY RootsFinite
    <3> QED
      BY <1>1, <2>3, <3>1, FS_AddElement DEF Reached
  <2>5. Cardinality(F) + 1 <= Cardinality(Roots) /\ Cardinality(F) \in Nat /\ Cardinality(Roots) \in Nat
    BY <2>4, RootsFinite
  <2> QED
    BY <1>2, <2>4, <2>5
<1> QED
  BY <1>3, <1>4

LEMMA RoundsApproach ==
  ASSUME TypeInv, RelaxInv, EndRound PROVE RelaxInv'
<1>1. /\ pc = "relax" /\ InGraph /\ UNCHANGED <<placed, edges, potential>> /\ Roots' = Roots /\ changed /\ todo = {}
  BY DEF EndRound, InGraph, Roots
<1> SUFFICES ASSUME pc' = "relax", NEW D \in [Roots -> Int], Highest(D)' PROVE Approached(D)'
  BY <1>1 DEF RelaxInv
<1>2. round' = round + 1 /\ changed' = FALSE /\ todo' = DOMAIN edges
  BY DEF EndRound
<1>3. Highest(D) /\ Approached(D)
  BY <1>1 DEF Highest, Feasible, RelaxInv
<1>4. PICK F \in SUBSET Roots : round + 1 <= Cardinality(F) /\ \A r \in F : potential[r] = D[r]
  BY <1>1, <1>3, RoundGains
<1>5. Reached(D, F)'
  BY <1>1, <1>2, <1>4 DEF Reached
<1> QED
  BY <1>1, <1>3, <1>5 DEF Approached
-----------------------------------------------------------------------------
(***************************************************************************)
(* Whatever is derived from the constraints is true of all voltages that    *)
(* keep them.                                                              *)
(***************************************************************************)
TrueWalk(v) ==
  /\ pc = "climb" => v[walk.node] - v[walk.cursor] = walk.offset
  /\ pc = "compress" => /\ v[walk.node] - v[walk.root] = walk.offset
                        /\ v[walk.cursor] - v[walk.root] = walk.rest
  /\ pc \in {"climb", "compress"} /\ walk.caller = "right" =>
       v[Constraint.positive] - v[left.root] = left.offset

Agrees(v) ==
  /\ pc # "inconsistent"
  /\ \A n \in Nodes : v[n] - v[parent[n]] = weight[n]
  /\ TrueWalk(v)
  /\ \A n \in Nodes : placed[n] # None => v[n] - v[placed[n].root] = placed[n].offset
  /\ \A e \in DOMAIN edges : v[e[2]] - v[e[1]] <= edges[e]

\* A step of the forest changes nothing that comes after it.
LEMMA AgreesFrame ==
  ASSUME NEW v, Agrees(v), UNCHANGED <<placed, edges>>, pc' # "inconsistent",
         \A n \in Nodes : v[n] - v[parent'[n]] = weight'[n], TrueWalk(v)'
  PROVE  Agrees(v)'
BY DEF Agrees

LEMMA ForestAgrees ==
  ASSUME TypeInv, ForestStep, NEW v \in [Nodes -> Int], Solves(v), Agrees(v)
  PROVE  Agrees(v)'
<1>a. /\ parent \in [Nodes -> Nodes] /\ weight \in [Nodes -> Int] /\ \A n \in Nodes : v[n] - v[parent[n]] = weight[n]
      /\ \A n \in Nodes : v[n] \in Int /\ parent[n] \in Nodes /\ weight[n] \in Int
  BY DEF TypeInv, TypeOK, Agrees
<1>b. pc \in {"climb", "compress"} =>
        /\ walk.node \in Nodes /\ walk.cursor \in Nodes /\ walk.offset \in Int /\ walk.rest \in Int
        /\ pc = "compress" => walk.root \in Nodes
        /\ walk.caller = "right" => left.root \in Nodes /\ left.offset \in Int
  BY DEF TypeInv, Walking, Walks, Place
<1>1. CASE SkipRange \/ JoinsDone \/ AllSettled
  <2>1. /\ UNCHANGED <<parent, weight, placed, edges>>
        /\ pc' \in {"join", "settle", "bound"}
    BY <1>1 DEF SkipRange, JoinsDone, AllSettled, forest, afterForest
  <2> QED
    BY <1>a, <2>1, AgreesFrame DEF TrueWalk
<1>2. CASE StartJoin \/ Settle
  <2>1. /\ UNCHANGED <<parent, weight, placed, edges>> /\ pc' = "climb"
        /\ \E n \in Nodes : walk'.node = n /\ walk'.cursor = n /\ walk'.offset = 0 /\ walk'.caller # "right"
    <3>1. CASE StartJoin
      <4>1. Constraint.positive \in Nodes
        <5>1. at \in DOMAIN system
          BY <3>1, SystemType DEF StartJoin, TypeInv, TypeOK
        <5> QED
          BY <5>1, ConstraintType, EndTypes DEF TypeInv, Constraint
      <4> QED
        BY <3>1, <4>1 DEF StartJoin, Walk, forest, afterForest
    <3>2. CASE Settle
      BY <3>2 DEF Settle, Walk, forest, afterForest
    <3> QED
      BY <1>2, <3>1, <3>2
  <2>2. TrueWalk(v)'
    BY <1>a, <2>1 DEF TrueWalk
  <2> QED
    BY <1>a, <2>1, <2>2, AgreesFrame
<1>3. CASE Climb
  <2>1. /\ pc = "climb" /\ UNCHANGED <<system, at, left, parent, weight, placed, edges>>
        /\ v[walk.node] - v[walk.cursor] = walk.offset
        /\ \/ pc' = "exhausted"
           \/ pc' = "climb" /\ walk' = [walk EXCEPT !.offset = walk.offset + weight[walk.cursor], !.cursor = parent[walk.cursor]]
    BY <1>3 DEF Climb, forest, afterForest, Agrees, TrueWalk
  <2>2. TrueWalk(v)'
    <3>1. CASE pc' = "exhausted"
      BY <3>1 DEF TrueWalk
    <3>2. CASE pc' # "exhausted"
      <4>1. /\ walk'.node = walk.node /\ walk'.cursor = parent[walk.cursor] /\ walk'.caller = walk.caller
            /\ walk'.offset = walk.offset + weight[walk.cursor]
        BY <2>1, <3>2 DEF TypeInv, Walking, Walks
      <4>2. v[walk'.node] - v[walk'.cursor] = walk'.offset
        BY <1>a, <1>b, <2>1, <4>1
      <4> QED
        BY <2>1, <3>2, <4>1, <4>2 DEF TrueWalk, Agrees, Constraint
    <3> QED
      BY <3>1, <3>2
  <2> QED
    BY <1>a, <2>1, <2>2, AgreesFrame
<1>4. CASE ReachRoot
  <2>1. /\ pc = "climb" /\ pc' = "compress" /\ UNCHANGED <<system, at, left, parent, weight, placed, edges>>
        /\ v[walk.node] - v[walk.cursor] = walk.offset
        /\ walk' = [walk EXCEPT !.root = walk.cursor, !.rest = walk.offset, !.cursor = walk.node]
    BY <1>4 DEF ReachRoot, forest, afterForest, Agrees, TrueWalk
  <2>2. /\ walk'.node = walk.node /\ walk'.cursor = walk.node /\ walk'.caller = walk.caller
        /\ walk'.offset = walk.offset /\ walk'.rest = walk.offset /\ walk'.root = walk.cursor
    BY <2>1 DEF TypeInv, Walking, Walks
  <2>3. TrueWalk(v)'
    BY <2>1, <2>2 DEF TrueWalk, Agrees, Constraint
  <2> QED
    BY <1>a, <2>1, <2>3, AgreesFrame
<1>5. CASE Compress
  <2>1. /\ pc = "compress" /\ pc' = "compress" /\ UNCHANGED <<system, at, left, placed, edges>>
        /\ v[walk.node] - v[walk.root] = walk.offset /\ v[walk.cursor] - v[walk.root] = walk.rest
        /\ walk' = [walk EXCEPT !.rest = walk.rest - weight[walk.cursor], !.cursor = parent[walk.cursor]]
        /\ parent' = [parent EXCEPT ![walk.cursor] = walk.root]
        /\ weight' = [weight EXCEPT ![walk.cursor] = walk.rest]
    BY <1>5 DEF Compress, afterForest, Agrees, TrueWalk
  <2>2. /\ walk'.node = walk.node /\ walk'.cursor = parent[walk.cursor] /\ walk'.caller = walk.caller
        /\ walk'.offset = walk.offset /\ walk'.rest = walk.rest - weight[walk.cursor] /\ walk'.root = walk.root
    BY <2>1 DEF TypeInv, Walking, Walks
  <2>3. v[walk'.cursor] - v[walk'.root] = walk'.rest
    BY <1>a, <1>b, <2>1, <2>2
  <2>4. TrueWalk(v)'
    BY <2>1, <2>2, <2>3 DEF TrueWalk, Agrees, Constraint
  <2>5. \A n \in Nodes : v[n] - v[parent'[n]] = weight'[n]
    BY <1>a, <1>b, <2>1
  <2> QED
    BY <2>1, <2>4, <2>5, AgreesFrame
<1>6. CASE FoundPositive
  <2>1. /\ pc = "compress" /\ pc' = "climb" /\ walk.caller = "left" /\ UNCHANGED <<system, at, parent, weight, placed, edges>>
        /\ v[walk.node] - v[walk.root] = walk.offset /\ left'.root = walk.root /\ left'.offset = walk.offset
        /\ walk'.node = Constraint.negative /\ walk'.cursor = Constraint.negative /\ walk'.offset = 0
    BY <1>6 DEF FoundPositive, Returns, Walk, Result, forest, afterForest, Agrees, TrueWalk
  <2>2. walk.node = Constraint.positive /\ v[Constraint.negative] \in Int
    <3>1. at \in DOMAIN system /\ walk.node = Constraint.positive
      BY <2>1 DEF TypeInv, Walking
    <3> QED
      BY <3>1, ConstraintType, EndTypes DEF TypeInv, Constraint
  <2>3. TrueWalk(v)'
    BY <2>1, <2>2 DEF TrueWalk, Constraint
  <2> QED
    BY <1>a, <2>1, <2>3, AgreesFrame
<1>c. Returns("right") => /\ Constraint.lower \in Int /\ Delta \in Int /\ Delta = v[left.root] - v[walk.root]
                          /\ left.root \in Nodes /\ walk.root \in Nodes
  <2> SUFFICES ASSUME Returns("right") PROVE /\ Constraint.lower \in Int /\ Delta \in Int
                                             /\ Delta = v[left.root] - v[walk.root]
                                             /\ left.root \in Nodes /\ walk.root \in Nodes
    OBVIOUS
  <2>1. /\ pc = "compress" /\ at \in DOMAIN system /\ IsPoint(Constraint) /\ walk.node = Constraint.negative
        /\ walk.caller = "right"
    BY DEF Returns, TypeInv, Walking
  <2>2. /\ Constraint \in Constraints /\ Keeps(v, Constraint)
    BY <2>1, ConstraintType DEF TypeInv, Constraint, Solves
  <2>3. /\ Constraint.lower \in Int /\ Constraint.upper = Constraint.lower
        /\ Constraint.positive \in Nodes /\ Constraint.negative \in Nodes
    BY <2>1, <2>2, EndTypes DEF IsPoint
  <2>4. Constraint.lower = v[Constraint.positive] - v[Constraint.negative]
    <3>1. /\ Constraint.lower <= v[Constraint.positive] - v[Constraint.negative]
          /\ v[Constraint.positive] - v[Constraint.negative] <= Constraint.lower
      <4>1. Allows(Constraint, v[Constraint.positive] - v[Constraint.negative])
        BY <2>2 DEF Keeps
      <4>2. Constraint.lower # None /\ Constraint.upper # None
        BY <2>1 DEF IsPoint
      <4> QED
        BY <2>3, <4>1, <4>2 DEF Allows
    <3>2. v[Constraint.positive] \in Int /\ v[Constraint.negative] \in Int
      BY <1>a, <2>3
    <3> QED
      BY <2>3, <3>1, <3>2
  <2>5. /\ v[Constraint.positive] - v[left.root] = left.offset
        /\ v[Constraint.negative] - v[walk.root] = walk.offset
    BY <2>1 DEF Agrees, TrueWalk
  <2> QED
    BY <1>a, <1>b, <2>1, <2>3, <2>4, <2>5 DEF Delta
<1>7. CASE JoinTooLong
  <2>1. pc' = "exhausted" /\ UNCHANGED <<parent, weight, placed, edges>>
    BY <1>7 DEF JoinTooLong, forest, afterForest
  <2> QED
    BY <1>a, <2>1, AgreesFrame DEF TrueWalk
<1>8. CASE JoinSame
  <2>1. Delta = 0 /\ UNCHANGED <<parent, weight, placed, edges>> /\ pc' = "join"
    <3>1. Returns("right") /\ left.root = walk.root /\ UNCHANGED <<parent, weight, placed, edges>>
          /\ pc' = IF Delta = 0 THEN "join" ELSE "inconsistent"
      BY <1>8 DEF JoinSame, forest, afterForest
    <3>2. Delta = 0
      BY <1>a, <1>c, <3>1
    <3> QED
      BY <3>1, <3>2
  <2> QED
    BY <1>a, <2>1, AgreesFrame DEF TrueWalk
<1>9. CASE JoinTrees
  <2>1. /\ Returns("right") /\ left.root # walk.root /\ pc' = "join" /\ UNCHANGED <<placed, edges>>
        /\ Hung(walk.root, left.root) \/ Hung(left.root, walk.root)
    BY <1>9 DEF JoinTrees, afterForest
  <2>2. \A n \in Nodes : v[n] - v[parent'[n]] = weight'[n]
    <3>1. CASE Hung(walk.root, left.root)
      BY <1>a, <1>c, <2>1, <3>1 DEF Hung
    <3>2. CASE Hung(left.root, walk.root)
      BY <1>a, <1>c, <2>1, <3>2 DEF Hung
    <3> QED
      BY <2>1, <3>1, <3>2
  <2> QED
    BY <2>1, <2>2, AgreesFrame DEF TrueWalk
<1>10. CASE FoundPlace
  <2>1. /\ pc = "compress" /\ pc' = "settle" /\ UNCHANGED <<parent, weight, edges>>
        /\ placed' = [placed EXCEPT ![walk.node] = Result]
        /\ v[walk.node] - v[walk.root] = walk.offset
    BY <1>10 DEF FoundPlace, Returns, forest, Agrees, TrueWalk
  <2>2. \A n \in Nodes : placed'[n] # None => v[n] - v[placed'[n].root] = placed'[n].offset
    <3>1. Result.root = walk.root /\ Result.offset = walk.offset
      BY DEF Result
    <3> QED
      BY <1>b, <2>1, <3>1 DEF TypeInv, Placed, Agrees
  <2> QED
    BY <1>a, <2>1, <2>2 DEF Agrees, TrueWalk
<1> QED
  BY <1>1, <1>2, <1>3, <1>4, <1>5, <1>6, <1>7, <1>8, <1>9, <1>10 DEF ForestStep

LEMMA GraphAgrees ==
  ASSUME TypeInv, RelaxInv, BoundStep, NEW v \in [Nodes -> Int], Solves(v), Agrees(v)
  PROVE  Agrees(v)'
<1>a. /\ pc \in {"bound", "relax"} /\ InGraph /\ UNCHANGED <<system, parent, weight, placed>>
  <2>1. CASE CheckBounds \/ AddEdges
    BY <2>1 DEF CheckBounds, AddEdges, forest, InGraph, afterForest
  <2>2. CASE BoundsDone \/ Relax \/ RoundsDone \/ EndRound
    BY <2>2 DEF BoundsDone, Relax, RoundsDone, EndRound, forest, InGraph
  <2> QED
    BY <2>1, <2>2 DEF BoundStep
<1>b. \A n \in Nodes : v[n] \in Int
  OBVIOUS
<1>c. /\ \A n \in Nodes : v[n] - v[placed[n].root] = placed[n].offset
      /\ \A n \in Nodes : placed[n].root \in Nodes /\ placed[n].offset \in Int
      /\ \A e \in DOMAIN edges : v[e[2]] - v[e[1]] <= edges[e] /\ edges[e] \in Int
      /\ \A n \in Nodes : v[n] - v[parent[n]] = weight[n]
  <2>1. \A n \in Nodes : placed[n] # None
    BY <1>a DEF TypeInv, Placed
  <2> QED
    BY <1>a, <2>1, RootsAreNodes DEF Agrees, TypeInv, TypeOK
<1>d. ASSUME NEW c \in Constraints, Keeps(v, c)
      PROVE  /\ v[placed[c.positive].root] \in Int /\ v[placed[c.negative].root] \in Int
             /\ placed[c.positive].offset \in Int /\ placed[c.negative].offset \in Int
             /\ Allows(c, v[placed[c.positive].root] - v[placed[c.negative].root]
                            + (placed[c.positive].offset - placed[c.negative].offset))
  <2>1. c.positive \in Nodes /\ c.negative \in Nodes
    BY EndTypes
  <2>2. v[c.positive] - v[c.negative] = v[placed[c.positive].root] - v[placed[c.negative].root]
                                        + (placed[c.positive].offset - placed[c.negative].offset)
    BY <1>b, <1>c, <2>1
  <2> QED
    BY <1>b, <1>c, <1>d, <2>1, <2>2 DEF Keeps
<1>e. (pc \in {"bound"} /\ at <= Len(system)) => Constraint \in Constraints /\ Keeps(v, Constraint)
  <2> SUFFICES ASSUME at <= Len(system) PROVE Constraint \in Constraints /\ Keeps(v, Constraint)
    OBVIOUS
  <2>1. at \in DOMAIN system
    BY SystemType DEF TypeInv, TypeOK
  <2> QED
    BY <2>1, ConstraintType DEF TypeInv, Constraint, Solves
<1>f. ASSUME UNCHANGED edges, pc' # "inconsistent", pc' \notin {"climb", "compress"} PROVE Agrees(v)'
  BY <1>a, <1>f DEF Agrees, TrueWalk
<1>1. CASE CheckBounds
  <2> DEFINE p == placed[Constraint.positive]
             n == placed[Constraint.negative]
  <2>1. /\ Constraint \in Constraints /\ Keeps(v, Constraint) /\ p.root = n.root /\ UNCHANGED edges
        /\ pc' = IF Allows(Constraint, p.offset - n.offset) THEN "bound" ELSE "inconsistent"
    BY <1>1, <1>e DEF CheckBounds, afterForest
  <2>2. Allows(Constraint, p.offset - n.offset)
    <3>1. v[p.root] - v[n.root] + (p.offset - n.offset) = p.offset - n.offset
      BY <1>d, <2>1
    <3> QED
      BY <1>d, <2>1, <3>1
  <2> QED
    BY <1>f, <2>1, <2>2
<1>2. CASE AddEdges
  <2> DEFINE c == Constraint
             p == placed[c.positive]
             n == placed[c.negative]
             new == NewEdges(c, p, n)
  <2>1. /\ c \in Constraints /\ Keeps(v, c) /\ p.root # n.root
        /\ edges' = [e \in DOMAIN edges \union DOMAIN new |->
                        IF e \in DOMAIN new /\ (e \in DOMAIN edges => new[e] < edges[e])
                        THEN new[e] ELSE edges[e]]
        /\ pc' \notin {"inconsistent", "climb", "compress"}
    BY <1>2, <1>e DEF AddEdges
  <2>2. /\ v[p.root] \in Int /\ v[n.root] \in Int /\ p.offset \in Int /\ n.offset \in Int
        /\ Allows(c, v[p.root] - v[n.root] + (p.offset - n.offset))
        /\ c.lower # None => c.lower \in Int
        /\ c.upper # None => c.upper \in Int
    BY <1>d, <2>1, EndTypes
  <2> DEFINE up == <<n.root, p.root>>
             down == <<p.root, n.root>>
  <2>3. \A e \in DOMAIN new :
          \/ e = up /\ c.upper # None /\ new[e] = c.upper + n.offset - p.offset
          \/ e = down /\ c.lower # None /\ new[e] = p.offset - n.offset - c.lower
    <3> HIDE DEF c, p, n
    <3>1. up # down /\ up[2] = p.root /\ down[2] # p.root
      BY <2>1
    <3> HIDE DEF up, down
    <3>2. new = [e \in {f \in {up, down} : IF f[2] = p.root THEN c.upper # None ELSE c.lower # None} |->
                   IF e[2] = p.root THEN c.upper + n.offset - p.offset ELSE p.offset - n.offset - c.lower]
      BY DEF NewEdges, up, down
    <3> QED
      BY <3>1, <3>2
  <2> HIDE DEF c, p, n, new
  <2>4. /\ c.upper # None => v[p.root] - v[n.root] <= c.upper + n.offset - p.offset
        /\ c.lower # None => v[n.root] - v[p.root] <= p.offset - n.offset - c.lower
    BY <2>2 DEF Allows
  <2>5. \A e \in DOMAIN new : v[e[2]] - v[e[1]] <= new[e]
    BY <2>3, <2>4
  <2>6. \A e \in DOMAIN edges' : v[e[2]] - v[e[1]] <= edges'[e]
    BY <1>c, <2>1, <2>5
  <2> QED
    BY <1>a, <2>1, <2>6 DEF Agrees, TrueWalk
<1>3. CASE BoundsDone \/ Relax \/ RoundsDone
  <2>1. UNCHANGED edges /\ pc' \notin {"inconsistent", "climb", "compress"}
    <3>1. CASE BoundsDone
      BY <3>1 DEF BoundsDone
    <3>2. CASE Relax
      BY <3>2 DEF Relax
    <3>3. CASE RoundsDone
      BY <3>3 DEF RoundsDone
    <3> QED
      BY <1>3, <3>1, <3>2, <3>3
  <2> QED
    BY <1>f, <2>1
<1>4. CASE EndRound
  <2>1. /\ pc = "relax" /\ todo = {} /\ changed /\ UNCHANGED edges
        /\ pc' = "inconsistent" => round >= Cardinality(Roots)
        /\ pc' \in {"relax", "inconsistent"}
    BY <1>4 DEF EndRound
  <2>0. PICK high \in Nat : \A n \in Nodes : v[n] <= high
    BY NodeAssumption, HasBound
  <2> DEFINE d == [r \in Roots |-> v[r] - high]
  <2>2. Feasible(d)
    <3>1. \A r \in Roots : d[r] \in Int /\ d[r] <= 0 /\ d[r] = v[r] - high /\ v[r] \in Int
      BY <1>a, <1>b, <2>0, RootsAreNodes
    <3>2. ASSUME NEW e \in DOMAIN edges PROVE d[e[2]] <= d[e[1]] + edges[e]
      <4>1. e[1] \in Roots /\ e[2] \in Roots
        BY <1>a DEF TypeInv, Placed
      <4> HIDE DEF d
      <4> QED
        BY <1>c, <3>1, <4>1
    <3>3. d \in [Roots -> Int]
      BY <3>1
    <3> HIDE DEF d
    <3> QED
      BY <3>1, <3>2, <3>3 DEF Feasible
  <2>3. PICK D \in [Roots -> Int] : Highest(D)
    <3> HIDE DEF d
    <3> QED
      BY <1>a, <2>2, HighestExists
  <2>4. Approached(D)
    BY <2>1, <2>3 DEF RelaxInv
  <2>5. round < Cardinality(Roots) /\ round \in Nat /\ Cardinality(Roots) \in Nat
    BY <1>a, <2>1, <2>3, <2>4, RoundGains, RootsFinite DEF TypeInv, TypeOK
  <2> QED
    BY <1>f, <2>1, <2>5
<1> QED
  BY <1>1, <1>2, <1>3, <1>4 DEF BoundStep

TruthInv == RelaxInv /\ \A v \in [Nodes -> Int] : Solves(v) => Agrees(v)

LEMMA InitTruth == Init => TruthInv
<1> SUFFICES ASSUME Init PROVE RelaxInv /\ \A v \in [Nodes -> Int] : Agrees(v)
  BY DEF TruthInv
<1>1. RelaxInv
  BY DEF Init, RelaxInv
<1>2. ASSUME NEW v \in [Nodes -> Int] PROVE Agrees(v)
  <2>1. \A n \in Nodes : v[n] - v[n] = 0
    OBVIOUS
  <2>2. \A n \in Nodes : v[n] - v[parent[n]] = weight[n]
    BY <2>1 DEF Init
  <2>3. TrueWalk(v)
    BY DEF Init, TrueWalk
  <2>4. /\ pc # "inconsistent" /\ \A n \in Nodes : placed[n] = None
        /\ DOMAIN edges = {}
    BY DEF Init
  <2> QED
    BY <2>2, <2>3, <2>4 DEF Agrees
<1> QED
  BY <1>1, <1>2

LEMMA SystemKept ==
  ASSUME TypeInv, [Next]_vars PROVE UNCHANGED system
<1>1. CASE ForestStep
  BY <1>1 DEF ForestStep, SkipRange, StartJoin, Climb, ReachRoot, Compress, FoundPositive, JoinTooLong,
     JoinSame, JoinTrees, JoinsDone, Settle, FoundPlace, AllSettled
<1>2. CASE BoundStep
  BY <1>2 DEF BoundStep, CheckBounds, AddEdges, BoundsDone, Relax, RoundsDone, EndRound
<1>3. CASE SearchStep
  BY <1>3 DEF SearchStep, Pop, Visit, ForwardDone, ReverseDone, construction
<1>4. ASSUME NEW p, NEW n, Ask(p, n) PROVE UNCHANGED system
  BY <1>4 DEF Ask, AskFailed, AskTooOften, AskUnknown, AskTooLong, AskSameTree, AskCached, AskNew, construction
<1>5. CASE UNCHANGED vars
  BY <1>5 DEF vars
<1> QED
  BY <1>1, <1>2, <1>3, <1>4, <1>5 DEF Next, Work

\* Queries keep what was constructed.
LEMMA QueryKeepsGraph ==
  ASSUME SearchStep \/ \E p, n : Ask(p, n)
  PROVE  /\ UNCHANGED construction
         /\ pc' \in {"ready", "search"}
<1>1. CASE SearchStep
  <2>1. CASE Pop \/ ForwardDone
    BY <2>1 DEF Pop, ForwardDone, Searched
  <2>2. CASE Visit
    BY <2>2 DEF Visit, Refuse, Reply
  <2>3. CASE ReverseDone
    BY <2>3 DEF ReverseDone, Conclude, Refuse, Reply
  <2> QED
    BY <1>1, <2>1, <2>2, <2>3 DEF SearchStep
<1>2. ASSUME NEW p, NEW n, Ask(p, n) PROVE UNCHANGED construction /\ pc' \in {"ready", "search"}
  <2>1. CASE AskFailed(p, n) \/ AskTooOften(p, n)
    BY <2>1 DEF AskFailed, AskTooOften, Refuse, Reply
  <2>2. CASE AskUnknown(p, n) \/ AskTooLong(p, n) \/ AskSameTree(p, n)
    BY <2>2 DEF AskUnknown, AskTooLong, AskSameTree, Reply
  <2>3. CASE AskCached(p, n)
    BY <2>3 DEF AskCached, Conclude, Refuse, Reply
  <2>4. CASE AskNew(p, n)
    BY <2>4 DEF AskNew
  <2> QED
    BY <1>2, <2>1, <2>2, <2>3, <2>4 DEF Ask
<1> QED
  BY <1>1, <1>2

LEMMA NextTruth ==
  ASSUME TypeInv, TruthInv, [Next]_vars PROVE TruthInv'
<1>1. UNCHANGED system
  BY SystemKept
<1>2. RelaxInv
  BY DEF TruthInv
<1>3. RelaxInv'
  <2>1. CASE BoundsDone
    BY <2>1, FirstRound
  <2>2. CASE Relax
    BY <1>2, <2>2, RelaxApproaches
  <2>3. CASE EndRound
    BY <1>2, <2>3, RoundsApproach
  <2>4. CASE CheckBounds \/ AddEdges \/ RoundsDone
    BY <2>4 DEF CheckBounds, AddEdges, RoundsDone, RelaxInv
  <2>5. CASE ForestStep
    <3>1. pc' # "relax"
      BY <2>5 DEF ForestStep, SkipRange, StartJoin, Climb, ReachRoot, Compress, FoundPositive, JoinTooLong,
         JoinSame, JoinTrees, JoinsDone, Settle, FoundPlace, AllSettled, Returns, Walk
    <3> QED
      BY <3>1 DEF RelaxInv
  <2>6. CASE SearchStep \/ \E p, n : Ask(p, n)
    BY <2>6, QueryKeepsGraph DEF RelaxInv
  <2>7. CASE UNCHANGED vars
    <3>1. UNCHANGED <<pc, edges, potential, round, changed, todo>> /\ Roots' = Roots
      BY <2>7 DEF vars, relaxation, Roots
    <3>2. ASSUME NEW D PROVE (Highest(D)' <=> Highest(D)) /\ (Approached(D)' <=> Approached(D))
      BY <3>1 DEF Highest, Feasible, Approached, Reached
    <3> QED
      BY <1>2, <3>1, <3>2 DEF RelaxInv
  <2> QED
    BY <2>1, <2>2, <2>3, <2>4, <2>5, <2>6, <2>7 DEF Next, Work, BoundStep
<1>4. ASSUME NEW v \in [Nodes -> Int], Solves(v)' PROVE Agrees(v)'
  <2>1. Solves(v) /\ Agrees(v)
    BY <1>1, <1>4 DEF Solves, TruthInv
  <2>3. CASE ForestStep
    BY <2>1, <2>3, ForestAgrees
  <2>4. CASE BoundStep
    BY <1>2, <2>1, <2>4, GraphAgrees
  <2>5. CASE SearchStep \/ \E p, n : Ask(p, n)
    BY <2>1, <2>5, QueryKeepsGraph DEF construction, forest, Agrees, TrueWalk
  <2>6. CASE UNCHANGED vars
    BY <2>1, <2>6 DEF vars, forest, find, Agrees, TrueWalk, Constraint
  <2> QED
    BY <2>3, <2>4, <2>5, <2>6 DEF Next, Work
<1> QED
  BY <1>3, <1>4 DEF TruthInv

\* InconsistentVoltages is raised only when no voltages keep the constraints,
\* whether joining trees, checking bounds or the last round finds out:
\* VoltageSystem.
THEOREM ConflictsAreReal == Spec => []ConflictIsReal
<1>1. Init => TypeInv /\ TruthInv
  BY InitTypes, InitTruth
<1>2. (TypeInv /\ TruthInv) /\ [Next]_vars => (TypeInv /\ TruthInv)'
  BY NextTypes, NextTruth
<1>3. TypeInv /\ TruthInv => ConflictIsReal
  BY LimitAssumption DEF TruthInv, Agrees, ConflictIsReal, Volts
<1> QED
  BY <1>1, <1>2, <1>3, PTL DEF Spec

-----------------------------------------------------------------------------
(***************************************************************************)
(* A distance is at least the difference of the two roots, whatever path    *)
(* it was found on.                                                        *)
(***************************************************************************)
Level(v, r) == v[r] - potential[r]
Gap(v, ahead, s, r) == IF ahead THEN Level(v, r) - Level(v, s) ELSE Level(v, s) - Level(v, r)
Bounded(v, ahead, s, distance) == \A r \in DOMAIN distance : Gap(v, ahead, s, r) <= distance[r]

Ahead == search.forward = None
Source == placed[search.negative].root

TrueCache(v) ==
  cache # None => Bounded(v, TRUE, cache.root, cache.forward) /\ Bounded(v, FALSE, cache.root, cache.reverse)

TrueSearch(v) ==
  pc = "search" =>
    /\ ~Ahead => Bounded(v, TRUE, Source, search.forward)
    /\ Bounded(v, Ahead, Source, search.distance)
    /\ \A item \in search.queue : Gap(v, Ahead, Source, item[2]) <= item[1]
    /\ \A e \in todo : Gap(v, Ahead, Source, Near(e)) <= search.from

TrueAnswer(v) == Answered => Allows(answer.result, v[answer.positive] - v[answer.negative])

Informs(v) == TrueCache(v) /\ TrueSearch(v) /\ TrueAnswer(v)

AnswerInv ==
  /\ pc = "ready" => todo = {}
  /\ \A v \in [Nodes -> Int] : Solves(v) => Informs(v)

\* What is known of voltages and potentials once there are queries.
LEMMA LevelType ==
  ASSUME TypeInv, Serving, NEW v \in [Nodes -> Int]
  PROVE  /\ \A r \in Roots : Level(v, r) \in Int
         /\ \A r, s \in Roots : \A ahead : Gap(v, ahead, s, r) \in Int
<1>1. InGraph /\ pc # "bound"
  BY DEF Serving, InGraph
<1>2. \A r \in Roots : v[r] \in Int /\ potential[r] \in Int
  BY <1>1, RootsAreNodes DEF TypeInv, Placed
<1>3. \A r \in Roots : Level(v, r) \in Int
  BY <1>2 DEF Level
<1> QED
  BY <1>3 DEF Gap

\* An edge leads no further than it is long.
LEMMA EdgeGap ==
  ASSUME TypeInv, Serving, NEW v \in [Nodes -> Int], Agrees(v), NEW s \in Roots, NEW e \in DOMAIN edges
  PROVE  /\ Gap(v, Ahead, s, Other(e)) <= Gap(v, Ahead, s, Near(e)) + Reduced(e)
         /\ Reduced(e) \in Int /\ Other(e) \in Roots /\ Near(e) \in Roots
<1>1. InGraph /\ pc # "bound"
  BY DEF Serving, InGraph
<1>2. e[1] \in Roots /\ e[2] \in Roots /\ edges[e] \in Int
  BY <1>1 DEF TypeInv, TypeOK, Placed
<1>3. /\ v[e[1]] \in Int /\ v[e[2]] \in Int /\ potential[e[1]] \in Int /\ potential[e[2]] \in Int
      /\ v[s] \in Int /\ potential[s] \in Int
  BY <1>1, <1>2, RootsAreNodes DEF TypeInv, Placed
<1>4. v[e[2]] - v[e[1]] <= edges[e]
  BY DEF Agrees
<1>5. Reduced(e) \in Int /\ Other(e) \in Roots /\ Near(e) \in Roots
  BY <1>2, <1>3 DEF Reduced, Other, Near
<1>6. CASE Ahead
  <2>1. Other(e) = e[2] /\ Near(e) = e[1]
    BY <1>6 DEF Other, Near, Ahead
  <2> QED
    BY <1>2, <1>3, <1>4, <1>5, <1>6, <2>1 DEF Gap, Level, Reduced
<1>7. CASE ~Ahead
  <2>1. Other(e) = e[1] /\ Near(e) = e[2]
    BY <1>7 DEF Other, Near, Ahead
  <2> QED
    BY <1>2, <1>3, <1>4, <1>5, <1>7, <2>1 DEF Gap, Level, Reduced
<1> QED
  BY <1>6, <1>7

\* Bounds from distances hold for the nodes of the query.
LEMMA IntervalHolds ==
  ASSUME TypeInv, Serving, NEW v \in [Nodes -> Int], Agrees(v), NEW p \in Nodes, NEW n \in Nodes,
         NEW forward \in Dists, NEW reverse \in Dists,
         Bounded(v, TRUE, placed[n].root, forward), Bounded(v, FALSE, placed[n].root, reverse)
  PROVE  Allows(Interval(p, n, forward, reverse), v[p] - v[n])
<1> DEFINE r == placed[p].root
           s == placed[n].root
           base == potential[r] - potential[s] + Offset(p, n)
<1>1. InGraph /\ pc # "bound"
  BY DEF Serving, InGraph
<1>2. r \in Roots /\ s \in Roots /\ placed[p].offset \in Int /\ placed[n].offset \in Int
  BY <1>1, RootsAreNodes
<1>3. /\ v[p] \in Int /\ v[n] \in Int /\ v[r] \in Int /\ v[s] \in Int
      /\ potential[r] \in Int /\ potential[s] \in Int
  BY <1>1, <1>2, RootsAreNodes DEF TypeInv, Placed
<1>4. v[p] - v[r] = placed[p].offset /\ v[n] - v[s] = placed[n].offset
  <2>1. placed[p] # None /\ placed[n] # None
    BY <1>1 DEF TypeInv, Placed
  <2> QED
    BY <2>1 DEF Agrees
<1>5. Offset(p, n) = placed[p].offset - placed[n].offset
  BY DEF Offset
<1> HIDE DEF r, s
<1> DEFINE g == Gap(v, TRUE, s, r)
           h == Gap(v, FALSE, s, r)
           difference == v[p] - v[n]
<1>6. difference = base + g /\ difference = base - h /\ base \in Int
  <2> DEFINE a == v[r]
             b == v[s]
             c == potential[r]
             d == potential[s]
             x == placed[p].offset
             y == placed[n].offset
  <2>1. a \in Int /\ b \in Int /\ c \in Int /\ d \in Int /\ x \in Int /\ y \in Int
    BY <1>2, <1>3
  <2>2. g = (a - c) - (b - d) /\ h = (b - d) - (a - c)
    BY DEF Gap, Level
  <2>3. v[p] \in Int /\ v[n] \in Int /\ v[p] - a = x /\ v[n] - b = y /\ base = c - d + (x - y)
    BY <1>3, <1>4, <1>5
  <2> HIDE DEF a, b, c, d, x, y, base, g, h
  <2> QED
    BY <2>1, <2>2, <2>3, SMTT(30)
<1>7. g \in Int /\ h \in Int
  BY <1>2, LevelType
<1>8. /\ r \in DOMAIN forward => g <= forward[r] /\ forward[r] \in Int
      /\ r \in DOMAIN reverse => h <= reverse[r] /\ reverse[r] \in Int
  <2>1. /\ r \in DOMAIN forward => forward[r] \in Int
        /\ r \in DOMAIN reverse => reverse[r] \in Int
    BY DEF Dists
  <2>2. /\ r \in DOMAIN forward => g <= forward[r]
        /\ r \in DOMAIN reverse => h <= reverse[r]
    BY DEF Bounded, s
  <2> QED
    BY <2>1, <2>2
<1> DEFINE i == Interval(p, n, forward, reverse)
<1>9. /\ i.lower = IF r \in DOMAIN reverse THEN base - reverse[r] ELSE None
      /\ i.upper = IF r \in DOMAIN forward THEN base + forward[r] ELSE None
  BY DEF Interval, r, s
<1> HIDE DEF base, g, h, i, difference
<1>10. i.lower # None => i.lower <= difference
  BY <1>6, <1>7, <1>8, <1>9
<1>11. i.upper # None => difference <= i.upper
  BY <1>6, <1>7, <1>8, <1>9
<1> QED
  BY <1>10, <1>11 DEF Allows, i, difference

LEMMA ReplyHolds ==
  ASSUME UNCHANGED construction, NEW v, NEW p, NEW n, NEW result, Reply(p, n, result),
         result \notin {Exceeded, Unknown} => Allows(result, v[p] - v[n])
  PROVE  TrueAnswer(v)' /\ TrueSearch(v)' /\ todo' = {}
<1>1. pc' = "ready" /\ todo' = {} /\ answer' = [positive |-> p, negative |-> n, result |-> result]
  BY DEF Reply
<1>2. answer'.result = result /\ answer'.positive = p /\ answer'.negative = n
  BY <1>1
<1> QED
  BY <1>1, <1>2 DEF TrueAnswer, TrueSearch, Answered, Allows

LEMMA ConcludeHolds ==
  ASSUME TypeInv, Serving, UNCHANGED construction, NEW v \in [Nodes -> Int], Agrees(v),
         NEW p \in Nodes, NEW n \in Nodes, NEW forward \in Dists, NEW reverse \in Dists,
         Bounded(v, TRUE, placed[n].root, forward), Bounded(v, FALSE, placed[n].root, reverse),
         Conclude(p, n, forward, reverse)
  PROVE  TrueAnswer(v)' /\ TrueSearch(v)' /\ todo' = {}
<1>1. CASE Reply(p, n, Interval(p, n, forward, reverse))
  BY <1>1, IntervalHolds, ReplyHolds
<1>2. CASE Refuse(p, n)
  BY <1>2, ReplyHolds DEF Refuse
<1> QED
  BY <1>1, <1>2 DEF Conclude

\* The cache stays true as long as it stays.
LEMMA CacheHolds ==
  ASSUME UNCHANGED construction, NEW v, TrueCache(v), UNCHANGED cache
  PROVE  TrueCache(v)'
BY DEF construction, relaxation, TrueCache, Bounded, Gap, Level

\* A search has only to show that its own bounds are true.
LEMMA SourceHolds ==
  ASSUME TypeInv, Serving, UNCHANGED construction, NEW v \in [Nodes -> Int], NEW p, NEW n \in Nodes, NEW forward,
         Distances(p, n, forward), forward # None => Bounded(v, TRUE, placed[n].root, forward), todo' = {}
  PROVE  TrueSearch(v)'
<1>1. /\ UNCHANGED <<placed, potential>>
      /\ search'.negative = n /\ search'.forward = forward
      /\ search'.distance = [r \in {placed[n].root} |-> 0] /\ search'.queue = {<<0, placed[n].root>>}
  BY DEF Distances, construction, relaxation
<1>2. \A ahead : Gap(v, ahead, placed[n].root, placed[n].root) = 0
  <2>1. Level(v, placed[n].root) \in Int
    BY LevelType, RootsAreNodes DEF Serving, InGraph
  <2> QED
    BY <2>1 DEF Gap
<1>3. \A ahead, s, r : Gap(v, ahead, s, r)' = Gap(v, ahead, s, r)
  BY <1>1 DEF Gap, Level
<1>4. Source' = placed[n].root /\ Ahead' = (forward = None)
  BY <1>1 DEF Source, Ahead
<1>5. ~Ahead' => \A r \in DOMAIN search'.forward : Gap(v, TRUE, Source, r)' <= search'.forward[r]
  BY <1>1, <1>4 DEF Bounded, Gap, Level
<1>6. \A r \in DOMAIN search'.distance : Gap(v, Ahead, Source, r)' <= search'.distance[r]
  BY <1>1, <1>2, <1>4 DEF Gap, Level
<1>7. \A item \in search'.queue : Gap(v, Ahead, Source, item[2])' <= item[1]
  BY <1>1, <1>2, <1>4 DEF Gap, Level
<1> QED
  BY <1>5, <1>6, <1>7 DEF TrueSearch, Bounded

\* Gaps are between nodes and do not change in a query.
LEMMA GapKept ==
  ASSUME UNCHANGED construction, NEW v
  PROVE  \A ahead, r, s : Gap(v, ahead, s, r)' = Gap(v, ahead, s, r)
BY DEF construction, relaxation, Gap, Level

LEMMA PopHolds ==
  ASSUME TypeInv, Pop, NEW v \in [Nodes -> Int], TrueSearch(v) PROVE TrueSearch(v)'
<1>1. pc = "search" /\ search \in Searches /\ UNCHANGED <<construction, pc>> /\ UNCHANGED <<placed, potential, edges>>
  BY DEF Pop, TypeInv, Asking, construction, relaxation
<1>2. PICK item \in search.queue :
        /\ search' = [search EXCEPT !.queue = search.queue \ {item}, !.from = item[1]]
        /\ \A e \in todo' : Near(e) = item[2]
  BY DEF Pop
<1>3. /\ search'.queue \subseteq search.queue /\ search'.from = item[1] /\ search'.distance = search.distance
      /\ search'.forward = search.forward /\ search'.negative = search.negative
  BY <1>1, <1>2 DEF Searches
<1>4. Ahead' = Ahead /\ Source' = Source /\ \A e : Near(e)' = Near(e)
  BY <1>1, <1>3 DEF Ahead, Source, Near
<1>5. \A ahead, r, s : Gap(v, ahead, s, r)' = Gap(v, ahead, s, r)
  BY <1>1, GapKept
<1>6. /\ ~Ahead => \A r \in DOMAIN search.forward : Gap(v, TRUE, Source, r) <= search.forward[r]
      /\ \A r \in DOMAIN search.distance : Gap(v, Ahead, Source, r) <= search.distance[r]
      /\ \A i \in search.queue : Gap(v, Ahead, Source, i[2]) <= i[1]
  BY <1>1 DEF TrueSearch, Bounded
<1>7. ~Ahead' => \A r \in DOMAIN search'.forward : Gap(v, TRUE, Source, r)' <= search'.forward[r]
  BY <1>1, <1>3, <1>4, <1>6 DEF Gap, Level
<1>8. \A r \in DOMAIN search'.distance : Gap(v, Ahead, Source, r)' <= search'.distance[r]
  BY <1>1, <1>3, <1>4, <1>6 DEF Gap, Level
<1>9. \A i \in search'.queue : Gap(v, Ahead, Source, i[2])' <= i[1]
  BY <1>1, <1>3, <1>4, <1>6 DEF Gap, Level
<1>10. \A e \in todo' : Gap(v, Ahead, Source, Near(e))' <= search'.from
  BY <1>1, <1>2, <1>3, <1>4, <1>6 DEF Gap, Level
<1> QED
  BY <1>7, <1>8, <1>9, <1>10 DEF TrueSearch, Bounded

LEMMA VisitHolds ==
  ASSUME TypeInv, Visit, NEW v \in [Nodes -> Int], Agrees(v), TrueSearch(v)
  PROVE  TrueSearch(v)' /\ (TrueAnswer(v) => TrueAnswer(v)') /\ (pc' = "ready" => todo' = {})
<1>1. pc = "search" /\ Serving /\ InGraph /\ search \in Searches /\ UNCHANGED construction
      /\ UNCHANGED <<placed, potential, edges>>
  BY DEF Visit, TypeInv, Asking, construction, relaxation, Serving, InGraph
<1>2. PICK e \in todo :
        IF visits >= MaxVisits \/ ~Fits(search.from + Reduced(e))
        THEN Refuse(search.positive, search.negative)
        ELSE /\ todo' = todo \ {e}
             /\ search' = IF Closer(Other(e), search.from + Reduced(e))
                          THEN [search EXCEPT
                                  !.distance = [n \in DOMAIN search.distance \union {Other(e)} |->
                                                  IF n = Other(e) THEN search.from + Reduced(e) ELSE search.distance[n]],
                                  !.queue = search.queue \union {<<search.from + Reduced(e), Other(e)>>}]
                          ELSE search
             /\ UNCHANGED <<pc, failed, answer>>
  BY DEF Visit
<1>3. CASE Refuse(search.positive, search.negative)
  BY <1>1, <1>3, ReplyHolds DEF Refuse
<1>4. CASE ~Refuse(search.positive, search.negative)
  <2> DEFINE c == search.from + Reduced(e)
             o == Other(e)
  <2>1. /\ todo' \subseteq todo /\ UNCHANGED <<pc, answer>>
        /\ \/ search' = [search EXCEPT
                           !.distance = [n \in DOMAIN search.distance \union {o} |-> IF n = o THEN c ELSE search.distance[n]],
                           !.queue = search.queue \union {<<c, o>>}]
           \/ search' = search
    BY <1>2, <1>4
  <2>2. e \in DOMAIN edges /\ Source \in Roots /\ search.from \in Int
    BY <1>1, RootsAreNodes DEF TypeInv, TypeOK, Source, Searches
  <2>3. Gap(v, Ahead, Source, o) <= c
    <3>1. /\ Gap(v, Ahead, Source, o) <= Gap(v, Ahead, Source, Near(e)) + Reduced(e)
          /\ Reduced(e) \in Int /\ o \in Roots /\ Near(e) \in Roots
      BY <1>1, <2>2, EdgeGap
    <3>2. Gap(v, Ahead, Source, Near(e)) <= search.from
      BY <1>1 DEF TrueSearch
    <3>3. Gap(v, Ahead, Source, o) \in Int /\ Gap(v, Ahead, Source, Near(e)) \in Int
      BY <1>1, <2>2, <3>1, LevelType
    <3> QED
      BY <2>2, <3>1, <3>2, <3>3
  <2> HIDE DEF c, o
  <2>4. /\ search'.from = search.from /\ search'.forward = search.forward /\ search'.negative = search.negative
        /\ \A r \in DOMAIN search'.distance : \/ r = o /\ search'.distance[r] = c
                                              \/ r \in DOMAIN search.distance /\ search'.distance[r] = search.distance[r]
        /\ search'.queue \subseteq search.queue \union {<<c, o>>}
    <3>1. CASE search' = search
      BY <3>1
    <3>2. CASE search' # search
      <4> DEFINE d == [n \in DOMAIN search.distance \union {o} |-> IF n = o THEN c ELSE search.distance[n]]
      <4>1. search' = [search EXCEPT !.distance = d, !.queue = search.queue \union {<<c, o>>}]
        BY <2>1, <3>2
      <4>2. \A r \in DOMAIN d : \/ r = o /\ d[r] = c
                                \/ r \in DOMAIN search.distance /\ d[r] = search.distance[r]
        OBVIOUS
      <4> HIDE DEF d
      <4>3. search'.distance = d /\ search'.queue = search.queue \union {<<c, o>>}
            /\ search'.from = search.from /\ search'.forward = search.forward /\ search'.negative = search.negative
        BY <1>1, <4>1 DEF Searches
      <4> QED
        BY <4>2, <4>3
    <3> QED
      BY <3>1, <3>2
  <2>5. Ahead' = Ahead /\ Source' = Source /\ \A f : Near(f)' = Near(f)
    BY <1>1, <2>4 DEF Ahead, Source, Near
  <2>6. /\ ~Ahead => \A r \in DOMAIN search.forward : Gap(v, TRUE, Source, r) <= search.forward[r]
        /\ \A r \in DOMAIN search.distance : Gap(v, Ahead, Source, r) <= search.distance[r]
        /\ \A i \in search.queue : Gap(v, Ahead, Source, i[2]) <= i[1]
        /\ \A f \in todo : Gap(v, Ahead, Source, Near(f)) <= search.from
    BY <1>1 DEF TrueSearch, Bounded
  <2>7. ~Ahead' => \A r \in DOMAIN search'.forward : Gap(v, TRUE, Source, r)' <= search'.forward[r]
    BY <1>1, <2>4, <2>5, <2>6 DEF Gap, Level
  <2>8. \A r \in DOMAIN search'.distance : Gap(v, Ahead, Source, r)' <= search'.distance[r]
    BY <1>1, <2>3, <2>4, <2>5, <2>6 DEF Gap, Level
  <2>9. \A i \in search'.queue : Gap(v, Ahead, Source, i[2])' <= i[1]
    BY <1>1, <2>3, <2>4, <2>5, <2>6 DEF Gap, Level
  <2>10. \A f \in todo' : Gap(v, Ahead, Source, Near(f))' <= search'.from
    BY <1>1, <2>1, <2>4, <2>5, <2>6 DEF Gap, Level
  <2>11. TrueAnswer(v) => TrueAnswer(v)'
    BY <2>1 DEF TrueAnswer, Answered, Serving, Allows
  <2> QED
    BY <1>1, <2>1, <2>7, <2>8, <2>9, <2>10, <2>11 DEF TrueSearch, Bounded
<1> QED
  BY <1>3, <1>4

LEMMA SearchHolds ==
  ASSUME TypeInv, SearchStep, NEW v \in [Nodes -> Int], Agrees(v), Informs(v)
  PROVE  Informs(v)' /\ (pc' = "ready" => todo' = {})
<1>1. pc = "search" /\ Serving /\ InGraph /\ search \in Searches /\ UNCHANGED construction
      /\ TrueCache(v) /\ TrueSearch(v) /\ TrueAnswer(v)
  BY DEF SearchStep, Pop, Visit, ForwardDone, ReverseDone, Searched, TypeInv, Asking, Serving, InGraph, Informs
<1>2. CASE Pop
  <2>1. UNCHANGED <<pc, cache, answer>>
    BY <1>2 DEF Pop
  <2> QED
    BY <1>1, <1>2, <2>1, PopHolds, CacheHolds DEF Informs, TrueAnswer, Answered, Serving, Allows
<1>3. CASE Visit
  <2>1. UNCHANGED cache
    BY <1>3 DEF Visit
  <2> QED
    BY <1>1, <1>3, <2>1, VisitHolds, CacheHolds DEF Informs
<1>4. CASE ForwardDone
  <2>1. /\ Ahead /\ Distances(search.positive, search.negative, search.distance) /\ todo' = {}
        /\ UNCHANGED <<pc, cache, answer>> /\ search.negative \in Nodes
    BY <1>1, <1>4 DEF ForwardDone, Searched, Ahead, Searches
  <2>2. Bounded(v, TRUE, placed[search.negative].root, search.distance)
    BY <1>1, <2>1 DEF TrueSearch, Bounded, Source, Gap
  <2>3. TrueSearch(v)'
    BY <1>1, <2>1, <2>2, SourceHolds
  <2> QED
    BY <1>1, <2>1, <2>3, CacheHolds DEF Informs, TrueAnswer, Answered, Serving, Allows
<1>5. CASE ReverseDone
  <2>1. /\ ~Ahead /\ search.positive \in Nodes /\ search.negative \in Nodes
        /\ search.forward \in Dists /\ search.distance \in Dists
        /\ cache' = [root |-> Source, forward |-> search.forward, reverse |-> search.distance]
        /\ Conclude(search.positive, search.negative, search.forward, search.distance)
    BY <1>1, <1>5 DEF ReverseDone, Searched, Ahead, Searches, Source
  <2>2. /\ Bounded(v, TRUE, placed[search.negative].root, search.forward)
        /\ Bounded(v, FALSE, placed[search.negative].root, search.distance)
    BY <1>1, <2>1 DEF TrueSearch, Bounded, Source, Gap
  <2>3. TrueAnswer(v)' /\ TrueSearch(v)' /\ todo' = {}
    BY <1>1, <2>1, <2>2, ConcludeHolds
  <2>4. TrueCache(v)'
    <3>1. cache'.root = Source /\ cache'.forward = search.forward /\ cache'.reverse = search.distance
      BY <2>1
    <3>2. UNCHANGED <<potential>>
      BY <1>1 DEF construction, relaxation
    <3> QED
      BY <2>2, <3>1, <3>2 DEF TrueCache, Bounded, Gap, Level, Source
  <2> QED
    BY <2>3, <2>4 DEF Informs
<1> QED
  BY <1>2, <1>3, <1>4, <1>5 DEF SearchStep

LEMMA AskHolds ==
  ASSUME TypeInv, NEW p, NEW n, Ask(p, n), todo = {}, NEW v \in [Nodes -> Int], Agrees(v), Informs(v)
  PROVE  Informs(v)' /\ todo' = {}
<1>1. pc = "ready" /\ Serving /\ InGraph /\ UNCHANGED construction /\ UNCHANGED cache
      /\ TrueCache(v) /\ TrueAnswer(v)
  BY DEF Ask, AskFailed, AskTooOften, AskUnknown, AskTooLong, AskSameTree, AskCached, AskNew, Asked, Counted, Serving,
     InGraph, Informs
<1>2. TrueCache(v)'
  BY <1>1, CacheHolds
<1>3. CASE \/ AskFailed(p, n) \/ AskTooOften(p, n) \/ AskUnknown(p, n) \/ AskTooLong(p, n)
  <2>1. Reply(p, n, Exceeded) \/ Reply(p, n, Unknown)
    BY <1>3 DEF AskFailed, AskTooOften, AskUnknown, AskTooLong, Refuse
  <2> QED
    BY <1>1, <1>2, <2>1, ReplyHolds DEF Informs
<1>4. CASE AskSameTree(p, n)
  <2>1. /\ p \in Nodes /\ n \in Nodes /\ placed[p].root = placed[n].root
        /\ Reply(p, n, [lower |-> Offset(p, n), upper |-> Offset(p, n)])
    BY <1>4 DEF AskSameTree, Asked
  <2>2. v[p] - v[n] = Offset(p, n)
    <3>1. placed[p] # None /\ placed[n] # None /\ placed[p].root \in Nodes
      BY <1>1, <2>1, RootsAreNodes DEF TypeInv, Placed
    <3>2. v[p] - v[placed[p].root] = placed[p].offset /\ v[n] - v[placed[p].root] = placed[n].offset
      BY <2>1, <3>1 DEF Agrees
    <3>3. v[p] \in Int /\ v[n] \in Int /\ v[placed[p].root] \in Int
      BY <2>1, <3>1
    <3> QED
      BY <3>2, <3>3 DEF Offset
  <2>3. Offset(p, n) \in Int
    BY <1>1, <2>1, RootsAreNodes DEF Offset
  <2>4. Allows([lower |-> Offset(p, n), upper |-> Offset(p, n)], v[p] - v[n])
    BY <2>2, <2>3 DEF Allows
  <2> QED
    BY <1>1, <1>2, <2>1, <2>4, ReplyHolds DEF Informs
<1>5. CASE AskCached(p, n)
  <2>1. /\ p \in Nodes /\ n \in Nodes /\ cache # None /\ cache.root = placed[n].root
        /\ Conclude(p, n, cache.forward, cache.reverse)
    BY <1>5 DEF AskCached, Asked, Cached
  <2>2. /\ cache.forward \in Dists /\ cache.reverse \in Dists
        /\ Bounded(v, TRUE, placed[n].root, cache.forward) /\ Bounded(v, FALSE, placed[n].root, cache.reverse)
    BY <1>1, <2>1 DEF TypeInv, Asking, Caches, TrueCache
  <2> QED
    BY <1>1, <1>2, <2>1, <2>2, ConcludeHolds DEF Informs
<1>6. CASE AskNew(p, n)
  <2>1. n \in Nodes /\ Distances(p, n, None) /\ todo' = {} /\ UNCHANGED answer
    BY <1>6 DEF AskNew, Asked
  <2>2. TrueSearch(v)'
    BY <1>1, <2>1, SourceHolds
  <2>3. TrueAnswer(v)'
    BY <1>1, <2>1 DEF TrueAnswer, Answered, Allows
  <2> QED
    BY <1>2, <2>1, <2>2, <2>3 DEF Informs
<1> QED
  BY <1>3, <1>4, <1>5, <1>6 DEF Ask

\* Until the construction is over nobody is answered.
LEMMA WorkServesNobody ==
  ASSUME ForestStep \/ BoundStep
  PROVE  ~Serving /\ pc' # "search" /\ UNCHANGED service /\ (pc' = "ready" => todo' = {})
<1>1. CASE ForestStep
  BY <1>1 DEF ForestStep, SkipRange, StartJoin, Climb, ReachRoot, Compress, FoundPositive, JoinTooLong,
     JoinSame, JoinTrees, JoinsDone, Settle, FoundPlace, AllSettled, Returns, Walk, Serving, afterForest
<1>2. CASE BoundStep
  <2>1. CASE CheckBounds \/ AddEdges
    BY <2>1 DEF CheckBounds, AddEdges, Serving, afterForest
  <2>2. CASE BoundsDone \/ Relax \/ RoundsDone \/ EndRound
    BY <2>2 DEF BoundsDone, Relax, RoundsDone, EndRound, Serving
  <2> QED
    BY <1>2, <2>1, <2>2 DEF BoundStep
<1> QED
  BY <1>1, <1>2

LEMMA NextAnswers ==
  ASSUME TypeInv, TruthInv, AnswerInv, [Next]_vars PROVE AnswerInv'
<1>1. UNCHANGED system
  BY SystemKept
<1>2. CASE ForestStep \/ BoundStep
  <2>1. ~Serving /\ pc' # "search" /\ UNCHANGED service /\ (pc' = "ready" => todo' = {})
    BY <1>2, WorkServesNobody
  <2>2. cache' = None /\ answer' = None
    BY <2>1 DEF TypeInv, Asking, service
  <2> QED
    BY <2>1, <2>2 DEF AnswerInv, Informs, TrueCache, TrueSearch, TrueAnswer, Answered
<1>3. CASE SearchStep
  <2>1. ASSUME NEW v \in [Nodes -> Int], Solves(v)' PROVE Informs(v)'
    <3>1. Agrees(v) /\ Informs(v)
      BY <1>1, <2>1 DEF Solves, TruthInv, AnswerInv
    <3> QED
      BY <1>3, <3>1, SearchHolds
  <2>2. pc' = "ready" => todo' = {}
    <3>1. pc = "search"
      BY <1>3 DEF SearchStep, Pop, Visit, ForwardDone, ReverseDone, Searched
    <3>2. CASE Pop \/ ForwardDone
      BY <3>1, <3>2 DEF Pop, ForwardDone
    <3>3. CASE Visit
      BY <3>1, <3>3 DEF Visit, Refuse, Reply
    <3>4. CASE ReverseDone
      BY <3>4 DEF ReverseDone, Conclude, Refuse, Reply
    <3> QED
      BY <1>3, <3>2, <3>3, <3>4 DEF SearchStep
  <2> QED
    BY <2>1, <2>2 DEF AnswerInv
<1>4. ASSUME NEW p, NEW n, Ask(p, n) PROVE AnswerInv'
  <2>1. todo = {}
    BY <1>4 DEF AnswerInv, Ask, AskFailed, AskTooOften, AskUnknown, AskTooLong, AskSameTree, AskCached, AskNew,
       Asked, Counted
  <2>2. ASSUME NEW v \in [Nodes -> Int], Solves(v)' PROVE Informs(v)'
    <3>1. Agrees(v) /\ Informs(v)
      BY <1>1, <2>2 DEF Solves, TruthInv, AnswerInv
    <3> QED
      BY <1>4, <2>1, <3>1, AskHolds
  <2>3. todo' = {}
    BY <1>4, <2>1 DEF Ask, AskFailed, AskTooOften, AskUnknown, AskTooLong, AskSameTree, AskCached, AskNew, Conclude,
       Refuse, Reply
  <2> QED
    BY <2>2, <2>3 DEF AnswerInv
<1>5. CASE UNCHANGED vars
  <2>1. UNCHANGED <<system, placed, potential, pc, todo, cache, search, answer>>
    BY <1>5 DEF vars, relaxation, service
  <2>2. ASSUME NEW v PROVE (Solves(v)' <=> Solves(v)) /\ (Informs(v) => Informs(v)')
    BY <2>1 DEF Solves, Informs, TrueCache, TrueSearch, TrueAnswer, Answered, Serving, Bounded, Gap, Level, Ahead, Source,
       Near, Allows
  <2> QED
    BY <2>1, <2>2 DEF AnswerInv
<1> QED
  BY <1>2, <1>3, <1>4, <1>5 DEF Next, Work

LEMMA InitAnswers == Init => AnswerInv
BY DEF Init, AnswerInv, Informs, TrueCache, TrueSearch, TrueAnswer, Answered

\* Whatever was answered holds of all voltages that keep the constraints,
\* whether the distances were found for the query or for one before:
\* VoltageSystem.difference.
THEOREM AnswersHold == Spec => []AnswersCover
<1>1. Init => TypeInv /\ TruthInv /\ AnswerInv
  BY InitTypes, InitTruth, InitAnswers
<1>2. (TypeInv /\ TruthInv /\ AnswerInv) /\ [Next]_vars => (TypeInv /\ TruthInv /\ AnswerInv)'
  BY NextTypes, NextTruth, NextAnswers
<1>3. TypeInv /\ TruthInv /\ AnswerInv => AnswersCover
  BY LimitAssumption DEF AnswerInv, Informs, TrueAnswer, AnswersCover, Answered, Volts
<1> QED
  BY <1>1, <1>2, <1>3, PTL DEF Spec

-----------------------------------------------------------------------------
(***************************************************************************)
(* The chains of constraints: Chained is what its equation says, and once   *)
(* all nodes may be in between it is closed under one more constraint.      *)
(***************************************************************************)
Iterates(base, step, g, k) ==
  g[0] = base /\ \A i \in 0 .. k : i + 1 \in 0 .. k => g[i + 1] = step[i][g[i]]
IsStep(step, V) == step \in [Nat -> [V -> V]]
Iteration(V, base, step, k) == CHOOSE g : g \in [0 .. k -> V] /\ Iterates(base, step, g, k)

\* A step that knows how many there were before can be iterated for ever.
LEMMA NatRecursion ==
  ASSUME NEW V, NEW base \in V, NEW step, IsStep(step, V)
  PROVE  \E f \in [Nat -> V] : f[0] = base /\ \A n \in Nat : f[n + 1] = step[n][f[n]]
<1> DEFINE It(k) == Iteration(V, base, step, k)
           f == [n \in Nat |-> It(n)[n]]
           S == {k \in Nat : \E g \in [0 .. k -> V] : Iterates(base, step, g, k)}
<1>a. step \in [Nat -> [V -> V]]
  BY DEF IsStep
<1>1. 0 \in S
  <2>1. [i \in 0 .. 0 |-> base] \in [0 .. 0 -> V] /\ Iterates(base, step, [i \in 0 .. 0 |-> base], 0)
    BY DEF Iterates
  <2> QED
    BY <2>1
<1>2. ASSUME NEW k \in S PROVE k + 1 \in S
  <2>1. PICK g \in [0 .. k -> V] : Iterates(base, step, g, k)
    OBVIOUS
  <2> DEFINE h == [i \in 0 .. k + 1 |-> IF i = k + 1 THEN step[k][g[k]] ELSE g[i]]
  <2>2. k \in Nat /\ step[k][g[k]] \in V
    BY <1>a
  <2>3. h \in [0 .. k + 1 -> V] /\ Iterates(base, step, h, k + 1)
    BY <2>1, <2>2 DEF Iterates
  <2> QED
    BY <2>2, <2>3
<1>3. S = Nat
  <2>1. S \in SUBSET Nat
    OBVIOUS
  <2> HIDE DEF S
  <2> QED
    BY <1>1, <1>2, <2>1, SetOfAllNaturals
<1>4. ASSUME NEW k \in Nat PROVE It(k) \in [0 .. k -> V] /\ Iterates(base, step, It(k), k)
  <2>1. \E g : g \in [0 .. k -> V] /\ Iterates(base, step, g, k)
    BY <1>3
  <2> QED
    BY <2>1, Zenon DEF Iteration
<1>5. ASSUME NEW k \in Nat, NEW g, NEW h, Iterates(base, step, g, k), Iterates(base, step, h, k + 1)
      PROVE  g[k] = h[k]
  <2> DEFINE T == {i \in Nat : i <= k => g[i] = h[i]}
  <2>1. 0 \in T
    BY <1>5 DEF Iterates
  <2>2. ASSUME NEW i \in T PROVE i + 1 \in T
    BY <1>5 DEF Iterates
  <2>3. T = Nat
    <3>1. T \in SUBSET Nat
      OBVIOUS
    <3> HIDE DEF T
    <3> QED
      BY <2>1, <2>2, <3>1, SetOfAllNaturals
  <2> QED
    BY <2>3
<1>6. ASSUME NEW n \in Nat PROVE It(n)[n] \in V /\ It(n + 1)[n + 1] = step[n][It(n)[n]]
  <2> HIDE DEF It
  <2>1. /\ It(n) \in [0 .. n -> V] /\ Iterates(base, step, It(n), n)
        /\ n + 1 \in Nat /\ Iterates(base, step, It(n + 1), n + 1)
    BY <1>4
  <2>2. It(n)[n] = It(n + 1)[n]
    BY <1>5, <2>1
  <2>3. It(n + 1)[n + 1] = step[n][It(n + 1)[n]]
    BY <2>1 DEF Iterates
  <2> QED
    BY <2>1, <2>2, <2>3
<1>7. It(0)[0] = base
  <2> HIDE DEF It
  <2> QED
    BY <1>4 DEF Iterates
<1> HIDE DEF It
<1>8. f \in [Nat -> V]
  BY <1>6
<1>9. f[0] = base /\ \A n \in Nat : f[n + 1] = step[n][f[n]]
  BY <1>6, <1>7
<1> HIDE DEF f
<1> QED
  BY <1>8, <1>9

Matrices == [Pairs -> SUBSET Int]
Direct == [ends \in Pairs |-> Least(Declared(ends[1], ends[2]))]

\* What one constraint says is a number.
LEMMA DeclaredType ==
  ASSUME TypeOK, NEW a \in Nodes, NEW b \in Nodes
  PROVE  Declared(a, b) \subseteq Int
<1>1. ASSUME NEW c \in Range(system) PROVE c \in Constraints
  <2>1. PICK i \in DOMAIN system : c = system[i]
    BY DEF Range
  <2> QED
    BY <2>1, ConstraintType
<1>2. ASSUME NEW c \in Range(system)
      PROVE  (c.upper # None => c.upper \in Int) /\ (c.lower # None => -c.lower \in Int)
  BY <1>1, EndTypes
<1> QED
  BY <1>2 DEF Declared

LEMMA ExtendedType ==
  ASSUME NEW k \in Nat, NEW chain \in Matrices PROVE Extended(chain, k) \in Matrices
<1>1. CASE k \notin Nodes
  BY <1>1 DEF Extended
<1>2. CASE k \in Nodes
  <2>1. \A ends \in Pairs : chain[ends] \union Through(chain, k, ends[1], ends[2]) \subseteq Int
    BY <1>2 DEF Matrices, Pairs, Through
  <2>2. \A s : Least(s) \subseteq s
    BY DEF Least
  <2>3. [ends \in Pairs |-> Least(chain[ends] \union Through(chain, k, ends[1], ends[2]))] \in [Pairs -> SUBSET Int]
    BY <2>1, <2>2
  <2> QED
    BY <1>2, <2>3 DEF Extended, Matrices
<1> QED
  BY <1>1, <1>2

LEMMA ChainedIs ==
  ASSUME TypeOK
  PROVE  /\ Chained[0] = Direct /\ \A k \in Nat : Chained[k + 1] = Extended(Chained[k], k)
         /\ \A k \in Nat : Chained[k] \in Matrices
<1> DEFINE step == [k \in Nat |-> [chain \in Matrices |-> Extended(chain, k)]]
<1>1. Direct \in Matrices
  BY DeclaredType DEF Direct, Matrices, Pairs, Least
<1>2. ASSUME NEW k \in Nat, NEW chain \in Matrices PROVE Extended(chain, k) \in Matrices
  BY ExtendedType
<1>3. step \in [Nat -> [Matrices -> Matrices]]
  BY <1>2
<1>4. PICK f \in [Nat -> Matrices] : f[0] = Direct /\ \A n \in Nat : f[n + 1] = step[n][f[n]]
  <2> HIDE DEF step
  <2>1. IsStep(step, Matrices)
    BY <1>3 DEF IsStep
  <2> QED
    BY <1>1, <2>1, NatRecursion
<1>5. ASSUME NEW n \in Nat PROVE f[n + 1] = Extended(f[n], n)
  BY <1>4
<1> HIDE DEF step
<1>6. ASSUME NEW n \in Nat, n # 0 PROVE f[n] = Extended(f[n - 1], n - 1)
  <2>1. n - 1 \in Nat /\ (n - 1) + 1 = n
    BY <1>6
  <2> QED
    BY <1>5, <2>1
<1>7. f = [k \in Nat |-> IF k = 0 THEN Direct ELSE Extended(f[k - 1], k - 1)]
  BY <1>4, <1>6
<1>8. Chained = CHOOSE g : g = [k \in Nat |-> IF k = 0 THEN Direct ELSE Extended(g[k - 1], k - 1)]
  BY Zenon DEF Chained, Direct
<1>9. Chained = [k \in Nat |-> IF k = 0 THEN Direct ELSE Extended(Chained[k - 1], k - 1)]
  BY <1>7, <1>8, Zenon
<1>10. Chained[0] = Direct
  BY <1>9
<1>11. ASSUME NEW k \in Nat PROVE Chained[k + 1] = Extended(Chained[k], k)
  <2>1. k + 1 \in Nat /\ k + 1 # 0 /\ (k + 1) - 1 = k
    OBVIOUS
  <2> QED
    BY <1>9, <2>1
<1> DEFINE T == {k \in Nat : Chained[k] \in Matrices}
<1>12. T = Nat
  <2>1. T \in SUBSET Nat /\ 0 \in T /\ \A k \in T : k + 1 \in T
    BY <1>1, <1>2, <1>10, <1>11
  <2> HIDE DEF T
  <2> QED
    BY <2>1, SetOfAllNaturals
<1> QED
  BY <1>10, <1>11, <1>12

\* What a constraint says, it says of every solution, and that is all it says.
LEMMA DeclaredHolds ==
  ASSUME TypeOK, NEW v \in [Nodes -> Int], Solves(v), NEW a \in Nodes, NEW b \in Nodes, NEW x \in Declared(a, b)
  PROVE  v[b] - v[a] <= x
<1>1. CASE a = b /\ x = 0
  BY <1>1
<1>2. ASSUME NEW c \in Range(system), a = c.negative, b = c.positive, c.upper # None, x = c.upper
      PROVE  v[b] - v[a] <= x
  BY <1>2 DEF Range, Solves, Keeps, Allows
<1>3. ASSUME NEW c \in Range(system), a = c.positive, b = c.negative, c.lower # None, x = -c.lower
      PROVE  v[b] - v[a] <= x
  <2>1. c.lower <= v[a] - v[b] /\ c.lower \in Int
    <3>1. PICK i \in DOMAIN system : c = system[i]
      BY DEF Range
    <3> QED
      BY <1>3, <3>1, ConstraintType, EndTypes DEF Solves, Keeps, Allows
  <2> QED
    BY <1>3, <2>1
<1> QED
  BY <1>1, <1>2, <1>3 DEF Declared

LEMMA DeclaredSuffices ==
  ASSUME TypeOK, NEW v \in [Nodes -> Int],
         \A a, b \in Nodes : \A x \in Declared(a, b) : v[b] - v[a] <= x
  PROVE  Solves(v)
<1> SUFFICES ASSUME NEW i \in DOMAIN system PROVE Keeps(v, system[i])
  BY DEF Solves
<1> DEFINE c == system[i]
<1>1. c \in Range(system)
  BY DEF Range
<1>2. /\ c.positive \in Nodes /\ c.negative \in Nodes
      /\ c.lower # None => c.lower \in Int
      /\ c.upper # None => c.upper \in Int
  BY ConstraintType, EndTypes
<1> HIDE DEF c
<1>3. c.upper # None => c.upper \in Declared(c.negative, c.positive)
  BY <1>1 DEF Declared
<1>4. c.lower # None => -c.lower \in Declared(c.positive, c.negative)
  BY <1>1 DEF Declared
<1>5. c.lower # None => v[c.negative] - v[c.positive] <= -c.lower
  BY <1>2, <1>4
<1>6. c.upper # None => v[c.positive] - v[c.negative] <= c.upper
  BY <1>2, <1>3
<1>7. v[c.positive] \in Int /\ v[c.negative] \in Int
  BY <1>2
<1> QED
  BY <1>2, <1>5, <1>6, <1>7 DEF Keeps, Allows, c

\* Numbers that are not below some number have a least one.
LEMMA LeastIs ==
  ASSUME NEW S, S \subseteq Int, NEW low \in Int, \A x \in S : low <= x
  PROVE  /\ Least(S) \subseteq S
         /\ \A x, y \in Least(S) : x = y
         /\ \A x \in S : \E y \in Least(S) : y <= x
<1>1. Least(S) \subseteq S /\ \A x, y \in Least(S) : x = y
  BY DEF Least
<1>2. ASSUME NEW x \in S PROVE \E y \in Least(S) : y <= x
  <2> DEFINE T == {low - y : y \in S}
  <2>1. T \subseteq Int /\ T # {} /\ \A t \in T : t <= 0
    BY <1>2
  <2>2. PICK m \in T : \A t \in T : t <= m
    <3> HIDE DEF T
    <3> QED
      BY <2>1, Largest
  <2>3. PICK y \in S : m = low - y
    OBVIOUS
  <2>4. \A z \in S : low - z <= low - y
    BY <2>2, <2>3
  <2>5. \A z \in S : y <= z
    BY <2>4
  <2> QED
    BY <1>2, <2>5 DEF Least
<1> QED
  BY <1>1, <1>2

\* One bound for each pair, true of all solutions and not above what is declared;
\* what goes through a node below k is taken into account.
Linked(chain, k) ==
  /\ chain \in Matrices
  /\ \A ends \in Pairs : \A x, y \in chain[ends] : x = y
  /\ \A v \in [Nodes -> Int] : Solves(v) =>
       \A a, b \in Nodes : \A x \in chain[<<a, b>>] : v[b] - v[a] <= x
  /\ \A a, b \in Nodes : \A x \in Declared(a, b) : \E y \in chain[<<a, b>>] : y <= x
  /\ \A a, b, c \in Nodes : b < k =>
       \A x \in chain[<<a, b>>], y \in chain[<<b, c>>] : \E z \in chain[<<a, c>>] : z <= x + y

LEMMA DirectLinked ==
  ASSUME TypeOK, NEW v \in [Nodes -> Int], Solves(v)
  PROVE  Linked(Direct, 0)
<1>1. ASSUME NEW a \in Nodes, NEW b \in Nodes
      PROVE  /\ Direct[<<a, b>>] \subseteq Declared(a, b) /\ Declared(a, b) \subseteq Int
             /\ \A x, y \in Direct[<<a, b>>] : x = y
             /\ \A x \in Declared(a, b) : \E y \in Direct[<<a, b>>] : y <= x
  <2>1. Declared(a, b) \subseteq Int
    BY DeclaredType
  <2>2. v[b] - v[a] \in Int /\ \A x \in Declared(a, b) : v[b] - v[a] <= x
    BY DeclaredHolds
  <2>3. Direct[<<a, b>>] = Least(Declared(a, b))
    BY DEF Direct, Pairs
  <2> QED
    BY <2>1, <2>2, <2>3, LeastIs
<1>2. Direct \in Matrices
  BY ChainedIs
<1>3. \A ends \in Pairs : \A x, y \in Direct[ends] : x = y
  BY <1>1 DEF Pairs
<1>4. \A w \in [Nodes -> Int] : Solves(w) =>
       \A a, b \in Nodes : \A x \in Direct[<<a, b>>] : w[b] - w[a] <= x
  BY <1>1, DeclaredHolds
<1>5. \A b \in Nodes : ~(b < 0)
  BY NodeAssumption
<1> QED
  BY <1>1, <1>2, <1>3, <1>4, <1>5 DEF Linked

\* No chain leads from a node to itself below zero.
LEMMA NoShortCircle ==
  ASSUME TypeOK, NEW v \in [Nodes -> Int], Solves(v), NEW chain, NEW k, Linked(chain, k), NEW a \in Nodes
  PROVE  chain[<<a, a>>] = {0}
<1>1. 0 \in Declared(a, a)
  BY DEF Declared
<1>2. PICK y \in chain[<<a, a>>] : y <= 0
  BY <1>1 DEF Linked
<1>3. y \in Int /\ v[a] - v[a] <= y /\ \A x \in chain[<<a, a>>] : x = y
  BY <1>2 DEF Linked, Matrices, Pairs
<1>4. y = 0
  BY <1>2, <1>3
<1> QED
  BY <1>2, <1>3, <1>4

LEMMA ExtendedLinked ==
  ASSUME TypeOK, NEW v \in [Nodes -> Int], Solves(v), NEW chain, NEW k \in Nat, Linked(chain, k)
  PROVE  Linked(Extended(chain, k), k + 1)
<1>1. CASE k \notin Nodes
  <2>1. Extended(chain, k) = chain
    BY <1>1 DEF Extended
  <2>2. \A b \in Nodes : b < k + 1 => b < k
    BY <1>1, NodeAssumption
  <2> QED
    BY <2>1, <2>2 DEF Linked
<1>2. CASE k \in Nodes
  <2> DEFINE more == Extended(chain, k)
             all(a, b) == chain[<<a, b>>] \union Through(chain, k, a, b)
  <2>1. \A a, b \in Nodes : more[<<a, b>>] = Least(all(a, b))
    BY <1>2 DEF Extended, Pairs
  <2>2. \A a, b \in Nodes : chain[<<a, b>>] \subseteq Int
    BY DEF Linked, Matrices, Pairs
  <2>3. ASSUME NEW w \in [Nodes -> Int], Solves(w), NEW a \in Nodes, NEW b \in Nodes, NEW x \in all(a, b)
        PROVE  x \in Int /\ w[b] - w[a] <= x
    <3>1. CASE x \in chain[<<a, b>>]
      BY <2>2, <2>3, <3>1 DEF Linked
    <3>2. CASE x \in Through(chain, k, a, b)
      <4>1. PICK y \in chain[<<a, k>>], z \in chain[<<k, b>>] : x = y + z
        BY <3>2 DEF Through
      <4>2. y \in Int /\ z \in Int /\ w[k] - w[a] <= y /\ w[b] - w[k] <= z
        BY <1>2, <2>2, <2>3, <4>1 DEF Linked
      <4>3. w[k] \in Int /\ w[a] \in Int /\ w[b] \in Int
        BY <1>2
      <4> QED
        BY <4>1, <4>2, <4>3
    <3> QED
      BY <3>1, <3>2
  <2>4. ASSUME NEW a \in Nodes, NEW b \in Nodes
        PROVE  /\ more[<<a, b>>] \subseteq all(a, b) /\ all(a, b) \subseteq Int
               /\ \A x, y \in more[<<a, b>>] : x = y
               /\ \A x \in all(a, b) : \E y \in more[<<a, b>>] : y <= x
    <3>1. all(a, b) \subseteq Int /\ v[b] - v[a] \in Int /\ \A x \in all(a, b) : v[b] - v[a] <= x
      BY <2>3
    <3>2. more[<<a, b>>] = Least(all(a, b))
      BY <2>1
    <3> HIDE DEF all, more
    <3> QED
      BY <3>1, <3>2, LeastIs
  <2>5. chain[<<k, k>>] = {0}
    BY <1>2, NoShortCircle
  <2>6. \A a, b \in Nodes : \A x \in chain[<<a, k>>], y \in chain[<<k, b>>] : x + y \in all(a, b)
    BY DEF Through
  <2>7. \A a, b \in Nodes : \A x \in all(a, b) :
          \/ x \in chain[<<a, b>>]
          \/ \E y \in chain[<<a, k>>], z \in chain[<<k, b>>] : x = y + z
    BY DEF Through
  <2>8. \A a, b \in Nodes : chain[<<a, b>>] \subseteq all(a, b)
    OBVIOUS
  <2> HIDE DEF all, more
  <2>9. more \in Matrices
    BY <1>2, <2>4, ExtendedType DEF more, Linked
  <2>10. \A ends \in Pairs : \A x, y \in more[ends] : x = y
    BY <2>4 DEF Pairs
  <2>11. \A w \in [Nodes -> Int] : Solves(w) =>
           \A a, b \in Nodes : \A x \in more[<<a, b>>] : w[b] - w[a] <= x
    BY <2>3, <2>4
  <2>12. ASSUME NEW a \in Nodes, NEW b \in Nodes, NEW x \in Declared(a, b)
         PROVE  \E y \in more[<<a, b>>] : y <= x
    <3>1. x \in Int
      BY DeclaredType
    <3>2. PICK y \in chain[<<a, b>>] : y <= x
      BY DEF Linked
    <3>3. PICK z \in more[<<a, b>>] : z <= y
      BY <2>4, <2>8
    <3>4. y \in Int /\ z \in Int
      BY <2>2, <2>4
    <3> QED
      BY <3>1, <3>2, <3>3, <3>4
  <2>13. ASSUME NEW a \in Nodes, NEW b \in Nodes, NEW c \in Nodes, b < k + 1,
                NEW x \in more[<<a, b>>], NEW y \in more[<<b, c>>]
         PROVE  \E z \in more[<<a, c>>] : z <= x + y
    <3>1. SUFFICES \E z \in all(a, c) : z <= x + y
      <4>1. PICK z \in all(a, c) : z <= x + y
        BY <3>1
      <4>2. PICK z2 \in more[<<a, c>>] : z2 <= z
        BY <2>4
      <4>3. z \in Int /\ z2 \in Int /\ x \in Int /\ y \in Int
        BY <2>4, <4>1, <4>2
      <4> QED
        BY <4>1, <4>2, <4>3
    <3>2. x \in all(a, b) /\ y \in all(b, c) /\ x \in Int /\ y \in Int
      BY <2>4
    <3>3. CASE b = k
      <4>1. x \in chain[<<a, k>>]
        BY <1>2, <2>2, <2>5, <2>7, <3>2, <3>3
      <4>2. y \in chain[<<k, c>>]
        BY <1>2, <2>2, <2>5, <2>7, <3>2, <3>3
      <4> QED
        BY <2>6, <3>2, <4>1, <4>2
    <3>4. CASE b # k
      <4>0. b \in Nat
        BY NodeAssumption
      <4>1. b < k
        BY <2>13, <3>4, <4>0
      <4>2. \A d, e \in Nodes : \A s \in chain[<<d, b>>], t \in chain[<<b, e>>] : \E z \in chain[<<d, e>>] : z <= s + t
        BY <4>1 DEF Linked
      <4>3. CASE x \in chain[<<a, b>>] /\ y \in chain[<<b, c>>]
        BY <2>8, <4>2, <4>3
      <4>4. ASSUME NEW x1 \in chain[<<a, k>>], NEW x2 \in chain[<<k, b>>], x = x1 + x2, y \in chain[<<b, c>>]
            PROVE  \E z \in all(a, c) : z <= x + y
        <5>1. PICK z \in chain[<<k, c>>] : z <= x2 + y
          BY <1>2, <4>2, <4>4
        <5>2. x1 + z \in all(a, c) /\ x1 \in Int /\ x2 \in Int /\ z \in Int
          BY <1>2, <2>2, <2>6, <5>1
        <5> QED
          BY <3>2, <4>4, <5>1, <5>2
      <4>5. ASSUME x \in chain[<<a, b>>], NEW y1 \in chain[<<b, k>>], NEW y2 \in chain[<<k, c>>], y = y1 + y2
            PROVE  \E z \in all(a, c) : z <= x + y
        <5>1. PICK z \in chain[<<a, k>>] : z <= x + y1
          BY <1>2, <4>2, <4>5
        <5>2. z + y2 \in all(a, c) /\ y1 \in Int /\ y2 \in Int /\ z \in Int
          BY <1>2, <2>2, <2>6, <5>1
        <5> QED
          BY <3>2, <4>5, <5>1, <5>2
      <4>6. ASSUME NEW x1 \in chain[<<a, k>>], NEW x2 \in chain[<<k, b>>], x = x1 + x2,
                   NEW y1 \in chain[<<b, k>>], NEW y2 \in chain[<<k, c>>], y = y1 + y2
            PROVE  \E z \in all(a, c) : z <= x + y
        <5>1. PICK z \in chain[<<k, k>>] : z <= x2 + y1
          BY <1>2, <4>2, <4>6
        <5>2. z = 0 /\ x1 + y2 \in all(a, c) /\ x1 \in Int /\ x2 \in Int /\ y1 \in Int /\ y2 \in Int
          BY <1>2, <2>2, <2>5, <2>6, <5>1
        <5>3. x1 + y2 <= x + y
          BY <4>6, <5>1, <5>2
        <5> QED
          BY <5>2, <5>3
      <4>7. x \in chain[<<a, b>>] \/ \E x1 \in chain[<<a, k>>], x2 \in chain[<<k, b>>] : x = x1 + x2
        BY <2>7, <3>2
      <4>8. y \in chain[<<b, c>>] \/ \E y1 \in chain[<<b, k>>], y2 \in chain[<<k, c>>] : y = y1 + y2
        BY <2>7, <3>2
      <4> QED
        BY <4>3, <4>4, <4>5, <4>6, <4>7, <4>8
    <3> QED
      BY <3>3, <3>4
  <2> QED
    BY <2>9, <2>10, <2>11, <2>12, <2>13 DEF Linked, more
<1> QED
  BY <1>1, <1>2

LEMMA ChainsLinked ==
  ASSUME TypeOK, NEW v \in [Nodes -> Int], Solves(v), NEW k \in Nat
  PROVE  Linked(Chained[k], k)
<1> DEFINE T == {i \in Nat : Linked(Chained[i], i)}
<1>1. 0 \in T
  BY ChainedIs, DirectLinked
<1>2. ASSUME NEW i \in T PROVE i + 1 \in T
  BY ChainedIs, ExtendedLinked
<1>3. T = Nat
  <2>1. T \in SUBSET Nat
    OBVIOUS
  <2> HIDE DEF T
  <2> QED
    BY <1>1, <1>2, <2>1, SetOfAllNaturals
<1> QED
  BY <1>3

LEMMA LastNode ==
  ASSUME Nodes # {}
  PROVE  Max(Nodes) + 1 \in Nat /\ \A n \in Nodes : n < Max(Nodes) + 1
<1>1. PICK high \in Nat : \A n \in Nodes : [m \in Nodes |-> m][n] <= high
  <2>1. [m \in Nodes |-> m] \in [Nodes -> Int] /\ IsFiniteSet(Nodes)
    BY NodeAssumption
  <2> QED
    BY <2>1, HasBound
<1>2. \A n \in Nodes : n \in Nat /\ n <= high
  BY <1>1, NodeAssumption
<1> DEFINE T == {n - high : n \in Nodes}
<1>3. T \subseteq Int /\ T # {} /\ \A t \in T : t <= 0
  BY <1>2
<1>4. PICK m \in T : \A t \in T : t <= m
  <2> HIDE DEF T
  <2> QED
    BY <1>3, Largest
<1>5. PICK last \in Nodes : m = last - high
  OBVIOUS
<1>6. \A n \in Nodes : n - high <= last - high
  BY <1>4, <1>5
<1>7. \A n \in Nodes : last >= n
  BY <1>2, <1>6
<1>8. Max(Nodes) \in Nodes /\ \A n \in Nodes : Max(Nodes) >= n
  BY <1>7, Zenon DEF Max
<1> QED
  BY <1>2, <1>8

\* Of a system with a solution: Tightest gives one bound at most, true of every
\* solution, and what bounds one node bounds the nodes it is constrained with.
LEMMA TightestIs ==
  ASSUME TypeOK, NEW v \in [Nodes -> Int], Solves(v), NEW a \in Nodes
  PROVE  /\ \A b \in Nodes : Tightest(a, b) \subseteq Int /\ \A x, y \in Tightest(a, b) : x = y
         /\ \A w \in [Nodes -> Int] : Solves(w) => \A b \in Nodes : \A x \in Tightest(a, b) : w[b] - w[a] <= x
         /\ Tightest(a, a) = {0}
         /\ \A b, c \in Nodes : \A x \in Tightest(a, b), y \in Declared(b, c) :
              \E z \in Tightest(a, c) : z <= x + y
<1> DEFINE k == Max(Nodes) + 1
           chain == Chained[k]
<1>1. k \in Nat /\ \A n \in Nodes : n < k
  BY LastNode
<1> HIDE DEF k
<1>2. Linked(chain, k)
  BY <1>1, ChainsLinked
<1>3. \A b \in Nodes : Tightest(a, b) = chain[<<a, b>>]
  BY DEF Tightest, k
<1> HIDE DEF chain
<1>4. \A b, c \in Nodes : chain[<<b, c>>] \subseteq Int
  BY <1>2 DEF Linked, Matrices, Pairs
<1>5. \A b \in Nodes : \A x, y \in chain[<<a, b>>] : x = y
  BY <1>2 DEF Linked, Pairs
<1>6. \A w \in [Nodes -> Int] : Solves(w) => \A b \in Nodes : \A x \in chain[<<a, b>>] : w[b] - w[a] <= x
  BY <1>2 DEF Linked
<1>7. chain[<<a, a>>] = {0}
  BY <1>2, NoShortCircle
<1>8. ASSUME NEW b \in Nodes, NEW c \in Nodes, NEW x \in chain[<<a, b>>], NEW y \in Declared(b, c)
      PROVE  \E z \in chain[<<a, c>>] : z <= x + y
  <2>1. PICK y1 \in chain[<<b, c>>] : y1 <= y
    BY <1>2 DEF Linked
  <2>2. PICK z \in chain[<<a, c>>] : z <= x + y1
    BY <1>1, <1>2 DEF Linked
  <2>3. x \in Int /\ y1 \in Int /\ z \in Int /\ y \in Int
    BY <1>4, <2>1, <2>2, DeclaredType
  <2> QED
    BY <2>1, <2>2, <2>3
<1>9. \A b \in Nodes : Tightest(a, b) \subseteq Int /\ \A x, y \in Tightest(a, b) : x = y
  BY <1>3, <1>4, <1>5
<1>10. \A w \in [Nodes -> Int] : Solves(w) => \A b \in Nodes : \A x \in Tightest(a, b) : w[b] - w[a] <= x
  BY <1>3, <1>6
<1>11. \A b, c \in Nodes : \A x \in Tightest(a, b), y \in Declared(b, c) : \E z \in Tightest(a, c) : z <= x + y
  <2>1. ASSUME NEW b \in Nodes, NEW c \in Nodes, NEW x \in Tightest(a, b), NEW y \in Declared(b, c)
        PROVE  \E z \in Tightest(a, c) : z <= x + y
    BY <1>3, <1>8
  <2> QED
    BY <2>1
<1> QED
  BY <1>3, <1>7, <1>9, <1>10, <1>11

\* All these bounds are met at once by a solution, and what is not bounded is as
\* far away in it as one likes.
LEMMA TightestIsMet ==
  ASSUME TypeOK, NEW v \in [Nodes -> Int], Solves(v), NEW a \in Nodes, NEW low \in Int
  PROVE  \E w \in [Nodes -> Int] : /\ Solves(w)
                                   /\ \A b \in Nodes : \/ w[b] - w[a] \in Tightest(a, b)
                                                       \/ (Tightest(a, b) = {} /\ w[b] - w[a] >= low)
<1> DEFINE t(b) == Tightest(a, b)
           value(b) == CHOOSE x \in t(b) : TRUE
           need == [b \in Nodes |-> IF t(b) # {} THEN value(b) - v[b] ELSE low - v[b]]
<1>1. \A b \in Nodes : t(b) # {} => value(b) \in t(b) /\ value(b) \in Int
  BY TightestIs
<1>2. t(a) = {0} /\ value(a) = 0
  BY TightestIs
<1>3. \A b, c \in Nodes : \A x \in t(b), y \in Declared(b, c) : \E z \in t(c) : z <= x + y
  BY TightestIs
<1>4. \A b \in Nodes : \A x, y \in t(b) : x = y
  BY TightestIs
<1> HIDE DEF value, t
<1>5. need \in [Nodes -> Int]
  BY <1>1
<1>6. PICK far \in Nat : \A b \in Nodes : need[b] <= far
  <2> HIDE DEF need
  <2> QED
    BY <1>5, NodeAssumption, HasBound
<1>7. \A b \in Nodes : /\ t(b) # {} => value(b) - v[b] <= far
                       /\ t(b) = {} => low - v[b] <= far
  BY <1>6
<1> HIDE DEF need
<1> DEFINE w == [b \in Nodes |-> IF t(b) # {} THEN value(b) ELSE v[b] + far]
<1>8. w \in [Nodes -> Int] /\ w[a] = 0
  BY <1>1, <1>2
<1>9. ASSUME NEW b \in Nodes PROVE w[b] - w[a] \in t(b) \/ (t(b) = {} /\ w[b] - w[a] >= low)
  <2>1. CASE t(b) # {}
    BY <1>1, <1>8, <2>1
  <2>2. CASE t(b) = {}
    BY <1>7, <1>8, <2>2
  <2> QED
    BY <2>1, <2>2
<1>10. ASSUME NEW b \in Nodes, NEW c \in Nodes, NEW y \in Declared(b, c) PROVE w[c] - w[b] <= y
  <2>1. v[c] - v[b] <= y /\ y \in Int /\ v[b] \in Int /\ v[c] \in Int
    BY DeclaredHolds, DeclaredType
  <2>2. CASE t(b) # {}
    <3>1. PICK z \in t(c) : z <= value(b) + y
      BY <1>1, <1>3, <2>2
    <3>2. z = value(c) /\ w[c] = value(c) /\ w[b] = value(b) /\ value(b) \in Int /\ value(c) \in Int
      BY <1>1, <1>4, <2>2, <3>1
    <3> QED
      BY <2>1, <3>1, <3>2
  <2>3. CASE t(b) = {} /\ t(c) # {}
    <3>1. w[c] = value(c) /\ w[b] = v[b] + far /\ value(c) \in Int /\ value(c) - v[c] <= far
      BY <1>1, <1>7, <2>3
    <3> QED
      BY <2>1, <3>1
  <2>4. CASE t(b) = {} /\ t(c) = {}
    <3>1. w[c] = v[c] + far /\ w[b] = v[b] + far
      BY <2>4
    <3> QED
      BY <2>1, <3>1
  <2> QED
    BY <2>2, <2>3, <2>4
<1> HIDE DEF w
<1>11. Solves(w)
  BY <1>8, <1>10, DeclaredSuffices
<1> QED
  BY <1>8, <1>9, <1>11 DEF t

-----------------------------------------------------------------------------
(***************************************************************************)
(* A search leaves no edge that could still shorten a distance, so its      *)
(* distances are themselves the levels of a solution.                      *)
(***************************************************************************)
NearEnd(ahead, e) == IF ahead THEN e[1] ELSE e[2]
FarEnd(ahead, e) == IF ahead THEN e[2] ELSE e[1]

Relaxed(ahead, distance, e) ==
  /\ FarEnd(ahead, e) \in DOMAIN distance
  /\ distance[FarEnd(ahead, e)] <= distance[NearEnd(ahead, e)] + Reduced(e)

Complete(ahead, s, distance) ==
  /\ s \in DOMAIN distance /\ distance[s] = 0
  /\ \A e \in DOMAIN edges : NearEnd(ahead, e) \in DOMAIN distance => Relaxed(ahead, distance, e)

CompleteCache ==
  cache # None => Complete(TRUE, cache.root, cache.forward) /\ Complete(FALSE, cache.root, cache.reverse)

\* An edge that is not relaxed yet is being looked at, or its near end is to come.
Pending(e) ==
  \/ Relaxed(Ahead, search.distance, e)
  \/ e \in todo
  \/ <<search.distance[Near(e)], Near(e)>> \in search.queue

CompleteSearch ==
  pc = "search" =>
    /\ ~Ahead => Complete(TRUE, Source, search.forward)
    /\ Source \in DOMAIN search.distance /\ search.distance[Source] = 0
    /\ \A r \in DOMAIN search.distance : search.distance[r] >= 0
    /\ \A item \in search.queue : item[2] \in DOMAIN search.distance
    /\ \A e \in todo : Near(e) \in DOMAIN search.distance /\ search.distance[Near(e)] = search.from
    /\ \A e \in DOMAIN edges : Near(e) \in DOMAIN search.distance => Pending(e)

LEMMA ReducedType ==
  ASSUME TypeInv, FeasInv, Serving, NEW e \in DOMAIN edges
  PROVE  Reduced(e) \in Nat /\ e[1] \in Roots /\ e[2] \in Roots
<1>1. e[1] \in Roots /\ e[2] \in Roots /\ edges[e] \in Int
  BY DEF TypeInv, TypeOK, Placed, Serving, InGraph
<1>2. potential[e[1]] \in Int /\ potential[e[2]] \in Int
  BY <1>1 DEF TypeInv, Placed, Serving, InGraph
<1>3. potential[e[2]] <= potential[e[1]] + edges[e]
  BY DEF FeasInv, Respected
<1> QED
  BY <1>1, <1>2, <1>3 DEF Reduced

\* In a query edges keep their reduced weights.
LEMMA CompleteKept ==
  ASSUME UNCHANGED construction
  PROVE  /\ \A e : Reduced(e)' = Reduced(e)
         /\ DOMAIN edges' = DOMAIN edges
         /\ \A ahead, s, distance : Complete(ahead, s, distance)' <=> Complete(ahead, s, distance)
<1>1. UNCHANGED <<edges, potential>>
  BY DEF construction, relaxation
<1>2. \A e : Reduced(e)' = Reduced(e)
  BY <1>1 DEF Reduced
<1> QED
  BY <1>1, <1>2 DEF Complete, Relaxed

LEMMA SourceComplete ==
  ASSUME TypeInv, Serving, UNCHANGED construction, NEW p, NEW n \in Nodes, NEW forward,
         Distances(p, n, forward), forward # None => Complete(TRUE, placed[n].root, forward), todo' = {}
  PROVE  CompleteSearch'
<1> DEFINE s == placed[n].root
<1>1. /\ search'.negative = n /\ search'.forward = forward
      /\ search'.distance = [r \in {s} |-> 0] /\ search'.queue = {<<0, s>>}
  BY DEF Distances
<1>2. Source' = s /\ Ahead' = (forward = None)
  BY <1>1 DEF Source, Ahead, construction
<1>3. ~Ahead' => Complete(TRUE, Source, search.forward)'
  BY <1>1, <1>2, CompleteKept DEF Complete, Relaxed
<1>4. DOMAIN search'.distance = {s} /\ search'.distance[s] = 0
  BY <1>1
<1>5. \A e \in DOMAIN edges' : Near(e)' \in DOMAIN search'.distance => Pending(e)'
  BY <1>1, <1>4 DEF Pending
<1>6. Source' \in DOMAIN search'.distance /\ search'.distance[Source'] = 0
  BY <1>2, <1>4
<1>7. \A r \in DOMAIN search'.distance : search'.distance[r] >= 0
  BY <1>4
<1>8. \A item \in search'.queue : item[2] \in DOMAIN search'.distance
  BY <1>1, <1>4
<1>9. \A e \in todo' : Near(e)' \in DOMAIN search'.distance /\ search'.distance[Near(e)'] = search'.from
  OBVIOUS
<1> QED
  BY <1>3, <1>5, <1>6, <1>7, <1>8, <1>9 DEF CompleteSearch

LEMMA PopCompletes ==
  ASSUME TypeInv, Pop, CompleteSearch PROVE CompleteSearch'
<1>1. pc = "search" /\ search \in Searches /\ UNCHANGED <<construction, pc>> /\ UNCHANGED <<placed, potential, edges>>
      /\ todo = {}
  BY DEF Pop, TypeInv, Asking, construction, relaxation
<1>2. PICK item \in search.queue :
        /\ search' = [search EXCEPT !.queue = search.queue \ {item}, !.from = item[1]]
        /\ todo' = IF item[1] = search.distance[item[2]] THEN {e \in DOMAIN edges : Near(e) = item[2]} ELSE {}
  BY DEF Pop
<1>3. /\ search'.queue = search.queue \ {item} /\ search'.from = item[1] /\ search'.distance = search.distance
      /\ search'.forward = search.forward /\ search'.negative = search.negative
  BY <1>1, <1>2 DEF Searches
<1>4. Ahead' = Ahead /\ Source' = Source /\ (\A e : Near(e)' = Near(e)) /\ \A e : Reduced(e)' = Reduced(e)
  BY <1>1, <1>3 DEF Ahead, Source, Near, Reduced
<1>5. /\ ~Ahead => Complete(TRUE, Source, search.forward)
      /\ Source \in DOMAIN search.distance /\ search.distance[Source] = 0
      /\ \A r \in DOMAIN search.distance : search.distance[r] >= 0
      /\ \A i \in search.queue : i[2] \in DOMAIN search.distance
      /\ \A e \in DOMAIN edges : Near(e) \in DOMAIN search.distance => Pending(e)
  BY <1>1 DEF CompleteSearch
<1>6. ~Ahead' => Complete(TRUE, Source, search.forward)'
  BY <1>1, <1>3, <1>4, <1>5, CompleteKept DEF Complete, Relaxed
<1>7. item[2] \in DOMAIN search.distance /\ item = <<item[1], item[2]>>
  BY <1>1, <1>5 DEF Searches, Items
<1>8. \A e \in todo' : Near(e) \in DOMAIN search.distance /\ search.distance[Near(e)] = item[1]
  BY <1>2, <1>7
<1>9. ASSUME NEW e \in DOMAIN edges, Near(e) \in DOMAIN search.distance PROVE Pending(e)'
  <2>1. CASE Relaxed(Ahead, search.distance, e)
    <3>1. Relaxed(Ahead, search.distance, e)'
      BY <1>3, <1>4, <2>1 DEF Relaxed
    <3> QED
      BY <3>1 DEF Pending
  <2>2. CASE <<search.distance[Near(e)], Near(e)>> \in search.queue
    <3>1. CASE <<search.distance[Near(e)], Near(e)>> = item
      <4>1. e \in todo'
        BY <1>2, <3>1
      <4> QED
        BY <4>1 DEF Pending
    <3>2. CASE <<search.distance[Near(e)], Near(e)>> # item
      BY <1>3, <1>4, <2>2, <3>2 DEF Pending
    <3> QED
      BY <3>1, <3>2
  <2> QED
    BY <1>1, <1>5, <1>9, <2>1, <2>2 DEF Pending
<1>10. \A e \in todo' : Near(e)' \in DOMAIN search'.distance /\ search'.distance[Near(e)'] = search'.from
  BY <1>3, <1>4, <1>8
<1>11. \A e \in DOMAIN edges' : Near(e)' \in DOMAIN search'.distance => Pending(e)'
  BY <1>1, <1>3, <1>4, <1>9
<1>12. \A i \in search'.queue : i[2] \in DOMAIN search'.distance
  BY <1>3, <1>5
<1> QED
  BY <1>3, <1>4, <1>5, <1>6, <1>10, <1>11, <1>12 DEF CompleteSearch

LEMMA VisitCompletes ==
  ASSUME TypeInv, FeasInv, Visit, CompleteSearch PROVE CompleteSearch'
<1>1. pc = "search" /\ Serving /\ InGraph /\ search \in Searches /\ UNCHANGED construction
      /\ UNCHANGED <<placed, potential, edges>>
  BY DEF Visit, TypeInv, Asking, construction, relaxation, Serving, InGraph
<1>2. PICK e \in todo :
        IF visits >= MaxVisits \/ ~Fits(search.from + Reduced(e))
        THEN Refuse(search.positive, search.negative)
        ELSE /\ todo' = todo \ {e}
             /\ search' = IF Closer(Other(e), search.from + Reduced(e))
                          THEN [search EXCEPT
                                  !.distance = [n \in DOMAIN search.distance \union {Other(e)} |->
                                                  IF n = Other(e) THEN search.from + Reduced(e) ELSE search.distance[n]],
                                  !.queue = search.queue \union {<<search.from + Reduced(e), Other(e)>>}]
                          ELSE search
             /\ UNCHANGED <<pc, failed, answer>>
  BY DEF Visit
<1>3. CASE Refuse(search.positive, search.negative)
  BY <1>3 DEF Refuse, Reply, CompleteSearch
<1>4. CASE ~Refuse(search.positive, search.negative)
  <2> DEFINE c == search.from + Reduced(e)
             o == Other(e)
             old == search.distance
             d == [n \in DOMAIN old \union {o} |-> IF n = o THEN c ELSE old[n]]
  <2>1. /\ todo' = todo \ {e}
        /\ search' = IF Closer(o, c)
                     THEN [search EXCEPT !.distance = d, !.queue = search.queue \union {<<c, o>>}] ELSE search
    BY <1>2, <1>4
  <2>2. /\ ~Ahead => Complete(TRUE, Source, search.forward)
        /\ Source \in DOMAIN old /\ old[Source] = 0
        /\ \A r \in DOMAIN old : old[r] >= 0
        /\ \A i \in search.queue : i[2] \in DOMAIN old
        /\ \A f \in todo : Near(f) \in DOMAIN old /\ old[Near(f)] = search.from
        /\ \A f \in DOMAIN edges : Near(f) \in DOMAIN old => Pending(f)
    BY <1>1 DEF CompleteSearch
  <2>3. e \in DOMAIN edges /\ o = FarEnd(Ahead, e) /\ \A f : Near(f) = NearEnd(Ahead, f)
    BY DEF TypeInv, TypeOK, Other, Near, NearEnd, FarEnd, Ahead
  <2>4. search.from \in Int /\ Reduced(e) \in Nat /\ search.from >= 0 /\ c \in Nat /\ search.from <= c
    <3>1. search.from \in Int /\ Reduced(e) \in Nat
      BY <1>1, <2>3, ReducedType DEF Searches
    <3>2. search.from >= 0
      BY <2>2
    <3> QED
      BY <3>1, <3>2
  <2>5. \A r \in DOMAIN old : old[r] \in Int
    BY <1>1 DEF Searches, Dists
  <2>6. search'.from = search.from /\ search'.forward = search.forward /\ search'.negative = search.negative
    BY <1>1, <2>1 DEF Searches
  <2>7. Ahead' = Ahead /\ Source' = Source /\ (\A f : Near(f)' = Near(f)) /\ \A f : Reduced(f)' = Reduced(f)
    BY <1>1, <2>6 DEF Ahead, Source, Near, Reduced
  <2>8. ~Ahead' => Complete(TRUE, Source, search.forward)'
    BY <1>1, <2>2, <2>6, <2>7, CompleteKept DEF Complete, Relaxed
  <2>9. CASE Closer(o, c)
    <3> DEFINE new == search'.distance
    <3>1. search'.distance = d /\ search'.queue = search.queue \union {<<c, o>>}
      BY <1>1, <2>1, <2>9 DEF Searches
    <3>2. /\ DOMAIN new = DOMAIN old \union {o} /\ new[o] = c
          /\ \A r \in DOMAIN old : r # o => new[r] = old[r]
          /\ \A r \in DOMAIN old : new[r] <= old[r] /\ new[r] \in Int
      <4>1. o \in DOMAIN old => c < old[o]
        BY <2>9 DEF Closer
      <4> HIDE DEF c, o, old
      <4> QED
        BY <2>4, <2>5, <3>1, <4>1
    <3>3. \A f \in todo : Near(f) # o /\ Source # o
      BY <2>2, <2>4, <2>9 DEF Closer
    <3> HIDE DEF c, o, old, d, new
    <3>4. Source' \in DOMAIN new /\ new[Source'] = 0
      BY <2>2, <2>7, <3>2, <3>3
    <3>5. \A r \in DOMAIN new : new[r] >= 0
      BY <2>2, <2>4, <3>2
    <3>6. \A i \in search'.queue : i[2] \in DOMAIN new
      BY <2>2, <3>1, <3>2
    <3>7. \A f \in todo' : Near(f)' \in DOMAIN new /\ new[Near(f)'] = search'.from
      BY <2>1, <2>2, <2>6, <2>7, <3>2, <3>3
    <3>8. ASSUME NEW f \in DOMAIN edges, Near(f) \in DOMAIN new PROVE Pending(f)'
      <4>1. CASE Near(f) = o
        <5>1. <<new[Near(f)], Near(f)>> \in search'.queue
          BY <3>1, <3>2, <4>1
        <5> QED
          BY <2>7, <5>1 DEF Pending, new
      <4>2. CASE Near(f) # o
        <5>1. Near(f) \in DOMAIN old /\ new[Near(f)] = old[Near(f)] /\ Pending(f)
          BY <2>2, <3>2, <3>8, <4>2
        <5>2. CASE f \in todo \ {e}
          BY <2>1, <5>2 DEF Pending
        <5>3. CASE <<old[Near(f)], Near(f)>> \in search.queue
          <6>1. <<new[Near(f)], Near(f)>> \in search'.queue
            BY <3>1, <5>1, <5>3
          <6> QED
            BY <2>7, <6>1 DEF Pending, new
        <5>4. CASE f = e
          <6>1. o \in DOMAIN new /\ new[o] <= new[Near(e)] + Reduced(e)
            BY <2>2, <2>4, <3>2, <5>1, <5>4 DEF c
          <6>2. Relaxed(Ahead, search.distance, e)'
            BY <2>3, <2>7, <6>1 DEF Relaxed, new
          <6> QED
            BY <5>4, <6>2 DEF Pending
        <5>5. CASE Relaxed(Ahead, old, f)
          <6>1. FarEnd(Ahead, f) \in DOMAIN old /\ old[FarEnd(Ahead, f)] <= old[Near(f)] + Reduced(f)
            BY <2>3, <5>5 DEF Relaxed
          <6>2. Reduced(f) \in Nat /\ old[FarEnd(Ahead, f)] \in Int /\ old[Near(f)] \in Int
            BY <1>1, <2>5, <5>1, <6>1, ReducedType
          <6>3. FarEnd(Ahead, f) \in DOMAIN new /\ new[FarEnd(Ahead, f)] <= new[Near(f)] + Reduced(f)
            BY <3>2, <5>1, <6>1, <6>2
          <6>4. Relaxed(Ahead, search.distance, f)'
            BY <2>3, <2>7, <6>3 DEF Relaxed, new
          <6> QED
            BY <6>4 DEF Pending
        <5> QED
          BY <5>1, <5>2, <5>3, <5>4, <5>5 DEF Pending, old
      <4> QED
        BY <4>1, <4>2
    <3>9. \A f \in DOMAIN edges' : Near(f)' \in DOMAIN new => Pending(f)'
      BY <1>1, <2>7, <3>8
    <3> QED
      BY <2>8, <3>4, <3>5, <3>6, <3>7, <3>9 DEF CompleteSearch, new
  <2>10. CASE ~Closer(o, c)
    <3>1. search' = search
      BY <2>1, <2>10
    <3>2. o \in DOMAIN old /\ old[o] <= c
      BY <2>4, <2>5, <2>10 DEF Closer
    <3>3. Relaxed(Ahead, old, e)
      <4>1. old[o] <= old[Near(e)] + Reduced(e)
        BY <2>2, <3>2
      <4> QED
        BY <2>3, <3>2, <4>1 DEF Relaxed
    <3>4. ASSUME NEW f \in DOMAIN edges, Near(f) \in DOMAIN old PROVE Pending(f)'
      <4>1. Pending(f)
        BY <2>2, <3>4
      <4>2. CASE Relaxed(Ahead, old, f)
        <5>1. Relaxed(Ahead, search.distance, f)'
          BY <2>7, <3>1, <4>2 DEF Relaxed
        <5> QED
          BY <5>1 DEF Pending
      <4>3. CASE ~Relaxed(Ahead, old, f)
        <5>1. f # e
          BY <3>3, <4>3
        <5> QED
          BY <2>1, <2>7, <3>1, <4>1, <4>3, <5>1 DEF Pending
      <4> QED
        BY <4>2, <4>3
    <3>5. \A f \in DOMAIN edges' : Near(f)' \in DOMAIN search'.distance => Pending(f)'
      BY <1>1, <2>7, <3>1, <3>4
    <3>6. \A f \in todo' : Near(f)' \in DOMAIN search'.distance /\ search'.distance[Near(f)'] = search'.from
      BY <2>1, <2>2, <2>7, <3>1
    <3>7. /\ Source' \in DOMAIN search'.distance /\ search'.distance[Source'] = 0
          /\ \A r \in DOMAIN search'.distance : search'.distance[r] >= 0
          /\ \A i \in search'.queue : i[2] \in DOMAIN search'.distance
      BY <2>2, <2>7, <3>1
    <3> QED
      BY <2>8, <3>5, <3>6, <3>7 DEF CompleteSearch
  <2> QED
    BY <2>9, <2>10
<1> QED
  BY <1>3, <1>4

\* Potentials that keep every edge and put each root at its distance, or farther
\* than low where it has none.
AtDistance(q, ahead, s, distance, low) ==
  /\ \A e \in DOMAIN edges : q[e[2]] <= q[e[1]] + edges[e]
  /\ \A r \in Roots : /\ Gap(q, ahead, s, r) \in Int
                      /\ IF r \in DOMAIN distance THEN Gap(q, ahead, s, r) = distance[r]
                         ELSE Gap(q, ahead, s, r) >= low

\* The distances of a search are levels above, or below, those of a solution, and
\* the roots that it has not reached can be as far away as one likes.
LEMMA DistancesAreLevels ==
  ASSUME TypeInv, FeasInv, Serving, NEW ahead \in BOOLEAN, NEW s \in Roots, NEW distance \in Dists,
         Complete(ahead, s, distance), NEW low \in Int
  PROVE  \E q \in [Roots -> Int] : AtDistance(q, ahead, s, distance, low)
<1>1. \A r \in Roots : potential[r] \in Int
  BY DEF TypeInv, Placed, Serving, InGraph
<1>2. \A r \in DOMAIN distance : r \in Roots /\ distance[r] \in Int
  BY DEF Dists
<1> DEFINE need == [r \in Roots |-> IF r \in DOMAIN distance THEN distance[r] ELSE low]
<1>3. need \in [Roots -> Int] /\ IsFiniteSet(Roots)
  BY <1>2, RootsFinite DEF Serving, InGraph
<1>4. PICK far \in Nat : \A r \in Roots : need[r] <= far
  <2> HIDE DEF need
  <2> QED
    BY <1>3, HasBound
<1>5. /\ \A r \in DOMAIN distance : distance[r] <= far
      /\ \A r \in Roots \ DOMAIN distance : low <= far
  BY <1>2, <1>4
<1> HIDE DEF need
<1> DEFINE f == [r \in Roots |-> IF r \in DOMAIN distance THEN distance[r] ELSE far]
           q == [r \in Roots |-> IF ahead THEN potential[r] + f[r] ELSE potential[r] - f[r]]
<1>6. \A r \in Roots : /\ f[r] \in Int /\ f[r] <= far
                       /\ r \in DOMAIN distance => f[r] = distance[r]
                       /\ r \notin DOMAIN distance => f[r] = far /\ low <= far
  BY <1>2, <1>5
<1>7. s \in DOMAIN distance /\ f[s] = 0
  BY DEF Complete
<1>8. ASSUME NEW e \in DOMAIN edges PROVE f[FarEnd(ahead, e)] <= f[NearEnd(ahead, e)] + Reduced(e)
  <2> DEFINE a == NearEnd(ahead, e)
             b == FarEnd(ahead, e)
  <2>1. Reduced(e) \in Nat /\ a \in Roots /\ b \in Roots
    BY ReducedType DEF NearEnd, FarEnd
  <2>2. CASE a \in DOMAIN distance
    <3>1. b \in DOMAIN distance /\ distance[b] <= distance[a] + Reduced(e)
      BY <2>2 DEF Complete, Relaxed
    <3> HIDE DEF a, b, f
    <3> QED
      BY <1>6, <2>1, <2>2, <3>1 DEF a, b
  <2>3. CASE a \notin DOMAIN distance
    <3> HIDE DEF a, b, f
    <3>1. f[a] = far /\ f[b] <= far /\ f[b] \in Int
      BY <1>6, <2>1, <2>3
    <3>2. f[b] <= f[a] + Reduced(e)
      BY <2>1, <3>1
    <3> QED
      BY <3>2 DEF a, b
  <2> QED
    BY <2>2, <2>3
<1> HIDE DEF f
<1>9. \A r \in Roots : q[r] = (IF ahead THEN potential[r] + f[r] ELSE potential[r] - f[r]) /\ q[r] \in Int
  BY <1>1, <1>6
<1>10. q \in [Roots -> Int]
  BY <1>1, <1>6
<1> HIDE DEF q
<1>11. ASSUME NEW e \in DOMAIN edges PROVE q[e[2]] <= q[e[1]] + edges[e]
  <2>1. e[1] \in Roots /\ e[2] \in Roots /\ Reduced(e) = edges[e] + potential[e[1]] - potential[e[2]]
    BY ReducedType DEF Reduced
  <2>2. edges[e] \in Int /\ potential[e[1]] \in Int /\ potential[e[2]] \in Int /\ f[e[1]] \in Int /\ f[e[2]] \in Int
    BY <1>1, <1>6, <2>1 DEF TypeInv, TypeOK
  <2>3. CASE ahead
    <3>1. f[e[2]] <= f[e[1]] + Reduced(e)
      BY <1>8, <2>3 DEF FarEnd, NearEnd
    <3>2. q[e[2]] = potential[e[2]] + f[e[2]] /\ q[e[1]] = potential[e[1]] + f[e[1]]
      BY <1>9, <2>1, <2>3
    <3> QED
      BY <2>1, <2>2, <3>1, <3>2
  <2>4. CASE ~ahead
    <3>1. f[e[1]] <= f[e[2]] + Reduced(e)
      BY <1>8, <2>4 DEF FarEnd, NearEnd
    <3>2. q[e[2]] = potential[e[2]] - f[e[2]] /\ q[e[1]] = potential[e[1]] - f[e[1]]
      BY <1>9, <2>1, <2>4
    <3> QED
      BY <2>1, <2>2, <3>1, <3>2
  <2> QED
    BY <2>3, <2>4
<1>12. ASSUME NEW r \in Roots PROVE Gap(q, ahead, s, r) = f[r]
  <2>1. /\ potential[r] \in Int /\ potential[s] \in Int /\ f[r] \in Int /\ f[s] = 0
        /\ q[r] = IF ahead THEN potential[r] + f[r] ELSE potential[r] - f[r]
        /\ q[s] = IF ahead THEN potential[s] + f[s] ELSE potential[s] - f[s]
    BY <1>1, <1>6, <1>7, <1>9
  <2>2. Gap(q, ahead, s, r) = IF ahead THEN (q[r] - potential[r]) - (q[s] - potential[s])
                              ELSE (q[s] - potential[s]) - (q[r] - potential[r])
    BY DEF Gap, Level
  <2> QED
    BY <2>1, <2>2
<1>13. AtDistance(q, ahead, s, distance, low)
  BY <1>6, <1>11, <1>12 DEF AtDistance
<1> QED
  BY <1>10, <1>13

\* Voltages that differ by so much, or by more than whatever is asked for.
Reaches(p, n, end) ==
  IF end # None THEN \E v \in [Nodes -> Int] : Solves(v) /\ v[p] - v[n] = end
  ELSE \A low \in Int : \E v \in [Nodes -> Int] : Solves(v) /\ v[p] - v[n] >= low

\* Both ends of an interval are met by a solution.
Met(p, n, interval) ==
  /\ Reaches(p, n, interval.upper)
  /\ Reaches(n, p, IF interval.lower # None THEN -interval.lower ELSE None)

MetAnswer == Answered => Met(answer.positive, answer.negative, answer.result)

\* One end of the interval that complete distances give.
LEMMA EndMet ==
  ASSUME TypeInv, FeasInv, Serving, NEW ahead \in BOOLEAN, NEW p \in Nodes, NEW n \in Nodes, NEW distance \in Dists,
         Complete(ahead, placed[n].root, distance),
         NEW base, base = potential[placed[p].root] - potential[placed[n].root] + Offset(p, n)
  PROVE  LET r == placed[p].root
             far == IF ahead THEN base + distance[r] ELSE -(base - distance[r])
         IN  /\ base \in Int /\ (r \in DOMAIN distance => distance[r] \in Int)
             /\ Reaches(IF ahead THEN p ELSE n, IF ahead THEN n ELSE p, IF r \in DOMAIN distance THEN far ELSE None)
<1> DEFINE r == placed[p].root
           s == placed[n].root
           a == IF ahead THEN p ELSE n
           b == IF ahead THEN n ELSE p
<1>1. r \in Roots /\ s \in Roots /\ placed[p].offset \in Int /\ placed[n].offset \in Int
  BY RootsAreNodes DEF Serving, InGraph
<1>2. potential[r] \in Int /\ potential[s] \in Int /\ base \in Int
      /\ base = potential[r] - potential[s] + (placed[p].offset - placed[n].offset)
  BY <1>1 DEF TypeInv, Placed, Serving, InGraph, Offset
<1>3. r \in DOMAIN distance => distance[r] \in Int
  BY DEF Dists
<1>4. ASSUME NEW low \in Int
      PROVE  \E v \in [Nodes -> Int] :
               Solves(v) /\ IF r \in DOMAIN distance
                            THEN v[a] - v[b] = IF ahead THEN base + distance[r] ELSE -(base - distance[r])
                            ELSE v[a] - v[b] >= low
  <2> DEFINE step == IF ahead THEN low - base ELSE low + base
  <2>1. step \in Int
    <3>1. CASE ahead
      BY <3>1, <1>2
    <3>2. CASE ~ ahead
      BY <3>2, <1>2
    <3> QED
      BY <3>1, <3>2
  <2> HIDE DEF step, r, s
  <2>2. PICK q \in [Roots -> Int] : AtDistance(q, ahead, s, distance, step)
    <3>1. Complete(ahead, s, distance)
      BY DEF s
    <3> QED
      BY <1>1, <2>1, <3>1, DistancesAreLevels
  <2> DEFINE v == VoltsOf(q)
             g == Gap(q, ahead, s, r)
  <2>3. v \in [Nodes -> Int] /\ Solves(v)
    BY <2>2, PotentialsSolve DEF AtDistance
  <2>4. v[p] = q[r] + placed[p].offset /\ v[n] = q[s] + placed[n].offset
    BY DEF VoltsOf, r, s
  <2>5. g = IF ahead THEN (q[r] - potential[r]) - (q[s] - potential[s]) ELSE (q[s] - potential[s]) - (q[r] - potential[r])
    BY DEF Gap, Level
  <2>6. q[r] \in Int /\ q[s] \in Int /\ g \in Int
    BY <1>1, <2>2 DEF AtDistance
  <2> HIDE DEF g
  <2>7. v[p] - v[n] = IF ahead THEN base + g ELSE base - g
    <3> HIDE DEF v
    <3> QED
      BY <1>1, <1>2, <2>4, <2>5, <2>6
  <2>8. v[p] \in Int /\ v[n] \in Int
    BY <2>3
  <2> HIDE DEF v
  <2>9. v[a] - v[b] = IF ahead THEN base + g ELSE -(base - g)
    BY <1>2, <2>6, <2>7, <2>8
  <2>10. IF r \in DOMAIN distance THEN g = distance[r] ELSE g >= step
    BY <1>1, <2>2 DEF g, AtDistance
  <2>11. IF r \in DOMAIN distance THEN v[a] - v[b] = IF ahead THEN base + distance[r] ELSE -(base - distance[r])
         ELSE v[a] - v[b] >= low
    BY <1>2, <1>3, <2>6, <2>9, <2>10 DEF step
  <2> QED
    BY <2>3, <2>11
<1>5. CASE r \in DOMAIN distance
  <2> DEFINE far == IF ahead THEN base + distance[r] ELSE -(base - distance[r])
  <2>1. far \in Int /\ far # None
    BY <1>2, <1>3, <1>5, NumberAssumption
  <2>2. \E v \in [Nodes -> Int] : Solves(v) /\ v[a] - v[b] = far
    BY <1>4, <1>5
  <2> QED
    BY <1>2, <1>3, <1>5, <2>1, <2>2 DEF Reaches
<1>6. CASE r \notin DOMAIN distance
  BY <1>2, <1>4, <1>6 DEF Reaches
<1> QED
  BY <1>5, <1>6

LEMMA IntervalMet ==
  ASSUME TypeInv, FeasInv, Serving, NEW p \in Nodes, NEW n \in Nodes, NEW forward \in Dists, NEW reverse \in Dists,
         Complete(TRUE, placed[n].root, forward), Complete(FALSE, placed[n].root, reverse)
  PROVE  Met(p, n, Interval(p, n, forward, reverse))
<1> DEFINE r == placed[p].root
           base == potential[r] - potential[placed[n].root] + Offset(p, n)
           i == Interval(p, n, forward, reverse)
<1>1. /\ base \in Int /\ (r \in DOMAIN forward => forward[r] \in Int)
      /\ Reaches(p, n, IF r \in DOMAIN forward THEN base + forward[r] ELSE None)
  <2>1. Complete(TRUE, placed[n].root, forward) /\ TRUE \in BOOLEAN
    OBVIOUS
  <2> QED
    BY <2>1, EndMet
<1>2. /\ base \in Int /\ (r \in DOMAIN reverse => reverse[r] \in Int)
      /\ Reaches(n, p, IF r \in DOMAIN reverse THEN -(base - reverse[r]) ELSE None)
  BY EndMet
<1>3. /\ i.lower = IF r \in DOMAIN reverse THEN base - reverse[r] ELSE None
      /\ i.upper = IF r \in DOMAIN forward THEN base + forward[r] ELSE None
  BY DEF Interval
<1>4. base \in Int
  BY <1>1, RootsAreNodes DEF Serving, InGraph, TypeInv, Placed, Offset
<1> HIDE DEF base, r, i
<1>5. Reaches(p, n, i.upper)
  BY <1>1, <1>3
<1>6. (IF i.lower # None THEN -i.lower ELSE None) = IF r \in DOMAIN reverse THEN -(base - reverse[r]) ELSE None
  BY <1>2, <1>3, <1>4, NumberAssumption
<1>7. Reaches(n, p, IF i.lower # None THEN -i.lower ELSE None)
  BY <1>2, <1>6
<1> QED
  BY <1>5, <1>7 DEF Met, i

MetInv == CompleteCache /\ CompleteSearch /\ MetAnswer

LEMMA MetKept ==
  ASSUME UNCHANGED system
  PROVE  \A p, n, interval : Met(p, n, interval)' <=> Met(p, n, interval)
BY DEF Met, Reaches, Solves

LEMMA ReplyMet ==
  ASSUME UNCHANGED construction, NEW p, NEW n, NEW result, Reply(p, n, result),
         result \notin {Exceeded, Unknown} => Met(p, n, result)
  PROVE  MetAnswer' /\ CompleteSearch'
<1>1. pc' = "ready" /\ answer' = [positive |-> p, negative |-> n, result |-> result]
  BY DEF Reply
<1>2. answer'.result = result /\ answer'.positive = p /\ answer'.negative = n
  BY <1>1
<1>3. UNCHANGED system
  BY DEF construction
<1>4. MetAnswer'
  BY <1>2, <1>3, MetKept DEF MetAnswer, Answered
<1> QED
  BY <1>1, <1>4 DEF CompleteSearch

LEMMA ConcludeMet ==
  ASSUME TypeInv, FeasInv, Serving, UNCHANGED construction, NEW p \in Nodes, NEW n \in Nodes,
         NEW forward \in Dists, NEW reverse \in Dists,
         Complete(TRUE, placed[n].root, forward), Complete(FALSE, placed[n].root, reverse),
         Conclude(p, n, forward, reverse)
  PROVE  MetAnswer' /\ CompleteSearch'
<1>1. CASE Reply(p, n, Interval(p, n, forward, reverse))
  BY <1>1, IntervalMet, ReplyMet
<1>2. CASE Refuse(p, n)
  BY <1>2, ReplyMet DEF Refuse
<1> QED
  BY <1>1, <1>2 DEF Conclude

\* What was known of cache and answer stays so as long as they stay.
LEMMA CacheKept ==
  ASSUME UNCHANGED construction
  PROVE  /\ CompleteCache /\ UNCHANGED cache => CompleteCache'
         /\ MetAnswer /\ UNCHANGED answer /\ (Serving' => Serving) => MetAnswer'
<1>1. UNCHANGED system
  BY DEF construction
<1> QED
  BY <1>1, CompleteKept, MetKept DEF CompleteCache, MetAnswer, Answered

LEMMA SearchMet ==
  ASSUME TypeInv, FeasInv, SearchStep, MetInv
  PROVE  MetInv'
<1>1. pc = "search" /\ Serving /\ search \in Searches /\ UNCHANGED construction
      /\ CompleteCache /\ CompleteSearch /\ MetAnswer
  BY DEF SearchStep, Pop, Visit, ForwardDone, ReverseDone, Searched, TypeInv, Asking, Serving, MetInv
<1>2. CASE Pop
  <2>1. UNCHANGED <<cache, answer>>
    BY <1>2 DEF Pop
  <2> QED
    BY <1>1, <1>2, <2>1, PopCompletes, CacheKept DEF MetInv
<1>3. CASE Visit
  <2>1. UNCHANGED cache /\ CompleteSearch'
    BY <1>1, <1>3, VisitCompletes DEF Visit
  <2>2. Refuse(search.positive, search.negative) \/ UNCHANGED answer
    BY <1>3 DEF Visit
  <2>3. MetAnswer'
    BY <1>1, <2>2, CacheKept, ReplyMet DEF Refuse
  <2> QED
    BY <1>1, <2>1, <2>3, CacheKept DEF MetInv
<1>4. CASE ForwardDone
  <2>1. /\ Ahead /\ Distances(search.positive, search.negative, search.distance) /\ todo' = {} /\ todo = {}
        /\ UNCHANGED <<pc, cache, answer>> /\ search.negative \in Nodes /\ search.queue = {}
    BY <1>1, <1>4 DEF ForwardDone, Searched, Ahead, Searches
  <2>2. Complete(TRUE, Source, search.distance)
    <3>1. \A e \in DOMAIN edges : NearEnd(TRUE, e) = Near(e)
      BY <2>1 DEF NearEnd, Near, Ahead
    <3>2. \A e \in DOMAIN edges : Near(e) \in DOMAIN search.distance => Relaxed(TRUE, search.distance, e)
      BY <1>1, <2>1 DEF CompleteSearch, Pending, Relaxed, FarEnd, NearEnd
    <3> QED
      BY <1>1, <3>1, <3>2 DEF CompleteSearch, Complete
  <2>3. CompleteSearch'
    BY <1>1, <2>1, <2>2, SourceComplete DEF Source
  <2> QED
    BY <1>1, <2>1, <2>3, CacheKept DEF MetInv
<1>5. CASE ReverseDone
  <2>1. /\ ~Ahead /\ search.positive \in Nodes /\ search.negative \in Nodes
        /\ search.forward \in Dists /\ search.distance \in Dists /\ todo = {} /\ search.queue = {}
        /\ cache' = [root |-> Source, forward |-> search.forward, reverse |-> search.distance]
        /\ Conclude(search.positive, search.negative, search.forward, search.distance)
    BY <1>1, <1>5 DEF ReverseDone, Searched, Ahead, Searches, Source
  <2>2. Complete(FALSE, Source, search.distance)
    <3>1. \A e \in DOMAIN edges : NearEnd(FALSE, e) = Near(e)
      BY <2>1 DEF NearEnd, Near, Ahead
    <3>2. \A e \in DOMAIN edges : Near(e) \in DOMAIN search.distance => Relaxed(FALSE, search.distance, e)
      BY <1>1, <2>1 DEF CompleteSearch, Pending, Relaxed, FarEnd, NearEnd
    <3> QED
      BY <1>1, <3>1, <3>2 DEF CompleteSearch, Complete
  <2>3. Complete(TRUE, Source, search.forward)
    BY <1>1, <2>1 DEF CompleteSearch
  <2>4. MetAnswer' /\ CompleteSearch'
    BY <1>1, <2>1, <2>2, <2>3, ConcludeMet DEF Source
  <2>5. CompleteCache'
    <3>1. cache'.root = Source /\ cache'.forward = search.forward /\ cache'.reverse = search.distance
      BY <2>1
    <3>2. Complete(TRUE, Source, search.forward) = Complete(TRUE, cache.root, cache.forward)'
          /\ Complete(FALSE, Source, search.distance) = Complete(FALSE, cache.root, cache.reverse)'
      BY <1>1, <3>1, CompleteKept DEF Complete, Relaxed
    <3> QED
      BY <2>2, <2>3, <3>2 DEF CompleteCache
  <2> QED
    BY <2>4, <2>5 DEF MetInv
<1> QED
  BY <1>2, <1>3, <1>4, <1>5 DEF SearchStep

LEMMA AskMet ==
  ASSUME TypeInv, FeasInv, NEW p, NEW n, Ask(p, n), todo = {}, MetInv
  PROVE  MetInv'
<1>1. pc = "ready" /\ Serving /\ InGraph /\ UNCHANGED construction /\ UNCHANGED cache
      /\ CompleteCache /\ MetAnswer
  BY DEF Ask, AskFailed, AskTooOften, AskUnknown, AskTooLong, AskSameTree, AskCached, AskNew, Asked, Counted, Serving,
     InGraph, MetInv
<1>2. CompleteCache'
  BY <1>1, CacheKept
<1>3. CASE \/ AskFailed(p, n) \/ AskTooOften(p, n) \/ AskUnknown(p, n) \/ AskTooLong(p, n)
  <2>1. Reply(p, n, Exceeded) \/ Reply(p, n, Unknown)
    BY <1>3 DEF AskFailed, AskTooOften, AskUnknown, AskTooLong, Refuse
  <2> QED
    BY <1>1, <1>2, <2>1, ReplyMet DEF MetInv
<1>4. CASE AskSameTree(p, n)
  <2> DEFINE v == VoltsOf(potential)
             i == [lower |-> Offset(p, n), upper |-> Offset(p, n)]
  <2>1. /\ p \in Nodes /\ n \in Nodes /\ placed[p].root = placed[n].root
        /\ Reply(p, n, i)
    BY <1>4 DEF AskSameTree, Asked
  <2>2. v \in [Nodes -> Int] /\ Solves(v)
    <3>1. potential \in [Roots -> Int] /\ \A e \in DOMAIN edges : potential[e[2]] <= potential[e[1]] + edges[e]
      BY <1>1 DEF FeasInv, Respected, TypeInv, Placed
    <3> QED
      BY <1>1, <3>1, PotentialsSolve
  <2>3. /\ placed[p].offset \in Int /\ placed[n].offset \in Int /\ potential[placed[p].root] \in Int
        /\ v[p] = potential[placed[p].root] + placed[p].offset
        /\ v[n] = potential[placed[p].root] + placed[n].offset
    BY <1>1, <2>1, RootsAreNodes DEF TypeInv, Placed, VoltsOf
  <2>4. Offset(p, n) \in Int /\ v[p] - v[n] = Offset(p, n) /\ v[n] - v[p] = -Offset(p, n)
    <3> HIDE DEF v
    <3> QED
      BY <2>3 DEF Offset
  <2>5. Reaches(p, n, Offset(p, n)) /\ Reaches(n, p, -Offset(p, n))
    <3>1. Offset(p, n) # None /\ -Offset(p, n) # None
      BY <2>4, NumberAssumption
    <3> HIDE DEF v
    <3> QED
      BY <2>2, <2>4, <3>1 DEF Reaches
  <2>6. Met(p, n, i)
    <3>1. Offset(p, n) # None
      BY <2>4, NumberAssumption
    <3> QED
      BY <2>5, <3>1 DEF Met
  <2> QED
    BY <1>1, <1>2, <2>1, <2>6, ReplyMet DEF MetInv
<1>5. CASE AskCached(p, n)
  <2>1. /\ p \in Nodes /\ n \in Nodes /\ cache # None /\ cache.root = placed[n].root
        /\ Conclude(p, n, cache.forward, cache.reverse)
    BY <1>5 DEF AskCached, Asked, Cached
  <2>2. /\ cache.forward \in Dists /\ cache.reverse \in Dists
        /\ Complete(TRUE, placed[n].root, cache.forward) /\ Complete(FALSE, placed[n].root, cache.reverse)
    BY <1>1, <2>1 DEF TypeInv, Asking, Caches, CompleteCache
  <2> QED
    BY <1>1, <1>2, <2>1, <2>2, ConcludeMet DEF MetInv
<1>6. CASE AskNew(p, n)
  <2>1. n \in Nodes /\ Distances(p, n, None) /\ todo' = {} /\ UNCHANGED answer
    BY <1>6 DEF AskNew, Asked
  <2>2. CompleteSearch'
    BY <1>1, <2>1, SourceComplete
  <2> QED
    BY <1>1, <1>2, <2>1, <2>2, CacheKept DEF MetInv
<1> QED
  BY <1>3, <1>4, <1>5, <1>6 DEF Ask

LEMMA NextMet ==
  ASSUME TypeInv, FeasInv, AnswerInv, MetInv, [Next]_vars PROVE MetInv'
<1>1. CASE ForestStep \/ BoundStep
  <2>1. ~Serving /\ pc' # "search" /\ UNCHANGED service
    BY <1>1, WorkServesNobody
  <2>2. cache' = None /\ answer' = None
    BY <2>1 DEF TypeInv, Asking, service
  <2> QED
    BY <2>1, <2>2 DEF MetInv, CompleteCache, CompleteSearch, MetAnswer, Answered
<1>2. CASE SearchStep
  BY <1>2, SearchMet
<1>3. ASSUME NEW p, NEW n, Ask(p, n) PROVE MetInv'
  <2>1. todo = {}
    BY <1>3 DEF AnswerInv, Ask, AskFailed, AskTooOften, AskUnknown, AskTooLong, AskSameTree, AskCached, AskNew,
       Asked, Counted
  <2> QED
    BY <1>3, <2>1, AskMet
<1>4. CASE UNCHANGED vars
  <2>1. UNCHANGED <<pc, todo, cache, search, answer>> /\ UNCHANGED construction /\ UNCHANGED placed
    BY <1>4 DEF vars, construction, service, forest, find, relaxation
  <2>2. CompleteSearch'
    BY <2>1, CompleteKept DEF MetInv, CompleteSearch, Pending, Relaxed, Ahead, Source, Near, Complete
  <2>3. Serving' => Serving
    BY <2>1 DEF Serving
  <2> QED
    BY <2>1, <2>2, <2>3, CacheKept DEF MetInv
<1> QED
  BY <1>1, <1>2, <1>3, <1>4 DEF Next, Work

\* What bounds all solutions and is met by one is what Tightest finds.
LEMMA EndIsTight ==
  ASSUME TypeOK, NEW v \in [Nodes -> Int], Solves(v), NEW p \in Nodes, NEW n \in Nodes,
         NEW end \in Int \union {None}, Reaches(p, n, end),
         end # None => \A w \in [Nodes -> Int] : Solves(w) => w[p] - w[n] <= end
  PROVE  {end} \ {None} = Tightest(n, p)
<1> DEFINE t == Tightest(n, p)
<1>1. /\ t \subseteq Int /\ \A x, y \in t : x = y
      /\ \A w \in [Nodes -> Int] : Solves(w) => \A x \in t : w[p] - w[n] <= x
  BY TightestIs
<1>2. \A low \in Int : \E w \in [Nodes -> Int] :
        Solves(w) /\ (w[p] - w[n] \in t \/ (t = {} /\ w[p] - w[n] >= low))
  BY TightestIsMet
<1> HIDE DEF t
<1>3. CASE end # None
  <2>1. end \in Int /\ end + 1 \in Int
    BY <1>3
  <2>2. PICK w \in [Nodes -> Int] : Solves(w) /\ (w[p] - w[n] \in t \/ (t = {} /\ w[p] - w[n] >= end + 1))
    BY <1>2, <2>1
  <2>3. w[p] - w[n] <= end /\ w[p] - w[n] \in Int
    BY <1>3, <2>2
  <2>4. w[p] - w[n] \in t
    BY <2>1, <2>2, <2>3
  <2>5. PICK u \in [Nodes -> Int] : Solves(u) /\ u[p] - u[n] = end
    BY <1>3 DEF Reaches
  <2>6. end <= w[p] - w[n]
    BY <1>1, <2>4, <2>5
  <2>7. end = w[p] - w[n]
    BY <2>1, <2>3, <2>6
  <2> QED
    BY <1>1, <1>3, <2>4, <2>7 DEF t
<1>4. CASE end = None
  <2>1. ASSUME NEW x \in t PROVE FALSE
    <3>1. x \in Int /\ x + 1 \in Int
      BY <1>1
    <3>2. PICK u \in [Nodes -> Int] : Solves(u) /\ u[p] - u[n] >= x + 1
      BY <1>4, <3>1 DEF Reaches
    <3>3. u[p] - u[n] <= x /\ u[p] \in Int /\ u[n] \in Int
      BY <1>1, <3>2
    <3> QED
      BY <3>1, <3>2, <3>3
  <2> QED
    BY <1>4, <2>1 DEF t
<1> QED
  BY <1>3, <1>4

\* Both ends of every answer are tight, however the distances were found:
\* VoltageSystem.difference.
THEOREM AnswersTight == Spec => []AnswersAreTight
<1>1. Init => TypeInv /\ FeasInv /\ TruthInv /\ AnswerInv /\ MetInv
  <2> SUFFICES ASSUME Init PROVE TypeInv /\ FeasInv /\ TruthInv /\ AnswerInv /\ MetInv
    OBVIOUS
  <2>1. TypeInv /\ FeasInv /\ TruthInv /\ AnswerInv
    BY InitTypes, InitFeasible, InitTruth, InitAnswers
  <2>2. MetInv
    BY DEF Init, MetInv, CompleteCache, CompleteSearch, MetAnswer, Answered
  <2> QED
    BY <2>1, <2>2
<1>2. (TypeInv /\ FeasInv /\ TruthInv /\ AnswerInv /\ MetInv) /\ [Next]_vars
        => (TypeInv /\ FeasInv /\ TruthInv /\ AnswerInv /\ MetInv)'
  BY NextTypes, NextFeasible, NextTruth, NextAnswers, NextMet
<1>3. TypeInv /\ FeasInv /\ AnswerInv /\ MetInv => AnswersAreTight
  <2> SUFFICES ASSUME TypeInv, FeasInv, AnswerInv, MetInv, Answered
               PROVE  /\ {answer.result.upper} \ {None} = Tightest(answer.negative, answer.positive)
                      /\ {-x : x \in {answer.result.lower} \ {None}} = Tightest(answer.positive, answer.negative)
    BY DEF AnswersAreTight
  <2> DEFINE p == answer.positive
             n == answer.negative
             r == answer.result
             low == IF r.lower # None THEN -r.lower ELSE None
  <2>1. TypeOK /\ p \in Nodes /\ n \in Nodes /\ Met(p, n, r) /\ Serving
    BY DEF TypeInv, Asking, MetInv, MetAnswer, Answered
  <2>2. r.lower \in Int \union {None} /\ r.upper \in Int \union {None}
    <3>1. r \in Intervals
      BY DEF TypeInv, TypeOK, Answered
    <3> QED
      BY <3>1 DEF Intervals, Endpoints
  <2>3. Found \in [Nodes -> Int] /\ Solves(Found)
    <3>1. potential \in [Roots -> Int] /\ \A e \in DOMAIN edges : potential[e[2]] <= potential[e[1]] + edges[e]
      BY <2>1 DEF FeasInv, Respected, TypeInv, Placed, Serving, InGraph
    <3> QED
      BY <2>1, <3>1, PotentialsSolve DEF Found, VoltsOf
  <2>4. \A w \in [Nodes -> Int] : Solves(w) => Allows(r, w[p] - w[n])
    BY DEF AnswerInv, Informs, TrueAnswer
  <2> HIDE DEF p, n, r
  <2>5. {r.upper} \ {None} = Tightest(n, p)
    <3>1. \A w \in [Nodes -> Int] : Solves(w) => (r.upper # None => w[p] - w[n] <= r.upper)
      BY <2>4 DEF Allows
    <3>2. Reaches(p, n, r.upper)
      BY <2>1 DEF Met
    <3> QED
      BY <2>1, <2>2, <2>3, <3>1, <3>2, EndIsTight
  <2>6. {low} \ {None} = Tightest(p, n)
    <3>1. low \in Int \union {None}
      BY <2>2
    <3>2. ASSUME low # None, NEW w \in [Nodes -> Int], Solves(w) PROVE w[n] - w[p] <= low
      <4>1. r.lower # None /\ low = -r.lower /\ r.lower \in Int /\ w[n] \in Int /\ w[p] \in Int
        BY <2>1, <2>2, <3>2
      <4>2. r.lower <= w[p] - w[n]
        BY <2>4, <3>2, <4>1 DEF Allows
      <4> QED
        BY <4>1, <4>2
    <3>3. Reaches(n, p, low)
      BY <2>1 DEF Met
    <3> HIDE DEF low
    <3> QED
      BY <2>1, <2>3, <3>1, <3>2, <3>3, EndIsTight
  <2>7. {-x : x \in {r.lower} \ {None}} = {low} \ {None}
    BY <2>2, NumberAssumption
  <2> QED
    BY <2>5, <2>6, <2>7 DEF p, n, r
<1> QED
  BY <1>1, <1>2, <1>3, PTL DEF Spec

-----------------------------------------------------------------------------
\* Once the work exceeds its limits no query gets bounds any more: difference
\* looks at _failed before anything else, and a search that runs into a limit
\* has set it.
THEOREM BudgetIsFinal == Spec => NothingAfterBudget
<1>1. Init => TypeInv
  BY InitTypes
<1>2. TypeInv /\ [Next]_vars => TypeInv'
  BY NextTypes
<1>3. TypeInv /\ [Next]_vars =>
        [visits > MaxVisits \/ queries > MaxQueries => answer' = answer \/ answer'.result = Exceeded]_vars
  <2> SUFFICES ASSUME TypeInv, Next, visits > MaxVisits \/ queries > MaxQueries
               PROVE  answer' = answer \/ answer'.result = Exceeded
    BY DEF vars
  <2>1. failed \/ pc = "exhausted"
    BY DEF TypeInv, TypeOK
  <2>2. pc \notin {"search", "relax", "bound", "join", "climb", "compress", "settle"}
    BY <2>1 DEF TypeInv, Asking, Serving
  <2>3. ~ForestStep
    BY <2>2 DEF ForestStep, SkipRange, StartJoin, Climb, ReachRoot, Compress, FoundPositive, JoinTooLong,
                JoinSame, JoinTrees, JoinsDone, Settle, FoundPlace, AllSettled, Returns
  <2>4. ~BoundStep
    BY <2>2 DEF BoundStep, CheckBounds, AddEdges, BoundsDone, Relax, RoundsDone, EndRound
  <2>5. ~SearchStep
    BY <2>2 DEF SearchStep, Pop, Visit, ForwardDone, ReverseDone, Searched
  <2>6. PICK q \in Queries : Ask(q[1], q[2])
    BY <2>3, <2>4, <2>5 DEF Next, Work
  <2>7. pc = "ready"
    BY <2>6 DEF Ask, AskFailed, AskTooOften, AskUnknown, AskTooLong, AskSameTree, AskCached, AskNew, Asked, Counted
  <2>8. failed
    BY <2>1, <2>7
  <2>9. AskFailed(q[1], q[2])
    BY <2>6, <2>8 DEF Ask, AskTooOften, AskUnknown, AskTooLong, AskSameTree, AskCached, AskNew, Asked, Counted
  <2> QED
    BY <2>9 DEF AskFailed, Reply
<1> QED
  BY <1>1, <1>2, <1>3, PTL DEF Spec, NothingAfterBudget
=============================================================================
