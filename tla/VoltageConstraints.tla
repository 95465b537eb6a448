------------------------- MODULE VoltageConstraints -------------------------
(***************************************************************************)
(* VoltageSystem of voltage_constraints.py: bounds on differences of node   *)
(* voltages.  Exact differences join the nodes into a forest, the bounds    *)
(* that remain become edges between its roots, rounds of relaxation find    *)
(* potentials or a contradiction, and queries search shortest paths.  All   *)
(* of it works under budgets.                                               *)
(*                                                                         *)
(* A voltage is an integer; the rationals of a system are integers after    *)
(* scaling.  The names of nodes sort like numbers.                          *)
(***************************************************************************)
EXTENDS Integers, Sequences, FiniteSets, FiniteSetsExt, Functions

CONSTANTS
  Nodes,        \* the nodes of the system
  Queries,      \* the pairs of names asked for
  Systems,      \* the constraints, in the order of their labels
  MaxVolts,     \* no voltage is greater (volts accepts magnitudes up to 1e100)
  Fitting,      \* the numbers within the bit budget of _rational
  MaxVisits,    \* limits.max_edge_visits
  MaxQueries,   \* limits.max_queries
  Exceeded,     \* VoltageBudgetExceeded
  Unknown,      \* VoltageConstraintError of a query for a name that is no node
  None

Endpoints == Int \union {None}
Constraints == [positive : Nodes, negative : Nodes, lower : Endpoints, upper : Endpoints]
Intervals == [lower : Endpoints, upper : Endpoints]

ASSUME NodeAssumption == Nodes \subseteq Nat /\ IsFiniteSet(Nodes)
ASSUME LimitAssumption == MaxVolts \in Nat /\ MaxVisits \in Nat /\ MaxQueries \in Nat
ASSUME NumberAssumption == None \notin Int /\ Fitting \subseteq Int
ASSUME AnswerAssumption == {Exceeded, Unknown} \intersect Intervals = {}

ASSUME SystemAssumption ==
  \A s \in Systems :
    /\ s \in Seq(Constraints)
    /\ \A i \in DOMAIN s : ~(s[i].lower = None /\ s[i].upper = None)

VARIABLES
  system,      \* the constraints of this system
  pc,          \* the loop at work, or how the construction ended
  at,          \* the constraint it is at
  parent, weight, size,   \* _Forest
  walk,        \* local variables of find, and on whose behalf it was called
  left,        \* what find returned for the positive node of a join
  placed,      \* _nodes
  edges,       \* _edges
  potential,   \* distance in _feasible_potentials, then _potential
  round, changed,   \* its other local variables
  todo,        \* the edges still to visit, in a round or from a node
  visits,      \* _edge_visits
  queries,     \* _queries
  failed,      \* _failed
  cache,       \* _cached_root with its distances
  search,      \* local variables of difference and _distances
  answer       \* the last query and its result

forest == <<parent, weight, size>>
find == <<walk, left>>
relaxation == <<potential, round, changed>>
service == <<queries, failed, cache, search, answer>>
vars == <<system, pc, at, forest, find, placed, edges, relaxation, todo, visits, service>>

Fits(v) == v \in Fitting

Before(e, f) == e[1] < f[1] \/ (e[1] = f[1] /\ e[2] < f[2])
IsFirst(e, s) == \A f \in s \ {e} : Before(e, f)

Init ==
  /\ system \in Systems
  /\ pc = "join" /\ at = 1
  /\ parent = [n \in Nodes |-> n]
  /\ weight = [n \in Nodes |-> 0]
  /\ size = [n \in Nodes |-> 1]
  /\ walk = None /\ left = None
  /\ placed = [n \in Nodes |-> None]
  /\ edges = <<>> /\ potential = <<>>
  /\ round = 0 /\ changed = FALSE /\ todo = {}
  /\ visits = 0 /\ queries = 0 /\ failed = FALSE
  /\ cache = None /\ search = None /\ answer = None

-----------------------------------------------------------------------------
(***************************************************************************)
(* Exact differences.                                                      *)
(***************************************************************************)
Constraint == system[at]
IsPoint(c) == c.lower # None /\ c.lower = c.upper

afterForest == <<placed, edges, relaxation, todo, visits, service>>

\* find is called for n.
Walk(n, caller) ==
  /\ walk' = [node |-> n, caller |-> caller, cursor |-> n, root |-> None, offset |-> 0, rest |-> 0]
  /\ pc' = "climb"

SkipRange ==
  /\ pc = "join" /\ at <= Len(system)
  /\ ~IsPoint(Constraint)
  /\ at' = at + 1
  /\ UNCHANGED <<system, pc, forest, find, afterForest>>

StartJoin ==
  /\ pc = "join" /\ at <= Len(system)
  /\ IsPoint(Constraint)
  /\ Walk(Constraint.positive, "left")
  /\ UNCHANGED <<system, at, forest, left, afterForest>>

\* The first loop of find adds up the weights on the way to the root.
Climb ==
  /\ pc = "climb" /\ parent[walk.cursor] # walk.cursor
  /\ LET offset == walk.offset + weight[walk.cursor]
     IN  IF Fits(offset)
         THEN walk' = [walk EXCEPT !.offset = offset, !.cursor = parent[@]] /\ UNCHANGED pc
         ELSE pc' = "exhausted" /\ UNCHANGED walk
  /\ UNCHANGED <<system, at, forest, left, afterForest>>

ReachRoot ==
  /\ pc = "climb" /\ parent[walk.cursor] = walk.cursor
  /\ walk' = [walk EXCEPT !.root = walk.cursor, !.rest = walk.offset, !.cursor = walk.node]
  /\ pc' = "compress"
  /\ UNCHANGED <<system, at, forest, left, afterForest>>

Compress_SameRest ==
  /\ pc = "compress" /\ parent[walk.cursor] # walk.cursor
  /\ parent' = [parent EXCEPT ![walk.cursor] = walk.root]
  /\ weight' = [weight EXCEPT ![walk.cursor] = walk.rest]
  /\ walk' = [walk EXCEPT !.cursor = parent[@]]
  /\ UNCHANGED <<system, pc, at, size, left, afterForest>>

\* The second loop hangs every node of the path below the root.
Compress ==
  /\ pc = "compress" /\ parent[walk.cursor] # walk.cursor
  /\ parent' = [parent EXCEPT ![walk.cursor] = walk.root]
  /\ weight' = [weight EXCEPT ![walk.cursor] = walk.rest]
  /\ walk' = [walk EXCEPT !.rest = @ - weight[walk.cursor], !.cursor = parent[@]]
  /\ UNCHANGED <<system, pc, at, size, left, afterForest>>

Returns(caller) == pc = "compress" /\ parent[walk.cursor] = walk.cursor /\ walk.caller = caller
Result == [root |-> walk.root, offset |-> walk.offset]

FoundPositive ==
  /\ Returns("left")
  /\ left' = Result
  /\ Walk(Constraint.negative, "right")
  /\ UNCHANGED <<system, at, forest, afterForest>>

\* What the difference of the two roots must be.
Delta == Constraint.lower - left.offset + walk.offset

JoinTooLong ==
  /\ Returns("right") /\ ~Fits(Delta)
  /\ pc' = "exhausted"
  /\ UNCHANGED <<system, at, forest, find, afterForest>>

JoinSame ==
  /\ Returns("right") /\ Fits(Delta)
  /\ left.root = walk.root
  /\ pc' = IF Delta = 0 THEN "join" ELSE "inconsistent"
  /\ at' = at + 1
  /\ UNCHANGED <<system, forest, find, afterForest>>

Hung(child, root) ==
  /\ parent' = [parent EXCEPT ![child] = root]
  /\ weight' = [weight EXCEPT ![child] = IF child = left.root THEN Delta ELSE -Delta]
  /\ size' = [size EXCEPT ![root] = @ + size[child]]

\* The smaller tree is hung below the root of the other.
JoinTrees ==
  /\ Returns("right") /\ Fits(Delta)
  /\ left.root # walk.root
  /\ IF size[left.root] > size[walk.root]
     THEN Hung(walk.root, left.root) ELSE Hung(left.root, walk.root)
  /\ pc' = "join"
  /\ at' = at + 1
  /\ UNCHANGED <<system, find, afterForest>>

JoinsDone ==
  /\ pc = "join" /\ at > Len(system)
  /\ pc' = "settle"
  /\ UNCHANGED <<system, at, forest, find, afterForest>>

Settle ==
  /\ pc = "settle"
  /\ \E n \in Nodes :
       /\ placed[n] = None /\ \A m \in Nodes : placed[m] = None => n <= m
       /\ Walk(n, "settle")
  /\ UNCHANGED <<system, at, forest, left, afterForest>>

FoundPlace ==
  /\ Returns("settle")
  /\ placed' = [placed EXCEPT ![walk.node] = Result]
  /\ pc' = "settle"
  /\ UNCHANGED <<system, at, forest, find, edges, relaxation, todo, visits, service>>

AllSettled ==
  /\ pc = "settle" /\ \A n \in Nodes : placed[n] # None
  /\ pc' = "bound"
  /\ at' = 1
  /\ UNCHANGED <<system, forest, find, afterForest>>

ForestStep ==
  \/ SkipRange \/ StartJoin \/ Climb \/ ReachRoot \/ Compress
  \/ FoundPositive \/ JoinTooLong \/ JoinSame \/ JoinTrees \/ JoinsDone
  \/ Settle \/ FoundPlace \/ AllSettled

-----------------------------------------------------------------------------
(***************************************************************************)
(* Bounds, and potentials that keep all of them.                           *)
(***************************************************************************)
Roots == {placed[n].root : n \in Nodes}

Allows(c, difference) ==
  /\ c.lower # None => c.lower <= difference
  /\ c.upper # None => difference <= c.upper

\* Between nodes of one tree the constraint holds or it does not.
CheckBounds ==
  /\ pc = "bound" /\ at <= Len(system)
  /\ LET p == placed[Constraint.positive]
         n == placed[Constraint.negative]
     IN  /\ p.root = n.root
         /\ pc' = IF Allows(Constraint, p.offset - n.offset) THEN "bound" ELSE "inconsistent"
  /\ at' = at + 1
  /\ UNCHANGED <<system, forest, find, afterForest>>

NewEdges_OneOffset(c, p, n) ==
  [e \in {f \in {<<n.root, p.root>>, <<p.root, n.root>>} :
            IF f[2] = p.root THEN c.upper # None ELSE c.lower # None} |->
     IF e[2] = p.root THEN c.upper + n.offset - p.offset ELSE n.offset - p.offset - c.lower]

\* An edge bounds the difference of the two roots; a lower bound is an upper
\* bound of the opposite difference.
NewEdges(c, p, n) ==
  [e \in {f \in {<<n.root, p.root>>, <<p.root, n.root>>} :
            IF f[2] = p.root THEN c.upper # None ELSE c.lower # None} |->
     IF e[2] = p.root THEN c.upper + n.offset - p.offset ELSE p.offset - n.offset - c.lower]

AddEdges ==
  /\ pc = "bound" /\ at <= Len(system)
  /\ LET p == placed[Constraint.positive]
         n == placed[Constraint.negative]
         new == NewEdges(Constraint, p, n)
     IN  /\ p.root # n.root
         /\ edges' = [e \in DOMAIN edges \union DOMAIN new |->
                        IF e \in DOMAIN new /\ (e \in DOMAIN edges => new[e] < edges[e])
                        THEN new[e] ELSE edges[e]]
         /\ pc' = IF \A e \in DOMAIN new : Fits(new[e]) THEN "bound" ELSE "exhausted"
  /\ at' = at + 1
  /\ UNCHANGED <<system, forest, find, placed, relaxation, todo, visits, service>>

\* _feasible_potentials is called.
BoundsDone ==
  /\ pc = "bound" /\ at > Len(system)
  /\ potential' = [r \in Roots |-> 0]
  /\ round' = 1 /\ changed' = FALSE /\ todo' = DOMAIN edges
  /\ pc' = "relax"
  /\ UNCHANGED <<system, at, forest, find, placed, edges, visits, service>>

Relax ==
  /\ pc = "relax"
  /\ \E e \in todo :
       LET candidate == potential[e[1]] + edges[e]
       IN  /\ IsFirst(e, todo)
           /\ todo' = todo \ {e}
           /\ IF visits >= MaxVisits \/ ~Fits(candidate)
              THEN pc' = "exhausted" /\ UNCHANGED <<potential, changed>>
              ELSE /\ UNCHANGED pc
                   /\ changed' = (changed \/ candidate < potential[e[2]])
                   /\ potential' = [potential EXCEPT ![e[2]] = IF candidate < @ THEN candidate ELSE @]
  /\ visits' = visits + 1
  /\ UNCHANGED <<system, at, forest, find, placed, edges, round, service>>

\* The weight of an edge once potentials are known; it is not negative.
Reduced(e) == edges[e] + potential[e[1]] - potential[e[2]]

RoundsDone ==
  /\ pc = "relax" /\ todo = {} /\ ~changed
  /\ pc' = IF \A e \in DOMAIN edges : Fits(Reduced(e)) THEN "ready" ELSE "exhausted"
  /\ UNCHANGED <<system, at, forest, find, placed, edges, relaxation, todo, visits, service>>

\* A round that still changes something is the last one or followed by another.
EndRound ==
  /\ pc = "relax" /\ todo = {} /\ changed
  /\ IF round >= Cardinality(Roots)
     THEN pc' = "inconsistent" /\ UNCHANGED <<round, changed, todo>>
     ELSE round' = round + 1 /\ changed' = FALSE /\ todo' = DOMAIN edges /\ UNCHANGED pc
  /\ UNCHANGED <<system, at, forest, find, placed, edges, potential, visits, service>>

BoundStep == CheckBounds \/ AddEdges \/ BoundsDone \/ Relax \/ RoundsDone \/ EndRound

-----------------------------------------------------------------------------
(***************************************************************************)
(* Queries.                                                                *)
(***************************************************************************)
construction == <<system, at, forest, find, placed, edges, relaxation>>

Reply(p, n, result) ==
  /\ answer' = [positive |-> p, negative |-> n, result |-> result]
  /\ pc' = "ready"
  /\ search' = None
  /\ todo' = {}

Refuse_NoLatch(p, n) == Reply(p, n, Exceeded) /\ UNCHANGED failed
Refuse(p, n) == Reply(p, n, Exceeded) /\ failed' = TRUE

Offset(p, n) == placed[p].offset - placed[n].offset

\* The bounds the distances from the root of n give.
Interval(p, n, forward, reverse) ==
  LET root == placed[p].root
      base == potential[root] - potential[placed[n].root] + Offset(p, n)
  IN  [lower |-> IF root \in DOMAIN reverse THEN base - reverse[root] ELSE None,
       upper |-> IF root \in DOMAIN forward THEN base + forward[root] ELSE None]

Conclude(p, n, forward, reverse) ==
  LET interval == Interval(p, n, forward, reverse)
  IN  IF {interval.lower, interval.upper} \ {None} \subseteq Fitting
      THEN Reply(p, n, interval) /\ UNCHANGED failed
      ELSE Refuse(p, n)

AskFailed(p, n) ==
  /\ pc = "ready" /\ failed
  /\ Reply(p, n, Exceeded)
  /\ UNCHANGED <<construction, visits, queries, failed, cache>>

AskTooOften(p, n) ==
  /\ pc = "ready" /\ ~failed /\ queries >= MaxQueries
  /\ Refuse(p, n)
  /\ queries' = queries + 1
  /\ UNCHANGED <<construction, visits, cache>>

Counted == pc = "ready" /\ ~failed /\ queries < MaxQueries /\ queries' = queries + 1

AskUnknown(p, n) ==
  /\ Counted
  /\ {p, n} \ Nodes # {}
  /\ Reply(p, n, Unknown)
  /\ UNCHANGED <<construction, visits, failed, cache>>

\* An offset beyond the bit budget is refused without setting _failed.
AskTooLong(p, n) ==
  /\ Counted
  /\ {p, n} \subseteq Nodes /\ ~Fits(Offset(p, n))
  /\ Reply(p, n, Exceeded)
  /\ UNCHANGED <<construction, visits, failed, cache>>

Asked(p, n) == Counted /\ {p, n} \subseteq Nodes /\ Fits(Offset(p, n))

AskSameTree(p, n) ==
  /\ Asked(p, n)
  /\ placed[p].root = placed[n].root
  /\ Reply(p, n, [lower |-> Offset(p, n), upper |-> Offset(p, n)])
  /\ UNCHANGED <<construction, visits, failed, cache>>

Cached_AnyRoot(n) == cache # None
Cached(n) == cache # None /\ cache.root = placed[n].root

AskCached(p, n) ==
  /\ Asked(p, n)
  /\ placed[p].root # placed[n].root /\ Cached(n)
  /\ Conclude(p, n, cache.forward, cache.reverse)
  /\ UNCHANGED <<construction, visits, cache>>

\* _distances from r; the forward distances are known in the second call.
Distances(p, n, forward) ==
  search' = [positive |-> p, negative |-> n, forward |-> forward, from |-> 0,
             distance |-> [r \in {placed[n].root} |-> 0], queue |-> {<<0, placed[n].root>>}]

AskNew(p, n) ==
  /\ Asked(p, n)
  /\ placed[p].root # placed[n].root /\ ~Cached(n)
  /\ Distances(p, n, None)
  /\ pc' = "search"
  /\ UNCHANGED <<construction, todo, visits, failed, cache, answer>>

Near(e) == IF search.forward = None THEN e[1] ELSE e[2]
Other(e) == IF search.forward = None THEN e[2] ELSE e[1]

Pop_Peeks ==
  /\ pc = "search" /\ todo = {}
  /\ \E item \in search.queue :
       /\ IsFirst(item, search.queue)
       /\ IF item[1] = search.distance[item[2]]
          THEN /\ search' = [search EXCEPT !.queue = @ \ {item}, !.from = item[1]]
               /\ todo' = {e \in DOMAIN edges : Near(e) = item[2]}
          ELSE UNCHANGED <<search, todo>>
  /\ UNCHANGED <<construction, pc, visits, queries, failed, cache, answer>>

\* The nearest entry of the heap, which is passed over if it is stale.
Pop ==
  /\ pc = "search" /\ todo = {}
  /\ \E item \in search.queue :
       /\ IsFirst(item, search.queue)
       /\ search' = [search EXCEPT !.queue = @ \ {item}, !.from = item[1]]
       /\ todo' = IF item[1] = search.distance[item[2]]
                  THEN {e \in DOMAIN edges : Near(e) = item[2]} ELSE {}
  /\ UNCHANGED <<construction, pc, visits, queries, failed, cache, answer>>

Closer(n, candidate) == n \in DOMAIN search.distance => candidate < search.distance[n]

Visit ==
  /\ pc = "search"
  /\ \E e \in todo :
       LET candidate == search.from + Reduced(e)
       IN  /\ IsFirst(e, todo)
           /\ IF visits >= MaxVisits \/ ~Fits(candidate)
              THEN Refuse(search.positive, search.negative)
              ELSE /\ todo' = todo \ {e}
                   /\ search' = IF Closer(Other(e), candidate)
                                THEN [search EXCEPT
                                        !.distance = [n \in DOMAIN @ \union {Other(e)} |->
                                                        IF n = Other(e) THEN candidate ELSE @[n]],
                                        !.queue = @ \union {<<candidate, Other(e)>>}]
                                ELSE search
                   /\ UNCHANGED <<pc, failed, answer>>
  /\ visits' = visits + 1
  /\ UNCHANGED <<construction, queries, cache>>

Searched == pc = "search" /\ todo = {} /\ search.queue = {}

ForwardDone ==
  /\ Searched /\ search.forward = None
  /\ Distances(search.positive, search.negative, search.distance)
  /\ UNCHANGED <<construction, pc, todo, visits, queries, failed, cache, answer>>

ReverseDone ==
  /\ Searched /\ search.forward # None
  /\ cache' = [root |-> placed[search.negative].root,
               forward |-> search.forward, reverse |-> search.distance]
  /\ Conclude(search.positive, search.negative, search.forward, search.distance)
  /\ UNCHANGED <<construction, visits, queries>>

Ask(p, n) ==
  \/ AskFailed(p, n) \/ AskTooOften(p, n) \/ AskUnknown(p, n) \/ AskTooLong(p, n)
  \/ AskSameTree(p, n) \/ AskCached(p, n) \/ AskNew(p, n)

SearchStep == Pop \/ Visit \/ ForwardDone \/ ReverseDone

Work == ForestStep \/ BoundStep \/ SearchStep

Next == Work \/ \E q \in Queries : Ask(q[1], q[2])

Spec == Init /\ [][Next]_vars

\* A constructor or a query that was called runs on; nobody has to call one.
FairSpec == Spec /\ WF_vars(Work)

-----------------------------------------------------------------------------
(***************************************************************************)
(* Properties.                                                             *)
(***************************************************************************)
Serving == pc \in {"ready", "search"}

\* Every variable stays within its type, and the work is counted.
TypeOK ==
  /\ system \in Systems
  /\ pc \in {"join", "climb", "compress", "settle", "bound", "relax", "ready", "search",
             "inconsistent", "exhausted"}
  /\ at \in 1 .. Len(system) + 1
  /\ parent \in [Nodes -> Nodes] /\ weight \in [Nodes -> Int] /\ size \in [Nodes -> Nat]
  /\ \A n \in Nodes : placed[n] # None => placed[n] \in [root : Nodes, offset : Int]
  /\ edges \in [DOMAIN edges -> Int] /\ DOMAIN edges \subseteq Nodes \X Nodes
  /\ potential \in [DOMAIN potential -> Int] /\ DOMAIN potential \subseteq Nodes
  /\ round \in Nat /\ changed \in BOOLEAN /\ todo \subseteq DOMAIN edges
  /\ visits \in 0 .. MaxVisits + 1 /\ queries \in 0 .. MaxQueries + 1 /\ failed \in BOOLEAN
  /\ visits > MaxVisits \/ queries > MaxQueries => failed \/ pc = "exhausted"
  /\ answer # None => answer.result \in Intervals \union {Exceeded, Unknown}

Volts == -MaxVolts .. MaxVolts
Keeps(v, c) == Allows(c, v[c.positive] - v[c.negative])
Solves(v) == \A i \in DOMAIN system : Keeps(v, system[i])

\* The voltages the potentials stand for.
Found == [n \in Nodes |-> potential[placed[n].root] + placed[n].offset]

\* A system that was accepted has a solution: the potentials keep every
\* constraint that was declared, those that the forest absorbed included.
AcceptedIsFeasible == Serving => Solves(Found)

\* InconsistentVoltages is raised "only for a proved contradiction" (docstring of
\* VoltageSystem): no voltages keep all the constraints.
ConflictIsReal == pc = "inconsistent" => ~\E v \in [Nodes -> Volts] : Solves(v)

\* The answer to the last query, when it has one.
Answered == Serving /\ answer # None /\ answer.result \notin {Exceeded, Unknown}

\* No voltages that keep the constraints differ by more or less than was answered.
AnswersCover ==
  Answered => \A v \in [Nodes -> Volts] :
    Solves(v) => Allows(answer.result, v[answer.positive] - v[answer.negative])

Least(s) == {x \in s : \A y \in s : x <= y}

\* The bounds on V(b) - V(a) that one constraint gives, and 0 for one node.
Declared(a, b) ==
  {0 : x \in {a} \intersect {b}}
    \union {c.upper : c \in {d \in Range(system) : d.upper # None /\ d.negative = a /\ d.positive = b}}
    \union {-c.lower : c \in {d \in Range(system) : d.lower # None /\ d.positive = a /\ d.negative = b}}

Pairs == Nodes \X Nodes

Through(chain, k, a, b) == {x + y : x \in chain[<<a, k>>], y \in chain[<<k, b>>]}

Extended(chain, k) ==
  IF k \notin Nodes THEN chain
  ELSE [ends \in Pairs |-> Least(chain[ends] \union Through(chain, k, ends[1], ends[2]))]

\* For each pair of nodes the least bound, or none, of the chains of constraints
\* that have only nodes below k in between.
Chained[k \in Nat] ==
  IF k = 0 THEN [ends \in Pairs |-> Least(Declared(ends[1], ends[2]))]
  ELSE Extended(Chained[k - 1], k - 1)

\* The greatest V(n) - V(m) that the constraints allow, or none.
Tightest(m, n) == Chained[Max(Nodes) + 1][<<m, n>>]

\* Both ends of an answer are tight, and an end is infinite exactly when nothing
\* bounds it.
AnswersAreTight ==
  Answered =>
    /\ {answer.result.upper} \ {None} = Tightest(answer.negative, answer.positive)
    /\ {-x : x \in {answer.result.lower} \ {None}} = Tightest(answer.positive, answer.negative)

\* "No partial/previous result is returned after a query exhausts its budget"
\* (docstring of VoltageSystem): once the work exceeds its limits no query gets
\* bounds, not even one that needs no more work.
NothingAfterBudget ==
  [][visits > MaxVisits \/ queries > MaxQueries =>
       answer' = answer \/ answer'.result = Exceeded]_vars

\* The constructor and every query come to an end.
WorkEnds == []<>(pc \in {"ready", "inconsistent", "exhausted"})
=============================================================================
