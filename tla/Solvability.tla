----------------------------- MODULE Solvability -----------------------------
(***************************************************************************)
(* The checks of solvability.py on an expanded netlist: nodes without a DC *)
(* path to ground and loops of ideal voltage sources.  Both algorithms     *)
(* visit the devices one by one and merge groups of nodes; how a group is  *)
(* represented is the business of UnionFind.                               *)
(***************************************************************************)
EXTENDS Expansion

CONSTANT GroundNets   \* electrical.ground_nets of the policy

\* The zone of each kind of element in the module's tables.
NonConductors == {"C", "I", "G", "F", "K"}
TwoTerminalConductors == {"R", "L", "V", "E", "H", "D", "S", "W"}
Transistors == {"M", "J", "Z", "Q"}
ConductingIndices(kind) ==
  IF kind = "M" THEN {1, 3, 4} ELSE IF kind = "Q" THEN 1 .. 4 ELSE {1, 3}

PairsAmong(d, indices) == {{d.nodes[i], d.nodes[j]} : i, j \in indices \intersect DOMAIN d.nodes}

ConductingPairs_OpenCalls(d) ==
  LET kind == d.element.kind
  IN  IF kind \in NonConductors \union {"X"} \/ Len(d.nodes) < 2 THEN {}
      ELSE IF kind \in Transistors THEN PairsAmong(d, ConductingIndices(kind))
      ELSE IF kind \in TwoTerminalConductors THEN PairsAmong(d, {1, 2})
      ELSE PairsAmong(d, DOMAIN d.nodes)

\* conducting_pairs: the pairs of nodes an element ties together at DC.  A call
\* is tied like an element of an unknown kind.
ConductingPairs(d) ==
  LET kind == d.element.kind
  IN  IF kind \in NonConductors \/ Len(d.nodes) < 2 THEN {}
      ELSE IF kind \in Transistors THEN PairsAmong(d, ConductingIndices(kind))
      ELSE IF kind \in TwoTerminalConductors THEN PairsAmong(d, {1, 2})
      ELSE PairsAmong(d, DOMAIN d.nodes)

Unite_OneGroupOnly(groups, pair) ==
  LET met == {g \in groups : g \intersect pair # {}}
      one == CHOOSE g \in met : TRUE
  IN  IF met = {} THEN groups \union {pair} ELSE (groups \ {one}) \union {one \union pair}

\* union on a partition: the groups that meet the pair become one.
Unite(groups, pair) ==
  LET met == {g \in groups : g \intersect pair # {}}
  IN  (groups \ met) \union {pair \union UNION met}

Singletons(d) == {{n} : n \in ToSet(d.nodes)}

Entered(groups, d) == groups \union {s \in Singletons(d) : s \intersect UNION groups = {}}

GroupsAfter(groups, d) == FoldSet(LAMBDA pair, gs : Unite(gs, pair), Entered(groups, d), ConductingPairs(d))

Groups == FoldSeq(LAMBDA d, gs : GroupsAfter(gs, d), {}, devices)

\* What comes after the last colon of a name.
Bare(n) ==
  LET colons == {i \in DOMAIN n : n[i] = ":"}
  IN  IF colons = {} THEN n ELSE SubSeq(n, Max(colons) + 1, Len(n))

\* _ground_nodes: the whole name or its last part is a ground.
IsGround(n) == \E g \in GroundNets \union {Zero} : g \in {n, Bare(n)}

AllNodes == UNION {ToSet(d.nodes) : d \in ToSet(devices)}
HasGround == \E n \in AllNodes : IsGround(n)

\* floating_islands, as _solvability_findings uses it.
Islands == IF HasGround THEN {g \in Groups : \A n \in g : ~IsGround(n)} ELSE {}

-----------------------------------------------------------------------------
IsSource(d) == d.element.kind = "V" /\ Len(d.nodes) >= 2
Ends(i) == {devices[i].nodes[1], devices[i].nodes[2]}

Joined(tree, ends) ==
  \E g \in FoldSet(LAMBDA i, gs : Unite(gs, Ends(i)), {}, tree) : ends \subseteq g

\* _tree_path: the accepted sources on the one path between two joined nodes,
\* those whose removal would separate them.
TreePath(tree, ends) == {i \in tree : ~Joined(tree \ {i}, ends)}

TakeSource_ForgetsPath(found, i) ==
  IF ~IsSource(devices[i]) \/ Cardinality(Ends(i)) = 1 THEN found
  ELSE IF ~Joined(found.tree, Ends(i))
       THEN [found EXCEPT !.tree = @ \union {i}]
       ELSE [found EXCEPT !.loops = @ \union {{i}}]

\* A source joins two trees or closes a loop with the path between its ends; a
\* source across one node is passed over.
TakeSource(found, i) ==
  IF ~IsSource(devices[i]) \/ Cardinality(Ends(i)) = 1 THEN found
  ELSE IF ~Joined(found.tree, Ends(i))
       THEN [found EXCEPT !.tree = @ \union {i}]
       ELSE [found EXCEPT !.loops = @ \union {{i} \union TreePath(found.tree, Ends(i))}]

\* voltage_source_loops: each loop is the set of its sources.
SourceLoops ==
  FoldLeftDomain(TakeSource, [tree |-> {}, loops |-> {}], devices).loops

-----------------------------------------------------------------------------
(***************************************************************************)
(* Properties.                                                             *)
(***************************************************************************)
Complete == pc = "done" /\ cost <= MaxDevices

\* The nodes that edges lead to from the nodes in start, in any number of hops.
Reached(start, edges) ==
  LET after[hops \in Nat] ==
        IF hops = 0 THEN start
        ELSE LET before == after[hops - 1]
             IN  before \union UNION {e \in edges : e \intersect before # {}}
  IN  after[Cardinality(edges)]

\* The nodes tied to a ground net by the pairs of all devices.
Grounded(pairs(_)) ==
  Reached({g \in AllNodes : IsGround(g)}, UNION {pairs(d) : d \in ToSet(devices)})

\* In the flat netlist an expanded call is nothing but its body, and a call of an
\* undefined subcircuit stands for a body that may tie anything.
FlatPairs(d) ==
  IF ~IsCall(d.element) THEN ConductingPairs(d)
  ELSE IF IsDefinedCall(d.element) THEN {} ELSE PairsAmong(d, DOMAIN d.nodes)

\* SOLVE002 names exactly the nodes without a conducting path to ground, once
\* each, when the circuit has a ground at all: merging device by device finds
\* the connected components whatever the order of the devices.
IslandsAreUnreachable ==
  Complete /\ HasGround =>
    /\ UNION Islands = AllNodes \ Grounded(ConductingPairs)
    /\ \A g, h \in Islands : g # h => g \intersect h = {}

\* solvability.py: the assumption about calls "cannot produce a false
\* accusation".  Every node on an island also floats in the flat netlist,
\* whatever is inside the undefined subcircuits.
NoFalseAccusation ==
  Complete => (UNION Islands) \intersect Grounded(FlatPairs) = {}

\* README.md, "What counts as a DC path": "A subcircuit call that could not be
\* expanded is treated as connecting all of its pins".  A call that was expanded
\* must then hide nothing: a node that floats in the flat netlist is on an
\* island of the hierarchical one.
ExpandedCallsHideNothing ==
  Complete /\ HasGround => AllNodes \ Grounded(FlatPairs) \subseteq UNION Islands

Sources == {i \in DOMAIN devices : IsSource(devices[i]) /\ Cardinality(Ends(i)) = 2}
SourceNodes == UNION {Ends(i) : i \in Sources}
SourceTrees == FoldSet(LAMBDA i, gs : Unite(gs, Ends(i)), {}, Sources)

\* Each SOLVE003 finding names sources that form one cycle and nothing else, and
\* there are as many findings as independent cycles: a mesh of sources gives
\* neither a finding for every way around it nor too few to break all of it.
LoopsAreIndependentCycles ==
  Complete =>
    /\ Cardinality(SourceLoops) =
         Cardinality(Sources) - Cardinality(SourceNodes) + Cardinality(SourceTrees)
    /\ \A loop \in SourceLoops :
         /\ \A n \in UNION {Ends(i) : i \in loop} : Cardinality({i \in loop : n \in Ends(i)}) = 2
         /\ Cardinality(FoldSet(LAMBDA i, gs : Unite(gs, Ends(i)), {}, loop)) = 1

\* The nets that are one: a net and the port that a call passes it for, and the
\* "0" of every instance.  A port of that name is "0", whatever is passed.
SameNets ==
  LET calls == {c \in ToSet(devices) : IsDefinedCall(c.element)}
      passed(c) == {i \in DOMAIN c.element.nodes : Ports(c.element.model)[i] # Zero}
  IN  {{<<d.path, Zero>>, <<<<>>, Zero>>} : d \in ToSet(devices)}
        \union UNION {{{<<c.path, c.element.nodes[i]>>,
                        <<Append(c.path, c.element.name), Ports(c.element.model)[i]>>} :
                       i \in passed(c)} : c \in calls}

\* The nets that name themselves: the global node and, of the nets at terminals,
\* those that are no port of the call they are in.
OwnNets ==
  LET atPins == UNION {{<<d.path, n>> : n \in ToSet(d.element.nodes)} : d \in ToSet(devices)}
      isPort(net) ==
        \E c \in ToSet(devices) : /\ IsDefinedCall(c.element)
                                  /\ net[1] = Append(c.path, c.element.name)
                                  /\ net[2] \in ToSet(Ports(c.element.model))
  IN  {<<<<>>, Zero>>} \union {net \in atPins : net[2] # Zero /\ ~isPort(net)}

\* Different nets whose names happen to be spelled alike: a node of the top level
\* "top/xa:n" and the node n in xa, or the nodes of the calls xb in xa and xa/xb.
Homonyms ==
  {{other \in OwnNets : Spelled(other[1], other[2]) = Spelled(net[1], net[2])} : net \in OwnNets}

\* Two terminals are on one node of the expanded netlist exactly when their nets
\* in the hierarchy are connected by ports, global nodes and nothing else but a
\* coincidence of names, unless a finding already denies the netlist for its
\* names or port counts.
NetsAreConnections ==
  Complete /\ Issues \subseteq {"GRAPH003"} =>
    LET ties == SameNets \union Homonyms
    IN  \A c \in ToSet(devices) : \A i \in DOMAIN c.nodes :
          LET net == Reached({<<c.path, c.element.nodes[i]>>}, ties)
          IN  \A d \in ToSet(devices) : \A j \in DOMAIN d.nodes :
                c.nodes[i] = d.nodes[j] <=> <<d.path, d.element.nodes[j]>> \in net

\* Two terminals share a node and no port or global node connects their nets.
Conflated ==
  \E c \in ToSet(devices) : \E i \in DOMAIN c.nodes :
    LET net == Reached({<<c.path, c.element.nodes[i]>>}, SameNets)
    IN  \E d \in ToSet(devices) : \E j \in DOMAIN d.nodes :
          c.nodes[i] = d.nodes[j] /\ <<d.path, d.element.nodes[j]>> \notin net

\* docs/architecture.md, "Scope model": the expansion "namespaces internal nets",
\* so that the checks cross hierarchy "without conflating separate calls".
CallsNotConflated == Complete /\ Issues = {} => ~Conflated

\* voltage.py:233 refuses a netlist in which a name of a node or an instance holds
\* a separator, so that "the graph's hierarchy separator must not collide with
\* literal flat names".  That is enough: without one in a name no nets are
\* conflated, whatever calls are named alike at other depths.
SeparatorsSuffice ==
  LET elements == UNION {ToSet(Body(s)) : s \in Scopes}
      names == UNION {{e.name} \union ToSet(e.nodes) : e \in elements}
  IN  Complete /\ Issues \subseteq {"GRAPH003"} /\ (\A n \in names : {":", "/"} \intersect ToSet(n) = {})
        => ~Conflated
=============================================================================
