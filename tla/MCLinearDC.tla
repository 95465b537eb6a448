----------------------------- MODULE MCLinearDC -----------------------------
(***************************************************************************)
(* LinearDC on every network of three branches over three nodes, loops of   *)
(* one branch included, and on every network over four nodes in which each  *)
(* two are connected by a resistor, a source of either kind, or nothing.    *)
(***************************************************************************)
EXTENDS LinearDC

Branch(kind, positive, negative, value) ==
  [kind |-> kind, positive |-> positive, negative |-> negative, value |-> value]

MCVolts == {<<v, 1>> : v \in -3 .. 3}

Pairs(nodes) == {p \in nodes \X nodes : p[1] < p[2]}
Either(nodes) == {p \in nodes \X nodes : p[1] # p[2]} \union {<<1, 1>>}

Small ==
  {Branch("resistor", p[1], p[2], v) : p \in Pairs(0 .. 2) \union {<<1, 1>>}, v \in {<<0, 1>>, <<1, 1>>, <<2, 1>>}}
    \union {Branch(k, p[1], p[2], <<1, 1>>) : k \in {"voltage", "current"}, p \in Either(0 .. 2)}

Triples == {<<a, b, c>> : a \in Small, b \in Small, c \in Small}

\* Each edge of the complete graph, or nothing.
Mesh(choice) ==
  LET edges == SetToSeq(Pairs(0 .. 3))
      kept == SelectSeq(edges, LAMBDA e : choice[e] # None)
  IN  [i \in DOMAIN kept |-> Branch(choice[kept[i]][1], kept[i][1], kept[i][2], choice[kept[i]][2])]

Meshes(choices) == {Mesh(f) : f \in [Pairs(0 .. 3) -> choices]} \ {<<>>}

MCNetworks ==
  Triples \union Meshes({None, <<"resistor", <<1, 1>>>>, <<"voltage", <<1, 1>>>>, <<"current", <<1, 1>>>>})
=============================================================================
