------------------------ MODULE MCVoltageConstraints ------------------------
(***************************************************************************)
(* VoltageConstraints over four nodes: trees that are joined in pairs and   *)
(* then as trees, triangles of ranges, and rings of one-sided bounds.       *)
(***************************************************************************)
EXTENDS VoltageConstraints

Bounds(p, n, ends) == [positive |-> p, negative |-> n, lower |-> ends[1], upper |-> ends[2]]
Point(p, n, volts) == Bounds(p, n, <<volts, volts>>)
Within(pairs, ends) == {Bounds(p[1], p[2], e) : p \in pairs, e \in ends}

MCNodes == 1 .. 4
Stranger == 5
MCFitting == -6 .. 6

\* Two pairs and then the two trees, joined from either side, and one more
\* constraint between any two nodes.
Trees ==
  {<<a, b, c, d>> : a \in {Point(1, 2, 1), Point(2, 1, 1)}, b \in {Point(3, 4, 1), Point(4, 3, 2)},
                    c \in {Point(1, 3, 1), Point(4, 2, 1), Point(3, 2, -1)},
                    d \in Within({<<1, 4>>, <<4, 1>>, <<2, 3>>, <<1, 1>>}, {<<0, 0>>, <<2, 2>>, <<-1, 1>>, <<1, None>>})}

\* Chains, in which a tree grows node by node, and numbers that grow too long.
Chains ==
  {<<Point(1, 2, x), Point(2, 3, x), Point(3, 4, y)>> : x \in {1, 3}, y \in {-3, 3, 6}}

\* One point and ranges, or ranges only, around three nodes.
Triangles ==
  {<<a, b, c>> : a \in Within({<<1, 2>>}, {<<1, 1>>, <<-1, 1>>, <<None, -1>>, <<1, None>>}),
                 b \in Within({<<2, 3>>}, {<<-1, -1>>, <<0, 2>>, <<None, 0>>}),
                 c \in Within({<<3, 1>>, <<1, 3>>, <<2, 1>>, <<3, 2>>}, {<<-1, 1>>, <<None, -1>>, <<2, None>>})}

\* Edges against the order in which they are visited, one more in each round.
Rings ==
  {<<Bounds(1, 2, <<None, a>>), Bounds(2, 3, <<None, -1>>), Bounds(3, 4, <<None, -1>>), Bounds(4, 1, <<None, b>>)>> :
     a \in {-1, 1}, b \in 1 .. 4}

MCSystems == Trees \union Chains \union Triangles \union Rings

MCQueries == {<<1, 4>>, <<2, 1>>, <<1, 3>>, <<3, 1>>, <<1, Stranger>>}
=============================================================================
