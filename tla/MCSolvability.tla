---------------------------- MODULE MCSolvability ----------------------------
(***************************************************************************)
(* Small netlists: hierarchies of two subcircuits that may call each other, *)
(* themselves or an undefined one; every three elements of the kinds that   *)
(* differ at DC, with a subcircuit that couples or ties its ports; every    *)
(* mesh of up to four voltage sources over four nodes; every three elements *)
(* that tie rails or seem to; and names with separators in them.  Beside    *)
(* the audit its disjoint sets are driven through every sequence of calls.  *)
(***************************************************************************)
EXTENDS AuditGate, UnionFind, TLC

CONSTANTS subA, subB, sub, missing, n1, n2, n3, n4

\* Names are sequences of their parts.
zero == <<"0">>
netP == <<"p">>
netQ == <<"q">>
netR == <<"r">>
netG == <<"g">>
netT == <<"t">>
elem1 == <<"e1">>
elem2 == <<"e2">>
elem3 == <<"e3">>
elem4 == <<"e4">>
inner == <<"y">>
MCGroundNets == {netG}
MCPowerNets == {netR, netT}
MCRequiredPorts == {netQ}
MCOutputPorts == {netP}

Names == <<elem1, elem2, elem3, elem4>>
Valued(kind, nodes, value) == [kind |-> kind, nodes |-> nodes, model |-> None, value |-> value]
Part(kind, nodes, model) == [Valued(kind, nodes, None) EXCEPT !.model = model]
Named(part, i) == [name |-> Names[i]] @@ part
Card(name, kind, nodes, model) == [name |-> name] @@ Part(kind, nodes, model)

Parts ==
  {Part("R", <<netP, netQ>>, None), Part("R", <<netQ, Zero>>, None), Part("C", <<netP, netR>>, None),
   Part("V", <<netR, Zero>>, None), Part("M", <<netP, netQ, netR, Zero>>, None),
   Part("M", <<netR, netP, netQ>>, None), Part("Q", <<netQ, netP, netR>>, None), Part("I", <<netR, netP>>, None),
   Part("X", <<netP, netQ>>, sub), Part("X", <<netR, netQ>>, missing), Part("B", <<netR, netP>>, None)}

Inside(kind) == {[ports |-> <<netP, netQ>>, body |-> <<[name |-> inner] @@ Part(kind, <<netP, netQ>>, None)>>]}

\* Pairs of nodes in one direction or the other; the last is a source across one node.
SourceEnds == {<<netP, netQ>>, <<netQ, netR>>, <<netR, netP>>, <<Zero, netP>>, <<netQ, Zero>>, <<netR, netR>>}

Circuits(length, parts, kinds) ==
  {[top |-> [i \in 1 .. length |-> Named(s[i], i)], defs |-> sub :> d] :
     s \in [1 .. length -> parts], d \in UNION {Inside(k) : k \in kinds}}

SourceMeshes == Circuits(4, {Part("V", ends, None) : ends \in SourceEnds}, {"C"})
SolvabilityNetlists == Circuits(3, Parts, {"C", "R"}) \union SourceMeshes

\* Ties and what is none, on the rails "0", netG, netR and netT and between them,
\* also inside a call, where netR is a net of the instance; netP and netQ are ports
\* of the circuit.
RailParts ==
  {Valued("R", <<netP, netQ>>, 0), Valued("R", <<netQ, Zero>>, 0), Valued("R", <<Zero, netR>>, 0),
   Valued("R", <<netP, netQ>>, 1), Valued("R", <<netR, Zero>>, 1), Valued("L", <<netR, netP>>, 1),
   Valued("L", <<netP, Zero>>, 0), Valued("V", <<netR, netQ>>, 0), Valued("V", <<netQ, netR>>, 1),
   Valued("V", <<netP, netR>>, None), Valued("V", <<netT, netG>>, 0), Part("X", <<netR, netP>>, sub)}

RailBodies ==
  {<<[name |-> inner] @@ Valued("R", ends, 0)>> : ends \in {<<netP, netQ>>, <<netP, Zero>>, <<netP, netR>>}}

RailCircuits ==
  LET tops == {[i \in 1 .. 3 |-> Named(s[i], i)] : s \in [1 .. 3 -> RailParts]}
      calls(top) == \E e \in ToSet(top) : IsCall(e)
  IN  {[top |-> t, defs |-> <<>>] : t \in {u \in tops : ~calls(u)}}
        \union {[top |-> t, defs |-> sub :> [ports |-> <<netP, netQ>>, body |-> b]] :
                  t \in {u \in tops : calls(u)}, b \in RailBodies}

Subckt(ports, body) == [ports |-> ports, body |-> body]
UpTo(k, items) == UNION {[1 .. j -> items] : j \in 0 .. k}
Hierarchies(tops, as, bs) ==
  {[top |-> t, defs |-> (subA :> a @@ subB :> b)] : t \in tops, a \in as, b \in bs}

\* Everything a body can do to the expansion: leaves on ports, local and global
\* nodes, calls of every subcircuit, swapped pins, a name used twice, too few
\* pins, a port declared twice and a port that is named as the global node.
Plain(name) == {Card(name, "R", <<netP, netQ>>, None), Card(name, "R", <<netR, Zero>>, None)}
CallsOf(name) ==
  {Card(name, "X", <<netQ, netP>>, subA), Card(name, "X", <<netP, netR>>, subB),
   Card(name, "X", <<netR, netQ>>, missing)}
Pieces(name) == Plain(name) \union CallsOf(name)
Bodies ==
  {<<>>} \union {<<e>> : e \in Pieces(elem1)} \union {<<e, f>> : e \in Pieces(elem1), f \in Pieces(elem2)}
OddBodies ==
  {<<Card(elem1, "X", <<netP>>, subB)>>, <<Card(elem1, "X", <<netP, netQ>>, subB), Card(elem1, "X", <<netQ, netR>>, subB)>>}
ExpansionNetlists ==
  Hierarchies(Bodies \union OddBodies,
              {Subckt(<<netP, netQ>>, b) : b \in Bodies},
              {Subckt(<<netQ, netP>>, b) : b \in {<<>>} \union {<<e>> : e \in Pieces(elem1)}}
                \union {Subckt(<<netP, netP>>, <<Card(elem1, "R", <<netP, netQ>>, None)>>),
                        Subckt(<<netQ, Zero>>, <<Card(elem1, "R", <<netQ, Zero>>, None)>>)})

\* Names with separators: a node of the top level like the local node of x1, an
\* instance "x1/x2" beside the x2 in x1 and an instance "x1:x2", and nodes whose
\* last part is that of a ground, a port or another node.
Slashed == elem1 \o <<"/">> \o elem2
Colon == elem1 \o <<":">> \o elem2
LikeLocal == <<"top", "/">> \o elem1 \o <<":">> \o netR
LikeGround == netR \o <<":">> \o netG
SeparatorNetlists ==
  LET tops == {Card(elem1, "X", <<netP, netR>>, subA), Card(Slashed, "X", <<netQ, netR>>, subB),
               Card(Colon, "X", <<netQ, netR>>, subB), Card(elem3, "R", <<LikeLocal, netP>>, None),
               Card(elem4, "R", <<LikeGround, netQ>>, None)}
      as == {<<Card(elem2, k, <<netP, netR>>, IF k = "X" THEN subB ELSE None)>> : k \in {"R", "X"}}
      bs == {<<Card(elem1, "R", <<netP, n>>, None)>> : n \in {netR, elem2 \o <<":">> \o netR}}
  IN  Hierarchies({<<e, f>> : e \in tops, f \in tops},
                  {Subckt(<<netP, netQ>>, a) : a \in as}, {Subckt(<<netP, netQ>>, b) : b \in bs})

AllNetlists == ExpansionNetlists \union SolvabilityNetlists \union RailCircuits \union SeparatorNetlists

\* A capacitor in the subcircuit leaves a node floating that the call seems to tie.
CouplingNetlists == Circuits(2, Parts, {"C"})

\* Policies that override nothing, or turn rules into remarks a few at a time.
Remarks(codes) == [code \in codes |-> "info"]
MCPolicies ==
  {Remarks({}), Remarks({"LIM001", "NET001"}), Remarks({"SOLVE001", "NET001", "GRAPH006"}),
   Remarks({"RAIL001", "SOLVE002"}), Remarks({"SOLVE003", "GRAPH003", "RAIL002"})}
NoOverride == {Remarks({})}

MCOtherFindings == {{}, {OfCard("INCL003", <<Top, 0>>)}}

-----------------------------------------------------------------------------
(***************************************************************************)
(* The disjoint sets share no variable with the audit.  They are driven     *)
(* when the audit of one netlist, an empty one, is over.                    *)
(***************************************************************************)
MCNodes == {n1, n2, n3, n4}

Idle ==
  /\ pc = "audited" /\ netlist.top = <<>>
  /\ \A s \in DOMAIN netlist.defs : netlist.defs[s].body = <<>>
  /\ DOMAIN report.policy = {} /\ \A f \in report.findings : f.code # "INCL003"

MCInit == AuditInit /\ SetsInit
MCNext ==
  \/ AuditNext /\ UNCHANGED setVars
  \/ Idle /\ SetsNext /\ UNCHANGED auditVars
MCSpec == MCInit /\ [][MCNext]_<<auditVars, setVars>>
=============================================================================
