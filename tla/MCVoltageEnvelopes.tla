-------------------------- MODULE MCVoltageEnvelopes --------------------------
(***************************************************************************)
(* VoltageEnvelopes over two nodes and ground: up to three devices in any   *)
(* order, under rules that sweep, replace or contradict their sources.      *)
(***************************************************************************)
EXTENDS VoltageEnvelopes, TLC

CONSTANTS gnd, netA, netB, dev1, dev2, dev3, diode, mos

Names == <<dev1, dev2, dev3>>
Part(kind, nodes, literal, model) == [kind |-> kind, nodes |-> nodes, literal |-> literal, model |-> model]
Within(lower, upper) == [lower |-> lower, upper |-> upper]

\* Sources in parallel, in series and around a triangle, of either polarity.
SourceParts ==
  {Part("V", <<netA, gnd>>, 1, None), Part("V", <<netA, gnd>>, None, None), Part("V", <<gnd, netA>>, -2, None),
   Part("V", <<netB, netA>>, 1, None), Part("V", <<netB, gnd>>, 2, None), Part("V", <<netB, netB>>, 0, None)}
OtherParts ==
  {Part("R", <<netA, netB>>, 0, None), Part("R", <<netB, gnd>>, 1, None), Part("R", <<netA, gnd>>, None, None),
   Part("R", <<netA, gnd>>, -1, None), Part("L", <<netA, netB>>, None, None), Part("C", <<netA, netB>>, None, None),
   Part("D", <<netA, netB>>, None, diode), Part("D", <<netB, gnd>>, None, mos),
   Part("M", <<netB, netA, gnd, gnd>>, None, mos)}
Parts == SourceParts \union OtherParts

NamedParts(s) == [i \in DOMAIN s |-> [name |-> Names[i]] @@ s[i]]
Circuits ==
  {NamedParts(s) : s \in {t \in UNION {[1 .. k -> Parts] : k \in 1 .. 3} :
                       \E i \in DOMAIN t : t[i] \in SourceParts}}

Sweeps ==
  {<<>>, dev1 :> Within(0, 2), dev1 :> Within(1, 1), dev2 :> Within(0, 1),
   dev1 :> Within(0, 1) @@ dev2 :> Within(1, 2)}
Expected(lower, upper) ==
  {[positive |-> netA, negative |-> gnd, interval |-> Within(lower, upper)]}
Ratings ==
  diode :> [kind |-> "D", pairs |-> [ak |-> Within(-1, 1)]] @@
  mos :> [kind |-> "M", pairs |-> [gs |-> Within(-1, 1), gd |-> Within(-2, 1), gb |-> Within(-1, 1),
                                   ds |-> Within(-1, 2), bs |-> Within(0, 0), bd |-> Within(-2, 0)]]

RuleSets ==
  {[sources |-> s, nets |-> n, expected |-> e, models |-> m] :
     s \in Sweeps, n \in {<<>>, netB :> Within(1, 2)}, e \in {{}, Expected(0, 1)},
     m \in {<<>>, diode :> Ratings[diode], Ratings}}

Fitting(c, r) ==
  /\ DOMAIN r.sources \subseteq {d.name : d \in ToSet(c)}
  /\ DOMAIN r.models # {} => \E d \in ToSet(c) : d.model # None
  /\ r.expected = {} => DOMAIN r.models # {}

MCInputs ==
  {[devices |-> cr[1], rules |-> cr[2], issues |-> {}] :
     cr \in {x \in Circuits \X RuleSets : Fitting(x[1], x[2])}}
    \union {[devices |-> c, rules |-> [sources |-> <<>>, nets |-> <<>>, expected |-> Expected(0, 1), models |-> <<>>],
             issues |-> issues] :
              c \in {NamedParts(s) : s \in [1 .. 1 -> Parts]},
              issues \in {{"GRAPH006"}, {"GRAPH006", "GRAPH008"}, {"directive"}, {"GRAPH003"}}}
=============================================================================
