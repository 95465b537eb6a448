------------------------------ MODULE AuditGate ------------------------------
(***************************************************************************)
(* The audit of an expanded netlist: the structural and electrical rules   *)
(* of checks.py, run_checks with its deduplication, and the decision of    *)
(* engine.py, under a policy that overrides severities.  The rules about   *)
(* text, directives and single elements are an input.                      *)
(***************************************************************************)
EXTENDS Solvability

CONSTANTS
  PowerNets,      \* electrical.power_nets of the policy
  RequiredPorts,  \* electrical.required_ports
  OutputPorts,    \* the intended ports of the manifest that are outputs
  InputPorts,     \* the other intended ports
  OtherFindings,  \* what the rules that are not modelled may find, a set of sets
  Policies        \* rules.severity_overrides of the policies, functions of codes

ASSUME RailAssumption == PowerNets \intersect (GroundNets \union {Zero}) = {}

\* A policy overrides with the severities there are.
ASSUME PolicyAssumption ==
  \A policy \in Policies : \A code \in DOMAIN policy : policy[code] \in {"info", "review", "deny"}

VARIABLE report   \* None, or the policy, the findings and the decision of the AuditReport

auditVars == <<netlist, cost, frames, devices, pc, report>>

IntendedPorts == OutputPorts \union InputPorts
GroundNames == GroundNets \union {Zero}

\* A finding at a card, <<scope, position>>, or at none; its message names nets or
\* gives a number.  The rest of it is evidence.
Reviewed == {"GRAPH006", "PORT002", "NET001", "SOLVE001"}
Finding(code, at, nets, number, evidence) ==
  [code |-> code, at |-> at, nets |-> nets, number |-> number, evidence |-> evidence,
   severity |-> IF code \in Reviewed THEN "review" ELSE "deny"]

\* A code belongs to one rule: what the others find is none of the findings below.
ASSUME OtherAssumption ==
  \A others \in OtherFindings : \A f \in others :
    /\ f = [Finding(f.code, f.at, f.nets, f.number, f.evidence) EXCEPT !.severity = f.severity]
    /\ f.code \notin {"GRAPH002", "GRAPH003", "GRAPH004", "GRAPH006", "GRAPH007", "LIM001",
                     "PORT001", "PORT002", "NET001", "NET002", "SRC001", "RAIL001", "RAIL002",
                     "SOLVE001", "SOLVE002", "SOLVE003"}

OfBundle(code) == Finding(code, None, {}, 0, {})
OfCard(code, card) == Finding(code, card, {}, 0, {})
OfNets(code, nets) == Finding(code, None, nets, 0, {})

\* finding_id
Id(f) == <<f.code, f.at, f.nets, f.number>>

-----------------------------------------------------------------------------
Calls(scope) == {e.model : e \in {b \in ToSet(Body(scope)) : IsDefinedCall(b)}}

\* The scopes that calls lead to from the top level.
Reachable ==
  LET after[hops \in Nat] ==
        IF hops = 0 THEN {Top}
        ELSE after[hops - 1] \union UNION {Calls(s) : s \in after[hops - 1]}
  IN  after[Cardinality(Defined)]

GraphFindings_NoLimit ==
  {OfBundle(code) : code \in Issues}
    \union {OfCard("GRAPH006", <<s, 0>>) : s \in Defined \ Reachable}

\* _graph_findings; structural issues are told apart by their code only, and a
\* recursion by the limit that it exceeds.
GraphFindings ==
  {OfBundle(code) : code \in Issues}
    \union {OfCard("GRAPH006", <<s, 0>>) : s \in Defined \ Reachable}
    \union {OfBundle("LIM001") : over \in {cost} \ 0 .. MaxDevices}

-----------------------------------------------------------------------------
\* The net table: the terminals that name a node in a scope.
NetsOf(scope) == UNION {ToSet(e.nodes) : e \in ToSet(Body(scope))}
Endpoints(scope, n) ==
  LET body == Body(scope)
  IN  UNION {{<<i, j>> : j \in {k \in DOMAIN body[i].nodes : body[i].nodes[k] = n}} : i \in DOMAIN body}

\* A capacitor or the gate of a MOS transistor.
Insulated(scope, n) ==
  \A t \in Endpoints(scope, n) :
    LET kind == Body(scope)[t[1]].kind
    IN  kind = "C" \/ (kind = "M" /\ t[2] = 2)

PortFindings ==
  {OfNets("PORT001", {<<Top, port>>}) : port \in (RequiredPorts \union IntendedPorts) \ NetsOf(Top)}
    \union {OfNets("PORT002", {<<Top, port>>}) :
              port \in {p \in OutputPorts \intersect NetsOf(Top) : Insulated(Top, p)}}

\* The nets a rule of _connectivity_findings looks at.
InternalNets(scope) ==
  NetsOf(scope) \ (GroundNames \union PowerNets \union IntendedPorts
                     \union IF scope = Top THEN {} ELSE ToSet(Ports(scope)))

ConnectivityFindings ==
  UNION {{OfNets("NET001", {<<s, n>>}) :
            n \in {m \in InternalNets(s) : Cardinality(Endpoints(s, m)) = 1}}
           \union {OfNets("NET002", {<<s, n>>}) :
                     n \in {m \in InternalNets(s) : Insulated(s, m)}} : s \in Scopes}

-----------------------------------------------------------------------------
Value(i) == devices[i].element.value

\* The voltage a source imposes between the two nodes, in an order of its own for
\* every pair of nodes.
Imposed(i, pair) ==
  IF devices[i].nodes[1] = CHOOSE n \in pair : TRUE THEN Value(i) ELSE -Value(i)

Between(pair) == {i \in DOMAIN devices : IsSource(devices[i]) /\ Ends(i) = pair}

\* _source_conflicts, over sources of a known value.
SourceConflicts ==
  LET pairs == {Ends(i) : i \in {j \in DOMAIN devices : IsSource(devices[j])}}
      disputed == {p \in pairs :
                     Cardinality({Imposed(i, p) : i \in {j \in Between(p) : Value(j) # None}}) > 1}
  IN  {OfCard("SRC001", devices[CHOOSE i \in Between(p) : TRUE].card) : p \in disputed}

-----------------------------------------------------------------------------
\* A device that ties its ends for certain at DC; of a value that is no plain
\* number nothing is certain.
IsTie(i) ==
  /\ Len(devices[i].nodes) >= 2 /\ Cardinality(Ends(i)) = 2
  /\ \/ devices[i].element.kind \in {"R", "V"} /\ Value(i) = 0
     \/ devices[i].element.kind = "L" /\ Value(i) # None /\ Value(i) > 0

\* _configured_net compares whole names, so a rail is a net of the top level.
IsRail(n, names) == n \in names
Meets(nodes, names) == \E n \in nodes : IsRail(n, names)

Ties == {i \in DOMAIN devices : IsTie(i)}
TieGroups == FoldSet(LAMBDA i, gs : Unite(gs, Ends(i)), {}, Ties)

\* legacy_direct: one resistor from power to ground.
Direct ==
  {i \in Ties : /\ devices[i].element.kind = "R"
                /\ Meets(Ends(i), GroundNames) /\ Meets(Ends(i), PowerNets)}

RailFindings_DirectHidesAll ==
  {OfCard("RAIL001", devices[i].card) : i \in Direct}
    \union {OfNets("RAIL002", g) :
              g \in {h \in TieGroups : /\ Direct = {}
                                       /\ Meets(h, GroundNames) /\ Meets(h, PowerNets)}}

\* _rail_short_findings: of a group with a direct short only that is reported, of
\* any other one witness path, which is told from others by its digest.
RailFindings ==
  {OfCard("RAIL001", devices[i].card) : i \in Direct}
    \union {OfNets("RAIL002", g) :
              g \in {h \in TieGroups : /\ \A i \in Direct : ~(Ends(i) \subseteq h)
                                       /\ Meets(h, GroundNames) /\ Meets(h, PowerNets)}}

\* _solvability_findings: the message of a loop is the number of its sources.
SolvabilityFindings ==
  IF devices = <<>> THEN {}
  ELSE IF ~HasGround THEN {OfBundle("SOLVE001")}
  ELSE {OfNets("SOLVE002", island) : island \in Islands}
         \union {Finding("SOLVE003", None, {}, Cardinality(loop), loop) : loop \in SourceLoops}

-----------------------------------------------------------------------------
\* severity_for
SeverityFor(policy, code, default) == IF code \in DOMAIN policy THEN policy[code] ELSE default

\* _finding, of what a rule has found
Judged(policy, findings) ==
  {[f EXCEPT !.severity = SeverityFor(policy, f.code, @)] : f \in findings}

\* run_checks keeps one finding of each identity.
RunChecks(policy, others) ==
  LET raw == Judged(policy, others \union GraphFindings \union PortFindings \union ConnectivityFindings
               \union SourceConflicts \union RailFindings \union SolvabilityFindings)
  IN  {CHOOSE f \in raw : Id(f) = id : id \in {Id(f) : f \in raw}}

Decision(findings) ==
  IF \E f \in findings : f.severity = "deny" THEN "deny"
  ELSE IF \E f \in findings : f.severity = "review" THEN "review"
  ELSE "allow"

Audit ==
  /\ pc = "done"
  /\ \E others \in OtherFindings, policy \in Policies :
       LET findings == RunChecks(policy, others)
       IN  report' = [policy |-> policy, findings |-> findings, decision |-> Decision(findings)]
  /\ pc' = "audited"
  /\ UNCHANGED <<netlist, cost, frames, devices>>

AuditInit == Init /\ report = None
AuditNext == Audit \/ (Next /\ UNCHANGED report)
AuditSpec == AuditInit /\ [][AuditNext]_auditVars

-----------------------------------------------------------------------------
(***************************************************************************)
(* Properties.                                                             *)
(***************************************************************************)
Audited == pc = "audited"
Found(code) == {f \in report.findings : f.code = code}

RailNodes(names) == {n \in AllNodes : IsRail(n, names)}
TieEdges == {Ends(i) : i \in {j \in DOMAIN devices : IsTie(j)}}
Shorts == {Reached({p}, TieEdges) : p \in RailNodes(PowerNets)}

\* The policy has turned none of these rules into a remark.
Enforced(codes) == \A code \in codes : SeverityFor(report.policy, code, "deny") # "info"

\* What is allowed is what the audit promises, by independent definitions: the
\* expansion is complete and calls nothing undefined, every node has a conducting
\* path to ground, no sources form a cycle, no power rail is tied to ground in
\* any number of hops and no net ends in one terminal.  Each rule lives in a
\* function of its own with early returns of its own, and all must agree on when
\* what they saw was the whole circuit.  An override takes away the promise of its
\* own code only, but where one finding stands in for others: a missing ground for
\* islands and loops, and a direct short for the paths of its component.
AllowedIsSound ==
  Audited /\ report.decision = "allow" =>
    /\ Enforced({"LIM001"}) => Len(devices) = cost
    /\ Enforced({"GRAPH006"}) => Reachable = Scopes
    /\ Enforced({"GRAPH003"}) =>
         \A d \in ToSet(devices) : IsCall(d.element) => IsDefinedCall(d.element)
    /\ Enforced({"SOLVE001", "SOLVE002"}) => AllNodes \subseteq Grounded(ConductingPairs)
    /\ Enforced({"SOLVE001", "SOLVE003"}) =>
         Cardinality(Sources) = Cardinality(SourceNodes) - Cardinality(SourceTrees)
    /\ Enforced({"RAIL001", "RAIL002"}) => \A g \in Shorts : ~Meets(g, GroundNames)
    /\ Enforced({"NET001"}) =>
         \A s \in Scopes : \A n \in InternalNets(s) : Cardinality(Endpoints(s, n)) > 1

\* docs/erc-regression-corpus.md, "Declared DC rail-short paths": every connected
\* piece of ties that holds a power and a ground rail is reported, once, as a
\* path or by the resistors that short it directly, and nothing else is.
RailShortsOnce ==
  Audited =>
    LET shorted == {g \in Shorts : Meets(g, GroundNames)}
        straps(g) == {i \in Direct : Ends(i) \subseteq g}
    IN  /\ {f.nets : f \in Found("RAIL002")} = {g \in shorted : straps(g) = {}}
        /\ {f.at : f \in Found("RAIL001")} = {devices[i].card : i \in UNION {straps(g) : g \in shorted}}

\* CHANGELOG.md, 0.3.0: "One finding per independent cycle".  Every loop that was
\* found must still be there after deduplication.
EveryLoopReported ==
  Audited /\ HasGround => \A loop \in SourceLoops : \E f \in Found("SOLVE003") : f.evidence = loop
=============================================================================
