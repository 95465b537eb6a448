--------------------------- MODULE VoltageEnvelopes ---------------------------
(***************************************************************************)
(* _check_bundle of voltage.py: from the devices of an expanded netlist and *)
(* the rules of a user, constraints on voltages and limits to check, and    *)
(* from those a verdict.  What VoltageSystem answers is what                *)
(* VoltageConstraints promises: a contradiction when there is one,          *)
(* otherwise the tight bounds, or that a budget is spent.                   *)
(***************************************************************************)
EXTENDS Integers, Sequences, FiniteSets, SequencesExt

CONSTANTS
  Nodes, Ground,  \* the nodes of the netlist, and node 0
  Inputs,         \* [devices, rules, issues]
  MaxVolts,       \* the properties consider no greater voltage
  None

ASSUME GroundAssumption == Ground \in Nodes /\ IsFiniteSet(Nodes)
ASSUME VoltAssumption == MaxVolts \in Nat /\ None \notin Int

VARIABLES
  input,        \* the netlist and the rules
  pc,           \* the loop at work, or how the check ended
  at,           \* the device it is at
  constraints, nominal,   \* constraints, nominal_constraints
  notes,        \* what is not assessed
  seen, used,   \* seen_sources, used_models
  planned,      \* the limits to check
  checks,       \* those checked, with what came out
  status        \* of the report, or None

vars == <<input, pc, at, constraints, nominal, notes, seen, used, planned, checks, status>>

Device == input.devices[at]
Rules == input.rules

\* DIODE_PAIRS and MOS_PAIRS: the terminals of each rated pair.
Terminals(kind) ==
  IF kind = "D" THEN [ak |-> <<1, 2>>]
  ELSE [gs |-> <<2, 3>>, gd |-> <<2, 1>>, gb |-> <<2, 4>>,
        ds |-> <<1, 3>>, bs |-> <<4, 3>>, bd |-> <<4, 1>>]

Point(v) == [lower |-> v, upper |-> v]
Bounded(p, n, interval) == [positive |-> p, negative |-> n, interval |-> interval]
Across(d, interval) == Bounded(d.nodes[1], d.nodes[2], interval)

\* _assessment
Assessment(observed, allowed) ==
  IF \/ observed.upper # None /\ observed.upper < allowed.lower
     \/ observed.lower # None /\ observed.lower > allowed.upper
  THEN "violation"
  ELSE IF None \in {observed.lower, observed.upper} THEN "indeterminate"
  ELSE IF observed.lower < allowed.lower \/ observed.upper > allowed.upper
  THEN "possible-violation"
  ELSE "pass"

Init ==
  /\ input \in Inputs
  /\ pc = "open" /\ at = 1
  /\ constraints = <<>> /\ nominal = <<>> /\ notes = {}
  /\ seen = {} /\ used = {} /\ planned = {} /\ checks = {}
  /\ status = None

-----------------------------------------------------------------------------
\* Unreached definitions, parameters that do not resolve and directives that are
\* not evaluated do not stop the check.
Harmless == {"GRAPH006", "GRAPH008", "directive"}

\* Includes or structure are incomplete, the expansion is too large, or names are
\* ambiguous.
Stop ==
  /\ pc = "open" /\ ~(input.issues \subseteq Harmless)
  /\ pc' = "stopped" /\ status' = "indeterminate"
  /\ UNCHANGED <<input, at, constraints, nominal, notes, seen, used, planned, checks>>

Start ==
  /\ pc = "open" /\ input.issues \subseteq Harmless
  /\ notes' = input.issues \ {"GRAPH006"}
  /\ pc' = "devices"
  /\ UNCHANGED <<input, at, constraints, nominal, seen, used, planned, checks, status>>

\* The rules do not fit the netlist: an exception, and no report.
Refused ==
  /\ pc' = "refused"
  /\ UNCHANGED <<input, at, constraints, nominal, notes, seen, used, planned, checks, status>>

Left == at <= Len(input.devices)
Taking(kinds) == pc = "devices" /\ Left /\ Device.kind \in kinds
TakeNext == at' = at + 1 /\ UNCHANGED <<input, pc, used, planned, checks, status>>
Noted(unassessed) == notes' = notes \union IF unassessed THEN {Device.name} ELSE {}

Enveloped == Device.name \in DOMAIN Rules.sources
Excluded ==
  /\ Enveloped /\ Device.literal # None
  /\ Assessment(Point(Device.literal), Rules.sources[Device.name]) # "pass"

RefuseSource == Taking({"V"}) /\ Excluded /\ Refused

Nominal == IF Device.literal = None THEN <<>> ELSE <<Across(Device, Point(Device.literal))>>
Scenario == IF Enveloped THEN <<Across(Device, Rules.sources[Device.name])>> ELSE Nominal

TakeSource_SweptNominal ==
  /\ Taking({"V"}) /\ ~Excluded
  /\ nominal' = nominal \o (IF Device.literal = None THEN <<>> ELSE Scenario)
  /\ constraints' = constraints \o Scenario
  /\ seen' = seen \union ({Device.name} \intersect DOMAIN Rules.sources)
  /\ Noted(Scenario = <<>>)
  /\ TakeNext

TakeSource ==
  /\ Taking({"V"}) /\ ~Excluded
  /\ nominal' = nominal \o Nominal
  /\ constraints' = constraints \o Scenario
  /\ seen' = seen \union ({Device.name} \intersect DOMAIN Rules.sources)
  /\ Noted(Scenario = <<>>)
  /\ TakeNext

TakeResistor ==
  /\ Taking({"R"})
  /\ LET tie == IF Device.literal = 0 THEN Nominal ELSE <<>>
     IN  nominal' = nominal \o tie /\ constraints' = constraints \o tie
  /\ Noted(Device.literal = None \/ Device.literal < 0)
  /\ UNCHANGED seen
  /\ TakeNext

TakeOther ==
  /\ Taking({"C", "I", "M", "D", "L"})
  /\ Noted(Device.kind = "L")
  /\ UNCHANGED <<constraints, nominal, seen>>
  /\ TakeNext

-----------------------------------------------------------------------------
\* _envelope_source_loop: what the fixed constraints tie is one node, and then no
\* variable one may tie what is already tied.
Ends(c) == {c.positive, c.negative}
IsFixed(c) == c.interval.lower = c.interval.upper
Tied(groups, c) == Cardinality(Ends(c)) = 1 \/ \E g \in groups : Ends(c) \subseteq g

Tie(groups, c) ==
  LET met == {g \in groups : g \intersect Ends(c) # {}}
  IN  (groups \ met) \union {Ends(c) \union UNION met}

Ties == FoldLeft(Tie, {}, SelectSeq(constraints, IsFixed))

ClosedBy(groups, cs) ==
  LET Take(so, c) == [groups |-> Tie(so.groups, c),
                      closed |-> so.closed \/ (~IsFixed(c) /\ Tied(so.groups, c))]
  IN  FoldLeft(Take, [groups |-> groups, closed |-> FALSE], cs).closed

VariableLoop_OneRound == ClosedBy({}, constraints)
VariableLoop == ClosedBy(Ties, SelectSeq(constraints, LAMBDA c : ~IsFixed(c)))

DevicesDone == pc = "devices" /\ ~Left

Known ==
  {Ground} \union UNION {ToSet(d.nodes) : d \in ToSet(input.devices)}
Fit ==
  /\ DOMAIN Rules.sources \subseteq seen
  /\ DOMAIN Rules.nets \subseteq Known
  /\ \A e \in Rules.expected : {e.positive, e.negative} \subseteq Known

RefuseRules == DevicesDone /\ ~Fit /\ Refused

\* The loop is judged before the nets, which are assumptions about node 0.
ApplyRules ==
  /\ DevicesDone /\ Fit
  /\ notes' = notes \union IF VariableLoop THEN {"loop"} ELSE {}
  /\ constraints' = constraints \o
       SetToSeq({Bounded(n, Ground, Rules.nets[n]) : n \in DOMAIN Rules.nets})
  /\ planned' = Rules.expected
  /\ pc' = "ratings" /\ at' = 1
  /\ UNCHANGED <<input, nominal, seen, used, checks, status>>

-----------------------------------------------------------------------------
Rating == pc = "ratings" /\ Left
RateNext == at' = at + 1 /\ UNCHANGED <<input, pc, constraints, nominal, seen, checks, status>>
IsRated == Device.kind \in {"M", "D"}
HasModel == Device.model \in DOMAIN Rules.models

PassOver == Rating /\ ~IsRated /\ RateNext /\ UNCHANGED <<notes, used, planned>>

LackModel == Rating /\ IsRated /\ ~HasModel /\ Noted(TRUE) /\ RateNext /\ UNCHANGED <<used, planned>>

RefuseModel ==
  /\ Rating /\ IsRated /\ HasModel
  /\ Rules.models[Device.model].kind # Device.kind
  /\ Refused

Limit(d, pair) ==
  LET ends == Terminals(d.kind)[pair]
  IN  Bounded(d.nodes[ends[1]], d.nodes[ends[2]], Rules.models[d.model].pairs[pair])

Rate ==
  /\ Rating /\ IsRated /\ HasModel
  /\ Rules.models[Device.model].kind = Device.kind
  /\ used' = used \union {Device.model}
  /\ planned' = planned \union {Limit(Device, pair) : pair \in DOMAIN Terminals(Device.kind)}
  /\ UNCHANGED notes
  /\ RateNext

RatingsDone ==
  /\ pc = "ratings" /\ ~Left
  /\ notes' = notes \union (IF DOMAIN Rules.models \subseteq used THEN {} ELSE {"unused"})
                    \union (IF planned = {} THEN {"nothing"} ELSE {})
  /\ pc' = "solve"
  /\ UNCHANGED <<input, at, constraints, nominal, seen, used, planned, checks, status>>

-----------------------------------------------------------------------------
Least(s) == {x \in s : \A y \in s : x <= y}

\* The greatest V(b) - V(a) that constraints allow, or none: the shortest path of
\* at most as many steps as there are nodes.
Greatest(cs) ==
  LET step(a, b) ==
        {0 : x \in {a} \intersect {b}}
          \union {c.interval.upper : c \in {d \in ToSet(cs) : d.negative = a /\ d.positive = b}}
          \union {-c.interval.lower : c \in {d \in ToSet(cs) : d.positive = a /\ d.negative = b}}
      within[k \in 0 .. Cardinality(Nodes)] ==
        IF k = 0 THEN [e \in Nodes \X Nodes |-> Least(step(e[1], e[2]))]
        ELSE LET shorter == within[k - 1]
             IN  [e \in Nodes \X Nodes |->
                    Least(UNION {{x + y : x \in shorter[<<e[1], n>>], y \in step(n, e[2])} : n \in Nodes})]
  IN  within[Cardinality(Nodes)]

Contradictory(cs) == LET greatest == Greatest(cs) IN \E n \in Nodes : \E x \in greatest[<<n, n>>] : x < 0

EndOf(s) == IF s = {} THEN None ELSE CHOOSE x \in s : TRUE

\* What difference answers.
Observed(limit) ==
  LET greatest == Greatest(constraints)
  IN  [lower |-> EndOf({-x : x \in greatest[<<limit.positive, limit.negative>>]}),
       upper |-> EndOf(greatest[<<limit.negative, limit.positive>>])]

FindConflict ==
  /\ pc = "solve" /\ (Contradictory(nominal) \/ Contradictory(constraints))
  /\ pc' = "inconsistent" /\ status' = "inconsistent"
  /\ UNCHANGED <<input, at, constraints, nominal, notes, seen, used, planned, checks>>

Solve ==
  /\ pc = "solve" /\ ~Contradictory(nominal) /\ ~Contradictory(constraints)
  /\ pc' = "check"
  /\ UNCHANGED <<input, at, constraints, nominal, notes, seen, used, planned, checks, status>>

\* VoltageBudgetExceeded, in a constructor or in any query: partial checks go.
SpendBudget ==
  /\ pc \in {"solve", "check"}
  /\ checks' = {} /\ pc' = "exhausted" /\ status' = "indeterminate"
  /\ UNCHANGED <<input, at, constraints, nominal, notes, seen, used, planned>>

Checked == {c.limit : c \in checks}

\* The limits are checked in the order of their names.
Check ==
  /\ pc = "check" /\ Checked # planned
  /\ LET limit == CHOOSE l \in planned \ Checked : TRUE
     IN  checks' = checks \union {[limit |-> limit, status |-> Assessment(Observed(limit), limit.interval)]}
  /\ UNCHANGED <<input, pc, at, constraints, nominal, notes, seen, used, planned, status>>

Verdict ==
  LET statuses == {c.status : c \in checks}
  IN  IF "violation" \in statuses THEN "violation"
      ELSE IF "possible-violation" \in statuses THEN "possible-violation"
      ELSE IF notes # {} \/ "indeterminate" \in statuses THEN "indeterminate"
      ELSE "pass"

Conclude ==
  /\ pc = "check" /\ Checked = planned
  /\ pc' = "judged" /\ status' = Verdict
  /\ UNCHANGED <<input, at, constraints, nominal, notes, seen, used, planned, checks>>

Next ==
  \/ Stop \/ Start \/ RefuseSource \/ TakeSource \/ TakeResistor \/ TakeOther
  \/ RefuseRules \/ ApplyRules \/ PassOver \/ LackModel \/ RefuseModel \/ Rate \/ RatingsDone
  \/ FindConflict \/ Solve \/ SpendBudget \/ Check \/ Conclude

Spec == Init /\ [][Next]_vars

-----------------------------------------------------------------------------
(***************************************************************************)
(* Properties.  They speak of voltages, and take nothing from the run but   *)
(* its verdict.                                                             *)
(***************************************************************************)
Devices == ToSet(input.devices)
Voltages == {v \in [Nodes -> -MaxVolts .. MaxVolts] : v[Ground] = 0}
Drop(v, d) == v[d.nodes[1]] - v[d.nodes[2]]
In(x, interval) == interval.lower <= x /\ x <= interval.upper

Sources == {d \in Devices : d.kind = "V"}
TieDevices == {d \in Devices : d.kind = "R" /\ d.literal = 0}
Sweep(d) == IF d.name \in DOMAIN Rules.sources THEN Rules.sources[d.name] ELSE Point(d.literal)
IsKnown(d) == d.literal # None \/ d.name \in DOMAIN Rules.sources

\* The voltages the netlist allows with the sources at the values it declares,
\* and anywhere in their envelopes.
Declared ==
  {v \in Voltages : /\ \A d \in TieDevices : Drop(v, d) = 0
                    /\ \A d \in Sources : d.literal # None => Drop(v, d) = d.literal}
Possible ==
  {v \in Voltages : /\ \A d \in TieDevices : Drop(v, d) = 0
                    /\ \A d \in Sources : IsKnown(d) => In(Drop(v, d), Sweep(d))
                    /\ \A n \in DOMAIN Rules.nets : In(v[n], Rules.nets[n])}

Limits ==
  Rules.expected \union
    UNION {{Limit(d, pair) : pair \in DOMAIN Terminals(d.kind)} :
             d \in {e \in Devices : e.kind \in {"M", "D"} /\ e.model \in DOMAIN Rules.models}}
Respects(v, limit) == In(v[limit.positive] - v[limit.negative], limit.interval)

\* docs/voltage-envelopes.md: a pass covers every requested range, with nothing
\* left unassessed, and "an interval feasible set alone cannot prove compatibility
\* of every independently varied source combination".  After a pass the netlist
\* can take every combination of values of its sources, no device is without a
\* model of its behaviour, and no voltages that are possible break a limit.
PassIsSound ==
  status = "pass" =>
    /\ input.issues \subseteq {"GRAPH006"} /\ Limits # {}
    /\ \A d \in Devices :
         /\ d.kind # "L" /\ (d.kind = "V" => IsKnown(d))
         /\ d.kind = "R" => d.literal # None /\ d.literal >= 0
         /\ d.kind \in {"M", "D"} => d.model \in DOMAIN Rules.models
    /\ \A v \in Possible, limit \in Limits : Respects(v, limit)
    /\ LET named(s) == {d.name : d \in s}
           choices == {f \in [named(Sources) -> -MaxVolts .. MaxVolts] :
                         \A d \in Sources : In(f[d.name], Sweep(d))}
       IN  \A f \in choices : \E v \in Voltages :
             /\ \A d \in TieDevices : Drop(v, d) = 0
             /\ \A d \in Sources : Drop(v, d) = f[d.name]

\* The other verdicts are true of the voltages too, however much of the netlist
\* is unassessed: a broader envelope never hides a contradiction of the declared
\* sources, a violation is broken by all voltages that are possible, a possible one
\* by some, and inconsistent is only what no voltages satisfy.
VerdictIsReal ==
  /\ pc = "judged" => Declared # {}
  /\ status = "violation" => \E limit \in Limits : \A v \in Possible : ~Respects(v, limit)
  /\ status = "possible-violation" =>
       /\ \E limit \in Limits : \E v \in Possible : ~Respects(v, limit)
       /\ \A limit \in Limits : \E v \in Possible : Respects(v, limit)
  /\ status = "inconsistent" => Declared = {} \/ Possible = {}
=============================================================================
