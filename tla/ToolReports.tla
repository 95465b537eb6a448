----------------------------- MODULE ToolReports -----------------------------
(***************************************************************************)
(* The readers of verification.py: parse_magic_drc, parse_klayout_drc,     *)
(* parse_netgen_lvs and parse_magic_pex turn the report of a tool into     *)
(* findings, or refuse it.                                                 *)
(*                                                                         *)
(* A line of a text report is the record it is recognised as, with the one *)
(* name that matters in it; "other" stands for every line a reader raises  *)
(* an error for, unrecognised or with a field that is not valid, "heading" *)
(* for every line it passes over.  A KLayout report is its category and    *)
(* cell names and its items, each with the line its tag is on, and the     *)
(* lines on which a comment has the text of such a tag.                    *)
(***************************************************************************)
EXTENDS Integers, Sequences, FiniteSets, SequencesExt, FiniteSetsExt

CONSTANTS
  Reports,       \* the reports read
  Names,         \* names of rules, cells, objects and paths
  None,
  MaxFindings

TextAdapters == {"magic-drc", "netgen-lvs", "magic-pex"}
Kinds == {"heading", "other", "clean", "cell", "rule", "box", "match", "mismatch", "property",
          "unmatched", "warning", "error", "complete", "output"}
LineRecord == [kind : Kinds, name : Names \union {None}]
Item == [line : Nat \ {0}, category : Names, cell : Names, boxes : Nat, values : Nat]
\* The layout cell behind each qualified cell name.
CellTables == UNION {[qualified -> Names] : qualified \in SUBSET Names}

ASSUME ReportAssumption ==
  /\ Reports \subseteq
       [adapter : TextAdapters, lines : Seq(LineRecord)]
       \union [adapter : {"klayout-drc"}, categories : SUBSET Names, cells : CellTables,
               items : Seq(Item), mentions : SUBSET (Nat \ {0})]
  /\ \A r \in Reports : r.adapter = "klayout-drc" => IsFiniteSet(r.mentions)
  /\ \A r \in Reports : r.adapter # "klayout-drc" =>
       \A i \in DOMAIN r.lines : r.lines[i].kind \in {"cell", "rule", "output"} => r.lines[i].name # None
  /\ None \notin Names
  /\ MaxFindings \in Nat

VARIABLES
  report,     \* the report being read
  at,         \* the line or item at hand
  cell,       \* the cell a Magic DRC report has named
  rule,       \* current_rule and current_rule_line
  boxes,      \* current_boxes
  passed,     \* matched, or complete
  failed,     \* mismatched, or failed
  output,     \* the output a Magic PEX log has named
  found,      \* findings: [line, rule, severity, objects]
  outcome     \* "reading", "accepted" or "refused"

locals == <<cell, rule, boxes, passed, failed, output, found>>
vars == <<report, at, locals, outcome>>

NoRule == [name |-> None, line |-> 0]

Init ==
  /\ report \in Reports
  /\ at = 1
  /\ cell = None
  /\ rule = NoRule
  /\ boxes = 0
  /\ passed = FALSE
  /\ failed = FALSE
  /\ output = None
  /\ found = <<>>
  /\ outcome = "reading"

Deny(line, name, objects) == [line |-> line, rule |-> name, severity |-> "deny", objects |-> objects]
Review(line, name) == [line |-> line, rule |-> name, severity |-> "review", objects |-> None]

\* An InputError: no findings are returned.
Refuse == outcome' = "refused" /\ UNCHANGED <<report, at, locals>>
Accept(findings) ==
  outcome' = "accepted" /\ found' = findings /\ UNCHANGED <<report, at, cell, rule, boxes, passed, failed, output>>
GoOn == at' = at + 1 /\ UNCHANGED <<report, outcome>>

-----------------------------------------------------------------------------
(***************************************************************************)
(* parse_magic_drc.                                                        *)
(***************************************************************************)
Positions(kinds) == {i \in DOMAIN report.lines : report.lines[i].kind \in kinds}

IsText(adapter) == outcome = "reading" /\ report.adapter = adapter
SaysClean == Positions({"clean"}) # {}

\* Whoever says that nothing was found must say it once and nothing else.
ReadClean ==
  /\ IsText("magic-drc") /\ SaysClean
  /\ IF /\ Cardinality(Positions({"clean"})) = 1
        /\ Cardinality(Positions({"cell"})) <= 1
        /\ Positions({"clean", "cell", "heading"}) = DOMAIN report.lines
     THEN Accept(<<>>)
     ELSE Refuse

TakesDrc(kind) ==
  /\ IsText("magic-drc") /\ ~SaysClean
  /\ at <= Len(report.lines) /\ report.lines[at].kind = kind

TakeCell ==
  /\ TakesDrc("cell")
  /\ IF rule # NoRule \/ cell # None THEN Refuse
     ELSE /\ cell' = report.lines[at].name
          /\ GoOn /\ UNCHANGED <<rule, boxes, passed, failed, output, found>>

\* A rule without boxes is a finding of its own, once the next one begins.
WithPending ==
  IF rule # NoRule /\ boxes = 0 THEN Append(found, Deny(rule.line, rule.name, cell)) ELSE found

TakeRule_KeepsCount ==
  /\ TakesDrc("rule")
  /\ found' = WithPending
  /\ rule' = [name |-> report.lines[at].name, line |-> at]
  /\ GoOn /\ UNCHANGED <<cell, boxes, passed, failed, output>>

TakeRule ==
  /\ TakesDrc("rule")
  /\ found' = WithPending
  /\ rule' = [name |-> report.lines[at].name, line |-> at]
  /\ boxes' = 0
  /\ GoOn /\ UNCHANGED <<cell, passed, failed, output>>

Objects == IF report.lines[at].name # None THEN report.lines[at].name ELSE cell

TakeBox ==
  /\ TakesDrc("box")
  /\ IF rule = NoRule \/ Len(found) >= MaxFindings THEN Refuse
     ELSE /\ found' = Append(found, Deny(at, rule.name, Objects))
          /\ boxes' = boxes + 1
          /\ GoOn /\ UNCHANGED <<cell, rule, passed, failed, output>>

FinishDrc ==
  /\ IsText("magic-drc") /\ ~SaysClean /\ at > Len(report.lines)
  /\ IF WithPending = <<>> THEN Refuse ELSE Accept(WithPending)

-----------------------------------------------------------------------------
(***************************************************************************)
(* parse_netgen_lvs and parse_magic_pex.                                   *)
(***************************************************************************)
Takes(adapter, kind) ==
  IsText(adapter) /\ at <= Len(report.lines) /\ report.lines[at].kind = kind

TakePassed ==
  /\ Takes("netgen-lvs", "match") \/ Takes("magic-pex", "complete")
  /\ passed' = TRUE
  /\ GoOn /\ UNCHANGED <<cell, rule, boxes, failed, output, found>>

\* A mismatch, property errors, a count of unmatched objects or an error line.
TakeFailed ==
  /\ \/ \E kind \in {"mismatch", "property", "unmatched", "error"} : Takes("netgen-lvs", kind)
     \/ Takes("magic-pex", "error")
  /\ failed' = TRUE
  /\ found' = Append(found, Deny(at, report.lines[at].kind, None))
  /\ GoOn /\ UNCHANGED <<cell, rule, boxes, passed, output>>

TakeWarning ==
  /\ Takes("netgen-lvs", "warning") \/ Takes("magic-pex", "warning")
  /\ found' = Append(found, Review(at, "warning"))
  /\ GoOn /\ UNCHANGED <<cell, rule, boxes, passed, failed, output>>

TakeOutput ==
  /\ Takes("magic-pex", "output")
  /\ IF output # None THEN Refuse
     ELSE /\ output' = report.lines[at].name
          /\ GoOn /\ UNCHANGED <<cell, rule, boxes, passed, failed, found>>

FinishLvs_NoTerminal ==
  /\ IsText("netgen-lvs") /\ at > Len(report.lines)
  /\ IF (passed /\ failed) \/ Len(found) > MaxFindings THEN Refuse ELSE Accept(found)

FinishLvs ==
  /\ IsText("netgen-lvs") /\ at > Len(report.lines)
  /\ IF passed = failed \/ Len(found) > MaxFindings THEN Refuse ELSE Accept(found)

FinishPex ==
  /\ IsText("magic-pex") /\ at > Len(report.lines)
  /\ IF passed = failed \/ (passed /\ output = None) THEN Refuse ELSE Accept(found)

\* What a reader passes over, and what it refuses: anything it does not know.
Known(adapter) ==
  CASE adapter = "magic-drc" -> {"cell", "rule", "box"}
    [] adapter = "netgen-lvs" -> {"match", "mismatch", "property", "unmatched", "warning", "error"}
    [] adapter = "magic-pex" -> {"complete", "output", "warning", "error"}

TakeHeading ==
  /\ \/ TakesDrc("heading") \/ Takes("netgen-lvs", "heading") \/ Takes("magic-pex", "heading")
  /\ GoOn /\ UNCHANGED locals

TakeOther ==
  /\ outcome = "reading" /\ report.adapter \in TextAdapters
  /\ report.adapter = "magic-drc" => ~SaysClean
  /\ at <= Len(report.lines)
  /\ report.lines[at].kind \notin Known(report.adapter) \union {"heading"}
  /\ Refuse

-----------------------------------------------------------------------------
(***************************************************************************)
(* parse_klayout_drc.                                                      *)
(***************************************************************************)
\* item_lines: the lines with the text of an item's tag, wherever it stands.
ItemLines == {report.items[i].line : i \in DOMAIN report.items} \union report.mentions

\* The items are given these lines one after the other.
IsItemLine_Own(i, line) == line = report.items[i].line

IsItemLine(i, line) == line \in ItemLines /\ Cardinality({l \in ItemLines : l <= line}) = i

TakesItem ==
  /\ outcome = "reading" /\ report.adapter = "klayout-drc"
  /\ Cardinality(ItemLines) = Len(report.items)

TakeItem ==
  /\ TakesItem /\ at <= Len(report.items)
  /\ LET item == report.items[at]
     IN  IF \/ item.category \notin report.categories \/ item.cell \notin DOMAIN report.cells
            \/ item.values = 0 \/ item.boxes > 1
            \/ Len(found) >= MaxFindings
         THEN Refuse
         ELSE /\ \E line \in ItemLines :
                   /\ IsItemLine(at, line)
                   /\ found' = Append(found, Deny(line, item.category, report.cells[item.cell]))
              /\ GoOn /\ UNCHANGED <<cell, rule, boxes, passed, failed, output>>

RefuseLines ==
  /\ outcome = "reading" /\ report.adapter = "klayout-drc"
  /\ Cardinality(ItemLines) # Len(report.items)
  /\ Refuse

FinishItems == TakesItem /\ at > Len(report.items) /\ Accept(found)

Next ==
  \/ ReadClean \/ TakeCell \/ TakeRule \/ TakeBox \/ FinishDrc
  \/ TakePassed \/ TakeFailed \/ TakeWarning \/ TakeOutput \/ FinishLvs \/ FinishPex
  \/ TakeHeading \/ TakeOther
  \/ TakeItem \/ RefuseLines \/ FinishItems

Spec == Init /\ [][Next]_vars

-----------------------------------------------------------------------------
(***************************************************************************)
(* Properties.                                                             *)
(***************************************************************************)
LastLine == IF report.adapter = "klayout-drc" THEN Len(report.items) ELSE Len(report.lines)

\* Every variable of a reader stays within its type; in particular no finding is
\* made without a rule to name it by.
TypeOK ==
  /\ report \in Reports
  /\ at \in 1 .. LastLine + 1
  /\ cell \in Names \union {None}
  /\ rule \in [name : Names, line : 1 .. LastLine] \union {NoRule}
  /\ boxes \in 0 .. LastLine
  /\ passed \in BOOLEAN /\ failed \in BOOLEAN
  /\ output \in Names \union {None}
  /\ found \in Seq([line : Nat \ {0}, rule : Names \union Kinds, severity : {"deny", "review"},
                    objects : Names \union {None}])
  /\ outcome \in {"reading", "accepted", "refused"}

\* The rule record a box of a Magic DRC report stands under, and the rules that
\* no box stands under.
RuleAbove(i) == Max({j \in Positions({"rule"}) : j <= i})
BareRules == {j \in Positions({"rule"}) : \A i \in Positions({"box"}) : RuleAbove(i) # j}
CellNamed == IF Positions({"cell"}) = {} THEN None ELSE report.lines[Min(Positions({"cell"}))].name

\* The violations a report states, told from its text alone.
Stated ==
  LET line(i) == report.lines[i]
      boxed(i) == IF line(i).name # None THEN line(i).name ELSE CellNamed
  IN  CASE report.adapter = "magic-drc" ->
             {Deny(i, line(RuleAbove(i)).name, boxed(i)) : i \in Positions({"box"})}
               \union {Deny(i, line(i).name, CellNamed) : i \in BareRules}
        [] report.adapter = "klayout-drc" -> {}
        [] OTHER ->
             {Deny(i, line(i).kind, None) : i \in Positions({"mismatch", "property", "unmatched", "error"})}
               \union {Review(i, "warning") : i \in Positions({"warning"})}

\* An accepted report loses none of the violations it states and adds none:
\* docs/verification-lineage.md, "Each box becomes a deny finding", and a rule
\* with no box becomes one too, the last one as well.
EveryViolationFound ==
  outcome = "accepted" =>
    IF report.adapter = "klayout-drc"
    THEN /\ Len(found) = Len(report.items)
         /\ \A i \in DOMAIN found : /\ found[i].rule = report.items[i].category
                                   /\ found[i].objects = report.cells[report.items[i].cell]
    ELSE ToSet(found) = Stated

\* A report passes without a finding that denies only if it says so itself and
\* says nothing else: a report that was cut off anywhere before its verdict, or
\* that contradicts itself, is refused.
CleanOnlyWhenSaid ==
  outcome = "accepted" /\ (\A f \in ToSet(found) : f.severity # "deny") =>
    CASE report.adapter = "magic-drc" ->
           Positions({"clean"}) # {} /\ Positions({"rule", "box"}) = {}
      [] report.adapter = "netgen-lvs" ->
           Positions({"match"}) # {} /\ Positions({"mismatch", "property", "unmatched", "error"}) = {}
      [] report.adapter = "magic-pex" ->
           Positions({"complete"}) # {} /\ Positions({"output"}) # {} /\ Positions({"error"}) = {}
      [] OTHER -> report.items = <<>>

\* No two findings of a report are of one line.  The line is a part of every
\* finding's identity, so a waiver that names a finding matches no other one of
\* the same report, whatever rules, messages and objects repeat.
OneFindingPerLine ==
  \A i, j \in DOMAIN found : found[i].line = found[j].line => i = j
=============================================================================
