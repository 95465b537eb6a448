-------------------------- MODULE ToolReportsProofs --------------------------
(***************************************************************************)
(* The readers of tool reports keep their types, never name two findings   *)
(* by one line, accept a report as clean only if it says so, and lose none *)
(* of the violations a report states.                                      *)
(***************************************************************************)
EXTENDS ToolReports, SequenceTheorems, WellFoundedInduction, TLAPS

Finding == [line : Nat \ {0}, rule : Names \union Kinds, severity : {"deny", "review"},
            objects : Names \union {None}]
IsDatabase == report.adapter = "klayout-drc"

\* While a report is read, what was found is behind the line at hand, and behind
\* the rule at hand as long as that has no box; findings of a database have the
\* item lines in order.
Reading ==
  outcome = "reading" =>
    /\ rule.line < at /\ boxes < at
    /\ report.adapter # "magic-drc" => rule = NoRule
    /\ ~IsDatabase =>
         /\ \A i \in DOMAIN found : found[i].line < at
         /\ rule # NoRule /\ boxes = 0 => \A i \in DOMAIN found : found[i].line < rule.line
    /\ IsDatabase =>
         /\ Len(found) = at - 1
         /\ \A i \in DOMAIN found : IsItemLine(i, found[i].line)

TypesKept == TypeOK /\ Reading /\ OneFindingPerLine

-----------------------------------------------------------------------------
\* What a sequence of members of S is.
LEMMA SeqMembers ==
  ASSUME NEW S, NEW s \in Seq(S)
  PROVE  /\ DOMAIN s = 1 .. Len(s) /\ Len(s) \in Nat
         /\ \A i \in DOMAIN s : s[i] \in S
OBVIOUS

\* What the report being read is.
LEMMA TextReport ==
  ASSUME NEW r \in Reports, r.adapter # "klayout-drc"
  PROVE  /\ r.adapter \in TextAdapters
         /\ Len(r.lines) \in Nat /\ DOMAIN r.lines = 1 .. Len(r.lines)
         /\ \A i \in DOMAIN r.lines :
              /\ r.lines[i].kind \in Kinds /\ r.lines[i].name \in Names \union {None}
              /\ r.lines[i].kind \in {"cell", "rule", "output"} => r.lines[i].name \in Names
<1>1. r.adapter \in TextAdapters /\ r.lines \in Seq(LineRecord)
  BY ReportAssumption
<1>2. /\ DOMAIN r.lines = 1 .. Len(r.lines) /\ Len(r.lines) \in Nat
      /\ \A i \in DOMAIN r.lines : r.lines[i] \in LineRecord
  BY <1>1, SeqMembers
<1> QED
  BY <1>1, <1>2, ReportAssumption DEF LineRecord

LEMMA Database ==
  ASSUME NEW r \in Reports, r.adapter = "klayout-drc"
  PROVE  /\ Len(r.items) \in Nat /\ DOMAIN r.items = 1 .. Len(r.items)
         /\ \A i \in DOMAIN r.items : r.items[i].category \in Names /\ r.items[i].line \in Nat \ {0}
         /\ \A c \in DOMAIN r.cells : r.cells[c] \in Names
         /\ r.mentions \subseteq Nat \ {0}
<1>1. /\ r.cells \in CellTables /\ r.items \in Seq(Item) /\ r.mentions \in SUBSET (Nat \ {0})
  BY ReportAssumption DEF TextAdapters
<1>2. DOMAIN r.items = 1 .. Len(r.items) /\ Len(r.items) \in Nat /\ \A i \in DOMAIN r.items : r.items[i] \in Item
  BY <1>1, SeqMembers
<1>3. \A c \in DOMAIN r.cells : r.cells[c] \in Names
  <2>1. PICK Q \in SUBSET Names : r.cells \in [Q -> Names]
    BY <1>1 DEF CellTables
  <2> QED
    BY <2>1
<1> QED
  BY <1>1, <1>2, <1>3 DEF Item

\* A bounded set of numbers has a greatest member.
LEMMA Greatest ==
  ASSUME NEW S, NEW n \in Nat, S \subseteq 0 .. n, S # {}
  PROVE  Max(S) \in S /\ \A k \in S : Max(S) >= k
<1> DEFINE T == {u \in Nat : \A k \in S : u >= k}
<1>1. n \in T /\ T \subseteq Nat
  OBVIOUS
<1>2. PICK u \in T : \A v \in T : <<v, u>> \notin OpToRel(<, Nat)
  <2> HIDE DEF T
  <2> QED
    BY <1>1, WFMin, NatLessThanWellFounded, Zenon
<1>3. u \in Nat /\ \A v \in T : ~(v < u)
  <2> HIDE DEF T
  <2>1. u \in Nat
    BY <1>1, <1>2
  <2> QED
    BY <1>1, <1>2, <2>1, Zenon DEF OpToRel
<1>4. u \in S
  <2>1. SUFFICES ASSUME u \notin S PROVE FALSE
    OBVIOUS
  <2>2. PICK k \in S : TRUE
    OBVIOUS
  <2>3. \A j \in S : u >= j /\ j # u /\ j \in Nat
    <3>1. \A j \in S : u >= j
      OBVIOUS
    <3> HIDE DEF T
    <3> QED
      BY <2>1, <3>1
  <2>4. u - 1 \in T
    BY <1>3, <2>2, <2>3
  <2>5. u - 1 < u
    BY <1>3
  <2> HIDE DEF T
  <2> QED
    BY <1>3, <2>4, <2>5
<1>5. \E m \in S : \A k \in S : m >= k
  BY <1>2, <1>4
<1> QED
  BY <1>5 DEF Max

\* A finding is added behind the others.
LEMMA AppendFinding ==
  ASSUME NEW s \in Seq(Finding), NEW f \in Finding
  PROVE  /\ Append(s, f) \in Seq(Finding)
         /\ Len(Append(s, f)) = Len(s) + 1 /\ Len(s) \in Nat
         /\ DOMAIN s = 1 .. Len(s) /\ DOMAIN Append(s, f) = 1 .. Len(s) + 1
         /\ \A i \in DOMAIN s : Append(s, f)[i] = s[i]
         /\ Append(s, f)[Len(s) + 1] = f
OBVIOUS

\* A finding of a line that none of the others is of.
LEMMA NewLine ==
  ASSUME NEW s \in Seq(Finding), NEW f \in Finding,
         \A i, j \in DOMAIN s : s[i].line = s[j].line => i = j,
         \A i \in DOMAIN s : s[i].line # f.line
  PROVE  \A i, j \in DOMAIN Append(s, f) : Append(s, f)[i].line = Append(s, f)[j].line => i = j
<1> DEFINE t == Append(s, f)
<1>1. /\ DOMAIN s = 1 .. Len(s) /\ DOMAIN t = 1 .. Len(s) + 1 /\ Len(s) \in Nat
      /\ t[Len(s) + 1] = f
      /\ \A i \in DOMAIN s : t[i] = s[i]
  BY AppendFinding
<1>2. \A i \in DOMAIN t : i \in DOMAIN s \/ i = Len(s) + 1
  BY <1>1
<1> HIDE DEF t
<1>3. SUFFICES ASSUME NEW i \in DOMAIN t, NEW j \in DOMAIN t, t[i].line = t[j].line
               PROVE  i = j
  BY DEF t
<1>4. CASE i \in DOMAIN s /\ j \in DOMAIN s
  BY <1>1, <1>3, <1>4
<1>5. CASE i \in DOMAIN s /\ j = Len(s) + 1
  BY <1>1, <1>3, <1>5
<1>6. CASE i = Len(s) + 1 /\ j \in DOMAIN s
  BY <1>1, <1>3, <1>6
<1> QED
  BY <1>2, <1>4, <1>5, <1>6

\* A rule without boxes makes a finding of its own, of its own line.
LEMMA Pending ==
  ASSUME TypesKept, outcome = "reading", ~IsDatabase
  PROVE  /\ WithPending \in Seq(Finding)
         /\ \A i \in DOMAIN WithPending : WithPending[i].line < at
         /\ \A i, j \in DOMAIN WithPending : WithPending[i].line = WithPending[j].line => i = j
<1>1. CASE ~(rule # NoRule /\ boxes = 0)
  BY <1>1 DEF TypesKept, TypeOK, Reading, OneFindingPerLine, WithPending, Finding
<1>2. CASE rule # NoRule /\ boxes = 0
  <2> DEFINE f == Deny(rule.line, rule.name, cell)
  <2>1. rule \in [name : Names, line : 1 .. LastLine] /\ found \in Seq(Finding)
    BY <1>2 DEF TypesKept, TypeOK, Finding
  <2>2. LastLine \in Nat
    BY TextReport DEF TypesKept, TypeOK, LastLine, IsDatabase
  <2>3. f \in Finding /\ f.line = rule.line
    BY <2>1, <2>2 DEF TypesKept, TypeOK, Finding, Deny
  <2>4. WithPending = Append(found, f)
    BY <1>2 DEF WithPending
  <2> HIDE DEF f
  <2>5. /\ rule.line < at
        /\ \A i \in DOMAIN found : found[i].line < rule.line
        /\ \A i, j \in DOMAIN found : found[i].line = found[j].line => i = j
    BY <1>2 DEF TypesKept, Reading, OneFindingPerLine
  <2>6. \A i \in DOMAIN found : found[i] \in Finding
    BY <2>1, SeqMembers
  <2>7. \A i \in DOMAIN found : found[i].line # f.line
    BY <2>1, <2>2, <2>3, <2>5, <2>6 DEF Finding
  <2>8. at \in Nat
    BY <2>2 DEF TypesKept, TypeOK
  <2>9. \A i \in DOMAIN WithPending : (i \in DOMAIN found /\ WithPending[i] = found[i]) \/ WithPending[i] = f
    BY <2>1, <2>3, <2>4, AppendFinding
  <2>10. \A i \in DOMAIN found : found[i].line < at
    BY DEF TypesKept, Reading
  <2> QED
    BY <2>1, <2>3, <2>4, <2>5, <2>7, <2>9, <2>10, AppendFinding, NewLine
<1> QED
  BY <1>1, <1>2

\* The line at hand.
LEMMA AtHand ==
  ASSUME TypeOK
  PROVE  /\ LastLine \in Nat /\ at \in Nat \ {0} /\ at <= LastLine + 1
         /\ ~IsDatabase => LastLine = Len(report.lines) /\ DOMAIN report.lines = 1 .. LastLine
         /\ IsDatabase => LastLine = Len(report.items) /\ DOMAIN report.items = 1 .. LastLine
<1>1. report \in Reports
  BY DEF TypeOK
<1>2. CASE IsDatabase
  BY <1>1, <1>2, Database DEF TypeOK, LastLine, IsDatabase
<1>3. CASE ~IsDatabase
  BY <1>1, <1>3, TextReport DEF TypeOK, LastLine, IsDatabase
<1> QED
  BY <1>2, <1>3

-----------------------------------------------------------------------------
\* The ways a step can go, and what each keeps.
LEMMA RefuseKeeps ==
  ASSUME TypesKept, Refuse
  PROVE  TypesKept'
BY DEF TypesKept, TypeOK, Reading, OneFindingPerLine, Refuse, locals, LastLine

LEMMA AcceptKeeps ==
  ASSUME TypesKept, NEW findings \in Seq(Finding), Accept(findings),
         \A i, j \in DOMAIN findings : findings[i].line = findings[j].line => i = j
  PROVE  TypesKept'
<1>1. TypeOK'
  BY DEF TypesKept, TypeOK, Accept, LastLine, Finding
<1>2. Reading' /\ OneFindingPerLine'
  BY DEF Reading, OneFindingPerLine, Accept
<1> QED
  BY <1>1, <1>2 DEF TypesKept

\* The next line, with nothing found.
LEMMA PassKeeps ==
  ASSUME TypesKept, outcome = "reading", ~IsDatabase, at <= Len(report.lines), GoOn,
         UNCHANGED <<rule, boxes, found>>,
         cell' \in Names \union {None}, output' \in Names \union {None},
         passed' \in BOOLEAN, failed' \in BOOLEAN
  PROVE  TypesKept'
<1>1. LastLine' = LastLine /\ LastLine \in Nat /\ at \in Nat \ {0} /\ at <= LastLine /\ at' = at + 1
  BY AtHand DEF TypesKept, GoOn, LastLine
<1>2. at' \in 1 .. LastLine + 1
  BY <1>1
<1>3. TypeOK'
  BY <1>1, <1>2 DEF TypesKept, TypeOK, GoOn
<1>4. OneFindingPerLine'
  BY DEF TypesKept, OneFindingPerLine
<1>5. found \in Seq(Finding) /\ rule.line \in Nat /\ boxes \in Nat
  BY <1>1 DEF TypesKept, TypeOK, Finding, NoRule
<1>6. \A i \in DOMAIN found : found[i].line \in Nat
  <2>1. \A i \in DOMAIN found : found[i] \in Finding
    BY <1>5, SeqMembers
  <2> QED
    BY <2>1 DEF Finding
<1>7. Reading'
  BY <1>1, <1>5, <1>6 DEF TypesKept, Reading, GoOn, IsDatabase
<1> QED
  BY <1>3, <1>4, <1>7 DEF TypesKept

\* The next line, with a finding of this one.
LEMMA FindKeeps ==
  ASSUME TypesKept, outcome = "reading", ~IsDatabase, at <= Len(report.lines), GoOn,
         NEW f \in Finding, f.line = at, found' = Append(found, f),
         UNCHANGED <<rule, cell, output>>, boxes' = boxes + 1 \/ (boxes' = boxes /\ rule = NoRule),
         passed' \in BOOLEAN, failed' \in BOOLEAN
  PROVE  TypesKept'
<1>1. LastLine' = LastLine /\ LastLine \in Nat /\ at \in Nat \ {0} /\ at <= LastLine /\ at' = at + 1
  BY AtHand DEF TypesKept, GoOn, LastLine
<1>2. found \in Seq(Finding) /\ rule.line \in Nat /\ boxes \in Nat /\ boxes < at /\ rule.line < at
  BY <1>1 DEF TypesKept, TypeOK, Finding, NoRule, Reading
<1>3. at' \in 1 .. LastLine + 1 /\ boxes' \in 0 .. LastLine /\ boxes' < at'
  BY <1>1, <1>2
<1>4. found' \in Seq(Finding)
  BY <1>2, AppendFinding
<1>5. TypeOK'
  BY <1>1, <1>3, <1>4 DEF TypesKept, TypeOK, GoOn, Finding
<1>6. \A i \in DOMAIN found : found[i].line \in Nat /\ found[i].line < at
  <2>1. \A i \in DOMAIN found : found[i] \in Finding
    BY <1>2, SeqMembers
  <2> QED
    BY <2>1 DEF TypesKept, Reading, Finding
<1>7. \A i \in DOMAIN found : found[i].line # f.line
  BY <1>1, <1>6
<1>8. OneFindingPerLine'
  BY <1>2, <1>7, NewLine DEF TypesKept, OneFindingPerLine
<1>9. \A i \in DOMAIN found' : (i \in DOMAIN found /\ found'[i] = found[i]) \/ found'[i] = f
  BY <1>2, AppendFinding
<1>10. \A i \in DOMAIN found' : found'[i].line < at'
  BY <1>1, <1>6, <1>9
<1>11. rule' # NoRule => boxes' # 0
  BY <1>2
<1>12. Reading'
  <2>1. report' = report /\ outcome' = outcome /\ rule' = rule /\ (report.adapter # "magic-drc" => rule = NoRule)
    BY DEF TypesKept, Reading, GoOn
  <2> QED
    BY <1>1, <1>2, <1>3, <1>10, <1>11, <2>1 DEF Reading, IsDatabase
<1> QED
  BY <1>5, <1>8, <1>12 DEF TypesKept

-----------------------------------------------------------------------------
\* The line a text reader takes.
LEMMA Taken ==
  ASSUME TypeOK, ~IsDatabase, at <= Len(report.lines)
  PROVE  /\ at \in Nat \ {0} /\ report.lines[at].kind \in Kinds
         /\ report.lines[at].name \in Names \union {None}
         /\ report.lines[at].kind \in {"cell", "rule", "output"} => report.lines[at].name \in Names
<1>1. at \in DOMAIN report.lines /\ at \in Nat \ {0}
  BY AtHand
<1> QED
  BY <1>1, TextReport DEF TypeOK, IsDatabase

LEMMA TakeRuleKeeps ==
  ASSUME TypesKept, TakeRule
  PROVE  TypesKept'
<1>1. /\ outcome = "reading" /\ ~IsDatabase /\ report.adapter = "magic-drc" /\ at <= Len(report.lines)
      /\ GoOn /\ report.lines[at].kind = "rule"
      /\ found' = WithPending /\ rule' = [name |-> report.lines[at].name, line |-> at] /\ boxes' = 0
      /\ UNCHANGED <<cell, passed, failed, output>>
  BY DEF TakeRule, TakesDrc, IsText, IsDatabase
<1>2. LastLine' = LastLine /\ LastLine \in Nat /\ at \in Nat \ {0} /\ at <= LastLine /\ at' = at + 1
  BY <1>1, AtHand DEF TypesKept, GoOn, LastLine
<1>3. rule' \in [name : Names, line : 1 .. LastLine] /\ rule'.line = at
  <2>1. report.lines[at].name \in Names
    BY <1>1, Taken DEF TypesKept
  <2> QED
    BY <1>1, <1>2, <2>1
<1>4. found' \in Seq(Finding) /\ \A i \in DOMAIN found' : found'[i].line < at
  BY <1>1, Pending
<1>5. OneFindingPerLine'
  BY <1>1, Pending DEF OneFindingPerLine
<1>6. at' \in 1 .. LastLine + 1 /\ boxes' \in 0 .. LastLine /\ boxes' < at'
  BY <1>1, <1>2
<1>7. TypeOK'
  BY <1>1, <1>2, <1>3, <1>4, <1>6 DEF TypesKept, TypeOK, GoOn, Finding
<1>8. \A i \in DOMAIN found' : found'[i].line \in Nat
  <2>1. \A i \in DOMAIN found' : found'[i] \in Finding
    BY <1>4, SeqMembers
  <2> QED
    BY <2>1 DEF Finding
<1>9. \A i \in DOMAIN found' : found'[i].line < at'
  BY <1>2, <1>4, <1>8
<1>10. report' = report /\ rule'.line < at'
  BY <1>1, <1>2, <1>3 DEF GoOn
<1>11. Reading'
  BY <1>1, <1>3, <1>4, <1>6, <1>9, <1>10 DEF Reading, IsDatabase
<1> QED
  BY <1>5, <1>7, <1>11 DEF TypesKept

LEMMA TakeItemKeeps ==
  ASSUME TypesKept, TakeItem
  PROVE  TypesKept'
<1> DEFINE item == report.items[at]
<1>1. outcome = "reading" /\ IsDatabase /\ report \in Reports /\ at <= Len(report.items)
  BY DEF TypesKept, TypeOK, TakeItem, TakesItem, IsDatabase
<1>2. LastLine = Len(report.items) /\ LastLine \in Nat /\ at \in Nat \ {0} /\ at <= LastLine
      /\ at \in DOMAIN report.items
  BY <1>1, AtHand DEF TypesKept
<1>3. CASE Refuse
  BY <1>3, RefuseKeeps
<1>4. CASE ~Refuse
  <2>1. PICK line \in ItemLines :
          /\ IsItemLine(at, line)
          /\ item.cell \in DOMAIN report.cells
          /\ found' = Append(found, Deny(line, item.category, report.cells[item.cell]))
          /\ GoOn /\ UNCHANGED <<cell, rule, boxes, passed, failed, output>>
    BY <1>4 DEF TakeItem
  <2> DEFINE f == Deny(line, item.category, report.cells[item.cell])
  <2>2. line \in Nat \ {0}
    BY <1>1, <2>1, Database DEF ItemLines, IsDatabase
  <2>3. item.category \in Names /\ report.cells[item.cell] \in Names
    BY <1>1, <1>2, <2>1, Database DEF IsDatabase
  <2>4. f \in Finding /\ f.line = line
    BY <2>2, <2>3 DEF Deny, Finding
  <2> HIDE DEF f
  <2>5. found \in Seq(Finding) /\ Len(found) = at - 1 /\ \A i \in DOMAIN found : IsItemLine(i, found[i].line)
    BY <1>1 DEF TypesKept, TypeOK, Reading, Finding
  <2>6. /\ found' \in Seq(Finding) /\ Len(found') = at /\ DOMAIN found' = 1 .. at /\ DOMAIN found = 1 .. at - 1
        /\ \A i \in DOMAIN found : found'[i] = found[i]
        /\ found'[at] = f
    <3>1. found' = Append(found, f)
      BY <2>1 DEF f
    <3> QED
      BY <1>2, <2>4, <2>5, <3>1, AppendFinding
  <2>7. \A i \in DOMAIN found' : IsItemLine(i, found'[i].line)
    <3>1. \A i \in DOMAIN found' : i \in DOMAIN found \/ i = at
      BY <1>2, <2>6
    <3> QED
      BY <2>1, <2>4, <2>5, <2>6, <3>1
  <2>8. report' = report /\ outcome' = outcome /\ at' = at + 1 /\ LastLine' = LastLine
        /\ UNCHANGED <<cell, rule, boxes, passed, failed, output>>
    BY <2>1 DEF GoOn, LastLine
  <2>9. at' \in 1 .. LastLine + 1
    BY <1>2, <2>8
  <2>10. TypeOK'
    BY <2>6, <2>8, <2>9 DEF TypesKept, TypeOK, Finding
  <2>11. (\A i \in DOMAIN found : IsItemLine(i, found[i].line))'
    <3>1. ItemLines' = ItemLines
      BY <2>8 DEF ItemLines
    <3> QED
      BY <2>7, <3>1 DEF IsItemLine
  <2>12. OneFindingPerLine'
    BY <2>7 DEF OneFindingPerLine, IsItemLine
  <2>13. rule.line \in Nat /\ boxes \in Nat /\ rule.line < at /\ boxes < at
    BY <1>1, <1>2 DEF TypesKept, TypeOK, Reading, NoRule
  <2>14. rule'.line < at' /\ boxes' < at' /\ Len(found') = at' - 1
    BY <1>2, <2>6, <2>8, <2>13
  <2>15. rule = NoRule
    BY <1>1 DEF TypesKept, Reading, IsDatabase
  <2>16. Reading'
    BY <1>1, <2>8, <2>11, <2>14, <2>15 DEF Reading, IsDatabase
  <2> QED
    BY <2>10, <2>12, <2>16 DEF TypesKept
<1> QED
  BY <1>3, <1>4

-----------------------------------------------------------------------------
LEMMA InitTypes == ASSUME Init PROVE TypesKept
<1>1. report \in Reports /\ at = 1
  BY DEF Init
<1>2. LastLine \in Nat
  <2>1. CASE IsDatabase
    BY <1>1, <2>1, Database DEF LastLine, IsDatabase
  <2>2. CASE ~IsDatabase
    BY <1>1, <2>2, TextReport DEF LastLine, IsDatabase
  <2> QED
    BY <2>1, <2>2
<1>3. at \in 1 .. LastLine + 1 /\ boxes \in 0 .. LastLine
  BY <1>1, <1>2 DEF Init
<1>4. found = <<>>
  BY DEF Init
<1>5. found \in Seq(Finding)
  BY <1>4
<1>6. TypeOK
  BY <1>1, <1>3, <1>5 DEF Init, TypeOK, Finding
<1>7. OneFindingPerLine
  BY <1>4 DEF OneFindingPerLine
<1>8. Reading
  BY <1>1, <1>4 DEF Init, Reading, NoRule
<1> QED
  BY <1>6, <1>7, <1>8 DEF TypesKept

\* Every step keeps the invariant, one action at a time.
LEMMA StepTypes ==
  ASSUME TypesKept, Next
  PROVE  TypesKept'
<1> USE DEF IsDatabase
<1>1. CASE ReadClean
  <2>1. CASE Refuse
    BY <2>1, RefuseKeeps
  <2>2. CASE Accept(<<>>)
    <3>1. <<>> \in Seq(Finding) /\ \A i, j \in DOMAIN <<>> : <<>>[i].line = <<>>[j].line => i = j
      OBVIOUS
    <3> QED
      BY <2>2, <3>1, AcceptKeeps
  <2> QED
    BY <1>1, <2>1, <2>2 DEF ReadClean
<1>2. CASE TakeCell
  <2>1. CASE Refuse
    BY <2>1, RefuseKeeps
  <2>2. CASE ~Refuse
    <3>1. /\ outcome = "reading" /\ ~IsDatabase /\ at <= Len(report.lines) /\ GoOn
          /\ cell' = report.lines[at].name /\ UNCHANGED <<rule, boxes, passed, failed, output, found>>
      BY <1>2, <2>2 DEF TakeCell, TakesDrc, IsText
    <3>2. cell' \in Names \union {None}
      BY <3>1, Taken DEF TypesKept
    <3> QED
      BY <3>1, <3>2, PassKeeps DEF TypesKept, TypeOK
  <2> QED
    BY <2>1, <2>2
<1>3. CASE TakeRule
  BY <1>3, TakeRuleKeeps
<1>4. CASE TakeBox
  <2>1. CASE Refuse
    BY <2>1, RefuseKeeps
  <2>2. CASE ~Refuse
    <3> DEFINE f == Deny(at, rule.name, Objects)
    <3>1. /\ outcome = "reading" /\ ~IsDatabase /\ at <= Len(report.lines) /\ GoOn /\ rule # NoRule
          /\ found' = Append(found, f) /\ boxes' = boxes + 1
          /\ UNCHANGED <<cell, rule, passed, failed, output>>
      BY <1>4, <2>2 DEF TakeBox, TakesDrc, IsText
    <3>2. rule.name \in Names
      BY <3>1 DEF TypesKept, TypeOK
    <3>3. Objects \in Names \union {None} /\ at \in Nat \ {0}
      BY <3>1, Taken DEF TypesKept, TypeOK, Objects
    <3>4. f \in Finding /\ f.line = at
      BY <3>2, <3>3 DEF Deny, Finding
    <3>5. passed' \in BOOLEAN /\ failed' \in BOOLEAN
      BY <3>1 DEF TypesKept, TypeOK
    <3> HIDE DEF f
    <3> QED
      BY <3>1, <3>4, <3>5, FindKeeps
  <2> QED
    BY <2>1, <2>2
<1>5. CASE FinishDrc
  <2>1. CASE Refuse
    BY <2>1, RefuseKeeps
  <2>2. CASE Accept(WithPending)
    <3>1. outcome = "reading" /\ ~IsDatabase
      BY <1>5 DEF FinishDrc, IsText
    <3> QED
      BY <2>2, <3>1, Pending, AcceptKeeps
  <2> QED
    BY <1>5, <2>1, <2>2 DEF FinishDrc
<1>6. CASE TakePassed
  <2>1. /\ outcome = "reading" /\ ~IsDatabase /\ at <= Len(report.lines) /\ GoOn /\ passed' = TRUE
        /\ UNCHANGED <<cell, rule, boxes, failed, output, found>>
    BY <1>6 DEF TakePassed, Takes, IsText
  <2> QED
    BY <2>1, PassKeeps DEF TypesKept, TypeOK
<1>7. CASE TakeFailed
  <2> DEFINE f == Deny(at, report.lines[at].kind, None)
  <2>1. /\ outcome = "reading" /\ ~IsDatabase /\ at <= Len(report.lines) /\ GoOn /\ failed' = TRUE
        /\ report.adapter # "magic-drc" /\ found' = Append(found, f)
        /\ UNCHANGED <<cell, rule, boxes, passed, output>>
    BY <1>7 DEF TakeFailed, Takes, IsText
  <2>2. f \in Finding /\ f.line = at
    BY <2>1, Taken DEF TypesKept, Deny, Finding
  <2>3. rule = NoRule
    BY <2>1 DEF TypesKept, Reading
  <2> HIDE DEF f
  <2> QED
    BY <2>1, <2>2, <2>3, FindKeeps DEF TypesKept, TypeOK
<1>8. CASE TakeWarning
  <2> DEFINE f == Review(at, "warning")
  <2>1. /\ outcome = "reading" /\ ~IsDatabase /\ at <= Len(report.lines) /\ GoOn
        /\ report.adapter # "magic-drc" /\ found' = Append(found, f)
        /\ UNCHANGED <<cell, rule, boxes, passed, failed, output>>
    BY <1>8 DEF TakeWarning, Takes, IsText
  <2>2. f \in Finding /\ f.line = at
    BY <2>1, Taken DEF TypesKept, Review, Finding, Kinds
  <2>3. rule = NoRule
    BY <2>1 DEF TypesKept, Reading
  <2> HIDE DEF f
  <2> QED
    BY <2>1, <2>2, <2>3, FindKeeps DEF TypesKept, TypeOK
<1>9. CASE TakeOutput
  <2>1. CASE Refuse
    BY <2>1, RefuseKeeps
  <2>2. CASE ~Refuse
    <3>1. /\ outcome = "reading" /\ ~IsDatabase /\ at <= Len(report.lines) /\ GoOn
          /\ output' = report.lines[at].name /\ UNCHANGED <<cell, rule, boxes, passed, failed, found>>
      BY <1>9, <2>2 DEF TakeOutput, Takes, IsText
    <3>2. output' \in Names \union {None}
      BY <3>1, Taken DEF TypesKept
    <3> QED
      BY <3>1, <3>2, PassKeeps DEF TypesKept, TypeOK
  <2> QED
    BY <2>1, <2>2
<1>10. CASE FinishLvs \/ FinishPex
  <2>1. CASE Refuse
    BY <2>1, RefuseKeeps
  <2>2. CASE Accept(found)
    BY <2>2, AcceptKeeps DEF TypesKept, TypeOK, OneFindingPerLine, Finding
  <2> QED
    BY <1>10, <2>1, <2>2 DEF FinishLvs, FinishPex
<1>11. CASE TakeHeading
  <2>1. /\ outcome = "reading" /\ ~IsDatabase /\ at <= Len(report.lines) /\ GoOn
        /\ UNCHANGED <<cell, rule, boxes, passed, failed, output, found>>
    BY <1>11 DEF TakeHeading, TakesDrc, Takes, IsText, locals
  <2> QED
    BY <2>1, PassKeeps DEF TypesKept, TypeOK
<1>12. CASE TakeOther \/ RefuseLines
  BY <1>12, RefuseKeeps DEF TakeOther, RefuseLines
<1>13. CASE TakeItem
  BY <1>13, TakeItemKeeps
<1>14. CASE FinishItems
  BY <1>14, AcceptKeeps DEF FinishItems, TypesKept, TypeOK, OneFindingPerLine, Finding
<1> QED
  BY <1>1, <1>2, <1>3, <1>4, <1>5, <1>6, <1>7, <1>8, <1>9, <1>10, <1>11, <1>12, <1>13, <1>14 DEF Next

LEMMA StutterTypes == ASSUME TypesKept, UNCHANGED vars PROVE TypesKept'
<1>1. TypeOK'
  BY DEF TypesKept, TypeOK, vars, locals, LastLine
<1>2. OneFindingPerLine'
  BY DEF TypesKept, OneFindingPerLine, vars, locals
<1>3. Reading'
  BY DEF TypesKept, Reading, vars, locals, IsDatabase, IsItemLine, ItemLines
<1> QED
  BY <1>1, <1>2, <1>3 DEF TypesKept

LEMMA TypesAlways == Spec => []TypesKept
<1>1. TypesKept /\ [Next]_vars => TypesKept'
  BY StepTypes, StutterTypes
<1> QED
  BY <1>1, InitTypes, PTL DEF Spec

\* Every variable of a reader keeps its type, whatever the report says.
THEOREM TypeCorrect == Spec => []TypeOK
<1>1. TypesKept => TypeOK
  BY DEF TypesKept
<1> QED
  BY <1>1, TypesAlways, PTL

\* The line tells any two findings of a report apart, so a waiver can name each
\* of them and only it.
THEOREM FindingsToldApart == Spec => []OneFindingPerLine
<1>1. TypesKept => OneFindingPerLine
  BY DEF TypesKept
<1> QED
  BY <1>1, TypesAlways, PTL

-----------------------------------------------------------------------------
(***************************************************************************)
(* A clean report says so.                                                 *)
(***************************************************************************)
FailedKinds == {"mismatch", "property", "unmatched", "error"}
Denied == \E i \in DOMAIN found : found[i].severity = "deny"

\* The flags of the readers say what the lines behind the one at hand say, and
\* a failure has always been found as one.
Verdict ==
  outcome = "reading" =>
    /\ report.adapter \in {"magic-drc", "klayout-drc"} => \A i \in DOMAIN found : found[i].severity = "deny"
    /\ report.adapter = "netgen-lvs" =>
         /\ passed => Positions({"match"}) # {}
         /\ ~failed => \A i \in Positions(FailedKinds) : i >= at
    /\ report.adapter = "magic-pex" =>
         /\ passed => Positions({"complete"}) # {}
         /\ output # None => Positions({"output"}) # {}
         /\ ~failed => \A i \in Positions({"error"}) : i >= at
    /\ failed => Denied

Clean == Verdict /\ CleanOnlyWhenSaid

LEMMA InitClean == ASSUME Init PROVE Clean
<1>1. CleanOnlyWhenSaid
  BY DEF Init, CleanOnlyWhenSaid
<1>2. at = 1 /\ failed = FALSE /\ passed = FALSE /\ output = None /\ found = <<>> /\ report \in Reports
  BY DEF Init
<1>3. ASSUME report.adapter # "klayout-drc" PROVE \A kinds : \A i \in Positions(kinds) : i >= at
  BY <1>2, <1>3, TextReport DEF Positions
<1>4. Verdict
  BY <1>2, <1>3 DEF Verdict
<1> QED
  BY <1>1, <1>4 DEF Clean

\* A line that is not of a kind is not at one of its positions.
LEMMA NotAtHand ==
  ASSUME TypesKept, ~IsDatabase, NEW kinds, at <= Len(report.lines), report.lines[at].kind \notin kinds,
         \A i \in Positions(kinds) : i >= at
  PROVE  \A i \in Positions(kinds) : i >= at + 1
<1>1. at \in Nat /\ DOMAIN report.lines \subseteq Nat
  BY AtHand DEF TypesKept
<1> QED
  BY <1>1 DEF Positions

\* A line at hand is at a position of its kind.
LEMMA IsAtHand ==
  ASSUME TypesKept, ~IsDatabase, at <= Len(report.lines), NEW kinds, report.lines[at].kind \in kinds
  PROVE  Positions(kinds) # {}
<1>1. at \in DOMAIN report.lines
  BY AtHand DEF TypesKept
<1> QED
  BY <1>1 DEF Positions

\* Reading on does not undo what was found.
LEMMA AddFinding ==
  ASSUME TypesKept, NEW f \in Finding, found' = Append(found, f)
  PROVE  /\ Denied \/ f.severity = "deny" => Denied'
         /\ (\A i \in DOMAIN found : found[i].severity = "deny") /\ f.severity = "deny" =>
              \A i \in DOMAIN found' : found'[i].severity = "deny"
<1>1. found \in Seq(Finding)
  BY DEF TypesKept, TypeOK, Finding
<1>2. /\ DOMAIN found = 1 .. Len(found) /\ DOMAIN found' = 1 .. Len(found) + 1 /\ Len(found) \in Nat
      /\ \A i \in DOMAIN found : found'[i] = found[i]
      /\ found'[Len(found) + 1] = f
  BY <1>1, AppendFinding
<1>3. /\ \A i \in DOMAIN found' : i \in DOMAIN found \/ i = Len(found) + 1
      /\ DOMAIN found \subseteq DOMAIN found' /\ Len(found) + 1 \in DOMAIN found'
  BY <1>2
<1> QED
  BY <1>2, <1>3 DEF Denied

LEMMA RefuseClean == ASSUME Refuse PROVE Clean'
BY DEF Refuse, Clean, Verdict, CleanOnlyWhenSaid

LEMMA ReadOnClean == ASSUME outcome = "reading", GoOn, Verdict' PROVE Clean'
BY DEF GoOn, Clean, CleanOnlyWhenSaid

LEMMA AcceptClean ==
  ASSUME NEW findings, Accept(findings), CleanOnlyWhenSaid'
  PROVE  Clean'
BY DEF Accept, Clean, Verdict

\* Readers of text.
LEMMA ReadCleanKeeps ==
  ASSUME TypesKept, ReadClean
  PROVE  Clean'
<1>1. CASE Refuse
  BY <1>1, RefuseClean
<1>2. CASE ~Refuse
  <2>1. /\ report.adapter = "magic-drc" /\ SaysClean /\ Accept(<<>>)
        /\ Positions({"clean", "cell", "heading"}) = DOMAIN report.lines
    BY <1>2 DEF ReadClean, IsText
  <2>2. Positions({"clean"}) # {} /\ Positions({"rule", "box"}) = {}
    BY <2>1 DEF SaysClean, Positions
  <2>3. report' = report
    BY <2>1 DEF Accept
  <2>4. CleanOnlyWhenSaid'
    BY <2>1, <2>2, <2>3 DEF CleanOnlyWhenSaid, Positions
  <2> QED
    BY <2>1, <2>4, AcceptClean
<1> QED
  BY <1>1, <1>2

LEMMA PendingDenies ==
  ASSUME TypesKept, Clean, outcome = "reading", report.adapter = "magic-drc"
  PROVE  \A i \in DOMAIN WithPending : WithPending[i].severity = "deny"
<1>1. \A i \in DOMAIN found : found[i].severity = "deny"
  BY DEF Clean, Verdict
<1> DEFINE f == Deny(rule.line, rule.name, cell)
<1>2. CASE WithPending = Append(found, f)
  <2>1. found \in Seq(Finding)
    BY DEF TypesKept, TypeOK, Finding
  <2>2. /\ DOMAIN WithPending = 1 .. Len(found) + 1 /\ DOMAIN found = 1 .. Len(found) /\ Len(found) \in Nat
        /\ \A i \in 1 .. Len(found) : WithPending[i] = found[i]
        /\ WithPending[Len(found) + 1] = f
    BY <1>2, <2>1
  <2>3. f.severity = "deny"
    BY DEF Deny
  <2> QED
    BY <1>1, <2>2, <2>3
<1> QED
  BY <1>1, <1>2 DEF WithPending

LEMMA DrcKeepsClean ==
  ASSUME TypesKept, Clean, TakeCell \/ TakeRule \/ TakeBox \/ FinishDrc
  PROVE  Clean'
<1>1. outcome = "reading" /\ report.adapter = "magic-drc" /\ (\A i \in DOMAIN found : found[i].severity = "deny")
      /\ (failed => Denied)
  BY DEF TakeCell, TakeRule, TakeBox, FinishDrc, TakesDrc, IsText, Clean, Verdict
<1>2. CASE Refuse
  BY <1>2, RefuseClean
<1>3. CASE TakeCell /\ ~Refuse
  <2>1. GoOn /\ UNCHANGED <<failed, found>>
    BY <1>3 DEF TakeCell
  <2>2. Verdict'
    BY <1>1, <2>1 DEF Verdict, Denied, GoOn
  <2> QED
    BY <1>1, <2>1, <2>2, ReadOnClean
<1>4. CASE TakeRule
  <2>1. GoOn /\ found' = WithPending /\ UNCHANGED failed
    BY <1>4 DEF TakeRule
  <2>2. \A i \in DOMAIN found' : found'[i].severity = "deny"
    BY <1>1, <2>1, PendingDenies
  <2>3. Denied => Denied'
    <3>1. CASE found' = found
      BY <3>1 DEF Denied
    <3>2. CASE found' # found
      <4>1. found' = Append(found, Deny(rule.line, rule.name, cell)) /\ found \in Seq(Finding)
        BY <2>1, <3>2 DEF WithPending, TypesKept, TypeOK, Finding
      <4>2. Len(found) + 1 \in DOMAIN found'
        BY <4>1
      <4> QED
        BY <2>2, <4>2 DEF Denied
    <3> QED
      BY <3>1, <3>2
  <2>4. Verdict'
    BY <1>1, <2>1, <2>2, <2>3 DEF Verdict, GoOn
  <2> QED
    BY <1>1, <2>1, <2>4, ReadOnClean
<1>5. CASE TakeBox /\ ~Refuse
  <2> DEFINE f == Deny(at, rule.name, Objects)
  <2>1. GoOn /\ found' = Append(found, f) /\ UNCHANGED failed /\ rule # NoRule /\ at <= Len(report.lines)
    BY <1>5 DEF TakeBox, TakesDrc
  <2>2. f \in Finding /\ f.severity = "deny"
    <3>1. rule.name \in Names
      BY <2>1 DEF TypesKept, TypeOK
    <3>2. Objects \in Names \union {None} /\ at \in Nat \ {0}
      BY <1>1, <2>1, Taken DEF TypesKept, TypeOK, Objects, IsDatabase
    <3> QED
      BY <3>1, <3>2 DEF Deny, Finding
  <2> HIDE DEF f
  <2>3. Denied' /\ \A i \in DOMAIN found' : found'[i].severity = "deny"
    BY <1>1, <2>1, <2>2, AddFinding
  <2>4. Verdict'
    BY <1>1, <2>1, <2>3 DEF Verdict, GoOn
  <2> QED
    BY <1>1, <2>1, <2>4, ReadOnClean
<1>6. CASE FinishDrc /\ ~Refuse
  <2>1. Accept(WithPending) /\ WithPending # <<>>
    BY <1>6 DEF FinishDrc
  <2>2. \A i \in DOMAIN WithPending : WithPending[i].severity = "deny"
    BY <1>1, PendingDenies
  <2>3. \E i \in DOMAIN WithPending : WithPending[i].severity = "deny"
    <3>1. WithPending \in Seq(Finding)
      BY <1>1, Pending DEF IsDatabase
    <3> QED
      BY <2>1, <2>2, <3>1
  <2>4. CleanOnlyWhenSaid'
    BY <2>1, <2>3 DEF CleanOnlyWhenSaid, Accept, ToSet
  <2> QED
    BY <2>1, <2>4, AcceptClean
<1> QED
  BY <1>2, <1>3, <1>4, <1>5, <1>6

LEMMA ItemsKeepClean ==
  ASSUME TypesKept, Clean, TakeItem \/ FinishItems
  PROVE  Clean'
<1>1. outcome = "reading" /\ IsDatabase /\ (\A i \in DOMAIN found : found[i].severity = "deny")
      /\ (failed => Denied)
  BY DEF TakeItem, FinishItems, TakesItem, Clean, Verdict, IsDatabase
<1>2. CASE Refuse
  BY <1>2, RefuseClean
<1>3. CASE TakeItem /\ ~Refuse
  <2> DEFINE item == report.items[at]
  <2>1. PICK line \in ItemLines :
          /\ item.cell \in DOMAIN report.cells
          /\ found' = Append(found, Deny(line, item.category, report.cells[item.cell]))
          /\ GoOn /\ UNCHANGED failed /\ at <= Len(report.items)
    BY <1>3 DEF TakeItem
  <2> DEFINE f == Deny(line, item.category, report.cells[item.cell])
  <2>2. f \in Finding /\ f.severity = "deny"
    <3>1. at \in DOMAIN report.items /\ report \in Reports
      BY <1>1, <2>1, AtHand DEF TypesKept, TypeOK
    <3>2. line \in Nat \ {0}
      BY <1>1, <3>1, Database DEF ItemLines, IsDatabase
    <3> QED
      BY <1>1, <2>1, <3>1, <3>2, Database DEF IsDatabase, Deny, Finding
  <2>3. found' = Append(found, f)
    BY <2>1
  <2> HIDE DEF f
  <2>4. Denied' /\ \A i \in DOMAIN found' : found'[i].severity = "deny"
    BY <1>1, <2>2, <2>3, AddFinding
  <2>5. Verdict'
    BY <1>1, <2>1, <2>4 DEF Verdict, GoOn, IsDatabase
  <2> QED
    BY <1>1, <2>1, <2>5, ReadOnClean
<1>4. CASE FinishItems
  <2>1. Accept(found) /\ at > Len(report.items)
    BY <1>4 DEF FinishItems
  <2>2. Len(found) = Len(report.items) /\ report.items \in Seq(Item) /\ found \in Seq(Finding)
    <3>1. Len(found) = at - 1 /\ found \in Seq(Finding) /\ report \in Reports
      BY <1>1 DEF TypesKept, TypeOK, Reading, Finding
    <3>2. at = Len(report.items) + 1 /\ Len(report.items) \in Nat
      BY <1>1, <2>1, AtHand DEF TypesKept
    <3>3. report.items \in Seq(Item)
      BY <1>1, <3>1, ReportAssumption DEF IsDatabase, TextAdapters
    <3> QED
      BY <3>1, <3>2, <3>3
  <2>3. (\A i \in DOMAIN found : found[i].severity # "deny") => report.items = <<>>
    BY <1>1, <2>2
  <2>4. CleanOnlyWhenSaid'
    BY <1>1, <2>1, <2>3 DEF CleanOnlyWhenSaid, Accept, ToSet, IsDatabase
  <2> QED
    BY <2>1, <2>4, AcceptClean
<1> QED
  BY <1>2, <1>3, <1>4

\* Lines of Netgen and Magic PEX reports that are no failures.
LEMMA LinesKeepClean ==
  ASSUME TypesKept, Clean, outcome = "reading", ~IsDatabase, at <= Len(report.lines), GoOn,
         report.adapter = "magic-drc" => UNCHANGED found, UNCHANGED failed,
         report.lines[at].kind \notin FailedKinds,
         Denied => Denied',
         report.adapter = "netgen-lvs" /\ passed' => Positions({"match"}) # {},
         report.adapter = "magic-pex" /\ passed' => Positions({"complete"}) # {},
         report.adapter = "magic-pex" /\ output' # None => Positions({"output"}) # {}
  PROVE  Clean'
<1>1. report' = report /\ at' = at + 1 /\ outcome' = outcome
  BY DEF GoOn
<1>2. \A kinds : Positions(kinds)' = Positions(kinds)
  BY <1>1 DEF Positions
<1>3. report.adapter = "netgen-lvs" /\ ~failed => \A i \in Positions(FailedKinds) : i >= at + 1
  BY NotAtHand DEF Clean, Verdict
<1>4. report.adapter = "magic-pex" /\ ~failed => \A i \in Positions({"error"}) : i >= at + 1
  <2>1. report.lines[at].kind \notin {"error"}
    BY DEF FailedKinds
  <2> QED
    BY <2>1, NotAtHand DEF Clean, Verdict
<1>5. failed => Denied
  BY DEF Clean, Verdict
<1>6. Verdict'
  BY <1>1, <1>2, <1>3, <1>4, <1>5 DEF Verdict, Clean, IsDatabase
<1> QED
  BY <1>6, ReadOnClean

LEMMA TextKeepsClean ==
  ASSUME TypesKept, Clean, TakePassed \/ TakeWarning \/ TakeOutput \/ TakeHeading
  PROVE  Clean'
<1>1. outcome = "reading" /\ ~IsDatabase /\ at <= Len(report.lines)
  BY DEF TakePassed, TakeWarning, TakeOutput, TakeHeading, TakesDrc, Takes, IsText, IsDatabase
<1>2. /\ report.adapter = "netgen-lvs" /\ passed => Positions({"match"}) # {}
      /\ report.adapter = "magic-pex" /\ passed => Positions({"complete"}) # {}
      /\ report.adapter = "magic-pex" /\ output # None => Positions({"output"}) # {}
  BY <1>1 DEF Clean, Verdict
<1>3. CASE TakePassed
  <2>1. /\ GoOn /\ UNCHANGED <<failed, output, found>>
        /\ \/ report.adapter = "netgen-lvs" /\ report.lines[at].kind = "match"
           \/ report.adapter = "magic-pex" /\ report.lines[at].kind = "complete"
    BY <1>3 DEF TakePassed, Takes, IsText
  <2>2. report.lines[at].kind \notin FailedKinds /\ (Denied => Denied')
    BY <2>1 DEF FailedKinds, Denied
  <2>3. /\ report.adapter = "netgen-lvs" => Positions({"match"}) # {}
        /\ report.adapter = "magic-pex" => Positions({"complete"}) # {}
    BY <1>1, <2>1, IsAtHand
  <2> QED
    BY <1>1, <1>2, <2>1, <2>2, <2>3, LinesKeepClean
<1>4. CASE TakeWarning
  <2> DEFINE f == Review(at, "warning")
  <2>1. /\ GoOn /\ UNCHANGED <<failed, passed, output>> /\ found' = Append(found, f)
        /\ report.adapter # "magic-drc" /\ report.lines[at].kind = "warning"
    BY <1>4 DEF TakeWarning, Takes, IsText
  <2>2. f \in Finding
    BY <1>1, <2>1, Taken DEF TypesKept, Review, Finding, Kinds
  <2> HIDE DEF f
  <2>3. report.lines[at].kind \notin FailedKinds /\ (Denied => Denied')
    BY <2>1, <2>2, AddFinding DEF FailedKinds
  <2> QED
    BY <1>1, <1>2, <2>1, <2>3, LinesKeepClean
<1>5. CASE TakeOutput
  <2>1. CASE Refuse
    BY <2>1, RefuseClean
  <2>2. CASE ~Refuse
    <3>1. /\ GoOn /\ UNCHANGED <<failed, passed, found>>
          /\ report.adapter = "magic-pex" /\ report.lines[at].kind = "output"
      BY <1>5, <2>2 DEF TakeOutput, Takes, IsText
    <3>2. report.lines[at].kind \notin FailedKinds /\ (Denied => Denied')
      BY <3>1 DEF FailedKinds, Denied
    <3>3. Positions({"output"}) # {}
      BY <1>1, <3>1, IsAtHand
    <3> QED
      BY <1>1, <1>2, <3>1, <3>2, <3>3, LinesKeepClean
  <2> QED
    BY <2>1, <2>2
<1>6. CASE TakeHeading
  <2>1. GoOn /\ UNCHANGED <<failed, passed, output, found>> /\ report.lines[at].kind = "heading"
    BY <1>6 DEF TakeHeading, TakesDrc, Takes, locals
  <2>2. report.lines[at].kind \notin FailedKinds /\ (Denied => Denied')
    BY <2>1 DEF FailedKinds, Denied
  <2> QED
    BY <1>1, <1>2, <2>1, <2>2, LinesKeepClean
<1> QED
  BY <1>3, <1>4, <1>5, <1>6

LEMMA FailureKeepsClean ==
  ASSUME TypesKept, Clean, TakeFailed
  PROVE  Clean'
<1> DEFINE f == Deny(at, report.lines[at].kind, None)
<1>1. /\ outcome = "reading" /\ ~IsDatabase /\ at <= Len(report.lines) /\ GoOn /\ failed' = TRUE
      /\ report.adapter # "magic-drc" /\ found' = Append(found, f) /\ UNCHANGED <<passed, output>>
  BY DEF TakeFailed, Takes, IsText, IsDatabase
<1>2. f \in Finding /\ f.severity = "deny"
  BY <1>1, Taken DEF TypesKept, Deny, Finding
<1> HIDE DEF f
<1>3. Denied'
  BY <1>1, <1>2, AddFinding
<1>4. report' = report /\ \A kinds : Positions(kinds)' = Positions(kinds)
  BY <1>1 DEF GoOn, Positions
<1>5. Verdict'
  BY <1>1, <1>3, <1>4 DEF Verdict, Clean, IsDatabase
<1> QED
  BY <1>1, <1>5, ReadOnClean

LEMMA VerdictKeepsClean ==
  ASSUME TypesKept, Clean, FinishLvs \/ FinishPex
  PROVE  Clean'
<1>1. CASE Refuse
  BY <1>1, RefuseClean
<1>2. CASE ~Refuse
  <2>1. /\ outcome = "reading" /\ ~IsDatabase /\ at > Len(report.lines) /\ Accept(found) /\ passed # failed
        /\ passed \in BOOLEAN /\ failed \in BOOLEAN
        /\ report.adapter \in {"netgen-lvs", "magic-pex"}
        /\ report.adapter = "magic-pex" => ~(passed /\ output = None)
    BY <1>2 DEF FinishLvs, FinishPex, IsText, IsDatabase, TypesKept, TypeOK
  <2>2. \A kinds : (\A i \in Positions(kinds) : i >= at) => Positions(kinds) = {}
    <3>1. DOMAIN report.lines = 1 .. Len(report.lines) /\ at \in Nat /\ Len(report.lines) \in Nat
      BY <2>1, AtHand DEF TypesKept
    <3> QED
      BY <2>1, <3>1 DEF Positions
  <2>3. failed => Denied
    BY <2>1 DEF Clean, Verdict
  <2>4. report' = report /\ found' = found /\ \A kinds : Positions(kinds)' = Positions(kinds)
    BY <2>1 DEF Accept, Positions
  <2>5. CASE failed
    <3>1. ~ \A g \in ToSet(found') : g.severity # "deny"
      BY <2>3, <2>4, <2>5 DEF Denied, ToSet
    <3> QED
      BY <2>1, <3>1, AcceptClean DEF CleanOnlyWhenSaid
  <2>6. CASE ~failed
    <3>1. /\ report.adapter = "netgen-lvs" => Positions({"match"}) # {} /\ Positions(FailedKinds) = {}
          /\ report.adapter = "magic-pex" =>
               Positions({"complete"}) # {} /\ Positions({"output"}) # {} /\ Positions({"error"}) = {}
      BY <2>1, <2>2, <2>6 DEF Clean, Verdict
    <3>2. CleanOnlyWhenSaid'
      BY <2>1, <2>4, <3>1 DEF CleanOnlyWhenSaid, FailedKinds
    <3> QED
      BY <2>1, <3>2, AcceptClean
  <2> QED
    BY <2>5, <2>6
<1> QED
  BY <1>1, <1>2

LEMMA StutterClean == ASSUME Clean, UNCHANGED vars PROVE Clean'
<1>1. \A kinds : Positions(kinds)' = Positions(kinds)
  BY DEF Positions, vars
<1>2. Denied' = Denied
  BY DEF Denied, vars, locals
<1>3. Verdict'
  BY <1>1, <1>2 DEF Clean, Verdict, vars, locals
<1>4. CleanOnlyWhenSaid'
  BY <1>1 DEF Clean, CleanOnlyWhenSaid, vars, locals
<1> QED
  BY <1>3, <1>4 DEF Clean

LEMMA CleanAlways == Spec => []Clean
<1>1. TypesKept /\ Clean /\ Next => Clean'
  BY ReadCleanKeeps, DrcKeepsClean, ItemsKeepClean, TextKeepsClean, FailureKeepsClean, VerdictKeepsClean,
     RefuseClean DEF Next, TakeOther, RefuseLines
<1>2. TypesKept /\ Clean /\ [Next]_vars => Clean'
  BY <1>1, StutterClean
<1> QED
  BY <1>2, InitClean, TypesAlways, PTL DEF Spec

\* No report passes that was cut off before its verdict, or that says two things.
THEOREM PassesOnlyWhenSaid == Spec => []CleanOnlyWhenSaid
<1>1. Clean => CleanOnlyWhenSaid
  BY DEF Clean
<1> QED
  BY <1>1, CleanAlways, PTL

-----------------------------------------------------------------------------
(***************************************************************************)
(* No violation is lost.                                                   *)
(***************************************************************************)
Behind(kinds) == {i \in Positions(kinds) : i < at}

\* The findings of the lines behind the one at hand.
SaidSoFar ==
  {Deny(i, report.lines[i].kind, None) : i \in Behind(FailedKinds)}
    \union {Review(i, "warning") : i \in Behind({"warning"})}

\* The object of the box at line i, under the cell named so far.
BoxObject(i) == IF report.lines[i].name # None THEN report.lines[i].name ELSE cell

\* The rule at hand is the last one behind, its boxes are those since, and a
\* cell is named once, before any rule.
RuleAtHand ==
  /\ rule = NoRule => Behind({"rule"}) = {} /\ Behind({"box"}) = {} /\ found = <<>>
  /\ rule # NoRule =>
       /\ rule.line \in Behind({"rule"}) /\ rule.name = report.lines[rule.line].name
       /\ \A j \in Behind({"rule"}) : j <= rule.line
       /\ boxes = 0 <=> \A i \in Behind({"box"}) : i < rule.line
       /\ \A i \in Behind({"box"}) : \E j \in Behind({"rule"}) : j <= i
  /\ cell = None => Behind({"cell"}) = {}
  /\ cell # None => \E c \in Positions({"cell"}) : Behind({"cell"}) = {c} /\ cell = report.lines[c].name

DrcSoFar ==
  {Deny(i, report.lines[RuleAbove(i)].name, BoxObject(i)) : i \in Behind({"box"})}
    \union {Deny(j, report.lines[j].name, cell) : j \in {k \in BareRules : k < rule.line}}

NothingLost ==
  /\ outcome = "reading" =>
       /\ report.adapter = "magic-drc" => RuleAtHand /\ ToSet(found) = DrcSoFar
       /\ report.adapter \in {"netgen-lvs", "magic-pex"} => ToSet(found) = SaidSoFar
       /\ IsDatabase => \A i \in DOMAIN found : /\ found[i].rule = report.items[i].category
                                               /\ found[i].objects = report.cells[report.items[i].cell]
  /\ EveryViolationFound

\* One more finding, as a set.
LEMMA SetOfAppend ==
  ASSUME NEW s \in Seq(Finding), NEW f \in Finding
  PROVE  ToSet(Append(s, f)) = ToSet(s) \union {f}
<1> DEFINE t == Append(s, f)
<1>1. /\ DOMAIN s = 1 .. Len(s) /\ DOMAIN t = 1 .. Len(s) + 1 /\ Len(s) \in Nat
      /\ t[Len(s) + 1] = f
      /\ \A i \in DOMAIN s : t[i] = s[i]
  BY AppendFinding
<1>2. /\ \A i \in DOMAIN t : i \in DOMAIN s \/ i = Len(s) + 1
      /\ DOMAIN s \subseteq DOMAIN t /\ Len(s) + 1 \in DOMAIN t
  BY <1>1
<1> HIDE DEF t
<1> QED
  BY <1>1, <1>2 DEF ToSet, t

\* Behind the next line is what was behind this one, and this one.
LEMMA NextBehind ==
  ASSUME TypesKept, ~IsDatabase, at <= Len(report.lines), GoOn, NEW kinds
  PROVE  Behind(kinds)' = IF report.lines[at].kind \in kinds THEN Behind(kinds) \union {at} ELSE Behind(kinds)
<1>1. /\ DOMAIN report.lines = 1 .. Len(report.lines) /\ at \in DOMAIN report.lines /\ at \in Nat
      /\ Len(report.lines) \in Nat /\ at' = at + 1 /\ report' = report
  BY AtHand DEF TypesKept, GoOn
<1>2. \A i \in DOMAIN report.lines : i < at + 1 <=> i < at \/ i = at
  BY <1>1
<1> QED
  BY <1>1, <1>2 DEF Behind, Positions

\* The rule above a line is the last one up to it.
LEMMA RuleAboveIs ==
  ASSUME report \in Reports, ~IsDatabase, NEW i \in Nat, NEW r \in Positions({"rule"}), r <= i
  PROVE  /\ RuleAbove(i) \in Positions({"rule"}) /\ RuleAbove(i) <= i
         /\ \A j \in Positions({"rule"}) : j <= i => j <= RuleAbove(i)
<1> DEFINE S == {j \in Positions({"rule"}) : j <= i}
<1>1. Positions({"rule"}) \subseteq Nat
  BY TextReport DEF IsDatabase, Positions
<1>2. S \subseteq 0 .. i /\ S # {}
  BY <1>1
<1>3. Max(S) \in S /\ \A k \in S : Max(S) >= k
  <2> HIDE DEF S
  <2> QED
    BY <1>2, Greatest
<1>4. RuleAbove(i) = Max(S)
  BY DEF RuleAbove
<1> QED
  BY <1>1, <1>3, <1>4

\* The rule at hand stays without a box exactly if it has none so far, once the
\* next rule begins or the report ends.
LEMMA BareAtHand ==
  ASSUME TypesKept, outcome = "reading", report.adapter = "magic-drc", RuleAtHand, rule # NoRule,
         at \in Positions({"rule"}) \/ at > Len(report.lines)
  PROVE  rule.line \in BareRules <=> boxes = 0
<1>1. /\ report \in Reports /\ ~IsDatabase /\ DOMAIN report.lines = 1 .. Len(report.lines)
      /\ Len(report.lines) \in Nat /\ at \in Nat
  BY AtHand DEF TypesKept, TypeOK, IsDatabase
<1>2. /\ rule.line \in Positions({"rule"}) /\ rule.line < at
      /\ \A j \in Positions({"rule"}) : j < at => j <= rule.line
      /\ boxes = 0 <=> \A i \in Positions({"box"}) : i < at => i < rule.line
      /\ \A i \in Positions({"box"}) : i < at => \E j \in Positions({"rule"}) : j < at /\ j <= i
  BY DEF RuleAtHand, Behind
<1>3. \A kinds : Positions(kinds) \subseteq 1 .. Len(report.lines)
  BY <1>1 DEF Positions
<1>4. rule.line \in Nat
  BY <1>2, <1>3
<1>5. ASSUME NEW i \in Positions({"box"})
      PROVE  RuleAbove(i) = rule.line <=> rule.line <= i /\ i < at
  <2>1. i \in Nat /\ i <= Len(report.lines)
    BY <1>3
  <2>2. \E j \in Positions({"rule"}) : j <= i
    <3>1. CASE i < at
      BY <1>2, <3>1
    <3>2. CASE at <= i
      BY <1>1, <2>1, <3>2
    <3> QED
      BY <1>1, <2>1, <3>1, <3>2
  <2>3. /\ RuleAbove(i) \in Positions({"rule"}) /\ RuleAbove(i) <= i
        /\ \A j \in Positions({"rule"}) : j <= i => j <= RuleAbove(i)
    BY <1>1, <2>1, <2>2, RuleAboveIs
  <2>4. RuleAbove(i) \in Nat
    BY <1>3, <2>3
  <2> HIDE DEF RuleAbove
  <2>5. CASE rule.line <= i /\ i < at
    <3>1. rule.line <= RuleAbove(i)
      BY <1>2, <2>3, <2>5
    <3>2. RuleAbove(i) < at
      BY <1>1, <2>1, <2>3, <2>4, <2>5
    <3>3. RuleAbove(i) <= rule.line
      BY <1>2, <2>3, <3>2
    <3> QED
      BY <1>4, <2>4, <2>5, <3>1, <3>3
  <2>6. CASE i < rule.line
    BY <1>1, <1>4, <2>1, <2>3, <2>4, <2>6
  <2>7. CASE at <= i
    <3>1. at <= RuleAbove(i)
      BY <1>1, <2>1, <2>3, <2>7
    <3> QED
      BY <1>1, <1>2, <1>4, <2>1, <2>4, <2>7, <3>1
  <2> QED
    BY <1>1, <1>4, <2>1, <2>5, <2>6, <2>7
<1>6. \A i \in Positions({"box"}) : i \in Nat
  BY <1>3
<1>7. rule.line \in BareRules <=> \A i \in Positions({"box"}) : RuleAbove(i) # rule.line
  BY <1>2 DEF BareRules
<1>8. boxes = 0 <=> \A i \in Positions({"box"}) : ~(rule.line <= i /\ i < at)
  BY <1>1, <1>2, <1>4, <1>6
<1> QED
  BY <1>5, <1>7, <1>8

\* With the rule at hand, if it stayed without a box, the findings are those of
\* the boxes behind and of the rules without boxes behind.
LEMMA PendingSet ==
  ASSUME TypesKept, outcome = "reading", report.adapter = "magic-drc", RuleAtHand, ToSet(found) = DrcSoFar,
         at \in Positions({"rule"}) \/ at > Len(report.lines)
  PROVE  ToSet(WithPending) =
           {Deny(i, report.lines[RuleAbove(i)].name, BoxObject(i)) : i \in Behind({"box"})}
             \union {Deny(j, report.lines[j].name, cell) : j \in {k \in BareRules : k < at}}
<1>1. /\ DOMAIN report.lines = 1 .. Len(report.lines) /\ Len(report.lines) \in Nat /\ at \in Nat /\ ~IsDatabase
  BY AtHand DEF TypesKept, IsDatabase
<1>2. \A k \in BareRules : k \in Nat \ {0} /\ k \in Positions({"rule"})
  BY <1>1 DEF BareRules, Positions
<1>3. CASE rule = NoRule
  <2>1. rule.line = 0 /\ WithPending = found
    BY <1>3 DEF NoRule, WithPending
  <2>2. {k \in BareRules : k < at} = {} /\ {k \in BareRules : k < rule.line} = {}
    BY <1>2, <1>3, <2>1 DEF RuleAtHand, Behind
  <2> QED
    BY <2>1, <2>2 DEF DrcSoFar
<1>4. CASE rule # NoRule
  <2>1. /\ rule.line \in Positions({"rule"}) /\ rule.line < at /\ rule.name = report.lines[rule.line].name
        /\ \A j \in Positions({"rule"}) : j < at => j <= rule.line
    BY <1>4 DEF RuleAtHand, Behind
  <2>2. rule.line \in Nat
    BY <1>1, <2>1 DEF Positions
  <2>3. rule.line \in BareRules <=> boxes = 0
    BY <1>4, BareAtHand
  <2>4. {k \in BareRules : k < at} =
          {k \in BareRules : k < rule.line} \union (IF boxes = 0 THEN {rule.line} ELSE {})
    <3>1. \A k \in BareRules : k < at <=> k < rule.line \/ k = rule.line
      BY <1>1, <1>2, <2>1, <2>2
    <3> QED
      BY <2>3, <3>1
  <2> DEFINE f == Deny(rule.line, rule.name, cell)
  <2>5. ToSet(WithPending) = ToSet(found) \union (IF boxes = 0 THEN {f} ELSE {})
    <3>1. CASE boxes # 0
      BY <3>1 DEF WithPending
    <3>2. CASE boxes = 0
      <4>1. WithPending = Append(found, f) /\ found \in Seq(Finding)
        BY <1>4, <3>2 DEF WithPending, TypesKept, TypeOK, Finding
      <4>2. f \in Finding
        <5>1. rule \in [name : Names, line : 1 .. LastLine] /\ LastLine \in Nat
          BY <1>4, AtHand DEF TypesKept, TypeOK
        <5> QED
          BY <5>1 DEF TypesKept, TypeOK, Deny, Finding
      <4> HIDE DEF f
      <4> QED
        BY <3>2, <4>1, <4>2, SetOfAppend
    <3> QED
      BY <3>1, <3>2
  <2>6. f = Deny(rule.line, report.lines[rule.line].name, cell)
    BY <2>1
  <2> HIDE DEF f
  <2> DEFINE g(j) == Deny(j, report.lines[j].name, cell)
  <2>7. {g(j) : j \in {k \in BareRules : k < at}} =
          {g(j) : j \in {k \in BareRules : k < rule.line}} \union (IF boxes = 0 THEN {f} ELSE {})
    <3>1. f = g(rule.line)
      BY <2>6
    <3> HIDE DEF g
    <3> QED
      BY <2>4, <3>1
  <2> QED
    BY <2>5, <2>7 DEF DrcSoFar
<1> QED
  BY <1>3, <1>4

LEMMA RefuseLoses == ASSUME Refuse PROVE NothingLost'
BY DEF Refuse, NothingLost, EveryViolationFound

LEMMA CellLosesNothing ==
  ASSUME TypesKept, NothingLost, TakeCell
  PROVE  NothingLost'
<1>1. CASE Refuse
  BY <1>1, RefuseLoses
<1>2. CASE ~Refuse
  <2>1. /\ outcome = "reading" /\ report.adapter = "magic-drc" /\ ~IsDatabase /\ at <= Len(report.lines)
        /\ report.lines[at].kind = "cell" /\ GoOn /\ rule = NoRule /\ cell = None
        /\ cell' = report.lines[at].name /\ UNCHANGED <<rule, boxes, found>>
    BY <1>2 DEF TakeCell, TakesDrc, IsText, IsDatabase
  <2>2. RuleAtHand
    BY <2>1 DEF NothingLost
  <2>3. Behind({"rule"}) = {} /\ Behind({"box"}) = {} /\ found = <<>> /\ Behind({"cell"}) = {}
    BY <2>1, <2>2 DEF RuleAtHand
  <2>4. Behind({"rule"})' = {} /\ Behind({"box"})' = {} /\ Behind({"cell"})' = {at}
    BY <2>1, <2>3, NextBehind
  <2>5. at \in Positions({"cell"}) /\ report' = report /\ outcome' = outcome
    BY <2>1, AtHand DEF TypesKept, Positions, GoOn
  <2>6. cell' # None
    BY <2>1, Taken, ReportAssumption DEF TypesKept
  <2>7. RuleAtHand'
    <3>1. at \in Positions({"cell"})'
      BY <2>5 DEF Positions
    <3> QED
      BY <2>1, <2>3, <2>4, <2>5, <2>6, <3>1 DEF RuleAtHand
  <2>8. DrcSoFar' = {}
    <3>1. \A k \in BareRules' : k \in Nat
      BY <2>1, <2>5, AtHand DEF BareRules, Positions, TypesKept
    <3>2. rule'.line = 0
      BY <2>1 DEF NoRule
    <3>3. \A k \in BareRules' : k # 0
      BY <2>1, <2>5, AtHand DEF BareRules, Positions, TypesKept
    <3>4. {k \in BareRules' : k < rule'.line} = {}
      BY <3>1, <3>2, <3>3
    <3> QED
      BY <2>4, <3>4 DEF DrcSoFar
  <2>9. ToSet(found)' = {}
    BY <2>1, <2>3 DEF ToSet
  <2> QED
    BY <2>1, <2>5, <2>7, <2>8, <2>9 DEF NothingLost, EveryViolationFound, IsDatabase
<1> QED
  BY <1>1, <1>2

LEMMA RuleLosesNothing ==
  ASSUME TypesKept, NothingLost, TakeRule
  PROVE  NothingLost'
<1>1. /\ outcome = "reading" /\ report.adapter = "magic-drc" /\ ~IsDatabase /\ at <= Len(report.lines)
      /\ report.lines[at].kind = "rule" /\ GoOn /\ found' = WithPending
      /\ rule' = [name |-> report.lines[at].name, line |-> at] /\ boxes' = 0 /\ cell' = cell
  BY DEF TakeRule, TakesDrc, IsText, IsDatabase
<1>2. RuleAtHand /\ ToSet(found) = DrcSoFar
  BY <1>1 DEF NothingLost
<1>3. /\ at \in DOMAIN report.lines /\ DOMAIN report.lines = 1 .. Len(report.lines) /\ Len(report.lines) \in Nat
      /\ at \in Nat \ {0}
  BY <1>1, AtHand DEF TypesKept
<1>4. at \in Positions({"rule"}) /\ report' = report /\ outcome' = outcome
  BY <1>1, <1>3 DEF Positions, GoOn
<1>5. /\ Behind({"rule"})' = Behind({"rule"}) \union {at} /\ Behind({"box"})' = Behind({"box"})
      /\ Behind({"cell"})' = Behind({"cell"})
  BY <1>1, NextBehind
<1>6. rule'.line = at /\ rule'.name = report.lines[at].name /\ rule' # NoRule
  BY <1>1, <1>3 DEF NoRule
<1>7. /\ \A i \in Behind({"box"}) : i < at /\ \E j \in Behind({"rule"}) : j <= i
      /\ \A j \in Behind({"rule"}) : j < at /\ j \in Nat
  BY <1>2, <1>3 DEF RuleAtHand, Behind, Positions
<1>8. /\ cell' = None => Behind({"cell"})' = {}
      /\ cell' # None => \E c \in Positions({"cell"})' : Behind({"cell"})' = {c} /\ cell' = report'.lines[c].name
  BY <1>1, <1>2, <1>4, <1>5 DEF RuleAtHand, Positions
<1>9. RuleAtHand'
  <2>1. rule'.line \in Behind({"rule"})' /\ rule'.name = report'.lines[rule'.line].name
    BY <1>4, <1>5, <1>6
  <2>2. \A j \in Behind({"rule"})' : j <= rule'.line
    BY <1>3, <1>5, <1>6, <1>7
  <2>3. boxes' = 0 <=> \A i \in Behind({"box"})' : i < rule'.line
    BY <1>1, <1>5, <1>6, <1>7
  <2>4. \A i \in Behind({"box"})' : \E j \in Behind({"rule"})' : j <= i
    BY <1>5, <1>7
  <2> QED
    BY <1>6, <1>8, <2>1, <2>2, <2>3, <2>4 DEF RuleAtHand
<1>10. ToSet(found)' = DrcSoFar'
  <2>1. ToSet(found)' =
          {Deny(i, report.lines[RuleAbove(i)].name, BoxObject(i)) : i \in Behind({"box"})}
             \union {Deny(j, report.lines[j].name, cell) : j \in {k \in BareRules : k < at}}
    BY <1>1, <1>2, <1>4, PendingSet DEF ToSet
  <2>2. BareRules' = BareRules /\ \A i : RuleAbove(i)' = RuleAbove(i) /\ BoxObject(i)' = BoxObject(i)
    BY <1>1, <1>4 DEF BareRules, RuleAbove, BoxObject, Positions
  <2> QED
    BY <1>1, <1>4, <1>5, <1>6, <2>1, <2>2 DEF DrcSoFar
<1> QED
  BY <1>1, <1>4, <1>9, <1>10 DEF NothingLost, EveryViolationFound, IsDatabase

LEMMA BoxLosesNothing ==
  ASSUME TypesKept, NothingLost, TakeBox
  PROVE  NothingLost'
<1>1. CASE Refuse
  BY <1>1, RefuseLoses
<1>2. CASE ~Refuse
  <2> DEFINE f == Deny(at, rule.name, Objects)
  <2>1. /\ outcome = "reading" /\ report.adapter = "magic-drc" /\ ~IsDatabase /\ at <= Len(report.lines)
        /\ report.lines[at].kind = "box" /\ GoOn /\ rule # NoRule /\ found' = Append(found, f)
        /\ boxes' = boxes + 1 /\ UNCHANGED <<cell, rule>>
    BY <1>2 DEF TakeBox, TakesDrc, IsText, IsDatabase
  <2>2. RuleAtHand /\ ToSet(found) = DrcSoFar
    BY <2>1 DEF NothingLost
  <2>3. /\ at \in DOMAIN report.lines /\ DOMAIN report.lines = 1 .. Len(report.lines) /\ Len(report.lines) \in Nat
        /\ at \in Nat \ {0} /\ report \in Reports
    BY <2>1, AtHand DEF TypesKept, TypeOK
  <2>4. report' = report /\ outcome' = outcome /\ at' = at + 1
    BY <2>1 DEF GoOn
  <2>5. /\ Behind({"rule"})' = Behind({"rule"}) /\ Behind({"box"})' = Behind({"box"}) \union {at}
        /\ Behind({"cell"})' = Behind({"cell"})
    BY <2>1, NextBehind
  <2>6. /\ rule.line \in Behind({"rule"}) /\ rule.line \in Positions({"rule"}) /\ rule.line < at
        /\ rule.line \in Nat /\ \A j \in Behind({"rule"}) : j <= rule.line
        /\ rule.name = report.lines[rule.line].name
    BY <2>1, <2>2, <2>3 DEF RuleAtHand, Behind, Positions
  <2>7. boxes' # 0 /\ ~(at < rule.line) /\ rule.line <= at
    <3>1. boxes \in Nat
      BY AtHand DEF TypesKept, TypeOK
    <3> QED
      BY <2>1, <2>3, <2>6, <3>1
  <2>8. RuleAtHand'
    <3>1. rule'.line \in Behind({"rule"})' /\ rule'.name = report'.lines[rule'.line].name
      BY <2>1, <2>4, <2>5, <2>6
    <3>2. \A j \in Behind({"rule"})' : j <= rule'.line
      BY <2>1, <2>5, <2>6
    <3>3. boxes' = 0 <=> \A i \in Behind({"box"})' : i < rule'.line
      BY <2>1, <2>5, <2>7
    <3>4. \A i \in Behind({"box"})' : \E j \in Behind({"rule"})' : j <= i
      BY <2>1, <2>2, <2>5, <2>6, <2>7 DEF RuleAtHand
    <3>5. /\ cell' = None => Behind({"cell"})' = {}
          /\ cell' # None => \E c \in Positions({"cell"})' : Behind({"cell"})' = {c} /\ cell' = report'.lines[c].name
      BY <2>1, <2>2, <2>4, <2>5 DEF RuleAtHand, Positions
    <3>6. rule' # NoRule
      BY <2>1
    <3> QED
      BY <3>1, <3>2, <3>3, <3>4, <3>5, <3>6 DEF RuleAtHand
  <2>9. RuleAbove(at) = rule.line
    <3>1. /\ RuleAbove(at) \in Positions({"rule"}) /\ RuleAbove(at) <= at
          /\ \A j \in Positions({"rule"}) : j <= at => j <= RuleAbove(at)
      BY <2>1, <2>3, <2>6, <2>7, RuleAboveIs
    <3>2. RuleAbove(at) \in Nat
      BY <2>3, <3>1 DEF Positions
    <3>3. RuleAbove(at) # at
      BY <2>1, <3>1 DEF Positions
    <3> HIDE DEF RuleAbove
    <3>4. RuleAbove(at) \in Behind({"rule"})
      BY <2>3, <3>1, <3>2, <3>3 DEF Behind
    <3> QED
      BY <2>6, <2>7, <3>1, <3>2, <3>4
  <2>10. f \in Finding /\ f = Deny(at, report.lines[RuleAbove(at)].name, BoxObject(at))
    <3>1. rule.name \in Names
      BY <2>1 DEF TypesKept, TypeOK
    <3>2. Objects \in Names \union {None} /\ Objects = BoxObject(at)
      BY <2>1, Taken DEF TypesKept, TypeOK, Objects, BoxObject
    <3> QED
      BY <2>3, <2>6, <2>9, <3>1, <3>2 DEF Deny, Finding
  <2> HIDE DEF f
  <2>11. ToSet(found)' = DrcSoFar \union {f}
    <3>1. ToSet(found') = ToSet(found) \union {f}
      BY <2>1, <2>10, SetOfAppend DEF TypesKept, TypeOK, Finding
    <3> QED
      BY <2>2, <3>1 DEF ToSet
  <2>12. BareRules' = BareRules /\ \A i : RuleAbove(i)' = RuleAbove(i) /\ BoxObject(i)' = BoxObject(i)
    BY <2>1, <2>4 DEF BareRules, RuleAbove, BoxObject, Positions
  <2>13. DrcSoFar' = DrcSoFar \union {f}
    <3> DEFINE g(i) == Deny(i, report.lines[RuleAbove(i)].name, BoxObject(i))
    <3>1. {g(i) : i \in Behind({"box"}) \union {at}} = {g(i) : i \in Behind({"box"})} \union {f}
      <4>1. f = g(at)
        BY <2>10
      <4> HIDE DEF g
      <4> QED
        BY <4>1
    <3> DEFINE R == {Deny(j, report.lines[j].name, cell) : j \in {k \in BareRules : k < rule.line}}
    <3>2. DrcSoFar = {g(i) : i \in Behind({"box"})} \union R
      BY DEF DrcSoFar
    <3>3. DrcSoFar' = {g(i) : i \in Behind({"box"})'} \union R
      BY <2>1, <2>4, <2>12 DEF DrcSoFar
    <3> HIDE DEF g, R
    <3> QED
      BY <2>5, <3>1, <3>2, <3>3
  <2> QED
    BY <2>1, <2>4, <2>8, <2>11, <2>13 DEF NothingLost, EveryViolationFound, IsDatabase
<1> QED
  BY <1>1, <1>2

\* What a report states does not change while it is read.
LEMMA StatedOnce ==
  ASSUME report' = report
  PROVE  Stated' = Stated
<1>1. \A kinds : Positions(kinds)' = Positions(kinds)
  BY DEF Positions
<1>2. \A i : RuleAbove(i)' = RuleAbove(i)
  BY <1>1 DEF RuleAbove
<1>3. BareRules' = BareRules
  BY DEF BareRules, RuleAbove, Positions
<1>4. CellNamed' = CellNamed
  BY <1>1 DEF CellNamed
<1> QED
  BY <1>1, <1>2, <1>3, <1>4 DEF Stated

\* The cell named so far is the cell named, once the report has been read.
LEMMA CellIsNamed ==
  ASSUME TypesKept, report.adapter = "magic-drc", RuleAtHand, at > Len(report.lines)
  PROVE  /\ CellNamed = cell
         /\ \A kinds : Behind(kinds) = Positions(kinds)
<1>1. /\ DOMAIN report.lines = 1 .. Len(report.lines) /\ Len(report.lines) \in Nat /\ at \in Nat
  BY AtHand DEF TypesKept, IsDatabase
<1>2. \A kinds : Behind(kinds) = Positions(kinds)
  BY <1>1 DEF Behind, Positions
<1>3. CASE cell = None
  BY <1>2, <1>3 DEF RuleAtHand, CellNamed
<1>4. CASE cell # None
  <2>1. PICK c \in Positions({"cell"}) : Positions({"cell"}) = {c} /\ cell = report.lines[c].name
    BY <1>2, <1>4 DEF RuleAtHand
  <2>2. Min({c}) = c
    <3>1. c \in Nat
      BY <1>1, <2>1 DEF Positions
    <3> QED
      BY <3>1 DEF Min
  <2> QED
    BY <1>2, <2>1, <2>2 DEF CellNamed
<1> QED
  BY <1>2, <1>3, <1>4

LEMMA FinishDrcLosesNothing ==
  ASSUME TypesKept, NothingLost, FinishDrc
  PROVE  NothingLost'
<1>1. CASE Refuse
  BY <1>1, RefuseLoses
<1>2. CASE ~Refuse
  <2>1. /\ outcome = "reading" /\ report.adapter = "magic-drc" /\ at > Len(report.lines) /\ Accept(WithPending)
    BY <1>2 DEF FinishDrc, IsText
  <2>2. RuleAtHand /\ ToSet(found) = DrcSoFar
    BY <2>1 DEF NothingLost
  <2>3. ToSet(WithPending) =
           {Deny(i, report.lines[RuleAbove(i)].name, BoxObject(i)) : i \in Behind({"box"})}
             \union {Deny(j, report.lines[j].name, cell) : j \in {k \in BareRules : k < at}}
    BY <2>1, <2>2, PendingSet
  <2>4. CellNamed = cell /\ Behind({"box"}) = Positions({"box"})
    BY <2>1, <2>2, CellIsNamed
  <2>5. {k \in BareRules : k < at} = BareRules
    <3>1. /\ DOMAIN report.lines = 1 .. Len(report.lines) /\ Len(report.lines) \in Nat /\ at \in Nat
      BY <2>1, AtHand DEF TypesKept, IsDatabase
    <3> QED
      BY <2>1, <3>1 DEF BareRules, Positions
  <2>6. Stated =
           {Deny(i, report.lines[RuleAbove(i)].name, BoxObject(i)) : i \in Positions({"box"})}
             \union {Deny(i, report.lines[i].name, cell) : i \in BareRules}
    BY <2>1, <2>4 DEF Stated, BoxObject
  <2>7. ToSet(WithPending) = Stated
    BY <2>3, <2>4, <2>5, <2>6
  <2>8. report' = report /\ found' = WithPending /\ outcome' = "accepted" /\ Stated' = Stated
    BY <2>1, StatedOnce DEF Accept
  <2>9. ToSet(found)' = Stated'
    BY <2>7, <2>8 DEF ToSet
  <2> QED
    BY <2>1, <2>8, <2>9 DEF NothingLost, EveryViolationFound
<1> QED
  BY <1>1, <1>2

LEMMA CleanLosesNothing ==
  ASSUME ReadClean
  PROVE  NothingLost'
<1>1. CASE Refuse
  BY <1>1, RefuseLoses
<1>2. CASE ~Refuse
  <2>1. /\ report.adapter = "magic-drc" /\ Accept(<<>>)
        /\ Positions({"clean", "cell", "heading"}) = DOMAIN report.lines
    BY <1>2 DEF ReadClean, IsText
  <2>2. report' = report /\ found' = <<>> /\ outcome' = "accepted"
    BY <2>1 DEF Accept
  <2>3. Positions({"rule"})' = {} /\ Positions({"box"})' = {}
    BY <2>1, <2>2 DEF Positions
  <2>4. Stated' = {}
    BY <2>1, <2>2, <2>3 DEF Stated, BareRules
  <2>5. ToSet(found)' = {}
    BY <2>2 DEF ToSet
  <2> QED
    BY <2>1, <2>2, <2>4, <2>5 DEF NothingLost, EveryViolationFound
<1> QED
  BY <1>1, <1>2

\* A line from which nothing is found and no rule or cell is taken.
LEMMA LineLosesNothing ==
  ASSUME TypesKept, NothingLost, outcome = "reading", ~IsDatabase, at <= Len(report.lines), GoOn,
         UNCHANGED <<found, rule, boxes, cell>>,
         report.lines[at].kind \notin FailedKinds \union {"warning", "rule", "box", "cell"}
  PROVE  NothingLost'
<1>1. report' = report /\ outcome' = outcome
  BY DEF GoOn
<1>2. /\ Behind({"rule"})' = Behind({"rule"}) /\ Behind({"box"})' = Behind({"box"})
      /\ Behind({"cell"})' = Behind({"cell"}) /\ Behind(FailedKinds)' = Behind(FailedKinds)
      /\ Behind({"warning"})' = Behind({"warning"})
  BY NextBehind
<1>3. /\ BareRules' = BareRules /\ \A i : RuleAbove(i)' = RuleAbove(i) /\ BoxObject(i)' = BoxObject(i)
      /\ Positions({"cell"})' = Positions({"cell"})
  BY <1>1 DEF BareRules, RuleAbove, BoxObject, Positions
<1>4. RuleAtHand' <=> RuleAtHand
  BY <1>1, <1>2, <1>3 DEF RuleAtHand
<1>5. DrcSoFar' = DrcSoFar
  BY <1>1, <1>2, <1>3 DEF DrcSoFar
<1>6. SaidSoFar' = SaidSoFar
  BY <1>1, <1>2 DEF SaidSoFar
<1>7. ToSet(found)' = ToSet(found)
  BY DEF ToSet
<1> QED
  BY <1>1, <1>4, <1>5, <1>6, <1>7 DEF NothingLost, EveryViolationFound, IsDatabase

LEMMA QuietLinesLoseNothing ==
  ASSUME TypesKept, NothingLost, TakePassed \/ TakeOutput \/ TakeHeading
  PROVE  NothingLost'
<1>1. CASE Refuse
  BY <1>1, RefuseLoses
<1>2. CASE ~Refuse
  <2>1. /\ outcome = "reading" /\ ~IsDatabase /\ at <= Len(report.lines) /\ GoOn
        /\ UNCHANGED <<found, rule, boxes, cell>>
        /\ report.lines[at].kind \in {"match", "complete", "output", "heading"}
    BY <1>2 DEF TakePassed, TakeOutput, TakeHeading, TakesDrc, Takes, IsText, IsDatabase, locals
  <2>2. report.lines[at].kind \notin FailedKinds \union {"warning", "rule", "box", "cell"}
    BY <2>1 DEF FailedKinds
  <2> QED
    BY <2>1, <2>2, LineLosesNothing
<1> QED
  BY <1>1, <1>2

\* Findings of Netgen and Magic PEX lines.
LEMMA FoundLinesLoseNothing ==
  ASSUME TypesKept, NothingLost, TakeFailed \/ TakeWarning
  PROVE  NothingLost'
<1>1. /\ outcome = "reading" /\ ~IsDatabase /\ at <= Len(report.lines) /\ GoOn
      /\ report.adapter \in {"netgen-lvs", "magic-pex"}
      /\ \/ /\ report.lines[at].kind \in FailedKinds
            /\ found' = Append(found, Deny(at, report.lines[at].kind, None))
         \/ /\ report.lines[at].kind = "warning"
            /\ found' = Append(found, Review(at, "warning"))
  BY DEF TakeFailed, TakeWarning, Takes, IsText, IsDatabase, FailedKinds
<1>2. report' = report /\ outcome' = outcome /\ found \in Seq(Finding) /\ ToSet(found) = SaidSoFar
  BY <1>1 DEF GoOn, NothingLost, TypesKept, TypeOK, Finding
<1>3. at \in Nat \ {0} /\ report.lines[at].kind \in Kinds
  BY <1>1, Taken DEF TypesKept
<1>4. CASE report.lines[at].kind \in FailedKinds
  <2> DEFINE f == Deny(at, report.lines[at].kind, None)
  <2>1. found' = Append(found, f)
    BY <1>1, <1>4 DEF FailedKinds
  <2>2. Behind(FailedKinds)' = Behind(FailedKinds) \union {at} /\ Behind({"warning"})' = Behind({"warning"})
    BY <1>1, <1>4, NextBehind DEF FailedKinds
  <2>3. SaidSoFar' = SaidSoFar \union {f}
    BY <1>2, <2>2 DEF SaidSoFar
  <2>4. f \in Finding
    BY <1>3 DEF Deny, Finding
  <2> HIDE DEF f
  <2>5. ToSet(found)' = SaidSoFar'
    <3>1. ToSet(found') = ToSet(found) \union {f}
      BY <1>2, <2>1, <2>4, SetOfAppend
    <3> QED
      BY <1>2, <2>3, <3>1 DEF ToSet
  <2> QED
    BY <1>1, <1>2, <2>5 DEF NothingLost, EveryViolationFound, IsDatabase
<1>5. CASE report.lines[at].kind = "warning"
  <2> DEFINE f == Review(at, "warning")
  <2>1. found' = Append(found, f)
    BY <1>1, <1>5 DEF FailedKinds
  <2>2. Behind(FailedKinds)' = Behind(FailedKinds) /\ Behind({"warning"})' = Behind({"warning"}) \union {at}
    BY <1>1, <1>5, NextBehind DEF FailedKinds
  <2>3. SaidSoFar' = SaidSoFar \union {f}
    BY <1>2, <2>2 DEF SaidSoFar
  <2>4. f \in Finding
    BY <1>3 DEF Review, Finding, Kinds
  <2> HIDE DEF f
  <2>5. ToSet(found)' = SaidSoFar'
    <3>1. ToSet(found') = ToSet(found) \union {f}
      BY <1>2, <2>1, <2>4, SetOfAppend
    <3> QED
      BY <1>2, <2>3, <3>1 DEF ToSet
  <2> QED
    BY <1>1, <1>2, <2>5 DEF NothingLost, EveryViolationFound, IsDatabase
<1> QED
  BY <1>1, <1>4, <1>5

LEMMA FinishLosesNothing ==
  ASSUME TypesKept, NothingLost, FinishLvs \/ FinishPex
  PROVE  NothingLost'
<1>1. CASE Refuse
  BY <1>1, RefuseLoses
<1>2. CASE ~Refuse
  <2>1. /\ outcome = "reading" /\ ~IsDatabase /\ at > Len(report.lines) /\ Accept(found)
        /\ report.adapter \in {"netgen-lvs", "magic-pex"}
    BY <1>2 DEF FinishLvs, FinishPex, IsText, IsDatabase
  <2>2. \A kinds : Behind(kinds) = Positions(kinds)
    <3>1. /\ DOMAIN report.lines = 1 .. Len(report.lines) /\ Len(report.lines) \in Nat /\ at \in Nat
      BY <2>1, AtHand DEF TypesKept
    <3> QED
      BY <2>1, <3>1 DEF Behind, Positions
  <2>3. Stated = SaidSoFar
    BY <2>1, <2>2 DEF Stated, SaidSoFar, FailedKinds
  <2>4. ToSet(found) = Stated
    BY <2>1, <2>3 DEF NothingLost
  <2>5. report' = report /\ found' = found /\ outcome' = "accepted" /\ Stated' = Stated
    BY <2>1, StatedOnce DEF Accept
  <2>6. ToSet(found)' = Stated'
    BY <2>4, <2>5 DEF ToSet
  <2> QED
    BY <2>1, <2>5, <2>6 DEF NothingLost, EveryViolationFound, IsDatabase
<1> QED
  BY <1>1, <1>2

LEMMA ItemsLoseNothing ==
  ASSUME TypesKept, NothingLost, TakeItem \/ FinishItems
  PROVE  NothingLost'
<1>1. outcome = "reading" /\ IsDatabase /\ report \in Reports /\ found \in Seq(Finding) /\ Len(found) = at - 1
  BY DEF TakeItem, FinishItems, TakesItem, IsDatabase, TypesKept, TypeOK, Reading, Finding
<1>2. /\ LastLine = Len(report.items) /\ LastLine \in Nat /\ at \in Nat \ {0} /\ at <= LastLine + 1
      /\ DOMAIN report.items = 1 .. LastLine
  BY <1>1, AtHand DEF TypesKept
<1>3. \A i \in DOMAIN found : /\ found[i].rule = report.items[i].category
                             /\ found[i].objects = report.cells[report.items[i].cell]
  BY <1>1 DEF NothingLost
<1>4. CASE Refuse
  BY <1>4, RefuseLoses
<1>5. CASE TakeItem /\ ~Refuse
  <2> DEFINE item == report.items[at]
  <2>1. PICK line \in ItemLines :
          /\ item.cell \in DOMAIN report.cells
          /\ found' = Append(found, Deny(line, item.category, report.cells[item.cell]))
          /\ GoOn /\ at <= Len(report.items)
    BY <1>5 DEF TakeItem
  <2> DEFINE f == Deny(line, item.category, report.cells[item.cell])
  <2>2. f \in Finding
    <3>1. at \in DOMAIN report.items /\ line \in Nat \ {0}
      BY <1>1, <1>2, <2>1, Database DEF ItemLines, IsDatabase
    <3> QED
      BY <1>1, <2>1, <3>1, Database DEF IsDatabase, Deny, Finding
  <2>3. f.rule = item.category /\ f.objects = report.cells[item.cell]
    BY DEF Deny
  <2>4. found' = Append(found, f)
    BY <2>1
  <2> HIDE DEF f
  <2>5. /\ DOMAIN found = 1 .. at - 1 /\ DOMAIN found' = 1 .. at
        /\ (\A i \in DOMAIN found : found'[i] = found[i]) /\ found'[at] = f
    BY <1>1, <1>2, <2>2, <2>4, AppendFinding
  <2>6. \A i \in DOMAIN found' : i \in DOMAIN found \/ i = at
    BY <1>2, <2>5
  <2>7. \A i \in DOMAIN found' : /\ found'[i].rule = report.items[i].category
                               /\ found'[i].objects = report.cells[report.items[i].cell]
    BY <1>3, <2>3, <2>5, <2>6
  <2>8. report' = report /\ outcome' = outcome
    BY <2>1 DEF GoOn
  <2> QED
    BY <1>1, <2>7, <2>8 DEF NothingLost, EveryViolationFound, IsDatabase
<1>6. CASE FinishItems
  <2>1. Accept(found) /\ at > Len(report.items)
    BY <1>6 DEF FinishItems
  <2>2. Len(found) = Len(report.items)
    BY <1>1, <1>2, <2>1
  <2>3. report' = report /\ found' = found /\ outcome' = "accepted"
    BY <2>1 DEF Accept
  <2> QED
    BY <1>1, <1>3, <2>2, <2>3 DEF NothingLost, EveryViolationFound, IsDatabase
<1> QED
  BY <1>4, <1>5, <1>6

LEMMA InitLoses == ASSUME Init PROVE NothingLost
<1>1. at = 1 /\ rule = NoRule /\ cell = None /\ found = <<>> /\ outcome = "reading" /\ report \in Reports
  BY DEF Init
<1>2. EveryViolationFound
  BY <1>1 DEF EveryViolationFound
<1>3. CASE IsDatabase
  BY <1>1, <1>2, <1>3 DEF NothingLost, IsDatabase
<1>4. CASE ~IsDatabase
  <2>1. \A kinds : Behind(kinds) = {}
    BY <1>1, <1>4, TextReport DEF Behind, Positions, IsDatabase
  <2>2. RuleAtHand
    BY <1>1, <2>1 DEF RuleAtHand
  <2>3. {k \in BareRules : k < rule.line} = {}
    BY <1>1, <1>4, TextReport DEF BareRules, Positions, IsDatabase, NoRule
  <2>4. DrcSoFar = {} /\ SaidSoFar = {} /\ ToSet(found) = {}
    BY <1>1, <2>1, <2>3 DEF DrcSoFar, SaidSoFar, ToSet
  <2> QED
    BY <1>2, <1>4, <2>2, <2>4 DEF NothingLost
<1> QED
  BY <1>3, <1>4

LEMMA StutterLoses == ASSUME NothingLost, UNCHANGED vars PROVE NothingLost'
<1>1. report' = report /\ outcome' = outcome /\ found' = found /\ at' = at /\ rule' = rule /\ cell' = cell
      /\ boxes' = boxes
  BY DEF vars, locals
<1>2. \A kinds : Behind(kinds)' = Behind(kinds) /\ Positions(kinds)' = Positions(kinds)
  BY <1>1 DEF Behind, Positions
<1>3. /\ BareRules' = BareRules /\ \A i : RuleAbove(i)' = RuleAbove(i) /\ BoxObject(i)' = BoxObject(i)
  BY <1>1 DEF BareRules, RuleAbove, BoxObject, Positions
<1>4. RuleAtHand' <=> RuleAtHand
  BY <1>1, <1>2 DEF RuleAtHand
<1>5. DrcSoFar' = DrcSoFar /\ SaidSoFar' = SaidSoFar /\ ToSet(found)' = ToSet(found)
  BY <1>1, <1>2, <1>3 DEF DrcSoFar, SaidSoFar, ToSet
<1>6. EveryViolationFound'
  BY <1>1, <1>5, StatedOnce DEF NothingLost, EveryViolationFound
<1> QED
  BY <1>1, <1>4, <1>5, <1>6 DEF NothingLost, IsDatabase

LEMMA NothingLostAlways == Spec => []NothingLost
<1>1. TypesKept /\ NothingLost /\ Next => NothingLost'
  BY CleanLosesNothing, CellLosesNothing, RuleLosesNothing, BoxLosesNothing, FinishDrcLosesNothing,
     QuietLinesLoseNothing, FoundLinesLoseNothing, FinishLosesNothing, ItemsLoseNothing, RefuseLoses
     DEF Next, TakeOther, RefuseLines
<1>2. TypesKept /\ NothingLost /\ [Next]_vars => NothingLost'
  BY <1>1, StutterLoses
<1> QED
  BY <1>2, InitLoses, TypesAlways, PTL DEF Spec

\* An accepted report of any length has a finding for each violation it states,
\* and no other.
THEOREM NoViolationLost == Spec => []EveryViolationFound
<1>1. NothingLost => EveryViolationFound
  BY DEF NothingLost
<1> QED
  BY <1>1, NothingLostAlways, PTL
=============================================================================
