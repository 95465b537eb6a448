---------------------------- MODULE MCToolReports ----------------------------
(***************************************************************************)
(* Every report of up to five records for Magic DRC, four for Netgen and   *)
(* Magic PEX, and three items on three lines for KLayout.                  *)
(***************************************************************************)
EXTENDS ToolReports

CONSTANTS ruleA, ruleB, cellA, cellB, path

Line(kind, name) == [kind |-> kind, name |-> name]
Lines(kinds) == {Line(kind, None) : kind \in kinds}
UpTo(k, lines) == UNION {[1 .. j -> lines] : j \in 0 .. k}

DrcLines ==
  Lines({"other", "clean", "box"})
    \union {Line("rule", ruleA), Line("rule", ruleB), Line("cell", cellA), Line("box", cellB)}
LvsLines == Lines({"match", "mismatch", "property", "unmatched", "warning", "error", "heading", "other"})
PexLines == Lines({"complete", "warning", "error", "heading", "other"}) \union {Line("output", path)}

Texts ==
  [adapter : {"magic-drc"}, lines : UpTo(5, DrcLines)]
    \union [adapter : {"netgen-lvs"}, lines : UpTo(4, LvsLines)]
    \union [adapter : {"magic-pex"}, lines : UpTo(4, PexLines)]

\* Items that are sound, of an unknown category, or with two boxes; tags follow
\* one another from line to line, and comments are anywhere.
MarkedItem(line, category, count) ==
  [line |-> line, category |-> category, cell |-> cellB, boxes |-> count, values |-> 1]
ItemChoices ==
  {MarkedItem(l, ruleA, 0) : l \in 1 .. 3} \union {MarkedItem(l, ruleB, 1) : l \in 1 .. 3}
    \union {MarkedItem(l, ruleA, 2) : l \in 1 .. 3}
Databases ==
  {r \in [adapter : {"klayout-drc"}, categories : {{ruleA}, {ruleA, ruleB}},
          cells : {[c \in {cellB} |-> cellA]}, items : UpTo(3, ItemChoices), mentions : SUBSET (1 .. 3)] :
     \A i, j \in DOMAIN r.items : i < j => r.items[i].line <= r.items[j].line}

MCReports == Texts \union Databases
=============================================================================
