---------------------------- MODULE IncludeLoader ----------------------------
(***************************************************************************)
(* Opening an artifact bundle and following its includes: ArtifactBundle    *)
(* of bundle.py and load_include_graph of include_graph.py.  The directory *)
(* may be edited by others while it is being read.                         *)
(*                                                                         *)
(* A text is abstracted to its form (a deck that parses, one that does not, *)
(* or bytes that are not text), its length, what it says as a manifest (an  *)
(* entry, none, or Broken) and its items in textual order: top-level .param *)
(* cards and include references.  All names are in one directory.           *)
(***************************************************************************)
EXTENDS Integers, Sequences, FiniteSets

CONSTANTS
  Names,          \* paths below the bundle root
  Texts,          \* [form, bytes, entry, items]
  Gone,           \* what is at a name when there is nothing
  Outside,        \* a symbolic link to a regular file that is not below the root
  Broken,         \* the entry of a text that is not a valid manifest
  Param,          \* the item of a .param card
  Unsafe,         \* an absolute, parent-relative or URL include target
  None,
  Manifest,       \* the name of manifest.json
  Disks,          \* what the directory may hold at first
  Settled,        \* those of them that nobody edits
  Replacements,   \* what others may put at a name
  MaxFiles,       \* BundleLimits.max_files
  MaxFileBytes,   \* BundleLimits.max_file_bytes
  MaxTotalBytes,  \* BundleLimits.max_total_bytes
  MaxDepth,       \* limits.max_include_depth of the policy
  MaxEdits        \* bound on the edits others make

Forms == {"deck", "malformed", "binary"}

ASSUME LimitAssumption ==
  MaxFiles \in Nat /\ MaxFileBytes \in Nat /\ MaxTotalBytes \in Nat
  /\ MaxDepth \in Nat /\ MaxEdits \in Nat

ASSUME TextAssumption ==
  /\ Manifest \in Names /\ IsFiniteSet(Names)
  /\ \A t \in Texts : /\ t.form \in Forms /\ t.bytes \in Nat
                      /\ t.entry \in Names \union {None, Broken}
                      /\ t.items \in Seq(Names \union {Param, Unsafe})

Contents == Texts \union Names \union {Gone, Outside}

ASSUME DiskAssumption == Disks \subseteq [Names -> Contents] /\ Replacements \subseteq Contents

ASSUME DistinctAssumption ==
  /\ Names \intersect {Gone, Outside, Broken, Param, Unsafe, None} = {}
  /\ Texts \intersect (Names \union {Gone, Outside, None}) = {}
  /\ Broken # None /\ Param # Unsafe

VARIABLES
  disk,      \* what is at each name: a text, a symbolic link (a name), Gone or Outside
  edits,     \* edits others have made so far
  texts,     \* _texts of the bundle: what was read, by canonical name
  total,     \* _total_bytes
  entry,     \* the bundle's entry, None before it is known
  decks,     \* the deck parsed for each name; a deck is its text
  active,    \* the active list, with the next item of each deck on it
  next,      \* the target of the visit that is about to begin, None without one
  issues,    \* LoadIssues: code and path
  edges,     \* IncludeEdges in the order found: source, item position, target
  params,    \* parameter_directives in the order found: path, item position
  pc         \* "open", "load", "done" or "refused"

bundle == <<texts, total, entry>>
graph == <<decks, active, next, issues, edges, params>>
vars == <<disk, edits, bundle, graph, pc>>

-----------------------------------------------------------------------------
Regular == {n \in Names : disk[n] \in Texts}

\* Where the links at n lead; a name that is still a link is on a loop.
EndOf(n) ==
  LET link == [m \in Names |-> IF disk[m] \in Names THEN disk[m] ELSE m]
      hop[i \in 0 .. Cardinality(Names)] == IF i = 0 THEN n ELSE link[hop[i - 1]]
  IN  hop[Cardinality(Names)]

\* _canonical_existing: a regular file below the root, or None for InputError.
Canonical(n) == IF EndOf(n) \in Regular THEN EndOf(n) ELSE None

\* Path.exists and Path.is_file also say yes to a link that leaves the root.
IsFile(n) == EndOf(n) \in Regular \/ disk[EndOf(n)] = Outside

MinNat(a, b) == IF a < b THEN a ELSE b

Files == {c \in Names : texts[c] # None}

BytesRead_NoSpareByte(t) == MinNat(t.bytes, MinNat(MaxFileBytes, MaxTotalBytes - total))

\* What the open stream yields: at most one byte more than the budget allows.
BytesRead(t) == MinNat(t.bytes, MinNat(MaxFileBytes, MaxTotalBytes - total) + 1)

\* The file c can be read now: the budgets allow it and its bytes are text.
Readable(c) ==
  /\ Cardinality(Files) < MaxFiles
  /\ BytesRead(disk[c]) <= MaxFileBytes
  /\ total + BytesRead(disk[c]) <= MaxTotalBytes
  /\ disk[c].form # "binary"

TextOf_NoCache(n) ==
  LET c == Canonical(n)
  IN  IF c = None THEN None ELSE IF Readable(c) THEN disk[c] ELSE None

\* read_text: the cached text, or the text now on disk, or None for InputError.
TextOf(n) ==
  LET c == Canonical(n)
  IN  IF c = None THEN None
      ELSE IF texts[c] # None THEN texts[c]
      ELSE IF Readable(c) THEN disk[c] ELSE None

\* The bundle after a read_text(n) that returned.
Remember(n) ==
  LET c == Canonical(n)
  IN  IF texts[c] # None THEN UNCHANGED <<texts, total>>
      ELSE /\ texts' = [texts EXCEPT ![c] = disk[c]]
           /\ total' = total + BytesRead(disk[c])

-----------------------------------------------------------------------------
Init ==
  /\ disk \in Disks
  /\ edits = IF disk \in Settled THEN MaxEdits ELSE 0
  /\ texts = [n \in Names |-> None]
  /\ total = 0
  /\ entry = None
  /\ decks = [n \in Names |-> None]
  /\ active = <<>>
  /\ next = None
  /\ issues = {}
  /\ edges = <<>>
  /\ params = <<>>
  /\ pc = "open"

\* The netlists at top level; the manifest is not one of them.
Netlists == {n \in Names \ {Manifest} : IsFile(n)}

\* The name selected, given --entry (or None) and what the manifest says.
Selected(wanted, said) ==
  IF wanted # None THEN wanted
  ELSE IF said # None THEN said
  ELSE IF Cardinality(Netlists) = 1 THEN CHOOSE n \in Netlists : TRUE ELSE None

Begin(e) ==
  /\ entry' = e
  /\ next' = e
  /\ pc' = IF e = None THEN "refused" ELSE "load"
  /\ UNCHANGED <<disk, edits, decks, active, issues, edges, params>>

\* ArtifactBundle.open on a directory, with --entry or None.  The manifest goes
\* through read_text and so counts against the budgets; any InputError ends
\* the run.
OpenDirectory(wanted) ==
  /\ pc = "open"
  /\ LET text == TextOf(Manifest)
         said == IF ~IsFile(Manifest) THEN None
                 ELSE IF text = None THEN Broken ELSE text.entry
         name == Selected(wanted, said)
     IN  /\ IF text # None THEN Remember(Manifest) ELSE UNCHANGED <<texts, total>>
         /\ Begin(IF said = Broken \/ name = None THEN None ELSE Canonical(name))

\* ArtifactBundle.open on a file: no manifest, and its directory is the root.
OpenFile(n) ==
  /\ pc = "open"
  /\ Begin(Canonical(n))
  /\ UNCHANGED <<texts, total>>

\* visit begins: its depth is the number of decks on the active path.
Visiting == pc = "load" /\ next # None

Report(code, n) == issues' = issues \union {<<code, n>>}

VisitTooDeep ==
  /\ Visiting
  /\ Len(active) > MaxDepth
  /\ Report("INCL002", next)
  /\ next' = None
  /\ UNCHANGED <<disk, edits, bundle, decks, active, edges, params, pc>>

\* The text a visit works on: the deck parsed before, or what read_text returns.
VisitText == IF decks[next] # None THEN decks[next] ELSE TextOf(next)

VisitUnreadable ==
  /\ Visiting
  /\ Len(active) <= MaxDepth
  /\ VisitText = None
  /\ Report("FILE001", next)
  /\ next' = None
  /\ UNCHANGED <<disk, edits, bundle, decks, active, edges, params, pc>>

\* The text was read, and stays in the bundle, but does not parse.
VisitMalformed ==
  /\ Visiting
  /\ Len(active) <= MaxDepth
  /\ VisitText # None /\ VisitText.form = "malformed"
  /\ Remember(next)
  /\ Report("PARSE001", next)
  /\ next' = None
  /\ UNCHANGED <<disk, edits, entry, decks, active, edges, params, pc>>

VisitAgain_Silent ==
  /\ Visiting
  /\ Len(active) <= MaxDepth
  /\ decks[next] # None
  /\ next' = None
  /\ UNCHANGED <<disk, edits, bundle, decks, active, issues, edges, params, pc>>

\* The deck was expanded before: it is reported and not descended into again.
VisitAgain ==
  /\ Visiting
  /\ Len(active) <= MaxDepth
  /\ decks[next] # None
  /\ Report("INCL003", next)
  /\ next' = None
  /\ UNCHANGED <<disk, edits, bundle, decks, active, edges, params, pc>>

VisitFirst ==
  /\ Visiting
  /\ Len(active) <= MaxDepth
  /\ decks[next] = None
  /\ VisitText # None /\ VisitText.form = "deck"
  /\ Remember(next)
  /\ decks' = [decks EXCEPT ![next] = VisitText]
  /\ active' = Append(active, [path |-> next, at |-> 1])
  /\ next' = None
  /\ UNCHANGED <<disk, edits, entry, issues, edges, params, pc>>

\* The loop over the flow of the deck on top of the active path.
Stepping == pc = "load" /\ next = None /\ active # <<>>
Top == active[Len(active)]
Item == decks[Top.path].items[Top.at]
HasItem == Top.at <= Len(decks[Top.path].items)
Advance == active' = [active EXCEPT ![Len(active)].at = @ + 1]

TakeParam_LastFirst ==
  /\ Stepping /\ HasItem
  /\ Item = Param
  /\ params' = <<<<Top.path, Top.at>>>> \o params
  /\ Advance
  /\ UNCHANGED <<disk, edits, bundle, decks, next, issues, edges, pc>>

TakeParam ==
  /\ Stepping /\ HasItem
  /\ Item = Param
  /\ params' = Append(params, <<Top.path, Top.at>>)
  /\ Advance
  /\ UNCHANGED <<disk, edits, bundle, decks, next, issues, edges, pc>>

\* resolve_reference: the canonical name of the target, None for InputError.
Resolved == IF Item = Unsafe THEN None ELSE Canonical(Item)

TakeUnresolved ==
  /\ Stepping /\ HasItem
  /\ Item # Param /\ Resolved = None
  /\ Report("PATH001", Top.path)
  /\ Advance
  /\ UNCHANGED <<disk, edits, bundle, decks, next, edges, params, pc>>

OnPath_TopOnly(n) == active # <<>> /\ Top.path = n

OnPath(n) == \E i \in DOMAIN active : active[i].path = n

TakeCycle ==
  /\ Stepping /\ HasItem
  /\ Item # Param /\ Resolved # None
  /\ OnPath(Resolved)
  /\ edges' = Append(edges, <<Top.path, Top.at, Resolved>>)
  /\ Report("INCL001", Resolved)
  /\ Advance
  /\ UNCHANGED <<disk, edits, bundle, decks, next, params, pc>>

TakeInclude ==
  /\ Stepping /\ HasItem
  /\ Item # Param /\ Resolved # None
  /\ ~OnPath(Resolved)
  /\ edges' = Append(edges, <<Top.path, Top.at, Resolved>>)
  /\ next' = Resolved
  /\ Advance
  /\ UNCHANGED <<disk, edits, bundle, decks, issues, params, pc>>

\* The end of a visit: active.pop().
Leave ==
  /\ Stepping /\ ~HasItem
  /\ active' = SubSeq(active, 1, Len(active) - 1)
  /\ UNCHANGED <<disk, edits, bundle, decks, next, issues, edges, params, pc>>

Finish ==
  /\ pc = "load" /\ next = None /\ active = <<>>
  /\ pc' = "done"
  /\ UNCHANGED <<disk, edits, bundle, graph>>

Load ==
  \/ \E w \in Names \union {None} : OpenDirectory(w)
  \/ \E n \in Names : OpenFile(n)
  \/ VisitTooDeep \/ VisitUnreadable \/ VisitMalformed \/ VisitAgain \/ VisitFirst
  \/ TakeParam \/ TakeUnresolved \/ TakeCycle \/ TakeInclude \/ Leave \/ Finish

\* Somebody replaces, links or removes a file while the bundle is being read.
Edit(n) ==
  /\ pc \in {"open", "load"}
  /\ edits < MaxEdits
  /\ edits' = edits + 1
  /\ disk' \in {[disk EXCEPT ![n] = d] : d \in Replacements \ {disk[n]}}
  /\ UNCHANGED <<bundle, graph, pc>>

Next == Load \/ \E n \in Names : Edit(n)

Spec == Init /\ [][Next]_vars

-----------------------------------------------------------------------------
(***************************************************************************)
(* Properties.  Those that compare the result with a definition of what it *)
(* should be are in IncludeReference.                                      *)
(***************************************************************************)

\* Every variable stays within its type.
TypeOK ==
  /\ disk \in [Names -> Contents]
  /\ edits \in 0 .. MaxEdits
  /\ texts \in [Names -> Texts \union {None}]
  /\ total \in Nat
  /\ entry \in Names \union {None}
  /\ decks \in [Names -> Texts \union {None}]
  /\ active \in Seq([path : Names, at : Nat \ {0}])
  /\ next \in Names \union {None}
  /\ issues \subseteq {"FILE001", "PARSE001", "PATH001", "INCL001", "INCL002", "INCL003"} \X Names
  /\ edges \in Seq(Names \X (Nat \ {0}) \X Names)
  /\ params \in Seq(Names \X (Nat \ {0}))
  /\ pc \in {"open", "load", "done", "refused"}

\* Reading costs no more than the policy allows: read_text never keeps a file it
\* read only in part, and visit never goes deeper than the include depth.
WithinBudgets ==
  /\ total <= MaxTotalBytes
  /\ Cardinality(Files) <= MaxFiles
  /\ \A c \in Files : texts[c].bytes <= MaxFileBytes
  /\ Len(active) <= MaxDepth + 1

\* Each .param card and each include reference is taken at most once.
EachItemOnce ==
  /\ \A k, l \in DOMAIN edges :
       edges[k][1] = edges[l][1] /\ edges[k][2] = edges[l][2] => k = l
  /\ \A k, l \in DOMAIN params : params[k] = params[l] => k = l

\* However the bundle is edited meanwhile, loading it costs no more than the policy
\* allows in bytes, files and depth, and the traversal is linear in the size of
\* the decks however often they are included: "descending again ... can expand a
\* small include DAG exponentially" (include_graph.py).
BoundedWork == WithinBudgets /\ EachItemOnce
=============================================================================
