--------------------------- MODULE VerificationGate ---------------------------
(***************************************************************************)
(* verify_path of verification.py: the files a manifest names are claimed, *)
(* measured, read and digested one after the other, the findings of the    *)
(* tool reports are waived where the manifest says so, and what is left is  *)
(* combined with the findings about lineage into a decision.  Others may   *)
(* change the directory meanwhile.                                         *)
(*                                                                         *)
(* A file is an identity with a content; a report's content is abstracted  *)
(* to whether it parses, its findings and the output path it names.  The   *)
(* fingerprint of a finding is the report it came from and a key for the   *)
(* rest; the other fields of a waiver are represented by its source.       *)
(***************************************************************************)
EXTENDS Integers, Sequences, FiniteSets, SequencesExt, FiniteSetsExt

CONSTANTS
  Bundles,           \* [manifest, at, holds]: the manifest as parsed, the file at
                     \* each path, the text in each file
  ManifestPath,
  Ids,               \* names of artifacts, reports and waivers
  Keys,              \* what tells the findings of a report apart
  Paths,             \* paths below the bundle root
  Files,             \* file identities
  Texts,             \* [bytes, form, found, output]
  Gone,              \* a path with no regular file below the root
  Days,              \* dates
  MaxArtifactBytes,
  MaxReportBytes,
  MaxTotalBytes,
  MaxFindings,
  Changing,          \* manifests of the directories that others change
  MaxEdits           \* bound on the changes others make

\* Severity.rank.
Rank == [info |-> 0, review |-> 1, deny |-> 2]
Roles == {"schematic", "layout", "pex"}
DRC == {"magic-drc", "klayout-drc"}

Artifacts == [id : Ids, kind : Roles \union {"support"}, path : Paths]
Reports == [id : Ids, adapter : DRC \union {"netgen-lvs", "magic-pex"}, path : Paths,
            inputs : SUBSET Ids, outputs : SUBSET Ids]
Waivers == [id : Ids, finding : Paths \X Keys, source : Paths, expires : Int]
Manifests == [assessed : Int, artifacts : Seq(Artifacts), reports : Seq(Reports), waivers : Seq(Waivers)]

ASSUME LimitAssumption ==
  /\ Days \subseteq Int
  /\ {MaxArtifactBytes, MaxReportBytes, MaxTotalBytes, MaxFindings, MaxEdits} \subseteq Nat

ASSUME DataAssumption ==
  /\ Bundles \subseteq [manifest : Manifests, at : [Paths -> Files \union {Gone}], holds : [Files -> Texts]]
  /\ Texts \subseteq [form : STRING, bytes : Nat, found : Seq([key : Keys, severity : DOMAIN Rank]),
                     output : Paths \union {Gone}]
  /\ Gone \notin Files
  /\ ManifestPath \in Paths

VARIABLES
  disk,       \* the file at each path, or Gone
  holds,      \* the text in each file
  edits,      \* changes others have made so far
  manifest,   \* what the manifest says
  asOf,       \* the evaluation date, read once
  claimed,    \* resolved_files
  at,         \* the artifact or report at hand
  size,       \* what stat said of it
  total,      \* total_bytes
  evidence,   \* for each artifact and report digested: path, size and text
  found,      \* adapter_findings
  verdict,    \* the report that is returned
  pc          \* "manifest", "claim", "measure", "read", "done" or "refused"

files == <<disk, holds, edits>>
input == <<manifest, asOf>>
progress == <<claimed, at, size, total, evidence, found>>
vars == <<files, input, progress, verdict, pc>>

-----------------------------------------------------------------------------
IdsOf(records) == [i \in DOMAIN records |-> records[i].id]
Places(records) == [i \in DOMAIN records |-> records[i].path]

\* _parse_manifest: what holds of a manifest that is not an input error.
Valid(m) ==
  LET kinds == {a.kind : a \in ToSet(m.artifacts)}
      ids == {a.id : a \in ToSet(m.artifacts)}
      reports == ToSet(m.reports)
  IN  /\ IsInjective(IdsOf(m.artifacts))
      /\ \A kind \in kinds \intersect Roles : Cardinality({a \in ToSet(m.artifacts) : a.kind = kind}) = 1
      /\ IsInjective(IdsOf(m.reports))
      /\ IsInjective(Places(m.artifacts \o m.reports))
      /\ \A r \in reports : r.inputs \intersect r.outputs = {} /\ r.inputs \union r.outputs \subseteq ids
      /\ \A r, s \in reports : r.outputs \intersect s.outputs # {} => r = s
      /\ IsInjective(IdsOf(m.waivers))
      /\ \A w \in ToSet(m.waivers) : \E r \in reports : w.source = r.path

Records == manifest.artifacts \o manifest.reports
IsReport(i) == i > Len(manifest.artifacts)
Report(i) == manifest.reports[i - Len(manifest.artifacts)]
MaxBytes(i) == IF IsReport(i) THEN MaxReportBytes ELSE MaxArtifactBytes
KindsOf(ids) == {a.kind : a \in {b \in ToSet(manifest.artifacts) : b.id \in ids}}

Init ==
  /\ \E b \in Bundles : manifest = b.manifest /\ disk = b.at /\ holds = b.holds
  /\ edits = 0
  /\ asOf \in Days
  /\ claimed = {}
  /\ at = 1
  /\ size = 0
  /\ total = 0
  /\ evidence = <<>>
  /\ found = <<>>
  /\ verdict = [decision |-> 0, waived |-> {}, notices |-> {}, findings |-> {}]
  /\ pc = "manifest"

\* An InputError anywhere ends the run without a report.
Refuse == pc' = "refused" /\ UNCHANGED <<files, input, progress, verdict>>

ReadManifest ==
  /\ pc = "manifest"
  /\ IF \/ disk[ManifestPath] = Gone
        \/ holds[disk[ManifestPath]].form # "manifest"
        \/ ~Valid(manifest)
        \/ manifest.assessed > asOf
     THEN Refuse
     ELSE /\ claimed' = {ManifestPath}
          /\ total' = holds[disk[ManifestPath]].bytes
          /\ pc' = "claim"
          /\ UNCHANGED <<files, input, at, size, evidence, found, verdict>>

Unclaimed_ByPath(p) == disk[p] # Gone /\ p \notin claimed

\* _safe_file and _claim_file: the file at p is there and is none of those
\* claimed before.
Unclaimed(p) == /\ disk[p] # Gone
                /\ \A q \in claimed : disk[q] \notin {Gone, disk[p]}

Claim ==
  /\ pc = "claim" /\ at <= Len(Records)
  /\ LET p == Records[at].path
     IN  IF ~Unclaimed(p) THEN Refuse
         ELSE /\ claimed' = claimed \union {p}
              /\ pc' = "measure"
              /\ UNCHANGED <<files, input, at, size, total, evidence, found, verdict>>

\* _read_and_digest resolves the path again, and looks before it reads.
Measure ==
  /\ pc = "measure"
  /\ LET f == disk[Records[at].path]
     IN  IF f = Gone THEN Refuse
         ELSE IF holds[f].bytes > MaxBytes(at) THEN Refuse
         ELSE /\ size' = holds[f].bytes
              /\ pc' = "read"
              /\ UNCHANGED <<files, input, claimed, at, total, evidence, found, verdict>>

Fits_AnySize(text) == text.bytes <= MaxBytes(at) /\ total + text.bytes <= MaxTotalBytes

\* The text read is as long as it was measured, and within the budgets.
Fits(text) ==
  /\ text.bytes <= MaxBytes(at)
  /\ text.bytes = size
  /\ total + size <= MaxTotalBytes

FindingsIn(text) ==
  [i \in DOMAIN text.found |->
     [id |-> <<Records[at].path, text.found[i].key>>, severity |-> text.found[i].severity]]

Read ==
  /\ pc = "read"
  /\ LET p == Records[at].path
         text == holds[disk[p]]
     IN  IF disk[p] = Gone THEN Refuse
         ELSE IF ~Fits(text) \/ (IsReport(at) /\ text.form # "report") THEN Refuse
         ELSE /\ evidence' = Append(evidence, [path |-> p, size |-> size, text |-> text])
              /\ total' = total + size
              /\ found' = IF IsReport(at) THEN found \o FindingsIn(text) ELSE found
              /\ at' = at + 1
              /\ pc' = "claim"
              /\ UNCHANGED <<files, input, claimed, size, verdict>>

-----------------------------------------------------------------------------
\* _matches: the fingerprint and the fields beside it.
Matches(w, finding) == finding.id = w.finding /\ finding.id[1] = w.source

Expired_Reversed(w, day) == w.expires > day

Expired(w, day) == w.expires < day

NoWaivers == [waived |-> {}, matched |-> {}, notices |-> {}, refused |-> FALSE]

Waive_ManyFindings(done, w, day) ==
  LET matches == {i \in DOMAIN found : Matches(w, found[i])}
      now == [done EXCEPT !.matched = @ \union matches]
  IN  IF done.refused THEN done
      ELSE IF matches \intersect done.matched # {} THEN [done EXCEPT !.refused = TRUE]
      ELSE IF Expired(w, day) THEN [now EXCEPT !.notices = @ \union {<<"WAIVER.EXPIRED", w.id>>}]
      ELSE IF matches = {} THEN [now EXCEPT !.notices = @ \union {<<"WAIVER.UNUSED", w.id>>}]
      ELSE [now EXCEPT !.waived = @ \union (matches \X {w.id})]

\* One turn of the loop of _apply_waivers: an expired waiver still claims its
\* finding.
Waive(done, w, day) ==
  LET matches == {i \in DOMAIN found : Matches(w, found[i])}
      now == [done EXCEPT !.matched = @ \union matches]
  IN  IF done.refused THEN done
      ELSE IF Cardinality(matches) > 1 \/ matches \intersect done.matched # {}
      THEN [done EXCEPT !.refused = TRUE]
      ELSE IF Expired(w, day) THEN [now EXCEPT !.notices = @ \union {<<"WAIVER.EXPIRED", w.id>>}]
      ELSE IF matches = {} THEN [now EXCEPT !.notices = @ \union {<<"WAIVER.UNUSED", w.id>>}]
      ELSE [now EXCEPT !.waived = @ \union (matches \X {w.id})]

\* _apply_waivers on a sequence of waivers.
Applied(waivers, day) == FoldLeft(LAMBDA done, w : Waive(done, w, day), NoWaivers, waivers)

-----------------------------------------------------------------------------
\* The inputs and outputs each adapter must bind.
Contract(adapter) ==
  IF adapter \in DRC THEN <<{"layout"}, {}>>
  ELSE IF adapter = "netgen-lvs" THEN <<{"schematic", "layout"}, {}>>
  ELSE <<{"layout"}, {"pex"}>>

KeepsContract_AtMost(r) ==
  KindsOf(r.inputs) \subseteq Contract(r.adapter)[1] /\ KindsOf(r.outputs) \subseteq Contract(r.adapter)[2]

KeepsContract(r) == <<KindsOf(r.inputs), KindsOf(r.outputs)>> = Contract(r.adapter)

\* _lineage_findings; every one of them denies.
LineageFindings ==
  LET valid == {r.adapter : r \in {s \in ToSet(manifest.reports) : KeepsContract(s)}}
  IN  {<<"LINEAGE.MISSING_VIEW", role>> : role \in Roles \ {a.kind : a \in ToSet(manifest.artifacts)}}
      \union {<<"LINEAGE.ADAPTER_CONTRACT", r.id>> : r \in {s \in ToSet(manifest.reports) : ~KeepsContract(s)}}
      \union {<<"LINEAGE.MISSING_DRC", "layout">> : drc \in {1} \ {1 : a \in valid \intersect DRC}}
      \union {<<"LINEAGE.MISSING_LVS", "layout">> : lvs \in {"netgen-lvs"} \ valid}
      \union {<<"LINEAGE.MISSING_PEX", "pex">> : pex \in {"magic-pex"} \ valid}

PathsOf(ids) == {a.path : a \in {b \in ToSet(manifest.artifacts) : b.id \in ids}}

\* The outputs Magic says it wrote are compared with the declared one, and the
\* finding is kept out of the waivers' reach.
IntegrityFindings ==
  {<<"LINEAGE.PEX_OUTPUT_MISMATCH", Report(i).id>> :
     i \in {j \in DOMAIN evidence :
              /\ IsReport(j) /\ Report(j).adapter = "magic-pex"
              /\ Cardinality(Report(j).outputs) = 1
              /\ evidence[j].text.output \notin PathsOf(Report(j).outputs)}}

\* _decision: the gravest of the findings that are not waived.
Decision(applied) ==
  LET waived == {pair[1] : pair \in applied.waived}
      active == {Rank[found[i].severity] : i \in DOMAIN found \ waived}
      notices == {1 : n \in applied.notices}
      lineage == {2 : f \in LineageFindings \union IntegrityFindings}
  IN  Max({0} \union active \union notices \union lineage)

Decide ==
  /\ pc = "claim" /\ at > Len(Records)
  /\ LET applied == Applied(manifest.waivers, asOf)
         extra == IntegrityFindings \union LineageFindings
     IN  IF \/ Len(found) > MaxFindings
            \/ applied.refused
            \/ Len(found) + Cardinality(applied.notices) + Cardinality(extra) > MaxFindings
         THEN Refuse
         ELSE /\ verdict' = [decision |-> Decision(applied), waived |-> applied.waived,
                             notices |-> applied.notices, findings |-> extra]
              /\ pc' = "done"
              /\ UNCHANGED <<files, input, progress>>

Proceed == ReadManifest \/ Claim \/ Measure \/ Read \/ Decide

\* Somebody puts another file at a path, takes it away, or writes into a file.
Edit ==
  /\ pc \notin {"done", "refused"}
  /\ edits < MaxEdits /\ manifest \in Changing
  /\ edits' = edits + 1
  /\ \/ \E p \in Paths, f \in Files \union {Gone} :
          disk[p] # f /\ disk' = [disk EXCEPT ![p] = f] /\ UNCHANGED holds
     \/ \E f \in Files, t \in Texts :
          holds[f] # t /\ holds' = [holds EXCEPT ![f] = t] /\ UNCHANGED disk
  /\ UNCHANGED <<input, progress, verdict, pc>>

Next == Proceed \/ Edit

Spec == Init /\ [][Next]_vars

-----------------------------------------------------------------------------
(***************************************************************************)
(* Properties.                                                             *)
(***************************************************************************)

\* Every variable stays within its type.
TypeOK ==
  /\ disk \in [Paths -> Files \union {Gone}] /\ holds \in [Files -> Texts]
  /\ edits \in 0 .. MaxEdits /\ manifest \in Manifests /\ asOf \in Days
  /\ claimed \subseteq Paths
  /\ at \in 1 .. Len(Records) + 1
  /\ size \in Nat /\ total \in Nat
  /\ evidence \in Seq([path : Paths, size : Nat, text : Texts]) /\ Len(evidence) = at - 1
  /\ verdict.decision \in {0, 1, 2}
  /\ pc \in {"manifest", "claim", "measure", "read", "done", "refused"}

\* The digest records of a report are of whole texts, and its findings are those
\* of the very texts that were digested, however files are replaced or written
\* to between the claim, the measure and the read.
EvidenceIsConsistent ==
  /\ \A i \in DOMAIN evidence : evidence[i].size = evidence[i].text.bytes
  /\ {f.id : f \in ToSet(found)} =
       UNION {{<<evidence[i].path, e.key>> : e \in ToSet(evidence[i].text.found)} :
              i \in {j \in DOMAIN evidence : IsReport(j)}}
  /\ pc = "done" /\ evidence # <<>> => total <= MaxTotalBytes

\* docs/verification-lineage.md: "one path cannot be aliased through two manifest
\* records": in a directory that stays as it is, no file serves as two records,
\* nor the manifest as one.
NoFileTwice ==
  pc = "done" /\ edits = 0 =>
    Cardinality({disk[p] : p \in {ManifestPath} \union {e.path : e \in ToSet(evidence)}})
      = Len(evidence) + 1

\* What the documentation asks of an allow, said of the manifest and of the
\* texts that were digested.
CompleteEvidence ==
  LET only(role) == {a.id : a \in {b \in ToSet(manifest.artifacts) : b.kind = role}}
      runs(adapters) == {r \in ToSet(manifest.reports) : r.adapter \in adapters}
      bound(r, ins, outs) == KindsOf(r.inputs) = ins /\ KindsOf(r.outputs) = outs
  IN  /\ \A role \in Roles : Cardinality(only(role)) = 1
      /\ runs(DRC) # {} /\ runs({"netgen-lvs"}) # {} /\ runs({"magic-pex"}) # {}
      /\ \A r \in runs(DRC) : bound(r, {"layout"}, {})
      /\ \A r \in runs({"netgen-lvs"}) : bound(r, {"schematic", "layout"}, {})
      /\ \A r \in runs({"magic-pex"}) :
           /\ bound(r, {"layout"}, {"pex"})
           /\ \E i \in DOMAIN evidence :
                /\ evidence[i].path = r.path
                /\ PathsOf(only("pex")) = {evidence[i].text.output}

\* A bundle is allowed exactly when its evidence is complete, every finding of a
\* tool that asks for review or denies is named by a waiver in force, and every
\* waiver is in force and names a finding.  In particular no waiver makes up for
\* a missing view, a broken lineage or another output than the declared one.
AllowedExactlyWhenComplete ==
  pc = "done" =>
    (verdict.decision = 0 <=>
       /\ CompleteEvidence
       /\ \A f \in ToSet(found) :
            Rank[f.severity] > 0 => \E w \in ToSet(manifest.waivers) : Matches(w, f)
       /\ \A w \in ToSet(manifest.waivers) :
            w.expires >= asOf /\ \E f \in ToSet(found) : Matches(w, f))

\* docs/verification-lineage.md: "One waiver may match at most one finding, and
\* one finding may match at most one waiver", whether or not the waiver is still
\* in force; what is reported as waived is named by a waiver in force, and no
\* waiver is lost without a notice.
WaiversAreExact ==
  pc = "done" =>
    /\ \A w \in ToSet(manifest.waivers), i, j \in DOMAIN found :
         Matches(w, found[i]) /\ Matches(w, found[j]) => i = j
    /\ \A w, v \in ToSet(manifest.waivers), f \in ToSet(found) :
         Matches(w, f) /\ Matches(v, f) => w = v
    /\ \A pair \in verdict.waived : \E w \in ToSet(manifest.waivers) :
         w.id = pair[2] /\ Matches(w, found[pair[1]]) /\ w.expires >= asOf
    /\ \A w \in ToSet(manifest.waivers) :
         (\E pair \in verdict.waived : pair[2] = w.id) \/ (\E n \in verdict.notices : n[2] = w.id)

AtTheEnd == pc = "claim" /\ at > Len(Records)

\* For evidence that has been read, time only makes the gate stricter: what is
\* found ambiguous, denied or up for review on one day is no better off on a
\* later one, so that a rerun with the clock moved on never turns red to green.
LaterIsNoMilder ==
  AtTheEnd => \A early, late \in Days : early <= late =>
    LET before == Applied(manifest.waivers, early)
        after == Applied(manifest.waivers, late)
    IN  before.refused = after.refused /\ Decision(before) <= Decision(after)
=============================================================================
