-------------------------- MODULE MCVerificationGate --------------------------
(***************************************************************************)
(* Instances of VerificationGate: every pair of waivers for a bundle that  *)
(* is otherwise complete, many incomplete bundles, and a directory that    *)
(* changes while it is read.                                               *)
(***************************************************************************)
EXTENDS VerificationGate, TLC

CONSTANTS
  manPath, schPath, layPath, pexPath, drcPath, lvsPath, logPath,         \* paths
  manFile, schFile, layFile, pexFile, drcFile, lvsFile, logFile,         \* files
  idSch, idLay, idPex, idExtra, idDrc, idLvs, idLog,                       \* identifiers
  result1, result2, waiver1, waiver2                                 \* fingerprints, waivers

MCPaths == {manPath, schPath, layPath, pexPath, drcPath, lvsPath, logPath}
MCIds == {idSch, idLay, idPex, idExtra, idDrc, idLvs, idLog, waiver1, waiver2}
MCFiles == {manFile, schFile, layFile, pexFile, drcFile, lvsFile, logFile}
Plain == manPath :> manFile @@ schPath :> schFile @@ layPath :> layFile @@ pexPath :> pexFile
           @@ drcPath :> drcFile @@ lvsPath :> lvsFile @@ logPath :> logFile

Text(form, bytes, results, output) ==
  [form |-> form, bytes |-> bytes, found |-> results, output |-> output]
Data == Text("data", 1, <<>>, Gone)
Names == Text("manifest", 1, <<>>, Gone)
Log(results) == Text("report", 1, results, pexPath)
Result(key, severity) == [key |-> key, severity |-> severity]

Artifact(id, kind, path) == [id |-> id, kind |-> kind, path |-> path]
Tool(id, adapter, path, ins, outs) ==
  [id |-> id, adapter |-> adapter, path |-> path, inputs |-> ins, outputs |-> outs]
Manifested(artifacts, reports, waivers) ==
  [assessed |-> 1, artifacts |-> artifacts, reports |-> reports, waivers |-> waivers]

Views == <<Artifact(idSch, "schematic", schPath), Artifact(idLay, "layout", layPath), Artifact(idPex, "pex", pexPath)>>
Runs == <<Tool(idDrc, "magic-drc", drcPath, {idLay}, {}), Tool(idLvs, "netgen-lvs", lvsPath, {idSch, idLay}, {}),
          Tool(idLog, "magic-pex", logPath, {idLay}, {idPex})>>
Filled(results) ==
  [f \in MCFiles |-> IF f = drcFile THEN Log(results) ELSE IF f \in {lvsFile, logFile} THEN Log(<<>>)
                  ELSE IF f = manFile THEN Names ELSE Data]

-----------------------------------------------------------------------------
\* Findings of different fingerprints or of one.  Waivers of some finding or of
\* none, in force until the day before the evidence or the day itself.
WaiverOptions(id) ==
  {[id |-> id, finding |-> <<r, k>>, source |-> drcPath, expires |-> e] :
     r \in {drcPath, lvsPath}, k \in {result1, result2}, e \in {0, 1}}
WaiverLists ==
  {<<>>} \union {<<w>> : w \in WaiverOptions(waiver1)}
    \union {<<w, v>> : w \in WaiverOptions(waiver1), v \in WaiverOptions(waiver2)}
WaiverResults ==
  {<<>>, <<Result(result1, "deny")>>, <<Result(result2, "review")>>,
   <<Result(result1, "deny"), Result(result2, "review")>>, <<Result(result1, "deny"), Result(result1, "review")>>}
WaiverBundles ==
  {[manifest |-> Manifested(Views, Runs, w), at |-> Plain, holds |-> Filled(r)] :
     w \in WaiverLists, r \in WaiverResults}

-----------------------------------------------------------------------------
\* Views that are missing, doubled or of another kind; runs of the right and the
\* wrong tool on the right and the wrong views; paths that share a file.
ViewLists ==
  {Views, <<Views[1], Views[2]>>, <<Views[2], Views[3]>>, <<Views[1], Views[3]>>,
   <<Views[1], Views[2], Artifact(idExtra, "pex", pexPath)>>,
   <<Views[1], Views[2], Artifact(idPex, "support", pexPath)>>,
   <<Views[1], Artifact(idLay, "schematic", layPath), Views[3]>>}
RunOptions(id, path) ==
  {Tool(id, "magic-drc", path, {idLay}, {}), Tool(id, "klayout-drc", path, {idLay}, {}),
   Tool(id, "klayout-drc", path, {idSch, idLay}, {}), Tool(id, "netgen-lvs", path, {idSch, idLay}, {}),
   Tool(id, "netgen-lvs", path, {idLay}, {}), Tool(id, "magic-pex", path, {idLay}, {idPex}),
   Tool(id, "magic-pex", path, {idLay}, {}), Tool(id, "magic-pex", path, {idPex}, {idPex})}
RunLists ==
  {<<a, b, c>> : a \in RunOptions(idDrc, drcPath), b \in RunOptions(idLvs, lvsPath), c \in RunOptions(idLog, logPath)}
    \union {<<Runs[1], Runs[2]>>, <<Runs[1], Runs[3]>>, <<Runs[2], Runs[3]>>, <<>>}
LineageDisks ==
  LET other == [Filled(<<>>) EXCEPT ![logFile].output = layPath]
  IN  {<<Plain, Filled(<<>>)>>, <<Plain, other>>,
       <<[Plain EXCEPT ![layPath] = schFile], Filled(<<>>)>>,
       <<[Plain EXCEPT ![lvsPath] = manFile], Filled(<<>>)>>}
LineageBundles ==
  {[manifest |-> Manifested(v, r, <<>>), at |-> d[1], holds |-> d[2]] :
     v \in ViewLists, r \in RunLists, d \in LineageDisks}

QuietBundles == WaiverBundles \union LineageBundles
-----------------------------------------------------------------------------
\* A layout and its DRC report, and the complete evidence, in a directory that
\* changes.  These manifests are of an earlier day than the others.
ChangingTexts ==
  {Names, Data, Log(<<>>), Log(<<Result(result1, "deny")>>),
   Text("report", 2, <<Result(result2, "deny")>>, layPath), Text("report", 1, <<>>, layPath),
   Text("broken", 1, <<>>, Gone), Text("data", 3, <<>>, Gone)}
Earlier(m) == [m EXCEPT !.assessed = 0]
ChangingManifests ==
  {Earlier(Manifested(<<Views[2]>>, <<Runs[1]>>, <<>>)), Earlier(Manifested(Views, Runs, <<>>))}
ChangingBundles ==
  {[manifest |-> m, at |-> Plain, holds |-> Filled(<<Result(result1, "deny")>>)] : m \in ChangingManifests}

MCBundles == QuietBundles \union ChangingBundles
MCTexts == ChangingTexts \union {Log(r) : r \in WaiverResults}
=============================================================================
