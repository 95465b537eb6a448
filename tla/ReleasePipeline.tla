--------------------------- MODULE ReleasePipeline ---------------------------
(***************************************************************************)
(* The release of one version, as .github/workflows/release.yml runs the   *)
(* commands of release_artifacts.py: build, audit, install into            *)
(* .release-smoke, scan, bind-installed-wheel, validate-sbom,              *)
(* write-checksums, verify-release, upload; then provenance and            *)
(* github-release, which each download what was uploaded and verify it.    *)
(*                                                                         *)
(* The process may be killed between any two calls, and while it writes,   *)
(* and calls may fail.  Then the command is run again, or the release      *)
(* starts anew with the build, in a new workspace or in the one that is    *)
(* there; a release that was refused only starts anew.                     *)
(***************************************************************************)
EXTENDS ReleaseBill, DistributionAudit

CONSTANTS
  Builds,          \* the pairs of a wheel and a source distribution that the
                   \* build may produce
  Required,        \* the files that the wheel must have, as components
  RequiredSource,  \* those that the source distribution must have
  Root,            \* the root of the source distribution
  Installs(_),     \* what installing a wheel may leave
  Scans(_),        \* what Syft may write about an installation
  Damaged,         \* the content of a file that was damaged on its way
  NoInstall,       \* .release-smoke does not exist
  Nothing,         \* nothing uploaded, downloaded or released
  Torn,            \* what the name of a line cut off in the middle reads
  MaxInterruptions, \* bound: how often a command is killed or fails
  MaxRestarts       \* bound: how often the release starts anew

\* What archives, an installation and a document are made of, whatever is wrong
\* with them.
ASSUME InputsAssumption ==
  \A build \in Builds :
    /\ build.wheel.listing \in Seq(Entries) /\ build.sdist.listing \in Seq(Entries)
    /\ build.wheel.rows \in Seq({build.wheel.rows[i] : i \in DOMAIN build.wheel.rows})
    /\ \A venv \in Installs(build.wheel) :
         /\ venv.rows \in Seq(Rows)
         /\ \A bill \in Scans(venv) : IsBill(bill)

\* The names that a wheel holds a content for are those of its file entries.
ASSUME BuildsAssumption ==
  \A build \in Builds :
    LET entries == build.wheel.listing
    IN  {entries[i].name : i \in {k \in DOMAIN entries : entries[k].kind # "directory"}}
          = Archive(build.wheel)

\* The workflow requires files of the source distribution, by their paths
\* below its root.
ASSUME RequiredAssumption ==
  RequiredSource # {} /\ RequiredSource \subseteq Seq(DOMAIN Folded) \ {<<>>}

VARIABLES
  at,            \* the step that comes next
  dist,          \* the directory dist: what is under the name of each asset
  temporary,     \* the temporary file in dist of a call of bind_installed_wheel
  orphaned,      \* whether dist holds temporary files of calls that were killed
  install,       \* the virtual environment .release-smoke
  artifact,      \* the upload release-distributions
  here,          \* dist in a later job, after its download
  attested,      \* the contents for which provenance was attested
  released,      \* the assets of the GitHub release
  public,        \* whether the repository is public, so that provenance runs
  scanned,       \* auxiliary: the document as Syft wrote it
  interruptions, restarts

temps == <<temporary, orphaned>>
vars == <<at, dist, temps, install, artifact, here, attested, released, public, scanned, interruptions, restarts>>

\* checksum_subject_names and release_asset_names, in the order of the file.
Subjects == <<"SBOM.spdx.json", "wheel", "sdist">>
SubjectNames == {Subjects[i] : i \in DOMAIN Subjects}
AssetNames == SubjectNames \cup {"SHA256SUMS"}

\* What may be in dist under the names of the subjects once a document is bound,
\* and the lines of SHA256SUMS.
Wheels == {build.wheel : build \in Builds}
Venvs  == UNION {Installs(wheel) : wheel \in Wheels}

BoundBills ==
  UNION {{Bound(bill, venv) :
            bill \in {b \in Scans(venv) : \E wheel \in Wheels : Bindable(b, wheel, venv)}} :
         venv \in Venvs}

Payloads == Wheels \cup {build.sdist : build \in Builds} \cup BoundBills

SumLines == [name : SubjectNames \cup {Torn}, digest : Payloads]

\* What stands for a file that is absent or damaged, or for nothing at all, is
\* none of what is there, and a torn name is none of a subject.
ASSUME SentinelsAssumption ==
  /\ Absent \notin Members \cup Paths
  /\ Torn \notin SubjectNames
  /\ Absent \notin Payloads \cup Seq(SumLines)
  /\ Damaged \notin Payloads \cup Seq(SumLines)
  /\ Nothing \notin [AssetNames -> Payloads \cup Seq(SumLines) \cup {Absent, Damaged}]

NoFiles == [name \in AssetNames |-> Absent]

HasExactly(directory, names) ==
  {name \in AssetNames : directory[name] # Absent} = names

Lines(directory) == [i \in DOMAIN Subjects |-> [name |-> Subjects[i], digest |-> directory[Subjects[i]]]]

\* The lines that are there are true, whichever are missing.
SumsVerify_AnySubjects(directory) ==
  LET lines == directory["SHA256SUMS"]
  IN  /\ lines # Damaged
      /\ \A i \in DOMAIN lines :
           lines[i].name \in SubjectNames /\ lines[i].digest = directory[lines[i].name]

\* verify_checksums: a torn line is malformed, and so is any other content.
SumsVerify(directory) ==
  LET lines == directory["SHA256SUMS"]
  IN  /\ lines # Damaged
      /\ \A i, j \in DOMAIN lines : lines[i].name = lines[j].name => i = j
      /\ {lines[i].name : i \in DOMAIN lines} = SubjectNames
      /\ \A i \in DOMAIN lines : lines[i].digest = directory[lines[i].name]

BillValid(directory) ==
  LET bill == directory["SBOM.spdx.json"]
  IN  bill # Damaged /\ Valid(bill)

\* verify_release.
Verifies(directory) ==
  HasExactly(directory, AssetNames) /\ BillValid(directory) /\ SumsVerify(directory)

Init ==
  /\ at = "build"
  /\ dist = NoFiles
  /\ temporary = Absent /\ orphaned = FALSE
  /\ install = NoInstall
  /\ artifact = Nothing
  /\ here = Nothing
  /\ attested = {}
  /\ released = Nothing
  /\ public \in BOOLEAN
  /\ scanned = Nothing
  /\ interruptions = 0 /\ restarts = 0

Refuse == at' = "refused"

-----------------------------------------------------------------------------
(* The build job. *)

\* rm -rf dist build; python -m build.
Build ==
  /\ at = "build"
  /\ \E build \in Builds :
       dist' = [NoFiles EXCEPT !["wheel"] = build.wheel, !["sdist"] = build.sdist]
  /\ temporary' = Absent /\ orphaned' = FALSE
  /\ at' = "audit"
  /\ UNCHANGED <<install, artifact, here, attested, released, public, scanned, interruptions, restarts>>

\* audit_sdist and audit_wheel, and the files that both must have.
Audit ==
  /\ at = "audit"
  /\ LET source == dist["sdist"].listing
         wheel  == dist["wheel"].listing
         passes ==
           /\ SourceAccepted(source, Root) /\ RequiredSource \subseteq RelativePaths(source)
           /\ ListingAccepted(wheel) /\ Required \subseteq FilePaths(wheel)
     IN  at' = IF passes THEN "install" ELSE "refused"
  /\ UNCHANGED <<dist, temps, install, artifact, here, attested, released, public, scanned, interruptions, restarts>>

\* pip leaves an installation of the same version alone.
Install ==
  /\ at = "install"
  /\ IF install = NoInstall THEN install' \in Installs(dist["wheel"]) ELSE UNCHANGED install
  /\ at' = "scan"
  /\ UNCHANGED <<dist, temps, artifact, here, attested, released, public, scanned, interruptions, restarts>>

Scan ==
  /\ at = "scan"
  /\ scanned' \in Scans(install)
  /\ dist' = [dist EXCEPT !["SBOM.spdx.json"] = scanned']
  /\ at' = "bind"
  /\ UNCHANGED <<temps, install, artifact, here, attested, released, public, interruptions, restarts>>

\* bind_installed_wheel up to the replacement: the new document is complete
\* in a temporary file beside the old one, of a name that no other call uses.
Bind ==
  /\ at = "bind"
  /\ Bindable(dist["SBOM.spdx.json"], dist["wheel"], install)
  /\ temporary' = Bound(dist["SBOM.spdx.json"], install)
  /\ at' = "replace"
  /\ UNCHANGED <<dist, orphaned, install, artifact, here, attested, released, public, scanned, interruptions, restarts>>

BindRefused ==
  /\ at = "bind"
  /\ ~Bindable(dist["SBOM.spdx.json"], dist["wheel"], install)
  /\ Refuse
  /\ UNCHANGED <<dist, temps, install, artifact, here, attested, released, public, scanned, interruptions, restarts>>

\* os.replace puts the bound document in the place of the one before.
Replace ==
  /\ at = "replace"
  /\ dist' = [dist EXCEPT !["SBOM.spdx.json"] = temporary]
  /\ temporary' = Absent
  /\ at' = "validate"
  /\ UNCHANGED <<orphaned, install, artifact, here, attested, released, public, scanned, interruptions, restarts>>

Validate ==
  /\ at = "validate"
  /\ at' = IF BillValid(dist) THEN "checksums" ELSE "refused"
  /\ UNCHANGED <<dist, temps, install, artifact, here, attested, released, public, scanned, interruptions, restarts>>

\* _require_exact_files: the directory dist holds these assets and nothing else.
DistHasExactly(names) == HasExactly(dist, names) /\ temporary = Absent /\ ~orphaned

\* write_checksums creates the file only if dist holds the three payloads and
\* nothing else.
OpenSums ==
  /\ at = "checksums"
  /\ IF DistHasExactly(SubjectNames)
       THEN /\ dist' = [dist EXCEPT !["SHA256SUMS"] = <<>>]
            /\ at' = "lines"
       ELSE Refuse /\ UNCHANGED dist
  /\ UNCHANGED <<temps, install, artifact, here, attested, released, public, scanned, interruptions, restarts>>

WriteLines ==
  /\ at = "lines"
  /\ dist' = [dist EXCEPT !["SHA256SUMS"] = Lines(dist)]
  /\ at' = "verify"
  /\ UNCHANGED <<temps, install, artifact, here, attested, released, public, scanned, interruptions, restarts>>

Verify ==
  /\ at = "verify"
  /\ at' = IF DistHasExactly(AssetNames) /\ Verifies(dist) THEN "upload" ELSE "refused"
  /\ UNCHANGED <<dist, temps, install, artifact, here, attested, released, public, scanned, interruptions, restarts>>

\* The four assets by name; provenance is for public repositories.
Upload ==
  /\ at = "upload"
  /\ artifact' = dist
  /\ at' = IF public THEN "provenance" ELSE "publish"
  /\ UNCHANGED <<dist, temps, install, here, attested, released, public, scanned, interruptions, restarts>>

-----------------------------------------------------------------------------
(* The jobs that publish. *)

\* A file of the download is damaged, missing or, of SHA256SUMS, cut short.
Cut(lines) ==
  UNION {{SubSeq(lines, 1, i - 1), [SubSeq(lines, 1, i) EXCEPT ![i].name = Torn]} : i \in DOMAIN lines}

Downloads ==
  {artifact}
    \cup {[artifact EXCEPT ![name] = held] : name \in AssetNames, held \in {Damaged, Absent}}
    \cup {[artifact EXCEPT !["SHA256SUMS"] = lines] : lines \in Cut(artifact["SHA256SUMS"])}

Download(job, next) ==
  /\ at = job
  /\ here' \in Downloads
  /\ at' = next
  /\ UNCHANGED <<dist, temps, install, artifact, attested, released, public, scanned, interruptions, restarts>>

DownloadForProvenance == Download("provenance", "attest")
DownloadForRelease    == Download("publish", "create")

\* The job verifies its download and attests every line of SHA256SUMS.
Attest ==
  /\ at = "attest"
  /\ IF Verifies(here)
       THEN /\ attested' = attested \cup {here["SHA256SUMS"][i] : i \in DOMAIN here["SHA256SUMS"]}
            /\ at' = "publish"
       ELSE Refuse /\ UNCHANGED attested
  /\ UNCHANGED <<dist, temps, install, artifact, here, released, public, scanned, interruptions, restarts>>

\* The job verifies its own download; a release that exists is left alone.
Create ==
  /\ at = "create"
  /\ IF Verifies(here) /\ released = Nothing
       THEN released' = here /\ at' = "done"
       ELSE Refuse /\ UNCHANGED released
  /\ UNCHANGED <<dist, temps, install, artifact, here, attested, public, scanned, interruptions, restarts>>

-----------------------------------------------------------------------------
(* Interruptions and what is done after them. *)

\* The steps from which the interrupted command, or job, starts again.  Who
\* is killed after the replacement may bind once more what is bound.
FirstSteps(step) ==
  CASE step = "replace"  -> {"bind"}
    [] step = "validate" -> {"bind", "validate"}
    [] step = "lines"    -> {"checksums"}
    [] step = "attest"   -> {"provenance"}
    [] step = "create"   -> {"publish"}
    [] OTHER             -> {step}

Interrupt ==
  /\ interruptions < MaxInterruptions
  /\ interruptions' = interruptions + 1
  /\ UNCHANGED restarts

\* Lines that were not flushed are lost, the last one in the middle.
LinesLost ==
  \E lines \in Cut(Lines(dist)) : dist' = [dist EXCEPT !["SHA256SUMS"] = lines]

\* A temporary file that was written, in part or whole, and not yet renamed
\* stays in dist, where no other call knows its name.
OrphanLeft ==
  /\ temporary' = Absent
  /\ \/ at # "replace" /\ UNCHANGED orphaned
     \/ at = "replace" /\ orphaned' = TRUE
     \/ at = "bind" /\ Bindable(dist["SBOM.spdx.json"], dist["wheel"], install) /\ orphaned' = TRUE

\* What was written stays; a job that runs again downloads again.
KilledAndRetried ==
  /\ at \notin {"refused", "failed", "done"}
  /\ Interrupt
  /\ at' \in FirstSteps(at)
  /\ OrphanLeft
  /\ IF at = "lines" THEN LinesLost ELSE UNCHANGED dist
  /\ here' = IF at \in {"attest", "create"} THEN Nothing ELSE here
  /\ UNCHANGED <<install, artifact, attested, released, public, scanned>>

\* A call of bind_installed_wheel or of write_checksums fails: the former
\* removes its temporary file, the latter leaves what it wrote.
CallFails ==
  /\ Interrupt
  /\ \/ at \in {"bind", "replace"} /\ UNCHANGED dist
     \/ at = "lines" /\ LinesLost
  /\ temporary' = Absent
  /\ at' \in {"failed"} \cup FirstSteps(at)
  /\ UNCHANGED <<orphaned, install, artifact, here, attested, released, public, scanned>>

\* The release starts anew, without what was uploaded; a new workspace has
\* no virtual environment.
Restart ==
  /\ at # "build"
  /\ restarts < MaxRestarts
  /\ restarts' = restarts + 1
  /\ at' = "build"
  /\ OrphanLeft
  /\ install' \in {install, NoInstall}
  /\ artifact' = Nothing /\ here' = Nothing /\ scanned' = Nothing
  /\ UNCHANGED <<dist, attested, released, public, interruptions>>

BuildJob ==
  Build \/ Audit \/ Install \/ Scan \/ Bind \/ BindRefused \/ Replace \/ Validate
    \/ OpenSums \/ WriteLines \/ Verify \/ Upload

PublishingJobs ==
  DownloadForProvenance \/ Attest \/ DownloadForRelease \/ Create

\* A release that ended stays as it is.
Ended == at \in {"refused", "failed", "done"} /\ UNCHANGED vars

Next == BuildJob \/ PublishingJobs \/ KilledAndRetried \/ CallFails \/ Restart \/ Ended

Spec == Init /\ [][Next]_vars

-----------------------------------------------------------------------------
(* What a release promises. *)

\* The files that the installed distribution consists of.
Distribution == Present(install) \cup Expected

\* The document describes the package and says of it that it contains just
\* the files that are installed, each with its true checksums, and the
\* installed files of the wheel are the wheel's.
BillIsTrue(assets) ==
  LET bill == assets["SBOM.spdx.json"]
      files == {bill.files[id] : id \in Contained(bill)}
  IN  /\ bill.describes > 0
      /\ files = {[name |-> path, sums |-> install.tree[path]] : path \in Distribution}
      /\ \A name \in Archive(assets["wheel"]) \ {Record} :
           [name |-> name, sums |-> assets["wheel"].files[name]] \in files

SumsAreTrue(assets) ==
  {assets["SHA256SUMS"][i] : i \in DOMAIN assets["SHA256SUMS"]}
    = {[name |-> name, digest |-> assets[name]] : name \in SubjectNames}

\* Where case is ignored, no other entry comes to lie on a file or below it.
UnpacksWhole(listing) ==
  \A i, j \in DOMAIN listing :
    i # j /\ listing[i].kind = "file" => ~IsPrefix(Identity(listing[i]), Identity(listing[j]))

IsSound(assets) ==
  /\ HasExactly(assets, AssetNames) /\ SumsAreTrue(assets) /\ BillIsTrue(assets)
  /\ UnpacksWhole(assets["wheel"].listing) /\ UnpacksWhole(assets["sdist"].listing)

\* What is attested, and what is released, is four whole files whose
\* checksums are true and whose SBOM lists exactly the files that were
\* installed, with the contents that the released wheel has; no file of the
\* wheel or of the source distribution is lost where it is unpacked; in a
\* public repository what is released was attested.  So it is whatever the build,
\* pip and Syft produced, whatever was left over from an earlier attempt,
\* wherever the process was killed and whichever file of a download is bad.
PublishedIsSound ==
  /\ at = "publish" /\ public /\ here # Nothing => IsSound(here)
  /\ at = "done" =>
       /\ IsSound(released)
       /\ public => {[name |-> name, digest |-> released[name]] : name \in SubjectNames} \subseteq attested

\* Files and directories of which each has a place of its own, everywhere.
FaithfulListing(listing) ==
  /\ UnpacksWhole(listing)
  /\ \A i \in DOMAIN listing : EntryAccepted(listing[i])
  /\ Cardinality({Identity(listing[i]) : i \in DOMAIN listing}) = Len(listing)
  /\ Len(listing) <= MaxEntries /\ TotalSize(listing) <= MaxTotal

FaithfulSource(sdist) ==
  LET entries == sdist.listing
  IN  /\ FaithfulListing(entries)
      /\ \A i \in DOMAIN entries : Split[entries[i].name][1] = Root
      /\ \A path \in RequiredSource :
           \E i \in DOMAIN entries :
             entries[i].kind = "file" /\ Split[entries[i].name] = <<Root>> \o path

\* A wheel as the wheel format has it: RECORD lists every file once.
FaithfulWheel(wheel) ==
  LET files == Archive(wheel)
  IN  /\ FaithfulListing(wheel.listing)
      /\ \A i \in DOMAIN wheel.listing : wheel.listing[i].kind = "file"
      /\ Required \subseteq {Split[name] : name \in files}
      /\ files \subseteq Members /\ {Record, Metadata} \subseteq files /\ files \cap Package # {}
      /\ wheel.files[Metadata] \in Named
      /\ Len(wheel.rows) = Cardinality(files)
      /\ {wheel.rows[i] : i \in DOMAIN wheel.rows}
           = {[name |-> name, claim |-> IF name = Record THEN NoClaim ELSE wheel.files[name]] : name \in files}

\* The wheel installed into a directory of its own: its files, those that
\* the installer adds, and a RECORD of them all.
FaithfulInstall(wheel) ==
  LET rows == {install.rows[i] : i \in DOMAIN install.rows}
  IN  /\ install.twins = 0
      /\ \A path \in Distribution : install.tree[path] \in Contents
      /\ Archive(wheel) \subseteq Present(install)
      /\ \A name \in Archive(wheel) \ {Record} : install.tree[name] = wheel.files[name]
      /\ Len(install.rows) = Cardinality(Distribution)
      /\ {Place[row.name] : row \in rows} = Distribution
      /\ \A row \in rows :
           /\ Place[row.name] \in Members => row.name \in Members
           /\ row.claim \in IF row.name = Record THEN {NoClaim}
                             ELSE IF row.name \in Archive(wheel) THEN {wheel.files[row.name]}
                             ELSE {NoClaim, install.tree[Place[row.name]]}

\* A document of the pinned Syft that lists the installed files, and says of
\* no other file that the package contains it.
FaithfulBill ==
  /\ scanned.sound /\ scanned.pinned /\ scanned.distinct /\ ~scanned.dangling
  /\ scanned.packages = 1 /\ scanned.describes <= 1
  /\ UniquePaths(scanned) /\ Distribution \subseteq PathsOf(scanned)
  /\ \A id \in FilesOf(scanned) :
       scanned.contains[id] <= IF scanned.files[id].name \in Distribution THEN 1 ELSE 0

\* What a killed or failed command left in dist: a temporary file beside a
\* document that is bound and valid, or a SHA256SUMS that is not whole.
Remains ==
  \/ orphaned /\ BillValid(dist)
  \/ dist["SHA256SUMS"] \notin {Absent, Lines(dist)}

\* A release is refused only if an archive, the wheel, its installation or Syft's
\* document is not what it should be, an interrupted command left remains,
\* a download is damaged, or the version has been released already: above
\* all, binding a document again that was bound before makes it no worse.
RefusalsAreReal ==
  at = "refused" =>
    \/ ~FaithfulSource(dist["sdist"])
    \/ ~FaithfulWheel(dist["wheel"])
    \/ ~FaithfulInstall(dist["wheel"])
    \/ ~FaithfulBill
    \/ Remains
    \/ here # Nothing /\ (here # artifact \/ released # Nothing)
=============================================================================
