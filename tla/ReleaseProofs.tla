----------------------------- MODULE ReleaseProofs -----------------------------
(***************************************************************************)
(* What a release publishes is sound (ReleasePipeline!PublishedIsSound),   *)
(* and what it refuses is not as it should be (RefusalsAreReal).           *)
(*                                                                         *)
(* The argument follows the document of the release.  Once the installed   *)
(* wheel is bound to it, it has an element for every installed file, with  *)
(* that file's checksums, that the package contains, and the verification  *)
(* code of exactly these files; validation counts the elements against     *)
(* that code, so that the package contains no other.  The checksums, which *)
(* are verified before the upload and after every download, tie what is    *)
(* downloaded to what was uploaded.                                        *)
(*                                                                         *)
(* That no refusal is without a reason takes the converse of each check:   *)
(* what is faithful is accepted.  The document that is bound is always the *)
(* one that binding makes of Syft's, for binding it again changes nothing, *)
(* and SHA256SUMS is whole unless a killed call left it torn.              *)
(***************************************************************************)
EXTENDS ReleasePipeline, FiniteSetTheorems, SequenceTheorems, TLAPS

-----------------------------------------------------------------------------
(* The inductive invariant. *)

\* The steps from the first to the last that follows the audit, the scan, ...
Uploaded  == {"provenance", "attest", "publish", "create", "done"}
Verified  == {"upload"} \cup Uploaded
Replaced  == {"validate", "checksums", "lines", "verify"} \cup Verified
Installed == {"scan", "bind", "replace"} \cup Replaced
Audited   == {"install"} \cup Installed
Built     == {"audit"} \cup Audited
Steps     == {"build", "refused", "failed"} \cup Built

\* Lines of a name and a digest, no more than write_checksums writes.
IsLines(lines) ==
  \E n \in 0 .. 3 : lines = [i \in 1 .. n |-> [name |-> lines[i].name, digest |-> lines[i].digest]]

\* The document has an element for every installed file, which the package
\* contains, and the verification code of just these files.
BillFits(bill, wheel, venv) ==
  /\ IsBill(bill) /\ UniquePaths(bill)
  /\ InstallationAccepted(wheel, venv)
  /\ IsFiniteSet(InstalledPaths(venv))
  /\ NoName \notin InstalledPaths(venv)
  /\ \A path \in InstalledPaths(venv) :
       \E id \in Contained(bill) : bill.files[id] = [name |-> path, sums |-> venv.tree[path]]
  /\ bill.code = Code([path \in InstalledPaths(venv) |-> venv.tree[path]])

\* dist holds something under each of its names.
Shapes ==
  /\ at \in Steps
  /\ dist = [name \in AssetNames |-> dist[name]]
  /\ dist["SHA256SUMS"] = Absent \/ IsLines(dist["SHA256SUMS"])

\* The archives are those of a build and, after the audit, unpack whole.
Archives ==
  /\ at \in Built => \E build \in Builds : dist["wheel"] = build.wheel /\ dist["sdist"] = build.sdist
  /\ at \in Audited => UnpacksWhole(dist["wheel"].listing) /\ UnpacksWhole(dist["sdist"].listing)

\* The virtual environment is one that pip left, perhaps for an earlier build.
Environment ==
  /\ install = NoInstall \/ install \in Venvs
  /\ at \in Installed => install \in Venvs

\* The document that was bound fits, in the temporary file and in its place.
Documents ==
  /\ at \in {"bind", "replace"} => IsBill(dist["SBOM.spdx.json"])
  /\ at = "replace" => BillFits(temporary, dist["wheel"], install)
  /\ at \in Replaced => BillFits(dist["SBOM.spdx.json"], dist["wheel"], install)
  /\ at \in Verified => Verifies(dist)

\* What was uploaded is what dist holds; what a job goes on with verifies.
Transfers ==
  /\ at \in Uploaded => artifact = dist
  /\ at \in {"attest", "create"} => here \in Downloads
  /\ at = "publish" /\ public /\ here # Nothing => here \in Downloads /\ Verifies(here)
  /\ at = "done" => released \in Downloads /\ Verifies(released)

Attestations ==
  at \in {"publish", "create", "done"} /\ public
    => {[name |-> name, digest |-> artifact[name]] : name \in SubjectNames} \subseteq attested

ReleaseInv ==
  Shapes /\ Archives /\ Environment /\ Documents /\ Transfers /\ Attestations

-----------------------------------------------------------------------------
(* Archives, installations and documents. *)

\* Entries that each fit behind those before them unpack whole.
LEMMA AcceptedUnpacksWhole ==
  ASSUME NEW listing \in Seq(Entries), ListingAccepted(listing)
  PROVE  UnpacksWhole(listing)
<1> SUFFICES ASSUME NEW i \in DOMAIN listing, NEW j \in DOMAIN listing, i # j, listing[i].kind = "file"
             PROVE  ~IsPrefix(Identity(listing[i]), Identity(listing[j]))
  BY DEF UnpacksWhole
<1>1. DOMAIN listing = 1 .. Len(listing) /\ Len(listing) \in Nat
  OBVIOUS
<1>2. Fits(listing, i) /\ Fits(listing, j)
  BY DEF ListingAccepted
<1>3. CASE i < j
  <2>1. i \in 1 .. j - 1
    BY <1>1, <1>3
  <2> QED
    BY <1>2, <2>1, Zenon DEF Fits, IsStrictPrefix
<1>4. CASE j < i
  <2>1. j \in 1 .. i - 1
    BY <1>1, <1>4
  <2> QED
    BY <1>2, <2>1, Zenon DEF Fits, IsStrictPrefix
<1> QED
  BY <1>1, <1>3, <1>4

\* What the assumption says of each virtual environment.
LEMMA VenvShape ==
  ASSUME NEW venv \in Venvs
  PROVE  IsFiniteSet(InstalledPaths(venv)) /\ \A bill \in Scans(venv) : IsBill(bill)
<1>1. PICK build \in Builds : venv \in Installs(build.wheel)
  BY DEF Venvs, Wheels
<1>2. venv.rows \in Seq(Rows) /\ \A bill \in Scans(venv) : IsBill(bill)
  BY <1>1, InputsAssumption
<1>3. DOMAIN venv.rows = 1 .. Len(venv.rows) /\ Len(venv.rows) \in Nat
  BY <1>2
<1>4. IsFiniteSet(DOMAIN venv.rows)
  BY <1>3, FS_Interval
<1> DEFINE place == [i \in DOMAIN venv.rows |-> Place[venv.rows[i].name]]
<1>5. place \in Surjection(DOMAIN venv.rows, InstalledPaths(venv))
  BY DEF Surjection, InstalledPaths, NamesIn
<1>6. IsFiniteSet(InstalledPaths(venv))
  BY <1>4, <1>5, FS_Surjection
<1> QED
  BY <1>2, <1>6

\* Binding makes a document that fits the installation.
LEMMA BoundFits ==
  ASSUME NEW bill, NEW wheel, NEW venv \in Venvs, IsBill(bill), Bindable(bill, wheel, venv)
  PROVE  BillFits(Bound(bill, venv), wheel, venv)
<1> DEFINE paths == InstalledPaths(venv)
           ours  == {IdOf(bill, path) : path \in paths}
           bound == Bound(bill, venv)
<1>1. IsFiniteSet(paths)
  BY VenvShape
<1>2. /\ FilesOf(bound) = FilesOf(bill)
      /\ \A id \in FilesOf(bill) :
           /\ bound.files[id].name = bill.files[id].name
           /\ bound.files[id] = [name |-> bound.files[id].name, sums |-> bound.files[id].sums]
           /\ id \in ours => bound.files[id].sums = venv.tree[bill.files[id].name]
  BY DEF Bound, FilesOf, IsBill
<1>3. /\ bound.contains \in [FilesOf(bill) -> Nat] /\ bound.describes \in Nat
      /\ \A id \in ours \cap FilesOf(bill) : bound.contains[id] > 0
  BY DEF Bound, IsBill, AtLeastOnce
<1>4. /\ DOMAIN bound = DOMAIN bill
      /\ bound.code = Code([path \in paths |-> venv.tree[path]])
      /\ bound.files = [id \in FilesOf(bill) |-> bound.files[id]]
  BY DEF Bound, IsBill
<1>5. IsBill(bound)
  BY <1>2, <1>3, <1>4 DEF IsBill
<1> HIDE DEF bound
<1>6. UniquePaths(bound)
  <2>1. UniquePaths(bill)
    BY DEF Bindable
  <2> QED
    BY <1>2, <2>1 DEF UniquePaths
<1>7. NoName \notin paths
  BY DEF Bindable, PathsOf
<1>8. ASSUME NEW path \in paths
      PROVE  \E id \in Contained(bound) : bound.files[id] = [name |-> path, sums |-> venv.tree[path]]
  <2>1. \E id \in FilesOf(bill) : bill.files[id].name = path
    BY DEF Bindable, PathsOf
  <2>2. IdOf(bill, path) \in FilesOf(bill) /\ bill.files[IdOf(bill, path)].name = path
    BY <2>1 DEF IdOf
  <2>3. IdOf(bill, path) \in ours
    OBVIOUS
  <2> DEFINE id == IdOf(bill, path)
  <2> HIDE DEF ours, id
  <2>4. id \in Contained(bound)
    BY <1>2, <1>3, <2>2, <2>3 DEF Contained, id
  <2>5. bound.files[id] = [name |-> path, sums |-> venv.tree[path]]
    BY <1>2, <2>2, <2>3 DEF id
  <2> QED
    BY <2>4, <2>5
<1> QED
  BY <1>1, <1>4, <1>5, <1>6, <1>7, <1>8 DEF BillFits, Bindable, bound

\* What a valid document contains is what is installed: any other element
\* would be one too many for the verification code.
LEMMA OnlyInstalled ==
  ASSUME NEW bill, NEW wheel, NEW venv, BillFits(bill, wheel, venv), Valid(bill),
         NEW id \in Contained(bill)
  PROVE  \E path \in InstalledPaths(venv) :
           bill.files[id] = [name |-> path, sums |-> venv.tree[path]]
<1> DEFINE paths == InstalledPaths(venv)
           Is(path, i) == bill.files[i] = [name |-> path, sums |-> venv.tree[path]]
           c     == bill.files[id].sums
           there == {path \in paths : venv.tree[path] = c}
           said  == {i \in Contained(bill) : bill.files[i].sums = c}
           of    == [path \in there |-> CHOOSE i \in Contained(bill) : Is(path, i)]
<1>1. c \in Contents
  BY DEF Valid
<1>2. IsFiniteSet(said)
  <2>1. IsFiniteSet(FilesOf(bill)) /\ said \in SUBSET FilesOf(bill)
    BY DEF BillFits, IsBill, Contained
  <2> QED
    BY <2>1, FS_Subset
<1>3. Cardinality(said) = Cardinality(there)
  <2>1. Code([i \in Contained(bill) |-> bill.files[i].sums]) = Code([path \in paths |-> venv.tree[path]])
    BY DEF Valid, BillFits
  <2>2. Code([i \in Contained(bill) |-> bill.files[i].sums])[c]
          = Cardinality({i \in Contained(bill) : [j \in Contained(bill) |-> bill.files[j].sums][i] = c})
    BY <1>1 DEF Code
  <2>3. Code([path \in paths |-> venv.tree[path]])[c]
          = Cardinality({path \in paths : [other \in paths |-> venv.tree[other]][path] = c})
    BY <1>1 DEF Code
  <2>4. {i \in Contained(bill) : [j \in Contained(bill) |-> bill.files[j].sums][i] = c} = said
    OBVIOUS
  <2>5. {path \in paths : [other \in paths |-> venv.tree[other]][path] = c} = there
    OBVIOUS
  <2> HIDE DEF paths, c, there, said
  <2> QED
    BY <2>1, <2>2, <2>3, <2>4, <2>5
<1>4. \A path \in there : of[path] \in Contained(bill) /\ Is(path, of[path])
  BY DEF BillFits
<1>5. of \in Injection(there, said)
  <2>1. \A path \in there : of[path] \in said
    BY <1>4
  <2>2. \A path, other \in there : of[path] = of[other] => path = other
    BY <1>4
  <2>3. of = [path \in there |-> of[path]]
    OBVIOUS
  <2> HIDE DEF of, there, said
  <2> QED
    BY <2>1, <2>2, <2>3 DEF Injection, IsInjective
<1>6. of \in Surjection(there, said)
  <2> HIDE DEF of, there, said
  <2> QED
    BY <1>2, <1>3, <1>5, FS_Injection
<1>7. PICK path \in there : of[path] = id
  <2>1. id \in said
    OBVIOUS
  <2> HIDE DEF of, there, said
  <2> QED
    BY <1>6, <2>1 DEF Surjection
<1> QED
  BY <1>4, <1>7

\* What is installed is the distribution, and the wheel's files are as in
\* the wheel.
LEMMA InstalledIsDistribution ==
  ASSUME NEW wheel, InstallationAccepted(wheel, install)
  PROVE  /\ InstalledPaths(install) = Distribution
         /\ \A name \in Archive(wheel) \ {Record} :
              name \in InstalledPaths(install) /\ install.tree[name] = wheel.files[name]
<1> DEFINE rows  == install.rows
           names == NamesIn(rows)
<1>1. /\ Archive(wheel) \subseteq names
      /\ {Place[name] : name \in names \ Members} = Expected
      /\ Present(install) = names \cap Members
  BY DEF InstallationAccepted, ListsComplete
<1>2. \A name \in Members : Place[name] = name
  BY PlacesAssumption
<1>3. InstalledPaths(install) = Distribution
  <2>1. {Place[name] : name \in names} = {Place[name] : name \in names \ Members} \cup (names \cap Members)
    BY <1>2
  <2> QED
    BY <1>1, <2>1 DEF InstalledPaths, Distribution
<1>4. Archive(wheel) \subseteq Members
  BY DEF InstallationAccepted, WheelAccepted, NamesIn, WheelRow
<1>5. ASSUME NEW name \in Archive(wheel), name # Record
      PROVE  name \in InstalledPaths(install) /\ install.tree[name] = wheel.files[name]
  <2>1. name \in Members /\ name \in names /\ Place[name] = name
    BY <1>1, <1>2, <1>4
  <2>2. PICK i \in DOMAIN rows : rows[i].name = name
    BY <2>1 DEF NamesIn
  <2>3. ClaimHolds(wheel, install, rows[i])
    BY DEF InstallationAccepted, RowsAccepted
  <2>4. install.tree[Place[name]] = wheel.files[name]
    BY <1>5, <2>1, <2>2, <2>3 DEF ClaimHolds, InWheel
  <2> QED
    BY <2>1, <2>4 DEF InstalledPaths
<1> QED
  BY <1>3, <1>5

\* A document that fits and is valid is true.
LEMMA FittingIsTrue ==
  ASSUME NEW assets, BillFits(assets["SBOM.spdx.json"], assets["wheel"], install),
         Valid(assets["SBOM.spdx.json"])
  PROVE  BillIsTrue(assets)
<1> DEFINE bill  == assets["SBOM.spdx.json"]
           wheel == assets["wheel"]
           files == {bill.files[id] : id \in Contained(bill)}
<1>1. InstallationAccepted(wheel, install)
  BY DEF BillFits
<1>2. /\ \A id \in Contained(bill) : \E path \in InstalledPaths(install) :
           bill.files[id] = [name |-> path, sums |-> install.tree[path]]
      /\ \A path \in InstalledPaths(install) : \E id \in Contained(bill) :
           bill.files[id] = [name |-> path, sums |-> install.tree[path]]
  <2> HIDE DEF bill, wheel
  <2>1. BillFits(bill, wheel, install) /\ Valid(bill)
    BY DEF bill, wheel
  <2> QED
    BY <2>1, OnlyInstalled DEF BillFits
<1> HIDE DEF bill, wheel
<1>3. files = {[name |-> path, sums |-> install.tree[path]] : path \in Distribution}
  <2> DEFINE element(path) == [name |-> path, sums |-> install.tree[path]]
  <2>1. /\ \A id \in Contained(bill) : \E path \in Distribution : bill.files[id] = element(path)
        /\ \A path \in Distribution : \E id \in Contained(bill) : bill.files[id] = element(path)
    BY <1>1, <1>2, InstalledIsDistribution
  <2> HIDE DEF element
  <2>2. files = {element(path) : path \in Distribution}
    BY <2>1
  <2> QED
    BY <2>2 DEF element
<1>4. \A name \in Archive(wheel) \ {Record} : [name |-> name, sums |-> wheel.files[name]] \in files
  <2>1. \A name \in Archive(wheel) \ {Record} : name \in Distribution /\ install.tree[name] = wheel.files[name]
    BY <1>1, InstalledIsDistribution
  <2> QED
    BY <1>3, <2>1
<1>5. bill.describes > 0
  BY DEF Valid, bill
<1> QED
  BY <1>3, <1>4, <1>5 DEF BillIsTrue, bill, wheel

-----------------------------------------------------------------------------
(* Checksums and downloads. *)

\* The names in dist.
LEMMA NamesInDist ==
  /\ SubjectNames = {"SBOM.spdx.json", "wheel", "sdist"}
  /\ AssetNames = {"SBOM.spdx.json", "wheel", "sdist", "SHA256SUMS"}
<1>1. SubjectNames = {"SBOM.spdx.json", "wheel", "sdist"}
  BY DEF SubjectNames, Subjects
<1> QED
  BY <1>1 DEF AssetNames

\* What is cut off from lines is lines.
LEMMA CutIsLines ==
  ASSUME NEW lines, IsLines(lines), NEW cut \in Cut(lines)
  PROVE  IsLines(cut)
<1> DEFINE front(i) == SubSeq(lines, 1, i)
           all      == {lines[k] : k \in DOMAIN lines}
<1>1. PICK n \in 0 .. 3 :
        lines = [k \in 1 .. n |-> [name |-> lines[k].name, digest |-> lines[k].digest]]
  BY DEF IsLines
<1>2. DOMAIN lines = 1 .. n
  BY <1>1
<1>3. ASSUME NEW i \in 0 .. n
      PROVE  front(i) = [k \in 1 .. i |-> lines[k]]
  <2>0. (\A k \in 1 .. i : k \in DOMAIN lines) /\ 1 \in Int /\ i \in Int
    BY <1>2
  <2>1. \A k \in 1 .. i : lines[k] \in all
    BY <2>0
  <2>2. /\ front(i) \in Seq(all)
        /\ Len(front(i)) = IF 1 <= i THEN i - 1 + 1 ELSE 0
        /\ \A k \in 1 .. i - 1 + 1 : front(i)[k] = lines[1 + k - 1]
    <3> HIDE DEF all
    <3> QED
      BY <2>0, <2>1, SubSeqProperties
  <2> HIDE DEF front
  <2>3. Len(front(i)) = i /\ \A k \in 1 .. i : front(i)[k] = lines[k]
    BY <2>2
  <2> QED
    BY <2>2, <2>3
<1>4. PICK i \in 1 .. n : cut \in {front(i - 1), [front(i) EXCEPT ![i].name = Torn]}
  BY <1>2 DEF Cut
<1>5. CASE cut = front(i - 1)
  <2>1. i - 1 \in 0 .. 3 /\ cut = [k \in 1 .. i - 1 |-> lines[k]]
    BY <1>3, <1>5
  <2>2. \A k \in 1 .. i - 1 : k \in 1 .. n
    OBVIOUS
  <2>3. cut = [k \in 1 .. i - 1 |-> [name |-> cut[k].name, digest |-> cut[k].digest]]
    BY <1>1, <2>1, <2>2
  <2> QED
    BY <2>1, <2>3 DEF IsLines
<1>6. CASE cut = [front(i) EXCEPT ![i].name = Torn]
  <2>1. i \in 0 .. 3 /\ front(i) = [k \in 1 .. i |-> lines[k]]
    BY <1>3
  <2>2. \A k \in 1 .. i : k \in 1 .. n
    OBVIOUS
  <2> HIDE DEF front
  <2>3. \A k \in 1 .. i : lines[k] = [name |-> lines[k].name, digest |-> lines[k].digest]
    BY <1>1, <2>2
  <2>4. cut = [k \in 1 .. i |-> IF k = i THEN [lines[i] EXCEPT !.name = Torn] ELSE lines[k]]
    BY <1>6, <2>1
  <2>5. [lines[i] EXCEPT !.name = Torn] = [name |-> Torn, digest |-> lines[i].digest]
    <3> DEFINE line == lines[i]
    <3>1. line = [name |-> line.name, digest |-> line.digest]
      BY <2>3
    <3> HIDE DEF line
    <3>2. [line EXCEPT !.name = Torn] = [name |-> Torn, digest |-> line.digest]
      BY <3>1
    <3> QED
      BY <3>2 DEF line
  <2>6. cut = [k \in 1 .. i |-> [name |-> cut[k].name, digest |-> cut[k].digest]]
    BY <2>3, <2>4, <2>5
  <2> QED
    BY <2>1, <2>6 DEF IsLines
<1> QED
  BY <1>4, <1>5, <1>6

\* So are the lines that write_checksums writes, and none at all.
LEMMA WrittenIsLines ==
  ASSUME NEW directory
  PROVE  IsLines(Lines(directory)) /\ IsLines(<<>>)
<1> DEFINE lines == Lines(directory)
<1>1. lines = [i \in 1 .. 3 |-> [name |-> lines[i].name, digest |-> lines[i].digest]]
  BY DEF Lines, Subjects
<1>2. <<>> = [i \in 1 .. 0 |-> [name |-> <<>>[i].name, digest |-> <<>>[i].digest]]
  OBVIOUS
<1> QED
  BY <1>1, <1>2 DEF IsLines

\* What was uploaded, as a job finds it in a download that it verified.
LEMMA DownloadAgrees ==
  ASSUME artifact = [name \in AssetNames |-> artifact[name]], Verifies(artifact),
         NEW download \in Downloads, Verifies(download)
  PROVE  \A name \in SubjectNames : download[name] = artifact[name]
<1> SUFFICES ASSUME NEW name \in SubjectNames
             PROVE  download[name] = artifact[name]
  OBVIOUS
<1> DEFINE sums == "SHA256SUMS"
<1>2. name # sums /\ name \in AssetNames
  BY NamesInDist
<1>3. CASE download[sums] = artifact[sums]
  <2>1. PICK i \in DOMAIN artifact[sums] : artifact[sums][i].name = name
    BY DEF Verifies, SumsVerify
  <2> QED
    BY <1>3, <2>1 DEF Verifies, SumsVerify
<1>4. CASE download[sums] # artifact[sums]
  <2>1. PICK held : download = [artifact EXCEPT ![sums] = held]
    BY <1>4, NamesInDist DEF Downloads
  <2> QED
    BY <1>2, <2>1
<1> QED
  BY <1>3, <1>4

\* The lines of a download that was verified are those of its files.
LEMMA DownloadSums ==
  ASSUME artifact = [name \in AssetNames |-> artifact[name]], IsLines(artifact["SHA256SUMS"]),
         NEW download \in Downloads, Verifies(download)
  PROVE  SumsAreTrue(download)
<1> DEFINE lines == download["SHA256SUMS"]
<1>1. lines # Damaged /\ lines # Absent
  BY NamesInDist DEF Verifies, SumsVerify, HasExactly
<1>2. IsLines(lines)
  <2>1. lines = artifact["SHA256SUMS"] \/ lines \in Cut(artifact["SHA256SUMS"])
    BY <1>1, NamesInDist DEF Downloads
  <2> QED
    BY <2>1, CutIsLines
<1>3. /\ {lines[i].name : i \in DOMAIN lines} = SubjectNames
      /\ \A i \in DOMAIN lines : lines[i].digest = download[lines[i].name]
  BY DEF Verifies, SumsVerify
<1>4. \A i \in DOMAIN lines : lines[i] = [name |-> lines[i].name, digest |-> download[lines[i].name]]
  BY <1>2, <1>3 DEF IsLines
<1> HIDE DEF lines
<1>5. {lines[i] : i \in DOMAIN lines} = {[name |-> name, digest |-> download[name]] : name \in SubjectNames}
  <2> DEFINE line(name) == [name |-> name, digest |-> download[name]]
  <2>1. \A i \in DOMAIN lines : lines[i] = line(lines[i].name) /\ lines[i].name \in SubjectNames
    BY <1>3, <1>4
  <2>2. \A name \in SubjectNames : \E i \in DOMAIN lines : lines[i] = line(name)
    BY <1>3, <1>4
  <2> HIDE DEF line
  <2>3. {lines[i] : i \in DOMAIN lines} = {line(name) : name \in SubjectNames}
    BY <2>1, <2>2
  <2> QED
    BY <2>3 DEF line
<1> QED
  BY <1>5 DEF SumsAreTrue, lines

\* What a job goes on with after it verified its download is sound.
LEMMA DownloadIsSound ==
  ASSUME ReleaseInv, at \in Uploaded, NEW download \in Downloads, Verifies(download)
  PROVE  IsSound(download)
<1>1. /\ artifact = dist /\ artifact = [name \in AssetNames |-> artifact[name]]
      /\ Verifies(artifact)
  BY DEF ReleaseInv, Shapes, Transfers, Documents, Verified
<1>2. IsLines(artifact["SHA256SUMS"])
  BY <1>1, NamesInDist DEF ReleaseInv, Shapes, Verifies, HasExactly
<1>3. /\ download["wheel"] = artifact["wheel"] /\ download["sdist"] = artifact["sdist"]
      /\ download["SBOM.spdx.json"] = artifact["SBOM.spdx.json"]
  BY <1>1, NamesInDist, DownloadAgrees
<1>4. SumsAreTrue(download)
  BY <1>1, <1>2, DownloadSums
<1>5. BillIsTrue(download)
  <2>1. BillFits(download["SBOM.spdx.json"], download["wheel"], install)
    BY <1>1, <1>3 DEF ReleaseInv, Documents, Replaced, Verified
  <2>2. Valid(download["SBOM.spdx.json"])
    BY DEF Verifies, BillValid
  <2> QED
    BY <2>1, <2>2, FittingIsTrue
<1>6. UnpacksWhole(download["wheel"].listing) /\ UnpacksWhole(download["sdist"].listing)
  BY <1>1, <1>3 DEF ReleaseInv, Archives, Audited, Installed, Replaced, Verified
<1> QED
  BY <1>4, <1>5, <1>6 DEF IsSound, Verifies

-----------------------------------------------------------------------------
(* The steps. *)

\* How a step's name orders it among the others.
USE DEF Steps, Built, Audited, Installed, Replaced, Verified, Uploaded

\* Before the first step there is nothing.
LEMMA ReleaseInit == Init => ReleaseInv
BY NamesInDist DEF Init, NoFiles, ReleaseInv, Shapes, Archives, Environment,
       Documents, Transfers, Attestations

\* The build puts a wheel and a source distribution into a new directory.
LEMMA BuildKeepsInv == ReleaseInv /\ Build => ReleaseInv'
<1> SUFFICES ASSUME ReleaseInv, Build PROVE ReleaseInv'
  OBVIOUS
<1>1. PICK build \in Builds : dist' = [NoFiles EXCEPT !["wheel"] = build.wheel, !["sdist"] = build.sdist]
  BY DEF Build
<1>2. /\ dist' = [name \in AssetNames |-> dist'[name]] /\ dist'["SHA256SUMS"] = Absent
      /\ dist'["wheel"] = build.wheel /\ dist'["sdist"] = build.sdist
  BY <1>1, NamesInDist DEF NoFiles
<1> QED
  BY <1>2 DEF Build, ReleaseInv, Shapes, Archives, Environment, Documents, Transfers, Attestations

\* What passes the audit unpacks whole.
LEMMA AuditKeepsInv == ReleaseInv /\ Audit => ReleaseInv'
<1> SUFFICES ASSUME ReleaseInv, Audit PROVE ReleaseInv'
  OBVIOUS
<1>1. PICK build \in Builds : dist["wheel"] = build.wheel /\ dist["sdist"] = build.sdist
  BY DEF Audit, ReleaseInv, Archives
<1>2. at' = "install" => UnpacksWhole(dist["wheel"].listing) /\ UnpacksWhole(dist["sdist"].listing)
  BY <1>1, InputsAssumption, AcceptedUnpacksWhole DEF Audit, SourceAccepted
<1>3. at' \in {"install", "refused"}
  BY DEF Audit
<1>4. Shapes' /\ Environment' /\ Documents' /\ Transfers' /\ Attestations'
  BY <1>3 DEF Audit, ReleaseInv, Shapes, Environment, Documents, Transfers, Attestations
<1>5. Archives'
  BY <1>1, <1>2, <1>3 DEF Audit, Archives, UnpacksWhole
<1> QED
  BY <1>4, <1>5 DEF ReleaseInv

\* The environment that was there before, or one that pip leaves of the wheel.
LEMMA InstallKeepsInv == ReleaseInv /\ Install => ReleaseInv'
<1> SUFFICES ASSUME ReleaseInv, Install PROVE ReleaseInv'
  OBVIOUS
<1>1. Environment'
  <2>1. PICK build \in Builds : dist["wheel"] = build.wheel
    BY DEF Install, ReleaseInv, Archives
  <2>2. install' \in Venvs
    BY <2>1 DEF Install, ReleaseInv, Environment, Venvs, Wheels
  <2> QED
    BY <2>2 DEF Environment
<1>2. Shapes' /\ Archives' /\ Documents' /\ Transfers' /\ Attestations'
  BY DEF Install, ReleaseInv, Shapes, Archives, Documents, Transfers, Attestations
<1> QED
  BY <1>1, <1>2 DEF ReleaseInv

\* What Syft writes is a document.
LEMMA ScanKeepsInv == ReleaseInv /\ Scan => ReleaseInv'
<1> SUFFICES ASSUME ReleaseInv, Scan PROVE ReleaseInv'
  OBVIOUS
<1>1. /\ dist' = [name \in AssetNames |-> dist'[name]]
      /\ dist'["SBOM.spdx.json"] = scanned'
      /\ \A name \in AssetNames : name # "SBOM.spdx.json" => dist'[name] = dist[name]
  BY NamesInDist DEF Scan, ReleaseInv, Shapes
<1>2. IsBill(scanned')
  BY VenvShape DEF Scan, ReleaseInv, Environment
<1>3. Shapes' /\ Archives' /\ Environment'
  BY <1>1, NamesInDist DEF Scan, ReleaseInv, Shapes, Archives, Environment
<1>4. Documents' /\ Transfers' /\ Attestations'
  BY <1>1, <1>2 DEF Scan, Documents, Transfers, Attestations
<1> QED
  BY <1>3, <1>4 DEF ReleaseInv

\* What binding makes fits, in the temporary file.
LEMMA BindKeepsInv == ReleaseInv /\ Bind => ReleaseInv'
<1> SUFFICES ASSUME ReleaseInv, Bind PROVE ReleaseInv'
  OBVIOUS
<1>1. BillFits(temporary', dist["wheel"], install)
  BY BoundFits DEF Bind, ReleaseInv, Environment, Documents
<1>2. Shapes' /\ Archives' /\ Environment'
  BY DEF Bind, ReleaseInv, Shapes, Archives, Environment
<1>3. Documents' /\ Transfers' /\ Attestations'
  BY <1>1 DEF Bind, ReleaseInv, Documents, Transfers, Attestations
<1> QED
  BY <1>2, <1>3 DEF ReleaseInv

\* The document that fits comes into its place.
LEMMA ReplaceKeepsInv == ReleaseInv /\ Replace => ReleaseInv'
<1> SUFFICES ASSUME ReleaseInv, Replace PROVE ReleaseInv'
  OBVIOUS
<1>1. /\ dist' = [name \in AssetNames |-> dist'[name]]
      /\ dist'["SBOM.spdx.json"] = temporary
      /\ \A name \in AssetNames \ {"SBOM.spdx.json"} : dist'[name] = dist[name]
  BY NamesInDist DEF Replace, ReleaseInv, Shapes
<1>2. Shapes' /\ Archives' /\ Environment'
  BY <1>1, NamesInDist DEF Replace, ReleaseInv, Shapes, Archives, Environment
<1>3. Documents' /\ Transfers' /\ Attestations'
  BY <1>1, NamesInDist DEF Replace, ReleaseInv, Documents, Transfers, Attestations
<1> QED
  BY <1>2, <1>3 DEF ReleaseInv

\* SHA256SUMS is created, and then has its lines.
LEMMA SumsKeepInv == ReleaseInv /\ (OpenSums \/ WriteLines) => ReleaseInv'
<1> SUFFICES ASSUME ReleaseInv, OpenSums \/ WriteLines PROVE ReleaseInv'
  OBVIOUS
<1>1. /\ dist' = [name \in AssetNames |-> dist'[name]]
      /\ dist'["SHA256SUMS"] \in {dist["SHA256SUMS"], <<>>, Lines(dist)}
      /\ \A name \in AssetNames : name # "SHA256SUMS" => dist'[name] = dist[name]
  BY NamesInDist DEF OpenSums, WriteLines, ReleaseInv, Shapes
<1>2. /\ at \in {"checksums", "lines"} /\ at' \in {"lines", "verify", "refused"}
      /\ UNCHANGED <<install, artifact, here, attested, released, public>>
  BY DEF OpenSums, WriteLines, Refuse
<1>3. Shapes'
  BY <1>1, <1>2, WrittenIsLines DEF ReleaseInv, Shapes
<1>4. Archives' /\ Environment'
  BY <1>1, <1>2, NamesInDist DEF ReleaseInv, Archives, Environment
<1>5. Documents' /\ Transfers' /\ Attestations'
  BY <1>1, <1>2, NamesInDist DEF ReleaseInv, Documents, Transfers, Attestations
<1> QED
  BY <1>3, <1>4, <1>5 DEF ReleaseInv

\* Steps that only look, or that refuse.
LEMMA LookingKeepsInv == ReleaseInv /\ (BindRefused \/ Validate \/ Verify) => ReleaseInv'
<1> SUFFICES ASSUME ReleaseInv, BindRefused \/ Validate \/ Verify PROVE ReleaseInv'
  OBVIOUS
<1>1. /\ UNCHANGED <<dist, install, artifact, here, attested, released, public>>
      /\ \/ at' = "refused"
         \/ at = "validate" /\ at' = "checksums"
         \/ at = "verify" /\ at' = "upload" /\ Verifies(dist)
  BY DEF BindRefused, Validate, Verify, Refuse
<1>2. Shapes' /\ Archives' /\ Environment'
  BY <1>1 DEF ReleaseInv, Shapes, Archives, Environment
<1>3. Documents' /\ Transfers' /\ Attestations'
  BY <1>1 DEF ReleaseInv, Documents, Transfers, Attestations
<1> QED
  BY <1>2, <1>3 DEF ReleaseInv

\* The upload takes dist as it was verified.
LEMMA UploadKeepsInv == ReleaseInv /\ Upload => ReleaseInv'
<1> SUFFICES ASSUME ReleaseInv, Upload PROVE ReleaseInv'
  OBVIOUS
<1>1. Shapes' /\ Archives' /\ Environment' /\ Documents'
  BY DEF Upload, ReleaseInv, Shapes, Archives, Environment, Documents
<1>2. at' = IF public THEN "provenance" ELSE "publish"
  BY DEF Upload
<1>3. Transfers' /\ Attestations'
  BY <1>2 DEF Upload, Transfers, Attestations
<1> QED
  BY <1>1, <1>3 DEF ReleaseInv

\* A download is one of those that may come of what was uploaded.
LEMMA DownloadKeepsInv == ReleaseInv /\ (DownloadForProvenance \/ DownloadForRelease) => ReleaseInv'
<1> SUFFICES ASSUME ReleaseInv, DownloadForProvenance \/ DownloadForRelease PROVE ReleaseInv'
  OBVIOUS
<1>1. /\ UNCHANGED <<dist, install, artifact, attested, released, public>> /\ here' \in Downloads
      /\ \/ at = "provenance" /\ at' = "attest"
         \/ at = "publish" /\ at' = "create"
  BY DEF DownloadForProvenance, DownloadForRelease, Download
<1>2. Downloads' = Downloads
  BY <1>1 DEF Downloads
<1>3. Shapes' /\ Archives' /\ Environment' /\ Documents'
  BY <1>1 DEF ReleaseInv, Shapes, Archives, Environment, Documents
<1>4. Transfers' /\ Attestations'
  BY <1>1, <1>2 DEF ReleaseInv, Transfers, Attestations
<1> QED
  BY <1>3, <1>4 DEF ReleaseInv

\* What is attested are the contents that were uploaded.
LEMMA AttestKeepsInv == ReleaseInv /\ Attest => ReleaseInv'
<1> SUFFICES ASSUME ReleaseInv, Attest PROVE ReleaseInv'
  OBVIOUS
<1>1. /\ UNCHANGED <<dist, install, artifact, here, released, public>> /\ at = "attest"
      /\ at' \in {"publish", "refused"} /\ (at' = "publish" => Verifies(here))
  BY DEF Attest, Refuse
<1>2. Downloads' = Downloads
  BY <1>1 DEF Downloads
<1>3. Shapes' /\ Archives' /\ Environment' /\ Documents'
  BY <1>1 DEF ReleaseInv, Shapes, Archives, Environment, Documents
<1>4. Transfers'
  BY <1>1, <1>2 DEF ReleaseInv, Transfers
<1>5. Attestations'
  <2> SUFFICES ASSUME at' = "publish"
               PROVE  {[name |-> name, digest |-> artifact[name]] : name \in SubjectNames} \subseteq attested'
    BY <1>1 DEF Attestations
  <2>1. Verifies(here) /\ here \in Downloads
    BY <1>1 DEF ReleaseInv, Transfers
  <2>2. /\ artifact = [name \in AssetNames |-> artifact[name]] /\ Verifies(artifact)
        /\ IsLines(artifact["SHA256SUMS"])
    BY <1>1, NamesInDist DEF ReleaseInv, Shapes, Documents, Transfers, Verifies, HasExactly
  <2>3. SumsAreTrue(here)
    BY <2>1, <2>2, DownloadSums
  <2>4. \A name \in SubjectNames : here[name] = artifact[name]
    BY <2>1, <2>2, DownloadAgrees
  <2>5. attested' = attested \cup {here["SHA256SUMS"][i] : i \in DOMAIN here["SHA256SUMS"]}
    BY <2>1 DEF Attest
  <2> QED
    BY <2>3, <2>4, <2>5 DEF SumsAreTrue
<1> QED
  BY <1>3, <1>4, <1>5 DEF ReleaseInv

\* What is released is a download that verified.
LEMMA CreateKeepsInv == ReleaseInv /\ Create => ReleaseInv'
<1> SUFFICES ASSUME ReleaseInv, Create PROVE ReleaseInv'
  OBVIOUS
<1>1. /\ UNCHANGED <<dist, install, artifact, here, attested, public>> /\ at = "create"
      /\ at' \in {"done", "refused"} /\ (at' = "done" => Verifies(here) /\ released' = here)
  BY DEF Create, Refuse
<1>2. Downloads' = Downloads
  BY <1>1 DEF Downloads
<1>3. Shapes' /\ Archives' /\ Environment' /\ Documents'
  BY <1>1 DEF ReleaseInv, Shapes, Archives, Environment, Documents
<1>4. Transfers' /\ Attestations'
  BY <1>1, <1>2 DEF ReleaseInv, Transfers, Attestations
<1> QED
  BY <1>3, <1>4 DEF ReleaseInv

\* Nothing of what the invariant speaks of changes.
LEMMA UnchangedKeepsInv ==
  ASSUME ReleaseInv, UNCHANGED <<at, dist, temporary, install, artifact, here, attested, released, public>>
  PROVE  ReleaseInv'
<1>1. Shapes' /\ Archives' /\ Environment' /\ Documents'
  BY DEF ReleaseInv, Shapes, Archives, Environment, Documents
<1>2. Downloads' = Downloads
  BY DEF Downloads
<1>3. Transfers' /\ Attestations'
  BY <1>2 DEF ReleaseInv, Transfers, Attestations
<1> QED
  BY <1>1, <1>3 DEF ReleaseInv

\* A command starts over with what was left, and with a new download.
LEMMA RetriesKeepInv ==
  ASSUME ReleaseInv, at' \in FirstSteps(at), at \notin {"refused", "failed", "done"},
         UNCHANGED <<install, artifact, attested, released, public>>,
         here' = IF at \in {"attest", "create"} THEN Nothing ELSE here,
         IF at = "lines" THEN LinesLost ELSE UNCHANGED dist
  PROVE  ReleaseInv'
<1>1. \/ dist' = dist
      \/ /\ at = "lines" /\ dist' = [name \in AssetNames |-> dist'[name]]
         /\ IsLines(dist'["SHA256SUMS"])
         /\ \A name \in AssetNames : name # "SHA256SUMS" => dist'[name] = dist[name]
  <2>1. CASE at = "lines"
    <3>1. PICK lines \in Cut(Lines(dist)) : dist' = [dist EXCEPT !["SHA256SUMS"] = lines]
      BY <2>1 DEF LinesLost
    <3>2. IsLines(lines)
      BY CutIsLines, WrittenIsLines
    <3> QED
      BY <2>1, <3>1, <3>2, NamesInDist DEF ReleaseInv, Shapes
  <2>2. CASE at # "lines"
    BY <2>2
  <2> QED
    BY <2>1, <2>2
<1>2. \/ at' = at /\ at \notin {"replace", "attest", "create"} /\ dist' = dist /\ here' = here
      \/ at \in {"replace", "validate"} /\ at' = "bind" /\ dist' = dist /\ here' = here
      \/ at = "lines" /\ at' = "checksums" /\ here' = here
      \/ at = "attest" /\ at' = "provenance" /\ dist' = dist
      \/ at = "create" /\ at' = "publish" /\ dist' = dist /\ here' = Nothing
  BY <1>1 DEF FirstSteps
<1>3. Shapes' /\ Archives' /\ Environment'
  BY <1>1, <1>2, NamesInDist DEF ReleaseInv, Shapes, Archives, Environment
<1>4. Documents'
  BY <1>1, <1>2, NamesInDist DEF ReleaseInv, Documents, BillFits
<1>5. Transfers' /\ Attestations'
  <2>1. Downloads' = Downloads
    BY DEF Downloads
  <2> QED
    BY <1>2, <2>1 DEF ReleaseInv, Transfers, Attestations
<1> QED
  BY <1>3, <1>4, <1>5 DEF ReleaseInv

\* A release that ends for good, or starts anew, leaves dist and the environment
\* as they may be.
LEMMA StopKeepsInv ==
  ASSUME ReleaseInv, at' \in {"failed", "build"}, install' \in {install, NoInstall},
         UNCHANGED dist \/ LinesLost
  PROVE  ReleaseInv'
<1>1. Shapes'
  <2>1. \A lines \in Cut(Lines(dist)) : IsLines(lines)
    BY CutIsLines, WrittenIsLines
  <2> QED
    BY <2>1, NamesInDist DEF ReleaseInv, Shapes, LinesLost
<1>2. Archives' /\ Environment' /\ Documents' /\ Transfers' /\ Attestations'
  BY DEF ReleaseInv, Archives, Environment, Documents, Transfers, Attestations
<1> QED
  BY <1>1, <1>2 DEF ReleaseInv

\* Whoever is killed, or whose call fails, starts over or stops.
LEMMA InterruptionKeepsInv == ReleaseInv /\ (KilledAndRetried \/ CallFails \/ Restart) => ReleaseInv'
<1> SUFFICES ASSUME ReleaseInv, KilledAndRetried \/ CallFails \/ Restart PROVE ReleaseInv'
  OBVIOUS
<1>1. CASE KilledAndRetried
  BY <1>1, RetriesKeepInv DEF KilledAndRetried
<1>2. CASE CallFails /\ at' # "failed"
  <2>1. /\ at \in {"bind", "replace", "lines"} /\ at' \in FirstSteps(at)
        /\ UNCHANGED <<install, artifact, here, attested, released, public>>
        /\ IF at = "lines" THEN LinesLost ELSE UNCHANGED dist
    BY <1>2 DEF CallFails
  <2> QED
    BY <2>1, RetriesKeepInv
<1>3. CASE CallFails /\ at' = "failed"
  BY <1>3, StopKeepsInv DEF CallFails
<1>4. CASE Restart
  BY <1>4, StopKeepsInv DEF Restart
<1> QED
  BY <1>1, <1>2, <1>3, <1>4

LEMMA ReleaseStep == ReleaseInv /\ [Next]_vars => ReleaseInv'
<1> SUFFICES ASSUME ReleaseInv, [Next]_vars PROVE ReleaseInv'
  OBVIOUS
<1>1. CASE BuildJob
  BY <1>1, BuildKeepsInv, AuditKeepsInv, InstallKeepsInv, ScanKeepsInv, BindKeepsInv, ReplaceKeepsInv,
     SumsKeepInv, LookingKeepsInv, UploadKeepsInv DEF BuildJob
<1>2. CASE PublishingJobs
  BY <1>2, DownloadKeepsInv, AttestKeepsInv, CreateKeepsInv DEF PublishingJobs
<1>3. CASE KilledAndRetried \/ CallFails \/ Restart
  BY <1>3, InterruptionKeepsInv
<1>4. CASE Ended \/ UNCHANGED vars
  <2>1. UNCHANGED vars
    BY <1>4 DEF Ended
  <2> QED
    BY <2>1, UnchangedKeepsInv DEF vars, temps
<1> QED
  BY <1>1, <1>2, <1>3, <1>4 DEF Next

-----------------------------------------------------------------------------
\* What is attested, and what is released, is sound.
LEMMA InvIsSound == ReleaseInv => PublishedIsSound
<1> SUFFICES ASSUME ReleaseInv PROVE PublishedIsSound
  OBVIOUS
<1>1. ASSUME at = "publish", public, here # Nothing
      PROVE  IsSound(here)
  BY <1>1, DownloadIsSound DEF ReleaseInv, Transfers
<1>2. ASSUME at = "done"
      PROVE  /\ IsSound(released)
             /\ public => {[name |-> name, digest |-> released[name]] : name \in SubjectNames} \subseteq attested
  <2>1. released \in Downloads /\ Verifies(released)
    BY <1>2 DEF ReleaseInv, Transfers
  <2>2. IsSound(released)
    BY <1>2, <2>1, DownloadIsSound
  <2>3. artifact = [name \in AssetNames |-> artifact[name]] /\ Verifies(artifact)
    BY <1>2 DEF ReleaseInv, Shapes, Documents, Transfers
  <2>4. \A name \in SubjectNames : released[name] = artifact[name]
    BY <2>1, <2>3, DownloadAgrees
  <2> QED
    BY <1>2, <2>2, <2>4 DEF ReleaseInv, Attestations
<1> QED
  BY <1>1, <1>2 DEF PublishedIsSound

\* Whatever the build, pip and Syft produce, whatever was left over from an
\* earlier attempt, wherever the release is killed and whichever file of a
\* download is bad, what is attested and what is released is four whole files
\* with true checksums, an SBOM of exactly what was installed and archives
\* that unpack whole; and in a public repository it was attested.
THEOREM ReleaseIsSound == Spec => []PublishedIsSound
<1>1. Init => ReleaseInv
  BY ReleaseInit
<1>2. ReleaseInv /\ [Next]_vars => ReleaseInv'
  BY ReleaseStep
<1>3. ReleaseInv => PublishedIsSound
  BY InvIsSound
<1> QED
  BY <1>1, <1>2, <1>3, PTL DEF Spec

-----------------------------------------------------------------------------
(* What is faithful is accepted. *)

\* A list as long as there are values in it has each of them once.
LEMMA EachOnce ==
  ASSUME NEW n \in Nat, NEW f, NEW T, {f[i] : i \in 1 .. n} = T, Cardinality(T) = n
  PROVE  \A i, j \in 1 .. n : f[i] = f[j] => i = j
<1> DEFINE g == [i \in 1 .. n |-> f[i]]
<1>1. g \in Surjection(1 .. n, T)
  BY DEF Surjection
<1>2. IsFiniteSet(1 .. n) /\ Cardinality(1 .. n) = n
  BY FS_Interval
<1> HIDE DEF g
<1>3. g \in Injection(1 .. n, T)
  BY <1>1, <1>2, FS_Surjection
<1>4. \A i, j \in 1 .. n : g[i] = g[j] => i = j
  BY <1>3 DEF Injection, IsInjective
<1> QED
  BY <1>4 DEF g

\* Entries with places of their own fit.
LEMMA FaithfulListingAccepted ==
  ASSUME NEW listing \in Seq(Entries), FaithfulListing(listing)
  PROVE  ListingAccepted(listing)
<1> DEFINE n  == Len(listing)
           of == [i \in 1 .. n |-> Identity(listing[i])]
<1>1. DOMAIN listing = 1 .. n /\ n \in Nat
  OBVIOUS
<1>2. \A i, j \in DOMAIN listing : Identity(listing[i]) = Identity(listing[j]) => i = j
  <2> DEFINE T == {Identity(listing[i]) : i \in DOMAIN listing}
  <2>1. {of[i] : i \in 1 .. n} = T
    BY <1>1
  <2>2. Cardinality(T) = n
    BY DEF FaithfulListing
  <2> HIDE DEF n, of, T
  <2>3. \A i, j \in 1 .. n : of[i] = of[j] => i = j
    BY <1>1, <2>1, <2>2, EachOnce
  <2> QED
    BY <1>1, <2>3 DEF of
<1>3. ASSUME NEW i \in DOMAIN listing
      PROVE  Fits(listing, i)
  <2> SUFFICES ASSUME NEW j \in 1 .. i - 1
               PROVE  /\ Identity(listing[j]) # Identity(listing[i])
                      /\ listing[j].kind = "file" => ~IsStrictPrefix(Identity(listing[j]), Identity(listing[i]))
                      /\ listing[i].kind = "file" => ~IsStrictPrefix(Identity(listing[i]), Identity(listing[j]))
    BY DEF Fits
  <2>1. j \in DOMAIN listing /\ j # i
    BY <1>1
  <2>2. /\ listing[j].kind = "file" => ~IsPrefix(Identity(listing[j]), Identity(listing[i]))
        /\ listing[i].kind = "file" => ~IsPrefix(Identity(listing[i]), Identity(listing[j]))
    BY <2>1, Zenon DEF FaithfulListing, UnpacksWhole
  <2> QED
    BY <1>2, <2>1, <2>2, Zenon DEF IsStrictPrefix
<1> QED
  BY <1>3, Zenon DEF ListingAccepted, FaithfulListing

\* A path below a root, without the root.
LEMMA TailOfRooted ==
  ASSUME NEW S, NEW path \in Seq(S), NEW root
  PROVE  Tail(<<root>> \o path) = path
<1> DEFINE all == S \cup {root}
           whole == <<root>> \o path
<1>1. <<root>> \in Seq(all) /\ Len(<<root>>) = 1 /\ path \in Seq(all)
  OBVIOUS
<1>2. /\ whole \in Seq(all) /\ Len(whole) = 1 + Len(path)
      /\ \A i \in 1 .. 1 + Len(path) : whole[i] = IF i <= 1 THEN <<root>>[i] ELSE path[i - 1]
  <2> HIDE DEF all
  <2> QED
    BY <1>1, ConcatProperties
<1> HIDE DEF all, whole
<1>3. whole # <<>> /\ Len(path) \in Nat
  BY <1>1, <1>2
<1>4. /\ Tail(whole) \in Seq(all) /\ Len(Tail(whole)) = Len(path)
      /\ \A i \in 1 .. Len(Tail(whole)) : Tail(whole)[i] = whole[i + 1]
  BY <1>2, <1>3, HeadTailProperties
<1>5. \A i \in 1 .. Len(path) : Tail(whole)[i] = path[i]
  BY <1>2, <1>3, <1>4
<1> QED
  BY <1>1, <1>4, <1>5, SeqEqual DEF whole

\* A source distribution with one root, and the files required below it.
LEMMA FaithfulSourcePasses ==
  ASSUME NEW build \in Builds, FaithfulSource(build.sdist)
  PROVE  /\ SourceAccepted(build.sdist.listing, Root)
         /\ RequiredSource \subseteq RelativePaths(build.sdist.listing)
<1> DEFINE listing == build.sdist.listing
<1>1. listing \in Seq(Entries)
  BY InputsAssumption
<1>2. /\ FaithfulListing(listing)
      /\ \A i \in DOMAIN listing : Split[listing[i].name][1] = Root
      /\ \A path \in RequiredSource :
           \E i \in DOMAIN listing : listing[i].kind = "file" /\ Split[listing[i].name] = <<Root>> \o path
  BY DEF FaithfulSource
<1> HIDE DEF listing
<1>3. ListingAccepted(listing)
  BY <1>1, <1>2, FaithfulListingAccepted
<1>4. \A i \in DOMAIN listing : Head(Split[listing[i].name]) = Root
  <2> SUFFICES ASSUME NEW i \in DOMAIN listing PROVE Head(Split[listing[i].name]) = Root
    OBVIOUS
  <2> DEFINE name == listing[i].name
  <2>1. name \in Canonical
    BY <1>2 DEF FaithfulListing, EntryAccepted
  <2>2. Split[name] \in Seq(DOMAIN Folded) /\ Split[name] # <<>>
    BY <2>1, EntriesAssumption
  <2>3. Head(Split[name]) = Split[name][1]
    BY <2>2
  <2> QED
    BY <1>2, <2>3
<1>5. Roots(listing) = {Root}
  <2>1. \E i : i \in DOMAIN listing
    BY <1>2, RequiredAssumption
  <2> QED
    BY <1>4, <2>1, Zenon DEF Roots
<1>6. RequiredSource \subseteq RelativePaths(listing)
  <2> SUFFICES ASSUME NEW path \in RequiredSource PROVE path \in RelativePaths(listing)
    OBVIOUS
  <2>1. path \in Seq(DOMAIN Folded) /\ path # <<>>
    BY RequiredAssumption
  <2>2. PICK i \in DOMAIN listing : listing[i].kind = "file" /\ Split[listing[i].name] = <<Root>> \o path
    BY <1>2
  <2>3. Split[listing[i].name] \in FilePaths(listing)
    BY <2>2 DEF FilePaths
  <2>4. Tail(Split[listing[i].name]) = path
    BY <2>1, <2>2, TailOfRooted
  <2> QED
    BY <2>1, <2>3, <2>4 DEF RelativePaths
<1> QED
  BY <1>3, <1>5, <1>6 DEF SourceAccepted, listing

\* A wheel as its format has it passes the audit.
LEMMA FaithfulWheelPasses ==
  ASSUME NEW build \in Builds, FaithfulWheel(build.wheel)
  PROVE  ListingAccepted(build.wheel.listing) /\ Required \subseteq FilePaths(build.wheel.listing)
<1> DEFINE wheel   == build.wheel
           listing == wheel.listing
<1>1. /\ listing \in Seq(Entries)
      /\ {listing[i].name : i \in {k \in DOMAIN listing : listing[k].kind # "directory"}} = Archive(wheel)
  BY InputsAssumption, BuildsAssumption
<1>2. /\ FaithfulListing(listing)
      /\ \A i \in DOMAIN listing : listing[i].kind = "file"
      /\ Required \subseteq {Split[name] : name \in Archive(wheel)}
  BY DEF FaithfulWheel
<1> HIDE DEF wheel, listing
<1>3. ListingAccepted(listing)
  BY <1>1, <1>2, FaithfulListingAccepted
<1>4. ASSUME NEW path \in Required
      PROVE  path \in FilePaths(listing)
  <2>1. PICK name \in Archive(wheel) : Split[name] = path
    BY <1>2
  <2>2. PICK i \in DOMAIN listing : listing[i].name = name
    BY <1>1
  <2> QED
    BY <1>2, <2>1, <2>2 DEF FilePaths
<1> QED
  BY <1>3, <1>4 DEF wheel, listing

\* The rows of a faithful wheel's RECORD.
LEMMA FaithfulWheelAccepted ==
  ASSUME NEW build \in Builds, FaithfulWheel(build.wheel)
  PROVE  WheelAccepted(build.wheel)
<1> DEFINE wheel   == build.wheel
           listing == wheel.listing
           rows    == wheel.rows
           files   == Archive(wheel)
           claim(name) == IF name = Record THEN NoClaim ELSE wheel.files[name]
<1>1. /\ listing \in Seq(Entries)
      /\ rows \in Seq({rows[i] : i \in DOMAIN rows})
  BY InputsAssumption
<1>2. /\ FaithfulListing(listing)
      /\ \A i \in DOMAIN listing : listing[i].kind = "file"
      /\ files \subseteq Members /\ Record \in files /\ files \cap Package # {}
      /\ Len(rows) = Cardinality(files)
      /\ {rows[i] : i \in DOMAIN rows} = {[name |-> name, claim |-> claim(name)] : name \in files}
  BY Zenon DEF FaithfulWheel
<1> HIDE DEF claim, files, rows, listing, wheel
<1>3. \A i, j \in DOMAIN listing : listing[i].name = listing[j].name => i = j
  <2> DEFINE n  == Len(listing)
             of == [i \in 1 .. n |-> Identity(listing[i])]
             T  == {Identity(listing[i]) : i \in DOMAIN listing}
  <2>1. DOMAIN listing = 1 .. n /\ n \in Nat
    BY <1>1
  <2>2. {of[i] : i \in 1 .. n} = T
    BY <2>1
  <2>3. Cardinality(T) = n
    BY <1>2 DEF FaithfulListing
  <2>4. \A i, j \in DOMAIN listing : listing[i].name = listing[j].name => Identity(listing[i]) = Identity(listing[j])
    BY DEF Identity
  <2> HIDE DEF n, of, T
  <2>5. \A i, j \in 1 .. n : of[i] = of[j] => i = j
    BY <2>1, <2>2, <2>3, EachOnce
  <2> QED
    BY <2>1, <2>4, <2>5 DEF of
<1>4. ArchiveAccepted(wheel)
  BY <1>2, <1>3 DEF ArchiveAccepted, listing
<1>5. \A i \in DOMAIN rows : \E name \in files : rows[i] = [name |-> name, claim |-> claim(name)]
  BY <1>2
<1>6. \A i \in DOMAIN rows : rows[i].name \in files /\ rows[i].claim = claim(rows[i].name)
  <2> SUFFICES ASSUME NEW i \in DOMAIN rows PROVE rows[i].name \in files /\ rows[i].claim = claim(rows[i].name)
    OBVIOUS
  <2>1. PICK name \in files : rows[i] = [name |-> name, claim |-> claim(name)]
    BY <1>5
  <2>2. rows[i].name = name /\ rows[i].claim = claim(name)
    BY <2>1
  <2> QED
    BY <2>2
<1>7. \A name \in files : \E i \in DOMAIN rows : rows[i].name = name
  <2> SUFFICES ASSUME NEW name \in files PROVE \E i \in DOMAIN rows : rows[i].name = name
    OBVIOUS
  <2>1. PICK i \in DOMAIN rows : rows[i] = [name |-> name, claim |-> claim(name)]
    BY <1>2
  <2>2. rows[i].name = name
    BY <2>1
  <2> QED
    BY <2>2
<1>8. NamesIn(rows) = files
  BY <1>6, <1>7 DEF NamesIn
<1>9. \A i, j \in DOMAIN rows : rows[i].name = rows[j].name => i = j
  <2> DEFINE n  == Len(rows)
             of == [i \in 1 .. n |-> rows[i].name]
  <2>1. DOMAIN rows = 1 .. n /\ n \in Nat
    BY <1>1
  <2>2. {of[i] : i \in 1 .. n} = files
    BY <1>6, <1>7, <2>1
  <2>3. Cardinality(files) = n
    BY <1>2
  <2> HIDE DEF n, of
  <2>4. \A i, j \in 1 .. n : of[i] = of[j] => i = j
    BY <2>1, <2>2, <2>3, EachOnce
  <2> QED
    BY <2>1, <2>4 DEF of
<1>10. \A i \in DOMAIN rows : WheelRow(wheel, rows[i])
  BY <1>2, <1>6 DEF WheelRow, claim
<1> QED
  BY <1>2, <1>4, <1>8, <1>9, <1>10 DEF WheelAccepted, rows, files, wheel

\* Where the rows of a faithful installation's RECORD lead.
LEMMA FaithfulRowsAccepted ==
  ASSUME NEW wheel, install \in Venvs, FaithfulInstall(wheel), Archive(wheel) \subseteq Members
  PROVE  RowsAccepted(wheel, install)
<1> DEFINE rows == install.rows
<1>1. rows \in Seq(Rows)
  BY InputsAssumption DEF Venvs, Wheels
<1>2. /\ \A path \in Distribution : install.tree[path] \in Contents
      /\ \A name \in Archive(wheel) \ {Record} : install.tree[name] = wheel.files[name]
      /\ Len(rows) = Cardinality(Distribution)
  BY DEF FaithfulInstall
<1>3. /\ \A i \in DOMAIN rows : Place[rows[i].name] \in Distribution
      /\ \A path \in Distribution : \E i \in DOMAIN rows : Place[rows[i].name] = path
  <2>1. {Place[row.name] : row \in {rows[i] : i \in DOMAIN rows}} = Distribution
    BY Zenon DEF FaithfulInstall
  <2> HIDE DEF rows
  <2> QED
    BY <2>1
<1>4. \A i \in DOMAIN rows :
        /\ Place[rows[i].name] \in Members => rows[i].name \in Members
        /\ rows[i].claim \in IF rows[i].name = Record THEN {NoClaim}
                              ELSE IF rows[i].name \in Archive(wheel) THEN {wheel.files[rows[i].name]}
                              ELSE {NoClaim, install.tree[Place[rows[i].name]]}
  BY Zenon DEF FaithfulInstall
<1> HIDE DEF rows
<1>5. /\ Distribution \subseteq Members \cup Expected /\ Absent \notin Distribution
      /\ \A name \in Members : Place[name] = name
  BY PlacesAssumption, SentinelsAssumption DEF Distribution, Present
<1>6. ASSUME NEW i \in DOMAIN rows
      PROVE  /\ Leads(install, rows[i])
             /\ rows[i].name \in Members \/ Place[rows[i].name] \in Expected
             /\ ClaimHolds(wheel, install, rows[i])
  <2>1. Place[rows[i].name] \in Distribution
    BY <1>3
  <2>2. Leads(install, rows[i])
    BY <1>2, <1>5, <2>1 DEF Leads
  <2>3. rows[i].name \in Members \/ Place[rows[i].name] \in Expected
    BY <1>4, <1>5, <2>1
  <2>4. ClaimHolds(wheel, install, rows[i])
    <3>1. CASE rows[i].name = Record
      BY <1>4, <3>1 DEF ClaimHolds
    <3>2. CASE rows[i].name # Record /\ rows[i].name \in Archive(wheel)
      <4>1. rows[i].claim = wheel.files[rows[i].name]
        BY <1>4, <3>2
      <4>2. install.tree[Place[rows[i].name]] = wheel.files[rows[i].name]
        BY <1>2, <1>5, <3>2
      <4> QED
        BY <3>2, <4>1, <4>2 DEF ClaimHolds, InWheel
    <3>3. CASE rows[i].name # Record /\ rows[i].name \notin Archive(wheel)
      BY <1>4, <3>3 DEF ClaimHolds, InWheel
    <3> QED
      BY <3>1, <3>2, <3>3
  <2> QED
    BY <2>2, <2>3, <2>4
<1>7. \A i, j \in DOMAIN rows : Place[rows[i].name] = Place[rows[j].name] => i = j
  <2> DEFINE n  == Len(rows)
             of == [i \in 1 .. n |-> Place[rows[i].name]]
  <2>1. DOMAIN rows = 1 .. n /\ n \in Nat
    BY <1>1
  <2>2. {of[i] : i \in 1 .. n} = Distribution
    BY <1>3, <2>1
  <2>3. Cardinality(Distribution) = n
    BY <1>2
  <2> HIDE DEF n, of
  <2>4. \A i, j \in 1 .. n : of[i] = of[j] => i = j
    BY <2>1, <2>2, <2>3, EachOnce
  <2> QED
    BY <2>1, <2>4 DEF of
<1> QED
  BY <1>6, <1>7 DEF RowsAccepted, rows

\* The RECORD of a faithful installation is complete.
LEMMA FaithfulListsComplete ==
  ASSUME NEW wheel, FaithfulInstall(wheel), Archive(wheel) \subseteq Members, Record \in Archive(wheel)
  PROVE  ListsComplete(wheel, install)
<1> DEFINE rows  == install.rows
           names == NamesIn(rows)
<1>1. Archive(wheel) \subseteq Present(install)
  BY DEF FaithfulInstall
<1>2. {Place[row.name] : row \in {rows[i] : i \in DOMAIN rows}} = Distribution
  BY Zenon DEF FaithfulInstall
<1>3. \A i \in DOMAIN rows : Place[rows[i].name] \in Members => rows[i].name \in Members
  BY Zenon DEF FaithfulInstall
<1>4. /\ \A name \in names : Place[name] \in Distribution /\ (Place[name] \in Members => name \in Members)
      /\ \A path \in Distribution : \E name \in names : Place[name] = path
  <2> HIDE DEF rows
  <2> QED
    BY <1>2, <1>3 DEF NamesIn
<1> HIDE DEF names
<1>5. /\ Distribution = Present(install) \cup Expected /\ Present(install) \subseteq Members
      /\ Expected \cap Members = {} /\ \A name \in Members : Place[name] = name
  BY PlacesAssumption DEF Distribution, Present
<1>6. Present(install) = names \cap Members
  BY <1>4, <1>5
<1>7. {Place[name] : name \in names \ Members} = Expected
  <2>1. \A name \in names \ Members : Place[name] \in Expected
    BY <1>4, <1>5
  <2>2. \A path \in Expected : \E name \in names \ Members : Place[name] = path
    BY <1>4, <1>5
  <2> QED
    BY <2>1, <2>2
<1> QED
  BY <1>1, <1>6, <1>7, Zenon DEF ListsComplete, names

\* A faithful installation of a faithful wheel is accepted.
LEMMA FaithfulInstallationAccepted ==
  ASSUME NEW build \in Builds, install \in Venvs,
         FaithfulWheel(build.wheel), FaithfulInstall(build.wheel)
  PROVE  InstallationAccepted(build.wheel, install)
<1> DEFINE wheel == build.wheel
<1>1. /\ Archive(wheel) \subseteq Members /\ {Record, Metadata} \subseteq Archive(wheel)
      /\ wheel.files[Metadata] \in Named
  BY DEF FaithfulWheel
<1>2. WheelAccepted(wheel)
  BY FaithfulWheelAccepted
<1>3. RowsAccepted(wheel, install) /\ ListsComplete(wheel, install)
  BY <1>1, FaithfulRowsAccepted, FaithfulListsComplete
<1>4. /\ install.twins = 0
      /\ install.tree[Metadata] = wheel.files[Metadata]
      /\ install.tree[Record] \in Contents
  BY <1>1, NamesAssumption DEF FaithfulInstall, Distribution
<1> QED
  BY <1>1, <1>2, <1>3, <1>4 DEF InstallationAccepted, UniqueDistribution

\* The fields that binding leaves, and those that it sets.
LEMMA BoundFields ==
  ASSUME NEW bill, NEW venv, IsBill(bill)
  PROVE  /\ Bound(bill, venv).sound = bill.sound /\ Bound(bill, venv).pinned = bill.pinned
         /\ Bound(bill, venv).distinct = bill.distinct /\ Bound(bill, venv).dangling = bill.dangling
         /\ Bound(bill, venv).packages = bill.packages
         /\ Bound(bill, venv).describes = AtLeastOnce(bill.describes)
         /\ Bound(bill, venv).analyzed = TRUE
         /\ Bound(bill, venv).code = Code([path \in InstalledPaths(venv) |-> venv.tree[path]])
BY DEF Bound, IsBill

LEMMA BoundIsRecord ==
  ASSUME NEW bill, NEW venv
  PROVE  Bound(bill, venv) = [field \in DOMAIN bill |-> Bound(bill, venv)[field]]
BY DEF Bound

\* A document that was bound may be bound again.
LEMMA BoundIsBindable ==
  ASSUME NEW bill, NEW wheel, NEW venv \in Venvs, IsBill(bill), Bindable(bill, wheel, venv)
  PROVE  Bindable(Bound(bill, venv), wheel, venv)
<1> DEFINE bound == Bound(bill, venv)
<1>1. BillFits(bound, wheel, venv)
  BY BoundFits
<1>2. bound.sound = bill.sound /\ bound.distinct = bill.distinct
  BY BoundFields
<1>3. bound.packages = bill.packages /\ bound.dangling = bill.dangling
  BY BoundFields
<1> HIDE DEF bound
<1>4. ASSUME NEW path \in InstalledPaths(venv)
      PROVE  path \in PathsOf(bound)
  <2>1. PICK id \in Contained(bound) : bound.files[id] = [name |-> path, sums |-> venv.tree[path]]
    BY <1>1, Zenon DEF BillFits
  <2>2. bound.files[id].name = path /\ path # NoName /\ id \in FilesOf(bound)
    BY <1>1, <2>1 DEF BillFits, Contained
  <2> QED
    BY <2>2 DEF PathsOf
<1>5. bound.sound /\ bound.distinct
  BY <1>2 DEF Bindable
<1>6. bound.packages = 1 /\ ~bound.dangling
  BY <1>3 DEF Bindable
<1> QED
  BY <1>1, <1>4, <1>5, <1>6 DEF Bindable, BillFits, bound

\* A record whose fields are set to what they are.
LEMMA FieldsKept ==
  ASSUME NEW r, r = [field \in DOMAIN r |-> r[field]],
         NEW f, NEW a, NEW c, NEW d, NEW n,
         f = r.files, a = r.analyzed, c = r.code, d = r.describes, n = r.contains
  PROVE  [r EXCEPT !.files = f, !.analyzed = a, !.code = c, !.describes = d, !.contains = n] = r
OBVIOUS

\* What is bound again stays as it is.
LEMMA BoundTwice ==
  ASSUME NEW bill, NEW wheel, NEW venv \in Venvs, IsBill(bill), Bindable(bill, wheel, venv)
  PROVE  Bound(Bound(bill, venv), venv) = Bound(bill, venv)
<1> DEFINE paths == InstalledPaths(venv)
           bound == Bound(bill, venv)
           again == Bound(bound, venv)
           ours  == {IdOf(bill, path) : path \in paths}
           own   == {IdOf(bound, path) : path \in paths}
<1>1. IsBill(bound)
  BY BoundFits DEF BillFits
<1>2. /\ DOMAIN bound = DOMAIN bill /\ FilesOf(bound) = FilesOf(bill)
      /\ \A id \in FilesOf(bill) : bound.files[id].name = bill.files[id].name
  BY DEF Bound, FilesOf, IsBill
<1>3. \A path \in paths : IdOf(bill, path) \in FilesOf(bill) /\ bill.files[IdOf(bill, path)].name = path /\ path # NoName
  BY DEF Bindable, PathsOf, IdOf
<1>4. \A path \in paths : IdOf(bound, path) \in FilesOf(bill) /\ bill.files[IdOf(bound, path)].name = path
  <2> SUFFICES ASSUME NEW path \in paths
               PROVE  IdOf(bound, path) \in FilesOf(bill) /\ bill.files[IdOf(bound, path)].name = path
    OBVIOUS
  <2>1. \E id \in FilesOf(bound) : bound.files[id].name = path
    BY <1>2, <1>3
  <2>2. IdOf(bound, path) \in FilesOf(bound) /\ bound.files[IdOf(bound, path)].name = path
    BY <2>1 DEF IdOf
  <2> QED
    BY <1>2, <2>2
<1>5. \A path \in paths : IdOf(bound, path) = IdOf(bill, path)
  BY <1>3, <1>4 DEF Bindable, UniquePaths
<1>6. own = ours
  BY <1>5
<1>7. bound.code = Code([path \in paths |-> venv.tree[path]])
  BY BoundFields, Zenon
<1>8. bound.describes = AtLeastOnce(bill.describes)
  BY BoundFields, Zenon
<1>9. bound.analyzed = TRUE
  BY BoundFields, Zenon
<1>10. bound.files = [id \in FilesOf(bill) |->
                       IF id \in ours
                         THEN [bill.files[id] EXCEPT !.sums = venv.tree[bill.files[id].name]]
                         ELSE bill.files[id]]
  BY DEF Bound, IsBill
<1>11. bound.contains = [id \in FilesOf(bill) |->
                          IF id \in ours THEN AtLeastOnce(bill.contains[id]) ELSE bill.contains[id]]
  BY DEF Bound, IsBill
<1>12. bound = [field \in DOMAIN bound |-> bound[field]]
  BY <1>2, BoundIsRecord, Zenon
<1>13. again = [bound EXCEPT
                 !.files = [id \in FilesOf(bound) |->
                              IF id \in own
                                THEN [bound.files[id] EXCEPT !.sums = venv.tree[bound.files[id].name]]
                                ELSE bound.files[id]],
                 !.analyzed = TRUE,
                 !.code = Code([path \in paths |-> venv.tree[path]]),
                 !.describes = AtLeastOnce(bound.describes),
                 !.contains = [id \in FilesOf(bound) |->
                                 IF id \in own THEN AtLeastOnce(bound.contains[id]) ELSE bound.contains[id]]]
  BY DEF Bound
<1>14. IsBill(bill)
  OBVIOUS
<1> HIDE DEF paths, bound, again, ours, own
<1>15. bound.files = [id \in FilesOf(bound) |->
                        IF id \in own
                          THEN [bound.files[id] EXCEPT !.sums = venv.tree[bound.files[id].name]]
                          ELSE bound.files[id]]
  <2> DEFINE Kept(id) == IF id \in own
                           THEN [bound.files[id] EXCEPT !.sums = venv.tree[bound.files[id].name]]
                           ELSE bound.files[id]
  <2> SUFFICES ASSUME NEW id \in FilesOf(bill) PROVE bound.files[id] = Kept(id)
    <3> HIDE DEF Kept
    <3>1. bound.files = [id \in FilesOf(bill) |-> bound.files[id]]
      BY <1>1, <1>2 DEF IsBill
    <3>2. \A id \in FilesOf(bill) : bound.files[id] = Kept(id)
      OBVIOUS
    <3>3. bound.files = [id \in FilesOf(bound) |-> Kept(id)]
      BY <1>2, <3>1, <3>2
    <3> QED
      BY <3>3 DEF Kept
  <2>1. CASE id \in ours
    <3>1. bound.files[id] = [bill.files[id] EXCEPT !.sums = venv.tree[bill.files[id].name]]
      BY <1>10, <2>1
    <3>2. bill.files[id] = [name |-> bill.files[id].name, sums |-> bill.files[id].sums]
      BY <1>14 DEF IsBill
    <3>3. bound.files[id] = [name |-> bill.files[id].name, sums |-> venv.tree[bill.files[id].name]]
      BY <3>1, <3>2
    <3>4. [bound.files[id] EXCEPT !.sums = venv.tree[bound.files[id].name]] = bound.files[id]
      BY <3>3
    <3> QED
      BY <1>6, <2>1, <3>4
  <2>2. CASE id \notin ours
    BY <1>6, <2>2
  <2> QED
    BY <2>1, <2>2
<1>16. bound.describes = AtLeastOnce(bound.describes)
  <2>1. bill.describes \in Nat
    BY <1>14 DEF IsBill
  <2> QED
    BY <1>8, <2>1 DEF AtLeastOnce
<1>17. bound.contains = [id \in FilesOf(bound) |->
                           IF id \in own THEN AtLeastOnce(bound.contains[id]) ELSE bound.contains[id]]
  <2>1. \A id \in FilesOf(bill) : bill.contains[id] \in Nat
    BY <1>14 DEF IsBill
  <2>2. \A id \in FilesOf(bill) : id \in ours => bound.contains[id] = AtLeastOnce(bound.contains[id])
    BY <1>11, <2>1 DEF AtLeastOnce
  <2>3. bound.contains = [id \in FilesOf(bill) |-> bound.contains[id]]
    BY <1>11
  <2>4. bound.contains = [id \in FilesOf(bill) |->
                           IF id \in ours THEN AtLeastOnce(bound.contains[id]) ELSE bound.contains[id]]
    BY <2>2, <2>3
  <2> QED
    BY <1>2, <1>6, <2>4
<1>18. again = bound
  <2> DEFINE f == [id \in FilesOf(bound) |->
                     IF id \in own
                       THEN [bound.files[id] EXCEPT !.sums = venv.tree[bound.files[id].name]]
                       ELSE bound.files[id]]
             c == Code([path \in paths |-> venv.tree[path]])
             d == AtLeastOnce(bound.describes)
             n == [id \in FilesOf(bound) |->
                     IF id \in own THEN AtLeastOnce(bound.contains[id]) ELSE bound.contains[id]]
  <2>1. f = bound.files /\ c = bound.code /\ d = bound.describes /\ n = bound.contains
    BY <1>7, <1>15, <1>16, <1>17, Zenon
  <2>2. again = [bound EXCEPT !.files = f, !.analyzed = TRUE, !.code = c, !.describes = d, !.contains = n]
    BY <1>13, Zenon
  <2> HIDE DEF f, c, d, n
  <2>3. \A t : t = bound.analyzed
          => [bound EXCEPT !.files = f, !.analyzed = t, !.code = c, !.describes = d, !.contains = n] = bound
    BY <1>12, <2>1, FieldsKept
  <2> QED
    BY <1>9, <2>2, <2>3, Zenon
<1> QED
  BY <1>18 DEF again, bound

\* A faithful document may be bound.
LEMMA FaithfulBillBindable ==
  ASSUME NEW wheel, InstallationAccepted(wheel, install), FaithfulBill
  PROVE  Bindable(scanned, wheel, install)
BY InstalledIsDistribution DEF FaithfulBill, Bindable

\* The verification code of a bound document is that of what it contains.
LEMMA CodesAgree ==
  ASSUME NEW S, NEW P, IsFiniteSet(S), NEW sums, NEW held, NEW of \in Bijection(S, P),
         \A id \in S : sums[id] = held[of[id]]
  PROVE  Code([path \in P |-> held[path]]) = Code([id \in S |-> sums[id]])
<1> DEFINE left  == [path \in P |-> held[path]]
           right == [id \in S |-> sums[id]]
<1>1. ASSUME NEW c \in Contents
      PROVE  Cardinality({path \in DOMAIN left : left[path] = c}) = Cardinality({id \in DOMAIN right : right[id] = c})
  <2> DEFINE A == {id \in S : sums[id] = c}
             B == {path \in P : held[path] = c}
             g == [id \in A |-> of[id]]
  <2>1. /\ \A id \in S : of[id] \in P
        /\ \A i, j \in S : of[i] = of[j] => i = j
        /\ \A path \in P : \E id \in S : of[id] = path
    BY DEF Bijection, Injection, Surjection, IsInjective
  <2>2. \A id \in A : g[id] \in B
    BY <2>1
  <2>3. \A i, j \in A : g[i] = g[j] => i = j
    BY <2>1
  <2>4. \A path \in B : \E id \in A : g[id] = path
    BY <2>1
  <2>5. g = [id \in A |-> g[id]] /\ IsFiniteSet(A)
    BY FS_Subset
  <2>6. {path \in DOMAIN left : left[path] = c} = B
    OBVIOUS
  <2>7. {id \in DOMAIN right : right[id] = c} = A
    OBVIOUS
  <2> HIDE DEF A, B, g, left, right
  <2>8. g \in Bijection(A, B)
    BY <2>2, <2>3, <2>4, <2>5 DEF Bijection, Injection, Surjection, IsInjective
  <2>9. Cardinality(B) = Cardinality(A)
    BY <2>5, <2>8, FS_Bijection DEF ExistsBijection
  <2> QED
    BY <2>6, <2>7, <2>9
<1> HIDE DEF left, right
<1>2. Code(left) = Code(right)
  BY <1>1 DEF Code
<1> QED
  BY <1>2 DEF left, right

\* A faithful document is valid once it is bound.
LEMMA FaithfulBillValid ==
  ASSUME NEW wheel, install \in Venvs, IsBill(scanned), Bindable(scanned, wheel, install), FaithfulBill
  PROVE  Valid(Bound(scanned, install))
<1> DEFINE paths == InstalledPaths(install)
           bound == Bound(scanned, install)
           ours  == {IdOf(scanned, path) : path \in paths}
<1>1. /\ bound.sound = scanned.sound /\ bound.pinned = scanned.pinned
      /\ bound.distinct = scanned.distinct /\ bound.dangling = scanned.dangling
  BY BoundFields, Zenon
<1>2. /\ bound.packages = scanned.packages /\ bound.describes = AtLeastOnce(scanned.describes)
      /\ bound.analyzed = TRUE /\ bound.code = Code([path \in paths |-> install.tree[path]])
  BY BoundFields, Zenon
<1>3. bound.contains = [id \in FilesOf(scanned) |->
                          IF id \in ours THEN AtLeastOnce(scanned.contains[id]) ELSE scanned.contains[id]]
  BY DEF Bound, IsBill
<1>4. /\ FilesOf(bound) = FilesOf(scanned)
      /\ \A id \in FilesOf(scanned) : id \in ours => bound.files[id].sums = install.tree[scanned.files[id].name]
  BY DEF Bound, FilesOf, IsBill
<1>5. paths = Distribution /\ InstallationAccepted(wheel, install) /\ IsFiniteSet(paths)
  BY InstalledIsDistribution, VenvShape DEF Bindable
<1>6. \A path \in paths : IdOf(scanned, path) \in FilesOf(scanned) /\ scanned.files[IdOf(scanned, path)].name = path /\ path # NoName
  BY DEF Bindable, PathsOf, IdOf
<1>7. scanned.contains \in [FilesOf(scanned) -> Nat] /\ scanned.describes \in Nat
  BY DEF IsBill
<1>8. \A id \in FilesOf(scanned) : id \notin ours => scanned.contains[id] = 0
  <2> SUFFICES ASSUME NEW id \in FilesOf(scanned), scanned.contains[id] # 0 PROVE id \in ours
    OBVIOUS
  <2>1. scanned.files[id].name \in paths
    BY <1>5, <1>7 DEF FaithfulBill
  <2>2. id = IdOf(scanned, scanned.files[id].name)
    BY <1>6, <2>1 DEF Bindable, UniquePaths
  <2> QED
    BY <2>1, <2>2
<1>9. \A id \in FilesOf(scanned) : scanned.contains[id] <= 1
  BY <1>7 DEF FaithfulBill
<1>10. paths # {}
  <2>1. Record \in NamesIn(install.rows)
    BY <1>5 DEF InstallationAccepted, ListsComplete
  <2> QED
    BY <2>1 DEF InstalledPaths
<1>11. \A path \in paths : install.tree[path] \in Contents
  BY <1>5 DEF InstallationAccepted, RowsAccepted, Leads, InstalledPaths, NamesIn
<1>12. ours \subseteq FilesOf(scanned)
  BY <1>6
<1>13. \A id \in ours : scanned.files[id].name \in paths /\ id = IdOf(scanned, scanned.files[id].name)
  BY <1>6
<1>14. FaithfulBill /\ IsBill(scanned)
  OBVIOUS
<1>15. IsFiniteSet(ours)
  <2>1. IsFiniteSet(FilesOf(scanned))
    BY DEF IsBill
  <2> QED
    BY <1>12, <2>1, FS_Subset
<1>16. \A path \in paths : IdOf(scanned, path) \in ours
  OBVIOUS
<1> HIDE DEF bound, ours, paths
<1>17. bound.describes = 1
  BY <1>2, <1>7, <1>14 DEF FaithfulBill, AtLeastOnce
<1>18. \A id \in FilesOf(bound) : bound.contains[id] <= 1
  BY <1>3, <1>4, <1>7, <1>9 DEF AtLeastOnce
<1>19. Contained(bound) = ours
  BY <1>3, <1>4, <1>7, <1>8, <1>12 DEF Contained, AtLeastOnce
<1>20. \A id \in ours : bound.files[id].sums = install.tree[scanned.files[id].name]
  BY <1>4, <1>12
<1>21. \A id \in Contained(bound) : bound.files[id].sums \in Contents
  BY <1>11, <1>13, <1>19, <1>20
<1>22. bound.code = Code([id \in Contained(bound) |-> bound.files[id].sums])
  <2> DEFINE of   == [id \in ours |-> scanned.files[id].name]
             sums == [id \in ours |-> bound.files[id].sums]
  <2>1. of \in Bijection(ours, paths)
    <3>1. \A id \in ours : of[id] \in paths
      BY <1>13
    <3>2. \A i, j \in ours : of[i] = of[j] => i = j
      BY <1>13
    <3>3. \A path \in paths : \E id \in ours : of[id] = path
      BY <1>6, <1>16
    <3>4. of = [id \in ours |-> of[id]]
      OBVIOUS
    <3> HIDE DEF of
    <3> QED
      BY <3>1, <3>2, <3>3, <3>4 DEF Bijection, Injection, Surjection, IsInjective
  <2>2. \A id \in ours : sums[id] = install.tree[of[id]]
    BY <1>20
  <2>3. sums = [id \in ours |-> sums[id]] /\ sums = [id \in Contained(bound) |-> bound.files[id].sums]
    BY <1>19
  <2> HIDE DEF of, sums
  <2>4. Code([path \in paths |-> install.tree[path]]) = Code([id \in ours |-> sums[id]])
    BY <1>15, <2>1, <2>2, CodesAgree
  <2>5. Code([path \in paths |-> install.tree[path]]) = Code(sums)
    BY <2>3, <2>4
  <2> QED
    BY <1>2, <2>3, <2>5
<1>23. bound.sound /\ bound.pinned /\ bound.distinct /\ ~bound.dangling
  BY <1>1, <1>14, Zenon DEF FaithfulBill
<1>24. bound.packages = 1
  BY <1>2, <1>14 DEF FaithfulBill
<1>25. Contained(bound) # {}
  BY <1>10, <1>16, <1>19
<1> QED
  BY <1>2, <1>17, <1>18, <1>21, <1>22, <1>23, <1>24, <1>25 DEF Valid, bound

-----------------------------------------------------------------------------
(* Which document is bound, and which lines SHA256SUMS has. *)

WasBound(bill) == Bindable(scanned, dist["wheel"], install) /\ bill = Bound(scanned, install)

\* The document is Syft's, as Syft wrote it or bound to the installation; bound
\* again, it is the one that was bound before.  Only while it is bound there is a
\* temporary file of a call, and none that a call left once SHA256SUMS is opened.
Origins ==
  /\ at \in {"bind", "replace"} \cup Replaced => scanned \in Scans(install)
  /\ at \in {"bind", "replace"} => dist["SBOM.spdx.json"] = scanned \/ WasBound(dist["SBOM.spdx.json"])
  /\ at = "replace" => WasBound(temporary)
  /\ at \in Replaced => WasBound(dist["SBOM.spdx.json"])
  /\ at # "replace" => temporary = Absent
  /\ at \in {"lines", "verify"} => ~orphaned

\* SHA256SUMS has all its lines from the call that writes them on; when it is to
\* be created there is none, or one that a killed call left unfinished.
SumsInOrder ==
  /\ at \in {"audit", "install", "scan", "bind", "replace", "validate"} => dist["SHA256SUMS"] = Absent
  /\ at = "checksums" => dist["SHA256SUMS"] = Absent \/ dist["SHA256SUMS"] # Lines(dist)
  /\ at \in {"checksums", "lines", "verify"} => BillValid(dist)
  /\ at \in {"verify"} \cup Verified => dist["SHA256SUMS"] = Lines(dist)

\* What is not as it should be, of a release that is refused.
Excused ==
  \/ ~FaithfulSource(dist["sdist"])
  \/ ~FaithfulWheel(dist["wheel"])
  \/ ~FaithfulInstall(dist["wheel"])
  \/ ~FaithfulBill
  \/ Remains
  \/ here # Nothing /\ (here # artifact \/ released # Nothing)

RefusalInv == ReleaseInv /\ Origins /\ SumsInOrder /\ RefusalsAreReal

\* From the replacement on, what dist has under the names of the subjects.
LEMMA PayloadsInDist ==
  ASSUME ReleaseInv, Origins, at \in Replaced
  PROVE  \A name \in SubjectNames : dist[name] \in Payloads
<1>1. PICK build \in Builds : dist["wheel"] = build.wheel /\ dist["sdist"] = build.sdist
  BY DEF ReleaseInv, Archives
<1>2. dist["wheel"] \in Wheels /\ dist["wheel"] \in Payloads /\ dist["sdist"] \in Payloads
  BY <1>1 DEF Wheels, Payloads
<1>3. install \in Venvs /\ scanned \in Scans(install) /\ Bindable(scanned, dist["wheel"], install)
  BY DEF ReleaseInv, Environment, Origins, WasBound
<1>4. Bound(scanned, install) \in BoundBills
  BY <1>2, <1>3 DEF BoundBills
<1>5. dist["SBOM.spdx.json"] \in Payloads
  BY <1>4 DEF Origins, WasBound, Payloads
<1> QED
  BY <1>2, <1>5, NamesInDist

\* The lines that are written of them.
LEMMA LinesAreSumLines ==
  ASSUME \A name \in SubjectNames : dist[name] \in Payloads
  PROVE  Lines(dist) \in Seq(SumLines) /\ Len(Lines(dist)) = 3 /\ \A i \in 1 .. 3 : Lines(dist)[i].name = Subjects[i]
<1>1. DOMAIN Subjects = 1 .. 3 /\ \A i \in 1 .. 3 : Subjects[i] \in SubjectNames
  BY DEF SubjectNames, Subjects
<1>2. \A i \in 1 .. 3 : [name |-> Subjects[i], digest |-> dist[Subjects[i]]] \in SumLines
  BY <1>1 DEF SumLines
<1>3. Lines(dist) = [i \in 1 .. 3 |-> [name |-> Subjects[i], digest |-> dist[Subjects[i]]]]
  BY <1>1 DEF Lines
<1>4. Lines(dist) \in Seq(SumLines)
  BY <1>2, <1>3, IsASeq
<1> QED
  BY <1>3, <1>4

\* What is cut off from them: lines as well, but not the same.
LEMMA CutSumLines ==
  ASSUME NEW lines \in Seq(SumLines), NEW cut \in Cut(lines),
         \A i \in DOMAIN lines : lines[i].name \in SubjectNames
  PROVE  cut \in Seq(SumLines) /\ cut # lines
<1> DEFINE front(i) == SubSeq(lines, 1, i)
<1>1. DOMAIN lines = 1 .. Len(lines) /\ Len(lines) \in Nat /\ \A i \in 1 .. Len(lines) : lines[i] \in SumLines
  OBVIOUS
<1>2. ASSUME NEW i \in 0 .. Len(lines)
      PROVE  /\ front(i) \in Seq(SumLines) /\ Len(front(i)) = i
             /\ \A k \in 1 .. i : front(i)[k] = lines[k]
  <2>1. 1 \in Int /\ i \in Int /\ \A k \in 1 .. i : lines[k] \in SumLines
    BY <1>1
  <2>2. /\ front(i) \in Seq(SumLines)
        /\ Len(front(i)) = IF 1 <= i THEN i - 1 + 1 ELSE 0
        /\ \A k \in 1 .. i - 1 + 1 : front(i)[k] = lines[1 + k - 1]
    BY <2>1, SubSeqProperties
  <2> HIDE DEF front
  <2> QED
    BY <1>1, <2>2
<1>3. PICK i \in DOMAIN lines : cut \in {front(i - 1), [front(i) EXCEPT ![i].name = Torn]}
  BY DEF Cut
<1>4. i \in 1 .. Len(lines) /\ i \in 0 .. Len(lines) /\ i - 1 \in 0 .. Len(lines)
  BY <1>1
<1> HIDE DEF front
<1>5. CASE cut = front(i - 1)
  BY <1>1, <1>2, <1>4, <1>5
<1>6. CASE cut = [front(i) EXCEPT ![i].name = Torn]
  <2> DEFINE line == lines[i]
             torn == [line EXCEPT !.name = Torn]
  <2>1. front(i) \in Seq(SumLines) /\ Len(front(i)) = i /\ front(i)[i] = line
    BY <1>2, <1>4
  <2>2. line \in SumLines
    BY <1>1, <1>4
  <2> HIDE DEF line
  <2>3. torn \in SumLines /\ torn.name = Torn
    BY <2>2 DEF SumLines
  <2>4. cut = [front(i) EXCEPT ![i] = torn]
    BY <1>6, <2>1
  <2> HIDE DEF torn
  <2>5. cut \in Seq(SumLines) /\ cut[i] = torn
    BY <1>4, <2>1, <2>3, <2>4, ExceptSeq
  <2>6. cut[i].name = Torn /\ lines[i].name \in SubjectNames
    BY <1>3, <2>3, <2>5
  <2> QED
    BY <2>5, <2>6, SentinelsAssumption
<1> QED
  BY <1>3, <1>5, <1>6

\* Lines cut off from those of dist are no file that is missing.
LEMMA LostLines ==
  ASSUME \A name \in SubjectNames : dist[name] \in Payloads, NEW cut \in Cut(Lines(dist))
  PROVE  cut \in Seq(SumLines) /\ cut # Lines(dist)
<1>1. /\ Lines(dist) \in Seq(SumLines) /\ Len(Lines(dist)) = 3
      /\ \A i \in 1 .. 3 : Lines(dist)[i].name = Subjects[i]
  BY LinesAreSumLines
<1>2. \A i \in 1 .. 3 : Subjects[i] \in SubjectNames
  BY DEF SubjectNames, Subjects
<1>3. \A i \in DOMAIN Lines(dist) : Lines(dist)[i].name \in SubjectNames
  BY <1>1, <1>2
<1> QED
  BY <1>1, <1>3, CutSumLines

\* dist verifies once its checksums are written.
LEMMA WrittenVerifies ==
  ASSUME ReleaseInv, Origins, SumsInOrder, at = "verify"
  PROVE  DistHasExactly(AssetNames) /\ Verifies(dist)
<1>1. \A name \in SubjectNames : dist[name] \in Payloads
  BY PayloadsInDist
<1>2. Lines(dist) \in Seq(SumLines)
  BY <1>1, LinesAreSumLines
<1>3. dist["SHA256SUMS"] = Lines(dist) /\ temporary = Absent /\ ~orphaned /\ BillValid(dist)
  BY DEF Origins, SumsInOrder
<1>4. \A name \in AssetNames : dist[name] # Absent
  BY <1>1, <1>2, <1>3, NamesInDist, SentinelsAssumption
<1>5. HasExactly(dist, AssetNames)
  BY <1>4 DEF HasExactly
<1>6. SumsVerify(dist)
  <2> DEFINE lines == Lines(dist)
  <2>1. lines # Damaged
    BY <1>2, SentinelsAssumption
  <2>2. /\ DOMAIN lines = 1 .. 3
        /\ \A i \in 1 .. 3 : lines[i].name = Subjects[i] /\ lines[i].digest = dist[Subjects[i]]
    BY DEF Lines, Subjects
  <2>3. Subjects[1] = "SBOM.spdx.json" /\ Subjects[2] = "wheel" /\ Subjects[3] = "sdist"
    BY DEF Subjects
  <2> HIDE DEF lines
  <2>4. \A i \in 1 .. 3 : i = 1 \/ i = 2 \/ i = 3
    OBVIOUS
  <2>5. \A i, j \in 1 .. 3 : Subjects[i] = Subjects[j] => i = j
    BY <2>3, <2>4
  <2>6. {lines[i].name : i \in DOMAIN lines} = SubjectNames
    <3>1. \A i \in DOMAIN lines : lines[i].name \in SubjectNames
      BY <2>2, <2>3, <2>4, NamesInDist
    <3>2. \A name \in SubjectNames : \E i \in DOMAIN lines : lines[i].name = name
      BY <2>2, <2>3, NamesInDist
    <3> QED
      BY <3>1, <3>2
  <2> QED
    BY <1>3, <2>1, <2>2, <2>5, <2>6 DEF SumsVerify, lines
<1> QED
  BY <1>3, <1>5, <1>6 DEF Verifies, DistHasExactly

\* A download is something.
LEMMA DownloadIsSomething ==
  ASSUME ReleaseInv, Origins, SumsInOrder, at \in Uploaded, NEW download \in Downloads
  PROVE  download # Nothing
<1> DEFINE all == Payloads \cup Seq(SumLines) \cup {Absent, Damaged}
<1>1. artifact = dist /\ dist = [name \in AssetNames |-> dist[name]]
  BY DEF ReleaseInv, Transfers, Shapes
<1>2. \A name \in SubjectNames : dist[name] \in Payloads
  BY PayloadsInDist
<1>3. dist["SHA256SUMS"] = Lines(dist)
  BY DEF SumsInOrder
<1>4. Lines(dist) \in Seq(SumLines) /\ \A cut \in Cut(Lines(dist)) : cut \in Seq(SumLines)
  BY <1>2, LinesAreSumLines, LostLines
<1>5. \A name \in AssetNames : dist[name] \in all
  BY <1>2, <1>3, <1>4, NamesInDist
<1>6. \/ download = artifact
      \/ \E name \in AssetNames, held \in {Damaged, Absent} : download = [artifact EXCEPT ![name] = held]
      \/ \E lines \in Cut(artifact["SHA256SUMS"]) : download = [artifact EXCEPT !["SHA256SUMS"] = lines]
  BY DEF Downloads
<1>7. download = artifact \/ \E name, held : held \in all /\ download = [artifact EXCEPT ![name] = held]
  <2>1. {Damaged, Absent} \subseteq all /\ \A lines \in Cut(artifact["SHA256SUMS"]) : lines \in all
    BY <1>1, <1>3, <1>4
  <2> HIDE DEF all
  <2> QED
    BY <1>6, <2>1
<1> HIDE DEF all
<1>8. download \in [AssetNames -> all]
  <2>1. artifact \in [AssetNames -> all]
    BY <1>1, <1>5
  <2> QED
    BY <1>7, <2>1
<1> QED
  BY <1>8, SentinelsAssumption DEF all

-----------------------------------------------------------------------------
(* No command refuses what is as it should be. *)

LEMMA AuditExcused ==
  ASSUME ReleaseInv, Audit, at' = "refused"
  PROVE  Excused
<1>1. PICK build \in Builds : dist["wheel"] = build.wheel /\ dist["sdist"] = build.sdist
  BY DEF Audit, ReleaseInv, Archives
<1> SUFFICES ASSUME FaithfulSource(dist["sdist"]), FaithfulWheel(dist["wheel"])
             PROVE  FALSE
  BY DEF Excused
<1>2. /\ SourceAccepted(dist["sdist"].listing, Root) /\ RequiredSource \subseteq RelativePaths(dist["sdist"].listing)
      /\ ListingAccepted(dist["wheel"].listing) /\ Required \subseteq FilePaths(dist["wheel"].listing)
  BY <1>1, FaithfulSourcePasses, FaithfulWheelPasses
<1> QED
  BY <1>2 DEF Audit

\* What binding needs it finds, in Syft's document and in the one that is bound.
LEMMA BindingExcused ==
  ASSUME ReleaseInv, Origins, BindRefused
  PROVE  Excused
<1>1. PICK build \in Builds : dist["wheel"] = build.wheel
  BY DEF BindRefused, ReleaseInv, Archives
<1>2. install \in Venvs /\ scanned \in Scans(install)
  BY DEF BindRefused, ReleaseInv, Environment, Origins
<1>3. IsBill(scanned)
  BY <1>2, VenvShape
<1>4. ~Bindable(dist["SBOM.spdx.json"], dist["wheel"], install)
  BY DEF BindRefused
<1>5. CASE WasBound(dist["SBOM.spdx.json"])
  BY <1>2, <1>3, <1>4, <1>5, BoundIsBindable DEF WasBound
<1>6. CASE dist["SBOM.spdx.json"] = scanned
  <2> SUFFICES ASSUME FaithfulWheel(dist["wheel"]), FaithfulInstall(dist["wheel"]), FaithfulBill
               PROVE  FALSE
    BY DEF Excused
  <2>1. InstallationAccepted(dist["wheel"], install)
    BY <1>1, <1>2, FaithfulInstallationAccepted
  <2> QED
    BY <1>4, <1>6, <2>1, FaithfulBillBindable
<1> QED
  BY <1>5, <1>6 DEF BindRefused, Origins

\* What was bound is valid.
LEMMA ValidationExcused ==
  ASSUME ReleaseInv, Origins, Validate, at' = "refused"
  PROVE  Excused
<1>1. install \in Venvs /\ scanned \in Scans(install)
  BY DEF Validate, ReleaseInv, Environment, Origins
<1>2. Bindable(scanned, dist["wheel"], install) /\ dist["SBOM.spdx.json"] = Bound(scanned, install)
  BY DEF Validate, Origins, WasBound
<1>3. ~BillValid(dist)
  BY DEF Validate
<1>4. IsBill(scanned)
  BY <1>1, VenvShape
<1> SUFFICES ASSUME FaithfulBill
             PROVE  FALSE
  BY DEF Excused
<1>5. Valid(dist["SBOM.spdx.json"])
  BY <1>1, <1>2, <1>4, FaithfulBillValid
<1>6. dist["SBOM.spdx.json"] \in Payloads
  BY PayloadsInDist, NamesInDist DEF Validate
<1> QED
  BY <1>3, <1>5, <1>6, SentinelsAssumption DEF BillValid

\* dist holds anything else only if a killed or failed call left it.
LEMMA ChecksumsExcused ==
  ASSUME ReleaseInv, Origins, SumsInOrder, OpenSums, at' = "refused"
  PROVE  Excused
<1>1. ~DistHasExactly(SubjectNames)
  BY DEF OpenSums
<1>2. /\ temporary = Absent /\ BillValid(dist)
      /\ dist["SHA256SUMS"] = Absent \/ dist["SHA256SUMS"] # Lines(dist)
  BY DEF OpenSums, Origins, SumsInOrder
<1>3. \A name \in SubjectNames : dist[name] # Absent
  BY PayloadsInDist, SentinelsAssumption DEF OpenSums
<1>4. orphaned \/ ~HasExactly(dist, SubjectNames)
  BY <1>1, <1>2 DEF DistHasExactly
<1>5. ~HasExactly(dist, SubjectNames) => dist["SHA256SUMS"] # Absent
  BY <1>3, NamesInDist DEF HasExactly
<1> QED
  BY <1>2, <1>4, <1>5 DEF Excused, Remains

\* A download is refused if it is not what was uploaded, or comes too late.
LEMMA DownloadExcused ==
  ASSUME ReleaseInv, Origins, SumsInOrder, Attest \/ Create, at' = "refused"
  PROVE  Excused
<1>1. at \in {"attest", "create"} /\ (~Verifies(here) \/ released # Nothing)
  BY DEF Attest, Create
<1>2. here \in Downloads /\ artifact = dist /\ Verifies(dist)
  BY <1>1 DEF ReleaseInv, Transfers, Documents
<1>3. here # Nothing
  BY <1>1, <1>2, DownloadIsSomething
<1>4. here # artifact \/ released # Nothing
  BY <1>1, <1>2
<1> QED
  BY <1>3, <1>4 DEF Excused

\* What excused a refusal still does.
LEMMA ExcuseStays ==
  ASSUME Excused, UNCHANGED <<dist, orphaned, install, scanned, here, artifact, released>>
  PROVE  Excused'
<1>1. Distribution' = Distribution
  BY DEF Distribution
<1>2. FaithfulInstall(dist["wheel"])' <=> FaithfulInstall(dist["wheel"])
  BY <1>1 DEF FaithfulInstall
<1>3. FaithfulBill' <=> FaithfulBill
  BY <1>1 DEF FaithfulBill
<1>4. Remains' <=> Remains
  BY DEF Remains, Lines, BillValid
<1>5. /\ FaithfulSource(dist["sdist"])' <=> FaithfulSource(dist["sdist"])
      /\ FaithfulWheel(dist["wheel"])' <=> FaithfulWheel(dist["wheel"])
  OBVIOUS
<1> QED
  BY <1>2, <1>3, <1>4, <1>5 DEF Excused

\* So every refusal is excused.
LEMMA RefusalIsExcused ==
  ASSUME RefusalInv, [Next]_vars
  PROVE  RefusalsAreReal'
<1> SUFFICES ASSUME at' = "refused"
             PROVE  Excused'
  BY DEF RefusalsAreReal, Excused
<1>1. ReleaseInv /\ Origins /\ SumsInOrder
  BY DEF RefusalInv
<1>2. at = "refused" => Excused
  BY DEF RefusalInv, RefusalsAreReal, Excused
<1>3. CASE Audit
  BY <1>1, <1>3, AuditExcused, ExcuseStays DEF Audit, temps
<1>4. CASE BindRefused
  BY <1>1, <1>4, BindingExcused, ExcuseStays DEF BindRefused, temps
<1>5. CASE Validate
  BY <1>1, <1>5, ValidationExcused, ExcuseStays DEF Validate, temps
<1>6. CASE OpenSums
  BY <1>1, <1>6, ChecksumsExcused, ExcuseStays DEF OpenSums, temps
<1>7. CASE Verify
  BY <1>1, <1>7, WrittenVerifies DEF Verify
<1>8. CASE Attest \/ Create
  BY <1>1, <1>8, DownloadExcused, ExcuseStays DEF Attest, Create, temps
<1>9. CASE Ended \/ UNCHANGED vars
  BY <1>2, <1>9, ExcuseStays DEF Ended, vars, temps
<1>10. ~(Build \/ Install \/ Scan \/ Bind \/ Replace \/ WriteLines \/ Upload)
  BY DEF Build, Install, Scan, Bind, Replace, WriteLines, Upload
<1>11. ~(DownloadForProvenance \/ DownloadForRelease \/ KilledAndRetried \/ CallFails \/ Restart)
  BY DEF DownloadForProvenance, DownloadForRelease, Download, KilledAndRetried, FirstSteps, CallFails, Restart
<1> QED
  BY <1>3, <1>4, <1>5, <1>6, <1>7, <1>8, <1>9, <1>10, <1>11 DEF Next, BuildJob, PublishingJobs

-----------------------------------------------------------------------------
(* The document and the checksums, step by step. *)

LEMMA BindKeepsOrigins == ReleaseInv /\ Origins /\ SumsInOrder /\ Bind => Origins' /\ SumsInOrder'
<1> SUFFICES ASSUME ReleaseInv, Origins, SumsInOrder, Bind PROVE Origins' /\ SumsInOrder'
  OBVIOUS
<1>1. temporary' = Bound(dist["SBOM.spdx.json"], install) /\ dist' = dist
  BY DEF Bind
<1>2. /\ at = "bind" /\ at' = "replace" /\ UNCHANGED <<install, scanned>>
      /\ Bindable(dist["SBOM.spdx.json"], dist["wheel"], install)
  BY DEF Bind
<1>3. install \in Venvs /\ scanned \in Scans(install) /\ IsBill(scanned)
  BY <1>2, VenvShape DEF ReleaseInv, Environment, Origins
<1>4. Bindable(scanned, dist["wheel"], install) /\ temporary' = Bound(scanned, install)
  <2>1. CASE dist["SBOM.spdx.json"] = scanned
    BY <1>1, <1>2, <2>1
  <2>2. CASE WasBound(dist["SBOM.spdx.json"])
    BY <1>1, <1>3, <2>2, BoundTwice DEF WasBound
  <2> QED
    BY <1>2, <2>1, <2>2 DEF Origins
<1>5. Origins'
  BY <1>1, <1>2, <1>3, <1>4 DEF Origins, WasBound
<1>6. SumsInOrder'
  BY <1>1, <1>2 DEF SumsInOrder
<1> QED
  BY <1>5, <1>6

LEMMA ReplaceKeepsOrigins == ReleaseInv /\ Origins /\ SumsInOrder /\ Replace => Origins' /\ SumsInOrder'
<1> SUFFICES ASSUME ReleaseInv, Origins, SumsInOrder, Replace PROVE Origins' /\ SumsInOrder'
  OBVIOUS
<1>1. /\ dist'["SBOM.spdx.json"] = temporary /\ temporary' = Absent
      /\ \A name \in AssetNames \ {"SBOM.spdx.json"} : dist'[name] = dist[name]
  BY NamesInDist DEF Replace, ReleaseInv, Shapes
<1>2. dist'["wheel"] = dist["wheel"] /\ dist'["SHA256SUMS"] = dist["SHA256SUMS"]
  BY <1>1, NamesInDist
<1>3. at = "replace" /\ at' = "validate" /\ UNCHANGED <<install, scanned>>
  BY DEF Replace
<1>4. Origins'
  BY <1>1, <1>2, <1>3 DEF Origins, WasBound
<1>5. SumsInOrder'
  BY <1>2, <1>3 DEF SumsInOrder
<1> QED
  BY <1>4, <1>5

\* The steps before the document is bound.
LEMMA PreparingKeepsOrigins ==
  ReleaseInv /\ Origins /\ SumsInOrder /\ (Build \/ Audit \/ Install \/ Scan) => Origins' /\ SumsInOrder'
<1> SUFFICES ASSUME ReleaseInv, Origins, SumsInOrder, Build \/ Audit \/ Install \/ Scan
             PROVE  Origins' /\ SumsInOrder'
  OBVIOUS
<1>1. CASE Build
  <2>1. PICK build \in Builds : dist' = [NoFiles EXCEPT !["wheel"] = build.wheel, !["sdist"] = build.sdist]
    BY <1>1 DEF Build
  <2>2. at' = "audit" /\ dist'["SHA256SUMS"] = Absent /\ temporary' = Absent
    BY <1>1, <2>1, NamesInDist DEF Build, NoFiles
  <2> QED
    BY <2>2 DEF Origins, SumsInOrder
<1>2. CASE Audit
  <2>1. at = "audit" /\ at' \in {"install", "refused"} /\ dist' = dist /\ temporary' = temporary
    BY <1>2 DEF Audit, temps
  <2> QED
    BY <2>1 DEF Origins, SumsInOrder
<1>3. CASE Install
  <2>1. at = "install" /\ at' = "scan" /\ dist' = dist /\ temporary' = temporary
    BY <1>3 DEF Install, temps
  <2> QED
    BY <2>1 DEF Origins, SumsInOrder
<1>4. CASE Scan
  <2>1. /\ at = "scan" /\ at' = "bind" /\ install' = install /\ scanned' \in Scans(install)
        /\ dist'["SBOM.spdx.json"] = scanned' /\ dist'["SHA256SUMS"] = dist["SHA256SUMS"]
        /\ temporary' = temporary
    BY <1>4, NamesInDist DEF Scan, ReleaseInv, Shapes, temps
  <2>2. Origins'
    BY <2>1 DEF Origins
  <2> QED
    BY <2>1, <2>2 DEF SumsInOrder
<1> QED
  BY <1>1, <1>2, <1>3, <1>4

\* Steps that only look, or only take what dist holds elsewhere.
LEMMA LookingKeepsOrigins ==
  Origins /\ SumsInOrder /\ (BindRefused \/ Validate \/ Verify \/ Upload \/ PublishingJobs)
    => Origins' /\ SumsInOrder'
<1> SUFFICES ASSUME Origins, SumsInOrder, BindRefused \/ Validate \/ Verify \/ Upload \/ PublishingJobs
             PROVE  Origins' /\ SumsInOrder'
  OBVIOUS
<1>1. /\ UNCHANGED <<dist, temporary, orphaned, install, scanned>> /\ at # "replace"
      /\ \/ at' = "refused"
         \/ at = "validate" /\ at' = "checksums" /\ BillValid(dist)
         \/ at = "verify" /\ at' = "upload"
         \/ at \in Verified /\ at' \in Uploaded
  BY DEF BindRefused, Validate, Verify, Upload, PublishingJobs, DownloadForProvenance, Attest,
         DownloadForRelease, Create, Download, Refuse, temps
<1>2. Lines(dist)' = Lines(dist) /\ (BillValid(dist)' <=> BillValid(dist))
  BY <1>1 DEF Lines, BillValid
<1>3. Origins'
  BY <1>1 DEF Origins, WasBound
<1>4. SumsInOrder'
  BY <1>1, <1>2 DEF SumsInOrder
<1> QED
  BY <1>3, <1>4

\* While the checksums are written the document stays.
LEMMA SumsKeepOrigins ==
  ReleaseInv /\ Origins /\ SumsInOrder /\ (OpenSums \/ WriteLines) => Origins' /\ SumsInOrder'
<1> SUFFICES ASSUME ReleaseInv, Origins, SumsInOrder, OpenSums \/ WriteLines
             PROVE  Origins' /\ SumsInOrder'
  OBVIOUS
<1>1. /\ UNCHANGED <<install, scanned, temporary, orphaned>> /\ at # "replace"
      /\ \/ at' = "refused"
         \/ at = "checksums" /\ at' = "lines" /\ ~orphaned
         \/ at = "lines" /\ at' = "verify" /\ dist'["SHA256SUMS"] = Lines(dist)
      /\ \A name \in AssetNames : name # "SHA256SUMS" => dist'[name] = dist[name]
  BY NamesInDist DEF OpenSums, WriteLines, Refuse, ReleaseInv, Shapes, DistHasExactly, temps
<1>2. \A name \in SubjectNames : dist'[name] = dist[name]
  BY <1>1, NamesInDist
<1>3. Lines(dist)' = Lines(dist) /\ (BillValid(dist)' <=> BillValid(dist))
  BY <1>2, NamesInDist DEF Lines, Subjects, BillValid
<1>4. Origins'
  BY <1>1, <1>2, NamesInDist DEF Origins, WasBound
<1>5. SumsInOrder'
  BY <1>1, <1>3 DEF SumsInOrder
<1> QED
  BY <1>4, <1>5

\* What is lost of the lines is missed; the document stays, and what a call
\* leaves of a temporary file it leaves before SHA256SUMS is opened.
LEMMA RetriesKeepOrigins ==
  ASSUME ReleaseInv, Origins, SumsInOrder, at' \in FirstSteps(at),
         at \notin {"refused", "failed", "done"}, UNCHANGED <<install, scanned>>,
         temporary' = Absent, at \in {"bind", "replace"} \/ UNCHANGED orphaned,
         IF at = "lines" THEN LinesLost ELSE UNCHANGED dist
  PROVE  Origins' /\ SumsInOrder'
<1>1. CASE at = "lines"
  <2>1. PICK lines \in Cut(Lines(dist)) : dist' = [dist EXCEPT !["SHA256SUMS"] = lines]
    BY <1>1 DEF LinesLost
  <2>2. lines # Lines(dist)
    BY <1>1, PayloadsInDist, LostLines
  <2>3. /\ dist'["SHA256SUMS"] = lines
        /\ \A name \in SubjectNames : dist'[name] = dist[name]
    BY <2>1, NamesInDist DEF ReleaseInv, Shapes
  <2>4. at' = "checksums"
    BY <1>1 DEF FirstSteps
  <2>5. Lines(dist)' = Lines(dist) /\ (BillValid(dist)' <=> BillValid(dist))
    BY <2>3, NamesInDist DEF Lines, Subjects, BillValid
  <2>6. Origins'
    BY <1>1, <2>3, <2>4, NamesInDist DEF Origins, WasBound
  <2>7. SumsInOrder'
    BY <1>1, <2>2, <2>3, <2>4, <2>5 DEF SumsInOrder
  <2> QED
    BY <2>6, <2>7
<1>2. CASE at # "lines"
  <2>1. /\ dist' = dist
        /\ \/ at' = at /\ at # "replace"
           \/ at \in {"replace", "validate"} /\ at' = "bind"
           \/ at \in Uploaded /\ at' \in Uploaded
    BY <1>2 DEF FirstSteps
  <2>2. Lines(dist)' = Lines(dist) /\ (BillValid(dist)' <=> BillValid(dist))
    BY <2>1 DEF Lines, BillValid
  <2>3. Origins'
    BY <2>1 DEF Origins, WasBound
  <2>4. SumsInOrder'
    BY <2>1, <2>2 DEF SumsInOrder
  <2> QED
    BY <2>3, <2>4
<1> QED
  BY <1>1, <1>2

\* Whoever is killed, or whose call fails, starts over or stops.
LEMMA InterruptionKeepsOrigins ==
  ReleaseInv /\ Origins /\ SumsInOrder /\ (KilledAndRetried \/ CallFails \/ Restart)
    => Origins' /\ SumsInOrder'
<1> SUFFICES ASSUME ReleaseInv, Origins, SumsInOrder, KilledAndRetried \/ CallFails \/ Restart
             PROVE  Origins' /\ SumsInOrder'
  OBVIOUS
<1>1. CASE KilledAndRetried
  BY <1>1, RetriesKeepOrigins DEF KilledAndRetried, OrphanLeft
<1>2. CASE CallFails /\ at' # "failed"
  BY <1>2, RetriesKeepOrigins DEF CallFails
<1>3. CASE at' \in {"failed", "build"} /\ temporary' = Absent
  BY <1>3 DEF Origins, SumsInOrder
<1> QED
  BY <1>1, <1>2, <1>3 DEF CallFails, Restart, OrphanLeft

LEMMA StutteringKeepsOrigins == Origins /\ SumsInOrder /\ UNCHANGED vars => Origins' /\ SumsInOrder'
<1> SUFFICES ASSUME Origins, SumsInOrder, UNCHANGED vars PROVE Origins' /\ SumsInOrder'
  OBVIOUS
<1>1. Lines(dist)' = Lines(dist) /\ (BillValid(dist)' <=> BillValid(dist))
  BY DEF vars, Lines, BillValid
<1>2. Origins'
  BY DEF vars, temps, Origins, WasBound
<1>3. SumsInOrder'
  BY <1>1 DEF vars, SumsInOrder
<1> QED
  BY <1>2, <1>3

LEMMA RefusalStep == RefusalInv /\ [Next]_vars => RefusalInv'
<1> SUFFICES ASSUME RefusalInv, [Next]_vars PROVE RefusalInv'
  OBVIOUS
<1>1. ReleaseInv /\ Origins /\ SumsInOrder
  BY DEF RefusalInv
<1>2. ReleaseInv'
  BY <1>1, ReleaseStep
<1>3. RefusalsAreReal'
  BY RefusalIsExcused
<1>4. Origins' /\ SumsInOrder'
  <2>1. CASE BuildJob
    BY <1>1, <2>1, PreparingKeepsOrigins, BindKeepsOrigins, ReplaceKeepsOrigins, LookingKeepsOrigins,
       SumsKeepOrigins DEF BuildJob
  <2>2. CASE PublishingJobs
    BY <1>1, <2>2, LookingKeepsOrigins
  <2>3. CASE KilledAndRetried \/ CallFails \/ Restart
    BY <1>1, <2>3, InterruptionKeepsOrigins
  <2>4. CASE Ended \/ UNCHANGED vars
    BY <1>1, <2>4, StutteringKeepsOrigins DEF Ended
  <2> QED
    BY <2>1, <2>2, <2>3, <2>4 DEF Next
<1> QED
  BY <1>2, <1>3, <1>4 DEF RefusalInv

\* Whatever else the release met, when it is refused an archive, the wheel, its
\* installation or Syft's document is not what it should be, a killed command
\* left remains, a download differs from what was uploaded, or the version is
\* released already.
THEOREM RefusalsHaveReasons == Spec => []RefusalsAreReal
<1>1. Init => RefusalInv
  BY ReleaseInit DEF Init, RefusalInv, Origins, SumsInOrder, RefusalsAreReal
<1>2. RefusalInv /\ [Next]_vars => RefusalInv'
  BY RefusalStep
<1>3. RefusalInv => RefusalsAreReal
  BY DEF RefusalInv
<1> QED
  BY <1>1, <1>2, <1>3, PTL DEF Spec
=============================================================================
