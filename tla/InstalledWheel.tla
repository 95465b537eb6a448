---------------------------- MODULE InstalledWheel ----------------------------
(***************************************************************************)
(* What release_artifacts.py accepts as the installation of the release's  *)
(* wheel: _wheel_distribution reads the wheel and its RECORD,              *)
(* _installed_distribution the RECORD that the installer wrote and the     *)
(* files below the installation root.                                      *)
(*                                                                         *)
(* A wheel is [listing, files, rows]: the entries of the archive in their  *)
(* order, the content under each name, the rows of its RECORD.  An         *)
(* installation is [tree, rows, twins]: what each path holds, the rows of  *)
(* the installed RECORD, and how many other directories claim to be the    *)
(* same distribution.  A row pairs a name, as it is spelled, with a claim; *)
(* a digest together with a size stands for the content that has them.     *)
(***************************************************************************)
EXTENDS Naturals, Sequences, FiniteSets

CONSTANTS
  Contents,  \* what a regular file may hold
  Named,     \* the contents that, read as METADATA, name this release
  Package,   \* the names below the package directory
  Info,      \* the names below the .dist-info directory
  Metadata,  \* its METADATA
  Record,    \* its RECORD
  Spellings, \* the other names that a RECORD may spell
  Paths,     \* the paths below the installation root, as installed_name
  Place,     \* the path to which a spelled name leads, or Absent
  Expected,  \* --expected-external-path
  Absent,    \* no such file
  Odd,       \* a link, or anything but a regular file
  NoClaim,   \* neither digest nor size
  BadClaim   \* one without the other, or a malformed one

Members == Package \cup Info

ASSUME NamesAssumption ==
  /\ Metadata \in Info /\ Record \in Info /\ Metadata # Record
  /\ Package \cap Info = {}
  /\ Members \cap Spellings = {}
  /\ Named \subseteq Contents

\* The two directories of the distribution are where their names say, and
\* no external path that the command names is one of theirs.
ASSUME PlacesAssumption ==
  /\ Place \in [Members \cup Spellings -> Paths \cup {Absent}]
  /\ \A name \in Members : Place[name] = name
  /\ Expected \subseteq Paths \ Members

Rows == [name : Members \cup Spellings, claim : Contents \cup {NoClaim, BadClaim}]

NamesIn(rows) == {rows[i].name : i \in DOMAIN rows}

Archive(wheel) == {name \in DOMAIN wheel.files : wheel.files[name] # Absent}

\* A row of the wheel's own RECORD: only RECORD itself goes without a digest.
WheelRow(wheel, row) ==
  /\ row.name \in Members
  /\ row.claim = IF row.name = Record THEN NoClaim ELSE wheel.files[row.name]

\* Every name once and no link.  No directory either: the name of its entry
\* ends in a slash, which a canonical path does not.
ArchiveAccepted(wheel) ==
  LET entries == wheel.listing
  IN  /\ \A i \in DOMAIN entries : entries[i].kind \notin {"link", "directory"}
      /\ \A i, j \in DOMAIN entries : entries[i].name = entries[j].name => i = j

WheelAccepted(wheel) ==
  /\ ArchiveAccepted(wheel)
  /\ \A i, j \in DOMAIN wheel.rows : wheel.rows[i].name = wheel.rows[j].name => i = j
  /\ NamesIn(wheel.rows) = Archive(wheel)
  /\ \A i \in DOMAIN wheel.rows : WheelRow(wheel, wheel.rows[i])
  /\ Record \in Archive(wheel)
  /\ Archive(wheel) \cap Package # {}

\* Exactly one directory has the METADATA of the release.
UniqueDistribution(install) ==
  install.tree[Metadata] \in Named /\ install.twins = 0

\* A row leads, through no link and not out of the root, to a regular file.
Leads(install, row) ==
  Place[row.name] # Absent /\ install.tree[Place[row.name]] \in Contents

InWheel(wheel, name) == name \in Members /\ name \in Archive(wheel)

\* What a row claims against the file it names and, for a file of the wheel,
\* against the wheel.
ClaimHolds(wheel, install, row) ==
  LET held == install.tree[Place[row.name]]
  IN  CASE row.name = Record          -> row.claim = NoClaim
        [] InWheel(wheel, row.name) /\ row.name # Record
                                      -> row.claim = wheel.files[row.name] /\ held = row.claim
        [] OTHER                      -> row.claim \in {NoClaim, held}

\* The files below the two directories, whatever they are.
Present(install) == {path \in Members : install.tree[path] # Absent}

RowsAccepted(wheel, install) ==
  LET rows == install.rows
  IN  /\ \A i \in DOMAIN rows :
           /\ Leads(install, rows[i])
           /\ rows[i].name \in Members \/ Place[rows[i].name] \in Expected
           /\ ClaimHolds(wheel, install, rows[i])
      /\ \A i, j \in DOMAIN rows : Place[rows[i].name] = Place[rows[j].name] => i = j

\* The installed RECORD lists itself, every file of the wheel and exactly the
\* external files expected; the tree holds nothing else.
ListsComplete(wheel, install) ==
  LET names == NamesIn(install.rows)
  IN  /\ Record \in names
      /\ Archive(wheel) \subseteq names
      /\ {Place[name] : name \in names \ Members} = Expected
      /\ Present(install) = names \cap Members

InstallationAccepted(wheel, install) ==
  /\ UniqueDistribution(install)
  /\ install.tree[Record] \in Contents
  /\ WheelAccepted(wheel)
  /\ RowsAccepted(wheel, install)
  /\ ListsComplete(wheel, install)

\* installed_files: what bind_installed_wheel writes into the document.
InstalledPaths(install) == {Place[name] : name \in NamesIn(install.rows)}
=============================================================================
