----------------------------- MODULE ReleaseBill -----------------------------
(***************************************************************************)
(* The release's SPDX document: what bind_installed_wheel makes of the one *)
(* that Syft wrote, and what validate_spdx accepts.                        *)
(*                                                                         *)
(* A document is a record: sound, the shape of the JSON and of its header; *)
(* pinned, whether its creators name the pinned Syft; distinct, whether    *)
(* no two elements share an SPDXID; packages, how many are the release's   *)
(* PyPI package; files, for each file element its path and its checksums;  *)
(* contains and describes, how often each relationship occurs; dangling,   *)
(* whether one leads to an unknown element; analyzed and code, the         *)
(* package's filesAnalyzed and verification code.                          *)
(***************************************************************************)
EXTENDS InstalledWheel

CONSTANTS
  NoName,   \* a file name that leads to no path below the root
  NoSums,   \* not exactly one SHA1 and one SHA256
  NoCode    \* no verification code, or one with excluded files

\* The file elements of a document: those under an id that it uses.
FilesOf(bill) == DOMAIN bill.files

IsBill(bill) ==
  /\ DOMAIN bill = {"sound", "pinned", "distinct", "packages", "files", "contains",
                    "describes", "dangling", "analyzed", "code"}
  /\ IsFiniteSet(FilesOf(bill))
  /\ bill.files = [id \in FilesOf(bill) |-> [name |-> bill.files[id].name, sums |-> bill.files[id].sums]]
  /\ bill.contains \in [FilesOf(bill) -> Nat]
  /\ bill.describes \in Nat

\* The paths that file names lead to, and the element of each.
PathsOf(bill) == {bill.files[id].name : id \in FilesOf(bill)} \ {NoName}

IdOf(bill, path) == CHOOSE id \in FilesOf(bill) : bill.files[id].name = path

UniquePaths(bill) ==
  \A id, other \in FilesOf(bill) :
    bill.files[id].name = bill.files[other].name /\ bill.files[id].name # NoName => id = other

\* The sorted SHA-1 values of some files, as how many files have each.
Code(sums) == [c \in Contents |-> Cardinality({i \in DOMAIN sums : sums[i] = c})]

\* The refusals of bind_installed_wheel.
Bindable(bill, wheel, install) ==
  /\ bill.sound /\ bill.distinct /\ bill.packages = 1
  /\ InstallationAccepted(wheel, install)
  /\ UniquePaths(bill)
  /\ InstalledPaths(install) \subseteq PathsOf(bill)
  /\ ~bill.dangling

\* A relationship is added whether or not it is there.
AtLeastOnce_Appends(count) == count + 1

\* A relationship that is there already is not added again.
AtLeastOnce(count) == IF count = 0 THEN 1 ELSE count

\* The document with the checksums, the code and the relationships of the
\* installed files.
Bound(bill, install) ==
  LET paths == InstalledPaths(install)
      ours  == {IdOf(bill, path) : path \in paths}
  IN  [bill EXCEPT
        !.files = [id \in FilesOf(bill) |->
                     IF id \in ours
                       THEN [bill.files[id] EXCEPT !.sums = install.tree[bill.files[id].name]]
                       ELSE bill.files[id]],
        !.analyzed = TRUE,
        !.code = Code([path \in paths |-> install.tree[path]]),
        !.describes = AtLeastOnce(bill.describes),
        !.contains = [id \in FilesOf(bill) |->
                        IF id \in ours THEN AtLeastOnce(bill.contains[id]) ELSE bill.contains[id]]]

Contained(bill) == {id \in FilesOf(bill) : bill.contains[id] > 0}

\* validate_spdx.
Valid(bill) ==
  /\ bill.sound /\ bill.pinned /\ bill.distinct /\ bill.packages = 1 /\ ~bill.dangling
  /\ bill.describes = 1
  /\ \A id \in FilesOf(bill) : bill.contains[id] <= 1
  /\ Contained(bill) # {}
  /\ \A id \in Contained(bill) : bill.files[id].sums \in Contents
  /\ bill.analyzed
  /\ bill.code = Code([id \in Contained(bill) |-> bill.files[id].sums])
=============================================================================
