-------------------------- MODULE DistributionAudit --------------------------
(***************************************************************************)
(* What distribution_audit.py accepts as the entries of a wheel or of a    *)
(* source distribution, so that unpacking it is the same everywhere, file  *)
(* systems that ignore case included.                                      *)
(*                                                                         *)
(* A listing is the sequence of the entries of an archive, in its order.   *)
(* An entry is [name, kind, size]; Split divides a name at its slashes,    *)
(* and Folded is what two components have in common that a file system may *)
(* take for one: the case-folded, normalized component.                    *)
(***************************************************************************)
EXTENDS Naturals, Sequences, SequencesExt

CONSTANTS
  Split,      \* the components of each name that an entry may have
  Folded,     \* what each component is, case apart
  Portable,   \* the components that every platform takes as they are
  Canonical,  \* the names that are relative, canonical and short enough
  Kinds,      \* "file", "directory", "link", and what is special, sparse or encrypted
  MaxEntries, \* _MAX_ENTRIES
  MaxEntry,   \* _MAX_ENTRY_BYTES
  MaxTotal    \* _MAX_TOTAL_BYTES

ASSUME EntriesAssumption ==
  /\ {"file", "directory", "link"} \subseteq Kinds
  /\ Canonical \subseteq DOMAIN Split
  /\ \A name \in DOMAIN Split :
       Split[name] \in Seq(DOMAIN Folded) /\ (name \in Canonical => Split[name] # <<>>)
  /\ Portable \subseteq DOMAIN Folded
  /\ MaxEntries \in Nat /\ MaxEntry \in Nat /\ MaxTotal \in Nat

Entries == [name : DOMAIN Split, kind : Kinds, size : Nat]

\* Two entries with one identity have one place.
Identity(entry) ==
  [i \in DOMAIN Split[entry.name] |-> Folded[Split[entry.name][i]]]

\* _archive_path, and the kind and the size of the entry.
EntryAccepted(entry) ==
  /\ entry.name \in Canonical
  /\ \A i \in DOMAIN Split[entry.name] : Split[entry.name][i] \in Portable
  /\ entry.kind \in {"file", "directory"}
  /\ entry.size <= MaxEntry

\* _record_path: an entry has a place of its own, below no file that came
\* before it, and a file has none of them below itself.
Fits(listing, i) ==
  \A j \in 1..i - 1 :
    /\ Identity(listing[j]) # Identity(listing[i])
    /\ listing[j].kind = "file" => ~IsStrictPrefix(Identity(listing[j]), Identity(listing[i]))
    /\ listing[i].kind = "file" => ~IsStrictPrefix(Identity(listing[i]), Identity(listing[j]))

TotalSize(listing) == FoldLeft(LAMBDA sum, entry : sum + entry.size, 0, listing)

\* audit_wheel, and what it has in common with audit_sdist.
ListingAccepted(listing) ==
  /\ Len(listing) <= MaxEntries
  /\ \A i \in DOMAIN listing : EntryAccepted(listing[i]) /\ Fits(listing, i)
  /\ TotalSize(listing) <= MaxTotal

\* The names of the regular files, as their components.
FilePaths(listing) ==
  {Split[listing[i].name] : i \in {k \in DOMAIN listing : listing[k].kind = "file"}}

\* The components by which the names of a source distribution begin.
Roots(listing) == {Head(Split[listing[i].name]) : i \in DOMAIN listing}

\* The files relative to the sole root.
RelativePaths(listing) == {Tail(path) : path \in FilePaths(listing)} \ {<<>>}

\* audit_sdist, with the root that is expected.
SourceAccepted(listing, root) ==
  ListingAccepted(listing) /\ Roots(listing) = {root}
=============================================================================
