---------------------------- MODULE ReportWriter ----------------------------
(***************************************************************************)
(* write_report of _output.py: several invocations of the command line     *)
(* write reports into one directory while other programs change it, any    *)
(* system call may fail, a process may be killed and the machine may lose  *)
(* power.                                                                   *)
(*                                                                         *)
(* A file is an identity (an inode); a directory entry holds a file, a     *)
(* symbolic link (the path it points to) or nothing.  A file's content is  *)
(* abstracted to how many of the Size pieces of its text it holds, and how *)
(* many of those are on disk.                                               *)
(***************************************************************************)
EXTENDS Naturals

CONSTANTS
  Writers,      \* invocations of write_report
  Names,        \* directory entries other than the temporary ones
  Paths,        \* spellings of paths
  Files,        \* file identities, each made at most once
  None,         \* an empty directory entry
  Outsider,     \* owner of the files other programs make
  Unused,       \* owner of the files nobody has made yet
  Size,         \* pieces in a complete report
  Entry,        \* Entry[p]: the directory entry the file system finds for p
  Identity,     \* Identity[p]: NFC and case-folded text of the resolved path p
  Target,       \* Target[w]: the destination of w
  Protected,    \* Protected[w]: the input paths w must not write
  Forced,        \* Forced[w]: w was given --force
  MaxMeddling   \* bound on the changes other programs make

ASSUME SizeAssumption == Size \in Nat \ {0}
ASSUME BoundAssumption == MaxMeddling \in Nat

ASSUME PathAssumption ==
  /\ Entry \in [Paths -> Names]
  /\ Target \in [Writers -> Paths]
  /\ Protected \in [Writers -> SUBSET Paths]
  /\ Forced \in [Writers -> BOOLEAN]

\* Two spellings the file system takes for one entry differ in case or in
\* Unicode normalisation only, which _identity folds away.
ASSUME FoldAssumption ==
  \A p, q \in Paths : Entry[p] = Entry[q] => Identity[p] = Identity[q]

ASSUME DistinctAssumption ==
  /\ None \notin Files \union Paths
  /\ Outsider \notin Writers /\ Unused \notin Writers \union {Outsider}
  /\ Files \intersect Paths = {}

VARIABLES
  dir,          \* what each directory entry holds now
  temp,         \* the file behind the temporary entry of each invocation
  dirDisk,      \* dir as the disk's journal has it
  tempDisk,     \* temp as the disk's journal has it
  owner,        \* who made each file
  written,      \* pieces of its text a reader of the file finds
  durable,      \* pieces of its text that are on disk
  pc,           \* where each invocation is in write_report
  meddled       \* changes other programs have made so far

vars == <<dir, temp, dirDisk, tempDisk, owner, written, durable, pc, meddled>>

Running == {"alias", "exists", "mktemp", "write", "sync", "publish",
            "unlink", "cleanup", "recleanup"}

\* "failed" and "leaked" both leave through an exception and exit code 3; the
\* removal of the temporary file in the finally clause failed in "leaked".
Ended == {"done", "failed", "leaked", "killed"}

Destination(w) == Entry[Target[w]]
Inputs(w) == {Entry[p] : p \in Protected[w]}

\* Path.resolve follows a link; links to links are not modelled.
Resolve(p) == IF dir[Entry[p]] \in Paths THEN dir[Entry[p]] ELSE p
FileAt(p) == dir[Entry[Resolve(p)]]
Exists(p) == FileAt(p) \in Files

Aliases(p, q) ==
  \/ Identity[Resolve(p)] = Identity[Resolve(q)]
  \/ Exists(p) /\ Exists(q) /\ FileAt(p) = FileAt(q)

-----------------------------------------------------------------------------
Init ==
  /\ dir \in [Names -> Files \union {None}]
  /\ owner = [f \in Files |-> IF \E n \in Names : dir[n] = f THEN Outsider ELSE Unused]
  /\ dirDisk = dir
  /\ temp = [w \in Writers |-> None]
  /\ tempDisk = temp
  /\ written = [f \in Files |-> IF owner[f] = Outsider THEN Size ELSE 0]
  /\ durable = written
  /\ pc = [w \in Writers |-> "alias"]
  /\ meddled = 0

Goto(w, from, to) == pc[w] = from /\ pc' = [pc EXCEPT ![w] = to]

files == <<owner, written, durable>>
disk == <<dirDisk, tempDisk>>

\* The destination must not name, link to or share a file with an input.
CheckAlias(w) ==
  /\ Goto(w, "alias",
          IF \E q \in Protected[w] : Aliases(Target[w], q) THEN "failed" ELSE "exists")
  /\ UNCHANGED <<dir, temp, disk, files, meddled>>

\* The early refusal; the destination may still appear afterwards.
CheckExists(w) ==
  /\ Goto(w, "exists",
          IF Exists(Target[w]) /\ ~Forced[w] THEN "failed" ELSE "mktemp")
  /\ UNCHANGED <<dir, temp, disk, files, meddled>>

\* NamedTemporaryFile makes a new file under a name nobody else uses.
MakeTemporary(w) ==
  /\ Goto(w, "mktemp", "write")
  /\ \E f \in Files :
       /\ owner[f] = Unused
       /\ owner' = [owner EXCEPT ![f] = w]
       /\ temp' = [temp EXCEPT ![w] = f]
  /\ UNCHANGED <<dir, disk, written, durable, meddled>>

WritePiece_StopsEarly(w) ==
  /\ Goto(w, "write", "sync")
  /\ written' = [written EXCEPT ![temp[w]] = @ + 1]
  /\ UNCHANGED <<dir, temp, disk, owner, durable, meddled>>

WritePiece(w) ==
  /\ Goto(w, "write", IF written[temp[w]] + 1 = Size THEN "sync" ELSE "write")
  /\ written' = [written EXCEPT ![temp[w]] = @ + 1]
  /\ UNCHANGED <<dir, temp, disk, owner, durable, meddled>>

SyncTemporary_NoFsync(w) ==
  /\ Goto(w, "sync", "publish")
  /\ UNCHANGED <<dir, temp, disk, files, meddled>>

\* flush and os.fsync.
SyncTemporary(w) ==
  /\ Goto(w, "sync", "publish")
  /\ durable' = [durable EXCEPT ![temp[w]] = written[temp[w]]]
  /\ UNCHANGED <<dir, temp, disk, owner, written, meddled>>

\* os.replace: one rename, which swaps the entry and never follows a link.
ReplaceTarget(w) ==
  /\ Forced[w]
  /\ Goto(w, "publish", "unlink")
  /\ dir' = [dir EXCEPT ![Destination(w)] = temp[w]]
  /\ temp' = [temp EXCEPT ![w] = None]
  /\ UNCHANGED <<disk, files, meddled>>

LinkTarget_Overwrites(w) ==
  /\ ~Forced[w]
  /\ Goto(w, "publish", "unlink")
  /\ dir' = [dir EXCEPT ![Destination(w)] = temp[w]]
  /\ UNCHANGED <<temp, disk, files, meddled>>

\* os.link: fails when the entry holds anything, a dangling link included.
LinkTarget(w) ==
  /\ ~Forced[w]
  /\ dir[Destination(w)] = None
  /\ Goto(w, "publish", "unlink")
  /\ dir' = [dir EXCEPT ![Destination(w)] = temp[w]]
  /\ UNCHANGED <<temp, disk, files, meddled>>

LinkRefused_NoFinally(w) ==
  /\ ~Forced[w]
  /\ dir[Destination(w)] # None
  /\ Goto(w, "publish", "failed")
  /\ UNCHANGED <<dir, temp, disk, files, meddled>>

LinkRefused(w) ==
  /\ ~Forced[w]
  /\ dir[Destination(w)] # None
  /\ Goto(w, "publish", "cleanup")
  /\ UNCHANGED <<dir, temp, disk, files, meddled>>

\* temporary.unlink(missing_ok=True) after a publication.
RemoveTemporary(w) ==
  /\ Goto(w, "unlink", "done")
  /\ temp' = [temp EXCEPT ![w] = None]
  /\ UNCHANGED <<dir, disk, files, meddled>>

\* The finally clause while an exception is on its way out.
CleanUp(w) ==
  /\ \/ Goto(w, "cleanup", "failed")
     \/ Goto(w, "recleanup", "failed")
  /\ temp' = [temp EXCEPT ![w] = None]
  /\ UNCHANGED <<dir, disk, files, meddled>>

\* An OSError from whatever call the invocation is in.
CallFails(w) ==
  /\ \/ \E s \in {"alias", "exists", "mktemp"} : Goto(w, s, "failed")
     \/ \E s \in {"write", "sync", "publish"} : Goto(w, s, "cleanup")
     \/ Goto(w, "unlink", "recleanup")
     \/ \E s \in {"cleanup", "recleanup"} : Goto(w, s, "leaked")
  /\ UNCHANGED <<dir, temp, disk, files, meddled>>

Kill(w) ==
  /\ \E s \in Running : Goto(w, s, "killed")
  /\ UNCHANGED <<dir, temp, disk, files, meddled>>

Proceed(w) ==
  \/ CheckAlias(w) \/ CheckExists(w) \/ MakeTemporary(w) \/ WritePiece(w)
  \/ SyncTemporary(w) \/ ReplaceTarget(w) \/ LinkTarget(w) \/ LinkRefused(w)
  \/ RemoveTemporary(w) \/ CleanUp(w)

-----------------------------------------------------------------------------
(***************************************************************************)
(* The surroundings: other programs, the disk and the power supply.        *)
(***************************************************************************)
Outside(n, e) ==
  /\ meddled < MaxMeddling
  /\ meddled' = meddled + 1
  /\ dir' = [dir EXCEPT ![n] = e]

\* Another program removes an entry, makes a hard link or a symbolic link.
OutsideRelink(n) ==
  /\ \E e \in {None} \union {dir[m] : m \in Names}
         \union {p \in Paths : Entry[p] # n /\ dir[Entry[p]] \notin Paths
                               /\ \A m \in Names : dir[m] \in Paths => Entry[dir[m]] # n} :
       e # dir[n] /\ Outside(n, e)
  /\ UNCHANGED <<temp, disk, files, pc>>

\* Another program puts a file of its own there.
OutsideCreate(n) ==
  /\ \E f \in Files :
       /\ owner[f] = Unused
       /\ owner' = [owner EXCEPT ![f] = Outsider]
       /\ written' = [written EXCEPT ![f] = Size]
       /\ durable' = [durable EXCEPT ![f] = Size]
       /\ Outside(n, f)
  /\ UNCHANGED <<temp, disk, pc>>

\* The file system commits its directory journal.
Journal ==
  /\ dirDisk' = dir
  /\ tempDisk' = temp
  /\ UNCHANGED <<dir, temp, files, pc, meddled>>

\* What was not on disk is gone, and so is every process.
PowerLoss ==
  /\ dir' = dirDisk
  /\ temp' = tempDisk
  /\ written' = durable
  /\ pc' = [w \in Writers |-> IF pc[w] \in Running THEN "killed" ELSE pc[w]]
  /\ UNCHANGED <<disk, owner, durable, meddled>>

Next ==
  \/ \E w \in Writers : Proceed(w) \/ CallFails(w) \/ Kill(w)
  \/ \E n \in Names : OutsideRelink(n) \/ OutsideCreate(n)
  \/ Journal
  \/ PowerLoss

Spec == Init /\ [][Next]_vars

-----------------------------------------------------------------------------
(***************************************************************************)
(* Properties.                                                             *)
(***************************************************************************)

\* Every variable stays within its type.
TypeOK ==
  /\ dir \in [Names -> Files \union Paths \union {None}]
  /\ dirDisk \in [Names -> Files \union Paths \union {None}]
  /\ temp \in [Writers -> Files \union {None}]
  /\ tempDisk \in [Writers -> Files \union {None}]
  /\ owner \in [Files -> Writers \union {Outsider, Unused}]
  /\ written \in [Files -> 0 .. Size]
  /\ durable \in [Files -> 0 .. Size]
  /\ pc \in [Writers -> Running \union Ended]
  /\ meddled \in 0 .. MaxMeddling

\* Whoever opens an output name finds a whole report or none of it, at every
\* moment and after a power loss: write_report links or renames only a file
\* whose text is complete and synchronised.
WholeReports ==
  \A n \in Names :
    dir[n] \in Files /\ owner[dir[n]] \in Writers => written[dir[n]] = Size

\* Without --force a report never takes the place of anything, whatever
\* appeared after the early existence test; with it or without, it never changes
\* the entry of an input the invocation was given to protect, however the
\* destination is spelled and whatever other programs link or move after the
\* alias test.
NothingOverwritten ==
  [][\A w \in Writers :
       pc[w] = "publish" /\ pc'[w] = "unlink" =>
         /\ ~Forced[w] => dir[Destination(w)] = None
         /\ \A n \in Inputs(w) : dir'[n] = dir[n]]_vars

\* Of several invocations without --force that race for one entry at most one
\* succeeds, and its report stays or is lost with the power, unless another
\* program changed the directory or --force was given for the entry.
ExclusiveCreation ==
  \A v, w \in Writers :
    /\ meddled = 0
    /\ Destination(v) = Destination(w) /\ pc[w] = "done"
    /\ \A u \in Writers : Destination(u) = Destination(w) => ~Forced[u]
    => /\ v # w => pc[v] \notin {"unlink", "done"}
       /\ dir[Destination(w)] # None => owner[dir[Destination(w)]] = w

\* write_report returns or raises with its temporary file removed, on every
\* path but the failure of that removal.
NoTemporaryLeft ==
  [][\A w \in Writers :
       pc[w] \in Running /\ pc'[w] \in {"done", "failed"} => temp'[w] = None]_vars

\* What a reader finds at an entry: a report for its writer, another program's
\* file for itself.  An unfinished report maps to nothing AtomicPublish allows.
Shown(e) ==
  IF e \notin Files THEN e
  ELSE IF owner[e] = Outsider THEN e
  ELSE IF written[e] = Size THEN owner[e] ELSE Unused

\* How far an invocation has come, as far as AtomicPublish tells.
Status(s) ==
  IF s \in {"unlink", "recleanup"} THEN "published"
  ELSE IF s = "done" THEN "acknowledged"
  ELSE IF s \in Ended THEN "over" ELSE "pending"

\* AtomicPublish has no temporary files: the steps before and after the rename
\* or link are invisible in it.
Abstract == INSTANCE AtomicPublish WITH
  shown  <- [n \in Names |-> Shown(dir[n])],
  stable <- [n \in Names |-> Shown(dirDisk[n])],
  status <- [w \in Writers |-> Status(pc[w])],
  Place <- [w \in Writers |-> Destination(w)],
  OffLimits <- [w \in Writers |-> Inputs(w)]

\* write_report implements the atomic publication.
ImplementsAtomicPublish == Abstract!Spec
=============================================================================
