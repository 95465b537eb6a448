------------------------- MODULE ReportWriterProofs -------------------------
(***************************************************************************)
(* Proofs about ReportWriter for any number of invocations, names, files   *)
(* and outside changes.                                                     *)
(***************************************************************************)
EXTENDS ReportWriter, TLAPS

\* A file reachable by a name was made by somebody, and if it is a report its
\* text is on disk.
Settled(e) ==
  e \in Files => /\ owner[e] # Unused
                 /\ owner[e] \in Writers => durable[e] = Size

\* What holds of the temporary file at each point of write_report.
TemporaryInv(w) ==
  /\ temp[w] # None => owner[temp[w]] = w
  /\ tempDisk[w] # None => owner[tempDisk[w]] = w
  /\ pc[w] \in {"write", "sync", "publish"} => temp[w] # None
  /\ pc[w] \in {"alias", "exists", "mktemp"} => temp[w] = None
  /\ pc[w] = "write" => written[temp[w]] < Size
  /\ pc[w] = "sync" => written[temp[w]] = Size
  /\ pc[w] = "publish" => durable[temp[w]] = Size

\* Once past the alias test, the destination's entry is no input's entry: the
\* test compares folded spellings, so no outside change can undo it.
AliasInv(w) ==
  pc[w] \in {"exists", "mktemp", "write", "sync", "publish"} =>
    Destination(w) \notin Inputs(w)

\* The disk never holds more than was written, and a file nobody made is empty.
DurableWritten ==
  \A f \in Files : durable[f] <= written[f] /\ (owner[f] = Unused => written[f] = 0)
NamesSettled == \A n \in Names : Settled(dir[n]) /\ Settled(dirDisk[n])
TemporariesInv == \A w \in Writers : TemporaryInv(w)
AliasesTested == \A w \in Writers : AliasInv(w)

\* The inductive invariant.
IInv == TypeOK /\ DurableWritten /\ NamesSettled /\ TemporariesInv /\ AliasesTested

-----------------------------------------------------------------------------
\* At the start only other programs' files exist.
LEMMA InitIInv == Init => IInv
<1> SUFFICES ASSUME Init PROVE IInv
  OBVIOUS
<1> USE DEF Init
<1>1. TypeOK
  BY SizeAssumption, BoundAssumption DEF TypeOK, Running
<1>2. DurableWritten
  BY SizeAssumption, DistinctAssumption DEF DurableWritten
<1>3. NamesSettled
  BY DistinctAssumption DEF NamesSettled, Settled
<1>4. TemporariesInv
  BY DEF TemporariesInv, TemporaryInv
<1>5. AliasesTested
  BY DEF AliasesTested, AliasInv
<1> QED
  BY <1>1, <1>2, <1>3, <1>4, <1>5 DEF IInv

\* The alias test fails whenever the destination's entry is an input's entry.
LEMMA SameEntryAliases ==
  ASSUME NEW w \in Writers, Destination(w) \in Inputs(w)
  PROVE  \E q \in Protected[w] : Aliases(Target[w], q)
<1>1. PICK q \in Protected[w] : Entry[Target[w]] = Entry[q]
  BY DEF Destination, Inputs
<1>2. Target[w] \in Paths /\ q \in Paths
  BY PathAssumption
<1>3. Identity[Resolve(Target[w])] = Identity[Resolve(q)]
  BY <1>1, <1>2, FoldAssumption DEF Resolve
<1> QED
  BY <1>3 DEF Aliases

\* Every type is kept.
LEMMA NextTypeOK == IInv /\ [Next]_vars => TypeOK'
<1> SUFFICES ASSUME IInv, [Next]_vars PROVE TypeOK'
  OBVIOUS
<1> USE SizeAssumption, BoundAssumption, DistinctAssumption
<1> USE DEF IInv, TypeOK, Running, Ended, Goto, disk, files
<1>1. ASSUME NEW w \in Writers, CheckAlias(w) PROVE TypeOK'
  BY <1>1 DEF CheckAlias
<1>2. ASSUME NEW w \in Writers, CheckExists(w) PROVE TypeOK'
  BY <1>2 DEF CheckExists
<1>3. ASSUME NEW w \in Writers, MakeTemporary(w) PROVE TypeOK'
  BY <1>3 DEF MakeTemporary
<1>4. ASSUME NEW w \in Writers, WritePiece(w) PROVE TypeOK'
  BY <1>4 DEF WritePiece, TemporariesInv, TemporaryInv
<1>5. ASSUME NEW w \in Writers, SyncTemporary(w) PROVE TypeOK'
  BY <1>5 DEF SyncTemporary, TemporariesInv, TemporaryInv
<1>6. ASSUME NEW w \in Writers, ReplaceTarget(w) PROVE TypeOK'
  BY <1>6 DEF ReplaceTarget
<1>7. ASSUME NEW w \in Writers, LinkTarget(w) PROVE TypeOK'
  BY <1>7 DEF LinkTarget
<1>8. ASSUME NEW w \in Writers, LinkRefused(w) PROVE TypeOK'
  BY <1>8 DEF LinkRefused
<1>9. ASSUME NEW w \in Writers, RemoveTemporary(w) PROVE TypeOK'
  BY <1>9 DEF RemoveTemporary
<1>10. ASSUME NEW w \in Writers, CleanUp(w) PROVE TypeOK'
  BY <1>10 DEF CleanUp
<1>11. ASSUME NEW w \in Writers, CallFails(w) PROVE TypeOK'
  BY <1>11 DEF CallFails
<1>12. ASSUME NEW w \in Writers, Kill(w) PROVE TypeOK'
  BY <1>12 DEF Kill
<1>13. ASSUME NEW n \in Names, OutsideRelink(n) PROVE TypeOK'
  BY <1>13 DEF OutsideRelink, Outside
<1>14. ASSUME NEW n \in Names, OutsideCreate(n) PROVE TypeOK'
  BY <1>14 DEF OutsideCreate, Outside
<1>15. CASE Journal
  BY <1>15 DEF Journal
<1>16. CASE PowerLoss
  BY <1>16 DEF PowerLoss
<1>17. CASE UNCHANGED vars
  BY <1>17 DEF vars
<1> QED
  BY <1>1, <1>2, <1>3, <1>4, <1>5, <1>6, <1>7, <1>8, <1>9, <1>10, <1>11,
     <1>12, <1>13, <1>14, <1>15, <1>16, <1>17 DEF Next, Proceed
\* Only complete, synchronised files reach a name: WritePiece and SyncTemporary
\* touch a file its own invocation has not published yet or one that is
\* complete already, and a power loss falls back to what was synchronised.
LEMMA NextNamesSettled == IInv /\ [Next]_vars => DurableWritten' /\ NamesSettled'
<1> SUFFICES ASSUME IInv, [Next]_vars PROVE DurableWritten' /\ NamesSettled'
  OBVIOUS
<1> USE SizeAssumption, BoundAssumption, DistinctAssumption
<1> USE DEF IInv, TypeOK, Goto, disk, files, DurableWritten, NamesSettled, Settled
<1>1. ASSUME NEW w \in Writers, CheckAlias(w) \/ CheckExists(w) \/ LinkRefused(w)
                                 \/ RemoveTemporary(w) \/ CleanUp(w) \/ CallFails(w) \/ Kill(w)
      PROVE  DurableWritten' /\ NamesSettled'
  BY <1>1 DEF CheckAlias, CheckExists, LinkRefused, RemoveTemporary, CleanUp, CallFails, Kill
<1>2. ASSUME NEW w \in Writers, MakeTemporary(w)
      PROVE  DurableWritten' /\ NamesSettled'
  BY <1>2 DEF MakeTemporary
<1>3. ASSUME NEW w \in Writers, WritePiece(w)
      PROVE  DurableWritten' /\ NamesSettled'
  BY <1>3 DEF WritePiece, TemporariesInv, TemporaryInv
<1>4. ASSUME NEW w \in Writers, SyncTemporary(w)
      PROVE  DurableWritten' /\ NamesSettled'
  BY <1>4 DEF SyncTemporary, TemporariesInv, TemporaryInv
<1>5. ASSUME NEW w \in Writers, ReplaceTarget(w) \/ LinkTarget(w)
      PROVE  DurableWritten' /\ NamesSettled'
  BY <1>5 DEF ReplaceTarget, LinkTarget, TemporariesInv, TemporaryInv
<1>6. ASSUME NEW n \in Names, OutsideRelink(n)
      PROVE  DurableWritten' /\ NamesSettled'
  BY <1>6 DEF OutsideRelink, Outside
<1>7. ASSUME NEW n \in Names, OutsideCreate(n)
      PROVE  DurableWritten' /\ NamesSettled'
  BY <1>7 DEF OutsideCreate, Outside
<1>8. CASE Journal
  BY <1>8 DEF Journal
<1>9. CASE PowerLoss
  BY <1>9 DEF PowerLoss
<1>10. CASE UNCHANGED vars
  BY <1>10 DEF vars
<1> QED
  BY <1>1, <1>2, <1>3, <1>4, <1>5, <1>6, <1>7, <1>8, <1>9, <1>10 DEF Next, Proceed

\* The temporary file of an invocation belongs to it alone, so no step of
\* another invocation or program disturbs it.
LEMMA NextTemporaries == IInv /\ [Next]_vars => TemporariesInv'
<1> SUFFICES ASSUME IInv, [Next]_vars, NEW v \in Writers PROVE TemporaryInv(v)'
  BY DEF TemporariesInv
<1> USE SizeAssumption, BoundAssumption, DistinctAssumption
<1> USE DEF IInv, TypeOK, Goto, disk, files, TemporariesInv, TemporaryInv
<1>1. ASSUME NEW w \in Writers, CheckAlias(w) \/ CheckExists(w) \/ LinkRefused(w)
      PROVE  TemporaryInv(v)'
  BY <1>1 DEF CheckAlias, CheckExists, LinkRefused
<1>2. ASSUME NEW w \in Writers, CallFails(w) \/ Kill(w)
      PROVE  TemporaryInv(v)'
  BY <1>2 DEF CallFails, Kill
<1>3. ASSUME NEW w \in Writers, MakeTemporary(w)
      PROVE  TemporaryInv(v)'
  BY <1>3 DEF MakeTemporary, DurableWritten
<1>4. ASSUME NEW w \in Writers, WritePiece(w)
      PROVE  TemporaryInv(v)'
  BY <1>4 DEF WritePiece
<1>5. ASSUME NEW w \in Writers, SyncTemporary(w)
      PROVE  TemporaryInv(v)'
  BY <1>5 DEF SyncTemporary
<1>6. ASSUME NEW w \in Writers, ReplaceTarget(w) \/ LinkTarget(w)
      PROVE  TemporaryInv(v)'
  BY <1>6 DEF ReplaceTarget, LinkTarget
<1>7. ASSUME NEW w \in Writers, RemoveTemporary(w) \/ CleanUp(w)
      PROVE  TemporaryInv(v)'
  BY <1>7 DEF RemoveTemporary, CleanUp
<1>8. ASSUME NEW n \in Names, OutsideRelink(n) \/ OutsideCreate(n)
      PROVE  TemporaryInv(v)'
  BY <1>8 DEF OutsideRelink, OutsideCreate, Outside
<1>9. CASE Journal
  BY <1>9 DEF Journal
<1>10. CASE PowerLoss
  BY <1>10 DEF PowerLoss, Running
<1>11. CASE UNCHANGED vars
  BY <1>11 DEF vars
<1> QED
  BY <1>1, <1>2, <1>3, <1>4, <1>5, <1>6, <1>7, <1>8, <1>9, <1>10, <1>11 DEF Next, Proceed

\* Only the alias test moves an invocation past the alias test.
LEMMA NextAliases == IInv /\ [Next]_vars => AliasesTested'
<1> SUFFICES ASSUME IInv, [Next]_vars, NEW v \in Writers PROVE AliasInv(v)'
  BY DEF AliasesTested
<1> USE DEF IInv, TypeOK, Goto, AliasesTested, AliasInv, Destination, Inputs
<1>1. ASSUME NEW w \in Writers, CheckAlias(w)
      PROVE  AliasInv(v)'
  BY <1>1, SameEntryAliases DEF CheckAlias
<1>2. ASSUME NEW w \in Writers, Proceed(w), ~CheckAlias(w)
      PROVE  AliasInv(v)'
  BY <1>2 DEF Proceed, CheckExists, MakeTemporary, WritePiece, SyncTemporary, ReplaceTarget,
              LinkTarget, LinkRefused, RemoveTemporary, CleanUp
<1>3. ASSUME NEW w \in Writers, CallFails(w) \/ Kill(w)
      PROVE  AliasInv(v)'
  BY <1>3 DEF CallFails, Kill
<1>4. ASSUME NEW n \in Names, OutsideRelink(n) \/ OutsideCreate(n)
      PROVE  AliasInv(v)'
  BY <1>4 DEF OutsideRelink, OutsideCreate
<1>5. CASE Journal
  BY <1>5 DEF Journal
<1>6. CASE PowerLoss
  BY <1>6 DEF PowerLoss, Running
<1>7. CASE UNCHANGED vars
  BY <1>7 DEF vars
<1> QED
  BY <1>1, <1>2, <1>3, <1>4, <1>5, <1>6, <1>7 DEF Next

\* The inductive invariant holds throughout.
THEOREM Invariance == Spec => []IInv
<1>1. IInv /\ [Next]_vars => IInv'
  BY NextTypeOK, NextNamesSettled, NextTemporaries, NextAliases DEF IInv
<1> QED
  BY InitIInv, <1>1, PTL DEF Spec

\* Type correctness of write_report's model.
THEOREM TypeCorrect == Spec => []TypeOK
<1>1. IInv => TypeOK
  BY DEF IInv
<1> QED
  BY Invariance, <1>1, PTL

\* write_report never shows a partial report, whatever is killed or fails and
\* whenever power is lost.
THEOREM ReportsAreWhole == Spec => []WholeReports
<1>1. IInv => WholeReports
  BY SizeAssumption DEF IInv, TypeOK, DurableWritten, NamesSettled, Settled, WholeReports
<1> QED
  BY Invariance, <1>1, PTL

\* Only os.replace and os.link take an invocation from "publish" to "unlink".
LEMMA PublishStep ==
  ASSUME TypeOK, [Next]_vars, NEW v \in Writers, pc[v] = "publish", pc'[v] = "unlink"
  PROVE  ReplaceTarget(v) \/ LinkTarget(v)
<1> USE DEF TypeOK, Goto
<1>1. ASSUME NEW w \in Writers, CheckAlias(w) \/ CheckExists(w) \/ MakeTemporary(w)
                                 \/ WritePiece(w) \/ SyncTemporary(w) \/ LinkRefused(w)
      PROVE  FALSE
  BY <1>1 DEF CheckAlias, CheckExists, MakeTemporary, WritePiece, SyncTemporary, LinkRefused
<1>2. ASSUME NEW w \in Writers, RemoveTemporary(w) \/ CleanUp(w) \/ CallFails(w) \/ Kill(w)
      PROVE  FALSE
  BY <1>2 DEF RemoveTemporary, CleanUp, CallFails, Kill, Running
<1>3. ASSUME NEW w \in Writers, ReplaceTarget(w) \/ LinkTarget(w)
      PROVE  w = v
  BY <1>3 DEF ReplaceTarget, LinkTarget
<1>4. ASSUME NEW n \in Names, OutsideRelink(n) \/ OutsideCreate(n)
      PROVE  FALSE
  BY <1>4 DEF OutsideRelink, OutsideCreate
<1>5. ~Journal /\ ~PowerLoss /\ ~UNCHANGED vars
  BY DEF Journal, PowerLoss, vars, Running
<1> QED
  BY <1>1, <1>2, <1>3, <1>4, <1>5 DEF Next, Proceed

\* Whatever the invocations, spellings and other programs: no publication
\* takes the place of a file without --force, or of an input at all.
THEOREM OverwritesNothing == Spec => NothingOverwritten
<1> DEFINE Kept == \A w \in Writers :
                     pc[w] = "publish" /\ pc'[w] = "unlink" =>
                       /\ ~Forced[w] => dir[Destination(w)] = None
                       /\ \A n \in Inputs(w) : dir'[n] = dir[n]
<1>1. IInv /\ [Next]_vars => [Kept]_vars
  <2> SUFFICES ASSUME IInv, [Next]_vars, NEW v \in Writers,
                      pc[v] = "publish", pc'[v] = "unlink"
               PROVE  /\ ~Forced[v] => dir[Destination(v)] = None
                      /\ \A n \in Inputs(v) : dir'[n] = dir[n]
    OBVIOUS
  <2>1. ReplaceTarget(v) \/ LinkTarget(v)
    BY PublishStep DEF IInv
  <2>2. ~Forced[v] => dir[Destination(v)] = None
    BY <2>1 DEF ReplaceTarget, LinkTarget
  <2>3. ASSUME NEW n \in Inputs(v)
        PROVE  dir'[n] = dir[n]
    <3>1. Destination(v) # n
      BY DEF IInv, AliasesTested, AliasInv
    <3>2. n \in Names
      BY PathAssumption DEF Inputs
    <3> QED
      BY <2>1, <3>1, <3>2 DEF ReplaceTarget, LinkTarget, IInv, TypeOK
  <2> QED
    BY <2>2, <2>3
<1> QED
  BY Invariance, <1>1, PTL DEF Spec, NothingOverwritten

\* write_report leaves no temporary file behind when it returns or raises.
THEOREM TemporariesRemoved == Spec => NoTemporaryLeft
<1> DEFINE Removed == \A w \in Writers :
              pc[w] \in Running /\ pc'[w] \in {"done", "failed"} => temp'[w] = None
<1>1. IInv /\ [Next]_vars => [Removed]_vars
  <2> SUFFICES ASSUME IInv, [Next]_vars, NEW v \in Writers,
                      pc[v] \in Running, pc'[v] \in {"done", "failed"}
               PROVE  temp'[v] = None
    OBVIOUS
  <2> USE DEF IInv, TypeOK, Goto, TemporariesInv, TemporaryInv
  <2>1. ASSUME NEW w \in Writers, CheckAlias(w) \/ CheckExists(w) \/ MakeTemporary(w)
        PROVE  temp'[v] = None
    BY <2>1 DEF CheckAlias, CheckExists, MakeTemporary, Running
  <2>2. ASSUME NEW w \in Writers, WritePiece(w) \/ SyncTemporary(w) \/ ReplaceTarget(w)
                                   \/ LinkTarget(w) \/ LinkRefused(w)
        PROVE  temp'[v] = None
    BY <2>2 DEF WritePiece, SyncTemporary, ReplaceTarget, LinkTarget, LinkRefused, Running
  <2>3. ASSUME NEW w \in Writers, RemoveTemporary(w) \/ CleanUp(w)
        PROVE  temp'[v] = None
    BY <2>3 DEF RemoveTemporary, CleanUp, Running
  <2>4. ASSUME NEW w \in Writers, CallFails(w) \/ Kill(w)
        PROVE  temp'[v] = None
    BY <2>4 DEF CallFails, Kill, Running
  <2>5. ASSUME NEW n \in Names, OutsideRelink(n) \/ OutsideCreate(n)
        PROVE  temp'[v] = None
    BY <2>5 DEF OutsideRelink, OutsideCreate, Running
  <2>6. ~Journal /\ ~PowerLoss /\ ~UNCHANGED vars
    BY DEF Journal, PowerLoss, vars, Running
  <2> QED
    BY <2>1, <2>2, <2>3, <2>4, <2>5, <2>6 DEF Next, Proceed
<1> QED
  BY Invariance, <1>1, PTL DEF Spec, NoTemporaryLeft

-----------------------------------------------------------------------------
(***************************************************************************)
(* Of invocations that race for one entry without --force one wins.         *)
(***************************************************************************)
\* Nobody but invocations without --force touches entry n.
Contested(n) ==
  /\ meddled = 0
  /\ \A u \in Writers : Destination(u) = n => ~Forced[u]

Won(w) == pc[w] \in {"unlink", "done"}

\* The disk lags behind the entry by its creation at most.
DiskLags(n) == dirDisk[n] = None \/ dirDisk[n] = dir[n]

\* The entry leads to the report of the one that won, or power was lost before
\* the disk knew of it and nobody runs any more.
WinnerInv(w) ==
  LET n == Destination(w) IN
  Contested(n) =>
    /\ DiskLags(n)
    /\ Won(w) => /\ dir[n] # None => dir[n] \in Files /\ owner[dir[n]] = w
                 /\ \A v \in Writers \ {w} : Destination(v) = n => ~Won(v)
                 /\ dir[n] = None => \A v \in Writers : pc[v] \notin Running

WinnersInv == \A w \in Writers : WinnerInv(w)

\* At the start nobody has won and the disk knows the directory.
LEMMA InitWinners == Init => WinnersInv
BY DEF Init, WinnersInv, WinnerInv, DiskLags, Won

\* An invocation wins only by a link, which needs an empty entry; only a loss of
\* power empties the entry of the one that won, and that ends all others.
LEMMA NextWinners == IInv /\ WinnersInv /\ [Next]_vars => WinnersInv'
<1> SUFFICES ASSUME IInv, WinnersInv, [Next]_vars, NEW v \in Writers, Contested(Destination(v))'
             PROVE  WinnerInv(v)'
  BY DEF WinnersInv, WinnerInv
<1> USE BoundAssumption, DistinctAssumption, PathAssumption
<1> USE DEF IInv, TypeOK, Goto, disk, files, WinnersInv, WinnerInv, Won, DiskLags, Contested, Destination
<1>1. ASSUME NEW w \in Writers, CheckAlias(w) \/ CheckExists(w) \/ LinkRefused(w)
      PROVE  WinnerInv(v)'
  BY <1>1 DEF CheckAlias, CheckExists, LinkRefused, Running
<1>2. ASSUME NEW w \in Writers, CallFails(w) \/ Kill(w)
      PROVE  WinnerInv(v)'
  BY <1>2 DEF CallFails, Kill, Running
<1>3. ASSUME NEW w \in Writers, MakeTemporary(w)
      PROVE  WinnerInv(v)'
  BY <1>3 DEF MakeTemporary, NamesSettled, Settled, Running
<1>4. ASSUME NEW w \in Writers, WritePiece(w) \/ SyncTemporary(w)
      PROVE  WinnerInv(v)'
  BY <1>4 DEF WritePiece, SyncTemporary, Running
<1>5. ASSUME NEW w \in Writers, ReplaceTarget(w)
      PROVE  WinnerInv(v)'
  BY <1>5 DEF ReplaceTarget, Running
<1>6. ASSUME NEW w \in Writers, LinkTarget(w)
      PROVE  WinnerInv(v)'
  BY <1>6 DEF LinkTarget, TemporariesInv, TemporaryInv, Running
<1>7. ASSUME NEW w \in Writers, RemoveTemporary(w) \/ CleanUp(w)
      PROVE  WinnerInv(v)'
  BY <1>7 DEF RemoveTemporary, CleanUp, Running
<1>8. ASSUME NEW n \in Names, OutsideRelink(n) \/ OutsideCreate(n)
      PROVE  WinnerInv(v)'
  BY <1>8 DEF OutsideRelink, OutsideCreate, Outside
<1>9. CASE Journal
  BY <1>9 DEF Journal
<1>10. CASE PowerLoss
  BY <1>10 DEF PowerLoss, Running
<1>11. CASE UNCHANGED vars
  BY <1>11 DEF vars
<1> QED
  BY <1>1, <1>2, <1>3, <1>4, <1>5, <1>6, <1>7, <1>8, <1>9, <1>10, <1>11 DEF Next, Proceed

\* Of any number of invocations without --force that race for one entry at most
\* one succeeds, and the entry leads to its report or, after a loss of power, to
\* nothing.
THEOREM OneWinner == Spec => []ExclusiveCreation
<1>1. WinnersInv => ExclusiveCreation
  BY DEF WinnersInv, WinnerInv, Contested, Won, ExclusiveCreation
<1>2. IInv /\ WinnersInv /\ [Next]_vars => WinnersInv'
  BY NextWinners
<1> QED
  BY Invariance, InitWinners, <1>1, <1>2, PTL DEF Spec

-----------------------------------------------------------------------------
(***************************************************************************)
(* write_report implements AtomicPublish: every step is one step of the    *)
(* abstract specification or invisible in it.                              *)
(***************************************************************************)
\* The initial directory is an initial directory of AtomicPublish.
LEMMA RefinesInit == Init => Abstract!Init
<1> SUFFICES ASSUME Init PROVE Abstract!Init
  OBVIOUS
<1>1. \A n \in Names : Shown(dir[n]) = dir[n]
  BY DEF Init, Shown
<1> QED
  BY <1>1, DistinctAssumption DEF Init, Abstract!Init, Status, Ended

\* What a name shows: other programs' entries as they are, reports as their
\* writer.
LEMMA ShownSettled ==
  ASSUME IInv, NEW e \in Files, Settled(e)
  PROVE  Shown(e) = IF owner[e] = Outsider THEN e ELSE owner[e]
BY SizeAssumption DEF IInv, TypeOK, Settled, Shown, DurableWritten

\* Calls that change neither names nor the files behind them only move the
\* invocation on.
LEMMA RefinesQuiet ==
  ASSUME IInv, NEW w \in Writers, UNCHANGED <<dir, dirDisk, owner, written>>,
         CheckAlias(w) \/ CheckExists(w) \/ SyncTemporary(w) \/ LinkRefused(w)
         \/ RemoveTemporary(w) \/ CleanUp(w) \/ CallFails(w) \/ Kill(w)
  PROVE  [Abstract!Next]_(Abstract!vars)
<1> DEFINE status == [v \in Writers |-> Status(pc[v])]
<1> USE DEF IInv, TypeOK, Goto, Status, Running, Ended
<1>1. UNCHANGED [n \in Names |-> Shown(dir[n])] /\ UNCHANGED [n \in Names |-> Shown(dirDisk[n])]
  BY DEF Shown
<1>2. CASE CheckAlias(w) \/ CheckExists(w) \/ SyncTemporary(w) \/ LinkRefused(w)
  <2>1. status' = status \/ (status[w] = "pending" /\ status' = [status EXCEPT ![w] = "over"])
    BY <1>2 DEF CheckAlias, CheckExists, SyncTemporary, LinkRefused
  <2> QED
    BY <1>1, <2>1 DEF Abstract!Next, Abstract!GiveUp, Abstract!vars
<1>3. CASE RemoveTemporary(w)
  <2>1. status[w] = "published" /\ status' = [status EXCEPT ![w] = "acknowledged"]
    BY <1>3 DEF RemoveTemporary
  <2> QED
    BY <1>1, <2>1 DEF Abstract!Next, Abstract!Acknowledge
<1>4. CASE CleanUp(w) \/ CallFails(w) \/ Kill(w)
  <2>1. \/ status' = status
        \/ status[w] \in {"pending", "published"} /\ status' = [status EXCEPT ![w] = "over"]
    BY <1>4 DEF CleanUp, CallFails, Kill
  <2> QED
    BY <1>1, <2>1 DEF Abstract!Next, Abstract!GiveUp, Abstract!vars
<1> QED
  BY <1>2, <1>3, <1>4

\* Making and filling a temporary file is invisible: no name leads to it.
LEMMA RefinesTemporary ==
  ASSUME IInv, NEW w \in Writers, MakeTemporary(w) \/ WritePiece(w)
  PROVE  [Abstract!Next]_(Abstract!vars)
<1> USE SizeAssumption, DistinctAssumption
<1> USE DEF IInv, TypeOK, Goto, disk, files
<1>1. ASSUME NEW e, Settled(e) PROVE Shown(e)' = Shown(e)
  <2>1. CASE MakeTemporary(w)
    BY <1>1, <2>1 DEF MakeTemporary, Settled, Shown
  <2>2. CASE WritePiece(w)
    BY <1>1, <2>2 DEF WritePiece, Settled, Shown, TemporariesInv, TemporaryInv, DurableWritten
  <2> QED
    BY <2>1, <2>2
<1>2. UNCHANGED [n \in Names |-> Shown(dir[n])] /\ UNCHANGED [n \in Names |-> Shown(dirDisk[n])]
  BY <1>1 DEF MakeTemporary, WritePiece, NamesSettled
<1>3. UNCHANGED [v \in Writers |-> Status(pc[v])]
  BY DEF MakeTemporary, WritePiece, Status, Ended
<1> QED
  BY <1>2, <1>3 DEF Abstract!vars

\* The rename or the link is the one visible step: the whole report appears.
LEMMA RefinesPublish ==
  ASSUME IInv, NEW w \in Writers, ReplaceTarget(w) \/ LinkTarget(w)
  PROVE  Abstract!Publish(w)
<1> DEFINE shown == [n \in Names |-> Shown(dir[n])]
<1> USE SizeAssumption, DistinctAssumption
<1> USE DEF IInv, TypeOK, Goto, disk, files, ReplaceTarget, LinkTarget
<1>1. Destination(w) \in Names
  BY PathAssumption DEF Destination
<1>2. Shown(temp[w]) = w
  BY DEF TemporariesInv, TemporaryInv, DurableWritten, Shown
<1>3. shown' = [shown EXCEPT ![Destination(w)] = w]
  BY <1>1, <1>2 DEF Shown
<1>4. UNCHANGED [n \in Names |-> Shown(dirDisk[n])]
  BY DEF Shown
<1>5. Forced[w] \/ shown[Destination(w)] = None
  BY <1>1 DEF Shown
<1>6. Destination(w) \notin Inputs(w)
  BY DEF AliasesTested, AliasInv
<1>7. /\ Status(pc[w]) = "pending"
      /\ [v \in Writers |-> Status(pc[v])]'
           = [[v \in Writers |-> Status(pc[v])] EXCEPT ![w] = "published"]
  BY DEF Status, Ended
<1> QED
  BY <1>3, <1>4, <1>5, <1>6, <1>7 DEF Abstract!Publish

\* Other programs only put what exists, or a file of their own, under a name.
LEMMA RefinesOutside ==
  ASSUME IInv, NEW n \in Names, OutsideRelink(n) \/ OutsideCreate(n)
  PROVE  Abstract!Meddle(n)
<1> DEFINE shown == [m \in Names |-> Shown(dir[m])]
<1> USE SizeAssumption, DistinctAssumption
<1> USE DEF IInv, TypeOK, disk, files, Outside
<1>1. UNCHANGED [v \in Writers |-> Status(pc[v])]
  BY DEF OutsideRelink, OutsideCreate
<1>2. CASE OutsideRelink(n)
  <2>1. PICK e \in {None} \union {dir[m] : m \in Names} \union Paths :
                 dir' = [dir EXCEPT ![n] = e]
    BY <1>2 DEF OutsideRelink
  <2>2. shown' = [shown EXCEPT ![n] = Shown(e)]
    BY <1>2, <2>1 DEF OutsideRelink, Shown
  <2>3. Shown(e) \in Paths \union {None} \union {shown[m] : m \in Names}
    BY <2>1 DEF Shown
  <2>4. UNCHANGED [m \in Names |-> Shown(dirDisk[m])]
    BY <1>2 DEF OutsideRelink, Shown
  <2> QED
    BY <1>1, <2>2, <2>3, <2>4 DEF Abstract!Meddle
<1>3. CASE OutsideCreate(n)
  <2>1. PICK f \in Files : /\ owner[f] = Unused
                           /\ owner' = [owner EXCEPT ![f] = Outsider]
                           /\ written' = [written EXCEPT ![f] = Size]
                           /\ dir' = [dir EXCEPT ![n] = f]
    BY <1>3 DEF OutsideCreate
  <2>2. ASSUME NEW e, Settled(e) PROVE Shown(e)' = Shown(e)
    BY <2>1, <2>2 DEF Settled, Shown
  <2>3. Shown(f)' = f
    BY <2>1 DEF Shown
  <2>4. shown' = [shown EXCEPT ![n] = f]
    BY <2>1, <2>2, <2>3 DEF NamesSettled
  <2>5. UNCHANGED [m \in Names |-> Shown(dirDisk[m])]
    BY <1>3, <2>2 DEF OutsideCreate, NamesSettled
  <2> QED
    BY <1>1, <2>4, <2>5 DEF Abstract!Meddle
<1> QED
  BY <1>2, <1>3

\* The journal and the power supply act alike in both specifications.
LEMMA RefinesDisk ==
  ASSUME IInv, Journal \/ PowerLoss
  PROVE  Abstract!Persist \/ Abstract!PowerLoss
<1> USE SizeAssumption, DistinctAssumption
<1> USE DEF IInv, TypeOK, disk, files
<1>1. CASE Journal
  <2>1. /\ [n \in Names |-> Shown(dirDisk[n])]' = [n \in Names |-> Shown(dir[n])]
        /\ UNCHANGED [n \in Names |-> Shown(dir[n])]
        /\ UNCHANGED [v \in Writers |-> Status(pc[v])]
    BY <1>1 DEF Journal, Shown
  <2> QED
    BY <2>1 DEF Abstract!Persist
<1>2. CASE PowerLoss
  <2>1. ASSUME NEW n \in Names PROVE Shown(dirDisk[n])' = Shown(dirDisk[n])
    BY <1>2 DEF PowerLoss, Shown, NamesSettled, Settled, DurableWritten
  <2>2. /\ [n \in Names |-> Shown(dir[n])]' = [n \in Names |-> Shown(dirDisk[n])]
        /\ UNCHANGED [n \in Names |-> Shown(dirDisk[n])]
    BY <1>2, <2>1 DEF PowerLoss
  <2>3. [v \in Writers |-> Status(pc[v])]'
          = [v \in Writers |-> IF Status(pc[v]) = "acknowledged"
                               THEN "acknowledged" ELSE "over"]
    BY <1>2 DEF PowerLoss, Status, Running, Ended
  <2> QED
    BY <2>2, <2>3 DEF Abstract!PowerLoss
<1> QED
  BY <1>1, <1>2

\* write_report implements the atomic publication, for any number of
\* invocations and any protected inputs.
THEOREM PublishesAtomically == Spec => ImplementsAtomicPublish
<1>1. IInv /\ [Next]_vars => [Abstract!Next]_(Abstract!vars)
  <2> SUFFICES ASSUME IInv, [Next]_vars PROVE [Abstract!Next]_(Abstract!vars)
    OBVIOUS
  <2>1. ASSUME NEW w \in Writers, MakeTemporary(w) \/ WritePiece(w)
        PROVE  [Abstract!Next]_(Abstract!vars)
    BY <2>1, RefinesTemporary
  <2>2. ASSUME NEW w \in Writers, ReplaceTarget(w) \/ LinkTarget(w)
        PROVE  [Abstract!Next]_(Abstract!vars)
    BY <2>2, RefinesPublish DEF Abstract!Next
  <2>3. ASSUME NEW w \in Writers, CheckAlias(w) \/ CheckExists(w) \/ SyncTemporary(w)
                 \/ LinkRefused(w) \/ RemoveTemporary(w) \/ CleanUp(w) \/ CallFails(w) \/ Kill(w)
        PROVE  [Abstract!Next]_(Abstract!vars)
    <3>1. UNCHANGED <<dir, dirDisk, owner, written>>
      BY <2>3 DEF CheckAlias, CheckExists, SyncTemporary, LinkRefused, RemoveTemporary,
                  CleanUp, CallFails, Kill, disk, files
    <3> QED
      BY <2>3, <3>1, RefinesQuiet
  <2>4. ASSUME NEW n \in Names, OutsideRelink(n) \/ OutsideCreate(n)
        PROVE  [Abstract!Next]_(Abstract!vars)
    BY <2>4, RefinesOutside DEF Abstract!Next
  <2>5. CASE Journal \/ PowerLoss
    BY <2>5, RefinesDisk DEF Abstract!Next
  <2>6. CASE UNCHANGED vars
    BY <2>6 DEF vars, Abstract!vars, Shown, Status
  <2> QED
    BY <2>1, <2>2, <2>3, <2>4, <2>5, <2>6 DEF Next, Proceed
<1> QED
  BY Invariance, RefinesInit, <1>1, PTL DEF Spec, ImplementsAtomicPublish, Abstract!Spec
=============================================================================
