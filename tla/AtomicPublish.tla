--------------------------- MODULE AtomicPublish ---------------------------
(***************************************************************************)
(* What write_report promises to whoever reads the output directory: a     *)
(* report appears under its name in one step or not at all, an invocation  *)
(* without --force only fills an empty name, no invocation touches a file  *)
(* it was told to protect, and success is acknowledged only after the      *)
(* report has been shown.  Nothing here knows about temporary files.       *)
(***************************************************************************)
CONSTANTS
  Writers,     \* invocations of write_report, each with one destination
  Names,       \* directory entries
  Paths,       \* path spellings, the values a symbolic link can hold
  Files,       \* identities of files made by other programs
  None,        \* an empty directory entry
  Forced,      \* Forced[w]: invocation w was given --force
  Place,       \* Place[w]: the directory entry of w's destination
  OffLimits    \* OffLimits[w]: the directory entries of w's protected inputs

VARIABLES
  shown,       \* what a reader finds at each entry; a writer stands for its report
  stable,      \* what a reader would find after a power loss
  status       \* how far each invocation has come

vars == <<shown, stable, status>>

Shows == Files \union Writers \union Paths \union {None}

Init ==
  /\ shown \in [Names -> Files \union {None}]
  /\ stable = shown
  /\ status = [w \in Writers |-> "pending"]

\* The one step that makes a report visible.
Publish(w) ==
  /\ status[w] = "pending"
  /\ Forced[w] \/ shown[Place[w]] = None
  /\ Place[w] \notin OffLimits[w]
  /\ shown' = [shown EXCEPT ![Place[w]] = w]
  /\ status' = [status EXCEPT ![w] = "published"]
  /\ UNCHANGED stable

Acknowledge(w) ==
  /\ status[w] = "published"
  /\ status' = [status EXCEPT ![w] = "acknowledged"]
  /\ UNCHANGED <<shown, stable>>

\* A refusal, an I/O error or a killed process.
GiveUp(w) ==
  /\ status[w] \in {"pending", "published"}
  /\ status' = [status EXCEPT ![w] = "over"]
  /\ UNCHANGED <<shown, stable>>

\* Other programs may put anything that already exists anywhere.
Meddle(n) ==
  /\ \E s \in Files \union Paths \union {None} \union {shown[m] : m \in Names} :
        shown' = [shown EXCEPT ![n] = s]
  /\ UNCHANGED <<stable, status>>

Persist ==
  /\ stable' = shown
  /\ UNCHANGED <<shown, status>>

PowerLoss ==
  /\ shown' = stable
  /\ status' = [w \in Writers |->
                  IF status[w] = "acknowledged" THEN "acknowledged" ELSE "over"]
  /\ UNCHANGED stable

Next ==
  \/ \E w \in Writers : Publish(w) \/ Acknowledge(w) \/ GiveUp(w)
  \/ \E n \in Names : Meddle(n)
  \/ Persist
  \/ PowerLoss

Spec == Init /\ [][Next]_vars
=============================================================================
