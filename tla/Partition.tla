------------------------------ MODULE Partition ------------------------------
(***************************************************************************)
(* What a disjoint-set structure promises: every node that was entered is  *)
(* in one group, each group has one leader, uniting two nodes merges their *)
(* groups and says whether they were different before.                     *)
(***************************************************************************)
CONSTANTS
  Nodes,
  None

VARIABLES
  leader,   \* leader[n]: the representative of n's group, None before n is entered
  call,     \* the operation in progress, None between two of them
  answer    \* what the last operation returned

vars == <<leader, call, answer>>

Calls == [left : Nodes, right : Nodes \union {None}]

Init ==
  /\ leader = [n \in Nodes |-> None]
  /\ call = None
  /\ answer = None

Ask(c) ==
  /\ call = None
  /\ call' = c
  /\ UNCHANGED <<leader, answer>>

\* A node that is new becomes a group of its own.
Enter(n) ==
  /\ call # None /\ n \in {call.left, call.right}
  /\ leader[n] = None
  /\ leader' = [leader EXCEPT ![n] = n]
  /\ UNCHANGED <<call, answer>>

AnswerFind ==
  /\ call # None /\ call.right = None
  /\ leader[call.left] # None
  /\ answer' = leader[call.left]
  /\ call' = None
  /\ UNCHANGED leader

\* Both groups get the leader of one of them.
Merged(winner) ==
  [n \in Nodes |->
     IF leader[n] \in {leader[call.left], leader[call.right]} /\ leader[n] # None
     THEN winner ELSE leader[n]]

AnswerUnite ==
  /\ call # None /\ call.right # None
  /\ leader[call.left] # None /\ leader[call.right] # None
  /\ answer' = (leader[call.left] # leader[call.right])
  /\ \E winner \in {leader[call.left], leader[call.right]} : leader' = Merged(winner)
  /\ call' = None

Next ==
  \/ \E c \in Calls : Ask(c)
  \/ \E n \in Nodes : Enter(n)
  \/ AnswerFind
  \/ AnswerUnite

Spec == Init /\ [][Next]_vars
=============================================================================
