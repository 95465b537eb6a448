------------------------------ MODULE UnionFind ------------------------------
(***************************************************************************)
(* The disjoint sets of solvability.py (_Union) and checks.py (_RailUnion): *)
(* union by size, find with path halving.  Callers ask for a find or a     *)
(* union at any time; each turn of the loop in find is one step.           *)
(***************************************************************************)
EXTENDS Integers, FiniteSets

CONSTANTS
  Nodes,    \* node names
  Nobody

\* A find has one argument, a union two.
SetCalls == [left : Nodes, right : Nodes \union {Nobody}]

ASSUME NodeAssumption ==
  /\ Nobody \notin Nodes \union BOOLEAN \union SetCalls
  /\ IsFiniteSet(Nodes)

VARIABLES
  parent,   \* _parent, Nobody for a node that was never added
  size,     \* _size, 0 for a node that was never added
  call,     \* arguments of the operation in progress; a find has no right one
  side,     \* "idle", or which argument find is at: "left" or "right"
  cursor,   \* the local variable root of find
  first,    \* what find returned for the left argument of a union
  answer,   \* what the last operation returned
  leader    \* auxiliary: what find would return for each node

setVars == <<parent, size, call, side, cursor, first, answer, leader>>

SetsInit ==
  /\ parent = [n \in Nodes |-> Nobody]
  /\ size = [n \in Nodes |-> 0]
  /\ call = Nobody
  /\ side = "idle"
  /\ cursor = Nobody
  /\ first = Nobody
  /\ answer = Nobody
  /\ leader = [n \in Nodes |-> Nobody]

Ask(c) ==
  /\ side = "idle"
  /\ call' = c
  /\ cursor' = c.left
  /\ side' = "left"
  /\ UNCHANGED <<parent, size, first, answer, leader>>

\* find begins with add.
Add ==
  /\ side # "idle"
  /\ parent[cursor] = Nobody
  /\ parent' = [parent EXCEPT ![cursor] = cursor]
  /\ size' = [size EXCEPT ![cursor] = 1]
  /\ leader' = [leader EXCEPT ![cursor] = cursor]
  /\ UNCHANGED <<call, side, cursor, first, answer>>

\* One turn of the loop: point to the grandparent and go there.
Halve ==
  /\ side # "idle"
  /\ parent[cursor] \notin {Nobody, cursor}
  /\ parent' = [parent EXCEPT ![cursor] = parent[parent[cursor]]]
  /\ cursor' = parent[parent[cursor]]
  /\ UNCHANGED <<size, call, side, first, answer, leader>>

AtRoot == parent[cursor] = cursor

Reply(value) ==
  /\ answer' = value
  /\ call' = Nobody
  /\ cursor' = Nobody
  /\ first' = Nobody
  /\ side' = "idle"

FoundOnly ==
  /\ side = "left" /\ AtRoot
  /\ call.right = Nobody
  /\ Reply(cursor)
  /\ UNCHANGED <<parent, size, leader>>

FoundLeft ==
  /\ side = "left" /\ AtRoot
  /\ call.right # Nobody
  /\ first' = cursor
  /\ cursor' = call.right
  /\ side' = "right"
  /\ UNCHANGED <<parent, size, call, answer, leader>>

FoundSame ==
  /\ side = "right" /\ AtRoot
  /\ first = cursor
  /\ Reply(FALSE)
  /\ UNCHANGED <<parent, size, leader>>

Bigger(a, b) == IF size[a] < size[b] THEN b ELSE a

Attach_NodeItself(winner, loser) ==
  /\ parent' = [parent EXCEPT ![call.right] = winner]
  /\ size' = [size EXCEPT ![winner] = @ + size[loser]]
  /\ leader' = [n \in Nodes |-> IF leader[n] = loser THEN winner ELSE leader[n]]

Attach(winner, loser) ==
  /\ parent' = [parent EXCEPT ![loser] = winner]
  /\ size' = [size EXCEPT ![winner] = @ + size[loser]]
  /\ leader' = [n \in Nodes |-> IF leader[n] = loser THEN winner ELSE leader[n]]

\* The roots differ: the smaller tree goes below the root of the bigger one.
Link ==
  /\ side = "right" /\ AtRoot
  /\ first # cursor
  /\ LET winner == Bigger(first, cursor)
     IN  Attach(winner, IF winner = first THEN cursor ELSE first)
  /\ Reply(TRUE)

Work == Add \/ Halve \/ FoundOnly \/ FoundLeft \/ FoundSame \/ Link

SetsNext == (\E c \in SetCalls : Ask(c)) \/ Work

SetsSpec == SetsInit /\ [][SetsNext]_setVars

-----------------------------------------------------------------------------
(***************************************************************************)
(* Properties.                                                             *)
(***************************************************************************)
Known == {n \in Nodes : parent[n] # Nobody}

\* Every variable stays within its type, and the local variables of a call are
\* set while it is in progress and not otherwise.
SetsTypeOK ==
  /\ parent \in [Nodes -> Nodes \union {Nobody}]
  /\ size \in [Nodes -> Nat]
  /\ leader \in [Nodes -> Nodes \union {Nobody}]
  /\ call \in SetCalls \union {Nobody}
  /\ side \in {"idle", "left", "right"}
  /\ cursor \in Nodes \union {Nobody}
  /\ first \in Nodes \union {Nobody}
  /\ answer \in Nodes \union BOOLEAN \union {Nobody}
  /\ (side = "idle") <=> (call = Nobody)
  /\ (side = "idle") <=> (cursor = Nobody)
  /\ (side = "right") <=> (first # Nobody)
  /\ side = "right" => call.right # Nobody

\* The size at a root counts the nodes of its group: union would otherwise put
\* the big tree below the small one.
SizesCount ==
  \A n \in Known : parent[n] = n => size[n] = Cardinality({m \in Nodes : leader[m] = n})

\* A disjoint-set structure with leader as the representative of each group.
Abstract == INSTANCE Partition WITH None <- Nobody

\* Halving, sizes and parents are invisible: the answers are those of a
\* partition of the nodes.
ImplementsPartition == Abstract!Spec
=============================================================================
