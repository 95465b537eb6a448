--------------------------- MODULE UnionFindProofs ---------------------------
(***************************************************************************)
(* UnionFind implements Partition for any finite set of nodes.  The        *)
(* inductive invariant says that a parent link stays within the group and  *)
(* leads to a strictly bigger size: without the latter the grandparent of  *)
(* a node could be the node itself, and halving would cut a group in two.  *)
(***************************************************************************)
EXTENDS UnionFind, FiniteSetTheorems, TLAPS

\* What a parent link tells about the leader.
Links ==
  \A n \in Nodes :
    /\ parent[n] = Nobody <=> leader[n] = Nobody
    /\ parent[n] = n => leader[n] = n
    /\ parent[n] # Nobody => /\ parent[parent[n]] # Nobody
                           /\ leader[parent[n]] = leader[n]
                           /\ parent[leader[n]] = leader[n]

\* Sizes grow on the way to the root.
Growing ==
  \A n \in Nodes :
    /\ parent[n] # Nobody => size[n] > 0
    /\ parent[n] \notin {Nobody, n} => size[n] < size[parent[n]]

\* The node a find is at belongs to the group of the node it was asked about.
OnTheWay(asked) ==
  IF parent[cursor] = Nobody THEN cursor = asked
  ELSE parent[asked] # Nobody /\ leader[cursor] = leader[asked]

Progress ==
  /\ side = "left" => OnTheWay(call.left)
  /\ side = "right" => /\ OnTheWay(call.right)
                     /\ parent[call.left] # Nobody
                     /\ leader[call.left] = first
                     /\ parent[first] = first

IInv == SetsTypeOK /\ Links /\ Growing /\ Progress

\* The initial state satisfies the invariant.
LEMMA InitIInv == SetsInit => IInv
BY NodeAssumption DEF SetsInit, IInv, SetsTypeOK, Links, Growing, Progress, SetCalls

\* Two links up is another node, in the same group and of a bigger size.
LEMMA Grandparent ==
  ASSUME SetsTypeOK, Links, Growing, NEW n \in Nodes, parent[n] \notin {Nobody, n}
  PROVE  /\ parent[n] \in Nodes /\ parent[parent[n]] \in Nodes
         /\ parent[parent[n]] # n
         /\ leader[parent[parent[n]]] = leader[n]
         /\ size[n] < size[parent[parent[n]]]
<1>1. parent[n] \in Nodes /\ parent[parent[n]] \in Nodes
  BY DEF SetsTypeOK, Links
<1>2. leader[parent[parent[n]]] = leader[n]
  BY <1>1 DEF Links
<1>3. size[n] < size[parent[n]]
  BY DEF Growing
<1>4. CASE parent[parent[n]] = parent[n]
  BY <1>1, <1>2, <1>3, <1>4
<1>5. CASE parent[parent[n]] # parent[n]
  <2>1. size[parent[n]] < size[parent[parent[n]]]
    BY <1>1, <1>5, NodeAssumption DEF Growing
  <2>2. size[n] \in Nat /\ size[parent[n]] \in Nat /\ size[parent[parent[n]]] \in Nat
    BY <1>1 DEF SetsTypeOK
  <2> QED
    BY <1>1, <1>2, <1>3, <2>1, <2>2
<1> QED
  BY <1>4, <1>5

\* Every step preserves the invariant.
LEMMA NextIInv == IInv /\ [SetsNext]_setVars => IInv'
<1> SUFFICES ASSUME IInv, [SetsNext]_setVars PROVE IInv'
  OBVIOUS
<1> USE NodeAssumption
<1>1. ASSUME NEW c \in SetCalls, Ask(c) PROVE IInv'
  <2>1. SetsTypeOK'
    BY <1>1 DEF IInv, SetsTypeOK, Ask, SetCalls
  <2>2. Links' /\ Growing'
    BY <1>1 DEF IInv, Links, Growing, Ask
  <2>3. Progress'
    BY <1>1 DEF IInv, SetsTypeOK, Progress, OnTheWay, Ask, SetCalls
  <2> QED
    BY <2>1, <2>2, <2>3 DEF IInv
<1>2. CASE Add
  <2>0. cursor \in Nodes
    BY <1>2 DEF IInv, SetsTypeOK, Add
  <2>1. SetsTypeOK'
    BY <1>2, <2>0 DEF IInv, SetsTypeOK, Add
  <2>2. Links'
    <3> SUFFICES ASSUME NEW n \in Nodes
                 PROVE  /\ parent'[n] = Nobody <=> leader'[n] = Nobody
                        /\ parent'[n] = n => leader'[n] = n
                        /\ parent'[n] # Nobody => /\ parent'[parent'[n]] # Nobody
                                                /\ leader'[parent'[n]] = leader'[n]
                                                /\ parent'[leader'[n]] = leader'[n]
      BY DEF Links
    <3>1. CASE n = cursor
      BY <1>2, <2>0, <3>1 DEF IInv, SetsTypeOK, Add
    <3>2. CASE n # cursor
      <4>1. parent'[n] = parent[n] /\ leader'[n] = leader[n]
        BY <1>2, <2>0, <3>2 DEF IInv, SetsTypeOK, Add
      <4>2. CASE parent[n] = Nobody
        BY <3>2, <4>1, <4>2 DEF IInv, Links
      <4>3. CASE parent[n] # Nobody
        <5>1. parent[n] \in Nodes /\ leader[n] \in Nodes /\ parent[n] # cursor /\ leader[n] # cursor
          BY <1>2, <4>3 DEF IInv, SetsTypeOK, Links, Add
        <5> QED
          BY <1>2, <2>0, <3>2, <4>1, <4>3, <5>1 DEF IInv, SetsTypeOK, Links, Add
      <4> QED
        BY <4>2, <4>3
    <3> QED
      BY <3>1, <3>2
  <2>3. Growing'
    BY <1>2, <2>0 DEF IInv, SetsTypeOK, Links, Growing, Add
  <2>4. Progress'
    BY <1>2, <2>0 DEF IInv, SetsTypeOK, Links, Progress, OnTheWay, Add, SetCalls
  <2> QED
    BY <2>1, <2>2, <2>3, <2>4 DEF IInv
<1>3. CASE Halve
  <2> DEFINE up == parent[parent[cursor]]
  <2>0. cursor \in Nodes /\ parent[cursor] \notin {Nobody, cursor}
    BY <1>3 DEF IInv, SetsTypeOK, Halve
  <2>1. /\ up \in Nodes /\ up # cursor
        /\ leader[up] = leader[cursor] /\ size[cursor] < size[up]
    BY <2>0, Grandparent DEF IInv
  <2>2. /\ parent' = [parent EXCEPT ![cursor] = up]
        /\ cursor' = up
        /\ UNCHANGED <<size, call, side, first, answer, leader>>
    BY <1>3 DEF Halve
  <2>3. parent[up] # Nobody
    BY <2>0 DEF IInv, Links, SetsTypeOK
  <2> HIDE DEF up
  <2>4. SetsTypeOK'
    BY <1>3, <2>0, <2>1, <2>2 DEF IInv, SetsTypeOK, Halve
  <2>5. \A n \in Nodes : parent[n] = n => parent'[n] = n
    BY <2>0, <2>2 DEF IInv, SetsTypeOK
  <2>6. Links'
    <3> SUFFICES ASSUME NEW n \in Nodes
                 PROVE  /\ parent'[n] = Nobody <=> leader'[n] = Nobody
                        /\ parent'[n] = n => leader'[n] = n
                        /\ parent'[n] # Nobody => /\ parent'[parent'[n]] # Nobody
                                                /\ leader'[parent'[n]] = leader'[n]
                                                /\ parent'[leader'[n]] = leader'[n]
      BY DEF Links
    <3>1. CASE n = cursor
      <4>1. parent'[n] = up /\ leader'[n] = leader[cursor] /\ parent'[up] = parent[up]
        BY <2>0, <2>1, <2>2, <3>1 DEF IInv, SetsTypeOK
      <4>2. leader[cursor] \in Nodes /\ parent[leader[cursor]] = leader[cursor]
        BY <2>0 DEF IInv, SetsTypeOK, Links
      <4> QED
        BY <2>0, <2>1, <2>2, <2>3, <2>5, <3>1, <4>1, <4>2
    <3>2. CASE n # cursor
      <4>1. parent'[n] = parent[n]
        BY <2>0, <2>2, <3>2 DEF IInv, SetsTypeOK
      <4>2. \A m \in Nodes : parent[m] # Nobody => parent'[m] # Nobody
        BY <2>0, <2>1, <2>2 DEF IInv, SetsTypeOK
      <4>3. parent[n] # Nobody => parent[n] \in Nodes /\ leader[n] \in Nodes
        BY DEF IInv, SetsTypeOK, Links
      <4> QED
        BY <2>2, <2>5, <4>1, <4>2, <4>3 DEF IInv, Links
    <3> QED
      BY <3>1, <3>2
  <2>7. Growing'
    BY <2>0, <2>1, <2>2 DEF IInv, SetsTypeOK, Growing
  <2>8. Progress'
    <3>1. ASSUME NEW asked \in Nodes, OnTheWay(asked) PROVE OnTheWay(asked)'
      <4>1. parent'[cursor'] # Nobody /\ leader'[cursor'] = leader[cursor]
        BY <2>0, <2>1, <2>2, <2>3 DEF IInv, SetsTypeOK
      <4>2. parent'[asked] # Nobody
        BY <2>0, <2>1, <2>2, <3>1 DEF IInv, SetsTypeOK, OnTheWay
      <4> QED
        BY <2>0, <2>2, <3>1, <4>1, <4>2 DEF OnTheWay
    <3>2. side # "idle" => call.left \in Nodes
      BY DEF IInv, SetsTypeOK, SetCalls
    <3>3. side = "right" => call.right \in Nodes /\ first \in Nodes
      BY DEF IInv, SetsTypeOK, SetCalls
    <3>4. side = "left" => OnTheWay(call.left)'
      BY <2>2, <3>1, <3>2 DEF IInv, Progress
    <3>5. side = "right" => OnTheWay(call.right)'
      BY <2>2, <3>1, <3>3 DEF IInv, Progress
    <3>6. side = "right" => parent'[call.left] # Nobody /\ parent'[first] = first
      BY <2>0, <2>1, <2>2, <2>5, <3>2, <3>3 DEF IInv, Progress, SetsTypeOK
    <3> QED
      BY <2>2, <3>4, <3>5, <3>6 DEF IInv, Progress, OnTheWay
  <2> QED
    BY <2>4, <2>6, <2>7, <2>8 DEF IInv
<1>4. CASE FoundOnly
  BY <1>4 DEF IInv, SetsTypeOK, Links, Growing, Progress, FoundOnly, Reply, AtRoot
<1>5. CASE FoundLeft
  <2>1. SetsTypeOK'
    BY <1>5 DEF IInv, SetsTypeOK, FoundLeft, AtRoot, SetCalls
  <2>2. Links' /\ Growing'
    BY <1>5 DEF IInv, Links, Growing, FoundLeft
  <2>3. Progress'
    BY <1>5 DEF IInv, SetsTypeOK, Links, Progress, OnTheWay, FoundLeft, AtRoot, SetCalls
  <2> QED
    BY <2>1, <2>2, <2>3 DEF IInv
<1>6. CASE FoundSame
  BY <1>6 DEF IInv, SetsTypeOK, Links, Growing, Progress, FoundSame, Reply, AtRoot
<1>7. CASE Link
  <2> DEFINE winner == Bigger(first, cursor)
             loser == IF winner = first THEN cursor ELSE first
  <2>1. /\ winner \in Nodes /\ loser \in Nodes /\ winner # loser
        /\ parent[winner] = winner /\ parent[loser] = loser
        /\ size[loser] <= size[winner]
    BY <1>7 DEF IInv, SetsTypeOK, Progress, Link, AtRoot, Bigger
  <2>2. Attach(winner, loser) /\ Reply(TRUE)
    BY <1>7 DEF Link
  <2> HIDE DEF winner, loser
  <2>3. /\ parent' = [parent EXCEPT ![loser] = winner]
        /\ size' = [size EXCEPT ![winner] = @ + size[loser]]
        /\ leader' = [n \in Nodes |-> IF leader[n] = loser THEN winner ELSE leader[n]]
        /\ side' = "idle" /\ call' = Nobody /\ cursor' = Nobody /\ first' = Nobody /\ answer' = TRUE
    BY <2>2 DEF Attach, Reply
  <2>4. size[winner] \in Nat /\ size[loser] \in Nat /\ size[loser] > 0
    BY <2>1 DEF IInv, SetsTypeOK, Growing
  <2>5. SetsTypeOK'
    BY <2>1, <2>3, <2>4 DEF IInv, SetsTypeOK
  <2>6. leader[winner] = winner /\ leader[loser] = loser
    BY <2>1 DEF IInv, Links
  <2>7. Links'
    <3> SUFFICES ASSUME NEW n \in Nodes
                 PROVE  /\ parent'[n] = Nobody <=> leader'[n] = Nobody
                        /\ parent'[n] = n => leader'[n] = n
                        /\ parent'[n] # Nobody => /\ parent'[parent'[n]] # Nobody
                                                /\ leader'[parent'[n]] = leader'[n]
                                                /\ parent'[leader'[n]] = leader'[n]
      BY DEF Links
    <3>1. CASE n = loser
      BY <2>1, <2>3, <2>6, <3>1 DEF IInv, SetsTypeOK
    <3>2. CASE n # loser
      <4>1. parent'[n] = parent[n]
        BY <2>3, <3>2 DEF IInv, SetsTypeOK
      <4>2. \A m \in Nodes : parent[m] # Nobody => parent'[m] # Nobody
        BY <2>1, <2>3 DEF IInv, SetsTypeOK
      <4>3. parent[n] = Nobody => leader[n] = Nobody /\ leader'[n] = Nobody
        BY <2>1, <2>3 DEF IInv, Links
      <4>4. parent[n] # Nobody => parent[n] \in Nodes /\ leader[n] \in Nodes
        BY DEF IInv, SetsTypeOK, Links
      <4>5. parent[n] # Nobody => leader'[parent[n]] = leader'[n]
        BY <2>3, <4>4 DEF IInv, Links
      <4>6. parent[n] # Nobody => parent'[leader'[n]] = leader'[n] /\ leader'[n] # Nobody
        BY <2>1, <2>3, <4>4 DEF IInv, SetsTypeOK, Links
      <4>7. parent[n] = n => leader'[n] = n
        BY <2>3, <3>2 DEF IInv, Links
      <4> QED
        BY <4>1, <4>2, <4>3, <4>4, <4>5, <4>6, <4>7 DEF IInv, Links
    <3> QED
      BY <3>1, <3>2
  <2>8. Growing'
    <3> SUFFICES ASSUME NEW n \in Nodes
                 PROVE  /\ parent'[n] # Nobody => size'[n] > 0
                        /\ parent'[n] \notin {Nobody, n} => size'[n] < size'[parent'[n]]
      BY DEF Growing
    <3>1. \A m \in Nodes : size[m] \in Nat /\ size'[m] \in Nat /\ size[m] <= size'[m]
      BY <2>1, <2>3, <2>4 DEF IInv, SetsTypeOK
    <3>2. CASE n = loser
      BY <2>1, <2>3, <2>4, <3>2 DEF IInv, SetsTypeOK
    <3>3. CASE n = winner
      BY <2>1, <2>3, <2>4, <3>3 DEF IInv, SetsTypeOK
    <3>4. CASE n \notin {winner, loser}
      <4>1. parent'[n] = parent[n] /\ size'[n] = size[n]
        BY <2>1, <2>3, <3>4 DEF IInv, SetsTypeOK
      <4>2. parent[n] \in Nodes \union {Nobody}
        BY DEF IInv, SetsTypeOK
      <4> QED
        BY <3>1, <4>1, <4>2 DEF IInv, Growing
    <3> QED
      BY <3>2, <3>3, <3>4
  <2>9. Progress'
    BY <2>3 DEF Progress
  <2> QED
    BY <2>5, <2>7, <2>8, <2>9 DEF IInv
<1>8. CASE UNCHANGED setVars
  BY <1>8 DEF IInv, SetsTypeOK, Links, Growing, Progress, OnTheWay, setVars
<1> QED
  BY <1>1, <1>2, <1>3, <1>4, <1>5, <1>6, <1>7, <1>8 DEF SetsNext, Work

\* The invariant holds in every state of find and union.
THEOREM Invariance == SetsSpec => []IInv
BY InitIInv, NextIInv, PTL DEF SetsSpec

\* Every variable of _Union keeps its type for any finite set of nodes, and the
\* locals of a call are set only while it runs.
THEOREM TypeCorrect == SetsSpec => []SetsTypeOK
BY Invariance, PTL DEF IInv

\* find and union answer as Partition does: adding a node is its Enter, the
\* last step of a call is its answer, and every other step is invisible.
THEOREM Refinement == SetsSpec => ImplementsPartition
<1>1. SetsInit => Abstract!Init
  BY DEF SetsInit, Abstract!Init
<1>2. IInv /\ [SetsNext]_setVars => [Abstract!Next]_<<leader, call, answer>>
  <2> SUFFICES ASSUME IInv, [SetsNext]_setVars
               PROVE  Abstract!Next \/ UNCHANGED <<leader, call, answer>>
    OBVIOUS
  <2> USE NodeAssumption
  <2>1. ASSUME NEW c \in SetCalls, Ask(c) PROVE Abstract!Next
    <3>1. Abstract!Ask(c)
      BY <2>1 DEF IInv, SetsTypeOK, Ask, Abstract!Ask
    <3> QED
      BY <3>1 DEF Abstract!Next, Abstract!Calls, SetCalls
  <2>2. CASE Add
    <3>1. cursor \in Nodes /\ call # Nobody /\ cursor \in {call.left, call.right}
      BY <2>2 DEF IInv, SetsTypeOK, Progress, OnTheWay, Add
    <3>2. Abstract!Enter(cursor)
      BY <2>2, <3>1 DEF IInv, Links, Add, Abstract!Enter
    <3> QED
      BY <3>1, <3>2 DEF Abstract!Next
  <2>3. CASE Halve
    BY <2>3 DEF Halve
  <2>4. CASE FoundOnly
    <3>1. cursor \in Nodes /\ call # Nobody /\ call.left \in Nodes
      BY <2>4 DEF IInv, SetsTypeOK, SetCalls, FoundOnly
    <3>2. leader[call.left] = cursor
      BY <2>4, <3>1 DEF IInv, Links, Progress, OnTheWay, FoundOnly, AtRoot
    <3>3. Abstract!AnswerFind
      BY <2>4, <3>1, <3>2 DEF FoundOnly, Reply, Abstract!AnswerFind
    <3> QED
      BY <3>3 DEF Abstract!Next
  <2>5. CASE FoundLeft
    BY <2>5 DEF FoundLeft
  <2>6. CASE side = "right" /\ AtRoot /\ (FoundSame \/ Link)
    <3>1. /\ cursor \in Nodes /\ first \in Nodes /\ call # Nobody
          /\ call.left \in Nodes /\ call.right \in Nodes /\ call.right # Nobody
      BY <2>6 DEF IInv, SetsTypeOK, SetCalls
    <3>2. leader[call.left] = first /\ leader[call.right] = cursor
      BY <2>6, <3>1 DEF IInv, Links, Progress, OnTheWay, AtRoot
    <3>3. CASE FoundSame
      <4>1. leader' = leader /\ answer' = FALSE /\ call' = Nobody /\ first = cursor
        BY <3>3 DEF FoundSame, Reply
      <4>2. leader = Abstract!Merged(first)
        BY <3>1, <3>2, <4>1 DEF IInv, SetsTypeOK, Abstract!Merged
      <4>3. Abstract!AnswerUnite
        BY <3>1, <3>2, <4>1, <4>2 DEF Abstract!AnswerUnite
      <4> QED
        BY <4>3 DEF Abstract!Next
    <3>4. CASE Link
      <4> DEFINE winner == Bigger(first, cursor)
                 loser == IF winner = first THEN cursor ELSE first
      <4>1. /\ leader' = [n \in Nodes |-> IF leader[n] = loser THEN winner ELSE leader[n]]
            /\ answer' = TRUE /\ call' = Nobody /\ first # cursor
        BY <3>4 DEF Link, Attach, Reply
      <4>2. winner \in {first, cursor} /\ {winner, loser} = {first, cursor}
        BY DEF Bigger
      <4>3. leader' = Abstract!Merged(winner)
        <5> HIDE DEF winner, loser
        <5> QED
          BY <3>1, <3>2, <4>1, <4>2 DEF Abstract!Merged
      <4>4. Abstract!AnswerUnite
        <5> HIDE DEF winner, loser
        <5> QED
          BY <3>1, <3>2, <4>1, <4>2, <4>3 DEF Abstract!AnswerUnite
      <4> QED
        BY <4>4 DEF Abstract!Next
    <3> QED
      BY <2>6, <3>3, <3>4
  <2>7. CASE UNCHANGED setVars
    BY <2>7 DEF setVars
  <2> QED
    BY <2>1, <2>2, <2>3, <2>4, <2>5, <2>6, <2>7 DEF SetsNext, Work, FoundSame, Link
<1> QED
  BY <1>1, <1>2, Invariance, PTL DEF SetsSpec, ImplementsPartition, Abstract!Spec, Abstract!vars

\* The members of two groups that become one.
LEMMA JoinedSize ==
  ASSUME SetsTypeOK, NEW winner \in Nodes, NEW loser \in Nodes, winner # loser,
         leader' = [n \in Nodes |-> IF leader[n] = loser THEN winner ELSE leader[n]]
  PROVE  Cardinality({m \in Nodes : leader'[m] = winner}) =
           Cardinality({m \in Nodes : leader[m] = winner})
             + Cardinality({m \in Nodes : leader[m] = loser})
<1> DEFINE W == {m \in Nodes : leader[m] = winner}
           L == {m \in Nodes : leader[m] = loser}
<1>1. {m \in Nodes : leader'[m] = winner} = W \union L
  BY NodeAssumption DEF SetsTypeOK
<1>2. IsFiniteSet(W) /\ IsFiniteSet(L)
  BY NodeAssumption, FS_Subset
<1>3. W \intersect L = {} /\ IsFiniteSet({})
  BY FS_EmptySet
<1>4. Cardinality(W) \in Nat /\ Cardinality(L) \in Nat
  BY <1>2, FS_CardinalityType
<1> HIDE DEF W, L
<1>5. Cardinality(W \union L) = Cardinality(W) + Cardinality(L)
  <2>1. Cardinality(W \union L) = Cardinality(W) + Cardinality(L) - Cardinality(W \intersect L)
    BY <1>2, FS_Union
  <2>2. Cardinality(W \intersect L) = 0
    BY <1>3, FS_EmptySet
  <2> QED
    BY <1>4, <2>1, <2>2
<1> QED
  BY <1>1, <1>5 DEF W, L

\* The size that union compares is the number of nodes in the group, for any
\* finite set of nodes and any sequence of calls.
THEOREM SizesAreCounts == SetsSpec => []SizesCount
<1>1. SetsInit => SizesCount
  BY DEF SetsInit, SizesCount, Known
<1>2. IInv /\ SizesCount /\ [SetsNext]_setVars => SizesCount'
  <2> SUFFICES ASSUME IInv, SizesCount, [SetsNext]_setVars,
                      NEW n \in Nodes, parent'[n] # Nobody, parent'[n] = n
               PROVE  size'[n] = Cardinality({m \in Nodes : leader'[m] = n})
    BY DEF SizesCount, Known
  <2> USE NodeAssumption
  <2>1. CASE UNCHANGED <<parent, size, leader>>
    BY <2>1 DEF SizesCount, Known
  <2>2. CASE Add
    <3>0. cursor \in Nodes
      BY <2>2 DEF IInv, SetsTypeOK, Add
    <3>1. \A m \in Nodes : leader[m] # cursor
      BY <2>2, <3>0 DEF IInv, SetsTypeOK, Links, Add
    <3>2. CASE n = cursor
      <4>1. {m \in Nodes : leader'[m] = n} = {cursor}
        BY <2>2, <3>0, <3>1, <3>2 DEF IInv, SetsTypeOK, Add
      <4>2. size'[n] = 1
        BY <2>2, <3>0, <3>2 DEF IInv, SetsTypeOK, Add
      <4> QED
        BY <4>1, <4>2, FS_Singleton
    <3>3. CASE n # cursor
      <4>1. {m \in Nodes : leader'[m] = n} = {m \in Nodes : leader[m] = n}
        BY <2>2, <3>0, <3>3 DEF IInv, SetsTypeOK, Links, Add
      <4>2. size'[n] = size[n] /\ parent[n] = parent'[n]
        BY <2>2, <3>0, <3>3 DEF IInv, SetsTypeOK, Add
      <4> QED
        BY <4>1, <4>2 DEF SizesCount, Known
    <3> QED
      BY <3>2, <3>3
  <2>3. CASE Halve
    <3>1. cursor \in Nodes /\ parent[cursor] \notin {Nobody, cursor}
      BY <2>3 DEF IInv, SetsTypeOK, Halve
    <3>2. parent[parent[cursor]] # cursor
      BY <3>1, Grandparent DEF IInv
    <3>3. parent[n] = n
      BY <2>3, <3>1, <3>2 DEF IInv, SetsTypeOK, Halve
    <3> QED
      BY <2>3, <3>3 DEF SizesCount, Known, Halve
  <2>4. CASE Link
    <3> DEFINE winner == Bigger(first, cursor)
               loser == IF winner = first THEN cursor ELSE first
    <3>1. /\ winner \in Nodes /\ loser \in Nodes /\ winner # loser
          /\ parent[winner] = winner /\ parent[loser] = loser
      BY <2>4 DEF IInv, SetsTypeOK, Progress, Link, AtRoot, Bigger
    <3>2. Attach(winner, loser)
      BY <2>4 DEF Link
    <3> HIDE DEF winner, loser
    <3>3. /\ parent' = [parent EXCEPT ![loser] = winner]
          /\ size' = [size EXCEPT ![winner] = @ + size[loser]]
          /\ leader' = [m \in Nodes |-> IF leader[m] = loser THEN winner ELSE leader[m]]
      BY <3>2 DEF Attach
    <3>4. n # loser /\ parent[n] = n
      BY <3>1, <3>3 DEF IInv, SetsTypeOK
    <3>5. CASE n = winner
      <4>1. size'[n] = size[winner] + size[loser]
        BY <3>1, <3>3, <3>5 DEF IInv, SetsTypeOK
      <4>2. /\ size[winner] = Cardinality({m \in Nodes : leader[m] = winner})
            /\ size[loser] = Cardinality({m \in Nodes : leader[m] = loser})
        BY <3>1 DEF SizesCount, Known
      <4> QED
        BY <3>1, <3>3, <3>5, <4>1, <4>2, JoinedSize DEF IInv
    <3>6. CASE n # winner
      <4>1. {m \in Nodes : leader'[m] = n} = {m \in Nodes : leader[m] = n}
        BY <3>3, <3>4, <3>6 DEF IInv, SetsTypeOK
      <4>2. size'[n] = size[n]
        BY <3>3, <3>6 DEF IInv, SetsTypeOK
      <4> QED
        BY <3>4, <4>1, <4>2 DEF SizesCount, Known
    <3> QED
      BY <3>5, <3>6
  <2> QED
    BY <2>1, <2>2, <2>3, <2>4
       DEF SetsNext, Work, Ask, FoundOnly, FoundLeft, FoundSame, setVars
<1> QED
  BY <1>1, <1>2, Invariance, PTL DEF SetsSpec
=============================================================================
