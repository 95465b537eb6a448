------------------------- MODULE IncludeLoaderProofs -------------------------
(***************************************************************************)
(* What loading a bundle comes to, for any number of names, any texts and  *)
(* any edits: its budgets and the single traversal of each deck, and what  *)
(* IncludeReference says of the digests, the edges, the cycles and the     *)
(* .param cards.  The inductive invariant says where on its path the       *)
(* traversal has been: an item behind the position of an open deck, or any *)
(* item of a closed one, may have been taken, and a deck that is not       *)
(* loaded has had none taken.  What was found is related to that place.    *)
(***************************************************************************)
EXTENDS IncludeReference, FiniteSetTheorems, SequenceTheorems, TLAPS

-----------------------------------------------------------------------------
(* Sums over finite sets. *)

\* Induction on the natural numbers, for a set of them.
LEMMA SetOfAllNaturals ==
  ASSUME NEW S \in SUBSET Nat, 0 \in S, \A k \in S : k + 1 \in S
  PROVE  S = Nat
<1> DEFINE T == Nat \ S
<1>1. SUFFICES ASSUME T # {} PROVE FALSE
  OBVIOUS
<1>2. PICK m \in T : \A k \in T : <<k, m>> \notin OpToRel(<, Nat)
  <2>1. T \subseteq Nat
    OBVIOUS
  <2> HIDE DEF T
  <2> QED
    BY <1>1, <2>1, WFMin, NatLessThanWellFounded, Zenon
<1>3. \A k \in T : ~(k < m)
  BY <1>2 DEF OpToRel
<1>4. m - 1 \notin T /\ m # 0 /\ m \in Nat /\ m \notin S
  BY <1>3
<1> QED
  BY <1>4

Some(s) == CHOOSE x \in s : TRUE

\* Induction on the subsets of a finite set, for a set of them.
LEMMA SetInduction ==
  ASSUME NEW D, IsFiniteSet(D), NEW P \in SUBSET (SUBSET D),
         \A s \in SUBSET D : (\A x \in s : s \ {x} \in P) => s \in P
  PROVE  P = SUBSET D
<1> DEFINE S == {k \in Nat : \A s \in SUBSET D : Cardinality(s) <= k => s \in P}
<1>1. \A s \in SUBSET D : IsFiniteSet(s) /\ Cardinality(s) \in Nat
  BY FS_Subset, FS_CardinalityType
<1>2. 0 \in S
  <2>1. ASSUME NEW s \in SUBSET D, Cardinality(s) <= 0
        PROVE  s \in P
    <3>1. s = {}
      BY <1>1, <2>1, FS_EmptySet
    <3> QED
      BY <3>1
  <2> QED
    BY <2>1
<1>3. ASSUME NEW k \in S
      PROVE  k + 1 \in S
  <2>1. ASSUME NEW s \in SUBSET D, Cardinality(s) <= k + 1
        PROVE  s \in P
    <3>1. ASSUME NEW x \in s
          PROVE  s \ {x} \in P
      <4>1. Cardinality(s \ {x}) = Cardinality(s) - 1
        BY <1>1, FS_RemoveElement
      <4> QED
        BY <1>1, <2>1, <4>1
    <3> QED
      BY <3>1
  <2> QED
    BY <2>1
<1>4. S = Nat
  <2>1. S \in SUBSET Nat
    OBVIOUS
  <2> HIDE DEF S
  <2> QED
    BY <1>2, <1>3, <2>1, SetOfAllNaturals
<1>5. ASSUME NEW s \in SUBSET D
      PROVE  s \in P
  <2>1. Cardinality(s) \in S
    BY <1>1, <1>4
  <2> QED
    BY <1>1, <2>1
<1> QED
  BY <1>5

\* What is taken from a set can be combined with what the rest comes to.
Step(base, step, it, s) == IF s = {} THEN base ELSE step[<<Some(s), it[s \ {Some(s)}]>>]

LEMMA SetRecursion ==
  ASSUME NEW D, IsFiniteSet(D), NEW V, NEW base \in V, NEW step \in [D \X V -> V]
  PROVE  \E it \in [SUBSET D -> V] : \A s \in SUBSET D : it[s] = Step(base, step, it, s)
<1> DEFINE Upto(g, k) == \A s \in SUBSET D : Cardinality(s) <= k => g[s] = Step(base, step, g, s)
           S == {k \in Nat : \E g \in [SUBSET D -> V] : Upto(g, k)}
<1>1. \A s \in SUBSET D : IsFiniteSet(s) /\ Cardinality(s) \in Nat /\ Cardinality(s) <= Cardinality(D)
  BY FS_Subset, FS_CardinalityType
<1>2. ASSUME NEW s \in SUBSET D, s # {}
      PROVE  /\ Some(s) \in D /\ s \ {Some(s)} \in SUBSET D
             /\ Cardinality(s \ {Some(s)}) = Cardinality(s) - 1
  <2>1. Some(s) \in s
    BY <1>2 DEF Some
  <2>2. Cardinality(s \ {Some(s)}) = Cardinality(s) - 1
    BY <1>1, <2>1, FS_RemoveElement
  <2> QED
    BY <2>1, <2>2
<1>3. 0 \in S
  <2> DEFINE g == [s \in SUBSET D |-> base]
  <2>1. g \in [SUBSET D -> V]
    OBVIOUS
  <2>2. ASSUME NEW s \in SUBSET D, Cardinality(s) <= 0
        PROVE  g[s] = Step(base, step, g, s)
    <3>1. s = {}
      BY <1>1, <2>2, FS_EmptySet
    <3> QED
      BY <3>1 DEF Step
  <2> HIDE DEF g
  <2> QED
    BY <2>1, <2>2
<1>4. ASSUME NEW k \in S
      PROVE  k + 1 \in S
  <2>1. PICK g \in [SUBSET D -> V] : Upto(g, k)
    OBVIOUS
  <2> DEFINE h == [s \in SUBSET D |-> Step(base, step, g, s)]
  <2>2. ASSUME NEW s \in SUBSET D
        PROVE  Step(base, step, g, s) \in V
    <3>1. CASE s = {}
      BY <3>1 DEF Step
    <3>2. CASE s # {}
      <4>1. Some(s) \in D /\ g[s \ {Some(s)}] \in V
        BY <1>2, <3>2
      <4>2. step[<<Some(s), g[s \ {Some(s)}]>>] \in V
        BY <4>1
      <4> QED
        BY <3>2, <4>2 DEF Step
    <3> QED
      BY <3>1, <3>2
  <2>3. h \in [SUBSET D -> V] /\ \A s \in SUBSET D : h[s] = Step(base, step, g, s)
    BY <2>2
  <2> HIDE DEF h
  <2>4. ASSUME NEW s \in SUBSET D, Cardinality(s) <= k + 1
        PROVE  h[s] = Step(base, step, h, s)
    <3>1. CASE s = {}
      BY <2>3, <3>1 DEF Step
    <3>2. CASE s # {}
      <4> DEFINE t == s \ {Some(s)}
      <4>1. t \in SUBSET D /\ Cardinality(t) <= k
        BY <1>1, <1>2, <2>4, <3>2
      <4>2. h[t] = g[t]
        BY <2>1, <2>3, <4>1
      <4> HIDE DEF t
      <4> QED
        BY <2>3, <3>2, <4>2 DEF Step, t
    <3> QED
      BY <3>1, <3>2
  <2> QED
    BY <2>3, <2>4
<1>5. S = Nat
  <2>1. S \in SUBSET Nat
    OBVIOUS
  <2> HIDE DEF S
  <2> QED
    BY <1>3, <1>4, <2>1, SetOfAllNaturals
<1>6. Cardinality(D) \in S
  BY <1>1, <1>5
<1> QED
  BY <1>1, <1>6

\* What SumFunction computes for each part of a set.
SumOver(f, it, s) == IF s = {} THEN 0 ELSE f[Some(s)] + it[s \ {Some(s)}]
Sums(f, D) == CHOOSE it : it = [s \in SUBSET D |-> SumOver(f, it, s)]

LEMMA SumIs ==
  ASSUME NEW f
  PROVE  SumFunction(f) = Sums(f, DOMAIN f)[DOMAIN f]
<1>1. SumFunction(f)
        = (CHOOSE it : it = [s \in SUBSET (DOMAIN f) |->
              IF s = {} THEN 0 ELSE f[CHOOSE x \in s : TRUE] + it[s \ {CHOOSE x \in s : TRUE}]])[DOMAIN f]
  BY Zenon DEF SumFunction, SumFunctionOnSet, FoldFunctionOnSet, MapThenFoldSet
<1> QED
  BY <1>1, Zenon DEF Sums, SumOver, Some

LEMMA SumsExist ==
  ASSUME NEW D, IsFiniteSet(D), NEW f \in [D -> Nat]
  PROVE  /\ Sums(f, D) \in [SUBSET D -> Nat]
         /\ \A s \in SUBSET D : Sums(f, D)[s] = SumOver(f, Sums(f, D), s)
<1> DEFINE step == [p \in D \X Nat |-> f[p[1]] + p[2]]
           P == {s \in SUBSET D : Sums(f, D)[s] \in Nat}
<1>1. step \in [D \X Nat -> Nat] /\ \A x \in D, k \in Nat : step[<<x, k>>] = f[x] + k
  OBVIOUS
<1> HIDE DEF step
<1>2. PICK g \in [SUBSET D -> Nat] : \A s \in SUBSET D : g[s] = Step(0, step, g, s)
  <2>1. \A V : \A base \in V, add \in [D \X V -> V] :
          \E g \in [SUBSET D -> V] : \A s \in SUBSET D : g[s] = Step(base, add, g, s)
    BY SetRecursion
  <2>2. 0 \in Nat /\ step \in [D \X Nat -> Nat]
    BY <1>1
  <2> QED
    BY <2>1, <2>2, Zenon
<1>3. ASSUME NEW s \in SUBSET D
      PROVE  g[s] = SumOver(f, g, s)
  <2>1. CASE s = {}
    BY <1>2, <2>1 DEF Step, SumOver
  <2>2. CASE s # {}
    <3>1. Some(s) \in D /\ g[s \ {Some(s)}] \in Nat
      BY <2>2 DEF Some
    <3> QED
      BY <1>1, <1>2, <2>2, <3>1 DEF Step, SumOver
  <2> QED
    BY <2>1, <2>2
<1>4. g = [s \in SUBSET D |-> SumOver(f, g, s)]
  BY <1>3
<1>5. Sums(f, D) = [s \in SUBSET D |-> SumOver(f, Sums(f, D), s)]
  BY <1>4, Zenon DEF Sums
<1>6. ASSUME NEW s \in SUBSET D, \A x \in s : s \ {x} \in P
      PROVE  s \in P
  <2>1. CASE s = {}
    BY <1>5, <2>1 DEF SumOver
  <2>2. CASE s # {}
    <3>1. Some(s) \in s
      BY <2>2 DEF Some
    <3>2. Sums(f, D)[s] = f[Some(s)] + Sums(f, D)[s \ {Some(s)}]
      BY <1>5, <2>2 DEF SumOver
    <3>3. Sums(f, D)[s \ {Some(s)}] \in Nat /\ f[Some(s)] \in Nat
      BY <1>6, <3>1
    <3> QED
      BY <3>2, <3>3
  <2> QED
    BY <2>1, <2>2
<1>7. P = SUBSET D
  <2>1. P \in SUBSET (SUBSET D)
    OBVIOUS
  <2> HIDE DEF P
  <2> QED
    BY <1>6, <2>1, SetInduction
<1> QED
  BY <1>5, <1>7

\* Any element can be taken from the sum first.
LEMMA TakenFirst ==
  ASSUME NEW D, IsFiniteSet(D), NEW f \in [D -> Nat], NEW s \in SUBSET D, NEW c \in s
  PROVE  Sums(f, D)[s] = f[c] + Sums(f, D)[s \ {c}]
<1> DEFINE it == Sums(f, D)
           P == {t \in SUBSET D : \A d \in t : it[t] = f[d] + it[t \ {d}]}
<1>1. it \in [SUBSET D -> Nat] /\ \A t \in SUBSET D : it[t] = SumOver(f, it, t)
  BY SumsExist
<1> HIDE DEF it
<1>2. ASSUME NEW t \in SUBSET D, \A x \in t : t \ {x} \in P, NEW d \in t
      PROVE  it[t] = f[d] + it[t \ {d}]
  <2> DEFINE x == Some(t)
  <2>1. x \in t
    BY DEF Some
  <2>2. it[t] = f[x] + it[t \ {x}]
    BY <1>1 DEF SumOver
  <2> HIDE DEF x
  <2>3. CASE x = d
    BY <2>2, <2>3
  <2>4. CASE x # d
    <3> DEFINE rest == it[(t \ {d}) \ {x}]
    <3>1. (t \ {x}) \ {d} = (t \ {d}) \ {x} /\ (t \ {d}) \ {x} \in SUBSET D
      OBVIOUS
    <3>2. it[t \ {x}] = f[d] + rest /\ it[t \ {d}] = f[x] + rest
      BY <1>2, <2>1, <2>4, <3>1
    <3>3. f[x] \in Nat /\ f[d] \in Nat /\ rest \in Nat
      <4>1. x \in D /\ d \in D
        BY <2>1
      <4> QED
        BY <1>1, <3>1, <4>1
    <3> HIDE DEF rest
    <3> QED
      BY <2>2, <3>2, <3>3
  <2> QED
    BY <2>3, <2>4
<1>3. P = SUBSET D
  <2>1. P \in SUBSET (SUBSET D) /\ \A t \in SUBSET D : (\A x \in t : t \ {x} \in P) => t \in P
    BY <1>2
  <2> HIDE DEF P
  <2> QED
    BY <2>1, SetInduction
<1> QED
  BY <1>3 DEF it

\* The sum over the parts of a set is the same within a larger one.
LEMMA SumWithin ==
  ASSUME NEW D, IsFiniteSet(D), NEW f \in [D -> Nat],
         NEW E, IsFiniteSet(E), NEW g \in [E -> Nat], D \subseteq E, \A d \in D : g[d] = f[d]
  PROVE  Sums(g, E)[D] = Sums(f, D)[D]
<1> DEFINE a == Sums(f, D)
           b == Sums(g, E)
           P == {t \in SUBSET D : b[t] = a[t]}
<1>1. /\ \A t \in SUBSET D : a[t] = SumOver(f, a, t)
      /\ \A t \in SUBSET E : b[t] = SumOver(g, b, t)
  BY SumsExist
<1> HIDE DEF a, b
<1>2. ASSUME NEW t \in SUBSET D, \A x \in t : t \ {x} \in P
      PROVE  b[t] = a[t]
  <2>1. CASE t = {}
    BY <1>1, <2>1 DEF SumOver
  <2>2. CASE t # {}
    <3> DEFINE x == Some(t)
    <3>1. x \in t
      BY <2>2 DEF Some
    <3>2. a[t] = f[x] + a[t \ {x}] /\ b[t] = g[x] + b[t \ {x}]
      BY <1>1, <2>2 DEF SumOver
    <3> HIDE DEF x
    <3>3. b[t \ {x}] = a[t \ {x}] /\ g[x] = f[x]
      BY <1>2, <3>1
    <3> QED
      BY <3>2, <3>3
  <2> QED
    BY <2>1, <2>2
<1>3. P = SUBSET D
  <2>1. P \in SUBSET (SUBSET D) /\ \A t \in SUBSET D : (\A x \in t : t \ {x} \in P) => t \in P
    BY <1>2
  <2> HIDE DEF P
  <2> QED
    BY <2>1, SetInduction
<1> QED
  BY <1>3 DEF a, b

\* One more summand.
LEMMA OneMoreSummand ==
  ASSUME NEW D, IsFiniteSet(D), NEW f \in [D -> Nat], NEW x, x \notin D,
         NEW g \in [D \union {x} -> Nat], \A d \in D : g[d] = f[d]
  PROVE  SumFunction(g) = SumFunction(f) + g[x]
<1> DEFINE E == D \union {x}
<1>1. IsFiniteSet(E) /\ E \in SUBSET E /\ x \in E /\ E \ {x} = D /\ D \subseteq E
  BY FS_AddElement
<1>2. DOMAIN f = D /\ DOMAIN g = E /\ g \in [E -> Nat]
  OBVIOUS
<1> HIDE DEF E
<1>3. Sums(g, E)[E] = g[x] + Sums(g, E)[D]
  BY <1>1, <1>2, TakenFirst
<1>4. Sums(g, E)[D] = Sums(f, D)[D]
  BY <1>1, <1>2, SumWithin
<1>5. Sums(f, D)[D] \in Nat /\ g[x] \in Nat
  <2>1. Sums(f, D) \in [SUBSET D -> Nat] /\ D \in SUBSET D
    BY SumsExist
  <2> HIDE DEF Sums
  <2> QED
    BY <1>1, <1>2, <2>1
<1>6. SumFunction(g) = Sums(g, E)[E] /\ SumFunction(f) = Sums(f, D)[D]
  BY <1>2, SumIs
<1> QED
  BY <1>3, <1>4, <1>5, <1>6

\* The sum of nothing.
LEMMA SumOfNone ==
  ASSUME NEW f, DOMAIN f = {}
  PROVE  SumFunction(f) = 0
<1>1. f \in [{} -> Nat]
  OBVIOUS
<1>2. Sums(f, {})[{}] = SumOver(f, Sums(f, {}), {})
  BY <1>1, SumsExist, FS_EmptySet
<1> QED
  BY <1>2, SumIs DEF SumOver

-----------------------------------------------------------------------------
(* Texts that are joined, and rows of them. *)

\* What FlattenSeq computes for each of the first sequences.
Flat(s, g, i) == IF i = 1 THEN s[i] ELSE g[i - 1] \o s[i]
Flattening(s) == CHOOSE g : g = [i \in 1 .. Len(s) |-> Flat(s, g, i)]

LEMMA FlattenIs ==
  ASSUME NEW V, NEW s \in Seq(Seq(V)), NEW f \in [Nat -> Seq(V)], f[0] = <<>>,
         \A i \in 1 .. Len(s) : f[i] = f[i - 1] \o s[i]
  PROVE  FlattenSeq(s) = f[Len(s)]
<1> DEFINE L == Len(s)
           g == Flattening(s)
           h == [i \in 1 .. L |-> f[i]]
           P == {k \in Nat : k \in 1 .. L => g[k] = f[k]}
<1>1. L \in Nat /\ \A i \in 1 .. L : s[i] \in Seq(V)
  <2>1. L \in Nat /\ DOMAIN s = 1 .. L
    BY LenProperties
  <2> QED
    BY <2>1, ElementOfSeq
<1>2. CASE L = 0
  <2>1. s = <<>>
    BY <1>2, EmptySeq
  <2>2. FlattenSeq(s) = s
    BY <1>2 DEF FlattenSeq
  <2> QED
    BY <1>2, <2>1, <2>2
<1>3. CASE L # 0
  <2>1. FlattenSeq(s) = g[L]
    BY <1>3, Zenon DEF FlattenSeq, Flattening, Flat
  <2>2. ASSUME NEW i \in 1 .. L
        PROVE  f[i] = Flat(s, f, i)
    <3>1. CASE i = 1
      <4>1. s[1] \in Seq(V) /\ f[1] = f[0] \o s[1]
        <5>1. 1 \in 1 .. L /\ 1 - 1 = 0
          BY <2>2, <3>1
        <5>2. f[1] = f[1 - 1] \o s[1]
          BY <5>1
        <5>3. s[1] \in Seq(V)
          BY <1>1, <5>1
        <5> QED
          BY <5>1, <5>2, <5>3
      <4>2. <<>> \o s[1] = s[1]
        BY <4>1
      <4> QED
        BY <3>1, <4>1, <4>2 DEF Flat
    <3>2. CASE i # 1
      BY <2>2, <3>2 DEF Flat
    <3> QED
      BY <3>1, <3>2
  <2>3. \A i \in 1 .. L : i # 1 => i - 1 \in 1 .. L
    BY <1>1
  <2>4. h = [i \in 1 .. L |-> Flat(s, h, i)]
    BY <2>2, <2>3 DEF Flat
  <2> HIDE DEF h
  <2>5. g = [i \in 1 .. L |-> Flat(s, g, i)]
    BY <2>4, Zenon DEF Flattening
  <2> HIDE DEF g, L
  <2>6. ASSUME NEW k \in Nat, k + 1 \in 1 .. L
        PROVE  g[k + 1] = Flat(s, g, k + 1) /\ f[k + 1] = Flat(s, f, k + 1)
    BY <2>2, <2>5, <2>6
  <2>7. ASSUME NEW k \in Nat, NEW e
        PROVE  Flat(s, e, k + 1) = IF k = 0 THEN s[1] ELSE e[k] \o s[k + 1]
    <3>1. k + 1 - 1 = k /\ (k + 1 = 1 <=> k = 0)
      OBVIOUS
    <3> QED
      BY <3>1 DEF Flat
  <2>8. 0 \in P
    OBVIOUS
  <2>9. ASSUME NEW k \in P
        PROVE  k + 1 \in P
    <3>1. ASSUME k + 1 \in 1 .. L
          PROVE  g[k + 1] = f[k + 1]
      <4>1. k \in Nat /\ (k = 0 \/ k \in 1 .. L)
        BY <1>1, <3>1
      <4>2. k = 0 \/ g[k] = f[k]
        BY <4>1
      <4>3. /\ g[k + 1] = IF k = 0 THEN s[1] ELSE g[k] \o s[k + 1]
            /\ f[k + 1] = IF k = 0 THEN s[1] ELSE f[k] \o s[k + 1]
        BY <2>6, <2>7, <3>1, <4>1
      <4> QED
        BY <4>2, <4>3
    <3> QED
      BY <3>1
  <2>10. P = Nat
    <3>1. P \in SUBSET Nat
      OBVIOUS
    <3> HIDE DEF P
    <3> QED
      BY <2>8, <2>9, <3>1, SetOfAllNaturals
  <2>11. \A k \in 1 .. L : g[k] = f[k]
    <3>1. \A k \in P : k \in 1 .. L => g[k] = f[k]
      OBVIOUS
    <3>2. \A k \in 1 .. L : k \in P
      <4> HIDE DEF P
      <4> QED
        BY <1>1, <2>10
    <3> HIDE DEF P
    <3> QED
      BY <3>1, <3>2
  <2>12. L \in 1 .. L
    BY <1>1, <1>3
  <2> QED
    BY <2>1, <2>11, <2>12 DEF L
<1> QED
  BY <1>2, <1>3

Place == Names \X (Nat \ {0})

LEMMA PlaceAppended ==
  ASSUME NEW a \in Seq(Place), NEW b \in Seq(Place), NEW x \in Place
  PROVE  Append(a \o b, x) = a \o Append(b, x)
OBVIOUS

LEMMA PlacesJoined ==
  ASSUME NEW a \in Seq(Place), NEW b \in Seq(Place), NEW c \in Seq(Place)
  PROVE  (a \o b) \o c = a \o (b \o c)
OBVIOUS

\* What the first items of each deck come to.
Rows == [Names -> [Nat -> Seq(Place)]]

LEMMA RowType ==
  ASSUME NEW pre \in Rows
  PROVE  /\ \A n \in Names : pre[n] \in [Nat -> Seq(Place)]
         /\ \A n \in Names, j \in Nat : pre[n][j] \in Seq(Place)
<1>1. \A n \in Names : pre[n] \in [Nat -> Seq(Place)]
  BY DEF Rows
<1> QED
  BY <1>1

LEMMA RowExtended ==
  ASSUME NEW pre \in Rows, NEW n \in Names, NEW j \in Nat, NEW v \in Seq(Place)
  PROVE  \E new \in Rows : /\ new[n][j] = v
                           /\ \A x \in Names, y \in Nat : x # n \/ y # j => new[x][y] = pre[x][y]
<1> DEFINE new == [x \in Names |-> [y \in Nat |-> IF x = n /\ y = j THEN v ELSE pre[x][y]]]
<1>1. \A x \in Names, y \in Nat : pre[x][y] \in Seq(Place)
  BY DEF Rows
<1> HIDE DEF Place
<1>2. new \in Rows
  BY <1>1 DEF Rows
<1>3. new[n][j] = v /\ \A x \in Names, y \in Nat : x # n \/ y # j => new[x][y] = pre[x][y]
  OBVIOUS
<1> HIDE DEF new
<1> QED
  BY <1>2, <1>3

LEMMA SumExtended ==
  ASSUME NEW acc \in [Nat -> Seq(Place)], NEW j \in Nat, NEW v \in Seq(Place)
  PROVE  \E new \in [Nat -> Seq(Place)] : new[j] = v /\ \A y \in Nat : y # j => new[y] = acc[y]
<1> DEFINE new == [acc EXCEPT ![j] = v]
<1>1. new \in [Nat -> Seq(Place)] /\ new[j] = v /\ \A y \in Nat : y # j => new[y] = acc[y]
  OBVIOUS
<1> HIDE DEF new
<1> QED
  BY <1>1

-----------------------------------------------------------------------------
(* Types and budgets. *)

USE LimitAssumption, TextAssumption, DiskAssumption, DistinctAssumption

Frame == [path : Names, at : Nat \ {0}]

\* An item of a deck that the traversal has passed.
Passed(n, i) ==
  /\ decks[n] # None
  /\ \A k \in DOMAIN active : active[k].path = n => i < active[k].at

\* The decks on the path are loaded and different, and every edge and parameter
\* that was found is of an item the traversal has passed.
Traversal ==
  /\ \A n \in Names : decks[n] # None => decks[n].form = "deck"
  /\ \A k \in DOMAIN active : decks[active[k].path] # None
  /\ \A k, l \in DOMAIN active : active[k].path = active[l].path => k = l
  /\ \A k \in DOMAIN edges : Passed(edges[k][1], edges[k][2])
  /\ \A k \in DOMAIN params : Passed(params[k][1], params[k][2])

IInv == TypeOK /\ WithinBudgets /\ Traversal /\ EachItemOnce

-----------------------------------------------------------------------------
\* What resolving a name returns is a text on disk or nothing.
LEMMA CanonicalType ==
  ASSUME NEW n
  PROVE  Canonical(n) # None => Canonical(n) \in Names /\ disk[Canonical(n)] \in Texts
BY DEF Canonical, Regular

\* A text that can be returned is a text.
LEMMA TextOfType ==
  ASSUME TypeOK, NEW n
  PROVE  TextOf(n) # None => /\ TextOf(n) \in Texts
                             /\ Canonical(n) \in Names /\ disk[Canonical(n)] \in Texts
                             /\ texts[Canonical(n)] = None => Readable(Canonical(n))
BY CanonicalType DEF TextOf, TypeOK

\* A read that keeps to the budgets is of the whole file.
LEMMA WholeRead ==
  ASSUME TypeOK, WithinBudgets, NEW t \in Texts,
         BytesRead(t) <= MaxFileBytes, total + BytesRead(t) <= MaxTotalBytes
  PROVE  BytesRead(t) = t.bytes /\ BytesRead(t) \in Nat
<1>1. t.bytes \in Nat /\ total \in Nat /\ total <= MaxTotalBytes
  BY DEF TypeOK, WithinBudgets
<1> QED
  BY <1>1 DEF BytesRead, MinNat

\* Keeping a text that was returned keeps the types and the budgets.
LEMMA RememberKeeps ==
  ASSUME TypeOK, WithinBudgets, NEW n, TextOf(n) # None, Remember(n)
  PROVE  /\ texts' \in [Names -> Texts \union {None}]
         /\ total' \in Nat /\ total' <= MaxTotalBytes
         /\ Cardinality(Files') <= MaxFiles
         /\ \A c \in Files' : texts'[c].bytes <= MaxFileBytes
<1> DEFINE c == Canonical(n)
<1>1. c \in Names /\ disk[c] \in Texts
  BY TextOfType
<1>2. CASE texts[c] # None
  BY <1>2 DEF Remember, TypeOK, WithinBudgets, Files
<1>3. CASE texts[c] = None
  <2>1. Readable(c)
    BY <1>3, TextOfType
  <2>2. texts' = [texts EXCEPT ![c] = disk[c]] /\ total' = total + BytesRead(disk[c])
    BY <1>3 DEF Remember
  <2>3. BytesRead(disk[c]) = disk[c].bytes /\ BytesRead(disk[c]) \in Nat
    BY <1>1, <2>1, WholeRead DEF Readable
  <2>4. disk[c].bytes <= MaxFileBytes /\ total + BytesRead(disk[c]) <= MaxTotalBytes
    BY <2>1, <2>3 DEF Readable
  <2>5. Files' = Files \union {c}
    BY <1>1, <2>2 DEF Files, TypeOK
  <2>6. IsFiniteSet(Files) /\ c \notin Files
    BY <1>3, FS_Subset DEF Files
  <2>7. Cardinality(Files') = Cardinality(Files) + 1 /\ Cardinality(Files) \in Nat
    BY <2>5, <2>6, FS_AddElement, FS_CardinalityType
  <2>8. Cardinality(Files) < MaxFiles
    BY <2>1 DEF Readable
  <2> HIDE DEF c
  <2> QED
    BY <1>1, <2>2, <2>3, <2>4, <2>5, <2>7, <2>8 DEF TypeOK, WithinBudgets, Files
<1> QED
  BY <1>2, <1>3

-----------------------------------------------------------------------------
\* The top of the path is one of its frames, and its deck is loaded.
LEMMA TopOfPath ==
  ASSUME TypeOK, Traversal, Stepping
  PROVE  /\ Len(active) \in DOMAIN active
         /\ Top \in Frame /\ Top.path \in Names /\ Top.at \in Nat \ {0}
         /\ decks[Top.path] \in Texts
<1>1. active \in Seq(Frame) /\ active # <<>>
  BY DEF TypeOK, Stepping, Frame
<1>2. Len(active) \in 1 .. Len(active)
  BY <1>1, EmptySeq, LenProperties
<1>3. Len(active) \in DOMAIN active
  BY <1>1, <1>2, LenProperties
<1>4. Top \in Frame
  BY <1>1, <1>3, ElementOfSeq DEF Top
<1>5. Top.path \in Names /\ Top.at \in Nat \ {0}
  BY <1>4 DEF Frame
<1> QED
  BY <1>3, <1>4, <1>5 DEF Traversal, TypeOK, Top

\* An item that is there is a name or one of the two other kinds.
LEMMA ItemType ==
  ASSUME TypeOK, Traversal, Stepping, HasItem
  PROVE  Resolved # None => Resolved \in Names
<1>1. CASE Item = Unsafe
  BY <1>1 DEF Resolved
<1>2. CASE Item # Unsafe
  BY <1>2, CanonicalType DEF Resolved
<1> QED
  BY <1>1, <1>2

\* Advancing passes the item on top, and no item that was passed comes back.
LEMMA AdvancePasses ==
  ASSUME TypeOK, Traversal, Stepping, Advance, UNCHANGED decks
  PROVE  /\ active' \in Seq(Frame) /\ Len(active') = Len(active)
         /\ DOMAIN active' = DOMAIN active
         /\ \A k \in DOMAIN active : active'[k].path = active[k].path
         /\ \A n \in Names, i \in Nat : Passed(n, i) => Passed(n, i)'
         /\ \A n \in Names, i \in Nat : n = Top.path /\ i = Top.at => Passed(n, i)'
         /\ \A i \in Nat : Passed(Top.path, i) => i # Top.at
<1> DEFINE m == Len(active)
           frame == [Top EXCEPT !.at = @ + 1]
<1>1. active \in Seq(Frame)
  BY DEF TypeOK, Frame
<1>2. m \in DOMAIN active /\ Top \in Frame /\ Top.path \in Names /\ Top.at \in Nat \ {0}
      /\ decks[Top.path] \in Texts
  BY TopOfPath
<1>3. active' = [active EXCEPT ![m] = frame]
  BY DEF Advance, Top
<1>4. frame \in Frame /\ frame.path = Top.path /\ frame.at = Top.at + 1
  BY <1>2 DEF Frame
<1>5. active' \in Seq(Frame) /\ Len(active') = Len(active) /\ DOMAIN active' = DOMAIN active
  BY <1>1, <1>2, <1>3, <1>4, ExceptSeq
<1>6. active'[m] = frame /\ \A k \in DOMAIN active : k # m => active'[k] = active[k]
  BY <1>2, <1>3
<1>7. \A k \in DOMAIN active : active'[k].path = active[k].path
  BY <1>4, <1>6 DEF Top
<1>8. \A k \in DOMAIN active : active[k] \in Frame /\ active[k].at \in Nat
  <2>1. \A k \in 1 .. Len(active) : active[k] \in Frame
    BY <1>1, ElementOfSeq
  <2>2. DOMAIN active = 1 .. Len(active)
    BY <1>1, LenProperties
  <2>3. ASSUME NEW k \in DOMAIN active
        PROVE  active[k] \in Frame /\ active[k].at \in Nat
    <3>1. active[k] \in Frame
      BY <2>1, <2>2
    <3> QED
      BY <3>1 DEF Frame
  <2> QED
    BY <2>3
<1>9. \A k \in DOMAIN active, i \in Nat : i < active[k].at => i < active'[k].at
  <2> SUFFICES ASSUME NEW k \in DOMAIN active, NEW i \in Nat, i < active[k].at
               PROVE  i < active'[k].at
    OBVIOUS
  <2>1. CASE k = m
    <3>1. active[k] = Top /\ active'[k].at = Top.at + 1
      BY <2>1, <1>4, <1>6 DEF Top
    <3> HIDE DEF frame, m
    <3> QED
      BY <3>1, <1>2
  <2>2. CASE k # m
    BY <2>2, <1>6
  <2> QED
    BY <2>1, <2>2
<1>10. ASSUME NEW n \in Names, NEW i \in Nat, Passed(n, i)
       PROVE  Passed(n, i)'
  BY <1>5, <1>7, <1>9, <1>10 DEF Passed
<1>11. ASSUME NEW n \in Names, NEW i \in Nat, n = Top.path, i = Top.at
       PROVE  Passed(n, i)'
  <2>1. decks'[n] # None
    BY <1>2, <1>11
  <2>2. ASSUME NEW k \in DOMAIN active', active'[k].path = n
        PROVE  i < active'[k].at
    <3>1. k = m
      BY <2>2, <1>2, <1>5, <1>7, <1>11 DEF Traversal, Top
    <3>2. active'[k].at = Top.at + 1
      BY <3>1, <1>4, <1>6
    <3> HIDE DEF frame, m
    <3> QED
      BY <3>2, <1>2, <1>11
  <2> QED
    BY <2>1, <2>2 DEF Passed
<1>12. ASSUME NEW i \in Nat, Passed(Top.path, i)
       PROVE  i # Top.at
  <2>1. i < Top.at
    BY <1>2, <1>12 DEF Passed, Top
  <2> QED
    BY <2>1, <1>2
<1> QED
  BY <1>5, <1>7, <1>10, <1>11, <1>12

\* What the path says of the decks on it survives an advance.
LEMMA AdvanceKeepsPath ==
  ASSUME TypeOK, Traversal, Stepping, Advance, UNCHANGED decks
  PROVE  /\ \A n \in Names : decks'[n] # None => decks'[n].form = "deck"
         /\ \A k \in DOMAIN active' : decks'[active'[k].path] # None
         /\ \A k, l \in DOMAIN active' : active'[k].path = active'[l].path => k = l
BY AdvancePasses DEF Traversal

\* An edge of the item on top is new, and stays the only one of that item.
LEMMA EdgeTaken ==
  ASSUME TypeOK, Traversal, EachItemOnce, Stepping, Advance, UNCHANGED <<decks, params>>,
         NEW target \in Names, edges' = Append(edges, <<Top.path, Top.at, target>>)
  PROVE  edges' \in Seq(Names \X (Nat \ {0}) \X Names) /\ Traversal' /\ EachItemOnce'
<1> DEFINE Edge == Names \X (Nat \ {0}) \X Names
           new == <<Top.path, Top.at, target>>
           m == Len(edges)
<1>1. edges \in Seq(Edge) /\ params \in Seq(Names \X (Nat \ {0}))
  BY DEF TypeOK
<1>2. new \in Edge /\ new[1] = Top.path /\ new[2] = Top.at
  BY TopOfPath
<1>3. /\ edges' \in Seq(Edge) /\ Len(edges') = m + 1 /\ m \in Nat
      /\ DOMAIN edges = 1 .. m /\ DOMAIN edges' = 1 .. m + 1
      /\ \A k \in 1 .. m : edges'[k] = edges[k]
      /\ edges'[m + 1] = new
  BY <1>1, <1>2, AppendProperties, LenProperties
<1>4. \A k \in 1 .. m : edges[k] \in Edge
  BY <1>1, ElementOfSeq
<1>5. \A k \in 1 .. m : edges[k][1] \in Names /\ edges[k][2] \in Nat
  BY <1>4
<1>6. \A k \in 1 .. m : ~(edges[k][1] = Top.path /\ edges[k][2] = Top.at)
  BY <1>3, <1>5, AdvancePasses DEF Traversal
<1>7. ASSUME NEW k \in DOMAIN edges'
      PROVE  \E n \in Names, i \in Nat : n = edges'[k][1] /\ i = edges'[k][2] /\ Passed(n, i)'
  <2>1. CASE k \in 1 .. m
    BY <2>1, <1>3, <1>5, AdvancePasses DEF Traversal
  <2>2. CASE k = m + 1
    BY <2>2, <1>2, <1>3, AdvancePasses, TopOfPath
  <2> QED
    BY <2>1, <2>2, <1>3, <1>7
<1>8. \A k \in DOMAIN edges' : Passed(edges[k][1], edges[k][2])'
  BY <1>7 DEF Passed
<1>9. \A k \in DOMAIN params' : Passed(params[k][1], params[k][2])'
  <2>1. \A k \in DOMAIN params : params[k] \in Names \X (Nat \ {0})
    BY <1>1, ElementOfSeq, LenProperties
  <2>2. \A k \in DOMAIN params : params[k][1] \in Names /\ params[k][2] \in Nat
    BY <2>1
  <2>3. \A k \in DOMAIN params :
          \E n \in Names, i \in Nat : n = params[k][1] /\ i = params[k][2] /\ Passed(n, i)'
    BY <2>2, AdvancePasses DEF Traversal
  <2> QED
    BY <2>3 DEF Passed
<1>10. Traversal'
  BY <1>8, <1>9, AdvanceKeepsPath DEF Traversal
<1>11. ASSUME NEW k \in 1 .. m + 1, NEW l \in 1 .. m + 1,
              edges'[k][1] = edges'[l][1], edges'[k][2] = edges'[l][2]
       PROVE  k = l
  <2>1. CASE k \in 1 .. m /\ l \in 1 .. m
    <3>1. edges[k] = edges'[k] /\ edges[l] = edges'[l] /\ k \in DOMAIN edges /\ l \in DOMAIN edges
      BY <2>1, <1>3
    <3> HIDE DEF m, new, Edge
    <3> QED
      BY <3>1, <1>11 DEF EachItemOnce
  <2>2. CASE k = m + 1 /\ l \in 1 .. m
    BY <2>2, <1>2, <1>3, <1>6, <1>11
  <2>3. CASE k \in 1 .. m /\ l = m + 1
    BY <2>3, <1>2, <1>3, <1>6, <1>11
  <2> HIDE DEF m
  <2> QED
    BY <2>1, <2>2, <2>3, <1>3
<1>12. EachItemOnce'
  BY <1>3, <1>11 DEF EachItemOnce
<1> QED
  BY <1>3, <1>10, <1>12

\* The same for a parameter card.
LEMMA ParamTaken ==
  ASSUME TypeOK, Traversal, EachItemOnce, Stepping, Advance, UNCHANGED <<decks, edges>>,
         params' = Append(params, <<Top.path, Top.at>>)
  PROVE  params' \in Seq(Names \X (Nat \ {0})) /\ Traversal' /\ EachItemOnce'
<1> DEFINE Card == Names \X (Nat \ {0})
           new == <<Top.path, Top.at>>
           m == Len(params)
<1>1. params \in Seq(Card) /\ edges \in Seq(Names \X (Nat \ {0}) \X Names)
  BY DEF TypeOK
<1>2. new \in Card /\ new[1] = Top.path /\ new[2] = Top.at
  BY TopOfPath
<1>3. /\ params' \in Seq(Card) /\ Len(params') = m + 1 /\ m \in Nat
      /\ DOMAIN params = 1 .. m /\ DOMAIN params' = 1 .. m + 1
      /\ \A k \in 1 .. m : params'[k] = params[k]
      /\ params'[m + 1] = new
  BY <1>1, <1>2, AppendProperties, LenProperties
<1>4. \A k \in 1 .. m : params[k] \in Card
  BY <1>1, ElementOfSeq
<1>5. \A k \in 1 .. m : params[k][1] \in Names /\ params[k][2] \in Nat
  BY <1>4
<1>6. \A k \in 1 .. m : ~(params[k][1] = Top.path /\ params[k][2] = Top.at)
  BY <1>3, <1>5, AdvancePasses DEF Traversal
<1>7. ASSUME NEW k \in DOMAIN params'
      PROVE  \E n \in Names, i \in Nat : n = params'[k][1] /\ i = params'[k][2] /\ Passed(n, i)'
  <2>1. CASE k \in 1 .. m
    BY <2>1, <1>3, <1>5, AdvancePasses DEF Traversal
  <2>2. CASE k = m + 1
    BY <2>2, <1>2, <1>3, AdvancePasses, TopOfPath
  <2> QED
    BY <2>1, <2>2, <1>3, <1>7
<1>8. \A k \in DOMAIN params' : Passed(params[k][1], params[k][2])'
  BY <1>7 DEF Passed
<1>9. \A k \in DOMAIN edges' : Passed(edges[k][1], edges[k][2])'
  <2>1. \A k \in DOMAIN edges : edges[k] \in Names \X (Nat \ {0}) \X Names
    BY <1>1, ElementOfSeq, LenProperties
  <2>2. \A k \in DOMAIN edges : edges[k][1] \in Names /\ edges[k][2] \in Nat
    BY <2>1
  <2>3. \A k \in DOMAIN edges :
          \E n \in Names, i \in Nat : n = edges[k][1] /\ i = edges[k][2] /\ Passed(n, i)'
    BY <2>2, AdvancePasses DEF Traversal
  <2> QED
    BY <2>3 DEF Passed
<1>10. Traversal'
  BY <1>8, <1>9, AdvanceKeepsPath DEF Traversal
<1>11. ASSUME NEW k \in 1 .. m + 1, NEW l \in 1 .. m + 1, params'[k] = params'[l]
       PROVE  k = l
  <2>1. CASE k \in 1 .. m /\ l \in 1 .. m
    <3>1. params[k] = params'[k] /\ params[l] = params'[l] /\ k \in DOMAIN params /\ l \in DOMAIN params
      BY <2>1, <1>3
    <3> HIDE DEF m, new, Card
    <3> QED
      BY <3>1, <1>11 DEF EachItemOnce
  <2>2. CASE k = m + 1 /\ l \in 1 .. m
    BY <2>2, <1>2, <1>3, <1>6, <1>11
  <2>3. CASE k \in 1 .. m /\ l = m + 1
    BY <2>3, <1>2, <1>3, <1>6, <1>11
  <2> HIDE DEF m
  <2> QED
    BY <2>1, <2>2, <2>3, <1>3
<1>12. EachItemOnce'
  BY <1>3, <1>11 DEF EachItemOnce
<1> QED
  BY <1>3, <1>10, <1>12

\* Passing an item without recording it.
LEMMA ItemPassed ==
  ASSUME TypeOK, Traversal, EachItemOnce, Stepping, Advance, UNCHANGED <<decks, edges, params>>
  PROVE  Traversal' /\ EachItemOnce'
<1>1. edges \in Seq(Names \X (Nat \ {0}) \X Names) /\ params \in Seq(Names \X (Nat \ {0}))
  BY DEF TypeOK
<1>2. \A k \in DOMAIN edges : edges[k] \in Names \X (Nat \ {0}) \X Names
  BY <1>1, ElementOfSeq, LenProperties
<1>3. \A k \in DOMAIN params : params[k] \in Names \X (Nat \ {0})
  BY <1>1, ElementOfSeq, LenProperties
<1>4. /\ \A k \in DOMAIN edges : edges[k][1] \in Names /\ edges[k][2] \in Nat
      /\ \A k \in DOMAIN params : params[k][1] \in Names /\ params[k][2] \in Nat
  BY <1>2, <1>3
<1>5. \A k \in DOMAIN edges :
        \E n \in Names, i \in Nat : n = edges[k][1] /\ i = edges[k][2] /\ Passed(n, i)'
  BY <1>4, AdvancePasses DEF Traversal
<1>6. \A k \in DOMAIN params :
        \E n \in Names, i \in Nat : n = params[k][1] /\ i = params[k][2] /\ Passed(n, i)'
  BY <1>4, AdvancePasses DEF Traversal
<1>7. /\ \A k \in DOMAIN edges' : Passed(edges[k][1], edges[k][2])'
      /\ \A k \in DOMAIN params' : Passed(params[k][1], params[k][2])'
  BY <1>5, <1>6 DEF Passed
<1> QED
  BY <1>7, AdvanceKeepsPath DEF Traversal, EachItemOnce

\* A deck loaded for the first time opens at its first item; none of its items
\* has been recorded.
LEMMA DeckOpened ==
  ASSUME TypeOK, WithinBudgets, Traversal, VisitFirst
  PROVE  /\ decks' \in [Names -> Texts \union {None}]
         /\ active' \in Seq(Frame) /\ Len(active') = Len(active) + 1
         /\ Traversal'
<1> DEFINE m == Len(active)
           frame == [path |-> next, at |-> 1]
<1>1. next \in Names /\ decks[next] = None /\ TextOf(next) # None
  BY DEF VisitFirst, Visiting, VisitText, TypeOK
<1>2. decks' = [decks EXCEPT ![next] = TextOf(next)] /\ TextOf(next).form = "deck"
  BY <1>1 DEF VisitFirst, VisitText
<1>3. TextOf(next) \in Texts
  BY <1>1, TextOfType
<1>4. decks' \in [Names -> Texts \union {None}]
  BY <1>2, <1>3 DEF TypeOK
<1>5. active \in Seq(Frame) /\ frame \in Frame /\ active' = Append(active, frame)
  BY <1>1 DEF VisitFirst, TypeOK, Frame
<1>6. /\ active' \in Seq(Frame) /\ Len(active') = m + 1 /\ m \in Nat
      /\ DOMAIN active = 1 .. m /\ DOMAIN active' = 1 .. m + 1
      /\ \A k \in 1 .. m : active'[k] = active[k]
      /\ active'[m + 1] = frame
  BY <1>5, AppendProperties, LenProperties
<1>7. \A n \in Names : decks'[n] # None => decks'[n].form = "deck"
  BY <1>1, <1>2 DEF Traversal, TypeOK
<1>8. \A k \in 1 .. m : active[k].path \in Names /\ active[k].path # next
                        /\ decks[active[k].path] # None
  <2>1. \A k \in 1 .. m : active[k] \in Frame
    BY <1>5, ElementOfSeq
  <2>2. \A k \in 1 .. m : active[k].path \in Names
    BY <2>1 DEF Frame
  <2>3. \A k \in 1 .. m : decks[active[k].path] # None
    BY <1>6 DEF Traversal
  <2> QED
    BY <1>1, <2>2, <2>3
<1>9. \A k \in 1 .. m + 1 : decks'[active'[k].path] # None
  <2>1. ASSUME NEW k \in 1 .. m
        PROVE  decks'[active'[k].path] # None
    BY <1>2, <1>6, <1>8, <2>1 DEF TypeOK
  <2>2. decks'[active'[m + 1].path] # None
    BY <1>1, <1>2, <1>6 DEF TypeOK
  <2>3. \A k \in 1 .. m + 1 : k \in 1 .. m \/ k = m + 1
    BY <1>6
  <2> HIDE DEF m, frame
  <2> QED
    BY <2>1, <2>2, <2>3
<1>10. ASSUME NEW k \in 1 .. m + 1, NEW l \in 1 .. m + 1, active'[k].path = active'[l].path
       PROVE  k = l
  <2>1. CASE k \in 1 .. m /\ l \in 1 .. m
    <3>1. active[k] = active'[k] /\ active[l] = active'[l] /\ k \in DOMAIN active /\ l \in DOMAIN active
      BY <2>1, <1>6
    <3> HIDE DEF m, frame
    <3> QED
      BY <3>1, <1>10 DEF Traversal
  <2>2. CASE k = m + 1 /\ l \in 1 .. m
    BY <2>2, <1>6, <1>8, <1>10
  <2>3. CASE k \in 1 .. m /\ l = m + 1
    BY <2>3, <1>6, <1>8, <1>10
  <2> HIDE DEF m, frame
  <2> QED
    BY <2>1, <2>2, <2>3, <1>6
<1>11. ASSUME NEW n \in Names, NEW i \in Nat, Passed(n, i)
       PROVE  Passed(n, i)'
  <2>1. decks[n] # None /\ n # next
    BY <1>1, <1>11 DEF Passed
  <2>2. decks'[n] # None
    BY <2>1, <1>2 DEF TypeOK
  <2>3. ASSUME NEW k \in 1 .. m + 1, active'[k].path = n
        PROVE  i < active'[k].at
    <3>1. k \in 1 .. m
      BY <2>1, <2>3, <1>6
    <3>2. active'[k] = active[k] /\ k \in DOMAIN active
      BY <3>1, <1>6
    <3> HIDE DEF m, frame
    <3> QED
      BY <2>3, <3>2, <1>11 DEF Passed
  <2> HIDE DEF m, frame
  <2> QED
    BY <2>2, <2>3, <1>6 DEF Passed
<1>12. UNCHANGED <<edges, params>>
  BY DEF VisitFirst
<1>13. /\ \A k \in DOMAIN edges : edges[k][1] \in Names /\ edges[k][2] \in Nat
       /\ \A k \in DOMAIN params : params[k][1] \in Names /\ params[k][2] \in Nat
  <2>1. edges \in Seq(Names \X (Nat \ {0}) \X Names) /\ params \in Seq(Names \X (Nat \ {0}))
    BY DEF TypeOK
  <2>2. \A k \in DOMAIN edges : edges[k] \in Names \X (Nat \ {0}) \X Names
    BY <2>1, ElementOfSeq, LenProperties
  <2>3. \A k \in DOMAIN params : params[k] \in Names \X (Nat \ {0})
    BY <2>1, ElementOfSeq, LenProperties
  <2> QED
    BY <2>2, <2>3
<1>14. /\ \A k \in DOMAIN edges :
            \E n \in Names, i \in Nat : n = edges[k][1] /\ i = edges[k][2] /\ Passed(n, i)'
       /\ \A k \in DOMAIN params :
            \E n \in Names, i \in Nat : n = params[k][1] /\ i = params[k][2] /\ Passed(n, i)'
  BY <1>11, <1>13 DEF Traversal
<1>15. /\ \A k \in DOMAIN edges' : Passed(edges[k][1], edges[k][2])'
       /\ \A k \in DOMAIN params' : Passed(params[k][1], params[k][2])'
  BY <1>12, <1>14 DEF Passed
<1> HIDE DEF m, frame
<1> QED
  BY <1>4, <1>6, <1>7, <1>9, <1>10, <1>15 DEF Traversal, m

\* A deck that is left has had all its items passed.
LEMMA DeckClosed ==
  ASSUME TypeOK, Traversal, Leave
  PROVE  /\ active' \in Seq(Frame) /\ Len(active') < Len(active)
         /\ Traversal'
<1> DEFINE m == Len(active)
<1>1. active \in Seq(Frame) /\ active # <<>> /\ active' = SubSeq(active, 1, m - 1)
  BY DEF Leave, Stepping, TypeOK, Frame
<1>2. m \in Nat \ {0} /\ DOMAIN active = 1 .. m
  BY <1>1, EmptySeq, LenProperties
<1>3. \A k \in 1 .. m - 1 : active[k] \in Frame
  BY <1>1, <1>2, ElementOfSeq
<1>4. /\ active' \in Seq(Frame) /\ Len(active') = m - 1
      /\ \A k \in 1 .. m - 1 : active'[k] = active[k]
  <2>1. m - 1 \in Int /\ 1 \in Int /\ (1 <= m - 1 \/ m - 1 = 0)
    BY <1>2
  <2>2. /\ SubSeq(active, 1, m - 1) \in Seq(Frame)
        /\ Len(SubSeq(active, 1, m - 1)) = IF 1 <= m - 1 THEN m - 1 - 1 + 1 ELSE 0
        /\ \A k \in 1 .. m - 1 - 1 + 1 : SubSeq(active, 1, m - 1)[k] = active[1 + k - 1]
    BY <1>3, <2>1, SubSeqProperties
  <2> HIDE DEF m
  <2> QED
    BY <1>1, <1>2, <2>2
<1>5. DOMAIN active' = 1 .. m - 1
  BY <1>4, LenProperties
<1>6. \A k \in DOMAIN active' : k \in DOMAIN active /\ active'[k] = active[k]
  BY <1>2, <1>4, <1>5
<1>7. UNCHANGED <<decks, edges, params>>
  BY DEF Leave
<1>8. Len(active') < Len(active)
  BY <1>2, <1>4
<1> HIDE DEF m
<1>9. \A n, i : Passed(n, i) => (decks'[n] # None /\ \A k \in DOMAIN active' : active'[k].path = n => i < active'[k].at)
  BY <1>6, <1>7 DEF Passed
<1>10. /\ \A k \in DOMAIN edges' : Passed(edges[k][1], edges[k][2])'
       /\ \A k \in DOMAIN params' : Passed(params[k][1], params[k][2])'
  BY <1>7, <1>9 DEF Traversal, Passed
<1> QED
  BY <1>4, <1>6, <1>7, <1>8, <1>10 DEF Traversal

-----------------------------------------------------------------------------
\* Before the bundle is opened nothing was read and nothing found.
THEOREM InitIInv == Init => IInv
<1> SUFFICES ASSUME Init
             PROVE  IInv
  OBVIOUS
<1>1. disk \in [Names -> Contents] /\ edits \in 0 .. MaxEdits
  BY DEF Init
<1>2. TypeOK
  BY <1>1 DEF Init, TypeOK
<1>3. Files = {}
  BY DEF Init, Files
<1>4. WithinBudgets
  BY <1>3, FS_EmptySet DEF Init, WithinBudgets
<1>5. Traversal /\ EachItemOnce
  BY DEF Init, Traversal, EachItemOnce
<1> QED
  BY <1>2, <1>4, <1>5 DEF IInv

\* Opening the bundle reads the manifest at most.
LEMMA OpenKeeps ==
  ASSUME IInv,
         \/ \E w \in Names \union {None} : OpenDirectory(w)
         \/ \E n \in Names : OpenFile(n)
  PROVE  IInv'
<1>1. UNCHANGED <<disk, edits, decks, active, issues, edges, params>>
  BY DEF OpenDirectory, OpenFile, Begin
<1>2. /\ entry' \in Names \union {None} /\ next' \in Names \union {None}
      /\ pc' \in {"refused", "load"}
  <2>1. \A e \in Names \union {None} : Begin(e) =>
          /\ entry' \in Names \union {None} /\ next' \in Names \union {None}
          /\ pc' \in {"refused", "load"}
    BY DEF Begin
  <2>2. ASSUME NEW w \in Names \union {None}, OpenDirectory(w)
        PROVE  \E e \in Names \union {None} : Begin(e)
    BY <2>2, CanonicalType DEF OpenDirectory
  <2>3. ASSUME NEW n \in Names, OpenFile(n)
        PROVE  \E e \in Names \union {None} : Begin(e)
    BY <2>3, CanonicalType DEF OpenFile
  <2> QED
    BY <2>1, <2>2, <2>3
<1>3. \/ TextOf(Manifest) # None /\ Remember(Manifest)
      \/ UNCHANGED <<texts, total>>
  BY DEF OpenDirectory, OpenFile
<1>4. /\ texts' \in [Names -> Texts \union {None}] /\ total' \in Nat
      /\ total' <= MaxTotalBytes /\ Cardinality(Files') <= MaxFiles
      /\ \A c \in Files' : texts'[c].bytes <= MaxFileBytes
  <2>1. CASE TextOf(Manifest) # None /\ Remember(Manifest)
    BY <2>1, RememberKeeps DEF IInv
  <2>2. CASE UNCHANGED <<texts, total>>
    BY <2>2 DEF IInv, TypeOK, WithinBudgets, Files
  <2> QED
    BY <1>3, <2>1, <2>2
<1>5. TypeOK'
  BY <1>1, <1>2, <1>4 DEF IInv, TypeOK
<1>6. WithinBudgets'
  BY <1>1, <1>4 DEF IInv, WithinBudgets
<1>7. Traversal' /\ EachItemOnce'
  BY <1>1 DEF IInv, Traversal, Passed, EachItemOnce
<1> QED
  BY <1>5, <1>6, <1>7 DEF IInv

\* A visit reports, or reads and opens one deck.
LEMMA VisitKeeps ==
  ASSUME IInv, VisitTooDeep \/ VisitUnreadable \/ VisitMalformed \/ VisitAgain \/ VisitFirst
  PROVE  IInv'
<1> DEFINE Kinds == {"FILE001", "PARSE001", "PATH001", "INCL001", "INCL002", "INCL003"}
<1>1. next \in Names /\ next' = None /\ Len(active) \in Nat
  <2>1. active \in Seq(Frame)
    BY DEF IInv, TypeOK, Frame
  <2> QED
    BY <2>1, LenProperties
       DEF IInv, TypeOK, VisitTooDeep, VisitUnreadable, VisitMalformed, VisitAgain, VisitFirst, Visiting
<1>2. UNCHANGED <<disk, edits, entry, edges, params, pc>>
  BY DEF VisitTooDeep, VisitUnreadable, VisitMalformed, VisitAgain, VisitFirst, bundle
<1>3. \A code \in Kinds : Report(code, next) => issues' \subseteq Kinds \X Names
  BY <1>1 DEF IInv, TypeOK, Report
<1>4. issues' \subseteq Kinds \X Names
  <2>1. CASE VisitTooDeep \/ VisitUnreadable \/ VisitMalformed \/ VisitAgain
    BY <2>1, <1>3 DEF VisitTooDeep, VisitUnreadable, VisitMalformed, VisitAgain
  <2>2. CASE VisitFirst
    BY <2>2 DEF VisitFirst, IInv, TypeOK
  <2> QED
    BY <2>1, <2>2
<1>5. CASE VisitTooDeep \/ VisitUnreadable \/ VisitAgain
  <2>1. UNCHANGED <<texts, total, decks, active>>
    BY <1>5 DEF VisitTooDeep, VisitUnreadable, VisitAgain, bundle
  <2>2. TypeOK' /\ WithinBudgets'
    BY <1>1, <1>2, <1>4, <2>1 DEF IInv, TypeOK, WithinBudgets, Files
  <2>3. Traversal' /\ EachItemOnce'
    BY <1>2, <2>1 DEF IInv, Traversal, Passed, EachItemOnce
  <2> QED
    BY <2>2, <2>3 DEF IInv
<1>6. CASE VisitMalformed
  <2>1. UNCHANGED <<decks, active>> /\ Remember(next)
    BY <1>6 DEF VisitMalformed
  <2>2. TextOf(next) # None
    BY <1>1, <1>6 DEF VisitMalformed, VisitText, IInv, Traversal
  <2>3. /\ texts' \in [Names -> Texts \union {None}] /\ total' \in Nat
        /\ total' <= MaxTotalBytes /\ Cardinality(Files') <= MaxFiles
        /\ \A c \in Files' : texts'[c].bytes <= MaxFileBytes
    BY <2>1, <2>2, RememberKeeps DEF IInv
  <2>4. TypeOK' /\ WithinBudgets'
    BY <1>1, <1>2, <1>4, <2>1, <2>3 DEF IInv, TypeOK, WithinBudgets
  <2>5. Traversal' /\ EachItemOnce'
    BY <1>2, <2>1 DEF IInv, Traversal, Passed, EachItemOnce
  <2> QED
    BY <2>4, <2>5 DEF IInv
<1>7. CASE VisitFirst
  <2>1. TextOf(next) # None /\ Remember(next) /\ Len(active) <= MaxDepth
    BY <1>7 DEF VisitFirst, VisitText
  <2>2. /\ texts' \in [Names -> Texts \union {None}] /\ total' \in Nat
        /\ total' <= MaxTotalBytes /\ Cardinality(Files') <= MaxFiles
        /\ \A c \in Files' : texts'[c].bytes <= MaxFileBytes
    BY <2>1, RememberKeeps DEF IInv
  <2>3. /\ decks' \in [Names -> Texts \union {None}]
        /\ active' \in Seq(Frame) /\ Len(active') = Len(active) + 1
        /\ Traversal'
    BY <1>7, DeckOpened DEF IInv
  <2>4. TypeOK'
    BY <1>1, <1>2, <1>4, <2>2, <2>3 DEF IInv, TypeOK, Frame
  <2>5. Len(active') <= MaxDepth + 1
    BY <1>1, <2>1, <2>3
  <2>6. WithinBudgets'
    BY <2>2, <2>5 DEF WithinBudgets
  <2>7. EachItemOnce'
    BY <1>2 DEF IInv, EachItemOnce
  <2> QED
    BY <2>3, <2>4, <2>6, <2>7 DEF IInv
<1> QED
  BY <1>5, <1>6, <1>7

\* An item of the deck on top is taken, or the deck is left.
LEMMA FlowKeeps ==
  ASSUME IInv, TakeParam \/ TakeUnresolved \/ TakeCycle \/ TakeInclude \/ Leave
  PROVE  IInv'
<1> DEFINE Kinds == {"FILE001", "PARSE001", "PATH001", "INCL001", "INCL002", "INCL003"}
<1>1. Stepping /\ UNCHANGED <<disk, edits, texts, total, entry, decks, pc>>
  BY DEF TakeParam, TakeUnresolved, TakeCycle, TakeInclude, Leave, bundle
<1>2. Top.path \in Names
  BY <1>1, TopOfPath DEF IInv
<1>3. HasItem => (Resolved # None => Resolved \in Names)
  BY <1>1, ItemType DEF IInv
<1>4. issues' \subseteq Kinds \X Names
  <2>1. \A code \in Kinds, n \in Names : Report(code, n) => issues' \subseteq Kinds \X Names
    BY DEF IInv, TypeOK, Report
  <2>2. CASE TakeUnresolved
    BY <2>1, <2>2, <1>2 DEF TakeUnresolved
  <2>3. CASE TakeCycle
    BY <2>1, <2>3, <1>3 DEF TakeCycle
  <2>4. CASE TakeParam \/ TakeInclude \/ Leave
    BY <2>4 DEF TakeParam, TakeInclude, Leave, IInv, TypeOK
  <2> QED
    BY <2>2, <2>3, <2>4
<1>5. next' \in Names \union {None}
  BY <1>3 DEF TakeParam, TakeUnresolved, TakeCycle, TakeInclude, Leave, IInv, TypeOK
<1>6. /\ active' \in Seq(Frame) /\ Len(active') \in Nat /\ Len(active') <= Len(active)
      /\ Len(active) \in Nat
  <2>1. active \in Seq(Frame)
    BY DEF IInv, TypeOK, Frame
  <2>2. Advance => active' \in Seq(Frame) /\ Len(active') = Len(active)
    BY <1>1, AdvancePasses DEF IInv
  <2>3. Leave => active' \in Seq(Frame) /\ Len(active') < Len(active)
    BY DeckClosed DEF IInv
  <2>4. Advance \/ Leave
    BY DEF TakeParam, TakeUnresolved, TakeCycle, TakeInclude
  <2>5. active' \in Seq(Frame) /\ (Len(active') = Len(active) \/ Len(active') < Len(active))
    BY <2>2, <2>3, <2>4
  <2>6. Len(active) \in Nat /\ Len(active') \in Nat
    BY <2>1, <2>5, LenProperties
  <2> QED
    BY <2>5, <2>6
<1>7. /\ edges' \in Seq(Names \X (Nat \ {0}) \X Names)
      /\ params' \in Seq(Names \X (Nat \ {0}))
      /\ Traversal' /\ EachItemOnce'
  <2>1. CASE TakeParam
    BY <2>1, <1>1, ParamTaken DEF IInv, TypeOK, TakeParam
  <2>2. CASE TakeUnresolved
    BY <2>2, <1>1, ItemPassed DEF IInv, TypeOK, TakeUnresolved
  <2>3. CASE TakeCycle \/ TakeInclude
    <3>1. /\ HasItem /\ Resolved \in Names /\ Advance /\ UNCHANGED params
          /\ edges' = Append(edges, <<Top.path, Top.at, Resolved>>)
      BY <2>3, <1>3 DEF TakeCycle, TakeInclude
    <3> QED
      BY <3>1, <1>1, EdgeTaken DEF IInv, TypeOK
  <2>4. CASE Leave
    BY <2>4, DeckClosed DEF IInv, TypeOK, EachItemOnce, Leave
  <2> QED
    BY <2>1, <2>2, <2>3, <2>4
<1>8. TypeOK'
  BY <1>1, <1>4, <1>5, <1>6, <1>7 DEF IInv, TypeOK, Frame
<1>9. WithinBudgets'
  <2>1. Len(active') <= MaxDepth + 1
    BY <1>6 DEF IInv, WithinBudgets
  <2> QED
    BY <1>1, <2>1 DEF IInv, WithinBudgets, Files
<1> QED
  BY <1>7, <1>8, <1>9 DEF IInv

\* Every step keeps the invariant.
THEOREM NextIInv == IInv /\ [Next]_vars => IInv'
<1> SUFFICES ASSUME IInv, [Next]_vars
             PROVE  IInv'
  OBVIOUS
<1>1. CASE \/ \E w \in Names \union {None} : OpenDirectory(w)
           \/ \E n \in Names : OpenFile(n)
  BY <1>1, OpenKeeps
<1>2. CASE VisitTooDeep \/ VisitUnreadable \/ VisitMalformed \/ VisitAgain \/ VisitFirst
  BY <1>2, VisitKeeps
<1>3. CASE TakeParam \/ TakeUnresolved \/ TakeCycle \/ TakeInclude \/ Leave
  BY <1>3, FlowKeeps
<1>4. CASE Finish
  BY <1>4 DEF Finish, bundle, graph, IInv, TypeOK, WithinBudgets, Files, Traversal, Passed, EachItemOnce
<1>5. ASSUME NEW n \in Names, Edit(n)
      PROVE  IInv'
  <2>1. disk' \in [Names -> Contents]
    BY <1>5 DEF Edit, IInv, TypeOK
  <2>2. edits' \in 0 .. MaxEdits
    BY <1>5 DEF Edit, IInv, TypeOK
  <2>3. UNCHANGED <<bundle, graph, pc>>
    BY <1>5 DEF Edit
  <2> QED
    BY <2>1, <2>2, <2>3
       DEF bundle, graph, IInv, TypeOK, WithinBudgets, Files, Traversal, Passed, EachItemOnce
<1>6. CASE UNCHANGED vars
  BY <1>6 DEF vars, bundle, graph, IInv, TypeOK, WithinBudgets, Files, Traversal, Passed, EachItemOnce
<1> QED
  BY <1>1, <1>2, <1>3, <1>4, <1>5, <1>6 DEF Next, Load

\* The inductive invariant holds in every state the loader can reach.
THEOREM Invariance == Spec => []IInv
BY InitIInv, NextIInv, PTL DEF Spec

\* Every variable of the loader keeps its type, for any bundle and any edits.
THEOREM TypeCorrect == Spec => []TypeOK
BY Invariance, PTL DEF IInv

\* read_text and visit keep to the policy's budgets and take no item twice,
\* whatever the limits, the include graph, and the edits made while it is read.
THEOREM WorkIsBounded == Spec => []BoundedWork
BY Invariance, PTL DEF IInv, BoundedWork

-----------------------------------------------------------------------------
(* What is digested. *)

\* Texts stay as they were read, and each deck is one of them.
Digested ==
  /\ \A n \in Names : decks[n] # None => \E c \in Names : texts[c] = decks[n]
  /\ total = SumFunction([c \in Files |-> texts[c].bytes])

\* A text that was returned is kept, none is replaced, and the total counts it.
LEMMA RememberDigests ==
  ASSUME TypeOK, WithinBudgets, Digested, NEW n, TextOf(n) # None, Remember(n)
  PROVE  /\ \A c \in Names : texts[c] # None => texts'[c] = texts[c]
         /\ Canonical(n) \in Names /\ texts'[Canonical(n)] = TextOf(n)
         /\ total' = SumFunction([c \in Files' |-> texts'[c].bytes])
<1> DEFINE c == Canonical(n)
<1>1. c \in Names /\ c # None /\ disk[c] \in Texts
  BY TextOfType
<1>2. CASE texts[c] # None
  <2>1. UNCHANGED <<texts, total>>
    BY <1>2 DEF Remember
  <2>2. TextOf(n) = texts[c]
    BY <1>1, <1>2 DEF TextOf
  <2>3. Files' = Files
    BY <2>1 DEF Files
  <2> QED
    BY <1>1, <2>1, <2>2, <2>3 DEF Digested
<1>3. CASE texts[c] = None
  <2>1. Readable(c)
    BY <1>3, TextOfType
  <2>2. texts' = [texts EXCEPT ![c] = disk[c]] /\ total' = total + BytesRead(disk[c])
    BY <1>3 DEF Remember
  <2>3. TextOf(n) = disk[c]
    BY <1>1, <1>3, <2>1 DEF TextOf
  <2>4. BytesRead(disk[c]) = disk[c].bytes
    BY <1>1, <2>1, WholeRead DEF Readable
  <2>5. texts \in [Names -> Texts \union {None}] /\ None \notin Texts
    BY DEF TypeOK
  <2>6. Files' = Files \union {c} /\ c \notin Files /\ Files \subseteq Names
    BY <1>1, <1>3, <2>2, <2>5 DEF Files
  <2>7. texts'[c] = disk[c] /\ \A m \in Names : m # c => texts'[m] = texts[m]
    BY <1>1, <2>2, <2>5
  <2> DEFINE f == [m \in Files |-> texts[m].bytes]
             g == [m \in Files' |-> texts'[m].bytes]
  <2>8. IsFiniteSet(Files)
    BY <2>6, FS_Subset
  <2>9. f \in [Files -> Nat]
    BY <2>5, <2>6 DEF Files
  <2>10. \A m \in Files : texts'[m] = texts[m] /\ texts[m] \in Texts
    BY <2>5, <2>6, <2>7 DEF Files
  <2>11. g \in [Files \union {c} -> Nat] /\ g[c] = disk[c].bytes
    <3>1. \A m \in Files' : texts'[m] \in Texts
      BY <1>1, <2>6, <2>7, <2>10
    <3> HIDE DEF c
    <3> QED
      BY <1>1, <2>6, <2>7, <3>1
  <2>12. \A m \in Files : g[m] = f[m]
    BY <2>6, <2>10
  <2> HIDE DEF f, g, c
  <2>13. SumFunction(g) = SumFunction(f) + g[c]
    <3>1. g \in [Files \union {c} -> Nat] /\ \A d \in Files : g[d] = f[d]
      BY <2>11, <2>12
    <3>2. c \notin Files
      BY <2>6
    <3> HIDE LimitAssumption, TextAssumption, DiskAssumption, DistinctAssumption
    <3> QED
      BY <3>2, <2>8, <2>9, <3>1, OneMoreSummand
  <2>14. total' = SumFunction(g)
    BY <2>2, <2>4, <2>11, <2>13 DEF Digested, f
  <2> QED
    BY <1>1, <1>3, <2>3, <2>7, <2>14 DEF c, g
<1> QED
  BY <1>2, <1>3

\* Without a read, and without a new deck, nothing changes here.
LEMMA DigestedStays ==
  ASSUME Digested, UNCHANGED <<texts, total, decks>>
  PROVE  Digested'
<1>1. Files' = Files
  BY DEF Files
<1> QED
  BY <1>1 DEF Digested

LEMMA DigestedKept == IInv /\ Digested /\ [Next]_vars => Digested'
<1> SUFFICES ASSUME IInv, Digested, [Next]_vars
             PROVE  Digested'
  OBVIOUS
<1>1. ASSUME NEW n, TextOf(n) # None, Remember(n), UNCHANGED decks
      PROVE  Digested'
  <2>1. /\ \A c \in Names : texts[c] # None => texts'[c] = texts[c]
        /\ total' = SumFunction([c \in Files' |-> texts'[c].bytes])
    BY <1>1, RememberDigests DEF IInv
  <2>2. ASSUME NEW m \in Names, decks'[m] # None
        PROVE  \E c \in Names : texts'[c] = decks'[m]
    BY <1>1, <2>1, <2>2 DEF Digested
  <2> QED
    BY <2>1, <2>2 DEF Digested
<1>2. CASE \/ \E w \in Names \union {None} : OpenDirectory(w)
           \/ \E n \in Names : OpenFile(n)
  <2>1. UNCHANGED decks /\ ((TextOf(Manifest) # None /\ Remember(Manifest)) \/ UNCHANGED <<texts, total>>)
    BY <1>2 DEF OpenDirectory, OpenFile, Begin
  <2> QED
    BY <1>1, <2>1, DigestedStays
<1>3. CASE VisitMalformed
  <2>1. TextOf(next) # None /\ Remember(next) /\ UNCHANGED decks
    BY <1>3 DEF VisitMalformed, VisitText, IInv, Traversal, Visiting, TypeOK
  <2> QED
    BY <1>1, <2>1
<1>4. CASE VisitFirst
  <2>1. /\ next \in Names /\ decks[next] = None /\ TextOf(next) # None /\ Remember(next)
        /\ decks' = [decks EXCEPT ![next] = TextOf(next)]
    BY <1>4 DEF VisitFirst, VisitText, Visiting, IInv, TypeOK
  <2>2. /\ \A c \in Names : texts[c] # None => texts'[c] = texts[c]
        /\ Canonical(next) \in Names /\ texts'[Canonical(next)] = TextOf(next)
        /\ total' = SumFunction([c \in Files' |-> texts'[c].bytes])
    BY <2>1, RememberDigests DEF IInv
  <2>3. ASSUME NEW m \in Names, decks'[m] # None
        PROVE  \E c \in Names : texts'[c] = decks'[m]
    <3>1. CASE m = next
      BY <2>1, <2>2, <3>1 DEF IInv, TypeOK
    <3>2. CASE m # next
      BY <2>1, <2>2, <2>3, <3>2 DEF IInv, TypeOK, Digested
    <3> QED
      BY <3>1, <3>2
  <2> QED
    BY <2>2, <2>3 DEF Digested
<1>5. CASE VisitTooDeep \/ VisitUnreadable \/ VisitAgain \/ TakeParam \/ TakeUnresolved
           \/ TakeCycle \/ TakeInclude \/ Leave \/ Finish \/ (\E n \in Names : Edit(n))
           \/ UNCHANGED vars
  <2>1. UNCHANGED <<texts, total, decks>>
    BY <1>5 DEF VisitTooDeep, VisitUnreadable, VisitAgain, TakeParam, TakeUnresolved,
                TakeCycle, TakeInclude, Leave, Finish, Edit, vars, bundle, graph
  <2> QED
    BY <2>1, DigestedStays
<1> QED
  BY <1>2, <1>3, <1>4, <1>5 DEF Next, Load

\* Every deck that the verdict is about was parsed from a text that was digested,
\* and the bytes digested are those accounted for, whatever is edited meanwhile.
THEOREM AllDigested == Spec => []EverythingDigested
<1>1. Init => Digested
  <2> SUFFICES ASSUME Init PROVE Digested
    OBVIOUS
  <2>1. Files = {} /\ total = 0 /\ \A n \in Names : decks[n] = None
    BY DEF Init, Files
  <2>2. DOMAIN [c \in Files |-> texts[c].bytes] = {}
    BY <2>1
  <2>3. SumFunction([c \in Files |-> texts[c].bytes]) = 0
    BY <2>2, SumOfNone
  <2> QED
    BY <2>1, <2>3 DEF Digested
<1>2. Digested => EverythingDigested
  <2> SUFFICES ASSUME Digested, NEW n \in Names, decks[n] # None
               PROVE  \E c \in Files : texts[c] = decks[n]
    BY DEF Digested, EverythingDigested, Loaded
  <2> QED
    BY DEF Digested, Files
<1> QED
  BY <1>1, <1>2, InitIInv, NextIInv, DigestedKept, PTL DEF Spec

-----------------------------------------------------------------------------
(* What is complete. *)

\* What has not begun and what is over.
Phases ==
  /\ pc = "open" => /\ edges = <<>> /\ params = <<>> /\ active = <<>> /\ next = None
                    /\ issues = {} /\ \A n \in Names : decks[n] = None
  /\ pc \in {"load", "done"} => entry \in Names
  /\ pc = "done" => active = <<>> /\ next = None

Edge(es, n, m) == \E k \in DOMAIN es : es[k][1] = n /\ es[k][3] = m

\* The last item that was taken of a deck on the path led to this target.
Link(ds, es, frame, m) ==
  /\ frame.at - 1 \in DOMAIN ds[frame.path].items
  /\ ds[frame.path].items[frame.at - 1] # Param
  /\ \E k \in DOMAIN es : es[k] = <<frame.path, frame.at - 1, m>>

\* The path begins at the entry, and edges lead down it and from its end to the
\* visit to come.
Linked ==
  /\ active # <<>> => active[1].path = entry
  /\ \A k \in DOMAIN active : active[k].at <= Len(decks[active[k].path].items) + 1
  /\ \A k \in DOMAIN active : k + 1 \in DOMAIN active => Link(decks, edges, active[k], active[k + 1].path)
  /\ next # None =>
       /\ \A k \in DOMAIN active : active[k].path # next
       /\ active = <<>> => next = entry
       /\ active # <<>> => Link(decks, edges, Top, next)

\* The visit to come, if there is one, is of a deck that is not loaded.
Fresh == next = None \/ decks[next] = None

\* While nothing was reported each deck but the entry has one edge to it, and
\* each reference that was passed leads to a deck or to the visit to come.
Faultless ==
  pc \in {"load", "done"} /\ issues = {} =>
    /\ decks[entry] # None \/ (next = entry /\ edges = <<>>)
    /\ \A k \in DOMAIN edges : decks[edges[k][3]] # None \/ edges[k][3] = next
    /\ Fresh => \A k \in DOMAIN edges :
                  /\ edges[k][3] # entry
                  /\ \A l \in DOMAIN edges : edges[k][3] = edges[l][3] => k = l
    /\ \A n \in Names : decks[n] # None /\ n # entry => \E k \in DOMAIN edges : edges[k][3] = n
    /\ \A n \in Names : decks[n] # None =>
         \A i \in References(n) : Passed(n, i) =>
           \E k \in DOMAIN edges : edges[k][1] = n /\ edges[k][2] = i

LEMMA PhasesKept == IInv /\ Phases /\ [Next]_vars => Phases'
<1> SUFFICES ASSUME IInv, Phases, [Next]_vars
             PROVE  Phases'
  OBVIOUS
<1>1. CASE \/ \E w \in Names \union {None} : OpenDirectory(w)
           \/ \E n \in Names : OpenFile(n)
  <2>1. ASSUME NEW e, e # None => e \in Names, Begin(e)
        PROVE  Phases'
    BY <2>1 DEF Begin, Phases
  <2>2. ASSUME NEW w \in Names \union {None}, OpenDirectory(w)
        PROVE  \E e : (e # None => e \in Names) /\ Begin(e)
    BY <2>2, CanonicalType DEF OpenDirectory
  <2>3. ASSUME NEW n \in Names, OpenFile(n)
        PROVE  \E e : (e # None => e \in Names) /\ Begin(e)
    BY <2>3, CanonicalType DEF OpenFile
  <2> QED
    BY <1>1, <2>1, <2>2, <2>3
<1>2. CASE \/ VisitTooDeep \/ VisitUnreadable \/ VisitMalformed \/ VisitAgain \/ VisitFirst
           \/ TakeParam \/ TakeUnresolved \/ TakeCycle \/ TakeInclude \/ Leave
  <2>1. pc = "load" /\ UNCHANGED <<pc, entry>>
    BY <1>2 DEF VisitTooDeep, VisitUnreadable, VisitMalformed, VisitAgain, VisitFirst, TakeParam,
                TakeUnresolved, TakeCycle, TakeInclude, Leave, Visiting, Stepping, bundle
  <2> QED
    BY <2>1 DEF Phases
<1>3. CASE Finish
  BY <1>3 DEF Finish, bundle, graph, Phases
<1>4. CASE (\E n \in Names : Edit(n)) \/ UNCHANGED vars
  BY <1>4 DEF Edit, vars, bundle, graph, Phases
<1> QED
  BY <1>1, <1>2, <1>3, <1>4 DEF Next, Load

\* The parts of the path and of the edges that a step leaves alone.
LEMMA AppendedEdge ==
  ASSUME TypeOK, NEW new, new \in Names \X (Nat \ {0}) \X Names, edges' = Append(edges, new)
  PROVE  /\ Len(edges) \in Nat /\ DOMAIN edges = 1 .. Len(edges)
         /\ DOMAIN edges' = 1 .. Len(edges) + 1
         /\ \A k \in DOMAIN edges : k \in DOMAIN edges' /\ edges'[k] = edges[k]
         /\ Len(edges) + 1 \in DOMAIN edges' /\ edges'[Len(edges) + 1] = new
<1>1. edges \in Seq(Names \X (Nat \ {0}) \X Names)
  BY DEF TypeOK
<1> QED
  BY <1>1, AppendProperties, LenProperties

\* What is left of the path when its last deck is left.
LEMMA PathShortened ==
  ASSUME TypeOK, active # <<>>, NEW m, m = Len(active), active' = SubSeq(active, 1, m - 1)
  PROVE  /\ active \in Seq(Frame) /\ m \in Nat \ {0} /\ DOMAIN active = 1 .. m
         /\ DOMAIN active' = 1 .. m - 1 /\ \A k \in 1 .. m - 1 : active'[k] = active[k]
<1>1. active \in Seq(Frame)
  BY DEF TypeOK, Frame
<1>2. m \in Nat \ {0} /\ DOMAIN active = 1 .. m
  BY <1>1, EmptySeq, LenProperties
<1>3. \A k \in 1 .. m - 1 : active[k] \in Frame
  BY <1>1, <1>2, ElementOfSeq
<1>4. m - 1 \in Int /\ 1 \in Int /\ (1 <= m - 1 \/ m - 1 = 0)
  BY <1>2
<1>5. /\ SubSeq(active, 1, m - 1) \in Seq(Frame)
      /\ Len(SubSeq(active, 1, m - 1)) = IF 1 <= m - 1 THEN m - 1 - 1 + 1 ELSE 0
      /\ \A k \in 1 .. m - 1 - 1 + 1 : SubSeq(active, 1, m - 1)[k] = active[1 + k - 1]
  BY <1>3, <1>4, SubSeqProperties
<1>6. Len(active') = m - 1 /\ active' \in Seq(Frame)
  BY <1>2, <1>5
<1>7. DOMAIN active' = 1 .. m - 1
  BY <1>6, LenProperties
<1> QED
  BY <1>1, <1>2, <1>5, <1>7

LEMMA LinkIsEdge ==
  ASSUME NEW ds, NEW es, NEW frame, NEW m, Link(ds, es, frame, m)
  PROVE  Edge(es, frame.path, m)
BY DEF Link, Edge

\* What is known of a deck on the path.
LEMMA FrameDeck ==
  ASSUME TypeOK, Traversal
  PROVE  /\ active \in Seq(Frame) /\ Len(active) \in Nat /\ DOMAIN active = 1 .. Len(active)
         /\ \A k \in DOMAIN active :
              /\ active[k] \in Frame /\ active[k].path \in Names /\ active[k].at \in Nat \ {0}
              /\ decks[active[k].path] \in Texts
<1>1. active \in Seq(Frame)
  BY DEF TypeOK, Frame
<1>2. Len(active) \in Nat /\ DOMAIN active = 1 .. Len(active)
  BY <1>1, LenProperties
<1>3. \A k \in DOMAIN active : active[k] \in Frame
  BY <1>1, <1>2, ElementOfSeq
<1>4. \A k \in DOMAIN active : active[k].path \in Names /\ active[k].at \in Nat \ {0}
  BY <1>3 DEF Frame
<1>5. \A k \in DOMAIN active : decks[active[k].path] \in Texts
  BY <1>4 DEF TypeOK, Traversal
<1> QED
  BY <1>1, <1>2, <1>3, <1>4, <1>5

\* The items of a text are counted from one.
LEMMA ItemsOf ==
  ASSUME NEW t \in Texts
  PROVE  /\ t.items \in Seq(Names \union {Param, Unsafe})
         /\ Len(t.items) \in Nat /\ DOMAIN t.items = 1 .. Len(t.items)
<1>1. t.items \in Seq(Names \union {Param, Unsafe})
  BY DEF TextAssumption
<1> QED
  BY <1>1, LenProperties

LEMMA LinkedKept == IInv /\ Phases /\ Linked /\ [Next]_vars => Linked'
<1> SUFFICES ASSUME IInv, Phases, Linked, [Next]_vars
             PROVE  Linked'
  OBVIOUS
<1> DEFINE m == Len(active)
<1>0. /\ active \in Seq(Frame) /\ m \in Nat /\ DOMAIN active = 1 .. m
      /\ \A k \in 1 .. m : /\ active[k] \in Frame /\ active[k].path \in Names
                           /\ active[k].at \in Nat \ {0} /\ decks[active[k].path] \in Texts
  BY FrameDeck DEF IInv
<1> HIDE DEF m
<1>1. CASE \/ \E w \in Names \union {None} : OpenDirectory(w)
           \/ \E n \in Names : OpenFile(n)
  <2>1. pc = "open" /\ UNCHANGED active /\ next' = entry'
    BY <1>1 DEF OpenDirectory, OpenFile, Begin
  <2>2. active = <<>> /\ DOMAIN active = {}
    BY <2>1 DEF Phases
  <2> QED
    BY <2>1, <2>2 DEF Linked
<1>2. CASE VisitTooDeep \/ VisitUnreadable \/ VisitMalformed \/ VisitAgain
  <2>1. next' = None /\ UNCHANGED <<active, decks, edges, entry>>
    BY <1>2 DEF VisitTooDeep, VisitUnreadable, VisitMalformed, VisitAgain, bundle
  <2> QED
    BY <2>1 DEF Linked
<1>3. CASE VisitFirst
  <2> DEFINE frame == [path |-> next, at |-> 1]
  <2>1. /\ next \in Names /\ next # None /\ next' = None /\ UNCHANGED <<edges, entry>>
        /\ active' = Append(active, frame)
        /\ decks' = [decks EXCEPT ![next] = VisitText] /\ VisitText \in Texts
    <3>1. next \in Names /\ next # None /\ decks[next] = None /\ VisitText # None
      BY <1>3 DEF VisitFirst, Visiting, IInv, TypeOK
    <3>2. VisitText \in Texts
      BY <3>1, TextOfType DEF VisitText, IInv
    <3> QED
      BY <1>3, <3>1, <3>2 DEF VisitFirst
  <2>2. frame \in Frame /\ frame.path = next /\ frame.at = 1
    BY <2>1 DEF Frame
  <2> HIDE DEF frame
  <2>3. /\ DOMAIN active' = 1 .. m + 1 /\ active'[m + 1] = frame
        /\ \A k \in 1 .. m : active'[k] = active[k]
    BY <1>0, <2>1, <2>2, AppendProperties, LenProperties DEF m
  <2>4. \A k \in 1 .. m : decks'[active[k].path] = decks[active[k].path]
    BY <1>0, <2>1 DEF Linked, IInv, TypeOK
  <2>5. decks'[next] \in Texts
    BY <2>1 DEF IInv, TypeOK
  <2>6. \A k \in 1 .. m + 1 : k \in 1 .. m \/ k = m + 1
    BY <1>0
  <2>7. ASSUME NEW k \in 1 .. m + 1
        PROVE  active'[k].at <= Len(decks'[active'[k].path].items) + 1
    <3>1. CASE k = m + 1
      BY <2>2, <2>3, <2>5, <3>1, ItemsOf
    <3>2. CASE k \in 1 .. m
      BY <1>0, <2>3, <2>4, <3>2 DEF Linked
    <3> QED
      BY <2>6, <3>1, <3>2
  <2>8. ASSUME NEW k \in 1 .. m, NEW l, Link(decks, edges, active[k], l)
        PROVE  Link(decks', edges, active'[k], l)
    <3>1. active'[k] = active[k] /\ decks'[active[k].path] = decks[active[k].path]
      BY <2>3, <2>4
    <3> QED
      BY <2>8, <3>1 DEF Link
  <2>9. ASSUME NEW k \in 1 .. m + 1, k + 1 \in 1 .. m + 1
        PROVE  Link(decks', edges, active'[k], active'[k + 1].path)
    <3>1. k \in 1 .. m
      BY <1>0, <2>9
    <3>2. CASE k + 1 \in 1 .. m
      BY <1>0, <2>3, <2>8, <3>1, <3>2 DEF Linked
    <3>3. CASE k = m
      <4>1. active # <<>>
        BY <1>0, <3>1, <3>3
      <4>2. Link(decks, edges, active[k], next)
        BY <2>1, <3>3, <4>1 DEF Linked, Top, m
      <4> QED
        BY <2>2, <2>3, <2>8, <3>1, <3>3, <4>2
    <3> QED
      BY <1>0, <2>9, <3>1, <3>2, <3>3
  <2>10. active'[1].path = entry
    <3>1. CASE m = 0
      <4>1. active = <<>>
        BY <1>0, <3>1, EmptySeq DEF m
      <4> QED
        BY <2>1, <2>2, <2>3, <3>1, <4>1 DEF Linked
    <3>2. CASE m # 0
      <4>1. 1 \in 1 .. m /\ active # <<>>
        BY <1>0, <3>2
      <4> QED
        BY <2>3, <4>1 DEF Linked
    <3> QED
      BY <3>1, <3>2
  <2>11. edges' = edges /\ entry' = entry
    BY <2>1
  <2> QED
    BY <2>1, <2>3, <2>7, <2>9, <2>10, <2>11 DEF Linked
<1>4. CASE TakeParam \/ TakeUnresolved \/ TakeCycle \/ TakeInclude
  <2>1. Stepping /\ HasItem /\ Advance /\ UNCHANGED <<decks, entry>> /\ next = None
    BY <1>4 DEF TakeParam, TakeUnresolved, TakeCycle, TakeInclude, Stepping, bundle
  <2>2. DOMAIN active' = DOMAIN active /\ Len(active') = m
        /\ \A k \in DOMAIN active : active'[k].path = active[k].path
    BY <2>1, AdvancePasses DEF IInv, m
  <2>3. m \in 1 .. m /\ Top = active[m] /\ Top \in Frame /\ Top.path \in Names /\ Top.at \in Nat \ {0}
        /\ decks[Top.path] \in Texts
    <3>1. m \in 1 .. m
      BY <1>0, <2>1, TopOfPath DEF IInv, m
    <3> QED
      BY <1>0, <3>1 DEF Top, m
  <2>4. active'[m].at = Top.at + 1 /\ \A k \in 1 .. m : k # m => active'[k] = active[k]
    BY <1>0, <2>1, <2>3 DEF Advance, Frame, m
  <2>5. Resolved # None => Resolved \in Names
    BY <2>1, ItemType DEF IInv
  <2>6. ASSUME NEW k \in 1 .. m
        PROVE  active'[k].at <= Len(decks[active[k].path].items) + 1
    <3>1. CASE k = m
      BY <2>1, <2>3, <2>4, <3>1, ItemsOf DEF HasItem
    <3>2. CASE k # m
      BY <1>0, <2>4, <3>2 DEF Linked
    <3> QED
      BY <3>1, <3>2
  <2>7. \A k \in DOMAIN edges : k \in DOMAIN edges' /\ edges'[k] = edges[k]
    <3>1. CASE TakeParam \/ TakeUnresolved
      BY <3>1 DEF TakeParam, TakeUnresolved
    <3>2. CASE TakeCycle \/ TakeInclude
      <4>1. edges' = Append(edges, <<Top.path, Top.at, Resolved>>) /\ Resolved \in Names
        BY <2>5, <3>2 DEF TakeCycle, TakeInclude
      <4> QED
        BY <2>3, <4>1, AppendedEdge DEF IInv
    <3> QED
      BY <1>4, <3>1, <3>2
  <2>8. ASSUME NEW k \in 1 .. m, k + 1 \in 1 .. m
        PROVE  Link(decks, edges', active'[k], active'[k + 1].path)
    <3>1. k # m
      BY <1>0, <2>8
    <3>2. Link(decks, edges, active[k], active[k + 1].path)
      BY <1>0, <2>8 DEF Linked
    <3>3. active'[k] = active[k] /\ active'[k + 1].path = active[k + 1].path
      BY <1>0, <2>2, <2>4, <2>8, <3>1
    <3> QED
      BY <2>7, <3>2, <3>3 DEF Link
  <2>9. active' # <<>> /\ active # <<>> /\ 1 \in 1 .. m
    BY <1>0, <2>2, <2>3
  <2>10. active'[1].path = entry
    BY <1>0, <2>2, <2>9 DEF Linked
  <2>11. CASE ~TakeInclude
    <3>1. next' = None
      BY <1>4, <2>1, <2>11 DEF TakeParam, TakeUnresolved, TakeCycle
    <3> QED
      BY <1>0, <2>1, <2>2, <2>6, <2>8, <2>10, <3>1 DEF Linked
  <2>12. CASE TakeInclude
    <3>1. /\ next' = Resolved /\ Resolved \in Names /\ ~OnPath(Resolved) /\ Item # Param
          /\ edges' = Append(edges, <<Top.path, Top.at, Resolved>>)
      BY <2>5, <2>12 DEF TakeInclude
    <3>2. \E k \in DOMAIN edges' : edges'[k] = <<Top.path, Top.at, Resolved>>
      BY <2>3, <3>1, AppendedEdge DEF IInv
    <3>3. Top.at \in DOMAIN decks[Top.path].items /\ decks[Top.path].items[Top.at] # Param
      BY <2>1, <2>3, <3>1, ItemsOf DEF HasItem, Item
    <3>4. Top'.path = Top.path /\ Top'.at - 1 = Top.at
      <4>1. Top' = active'[m]
        BY <2>2 DEF Top
      <4>2. active'[m].path = active[m].path
        BY <1>0, <2>2, <2>3
      <4> QED
        BY <2>3, <2>4, <4>1, <4>2
    <3>5. Link(decks', edges', Top', next')
      BY <2>1, <3>1, <3>2, <3>3, <3>4 DEF Link
    <3>6. \A k \in DOMAIN active' : active'[k].path # next'
      BY <2>2, <3>1 DEF OnPath
    <3> QED
      BY <1>0, <2>1, <2>2, <2>6, <2>8, <2>9, <2>10, <3>5, <3>6 DEF Linked
  <2> QED
    BY <2>11, <2>12
<1>5. CASE Leave
  <2>1. active # <<>> /\ active' = SubSeq(active, 1, m - 1) /\ UNCHANGED <<decks, edges, next, entry>> /\ next = None
    BY <1>5 DEF Leave, Stepping, bundle, m
  <2>2. /\ m \in Nat \ {0}
        /\ DOMAIN active' = 1 .. m - 1 /\ \A k \in 1 .. m - 1 : active'[k] = active[k]
    BY <2>1, PathShortened DEF IInv, m
  <2>3. \A k \in 1 .. m - 1 : k \in DOMAIN active
    BY <1>0, <2>2
  <2>4. active' # <<>> => 1 \in 1 .. m - 1
    <3>1. active' \in Seq(Frame) /\ Len(active') \in Nat /\ DOMAIN active' = 1 .. Len(active')
      <4>1. active' \in Seq(Frame)
        BY <2>1, DeckClosed, <1>5 DEF IInv
      <4> QED
        BY <4>1, LenProperties
    <3>2. active' # <<>> => Len(active') # 0
      BY <3>1, EmptySeq
    <3> QED
      BY <2>2, <3>1, <3>2
  <2> QED
    BY <2>1, <2>2, <2>3, <2>4 DEF Linked
<1>6. CASE Finish \/ (\E n \in Names : Edit(n)) \/ UNCHANGED vars
  <2>1. UNCHANGED <<active, decks, edges, next, entry>>
    BY <1>6 DEF Finish, Edit, vars, bundle, graph
  <2> QED
    BY <2>1 DEF Linked, Top
<1> QED
  BY <1>1, <1>2, <1>3, <1>4, <1>5, <1>6 DEF Next, Load

\* An edge is between decks; None is no name.
LEMMA EdgeEnds ==
  ASSUME TypeOK, NEW k \in DOMAIN edges
  PROVE  edges[k][1] \in Names /\ edges[k][2] \in Nat \ {0} /\ edges[k][3] \in Names
<1>1. edges \in Seq(Names \X (Nat \ {0}) \X Names)
  BY DEF TypeOK
<1>2. edges[k] \in Names \X (Nat \ {0}) \X Names
  BY <1>1, ElementOfSeq, LenProperties
<1> QED
  BY <1>2

\* An item that an advance has passed was passed before or is that on top.
LEMMA NewlyPassed ==
  ASSUME TypeOK, Traversal, Stepping, Advance, UNCHANGED decks,
         NEW n \in Names, NEW i \in Nat,
         decks'[n] # None, \A k \in DOMAIN active' : active'[k].path = n => i < active'[k].at
  PROVE  Passed(n, i) \/ (n = Top.path /\ i = Top.at)
<1> DEFINE m == Len(active)
<1>1. m \in DOMAIN active /\ Top = active[m] /\ Top.at \in Nat \ {0} /\ Top \in Frame
  BY TopOfPath DEF Top
<1>2. DOMAIN active' = DOMAIN active /\ \A k \in DOMAIN active : active'[k].path = active[k].path
  BY AdvancePasses
<1>3. active'[m].at = Top.at + 1 /\ \A k \in DOMAIN active : k # m => active'[k] = active[k]
  BY <1>1 DEF Advance, Frame
<1> HIDE DEF m
<1>4. ASSUME NEW k \in DOMAIN active, active[k].path = n, ~(i < active[k].at)
      PROVE  n = Top.path /\ i = Top.at
  <2>1. i < active'[k].at
    BY <1>2, <1>4
  <2>2. k = m
    BY <1>3, <1>4, <2>1
  <2> QED
    BY <1>1, <1>3, <1>4, <2>1, <2>2
<1> QED
  BY <1>4 DEF Passed

\* Every step keeps it.
LEMMA FaultlessKept == IInv /\ Phases /\ Linked /\ Faultless /\ [Next]_vars => Faultless'
<1> SUFFICES ASSUME IInv, Phases, Linked, Faultless, [Next]_vars
             PROVE  Faultless'
  OBVIOUS
<1>0. TypeOK /\ Traversal
  BY DEF IInv
<1>1. CASE \/ \E w \in Names \union {None} : OpenDirectory(w)
           \/ \E n \in Names : OpenFile(n)
  <2>1. pc = "open" /\ UNCHANGED <<decks, edges, active>> /\ next' = entry'
    BY <1>1 DEF OpenDirectory, OpenFile, Begin
  <2>2. edges = <<>> /\ DOMAIN edges = {} /\ \A n \in Names : decks[n] = None
    BY <2>1 DEF Phases
  <2> QED
    BY <2>1, <2>2 DEF Faultless
<1>2. CASE VisitTooDeep \/ VisitUnreadable \/ VisitMalformed \/ VisitAgain \/ TakeUnresolved \/ TakeCycle
  <2>1. issues' # {}
    BY <1>2 DEF VisitTooDeep, VisitUnreadable, VisitMalformed, VisitAgain, TakeUnresolved, TakeCycle, Report
  <2> QED
    BY <2>1 DEF Faultless
<1>3. CASE VisitFirst
  <2> SUFFICES ASSUME pc' \in {"load", "done"}, issues' = {}
               PROVE  Faultless'
    BY DEF Faultless
  <2> DEFINE frame == [path |-> next, at |-> 1]
             m == Len(active)
  <2>1. /\ next \in Names /\ next' = None /\ UNCHANGED <<entry, edges, issues, pc>>
        /\ active' = Append(active, frame) /\ decks[next] = None
        /\ decks' = [decks EXCEPT ![next] = VisitText] /\ VisitText # None
    BY <1>3 DEF VisitFirst, Visiting, IInv, TypeOK
  <2>2. decks'[next] # None /\ \A n \in Names : n # next => decks'[n] = decks[n]
    BY <1>0, <2>1 DEF TypeOK
  <2>3. /\ active \in Seq(Frame) /\ frame \in Frame
        /\ m \in Nat /\ DOMAIN active = 1 .. m /\ DOMAIN active' = 1 .. m + 1 /\ active'[m + 1] = frame
        /\ \A k \in 1 .. m : active'[k] = active[k]
    <3>1. active \in Seq(Frame) /\ frame \in Frame
      BY <1>0, <2>1 DEF Frame, TypeOK
    <3> QED
      BY <2>1, <3>1, AppendProperties, LenProperties
  <2>4. pc \in {"load", "done"} /\ issues = {} /\ Fresh /\ entry \in Names
    BY <2>1 DEF Fresh, Phases
  <2>5. decks'[entry'] # None
    BY <2>1, <2>2, <2>4 DEF Faultless
  <2>6. ASSUME NEW k \in DOMAIN edges'
        PROVE  decks'[edges'[k][3]] # None
    BY <1>0, <2>1, <2>2, <2>4, EdgeEnds DEF Faultless
  <2>7. \A k \in DOMAIN edges' : /\ edges'[k][3] # entry'
                                 /\ \A l \in DOMAIN edges' : edges'[k][3] = edges'[l][3] => k = l
    BY <2>1, <2>4 DEF Faultless
  <2>8. ASSUME NEW n \in Names, decks'[n] # None, n # entry'
        PROVE  \E k \in DOMAIN edges' : edges'[k][3] = n
    <3>1. CASE n = next
      <4>1. active # <<>> /\ Edge(edges, Top.path, next)
        BY <2>1, <2>8, <3>1, LinkIsEdge DEF Linked
      <4> QED
        BY <2>1, <3>1, <4>1 DEF Edge
    <3>2. CASE n # next
      BY <2>1, <2>2, <2>4, <2>8, <3>2 DEF Faultless
    <3> QED
      BY <3>1, <3>2
  <2>9. ASSUME NEW n \in Names, decks'[n] # None, NEW i \in DOMAIN decks'[n].items, decks'[n].items[i] # Param,
               \A k \in DOMAIN active' : active'[k].path = n => i < active'[k].at
        PROVE  \E k \in DOMAIN edges' : edges'[k][1] = n /\ edges'[k][2] = i
    <3>1. n # next
      <4>1. SUFFICES ASSUME n = next PROVE FALSE
        OBVIOUS
      <4>2. i < 1
        BY <2>3, <2>9, <4>1
      <4>3. decks' \in [Names -> Texts \union {None}]
        BY NextIInv DEF IInv, TypeOK
      <4>4. decks'[n].items \in Seq(Names \union {Param, Unsafe})
        BY <2>9, <4>3
      <4>5. i \in 1 .. Len(decks'[n].items)
        BY <4>4, LenProperties
      <4> QED
        BY <4>2, <4>5
    <3>2. decks[n] # None /\ i \in References(n)
      BY <2>2, <2>9, <3>1 DEF References
    <3>3. Passed(n, i)
      BY <2>3, <2>9, <3>2 DEF Passed
    <3> QED
      BY <2>1, <2>4, <3>2, <3>3 DEF Faultless
  <2> HIDE DEF frame, m
  <2> QED
    BY <2>5, <2>6, <2>7, <2>8, <2>9 DEF Faultless, References, Passed
<1>4. CASE TakeParam \/ TakeInclude
  <2> SUFFICES ASSUME pc' \in {"load", "done"}, issues' = {}
               PROVE  Faultless'
    BY DEF Faultless
  <2>1. Stepping /\ HasItem /\ Advance /\ next = None /\ UNCHANGED <<decks, issues, pc, entry>>
    BY <1>4 DEF TakeParam, TakeInclude, Stepping, bundle
  <2>2. pc \in {"load", "done"} /\ issues = {} /\ Fresh /\ entry \in Names
    BY <2>1 DEF Fresh, Phases
  <2>3. decks[entry] # None /\ \A k \in DOMAIN edges : decks[edges[k][3]] # None
    BY <1>0, <2>1, <2>2, EdgeEnds DEF Faultless
  <2>4. Top.path \in Names /\ Top.at \in Nat \ {0}
    BY <1>0, <2>1, TopOfPath
  <2>5. ASSUME NEW n \in Names, decks'[n] # None, NEW i \in DOMAIN decks'[n].items, decks'[n].items[i] # Param,
               \A k \in DOMAIN active' : active'[k].path = n => i < active'[k].at
        PROVE  \/ \E k \in DOMAIN edges : edges[k][1] = n /\ edges[k][2] = i
               \/ n = Top.path /\ i = Top.at
    <3>1. i \in Nat /\ i \in References(n) /\ decks[n] # None
      <4>1. decks[n].items \in Seq(Names \union {Param, Unsafe})
        BY <1>0, <2>1, <2>5 DEF TypeOK
      <4>2. i \in 1 .. Len(decks[n].items)
        BY <2>1, <4>1, LenProperties
      <4> QED
        BY <2>1, <2>5, <4>2 DEF References
    <3>2. Passed(n, i) \/ (n = Top.path /\ i = Top.at)
      BY <1>0, <2>1, <2>5, <3>1, NewlyPassed
    <3> QED
      BY <2>2, <3>1, <3>2 DEF Faultless
  <2>6. CASE TakeParam
    <3>1. UNCHANGED <<edges, next>> /\ Item = Param
      BY <2>6 DEF TakeParam
    <3>2. ASSUME NEW n \in Names, decks'[n] # None, NEW i \in DOMAIN decks'[n].items, decks'[n].items[i] # Param,
                 \A k \in DOMAIN active' : active'[k].path = n => i < active'[k].at
          PROVE  \E k \in DOMAIN edges' : edges'[k][1] = n /\ edges'[k][2] = i
      BY <2>1, <2>5, <3>1, <3>2 DEF Item
    <3> QED
      BY <2>1, <2>2, <2>3, <3>1, <3>2 DEF Faultless, References, Passed, Fresh
  <2>7. CASE TakeInclude
    <3> DEFINE m == Len(edges)
               new == <<Top.path, Top.at, Resolved>>
    <3>1. Resolved \in Names /\ next' = Resolved /\ edges' = Append(edges, new)
      BY <1>0, <2>1, <2>7, ItemType DEF TakeInclude
    <3>2. new \in Names \X (Nat \ {0}) \X Names /\ new[1] = Top.path /\ new[2] = Top.at /\ new[3] = Resolved
      BY <2>4, <3>1
    <3>3. /\ m \in Nat /\ DOMAIN edges = 1 .. m /\ DOMAIN edges' = 1 .. m + 1
          /\ \A k \in DOMAIN edges : k \in DOMAIN edges' /\ edges'[k] = edges[k]
          /\ m + 1 \in DOMAIN edges' /\ edges'[m + 1] = new
      BY <1>0, <3>1, <3>2, AppendedEdge
    <3>4. \A k \in DOMAIN edges' : k \in DOMAIN edges \/ k = m + 1
      BY <3>3
    <3> HIDE DEF m, new
    <3>5. \A k \in DOMAIN edges' : decks'[edges'[k][3]] # None \/ edges'[k][3] = next'
      BY <2>1, <2>3, <3>1, <3>2, <3>3, <3>4
    <3>6. ASSUME decks[Resolved] = None, NEW k \in DOMAIN edges'
          PROVE  /\ edges'[k][3] # entry
                 /\ \A l \in DOMAIN edges' : edges'[k][3] = edges'[l][3] => k = l
      <4>1. edges'[k][3] # entry
        BY <2>2, <2>3, <3>2, <3>3, <3>4, <3>6 DEF Faultless
      <4>2. ASSUME NEW l \in DOMAIN edges', edges'[k][3] = edges'[l][3]
            PROVE  k = l
        <5>1. CASE k = m + 1 /\ l = m + 1
          BY <5>1
        <5>2. CASE k = m + 1 /\ l \in DOMAIN edges
          BY <2>3, <3>2, <3>3, <3>6, <4>2, <5>2
        <5>3. CASE k \in DOMAIN edges /\ l = m + 1
          BY <2>3, <3>2, <3>3, <3>6, <4>2, <5>3
        <5>4. CASE k \in DOMAIN edges /\ l \in DOMAIN edges
          BY <2>2, <3>3, <4>2, <5>4 DEF Faultless
        <5> QED
          BY <3>4, <5>1, <5>2, <5>3, <5>4
      <4> QED
        BY <4>1, <4>2
    <3>7. ASSUME NEW n \in Names, decks'[n] # None, n # entry'
          PROVE  \E k \in DOMAIN edges' : edges'[k][3] = n
      <4>1. PICK k \in DOMAIN edges : edges[k][3] = n
        BY <2>1, <2>2, <3>7 DEF Faultless
      <4> QED
        BY <3>3, <4>1
    <3>8. ASSUME NEW n \in Names, decks'[n] # None, NEW i \in DOMAIN decks'[n].items, decks'[n].items[i] # Param,
                 \A k \in DOMAIN active' : active'[k].path = n => i < active'[k].at
          PROVE  \E k \in DOMAIN edges' : edges'[k][1] = n /\ edges'[k][2] = i
      <4>1. CASE n = Top.path /\ i = Top.at
        BY <3>2, <3>3, <4>1
      <4>2. CASE \E k \in DOMAIN edges : edges[k][1] = n /\ edges[k][2] = i
        BY <3>3, <4>2
      <4> QED
        BY <2>5, <3>8, <4>1, <4>2
    <3> QED
      BY <2>1, <2>3, <3>1, <3>5, <3>6, <3>7, <3>8 DEF Faultless, References, Passed, Fresh
  <2> QED
    BY <1>4, <2>6, <2>7
<1>5. CASE Leave
  <2> SUFFICES ASSUME pc' \in {"load", "done"}, issues' = {}
               PROVE  Faultless'
    BY DEF Faultless
  <2> DEFINE m == Len(active)
  <2>1. /\ Stepping /\ ~HasItem /\ active' = SubSeq(active, 1, m - 1)
        /\ UNCHANGED <<decks, edges, next, issues, pc, entry>>
    BY <1>5 DEF Leave, bundle
  <2>2. /\ m \in DOMAIN active /\ Top = active[m] /\ Top.at \in Nat /\ Top.path \in Names
        /\ decks[Top.path] \in Texts
    BY <1>0, <2>1, TopOfPath DEF Top
  <2>3. /\ active \in Seq(Frame) /\ m \in Nat \ {0} /\ DOMAIN active = 1 .. m
        /\ DOMAIN active' = 1 .. m - 1 /\ \A k \in 1 .. m - 1 : active'[k] = active[k]
    BY <1>0, <2>1, PathShortened DEF Stepping
  <2>4. ASSUME NEW n \in Names, decks[n] # None, NEW i \in References(n),
               \A k \in DOMAIN active' : active'[k].path = n => i < active'[k].at
        PROVE  Passed(n, i)
    <3>1. decks[n].items \in Seq(Names \union {Param, Unsafe})
      BY <1>0, <2>4 DEF TypeOK
    <3>2. i \in 1 .. Len(decks[n].items) /\ Len(decks[n].items) \in Nat
      BY <3>1, LenProperties DEF References
    <3>3. ASSUME NEW k \in DOMAIN active, active[k].path = n
          PROVE  i < active[k].at
      <4>1. CASE k = m
        BY <2>1, <2>2, <3>2, <3>3, <4>1 DEF HasItem
      <4>2. CASE k \in 1 .. m - 1
        BY <2>3, <2>4, <3>3, <4>2
      <4> HIDE DEF m
      <4> QED
        BY <2>3, <4>1, <4>2
    <3> QED
      BY <2>4, <3>3 DEF Passed
  <2> HIDE DEF m
  <2>5. ASSUME NEW n \in Names, decks'[n] # None, NEW i \in DOMAIN decks'[n].items, decks'[n].items[i] # Param,
               \A k \in DOMAIN active' : active'[k].path = n => i < active'[k].at
        PROVE  \E k \in DOMAIN edges' : edges'[k][1] = n /\ edges'[k][2] = i
    <3>1. i \in References(n) /\ decks[n] # None
      BY <2>1, <2>5 DEF References
    <3>2. Passed(n, i)
      BY <2>4, <2>5, <3>1
    <3> QED
      BY <2>1, <3>1, <3>2 DEF Faultless
  <2>6. UNCHANGED <<decks, edges, next, issues, pc, entry>>
    BY <2>1
  <2>7. /\ decks'[entry'] # None \/ (next' = entry' /\ edges' = <<>>)
        /\ \A k \in DOMAIN edges' : decks'[edges'[k][3]] # None \/ edges'[k][3] = next'
        /\ Fresh' => \A k \in DOMAIN edges' :
                       /\ edges'[k][3] # entry'
                       /\ \A l \in DOMAIN edges' : edges'[k][3] = edges'[l][3] => k = l
        /\ \A n \in Names : decks'[n] # None /\ n # entry' => \E k \in DOMAIN edges' : edges'[k][3] = n
    BY <2>6 DEF Faultless, Fresh
  <2> QED
    BY <2>5, <2>7 DEF Faultless, References, Passed
<1>6. CASE Finish \/ (\E n \in Names : Edit(n)) \/ UNCHANGED vars
  <2>1. UNCHANGED <<decks, edges, next, issues, entry, active>> /\ (pc' \in {"load", "done"} => pc \in {"load", "done"})
    BY <1>6 DEF Finish, Edit, vars, bundle, graph
  <2> QED
    BY <2>1 DEF Faultless, References, Passed, Fresh
<1> QED
  BY <1>1, <1>2, <1>3, <1>4, <1>5, <1>6 DEF Next, Load

LEMMA InitOutcome == Init => Phases /\ Linked /\ Faultless
<1> SUFFICES ASSUME Init
             PROVE  Phases /\ Linked /\ Faultless
  OBVIOUS
<1>1. /\ pc = "open" /\ edges = <<>> /\ params = <<>> /\ active = <<>> /\ next = None /\ issues = {}
      /\ \A n \in Names : decks[n] = None
  BY DEF Init
<1>2. DOMAIN active = {}
  BY <1>1
<1> QED
  BY <1>1, <1>2 DEF Phases, Linked, Faultless

LEMMA OutcomeHolds == Spec => [](IInv /\ Phases /\ Linked /\ Faultless)
<1>1. Init => IInv /\ Phases /\ Linked /\ Faultless
  BY InitIInv, InitOutcome
<1>2. IInv /\ Phases /\ Linked /\ Faultless /\ [Next]_vars => (IInv /\ Phases /\ Linked /\ Faultless)'
  BY NextIInv, PhasesKept, LinkedKept, FaultlessKept
<1> QED
  BY <1>1, <1>2, PTL DEF Spec

\* A report without a load issue is about the whole netlist: every reference of
\* every deck leads to a deck that was parsed, and every deck but the entry is
\* included from exactly one place.
THEOREM CleanIsComplete == Spec => []CompleteWhenClean
<1>1. IInv /\ Phases /\ Linked /\ Faultless => CompleteWhenClean
  <2> SUFFICES ASSUME TypeOK, Phases, Faultless, pc = "done", issues = {}
               PROVE  /\ entry \in Loaded
                      /\ \A n \in Loaded : \A i \in References(n) :
                           \E e \in ToSet(edges) : e[1] = n /\ e[2] = i /\ e[3] \in Loaded
                      /\ \A n \in Loaded :
                           Cardinality({e \in ToSet(edges) : e[3] = n}) = IF n = entry THEN 0 ELSE 1
    BY DEF CompleteWhenClean, IInv
  <2>1. entry \in Names /\ active = <<>> /\ next = None /\ Fresh
    BY DEF Phases, Fresh
  <2>2. entry \in Loaded
    BY <2>1 DEF Faultless, Loaded
  <2>3. \A k \in DOMAIN edges : edges[k] \in ToSet(edges) /\ edges[k][3] \in Loaded
    BY <2>1, EdgeEnds DEF Faultless, Loaded, ToSet
  <2>4. ASSUME NEW n \in Loaded, NEW i \in References(n)
        PROVE  \E e \in ToSet(edges) : e[1] = n /\ e[2] = i /\ e[3] \in Loaded
    <3>1. DOMAIN active = {}
      BY <2>1
    <3>2. Passed(n, i)
      BY <3>1 DEF Passed, Loaded
    <3> QED
      BY <2>3, <3>2 DEF Faultless, Loaded
  <2>5. ASSUME NEW n \in Loaded
        PROVE  Cardinality({e \in ToSet(edges) : e[3] = n}) = IF n = entry THEN 0 ELSE 1
    <3>1. CASE n = entry
      <4>1. {e \in ToSet(edges) : e[3] = n} = {}
        BY <2>1, <3>1 DEF Faultless, ToSet
      <4> QED
        BY <3>1, <4>1, FS_EmptySet
    <3>2. CASE n # entry
      <4>1. PICK k \in DOMAIN edges : edges[k][3] = n
        BY <3>2 DEF Faultless, Loaded
      <4>2. {e \in ToSet(edges) : e[3] = n} = {edges[k]}
        BY <2>1, <4>1 DEF Faultless, ToSet
      <4> QED
        BY <3>2, <4>2, FS_Singleton
    <3> QED
      BY <3>1, <3>2
  <2> QED
    BY <2>2, <2>4, <2>5
<1> QED
  BY <1>1, OutcomeHolds, PTL

-----------------------------------------------------------------------------
(* What is cyclic. *)

\* Some decks each have an edge to one of them.
Ring(es, s) == s # {} /\ \A n \in s : \E m \in s : Edge(es, n, m)

CycleSeen == "INCL001" \in Codes => \E s \in SUBSET Names : Ring(edges, s)

\* The decks that were visited and left.
Left == {n \in Names : decks[n] # None /\ \A k \in DOMAIN active : active[k].path # n}

\* Where an edge leads: to what was left, to the visit to come, or down the path.
Onward(n, m) ==
  \/ m \in Left
  \/ m = next /\ active # <<>> /\ n = Top.path
  \/ \E j \in DOMAIN active : j + 1 \in DOMAIN active /\ active[j].path = n /\ active[j + 1].path = m

\* No cycle was reported, and nothing that could hide one.
Whole == Codes \intersect {"INCL001", "INCL002", "FILE001", "PARSE001"} = {}

\* Then what was left has edges only to what was left before it.
Sorted ==
  Whole =>
    /\ \A n, m \in Names : Edge(edges, n, m) => (n \in Left => m \in Left) /\ Onward(n, m)
    /\ \A s \in SUBSET Left : ~Ring(edges, s)

LEMMA ReportAdds ==
  ASSUME NEW code, NEW n, Report(code, n)
  PROVE  Codes' = Codes \union {code}
<1> DEFINE new == <<code, n>>
<1>1. new[1] = code /\ issues' = issues \union {new}
  BY DEF Report
<1> HIDE DEF new
<1>2. \A x : x \in Codes' <=> \E issue \in issues' : x = issue[1]
  BY DEF Codes
<1>3. \A x : x \in Codes <=> \E issue \in issues : x = issue[1]
  BY DEF Codes
<1> QED
  BY <1>1, <1>2, <1>3

\* What a step from deck to deck adds to the edges.
LEMMA EdgesAdded ==
  ASSUME IInv, TakeCycle \/ TakeInclude
  PROVE  /\ Top.path \in Names /\ Resolved \in Names
         /\ \A n, m : Edge(edges', n, m) <=> Edge(edges, n, m) \/ (n = Top.path /\ m = Resolved)
<1> DEFINE new == <<Top.path, Top.at, Resolved>>
           c == Len(edges)
<1>1. Stepping /\ HasItem /\ edges' = Append(edges, new) /\ Resolved # None
  BY DEF TakeCycle, TakeInclude
<1>2. Top.path \in Names /\ Top.at \in Nat \ {0} /\ Resolved \in Names
  BY <1>1, TopOfPath, ItemType DEF IInv
<1>3. new \in Names \X (Nat \ {0}) \X Names /\ new[1] = Top.path /\ new[3] = Resolved
  BY <1>2
<1> HIDE DEF new
<1>4. /\ DOMAIN edges = 1 .. c /\ DOMAIN edges' = 1 .. c + 1 /\ c \in Nat
      /\ \A k \in DOMAIN edges : k \in DOMAIN edges' /\ edges'[k] = edges[k]
      /\ c + 1 \in DOMAIN edges' /\ edges'[c + 1] = new
  BY <1>1, <1>3, AppendedEdge DEF IInv
<1>5. \A k \in DOMAIN edges' : k \in DOMAIN edges \/ k = c + 1
  BY <1>4
<1> HIDE DEF c
<1>6. ASSUME NEW n, NEW m
      PROVE  Edge(edges', n, m) <=> Edge(edges, n, m) \/ (n = Top.path /\ m = Resolved)
  BY <1>3, <1>4, <1>5 DEF Edge
<1> QED
  BY <1>2, <1>6

LEMMA CycleSeenKept == IInv /\ Linked /\ CycleSeen /\ [Next]_vars => CycleSeen'
<1> SUFFICES ASSUME IInv, Linked, CycleSeen, [Next]_vars, "INCL001" \in Codes'
             PROVE  \E s \in SUBSET Names : Ring(edges', s)
  BY DEF CycleSeen
<1>1. ASSUME NEW s \in SUBSET Names, Ring(edges, s), \A n, m : Edge(edges, n, m) => Edge(edges', n, m)
      PROVE  \E t \in SUBSET Names : Ring(edges', t)
  BY <1>1, Zenon DEF Ring
<1>2. CASE TakeCycle
  <2>1. Stepping /\ HasItem /\ OnPath(Resolved)
    BY <1>2 DEF TakeCycle
  <2>2. \A n, m : Edge(edges', n, m) <=> Edge(edges, n, m) \/ (n = Top.path /\ m = Resolved)
    BY <1>2, EdgesAdded
  <2>3. PICK i \in DOMAIN active : active[i].path = Resolved
    BY <2>1 DEF OnPath
  <2> DEFINE c == Len(active)
             s == {active[k].path : k \in i .. c}
  <2>4. /\ c \in Nat /\ DOMAIN active = 1 .. c /\ Top = active[c]
        /\ \A k \in 1 .. c : active[k].path \in Names
    <3>1. active \in Seq(Frame)
      BY DEF IInv, TypeOK, Frame
    <3>2. c \in Nat /\ DOMAIN active = 1 .. c
      BY <3>1, LenProperties
    <3>3. \A k \in 1 .. c : active[k] \in Frame
      BY <3>1, <3>2, ElementOfSeq
    <3> QED
      BY <3>2, <3>3 DEF Top, Frame
  <2> HIDE DEF c
  <2>5. i .. c \subseteq 1 .. c /\ i \in i .. c /\ c \in i .. c
    BY <2>3, <2>4
  <2>6. s \in SUBSET Names /\ s # {} /\ Resolved \in s
    BY <2>3, <2>4, <2>5
  <2>7. ASSUME NEW k \in i .. c
        PROVE  \E m \in s : Edge(edges', active[k].path, m)
    <3>1. CASE k = c
      BY <2>2, <2>4, <2>6, <3>1
    <3>2. CASE k # c
      <4>1. k \in DOMAIN active /\ k + 1 \in DOMAIN active /\ k + 1 \in i .. c
        BY <2>4, <2>5, <3>2
      <4>2. Edge(edges, active[k].path, active[k + 1].path)
        BY <4>1, LinkIsEdge DEF Linked
      <4>3. active[k + 1].path \in s
        BY <4>1
      <4> QED
        BY <2>2, <4>2, <4>3
    <3> QED
      BY <3>1, <3>2
  <2>8. \A n \in s : \E m \in s : Edge(edges', n, m)
    BY <2>7
  <2> HIDE DEF s
  <2> QED
    BY <2>6, <2>8 DEF Ring
<1>3. CASE TakeInclude
  <2>1. UNCHANGED issues
    BY <1>3 DEF TakeInclude
  <2>2. PICK s \in SUBSET Names : Ring(edges, s)
    BY <2>1 DEF CycleSeen, Codes
  <2> QED
    BY <1>1, <1>3, <2>2, EdgesAdded
<1>4. CASE ~TakeCycle /\ ~TakeInclude
  <2>1. UNCHANGED edges
    BY <1>4 DEF Next, Load, OpenDirectory, OpenFile, Begin, VisitTooDeep, VisitUnreadable, VisitMalformed, VisitAgain,
                VisitFirst, TakeParam, TakeUnresolved, Leave, Finish, Edit, vars, bundle, graph
  <2>2. ASSUME NEW code, NEW n, Report(code, n), code # "INCL001"
        PROVE  "INCL001" \in Codes
    BY <2>2, ReportAdds
  <2>3. \/ UNCHANGED issues
        \/ \E n : Report("INCL002", n) \/ Report("FILE001", n) \/ Report("PARSE001", n) \/ Report("INCL003", n)
                  \/ Report("PATH001", n)
    BY <1>4 DEF Next, Load, OpenDirectory, OpenFile, Begin, VisitTooDeep, VisitUnreadable, VisitMalformed, VisitAgain,
                VisitFirst, TakeParam, TakeUnresolved, Leave, Finish, Edit, vars, bundle, graph
  <2>4. UNCHANGED issues => Codes' = Codes
    BY DEF Codes
  <2>5. "INCL001" \in Codes
    BY <2>2, <2>3, <2>4
  <2> QED
    BY <2>1, <2>5 DEF CycleSeen
<1> QED
  BY <1>2, <1>3, <1>4

\* An edge leads between names.
LEMMA EdgeNames == ASSUME TypeOK, NEW n, NEW m, Edge(edges, n, m) PROVE n \in Names /\ m \in Names
BY EdgeEnds DEF Edge

\* The path and what was left, after a deck was opened,
LEMMA Opened ==
  ASSUME IInv, VisitFirst, NEW c, c = Len(active)
  PROVE  /\ next \in Names /\ decks[next] = None /\ next' = None /\ UNCHANGED <<edges, entry, params, issues, pc>>
         /\ \A n \in Names : n # next => decks'[n] = decks[n]
         /\ decks'[next] \in Texts
         /\ c \in Nat /\ DOMAIN active = 1 .. c /\ DOMAIN active' = 1 .. c + 1 /\ Len(active') = c + 1
         /\ active'[c + 1].path = next /\ active'[c + 1].at = 1
         /\ \A k \in 1 .. c : active'[k] = active[k]
         /\ Left' = Left /\ next \notin Left
<1> DEFINE frame == [path |-> next, at |-> 1]
<1>1. /\ next \in Names /\ next # None /\ decks[next] = None /\ next' = None
      /\ UNCHANGED <<edges, entry, params, issues, pc>>
      /\ active' = Append(active, frame) /\ decks' = [decks EXCEPT ![next] = VisitText] /\ VisitText # None
  BY DEF VisitFirst, Visiting, IInv, TypeOK
<1>2. VisitText \in Texts
  BY <1>1, TextOfType DEF VisitText, IInv
<1>3. decks'[next] \in Texts /\ \A n \in Names : n # next => decks'[n] = decks[n]
  BY <1>1, <1>2 DEF IInv, TypeOK
<1>4. active \in Seq(Frame) /\ c \in Nat /\ DOMAIN active = 1 .. c
  BY FrameDeck DEF IInv
<1>5. frame \in Frame /\ frame.path = next /\ frame.at = 1
  BY <1>1 DEF Frame
<1> HIDE DEF frame
<1>6. /\ DOMAIN active' = 1 .. c + 1 /\ Len(active') = c + 1 /\ active'[c + 1] = frame
      /\ \A k \in 1 .. c : active'[k] = active[k]
  BY <1>1, <1>4, <1>5, AppendProperties, LenProperties
<1>7. next \notin Left
  BY <1>1 DEF Left
<1>8. Left' = Left
  <2>1. ASSUME NEW n \in Names, n # next
        PROVE  n \in Left' <=> n \in Left
    <3>1. decks'[n] = decks[n]
      BY <1>3, <2>1
    <3>2. (\A k \in 1 .. c + 1 : active'[k].path # n) <=> \A k \in 1 .. c : active[k].path # n
      <4>1. \A k \in 1 .. c + 1 : k = c + 1 \/ k \in 1 .. c
        BY <1>4
      <4>2. \A k \in 1 .. c : k \in 1 .. c + 1
        BY <1>4
      <4> QED
        BY <1>5, <1>6, <2>1, <4>1, <4>2
    <3> QED
      BY <1>4, <1>6, <3>1, <3>2 DEF Left
  <2>2. next \notin Left'
    <3>1. c + 1 \in 1 .. c + 1
      BY <1>4
    <3> QED
      BY <1>5, <1>6, <3>1 DEF Left
  <2>3. Left \subseteq Names /\ Left' \subseteq Names
    BY DEF Left
  <2>4. \A n : n \in Left' <=> n \in Left
    BY <1>7, <2>1, <2>2, <2>3
  <2> HIDE DEF Left
  <2> QED
    BY <2>4
<1> QED
  BY <1>1, <1>3, <1>4, <1>5, <1>6, <1>7, <1>8

\* after an item was taken,
LEMMA Advanced ==
  ASSUME IInv, Stepping, Advance, UNCHANGED decks, NEW c, c = Len(active)
  PROVE  /\ c \in Nat /\ c \in 1 .. c /\ DOMAIN active = 1 .. c /\ DOMAIN active' = 1 .. c /\ Len(active') = c
         /\ Top = active[c] /\ Top.path \in Names /\ Top.at \in Nat \ {0} /\ decks[Top.path] \in Texts
         /\ active # <<>> /\ active' # <<>> /\ active'[c].path = Top.path /\ active'[c].at = Top.at + 1
         /\ \A k \in 1 .. c : k # c => active'[k] = active[k]
         /\ \A k \in 1 .. c : active'[k].path = active[k].path
         /\ Left' = Left /\ Top.path \notin Left
<1>1. /\ active \in Seq(Frame) /\ c \in Nat /\ DOMAIN active = 1 .. c
      /\ \A k \in 1 .. c : /\ active[k] \in Frame /\ active[k].path \in Names
                           /\ active[k].at \in Nat \ {0} /\ decks[active[k].path] \in Texts
  BY FrameDeck DEF IInv
<1>2. /\ DOMAIN active' = 1 .. c /\ Len(active') = c
      /\ \A k \in 1 .. c : active'[k].path = active[k].path
  BY <1>1, AdvancePasses DEF IInv
<1>3. c \in 1 .. c /\ Top = active[c]
  BY <1>1, TopOfPath DEF IInv, Top
<1>4. active'[c].at = Top.at + 1 /\ \A k \in 1 .. c : k # c => active'[k] = active[k]
  BY <1>1, <1>3 DEF Advance, Frame
<1>5. Left' = Left /\ Top.path \notin Left
  BY <1>1, <1>2, <1>3 DEF Left
<1>6. active # <<>> /\ active' # <<>>
  BY <1>1, <1>2, <1>3
<1> QED
  BY <1>1, <1>2, <1>3, <1>4, <1>5, <1>6

\* and after the deck on top was left.
LEMMA Popped ==
  ASSUME IInv, Leave, NEW c, c = Len(active)
  PROVE  /\ c \in Nat \ {0} /\ DOMAIN active = 1 .. c /\ DOMAIN active' = 1 .. c - 1 /\ Len(active') = c - 1
         /\ \A k \in 1 .. c - 1 : active'[k] = active[k] /\ active[k].path # Top.path
         /\ Top = active[c] /\ Top.path \in Names /\ Top.at \in Nat \ {0} /\ decks[Top.path] \in Texts
         /\ Left' = Left \union {Top.path} /\ Top.path \notin Left
<1> DEFINE p == Top.path
<1>1. Stepping /\ active # <<>> /\ active' = SubSeq(active, 1, c - 1) /\ UNCHANGED decks
  BY DEF Leave, Stepping
<1>2. /\ c \in Nat \ {0} /\ DOMAIN active = 1 .. c
      /\ DOMAIN active' = 1 .. c - 1 /\ \A k \in 1 .. c - 1 : active'[k] = active[k]
  BY <1>1, PathShortened DEF IInv
<1>3. \A k \in 1 .. c : active[k].path \in Names /\ active[k].at \in Nat \ {0} /\ decks[active[k].path] \in Texts
  BY <1>2, FrameDeck DEF IInv
<1>4. c \in 1 .. c /\ Top = active[c]
  BY <1>2 DEF Top
<1>5. \A k \in 1 .. c - 1 : k \in 1 .. c /\ k # c
  BY <1>2
<1>6. \A k \in 1 .. c : k = c \/ k \in 1 .. c - 1
  BY <1>2
<1>7. \A k \in 1 .. c - 1 : active[k].path # p
  BY <1>2, <1>4, <1>5 DEF IInv, Traversal
<1>8. p \in Names /\ decks[p] \in Texts /\ decks[p] # None
  BY <1>3, <1>4 DEF IInv, Traversal
<1>9. Len(active') = c - 1
  <2>1. active' \in Seq(Frame)
    BY DeckClosed DEF IInv
  <2>2. Len(active') \in Nat /\ DOMAIN active' = 1 .. Len(active')
    BY <2>1, LenProperties
  <2> QED
    BY <1>2, <2>2
<1> HIDE DEF p
<1>10. Left' = Left \union {p} /\ p \notin Left
  <2>1. ASSUME NEW n \in Names, n # p
        PROVE  (\A k \in 1 .. c - 1 : active'[k].path # n) <=> \A k \in 1 .. c : active[k].path # n
    BY <1>2, <1>4, <1>5, <1>6, <2>1 DEF p
  <2>2. \A k \in 1 .. c - 1 : active'[k].path # p
    BY <1>2, <1>7
  <2>3. \A n : n \in Left' <=> n \in Names /\ decks[n] # None /\ \A k \in 1 .. c - 1 : active'[k].path # n
    BY <1>1, <1>2 DEF Left
  <2>4. \A n : n \in Left <=> n \in Names /\ decks[n] # None /\ \A k \in 1 .. c : active[k].path # n
    BY <1>2 DEF Left
  <2>5. p \notin Left
    BY <1>4, <2>4 DEF p
  <2> QED
    BY <1>8, <2>1, <2>2, <2>3, <2>4, <2>5
<1> QED
  BY <1>2, <1>3, <1>4, <1>7, <1>9, <1>10 DEF p

LEMMA SortedKept == IInv /\ Phases /\ Linked /\ Sorted /\ [Next]_vars => Sorted'
<1> SUFFICES ASSUME IInv, Phases, Linked, Sorted, [Next]_vars, Whole'
             PROVE  /\ \A n, m \in Names : Edge(edges', n, m) => (n \in Left' => m \in Left') /\ Onward(n, m)'
                    /\ \A s \in SUBSET Left' : ~Ring(edges', s)
  BY DEF Sorted
<1>0. TypeOK /\ Traversal
  BY DEF IInv
<1>1. CASE \/ \E w \in Names \union {None} : OpenDirectory(w)
           \/ \E n \in Names : OpenFile(n)
  <2>1. pc = "open" /\ UNCHANGED <<decks, edges, active>>
    BY <1>1 DEF OpenDirectory, OpenFile, Begin
  <2>2. DOMAIN edges' = {} /\ Left' = {}
    BY <2>1 DEF Phases, Left
  <2> QED
    BY <2>2 DEF Edge, Ring
<1>2. CASE VisitTooDeep \/ VisitUnreadable \/ VisitMalformed \/ TakeCycle
  <2>1. \E n : Report("INCL002", n) \/ Report("FILE001", n) \/ Report("PARSE001", n) \/ Report("INCL001", n)
    BY <1>2 DEF VisitTooDeep, VisitUnreadable, VisitMalformed, TakeCycle
  <2> QED
    BY <2>1, ReportAdds DEF Whole
<1>3. \/ UNCHANGED issues
      \/ \E code, n : Report(code, n)
  BY DEF Next, Load, OpenDirectory, OpenFile, Begin, VisitTooDeep, VisitUnreadable, VisitMalformed, VisitAgain,
         VisitFirst, TakeParam, TakeUnresolved, TakeCycle, TakeInclude, Leave, Finish, Edit, vars, bundle, graph
<1>4. Whole
  <2>1. Codes \subseteq Codes'
    BY <1>3, ReportAdds DEF Codes
  <2> QED
    BY <2>1 DEF Whole
<1>5. /\ \A n, m \in Names : Edge(edges, n, m) => (n \in Left => m \in Left) /\ Onward(n, m)
      /\ \A s \in SUBSET Left : ~Ring(edges, s)
  BY <1>4 DEF Sorted
<1>7. CASE VisitAgain
  <2>1. next \in Names /\ decks[next] # None /\ next' = None /\ UNCHANGED <<decks, edges, active>>
    BY <1>7, <1>0 DEF VisitAgain, Visiting, TypeOK
  <2>2. next \in Left /\ Left' = Left
    BY <2>1 DEF Left, Linked
  <2>3. \A n, m : Onward(n, m) => Onward(n, m)'
    BY <2>1, <2>2 DEF Onward
  <2> QED
    BY <1>5, <2>1, <2>2, <2>3
<1>8. CASE VisitFirst
  <2> DEFINE c == Len(active)
  <2>1. /\ next' = None /\ UNCHANGED edges /\ Left' = Left
        /\ c \in Nat /\ DOMAIN active = 1 .. c /\ DOMAIN active' = 1 .. c + 1
        /\ active'[c + 1].path = next /\ \A k \in 1 .. c : active'[k] = active[k]
    BY <1>8, Opened
  <2>2. active # <<>> => c # 0 /\ Top = active[c]
    <3>1. active \in Seq(Frame)
      BY FrameDeck DEF IInv
    <3> QED
      BY <3>1, EmptySeq DEF Top
  <2> HIDE DEF c
  <2>5. ASSUME NEW n, NEW m, Onward(n, m)
        PROVE  m \in Left' \/ \E j \in DOMAIN active' : j + 1 \in DOMAIN active' /\ active'[j].path = n /\ active'[j + 1].path = m
    <3>1. CASE m = next /\ active # <<>> /\ n = Top.path
      <4>1. c \in 1 .. c /\ c \in 1 .. c + 1 /\ c + 1 \in 1 .. c + 1
        BY <2>1, <2>2, <3>1
      <4> QED
        BY <2>1, <2>2, <3>1, <4>1
    <3>2. CASE \E j \in DOMAIN active : j + 1 \in DOMAIN active /\ active[j].path = n /\ active[j + 1].path = m
      <4>1. PICK j \in DOMAIN active : j + 1 \in DOMAIN active /\ active[j].path = n /\ active[j + 1].path = m
        BY <3>2
      <4>2. j \in 1 .. c + 1 /\ j + 1 \in 1 .. c + 1
        BY <2>1, <4>1
      <4>3. active'[j].path = n /\ active'[j + 1].path = m
        BY <2>1, <4>1
      <4> QED
        BY <2>1, <4>2, <4>3
    <3> QED
      BY <2>1, <2>5, <3>1, <3>2 DEF Onward
  <2> QED
    BY <1>5, <2>1, <2>5 DEF Onward
<1>9. CASE TakeParam \/ TakeUnresolved \/ TakeInclude
  <2>1. Stepping /\ HasItem /\ Advance /\ UNCHANGED decks /\ next = None
    BY <1>9 DEF TakeParam, TakeUnresolved, TakeInclude, Stepping
  <2> DEFINE c == Len(active)
  <2>2. /\ DOMAIN active = 1 .. c /\ DOMAIN active' = 1 .. c /\ Len(active') = c
        /\ active # <<>> /\ active' # <<>> /\ active'[c].path = Top.path
        /\ \A k \in 1 .. c : active'[k].path = active[k].path
        /\ Left' = Left /\ Top.path \notin Left
    BY <2>1, Advanced
  <2>3. Top'.path = Top.path
    BY <2>2 DEF Top
  <2> HIDE DEF c
  <2>6. ASSUME NEW n, NEW m \in Names, Onward(n, m)
        PROVE  Onward(n, m)'
    <3>1. m \in Left \/ \E j \in DOMAIN active : j + 1 \in DOMAIN active /\ active[j].path = n /\ active[j + 1].path = m
      BY <2>1, <2>6 DEF Onward
    <3> QED
      BY <2>2, <3>1 DEF Onward
  <2>7. CASE ~TakeInclude
    <3>1. UNCHANGED edges
      BY <1>9, <2>7 DEF TakeParam, TakeUnresolved
    <3> QED
      BY <1>5, <2>2, <2>6, <3>1
  <2>8. CASE TakeInclude
    <3>1. \A n, m : Edge(edges', n, m) <=> Edge(edges, n, m) \/ (n = Top.path /\ m = Resolved)
      BY <2>8, EdgesAdded
    <3>2. ASSUME NEW n, NEW m, n = Top.path, m = Resolved
          PROVE  Onward(n, m)'
      BY <2>2, <2>3, <2>8, <3>2 DEF TakeInclude, Onward
    <3>3. ASSUME NEW s \in SUBSET Left, Ring(edges', s)
          PROVE  Ring(edges, s)
      BY <2>2, <3>1, <3>3 DEF Ring
    <3>4. ASSUME NEW n \in Names, NEW m \in Names, Edge(edges', n, m)
          PROVE  (n \in Left' => m \in Left') /\ Onward(n, m)'
      BY <1>5, <2>2, <2>6, <3>1, <3>2, <3>4
    <3> QED
      BY <1>5, <2>2, <3>3, <3>4
  <2> QED
    BY <2>7, <2>8
<1>10. CASE Leave
  <2> DEFINE c == Len(active)
             p == Top.path
  <2>1. UNCHANGED <<edges, next>> /\ next = None
    BY <1>10 DEF Leave, Stepping
  <2>2. /\ c \in Nat \ {0} /\ DOMAIN active = 1 .. c /\ DOMAIN active' = 1 .. c - 1
        /\ p \in Names /\ p = active[c].path /\ \A k \in 1 .. c - 1 : active'[k] = active[k]
        /\ Left' = Left \union {p} /\ p \notin Left
    BY <1>10, Popped
  <2> HIDE DEF c, p
  <2>8. \A m \in Names : Edge(edges, p, m) => m \in Left
    <3> SUFFICES ASSUME NEW m \in Names, Edge(edges, p, m), m \notin Left
                 PROVE  FALSE
      OBVIOUS
    <3>1. Onward(p, m)
      BY <1>5, <2>2
    <3>2. m # next
      BY <2>1
    <3>3. PICK j \in DOMAIN active : j + 1 \in DOMAIN active /\ active[j].path = p
      BY <3>1, <3>2 DEF Onward
    <3>4. j = c
      BY <1>0, <2>2, <3>3 DEF Traversal
    <3> QED
      BY <2>2, <3>3, <3>4
  <2>9. ASSUME NEW n \in Names, NEW m \in Names, Onward(n, m)
        PROVE  Onward(n, m)'
    <3>1. CASE m \in Left
      BY <2>2, <3>1 DEF Onward
    <3>2. CASE \E j \in DOMAIN active : j + 1 \in DOMAIN active /\ active[j].path = n /\ active[j + 1].path = m
      <4>1. PICK j \in DOMAIN active : j + 1 \in DOMAIN active /\ active[j].path = n /\ active[j + 1].path = m
        BY <3>2
      <4>2. CASE j + 1 = c
        BY <2>2, <4>1, <4>2 DEF Onward
      <4>3. CASE j + 1 \in 1 .. c - 1
        <5>1. j \in 1 .. c - 1
          BY <2>2, <4>1, <4>3
        <5> QED
          BY <2>2, <4>1, <4>3, <5>1 DEF Onward
      <4> QED
        BY <2>2, <4>1, <4>2, <4>3
    <3> QED
      BY <2>1, <2>9, <3>1, <3>2 DEF Onward
  <2>10. ASSUME NEW s \in SUBSET Left', Ring(edges, s)
         PROVE  FALSE
    <3> DEFINE t == s \ {p}
    <3>1. \A n \in s : \E m \in s : Edge(edges, n, m) /\ m \in Left
      <4> SUFFICES ASSUME NEW n \in s
                   PROVE  \E m \in s : Edge(edges, n, m) /\ m \in Left
        OBVIOUS
      <4>1. PICK m \in s : Edge(edges, n, m)
        BY <2>10 DEF Ring
      <4>2. n \in Names /\ m \in Names
        BY <1>0, <4>1, EdgeNames
      <4> QED
        BY <1>5, <2>2, <2>8, <4>1, <4>2
    <3>2. t \in SUBSET Left /\ Ring(edges, t)
      BY <2>2, <2>10, <3>1 DEF Ring
    <3> QED
      BY <1>5, <3>2
  <2> QED
    BY <1>5, <2>1, <2>2, <2>8, <2>9, <2>10
<1>11. CASE Finish \/ (\E n \in Names : Edit(n)) \/ UNCHANGED vars
  <2>1. UNCHANGED <<decks, edges, active, next>>
    BY <1>11 DEF Finish, Edit, vars, bundle, graph
  <2> QED
    BY <1>5, <2>1 DEF Left, Onward, Top
<1> QED
  BY <1>1, <1>2, <1>7, <1>8, <1>9, <1>10, <1>11 DEF Next, Load

LEMMA GraphHolds == Spec => [](CycleSeen /\ Sorted)
<1>1. Init => CycleSeen /\ Sorted
  <2> SUFFICES ASSUME Init
               PROVE  CycleSeen /\ Sorted
    OBVIOUS
  <2>1. issues = {} /\ DOMAIN edges = {} /\ \A n \in Names : decks[n] = None
    BY DEF Init
  <2>2. Codes = {} /\ Left = {}
    BY <2>1 DEF Codes, Left
  <2>3. \A n, m : ~Edge(edges, n, m)
    BY <2>1 DEF Edge
  <2> QED
    BY <2>2, <2>3 DEF CycleSeen, Sorted, Ring
<1> QED
  BY <1>1, OutcomeHolds, CycleSeenKept, SortedKept, PTL DEF Spec

\* INCL001 is reported exactly when the includes that were found form a cycle,
\* unless a limit or a file that could not be read cut the traversal short.
THEOREM CyclesFound == Spec => []CyclesReported
<1>1. ASSUME IInv, Phases, CycleSeen, Sorted
      PROVE  CyclesReported
  <2> SUFFICES ASSUME pc = "done", Codes \intersect {"INCL002", "FILE001", "PARSE001"} = {}
               PROVE  "INCL001" \in Codes <=> Cyclic
    BY DEF CyclesReported
  <2>1. \A n, m : <<n, m>> \in Includes <=> Edge(edges, n, m)
    BY DEF Includes, Edge, ToSet
  <2>2. Cyclic <=> \E s \in SUBSET Names : Ring(edges, s)
    <3>1. ASSUME NEW s \in SUBSET Names
          PROVE  Ring(edges, s) <=> s # {} /\ \A n \in s : \E m \in s : <<n, m>> \in Includes
      BY <2>1 DEF Ring
    <3> QED
      BY <3>1 DEF Cyclic
  <2>3. ASSUME "INCL001" \notin Codes, NEW s \in SUBSET Names, Ring(edges, s)
        PROVE  FALSE
    <3>1. /\ \A n, m \in Names : Edge(edges, n, m) => Onward(n, m)
          /\ \A t \in SUBSET Left : ~Ring(edges, t)
      <4>1. Whole
        BY <2>3 DEF Whole
      <4> QED
        BY <1>1, <4>1 DEF Sorted
    <3>2. active = <<>> /\ DOMAIN active = {}
      BY <1>1 DEF Phases
    <3>3. \A n, m \in Names : Edge(edges, n, m) => m \in Left
      BY <3>1, <3>2 DEF Onward
    <3>4. s \intersect Left \in SUBSET Left /\ Ring(edges, s \intersect Left)
      BY <2>3, <3>3 DEF Ring
    <3> QED
      BY <3>1, <3>4
  <2> QED
    BY <1>1, <2>2, <2>3 DEF CycleSeen
<1> QED
  BY <1>1, OutcomeHolds, GraphHolds, PTL

-----------------------------------------------------------------------------
(* What is replayed. *)

\* What all the items of a deck come to.
AllOf(ds, pre, n) == pre[n][Len(ds[n].items)]

\* The first items of a deck come to their cards and to what they include.
Laid(ds, es, left, pre, n, d) ==
  /\ \A j \in 1 .. d : ds[n].items[j] = Param => pre[n][j] = Append(pre[n][j - 1], <<n, j>>)
  /\ \A k \in DOMAIN es : es[k][1] = n /\ es[k][2] <= d =>
       es[k][3] \in left /\ pre[n][es[k][2]] = pre[n][es[k][2] - 1] \o AllOf(ds, pre, es[k][3])

LEMMA LaidFromNone ==
  ASSUME NEW ds, NEW es, NEW left, NEW pre, NEW n, \A k \in DOMAIN es : es[k][2] \in Nat \ {0}
  PROVE  Laid(ds, es, left, pre, n, 0)
<1>1. ASSUME NEW k \in DOMAIN es
      PROVE  ~(es[k][2] <= 0)
  <2>1. es[k][2] \in Nat \ {0}
    OBVIOUS
  <2> QED
    BY <2>1
<1>2. \A j \in 1 .. 0 : FALSE
  OBVIOUS
<1> QED
  BY <1>1, <1>2, Zenon DEF Laid

\* What a step must leave alone for that, and what it must keep.
Untouched(pre, new, n, d) ==
  /\ decks'[n] = decks[n] /\ Left \subseteq Left'
  /\ \A j \in 0 .. d : new[n][j] = pre[n][j]
  /\ \A m \in Left : AllOf(decks', new, m) = AllOf(decks, pre, m)
  /\ \A k \in DOMAIN edges' : edges'[k][2] \in Nat \ {0}
  /\ \A k \in DOMAIN edges' : edges'[k][1] = n /\ edges'[k][2] <= d => k \in DOMAIN edges /\ edges[k] = edges'[k]

LEMMA LaidKept ==
  ASSUME NEW pre, NEW new, NEW n, NEW d \in Nat, Laid(decks, edges, Left, pre, n, d), Untouched(pre, new, n, d)
  PROVE  Laid(decks', edges', Left', new, n, d)
<1>1. ASSUME NEW j \in 1 .. d, decks'[n].items[j] = Param
      PROVE  new[n][j] = Append(new[n][j - 1], <<n, j>>)
  <2>1. j \in 0 .. d /\ j - 1 \in 0 .. d
    OBVIOUS
  <2>2. pre[n][j] = Append(pre[n][j - 1], <<n, j>>)
    BY <1>1 DEF Laid, Untouched
  <2> QED
    BY <2>1, <2>2 DEF Untouched
<1>2. ASSUME NEW k \in DOMAIN edges', edges'[k][1] = n, edges'[k][2] <= d
      PROVE  /\ edges'[k][3] \in Left'
             /\ new[n][edges'[k][2]] = new[n][edges'[k][2] - 1] \o AllOf(decks', new, edges'[k][3])
  <2>1. k \in DOMAIN edges /\ edges[k] = edges'[k] /\ edges'[k][2] \in Nat \ {0}
    BY <1>2 DEF Untouched
  <2>2. edges'[k][2] \in 0 .. d /\ edges'[k][2] - 1 \in 0 .. d
    BY <1>2, <2>1
  <2>3. edges'[k][3] \in Left /\ pre[n][edges'[k][2]] = pre[n][edges'[k][2] - 1] \o AllOf(decks, pre, edges'[k][3])
    BY <1>2, <2>1 DEF Laid
  <2> QED
    BY <2>2, <2>3 DEF Untouched
<1> QED
  BY <1>1, <1>2 DEF Laid

\* How many items of a deck on the path are dealt with: not the one that led on.
Dealt(path, nx, k) == IF k = Len(path) /\ nx = None THEN path[k].at - 1 ELSE path[k].at - 2

\* The decks that were left come to what the reference says, those on the path to
\* that for the items dealt with, and params to what those on the path come to.
Accounts(pre, acc) ==
  /\ \A n \in Names : pre[n][0] = <<>>
  /\ \A n \in Left : Laid(decks, edges, Left, pre, n, Len(decks[n].items))
  /\ \A k \in DOMAIN active : Laid(decks, edges, Left, pre, active[k].path, Dealt(active, next, k))
  /\ acc[0] = <<>>
  /\ \A k \in DOMAIN active : acc[k] = acc[k - 1] \o pre[active[k].path][Dealt(active, next, k)]
  /\ params = IF active # <<>> THEN acc[Len(active)]
              ELSE IF decks[entry] # None THEN AllOf(decks, pre, entry) ELSE <<>>

Replayed ==
  pc \in {"load", "done"} /\ issues = {} => \E pre \in Rows, acc \in [Nat -> Seq(Place)] : Accounts(pre, acc)

\* Items are dealt with from the first on.
LEMMA DealtType ==
  ASSUME IInv, Linked, NEW k \in DOMAIN active
  PROVE  Dealt(active, next, k) \in Nat
<1>1. /\ Len(active) \in Nat /\ DOMAIN active = 1 .. Len(active)
      /\ active[k].path \in Names /\ active[k].at \in Nat \ {0} /\ decks[active[k].path] \in Texts
  BY FrameDeck DEF IInv
<1>2. CASE k = Len(active) /\ next = None
  BY <1>1, <1>2 DEF Dealt
<1>3. CASE k # Len(active) \/ next # None
  <2>1. \E m : Link(decks, edges, active[k], m)
    <3>1. CASE k # Len(active)
      <4>1. k + 1 \in DOMAIN active
        BY <1>1, <3>1
      <4> QED
        BY <4>1 DEF Linked
    <3>2. CASE k = Len(active) /\ next # None
      <4>1. active # <<>>
        BY <1>1
      <4> QED
        BY <3>2, <4>1 DEF Linked, Top
    <3> QED
      BY <1>3, <3>1, <3>2
  <2>2. active[k].at - 1 \in 1 .. Len(decks[active[k].path].items)
    BY <1>1, <2>1, ItemsOf DEF Link
  <2> QED
    BY <1>1, <1>3, <2>2 DEF Dealt
<1> QED
  BY <1>2, <1>3

LEMMA OpenedReplay ==
  ASSUME IInv, Phases, Linked, Faultless, VisitFirst, pc = "load", issues = {},
         NEW pre \in Rows, NEW acc \in [Nat -> Seq(Place)], Accounts(pre, acc)
  PROVE  \E new \in [Nat -> Seq(Place)] : Accounts(pre, new)'
<1> DEFINE c == Len(active)
<1>1. /\ next \in Names /\ decks[next] = None /\ next' = None /\ UNCHANGED <<edges, entry, params, issues, pc>>
      /\ \A n \in Names : n # next => decks'[n] = decks[n]
      /\ decks'[next] \in Texts
      /\ c \in Nat /\ DOMAIN active = 1 .. c /\ DOMAIN active' = 1 .. c + 1 /\ Len(active') = c + 1
      /\ active'[c + 1].path = next /\ active'[c + 1].at = 1
      /\ \A k \in 1 .. c : active'[k] = active[k]
      /\ Left' = Left /\ next \notin Left
  BY Opened
<1>2. \A k \in 1 .. c : active[k].path \in Names /\ active[k].path # next /\ Dealt(active, next, k) \in Nat
  BY <1>1, FrameDeck, DealtType DEF IInv, Linked
<1>3. active # <<>> <=> c # 0
  <2>1. active \in Seq(Frame)
    BY FrameDeck DEF IInv
  <2> QED
    BY <2>1, EmptySeq
<1>4. next # None
  BY <1>1
<1> HIDE DEF c
<1>5. \A k \in 1 .. c : k \in 1 .. c + 1 /\ k # c + 1 /\ k - 1 # c + 1 /\ k - 1 \in Nat
  BY <1>1
<1>6. ASSUME NEW k \in 1 .. c
      PROVE  Dealt(active', next', k) = Dealt(active, next, k) /\ active'[k].path = active[k].path
  BY <1>1, <1>4, <1>5 DEF Dealt
<1>7. Dealt(active', next', c + 1) = 0
  BY <1>1 DEF Dealt
<1>8. acc[c] \in Seq(Place) /\ c + 1 \in Nat
  BY <1>1
<1>9. PICK new \in [Nat -> Seq(Place)] : new[c + 1] = acc[c] /\ \A y \in Nat : y # c + 1 => new[y] = acc[y]
  <2>1. \A j \in Nat, v \in Seq(Place) :
          \E new \in [Nat -> Seq(Place)] : new[j] = v /\ \A y \in Nat : y # j => new[y] = acc[y]
    BY SumExtended
  <2>2. \A v \in Seq(Place) :
          \E new \in [Nat -> Seq(Place)] : new[c + 1] = v /\ \A y \in Nat : y # c + 1 => new[y] = acc[y]
    BY <1>8, <2>1
  <2> QED
    BY <1>8, <2>2
<1>10. \A m \in Left : m \in Names /\ AllOf(decks', pre, m) = AllOf(decks, pre, m)
  BY <1>1 DEF AllOf, Left
<1>11. /\ \A k \in DOMAIN edges' : edges'[k][2] \in Nat \ {0}
       /\ \A k \in DOMAIN edges' : k \in DOMAIN edges /\ edges[k] = edges'[k]
  BY <1>1, EdgeEnds DEF IInv
<1>12. ASSUME NEW n \in Names, n # next, NEW d \in Nat, Laid(decks, edges, Left, pre, n, d)
       PROVE  Laid(decks', edges', Left', pre, n, d)
  <2>1. Untouched(pre, pre, n, d)
    BY <1>1, <1>10, <1>11, <1>12 DEF Untouched
  <2> QED
    BY <1>12, <2>1, LaidKept
<1>13. ASSUME NEW n \in Left
       PROVE  Laid(decks', edges', Left', pre, n, Len(decks'[n].items))
  <2>1. n \in Names /\ n # next /\ decks[n] \in Texts /\ decks'[n] = decks[n]
    BY <1>1 DEF Left, IInv, TypeOK
  <2>2. Len(decks[n].items) \in Nat
    BY <2>1, ItemsOf
  <2>3. Laid(decks, edges, Left, pre, n, Len(decks[n].items))
    BY DEF Accounts
  <2> QED
    BY <1>12, <2>1, <2>2, <2>3
<1>14. ASSUME NEW k \in 1 .. c + 1
       PROVE  Laid(decks', edges', Left', pre, active'[k].path, Dealt(active', next', k))
  <2>1. CASE k \in 1 .. c
    <3>1. Laid(decks, edges, Left, pre, active[k].path, Dealt(active, next, k))
      BY <1>1, <2>1 DEF Accounts
    <3> QED
      BY <1>2, <1>6, <1>12, <2>1, <3>1
  <2>2. CASE k = c + 1
    <3>1. Laid(decks', edges', Left', pre, next, 0)
      BY <1>11, LaidFromNone
    <3> QED
      BY <1>1, <1>7, <2>2, <3>1
  <2> QED
    BY <1>1, <2>1, <2>2
<1>15. new[0] = <<>>
  BY <1>1, <1>9 DEF Accounts
<1>16. ASSUME NEW k \in 1 .. c + 1
       PROVE  new[k] = new[k - 1] \o pre[active'[k].path][Dealt(active', next', k)]
  <2>1. CASE k \in 1 .. c
    <3>1. acc[k] = acc[k - 1] \o pre[active[k].path][Dealt(active, next, k)]
      BY <1>1, <2>1 DEF Accounts
    <3>2. new[k] = acc[k] /\ new[k - 1] = acc[k - 1]
      BY <1>5, <1>9, <2>1
    <3> QED
      BY <1>6, <2>1, <3>1, <3>2
  <2>2. CASE k = c + 1
    <3>1. k - 1 = c /\ c # c + 1
      BY <1>1, <2>2
    <3>2. new[k] = acc[c] /\ new[k - 1] = acc[c]
      BY <1>1, <1>9, <2>2, <3>1
    <3>3. pre[active'[k].path][Dealt(active', next', k)] = <<>>
      <4>1. pre[next][0] = <<>>
        BY <1>1 DEF Accounts
      <4> QED
        BY <1>1, <1>7, <2>2, <4>1
    <3>4. acc[c] \o <<>> = acc[c]
      BY <1>8
    <3> QED
      <4>1. new[k - 1] \o pre[active'[k].path][Dealt(active', next', k)] = acc[c] \o <<>>
        BY <3>2, <3>3
      <4> QED
        BY <3>2, <3>4, <4>1, Zenon
  <2>3. k \in 1 .. c \/ k = c + 1
    BY <1>1
  <2> QED
    BY <2>1, <2>2, <2>3, Zenon
<1>17. params' = new[c + 1]
  <2>1. CASE c # 0
    BY <1>1, <1>3, <1>9, <2>1 DEF Accounts, c
  <2>2. CASE c = 0
    <3>1. active = <<>> /\ next = entry
      BY <1>3, <1>4, <2>2 DEF Linked
    <3>2. params = <<>> /\ acc[0] = <<>>
      BY <1>1, <3>1 DEF Accounts
    <3> QED
      BY <1>1, <1>9, <2>2, <3>2
  <2> QED
    BY <2>1, <2>2
<1>18. active' # <<>>
  BY <1>1
<1>19. \A n \in Names : pre[n][0] = <<>>
  BY DEF Accounts
<1>20. Accounts(pre, new)'
  BY <1>1, <1>13, <1>14, <1>15, <1>16, <1>17, <1>18, <1>19 DEF Accounts
<1> QED
  BY <1>20

LEMMA CardReplay ==
  ASSUME IInv, Phases, Linked, TakeParam,
         NEW pre \in Rows, NEW acc \in [Nat -> Seq(Place)], Accounts(pre, acc)
  PROVE  \E new \in Rows, sum \in [Nat -> Seq(Place)] : Accounts(new, sum)'
<1>0. PICK c, n, i : c = Len(active) /\ n = Top.path /\ i = Top.at
  OBVIOUS
<1> DEFINE card == <<n, i>>
<1>1. /\ Stepping /\ HasItem /\ Item = Param /\ Advance /\ next = None
      /\ params' = Append(params, card) /\ UNCHANGED <<decks, edges, entry, next>>
  BY <1>0 DEF TakeParam, Stepping, bundle
<1>2. /\ c \in Nat /\ c \in 1 .. c /\ DOMAIN active = 1 .. c /\ DOMAIN active' = 1 .. c /\ Len(active') = c
      /\ Top = active[c] /\ n \in Names /\ i \in Nat \ {0} /\ decks[n] \in Texts
      /\ active # <<>> /\ active' # <<>> /\ active'[c].path = n /\ active'[c].at = i + 1
      /\ \A k \in 1 .. c : k # c => active'[k] = active[k]
      /\ \A k \in 1 .. c : active'[k].path = active[k].path
      /\ Left' = Left /\ n \notin Left
  BY <1>0, <1>1, Advanced
<1>3. \A k \in 1 .. c : active[k].path \in Names /\ Dealt(active, next, k) \in Nat
  BY <1>2, FrameDeck, DealtType DEF IInv
<1>4. \A k \in 1 .. c : k # c => active[k].path # n
  BY <1>2 DEF IInv, Traversal
<1>5. \A k \in DOMAIN edges : edges[k][2] \in Nat \ {0} /\ (edges[k][1] = n => edges[k][2] < i)
  <2> SUFFICES ASSUME NEW k \in DOMAIN edges
               PROVE  edges[k][2] \in Nat \ {0} /\ (edges[k][1] = n => edges[k][2] < i)
    OBVIOUS
  <2>1. edges[k][2] \in Nat \ {0}
    BY EdgeEnds DEF IInv
  <2>2. Passed(edges[k][1], edges[k][2])
    BY DEF IInv, Traversal
  <2> QED
    BY <1>0, <1>2, <2>1, <2>2 DEF Passed
<1>6. card \in Place /\ decks[n].items[i] = Param
  BY <1>0, <1>1, <1>2 DEF Place, Item
<1> HIDE LimitAssumption, TextAssumption, DiskAssumption, DistinctAssumption
<1>7. active[c].at = i /\ active'[c].at = i + 1 /\ Len(active) = c /\ Len(active') = c /\ next = None /\ next' = None
  BY <1>0, <1>1, <1>2
<1>8. c \in Nat \ {0} /\ i \in Nat \ {0} /\ n \in Names
  BY <1>2
<1> HIDE DEF card
<1>9. i - 1 \in Nat /\ i - 1 # i /\ i \in Nat /\ i # 0 /\ c # 0 /\ c \in Nat /\ c - 1 \in Nat /\ c - 1 # c /\ c \in 1 .. c
  BY <1>8
<1>9a. Dealt(active, next, c) = i - 1 /\ Dealt(active', next', c) = i
  <2>1. i + 1 - 1 = i
    BY <1>8
  <2> QED
    BY <1>7, <1>8, <2>1 DEF Dealt
<1>9b. \A k \in 1 .. c : k # c => Dealt(active', next', k) = Dealt(active, next, k)
  BY <1>2, <1>7 DEF Dealt
<1>10. /\ \A x \in Names, y \in Nat : pre[x][y] \in Seq(Place)
       /\ \A k \in Nat : acc[k] \in Seq(Place)
  BY DEF Rows
<1>11. Append(pre[n][i - 1], card) \in Seq(Place) /\ Append(acc[c], card) \in Seq(Place)
  <2>1. pre[n][i - 1] \in Seq(Place) /\ acc[c] \in Seq(Place)
    BY <1>8, <1>9, <1>10
  <2>2. \A s \in Seq(Place) : Append(s, card) \in Seq(Place)
    BY <1>6
  <2> QED
    BY <2>1, <2>2
<1>12. PICK new \in Rows : /\ new[n][i] = Append(pre[n][i - 1], card)
                           /\ \A x \in Names, y \in Nat : x # n \/ y # i => new[x][y] = pre[x][y]
  <2>1. \A j \in Nat, v \in Seq(Place) :
          \E new \in Rows : /\ new[n][j] = v
                            /\ \A x \in Names, y \in Nat : x # n \/ y # j => new[x][y] = pre[x][y]
    BY <1>2, RowExtended
  <2> QED
    BY <1>9, <1>11, <2>1
<1>13. PICK sum \in [Nat -> Seq(Place)] : /\ sum[c] = Append(acc[c], card)
                                         /\ \A y \in Nat : y # c => sum[y] = acc[y]
  <2>1. \A j \in Nat, v \in Seq(Place) :
          \E new1 \in [Nat -> Seq(Place)] : new1[j] = v /\ \A y \in Nat : y # j => new1[y] = acc[y]
    BY SumExtended
  <2> QED
    BY <1>2, <1>11, <2>1
<1>14. \A m \in Left : AllOf(decks', new, m) = AllOf(decks, pre, m)
  <2> SUFFICES ASSUME NEW m \in Left
               PROVE  AllOf(decks', new, m) = AllOf(decks, pre, m)
    OBVIOUS
  <2>1. m \in Names /\ m # n /\ decks[m] \in Texts
    <3>1. m # n
      BY <1>2
    <3> QED
      BY <3>1 DEF Left, IInv, TypeOK
  <2>2. Len(decks[m].items) \in Nat
    BY <2>1, ItemsOf
  <2> QED
    BY <1>1, <1>12, <2>1, <2>2 DEF AllOf
<1>15. ASSUME NEW m \in Names, NEW d \in Nat, Laid(decks, edges, Left, pre, m, d), m # n \/ d < i
       PROVE  Laid(decks', edges', Left', new, m, d)
  <2>1. \A j \in 0 .. d : j \in Nat /\ (m # n \/ j # i)
    BY <1>2, <1>15
  <2>2. \A j \in 0 .. d : new[m][j] = pre[m][j]
    BY <1>12, <2>1
  <2>3. Untouched(pre, new, m, d)
    BY <1>1, <1>2, <1>5, <1>14, <2>2 DEF Untouched
  <2> QED
    BY <1>15, <2>3, LaidKept
<1>16. ASSUME NEW m \in Left
       PROVE  Laid(decks', edges', Left', new, m, Len(decks'[m].items))
  <2>1. m \in Names /\ m # n /\ decks[m] \in Texts
    <3>1. m # n
      BY <1>2
    <3> QED
      BY <3>1 DEF Left, IInv, TypeOK
  <2>2. Len(decks[m].items) \in Nat
    BY <2>1, ItemsOf
  <2>3. Laid(decks, edges, Left, pre, m, Len(decks[m].items))
    BY DEF Accounts
  <2> QED
    BY <1>1, <1>15, <2>1, <2>2, <2>3
<1>17. Laid(decks', edges', Left', new, n, i)
  <2>1. Laid(decks', edges', Left', new, n, i - 1)
    <3>1. Laid(decks, edges, Left, pre, n, i - 1)
      BY <1>2, <1>9a DEF Accounts
    <3> QED
      BY <1>8, <1>9, <1>15, <3>1
  <2>2. ASSUME NEW j \in 1 .. i, decks'[n].items[j] = Param
        PROVE  new[n][j] = Append(new[n][j - 1], <<n, j>>)
    <3>1. CASE j = i
      <4>1. new[n][i - 1] = pre[n][i - 1]
        BY <1>2, <1>9, <1>12
      <4> QED
        BY <1>12, <3>1, <4>1 DEF card
    <3>2. CASE j # i
      <4>1. j \in 1 .. i - 1
        BY <1>2, <3>2
      <4> QED
        BY <2>1, <2>2, <4>1 DEF Laid
    <3> QED
      BY <3>1, <3>2
  <2>3. ASSUME NEW k \in DOMAIN edges', edges'[k][1] = n, edges'[k][2] <= i
        PROVE  edges'[k][3] \in Left' /\ new[n][edges'[k][2]] = new[n][edges'[k][2] - 1] \o AllOf(decks', new, edges'[k][3])
    <3>1. edges'[k][2] \in Nat \ {0} /\ edges'[k][2] < i
      BY <1>1, <1>5, <2>3
    <3>2. edges'[k][2] <= i - 1
      <4>1. \A a, b \in Nat : a < b => a <= b - 1
        OBVIOUS
      <4> QED
        BY <1>9, <3>1, <4>1
    <3> QED
      BY <2>1, <2>3, <3>2 DEF Laid
  <2> QED
    BY <2>2, <2>3 DEF Laid
<1>18. ASSUME NEW k \in 1 .. c
       PROVE  Laid(decks', edges', Left', new, active'[k].path, Dealt(active', next', k))
  <2>1. CASE k = c
    BY <1>2, <1>9a, <1>17, <2>1
  <2>2. CASE k # c
    <3>1. Laid(decks, edges, Left, pre, active[k].path, Dealt(active, next, k))
      BY <1>2 DEF Accounts
    <3>2. Laid(decks', edges', Left', new, active[k].path, Dealt(active, next, k))
      BY <1>3, <1>4, <1>15, <2>2, <3>1
    <3> QED
      BY <1>2, <1>9b, <2>2, <3>2
  <2> QED
    BY <2>1, <2>2
<1>19. ASSUME NEW k \in 1 .. c
       PROVE  sum[k] = sum[k - 1] \o new[active'[k].path][Dealt(active', next', k)]
  <2>1. acc[k] = acc[k - 1] \o pre[active[k].path][Dealt(active, next, k)]
    BY <1>2 DEF Accounts
  <2>2. k - 1 \in Nat /\ k - 1 # c /\ k \in Nat
    BY <1>2
  <2>3. sum[k - 1] = acc[k - 1] /\ acc[k - 1] \in Seq(Place)
    BY <1>10, <1>13, <2>2
  <2>4. CASE k = c
    <3>1. acc[c] = acc[c - 1] \o pre[n][i - 1]
      BY <1>2, <1>9a, <2>1, <2>4
    <3>2. Append(acc[c - 1] \o pre[n][i - 1], card) = acc[c - 1] \o Append(pre[n][i - 1], card)
      <4>1. acc[c - 1] \in Seq(Place) /\ pre[n][i - 1] \in Seq(Place)
        BY <1>8, <1>9, <1>10
      <4> QED
        <5>1. \A a, b \in Seq(Place), x \in Place : Append(a \o b, x) = a \o Append(b, x)
          BY PlaceAppended
        <5> QED
          BY <1>6, <4>1, <5>1
    <3>3. sum[c] = acc[c - 1] \o new[n][i]
      BY <1>12, <1>13, <3>1, <3>2
    <3>4. sum[c - 1] = acc[c - 1] /\ active'[c].path = n /\ Dealt(active', next', c) = i
      BY <1>2, <1>9a, <2>3, <2>4
    <3> QED
      BY <2>4, <3>3, <3>4
  <2>5. CASE k # c
    <3>1. sum[k] = acc[k]
      BY <1>13, <2>2, <2>5
    <3>2. active'[k].path = active[k].path /\ Dealt(active', next', k) = Dealt(active, next, k)
      BY <1>2, <1>9b, <2>5
    <3>3. new[active[k].path][Dealt(active, next, k)] = pre[active[k].path][Dealt(active, next, k)]
      BY <1>3, <1>4, <1>12, <2>5
    <3> QED
      BY <2>1, <2>3, <3>1, <3>2, <3>3
  <2> QED
    BY <2>4, <2>5
<1>20. sum[0] = <<>> /\ \A x \in Names : new[x][0] = <<>>
  <2>1. acc[0] = <<>> /\ \A x \in Names : pre[x][0] = <<>>
    BY DEF Accounts
  <2> QED
    BY <1>9, <1>12, <1>13, <2>1
<1>21. params' = sum[c]
  <2>1. params = acc[c]
    BY <1>2 DEF Accounts
  <2> QED
    BY <1>1, <1>13, <2>1
<1>22. Accounts(new, sum)'
  BY <1>2, <1>16, <1>18, <1>19, <1>20, <1>21 DEF Accounts
<1> QED
  BY <1>22

\* The edge that an include adds is at the position of the deck on top.
LEMMA EdgeAdded ==
  ASSUME IInv, TakeInclude
  PROVE  \E m \in Names :
           /\ next' = m /\ m # None
           /\ \A k \in DOMAIN edges' : \/ k \in DOMAIN edges /\ edges[k] = edges'[k]
                                       \/ edges'[k] = <<Top.path, Top.at, m>>
<1>1. Stepping /\ HasItem /\ edges' = Append(edges, <<Top.path, Top.at, Resolved>>)
      /\ next' = Resolved /\ Resolved # None
  BY DEF TakeInclude
<1>2. Top.path \in Names /\ Top.at \in Nat \ {0} /\ Resolved \in Names
  BY <1>1, TopOfPath, ItemType DEF IInv
<1> DEFINE new == <<Top.path, Top.at, Resolved>>
           c == Len(edges)
<1>3. new \in Names \X (Nat \ {0}) \X Names /\ edges' = Append(edges, new)
  BY <1>1, <1>2
<1> HIDE DEF new
<1>4. /\ DOMAIN edges = 1 .. c /\ DOMAIN edges' = 1 .. c + 1 /\ c \in Nat
      /\ \A k \in DOMAIN edges : k \in DOMAIN edges' /\ edges'[k] = edges[k]
      /\ c + 1 \in DOMAIN edges' /\ edges'[c + 1] = new
  BY <1>3, AppendedEdge DEF IInv
<1>5. \A k \in DOMAIN edges' : k \in DOMAIN edges \/ k = c + 1
  BY <1>4
<1> HIDE DEF c
<1>6. \A k \in DOMAIN edges' : (k \in DOMAIN edges /\ edges[k] = edges'[k]) \/ edges'[k] = new
  BY <1>4, <1>5
<1> QED
  BY <1>1, <1>2, <1>6 DEF new

\* The edges of the deck on top are of items before its position.
LEMMA EdgesBehind ==
  ASSUME IInv, active # <<>>, NEW k \in DOMAIN edges
  PROVE  edges[k][2] \in Nat \ {0} /\ (edges[k][1] = Top.path => edges[k][2] < Top.at)
<1>1. edges[k][2] \in Nat \ {0}
  BY EdgeEnds DEF IInv
<1>2. Passed(edges[k][1], edges[k][2])
  BY DEF IInv, Traversal
<1>3. Len(active) \in DOMAIN active /\ Top = active[Len(active)]
  BY TopOfPath DEF IInv, Top
<1> QED
  BY <1>1, <1>2, <1>3 DEF Passed

LEMMA IncludeReplay ==
  ASSUME IInv, Phases, Linked, TakeInclude,
         NEW pre \in Rows, NEW acc \in [Nat -> Seq(Place)], Accounts(pre, acc)
  PROVE  Accounts(pre, acc)'
<1>0. PICK c, n, i : c = Len(active) /\ n = Top.path /\ i = Top.at
  OBVIOUS
<1>1. /\ Stepping /\ Advance /\ next = None
      /\ UNCHANGED <<decks, params, entry, issues, pc>>
  BY DEF TakeInclude, Stepping, bundle
<1>2. /\ c \in Nat /\ c \in 1 .. c /\ DOMAIN active = 1 .. c /\ DOMAIN active' = 1 .. c /\ Len(active') = c
      /\ Top = active[c] /\ n \in Names /\ i \in Nat \ {0} /\ decks[n] \in Texts
      /\ active # <<>> /\ active' # <<>> /\ active'[c].path = n /\ active'[c].at = i + 1
      /\ \A k \in 1 .. c : k # c => active'[k] = active[k]
      /\ \A k \in 1 .. c : active'[k].path = active[k].path
      /\ Left' = Left /\ n \notin Left
  BY <1>0, <1>1, Advanced
<1>3. \A k \in 1 .. c : active[k].path \in Names /\ Dealt(active, next, k) \in Nat
  BY <1>2, FrameDeck, DealtType DEF IInv
<1>4. \A k \in 1 .. c : k # c => active[k].path # n
  BY <1>0, <1>2 DEF IInv, Traversal
<1>5. \A k \in DOMAIN edges : edges[k][2] \in Nat \ {0} /\ (edges[k][1] = n => edges[k][2] < i)
  BY <1>0, <1>2, EdgesBehind
<1>6. next' # None /\ \A k \in DOMAIN edges' : \/ k \in DOMAIN edges /\ edges[k] = edges'[k]
                                               \/ edges'[k][1] = n /\ edges'[k][2] = i
  <2>1. PICK m \in Names : /\ next' = m /\ m # None
                           /\ \A k \in DOMAIN edges' : \/ k \in DOMAIN edges /\ edges[k] = edges'[k]
                                                       \/ edges'[k] = <<Top.path, Top.at, m>>
    BY EdgeAdded
  <2>2. \A x : x = <<Top.path, Top.at, m>> => x[1] = n /\ x[2] = i
    BY <1>0
  <2> QED
    BY <2>1, <2>2
<1> HIDE LimitAssumption, TextAssumption, DiskAssumption, DistinctAssumption
<1>7. active[c].at = i /\ active'[c].at = i + 1 /\ Len(active) = c /\ Len(active') = c /\ next = None /\ next' # None
  BY <1>0, <1>1, <1>2, <1>6
<1>8. i \in Nat \ {0} /\ i - 1 \in Nat /\ ~(i <= i - 1) /\ i + 1 - 2 = i - 1
  <2>1. i \in Nat \ {0}
    BY <1>2
  <2> QED
    BY <2>1
<1>9. Dealt(active, next, c) = i - 1 /\ Dealt(active', next', c) = i - 1
  BY <1>7, <1>8 DEF Dealt
<1>10. \A k \in 1 .. c : Dealt(active', next', k) = Dealt(active, next, k)
  <2>1. \A k \in 1 .. c : k # c => Dealt(active', next', k) = Dealt(active, next, k)
    BY <1>2, <1>7 DEF Dealt
  <2> QED
    BY <1>9, <2>1
<1>11. \A k \in DOMAIN edges' : edges'[k][2] \in Nat \ {0}
  BY <1>5, <1>6, <1>8
<1>12. \A m \in Left : AllOf(decks', pre, m) = AllOf(decks, pre, m)
  BY <1>1 DEF AllOf
<1>13. ASSUME NEW m \in Names, NEW d \in Nat, Laid(decks, edges, Left, pre, m, d), m # n \/ d = i - 1
       PROVE  Laid(decks', edges', Left', pre, m, d)
  <2>1. ASSUME NEW k \in DOMAIN edges', edges'[k][1] = m, edges'[k][2] <= d
        PROVE  k \in DOMAIN edges /\ edges[k] = edges'[k]
    BY <1>6, <1>8, <1>13, <2>1
  <2>2. Untouched(pre, pre, m, d)
    BY <1>1, <1>2, <1>11, <1>12, <2>1 DEF Untouched
  <2> QED
    BY <1>13, <2>2, LaidKept
<1>14. ASSUME NEW m \in Left
       PROVE  Laid(decks', edges', Left', pre, m, Len(decks'[m].items))
  <2>1. m \in Names /\ m # n /\ decks[m] \in Texts
    <3>1. m # n
      BY <1>2
    <3> QED
      BY <3>1 DEF Left, IInv, TypeOK
  <2>2. Len(decks[m].items) \in Nat
    BY <2>1, ItemsOf
  <2>3. Laid(decks, edges, Left, pre, m, Len(decks[m].items))
    BY DEF Accounts
  <2> QED
    BY <1>1, <1>13, <2>1, <2>2, <2>3
<1>15. ASSUME NEW k \in 1 .. c
       PROVE  Laid(decks', edges', Left', pre, active'[k].path, Dealt(active', next', k))
  <2>1. Laid(decks, edges, Left, pre, active[k].path, Dealt(active, next, k))
    BY <1>2 DEF Accounts
  <2>2. active[k].path # n \/ Dealt(active, next, k) = i - 1
    BY <1>4, <1>9
  <2>3. Laid(decks', edges', Left', pre, active[k].path, Dealt(active, next, k))
    BY <1>3, <1>13, <2>1, <2>2
  <2> QED
    BY <1>2, <1>10, <2>3
<1>16. ASSUME NEW k \in 1 .. c
       PROVE  acc[k] = acc[k - 1] \o pre[active'[k].path][Dealt(active', next', k)]
  <2>1. acc[k] = acc[k - 1] \o pre[active[k].path][Dealt(active, next, k)]
    BY <1>2 DEF Accounts
  <2> QED
    BY <1>2, <1>10, <2>1
<1>17. params' = acc[Len(active')]
  BY <1>1, <1>2, <1>7 DEF Accounts
<1>18. acc[0] = <<>> /\ \A m \in Names : pre[m][0] = <<>>
  BY DEF Accounts
<1> QED
  BY <1>2, <1>14, <1>15, <1>16, <1>17, <1>18 DEF Accounts

\* Where the path stands when the deck on top is left for the one that included it.
LEMMA Resumed ==
  ASSUME IInv, Linked, Leave, Len(active) # 1
  PROVE  \E p \in Names, i \in Nat \ {0} :
           /\ p = active[Len(active) - 1].path /\ active[Len(active) - 1].at = i + 1 /\ p # Top.path
           /\ decks[p].items[i] # Param
           /\ \E k \in DOMAIN edges : edges[k] = <<p, i, Top.path>>
           /\ \A k \in 1 .. Len(active) - 1 : k # Len(active) - 1 => active[k].path # p
<1>0. PICK c : c = Len(active) /\ c # 1
  OBVIOUS
<1>1. /\ c \in Nat \ {0} /\ DOMAIN active = 1 .. c /\ Top = active[c]
      /\ \A k \in 1 .. c - 1 : active[k].path # Top.path
  BY <1>0, Popped
<1>2. c - 1 \in 1 .. c /\ c - 1 + 1 \in 1 .. c /\ c - 1 + 1 = c /\ c - 1 \in 1 .. c - 1
  <2>1. c \in Nat /\ c # 0
    BY <1>0, <1>1
  <2> QED
    BY <1>0, <2>1
<1>3. Link(decks, edges, active[c - 1], active[c].path)
  BY <1>1, <1>2 DEF Linked
<1>4. /\ active[c - 1].path \in Names /\ active[c - 1].at \in Nat \ {0}
      /\ decks[active[c - 1].path] \in Texts
  BY <1>1, <1>2, FrameDeck DEF IInv
<1>5. PICK p, a : p = active[c - 1].path /\ a = active[c - 1].at
  OBVIOUS
<1>6. a - 1 \in 1 .. Len(decks[p].items)
  BY <1>3, <1>4, <1>5, ItemsOf DEF Link
<1>7. a - 1 \in Nat \ {0} /\ a = a - 1 + 1
  <2>1. a \in Nat /\ Len(decks[p].items) \in Nat
    BY <1>4, <1>5, ItemsOf
  <2> QED
    BY <1>6, <2>1
<1>8. \A k \in 1 .. c - 1 : k # c - 1 => active[k].path # p
  <2>1. \A k \in 1 .. c - 1 : k \in 1 .. c
    BY <1>2
  <2> QED
    BY <1>1, <1>2, <1>5, <2>1 DEF IInv, Traversal
<1>9. p # Top.path
  BY <1>1, <1>2, <1>5
<1>10. decks[p].items[a - 1] # Param /\ \E k \in DOMAIN edges : edges[k] = <<p, a - 1, Top.path>>
  BY <1>1, <1>3, <1>5 DEF Link
<1> QED
  BY <1>0, <1>4, <1>5, <1>7, <1>8, <1>9, <1>10

\* An item that was included has the one edge.
LEMMA OneEdge ==
  ASSUME IInv, NEW k \in DOMAIN edges, NEW l \in DOMAIN edges,
         edges[k][1] = edges[l][1], edges[k][2] = edges[l][2]
  PROVE  edges[k] = edges[l]
BY DEF IInv, EachItemOnce

\* The deck on top is at its end when it is left.
LEMMA AtTheEnd ==
  ASSUME IInv, Linked, Leave
  PROVE  Top.at = Len(decks[Top.path].items) + 1
<1>1. Len(active) \in DOMAIN active /\ Top = active[Len(active)] /\ Top.at \in Nat \ {0} /\ ~HasItem
  BY TopOfPath DEF IInv, Top, Leave, Stepping
<1>2. decks[Top.path] \in Texts
  BY <1>1, FrameDeck DEF IInv
<1>3. Len(decks[Top.path].items) \in Nat
  BY <1>2, ItemsOf
<1>4. Top.at <= Len(decks[Top.path].items) + 1
  BY <1>1 DEF Linked
<1>5. ~(Top.at <= Len(decks[Top.path].items))
  BY <1>1 DEF HasItem
<1>6. \A a, b \in Nat : a <= b + 1 /\ ~(a <= b) => a = b + 1
  OBVIOUS
<1>7. Top.at \in Nat
  BY <1>1
<1> QED
  BY <1>3, <1>4, <1>5, <1>6, <1>7

\* The path of the entry alone comes to what its items come to.
LEMMA EntryReplay ==
  ASSUME IInv, Phases, Linked, Leave, Len(active) = 1,
         NEW pre \in Rows, NEW acc \in [Nat -> Seq(Place)], Accounts(pre, acc)
  PROVE  Accounts(pre, acc)'
<1>0. PICK n, l : n = Top.path /\ l = Len(decks[Top.path].items)
  OBVIOUS
<1>1. pc = "load" /\ next = None /\ active # <<>> /\ UNCHANGED <<decks, params, entry, edges, next>>
  BY DEF Leave, Stepping, bundle
<1>2. /\ DOMAIN active = 1 .. 1 /\ DOMAIN active' = 1 .. 0 /\ Len(active') = 0
      /\ Top = active[1] /\ n \in Names /\ decks[n] \in Texts
      /\ Left' = Left \union {n} /\ n \notin Left
  <2>1. \A c : c = Len(active) =>
          /\ DOMAIN active = 1 .. c /\ DOMAIN active' = 1 .. c - 1 /\ Len(active') = c - 1
          /\ Top = active[c] /\ Top.path \in Names /\ decks[Top.path] \in Texts
          /\ Left' = Left \union {Top.path} /\ Top.path \notin Left
    BY Popped
  <2>2. 1 - 1 = 0
    OBVIOUS
  <2> QED
    BY <1>0, <2>1, <2>2
<1>3. n = entry /\ active[1].at = l + 1 /\ l \in Nat
  BY <1>0, <1>1, <1>2, AtTheEnd, ItemsOf DEF Linked
<1>4. decks[n] # None
  BY <1>2 DEF DistinctAssumption
<1> HIDE LimitAssumption, TextAssumption, DiskAssumption, DistinctAssumption
<1>5. Dealt(active, next, 1) = l
  BY <1>1, <1>3 DEF Dealt
<1>6. 1 \in 1 .. 1 /\ 1 - 1 = 0 /\ \A k \in 1 .. 0 : FALSE
  OBVIOUS
<1>7. Laid(decks, edges, Left, pre, n, l) /\ params = pre[n][l]
  <2>1. Laid(decks, edges, Left, pre, active[1].path, Dealt(active, next, 1))
    BY <1>2, <1>6 DEF Accounts
  <2>2. acc[1] = acc[0] \o pre[active[1].path][Dealt(active, next, 1)] /\ acc[0] = <<>>
    BY <1>2, <1>6 DEF Accounts
  <2>3. params = acc[1]
    BY <1>1 DEF Accounts
  <2>4. active[1].path = n
    BY <1>0, <1>2
  <2>5. pre[n][l] \in Seq(Place)
    BY <1>2, <1>3 DEF Rows
  <2>6. <<>> \o pre[n][l] = pre[n][l]
    BY <2>5
  <2> QED
    BY <1>5, <2>1, <2>2, <2>3, <2>4, <2>6
<1>8. ASSUME NEW m \in Names, NEW d \in Nat, Laid(decks, edges, Left, pre, m, d)
      PROVE  Laid(decks', edges', Left', pre, m, d)
  <2>1. \A x \in Left : AllOf(decks', pre, x) = AllOf(decks, pre, x)
    BY <1>1 DEF AllOf
  <2>2. \A k \in DOMAIN edges : edges[k][2] \in Nat \ {0}
    BY EdgeEnds DEF IInv
  <2>3. Untouched(pre, pre, m, d)
    BY <1>1, <1>2, <2>1, <2>2 DEF Untouched
  <2> QED
    BY <1>8, <2>3, LaidKept
<1>9. ASSUME NEW m \in Left'
      PROVE  Laid(decks', edges', Left', pre, m, Len(decks'[m].items))
  <2>1. CASE m \in Left
    <3>1. m \in Names /\ decks[m] \in Texts
      BY <2>1 DEF Left, IInv, TypeOK
    <3>2. Len(decks[m].items) \in Nat
      BY <3>1, ItemsOf
    <3>3. Laid(decks, edges, Left, pre, m, Len(decks[m].items))
      BY <2>1 DEF Accounts
    <3> QED
      BY <1>1, <1>8, <3>1, <3>2, <3>3
  <2>2. CASE m = n
    BY <1>0, <1>1, <1>2, <1>3, <1>7, <1>8, <2>2
  <2> QED
    BY <1>2, <2>1, <2>2
<1>10. active' = <<>>
  <2>1. active' \in Seq(Frame)
    BY DeckClosed DEF IInv
  <2> QED
    BY <1>2, <2>1, EmptySeq
<1>11. params' = AllOf(decks', pre, entry') /\ decks'[entry'] # None
  BY <1>0, <1>1, <1>3, <1>4, <1>7 DEF AllOf
<1>12. acc[0] = <<>> /\ \A m \in Names : pre[m][0] = <<>>
  BY DEF Accounts
<1> QED
  BY <1>2, <1>6, <1>9, <1>10, <1>11, <1>12 DEF Accounts

\* The deck that is left goes to the account of the deck that included it.
LEMMA LeaveReplay ==
  ASSUME IInv, Phases, Linked, Leave, Len(active) # 1,
         NEW pre \in Rows, NEW acc \in [Nat -> Seq(Place)], Accounts(pre, acc)
  PROVE  \E new \in Rows, sum \in [Nat -> Seq(Place)] : Accounts(new, sum)'
<1>0. PICK c, n, l : c = Len(active) /\ n = Top.path /\ l = Len(decks[Top.path].items)
  OBVIOUS
<1>1. pc = "load" /\ next = None /\ active # <<>> /\ UNCHANGED <<decks, params, entry, edges, next>>
  BY DEF Leave, Stepping, bundle
<1>2. /\ c \in Nat \ {0} /\ DOMAIN active = 1 .. c /\ DOMAIN active' = 1 .. c - 1 /\ Len(active') = c - 1
      /\ \A k \in 1 .. c - 1 : active'[k] = active[k] /\ active[k].path # n
      /\ Top = active[c] /\ n \in Names /\ decks[n] \in Texts
      /\ Left' = Left \union {n} /\ n \notin Left
  BY <1>0, Popped
<1>3. active[c].path = n /\ active[c].at = l + 1 /\ l \in Nat
  BY <1>0, <1>2, AtTheEnd, ItemsOf
<1>4. PICK p \in Names, i \in Nat \ {0} :
           /\ p = active[c - 1].path /\ active[c - 1].at = i + 1 /\ p # n
           /\ decks[p].items[i] # Param
           /\ \E k \in DOMAIN edges : edges[k] = <<p, i, n>>
           /\ \A k \in 1 .. c - 1 : k # c - 1 => active[k].path # p
  <2>1. \E p \in Names, i \in Nat \ {0} :
           /\ p = active[Len(active) - 1].path /\ active[Len(active) - 1].at = i + 1 /\ p # Top.path
           /\ decks[p].items[i] # Param
           /\ \E k \in DOMAIN edges : edges[k] = <<p, i, Top.path>>
           /\ \A k \in 1 .. Len(active) - 1 : k # Len(active) - 1 => active[k].path # p
    BY Resumed, Zenon
  <2> QED
    BY <1>0, <2>1
<1>5. PICK e \in DOMAIN edges : edges[e] = <<p, i, n>>
  BY <1>4
<1>6. edges[e][1] = p /\ edges[e][2] = i /\ edges[e][3] = n
  BY <1>5
<1>7. \A k \in DOMAIN edges : edges[k][2] \in Nat \ {0}
  BY EdgeEnds DEF IInv
<1>8. \A k \in DOMAIN edges : edges[k][1] = p /\ edges[k][2] = i => edges[k][3] = n
  BY <1>6, OneEdge
<1>9. \A k \in 1 .. c : active[k].path \in Names /\ Dealt(active, next, k) \in Nat
  BY <1>2, FrameDeck, DealtType DEF IInv
<1> HIDE LimitAssumption, TextAssumption, DiskAssumption, DistinctAssumption
<1>10. c \in Nat /\ c # 0 /\ c # 1 /\ i \in Nat /\ i # 0
  BY <1>0, <1>2
<1>11. /\ c - 1 \in Nat /\ c - 1 # 0 /\ c - 1 # c /\ c - 2 \in Nat /\ c - 1 - 1 = c - 2 /\ c - 2 # c - 1
       /\ c \in 1 .. c /\ c - 1 \in 1 .. c /\ c - 1 \in 1 .. c - 1
       /\ \A k \in 1 .. c - 1 : k \in 1 .. c /\ k # c /\ k \in Nat /\ k - 1 \in Nat /\ k - 1 # c - 1
  BY <1>10
<1>12. i - 1 \in Nat /\ i - 1 # i /\ i + 1 - 1 = i /\ i + 1 - 2 = i - 1
  BY <1>10
<1>13. l + 1 - 1 = l
  BY <1>3
<1>14. Dealt(active, next, c) = l
  BY <1>0, <1>1, <1>3, <1>13 DEF Dealt
<1>15. Dealt(active, next, c - 1) = i - 1
  BY <1>0, <1>4, <1>11, <1>12 DEF Dealt
<1>16. active'[c - 1].path = p /\ Dealt(active', next', c - 1) = i
  <2>1. active'[c - 1] = active[c - 1]
    BY <1>2, <1>11
  <2>2. active'[c - 1].path = p /\ active'[c - 1].at = i + 1 /\ Len(active') = c - 1 /\ next' = None
    BY <1>1, <1>2, <1>4, <2>1
  <2> QED
    BY <1>12, <2>2 DEF Dealt
<1>17. ASSUME NEW k \in 1 .. c - 1, k # c - 1
       PROVE  /\ active'[k].path = active[k].path /\ active[k].path # p /\ active[k].path # n
              /\ active[k].path \in Names /\ Dealt(active, next, k) \in Nat
              /\ Dealt(active', next', k) = Dealt(active, next, k)
  <2>1. Dealt(active', next', k) = Dealt(active, next, k)
    BY <1>0, <1>2, <1>11, <1>17 DEF Dealt
  <2> QED
    BY <1>2, <1>4, <1>9, <1>11, <1>17, <2>1
<1>18. /\ \A x \in Names, y \in Nat : pre[x][y] \in Seq(Place)
       /\ \A k \in Nat : acc[k] \in Seq(Place)
  BY DEF Rows
<1>19. pre[p][i - 1] \in Seq(Place) /\ pre[n][l] \in Seq(Place) /\ acc[c] \in Seq(Place) /\ acc[c - 2] \in Seq(Place)
  BY <1>2, <1>3, <1>10, <1>11, <1>12, <1>18
<1>20. pre[p][i - 1] \o pre[n][l] \in Seq(Place)
  BY <1>19, PlacesJoined
<1>21. PICK new \in Rows : /\ new[p][i] = pre[p][i - 1] \o pre[n][l]
                           /\ \A x \in Names, y \in Nat : x # p \/ y # i => new[x][y] = pre[x][y]
  <2>1. \A j \in Nat, v \in Seq(Place) :
          \E new \in Rows : /\ new[p][j] = v
                            /\ \A x \in Names, y \in Nat : x # p \/ y # j => new[x][y] = pre[x][y]
    BY RowExtended
  <2> QED
    BY <1>10, <1>20, <2>1
<1>22. PICK sum \in [Nat -> Seq(Place)] : sum[c - 1] = acc[c] /\ \A y \in Nat : y # c - 1 => sum[y] = acc[y]
  <2>1. \A j \in Nat, v \in Seq(Place) :
          \E new1 \in [Nat -> Seq(Place)] : new1[j] = v /\ \A y \in Nat : y # j => new1[y] = acc[y]
    BY SumExtended
  <2> QED
    BY <1>11, <1>19, <2>1
<1>23. p \notin Left
  BY <1>2, <1>4, <1>11 DEF Left
<1>24. ASSUME NEW m \in Left
       PROVE  AllOf(decks', new, m) = AllOf(decks, pre, m)
  <2>1. m \in Names /\ m # p /\ decks[m] \in Texts
    <3>1. m # p
      BY <1>23
    <3> QED
      BY <3>1 DEF Left, IInv, TypeOK
  <2>2. Len(decks[m].items) \in Nat
    BY <2>1, ItemsOf
  <2> QED
    BY <1>1, <1>21, <2>1, <2>2 DEF AllOf
<1>25. AllOf(decks', new, n) = pre[n][l]
  <2>1. new[n][l] = pre[n][l]
    BY <1>2, <1>3, <1>4, <1>21
  <2>2. Len(decks'[n].items) = l
    BY <1>0, <1>1
  <2> QED
    BY <2>1, <2>2 DEF AllOf
<1>26. ASSUME NEW m \in Names, NEW d \in Nat, Laid(decks, edges, Left, pre, m, d), m # p \/ d = i - 1
       PROVE  Laid(decks', edges', Left', new, m, d)
  <2>1. \A j \in 0 .. d : j \in Nat /\ (m # p \/ j # i)
    BY <1>10, <1>26
  <2>2. \A j \in 0 .. d : new[m][j] = pre[m][j]
    BY <1>21, <2>1
  <2>3. Untouched(pre, new, m, d)
    BY <1>1, <1>2, <1>7, <1>24, <2>2 DEF Untouched
  <2> QED
    BY <1>26, <2>3, LaidKept
<1>27. ASSUME NEW m \in Left'
       PROVE  Laid(decks', edges', Left', new, m, Len(decks'[m].items))
  <2>1. CASE m \in Left
    <3>1. m # p
      BY <1>23, <2>1
    <3>2. m \in Names /\ decks[m] \in Texts
      BY <2>1 DEF Left, IInv, TypeOK
    <3>3. Len(decks[m].items) \in Nat
      BY <3>2, ItemsOf
    <3>4. Laid(decks, edges, Left, pre, m, Len(decks[m].items))
      BY <2>1 DEF Accounts
    <3> QED
      BY <1>1, <1>26, <3>1, <3>2, <3>3, <3>4
  <2>2. CASE m = n
    <3>1. Laid(decks, edges, Left, pre, n, l)
      BY <1>2, <1>3, <1>11, <1>14 DEF Accounts
    <3>2. Laid(decks', edges', Left', new, n, l)
      BY <1>2, <1>3, <1>4, <1>26, <3>1
    <3> QED
      BY <1>0, <1>1, <2>2, <3>2
  <2> QED
    BY <1>2, <2>1, <2>2
<1>28. Laid(decks', edges', Left', new, p, i)
  <2>1. Laid(decks', edges', Left', new, p, i - 1)
    <3>1. Laid(decks, edges, Left, pre, p, i - 1)
      BY <1>2, <1>4, <1>11, <1>15 DEF Accounts
    <3> QED
      BY <1>12, <1>26, <3>1
  <2>2. ASSUME NEW j \in 1 .. i, decks'[p].items[j] = Param
        PROVE  new[p][j] = Append(new[p][j - 1], <<p, j>>)
    <3>1. j # i
      BY <1>1, <1>4, <2>2
    <3>2. j \in 1 .. i - 1
      BY <1>10, <3>1
    <3> QED
      BY <2>1, <2>2, <3>2 DEF Laid
  <2>3. ASSUME NEW k \in DOMAIN edges', edges'[k][1] = p, edges'[k][2] <= i
        PROVE  edges'[k][3] \in Left' /\ new[p][edges'[k][2]] = new[p][edges'[k][2] - 1] \o AllOf(decks', new, edges'[k][3])
    <3>1. edges'[k][2] \in Nat
      BY <1>1, <1>7
    <3>2. CASE edges'[k][2] = i
      <4>1. edges'[k][3] = n
        BY <1>1, <1>8, <2>3, <3>2
      <4>2. new[p][i - 1] = pre[p][i - 1]
        BY <1>12, <1>21
      <4> QED
        BY <1>2, <1>21, <1>25, <3>2, <4>1, <4>2
    <3>3. CASE edges'[k][2] # i
      <4>1. \A a, b \in Nat : a <= b /\ a # b => a <= b - 1
        OBVIOUS
      <4>2. edges'[k][2] <= i - 1
        BY <1>10, <2>3, <3>1, <3>3, <4>1
      <4> QED
        BY <2>1, <2>3, <4>2 DEF Laid
    <3> QED
      BY <3>2, <3>3
  <2> QED
    BY <2>2, <2>3 DEF Laid
<1>29. ASSUME NEW k \in 1 .. c - 1
       PROVE  Laid(decks', edges', Left', new, active'[k].path, Dealt(active', next', k))
  <2>1. CASE k = c - 1
    BY <1>16, <1>28, <2>1
  <2>2. CASE k # c - 1
    <3>1. Laid(decks, edges, Left, pre, active[k].path, Dealt(active, next, k))
      BY <1>2, <1>11 DEF Accounts
    <3> QED
      BY <1>17, <1>26, <2>2, <3>1
  <2> QED
    BY <2>1, <2>2
<1>30. ASSUME NEW k \in 1 .. c - 1
       PROVE  sum[k] = sum[k - 1] \o new[active'[k].path][Dealt(active', next', k)]
  <2>1. acc[k] = acc[k - 1] \o pre[active[k].path][Dealt(active, next, k)]
    BY <1>2, <1>11 DEF Accounts
  <2>2. sum[k - 1] = acc[k - 1]
    BY <1>11, <1>22
  <2>3. CASE k = c - 1
    <3>1. acc[c - 1] = acc[c - 2] \o pre[p][i - 1]
      BY <1>4, <1>11, <1>15, <2>1, <2>3
    <3>2. acc[c] = acc[c - 1] \o pre[n][l]
      BY <1>2, <1>3, <1>11, <1>14 DEF Accounts
    <3>3. (acc[c - 2] \o pre[p][i - 1]) \o pre[n][l] = acc[c - 2] \o (pre[p][i - 1] \o pre[n][l])
      <4>1. \A a, b, d \in Seq(Place) : (a \o b) \o d = a \o (b \o d)
        BY PlacesJoined
      <4> QED
        BY <1>19, <4>1
    <3>4. sum[c - 1] = acc[c - 2] \o new[p][i]
      BY <1>21, <1>22, <3>1, <3>2, <3>3
    <3>5. sum[k - 1] = acc[c - 2]
      BY <1>11, <2>2, <2>3
    <3> QED
      BY <1>16, <2>3, <3>4, <3>5
  <2>4. CASE k # c - 1
    <3>1. sum[k] = acc[k]
      BY <1>11, <1>22, <2>4
    <3>2. new[active[k].path][Dealt(active, next, k)] = pre[active[k].path][Dealt(active, next, k)]
      BY <1>17, <1>21, <2>4
    <3> QED
      BY <1>17, <2>1, <2>2, <2>4, <3>1, <3>2
  <2> QED
    BY <2>3, <2>4
<1>31. sum[0] = <<>> /\ \A x \in Names : new[x][0] = <<>>
  <2>1. acc[0] = <<>> /\ \A x \in Names : pre[x][0] = <<>>
    BY DEF Accounts
  <2> QED
    BY <1>10, <1>11, <1>21, <1>22, <2>1
<1>32. params' = sum[c - 1]
  BY <1>0, <1>1, <1>22 DEF Accounts
<1>33. active' # <<>>
  BY <1>2, <1>11
<1>34. Accounts(new, sum)'
  BY <1>2, <1>27, <1>29, <1>30, <1>31, <1>32, <1>33 DEF Accounts
<1> QED
  BY <1>34

\* Nothing is dealt with when the entry is chosen.
LEMMA BegunReplay ==
  ASSUME Phases, pc = "open", UNCHANGED <<decks, edges, active, params>>, entry' \in Names
  PROVE  \E pre \in Rows, acc \in [Nat -> Seq(Place)] : Accounts(pre, acc)'
<1>1. /\ edges' = <<>> /\ params' = <<>> /\ active' = <<>> /\ \A n \in Names : decks'[n] = None
      /\ DOMAIN active' = {}
  BY DEF Phases
<1>2. Left' = {}
  BY <1>1 DEF Left
<1> DEFINE pre == [n \in Names |-> [j \in Nat |-> <<>>]]
           acc == [j \in Nat |-> <<>>]
<1>3. <<>> \in Seq(Place)
  OBVIOUS
<1> HIDE DEF Place
<1>4. pre \in Rows /\ acc \in [Nat -> Seq(Place)]
  BY <1>3 DEF Rows
<1>5. acc[0] = <<>> /\ \A n \in Names : pre[n][0] = <<>>
  OBVIOUS
<1> HIDE DEF pre, acc
<1>6. params' = IF decks'[entry'] # None THEN AllOf(decks', pre, entry') ELSE <<>>
  BY <1>1
<1>7. Accounts(pre, acc)'
  BY <1>1, <1>2, <1>5, <1>6 DEF Accounts
<1> QED
  BY <1>4, <1>7

\* Whatever was reported, there is then nothing to account for.
LEMMA ReplayedKept ==
  IInv /\ Phases /\ Linked /\ Faultless /\ Replayed /\ [Next]_vars => Replayed'
<1> SUFFICES ASSUME IInv, Phases, Linked, Faultless, Replayed, [Next]_vars,
                    pc' \in {"load", "done"}, issues' = {}
             PROVE  \E pre \in Rows, acc \in [Nat -> Seq(Place)] : Accounts(pre, acc)'
  BY DEF Replayed
<1>1. CASE \/ \E w \in Names \union {None} : OpenDirectory(w)
           \/ \E n \in Names : OpenFile(n)
  <2>1. pc = "open" /\ UNCHANGED <<decks, edges, active, params>>
    BY <1>1 DEF OpenDirectory, OpenFile, Begin
  <2>2. entry' \in Names
    BY PhasesKept DEF Phases
  <2> QED
    BY <2>1, <2>2, BegunReplay
<1>2. CASE VisitTooDeep \/ VisitUnreadable \/ VisitMalformed \/ VisitAgain \/ TakeUnresolved \/ TakeCycle
  <2>1. issues' # {}
    BY <1>2 DEF VisitTooDeep, VisitUnreadable, VisitMalformed, VisitAgain, TakeUnresolved, TakeCycle, Report
  <2> QED
    BY <2>1
<1>3. CASE VisitFirst \/ TakeParam \/ TakeInclude \/ Leave
  <2>1. pc = "load" /\ issues = {}
    BY <1>3 DEF VisitFirst, TakeParam, TakeInclude, Leave, Visiting, Stepping
  <2>2. PICK pre \in Rows, acc \in [Nat -> Seq(Place)] : Accounts(pre, acc)
    BY <2>1 DEF Replayed
  <2>3. CASE VisitFirst
    BY <2>1, <2>2, <2>3, OpenedReplay
  <2>4. CASE TakeParam
    BY <2>1, <2>2, <2>4, CardReplay
  <2>5. CASE TakeInclude
    BY <2>1, <2>2, <2>5, IncludeReplay
  <2>6. CASE Leave
    <3>1. CASE Len(active) = 1
      BY <2>1, <2>2, <2>6, <3>1, EntryReplay
    <3>2. CASE Len(active) # 1
      BY <2>1, <2>2, <2>6, <3>2, LeaveReplay
    <3> QED
      BY <3>1, <3>2
  <2> QED
    BY <1>3, <2>3, <2>4, <2>5, <2>6
<1>4. CASE Finish \/ (\E n \in Names : Edit(n)) \/ UNCHANGED vars
  <2>1. /\ UNCHANGED <<decks, edges, active, next, params, entry, issues>>
        /\ pc \in {"load", "done"}
    BY <1>4 DEF Finish, Edit, vars, bundle, graph
  <2>2. PICK pre \in Rows, acc \in [Nat -> Seq(Place)] : Accounts(pre, acc)
    BY <2>1 DEF Replayed
  <2>3. Left' = Left
    BY <2>1 DEF Left
  <2>4. Accounts(pre, acc)'
    BY <2>1, <2>2, <2>3 DEF Accounts
  <2> QED
    BY <2>4
<1> QED
  BY <1>1, <1>2, <1>3, <1>4 DEF Next, Load

\* What the items of a deck are replaced by, and the texts that result.
Pieces(f, n) == [i \in DOMAIN decks[n].items |->
                   IF decks[n].items[i] = Param THEN <<<<n, i>>>> ELSE f[Follow(n, i)]]
FlatOf(f, n) == IF decks[n] = None THEN <<>> ELSE FlattenSeq(Pieces(f, n))
FlatTexts == CHOOSE f : f = [n \in Names |-> FlatOf(f, n)]

LEMMA FlattenedIs == ASSUME NEW n PROVE Flattened(n) = FlatTexts[n]
BY Zenon DEF Flattened, FlatTexts, FlatOf, Pieces

LEMMA PlaceIsPiece ==
  ASSUME NEW a \in Seq(Place), NEW x \in Place
  PROVE  <<x>> \in Seq(Place) /\ Append(a, x) = a \o <<x>>
OBVIOUS

\* A reference leads where its edge leads.
LEMMA FollowIs ==
  ASSUME IInv, NEW k \in DOMAIN edges
  PROVE  Follow(edges[k][1], edges[k][2]) = edges[k][3]
<1> DEFINE P(e) == e[1] = edges[k][1] /\ e[2] = edges[k][2]
           f == CHOOSE e \in ToSet(edges) : P(e)
<1>1. \A e : e \in ToSet(edges) <=> \E l \in DOMAIN edges : e = edges[l]
  BY DEF ToSet
<1>2. \E e \in ToSet(edges) : P(e)
  BY <1>1
<1>3. f \in ToSet(edges) /\ P(f)
  <2> HIDE DEF P
  <2> QED
    BY <1>2
<1>4. f = edges[k]
  <2> HIDE DEF f
  <2>1. PICK l \in DOMAIN edges : f = edges[l]
    BY <1>1, <1>3
  <2> QED
    BY <1>3, <2>1, OneEdge
<1>5. Follow(edges[k][1], edges[k][2]) = f[3]
  BY Zenon DEF Follow
<1> QED
  BY <1>4, <1>5

\* When nothing was reported and all is left, every reference has its edge.
Over == pc = "done" /\ issues = {}

LEMMA AllLeft ==
  ASSUME IInv, Phases, Faultless, Over
  PROVE  /\ Left = Loaded /\ entry \in Loaded
         /\ \A n \in Loaded : \A i \in References(n) :
              \E k \in DOMAIN edges : edges[k][1] = n /\ edges[k][2] = i
<1>1. active = <<>> /\ DOMAIN active = {} /\ next = None /\ entry \in Names
  BY DEF Phases, Over
<1>2. Left = Loaded
  BY <1>1 DEF Left, Loaded
<1>3. entry # None /\ decks[entry] # None
  BY <1>1 DEF Faultless, Over
<1>4. \A n, i : decks[n] # None => Passed(n, i)
  BY <1>1 DEF Passed
<1> QED
  BY <1>1, <1>2, <1>3, <1>4 DEF Faultless, Over, Loaded

\* What the references of a deck lead to.
LEMMA Followed ==
  ASSUME IInv, Phases, Faultless, Over, NEW n \in Loaded, NEW i \in References(n),
         NEW pre, NEW acc, Accounts(pre, acc)
  PROVE  /\ Follow(n, i) \in Loaded /\ Edge(edges, n, Follow(n, i))
         /\ pre[n][i] = pre[n][i - 1] \o AllOf(decks, pre, Follow(n, i))
<1>1. PICK k \in DOMAIN edges : edges[k][1] = n /\ edges[k][2] = i
  BY AllLeft
<1>2. Follow(n, i) = edges[k][3]
  BY <1>1, FollowIs
<1>3. n \in Left /\ n \in Names /\ decks[n] \in Texts
  BY AllLeft DEF IInv, TypeOK, Loaded
<1>4. i <= Len(decks[n].items)
  BY <1>3, ItemsOf DEF References
<1>5. Laid(decks, edges, Left, pre, n, Len(decks[n].items))
  BY <1>3 DEF Accounts
<1>6. edges[k][3] \in Left /\ pre[n][i] = pre[n][i - 1] \o AllOf(decks, pre, edges[k][3])
  BY <1>1, <1>4, <1>5 DEF Laid
<1> QED
  BY <1>1, <1>2, <1>6, AllLeft DEF Edge

\* What the accounts of the decks say is a solution of the reference's equation.
Accounted(pre) == [n \in Names |-> IF decks[n] = None THEN <<>> ELSE AllOf(decks, pre, n)]

LEMMA AccountsSolve ==
  ASSUME IInv, Phases, Faultless, Over, NEW pre \in Rows, NEW acc, Accounts(pre, acc), NEW n \in Loaded
  PROVE  FlattenSeq(Pieces(Accounted(pre), n)) = AllOf(decks, pre, n)
<1> DEFINE w == Accounted(pre)
           s == Pieces(w, n)
           L == Len(decks[n].items)
           Piece(i) == IF decks[n].items[i] = Param THEN <<<<n, i>>>> ELSE w[Follow(n, i)]
<1>1. n \in Left /\ n \in Names /\ decks[n] \in Texts
  BY AllLeft DEF IInv, TypeOK, Loaded
<1>2. L \in Nat /\ DOMAIN decks[n].items = 1 .. L
  BY <1>1, ItemsOf
<1>3. pre[n] \in [Nat -> Seq(Place)] /\ pre[n][0] = <<>> /\ \A m \in Names, j \in Nat : pre[m][j] \in Seq(Place)
  <2>1. pre[n] \in [Nat -> Seq(Place)] /\ \A m \in Names, j \in Nat : pre[m][j] \in Seq(Place)
    BY <1>1, RowType
  <2>2. pre[n][0] = <<>>
    BY <1>1 DEF Accounts
  <2> QED
    BY <2>1, <2>2
<1>4. \A m \in Loaded : w[m] = AllOf(decks, pre, m) /\ w[m] \in Seq(Place)
  <2>1. ASSUME NEW m \in Loaded
        PROVE  w[m] = AllOf(decks, pre, m) /\ AllOf(decks, pre, m) \in Seq(Place)
    <3>1. m \in Names /\ decks[m] \in Texts /\ decks[m] # None
      BY DEF IInv, TypeOK, Loaded
    <3>2. Len(decks[m].items) \in Nat
      BY <3>1, ItemsOf
    <3> QED
      BY <1>3, <3>1, <3>2 DEF AllOf, Accounted
  <2> QED
    BY <2>1
<1>5. ASSUME NEW i \in 1 .. L
      PROVE  Piece(i) \in Seq(Place) /\ pre[n][i] = pre[n][i - 1] \o Piece(i)
  <2>1. CASE decks[n].items[i] = Param
    <3>1. pre[n][i] = Append(pre[n][i - 1], <<n, i>>)
      BY <1>1, <2>1 DEF Accounts, Laid
    <3>2. <<n, i>> \in Place /\ i - 1 \in Nat
      BY <1>1, <1>2 DEF Place
    <3>3. pre[n][i - 1] \in Seq(Place)
      BY <1>1, <1>3, <3>2
    <3>4. \A a \in Seq(Place), x \in Place : <<x>> \in Seq(Place) /\ Append(a, x) = a \o <<x>>
      BY PlaceIsPiece
    <3>5. <<<<n, i>>>> \in Seq(Place) /\ Append(pre[n][i - 1], <<n, i>>) = pre[n][i - 1] \o <<<<n, i>>>>
      BY <3>2, <3>3, <3>4
    <3> QED
      BY <2>1, <3>1, <3>5
  <2>2. CASE decks[n].items[i] # Param
    <3>1. i \in References(n)
      BY <1>2, <2>2 DEF References
    <3>2. Follow(n, i) \in Loaded /\ pre[n][i] = pre[n][i - 1] \o AllOf(decks, pre, Follow(n, i))
      BY <3>1, Followed
    <3> QED
      BY <1>4, <2>2, <3>2
  <2> QED
    BY <2>1, <2>2
<1>6. s = [i \in 1 .. L |-> Piece(i)]
  BY <1>2 DEF Pieces
<1> HIDE DEF s, L, Piece, w
<1>7. s \in Seq(Seq(Place)) /\ Len(s) = L /\ \A i \in 1 .. L : s[i] = Piece(i)
  <2>1. s \in [1 .. L -> Seq(Place)]
    BY <1>5, <1>6
  <2>2. \A S : [1 .. L -> S] \subseteq Seq(S)
    BY <1>2
  <2>3. s \in Seq(Seq(Place))
    BY <2>1, <2>2
  <2>4. Len(s) \in Nat /\ DOMAIN s = 1 .. Len(s)
    BY <2>3, LenProperties
  <2>5. DOMAIN s = 1 .. L
    BY <2>1
  <2> QED
    BY <1>2, <1>6, <2>3, <2>4, <2>5
<1>8. \A i \in 1 .. Len(s) : pre[n][i] = pre[n][i - 1] \o s[i]
  BY <1>5, <1>7
<1>9. FlattenSeq(s) = pre[n][Len(s)]
  <2> HIDE LimitAssumption, TextAssumption, DiskAssumption, DistinctAssumption
  <2> QED
    BY <1>3, <1>7, <1>8, FlattenIs
<1> QED
  BY <1>7, <1>9 DEF AllOf, L, s, w

\* A ring is all that could keep two solutions apart.
LEMMA OneSolution ==
  ASSUME IInv, Phases, Faultless, Sorted, Over, NEW pre, NEW acc, Accounts(pre, acc), NEW f, NEW g,
         f = [n \in Names |-> FlatOf(f, n)], g = [n \in Names |-> FlatOf(g, n)]
  PROVE  \A n \in Loaded : f[n] = g[n]
<1> DEFINE s == {n \in Loaded : f[n] # g[n]}
<1>1. \A n \in Loaded : n \in Names /\ decks[n] # None
  BY DEF Loaded
<1>2. ASSUME NEW n \in Loaded, \A i \in References(n) : f[Follow(n, i)] = g[Follow(n, i)]
      PROVE  f[n] = g[n]
  <2>1. \A i \in DOMAIN decks[n].items : decks[n].items[i] = Param \/ f[Follow(n, i)] = g[Follow(n, i)]
    BY <1>2 DEF References
  <2>2. Pieces(f, n) = Pieces(g, n)
    BY <2>1 DEF Pieces
  <2>3. f[n] = FlatOf(f, n) /\ g[n] = FlatOf(g, n)
    BY <1>1
  <2> QED
    BY <2>2, <2>3 DEF FlatOf
<1>3. ASSUME NEW n \in s
      PROVE  \E m \in s : Edge(edges, n, m)
  <2>1. PICK i \in References(n) : f[Follow(n, i)] # g[Follow(n, i)]
    BY <1>2
  <2>2. Follow(n, i) \in Loaded /\ Edge(edges, n, Follow(n, i))
    BY Followed
  <2> QED
    BY <2>1, <2>2
<1>4. s \subseteq Left /\ Whole
  BY AllLeft DEF Over, Whole, Codes
<1> HIDE DEF s
<1>5. s = {}
  BY <1>3, <1>4 DEF Sorted, Ring
<1> QED
  BY <1>5 DEF s

\* What was collected is what the reference says.
LEMMA InOrderAtEnd ==
  IInv /\ Phases /\ Faultless /\ Sorted /\ Replayed => ParamsInOrder
<1> SUFFICES ASSUME IInv, Phases, Faultless, Sorted, Replayed, Over
             PROVE  params = Flattened(entry)
  BY DEF ParamsInOrder, Over
<1>1. PICK pre \in Rows, acc \in [Nat -> Seq(Place)] : Accounts(pre, acc)
  BY DEF Replayed, Over
<1>2. entry \in Loaded /\ entry \in Names /\ decks[entry] # None /\ active = <<>>
  BY AllLeft DEF Phases, Over, Loaded
<1>3. params = AllOf(decks, pre, entry)
  BY <1>1, <1>2 DEF Accounts
<1> DEFINE w == Accounted(pre)
<1>4. \A n \in Names : w[n] = IF decks[n] = None THEN <<>> ELSE AllOf(decks, pre, n)
  BY DEF Accounted
<1>5. ASSUME NEW n \in Names
      PROVE  w[n] = FlatOf(w, n)
  <2>1. CASE decks[n] = None
    BY <1>4, <2>1 DEF FlatOf
  <2>2. CASE decks[n] # None
    <3>1. FlattenSeq(Pieces(w, n)) = AllOf(decks, pre, n)
      BY <1>1, <2>2, AccountsSolve DEF Loaded
    <3> QED
      BY <1>4, <2>2, <3>1 DEF FlatOf
  <2> QED
    BY <2>1, <2>2
<1>6. w = [n \in Names |-> w[n]]
  BY DEF Accounted
<1> HIDE DEF w
<1>7. w = [n \in Names |-> FlatOf(w, n)]
  BY <1>5, <1>6
<1>8. FlatTexts = [n \in Names |-> FlatOf(FlatTexts, n)]
  BY <1>7, Zenon DEF FlatTexts
<1>9. FlatTexts[entry] = w[entry]
  BY <1>1, <1>2, <1>7, <1>8, OneSolution
<1> QED
  BY <1>2, <1>3, <1>4, <1>9, FlattenedIs

\* ParamsInOrder: a report without an issue lists the .param cards of the whole
\* netlist in the order of the text in which each include is replaced by what it
\* includes, for any decks and whatever is edited while they are read.
THEOREM ParamsReplayed == Spec => []ParamsInOrder
<1>1. Init => Replayed
  <2>1. Init => pc = "open"
    BY DEF Init
  <2>2. pc = "open" => pc \notin {"load", "done"}
    OBVIOUS
  <2> QED
    BY <2>1, <2>2 DEF Replayed
<1> QED
  BY <1>1, OutcomeHolds, GraphHolds, ReplayedKept, InOrderAtEnd, PTL DEF Spec
==============================================================================
