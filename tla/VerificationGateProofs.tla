------------------------ MODULE VerificationGateProofs ------------------------
(***************************************************************************)
(* What the gate judges is what it digested, for any bundle and any        *)
(* changes to the directory while it is read; what the loop over the       *)
(* waivers comes to, for any number of them; and from both that a bundle   *)
(* is allowed exactly when its evidence is complete, and no sooner on a    *)
(* later day.                                                              *)
(***************************************************************************)
EXTENDS VerificationGate, FiniteSetTheorems, SequenceTheorems, WellFoundedInduction, TLAPS

(* The fold over the waivers, turn by turn. *)

\* Induction on the natural numbers, for a set of them.
LEMMA SetOfAllNaturals ==
  ASSUME NEW S \in SUBSET Nat, 0 \in S, \A k \in S : k + 1 \in S
  PROVE  S = Nat
<1> DEFINE T == Nat \ S
<1>1. SUFFICES ASSUME T # {} PROVE FALSE
  OBVIOUS
<1>2. PICK m \in T : \A k \in T : <<k, m>> \notin OpToRel(<, Nat)
  <2>1. T \subseteq Nat
    OBVIOUS
  <2> HIDE DEF T
  <2> QED
    BY <1>1, <2>1, WFMin, NatLessThanWellFounded, Zenon
<1>3. \A k \in T : ~(k < m)
  BY <1>2 DEF OpToRel
<1>4. m - 1 \notin T /\ m # 0 /\ m \in Nat /\ m \notin S
  BY <1>3
<1> QED
  BY <1>4

\* A set of positions that is not empty has a last one.
LEMMA LastPosition ==
  ASSUME NEW n \in Nat, NEW s \in SUBSET (1 .. n), s # {}
  PROVE  Max(s) \in s /\ \A k \in s : Max(s) >= k
<1> DEFINE HasLast(t) == \E m \in t : \A k \in t : m >= k
           S == {k \in Nat : \A t \in SUBSET (1 .. k) : t # {} => HasLast(t)}
<1>1. 0 \in S
  <2>1. 1 .. 0 = {}
    OBVIOUS
  <2> QED
    BY <2>1
<1>2. ASSUME NEW k \in S PROVE k + 1 \in S
  <2>1. ASSUME NEW t \in SUBSET (1 .. k + 1), t # {} PROVE HasLast(t)
    <3>1. CASE k + 1 \in t
      BY <3>1
    <3>2. CASE k + 1 \notin t
      <4>1. t \in SUBSET (1 .. k)
        BY <3>2
      <4> QED
        BY <2>1, <4>1
    <3> QED
      BY <3>1, <3>2
  <2> HIDE DEF HasLast
  <2> QED
    BY <2>1
<1>3. n \in S
  <2>1. S \in SUBSET Nat
    OBVIOUS
  <2> HIDE DEF S
  <2> QED
    BY <1>1, <1>2, <2>1, SetOfAllNaturals
<1>4. HasLast(s)
  BY <1>3
<1> QED
  BY <1>4 DEF Max

\* _apply_waivers goes through the waivers one after the other.
LEMMA AppliedInTurn ==
  ASSUME NEW ws, NEW n \in Nat, DOMAIN ws = 1 .. n, NEW day
  PROVE  \E turn : /\ turn[0] = NoWaivers
                   /\ \A k \in 1 .. n : turn[k] = Waive(turn[k - 1], ws[k], day)
                   /\ Applied(ws, day) = turn[n]
<1> DEFINE W(done, w)   == Waive(done, w, day)
           Value(it, s) == IF s = {} THEN NoWaivers ELSE W(it[s \ {Max(s)}], ws[Max(s)])
           Folds(it, k) == it = [s \in SUBSET (1 .. k) |-> Value(it, s)]
<1>1. Applied(ws, day) = (CHOOSE it : Folds(it, n))[1 .. n]
  <2>1. Applied(ws, day)
          = (CHOOSE it : it = [s \in SUBSET (DOMAIN ws) |->
                                 IF s = {} THEN NoWaivers
                                 ELSE Waive(it[s \ {Max(s)}], ws[Max(s)], day)])[DOMAIN ws]
    BY Zenon DEF Applied, FoldLeft, MapThenFoldSet
  <2> QED
    BY <2>1, Zenon
<1> HIDE DEF W
<1>2. \E it : Folds(it, n)
  <2> DEFINE S == {k \in Nat : k <= n => \E it : Folds(it, k)}
  <2>1. 0 \in S
    <3>1. 1 .. 0 = {} /\ SUBSET {} = {{}}
      OBVIOUS
    <3>2. Folds([s \in {{}} |-> NoWaivers], 0)
      BY <3>1
    <3> QED
      BY <3>2, Zenon
  <2>2. ASSUME NEW k \in S PROVE k + 1 \in S
    <3> SUFFICES ASSUME k + 1 <= n PROVE \E it : Folds(it, k + 1)
      <4> HIDE DEF Folds
      <4> QED
        OBVIOUS
    <3>1. PICK g : Folds(g, k)
      <4> HIDE DEF Folds
      <4>1. \E it : Folds(it, k)
        OBVIOUS
      <4> QED
        BY <4>1
    <3> DEFINE h == [s \in SUBSET (1 .. k + 1) |-> Value(g, s)]
    <3>2. \A s \in SUBSET (1 .. k) : s \in SUBSET (1 .. k + 1) /\ h[s] = g[s]
      <4> HIDE DEF Value
      <4>1. 1 .. k \subseteq 1 .. k + 1
        OBVIOUS
      <4>2. \A s \in SUBSET (1 .. k) : g[s] = Value(g, s)
        BY <3>1
      <4> QED
        BY <4>1, <4>2
    <3>3. ASSUME NEW s \in SUBSET (1 .. k + 1) PROVE Value(g, s) = Value(h, s)
      <4>1. CASE s = {}
        BY <4>1
      <4>2. CASE s # {}
        <5>1. s \in SUBSET (1 .. n) /\ k + 1 \in Nat
          BY <2>2
        <5>2. Max(s) \in s /\ \A i \in s : Max(s) >= i
          BY <4>2, <5>1, LastPosition
        <5>3. s \ {Max(s)} \in SUBSET (1 .. k)
          <6> DEFINE m == Max(s)
          <6> HIDE DEF m
          <6>1. m \in s /\ \A i \in s : m >= i
            BY <5>2 DEF m
          <6>2. \A i \in s : i \in 1 .. k + 1
            OBVIOUS
          <6>3. \A i \in s : i # m => i \in 1 .. k
            BY <2>2, <6>1, <6>2
          <6> QED
            BY <6>3 DEF m
        <5> HIDE DEF h
        <5> QED
          BY <3>2, <5>3
      <4> QED
        BY <4>1, <4>2
    <3>4. Folds(h, k + 1)
      <4> HIDE DEF Value
      <4> QED
        BY <3>3
    <3> QED
      BY <3>4
  <2>3. n \in S
    <3>1. S \in SUBSET Nat
      OBVIOUS
    <3> HIDE DEF S
    <3> QED
      BY <2>1, <2>2, <3>1, SetOfAllNaturals
  <2> HIDE DEF Folds
  <2> QED
    BY <2>3
<1>3. PICK it : Folds(it, n) /\ Applied(ws, day) = it[1 .. n]
  <2> HIDE DEF Folds
  <2> QED
    BY <1>1, <1>2
<1> DEFINE turn == [k \in 0 .. n |-> it[1 .. k]]
<1>4. turn[0] = NoWaivers
  <2>1. 1 .. 0 = {}
    OBVIOUS
  <2>2. it[{}] = NoWaivers
    BY <1>3
  <2> QED
    BY <2>1, <2>2
<1>5. ASSUME NEW k \in 1 .. n PROVE turn[k] = W(turn[k - 1], ws[k])
  <2>1. 1 .. k \in SUBSET (1 .. n) /\ 1 .. k # {} /\ k \in 1 .. k
    <3>1. k \in 1 .. k /\ \A i \in 1 .. k : i \in 1 .. n
      OBVIOUS
    <3> QED
      BY <3>1
  <2>2. Max(1 .. k) = k
    <3>1. Max(1 .. k) \in 1 .. k /\ \A i \in 1 .. k : Max(1 .. k) >= i
      BY <2>1, LastPosition
    <3> QED
      BY <2>1, <3>1
  <2>3. (1 .. k) \ {k} = 1 .. k - 1
    OBVIOUS
  <2>4. it[1 .. k] = W(it[(1 .. k) \ {Max(1 .. k)}], ws[Max(1 .. k)])
    BY <1>3, <2>1
  <2>5. it[1 .. k] = W(it[1 .. k - 1], ws[k])
    BY <2>2, <2>3, <2>4
  <2>6. k \in 0 .. n /\ k - 1 \in 0 .. n
    OBVIOUS
  <2> QED
    BY <2>5, <2>6
<1>6. turn[n] = Applied(ws, day)
  <2>1. n \in 0 .. n
    OBVIOUS
  <2> QED
    BY <1>3, <2>1
<1> QED
  BY <1>4, <1>5, <1>6, Zenon DEF W

\* What the first e waivers come to on a day, if each of them matches at most
\* one finding, and that no other of them does.
MatchedBy(w) == {i \in DOMAIN found : Matches(w, found[i])}

Exact(ws, e) ==
  \A j \in 1 .. e :
    /\ ~(Cardinality(MatchedBy(ws[j])) > 1)
    /\ \A k \in 1 .. j - 1 : MatchedBy(ws[j]) \intersect MatchedBy(ws[k]) = {}

WaivedBy(ws, e, day) ==
  UNION {MatchedBy(ws[j]) \X {ws[j].id} : j \in {k \in 1 .. e : ~Expired(ws[k], day)}}

NoticesOf(ws, e, day) ==
  {<<"WAIVER.EXPIRED", ws[j].id>> : j \in {k \in 1 .. e : Expired(ws[k], day)}}
    \union {<<"WAIVER.UNUSED", ws[j].id>> :
              j \in {k \in 1 .. e : ~Expired(ws[k], day) /\ MatchedBy(ws[k]) = {}}}

OutcomeOf(ws, e, day) ==
  [waived |-> WaivedBy(ws, e, day), matched |-> UNION {MatchedBy(ws[j]) : j \in 1 .. e},
   notices |-> NoticesOf(ws, e, day), refused |-> FALSE]

\* What one waiver adds to them.
WaivedNow(w, day) == IF Expired(w, day) THEN {} ELSE MatchedBy(w) \X {w.id}

NoticesNow(w, day) ==
  IF Expired(w, day) THEN {<<"WAIVER.EXPIRED", w.id>>}
  ELSE IF MatchedBy(w) = {} THEN {<<"WAIVER.UNUSED", w.id>>} ELSE {}

\* The next waiver is not exact.
RefusedAfter(ws, e, day) == [OutcomeOf(ws, e, day) EXCEPT !.refused = TRUE]

\* One more exact waiver.
LEMMA ExactNext ==
  ASSUME NEW ws, NEW k \in Nat, Exact(ws, k)
  PROVE  Exact(ws, k + 1) <=>
           /\ ~(Cardinality(MatchedBy(ws[k + 1])) > 1)
           /\ MatchedBy(ws[k + 1]) \intersect UNION {MatchedBy(ws[j]) : j \in 1 .. k} = {}
<1> DEFINE now == MatchedBy(ws[k + 1])
           Alone(j) == /\ ~(Cardinality(MatchedBy(ws[j])) > 1)
                       /\ \A l \in 1 .. j - 1 : MatchedBy(ws[j]) \intersect MatchedBy(ws[l]) = {}
<1>1. \A j \in 1 .. k + 1 : j \in 1 .. k \/ j = k + 1
  OBVIOUS
<1>2. 1 .. k \subseteq 1 .. k + 1 /\ k + 1 \in 1 .. k + 1 /\ 1 .. (k + 1) - 1 = 1 .. k
  OBVIOUS
<1>3. Exact(ws, k + 1) <=> (\A j \in 1 .. k : Alone(j)) /\ Alone(k + 1)
  <2> HIDE DEF Alone
  <2>1. Exact(ws, k + 1) <=> \A j \in 1 .. k + 1 : Alone(j)
    BY Zenon DEF Exact, Alone
  <2> QED
    BY <1>1, <1>2, <2>1
<1>4. \A j \in 1 .. k : Alone(j)
  BY Zenon DEF Exact
<1>5. Alone(k + 1) <=> ~(Cardinality(now) > 1) /\ \A l \in 1 .. k : now \intersect MatchedBy(ws[l]) = {}
  BY <1>2
<1>6. (\A l \in 1 .. k : now \intersect MatchedBy(ws[l]) = {})
        <=> now \intersect UNION {MatchedBy(ws[j]) : j \in 1 .. k} = {}
  <2> HIDE DEF now
  <2> QED
    OBVIOUS
<1> HIDE DEF Alone, now
<1>7. Exact(ws, k + 1) <=> ~(Cardinality(now) > 1) /\ now \intersect UNION {MatchedBy(ws[j]) : j \in 1 .. k} = {}
  BY <1>3, <1>4, <1>5, <1>6
<1> QED
  BY <1>7 DEF now

\* What one more exact waiver adds.
LEMMA OutcomeNext ==
  ASSUME NEW ws, NEW k \in Nat, NEW day
  PROVE  /\ UNION {MatchedBy(ws[j]) : j \in 1 .. k + 1}
              = (UNION {MatchedBy(ws[j]) : j \in 1 .. k}) \union MatchedBy(ws[k + 1])
         /\ WaivedBy(ws, k + 1, day) = WaivedBy(ws, k, day) \union WaivedNow(ws[k + 1], day)
         /\ NoticesOf(ws, k + 1, day) = NoticesOf(ws, k, day) \union NoticesNow(ws[k + 1], day)
<1> DEFINE w == ws[k + 1]
           expired(j) == Expired(ws[j], day)
           M(j) == MatchedBy(ws[j])
           all(e) == {j \in 1 .. e : ~expired(j)}
           old(e) == {j \in 1 .. e : expired(j)}
           idle(e) == {j \in 1 .. e : ~expired(j) /\ M(j) = {}}
<1>1. 1 .. k + 1 = (1 .. k) \union {k + 1}
  OBVIOUS
<1> HIDE DEF expired, M
<1>2. all(k + 1) = all(k) \union (IF expired(k + 1) THEN {} ELSE {k + 1})
  BY <1>1
<1>3. old(k + 1) = old(k) \union (IF expired(k + 1) THEN {k + 1} ELSE {})
  BY <1>1
<1>4. idle(k + 1) = idle(k) \union (IF ~expired(k + 1) /\ M(k + 1) = {} THEN {k + 1} ELSE {})
  BY <1>1
<1>5. UNION {M(j) : j \in 1 .. k + 1} = (UNION {M(j) : j \in 1 .. k}) \union M(k + 1)
  <2>1. \A x : /\ x \in UNION {M(j) : j \in 1 .. k + 1} <=> \E j \in 1 .. k + 1 : x \in M(j)
              /\ x \in UNION {M(j) : j \in 1 .. k} <=> \E j \in 1 .. k : x \in M(j)
    BY Zenon
  <2>2. \A x : (\E j \in 1 .. k + 1 : x \in M(j)) <=> (\E j \in 1 .. k : x \in M(j)) \/ x \in M(k + 1)
    <3>1. \A j : j \in 1 .. k + 1 <=> j \in 1 .. k \/ j = k + 1
      BY <1>1
    <3> QED
      BY <3>1, Zenon
  <2> QED
    BY <2>1, <2>2, Zenon
<1>6. UNION {M(j) \X {ws[j].id} : j \in all(k + 1)}
        = (UNION {M(j) \X {ws[j].id} : j \in all(k)}) \union (IF expired(k + 1) THEN {} ELSE M(k + 1) \X {w.id})
  <2> DEFINE F(j) == M(j) \X {ws[j].id}
  <2> HIDE DEF F, all
  <2>1. UNION {F(j) : j \in all(k + 1)}
          = (UNION {F(j) : j \in all(k)}) \union (IF expired(k + 1) THEN {} ELSE F(k + 1))
    <3>1. \A x : /\ x \in UNION {F(j) : j \in all(k + 1)} <=> \E j \in all(k + 1) : x \in F(j)
                /\ x \in UNION {F(j) : j \in all(k)} <=> \E j \in all(k) : x \in F(j)
      BY Zenon
    <3>2. \A x : (\E j \in all(k + 1) : x \in F(j))
                  <=> (\E j \in all(k) : x \in F(j)) \/ (~expired(k + 1) /\ x \in F(k + 1))
      <4>1. \A j : j \in all(k + 1) <=> j \in all(k) \/ (j = k + 1 /\ ~expired(k + 1))
        BY <1>2
      <4> QED
        BY <4>1, Zenon
    <3> QED
      BY <3>1, <3>2
  <2> QED
    BY <2>1, Zenon DEF F
<1>7. {<<"WAIVER.EXPIRED", ws[j].id>> : j \in old(k + 1)}
        = {<<"WAIVER.EXPIRED", ws[j].id>> : j \in old(k)}
            \union (IF expired(k + 1) THEN {<<"WAIVER.EXPIRED", w.id>>} ELSE {})
  <2> HIDE DEF old
  <2> QED
    BY <1>3
<1>8. {<<"WAIVER.UNUSED", ws[j].id>> : j \in idle(k + 1)}
        = {<<"WAIVER.UNUSED", ws[j].id>> : j \in idle(k)}
            \union (IF ~expired(k + 1) /\ M(k + 1) = {} THEN {<<"WAIVER.UNUSED", w.id>>} ELSE {})
  <2> HIDE DEF idle
  <2> QED
    BY <1>4
<1>9. NoticesOf(ws, k + 1, day)
        = NoticesOf(ws, k, day)
            \union (IF expired(k + 1) THEN {<<"WAIVER.EXPIRED", w.id>>}
                    ELSE IF M(k + 1) = {} THEN {<<"WAIVER.UNUSED", w.id>>} ELSE {})
  <2>1. /\ NoticesOf(ws, k + 1, day) = {<<"WAIVER.EXPIRED", ws[j].id>> : j \in old(k + 1)}
                                         \union {<<"WAIVER.UNUSED", ws[j].id>> : j \in idle(k + 1)}
        /\ NoticesOf(ws, k, day) = {<<"WAIVER.EXPIRED", ws[j].id>> : j \in old(k)}
                                     \union {<<"WAIVER.UNUSED", ws[j].id>> : j \in idle(k)}
    BY Zenon DEF NoticesOf, expired, M
  <2> HIDE DEF old, idle, w
  <2> QED
    BY <1>7, <1>8, <2>1
<1>10. WaivedBy(ws, k + 1, day) = WaivedBy(ws, k, day) \union (IF expired(k + 1) THEN {} ELSE M(k + 1) \X {w.id})
  BY <1>6, Zenon DEF WaivedBy, expired, M
<1> QED
  BY <1>5, <1>9, <1>10 DEF expired, M, WaivedNow, NoticesNow

\* What the turn of an exact waiver does.
LEMMA WaiveExact ==
  ASSUME NEW waived, NEW matched, NEW notices, NEW refused, NEW w, NEW day, ~refused,
         ~(Cardinality(MatchedBy(w)) > 1), MatchedBy(w) \intersect matched = {}
  PROVE  Waive([waived |-> waived, matched |-> matched, notices |-> notices, refused |-> refused], w, day)
           = [waived |-> waived \union WaivedNow(w, day), matched |-> matched \union MatchedBy(w),
              notices |-> notices \union NoticesNow(w, day), refused |-> refused]
<1> DEFINE matches == MatchedBy(w)
           expired == Expired(w, day)
           done == [waived |-> waived, matched |-> matched, notices |-> notices, refused |-> refused]
           now == [done EXCEPT !.matched = @ \union matches]
<1>1. Waive(done, w, day)
        = IF done.refused THEN done
          ELSE IF Cardinality(matches) > 1 \/ matches \intersect done.matched # {}
          THEN [done EXCEPT !.refused = TRUE]
          ELSE IF expired THEN [now EXCEPT !.notices = @ \union {<<"WAIVER.EXPIRED", w.id>>}]
          ELSE IF matches = {} THEN [now EXCEPT !.notices = @ \union {<<"WAIVER.UNUSED", w.id>>}]
          ELSE [now EXCEPT !.waived = @ \union (matches \X {w.id})]
  BY Zenon DEF Waive, MatchedBy
<1>a. ~done.refused
  OBVIOUS
<1>b. ~(Cardinality(matches) > 1 \/ matches \intersect done.matched # {})
  OBVIOUS
<1> HIDE DEF matches, expired
<1>2. now = [waived |-> waived, matched |-> matched \union matches,
             notices |-> notices, refused |-> refused]
  OBVIOUS
<1> HIDE DEF done
<1>3. Waive(done, w, day)
        = IF expired THEN [now EXCEPT !.notices = @ \union {<<"WAIVER.EXPIRED", w.id>>}]
          ELSE IF matches = {} THEN [now EXCEPT !.notices = @ \union {<<"WAIVER.UNUSED", w.id>>}]
          ELSE [now EXCEPT !.waived = @ \union (matches \X {w.id})]
  BY <1>1, <1>a, <1>b, Zenon
<1> HIDE DEF now
<1>4. CASE expired
  BY <1>2, <1>3, <1>4, SMTT(30) DEF matches, expired, done, WaivedNow, NoticesNow
<1>5. CASE ~expired /\ matches = {}
  BY <1>2, <1>3, <1>5, SMTT(30) DEF matches, expired, done, WaivedNow, NoticesNow
<1>6. CASE ~expired /\ matches # {}
  BY <1>2, <1>3, <1>6, Zenon DEF matches, expired, done, WaivedNow, NoticesNow
<1> QED
  BY <1>4, <1>5, <1>6

\* What _apply_waivers comes to: the waivers up to the first that is not exact
\* are applied, and the bundle is refused if there is one.
LEMMA AppliedIs ==
  ASSUME NEW ws, NEW n \in Nat, DOMAIN ws = 1 .. n, NEW day
  PROVE  \E e \in 0 .. n :
           /\ Exact(ws, e)
           /\ \/ e < n /\ ~Exact(ws, e + 1) /\ Applied(ws, day) = RefusedAfter(ws, e, day)
              \/ e = n /\ Applied(ws, day) = OutcomeOf(ws, e, day)
<1>1. PICK turn : /\ turn[0] = NoWaivers
                  /\ \A k \in 1 .. n : turn[k] = Waive(turn[k - 1], ws[k], day)
                  /\ Applied(ws, day) = turn[n]
  BY AppliedInTurn
<1> DEFINE After(k, e) ==
             /\ Exact(ws, e)
             /\ \/ e < k /\ ~Exact(ws, e + 1) /\ turn[k] = RefusedAfter(ws, e, day)
                \/ e = k /\ turn[k] = OutcomeOf(ws, e, day)
           S == {k \in Nat : k <= n => \E e \in 0 .. k : After(k, e)}
<1>2. 0 \in S
  <2>1. 1 .. 0 = {} /\ 0 \in 0 .. 0
    OBVIOUS
  <2>2. Exact(ws, 0)
    BY <2>1 DEF Exact
  <2>3. OutcomeOf(ws, 0, day) = NoWaivers
    BY <2>1 DEF OutcomeOf, WaivedBy, NoticesOf, NoWaivers
  <2>4. After(0, 0)
    BY <1>1, <2>2, <2>3
  <2> HIDE DEF After
  <2> QED
    BY <2>1, <2>4
<1>3. ASSUME NEW k \in S PROVE k + 1 \in S
  <2> SUFFICES ASSUME k + 1 <= n PROVE \E e \in 0 .. k + 1 : After(k + 1, e)
    <3> HIDE DEF After
    <3> QED
      OBVIOUS
  <2>1. PICK e \in 0 .. k : After(k, e)
    <3> HIDE DEF After
    <3> QED
      OBVIOUS
  <2> DEFINE w == ws[k + 1]
             now == MatchedBy(w)
             before == UNION {MatchedBy(ws[j]) : j \in 1 .. k}
  <2>2. k \in Nat /\ k + 1 \in 1 .. n /\ (k + 1) - 1 = k
    OBVIOUS
  <2>3. turn[k + 1] = Waive(turn[k], w, day)
    BY <1>1, <2>2
  <2>4. CASE e < k
    <3>1. turn[k].refused /\ turn[k] = RefusedAfter(ws, e, day)
      BY <2>1, <2>4 DEF OutcomeOf, RefusedAfter
    <3>2. turn[k + 1] = turn[k]
      BY <2>3, <3>1 DEF Waive
    <3>3. e \in 0 .. k + 1 /\ e < k + 1
      BY <2>2, <2>4
    <3>4. After(k + 1, e)
      BY <2>1, <2>4, <3>1, <3>2, <3>3
    <3> HIDE DEF After
    <3> QED
      BY <3>3, <3>4
  <2>5. CASE e = k
    <3>1. Exact(ws, k) /\ turn[k] = OutcomeOf(ws, k, day)
      BY <2>1, <2>5
    <3>2. Exact(ws, k + 1) <=> ~(Cardinality(now) > 1) /\ now \intersect before = {}
      BY <2>2, <3>1, ExactNext
    <3>3. /\ ~turn[k].refused /\ turn[k].matched = before
          /\ turn[k].waived = WaivedBy(ws, k, day) /\ turn[k].notices = NoticesOf(ws, k, day)
      BY <3>1 DEF OutcomeOf
    <3>4. CASE ~Exact(ws, k + 1)
      <4>1. now = {i \in DOMAIN found : Matches(w, found[i])}
        BY DEF MatchedBy
      <4> HIDE DEF now, before, w
      <4>3. Cardinality(now) > 1 \/ now \intersect before # {}
        BY <3>2, <3>4
      <4>4. turn[k + 1] = [turn[k] EXCEPT !.refused = TRUE]
        BY <2>3, <3>3, <4>1, <4>3 DEF Waive
      <4>5. turn[k + 1] = RefusedAfter(ws, k, day)
        BY <3>1, <4>4 DEF RefusedAfter
      <4>6. After(k + 1, k) /\ k \in 0 .. k + 1
        BY <2>2, <3>1, <3>4, <4>5
      <4> HIDE DEF After
      <4> QED
        BY <4>6
    <3>5. CASE Exact(ws, k + 1)
      <4> DEFINE added == WaivedNow(w, day)
                 said == NoticesNow(w, day)
      <4>1. now = {i \in DOMAIN found : Matches(w, found[i])}
        BY DEF MatchedBy
      <4>2. OutcomeOf(ws, k + 1, day)
              = [waived |-> WaivedBy(ws, k, day) \union added, matched |-> before \union now,
                 notices |-> NoticesOf(ws, k, day) \union said, refused |-> FALSE]
        <5>1. /\ UNION {MatchedBy(ws[j]) : j \in 1 .. k + 1} = before \union now
              /\ WaivedBy(ws, k + 1, day) = WaivedBy(ws, k, day) \union added
              /\ NoticesOf(ws, k + 1, day) = NoticesOf(ws, k, day) \union said
          <6>1. k \in Nat
            BY <2>2
          <6> QED
            BY <6>1, OutcomeNext DEF before, now, w
        <5> HIDE DEF now, before, w, added, said
        <5> QED
          BY <5>1 DEF OutcomeOf
      <4> HIDE DEF now, before, w
      <4>3. turn[k + 1] = [waived |-> turn[k].waived \union added, matched |-> before \union now,
                           notices |-> turn[k].notices \union said, refused |-> turn[k].refused]
        <5>1. turn[k] = [waived |-> turn[k].waived, matched |-> before,
                         notices |-> turn[k].notices, refused |-> turn[k].refused]
          BY <3>1 DEF OutcomeOf, before
        <5>2. ~(Cardinality(now) > 1) /\ now \intersect turn[k].matched = {}
          BY <3>2, <3>3, <3>5
        <5> DEFINE done == turn[k]
        <5> HIDE DEF done
        <5>3. Waive(done, w, day)
                = [waived |-> done.waived \union added, matched |-> before \union now,
                   notices |-> done.notices \union said, refused |-> done.refused]
          <6>1. ~(Cardinality(MatchedBy(w)) > 1) /\ MatchedBy(w) \intersect before = {}
            BY <3>3, <5>2 DEF now
          <6>2. Waive([waived |-> done.waived, matched |-> before, notices |-> done.notices, refused |-> done.refused], w, day)
                  = [waived |-> done.waived \union WaivedNow(w, day), matched |-> before \union MatchedBy(w),
                     notices |-> done.notices \union NoticesNow(w, day), refused |-> done.refused]
            BY <3>3, <6>1, WaiveExact, SMTT(30) DEF done
          <6> QED
            BY <5>1, <6>2 DEF done, now, added, said
        <5> QED
          BY <2>3, <5>3 DEF done
      <4>4. turn[k + 1] = OutcomeOf(ws, k + 1, day)
        <5>1. turn[k].refused = FALSE
          BY <3>1 DEF OutcomeOf
        <5> QED
          BY <3>3, <4>2, <4>3, <5>1
      <4>5. After(k + 1, k + 1) /\ k + 1 \in 0 .. k + 1
        BY <2>2, <3>5, <4>4
      <4> HIDE DEF After
      <4> QED
        BY <4>5
    <3> QED
      BY <3>4, <3>5
  <2> QED
    BY <2>1, <2>2, <2>4, <2>5
<1>4. n \in S
  <2>1. S \in SUBSET Nat
    OBVIOUS
  <2> HIDE DEF S
  <2> QED
    BY <1>2, <1>3, <2>1, SetOfAllNaturals
<1>5. PICK e \in 0 .. n : After(n, e)
  <2> HIDE DEF After
  <2> QED
    BY <1>4
<1> QED
  BY <1>1, <1>5

\* The first waivers of exact ones are exact.
LEMMA ExactPrefix ==
  ASSUME NEW ws, NEW e \in Nat, Exact(ws, e), NEW d \in 0 .. e
  PROVE  Exact(ws, d)
<1>1. 1 .. d \subseteq 1 .. e
  OBVIOUS
<1> QED
  BY <1>1, Zenon DEF Exact

\* Which waivers are exact is no question of the day.
LEMMA OneTurnForAllDays ==
  ASSUME NEW ws, NEW n \in Nat, DOMAIN ws = 1 .. n, NEW early, NEW late
  PROVE  \E e \in 0 .. n :
           \/ Applied(ws, early) = RefusedAfter(ws, e, early) /\ Applied(ws, late) = RefusedAfter(ws, e, late)
           \/ Applied(ws, early) = OutcomeOf(ws, e, early) /\ Applied(ws, late) = OutcomeOf(ws, e, late)
<1>1. PICK e \in 0 .. n :
           /\ Exact(ws, e)
           /\ \/ e < n /\ ~Exact(ws, e + 1) /\ Applied(ws, early) = RefusedAfter(ws, e, early)
              \/ e = n /\ Applied(ws, early) = OutcomeOf(ws, e, early)
  BY AppliedIs
<1>2. PICK f \in 0 .. n :
           /\ Exact(ws, f)
           /\ \/ f < n /\ ~Exact(ws, f + 1) /\ Applied(ws, late) = RefusedAfter(ws, f, late)
              \/ f = n /\ Applied(ws, late) = OutcomeOf(ws, f, late)
  BY AppliedIs
<1>3. ~(e < f)
  <2>1. ASSUME e < f PROVE FALSE
    <3>1. e < n /\ e + 1 \in 0 .. f /\ f \in Nat
      BY <2>1
    <3>2. Exact(ws, e + 1)
      BY <1>2, <3>1, ExactPrefix
    <3> QED
      BY <1>1, <3>1, <3>2
  <2> QED
    BY <2>1
<1>4. ~(f < e)
  <2>1. ASSUME f < e PROVE FALSE
    <3>1. f < n /\ f + 1 \in 0 .. e /\ e \in Nat
      BY <2>1
    <3>2. Exact(ws, f + 1)
      BY <1>1, <3>1, ExactPrefix
    <3> QED
      BY <1>2, <3>1, <3>2
  <2> QED
    BY <2>1
<1>5. e = f
  BY <1>3, <1>4
<1> QED
  BY <1>1, <1>2, <1>5

\* What a waiver covers on a later day it covers before, and a notice is
\* answered by one about the same waiver.
LEMMA LaterWaivesLess ==
  ASSUME NEW ws \in Seq(Waivers), NEW e \in 0 .. Len(ws), NEW early \in Int, NEW late \in Int, early <= late
  PROVE  /\ WaivedBy(ws, e, late) \subseteq WaivedBy(ws, e, early)
         /\ NoticesOf(ws, e, early) # {} => NoticesOf(ws, e, late) # {}
<1>1. \A k \in 1 .. e : Expired(ws[k], early) => Expired(ws[k], late)
  <2>1. \A k \in 1 .. e : ws[k] \in Waivers
    OBVIOUS
  <2>2. \A w \in Waivers : w.expires \in Int
    BY DEF Waivers
  <2> QED
    BY <2>1, <2>2 DEF Expired
<1> DEFINE Cover(j) == MatchedBy(ws[j]) \X {ws[j].id}
<1>2. WaivedBy(ws, e, late) \subseteq WaivedBy(ws, e, early)
  <2>1. /\ WaivedBy(ws, e, late) = UNION {Cover(j) : j \in {k \in 1 .. e : ~Expired(ws[k], late)}}
        /\ WaivedBy(ws, e, early) = UNION {Cover(j) : j \in {k \in 1 .. e : ~Expired(ws[k], early)}}
    BY Zenon DEF WaivedBy
  <2>2. {k \in 1 .. e : ~Expired(ws[k], late)} \subseteq {k \in 1 .. e : ~Expired(ws[k], early)}
    BY <1>1
  <2> HIDE DEF Cover
  <2> QED
    BY <2>1, <2>2
<1>3. ASSUME NoticesOf(ws, e, early) # {} PROVE NoticesOf(ws, e, late) # {}
  <2>1. PICK k \in 1 .. e : Expired(ws[k], early) \/ MatchedBy(ws[k]) = {}
    BY <1>3 DEF NoticesOf
  <2>2. Expired(ws[k], late) \/ (~Expired(ws[k], late) /\ MatchedBy(ws[k]) = {})
    BY <1>1, <2>1
  <2>3. <<"WAIVER.EXPIRED", ws[k].id>> \in NoticesOf(ws, e, late)
           \/ <<"WAIVER.UNUSED", ws[k].id>> \in NoticesOf(ws, e, late)
    BY <2>2 DEF NoticesOf
  <2> QED
    BY <2>3
<1> QED
  BY <1>2, <1>3

-----------------------------------------------------------------------------
(* The invariant. *)

USE LimitAssumption, DataAssumption

Evidence == [path : Paths, size : Nat, text : Texts]
Finding == [id : Paths \X Keys, severity : DOMAIN Rank]

\* The findings have their type, a file at hand is one of the manifest's, nothing
\* is digested before the manifest, and the total is within its limit once something has been digested.
Reading ==
  /\ found \in Seq(Finding)
  /\ pc \in {"measure", "read"} => at <= Len(Records)
  /\ pc = "manifest" => evidence = <<>>
  /\ evidence # <<>> => total <= MaxTotalBytes

\* The findings are those of the digested reports.
IdsIn(path, text) == {<<path, e.key>> : e \in ToSet(text.found)}
Judged ==
  {f.id : f \in ToSet(found)} =
    UNION {IdsIn(evidence[i].path, evidence[i].text) : i \in {j \in DOMAIN evidence : IsReport(j)}}

Measured == \A i \in DOMAIN evidence : evidence[i].size = evidence[i].text.bytes

IInv == TypeOK /\ Reading /\ Judged /\ Measured

-----------------------------------------------------------------------------
\* What a sequence of members of S is.
LEMMA SeqMembers ==
  ASSUME NEW S, NEW s \in Seq(S)
  PROVE  /\ DOMAIN s = 1 .. Len(s) /\ Len(s) \in Nat
         /\ \A i \in DOMAIN s : s[i] \in S
OBVIOUS

\* A greatest member of a set of ranks is one of its members.
LEMMA MaxOfRanks ==
  ASSUME NEW S \in SUBSET {0, 1, 2}, 0 \in S
  PROVE  Max(S) \in S /\ \A r \in S : Max(S) >= r
<1>1. \E x \in S : \A y \in S : x >= y
  <2>1. CASE 2 \in S
    BY <2>1
  <2>2. CASE 2 \notin S /\ 1 \in S
    BY <2>2
  <2>3. CASE 2 \notin S /\ 1 \notin S
    BY <2>3
  <2> QED
    BY <2>1, <2>2, <2>3
<1> QED
  BY <1>1 DEF Max

\* The ranks a decision is taken over.
LEMMA DecisionOfRanks ==
  ASSUME TypeOK, Reading, NEW applied
  PROVE  /\ Decision(applied) \in {0, 1, 2}
         /\ LineageFindings \union IntegrityFindings # {} => Decision(applied) = 2
<1> DEFINE waived == {pair[1] : pair \in applied.waived}
           active == {Rank[found[i].severity] : i \in DOMAIN found \ waived}
           notices == {1 : n \in applied.notices}
           extra == LineageFindings \union IntegrityFindings
           lineage == {2 : f \in extra}
           S == {0} \union active \union notices \union lineage
<1>1. active \subseteq {0, 1, 2}
  <2>1. \A i \in DOMAIN found : found[i].severity \in DOMAIN Rank
    <3>1. found \in Seq(Finding)
      BY DEF Reading
    <3>2. \A i \in DOMAIN found : found[i] \in Finding
      BY <3>1, SeqMembers
    <3> QED
      BY <3>2 DEF Finding
  <2>2. \A r \in DOMAIN Rank : Rank[r] \in {0, 1, 2}
    BY DEF Rank
  <2> QED
    BY <2>1, <2>2
<1>2. S \in SUBSET {0, 1, 2} /\ 0 \in S
  BY <1>1
<1>3. Max(S) \in S /\ \A r \in S : Max(S) >= r
  BY <1>2, MaxOfRanks
<1>4. Decision(applied) = Max(S)
  BY DEF Decision
<1>5. extra # {} => 2 \in S
  OBVIOUS
<1> SUFFICES Max(S) \in {0, 1, 2} /\ (extra # {} => Max(S) = 2)
  BY <1>4
<1> HIDE DEF S, extra
<1>6. Max(S) \in {0, 1, 2}
  BY <1>2, <1>3
<1> QED
  BY <1>3, <1>5, <1>6

\* Records are of the manifest's artifacts and reports.
LEMMA RecordPaths ==
  ASSUME manifest \in Manifests
  PROVE  /\ Len(Records) \in Nat
         /\ \A i \in 1 .. Len(Records) : Records[i].path \in Paths
<1>1. manifest.artifacts \in Seq(Artifacts) /\ manifest.reports \in Seq(Reports)
  BY DEF Manifests
<1>2. manifest.artifacts \in Seq(Artifacts \union Reports) /\ manifest.reports \in Seq(Artifacts \union Reports)
  BY <1>1
<1>3. Records \in Seq(Artifacts \union Reports)
  BY <1>2, ConcatProperties DEF Records
<1>4. \A r \in Artifacts \union Reports : r.path \in Paths
  BY DEF Artifacts, Reports
<1> QED
  BY <1>3, <1>4

\* The findings of a text have their type, and are those of its report.
LEMMA FindingsOfText ==
  ASSUME NEW text \in Texts, NEW p \in Paths, Records[at].path = p
  PROVE  /\ FindingsIn(text) \in Seq(Finding)
         /\ {f.id : f \in ToSet(FindingsIn(text))} = IdsIn(p, text)
<1> DEFINE r == text.found
           s == FindingsIn(text)
<1>1. r \in Seq([key : Keys, severity : DOMAIN Rank])
  OBVIOUS
<1>2. /\ DOMAIN r = 1 .. Len(r) /\ Len(r) \in Nat
      /\ \A i \in DOMAIN r : r[i] \in [key : Keys, severity : DOMAIN Rank]
  BY <1>1, SeqMembers
<1>3. s = [i \in DOMAIN r |-> [id |-> <<p, r[i].key>>, severity |-> r[i].severity]]
  BY DEF FindingsIn
<1> HIDE DEF r, s
<1>4. \A i \in DOMAIN r : [id |-> <<p, r[i].key>>, severity |-> r[i].severity] \in Finding
  BY <1>2 DEF Finding
<1>5. s \in Seq(Finding)
  BY <1>2, <1>3, <1>4
<1>6. DOMAIN s = DOMAIN r /\ \A i \in DOMAIN r : s[i].id = <<p, r[i].key>>
  BY <1>3
<1>7. {f.id : f \in ToSet(s)} = {<<p, e.key>> : e \in ToSet(r)}
  <2>1. \A f \in ToSet(s) : \E e \in ToSet(r) : f.id = <<p, e.key>>
    BY <1>6 DEF ToSet
  <2>2. \A e \in ToSet(r) : \E f \in ToSet(s) : f.id = <<p, e.key>>
    BY <1>6 DEF ToSet
  <2> QED
    BY <2>1, <2>2
<1> QED
  BY <1>5, <1>7 DEF IdsIn, r, s

\* The members of two sequences put one after the other.
LEMMA ToSetOfConcat ==
  ASSUME NEW S, NEW s \in Seq(S), NEW t \in Seq(S)
  PROVE  ToSet(s \o t) = ToSet(s) \union ToSet(t)
<1> DEFINE c == s \o t
<1>1. /\ Len(c) = Len(s) + Len(t) /\ c \in Seq(S)
      /\ \A i \in 1 .. Len(s) + Len(t) : c[i] = IF i <= Len(s) THEN s[i] ELSE t[i - Len(s)]
  BY ConcatProperties
<1> HIDE DEF c
<1>2. /\ DOMAIN s = 1 .. Len(s) /\ DOMAIN t = 1 .. Len(t) /\ DOMAIN c = 1 .. Len(s) + Len(t)
      /\ Len(s) \in Nat /\ Len(t) \in Nat
  BY <1>1, SeqMembers
<1>3. \A i \in DOMAIN c : c[i] \in ToSet(s) \union ToSet(t)
  <2> SUFFICES ASSUME NEW i \in DOMAIN c PROVE c[i] \in ToSet(s) \union ToSet(t)
    OBVIOUS
  <2>1. CASE i <= Len(s)
    BY <1>1, <1>2, <2>1 DEF ToSet
  <2>2. CASE i > Len(s)
    <3>1. i - Len(s) \in DOMAIN t /\ c[i] = t[i - Len(s)]
      BY <1>1, <1>2, <2>2
    <3> QED
      BY <3>1 DEF ToSet
  <2> QED
    BY <1>1, <1>2, <2>1, <2>2
<1>4. \A i \in DOMAIN s : i \in DOMAIN c /\ c[i] = s[i]
  BY <1>1, <1>2
<1>5. \A i \in DOMAIN t : Len(s) + i \in DOMAIN c /\ c[Len(s) + i] = t[i]
  BY <1>1, <1>2
<1>6. ToSet(c) \subseteq ToSet(s) \union ToSet(t)
  BY <1>3 DEF ToSet
<1>7. ToSet(s) \subseteq ToSet(c) /\ ToSet(t) \subseteq ToSet(c)
  BY <1>4, <1>5 DEF ToSet
<1> QED
  BY <1>6, <1>7 DEF c

\* Nothing is judged anew while manifest, findings and evidence stay.
LEMMA JudgedKept ==
  ASSUME Judged, Measured, UNCHANGED <<manifest, found, evidence>>
  PROVE  Judged' /\ Measured'
<1>1. Measured'
  BY DEF Measured
<1>2. Judged'
  BY DEF Judged, IsReport
<1> QED
  BY <1>1, <1>2

-----------------------------------------------------------------------------
\* The invariant holds when the gate starts.
LEMMA InitIInv == Init => IInv
<1> SUFFICES ASSUME Init PROVE IInv
  OBVIOUS
<1> USE DEF Init
<1>1. manifest \in Manifests /\ disk \in [Paths -> Files \union {Gone}] /\ holds \in [Files -> Texts]
  OBVIOUS
<1>2. TypeOK
  BY <1>1, RecordPaths DEF TypeOK
<1>3. Reading /\ Judged /\ Measured
  BY DEF Reading, Judged, Measured, ToSet
<1> QED
  BY <1>2, <1>3 DEF IInv

\* Reading a file keeps the invariant: what is appended is of one text.
LEMMA ReadKeeps == IInv /\ Read /\ pc' # "refused" => IInv'
<1> SUFFICES ASSUME IInv, Read, pc' # "refused" PROVE IInv'
  OBVIOUS
<1> DEFINE p == Records[at].path
           text == holds[disk[p]]
           e == [path |-> p, size |-> size, text |-> text]
<1>1. /\ pc = "read" /\ at <= Len(Records) /\ Len(evidence) = at - 1
      /\ at \in Nat \ {0} /\ total \in Nat /\ size \in Nat
  <2>1. pc = "read"
    BY DEF Read
  <2>2. at <= Len(Records)
    BY <2>1 DEF IInv, Reading
  <2>3. Len(Records) \in Nat /\ at \in 1 .. Len(Records) + 1
    BY RecordPaths DEF IInv, TypeOK
  <2>4. Len(evidence) = at - 1 /\ total \in Nat /\ size \in Nat
    BY DEF IInv, TypeOK
  <2> QED
    BY <2>1, <2>2, <2>3, <2>4
<1>2. p \in Paths
  BY <1>1, RecordPaths DEF IInv, TypeOK
<1>3. /\ disk[p] # Gone /\ Fits(text) /\ evidence' = Append(evidence, e) /\ total' = total + size
      /\ found' = IF IsReport(at) THEN found \o FindingsIn(text) ELSE found
      /\ at' = at + 1 /\ pc' = "claim"
      /\ UNCHANGED <<files, input, claimed, size, verdict>>
  BY DEF Read, Refuse
<1>4. text \in Texts
  BY <1>2, <1>3 DEF IInv, TypeOK
<1>5. e \in Evidence /\ evidence \in Seq(Evidence)
  BY <1>1, <1>2, <1>4 DEF Evidence, IInv, TypeOK
<1>6. /\ evidence' \in Seq(Evidence) /\ Len(evidence') = at
      /\ \A i \in 1 .. at - 1 : evidence'[i] = evidence[i]
      /\ evidence'[at] = e
      /\ DOMAIN evidence' = (1 .. at - 1) \union {at}
  <2> HIDE DEF e
  <2>1. /\ evidence' \in Seq(Evidence) /\ Len(evidence') = Len(evidence) + 1
        /\ \A i \in 1 .. Len(evidence) : evidence'[i] = evidence[i]
        /\ evidence'[Len(evidence) + 1] = e
    BY <1>3, <1>5, AppendProperties
  <2> QED
    BY <1>1, <2>1
<1>7. /\ FindingsIn(text) \in Seq(Finding)
      /\ {f.id : f \in ToSet(FindingsIn(text))} = IdsIn(p, text)
  BY <1>2, <1>4, FindingsOfText
<1>8. found \in Seq(Finding)
  BY DEF IInv, Reading
<1>9. /\ manifest' = manifest /\ Records' = Records
      /\ \A i : IsReport(i)' <=> IsReport(i)
  BY <1>3 DEF input, Records, IsReport
<1> DEFINE S == Finding
<1>10. TypeOK'
  <2>1. Len(Records) \in Nat
    BY RecordPaths DEF IInv, TypeOK
  <2>2. at' \in 1 .. Len(Records') + 1 /\ Len(evidence') = at' - 1 /\ total' \in Nat
    <3> HIDE DEF p, text, e
    <3> QED
      BY <1>1, <1>3, <1>6, <1>9, <2>1
  <2>3. evidence' \in Seq([path : Paths, size : Nat, text : Texts])
    BY <1>6 DEF Evidence
  <2>4. pc' = "claim" /\ UNCHANGED <<disk, holds, edits, manifest, asOf, claimed, size, verdict>>
    BY <1>3 DEF files, input
  <2> HIDE DEF p, text, e
  <2> QED
    BY <1>9, <2>2, <2>3, <2>4 DEF IInv, TypeOK
<1>11. Reading'
  <2>1. found' \in Seq(Finding)
    BY <1>3, <1>7, <1>8, ConcatProperties
  <2> QED
    BY <1>1, <1>3, <2>1 DEF Reading, Fits
<1>12. Measured'
  <2>1. size = text.bytes
    BY <1>3 DEF Fits
  <2>2. \A i \in 1 .. at - 1 : evidence[i].size = evidence[i].text.bytes
    BY <1>1, <1>5 DEF IInv, Measured
  <2> QED
    BY <1>6, <2>1, <2>2 DEF Measured
<1>13. Judged'
  <2> DEFINE old == {i \in 1 .. at - 1 : IsReport(i)}
             new == {i \in (1 .. at - 1) \union {at} : IsReport(i)}
             Of(ev, is) == UNION {IdsIn(ev[i].path, ev[i].text) : i \in is}
  <2>1. {f.id : f \in ToSet(found)} = Of(evidence, old)
    <3>1. old = {i \in DOMAIN evidence : IsReport(i)}
      BY <1>1, <1>5
    <3> QED
      BY <3>1 DEF IInv, Judged
  <2>2. Of(evidence', old) = Of(evidence, old)
    BY <1>6
  <2>3. IdsIn(evidence'[at].path, evidence'[at].text) = IdsIn(p, text)
    BY <1>6
  <2>4. CASE IsReport(at)
    <3>1. new = old \union {at}
      BY <2>4
    <3>2. Of(evidence', new) = Of(evidence', old) \union IdsIn(p, text)
      BY <2>3, <3>1
    <3>3. ToSet(found') = ToSet(found) \union ToSet(FindingsIn(text))
      BY <1>3, <1>7, <1>8, <2>4, ToSetOfConcat
    <3>4. {f.id : f \in ToSet(found')} = {f.id : f \in ToSet(found)} \union IdsIn(p, text)
      BY <1>7, <3>3
    <3>5. {f.id : f \in ToSet(found')} = Of(evidence', new)
      BY <2>1, <2>2, <3>2, <3>4
    <3> QED
      BY <1>6, <1>9, <3>5 DEF Judged, ToSet
  <2>5. CASE ~IsReport(at)
    <3>1. new = old /\ found' = found
      BY <1>3, <2>5
    <3>2. {f.id : f \in ToSet(found')} = Of(evidence', new)
      BY <2>1, <2>2, <3>1
    <3> QED
      BY <1>6, <1>9, <3>2 DEF Judged, ToSet
  <2> QED
    BY <2>4, <2>5
<1> QED
  BY <1>10, <1>11, <1>12, <1>13 DEF IInv

\* Every step keeps the invariant.
LEMMA NextIInv == IInv /\ [Next]_vars => IInv'
<1> SUFFICES ASSUME IInv, [Next]_vars PROVE IInv'
  OBVIOUS
<1> USE DEF files, input, progress
<1>1. manifest \in Manifests /\ Len(Records) \in Nat /\ \A i \in 1 .. Len(Records) : Records[i].path \in Paths
  BY RecordPaths DEF IInv, TypeOK
<1>2. CASE UNCHANGED vars
  <2>1. UNCHANGED <<manifest, found, evidence>>
    BY <1>2 DEF vars
  <2>2. TypeOK' /\ Reading'
    BY <1>2 DEF vars, IInv, TypeOK, Reading, Records
  <2> QED
    BY <2>1, <2>2, JudgedKept DEF IInv
<1>3. CASE Refuse
  <2>1. UNCHANGED <<manifest, found, evidence>>
    BY <1>3 DEF Refuse
  <2>2. TypeOK' /\ Reading'
    BY <1>3 DEF Refuse, IInv, TypeOK, Reading, Records
  <2> QED
    BY <2>1, <2>2, JudgedKept DEF IInv
<1>4. CASE ReadManifest /\ ~Refuse
  <2>1. UNCHANGED <<manifest, found, evidence>>
    BY <1>4 DEF ReadManifest
  <2>2. Records' = Records
    BY <2>1 DEF Records
  <2>3. /\ pc' = "claim" /\ claimed' \subseteq Paths /\ total' \in Nat
        /\ UNCHANGED <<disk, holds, edits, manifest, asOf, at, size, evidence, found, verdict>>
        /\ evidence = <<>>
    BY <1>1, <1>4 DEF ReadManifest, IInv, TypeOK, Reading
  <2>4. TypeOK'
    BY <1>1, <2>2, <2>3 DEF IInv, TypeOK
  <2>5. Reading'
    BY <2>2, <2>3 DEF IInv, Reading
  <2> QED
    BY <2>1, <2>4, <2>5, JudgedKept DEF IInv
<1>5. CASE Claim /\ ~Refuse
  <2>1. UNCHANGED <<manifest, found, evidence>>
    BY <1>5 DEF Claim
  <2>2. Records' = Records
    BY <2>1 DEF Records
  <2>3. /\ pc' = "measure" /\ claimed' \subseteq Paths /\ at <= Len(Records)
        /\ UNCHANGED <<disk, holds, edits, manifest, asOf, at, size, total, evidence, found, verdict>>
    BY <1>1, <1>5 DEF Claim, IInv, TypeOK
  <2>4. TypeOK'
    BY <1>1, <2>2, <2>3 DEF IInv, TypeOK
  <2>5. Reading'
    BY <2>2, <2>3 DEF IInv, Reading
  <2> QED
    BY <2>1, <2>4, <2>5, JudgedKept DEF IInv
<1>6. CASE Measure /\ ~Refuse
  <2>1. UNCHANGED <<manifest, found, evidence>>
    BY <1>6 DEF Measure
  <2>2. Records' = Records
    BY <2>1 DEF Records
  <2>3. /\ pc = "measure" /\ pc' = "read" /\ size' \in Nat
        /\ UNCHANGED <<disk, holds, edits, manifest, asOf, claimed, at, total, evidence, found, verdict>>
    <3>1. /\ pc = "measure" /\ pc' = "read" /\ size' = holds[disk[Records[at].path]].bytes
          /\ UNCHANGED <<disk, holds, edits, manifest, asOf, claimed, at, total, evidence, found, verdict>>
      BY <1>1, <1>6 DEF Measure
    <3>2. at <= Len(Records) /\ Records[at].path \in Paths
      BY <1>1, <3>1 DEF IInv, TypeOK, Reading
    <3>3. disk[Records[at].path] \in Files
      BY <1>6, <3>2 DEF Measure, IInv, TypeOK
    <3>4. holds[disk[Records[at].path]].bytes \in Nat
      BY <3>3 DEF IInv, TypeOK
    <3> QED
      BY <3>1, <3>4
  <2>4. TypeOK'
    BY <1>1, <2>2, <2>3 DEF IInv, TypeOK
  <2>5. Reading'
    BY <2>2, <2>3 DEF IInv, Reading
  <2> QED
    BY <2>1, <2>4, <2>5, JudgedKept DEF IInv
<1>7. CASE Read /\ ~Refuse
  BY <1>7, ReadKeeps DEF Read, Refuse
<1>8. CASE Decide /\ ~Refuse
  <2>1. UNCHANGED <<manifest, found, evidence>>
    BY <1>8 DEF Decide
  <2>2. Records' = Records
    BY <2>1 DEF Records
  <2>3. /\ pc' = "done" /\ verdict'.decision \in {0, 1, 2}
        /\ UNCHANGED <<disk, holds, edits, manifest, asOf, claimed, at, size, total, evidence, found>>
    BY <1>1, <1>8, DecisionOfRanks DEF Decide, IInv
  <2>4. TypeOK'
    BY <1>1, <2>2, <2>3 DEF IInv, TypeOK
  <2>5. Reading'
    BY <2>2, <2>3 DEF IInv, Reading
  <2> QED
    BY <2>1, <2>4, <2>5, JudgedKept DEF IInv
<1>9. CASE Edit
  <2>1. UNCHANGED <<manifest, found, evidence>>
    BY <1>9 DEF Edit
  <2>2. Records' = Records
    BY <2>1 DEF Records
  <2>3. /\ edits' \in 0 .. MaxEdits /\ disk' \in [Paths -> Files \union {Gone}] /\ holds' \in [Files -> Texts]
        /\ UNCHANGED <<manifest, asOf, claimed, at, size, total, evidence, found, verdict, pc>>
    <3>1. /\ edits \in 0 .. MaxEdits /\ disk \in [Paths -> Files \union {Gone}] /\ holds \in [Files -> Texts]
          /\ MaxEdits \in Nat
      BY DEF IInv, TypeOK
    <3>2. edits' \in 0 .. MaxEdits
      BY <1>9, <3>1 DEF Edit
    <3>3. disk' \in [Paths -> Files \union {Gone}] /\ holds' \in [Files -> Texts]
      BY <1>9, <3>1 DEF Edit
    <3> QED
      BY <1>9, <3>2, <3>3 DEF Edit, progress, input
  <2>4. TypeOK'
    BY <1>1, <2>2, <2>3 DEF IInv, TypeOK
  <2>5. Reading'
    BY <2>2, <2>3 DEF IInv, Reading
  <2> QED
    BY <2>1, <2>4, <2>5, JudgedKept DEF IInv
<1> QED
  BY <1>2, <1>3, <1>4, <1>5, <1>6, <1>7, <1>8, <1>9 DEF Next, Proceed

THEOREM Invariance == Spec => []IInv
BY InitIInv, NextIInv, PTL DEF Spec

\* Every variable of the gate keeps its type, and the decision is one of the
\* three, for any bundle and any changes to the directory.
THEOREM TypeCorrect == Spec => []TypeOK
<1>1. IInv => TypeOK
  BY DEF IInv
<1> QED
  BY <1>1, Invariance, PTL

\* What the gate judges is what it digested: sizes, findings and total are those
\* of the very texts whose digests it reports.
THEOREM JudgesWhatItDigests == Spec => []EvidenceIsConsistent
<1>1. IInv => EvidenceIsConsistent
  BY DEF IInv, Measured, Judged, Reading, EvidenceIsConsistent, IdsIn
<1> QED
  BY <1>1, Invariance, PTL

\* A decision is no milder where less is waived and a notice stays a notice.
LEMMA DecisionMonotone ==
  ASSUME TypeOK, Reading, NEW before, NEW after,
         after.waived \subseteq before.waived, before.notices # {} => after.notices # {}
  PROVE  Decision(before) <= Decision(after)
<1> DEFINE Waived(a) == {pair[1] : pair \in a.waived}
           Active(a) == {Rank[found[i].severity] : i \in DOMAIN found \ Waived(a)}
           Noticed(a) == {1 : n \in a.notices}
           lineage == {2 : f \in LineageFindings \union IntegrityFindings}
           Over(a) == {0} \union Active(a) \union Noticed(a) \union lineage
<1>1. \A i \in DOMAIN found : Rank[found[i].severity] \in {0, 1, 2}
  <2>1. \A i \in DOMAIN found : found[i].severity \in DOMAIN Rank
    <3>1. found \in Seq(Finding)
      BY DEF Reading
    <3>2. \A i \in DOMAIN found : found[i] \in Finding
      BY <3>1, SeqMembers
    <3> QED
      BY <3>2 DEF Finding
  <2>2. \A r \in DOMAIN Rank : Rank[r] \in {0, 1, 2}
    BY DEF Rank
  <2> QED
    BY <2>1, <2>2
<1>2. Active(before) \subseteq Active(after) /\ Noticed(before) \subseteq Noticed(after)
  <2>1. Waived(after) \subseteq Waived(before)
    OBVIOUS
  <2> HIDE DEF Waived
  <2> QED
    BY <2>1
<1>3. Active(before) \subseteq {0, 1, 2} /\ Active(after) \subseteq {0, 1, 2}
  <2> HIDE DEF Waived
  <2> QED
    BY <1>1
<1>4. Decision(before) = Max(Over(before)) /\ Decision(after) = Max(Over(after))
  BY DEF Decision
<1>5. Over(before) \subseteq Over(after) /\ Over(after) \in SUBSET {0, 1, 2} /\ 0 \in Over(before)
  <2> HIDE DEF Active
  <2> QED
    BY <1>2, <1>3
<1> HIDE DEF Over
<1>6. Max(Over(before)) \in Over(before)
  BY <1>5, MaxOfRanks
<1>7. \A r \in Over(after) : Max(Over(after)) >= r
  BY <1>5, MaxOfRanks
<1>8. Max(Over(after)) \in {0, 1, 2} /\ Max(Over(before)) \in {0, 1, 2}
  BY <1>5, MaxOfRanks
<1> QED
  BY <1>4, <1>5, <1>6, <1>7, <1>8

\* Time only makes the gate stricter: for evidence that has been read, what is
\* refused, denied or up for review on one day is so, or worse, on a later one.
THEOREM TimeOnlyHardens == Spec => []LaterIsNoMilder
<1>1. IInv => LaterIsNoMilder
  <2> SUFFICES ASSUME IInv, NEW early \in Days, NEW late \in Days, early <= late
               PROVE  /\ Applied(manifest.waivers, early).refused = Applied(manifest.waivers, late).refused
                      /\ Decision(Applied(manifest.waivers, early)) <= Decision(Applied(manifest.waivers, late))
    BY Zenon DEF LaterIsNoMilder
  <2> DEFINE ws == manifest.waivers
             before == Applied(ws, early)
             after == Applied(ws, late)
  <2>1. ws \in Seq(Waivers) /\ Len(ws) \in Nat /\ DOMAIN ws = 1 .. Len(ws) /\ early \in Int /\ late \in Int
    BY DEF IInv, TypeOK, Manifests
  <2> HIDE DEF ws
  <2>2. PICK e \in 0 .. Len(ws) :
           \/ before = RefusedAfter(ws, e, early) /\ after = RefusedAfter(ws, e, late)
           \/ before = OutcomeOf(ws, e, early) /\ after = OutcomeOf(ws, e, late)
    BY <2>1, OneTurnForAllDays
  <2>3. /\ before.refused = after.refused
        /\ before.waived = WaivedBy(ws, e, early) /\ after.waived = WaivedBy(ws, e, late)
        /\ before.notices = NoticesOf(ws, e, early) /\ after.notices = NoticesOf(ws, e, late)
    <3>1. \A day : /\ RefusedAfter(ws, e, day).refused /\ ~OutcomeOf(ws, e, day).refused
                   /\ RefusedAfter(ws, e, day).waived = WaivedBy(ws, e, day)
                   /\ RefusedAfter(ws, e, day).notices = NoticesOf(ws, e, day)
                   /\ OutcomeOf(ws, e, day).waived = WaivedBy(ws, e, day)
                   /\ OutcomeOf(ws, e, day).notices = NoticesOf(ws, e, day)
                   /\ RefusedAfter(ws, e, day).refused = TRUE /\ OutcomeOf(ws, e, day).refused = FALSE
      BY DEF RefusedAfter, OutcomeOf
    <3> HIDE DEF before, after
    <3> QED
      BY <2>2, <3>1
  <2>4. /\ WaivedBy(ws, e, late) \subseteq WaivedBy(ws, e, early)
        /\ NoticesOf(ws, e, early) # {} => NoticesOf(ws, e, late) # {}
    BY <2>1, LaterWaivesLess
  <2> HIDE DEF before, after
  <2>5. Decision(before) <= Decision(after)
    BY <2>3, <2>4, DecisionMonotone DEF IInv
  <2> QED
    BY <2>3, <2>5 DEF before, after, ws
<1> QED
  BY <1>1, Invariance, PTL
-----------------------------------------------------------------------------
(* What the decision rests on. *)

\* The place of the manifest and of each record.
PlaceOf(i) == IF i = 0 THEN ManifestPath ELSE Records[i].path

\* How many records have been claimed.
Taken == IF pc \in {"measure", "read"} THEN at ELSE at - 1

Begun == pc \notin {"manifest", "refused"}

\* Past the manifest it is valid, and the claims are those of the records so far.
Claims == Begun => Valid(manifest) /\ claimed = {PlaceOf(i) : i \in 0 .. Taken}

\* While nobody interferes the places claimed have a file each.
Apart ==
  Begun /\ edits = 0 =>
    \A i, j \in 0 .. Taken : disk[PlaceOf(i)] = disk[PlaceOf(j)] => i = j

Followed == \A i \in DOMAIN evidence : evidence[i].path = Records[i].path

\* What all the waivers come to today.
Waived == WaivedBy(manifest.waivers, Len(manifest.waivers), asOf)
Notices == NoticesOf(manifest.waivers, Len(manifest.waivers), asOf)
ExactAll == Exact(manifest.waivers, Len(manifest.waivers))

\* Nothing is left to review or to deny.
Clean ==
  /\ LineageFindings \union IntegrityFindings = {}
  /\ Notices = {}
  /\ \A i \in DOMAIN found : Rank[found[i].severity] > 0 => \E pair \in Waived : pair[1] = i

\* The verdict is about all that was read.
Decided ==
  pc = "done" =>
    /\ at = Len(Records) + 1
    /\ ExactAll /\ verdict.waived = Waived /\ verdict.notices = Notices
    /\ verdict.decision = 0 <=> Clean

Gate == Claims /\ Apart /\ Followed /\ Decided

-----------------------------------------------------------------------------
\* A bundle that is not refused has exact waivers, all of them applied.
LEMMA AllApplied ==
  ASSUME IInv, ~Applied(manifest.waivers, asOf).refused
  PROVE  /\ ExactAll
         /\ Applied(manifest.waivers, asOf).waived = Waived
         /\ Applied(manifest.waivers, asOf).notices = Notices
<1> DEFINE ws == manifest.waivers
           n == Len(ws)
<1>1. n \in Nat /\ DOMAIN ws = 1 .. n
  BY DEF IInv, TypeOK, Manifests
<1> HIDE DEF ws
<1>2. PICK e \in 0 .. n :
           /\ Exact(ws, e)
           /\ \/ e < n /\ ~Exact(ws, e + 1) /\ Applied(ws, asOf) = RefusedAfter(ws, e, asOf)
              \/ e = n /\ Applied(ws, asOf) = OutcomeOf(ws, e, asOf)
  BY <1>1, AppliedIs
<1>3. RefusedAfter(ws, e, asOf).refused = TRUE
  BY DEF RefusedAfter, OutcomeOf
<1>4. e = n /\ Applied(ws, asOf) = OutcomeOf(ws, e, asOf)
  BY <1>2, <1>3 DEF ws
<1> QED
  BY <1>2, <1>4 DEF ws, ExactAll, Waived, Notices, OutcomeOf

\* The gate allows when nothing is left.
LEMMA AllowMeansClean ==
  ASSUME TypeOK, Reading, NEW applied, applied.waived = Waived, applied.notices = Notices
  PROVE  Decision(applied) = 0 <=> Clean
<1> DEFINE waived == {pair[1] : pair \in Waived}
           active == {Rank[found[i].severity] : i \in DOMAIN found \ waived}
           notices == {1 : n \in Notices}
           extra == LineageFindings \union IntegrityFindings
           lineage == {2 : f \in extra}
           S == {0} \union active \union notices \union lineage
<1>1. \A i \in DOMAIN found : Rank[found[i].severity] \in {0, 1, 2}
  <2>1. \A i \in DOMAIN found : found[i].severity \in DOMAIN Rank
    <3>1. found \in Seq(Finding)
      BY DEF Reading
    <3>2. \A i \in DOMAIN found : found[i] \in Finding
      BY <3>1, SeqMembers
    <3> QED
      BY <3>2 DEF Finding
  <2>2. \A r \in DOMAIN Rank : Rank[r] \in {0, 1, 2}
    BY DEF Rank
  <2> QED
    BY <2>1, <2>2
<1>2. Decision(applied) = Max(S)
  BY DEF Decision
<1>3. S \in SUBSET {0, 1, 2} /\ 0 \in S
  BY <1>1
<1>4. Max(S) \in S /\ \A r \in S : Max(S) >= r
  BY <1>3, MaxOfRanks
<1>5. Max(S) = 0 <=> \A r \in S : r = 0
  <2> HIDE DEF S
  <2>1. \A r \in S : r \in {0, 1, 2}
    BY <1>3
  <2> QED
    BY <1>4, <2>1
<1>6. (\A r \in S : r = 0) <=> active \subseteq {0} /\ notices = {} /\ lineage = {}
  <2>1. \A r : (r \in notices => r = 1) /\ (r \in lineage => r = 2)
    OBVIOUS
  <2>2. \A r : r \in S <=> r = 0 \/ r \in active \/ r \in notices \/ r \in lineage
    OBVIOUS
  <2> HIDE DEF S, active, notices, lineage
  <2> QED
    BY <2>1, <2>2
<1>7. (notices = {} <=> Notices = {}) /\ (lineage = {} <=> extra = {})
  <2> HIDE DEF extra
  <2> QED
    OBVIOUS
<1>8. active \subseteq {0} <=> \A i \in DOMAIN found : Rank[found[i].severity] > 0 => \E pair \in Waived : pair[1] = i
  <2>1. \A i : i \in waived <=> \E pair \in Waived : pair[1] = i
    OBVIOUS
  <2> HIDE DEF waived
  <2>2. active \subseteq {0} <=> \A i \in DOMAIN found \ waived : Rank[found[i].severity] = 0
    OBVIOUS
  <2> HIDE DEF active
  <2> QED
    BY <1>1, <2>1, <2>2
<1> HIDE DEF S, active, notices, lineage
<1> QED
  BY <1>2, <1>5, <1>6, <1>7, <1>8 DEF Clean

\* What the decision rests on stays as long as the manifest, the day, the
\* findings and the evidence do.
LEMMA CleanStays ==
  ASSUME UNCHANGED <<manifest, asOf, found, evidence>>
  PROVE  /\ ExactAll' <=> ExactAll
         /\ Waived' = Waived /\ Notices' = Notices
         /\ Clean' <=> Clean
<1>1. \A w : MatchedBy(w)' = MatchedBy(w)
  BY DEF MatchedBy
<1>2. ExactAll' <=> ExactAll
  BY <1>1 DEF ExactAll, Exact
<1>3. Waived' = Waived
  BY <1>1 DEF Waived, WaivedBy
<1>4. Notices' = Notices
  BY <1>1 DEF Notices, NoticesOf
<1>5. \A r : KeepsContract(r)' <=> KeepsContract(r)
  <2>1. \A ids : KindsOf(ids)' = KindsOf(ids)
    BY DEF KindsOf
  <2> QED
    BY <2>1 DEF KeepsContract
<1>6. LineageFindings' = LineageFindings
  BY <1>5 DEF LineageFindings
<1>7. IntegrityFindings' = IntegrityFindings
  <2>1. \A ids : PathsOf(ids)' = PathsOf(ids)
    BY DEF PathsOf
  <2>2. \A j : (IsReport(j)' <=> IsReport(j)) /\ Report(j)' = Report(j)
    BY DEF IsReport, Report
  <2> QED
    BY <2>1, <2>2 DEF IntegrityFindings
<1>8. Clean' <=> Clean
  BY <1>3, <1>4, <1>6, <1>7 DEF Clean
<1> QED
  BY <1>2, <1>3, <1>4, <1>8
\* Records and places are those of the manifest, which nothing changes.
LEMMA PlacesStay ==
  ASSUME UNCHANGED manifest
  PROVE  /\ Records' = Records
         /\ \A i : PlaceOf(i)' = PlaceOf(i)
         /\ Valid(manifest)' <=> Valid(manifest)
<1>1. Records' = Records
  BY DEF Records
<1>2. \A i : PlaceOf(i)' = PlaceOf(i)
  BY <1>1 DEF PlaceOf
<1>3. Valid(manifest)' <=> Valid(manifest)
  OBVIOUS
<1> QED
  BY <1>1, <1>2, <1>3

\* What has been found out stays so while nothing is read and the gate goes on
\* with as many claims as it had.
LEMMA NothingTaken ==
  ASSUME Gate, UNCHANGED <<disk, edits, claimed, evidence, manifest>>,
         Begun, pc' \notin {"manifest", "done"}, Taken' = Taken
  PROVE  Gate'
<1>1. Records' = Records /\ (\A i : PlaceOf(i)' = PlaceOf(i)) /\ (Valid(manifest)' <=> Valid(manifest))
  BY PlacesStay
<1>2. Claims' /\ Apart'
  BY <1>1 DEF Gate, Claims, Apart
<1>3. Followed' /\ Decided'
  BY <1>1 DEF Gate, Followed, Decided
<1> QED
  BY <1>2, <1>3 DEF Gate

\* Every step keeps what the decision rests on.
LEMMA GateStep == IInv /\ Gate /\ [Next]_vars => Gate'
<1> SUFFICES ASSUME IInv, Gate, [Next]_vars PROVE Gate'
  OBVIOUS
<1> USE DEF files, input, progress
<1>0. /\ manifest \in Manifests /\ Len(Records) \in Nat /\ at \in 1 .. Len(Records) + 1
      /\ Len(evidence) = at - 1 /\ evidence \in Seq(Evidence)
  BY RecordPaths DEF IInv, TypeOK, Evidence
<1>a. UNCHANGED manifest => Records' = Records /\ (\A i : PlaceOf(i)' = PlaceOf(i)) /\ (Valid(manifest)' <=> Valid(manifest))
  BY PlacesStay
<1>1. CASE UNCHANGED vars
  <2>1. UNCHANGED <<manifest, asOf, found, evidence, disk, edits, claimed, at, pc, verdict>>
    BY <1>1 DEF vars
  <2>2. Taken' = Taken /\ (Begun' <=> Begun)
    BY <2>1 DEF Taken, Begun
  <2>3. Claims' /\ Apart' /\ Followed'
    BY <1>a, <2>1, <2>2 DEF Gate, Claims, Apart, Followed
  <2>4. Decided'
    BY <1>a, <2>1, CleanStays DEF Gate, Decided
  <2> QED
    BY <2>3, <2>4 DEF Gate
<1>2. CASE Refuse
  <2>1. UNCHANGED <<manifest, evidence>> /\ pc' = "refused"
    BY <1>2 DEF Refuse
  <2> QED
    BY <1>a, <2>1 DEF Gate, Claims, Apart, Followed, Decided, Begun
<1>3. CASE ReadManifest /\ ~Refuse
  <2>1. /\ UNCHANGED <<manifest, evidence, at>> /\ pc' = "claim" /\ Valid(manifest)
        /\ claimed' = {ManifestPath} /\ pc = "manifest"
    BY <1>3 DEF ReadManifest
  <2>2. at = 1 /\ evidence = <<>>
    BY <1>0, <2>1 DEF IInv, Reading
  <2>3. Taken' = 0 /\ 0 .. 0 = {0}
    BY <2>1, <2>2 DEF Taken
  <2>4. PlaceOf(0)' = ManifestPath
    BY DEF PlaceOf
  <2>5. Claims' /\ Apart'
    BY <1>a, <2>1, <2>3, <2>4 DEF Claims, Apart
  <2>6. Followed' /\ Decided'
    BY <2>1, <2>2 DEF Followed, Decided
  <2> QED
    BY <2>5, <2>6 DEF Gate
<1>4. CASE Claim /\ ~Refuse
  <2> DEFINE p == Records[at].path
  <2>1. /\ pc = "claim" /\ at <= Len(Records) /\ Unclaimed(p)
        /\ claimed' = claimed \union {p} /\ pc' = "measure"
        /\ UNCHANGED <<disk, edits, manifest, evidence, at>>
    BY <1>4 DEF Claim
  <2>2. Begun /\ Taken = at - 1 /\ Taken' = at /\ at \in Nat \ {0} /\ p = PlaceOf(at)
    BY <1>0, <2>1 DEF Begun, Taken, PlaceOf
  <2>3. 0 .. at = (0 .. at - 1) \union {at}
    BY <2>2
  <2>4. Valid(manifest) /\ claimed = {PlaceOf(i) : i \in 0 .. at - 1}
    BY <2>2 DEF Gate, Claims
  <2> HIDE DEF p
  <2>5. claimed' = {PlaceOf(i) : i \in 0 .. at}
    BY <2>1, <2>2, <2>3, <2>4
  <2>6. Claims'
    BY <1>a, <2>1, <2>2, <2>4, <2>5 DEF Claims
  <2>7. Apart'
    <3> SUFFICES ASSUME edits = 0, NEW i \in 0 .. at, NEW j \in 0 .. at, disk[PlaceOf(i)] = disk[PlaceOf(j)]
                 PROVE  i = j
      BY <1>a, <2>1, <2>2 DEF Apart
    <3>1. \A k \in 0 .. at - 1 : disk[PlaceOf(k)] # disk[PlaceOf(at)]
      BY <2>1, <2>2, <2>4 DEF Unclaimed
    <3>2. \A k, l \in 0 .. at - 1 : disk[PlaceOf(k)] = disk[PlaceOf(l)] => k = l
      BY <2>2 DEF Gate, Apart
    <3> QED
      BY <2>3, <3>1, <3>2
  <2>8. Followed' /\ Decided'
    BY <1>a, <2>1 DEF Gate, Followed, Decided
  <2> QED
    BY <2>6, <2>7, <2>8 DEF Gate
<1>5. CASE Measure /\ ~Refuse
  <2>1. /\ UNCHANGED <<disk, edits, claimed, evidence, manifest, at>>
        /\ pc = "measure" /\ pc' = "read"
    BY <1>5 DEF Measure
  <2>2. Begun /\ Taken' = Taken
    BY <2>1 DEF Begun, Taken
  <2> QED
    BY <2>1, <2>2, NothingTaken
<1>6. CASE Read /\ ~Refuse
  <2> DEFINE p == Records[at].path
             e == [path |-> p, size |-> size, text |-> holds[disk[p]]]
  <2>1. /\ UNCHANGED <<disk, edits, claimed, manifest>> /\ at' = at + 1
        /\ evidence' = Append(evidence, e) /\ pc = "read" /\ pc' = "claim"
    BY <1>6 DEF Read
  <2>2. Begun /\ Taken' = Taken
    BY <1>0, <2>1 DEF Begun, Taken
  <2>3. Claims' /\ Apart'
    BY <1>a, <2>1, <2>2 DEF Gate, Claims, Apart
  <2>4. Followed'
    <3> SUFFICES ASSUME NEW i \in DOMAIN evidence' PROVE evidence'[i].path = Records[i].path
      BY <1>a, <2>1 DEF Followed
    <3>1. /\ DOMAIN evidence = 1 .. at - 1 /\ at \in Nat \ {0}
          /\ DOMAIN evidence' = 1 .. at /\ evidence'[at] = e
          /\ \A k \in 1 .. at - 1 : evidence'[k] = evidence[k]
      <4> HIDE DEF e
      <4> QED
        BY <1>0, <2>1
    <3>2. CASE i = at
      BY <3>1, <3>2
    <3>3. CASE i # at
      <4>1. i \in 1 .. at - 1
        BY <3>1, <3>3
      <4> QED
        BY <3>1, <4>1 DEF Gate, Followed
    <3> QED
      BY <3>2, <3>3
  <2>5. Decided'
    BY <2>1 DEF Decided
  <2> QED
    BY <2>3, <2>4, <2>5 DEF Gate
<1>7. CASE Decide /\ ~Refuse
  <2> DEFINE applied == Applied(manifest.waivers, asOf)
  <2>1. /\ pc = "claim" /\ at > Len(Records) /\ ~applied.refused /\ pc' = "done"
        /\ verdict'.decision = Decision(applied)
        /\ verdict'.waived = applied.waived /\ verdict'.notices = applied.notices
        /\ UNCHANGED <<files, input, progress>>
    BY <1>7 DEF Decide
  <2>2. ExactAll /\ applied.waived = Waived /\ applied.notices = Notices
    BY <2>1, AllApplied
  <2>3. Decision(applied) = 0 <=> Clean
    BY <2>2, AllowMeansClean DEF IInv
  <2>4. /\ ExactAll' <=> ExactAll
        /\ Waived' = Waived /\ Notices' = Notices
        /\ Clean' <=> Clean
    BY <2>1, CleanStays
  <2>5. at' = Len(Records) + 1 /\ at' = at
    BY <1>0, <2>1
  <2> HIDE DEF applied
  <2>6. Decided'
    BY <1>a, <2>1, <2>2, <2>3, <2>4, <2>5 DEF Decided
  <2>7. Begun /\ Taken' = Taken /\ Begun'
    BY <2>1 DEF Begun, Taken
  <2>8. Claims' /\ Apart' /\ Followed'
    BY <1>a, <2>1, <2>7 DEF Gate, Claims, Apart, Followed
  <2> QED
    BY <2>6, <2>8 DEF Gate
<1>8. CASE Edit
  <2>1. /\ pc \notin {"done", "refused"} /\ edits' = edits + 1
        /\ UNCHANGED <<manifest, asOf, claimed, at, evidence, found, pc>>
    BY <1>8 DEF Edit
  <2>2. Taken' = Taken /\ (Begun' <=> Begun)
    BY <2>1 DEF Taken, Begun
  <2>3. edits' # 0
    BY <2>1 DEF IInv, TypeOK
  <2> QED
    BY <1>a, <2>1, <2>2, <2>3 DEF Gate, Claims, Apart, Followed, Decided
<1> QED
  BY <1>1, <1>2, <1>3, <1>4, <1>5, <1>6, <1>7, <1>8 DEF Next, Proceed

LEMMA InitGate == Init => Gate
<1> SUFFICES ASSUME Init PROVE Gate
  OBVIOUS
<1>1. pc = "manifest" /\ evidence = <<>>
  BY DEF Init
<1> QED
  BY <1>1 DEF Gate, Claims, Apart, Followed, Decided, Begun

\* Files that were claimed are apart, reports lead to claimed files, and the
\* verdict is that of the evidence: the invariant behind the next theorems.
THEOREM GateHolds == Spec => []Gate
<1>1. Init => IInv /\ Gate
  BY InitIInv, InitGate
<1>2. IInv /\ Gate /\ [Next]_vars => (IInv /\ Gate)'
  BY NextIInv, GateStep
<1> QED
  BY <1>1, <1>2, PTL DEF Spec

\* A finite set with two members has more than one.
LEMMA TwoMembers ==
  ASSUME NEW S, IsFiniteSet(S), NEW i \in S, NEW j \in S, i # j
  PROVE  Cardinality(S) > 1
<1> DEFINE one == {i}
           two == one \union {j}
<1>1. IsFiniteSet(one) /\ Cardinality(one) = 1
  BY FS_Singleton
<1>2. j \notin one /\ two \in SUBSET S
  OBVIOUS
<1> HIDE DEF one
<1>3. Cardinality(two) = 1 + 1
  BY <1>1, <1>2, FS_AddElement
<1> HIDE DEF two
<1>4. Cardinality(two) <= Cardinality(S)
  BY <1>2, FS_Subset
<1>5. Cardinality(S) \in Nat
  BY FS_CardinalityType
<1> QED
  BY <1>3, <1>4, <1>5

\* There are finitely many findings.
LEMMA FoundFinite == IInv => IsFiniteSet(DOMAIN found)
<1> SUFFICES ASSUME IInv PROVE IsFiniteSet(DOMAIN found)
  OBVIOUS
<1>1. found \in Seq(Finding)
  BY DEF IInv, Reading
<1>2. DOMAIN found = 1 .. Len(found) /\ Len(found) \in Int
  BY <1>1, SeqMembers
<1> QED
  BY <1>2, FS_Interval

\* For any number of waivers and findings, findings of one fingerprint included:
\* in a verdict every waiver matches at most one finding and every finding at
\* most one waiver, what is waived is named by a waiver in force, and every
\* waiver is accounted for.
THEOREM WaiversExact == Spec => []WaiversAreExact
<1>1. IInv /\ Gate => WaiversAreExact
  <2> SUFFICES ASSUME IInv, Gate, pc = "done" PROVE WaiversAreExact
    BY DEF WaiversAreExact
  <2> DEFINE ws == manifest.waivers
             n == Len(ws)
  <2>1. /\ ws \in Seq(Waivers) /\ n \in Nat /\ DOMAIN ws = 1 .. n /\ asOf \in Int
        /\ \A k \in 1 .. n : ws[k] \in Waivers /\ ws[k].expires \in Int
    <3>1. ws \in Seq(Waivers) /\ asOf \in Int
      BY DEF IInv, TypeOK, Manifests
    <3>2. \A w \in Waivers : w.expires \in Int
      BY DEF Waivers
    <3> HIDE DEF ws
    <3> QED
      BY <3>1, <3>2
  <2>2. Exact(ws, n) /\ verdict.waived = WaivedBy(ws, n, asOf) /\ verdict.notices = NoticesOf(ws, n, asOf)
    BY DEF Gate, Decided, ExactAll, Waived, Notices
  <2>3. \A w \in ToSet(ws) : \E k \in 1 .. n : w = ws[k]
    BY <2>1 DEF ToSet
  <2> HIDE DEF ws, n
  <2>4. ASSUME NEW j \in 1 .. n, NEW k \in 1 .. n, NEW i \in DOMAIN found,
               Matches(ws[j], found[i]), Matches(ws[k], found[i])
        PROVE  j = k
    <3>1. i \in MatchedBy(ws[j]) /\ i \in MatchedBy(ws[k])
      BY <2>4 DEF MatchedBy
    <3>2. \A a \in 1 .. n : \A b \in 1 .. a - 1 : MatchedBy(ws[a]) \intersect MatchedBy(ws[b]) = {}
      BY <2>2 DEF Exact
    <3>3. ~(j < k) /\ ~(k < j)
      <4>1. j < k => j \in 1 .. k - 1
        BY <2>1
      <4>2. k < j => k \in 1 .. j - 1
        BY <2>1
      <4> QED
        BY <3>1, <3>2, <4>1, <4>2
    <3> QED
      BY <2>1, <3>3
  <2>8. \A w \in ToSet(ws), i, j \in DOMAIN found :
           Matches(w, found[i]) /\ Matches(w, found[j]) => i = j
    <3> SUFFICES ASSUME NEW w \in ToSet(ws), NEW i \in DOMAIN found, NEW j \in DOMAIN found,
                        Matches(w, found[i]), Matches(w, found[j]), i # j
                 PROVE  FALSE
      OBVIOUS
    <3>1. PICK k \in 1 .. n : w = ws[k]
      BY <2>3
    <3>2. MatchedBy(w) \in SUBSET DOMAIN found /\ i \in MatchedBy(w) /\ j \in MatchedBy(w)
      BY DEF MatchedBy
    <3>3. IsFiniteSet(DOMAIN found)
      BY FoundFinite
    <3>4. IsFiniteSet(MatchedBy(w))
      BY <3>2, <3>3, FS_Subset
    <3>5. Cardinality(MatchedBy(w)) > 1
      BY <3>2, <3>4, TwoMembers, Zenon
    <3>6. ~(Cardinality(MatchedBy(w)) > 1)
      BY <2>2, <3>1 DEF Exact
    <3> QED
      BY <3>5, <3>6
  <2>5. \A w, v \in ToSet(ws), f \in ToSet(found) : Matches(w, f) /\ Matches(v, f) => w = v
    <3> SUFFICES ASSUME NEW w \in ToSet(ws), NEW v \in ToSet(ws), NEW f \in ToSet(found), Matches(w, f), Matches(v, f)
                 PROVE  w = v
      OBVIOUS
    <3>1. PICK j \in 1 .. n : w = ws[j]
      BY <2>3
    <3>2. PICK k \in 1 .. n : v = ws[k]
      BY <2>3
    <3>3. PICK i \in DOMAIN found : f = found[i]
      BY DEF ToSet
    <3> QED
      BY <2>4, <3>1, <3>2, <3>3
  <2>6. \A pair \in verdict.waived : \E w \in ToSet(ws) :
           w.id = pair[2] /\ Matches(w, found[pair[1]]) /\ w.expires >= asOf
    <3> SUFFICES ASSUME NEW pair \in WaivedBy(ws, n, asOf)
                 PROVE  \E w \in ToSet(ws) : w.id = pair[2] /\ Matches(w, found[pair[1]]) /\ w.expires >= asOf
      BY <2>2
    <3>1. PICK j \in 1 .. n : ~Expired(ws[j], asOf) /\ pair \in MatchedBy(ws[j]) \X {ws[j].id}
      BY DEF WaivedBy
    <3>2. pair[1] \in MatchedBy(ws[j]) /\ pair[2] = ws[j].id
      BY <3>1
    <3>3. ws[j].expires >= asOf
      BY <2>1, <3>1 DEF Expired
    <3>4. ws[j] \in ToSet(ws)
      BY <2>1 DEF ToSet
    <3> QED
      BY <3>2, <3>3, <3>4 DEF MatchedBy
  <2>7. \A w \in ToSet(ws) :
           (\E pair \in verdict.waived : pair[2] = w.id) \/ (\E m \in verdict.notices : m[2] = w.id)
    <3> SUFFICES ASSUME NEW w \in ToSet(ws)
                 PROVE  (\E pair \in WaivedBy(ws, n, asOf) : pair[2] = w.id)
                          \/ (\E m \in NoticesOf(ws, n, asOf) : m[2] = w.id)
      BY <2>2
    <3>1. PICK j \in 1 .. n : w = ws[j]
      BY <2>3
    <3>2. CASE Expired(ws[j], asOf)
      <4>1. <<"WAIVER.EXPIRED", w.id>> \in NoticesOf(ws, n, asOf)
        BY <3>1, <3>2 DEF NoticesOf
      <4> QED
        BY <4>1
    <3>3. CASE ~Expired(ws[j], asOf) /\ MatchedBy(ws[j]) = {}
      <4>1. <<"WAIVER.UNUSED", w.id>> \in NoticesOf(ws, n, asOf)
        BY <3>1, <3>3 DEF NoticesOf
      <4> QED
        BY <4>1
    <3>4. CASE ~Expired(ws[j], asOf) /\ MatchedBy(ws[j]) # {}
      <4>1. PICK i \in MatchedBy(ws[j]) : TRUE
        BY <3>4
      <4>2. <<i, w.id>> \in MatchedBy(ws[j]) \X {ws[j].id}
        BY <3>1, <4>1
      <4>3. <<i, w.id>> \in WaivedBy(ws, n, asOf)
        BY <3>4, <4>2 DEF WaivedBy
      <4> QED
        BY <4>3
    <3> QED
      BY <3>2, <3>3, <3>4
  <2> QED
    BY <2>5, <2>6, <2>7, <2>8 DEF WaiversAreExact, ws
<1> QED
  BY <1>1, Invariance, GateHolds, PTL

\* While nobody changes the directory no file serves as two records, nor the
\* manifest as one.
THEOREM OneFileEach == Spec => []NoFileTwice
<1>1. IInv /\ Gate => NoFileTwice
  <2> SUFFICES ASSUME IInv, Gate, pc = "done", edits = 0
               PROVE  Cardinality({disk[p] : p \in {ManifestPath} \union {e.path : e \in ToSet(evidence)}})
                        = Len(evidence) + 1
    BY DEF NoFileTwice
  <2> DEFINE n == Len(evidence)
             S == {disk[p] : p \in {ManifestPath} \union {e.path : e \in ToSet(evidence)}}
             f == [i \in 0 .. n |-> disk[PlaceOf(i)]]
  <2>1. n = at - 1 /\ n \in Nat /\ DOMAIN evidence = 1 .. n
    BY RecordPaths DEF IInv, TypeOK
  <2>2. Begun /\ Taken = n
    BY <2>1 DEF Begun, Taken
  <2>3. \A i, j \in 0 .. n : disk[PlaceOf(i)] = disk[PlaceOf(j)] => i = j
    BY <2>2 DEF Gate, Apart
  <2>4. PlaceOf(0) = ManifestPath /\ \A i \in 1 .. n : PlaceOf(i) = evidence[i].path
    BY <2>1 DEF PlaceOf, Gate, Followed
  <2>5. S = {disk[PlaceOf(i)] : i \in 0 .. n}
    <3>1. 0 .. n = {0} \union 1 .. n
      BY <2>1
    <3>2. {ManifestPath} \union {e.path : e \in ToSet(evidence)} = {PlaceOf(i) : i \in 0 .. n}
      <4>1. {e.path : e \in ToSet(evidence)} = {PlaceOf(i) : i \in 1 .. n}
        BY <2>1, <2>4 DEF ToSet
      <4> QED
        BY <2>4, <3>1, <4>1
    <3> HIDE DEF n
    <3> QED
      BY <3>2
  <2> HIDE DEF S, n
  <2>6. ExistsBijection(0 .. n, S)
    <3>1. f \in [0 .. n -> S]
      BY <2>5
    <3>2. \A i, j \in 0 .. n : f[i] = f[j] => i = j
      BY <2>3
    <3>3. \A x \in S : \E i \in 0 .. n : f[i] = x
      BY <2>5
    <3> HIDE DEF f
    <3> QED
      BY <3>1, <3>2, <3>3 DEF ExistsBijection, Bijection, Injection, Surjection, IsInjective
  <2>7. IsFiniteSet(0 .. n) /\ Cardinality(0 .. n) = n + 1
    BY <2>1, FS_Interval
  <2>8. Cardinality(S) = n + 1
    BY <2>6, <2>7, FS_Bijection
  <2> QED
    BY <2>8 DEF S, n
<1> QED
  BY <1>1, Invariance, GateHolds, PTL
-----------------------------------------------------------------------------
(* What an allow says of the manifest and of the texts. *)

Of(role) == {a \in ToSet(manifest.artifacts) : a.kind = role}
RunsOf(adapters) == {r \in ToSet(manifest.reports) : r.adapter \in adapters}
Adapters == {r.adapter : r \in ToSet(manifest.reports)}

\* No finding about lineage: every view is there, every report binds what its
\* tool works on, and each kind of tool has been run.
LEMMA LineageClean ==
  LineageFindings = {} <=>
    /\ \A role \in Roles : Of(role) # {}
    /\ \A r \in ToSet(manifest.reports) : KeepsContract(r)
    /\ Adapters \intersect DRC # {} /\ "netgen-lvs" \in Adapters /\ "magic-pex" \in Adapters
<1> DEFINE reports == ToSet(manifest.reports)
           kinds == {a.kind : a \in ToSet(manifest.artifacts)}
           valid == {r.adapter : r \in {s \in reports : KeepsContract(s)}}
           drcs == {1} \ {1 : a \in valid \intersect DRC}
<1>1. LineageFindings = {} <=>
        /\ Roles \ kinds = {} /\ {s \in reports : ~KeepsContract(s)} = {}
        /\ drcs = {} /\ {"netgen-lvs"} \ valid = {} /\ {"magic-pex"} \ valid = {}
  <2>1. LineageFindings =
          {<<"LINEAGE.MISSING_VIEW", role>> : role \in Roles \ kinds}
          \union {<<"LINEAGE.ADAPTER_CONTRACT", r.id>> : r \in {s \in reports : ~KeepsContract(s)}}
          \union {<<"LINEAGE.MISSING_DRC", "layout">> : drc \in drcs}
          \union {<<"LINEAGE.MISSING_LVS", "layout">> : lvs \in {"netgen-lvs"} \ valid}
          \union {<<"LINEAGE.MISSING_PEX", "pex">> : pex \in {"magic-pex"} \ valid}
    BY Zenon DEF LineageFindings
  <2> DEFINE broken == {s \in reports : ~KeepsContract(s)}
             absent == Roles \ kinds
             nolvs == {"netgen-lvs"} \ valid
             nopex == {"magic-pex"} \ valid
             F1 == {<<"LINEAGE.MISSING_VIEW", role>> : role \in absent}
             F2 == {<<"LINEAGE.ADAPTER_CONTRACT", r.id>> : r \in broken}
             F3 == {<<"LINEAGE.MISSING_DRC", "layout">> : drc \in drcs}
             F4 == {<<"LINEAGE.MISSING_LVS", "layout">> : lvs \in nolvs}
             F5 == {<<"LINEAGE.MISSING_PEX", "pex">> : pex \in nopex}
  <2> HIDE DEF drcs, broken, absent, nolvs, nopex
  <2>2. /\ F1 = {} <=> absent = {}
        /\ F2 = {} <=> broken = {}
        /\ F3 = {} <=> drcs = {}
        /\ F4 = {} <=> nolvs = {}
        /\ F5 = {} <=> nopex = {}
    <3>1. F1 = {} <=> absent = {}
      <4>1. \A role \in absent : <<"LINEAGE.MISSING_VIEW", role>> \in F1
        OBVIOUS
      <4>2. \A x \in F1 : \E role \in absent : x = <<"LINEAGE.MISSING_VIEW", role>>
        OBVIOUS
      <4> HIDE DEF F1
      <4> QED
        BY <4>1, <4>2
    <3>2. F2 = {} <=> broken = {}
      <4>1. \A r \in broken : <<"LINEAGE.ADAPTER_CONTRACT", r.id>> \in F2
        OBVIOUS
      <4>2. \A x \in F2 : \E r \in broken : x = <<"LINEAGE.ADAPTER_CONTRACT", r.id>>
        OBVIOUS
      <4> HIDE DEF F2
      <4> QED
        BY <4>1, <4>2
    <3>3. F3 = {} <=> drcs = {}
      OBVIOUS
    <3>4. F4 = {} <=> nolvs = {}
      OBVIOUS
    <3>5. F5 = {} <=> nopex = {}
      OBVIOUS
    <3> QED
      BY <3>1, <3>2, <3>3, <3>4, <3>5
  <2>3. LineageFindings = F1 \union F2 \union F3 \union F4 \union F5
    BY <2>1 DEF broken, absent, nolvs, nopex
  <2> HIDE DEF F1, F2, F3, F4, F5
  <2>4. LineageFindings = {} <=> F1 = {} /\ F2 = {} /\ F3 = {} /\ F4 = {} /\ F5 = {}
    BY <2>3
  <2> QED
    BY <2>2, <2>4 DEF broken, absent, nolvs, nopex
<1>2. Roles \ kinds = {} <=> \A role \in Roles : Of(role) # {}
  BY DEF Of
<1>3. drcs = {} <=> valid \intersect DRC # {}
  <2> HIDE DEF valid
  <2> QED
    OBVIOUS
<1>4. (\A r \in reports : KeepsContract(r)) => valid = Adapters
  BY DEF Adapters
<1> HIDE DEF drcs, valid, kinds
<1>5. {s \in reports : ~KeepsContract(s)} = {} <=> \A r \in reports : KeepsContract(r)
  OBVIOUS
<1> HIDE DEF reports
<1> QED
  BY <1>1, <1>2, <1>3, <1>4, <1>5 DEF reports

\* The records of a valid manifest: names tell artifacts apart, a view is there
\* once, and what reports are bound to is there.
LEMMA ValidManifest ==
  ASSUME manifest \in Manifests, Valid(manifest)
  PROVE  /\ \A a, b \in ToSet(manifest.artifacts) : a.id = b.id => a = b
         /\ \A role \in Roles : Of(role) = {} \/ \E a : Of(role) = {a}
         /\ \A r \in ToSet(manifest.reports) : r.outputs \subseteq {a.id : a \in ToSet(manifest.artifacts)}
         /\ \A i, j \in 1 .. Len(Records) : Records[i].path = Records[j].path => i = j
<1> DEFINE as == manifest.artifacts
<1>1. as \in Seq(Artifacts) /\ DOMAIN as = 1 .. Len(as) /\ Len(as) \in Nat
  BY DEF Manifests
<1>2. \A a, b \in ToSet(as) : a.id = b.id => a = b
  <2>1. IsInjective(IdsOf(as))
    BY DEF Valid
  <2>2. \A i, j \in DOMAIN as : as[i].id = as[j].id => i = j
    BY <2>1 DEF IsInjective, IdsOf
  <2> QED
    BY <2>2 DEF ToSet
<1>3. \A role \in Roles : Of(role) = {} \/ \E a : Of(role) = {a}
  <2> SUFFICES ASSUME NEW role \in Roles, Of(role) # {} PROVE \E a : Of(role) = {a}
    OBVIOUS
  <2>1. IsFiniteSet(ToSet(as))
    <3> DEFINE f == [i \in 1 .. Len(as) |-> as[i]]
    <3>1. f \in Surjection(1 .. Len(as), ToSet(as))
      BY <1>1 DEF Surjection, ToSet
    <3>2. IsFiniteSet(1 .. Len(as))
      <4>1. 1 \in Int /\ Len(as) \in Int
        BY <1>1
      <4> QED
        BY <4>1, FS_Interval, Zenon
    <3> QED
      BY <3>1, <3>2, FS_Surjection
  <2>2. IsFiniteSet(Of(role))
    BY <2>1, FS_Subset DEF Of
  <2>3. role \in {a.kind : a \in ToSet(as)} \intersect Roles
    BY DEF Of
  <2>4. Cardinality(Of(role)) = 1
    BY <2>3 DEF Valid, Of
  <2> QED
    BY <2>2, <2>4, FS_Singleton
<1>4. \A r \in ToSet(manifest.reports) : r.outputs \subseteq {a.id : a \in ToSet(as)}
  BY DEF Valid
<1>5. \A i, j \in 1 .. Len(Records) : Records[i].path = Records[j].path => i = j
  <2>1. DOMAIN Records = 1 .. Len(Records)
    <3>1. as \in Seq(Artifacts \union Reports) /\ manifest.reports \in Seq(Artifacts \union Reports)
      BY DEF Manifests
    <3> QED
      BY <3>1 DEF Records
  <2>2. IsInjective(Places(Records))
    BY DEF Valid, Records
  <2> HIDE DEF Valid
  <2> QED
    BY <2>1, <2>2 DEF IsInjective, Places
<1> QED
  BY <1>2, <1>3, <1>4, <1>5
\* What each tool works on, said per tool.
LEMMA ToolsBound ==
  ASSUME manifest \in Manifests
  PROVE  (\A r \in ToSet(manifest.reports) : KeepsContract(r)) <=>
           /\ \A r \in RunsOf(DRC) : KindsOf(r.inputs) = {"layout"} /\ KindsOf(r.outputs) = {}
           /\ \A r \in RunsOf({"netgen-lvs"}) :
                KindsOf(r.inputs) = {"schematic", "layout"} /\ KindsOf(r.outputs) = {}
           /\ \A r \in RunsOf({"magic-pex"}) : KindsOf(r.inputs) = {"layout"} /\ KindsOf(r.outputs) = {"pex"}
<1> DEFINE Binds(r, ins, outs) == KindsOf(r.inputs) = ins /\ KindsOf(r.outputs) = outs
           reports == ToSet(manifest.reports)
<1>1. \A r \in reports : r.adapter \in DRC \union {"netgen-lvs", "magic-pex"}
  <2>1. manifest.reports \in Seq(Reports)
    BY DEF Manifests
  <2>2. reports \subseteq Reports
    BY <2>1 DEF ToSet
  <2> HIDE DEF reports
  <2> QED
    BY <2>2 DEF Reports
<1>2. ASSUME NEW r \in reports
      PROVE  /\ r.adapter \in DRC => (KeepsContract(r) <=> Binds(r, {"layout"}, {}))
             /\ r.adapter = "netgen-lvs" => (KeepsContract(r) <=> Binds(r, {"schematic", "layout"}, {}))
             /\ r.adapter = "magic-pex" => (KeepsContract(r) <=> Binds(r, {"layout"}, {"pex"}))
  <2> DEFINE ins == KindsOf(r.inputs)
             outs == KindsOf(r.outputs)
  <2>1. KeepsContract(r) <=> <<ins, outs>> = Contract(r.adapter)
    BY DEF KeepsContract
  <2>2. \A x, y : <<ins, outs>> = <<x, y>> <=> ins = x /\ outs = y
    OBVIOUS
  <2> HIDE DEF ins, outs
  <2>3. r.adapter \in DRC => Contract(r.adapter) = <<{"layout"}, {}>>
    BY DEF Contract
  <2>4. r.adapter = "netgen-lvs" => Contract(r.adapter) = <<{"schematic", "layout"}, {}>>
    BY DEF Contract, DRC
  <2>5. r.adapter = "magic-pex" => Contract(r.adapter) = <<{"layout"}, {"pex"}>>
    BY DEF Contract, DRC
  <2> QED
    BY <2>1, <2>2, <2>3, <2>4, <2>5, Zenon DEF ins, outs
<1>3. \A r : /\ r \in RunsOf(DRC) <=> r \in reports /\ r.adapter \in DRC
             /\ r \in RunsOf({"netgen-lvs"}) <=> r \in reports /\ r.adapter = "netgen-lvs"
             /\ r \in RunsOf({"magic-pex"}) <=> r \in reports /\ r.adapter = "magic-pex"
  BY DEF RunsOf
<1> SUFFICES (\A r \in reports : KeepsContract(r)) <=>
               /\ \A r \in RunsOf(DRC) : Binds(r, {"layout"}, {})
               /\ \A r \in RunsOf({"netgen-lvs"}) : Binds(r, {"schematic", "layout"}, {})
               /\ \A r \in RunsOf({"magic-pex"}) : Binds(r, {"layout"}, {"pex"})
  BY Zenon
<1> HIDE DEF Binds, reports
<1> QED
  BY <1>1, <1>2, <1>3

\* A report bound to the one extracted netlist is bound to nothing else.
LEMMA OneNetlist ==
  ASSUME manifest \in Manifests, Valid(manifest), NEW x, Of("pex") = {x},
         NEW r \in ToSet(manifest.reports), KindsOf(r.outputs) = {"pex"}
  PROVE  /\ r.outputs = {x.id} /\ Cardinality(r.outputs) = 1
         /\ PathsOf(r.outputs) = {x.path} /\ PathsOf({x.id}) = {x.path}
<1> DEFINE as == ToSet(manifest.artifacts)
<1>1. /\ \A a, b \in as : a.id = b.id => a = b
      /\ r.outputs \subseteq {a.id : a \in as}
  BY ValidManifest
<1>2. x \in as /\ x.kind = "pex" /\ \A a \in as : a.kind = "pex" => a = x
  BY DEF Of
<1>3. /\ \A a \in as : a.id \in r.outputs => a.kind = "pex"
      /\ \E a \in as : a.id \in r.outputs
  <2>1. {a.kind : a \in {b \in as : b.id \in r.outputs}} = {"pex"}
    BY DEF KindsOf
  <2> HIDE DEF as
  <2> QED
    BY <2>1
<1>4. PathsOf({x.id}) = {a.path : a \in {b \in as : b.id \in {x.id}}}
  BY DEF PathsOf
<1> HIDE DEF as
<1>5. r.outputs = {x.id}
  <2>1. \A id \in r.outputs : \E a \in as : id = a.id
    BY <1>1
  <2>2. \A id \in r.outputs : id = x.id
    BY <1>2, <1>3, <2>1
  <2>3. x.id \in r.outputs
    BY <1>2, <1>3
  <2> QED
    BY <2>2, <2>3
<1>6. {b \in as : b.id \in {x.id}} = {x}
  BY <1>1, <1>2
<1>7. PathsOf({x.id}) = {x.path}
  BY <1>4, <1>6
<1>8. Cardinality({x.id}) = 1
  BY FS_Singleton, Zenon
<1> QED
  BY <1>5, <1>7, <1>8

\* The second of two sequences put one after the other.
Follows(s, t, c) ==
  /\ \A j \in 1 .. Len(c) : j > Len(s) => j - Len(s) \in DOMAIN t /\ c[j] = t[j - Len(s)]
  /\ \A k \in DOMAIN t : Len(s) + k \in 1 .. Len(c) /\ Len(s) + k > Len(s) /\ (Len(s) + k) - Len(s) = k

LEMMA SecondOfConcat ==
  ASSUME NEW S, NEW s \in Seq(S), NEW t \in Seq(S)
  PROVE  Follows(s, t, s \o t)
<1> DEFINE c == s \o t
<1>1. /\ Len(c) = Len(s) + Len(t) /\ c \in Seq(S)
      /\ \A i \in 1 .. Len(s) + Len(t) : c[i] = IF i <= Len(s) THEN s[i] ELSE t[i - Len(s)]
  BY ConcatProperties
<1> HIDE DEF c
<1>2. DOMAIN t = 1 .. Len(t) /\ Len(s) \in Nat /\ Len(t) \in Nat
  BY <1>1, SeqMembers
<1> SUFFICES Follows(s, t, c)
  BY DEF c
<1>3. ASSUME NEW j \in 1 .. Len(c), j > Len(s) PROVE j - Len(s) \in DOMAIN t /\ c[j] = t[j - Len(s)]
  <2>1. j \in 1 .. Len(s) + Len(t) /\ ~(j <= Len(s)) /\ j - Len(s) \in 1 .. Len(t)
    BY <1>1, <1>2, <1>3
  <2> QED
    BY <1>1, <1>2, <2>1
<1>4. ASSUME NEW k \in DOMAIN t
      PROVE  Len(s) + k \in 1 .. Len(c) /\ Len(s) + k > Len(s) /\ (Len(s) + k) - Len(s) = k
  BY <1>1, <1>2
<1> QED
  BY <1>3, <1>4 DEF Follows

\* The reports are the records after the artifacts.
LEMMA ReportRecords ==
  ASSUME manifest \in Manifests
  PROVE  /\ \A j \in 1 .. Len(Records) :
              IsReport(j) => Report(j) \in ToSet(manifest.reports) /\ Report(j).path = Records[j].path
         /\ \A r \in ToSet(manifest.reports) :
              \E j \in 1 .. Len(Records) : IsReport(j) /\ Report(j) = r
<1> DEFINE as == manifest.artifacts
           rs == manifest.reports
           S == Artifacts \union Reports
<1>1. as \in Seq(S) /\ rs \in Seq(S)
  BY DEF Manifests
<1>2. \A j : (IsReport(j) <=> j > Len(as)) /\ Report(j) = rs[j - Len(as)]
  BY DEF IsReport, Report
<1>3. Records = as \o rs
  BY DEF Records
<1> HIDE DEF as, rs, S
<1>4. /\ \A j \in 1 .. Len(Records) :
           j > Len(as) => j - Len(as) \in DOMAIN rs /\ Records[j] = rs[j - Len(as)]
      /\ \A k \in DOMAIN rs : /\ Len(as) + k \in 1 .. Len(Records)
                              /\ Len(as) + k > Len(as) /\ (Len(as) + k) - Len(as) = k
  <2>1. Follows(as, rs, as \o rs)
    BY <1>1, SecondOfConcat
  <2> QED
    BY <1>3, <2>1 DEF Follows
<1>5. \A j \in 1 .. Len(Records) : IsReport(j) => Report(j) \in ToSet(rs) /\ Report(j).path = Records[j].path
  <2>1. \A k \in DOMAIN rs : rs[k] \in ToSet(rs)
    BY DEF ToSet
  <2> QED
    BY <1>2, <1>4, <2>1, Zenon
<1>6. \A r \in ToSet(rs) : \E j \in 1 .. Len(Records) : IsReport(j) /\ Report(j) = r
  <2> SUFFICES ASSUME NEW r \in ToSet(rs) PROVE \E j \in 1 .. Len(Records) : IsReport(j) /\ Report(j) = r
    OBVIOUS
  <2>1. PICK k \in DOMAIN rs : r = rs[k]
    BY DEF ToSet
  <2>2. Len(as) + k \in 1 .. Len(Records) /\ IsReport(Len(as) + k) /\ Report(Len(as) + k) = rs[k]
    BY <1>2, <1>4, Zenon
  <2> QED
    BY <2>1, <2>2, Zenon
<1> QED
  BY <1>5, <1>6 DEF rs

\* The gate has nothing to say about lineage exactly when the evidence is complete.
LEMMA NothingMissing ==
  ASSUME IInv, Gate, pc = "done"
  PROVE  LineageFindings \union IntegrityFindings = {} <=> CompleteEvidence
<1> DEFINE reports == ToSet(manifest.reports)
           Only(role) == {a.id : a \in Of(role)}
           Names(r) == \E i \in DOMAIN evidence :
                         evidence[i].path = r.path /\ PathsOf(Only("pex")) = {evidence[i].text.output}
           m == Len(manifest.artifacts)
<1>1. /\ manifest \in Manifests /\ Valid(manifest) /\ at = Len(Records) + 1
      /\ Len(Records) \in Nat /\ DOMAIN evidence = 1 .. Len(Records)
      /\ \A i \in DOMAIN evidence : evidence[i].path = Records[i].path
  BY RecordPaths DEF IInv, TypeOK, Gate, Claims, Begun, Decided, Followed
<1>2. CompleteEvidence <=>
        /\ \A role \in Roles : Cardinality(Only(role)) = 1
        /\ RunsOf(DRC) # {} /\ RunsOf({"netgen-lvs"}) # {} /\ RunsOf({"magic-pex"}) # {}
        /\ \A r \in RunsOf(DRC) : KindsOf(r.inputs) = {"layout"} /\ KindsOf(r.outputs) = {}
        /\ \A r \in RunsOf({"netgen-lvs"}) :
             KindsOf(r.inputs) = {"schematic", "layout"} /\ KindsOf(r.outputs) = {}
        /\ \A r \in RunsOf({"magic-pex"}) : (KindsOf(r.inputs) = {"layout"} /\ KindsOf(r.outputs) = {"pex"}) /\ Names(r)
  BY Zenon DEF CompleteEvidence, RunsOf, Of
<1>3. \A role \in Roles : Cardinality(Only(role)) = 1 <=> Of(role) # {}
  <2> SUFFICES ASSUME NEW role \in Roles PROVE Cardinality(Only(role)) = 1 <=> Of(role) # {}
    OBVIOUS
  <2>1. Of(role) = {} \/ \E a : Of(role) = {a}
    BY <1>1, ValidManifest
  <2>2. CASE Of(role) = {}
    <3>1. Only(role) = {}
      BY <2>2
    <3>2. Cardinality(Only(role)) = 0
      BY <3>1, FS_EmptySet
    <3> QED
      BY <2>2, <3>2
  <2>3. CASE \E a : Of(role) = {a}
    <3>1. PICK a : Of(role) = {a}
      BY <2>3
    <3>2. Only(role) = {a.id}
      BY <3>1
    <3> QED
      BY <3>1, <3>2, FS_Singleton
  <2> QED
    BY <2>1, <2>2, <2>3
<1>4. /\ RunsOf(DRC) # {} <=> Adapters \intersect DRC # {}
      /\ RunsOf({"netgen-lvs"}) # {} <=> "netgen-lvs" \in Adapters
      /\ RunsOf({"magic-pex"}) # {} <=> "magic-pex" \in Adapters
  BY DEF RunsOf, Adapters
<1>5. CompleteEvidence <=> LineageFindings = {} /\ \A r \in RunsOf({"magic-pex"}) : Names(r)
  <2> HIDE DEF Names, Only
  <2> QED
    BY <1>1, <1>2, <1>3, <1>4, LineageClean, ToolsBound
<1>6. \A j \in 1 .. Len(Records) :
        IsReport(j) => Report(j) \in reports /\ Report(j).path = Records[j].path
  BY <1>1, ReportRecords
<1>7. \A r \in reports : \E j \in 1 .. Len(Records) :
        IsReport(j) /\ Report(j) = r
  BY <1>1, ReportRecords
<1>8. ASSUME LineageFindings = {} PROVE IntegrityFindings = {} <=> \A r \in RunsOf({"magic-pex"}) : Names(r)
  <2>1. PICK x : Of("pex") = {x}
    <3>1. Of("pex") # {} /\ "pex" \in Roles
      BY <1>8, LineageClean DEF Roles
    <3> QED
      BY <1>1, <3>1, ValidManifest
  <2>2. \A r \in RunsOf({"magic-pex"}) : KindsOf(r.outputs) = {"pex"} /\ r \in reports /\ r.adapter = "magic-pex"
    BY <1>1, <1>8, LineageClean, ToolsBound DEF RunsOf
  <2>3. \A r \in RunsOf({"magic-pex"}) :
          Cardinality(r.outputs) = 1 /\ PathsOf(r.outputs) = {x.path} /\ PathsOf({x.id}) = {x.path}
    BY <1>1, <2>1, <2>2, OneNetlist
  <2>4. Only("pex") = {x.id}
    BY <2>1
  <2>5. IntegrityFindings = {} <=>
          \A j \in 1 .. Len(Records) :
            IsReport(j) /\ Report(j).adapter = "magic-pex" /\ Cardinality(Report(j).outputs) = 1
              => evidence[j].text.output \in PathsOf(Report(j).outputs)
    <3> DEFINE wrong == {j \in DOMAIN evidence :
                           /\ IsReport(j) /\ Report(j).adapter = "magic-pex"
                           /\ Cardinality(Report(j).outputs) = 1
                           /\ evidence[j].text.output \notin PathsOf(Report(j).outputs)}
    <3>1. IntegrityFindings = {} <=> wrong = {}
      <4>1. IntegrityFindings = {<<"LINEAGE.PEX_OUTPUT_MISMATCH", Report(i).id>> : i \in wrong}
        BY Zenon DEF IntegrityFindings
      <4> HIDE DEF wrong
      <4>2. \A i \in wrong : <<"LINEAGE.PEX_OUTPUT_MISMATCH", Report(i).id>> \in IntegrityFindings
        BY <4>1
      <4>3. \A y \in IntegrityFindings : \E i \in wrong : TRUE
        BY <4>1
      <4> QED
        BY <4>2, <4>3
    <3> QED
      BY <1>1, <3>1
  <2>6. IntegrityFindings = {} <=>
          \A j \in 1 .. Len(Records) :
            IsReport(j) /\ Report(j).adapter = "magic-pex" => evidence[j].text.output = x.path
    <3>1. \A j \in 1 .. Len(Records) :
            IsReport(j) /\ Report(j).adapter = "magic-pex" => Report(j) \in RunsOf({"magic-pex"})
      BY <1>6 DEF RunsOf
    <3> QED
      BY <2>3, <2>5, <3>1
  <2>7. ASSUME NEW j \in 1 .. Len(Records), IsReport(j), Report(j).adapter = "magic-pex"
        PROVE  Names(Report(j)) <=> evidence[j].text.output = x.path
    <3>1. Report(j) \in RunsOf({"magic-pex"}) /\ Report(j).path = Records[j].path
      BY <1>6, <2>7 DEF RunsOf
    <3>2. PathsOf(Only("pex")) = {x.path}
      BY <2>3, <2>4, <3>1
    <3>3. \A i \in DOMAIN evidence : evidence[i].path = Report(j).path <=> i = j
      BY <1>1, <3>1, ValidManifest
    <3>4. j \in DOMAIN evidence
      BY <1>1
    <3> HIDE DEF Only
    <3> QED
      BY <3>2, <3>3, <3>4
  <2>8. (\A r \in RunsOf({"magic-pex"}) : Names(r)) <=>
          \A j \in 1 .. Len(Records) :
            IsReport(j) /\ Report(j).adapter = "magic-pex" => Names(Report(j))
    <3> HIDE DEF Names
    <3>1. \A r \in RunsOf({"magic-pex"}) :
            \E j \in 1 .. Len(Records) : IsReport(j) /\ Report(j) = r /\ Report(j).adapter = "magic-pex"
      BY <1>7, <2>2
    <3>2. \A j \in 1 .. Len(Records) :
            IsReport(j) /\ Report(j).adapter = "magic-pex" => Report(j) \in RunsOf({"magic-pex"})
      BY <1>6 DEF RunsOf
    <3> QED
      BY <3>1, <3>2
  <2> HIDE DEF Names
  <2> QED
    BY <2>6, <2>7, <2>8
<1> HIDE DEF Names
<1> QED
  BY <1>5, <1>8

\* A bundle is allowed exactly when its evidence is complete, a waiver in force
\* names every finding that asks for review or denies, and every waiver is in
\* force and names a finding: nothing less will do and nothing more is asked.
THEOREM AllowedExactly == Spec => []AllowedExactlyWhenComplete
<1>1. IInv /\ Gate => AllowedExactlyWhenComplete
  <2> SUFFICES ASSUME IInv, Gate, pc = "done" PROVE AllowedExactlyWhenComplete
    BY DEF AllowedExactlyWhenComplete
  <2> DEFINE ws == manifest.waivers
             n == Len(ws)
             InForce == \A w \in ToSet(ws) : w.expires >= asOf /\ \E f \in ToSet(found) : Matches(w, f)
             Named == \A f \in ToSet(found) : Rank[f.severity] > 0 => \E w \in ToSet(ws) : Matches(w, f)
  <2>1. /\ n \in Nat /\ DOMAIN ws = 1 .. n /\ asOf \in Int
        /\ \A k \in 1 .. n : ws[k].expires \in Int
    <3>1. ws \in Seq(Waivers) /\ asOf \in Int
      BY DEF IInv, TypeOK, Manifests
    <3>2. \A w \in Waivers : w.expires \in Int
      BY DEF Waivers
    <3> HIDE DEF ws
    <3> QED
      BY <3>1, <3>2
  <2>2. verdict.decision = 0 <=> Clean
    BY DEF Gate, Decided
  <2>3. LineageFindings \union IntegrityFindings = {} <=> CompleteEvidence
    BY NothingMissing
  <2>4. Notices = NoticesOf(ws, n, asOf) /\ Waived = WaivedBy(ws, n, asOf)
    BY DEF Notices, Waived
  <2> HIDE DEF ws, n
  <2>5. Notices = {} <=> \A k \in 1 .. n : ~Expired(ws[k], asOf) /\ MatchedBy(ws[k]) # {}
    <3> DEFINE old == {k \in 1 .. n : Expired(ws[k], asOf)}
               idle == {k \in 1 .. n : ~Expired(ws[k], asOf) /\ MatchedBy(ws[k]) = {}}
    <3>1. Notices = {<<"WAIVER.EXPIRED", ws[j].id>> : j \in old} \union {<<"WAIVER.UNUSED", ws[j].id>> : j \in idle}
      BY <2>4, Zenon DEF NoticesOf
    <3>2. old = {} /\ idle = {} <=> \A k \in 1 .. n : ~Expired(ws[k], asOf) /\ MatchedBy(ws[k]) # {}
      OBVIOUS
    <3> HIDE DEF old, idle
    <3>3. /\ \A j \in old : <<"WAIVER.EXPIRED", ws[j].id>> \in Notices
          /\ \A j \in idle : <<"WAIVER.UNUSED", ws[j].id>> \in Notices
          /\ \A x \in Notices : old # {} \/ idle # {}
      BY <3>1
    <3>4. Notices = {} <=> old = {} /\ idle = {}
      BY <3>3
    <3> QED
      BY <3>2, <3>4
  <2>6. Notices = {} <=> InForce
    <3>1. InForce <=> \A k \in 1 .. n : ws[k].expires >= asOf /\ \E i \in DOMAIN found : Matches(ws[k], found[i])
      <4> DEFINE Good(w) == w.expires >= asOf /\ \E i \in DOMAIN found : Matches(w, found[i])
      <4>1. \A w : (\E f \in ToSet(found) : Matches(w, f)) <=> \E i \in DOMAIN found : Matches(w, found[i])
        BY Zenon DEF ToSet
      <4>2. \A w : w \in ToSet(ws) <=> \E k \in 1 .. n : w = ws[k]
        BY <2>1 DEF ToSet
      <4>3. InForce <=> \A w \in ToSet(ws) : Good(w)
        BY <4>1, Zenon
      <4> HIDE DEF Good, InForce
      <4>4. InForce <=> \A k \in 1 .. n : Good(ws[k])
        BY <4>2, <4>3, Zenon
      <4> QED
        BY <4>4, Zenon DEF Good
    <3>2. \A k \in 1 .. n : /\ ~Expired(ws[k], asOf) <=> ws[k].expires >= asOf
                            /\ MatchedBy(ws[k]) # {} <=> \E i \in DOMAIN found : Matches(ws[k], found[i])
      BY <2>1 DEF Expired, MatchedBy
    <3> HIDE DEF InForce
    <3> QED
      BY <2>5, <3>1, <3>2
  <2>7. ASSUME Notices = {}, NEW i \in DOMAIN found
        PROVE  (\E pair \in Waived : pair[1] = i) <=> \E w \in ToSet(ws) : Matches(w, found[i])
    <3>1. \A k \in 1 .. n : ~Expired(ws[k], asOf)
      BY <2>5, <2>7
    <3>2. Waived = UNION {MatchedBy(ws[j]) \X {ws[j].id} : j \in {k \in 1 .. n : ~Expired(ws[k], asOf)}}
      BY <2>4, Zenon DEF WaivedBy
    <3>3. ASSUME NEW pair \in Waived, pair[1] = i PROVE \E k \in 1 .. n : i \in MatchedBy(ws[k])
      BY <3>2, <3>3
    <3>4. ASSUME NEW k \in 1 .. n, i \in MatchedBy(ws[k]) PROVE \E pair \in Waived : pair[1] = i
      <4>1. <<i, ws[k].id>> \in MatchedBy(ws[k]) \X {ws[k].id} /\ k \in {j \in 1 .. n : ~Expired(ws[j], asOf)}
        BY <3>1, <3>4
      <4>2. <<i, ws[k].id>> \in Waived
        BY <3>2, <4>1
      <4> QED
        BY <4>2
    <3>5. (\E pair \in Waived : pair[1] = i) <=> \E k \in 1 .. n : i \in MatchedBy(ws[k])
      BY <3>3, <3>4
    <3>6. (\E k \in 1 .. n : i \in MatchedBy(ws[k])) <=> \E w \in ToSet(ws) : Matches(w, found[i])
      BY <2>1 DEF ToSet, MatchedBy
    <3> QED
      BY <3>5, <3>6
  <2>8. Named <=> \A i \in DOMAIN found : Rank[found[i].severity] > 0 => \E w \in ToSet(ws) : Matches(w, found[i])
    BY DEF ToSet
  <2>9. Clean <=> CompleteEvidence /\ Named /\ InForce
    <3> HIDE DEF Named, InForce
    <3> QED
      BY <2>3, <2>6, <2>7, <2>8 DEF Clean
  <2>10. verdict.decision = 0 <=> CompleteEvidence /\ Named /\ InForce
    <3> HIDE DEF Named, InForce
    <3> QED
      BY <2>2, <2>9
  <2> QED
    BY <2>10, Zenon DEF AllowedExactlyWhenComplete, ws
<1> QED
  BY <1>1, Invariance, GateHolds, PTL
=============================================================================
