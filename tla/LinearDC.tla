------------------------------- MODULE LinearDC -------------------------------
(***************************************************************************)
(* The exact solver of linear_dc.py: the branches of a network are stamped  *)
(* into a sparse matrix, the matrix is eliminated column by column, and     *)
(* what comes out is verified against the branches before it is returned.   *)
(*                                                                         *)
(* Nodes are numbers, in the order of their names; branches come in the     *)
(* order of their labels.  A rational is a pair in lowest terms.            *)
(***************************************************************************)
EXTENDS Integers, Sequences, FiniteSets, FiniteSetsExt, SequencesExt, Functions

CONSTANTS
  Networks,       \* sequences of branches
  Ground,         \* the ground node
  MaxNumber,      \* no numerator or denominator is greater (_MAX_BITS)
  MaxOperations,  \* limits.max_operations
  MaxNonzeros,    \* limits.max_nonzeros
  Volts,          \* potentials in which the voltages of the sources are looked for
  None

ASSUME LimitAssumption == MaxNumber \in Nat /\ MaxOperations \in Nat /\ MaxNonzeros \in Nat

VARIABLES
  network,    \* checked: the branches
  pc,         \* the loop at work, or how solve_linear_dc ended
  at,         \* the branch it is at
  matrix,     \* _Matrix and its _Work
  column,     \* the columns that were entered
  active,     \* the rows that are no pivots yet
  pivots,     \* the columns with a pivot and its row
  todo,       \* the rows still to be cleared in this column
  result,     \* the unknowns, once substituted
  flows,      \* current and power of each branch that was verified
  residual    \* what the flows leave at each node

elimination == <<column, active, pivots, todo>>
verification == <<flows, residual>>
vars == <<network, pc, at, matrix, elimination, result, verification>>

-----------------------------------------------------------------------------
(***************************************************************************)
(* Fractions.                                                              *)
(***************************************************************************)
Rational(n, d) ==
  LET gcd[a, b \in Nat] == IF b = 0 THEN a ELSE gcd[b, a % b]
      divisor == gcd[IF n < 0 THEN -n ELSE n, IF d < 0 THEN -d ELSE d]
      sign == IF d < 0 THEN -1 ELSE 1
  IN  <<(sign * n) \div divisor, (sign * d) \div divisor>>

Zero == <<0, 1>>
One == <<1, 1>>
Neg(a) == <<-a[1], a[2]>>
Plus(a, b) == Rational(a[1] * b[2] + b[1] * a[2], a[2] * b[2])
Times(a, b) == Rational(a[1] * b[1], a[2] * b[2])
Over(a, b) == Rational(a[1] * b[2], a[2] * b[1])

Fits(a) == a[1] \in -MaxNumber .. MaxNumber /\ a[2] <= MaxNumber

-----------------------------------------------------------------------------
(***************************************************************************)
(* The unknowns: the voltages of the nodes, then the currents of the        *)
(* voltage branches.                                                        *)
(***************************************************************************)
\* A resistor of zero ohms is a source of zero volts.
IsVoltage(b) == b.kind = "voltage" \/ (b.kind = "resistor" /\ b.value = Zero)

Nodes == {Ground} \union UNION {{b.positive, b.negative} : b \in ToSet(network)}
Unknown == Nodes \ {Ground}
Sources == {i \in DOMAIN network : IsVoltage(network[i])}
Unknowns == Cardinality(Unknown) + Cardinality(Sources)

NodeIndex(n) == IF n = Ground THEN None ELSE Cardinality({m \in Unknown : m <= n})
SourceIndex(i) == Cardinality(Unknown) + Cardinality({j \in Sources : j <= i})

-----------------------------------------------------------------------------
(***************************************************************************)
(* _Matrix and _Work.  A matrix that is over one of the budgets is not      *)
(* used any more.                                                          *)
(***************************************************************************)
EmptyMatrix ==
  [rows |-> [r \in 1 .. Unknowns |-> <<>>], columns |-> [c \in 1 .. Unknowns |-> {}],
   rhs |-> [r \in 1 .. Unknowns |-> Zero],
   operations |-> 0, nonzeros |-> 0, peak |-> 0, over |-> FALSE]

\* count operations of arithmetic that lead to the numbers given.
Use(m, count, numbers) ==
  [m EXCEPT !.operations = @ + count,
            !.over = @ \/ m.operations + count > MaxOperations \/ \E a \in numbers : ~Fits(a)]

\* A coefficient that becomes zero is not stored.
Put(m, r, c, value) ==
  LET row == m.rows[r]
      isNew == value # Zero /\ c \notin DOMAIN row
      isGone == value = Zero /\ c \in DOMAIN row
      kept == (DOMAIN row \ {c}) \union {d \in {c} : value # Zero}
  IN  [Use(m, 1, {}) EXCEPT
         !.rows[r] = [d \in kept |-> IF d = c THEN value ELSE row[d]],
         !.columns[c] = IF isNew THEN @ \union {r} ELSE IF isGone THEN @ \ {r} ELSE @,
         !.nonzeros = IF isNew THEN @ + 1 ELSE IF isGone THEN @ - 1 ELSE @,
         !.peak = IF isNew /\ m.nonzeros = @ THEN @ + 1 ELSE @,
         !.over = @ \/ (isNew /\ m.nonzeros = MaxNonzeros)]

Coefficient(m, r, c) == IF c \in DOMAIN m.rows[r] THEN m.rows[r][c] ELSE Zero

AddTo(m, r, c, value) ==
  LET sum == Plus(Coefficient(m, r, c), value) IN Put(Use(m, 1, {sum}), r, c, sum)

Stamp(m, r, c, value) == IF None \in {r, c} THEN m ELSE AddTo(m, r, c, value)
Stamps(m, entries) == FoldLeft(LAMBDA acc, e : Stamp(acc, e[1], e[2], e[3]), m, entries)

Inject(m, r, value) ==
  IF r = None THEN m
  ELSE LET sum == Plus(m.rhs[r], value) IN [Use(m, 1, {sum}) EXCEPT !.rhs[r] = sum]

\* _stamp.
Stamped(m, i) ==
  LET b == network[i]
      p == NodeIndex(b.positive)
      n == NodeIndex(b.negative)
      k == SourceIndex(i)
      g == Over(One, b.value)
  IN  IF IsVoltage(b)
      THEN Inject(Stamps(m, <<<<p, k, One>>, <<k, p, One>>, <<n, k, Neg(One)>>, <<k, n, Neg(One)>>>>), k, b.value)
      ELSE IF b.kind = "current"
      THEN Inject(Inject(m, p, Neg(b.value)), n, b.value)
      ELSE Stamps(Use(m, 1, {g}), <<<<p, p, g>>, <<n, n, g>>, <<p, n, Neg(g)>>, <<n, p, Neg(g)>>>>)

Ascending(s) == SetToSortSeq(s, <)

Cleared_KeepsRhs(m, r, p, c) ==
  LET factor == Over(m.rows[r][c], m.rows[p][c])
      take(acc, d) ==
        LET product == Times(factor, m.rows[p][d])
        IN  AddTo(Use(acc, 1, {product}), r, d, Neg(product))
  IN  FoldLeft(take, Use(m, 1, {factor}), Ascending(DOMAIN m.rows[p]))

\* The multiple of row p that clears column c is taken from row r.
Cleared(m, r, p, c) ==
  LET factor == Over(m.rows[r][c], m.rows[p][c])
      take(acc, d) ==
        LET product == Times(factor, m.rows[p][d])
        IN  AddTo(Use(acc, 1, {product}), r, d, Neg(product))
      product == Times(factor, m.rhs[p])
      sum == Plus(m.rhs[r], Neg(product))
  IN  [Use(FoldLeft(take, Use(m, 1, {factor}), Ascending(DOMAIN m.rows[p])), 2, {product, sum})
         EXCEPT !.rhs[r] = sum]

\* The unknown of column c follows from row r and the unknowns found before.
Substituted(m, r, c) ==
  LET take(acc, d) ==
        LET product == Times(m.rows[r][d], result[d])
            sum == Plus(acc.value, Neg(product))
        IN  [m |-> Use(acc.m, 2, {product, sum}), value |-> sum]
      rest == FoldLeft(take, [m |-> m, value |-> m.rhs[r]], Ascending(DOMAIN m.rows[r] \ {c}))
      value == Over(rest.value, m.rows[r][c])
  IN  [m |-> Use(rest.m, 1, {value}), value |-> value]

-----------------------------------------------------------------------------
Init ==
  /\ network \in Networks
  /\ pc = "stamp" /\ at = 1
  /\ matrix = EmptyMatrix
  /\ column = 0
  /\ active = 1 .. Unknowns
  /\ pivots = <<>> /\ todo = {}
  /\ result = [c \in 1 .. Unknowns |-> Zero]
  /\ flows = <<>>
  /\ residual = [n \in Nodes |-> Zero]

\* The matrix is m now, unless that is over a budget.
Becomes(m) ==
  IF m.over THEN pc' = "exhausted" /\ UNCHANGED matrix
  ELSE matrix' = m /\ UNCHANGED pc

StampBranch ==
  /\ pc = "stamp" /\ at <= Len(network)
  /\ Becomes(Stamped(matrix, at))
  /\ at' = at + 1
  /\ UNCHANGED <<network, elimination, result, verification>>

StartSolving ==
  /\ pc = "stamp" /\ at > Len(network)
  /\ pc' = "eliminate"
  /\ UNCHANGED <<network, at, matrix, elimination, result, verification>>

Entering == pc = "eliminate" /\ todo = {} /\ column < Unknowns

\* The rows that can be pivot of column c.
Candidates(c) == matrix.columns[c] \intersect active

\* A pivot has as few coefficients as any candidate; among those it is the first.
IsPivot(r, candidates) ==
  /\ r \in candidates
  /\ \A s \in candidates :
       LET short == Cardinality(DOMAIN matrix.rows[r])
           other == Cardinality(DOMAIN matrix.rows[s])
       IN  short < other \/ (short = other /\ r <= s)

Entered(c) == Use(matrix, Cardinality(matrix.columns[c]) + 1, {})

SkipColumn ==
  /\ Entering /\ Candidates(column + 1) = {}
  /\ Becomes(Entered(column + 1))
  /\ column' = column + 1
  /\ UNCHANGED <<network, at, active, pivots, todo, result, verification>>

ChoosePivot ==
  /\ Entering
  /\ \E r \in active :
       /\ IsPivot(r, Candidates(column + 1))
       /\ active' = active \ {r}
       /\ pivots' = Append(pivots, <<column + 1, r>>)
       /\ todo' = Candidates(column + 1) \ {r}
  /\ Becomes(Entered(column + 1))
  /\ column' = column + 1
  /\ UNCHANGED <<network, at, result, verification>>

ClearRow ==
  /\ pc = "eliminate"
  /\ \E r \in todo :
       /\ \A s \in todo : r <= s
       /\ Becomes(Cleared(matrix, r, Last(pivots)[2], column))
       /\ todo' = todo \ {r}
  /\ UNCHANGED <<network, at, column, active, pivots, result, verification>>

Verdict_SingularFirst ==
  IF Len(pivots) # Unknowns THEN "singular"
  ELSE IF \E r \in active : matrix.rhs[r] # Zero THEN "inconsistent" ELSE "substitute"

Verdict_AnyRank ==
  IF \E r \in active : matrix.rhs[r] # Zero THEN "inconsistent" ELSE "substitute"

\* A row without coefficients that says something else than 0 = 0 is a
\* contradiction, which comes before a lack of equations.
Verdict ==
  IF \E r \in active : matrix.rhs[r] # Zero THEN "inconsistent"
  ELSE IF Len(pivots) # Unknowns THEN "singular" ELSE "substitute"

EndElimination ==
  /\ pc = "eliminate" /\ todo = {} /\ column = Unknowns
  /\ pc' = Verdict
  /\ UNCHANGED <<network, at, matrix, elimination, result, verification>>

\* From the last pivot back to the first.
Substitute ==
  /\ pc = "substitute" /\ pivots # <<>>
  /\ LET found == Substituted(matrix, Last(pivots)[2], Last(pivots)[1])
     IN  Becomes(found.m) /\ result' = [result EXCEPT ![Last(pivots)[1]] = found.value]
  /\ pivots' = Front(pivots)
  /\ UNCHANGED <<network, at, column, active, todo, verification>>

StartVerifying ==
  /\ pc = "substitute" /\ pivots = <<>>
  /\ pc' = "verify" /\ at' = 1
  /\ UNCHANGED <<network, matrix, elimination, result, verification>>

-----------------------------------------------------------------------------
(***************************************************************************)
(* _outputs.                                                               *)
(***************************************************************************)
Voltage(n) == IF n = Ground THEN Zero ELSE result[NodeIndex(n)]
Difference(b) == Plus(Voltage(b.positive), Neg(Voltage(b.negative)))

Current(i) ==
  LET b == network[i]
  IN  IF IsVoltage(b) THEN result[SourceIndex(i)]
      ELSE IF b.kind = "current" THEN b.value ELSE Over(Difference(b), b.value)

\* A current leaves one node and enters the other, which may be the same.
Left(balance, b, current) ==
  LET out == [balance EXCEPT ![b.positive] = Plus(@, current)]
  IN  [out EXCEPT ![b.negative] = Plus(@, Neg(current))]

Dissipated == FoldLeft(LAMBDA sum, f : Plus(sum, f.power), Zero, flows)

VerifyBranch ==
  /\ pc = "verify" /\ at <= Len(network)
  /\ LET b == network[at]
         d == Difference(b)
         current == Current(at)
         power == Times(d, current)
         after == Left(residual, b, current)
         divisions == IF b.kind = "resistor" /\ ~IsVoltage(b) THEN 1 ELSE 0
     IN  /\ flows' = Append(flows, [current |-> current, power |-> power])
         /\ residual' = after
         /\ IF IsVoltage(b) /\ d # b.value THEN pc' = "failed" /\ UNCHANGED matrix
            ELSE Becomes(Use(matrix, 5 + divisions,
                             {d, current, power, after[b.positive], after[b.negative], Plus(Dissipated, power)}))
  /\ at' = at + 1
  /\ UNCHANGED <<network, elimination, result>>

Publish ==
  /\ pc = "verify" /\ at > Len(network)
  /\ pc' = IF Dissipated = Zero /\ \A n \in Nodes : residual[n] = Zero THEN "solved" ELSE "failed"
  /\ UNCHANGED <<network, at, matrix, elimination, result, verification>>

Next ==
  \/ StampBranch \/ StartSolving
  \/ SkipColumn \/ ChoosePivot \/ ClearRow \/ EndElimination
  \/ Substitute \/ StartVerifying \/ VerifyBranch \/ Publish

Spec == Init /\ [][Next]_vars

-----------------------------------------------------------------------------
(***************************************************************************)
(* Properties.                                                             *)
(***************************************************************************)

\* Every variable stays within its type, and every number kept within the budget.
TypeOK ==
  /\ pc \in {"stamp", "eliminate", "substitute", "verify",
             "solved", "inconsistent", "singular", "exhausted", "failed"}
  /\ at \in 1 .. Len(network) + 1
  /\ column \in 0 .. Unknowns /\ active \subseteq 1 .. Unknowns /\ todo \subseteq active
  /\ pivots \in Seq((1 .. Unknowns) \X (1 .. Unknowns))
  /\ \A r \in 1 .. Unknowns :
       /\ DOMAIN matrix.rows[r] \subseteq 1 .. Unknowns
       /\ \A a \in Range(matrix.rows[r]) \union {matrix.rhs[r]} : Fits(a)
  /\ ~matrix.over

\* What is published satisfies Kirchhoff's current law, ground included, Ohm's
\* law and the sources exactly, and the internal verification that precedes it
\* never fails: elimination and substitution are exact for every network.
SolvedIsOperatingPoint ==
  /\ pc # "failed"
  /\ pc = "solved" =>
       /\ \A i \in DOMAIN network :
            LET b == network[i]
            IN  IF b.kind = "current" THEN flows[i].current = b.value
                ELSE Difference(b) = IF b.kind = "voltage" THEN b.value ELSE Times(b.value, flows[i].current)
       /\ \A n \in Nodes :
            LET leaving == FoldLeftDomain(LAMBDA sum, i : IF network[i].positive = n THEN Plus(sum, flows[i].current) ELSE sum, Zero, network)
                entering == FoldLeftDomain(LAMBDA sum, i : IF network[i].negative = n THEN Plus(sum, flows[i].current) ELSE sum, Zero, network)
            IN  leaving = entering

\* The same network as the audit sees it: names of nodes hold no separators.
NodeName(n) == <<ToString(n)>>
Gate ==
  INSTANCE Solvability WITH
    Zero <- NodeName(Ground), GroundNets <- {}, Netlists <- {}, MaxDevices <- 0, Top <- None,
    netlist <- network, cost <- 0, frames <- <<>>,
    devices <- [i \in DOMAIN network |->
                  [path |-> <<>>,
                   element |-> [kind |-> IF network[i].kind = "voltage" THEN "V"
                                         ELSE IF network[i].kind = "current" THEN "I" ELSE "R"],
                   nodes |-> <<NodeName(network[i].positive), NodeName(network[i].negative)>>]]

Ends(b) == {b.positive, b.negative}
TiedTo(n) == Gate!Reached({n}, {Ends(b) : b \in {c \in ToSet(network) : c.kind # "current"}})
AllTied == \A n \in Nodes : Ground \in TiedTo(n)

\* The branches of given voltage form no loop.
IsForest ==
  LET edges == {Ends(network[i]) : i \in Sources}
  IN  Cardinality(Sources) + Cardinality({Gate!Reached({n}, edges) : n \in Nodes}) = Cardinality(Nodes)

\* Given voltages agree around every loop, and what current sources bring to a
\* part that is tied to no ground they also take from it.
IsConsistent ==
  /\ \E v \in [Nodes -> Volts] :
       \A i \in Sources : Plus(v[network[i].positive], Neg(v[network[i].negative])) = network[i].value
  /\ \A n \in Nodes :
       LET part == TiedTo(n)
           brought(sum, b) ==
             IF b.kind # "current" \/ (b.positive \in part <=> b.negative \in part) THEN sum
             ELSE Plus(sum, IF b.negative \in part THEN b.value ELSE Neg(b.value))
       IN  Ground \in part \/ FoldLeft(brought, Zero, network) = Zero

\* docs/linear-dc.md: "inconsistent" is when the equations have no simultaneous
\* solution, and "singular" when they leave something undetermined.  What
\* elimination says is what the shape of the network implies: there is one
\* operating point exactly when every node is tied to ground and no loop consists
\* of given voltages.
VerdictIsStructural ==
  /\ pc \in {"substitute", "verify", "solved"} => AllTied /\ IsForest
  /\ pc = "singular" => IsConsistent /\ ~(AllTied /\ IsForest)
  /\ pc = "inconsistent" => ~IsConsistent

\* README.md, "Operating points a simulator would refuse": the audit denies no
\* network that has an operating point.  It denies every other network that has a
\* ground, as long as nothing is a source that the audit does not take for one,
\* a resistor of zero ohms, or passes over, a source across one node.
GateAgrees ==
  LET denied == Gate!Islands # {} \/ Gate!SourceLoops # {}
      isSeen(b) == IsVoltage(b) => b.kind = "voltage" /\ b.positive # b.negative
  IN  /\ pc = "solved" => ~denied
      /\ pc \in {"singular", "inconsistent"} /\ Gate!HasGround /\ (\A b \in ToSet(network) : isSeen(b))
           => denied
=============================================================================
