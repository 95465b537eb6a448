--------------------------- MODULE ParameterScopes ---------------------------
(***************************************************************************)
(* What the .param cards that load_include_graph found, and the parameters *)
(* of the calls below the top level, are worth: resolve_declarations of    *)
(* build_circuit_graph in circuit_graph.py.                                *)
(*                                                                         *)
(* A declaration is [name, uses, adds, form]: the sum of the parameters it *)
(* uses and a number, unless it is "malformed" as an assignment or "bad"   *)
(* as an expression.  The calls are those on one path of the hierarchy.    *)
(***************************************************************************)
EXTENDS IncludeReference, TLC

CONSTANTS
  Cards,       \* the declaration of each .param card: a function of its place
  Cells,       \* [header, body]: the declarations of subcircuit definitions
  Overrides,   \* the declarations that a call may bring with it
  MaxNames,    \* names in a scope (128)
  MaxWork,     \* _MAX_PARAMETER_EVALUATIONS
  MaxCalls,    \* bound: how deep the path of calls is followed
  Assessed     \* bound: the directories whose parameters are resolved

VARIABLES
  scopes,   \* for the top level and each call: what was declared and inherited, and values
  work,     \* parameter_work_remaining
  faults    \* GRAPH008: the depth of the scope and what was wrong

parameters == <<scopes, work, faults>>

ParametersInit == Init /\ scopes = <<>> /\ work = MaxWork /\ faults = {}

-----------------------------------------------------------------------------
NamesOf(declared) == {declared[i].name : i \in DOMAIN declared}

\* Of several declarations of a name the last one counts, at the place of the first.
Final(declared, name) ==
  declared[CHOOSE i \in DOMAIN declared :
             declared[i].name = name /\ \A j \in DOMAIN declared : declared[j].name = name => j <= i]

InOrder(declared) ==
  LET first == {i \in DOMAIN declared : \A j \in 1 .. i - 1 : declared[j].name # declared[i].name}
      places == SetToSortSeq(first, <)
  IN  [k \in DOMAIN places |-> declared[places[k]].name]

\* The declarations up to the one that names too many.
Scanned(declared) ==
  LET excess == {i \in DOMAIN declared : Cardinality(NamesOf(SubSeq(declared, 1, i))) > MaxNames}
  IN  IF excess = {} THEN declared
      ELSE SubSeq(declared, 1, CHOOSE i \in excess : \A j \in excess : i <= j)

\* What the caller's scope says stays until it is replaced.
Hiding_None(values, names) == values

\* What is inherited under names that are declared here is hidden.
Hiding(values, names) == [n \in DOMAIN values \ names |-> values[n]]

Evaluable(declaration, values) ==
  declaration.form = "sum" /\ declaration.uses \subseteq DOMAIN values

Value(declaration, values) ==
  declaration.adds + FoldFunctionOnSet(+, 0, values, declaration.uses)

\* One evaluation.  The budget of the whole hierarchy is reported once.
Try(s, declaration) ==
  LET name == declaration.name
  IN  IF s.exhausted THEN s
      ELSE IF s.work = 0 THEN [s EXCEPT !.exhausted = TRUE]
      ELSE IF Evaluable(declaration, s.values)
        THEN [s EXCEPT !.work = @ - 1, !.progress = TRUE,
                       !.values = name :> Value(declaration, @) @@ @,
                       !.pending = SelectSeq(@, LAMBDA n : n # name)]
      ELSE [s EXCEPT !.work = @ - 1]

Pass(s, declared) ==
  IF s.exhausted \/ ~s.progress THEN s
  ELSE FoldLeft(LAMBDA t, name : Try(t, Final(declared, name)), [s EXCEPT !.progress = FALSE], s.pending)

\* Passes over what is pending until one makes no progress.
Passes(declared, inherited) ==
  LET order == InOrder(declared)
      start == [values |-> Hiding(inherited, NamesOf(declared)), pending |-> order,
                work |-> work, progress |-> TRUE, exhausted |-> FALSE]
  IN  FoldLeft(LAMBDA s, k : Pass(s, declared), start, <<0>> \o order)

Kinds(depth, kinds) == {<<depth, kind>> : kind \in kinds}

\* resolve_declarations, for the scope at the next depth.
Resolve(declared, inherited) ==
  LET depth == Len(scopes)
      seen  == Scanned(declared)
      kept  == Hiding(inherited, NamesOf(declared))
      ran   == Passes(declared, inherited)
      malformed == {kind \in {"malformed"} : \E d \in ToSet(seen) : d.form = "malformed"}
      budget == {kind \in {"budget"} : ran.exhausted /\ ~\E f \in faults : f[2] = "budget"}
      unevaluable == {kind \in {"unevaluable"} : ~ran.exhausted /\ ran.pending # <<>>}
      Becomes(values, kinds) ==
        /\ scopes' = Append(scopes, [declared |-> declared, inherited |-> inherited, values |-> values])
        /\ faults' = faults \union Kinds(depth, malformed \union kinds)
  IN  IF Cardinality(NamesOf(declared)) > MaxNames
        THEN Becomes(<<>>, {"names"}) /\ UNCHANGED work
      ELSE IF Cardinality(NamesOf(declared) \union DOMAIN kept) > MaxNames
        THEN Becomes(kept, {"names"}) /\ UNCHANGED work
      ELSE Becomes(ran.values, budget \union unevaluable) /\ work' = ran.work

\* The cards in the order in which the traversal met them.
ResolveTop ==
  /\ pc = "done" /\ disk \in Assessed /\ scopes = <<>>
  /\ Resolve([i \in DOMAIN params |-> Cards[params[i]]], <<>>)

\* child_declarations: the instance after the body, the body after the header.
ResolveCall ==
  /\ Len(scopes) \in 1 .. MaxCalls
  /\ \E cell \in Cells, override \in Overrides :
       Resolve(cell.header \o cell.body \o override, scopes[Len(scopes)].values)

ParametersNext ==
  \/ Next /\ UNCHANGED parameters
  \/ (ResolveTop \/ ResolveCall) /\ UNCHANGED vars

ParametersSpec == ParametersInit /\ [][ParametersNext]_<<vars, parameters>>

-----------------------------------------------------------------------------
\* What a name is worth in a scope by what its declarations say alone: a name
\* that is declared here hides the caller's, its last declaration counts, and
\* that may use names in any order, but not itself.
Meaning(scope) ==
  LET names == NamesOf(scope.declared)
      worth[level \in 0 .. Cardinality(names)] ==
        IF level = 0 THEN Hiding(scope.inherited, names)
        ELSE LET below == worth[level - 1]
                 known == {n \in names : Evaluable(Final(scope.declared, n), below)}
             IN  [n \in known |-> Value(Final(scope.declared, n), below)] @@ below
  IN  worth[Cardinality(names)]

\* No parameter of a scope has another value than its last declaration gives it
\* with the values of that scope, be it the caller's, an overridden or an older
\* one; without a GRAPH008 every one has a value; and one is reported only if
\* a declaration is malformed or has no value, or a budget does not suffice.
ParametersAreLexical ==
  \A i \in DOMAIN scopes :
    LET scope == scopes[i]
        meaning == Meaning(scope)
        names == NamesOf(scope.declared) \union DOMAIN scope.inherited
    IN  /\ DOMAIN scope.values \subseteq DOMAIN meaning
        /\ \A n \in DOMAIN scope.values : scope.values[n] = meaning[n]
        /\ faults = {} => DOMAIN scope.values = names
        /\ \A f \in faults : f[1] = i - 1 =>
             \/ \E d \in ToSet(scope.declared) : d.form = "malformed"
             \/ DOMAIN meaning # names
             \/ Cardinality(names) > MaxNames \/ work = 0
=============================================================================
