------------------------------ MODULE Expansion ------------------------------
(***************************************************************************)
(* The hierarchy of a netlist and its expansion: build_circuit_graph of    *)
(* circuit_graph.py.  The cost of the expansion is bounded first, without  *)
(* expanding; then the instances are listed depth first, with their nodes  *)
(* renamed through the ports of the calls above them.                      *)
(*                                                                         *)
(* A name is the sequence of its parts, with the separators ":" and "/" as  *)
(* parts of their own, so that two names are equal when their texts are.   *)
(* Netlists are written in lower case.  Of a path the sequence of instance *)
(* names is kept; values and parameters are left out.                      *)
(***************************************************************************)
EXTENDS Integers, Sequences, FiniteSets, SequencesExt, Functions

CONSTANTS
  Netlists,      \* [top, defs]: the elements at top level and the subcircuits
  MaxDevices,    \* limits.max_expanded_instances of the policy
  Zero,          \* the node "0"
  None,          \* the model of an element that names none
  Top            \* the scope of the top level

ASSUME LimitAssumption == MaxDevices \in Nat

IsSeq(s) == s \in Seq(ToSet(s))

\* The definitions are finitely many, and no name of one stands for the top level.
ASSUME NetlistAssumption ==
  \A n \in Netlists :
    /\ IsFiniteSet(DOMAIN n.defs) /\ Top \notin DOMAIN n.defs
    /\ IsSeq(n.top) /\ \A e \in ToSet(n.top) : IsSeq(e.nodes)
    /\ \A s \in DOMAIN n.defs :
         /\ IsSeq(n.defs[s].ports) /\ IsSeq(n.defs[s].body)
         /\ \A e \in ToSet(n.defs[s].body) : IsSeq(e.nodes)

VARIABLES
  netlist,   \* what was parsed: top elements; ports and body of each definition
  cost,      \* expanded_instances: the estimate, saturated above the limit
  frames,    \* the calls of expand_elements that are open, outermost first
  devices,   \* expanded_devices in the order of their creation
  pc         \* "cost", "expand" or "done"

vars == <<netlist, cost, frames, devices, pc>>

Defined == DOMAIN netlist.defs
Scopes == Defined \union {Top}
Body(s) == IF s = Top THEN netlist.top ELSE netlist.defs[s].body
Ports(s) == netlist.defs[s].ports

IsCall(e) == e.kind = "X" /\ e.model # None
IsDefinedCall(e) == IsCall(e) /\ e.model \in Defined

-----------------------------------------------------------------------------
Repeats(seq) == Cardinality(ToSet(seq)) # Len(seq)

\* The structural issues of each scope; every one of them denies.
Issues ==
  {code \in {"GRAPH002", "GRAPH003", "GRAPH004", "GRAPH007"} :
     \E s \in Scopes :
       \/ code = "GRAPH002" /\ Repeats([i \in DOMAIN Body(s) |-> Body(s)[i].name])
       \/ code = "GRAPH007" /\ s # Top /\ Repeats(Ports(s))
       \/ \E e \in ToSet(Body(s)) :
            /\ IsCall(e)
            /\ \/ code = "GRAPH003" /\ e.model \notin Defined
               \/ /\ code = "GRAPH004" /\ e.model \in Defined
                  /\ Len(e.nodes) # Len(Ports(e.model))}

Cost_NoRecursionCheck(scope) ==
  LET sum[call \in Scopes \X SUBSET Scopes] ==
        LET body == Body(call[1])
            open == call[2] \union {call[1]}
            below == [i \in DOMAIN body |->
                        IF ~IsDefinedCall(body[i]) \/ body[i].model \in open THEN 0
                        ELSE sum[<<body[i].model, open>>]]
        IN  Len(body) + SumFunction(below)
  IN  sum[<<scope, {}>>]

\* expansion_cost below a scope, called from the scopes in the second component.
\* What the memo keeps does not depend on how a scope was reached: a recursion
\* saturates.
Cost(scope) ==
  LET sum[call \in Scopes \X SUBSET Scopes] ==
        LET body == Body(call[1])
            open == call[2] \union {call[1]}
            below == [i \in DOMAIN body |->
                        IF ~IsDefinedCall(body[i]) THEN 0
                        ELSE IF body[i].model \in open THEN MaxDevices + 1
                        ELSE sum[<<body[i].model, open>>]]
            total == Len(body) + SumFunction(below)
        IN  IF total > MaxDevices /\ \E i \in DOMAIN body : IsDefinedCall(body[i])
            THEN MaxDevices + 1 ELSE total
  IN  sum[<<scope, {}>>]

-----------------------------------------------------------------------------
\* The instance whose body is being expanded.
Frame(scope, path, ports) == [scope |-> scope, path |-> path, ports |-> ports, at |-> 1]

Init ==
  /\ netlist \in Netlists
  /\ cost = 0
  /\ frames = <<>>
  /\ devices = <<>>
  /\ pc = "cost"

Estimate ==
  /\ pc = "cost"
  /\ cost' = Cost(Top)
  /\ frames' = <<Frame(Top, <<>>, <<>>)>>
  /\ pc' = "expand"
  /\ UNCHANGED <<netlist, devices>>

Expanding == pc = "expand" /\ frames # <<>>
Inner == frames[Len(frames)]
HasElement == Inner.at <= Len(Body(Inner.scope))
Element == Body(Inner.scope)[Inner.at]
Full == Len(devices) >= MaxDevices
OpenScopes == {frames[i].scope : i \in DOMAIN frames}

Spelled_LastCall(path, n) == IF path = <<>> THEN n ELSE Last(path) \o <<":">> \o n

\* The name of a node that belongs to an instance: its path, which is "top" and
\* the names of the calls after slashes, a colon and the node.  At top level it
\* is the node alone.
Spelled(path, n) ==
  IF path = <<>> THEN n
  ELSE <<"top">> \o FlattenSeq([i \in DOMAIN path |-> <<"/">> \o path[i]]) \o <<":">> \o n

\* A global node keeps its name, a port takes the node it was passed, and any
\* other node belongs to the instance.
Mapped(n) ==
  IF n = Zero THEN Zero
  ELSE IF n \in DOMAIN Inner.ports THEN Inner.ports[n]
  ELSE Spelled(Inner.path, n)

MappedNodes(e) == [i \in DOMAIN e.nodes |-> Mapped(e.nodes[i])]

Device(e) ==
  [path |-> Inner.path, element |-> e, nodes |-> MappedNodes(e), card |-> <<Inner.scope, Inner.at>>]

Bound_LocalNames(e) == [p \in ToSet(Ports(e.model)) |-> Spelled(Inner.path, p)]

\* zip: the shorter of the two lists ends it, and of a port that is declared
\* twice the last one counts.
Bound(e) ==
  LET ports == Ports(e.model)
      bound == 1 .. (IF Len(ports) < Len(e.nodes) THEN Len(ports) ELSE Len(e.nodes))
  IN  [p \in {ports[i] : i \in bound} |->
         Mapped(e.nodes[CHOOSE i \in bound :
                          ports[i] = p /\ \A j \in bound : ports[j] = p => j <= i])]

Advanced == [frames EXCEPT ![Len(frames)].at = @ + 1]

Opens_Recursive(e) == IsDefinedCall(e) /\ Len(devices) + 1 < MaxDevices

\* The definition of a call is expanded unless it is open already or the budget
\* is spent by the call itself.
Opens(e) ==
  /\ IsDefinedCall(e)
  /\ e.model \notin OpenScopes
  /\ Len(devices) + 1 < MaxDevices

TakeLeaf ==
  /\ Expanding /\ HasElement /\ ~Full
  /\ ~Opens(Element)
  /\ devices' = Append(devices, Device(Element))
  /\ frames' = Advanced
  /\ UNCHANGED <<netlist, cost, pc>>

TakeCall ==
  /\ Expanding /\ HasElement /\ ~Full
  /\ Opens(Element)
  /\ devices' = Append(devices, Device(Element))
  /\ frames' = Append(Advanced,
                      Frame(Element.model, Append(Inner.path, Element.name), Bound(Element)))
  /\ UNCHANGED <<netlist, cost, pc>>

\* The end of a body, or a return because the budget is spent.
Return ==
  /\ Expanding
  /\ ~HasElement \/ Full
  /\ frames' = Front(frames)
  /\ pc' = IF Len(frames) = 1 THEN "done" ELSE pc
  /\ UNCHANGED <<netlist, cost, devices>>

Next == Estimate \/ TakeLeaf \/ TakeCall \/ Return

Spec == Init /\ [][Next]_vars

-----------------------------------------------------------------------------
(***************************************************************************)
(* Properties.                                                             *)
(***************************************************************************)

\* Every variable stays within its type; the open calls are of different scopes,
\* all but the outermost of a subcircuit.  That the cost is a number is for the
\* properties that use it.
TypeOK ==
  /\ netlist \in Netlists
  /\ pc \in {"cost", "expand", "done"}
  /\ IsSeq(frames) /\ IsSeq(devices)
  /\ \A i \in DOMAIN frames :
       /\ frames[i] \in [scope : Scopes, path : {frames[i].path}, ports : {frames[i].ports}, at : Nat]
       /\ frames[i].scope = Top <=> i = 1
       /\ frames[i].at \in 1 .. Len(Body(frames[i].scope)) + 1
       /\ IsSeq(frames[i].path) /\ Len(frames[i].path) = i - 1
  /\ \A i, j \in DOMAIN frames : frames[i].scope = frames[j].scope => i = j
  /\ \A i \in DOMAIN devices : devices[i].element \in UNION {ToSet(Body(s)) : s \in Scopes}

\* Nothing is allocated beyond the budget, whatever the netlist's fan-out or
\* recursion, and the recursion of expand_elements is never deeper than the
\* definitions are many, also when they call one another: the budget alone would
\* let a recursive definition exhaust the interpreter's stack first.
BudgetKept ==
  /\ Len(devices) <= MaxDevices
  /\ Len(frames) <= Cardinality(Scopes)

\* The estimate that no LIM001 questions is exact and the expansion complete:
\* the checks that follow never see a part of a circuit without a finding that
\* denies.  The cost is computed from the definitions alone, so that two pieces
\* of code must agree about recursion, undefined calls and the limit.
CompleteOrDenied ==
  pc = "done" /\ cost <= MaxDevices =>
    /\ Len(devices) = cost
    /\ \A e \in ToSet(netlist.top) : \E d \in ToSet(devices) : d.path = <<>> /\ d.element = e
    /\ \A c \in ToSet(devices) : IsDefinedCall(c.element) =>
         \A e \in ToSet(Body(c.element.model)) :
           \E d \in ToSet(devices) : /\ d.path = Append(c.path, c.element.name)
                                     /\ d.element = e
=============================================================================
