----------------------------- MODULE AuditProofs -----------------------------
(***************************************************************************)
(* Proofs about the expansion of the hierarchy, the checks of the expanded *)
(* circuit and the audit that judges it: types, budgets, nets; what is cut *)
(* off from ground; the independent loops of voltage sources; the shorts   *)
(* between supply rails; what an audit that allows has established.        *)
(***************************************************************************)
EXTENDS AuditGate, FiniteSetTheorems, SequenceTheorems, TLAPS

-----------------------------------------------------------------------------
\* What a sequence is, and what the three ways to change one leave of it.
LEMMA Sequence ==
  ASSUME NEW s, IsSeq(s)
  PROVE  Len(s) \in Nat /\ DOMAIN s = 1 .. Len(s)
BY DEF IsSeq

LEMMA Member ==
  ASSUME NEW s, IsSeq(s), NEW i \in DOMAIN s
  PROVE  s[i] \in ToSet(s)
BY DEF IsSeq, ToSet

LEMMA Widened ==
  ASSUME NEW S, NEW T, S \subseteq T, NEW s \in Seq(S)
  PROVE  s \in Seq(T)
OBVIOUS

LEMMA Own ==
  ASSUME NEW S, NEW s \in Seq(S)
  PROVE  IsSeq(s)
<1>1. s \in [1 .. Len(s) -> ToSet(s)] /\ Len(s) \in Nat
  BY DEF ToSet
<1> QED
  BY <1>1 DEF IsSeq

LEMMA Appended ==
  ASSUME NEW s, IsSeq(s), NEW e
  PROVE  /\ IsSeq(Append(s, e)) /\ Len(Append(s, e)) = Len(s) + 1
         /\ Append(s, e)[Len(s) + 1] = e
         /\ \A i \in DOMAIN s : Append(s, e)[i] = s[i]
<1> DEFINE S == ToSet(s) \union {e}
<1>1. s \in Seq(S)
  BY Widened DEF IsSeq
<1>2. e \in S
  OBVIOUS
<1> HIDE DEF S
<1>3. Append(s, e) \in Seq(S)
  BY <1>1, <1>2
<1>4. IsSeq(Append(s, e))
  BY <1>3, Own
<1>5. Len(Append(s, e)) = Len(s) + 1 /\ Append(s, e)[Len(s) + 1] = e
  BY <1>1, <1>2
<1> QED
  BY <1>1, <1>2, <1>4, <1>5

LEMMA Shortened ==
  ASSUME NEW s, IsSeq(s), s # <<>>
  PROVE  /\ IsSeq(Front(s)) /\ Len(Front(s)) = Len(s) - 1
         /\ \A i \in DOMAIN Front(s) : i \in DOMAIN s /\ Front(s)[i] = s[i]
<1> DEFINE S == ToSet(s)
<1>1. s \in Seq(S)
  BY DEF IsSeq
<1> HIDE DEF S
<1>2. Len(s) \in Nat /\ Len(s) # 0 /\ DOMAIN s = 1 .. Len(s) /\ \A i \in DOMAIN s : s[i] \in S
  BY <1>1
<1>3. /\ SubSeq(s, 1, Len(s) - 1) \in Seq(S)
      /\ Len(SubSeq(s, 1, Len(s) - 1)) = IF 1 <= Len(s) - 1 THEN Len(s) - 1 - 1 + 1 ELSE 0
      /\ \A i \in 1 .. Len(s) - 1 - 1 + 1 : SubSeq(s, 1, Len(s) - 1)[i] = s[1 + i - 1]
  <2>1. Len(s) - 1 \in Int /\ \A i \in 1 .. Len(s) - 1 : s[i] \in S
    BY <1>2
  <2> QED
    BY <2>1, SubSeqProperties
<1>4. IsSeq(Front(s))
  BY <1>3, Own DEF Front
<1>5. Len(Front(s)) = Len(s) - 1
  BY <1>2, <1>3 DEF Front
<1>6. DOMAIN Front(s) = 1 .. Len(s) - 1 /\ DOMAIN s = 1 .. Len(s)
  BY <1>2, <1>4, <1>5, Sequence
<1>7. ASSUME NEW i \in 1 .. Len(s) - 1
      PROVE  SubSeq(s, 1, Len(s) - 1)[i] = s[i]
  BY <1>2, <1>3
<1> QED
  BY <1>2, <1>4, <1>5, <1>6, <1>7 DEF Front

LEMMA Replaced ==
  ASSUME NEW s, IsSeq(s), NEW i \in DOMAIN s, NEW e
  PROVE  /\ IsSeq([s EXCEPT ![i] = e]) /\ Len([s EXCEPT ![i] = e]) = Len(s)
         /\ [s EXCEPT ![i] = e][i] = e
         /\ \A j \in DOMAIN s : j # i => [s EXCEPT ![i] = e][j] = s[j]
<1> DEFINE S == ToSet(s) \union {e}
<1>1. s \in Seq(S)
  BY Widened DEF IsSeq
<1>2. e \in S
  OBVIOUS
<1> HIDE DEF S
<1>3. [s EXCEPT ![i] = e] \in Seq(S)
  BY <1>1, <1>2
<1>4. IsSeq([s EXCEPT ![i] = e])
  BY <1>3, Own
<1> QED
  BY <1>1, <1>2, <1>4

-----------------------------------------------------------------------------
\* What the netlist is.
LEMMA NetlistType ==
  ASSUME netlist \in Netlists
  PROVE  /\ IsFiniteSet(Scopes) /\ Top \in Scopes /\ Top \notin Defined
         /\ \A s \in Scopes : IsSeq(Body(s))
<1>1. IsFiniteSet(Defined) /\ Top \notin Defined
  BY NetlistAssumption DEF Defined
<1>2. IsFiniteSet(Scopes)
  BY <1>1, FS_AddElement DEF Scopes
<1> QED
  BY <1>1, <1>2, NetlistAssumption DEF Defined, Scopes, Body

\* The innermost frame, and its element when it has one.
LEMMA InnerType ==
  ASSUME TypeOK, frames # <<>>
  PROVE  /\ Len(frames) \in DOMAIN frames /\ Len(frames) \in Nat
         /\ DOMAIN frames = 1 .. Len(frames)
         /\ Inner.scope \in Scopes /\ Inner.at \in 1 .. Len(Body(Inner.scope)) + 1
         /\ IsSeq(Inner.path) /\ Len(Inner.path) = Len(frames) - 1
         /\ Len(Body(Inner.scope)) \in Nat
         /\ HasElement => /\ Inner.at + 1 \in 1 .. Len(Body(Inner.scope)) + 1
                          /\ Element \in UNION {ToSet(Body(s)) : s \in Scopes}
<1>1. /\ Len(frames) \in DOMAIN frames /\ Len(frames) \in Nat
      /\ DOMAIN frames = 1 .. Len(frames)
  <2>1. IsSeq(frames)
    BY DEF TypeOK
  <2>2. Len(frames) # 0
    BY <2>1 DEF IsSeq
  <2> QED
    BY <2>1, <2>2, Sequence
<1>2. /\ Inner.scope \in Scopes /\ Inner.at \in 1 .. Len(Body(Inner.scope)) + 1
      /\ IsSeq(Inner.path) /\ Len(Inner.path) = Len(frames) - 1
  BY <1>1 DEF TypeOK, Inner
<1>3. IsSeq(Body(Inner.scope))
  BY <1>2, NetlistType DEF TypeOK
<1>4. Len(Body(Inner.scope)) \in Nat /\ DOMAIN Body(Inner.scope) = 1 .. Len(Body(Inner.scope))
  BY <1>3, Sequence
<1>5. ASSUME HasElement
      PROVE  /\ Inner.at + 1 \in 1 .. Len(Body(Inner.scope)) + 1
             /\ Element \in UNION {ToSet(Body(s)) : s \in Scopes}
  <2>1. Inner.at \in DOMAIN Body(Inner.scope) /\ Inner.at + 1 \in 1 .. Len(Body(Inner.scope)) + 1
    BY <1>2, <1>4, <1>5 DEF HasElement
  <2>2. Element \in ToSet(Body(Inner.scope))
    BY <1>3, <2>1, Member DEF Element
  <2> QED
    BY <1>2, <2>1, <2>2
<1> QED
  BY <1>1, <1>2, <1>4, <1>5

\* Advancing changes nothing of the frames but the position of the innermost.
LEMMA AdvancedType ==
  ASSUME TypeOK, frames # <<>>, HasElement
  PROVE  /\ IsSeq(Advanced) /\ Len(Advanced) = Len(frames)
         /\ \A i \in DOMAIN frames :
              /\ Advanced[i].scope = frames[i].scope /\ Advanced[i].path = frames[i].path
              /\ Advanced[i].at \in 1 .. Len(Body(frames[i].scope)) + 1
              /\ Advanced[i] \in [scope : Scopes, path : {Advanced[i].path}, ports : {Advanced[i].ports}, at : Nat]
<1> DEFINE n == Len(frames)
           f == [frames[n] EXCEPT !.at = frames[n].at + 1]
<1>1. Advanced = [frames EXCEPT ![n] = f]
  BY DEF Advanced
<1>2. IsSeq(frames) /\ n \in DOMAIN frames
  BY InnerType DEF TypeOK
<1>3. /\ IsSeq([frames EXCEPT ![n] = f]) /\ Len([frames EXCEPT ![n] = f]) = Len(frames)
      /\ [frames EXCEPT ![n] = f][n] = f
      /\ \A j \in DOMAIN frames : j # n => [frames EXCEPT ![n] = f][j] = frames[j]
  BY <1>2, Replaced
<1>4. /\ frames[n] \in [scope : Scopes, path : {frames[n].path}, ports : {frames[n].ports}, at : Nat]
      /\ frames[n].at + 1 \in 1 .. Len(Body(frames[n].scope)) + 1
  BY <1>2, InnerType DEF TypeOK, Inner
<1>5. /\ f.scope = frames[n].scope /\ f.path = frames[n].path
      /\ f.at \in 1 .. Len(Body(frames[n].scope)) + 1
      /\ f \in [scope : Scopes, path : {f.path}, ports : {f.ports}, at : Nat]
  BY <1>4
<1> QED
  <2>1. ASSUME NEW i \in DOMAIN frames
        PROVE  /\ Advanced[i].scope = frames[i].scope /\ Advanced[i].path = frames[i].path
               /\ Advanced[i].at \in 1 .. Len(Body(frames[i].scope)) + 1
               /\ Advanced[i] \in [scope : Scopes, path : {Advanced[i].path}, ports : {Advanced[i].ports}, at : Nat]
    <3>1. CASE i = n
      BY <1>1, <1>3, <1>5, <3>1
    <3>2. CASE i # n
      BY <1>1, <1>3, <3>2 DEF TypeOK
    <3> QED
      BY <3>1, <3>2
  <2> QED
    BY <1>1, <1>3, <2>1

-----------------------------------------------------------------------------
\* What TypeOK says of a sequence of frames, in a state with the same netlist.
FramesOK(fs) ==
  /\ IsSeq(fs)
  /\ \A i \in DOMAIN fs :
       /\ fs[i] \in [scope : Scopes, path : {fs[i].path}, ports : {fs[i].ports}, at : Nat]
       /\ fs[i].scope = Top <=> i = 1
       /\ fs[i].at \in 1 .. Len(Body(fs[i].scope)) + 1
       /\ IsSeq(fs[i].path) /\ Len(fs[i].path) = i - 1
  /\ \A i, j \in DOMAIN fs : fs[i].scope = fs[j].scope => i = j

\* The frames an element leaves when it is a leaf.
LEMMA AdvancedOK ==
  ASSUME TypeOK, frames # <<>>, HasElement
  PROVE  FramesOK(Advanced)
<1>1. /\ IsSeq(Advanced) /\ Len(Advanced) = Len(frames)
      /\ \A i \in DOMAIN frames :
           /\ Advanced[i].scope = frames[i].scope /\ Advanced[i].path = frames[i].path
           /\ Advanced[i].at \in 1 .. Len(Body(frames[i].scope)) + 1
           /\ Advanced[i] \in [scope : Scopes, path : {Advanced[i].path}, ports : {Advanced[i].ports}, at : Nat]
  BY AdvancedType
<1>2. DOMAIN Advanced = DOMAIN frames
  BY <1>1, Sequence DEF TypeOK
<1> QED
  BY <1>1, <1>2 DEF FramesOK, TypeOK

\* The frames of a call that is expanded: the new one is of a scope that no open
\* call is of.
LEMMA CalledOK ==
  ASSUME TypeOK, frames # <<>>, HasElement, Opens(Element), NEW ports
  PROVE  FramesOK(Append(Advanced, Frame(Element.model, Append(Inner.path, Element.name), ports)))
<1> DEFINE f == Frame(Element.model, Append(Inner.path, Element.name), ports)
           n == Len(frames)
<1>1. FramesOK(Advanced) /\ Len(Advanced) = n /\ n \in Nat /\ n # 0 /\ DOMAIN Advanced = 1 .. n
  <2>1. FramesOK(Advanced) /\ Len(Advanced) = n /\ n \in Nat /\ n # 0
    BY AdvancedOK, AdvancedType, InnerType
  <2> QED
    BY <2>1, Sequence DEF FramesOK
<1>2. Element.model \in Defined /\ Element.model \notin OpenScopes
  BY DEF Opens, IsDefinedCall
<1>3. IsSeq(f.path) /\ Len(f.path) = n
  <2>1. f.path = Append(Inner.path, Element.name)
    BY DEF Frame
  <2>2. IsSeq(Inner.path) /\ Len(Inner.path) = n - 1
    BY InnerType
  <2>3. IsSeq(Append(Inner.path, Element.name)) /\ Len(Append(Inner.path, Element.name)) = Len(Inner.path) + 1
    BY <2>2, Appended
  <2> HIDE DEF f
  <2>4. IsSeq(f.path)
    BY <2>1, <2>3
  <2> HIDE DEF n
  <2>5. n - 1 + 1 = n
    BY <1>1
  <2>6. Len(f.path) = Len(Inner.path) + 1
    BY <2>1, <2>3
  <2> QED
    BY <2>2, <2>4, <2>5, <2>6
<1>4. Len(Body(f.scope)) \in Nat
  BY <1>2, NetlistType, Sequence DEF TypeOK, Frame, Scopes
<1>5. /\ f \in [scope : Scopes, path : {f.path}, ports : {f.ports}, at : Nat]
      /\ f.scope # Top /\ f.at \in 1 .. Len(Body(f.scope)) + 1
  BY <1>2, <1>4, NetlistType DEF TypeOK, Frame, Scopes
<1>6. \A i \in DOMAIN Advanced : Advanced[i].scope # f.scope
  BY <1>1, <1>2, AdvancedType, InnerType DEF OpenScopes, Frame
<1>7. /\ IsSeq(Append(Advanced, f)) /\ Len(Append(Advanced, f)) = n + 1
      /\ Append(Advanced, f)[n + 1] = f
      /\ \A i \in DOMAIN Advanced : Append(Advanced, f)[i] = Advanced[i]
  <2> HIDE DEF f
  <2> QED
    BY <1>1, Appended DEF FramesOK
<1> HIDE DEF f
<1>8. DOMAIN Append(Advanced, f) = 1 .. n + 1
  BY <1>7, Sequence
<1>9. \A i \in 1 .. n + 1 : i \in 1 .. n \/ i = n + 1
  BY <1>1
<1>10. ASSUME NEW g, g = Append(Advanced, f)
       PROVE  FramesOK(g)
  <2>1. /\ IsSeq(g) /\ DOMAIN g = 1 .. n + 1 /\ g[n + 1] = f
        /\ \A i \in 1 .. n : g[i] = Advanced[i]
    BY <1>1, <1>7, <1>8, <1>10
  <2>2. ASSUME NEW i \in DOMAIN g
        PROVE  /\ g[i] \in [scope : Scopes, path : {g[i].path}, ports : {g[i].ports}, at : Nat]
               /\ g[i].scope = Top <=> i = 1
               /\ g[i].at \in 1 .. Len(Body(g[i].scope)) + 1
               /\ IsSeq(g[i].path) /\ Len(g[i].path) = i - 1
    <3>1. CASE i \in 1 .. n
      BY <1>1, <2>1, <3>1 DEF FramesOK
    <3>2. CASE i = n + 1
      BY <1>1, <1>3, <1>5, <2>1, <3>2
    <3> QED
      BY <1>9, <2>1, <3>1, <3>2
  <2>3. \A i, j \in DOMAIN g : g[i].scope = g[j].scope => i = j
    BY <1>1, <1>6, <1>9, <2>1 DEF FramesOK
  <2> QED
    BY <2>1, <2>2, <2>3 DEF FramesOK
<1> QED
  BY <1>10 DEF f

LEMMA ReturnedOK ==
  ASSUME TypeOK, frames # <<>>
  PROVE  FramesOK(Front(frames))
<1>1. IsSeq(frames)
  BY DEF TypeOK
<1>2. /\ IsSeq(Front(frames))
      /\ \A i \in DOMAIN Front(frames) : i \in DOMAIN frames /\ Front(frames)[i] = frames[i]
  BY <1>1, Shortened
<1> HIDE DEF Front
<1> QED
  BY <1>2 DEF FramesOK, TypeOK

\* A device more.
LEMMA DeviceOK ==
  ASSUME TypeOK, frames # <<>>, HasElement, NEW d, d = Device(Element)
  PROVE  /\ IsSeq(Append(devices, d))
         /\ Len(Append(devices, d)) = Len(devices) + 1 /\ Len(devices) \in Nat
         /\ \A i \in DOMAIN Append(devices, d) :
              Append(devices, d)[i].element \in UNION {ToSet(Body(s)) : s \in Scopes}
<1>1. /\ IsSeq(Append(devices, d)) /\ Len(Append(devices, d)) = Len(devices) + 1
      /\ Append(devices, d)[Len(devices) + 1] = d
      /\ \A i \in DOMAIN devices : Append(devices, d)[i] = devices[i]
  BY Appended DEF TypeOK
<1>2. DOMAIN Append(devices, d) = 1 .. Len(devices) + 1 /\ DOMAIN devices = 1 .. Len(devices) /\ Len(devices) \in Nat
  BY <1>1, Sequence DEF TypeOK
<1>3. d.element \in UNION {ToSet(Body(s)) : s \in Scopes}
  BY InnerType DEF Device
<1>4. \A i \in 1 .. Len(devices) + 1 : i \in DOMAIN devices \/ i = Len(devices) + 1
  BY <1>2
<1> QED
  BY <1>1, <1>2, <1>3, <1>4 DEF TypeOK

-----------------------------------------------------------------------------
IInv == TypeOK /\ Len(devices) <= MaxDevices

LEMMA InitIInv == Init => IInv
<1> SUFFICES ASSUME Init PROVE IInv
  OBVIOUS
<1>1. IsSeq(<<>>) /\ DOMAIN <<>> = {} /\ Len(<<>>) = 0
  BY DEF IsSeq
<1> QED
  BY <1>1, LimitAssumption DEF Init, IInv, TypeOK

\* The parts of the invariant that a step leaves, from the frames and devices it
\* leads to.
LEMMA Kept ==
  ASSUME TypeOK, netlist' = netlist, pc' \in {"cost", "expand", "done"},
         FramesOK(frames'), IsSeq(devices'), Len(devices') <= MaxDevices,
         \A i \in DOMAIN devices' : devices'[i].element \in UNION {ToSet(Body(s)) : s \in Scopes}
  PROVE  IInv'
<1>1. Scopes' = Scopes /\ \A s : Body(s)' = Body(s)
  BY DEF Scopes, Body, Defined
<1> QED
  BY <1>1 DEF FramesOK, IInv, TypeOK

LEMMA NextIInv == IInv /\ [Next]_vars => IInv'
<1> SUFFICES ASSUME IInv, [Next]_vars PROVE IInv'
  OBVIOUS
<1>1. TypeOK /\ Len(devices) \in Nat /\ Len(devices) <= MaxDevices
  BY Sequence DEF IInv, TypeOK
<1>2. CASE Estimate
  <2> DEFINE f == Frame(Top, <<>>, <<>>)
  <2>1. Len(Body(Top)) \in Nat
    BY <1>1, NetlistType, Sequence DEF TypeOK
  <2>2. IsSeq(f.path) /\ Len(f.path) = 0
    BY DEF Frame, IsSeq
  <2>3. f.scope = Top /\ f.at = 1 /\ f \in [scope : Scopes, path : {f.path}, ports : {f.ports}, at : Nat]
    BY <1>1, NetlistType DEF TypeOK, Frame
  <2> HIDE DEF f
  <2>4. IsSeq(<<f>>) /\ DOMAIN <<f>> = {1} /\ <<f>>[1] = f
    <3>1. <<f>> \in Seq({f})
      OBVIOUS
    <3>2. IsSeq(<<f>>)
      BY <3>1, Own
    <3> QED
      BY <3>2
  <2>5. FramesOK(<<f>>)
    BY <2>1, <2>2, <2>3, <2>4 DEF FramesOK
  <2>6. frames' = <<f>>
    BY <1>2 DEF Estimate, f
  <2>7. netlist' = netlist /\ devices' = devices /\ pc' = "expand"
    BY <1>2 DEF Estimate
  <2> QED
    BY <1>1, <2>5, <2>6, <2>7, Kept DEF TypeOK
<1>3. CASE TakeLeaf
  <2>1. /\ frames # <<>> /\ HasElement /\ Len(devices) + 1 <= MaxDevices /\ pc = "expand"
        /\ devices' = Append(devices, Device(Element)) /\ frames' = Advanced
        /\ netlist' = netlist /\ pc' = pc
    BY <1>1, <1>3, LimitAssumption DEF TakeLeaf, Expanding, Full
  <2>2. FramesOK(frames')
    BY <1>1, <2>1, AdvancedOK
  <2>3. /\ IsSeq(devices') /\ Len(devices') <= MaxDevices
        /\ \A i \in DOMAIN devices' : devices'[i].element \in UNION {ToSet(Body(s)) : s \in Scopes}
    BY <1>1, <2>1, DeviceOK
  <2> QED
    BY <1>1, <2>1, <2>2, <2>3, Kept
<1>4. CASE TakeCall
  <2>1. /\ frames # <<>> /\ HasElement /\ Opens(Element) /\ Len(devices) + 1 <= MaxDevices /\ pc = "expand"
        /\ devices' = Append(devices, Device(Element))
        /\ frames' = Append(Advanced, Frame(Element.model, Append(Inner.path, Element.name), Bound(Element)))
        /\ netlist' = netlist /\ pc' = pc
    BY <1>1, <1>4, LimitAssumption DEF TakeCall, Expanding, Full
  <2>2. FramesOK(frames')
    BY <1>1, <2>1, CalledOK
  <2>3. /\ IsSeq(devices') /\ Len(devices') <= MaxDevices
        /\ \A i \in DOMAIN devices' : devices'[i].element \in UNION {ToSet(Body(s)) : s \in Scopes}
    BY <1>1, <2>1, DeviceOK
  <2> QED
    BY <1>1, <2>1, <2>2, <2>3, Kept
<1>5. CASE Return
  <2>1. frames # <<>> /\ frames' = Front(frames) /\ netlist' = netlist /\ devices' = devices
    BY <1>5 DEF Return, Expanding
  <2>2. pc' \in {"cost", "expand", "done"}
    BY <1>1, <1>5 DEF Return, TypeOK
  <2>3. FramesOK(frames')
    BY <1>1, <2>1, ReturnedOK
  <2> QED
    BY <1>1, <2>1, <2>2, <2>3, Kept DEF TypeOK
<1>6. CASE UNCHANGED vars
  BY <1>1, <1>6 DEF vars, IInv, TypeOK, Scopes, Body, Defined
<1> QED
  BY <1>2, <1>3, <1>4, <1>5, <1>6 DEF Next

\* Every variable keeps its type, and no scope is expanded within itself.
THEOREM TypeCorrect == Spec => []TypeOK
<1>1. IInv => TypeOK
  BY DEF IInv
<1> QED
  BY InitIInv, NextIInv, <1>1, PTL DEF Spec

\* circuit_graph.py:359 and 374: nothing is allocated beyond the budget, and the
\* recursion is at most as deep as the definitions are many, because the open
\* calls are of different scopes.
THEOREM BudgetBounds == Spec => []BudgetKept
<1>1. ASSUME IInv PROVE BudgetKept
  <2> DEFINE n == Len(frames)
             f == [i \in 1 .. n |-> frames[i].scope]
  <2>1. n \in Nat /\ DOMAIN frames = 1 .. n
    BY <1>1, Sequence DEF IInv, TypeOK
  <2>2. f \in [1 .. n -> Scopes] /\ \A i, j \in 1 .. n : f[i] = f[j] => i = j
    BY <1>1, <2>1 DEF IInv, TypeOK
  <2>3. f \in Injection(1 .. n, Scopes)
    BY <2>2 DEF Injection, IsInjective
  <2>4. IsFiniteSet(Scopes)
    BY <1>1, NetlistType DEF IInv, TypeOK
  <2> HIDE DEF f, n
  <2>5. Cardinality(1 .. n) <= Cardinality(Scopes)
    BY <2>3, <2>4, FS_Injection
  <2>6. 1 \in Int /\ n \in Int
    BY <2>1
  <2>7. Cardinality(1 .. n) = IF 1 > n THEN 0 ELSE n - 1 + 1
    BY <2>6, FS_Interval
  <2>8. Cardinality(1 .. n) = n
    BY <2>1, <2>7
  <2> QED
    BY <1>1, <2>5, <2>8 DEF BudgetKept, IInv, n
<1> QED
  BY InitIInv, NextIInv, <1>1, PTL DEF Spec

-----------------------------------------------------------------------------
(* Induction and recursion over finite sets. *)

\* Induction on the natural numbers, for a set of them.
LEMMA SetOfAllNaturals ==
  ASSUME NEW S \in SUBSET Nat, 0 \in S, \A k \in S : k + 1 \in S
  PROVE  S = Nat
<1> DEFINE T == Nat \ S
<1>1. SUFFICES ASSUME T # {} PROVE FALSE
  OBVIOUS
<1>2. PICK m \in T : \A k \in T : <<k, m>> \notin OpToRel(<, Nat)
  <2>1. T \subseteq Nat
    OBVIOUS
  <2> HIDE DEF T
  <2> QED
    BY <1>1, <2>1, WFMin, NatLessThanWellFounded, Zenon
<1>3. \A k \in T : ~(k < m)
  BY <1>2 DEF OpToRel
<1>4. m - 1 \notin T /\ m # 0 /\ m \in Nat /\ m \notin S
  BY <1>3
<1> QED
  BY <1>4

Some(s) == CHOOSE x \in s : TRUE

\* Induction on the subsets of a finite set, for a set of them.
LEMMA SetInduction ==
  ASSUME NEW D, IsFiniteSet(D), NEW P \in SUBSET (SUBSET D),
         \A s \in SUBSET D : (\A x \in s : s \ {x} \in P) => s \in P
  PROVE  P = SUBSET D
<1> DEFINE S == {k \in Nat : \A s \in SUBSET D : Cardinality(s) <= k => s \in P}
<1>1. \A s \in SUBSET D : IsFiniteSet(s) /\ Cardinality(s) \in Nat
  BY FS_Subset, FS_CardinalityType
<1>2. 0 \in S
  <2>1. ASSUME NEW s \in SUBSET D, Cardinality(s) <= 0
        PROVE  s \in P
    <3>1. s = {}
      BY <1>1, <2>1, FS_EmptySet
    <3> QED
      BY <3>1
  <2> QED
    BY <2>1
<1>3. ASSUME NEW k \in S
      PROVE  k + 1 \in S
  <2>1. ASSUME NEW s \in SUBSET D, Cardinality(s) <= k + 1
        PROVE  s \in P
    <3>1. ASSUME NEW x \in s
          PROVE  s \ {x} \in P
      <4>1. Cardinality(s \ {x}) = Cardinality(s) - 1
        BY <1>1, FS_RemoveElement
      <4> QED
        BY <1>1, <2>1, <4>1
    <3> QED
      BY <3>1
  <2> QED
    BY <2>1
<1>4. S = Nat
  <2>1. S \in SUBSET Nat
    OBVIOUS
  <2> HIDE DEF S
  <2> QED
    BY <1>2, <1>3, <2>1, SetOfAllNaturals
<1>5. ASSUME NEW s \in SUBSET D
      PROVE  s \in P
  <2>1. Cardinality(s) \in S
    BY <1>1, <1>4
  <2> QED
    BY <1>1, <2>1
<1> QED
  BY <1>5

\* What is taken from a set can be combined with what the rest comes to, whichever
\* element is picked first.
PickStep(base, step, pick, it, s) ==
  IF s = {} THEN base ELSE step[<<pick[s], it[s \ {pick[s]}]>>]

PickFold(D, V, base, step, pick, it) ==
  it \in [SUBSET D -> V] /\ \A s \in SUBSET D : it[s] = PickStep(base, step, pick, it, s)

LEMMA PickRecursion ==
  ASSUME NEW D, IsFiniteSet(D), NEW V, NEW base \in V, NEW step \in [D \X V -> V],
         NEW pick, \A s \in SUBSET D : s # {} => pick[s] \in s
  PROVE  \E it : PickFold(D, V, base, step, pick, it)
<1> DEFINE Upto(g, k) == \A s \in SUBSET D : Cardinality(s) <= k => g[s] = PickStep(base, step, pick, g, s)
           S == {k \in Nat : \E g \in [SUBSET D -> V] : Upto(g, k)}
<1>1. \A s \in SUBSET D : IsFiniteSet(s) /\ Cardinality(s) \in Nat /\ Cardinality(s) <= Cardinality(D)
  BY FS_Subset, FS_CardinalityType
<1>2. ASSUME NEW s \in SUBSET D, s # {}
      PROVE  /\ pick[s] \in D /\ s \ {pick[s]} \in SUBSET D
             /\ Cardinality(s \ {pick[s]}) = Cardinality(s) - 1
  <2>1. pick[s] \in s
    BY <1>2
  <2>2. Cardinality(s \ {pick[s]}) = Cardinality(s) - 1
    BY <1>1, <2>1, FS_RemoveElement
  <2> QED
    BY <2>1, <2>2
<1>3. 0 \in S
  <2> DEFINE g == [s \in SUBSET D |-> base]
  <2>1. g \in [SUBSET D -> V]
    OBVIOUS
  <2>2. ASSUME NEW s \in SUBSET D, Cardinality(s) <= 0
        PROVE  g[s] = PickStep(base, step, pick, g, s)
    <3>1. s = {}
      BY <1>1, <2>2, FS_EmptySet
    <3> QED
      BY <3>1 DEF PickStep
  <2> HIDE DEF g
  <2> QED
    BY <2>1, <2>2
<1>4. ASSUME NEW k \in S
      PROVE  k + 1 \in S
  <2>1. PICK g \in [SUBSET D -> V] : Upto(g, k)
    OBVIOUS
  <2> DEFINE h == [s \in SUBSET D |-> PickStep(base, step, pick, g, s)]
  <2>2. ASSUME NEW s \in SUBSET D
        PROVE  PickStep(base, step, pick, g, s) \in V
    <3>1. CASE s = {}
      BY <3>1 DEF PickStep
    <3>2. CASE s # {}
      <4>1. pick[s] \in D /\ g[s \ {pick[s]}] \in V
        BY <1>2, <3>2
      <4>2. step[<<pick[s], g[s \ {pick[s]}]>>] \in V
        BY <4>1
      <4> QED
        BY <3>2, <4>2 DEF PickStep
    <3> QED
      BY <3>1, <3>2
  <2>3. h \in [SUBSET D -> V] /\ \A s \in SUBSET D : h[s] = PickStep(base, step, pick, g, s)
    BY <2>2
  <2> HIDE DEF h
  <2>4. ASSUME NEW s \in SUBSET D, Cardinality(s) <= k + 1
        PROVE  h[s] = PickStep(base, step, pick, h, s)
    <3>1. CASE s = {}
      BY <2>3, <3>1 DEF PickStep
    <3>2. CASE s # {}
      <4> DEFINE t == s \ {pick[s]}
      <4>1. t \in SUBSET D /\ Cardinality(t) <= k
        BY <1>1, <1>2, <2>4, <3>2
      <4>2. h[t] = g[t]
        BY <2>1, <2>3, <4>1
      <4> HIDE DEF t
      <4> QED
        BY <2>3, <3>2, <4>2 DEF PickStep, t
    <3> QED
      BY <3>1, <3>2
  <2> QED
    BY <2>3, <2>4
<1>5. S = Nat
  <2>1. S \in SUBSET Nat
    OBVIOUS
  <2> HIDE DEF S
  <2> QED
    BY <1>3, <1>4, <2>1, SetOfAllNaturals
<1>6. Cardinality(D) \in S
  BY <1>1, <1>5
<1> QED
  BY <1>1, <1>6 DEF PickFold

Step(base, step, it, s) == IF s = {} THEN base ELSE step[<<Some(s), it[s \ {Some(s)}]>>]

LEMMA SetRecursion ==
  ASSUME NEW D, IsFiniteSet(D), NEW V, NEW base \in V, NEW step \in [D \X V -> V]
  PROVE  \E it \in [SUBSET D -> V] : \A s \in SUBSET D : it[s] = Step(base, step, it, s)
<1> DEFINE pick == [s \in SUBSET D |-> Some(s)]
<1>1. \A s \in SUBSET D : pick[s] = Some(s) /\ (s # {} => pick[s] \in s)
  BY DEF Some
<1> HIDE DEF pick
<1>2. PICK it : PickFold(D, V, base, step, pick, it)
  <2>1. \A s \in SUBSET D : s # {} => pick[s] \in s
    BY <1>1
  <2> QED
    BY <2>1, PickRecursion
<1>3. ASSUME NEW s \in SUBSET D
      PROVE  it[s] = Step(base, step, it, s)
  <2>1. pick[s] = Some(s) /\ it[s] = PickStep(base, step, pick, it, s)
    BY <1>1, <1>2 DEF PickFold
  <2> QED
    BY <2>1 DEF PickStep, Step
<1> QED
  BY <1>2, <1>3 DEF PickFold

-----------------------------------------------------------------------------
(* Groups of nodes that are connected. *)

\* A set of nodes that no edge leaves.
Closed(c, edges) == \A e \in edges : e \intersect c # {} => e \subseteq c

\* The groups are the connected components of the edges.
AreComponents(groups, edges) ==
  /\ UNION groups = UNION edges /\ {} \notin groups
  /\ \A g, h \in groups : g \intersect h # {} => g = h
  /\ \A e \in edges : \E g \in groups : e \subseteq g
  /\ \A g \in groups : \A c : Closed(c, edges) /\ c \intersect g # {} => g \subseteq c

\* No edge leaves a group.
LEMMA GroupsClosed ==
  ASSUME NEW groups, NEW edges, AreComponents(groups, edges), NEW g \in groups
  PROVE  Closed(g, edges)
<1> SUFFICES ASSUME NEW e \in edges, e \intersect g # {}
             PROVE  e \subseteq g
  BY DEF Closed
<1>1. PICK h \in groups : e \subseteq h
  BY DEF AreComponents
<1>2. g \intersect h # {}
  BY <1>1
<1> QED
  BY <1>1, <1>2 DEF AreComponents

\* The complement of what no edge leaves is left by none either.
LEMMA ComplementClosed ==
  ASSUME NEW c, NEW edges, Closed(c, edges), NEW U, UNION edges \subseteq U
  PROVE  Closed(U \ c, edges)
BY DEF Closed

\* There is only one way to group the nodes of the edges.
LEMMA ComponentsUnique ==
  ASSUME NEW edges, NEW groups, NEW others, AreComponents(groups, edges), AreComponents(others, edges)
  PROVE  groups \subseteq others
<1> SUFFICES ASSUME NEW g \in groups
             PROVE  g \in others
  OBVIOUS
<1>1. PICK n : n \in g
  BY DEF AreComponents
<1>2. PICK h \in others : n \in h
  BY <1>1 DEF AreComponents
<1>3. Closed(g, edges) /\ Closed(h, edges)
  BY GroupsClosed
<1>4. g \subseteq h /\ h \subseteq g
  BY <1>1, <1>2, <1>3 DEF AreComponents
<1> QED
  BY <1>2, <1>4

LEMMA NoComponents == AreComponents({}, {})
BY DEF AreComponents

\* Uniting the groups that an edge meets.
LEMMA UniteComponents ==
  ASSUME NEW groups, NEW edges, NEW e, e # {}, AreComponents(groups, edges)
  PROVE  AreComponents(Unite(groups, e), edges \union {e})
<1> DEFINE met == {g \in groups : g \intersect e # {}}
           new == e \union UNION met
           all == edges \union {e}
           gs == (groups \ met) \union {new}
<1>1. Unite(groups, e) = gs
  BY DEF Unite
<1>2. UNION gs = UNION all
  <2>1. UNION groups = UNION edges
    BY DEF AreComponents
  <2>2. UNION gs = (UNION (groups \ met)) \union new
    OBVIOUS
  <2>3. UNION all = (UNION edges) \union e
    OBVIOUS
  <2>4. (UNION (groups \ met)) \union new = (UNION groups) \union e
    OBVIOUS
  <2> QED
    BY <2>1, <2>2, <2>3, <2>4
<1>3. {} \notin gs
  BY DEF AreComponents
<1>4. ASSUME NEW g \in groups, g \notin met
      PROVE  g \intersect new = {}
  BY <1>4 DEF AreComponents
<1>5. ASSUME NEW g \in gs, NEW h \in gs, g \intersect h # {}
      PROVE  g = h
  <2>1. CASE g \in groups \ met /\ h \in groups \ met
    BY <1>5, <2>1 DEF AreComponents
  <2>2. CASE g \in groups \ met /\ h = new
    BY <1>4, <1>5, <2>2
  <2>3. CASE g = new /\ h \in groups \ met
    BY <1>4, <1>5, <2>3
  <2> QED
    BY <2>1, <2>2, <2>3
<1>6. ASSUME NEW x \in all
      PROVE  \E g \in gs : x \subseteq g
  <2>1. CASE x = e
    <3>1. new \in gs /\ e \subseteq new
      OBVIOUS
    <3> HIDE DEF gs, new
    <3> QED
      BY <2>1, <3>1
  <2>2. CASE x \in edges
    <3>1. PICK g \in groups : x \subseteq g
      BY <2>2 DEF AreComponents
    <3>2. g \in gs \/ (g \subseteq new /\ new \in gs)
      OBVIOUS
    <3> HIDE DEF gs, new
    <3> QED
      BY <3>1, <3>2
  <2> QED
    BY <2>1, <2>2
<1>7. ASSUME NEW g \in gs, NEW c, Closed(c, all), c \intersect g # {}
      PROVE  g \subseteq c
  <2>1. Closed(c, edges) /\ (e \intersect c # {} => e \subseteq c)
    BY <1>7 DEF Closed
  <2>2. \A h \in groups : c \intersect h # {} => h \subseteq c
    BY <2>1 DEF AreComponents
  <2>3. CASE g \in groups
    BY <1>7, <2>2, <2>3
  <2>4. CASE g = new
    <3>1. e \intersect c # {}
      <4>1. CASE e \intersect c = {}
        <5>1. PICK h \in met : h \intersect c # {}
          BY <1>7, <2>4, <4>1
        <5>2. h \subseteq c
          BY <2>2, <5>1
        <5> QED
          BY <5>2
      <4> QED
        BY <4>1
    <3>2. \A h \in met : h \subseteq c
      BY <2>1, <2>2, <3>1
    <3> QED
      BY <2>1, <2>4, <3>1, <3>2
  <2> QED
    BY <2>3, <2>4
<1> HIDE DEF gs, all
<1>8. AreComponents(gs, all)
  BY <1>2, <1>3, <1>5, <1>6, <1>7 DEF AreComponents
<1> QED
  BY <1>1, <1>8 DEF all

\* An edge within a group changes nothing.
LEMMA EdgeWithin ==
  ASSUME NEW groups, NEW edges, NEW e, AreComponents(groups, edges), NEW g \in groups, e \subseteq g
  PROVE  AreComponents(groups, edges \union {e})
<1>1. UNION groups = UNION (edges \union {e})
  <2>1. UNION groups = UNION edges
    BY DEF AreComponents
  <2> QED
    BY <2>1
<1>2. \A c : Closed(c, edges \union {e}) => Closed(c, edges)
  BY DEF Closed
<1>3. \A x \in edges \union {e} : \E h \in groups : x \subseteq h
  BY DEF AreComponents
<1>4. \A h \in groups : \A c : Closed(c, edges \union {e}) /\ c \intersect h # {} => h \subseteq c
  BY <1>2 DEF AreComponents
<1> HIDE DEF Closed
<1>5. {} \notin groups /\ \A h, k \in groups : h \intersect k # {} => h = k
  BY DEF AreComponents
<1> QED
  BY <1>1, <1>3, <1>4, <1>5, Zenon DEF AreComponents

-----------------------------------------------------------------------------
(* Merging edge by edge. *)

MergeAt(base, e, it, s) == IF s = {} THEN base ELSE Unite(it[s \ {Some(s)}], e[Some(s)])

LEMMA UniteWithin ==
  ASSUME NEW U, NEW groups \in SUBSET SUBSET U, NEW e \in SUBSET U
  PROVE  Unite(groups, e) \in SUBSET SUBSET U
BY DEF Unite

Merges(S, base, e, g) == g = [s \in SUBSET S |-> MergeAt(base, e, g, s)]

LEMMA MergeExists ==
  ASSUME NEW S, IsFiniteSet(S), NEW base, NEW e
  PROVE  \E g : Merges(S, base, e, g)
<1> DEFINE U == (UNION base) \union UNION {e[i] : i \in S}
           V == SUBSET SUBSET U
           step == [p \in S \X V |-> Unite(p[2], e[p[1]])]
<1>1. step \in [S \X V -> V] /\ \A x \in S, v \in V : step[<<x, v>>] = Unite(v, e[x])
  <2>1. ASSUME NEW x \in S, NEW v \in V
        PROVE  Unite(v, e[x]) \in V
    <3>1. e[x] \in SUBSET U
      OBVIOUS
    <3> HIDE DEF U
    <3> QED
      BY <3>1, UniteWithin
  <2> HIDE DEF V
  <2>2. \A p \in S \X V : p[1] \in S /\ p[2] \in V
    OBVIOUS
  <2> QED
    BY <2>1, <2>2
<1>2. base \in V
  OBVIOUS
<1> HIDE DEF step, V
<1>3. PICK g \in [SUBSET S -> V] : \A s \in SUBSET S : g[s] = Step(base, step, g, s)
  <2>1. \A v : \A b \in v, add \in [S \X v -> v] :
          \E g \in [SUBSET S -> v] : \A s \in SUBSET S : g[s] = Step(b, add, g, s)
    BY SetRecursion
  <2> QED
    BY <1>1, <1>2, <2>1, Zenon
<1>4. ASSUME NEW s \in SUBSET S
      PROVE  g[s] = MergeAt(base, e, g, s)
  <2>1. CASE s = {}
    BY <1>3, <2>1 DEF Step, MergeAt
  <2>2. CASE s # {}
    <3>1. Some(s) \in S /\ g[s \ {Some(s)}] \in V
      BY <2>2 DEF Some
    <3> QED
      BY <1>1, <1>3, <2>2, <3>1 DEF Step, MergeAt
  <2> QED
    BY <2>1, <2>2
<1> QED
  BY <1>4 DEF Merges

\* What merging leads to are the components of all edges, in whatever order they
\* were taken.
LEMMA MergeIsComponents ==
  ASSUME NEW S, IsFiniteSet(S), NEW base, NEW edges, AreComponents(base, edges),
         NEW e, \A i \in S : e[i] # {}, NEW g, Merges(S, base, e, g),
         NEW all, all = edges \union {e[i] : i \in S}
  PROVE  AreComponents(g[S], all)
<1> DEFINE P == {s \in SUBSET S : AreComponents(g[s], edges \union {e[i] : i \in s})}
<1>1. \A s \in SUBSET S : g[s] = MergeAt(base, e, g, s)
  BY DEF Merges
<1>2. ASSUME NEW s \in SUBSET S, \A x \in s : s \ {x} \in P
      PROVE  s \in P
  <2>1. CASE s = {}
    <3>1. g[s] = base /\ edges \union {e[i] : i \in s} = edges
      BY <1>1, <2>1 DEF MergeAt
    <3> QED
      BY <3>1
  <2>2. CASE s # {}
    <3> DEFINE x == Some(s)
               t == s \ {x}
    <3>1. x \in s
      BY <2>2 DEF Some
    <3>2. g[s] = Unite(g[t], e[x])
      BY <1>1, <2>2 DEF MergeAt
    <3> HIDE DEF x
    <3>3. AreComponents(g[t], edges \union {e[i] : i \in t}) /\ e[x] # {}
      BY <1>2, <3>1
    <3>4. (edges \union {e[i] : i \in t}) \union {e[x]} = edges \union {e[i] : i \in s}
      BY <3>1
    <3>5. AreComponents(Unite(g[t], e[x]), (edges \union {e[i] : i \in t}) \union {e[x]})
      BY <3>3, UniteComponents
    <3> QED
      BY <3>2, <3>4, <3>5
  <2> QED
    BY <2>1, <2>2
<1>3. P = SUBSET S
  <2>1. P \in SUBSET (SUBSET S) /\ \A s \in SUBSET S : (\A x \in s : s \ {x} \in P) => s \in P
    BY <1>2
  <2> HIDE DEF P
  <2> QED
    BY <2>1, SetInduction
<1> QED
  BY <1>3

\* The folds of the model are such merges: of pairs of nodes ...
PairsMerge(base, S) ==
  CHOOSE it : it = [s \in SUBSET S |-> IF s = {} THEN base ELSE Unite(it[s \ {Some(s)}], Some(s))]

LEMMA PairsFold ==
  ASSUME NEW S, NEW base
  PROVE  FoldSet(LAMBDA pair, gs : Unite(gs, pair), base, S) = PairsMerge(base, S)[S]
BY Zenon DEF FoldSet, MapThenFoldSet, Some, PairsMerge

LEMMA PairsIsMerge ==
  ASSUME NEW S, IsFiniteSet(S), NEW base
  PROVE  Merges(S, base, [i \in S |-> i], PairsMerge(base, S))
<1> DEFINE e == [i \in S |-> i]
           fold == PairsMerge(base, S)
<1>1. ASSUME NEW g
      PROVE  Merges(S, base, e, g) <=> g = [s \in SUBSET S |-> IF s = {} THEN base ELSE Unite(g[s \ {Some(s)}], Some(s))]
  <2>1. ASSUME NEW s \in SUBSET S, s # {}
        PROVE  e[Some(s)] = Some(s)
    BY <2>1 DEF Some
  <2> HIDE DEF e
  <2>2. \A s \in SUBSET S : MergeAt(base, e, g, s) = IF s = {} THEN base ELSE Unite(g[s \ {Some(s)}], Some(s))
    BY <2>1 DEF MergeAt
  <2> QED
    BY <2>2, Zenon DEF Merges
<1> HIDE DEF e
<1>2. \E g : Merges(S, base, e, g)
  BY MergeExists
<1>3. fold = [s \in SUBSET S |-> IF s = {} THEN base ELSE Unite(fold[s \ {Some(s)}], Some(s))]
  BY <1>1, <1>2, Zenon DEF PairsMerge
<1>4. Merges(S, base, e, fold)
  BY <1>1, <1>3, Zenon
<1> QED
  BY <1>4 DEF e

LEMMA PairsMerged ==
  ASSUME NEW S, IsFiniteSet(S), NEW base, NEW edges, AreComponents(base, edges), {} \notin S
  PROVE  AreComponents(PairsMerge(base, S)[S], edges \union S)
<1> DEFINE e == [i \in S |-> i]
<1>1. Merges(S, base, e, PairsMerge(base, S))
  BY PairsIsMerge
<1> DEFINE all == edges \union S
<1>2. (\A i \in S : e[i] # {}) /\ all = edges \union {e[i] : i \in S}
  OBVIOUS
<1> HIDE DEF e, all
<1>3. AreComponents(PairsMerge(base, S)[S], all)
  BY <1>1, <1>2, MergeIsComponents
<1> QED
  BY <1>3 DEF all

\* ... and of the ends of devices.
EndsMerge(S) ==
  CHOOSE it : it = [s \in SUBSET S |-> IF s = {} THEN {} ELSE Unite(it[s \ {Some(s)}], Ends(Some(s)))]

LEMMA EndsFold ==
  ASSUME NEW S
  PROVE  FoldSet(LAMBDA i, gs : Unite(gs, Ends(i)), {}, S) = EndsMerge(S)[S]
BY Zenon DEF FoldSet, MapThenFoldSet, Some, EndsMerge

LEMMA EndsMerged ==
  ASSUME NEW S, IsFiniteSet(S)
  PROVE  AreComponents(EndsMerge(S)[S], {Ends(i) : i \in S})
<1> DEFINE e == [i \in S |-> Ends(i)]
           fold == EndsMerge(S)
<1>1. ASSUME NEW g
      PROVE  Merges(S, {}, e, g) <=> g = [s \in SUBSET S |-> IF s = {} THEN {} ELSE Unite(g[s \ {Some(s)}], Ends(Some(s)))]
  <2>1. ASSUME NEW s \in SUBSET S, s # {}
        PROVE  e[Some(s)] = Ends(Some(s))
    BY <2>1 DEF Some
  <2> HIDE DEF e
  <2>2. \A s \in SUBSET S : MergeAt({}, e, g, s) = IF s = {} THEN {} ELSE Unite(g[s \ {Some(s)}], Ends(Some(s)))
    BY <2>1 DEF MergeAt
  <2> QED
    BY <2>2, Zenon DEF Merges
<1>2. (\A i \in S : e[i] # {}) /\ {Ends(i) : i \in S} = {} \union {e[i] : i \in S}
  BY DEF Ends
<1> HIDE DEF e
<1>3. \E g : Merges(S, {}, e, g)
  BY MergeExists
<1>4. fold = [s \in SUBSET S |-> IF s = {} THEN {} ELSE Unite(fold[s \ {Some(s)}], Ends(Some(s)))]
  BY <1>1, <1>3, Zenon DEF EndsMerge
<1>5. Merges(S, {}, e, fold)
  BY <1>1, <1>4, Zenon
<1> HIDE DEF fold
<1>6. AreComponents(fold[S], {Ends(i) : i \in S})
  <2> DEFINE all == {Ends(i) : i \in S}
  <2>1. AreComponents({}, {}) /\ (\A i \in S : e[i] # {}) /\ all = {} \union {e[i] : i \in S}
    BY <1>2, NoComponents
  <2> HIDE DEF all
  <2>2. AreComponents(fold[S], all)
    BY <1>5, <2>1, MergeIsComponents, SMTT(30)
  <2> QED
    BY <2>2 DEF all
<1> QED
  BY <1>6 DEF fold

\* Iterating a step from a base, for so many times and for ever.
Iterates(base, step, g, k) ==
  g[0] = base /\ \A i \in 0 .. k : i + 1 \in 0 .. k => g[i + 1] = step[g[i]]
Iteration(V, base, step, k) == CHOOSE g : g \in [0 .. k -> V] /\ Iterates(base, step, g, k)

LEMMA NatRecursion ==
  ASSUME NEW V, NEW base \in V, NEW step \in [V -> V]
  PROVE  \E f \in [Nat -> V] : f[0] = base /\ \A n \in Nat : f[n + 1] = step[f[n]]
<1> DEFINE It(k) == Iteration(V, base, step, k)
           f == [n \in Nat |-> It(n)[n]]
           S == {k \in Nat : \E g \in [0 .. k -> V] : Iterates(base, step, g, k)}
<1>1. 0 \in S
  <2>1. [i \in 0 .. 0 |-> base] \in [0 .. 0 -> V] /\ Iterates(base, step, [i \in 0 .. 0 |-> base], 0)
    BY DEF Iterates
  <2> QED
    BY <2>1
<1>2. ASSUME NEW k \in S
      PROVE  k + 1 \in S
  <2>1. PICK g \in [0 .. k -> V] : Iterates(base, step, g, k)
    OBVIOUS
  <2> DEFINE h == [i \in 0 .. k + 1 |-> IF i = k + 1 THEN step[g[k]] ELSE g[i]]
  <2>2. k \in Nat /\ step[g[k]] \in V
    OBVIOUS
  <2>3. h \in [0 .. k + 1 -> V] /\ Iterates(base, step, h, k + 1)
    BY <2>1, <2>2 DEF Iterates
  <2> QED
    BY <2>2, <2>3
<1>3. S = Nat
  <2>1. S \in SUBSET Nat
    OBVIOUS
  <2> HIDE DEF S
  <2> QED
    BY <1>1, <1>2, <2>1, SetOfAllNaturals
<1>4. \A k \in Nat : It(k) \in [0 .. k -> V] /\ Iterates(base, step, It(k), k)
  <2>1. ASSUME NEW k \in Nat
        PROVE  It(k) \in [0 .. k -> V] /\ Iterates(base, step, It(k), k)
    <3>1. \E g : g \in [0 .. k -> V] /\ Iterates(base, step, g, k)
      BY <1>3
    <3> QED
      BY <3>1, Zenon DEF Iteration
  <2> QED
    BY <2>1
<1>5. ASSUME NEW k \in Nat, NEW g, NEW h, Iterates(base, step, g, k), Iterates(base, step, h, k + 1)
      PROVE  g[k] = h[k]
  <2> DEFINE T == {i \in Nat : i <= k => g[i] = h[i]}
  <2>1. 0 \in T
    BY <1>5 DEF Iterates
  <2>2. ASSUME NEW i \in T
        PROVE  i + 1 \in T
    BY <1>5 DEF Iterates
  <2>3. T = Nat
    <3>1. T \in SUBSET Nat
      OBVIOUS
    <3> HIDE DEF T
    <3> QED
      BY <2>1, <2>2, <3>1, SetOfAllNaturals
  <2> QED
    BY <2>3
<1>6. ASSUME NEW n \in Nat
      PROVE  It(n)[n] \in V /\ It(n + 1)[n + 1] = step[It(n)[n]]
  <2> HIDE DEF It
  <2>1. /\ It(n) \in [0 .. n -> V] /\ Iterates(base, step, It(n), n)
        /\ n + 1 \in Nat /\ Iterates(base, step, It(n + 1), n + 1)
    BY <1>4
  <2>2. It(n)[n] = It(n + 1)[n]
    BY <1>5, <2>1
  <2>3. It(n + 1)[n + 1] = step[It(n + 1)[n]]
    BY <2>1 DEF Iterates
  <2> QED
    BY <2>1, <2>2, <2>3
<1>7. It(0)[0] = base
  <2> HIDE DEF It
  <2> QED
    BY <1>4 DEF Iterates
<1> HIDE DEF It
<1>8. f \in [Nat -> V]
  BY <1>6
<1>9. f[0] = base /\ \A n \in Nat : f[n + 1] = step[f[n]]
  BY <1>6, <1>7
<1> HIDE DEF f
<1> QED
  BY <1>8, <1>9

-----------------------------------------------------------------------------
(* What edges lead to. *)

Beyond(before, edges) == before \union UNION {e \in edges : e \intersect before # {}}
Spread(start, edges) ==
  CHOOSE f : f = [hops \in Nat |-> IF hops = 0 THEN start ELSE Beyond(f[hops - 1], edges)]

LEMMA SpreadIs ==
  ASSUME NEW start, NEW edges, NEW a, a = Spread(start, edges)
  PROVE  a[0] = start /\ \A n \in Nat : a[n + 1] = Beyond(a[n], edges)
<1> DEFINE V == SUBSET (start \union UNION edges)
           step == [s \in V |-> Beyond(s, edges)]
<1>1. step \in [V -> V] /\ start \in V
  BY DEF Beyond
<1>2. PICK f \in [Nat -> V] : f[0] = start /\ \A n \in Nat : f[n + 1] = step[f[n]]
  <2> HIDE DEF V, step
  <2> QED
    BY <1>1, NatRecursion
<1>3. ASSUME NEW n \in Nat, n # 0
      PROVE  f[n] = Beyond(f[n - 1], edges)
  <2>1. n - 1 \in Nat /\ (n - 1) + 1 = n
    BY <1>3
  <2>2. f[n - 1] \in V
    BY <2>1
  <2> HIDE DEF V
  <2> QED
    BY <1>2, <2>1, <2>2
<1>4. f = [hops \in Nat |-> IF hops = 0 THEN start ELSE Beyond(f[hops - 1], edges)]
  BY <1>2, <1>3
<1>5. a = [hops \in Nat |-> IF hops = 0 THEN start ELSE Beyond(a[hops - 1], edges)]
  BY <1>4, Zenon DEF Spread
<1>6. ASSUME NEW n \in Nat
      PROVE  a[n + 1] = Beyond(a[n], edges)
  <2>1. n + 1 \in Nat /\ n + 1 # 0 /\ (n + 1) - 1 = n
    OBVIOUS
  <2> QED
    BY <1>5, <2>1
<1> QED
  BY <1>5, <1>6

LEMMA ReachedIs == ASSUME NEW start, NEW edges PROVE Reached(start, edges) = Spread(start, edges)[Cardinality(edges)]
BY Zenon DEF Reached, Spread, Beyond

\* Reached is the least set that contains the start and that no edge leaves: as
\* many rounds as there are edges are enough.
LEMMA ReachedIsLeast ==
  ASSUME NEW start, NEW edges, IsFiniteSet(edges), NEW r, r = Reached(start, edges)
  PROVE  /\ start \subseteq r /\ Closed(r, edges)
         /\ \A c : start \subseteq c /\ Closed(c, edges) => r \subseteq c
<1> DEFINE N == Cardinality(edges)
           a == Spread(start, edges)
<1>1. a[0] = start /\ \A n \in Nat : a[n + 1] = Beyond(a[n], edges)
  BY SpreadIs
<1>2. N \in Nat /\ r = a[N]
  BY FS_CardinalityType, ReachedIs
<1> HIDE DEF a
<1>3. ASSUME NEW c, start \subseteq c, Closed(c, edges)
      PROVE  \A n \in Nat : a[n] \subseteq c
  <2> DEFINE S == {n \in Nat : a[n] \subseteq c}
  <2>1. 0 \in S
    BY <1>1, <1>3
  <2>2. ASSUME NEW n \in S
        PROVE  n + 1 \in S
    <3>1. Beyond(a[n], edges) \subseteq c
      BY <1>3 DEF Closed, Beyond
    <3> QED
      BY <1>1, <3>1
  <2>3. S = Nat
    <3>1. S \in SUBSET Nat
      OBVIOUS
    <3> HIDE DEF S
    <3> QED
      BY <2>1, <2>2, <3>1, SetOfAllNaturals
  <2> QED
    BY <2>3
<1>4. \A n \in Nat : start \subseteq a[n]
  <2> DEFINE S == {n \in Nat : start \subseteq a[n]}
  <2>1. 0 \in S
    BY <1>1
  <2>2. ASSUME NEW n \in S
        PROVE  n + 1 \in S
    BY <1>1 DEF Beyond
  <2>3. S = Nat
    <3>1. S \in SUBSET Nat
      OBVIOUS
    <3> HIDE DEF S
    <3> QED
      BY <2>1, <2>2, <3>1, SetOfAllNaturals
  <2> QED
    BY <2>3
<1> DEFINE Inside(k) == {e \in edges : e \subseteq a[k]}
           T == {k \in Nat : Closed(a[k], edges) \/ Cardinality(Inside(k)) >= k}
<1>5. \A k : IsFiniteSet(Inside(k)) /\ Cardinality(Inside(k)) \in Nat /\ (Cardinality(Inside(k)) >= N => Inside(k) = edges)
  <2> SUFFICES ASSUME NEW k
               PROVE  /\ IsFiniteSet(Inside(k)) /\ Cardinality(Inside(k)) \in Nat
                      /\ Cardinality(Inside(k)) >= N => Inside(k) = edges
    OBVIOUS
  <2>1. Inside(k) \in SUBSET edges
    OBVIOUS
  <2> HIDE DEF Inside
  <2>2. /\ IsFiniteSet(Inside(k)) /\ Cardinality(Inside(k)) <= N
        /\ N = Cardinality(Inside(k)) => Inside(k) = edges
    BY <2>1, FS_Subset, Zenon
  <2>3. Cardinality(Inside(k)) \in Nat
    BY <2>2, FS_CardinalityType
  <2> QED
    BY <1>2, <2>2, <2>3
<1>6. 0 \in T
  BY <1>5
<1>7. ASSUME NEW k \in T
      PROVE  k + 1 \in T
  <2>1. a[k + 1] = Beyond(a[k], edges)
    BY <1>1
  <2>2. CASE Closed(a[k], edges)
    <3>1. a[k + 1] = a[k]
      BY <2>1, <2>2 DEF Closed, Beyond
    <3> QED
      BY <2>2, <3>1
  <2>3. CASE ~Closed(a[k], edges)
    <3>1. PICK e \in edges : e \intersect a[k] # {} /\ ~(e \subseteq a[k])
      BY <2>3 DEF Closed
    <3>2. e \notin Inside(k) /\ (Inside(k) \union {e}) \in SUBSET Inside(k + 1)
      BY <2>1, <3>1 DEF Beyond
    <3>3. Cardinality(Inside(k)) >= k /\ k \in Nat
      BY <2>3
    <3> HIDE DEF Inside
    <3>4. Cardinality(Inside(k) \union {e}) = Cardinality(Inside(k)) + 1
      BY <1>5, <3>2, FS_AddElement
    <3>5. Cardinality(Inside(k) \union {e}) <= Cardinality(Inside(k + 1))
      BY <1>5, <3>2, FS_Subset
    <3>6. Cardinality(Inside(k)) \in Nat /\ Cardinality(Inside(k + 1)) \in Nat
      BY <1>5
    <3> QED
      BY <3>3, <3>4, <3>5, <3>6
  <2> QED
    BY <2>2, <2>3
<1>8. T = Nat
  <2>1. T \in SUBSET Nat
    OBVIOUS
  <2> HIDE DEF T
  <2> QED
    BY <1>6, <1>7, <2>1, SetOfAllNaturals
<1>9. Closed(a[N], edges)
  <2>1. Closed(a[N], edges) \/ Cardinality(Inside(N)) >= N
    BY <1>2, <1>8
  <2>2. Inside(N) = edges => Closed(a[N], edges)
    BY DEF Closed
  <2> QED
    BY <1>5, <2>1, <2>2
<1> QED
  BY <1>2, <1>3, <1>4, <1>9

\* What a node of the edges leads to is its component.
LEMMA ReachedIsComponent ==
  ASSUME NEW groups, NEW edges, IsFiniteSet(edges), AreComponents(groups, edges),
         NEW g \in groups, NEW n \in g
  PROVE  Reached({n}, edges) = g
<1> DEFINE r == Reached({n}, edges)
<1>1. {n} \subseteq r /\ Closed(r, edges) /\ \A c : {n} \subseteq c /\ Closed(c, edges) => r \subseteq c
  BY ReachedIsLeast
<1>2. Closed(g, edges)
  BY GroupsClosed
<1>3. r \subseteq g
  BY <1>1, <1>2
<1>4. g \subseteq r
  <2>1. r \intersect g # {}
    BY <1>1
  <2> QED
    BY <1>1, <2>1 DEF AreComponents
<1> QED
  BY <1>3, <1>4

\* What a sequence contains is finite.
LEMMA FiniteRange ==
  ASSUME NEW s, IsSeq(s)
  PROVE  IsFiniteSet(DOMAIN s) /\ IsFiniteSet(ToSet(s))
<1>1. Len(s) \in Nat /\ DOMAIN s = 1 .. Len(s)
  BY Sequence
<1>2. IsFiniteSet(DOMAIN s)
  BY <1>1, FS_Interval
<1>3. s \in Surjection(DOMAIN s, ToSet(s))
  BY DEF IsSeq, ToSet, Surjection
<1> QED
  BY <1>2, <1>3, FS_Surjection

-----------------------------------------------------------------------------
(* The groups of solvability.py. *)

\* The devices that were allocated have sequences of nodes.
DevicesOK == IsSeq(devices) /\ \A i \in DOMAIN devices : IsSeq(devices[i].nodes)

LEMMA PairsType ==
  ASSUME NEW d, IsSeq(d.nodes), NEW indices
  PROVE  /\ IsFiniteSet(PairsAmong(d, indices)) /\ PairsAmong(d, indices) \subseteq SUBSET ToSet(d.nodes)
         /\ {} \notin PairsAmong(d, indices)
<1>1. PairsAmong(d, indices) \in SUBSET (SUBSET ToSet(d.nodes)) /\ {} \notin PairsAmong(d, indices)
  BY DEF PairsAmong, ToSet
<1>2. IsFiniteSet(SUBSET ToSet(d.nodes))
  BY FiniteRange, FS_SUBSET
<1>3. IsFiniteSet(PairsAmong(d, indices))
  BY <1>1, <1>2, FS_Subset
<1> QED
  BY <1>1, <1>3

LEMMA ConductingType ==
  ASSUME NEW d, IsSeq(d.nodes)
  PROVE  /\ IsFiniteSet(ConductingPairs(d)) /\ ConductingPairs(d) \subseteq SUBSET ToSet(d.nodes)
         /\ {} \notin ConductingPairs(d)
<1>1. \/ ConductingPairs(d) = {}
      \/ \E indices : ConductingPairs(d) = PairsAmong(d, indices)
  BY DEF ConductingPairs
<1>2. CASE ConductingPairs(d) = {}
  BY <1>2, FS_EmptySet
<1> QED
  BY <1>1, <1>2, PairsType

\* The nodes of a device, each for itself, and the pairs that it ties.
EdgesOf(d) == Singletons(d) \union ConductingPairs(d)

LEMMA EnteredComponents ==
  ASSUME NEW groups, NEW edges, AreComponents(groups, edges), NEW d
  PROVE  AreComponents(Entered(groups, d), edges \union Singletons(d))
<1> DEFINE fresh == {s \in Singletons(d) : s \intersect UNION groups = {}}
           all == edges \union Singletons(d)
<1>1. Entered(groups, d) = groups \union fresh
  BY DEF Entered
<1>2. \A s \in Singletons(d) : \E n : s = {n}
  BY DEF Singletons
<1>3. UNION groups = UNION edges /\ {} \notin groups
  BY DEF AreComponents
<1>4. \A s \in Singletons(d) : s \in fresh \/ \E g \in groups : s \subseteq g
  BY <1>2
<1>5. UNION (groups \union fresh) = UNION all
  <2>1. UNION (groups \union fresh) = (UNION groups) \union (UNION fresh)
    OBVIOUS
  <2>2. UNION all = (UNION edges) \union UNION Singletons(d)
    OBVIOUS
  <2>3. (UNION groups) \union (UNION fresh) = (UNION groups) \union UNION Singletons(d)
    BY <1>4
  <2> QED
    BY <1>3, <2>1, <2>2, <2>3
<1>6. {} \notin groups \union fresh
  BY <1>2, <1>3
<1>7. ASSUME NEW g \in groups \union fresh, NEW h \in groups \union fresh, g \intersect h # {}
      PROVE  g = h
  <2>1. CASE g \in groups /\ h \in groups
    BY <1>7, <2>1 DEF AreComponents
  <2>2. CASE g \in fresh /\ h \in fresh
    <3>1. g \in Singletons(d) /\ h \in Singletons(d)
      BY <2>2
    <3>2. \A s, t : (\E n : s = {n}) /\ (\E n : t = {n}) /\ s \intersect t # {} => s = t
      OBVIOUS
    <3> HIDE DEF fresh
    <3> QED
      BY <1>2, <1>7, <3>1, <3>2, Zenon
  <2>3. CASE g \in fresh /\ h \in groups
    BY <1>7, <2>3
  <2>4. CASE g \in groups /\ h \in fresh
    BY <1>7, <2>4
  <2> HIDE DEF fresh
  <2> QED
    BY <1>7, <2>1, <2>2, <2>3, <2>4
<1>8. \A e \in all : \E g \in groups \union fresh : e \subseteq g
  <2>1. \A e \in edges : \E g \in groups : e \subseteq g
    BY DEF AreComponents
  <2> HIDE DEF fresh
  <2> QED
    BY <1>4, <2>1
<1>9. ASSUME NEW g \in groups \union fresh, NEW c, Closed(c, all), c \intersect g # {}
      PROVE  g \subseteq c
  <2>1. Closed(c, edges)
    BY <1>9 DEF Closed
  <2>2. CASE g \in groups
    BY <1>9, <2>1, <2>2 DEF AreComponents
  <2>3. CASE g \in fresh
    BY <1>2, <1>9, <2>3
  <2> QED
    BY <2>2, <2>3
<1> HIDE DEF fresh, all
<1>10. AreComponents(groups \union fresh, all)
  BY <1>5, <1>6, <1>7, <1>8, <1>9, Zenon DEF AreComponents
<1> QED
  BY <1>1, <1>10 DEF all

LEMMA GroupsAfterComponents ==
  ASSUME NEW groups, NEW edges, AreComponents(groups, edges), NEW d, IsSeq(d.nodes)
  PROVE  AreComponents(GroupsAfter(groups, d), edges \union EdgesOf(d))
<1> DEFINE pairs == ConductingPairs(d)
           base == Entered(groups, d)
           all == edges \union Singletons(d)
<1>1. AreComponents(base, all)
  BY EnteredComponents
<1>2. IsFiniteSet(pairs) /\ {} \notin pairs
  BY ConductingType
<1>3. GroupsAfter(groups, d) = PairsMerge(base, pairs)[pairs]
  BY PairsFold DEF GroupsAfter
<1>4. all \union pairs = edges \union EdgesOf(d)
  BY DEF EdgesOf
<1> HIDE DEF base, all, pairs
<1>5. AreComponents(PairsMerge(base, pairs)[pairs], all \union pairs)
  BY <1>1, <1>2, PairsMerged
<1> QED
  BY <1>3, <1>4, <1>5

\* The groups are the components of what all devices tie.
GroupsMerge ==
  CHOOSE it : it = [s \in SUBSET DOMAIN devices |->
                      IF s = {} THEN {} ELSE GroupsAfter(it[s \ {Some(s)}], devices[Some(s)])]

LEMMA GroupsFold == Groups = GroupsMerge[DOMAIN devices]
BY Zenon DEF Groups, FoldSeq, FoldFunction, FoldFunctionOnSet, MapThenFoldSet, Some, GroupsMerge

LEMMA PairsMergeWithin ==
  ASSUME NEW U, NEW S, IsFiniteSet(S), NEW base \in SUBSET SUBSET U, S \subseteq SUBSET U
  PROVE  PairsMerge(base, S)[S] \in SUBSET SUBSET U
<1> DEFINE f == PairsMerge(base, S)
           e == [i \in S |-> i]
           P == {s \in SUBSET S : f[s] \in SUBSET SUBSET U}
<1>1. Merges(S, base, e, f)
  BY PairsIsMerge
<1> HIDE DEF f, e
<1>2. ASSUME NEW s \in SUBSET S, \A x \in s : s \ {x} \in P
      PROVE  s \in P
  <2>1. CASE s = {}
    BY <1>1, <2>1 DEF Merges, MergeAt
  <2>2. CASE s # {}
    <3>1. Some(s) \in s
      BY <2>2 DEF Some
    <3>2. f[s] = Unite(f[s \ {Some(s)}], Some(s))
      BY <1>1, <2>2, <3>1 DEF Merges, MergeAt, e
    <3>3. f[s \ {Some(s)}] \in SUBSET SUBSET U /\ Some(s) \in SUBSET U
      BY <1>2, <3>1
    <3>4. Unite(f[s \ {Some(s)}], Some(s)) \in SUBSET SUBSET U
      <4>1. \A gs \in SUBSET SUBSET U, e1 \in SUBSET U : Unite(gs, e1) \in SUBSET SUBSET U
        BY UniteWithin
      <4> QED
        BY <3>3, <4>1, Zenon
    <3>5. f[s] \in SUBSET SUBSET U
      BY <3>2, <3>4, Zenon
    <3> QED
      BY <3>5
  <2> QED
    BY <2>1, <2>2
<1>3. P = SUBSET S
  <2>1. P \in SUBSET (SUBSET S) /\ \A s \in SUBSET S : (\A x \in s : s \ {x} \in P) => s \in P
    BY <1>2
  <2> HIDE DEF P
  <2> QED
    BY <2>1, SetInduction
<1> QED
  BY <1>3 DEF f

LEMMA GroupsMergeIs ==
  ASSUME DevicesOK
  PROVE  GroupsMerge = [s \in SUBSET DOMAIN devices |->
                          IF s = {} THEN {} ELSE GroupsAfter(GroupsMerge[s \ {Some(s)}], devices[Some(s)])]
<1> DEFINE D == DOMAIN devices
           U == UNION {ToSet(devices[i].nodes) : i \in D}
           V == SUBSET SUBSET U
           step == [p \in D \X V |-> GroupsAfter(p[2], devices[p[1]])]
<1>1. ASSUME NEW i \in D, NEW v \in V
      PROVE  GroupsAfter(v, devices[i]) \in V
  <2> DEFINE d == devices[i]
             base == Entered(v, d)
             pairs == ConductingPairs(d)
  <2>1. IsSeq(d.nodes) /\ ToSet(d.nodes) \subseteq U
    BY DEF DevicesOK
  <2>2. base \in SUBSET SUBSET U
    BY <2>1 DEF Entered, Singletons
  <2>3. IsFiniteSet(pairs) /\ pairs \subseteq SUBSET U
    BY <2>1, ConductingType
  <2>4. GroupsAfter(v, d) = PairsMerge(base, pairs)[pairs]
    BY PairsFold DEF GroupsAfter
  <2> HIDE DEF base, pairs, d, U
  <2>5. PairsMerge(base, pairs)[pairs] \in SUBSET SUBSET U
    BY <2>2, <2>3, PairsMergeWithin
  <2>6. GroupsAfter(v, d) \in SUBSET SUBSET U
    BY <2>4, <2>5, Zenon
  <2> QED
    BY <2>6 DEF d
<1>2. step \in [D \X V -> V] /\ \A i \in D, v \in V : step[<<i, v>>] = GroupsAfter(v, devices[i])
  <2> HIDE DEF V, D
  <2>1. \A p \in D \X V : p[1] \in D /\ p[2] \in V
    OBVIOUS
  <2> QED
    BY <1>1, <2>1
<1>3. IsFiniteSet(D) /\ {} \in V
  BY FiniteRange DEF DevicesOK
<1> HIDE DEF step, V, D
<1>4. PICK g \in [SUBSET D -> V] : \A s \in SUBSET D : g[s] = Step({}, step, g, s)
  <2>1. \A v : \A b \in v, add \in [D \X v -> v] :
          \E g \in [SUBSET D -> v] : \A s \in SUBSET D : g[s] = Step(b, add, g, s)
    BY <1>3, SetRecursion
  <2> QED
    BY <1>2, <1>3, <2>1, Zenon
<1>5. ASSUME NEW s \in SUBSET D
      PROVE  g[s] = IF s = {} THEN {} ELSE GroupsAfter(g[s \ {Some(s)}], devices[Some(s)])
  <2>1. CASE s = {}
    BY <1>4, <2>1 DEF Step
  <2>2. CASE s # {}
    <3>1. Some(s) \in D /\ g[s \ {Some(s)}] \in V
      BY <2>2 DEF Some
    <3> QED
      BY <1>2, <1>4, <2>2, <3>1 DEF Step
  <2> QED
    BY <2>1, <2>2
<1>6. g = [s \in SUBSET D |-> IF s = {} THEN {} ELSE GroupsAfter(g[s \ {Some(s)}], devices[Some(s)])]
  BY <1>5
<1> QED
  BY <1>6, Zenon DEF GroupsMerge, D

AllEdges == UNION {EdgesOf(devices[i]) : i \in DOMAIN devices}

LEMMA GroupsAreComponents ==
  ASSUME DevicesOK
  PROVE  AreComponents(Groups, AllEdges)
<1> DEFINE D == DOMAIN devices
           f == GroupsMerge
           E(s) == UNION {EdgesOf(devices[i]) : i \in s}
           P == {s \in SUBSET D : AreComponents(f[s], E(s))}
<1>1. IsFiniteSet(D) /\ \A i \in D : IsSeq(devices[i].nodes)
  BY FiniteRange DEF DevicesOK
<1>2. f = [s \in SUBSET D |-> IF s = {} THEN {} ELSE GroupsAfter(f[s \ {Some(s)}], devices[Some(s)])]
  BY GroupsMergeIs
<1> HIDE DEF f, D
<1>3. ASSUME NEW s \in SUBSET D, \A x \in s : s \ {x} \in P
      PROVE  s \in P
  <2>1. CASE s = {}
    <3>1. E(s) = {}
      BY <2>1
    <3>2. f[s] = {}
      BY <1>2, <2>1
    <3> QED
      BY <3>1, <3>2, NoComponents
  <2>2. CASE s # {}
    <3> DEFINE x == Some(s)
               t == s \ {x}
    <3>1. x \in s
      BY <2>2 DEF Some
    <3>2. f[s] = GroupsAfter(f[t], devices[x])
      BY <1>2, <2>2
    <3> HIDE DEF x
    <3>3. AreComponents(f[t], E(t)) /\ IsSeq(devices[x].nodes)
      BY <1>1, <1>3, <3>1
    <3>4. E(t) \union EdgesOf(devices[x]) = E(s)
      BY <3>1
    <3> HIDE DEF t, E
    <3>5. AreComponents(GroupsAfter(f[t], devices[x]), E(t) \union EdgesOf(devices[x]))
      BY <3>3, GroupsAfterComponents
    <3> QED
      BY <3>2, <3>4, <3>5
  <2> QED
    BY <2>1, <2>2
<1>4. P = SUBSET D
  <2>1. P \in SUBSET (SUBSET D) /\ \A s \in SUBSET D : (\A x \in s : s \ {x} \in P) => s \in P
    BY <1>3
  <2> HIDE DEF P
  <2> QED
    BY <1>1, <2>1, SetInduction
<1>5. AreComponents(f[D], E(D))
  BY <1>4
<1> QED
  BY <1>5, GroupsFold DEF f, D, AllEdges

-----------------------------------------------------------------------------
(* The islands. *)

LEMMA NodesOfDevices ==
  ASSUME DevicesOK
  PROVE  /\ ToSet(devices) = {devices[i] : i \in DOMAIN devices}
         /\ \A d \in ToSet(devices) : IsSeq(d.nodes)
         /\ UNION AllEdges = AllNodes
<1>1. ToSet(devices) = {devices[i] : i \in DOMAIN devices}
  BY DEF DevicesOK, ToSet
<1>2. \A d \in ToSet(devices) : IsSeq(d.nodes)
  BY <1>1 DEF DevicesOK
<1>3. \A d \in ToSet(devices) : UNION EdgesOf(d) = ToSet(d.nodes)
  <2> SUFFICES ASSUME NEW d \in ToSet(devices)
               PROVE  UNION EdgesOf(d) = ToSet(d.nodes)
    OBVIOUS
  <2>1. ConductingPairs(d) \subseteq SUBSET ToSet(d.nodes)
    BY <1>2, ConductingType
  <2>2. UNION Singletons(d) = ToSet(d.nodes)
    BY DEF Singletons
  <2> QED
    BY <2>1, <2>2 DEF EdgesOf
<1>4. AllEdges = UNION {EdgesOf(d) : d \in ToSet(devices)}
  BY <1>1 DEF AllEdges
<1>5. UNION AllEdges = AllNodes
  <2> HIDE DEF EdgesOf
  <2> QED
    BY <1>3, <1>4 DEF AllNodes
<1> QED
  BY <1>1, <1>2, <1>5

LEMMA FiniteEdges ==
  ASSUME DevicesOK
  PROVE  IsFiniteSet(AllNodes) /\ IsFiniteSet(AllEdges)
<1>1. IsFiniteSet(ToSet(devices)) /\ \A d \in ToSet(devices) : IsFiniteSet(ToSet(d.nodes))
  BY FiniteRange, NodesOfDevices DEF DevicesOK
<1> DEFINE sets == {ToSet(d.nodes) : d \in ToSet(devices)}
           f == [d \in ToSet(devices) |-> ToSet(d.nodes)]
<1>2. f \in Surjection(ToSet(devices), sets)
  BY DEF Surjection
<1>3. IsFiniteSet(sets)
  <2> HIDE DEF f, sets
  <2> QED
    BY <1>1, <1>2, FS_Surjection
<1>4. IsFiniteSet(AllNodes)
  <2>1. \A s \in sets : IsFiniteSet(s)
    BY <1>1
  <2>2. IsFiniteSet(UNION sets)
    <3> HIDE DEF sets
    <3> QED
      BY <1>3, <2>1, FS_UNION
  <2> QED
    BY <2>2 DEF AllNodes
<1>5. AllEdges \in SUBSET (SUBSET AllNodes)
  BY NodesOfDevices
<1>6. IsFiniteSet(SUBSET AllNodes)
  BY <1>4, FS_SUBSET
<1> QED
  BY <1>4, <1>5, <1>6, FS_Subset

GroundNodes == {g \in AllNodes : IsGround(g)}
Tied == UNION {ConductingPairs(d) : d \in ToSet(devices)}
FlatTied == UNION {FlatPairs(d) : d \in ToSet(devices)}

\* What the properties follow are edges of the groups, and of the pairs that
\* devices tie none is missing but a node with itself.
LEMMA TiedEdges ==
  ASSUME DevicesOK
  PROVE  /\ Tied \subseteq AllEdges /\ FlatTied \subseteq AllEdges
         /\ IsFiniteSet(Tied) /\ IsFiniteSet(FlatTied)
         /\ \A e \in AllEdges : e \in Tied \/ \E n : e = {n}
<1>1. AllEdges = UNION {EdgesOf(d) : d \in ToSet(devices)}
  BY NodesOfDevices DEF AllEdges
<1>2. Tied \subseteq AllEdges
  BY <1>1 DEF Tied, EdgesOf
<1>3. ASSUME NEW d \in ToSet(devices)
      PROVE  FlatPairs(d) \subseteq EdgesOf(d)
  <2>1. IsSeq(d.nodes) /\ Len(d.nodes) \in Nat /\ DOMAIN d.nodes = 1 .. Len(d.nodes)
    BY NodesOfDevices, Sequence
  <2>2. CASE ~IsCall(d.element)
    BY <2>2 DEF FlatPairs, EdgesOf
  <2>3. CASE IsCall(d.element) /\ Len(d.nodes) >= 2
    <3>1. d.element.kind = "X"
      BY <2>3 DEF IsCall
    <3>2. ConductingPairs(d) = PairsAmong(d, DOMAIN d.nodes)
      BY <2>1, <2>3, <3>1 DEF ConductingPairs, NonConductors, Transistors, TwoTerminalConductors
    <3> QED
      BY <3>2 DEF FlatPairs, EdgesOf
  <2>4. CASE Len(d.nodes) < 2
    <3>1. \A i, j \in DOMAIN d.nodes : i = j
      BY <2>1, <2>4
    <3>2. PairsAmong(d, DOMAIN d.nodes) \subseteq Singletons(d)
      BY <3>1 DEF PairsAmong, Singletons, ToSet
    <3> QED
      BY <3>2 DEF FlatPairs, EdgesOf
  <2> QED
    BY <2>1, <2>2, <2>3, <2>4
<1>4. FlatTied \subseteq AllEdges
  BY <1>1, <1>3 DEF FlatTied
<1>5. \A e \in AllEdges : e \in Tied \/ \E n : e = {n}
  BY <1>1 DEF Tied, EdgesOf, Singletons
<1> QED
  BY <1>2, <1>4, <1>5, FiniteEdges, FS_Subset

\* Nothing reaches a group without a ground.
LEMMA IslandUnreached ==
  ASSUME DevicesOK, NEW tied, tied \subseteq AllEdges, IsFiniteSet(tied),
         NEW g \in Groups, \A n \in g : ~IsGround(n)
  PROVE  Reached(GroundNodes, tied) \intersect g = {}
<1> DEFINE r == Reached(GroundNodes, tied)
           rest == AllNodes \ g
<1>1. AreComponents(Groups, AllEdges) /\ UNION AllEdges = AllNodes
  BY GroupsAreComponents, NodesOfDevices
<1>2. Closed(g, AllEdges)
  BY <1>1, GroupsClosed
<1>3. Closed(rest, AllEdges)
  BY <1>1, <1>2, ComplementClosed
<1>4. Closed(rest, tied)
  BY <1>3 DEF Closed
<1>5. GroundNodes \subseteq rest
  BY DEF GroundNodes
<1>6. \A c : GroundNodes \subseteq c /\ Closed(c, tied) => r \subseteq c
  BY ReachedIsLeast
<1> HIDE DEF r
<1>7. r \subseteq rest
  BY <1>4, <1>5, <1>6
<1> QED
  BY <1>7 DEF r

\* Every other node is on an island.
LEMMA UnreachedIsland ==
  ASSUME DevicesOK, NEW n \in AllNodes, n \notin Reached(GroundNodes, Tied)
  PROVE  \E g \in Groups : n \in g /\ \A m \in g : ~IsGround(m)
<1> DEFINE r == Reached(GroundNodes, Tied)
<1>1. AreComponents(Groups, AllEdges) /\ UNION AllEdges = AllNodes
  BY GroupsAreComponents, NodesOfDevices
<1>2. PICK g \in Groups : n \in g
  BY <1>1 DEF AreComponents
<1>3. GroundNodes \subseteq r /\ Closed(r, Tied)
  BY TiedEdges, ReachedIsLeast
<1>4. Closed(r, AllEdges)
  <2> HIDE DEF r
  <2> QED
    BY <1>3, TiedEdges DEF Closed
<1>5. r \intersect g # {} => g \subseteq r
  <2> HIDE DEF r
  <2> QED
    BY <1>1, <1>4 DEF AreComponents
<1>6. g \subseteq AllNodes
  BY <1>1 DEF AreComponents
<1>7. \A m \in g : ~IsGround(m)
  <2> HIDE DEF r
  <2>1. \A m \in g : m \in AllNodes
    BY <1>6
  <2>2. n \notin r
    BY DEF r
  <2> QED
    BY <1>2, <1>3, <1>5, <2>1, <2>2 DEF GroundNodes
<1> QED
  BY <1>2, <1>7

LEMMA GroundedIs ==
  /\ Grounded(ConductingPairs) = Reached(GroundNodes, Tied)
  /\ Grounded(FlatPairs) = Reached(GroundNodes, FlatTied)
BY DEF Grounded, GroundNodes, Tied, FlatTied

LEMMA IslandsFound == DevicesOK => IslandsAreUnreachable /\ NoFalseAccusation
<1> SUFFICES ASSUME DevicesOK PROVE IslandsAreUnreachable /\ NoFalseAccusation
  OBVIOUS
<1> DEFINE r == Reached(GroundNodes, Tied)
           flat == Reached(GroundNodes, FlatTied)
<1>1. \A g \in Islands : g \in Groups /\ \A n \in g : ~IsGround(n)
  BY DEF Islands
<1>2. AreComponents(Groups, AllEdges) /\ UNION AllEdges = AllNodes
  BY GroupsAreComponents, NodesOfDevices
<1>3. \A g \in Islands : r \intersect g = {} /\ flat \intersect g = {} /\ g \subseteq AllNodes
  BY <1>1, <1>2, TiedEdges, IslandUnreached DEF AreComponents
<1>4. HasGround => \A n \in AllNodes : n \notin r => \E g \in Islands : n \in g
  BY UnreachedIsland DEF Islands
<1>5. \A g, h \in Islands : g # h => g \intersect h = {}
  BY <1>1, <1>2 DEF AreComponents
<1> HIDE DEF r, flat
<1>6. Grounded(ConductingPairs) = r /\ Grounded(FlatPairs) = flat
  BY GroundedIs DEF r, flat
<1>7. HasGround => UNION Islands = AllNodes \ r
  BY <1>3, <1>4
<1>8. (UNION Islands) \intersect flat = {}
  BY <1>3
<1>9. IslandsAreUnreachable
  BY <1>5, <1>6, <1>7, Zenon DEF IslandsAreUnreachable
<1>10. NoFalseAccusation
  BY <1>6, <1>8, Zenon DEF NoFalseAccusation
<1> QED
  BY <1>9, <1>10

-----------------------------------------------------------------------------
(* What every state of an audit has. *)

\* What was allocated is of the netlist, and its nodes are sequences.
DevicesInv ==
  /\ netlist \in Netlists /\ DevicesOK
  /\ \A i \in DOMAIN devices :
       /\ devices[i].element \in UNION {ToSet(Body(s)) : s \in Scopes}
       /\ DOMAIN devices[i].nodes = DOMAIN devices[i].element.nodes

AuditInv ==
  /\ pc \in {"cost", "expand", "done", "audited"}
  /\ pc # "audited" => IInv
  /\ DevicesInv

LEMMA MappedType ==
  ASSUME TypeOK, frames # <<>>, HasElement
  PROVE  IsSeq(Device(Element).nodes) /\ DOMAIN Device(Element).nodes = DOMAIN Element.nodes
<1>1. Element \in UNION {ToSet(Body(s)) : s \in Scopes}
  BY InnerType
<1>2. IsSeq(Element.nodes)
  BY <1>1, NetlistAssumption DEF TypeOK, Body, Scopes, Defined
<1>3. Len(Element.nodes) \in Nat /\ DOMAIN Element.nodes = 1 .. Len(Element.nodes)
  BY <1>2, Sequence
<1> DEFINE nodes == [i \in DOMAIN Element.nodes |-> Mapped(Element.nodes[i])]
           S == {Mapped(Element.nodes[i]) : i \in DOMAIN Element.nodes}
<1>4. nodes \in Seq(S)
  <2> HIDE DEF Element
  <2> QED
    BY <1>3
<1>5. IsSeq(nodes)
  <2> HIDE DEF nodes, S
  <2> QED
    BY <1>4, Own
<1> QED
  BY <1>5 DEF Device, MappedNodes

LEMMA InitAuditInv == AuditInit => AuditInv
<1> SUFFICES ASSUME AuditInit PROVE AuditInv
  OBVIOUS
<1>1. IInv
  BY InitIInv DEF AuditInit
<1>2. DOMAIN devices = {} /\ IsSeq(devices) /\ netlist \in Netlists /\ pc = "cost"
  BY <1>1 DEF AuditInit, Init, IInv, TypeOK
<1> QED
  BY <1>1, <1>2 DEF AuditInv, DevicesInv, DevicesOK

\* A step that leaves the devices.
LEMMA DevicesLeft ==
  ASSUME DevicesInv, UNCHANGED <<netlist, devices>>
  PROVE  DevicesInv'
BY DEF DevicesInv, DevicesOK, Scopes, Body, Defined

\* A step that adds one.
LEMMA DevicesAdded ==
  ASSUME DevicesInv, TypeOK, frames # <<>>, HasElement,
         netlist' = netlist, devices' = Append(devices, Device(Element))
  PROVE  DevicesInv'
<1> DEFINE d == Device(Element)
<1>1. Scopes' = Scopes /\ \A s : Body(s)' = Body(s)
  BY DEF Scopes, Body, Defined
<1>2. IsSeq(d.nodes) /\ DOMAIN d.nodes = DOMAIN d.element.nodes /\ d.element \in UNION {ToSet(Body(s)) : s \in Scopes}
  <2>1. d.element = Element
    BY DEF Device
  <2> HIDE DEF d
  <2> QED
    BY <2>1, MappedType, InnerType DEF d
<1> HIDE DEF d
<1>3. devices' = Append(devices, d) /\ IsSeq(devices)
  BY DEF d, TypeOK
<1>4. /\ IsSeq(devices') /\ Len(devices') = Len(devices) + 1 /\ devices'[Len(devices) + 1] = d
      /\ \A i \in DOMAIN devices : devices'[i] = devices[i]
  BY <1>3, Appended
<1>5. DOMAIN devices' = 1 .. Len(devices) + 1 /\ DOMAIN devices = 1 .. Len(devices) /\ Len(devices) \in Nat
  BY <1>3, <1>4, Sequence
<1>6. \A i \in DOMAIN devices' : i \in DOMAIN devices \/ i = Len(devices) + 1
  BY <1>5
<1> QED
  BY <1>1, <1>2, <1>4, <1>6 DEF DevicesInv, DevicesOK

LEMMA NextAuditInv == AuditInv /\ [AuditNext]_auditVars => AuditInv'
<1> SUFFICES ASSUME AuditInv, [AuditNext]_auditVars PROVE AuditInv'
  OBVIOUS
<1>1. CASE Audit
  <2>1. DevicesInv'
    BY <1>1, DevicesLeft DEF Audit, AuditInv
  <2> QED
    BY <1>1, <2>1 DEF AuditInv, Audit
<1>2. ASSUME Next, UNCHANGED report
      PROVE  AuditInv'
  <2>1. pc # "audited" /\ pc' \in {"cost", "expand", "done"}
    BY <1>2 DEF Next, Estimate, TakeLeaf, TakeCall, Return, Expanding
  <2>2. IInv /\ TypeOK /\ DevicesInv
    BY <2>1 DEF AuditInv, IInv
  <2>3. IInv'
    BY <1>2, <2>2, NextIInv
  <2>4. DevicesInv'
    <3>1. CASE Estimate \/ Return
      BY <2>2, <3>1, DevicesLeft DEF Estimate, Return
    <3>2. CASE TakeLeaf \/ TakeCall
      BY <2>2, <3>2, DevicesAdded DEF TakeLeaf, TakeCall, Expanding
    <3> QED
      BY <1>2, <3>1, <3>2 DEF Next
  <2> QED
    BY <2>1, <2>3, <2>4 DEF AuditInv
<1>3. CASE UNCHANGED auditVars
  <2>1. UNCHANGED vars
    BY <1>3 DEF auditVars, vars
  <2>2. DevicesInv'
    BY <1>3, DevicesLeft DEF auditVars, AuditInv
  <2>3. pc' = pc /\ report' = report
    BY <1>3 DEF auditVars
  <2>4. pc # "audited" => IInv'
    BY <2>1, NextIInv DEF AuditInv
  <2> QED
    BY <2>2, <2>3, <2>4 DEF AuditInv
<1> QED
  BY <1>1, <1>2, <1>3 DEF AuditNext

\* SOLVE002 names exactly the nodes without a path to ground, in any order of
\* the devices and for any netlist.
THEOREM IslandsFloat == AuditSpec => []IslandsAreUnreachable
<1>1. AuditInv => IslandsAreUnreachable
  BY IslandsFound DEF AuditInv, DevicesInv
<1> QED
  BY InitAuditInv, NextAuditInv, <1>1, PTL DEF AuditSpec

\* What is inside undefined subcircuits cannot tie a node of an island to ground.
THEOREM NoNodeAccused == AuditSpec => []NoFalseAccusation
<1>1. AuditInv => NoFalseAccusation
  BY IslandsFound DEF AuditInv, DevicesInv
<1> QED
  BY InitAuditInv, NextAuditInv, <1>1, PTL DEF AuditSpec

-----------------------------------------------------------------------------
(* What run_checks keeps. *)

AllFound(others) ==
  others \union GraphFindings \union PortFindings \union ConnectivityFindings
    \union SourceConflicts \union RailFindings \union SolvabilityFindings

IsFinding(f) == f = [Finding(f.code, f.at, f.nets, f.number, f.evidence) EXCEPT !.severity = f.severity]

LEMMA FindingType ==
  ASSUME NEW code, NEW at, NEW nets, NEW number, NEW evidence, NEW f,
         f = Finding(code, at, nets, number, evidence)
  PROVE  /\ IsFinding(f) /\ f.code = code /\ f.at = at /\ f.nets = nets
         /\ f.number = number /\ f.evidence = evidence /\ f.severity \in {"review", "deny"}
BY DEF Finding, IsFinding

LEMMA OfType ==
  /\ \A code : OfBundle(code) = Finding(code, None, {}, 0, {})
  /\ \A code, card : OfCard(code, card) = Finding(code, card, {}, 0, {})
  /\ \A code, nets : OfNets(code, nets) = Finding(code, None, nets, 0, {})
BY DEF OfBundle, OfCard, OfNets

\* What a finding of a rule is.
LEMMA OfFacts ==
  /\ \A code : /\ IsFinding(OfBundle(code)) /\ OfBundle(code).code = code
               /\ OfBundle(code).severity \in {"review", "deny"}
  /\ \A code, card : /\ IsFinding(OfCard(code, card)) /\ OfCard(code, card).code = code
                     /\ OfCard(code, card).at = card /\ OfCard(code, card).severity \in {"review", "deny"}
  /\ \A code, nets : /\ IsFinding(OfNets(code, nets)) /\ OfNets(code, nets).code = code
                     /\ OfNets(code, nets).nets = nets /\ OfNets(code, nets).severity \in {"review", "deny"}
BY OfType, FindingType

\* What each rule finds.
LEMMA FoundForms ==
  ASSUME NEW f
  PROVE  /\ f \in GraphFindings =>
              \/ \E code \in Issues : f = OfBundle(code)
              \/ \E s \in Defined \ Reachable : f = OfCard("GRAPH006", <<s, 0>>)
              \/ f = OfBundle("LIM001") /\ cost \notin 0 .. MaxDevices
         /\ f \in PortFindings => \E code \in {"PORT001", "PORT002"} : \E nets : f = OfNets(code, nets)
         /\ f \in ConnectivityFindings =>
              \E code \in {"NET001", "NET002"} : \E s \in Scopes : \E n \in InternalNets(s) :
                /\ f = OfNets(code, {<<s, n>>})
                /\ code = "NET001" => Cardinality(Endpoints(s, n)) = 1
         /\ f \in SourceConflicts => \E card : f = OfCard("SRC001", card)
         /\ f \in RailFindings =>
              \/ \E i \in Direct : f = OfCard("RAIL001", devices[i].card)
              \/ \E g \in TieGroups : /\ \A i \in Direct : ~(Ends(i) \subseteq g)
                                      /\ Meets(g, GroundNames) /\ Meets(g, PowerNets)
                                      /\ f = OfNets("RAIL002", g)
         /\ f \in SolvabilityFindings =>
              \/ f = OfBundle("SOLVE001") \/ \E island \in Islands : f = OfNets("SOLVE002", island)
              \/ \E loop \in SourceLoops : f = Finding("SOLVE003", None, {}, Cardinality(loop), loop)
<1>1. f \in GraphFindings =>
              \/ \E code \in Issues : f = OfBundle(code)
              \/ \E s \in Defined \ Reachable : f = OfCard("GRAPH006", <<s, 0>>)
              \/ f = OfBundle("LIM001") /\ cost \notin 0 .. MaxDevices
  BY DEF GraphFindings
<1>2. f \in PortFindings => \E code \in {"PORT001", "PORT002"} : \E nets : f = OfNets(code, nets)
  BY DEF PortFindings
<1>3. ASSUME f \in ConnectivityFindings
      PROVE  \E code \in {"NET001", "NET002"} : \E s \in Scopes : \E n \in InternalNets(s) :
                /\ f = OfNets(code, {<<s, n>>})
                /\ code = "NET001" => Cardinality(Endpoints(s, n)) = 1
  <2>1. PICK s \in Scopes :
           \/ f \in {OfNets("NET001", {<<s, n>>}) : n \in {m \in InternalNets(s) : Cardinality(Endpoints(s, m)) = 1}}
           \/ f \in {OfNets("NET002", {<<s, n>>}) : n \in {m \in InternalNets(s) : Insulated(s, m)}}
    BY <1>3 DEF ConnectivityFindings
  <2>2. CASE f \in {OfNets("NET001", {<<s, n>>}) : n \in {m \in InternalNets(s) : Cardinality(Endpoints(s, m)) = 1}}
    BY <2>2
  <2>3. CASE f \in {OfNets("NET002", {<<s, n>>}) : n \in {m \in InternalNets(s) : Insulated(s, m)}}
    BY <2>3
  <2> QED
    BY <2>1, <2>2, <2>3
<1>4. f \in SourceConflicts => \E card : f = OfCard("SRC001", card)
  BY DEF SourceConflicts
<1>5. f \in RailFindings =>
              \/ \E i \in Direct : f = OfCard("RAIL001", devices[i].card)
              \/ \E g \in TieGroups : /\ \A i \in Direct : ~(Ends(i) \subseteq g)
                                      /\ Meets(g, GroundNames) /\ Meets(g, PowerNets)
                                      /\ f = OfNets("RAIL002", g)
  BY DEF RailFindings
<1>6. f \in SolvabilityFindings =>
              \/ f = OfBundle("SOLVE001") \/ \E island \in Islands : f = OfNets("SOLVE002", island)
              \/ \E loop \in SourceLoops : f = Finding("SOLVE003", None, {}, Cardinality(loop), loop)
  BY DEF SolvabilityFindings
<1> QED
  BY <1>1, <1>2, <1>3, <1>4, <1>5, <1>6

\* Every finding is a record, and of a rule that is modelled it questions.
LEMMA FoundType ==
  ASSUME NEW others \in OtherFindings, NEW f \in AllFound(others)
  PROVE  IsFinding(f) /\ (f \notin others => f.severity \in {"review", "deny"})
<1>1. CASE f \in others
  BY <1>1, OtherAssumption DEF IsFinding
<1>2. CASE f \notin others
  <2>1. \/ \E code : f = OfBundle(code)
        \/ \E code, card : f = OfCard(code, card)
        \/ \E code, nets : f = OfNets(code, nets)
        \/ \E loop : f = Finding("SOLVE003", None, {}, Cardinality(loop), loop)
    <3>1. \/ f \in GraphFindings \/ f \in PortFindings \/ f \in ConnectivityFindings
          \/ f \in SourceConflicts \/ f \in RailFindings \/ f \in SolvabilityFindings
      BY <1>2 DEF AllFound
    <3>2. CASE f \in GraphFindings
      <4>1. \/ \E code \in Issues : f = OfBundle(code)
            \/ \E s \in Defined \ Reachable : f = OfCard("GRAPH006", <<s, 0>>)
            \/ f = OfBundle("LIM001")
        BY <3>2, FoundForms
      <4> QED
        BY <4>1, Zenon
    <3>3. CASE f \in PortFindings
      BY <3>3, FoundForms
    <3>4. CASE f \in ConnectivityFindings
      <4>1. PICK code \in {"NET001", "NET002"} : \E s \in Scopes : \E n \in InternalNets(s) : f = OfNets(code, {<<s, n>>})
        BY <3>4, FoundForms
      <4> QED
        BY <4>1, Zenon
    <3>5. CASE f \in SourceConflicts
      BY <3>5, FoundForms
    <3>6. CASE f \in RailFindings
      BY <3>6, FoundForms
    <3>7. CASE f \in SolvabilityFindings
      BY <3>7, FoundForms
    <3> QED
      BY <3>1, <3>2, <3>3, <3>4, <3>5, <3>6, <3>7
  <2>2. ASSUME NEW loop, f = Finding("SOLVE003", None, {}, Cardinality(loop), loop)
        PROVE  IsFinding(f) /\ f.severity \in {"review", "deny"}
    BY <2>2, FindingType
  <2> QED
    BY <2>1, <2>2, OfFacts
<1> QED
  BY <1>1, <1>2

\* The severity under the policy changes nothing else.
LEMMA JudgedType ==
  ASSUME NEW f, IsFinding(f), NEW s, NEW j, j = [f EXCEPT !.severity = s]
  PROVE  Id(j) = Id(f) /\ j.code = f.code /\ j.at = f.at /\ j.nets = f.nets /\ j.severity = s
<1>1. f \in [code : {f.code}, at : {f.at}, nets : {f.nets}, number : {f.number}, evidence : {f.evidence}, severity : {f.severity}]
  BY DEF IsFinding, Finding
<1> QED
  BY <1>1 DEF Id

\* run_checks loses no identity, and adds none.
LEMMA RunChecksKeeps ==
  ASSUME NEW policy, NEW others \in OtherFindings
  PROVE  /\ \A f \in RunChecks(policy, others) : \E g \in AllFound(others) :
              /\ Id(g) = Id(f) /\ g.code = f.code /\ g.at = f.at /\ g.nets = f.nets
              /\ f.severity = SeverityFor(policy, g.code, g.severity)
         /\ \A g \in AllFound(others) : \E f \in RunChecks(policy, others) : Id(f) = Id(g)
<1> DEFINE raw == Judged(policy, AllFound(others))
           ids == {Id(f) : f \in raw}
           kept == {CHOOSE f \in raw : Id(f) = id : id \in ids}
<1>1. RunChecks(policy, others) = kept
  BY Zenon DEF RunChecks, AllFound
<1>2. \A j \in raw : \E g \in AllFound(others) : j = [g EXCEPT !.severity = SeverityFor(policy, g.code, g.severity)]
  BY DEF Judged
<1>3. \A g \in AllFound(others) : \E j \in raw : j = [g EXCEPT !.severity = SeverityFor(policy, g.code, g.severity)]
  BY DEF Judged
<1>4. kept \subseteq raw /\ \A f \in raw : \E k \in kept : Id(k) = Id(f)
  <2> HIDE DEF raw
  <2>1. ASSUME NEW id \in ids
        PROVE  (CHOOSE f \in raw : Id(f) = id) \in raw /\ Id(CHOOSE f \in raw : Id(f) = id) = id
    OBVIOUS
  <2>2. kept \subseteq raw
    BY <2>1
  <2>3. ASSUME NEW f \in raw
        PROVE  \E k \in kept : Id(k) = Id(f)
    <3>1. Id(f) \in ids
      OBVIOUS
    <3> QED
      BY <2>1, <3>1
  <2> QED
    BY <2>2, <2>3
<1> HIDE DEF raw, kept
<1>5. ASSUME NEW f \in kept
      PROVE  \E g \in AllFound(others) :
               /\ Id(g) = Id(f) /\ g.code = f.code /\ g.at = f.at /\ g.nets = f.nets
               /\ f.severity = SeverityFor(policy, g.code, g.severity)
  <2>1. PICK g \in AllFound(others) : f = [g EXCEPT !.severity = SeverityFor(policy, g.code, g.severity)]
    BY <1>2, <1>4
  <2>2. IsFinding(g)
    BY FoundType
  <2>3. \A s, j : j = [g EXCEPT !.severity = s] =>
          Id(j) = Id(g) /\ j.code = g.code /\ j.at = g.at /\ j.nets = g.nets /\ j.severity = s
    BY <2>2, JudgedType
  <2>4. Id(f) = Id(g) /\ f.code = g.code /\ f.at = g.at /\ f.nets = g.nets /\ f.severity = SeverityFor(policy, g.code, g.severity)
    BY <2>1, <2>3, SMTT(30)
  <2> QED
    BY <2>4
<1>6. ASSUME NEW g \in AllFound(others)
      PROVE  \E f \in kept : Id(f) = Id(g)
  <2>1. PICK j \in raw : j = [g EXCEPT !.severity = SeverityFor(policy, g.code, g.severity)]
    BY <1>3
  <2>2. IsFinding(g)
    BY FoundType
  <2>3. \A s, x : x = [g EXCEPT !.severity = s] => Id(x) = Id(g)
    BY <2>2, JudgedType
  <2>4. Id(j) = Id(g)
    BY <2>1, <2>3, Zenon
  <2> QED
    BY <1>4, <2>4
<1> QED
  BY <1>1, <1>5, <1>6

-----------------------------------------------------------------------------
(* The shorts between rails. *)

HoldsBoth(g) == Meets(g, GroundNames) /\ Meets(g, PowerNets)
Shorted == {g \in Shorts : Meets(g, GroundNames)}
Straps(g) == {i \in Direct : Ends(i) \subseteq g}

\* A tie has two nodes.
LEMMA TieType ==
  ASSUME DevicesOK, NEW i \in Ties
  PROVE  i \in DOMAIN devices /\ Ends(i) \subseteq AllNodes /\ Ends(i) \in TieEdges
<1>1. i \in DOMAIN devices /\ Len(devices[i].nodes) >= 2 /\ IsTie(i)
  BY DEF Ties, IsTie
<1>2. IsSeq(devices[i].nodes)
  BY <1>1 DEF DevicesOK
<1>3. 1 \in DOMAIN devices[i].nodes /\ 2 \in DOMAIN devices[i].nodes
  BY <1>1, <1>2, Sequence
<1>4. Ends(i) \subseteq ToSet(devices[i].nodes)
  BY <1>3 DEF Ends, ToSet
<1>5. devices[i] \in ToSet(devices)
  BY <1>1, NodesOfDevices
<1> QED
  BY <1>1, <1>4, <1>5 DEF AllNodes, TieEdges

LEMMA TieGroupsAre ==
  ASSUME DevicesOK
  PROVE  AreComponents(TieGroups, TieEdges) /\ IsFiniteSet(TieEdges) /\ UNION TieEdges \subseteq AllNodes
<1>1. IsFiniteSet(Ties)
  <2>1. IsFiniteSet(DOMAIN devices) /\ Ties \subseteq DOMAIN devices
    BY FiniteRange DEF DevicesOK, Ties
  <2> QED
    BY <2>1, FS_Subset
<1>2. TieEdges = {Ends(i) : i \in Ties}
  BY DEF TieEdges, Ties
<1>3. TieGroups = EndsMerge(Ties)[Ties]
  BY EndsFold DEF TieGroups
<1>4. AreComponents(EndsMerge(Ties)[Ties], {Ends(i) : i \in Ties})
  BY <1>1, EndsMerged
<1>5. UNION TieEdges \subseteq AllNodes
  BY <1>2, TieType
<1>6. IsFiniteSet(TieEdges)
  <2>1. TieEdges \in SUBSET (SUBSET AllNodes)
    BY <1>5
  <2>2. IsFiniteSet(SUBSET AllNodes)
    BY FiniteEdges, FS_SUBSET
  <2> QED
    BY <2>1, <2>2, FS_Subset
<1> QED
  BY <1>2, <1>3, <1>4, <1>5, <1>6

\* What ties reach from a power rail and holds a ground is a group that holds
\* both.  A rail that nothing is tied to is not both.
LEMMA ShortedAre ==
  ASSUME DevicesOK
  PROVE  Shorted = {g \in TieGroups : HoldsBoth(g)}
<1>1. AreComponents(TieGroups, TieEdges) /\ IsFiniteSet(TieEdges) /\ UNION TieEdges \subseteq AllNodes
  BY TieGroupsAre
<1>2. \A g \in TieGroups : \A n \in g : Reached({n}, TieEdges) = g
  BY <1>1, ReachedIsComponent
<1>3. UNION TieGroups = UNION TieEdges
  BY <1>1 DEF AreComponents
<1>4. ASSUME NEW g \in Shorted
      PROVE  g \in TieGroups /\ HoldsBoth(g)
  <2>1. PICK p \in RailNodes(PowerNets) : g = Reached({p}, TieEdges)
    BY DEF Shorted, Shorts
  <2>2. {p} \subseteq g /\ \A c : {p} \subseteq c /\ Closed(c, TieEdges) => g \subseteq c
    BY <1>1, <2>1, ReachedIsLeast
  <2>3. HoldsBoth(g)
    BY <2>1, <2>2 DEF Shorted, HoldsBoth, Meets, RailNodes
  <2>4. CASE p \in UNION TieGroups
    BY <1>2, <2>1, <2>3, <2>4
  <2>5. CASE p \notin UNION TieGroups
    <3>1. Closed({p}, TieEdges)
      BY <1>3, <2>5 DEF Closed
    <3>2. g = {p}
      BY <2>2, <3>1
    <3>3. IsRail(p, GroundNames) /\ IsRail(p, PowerNets)
      BY <2>3, <3>2 DEF HoldsBoth, Meets
    <3> QED
      BY <3>3, RailAssumption DEF IsRail, GroundNames
  <2> QED
    BY <2>4, <2>5
<1>5. ASSUME NEW g \in TieGroups, HoldsBoth(g)
      PROVE  g \in Shorted
  <2>1. PICK p \in g : IsRail(p, PowerNets)
    BY <1>5 DEF HoldsBoth, Meets
  <2>2. p \in RailNodes(PowerNets)
    BY <1>1, <1>3, <2>1 DEF RailNodes
  <2>3. g = Reached({p}, TieEdges)
    BY <1>2
  <2> QED
    BY <1>5, <2>2, <2>3 DEF Shorted, Shorts, HoldsBoth
<1> QED
  BY <1>4, <1>5

\* A direct short is a tie within a group that holds both.
LEMMA DirectWithin ==
  ASSUME DevicesOK, NEW i \in Direct
  PROVE  \E g \in Shorted : i \in Straps(g)
<1>1. i \in Ties /\ Meets(Ends(i), GroundNames) /\ Meets(Ends(i), PowerNets)
  BY DEF Direct
<1>2. PICK g \in TieGroups : Ends(i) \subseteq g
  BY <1>1, TieType, TieGroupsAre DEF AreComponents
<1>3. HoldsBoth(g)
  BY <1>1, <1>2 DEF HoldsBoth, Meets
<1> QED
  BY <1>2, <1>3, ShortedAre DEF Straps

LEMMA OnlyRails ==
  ASSUME NEW others \in OtherFindings, NEW f \in AllFound(others), f.code \in {"RAIL001", "RAIL002"}
  PROVE  \/ f.code = "RAIL001" /\ \E i \in Direct : f.at = devices[i].card
         \/ /\ f.code = "RAIL002" /\ f.nets \in TieGroups /\ HoldsBoth(f.nets)
            /\ \A i \in Direct : ~(Ends(i) \subseteq f.nets)
<1>1. f \notin others
  BY OtherAssumption
<1>2. f \notin GraphFindings
  <2> SUFFICES ASSUME f \in GraphFindings PROVE FALSE
    OBVIOUS
  <2>1. \/ \E code \in Issues : f = OfBundle(code)
        \/ \E s \in Defined \ Reachable : f = OfCard("GRAPH006", <<s, 0>>)
        \/ f = OfBundle("LIM001")
    BY FoundForms
  <2>2. Issues \subseteq {"GRAPH002", "GRAPH003", "GRAPH004", "GRAPH007"}
    BY DEF Issues
  <2>3. f.code \in {"GRAPH002", "GRAPH003", "GRAPH004", "GRAPH007", "GRAPH006", "LIM001"}
    <3>1. CASE \E code \in Issues : f = OfBundle(code)
      BY <2>2, <3>1, OfFacts
    <3>2. CASE \E s \in Defined \ Reachable : f = OfCard("GRAPH006", <<s, 0>>)
      BY <3>2, OfFacts
    <3>3. CASE f = OfBundle("LIM001")
      BY <3>3, OfFacts
    <3> QED
      BY <2>1, <3>1, <3>2, <3>3
  <2> QED
    BY <2>3
<1>3. f \notin PortFindings
  <2> SUFFICES ASSUME f \in PortFindings PROVE FALSE
    OBVIOUS
  <2>1. PICK code, nets : code \in {"PORT001", "PORT002"} /\ f = OfNets(code, nets)
    BY FoundForms
  <2> QED
    BY <2>1, OfFacts
<1>4. f \notin ConnectivityFindings
  <2> SUFFICES ASSUME f \in ConnectivityFindings PROVE FALSE
    OBVIOUS
  <2>1. PICK code \in {"NET001", "NET002"} : \E s \in Scopes : \E n \in InternalNets(s) : f = OfNets(code, {<<s, n>>})
    BY FoundForms
  <2>2. f.code = code
    BY <2>1, OfFacts
  <2> QED
    BY <2>2
<1>5. f \notin SourceConflicts
  <2> SUFFICES ASSUME f \in SourceConflicts PROVE FALSE
    OBVIOUS
  <2>1. PICK card : f = OfCard("SRC001", card)
    BY FoundForms
  <2> QED
    BY <2>1, OfFacts
<1>6. f \notin SolvabilityFindings
  <2> SUFFICES ASSUME f \in SolvabilityFindings PROVE FALSE
    OBVIOUS
  <2>1. \/ f = OfBundle("SOLVE001") \/ \E island \in Islands : f = OfNets("SOLVE002", island)
        \/ \E loop \in SourceLoops : f = Finding("SOLVE003", None, {}, Cardinality(loop), loop)
    BY FoundForms
  <2>2. ASSUME NEW loop, f = Finding("SOLVE003", None, {}, Cardinality(loop), loop)
        PROVE  f.code = "SOLVE003"
    BY <2>2, FindingType
  <2>3. f.code \in {"SOLVE001", "SOLVE002", "SOLVE003"}
    BY <2>1, <2>2, OfFacts
  <2> QED
    BY <2>3
<1>7. f \in RailFindings
  BY <1>1, <1>2, <1>3, <1>4, <1>5, <1>6 DEF AllFound
<1>8. CASE \E i \in Direct : f = OfCard("RAIL001", devices[i].card)
  BY <1>8, OfFacts
<1>9. ASSUME NEW g \in TieGroups, \A i \in Direct : ~(Ends(i) \subseteq g),
             Meets(g, GroundNames), Meets(g, PowerNets), f = OfNets("RAIL002", g)
      PROVE  /\ f.code = "RAIL002" /\ f.nets \in TieGroups /\ HoldsBoth(f.nets)
             /\ \A i \in Direct : ~(Ends(i) \subseteq f.nets)
  BY <1>9, OfFacts DEF HoldsBoth
<1> QED
  BY <1>7, <1>8, <1>9, FoundForms

LEMMA RailsReported ==
  ASSUME DevicesOK, NEW policy, NEW others \in OtherFindings, NEW kept, kept = RunChecks(policy, others)
  PROVE  /\ {f.nets : f \in {x \in kept : x.code = "RAIL002"}} = {g \in Shorted : Straps(g) = {}}
         /\ {f.at : f \in {x \in kept : x.code = "RAIL001"}}
              = {devices[i].card : i \in UNION {Straps(g) : g \in Shorted}}
<1>1. \A f \in kept : \E g \in AllFound(others) : g.code = f.code /\ g.at = f.at /\ g.nets = f.nets
  BY RunChecksKeeps
<1>2. \A g \in AllFound(others) : \E f \in kept : f.code = g.code /\ f.at = g.at /\ f.nets = g.nets
  BY RunChecksKeeps DEF Id
<1>3. Shorted = {g \in TieGroups : HoldsBoth(g)}
  BY ShortedAre
<1>4. ASSUME NEW f \in kept, f.code = "RAIL002"
      PROVE  f.nets \in Shorted /\ Straps(f.nets) = {}
  <2>1. PICK g \in AllFound(others) : g.code = f.code /\ g.nets = f.nets
    BY <1>1
  <2>2. /\ g.nets \in TieGroups /\ HoldsBoth(g.nets)
        /\ \A i \in Direct : ~(Ends(i) \subseteq g.nets)
    BY <1>4, <2>1, OnlyRails
  <2> QED
    BY <1>3, <2>1, <2>2 DEF Straps
<1>5. ASSUME NEW g \in Shorted, Straps(g) = {}
      PROVE  \E f \in kept : f.code = "RAIL002" /\ f.nets = g
  <2>1. OfNets("RAIL002", g) \in RailFindings
    BY <1>3, <1>5 DEF RailFindings, Straps, HoldsBoth
  <2>2. OfNets("RAIL002", g) \in AllFound(others)
    BY <2>1 DEF AllFound
  <2> QED
    BY <1>2, <2>2, OfFacts
<1>6. ASSUME NEW f \in kept, f.code = "RAIL001"
      PROVE  \E i \in UNION {Straps(g) : g \in Shorted} : f.at = devices[i].card
  <2>1. PICK g \in AllFound(others) : g.code = f.code /\ g.at = f.at
    BY <1>1
  <2>2. PICK i \in Direct : g.at = devices[i].card
    BY <1>6, <2>1, OnlyRails
  <2> QED
    BY <2>1, <2>2, DirectWithin
<1>7. ASSUME NEW g \in Shorted, NEW i \in Straps(g)
      PROVE  \E f \in kept : f.code = "RAIL001" /\ f.at = devices[i].card
  <2>1. OfCard("RAIL001", devices[i].card) \in RailFindings
    BY DEF RailFindings, Straps
  <2>2. OfCard("RAIL001", devices[i].card) \in AllFound(others)
    BY <2>1 DEF AllFound
  <2> QED
    BY <1>2, <2>2, OfFacts
<1>8. {f.nets : f \in {x \in kept : x.code = "RAIL002"}} = {g \in Shorted : Straps(g) = {}}
  BY <1>4, <1>5
<1>9. {f.at : f \in {x \in kept : x.code = "RAIL001"}} = {devices[i].card : i \in UNION {Straps(g) : g \in Shorted}}
  BY <1>6, <1>7
<1> QED
  BY <1>8, <1>9

\* What is read of a state that keeps its devices.
LEMMA RailsKept ==
  ASSUME UNCHANGED <<netlist, devices>>
  PROVE  Shorted' = Shorted /\ Direct' = Direct /\ \A g : Straps(g)' = Straps(g)
<1>1. /\ \A i : Ends(i)' = Ends(i) /\ Value(i)' = Value(i) /\ IsTie(i)' = IsTie(i)
      /\ AllNodes' = AllNodes
  BY DEF Ends, Value, IsTie, AllNodes
<1>2. Ties' = Ties /\ TieEdges' = TieEdges
  BY <1>1 DEF Ties, TieEdges
<1>3. Direct' = Direct
  BY <1>1, <1>2 DEF Direct
<1>4. RailNodes(PowerNets)' = RailNodes(PowerNets)
  BY <1>1 DEF RailNodes
<1>5. Shorts' = Shorts
  BY <1>2, <1>4 DEF Shorts
<1> QED
  BY <1>1, <1>3, <1>5 DEF Shorted, Straps

LEMMA RailPropertyIs ==
  RailShortsOnce <=>
    (pc = "audited" =>
       /\ {f.nets : f \in {x \in report.findings : x.code = "RAIL002"}} = {g \in Shorted : Straps(g) = {}}
       /\ {f.at : f \in {x \in report.findings : x.code = "RAIL001"}}
            = {devices[i].card : i \in UNION {Straps(g) : g \in Shorted}})
BY Zenon DEF RailShortsOnce, Audited, Found, Shorted, Straps

LEMMA RailStep ==
  ASSUME DevicesOK, RailShortsOnce, [AuditNext]_auditVars
  PROVE  RailShortsOnce'
<1>1. CASE Audit
  <2>1. PICK others \in OtherFindings, policy \in Policies :
            LET findings == RunChecks(policy, others)
            IN  report' = [policy |-> policy, findings |-> findings, decision |-> Decision(findings)]
    BY <1>1 DEF Audit
  <2> DEFINE kept == RunChecks(policy, others)
  <2>2. report'.findings = kept
    BY <2>1
  <2> HIDE DEF kept
  <2>3. /\ {f.nets : f \in {x \in kept : x.code = "RAIL002"}} = {g \in Shorted : Straps(g) = {}}
        /\ {f.at : f \in {x \in kept : x.code = "RAIL001"}}
              = {devices[i].card : i \in UNION {Straps(g) : g \in Shorted}}
    BY RailsReported DEF kept
  <2>4. devices' = devices /\ Shorted' = Shorted /\ \A g : Straps(g)' = Straps(g)
    BY <1>1, RailsKept DEF Audit
  <2>5. /\ {f.nets : f \in {x \in report'.findings : x.code = "RAIL002"}} = {g \in Shorted' : Straps(g)' = {}}
        /\ {f.at : f \in {x \in report'.findings : x.code = "RAIL001"}}
              = {devices'[i].card : i \in UNION {Straps(g)' : g \in Shorted'}}
    <3>1. {g \in Shorted' : Straps(g)' = {}} = {g \in Shorted : Straps(g) = {}}
      BY <2>4
    <3>2. UNION {Straps(g)' : g \in Shorted'} = UNION {Straps(g) : g \in Shorted}
      BY <2>4
    <3>3. {devices'[i].card : i \in UNION {Straps(g)' : g \in Shorted'}}
            = {devices[i].card : i \in UNION {Straps(g) : g \in Shorted}}
      BY <2>4, <3>2
    <3> QED
      BY <2>2, <2>3, <3>1, <3>3
  <2> QED
    BY <2>5, Zenon DEF RailShortsOnce, Audited, Found, Shorted, Straps
<1>2. CASE Next
  BY <1>2 DEF Next, Estimate, TakeLeaf, TakeCall, Return, Expanding, RailShortsOnce, Audited
<1>3. CASE UNCHANGED auditVars
  <2>1. devices' = devices /\ report' = report /\ pc' = pc /\ Shorted' = Shorted /\ \A g : Straps(g)' = Straps(g)
    BY <1>3, RailsKept DEF auditVars
  <2>2. pc = "audited" =>
          /\ {f.nets : f \in {x \in report'.findings : x.code = "RAIL002"}} = {g \in Shorted' : Straps(g)' = {}}
          /\ {f.at : f \in {x \in report'.findings : x.code = "RAIL001"}}
                = {devices'[i].card : i \in UNION {Straps(g)' : g \in Shorted'}}
    BY <2>1, RailPropertyIs
  <2> QED
    BY <2>1, <2>2 DEF RailShortsOnce, Audited, Found, Shorted, Straps
<1> QED
  BY <1>1, <1>2, <1>3 DEF AuditNext

-----------------------------------------------------------------------------
(* What separates two nodes. *)

Edges(S) == {Ends(i) : i \in S}
Apart(p, q, edges) == \E x : p \in x /\ q \notin x /\ Closed(x, edges)

LEMMA CrossWithin ==
  ASSUME NEW F, NEW X, NEW Y, Closed(X, F), Closed(Y, F), NEW p, NEW q, p \in X, q \notin X,
         p \in Y, q \in Y, NEW c, NEW d, c \in Y, d \notin Y
  PROVE  Apart(p, q, F \union {{c, d}})
<1> DEFINE U == (UNION F) \union {p, q, c, d}
           W == U \ Y
<1>1. Closed(W, F)
  <2>1. UNION F \subseteq U
    OBVIOUS
  <2> HIDE DEF U
  <2> QED
    BY <2>1, ComplementClosed
<1>2. CASE c \in X
  <2>1. d \in W /\ q \notin W
    OBVIOUS
  <2> HIDE DEF W
  <2>2. Closed(X \union W, F)
    BY <1>1 DEF Closed
  <2>3. Closed(X \union W, F \union {{c, d}})
    BY <1>2, <2>1, <2>2 DEF Closed
  <2> QED
    BY <2>1, <2>3 DEF Apart
<1>3. CASE c \notin X
  <2>1. Closed(X \intersect Y, F)
    BY DEF Closed
  <2>2. Closed(X \intersect Y, F \union {{c, d}})
    BY <1>3, <2>1 DEF Closed
  <2> QED
    BY <2>2 DEF Apart
<1> QED
  BY <1>2, <1>3

\* An edge that crosses a border on one side of which both nodes are does not
\* join them.
LEMMA Cross ==
  ASSUME NEW F, NEW X, NEW Y, Closed(X, F), Closed(Y, F), NEW p, NEW q, p \in X, q \notin X,
         p \in Y <=> q \in Y, NEW c, NEW d, c \in Y, d \notin Y
  PROVE  Apart(p, q, F \union {{c, d}})
<1> DEFINE U == (UNION F) \union {p, q, c, d}
           W == U \ Y
<1>1. CASE p \in Y
  BY <1>1, CrossWithin
<1>2. CASE p \notin Y
  <2>1. Closed(W, F)
    <3>1. UNION F \subseteq U
      OBVIOUS
    <3> HIDE DEF U
    <3> QED
      BY <3>1, ComplementClosed
  <2>2. p \in W /\ q \in W /\ d \in W /\ c \notin W
    BY <1>2
  <2> HIDE DEF W
  <2>3. Apart(p, q, F \union {{d, c}})
    BY <2>1, <2>2, CrossWithin
  <2>4. {d, c} = {c, d}
    OBVIOUS
  <2> QED
    BY <2>3, <2>4
<1> QED
  BY <1>1, <1>2

LEMMA ApartSymmetric ==
  ASSUME NEW p, NEW q, NEW F, Apart(p, q, F)
  PROVE  Apart(q, p, F)
<1>1. PICK x : p \in x /\ q \notin x /\ Closed(x, F)
  BY DEF Apart
<1> DEFINE U == (UNION F) \union {q}
<1>2. UNION F \subseteq U /\ q \in U
  OBVIOUS
<1> HIDE DEF U
<1>3. Closed(U \ x, F)
  BY <1>1, <1>2, ComplementClosed
<1> QED
  BY <1>1, <1>2, <1>3 DEF Apart

LEMMA ApartOfFewer ==
  ASSUME NEW p, NEW q, NEW F, NEW G, G \subseteq F, Apart(p, q, F)
  PROVE  Apart(p, q, G)
BY DEF Apart, Closed

LEMMA JoinedFold ==
  ASSUME NEW T, NEW ends
  PROVE  Joined(T, ends) <=> \E g \in EndsMerge(T)[T] : ends \subseteq g
BY EndsFold, Zenon DEF Joined

\* Two nodes are in one tree exactly when nothing separates them.
LEMMA JoinedIs ==
  ASSUME NEW T, IsFiniteSet(T), NEW p, NEW q, p # q
  PROVE  Joined(T, {p, q}) <=> ~Apart(p, q, Edges(T))
<1> DEFINE gs == EndsMerge(T)[T]
           F == Edges(T)
<1>1. AreComponents(gs, F)
  BY EndsMerged DEF Edges
<1>2. Joined(T, {p, q}) <=> \E g \in gs : {p, q} \subseteq g
  BY JoinedFold
<1> HIDE DEF gs, F
<1>3. ASSUME NEW g \in gs, {p, q} \subseteq g, Apart(p, q, F)
      PROVE  FALSE
  <2>1. PICK x : p \in x /\ q \notin x /\ Closed(x, F)
    BY <1>3 DEF Apart
  <2>2. x \intersect g # {}
    BY <1>3, <2>1
  <2>3. g \subseteq x
    BY <1>1, <2>1, <2>2 DEF AreComponents
  <2> QED
    BY <1>3, <2>1, <2>3
<1>4. ASSUME \A g \in gs : ~({p, q} \subseteq g)
      PROVE  Apart(p, q, F)
  <2>1. CASE \E g \in gs : p \in g
    <3>1. PICK g \in gs : p \in g
      BY <2>1
    <3>2. Closed(g, F)
      BY <1>1, GroupsClosed
    <3> QED
      BY <1>4, <3>1, <3>2 DEF Apart
  <2>2. CASE ~\E g \in gs : p \in g
    <3>1. UNION gs = UNION F
      BY <1>1 DEF AreComponents
    <3>2. Closed({p}, F)
      BY <2>2, <3>1 DEF Closed
    <3> QED
      BY <3>2 DEF Apart
  <2> QED
    BY <2>1, <2>2
<1> QED
  BY <1>2, <1>3, <1>4 DEF F

-----------------------------------------------------------------------------
(* The forest of sources and the path between two of its nodes. *)

First(i) == devices[i].nodes[1]
Second(i) == devices[i].nodes[2]
Forest(T) == \A j \in T : Apart(First(j), Second(j), Edges(T \ {j}))

LEMMA EdgesMore ==
  ASSUME NEW T, NEW j \in T
  PROVE  Edges(T) = Edges(T \ {j}) \union {{First(j), Second(j)}}
BY DEF Edges, Ends, First, Second

LEMMA ClosedMore ==
  ASSUME NEW c, NEW F, Closed(c, F), NEW p, NEW q, p \in c <=> q \in c
  PROVE  Closed(c, F \union {{p, q}})
BY DEF Closed

LEMMA ForestGrows ==
  ASSUME NEW T, Forest(T), NEW i, i \notin T, Apart(First(i), Second(i), Edges(T))
  PROVE  Forest(T \union {i})
<1> SUFFICES ASSUME NEW j \in T \union {i}
             PROVE  Apart(First(j), Second(j), Edges((T \union {i}) \ {j}))
  BY DEF Forest
<1>1. CASE j = i
  <2>1. (T \union {i}) \ {j} = T
    BY <1>1
  <2> QED
    BY <1>1, <2>1
<1>2. CASE j # i
  <2> DEFINE F == Edges(T \ {j})
  <2>1. j \in T
    BY <1>2
  <2>2. PICK X : First(j) \in X /\ Second(j) \notin X /\ Closed(X, F)
    BY <2>1 DEF Forest, Apart
  <2>3. PICK Y : First(i) \in Y /\ Second(i) \notin Y /\ Closed(Y, Edges(T))
    BY DEF Apart
  <2>4. Edges(T) = F \union {{First(j), Second(j)}}
    BY <2>1, EdgesMore
  <2>5. Edges((T \union {i}) \ {j}) = F \union {{First(i), Second(i)}}
    BY <1>2 DEF Edges, Ends, First, Second
  <2> HIDE DEF F
  <2>6. Closed(Y, F) /\ (First(j) \in Y <=> Second(j) \in Y)
    BY <2>3, <2>4 DEF Closed
  <2>7. Apart(First(j), Second(j), F \union {{First(i), Second(i)}})
    BY <2>2, <2>3, <2>6, Cross
  <2> QED
    BY <2>5, <2>7
<1> QED
  BY <1>1, <1>2

\* The edges without which the nodes would be apart join them.
Needed(T, a, b) == {j \in T : Apart(a, b, Edges(T \ {j}))}

\* Edges that join two nodes, and none of which can be left out.
Minimal(m, a, b) == ~Apart(a, b, Edges(m)) /\ \A j \in m : Apart(a, b, Edges(m \ {j}))

LEMMA MinimalJoin ==
  ASSUME NEW T, IsFiniteSet(T), NEW a, NEW b, ~Apart(a, b, Edges(T))
  PROVE  \E m \in SUBSET T : Minimal(m, a, b)
<1> DEFINE P == {s \in SUBSET T : ~Apart(a, b, Edges(s)) => \E m \in SUBSET s : Minimal(m, a, b)}
<1>1. ASSUME NEW s \in SUBSET T, \A x \in s : s \ {x} \in P, ~Apart(a, b, Edges(s))
      PROVE  \E m \in SUBSET s : Minimal(m, a, b)
  <2>1. CASE \A j \in s : Apart(a, b, Edges(s \ {j}))
    BY <1>1, <2>1 DEF Minimal
  <2>2. CASE \E j \in s : ~Apart(a, b, Edges(s \ {j}))
    <3>1. PICK j \in s : ~Apart(a, b, Edges(s \ {j}))
      BY <2>2
    <3>2. \E m \in SUBSET (s \ {j}) : Minimal(m, a, b)
      BY <1>1, <3>1
    <3> QED
      BY <3>2
  <2> QED
    BY <2>1, <2>2
<1>2. P = SUBSET T
  <2>1. P \in SUBSET (SUBSET T) /\ \A s \in SUBSET T : (\A x \in s : s \ {x} \in P) => s \in P
    BY <1>1
  <2> HIDE DEF P
  <2> QED
    BY <2>1, SetInduction
<1> QED
  BY <1>2

LEMMA NeededJoin ==
  ASSUME NEW T, IsFiniteSet(T), Forest(T), NEW a, NEW b, ~Apart(a, b, Edges(T))
  PROVE  ~Apart(a, b, Edges(Needed(T, a, b)))
<1>1. PICK m \in SUBSET T : Minimal(m, a, b)
  BY MinimalJoin
<1> DEFINE Q == Needed(T, a, b)
<1>2. ASSUME NEW j \in m
      PROVE  j \in Q
  <2> SUFFICES ASSUME ~Apart(a, b, Edges(T \ {j}))
               PROVE  FALSE
    BY DEF Needed
  <2> DEFINE F == Edges(m \ {j})
  <2>1. PICK X : a \in X /\ b \notin X /\ Closed(X, F)
    BY <1>1 DEF Apart, Minimal
  <2>2. PICK Y : First(j) \in Y /\ Second(j) \notin Y /\ Closed(Y, Edges(T \ {j}))
    BY DEF Forest, Apart
  <2>3. ~Apart(b, a, Edges(T \ {j}))
    BY ApartSymmetric
  <2>4. a \in Y <=> b \in Y
    BY <2>2, <2>3 DEF Apart
  <2>5. F \subseteq Edges(T \ {j})
    BY DEF Edges
  <2>6. Edges(m) = F \union {{First(j), Second(j)}}
    BY EdgesMore
  <2> HIDE DEF F
  <2>7. Closed(Y, F)
    BY <2>2, <2>5 DEF Closed
  <2>8. Apart(a, b, F \union {{First(j), Second(j)}})
    BY <2>1, <2>2, <2>4, <2>7, Cross
  <2> QED
    BY <1>1, <2>6, <2>8 DEF Minimal
<1>3. Edges(m) \subseteq Edges(Q)
  BY <1>2 DEF Edges
<1> QED
  BY <1>1, <1>3, ApartOfFewer DEF Minimal

-----------------------------------------------------------------------------
(* The shape of a path. *)

\* Without any of the edges the two nodes are apart, and x separates them.
IsPath(Q, a, b, x) ==
  /\ a # b /\ ~Apart(a, b, Edges(Q))
  /\ \A j \in Q : a \in x[j] /\ b \notin x[j] /\ Closed(x[j], Edges(Q \ {j}))

\* Each edge leads from the one side to the other, and all others stay on theirs.
LEMMA PathSplit ==
  ASSUME NEW Q, NEW a, NEW b, NEW x, IsPath(Q, a, b, x), NEW j \in Q
  PROVE  /\ \E t, h : Ends(j) = {t, h} /\ t \in x[j] /\ h \notin x[j]
         /\ \A k \in Q : k # j /\ Ends(k) \intersect x[j] # {} => Ends(k) \subseteq x[j]
<1>1. a \in x[j] /\ b \notin x[j] /\ Closed(x[j], Edges(Q \ {j})) /\ ~Apart(a, b, Edges(Q))
  BY DEF IsPath
<1>2. Edges(Q) = Edges(Q \ {j}) \union {{First(j), Second(j)}} /\ Ends(j) = {First(j), Second(j)}
  BY EdgesMore DEF Ends, First, Second
<1>3. ~Closed(x[j], Edges(Q))
  BY <1>1 DEF Apart
<1>4. \/ First(j) \in x[j] /\ Second(j) \notin x[j]
      \/ Second(j) \in x[j] /\ First(j) \notin x[j]
  <2>1. ~(First(j) \in x[j] <=> Second(j) \in x[j])
    <3> SUFFICES ASSUME First(j) \in x[j] <=> Second(j) \in x[j] PROVE FALSE
      OBVIOUS
    <3> DEFINE c == x[j]
               F == Edges(Q \ {j})
               p == First(j)
               q == Second(j)
    <3>1. Closed(c, F) /\ (p \in c <=> q \in c)
      BY <1>1
    <3>2. Edges(Q) = F \union {{p, q}} /\ ~Closed(c, Edges(Q))
      BY <1>2, <1>3
    <3> HIDE DEF c, F, p, q
    <3>3. Closed(c, F \union {{p, q}})
      BY <3>1, ClosedMore
    <3> QED
      BY <3>2, <3>3
  <2> QED
    BY <2>1
<1>5. \A k \in Q : k # j => Ends(k) \in Edges(Q \ {j})
  BY DEF Edges
<1> QED
  BY <1>1, <1>2, <1>4, <1>5 DEF Closed

\* No set with the one node and without the other holds both ends or none of
\* every edge.
LEMMA PathCrossed ==
  ASSUME NEW Q, NEW a, NEW b, NEW x, IsPath(Q, a, b, x), NEW c, a \in c, b \notin c
  PROVE  \E j \in Q : Ends(j) \intersect c # {} /\ ~(Ends(j) \subseteq c)
<1>1. ~Closed(c, Edges(Q))
  BY DEF IsPath, Apart
<1> QED
  BY <1>1 DEF Closed, Edges

\* Two edges do not lead away from one node, nor to one.
LEMMA TailsDiffer ==
  ASSUME NEW Q, NEW a, NEW b, NEW x, IsPath(Q, a, b, x), NEW j \in Q, NEW k \in Q,
         NEW n, n \in Ends(j), n \in Ends(k), n \in x[j], n \in x[k]
  PROVE  j = k
<1> SUFFICES ASSUME j # k PROVE FALSE
  OBVIOUS
<1> DEFINE c == x[j] \union x[k]
<1>1. Ends(k) \subseteq x[j] /\ Ends(j) \subseteq x[k]
  BY PathSplit
<1>2. a \in c /\ b \notin c
  BY DEF IsPath
<1>3. PICK i \in Q : Ends(i) \intersect c # {} /\ ~(Ends(i) \subseteq c)
  <2> HIDE DEF c
  <2> QED
    BY <1>2, PathCrossed
<1>4. i # j /\ i # k
  BY <1>1, <1>3
<1> QED
  BY <1>3, <1>4, PathSplit

LEMMA HeadsDiffer ==
  ASSUME NEW Q, NEW a, NEW b, NEW x, IsPath(Q, a, b, x), NEW j \in Q, NEW k \in Q,
         NEW n, n \in Ends(j), n \in Ends(k), n \notin x[j], n \notin x[k]
  PROVE  j = k
<1> SUFFICES ASSUME j # k PROVE FALSE
  OBVIOUS
<1> DEFINE c == x[j] \intersect x[k]
<1>1. Ends(k) \intersect x[j] = {} /\ Ends(j) \intersect x[k] = {}
  BY PathSplit
<1>2. a \in c /\ b \notin c
  BY DEF IsPath
<1>3. PICK i \in Q : Ends(i) \intersect c # {} /\ ~(Ends(i) \subseteq c)
  <2> HIDE DEF c
  <2> QED
    BY <1>2, PathCrossed
<1>4. i # j /\ i # k
  BY <1>1, <1>3
<1> QED
  BY <1>3, <1>4, PathSplit

\* The path goes on from every node that it leads to but the last ...
LEMMA PathGoesOn ==
  ASSUME NEW Q, NEW a, NEW b, NEW x, IsPath(Q, a, b, x), NEW j \in Q, NEW n \in Ends(j),
         n \notin x[j], n # b
  PROVE  \E k \in Q : n \in Ends(k) /\ n \in x[k]
<1> SUFFICES ASSUME \A k \in Q : n \in Ends(k) => n \notin x[k]
             PROVE  FALSE
  OBVIOUS
<1> DEFINE c == x[j] \union {n}
<1>1. \A k \in Q : n \in Ends(k) => k = j
  BY HeadsDiffer
<1>2. a \in c /\ b \notin c
  BY DEF IsPath
<1>3. PICK i \in Q : Ends(i) \intersect c # {} /\ ~(Ends(i) \subseteq c)
  <2> HIDE DEF c
  <2> QED
    BY <1>2, PathCrossed
<1>4. Ends(j) \subseteq c
  BY PathSplit
<1>5. i # j /\ n \notin Ends(i)
  BY <1>1, <1>3, <1>4
<1> QED
  BY <1>3, <1>5, PathSplit

\* ... and has come to every node that it leads away from but the first.
LEMMA PathCameFrom ==
  ASSUME NEW Q, NEW a, NEW b, NEW x, IsPath(Q, a, b, x), NEW j \in Q, NEW n \in Ends(j),
         n \in x[j], n # a
  PROVE  \E k \in Q : n \in Ends(k) /\ n \notin x[k]
<1> SUFFICES ASSUME \A k \in Q : n \in Ends(k) => n \in x[k]
             PROVE  FALSE
  OBVIOUS
<1> DEFINE c == x[j] \ {n}
<1>1. \A k \in Q : n \in Ends(k) => k = j
  BY TailsDiffer
<1>2. a \in c /\ b \notin c
  BY DEF IsPath
<1>3. PICK i \in Q : Ends(i) \intersect c # {} /\ ~(Ends(i) \subseteq c)
  <2> HIDE DEF c
  <2> QED
    BY <1>2, PathCrossed
<1>4. Ends(j) \intersect c = {}
  BY PathSplit
<1>5. i # j /\ n \notin Ends(i)
  BY <1>1, <1>3, <1>4
<1> QED
  BY <1>3, <1>5, PathSplit

\* It starts at the first and ends at the last.
LEMMA PathEnds ==
  ASSUME NEW Q, NEW a, NEW b, NEW x, IsPath(Q, a, b, x)
  PROVE  (\E j \in Q : a \in Ends(j)) /\ (\E j \in Q : b \in Ends(j))
<1>1. a # b
  BY DEF IsPath
<1>2. \E j \in Q : a \in Ends(j)
  <2>1. PICK j \in Q : Ends(j) \intersect {a} # {}
    <3> DEFINE c == {a}
    <3>1. a \in c /\ b \notin c
      BY <1>1
    <3> HIDE DEF c
    <3>2. \E j \in Q : Ends(j) \intersect c # {}
      BY <3>1, PathCrossed
    <3> QED
      BY <3>2 DEF c
  <2> QED
    BY <2>1
<1>3. \E j \in Q : b \in Ends(j)
  <2> DEFINE c == ((UNION Edges(Q)) \union {a}) \ {b}
  <2>1. a \in c /\ b \notin c /\ \A j \in Q : Ends(j) \subseteq c \union {b}
    BY <1>1 DEF Edges
  <2> HIDE DEF c
  <2>2. PICK j \in Q : Ends(j) \intersect c # {} /\ ~(Ends(j) \subseteq c)
    BY <2>1, PathCrossed
  <2> QED
    BY <2>1, <2>2
<1> QED
  BY <1>2, <1>3

-----------------------------------------------------------------------------
(* The loop that an edge closes with the path between its ends. *)

LEMMA PairCardinality ==
  ASSUME NEW p, NEW q
  PROVE  IsFiniteSet({p, q}) /\ Cardinality({p, q}) = IF p = q THEN 1 ELSE 2
<1>1. IsFiniteSet({p}) /\ Cardinality({p}) = 1 /\ {p, q} = {p} \union {q}
  BY FS_Singleton
<1> QED
  BY <1>1, FS_AddElement

LEMMA LoopDegrees ==
  ASSUME NEW Q, NEW a, NEW b, NEW x, IsPath(Q, a, b, x), NEW i, i \notin Q, Ends(i) = {a, b},
         NEW n \in UNION {Ends(k) : k \in Q \union {i}}
  PROVE  Cardinality({k \in Q \union {i} : n \in Ends(k)}) = 2
<1> DEFINE at == {k \in Q \union {i} : n \in Ends(k)}
<1>1. \A j, k : j # k => Cardinality({j, k}) = 2
  BY PairCardinality
<1>2. SUFFICES \E j, k : j # k /\ at = {j, k}
  BY <1>1
<1>3. \A k \in Q : a \in x[k] /\ b \notin x[k]
  BY DEF IsPath
<1>4. CASE n = a
  <2>1. PICK j \in Q : a \in Ends(j)
    BY PathEnds
  <2>2. \A k \in Q : a \in Ends(k) => k = j
    BY <1>3, <2>1, TailsDiffer
  <2>3. at = {j, i} /\ j # i
    BY <1>4, <2>1, <2>2
  <2> QED
    BY <2>3
<1>5. CASE n = b
  <2>1. PICK j \in Q : b \in Ends(j)
    BY PathEnds
  <2>2. \A k \in Q : b \in Ends(k) => k = j
    BY <1>3, <2>1, HeadsDiffer
  <2>3. at = {j, i} /\ j # i
    BY <1>5, <2>1, <2>2
  <2> QED
    BY <2>3
<1>6. CASE n # a /\ n # b
  <2>1. PICK l \in Q : n \in Ends(l)
    BY <1>6
  <2>2. PICK j \in Q : n \in Ends(j) /\ n \in x[j]
    BY <1>6, <2>1, PathGoesOn
  <2>3. PICK k \in Q : n \in Ends(k) /\ n \notin x[k]
    BY <1>6, <2>2, PathCameFrom
  <2>4. \A m \in Q : n \in Ends(m) => m = j \/ m = k
    <3> SUFFICES ASSUME NEW m \in Q, n \in Ends(m)
                 PROVE  m = j \/ m = k
      OBVIOUS
    <3>1. CASE n \in x[m]
      BY <2>2, <3>1, TailsDiffer
    <3>2. CASE n \notin x[m]
      BY <2>3, <3>2, HeadsDiffer
    <3> QED
      BY <3>1, <3>2
  <2>5. at = {j, k} /\ j # k
    BY <1>6, <2>2, <2>3, <2>4
  <2> QED
    BY <2>5
<1> QED
  BY <1>4, <1>5, <1>6

LEMMA LoopConnected ==
  ASSUME NEW Q, NEW a, NEW b, NEW x, IsPath(Q, a, b, x), NEW i, i \notin Q, Ends(i) = {a, b},
         NEW gs, AreComponents(gs, Edges(Q \union {i}))
  PROVE  Cardinality(gs) = 1
<1> DEFINE L == Q \union {i}
<1>1. ASSUME NEW g \in gs
      PROVE  a \in g
  <2> SUFFICES ASSUME a \notin g PROVE FALSE
    OBVIOUS
  <2>1. Closed(g, Edges(L))
    BY GroupsClosed
  <2>2. \A k \in L : Ends(k) \intersect g # {} => Ends(k) \subseteq g
    BY <2>1 DEF Closed, Edges
  <2>3. PICK n : n \in g /\ n \in UNION Edges(L)
    <3>1. UNION gs = UNION Edges(L) /\ g # {}
      BY DEF AreComponents
    <3> HIDE DEF L
    <3> QED
      BY <3>1
  <2>4. PICK j \in L : n \in Ends(j)
    BY <2>3 DEF Edges
  <2>5. Ends(j) \subseteq g /\ j # i /\ j \in Q
    BY <2>2, <2>3, <2>4
  <2> DEFINE c == x[j] \ g
  <2>6. a \in c /\ b \notin c
    BY <2>5 DEF IsPath
  <2>7. PICK k \in Q : Ends(k) \intersect c # {} /\ ~(Ends(k) \subseteq c)
    <3> HIDE DEF c
    <3> QED
      BY <2>6, PathCrossed
  <2>8. k # j
    BY <2>5, <2>7
  <2>9. Ends(k) \subseteq x[j]
    BY <2>5, <2>7, <2>8, PathSplit
  <2>10. Ends(k) \intersect g = {}
    BY <2>2, <2>7
  <2> QED
    BY <2>7, <2>9, <2>10
<1>2. a \in UNION Edges(L)
  BY DEF Edges
<1>3. PICK g \in gs : a \in g
  BY <1>2 DEF AreComponents
<1>4. gs = {g}
  BY <1>1, <1>3 DEF AreComponents
<1> QED
  BY <1>4, FS_Singleton

-----------------------------------------------------------------------------
(* Counting the groups. *)

\* With one more edge, the nodes less the groups are one more than before.
Balanced(new, more, gs, N) ==
  /\ IsFiniteSet(new) /\ IsFiniteSet(more)
  /\ Cardinality(new) + 1 + Cardinality(N) = Cardinality(gs) + Cardinality(more)

\* Uniting two nodes that no group holds takes one group away for each of them
\* that was in one.
LEMMA UniteOne ==
  ASSUME NEW gs, NEW F, AreComponents(gs, F), IsFiniteSet(gs), NEW N, N = UNION F, IsFiniteSet(N),
         NEW a, NEW b, a # b, a \in N, b \notin N
  PROVE  Balanced(Unite(gs, {a, b}), N \union {a, b}, gs, N)
<1>1. UNION gs = N /\ \A g, h \in gs : g \intersect h # {} => g = h
  BY DEF AreComponents
<1>2. PICK ga \in gs : a \in ga
  BY <1>1
<1>3. \A g \in gs : b \notin g
  BY <1>1
<1> DEFINE new == ga \union {b}
<1>4. Unite(gs, {a, b}) = (gs \ {ga}) \union {new}
  <2>1. {g \in gs : g \intersect {a, b} # {}} = {ga}
    BY <1>1, <1>2, <1>3
  <2>2. {a, b} \union UNION {ga} = new
    BY <1>2
  <2> HIDE DEF new
  <2> QED
    BY <2>1, <2>2 DEF Unite
<1>5. new \notin gs \ {ga}
  BY <1>3
<1> HIDE DEF new
<1>6. /\ IsFiniteSet(gs \ {ga}) /\ Cardinality(gs \ {ga}) = Cardinality(gs) - 1
      /\ Cardinality(gs) \in Nat /\ Cardinality(N) \in Nat
  BY FS_RemoveElement, FS_CardinalityType
<1>7. IsFiniteSet((gs \ {ga}) \union {new}) /\ Cardinality((gs \ {ga}) \union {new}) = Cardinality(gs) - 1 + 1
  BY <1>5, <1>6, FS_AddElement
<1>8. N \union {a, b} = N \union {b}
  OBVIOUS
<1>9. IsFiniteSet(N \union {b}) /\ Cardinality(N \union {b}) = Cardinality(N) + 1
  BY FS_AddElement
<1>10. Balanced((gs \ {ga}) \union {new}, N \union {b}, gs, N)
  BY <1>6, <1>7, <1>9 DEF Balanced
<1> QED
  BY <1>4, <1>8, <1>10, Zenon

LEMMA UniteNone ==
  ASSUME NEW gs, NEW F, AreComponents(gs, F), IsFiniteSet(gs), NEW N, N = UNION F, IsFiniteSet(N),
         NEW a, NEW b, a # b, a \notin N, b \notin N
  PROVE  Balanced(Unite(gs, {a, b}), N \union {a, b}, gs, N)
<1>1. UNION gs = N
  BY DEF AreComponents
<1>2. \A g \in gs : a \notin g /\ b \notin g
  BY <1>1
<1> DEFINE new == {a, b}
<1>3. Unite(gs, new) = gs \union {new} /\ new \notin gs
  <2>1. {g \in gs : g \intersect new # {}} = {}
    BY <1>2
  <2>2. new \notin gs
    BY <1>2
  <2> HIDE DEF new
  <2> QED
    BY <2>1, <2>2 DEF Unite
<1>4. N \union new = (N \union {a}) \union {b} /\ b \notin N \union {a}
  OBVIOUS
<1> HIDE DEF new
<1>5. IsFiniteSet(gs \union {new}) /\ Cardinality(gs \union {new}) = Cardinality(gs) + 1
  BY <1>3, FS_AddElement
<1>6. IsFiniteSet(N \union {a}) /\ Cardinality(N \union {a}) = Cardinality(N) + 1
  BY FS_AddElement
<1>7. IsFiniteSet((N \union {a}) \union {b}) /\ Cardinality((N \union {a}) \union {b}) = Cardinality(N) + 1 + 1
  BY <1>4, <1>6, FS_AddElement
<1>8. Cardinality(gs) \in Nat /\ Cardinality(N) \in Nat
  BY FS_CardinalityType
<1>9. Balanced(gs \union {new}, (N \union {a}) \union {b}, gs, N)
  BY <1>5, <1>7, <1>8 DEF Balanced
<1>10. Balanced(Unite(gs, new), N \union new, gs, N)
  BY <1>3, <1>4, <1>9, Zenon
<1> QED
  BY <1>10, Zenon DEF new

LEMMA UniteBoth ==
  ASSUME NEW gs, NEW F, AreComponents(gs, F), IsFiniteSet(gs), NEW N, N = UNION F, IsFiniteSet(N),
         NEW a, NEW b, a # b, a \in N, b \in N, \A g \in gs : ~({a, b} \subseteq g)
  PROVE  Balanced(Unite(gs, {a, b}), N \union {a, b}, gs, N)
<1>1. UNION gs = N /\ \A g, h \in gs : g \intersect h # {} => g = h
  BY DEF AreComponents
<1>2. PICK ga \in gs, gb \in gs : a \in ga /\ b \in gb
  BY <1>1
<1>3. b \notin ga /\ ga # gb
  BY <1>2
<1> DEFINE new == ga \union gb
           rest == (gs \ {ga}) \ {gb}
<1>4. Unite(gs, {a, b}) = rest \union {new}
  <2>1. {g \in gs : g \intersect {a, b} # {}} = {ga, gb}
    BY <1>1, <1>2
  <2>2. {a, b} \union UNION {ga, gb} = new
    BY <1>2
  <2>3. gs \ {ga, gb} = rest
    OBVIOUS
  <2> HIDE DEF new, rest
  <2> QED
    BY <2>1, <2>2, <2>3 DEF Unite
<1>5. new \notin gs
  BY <1>1, <1>2, <1>3
<1>6. IsFiniteSet(gs \ {ga}) /\ Cardinality(gs \ {ga}) = Cardinality(gs) - 1
  BY FS_RemoveElement
<1>7. IsFiniteSet(rest) /\ Cardinality(rest) = Cardinality(gs) - 1 - 1
  <2> DEFINE most == gs \ {ga}
  <2>1. gb \in most
    BY <1>3
  <2>2. IsFiniteSet(most)
    BY <1>6
  <2> HIDE DEF most
  <2>3. IsFiniteSet(most \ {gb}) /\ Cardinality(most \ {gb}) = Cardinality(most) - 1
    BY <2>1, <2>2, FS_RemoveElement
  <2> QED
    BY <1>6, <2>3 DEF most, rest
<1>8. new \notin rest
  BY <1>5
<1> HIDE DEF new, rest
<1>9. IsFiniteSet(rest \union {new}) /\ Cardinality(rest \union {new}) = Cardinality(gs) - 1 - 1 + 1
  BY <1>7, <1>8, FS_AddElement
<1>10. N \union {a, b} = N /\ Cardinality(gs) \in Nat /\ Cardinality(N) \in Nat
  BY FS_CardinalityType
<1>11. Balanced(rest \union {new}, N, gs, N)
  BY <1>9, <1>10 DEF Balanced
<1> QED
  BY <1>4, <1>10, <1>11, Zenon

LEMMA UniteCounts ==
  ASSUME NEW gs, NEW F, AreComponents(gs, F), IsFiniteSet(gs), NEW N, N = UNION F, IsFiniteSet(N),
         NEW a, NEW b, a # b, Apart(a, b, F)
  PROVE  Balanced(Unite(gs, {a, b}), N \union {a, b}, gs, N)
<1>1. \A g \in gs : ~({a, b} \subseteq g)
  BY DEF AreComponents, Apart
<1>2. CASE a \in N /\ b \in N
  BY <1>1, <1>2, UniteBoth
<1>3. CASE a \in N /\ b \notin N
  BY <1>3, UniteOne
<1>4. CASE a \notin N /\ b \in N
  <2>1. {a, b} = {b, a}
    OBVIOUS
  <2> QED
    BY <1>4, <2>1, UniteOne, Zenon
<1>5. CASE a \notin N /\ b \notin N
  BY <1>5, UniteNone
<1> QED
  BY <1>2, <1>3, <1>4, <1>5

\* Edges within the groups change nothing.
LEMMA EdgesWithin ==
  ASSUME NEW gs, NEW F, AreComponents(gs, F), NEW G, F \subseteq G, \A e \in G : \E g \in gs : e \subseteq g
  PROVE  AreComponents(gs, G)
<1>1. UNION gs = UNION F /\ {} \notin gs /\ \A g, h \in gs : g \intersect h # {} => g = h
  BY DEF AreComponents
<1>2. UNION gs = UNION G
  BY <1>1
<1>3. \A c : Closed(c, G) => Closed(c, F)
  BY DEF Closed
<1>4. \A g \in gs : \A c : Closed(c, G) /\ c \intersect g # {} => g \subseteq c
  BY <1>3 DEF AreComponents
<1> QED
  BY <1>1, <1>2, <1>4 DEF AreComponents

-----------------------------------------------------------------------------
(* The walk over the devices that finds the loops. *)
Places == [i \in DOMAIN devices |-> i]
Looked ==
  CHOOSE it : it = [s \in SUBSET DOMAIN Places |->
                      IF s = {} THEN [tree |-> {}, loops |-> {}]
                      ELSE TakeSource(it[s \ {Max(s)}], Places[Max(s)])]

LEMMA LoopsFold == SourceLoops = Looked[DOMAIN Places].loops
BY Zenon DEF SourceLoops, FoldLeftDomain, FoldLeft, MapThenFoldSet, Looked, Places

\* The largest of finitely many numbers.
LEMMA MaxExists ==
  ASSUME NEW D \in SUBSET Int, IsFiniteSet(D)
  PROVE  \A s \in SUBSET D : s # {} => Max(s) \in s /\ \A y \in s : Max(s) >= y
<1> DEFINE P == {s \in SUBSET D : s # {} => \E m \in s : \A y \in s : m >= y}
<1>1. ASSUME NEW s \in SUBSET D, \A x \in s : s \ {x} \in P
      PROVE  s \in P
  <2>1. SUFFICES ASSUME s # {}
                 PROVE  \E m \in s : \A y \in s : m >= y
    BY <1>1
  <2>2. PICK x \in s : TRUE
    BY <2>1
  <2>3. x \in Int /\ s \subseteq Int
    BY <1>1
  <2>4. CASE s \ {x} = {}
    BY <2>2, <2>3, <2>4
  <2>5. CASE s \ {x} # {}
    <3>1. PICK m \in s \ {x} : \A y \in s \ {x} : m >= y
      BY <1>1, <2>2, <2>5
    <3>2. \/ m >= x
          \/ \A y \in s : x >= y
      BY <2>3, <3>1
    <3> QED
      BY <2>2, <3>1, <3>2
  <2> QED
    BY <2>4, <2>5
<1>2. P = SUBSET D
  <2>1. P \in SUBSET (SUBSET D)
    OBVIOUS
  <2> HIDE DEF P
  <2> QED
    BY <1>1, <2>1, SetInduction
<1>3. ASSUME NEW s \in SUBSET D, s # {}
      PROVE  Max(s) \in s /\ \A y \in s : Max(s) >= y
  <2>1. \E m \in s : \A y \in s : m >= y
    BY <1>2, <1>3
  <2> QED
    BY <2>1 DEF Max
<1> QED
  BY <1>3

LEMMA LookedIs ==
  ASSUME DevicesOK
  PROVE  Looked = [s \in SUBSET DOMAIN Places |->
                     IF s = {} THEN [tree |-> {}, loops |-> {}]
                     ELSE TakeSource(Looked[s \ {Max(s)}], Places[Max(s)])]
<1> DEFINE D == DOMAIN devices
           V == [tree : SUBSET D, loops : SUBSET SUBSET D]
           none == [tree |-> {}, loops |-> {}]
           step == [p \in D \X V |-> TakeSource(p[2], p[1])]
           pick == [s \in SUBSET D |-> Max(s)]
<1>0. DOMAIN Places = D /\ \A i \in D : Places[i] = i
  BY DEF Places
<1>1. ASSUME NEW i \in D, NEW v \in V
      PROVE  TakeSource(v, i) \in V
  <2>1. TreePath(v.tree, Ends(i)) \subseteq D
    BY DEF TreePath
  <2>2. [v EXCEPT !.tree = @ \union {i}] \in V
    OBVIOUS
  <2>3. [v EXCEPT !.loops = @ \union {{i} \union TreePath(v.tree, Ends(i))}] \in V
    BY <2>1
  <2> QED
    BY <2>2, <2>3 DEF TakeSource
<1>2. IsFiniteSet(D) /\ D \in SUBSET Int
  <2>1. IsSeq(devices)
    BY DEF DevicesOK
  <2>2. D = 1 .. Len(devices) /\ Len(devices) \in Nat
    BY <2>1, Sequence
  <2> QED
    BY <2>1, <2>2, FiniteRange
<1>3. \A s \in SUBSET D : pick[s] = Max(s) /\ (s # {} => pick[s] \in s)
  BY <1>2, MaxExists
<1>4. none \in V
  OBVIOUS
<1>5. \A i \in D, v \in V : step[<<i, v>>] = TakeSource(v, i)
  OBVIOUS
<1>6. step \in [D \X V -> V]
  BY <1>1
<1> HIDE DEF step, pick, D, V, none
<1>7. PICK it : PickFold(D, V, none, step, pick, it)
  BY <1>2, <1>3, <1>4, <1>6, PickRecursion
<1>8. ASSUME NEW s \in SUBSET D
      PROVE  it[s] = IF s = {} THEN none ELSE TakeSource(it[s \ {Max(s)}], Places[Max(s)])
  <2>1. it[s] = PickStep(none, step, pick, it, s) /\ it \in [SUBSET D -> V]
    BY <1>7 DEF PickFold
  <2>2. CASE s # {}
    <3>1. pick[s] = Max(s) /\ Max(s) \in D /\ it[s \ {Max(s)}] \in V /\ Places[Max(s)] = Max(s)
      BY <1>0, <1>3, <2>1, <2>2
    <3> QED
      BY <1>5, <2>1, <2>2, <3>1 DEF PickStep
  <2> QED
    BY <2>1, <2>2 DEF PickStep
<1>9. it = [s \in SUBSET DOMAIN Places |->
              IF s = {} THEN none ELSE TakeSource(it[s \ {Max(s)}], Places[Max(s)])]
  <2>1. it \in [SUBSET D -> V]
    BY <1>7 DEF PickFold
  <2> QED
    BY <1>0, <1>8, <2>1
<1> QED
  BY <1>9, Zenon DEF Looked, none

\* What the walk has found after k devices.
FoundTo(k) == Looked[1 .. k]

LEMMA FoundIs ==
  ASSUME DevicesOK
  PROVE  /\ FoundTo(0) = [tree |-> {}, loops |-> {}]
         /\ \A k \in Nat : k + 1 \in DOMAIN devices => FoundTo(k + 1) = TakeSource(FoundTo(k), k + 1)
         /\ SourceLoops = FoundTo(Len(devices)).loops /\ DOMAIN devices = 1 .. Len(devices) /\ Len(devices) \in Nat
<1>1. DOMAIN devices = 1 .. Len(devices) /\ Len(devices) \in Nat
  BY Sequence DEF DevicesOK
<1>2. DOMAIN Places = DOMAIN devices /\ \A i \in DOMAIN devices : Places[i] = i
  BY DEF Places
<1>3. \A s \in SUBSET DOMAIN Places :
        Looked[s] = IF s = {} THEN [tree |-> {}, loops |-> {}]
                    ELSE TakeSource(Looked[s \ {Max(s)}], Places[Max(s)])
  BY LookedIs
<1>4. ASSUME NEW k \in Nat, k + 1 \in DOMAIN devices
      PROVE  FoundTo(k + 1) = TakeSource(FoundTo(k), k + 1)
  <2> DEFINE s == 1 .. k + 1
  <2>1. s \in SUBSET DOMAIN Places /\ s # {} /\ s \in SUBSET Int /\ k + 1 \in s
    BY <1>1, <1>2, <1>4
  <2>2. IsFiniteSet(s)
    BY FS_Interval
  <2>3. Max(s) \in s /\ \A y \in s : Max(s) >= y
    BY <2>1, <2>2, MaxExists
  <2>4. Max(s) = k + 1
    BY <2>1, <2>3
  <2>5. s \ {k + 1} = 1 .. k
    OBVIOUS
  <2>6. Places[k + 1] = k + 1
    BY <1>2, <1>4
  <2> HIDE DEF s
  <2>7. Looked[s] = TakeSource(Looked[1 .. k], k + 1)
    BY <1>3, <2>1, <2>4, <2>5, <2>6
  <2> QED
    BY <2>7 DEF s, FoundTo
<1>5. FoundTo(0) = [tree |-> {}, loops |-> {}]
  <2>1. 1 .. 0 = {}
    OBVIOUS
  <2> QED
    BY <1>3, <2>1 DEF FoundTo
<1>6. SourceLoops = FoundTo(Len(devices)).loops
  BY <1>1, <1>2, LoopsFold DEF FoundTo
<1> QED
  BY <1>1, <1>4, <1>5, <1>6

\* The sources of one cycle: two at each of its nodes, and all in one piece.
IsLoop(loop) ==
  /\ \A n \in UNION Edges(loop) : Cardinality({i \in loop : n \in Ends(i)}) = 2
  /\ \A gs : AreComponents(gs, Edges(loop)) => Cardinality(gs) = 1

\* The path that closes a loop is made of the sources it needs.
LEMMA TreePathIs ==
  ASSUME NEW T, IsFiniteSet(T), NEW p, NEW q, p # q
  PROVE  TreePath(T, {p, q}) = Needed(T, p, q)
<1>1. ASSUME NEW j \in T
      PROVE  Joined(T \ {j}, {p, q}) <=> ~Apart(p, q, Edges(T \ {j}))
  <2> DEFINE t == T \ {j}
  <2>1. IsFiniteSet(t)
    BY FS_Subset
  <2> HIDE DEF t
  <2>2. Joined(t, {p, q}) <=> ~Apart(p, q, Edges(t))
    BY <2>1, JoinedIs
  <2> QED
    BY <2>2 DEF t
<1> QED
  BY <1>1, Zenon DEF TreePath, Needed

LEMMA LoopOfPath ==
  ASSUME NEW T, IsFiniteSet(T), Forest(T), NEW i, i \notin T, First(i) # Second(i),
         ~Apart(First(i), Second(i), Edges(T))
  PROVE  IsLoop({i} \union Needed(T, First(i), Second(i)))
<1> DEFINE a == First(i)
           b == Second(i)
           Q == Needed(T, a, b)
           Side(j, x) == a \in x /\ b \notin x /\ Closed(x, Edges(Q \ {j}))
           x == [j \in Q |-> CHOOSE s : Side(j, s)]
<1>1. Ends(i) = {a, b}
  BY DEF Ends, First, Second
<1>2. i \notin Q /\ Q \subseteq T
  BY DEF Needed
<1>3. ~Apart(a, b, Edges(Q))
  BY NeededJoin
<1>4. ASSUME NEW j \in Q
      PROVE  \E s : Side(j, s)
  <2>1. Apart(a, b, Edges(T \ {j}))
    BY DEF Needed
  <2>2. Edges(Q \ {j}) \subseteq Edges(T \ {j})
    BY <1>2 DEF Edges
  <2>3. Apart(a, b, Edges(Q \ {j}))
    <3>1. \A F, G : G \subseteq F /\ Apart(a, b, F) => Apart(a, b, G)
      BY ApartOfFewer
    <3> QED
      BY <2>1, <2>2, <3>1, Zenon
  <2> HIDE DEF Q
  <2> QED
    BY <2>3, Zenon DEF Apart
<1>5. ASSUME NEW j \in Q
      PROVE  Side(j, x[j])
  <2>1. x[j] = CHOOSE s : Side(j, s)
    OBVIOUS
  <2> HIDE DEF x, Side
  <2> QED
    BY <1>4, <2>1, Zenon
<1> HIDE DEF x, Q
<1>6. IsPath(Q, a, b, x)
  <2>1. a # b
    OBVIOUS
  <2> QED
    BY <1>3, <1>5, <2>1, Zenon DEF IsPath
<1> HIDE DEF a, b
<1> DEFINE loop == Q \union {i}
<1>7. \A n \in UNION Edges(loop) : Cardinality({k \in loop : n \in Ends(k)}) = 2
  <2>1. \A n \in UNION {Ends(k) : k \in Q \union {i}} : Cardinality({k \in Q \union {i} : n \in Ends(k)}) = 2
    BY <1>1, <1>2, <1>6, LoopDegrees
  <2> QED
    BY <2>1, Zenon DEF Edges
<1>8. \A gs : AreComponents(gs, Edges(loop)) => Cardinality(gs) = 1
  BY <1>1, <1>2, <1>6, LoopConnected
<1>9. IsLoop(loop)
  <2> HIDE DEF loop
  <2> QED
    BY <1>7, <1>8, Zenon DEF IsLoop
<1>10. loop = {i} \union Q
  OBVIOUS
<1> QED
  BY <1>9, <1>10, Zenon DEF Q, a, b

\* As many groups and sources together as nodes.
Spanning(T) ==
  \E gs : /\ AreComponents(gs, Edges(T)) /\ IsFiniteSet(gs) /\ IsFiniteSet(UNION Edges(T))
          /\ Cardinality(gs) + Cardinality(T) = Cardinality(UNION Edges(T))

\* What has been found among the sources S.
LoopInv(T, L, S) ==
  /\ T \subseteq S /\ Forest(T) /\ Spanning(T)
  /\ \A i \in S : ~Apart(First(i), Second(i), Edges(T))
  /\ IsFiniteSet(L) /\ \A loop \in L : loop \subseteq S /\ IsLoop(loop)
  /\ Cardinality(T) + Cardinality(L) = Cardinality(S)

LEMMA SpanningGrows ==
  ASSUME NEW T, IsFiniteSet(T), Spanning(T), NEW i, i \notin T, First(i) # Second(i),
         Apart(First(i), Second(i), Edges(T))
  PROVE  Spanning(T \union {i})
<1> DEFINE a == First(i)
           b == Second(i)
           F == Edges(T)
           N == UNION F
           G == F \union {{a, b}}
<1>1. PICK gs : /\ AreComponents(gs, F) /\ IsFiniteSet(gs) /\ IsFiniteSet(N)
                /\ Cardinality(gs) + Cardinality(T) = Cardinality(N)
  BY DEF Spanning
<1> DEFINE new == Unite(gs, {a, b})
           more == N \union {a, b}
<1>2. Edges(T \union {i}) = G
  BY DEF Edges, Ends, First, Second
<1>3. UNION G = more
  OBVIOUS
<1> HIDE DEF F, a, b
<1>4. {a, b} # {}
  OBVIOUS
<1>5. AreComponents(new, G)
  <2> DEFINE e == {a, b}
  <2>1. e # {}
    OBVIOUS
  <2> HIDE DEF e
  <2>2. AreComponents(Unite(gs, e), F \union {e})
    BY <1>1, <2>1, UniteComponents
  <2> QED
    BY <2>2, Zenon DEF e
<1>6. Balanced(new, more, gs, N)
  <2>1. a # b /\ Apart(a, b, F)
    BY DEF a, b, F
  <2> HIDE DEF N
  <2>2. N = UNION F
    BY DEF N
  <2> QED
    BY <1>1, <2>1, <2>2, UniteCounts
<1>7. Cardinality(T \union {i}) = Cardinality(T) + 1 /\ Cardinality(T) \in Nat
  BY FS_AddElement, FS_CardinalityType
<1> HIDE DEF new, more, N, G
<1>8. Cardinality(gs) \in Nat /\ Cardinality(N) \in Nat
  BY <1>1, FS_CardinalityType
<1>9. Cardinality(new) \in Nat /\ Cardinality(more) \in Nat
  BY <1>6, FS_CardinalityType DEF Balanced
<1>10. /\ IsFiniteSet(new) /\ IsFiniteSet(more)
       /\ Cardinality(new) + Cardinality(T \union {i}) = Cardinality(more)
  BY <1>1, <1>6, <1>7, <1>8, <1>9 DEF Balanced
<1> QED
  BY <1>2, <1>3, <1>5, <1>10, Zenon DEF Spanning

\* A source between two trees joins them.
LEMMA TreeGrows ==
  ASSUME NEW S, IsFiniteSet(S), NEW T, NEW L, LoopInv(T, L, S), NEW i, i \notin S, First(i) # Second(i),
         Apart(First(i), Second(i), Edges(T))
  PROVE  LoopInv(T \union {i}, L, S \union {i})
<1>2. IsFiniteSet(T) /\ T \subseteq S /\ i \notin T /\ Forest(T) /\ Spanning(T)
  BY FS_Subset DEF LoopInv
<1>3. Forest(T \union {i})
  BY <1>2, ForestGrows
<1>4. Spanning(T \union {i})
  BY <1>2, SpanningGrows
<1>5. \A j \in S \union {i} : ~Apart(First(j), Second(j), Edges(T \union {i}))
  <2>1. Edges(T) \subseteq Edges(T \union {i})
    BY DEF Edges
  <2>2. \A j : Apart(First(j), Second(j), Edges(T \union {i})) => Apart(First(j), Second(j), Edges(T))
    <3> DEFINE F == Edges(T)
               G == Edges(T \union {i})
    <3> HIDE DEF F, G
    <3>1. F \subseteq G
      BY <2>1 DEF F, G
    <3>2. \A p, q : Apart(p, q, G) => Apart(p, q, F)
      BY <3>1, ApartOfFewer
    <3> QED
      BY <3>2, Zenon DEF F, G
  <2>3. ~Apart(First(i), Second(i), Edges(T \union {i}))
    <3>1. {First(i), Second(i)} \in Edges(T \union {i})
      BY DEF Edges, Ends, First, Second
    <3>2. \A p, q, F : {p, q} \in F => ~Apart(p, q, F)
      BY DEF Apart, Closed
    <3> QED
      BY <3>1, <3>2, Zenon
  <2> QED
    BY <2>2, <2>3 DEF LoopInv
<1>6. Cardinality(T \union {i}) = Cardinality(T) + 1 /\ Cardinality(S \union {i}) = Cardinality(S) + 1
  BY <1>2, FS_AddElement
<1>7. Cardinality(T) \in Nat /\ Cardinality(S) \in Nat /\ Cardinality(L) \in Nat
  BY <1>2, FS_CardinalityType DEF LoopInv
<1>8. Cardinality(T \union {i}) + Cardinality(L) = Cardinality(S \union {i})
  <2>1. Cardinality(T) + Cardinality(L) = Cardinality(S)
    BY DEF LoopInv
  <2> QED
    BY <1>6, <1>7, <2>1
<1>9. IsFiniteSet(L) /\ \A loop \in L : loop \subseteq S \union {i} /\ IsLoop(loop)
  BY DEF LoopInv
<1>10. T \union {i} \subseteq S \union {i}
  BY <1>2
<1> QED
  BY <1>3, <1>4, <1>5, <1>8, <1>9, <1>10, Zenon DEF LoopInv

\* A source within one tree closes a loop that no earlier one is.
LEMMA LoopCloses ==
  ASSUME NEW S, IsFiniteSet(S), NEW T, NEW L, LoopInv(T, L, S), NEW i, i \notin S, First(i) # Second(i),
         ~Apart(First(i), Second(i), Edges(T))
  PROVE  LoopInv(T, L \union {{i} \union TreePath(T, Ends(i))}, S \union {i})
<1> DEFINE loop == {i} \union TreePath(T, Ends(i))
<1>2. IsFiniteSet(T) /\ T \subseteq S /\ i \notin T /\ Forest(T) /\ Spanning(T)
  BY FS_Subset DEF LoopInv
<1>3. IsLoop(loop)
  <2>1. Ends(i) = {First(i), Second(i)}
    BY DEF Ends, First, Second
  <2>2. TreePath(T, Ends(i)) = Needed(T, First(i), Second(i))
    BY <1>2, <2>1, TreePathIs
  <2>3. IsLoop({i} \union Needed(T, First(i), Second(i)))
    BY <1>2, LoopOfPath
  <2> QED
    BY <2>2, <2>3, Zenon
<1>4. loop \subseteq S \union {i} /\ i \in loop
  BY <1>2 DEF TreePath
<1> HIDE DEF loop
<1>5. loop \notin L
  BY <1>4 DEF LoopInv
<1>6. IsFiniteSet(L) /\ Cardinality(L) \in Nat /\ Cardinality(T) \in Nat /\ Cardinality(S) \in Nat
  BY <1>2, FS_CardinalityType DEF LoopInv
<1>7. IsFiniteSet(L \union {loop}) /\ Cardinality(L \union {loop}) = Cardinality(L) + 1
  BY <1>5, <1>6, FS_AddElement
<1>8. Cardinality(S \union {i}) = Cardinality(S) + 1
  BY FS_AddElement
<1>9. Cardinality(T) + Cardinality(L \union {loop}) = Cardinality(S \union {i})
  <2>1. Cardinality(T) + Cardinality(L) = Cardinality(S)
    BY DEF LoopInv
  <2> QED
    BY <1>6, <1>7, <1>8, <2>1
<1>10. \A l \in L \union {loop} : l \subseteq S \union {i} /\ IsLoop(l)
  BY <1>3, <1>4 DEF LoopInv
<1>11. \A j \in S \union {i} : ~Apart(First(j), Second(j), Edges(T))
  BY DEF LoopInv
<1>12. T \subseteq S \union {i}
  BY <1>2
<1>13. LoopInv(T, L \union {loop}, S \union {i})
  BY <1>2, <1>7, <1>9, <1>10, <1>11, <1>12, Zenon DEF LoopInv
<1> QED
  BY <1>13 DEF loop

SourcesTo(k) == {i \in Sources : i <= k}

LEMMA EndsTwo ==
  ASSUME NEW i
  PROVE  Ends(i) = {First(i), Second(i)} /\ Cardinality(Ends(i)) = IF First(i) = Second(i) THEN 1 ELSE 2
<1>1. Ends(i) = {First(i), Second(i)}
  BY DEF Ends, First, Second
<1>2. \A p, q : Cardinality({p, q}) = IF p = q THEN 1 ELSE 2
  BY PairCardinality
<1>3. Cardinality({First(i), Second(i)}) = IF First(i) = Second(i) THEN 1 ELSE 2
  BY <1>2
<1> QED
  BY <1>1, <1>3

\* What the walk does at one device.
LEMMA RecordUpdates ==
  ASSUME NEW T, NEW L, NEW u, NEW f, f \in [tree : {T}, loops : {L}]
  PROVE  /\ f.tree = T /\ f.loops = L /\ f = [tree |-> T, loops |-> L]
         /\ [f EXCEPT !.tree = u] = [tree |-> u, loops |-> L]
         /\ [f EXCEPT !.loops = u] = [tree |-> T, loops |-> u]
OBVIOUS

LEMMA PassesOver ==
  ASSUME NEW i, ~(IsSource(devices[i]) /\ First(i) # Second(i)), NEW f
  PROVE  TakeSource(f, i) = f
BY EndsTwo DEF TakeSource

LEMMA JoinsTrees ==
  ASSUME NEW T, NEW L, NEW i, IsSource(devices[i]), First(i) # Second(i), ~Joined(T, Ends(i))
  PROVE  TakeSource([tree |-> T, loops |-> L], i) = [tree |-> T \union {i}, loops |-> L]
<1> DEFINE f == [tree |-> T, loops |-> L]
           t == T \union {i}
<1>1. f \in [tree : {T}, loops : {L}]
  OBVIOUS
<1>2. Cardinality(Ends(i)) # 1
  BY EndsTwo
<1> HIDE DEF f
<1>3. TakeSource(f, i) = [f EXCEPT !.tree = f.tree \union {i}]
  <2>1. f.tree = T
    BY <1>1
  <2> QED
    BY <1>2, <2>1 DEF TakeSource
<1>4. f.tree \union {i} = t
  BY <1>1
<1> HIDE DEF t
<1>5. [f EXCEPT !.tree = t] = [tree |-> t, loops |-> L]
  BY <1>1, RecordUpdates
<1> QED
  BY <1>3, <1>4, <1>5, Zenon DEF f, t

LEMMA ClosesLoop ==
  ASSUME NEW T, NEW L, NEW i, IsSource(devices[i]), First(i) # Second(i), Joined(T, Ends(i))
  PROVE  TakeSource([tree |-> T, loops |-> L], i)
           = [tree |-> T, loops |-> L \union {{i} \union TreePath(T, Ends(i))}]
<1> DEFINE f == [tree |-> T, loops |-> L]
           l == L \union {{i} \union TreePath(T, Ends(i))}
<1>1. f \in [tree : {T}, loops : {L}]
  OBVIOUS
<1>2. Cardinality(Ends(i)) # 1
  BY EndsTwo
<1> HIDE DEF f
<1>3. TakeSource(f, i) = [f EXCEPT !.loops = f.loops \union {{i} \union TreePath(f.tree, Ends(i))}]
  <2>1. f.tree = T
    BY <1>1
  <2> QED
    BY <1>2, <2>1 DEF TakeSource
<1>4. f.loops \union {{i} \union TreePath(f.tree, Ends(i))} = l
  <2>1. f.tree = T /\ f.loops = L
    BY <1>1
  <2> QED
    BY <2>1, Zenon
<1> HIDE DEF l
<1>5. [f EXCEPT !.loops = l] = [tree |-> T, loops |-> l]
  BY <1>1, RecordUpdates
<1> QED
  BY <1>3, <1>4, <1>5, Zenon DEF f, l

LEMMA LoopsSoFar ==
  ASSUME DevicesOK
  PROVE  \A k \in Nat : k <= Len(devices) =>
           \E T, L : FoundTo(k) = [tree |-> T, loops |-> L] /\ LoopInv(T, L, SourcesTo(k))
<1> DEFINE So(k) == \E T, L : FoundTo(k) = [tree |-> T, loops |-> L] /\ LoopInv(T, L, SourcesTo(k))
           P == {k \in Nat : k <= Len(devices) => So(k)}
<1>1. /\ FoundTo(0) = [tree |-> {}, loops |-> {}]
      /\ \A k \in Nat : k + 1 \in DOMAIN devices => FoundTo(k + 1) = TakeSource(FoundTo(k), k + 1)
      /\ DOMAIN devices = 1 .. Len(devices) /\ Len(devices) \in Nat
  BY FoundIs
<1>2. 0 \in P
  <2> DEFINE none == {}
  <2>1. SourcesTo(0) = {}
    BY <1>1 DEF SourcesTo, Sources
  <2>2. Edges({}) = {} /\ UNION Edges({}) = {}
    BY DEF Edges
  <2>3. IsFiniteSet({}) /\ Cardinality({}) = 0
    BY FS_EmptySet
  <2>4. AreComponents({}, {})
    BY NoComponents
  <2>5. Spanning({})
    <3>1. AreComponents({}, Edges({})) /\ IsFiniteSet(UNION Edges({}))
      BY <2>2, <2>3, <2>4
    <3>2. Cardinality({}) + Cardinality({}) = Cardinality(UNION Edges({}))
      BY <2>2, <2>3
    <3> QED
      BY <2>3, <3>1, <3>2, Zenon DEF Spanning
  <2>6. Forest({})
    BY DEF Forest
  <2>7. LoopInv({}, {}, SourcesTo(0))
    BY <2>1, <2>3, <2>5, <2>6 DEF LoopInv
  <2>8. So(0)
    BY <1>1, <2>7, Zenon
  <2> HIDE DEF So
  <2> QED
    BY <2>8
<1>3. ASSUME NEW k \in P
      PROVE  k + 1 \in P
  <2> DEFINE i == k + 1
             S == SourcesTo(k)
             more == SourcesTo(i)
  <2>0. i \in Nat
    BY <1>3
  <2> HIDE DEF So
  <2>1. SUFFICES ASSUME i <= Len(devices)
                 PROVE  So(i)
    BY <2>0
  <2> USE DEF So
  <2>2. k \in Nat /\ i \in DOMAIN devices /\ k <= Len(devices)
    BY <1>1, <1>3, <2>1
  <2>3. PICK T, L : FoundTo(k) = [tree |-> T, loops |-> L] /\ LoopInv(T, L, S)
    BY <1>3, <2>2
  <2>4. FoundTo(i) = TakeSource([tree |-> T, loops |-> L], i)
    BY <1>1, <2>2, <2>3
  <2>5. IsFiniteSet(S) /\ i \notin S
    <3>1. S \subseteq 1 .. k
      BY <1>1 DEF SourcesTo, Sources
    <3>2. IsFiniteSet(1 .. k)
      BY <2>2, FS_Interval
    <3>3. i \notin 1 .. k
      BY <2>2
    <3> QED
      BY <3>1, <3>2, <3>3, FS_Subset
  <2>6. Ends(i) = {First(i), Second(i)} /\ Cardinality(Ends(i)) = IF First(i) = Second(i) THEN 1 ELSE 2
    BY EndsTwo
  <2>8. more = IF i \in Sources THEN S \union {i} ELSE S
    BY <1>1, <2>2 DEF SourcesTo, Sources
  <2>9. i \in Sources <=> IsSource(devices[i]) /\ First(i) # Second(i)
    BY <2>2, <2>6 DEF Sources
  <2> HIDE DEF i, S, more
  <2>10. CASE i \notin Sources
    <3>1. FoundTo(i) = [tree |-> T, loops |-> L]
      BY <2>3, <2>4, <2>9, <2>10, PassesOver
    <3> QED
      BY <2>3, <2>8, <2>10, <3>1 DEF more
  <2>11. CASE i \in Sources /\ Joined(T, Ends(i))
    <3>1. FoundTo(i) = [tree |-> T, loops |-> L \union {{i} \union TreePath(T, Ends(i))}]
      BY <2>4, <2>9, <2>11, ClosesLoop
    <3>2. IsFiniteSet(T)
      BY <2>3, <2>5, FS_Subset DEF LoopInv
    <3>3. ~Apart(First(i), Second(i), Edges(T))
      BY <2>6, <2>9, <2>11, <3>2, JoinedIs
    <3>4. LoopInv(T, L \union {{i} \union TreePath(T, Ends(i))}, S \union {i})
      BY <2>3, <2>5, <2>9, <2>11, <3>3, LoopCloses
    <3> QED
      BY <2>8, <2>11, <3>1, <3>4, Zenon DEF more
  <2>12. CASE i \in Sources /\ ~Joined(T, Ends(i))
    <3>1. FoundTo(i) = [tree |-> T \union {i}, loops |-> L]
      BY <2>4, <2>9, <2>12, JoinsTrees
    <3>2. IsFiniteSet(T)
      BY <2>3, <2>5, FS_Subset DEF LoopInv
    <3>3. Apart(First(i), Second(i), Edges(T))
      BY <2>6, <2>9, <2>12, <3>2, JoinedIs
    <3>4. LoopInv(T \union {i}, L, S \union {i})
      BY <2>3, <2>5, <2>9, <2>12, <3>3, TreeGrows
    <3> QED
      BY <2>8, <2>12, <3>1, <3>4, Zenon DEF more
  <2> QED
    BY <2>10, <2>11, <2>12
<1>4. P = Nat
  <2>1. P \in SUBSET Nat
    OBVIOUS
  <2> HIDE DEF P
  <2> QED
    BY <1>2, <1>3, <2>1, SetOfAllNaturals
<1> QED
  BY <1>4

\* The forest that is left spans what all sources join.
LEMMA TreesOfSources ==
  ASSUME NEW T, IsFiniteSet(T), T \subseteq Sources, IsFiniteSet(Sources), Spanning(T),
         \A i \in Sources : ~Apart(First(i), Second(i), Edges(T))
  PROVE  LET gs == EndsMerge(Sources)[Sources]
         IN  /\ IsFiniteSet(gs) /\ IsFiniteSet(SourceNodes)
             /\ Cardinality(gs) + Cardinality(T) = Cardinality(SourceNodes)
<1>1. PICK gs : /\ AreComponents(gs, Edges(T)) /\ IsFiniteSet(gs) /\ IsFiniteSet(UNION Edges(T))
                /\ Cardinality(gs) + Cardinality(T) = Cardinality(UNION Edges(T))
  BY DEF Spanning
<1>2. gs = EndsMerge(T)[T]
  <2>1. AreComponents(EndsMerge(T)[T], Edges(T))
    BY EndsMerged DEF Edges
  <2> DEFINE other == EndsMerge(T)[T]
  <2> HIDE DEF other
  <2> QED
    BY <1>1, <2>1, ComponentsUnique DEF other
<1>3. ASSUME NEW i \in Sources
      PROVE  \E g \in gs : Ends(i) \subseteq g
  <2>1. Ends(i) = {First(i), Second(i)}
    BY EndsTwo
  <2>2. First(i) # Second(i)
    BY EndsTwo DEF Sources
  <2>3. Joined(T, {First(i), Second(i)})
    BY <1>3, <2>2, JoinedIs
  <2> QED
    BY <1>2, <2>1, <2>3, JoinedFold, Zenon
<1>4. Edges(T) \subseteq Edges(Sources) /\ \A e \in Edges(Sources) : \E g \in gs : e \subseteq g
  BY <1>3 DEF Edges
<1>5. AreComponents(gs, Edges(Sources))
  <2> DEFINE F == Edges(T)
             G == Edges(Sources)
  <2> HIDE DEF F, G
  <2>1. AreComponents(gs, F) /\ F \subseteq G /\ \A e \in G : \E g \in gs : e \subseteq g
    BY <1>1, <1>4 DEF F, G
  <2>2. AreComponents(gs, G)
    BY <2>1, EdgesWithin
  <2> QED
    BY <2>2 DEF G
<1>6. gs = EndsMerge(Sources)[Sources]
  <2>1. AreComponents(EndsMerge(Sources)[Sources], Edges(Sources))
    BY EndsMerged DEF Edges
  <2> DEFINE other == EndsMerge(Sources)[Sources]
             G == Edges(Sources)
  <2> HIDE DEF other, G
  <2>2. AreComponents(gs, G) /\ AreComponents(other, G)
    BY <1>5, <2>1 DEF other, G
  <2> QED
    BY <2>2, ComponentsUnique DEF other
<1>7. SourceNodes = UNION Edges(T)
  <2>1. SourceNodes = UNION Edges(Sources)
    BY DEF SourceNodes, Edges
  <2>2. UNION gs = UNION Edges(T) /\ UNION gs = UNION Edges(Sources)
    BY <1>1, <1>5 DEF AreComponents
  <2> QED
    BY <2>1, <2>2
<1> QED
  BY <1>1, <1>6, <1>7, Zenon

\* The loops that are found, and how many.
LEMMA LoopsCounted ==
  ASSUME DevicesOK, NEW gs, gs = EndsMerge(Sources)[Sources]
  PROVE  /\ IsFiniteSet(Sources) /\ IsFiniteSet(SourceLoops) /\ IsFiniteSet(gs) /\ IsFiniteSet(SourceNodes)
         /\ Cardinality(SourceLoops) = Cardinality(Sources) - Cardinality(SourceNodes) + Cardinality(gs)
         /\ \A loop \in SourceLoops : loop \subseteq Sources /\ IsLoop(loop)
<1> DEFINE n == Len(devices)
<1>1. SourceLoops = FoundTo(n).loops /\ DOMAIN devices = 1 .. n /\ n \in Nat
  BY FoundIs
<1>2. PICK T, L : FoundTo(n) = [tree |-> T, loops |-> L] /\ LoopInv(T, L, SourcesTo(n))
  BY <1>1, LoopsSoFar
<1>3. SourceLoops = L
  BY <1>1, <1>2
<1>4. SourcesTo(n) = Sources /\ Sources \subseteq 1 .. n
  BY <1>1 DEF SourcesTo, Sources
<1>5. IsFiniteSet(Sources)
  <2>1. IsFiniteSet(1 .. n)
    BY <1>1, FS_Interval
  <2> HIDE DEF n
  <2> QED
    BY <1>4, <2>1, FS_Subset
<1>6. LoopInv(T, L, Sources)
  BY <1>2, <1>4
<1>7. IsFiniteSet(T)
  BY <1>5, <1>6, FS_Subset DEF LoopInv
<1>8. /\ IsFiniteSet(gs) /\ IsFiniteSet(SourceNodes)
      /\ Cardinality(gs) + Cardinality(T) = Cardinality(SourceNodes)
  BY <1>5, <1>6, <1>7, TreesOfSources DEF LoopInv
<1>9. Cardinality(L) = Cardinality(Sources) - Cardinality(SourceNodes) + Cardinality(gs)
  <2>1. Cardinality(T) + Cardinality(L) = Cardinality(Sources) /\ IsFiniteSet(L)
    BY <1>6 DEF LoopInv
  <2>2. /\ Cardinality(T) \in Nat /\ Cardinality(L) \in Nat /\ Cardinality(Sources) \in Nat
        /\ Cardinality(gs) \in Nat /\ Cardinality(SourceNodes) \in Nat
    BY <1>5, <1>7, <1>8, <2>1, FS_CardinalityType
  <2> QED
    BY <1>8, <2>1, <2>2
<1>10. IsFiniteSet(L) /\ \A loop \in L : loop \subseteq Sources /\ IsLoop(loop)
  BY <1>6 DEF LoopInv
<1> QED
  BY <1>3, <1>5, <1>8, <1>9, <1>10

\* solvability.py reports as many cycles as the sources have, and only cycles.
LEMMA LoopsFound ==
  ASSUME DevicesOK
  PROVE  LoopsAreIndependentCycles
<1> DEFINE gs == EndsMerge(Sources)[Sources]
<1>1. /\ IsFiniteSet(Sources)
      /\ Cardinality(SourceLoops) = Cardinality(Sources) - Cardinality(SourceNodes) + Cardinality(gs)
      /\ \A loop \in SourceLoops : loop \subseteq Sources /\ IsLoop(loop)
  BY LoopsCounted
<1>2. ASSUME NEW loop \in SourceLoops
       PROVE  /\ \A m \in UNION {Ends(i) : i \in loop} : Cardinality({i \in loop : m \in Ends(i)}) = 2
              /\ Cardinality(FoldSet(LAMBDA i, hs : Unite(hs, Ends(i)), {}, loop)) = 1
  <2>1. loop \subseteq Sources /\ IsLoop(loop)
    BY <1>1
  <2>2. IsFiniteSet(loop)
    BY <1>1, <2>1, FS_Subset
  <2>3. AreComponents(EndsMerge(loop)[loop], Edges(loop))
    BY <2>2, EndsMerged DEF Edges
  <2>4. Cardinality(EndsMerge(loop)[loop]) = 1
    BY <2>1, <2>3, Zenon DEF IsLoop
  <2>5. Cardinality(FoldSet(LAMBDA i, hs : Unite(hs, Ends(i)), {}, loop)) = 1
    BY <2>4, EndsFold, Zenon
  <2>6. \A m \in UNION {Ends(i) : i \in loop} : Cardinality({i \in loop : m \in Ends(i)}) = 2
    BY <2>1, Zenon DEF IsLoop, Edges
  <2> QED
    BY <2>5, <2>6, Zenon
<1>3. SourceTrees = gs
  BY EndsFold, Zenon DEF SourceTrees, gs
<1>4. Cardinality(SourceLoops) = Cardinality(Sources) - Cardinality(SourceNodes) + Cardinality(SourceTrees)
  BY <1>1, <1>3, Zenon
<1> QED
  BY <1>2, <1>4, Zenon DEF LoopsAreIndependentCycles

\* Each loop found is one cycle of sources, and there are as many as independent
\* cycles, for any netlist.
THEOREM LoopsIndependent == AuditSpec => []LoopsAreIndependentCycles
<1>1. AuditInv => LoopsAreIndependentCycles
  BY LoopsFound DEF AuditInv, DevicesInv, DevicesOK
<1> QED
  BY <1>1, InitAuditInv, NextAuditInv, PTL DEF AuditSpec

\* RAIL001 and RAIL002 report each short between supply rails and ground once,
\* after overrides and deduplication, for any netlist and policy.
THEOREM RailShorts == AuditSpec => []RailShortsOnce
<1>1. AuditInit => RailShortsOnce
  BY DEF AuditInit, Init, RailShortsOnce, Audited
<1>2. AuditInv => DevicesOK
  BY DEF AuditInv, DevicesInv, DevicesOK
<1>3. AuditInv /\ RailShortsOnce /\ [AuditNext]_auditVars => RailShortsOnce'
  BY <1>2, RailStep
<1> QED
  BY <1>1, <1>3, InitAuditInv, NextAuditInv, PTL DEF AuditSpec

-----------------------------------------------------------------------------
(* Sums over the elements of a body. *)

\* What SumFunction computes for each part of a set.
SumOver(f, it, s) == IF s = {} THEN 0 ELSE f[Some(s)] + it[s \ {Some(s)}]
Sums(f, D) == CHOOSE it : it = [s \in SUBSET D |-> SumOver(f, it, s)]

LEMMA SumIs ==
  ASSUME NEW f
  PROVE  SumFunction(f) = Sums(f, DOMAIN f)[DOMAIN f]
<1>1. SumFunction(f)
        = (CHOOSE it : it = [s \in SUBSET (DOMAIN f) |->
              IF s = {} THEN 0 ELSE f[CHOOSE x \in s : TRUE] + it[s \ {CHOOSE x \in s : TRUE}]])[DOMAIN f]
  BY Zenon DEF SumFunction, SumFunctionOnSet, FoldFunctionOnSet, MapThenFoldSet
<1> QED
  BY <1>1, Zenon DEF Sums, SumOver, Some

LEMMA SumsExist ==
  ASSUME NEW D, IsFiniteSet(D), NEW f \in [D -> Nat]
  PROVE  /\ Sums(f, D) \in [SUBSET D -> Nat]
         /\ \A s \in SUBSET D : Sums(f, D)[s] = SumOver(f, Sums(f, D), s)
<1> DEFINE step == [p \in D \X Nat |-> f[p[1]] + p[2]]
           P == {s \in SUBSET D : Sums(f, D)[s] \in Nat}
<1>1. step \in [D \X Nat -> Nat] /\ \A x \in D, k \in Nat : step[<<x, k>>] = f[x] + k
  OBVIOUS
<1> HIDE DEF step
<1>2. PICK g \in [SUBSET D -> Nat] : \A s \in SUBSET D : g[s] = Step(0, step, g, s)
  <2>1. \A V : \A base \in V, add \in [D \X V -> V] :
          \E g \in [SUBSET D -> V] : \A s \in SUBSET D : g[s] = Step(base, add, g, s)
    BY SetRecursion
  <2>2. 0 \in Nat /\ step \in [D \X Nat -> Nat]
    BY <1>1
  <2> QED
    BY <2>1, <2>2, Zenon
<1>3. ASSUME NEW s \in SUBSET D
      PROVE  g[s] = SumOver(f, g, s)
  <2>1. CASE s = {}
    BY <1>2, <2>1 DEF Step, SumOver
  <2>2. CASE s # {}
    <3>1. Some(s) \in D /\ g[s \ {Some(s)}] \in Nat
      BY <2>2 DEF Some
    <3> QED
      BY <1>1, <1>2, <2>2, <3>1 DEF Step, SumOver
  <2> QED
    BY <2>1, <2>2
<1>4. g = [s \in SUBSET D |-> SumOver(f, g, s)]
  BY <1>3
<1>5. Sums(f, D) = [s \in SUBSET D |-> SumOver(f, Sums(f, D), s)]
  BY <1>4, Zenon DEF Sums
<1>6. ASSUME NEW s \in SUBSET D, \A x \in s : s \ {x} \in P
      PROVE  s \in P
  <2>1. CASE s = {}
    BY <1>5, <2>1 DEF SumOver
  <2>2. CASE s # {}
    <3>1. Some(s) \in s
      BY <2>2 DEF Some
    <3>2. Sums(f, D)[s] = f[Some(s)] + Sums(f, D)[s \ {Some(s)}]
      BY <1>5, <2>2 DEF SumOver
    <3>3. Sums(f, D)[s \ {Some(s)}] \in Nat /\ f[Some(s)] \in Nat
      BY <1>6, <3>1
    <3> QED
      BY <3>2, <3>3
  <2> QED
    BY <2>1, <2>2
<1>7. P = SUBSET D
  <2>1. P \in SUBSET (SUBSET D)
    OBVIOUS
  <2> HIDE DEF P
  <2> QED
    BY <1>6, <2>1, SetInduction
<1> QED
  BY <1>5, <1>7

\* Any element can be taken from the sum first.
LEMMA TakenFirst ==
  ASSUME NEW D, IsFiniteSet(D), NEW f \in [D -> Nat], NEW s \in SUBSET D, NEW c \in s
  PROVE  Sums(f, D)[s] = f[c] + Sums(f, D)[s \ {c}]
<1> DEFINE it == Sums(f, D)
           P == {t \in SUBSET D : \A d \in t : it[t] = f[d] + it[t \ {d}]}
<1>1. it \in [SUBSET D -> Nat] /\ \A t \in SUBSET D : it[t] = SumOver(f, it, t)
  BY SumsExist
<1> HIDE DEF it
<1>2. ASSUME NEW t \in SUBSET D, \A x \in t : t \ {x} \in P, NEW d \in t
      PROVE  it[t] = f[d] + it[t \ {d}]
  <2> DEFINE x == Some(t)
  <2>1. x \in t
    BY DEF Some
  <2>2. it[t] = f[x] + it[t \ {x}]
    BY <1>1 DEF SumOver
  <2> HIDE DEF x
  <2>3. CASE x = d
    BY <2>2, <2>3
  <2>4. CASE x # d
    <3> DEFINE rest == it[(t \ {d}) \ {x}]
    <3>1. (t \ {x}) \ {d} = (t \ {d}) \ {x} /\ (t \ {d}) \ {x} \in SUBSET D
      OBVIOUS
    <3>2. it[t \ {x}] = f[d] + rest /\ it[t \ {d}] = f[x] + rest
      BY <1>2, <2>1, <2>4, <3>1
    <3>3. f[x] \in Nat /\ f[d] \in Nat /\ rest \in Nat
      <4>1. x \in D /\ d \in D
        BY <2>1
      <4> QED
        BY <1>1, <3>1, <4>1
    <3> HIDE DEF rest
    <3> QED
      BY <2>2, <3>2, <3>3
  <2> QED
    BY <2>3, <2>4
<1>3. P = SUBSET D
  <2>1. P \in SUBSET (SUBSET D) /\ \A t \in SUBSET D : (\A x \in t : t \ {x} \in P) => t \in P
    BY <1>2
  <2> HIDE DEF P
  <2> QED
    BY <2>1, SetInduction
<1> QED
  BY <1>3 DEF it

\* What the elements before a position come to, one for each and what is below it.
Passed(below, at) == at - 1 + Sums(below, DOMAIN below)[1 .. at - 1]

LEMMA PassedSteps ==
  ASSUME NEW n \in Nat, NEW f \in [1 .. n -> Nat]
  PROVE  /\ Passed(f, 1) = 0
         /\ \A at \in 1 .. n + 1 : Passed(f, at) \in Nat
         /\ \A at \in 1 .. n : Passed(f, at + 1) = Passed(f, at) + 1 + f[at]
         /\ Passed(f, n + 1) = n + SumFunction(f) /\ SumFunction(f) \in Nat
         /\ \A i \in 1 .. n : f[i] <= SumFunction(f)
<1> DEFINE D == 1 .. n
           it == Sums(f, D)
<1>1. IsFiniteSet(D) /\ DOMAIN f = D /\ f \in [D -> Nat]
  <2>1. IsFiniteSet(D)
    BY FS_Interval
  <2> HIDE DEF D
  <2> QED
    BY <2>1 DEF D
<1>2. it \in [SUBSET D -> Nat] /\ \A s \in SUBSET D : it[s] = SumOver(f, it, s)
  BY <1>1, SumsExist
<1>3. \A s \in SUBSET D : \A i \in s : it[s] = f[i] + it[s \ {i}]
  BY <1>1, TakenFirst
<1>4. SumFunction(f) = it[D]
  BY <1>1, SumIs
<1>5. \A at : Passed(f, at) = at - 1 + it[1 .. at - 1]
  BY <1>1 DEF Passed
<1> HIDE DEF it
<1>6. Passed(f, 1) = 0
  <2>1. 1 .. 1 - 1 = {}
    OBVIOUS
  <2>2. it[{}] = 0
    BY <1>2 DEF SumOver
  <2> QED
    BY <1>5, <2>1, <2>2
<1>7. ASSUME NEW at \in 1 .. n + 1
      PROVE  Passed(f, at) \in Nat
  <2>1. 1 .. at - 1 \in SUBSET D
    OBVIOUS
  <2>2. it[1 .. at - 1] \in Nat
    BY <1>2, <2>1
  <2> QED
    BY <1>5, <2>2
<1>8. ASSUME NEW at \in 1 .. n
      PROVE  Passed(f, at + 1) = Passed(f, at) + 1 + f[at]
  <2> DEFINE s == 1 .. at
  <2>1. s \in SUBSET D /\ at \in s /\ s \ {at} = 1 .. at - 1 /\ s \ {at} \in SUBSET D
    OBVIOUS
  <2>2. it[s] = f[at] + it[s \ {at}]
    BY <1>3, <2>1
  <2>3. it[s] \in Nat /\ it[s \ {at}] \in Nat /\ f[at] \in Nat
    BY <1>2, <2>1
  <2>4. 1 .. at + 1 - 1 = s
    OBVIOUS
  <2>5. Passed(f, at + 1) = at + 1 - 1 + it[s]
    <3>1. Passed(f, at + 1) = at + 1 - 1 + it[1 .. at + 1 - 1]
      BY <1>5
    <3> HIDE DEF s
    <3> QED
      BY <2>4, <3>1
  <2>6. Passed(f, at) = at - 1 + it[s \ {at}]
    <3>1. Passed(f, at) = at - 1 + it[1 .. at - 1]
      BY <1>5
    <3> HIDE DEF s
    <3> QED
      BY <2>1, <3>1
  <2> HIDE DEF s
  <2> QED
    BY <2>2, <2>3, <2>5, <2>6
<1>9. Passed(f, n + 1) = n + it[D] /\ it[D] \in Nat
  <2>1. 1 .. n + 1 - 1 = D
    OBVIOUS
  <2>2. it[D] \in Nat
    BY <1>2
  <2> HIDE DEF D
  <2>3. Passed(f, n + 1) = n + 1 - 1 + it[D]
    BY <1>5, <2>1
  <2> QED
    BY <2>2, <2>3
<1>10. ASSUME NEW i \in 1 .. n
       PROVE  f[i] <= it[D]
  <2>1. it[D] = f[i] + it[D \ {i}]
    BY <1>3
  <2>2. it[D \ {i}] \in Nat /\ f[i] \in Nat
    BY <1>2
  <2> QED
    BY <2>1, <2>2
<1> QED
  BY <1>4, <1>6, <1>7, <1>8, <1>9, <1>10

\* Less is passed before than after.
LEMMA PassedLess ==
  ASSUME NEW n \in Nat, NEW f \in [1 .. n -> Nat], NEW at \in 1 .. n + 1
  PROVE  Passed(f, at) <= n + SumFunction(f)
<1> DEFINE end == n + 1
           P == {k \in Nat : k <= n => Passed(f, end - k) <= Passed(f, end)}
<1>1. /\ \A i \in 1 .. end : Passed(f, i) \in Nat
      /\ \A i \in 1 .. n : Passed(f, i + 1) = Passed(f, i) + 1 + f[i]
      /\ Passed(f, end) = n + SumFunction(f)
  BY PassedSteps
<1>2. 0 \in P
  <2>1. end - 0 = end /\ end \in 1 .. end
    OBVIOUS
  <2>2. Passed(f, end) \in Nat
    BY <1>1, <2>1
  <2> HIDE DEF end
  <2> QED
    BY <2>1, <2>2
<1>3. ASSUME NEW k \in P
      PROVE  k + 1 \in P
  <2>1. SUFFICES ASSUME k + 1 <= n
                 PROVE  Passed(f, end - (k + 1)) <= Passed(f, end)
    BY <1>3
  <2> DEFINE i == end - (k + 1)
  <2>2. i \in 1 .. n /\ i + 1 = end - k /\ k <= n /\ i + 1 \in 1 .. end /\ i \in 1 .. end /\ end \in 1 .. end
    BY <1>3, <2>1
  <2>3. Passed(f, end - k) <= Passed(f, end)
    BY <1>3, <2>2
  <2> HIDE DEF i, end
  <2>4. Passed(f, i + 1) = Passed(f, i) + 1 + f[i] /\ f[i] \in Nat
    BY <1>1, <2>2
  <2>5. Passed(f, i) \in Nat /\ Passed(f, i + 1) \in Nat /\ Passed(f, end) \in Nat
    BY <1>1, <2>2
  <2>6. Passed(f, i + 1) <= Passed(f, end)
    BY <2>2, <2>3
  <2> QED
    BY <2>4, <2>5, <2>6 DEF i
<1>4. P = Nat
  <2>1. P \in SUBSET Nat
    OBVIOUS
  <2> HIDE DEF P
  <2> QED
    BY <1>2, <1>3, <2>1, SetOfAllNaturals
<1>5. end - at \in Nat /\ end - at <= n /\ end - (end - at) = at
  OBVIOUS
<1> HIDE DEF end
<1>6. Passed(f, end - (end - at)) <= Passed(f, end)
  BY <1>4, <1>5
<1> QED
  BY <1>1, <1>5, <1>6

-----------------------------------------------------------------------------
(* The cost of the expansion. *)
BodyOf(n, s) == IF s = Top THEN n.top ELSE n.defs[s].body
ScopesOf(n) == DOMAIN n.defs \union {Top}
CallIn(n, e) == IsCall(e) /\ e.model \in DOMAIN n.defs

\* The costs below the elements of a body.
BelowOf(n, c, call) ==
  [i \in DOMAIN BodyOf(n, call[1]) |->
     IF ~CallIn(n, BodyOf(n, call[1])[i]) THEN 0
     ELSE IF BodyOf(n, call[1])[i].model \in call[2] \union {call[1]} THEN MaxDevices + 1
     ELSE c[<<BodyOf(n, call[1])[i].model, call[2] \union {call[1]}>>]]
TotalOf(n, c, call) == Len(BodyOf(n, call[1])) + SumFunction(BelowOf(n, c, call))
CostAt(n, c, call) ==
  IF TotalOf(n, c, call) > MaxDevices /\ \E i \in DOMAIN BodyOf(n, call[1]) : CallIn(n, BodyOf(n, call[1])[i])
  THEN MaxDevices + 1 ELSE TotalOf(n, c, call)
CallsOf(n) == ScopesOf(n) \X SUBSET ScopesOf(n)
Costs(n) == CHOOSE c : c = [call \in CallsOf(n) |-> CostAt(n, c, call)]

LEMMA CostIs == Cost(Top) = Costs(netlist)[<<Top, {}>>]
BY Zenon DEF Cost, Costs, CostAt, TotalOf, BelowOf, CallIn, BodyOf, ScopesOf, CallsOf, Body, IsDefinedCall, Defined, Scopes

\* What the scopes of a parsed netlist are.
LEMMA ScopesType ==
  ASSUME NEW n \in Netlists
  PROVE  /\ IsFiniteSet(ScopesOf(n)) /\ \A s \in ScopesOf(n) : IsSeq(BodyOf(n, s))
         /\ \A s \in ScopesOf(n) : \A e \in ToSet(BodyOf(n, s)) : IsSeq(e.nodes)
<1>1. IsFiniteSet(DOMAIN n.defs) /\ Top \notin DOMAIN n.defs
  BY NetlistAssumption
<1>2. IsFiniteSet(ScopesOf(n))
  BY <1>1, FS_AddElement DEF ScopesOf
<1> QED
  BY <1>1, <1>2, NetlistAssumption DEF ScopesOf, BodyOf

\* A call within the scopes that are open so far falls in rank.
Rank(n, call) ==
  2 * Cardinality(ScopesOf(n) \ call[2]) + IF call[1] \in call[2] THEN 1 ELSE 0

LEMMA RankType ==
  ASSUME NEW n \in Netlists, NEW call \in CallsOf(n)
  PROVE  /\ Rank(n, call) \in Nat /\ Rank(n, call) < 2 * Cardinality(ScopesOf(n)) + 2
         /\ Cardinality(ScopesOf(n)) \in Nat
<1> DEFINE S == ScopesOf(n)
           rest == S \ call[2]
<1>1. IsFiniteSet(S)
  BY ScopesType
<1> HIDE DEF S
<1>2. IsFiniteSet(rest) /\ Cardinality(rest) <= Cardinality(S)
  BY <1>1, FS_Subset
<1>3. Cardinality(rest) \in Nat /\ Cardinality(S) \in Nat
  BY <1>1, <1>2, FS_CardinalityType
<1>4. Rank(n, call) = 2 * Cardinality(rest) + IF call[1] \in call[2] THEN 1 ELSE 0
  BY DEF Rank, S
<1> HIDE DEF rest
<1> QED
  BY <1>2, <1>3, <1>4 DEF S

Inside(call, e) == <<e.model, call[2] \union {call[1]}>>

LEMMA RankFalls ==
  ASSUME NEW n \in Netlists, NEW call \in CallsOf(n), NEW e, CallIn(n, e), e.model \notin call[2] \union {call[1]}
  PROVE  Inside(call, e) \in CallsOf(n) /\ Rank(n, Inside(call, e)) < Rank(n, call)
<1> DEFINE S == ScopesOf(n)
           s == call[1]
           above == call[2]
           open == above \union {s}
           next == Inside(call, e)
<1>1. s \in S /\ above \subseteq S /\ e.model \in S
  BY DEF CallsOf, CallIn, ScopesOf
<1>2. next[1] = e.model /\ next[2] = open
  BY DEF Inside
<1>3. next \in CallsOf(n)
  BY <1>1 DEF Inside, CallsOf
<1>4. Rank(n, next) = 2 * Cardinality(S \ open)
  <2> DEFINE rest == S \ open
  <2>1. Rank(n, next) = 2 * Cardinality(rest) + 0
    BY <1>2 DEF Rank
  <2>2. IsFiniteSet(S)
    BY ScopesType
  <2>3. Cardinality(rest) \in Nat
    <3> HIDE DEF S
    <3> QED
      BY <2>2, FS_Subset, FS_CardinalityType
  <2> HIDE DEF rest
  <2> QED
    BY <2>1, <2>3 DEF rest
<1>5. Rank(n, call) = 2 * Cardinality(S \ above) + IF s \in above THEN 1 ELSE 0
  BY DEF Rank
<1>6. IsFiniteSet(S)
  BY ScopesType
<1> HIDE DEF S, s, above, next
<1>7. IsFiniteSet(S \ above)
  BY <1>6, FS_Subset
<1>8. Cardinality(S \ above) \in Nat
  BY <1>7, FS_CardinalityType
<1>9. CASE s \in above
  <2>1. open = above
    BY <1>9
  <2>2. Rank(n, call) = 2 * Cardinality(S \ above) + 1 /\ Rank(n, next) = 2 * Cardinality(S \ above)
    BY <1>4, <1>5, <1>9, <2>1
  <2> HIDE DEF open
  <2> QED
    BY <1>3, <1>4, <1>5, <1>8, <1>9, <2>1, <2>2 DEF next
<1>10. CASE s \notin above
  <2> DEFINE more == S \ above
  <2>1. S \ open = more \ {s} /\ s \in more
    BY <1>1, <1>10
  <2>2. IsFiniteSet(more) /\ Cardinality(more) \in Nat
    BY <1>7, <1>8
  <2>3. Rank(n, call) = 2 * Cardinality(more)
    BY <1>5, <1>8, <1>10
  <2> HIDE DEF more
  <2>4. Cardinality(more \ {s}) = Cardinality(more) - 1
    BY <2>1, <2>2, FS_RemoveElement
  <2>5. Rank(n, next) = 2 * Cardinality(more \ {s})
    BY <1>4, <2>1
  <2> QED
    BY <1>3, <2>2, <2>3, <2>4, <2>5 DEF next
<1> QED
  BY <1>9, <1>10

\* The cost rests on calls of a lower rank only.
LEMMA BelowType ==
  ASSUME NEW n \in Netlists, NEW call \in CallsOf(n), NEW c,
         \A other \in CallsOf(n) : Rank(n, other) < Rank(n, call) => c[other] \in Nat
  PROVE  /\ BelowOf(n, c, call) \in [1 .. Len(BodyOf(n, call[1])) -> Nat]
         /\ Len(BodyOf(n, call[1])) \in Nat /\ DOMAIN BodyOf(n, call[1]) = 1 .. Len(BodyOf(n, call[1]))
         /\ SumFunction(BelowOf(n, c, call)) \in Nat /\ CostAt(n, c, call) \in Nat
<1> DEFINE body == BodyOf(n, call[1])
           below == BelowOf(n, c, call)
<1>1. Len(body) \in Nat /\ DOMAIN body = 1 .. Len(body)
  <2>1. call[1] \in ScopesOf(n)
    BY DEF CallsOf
  <2>2. IsSeq(body)
    BY <2>1, ScopesType
  <2> HIDE DEF body
  <2> QED
    BY <2>2, Sequence
<1>2. ASSUME NEW i \in DOMAIN body
      PROVE  below[i] \in Nat
  <2> DEFINE e == body[i]
  <2>1. below[i] = IF ~CallIn(n, e) THEN 0 ELSE IF e.model \in call[2] \union {call[1]} THEN MaxDevices + 1
                   ELSE c[Inside(call, e)]
    BY DEF BelowOf, Inside
  <2> HIDE DEF e, below
  <2>2. CASE CallIn(n, e) /\ e.model \notin call[2] \union {call[1]}
    <3>1. c[Inside(call, e)] \in Nat
      BY <2>2, RankFalls
    <3> QED
      BY <2>1, <2>2, <3>1
  <2> QED
    BY <2>1, <2>2, LimitAssumption
<1>3. below \in [1 .. Len(body) -> Nat]
  <2>1. DOMAIN below = DOMAIN body /\ below = [i \in DOMAIN body |-> below[i]]
    BY DEF BelowOf
  <2> HIDE DEF below
  <2> QED
    BY <1>1, <1>2, <2>1
<1> HIDE DEF below, body
<1>4. SumFunction(below) \in Nat
  BY <1>1, <1>3, PassedSteps
<1>5. CostAt(n, c, call) \in Nat
  BY <1>1, <1>4, LimitAssumption DEF CostAt, TotalOf, below, body
<1> QED
  BY <1>1, <1>3, <1>4, <1>5 DEF below, body

LEMMA BelowAgrees ==
  ASSUME NEW n \in Netlists, NEW call \in CallsOf(n), NEW c, NEW d,
         \A other \in CallsOf(n) : Rank(n, other) < Rank(n, call) => c[other] = d[other]
  PROVE  CostAt(n, c, call) = CostAt(n, d, call)
<1> DEFINE body == BodyOf(n, call[1])
<1>1. ASSUME NEW i \in DOMAIN body
      PROVE  BelowOf(n, c, call)[i] = BelowOf(n, d, call)[i]
  <2> DEFINE e == body[i]
  <2>1. /\ BelowOf(n, c, call)[i] =
             IF ~CallIn(n, e) THEN 0 ELSE IF e.model \in call[2] \union {call[1]} THEN MaxDevices + 1
             ELSE c[Inside(call, e)]
        /\ BelowOf(n, d, call)[i] =
             IF ~CallIn(n, e) THEN 0 ELSE IF e.model \in call[2] \union {call[1]} THEN MaxDevices + 1
             ELSE d[Inside(call, e)]
    BY DEF BelowOf, Inside
  <2> HIDE DEF e
  <2>2. CASE CallIn(n, e) /\ e.model \notin call[2] \union {call[1]}
    <3>1. c[Inside(call, e)] = d[Inside(call, e)]
      BY <2>2, RankFalls
    <3> QED
      BY <2>1, <2>2, <3>1
  <2> QED
    BY <2>1, <2>2
<1>2. BelowOf(n, c, call) = BelowOf(n, d, call)
  <2>1. /\ BelowOf(n, c, call) = [i \in DOMAIN body |-> BelowOf(n, c, call)[i]]
        /\ BelowOf(n, d, call) = [i \in DOMAIN body |-> BelowOf(n, d, call)[i]]
    BY DEF BelowOf
  <2> QED
    BY <1>1, <2>1
<1> QED
  BY <1>2, Zenon DEF CostAt, TotalOf

LEMMA CostsExist ==
  ASSUME NEW n \in Netlists
  PROVE  /\ Costs(n) \in [CallsOf(n) -> Nat]
         /\ \A call \in CallsOf(n) : Costs(n)[call] = CostAt(n, Costs(n), call)
<1> DEFINE D == CallsOf(n)
           Upto(g, k) == \A call \in D : Rank(n, call) < k => g[call] = CostAt(n, g, call)
           S == {k \in Nat : \E g \in [D -> Nat] : Upto(g, k)}
           most == 2 * Cardinality(ScopesOf(n)) + 2
<1>0. most \in Nat /\ \A call \in D : Rank(n, call) \in Nat /\ Rank(n, call) < most
  <2>1. \A call \in D : Rank(n, call) \in Nat /\ Rank(n, call) < most
    BY RankType
  <2>2. Cardinality(ScopesOf(n)) \in Nat
    BY ScopesType, FS_CardinalityType
  <2> QED
    BY <2>1, <2>2
<1> HIDE DEF D, most
<1>1. 0 \in S
  <2> DEFINE g == [call \in D |-> 0]
  <2>1. g \in [D -> Nat] /\ Upto(g, 0)
    BY <1>0
  <2> HIDE DEF g, Upto
  <2> QED
    BY <2>1
<1>2. ASSUME NEW k \in S
      PROVE  k + 1 \in S
  <2>1. PICK g \in [D -> Nat] : Upto(g, k)
    BY <1>2
  <2> DEFINE h == [call \in D |-> IF Rank(n, call) = k THEN CostAt(n, g, call) ELSE g[call]]
  <2>2. k \in Nat
    BY <1>2
  <2>3. \A call \in D : CostAt(n, g, call) \in Nat
    BY BelowType DEF D
  <2>4. h \in [D -> Nat]
    BY <2>3
  <2>5. \A call \in D : h[call] = IF Rank(n, call) = k THEN CostAt(n, g, call) ELSE g[call]
    OBVIOUS
  <2> HIDE DEF h
  <2>6. ASSUME NEW call \in D, Rank(n, call) < k + 1
        PROVE  h[call] = CostAt(n, h, call)
    <3>1. Rank(n, call) <= k
      BY <1>0, <2>2, <2>6
    <3>2. \A other \in CallsOf(n) : Rank(n, other) < Rank(n, call) => g[other] = h[other]
      BY <1>0, <2>2, <2>5, <3>1 DEF D
    <3>3. CostAt(n, g, call) = CostAt(n, h, call)
      BY <3>2, BelowAgrees DEF D
    <3>4. h[call] = CostAt(n, g, call)
      BY <1>0, <2>1, <2>2, <2>5, <3>1
    <3> QED
      BY <3>3, <3>4
  <2>7. Upto(h, k + 1)
    BY <2>6
  <2> HIDE DEF Upto
  <2> QED
    BY <2>2, <2>4, <2>7
<1>3. S = Nat
  <2>1. S \in SUBSET Nat
    OBVIOUS
  <2> HIDE DEF S
  <2> QED
    BY <1>1, <1>2, <2>1, SetOfAllNaturals
<1>4. PICK g \in [D -> Nat] : Upto(g, most)
  BY <1>0, <1>3
<1>5. g = [call \in CallsOf(n) |-> CostAt(n, g, call)]
  BY <1>0, <1>4 DEF D
<1> DEFINE c == Costs(n)
<1>6. c = [call \in CallsOf(n) |-> CostAt(n, c, call)]
  BY <1>5, Zenon DEF Costs
<1> HIDE DEF c
<1>7. DOMAIN c = D /\ \A call \in D : c[call] = CostAt(n, c, call)
  BY <1>6 DEF D
<1> DEFINE T == {k \in Nat : \A call \in D : Rank(n, call) < k => c[call] \in Nat}
<1>8. 0 \in T
  BY <1>0
<1>9. ASSUME NEW k \in T
      PROVE  k + 1 \in T
  <2>1. k \in Nat
    BY <1>9
  <2>2. ASSUME NEW call \in D, Rank(n, call) < k + 1
        PROVE  c[call] \in Nat
    <3>1. \A other \in CallsOf(n) : Rank(n, other) < Rank(n, call) => c[other] \in Nat
      BY <1>0, <1>9, <2>1, <2>2 DEF D
    <3>2. CostAt(n, c, call) \in Nat
      BY <3>1, BelowType DEF D
    <3> QED
      BY <1>7, <3>2
  <2> QED
    BY <2>1, <2>2
<1>10. T = Nat
  <2>1. T \in SUBSET Nat
    OBVIOUS
  <2> HIDE DEF T
  <2> QED
    BY <1>8, <1>9, <2>1, SetOfAllNaturals
<1>11. \A call \in D : c[call] \in Nat
  BY <1>0, <1>10
<1>12. c \in [D -> Nat]
  <2>1. c = [call \in D |-> c[call]]
    BY <1>6, <1>7 DEF D
  <2> QED
    BY <1>11, <2>1
<1> QED
  BY <1>7, <1>12 DEF c, D

\* A cost within the limit adds up, and is of calls that are open nowhere above.
LEMMA AffordableCall ==
  ASSUME NEW n \in Netlists, NEW call \in CallsOf(n), NEW c, c = Costs(n), c[call] <= MaxDevices,
         NEW b, b = BodyOf(n, call[1]), NEW f, f = BelowOf(n, c, call)
  PROVE  /\ Len(b) \in Nat /\ DOMAIN b = 1 .. Len(b) /\ f \in [1 .. Len(b) -> Nat]
         /\ c[call] \in Nat /\ Passed(f, 1) = 0 /\ Passed(f, Len(b) + 1) = c[call]
         /\ \A at \in 1 .. Len(b) + 1 : Passed(f, at) \in Nat /\ Passed(f, at) <= c[call]
         /\ \A at \in 1 .. Len(b) : Passed(f, at + 1) = Passed(f, at) + 1 + f[at]
         /\ \A i \in DOMAIN b : ~CallIn(n, b[i]) => f[i] = 0
         /\ \A i \in DOMAIN b : CallIn(n, b[i]) =>
              /\ b[i].model \notin call[2] \union {call[1]} /\ Inside(call, b[i]) \in CallsOf(n)
              /\ f[i] = c[Inside(call, b[i])] /\ f[i] <= MaxDevices
<1>1. c \in [CallsOf(n) -> Nat] /\ c[call] = CostAt(n, c, call) /\ c[call] \in Nat
  BY CostsExist
<1>2. /\ f \in [1 .. Len(b) -> Nat] /\ Len(b) \in Nat /\ DOMAIN b = 1 .. Len(b)
  BY <1>1, BelowType
<1>3. /\ Passed(f, 1) = 0
      /\ \A at \in 1 .. Len(b) + 1 : Passed(f, at) \in Nat
      /\ \A at \in 1 .. Len(b) : Passed(f, at + 1) = Passed(f, at) + 1 + f[at]
      /\ Passed(f, Len(b) + 1) = Len(b) + SumFunction(f) /\ SumFunction(f) \in Nat
      /\ \A i \in 1 .. Len(b) : f[i] <= SumFunction(f)
  BY <1>2, PassedSteps
<1>4. c[call] = Len(b) + SumFunction(f)
  BY <1>1, <1>2, <1>3, LimitAssumption DEF CostAt, TotalOf
<1>5. \A at \in 1 .. Len(b) + 1 : Passed(f, at) <= c[call]
  BY <1>2, <1>4, PassedLess
<1>6. ASSUME NEW i \in DOMAIN b
      PROVE  f[i] = IF ~CallIn(n, b[i]) THEN 0
                    ELSE IF b[i].model \in call[2] \union {call[1]} THEN MaxDevices + 1
                    ELSE c[Inside(call, b[i])]
  BY DEF BelowOf, Inside
<1>7. ASSUME NEW i \in DOMAIN b
      PROVE  f[i] \in Nat /\ f[i] <= MaxDevices
  <2>1. f[i] \in Nat /\ f[i] <= SumFunction(f)
    BY <1>2, <1>3
  <2> QED
    BY <1>2, <1>3, <1>4, <2>1, LimitAssumption
<1>8. ASSUME NEW i \in DOMAIN b, CallIn(n, b[i])
      PROVE  /\ b[i].model \notin call[2] \union {call[1]} /\ Inside(call, b[i]) \in CallsOf(n)
             /\ f[i] = c[Inside(call, b[i])] /\ f[i] <= MaxDevices
  <2>1. f[i] # MaxDevices + 1
    BY <1>7, LimitAssumption
  <2>2. b[i].model \notin call[2] \union {call[1]}
    BY <1>6, <1>8, <2>1
  <2>3. Inside(call, b[i]) \in CallsOf(n)
    BY <1>8, <2>2, RankFalls
  <2> QED
    BY <1>6, <1>7, <1>8, <2>2, <2>3
<1> QED
  BY <1>1, <1>2, <1>3, <1>4, <1>5, <1>6, <1>8

-----------------------------------------------------------------------------
(* What the open calls have passed, and what they have listed. *)

\* The calls of a stack of frames.
FramesOf(n, fs) ==
  /\ IsSeq(fs)
  /\ \A j \in DOMAIN fs : /\ fs[j].scope \in ScopesOf(n)
                          /\ fs[j].at \in 1 .. Len(BodyOf(n, fs[j].scope)) + 1
OpenTo(fs, j) == {fs[k].scope : k \in 1 .. j}
CallAt(fs, j) == <<fs[j].scope, OpenTo(fs, j - 1)>>
BelowAt(n, fs, j) == BelowOf(n, Costs(n), CallAt(fs, j))
CostOf(n, fs, j) == Costs(n)[CallAt(fs, j)]

\* How many devices there were when a call was opened: what it has passed since
\* is what the call inside it began with and will cost, or all devices.
Counted(n, fs, count, total, start) ==
  /\ start \in [DOMAIN fs -> Nat] /\ start[1] = 0 /\ CostOf(n, fs, 1) = total
  /\ \A j \in DOMAIN fs :
       /\ CostOf(n, fs, j) <= MaxDevices /\ start[j] + CostOf(n, fs, j) <= total
       /\ start[j] + Passed(BelowAt(n, fs, j), fs[j].at)
            = IF j = Len(fs) THEN count ELSE start[j + 1] + CostOf(n, fs, j + 1)

DeviceFor(ds, path, e) == \E i \in DOMAIN ds : ds[i].path = path /\ ds[i].element = e
Whole(n, ds, path, s) == \A e \in ToSet(BodyOf(n, s)) : DeviceFor(ds, path, e)
Opened(fs, path, s) == \E j \in DOMAIN fs : fs[j].scope = s /\ fs[j].path = path
Below(d) == Append(d.path, d.element.name)

\* What an open call has passed is there; what is inside a call is there or the
\* call is open.
Listed(n, fs, ds) ==
  /\ \A j \in DOMAIN fs : \A i \in 1 .. fs[j].at - 1 :
       DeviceFor(ds, fs[j].path, BodyOf(n, fs[j].scope)[i])
  /\ \A k \in DOMAIN ds : CallIn(n, ds[k].element) =>
       \/ Whole(n, ds, Below(ds[k]), ds[k].element.model)
       \/ Opened(fs, Below(ds[k]), ds[k].element.model)

\* The call of a frame.
LEMMA CallsOpen ==
  ASSUME NEW n \in Netlists, NEW fs, FramesOf(n, fs), NEW j \in DOMAIN fs
  PROVE  CallAt(fs, j) \in CallsOf(n) /\ CallAt(fs, j)[1] = fs[j].scope
<1>1. DOMAIN fs = 1 .. Len(fs) /\ Len(fs) \in Nat
  BY Sequence DEF FramesOf
<1>2. \A k \in 1 .. j - 1 : k \in DOMAIN fs
  BY <1>1
<1> QED
  BY <1>2 DEF FramesOf, CallAt, CallsOf, OpenTo

\* The inner frame, while the cost is within the limit.
LEMMA InnerCounts ==
  ASSUME NEW n \in Netlists, NEW fs, FramesOf(n, fs), NEW count, NEW total, NEW start,
         Counted(n, fs, count, total, start), NEW j \in DOMAIN fs,
         NEW b, b = BodyOf(n, fs[j].scope), NEW f, f = BelowAt(n, fs, j)
  PROVE  /\ Len(b) \in Nat /\ DOMAIN b = 1 .. Len(b) /\ f \in [1 .. Len(b) -> Nat]
         /\ CostOf(n, fs, j) \in Nat /\ Passed(f, Len(b) + 1) = CostOf(n, fs, j)
         /\ start[j] \in Nat /\ Passed(f, fs[j].at) \in Nat /\ Passed(f, fs[j].at) <= CostOf(n, fs, j)
         /\ fs[j].at \in 1 .. Len(b) + 1
         /\ \A at \in 1 .. Len(b) : Passed(f, at + 1) = Passed(f, at) + 1 + f[at]
         /\ \A at \in 1 .. Len(b) + 1 : Passed(f, at) \in Nat /\ Passed(f, at) <= CostOf(n, fs, j)
         /\ \A i \in DOMAIN b : ~CallIn(n, b[i]) => f[i] = 0
         /\ \A i \in DOMAIN b : CallIn(n, b[i]) =>
              /\ b[i].model \notin OpenTo(fs, j)
              /\ Inside(CallAt(fs, j), b[i]) = <<b[i].model, OpenTo(fs, j)>>
              /\ Inside(CallAt(fs, j), b[i]) \in CallsOf(n)
              /\ f[i] = Costs(n)[Inside(CallAt(fs, j), b[i])] /\ f[i] <= MaxDevices
<1> DEFINE call == CallAt(fs, j)
           c == Costs(n)
<1>1. call \in CallsOf(n) /\ call[1] = fs[j].scope
  BY CallsOpen
<1>2. c[call] <= MaxDevices /\ start[j] \in Nat
  BY DEF Counted, CostOf
<1>3. DOMAIN fs = 1 .. Len(fs) /\ Len(fs) \in Nat
  BY Sequence DEF FramesOf
<1>4. call[2] \union {call[1]} = OpenTo(fs, j)
  <2>1. \A k \in 1 .. j : k \in 1 .. j - 1 \/ k = j
    BY <1>3
  <2>2. \A k \in 1 .. j - 1 : k \in 1 .. j
    BY <1>3
  <2>3. j \in 1 .. j
    BY <1>3
  <2> QED
    BY <2>1, <2>2, <2>3 DEF CallAt, OpenTo
<1>5. fs[j].at \in 1 .. Len(b) + 1
  BY DEF FramesOf
<1>6. c[call] = CostOf(n, fs, j) /\ f = BelowOf(n, c, call) /\ b = BodyOf(n, call[1])
  BY <1>1 DEF CostOf, BelowAt
<1> HIDE DEF call, c
<1>7. /\ Len(b) \in Nat /\ DOMAIN b = 1 .. Len(b) /\ f \in [1 .. Len(b) -> Nat]
      /\ c[call] \in Nat /\ Passed(f, 1) = 0 /\ Passed(f, Len(b) + 1) = c[call]
      /\ \A at \in 1 .. Len(b) + 1 : Passed(f, at) \in Nat /\ Passed(f, at) <= c[call]
      /\ \A at \in 1 .. Len(b) : Passed(f, at + 1) = Passed(f, at) + 1 + f[at]
      /\ \A i \in DOMAIN b : ~CallIn(n, b[i]) => f[i] = 0
      /\ \A i \in DOMAIN b : CallIn(n, b[i]) =>
           /\ b[i].model \notin call[2] \union {call[1]} /\ Inside(call, b[i]) \in CallsOf(n)
           /\ f[i] = c[Inside(call, b[i])] /\ f[i] <= MaxDevices
  BY <1>1, <1>2, <1>6, AffordableCall DEF c
<1>8. \A i : Inside(call, b[i]) = <<b[i].model, OpenTo(fs, j)>>
  BY <1>4 DEF Inside
<1> QED
  BY <1>2, <1>4, <1>5, <1>6, <1>7, <1>8 DEF call, c

-----------------------------------------------------------------------------
(* What a step of the expansion does to the count and the list. *)

\* The calls depend on the scopes only.
LEMMA SameCalls ==
  ASSUME NEW fs, NEW gs, NEW j, \A k \in 1 .. j : gs[k].scope = fs[k].scope, j \in Nat, j >= 1
  PROVE  CallAt(gs, j) = CallAt(fs, j)
<1>1. gs[j].scope = fs[j].scope /\ \A k \in 1 .. j - 1 : gs[k].scope = fs[k].scope
  OBVIOUS
<1>2. {gs[k].scope : k \in 1 .. j - 1} = {fs[k].scope : k \in 1 .. j - 1}
  BY <1>1
<1> QED
  BY <1>1, <1>2 DEF CallAt, OpenTo

\* A device more leaves what is listed.
LEMMA DevicesStay ==
  ASSUME NEW ds, IsSeq(ds), NEW d, NEW es, es = Append(ds, d)
  PROVE  /\ IsSeq(es) /\ Len(es) = Len(ds) + 1 /\ DOMAIN es = 1 .. Len(ds) + 1 /\ Len(ds) \in Nat
         /\ DOMAIN ds = 1 .. Len(ds)
         /\ es[Len(ds) + 1] = d /\ \A k \in DOMAIN ds : es[k] = ds[k]
         /\ \A path, e : DeviceFor(ds, path, e) => DeviceFor(es, path, e)
         /\ \A n, path, s : Whole(n, ds, path, s) => Whole(n, es, path, s)
         /\ DeviceFor(es, d.path, d.element)
<1>1. /\ IsSeq(es) /\ Len(es) = Len(ds) + 1
      /\ es[Len(ds) + 1] = d /\ \A k \in DOMAIN ds : es[k] = ds[k]
  BY Appended
<1>2. DOMAIN es = 1 .. Len(ds) + 1 /\ DOMAIN ds = 1 .. Len(ds) /\ Len(ds) \in Nat
  BY <1>1, Sequence
<1>3. \A k \in DOMAIN ds : k \in DOMAIN es
  BY <1>2
<1>4. \A path, e : DeviceFor(ds, path, e) => DeviceFor(es, path, e)
  BY <1>1, <1>3 DEF DeviceFor
<1>5. \A n, path, s : Whole(n, ds, path, s) => Whole(n, es, path, s)
  BY <1>4 DEF Whole
<1>6. Len(ds) + 1 \in DOMAIN es
  BY <1>2
<1>7. DeviceFor(es, d.path, d.element)
  BY <1>1, <1>6 DEF DeviceFor
<1> QED
  BY <1>1, <1>2, <1>4, <1>5, <1>7

\* An element that is taken is within the budget, with all that is below it.
LEMMA TakenFits ==
  ASSUME NEW n \in Netlists, NEW fs, FramesOf(n, fs), NEW count \in Nat, NEW total \in Nat, NEW start,
         Counted(n, fs, count, total, start), NEW m, m = Len(fs), m \in DOMAIN fs,
         NEW b, b = BodyOf(n, fs[m].scope), NEW f, f = BelowAt(n, fs, m),
         NEW at, at = fs[m].at, at <= Len(b)
  PROVE  /\ at \in 1 .. Len(b) /\ at \in DOMAIN b /\ at + 1 \in 1 .. Len(b) + 1 /\ f[at] \in Nat
         /\ start[m] + Passed(f, at + 1) = count + 1 + f[at]
         /\ count + 1 + f[at] <= start[m] + CostOf(n, fs, m)
         /\ count + 1 + f[at] <= total
<1>1. /\ Len(b) \in Nat /\ DOMAIN b = 1 .. Len(b) /\ f \in [1 .. Len(b) -> Nat]
      /\ CostOf(n, fs, m) \in Nat /\ start[m] \in Nat /\ Passed(f, fs[m].at) \in Nat
      /\ fs[m].at \in 1 .. Len(b) + 1
      /\ \A i \in 1 .. Len(b) : Passed(f, i + 1) = Passed(f, i) + 1 + f[i]
      /\ \A i \in 1 .. Len(b) + 1 : Passed(f, i) \in Nat /\ Passed(f, i) <= CostOf(n, fs, m)
  BY InnerCounts, SMTT(30)
<1>2. /\ start[m] + CostOf(n, fs, m) <= total /\ start[m] + Passed(f, fs[m].at) = count
  BY DEF Counted
<1>3. at \in 1 .. Len(b) /\ at + 1 \in 1 .. Len(b) + 1
  <2>1. \A l \in Nat : \A k \in 1 .. l + 1 : k <= l => k \in 1 .. l /\ k + 1 \in 1 .. l + 1
    BY SMT
  <2>2. Len(b) \in Nat /\ at \in 1 .. Len(b) + 1
    BY <1>1, Zenon
  <2> QED
    BY <2>1, <2>2, Zenon
<1>4. Passed(f, at + 1) = Passed(f, at) + 1 + f[at] /\ f[at] \in Nat /\ Passed(f, at + 1) <= CostOf(n, fs, m)
      /\ Passed(f, at + 1) \in Nat
  <2>1. f[at] \in Nat
    BY <1>1, <1>3
  <2>2. Passed(f, at + 1) = Passed(f, at) + 1 + f[at]
    BY <1>1, <1>3
  <2>3. Passed(f, at + 1) \in Nat /\ Passed(f, at + 1) <= CostOf(n, fs, m)
    BY <1>1, <1>3
  <2> QED
    BY <2>1, <2>2, <2>3
<1>5. /\ Passed(f, at) \in Nat /\ start[m] \in Nat /\ CostOf(n, fs, m) \in Nat
      /\ start[m] + Passed(f, at) = count /\ start[m] + CostOf(n, fs, m) <= total
  BY <1>1, <1>2
<1>6. \A s, p, q, x, c \in Nat : s + p = count /\ q = p + 1 + x /\ q <= c /\ s + c <= total =>
        s + q = count + 1 + x /\ count + 1 + x <= s + c /\ count + 1 + x <= total
  BY SMT
<1>7. /\ start[m] + Passed(f, at + 1) = count + 1 + f[at]
      /\ count + 1 + f[at] <= start[m] + CostOf(n, fs, m)
      /\ count + 1 + f[at] <= total
  <2>1. Passed(f, at + 1) \in Nat /\ Passed(f, at + 1) = Passed(f, at) + 1 + f[at] /\ f[at] \in Nat
    BY <1>4
  <2>2. Passed(f, at + 1) <= CostOf(n, fs, m)
    BY <1>4, Zenon
  <2> DEFINE s == start[m]
             p == Passed(f, at)
             q == Passed(f, at + 1)
             x == f[at]
             c == CostOf(n, fs, m)
  <2>3. s \in Nat /\ p \in Nat /\ q \in Nat /\ x \in Nat /\ c \in Nat
    BY <1>5, <2>1, Zenon
  <2>4. s + p = count /\ q = p + 1 + x /\ q <= c /\ s + c <= total
    BY <1>5, <2>1, <2>2, Zenon
  <2> HIDE DEF s, p, q, x, c
  <2>5. s + q = count + 1 + x /\ count + 1 + x <= s + c /\ count + 1 + x <= total
    BY <1>6, <2>3, <2>4, SMT
  <2> QED
    BY <2>5, Zenon DEF s, q, x, c
<1>8. at \in DOMAIN b
  BY <1>1, <1>3
<1> QED
  BY <1>3, <1>4, <1>7, <1>8

\* A definition that costs nothing has nothing.
LEMMA NothingBelow ==
  ASSUME NEW n \in Netlists, NEW call \in CallsOf(n), Costs(n)[call] = 0
  PROVE  ToSet(BodyOf(n, call[1])) = {}
<1> DEFINE b == BodyOf(n, call[1])
           f == BelowOf(n, Costs(n), call)
<1>1. Costs(n)[call] <= MaxDevices
  BY LimitAssumption
<1>2. /\ Len(b) \in Nat /\ DOMAIN b = 1 .. Len(b) /\ f \in [1 .. Len(b) -> Nat]
      /\ Passed(f, 1) = 0
      /\ \A at \in 1 .. Len(b) + 1 : Passed(f, at) \in Nat /\ Passed(f, at) <= Costs(n)[call]
      /\ \A at \in 1 .. Len(b) : Passed(f, at + 1) = Passed(f, at) + 1 + f[at]
  BY <1>1, AffordableCall
<1> HIDE DEF f
<1>3. Len(b) = 0
  <2>1. SUFFICES ASSUME Len(b) >= 1 PROVE FALSE
    BY <1>2
  <2>2. 1 \in 1 .. Len(b) /\ 1 + 1 \in 1 .. Len(b) + 1
    BY <1>2, <2>1
  <2>3. Passed(f, 1 + 1) = 0 + 1 + f[1] /\ f[1] \in Nat /\ Passed(f, 1 + 1) <= 0
    BY <1>2, <2>2
  <2> QED
    BY <2>3
<1> HIDE DEF b
<1>4. DOMAIN b = {}
  BY <1>2, <1>3
<1> QED
  BY <1>4 DEF ToSet, b

\* A walk through the calls, with the count and the list it keeps.
Walk(n, fs, ds, total, start) ==
  /\ FramesOf(n, fs) /\ IsSeq(ds) /\ total \in Nat /\ total <= MaxDevices
  /\ Counted(n, fs, Len(ds), total, start) /\ Listed(n, fs, ds)

\* The frames after an element was taken.
Past(fs, gs) ==
  /\ DOMAIN gs = DOMAIN fs
  /\ \A j \in DOMAIN fs : /\ gs[j].scope = fs[j].scope /\ gs[j].path = fs[j].path
                          /\ gs[j].at = IF j = Len(fs) THEN fs[j].at + 1 ELSE fs[j].at

\* The element that is taken next, its definition, and what the cost says is below it.
AtHand(n, fs) == BodyOf(n, fs[Len(fs)].scope)[fs[Len(fs)].at]
BelowHand(n, fs) == BelowAt(n, fs, Len(fs))[fs[Len(fs)].at]

LEMMA HandFits ==
  ASSUME NEW n \in Netlists, NEW fs, NEW ds, NEW total, NEW start, Walk(n, fs, ds, total, start),
         NEW m, m = Len(fs), m \in DOMAIN fs, fs[m].at <= Len(BodyOf(n, fs[m].scope)),
         NEW e, e = AtHand(n, fs), NEW k, k = BelowHand(n, fs)
  PROVE  /\ k \in Nat /\ Len(ds) \in Nat /\ total \in Nat /\ total <= MaxDevices
         /\ start[m] + Passed(BelowAt(n, fs, m), fs[m].at + 1) = Len(ds) + 1 + k
         /\ Len(ds) + 1 + k <= start[m] + CostOf(n, fs, m) /\ Len(ds) + 1 + k <= total
         /\ ~CallIn(n, e) => k = 0
         /\ CallIn(n, e) => /\ e.model \notin OpenTo(fs, m) /\ k <= MaxDevices
                            /\ Inside(CallAt(fs, m), e) = <<e.model, OpenTo(fs, m)>>
                            /\ <<e.model, OpenTo(fs, m)>> \in CallsOf(n)
                            /\ k = Costs(n)[<<e.model, OpenTo(fs, m)>>]
<1> DEFINE b == BodyOf(n, fs[m].scope)
           f == BelowAt(n, fs, m)
           at == fs[m].at
<1>1. /\ FramesOf(n, fs) /\ IsSeq(ds) /\ total \in Nat /\ total <= MaxDevices
      /\ Counted(n, fs, Len(ds), total, start)
  BY DEF Walk
<1>2. Len(ds) \in Nat
  BY <1>1, Sequence
<1>10. b = BodyOf(n, fs[m].scope) /\ f = BelowAt(n, fs, m) /\ at = fs[m].at
  OBVIOUS
<1>3. e = b[at] /\ k = f[at]
  BY DEF AtHand, BelowHand
<1>4. /\ at \in 1 .. Len(b) /\ at \in DOMAIN b /\ f[at] \in Nat
      /\ start[m] + Passed(f, at + 1) = Len(ds) + 1 + f[at]
      /\ Len(ds) + 1 + f[at] <= start[m] + CostOf(n, fs, m)
      /\ Len(ds) + 1 + f[at] <= total
  BY <1>1, <1>2, TakenFits, SMTT(30)
<1> HIDE DEF b, f, at
<1>5. /\ \A i \in DOMAIN b : ~CallIn(n, b[i]) => f[i] = 0
      /\ \A i \in DOMAIN b : CallIn(n, b[i]) =>
           /\ b[i].model \notin OpenTo(fs, m)
           /\ Inside(CallAt(fs, m), b[i]) = <<b[i].model, OpenTo(fs, m)>>
           /\ Inside(CallAt(fs, m), b[i]) \in CallsOf(n)
           /\ f[i] = Costs(n)[Inside(CallAt(fs, m), b[i])] /\ f[i] <= MaxDevices
  BY <1>1, <1>10, InnerCounts
<1>7. ~CallIn(n, e) => k = 0
  BY <1>3, <1>4, <1>5
<1>8. CallIn(n, e) => /\ e.model \notin OpenTo(fs, m) /\ k <= MaxDevices
                      /\ Inside(CallAt(fs, m), e) = <<e.model, OpenTo(fs, m)>>
                      /\ <<e.model, OpenTo(fs, m)>> \in CallsOf(n)
                      /\ k = Costs(n)[<<e.model, OpenTo(fs, m)>>]
  BY <1>3, <1>4, <1>5
<1>9. start[m] + Passed(f, at + 1) = Len(ds) + 1 + k
  BY <1>3, <1>4
<1> QED
  BY <1>1, <1>2, <1>3, <1>4, <1>7, <1>8, <1>9 DEF f, at

LEMMA LeafWalks ==
  ASSUME NEW n \in Netlists, NEW fs, NEW ds, NEW total, NEW start, Walk(n, fs, ds, total, start),
         NEW m, m = Len(fs), m \in DOMAIN fs, fs[m].at <= Len(BodyOf(n, fs[m].scope)),
         NEW e, e = AtHand(n, fs), CallIn(n, e) => e.model \in OpenTo(fs, m) \/ Len(ds) + 1 >= MaxDevices,
         NEW gs, Past(fs, gs), Len(gs) = m,
         NEW d, d.path = fs[m].path, d.element = e, NEW es, es = Append(ds, d)
  PROVE  Counted(n, gs, Len(es), total, start) /\ Listed(n, gs, es)
<1> DEFINE k == BelowHand(n, fs)
<1>0. FramesOf(n, fs) /\ IsSeq(ds) /\ Listed(n, fs, ds) /\ Counted(n, fs, Len(ds), total, start)
  BY DEF Walk
<1>1. /\ IsSeq(es) /\ Len(es) = Len(ds) + 1 /\ DOMAIN es = 1 .. Len(ds) + 1 /\ Len(ds) \in Nat
      /\ DOMAIN ds = 1 .. Len(ds)
      /\ es[Len(ds) + 1] = d /\ \A i \in DOMAIN ds : es[i] = ds[i]
      /\ \A path, x : DeviceFor(ds, path, x) => DeviceFor(es, path, x)
      /\ \A N, path, s : Whole(N, ds, path, s) => Whole(N, es, path, s)
      /\ DeviceFor(es, d.path, d.element)
  <2>1. /\ IsSeq(es) /\ Len(es) = Len(ds) + 1 /\ DOMAIN es = 1 .. Len(ds) + 1 /\ Len(ds) \in Nat
        /\ DOMAIN ds = 1 .. Len(ds)
        /\ es[Len(ds) + 1] = d /\ \A i \in DOMAIN ds : es[i] = ds[i]
    BY <1>0, Appended, Sequence
  <2>4. DeviceFor(es, d.path, d.element)
    BY <1>0, DevicesStay, Zenon
  <2>2. \A path, x : DeviceFor(ds, path, x) => DeviceFor(es, path, x)
    BY <1>0, DevicesStay, Zenon
  <2>3. \A N, path, s : Whole(N, ds, path, s) => Whole(N, es, path, s)
    BY <1>0, DevicesStay, Zenon
  <2> QED
    BY <2>1, <2>2, <2>3, <2>4
<1>2. /\ k \in Nat /\ Len(ds) \in Nat /\ total \in Nat /\ total <= MaxDevices
      /\ start[m] + Passed(BelowAt(n, fs, m), fs[m].at + 1) = Len(ds) + 1 + k
      /\ Len(ds) + 1 + k <= total
      /\ ~CallIn(n, e) => k = 0
      /\ CallIn(n, e) => /\ e.model \notin OpenTo(fs, m)
                         /\ <<e.model, OpenTo(fs, m)>> \in CallsOf(n)
                         /\ k = Costs(n)[<<e.model, OpenTo(fs, m)>>]
  BY HandFits
<1> HIDE DEF k
<1>4. k = 0
  BY <1>2, LimitAssumption
<1>5. CallIn(n, e) => ToSet(BodyOf(n, e.model)) = {}
  <2>1. \A call \in CallsOf(n) : Costs(n)[call] = 0 => ToSet(BodyOf(n, call[1])) = {}
    BY NothingBelow
  <2>2. CallIn(n, e) => ToSet(BodyOf(n, <<e.model, OpenTo(fs, m)>>[1])) = {}
    BY <1>2, <1>4, <2>1
  <2> QED
    BY <2>2
<1>6. DOMAIN fs = 1 .. Len(fs) /\ Len(fs) \in Nat
  BY <1>0, Sequence DEF FramesOf
<1>7. \A j \in DOMAIN fs : CallAt(gs, j) = CallAt(fs, j)
  <2>1. ASSUME NEW j \in DOMAIN fs
        PROVE  CallAt(gs, j) = CallAt(fs, j)
    <3>1. j \in Nat /\ j >= 1 /\ \A i \in 1 .. j : i \in DOMAIN fs
      BY <1>6
    <3> QED
      BY <3>1, SameCalls DEF Past
  <2> QED
    BY <2>1
<1>8. \A j \in DOMAIN fs : BelowAt(n, gs, j) = BelowAt(n, fs, j) /\ CostOf(n, gs, j) = CostOf(n, fs, j)
  BY <1>7 DEF BelowAt, CostOf
<1>9. Counted(n, gs, Len(es), total, start)
  <2>1. /\ start \in [DOMAIN fs -> Nat] /\ start[1] = 0 /\ CostOf(n, fs, 1) = total
        /\ \A j \in DOMAIN fs :
             /\ CostOf(n, fs, j) <= MaxDevices /\ start[j] + CostOf(n, fs, j) <= total
             /\ start[j] + Passed(BelowAt(n, fs, j), fs[j].at)
                  = IF j = Len(fs) THEN Len(ds) ELSE start[j + 1] + CostOf(n, fs, j + 1)
    BY <1>0 DEF Counted
  <2>2. 1 \in DOMAIN fs /\ \A j \in DOMAIN fs : j = Len(fs) \/ j + 1 \in DOMAIN fs
    BY <1>6
  <2>3. ASSUME NEW j \in DOMAIN fs
        PROVE  start[j] + Passed(BelowAt(n, gs, j), gs[j].at)
                 = IF j = Len(fs) THEN Len(es) ELSE start[j + 1] + CostOf(n, gs, j + 1)
    <3>1. CASE j = Len(fs)
      <4>1. gs[j].at = fs[m].at + 1 /\ BelowAt(n, gs, j) = BelowAt(n, fs, m)
        BY <1>8, <3>1 DEF Past
      <4>2. Len(ds) + 1 + k = Len(es)
        BY <1>1, <1>4
      <4> QED
        BY <1>2, <3>1, <4>1, <4>2
    <3>2. CASE j # Len(fs)
      BY <1>8, <2>1, <2>2, <3>2 DEF Past
    <3> QED
      BY <3>1, <3>2
  <2> QED
    BY <1>8, <2>1, <2>2, <2>3 DEF Counted, Past
<1>10. ASSUME NEW j \in DOMAIN gs, NEW i \in 1 .. gs[j].at - 1
       PROVE  DeviceFor(es, gs[j].path, BodyOf(n, gs[j].scope)[i])
  <2>1. CASE j = m /\ i = fs[m].at
    BY <1>1, <2>1 DEF AtHand, Past
  <2>2. CASE ~(j = m /\ i = fs[m].at)
    <3>1. i \in 1 .. fs[j].at - 1
      <4>1. fs[j].at \in Int
        <5>1. fs[j].at \in 1 .. Len(BodyOf(n, fs[j].scope)) + 1
          BY <1>0 DEF FramesOf, Past
        <5> QED
          BY <5>1
      <4>2. CASE j = m
        <5>1. gs[j].at = fs[j].at + 1 /\ i # fs[j].at
          BY <2>2, <4>2 DEF Past
        <5> QED
          BY <4>1, <5>1
      <4>3. CASE j # m
        BY <4>1, <4>3 DEF Past
      <4> QED
        BY <4>2, <4>3
    <3>2. DeviceFor(ds, fs[j].path, BodyOf(n, fs[j].scope)[i])
      BY <1>0, <3>1 DEF Listed, Past
    <3> QED
      BY <1>1, <3>2 DEF Past
  <2> QED
    BY <2>1, <2>2
<1>11. ASSUME NEW path, NEW s, Opened(fs, path, s)
       PROVE  Opened(gs, path, s)
  BY <1>11 DEF Opened, Past
<1>12. ASSUME NEW i \in DOMAIN es, CallIn(n, es[i].element)
       PROVE  Whole(n, es, Below(es[i]), es[i].element.model) \/ Opened(gs, Below(es[i]), es[i].element.model)
  <2>1. CASE i = Len(ds) + 1
    <3>1. es[i].element = e
      BY <1>1, <2>1
    <3> QED
      BY <1>5, <1>12, <3>1 DEF Whole
  <2>2. CASE i # Len(ds) + 1
    <3>1. i \in DOMAIN ds /\ es[i] = ds[i]
      BY <1>1, <2>2
    <3>2. Whole(n, ds, Below(ds[i]), ds[i].element.model) \/ Opened(fs, Below(ds[i]), ds[i].element.model)
      BY <1>0, <1>12, <3>1 DEF Listed
    <3> QED
      BY <1>1, <1>11, <3>1, <3>2
  <2> QED
    BY <2>1, <2>2
<1>13. Listed(n, gs, es)
  BY <1>10, <1>12 DEF Listed
<1> QED
  BY <1>9, <1>13

Begun(m, start, count) == [j \in 1 .. m + 1 |-> IF j = m + 1 THEN count + 1 ELSE start[j]]

\* A call that is opened begins with the devices there are, and ends within what
\* the call outside it costs.
LEMMA CallCounts ==
  ASSUME NEW n \in Netlists, NEW fs, NEW ds, NEW total, NEW start, Walk(n, fs, ds, total, start),
         NEW m, m = Len(fs), m \in DOMAIN fs, fs[m].at <= Len(BodyOf(n, fs[m].scope)),
         NEW e, e = AtHand(n, fs), CallIn(n, e),
         NEW gs, NEW hs, Past(fs, gs), IsSeq(gs), Len(gs) = m, NEW h, h.scope = e.model, h.at = 1, hs = Append(gs, h)
  PROVE  Counted(n, hs, Len(ds) + 1, total, Begun(m, start, Len(ds)))
<1> DEFINE k == BelowHand(n, fs)
           begin == Begun(m, start, Len(ds))
<1>0. /\ FramesOf(n, fs) /\ IsSeq(ds) /\ Counted(n, fs, Len(ds), total, start)
      /\ DOMAIN fs = 1 .. m /\ m \in Nat /\ DOMAIN gs = 1 .. m
  <2>1. FramesOf(n, fs) /\ IsSeq(ds) /\ Counted(n, fs, Len(ds), total, start)
    BY DEF Walk
  <2>2. DOMAIN fs = 1 .. Len(fs) /\ Len(fs) \in Nat
    BY <2>1, Sequence DEF FramesOf
  <2> QED
    BY <2>1, <2>2 DEF Past
<1>1. /\ k \in Nat /\ Len(ds) \in Nat /\ total \in Nat /\ total <= MaxDevices
      /\ start[m] + Passed(BelowAt(n, fs, m), fs[m].at + 1) = Len(ds) + 1 + k
      /\ Len(ds) + 1 + k <= total
      /\ CallIn(n, e) => /\ e.model \notin OpenTo(fs, m) /\ k <= MaxDevices
                         /\ <<e.model, OpenTo(fs, m)>> \in CallsOf(n)
                         /\ k = Costs(n)[<<e.model, OpenTo(fs, m)>>]
  BY HandFits
<1> HIDE DEF k
<1>2. /\ IsSeq(hs) /\ Len(hs) = m + 1 /\ hs[m + 1] = h /\ \A j \in 1 .. m : hs[j] = gs[j]
  <2>1. IsSeq(hs) /\ Len(hs) = Len(gs) + 1 /\ hs[Len(gs) + 1] = h /\ \A j \in DOMAIN gs : hs[j] = gs[j]
    BY Appended
  <2> QED
    BY <1>0, <2>1
<1>3. DOMAIN hs = 1 .. m + 1
  BY <1>2, Sequence
<1>4. \A j \in 1 .. m : /\ hs[j].scope = fs[j].scope
                        /\ hs[j].at = IF j = m THEN fs[j].at + 1 ELSE fs[j].at
  BY <1>0, <1>2 DEF Past
<1>5. \A j \in 1 .. m : CallAt(hs, j) = CallAt(fs, j)
  <2>1. ASSUME NEW j \in 1 .. m
        PROVE  CallAt(hs, j) = CallAt(fs, j)
    <3>1. j \in Nat /\ j >= 1 /\ \A i \in 1 .. j : i \in 1 .. m
      BY <1>0
    <3>2. \A i \in 1 .. j : hs[i].scope = fs[i].scope
      BY <1>4, <3>1
    <3> QED
      BY <3>1, <3>2, SameCalls
  <2> QED
    BY <2>1
<1>6. CallAt(hs, m + 1) = <<e.model, OpenTo(fs, m)>>
  <2>1. OpenTo(hs, m) = OpenTo(fs, m)
    BY <1>4 DEF OpenTo
  <2>2. m + 1 - 1 = m
    BY <1>0
  <2>3. CallAt(hs, m + 1) = <<hs[m + 1].scope, OpenTo(hs, m)>>
    BY <2>2 DEF CallAt
  <2> QED
    BY <1>2, <2>1, <2>3
<1>7. \A j \in 1 .. m : BelowAt(n, hs, j) = BelowAt(n, fs, j) /\ CostOf(n, hs, j) = CostOf(n, fs, j)
  BY <1>5 DEF BelowAt, CostOf
<1>8. CostOf(n, hs, m + 1) = k
  BY <1>1, <1>6 DEF CostOf
<1>9. Passed(BelowAt(n, hs, m + 1), 1) = 0
  <2>1. <<e.model, OpenTo(fs, m)>> \in CallsOf(n) /\ Costs(n)[<<e.model, OpenTo(fs, m)>>] <= MaxDevices
    BY <1>1
  <2>2. \A call \in CallsOf(n) : Costs(n)[call] <= MaxDevices => Passed(BelowOf(n, Costs(n), call), 1) = 0
    BY AffordableCall
  <2> QED
    BY <1>6, <2>1, <2>2 DEF BelowAt
<1>10. /\ start \in [1 .. m -> Nat] /\ start[1] = 0 /\ CostOf(n, fs, 1) = total
       /\ \A j \in 1 .. m :
            /\ CostOf(n, fs, j) <= MaxDevices /\ start[j] + CostOf(n, fs, j) <= total
            /\ j # m => start[j] + Passed(BelowAt(n, fs, j), fs[j].at) = start[j + 1] + CostOf(n, fs, j + 1)
  BY <1>0 DEF Counted
<1>11. 1 \in 1 .. m /\ m \in 1 .. m /\ 1 # m + 1
  BY <1>0
<1>12. /\ begin \in [1 .. m + 1 -> Nat] /\ begin[1] = 0 /\ begin[m + 1] = Len(ds) + 1
       /\ \A j \in 1 .. m : begin[j] = start[j]
  BY <1>0, <1>1, <1>10, <1>11 DEF Begun
<1> HIDE DEF begin
<1>13. ASSUME NEW j \in 1 .. m + 1
       PROVE  /\ CostOf(n, hs, j) <= MaxDevices /\ begin[j] + CostOf(n, hs, j) <= total
              /\ begin[j] + Passed(BelowAt(n, hs, j), hs[j].at)
                   = IF j = m + 1 THEN Len(ds) + 1 ELSE begin[j + 1] + CostOf(n, hs, j + 1)
  <2>1. CASE j = m + 1
    <3>1. CostOf(n, hs, j) <= MaxDevices /\ begin[j] + CostOf(n, hs, j) <= total
      BY <1>1, <1>8, <1>12, <2>1
    <3>2. hs[j].at = 1
      BY <1>2, <2>1
    <3>3. begin[j] + Passed(BelowAt(n, hs, j), hs[j].at) = Len(ds) + 1
      BY <1>1, <1>9, <1>12, <2>1, <3>2
    <3> QED
      BY <2>1, <3>1, <3>3
  <2>2. CASE j = m
    <3>1. CostOf(n, hs, j) <= MaxDevices /\ begin[j] + CostOf(n, hs, j) <= total
      BY <1>7, <1>10, <1>11, <1>12, <2>2
    <3>2. hs[j].at = fs[m].at + 1 /\ BelowAt(n, hs, j) = BelowAt(n, fs, m) /\ begin[j] = start[m]
      BY <1>4, <1>7, <1>11, <1>12, <2>2
    <3>3. begin[j] + Passed(BelowAt(n, hs, j), hs[j].at) = Len(ds) + 1 + k
      BY <1>1, <3>2
    <3>4. begin[j + 1] + CostOf(n, hs, j + 1) = Len(ds) + 1 + k /\ j # m + 1
      BY <1>0, <1>8, <1>12, <2>2
    <3> QED
      BY <3>1, <3>3, <3>4
  <2>3. CASE j # m + 1 /\ j # m
    <3>1. j \in 1 .. m /\ j + 1 \in 1 .. m
      BY <1>0, <2>3
    <3>2. /\ CostOf(n, hs, j) = CostOf(n, fs, j) /\ BelowAt(n, hs, j) = BelowAt(n, fs, j)
          /\ begin[j] = start[j] /\ begin[j + 1] = start[j + 1] /\ hs[j].at = fs[j].at
          /\ CostOf(n, hs, j + 1) = CostOf(n, fs, j + 1)
      BY <1>4, <1>7, <1>12, <2>3, <3>1
    <3> QED
      BY <1>10, <2>3, <3>1, <3>2
  <2> QED
    BY <2>1, <2>2, <2>3
<1>14. 1 \in 1 .. m + 1 /\ CostOf(n, hs, 1) = total
  BY <1>0, <1>7, <1>10, <1>11
<1>15. Counted(n, hs, Len(ds) + 1, total, begin)
  BY <1>2, <1>3, <1>12, <1>13, <1>14 DEF Counted
<1> QED
  BY <1>15 DEF begin

\* What a call leaves listed: the new frame has passed nothing, and is that of the
\* new device.
LEMMA CallLists ==
  ASSUME NEW n \in Netlists, NEW fs, NEW ds, NEW total, NEW start, Walk(n, fs, ds, total, start),
         NEW m, m = Len(fs), m \in DOMAIN fs,
         NEW e, e = AtHand(n, fs),
         NEW gs, NEW hs, Past(fs, gs), IsSeq(gs), Len(gs) = m, NEW h, h.scope = e.model, h.at = 1, hs = Append(gs, h),
         NEW d, d.path = fs[m].path, d.element = e, h.path = Below(d), NEW es, es = Append(ds, d)
  PROVE  Listed(n, hs, es)
<1>0. /\ FramesOf(n, fs) /\ IsSeq(ds) /\ Listed(n, fs, ds)
      /\ DOMAIN fs = 1 .. m /\ m \in Nat /\ DOMAIN gs = 1 .. m
  <2>1. FramesOf(n, fs) /\ IsSeq(ds) /\ Listed(n, fs, ds)
    BY DEF Walk
  <2>2. DOMAIN fs = 1 .. Len(fs) /\ Len(fs) \in Nat
    BY <2>1, Sequence DEF FramesOf
  <2> QED
    BY <2>1, <2>2 DEF Past
<1>1. /\ IsSeq(es) /\ DOMAIN es = 1 .. Len(ds) + 1 /\ Len(ds) \in Nat /\ DOMAIN ds = 1 .. Len(ds)
      /\ es[Len(ds) + 1] = d /\ \A i \in DOMAIN ds : es[i] = ds[i]
      /\ \A path, x : DeviceFor(ds, path, x) => DeviceFor(es, path, x)
      /\ \A N, path, s : Whole(N, ds, path, s) => Whole(N, es, path, s)
      /\ DeviceFor(es, d.path, d.element)
  <2>1. /\ IsSeq(es) /\ DOMAIN es = 1 .. Len(ds) + 1 /\ Len(ds) \in Nat /\ DOMAIN ds = 1 .. Len(ds)
        /\ es[Len(ds) + 1] = d /\ \A i \in DOMAIN ds : es[i] = ds[i]
    BY <1>0, Appended, Sequence
  <2>2. \A path, x : DeviceFor(ds, path, x) => DeviceFor(es, path, x)
    BY <1>0, DevicesStay, Zenon
  <2>3. \A N, path, s : Whole(N, ds, path, s) => Whole(N, es, path, s)
    BY <1>0, DevicesStay, Zenon
  <2>4. DeviceFor(es, d.path, d.element)
    BY <1>0, DevicesStay, Zenon
  <2> QED
    BY <2>1, <2>2, <2>3, <2>4
<1>2. /\ IsSeq(hs) /\ Len(hs) = m + 1 /\ hs[m + 1] = h /\ \A j \in 1 .. m : hs[j] = gs[j]
  <2>1. IsSeq(hs) /\ Len(hs) = Len(gs) + 1 /\ hs[Len(gs) + 1] = h /\ \A j \in DOMAIN gs : hs[j] = gs[j]
    BY Appended
  <2> QED
    BY <1>0, <2>1
<1>3. DOMAIN hs = 1 .. m + 1
  BY <1>2, Sequence
<1>4. \A j \in 1 .. m : /\ hs[j].scope = fs[j].scope /\ hs[j].path = fs[j].path
                        /\ hs[j].at = IF j = m THEN fs[j].at + 1 ELSE fs[j].at
  BY <1>0, <1>2 DEF Past
<1>5. ASSUME NEW j \in DOMAIN hs, NEW i \in 1 .. hs[j].at - 1
      PROVE  DeviceFor(es, hs[j].path, BodyOf(n, hs[j].scope)[i])
  <2>1. j # m + 1
    BY <1>2
  <2>2. j \in 1 .. m
    BY <1>0, <1>3, <2>1
  <2>3. fs[j].at \in Int
    <3>1. fs[j].at \in 1 .. Len(BodyOf(n, fs[j].scope)) + 1
      BY <1>0, <2>2 DEF FramesOf
    <3> QED
      BY <3>1
  <2>4. CASE j = m /\ i = fs[m].at
    BY <1>1, <1>4, <2>2, <2>4 DEF AtHand
  <2>5. CASE ~(j = m /\ i = fs[m].at)
    <3>1. i \in 1 .. fs[j].at - 1
      <4>1. CASE j = m
        BY <1>4, <2>2, <2>3, <2>5, <4>1
      <4>2. CASE j # m
        BY <1>4, <2>2, <2>3, <4>2
      <4> QED
        BY <4>1, <4>2
    <3>2. DeviceFor(ds, fs[j].path, BodyOf(n, fs[j].scope)[i])
      BY <1>0, <2>2, <3>1 DEF Listed
    <3> QED
      BY <1>1, <1>4, <2>2, <3>2
  <2> QED
    BY <2>4, <2>5
<1>6. ASSUME NEW path, NEW s, Opened(fs, path, s)
      PROVE  Opened(hs, path, s)
  <2>1. PICK j \in 1 .. m : fs[j].scope = s /\ fs[j].path = path
    BY <1>0, <1>6 DEF Opened
  <2>2. j \in DOMAIN hs /\ hs[j].scope = s /\ hs[j].path = path
    BY <1>0, <1>3, <1>4, <2>1
  <2> QED
    BY <2>2 DEF Opened
<1>7. Opened(hs, Below(d), e.model)
  <2>1. m + 1 \in DOMAIN hs /\ hs[m + 1].scope = e.model /\ hs[m + 1].path = Below(d)
    BY <1>0, <1>2, <1>3
  <2> QED
    BY <2>1 DEF Opened
<1>8. ASSUME NEW i \in DOMAIN es, CallIn(n, es[i].element)
      PROVE  Whole(n, es, Below(es[i]), es[i].element.model) \/ Opened(hs, Below(es[i]), es[i].element.model)
  <2>1. CASE i = Len(ds) + 1
    BY <1>1, <1>7, <2>1
  <2>2. CASE i # Len(ds) + 1
    <3>1. i \in DOMAIN ds /\ es[i] = ds[i]
      BY <1>1, <2>2
    <3>2. Whole(n, ds, Below(ds[i]), ds[i].element.model) \/ Opened(fs, Below(ds[i]), ds[i].element.model)
      BY <1>0, <1>8, <3>1 DEF Listed
    <3> QED
      BY <1>1, <1>6, <3>1, <3>2
  <2> QED
    BY <2>1, <2>2
<1> QED
  BY <1>5, <1>8 DEF Listed

\* A call returns when its body has been passed: the budget is not spent before.
LEMMA CallEnds ==
  ASSUME NEW n \in Netlists, NEW fs, NEW ds, NEW total, NEW start, Walk(n, fs, ds, total, start),
         NEW m, m = Len(fs), m \in DOMAIN fs,
         fs[m].at > Len(BodyOf(n, fs[m].scope)) \/ Len(ds) >= MaxDevices
  PROVE  /\ start[m] + CostOf(n, fs, m) = Len(ds)
         /\ Whole(n, ds, fs[m].path, fs[m].scope)
<1> DEFINE b == BodyOf(n, fs[m].scope)
           f == BelowAt(n, fs, m)
<1>0. /\ FramesOf(n, fs) /\ IsSeq(ds) /\ Listed(n, fs, ds) /\ Counted(n, fs, Len(ds), total, start)
      /\ total \in Nat /\ total <= MaxDevices /\ Len(ds) \in Nat
  BY Sequence DEF Walk
<1>1. b = BodyOf(n, fs[m].scope) /\ f = BelowAt(n, fs, m)
  OBVIOUS
<1>2. fs[m].at > Len(b) \/ Len(ds) >= MaxDevices
  OBVIOUS
<1> HIDE DEF b, f
<1>3. /\ Len(b) \in Nat /\ DOMAIN b = 1 .. Len(b) /\ f \in [1 .. Len(b) -> Nat]
      /\ CostOf(n, fs, m) \in Nat /\ Passed(f, Len(b) + 1) = CostOf(n, fs, m)
      /\ start[m] \in Nat /\ fs[m].at \in 1 .. Len(b) + 1
  BY <1>0, <1>1, InnerCounts
<1>4. fs[m].at = Len(b) + 1
  <2>1. SUFFICES ASSUME fs[m].at <= Len(b) PROVE FALSE
    BY <1>3
  <2> DEFINE k == BelowHand(n, fs)
  <2>2. k \in Nat /\ Len(ds) + 1 + k <= total
    BY <1>1, <2>1, HandFits
  <2> HIDE DEF k
  <2> QED
    BY <1>0, <1>2, <1>3, <2>1, <2>2, LimitAssumption
<1>5. start[m] + Passed(f, fs[m].at) = Len(ds)
  BY <1>0, <1>1 DEF Counted
<1>6. Whole(n, ds, fs[m].path, fs[m].scope)
  <2>1. ASSUME NEW e \in ToSet(b)
        PROVE  DeviceFor(ds, fs[m].path, e)
    <3>1. PICK i \in 1 .. Len(b) : b[i] = e
      BY <1>3 DEF ToSet
    <3>2. i \in 1 .. fs[m].at - 1
      BY <1>3, <1>4, <3>1
    <3> QED
      BY <1>0, <1>1, <3>1, <3>2 DEF Listed
  <2> QED
    BY <1>1, <2>1 DEF Whole
<1> QED
  BY <1>3, <1>4, <1>5, <1>6

\* What the call outside it goes on with.
LEMMA ReturnWalks ==
  ASSUME NEW n \in Netlists, NEW fs, NEW ds, NEW total, NEW start, Walk(n, fs, ds, total, start),
         NEW m, m = Len(fs), m \in DOMAIN fs, m # 1,
         fs[m].at > Len(BodyOf(n, fs[m].scope)) \/ Len(ds) >= MaxDevices,
         NEW gs, Len(gs) = m - 1, IsSeq(gs), \A j \in DOMAIN gs : gs[j] = fs[j],
         NEW begin, begin = [j \in DOMAIN gs |-> start[j]]
  PROVE  Counted(n, gs, Len(ds), total, begin) /\ Listed(n, gs, ds)
<1>0. /\ FramesOf(n, fs) /\ IsSeq(ds) /\ Listed(n, fs, ds) /\ Counted(n, fs, Len(ds), total, start)
  BY DEF Walk
<1>1. /\ start[m] + CostOf(n, fs, m) = Len(ds)
      /\ Whole(n, ds, fs[m].path, fs[m].scope)
  BY CallEnds
<1>2. /\ DOMAIN fs = 1 .. m /\ m \in Nat /\ DOMAIN gs = 1 .. m - 1 /\ m >= 2
  <2>1. DOMAIN fs = 1 .. Len(fs) /\ Len(fs) \in Nat
    BY <1>0, Sequence DEF FramesOf
  <2>2. DOMAIN gs = 1 .. Len(gs)
    BY Sequence
  <2> QED
    BY <2>1, <2>2
<1>3. \A j \in 1 .. m - 1 : j \in 1 .. m /\ j + 1 \in 1 .. m /\ gs[j] = fs[j] /\ j # m
  BY <1>2
<1>4. \A j \in 1 .. m - 1 : BelowAt(n, gs, j) = BelowAt(n, fs, j) /\ CostOf(n, gs, j) = CostOf(n, fs, j)
  <2>1. ASSUME NEW j \in 1 .. m - 1
        PROVE  CallAt(gs, j) = CallAt(fs, j)
    <3>1. j \in Nat /\ j >= 1 /\ \A i \in 1 .. j : gs[i].scope = fs[i].scope
      BY <1>2, <1>3, SMTT(30)
    <3> QED
      BY <3>1, SameCalls
  <2> QED
    BY <2>1 DEF BelowAt, CostOf
<1>5. /\ start \in [1 .. m -> Nat] /\ start[1] = 0 /\ CostOf(n, fs, 1) = total
      /\ \A j \in 1 .. m :
           /\ CostOf(n, fs, j) <= MaxDevices /\ start[j] + CostOf(n, fs, j) <= total
           /\ j # m => start[j] + Passed(BelowAt(n, fs, j), fs[j].at) = start[j + 1] + CostOf(n, fs, j + 1)
  BY <1>0, <1>2 DEF Counted
<1>6. begin \in [1 .. m - 1 -> Nat] /\ \A j \in 1 .. m - 1 : begin[j] = start[j]
  BY <1>2, <1>3, <1>5
<1>7. ASSUME NEW j \in 1 .. m - 1
      PROVE  /\ CostOf(n, gs, j) <= MaxDevices /\ begin[j] + CostOf(n, gs, j) <= total
             /\ begin[j] + Passed(BelowAt(n, gs, j), gs[j].at)
                  = IF j = m - 1 THEN Len(ds) ELSE begin[j + 1] + CostOf(n, gs, j + 1)
  <2>1. CostOf(n, gs, j) <= MaxDevices /\ begin[j] + CostOf(n, gs, j) <= total
    BY <1>3, <1>4, <1>5, <1>6
  <2>2. begin[j] + Passed(BelowAt(n, gs, j), gs[j].at) = start[j + 1] + CostOf(n, fs, j + 1)
    BY <1>3, <1>4, <1>5, <1>6
  <2>3. CASE j = m - 1
    <3>1. j + 1 = m
      BY <1>2, <2>3
    <3> QED
      BY <1>1, <2>1, <2>2, <2>3, <3>1
  <2>4. CASE j # m - 1
    <3>1. j + 1 \in 1 .. m - 1
      BY <1>2, <2>4
    <3> QED
      BY <1>4, <1>6, <2>1, <2>2, <2>4, <3>1
  <2> QED
    BY <2>3, <2>4
<1>8. Counted(n, gs, Len(ds), total, begin)
  <2>1. 1 \in 1 .. m - 1
    BY <1>2
  <2>2. begin[1] = 0 /\ CostOf(n, gs, 1) = total
    BY <1>4, <1>5, <1>6, <2>1
  <2> QED
    BY <1>2, <1>6, <1>7, <2>2 DEF Counted
<1>9. ASSUME NEW j \in DOMAIN gs, NEW i \in 1 .. gs[j].at - 1
      PROVE  DeviceFor(ds, gs[j].path, BodyOf(n, gs[j].scope)[i])
  BY <1>0, <1>2, <1>3, <1>9 DEF Listed
<1>10. ASSUME NEW k \in DOMAIN ds, CallIn(n, ds[k].element)
       PROVE  Whole(n, ds, Below(ds[k]), ds[k].element.model) \/ Opened(gs, Below(ds[k]), ds[k].element.model)
  <2>1. CASE Opened(fs, Below(ds[k]), ds[k].element.model)
    <3>1. PICK j \in 1 .. m : fs[j].scope = ds[k].element.model /\ fs[j].path = Below(ds[k])
      BY <1>2, <2>1 DEF Opened
    <3>2. CASE j = m
      BY <1>1, <3>1, <3>2
    <3>3. CASE j # m
      <4>1. j \in DOMAIN gs /\ gs[j] = fs[j]
        BY <1>2, <1>3, <3>3
      <4> QED
        BY <3>1, <4>1 DEF Opened
    <3> QED
      BY <3>2, <3>3
  <2> QED
    BY <1>0, <1>10, <2>1 DEF Listed
<1> QED
  BY <1>8, <1>9, <1>10 DEF Listed

\* The outermost call leaves everything listed, as many devices as it costs.
LEMMA LastReturn ==
  ASSUME NEW n \in Netlists, NEW fs, NEW ds, NEW total, NEW start, Walk(n, fs, ds, total, start),
         Len(fs) = 1, fs[1].at > Len(BodyOf(n, fs[1].scope)) \/ Len(ds) >= MaxDevices
  PROVE  /\ Len(ds) = total /\ Whole(n, ds, fs[1].path, fs[1].scope)
         /\ \A k \in DOMAIN ds : CallIn(n, ds[k].element) => Whole(n, ds, Below(ds[k]), ds[k].element.model)
<1>0. /\ FramesOf(n, fs) /\ IsSeq(ds) /\ Listed(n, fs, ds) /\ Counted(n, fs, Len(ds), total, start)
      /\ total \in Nat
  BY DEF Walk
<1>1. DOMAIN fs = 1 .. 1 /\ 1 \in DOMAIN fs
  <2>1. DOMAIN fs = 1 .. Len(fs)
    BY <1>0, Sequence DEF FramesOf
  <2> QED
    BY <2>1
<1>2. start[1] + CostOf(n, fs, 1) = Len(ds) /\ Whole(n, ds, fs[1].path, fs[1].scope)
  BY <1>1, CallEnds
<1>3. start[1] = 0 /\ CostOf(n, fs, 1) = total
  BY <1>0 DEF Counted
<1>4. ASSUME NEW k \in DOMAIN ds, CallIn(n, ds[k].element)
      PROVE  Whole(n, ds, Below(ds[k]), ds[k].element.model)
  <2>1. CASE Opened(fs, Below(ds[k]), ds[k].element.model)
    <3>1. PICK j \in DOMAIN fs : fs[j].scope = ds[k].element.model /\ fs[j].path = Below(ds[k])
      BY <2>1 DEF Opened
    <3>2. j = 1
      BY <1>1
    <3> QED
      BY <1>2, <3>1, <3>2
  <2> QED
    BY <1>0, <1>4, <2>1 DEF Listed
<1> QED
  BY <1>0, <1>2, <1>3, <1>4

\* The walk begins at the top level with nothing.
LEMMA WalkBegins ==
  ASSUME NEW n \in Netlists, NEW fs, IsSeq(fs), Len(fs) = 1, fs[1].scope = Top, fs[1].at = 1,
         Costs(n)[<<Top, {}>>] <= MaxDevices
  PROVE  Walk(n, fs, <<>>, Costs(n)[<<Top, {}>>], [j \in 1 .. 1 |-> 0])
<1> DEFINE call == <<Top, {}>>
           total == Costs(n)[call]
           start == [j \in 1 .. 1 |-> 0]
<1>1. DOMAIN fs = 1 .. 1
  BY Sequence
<1>2. call \in CallsOf(n) /\ call[1] = Top
  BY DEF CallsOf, ScopesOf
<1>3. total \in Nat /\ total <= MaxDevices
  BY <1>2, CostsExist
<1>4. CallAt(fs, 1) = call
  <2>1. OpenTo(fs, 0) = {}
    BY DEF OpenTo
  <2> QED
    BY <2>1 DEF CallAt
<1>5. CostOf(n, fs, 1) = total /\ BelowAt(n, fs, 1) = BelowOf(n, Costs(n), call)
  BY <1>4 DEF CostOf, BelowAt
<1> HIDE DEF total
<1>6. Passed(BelowAt(n, fs, 1), 1) = 0
  <2>1. \A c \in CallsOf(n) : Costs(n)[c] <= MaxDevices => Passed(BelowOf(n, Costs(n), c), 1) = 0
    BY AffordableCall
  <2> QED
    BY <1>2, <1>3, <1>5, <2>1 DEF total
<1> HIDE DEF call
<1>7. IsSeq(<<>>) /\ Len(<<>>) = 0 /\ DOMAIN <<>> = {}
  BY DEF IsSeq
<1>8. FramesOf(n, fs)
  <2>1. Top \in ScopesOf(n) /\ IsSeq(BodyOf(n, Top))
    BY ScopesType DEF ScopesOf
  <2>2. Len(BodyOf(n, Top)) \in Nat
    BY <2>1, Sequence
  <2> QED
    BY <1>1, <2>1, <2>2 DEF FramesOf
<1>9. Counted(n, fs, 0, total, start)
  <2>1. \A j \in 1 .. 1 : j = 1
    OBVIOUS
  <2>2. start \in [1 .. 1 -> Nat] /\ start[1] = 0
    OBVIOUS
  <2> HIDE DEF start
  <2> QED
    BY <1>1, <1>3, <1>5, <1>6, <2>1, <2>2 DEF Counted
<1>10. Listed(n, fs, <<>>)
  <2>1. \A j \in DOMAIN fs : fs[j].at = 1
    BY <1>1
  <2>2. 1 .. 1 - 1 = {}
    OBVIOUS
  <2> QED
    BY <1>7, <2>1, <2>2 DEF Listed
<1>11. Walk(n, fs, <<>>, total, start)
  <2> HIDE DEF start
  <2> QED
    BY <1>3, <1>7, <1>8, <1>9, <1>10 DEF Walk
<1> QED
  BY <1>11 DEF total, start, call

-----------------------------------------------------------------------------
(* The walk is what the states of an audit keep. *)

AllListed(n, ds, total) ==
  /\ Len(ds) = total /\ Whole(n, ds, <<>>, Top)
  /\ \A k \in DOMAIN ds : CallIn(n, ds[k].element) => Whole(n, ds, Below(ds[k]), ds[k].element.model)

Walking == \E start : Walk(netlist, frames, devices, cost, start)

WalkInv ==
  /\ pc = "cost" => devices = <<>>
  /\ pc # "cost" => cost = Costs(netlist)[<<Top, {}>>]
  /\ pc = "expand" /\ cost <= MaxDevices => frames # <<>> /\ Walking
  /\ pc \in {"done", "audited"} /\ cost <= MaxDevices => AllListed(netlist, devices, cost)

\* The state's own scopes are those of its netlist.
LEMMA OfNetlist ==
  /\ Scopes = ScopesOf(netlist) /\ \A s : Body(s) = BodyOf(netlist, s)
  /\ \A e : IsDefinedCall(e) <=> CallIn(netlist, e)
BY DEF Scopes, ScopesOf, Body, BodyOf, Defined, IsDefinedCall, CallIn

LEMMA FramesAre ==
  ASSUME NEW fs, FramesOK(fs)
  PROVE  FramesOf(netlist, fs)
BY OfNetlist DEF FramesOK, FramesOf

LEMMA AdvancedPasses ==
  ASSUME TypeOK, frames # <<>>
  PROVE  Past(frames, Advanced) /\ IsSeq(Advanced) /\ Len(Advanced) = Len(frames)
<1> DEFINE n == Len(frames)
           f == [frames[n] EXCEPT !.at = frames[n].at + 1]
<1>1. Advanced = [frames EXCEPT ![n] = f]
  BY DEF Advanced
<1>2. IsSeq(frames) /\ n \in DOMAIN frames
  BY InnerType DEF TypeOK
<1>3. frames[n] \in [scope : Scopes, path : {frames[n].path}, ports : {frames[n].ports}, at : Nat]
  BY <1>2 DEF TypeOK
<1>4. f.scope = frames[n].scope /\ f.path = frames[n].path /\ f.at = frames[n].at + 1
  BY <1>3
<1> HIDE DEF f
<1>5. /\ IsSeq(Advanced) /\ Len(Advanced) = n /\ Advanced[n] = f
      /\ \A j \in DOMAIN frames : j # n => Advanced[j] = frames[j]
  BY <1>1, <1>2, Replaced
<1>6. DOMAIN Advanced = DOMAIN frames
  BY <1>2, <1>5, Sequence
<1> QED
  BY <1>4, <1>5, <1>6 DEF Past

\* What the inner frame is to the walk.
LEMMA InnerIs ==
  ASSUME TypeOK, frames # <<>>, NEW m, m = Len(frames)
  PROVE  /\ m \in DOMAIN frames /\ m \in Nat /\ frames[m] = Inner
         /\ HasElement <=> frames[m].at <= Len(BodyOf(netlist, frames[m].scope))
         /\ frames[m].at > Len(BodyOf(netlist, frames[m].scope)) <=> ~HasElement
         /\ Element = AtHand(netlist, frames)
         /\ OpenScopes = OpenTo(frames, m)
<1>1. m \in DOMAIN frames /\ m \in Nat /\ frames[m] = Inner /\ DOMAIN frames = 1 .. m
  BY InnerType DEF Inner
<1>2. /\ Inner.at \in 1 .. Len(Body(Inner.scope)) + 1 /\ Len(Body(Inner.scope)) \in Nat
  BY InnerType
<1>3. Body(Inner.scope) = BodyOf(netlist, frames[m].scope)
  BY <1>1, OfNetlist
<1>4. Element = AtHand(netlist, frames)
  BY <1>1, <1>3 DEF Element, AtHand
<1>5. OpenScopes = OpenTo(frames, m)
  BY <1>1 DEF OpenScopes, OpenTo
<1> QED
  BY <1>1, <1>2, <1>3, <1>4, <1>5 DEF HasElement

LEMMA LeafKeepsWalk ==
  ASSUME TypeOK, TakeLeaf, Walking
  PROVE  frames' # <<>> /\ Walking'
<1> DEFINE m == Len(frames)
           d == Device(Element)
<1>1. PICK start : Walk(netlist, frames, devices, cost, start)
  BY DEF Walking
<1>2. /\ frames # <<>> /\ HasElement /\ ~Opens(Element)
      /\ devices' = Append(devices, d) /\ frames' = Advanced /\ netlist' = netlist /\ cost' = cost
  BY DEF TakeLeaf, Expanding
<1>3. /\ m \in DOMAIN frames /\ m \in Nat /\ frames[m] = Inner
      /\ frames[m].at <= Len(BodyOf(netlist, frames[m].scope))
      /\ Element = AtHand(netlist, frames) /\ OpenScopes = OpenTo(frames, m)
  BY <1>2, InnerIs
<1>4. Past(frames, Advanced) /\ IsSeq(Advanced) /\ Len(Advanced) = m
  BY <1>2, AdvancedPasses
<1>5. d.path = frames[m].path /\ d.element = Element
  BY <1>3 DEF Device
<1>6. Len(devices) \in Nat /\ IsSeq(devices)
  BY Sequence DEF TypeOK
<1>7. CallIn(netlist, Element) => Element.model \in OpenTo(frames, m) \/ Len(devices) + 1 >= MaxDevices
  BY <1>2, <1>3, <1>6, OfNetlist, LimitAssumption DEF Opens
<1>8. netlist \in Netlists
  BY DEF TypeOK
<1>9. m # 0 /\ Advanced # <<>>
  <2>1. DOMAIN Advanced = DOMAIN frames
    BY <1>4 DEF Past
  <2> HIDE DEF m
  <2>2. DOMAIN <<>> = {}
    OBVIOUS
  <2>3. Advanced # <<>>
    BY <1>3, <2>1, <2>2
  <2>4. m # 0
    <3>1. DOMAIN frames = 1 .. Len(frames)
      BY Sequence DEF TypeOK
    <3> QED
      BY <1>3, <3>1
  <2> QED
    BY <2>3, <2>4
<1>10. FramesOf(netlist, Advanced)
  BY <1>2, AdvancedOK, FramesAre
<1> HIDE DEF m, d
<1>11. m = Len(frames)
  BY DEF m
<1>12. \A es : es = Append(devices, d) =>
         Counted(netlist, Advanced, Len(es), cost, start) /\ Listed(netlist, Advanced, es)
  BY <1>1, <1>3, <1>4, <1>5, <1>7, <1>8, <1>11, LeafWalks
<1>13. IsSeq(devices') /\ cost \in Nat /\ cost <= MaxDevices
  BY <1>1, <1>2, <1>6, Appended DEF Walk
<1>14. Counted(netlist, Advanced, Len(devices'), cost, start) /\ Listed(netlist, Advanced, devices')
  BY <1>2, <1>12
<1>15. Walk(netlist', frames', devices', cost', start)
  BY <1>2, <1>10, <1>13, <1>14 DEF Walk
<1> QED
  BY <1>2, <1>9, <1>15 DEF Walking

LEMMA CallKeepsWalk ==
  ASSUME TypeOK, TakeCall, Walking
  PROVE  frames' # <<>> /\ Walking'
<1> DEFINE m == Len(frames)
           d == Device(Element)
           h == Frame(Element.model, Append(Inner.path, Element.name), Bound(Element))
           hs == Append(Advanced, h)
<1>1. PICK start : Walk(netlist, frames, devices, cost, start)
  BY DEF Walking
<1> DEFINE begin == Begun(m, start, Len(devices))
<1>2. /\ frames # <<>> /\ HasElement /\ Opens(Element)
      /\ devices' = Append(devices, d) /\ frames' = hs /\ netlist' = netlist /\ cost' = cost
  BY DEF TakeCall, Expanding
<1>3. /\ m \in DOMAIN frames /\ m \in Nat /\ frames[m] = Inner
      /\ frames[m].at <= Len(BodyOf(netlist, frames[m].scope))
      /\ Element = AtHand(netlist, frames)
  BY <1>2, InnerIs
<1>4. Past(frames, Advanced) /\ IsSeq(Advanced) /\ Len(Advanced) = m
  BY <1>2, AdvancedPasses
<1>5. d.path = frames[m].path /\ d.element = Element /\ h.path = Below(d)
  BY <1>3 DEF Device, Frame, Below
<1>6. h.scope = Element.model /\ h.at = 1
  BY DEF Frame
<1>7. CallIn(netlist, Element) /\ netlist \in Netlists
  BY <1>2, OfNetlist DEF Opens, TypeOK
<1>8. FramesOf(netlist, hs)
  BY <1>2, CalledOK, FramesAre
<1> HIDE DEF h, d
<1>9. IsSeq(devices) /\ IsSeq(devices') /\ Len(devices') = Len(devices) + 1
  BY <1>2, Appended DEF TypeOK
<1>10. hs # <<>>
  <2>1. IsSeq(hs) /\ Len(hs) = m + 1
    BY <1>4, Appended
  <2> HIDE DEF hs, m
  <2>2. Len(<<>>) = 0
    OBVIOUS
  <2> QED
    BY <1>3, <2>1, <2>2
<1>11. hs = Append(Advanced, h) /\ m = Len(frames)
  OBVIOUS
<1> HIDE DEF hs, m
<1>12. Counted(netlist, hs, Len(devices) + 1, cost, begin)
  BY <1>1, <1>3, <1>4, <1>6, <1>7, <1>11, CallCounts
<1>13. \A es : es = Append(devices, d) => Listed(netlist, hs, es)
  BY <1>1, <1>3, <1>4, <1>5, <1>6, <1>7, <1>11, CallLists
<1>14. Listed(netlist, hs, devices')
  BY <1>2, <1>13
<1>15. cost \in Nat /\ cost <= MaxDevices
  BY <1>1 DEF Walk
<1>16. Walk(netlist', frames', devices', cost', begin)
  BY <1>2, <1>8, <1>9, <1>12, <1>14, <1>15 DEF Walk
<1> QED
  BY <1>2, <1>10, <1>16 DEF Walking

LEMMA ReturnKeepsWalk ==
  ASSUME TypeOK, Return, Walking
  PROVE  /\ pc' = "done" => AllListed(netlist', devices', cost')
         /\ pc' # "done" => frames' # <<>> /\ Walking'
<1> DEFINE m == Len(frames)
           gs == Front(frames)
<1>1. PICK start : Walk(netlist, frames, devices, cost, start)
  BY DEF Walking
<1>2. /\ frames # <<>> /\ (~HasElement \/ Full) /\ pc = "expand"
      /\ frames' = gs /\ netlist' = netlist /\ cost' = cost /\ devices' = devices
      /\ pc' = IF m = 1 THEN "done" ELSE pc
  BY DEF Return, Expanding
<1>3. /\ m \in DOMAIN frames /\ m \in Nat
      /\ frames[m].at > Len(BodyOf(netlist, frames[m].scope)) <=> ~HasElement
  BY <1>2, InnerIs
<1>4. IsSeq(frames) /\ netlist \in Netlists /\ DOMAIN frames = 1 .. m
  BY Sequence DEF TypeOK
<1>5. IsSeq(gs) /\ Len(gs) = m - 1 /\ \A j \in DOMAIN gs : gs[j] = frames[j]
  BY <1>2, <1>4, Shortened
<1>6. FramesOf(netlist, gs)
  BY <1>2, ReturnedOK, FramesAre
<1>7. frames[m].at > Len(BodyOf(netlist, frames[m].scope)) \/ Len(devices) >= MaxDevices
  BY <1>2, <1>3 DEF Return, Full
<1>8. m = Len(frames)
  OBVIOUS
<1> HIDE DEF gs, m
<1>9. CASE m = 1
  <2>1. /\ Len(devices) = cost /\ Whole(netlist, devices, frames[1].path, frames[1].scope)
        /\ \A k \in DOMAIN devices : CallIn(netlist, devices[k].element) =>
             Whole(netlist, devices, Below(devices[k]), devices[k].element.model)
    BY <1>1, <1>4, <1>7, <1>8, <1>9, LastReturn
  <2>2. frames[1].scope = Top /\ IsSeq(frames[1].path) /\ Len(frames[1].path) = 1 - 1
    BY <1>3, <1>9 DEF TypeOK
  <2>3. frames[1].path = <<>>
    <3>1. \A s : IsSeq(s) /\ Len(s) = 1 - 1 => s = <<>>
      BY DEF IsSeq
    <3> QED
      BY <2>2, <3>1
  <2> QED
    BY <1>2, <1>9, <2>1, <2>2, <2>3 DEF AllListed
<1>10. CASE m # 1
  <2> DEFINE begin == [j \in DOMAIN gs |-> start[j]]
  <2>1. begin = [j \in DOMAIN gs |-> start[j]]
    OBVIOUS
  <2> HIDE DEF begin
  <2>2. Counted(netlist, gs, Len(devices), cost, begin) /\ Listed(netlist, gs, devices)
    BY <1>1, <1>3, <1>4, <1>5, <1>7, <1>8, <1>10, <2>1, ReturnWalks
  <2>3. Walk(netlist, gs, devices, cost, begin)
    BY <1>1, <1>6, <2>2 DEF Walk
  <2>4. gs # <<>>
    <3>1. m - 1 # 0
      BY <1>3, <1>4, <1>10
    <3>2. Len(<<>>) = 0
      OBVIOUS
    <3> QED
      BY <1>5, <3>1, <3>2
  <2> QED
    BY <1>2, <1>10, <2>3, <2>4 DEF Walking
<1> QED
  BY <1>9, <1>10

LEMMA WalkKept ==
  ASSUME WalkInv, UNCHANGED vars
  PROVE  WalkInv'
BY DEF WalkInv, Walking, vars

LEMMA NextWalkInv ==
  ASSUME TypeOK, WalkInv, Next
  PROVE  WalkInv'
<1>1. CASE Estimate
  <2>1. /\ cost' = Costs(netlist)[<<Top, {}>>] /\ netlist' = netlist /\ pc' = "expand"
        /\ frames' = <<Frame(Top, <<>>, <<>>)>> /\ devices' = <<>>
    BY <1>1, CostIs DEF Estimate, WalkInv
  <2> DEFINE f == Frame(Top, <<>>, <<>>)
  <2>2. f.scope = Top /\ f.at = 1
    BY DEF Frame
  <2> HIDE DEF f
  <2>3. IsSeq(<<f>>) /\ Len(<<f>>) = 1 /\ <<f>>[1] = f /\ <<f>> # <<>>
    <3>1. <<f>> \in Seq({f})
      OBVIOUS
    <3>2. IsSeq(<<f>>)
      BY <3>1, Own
    <3> QED
      BY <3>2
  <2>4. cost' <= MaxDevices => \E start : Walk(netlist, <<f>>, <<>>, Costs(netlist)[<<Top, {}>>], start)
    <3>1. \A fs : IsSeq(fs) /\ Len(fs) = 1 /\ fs[1].scope = Top /\ fs[1].at = 1 /\ Costs(netlist)[<<Top, {}>>] <= MaxDevices =>
            Walk(netlist, fs, <<>>, Costs(netlist)[<<Top, {}>>], [j \in 1 .. 1 |-> 0])
      BY WalkBegins DEF TypeOK
    <3>2. cost' <= MaxDevices => Walk(netlist, <<f>>, <<>>, Costs(netlist)[<<Top, {}>>], [j \in 1 .. 1 |-> 0])
      BY <2>1, <2>2, <2>3, <3>1
    <3> QED
      BY <3>2
  <2>5. cost' <= MaxDevices => Walking'
    <3>1. frames' = <<f>>
      BY <2>1 DEF f
    <3> QED
      BY <2>1, <2>4, <3>1 DEF Walking
  <2>6. frames' # <<>>
    BY <2>1, <2>3 DEF f
  <2> QED
    BY <2>1, <2>5, <2>6 DEF WalkInv
<1>2. CASE TakeLeaf
  <2>1. pc = "expand" /\ pc' = pc /\ cost' = cost /\ netlist' = netlist
    BY <1>2 DEF TakeLeaf, Expanding
  <2>2. cost <= MaxDevices => frames' # <<>> /\ Walking'
    BY <1>2, <2>1, LeafKeepsWalk DEF WalkInv
  <2> QED
    BY <2>1, <2>2 DEF WalkInv
<1>3. CASE TakeCall
  <2>1. pc = "expand" /\ pc' = pc /\ cost' = cost /\ netlist' = netlist
    BY <1>3 DEF TakeCall, Expanding
  <2>2. cost <= MaxDevices => frames' # <<>> /\ Walking'
    BY <1>3, <2>1, CallKeepsWalk DEF WalkInv
  <2> QED
    BY <2>1, <2>2 DEF WalkInv
<1>4. CASE Return
  <2>1. pc = "expand" /\ pc' \in {"expand", "done"} /\ cost' = cost /\ netlist' = netlist
    BY <1>4 DEF Return, Expanding
  <2>2. cost <= MaxDevices => /\ pc' = "done" => AllListed(netlist', devices', cost')
                              /\ pc' # "done" => frames' # <<>> /\ Walking'
    BY <1>4, <2>1, ReturnKeepsWalk DEF WalkInv
  <2> QED
    BY <2>1, <2>2 DEF WalkInv
<1> QED
  BY <1>1, <1>2, <1>3, <1>4 DEF Next

LEMMA AuditWalkInv == AuditInv /\ WalkInv /\ [AuditNext]_auditVars => WalkInv'
<1> SUFFICES ASSUME AuditInv, WalkInv, [AuditNext]_auditVars PROVE WalkInv'
  OBVIOUS
<1>1. CASE Audit
  BY <1>1 DEF Audit, WalkInv
<1>2. CASE Next
  <2>1. pc # "audited"
    BY <1>2 DEF Next, Estimate, TakeLeaf, TakeCall, Return, Expanding
  <2>2. TypeOK
    BY <2>1 DEF AuditInv, IInv
  <2> QED
    BY <1>2, <2>2, NextWalkInv
<1>3. CASE UNCHANGED auditVars
  BY <1>3, WalkKept DEF auditVars, vars
<1> QED
  BY <1>1, <1>2, <1>3 DEF AuditNext

\* What is listed in full is complete.
LEMMA ListedIsComplete ==
  ASSUME DevicesInv, AllListed(netlist, devices, cost)
  PROVE  /\ Len(devices) = cost
         /\ \A e \in ToSet(netlist.top) : \E d \in ToSet(devices) : d.path = <<>> /\ d.element = e
         /\ \A c \in ToSet(devices) : IsDefinedCall(c.element) =>
              \A e \in ToSet(Body(c.element.model)) :
                \E d \in ToSet(devices) : d.path = Append(c.path, c.element.name) /\ d.element = e
<1>1. IsSeq(devices) /\ \A i \in DOMAIN devices : devices[i] \in ToSet(devices)
  BY Member DEF DevicesInv, DevicesOK
<1>2. \A path, e : DeviceFor(devices, path, e) => \E d \in ToSet(devices) : d.path = path /\ d.element = e
  BY <1>1 DEF DeviceFor
<1>3. Len(devices) = cost /\ Whole(netlist, devices, <<>>, Top)
  BY DEF AllListed
<1>4. ASSUME NEW e \in ToSet(netlist.top)
      PROVE  \E d \in ToSet(devices) : d.path = <<>> /\ d.element = e
  BY <1>2, <1>3 DEF Whole, BodyOf
<1>5. ASSUME NEW c \in ToSet(devices), IsDefinedCall(c.element), NEW e \in ToSet(Body(c.element.model))
      PROVE  \E d \in ToSet(devices) : d.path = Append(c.path, c.element.name) /\ d.element = e
  <2>1. PICK k \in DOMAIN devices : devices[k] = c
    BY DEF ToSet
  <2>2. Whole(netlist, devices, Append(c.path, c.element.name), c.element.model)
    BY <1>5, <2>1, OfNetlist DEF AllListed, Below
  <2>3. e \in ToSet(BodyOf(netlist, c.element.model))
    BY <1>5, OfNetlist
  <2>4. DeviceFor(devices, Append(c.path, c.element.name), e)
    BY <2>2, <2>3, Zenon DEF Whole
  <2>5. \A path : DeviceFor(devices, path, e) => \E d \in ToSet(devices) : d.path = path /\ d.element = e
    BY <1>2
  <2> DEFINE path == Append(c.path, c.element.name)
  <2>6. DeviceFor(devices, path, e)
    BY <2>4
  <2> HIDE DEF path
  <2>7. \E d \in ToSet(devices) : d.path = path /\ d.element = e
    BY <2>5, <2>6
  <2> QED
    BY <2>7 DEF path
<1> QED
  BY <1>3, <1>4, <1>5

\* circuit_graph.py:206 and 351: the cost that is computed from the definitions
\* and the walk that lists the instances agree about recursion, undefined calls
\* and the limit, so that what is within the limit is listed in full.
THEOREM NothingLeftOut == AuditSpec => []CompleteOrDenied
<1>1. AuditInit => WalkInv
  BY DEF AuditInit, Init, WalkInv
<1>2. AuditInv /\ WalkInv => CompleteOrDenied
  <2> SUFFICES ASSUME AuditInv, WalkInv, pc = "done", cost <= MaxDevices
               PROVE  CompleteOrDenied
    BY DEF CompleteOrDenied
  <2>1. DevicesInv /\ AllListed(netlist, devices, cost)
    BY DEF AuditInv, WalkInv
  <2> QED
    BY <2>1, ListedIsComplete DEF CompleteOrDenied
<1> QED
  BY InitAuditInv, NextAuditInv, AuditWalkInv, <1>1, <1>2, PTL DEF AuditSpec

-----------------------------------------------------------------------------
(* What it means that the audit allows. *)

EnforcedBy(policy, codes) == \A code \in codes : SeverityFor(policy, code, "deny") # "info"

ModelledCodes ==
  {"GRAPH002", "GRAPH003", "GRAPH004", "GRAPH006", "GRAPH007", "LIM001", "PORT001", "PORT002",
   "NET001", "NET002", "SRC001", "RAIL001", "RAIL002", "SOLVE001", "SOLVE002", "SOLVE003"}

\* What is neither questioned nor denied has not been found, unless the policy
\* makes a remark of it.
LEMMA AllowedIsSilent ==
  ASSUME NEW others \in OtherFindings, NEW policy \in Policies,
         Decision(RunChecks(policy, others)) = "allow",
         NEW g \in AllFound(others), g.code \in ModelledCodes, SeverityFor(policy, g.code, "deny") # "info"
  PROVE  FALSE
<1> DEFINE kept == RunChecks(policy, others)
<1>1. PICK f \in kept : Id(f) = Id(g)
  BY RunChecksKeeps
<1>2. PICK h \in AllFound(others) : h.code = f.code /\ f.severity = SeverityFor(policy, h.code, h.severity)
  BY RunChecksKeeps
<1>3. h.code = g.code
  BY <1>1, <1>2 DEF Id
<1>4. h \notin others
  <2>1. \A x \in others : x.code \notin ModelledCodes
    BY OtherAssumption DEF ModelledCodes
  <2> QED
    BY <1>3, <2>1
<1>5. h.severity \in {"review", "deny"}
  BY <1>4, FoundType
<1>6. f.severity \in {"review", "deny"}
  <2>1. CASE g.code \in DOMAIN policy
    <3>1. policy[g.code] \in {"info", "review", "deny"}
      BY <2>1, PolicyAssumption
    <3> QED
      BY <1>2, <1>3, <2>1, <3>1 DEF SeverityFor
  <2>2. CASE g.code \notin DOMAIN policy
    BY <1>2, <1>3, <1>5, <2>2 DEF SeverityFor
  <2> QED
    BY <2>1, <2>2
<1>7. Decision(kept) = "allow"
  OBVIOUS
<1> HIDE DEF kept
<1> QED
  BY <1>1, <1>6, <1>7 DEF Decision

Allows(policy, others) == Decision(RunChecks(policy, others)) = "allow"

\* No finding of a code that the policy enforces.
LEMMA NothingFound ==
  ASSUME NEW others \in OtherFindings, NEW policy \in Policies, Allows(policy, others),
         NEW code \in ModelledCodes, NEW codes, code \in codes, EnforcedBy(policy, codes)
  PROVE  \A g \in AllFound(others) : g.code # code
BY AllowedIsSilent DEF Allows, EnforcedBy

-----------------------------------------------------------------------------
(* The scopes that calls lead to. *)

CallsIn(n, s) == {e.model : e \in {b \in ToSet(BodyOf(n, s)) : CallIn(n, b)}}
Hops(n) ==
  CHOOSE f : f = [hops \in Nat |->
                    IF hops = 0 THEN {Top} ELSE f[hops - 1] \union UNION {CallsIn(n, s) : s \in f[hops - 1]}]
ReachableOf(n) == Hops(n)[Cardinality(DOMAIN n.defs)]

LEMMA ReachableIs == Reachable = ReachableOf(netlist)
BY Zenon DEF Reachable, ReachableOf, Hops, CallsIn, Calls, Defined, CallIn, IsDefinedCall, Body, BodyOf

\* What is computed step by step.
StepsIn(V, base, step, f) ==
  f \in [Nat -> V] /\ f = [hops \in Nat |-> IF hops = 0 THEN base ELSE step[f[hops - 1]]]

LEMMA Stepwise ==
  ASSUME NEW V, NEW base, NEW step, base \in V, step \in [V -> V]
  PROVE  \E f : StepsIn(V, base, step, f)
<1>1. PICK f \in [Nat -> V] : f[0] = base /\ \A k \in Nat : f[k + 1] = step[f[k]]
  BY NatRecursion
<1>2. ASSUME NEW k \in Nat, k # 0
      PROVE  f[k] = step[f[k - 1]]
  <2>1. k - 1 \in Nat /\ (k - 1) + 1 = k
    BY <1>2
  <2> QED
    BY <1>1, <2>1
<1>3. f = [hops \in Nat |-> IF hops = 0 THEN base ELSE step[f[hops - 1]]]
  BY <1>1, <1>2
<1> QED
  BY <1>3 DEF StepsIn

LEMMA ReachableType ==
  ASSUME NEW n \in Netlists
  PROVE  ReachableOf(n) \subseteq ScopesOf(n) /\ Top \in ReachableOf(n)
<1> DEFINE V == SUBSET ScopesOf(n)
           On(s) == s \union UNION {CallsIn(n, x) : x \in s}
           step == [s \in V |-> On(s)]
           h == Hops(n)
           base == {Top}
<1>1. \A s \in V : On(s) \in V /\ s \subseteq On(s)
  BY DEF CallsIn, CallIn, ScopesOf
<1>2. {Top} \in V
  BY DEF ScopesOf
<1>3. step \in [V -> V] /\ base \in V
  BY <1>1, <1>2
<1> HIDE DEF V, On
<1>4. PICK f : StepsIn(V, base, step, f)
  <2> HIDE DEF step, base, h
  <2>1. \A W, x, s : x \in W /\ s \in [W -> W] => \E g : StepsIn(W, x, s, g)
    BY Stepwise
  <2> QED
    BY <1>3, <2>1, Zenon
<1>5. f \in [Nat -> V] /\ f = [hops \in Nat |-> IF hops = 0 THEN base ELSE step[f[hops - 1]]]
  BY <1>4 DEF StepsIn
<1>6. ASSUME NEW k \in Nat, k # 0
      PROVE  f[k] = On(f[k - 1])
  <2>1. f[k - 1] \in V
    BY <1>6, <1>5
  <2>2. f[k] = step[f[k - 1]]
    <3> HIDE DEF step
    <3> QED
      BY <1>5, <1>6
  <2> QED
    BY <2>1, <2>2
<1>7. f[0] = {Top}
  <2> HIDE DEF step
  <2> QED
    BY <1>5
<1>8. f = [hops \in Nat |-> IF hops = 0 THEN {Top} ELSE On(f[hops - 1])]
  BY <1>5, <1>6, <1>7
<1>9. h = [hops \in Nat |-> IF hops = 0 THEN {Top} ELSE On(h[hops - 1])]
  BY <1>8, Zenon DEF Hops, On
<1> HIDE DEF h
<1> DEFINE P == {k \in Nat : h[k] \in V /\ Top \in h[k]}
<1>10. 0 \in P
  BY <1>2, <1>9
<1>11. ASSUME NEW k \in P
      PROVE  k + 1 \in P
  <2>1. k + 1 \in Nat /\ k + 1 # 0 /\ (k + 1) - 1 = k
    OBVIOUS
  <2>2. h[k + 1] = On(h[k])
    BY <1>9, <2>1
  <2> QED
    BY <1>1, <2>1, <2>2
<1>12. P = Nat
  <2>1. P \in SUBSET Nat
    OBVIOUS
  <2> HIDE DEF P
  <2> QED
    BY <1>10, <1>11, <2>1, SetOfAllNaturals
<1>13. Cardinality(DOMAIN n.defs) \in Nat
  BY NetlistAssumption, FS_CardinalityType
<1>14. h[Cardinality(DOMAIN n.defs)] \in V /\ Top \in h[Cardinality(DOMAIN n.defs)]
  BY <1>12, <1>13
<1> QED
  BY <1>14 DEF ReachableOf, h, V

-----------------------------------------------------------------------------
(* The net table. *)

\* A net of a scope has a terminal, and finitely many.
LEMMA TerminalsCount ==
  ASSUME netlist \in Netlists, NEW s \in Scopes, NEW n \in NetsOf(s)
  PROVE  Cardinality(Endpoints(s, n)) \in Nat /\ Cardinality(Endpoints(s, n)) # 0
<1> DEFINE body == Body(s)
           At(i) == {<<i, j>> : j \in {k \in DOMAIN body[i].nodes : body[i].nodes[k] = n}}
           sets == {At(i) : i \in DOMAIN body}
           f == [i \in DOMAIN body |-> At(i)]
<1>1. Endpoints(s, n) = UNION sets
  BY DEF Endpoints
<1>2. IsSeq(body) /\ \A e \in ToSet(body) : IsSeq(e.nodes)
  BY OfNetlist, ScopesType
<1>3. IsFiniteSet(DOMAIN body) /\ \A i \in DOMAIN body : body[i] \in ToSet(body) /\ IsSeq(body[i].nodes)
  BY <1>2, FiniteRange, Member
<1>4. \A i \in DOMAIN body : IsFiniteSet(At(i))
  <2>1. ASSUME NEW i \in DOMAIN body
        PROVE  IsFiniteSet(At(i))
    <3> DEFINE D == {k \in DOMAIN body[i].nodes : body[i].nodes[k] = n}
               g == [j \in D |-> <<i, j>>]
    <3>1. IsFiniteSet(DOMAIN body[i].nodes)
      BY <1>3, FiniteRange
    <3>2. IsFiniteSet(D)
      BY <3>1, FS_Subset
    <3>3. g \in Surjection(D, At(i))
      BY DEF Surjection
    <3> HIDE DEF D, g, At
    <3> QED
      BY <3>2, <3>3, FS_Surjection
  <2> QED
    BY <2>1
<1>5. f \in Surjection(DOMAIN body, sets)
  BY DEF Surjection
<1>6. PICK i \in DOMAIN body : \E j \in DOMAIN body[i].nodes : body[i].nodes[j] = n
  <2>1. PICK e \in ToSet(body) : n \in ToSet(e.nodes)
    BY DEF NetsOf
  <2> QED
    BY <2>1 DEF ToSet
<1>7. UNION sets # {}
  <2>1. PICK j \in DOMAIN body[i].nodes : body[i].nodes[j] = n
    BY <1>6
  <2>2. <<i, j>> \in At(i) /\ At(i) \in sets
    BY <2>1
  <2> HIDE DEF At, sets
  <2> QED
    BY <2>2
<1>8. \A t \in sets : IsFiniteSet(t)
  BY <1>4
<1> HIDE DEF sets, f, At, body
<1>9. IsFiniteSet(sets)
  BY <1>3, <1>5, FS_Surjection
<1>10. IsFiniteSet(UNION sets)
  BY <1>8, <1>9, FS_UNION
<1>11. Cardinality(UNION sets) \in Nat /\ (Cardinality(UNION sets) = 0 <=> UNION sets = {})
  BY <1>10, FS_CardinalityType, FS_EmptySet
<1> QED
  BY <1>1, <1>7, <1>11

\* No rule has found anything of the code.
Silent(others, code) == \A g \in AllFound(others) : g.code # code

LEMMA WithinLimit ==
  ASSUME NEW others, Silent(others, "LIM001")
  PROVE  cost \in 0 .. MaxDevices
<1> SUFFICES ASSUME cost \notin 0 .. MaxDevices PROVE FALSE
  OBVIOUS
<1>1. OfBundle("LIM001") \in GraphFindings
  BY DEF GraphFindings
<1> QED
  BY <1>1, OfFacts DEF Silent, AllFound

LEMMA AllCalled ==
  ASSUME NEW others, Silent(others, "GRAPH006")
  PROVE  Defined \subseteq Reachable
<1> SUFFICES ASSUME NEW s \in Defined \ Reachable PROVE FALSE
  OBVIOUS
<1>1. OfCard("GRAPH006", <<s, 0>>) \in GraphFindings
  BY DEF GraphFindings
<1> QED
  BY <1>1, OfFacts DEF Silent, AllFound

LEMMA CallsDefined ==
  ASSUME DevicesInv, NEW others, Silent(others, "GRAPH003")
  PROVE  \A d \in ToSet(devices) : IsCall(d.element) => IsDefinedCall(d.element)
<1>1. "GRAPH003" \notin Issues
  <2> SUFFICES ASSUME "GRAPH003" \in Issues PROVE FALSE
    OBVIOUS
  <2>1. OfBundle("GRAPH003") \in GraphFindings
    BY DEF GraphFindings
  <2> QED
    BY <2>1, OfFacts DEF Silent, AllFound
<1>2. ASSUME NEW d \in ToSet(devices), IsCall(d.element)
      PROVE  IsDefinedCall(d.element)
  <2>1. PICK s \in Scopes : d.element \in ToSet(Body(s))
    BY DEF DevicesInv, ToSet
  <2>2. d.element.model \in Defined
    <3> DEFINE e == d.element
    <3>1. e \in ToSet(Body(s)) /\ IsCall(e)
      BY <1>2, <2>1
    <3> HIDE DEF e
    <3>2. e.model \in Defined
      BY <1>1, <3>1 DEF Issues
    <3> QED
      BY <3>2 DEF e
  <2> QED
    BY <1>2, <2>2 DEF IsDefinedCall
<1> QED
  BY <1>2

LEMMA NodesGrounded ==
  ASSUME DevicesOK, NEW others, Silent(others, "SOLVE001"), Silent(others, "SOLVE002")
  PROVE  AllNodes \subseteq Reached(GroundNodes, Tied)
<1> SUFFICES ASSUME NEW n \in AllNodes, n \notin Reached(GroundNodes, Tied) PROVE FALSE
  OBVIOUS
<1>1. PICK g \in Groups : n \in g /\ \A m \in g : ~IsGround(m)
  BY UnreachedIsland
<1>2. devices # <<>>
  <2>1. devices = <<>> => ToSet(devices) = {}
    BY DEF ToSet
  <2> QED
    BY <2>1 DEF AllNodes
<1>3. HasGround
  <2> SUFFICES ASSUME ~HasGround PROVE FALSE
    OBVIOUS
  <2>1. OfBundle("SOLVE001") \in SolvabilityFindings
    BY <1>2 DEF SolvabilityFindings
  <2> QED
    BY <2>1, OfFacts DEF Silent, AllFound
<1>4. g \in Islands
  BY <1>1, <1>3 DEF Islands
<1>5. OfNets("SOLVE002", g) \in SolvabilityFindings
  BY <1>2, <1>3, <1>4 DEF SolvabilityFindings
<1> QED
  BY <1>5, OfFacts DEF Silent, AllFound

\* As many sources as edges of a forest on their nodes.
Fits(groups) ==
  /\ IsFiniteSet(Sources)
  /\ AreComponents(groups, {Ends(i) : i \in Sources})
  /\ Cardinality(Sources) = Cardinality(SourceNodes) - Cardinality(groups)
TreesFit == \E groups : Fits(groups)

LEMMA SourcesFit ==
  ASSUME DevicesOK, NEW others, Silent(others, "SOLVE001"), Silent(others, "SOLVE003")
  PROVE  TreesFit
<1> DEFINE gs == EndsMerge(Sources)[Sources]
<1>1. /\ IsFiniteSet(Sources) /\ IsFiniteSet(gs) /\ IsFiniteSet(SourceNodes)
      /\ Cardinality(SourceLoops) = Cardinality(Sources) - Cardinality(SourceNodes) + Cardinality(gs)
  BY LoopsCounted
<1>2. AreComponents(gs, {Ends(i) : i \in Sources})
  BY <1>1, EndsMerged
<1>3. SourceLoops = {}
  <2>1. CASE devices = <<>>
    <3>1. Len(devices) = 0
      BY <2>1
    <3> QED
      BY <3>1, FoundIs
  <2>2. CASE devices # <<>>
    <3>1. HasGround
      <4> SUFFICES ASSUME ~HasGround PROVE FALSE
        OBVIOUS
      <4>1. OfBundle("SOLVE001") \in SolvabilityFindings
        BY <2>2 DEF SolvabilityFindings
      <4> QED
        BY <4>1, OfFacts DEF Silent, AllFound
    <3> SUFFICES ASSUME NEW loop \in SourceLoops PROVE FALSE
      OBVIOUS
    <3> DEFINE f == Finding("SOLVE003", None, {}, Cardinality(loop), loop)
    <3>2. f \in SolvabilityFindings
      BY <2>2, <3>1 DEF SolvabilityFindings
    <3>3. f.code = "SOLVE003"
      BY FindingType
    <3> HIDE DEF f
    <3> QED
      BY <3>2, <3>3 DEF Silent, AllFound
  <2> QED
    BY <2>1, <2>2
<1> HIDE DEF gs
<1>4. Cardinality(Sources) = Cardinality(SourceNodes) - Cardinality(gs)
  <2>1. Cardinality(SourceLoops) = 0
    BY <1>3, FS_EmptySet
  <2>2. Cardinality(Sources) \in Nat /\ Cardinality(SourceNodes) \in Nat /\ Cardinality(gs) \in Nat
    BY <1>1, FS_CardinalityType
  <2> QED
    BY <1>1, <2>1, <2>2
<1> QED
  BY <1>1, <1>2, <1>4 DEF Fits, TreesFit

LEMMA RailsApart ==
  ASSUME DevicesOK, NEW others, Silent(others, "RAIL001"), Silent(others, "RAIL002")
  PROVE  \A g \in Shorts : ~Meets(g, GroundNames)
<1> SUFFICES ASSUME NEW g \in Shorts, Meets(g, GroundNames) PROVE FALSE
  OBVIOUS
<1>1. g \in TieGroups /\ HoldsBoth(g)
  BY ShortedAre DEF Shorted
<1>2. CASE \E i \in Direct : Ends(i) \subseteq g
  <2>1. PICK i \in Direct : TRUE
    BY <1>2
  <2>2. OfCard("RAIL001", devices[i].card) \in RailFindings
    BY <2>1 DEF RailFindings
  <2> QED
    BY <2>2, OfFacts DEF Silent, AllFound
<1>3. CASE \A i \in Direct : ~(Ends(i) \subseteq g)
  <2>1. OfNets("RAIL002", g) \in RailFindings
    BY <1>1, <1>3 DEF RailFindings, HoldsBoth
  <2> QED
    BY <2>1, OfFacts DEF Silent, AllFound
<1> QED
  BY <1>2, <1>3

LEMMA NetsEnd ==
  ASSUME netlist \in Netlists, NEW others, Silent(others, "NET001"),
         NEW s \in Scopes, NEW n \in InternalNets(s)
  PROVE  Cardinality(Endpoints(s, n)) > 1
<1> DEFINE k == Cardinality(Endpoints(s, n))
<1>1. n \in NetsOf(s)
  BY DEF InternalNets
<1>2. k \in Nat /\ k # 0
  BY <1>1, TerminalsCount
<1>3. k # 1
  <2> SUFFICES ASSUME k = 1 PROVE FALSE
    OBVIOUS
  <2>1. OfNets("NET001", {<<s, n>>}) \in ConnectivityFindings
    BY DEF ConnectivityFindings
  <2> QED
    BY <2>1, OfFacts DEF Silent, AllFound
<1> HIDE DEF k
<1>4. k > 1
  BY <1>2, <1>3
<1> QED
  BY <1>4 DEF k

CallsAreDefined == \A d \in ToSet(devices) : IsCall(d.element) => IsDefinedCall(d.element)
NodesAreGrounded == AllNodes \subseteq Reached(GroundNodes, Tied)
RailsAreApart == \A g \in Shorts : ~Meets(g, GroundNames)
NetsHaveEnds == \A s \in Scopes : \A n \in InternalNets(s) : Cardinality(Endpoints(s, n)) > 1

\* What the audit promises where it allows under a policy.
Promised(policy) ==
  /\ EnforcedBy(policy, {"LIM001"}) => Len(devices) = cost
  /\ EnforcedBy(policy, {"GRAPH006"}) => ReachableOf(netlist) = ScopesOf(netlist)
  /\ EnforcedBy(policy, {"GRAPH003"}) => CallsAreDefined
  /\ EnforcedBy(policy, {"SOLVE001", "SOLVE002"}) => NodesAreGrounded
  /\ EnforcedBy(policy, {"SOLVE001", "SOLVE003"}) => TreesFit
  /\ EnforcedBy(policy, {"RAIL001", "RAIL002"}) => RailsAreApart
  /\ EnforcedBy(policy, {"NET001"}) => NetsHaveEnds

LEMMA SilentWhereAllowed ==
  ASSUME NEW others \in OtherFindings, NEW policy \in Policies, Allows(policy, others)
  PROVE  \A codes \in SUBSET ModelledCodes : EnforcedBy(policy, codes) => \A code \in codes : Silent(others, code)
BY NothingFound DEF Silent

\* An audit that allows keeps its promise.
LEMMA PromiseMade ==
  ASSUME pc = "done", DevicesInv, WalkInv, NEW others \in OtherFindings, NEW policy \in Policies,
         Allows(policy, others)
  PROVE  Promised(policy)
<1>1. \A codes \in SUBSET ModelledCodes : EnforcedBy(policy, codes) => \A code \in codes : Silent(others, code)
  BY SilentWhereAllowed
<1>2. DevicesOK /\ netlist \in Netlists
  BY DEF DevicesInv
<1>3. ASSUME EnforcedBy(policy, {"LIM001"})
      PROVE  Len(devices) = cost
  <2>1. Silent(others, "LIM001")
    BY <1>1, <1>3 DEF ModelledCodes
  <2>2. cost <= MaxDevices
    BY <2>1, WithinLimit
  <2> QED
    BY <2>2 DEF WalkInv, AllListed
<1>4. ASSUME EnforcedBy(policy, {"GRAPH006"})
      PROVE  ReachableOf(netlist) = ScopesOf(netlist)
  <2>1. Silent(others, "GRAPH006")
    BY <1>1, <1>4 DEF ModelledCodes
  <2>2. Defined \subseteq ReachableOf(netlist)
    BY <2>1, AllCalled, ReachableIs
  <2>3. ReachableOf(netlist) \subseteq ScopesOf(netlist) /\ Top \in ReachableOf(netlist)
    BY <1>2, ReachableType
  <2> QED
    BY <2>2, <2>3 DEF ScopesOf, Defined
<1>5. ASSUME EnforcedBy(policy, {"GRAPH003"})
      PROVE  CallsAreDefined
  <2>1. Silent(others, "GRAPH003")
    BY <1>1, <1>5 DEF ModelledCodes
  <2> QED
    BY <2>1, CallsDefined DEF CallsAreDefined
<1>6. ASSUME EnforcedBy(policy, {"SOLVE001", "SOLVE002"})
      PROVE  NodesAreGrounded
  <2>1. Silent(others, "SOLVE001") /\ Silent(others, "SOLVE002")
    BY <1>1, <1>6 DEF ModelledCodes
  <2> QED
    BY <1>2, <2>1, NodesGrounded DEF NodesAreGrounded
<1>7. ASSUME EnforcedBy(policy, {"SOLVE001", "SOLVE003"})
      PROVE  TreesFit
  <2>1. Silent(others, "SOLVE001") /\ Silent(others, "SOLVE003")
    BY <1>1, <1>7 DEF ModelledCodes
  <2> QED
    BY <1>2, <2>1, SourcesFit
<1>8. ASSUME EnforcedBy(policy, {"RAIL001", "RAIL002"})
      PROVE  RailsAreApart
  <2>1. Silent(others, "RAIL001") /\ Silent(others, "RAIL002")
    BY <1>1, <1>8 DEF ModelledCodes
  <2> QED
    BY <1>2, <2>1, RailsApart DEF RailsAreApart
<1>9. ASSUME EnforcedBy(policy, {"NET001"})
      PROVE  NetsHaveEnds
  <2>1. Silent(others, "NET001")
    BY <1>1, <1>9 DEF ModelledCodes
  <2> QED
    BY <1>2, <2>1, NetsEnd DEF NetsHaveEnds
<1> QED
  BY <1>3, <1>4, <1>5, <1>6, <1>7, <1>8, <1>9 DEF Promised

\* The promise is about the netlist and its devices only.
LEMMA PromiseKept ==
  ASSUME UNCHANGED <<netlist, cost, devices>>, NEW policy, Promised(policy)
  PROVE  Promised(policy)'
<1>1. CallsAreDefined' <=> CallsAreDefined
  BY DEF CallsAreDefined, IsDefinedCall, Defined
<1>2. /\ \A i : Ends(i)' = Ends(i)
      /\ AllNodes' = AllNodes /\ GroundNodes' = GroundNodes /\ Sources' = Sources
  BY DEF Ends, AllNodes, GroundNodes, Sources
<1>3. Tied' = Tied
  BY DEF Tied
<1>4. NodesAreGrounded' <=> NodesAreGrounded
  BY <1>2, <1>3 DEF NodesAreGrounded
<1>5. {Ends(i)' : i \in Sources'} = {Ends(i) : i \in Sources} /\ SourceNodes' = SourceNodes
  BY <1>2 DEF SourceNodes
<1>6. TreesFit' <=> TreesFit
  BY <1>2, <1>5 DEF TreesFit, Fits
<1>7. RailsAreApart' <=> RailsAreApart
  <2>1. TieEdges' = TieEdges /\ RailNodes(PowerNets)' = RailNodes(PowerNets)
    BY <1>2 DEF TieEdges, IsTie, Value, Ends, RailNodes
  <2>2. Shorts' = Shorts
    BY <2>1 DEF Shorts
  <2> QED
    BY <2>2 DEF RailsAreApart
<1>8. NetsHaveEnds' <=> NetsHaveEnds
  <2>1. Scopes' = Scopes /\ \A s : Body(s)' = Body(s) /\ Ports(s)' = Ports(s)
    BY DEF Scopes, Body, Ports, Defined
  <2>2. \A s : NetsOf(s)' = NetsOf(s)
    BY <2>1 DEF NetsOf
  <2>3. \A s : InternalNets(s)' = InternalNets(s)
    BY <2>1, <2>2 DEF InternalNets
  <2>4. \A s, n : Endpoints(s, n)' = Endpoints(s, n)
    BY <2>1 DEF Endpoints
  <2> QED
    BY <2>1, <2>3, <2>4 DEF NetsHaveEnds
<1> QED
  BY <1>1, <1>4, <1>6, <1>7, <1>8 DEF Promised

AllowedInv == pc = "audited" /\ report.decision = "allow" => Promised(report.policy)

LEMMA NextAllowedInv == AuditInv /\ WalkInv /\ AllowedInv /\ [AuditNext]_auditVars => AllowedInv'
<1> SUFFICES ASSUME AuditInv, WalkInv, AllowedInv, [AuditNext]_auditVars PROVE AllowedInv'
  OBVIOUS
<1>1. CASE Audit
  <2>1. PICK others \in OtherFindings, policy \in Policies :
            LET findings == RunChecks(policy, others)
            IN  report' = [policy |-> policy, findings |-> findings, decision |-> Decision(findings)]
    BY <1>1 DEF Audit
  <2>2. report'.policy = policy /\ report'.decision = Decision(RunChecks(policy, others))
    BY <2>1
  <2>3. pc = "done" /\ UNCHANGED <<netlist, cost, devices>> /\ DevicesInv
    BY <1>1 DEF Audit, AuditInv
  <2>4. ASSUME report'.decision = "allow"
        PROVE  Promised(policy)'
    <3>1. Allows(policy, others)
      BY <2>2, <2>4 DEF Allows
    <3>2. Promised(policy)
      BY <2>3, <3>1, PromiseMade
    <3> QED
      BY <2>3, <3>2, PromiseKept
  <2>5. report'.decision = "allow" => Promised(report.policy)'
    <3>1. \A p : p = policy => (Promised(p)' <=> Promised(policy)')
      OBVIOUS
    <3> QED
      BY <2>2, <2>4, <3>1 DEF Promised
  <2> QED
    BY <2>5 DEF AllowedInv
<1>2. CASE Next /\ UNCHANGED report
  <2>1. pc' # "audited"
    BY <1>2 DEF Next, Estimate, TakeLeaf, TakeCall, Return, Expanding
  <2> QED
    BY <2>1 DEF AllowedInv
<1>3. CASE UNCHANGED auditVars
  <2>1. pc' = pc /\ report' = report /\ UNCHANGED <<netlist, cost, devices>>
    BY <1>3 DEF auditVars
  <2>2. Promised(report.policy) => Promised(report.policy)'
    <3> DEFINE policy == report.policy
    <3>1. report'.policy = policy
      BY <2>1
    <3> QED
      BY <2>1, PromiseKept DEF Promised
  <2> QED
    BY <2>1, <2>2 DEF AllowedInv
<1> QED
  BY <1>1, <1>2, <1>3 DEF AuditNext

LEMMA AllowedHolds ==
  ASSUME AllowedInv
  PROVE  AllowedIsSound
<1> SUFFICES ASSUME pc = "audited", report.decision = "allow" PROVE AllowedIsSound
  BY DEF AllowedIsSound, Audited
<1> DEFINE policy == report.policy
<1>1. Promised(policy)
  BY DEF AllowedInv
<1>2. \A codes : Enforced(codes) <=> EnforcedBy(policy, codes)
  BY DEF Enforced, EnforcedBy
<1> HIDE DEF policy
<1>3. Enforced({"LIM001"}) => Len(devices) = cost
  BY <1>1, <1>2 DEF Promised
<1>4. Enforced({"GRAPH006"}) => Reachable = Scopes
  <2>1. EnforcedBy(policy, {"GRAPH006"}) => ReachableOf(netlist) = ScopesOf(netlist)
    BY <1>1 DEF Promised
  <2> QED
    BY <1>2, <2>1, ReachableIs, OfNetlist
<1>5. Enforced({"GRAPH003"}) => \A d \in ToSet(devices) : IsCall(d.element) => IsDefinedCall(d.element)
  BY <1>1, <1>2 DEF Promised, CallsAreDefined
<1>6. Enforced({"SOLVE001", "SOLVE002"}) => AllNodes \subseteq Grounded(ConductingPairs)
  BY <1>1, <1>2, GroundedIs DEF Promised, NodesAreGrounded
<1>7. Enforced({"SOLVE001", "SOLVE003"}) =>
        Cardinality(Sources) = Cardinality(SourceNodes) - Cardinality(SourceTrees)
  <2> SUFFICES ASSUME TreesFit
               PROVE  Cardinality(Sources) = Cardinality(SourceNodes) - Cardinality(SourceTrees)
    BY <1>1, <1>2 DEF Promised
  <2> DEFINE gs == EndsMerge(Sources)[Sources]
  <2>1. PICK groups : Fits(groups)
    BY DEF TreesFit
  <2>2. AreComponents(gs, {Ends(i) : i \in Sources})
    BY <2>1, EndsMerged DEF Fits
  <2>3. SourceTrees = gs
    BY EndsFold, Zenon DEF SourceTrees, gs
  <2> HIDE DEF gs
  <2>4. groups \subseteq gs /\ gs \subseteq groups
    BY <2>1, <2>2, ComponentsUnique DEF Fits
  <2> QED
    BY <2>1, <2>3, <2>4 DEF Fits
<1>8. Enforced({"RAIL001", "RAIL002"}) => \A g \in Shorts : ~Meets(g, GroundNames)
  BY <1>1, <1>2 DEF Promised, RailsAreApart
<1>9. Enforced({"NET001"}) =>
        \A s \in Scopes : \A n \in InternalNets(s) : Cardinality(Endpoints(s, n)) > 1
  BY <1>1, <1>2 DEF Promised, NetsHaveEnds
<1> QED
  BY <1>3, <1>4, <1>5, <1>6, <1>7, <1>8, <1>9 DEF AllowedIsSound

\* docs/erc-regression-corpus.md and solvability.py: a netlist that is allowed is
\* listed in full, grounded, free of source cycles and of shorted rails, as far
\* as the policy enforces the rules, for any netlist, policy and other findings.
THEOREM AllowedSound == AuditSpec => []AllowedIsSound
<1>1. AuditInit => WalkInv /\ AllowedInv
  BY DEF AuditInit, Init, WalkInv, AllowedInv
<1> QED
  BY <1>1, InitAuditInv, NextAuditInv, AuditWalkInv, NextAllowedInv, AllowedHolds, PTL DEF AuditSpec

-----------------------------------------------------------------------------
(* The nets of the hierarchy that are one. *)

PortsOf(n, s) == n.defs[s].ports
ZeroNet == <<<<>>, Zero>>
NetOf(d, i) == <<d.path, d.element.nodes[i]>>
PortNet(n, c, i) == <<Below(c), PortsOf(n, c.element.model)[i]>>
Passing(n, c) == {i \in DOMAIN c.element.nodes : PortsOf(n, c.element.model)[i] # Zero}
ZeroEdge(d) == {<<d.path, Zero>>, ZeroNet}
PortEdge(n, c, i) == {NetOf(c, i), PortNet(n, c, i)}
CallDevices(n, ds) == {c \in ToSet(ds) : CallIn(n, c.element)}
NetsTied(n, ds) ==
  {ZeroEdge(d) : d \in ToSet(ds)}
    \union UNION {{PortEdge(n, c, i) : i \in Passing(n, c)} : c \in CallDevices(n, ds)}
OneNet(x, y, edges) == \A c : Closed(c, edges) => (x \in c <=> y \in c)
Text(net) == Spelled(net[1], net[2])
PinNets(ds) == UNION {{<<d.path, x>> : x \in ToSet(d.element.nodes)} : d \in ToSet(ds)}

\* Names and port counts are as the checks of the netlist demand.
WellFormed(n) ==
  /\ \A s \in ScopesOf(n) : \A i, j \in DOMAIN BodyOf(n, s) :
       BodyOf(n, s)[i].name = BodyOf(n, s)[j].name => i = j
  /\ \A s \in DOMAIN n.defs : \A i, j \in DOMAIN PortsOf(n, s) : PortsOf(n, s)[i] = PortsOf(n, s)[j] => i = j
  /\ \A s \in ScopesOf(n) : \A e \in ToSet(BodyOf(n, s)) :
       CallIn(n, e) => DOMAIN e.nodes = DOMAIN PortsOf(n, e.model)

LEMMA AppendDiffers ==
  ASSUME NEW s, IsSeq(s), NEW x
  PROVE  /\ Append(s, x) # s /\ Append(s, x) # <<>>
         /\ \A t, y : IsSeq(t) /\ Append(s, x) = Append(t, y) => s = t /\ x = y
<1> DEFINE a == Append(s, x)
<1>1. IsSeq(a) /\ Len(a) = Len(s) + 1 /\ a[Len(s) + 1] = x /\ \A i \in DOMAIN s : a[i] = s[i]
  BY Appended
<1>2. Len(s) \in Nat /\ DOMAIN s = 1 .. Len(s)
  BY Sequence
<1> HIDE DEF a
<1>3. a # s /\ a # <<>>
  <2>1. \A k \in Nat : k + 1 # 0 /\ k + 1 # k
    OBVIOUS
  <2>2. Len(a) # 0 /\ Len(a) # Len(s)
    BY <1>1, <1>2, <2>1, Zenon
  <2>3. Len(<<>>) = 0
    OBVIOUS
  <2> QED
    BY <2>2, <2>3, Zenon
<1>4. ASSUME NEW t, NEW y, IsSeq(t), a = Append(t, y)
      PROVE  s = t /\ x = y
  <2>1. Len(a) = Len(t) + 1 /\ a[Len(t) + 1] = y /\ \A i \in DOMAIN t : a[i] = t[i]
    BY <1>4, Appended
  <2>2. Len(t) \in Nat /\ DOMAIN t = 1 .. Len(t)
    BY <1>4, Sequence
  <2>3. Len(s) = Len(t)
    <3>1. \A k, l \in Nat : k + 1 = l + 1 => k = l
      OBVIOUS
    <3> QED
      BY <1>1, <1>2, <2>1, <2>2, <3>1, Zenon
  <2>4. \A i \in 1 .. Len(s) : s[i] = t[i]
    BY <1>1, <1>2, <2>1, <2>2, <2>3
  <2>5. s = [i \in 1 .. Len(s) |-> s[i]] /\ t = [i \in 1 .. Len(t) |-> t[i]]
    BY <1>4 DEF IsSeq
  <2>6. s = t
    BY <2>3, <2>4, <2>5
  <2> QED
    BY <1>1, <2>1, <2>3, <2>6
<1> QED
  BY <1>3, <1>4 DEF a

\* A sequence with as many members as places repeats none.
LEMMA NoRepeat ==
  ASSUME NEW s, DOMAIN s = 1 .. Len(s), Len(s) \in Nat, ~Repeats(s)
  PROVE  \A i, j \in DOMAIN s : s[i] = s[j] => i = j
<1>1. Cardinality(ToSet(s)) = Len(s)
  BY DEF Repeats
<1> SUFFICES ASSUME NEW i \in DOMAIN s, NEW j \in DOMAIN s, s[i] = s[j], i # j
             PROVE  FALSE
  OBVIOUS
<1> DEFINE D == DOMAIN s \ {i}
           T == {s[k] : k \in D}
<1>2. T = ToSet(s)
  <2>1. j \in D
    OBVIOUS
  <2>2. \A k \in DOMAIN s : s[k] \in T
    BY <2>1
  <2> QED
    BY <2>2 DEF ToSet
<1>3. IsFiniteSet(DOMAIN s) /\ Cardinality(DOMAIN s) = Len(s)
  <2>1. IsFiniteSet(1 .. Len(s)) /\ Cardinality(1 .. Len(s)) = IF 1 > Len(s) THEN 0 ELSE Len(s) - 1 + 1
    BY FS_Interval
  <2> QED
    BY <2>1
<1>4. IsFiniteSet(D) /\ Cardinality(D) = Len(s) - 1
  BY <1>3, FS_RemoveElement
<1> HIDE DEF D
<1>5. Cardinality(T) <= Cardinality(D) /\ IsFiniteSet(T)
  <2> DEFINE f == [k \in D |-> s[k]]
  <2>1. T = {f[k] : k \in D} /\ f \in [D -> T]
    OBVIOUS
  <2> HIDE DEF f, T
  <2>2. f \in Surjection(D, T)
    <3> USE DEF T
    <3>1. \A y \in T : \E k \in D : f[k] = y
      BY <2>1
    <3> QED
      BY <2>1, <3>1, Zenon DEF Surjection
  <2> QED
    BY <1>4, <2>2, FS_Surjection
<1>6. Len(s) - 1 >= Len(s)
  BY <1>1, <1>2, <1>4, <1>5
<1> QED
  BY <1>6

LEMMA IssuesForm ==
  ASSUME netlist \in Netlists, Issues \subseteq {"GRAPH003"}
  PROVE  WellFormed(netlist)
<1>1. /\ \A s \in Scopes : IsSeq(Body(s)) /\ \A e \in ToSet(Body(s)) : IsSeq(e.nodes)
      /\ \A s \in Defined : IsSeq(Ports(s)) /\ s # Top
  BY NetlistAssumption DEF Scopes, Defined, Body, Ports
<1>2. \A s \in Scopes : ~Repeats([i \in DOMAIN Body(s) |-> Body(s)[i].name])
  <2>1. "GRAPH002" \notin Issues
    OBVIOUS
  <2> QED
    BY <2>1 DEF Issues
<1>3. \A s \in Defined : ~Repeats(Ports(s))
  <2>1. "GRAPH007" \notin Issues
    OBVIOUS
  <2> QED
    BY <1>1, <2>1 DEF Issues, Scopes
<1>4. \A s \in Scopes : \A e \in ToSet(Body(s)) : IsDefinedCall(e) => Len(e.nodes) = Len(Ports(e.model))
  <2>1. "GRAPH004" \notin Issues
    OBVIOUS
  <2> QED
    BY <2>1 DEF Issues, IsDefinedCall
<1>5. ASSUME NEW s \in Scopes, NEW i \in DOMAIN Body(s), NEW j \in DOMAIN Body(s), Body(s)[i].name = Body(s)[j].name
      PROVE  i = j
  <2> DEFINE names == [k \in DOMAIN Body(s) |-> Body(s)[k].name]
  <2>1. DOMAIN Body(s) = 1 .. Len(Body(s)) /\ Len(Body(s)) \in Nat
    BY <1>1, Sequence
  <2>2. Len(names) = Len(Body(s)) /\ DOMAIN names = DOMAIN Body(s)
    <3>1. DOMAIN names = 1 .. Len(Body(s))
      BY <2>1
    <3> QED
      BY <2>1, <3>1
  <2>3. ~Repeats(names) /\ names[i] = names[j]
    BY <1>2, <1>5
  <2> HIDE DEF names
  <2> QED
    BY <2>1, <2>2, <2>3, NoRepeat
<1>6. ASSUME NEW s \in Defined, NEW i \in DOMAIN Ports(s), NEW j \in DOMAIN Ports(s), Ports(s)[i] = Ports(s)[j]
      PROVE  i = j
  <2>1. DOMAIN Ports(s) = 1 .. Len(Ports(s)) /\ Len(Ports(s)) \in Nat
    BY <1>1, Sequence
  <2> QED
    BY <1>3, <1>6, <2>1, NoRepeat
<1>7. ASSUME NEW s \in Scopes, NEW e \in ToSet(Body(s)), IsDefinedCall(e)
      PROVE  DOMAIN e.nodes = DOMAIN Ports(e.model)
  <2>1. IsSeq(e.nodes) /\ IsSeq(Ports(e.model))
    BY <1>1, <1>7 DEF IsDefinedCall
  <2>2. DOMAIN e.nodes = 1 .. Len(e.nodes) /\ DOMAIN Ports(e.model) = 1 .. Len(Ports(e.model))
    BY <2>1, Sequence
  <2> QED
    BY <1>4, <1>7, <2>2
<1>8. \A s : Ports(s) = PortsOf(netlist, s)
  BY DEF Ports, PortsOf
<1> QED
  BY <1>5, <1>6, <1>7, <1>8, OfNetlist DEF WellFormed, Defined

\* The call and the place at which a net is the port that it is passed as.
PassesTo(n, ds, net, k, i) ==
  /\ k \in DOMAIN ds /\ CallIn(n, ds[k].element) /\ i \in DOMAIN ds[k].element.nodes
  /\ PortNet(n, ds[k], i) = net
IsLocal(n, ds, net) == \A k, i : ~PassesTo(n, ds, net, k, i)

\* The node of the expanded circuit that a net of the hierarchy is.
IsNodeOf(n, ds, net, x) ==
  IF net[2] = Zero THEN x = Zero
  ELSE \/ \E k, i : PassesTo(n, ds, net, k, i) /\ x = ds[k].nodes[i]
       \/ IsLocal(n, ds, net) /\ x = Text(net)

\* The nets that name themselves, and those of them that are spelled alike.
IsOwn(n, ds, r) == r = ZeroNet \/ (r \in PinNets(ds) /\ r[2] # Zero /\ IsLocal(n, ds, r))
OwnOf(n, ds) == {r \in {ZeroNet} \union PinNets(ds) : IsOwn(n, ds, r)}
Alike(n, ds) == {{o \in OwnOf(n, ds) : Text(o) = Text(r)} : r \in OwnOf(n, ds)}

\* No two devices of a call have one name; what is passed are the ports.
Distinct(ds) ==
  /\ \A k \in DOMAIN ds : IsSeq(ds[k].path)
  /\ \A k, l \in DOMAIN ds : ds[k].path = ds[l].path /\ ds[k].element.name = ds[l].element.name => k = l
PinsFit(n, d) == CallIn(n, d.element) => DOMAIN d.element.nodes = DOMAIN PortsOf(n, d.element.model)
Within(n, ds, d) ==
  d.path = <<>> \/ \E k \in DOMAIN ds : CallIn(n, ds[k].element) /\ d.path = Below(ds[k])

\* The pins of a device are on the nodes that their nets are, and these have the
\* name of a net that is joined to the pin's.
Joins(n, ds, own, node, net) ==
  IsOwn(n, ds, own) /\ node = Text(own) /\ OneNet(own, net, NetsTied(n, ds))
PinsJoin(n, ds, d) ==
  \A i \in DOMAIN d.element.nodes :
    /\ IsNodeOf(n, ds, NetOf(d, i), d.nodes[i])
    /\ \E own : Joins(n, ds, own, d.nodes[i], NetOf(d, i))
NetsOK(n, ds) ==
  /\ IsSeq(ds) /\ Distinct(ds)
  /\ \A k \in DOMAIN ds : PinsFit(n, ds[k]) /\ Within(n, ds, ds[k]) /\ PinsJoin(n, ds, ds[k])

\* A net is passed for one port by one call at most.
LEMMA PassedOnce ==
  ASSUME NEW n, WellFormed(n), NEW ds, Distinct(ds), \A k \in DOMAIN ds : PinsFit(n, ds[k]),
         NEW net, NEW k, NEW i, PassesTo(n, ds, net, k, i), NEW l, NEW j, PassesTo(n, ds, net, l, j)
  PROVE  k = l /\ i = j
<1> DEFINE c == ds[k]
           d == ds[l]
<1>1. /\ k \in DOMAIN ds /\ CallIn(n, c.element) /\ i \in DOMAIN c.element.nodes
      /\ l \in DOMAIN ds /\ CallIn(n, d.element) /\ j \in DOMAIN d.element.nodes
      /\ Below(c) = Below(d) /\ PortsOf(n, c.element.model)[i] = PortsOf(n, d.element.model)[j]
  BY DEF PassesTo, PortNet
<1>2. c.path = d.path /\ c.element.name = d.element.name
  <2>1. IsSeq(c.path) /\ IsSeq(d.path)
    BY <1>1 DEF Distinct
  <2>2. Append(c.path, c.element.name) = Append(d.path, d.element.name)
    BY <1>1 DEF Below
  <2>3. \A s, t, x, y : IsSeq(s) /\ IsSeq(t) /\ Append(s, x) = Append(t, y) => s = t /\ x = y
    BY AppendDiffers
  <2> DEFINE p == c.path
             q == d.path
             u == c.element.name
             v == d.element.name
  <2> HIDE DEF p, q, u, v
  <2>4. IsSeq(p) /\ IsSeq(q) /\ Append(p, u) = Append(q, v)
    BY <2>1, <2>2 DEF p, q, u, v
  <2>5. p = q /\ u = v
    BY <2>3, <2>4
  <2> QED
    BY <2>5 DEF p, q, u, v
<1>3. k = l
  BY <1>1, <1>2 DEF Distinct
<1>4. i \in DOMAIN PortsOf(n, c.element.model) /\ j \in DOMAIN PortsOf(n, c.element.model)
  BY <1>1, <1>3 DEF PinsFit
<1>5. c.element.model \in DOMAIN n.defs
  BY <1>1 DEF CallIn
<1> QED
  BY <1>1, <1>3, <1>4, <1>5 DEF WellFormed

LEMMA OneNode ==
  ASSUME NEW n, WellFormed(n), NEW ds, Distinct(ds), \A k \in DOMAIN ds : PinsFit(n, ds[k]),
         NEW net, NEW x, IsNodeOf(n, ds, net, x), NEW y, IsNodeOf(n, ds, net, y)
  PROVE  x = y
<1>1. CASE net[2] = Zero
  BY <1>1 DEF IsNodeOf
<1>2. CASE net[2] # Zero /\ IsLocal(n, ds, net)
  BY <1>2 DEF IsNodeOf, IsLocal
<1>3. CASE net[2] # Zero /\ ~IsLocal(n, ds, net)
  <2>1. PICK k, i : PassesTo(n, ds, net, k, i) /\ x = ds[k].nodes[i]
    BY <1>3 DEF IsNodeOf
  <2>2. PICK l, j : PassesTo(n, ds, net, l, j) /\ y = ds[l].nodes[j]
    BY <1>3 DEF IsNodeOf
  <2>3. k = l /\ i = j
    BY <2>1, <2>2, PassedOnce
  <2> QED
    BY <2>1, <2>2, <2>3
<1> QED
  BY <1>1, <1>2, <1>3

\* What the ends of a tie are is the same node.
LEMMA TiesAgree ==
  ASSUME NEW n, WellFormed(n), NEW ds, NetsOK(n, ds), NEW edge \in NetsTied(n, ds),
         NEW a \in edge, NEW b \in edge, NEW x, IsNodeOf(n, ds, a, x)
  PROVE  IsNodeOf(n, ds, b, x)
<1>0. Distinct(ds) /\ \A k \in DOMAIN ds : PinsFit(n, ds[k])
  BY DEF NetsOK
<1>1. \A d \in ToSet(ds) : \E k \in DOMAIN ds : ds[k] = d
  BY DEF ToSet
<1>2. CASE \E d \in ToSet(ds) : edge = ZeroEdge(d)
  <2>1. PICK d \in ToSet(ds) : edge = ZeroEdge(d)
    BY <1>2
  <2>2. a[2] = Zero /\ b[2] = Zero
    BY <2>1 DEF ZeroEdge, ZeroNet
  <2> QED
    BY <2>2 DEF IsNodeOf
<1>3. CASE \E c \in CallDevices(n, ds) : \E i \in Passing(n, c) : edge = PortEdge(n, c, i)
  <2>1. PICK c \in CallDevices(n, ds) : \E i \in Passing(n, c) : edge = PortEdge(n, c, i)
    BY <1>3
  <2>10. PICK i \in DOMAIN c.element.nodes :
           edge = PortEdge(n, c, i) /\ PortsOf(n, c.element.model)[i] # Zero
    BY <2>1 DEF Passing
  <2>2. PICK k \in DOMAIN ds : ds[k] = c
    BY <1>1, <2>1 DEF CallDevices
  <2>3. CallIn(n, c.element)
    BY <2>1 DEF CallDevices
  <2> DEFINE outer == NetOf(c, i)
             port == PortNet(n, c, i)
             y == c.nodes[i]
  <2>4. IsNodeOf(n, ds, outer, y)
    BY <2>2 DEF NetsOK, PinsJoin
  <2>5. PassesTo(n, ds, port, k, i)
    BY <2>1, <2>2, <2>3 DEF PassesTo
  <2>6. IsNodeOf(n, ds, port, y)
    <3>1. port[2] # Zero
      BY <2>10 DEF PortNet
    <3> HIDE DEF port
    <3> QED
      BY <2>2, <2>5, <3>1 DEF IsNodeOf
  <2>7. a \in {outer, port} /\ b \in {outer, port}
    BY <2>10 DEF PortEdge
  <2> HIDE DEF outer, port, y
  <2>8. x = y
    BY <1>0, <2>4, <2>6, <2>7, OneNode
  <2> QED
    BY <2>4, <2>6, <2>7, <2>8
<1>4. edge \in {ZeroEdge(d) : d \in ToSet(ds)}
        \/ edge \in UNION {{PortEdge(n, c, i) : i \in Passing(n, c)} : c \in CallDevices(n, ds)}
  BY Zenon DEF NetsTied
<1>5. edge \in UNION {{PortEdge(n, c, i) : i \in Passing(n, c)} : c \in CallDevices(n, ds)}
        => \E c \in CallDevices(n, ds) : \E i \in Passing(n, c) : edge = PortEdge(n, c, i)
  <2> HIDE DEF PortEdge, Passing, CallDevices
  <2> QED
    OBVIOUS
<1> QED
  BY <1>2, <1>3, <1>4, <1>5

LEMMA ZeroText == Text(ZeroNet) = Zero
BY DEF Text, ZeroNet, Spelled

\* Nor do nets that are spelled alike differ in the node they are.
LEMMA AlikeAgree ==
  ASSUME NEW n, WellFormed(n), NEW ds, NetsOK(n, ds), NEW edge \in Alike(n, ds),
         NEW a \in edge, NEW b \in edge, NEW x, IsNodeOf(n, ds, a, x)
  PROVE  IsNodeOf(n, ds, b, x)
<1>0. Distinct(ds) /\ \A k \in DOMAIN ds : PinsFit(n, ds[k])
  BY DEF NetsOK
<1>1. IsOwn(n, ds, a) /\ IsOwn(n, ds, b) /\ Text(a) = Text(b)
  <2> HIDE DEF IsOwn, Text
  <2> QED
    BY DEF Alike, OwnOf
<1>2. ASSUME NEW r, IsOwn(n, ds, r)
      PROVE  IsNodeOf(n, ds, r, Text(r))
  <2>1. CASE r = ZeroNet
    <3>1. r[2] = Zero
      BY <2>1 DEF ZeroNet
    <3> QED
      BY <2>1, <3>1, ZeroText DEF IsNodeOf
  <2>2. CASE r # ZeroNet
    BY <1>2, <2>2 DEF IsOwn, IsNodeOf
  <2> QED
    BY <2>1, <2>2
<1>3. x = Text(a)
  BY <1>0, <1>1, <1>2, OneNode
<1> QED
  BY <1>1, <1>2, <1>3

LEMMA ImageFinite ==
  ASSUME NEW S, IsFiniteSet(S), NEW f, DOMAIN f = S
  PROVE  IsFiniteSet({f[x] : x \in S})
<1> DEFINE T == {f[x] : x \in S}
           g == [x \in S |-> f[x]]
<1>1. g \in Surjection(S, T)
  BY DEF Surjection
<1> HIDE DEF g, T
<1>2. IsFiniteSet(T)
  BY <1>1, FS_Surjection
<1> QED
  BY <1>2 DEF T

LEMMA TiesFinite ==
  ASSUME NEW n, NEW ds, IsSeq(ds), \A k \in DOMAIN ds : IsSeq(ds[k].element.nodes)
  PROVE  IsFiniteSet(NetsTied(n, ds))
<1> DEFINE zeros == {ZeroEdge(d) : d \in ToSet(ds)}
           ports(c) == {PortEdge(n, c, i) : i \in Passing(n, c)}
           calls == CallDevices(n, ds)
           sets == {ports(c) : c \in calls}
<1>1. IsFiniteSet(ToSet(ds)) /\ \A d \in ToSet(ds) : IsFiniteSet(DOMAIN d.element.nodes)
  BY FiniteRange DEF ToSet
<1>2. IsFiniteSet(zeros)
  <2> DEFINE f == [d \in ToSet(ds) |-> ZeroEdge(d)]
  <2>1. DOMAIN f = ToSet(ds) /\ zeros = {f[d] : d \in ToSet(ds)}
    OBVIOUS
  <2> HIDE DEF f, zeros
  <2> QED
    BY <1>1, <2>1, ImageFinite
<1>3. IsFiniteSet(calls)
  BY <1>1, FS_Subset DEF CallDevices
<1>4. ASSUME NEW c \in calls
      PROVE  IsFiniteSet(ports(c))
  <2> DEFINE P == Passing(n, c)
             f == [i \in P |-> PortEdge(n, c, i)]
             s == ports(c)
  <2>1. P \subseteq DOMAIN c.element.nodes /\ c \in ToSet(ds)
    BY DEF Passing, CallDevices
  <2>2. s = {f[i] : i \in P} /\ DOMAIN f = P
    OBVIOUS
  <2> HIDE DEF P, f, ports
  <2>3. IsFiniteSet(P)
    BY <1>1, <2>1, FS_Subset
  <2>4. IsFiniteSet({f[i] : i \in P})
    BY <2>2, <2>3, ImageFinite
  <2> QED
    BY <2>2, <2>4
<1>5. IsFiniteSet(sets)
  <2> DEFINE f == [c \in calls |-> ports(c)]
  <2>1. DOMAIN f = calls /\ sets = {f[c] : c \in calls}
    OBVIOUS
  <2> HIDE DEF f, sets, calls
  <2> QED
    BY <1>3, <2>1, ImageFinite
<1>6. \A s \in sets : IsFiniteSet(s)
  <2> HIDE DEF ports, calls
  <2> QED
    BY <1>4
<1>7. NetsTied(n, ds) = zeros \union UNION sets
  BY Zenon DEF NetsTied
<1> HIDE DEF zeros, sets
<1>8. IsFiniteSet(UNION sets)
  BY <1>5, <1>6, FS_UNION
<1> QED
  BY <1>2, <1>7, <1>8, FS_Union

LEMMA AlikeFinite ==
  ASSUME NEW n, NEW ds, IsSeq(ds), \A k \in DOMAIN ds : IsSeq(ds[k].element.nodes)
  PROVE  IsFiniteSet(Alike(n, ds))
<1> DEFINE at(d) == {<<d.path, x>> : x \in ToSet(d.element.nodes)}
           sets == {at(d) : d \in ToSet(ds)}
<1>1. IsFiniteSet(ToSet(ds)) /\ \A d \in ToSet(ds) : IsFiniteSet(ToSet(d.element.nodes))
  BY FiniteRange DEF ToSet
<1>2. \A s \in sets : IsFiniteSet(s)
  <2> SUFFICES ASSUME NEW d \in ToSet(ds) PROVE IsFiniteSet(at(d))
    OBVIOUS
  <2> DEFINE f == [x \in ToSet(d.element.nodes) |-> <<d.path, x>>]
  <2>1. DOMAIN f = ToSet(d.element.nodes) /\ at(d) = {f[x] : x \in ToSet(d.element.nodes)}
    OBVIOUS
  <2> HIDE DEF f, at
  <2> QED
    BY <1>1, <2>1, ImageFinite
<1>3. IsFiniteSet(sets)
  <2> DEFINE f == [d \in ToSet(ds) |-> at(d)]
  <2>1. DOMAIN f = ToSet(ds) /\ sets = {f[d] : d \in ToSet(ds)}
    OBVIOUS
  <2> HIDE DEF f, sets
  <2> QED
    BY <1>1, <2>1, ImageFinite
<1>4. PinNets(ds) = UNION sets
  BY DEF PinNets
<1> HIDE DEF sets
<1>5. IsFiniteSet(PinNets(ds)) /\ IsFiniteSet({ZeroNet})
  BY <1>2, <1>3, <1>4, FS_UNION, FS_Singleton
<1>6. IsFiniteSet({ZeroNet} \union PinNets(ds))
  BY <1>5, FS_Union
<1>7. IsFiniteSet(OwnOf(n, ds))
  BY <1>6, FS_Subset DEF OwnOf
<1> DEFINE alike(r) == {o \in OwnOf(n, ds) : Text(o) = Text(r)}
           g == [r \in OwnOf(n, ds) |-> alike(r)]
<1>8. DOMAIN g = OwnOf(n, ds) /\ Alike(n, ds) = {g[r] : r \in OwnOf(n, ds)}
  BY DEF Alike
<1> HIDE DEF g
<1> QED
  BY <1>7, <1>8, ImageFinite

\* Pins are on one node exactly when ties or names connect their nets.
LEMMA PinsMeet ==
  ASSUME NEW n, WellFormed(n), NEW ds, NetsOK(n, ds), IsFiniteSet(NetsTied(n, ds) \union Alike(n, ds)),
         NEW c \in ToSet(ds), NEW i \in DOMAIN c.element.nodes,
         NEW d \in ToSet(ds), NEW j \in DOMAIN d.element.nodes
  PROVE  c.nodes[i] = d.nodes[j]
           <=> NetOf(d, j) \in Reached({NetOf(c, i)}, NetsTied(n, ds) \union Alike(n, ds))
<1> DEFINE ties == NetsTied(n, ds)
           edges == ties \union Alike(n, ds)
           a == NetOf(c, i)
           b == NetOf(d, j)
           x == c.nodes[i]
           y == d.nodes[j]
           r == Reached({a}, edges)
           X == {z \in {a} \union UNION edges : IsNodeOf(n, ds, z, x)}
<1>1. /\ IsNodeOf(n, ds, a, x) /\ \E own : Joins(n, ds, own, x, a)
      /\ IsNodeOf(n, ds, b, y) /\ \E own : Joins(n, ds, own, y, b)
  <2>1. \A e \in ToSet(ds) : PinsJoin(n, ds, e)
    BY DEF NetsOK, ToSet
  <2> HIDE DEF edges
  <2> QED
    BY <2>1 DEF PinsJoin
<1>2. Distinct(ds) /\ \A k \in DOMAIN ds : PinsFit(n, ds[k])
  BY DEF NetsOK
<1>3. \A e \in edges : \A p, q \in e : IsNodeOf(n, ds, p, x) => IsNodeOf(n, ds, q, x)
  <2>1. \A e \in ties : \A p, q \in e : IsNodeOf(n, ds, p, x) => IsNodeOf(n, ds, q, x)
    BY TiesAgree
  <2>2. \A e \in Alike(n, ds) : \A p, q \in e : IsNodeOf(n, ds, p, x) => IsNodeOf(n, ds, q, x)
    BY AlikeAgree
  <2> QED
    BY <2>1, <2>2
<1>7. \A own1, own2, u, v : Joins(n, ds, own1, x, u) /\ Joins(n, ds, own2, x, v) =>
        \A s : Closed(s, edges) => (u \in s <=> v \in s)
  <2> SUFFICES ASSUME NEW own1, NEW own2, NEW u, NEW v, NEW s,
                      Joins(n, ds, own1, x, u), Joins(n, ds, own2, x, v), Closed(s, edges)
               PROVE  u \in s <=> v \in s
    OBVIOUS
  <2>1. Closed(s, ties) /\ Closed(s, Alike(n, ds))
    <3> HIDE DEF ties
    <3> QED
      BY DEF Closed
  <2>2. (own1 \in s <=> u \in s) /\ (own2 \in s <=> v \in s)
    BY <2>1 DEF Joins, OneNet
  <2>3. own1 \in OwnOf(n, ds) /\ own2 \in OwnOf(n, ds) /\ Text(own1) = Text(own2)
    BY DEF Joins, OwnOf, IsOwn
  <2> DEFINE e == {o \in OwnOf(n, ds) : Text(o) = Text(own1)}
  <2> HIDE DEF Text
  <2>4. e \in Alike(n, ds) /\ own1 \in e /\ own2 \in e
    BY <2>3 DEF Alike
  <2> HIDE DEF e
  <2>5. own1 \in s <=> own2 \in s
    BY <2>1, <2>4 DEF Closed
  <2> QED
    BY <2>2, <2>5
<1>8. IsFiniteSet(edges)
  OBVIOUS
<1> HIDE DEF edges, a, b, x, y
<1>4. a \in r /\ Closed(r, edges) /\ \A s : {a} \subseteq s /\ Closed(s, edges) => r \subseteq s
  BY <1>8, ReachedIsLeast
<1> HIDE DEF r
<1>5. ASSUME x = y
      PROVE  b \in r
  BY <1>1, <1>4, <1>5, <1>7
<1>6. ASSUME b \in r
      PROVE  x = y
  <2>1. a \in X /\ Closed(X, edges)
    BY <1>1, <1>3 DEF Closed
  <2> HIDE DEF X
  <2>2. b \in X
    BY <1>4, <1>6, <2>1
  <2>3. IsNodeOf(n, ds, b, x)
    BY <2>2 DEF X
  <2> QED
    BY <1>1, <1>2, <2>3, OneNode
<1> QED
  BY <1>5, <1>6 DEF x, y, b, r, a, edges

-----------------------------------------------------------------------------
(* A device more. *)

\* What a name in a body stands for, and the device of the element at hand.
MappedTo(f, x) ==
  IF x = Zero THEN Zero ELSE IF x \in DOMAIN f.ports THEN f.ports[x] ELSE Spelled(f.path, x)
TakenFrom(n, f, d) ==
  /\ d.path = f.path /\ d.element = BodyOf(n, f.scope)[f.at]
  /\ \A i \in DOMAIN d.element.nodes : d.nodes[i] = MappedTo(f, d.element.nodes[i])

\* What a frame knows of the devices: its own are of elements it has passed, and
\* its ports are the nodes that its call has passed.
NotYet(n, ds, f) ==
  \A k \in DOMAIN ds : ds[k].path = f.path =>
    \E i \in 1 .. f.at - 1 : ds[k].element.name = BodyOf(n, f.scope)[i].name
GivenTo(n, c, ports) ==
  /\ DOMAIN ports = ToSet(PortsOf(n, c.element.model))
  /\ \A i \in DOMAIN c.element.nodes : ports[PortsOf(n, c.element.model)[i]] = c.nodes[i]
PortsFrom(n, ds, f) ==
  \/ f.path = <<>> /\ DOMAIN f.ports = {}
  \/ \E k \in DOMAIN ds : CallIn(n, ds[k].element) /\ f.path = Below(ds[k]) /\ GivenTo(n, ds[k], f.ports)

\* A frame whose next element is taken, and the devices before and after.
AtWork(n, ds, f) ==
  /\ f.scope \in ScopesOf(n) /\ f.at \in 1 .. Len(BodyOf(n, f.scope)) /\ IsSeq(f.path)
  /\ IsSeq(BodyOf(n, f.scope)) /\ NotYet(n, ds, f) /\ PortsFrom(n, ds, f)
Longer(ds, d, es) ==
  /\ IsSeq(ds) /\ IsSeq(es) /\ Len(ds) \in Nat /\ DOMAIN ds = 1 .. Len(ds)
  /\ DOMAIN es = 1 .. Len(ds) + 1 /\ es[Len(ds) + 1] = d /\ \A k \in DOMAIN ds : es[k] = ds[k]

LEMMA LongerBy ==
  ASSUME NEW ds, IsSeq(ds), NEW d, NEW es, es = Append(ds, d)
  PROVE  Longer(ds, d, es)
<1>1. /\ IsSeq(es) /\ DOMAIN es = 1 .. Len(ds) + 1 /\ es[Len(ds) + 1] = d
      /\ \A k \in DOMAIN ds : es[k] = ds[k]
  BY Appended, Sequence
<1>2. Len(ds) \in Nat /\ DOMAIN ds = 1 .. Len(ds)
  BY Sequence
<1> QED
  BY <1>1, <1>2 DEF Longer

LEMMA LongerParts ==
  ASSUME NEW ds, NEW d, NEW es, Longer(ds, d, es)
  PROVE  /\ \A k \in DOMAIN ds : k \in DOMAIN es /\ es[k] = ds[k]
         /\ Len(ds) + 1 \in DOMAIN es /\ es[Len(ds) + 1] = d
         /\ \A k \in DOMAIN es : (k \in DOMAIN ds /\ es[k] = ds[k]) \/ (k = Len(ds) + 1 /\ es[k] = d)
         /\ Len(ds) + 1 \notin DOMAIN ds /\ ToSet(es) = ToSet(ds) \union {d}
<1>1. /\ \A k \in DOMAIN ds : k \in DOMAIN es /\ es[k] = ds[k]
      /\ Len(ds) + 1 \in DOMAIN es /\ es[Len(ds) + 1] = d
      /\ \A k \in DOMAIN es : (k \in DOMAIN ds /\ es[k] = ds[k]) \/ (k = Len(ds) + 1 /\ es[k] = d)
      /\ Len(ds) + 1 \notin DOMAIN ds
  BY DEF Longer
<1>2. ToSet(es) = ToSet(ds) \union {d}
  BY <1>1 DEF ToSet
<1> QED
  BY <1>1, <1>2

LEMMA TiesGrow ==
  ASSUME NEW n, NEW ds, NEW d, NEW es, Longer(ds, d, es)
  PROVE  /\ NetsTied(n, ds) \subseteq NetsTied(n, es) /\ ZeroEdge(d) \in NetsTied(n, es)
         /\ \A x, y : OneNet(x, y, NetsTied(n, ds)) => OneNet(x, y, NetsTied(n, es))
<1>1. ToSet(es) = ToSet(ds) \union {d}
  BY LongerParts
<1>2. CallDevices(n, ds) \subseteq CallDevices(n, es)
  BY <1>1 DEF CallDevices
<1>3. NetsTied(n, ds) \subseteq NetsTied(n, es) /\ ZeroEdge(d) \in NetsTied(n, es)
  <2> HIDE DEF CallDevices, ZeroEdge, PortEdge, Passing
  <2> QED
    BY <1>1, <1>2 DEF NetsTied
<1>4. ASSUME NEW x, NEW y, OneNet(x, y, NetsTied(n, ds))
      PROVE  OneNet(x, y, NetsTied(n, es))
  BY <1>3, <1>4 DEF OneNet, Closed
<1> QED
  BY <1>3, <1>4

LEMMA NodesStay ==
  ASSUME NEW n, NEW ds, NEW d, NEW es, Longer(ds, d, es),
         NEW net, net[1] # Below(d), NEW x, IsNodeOf(n, ds, net, x)
  PROVE  IsNodeOf(n, es, net, x)
<1>1. \A k, i : PassesTo(n, ds, net, k, i) => PassesTo(n, es, net, k, i) /\ es[k] = ds[k]
  BY LongerParts DEF PassesTo
<1>2. ASSUME NEW k, NEW i, PassesTo(n, es, net, k, i)
      PROVE  PassesTo(n, ds, net, k, i)
  <2>1. k \in DOMAIN es /\ PortNet(n, es[k], i) = net
    BY <1>2 DEF PassesTo
  <2>2. CASE k \in DOMAIN ds /\ es[k] = ds[k]
    BY <1>2, <2>2 DEF PassesTo
  <2>3. CASE k = Len(ds) + 1 /\ es[k] = d
    <3>1. PortNet(n, d, i) = net
      BY <2>1, <2>3
    <3> QED
      BY <3>1 DEF PortNet
  <2> QED
    BY <2>1, <2>2, <2>3, LongerParts
<1>3. IsLocal(n, ds, net) => IsLocal(n, es, net)
  BY <1>2 DEF IsLocal
<1> QED
  BY <1>1, <1>3 DEF IsNodeOf

LEMMA OwnStays ==
  ASSUME NEW n, NEW ds, NEW d, NEW es, Longer(ds, d, es), \A k \in DOMAIN ds : ds[k].path # Below(d),
         NEW r, IsOwn(n, ds, r)
  PROVE  IsOwn(n, es, r)
<1>1. CASE r = ZeroNet
  BY <1>1 DEF IsOwn
<1>2. CASE r \in PinNets(ds) /\ r[2] # Zero /\ IsLocal(n, ds, r)
  <2>1. PICK e \in ToSet(ds) : \E x \in ToSet(e.element.nodes) : r = <<e.path, x>>
    BY <1>2 DEF PinNets
  <2>2. r[1] # Below(d)
    BY <2>1 DEF ToSet
  <2>3. ToSet(ds) \subseteq ToSet(es)
    BY LongerParts
  <2>4. r \in PinNets(es)
    BY <1>2, <2>3 DEF PinNets
  <2>5. ASSUME NEW k, NEW i, PassesTo(n, es, r, k, i)
        PROVE  FALSE
    <3>1. k \in DOMAIN es /\ PortNet(n, es[k], i) = r
      BY <2>5 DEF PassesTo
    <3>2. CASE k \in DOMAIN ds /\ es[k] = ds[k]
      BY <1>2, <2>5, <3>2 DEF PassesTo, IsLocal
    <3>3. CASE es[k] = d
      BY <2>2, <3>1, <3>3 DEF PortNet
    <3> QED
      BY <3>1, <3>2, <3>3, LongerParts
  <2>6. IsLocal(n, es, r)
    BY <2>5 DEF IsLocal
  <2> QED
    BY <1>2, <2>4, <2>6 DEF IsOwn
<1> QED
  BY <1>1, <1>2 DEF IsOwn

\* Of one call's elements no other has the name, and nothing is inside it yet.
LEMMA TakenAnew ==
  ASSUME NEW n, WellFormed(n), NEW ds, NetsOK(n, ds), NEW f, AtWork(n, ds, f), NEW d, TakenFrom(n, f, d)
  PROVE  \A k \in DOMAIN ds : /\ ~(ds[k].path = d.path /\ ds[k].element.name = d.element.name)
                              /\ ds[k].path # Below(d)
<1>1. ASSUME NEW k \in DOMAIN ds, ds[k].path = d.path, ds[k].element.name = d.element.name
      PROVE  FALSE
  <2>1. PICK i \in 1 .. f.at - 1 : ds[k].element.name = BodyOf(n, f.scope)[i].name
    BY <1>1 DEF AtWork, NotYet, TakenFrom
  <2>2. BodyOf(n, f.scope)[i].name = BodyOf(n, f.scope)[f.at].name
    BY <1>1, <2>1 DEF TakenFrom
  <2>3. /\ f.at \in 1 .. Len(BodyOf(n, f.scope)) /\ f.scope \in ScopesOf(n)
        /\ DOMAIN BodyOf(n, f.scope) = 1 .. Len(BodyOf(n, f.scope)) /\ Len(BodyOf(n, f.scope)) \in Nat
    BY Sequence DEF AtWork
  <2>4. i \in 1 .. Len(BodyOf(n, f.scope)) /\ i # f.at
    BY <2>1, <2>3
  <2> QED
    BY <2>2, <2>3, <2>4 DEF WellFormed
<1>2. ASSUME NEW k \in DOMAIN ds, ds[k].path = Below(d)
      PROVE  FALSE
  <2> DEFINE p == d.path
             u == d.element.name
  <2>1. IsSeq(p)
    BY DEF AtWork, TakenFrom
  <2>2. ds[k].path = Append(p, u)
    BY <1>2 DEF Below
  <2> HIDE DEF p, u
  <2>3. ds[k].path # <<>>
    BY <2>1, <2>2, AppendDiffers
  <2>4. PICK l \in DOMAIN ds : ds[k].path = Below(ds[l])
    BY <2>3 DEF NetsOK, Within
  <2> DEFINE q == ds[l].path
             v == ds[l].element.name
  <2>5. IsSeq(q) /\ Append(p, u) = Append(q, v)
    BY <2>2, <2>4 DEF Below, NetsOK, Distinct
  <2> HIDE DEF q, v
  <2>6. p = q /\ u = v
    BY <2>1, <2>5, AppendDiffers
  <2> QED
    BY <1>1, <2>6 DEF p, q, u, v
<1> QED
  BY <1>1, <1>2

\* The pins of a device that is taken are on the nodes that their nets are.
LEMMA PinsJoined ==
  ASSUME NEW n, WellFormed(n), NEW ds, NetsOK(n, ds), NEW f, AtWork(n, ds, f),
         NEW d, TakenFrom(n, f, d), NEW es, Longer(ds, d, es)
  PROVE  PinsJoin(n, es, d)
<1> DEFINE ties == NetsTied(n, es)
<1>1. SUFFICES ASSUME NEW i \in DOMAIN d.element.nodes
               PROVE  /\ IsNodeOf(n, es, NetOf(d, i), d.nodes[i])
                      /\ \E own : Joins(n, es, own, d.nodes[i], NetOf(d, i))
  BY DEF PinsJoin
<1> DEFINE x == d.element.nodes[i]
           net == NetOf(d, i)
           node == d.nodes[i]
<1>2. node = MappedTo(f, x) /\ net = <<f.path, x>> /\ net[1] = f.path /\ net[2] = x /\ d.path = f.path
  BY DEF TakenFrom, NetOf
<1>3. /\ NetsTied(n, ds) \subseteq ties /\ ZeroEdge(d) \in ties
      /\ \A p, q : OneNet(p, q, NetsTied(n, ds)) => OneNet(p, q, ties)
  BY TiesGrow
<1>4. /\ \A k \in DOMAIN ds : k \in DOMAIN es /\ es[k] = ds[k]
      /\ \A k \in DOMAIN es : (k \in DOMAIN ds /\ es[k] = ds[k]) \/ (k = Len(ds) + 1 /\ es[k] = d)
  BY LongerParts
<1>5. IsSeq(f.path) /\ PortsFrom(n, ds, f)
  BY DEF AtWork
<1>6. \A k \in DOMAIN ds : PinsFit(n, ds[k]) /\ IsSeq(ds[k].path) /\ PinsJoin(n, ds, ds[k])
  BY DEF NetsOK, Distinct
<1> HIDE DEF net, node, x, ties
<1>7. CASE x = Zero
  <2>1. node = Text(ZeroNet) /\ node = Zero
    BY <1>2, <1>7, ZeroText DEF MappedTo
  <2>2. net \in ZeroEdge(d) /\ ZeroNet \in ZeroEdge(d)
    BY <1>2, <1>7 DEF ZeroEdge
  <2>3. IsNodeOf(n, es, net, node)
    BY <1>2, <1>7, <2>1 DEF IsNodeOf
  <2>4. OneNet(ZeroNet, net, ties)
    BY <1>3, <2>2 DEF OneNet, Closed
  <2>5. Joins(n, es, ZeroNet, node, net)
    BY <2>1, <2>4 DEF Joins, IsOwn, ties
  <2> QED
    BY <2>3, <2>5 DEF net, node
<1>8. CASE x # Zero /\ x \in DOMAIN f.ports
  <2>1. node = f.ports[x]
    BY <1>2, <1>8 DEF MappedTo
  <2>2. PICK k \in DOMAIN ds : CallIn(n, ds[k].element) /\ f.path = Below(ds[k]) /\ GivenTo(n, ds[k], f.ports)
    BY <1>5, <1>8 DEF PortsFrom
  <2> DEFINE c == ds[k]
             ports == PortsOf(n, c.element.model)
  <2>3. x \in ToSet(ports) /\ DOMAIN c.element.nodes = DOMAIN ports
    BY <1>6, <1>8, <2>2 DEF GivenTo, PinsFit
  <2>4. PICK j \in DOMAIN c.element.nodes : ports[j] = x
    BY <2>3 DEF ToSet
  <2>5. node = c.nodes[j]
    BY <2>1, <2>2, <2>4 DEF GivenTo
  <2>6. PortNet(n, c, j) = net
    BY <1>2, <2>2, <2>4 DEF PortNet, net
  <2>7. es[k] = c /\ k \in DOMAIN es
    BY <1>4
  <2>8. IsNodeOf(n, es, net, node)
    <3>1. PassesTo(n, es, net, k, j)
      BY <2>2, <2>4, <2>6, <2>7 DEF PassesTo
    <3> HIDE DEF c
    <3> QED
      BY <1>2, <1>8, <2>5, <2>7, <3>1 DEF IsNodeOf
  <2>20. PICK own : Joins(n, ds, own, c.nodes[j], NetOf(c, j))
    BY <1>6, <2>4 DEF PinsJoin
  <2>21. IsOwn(n, es, own) /\ node = Text(own)
    <3>1. IsOwn(n, ds, own) /\ c.nodes[j] = Text(own)
      BY <2>20 DEF Joins
    <3>2. \A l \in DOMAIN ds : ds[l].path # Below(d)
      BY TakenAnew
    <3> QED
      BY <2>5, <3>1, <3>2, OwnStays
  <2>9. OneNet(own, NetOf(c, j), ties)
    BY <1>3, <2>20 DEF Joins
  <2>10. PortEdge(n, c, j) \in ties
    <3>1. c \in CallDevices(n, ds)
      BY <2>2 DEF CallDevices, ToSet
    <3>2. j \in Passing(n, c)
      BY <1>8, <2>4 DEF Passing
    <3> HIDE DEF c
    <3>3. PortEdge(n, c, j) \in NetsTied(n, ds)
      <4> HIDE DEF CallDevices, Passing, PortEdge
      <4> QED
        BY <3>1, <3>2 DEF NetsTied
    <3> QED
      BY <1>3, <3>3
  <2>11. OneNet(NetOf(c, j), net, ties)
    <3> HIDE DEF c
    <3> QED
      BY <2>6, <2>10 DEF PortEdge, OneNet, Closed
  <2>12. OneNet(own, net, ties)
    BY <2>9, <2>11 DEF OneNet
  <2>13. Joins(n, es, own, node, net)
    BY <2>12, <2>21 DEF Joins, ties
  <2> QED
    BY <2>8, <2>13 DEF net, node
<1>9. CASE x # Zero /\ x \notin DOMAIN f.ports
  <2>1. node = Text(net)
    <3>1. node = Spelled(f.path, x)
      BY <1>2, <1>9 DEF MappedTo
    <3> QED
      BY <1>2, <3>1 DEF Text
  <2>2. ASSUME NEW l, NEW j, PassesTo(n, es, net, l, j)
        PROVE  FALSE
    <3>1. /\ l \in DOMAIN es /\ CallIn(n, es[l].element) /\ j \in DOMAIN es[l].element.nodes
          /\ Below(es[l]) = f.path /\ PortsOf(n, es[l].element.model)[j] = x
      <4>1. PortNet(n, es[l], j) = <<f.path, x>>
        BY <1>2, <2>2 DEF PassesTo
      <4> QED
        BY <2>2, <4>1 DEF PassesTo, PortNet
    <3>2. CASE es[l] = d
      <4> DEFINE p == d.path
                 u == d.element.name
      <4>1. Append(p, u) = p /\ IsSeq(p)
        BY <1>2, <1>5, <3>1, <3>2 DEF Below
      <4> HIDE DEF p, u
      <4> QED
        BY <4>1, AppendDiffers
    <3>3. CASE l \in DOMAIN ds /\ es[l] = ds[l]
      <4> DEFINE p == ds[l].path
                 u == ds[l].element.name
      <4>1. IsSeq(p) /\ Append(p, u) = f.path
        BY <1>6, <3>1, <3>3 DEF Below
      <4> HIDE DEF p, u
      <4>2. f.path # <<>>
        BY <4>1, AppendDiffers
      <4>3. PICK k \in DOMAIN ds : CallIn(n, ds[k].element) /\ f.path = Below(ds[k]) /\ GivenTo(n, ds[k], f.ports)
        BY <1>5, <4>2 DEF PortsFrom
      <4> DEFINE q == ds[k].path
                 v == ds[k].element.name
      <4>4. IsSeq(q) /\ Append(p, u) = Append(q, v)
        BY <1>6, <4>1, <4>3 DEF Below
      <4> HIDE DEF q, v
      <4>5. p = q /\ u = v
        BY <4>1, <4>4, AppendDiffers
      <4>6. l = k
        BY <3>3, <4>5 DEF p, q, u, v, NetsOK, Distinct
      <4>7. j \in DOMAIN PortsOf(n, ds[k].element.model) /\ PortsOf(n, ds[k].element.model)[j] = x
        BY <1>6, <3>1, <3>3, <4>6 DEF PinsFit
      <4>8. x \in DOMAIN f.ports
        BY <4>3, <4>7 DEF GivenTo, ToSet
      <4> QED
        BY <1>9, <4>8
    <3> QED
      BY <1>4, <3>1, <3>2, <3>3
  <2>3. IsNodeOf(n, es, net, node)
    BY <1>2, <1>9, <2>1, <2>2 DEF IsNodeOf, IsLocal
  <2>4. net \in PinNets(es)
    <3>1. d \in ToSet(es)
      BY LongerParts
    <3>2. x \in ToSet(d.element.nodes)
      BY DEF x, ToSet
    <3> QED
      BY <1>2, <3>1, <3>2 DEF PinNets
  <2>5. IsOwn(n, es, net)
    BY <1>2, <1>9, <2>2, <2>4 DEF IsOwn, IsLocal
  <2>6. Joins(n, es, net, node, net)
    BY <2>1, <2>5 DEF Joins, OneNet
  <2> QED
    BY <2>3, <2>6 DEF net, node
<1> QED
  BY <1>7, <1>8, <1>9 DEF net, node

\* With it, all pins are on the nodes that their nets are.
LEMMA NetsGrow ==
  ASSUME NEW n, WellFormed(n), NEW ds, NetsOK(n, ds), NEW f, AtWork(n, ds, f),
         NEW d, TakenFrom(n, f, d), NEW es, Longer(ds, d, es)
  PROVE  NetsOK(n, es)
<1>1. /\ \A k \in DOMAIN ds : k \in DOMAIN es /\ es[k] = ds[k]
      /\ \A k \in DOMAIN es : (k \in DOMAIN ds /\ es[k] = ds[k]) \/ (k = Len(ds) + 1 /\ es[k] = d)
  BY LongerParts
<1>2. IsSeq(es) /\ IsSeq(d.path) /\ PinsJoin(n, es, d)
  BY PinsJoined DEF Longer, AtWork, TakenFrom
<1>3. \A k \in DOMAIN ds : /\ ~(ds[k].path = d.path /\ ds[k].element.name = d.element.name)
                           /\ ds[k].path # Below(d)
  BY TakenAnew
<1>4. Distinct(es)
  <2>1. \A k \in DOMAIN ds : IsSeq(ds[k].path)
    BY DEF NetsOK, Distinct
  <2>2. \A k, l \in DOMAIN ds : ds[k].path = ds[l].path /\ ds[k].element.name = ds[l].element.name => k = l
    BY DEF NetsOK, Distinct
  <2>3. \A k \in DOMAIN es : IsSeq(es[k].path)
    BY <1>1, <1>2, <2>1
  <2>4. ASSUME NEW k \in DOMAIN es, NEW l \in DOMAIN es, es[k].path = es[l].path, es[k].element.name = es[l].element.name
        PROVE  k = l
    <3>1. CASE k \in DOMAIN ds /\ es[k] = ds[k] /\ l \in DOMAIN ds /\ es[l] = ds[l]
      BY <2>2, <2>4, <3>1
    <3>2. CASE k \in DOMAIN ds /\ es[k] = ds[k] /\ l = Len(ds) + 1 /\ es[l] = d
      BY <1>3, <2>4, <3>2
    <3>3. CASE k = Len(ds) + 1 /\ es[k] = d /\ l \in DOMAIN ds /\ es[l] = ds[l]
      BY <1>3, <2>4, <3>3
    <3> QED
      BY <1>1, <3>1, <3>2, <3>3
  <2> QED
    BY <2>3, <2>4 DEF Distinct
<1>5. \A c : Within(n, ds, c) => Within(n, es, c)
  BY <1>1 DEF Within
<1>6. PinsFit(n, d) /\ Within(n, ds, d)
  <2>1. d.element \in ToSet(BodyOf(n, f.scope)) /\ f.scope \in ScopesOf(n)
    <3>1. DOMAIN BodyOf(n, f.scope) = 1 .. Len(BodyOf(n, f.scope)) /\ d.element = BodyOf(n, f.scope)[f.at]
      BY Sequence DEF AtWork, TakenFrom
    <3> QED
      BY <3>1 DEF AtWork, ToSet
  <2>2. PinsFit(n, d)
    BY <2>1 DEF PinsFit, WellFormed
  <2>3. d.path = f.path /\ PortsFrom(n, ds, f)
    BY DEF AtWork, TakenFrom
  <2>4. Within(n, ds, d)
    BY <2>3 DEF PortsFrom, Within
  <2> QED
    BY <2>2, <2>4
<1>7. ASSUME NEW k \in DOMAIN ds
      PROVE  PinsFit(n, ds[k]) /\ Within(n, es, ds[k]) /\ PinsJoin(n, es, ds[k])
  <2> DEFINE c == ds[k]
  <2>1. PinsFit(n, c) /\ Within(n, ds, c) /\ PinsJoin(n, ds, c)
    BY DEF NetsOK
  <2>2. ASSUME NEW i \in DOMAIN c.element.nodes
        PROVE  /\ IsNodeOf(n, es, NetOf(c, i), c.nodes[i])
               /\ \E own : Joins(n, es, own, c.nodes[i], NetOf(c, i))
    <3> DEFINE net == NetOf(c, i)
               x == c.nodes[i]
    <3>1. IsNodeOf(n, ds, net, x) /\ \E own : Joins(n, ds, own, x, net)
      BY <2>1 DEF PinsJoin
    <3>2. net[1] # Below(d)
      BY <1>3 DEF NetOf
    <3> HIDE DEF net, x
    <3>3. IsNodeOf(n, es, net, x)
      BY <3>1, <3>2, NodesStay
    <3>4. \E own : Joins(n, es, own, x, net)
      <4>1. PICK own : Joins(n, ds, own, x, net)
        BY <3>1
      <4>2. IsOwn(n, es, own)
        BY <1>3, <4>1, OwnStays DEF Joins
      <4>3. OneNet(own, net, NetsTied(n, es))
        BY <4>1, TiesGrow DEF Joins
      <4> QED
        BY <4>1, <4>2, <4>3 DEF Joins
    <3> QED
      BY <3>3, <3>4 DEF net, x
  <2> HIDE DEF c
  <2>3. PinsJoin(n, es, c)
    BY <2>2 DEF PinsJoin
  <2> QED
    BY <1>5, <2>1, <2>3 DEF c
<1>8. \A k \in DOMAIN es : PinsFit(n, es[k]) /\ Within(n, es, es[k]) /\ PinsJoin(n, es, es[k])
  BY <1>1, <1>2, <1>5, <1>6, <1>7
<1> QED
  BY <1>2, <1>4, <1>8 DEF NetsOK

FramesNets(n, ds, fs) == \A j \in DOMAIN fs : NotYet(n, ds, fs[j]) /\ PortsFrom(n, ds, fs[j])

LEMMA PortsStay ==
  ASSUME NEW n, NEW ds, NEW d, NEW es, Longer(ds, d, es), NEW f, PortsFrom(n, ds, f),
         NEW g, g.path = f.path, g.ports = f.ports
  PROVE  PortsFrom(n, es, g)
<1>1. CASE f.path = <<>> /\ DOMAIN f.ports = {}
  BY <1>1 DEF PortsFrom
<1>2. CASE \E k \in DOMAIN ds : CallIn(n, ds[k].element) /\ f.path = Below(ds[k]) /\ GivenTo(n, ds[k], f.ports)
  <2>1. PICK k \in DOMAIN ds : CallIn(n, ds[k].element) /\ f.path = Below(ds[k]) /\ GivenTo(n, ds[k], f.ports)
    BY <1>2
  <2>2. k \in DOMAIN es /\ es[k] = ds[k]
    BY LongerParts
  <2> QED
    BY <2>1, <2>2 DEF PortsFrom
<1> QED
  BY <1>1, <1>2 DEF PortsFrom

\* What the frames know after the element at hand is taken.
LEMMA FramesAfter ==
  ASSUME NEW n, NEW ds, NEW fs, FramesNets(n, ds, fs), NEW m, m = Len(fs), m \in DOMAIN fs,
         AtWork(n, ds, fs[m]), NEW d, TakenFrom(n, fs[m], d), NEW es, Longer(ds, d, es),
         NEW gs, Past(fs, gs), \A j \in DOMAIN fs : gs[j].ports = fs[j].ports,
         \A j \in DOMAIN fs : j # m => fs[j].path # fs[m].path,
         \A j \in DOMAIN fs : fs[j].at \in Nat
  PROVE  FramesNets(n, es, gs)
<1> SUFFICES ASSUME NEW j \in DOMAIN gs
             PROVE  NotYet(n, es, gs[j]) /\ PortsFrom(n, es, gs[j])
  BY DEF FramesNets
<1> DEFINE f == fs[j]
           g == gs[j]
<1>1. /\ j \in DOMAIN fs /\ g.scope = f.scope /\ g.path = f.path /\ g.ports = f.ports
      /\ g.at = IF j = m THEN f.at + 1 ELSE f.at
  BY DEF Past
<1>2. NotYet(n, ds, f) /\ PortsFrom(n, ds, f) /\ f.at \in Nat
  BY <1>1 DEF FramesNets
<1>3. \A k \in DOMAIN es : (k \in DOMAIN ds /\ es[k] = ds[k]) \/ (k = Len(ds) + 1 /\ es[k] = d)
  BY LongerParts
<1>4. j = m => d.path = f.path /\ d.element = BodyOf(n, f.scope)[f.at] /\ f.at \in 1 .. f.at
  BY <1>2 DEF TakenFrom, AtWork
<1>5. d.path = f.path => j = m
  BY <1>1 DEF TakenFrom
<1> HIDE DEF f, g
<1>6. ASSUME NEW k \in DOMAIN es, es[k].path = g.path
      PROVE  \E i \in 1 .. g.at - 1 : es[k].element.name = BodyOf(n, g.scope)[i].name
  <2>1. CASE k \in DOMAIN ds /\ es[k] = ds[k]
    <3>1. PICK i \in 1 .. f.at - 1 : ds[k].element.name = BodyOf(n, f.scope)[i].name
      BY <1>1, <1>2, <1>6, <2>1 DEF NotYet
    <3>2. i \in 1 .. g.at - 1
      BY <1>1, <1>2
    <3> QED
      BY <1>1, <2>1, <3>1, <3>2
  <2>2. CASE es[k] = d
    <3>1. j = m /\ d.element = BodyOf(n, f.scope)[f.at] /\ f.at \in 1 .. f.at
      BY <1>1, <1>4, <1>5, <1>6, <2>2
    <3>2. f.at \in 1 .. g.at - 1
      BY <1>1, <1>2, <3>1
    <3> QED
      BY <1>1, <2>2, <3>1, <3>2
  <2> QED
    BY <1>3, <2>1, <2>2
<1>7. PortsFrom(n, es, g)
  BY <1>1, <1>2, PortsStay
<1> QED
  BY <1>6, <1>7 DEF NotYet, g

\* And when it is a call that is opened: the ports of the new frame are given by
\* the new device, and nothing is inside it yet.
LEMMA FramesCalled ==
  ASSUME NEW n, WellFormed(n), NEW ds, NetsOK(n, ds), NEW f, AtWork(n, ds, f),
         NEW d, TakenFrom(n, f, d), NEW es, Longer(ds, d, es),
         NEW gs, IsSeq(gs), FramesNets(n, es, gs),
         NEW h, h.path = Below(d), CallIn(n, d.element), GivenTo(n, d, h.ports), NEW hs, hs = Append(gs, h)
  PROVE  FramesNets(n, es, hs)
<1>1. \A k \in DOMAIN es : (k \in DOMAIN ds /\ es[k] = ds[k]) \/ (k = Len(ds) + 1 /\ es[k] = d)
  BY LongerParts
<1>2. NotYet(n, es, h)
  <2>1. \A k \in DOMAIN ds : ds[k].path # Below(d)
    BY TakenAnew
  <2>2. d.path # Below(d)
    <3> DEFINE p == d.path
               u == d.element.name
    <3>1. IsSeq(p)
      BY DEF AtWork, TakenFrom
    <3> HIDE DEF p, u
    <3>2. Append(p, u) # p
      BY <3>1, AppendDiffers
    <3> QED
      BY <3>2 DEF p, u, Below
  <2>3. \A k \in DOMAIN es : es[k].path # h.path
    BY <1>1, <2>1, <2>2
  <2> QED
    BY <2>3 DEF NotYet
<1>3. PortsFrom(n, es, h)
  <2>1. Len(ds) + 1 \in DOMAIN es /\ es[Len(ds) + 1] = d
    BY LongerParts
  <2> QED
    BY <2>1 DEF PortsFrom
<1>4. Longer(gs, h, hs)
  BY LongerBy
<1>5. \A j \in DOMAIN hs : (j \in DOMAIN gs /\ hs[j] = gs[j]) \/ (j = Len(gs) + 1 /\ hs[j] = h)
  BY <1>4, LongerParts
<1> QED
  BY <1>2, <1>3, <1>5 DEF FramesNets

-----------------------------------------------------------------------------
(* What the states of an audit keep of the nets. *)

NetsInv ==
  /\ pc = "cost" => devices = <<>>
  /\ WellFormed(netlist) => NetsOK(netlist, devices) /\ FramesNets(netlist, devices, frames)

LEMMA AdvancedPorts ==
  ASSUME TypeOK, frames # <<>>
  PROVE  \A j \in DOMAIN frames : Advanced[j].ports = frames[j].ports
<1> DEFINE k == Len(frames)
           f == [frames[k] EXCEPT !.at = frames[k].at + 1]
<1>1. Advanced = [frames EXCEPT ![k] = f]
  BY DEF Advanced
<1>2. IsSeq(frames) /\ k \in DOMAIN frames
  BY InnerType DEF TypeOK
<1>3. frames[k] \in [scope : Scopes, path : {frames[k].path}, ports : {frames[k].ports}, at : Nat]
  BY <1>2 DEF TypeOK
<1>4. f.ports = frames[k].ports
  BY <1>3
<1> HIDE DEF f
<1>5. Advanced[k] = f /\ \A j \in DOMAIN frames : j # k => Advanced[j] = frames[j]
  BY <1>1, <1>2, Replaced
<1> QED
  BY <1>4, <1>5

LEMMA InnerAtWork ==
  ASSUME TypeOK, frames # <<>>, HasElement, FramesNets(netlist, devices, frames)
  PROVE  AtWork(netlist, devices, Inner) /\ TakenFrom(netlist, Inner, Device(Element))
<1>1. /\ Len(frames) \in DOMAIN frames
      /\ Inner.scope \in Scopes /\ Inner.at \in 1 .. Len(Body(Inner.scope)) + 1
      /\ IsSeq(Inner.path) /\ Len(Body(Inner.scope)) \in Nat
  BY InnerType
<1>2. Inner.at \in 1 .. Len(Body(Inner.scope))
  BY <1>1 DEF HasElement
<1>3. NotYet(netlist, devices, Inner) /\ PortsFrom(netlist, devices, Inner)
  BY <1>1 DEF FramesNets, Inner
<1>4. IsSeq(Body(Inner.scope))
  BY <1>1, NetlistType DEF TypeOK
<1>5. AtWork(netlist, devices, Inner)
  BY <1>1, <1>2, <1>3, <1>4, OfNetlist DEF AtWork
<1> DEFINE d == Device(Element)
<1>6. d.path = Inner.path /\ d.element = Element /\ d.nodes = MappedNodes(Element)
  BY DEF Device
<1>7. Element = BodyOf(netlist, Inner.scope)[Inner.at]
  BY OfNetlist DEF Element
<1>8. \A x : Mapped(x) = MappedTo(Inner, x)
  BY DEF Mapped, MappedTo
<1> HIDE DEF d
<1>9. \A i \in DOMAIN Element.nodes : d.nodes[i] = MappedTo(Inner, Element.nodes[i])
  BY <1>6, <1>8 DEF MappedNodes
<1>10. TakenFrom(netlist, Inner, d)
  BY <1>6, <1>7, <1>9 DEF TakenFrom
<1> QED
  BY <1>5, <1>10 DEF d

\* zip gives every port the node that the call passes for it.
LEMMA BoundGives ==
  ASSUME TypeOK, WellFormed(netlist), frames # <<>>, HasElement, IsDefinedCall(Element)
  PROVE  GivenTo(netlist, Device(Element), Bound(Element))
<1> DEFINE e == Element
           ports == Ports(e.model)
           bound == 1 .. (IF Len(ports) < Len(e.nodes) THEN Len(ports) ELSE Len(e.nodes))
           pick(p) == CHOOSE i \in bound : ports[i] = p /\ \A j \in bound : ports[j] = p => j <= i
           given == Bound(e)
<1>1. given = [p \in {ports[i] : i \in bound} |-> Mapped(e.nodes[pick(p)])]
  BY DEF Bound
<1>2. netlist \in Netlists /\ e.model \in Defined
  BY DEF TypeOK, IsDefinedCall
<1>3. /\ IsSeq(ports) /\ IsSeq(e.nodes)
      /\ DOMAIN e.nodes = DOMAIN ports
      /\ \A i, j \in DOMAIN ports : ports[i] = ports[j] => i = j
  <2>1. PICK s \in Scopes : e \in ToSet(Body(s))
    BY InnerType
  <2>2. IsSeq(ports)
    BY <1>2, NetlistAssumption DEF Ports, Defined
  <2>3. IsSeq(e.nodes)
    BY <1>2, <2>1, NetlistAssumption DEF Scopes, Defined, Body
  <2>4. ports = PortsOf(netlist, e.model)
    BY DEF Ports, PortsOf
  <2> HIDE DEF e, ports
  <2>5. DOMAIN e.nodes = DOMAIN PortsOf(netlist, e.model)
    BY <2>1, OfNetlist DEF WellFormed, e
  <2>6. \A i, j \in DOMAIN ports : ports[i] = ports[j] => i = j
    BY <1>2, <2>4 DEF WellFormed, Defined
  <2> QED
    BY <2>2, <2>3, <2>4, <2>5, <2>6
<1> HIDE DEF e, ports, given
<1>4. bound = DOMAIN ports /\ DOMAIN ports \subseteq Nat
  <2>1. /\ DOMAIN ports = 1 .. Len(ports) /\ Len(ports) \in Nat
        /\ DOMAIN e.nodes = 1 .. Len(e.nodes) /\ Len(e.nodes) \in Nat
    BY <1>3, Sequence
  <2>2. Len(ports) = Len(e.nodes)
    <3>1. \A k, l \in Nat : 1 .. k = 1 .. l => k = l
      <4> SUFFICES ASSUME NEW k \in Nat, NEW l \in Nat, 1 .. k = 1 .. l PROVE k = l
        OBVIOUS
      <4>1. (k \in 1 .. k <=> k \in 1 .. l) /\ (l \in 1 .. k <=> l \in 1 .. l)
        /\ (k + 1 \in 1 .. k <=> k + 1 \in 1 .. l) /\ (l + 1 \in 1 .. k <=> l + 1 \in 1 .. l)
        OBVIOUS
      <4> QED
        BY <4>1
    <3> QED
      BY <1>3, <2>1, <3>1
  <2> QED
    BY <2>1, <2>2
<1> DEFINE last(p, i) == ports[i] = p /\ \A j \in bound : ports[j] = p => j <= i
<1>5. ASSUME NEW i \in DOMAIN ports
      PROVE  pick(ports[i]) = i
  <2>1. i \in bound /\ last(ports[i], i)
    BY <1>3, <1>4
  <2>2. \A k \in bound : last(ports[i], k) => k = i
    BY <1>3, <1>4
  <2>3. pick(ports[i]) = CHOOSE k \in bound : last(ports[i], k)
    OBVIOUS
  <2> HIDE DEF bound, last
  <2> QED
    BY <2>1, <2>2, <2>3
<1> HIDE DEF bound
<1>6. DOMAIN given = ToSet(ports) /\ \A i \in DOMAIN ports : given[ports[i]] = Mapped(e.nodes[pick(ports[i])])
  <2> HIDE DEF pick
  <2> QED
    BY <1>1, <1>4 DEF ToSet
<1>7. \A i \in DOMAIN ports : given[ports[i]] = Mapped(e.nodes[i])
  BY <1>5, <1>6
<1> DEFINE d == Device(e)
<1>8. d.element = e /\ \A i \in DOMAIN e.nodes : d.nodes[i] = Mapped(e.nodes[i])
  BY DEF Device, MappedNodes
<1>9. ports = PortsOf(netlist, e.model)
  BY DEF Ports, PortsOf, ports
<1> HIDE DEF d
<1>10. GivenTo(netlist, d, given)
  BY <1>3, <1>6, <1>7, <1>8, <1>9 DEF GivenTo
<1> QED
  BY <1>10 DEF d, given, e

LEMMA NetsKept ==
  ASSUME NetsInv, netlist' = netlist, devices' = devices, frames' = frames, pc' # "cost" \/ pc' = pc
  PROVE  NetsInv'
BY DEF NetsInv

\* The frames are at different depths.
LEMMA PathsDiffer ==
  ASSUME TypeOK, frames # <<>>, NEW m, m = Len(frames)
  PROVE  /\ \A j \in DOMAIN frames : j # m => frames[j].path # frames[m].path
         /\ \A j \in DOMAIN frames : frames[j].at \in Nat
<1>1. m \in DOMAIN frames /\ DOMAIN frames = 1 .. m /\ m \in Nat
  BY InnerType
<1>2. \A j \in DOMAIN frames : Len(frames[j].path) = j - 1 /\ frames[j].at \in 1 .. Len(Body(frames[j].scope)) + 1
  BY DEF TypeOK
<1>3. ASSUME NEW j \in DOMAIN frames, j # m
      PROVE  frames[j].path # frames[m].path
  <2>1. j - 1 # m - 1
    BY <1>1, <1>3
  <2> QED
    BY <1>1, <1>2, <2>1
<1>4. \A j \in DOMAIN frames : frames[j].at \in Nat
  BY <1>2
<1> QED
  BY <1>3, <1>4

LEMMA LeafKeepsNets ==
  ASSUME TypeOK, TakeLeaf, WellFormed(netlist), NetsOK(netlist, devices), FramesNets(netlist, devices, frames)
  PROVE  NetsOK(netlist, devices') /\ FramesNets(netlist, devices', frames')
<1> DEFINE m == Len(frames)
           d == Device(Element)
<1>1. /\ frames # <<>> /\ HasElement
      /\ devices' = Append(devices, d) /\ frames' = Advanced
  BY DEF TakeLeaf, Expanding
<1>2. m \in DOMAIN frames /\ frames[m] = Inner
  BY <1>1, InnerIs
<1>3. AtWork(netlist, devices, frames[m]) /\ TakenFrom(netlist, frames[m], d)
  BY <1>1, <1>2, InnerAtWork
<1>4. Past(frames, Advanced) /\ \A j \in DOMAIN frames : Advanced[j].ports = frames[j].ports
  BY <1>1, AdvancedPasses, AdvancedPorts
<1>5. /\ \A j \in DOMAIN frames : j # m => frames[j].path # frames[m].path
      /\ \A j \in DOMAIN frames : frames[j].at \in Nat
  BY <1>1, PathsDiffer
<1>6. m = Len(frames) /\ IsSeq(devices)
  BY DEF TypeOK
<1> HIDE DEF m, d
<1>7. Longer(devices, d, devices')
  BY <1>1, <1>6, LongerBy
<1>8. NetsOK(netlist, devices')
  BY <1>3, <1>7, NetsGrow
<1>9. FramesNets(netlist, devices', Advanced)
  BY <1>2, <1>3, <1>4, <1>5, <1>6, <1>7, FramesAfter
<1> QED
  BY <1>1, <1>8, <1>9

LEMMA CallKeepsNets ==
  ASSUME TypeOK, TakeCall, WellFormed(netlist), NetsOK(netlist, devices), FramesNets(netlist, devices, frames)
  PROVE  NetsOK(netlist, devices') /\ FramesNets(netlist, devices', frames')
<1> DEFINE m == Len(frames)
           d == Device(Element)
           h == Frame(Element.model, Append(Inner.path, Element.name), Bound(Element))
<1>1. /\ frames # <<>> /\ HasElement /\ Opens(Element)
      /\ devices' = Append(devices, d) /\ frames' = Append(Advanced, h)
  BY DEF TakeCall, Expanding
<1>2. m \in DOMAIN frames /\ frames[m] = Inner
  BY <1>1, InnerIs
<1>3. AtWork(netlist, devices, frames[m]) /\ TakenFrom(netlist, frames[m], d)
  BY <1>1, <1>2, InnerAtWork
<1>4. /\ Past(frames, Advanced) /\ IsSeq(Advanced)
      /\ \A j \in DOMAIN frames : Advanced[j].ports = frames[j].ports
  BY <1>1, AdvancedPasses, AdvancedPorts
<1>5. /\ \A j \in DOMAIN frames : j # m => frames[j].path # frames[m].path
      /\ \A j \in DOMAIN frames : frames[j].at \in Nat
  BY <1>1, PathsDiffer
<1>6. m = Len(frames) /\ IsSeq(devices)
  BY DEF TypeOK
<1>7. IsDefinedCall(Element) /\ CallIn(netlist, Element)
  BY <1>1, OfNetlist DEF Opens
<1>8. h.path = Below(d) /\ h.ports = Bound(Element) /\ d.element = Element
  BY DEF Frame, Below, Device
<1>9. GivenTo(netlist, d, h.ports)
  BY <1>1, <1>7, <1>8, BoundGives
<1> HIDE DEF m, d, h
<1>10. Longer(devices, d, devices')
  BY <1>1, <1>6, LongerBy
<1>11. NetsOK(netlist, devices')
  BY <1>3, <1>10, NetsGrow
<1>12. FramesNets(netlist, devices', Advanced)
  BY <1>2, <1>3, <1>4, <1>5, <1>6, <1>10, FramesAfter
<1>13. FramesNets(netlist, devices', frames')
  BY <1>1, <1>3, <1>4, <1>7, <1>8, <1>9, <1>10, <1>12, FramesCalled
<1> QED
  BY <1>11, <1>13

LEMMA NextNetsInv ==
  ASSUME TypeOK, NetsInv, Next
  PROVE  NetsInv'
<1>1. CASE Estimate
  <2> DEFINE f == Frame(Top, <<>>, <<>>)
  <2>1. netlist' = netlist /\ devices' = <<>> /\ devices = <<>> /\ frames' = <<f>> /\ pc' = "expand"
    BY <1>1 DEF Estimate, NetsInv
  <2>2. f.path = <<>> /\ DOMAIN f.ports = {}
    BY DEF Frame
  <2> HIDE DEF f
  <2>3. DOMAIN <<f>> = {1} /\ <<f>>[1] = f /\ DOMAIN <<>> = {}
    OBVIOUS
  <2>4. \A ds : DOMAIN ds = {} => NotYet(netlist, ds, f) /\ PortsFrom(netlist, ds, f)
    BY <2>2 DEF NotYet, PortsFrom
  <2>5. FramesNets(netlist, devices', frames')
    BY <2>1, <2>3, <2>4 DEF FramesNets
  <2> QED
    BY <2>1, <2>5 DEF NetsInv
<1>2. CASE TakeLeaf
  <2>1. pc = "expand" /\ pc' = pc /\ netlist' = netlist
    BY <1>2 DEF TakeLeaf, Expanding
  <2> QED
    BY <1>2, <2>1, LeafKeepsNets DEF NetsInv
<1>3. CASE TakeCall
  <2>1. pc = "expand" /\ pc' = pc /\ netlist' = netlist
    BY <1>3 DEF TakeCall, Expanding
  <2> QED
    BY <1>3, <2>1, CallKeepsNets DEF NetsInv
<1>4. CASE Return
  <2>1. /\ pc = "expand" /\ pc' \in {"expand", "done"} /\ netlist' = netlist /\ devices' = devices
        /\ frames' = Front(frames) /\ frames # <<>>
    BY <1>4 DEF Return, Expanding
  <2>2. \A j \in DOMAIN Front(frames) : j \in DOMAIN frames /\ Front(frames)[j] = frames[j]
    BY <2>1, Shortened DEF TypeOK
  <2> HIDE DEF Front
  <2>3. FramesNets(netlist, devices, frames) => FramesNets(netlist, devices', frames')
    BY <2>1, <2>2 DEF FramesNets
  <2> QED
    BY <2>1, <2>3 DEF NetsInv
<1> QED
  BY <1>1, <1>2, <1>3, <1>4 DEF Next

LEMMA InitNetsInv == AuditInit => NetsInv
<1> SUFFICES ASSUME AuditInit PROVE NetsInv
  OBVIOUS
<1>1. devices = <<>> /\ frames = <<>> /\ DOMAIN <<>> = {} /\ IsSeq(<<>>)
  BY DEF AuditInit, Init, IsSeq
<1> QED
  BY <1>1 DEF NetsInv, NetsOK, Distinct, FramesNets

LEMMA AuditNetsInv == AuditInv /\ NetsInv /\ [AuditNext]_auditVars => NetsInv'
<1> SUFFICES ASSUME AuditInv, NetsInv, [AuditNext]_auditVars PROVE NetsInv'
  OBVIOUS
<1>1. CASE Audit
  BY <1>1, NetsKept DEF Audit
<1>2. CASE Next
  <2>1. pc # "audited"
    BY <1>2 DEF Next, Estimate, TakeLeaf, TakeCall, Return, Expanding
  <2>2. TypeOK
    BY <2>1 DEF AuditInv, IInv
  <2> QED
    BY <1>2, <2>2, NextNetsInv
<1>3. CASE UNCHANGED auditVars
  BY <1>3, NetsKept DEF auditVars, vars
<1> QED
  BY <1>1, <1>2, <1>3 DEF AuditNext

\* The ties of the property are those of the invariant, and finitely many.
LEMMA TiesAre ==
  ASSUME DevicesInv, NetsOK(netlist, devices)
  PROVE  /\ SameNets = NetsTied(netlist, devices) /\ Homonyms = Alike(netlist, devices)
         /\ IsFiniteSet(NetsTied(netlist, devices) \union Alike(netlist, devices))
<1>1. SameNets = NetsTied(netlist, devices)
  BY Zenon DEF SameNets, NetsTied, CallDevices, Passing, PortEdge, PortNet, NetOf, ZeroEdge, ZeroNet, Below,
                IsDefinedCall, CallIn, Defined, Ports, PortsOf
<1>2. \A k \in DOMAIN devices : IsSeq(devices[k].element.nodes)
  BY NetlistAssumption DEF DevicesInv, Scopes, Defined, Body
<1>3. IsFiniteSet(NetsTied(netlist, devices)) /\ IsFiniteSet(Alike(netlist, devices))
  BY <1>2, TiesFinite, AlikeFinite DEF DevicesInv, DevicesOK
<1> DEFINE isPort(net) ==
             \E c \in ToSet(devices) : /\ IsDefinedCall(c.element)
                                       /\ net[1] = Append(c.path, c.element.name)
                                       /\ net[2] \in ToSet(Ports(c.element.model))
<1>4. ASSUME NEW p, NEW x
      PROVE  isPort(<<p, x>>) <=> ~IsLocal(netlist, devices, <<p, x>>)
  <2>1. ASSUME NEW c \in ToSet(devices), IsDefinedCall(c.element),
               p = Append(c.path, c.element.name), x \in ToSet(Ports(c.element.model))
        PROVE  ~IsLocal(netlist, devices, <<p, x>>)
    <3>1. PICK k \in DOMAIN devices : devices[k] = c
      BY DEF ToSet
    <3>2. CallIn(netlist, c.element) /\ x \in ToSet(PortsOf(netlist, c.element.model)) /\ p = Below(c)
      BY <2>1 DEF IsDefinedCall, CallIn, Defined, Ports, PortsOf, Below
    <3>3. DOMAIN c.element.nodes = DOMAIN PortsOf(netlist, c.element.model)
      BY <3>1, <3>2 DEF NetsOK, PinsFit
    <3>4. PICK i \in DOMAIN c.element.nodes : PortsOf(netlist, c.element.model)[i] = x
      BY <3>2, <3>3 DEF ToSet
    <3>5. PassesTo(netlist, devices, <<p, x>>, k, i)
      BY <3>1, <3>2, <3>4 DEF PassesTo, PortNet
    <3> QED
      BY <3>5 DEF IsLocal
  <2>2. ASSUME NEW k, NEW i, PassesTo(netlist, devices, <<p, x>>, k, i)
        PROVE  isPort(<<p, x>>)
    <3> DEFINE c == devices[k]
    <3>1. k \in DOMAIN devices /\ CallIn(netlist, c.element) /\ i \in DOMAIN c.element.nodes
          /\ Below(c) = p /\ PortsOf(netlist, c.element.model)[i] = x
      BY <2>2 DEF PassesTo, PortNet
    <3>2. i \in DOMAIN PortsOf(netlist, c.element.model)
      BY <3>1 DEF NetsOK, PinsFit
    <3>3. c \in ToSet(devices) /\ x \in ToSet(Ports(c.element.model))
      BY <3>1, <3>2 DEF ToSet, Ports, PortsOf
    <3> HIDE DEF c
    <3> QED
      BY <3>1, <3>3 DEF IsDefinedCall, CallIn, Defined, Below
  <2> QED
    BY <2>1, <2>2 DEF IsLocal
<1> HIDE DEF isPort
<1>5. \A net \in PinNets(devices) : isPort(net) <=> ~IsLocal(netlist, devices, net)
  BY <1>4 DEF PinNets
<1>6. OwnNets = {ZeroNet} \union {net \in PinNets(devices) : net[2] # Zero /\ ~isPort(net)}
  BY Zenon DEF OwnNets, isPort, ZeroNet, PinNets
<1>7. OwnNets = OwnOf(netlist, devices)
  BY <1>5, <1>6 DEF OwnOf, IsOwn
<1>8. Homonyms = Alike(netlist, devices)
  BY <1>7, Zenon DEF Homonyms, Alike, Text
<1> QED
  BY <1>1, <1>3, <1>8, FS_Union

\* circuit_graph.py:362: terminals share a node of the expanded circuit exactly
\* when ports, global nodes and names that are spelled alike connect their nets in
\* the hierarchy, at any depth of calls and for any netlist whose names and port
\* counts no finding denies.
THEOREM NetsJoined == AuditSpec => []NetsAreConnections
<1>1. AuditInv /\ NetsInv => NetsAreConnections
  <2> SUFFICES ASSUME AuditInv, NetsInv, Issues \subseteq {"GRAPH003"},
                      NEW c \in ToSet(devices), NEW i \in DOMAIN c.nodes,
                      NEW d \in ToSet(devices), NEW j \in DOMAIN d.nodes
               PROVE  c.nodes[i] = d.nodes[j]
                        <=> <<d.path, d.element.nodes[j]>>
                              \in Reached({<<c.path, c.element.nodes[i]>>}, SameNets \union Homonyms)
    BY Zenon DEF NetsAreConnections
  <2>1. DevicesInv /\ netlist \in Netlists
    BY DEF AuditInv, DevicesInv
  <2>2. WellFormed(netlist) /\ NetsOK(netlist, devices)
    BY <2>1, IssuesForm DEF NetsInv
  <2>3. i \in DOMAIN c.element.nodes /\ j \in DOMAIN d.element.nodes
    BY <2>1 DEF DevicesInv, ToSet
  <2> DEFINE ties == NetsTied(netlist, devices) \union Alike(netlist, devices)
  <2>4. SameNets \union Homonyms = ties /\ IsFiniteSet(ties)
    BY <2>1, <2>2, TiesAre
  <2>5. c.nodes[i] = d.nodes[j] <=> NetOf(d, j) \in Reached({NetOf(c, i)}, ties)
    BY <2>2, <2>3, <2>4, PinsMeet
  <2> HIDE DEF ties
  <2> QED
    BY <2>4, <2>5 DEF NetOf
<1> QED
  BY InitAuditInv, NextAuditInv, InitNetsInv, AuditNetsInv, <1>1, PTL DEF AuditSpec
=============================================================================
