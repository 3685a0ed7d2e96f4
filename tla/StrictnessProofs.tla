-------------------------- MODULE StrictnessProofs --------------------------
(***************************************************************************)
(* StrictnessAnalysis says what the interpreter did: the orders, escapes   *)
(* and rows of arguments are true for every set of promises, positions and *)
(* contexts and every bound.                                               *)
(***************************************************************************)
EXTENDS Strictness, TracerStackProofs

-----------------------------------------------------------------------------
(* The stacks under the analysis are those of TracerStack. *)

(* A step of the analysis is a step of the tracer, or leaves it alone. *)
LEMMA StepOfTracer == [StrictnessNext]_allVars => [Next]_vars
<1>1. UNCHANGED allVars => UNCHANGED vars
  BY DEF allVars
<1>2. ASSUME NEW args \in Arguments, ClosureEntry(args) PROVE Next
  BY <1>2 DEF ClosureEntry, Next, FunctionTypes
<1>3. ASSUME NEW fn \in {"special", "builtin"}, BuiltinEntry(fn) PROVE Next
  BY <1>3 DEF BuiltinEntry, Next, FunctionTypes
<1>4. ASSUME NEW fn \in FunctionTypes, FunctionExits(fn) PROVE Next
  BY <1>4 DEF FunctionExits, Next
<1>5. ASSUME NEW p \in Promises, ForceEntry(p) \/ ForceExit(p) PROVE Next
  BY <1>5 DEF ForceEntry, ForceExit, Next
<1>6. ASSUME NEW p \in Promises,
             PromiseValueLookup(p) \/ PromiseMetaprogram(p) \/ PromiseCollected(p)
      PROVE  UNCHANGED vars
  BY <1>6 DEF PromiseValueLookup, PromiseMetaprogram, PromiseCollected
<1>7. PassBegins \/ PassEnds \/ Contextual => Next
  BY DEF PassBegins, PassEnds, Contextual, Next
<1> QED
  BY <1>1, <1>2, <1>3, <1>4, <1>5, <1>6, <1>7 DEF StrictnessNext

(* Hence all that is proved of TracerStack holds of Strictness. *)
LEMMA SpecOfTracer == StrictnessSpec => Spec
<1>1. StrictnessInit => Init
  BY DEF StrictnessInit
<1> QED
  BY <1>1, StepOfTracer, PTL DEF StrictnessSpec, Spec

-----------------------------------------------------------------------------
(* The calls the interpreter is in. *)

CurrentCalls == {frames[i].id : i \in {j \in DOMAIN frames : frames[j].type = "CALL"}}

LEMMA InCallCurrent == \A c : InCall(c) <=> c \in CurrentCalls
  BY DEF InCall, CurrentCalls

(* They are active, and have no row. *)
LEMMA CurrentActive ==
  ASSUME LInv
  PROVE  /\ CurrentCalls \subseteq ActiveCalls /\ CurrentCalls \cap calls = {}
         /\ CurrentCalls \subseteq 1..call_id_counter
<1>1. frames = full_stack /\ frames \in Seq(StackEvents)
  BY DEF LInv, IInv, TypeOK, FullStackMirrors
<1>2. ASSUME NEW j \in DOMAIN frames, frames[j].type = "CALL"
      PROVE  frames[j].id \in ActiveCalls
  <2>1. j \in Upto(full_stack, {"CALL"}, Len(full_stack))
    BY <1>1, <1>2 DEF Upto, Between
  <2> QED
    BY <1>1, <2>1, StackedIsActive DEF LInv
<1>3. CurrentCalls \subseteq ActiveCalls
  BY <1>2 DEF CurrentCalls
<1> QED
  BY <1>3 DEF LInv, CallsAccounted

(* A call the interpreter is in stays so, or has its row, while the pass *)
(* lasts; and no row is ever taken back.                                 *)
LEMMA CurrentStay ==
  ASSUME LInv, [Next]_vars
  PROVE  /\ calls \subseteq calls'
         /\ phase' = "tracing" => CurrentCalls \subseteq CurrentCalls' \cup calls'
<1>1. IInv /\ IInv'
  BY NextLInv DEF LInv
<1>2. /\ frames = full_stack /\ frames' = full_stack'
      /\ full_stack \in Seq(StackEvents) /\ full_stack' \in Seq(StackEvents)
  BY <1>1 DEF IInv, TypeOK, FullStackMirrors
<1>3. CASE UNCHANGED <<full_stack, open, calls, call_stack, call_id_counter>>
  BY <1>2, <1>3 DEF CurrentCalls
<1>4. CASE phase' = "idle" /\ full_stack' = <<>> /\ open' = <<>> /\ UNCHANGED <<calls, call_stack, call_id_counter>>
  BY <1>4
<1>5. ASSUME NEW e \in StackEvents, Pushes(e)
      PROVE  calls \subseteq calls' /\ CurrentCalls \subseteq CurrentCalls'
  <2>1. full_stack' = Append(full_stack, e) /\ calls' = calls
    BY <1>5 DEF Pushes
  <2>2. \A i \in DOMAIN frames : i \in DOMAIN frames' /\ frames'[i] = frames[i]
    BY <1>2, <2>1
  <2> QED
    BY <2>1, <2>2 DEF CurrentCalls
<1>6. ASSUME NEW n \in 0..Len(full_stack), Pops(n)
      PROVE  calls \subseteq calls' /\ CurrentCalls \subseteq CurrentCalls' \cup calls'
  <2>1. /\ full_stack' = SubSeq(full_stack, 1, n)
        /\ calls' = calls \cup {full_stack[i].id : i \in Unwound(n, {"CALL"})}
    BY <1>6 DEF Pops
  <2>2. ASSUME NEW i \in DOMAIN frames, frames[i].type = "CALL"
        PROVE  frames[i].id \in CurrentCalls' \cup calls'
    <3>1. CASE i <= n
      <4>1. i \in DOMAIN frames' /\ frames'[i] = frames[i]
        BY <1>2, <2>1, <3>1
      <4> QED
        BY <2>2, <4>1 DEF CurrentCalls
    <3>2. CASE ~(i <= n)
      <4>1. i \in Unwound(n, {"CALL"})
        BY <1>2, <2>2, <3>2 DEF Unwound, Between
      <4> QED
        BY <1>2, <2>1, <4>1
    <3> QED
      BY <3>1, <3>2
  <2> QED
    BY <2>1, <2>2 DEF CurrentCalls
<1> QED
  BY <1>1, <1>3, <1>4, <1>5, <1>6, StepKinds

-----------------------------------------------------------------------------
(* What get_call_state finds on call_stack_ is what the interpreter is doing: *)
(* for a call it is in, the call is a leaf if and only if no closure was      *)
(* entered above it.                                                          *)
LEMMA LeafIsInnermost ==
  ASSUME LInv, NEW c, InCall(c)
  PROVE  IsLeaf(c) <=> InnermostClosure(c)
<1> DEFINE m == Len(full_stack)
           l == Len(call_stack)
           C == Upto(full_stack, {"CALL"}, m)
           total == Cardinality(C)
           q(i) == l - total + Cardinality(Upto(full_stack, {"CALL"}, i))
<1>1. /\ frames = full_stack /\ full_stack \in Seq(StackEvents) /\ call_stack \in Seq(CallEvents)
      /\ Agrees(call_stack, full_stack, {"CALL"})
      /\ \A i, j \in DOMAIN call_stack : call_stack[i].id = call_stack[j].id => i = j
  BY DEF LInv, IInv, TypeOK, FullStackMirrors, CallStackAgrees, CallsAccounted
<1>2. /\ m \in Nat /\ DOMAIN full_stack = 1..m /\ l \in Nat /\ DOMAIN call_stack = 1..l
      /\ total \in Nat /\ l - total \in Nat
  BY <1>1, UptoFinite DEF Agrees
<1>3. \A i \in C : i \in 1..m /\ full_stack[i].type = "CALL" /\ Cardinality(Upto(full_stack, {"CALL"}, i)) \in 1..total
  BY <1>2, UptoIndex
<1>4. \A i \in 1..m : full_stack[i].type = "CALL" => i \in C
  BY DEF Upto, Between
<1>5. \A i \in C : q(i) \in (l - total + 1)..l /\ call_stack[q(i)] = full_stack[i]
  <2>1. \A i \in C : call_stack[q(i)] = full_stack[i]
    BY <1>1 DEF Agrees
  <2> HIDE DEF C, total, m, l
  <2> QED
    BY <1>2, <1>3, <2>1
<1>6. \A i, j \in C : i < j => q(i) < q(j)
  <2>1. \A i, j \in C : i < j =>
          Cardinality(Upto(full_stack, {"CALL"}, i)) < Cardinality(Upto(full_stack, {"CALL"}, j))
    BY <1>2, UptoStrict
  <2> HIDE DEF C, total, m, l
  <2> QED
    BY <1>2, <1>3, <2>1
<1>7. \A k \in (l - total + 1)..l : \E i \in C : q(i) = k
  <2>1. Cardinality(Upto(full_stack, {"CALL"}, 0)) = 0
    <3>1. Upto(full_stack, {"CALL"}, 0) = {}
      BY DEF Upto, Between
    <3> QED
      BY <3>1, FS_EmptySet
  <2>2. ASSUME NEW n \in 1..total
        PROVE  \E i \in C : Cardinality(Upto(full_stack, {"CALL"}, i)) = n
    <3>1. n \in (0 + 1)..total /\ 0 \in Nat /\ 0 <= m
      BY <1>2
    <3>2. PICK i \in Between(full_stack, {"CALL"}, 0, m) : Cardinality(Upto(full_stack, {"CALL"}, i)) = n
      <4> HIDE DEF m
      <4> QED
        BY <1>2, <2>1, <3>1, UptoOnto
    <3> QED
      BY <3>2 DEF Upto
  <2> HIDE DEF C, total, m, l
  <2>3. \A k \in (l - total + 1)..l : k - (l - total) \in 1..total
    BY <1>2
  <2> QED
    BY <1>2, <1>3, <2>2, <2>3
<1> HIDE DEF q, C, total, m, l
<1>8. \A i \in C : q(i) \in DOMAIN call_stack /\ q(i) \in 1..l
  BY <1>2, <1>5
<1>9. PICK i \in C : full_stack[i].id = c
  BY <1>1, <1>2, <1>4 DEF InCall
<1>10. ASSUME InnermostClosure(c) PROVE IsLeaf(c)
  <2>1. PICK k \in 1..m : /\ full_stack[k].type = "CALL" /\ full_stack[k].id = c
                          /\ \A j \in (k + 1)..m : full_stack[j].fn # "closure"
    BY <1>1, <1>2, <1>10 DEF InnermostClosure, m
  <2>2. k \in C /\ call_stack[q(k)].id = c
    BY <1>4, <1>5, <2>1
  <2>3. ASSUME NEW j \in (q(k) + 1)..l PROVE call_stack[j].fn # "closure"
    <3>1. j \in (l - total + 1)..l /\ q(k) < j
      BY <1>2, <1>5, <2>2
    <3>2. PICK h \in C : q(h) = j
      BY <1>7, <3>1
    <3>3. ~(h < k) /\ h # k
      BY <1>2, <1>6, <1>8, <2>2, <3>1, <3>2
    <3>4. h \in (k + 1)..m
      BY <1>2, <1>3, <2>2, <3>2, <3>3
    <3> QED
      BY <1>5, <2>1, <3>2, <3>4
  <2> QED
    BY <1>8, <2>2, <2>3 DEF IsLeaf, l
<1>11. ASSUME IsLeaf(c) PROVE InnermostClosure(c)
  <2>1. PICK k \in DOMAIN call_stack : /\ call_stack[k].id = c
                                       /\ \A j \in (k + 1)..l : call_stack[j].fn # "closure"
    BY <1>11 DEF IsLeaf, l
  <2>2. k = q(i) /\ i \in 1..m
    BY <1>1, <1>3, <1>5, <1>8, <1>9, <2>1
  <2>3. ASSUME NEW j \in (i + 1)..m PROVE full_stack[j].fn # "closure"
    <3>1. j \in 1..m /\ i < j
      BY <1>2, <2>2
    <3>2. CASE full_stack[j].type = "CALL"
      <4>1. j \in C /\ q(i) < q(j)
        BY <1>4, <1>6, <1>9, <3>1, <3>2
      <4>2. q(j) \in (k + 1)..l
        BY <1>2, <1>8, <1>9, <2>2, <4>1
      <4> QED
        BY <1>5, <2>1, <4>1, <4>2
    <3>3. CASE full_stack[j].type # "CALL"
      <4>1. full_stack[j] \in StackEvents
        BY <1>1, <1>2, <3>1
      <4> QED
        BY <3>3, <4>1 DEF StackEvents, CallEvents, PromiseEvents, ContextEvents
    <3> QED
      BY <3>2, <3>3
  <2> QED
    BY <1>1, <1>2, <1>3, <1>9, <2>3 DEF InnermostClosure, m
<1> QED
  BY <1>10, <1>11

-----------------------------------------------------------------------------
(* The types of the analysis. *)

ParameterUses == [force : 0..255, lookup : 0..255, metaprogram : 0..255, escape : BOOLEAN]
Counters      == {"force", "lookup", "metaprogram"}
CallState == [order : Seq(Positions), intrinsic_order : Seq(Positions),
              parameters : [Positions -> ParameterUses]]

ArgumentsTyped ==
  /\ DOMAIN arguments = Promises
  /\ \A p \in Promises : arguments[p] \in
       {NoArgument} \cup [argument : {TRUE}, call : 1..call_id_counter, position : Positions]

CallMapTyped == Len(call_map) = call_id_counter /\ call_map \in Seq(CallState)

RowsTyped == argument_rows \in Seq(SUBSET [Positions -> ParameterUses])

(* A use of a parameter counts once, wrapping, and leaves the other counters; *)
(* it marks an escape exactly if the call is no longer active.                *)
LEMMA UsedOnce ==
  ASSUME NEW u \in ParameterUses, NEW counter \in Counters, NEW active \in BOOLEAN
  PROVE  /\ Used(u, counter, active) \in ParameterUses
         /\ Used(u, counter, active).escape = (u.escape \/ ~active)
         /\ Used(u, counter, active).force =
              IF counter = "force" THEN (u.force + 1) % 256 ELSE u.force
<1> DEFINE w == Counted(u, counter)
<1>1. \A n \in 0..255 : UInt8(n + 1) = (n + 1) % 256 /\ UInt8(n + 1) \in 0..255
  BY DEF UInt8
<1>2. CASE counter = "force"
  <2>1. w = [u EXCEPT !["force"] = UInt8(u["force"] + 1)]
    BY <1>2 DEF Counted
  <2>2. w \in ParameterUses /\ w.escape = u.escape /\ w.force = (u.force + 1) % 256
    BY <1>1, <2>1, ZenonT(60) DEF ParameterUses
  <2> HIDE DEF w
  <2>3. Used(u, counter, active) = [w EXCEPT !.escape = w.escape \/ ~active]
    BY DEF Used, w
  <2> QED
    BY <1>2, <2>2, <2>3, ZenonT(60) DEF ParameterUses
<1>3. CASE counter = "lookup"
  <2>1. w = [u EXCEPT !["lookup"] = UInt8(u["lookup"] + 1)]
    BY <1>3 DEF Counted
  <2>2. w \in ParameterUses /\ w.escape = u.escape /\ w.force = u.force
    BY <1>1, <2>1, ZenonT(60) DEF ParameterUses
  <2> HIDE DEF w
  <2>3. Used(u, counter, active) = [w EXCEPT !.escape = w.escape \/ ~active]
    BY DEF Used, w
  <2> QED
    BY <1>3, <2>2, <2>3, ZenonT(60) DEF ParameterUses
<1>4. CASE counter = "metaprogram"
  <2>1. w = [u EXCEPT !["metaprogram"] = UInt8(u["metaprogram"] + 1)]
    BY <1>4 DEF Counted
  <2>2. w \in ParameterUses /\ w.escape = u.escape /\ w.force = u.force
    BY <1>1, <2>1, ZenonT(60) DEF ParameterUses
  <2> HIDE DEF w
  <2>3. Used(u, counter, active) = [w EXCEPT !.escape = w.escape \/ ~active]
    BY DEF Used, w
  <2> QED
    BY <1>4, <2>2, <2>3, ZenonT(60) DEF ParameterUses
<1> QED
  BY <1>2, <1>3, <1>4 DEF Counters

(* What a use of position k of call c does to the calls: a force may add k *)
(* to the orders, and every other call and position stays as it is.        *)
UsesOf(c, k, counter) ==
  LET first == counter = "force" /\ IsActive(c) /\ call_map[c].parameters[k].force = 0 IN
  /\ call_map' \in Seq(CallState) /\ DOMAIN call_map' = DOMAIN call_map
  /\ \A d \in DOMAIN call_map : d # c => call_map'[d] = call_map[d]
  /\ \A j \in Positions : j # k => call_map'[c].parameters[j] = call_map[c].parameters[j]
  /\ call_map'[c].parameters[k] = Used(call_map[c].parameters[k], counter, IsActive(c))
  /\ call_map'[c].order =
       IF first THEN Append(call_map[c].order, k) ELSE call_map[c].order
  /\ call_map'[c].intrinsic_order =
       IF first /\ IsLeaf(c) THEN Append(call_map[c].intrinsic_order, k)
       ELSE call_map[c].intrinsic_order

(* A promise that is an argument was given to a call that has a state. *)
LEMMA ArgumentFound ==
  ASSUME ArgumentsTyped, CallMapTyped, NEW p \in Promises, arguments[p].argument
  PROVE  /\ arguments[p].call \in DOMAIN call_map /\ arguments[p].position \in Positions
         /\ call_map[arguments[p].call] \in CallState
         /\ call_map[arguments[p].call].parameters[arguments[p].position] \in ParameterUses
<1>1. arguments[p] \in [argument : {TRUE}, call : 1..call_id_counter, position : Positions]
  <2>1. ~NoArgument.argument
    BY DEF NoArgument
  <2> QED
    BY <2>1 DEF ArgumentsTyped
<1>2. DOMAIN call_map = 1..call_id_counter
  BY DEF CallMapTyped
<1>3. arguments[p].call \in DOMAIN call_map /\ arguments[p].position \in Positions
  BY <1>1, <1>2
<1>4. \A c \in DOMAIN call_map : call_map[c] \in CallState
  BY DEF CallMapTyped
<1> QED
  BY <1>3, <1>4 DEF CallState

LEMMA SeqExcept ==
  ASSUME NEW S, NEW s \in Seq(S), NEW i \in DOMAIN s, NEW e \in S
  PROVE  [s EXCEPT ![i] = e] \in Seq(S) /\ DOMAIN [s EXCEPT ![i] = e] = DOMAIN s
  OBVIOUS

(* UseArgument is such a use, of a counter other than that of forces. *)
LEMMA UseIsUse ==
  ASSUME ArgumentsTyped, CallMapTyped, NEW p \in Promises, arguments[p].argument,
         NEW counter \in {"lookup", "metaprogram"}, UseArgument(p, counter)
  PROVE  UsesOf(arguments[p].call, arguments[p].position, counter)
<1> DEFINE c == arguments[p].call
           k == arguments[p].position
           u == Used(call_map[c].parameters[k], counter, IsActive(c))
<1>1. /\ c \in DOMAIN call_map /\ k \in Positions /\ call_map[c] \in CallState
      /\ call_map[c].parameters[k] \in ParameterUses
  BY ArgumentFound
<1>2. counter # "force" /\ counter \in Counters /\ IsActive(c) \in BOOLEAN
  BY DEF Counters, IsActive
<1>3. u \in ParameterUses
  BY <1>1, <1>2, UsedOnce
<1>4. call_map' = [call_map EXCEPT ![c].parameters[k] = u]
  BY DEF UseArgument
<1> HIDE DEF c, k, u
<1>5. call_map'[c] = [call_map[c] EXCEPT !.parameters = [call_map[c].parameters EXCEPT ![k] = u]]
  BY <1>1, <1>4
<1>6. /\ DOMAIN call_map' = DOMAIN call_map
      /\ \A d \in DOMAIN call_map : d # c => call_map'[d] = call_map[d]
  BY <1>4
<1>7. /\ call_map'[c] \in CallState
      /\ call_map'[c].order = call_map[c].order
      /\ call_map'[c].intrinsic_order = call_map[c].intrinsic_order
      /\ call_map'[c].parameters[k] = u
      /\ \A j \in Positions : j # k => call_map'[c].parameters[j] = call_map[c].parameters[j]
  BY <1>1, <1>3, <1>5, SMTT(60) DEF CallState
<1>8. call_map' \in Seq(CallState)
  <2>1. call_map' = [call_map EXCEPT ![c] = call_map'[c]]
    BY <1>1, <1>4, <1>5
  <2>2. call_map \in Seq(CallState)
    BY DEF CallMapTyped
  <2> QED
    BY <1>1, <1>7, <2>1, <2>2, SeqExcept
<1> QED
  BY <1>2, <1>6, <1>7, <1>8 DEF UsesOf, c, k, u

(* ForceArgument is such a use of the counter of forces. *)
LEMMA ForceIsUse ==
  ASSUME ArgumentsTyped, CallMapTyped, NEW p \in Promises, arguments[p].argument,
         ForceArgument(p)
  PROVE  UsesOf(arguments[p].call, arguments[p].position, "force")
<1> DEFINE c == arguments[p].call
           k == arguments[p].position
           s == call_map[c]
           u == Used(s.parameters[k], "force", IsActive(c))
<1>1. /\ c \in DOMAIN call_map /\ k \in Positions /\ s \in CallState
      /\ s.parameters[k] \in ParameterUses
  BY ArgumentFound
<1>2. u \in ParameterUses
  <2>1. "force" \in Counters /\ IsActive(c) \in BOOLEAN
    BY DEF Counters, IsActive
  <2> QED
    BY <1>1, <2>1, UsedOnce
<1>3. call_map' = [call_map EXCEPT ![c] = Forced(s, c, k)]
  BY DEF ForceArgument
<1>4. call_map'[c] = Forced(s, c, k)
  <2> HIDE DEF c, k, s
  <2> QED
    BY <1>1, <1>3
<1>5. /\ DOMAIN call_map' = DOMAIN call_map
      /\ \A d \in DOMAIN call_map : d # c => call_map'[d] = call_map[d]
  <2> HIDE DEF c, k, s
  <2> QED
    BY <1>3
<1> DEFINE first == IsActive(c) /\ s.parameters[k].force = 0
<1>6. /\ Forced(s, c, k).order = IF first THEN Append(s.order, k) ELSE s.order
      /\ Forced(s, c, k).intrinsic_order =
           IF first /\ IsLeaf(c) THEN Append(s.intrinsic_order, k) ELSE s.intrinsic_order
      /\ Forced(s, c, k).parameters = [s.parameters EXCEPT ![k] = u]
      /\ Forced(s, c, k) = [order |-> Forced(s, c, k).order,
                            intrinsic_order |-> Forced(s, c, k).intrinsic_order,
                            parameters |-> Forced(s, c, k).parameters]
  <2> HIDE DEF c, k, s
  <2> QED
    BY DEF Forced
<1> HIDE DEF c, k, u, first
<1>7. /\ s.order \in Seq(Positions) /\ s.intrinsic_order \in Seq(Positions)
      /\ s.parameters \in [Positions -> ParameterUses]
  BY <1>1 DEF CallState
<1> HIDE DEF s
<1>8. Forced(s, c, k) \in CallState
  <2>1. Forced(s, c, k).order \in Seq(Positions) /\ Forced(s, c, k).intrinsic_order \in Seq(Positions)
    BY <1>1, <1>6, <1>7
  <2>2. Forced(s, c, k).parameters \in [Positions -> ParameterUses]
    BY <1>1, <1>2, <1>6, <1>7
  <2> QED
    BY <1>6, <2>1, <2>2 DEF CallState
<1>9. /\ call_map'[c].parameters[k] = u
      /\ \A j \in Positions : j # k => call_map'[c].parameters[j] = s.parameters[j]
  BY <1>1, <1>4, <1>6, <1>7
<1>10. call_map' \in Seq(CallState)
  <2>1. call_map \in Seq(CallState)
    BY DEF CallMapTyped
  <2> QED
    BY <1>1, <1>3, <1>8, <2>1, SeqExcept
<1> QED
  BY <1>4, <1>5, <1>6, <1>9, <1>10 DEF UsesOf, c, k, s, u, first

-----------------------------------------------------------------------------
(* The orders of one call. *)

Consistent(s) ==
  /\ \A k \in Range(s.order) : s.parameters[k].force > 0
  /\ \A k \in Positions : s.parameters[k].force > 0 /\ ~s.parameters[k].escape => k \in Range(s.order)
  /\ InOrderOf(s.intrinsic_order, s.order)
  /\ IsInjective(s.order)

LEMMA ListsConsistent ==
  OrderListsForced <=> (forces < 256 => \A c \in DOMAIN call_map : Consistent(call_map[c]))
  BY DEF OrderListsForced, SingleOrderEntry, Consistent

LEMMA RangeAppend ==
  ASSUME NEW S, NEW s \in Seq(S), NEW e \in S
  PROVE  Range(Append(s, e)) = Range(s) \cup {e}
<1> DEFINE t == Append(s, e)
           n == Len(s)
<1>1. n \in Nat /\ DOMAIN s = 1..n /\ DOMAIN t = 1..(n + 1) /\ t[n + 1] = e
  OBVIOUS
<1>2. \A i \in 1..n : t[i] = s[i]
  OBVIOUS
<1>3. \A i \in 1..(n + 1) : i \in 1..n \/ i = n + 1
  BY <1>1
<1>4. n + 1 \in 1..(n + 1) /\ \A i \in 1..n : i \in 1..(n + 1)
  BY <1>1
<1> HIDE DEF t, n
<1> QED
  BY <1>1, <1>2, <1>3, <1>4 DEF Range, t

(* A new element at the end keeps a sequence without repetitions. *)
LEMMA InjectiveAppend ==
  ASSUME NEW S, NEW s \in Seq(S), NEW e \in S, IsInjective(s), e \notin Range(s)
  PROVE  IsInjective(Append(s, e))
<1> DEFINE t == Append(s, e)
           n == Len(s)
<1>1. n \in Nat /\ DOMAIN s = 1..n /\ DOMAIN t = 1..(n + 1) /\ t[n + 1] = e
  OBVIOUS
<1>2. \A i \in 1..n : t[i] = s[i]
  OBVIOUS
<1>3. \A i \in 1..(n + 1) : i \in 1..n \/ i = n + 1
  BY <1>1
<1> HIDE DEF t, n
<1>4. \A i \in 1..n : t[i] # e
  BY <1>1, <1>2 DEF Range
<1>5. \A i, j \in 1..n : t[i] = t[j] => i = j
  BY <1>1, <1>2 DEF IsInjective
<1> QED
  BY <1>1, <1>3, <1>4, <1>5 DEF IsInjective, t

(* Being in the order of t survives a new element of t, also if it is added *)
(* to both.                                                                 *)
LEMMA InOrderAppend ==
  ASSUME NEW S, NEW s \in Seq(S), NEW t \in Seq(S), NEW e \in S, InOrderOf(s, t)
  PROVE  InOrderOf(s, Append(t, e)) /\ InOrderOf(Append(s, e), Append(t, e))
<1>1. /\ Range(s) \subseteq Range(t)
      /\ \A i, j \in DOMAIN s : i < j =>
           \E a, b \in DOMAIN t : a < b /\ t[a] = s[i] /\ t[b] = s[j]
  BY DEF InOrderOf
<1> DEFINE u == Append(s, e)
           v == Append(t, e)
           top == Len(t) + 1
<1>2. /\ \A a \in DOMAIN t : a \in DOMAIN v /\ v[a] = t[a] /\ a < top
      /\ top \in DOMAIN v /\ v[top] = e
  OBVIOUS
<1>3. /\ \A i \in DOMAIN s : u[i] = s[i]
      /\ \A i \in DOMAIN u : i \in DOMAIN s \/ u[i] = e
      /\ \A i, j \in DOMAIN u : i < j => i \in DOMAIN s
  OBVIOUS
<1>4. Range(u) = Range(s) \cup {e} /\ Range(v) = Range(t) \cup {e}
  BY RangeAppend
<1> HIDE DEF u, v, top
<1>5. ASSUME NEW i \in DOMAIN s, NEW j \in DOMAIN s, i < j
      PROVE  \E a, b \in DOMAIN v : a < b /\ v[a] = s[i] /\ v[b] = s[j]
  <2>1. PICK a \in DOMAIN t, b \in DOMAIN t : a < b /\ t[a] = s[i] /\ t[b] = s[j]
    BY <1>1, <1>5
  <2> QED
    BY <1>2, <2>1
<1>6. ASSUME NEW i \in DOMAIN s
      PROVE  \E a, b \in DOMAIN v : a < b /\ v[a] = s[i] /\ v[b] = e
  <2>1. s[i] \in Range(t)
    BY <1>1 DEF Range
  <2>2. PICK a \in DOMAIN t : t[a] = s[i]
    BY <2>1 DEF Range
  <2> QED
    BY <1>2, <2>2
<1>7. InOrderOf(s, v)
  <2>1. Range(s) \subseteq Range(v)
    BY <1>1, <1>4
  <2> QED
    BY <1>5, <2>1 DEF InOrderOf
<1>8. ASSUME NEW i \in DOMAIN u, NEW j \in DOMAIN u, i < j
      PROVE  \E a, b \in DOMAIN v : a < b /\ v[a] = u[i] /\ v[b] = u[j]
  <2>1. i \in DOMAIN s /\ u[i] = s[i]
    BY <1>3, <1>8
  <2>2. CASE j \in DOMAIN s
    BY <1>3, <1>5, <1>8, <2>1, <2>2
  <2>3. CASE j \notin DOMAIN s
    BY <1>3, <1>6, <2>1, <2>3
  <2> QED
    BY <2>2, <2>3
<1>9. InOrderOf(u, v)
  <2>1. Range(u) \subseteq Range(v)
    BY <1>1, <1>4
  <2> QED
    BY <1>8, <2>1 DEF InOrderOf
<1> QED
  BY <1>7, <1>9 DEF u, v

(* A use keeps the orders of the call consistent, while no counter wraps. *)
LEMMA UseKeepsConsistent ==
  ASSUME NEW s \in CallState, NEW t \in CallState, NEW k \in Positions,
         NEW counter \in Counters, NEW active \in BOOLEAN, NEW leaf \in BOOLEAN,
         Consistent(s), counter = "force" => s.parameters[k].force < 255,
         \A j \in Positions : j # k => t.parameters[j] = s.parameters[j],
         t.parameters[k] = Used(s.parameters[k], counter, active),
         NEW first \in BOOLEAN,
         first <=> counter = "force" /\ active /\ s.parameters[k].force = 0,
         t.order = IF first THEN Append(s.order, k) ELSE s.order,
         t.intrinsic_order = IF first /\ leaf THEN Append(s.intrinsic_order, k)
                             ELSE s.intrinsic_order
  PROVE  Consistent(t)
<1>1. /\ s.order \in Seq(Positions) /\ s.intrinsic_order \in Seq(Positions)
      /\ \A j \in Positions : s.parameters[j] \in ParameterUses /\ t.parameters[j] \in ParameterUses
  BY DEF CallState
<1>2. \A j \in Positions : s.parameters[j].force \in 0..255
  BY <1>1 DEF ParameterUses
<1>3. /\ t.parameters[k].force = IF counter = "force" THEN s.parameters[k].force + 1
                                 ELSE s.parameters[k].force
      /\ t.parameters[k].escape = (s.parameters[k].escape \/ ~active)
  <2>1. /\ t.parameters[k].force = IF counter = "force" THEN (s.parameters[k].force + 1) % 256
                                   ELSE s.parameters[k].force
        /\ t.parameters[k].escape = (s.parameters[k].escape \/ ~active)
    BY <1>1, UsedOnce
  <2>2. \A n \in 0..254 : (n + 1) % 256 = n + 1
    OBVIOUS
  <2>3. counter = "force" => s.parameters[k].force \in 0..254
    BY <1>2
  <2> QED
    BY <2>1, <2>2, <2>3
<1>4. /\ \A j \in Range(s.order) : s.parameters[j].force > 0
      /\ \A j \in Positions : s.parameters[j].force > 0 /\ ~s.parameters[j].escape => j \in Range(s.order)
      /\ InOrderOf(s.intrinsic_order, s.order) /\ IsInjective(s.order)
  BY DEF Consistent
<1>5. Range(s.order) \subseteq Positions
  BY <1>1 DEF Range
<1>6. \A j \in Positions : s.parameters[j].force > 0 => t.parameters[j].force > 0
  <2>1. \A j \in Positions : j # k => t.parameters[j].force = s.parameters[j].force
    OBVIOUS
  <2>2. s.parameters[k].force \in 0..255
    BY <1>2
  <2>3. s.parameters[k].force > 0 => t.parameters[k].force > 0
    BY <1>3, <2>2
  <2> QED
    BY <2>1, <2>3
<1>7. CASE first
  <2>1. Range(t.order) = Range(s.order) \cup {k} /\ k \notin Range(s.order)
    <3>1. ~(s.parameters[k].force > 0)
      BY <1>7
    <3>2. t.order = Append(s.order, k)
      BY <1>7
    <3> QED
      BY <1>1, <1>4, <3>1, <3>2, RangeAppend
  <2>2. t.parameters[k].force > 0
    BY <1>2, <1>3, <1>7
  <2>3. IsInjective(t.order)
    BY <1>1, <1>4, <1>7, <2>1, InjectiveAppend
  <2>4. InOrderOf(t.intrinsic_order, t.order)
    BY <1>1, <1>4, <1>7, InOrderAppend
  <2>5. \A j \in Range(t.order) : t.parameters[j].force > 0
    BY <1>4, <1>5, <1>6, <2>1, <2>2
  <2>6. \A j \in Positions : t.parameters[j].force > 0 /\ ~t.parameters[j].escape => j \in Range(t.order)
    BY <1>4, <2>1
  <2> QED
    BY <2>3, <2>4, <2>5, <2>6 DEF Consistent
<1>8. CASE ~first
  <2>1. t.order = s.order /\ t.intrinsic_order = s.intrinsic_order
    BY <1>8
  <2>2. \A j \in Range(t.order) : t.parameters[j].force > 0
    BY <1>4, <1>5, <1>6, <2>1
  <2>3. t.parameters[k].force > 0 /\ ~t.parameters[k].escape => k \in Range(t.order)
    <3>1. CASE ~active
      BY <1>3, <3>1
    <3>2. CASE active /\ counter = "force"
      <4>1. s.parameters[k].force # 0 /\ s.parameters[k].force \in 0..255
        BY <1>2, <1>8, <3>2
      <4>2. s.parameters[k].force > 0
        BY <4>1
      <4>3. t.parameters[k].escape = s.parameters[k].escape
        <5>1. s.parameters[k].escape \in BOOLEAN
          BY <1>1 DEF ParameterUses
        <5> QED
          BY <1>3, <3>2, <5>1
      <4> QED
        BY <1>4, <2>1, <4>2, <4>3
    <3>3. CASE counter # "force"
      BY <1>3, <1>4, <2>1, <3>3
    <3> QED
      BY <3>1, <3>2, <3>3
  <2>4. \A j \in Positions : t.parameters[j].force > 0 /\ ~t.parameters[j].escape => j \in Range(t.order)
    BY <1>4, <2>1, <2>3
  <2> QED
    BY <1>4, <2>1, <2>2, <2>4 DEF Consistent
<1> QED
  BY <1>7, <1>8

-----------------------------------------------------------------------------
(* The inductive invariant.  The call of an argument was entered in this    *)
(* pass, so it has no rows in the arguments table, and it is active if and  *)
(* only if the interpreter is still in it; no force was ever lost by a      *)
(* counter, up to the 256th.                                                *)

ArgumentsOfPass ==
  \A p \in Promises : arguments[p].argument =>
    /\ arguments[p].call \in CurrentCalls \cup calls
    /\ arguments[p].call \notin DOMAIN argument_rows

RowsInStep ==
  /\ Len(argument_rows) <= Len(call_map)
  /\ phase = "idle" => Len(argument_rows) = Len(call_map)
  /\ \A c \in DOMAIN argument_rows : argument_rows[c] = {call_map[c].parameters}

ForcesBound ==
  /\ forces \in Nat
  /\ forces < 256 => \A c \in DOMAIN call_map : \A k \in Positions :
                       call_map[c].parameters[k].force <= forces

SInv ==
  /\ LInv
  /\ ArgumentsTyped /\ CallMapTyped /\ RowsTyped
  /\ ArgumentsOfPass
  /\ RowsInStep
  /\ ForcesBound /\ OrderListsForced

(* What a step does to the analysis. *)

Rests ==
  /\ UNCHANGED <<call_map, argument_rows, call_id_counter>>
  /\ forces' \in {forces, forces + 1}
  /\ phase' = "tracing" \/ UNCHANGED <<phase, frames, calls>>
  /\ DOMAIN arguments' = Promises
  /\ \A p \in Promises : arguments'[p] \in {arguments[p], NoArgument}

Enters ==
  /\ call_map' = Append(call_map, NewCallState)
  /\ call_id_counter' = call_id_counter + 1 /\ call_id_counter' \in CurrentCalls'
  /\ UNCHANGED <<argument_rows, forces>> /\ phase' = "tracing"
  /\ DOMAIN arguments' = Promises
  /\ \A p \in Promises : \/ arguments'[p] = arguments[p]
                         \/ \E k \in Positions : arguments'[p] = Argument(call_id_counter', k)

UsesOne(p, counter) ==
  /\ arguments[p].argument
  /\ UsesOf(arguments[p].call, arguments[p].position, counter)
  /\ UNCHANGED <<arguments, argument_rows, call_id_counter>> /\ phase' = "tracing"
  /\ forces' = IF counter = "force" THEN forces + 1 ELSE forces

Ends ==
  /\ PassEnds
  /\ phase' = "idle" /\ UNCHANGED <<call_map, call_id_counter, forces>>

(* A call entered is one the interpreter is in. *)
LEMMA EntersCall ==
  ASSUME LInv, NEW fn \in FunctionTypes, CallEntry(fn)
  PROVE  /\ call_id_counter' = call_id_counter + 1 /\ call_id_counter' \in CurrentCalls'
         /\ phase' = "tracing"
<1> DEFINE e == CallEvent(call_id_counter + 1, fn)
<1>1. frames' = Append(frames, e) /\ call_id_counter' = call_id_counter + 1 /\ phase' = "tracing"
  BY DEF CallEntry, Enter, Running
<1>2. frames \in Seq(StackEvents)
  BY DEF LInv, IInv, TypeOK
<1>3. Len(frames) + 1 \in DOMAIN frames' /\ frames'[Len(frames) + 1] = e
  BY <1>1, <1>2
<1>4. e.type = "CALL" /\ e.id = call_id_counter'
  BY <1>1 DEF CallEvent
<1> QED
  BY <1>1, <1>3, <1>4 DEF CurrentCalls

LEMMA StepsOfAnalysis ==
  ASSUME SInv, [StrictnessNext]_allVars
  PROVE  \/ Rests \/ Enters \/ Ends
         \/ \E p \in Promises : \E counter \in Counters : UsesOne(p, counter)
<1>0. /\ LInv /\ ArgumentsTyped /\ CallMapTyped /\ forces \in Nat
      /\ DOMAIN arguments = Promises
  BY DEF SInv, ForcesBound, ArgumentsTyped
<1>1. CASE UNCHANGED allVars
  BY <1>0, <1>1 DEF allVars, vars, state, analysis, strictness, bounds, Rests
<1>2. CASE PassBegins
  BY <1>0, <1>2 DEF PassBegins, DyntraceEntry, state, analysis, strictness, bounds, Rests
<1>3. CASE PassEnds
  BY <1>3 DEF PassEnds, DyntraceExit, bounds, Ends
<1>4. CASE Contextual
  <2>1. phase' = "tracing" /\ call_id_counter' = call_id_counter
    BY <1>4 DEF Contextual, ContextEntry, ContextExit, ContextJump, Running
  <2> QED
    BY <1>0, <1>4, <2>1 DEF Contextual, strictness, bounds, Rests
<1>5. ASSUME NEW args \in Arguments, ClosureEntry(args) PROVE Enters
  <2>1. CallEntry("closure") /\ "closure" \in FunctionTypes
    BY <1>5 DEF ClosureEntry, FunctionTypes
  <2>2. ASSUME NEW p \in DOMAIN args PROVE args[p] \in Positions
    BY DEF Arguments
  <2>3. /\ DOMAIN arguments' = Promises
        /\ \A p \in Promises : \/ arguments'[p] = arguments[p]
                               \/ \E k \in Positions : arguments'[p] = Argument(call_id_counter', k)
    BY <1>5, <2>2 DEF ClosureEntry
  <2> QED
    BY <1>0, <1>5, <2>1, <2>3, EntersCall DEF ClosureEntry, bounds, Enters
<1>6. ASSUME NEW fn \in {"special", "builtin"}, BuiltinEntry(fn) PROVE Enters
  <2>1. CallEntry(fn) /\ fn \in FunctionTypes
    BY <1>6 DEF BuiltinEntry, FunctionTypes
  <2> QED
    BY <1>0, <1>6, <2>1, EntersCall DEF BuiltinEntry, bounds, Enters
<1>7. ASSUME NEW fn \in FunctionTypes, FunctionExits(fn) PROVE Rests
  <2>1. phase' = "tracing" /\ call_id_counter' = call_id_counter
    BY <1>7 DEF FunctionExits, CallExit, Running
  <2> QED
    BY <1>0, <1>7, <2>1 DEF FunctionExits, strictness, bounds, Rests
<1>8. ASSUME NEW p \in Promises, ForceExit(p) PROVE Rests
  <2>1. phase' = "tracing" /\ call_id_counter' = call_id_counter
    BY <1>8 DEF ForceExit, PromiseForceExit, Running
  <2> QED
    BY <1>0, <1>8, <2>1 DEF ForceExit, strictness, bounds, Rests
<1>9. ASSUME NEW p \in Promises, PromiseCollected(p) PROVE Rests
  BY <1>0, <1>9 DEF PromiseCollected, vars, state, analysis, bounds, Rests
<1>10. ASSUME NEW p \in Promises, ForceEntry(p) PROVE Rests \/ UsesOne(p, "force")
  <2>1. /\ phase' = "tracing" /\ call_id_counter' = call_id_counter
        /\ forces' = forces + 1 /\ ForceArgument(p) /\ UNCHANGED <<arguments, argument_rows>>
    BY <1>10 DEF ForceEntry, PromiseForceEntry, Running
  <2>2. CASE arguments[p].argument
    BY <1>0, <2>1, <2>2, ForceIsUse DEF UsesOne
  <2>3. CASE ~arguments[p].argument
    BY <1>0, <2>1, <2>3 DEF ForceArgument, Rests
  <2> QED
    BY <2>2, <2>3
<1>11. ASSUME NEW p \in Promises, NEW counter \in {"lookup", "metaprogram"}, UseArgument(p, counter),
              Running, UNCHANGED <<vars, arguments, argument_rows, forces>>
       PROVE  Rests \/ UsesOne(p, counter)
  <2>1. phase' = "tracing" /\ call_id_counter' = call_id_counter
    BY <1>11 DEF Running, vars, state
  <2>2. CASE arguments[p].argument
    BY <1>0, <1>11, <2>1, <2>2, UseIsUse DEF UsesOne
  <2>3. CASE ~arguments[p].argument
    BY <1>0, <1>11, <2>1, <2>3 DEF UseArgument, Rests
  <2> QED
    BY <2>2, <2>3
<1>12. ASSUME NEW p \in Promises, PromiseValueLookup(p) PROVE Rests \/ UsesOne(p, "lookup")
  BY <1>11, <1>12 DEF PromiseValueLookup
<1>13. ASSUME NEW p \in Promises, PromiseMetaprogram(p) PROVE Rests \/ UsesOne(p, "metaprogram")
  BY <1>11, <1>13 DEF PromiseMetaprogram
<1>14. "force" \in Counters /\ "lookup" \in Counters /\ "metaprogram" \in Counters
  BY DEF Counters
<1> QED
  BY <1>1, <1>2, <1>3, <1>4, <1>5, <1>6, <1>7, <1>8, <1>9, <1>10, <1>12, <1>13, <1>14 DEF StrictnessNext

-----------------------------------------------------------------------------
(* The invariant is inductive. *)

LEMMA NewCallTyped ==
  /\ NewCallState \in CallState /\ Consistent(NewCallState)
  /\ \A k \in Positions : NewCallState.parameters[k].force = 0
<1>1. UnusedParameter \in ParameterUses /\ UnusedParameter.force = 0
  BY DEF UnusedParameter, ParameterUses
<1>2. /\ NewCallState.order = <<>> /\ NewCallState.intrinsic_order = <<>>
      /\ NewCallState.parameters = [k \in Positions |-> UnusedParameter]
  BY DEF NewCallState
<1>3. NewCallState \in CallState
  BY <1>1 DEF NewCallState, CallState
<1>4. Range(<<>>) = {} /\ DOMAIN <<>> = {}
  BY DEF Range
<1>5. InOrderOf(<<>>, <<>>) /\ IsInjective(<<>>)
  BY <1>4 DEF InOrderOf, IsInjective
<1> QED
  BY <1>1, <1>2, <1>3, <1>4, <1>5 DEF Consistent

LEMMA InitSInv == StrictnessInit => SInv
<1> SUFFICES ASSUME StrictnessInit PROVE SInv
  OBVIOUS
<1>1. /\ Init /\ call_map = <<>> /\ argument_rows = <<>> /\ forces = 0
      /\ arguments = [p \in Promises |-> NoArgument] /\ call_id_counter = 0
  BY DEF StrictnessInit, Init
<1>2. LInv
  BY <1>1, InitLInv
<1>3. ~NoArgument.argument
  BY DEF NoArgument
<1>4. DOMAIN <<>> = {} /\ Len(<<>>) = 0 /\ \A S : <<>> \in Seq(S)
  OBVIOUS
<1>5. ArgumentsTyped /\ ArgumentsOfPass
  BY <1>1, <1>3 DEF ArgumentsTyped, ArgumentsOfPass
<1>6. CallMapTyped /\ RowsTyped /\ RowsInStep /\ ForcesBound
  BY <1>1, <1>4 DEF CallMapTyped, RowsTyped, RowsInStep, ForcesBound
<1>7. OrderListsForced
  BY <1>1, <1>4, ListsConsistent
<1> QED
  BY <1>2, <1>5, <1>6, <1>7 DEF SInv

(* What a use does to each call. *)
LEMMA UseOfEach ==
  ASSUME SInv, NEW p \in Promises, NEW counter \in Counters, UsesOne(p, counter),
         NEW c \in DOMAIN call_map
  PROVE  /\ c # arguments[p].call => call_map'[c] = call_map[c]
         /\ \A k \in Positions : c # arguments[p].call \/ k # arguments[p].position =>
              call_map'[c].parameters[k] = call_map[c].parameters[k]
  BY DEF UsesOne, UsesOf

LEMMA NextTypes ==
  ASSUME SInv, [StrictnessNext]_allVars
  PROVE  LInv' /\ ArgumentsTyped' /\ CallMapTyped' /\ RowsTyped'
<1>1. /\ LInv /\ ArgumentsTyped /\ CallMapTyped /\ RowsTyped /\ call_id_counter \in Nat
      /\ RowsInStep
  BY BoundsAssumption DEF SInv, LInv, IInv, TypeOK
<1>2. LInv'
  BY <1>1, StepOfTracer, NextLInv
<1>3. CASE Rests
  BY <1>1, <1>2, <1>3 DEF Rests, ArgumentsTyped, CallMapTyped, RowsTyped
<1>4. CASE Enters
  <2>1. CallMapTyped' /\ RowsTyped'
    BY <1>1, <1>4, NewCallTyped DEF Enters, CallMapTyped, RowsTyped
  <2>2. \A k \in Positions : Argument(call_id_counter', k) \in
          [argument : {TRUE}, call : 1..call_id_counter', position : Positions]
    BY <1>1, <1>4 DEF Enters, Argument
  <2>3. 1..call_id_counter \subseteq 1..call_id_counter'
    BY <1>1, <1>4 DEF Enters
  <2>4. ArgumentsTyped'
    <3>1. ASSUME NEW p \in Promises
          PROVE  arguments'[p] \in {NoArgument} \cup
                   [argument : {TRUE}, call : 1..call_id_counter', position : Positions]
      <4>1. CASE arguments'[p] = arguments[p]
        BY <1>1, <2>3, <4>1 DEF ArgumentsTyped
      <4>2. CASE \E k \in Positions : arguments'[p] = Argument(call_id_counter', k)
        BY <2>2, <4>2
      <4> QED
        BY <1>4, <4>1, <4>2 DEF Enters
    <3> QED
      BY <1>4, <3>1 DEF Enters, ArgumentsTyped
  <2> QED
    BY <1>2, <2>1, <2>4
<1>5. ASSUME NEW p \in Promises, NEW counter \in Counters, UsesOne(p, counter)
      PROVE  ArgumentsTyped' /\ CallMapTyped' /\ RowsTyped'
  <2>1. UNCHANGED <<arguments, argument_rows, call_id_counter>>
    BY <1>5 DEF UsesOne
  <2>2. /\ call_map' \in Seq(CallState) /\ DOMAIN call_map' = DOMAIN call_map
        /\ call_map \in Seq(CallState) /\ Len(call_map) = call_id_counter
    BY <1>1, <1>5 DEF UsesOne, UsesOf, CallMapTyped
  <2>3. Len(call_map') = Len(call_map)
    BY <2>2
  <2> QED
    BY <1>1, <2>1, <2>2, <2>3 DEF ArgumentsTyped, CallMapTyped, RowsTyped
<1>6. CASE Ends
  <2>1. ArgumentsTyped' /\ CallMapTyped'
    BY <1>1, <1>6 DEF Ends, PassEnds, ClearedArguments, ArgumentsTyped, CallMapTyped
  <2> DEFINE R == SUBSET [Positions -> ParameterUses]
             row(c) == {call_map[c].parameters} \cup
                         (IF c \in DOMAIN argument_rows THEN argument_rows[c] ELSE {})
  <2>2. argument_rows' = [c \in 1..Len(call_map) |-> row(c)] /\ Len(call_map) \in Nat
    BY <1>1, <1>6 DEF Ends, PassEnds, CallMapTyped
  <2>3. ASSUME NEW c \in 1..Len(call_map) PROVE row(c) \in R
    <3>1. call_map[c] \in CallState
      BY <1>1, <2>3 DEF CallMapTyped
    <3>2. {call_map[c].parameters} \in R
      BY <3>1 DEF CallState
    <3>3. c \in DOMAIN argument_rows => argument_rows[c] \in R
      BY <1>1 DEF RowsTyped
    <3> QED
      BY <3>2, <3>3
  <2> HIDE DEF R, row
  <2>4. argument_rows' \in Seq(R)
    BY <2>2, <2>3
  <2>5. argument_rows' \in Seq(SUBSET [Positions -> ParameterUses])
    BY <2>4 DEF R
  <2> QED
    BY <1>2, <2>1, <2>5 DEF RowsTyped
<1> QED
  BY <1>2, <1>3, <1>4, <1>5, <1>6, StepsOfAnalysis

LEMMA NextOfPass ==
  ASSUME SInv, [StrictnessNext]_allVars
  PROVE  ArgumentsOfPass'
<1>1. /\ LInv /\ ArgumentsOfPass /\ ~NoArgument.argument /\ RowsInStep
      /\ CallMapTyped /\ RowsTyped /\ call_id_counter \in Nat
  BY BoundsAssumption DEF SInv, NoArgument, LInv, IInv, TypeOK
<1>2. /\ calls \subseteq calls'
      /\ phase' = "tracing" => CurrentCalls \subseteq CurrentCalls' \cup calls'
  BY <1>1, StepOfTracer, CurrentStay
<1>3. CASE Rests
  <2>1. CurrentCalls \cup calls \subseteq CurrentCalls' \cup calls'
    BY <1>2, <1>3 DEF Rests, CurrentCalls
  <2> QED
    BY <1>1, <1>3, <2>1 DEF Rests, ArgumentsOfPass
<1>4. CASE Enters
  <2>1. /\ CurrentCalls \cup calls \subseteq CurrentCalls' \cup calls'
        /\ argument_rows' = argument_rows /\ call_id_counter' \in CurrentCalls'
    BY <1>2, <1>4 DEF Enters
  <2>2. call_id_counter' \notin DOMAIN argument_rows'
    BY <1>1, <1>4 DEF Enters, RowsInStep, CallMapTyped, RowsTyped
  <2>3. ASSUME NEW p \in Promises, arguments'[p].argument
        PROVE  /\ arguments'[p].call \in CurrentCalls' \cup calls'
               /\ arguments'[p].call \notin DOMAIN argument_rows'
    <3>1. CASE arguments'[p] = arguments[p]
      BY <1>1, <2>1, <2>3, <3>1 DEF ArgumentsOfPass
    <3>2. CASE \E k \in Positions : arguments'[p] = Argument(call_id_counter', k)
      <4>1. arguments'[p].call = call_id_counter'
        BY <3>2 DEF Argument
      <4> QED
        BY <2>1, <2>2, <4>1
    <3> QED
      BY <1>4, <3>1, <3>2 DEF Enters
  <2> QED
    BY <2>3 DEF ArgumentsOfPass
<1>5. ASSUME NEW p \in Promises, NEW counter \in Counters, UsesOne(p, counter)
      PROVE  ArgumentsOfPass'
  BY <1>1, <1>2, <1>5 DEF UsesOne, ArgumentsOfPass
<1>6. CASE Ends
  BY <1>1, <1>6 DEF Ends, PassEnds, ClearedArguments, ArgumentsOfPass
<1> QED
  BY <1>3, <1>4, <1>5, <1>6, StepsOfAnalysis

LEMMA NextRows ==
  ASSUME SInv, [StrictnessNext]_allVars
  PROVE  RowsInStep'
<1>1. /\ RowsInStep /\ ArgumentsOfPass /\ call_map \in Seq(CallState)
      /\ argument_rows \in Seq(SUBSET [Positions -> ParameterUses])
  BY DEF SInv, CallMapTyped, RowsTyped
<1>2. /\ Len(call_map) \in Nat /\ DOMAIN call_map = 1..Len(call_map)
      /\ Len(argument_rows) \in Nat /\ DOMAIN argument_rows = 1..Len(argument_rows)
      /\ DOMAIN argument_rows \subseteq DOMAIN call_map
  BY <1>1 DEF RowsInStep
<1>3. CASE Rests
  BY <1>1, <1>3 DEF Rests, RowsInStep
<1>4. CASE Enters
  <2>1. Len(call_map') = Len(call_map) + 1 /\ \A c \in DOMAIN call_map : call_map'[c] = call_map[c]
    BY <1>1, <1>4, NewCallTyped DEF Enters
  <2>2. argument_rows' = argument_rows /\ phase' = "tracing"
    BY <1>4 DEF Enters
  <2>3. \A c \in DOMAIN argument_rows' : argument_rows'[c] = {call_map'[c].parameters}
    BY <1>1, <1>2, <2>1, <2>2 DEF RowsInStep
  <2>4. Len(argument_rows') <= Len(call_map')
    <3>1. Len(argument_rows) <= Len(call_map) /\ Len(argument_rows) \in Nat /\ Len(call_map) \in Nat
      BY <1>1, <1>2 DEF RowsInStep
    <3>2. Len(argument_rows') = Len(argument_rows) /\ Len(call_map') = Len(call_map) + 1
      BY <2>1, <2>2
    <3> QED
      BY <3>1, <3>2
  <2> QED
    BY <2>2, <2>3, <2>4 DEF RowsInStep
<1>5. ASSUME NEW p \in Promises, NEW counter \in Counters, UsesOne(p, counter)
      PROVE  RowsInStep'
  <2>1. argument_rows' = argument_rows /\ phase' = "tracing"
    BY <1>5 DEF UsesOne
  <2>2. Len(call_map') = Len(call_map)
    BY <1>1, <1>5 DEF UsesOne, UsesOf
  <2>3. arguments[p].call \notin DOMAIN argument_rows
    BY <1>1, <1>5 DEF UsesOne, ArgumentsOfPass
  <2>4. \A c \in DOMAIN argument_rows : call_map'[c] = call_map[c]
    BY <1>2, <1>5, <2>3, UseOfEach
  <2> QED
    BY <1>1, <2>1, <2>2, <2>4 DEF RowsInStep
<1>6. CASE Ends
  <2>1. /\ argument_rows' = [c \in DOMAIN call_map |->
             {call_map[c].parameters} \cup
               (IF c \in DOMAIN argument_rows THEN argument_rows[c] ELSE {})]
        /\ call_map' = call_map
    BY <1>6 DEF Ends, PassEnds
  <2>2. \A c \in DOMAIN argument_rows : argument_rows[c] = {call_map[c].parameters}
    BY <1>1 DEF RowsInStep
  <2>3. \A c \in DOMAIN argument_rows' : argument_rows'[c] = {call_map'[c].parameters}
    BY <2>1, <2>2
  <2>4. Len(argument_rows') = Len(call_map')
    BY <1>2, <2>1
  <2> QED
    BY <1>2, <2>1, <2>3, <2>4 DEF RowsInStep
<1> QED
  BY <1>3, <1>4, <1>5, <1>6, StepsOfAnalysis

(* The force counts are bounded by the forces there were, and the orders of  *)
(* every call stay consistent as long as no counter has wrapped.             *)
LEMMA NextOrders ==
  ASSUME SInv, [StrictnessNext]_allVars
  PROVE  ForcesBound' /\ OrderListsForced'
<1>1. /\ forces \in Nat /\ call_map \in Seq(CallState) /\ ArgumentsTyped /\ CallMapTyped
      /\ \A c \in DOMAIN call_map : call_map[c] \in CallState
  BY DEF SInv, ForcesBound, CallMapTyped
<1>2. /\ forces < 256 => \A c \in DOMAIN call_map : Consistent(call_map[c])
      /\ forces < 256 => \A c \in DOMAIN call_map : \A k \in Positions :
                           call_map[c].parameters[k].force <= forces
  BY ListsConsistent DEF SInv, ForcesBound
<1> DEFINE Goal == /\ forces' \in Nat
                   /\ forces' < 256 => \A c \in DOMAIN call_map' : Consistent(call_map'[c])
                   /\ forces' < 256 => \A c \in DOMAIN call_map' : \A k \in Positions :
                                         call_map'[c].parameters[k].force <= forces'
<1>3. ASSUME Goal PROVE ForcesBound' /\ OrderListsForced'
  <2>1. OrderListsForced' <=> (forces' < 256 => \A c \in DOMAIN call_map' : Consistent(call_map'[c]))
    BY DEF OrderListsForced, SingleOrderEntry, Consistent
  <2> QED
    BY <1>3, <2>1 DEF ForcesBound
<1>4. \A c \in DOMAIN call_map : \A k \in Positions : call_map[c].parameters[k].force \in 0..255
  BY <1>1 DEF CallState, ParameterUses
<1>5. CASE Rests \/ Ends
  <2>1. call_map' = call_map /\ forces' \in {forces, forces + 1}
    BY <1>5 DEF Rests, Ends
  <2>2. \A n \in 0..255 : n <= forces => n <= forces'
    BY <1>1, <2>1
  <2>3. forces' < 256 => forces < 256
    BY <1>1, <2>1
  <2>4. \A c \in DOMAIN call_map : \A k \in Positions :
          call_map[c].parameters[k].force <= forces => call_map[c].parameters[k].force <= forces'
    BY <1>4, <2>2
  <2> QED
    BY <1>1, <1>2, <1>3, <2>1, <2>3, <2>4
<1>6. CASE Enters
  <2>1. call_map' = Append(call_map, NewCallState) /\ forces' = forces
    BY <1>6 DEF Enters
  <2>2. \A c \in DOMAIN call_map' :
          \/ c \in DOMAIN call_map /\ call_map'[c] = call_map[c]
          \/ call_map'[c] = NewCallState
    BY <1>1, <2>1
  <2>3. \A k \in Positions : NewCallState.parameters[k].force <= forces
    BY <1>1, NewCallTyped
  <2> QED
    BY <1>1, <1>2, <1>3, <2>1, <2>2, <2>3, NewCallTyped
<1>7. ASSUME NEW p \in Promises, NEW counter \in Counters, UsesOne(p, counter)
      PROVE  Goal
  <2> DEFINE c == arguments[p].call
             k == arguments[p].position
  <2>1. /\ c \in DOMAIN call_map /\ k \in Positions /\ call_map[c] \in CallState
        /\ call_map[c].parameters[k] \in ParameterUses /\ UsesOf(c, k, counter)
    BY <1>1, <1>7, ArgumentFound DEF UsesOne
  <2>2. /\ DOMAIN call_map' = DOMAIN call_map /\ call_map'[c] \in CallState
        /\ \A d \in DOMAIN call_map : d # c => call_map'[d] = call_map[d]
    BY <2>1 DEF UsesOf
  <2>3. /\ \A j \in Positions : j # k => call_map'[c].parameters[j] = call_map[c].parameters[j]
        /\ call_map'[c].parameters[k] = Used(call_map[c].parameters[k], counter, IsActive(c))
    BY <2>1 DEF UsesOf
  <2> DEFINE first == counter = "force" /\ IsActive(c) /\ call_map[c].parameters[k].force = 0
  <2>4. /\ call_map'[c].order = IF first THEN Append(call_map[c].order, k) ELSE call_map[c].order
        /\ call_map'[c].intrinsic_order =
             IF first /\ IsLeaf(c) THEN Append(call_map[c].intrinsic_order, k)
             ELSE call_map[c].intrinsic_order
    BY <2>1 DEF UsesOf
  <2>5. forces' = IF counter = "force" THEN forces + 1 ELSE forces
    BY <1>7 DEF UsesOne
  <2>6. IsActive(c) \in BOOLEAN /\ IsLeaf(c) \in BOOLEAN /\ first \in BOOLEAN
    BY DEF IsActive, IsLeaf
  <2>7. call_map'[c].parameters[k].force =
          IF counter = "force" THEN (call_map[c].parameters[k].force + 1) % 256
          ELSE call_map[c].parameters[k].force
    BY <2>1, <2>3, <2>6, UsedOnce
  <2>8. call_map[c].parameters[k].force \in 0..255
    BY <1>4, <2>1
  <2> HIDE DEF c, k
  <2>9. forces' \in Nat /\ (forces' < 256 => forces < 256) /\ forces <= forces'
    BY <1>1, <2>5
  <2>10. ASSUME forces' < 256, counter = "force" PROVE call_map[c].parameters[k].force < 255
    <3>1. call_map[c].parameters[k].force <= forces
      BY <1>2, <2>1, <2>9, <2>10
    <3>2. \A n \in 0..255 : n <= forces /\ forces' < 256 => n < 255
      BY <1>1, <2>5, <2>10
    <3> QED
      BY <2>8, <2>10, <3>1, <3>2
  <2>11. ASSUME forces' < 256
         PROVE  \A d \in DOMAIN call_map' : \A j \in Positions :
                  call_map'[d].parameters[j].force <= forces'
    <3>1. \A d \in DOMAIN call_map : \A j \in Positions :
            call_map[d].parameters[j].force <= forces'
      <4>1. \A n \in 0..255 : n <= forces => n <= forces'
        BY <1>1, <2>9
      <4>2. \A d \in DOMAIN call_map : \A j \in Positions :
              call_map[d].parameters[j].force <= forces
        BY <1>2, <2>9, <2>11
      <4> QED
        BY <1>4, <4>1, <4>2
    <3>2. call_map'[c].parameters[k].force <= forces'
      <4>1. CASE counter = "force"
        <5>1. call_map[c].parameters[k].force \in 0..254
          BY <2>8, <2>10, <2>11, <4>1
        <5>2. (call_map[c].parameters[k].force + 1) % 256 = call_map[c].parameters[k].force + 1
          BY <5>1, SMTT(60)
        <5>3. call_map[c].parameters[k].force <= forces
          BY <1>2, <2>1, <2>9, <2>11
        <5>4. forces' = forces + 1
          BY <2>5, <4>1
        <5>5. call_map'[c].parameters[k].force = call_map[c].parameters[k].force + 1
          BY <2>7, <4>1, <5>2
        <5>6. \A n \in 0..254 : n <= forces => n + 1 <= forces'
          BY <1>1, <5>4
        <5> QED
          BY <5>1, <5>3, <5>5, <5>6
      <4>2. CASE counter # "force"
        BY <2>1, <2>7, <3>1, <4>2
      <4> QED
        BY <4>1, <4>2
    <3>3. ASSUME NEW d \in DOMAIN call_map, NEW j \in Positions
          PROVE  call_map'[d].parameters[j].force <= forces'
      <4>1. CASE d # c
        BY <2>2, <3>1, <4>1
      <4>2. CASE d = c /\ j # k
        BY <2>3, <3>1, <4>2
      <4>3. CASE d = c /\ j = k
        BY <3>2, <4>3
      <4> QED
        BY <4>1, <4>2, <4>3
    <3> QED
      BY <2>2, <3>3
  <2>12. ASSUME forces' < 256 PROVE Consistent(call_map'[c])
    <3>1. Consistent(call_map[c])
      BY <1>2, <2>1, <2>9, <2>12
    <3>2. PICK b \in BOOLEAN : b <=> first
      OBVIOUS
    <3>3. PICK leaf \in BOOLEAN : leaf <=> IsLeaf(c)
      OBVIOUS
    <3>4. /\ call_map'[c].order = IF b THEN Append(call_map[c].order, k) ELSE call_map[c].order
          /\ call_map'[c].intrinsic_order =
               IF b /\ leaf THEN Append(call_map[c].intrinsic_order, k)
               ELSE call_map[c].intrinsic_order
      BY <2>4, <3>2, <3>3
    <3>5. counter = "force" => call_map[c].parameters[k].force < 255
      BY <2>10, <2>12
    <3> QED
      BY <2>1, <2>2, <2>3, <2>6, <3>1, <3>2, <3>4, <3>5, UseKeepsConsistent
  <2> QED
    BY <1>2, <2>2, <2>9, <2>11, <2>12
<1> HIDE DEF Goal
<1> QED
  BY <1>3, <1>5, <1>6, <1>7, StepsOfAnalysis

LEMMA NextSInv == SInv /\ [StrictnessNext]_allVars => SInv'
  BY NextTypes, NextOfPass, NextRows, NextOrders DEF SInv

LEMMA SpecSInv == StrictnessSpec => []SInv
  BY InitSInv, NextSInv, PTL DEF StrictnessSpec

-----------------------------------------------------------------------------
(* Type correctness, for every instance. *)
THEOREM StrictnessTypesCorrect == StrictnessSpec => []StrictnessTypeOK
<1>1. SInv => StrictnessTypeOK
  <2> SUFFICES ASSUME SInv PROVE StrictnessTypeOK
    OBVIOUS
  <2>1. /\ TypeOK /\ ArgumentsTyped /\ CallMapTyped /\ Len(argument_rows) <= Len(call_map)
    BY DEF SInv, LInv, IInv, RowsInStep
  <2>2. \A c \in DOMAIN call_map : call_map[c] \in CallState
    BY <2>1 DEF CallMapTyped
  <2> QED
    BY <2>1, <2>2, ZenonT(60) DEF StrictnessTypeOK, ArgumentsTyped, CallMapTyped, CallState, ParameterUses
<1> QED
  BY <1>1, SpecSInv, PTL

(* The order of a call lists the positions forced while it was active, each  *)
(* once, and its intrinsic order is a part of it, until a counter wraps.     *)
THEOREM OrderListsTrue == StrictnessSpec => []OrderListsForced
<1>1. SInv => OrderListsForced
  BY DEF SInv
<1> QED
  BY <1>1, SpecSInv, PTL

(* The rows of a call in the arguments table are the same at the end of its  *)
(* own pass and of every later one.                                          *)
THEOREM RowsAreRepeated == StrictnessSpec => []RowsRepeat
<1>1. SInv => RowsRepeat
  <2> SUFFICES ASSUME SInv PROVE RowsRepeat
    OBVIOUS
  <2>1. /\ RowsInStep /\ CallMapTyped /\ calls \subseteq 1..call_id_counter
        /\ argument_rows \in Seq(SUBSET [Positions -> ParameterUses])
    BY DEF SInv, RowsTyped, LInv, CallsAccounted
  <2>2. phase = "idle" => DOMAIN argument_rows = 1..call_id_counter
    BY <2>1 DEF RowsInStep, CallMapTyped
  <2> QED
    BY <2>1, <2>2 DEF RowsRepeat, RowsInStep
<1> QED
  BY <1>1, SpecSInv, PTL

(* An argument's call is active exactly while the interpreter is in it. *)
LEMMA ActiveIsCurrent ==
  ASSUME SInv, NEW p \in Promises, arguments[p].argument
  PROVE  IsActive(arguments[p].call) <=> InCall(arguments[p].call)
<1>1. arguments[p].call \in CurrentCalls \cup calls /\ CurrentCalls \cap calls = {}
  BY CurrentActive DEF SInv, ArgumentsOfPass
<1> QED
  BY <1>1, InCallCurrent DEF IsActive

(* A step that changes the state of a call is a use of one of its arguments. *)
LEMMA OnlyUsesChange ==
  ASSUME SInv, [StrictnessNext]_allVars, NEW c \in DOMAIN call_map, call_map'[c] # call_map[c]
  PROVE  \E p \in Promises : \E counter \in Counters : UsesOne(p, counter) /\ c = arguments[p].call
<1>1. call_map \in Seq(CallState)
  BY DEF SInv, CallMapTyped
<1>2. ~Rests /\ ~Ends
  BY DEF Rests, Ends
<1>3. ~Enters
  BY <1>1, NewCallTyped DEF Enters
<1> QED
  BY <1>2, <1>3, StepsOfAnalysis, UseOfEach

LEMMA GrowTruly == SInv /\ [StrictnessNext]_allVars => OrdersGrowTruly
<1> SUFFICES ASSUME SInv, [StrictnessNext]_allVars, NEW c \in DOMAIN call_map,
                    call_map'[c] # call_map[c]
             PROVE  /\ call_map'[c].order # call_map[c].order => InCall(c)
                    /\ call_map'[c].intrinsic_order # call_map[c].intrinsic_order => InnermostClosure(c)
                    /\ call_map'[c].order # call_map[c].order /\ InnermostClosure(c) =>
                         call_map'[c].intrinsic_order # call_map[c].intrinsic_order
  BY DEF OrdersGrowTruly
<1>1. PICK p \in Promises, counter \in Counters : UsesOne(p, counter) /\ c = arguments[p].call
  BY OnlyUsesChange
<1> DEFINE k == arguments[p].position
           first == counter = "force" /\ IsActive(c) /\ call_map[c].parameters[k].force = 0
<1>2. /\ call_map'[c].order = IF first THEN Append(call_map[c].order, k) ELSE call_map[c].order
      /\ call_map'[c].intrinsic_order =
           IF first /\ IsLeaf(c) THEN Append(call_map[c].intrinsic_order, k)
           ELSE call_map[c].intrinsic_order
  BY <1>1 DEF UsesOne, UsesOf
<1>3. IsActive(c) <=> InCall(c)
  BY <1>1, ActiveIsCurrent DEF UsesOne
<1>4. first => (IsLeaf(c) <=> InnermostClosure(c))
  BY <1>3, LeafIsInnermost DEF SInv
<1>5. call_map[c].intrinsic_order \in Seq(Positions) /\ k \in Positions
  <2>1. call_map[c] \in CallState
    BY DEF SInv, CallMapTyped
  <2>2. k \in Positions
    BY <1>1, ArgumentFound DEF SInv, UsesOne
  <2> QED
    BY <2>1, <2>2 DEF CallState
<1>6. Append(call_map[c].intrinsic_order, k) # call_map[c].intrinsic_order
  BY <1>5
<1> HIDE DEF k
<1> QED
  BY <1>2, <1>3, <1>4, <1>6

(* The orders of a call grow only by forces while the interpreter is in it, *)
(* and the intrinsic order by those with no closure entered in between.     *)
THEOREM OrdersTrue == StrictnessSpec => OrdersAreTrue
  BY SpecSInv, GrowTruly, PTL DEF StrictnessSpec, OrdersAreTrue

LEMMA EscapeTruly == SInv /\ [StrictnessNext]_allVars => EscapesTruly
<1> SUFFICES ASSUME SInv, [StrictnessNext]_allVars, NEW c \in DOMAIN call_map, NEW k \in Positions
             PROVE  /\ call_map'[c].parameters[k] # call_map[c].parameters[k] =>
                         call_map'[c].parameters[k].escape =
                           (call_map[c].parameters[k].escape \/ ~InCall(c))
                    /\ call_map[c].parameters[k].escape => call_map'[c].parameters[k].escape
  BY DEF EscapesTruly
<1>1. CASE call_map'[c].parameters[k] = call_map[c].parameters[k]
  BY <1>1
<1>2. CASE call_map'[c].parameters[k] # call_map[c].parameters[k]
  <2>1. PICK p \in Promises, counter \in Counters : UsesOne(p, counter) /\ c = arguments[p].call
    BY <1>2, OnlyUsesChange
  <2>2. k = arguments[p].position
    BY <1>2, <2>1, UseOfEach
  <2>3. call_map'[c].parameters[k] = Used(call_map[c].parameters[k], counter, IsActive(c))
    BY <2>1, <2>2 DEF UsesOne, UsesOf
  <2>4. IsActive(c) <=> InCall(c)
    BY <2>1, ActiveIsCurrent DEF UsesOne
  <2>5. call_map[c].parameters[k] \in ParameterUses /\ IsActive(c) \in BOOLEAN
    <3>1. call_map[c] \in CallState
      BY DEF SInv, CallMapTyped
    <3> QED
      BY <3>1 DEF CallState, IsActive
  <2>6. call_map'[c].parameters[k].escape = (call_map[c].parameters[k].escape \/ ~IsActive(c))
    BY <2>3, <2>5, UsedOnce
  <2> QED
    BY <2>4, <2>6
<1> QED
  BY <1>1, <1>2

(* An argument is marked as escaped exactly when it is used while the *)
(* interpreter is no longer in its call.                              *)
THEOREM EscapesTrue == StrictnessSpec => EscapesAreTrue
  BY SpecSInv, EscapeTruly, PTL DEF StrictnessSpec, EscapesAreTrue
=============================================================================
