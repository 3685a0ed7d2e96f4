----------------------- MODULE FunctionIdentityProofs -----------------------
(***************************************************************************)
(* Proofs about FunctionIdentity, for every set of addresses and of        *)
(* definitions, every bound and any number of passes.                      *)
(***************************************************************************)
EXTENDS FunctionIdentity, SequenceTheorems, TLAPS

-----------------------------------------------------------------------------
(* The records of calls, under way or in the table. *)
Recorded == rows \cup ToSet(call_stack)

(* Every variable has values of the kind the code gives it. *)
FTypeOK ==
  /\ heap \in [Addresses -> 0..Len(objects)] /\ objects \in Seq(Definitions)
  /\ called \in Seq(1..Len(objects)) /\ call_id_counter = Len(called)
  /\ call_stack \in Seq([call : 1..Len(called), function : {Hash(d) : d \in Definitions}])
  /\ rows \subseteq [call : 1..Len(called), function : {Hash(d) : d \in Definitions}]
  /\ \A a \in DOMAIN function_definitions : a \in Addresses /\ function_definitions[a] \in Definitions

(* A definition on file under an id has that id; so has one in function_ids. *)
IdsAreHashes ==
  /\ \A d \in DOMAIN function_ids : function_ids[d] = Hash(d)
  /\ \A id \in DOMAIN files : Hash(files[id]) = id
  /\ handled_functions = DOMAIN files

(* What closure_entry has found out when it deparses the call is about the   *)
(* function called, and of a call that no record names yet; and a closure    *)
(* that is deparsed was called at some address.                              *)
HandlerInStep ==
  /\ stage \in {"program", "definition", "expression", "exit"}
  /\ callee \in 0..Len(objects)
  /\ stage = "exit" => call_stack # <<>>
  /\ stage = "expression" =>
       /\ info.call = Len(called) /\ info.call \in 1..Len(called)
       /\ info.definition \in Definitions /\ info.function = Hash(info.definition)
       /\ lost = {} => info.definition = objects[called[info.call]]
       /\ \A q \in Recorded : q.call # info.call

(* The inductive invariant.  A call is given the id of the definition that   *)
(* is kept for its function's address; that this is the function's own needs *)
(* DefinitionsAreTrue, that the id is its hash needs IdsAreHashes.           *)
FInv == FTypeOK /\ HandlerInStep /\ IdsAreHashes /\ DefinitionsAreTrue /\ CallsNameTheirFunction /\ BodiesOnFile

-----------------------------------------------------------------------------
(* Pushing a record adds it to the records; popping one to the table loses   *)
(* none and adds none.                                                       *)
LEMMA ToSetAppend ==
  ASSUME NEW S, NEW s \in Seq(S), NEW e
  PROVE  ToSet(Append(s, e)) = ToSet(s) \cup {e}
<1>1. /\ Len(s) \in Nat /\ DOMAIN s = 1..Len(s)
      /\ DOMAIN Append(s, e) = 1..(Len(s) + 1) /\ Append(s, e)[Len(s) + 1] = e
      /\ \A i \in 1..Len(s) : Append(s, e)[i] = s[i]
  OBVIOUS
<1>2. 1..(Len(s) + 1) = 1..Len(s) \cup {Len(s) + 1}
  BY <1>1
<1> QED
  BY <1>1, <1>2 DEF ToSet

LEMMA ToSetPop ==
  ASSUME NEW S, NEW s \in Seq(S), s # <<>>
  PROVE  ToSet(Front(s)) \cup {Last(s)} = ToSet(s) /\ Front(s) \in Seq(S) /\ Last(s) \in S
<1>1. /\ Len(s) \in Nat \ {0} /\ DOMAIN s = 1..Len(s)
      /\ Front(s) \in Seq(S) /\ DOMAIN Front(s) = 1..(Len(s) - 1)
      /\ \A i \in 1..(Len(s) - 1) : Front(s)[i] = s[i]
  BY DEF Front
<1>2. 1..Len(s) = 1..(Len(s) - 1) \cup {Len(s)} /\ Len(s) \in 1..Len(s)
  BY <1>1
<1> QED
  BY <1>1, <1>2 DEF ToSet, Last

(* A record names a call that was entered. *)
LEMMA RecordedCalls ==
  ASSUME FTypeOK, NEW q \in Recorded
  PROVE  q.call \in 1..Len(called)
<1> DEFINE R == [call : 1..Len(called), function : {Hash(d) : d \in Definitions}]
<1>1. call_stack \in Seq(R) /\ rows \subseteq R
  BY DEF FTypeOK
<1>2. q \in R
  <2> HIDE DEF R
  <2> QED
    BY <1>1 DEF Recorded, ToSet
<1> QED
  BY <1>2

(* What is known of a live closure, or else its own text, is a definition;   *)
(* it is the closure's own if none was lost at its address.                  *)
LEMMA DefinitionOfLive ==
  ASSUME FInv, NEW a \in Live
  PROVE  /\ DefinitionAt(a) \in Definitions
         /\ a \notin lost => DefinitionAt(a) = TrueDefinition(a)
         /\ heap[a] \in 1..Len(objects)
         /\ FunctionId(DefinitionAt(a)) = Hash(DefinitionAt(a))
<1>1. a \in Addresses /\ heap[a] \in 1..Len(objects)
  BY DEF FInv, FTypeOK, Live
<1>2. objects[heap[a]] \in Definitions
  BY <1>1 DEF FInv, FTypeOK
<1>3. DefinitionAt(a) \in Definitions
  BY <1>2 DEF FInv, FTypeOK, DefinitionAt, Known, TrueDefinition
<1>4. a \notin lost => DefinitionAt(a) = TrueDefinition(a)
  BY DEF FInv, DefinitionsAreTrue, DefinitionAt, Known
<1>5. FunctionId(DefinitionAt(a)) = Hash(DefinitionAt(a))
  BY DEF FInv, IdsAreHashes, FunctionId
<1> QED
  BY <1>1, <1>3, <1>4, <1>5

(* Asking for the definition of a live closure keeps the definitions true    *)
(* and of the right type.                                                    *)
LEMMA GetKeepsDefinitions ==
  ASSUME FInv, NEW a \in Live, GetFunctionDefinition(a),
         heap' = heap, objects' = objects, lost' = lost
  PROVE  /\ DefinitionsAreTrue'
         /\ \A b \in DOMAIN function_definitions' :
              b \in Addresses /\ function_definitions'[b] \in Definitions
<1>1. /\ DOMAIN function_definitions' = DOMAIN function_definitions \cup {a}
      /\ \A b \in DOMAIN function_definitions \cup {a} :
           function_definitions'[b] = IF b = a THEN DefinitionAt(a) ELSE function_definitions[b]
  BY DEF GetFunctionDefinition, Put
<1>2. DefinitionAt(a) \in Definitions /\ (a \notin lost => DefinitionAt(a) = TrueDefinition(a))
  BY DefinitionOfLive
<1>3. a \in Addresses
  BY DEF Live
<1>4. \A b \in DOMAIN function_definitions : b \in Addresses /\ function_definitions[b] \in Definitions
  BY DEF FInv, FTypeOK
<1>5. DefinitionsAreTrue'
  BY <1>1, <1>2 DEF FInv, DefinitionsAreTrue, Live, TrueDefinition
<1> QED
  BY <1>1, <1>2, <1>3, <1>4, <1>5

-----------------------------------------------------------------------------
LEMMA InitFInv == Init => FInv
<1> SUFFICES ASSUME Init PROVE FInv
  OBVIOUS
<1>1. \A S : <<>> \in Seq(S)
  OBVIOUS
<1>2. FTypeOK
  BY <1>1 DEF Init, FTypeOK, EmptyMap
<1>3. Recorded = {}
  BY DEF Init, Recorded, ToSet
<1> QED
  BY <1>2, <1>3 DEF Init, FInv, IdsAreHashes, DefinitionsAreTrue, CallsNameTheirFunction,
                    BodiesOnFile, EmptyMap, Recorded, HandlerInStep

LEMMA NextFInv == FInv /\ [Next]_vars => FInv'
<1> SUFFICES ASSUME FInv, [Next]_vars PROVE FInv'
  OBVIOUS
<1>t. FTypeOK
  BY DEF FInv
<1>l. Len(objects) \in Nat /\ Len(called) \in Nat
  BY <1>t DEF FTypeOK
<1>1. CASE DyntraceEntry \/ DyntraceExit \/ UNCHANGED vars
  BY <1>1 DEF DyntraceEntry, DyntraceExit, vars, interpreter, state, analysis, handler, FInv,
              FTypeOK, HandlerInStep, Recorded, IdsAreHashes, DefinitionsAreTrue, CallsNameTheirFunction, BodiesOnFile, Live,
              TrueDefinition
<1>2. ASSUME NEW a \in Addresses, NEW definition \in Definitions, Allocate(a, definition)
      PROVE  FInv'
  <2>1. /\ a \notin Live /\ heap' = [heap EXCEPT ![a] = Len(objects) + 1]
        /\ objects' = Append(objects, definition)
        /\ UNCHANGED <<called, lost, function_definitions, function_ids, call_id_counter,
                       call_stack, handled_functions, files, rows, stage, callee, info>>
    BY <1>2 DEF Allocate, state, analysis, handler
  <2>2. /\ objects' \in Seq(Definitions) /\ Len(objects') = Len(objects) + 1
        /\ \A n \in 1..Len(objects) : objects'[n] = objects[n]
    BY <2>1, <1>t DEF FTypeOK
  <2>3. FTypeOK'
    <3>1. heap' \in [Addresses -> 0..Len(objects')]
      BY <2>1, <2>2, <1>t, <1>l DEF FTypeOK
    <3>2. called \in Seq(1..Len(objects'))
      BY <2>2, <1>t, <1>l DEF FTypeOK
    <3> QED
      BY <3>1, <3>2, <2>1, <2>2, <1>t DEF FTypeOK
  <2>4. DefinitionsAreTrue'
    <3> SUFFICES ASSUME NEW b \in DOMAIN function_definitions, b \notin lost
                 PROVE  b \in Live' /\ function_definitions[b] = TrueDefinition(b)'
      BY <2>1 DEF DefinitionsAreTrue
    <3>1. b \in Live /\ function_definitions[b] = objects[heap[b]]
      BY DEF FInv, DefinitionsAreTrue, TrueDefinition
    <3>2. b # a /\ b \in Addresses /\ heap'[b] = heap[b] /\ heap[b] \in 1..Len(objects)
      BY <3>1, <2>1, <1>t, <1>l DEF Live, FTypeOK
    <3> QED
      BY <3>1, <3>2, <2>2 DEF Live, TrueDefinition
  <2>5. CallsNameTheirFunction'
    <3>1. \A r \in Recorded : objects'[called[r.call]] = objects[called[r.call]]
      <4>1. \A r \in Recorded : r.call \in 1..Len(called)
        BY <1>t, RecordedCalls
      <4>2. \A n \in 1..Len(called) : called[n] \in 1..Len(objects)
        BY <1>t DEF FTypeOK
      <4> QED
        BY <4>1, <4>2, <2>2
    <3> QED
      BY <3>1, <2>1 DEF FInv, CallsNameTheirFunction, Recorded
  <2>6. HandlerInStep'
    <3>1. stage = "expression" => objects'[called[info.call]] = objects[called[info.call]]
      <4>1. \A n \in 1..Len(called) : called[n] \in 1..Len(objects)
        BY <1>t DEF FTypeOK
      <4> QED
        BY <4>1, <2>2 DEF FInv, HandlerInStep
    <3>2. callee' \in 0..Len(objects')
      BY <2>1, <2>2, <1>l DEF FInv, HandlerInStep
    <3> QED
      BY <3>1, <3>2, <2>1 DEF FInv, HandlerInStep, Recorded
  <2> QED
    BY <2>1, <2>3, <2>4, <2>5, <2>6 DEF FInv, IdsAreHashes, BodiesOnFile
<1>3. ASSUME NEW a \in Addresses, Collect(a),
             GcClosureUnmark(a) \/ UntracedCollection(a)
      PROVE  FInv'
  <2>1. /\ heap' = [heap EXCEPT ![a] = 0]
        /\ UNCHANGED <<objects, called, function_ids, call_id_counter,
                       call_stack, handled_functions, files, rows, stage, callee, info>>
        /\ lost \subseteq lost'
    BY <1>3 DEF Collect, GcClosureUnmark, UntracedCollection, analysis, handler
  <2>2. /\ DOMAIN function_definitions' \subseteq DOMAIN function_definitions
        /\ \A b \in DOMAIN function_definitions' : function_definitions'[b] = function_definitions[b]
        /\ a \in DOMAIN function_definitions' => a \in lost'
    BY <1>3 DEF GcClosureUnmark, UntracedCollection, RemoveFunctionDefinition
  <2>3. FTypeOK'
    <3>1. heap' \in [Addresses -> 0..Len(objects)]
      BY <2>1, <1>t, <1>l DEF FTypeOK
    <3> QED
      BY <3>1, <2>1, <2>2, <1>t DEF FTypeOK
  <2>4. DefinitionsAreTrue'
    <3> SUFFICES ASSUME NEW b \in DOMAIN function_definitions', b \notin lost'
                 PROVE  b \in Live' /\ function_definitions'[b] = TrueDefinition(b)'
      BY DEF DefinitionsAreTrue
    <3>1. b # a /\ b \in DOMAIN function_definitions \ lost
      BY <2>1, <2>2
    <3>2. b \in Live /\ function_definitions[b] = objects[heap[b]]
      BY <3>1 DEF FInv, DefinitionsAreTrue, TrueDefinition
    <3>3. heap'[b] = heap[b]
      BY <3>1, <3>2, <2>1, <1>t DEF Live, FTypeOK
    <3> QED
      BY <3>2, <3>3, <2>1, <2>2 DEF Live, TrueDefinition
  <2>5. CallsNameTheirFunction'
    BY <2>1 DEF FInv, CallsNameTheirFunction
  <2>6. HandlerInStep'
    BY <2>1 DEF FInv, HandlerInStep, Recorded
  <2> QED
    BY <2>1, <2>3, <2>4, <2>5, <2>6 DEF FInv, IdsAreHashes, BodiesOnFile
<1>4. ASSUME NEW a \in Live, NumberCall(a)
      PROVE  FInv'
  <2> DEFINE d == DefinitionAt(a)
             call == Len(called) + 1
  <2>2. /\ d \in Definitions /\ (a \notin lost => d = TrueDefinition(a))
        /\ heap[a] \in 1..Len(objects) /\ FunctionId(d) = Hash(d)
    BY DefinitionOfLive
  <2> HIDE DEF d
  <2>3. /\ call_id_counter' = call /\ called' = Append(called, heap[a])
        /\ GetFunctionDefinition(a) /\ function_ids' = Put(function_ids, d, Hash(d))
        /\ stage' = "expression" /\ callee' = heap[a]
        /\ info' = [call |-> call, function |-> Hash(d), definition |-> d]
        /\ UNCHANGED <<heap, objects, lost, rows, call_stack, handled_functions, files>>
    BY <1>4, <2>2, <1>t DEF NumberCall, FTypeOK, analysis, d
  <2>4. /\ DefinitionsAreTrue'
        /\ \A b \in DOMAIN function_definitions' :
             b \in Addresses /\ function_definitions'[b] \in Definitions
    BY <2>3, GetKeepsDefinitions
  <2>5. /\ called' \in Seq(1..Len(objects)) /\ Len(called') = call /\ called'[call] = heap[a]
        /\ \A n \in 1..Len(called) : called'[n] = called[n]
    BY <2>2, <2>3, <1>t DEF FTypeOK
  <2>6. \A q \in Recorded : q.call \in 1..Len(called)
    BY <1>t, RecordedCalls
  <2>7. FTypeOK'
    <3> DEFINE Ids == {Hash(x) : x \in Definitions}
               Old == [call : 1..Len(called), function : Ids]
               New == [call : 1..call, function : Ids]
    <3>1. Old \subseteq New
      BY <1>l
    <3>2. call_stack \in Seq(Old) /\ rows \subseteq Old
      BY <1>t DEF FTypeOK
    <3>3. call_stack' \in Seq(New) /\ rows' \subseteq New
      <4> HIDE DEF Old, New
      <4> QED
        BY <3>1, <3>2, <2>3
    <3> QED
      BY <3>3, <2>3, <2>4, <2>5, <1>t DEF FTypeOK
  <2>8. IdsAreHashes'
    BY <2>3 DEF FInv, IdsAreHashes, Put
  <2>9. CallsNameTheirFunction' /\ BodiesOnFile'
    BY <2>3, <2>5, <2>6 DEF FInv, CallsNameTheirFunction, BodiesOnFile, Recorded
  <2>10. HandlerInStep'
    <3>1. Recorded' = Recorded
      BY <2>3 DEF Recorded
    <3>2. call \in 1..Len(called') /\ \A q \in Recorded : q.call # call
      BY <2>5, <2>6, <1>l
    <3>3. lost = {} => d = objects[called'[call]]
      BY <2>2, <2>5 DEF TrueDefinition
    <3> QED
      BY <3>1, <3>2, <3>3, <2>2, <2>3, <2>5, <1>l DEF HandlerInStep
  <2> QED
    BY <2>4, <2>7, <2>8, <2>9, <2>10 DEF FInv
<1>5. ASSUME NEW a \in Addresses, EnterUnknown(a)
      PROVE  FInv'
  <2>1. /\ stage' = "definition" /\ callee' = heap[a] /\ UNCHANGED <<interpreter, state, analysis, info>>
    BY <1>5 DEF EnterUnknown
  <2>2. heap[a] \in 0..Len(objects)
    BY <1>t DEF FTypeOK
  <2> QED
    BY <2>1, <2>2, <1>l DEF interpreter, state, analysis, FInv, FTypeOK, HandlerInStep, Recorded,
            IdsAreHashes, DefinitionsAreTrue, CallsNameTheirFunction, BodiesOnFile, Live, TrueDefinition
<1>7. CASE PushCall
  <2> DEFINE d == info.definition
             r == [call |-> info.call, function |-> info.function]
             Old == [call : 1..Len(called), function : {Hash(x) : x \in Definitions}]
  <2>1. /\ stage = "expression" /\ call_stack' = Append(call_stack, r)
        /\ WriteFunctionBody(Hash(d), d) /\ stage' = "program" /\ callee' = 0
        /\ UNCHANGED <<heap, objects, called, lost, function_definitions, function_ids,
                       call_id_counter, rows>>
    BY <1>7 DEF PushCall, Finish, interpreter, state, FInv, HandlerInStep
  <2>2. /\ d \in Definitions /\ r.function = Hash(d) /\ r.call = info.call
        /\ info.call \in 1..Len(called)
        /\ lost = {} => d = objects[called[r.call]]
        /\ \A q \in Recorded : q.call # r.call
    BY <2>1 DEF FInv, HandlerInStep
  <2>3. r \in Old
    BY <2>2
  <2>4. call_stack \in Seq(Old) /\ rows \subseteq Old
    BY <1>t DEF FTypeOK
  <2>5. Recorded' = Recorded \cup {r}
    BY <2>1, <2>4, ToSetAppend DEF Recorded
  <2>6. FTypeOK'
    <3>1. call_stack' \in Seq(Old)
      <4> HIDE DEF r, Old
      <4> QED
        BY <2>1, <2>3, <2>4
    <3> QED
      BY <3>1, <2>1, <1>t DEF FTypeOK
  <2> HIDE DEF d, r
  <2>7. IdsAreHashes'
    BY <2>1 DEF FInv, IdsAreHashes, WriteFunctionBody, Put
  <2>8. CallsNameTheirFunction'
    <3> SUFFICES ASSUME lost = {}
                 PROVE  /\ \A q \in Recorded \cup {r} : q.function = Hash(objects[called[q.call]])
                        /\ \A q, t \in Recorded \cup {r} : q.call = t.call => q = t
      BY <2>1, <2>5 DEF CallsNameTheirFunction, Recorded
    <3>1. /\ \A q \in Recorded : q.function = Hash(objects[called[q.call]])
          /\ \A q, t \in Recorded : q.call = t.call => q = t
      BY DEF FInv, CallsNameTheirFunction, Recorded
    <3> QED
      BY <3>1, <2>2
  <2>9. BodiesOnFile'
    <3>1. Hash(d) \in DOMAIN files' /\ Hash(files'[Hash(d)]) = Hash(d)
      BY <2>1 DEF FInv, IdsAreHashes, WriteFunctionBody, Put
    <3>2. \A q \in Recorded : q.function \in DOMAIN files' /\ Hash(files'[q.function]) = q.function
      <4>1. DOMAIN files \subseteq DOMAIN files'
        BY <2>1 DEF WriteFunctionBody, Put
      <4>2. \A q \in Recorded : q.function \in DOMAIN files
        BY DEF FInv, BodiesOnFile, Recorded
      <4> QED
        BY <4>1, <4>2, <2>7 DEF IdsAreHashes
    <3> QED
      BY <3>1, <3>2, <2>2, <2>5 DEF BodiesOnFile, Recorded
  <2>10. DefinitionsAreTrue'
    BY <2>1 DEF FInv, DefinitionsAreTrue, Live, TrueDefinition
  <2>11. HandlerInStep'
    BY <2>1, <1>l DEF HandlerInStep
  <2> QED
    BY <2>6, <2>7, <2>8, <2>9, <2>10, <2>11 DEF FInv
<1>8. ASSUME NEW a \in Addresses, LeaveCall(a)
      PROVE  FInv'
  <2>1. /\ call_stack # <<>> /\ a \in Live /\ GetFunctionDefinition(a)
        /\ function_ids' = Put(function_ids, DefinitionAt(a), FunctionId(DefinitionAt(a)))
        /\ stage' = "exit" /\ callee' = heap[a]
        /\ UNCHANGED <<heap, objects, called, lost, call_id_counter, call_stack,
                       handled_functions, files, rows>>
    BY <1>8 DEF LeaveCall, interpreter, analysis
  <2>2. /\ DefinitionsAreTrue'
        /\ \A b \in DOMAIN function_definitions' :
             b \in Addresses /\ function_definitions'[b] \in Definitions
    BY <2>1, GetKeepsDefinitions
  <2>3. FTypeOK'
    BY <2>1, <2>2, <1>t DEF FTypeOK
  <2>4. IdsAreHashes'
    <3>1. FunctionId(DefinitionAt(a)) = Hash(DefinitionAt(a))
      BY <2>1, DefinitionOfLive
    <3> QED
      BY <3>1, <2>1 DEF FInv, IdsAreHashes, Put
  <2>5. CallsNameTheirFunction' /\ BodiesOnFile'
    BY <2>1 DEF FInv, CallsNameTheirFunction, BodiesOnFile
  <2>6. HandlerInStep'
    <3>1. heap[a] \in 0..Len(objects)
      BY <2>1, <1>t DEF Live, FTypeOK
    <3> QED
      BY <3>1, <2>1 DEF HandlerInStep
  <2> QED
    BY <2>2, <2>3, <2>4, <2>5, <2>6 DEF FInv
<1>9. CASE PopCall
  <2> DEFINE top == Last(call_stack)
             Old == [call : 1..Len(called), function : {Hash(x) : x \in Definitions}]
  <2>1. /\ stage = "exit" /\ rows' = rows \cup {top} /\ call_stack' = Front(call_stack)
        /\ stage' = "program" /\ callee' = 0
        /\ UNCHANGED <<heap, objects, called, lost, function_definitions, function_ids,
                       call_id_counter, handled_functions, files>>
    BY <1>9 DEF PopCall, Finish, interpreter, state
  <2>2. call_stack \in Seq(Old) /\ rows \subseteq Old /\ call_stack # <<>>
    BY <2>1, <1>t DEF FTypeOK, FInv, HandlerInStep
  <2>3. top \in Old /\ Front(call_stack) \in Seq(Old) /\ ToSet(Front(call_stack)) \cup {top} = ToSet(call_stack)
    <3> HIDE DEF Old
    <3> QED
      BY <2>2, ToSetPop
  <2>4. Recorded' = Recorded
    BY <2>1, <2>3 DEF Recorded
  <2>5. FTypeOK'
    BY <2>1, <2>2, <2>3, <1>t DEF FTypeOK
  <2>6. CallsNameTheirFunction' /\ BodiesOnFile'
    BY <2>1, <2>4 DEF FInv, CallsNameTheirFunction, BodiesOnFile, Recorded
  <2>7. DefinitionsAreTrue'
    BY <2>1 DEF FInv, DefinitionsAreTrue, Live, TrueDefinition
  <2>8. HandlerInStep' /\ IdsAreHashes'
    BY <2>1, <1>l DEF HandlerInStep, FInv, IdsAreHashes
  <2> QED
    BY <2>5, <2>6, <2>7, <2>8 DEF FInv
<1>10. ASSUME NEW a \in Addresses, EnterKnown(a) \/ StoreDefinition(a)
       PROVE  FInv'
  BY <1>4, <1>10 DEF EnterKnown, StoreDefinition
<1>6. ASSUME NEW a \in Addresses, GcClosureUnmark(a) \/ UntracedCollection(a)
      PROVE  FInv'
  <2>1. Collect(a)
    BY <1>6 DEF GcClosureUnmark, UntracedCollection
  <2> QED
    BY <1>3, <1>6, <2>1
<1> QED
  BY <1>1, <1>2, <1>5, <1>6, <1>7, <1>8, <1>9, <1>10 DEF Next

LEMMA SpecFInv == Spec => []FInv
  BY InitFInv, NextFInv, PTL DEF Spec

(* A definition kept for an address is that of the closure there, for any    *)
(* sequence of allocations, calls, collections and passes, unless a known    *)
(* closure went from that address between two passes.                        *)
THEOREM DefinitionsTrue == Spec => []DefinitionsAreTrue
<1>1. FInv => DefinitionsAreTrue
  BY DEF FInv
<1> QED
  BY <1>1, SpecFInv, PTL

(* The function id of a call is that of the function called, however long    *)
(* the run and however often addresses are reused.                           *)
THEOREM CallsNamed == Spec => []CallsNameTheirFunction
<1>1. FInv => CallsNameTheirFunction
  BY DEF FInv
<1> QED
  BY <1>1, SpecFInv, PTL

(* Every function id that a record of a call has, stale or not, is the name  *)
(* of a file with a definition that has this hash.                           *)
THEOREM BodiesThere == Spec => []BodiesOnFile
<1>1. FInv => BodiesOnFile
  BY DEF FInv
<1> QED
  BY <1>1, SpecFInv, PTL
=============================================================================
