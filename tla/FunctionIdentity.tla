-------------------------- MODULE FunctionIdentity --------------------------
(***************************************************************************)
(* How the tracer tells functions apart.                                   *)
(*                                                                         *)
(*   function_definitions   tracer_state_t: address of a function -> its   *)
(*                  definition, deparsed when it is first met;             *)
(*   function_ids   definition -> id, a hash of the definition;            *)
(*   handled_functions, files   StrictnessAnalysis: the ids whose body was *)
(*                  written, and the files functions/<id>;                 *)
(*   call_stack, rows   the calls under way and the rows of the `calls'    *)
(*                  table, as pairs of a call id and a function id.        *)
(*                                                                         *)
(* The interpreter is external: heap has the closure object at an address  *)
(* (0: none), objects the definition that each has for life, and called    *)
(* the object of each call.  A collection during a pass is told to the     *)
(* tracer; between two passes nothing is, and lost has the addresses where *)
(* a closure that the tracer knew was collected then.                      *)
(*                                                                         *)
(* Deparsing evaluates R code, so the collector may run, and call its      *)
(* probes, in the middle of closure_entry and closure_exit: stage tells    *)
(* what is being deparsed, callee is the object whose probe it is, and     *)
(* info what the probe has found out about the call so far.                *)
(***************************************************************************)
EXTENDS Integers, SequencesExt, FiniteSets

CONSTANTS Addresses,      \* addresses a closure can be allocated at
          Definitions,    \* texts of functions
          MaxObjects,     \* bound: closures allocated
          MaxCalls,       \* bound: calls
          MaxPasses       \* bound: passes of one dyntracer

ASSUME BoundsAssumption == MaxObjects \in Nat /\ MaxCalls \in Nat /\ MaxPasses \in Nat

VARIABLES heap, objects, called, lost, phase, passes,
          function_definitions, function_ids, call_id_counter,
          call_stack, handled_functions, files, rows,
          stage, callee, info

interpreter == <<heap, objects, called, lost>>
handler     == <<stage, callee, info>>
state       == <<function_definitions, function_ids, call_id_counter>>
analysis    == <<call_stack, handled_functions, files, rows>>
vars        == <<interpreter, phase, passes, state, analysis, handler>>

-----------------------------------------------------------------------------
EmptyMap     == [k \in {} |-> 0]
Put(m, k, v) == [j \in DOMAIN m \cup {k} |-> IF j = k THEN v ELSE m[j]]

Live == {a \in Addresses : heap[a] # 0}
TrueDefinition(a) == objects[heap[a]]
UnderWay(a) == \/ heap[a] = callee
               \/ \E i \in DOMAIN call_stack : called[call_stack[i].call] = heap[a]

(* No probe of a call is deparsing.                                         *)
InProgram == stage = "program"
NoInfo    == <<>>
Finish    == stage' = "program" /\ callee' = 0 /\ info' = NoInfo

(* compute_hash: MD5, written so that it can be the name of a file.  No two *)
(* definitions in use have the same hash.                                   *)
Hash(definition) == <<"hash", definition>>

(* get_function_definition: what is known of the address, or else the       *)
(* function's own definition, which is deparsed and kept.                   *)
Known(a) == a \in DOMAIN function_definitions

DefinitionAt(a) == IF Known(a) THEN function_definitions[a] ELSE TrueDefinition(a)

GetFunctionDefinition(a) == function_definitions' = Put(function_definitions, a, DefinitionAt(a))

(* Mutant: the definition is kept for ever. *)
KeepDefinition(a) == function_definitions' = function_definitions

(* remove_function_definition. *)
RemoveFunctionDefinition(a) ==
  function_definitions' = [b \in DOMAIN function_definitions \ {a} |-> function_definitions[b]]

(* get_function_id. *)
FunctionId(definition) == IF definition \in DOMAIN function_ids THEN function_ids[definition]
                          ELSE Hash(definition)

(* Mutant: the body is written only for the first function. *)
WriteFirstBody(id, definition) ==
  /\ handled_functions' = handled_functions \cup {id}
  /\ files' = IF handled_functions = {} THEN Put(files, id, definition) ELSE files

(* write_function_body_: a body is written once, for the first call. *)
WriteFunctionBody(id, definition) ==
  /\ handled_functions' = handled_functions \cup {id}
  /\ files' = IF id \in handled_functions THEN files ELSE Put(files, id, definition)

-----------------------------------------------------------------------------
Init ==
  /\ heap = [a \in Addresses |-> 0] /\ objects = <<>> /\ called = <<>> /\ lost = {}
  /\ phase = "idle" /\ passes = 0
  /\ function_definitions = EmptyMap /\ function_ids = EmptyMap /\ call_id_counter = 0
  /\ call_stack = <<>> /\ handled_functions = {} /\ files = EmptyMap /\ rows = {}
  /\ stage = "program" /\ callee = 0 /\ info = NoInfo

DyntraceEntry ==
  /\ phase = "idle" /\ passes < MaxPasses
  /\ phase' = "tracing" /\ passes' = passes + 1
  /\ UNCHANGED <<interpreter, state, analysis, handler>>

(* Nothing of what is known of functions is reset. *)
DyntraceExit ==
  /\ phase = "tracing" /\ call_stack = <<>> /\ InProgram
  /\ phase' = "idle"
  /\ UNCHANGED <<interpreter, passes, state, analysis, handler>>

(* A closure is allocated: no probe handles it (gc_allocate dispatches on   *)
(* promises, environments and vectors only).                                *)
Allocate(a, definition) ==
  /\ InProgram /\ a \notin Live /\ Len(objects) < MaxObjects
  /\ heap' = [heap EXCEPT ![a] = Len(objects) + 1]
  /\ objects' = Append(objects, definition)
  /\ UNCHANGED <<called, lost, phase, passes, state, analysis, handler>>

(* A closure is collected, but for one that is being called, also in the    *)
(* middle of a probe that deparses; gc_closure_unmark is called for it if a *)
(* pass is under way.                                                       *)
Collect(a) ==
  /\ a \in Live /\ ~UnderWay(a)
  /\ heap' = [heap EXCEPT ![a] = 0]
  /\ UNCHANGED <<objects, called, phase, passes, function_ids, call_id_counter, analysis, handler>>

GcClosureUnmark(a) ==
  /\ phase = "tracing"
  /\ Collect(a)
  /\ RemoveFunctionDefinition(a)
  /\ lost' = lost

UntracedCollection(a) ==
  /\ phase = "idle"
  /\ Collect(a)
  /\ lost' = lost \cup ({a} \cap DOMAIN function_definitions)
  /\ UNCHANGED function_definitions

(* function_entry_get_info, when the definition is at hand: the call is     *)
(* numbered, and then its expression is deparsed.                           *)
NumberCall(a) ==
  LET definition == DefinitionAt(a)
      id == FunctionId(definition)
  IN
  /\ GetFunctionDefinition(a)
  /\ function_ids' = Put(function_ids, definition, id)
  /\ call_id_counter' = call_id_counter + 1
  /\ called' = Append(called, heap[a])
  /\ stage' = "expression" /\ callee' = heap[a]
  /\ info' = [call |-> call_id_counter + 1, function |-> id, definition |-> definition]
  /\ UNCHANGED <<heap, objects, lost, phase, passes, analysis>>

(* closure_entry of a function known by its address.                        *)
EnterKnown(a) ==
  /\ phase = "tracing" /\ InProgram /\ call_id_counter < MaxCalls
  /\ a \in Live /\ Known(a)
  /\ NumberCall(a)

(* closure_entry of another one, which is deparsed first...                 *)
EnterUnknown(a) ==
  /\ phase = "tracing" /\ InProgram /\ call_id_counter < MaxCalls
  /\ a \in Live /\ ~Known(a)
  /\ stage' = "definition" /\ callee' = heap[a]
  /\ UNCHANGED <<interpreter, phase, passes, state, analysis, info>>

(* ... and then stored.                                                     *)
StoreDefinition(a) ==
  /\ stage = "definition" /\ a \in Live /\ heap[a] = callee
  /\ NumberCall(a)

(* The rest of closure_entry: the call is pushed and analyzed.              *)
PushCall ==
  /\ stage = "expression"
  /\ call_stack' = Append(call_stack, [call |-> info.call, function |-> info.function])
  /\ WriteFunctionBody(info.function, info.definition)
  /\ Finish
  /\ UNCHANGED <<interpreter, phase, passes, state, rows>>

(* closure_exit: the definition is asked for again, and then the closure is *)
(* deparsed.                                                                *)
LeaveCall(a) ==
  /\ phase = "tracing" /\ InProgram /\ call_stack # <<>>
  /\ a \in Live /\ heap[a] = called[Last(call_stack).call]
  /\ GetFunctionDefinition(a)
  /\ function_ids' = Put(function_ids, DefinitionAt(a), FunctionId(DefinitionAt(a)))
  /\ stage' = "exit" /\ callee' = heap[a]
  /\ UNCHANGED <<interpreter, phase, passes, call_id_counter, analysis, info>>

(* The rest of closure_exit: serialize_call writes the row with the id of   *)
(* the entry.                                                               *)
PopCall ==
  /\ stage = "exit"
  /\ rows' = rows \cup {Last(call_stack)}
  /\ call_stack' = Front(call_stack)
  /\ Finish
  /\ UNCHANGED <<interpreter, phase, passes, state, handled_functions, files>>

Next ==
  \/ DyntraceEntry \/ DyntraceExit \/ PushCall \/ PopCall
  \/ \E a \in Addresses :
       \/ \E definition \in Definitions : Allocate(a, definition)
       \/ GcClosureUnmark(a) \/ UntracedCollection(a)
       \/ EnterKnown(a) \/ EnterUnknown(a) \/ StoreDefinition(a) \/ LeaveCall(a)

Spec == Init /\ [][Next]_vars
-----------------------------------------------------------------------------
(* Properties. *)

(* A definition kept for an address is that of the function which is there  *)
(* now: what RDT_DEBUG has the tracer compare, at each use, with the text   *)
(* of the function (helpers.cpp:57-62), though addresses are reused, and no *)
(* definition is kept of a function that is gone.  The one exception are    *)
(* addresses where a known closure was collected between two passes, which  *)
(* no probe could tell.                                                     *)
DefinitionsAreTrue ==
  \A a \in DOMAIN function_definitions \ lost :
    a \in Live /\ function_definitions[a] = TrueDefinition(a)

(* The function id of a call, under way or in the table, is that of the     *)
(* function the interpreter called, and no entry of the table says          *)
(* something else about the same call: in all passes, unless a definition   *)
(* was lost between them.                                                   *)
CallsNameTheirFunction ==
  lost = {} =>
    /\ \A r \in rows \cup ToSet(call_stack) : r.function = Hash(objects[called[r.call]])
    /\ \A r, s \in rows \cup ToSet(call_stack) : r.call = s.call => r = s

(* Whatever the function id of a call, it can be looked up: a file of that  *)
(* name has the definition that has this hash, in every pass.               *)
BodiesOnFile ==
  \A r \in rows \cup ToSet(call_stack) :
    r.function \in DOMAIN files /\ Hash(files[r.function]) = r.function
=============================================================================
