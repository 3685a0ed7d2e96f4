---------------------------- MODULE TracerStack ----------------------------
(***************************************************************************)
(* The core of the tracer: the two stacks it keeps while the R interpreter *)
(* calls its probes, and the two outputs that depend on them.              *)
(*                                                                         *)
(*   full_stack  tracer_state_t::full_stack, pushed and popped by the      *)
(*               probes: calls, promises under evaluation and R contexts;  *)
(*   call_stack  StrictnessAnalysis::call_stack_, calls only, pushed and   *)
(*               popped by function_entry_ and function_exit_;             *)
(*   calls       the call ids whose row is in the `calls' table            *)
(*               (serialize_call_), that is, the calls made inactive;      *)
(*   open        what a reader of this pass of the trace file has seen     *)
(*               begin and not yet finish; misnested: it met a FINISH that *)
(*               is not of the last of these.                              *)
(*                                                                         *)
(* The interpreter is not part of the repository: frames is the stack of   *)
(* the activations it is really in, and its moves (Enter, Leave, JumpTo)   *)
(* are modelled from how the probes use them.  Handlers are atomic: the    *)
(* tracer runs on the interpreter's only thread.                           *)
(***************************************************************************)
EXTENDS Integers, SequencesExt, FiniteSets

CONSTANTS Promises,        \* promise ids that can be forced
          Contexts,        \* addresses of R contexts (RCNTXT *)
          TopLevel,        \* a context begun before tracing started
          MaxCalls,        \* bound: calls entered in a behaviour
          MaxDepth         \* bound: live interpreter frames

ASSUME BoundsAssumption == MaxCalls \in Nat /\ MaxDepth \in Nat
ASSUME TopLevelAssumption == TopLevel \notin Contexts

VARIABLES frames, phase, status, full_stack, call_id_counter,
          call_stack, calls, open, misnested

state    == <<full_stack, call_id_counter>>
analysis == <<call_stack, calls>>
trace    == <<open, misnested>>
vars     == <<frames, phase, status, state, analysis, trace>>

-----------------------------------------------------------------------------
(* Stack events (stack_event_t).  fn is function_info.type, for calls only. *)

FunctionTypes == {"closure", "special", "builtin"}

CallEvent(id, fn) == [type |-> "CALL", id |-> id, fn |-> fn]
PromiseEvent(p)   == [type |-> "PROMISE", id |-> p, fn |-> "none"]
ContextEvent(c)   == [type |-> "CONTEXT", id |-> c, fn |-> "none"]

CallEvents    == [type : {"CALL"}, id : 1..MaxCalls, fn : FunctionTypes]
PromiseEvents == [type : {"PROMISE"}, id : Promises, fn : {"none"}]
ContextEvents == [type : {"CONTEXT"}, id : Contexts, fn : {"none"}]
StackEvents   == CallEvents \cup PromiseEvents \cup ContextEvents

SameEvent(a, b) == a.type = b.type /\ a.id = b.id

(* Positions of s that hold an event of one of the types T: above n and up *)
(* to m; up to m.                                                          *)
Between(s, T, n, m) == {j \in (n + 1)..m : s[j].type \in T}
Upto(s, T, m) == Between(s, T, 0, m)

(* get_last_on_stack_by_type(stack, CALL), as the id it yields: 0 if none. *)
LastCallId(s) ==
  LET C == Upto(s, {"CALL"}, Len(s)) IN
  IF C = {} THEN 0 ELSE s[CHOOSE i \in C : \A j \in C : j <= i].id

-----------------------------------------------------------------------------
(* The interpreter. *)

Running  == phase = "tracing" /\ status = "running"
Enter(e) == Len(frames) < MaxDepth /\ frames' = Append(frames, e)
Leave(e) == frames # <<>> /\ Last(frames) = e /\ frames' = Front(frames)
Live(e)  == \E i \in DOMAIN frames : frames[i] = e

(* A jump to a live context leaves that context on top; a jump to a context *)
(* that was begun before tracing leaves no traced frame.                    *)
JumpTo(c) ==
  \/ /\ c = TopLevel
     /\ frames' = <<>>
  \/ \E i \in DOMAIN frames :
       /\ frames[i] = ContextEvent(c)
       /\ frames' = SubSeq(frames, 1, i)

-----------------------------------------------------------------------------
(* Pieces of the handlers. *)

(* Mutant: the caller is the outermost call. *)
OutermostCaller == IF call_stack = <<>> THEN 0 ELSE Head(call_stack).id

(* The caller in the call-graph row that add_call_graph_edge_ writes when a *)
(* function is entered; 0: it writes no row.                                *)
GraphCaller == IF call_stack = <<>> THEN 0 ELSE Last(call_stack).id

(* Mutant: the id is read before make_funcall_id increments the counter. *)
FunctionEntryEarlyId(id, fn) ==
  /\ call_stack' = Append(call_stack, CallEvent(id - 1, fn))
  /\ calls' = calls

(* StrictnessAnalysis::function_entry_: the push on call_stack_. *)
FunctionEntry(id, fn) ==
  /\ call_stack' = Append(call_stack, CallEvent(id, fn))
  /\ calls' = calls

(* StrictnessAnalysis::function_exit_: the top of call_stack_ is popped and *)
(* must be the call that the handler named, or the process exits.           *)
FunctionExitMatches(id) == call_stack # <<>> /\ Last(call_stack).id = id

(* Mutants: function_exit_ looks at the top without popping it; it forgets  *)
(* serialize_call_.                                                         *)
FunctionExitPeeks(id) ==
  /\ status' = IF FunctionExitMatches(id) THEN "running" ELSE "failed"
  /\ call_stack' = call_stack
  /\ calls' = IF FunctionExitMatches(id) THEN calls \cup {id} ELSE calls

FunctionExitNoRow(id) ==
  /\ status' = IF FunctionExitMatches(id) THEN "running" ELSE "failed"
  /\ call_stack' = IF call_stack = <<>> THEN <<>> ELSE Front(call_stack)
  /\ calls' = calls

FunctionExit(id) ==
  /\ status' = IF FunctionExitMatches(id) THEN "running" ELSE "failed"
  /\ call_stack' = IF call_stack = <<>> THEN <<>> ELSE Front(call_stack)
  /\ calls' = IF FunctionExitMatches(id) THEN calls \cup {id} ELSE calls

(* The trace records FUNCTION_BEGIN and PROMISE_BEGIN open a bracket, *)
(* FUNCTION_FINISH and PROMISE_FINISH close one.                      *)
TraceBegin(e) == open' = Append(open, e) /\ misnested' = misnested

TraceFinish(type, id) ==
  LET nested == open # <<>> /\ Last(open).type = type /\ Last(open).id = id IN
  /\ open' = IF nested THEN Front(open) ELSE open
  /\ misnested' = (misnested \/ ~nested)

(* Mutant: the target's own event is popped too. *)
UnwindsPast(n, c) ==
  /\ n < Len(full_stack) => SameEvent(full_stack[n + 1], ContextEvent(c)) \/ n = 0
  /\ n = Len(full_stack) => full_stack = <<>>
  /\ \A i \in (n + 2)..Len(full_stack) : ~SameEvent(full_stack[i], ContextEvent(c))

(* adjust_stacks pops full_stack down to, and not including, the topmost *)
(* event of the target context; all of it if there is none.              *)
UnwindsTo(n, c) ==
  /\ n # 0 => SameEvent(full_stack[n], ContextEvent(c))
  /\ \A i \in (n + 1)..Len(full_stack) : ~SameEvent(full_stack[i], ContextEvent(c))

Unwound(n, T) == Between(full_stack, T, n, Len(full_stack))

(* Popping one element of s for each position of U, from the top down, meets *)
(* at each pop the event that fs has at that position.                       *)
PopsMatch(s, fs, U) ==
  /\ Cardinality(U) <= Len(s)
  /\ \A i \in U : SameEvent(s[Len(s) + 1 - Cardinality({j \in U : i <= j})], fs[i])

DropTop(s, k) == SubSeq(s, 1, Len(s) - k)

(* Mutants: context_jump is not passed on to the analysis; it makes the     *)
(* unwound calls inactive without serialize_call_.                          *)
UnwindNothing(U) == UNCHANGED <<status, call_stack, calls>>

UnwindNoRows(U) ==
  /\ status' = IF PopsMatch(call_stack, full_stack, U) THEN "running" ELSE "failed"
  /\ call_stack' = IF PopsMatch(call_stack, full_stack, U)
                   THEN DropTop(call_stack, Cardinality(U)) ELSE call_stack
  /\ calls' = calls

(* StrictnessAnalysis::context_jump: function_exit_ for every unwound call. *)
UnwindCalls(U) ==
  /\ status' = IF PopsMatch(call_stack, full_stack, U) THEN "running" ELSE "failed"
  /\ call_stack' = IF PopsMatch(call_stack, full_stack, U)
                   THEN DropTop(call_stack, Cardinality(U)) ELSE call_stack
  /\ calls' = IF PopsMatch(call_stack, full_stack, U)
              THEN calls \cup {full_stack[i].id : i \in U} ELSE calls

(* Mutant: no PROMISE_FINISH is written for an unwound promise. *)
TraceUnwindCalls(U) ==
  LET V == {i \in U : full_stack[i].type = "CALL"} IN
  /\ open' = IF PopsMatch(open, full_stack, V) THEN DropTop(open, Cardinality(V)) ELSE open
  /\ misnested' = (misnested \/ ~PopsMatch(open, full_stack, V))

(* The FINISH records that adjust_stacks writes, in the order of its pops. *)
TraceUnwind(U) ==
  /\ open' = IF PopsMatch(open, full_stack, U) THEN DropTop(open, Cardinality(U)) ELSE open
  /\ misnested' = (misnested \/ ~PopsMatch(open, full_stack, U))

-----------------------------------------------------------------------------
Init ==
  /\ frames = <<>> /\ phase = "idle" /\ status = "running"
  /\ full_stack = <<>> /\ call_id_counter = 0
  /\ call_stack = <<>> /\ calls = {}
  /\ open = <<>> /\ misnested = FALSE

DyntraceEntry ==
  /\ phase = "idle" /\ status = "running"
  /\ phase' = "tracing"
  /\ UNCHANGED <<frames, status, state, analysis, trace>>

(* dyntrace_exit clears whatever is left on full_stack, and only that: it   *)
(* writes no FINISH records and leaves call_stack_ as it is.  The reader of *)
(* the trace starts the next pass afresh.                                   *)
DyntraceExit ==
  /\ Running
  /\ phase' = "idle"
  /\ frames' = <<>>
  /\ full_stack' = <<>>
  /\ open' = <<>>
  /\ UNCHANGED <<status, call_id_counter, analysis, misnested>>

(* closure_entry, and builtin_entry/special_entry through print_entry_info. *)
CallEntry(fn) ==
  LET e == CallEvent(call_id_counter + 1, fn) IN
  /\ Running
  /\ call_id_counter < MaxCalls
  /\ Enter(e)
  /\ call_id_counter' = call_id_counter + 1
  /\ full_stack' = Append(full_stack, e)
  /\ FunctionEntry(e.id, fn)
  /\ TraceBegin(e)
  /\ UNCHANGED <<phase, status>>

(* The exit probes do not know the call id: they take it from the topmost *)
(* CALL of full_stack, and pop the top of full_stack whatever it is.      *)
CallExit(fn) ==
  /\ Running
  /\ \E id \in 1..call_id_counter : Leave(CallEvent(id, fn))
  /\ full_stack' = Front(full_stack)
  /\ FunctionExit(LastCallId(full_stack))
  /\ TraceFinish("CALL", LastCallId(full_stack))
  /\ UNCHANGED <<phase, call_id_counter>>

(* promise_force_entry copies a field of full_stack.back(): with an empty *)
(* full_stack the read is undefined, and may end the process.             *)
PromiseForceEntry(p) ==
  /\ Running
  /\ ~Live(PromiseEvent(p))
  /\ Enter(PromiseEvent(p))
  /\ full_stack' = Append(full_stack, PromiseEvent(p))
  /\ status' \in IF full_stack = <<>> THEN {"running", "undefined"} ELSE {"running"}
  /\ TraceBegin(PromiseEvent(p))
  /\ UNCHANGED <<phase, call_id_counter, analysis>>

PromiseForceExit(p) ==
  /\ Running
  /\ Leave(PromiseEvent(p))
  /\ full_stack' = Front(full_stack)
  /\ TraceFinish("PROMISE", p)
  /\ UNCHANGED <<phase, status, call_id_counter, analysis>>

ContextEntry(c) ==
  /\ Running
  /\ ~Live(ContextEvent(c))
  /\ Enter(ContextEvent(c))
  /\ full_stack' = Append(full_stack, ContextEvent(c))
  /\ UNCHANGED <<phase, status, call_id_counter, analysis, trace>>

(* context_exit pops only if the context is on top; otherwise it warns. *)
ContextExit(c) ==
  /\ Running
  /\ Leave(ContextEvent(c))
  /\ full_stack' = IF full_stack # <<>> /\ SameEvent(Last(full_stack), ContextEvent(c))
                   THEN Front(full_stack) ELSE full_stack
  /\ UNCHANGED <<phase, status, call_id_counter, analysis, trace>>

ContextJump(c) ==
  /\ Running
  /\ JumpTo(c)
  /\ \E n \in 0..Len(full_stack) :
       /\ UnwindsTo(n, c)
       /\ full_stack' = SubSeq(full_stack, 1, n)
       /\ UnwindCalls(Unwound(n, {"CALL"}))
       /\ TraceUnwind(Unwound(n, {"CALL", "PROMISE"}))
  /\ UNCHANGED <<phase, call_id_counter>>

Next ==
  \/ DyntraceEntry \/ DyntraceExit
  \/ \E fn \in FunctionTypes : CallEntry(fn) \/ CallExit(fn)
  \/ \E p \in Promises : PromiseForceEntry(p) \/ PromiseForceExit(p)
  \/ \E c \in Contexts : ContextEntry(c) \/ ContextExit(c)
  \/ \E c \in Contexts \cup {TopLevel} : ContextJump(c)

Spec == Init /\ [][Next]_vars
-----------------------------------------------------------------------------
(* Properties. *)

(* Every variable has values of the kind the code gives it. *)
TypeOK ==
  /\ frames \in Seq(StackEvents) /\ full_stack \in Seq(StackEvents)
  /\ phase \in {"idle", "tracing"}
  /\ status \in {"running", "failed", "undefined"}
  /\ call_id_counter \in 0..MaxCalls
  /\ call_stack \in Seq(CallEvents)
  /\ calls \subseteq 1..MaxCalls
  /\ open \in Seq(CallEvents \cup PromiseEvents)
  /\ misnested \in BOOLEAN

(* Between two probes full_stack is exactly the interpreter's own stack: no  *)
(* sequence of entries, exits and jumps makes the pops of closure_exit,      *)
(* promise_force_exit, context_exit and adjust_stacks drift from it.         *)
FullStackMirrors == full_stack = frames

(* The elements of s end with the events of fs of the types T, in their     *)
(* order; what lies below them was left there by an earlier pass.           *)
Agrees(s, fs, T) ==
  LET base == Len(s) - Cardinality(Upto(fs, T, Len(fs))) IN
  /\ base >= 0
  /\ \A i \in Upto(fs, T, Len(fs)) : s[base + Cardinality(Upto(fs, T, i))] = fs[i]

(* StrictnessAnalysis::call_stack_ and the CALL events of full_stack are two *)
(* accounts of the same calls, kept by different handlers in different       *)
(* orders; they agree call by call.                                          *)
CallStackAgrees == Agrees(call_stack, full_stack, {"CALL"})

(* function_exit_ never meets another call than the one being left, so the   *)
(* exit(EXIT_FAILURE) of StrictnessAnalysis.cpp:61 is not reached, whatever  *)
(* jumps and unfinished passes came before.                                  *)
NeverFails == status # "failed"

(* The FINISH records of normal exits and of unwindings, together, close the *)
(* BEGIN records of the trace in last-in first-out order.                    *)
TraceNests == ~misnested /\ Agrees(open, full_stack, {"CALL", "PROMISE"})

(* Every call id given out is either on call_stack_, active and without a    *)
(* row, or inactive with its row in the calls table, never both; and it is   *)
(* on call_stack_ at most once.                                              *)
ActiveCalls == {call_stack[i].id : i \in DOMAIN call_stack}
CallsAccounted ==
  /\ ActiveCalls \cup calls = 1..call_id_counter
  /\ ActiveCalls \cap calls = {}
  /\ \A i, j \in DOMAIN call_stack : call_stack[i].id = call_stack[j].id => i = j

(* The trace and the calls table together are a behaviour of CallLog. *)
Log == INSTANCE CallLog WITH Events <- CallEvents \cup PromiseEvents
ImplementsCallLog == Log!Init /\ [][Log!Next]_<<open, calls>>

(* The caller of a call-graph row, taken from call_stack_, is the call that  *)
(* the recorder's parent_call_id, taken from full_stack, names, and it is    *)
(* the innermost call the interpreter is in.  Only at the top level of a     *)
(* pass may it be another: a call left on call_stack_ by an unfinished pass, *)
(* which then has no row.                                                    *)
CallerIsParent ==
  \/ GraphCaller = LastCallId(full_stack) /\ GraphCaller = LastCallId(frames)
  \/ LastCallId(frames) = 0 /\ GraphCaller \in ActiveCalls
=============================================================================
