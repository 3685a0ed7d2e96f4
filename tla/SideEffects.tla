---------------------------- MODULE SideEffects ----------------------------
(***************************************************************************)
(* SideEffectAnalysis and the numbering of environments and variables it   *)
(* relies on, during one pass.                                             *)
(*                                                                         *)
(*   environments   tracer_state_t: address of an environment -> its id    *)
(*                  and the ids of its variables;                          *)
(*   counts         defines_, assigns_, removals_, lookups_: one counter   *)
(*                  per scope and kind of action;                          *)
(*   timestamp, promise_timestamps, variable_timestamps, observers         *)
(*                  when a promise was created and a variable last         *)
(*                  written, and the promises that saw a later write.      *)
(*                                                                         *)
(* The interpreter is external.  heap has the environment object at each   *)
(* address (0: none); bindings are the variables it has.  clock numbers    *)
(* the actions on variables; written is the number of the last traced      *)
(* write of a variable, created that of the last action before a promise   *)
(* was created, observed the promises that truly read a variable after a   *)
(* write that followed their creation, and last the latest action with the *)
(* scope it was truly done in: the analysis must arrive at the same        *)
(* without objects, from addresses and ids.                                *)
(***************************************************************************)
EXTENDS Integers, SequencesExt, FiniteSets, FiniteSetsExt

CONSTANTS Addresses,        \* addresses an environment can be allocated at
          Global,           \* one of them: an environment older than the pass
          Symbols,          \* names of variables
          Promises,         \* ids of promises
          MaxObjects,       \* bound: environments allocated
          MaxActions,       \* bound: actions on variables
          MaxDepth          \* bound: events on the stack

ASSUME GlobalAssumption == Global \in Addresses
ASSUME SymbolsAssumption == IsFiniteSet(Symbols)
ASSUME BoundsAssumption == MaxObjects \in Nat \ {0} /\ MaxActions \in Nat /\ MaxDepth \in Nat

VARIABLES heap, objects, bindings, written, created, observed, last, clock,
          full_stack, environments, environment_id_counter, variable_id_counter,
          counts, timestamp, promise_timestamps, variable_timestamps, observers

truth     == <<written, created, observed, last>>
numbering == <<environments, environment_id_counter, variable_id_counter>>
analysis  == <<counts, timestamp, promise_timestamps, variable_timestamps, observers>>
vars      == <<heap, objects, bindings, truth, clock, full_stack, numbering, analysis>>

-----------------------------------------------------------------------------
Kinds  == {"defines", "assigns", "removals", "lookups"}
Scopes == {"promise", "function", "global"}
Never  == 0     \* a time before any action

EmptyMap     == [k \in {} |-> 0]
Put(m, k, v) == [j \in DOMAIN m \cup {k} |-> IF j = k THEN v ELSE m[j]]

CallEvent(a)    == [type |-> "CALL", environment |-> a]
PromiseEvent(p) == [type |-> "PROMISE", id |-> p]
ContextEvent    == [type |-> "CONTEXT"]

Live == {a \in Addresses : heap[a] # 0}
OnStack(a) == \E i \in DOMAIN full_stack : full_stack[i] = CallEvent(a)

(* The topmost event that is a call or a promise, whose scope an action is  *)
(* done in; <<>> at top level.                                              *)
Scoping == {i \in DOMAIN full_stack : full_stack[i].type # "CONTEXT"}
Innermost == IF Scoping = {} THEN <<>> ELSE <<full_stack[Max(Scoping)]>>

-----------------------------------------------------------------------------
(* tracer_state_t::to_environment_id and to_variable_id, as what they leave *)
(* behind; an environment or a variable is numbered when it is first met.   *)

Known(a) == a \in DOMAIN environments
(* Mutant: the map of variables is never searched. *)
NeverKnown(s, a) == FALSE

KnownVariable(s, a) == Known(a) /\ s \in DOMAIN environments[a].variables

(* Mutant: the counter is incremented before its use. *)
VariableIdAhead(s, a) == IF KnownVariable(s, a) THEN environments[a].variables[s]
                         ELSE variable_id_counter + 1

VariableId(s, a) == IF KnownVariable(s, a) THEN environments[a].variables[s]
                    ELSE variable_id_counter

NumberEnvironment(a) ==
  /\ environments' = IF Known(a) THEN environments
       ELSE Put(environments, a, [id |-> environment_id_counter, variables |-> EmptyMap])
  /\ environment_id_counter' = IF Known(a) THEN environment_id_counter
                               ELSE environment_id_counter + 1
  /\ variable_id_counter' = variable_id_counter

(* The variables in S, of the environment at a, in some order. *)
NumberVariables(S, a) ==
  LET new == {s \in S : ~KnownVariable(s, a)}
      old == IF Known(a) THEN environments[a].variables ELSE EmptyMap
  IN
  /\ \E numbers \in [new -> variable_id_counter..(variable_id_counter + Cardinality(new) - 1)] :
       /\ IsInjective(numbers)
       /\ environments' = Put(environments, a,
            [id        |-> IF Known(a) THEN environments[a].id ELSE environment_id_counter,
             variables |-> [s \in DOMAIN old \cup new |->
                              IF s \in new THEN numbers[s] ELSE old[s]]])
  /\ environment_id_counter' = IF Known(a) THEN environment_id_counter
                               ELSE environment_id_counter + 1
  /\ variable_id_counter' = variable_id_counter + Cardinality(new)

-----------------------------------------------------------------------------
(* SideEffectAnalysis. *)

(* The indices of the counters: all of them are 0, so that an action of any *)
(* scope is counted in the first, which is written out as "promise".        *)
PROMISE  == "promise"
FUNCTION == "promise"
GLOBAL   == "promise"

(* Mutant: an action at top level is not counted. *)
CountedInEvent(a) ==
  IF Innermost = <<>> THEN {}
  ELSE IF Innermost[1].type = "PROMISE" THEN {PROMISE}
  ELSE IF Innermost[1].environment # a THEN {FUNCTION} ELSE {}

(* The scope whose counter an action on the environment at a increases;     *)
(* none for an action of a function on its own environment.                 *)
CountedAs(a) ==
  IF Innermost = <<>> THEN {GLOBAL}
  ELSE IF Innermost[1].type = "PROMISE" THEN {PROMISE}
  ELSE IF Innermost[1].environment # a THEN {FUNCTION} ELSE {}

CountAction(kind, a) ==
  counts' = [scope \in Scopes |-> [counts[scope] EXCEPT
               ![kind] = IF scope \in CountedAs(a) THEN @ + 1 ELSE @]]

(* environment_define_var and environment_assign_var: the variable is new   *)
(* at this time.                                                            *)
StampVariable(s, a) ==
  /\ variable_timestamps' = Put(variable_timestamps, VariableId(s, a), timestamp)
  /\ timestamp' = timestamp + 1

(* environment_lookup_var: every promise under evaluation that is older     *)
(* than the last write of the variable observes it.                         *)
Evaluating == {full_stack[i].id : i \in {j \in DOMAIN full_stack : full_stack[j].type = "PROMISE"}}

(* Mutant: the comparison of the times is the wrong way round. *)
ObserveEarlier(s, a) ==
  observers' = observers \cup
    {p \in Evaluating :
       /\ VariableId(s, a) \in DOMAIN variable_timestamps
       /\ p \in DOMAIN promise_timestamps
       /\ promise_timestamps[p] > variable_timestamps[VariableId(s, a)]}

Observe(s, a) ==
  observers' = observers \cup
    {p \in Evaluating :
       /\ VariableId(s, a) \in DOMAIN variable_timestamps
       /\ p \in DOMAIN promise_timestamps
       /\ promise_timestamps[p] < variable_timestamps[VariableId(s, a)]}

-----------------------------------------------------------------------------
(* What is true of an action, by the interpreter's objects. *)

TrueScope(a) ==
  IF Innermost = <<>> THEN {"global"}
  ELSE IF Innermost[1].type = "PROMISE" THEN {"promise"}
  ELSE IF Innermost[1].environment # a THEN {"function"} ELSE {}

Tick == clock < MaxActions /\ clock' = clock + 1

NoAction == [kind |-> "none", scope |-> {}]
CauseTruly(kind, a) == last' = [kind |-> kind, scope |-> TrueScope(a)]

NoCounts == [scope \in Scopes |-> [kind \in Kinds |-> 0]]

-----------------------------------------------------------------------------
Init ==
  /\ heap = [a \in Addresses |-> IF a = Global THEN 1 ELSE 0] /\ objects = 1
  /\ \E S \in SUBSET Symbols : bindings = <<S>>
  /\ written = [o \in 1..MaxObjects |-> [s \in Symbols |-> Never]]
  /\ created = EmptyMap /\ observed = {} /\ last = NoAction /\ clock = 0
  /\ full_stack = <<>>
  /\ environments = EmptyMap /\ environment_id_counter = 0 /\ variable_id_counter = 0
  /\ counts = NoCounts /\ timestamp = 0
  /\ promise_timestamps = EmptyMap /\ variable_timestamps = EmptyMap /\ observers = {}

(* gc_allocate of an environment: new_environment numbers it afresh,        *)
(* whatever was known of its address.                                       *)
NewEnvironment(a) ==
  /\ a \notin Live /\ objects < MaxObjects
  /\ objects' = objects + 1
  /\ heap' = [heap EXCEPT ![a] = objects + 1]
  /\ bindings' = Append(bindings, {})
  /\ environments' = Put(environments, a, [id |-> environment_id_counter, variables |-> EmptyMap])
  /\ environment_id_counter' = environment_id_counter + 1
  /\ UNCHANGED <<truth, clock, full_stack, variable_id_counter, analysis>>

(* gc_environment_unmark. *)
GcEnvironmentUnmark(a) ==
  /\ a \in Live \ {Global} /\ ~OnStack(a)
  /\ heap' = [heap EXCEPT ![a] = 0]
  /\ environments' = [b \in DOMAIN environments \ {a} |-> environments[b]]
  /\ UNCHANGED <<objects, bindings, truth, clock, full_stack, environment_id_counter,
                 variable_id_counter, analysis>>

(* promise_created: its environment, at a, is numbered for the trace. *)
PromiseCreated(p, a) ==
  /\ p \notin DOMAIN created /\ a \in Live
  /\ created' = Put(created, p, clock)
  /\ promise_timestamps' = Put(promise_timestamps, p, timestamp)
  /\ timestamp' = timestamp + 1
  /\ NumberEnvironment(a)
  /\ UNCHANGED <<heap, objects, bindings, written, observed, last, clock, full_stack, counts,
                 variable_timestamps, observers>>

(* closure_entry with a new environment at a, in which the names in S are   *)
(* bound to promises, which are numbered; or, with S empty, builtin_entry   *)
(* and special_entry, whose environment is that of the calling code.        *)
ClosureEntry(a, S) ==
  /\ a \in Live /\ Len(full_stack) < MaxDepth
  /\ S # {} => a # Global /\ ~OnStack(a) /\ bindings[heap[a]] = {}
  /\ full_stack' = Append(full_stack, CallEvent(a))
  /\ bindings' = [bindings EXCEPT ![heap[a]] = @ \cup S]
  /\ NumberVariables(S, a)
  /\ UNCHANGED <<heap, objects, truth, clock, analysis>>

PromiseForceEntry(p) ==
  /\ Len(full_stack) < MaxDepth /\ p \notin Evaluating
  /\ full_stack' = Append(full_stack, PromiseEvent(p))
  /\ UNCHANGED <<heap, objects, bindings, truth, clock, numbering, analysis>>

ContextEntry ==
  /\ Len(full_stack) < MaxDepth
  /\ full_stack' = Append(full_stack, ContextEvent)
  /\ UNCHANGED <<heap, objects, bindings, truth, clock, numbering, analysis>>

(* Any exit, or a jump that leaves n events. *)
Leave(n) ==
  /\ n \in 0..(Len(full_stack) - 1)
  /\ full_stack' = SubSeq(full_stack, 1, n)
  /\ UNCHANGED <<heap, objects, bindings, truth, clock, numbering, analysis>>

(* environment_variable_define and environment_variable_assign. *)
Write(kind, s, a) ==
  /\ a \in Live /\ Tick
  /\ kind = "assigns" => s \in bindings[heap[a]]
  /\ bindings' = [bindings EXCEPT ![heap[a]] = @ \cup {s}]
  /\ written' = [written EXCEPT ![heap[a]][s] = clock']
  /\ CauseTruly(kind, a)
  /\ StampVariable(s, a)
  /\ CountAction(kind, a)
  /\ NumberVariables({s}, a)
  /\ UNCHANGED <<heap, objects, created, observed, full_stack, promise_timestamps, observers>>

(* environment_variable_remove: the variable keeps its id. *)
RemoveVariable(s, a) ==
  /\ a \in Live /\ s \in bindings[heap[a]] /\ Tick
  /\ bindings' = [bindings EXCEPT ![heap[a]] = @ \ {s}]
  /\ CauseTruly("removals", a)
  /\ CountAction("removals", a)
  /\ NumberVariables({s}, a)
  /\ UNCHANGED <<heap, objects, written, created, observed, full_stack, timestamp,
                 promise_timestamps, variable_timestamps, observers>>

(* environment_variable_lookup of a variable that is found. *)
Lookup(s, a) ==
  /\ a \in Live /\ s \in bindings[heap[a]] /\ Tick
  /\ observed' = observed \cup
       {p \in Evaluating \cap DOMAIN created : created[p] < written[heap[a]][s]}
  /\ CauseTruly("lookups", a)
  /\ CountAction("lookups", a)
  /\ Observe(s, a)
  /\ NumberVariables({s}, a)
  /\ UNCHANGED <<heap, objects, bindings, written, created, full_stack, timestamp,
                 promise_timestamps, variable_timestamps>>

Next ==
  \/ ContextEntry
  \/ \E n \in 0..MaxDepth : Leave(n)
  \/ \E p \in Promises : PromiseForceEntry(p)
  \/ \E a \in Addresses :
       \/ NewEnvironment(a) \/ GcEnvironmentUnmark(a)
       \/ \E p \in Promises : PromiseCreated(p, a)
       \/ \E S \in SUBSET Symbols : ClosureEntry(a, S)
       \/ \E s \in Symbols :
            \/ \E kind \in {"defines", "assigns"} : Write(kind, s, a)
            \/ RemoveVariable(s, a) \/ Lookup(s, a)

Spec == Init /\ [][Next]_vars
-----------------------------------------------------------------------------
(* Properties. *)

VariableIds(a) == {environments[a].variables[s] : s \in DOMAIN environments[a].variables}

(* Every variable has values of the kind the code gives it. *)
TypeOK ==
  /\ heap \in [Addresses -> 0..objects] /\ objects \in 1..MaxObjects
  /\ bindings \in [1..objects -> SUBSET Symbols]
  /\ DOMAIN environments \subseteq Addresses
  /\ \A a \in DOMAIN environments :
       /\ environments[a].id \in 0..(environment_id_counter - 1)
       /\ VariableIds(a) \subseteq 0..(variable_id_counter - 1)
  /\ counts \in [Scopes -> [Kinds -> 0..MaxActions]]
  /\ timestamp \in Nat
  /\ DOMAIN variable_timestamps \subseteq 0..(variable_id_counter - 1)
  /\ DOMAIN promise_timestamps \subseteq Promises /\ observers \subseteq Promises

(* An id names one variable of one environment object.  Ids come from       *)
(* counters that never go down; an environment or a variable that was not   *)
(* known, or that was known of another object at this address, gets an id   *)
(* no lower than the counter was, so one that was never given, not even to  *)
(* an environment long collected; it keeps this id while its environment    *)
(* lives; and two variables that have the same id are the same symbol in    *)
(* the same environment.                                                    *)
NamesOneVariable ==
  /\ environment_id_counter <= environment_id_counter'
  /\ variable_id_counter <= variable_id_counter'
  /\ \A a \in DOMAIN environments : heap'[a] = heap[a] =>
       /\ a \in DOMAIN environments' /\ environments'[a].id = environments[a].id
       /\ \A s \in DOMAIN environments[a].variables :
            /\ s \in DOMAIN environments'[a].variables
            /\ environments'[a].variables[s] = environments[a].variables[s]
  /\ \A a \in DOMAIN environments' :
       LET kept == a \in DOMAIN environments /\ heap'[a] = heap[a] IN
       /\ ~kept => environments'[a].id \in environment_id_counter..(environment_id_counter' - 1)
       /\ \A s \in DOMAIN environments'[a].variables :
            ~(kept /\ s \in DOMAIN environments[a].variables) =>
              environments'[a].variables[s] \in variable_id_counter..(variable_id_counter' - 1)
  /\ \A a, b \in DOMAIN environments' :
       /\ environments'[a].id = environments'[b].id => a = b
       /\ \A s \in DOMAIN environments'[a].variables, t \in DOMAIN environments'[b].variables :
            environments'[a].variables[s] = environments'[b].variables[t] => a = b /\ s = t

(* Every step keeps the ids so. *)
IdsNameOneVariable == [][NamesOneVariable]_vars

(* A promise is reported as an observer of side effects exactly if, while it *)
(* was under evaluation, a variable was read whose last write in this pass   *)
(* came after the promise was created; not the writes to another variable    *)
(* that had the same address and name.                                       *)
ObserversAreTrue == observers = observed

VariableAction == clock' # clock

(* No action with an effect outside its function is lost, none is counted   *)
(* twice or as another kind, whatever scope it is counted under; an action  *)
(* of a function on its own environment is not counted, and no step that is *)
(* no action on a variable changes a count.                                 *)
CountsOnce ==
  IF VariableAction
  THEN \E S \in SUBSET Scopes :
         /\ Cardinality(S) = Cardinality(last'.scope)
         /\ \A scope \in Scopes, kind \in Kinds :
              counts'[scope][kind] =
                counts[scope][kind] + (IF scope \in S /\ kind = last'.kind THEN 1 ELSE 0)
  ELSE counts' = counts

(* Every step counts so. *)
NoActionLost == [][CountsOnce]_vars

(* Each scope's row of caused-side-effects has the actions done in that      *)
(* scope; in particular an action with no call and no promise on the stack   *)
(* is counted as one at top level (SideEffectAnalysis.cpp:107).              *)
CountedByScope ==
  [][VariableAction => \A scope \in Scopes : \A kind \in Kinds :
       counts'[scope][kind] =
         counts[scope][kind] + (IF kind = last'.kind /\ scope \in last'.scope THEN 1 ELSE 0)]_vars
=============================================================================
