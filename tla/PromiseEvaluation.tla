------------------------- MODULE PromiseEvaluation -------------------------
(***************************************************************************)
(* PromiseEvaluationAnalysis: in which context a promise is forced, and    *)
(* how many calls and promises lie between the force and the call in whose *)
(* environment the promise was made.  The analysis finds that call by      *)
(* comparing environment ids: one kept in the promise since the mapper met *)
(* it, the others looked up by the addresses on full_stack.  Addresses are *)
(* reused, and outside a pass nobody tells the tracer.                     *)
(*                                                                         *)
(*   environments     tracer_state_t: address of an environment -> its id; *)
(*   promises         PromiseMapper::promises_, promise -> PromiseState;   *)
(*   counted          the rows of evaluation_context_counts_ and of        *)
(*                    evaluation_distances_ that the last handler          *)
(*                    incremented: they are only ever incremented, by one. *)
(*                                                                         *)
(* The interpreter is external: live are the addresses that hold an        *)
(* environment, fresh those not yet the environment of a call; life and    *)
(* prenv are the stage of each promise and its PRENV slot, and foreign are *)
(* the promises whose creation was not traced.  home says at which address *)
(* the environment is that a promise had when the mapper met it (Nil once  *)
(* it was freed), and passed are the promises that were an argument since. *)
(* full_stack is the interpreter's own stack, as TracerStack shows; the R  *)
(* contexts on it, which the walks skip, are only the places a jump leads  *)
(* to.                                                                     *)
(***************************************************************************)
EXTENDS Integers, SequencesExt, FiniteSets

CONSTANTS Addresses,        \* addresses an environment can be allocated at
          Nil,              \* R_NilValue: the PRENV of an evaluated promise
          Promises,         \* ids of promises
          Primitives,       \* the types of functions that are not closures
          MaxEnvironments,  \* bound: environments given an id when allocated
          MaxDepth,         \* bound: events on full_stack
          MaxPasses         \* bound: passes of one dyntracer

ASSUME AddressesAssumption == IsFiniteSet(Addresses) /\ Nil \notin Addresses
ASSUME PrimitivesAssumption == Primitives \subseteq {"special", "builtin"}
ASSUME BoundsAssumption == {MaxEnvironments, MaxDepth, MaxPasses} \subseteq Nat

VARIABLES phase, live, fresh, life, prenv, foreign, home, passed,
          full_stack, environments, environment_id_counter, promises,
          counted, passes

memory    == <<live, fresh>>
slots     == <<life, prenv, foreign>>
truth     == <<home, passed>>
numbering == <<environments, environment_id_counter>>
vars      == <<phase, memory, slots, truth, full_stack, numbering, promises, counted, passes>>

-----------------------------------------------------------------------------
(* Events on the stack.  The enclosing_environment of a promise is not read. *)

FunctionTypes == {"closure"} \cup Primitives

CallEvent(fn, a) == [type |-> "CALL", fn |-> fn, environment |-> a]
PromiseEvent(p)  == [type |-> "PROMISE", fn |-> "none", promise |-> p]

CallsAbove(i, fn) == {j \in (i + 1)..Len(full_stack) : full_stack[j].fn = fn}
PromisesAbove(i)  == {j \in (i + 1)..Len(full_stack) : full_stack[j].type = "PROMISE"}

Push(e) == Len(full_stack) < MaxDepth /\ full_stack' = Append(full_stack, e)
Pop     == full_stack' = Front(full_stack)
OnStack(a)    == \E fn \in FunctionTypes : Contains(full_stack, CallEvent(fn, a))
Evaluating(p) == Contains(full_stack, PromiseEvent(p))

-----------------------------------------------------------------------------
(* Finite maps: m with v at k, and m with what n has at other keys. *)
Put(m, k, v) == [j \in DOMAIN m \cup {k} |-> IF j = k THEN v ELSE m[j]]
Union(m, n)  == [j \in DOMAIN m \cup DOMAIN n |-> IF j \in DOMAIN m THEN m[j] ELSE n[j]]

-----------------------------------------------------------------------------
(* The interpreter. *)

Tracing   == phase = "tracing"
Untraced  == phase = "idle"

(* An environment that a call or a promise yet to be forced refers to is not *)
(* freed.  (A promise freed in the same collection is taken to go first:     *)
(* gc_promise_unmark does not look at environments.)                         *)
Free(a) ==
  /\ a \in live /\ ~OnStack(a)
  /\ \A p \in Promises : life[p] = "unevaluated" => prenv[p] # a
  /\ live' = live \ {a} /\ fresh' = fresh \ {a}
  /\ home' = [p \in DOMAIN home |-> IF home[p] = a THEN Nil ELSE home[p]]

Become(p, stage, env) ==
  /\ life' = [life EXCEPT ![p] = stage]
  /\ prenv' = [prenv EXCEPT ![p] = env]

-----------------------------------------------------------------------------
(* to_environment_id of the addresses A, in whatever order: one that has no *)
(* id is given the next.                                                    *)
ToEnvironmentIds(A) ==
  LET new == A \ DOMAIN environments
      end == environment_id_counter + Cardinality(new)
  IN
  /\ environment_id_counter' = end
  /\ \E ids \in [new -> environment_id_counter..(end - 1)] :
       IsInjective(ids) /\ environments' = Union(environments, ids)

(* Mutant: the counter is incremented before its use. *)
RenumberAhead(a) ==
  /\ environments' = Put(environments, a, environment_id_counter + 1)
  /\ environment_id_counter' = environment_id_counter + 1

(* new_environment: the address gets a new id, whatever it had. *)
Renumber(a) ==
  /\ environments' = Put(environments, a, environment_id_counter)
  /\ environment_id_counter' = environment_id_counter + 1

(* gc_environment_unmark. *)
RemoveEnvironment(a) ==
  /\ environments' = Restrict(environments, DOMAIN environments \ {a})
  /\ UNCHANGED environment_id_counter

(* The mapping with those of P it does not have, each with the id of its *)
(* environment, which env gives: promise_created, insert_if_non_local.   *)
WithPromises(P, isLocal, env) ==
  Union(promises, [p \in P |-> [local |-> isLocal, argument |-> FALSE,
                               env_id |-> environments'[env[p]]]])

(* The same for what is true of them. *)
WithHomes(P, env) == Union(home, [p \in P |-> env[p]])

InsertIfNonLocal(p) ==
  /\ ToEnvironmentIds({prenv[p]})
  /\ promises' = WithPromises({p}, FALSE, prenv)
  /\ home' = WithHomes({p}, prenv)
  /\ passed' = passed

(* make_function_argument; the mode, a label of the table, is left out. *)
MakeFunctionArgument(s) == [s EXCEPT !.argument = TRUE, !.local = TRUE]

-----------------------------------------------------------------------------
(* The analysis. *)

EvaluationContexts == {"PROMISE", "CLOSURE", "SPECIAL", "BUILTIN", "GLOBAL"}

(* get_current_evaluation_context: what the topmost event is; a promise is *)
(* taken for a closure.                                                    *)
EvaluationContext ==
  IF full_stack = <<>> THEN "GLOBAL"
  ELSE CASE Last(full_stack).fn = "special" -> "SPECIAL"
         [] Last(full_stack).fn = "builtin" -> "BUILTIN"
         [] Last(full_stack).fn \in {"closure", "none"} -> "CLOSURE"

(* A row of evaluation_distances: what is on full_stack above position i. *)
Distance(i) ==
  [closures |-> Cardinality(CallsAbove(i, "closure")),
   specials |-> Cardinality(CallsAbove(i, "special")),
   builtins |-> Cardinality(CallsAbove(i, "builtin")),
   promises |-> Cardinality(PromisesAbove(i))]

Counted(contexts, distances) == [contexts |-> contexts, distances |-> distances]
CountNothing == counted' = Counted({}, {})

(* Mutant: the walk starts at the bottom of the stack. *)
FoundFromBottom(H) == Min(H)

(* The walk of compute_evaluation_distance starts at the top. *)
FoundFirst(H) == Max(H)

(* compute_evaluation_distance: to the topmost call on full_stack whose     *)
(* environment has the promise's env_id; without one nothing is counted.    *)
EvaluationDistances(s) ==
  LET H == {i \in DOMAIN full_stack :
              full_stack[i].type = "CALL" /\ environments'[full_stack[i].environment] = s.env_id}
  IN IF H = {} \/ ~s.local \/ ~s.argument THEN {} ELSE {Distance(FoundFirst(H))}

-----------------------------------------------------------------------------
Init ==
  /\ phase = "idle" /\ live = {} /\ fresh = {}
  /\ life = [p \in Promises |-> "none"] /\ foreign = {}
  /\ prenv = [p \in Promises |-> Nil]
  /\ home = <<>> /\ passed = {}
  /\ full_stack = <<>>
  /\ environments = <<>> /\ environment_id_counter = 0
  /\ promises = <<>>
  /\ counted = Counted({}, {})
  /\ passes = 0

DyntraceEntry ==
  /\ Untraced
  /\ passes < MaxPasses /\ passes' = passes + 1
  /\ phase' = "tracing"
  /\ UNCHANGED <<memory, slots, truth, full_stack, numbering, promises>>
  /\ CountNothing

(* Mutant: AnalysisDriver::end does not clear the PromiseMapper. *)
KeepMapping == promises

(* AnalysisDriver::end clears the PromiseMapper. *)
ClearMapping == <<>>

(* The stack is cleared; environments is kept.  The two tables are written *)
(* with all that was counted so far, and go on counting.                   *)
DyntraceExit ==
  /\ Tracing
  /\ phase' = "idle"
  /\ full_stack' = <<>>
  /\ promises' = ClearMapping
  /\ home' = Restrict(home, DOMAIN promises') /\ passed' = passed \cap DOMAIN promises'
  /\ UNCHANGED <<memory, slots, numbering, passes>>
  /\ CountNothing

(* Between passes environments and promises come and go without a probe. *)
UntracedAllocation(a) ==
  /\ Untraced
  /\ a \notin live /\ live' = live \cup {a}
  /\ UNCHANGED <<phase, fresh, slots, truth, full_stack, numbering, promises, passes>>
  /\ CountNothing

UntracedCollection(a) ==
  /\ Untraced
  /\ Free(a)
  /\ UNCHANGED <<phase, slots, passed, full_stack, numbering, promises, passes>>
  /\ CountNothing

UntracedPromise(p, a) ==
  /\ Untraced
  /\ life[p] = "none" /\ a \in live
  /\ Become(p, "unevaluated", a)
  /\ foreign' = foreign \cup {p}
  /\ UNCHANGED <<phase, memory, truth, full_stack, numbering, promises, passes>>
  /\ CountNothing

UntracedPromiseEnd(p) ==
  /\ Untraced
  /\ life[p] \in {"unevaluated", "evaluated"}
  /\ Become(p, "gone", Nil)
  /\ UNCHANGED <<phase, memory, foreign, truth, full_stack, numbering, promises, passes>>
  /\ CountNothing

NewEnvironment(a) ==
  /\ Tracing /\ environment_id_counter < MaxEnvironments
  /\ a \notin live /\ live' = live \cup {a} /\ fresh' = fresh \cup {a}
  /\ Renumber(a)
  /\ UNCHANGED <<phase, slots, truth, full_stack, promises, passes>>
  /\ CountNothing

GcEnvironmentUnmark(a) ==
  /\ Tracing
  /\ Free(a)
  /\ RemoveEnvironment(a)
  /\ UNCHANGED <<phase, slots, passed, full_stack, promises, passes>>
  /\ CountNothing

PromiseCreated(p, a) ==
  /\ Tracing
  /\ life[p] = "none" /\ a \in live
  /\ Become(p, "unevaluated", a)
  /\ ToEnvironmentIds({a})
  /\ promises' = WithPromises({p}, TRUE, prenv')
  /\ home' = WithHomes({p}, prenv')
  /\ UNCHANGED <<phase, memory, foreign, passed, full_stack, passes>>
  /\ CountNothing

GcPromiseUnmark(p) ==
  /\ Tracing
  /\ life[p] \in {"unevaluated", "evaluated"} /\ ~Evaluating(p)
  /\ Become(p, "gone", Nil)
  /\ promises' = Restrict(promises, DOMAIN promises \ {p})
  /\ home' = Restrict(home, DOMAIN home \ {p}) /\ passed' = passed \ {p}
  /\ UNCHANGED <<phase, memory, foreign, full_stack, numbering, passes>>
  /\ CountNothing

(* The other probes of a promise: the mapper inserts one it missed.  What   *)
(* it records of a promise that has its value is not read by this analysis. *)
PromiseSlotAccess(p) ==
  /\ Tracing
  /\ life[p] = "unevaluated"
  /\ InsertIfNonLocal(p)
  /\ UNCHANGED <<phase, memory, slots, full_stack, passes>>
  /\ CountNothing

(* promise_environment_assign numbers the new environment too; the id that *)
(* the mapper has is not touched.                                          *)
PromiseEnvironmentAssign(p, a) ==
  /\ Tracing
  /\ life[p] = "unevaluated" /\ a \in live
  /\ Become(p, "unevaluated", a)
  /\ ToEnvironmentIds({a, prenv[p]})
  /\ promises' = WithPromises({p}, FALSE, prenv)
  /\ home' = WithHomes({p}, prenv)
  /\ UNCHANGED <<phase, memory, foreign, passed, full_stack, passes>>
  /\ CountNothing

(* The promises P are the arguments.  One that is not foreign and not mapped *)
(* makes promises_.at throw, see PromiseTracking.                            *)
ClosureEntry(a, P) ==
  /\ Tracing
  /\ a \in fresh /\ fresh' = fresh \ {a}
  /\ \A p \in P : life[p] = "unevaluated" /\ p \in foreign \cup DOMAIN promises
  /\ Push(CallEvent("closure", a))
  /\ ToEnvironmentIds({prenv[p] : p \in P \ DOMAIN promises} \cup {a})
  /\ promises' = LET known == WithPromises(P, FALSE, prenv) IN
       [p \in DOMAIN known |-> IF p \in P THEN MakeFunctionArgument(known[p]) ELSE known[p]]
  /\ home' = WithHomes(P, prenv)
  /\ passed' = passed \cup P
  /\ UNCHANGED <<phase, live, slots, passes>>
  /\ CountNothing

(* A builtin or a special is evaluated in the environment it is called from. *)
BuiltinEntry(fn, a) ==
  /\ Tracing
  /\ a \in live
  /\ Push(CallEvent(fn, a))
  /\ ToEnvironmentIds({a})
  /\ UNCHANGED <<phase, memory, slots, truth, promises, passes>>
  /\ CountNothing

(* PromiseMapper, then the analysis, then the push on full_stack. *)
PromiseForceEntry(p) ==
  /\ Tracing
  /\ life[p] = "unevaluated" /\ ~Evaluating(p)
  /\ InsertIfNonLocal(p)
  /\ counted' = Counted({EvaluationContext}, EvaluationDistances(promises'[p]))
  /\ Push(PromiseEvent(p))
  /\ UNCHANGED <<phase, memory, slots, passes>>

PromiseForceExit(p) ==
  /\ Tracing
  /\ full_stack # <<>> /\ Last(full_stack) = PromiseEvent(p)
  /\ Become(p, "evaluated", Nil)
  /\ Pop
  /\ UNCHANGED <<phase, memory, foreign, truth, numbering, promises, passes>>
  /\ CountNothing

(* The exit of a call, or a jump that leaves n events. *)
Leave(n) ==
  /\ Tracing
  /\ n < Len(full_stack)
  /\ full_stack' = SubSeq(full_stack, 1, n)
  /\ UNCHANGED <<phase, memory, slots, truth, numbering, promises, passes>>
  /\ CountNothing

Next ==
  \/ DyntraceEntry \/ DyntraceExit
  \/ \E n \in 0..MaxDepth : Leave(n)
  \/ \E a \in Addresses :
       \/ UntracedAllocation(a) \/ UntracedCollection(a)
       \/ NewEnvironment(a) \/ GcEnvironmentUnmark(a)
       \/ \E P \in SUBSET Promises : ClosureEntry(a, P)
       \/ \E fn \in Primitives : BuiltinEntry(fn, a)
       \/ \E p \in Promises :
            UntracedPromise(p, a) \/ PromiseCreated(p, a) \/ PromiseEnvironmentAssign(p, a)
  \/ \E p \in Promises :
       \/ UntracedPromiseEnd(p) \/ GcPromiseUnmark(p) \/ PromiseSlotAccess(p)
       \/ PromiseForceEntry(p) \/ PromiseForceExit(p)

Spec == Init /\ [][Next]_vars
-----------------------------------------------------------------------------
(* Properties. *)

(* Every variable has values of the kind the code gives it; in particular *)
(* the environment of every call on full_stack has an id, so that the     *)
(* walk of compute_evaluation_distance gives none out.                    *)
TypeOK ==
  /\ fresh \subseteq live /\ live \subseteq Addresses
  /\ life \in [Promises -> {"none", "unevaluated", "evaluated", "gone"}]
  /\ prenv \in [Promises -> Addresses \cup {Nil}]
  /\ DOMAIN promises \subseteq Promises /\ DOMAIN home = DOMAIN promises
  /\ \A p \in DOMAIN promises :
       promises[p] \in [local : BOOLEAN, argument : BOOLEAN, env_id : 0..(environment_id_counter - 1)]
  /\ DOMAIN environments \subseteq Addresses \cup {Nil}
  /\ \A a \in DOMAIN environments : environments[a] \in 0..(environment_id_counter - 1)
  /\ \A a \in Addresses : OnStack(a) => a \in DOMAIN environments
  /\ counted.contexts \subseteq EvaluationContexts

(* The env_id kept in a promise names, now, the environment the promise had *)
(* when the mapper met it, and no other: it is the id of an address exactly *)
(* if that same environment is still there.  Addresses are reused, within a *)
(* pass and between passes, environments are collected while their promises *)
(* live on, and the slot may be assigned; yet env_id is compared with the   *)
(* ids of addresses at any later time (PromiseEvaluationAnalysis.cpp:41).   *)
EnvironmentIdsAreTrue ==
  \A p \in DOMAIN promises : \A a \in DOMAIN environments \cap Addresses :
    environments[a] = promises[p].env_id <=> home[p] = a

(* A force counts the context of the innermost call or promise, and, for a  *)
(* promise that was an argument in this pass, one distance: to the          *)
(* innermost call evaluated in the very environment that the promise had    *)
(* when the mapper met it, if there is such a call; for another promise     *)
(* none.  Nothing else counts anything.                                     *)
Forcing(p) == Len(full_stack') > Len(full_stack) /\ Last(full_stack') = PromiseEvent(p)
HomeCalls(p) ==
  {i \in DOMAIN full_stack : full_stack[i].type = "CALL" /\ full_stack[i].environment = home'[p]}

CountsTruly ==
  LET P == {p \in Promises : Forcing(p)} IN
  counted' = Counted({EvaluationContext : p \in P},
                     {Distance(Max(HomeCalls(p))) :
                        p \in {q \in P \cap passed : HomeCalls(q) # {}}})

(* Every step counts the evaluation that it is, and nothing else. *)
EvaluationsAreTrue == [][CountsTruly]_vars
=============================================================================
