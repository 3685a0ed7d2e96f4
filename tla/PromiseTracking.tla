-------------------------- MODULE PromiseTracking --------------------------
(***************************************************************************)
(* The identity and the life of promises, as the tracer records them.      *)
(*                                                                         *)
(*   promise_ids      tracer_state_t: address of a promise -> its id; ids  *)
(*                    of promises whose creation was seen count up from 0, *)
(*                    ids of foreign ones count down from -1;              *)
(*   fresh_promises, promise_origin   the same, for the first call that    *)
(*                    takes a promise as argument (0: none);               *)
(*   promises         PromiseMapper::promises_, id -> PromiseState;        *)
(*   default_argument_promises, custom_argument_promises,                  *)
(*   non_argument_promises, evaluated, unevaluated                         *)
(*                    PromiseTypeAnalysis: the promises it waits for, and  *)
(*                    how often it has counted each as evaluated or as     *)
(*                    never evaluated.                                     *)
(*                                                                         *)
(* The interpreter is external: heap says which promise object is at an    *)
(* address (0: none), numbered in order of allocation; objects is what is  *)
(* true of each.  Addresses are reused.  Outside a pass no probe is called.*)
(* owner is a history variable, not in the code: the promise that each id  *)
(* was first given to.                                                     *)
(***************************************************************************)
EXTENDS Integers, SequencesExt, FiniteSets, BagsExt

CONSTANTS Addresses,            \* addresses a promise can be allocated at
          Switch,               \* the analyses that are switched on
          MaxPromises,          \* bound: promise objects allocated
          MaxCalls,             \* bound: closures entered
          MaxPasses             \* bound: passes of one dyntracer

Analyses == {"strictness", "promise_evaluation", "promise_slot_mutation", "promise_type"}

ASSUME SwitchAssumption == Switch \subseteq Analyses
ASSUME BoundsAssumption ==
  MaxPromises \in Nat /\ MaxCalls \in Nat /\ MaxPasses \in Nat

VARIABLES heap, objects, owner, phase, passes, status,
          promise_ids, prom_id_counter, prom_neg_id_counter,
          fresh_promises, promise_origin, call_id_counter,
          promises, default_argument_promises, custom_argument_promises,
          non_argument_promises, evaluated, unevaluated

interpreter  == <<heap, objects>>
identity     == <<promise_ids, prom_id_counter, prom_neg_id_counter, owner>>
association  == <<fresh_promises, promise_origin, call_id_counter>>
typeAnalysis == <<default_argument_promises, custom_argument_promises,
                  non_argument_promises, evaluated, unevaluated>>
vars == <<interpreter, phase, passes, status, identity, association, promises, typeAnalysis>>

-----------------------------------------------------------------------------
(* Finite maps, as functions on the set of their keys. *)

EmptyMap      == [k \in {} |-> 0]
Put(m, k, v)  == [j \in DOMAIN m \cup {k} |-> IF j = k THEN v ELSE m[j]]
(* Mutant: the entry is looked up and not erased. *)
EraseNothing(m, K) == m

Erase(m, K)   == [j \in DOMAIN m \ K |-> m[j]]
Insert(m, k, v) == IF k \in DOMAIN m THEN m ELSE Put(m, k, v)

MapPromises == Switch \cap {"strictness", "promise_evaluation", "promise_slot_mutation"} # {}

Modes == {"unassigned", "default", "custom"}
PromiseState(local) ==
  [local |-> local, argument |-> FALSE, call_id |-> 0, mode |-> "unassigned"]

-----------------------------------------------------------------------------
(* The interpreter: an object is allocated, passed to calls, given a value, *)
(* by a force or by an assignment, and freed.  calls are the traced calls   *)
(* it was passed to; wrapped says that it was an argument at most once, and *)
(* not after it was forced, as it would be if every argument were wrapped   *)
(* anew (helpers.cpp:18-20); forced is set when a traced force of it ends,  *)
(* value when it has a value; heir says that it was allocated unseen at an  *)
(* address that promise_ids still had an entry for.                         *)

Live == {a \in Addresses : heap[a] # 0}
Object(a) == objects[heap[a]]
Tracing == phase = "tracing" /\ status = "running"

Allocate(a, inherits) ==
  /\ a \notin Live
  /\ Len(objects) < MaxPromises
  /\ objects' = Append(objects, [calls |-> <<>>, wrapped |-> TRUE, forcing |-> FALSE,
                                 forced |-> FALSE, value |-> FALSE, heir |-> inherits])
  /\ heap' = [heap EXCEPT ![a] = Len(objects) + 1]

Update(a, o) == objects' = [objects EXCEPT ![heap[a]] = o] /\ heap' = heap

-----------------------------------------------------------------------------
(* Mutant: the counter of the negative ids is decremented after its use. *)
IdAtPostDecrement(a) == IF a \in DOMAIN promise_ids THEN promise_ids[a] ELSE prom_neg_id_counter

(* get_promise_id: the id of the promise at an address; an address that is  *)
(* not known is given the next negative id.                                 *)
IdAt(a) == IF a \in DOMAIN promise_ids THEN promise_ids[a] ELSE prom_neg_id_counter - 1

GetPromiseId(a) ==
  /\ promise_ids' = Insert(promise_ids, a, IdAt(a))
  /\ prom_neg_id_counter' = IF a \in DOMAIN promise_ids THEN prom_neg_id_counter
                            ELSE prom_neg_id_counter - 1
  /\ prom_id_counter' = prom_id_counter
  /\ owner' = Insert(owner, IdAt(a), heap[a])

(* Mutant: the entry is made anew by each reading. *)
ResetOrigin(id) == promise_origin' = Put(promise_origin, id, 0)

(* promise_origin[id] read through operator[]: an absent id becomes 0. *)
ReadOrigin(id) == promise_origin' = Insert(promise_origin, id, 0)

(* Mutant: a foreign promise is not inserted. *)
InsertNothing(id) == promises' = promises

(* PromiseMapper::insert_if_non_local. *)
InsertIfNonLocal(id) ==
  promises' = IF MapPromises THEN Insert(promises, id, PromiseState(FALSE)) ELSE promises

(* PromiseMapper::find asserts that the id is mapped. *)
Found(m, id) == IF id \in DOMAIN m THEN "running" ELSE "unmapped"

-----------------------------------------------------------------------------
Init ==
  /\ heap = [a \in Addresses |-> 0] /\ objects = <<>> /\ owner = EmptyMap
  /\ phase = "idle" /\ passes = 0 /\ status = "running"
  /\ promise_ids = EmptyMap /\ prom_id_counter = 0 /\ prom_neg_id_counter = 0
  /\ fresh_promises = {} /\ promise_origin = EmptyMap /\ call_id_counter = 0
  /\ promises = EmptyMap
  /\ default_argument_promises = {} /\ custom_argument_promises = {}
  /\ non_argument_promises = {}
  /\ evaluated = EmptyBag /\ unevaluated = EmptyBag

DyntraceEntry ==
  /\ phase = "idle" /\ status = "running" /\ passes < MaxPasses
  /\ phase' = "tracing" /\ passes' = passes + 1
  /\ UNCHANGED <<interpreter, status, identity, association, promises, typeAnalysis>>

(* finish_pass and AnalysisDriver::end: promise_origin and the mapping are  *)
(* emptied; promise_ids, fresh_promises and the type analysis are kept.     *)
DyntraceExit ==
  /\ Tracing
  /\ phase' = "idle"
  /\ promise_origin' = EmptyMap
  /\ promises' = IF MapPromises THEN EmptyMap ELSE promises
  /\ UNCHANGED <<passes, status, identity, fresh_promises, call_id_counter, typeAnalysis>>
  /\ heap' = heap
  /\ objects' = [n \in DOMAIN objects |-> [objects[n] EXCEPT !.forcing = FALSE]]

(* Between passes promises come, are forced and go without a probe, and the *)
(* entries of promise_ids stay: the next promise at the address of a dead   *)
(* one has its id.                                                          *)
UntracedAllocation(a) ==
  /\ phase = "idle" /\ status = "running"
  /\ Allocate(a, a \in DOMAIN promise_ids)
  /\ UNCHANGED <<phase, passes, status, identity, association, promises, typeAnalysis>>

UntracedForce(a) ==
  /\ phase = "idle" /\ status = "running"
  /\ a \in Live
  /\ Update(a, [Object(a) EXCEPT !.value = TRUE])
  /\ UNCHANGED <<phase, passes, status, identity, association, promises, typeAnalysis>>

UntracedCollection(a) ==
  /\ phase = "idle" /\ status = "running"
  /\ a \in Live
  /\ heap' = [heap EXCEPT ![a] = 0]
  /\ UNCHANGED <<objects, phase, passes, status, identity, association, promises, typeAnalysis>>

PromiseCreated(a) ==
  LET id == prom_id_counter IN
  /\ Tracing
  /\ Allocate(a, FALSE)
  /\ prom_id_counter' = prom_id_counter + 1
  /\ promise_ids' = Put(promise_ids, a, id)
  /\ owner' = Insert(owner, id, Len(objects) + 1)
  /\ fresh_promises' = fresh_promises \cup {id}
  /\ promises' = IF MapPromises THEN Insert(promises, id, PromiseState(TRUE)) ELSE promises
  /\ status' = IF MapPromises /\ id \in DOMAIN promises THEN "unmapped" ELSE "running"
  /\ non_argument_promises' = IF "promise_type" \in Switch
                              THEN non_argument_promises \cup {id} ELSE non_argument_promises
  /\ UNCHANGED <<phase, passes, prom_neg_id_counter, promise_origin, call_id_counter,
                 default_argument_promises, custom_argument_promises, evaluated, unevaluated>>

(* PromiseMapper::closure_entry for one promise argument: a foreign one is  *)
(* inserted, another must be there already, or promises_.at throws.         *)
MapArgument(id, mode, call) ==
  LET known == IF id < 0 THEN Insert(promises, id, PromiseState(FALSE)) ELSE promises IN
  /\ status' = IF MapPromises /\ id \notin DOMAIN known THEN "unmapped" ELSE "running"
  /\ promises' = IF MapPromises /\ id \in DOMAIN known
                 THEN Put(known, id, [local |-> TRUE, argument |-> TRUE,
                                      call_id |-> call, mode |-> mode])
                 ELSE promises

(* PromiseTypeAnalysis::closure_entry, for the argument ids of a call: all  *)
(* of them, 0 for an argument that is not a promise, leave the non-argument *)
(* promises.                                                                *)
ClassifyArguments(ids, id, mode) ==
  IF "promise_type" \notin Switch THEN UNCHANGED typeAnalysis ELSE
  /\ default_argument_promises' = default_argument_promises \cup {i \in {id} : mode = "default"}
  /\ custom_argument_promises'  = custom_argument_promises \cup {i \in {id} : mode = "custom"}
  /\ non_argument_promises'     = non_argument_promises \ ids
  /\ UNCHANGED <<evaluated, unevaluated>>

(* Mutant: the call is named by the counter before its increment. *)
AssociateEarlier(ids, call) ==
  /\ promise_origin' = [id \in DOMAIN promise_origin \cup (ids \cap fresh_promises) |->
                          IF id \in ids \cap fresh_promises THEN call - 1 ELSE promise_origin[id]]
  /\ fresh_promises' = fresh_promises \ ids

(* The loop of closure_entry over the arguments: a fresh promise gets the   *)
(* call as its origin.                                                      *)
AssociateArguments(ids, call) ==
  /\ promise_origin' = [id \in DOMAIN promise_origin \cup (ids \cap fresh_promises) |->
                          IF id \in ids \cap fresh_promises THEN call ELSE promise_origin[id]]
  /\ fresh_promises' = fresh_promises \ ids

(* closure_entry with the promise at a among its arguments, and possibly    *)
(* arguments that are not promises, whose promise_id is 0 (recorder.cpp:28).*)
ClosureEntry(a, mode, others) ==
  LET id   == IdAt(a)
      ids  == {id} \cup (IF others THEN {0} ELSE {})
      call == call_id_counter + 1
  IN
  /\ Tracing
  /\ a \in Live
  /\ call_id_counter < MaxCalls
  /\ call_id_counter' = call
  /\ Update(a, [Object(a) EXCEPT !.calls = Append(@, call),
                                   !.wrapped = (Object(a).calls = <<>> /\ ~Object(a).forced)])
  /\ GetPromiseId(a)
  /\ MapArgument(id, mode, call)
  /\ ClassifyArguments(ids, id, mode)
  /\ AssociateArguments(ids, call)
  /\ UNCHANGED <<phase, passes>>

(* closure_entry of a call none of whose arguments is a promise. *)
ClosureEntryNoPromise ==
  /\ Tracing
  /\ call_id_counter < MaxCalls
  /\ call_id_counter' = call_id_counter + 1
  /\ AssociateArguments({0}, call_id_counter + 1)
  /\ non_argument_promises' = IF "promise_type" \in Switch
                              THEN non_argument_promises \ {0} ELSE non_argument_promises
  /\ UNCHANGED <<interpreter, phase, passes, status, identity, promises,
                 default_argument_promises, custom_argument_promises, evaluated, unevaluated>>

PromiseForceEntry(a) ==
  /\ Tracing
  /\ a \in Live /\ ~Object(a).value /\ ~Object(a).forcing
  /\ Update(a, [Object(a) EXCEPT !.forcing = TRUE])
  /\ GetPromiseId(a)
  /\ ReadOrigin(IdAt(a))
  /\ InsertIfNonLocal(IdAt(a))
  /\ status' = IF Switch \cap {"promise_evaluation", "strictness"} # {}
               THEN Found(promises', IdAt(a)) ELSE "running"
  /\ UNCHANGED <<phase, passes, fresh_promises, call_id_counter, typeAnalysis>>

(* PromiseTypeAnalysis: a promise it waits for is counted, in bag, and is   *)
(* dropped from the first of the three sets that holds it.                  *)
Waiting == default_argument_promises \cup custom_argument_promises \cup non_argument_promises

(* Mutant: only the default arguments are looked up. *)
StopWaitingDefault(id) ==
  /\ default_argument_promises' = default_argument_promises \ {id}
  /\ UNCHANGED <<custom_argument_promises, non_argument_promises>>

StopWaiting(id) ==
  /\ default_argument_promises' = default_argument_promises \ {id}
  /\ custom_argument_promises' = IF id \in default_argument_promises
       THEN custom_argument_promises ELSE custom_argument_promises \ {id}
  /\ non_argument_promises' = IF id \in default_argument_promises \cup custom_argument_promises
       THEN non_argument_promises ELSE non_argument_promises \ {id}

Counted(bag, id) == IF id \in Waiting THEN BagAdd(bag, id) ELSE bag

PromiseForceExit(a) ==
  /\ Tracing
  /\ a \in Live /\ Object(a).forcing
  /\ Update(a, [Object(a) EXCEPT !.forcing = FALSE, !.forced = TRUE, !.value = TRUE])
  /\ GetPromiseId(a)
  /\ ReadOrigin(IdAt(a))
  /\ IF "promise_type" \in Switch
     THEN /\ evaluated' = Counted(evaluated, IdAt(a))
          /\ StopWaiting(IdAt(a))
     ELSE UNCHANGED <<evaluated, default_argument_promises, custom_argument_promises,
                      non_argument_promises>>
  /\ unevaluated' = unevaluated
  /\ status' = IF "strictness" \in Switch THEN Found(promises, IdAt(a)) ELSE "running"
  /\ UNCHANGED <<phase, passes, fresh_promises, call_id_counter, promises>>

(* A context jump leaves a promise whose evaluation was going on without a  *)
(* value; it may be forced again.                                           *)
Unwind(a) ==
  /\ Tracing
  /\ a \in Live /\ Object(a).forcing
  /\ Update(a, [Object(a) EXCEPT !.forcing = FALSE])
  /\ UNCHANGED <<phase, passes, status, identity, association, promises, typeAnalysis>>

(* promise_value_lookup: the one analysis call that no switch guards.  With *)
(* strictness off, call_map_ is empty and an argument's call is not found.  *)
PromiseValueLookup(a) ==
  LET id == IdAt(a) IN
  /\ Tracing
  /\ a \in Live /\ Object(a).value
  /\ GetPromiseId(a)
  /\ ReadOrigin(id)
  /\ InsertIfNonLocal(id)
  /\ status' = IF id \in DOMAIN promises' /\ promises'[id].argument /\ "strictness" \notin Switch
               THEN "undefined" ELSE Found(promises', id)
  /\ UNCHANGED <<interpreter, phase, passes, fresh_promises, call_id_counter, typeAnalysis>>

(* What the probes of the lookups and assignments of a promise's slots do;  *)
(* they differ only in the record they write.                               *)
SlotAccess(a) ==
  LET id == IdAt(a) IN
  /\ Tracing
  /\ a \in Live
  /\ GetPromiseId(a)
  /\ ReadOrigin(id)
  /\ InsertIfNonLocal(id)
  /\ status' = IF "strictness" \in Switch THEN Found(promises', id) ELSE "running"
  /\ UNCHANGED <<phase, passes, fresh_promises, call_id_counter, typeAnalysis>>

(* The lookups of a promise's expression and environment, and the           *)
(* assignments of them.                                                     *)
PromiseSlotAccess(a) == SlotAccess(a) /\ UNCHANGED interpreter

(* promise_value_assign: a promise is given a value, whether it is being    *)
(* forced or not; PromiseTypeAnalysis is not told.                          *)
PromiseValueAssign(a) == SlotAccess(a) /\ Update(a, [Object(a) EXCEPT !.value = TRUE])

(* gc_promise_unmark: the type analysis counts the promise if it still      *)
(* waits for it, then every record of the promise goes, except from         *)
(* fresh_promises.  A promise under evaluation is not collected.            *)
GcPromiseUnmark(a) ==
  LET id == IdAt(a) IN
  /\ Tracing
  /\ a \in Live /\ ~Object(a).forcing
  /\ heap' = [heap EXCEPT ![a] = 0] /\ objects' = objects
  /\ IF "promise_type" \in Switch
     THEN /\ unevaluated' = Counted(unevaluated, id)
          /\ StopWaiting(id)
     ELSE UNCHANGED <<unevaluated, default_argument_promises, custom_argument_promises,
                      non_argument_promises>>
  /\ evaluated' = evaluated
  /\ promises' = IF MapPromises THEN Erase(promises, {id}) ELSE promises
  /\ promise_origin' = Erase(promise_origin, {id})
  /\ promise_ids' = Erase(promise_ids, {a})
  /\ owner' = Insert(owner, id, heap[a])
  /\ prom_neg_id_counter' = IF a \in DOMAIN promise_ids THEN prom_neg_id_counter
                            ELSE prom_neg_id_counter - 1
  /\ UNCHANGED <<phase, passes, status, prom_id_counter, fresh_promises, call_id_counter>>

Next ==
  \/ DyntraceEntry \/ DyntraceExit \/ ClosureEntryNoPromise
  \/ \E a \in Addresses :
       \/ UntracedAllocation(a) \/ UntracedForce(a) \/ UntracedCollection(a)
       \/ PromiseCreated(a) \/ GcPromiseUnmark(a)
       \/ \E mode \in {"default", "custom"}, others \in BOOLEAN : ClosureEntry(a, mode, others)
       \/ PromiseForceEntry(a) \/ PromiseForceExit(a) \/ Unwind(a)
       \/ PromiseValueLookup(a) \/ PromiseSlotAccess(a) \/ PromiseValueAssign(a)

Spec == Init /\ [][Next]_vars
-----------------------------------------------------------------------------
(* Properties. *)

(* Every variable has values of the kind the code gives it: ids counted up  *)
(* and down stay apart, origins are call ids or 0.                          *)
TypeOK ==
  /\ heap \in [Addresses -> 0..Len(objects)]
  /\ phase \in {"idle", "tracing"} /\ passes \in 0..MaxPasses
  /\ status \in {"running", "unmapped", "undefined"}
  /\ prom_id_counter \in 0..MaxPromises /\ prom_neg_id_counter \in Int
  /\ prom_neg_id_counter <= 0 /\ call_id_counter \in 0..MaxCalls
  /\ DOMAIN promise_ids \subseteq Addresses
  /\ \A a \in DOMAIN promise_ids : promise_ids[a] \in prom_neg_id_counter..(prom_id_counter - 1)
  /\ fresh_promises \subseteq 0..(prom_id_counter - 1)
  /\ \A id \in DOMAIN promise_origin : promise_origin[id] \in 0..call_id_counter
  /\ \A id \in DOMAIN promises :
       /\ promises[id].local \in BOOLEAN /\ promises[id].argument \in BOOLEAN
       /\ promises[id].call_id \in 0..call_id_counter /\ promises[id].mode \in Modes
  /\ IsABag(evaluated) /\ IsABag(unevaluated)

(* An id names one promise: no two addresses share an id; a promise keeps   *)
(* the id it was given for as long as it lives; and the id at the address   *)
(* of a live promise was first given to that promise and to no other, for   *)
(* every promise but one: a promise that was allocated unseen, between two  *)
(* passes, at an address the tracer still has an entry for, which always    *)
(* has the id of a dead one (helpers.cpp:21-25; promise_ids is emptied      *)
(* neither by a pass nor by a collection that was not seen).                *)
IdsNameOnePromise ==
  /\ \A a, b \in DOMAIN promise_ids : promise_ids[a] = promise_ids[b] => a = b
  /\ \A a \in Live, id \in DOMAIN owner :
       owner[id] = heap[a] => a \in DOMAIN promise_ids /\ promise_ids[a] = id
  /\ \A a \in Live \cap DOMAIN promise_ids :
       /\ promise_ids[a] \in DOMAIN owner
       /\ owner[promise_ids[a]] = heap[a] <=> ~Object(a).heir

(* A promise that PromiseMapper holds as an argument is alive, and the call *)
(* it names is the last one the promise was passed to: what it holds of a   *)
(* promise is not inherited by another at the same address.                 *)
MapperFollowsHeap ==
  \A id \in DOMAIN promises : promises[id].argument =>
    \E a \in Live \cap DOMAIN promise_ids :
      /\ promise_ids[a] = id
      /\ Object(a).calls # <<>> /\ promises[id].call_id = Last(Object(a).calls)

(* promise_origin associates a promise with the first call it was an        *)
(* argument of (probes.cpp:87), and holds nothing of a promise that is gone. *)
HasOrigin(id) ==
  promise_origin[id] # 0 =>
    \E a \in Live \cap DOMAIN promise_ids :
      /\ promise_ids[a] = id
      /\ Object(a).calls # <<>> /\ promise_origin[id] = Head(Object(a).calls)
OriginIsArgument == \A id \in DOMAIN promise_origin : HasOrigin(id)

(* The same for every promise but the one with id 0, which is also the      *)
(* promise_id of an argument that is no promise.                            *)
OriginIsArgumentButZero == \A id \in DOMAIN promise_origin \ {0} : HasOrigin(id)

(* And no promise misses its association: one that was passed to a traced   *)
(* call has the first of these calls as its origin for as long as it lives, *)
(* even if it was forced or looked up before, which makes an entry 0 for    *)
(* it, and though fresh_promises alone tells that it still awaits one.  (In *)
(* the first pass: the origins are not kept over passes; id 0 apart.)       *)
EveryArgumentHasOrigin ==
  passes = 1 /\ phase = "tracing" =>
    \A a \in Live \cap DOMAIN promise_ids :
      promise_ids[a] > 0 /\ Object(a).calls # <<>> =>
        /\ promise_ids[a] \in DOMAIN promise_origin
        /\ promise_origin[promise_ids[a]] = Head(Object(a).calls)

(* In how many places PromiseTypeAnalysis has a promise. *)
Held(id, set)         == IF id \in set THEN 1 ELSE 0
TimesCounted(id, bag) == IF BagIn(id, bag) THEN bag[id] ELSE 0
PlacesOf(id) ==
  Held(id, default_argument_promises) + Held(id, custom_argument_promises)
  + Held(id, non_argument_promises)
  + TimesCounted(id, evaluated) + TimesCounted(id, unevaluated)

(* Each promise whose creation was seen is, at any time, in exactly one of  *)
(* PromiseTypeAnalysis' three sets or counted, once, as evaluated or as     *)
(* never evaluated; and a promise that is alive is counted only as          *)
(* evaluated, and if and only if a traced force of it has ended: one that   *)
(* was given its value by an assignment, or forced unseen, still waits, and *)
(* will be counted as never evaluated.  (In the first pass, while no        *)
(* promise was an argument twice; id 0 apart.)                              *)
PromisesConserved ==
  passes = 1 /\ "promise_type" \in Switch /\ (\A n \in DOMAIN objects : objects[n].wrapped) =>
    /\ \A id \in 1..(prom_id_counter - 1) : PlacesOf(id) = 1
    /\ \A a \in Live \cap DOMAIN promise_ids :
         /\ ~BagIn(promise_ids[a], unevaluated)
         /\ promise_ids[a] > 0 /\ phase = "tracing" =>
              (BagIn(promise_ids[a], evaluated) <=> Object(a).forced)

(* Whatever promise a probe names, the analyses find it in the mapping      *)
(* (PromiseMapper.cpp:99-104), and the call it belongs to.  (In the first   *)
(* pass: later ones begin with an empty mapping.)                           *)
AlwaysMapped == passes <= 1 => status = "running"

(* A promise the mapping holds as non-local is one whose creation was not   *)
(* seen (PromiseMapper.cpp:112-114).                                        *)
NonLocalUnseen == \A id \in DOMAIN promises : ~promises[id].local => id < 0
=============================================================================
