---------------------- MODULE PromiseEvaluationProofs ----------------------
(***************************************************************************)
(* Proofs about PromiseEvaluation, for every finite set of addresses, every*)
(* set of promises, and any number of environments, calls and passes.      *)
(***************************************************************************)
EXTENDS PromiseEvaluation, FiniteSetTheorems, SequenceTheorems, TLAPS

-----------------------------------------------------------------------------
(* The inductive invariant, in three parts: the interpreter's memory, the  *)
(* numbering of environments, and the mapping of promises.                 *)

(* A promise yet to be forced keeps its environment alive. *)
Reached == \A p \in Promises : life[p] = "unevaluated" => prenv[p] \in live

Allocated ==
  /\ fresh \subseteq live /\ live \subseteq Addresses
  /\ life \in [Promises -> {"none", "unevaluated", "evaluated", "gone"}]
  /\ prenv \in [Promises -> Addresses \cup {Nil}]
  /\ Reached

CallEvents    == {CallEvent(fn, a) : fn \in FunctionTypes, a \in Addresses}
PromiseEvents == {PromiseEvent(p) : p \in Promises}

StackTyped == full_stack \in Seq(CallEvents \cup PromiseEvents)

(* No two environments have the same id. *)
IdsDistinct ==
  \A a, b \in DOMAIN environments : environments[a] = environments[b] => a = b

Numbered ==
  /\ environment_id_counter \in Nat
  /\ DOMAIN environments \subseteq Addresses \cup {Nil}
  /\ \A a \in DOMAIN environments : environments[a] \in 0..(environment_id_counter - 1)
  /\ IdsDistinct
  /\ StackTyped
  /\ \A a \in Addresses : OnStack(a) => a \in DOMAIN environments

PromiseStates(n) == [local : BOOLEAN, argument : BOOLEAN, env_id : 0..(n - 1)]

(* The environment a promise was met with, while it is there, has the id     *)
(* kept in the promise, and no other environment has it.                     *)
HomeTrue ==
  \A p \in DOMAIN promises :
    /\ home[p] \in Addresses \cup {Nil}
    /\ home[p] \in Addresses =>
         /\ home[p] \in live /\ home[p] \in DOMAIN environments
         /\ environments[home[p]] = promises[p].env_id
    /\ \A a \in DOMAIN environments \cap Addresses :
         environments[a] = promises[p].env_id => home[p] = a

(* Between two passes nothing is mapped and nothing is on the stack. *)
IdleEmpty == phase = "idle" => DOMAIN promises = {} /\ full_stack = <<>>

(* The mapper tells which promises were arguments. *)
PassedMapped ==
  /\ passed \subseteq DOMAIN promises
  /\ \A p \in DOMAIN promises :
       (promises[p].argument <=> p \in passed) /\ (p \in passed => promises[p].local)

Mapped ==
  /\ DOMAIN promises \subseteq Promises /\ DOMAIN home = DOMAIN promises
  /\ \A p \in DOMAIN promises : promises[p] \in PromiseStates(environment_id_counter)
  /\ HomeTrue
  /\ IdleEmpty
  /\ PassedMapped

EInv == Allocated /\ Numbered /\ Mapped /\ counted.contexts \subseteq EvaluationContexts

-----------------------------------------------------------------------------
(* The stack. *)

(* A pushed event is the only one that is new. *)
LEMMA PushAdds ==
  ASSUME StackTyped, NEW e \in CallEvents \cup PromiseEvents,
         full_stack' = Append(full_stack, e)
  PROVE  /\ StackTyped'
         /\ \A a : OnStack(a)' => OnStack(a) \/ \E fn \in FunctionTypes : e = CallEvent(fn, a)
<1> DEFINE S == CallEvents \cup PromiseEvents
<1>0. full_stack \in Seq(S) /\ e \in S
  BY DEF StackTyped
<1> HIDE DEF S
<1>1. /\ full_stack' \in Seq(S) /\ Len(full_stack') = Len(full_stack) + 1
      /\ \A i \in 1..Len(full_stack) : full_stack'[i] = full_stack[i]
      /\ full_stack'[Len(full_stack) + 1] = e
      /\ Len(full_stack) \in Nat
  BY <1>0, AppendProperties, LenProperties
<1>2. StackTyped'
  BY <1>1 DEF StackTyped, S, CallEvents, PromiseEvents
<1>3. ASSUME NEW a, NEW fn \in FunctionTypes, NEW i \in 1..Len(full_stack'),
             full_stack'[i] = CallEvent(fn, a)
      PROVE  OnStack(a) \/ e = CallEvent(fn, a)
  <2>1. CASE i \in 1..Len(full_stack)
    BY <2>1, <1>1, <1>3 DEF OnStack, Contains
  <2>2. CASE i = Len(full_stack) + 1
    BY <2>2, <1>1, <1>3
  <2> QED
    BY <2>1, <2>2, <1>1
<1> QED
  BY <1>2, <1>3 DEF OnStack, Contains

(* A pop or a jump adds none. *)
LEMMA PopAddsNothing ==
  ASSUME StackTyped, NEW n \in Nat, n <= Len(full_stack),
         full_stack' = SubSeq(full_stack, 1, n)
  PROVE  /\ StackTyped'
         /\ \A a : OnStack(a)' => OnStack(a)
<1> DEFINE S == CallEvents \cup PromiseEvents
<1>0. full_stack \in Seq(S)
  BY DEF StackTyped
<1> HIDE DEF S
<1>1. /\ full_stack' \in Seq(S) /\ Len(full_stack') = n
      /\ \A i \in 1..n : full_stack'[i] = full_stack[i]
      /\ Len(full_stack) \in Nat
  <2>1. Len(full_stack) \in Nat
    BY <1>0, LenProperties
  <2>2. \A i \in 1..n : full_stack[i] \in S
    BY <2>1, <1>0, ElementOfSeq
  <2> QED
    BY <2>1, <2>2, <1>0, SubSeqProperties
<1>2. StackTyped'
  BY <1>1 DEF StackTyped, S, CallEvents, PromiseEvents
<1> QED
  BY <1>1, <1>2 DEF OnStack, Contains

-----------------------------------------------------------------------------
(* The numbering of environments. *)

(* What to_environment_id leaves behind when the addresses A are looked up: *)
(* those that have an id keep it, and the others get ids never given.       *)
Extends(A) ==
  /\ environment_id_counter' \in Nat /\ environment_id_counter' >= environment_id_counter
  /\ DOMAIN environments' = DOMAIN environments \cup A
  /\ \A b \in DOMAIN environments : environments'[b] = environments[b]
  /\ \A b \in DOMAIN environments' : environments'[b] \in 0..(environment_id_counter' - 1)
  /\ \A b \in DOMAIN environments' \ DOMAIN environments :
       environments'[b] >= environment_id_counter
  /\ IdsDistinct'

LEMMA NumberingExtends ==
  ASSUME Numbered, NEW A \in SUBSET (Addresses \cup {Nil}), ToEnvironmentIds(A)
  PROVE  Extends(A)
<1> DEFINE new == A \ DOMAIN environments
           end == environment_id_counter + Cardinality(new)
<1>1. environment_id_counter \in Nat /\ Cardinality(new) \in Nat
  <2>1. IsFiniteSet(Addresses \cup {Nil})
    BY AddressesAssumption, FS_Singleton, FS_Union
  <2>2. IsFiniteSet(new)
    BY <2>1, FS_Subset
  <2> QED
    BY <2>2, FS_CardinalityType DEF Numbered
<1>2. environment_id_counter' = end
  BY DEF ToEnvironmentIds
<1>3. PICK ids \in [new -> environment_id_counter..(end - 1)] :
             IsInjective(ids) /\ environments' = Union(environments, ids)
  BY DEF ToEnvironmentIds
<1> HIDE DEF end
<1>4. end \in Nat /\ end >= environment_id_counter
  BY <1>1 DEF end
<1>5. /\ DOMAIN environments' = DOMAIN environments \cup A
      /\ \A b \in DOMAIN environments : environments'[b] = environments[b]
      /\ \A b \in new : environments'[b] = ids[b]
  <2>1. DOMAIN ids = new /\ environments' = Union(environments, ids)
    BY <1>3
  <2>2. /\ DOMAIN environments' = DOMAIN environments \cup new
        /\ \A b \in DOMAIN environments : environments'[b] = environments[b]
        /\ \A b \in new \ DOMAIN environments : environments'[b] = ids[b]
    BY <2>1 DEF Union
  <2> QED
    BY <2>2
<1>6. \A b \in DOMAIN environments : environments[b] \in 0..(environment_id_counter - 1)
  BY DEF Numbered
<1>7. \A b \in new : ids[b] \in environment_id_counter..(end - 1)
  BY <1>3
<1>8. \A b \in DOMAIN environments' : environments'[b] \in 0..(end - 1)
  BY <1>1, <1>4, <1>5, <1>6, <1>7
<1>9. \A b \in DOMAIN environments' \ DOMAIN environments :
        environments'[b] >= environment_id_counter
  BY <1>1, <1>4, <1>5, <1>7
<1>10. IdsDistinct'
  <2>1. \A a, b \in new : ids[a] = ids[b] => a = b
    BY <1>3 DEF IsInjective
  <2>2. \A a \in DOMAIN environments : \A b \in new : environments[a] # ids[b]
    BY <1>1, <1>4, <1>6, <1>7
  <2>3. \A a, b \in DOMAIN environments : environments[a] = environments[b] => a = b
    BY DEF Numbered, IdsDistinct
  <2> HIDE DEF new
  <2>4. DOMAIN environments' = DOMAIN environments \cup new
    BY <1>5 DEF new
  <2> QED
    BY <1>5, <2>1, <2>2, <2>3, <2>4 DEF IdsDistinct
<1> QED
  BY <1>2, <1>4, <1>5, <1>8, <1>9, <1>10 DEF Extends

(* new_environment: the address has an id that no other address has. *)
LEMMA RenumberingFresh ==
  ASSUME Numbered, NEW a, Renumber(a)
  PROVE  /\ environment_id_counter' = environment_id_counter + 1
         /\ environment_id_counter \in Nat /\ environment_id_counter' \in Nat
         /\ DOMAIN environments' = DOMAIN environments \cup {a}
         /\ environments'[a] = environment_id_counter
         /\ \A b \in DOMAIN environments : b # a => environments'[b] = environments[b]
         /\ \A b \in DOMAIN environments' : environments'[b] \in 0..(environment_id_counter' - 1)
         /\ IdsDistinct'
<1>1. /\ environment_id_counter' = environment_id_counter + 1
      /\ environment_id_counter \in Nat
      /\ \A b \in DOMAIN environments : environments[b] \in 0..(environment_id_counter - 1)
      /\ IdsDistinct
  BY DEF Renumber, Numbered
<1>2. /\ DOMAIN environments' = DOMAIN environments \cup {a}
      /\ environments'[a] = environment_id_counter
      /\ \A b \in DOMAIN environments : b # a => environments'[b] = environments[b]
  BY DEF Renumber, Put
<1>3. \A b \in DOMAIN environments' : environments'[b] \in 0..(environment_id_counter' - 1)
  BY <1>1, <1>2
<1>4. \A b \in DOMAIN environments' : b # a => environments'[b] # environments'[a]
  BY <1>1, <1>2
<1>5. IdsDistinct'
  BY <1>1, <1>2, <1>4 DEF IdsDistinct
<1> QED
  BY <1>1, <1>2, <1>3, <1>5

(* gc_environment_unmark: only the address collected loses its id. *)
LEMMA RemovingKeeps ==
  ASSUME Numbered, NEW a, RemoveEnvironment(a)
  PROVE  /\ environment_id_counter' = environment_id_counter
         /\ DOMAIN environments' = DOMAIN environments \ {a}
         /\ \A b \in DOMAIN environments' : environments'[b] = environments[b]
         /\ IdsDistinct'
<1>1. /\ environment_id_counter' = environment_id_counter
      /\ DOMAIN environments' = DOMAIN environments \ {a}
      /\ \A b \in DOMAIN environments' : environments'[b] = environments[b]
  BY DEF RemoveEnvironment, Restrict
<1> QED
  BY <1>1 DEF Numbered, IdsDistinct

-----------------------------------------------------------------------------
(* The mapping of promises. *)

(* A state stays one when the counter grows. *)
LEMMA StatesGrow ==
  ASSUME NEW n \in Nat, NEW m \in Nat, n <= m, NEW s \in PromiseStates(n)
  PROVE  s \in PromiseStates(m)
<1>1. 0..(n - 1) \subseteq 0..(m - 1)
  OBVIOUS
<1> QED
  BY <1>1 DEF PromiseStates

(* A promise that is passed keeps the id of its environment. *)
LEMMA ArgumentStates ==
  ASSUME NEW n, NEW s \in PromiseStates(n)
  PROVE  /\ MakeFunctionArgument(s) \in PromiseStates(n)
         /\ MakeFunctionArgument(s).env_id = s.env_id
         /\ MakeFunctionArgument(s).argument = TRUE
         /\ MakeFunctionArgument(s).local = TRUE
  BY DEF MakeFunctionArgument, PromiseStates

(* What the insertion of the promises P leaves behind: those that are mapped *)
(* keep their environment, and the others get that which env gives.          *)
Inserted(P, env) ==
  /\ DOMAIN promises' = DOMAIN promises \cup P /\ DOMAIN home' = DOMAIN promises \cup P
  /\ \A p \in DOMAIN promises : promises'[p].env_id = promises[p].env_id /\ home'[p] = home[p]
  /\ \A p \in P \ DOMAIN promises :
       promises'[p].env_id = environments'[env[p]] /\ home'[p] = env[p]

(* While no environment is allocated or collected, insertion keeps the      *)
(* promises with the environments they were met with.                       *)
LEMMA InsertionKeepsHomes ==
  ASSUME Allocated, Numbered, Mapped, live' = live,
         NEW A, Extends(A), NEW P, NEW env, Inserted(P, env),
         \A p \in P \ DOMAIN promises : env[p] \in A /\ env[p] \in live
  PROVE  HomeTrue'
<1> SUFFICES ASSUME NEW p \in DOMAIN promises'
             PROVE  /\ home'[p] \in Addresses \cup {Nil}
                    /\ home'[p] \in Addresses =>
                         /\ home'[p] \in live /\ home'[p] \in DOMAIN environments'
                         /\ environments'[home'[p]] = promises'[p].env_id
                    /\ \A a \in DOMAIN environments' \cap Addresses :
                         environments'[a] = promises'[p].env_id => home'[p] = a
  BY DEF HomeTrue
<1>1. CASE p \in DOMAIN promises
  <2>1. /\ promises'[p].env_id = promises[p].env_id /\ home'[p] = home[p]
        /\ promises[p].env_id \in 0..(environment_id_counter - 1)
    BY <1>1 DEF Inserted, Mapped, PromiseStates
  <2>2. /\ home[p] \in Addresses \cup {Nil}
        /\ home[p] \in Addresses =>
             /\ home[p] \in live /\ home[p] \in DOMAIN environments
             /\ environments[home[p]] = promises[p].env_id
        /\ \A a \in DOMAIN environments \cap Addresses :
             environments[a] = promises[p].env_id => home[p] = a
    BY <1>1 DEF Mapped, HomeTrue
  <2>3. /\ \A b \in DOMAIN environments : b \in DOMAIN environments' /\ environments'[b] = environments[b]
    BY DEF Extends
  <2>4. \A b \in DOMAIN environments' \ DOMAIN environments :
          environments'[b] # promises[p].env_id
    <3>1. environment_id_counter \in Nat
      BY DEF Numbered
    <3>2. \A b \in DOMAIN environments' \ DOMAIN environments :
            environments'[b] >= environment_id_counter
      BY DEF Extends
    <3> QED
      BY <2>1, <3>1, <3>2
  <2> QED
    BY <2>1, <2>2, <2>3, <2>4
<1>2. CASE p \notin DOMAIN promises
  <2>1. p \in P \ DOMAIN promises
    BY <1>2 DEF Inserted
  <2>2. promises'[p].env_id = environments'[env[p]] /\ home'[p] = env[p]
    BY <2>1 DEF Inserted
  <2>3. env[p] \in Addresses /\ env[p] \in live /\ env[p] \in DOMAIN environments'
    BY <2>1 DEF Allocated, Extends
  <2>4. \A a \in DOMAIN environments' : environments'[a] = environments'[env[p]] => env[p] = a
    BY <2>3 DEF Extends, IdsDistinct
  <2> QED
    BY <2>2, <2>3, <2>4
<1> QED
  BY <1>1, <1>2

(* What WithPromises and WithHomes make of the mapping: known has the states *)
(* that promises had, and new ones of promises that were not passed.         *)
Enlarged(known, P, env) ==
  /\ DOMAIN known = DOMAIN promises \cup P /\ DOMAIN home' = DOMAIN promises \cup P
  /\ \A p \in DOMAIN promises : known[p] = promises[p] /\ home'[p] = home[p]
  /\ \A p \in P \ DOMAIN promises :
       /\ known[p].env_id = environments'[env[p]] /\ home'[p] = env[p]
       /\ known[p].argument = FALSE
  /\ \A p \in DOMAIN promises \cup P : known[p] \in PromiseStates(environment_id_counter')

LEMMA WithPromisesInserts ==
  ASSUME Numbered, Mapped, NEW A, Extends(A), NEW P, NEW isLocal \in BOOLEAN, NEW env,
         \A p \in P \ DOMAIN promises : env[p] \in A,
         home' = WithHomes(P, env)
  PROVE  Enlarged(WithPromises(P, isLocal, env), P, env)
<1> DEFINE known == WithPromises(P, isLocal, env)
           new   == [p \in P |-> [local |-> isLocal, argument |-> FALSE,
                                  env_id |-> environments'[env[p]]]]
<1>1. known = Union(promises, new) /\ DOMAIN new = P
  BY DEF WithPromises
<1>2. /\ \A p \in P : new[p] = [local |-> isLocal, argument |-> FALSE,
                                env_id |-> environments'[env[p]]]
  OBVIOUS
<1>3. home' = Union(home, [p \in P |-> env[p]])
  BY DEF WithHomes
<1> HIDE DEF known, new
<1>4. /\ DOMAIN known = DOMAIN promises \cup P
      /\ \A p \in DOMAIN promises : known[p] = promises[p]
      /\ \A p \in P \ DOMAIN promises : known[p] = new[p]
  BY <1>1 DEF Union
<1>5. /\ DOMAIN home' = DOMAIN promises \cup P
      /\ \A p \in DOMAIN promises : home'[p] = home[p]
      /\ \A p \in P \ DOMAIN promises : home'[p] = env[p]
  <2>1. DOMAIN [p \in P |-> env[p]] = P /\ DOMAIN home = DOMAIN promises
    BY DEF Mapped
  <2>2. \A p \in P : [q \in P |-> env[q]][p] = env[p]
    OBVIOUS
  <2> QED
    BY <1>3, <2>1, <2>2 DEF Union
<1>6. \A p \in P \ DOMAIN promises :
         known[p].env_id = environments'[env[p]] /\ known[p].argument = FALSE
  <2>1. ASSUME NEW l, NEW i, NEW s, s = [local |-> l, argument |-> FALSE, env_id |-> i]
        PROVE  s.env_id = i /\ s.argument = FALSE
    BY <2>1
  <2>2. TAKE p \in P \ DOMAIN promises
  <2>3. known[p] = [local |-> isLocal, argument |-> FALSE, env_id |-> environments'[env[p]]]
    BY <1>2, <1>4
  <2> QED
    BY <2>1, <2>3
<1>7. environment_id_counter \in Nat /\ environment_id_counter' \in Nat
      /\ environment_id_counter' >= environment_id_counter
  BY DEF Numbered, Extends
<1>8. \A p \in DOMAIN promises : known[p] \in PromiseStates(environment_id_counter')
  BY <1>4, <1>7, StatesGrow DEF Mapped
<1>9. \A p \in P \ DOMAIN promises : known[p] \in PromiseStates(environment_id_counter')
  <2>1. \A p \in P \ DOMAIN promises : environments'[env[p]] \in 0..(environment_id_counter' - 1)
    BY DEF Extends
  <2>2. \A n : \A i \in 0..(n - 1) :
          [local |-> isLocal, argument |-> FALSE, env_id |-> i] \in PromiseStates(n)
    BY DEF PromiseStates
  <2>3. \A p \in P \ DOMAIN promises :
          known[p] = [local |-> isLocal, argument |-> FALSE, env_id |-> environments'[env[p]]]
    BY <1>2, <1>4
  <2> QED
    BY <2>1, <2>2, <2>3
<1> QED
  BY <1>4, <1>5, <1>6, <1>8, <1>9 DEF known, Enlarged

-----------------------------------------------------------------------------
(* The parts of the invariant are preserved. *)

(* A promise at another stage: its environment, if it has one to keep, lives. *)
LEMMA BecomesAllocated ==
  ASSUME Allocated, NEW p \in Promises, UNCHANGED memory,
         NEW stage \in {"none", "unevaluated", "evaluated", "gone"},
         NEW env \in Addresses \cup {Nil}, Become(p, stage, env),
         stage = "unevaluated" => env \in live
  PROVE  Allocated'
<1>1. life' \in [Promises -> {"none", "unevaluated", "evaluated", "gone"}]
  BY DEF Allocated, Become
<1>2. prenv' \in [Promises -> Addresses \cup {Nil}]
  BY DEF Allocated, Become
<1>3. Reached'
  BY DEF Allocated, Become, Reached, memory
<1> QED
  BY <1>1, <1>2, <1>3 DEF Allocated, memory

(* While no promise changes, environments come, and go when nothing needs them. *)
LEMMA LivesAllocated ==
  ASSUME Allocated, UNCHANGED slots, NEW a \in Addresses,
         \/ live' = live \cup {a} /\ fresh' \subseteq fresh \cup {a}
         \/ live' = live /\ fresh' \subseteq fresh
         \/ Free(a)
  PROVE  Allocated'
<1>1. fresh' \subseteq live' /\ live' \subseteq Addresses
  BY DEF Allocated, Free
<1>2. Reached'
  BY DEF Allocated, Reached, Free, slots
<1> QED
  BY <1>1, <1>2 DEF Allocated, slots

(* The interpreter keeps the environments of the promises to come. *)
LEMMA AllocatedNext ==
  ASSUME Allocated, [Next]_vars
  PROVE  Allocated'
<1> USE DEF Allocated
<1>0. ASSUME UNCHANGED <<memory, slots>>
      PROVE  Allocated'
  BY <1>0 DEF memory, slots, Reached
<1>1. CASE UNCHANGED vars
  BY <1>0, <1>1 DEF vars
<1>2. CASE DyntraceEntry \/ DyntraceExit \/ \E n \in 0..MaxDepth : Leave(n)
  BY <1>0, <1>2 DEF DyntraceEntry, DyntraceExit, Leave
<1>3. ASSUME NEW a \in Addresses, UntracedAllocation(a) \/ NewEnvironment(a)
      PROVE  Allocated'
  <2>1. live' = live \cup {a} /\ fresh' \subseteq fresh \cup {a} /\ UNCHANGED slots
    BY <1>3 DEF UntracedAllocation, NewEnvironment
  <2> QED
    BY <2>1, LivesAllocated
<1>4. ASSUME NEW a \in Addresses, UntracedCollection(a) \/ GcEnvironmentUnmark(a)
      PROVE  Allocated'
  <2>1. Free(a) /\ UNCHANGED slots
    BY <1>4 DEF UntracedCollection, GcEnvironmentUnmark
  <2> QED
    BY <2>1, LivesAllocated
<1>5. ASSUME NEW a \in Addresses, NEW P \in SUBSET Promises, ClosureEntry(a, P)
      PROVE  Allocated'
  <2>1. live' = live /\ fresh' \subseteq fresh /\ UNCHANGED slots
    BY <1>5 DEF ClosureEntry
  <2> QED
    BY <2>1, LivesAllocated
<1>6. ASSUME NEW a \in Addresses, NEW fn \in Primitives, BuiltinEntry(fn, a)
      PROVE  Allocated'
  BY <1>0, <1>6 DEF BuiltinEntry
<1>7. ASSUME NEW a \in Addresses, NEW p \in Promises,
             UntracedPromise(p, a) \/ PromiseCreated(p, a) \/ PromiseEnvironmentAssign(p, a)
      PROVE  Allocated'
  <2>1. Become(p, "unevaluated", a) /\ a \in live /\ UNCHANGED memory
    BY <1>7 DEF UntracedPromise, PromiseCreated, PromiseEnvironmentAssign
  <2> QED
    BY <2>1, BecomesAllocated
<1>8. ASSUME NEW p \in Promises, UntracedPromiseEnd(p) \/ GcPromiseUnmark(p)
      PROVE  Allocated'
  <2>1. Become(p, "gone", Nil) /\ UNCHANGED memory
    BY <1>8 DEF UntracedPromiseEnd, GcPromiseUnmark
  <2> QED
    BY <2>1, BecomesAllocated
<1>9. ASSUME NEW p \in Promises, PromiseSlotAccess(p) \/ PromiseForceEntry(p)
      PROVE  Allocated'
  BY <1>0, <1>9 DEF PromiseSlotAccess, PromiseForceEntry
<1>10. ASSUME NEW p \in Promises, PromiseForceExit(p)
       PROVE  Allocated'
  <2>1. Become(p, "evaluated", Nil) /\ UNCHANGED memory
    BY <1>10 DEF PromiseForceExit
  <2> QED
    BY <2>1, BecomesAllocated
<1> QED
  BY <1>1, <1>2, <1>3, <1>4, <1>5, <1>6, <1>7, <1>8, <1>9, <1>10 DEF Next

(* What is counted is of the kinds the tables have. *)
LEMMA CountedNext ==
  ASSUME Numbered, counted.contexts \subseteq EvaluationContexts, [Next]_vars
  PROVE  counted'.contexts \subseteq EvaluationContexts
<1>1. EvaluationContext \in EvaluationContexts
  <2>1. CASE full_stack = <<>>
    BY <2>1 DEF EvaluationContext, EvaluationContexts
  <2>2. CASE full_stack # <<>>
    <3>1. Last(full_stack) \in CallEvents \cup PromiseEvents
      BY <2>2, LenProperties, ElementOfSeq DEF Numbered, StackTyped, Last
    <3>2. Last(full_stack).fn \in {"closure", "none", "special", "builtin"}
      BY <3>1, PrimitivesAssumption
         DEF CallEvents, PromiseEvents, CallEvent, PromiseEvent, FunctionTypes
    <3> QED
      BY <2>2, <3>2 DEF EvaluationContext, EvaluationContexts
  <2> QED
    BY <2>1, <2>2
<1>2. ASSUME CountNothing PROVE counted'.contexts \subseteq EvaluationContexts
  BY <1>2 DEF CountNothing, Counted
<1>3. ASSUME NEW p \in Promises, PromiseForceEntry(p)
      PROVE  counted'.contexts \subseteq EvaluationContexts
  <2>1. counted'.contexts = {EvaluationContext}
    BY <1>3 DEF PromiseForceEntry, Counted
  <2> QED
    BY <1>1, <2>1
<1>4. CountNothing \/ counted' = counted \/ \E p \in Promises : PromiseForceEntry(p)
  BY DEF Next, vars, DyntraceEntry, DyntraceExit, Leave, UntracedAllocation,
         UntracedCollection, NewEnvironment, GcEnvironmentUnmark, ClosureEntry, BuiltinEntry,
         UntracedPromise, PromiseCreated, PromiseEnvironmentAssign, UntracedPromiseEnd,
         GcPromiseUnmark, PromiseSlotAccess, PromiseForceExit
<1> QED
  BY <1>2, <1>3, <1>4

(* Addresses that are looked up, the new calls' among them. *)
LEMMA ExtendsNumbered ==
  ASSUME Numbered, NEW A \in SUBSET (Addresses \cup {Nil}), Extends(A),
         StackTyped', \A a \in Addresses : OnStack(a)' => OnStack(a) \/ a \in A
  PROVE  Numbered'
<1>1. /\ environment_id_counter' \in Nat
      /\ DOMAIN environments' \subseteq Addresses \cup {Nil}
      /\ \A a \in DOMAIN environments' : environments'[a] \in 0..(environment_id_counter' - 1)
      /\ IdsDistinct'
  BY DEF Numbered, Extends
<1>2. \A a \in Addresses : OnStack(a)' => a \in DOMAIN environments'
  BY DEF Numbered, Extends
<1> QED
  BY <1>1, <1>2 DEF Numbered

(* No address is looked up, and no call is new. *)
LEMMA StackNumbered ==
  ASSUME Numbered, UNCHANGED numbering,
         StackTyped', \A a \in Addresses : OnStack(a)' => OnStack(a)
  PROVE  Numbered'
  BY DEF Numbered, numbering, IdsDistinct

(* The stack of the two lemmas, when it does not change. *)
LEMMA SameStack ==
  ASSUME Numbered, UNCHANGED full_stack
  PROVE  /\ StackTyped'
         /\ \A a : OnStack(a)' => OnStack(a)
  BY DEF Numbered, StackTyped, OnStack

(* The environments that a step looks up. *)
LookedUp(A) == A \in SUBSET (Addresses \cup {Nil}) /\ ToEnvironmentIds(A)

LEMMA ArgumentsLookUp ==
  ASSUME Allocated, NEW a \in Addresses, NEW P \in SUBSET Promises, ClosureEntry(a, P)
  PROVE  LookedUp({prenv[p] : p \in P \ DOMAIN promises} \cup {a})
<1>1. \A p \in P : prenv[p] \in Addresses \cup {Nil}
  BY DEF Allocated
<1> QED
  BY <1>1 DEF ClosureEntry, LookedUp

LEMMA InsertionLooksUp ==
  ASSUME Allocated, NEW p \in Promises, InsertIfNonLocal(p)
  PROVE  LookedUp({prenv[p]})
  BY DEF Allocated, InsertIfNonLocal, LookedUp

(* The numbering stays one to one, and the calls on the stack numbered. *)
LEMMA NumberedNext ==
  ASSUME Allocated, Numbered, [Next]_vars
  PROVE  Numbered'
<1>0. ASSUME UNCHANGED <<numbering, full_stack>>
      PROVE  Numbered'
  BY <1>0, SameStack, StackNumbered
<1>1. CASE UNCHANGED vars
  BY <1>0, <1>1 DEF vars
<1>2. CASE DyntraceEntry
  BY <1>0, <1>2 DEF DyntraceEntry
<1>3. CASE DyntraceExit
  <2>1. full_stack' = <<>> /\ UNCHANGED numbering
    BY <1>3 DEF DyntraceExit
  <2>2. StackTyped'
    BY <2>1 DEF StackTyped, CallEvents, PromiseEvents
  <2>3. \A a : ~OnStack(a)'
    BY <2>1 DEF OnStack, Contains
  <2> QED
    BY <2>1, <2>2, <2>3, StackNumbered
<1>4. ASSUME NEW n \in 0..MaxDepth, Leave(n)
      PROVE  Numbered'
  <2>1. /\ n \in Nat /\ n <= Len(full_stack) /\ UNCHANGED numbering
        /\ full_stack' = SubSeq(full_stack, 1, n)
    <3>1. Len(full_stack) \in Nat /\ MaxDepth \in Nat
      BY BoundsAssumption, LenProperties DEF Numbered, StackTyped
    <3> QED
      BY <1>4, <3>1 DEF Leave
  <2> QED
    BY <2>1, PopAddsNothing, StackNumbered DEF Numbered
<1>5. ASSUME NEW p \in Promises, PromiseForceExit(p)
      PROVE  Numbered'
  <2> DEFINE n == Len(full_stack) - 1
  <2>1. UNCHANGED numbering /\ full_stack' = SubSeq(full_stack, 1, n)
    BY <1>5 DEF PromiseForceExit, Pop, Front
  <2>2. n \in Nat /\ n <= Len(full_stack)
    <3>1. full_stack # <<>>
      BY <1>5 DEF PromiseForceExit
    <3> QED
      BY <3>1, LenProperties DEF Numbered, StackTyped
  <2> HIDE DEF n
  <2> QED
    BY <2>1, <2>2, PopAddsNothing, StackNumbered DEF Numbered
<1>6. ASSUME NEW a \in Addresses, UntracedAllocation(a) \/ UntracedCollection(a)
      PROVE  Numbered'
  BY <1>0, <1>6 DEF UntracedAllocation, UntracedCollection
<1>7. ASSUME NEW a \in Addresses, NEW p \in Promises, UntracedPromise(p, a)
      PROVE  Numbered'
  BY <1>0, <1>7 DEF UntracedPromise
<1>8. ASSUME NEW p \in Promises, UntracedPromiseEnd(p) \/ GcPromiseUnmark(p)
      PROVE  Numbered'
  BY <1>0, <1>8 DEF UntracedPromiseEnd, GcPromiseUnmark
<1>9. ASSUME NEW a \in Addresses, NewEnvironment(a)
      PROVE  Numbered'
  <2>1. Renumber(a) /\ UNCHANGED full_stack
    BY <1>9 DEF NewEnvironment
  <2>2. /\ environment_id_counter' \in Nat
        /\ DOMAIN environments' = DOMAIN environments \cup {a}
        /\ \A b \in DOMAIN environments' : environments'[b] \in 0..(environment_id_counter' - 1)
        /\ IdsDistinct'
    BY <2>1, RenumberingFresh
  <2>3. \A b \in Addresses : OnStack(b)' => b \in DOMAIN environments'
    BY <2>1, <2>2, SameStack DEF Numbered
  <2>4. DOMAIN environments' \subseteq Addresses \cup {Nil}
    BY <2>2 DEF Numbered
  <2> QED
    BY <2>1, <2>2, <2>3, <2>4, SameStack DEF Numbered
<1>10. ASSUME NEW a \in Addresses, GcEnvironmentUnmark(a)
       PROVE  Numbered'
  <2>1. RemoveEnvironment(a) /\ UNCHANGED full_stack /\ ~OnStack(a)
    BY <1>10 DEF GcEnvironmentUnmark, Free
  <2>2. /\ environment_id_counter' = environment_id_counter
        /\ DOMAIN environments' = DOMAIN environments \ {a}
        /\ \A b \in DOMAIN environments' : environments'[b] = environments[b]
        /\ IdsDistinct'
    BY <2>1, RemovingKeeps
  <2>3. \A b \in Addresses : OnStack(b)' => b \in DOMAIN environments'
    BY <2>1, <2>2, SameStack DEF Numbered
  <2>4. \A b \in DOMAIN environments' : environments'[b] \in 0..(environment_id_counter' - 1)
    BY <2>2 DEF Numbered
  <2> QED
    BY <2>1, <2>2, <2>3, <2>4, SameStack DEF Numbered
<1>11. ASSUME NEW a \in Addresses, NEW p \in Promises, PromiseCreated(p, a)
       PROVE  Numbered'
  <2>1. LookedUp({a}) /\ UNCHANGED full_stack
    BY <1>11 DEF PromiseCreated, LookedUp
  <2> QED
    BY <2>1, NumberingExtends, SameStack, ExtendsNumbered DEF LookedUp
<1>12. ASSUME NEW a \in Addresses, NEW p \in Promises, PromiseEnvironmentAssign(p, a)
       PROVE  Numbered'
  <2>1. LookedUp({a, prenv[p]}) /\ UNCHANGED full_stack
    BY <1>12 DEF PromiseEnvironmentAssign, LookedUp, Allocated
  <2> QED
    BY <2>1, NumberingExtends, SameStack, ExtendsNumbered DEF LookedUp
<1>13. ASSUME NEW p \in Promises, PromiseSlotAccess(p)
       PROVE  Numbered'
  <2>1. LookedUp({prenv[p]}) /\ UNCHANGED full_stack
    BY <1>13, InsertionLooksUp DEF PromiseSlotAccess
  <2> QED
    BY <2>1, NumberingExtends, SameStack, ExtendsNumbered DEF LookedUp
<1>14. ASSUME NEW p \in Promises, PromiseForceEntry(p)
       PROVE  Numbered'
  <2>1. LookedUp({prenv[p]}) /\ full_stack' = Append(full_stack, PromiseEvent(p))
    BY <1>14, InsertionLooksUp DEF PromiseForceEntry, Push
  <2>2. PromiseEvent(p) \in CallEvents \cup PromiseEvents
    BY DEF PromiseEvents
  <2>3. \A a : \A fn \in FunctionTypes : PromiseEvent(p) # CallEvent(fn, a)
    BY DEF PromiseEvent, CallEvent
  <2>4. StackTyped' /\ \A a : OnStack(a)' => OnStack(a)
    BY <2>1, <2>2, <2>3, PushAdds DEF Numbered
  <2> QED
    BY <2>1, <2>4, NumberingExtends, ExtendsNumbered DEF LookedUp
<1>15. ASSUME NEW a \in Addresses, NEW fn \in FunctionTypes, NEW A, LookedUp(A), a \in A,
              full_stack' = Append(full_stack, CallEvent(fn, a))
       PROVE  Numbered'
  <2>1. CallEvent(fn, a) \in CallEvents \cup PromiseEvents
    BY DEF CallEvents
  <2>2. \A b : \A f \in FunctionTypes : CallEvent(fn, a) = CallEvent(f, b) => a = b
    BY DEF CallEvent
  <2>3. StackTyped' /\ \A b : OnStack(b)' => OnStack(b) \/ b \in A
    BY <1>15, <2>1, <2>2, PushAdds DEF Numbered
  <2> QED
    BY <1>15, <2>3, NumberingExtends, ExtendsNumbered DEF LookedUp
<1>16. ASSUME NEW a \in Addresses, NEW P \in SUBSET Promises, ClosureEntry(a, P)
       PROVE  Numbered'
  <2>1. full_stack' = Append(full_stack, CallEvent("closure", a)) /\ "closure" \in FunctionTypes
    BY <1>16 DEF ClosureEntry, Push, FunctionTypes
  <2> QED
    BY <1>15, <1>16, <2>1, ArgumentsLookUp
<1>17. ASSUME NEW a \in Addresses, NEW fn \in Primitives, BuiltinEntry(fn, a)
       PROVE  Numbered'
  <2>1. /\ full_stack' = Append(full_stack, CallEvent(fn, a)) /\ fn \in FunctionTypes
        /\ LookedUp({a})
    BY <1>17 DEF BuiltinEntry, Push, FunctionTypes, LookedUp
  <2> QED
    BY <1>15, <2>1
<1> QED
  BY <1>1, <1>2, <1>3, <1>4, <1>5, <1>6, <1>7, <1>8, <1>9, <1>10, <1>11, <1>12, <1>13, <1>14,
     <1>16, <1>17 DEF Next

(* Between the passes nothing is mapped. *)
LEMMA IdleNext ==
  ASSUME IdleEmpty, [Next]_vars
  PROVE  IdleEmpty'
<1>1. CASE DyntraceExit
  <2>1. full_stack' = <<>> /\ promises' = <<>>
    BY <1>1 DEF DyntraceExit, ClearMapping
  <2>2. DOMAIN promises' = {}
    BY <2>1
  <2> QED
    BY <2>1, <2>2 DEF IdleEmpty
<1>2. CASE phase' # "idle"
  BY <1>2 DEF IdleEmpty
<1>3. CASE ~DyntraceExit /\ phase' = "idle"
  <2>1. phase = "idle" /\ promises' = promises /\ full_stack' = full_stack
    BY <1>3 DEF Next, vars, Tracing, DyntraceEntry, Leave, UntracedAllocation,
       UntracedCollection, NewEnvironment, GcEnvironmentUnmark, ClosureEntry, BuiltinEntry,
       UntracedPromise, PromiseCreated, PromiseEnvironmentAssign, UntracedPromiseEnd,
       GcPromiseUnmark, PromiseSlotAccess, PromiseForceEntry, PromiseForceExit
  <2> QED
    BY <2>1 DEF IdleEmpty
<1> QED
  BY <1>1, <1>2, <1>3

(* Nothing of the mapping changes, nor what it depends on. *)
LEMMA QuietMapped ==
  ASSUME Mapped, IdleEmpty', UNCHANGED <<promises, truth, numbering>>, live \subseteq live'
  PROVE  Mapped'
<1>1. /\ promises' = promises /\ home' = home /\ passed' = passed
      /\ environments' = environments /\ environment_id_counter' = environment_id_counter
  BY DEF truth, numbering
<1>2. HomeTrue'
  BY <1>1 DEF Mapped, HomeTrue
<1>3. PassedMapped'
  BY <1>1 DEF Mapped, PassedMapped
<1> QED
  BY <1>1, <1>2, <1>3 DEF Mapped

(* Promises leave the mapping. *)
LEMMA ForgettingMapped ==
  ASSUME Mapped, IdleEmpty', UNCHANGED <<live, numbering>>, NEW D \in SUBSET DOMAIN promises,
         promises' = Restrict(promises, D), home' = Restrict(home, D), passed' = passed \cap D
  PROVE  Mapped'
<1>1. /\ DOMAIN promises' = D /\ DOMAIN home' = D
      /\ \A p \in D : promises'[p] = promises[p] /\ home'[p] = home[p]
      /\ environments' = environments /\ environment_id_counter' = environment_id_counter
  BY DEF Restrict, numbering
<1>2. HomeTrue'
  BY <1>1 DEF Mapped, HomeTrue
<1>3. PassedMapped'
  BY <1>1 DEF Mapped, PassedMapped
<1>4. \A p \in DOMAIN promises' : promises'[p] \in PromiseStates(environment_id_counter')
  BY <1>1 DEF Mapped
<1> QED
  BY <1>1, <1>2, <1>3, <1>4 DEF Mapped

(* Promises enter the mapping, and none of them is passed. *)
LEMMA InsertingMapped ==
  ASSUME Allocated, Numbered, Mapped, IdleEmpty', live' = live, passed' = passed,
         NEW A, Extends(A), NEW P \in SUBSET Promises, NEW isLocal \in BOOLEAN, NEW env,
         \A p \in P \ DOMAIN promises : env[p] \in A /\ env[p] \in live,
         promises' = WithPromises(P, isLocal, env), home' = WithHomes(P, env)
  PROVE  Mapped'
<1>0. Enlarged(promises', P, env)
  BY WithPromisesInserts
<1>1. /\ DOMAIN promises' = DOMAIN promises \cup P /\ DOMAIN home' = DOMAIN promises \cup P
      /\ \A p \in DOMAIN promises : promises'[p] = promises[p] /\ home'[p] = home[p]
      /\ \A p \in P \ DOMAIN promises :
           /\ promises'[p].env_id = environments'[env[p]] /\ home'[p] = env[p]
           /\ promises'[p].argument = FALSE
      /\ \A p \in DOMAIN promises \cup P :
           promises'[p] \in PromiseStates(environment_id_counter')
  BY <1>0 DEF Enlarged
<1>2. Inserted(P, env)
  BY <1>1 DEF Inserted
<1>3. HomeTrue'
  BY <1>2, InsertionKeepsHomes
<1>4. PassedMapped'
  <2>1. passed \subseteq DOMAIN promises
    BY DEF Mapped, PassedMapped
  <2>2. \A p \in DOMAIN promises :
          (promises'[p].argument <=> p \in passed) /\ (p \in passed => promises'[p].local)
    BY <1>1 DEF Mapped, PassedMapped
  <2>3. \A p \in P \ DOMAIN promises : ~promises'[p].argument /\ p \notin passed
    BY <1>1, <2>1
  <2> QED
    BY <1>1, <2>1, <2>2, <2>3 DEF PassedMapped
<1>5. \A p \in DOMAIN promises' : promises'[p] \in PromiseStates(environment_id_counter')
  BY <1>1
<1>6. DOMAIN promises' \subseteq Promises /\ DOMAIN home' = DOMAIN promises'
  BY <1>1 DEF Mapped
<1> QED
  BY <1>3, <1>4, <1>5, <1>6 DEF Mapped

LEMMA InsertIfNonLocalMapped ==
  ASSUME Allocated, Numbered, Mapped, IdleEmpty', live' = live, NEW p \in Promises,
         life[p] = "unevaluated", InsertIfNonLocal(p)
  PROVE  Mapped'
<1>1. Extends({prenv[p]})
  BY InsertionLooksUp, NumberingExtends DEF LookedUp
<1>2. prenv[p] \in live
  BY DEF Allocated, Reached
<1>3. promises' = WithPromises({p}, FALSE, prenv) /\ home' = WithHomes({p}, prenv)
      /\ passed' = passed
  BY DEF InsertIfNonLocal
<1> QED
  BY <1>1, <1>2, <1>3, InsertingMapped

(* The arguments of a call enter the mapping, and are passed. *)
LEMMA ClosureEntryMapped ==
  ASSUME Allocated, Numbered, Mapped, IdleEmpty',
         NEW a \in Addresses, NEW P \in SUBSET Promises, ClosureEntry(a, P)
  PROVE  Mapped'
<1> DEFINE A     == {prenv[p] : p \in P \ DOMAIN promises} \cup {a}
           known == WithPromises(P, FALSE, prenv)
<1>1. Extends(A)
  BY ArgumentsLookUp, NumberingExtends DEF LookedUp
<1>2. /\ promises' = [p \in DOMAIN known |-> IF p \in P THEN MakeFunctionArgument(known[p])
                                             ELSE known[p]]
      /\ home' = WithHomes(P, prenv) /\ passed' = passed \cup P /\ live' = live
      /\ \A p \in P : life[p] = "unevaluated"
  BY DEF ClosureEntry
<1>3. \A p \in P \ DOMAIN promises : prenv[p] \in A /\ prenv[p] \in live
  BY <1>2 DEF Allocated, Reached
<1> HIDE DEF A
<1>0. Enlarged(known, P, prenv)
  BY <1>1, <1>2, <1>3, WithPromisesInserts
<1>4. /\ DOMAIN known = DOMAIN promises \cup P /\ DOMAIN home' = DOMAIN promises \cup P
      /\ \A p \in DOMAIN promises : known[p] = promises[p] /\ home'[p] = home[p]
      /\ \A p \in P \ DOMAIN promises :
           known[p].env_id = environments'[prenv[p]] /\ home'[p] = prenv[p]
      /\ \A p \in DOMAIN promises \cup P : known[p] \in PromiseStates(environment_id_counter')
  BY <1>0 DEF Enlarged
<1> HIDE DEF known
<1>5. /\ DOMAIN promises' = DOMAIN promises \cup P
      /\ \A p \in P : promises'[p] = MakeFunctionArgument(known[p])
      /\ \A p \in DOMAIN promises \ P : promises'[p] = promises[p]
  BY <1>2, <1>4
<1>6. ASSUME NEW p \in P
      PROVE  /\ promises'[p] \in PromiseStates(environment_id_counter')
             /\ promises'[p].env_id = known[p].env_id
             /\ promises'[p].argument = TRUE /\ promises'[p].local = TRUE
  <2>1. known[p] \in PromiseStates(environment_id_counter')
    BY <1>4
  <2>2. promises'[p] = MakeFunctionArgument(known[p])
    BY <1>5
  <2> QED
    BY <2>1, <2>2, ArgumentStates
<1>7. Inserted(P, prenv)
  <2>1. \A p \in DOMAIN promises : promises'[p].env_id = promises[p].env_id
    BY <1>4, <1>5, <1>6
  <2>2. \A p \in P \ DOMAIN promises : promises'[p].env_id = environments'[prenv[p]]
    BY <1>4, <1>6
  <2> QED
    BY <1>4, <1>5, <2>1, <2>2 DEF Inserted
<1>8. HomeTrue'
  BY <1>1, <1>2, <1>3, <1>7, InsertionKeepsHomes
<1>9. PassedMapped'
  <2>1. passed' = passed \cup P /\ passed \subseteq DOMAIN promises
    BY <1>2 DEF Mapped, PassedMapped
  <2>2. \A p \in DOMAIN promises \ P :
          (promises'[p].argument <=> p \in passed) /\ (p \in passed => promises'[p].local)
    BY <1>5 DEF Mapped, PassedMapped
  <2>3. \A p \in P : promises'[p].argument /\ promises'[p].local
    BY <1>6
  <2> QED
    BY <1>5, <2>1, <2>2, <2>3 DEF PassedMapped
<1>10. \A p \in DOMAIN promises' : promises'[p] \in PromiseStates(environment_id_counter')
  BY <1>4, <1>5, <1>6
<1>11. DOMAIN promises' \subseteq Promises /\ DOMAIN home' = DOMAIN promises'
  BY <1>4, <1>5 DEF Mapped
<1> QED
  BY <1>8, <1>9, <1>10, <1>11 DEF Mapped

(* A new environment has no promise, and an id that no promise keeps. *)
LEMMA NewEnvironmentMapped ==
  ASSUME Allocated, Numbered, Mapped, IdleEmpty', NEW a \in Addresses, NewEnvironment(a)
  PROVE  Mapped'
<1>1. /\ a \notin live /\ live' = live \cup {a} /\ Renumber(a)
      /\ promises' = promises /\ home' = home /\ passed' = passed
  BY DEF NewEnvironment, truth
<1>2. /\ environment_id_counter' = environment_id_counter + 1
      /\ environment_id_counter \in Nat /\ environment_id_counter' \in Nat
      /\ DOMAIN environments' = DOMAIN environments \cup {a}
      /\ environments'[a] = environment_id_counter
      /\ \A b \in DOMAIN environments : b # a => environments'[b] = environments[b]
  BY <1>1, RenumberingFresh
<1>3. \A p \in DOMAIN promises : /\ promises[p] \in PromiseStates(environment_id_counter)
                                 /\ promises[p].env_id \in 0..(environment_id_counter - 1)
  BY DEF Mapped, PromiseStates
<1>4. \A p \in DOMAIN promises' : promises'[p] \in PromiseStates(environment_id_counter')
  BY <1>1, <1>2, <1>3, StatesGrow
<1>5. HomeTrue'
  <2>1. \A p \in DOMAIN promises : home[p] # a /\ promises[p].env_id # environment_id_counter
    BY <1>1, <1>2, <1>3 DEF Mapped, HomeTrue
  <2> QED
    BY <1>1, <1>2, <2>1 DEF Mapped, HomeTrue
<1>6. PassedMapped'
  BY <1>1 DEF Mapped, PassedMapped
<1> QED
  BY <1>1, <1>4, <1>5, <1>6 DEF Mapped

(* A promise whose environment was collected keeps an id that no address has. *)
LEMMA GcEnvironmentMapped ==
  ASSUME Numbered, Mapped, IdleEmpty', NEW a \in Addresses, GcEnvironmentUnmark(a)
  PROVE  Mapped'
<1>1. /\ live' = live \ {a} /\ RemoveEnvironment(a)
      /\ home' = [p \in DOMAIN home |-> IF home[p] = a THEN Nil ELSE home[p]]
      /\ promises' = promises /\ passed' = passed
  BY DEF GcEnvironmentUnmark, Free
<1>2. /\ environment_id_counter' = environment_id_counter
      /\ DOMAIN environments' = DOMAIN environments \ {a}
      /\ \A b \in DOMAIN environments' : environments'[b] = environments[b]
  BY <1>1, RemovingKeeps
<1>3. /\ DOMAIN home' = DOMAIN promises
      /\ \A p \in DOMAIN promises : home'[p] = IF home[p] = a THEN Nil ELSE home[p]
  BY <1>1 DEF Mapped
<1>4. HomeTrue'
  BY <1>1, <1>2, <1>3, AddressesAssumption DEF Mapped, HomeTrue
<1>5. PassedMapped'
  BY <1>1 DEF Mapped, PassedMapped
<1> QED
  BY <1>1, <1>2, <1>3, <1>4, <1>5 DEF Mapped

(* Every promise of the mapping stays with the environment it was met with. *)
LEMMA MappedNext ==
  ASSUME Allocated, Numbered, Mapped, [Next]_vars
  PROVE  Mapped'
<1>0. IdleEmpty'
  BY IdleNext DEF Mapped
<1>1. ASSUME UNCHANGED <<promises, truth, numbering>>, live \subseteq live'
      PROVE  Mapped'
  BY <1>0, <1>1, QuietMapped
<1>2. CASE UNCHANGED vars
  BY <1>1, <1>2 DEF vars, memory
<1>3. CASE DyntraceEntry \/ \E n \in 0..MaxDepth : Leave(n)
  BY <1>1, <1>3 DEF DyntraceEntry, Leave, memory
<1>4. CASE DyntraceExit
  <2>1. /\ promises' = <<>> /\ home' = Restrict(home, DOMAIN promises')
        /\ passed' = passed \cap DOMAIN promises' /\ UNCHANGED <<live, numbering>>
    BY <1>4 DEF DyntraceExit, ClearMapping, memory
  <2>2. DOMAIN promises' = {} /\ DOMAIN home' = {} /\ passed' = {}
    BY <2>1 DEF Restrict
  <2> QED
    BY <1>0, <2>2 DEF Mapped, HomeTrue, PassedMapped
<1>5. ASSUME NEW a \in Addresses, UntracedAllocation(a)
      PROVE  Mapped'
  BY <1>1, <1>5 DEF UntracedAllocation
<1>6. ASSUME NEW a \in Addresses, UntracedCollection(a)
      PROVE  Mapped'
  <2>1. /\ phase = "idle" /\ promises' = promises /\ passed' = passed
        /\ home' = [p \in DOMAIN home |-> IF home[p] = a THEN Nil ELSE home[p]]
    BY <1>6 DEF UntracedCollection, Untraced, Free
  <2>2. DOMAIN promises' = {} /\ DOMAIN home' = {} /\ passed' = {}
    BY <2>1 DEF Mapped, IdleEmpty, PassedMapped
  <2> QED
    BY <1>0, <2>2 DEF Mapped, HomeTrue, PassedMapped
<1>7. ASSUME NEW a \in Addresses, NEW p \in Promises, UntracedPromise(p, a)
      PROVE  Mapped'
  BY <1>1, <1>7 DEF UntracedPromise, memory
<1>8. ASSUME NEW p \in Promises, UntracedPromiseEnd(p)
      PROVE  Mapped'
  BY <1>1, <1>8 DEF UntracedPromiseEnd, memory
<1>9. ASSUME NEW a \in Addresses, NewEnvironment(a) \/ GcEnvironmentUnmark(a)
      PROVE  Mapped'
  BY <1>0, <1>9, NewEnvironmentMapped, GcEnvironmentMapped
<1>10. ASSUME NEW a \in Addresses, NEW p \in Promises, PromiseCreated(p, a)
       PROVE  Mapped'
  <2>1. /\ LookedUp({a}) /\ a \in live /\ prenv'[p] = a /\ live' = live /\ passed' = passed
        /\ promises' = WithPromises({p}, TRUE, prenv') /\ home' = WithHomes({p}, prenv')
    BY <1>10 DEF PromiseCreated, LookedUp, Become, memory, Allocated
  <2>2. Extends({a})
    BY <2>1, NumberingExtends DEF LookedUp
  <2>3. \A q \in {p} \ DOMAIN promises : prenv'[q] \in {a} /\ prenv'[q] \in live
    BY <2>1
  <2> QED
    BY <1>0, <2>1, <2>2, <2>3, InsertingMapped
<1>11. ASSUME NEW a \in Addresses, NEW p \in Promises, PromiseEnvironmentAssign(p, a)
       PROVE  Mapped'
  <2>1. /\ LookedUp({a, prenv[p]}) /\ prenv[p] \in live /\ live' = live /\ passed' = passed
        /\ promises' = WithPromises({p}, FALSE, prenv) /\ home' = WithHomes({p}, prenv)
    BY <1>11 DEF PromiseEnvironmentAssign, LookedUp, memory, Allocated, Reached
  <2>2. Extends({a, prenv[p]})
    BY <2>1, NumberingExtends DEF LookedUp
  <2>3. \A q \in {p} \ DOMAIN promises : prenv[q] \in {a, prenv[p]} /\ prenv[q] \in live
    BY <2>1
  <2> QED
    BY <1>0, <2>1, <2>2, <2>3, InsertingMapped
<1>12. ASSUME NEW p \in Promises, GcPromiseUnmark(p)
       PROVE  Mapped'
  <2> DEFINE D == DOMAIN promises \ {p}
  <2>1. /\ promises' = Restrict(promises, D) /\ home' = Restrict(home, D)
        /\ passed' = passed \cap D /\ UNCHANGED <<live, numbering>>
    BY <1>12 DEF GcPromiseUnmark, Mapped, PassedMapped, memory
  <2> QED
    BY <1>0, <2>1, ForgettingMapped
<1>13. ASSUME NEW p \in Promises, PromiseSlotAccess(p) \/ PromiseForceEntry(p)
       PROVE  Mapped'
  <2>1. InsertIfNonLocal(p) /\ life[p] = "unevaluated" /\ live' = live
    BY <1>13 DEF PromiseSlotAccess, PromiseForceEntry, memory
  <2> QED
    BY <1>0, <2>1, InsertIfNonLocalMapped
<1>14. ASSUME NEW a \in Addresses, NEW P \in SUBSET Promises, ClosureEntry(a, P)
       PROVE  Mapped'
  BY <1>0, <1>14, ClosureEntryMapped
<1>15. ASSUME NEW a \in Addresses, NEW fn \in Primitives, BuiltinEntry(fn, a)
       PROVE  Mapped'
  <2>1. /\ LookedUp({a}) /\ promises' = promises /\ home' = home /\ passed' = passed
        /\ live' = live
    BY <1>15 DEF BuiltinEntry, LookedUp, memory, truth
  <2>2. Extends({a})
    BY <2>1, NumberingExtends DEF LookedUp
  <2>3. Inserted({}, prenv)
    BY <2>1 DEF Inserted, Mapped
  <2>4. HomeTrue'
    BY <2>1, <2>2, <2>3, InsertionKeepsHomes
  <2>5. PassedMapped'
    BY <2>1 DEF Mapped, PassedMapped
  <2>6. \A p \in DOMAIN promises : promises[p] \in PromiseStates(environment_id_counter')
    BY <2>2, StatesGrow DEF Extends, Mapped, Numbered
  <2> QED
    BY <1>0, <2>1, <2>4, <2>5, <2>6 DEF Mapped
<1>16. ASSUME NEW p \in Promises, PromiseForceExit(p)
       PROVE  Mapped'
  BY <1>1, <1>16 DEF PromiseForceExit, memory
<1> QED
  BY <1>2, <1>3, <1>4, <1>5, <1>6, <1>7, <1>8, <1>9, <1>10, <1>11, <1>12, <1>13, <1>14, <1>15,
     <1>16 DEF Next

-----------------------------------------------------------------------------
(* The invariant, and what follows from it. *)

LEMMA EInvInit == Init => EInv
<1> SUFFICES ASSUME Init PROVE EInv
  OBVIOUS
<1> USE DEF Init
<1>1. Allocated
  BY DEF Allocated, Reached
<1>2. DOMAIN environments = {} /\ DOMAIN promises = {} /\ DOMAIN home = {}
  OBVIOUS
<1>3. Numbered
  <2>1. StackTyped
    BY DEF StackTyped, CallEvents, PromiseEvents
  <2>2. \A a : ~OnStack(a)
    BY DEF OnStack, Contains
  <2> QED
    BY <1>2, <2>1, <2>2 DEF Numbered, IdsDistinct
<1>4. Mapped
  BY <1>2 DEF Mapped, HomeTrue, IdleEmpty, PassedMapped
<1> QED
  BY <1>1, <1>3, <1>4 DEF EInv, Counted

LEMMA EInvNext == EInv /\ [Next]_vars => EInv'
  BY AllocatedNext, NumberedNext, MappedNext, CountedNext DEF EInv

LEMMA SpecEInv == Spec => []EInv
  BY EInvInit, EInvNext, PTL DEF Spec

LEMMA EInvTypeOK == EInv => TypeOK
<1> SUFFICES ASSUME EInv PROVE TypeOK
  OBVIOUS
<1>1. /\ fresh \subseteq live /\ live \subseteq Addresses
      /\ life \in [Promises -> {"none", "unevaluated", "evaluated", "gone"}]
      /\ prenv \in [Promises -> Addresses \cup {Nil}]
  BY DEF EInv, Allocated
<1>2. /\ DOMAIN environments \subseteq Addresses \cup {Nil}
      /\ \A a \in DOMAIN environments : environments[a] \in 0..(environment_id_counter - 1)
      /\ \A a \in Addresses : OnStack(a) => a \in DOMAIN environments
  BY DEF EInv, Numbered
<1>3. /\ DOMAIN promises \subseteq Promises /\ DOMAIN home = DOMAIN promises
      /\ \A p \in DOMAIN promises :
           promises[p] \in [local : BOOLEAN, argument : BOOLEAN,
                            env_id : 0..(environment_id_counter - 1)]
  BY DEF EInv, Mapped, PromiseStates
<1> QED
  BY <1>1, <1>2, <1>3 DEF EInv, TypeOK

(* In every reachable state the variables have the kinds of values that the *)
(* code gives them, and every call on full_stack has an environment with an *)
(* id: compute_evaluation_distance gives none out.                          *)
THEOREM EvaluationTypesCorrect == Spec => []TypeOK
  BY SpecEInv, EInvTypeOK, PTL

(* The env_id kept in a promise is, at any later time, the id of the       *)
(* environment the promise was met with, and of no other, however addresses *)
(* are reused.                                                              *)
THEOREM EnvironmentIdsTrue == Spec => []EnvironmentIdsAreTrue
<1>1. EInv => EnvironmentIdsAreTrue
  BY DEF EInv, Mapped, HomeTrue, EnvironmentIdsAreTrue
<1> QED
  BY <1>1, SpecEInv, PTL

-----------------------------------------------------------------------------
(* Every force is counted at its true distance. *)

(* The walk finds the calls that are evaluated in the environment of the     *)
(* promise: the ids on the stack tell them from all others.                  *)
LEMMA WalkFindsHome ==
  ASSUME EInv, EInv', NEW p \in Promises, PromiseForceEntry(p)
  PROVE  HomeCalls(p) = {i \in DOMAIN full_stack :
           /\ full_stack[i].type = "CALL"
           /\ environments'[full_stack[i].environment] = promises'[p].env_id}
<1>1. p \in DOMAIN promises'
  BY DEF PromiseForceEntry, InsertIfNonLocal, WithPromises, Union
<1>2. \A a \in DOMAIN environments' \cap Addresses :
        environments'[a] = promises'[p].env_id <=> home'[p] = a
  BY <1>1 DEF EInv, Mapped, HomeTrue
<1>3. DOMAIN environments \subseteq DOMAIN environments'
  <2>1. Extends({prenv[p]})
    BY InsertionLooksUp, NumberingExtends DEF PromiseForceEntry, LookedUp, EInv
  <2> QED
    BY <2>1 DEF Extends
<1>4. ASSUME NEW i \in DOMAIN full_stack, full_stack[i].type = "CALL"
      PROVE  full_stack[i].environment \in DOMAIN environments' \cap Addresses
  <2>1. i \in 1..Len(full_stack) /\ full_stack[i] \in CallEvents \cup PromiseEvents
    BY <1>4, LenProperties, ElementOfSeq DEF EInv, Numbered, StackTyped
  <2>2. full_stack[i] \in CallEvents
    BY <1>4, <2>1 DEF PromiseEvents, PromiseEvent
  <2>3. PICK fn \in FunctionTypes, a \in Addresses : full_stack[i] = CallEvent(fn, a)
    BY <2>2 DEF CallEvents
  <2>4. OnStack(a)
    BY <2>1, <2>3 DEF OnStack, Contains
  <2>5. full_stack[i].environment = a
    BY <2>3 DEF CallEvent
  <2> QED
    BY <1>3, <2>4, <2>5 DEF EInv, Numbered
<1> QED
  BY <1>2, <1>4 DEF HomeCalls

LEMMA ForceCountsTruly ==
  ASSUME EInv, EInv', NEW p \in Promises, PromiseForceEntry(p)
  PROVE  CountsTruly
<1> DEFINE s == promises'[p]
           P == {q \in Promises : Forcing(q)}
           D == {Distance(Max(HomeCalls(q))) : q \in {r \in P \cap passed : HomeCalls(r) # {}}}
<1>1. counted' = Counted({EvaluationContext}, EvaluationDistances(s))
  BY DEF PromiseForceEntry
<1>2. P = {p}
  <2>1. full_stack' = Append(full_stack, PromiseEvent(p)) /\ full_stack \in Seq(CallEvents \cup PromiseEvents)
    BY DEF PromiseForceEntry, Push, EInv, Numbered, StackTyped
  <2>2. PromiseEvent(p) \in CallEvents \cup PromiseEvents
    BY DEF PromiseEvents
  <2>3. Len(full_stack') = Len(full_stack) + 1 /\ Last(full_stack') = PromiseEvent(p)
        /\ Len(full_stack) \in Nat
    BY <2>1, <2>2, AppendProperties, LenProperties DEF Last
  <2>4. \A q : Forcing(q) <=> PromiseEvent(p) = PromiseEvent(q)
    BY <2>3 DEF Forcing
  <2>5. \A q : PromiseEvent(p) = PromiseEvent(q) => p = q
    BY DEF PromiseEvent
  <2> QED
    BY <2>4, <2>5
<1>3. HomeCalls(p) = {i \in DOMAIN full_stack :
        full_stack[i].type = "CALL" /\ environments'[full_stack[i].environment] = s.env_id}
  BY WalkFindsHome
<1>4. EvaluationDistances(s) =
        IF HomeCalls(p) = {} \/ ~s.local \/ ~s.argument THEN {}
        ELSE {Distance(FoundFirst(HomeCalls(p)))}
  BY <1>3 DEF EvaluationDistances
<1>5. (s.argument <=> p \in passed) /\ (p \in passed => s.local)
  <2>1. p \in DOMAIN promises' /\ passed' = passed
    BY DEF PromiseForceEntry, InsertIfNonLocal, WithPromises, Union
  <2> QED
    BY <2>1 DEF EInv, Mapped, PassedMapped
<1> HIDE DEF s, P
<1>6. D = EvaluationDistances(s)
  <2>1. CASE p \in passed /\ HomeCalls(p) # {}
    <3>1. {r \in P \cap passed : HomeCalls(r) # {}} = {p}
      BY <1>2, <2>1
    <3>2. D = {Distance(Max(HomeCalls(p)))}
      BY <3>1
    <3> QED
      BY <1>4, <1>5, <2>1, <3>2 DEF FoundFirst
  <2>2. CASE ~(p \in passed /\ HomeCalls(p) # {})
    <3>1. {r \in P \cap passed : HomeCalls(r) # {}} = {}
      BY <1>2, <2>2
    <3>2. D = {}
      BY <3>1
    <3> QED
      BY <1>4, <1>5, <2>2, <3>2
  <2> QED
    BY <2>1, <2>2
<1>7. {EvaluationContext : q \in P} = {EvaluationContext}
  BY <1>2
<1> QED
  BY <1>1, <1>6, <1>7 DEF CountsTruly, P

(* A step that puts no promise on the stack counts nothing. *)
LEMMA OthersCountTruly ==
  ASSUME CountNothing, \A p \in Promises : ~Forcing(p)
  PROVE  CountsTruly
<1> DEFINE P == {p \in Promises : Forcing(p)}
<1>1. P = {}
  OBVIOUS
<1>2. {EvaluationContext : p \in P} = {}
  BY <1>1
<1>3. {Distance(Max(HomeCalls(p))) : p \in {q \in P \cap passed : HomeCalls(q) # {}}} = {}
  BY <1>1
<1> QED
  BY <1>2, <1>3 DEF CountNothing, CountsTruly

LEMMA StepCountsTruly ==
  ASSUME EInv, EInv', [Next]_vars
  PROVE  [CountsTruly]_vars
<1>0. full_stack \in Seq(CallEvents \cup PromiseEvents) /\ Len(full_stack) \in Nat
  BY LenProperties DEF EInv, Numbered, StackTyped
<1>1. ASSUME CountNothing, full_stack' = full_stack
      PROVE  CountsTruly
  BY <1>0, <1>1, OthersCountTruly DEF Forcing
<1>2. ASSUME CountNothing, Len(full_stack') <= Len(full_stack), Len(full_stack') \in Nat
      PROVE  CountsTruly
  BY <1>0, <1>2, OthersCountTruly DEF Forcing
<1>3. ASSUME CountNothing, NEW fn \in FunctionTypes, NEW a \in Addresses,
             full_stack' = Append(full_stack, CallEvent(fn, a))
      PROVE  CountsTruly
  <2>1. CallEvent(fn, a) \in CallEvents \cup PromiseEvents
    BY DEF CallEvents
  <2>2. Last(full_stack') = CallEvent(fn, a)
    BY <1>0, <1>3, <2>1, AppendProperties DEF Last
  <2>3. \A p \in Promises : CallEvent(fn, a) # PromiseEvent(p)
    BY DEF CallEvent, PromiseEvent
  <2> QED
    BY <1>3, <2>2, <2>3, OthersCountTruly DEF Forcing
<1>4. CASE UNCHANGED vars
  BY <1>4
<1>5. CASE DyntraceEntry
  BY <1>1, <1>5 DEF DyntraceEntry
<1>6. CASE DyntraceExit
  <2>1. CountNothing /\ Len(full_stack') = 0
    BY <1>6 DEF DyntraceExit
  <2> QED
    BY <1>0, <1>2, <2>1
<1>7. ASSUME NEW n \in 0..MaxDepth, Leave(n)
      PROVE  CountsTruly
  <2>1. CountNothing /\ full_stack' = SubSeq(full_stack, 1, n) /\ n < Len(full_stack)
    BY <1>7 DEF Leave
  <2>2. n \in Nat
    BY BoundsAssumption
  <2>3. Len(full_stack') = n
    BY <1>0, <2>1, <2>2, ElementOfSeq, SubSeqProperties
  <2> QED
    BY <1>0, <1>2, <2>1, <2>2, <2>3
<1>8. ASSUME NEW p \in Promises, PromiseForceExit(p)
      PROVE  CountsTruly
  <2> DEFINE n == Len(full_stack) - 1
  <2>1. CountNothing /\ full_stack' = SubSeq(full_stack, 1, n) /\ full_stack # <<>>
    BY <1>8 DEF PromiseForceExit, Pop, Front
  <2>2. n \in Nat /\ n <= Len(full_stack)
    BY <1>0, <2>1
  <2> HIDE DEF n
  <2>3. Len(full_stack') = n
    BY <1>0, <2>1, <2>2, ElementOfSeq, SubSeqProperties
  <2> QED
    BY <1>0, <1>2, <2>1, <2>2, <2>3
<1>9. ASSUME NEW p \in Promises, PromiseForceEntry(p)
      PROVE  CountsTruly
  BY <1>9, ForceCountsTruly
<1>10. ASSUME NEW a \in Addresses, NEW P \in SUBSET Promises, ClosureEntry(a, P)
       PROVE  CountsTruly
  BY <1>3, <1>10 DEF ClosureEntry, Push, FunctionTypes
<1>11. ASSUME NEW a \in Addresses, NEW fn \in Primitives, BuiltinEntry(fn, a)
       PROVE  CountsTruly
  BY <1>3, <1>11 DEF BuiltinEntry, Push, FunctionTypes
<1>12. ASSUME NEW a \in Addresses,
              \/ UntracedAllocation(a) \/ UntracedCollection(a)
              \/ NewEnvironment(a) \/ GcEnvironmentUnmark(a)
       PROVE  CountsTruly
  BY <1>1, <1>12 DEF UntracedAllocation, UntracedCollection, NewEnvironment, GcEnvironmentUnmark
<1>13. ASSUME NEW a \in Addresses, NEW p \in Promises,
              UntracedPromise(p, a) \/ PromiseCreated(p, a) \/ PromiseEnvironmentAssign(p, a)
       PROVE  CountsTruly
  BY <1>1, <1>13 DEF UntracedPromise, PromiseCreated, PromiseEnvironmentAssign
<1>14. ASSUME NEW p \in Promises,
              UntracedPromiseEnd(p) \/ GcPromiseUnmark(p) \/ PromiseSlotAccess(p)
       PROVE  CountsTruly
  BY <1>1, <1>14 DEF UntracedPromiseEnd, GcPromiseUnmark, PromiseSlotAccess
<1> QED
  BY <1>4, <1>5, <1>6, <1>7, <1>8, <1>9, <1>10, <1>11, <1>12, <1>13, <1>14 DEF Next

(* Each force of a promise is counted in the context it is done in and, for *)
(* an argument, at the distance to the innermost call evaluated in the      *)
(* environment it was met with; nothing else is counted.                    *)
THEOREM EvaluationsCountedTruly == Spec => EvaluationsAreTrue
<1>1. EInv /\ EInv' /\ [Next]_vars => [CountsTruly]_vars
  BY StepCountsTruly
<1> QED
  BY <1>1, SpecEInv, PTL DEF Spec, EvaluationsAreTrue
=============================================================================
