------------------------- MODULE SideEffectsProofs -------------------------
(***************************************************************************)
(* Proofs about SideEffects, for every set of addresses, promises and      *)
(* names, and any number of environments, actions and calls.               *)
(***************************************************************************)
EXTENDS SideEffects, FiniteSetTheorems, SequenceTheorems, TLAPS

-----------------------------------------------------------------------------
(* The inductive invariant, in four parts: the environments there are, the *)
(* numbering, the counters, and the times.                                 *)

Allocated ==
  /\ objects \in 1..MaxObjects
  /\ heap \in [Addresses -> 0..objects]
  /\ bindings \in [1..objects -> SUBSET Symbols]
  /\ \A a, b \in Live : heap[a] = heap[b] => a = b

(* No two environments, and no two variables, have the same id. *)
Numbered ==
  /\ environment_id_counter \in Nat /\ variable_id_counter \in Nat
  /\ DOMAIN environments \subseteq Live
  /\ \A a \in DOMAIN environments :
       /\ environments[a].id \in 0..(environment_id_counter - 1)
       /\ DOMAIN environments[a].variables \subseteq Symbols
  /\ \A a, b \in DOMAIN environments : environments[a].id = environments[b].id => a = b
  /\ \A a : \A s : KnownVariable(s, a) =>
       environments[a].variables[s] \in 0..(variable_id_counter - 1)
  /\ \A a, b : \A s, t :
       /\ KnownVariable(s, a) /\ KnownVariable(t, b)
       /\ environments[a].variables[s] = environments[b].variables[t]
       => a = b /\ s = t

(* Each action is counted at most once. *)
Counting ==
  /\ clock \in 0..MaxActions
  /\ counts \in [Scopes -> [Kinds -> 0..clock]]

(* The times of the analysis, and the true times. *)
Timed ==
  /\ timestamp \in Nat
  /\ DOMAIN created = DOMAIN promise_timestamps /\ DOMAIN created \subseteq Promises
  /\ \A p \in DOMAIN created :
       created[p] \in 0..clock /\ promise_timestamps[p] \in 0..(timestamp - 1)
  /\ \A i \in DOMAIN variable_timestamps :
       i \in 0..(variable_id_counter - 1) /\ variable_timestamps[i] \in 0..(timestamp - 1)
  /\ written \in [1..MaxObjects -> [Symbols -> 0..clock]]
  /\ \A o \in 1..MaxObjects : o > objects => \A s \in Symbols : written[o][s] = Never

(* The last write of the variable s at address a is stamped under its id, *)
(* and it is later than the creation of a promise by both clocks or none. *)
StampTrue(s, a) ==
  LET i == environments[a].variables[s] IN
  /\ i \in DOMAIN variable_timestamps <=> written[heap[a]][s] # Never
  /\ i \in DOMAIN variable_timestamps =>
       \A p \in DOMAIN created :
         promise_timestamps[p] < variable_timestamps[i] <=> created[p] < written[heap[a]][s]

Stamped ==
  \A a \in Live : \A s \in Symbols :
    IF KnownVariable(s, a) THEN StampTrue(s, a) ELSE written[heap[a]][s] = Never

SInv == /\ Allocated /\ Numbered /\ Counting /\ Timed /\ Stamped
        /\ observers = observed /\ observers \subseteq Promises

-----------------------------------------------------------------------------
(* The numbering of environments and variables. *)

(* What is left behind when the variables S of the environment at a are     *)
(* looked up: what has an id keeps it, and the rest gets ids never given.   *)
Extends(S, a) ==
  /\ environment_id_counter' \in {environment_id_counter, environment_id_counter + 1}
  /\ variable_id_counter' \in Nat /\ variable_id_counter' >= variable_id_counter
  /\ DOMAIN environments' = DOMAIN environments \cup {a}
  /\ \A b \in DOMAIN environments : environments'[b].id = environments[b].id
  /\ a \notin DOMAIN environments =>
       /\ environments'[a].id = environment_id_counter
       /\ environment_id_counter' = environment_id_counter + 1
  /\ \A b, s : KnownVariable(s, b)' <=> KnownVariable(s, b) \/ (b = a /\ s \in S)
  /\ \A b, s : KnownVariable(s, b) =>
       environments'[b].variables[s] = environments[b].variables[s]
  /\ \A s \in S : ~KnownVariable(s, a) =>
       environments'[a].variables[s] \in variable_id_counter..(variable_id_counter' - 1)
  /\ \A s, t \in S :
       /\ ~KnownVariable(s, a) /\ ~KnownVariable(t, a)
       /\ environments'[a].variables[s] = environments'[a].variables[t]
       => s = t

LEMMA VariablesExtend ==
  ASSUME Numbered, NEW S \in SUBSET Symbols, NEW a, NumberVariables(S, a)
  PROVE  Extends(S, a)
<1> DEFINE new == {s \in S : ~KnownVariable(s, a)}
           old == IF Known(a) THEN environments[a].variables ELSE EmptyMap
           end == variable_id_counter + Cardinality(new)
           R   == variable_id_counter..(variable_id_counter + Cardinality(new) - 1)
           id  == IF Known(a) THEN environments[a].id ELSE environment_id_counter
<1>1. environment_id_counter \in Nat /\ variable_id_counter \in Nat /\ Cardinality(new) \in Nat
  <2>1. IsFiniteSet(new)
    BY SymbolsAssumption, FS_Subset
  <2> QED
    BY <2>1, FS_CardinalityType DEF Numbered
<1>2. PICK numbers \in [new -> R] :
        /\ IsInjective(numbers)
        /\ environments' = Put(environments, a,
             [id        |-> IF Known(a) THEN environments[a].id ELSE environment_id_counter,
              variables |-> [s \in DOMAIN old \cup new |-> IF s \in new THEN numbers[s] ELSE old[s]]])
  BY Zenon DEF NumberVariables
<1>3. /\ environment_id_counter' = IF Known(a) THEN environment_id_counter
                                   ELSE environment_id_counter + 1
      /\ variable_id_counter' = end
  BY DEF NumberVariables
<1>4. end \in Nat /\ end >= variable_id_counter
  BY <1>1
<1> DEFINE vars_a == [s \in DOMAIN old \cup new |-> IF s \in new THEN numbers[s] ELSE old[s]]
<1>5. DOMAIN numbers = new /\ \A s \in new : numbers[s] \in variable_id_counter..(end - 1)
  <2>1. numbers \in [new -> R]
    BY <1>2
  <2> HIDE DEF new, R
  <2>2. DOMAIN numbers = new /\ \A s \in new : numbers[s] \in R
    BY <2>1
  <2> QED
    BY <1>1, <2>2 DEF R
<1>6. \A s, t \in new : numbers[s] = numbers[t] => s = t
  BY <1>2, <1>5 DEF IsInjective
<1>7. /\ DOMAIN vars_a = DOMAIN old \cup new
      /\ \A s \in new : vars_a[s] = numbers[s]
      /\ \A s \in DOMAIN old \ new : vars_a[s] = old[s]
  OBVIOUS
<1>8. \A s : s \in DOMAIN old <=> KnownVariable(s, a)
  BY DEF KnownVariable, EmptyMap
<1>9. \A s : KnownVariable(s, a) => old[s] = environments[a].variables[s]
  BY DEF KnownVariable
<1>10. id = (IF Known(a) THEN environments[a].id ELSE environment_id_counter)
  OBVIOUS
<1> HIDE DEF new, old, end, id, vars_a
<1>11. environments' = Put(environments, a, [id |-> id, variables |-> vars_a])
  BY <1>2 DEF vars_a, id
<1>12. /\ DOMAIN environments' = DOMAIN environments \cup {a}
       /\ environments'[a].id = id /\ environments'[a].variables = vars_a
       /\ \A b \in DOMAIN environments : b # a => environments'[b] = environments[b]
  BY <1>11 DEF Put
<1>13. \A s \in S : s \in new <=> ~KnownVariable(s, a)
  BY DEF new
<1>14. \A s : s \in new => s \in S /\ ~KnownVariable(s, a)
  BY DEF new
<1>15. \A b, s : KnownVariable(s, b)' <=> KnownVariable(s, b) \/ (b = a /\ s \in S)
  <2> SUFFICES ASSUME NEW b, NEW s
               PROVE  KnownVariable(s, b)' <=> KnownVariable(s, b) \/ (b = a /\ s \in S)
    OBVIOUS
  <2>1. CASE b = a
    <3>1. KnownVariable(s, a)' <=> s \in DOMAIN vars_a
      BY <1>12 DEF KnownVariable, Known
    <3> QED
      BY <2>1, <3>1, <1>7, <1>8, <1>13, <1>14
  <2>2. CASE b # a
    BY <2>2, <1>12 DEF KnownVariable, Known
  <2> QED
    BY <2>1, <2>2
<1>16. \A b, s : KnownVariable(s, b) =>
         environments'[b].variables[s] = environments[b].variables[s]
  <2> SUFFICES ASSUME NEW b, NEW s, KnownVariable(s, b)
               PROVE  environments'[b].variables[s] = environments[b].variables[s]
    OBVIOUS
  <2>1. CASE b = a
    BY <2>1, <1>7, <1>8, <1>9, <1>12, <1>14
  <2>2. CASE b # a
    BY <2>2, <1>12 DEF KnownVariable, Known
  <2> QED
    BY <2>1, <2>2
<1>17. \A s \in S : ~KnownVariable(s, a) => environments'[a].variables[s] = numbers[s]
  BY <1>7, <1>12, <1>13
<1>18. \A b \in DOMAIN environments : environments'[b].id = environments[b].id
  BY <1>10, <1>12 DEF Known
<1>19. a \notin DOMAIN environments =>
         /\ environments'[a].id = environment_id_counter
         /\ environment_id_counter' = environment_id_counter + 1
  BY <1>3, <1>10, <1>12 DEF Known
<1>20. environment_id_counter' \in {environment_id_counter, environment_id_counter + 1}
  BY <1>3
<1>21. \A s \in S : ~KnownVariable(s, a) =>
         environments'[a].variables[s] \in variable_id_counter..(variable_id_counter' - 1)
  BY <1>3, <1>5, <1>13, <1>17
<1>22. \A s, t \in S :
         /\ ~KnownVariable(s, a) /\ ~KnownVariable(t, a)
         /\ environments'[a].variables[s] = environments'[a].variables[t]
         => s = t
  BY <1>6, <1>13, <1>17
<1> QED
  BY <1>3, <1>4, <1>12, <1>15, <1>16, <1>18, <1>19, <1>20, <1>21, <1>22 DEF Extends

LEMMA EnvironmentExtends ==
  ASSUME Numbered, NEW a, NumberEnvironment(a)
  PROVE  Extends({}, a)
<1>0. environment_id_counter \in Nat /\ variable_id_counter \in Nat
  BY DEF Numbered
<1>1. CASE Known(a)
  <2>1. /\ environments' = environments /\ environment_id_counter' = environment_id_counter
        /\ variable_id_counter' = variable_id_counter /\ a \in DOMAIN environments
    BY <1>1 DEF NumberEnvironment, Known
  <2>2. \A b, s : KnownVariable(s, b)' <=> KnownVariable(s, b)
    BY <2>1 DEF KnownVariable, Known
  <2>3. DOMAIN environments' = DOMAIN environments \cup {a}
    BY <2>1
  <2> QED
    BY <1>0, <2>1, <2>2, <2>3 DEF Extends
<1>2. CASE ~Known(a)
  <2>1. /\ environments' = Put(environments, a, [id |-> environment_id_counter, variables |-> EmptyMap])
        /\ environment_id_counter' = environment_id_counter + 1
        /\ variable_id_counter' = variable_id_counter /\ a \notin DOMAIN environments
    BY <1>2 DEF NumberEnvironment, Known
  <2>2. /\ DOMAIN environments' = DOMAIN environments \cup {a}
        /\ environments'[a].id = environment_id_counter /\ environments'[a].variables = EmptyMap
        /\ \A b \in DOMAIN environments : b # a => environments'[b] = environments[b]
    BY <2>1 DEF Put
  <2>3. DOMAIN EmptyMap = {}
    BY DEF EmptyMap
  <2>4. \A b, s : KnownVariable(s, b)' <=> KnownVariable(s, b)
    BY <2>1, <2>2, <2>3 DEF KnownVariable, Known
  <2>5. \A b, s : KnownVariable(s, b) =>
          environments'[b].variables[s] = environments[b].variables[s]
    BY <2>1, <2>2 DEF KnownVariable, Known
  <2>6. \A b \in DOMAIN environments : environments'[b].id = environments[b].id
    BY <2>1, <2>2
  <2> QED
    BY <1>0, <2>1, <2>2, <2>4, <2>5, <2>6 DEF Extends
<1> QED
  BY <1>1, <1>2

(* A single variable is looked up under the id that it then has. *)
LEMMA VariableIdKept ==
  ASSUME Numbered, NEW s \in Symbols, NEW a, NumberVariables({s}, a)
  PROVE  VariableId(s, a) = environments'[a].variables[s]
<1> DEFINE new == {t \in {s} : ~KnownVariable(t, a)}
<1>0. Extends({s}, a)
  BY VariablesExtend
<1>1. CASE KnownVariable(s, a)
  BY <1>0, <1>1 DEF Extends, VariableId
<1>2. CASE ~KnownVariable(s, a)
  <2>1. new = {s}
    BY <1>2
  <2>2. Cardinality(new) = 1
    BY <2>1, FS_Singleton
  <2>3. variable_id_counter' = variable_id_counter + 1
    BY <2>2 DEF NumberVariables
  <2>4. environments'[a].variables[s] \in variable_id_counter..(variable_id_counter' - 1)
    BY <1>0, <1>2 DEF Extends
  <2>5. variable_id_counter \in Nat
    BY DEF Numbered
  <2> QED
    BY <1>2, <2>3, <2>4, <2>5 DEF VariableId
<1> QED
  BY <1>1, <1>2

-----------------------------------------------------------------------------
(* The parts of the invariant are preserved. *)

LEMMA LiveObjects ==
  ASSUME Allocated
  PROVE  /\ \A a \in Live : a \in Addresses /\ heap[a] \in 1..objects /\ heap[a] \in 1..MaxObjects
         /\ objects \in Nat /\ MaxObjects \in Nat
  BY BoundsAssumption DEF Allocated, Live

(* Only variables of an environment that is there change. *)
LEMMA BindingsAllocated ==
  ASSUME Allocated, UNCHANGED <<heap, objects>>, NEW a \in Live, NEW B \in SUBSET Symbols,
         bindings' = [bindings EXCEPT ![heap[a]] = B]
  PROVE  Allocated'
<1>1. bindings' \in [1..objects -> SUBSET Symbols]
  BY DEF Allocated
<1> QED
  BY <1>1 DEF Allocated, Live

LEMMA AllocatedNext ==
  ASSUME Allocated, [Next]_vars
  PROVE  Allocated'
<1>0. ASSUME UNCHANGED <<heap, objects, bindings>>
      PROVE  Allocated'
  BY <1>0 DEF Allocated, Live
<1>1. CASE \/ UNCHANGED vars \/ ContextEntry \/ \E n \in 0..MaxDepth : Leave(n)
           \/ \E p \in Promises : PromiseForceEntry(p)
           \/ \E a \in Addresses : \E p \in Promises : PromiseCreated(p, a)
           \/ \E a \in Addresses : \E s \in Symbols : Lookup(s, a)
  BY <1>0, <1>1 DEF vars, ContextEntry, Leave, PromiseForceEntry, PromiseCreated, Lookup
<1>2. ASSUME NEW a \in Addresses, NewEnvironment(a)
      PROVE  Allocated'
  <2>1. /\ objects \in Nat /\ MaxObjects \in Nat /\ objects < MaxObjects
        /\ objects' = objects + 1
        /\ heap' = [heap EXCEPT ![a] = objects + 1]
        /\ bindings' = Append(bindings, {})
        /\ heap \in [Addresses -> 0..objects]
    BY <1>2, BoundsAssumption DEF Allocated, NewEnvironment
  <2>2. objects' \in 1..MaxObjects
    BY <2>1
  <2>3. heap' \in [Addresses -> 0..objects']
    BY <2>1
  <2>4. bindings' \in [1..objects' -> SUBSET Symbols]
    <3>1. bindings \in Seq(SUBSET Symbols) /\ Len(bindings) = objects
      BY <2>1 DEF Allocated
    <3>2. {} \in SUBSET Symbols
      OBVIOUS
    <3>3. bindings' \in Seq(SUBSET Symbols) /\ Len(bindings') = objects + 1
      BY <2>1, <3>1, <3>2, AppendProperties
    <3> QED
      BY <2>1, <3>3, LenProperties
  <2>5. \A b, c \in Live' : heap'[b] = heap'[c] => b = c
    <3>1. \A b \in Addresses : heap[b] \in 0..objects
      BY <2>1
    <3>2. /\ heap'[a] = objects + 1
          /\ \A b \in Addresses : b # a => heap'[b] = heap[b] /\ heap'[b] # objects + 1
      BY <2>1, <3>1
    <3> QED
      BY <3>2 DEF Allocated, Live
  <2> QED
    BY <2>2, <2>3, <2>4, <2>5 DEF Allocated
<1>3. ASSUME NEW a \in Addresses, GcEnvironmentUnmark(a)
      PROVE  Allocated'
  <2>1. /\ UNCHANGED <<objects, bindings>> /\ heap' = [heap EXCEPT ![a] = 0]
    BY <1>3 DEF GcEnvironmentUnmark
  <2>2. heap' \in [Addresses -> 0..objects]
    BY <2>1, BoundsAssumption DEF Allocated
  <2>3. \A b, c \in Live' : heap'[b] = heap'[c] => b = c
    BY <2>1 DEF Allocated, Live
  <2> QED
    BY <2>1, <2>2, <2>3 DEF Allocated
<1>4. ASSUME NEW a \in Addresses, NEW S \in SUBSET Symbols, ClosureEntry(a, S)
      PROVE  Allocated'
  <2>1. /\ UNCHANGED <<heap, objects>> /\ a \in Live
        /\ bindings' = [bindings EXCEPT ![heap[a]] = bindings[heap[a]] \cup S]
    BY <1>4 DEF ClosureEntry
  <2>2. bindings[heap[a]] \cup S \in SUBSET Symbols
    BY <2>1, LiveObjects DEF Allocated
  <2> QED
    BY <2>1, <2>2, BindingsAllocated
<1>5. ASSUME NEW a \in Addresses, NEW s \in Symbols, NEW kind \in {"defines", "assigns"},
             Write(kind, s, a)
      PROVE  Allocated'
  <2>1. /\ UNCHANGED <<heap, objects>> /\ a \in Live
        /\ bindings' = [bindings EXCEPT ![heap[a]] = bindings[heap[a]] \cup {s}]
    BY <1>5 DEF Write
  <2>2. bindings[heap[a]] \cup {s} \in SUBSET Symbols
    BY <2>1, LiveObjects DEF Allocated
  <2> QED
    BY <2>1, <2>2, BindingsAllocated
<1>6. ASSUME NEW a \in Addresses, NEW s \in Symbols, RemoveVariable(s, a)
      PROVE  Allocated'
  <2>1. /\ UNCHANGED <<heap, objects>> /\ a \in Live
        /\ bindings' = [bindings EXCEPT ![heap[a]] = bindings[heap[a]] \ {s}]
    BY <1>6 DEF RemoveVariable
  <2>2. bindings[heap[a]] \ {s} \in SUBSET Symbols
    BY <2>1, LiveObjects DEF Allocated
  <2> QED
    BY <2>1, <2>2, BindingsAllocated
<1> QED
  BY <1>1, <1>2, <1>3, <1>4, <1>5, <1>6 DEF Next

(* The variables looked up by a step, if it looks any up. *)
LookedUp(S, a) == a \in Live /\ S \in SUBSET Symbols /\ UNCHANGED <<heap, objects>> /\ Extends(S, a)

LEMMA StepsLookUp ==
  ASSUME Numbered, NEW a \in Addresses
  PROVE  /\ \A p \in Promises : PromiseCreated(p, a) => LookedUp({}, a)
         /\ \A S \in SUBSET Symbols : ClosureEntry(a, S) => LookedUp(S, a)
         /\ \A s \in Symbols :
              \/ \E kind \in {"defines", "assigns"} : Write(kind, s, a)
              \/ RemoveVariable(s, a) \/ Lookup(s, a)
              => LookedUp({s}, a)
<1>1. ASSUME NEW p \in Promises, PromiseCreated(p, a)
      PROVE  LookedUp({}, a)
  BY <1>1, EnvironmentExtends DEF PromiseCreated, LookedUp
<1>2. ASSUME NEW S \in SUBSET Symbols, ClosureEntry(a, S)
      PROVE  LookedUp(S, a)
  BY <1>2, VariablesExtend DEF ClosureEntry, LookedUp
<1>3. ASSUME NEW s \in Symbols,
             \/ \E kind \in {"defines", "assigns"} : Write(kind, s, a)
             \/ RemoveVariable(s, a) \/ Lookup(s, a)
      PROVE  LookedUp({s}, a)
  <2>1. /\ a \in Live /\ {s} \in SUBSET Symbols /\ UNCHANGED <<heap, objects>>
        /\ NumberVariables({s}, a)
    BY <1>3 DEF Write, RemoveVariable, Lookup
  <2> QED
    BY <2>1, VariablesExtend DEF LookedUp
<1> QED
  BY <1>1, <1>2, <1>3

LEMMA ExtendsNumbered ==
  ASSUME Numbered, NEW S, NEW a, LookedUp(S, a)
  PROVE  Numbered'
<1> USE DEF LookedUp
<1>1. /\ environment_id_counter \in Nat /\ variable_id_counter \in Nat
      /\ environment_id_counter' \in Nat /\ environment_id_counter' >= environment_id_counter
      /\ variable_id_counter' \in Nat /\ variable_id_counter' >= variable_id_counter
  BY DEF Numbered, Extends
<1>2. DOMAIN environments' = DOMAIN environments \cup {a} /\ DOMAIN environments' \subseteq Live'
  BY DEF Numbered, Extends, Live
<1>3. \A b \in DOMAIN environments' :
        /\ b \in DOMAIN environments \/ b = a
        /\ b \in DOMAIN environments => environments'[b].id = environments[b].id
        /\ b \notin DOMAIN environments =>
             environments'[b].id = environment_id_counter
             /\ environment_id_counter' = environment_id_counter + 1
  BY <1>2 DEF Extends
<1>4. \A b \in DOMAIN environments : environments[b].id \in 0..(environment_id_counter - 1)
  BY DEF Numbered
<1>5. \A b \in DOMAIN environments' : environments'[b].id \in 0..(environment_id_counter' - 1)
  BY <1>1, <1>3, <1>4
<1>6. \A b, c \in DOMAIN environments' : environments'[b].id = environments'[c].id => b = c
  <2>1. \A b, c \in DOMAIN environments : environments[b].id = environments[c].id => b = c
    BY DEF Numbered
  <2>2. \A b \in DOMAIN environments : environments[b].id # environment_id_counter
    BY <1>1, <1>4
  <2> QED
    BY <1>3, <2>1, <2>2
<1>7. \A b, s : KnownVariable(s, b)' <=> KnownVariable(s, b) \/ (b = a /\ s \in S)
  BY DEF Extends
<1>8. \A b, s : KnownVariable(s, b) =>
        /\ environments'[b].variables[s] = environments[b].variables[s]
        /\ environments[b].variables[s] \in 0..(variable_id_counter - 1)
  BY DEF Extends, Numbered
<1>9. \A b, s : KnownVariable(s, b)' /\ ~KnownVariable(s, b) =>
        environments'[b].variables[s] \in variable_id_counter..(variable_id_counter' - 1)
  BY <1>7 DEF Extends
<1>10. \A b \in DOMAIN environments' : DOMAIN environments'[b].variables \subseteq Symbols
  <2>1. \A b \in DOMAIN environments' : \A s \in DOMAIN environments'[b].variables :
          KnownVariable(s, b)'
    BY DEF KnownVariable, Known
  <2>2. \A b, s : KnownVariable(s, b) => s \in Symbols
    BY DEF KnownVariable, Known, Numbered
  <2> QED
    BY <1>7, <2>1, <2>2
<1>11. \A b, s : KnownVariable(s, b)' =>
         environments'[b].variables[s] \in 0..(variable_id_counter' - 1)
  BY <1>1, <1>8, <1>9
<1>12. ASSUME NEW b, NEW c, NEW s, NEW t, KnownVariable(s, b)', KnownVariable(t, c)',
              environments'[b].variables[s] = environments'[c].variables[t]
       PROVE  b = c /\ s = t
  <2>1. KnownVariable(s, b) <=> KnownVariable(t, c)
    BY <1>1, <1>8, <1>9, <1>12
  <2>2. CASE KnownVariable(s, b) /\ KnownVariable(t, c)
    BY <1>8, <1>12, <2>2 DEF Numbered
  <2>3. CASE ~KnownVariable(s, b) /\ ~KnownVariable(t, c)
    BY <1>7, <1>12, <2>3 DEF Extends
  <2> QED
    BY <2>1, <2>2, <2>3
<1> QED
  BY <1>1, <1>2, <1>5, <1>6, <1>10, <1>11, <1>12 DEF Numbered

(* A new environment has a new id and no variables. *)
LEMMA NewEnvironmentNumbered ==
  ASSUME Allocated, Numbered, NEW a \in Addresses, NewEnvironment(a)
  PROVE  /\ Numbered'
         /\ variable_id_counter' = variable_id_counter
         /\ environments'[a].id = environment_id_counter
         /\ \A b, s : KnownVariable(s, b)' <=> KnownVariable(s, b)
         /\ \A b \in DOMAIN environments : b # a /\ b \in DOMAIN environments' /\ environments'[b] = environments[b]
<1>1. /\ environments' = Put(environments, a, [id |-> environment_id_counter, variables |-> EmptyMap])
      /\ environment_id_counter' = environment_id_counter + 1
      /\ variable_id_counter' = variable_id_counter
      /\ a \notin DOMAIN environments /\ environment_id_counter \in Nat
  BY DEF NewEnvironment, Numbered
<1>2. /\ DOMAIN environments' = DOMAIN environments \cup {a}
      /\ environments'[a].id = environment_id_counter
      /\ DOMAIN environments'[a].variables = {}
      /\ \A b \in DOMAIN environments : b # a /\ environments'[b] = environments[b]
  BY <1>1 DEF Put, EmptyMap
<1>3. \A b, s : KnownVariable(s, b)' <=> KnownVariable(s, b)
  BY <1>1, <1>2 DEF KnownVariable, Known
<1>4. \A b, s : KnownVariable(s, b) =>
        environments'[b].variables[s] = environments[b].variables[s]
  BY <1>2 DEF KnownVariable, Known
<1>5. DOMAIN environments' \subseteq Live'
  <2>1. /\ \A b \in Addresses : b # a => heap'[b] = heap[b]
        /\ heap'[a] = objects + 1 /\ objects \in 1..MaxObjects
    BY DEF NewEnvironment, Allocated
  <2> QED
    BY <1>2, <2>1, BoundsAssumption DEF Numbered, Live
<1>6. \A b \in DOMAIN environments' : environments'[b].id \in 0..(environment_id_counter' - 1)
  BY <1>1, <1>2 DEF Numbered
<1>7. \A b, c \in DOMAIN environments' : environments'[b].id = environments'[c].id => b = c
  <2>1. \A b \in DOMAIN environments : environments[b].id # environment_id_counter
    BY <1>1 DEF Numbered
  <2> QED
    BY <1>2, <2>1 DEF Numbered
<1>8. \A b \in DOMAIN environments' : DOMAIN environments'[b].variables \subseteq Symbols
  BY <1>2 DEF Numbered
<1>9. environment_id_counter' \in Nat /\ variable_id_counter' \in Nat
  BY <1>1 DEF Numbered
<1>10. \A b, s : KnownVariable(s, b)' =>
         environments'[b].variables[s] \in 0..(variable_id_counter' - 1)
  BY <1>1, <1>3, <1>4 DEF Numbered
<1>11. \A b, c, s, t :
         /\ KnownVariable(s, b)' /\ KnownVariable(t, c)'
         /\ environments'[b].variables[s] = environments'[c].variables[t]
         => b = c /\ s = t
  BY <1>3, <1>4 DEF Numbered
<1>12. Numbered'
  BY <1>5, <1>6, <1>7, <1>8, <1>9, <1>10, <1>11 DEF Numbered
<1> QED
  BY <1>1, <1>2, <1>3, <1>12

(* A collected environment takes its ids with it. *)
LEMMA GcEnvironmentNumbered ==
  ASSUME Allocated, Numbered, NEW a \in Addresses, GcEnvironmentUnmark(a)
  PROVE  /\ Numbered'
         /\ variable_id_counter' = variable_id_counter
         /\ DOMAIN environments' = DOMAIN environments \ {a}
         /\ \A b \in DOMAIN environments' : environments'[b] = environments[b]
<1>1. /\ DOMAIN environments' = DOMAIN environments \ {a}
      /\ \A b \in DOMAIN environments' : environments'[b] = environments[b]
      /\ environment_id_counter' = environment_id_counter
      /\ variable_id_counter' = variable_id_counter
      /\ heap' = [heap EXCEPT ![a] = 0]
  BY DEF GcEnvironmentUnmark
<1>2. DOMAIN environments' \subseteq Live'
  BY <1>1 DEF Numbered, Live, Allocated
<1>3. \A b, s : KnownVariable(s, b)' =>
        KnownVariable(s, b) /\ environments'[b].variables[s] = environments[b].variables[s]
  BY <1>1 DEF KnownVariable, Known
<1>4. \A b \in DOMAIN environments' :
        /\ environments'[b].id \in 0..(environment_id_counter' - 1)
        /\ DOMAIN environments'[b].variables \subseteq Symbols
  BY <1>1 DEF Numbered
<1>5. \A b, c \in DOMAIN environments' : environments'[b].id = environments'[c].id => b = c
  BY <1>1 DEF Numbered
<1>6. \A b, s : KnownVariable(s, b)' =>
        environments'[b].variables[s] \in 0..(variable_id_counter' - 1)
  BY <1>1, <1>3 DEF Numbered
<1>7. \A b, c, s, t :
        /\ KnownVariable(s, b)' /\ KnownVariable(t, c)'
        /\ environments'[b].variables[s] = environments'[c].variables[t]
        => b = c /\ s = t
  BY <1>3 DEF Numbered
<1>8. Numbered'
  <2>1. environment_id_counter' \in Nat /\ variable_id_counter' \in Nat
    BY <1>1 DEF Numbered
  <2> QED
    BY <1>2, <1>4, <1>5, <1>6, <1>7, <2>1 DEF Numbered
<1> QED
  BY <1>1, <1>8

(* The ids stay one to one. *)
LEMMA NumberedNext ==
  ASSUME Allocated, Numbered, [Next]_vars
  PROVE  Numbered'
<1>0. ASSUME UNCHANGED <<heap, numbering>>
      PROVE  Numbered'
  BY <1>0 DEF numbering, Numbered, Live, KnownVariable, Known
<1>1. CASE \/ UNCHANGED vars \/ ContextEntry \/ \E n \in 0..MaxDepth : Leave(n)
           \/ \E p \in Promises : PromiseForceEntry(p)
  BY <1>0, <1>1 DEF vars, ContextEntry, Leave, PromiseForceEntry
<1>2. ASSUME NEW a \in Addresses, NewEnvironment(a) \/ GcEnvironmentUnmark(a)
      PROVE  Numbered'
  BY <1>2, NewEnvironmentNumbered, GcEnvironmentNumbered
<1>3. ASSUME NEW a \in Addresses,
             \/ \E p \in Promises : PromiseCreated(p, a)
             \/ \E S \in SUBSET Symbols : ClosureEntry(a, S)
             \/ \E s \in Symbols :
                  \/ \E kind \in {"defines", "assigns"} : Write(kind, s, a)
                  \/ RemoveVariable(s, a) \/ Lookup(s, a)
      PROVE  Numbered'
  <2>1. \E S : LookedUp(S, a)
    BY <1>3, StepsLookUp
  <2> QED
    BY <2>1, ExtendsNumbered
<1> QED
  BY <1>1, <1>2, <1>3 DEF Next

-----------------------------------------------------------------------------
(* The counters. *)

(* What CountAction leaves behind. *)
LEMMA CountActionCounts ==
  ASSUME Counting, NEW kind \in Kinds, NEW a, CountAction(kind, a)
  PROVE  /\ DOMAIN counts' = Scopes
         /\ \A scope \in Scopes : counts'[scope] \in [Kinds -> Nat]
         /\ \A scope \in Scopes : \A k \in Kinds :
              counts'[scope][k] = IF k = kind /\ scope \in CountedAs(a) THEN counts[scope][k] + 1
                                  ELSE counts[scope][k]
<1>0. clock \in Nat /\ counts \in [Scopes -> [Kinds -> 0..clock]]
  BY BoundsAssumption DEF Counting
<1>1. counts' = [scope \in Scopes |-> [counts[scope] EXCEPT
                   ![kind] = IF scope \in CountedAs(a) THEN counts[scope][kind] + 1
                             ELSE counts[scope][kind]]]
  BY DEF CountAction
<1>2. DOMAIN counts' = Scopes
  BY <1>1
<1>3. ASSUME NEW scope \in Scopes
      PROVE  /\ counts'[scope] \in [Kinds -> Nat]
             /\ \A k \in Kinds :
                  counts'[scope][k] = IF k = kind /\ scope \in CountedAs(a) THEN counts[scope][k] + 1
                                      ELSE counts[scope][k]
  <2> DEFINE c == counts[scope]
             n == IF scope \in CountedAs(a) THEN c[kind] + 1 ELSE c[kind]
  <2>1. counts'[scope] = [c EXCEPT ![kind] = n]
    BY <1>1
  <2>2. c \in [Kinds -> Nat] /\ n \in Nat
    <3>1. c \in [Kinds -> 0..clock]
      BY <1>0
    <3>2. 0..clock \subseteq Nat
      BY <1>0
    <3> QED
      BY <3>1, <3>2
  <2>3. n = IF scope \in CountedAs(a) THEN c[kind] + 1 ELSE c[kind]
    OBVIOUS
  <2> HIDE DEF c, n
  <2>4. counts'[scope] \in [Kinds -> Nat] /\ \A k \in Kinds : counts'[scope][k] = IF k = kind THEN n ELSE c[k]
    BY <2>1, <2>2
  <2>5. \A k \in Kinds :
          counts'[scope][k] = IF k = kind /\ scope \in CountedAs(a) THEN c[k] + 1 ELSE c[k]
    BY <2>3, <2>4
  <2> QED
    BY <2>4, <2>5 DEF c
<1> QED
  BY <1>2, <1>3

LEMMA CountingGrows ==
  ASSUME Counting, NEW kind \in Kinds, NEW a, CountAction(kind, a), Tick
  PROVE  Counting'
<1>1. clock \in Nat /\ clock' = clock + 1 /\ clock' \in 0..MaxActions
  BY BoundsAssumption DEF Counting, Tick
<1>2. \A scope \in Scopes : \A k \in Kinds : counts[scope][k] \in 0..clock
  BY DEF Counting
<1>3. \A scope \in Scopes : \A k \in Kinds : counts'[scope][k] \in 0..clock'
  BY <1>1, <1>2, CountActionCounts
<1>4. counts' \in [Scopes -> [Kinds -> 0..clock']]
  <2>1. \A scope \in Scopes : counts'[scope] \in [Kinds -> 0..clock']
    <3>1. \A scope \in Scopes : counts'[scope] \in [Kinds -> Nat]
      BY CountActionCounts
    <3> QED
      BY <1>3, <3>1
  <2>2. counts' = [scope \in Scopes |-> counts'[scope]]
    BY DEF CountAction
  <2> HIDE DEF CountAction
  <2> QED
    BY <2>1, <2>2
<1> QED
  BY <1>1, <1>4 DEF Counting

LEMMA CountingKept ==
  ASSUME Counting, UNCHANGED counts, clock' = clock \/ Tick
  PROVE  Counting'
<1>1. clock \in Nat /\ clock' \in 0..MaxActions /\ clock' >= clock
  BY BoundsAssumption DEF Counting, Tick
<1>2. \A n \in Nat : \A m \in Nat : n <= m => 0..n \subseteq 0..m
  OBVIOUS
<1>3. 0..clock \subseteq 0..clock'
  BY <1>1, <1>2, BoundsAssumption
<1>4. counts \in [Scopes -> [Kinds -> 0..clock']]
  BY <1>3 DEF Counting
<1> QED
  BY <1>1, <1>4 DEF Counting

(* The actions on a variable. *)
Acts(kind, s, a) ==
  \/ kind \in {"defines", "assigns"} /\ Write(kind, s, a)
  \/ kind = "removals" /\ RemoveVariable(s, a)
  \/ kind = "lookups" /\ Lookup(s, a)

LEMMA ActsCount ==
  ASSUME NEW kind, NEW s, NEW a, Acts(kind, s, a)
  PROVE  kind \in Kinds /\ CountAction(kind, a) /\ CauseTruly(kind, a) /\ Tick
         /\ created' = created
  BY DEF Acts, Kinds, Write, RemoveVariable, Lookup

(* A step is an action on a variable, or it counts nothing. *)
LEMMA StepKinds ==
  ASSUME [Next]_vars
  PROVE  \/ \E kind, s, a : Acts(kind, s, a)
         \/ UNCHANGED <<counts, clock>>
<1>1. ASSUME NEW a \in Addresses, NEW s \in Symbols,
             \/ \E kind \in {"defines", "assigns"} : Write(kind, s, a)
             \/ RemoveVariable(s, a) \/ Lookup(s, a)
      PROVE  \E kind, t, b : Acts(kind, t, b)
  BY <1>1 DEF Acts
<1>2. ASSUME NEW a \in Addresses, NEW p \in Promises, PromiseCreated(p, a)
      PROVE  UNCHANGED <<counts, clock>>
  BY <1>2 DEF PromiseCreated
<1>3. CASE \/ UNCHANGED vars \/ ContextEntry \/ \E n \in 0..MaxDepth : Leave(n)
           \/ \E p \in Promises : PromiseForceEntry(p)
           \/ \E a \in Addresses : NewEnvironment(a) \/ GcEnvironmentUnmark(a)
           \/ \E a \in Addresses : \E S \in SUBSET Symbols : ClosureEntry(a, S)
  BY <1>3 DEF vars, analysis, ContextEntry, Leave, PromiseForceEntry, NewEnvironment,
     GcEnvironmentUnmark, ClosureEntry
<1> QED
  BY <1>1, <1>2, <1>3 DEF Next

LEMMA CountingNext ==
  ASSUME Counting, [Next]_vars
  PROVE  Counting'
  BY StepKinds, ActsCount, CountingGrows, CountingKept

LEMMA StepCountsOnce ==
  ASSUME Counting, [Next]_vars
  PROVE  CountsOnce
<1>1. CASE UNCHANGED <<counts, clock>>
  BY <1>1 DEF CountsOnce, VariableAction
<1>2. ASSUME NEW kind, NEW s, NEW a, Acts(kind, s, a)
      PROVE  CountsOnce
  <2>1. kind \in Kinds /\ CountAction(kind, a) /\ last'.kind = kind /\ last'.scope = TrueScope(a)
    BY <1>2, ActsCount DEF CauseTruly
  <2>2. VariableAction
    <3>1. clock \in Nat /\ clock' = clock + 1
      BY <1>2, ActsCount, BoundsAssumption DEF Counting, Tick
    <3> QED
      BY <3>1 DEF VariableAction
  <2>3. /\ CountedAs(a) \in SUBSET Scopes
        /\ Cardinality(CountedAs(a)) = Cardinality(TrueScope(a))
    <3>1. /\ Cardinality({"global"}) = 1 /\ Cardinality({"promise"}) = 1
          /\ Cardinality({"function"}) = 1
      BY FS_Singleton
    <3>2. {"promise"} \in SUBSET Scopes
      BY DEF Scopes
    <3>3. CASE Innermost = <<>>
      BY <3>1, <3>2, <3>3 DEF CountedAs, TrueScope, GLOBAL
    <3>4. CASE Innermost # <<>> /\ Innermost[1].type = "PROMISE"
      BY <3>1, <3>2, <3>4 DEF CountedAs, TrueScope, PROMISE
    <3>5. CASE Innermost # <<>> /\ Innermost[1].type # "PROMISE"
      BY <3>1, <3>2, <3>5 DEF CountedAs, TrueScope, FUNCTION
    <3> QED
      BY <3>3, <3>4, <3>5
  <2>4. ASSUME NEW scope \in Scopes, NEW k \in Kinds
        PROVE  counts'[scope][k] =
                 counts[scope][k] + (IF scope \in CountedAs(a) /\ k = last'.kind THEN 1 ELSE 0)
    <3>1. counts[scope][k] \in 0..clock
      BY DEF Counting
    <3>2. counts'[scope][k] = IF k = kind /\ scope \in CountedAs(a) THEN counts[scope][k] + 1
                              ELSE counts[scope][k]
      BY <2>1, CountActionCounts
    <3> QED
      BY <2>1, <3>1, <3>2
  <2> QED
    BY <2>1, <2>2, <2>3, <2>4 DEF CountsOnce
<1> QED
  BY <1>1, <1>2, StepKinds

-----------------------------------------------------------------------------
(* The two clocks. *)

LEMMA RangeGrows ==
  ASSUME NEW m \in Nat, NEW k \in Nat, m <= k
  PROVE  \A n \in 0..(m - 1) : n \in 0..(k - 1)
  OBVIOUS

times == <<timestamp, promise_timestamps, variable_timestamps, created, written>>

(* What the counters were when a time was taken they have since passed. *)
LEMMA TimedKept ==
  ASSUME Counting, Counting', Numbered, Timed, UNCHANGED times, clock' \in {clock, clock + 1},
         objects \in Nat, objects' \in Nat, objects' >= objects,
         variable_id_counter' \in Nat, variable_id_counter' >= variable_id_counter
  PROVE  Timed'
<1>1. /\ clock \in Nat /\ clock' \in Nat /\ clock' >= clock
      /\ variable_id_counter \in Nat /\ MaxObjects \in Nat
  BY BoundsAssumption DEF Counting, Numbered
<1>2. /\ timestamp' = timestamp /\ promise_timestamps' = promise_timestamps
      /\ variable_timestamps' = variable_timestamps /\ created' = created /\ written' = written
  BY DEF times
<1>3. timestamp' \in Nat
  BY <1>2 DEF Timed
<1>4. \A p \in DOMAIN created :
        created[p] \in 0..clock' /\ promise_timestamps[p] \in 0..(timestamp - 1)
  <2>1. \A n \in 0..clock : n \in 0..clock'
    BY <1>1
  <2> QED
    BY <2>1 DEF Timed
<1>5. \A i \in DOMAIN variable_timestamps :
        i \in 0..(variable_id_counter' - 1) /\ variable_timestamps[i] \in 0..(timestamp - 1)
  <2>1. \A n \in 0..(variable_id_counter - 1) : n \in 0..(variable_id_counter' - 1)
    BY <1>1, RangeGrows
  <2> QED
    BY <2>1 DEF Timed
<1>6. written \in [1..MaxObjects -> [Symbols -> 0..clock']]
  <2>1. 0..clock \subseteq 0..clock'
    BY <1>1
  <2> QED
    BY <2>1 DEF Timed
<1>7. \A o \in 1..MaxObjects : o > objects' => \A s \in Symbols : written[o][s] = Never
  BY <1>1 DEF Timed
<1> QED
  BY <1>2, <1>3, <1>4, <1>5, <1>6, <1>7 DEF Timed

(* A promise is created after all that was written. *)
LEMMA CreationTimed ==
  ASSUME Allocated, Counting, Counting', Numbered, Timed,
         NEW p \in Promises, NEW a \in Addresses, PromiseCreated(p, a)
  PROVE  /\ Timed'
         /\ DOMAIN created' = DOMAIN created \cup {p} /\ p \notin DOMAIN created
         /\ \A q \in DOMAIN created :
              created'[q] = created[q] /\ promise_timestamps'[q] = promise_timestamps[q]
         /\ created'[p] = clock /\ promise_timestamps'[p] = timestamp
<1>1. /\ clock \in Nat /\ timestamp \in Nat /\ variable_id_counter \in Nat
      /\ MaxObjects \in Nat
  BY BoundsAssumption DEF Counting, Timed, Numbered
<1>2. /\ clock' = clock /\ timestamp' = timestamp + 1 /\ p \notin DOMAIN created
      /\ created' = Put(created, p, clock)
      /\ promise_timestamps' = Put(promise_timestamps, p, timestamp)
      /\ written' = written /\ variable_timestamps' = variable_timestamps /\ objects' = objects
  BY DEF PromiseCreated
<1>3. /\ DOMAIN created' = DOMAIN created \cup {p}
      /\ DOMAIN promise_timestamps' = DOMAIN promise_timestamps \cup {p}
      /\ created'[p] = clock /\ promise_timestamps'[p] = timestamp
      /\ \A q \in DOMAIN created : q # p => created'[q] = created[q]
      /\ \A q \in DOMAIN promise_timestamps : q # p =>
           promise_timestamps'[q] = promise_timestamps[q]
  BY <1>2 DEF Put
<1>4. DOMAIN created = DOMAIN promise_timestamps /\ DOMAIN created \subseteq Promises
  BY DEF Timed
<1>5. \A q \in DOMAIN created :
        created'[q] = created[q] /\ promise_timestamps'[q] = promise_timestamps[q]
  BY <1>2, <1>3, <1>4
<1>6. \A q \in DOMAIN created' :
        created'[q] \in 0..clock' /\ promise_timestamps'[q] \in 0..(timestamp' - 1)
  <2>1. \A q \in DOMAIN created :
          created[q] \in 0..clock /\ promise_timestamps[q] \in 0..(timestamp - 1)
    BY DEF Timed
  <2>2. /\ \A n \in 0..(timestamp - 1) : n \in 0..((timestamp + 1) - 1)
        /\ clock \in 0..clock /\ timestamp \in 0..((timestamp + 1) - 1)
    BY <1>1
  <2> QED
    BY <1>2, <1>3, <1>5, <2>1, <2>2
<1>7. variable_id_counter' \in Nat /\ variable_id_counter' >= variable_id_counter
  BY <1>1, EnvironmentExtends DEF PromiseCreated, Extends
<1>8. \A i \in DOMAIN variable_timestamps' :
        i \in 0..(variable_id_counter' - 1) /\ variable_timestamps'[i] \in 0..(timestamp' - 1)
  <2>1. \A n \in 0..(timestamp - 1) : n \in 0..((timestamp + 1) - 1)
    BY <1>1
  <2>2. \A n \in 0..(variable_id_counter - 1) : n \in 0..(variable_id_counter' - 1)
    BY <1>1, <1>7, RangeGrows
  <2> QED
    BY <1>2, <2>1, <2>2 DEF Timed
<1>9. written \in [1..MaxObjects -> [Symbols -> 0..clock']]
  <2>1. 0..clock \subseteq 0..clock'
    BY <1>1, <1>2
  <2> QED
    BY <2>1 DEF Timed
<1>10. timestamp' \in Nat
  BY <1>1, <1>2
<1>11. \A o \in 1..MaxObjects : o > objects' => \A s \in Symbols : written'[o][s] = Never
  BY <1>2 DEF Timed
<1>12. Timed'
  BY <1>2, <1>3, <1>4, <1>6, <1>8, <1>9, <1>10, <1>11 DEF Timed
<1> QED
  BY <1>2, <1>3, <1>5, <1>12

(* A variable is written later than every promise was created. *)
LEMMA WriteTimed ==
  ASSUME Allocated, Counting, Counting', Numbered, Numbered', Timed, NEW s \in Symbols,
         NEW a \in Addresses, NEW kind \in {"defines", "assigns"}, Write(kind, s, a)
  PROVE  LET i == environments'[a].variables[s] IN
         /\ Timed'
         /\ created' = created /\ promise_timestamps' = promise_timestamps
         /\ DOMAIN variable_timestamps' = DOMAIN variable_timestamps \cup {i}
         /\ variable_timestamps'[i] = timestamp
         /\ \A j \in DOMAIN variable_timestamps : j # i =>
              variable_timestamps'[j] = variable_timestamps[j]
         /\ written'[heap[a]][s] = clock + 1
         /\ \A b \in Live : \A t \in Symbols : b # a \/ t # s =>
              written'[heap[b]][t] = written[heap[b]][t]
<1> DEFINE i == environments'[a].variables[s]
<1>1. /\ clock \in Nat /\ timestamp \in Nat /\ variable_id_counter \in Nat
      /\ MaxObjects \in Nat
  BY BoundsAssumption DEF Counting, Timed, Numbered
<1>2. /\ clock' = clock + 1 /\ timestamp' = timestamp + 1 /\ a \in Live
      /\ variable_timestamps' = Put(variable_timestamps, VariableId(s, a), timestamp)
      /\ written' = [written EXCEPT ![heap[a]][s] = clock + 1]
      /\ created' = created /\ promise_timestamps' = promise_timestamps /\ objects' = objects
      /\ NumberVariables({s}, a)
  BY DEF Write, Tick, StampVariable
<1>3. VariableId(s, a) = i
  BY <1>2, VariableIdKept
<1>4. /\ i \in 0..(variable_id_counter' - 1)
      /\ variable_id_counter' \in Nat /\ variable_id_counter' >= variable_id_counter
  <2>1. Extends({s}, a)
    BY <1>2, VariablesExtend
  <2>2. KnownVariable(s, a)'
    BY <2>1 DEF Extends
  <2> QED
    BY <2>1, <2>2 DEF Extends, Numbered
<1> HIDE DEF i
<1>5. /\ DOMAIN variable_timestamps' = DOMAIN variable_timestamps \cup {i}
      /\ variable_timestamps'[i] = timestamp
      /\ \A j \in DOMAIN variable_timestamps : j # i =>
           variable_timestamps'[j] = variable_timestamps[j]
  BY <1>2, <1>3 DEF Put
<1>6. heap[a] \in 1..MaxObjects /\ heap[a] \in 1..objects /\ objects \in Nat
  BY <1>2, LiveObjects
<1>7. written \in [1..MaxObjects -> [Symbols -> 0..clock]]
  BY DEF Timed
<1>8. written' \in [1..MaxObjects -> [Symbols -> 0..clock']]
  <2> DEFINE T == 0..(clock + 1)
  <2>1. 0..clock \subseteq T /\ clock + 1 \in T
    BY <1>1
  <2>2. written \in [1..MaxObjects -> [Symbols -> T]]
    BY <1>7, <2>1
  <2> HIDE DEF T
  <2>3. written' \in [1..MaxObjects -> [Symbols -> T]]
    BY <1>2, <1>6, <2>1, <2>2
  <2> QED
    BY <1>2, <2>3 DEF T
<1>9. /\ written'[heap[a]][s] = clock + 1
      /\ \A o \in 1..MaxObjects : \A t \in Symbols : o # heap[a] \/ t # s =>
           written'[o][t] = written[o][t]
  BY <1>2, <1>6, <1>7
<1>10. \A b \in Live : \A t \in Symbols : b # a \/ t # s =>
         written'[heap[b]][t] = written[heap[b]][t]
  <2>1. \A b \in Live : heap[b] \in 1..MaxObjects /\ (heap[b] = heap[a] => b = a)
    BY <1>2, LiveObjects DEF Allocated
  <2> QED
    BY <1>9, <2>1
<1>11. \A p \in DOMAIN created' :
         created'[p] \in 0..clock' /\ promise_timestamps'[p] \in 0..(timestamp' - 1)
  <2>1. /\ \A n \in 0..clock : n \in 0..(clock + 1)
        /\ \A n \in 0..(timestamp - 1) : n \in 0..((timestamp + 1) - 1)
    BY <1>1
  <2> QED
    BY <1>2, <2>1 DEF Timed
<1>12. \A j \in DOMAIN variable_timestamps' :
         j \in 0..(variable_id_counter' - 1) /\ variable_timestamps'[j] \in 0..(timestamp' - 1)
  <2>1. /\ \A n \in 0..(timestamp - 1) : n \in 0..((timestamp + 1) - 1)
        /\ timestamp \in 0..((timestamp + 1) - 1)
    BY <1>1
  <2>2. \A n \in 0..(variable_id_counter - 1) : n \in 0..(variable_id_counter' - 1)
    BY <1>1, <1>4, RangeGrows
  <2>3. \A j \in DOMAIN variable_timestamps :
          j \in 0..(variable_id_counter - 1) /\ variable_timestamps[j] \in 0..(timestamp - 1)
    BY DEF Timed
  <2> QED
    BY <1>2, <1>4, <1>5, <2>1, <2>2, <2>3
<1>13. \A o \in 1..MaxObjects : o > objects' => \A t \in Symbols : written'[o][t] = Never
  <2>1. \A o \in 1..MaxObjects : o > objects => o # heap[a]
    BY <1>1, <1>6
  <2> QED
    BY <1>2, <1>9, <2>1 DEF Timed
<1>14. timestamp' \in Nat
  BY <1>1, <1>2
<1>15. Timed'
  BY <1>2, <1>8, <1>11, <1>12, <1>13, <1>14 DEF Timed
<1> QED
  BY <1>2, <1>5, <1>9, <1>10, <1>15 DEF i

LEMMA TimedNext ==
  ASSUME Allocated, Counting, Counting', Numbered, Numbered', Timed, [Next]_vars
  PROVE  Timed'
<1>0. objects \in Nat /\ variable_id_counter \in Nat
  BY LiveObjects DEF Numbered
<1>1. CASE \/ UNCHANGED vars \/ ContextEntry \/ \E n \in 0..MaxDepth : Leave(n)
           \/ \E p \in Promises : PromiseForceEntry(p)
  <2>1. UNCHANGED times /\ clock' = clock /\ objects' = objects
        /\ variable_id_counter' = variable_id_counter
    BY <1>1 DEF vars, truth, analysis, numbering, times, ContextEntry, Leave, PromiseForceEntry
  <2> QED
    BY <1>0, <2>1, TimedKept
<1>2. ASSUME NEW a \in Addresses, NewEnvironment(a) \/ GcEnvironmentUnmark(a)
      PROVE  Timed'
  <2>1. UNCHANGED times /\ clock' = clock /\ objects' \in {objects, objects + 1}
        /\ variable_id_counter' = variable_id_counter
    BY <1>2 DEF truth, analysis, times, NewEnvironment, GcEnvironmentUnmark
  <2> QED
    BY <1>0, <2>1, TimedKept
<1>3. ASSUME NEW a \in Addresses, NEW S, LookedUp(S, a), UNCHANGED times,
             clock' \in {clock, clock + 1}
      PROVE  Timed'
  <2>1. objects' = objects /\ variable_id_counter' \in Nat
        /\ variable_id_counter' >= variable_id_counter
    BY <1>3 DEF LookedUp, Extends
  <2> QED
    BY <1>0, <1>3, <2>1, TimedKept
<1>4. ASSUME NEW a \in Addresses, NEW S \in SUBSET Symbols, ClosureEntry(a, S)
      PROVE  Timed'
  <2>1. LookedUp(S, a) /\ UNCHANGED times /\ clock' = clock
    BY <1>4, StepsLookUp DEF ClosureEntry, truth, analysis, times
  <2> QED
    BY <1>3, <2>1
<1>5. ASSUME NEW a \in Addresses, NEW s \in Symbols, RemoveVariable(s, a) \/ Lookup(s, a)
      PROVE  Timed'
  <2>1. LookedUp({s}, a)
    BY <1>5, StepsLookUp
  <2>2. UNCHANGED times /\ clock' = clock + 1
    BY <1>5 DEF RemoveVariable, Lookup, Tick, times
  <2> QED
    BY <1>3, <2>1, <2>2
<1>6. ASSUME NEW a \in Addresses, NEW p \in Promises, PromiseCreated(p, a)
      PROVE  Timed'
  BY <1>6, CreationTimed
<1>7. ASSUME NEW a \in Addresses, NEW s \in Symbols, NEW kind \in {"defines", "assigns"},
             Write(kind, s, a)
      PROVE  Timed'
  BY <1>7, WriteTimed
<1> QED
  BY <1>1, <1>2, <1>4, <1>5, <1>6, <1>7 DEF Next

-----------------------------------------------------------------------------
(* The stamps of the variables. *)

(* Ids that were never given are not stamped. *)
LEMMA NewIdsUnstamped ==
  ASSUME Numbered, Timed, NEW i, i \in DOMAIN variable_timestamps
  PROVE  i \in Nat /\ i < variable_id_counter
  BY DEF Numbered, Timed

(* Variables are looked up, and nothing is written. *)
LEMMA LookingUpStamped ==
  ASSUME Numbered, Timed, Stamped, NEW S, NEW a, LookedUp(S, a),
         UNCHANGED <<variable_timestamps, written>>,
         \A b \in Live : \A s \in Symbols : \A p \in DOMAIN created' :
           KnownVariable(s, b) /\ environments[b].variables[s] \in DOMAIN variable_timestamps =>
             LET i == environments[b].variables[s] IN
             promise_timestamps'[p] < variable_timestamps[i] <=> created'[p] < written[heap[b]][s]
  PROVE  Stamped'
<1>0. Live' = Live /\ heap' = heap /\ written' = written
      /\ variable_timestamps' = variable_timestamps /\ S \in SUBSET Symbols
  BY DEF LookedUp, Live
<1>1. /\ \A b, s : KnownVariable(s, b)' <=> KnownVariable(s, b) \/ (b = a /\ s \in S)
      /\ \A b, s : KnownVariable(s, b) =>
           environments'[b].variables[s] = environments[b].variables[s]
      /\ \A s \in S : ~KnownVariable(s, a) =>
           environments'[a].variables[s] \in variable_id_counter..(variable_id_counter' - 1)
  BY DEF LookedUp, Extends
<1> SUFFICES ASSUME NEW b \in Live, NEW s \in Symbols
             PROVE  IF KnownVariable(s, b)' THEN StampTrue(s, b)' ELSE written[heap[b]][s] = Never
  BY <1>0 DEF Stamped
<1>2. CASE KnownVariable(s, b)
  <2> DEFINE i == environments[b].variables[s]
  <2>1. KnownVariable(s, b)' /\ environments'[b].variables[s] = i
    BY <1>1, <1>2
  <2>2. i \in DOMAIN variable_timestamps <=> written[heap[b]][s] # Never
    BY <1>2 DEF Stamped, StampTrue
  <2>3. i \in DOMAIN variable_timestamps =>
          \A p \in DOMAIN created' :
            promise_timestamps'[p] < variable_timestamps[i] <=> created'[p] < written[heap[b]][s]
    BY <1>2
  <2> HIDE DEF i
  <2> QED
    BY <1>0, <2>1, <2>2, <2>3 DEF StampTrue
<1>3. CASE ~KnownVariable(s, b)
  <2>1. written[heap[b]][s] = Never
    BY <1>3 DEF Stamped
  <2>2. ASSUME KnownVariable(s, b)' PROVE StampTrue(s, b)'
    <3>1. environments'[b].variables[s] \in variable_id_counter..(variable_id_counter' - 1)
      BY <1>1, <1>3, <2>2
    <3>2. variable_id_counter \in Nat
      BY DEF Numbered
    <3>3. environments'[b].variables[s] \notin DOMAIN variable_timestamps
      BY <3>1, <3>2, NewIdsUnstamped
    <3> QED
      BY <1>0, <2>1, <3>3 DEF StampTrue
  <2> QED
    BY <2>1, <2>2
<1> QED
  BY <1>2, <1>3

LEMMA WriteStamped ==
  ASSUME Allocated, Counting, Counting', Numbered, Numbered', Timed, Stamped, NEW s \in Symbols,
         NEW a \in Addresses, NEW kind \in {"defines", "assigns"}, Write(kind, s, a)
  PROVE  Stamped'
<1> DEFINE i == environments'[a].variables[s]
<1>0. Live' = Live /\ heap' = heap /\ LookedUp({s}, a) /\ a \in Live
  BY StepsLookUp DEF Write, Live
<1>1. /\ created' = created /\ promise_timestamps' = promise_timestamps
      /\ DOMAIN variable_timestamps' = DOMAIN variable_timestamps \cup {i}
      /\ variable_timestamps'[i] = timestamp
      /\ \A j \in DOMAIN variable_timestamps : j # i =>
           variable_timestamps'[j] = variable_timestamps[j]
      /\ written'[heap[a]][s] = clock + 1
      /\ \A b \in Live : \A t \in Symbols : b # a \/ t # s =>
           written'[heap[b]][t] = written[heap[b]][t]
  BY WriteTimed
<1>2. /\ \A b, t : KnownVariable(t, b)' <=> KnownVariable(t, b) \/ (b = a /\ t = s)
      /\ \A b, t : KnownVariable(t, b) =>
           environments'[b].variables[t] = environments[b].variables[t]
  BY <1>0 DEF LookedUp, Extends
<1>3. KnownVariable(s, a)'
  BY <1>2
<1> SUFFICES ASSUME NEW b \in Live, NEW t \in Symbols
             PROVE  IF KnownVariable(t, b)' THEN StampTrue(t, b)'
                    ELSE written'[heap[b]][t] = Never
  BY <1>0 DEF Stamped
<1>4. CASE b = a /\ t = s
  <2>1. clock \in Nat /\ timestamp \in Nat
    BY BoundsAssumption DEF Counting, Timed
  <2>2. \A p \in DOMAIN created : created[p] \in 0..clock /\ promise_timestamps[p] \in 0..(timestamp - 1)
    BY DEF Timed
  <2>3. \A p \in DOMAIN created : created[p] < clock + 1 /\ promise_timestamps[p] < timestamp
    BY <2>1, <2>2
  <2>4. clock + 1 # Never
    BY <2>1 DEF Never
  <2> HIDE DEF i
  <2>5. environments'[b].variables[t] = i
    BY <1>4 DEF i
  <2> QED
    BY <1>0, <1>1, <1>3, <1>4, <2>3, <2>4, <2>5 DEF StampTrue
<1>5. CASE (b # a \/ t # s) /\ KnownVariable(t, b)
  <2> DEFINE j == environments[b].variables[t]
  <2>1. KnownVariable(t, b)' /\ environments'[b].variables[t] = j
    BY <1>2, <1>5
  <2>2. j # i
    BY <1>3, <1>5, <2>1 DEF Numbered
  <2>3. /\ j \in DOMAIN variable_timestamps <=> written[heap[b]][t] # Never
        /\ j \in DOMAIN variable_timestamps =>
             \A p \in DOMAIN created :
               promise_timestamps[p] < variable_timestamps[j] <=> created[p] < written[heap[b]][t]
    BY <1>5 DEF Stamped, StampTrue
  <2>4. written'[heap[b]][t] = written[heap[b]][t]
    BY <1>1, <1>5
  <2> HIDE DEF i, j
  <2> QED
    BY <1>0, <1>1, <2>1, <2>2, <2>3, <2>4 DEF StampTrue
<1>6. CASE (b # a \/ t # s) /\ ~KnownVariable(t, b)
  <2>1. ~KnownVariable(t, b)' /\ written'[heap[b]][t] = written[heap[b]][t]
    BY <1>1, <1>2, <1>6
  <2> QED
    BY <1>6, <2>1 DEF Stamped
<1> QED
  BY <1>4, <1>5, <1>6

LEMMA NewEnvironmentStamped ==
  ASSUME Allocated, Numbered, Timed, Stamped, NEW a \in Addresses, NewEnvironment(a)
  PROVE  Stamped'
<1>1. /\ objects < MaxObjects /\ objects \in Nat /\ MaxObjects \in Nat
      /\ a \notin Live /\ heap' = [heap EXCEPT ![a] = objects + 1]
      /\ written' = written /\ created' = created
      /\ promise_timestamps' = promise_timestamps /\ variable_timestamps' = variable_timestamps
  BY LiveObjects DEF NewEnvironment, truth, analysis
<1>2. heap'[a] = objects + 1 /\ \A b \in Addresses : b # a => heap'[b] = heap[b]
  BY <1>1 DEF Allocated
<1>3. Live' = Live \cup {a}
  BY <1>1, <1>2 DEF Live
<1>4. /\ \A b, s : KnownVariable(s, b)' <=> KnownVariable(s, b)
      /\ \A b \in DOMAIN environments : b # a /\ environments'[b] = environments[b]
  BY NewEnvironmentNumbered
<1> SUFFICES ASSUME NEW b \in Live', NEW s \in Symbols
             PROVE  IF KnownVariable(s, b)' THEN StampTrue(s, b)'
                    ELSE written[heap'[b]][s] = Never
  BY <1>1 DEF Stamped
<1>5. CASE b = a
  <2>1. ~KnownVariable(s, b)'
    BY <1>4, <1>5 DEF KnownVariable, Known
  <2>2. written[objects + 1][s] = Never
    BY <1>1 DEF Timed
  <2> QED
    BY <1>2, <1>5, <2>1, <2>2
<1>6. CASE b # a
  <2>1. b \in Live /\ heap'[b] = heap[b]
    BY <1>2, <1>3, <1>6 DEF Live
  <2>2. KnownVariable(s, b) => environments'[b] = environments[b]
    BY <1>4 DEF KnownVariable, Known
  <2>3. IF KnownVariable(s, b) THEN StampTrue(s, b) ELSE written[heap[b]][s] = Never
    BY <2>1 DEF Stamped
  <2> QED
    BY <1>1, <1>4, <2>1, <2>2, <2>3 DEF StampTrue
<1> QED
  BY <1>5, <1>6

LEMMA GcEnvironmentStamped ==
  ASSUME Allocated, Numbered, Stamped, NEW a \in Addresses, GcEnvironmentUnmark(a)
  PROVE  Stamped'
<1>1. /\ heap' = [heap EXCEPT ![a] = 0]
      /\ written' = written /\ created' = created
      /\ promise_timestamps' = promise_timestamps /\ variable_timestamps' = variable_timestamps
  BY DEF GcEnvironmentUnmark, truth, analysis
<1>2. /\ DOMAIN environments' = DOMAIN environments \ {a}
      /\ \A b \in DOMAIN environments' : environments'[b] = environments[b]
  BY GcEnvironmentNumbered
<1> SUFFICES ASSUME NEW b \in Live', NEW s \in Symbols
             PROVE  IF KnownVariable(s, b)' THEN StampTrue(s, b)'
                    ELSE written[heap'[b]][s] = Never
  BY <1>1 DEF Stamped
<1>3. b \in Live /\ b # a /\ heap'[b] = heap[b]
  BY <1>1 DEF Live, Allocated
<1>4. /\ KnownVariable(s, b)' <=> KnownVariable(s, b)
      /\ KnownVariable(s, b) => environments'[b] = environments[b]
  BY <1>2, <1>3 DEF KnownVariable, Known
<1>5. IF KnownVariable(s, b) THEN StampTrue(s, b) ELSE written[heap[b]][s] = Never
  BY <1>3 DEF Stamped
<1> QED
  BY <1>1, <1>3, <1>4, <1>5 DEF StampTrue

(* A promise created now is later than every write, by both clocks. *)
LEMMA CreationStamped ==
  ASSUME Allocated, Counting, Counting', Numbered, Timed, Stamped,
         NEW p \in Promises, NEW a \in Addresses, PromiseCreated(p, a)
  PROVE  Stamped'
<1>1. /\ DOMAIN created' = DOMAIN created \cup {p}
      /\ \A q \in DOMAIN created :
           created'[q] = created[q] /\ promise_timestamps'[q] = promise_timestamps[q]
      /\ created'[p] = clock /\ promise_timestamps'[p] = timestamp
  BY CreationTimed
<1>2. LookedUp({}, a) /\ UNCHANGED <<variable_timestamps, written>>
  BY StepsLookUp DEF PromiseCreated
<1>3. ASSUME NEW b \in Live, NEW s \in Symbols, NEW q \in DOMAIN created', KnownVariable(s, b),
             environments[b].variables[s] \in DOMAIN variable_timestamps
      PROVE  LET i == environments[b].variables[s] IN
             promise_timestamps'[q] < variable_timestamps[i] <=> created'[q] < written[heap[b]][s]
  <2> DEFINE i == environments[b].variables[s]
  <2>1. CASE q \in DOMAIN created
    BY <1>1, <1>3, <2>1 DEF Stamped, StampTrue
  <2>2. CASE q = p
    <3>1. variable_timestamps[i] \in 0..(timestamp - 1) /\ timestamp \in Nat /\ clock \in Nat
      BY <1>3, BoundsAssumption DEF Timed, Counting
    <3>2. written[heap[b]][s] \in 0..clock
      BY LiveObjects DEF Timed
    <3> HIDE DEF i
    <3>3. ~(timestamp < variable_timestamps[i]) /\ ~(clock < written[heap[b]][s])
      BY <3>1, <3>2
    <3> QED
      BY <1>1, <2>2, <3>3 DEF i
  <2> QED
    BY <1>1, <2>1, <2>2
<1> QED
  BY <1>2, <1>3, LookingUpStamped

LEMMA StampedNext ==
  ASSUME Allocated, Counting, Counting', Numbered, Numbered', Timed, Stamped, [Next]_vars
  PROVE  Stamped'
<1>1. CASE \/ UNCHANGED vars \/ ContextEntry \/ \E n \in 0..MaxDepth : Leave(n)
           \/ \E p \in Promises : PromiseForceEntry(p)
  <2>1. UNCHANGED <<heap, environments, created, written, promise_timestamps, variable_timestamps>>
    BY <1>1 DEF vars, truth, analysis, numbering, ContextEntry, Leave, PromiseForceEntry
  <2> QED
    BY <2>1 DEF Stamped, StampTrue, KnownVariable, Known, Live
<1>2. ASSUME NEW a \in Addresses, NewEnvironment(a) \/ GcEnvironmentUnmark(a)
      PROVE  Stamped'
  BY <1>2, NewEnvironmentStamped, GcEnvironmentStamped
<1>3. ASSUME NEW S, NEW a, LookedUp(S, a),
             UNCHANGED <<variable_timestamps, written, created, promise_timestamps>>
      PROVE  Stamped'
  <2>1. \A b \in Live : \A s \in Symbols : \A p \in DOMAIN created' :
          KnownVariable(s, b) /\ environments[b].variables[s] \in DOMAIN variable_timestamps =>
            LET i == environments[b].variables[s] IN
            promise_timestamps'[p] < variable_timestamps[i] <=> created'[p] < written[heap[b]][s]
    BY <1>3 DEF Stamped, StampTrue
  <2> QED
    BY <1>3, <2>1, LookingUpStamped
<1>4. ASSUME NEW a \in Addresses, NEW S \in SUBSET Symbols, ClosureEntry(a, S)
      PROVE  Stamped'
  BY <1>3, <1>4, StepsLookUp DEF ClosureEntry, truth, analysis
<1>5. ASSUME NEW a \in Addresses, NEW s \in Symbols, RemoveVariable(s, a) \/ Lookup(s, a)
      PROVE  Stamped'
  <2>1. LookedUp({s}, a)
    BY <1>5, StepsLookUp
  <2> QED
    BY <1>3, <1>5, <2>1 DEF RemoveVariable, Lookup
<1>6. ASSUME NEW a \in Addresses, NEW p \in Promises, PromiseCreated(p, a)
      PROVE  Stamped'
  BY <1>6, CreationStamped
<1>7. ASSUME NEW a \in Addresses, NEW s \in Symbols, NEW kind \in {"defines", "assigns"},
             Write(kind, s, a)
      PROVE  Stamped'
  BY <1>7, WriteStamped
<1> QED
  BY <1>1, <1>2, <1>4, <1>5, <1>6, <1>7 DEF Next

-----------------------------------------------------------------------------
(* The observers. *)

(* A lookup observes, by addresses and ids, what is true of the objects. *)
LEMMA LookupObservesTruly ==
  ASSUME Numbered, Counting, Timed, Stamped, NEW s \in Symbols, NEW a \in Live, NEW p
  PROVE  (/\ VariableId(s, a) \in DOMAIN variable_timestamps
          /\ p \in DOMAIN promise_timestamps
          /\ promise_timestamps[p] < variable_timestamps[VariableId(s, a)])
         <=> p \in DOMAIN created /\ created[p] < written[heap[a]][s]
<1>0. DOMAIN created = DOMAIN promise_timestamps
  BY DEF Timed
<1>1. p \in DOMAIN created => ~(created[p] < Never)
  <2>1. clock \in Nat
    BY BoundsAssumption DEF Counting
  <2>2. p \in DOMAIN created => created[p] \in 0..clock
    BY DEF Timed
  <2> QED
    BY <2>1, <2>2 DEF Never
<1>2. CASE KnownVariable(s, a)
  <2>1. VariableId(s, a) = environments[a].variables[s] /\ StampTrue(s, a)
    BY <1>2 DEF VariableId, Stamped
  <2> QED
    BY <1>0, <1>1, <2>1 DEF StampTrue
<1>3. CASE ~KnownVariable(s, a)
  <2>1. VariableId(s, a) = variable_id_counter /\ written[heap[a]][s] = Never
    BY <1>3 DEF VariableId, Stamped
  <2>2. variable_id_counter \notin DOMAIN variable_timestamps
    BY NewIdsUnstamped
  <2> QED
    BY <1>1, <2>1, <2>2
<1> QED
  BY <1>2, <1>3

LEMMA ObserversNext ==
  ASSUME Numbered, Counting, Timed, Stamped, observers = observed, observers \subseteq Promises,
         [Next]_vars
  PROVE  observers' = observed' /\ observers' \subseteq Promises
<1>1. CASE UNCHANGED <<observers, observed>>
  BY <1>1
<1>2. ASSUME NEW a \in Addresses, NEW s \in Symbols, Lookup(s, a)
      PROVE  observers' = observed' /\ observers' \subseteq Promises
  <2> DEFINE Stale == {p \in Evaluating :
                         /\ VariableId(s, a) \in DOMAIN variable_timestamps
                         /\ p \in DOMAIN promise_timestamps
                         /\ promise_timestamps[p] < variable_timestamps[VariableId(s, a)]}
             TrulyStale == {p \in Evaluating \cap DOMAIN created :
                              created[p] < written[heap[a]][s]}
  <2>1. a \in Live /\ observers' = observers \cup Stale /\ observed' = observed \cup TrulyStale
    BY <1>2 DEF Lookup, Observe
  <2>2. Stale = TrulyStale
    BY <2>1, LookupObservesTruly
  <2>3. Stale \subseteq Promises
    BY DEF Timed
  <2> QED
    BY <2>1, <2>2, <2>3
<1>3. UNCHANGED <<observers, observed>> \/ \E a \in Addresses : \E s \in Symbols : Lookup(s, a)
  BY ZenonT(60) DEF Next, vars, truth, analysis, ContextEntry, Leave, PromiseForceEntry, NewEnvironment,
     GcEnvironmentUnmark, PromiseCreated, ClosureEntry, Write, RemoveVariable
<1> QED
  BY <1>1, <1>2, <1>3

-----------------------------------------------------------------------------
(* The invariant, and what follows from it. *)

LEMMA SInvInit == Init => SInv
<1> SUFFICES ASSUME Init PROVE SInv
  OBVIOUS
<1> USE DEF Init
<1>0. MaxObjects \in Nat /\ MaxObjects >= 1 /\ MaxActions \in Nat
  BY BoundsAssumption
<1>1. Allocated
  <2>1. objects \in 1..MaxObjects
    BY <1>0
  <2>2. heap \in [Addresses -> 0..objects]
    OBVIOUS
  <2>3. bindings \in [1..objects -> SUBSET Symbols]
    OBVIOUS
  <2>4. \A a, b \in Live : heap[a] = heap[b] => a = b
    BY DEF Live
  <2> QED
    BY <2>1, <2>2, <2>3, <2>4 DEF Allocated
<1>2. DOMAIN EmptyMap = {}
  BY DEF EmptyMap
<1>3. Numbered
  BY <1>2 DEF Numbered, KnownVariable, Known
<1>4. Counting
  BY <1>0 DEF Counting, NoCounts
<1>5. written \in [1..MaxObjects -> [Symbols -> {0}]]
  BY DEF Never
<1>6. Timed
  <2>1. written \in [1..MaxObjects -> [Symbols -> 0..clock]]
    BY <1>5
  <2> QED
    BY <1>2, <2>1 DEF Timed
<1>7. Stamped
  <2>1. \A a, s : ~KnownVariable(s, a)
    BY <1>2 DEF KnownVariable, Known
  <2>2. \A a \in Live : heap[a] \in 1..MaxObjects
    BY <1>1, LiveObjects
  <2>3. \A o \in 1..MaxObjects : \A s \in Symbols : written[o][s] = Never
    OBVIOUS
  <2> QED
    BY <2>1, <2>2, <2>3 DEF Stamped
<1> QED
  BY <1>1, <1>3, <1>4, <1>6, <1>7 DEF SInv

LEMMA SInvNext == SInv /\ [Next]_vars => SInv'
<1> SUFFICES ASSUME SInv, [Next]_vars PROVE SInv'
  OBVIOUS
<1> USE DEF SInv
<1>1. Allocated'
  BY AllocatedNext
<1>2. Numbered'
  BY NumberedNext
<1>3. Counting'
  BY CountingNext
<1>4. Timed'
  BY <1>2, <1>3, TimedNext
<1>5. Stamped'
  BY <1>2, <1>3, StampedNext
<1>6. observers' = observed' /\ observers' \subseteq Promises
  BY ObserversNext
<1> QED
  BY <1>1, <1>2, <1>3, <1>4, <1>5, <1>6

LEMMA SpecSInv == Spec => []SInv
  BY SInvInit, SInvNext, PTL DEF Spec

LEMMA SInvTypeOK == SInv => TypeOK
<1> SUFFICES ASSUME SInv PROVE TypeOK
  OBVIOUS
<1>1. /\ heap \in [Addresses -> 0..objects] /\ objects \in 1..MaxObjects
      /\ bindings \in [1..objects -> SUBSET Symbols]
  BY DEF SInv, Allocated
<1>2. /\ DOMAIN environments \subseteq Addresses
      /\ \A a \in DOMAIN environments :
           /\ environments[a].id \in 0..(environment_id_counter - 1)
           /\ VariableIds(a) \subseteq 0..(variable_id_counter - 1)
  BY DEF SInv, Numbered, Live, VariableIds, KnownVariable, Known
<1>3. /\ clock \in 0..MaxActions /\ MaxActions \in Nat
      /\ counts \in [Scopes -> [Kinds -> 0..clock]] /\ timestamp \in Nat
  BY BoundsAssumption DEF SInv, Counting, Timed
<1>4. 0..clock \subseteq 0..MaxActions
  BY <1>3
<1>5. counts \in [Scopes -> [Kinds -> 0..MaxActions]]
  BY <1>3, <1>4
<1>6. /\ DOMAIN variable_timestamps \subseteq 0..(variable_id_counter - 1)
      /\ DOMAIN promise_timestamps \subseteq Promises /\ observers \subseteq Promises
  BY DEF SInv, Timed
<1> QED
  BY <1>1, <1>2, <1>3, <1>5, <1>6 DEF TypeOK

(* What an environment that is known has been given, it was given by the    *)
(* counters, above all they had given before.                               *)
LEMMA StepNamesOneVariable ==
  ASSUME SInv, SInv', [Next]_vars
  PROVE  [NamesOneVariable]_vars
<1> USE DEF SInv
<1> DEFINE Kept(b) == b \in DOMAIN environments /\ heap'[b] = heap[b]
           IdKept(b) == b \in DOMAIN environments' /\ environments'[b].id = environments[b].id
           VariablesKept(b) ==
             \A s \in DOMAIN environments[b].variables :
               /\ s \in DOMAIN environments'[b].variables
               /\ environments'[b].variables[s] = environments[b].variables[s]
           IdNew(b) == environments'[b].id \in environment_id_counter..(environment_id_counter' - 1)
           VariableNew(b, s) ==
             environments'[b].variables[s] \in variable_id_counter..(variable_id_counter' - 1)
           Growing == /\ environment_id_counter <= environment_id_counter'
                      /\ variable_id_counter <= variable_id_counter'
<1>1. /\ \A a, b \in DOMAIN environments' : environments'[a].id = environments'[b].id => a = b
      /\ \A a, b \in DOMAIN environments' :
           \A s \in DOMAIN environments'[a].variables, t \in DOMAIN environments'[b].variables :
             environments'[a].variables[s] = environments'[b].variables[t] => a = b /\ s = t
  BY DEF Numbered, KnownVariable, Known
<1>2. /\ environment_id_counter \in Nat /\ variable_id_counter \in Nat
      /\ DOMAIN environments \subseteq Addresses /\ heap \in [Addresses -> 0..objects]
  BY DEF Numbered, Allocated, Live
<1>3. ASSUME Growing,
             \A b \in DOMAIN environments : heap'[b] = heap[b] => IdKept(b) /\ VariablesKept(b),
             \A b \in DOMAIN environments' : ~Kept(b) => IdNew(b),
             \A b \in DOMAIN environments' : \A s \in DOMAIN environments'[b].variables :
               ~(Kept(b) /\ s \in DOMAIN environments[b].variables) => VariableNew(b, s)
      PROVE  NamesOneVariable
  BY <1>1, <1>3 DEF NamesOneVariable
<1>4. CASE UNCHANGED vars
  BY <1>4
<1>5. CASE \/ ContextEntry \/ \E n \in 0..MaxDepth : Leave(n)
           \/ \E p \in Promises : PromiseForceEntry(p)
  <2>1. environments' = environments /\ heap' = heap /\ Growing
    BY <1>2, <1>5 DEF numbering, ContextEntry, Leave, PromiseForceEntry
  <2> QED
    BY <1>3, <2>1
<1>6. ASSUME NEW a \in Addresses, NewEnvironment(a)
      PROVE  NamesOneVariable
  <2>1. /\ \A b \in Addresses : b # a => heap'[b] = heap[b]
        /\ environments' = Put(environments, a,
                               [id |-> environment_id_counter, variables |-> EmptyMap])
        /\ environment_id_counter' = environment_id_counter + 1
        /\ variable_id_counter' = variable_id_counter
    BY <1>6 DEF NewEnvironment, Allocated
  <2>2. \A b \in DOMAIN environments : b # a /\ b \in DOMAIN environments'
                                       /\ environments'[b] = environments[b]
    BY <1>6, NewEnvironmentNumbered
  <2>3. /\ DOMAIN environments' = DOMAIN environments \cup {a}
        /\ environments'[a].id = environment_id_counter
        /\ DOMAIN environments'[a].variables = {}
    BY <2>1 DEF Put, EmptyMap
  <2>4. Growing /\ IdNew(a)
    BY <1>2, <2>1, <2>3
  <2>5. \A b \in DOMAIN environments' : b # a => Kept(b) /\ environments'[b] = environments[b]
    BY <1>2, <2>1, <2>2, <2>3
  <2>6. \A b \in DOMAIN environments : heap'[b] = heap[b] => IdKept(b) /\ VariablesKept(b)
    BY <2>2
  <2>7. \A b \in DOMAIN environments' : ~Kept(b) => IdNew(b)
    BY <2>4, <2>5
  <2>8. \A b \in DOMAIN environments' : \A s \in DOMAIN environments'[b].variables :
          ~(Kept(b) /\ s \in DOMAIN environments[b].variables) => VariableNew(b, s)
    BY <2>3, <2>5
  <2> QED
    BY <1>3, <2>4, <2>6, <2>7, <2>8
<1>7. ASSUME NEW a \in Addresses, GcEnvironmentUnmark(a)
      PROVE  NamesOneVariable
  <2>1. /\ \A b \in Addresses : b # a => heap'[b] = heap[b]
        /\ heap'[a] = 0 /\ heap[a] # 0
        /\ environment_id_counter' = environment_id_counter
        /\ variable_id_counter' = variable_id_counter
    BY <1>2, <1>7 DEF GcEnvironmentUnmark, Live
  <2>2. /\ DOMAIN environments' = DOMAIN environments \ {a}
        /\ \A b \in DOMAIN environments' : environments'[b] = environments[b]
    BY <1>7, GcEnvironmentNumbered
  <2>3. Growing
    BY <1>2, <2>1
  <2>4. \A b \in DOMAIN environments : heap'[b] = heap[b] => IdKept(b) /\ VariablesKept(b)
    BY <2>1, <2>2
  <2>5. \A b \in DOMAIN environments' : Kept(b) /\ environments'[b] = environments[b]
    BY <1>2, <2>1, <2>2
  <2> QED
    BY <1>3, <2>3, <2>4, <2>5
<1>8. ASSUME NEW a \in Addresses,
             \/ \E p \in Promises : PromiseCreated(p, a)
             \/ \E S \in SUBSET Symbols : ClosureEntry(a, S)
             \/ \E s \in Symbols :
                  \/ \E kind \in {"defines", "assigns"} : Write(kind, s, a)
                  \/ RemoveVariable(s, a) \/ Lookup(s, a)
      PROVE  NamesOneVariable
  <2>1. PICK S : LookedUp(S, a)
    BY <1>8, StepsLookUp
  <2>2. /\ heap' = heap /\ DOMAIN environments' = DOMAIN environments \cup {a}
        /\ environment_id_counter' \in {environment_id_counter, environment_id_counter + 1}
        /\ variable_id_counter' \in Nat /\ variable_id_counter' >= variable_id_counter
        /\ \A b \in DOMAIN environments : environments'[b].id = environments[b].id
        /\ a \notin DOMAIN environments =>
             /\ environments'[a].id = environment_id_counter
             /\ environment_id_counter' = environment_id_counter + 1
    BY <2>1 DEF LookedUp, Extends
  <2>3. /\ \A b, s : KnownVariable(s, b)' <=> KnownVariable(s, b) \/ (b = a /\ s \in S)
        /\ \A b, s : KnownVariable(s, b) =>
             environments'[b].variables[s] = environments[b].variables[s]
        /\ \A s \in S : ~KnownVariable(s, a) => VariableNew(a, s)
    BY <2>1 DEF LookedUp, Extends
  <2>4. Growing
    BY <1>2, <2>2
  <2>5. \A b \in DOMAIN environments : IdKept(b) /\ VariablesKept(b)
    <3>1. \A b \in DOMAIN environments : \A s \in DOMAIN environments[b].variables :
            KnownVariable(s, b) /\ KnownVariable(s, b)'
      BY <2>3 DEF KnownVariable, Known
    <3>2. \A b, s : KnownVariable(s, b)' => s \in DOMAIN environments'[b].variables
      BY DEF KnownVariable
    <3> QED
      BY <2>2, <2>3, <3>1, <3>2
  <2>6. \A b \in DOMAIN environments' : ~Kept(b) => IdNew(b)
    BY <1>2, <2>2
  <2>7. ASSUME NEW b \in DOMAIN environments', NEW s \in DOMAIN environments'[b].variables,
               ~(Kept(b) /\ s \in DOMAIN environments[b].variables)
        PROVE  VariableNew(b, s)
    <3>1. KnownVariable(s, b)' /\ ~KnownVariable(s, b)
      BY <2>2, <2>7 DEF KnownVariable, Known
    <3> QED
      BY <2>3, <3>1
  <2> QED
    BY <1>3, <2>4, <2>5, <2>6, <2>7
<1> QED
  BY <1>4, <1>5, <1>6, <1>7, <1>8 DEF Next

(* In every reachable state the variables have the kinds of values that the *)
(* code gives them, and no counter exceeds the number of actions.           *)
THEOREM SideEffectTypesCorrect == Spec => []TypeOK
  BY SpecSInv, SInvTypeOK, PTL

(* The analysis, which knows addresses and ids, reports as observers exactly *)
(* the promises that read a variable written after their creation.           *)
THEOREM ObserversTrue == Spec => []ObserversAreTrue
<1>1. SInv => ObserversAreTrue
  BY DEF SInv, ObserversAreTrue
<1> QED
  BY <1>1, SpecSInv, PTL

(* Every id is given once: to one symbol in one environment, which keeps it  *)
(* while it is there; no step gives an environment or a variable an id that  *)
(* was ever given before, whatever addresses are reused.                     *)
THEOREM VariableIdsTrue == Spec => IdsNameOneVariable
<1>1. SInv /\ SInv' /\ [Next]_vars => [NamesOneVariable]_vars
  BY StepNamesOneVariable
<1> QED
  BY <1>1, SpecSInv, PTL DEF Spec, IdsNameOneVariable

(* An action at top level, in a promise, or of a function on another         *)
(* environment adds one to one count, that of its kind under one scope; an   *)
(* action of a function on its own environment adds none; and no step that   *)
(* is no action on a variable changes a count.                               *)
THEOREM ActionsCountedOnce == Spec => NoActionLost
<1>1. SInv /\ [Next]_vars => [CountsOnce]_vars
  BY StepCountsOnce DEF SInv
<1> QED
  BY <1>1, SpecSInv, PTL DEF Spec, NoActionLost
=============================================================================
