----------------------- MODULE PromiseTrackingProofs -----------------------
(***************************************************************************)
(* Proofs about PromiseTracking, for every set of addresses, every choice  *)
(* of analyses, every bound and any number of passes.                      *)
(***************************************************************************)
EXTENDS PromiseTracking, SequenceTheorems, FiniteSetTheorems, TLAPS

-----------------------------------------------------------------------------
(* The inductive invariants. *)

ObjectStates == [calls : Seq(Nat), wrapped : BOOLEAN, forcing : BOOLEAN, forced : BOOLEAN,
                 value : BOOLEAN, heir : BOOLEAN]

(* Only an object that was an argument may have been one that was not        *)
(* wrapped; one that was forced has a value, and is not forced again.        *)
ObjectSound(o) == (~o.wrapped => o.calls # <<>>) /\ (o.forced => o.value /\ ~o.forcing)

(* An object as it is allocated. *)
NewObject(inherits) ==
  [calls |-> <<>>, wrapped |-> TRUE, forcing |-> FALSE, forced |-> FALSE, value |-> FALSE,
   heir |-> inherits]

(* The interpreter: no object is at two addresses. *)
HeapSound ==
  /\ objects \in Seq(ObjectStates)
  /\ prom_id_counter <= Len(objects) /\ Len(objects) <= MaxPromises
  /\ \A a, b \in Live : heap[a] = heap[b] => a = b
  /\ \A n \in DOMAIN objects : ObjectSound(objects[n])

(* The ids given out so far; id is the id of one of them in use.             *)
Given == prom_neg_id_counter..(prom_id_counter - 1)

IdsDistinct == \A a, b \in DOMAIN promise_ids : promise_ids[a] = promise_ids[b] => a = b

(* Nothing is known of an id that was not given out, nor, between two passes,*)
(* anything of what is kept for the time of a pass.                          *)
OnlyGiven ==
  /\ DOMAIN promises \cup Waiting \cup DOMAIN evaluated \cup DOMAIN unevaluated \subseteq Given
  /\ ~MapPromises => DOMAIN promises = {}
  /\ phase = "idle" => DOMAIN promises = {} /\ DOMAIN promise_origin = {}
  /\ passes = 0 => phase = "idle" /\ prom_id_counter = 0 /\ DOMAIN promise_ids = {}

Known == Live \cap DOMAIN promise_ids

(* A promise under evaluation is known and mapped; in the first pass every   *)
(* known promise is mapped.                                                  *)
KnownMapped ==
  /\ \A a \in Live : Object(a).forcing => phase = "tracing" /\ a \in DOMAIN promise_ids
  /\ MapPromises => \A a \in Known :
       Object(a).forcing \/ (passes = 1 /\ phase = "tracing") => promise_ids[a] \in DOMAIN promises

(* fresh_promises has no promise that was an argument, id 0 apart, and in    *)
(* the first pass it has all those that were not.                            *)
FreshUnpassed ==
  \A a \in Known :
    /\ promise_ids[a] \in fresh_promises \ {0} => Object(a).calls = <<>>
    /\ passes = 1 /\ phase = "tracing" /\ promise_ids[a] > 0 /\ Object(a).calls = <<>>
         => promise_ids[a] \in fresh_promises

(* A promise counted as never evaluated is gone. *)
UnevaluatedGone == \A a \in DOMAIN promise_ids : promise_ids[a] \notin DOMAIN unevaluated

(* In the first pass, if all arguments are wrapped, each promise whose       *)
(* creation was seen is in its place: counted as evaluated if it was forced, *)
(* and else waiting, as an argument or not.                                  *)
InPlace ==
  passes = 1 /\ "promise_type" \in Switch /\ (\A n \in DOMAIN objects : objects[n].wrapped) =>
    /\ \A id \in 1..(prom_id_counter - 1) : PlacesOf(id) = 1
    /\ phase = "tracing" => \A a \in Known : promise_ids[a] > 0 =>
         /\ IF Object(a).forced THEN promise_ids[a] \in DOMAIN evaluated ELSE promise_ids[a] \in Waiting
         /\ Object(a).calls = <<>> =>
              promise_ids[a] \notin default_argument_promises \cup custom_argument_promises

PInv == TypeOK /\ HeapSound /\ IdsDistinct /\ OnlyGiven

-----------------------------------------------------------------------------
(* The interpreter's objects. *)

(* A new object is not passed, forced or evaluated. *)
LEMMA NewObjectFields ==
  ASSUME NEW inherits
  PROVE  /\ NewObject(inherits).calls = <<>> /\ NewObject(inherits).wrapped
         /\ NewObject(inherits).forcing = FALSE /\ NewObject(inherits).forced = FALSE
         /\ NewObject(inherits).heir = inherits
  BY DEF NewObject

LEMMA LiveObject ==
  ASSUME TypeOK, HeapSound, NEW a \in Live
  PROVE  /\ a \in Addresses /\ heap[a] \in 1..Len(objects) /\ Object(a) \in ObjectStates
         /\ ObjectSound(Object(a))
<1>1. a \in Addresses /\ heap[a] \in 1..Len(objects) /\ Len(objects) \in Nat
  BY DEF TypeOK, HeapSound, Live
<1>2. objects[heap[a]] \in ObjectStates
  <2> HIDE DEF ObjectStates
  <2> QED
    BY <1>1 DEF HeapSound
<1>3. ObjectSound(objects[heap[a]])
  BY <1>1 DEF HeapSound
<1> QED
  BY <1>1, <1>2, <1>3 DEF Object

(* An update changes one object and no other. *)
LEMMA UpdateObject ==
  ASSUME TypeOK, HeapSound, NEW a \in Live, NEW o \in ObjectStates, Update(a, o),
         prom_id_counter' = prom_id_counter, ObjectSound(o)
  PROVE  /\ heap' = heap /\ Live' = Live /\ HeapSound' /\ Len(objects') = Len(objects)
         /\ DOMAIN objects' = DOMAIN objects
         /\ Object(a)' = o /\ \A b \in Live : b # a => Object(b)' = Object(b)
         /\ \A n \in DOMAIN objects : objects'[n] = IF n = heap[a] THEN o ELSE objects[n]
<1>1. heap[a] \in 1..Len(objects) /\ Len(objects) \in Nat /\ DOMAIN objects = 1..Len(objects)
  BY LiveObject DEF HeapSound
<1>2. /\ heap' = heap /\ objects' = [objects EXCEPT ![heap[a]] = o]
      /\ Live' = Live
  BY DEF Update, Live
<1>3. objects' \in Seq(ObjectStates) /\ Len(objects') = Len(objects)
  <2> HIDE DEF ObjectStates
  <2> QED
    BY <1>1, <1>2 DEF HeapSound
<1>4. DOMAIN objects' = DOMAIN objects
      /\ \A n \in DOMAIN objects : objects'[n] = IF n = heap[a] THEN o ELSE objects[n]
  BY <1>1, <1>2
<1>5. \A b \in Live : b # a => heap[b] # heap[a] /\ heap[b] \in DOMAIN objects
  BY <1>1, LiveObject DEF HeapSound
<1>6. Object(a)' = o /\ \A b \in Live : b # a => Object(b)' = Object(b)
  BY <1>1, <1>2, <1>4, <1>5 DEF Object
<1>7. HeapSound'
  BY <1>2, <1>3, <1>4 DEF HeapSound
<1> QED
  BY <1>2, <1>3, <1>4, <1>6, <1>7

(* A new object is at one address, and leaves the others alone. *)
LEMMA AllocateObject ==
  ASSUME TypeOK, HeapSound, NEW a \in Addresses, NEW inherits \in BOOLEAN, Allocate(a, inherits),
         prom_id_counter' \in {prom_id_counter, prom_id_counter + 1}
  PROVE  /\ a \notin Live /\ Live' = Live \cup {a} /\ HeapSound'
         /\ heap' \in [Addresses -> 0..Len(objects')] /\ Len(objects') <= MaxPromises
         /\ Object(a)' = NewObject(inherits)
         /\ \A b \in Live : heap'[b] = heap[b] /\ Object(b)' = Object(b)
         /\ DOMAIN objects' = DOMAIN objects \cup {Len(objects) + 1}
         /\ \A n \in DOMAIN objects : objects'[n] = objects[n]
         /\ objects'[Len(objects) + 1].wrapped
<1> DEFINE o == NewObject(inherits)
<1>1. Len(objects) \in Nat /\ MaxPromises \in Nat /\ DOMAIN objects = 1..Len(objects)
      /\ prom_id_counter \in Nat
  BY BoundsAssumption DEF HeapSound, TypeOK
<1>2. /\ a \notin Live /\ Len(objects) < MaxPromises
      /\ objects' = Append(objects, o) /\ heap' = [heap EXCEPT ![a] = Len(objects) + 1]
  BY DEF Allocate, NewObject
<1>3. o \in ObjectStates
  BY DEF ObjectStates, NewObject
<1> HIDE DEF o
<1>4. /\ objects' \in Seq(ObjectStates) /\ Len(objects') = Len(objects) + 1
      /\ objects'[Len(objects) + 1] = o
      /\ \A n \in 1..Len(objects) : objects'[n] = objects[n]
  <2> HIDE DEF ObjectStates
  <2> QED
    BY <1>1, <1>2, <1>3 DEF HeapSound
<1>5. DOMAIN objects' = DOMAIN objects \cup {Len(objects) + 1}
  BY <1>1, <1>4
<1>6. /\ heap' \in [Addresses -> 0..Len(objects')] /\ heap'[a] = Len(objects) + 1
      /\ \A b \in Addresses : b # a => heap'[b] = heap[b]
  BY <1>1, <1>2, <1>4 DEF TypeOK
<1>7. Live' = Live \cup {a}
  BY <1>1, <1>6 DEF Live
<1>8. \A b \in Live : b # a /\ heap'[b] = heap[b] /\ heap[b] \in 1..Len(objects)
  BY <1>2, <1>6, LiveObject
<1>9. \A b \in Live : Object(b)' = Object(b)
  BY <1>4, <1>8 DEF Object
<1>10. Object(a)' = o
  BY <1>4, <1>6 DEF Object
<1>11. \A n \in DOMAIN objects' : ObjectSound(objects'[n])
  <2>1. ObjectSound(o)
    BY DEF o, NewObject, ObjectSound
  <2> QED
    BY <1>1, <1>4, <1>5, <2>1 DEF HeapSound
<1>12. \A b, c \in Live' : heap'[b] = heap'[c] => b = c
  BY <1>1, <1>6, <1>7, <1>8 DEF HeapSound
<1>13. HeapSound'
  BY <1>1, <1>2, <1>4, <1>11, <1>12 DEF HeapSound
<1>14. objects'[Len(objects) + 1].wrapped
  BY <1>4 DEF o, NewObject
<1> QED
  BY <1>1, <1>2, <1>4, <1>5, <1>6, <1>7, <1>8, <1>9, <1>10, <1>13, <1>14 DEF o

(* An object is allocated seen or unseen; only the latter may inherit an id. *)
LEMMA AllocatesObject ==
  ASSUME NEW a, UntracedAllocation(a) \/ PromiseCreated(a)
  PROVE  \E h \in BOOLEAN :
           /\ Allocate(a, h) /\ prom_id_counter' \in {prom_id_counter, prom_id_counter + 1}
           /\ h <=> UntracedAllocation(a) /\ a \in DOMAIN promise_ids
<1>1. CASE UntracedAllocation(a)
  <2>1. Allocate(a, a \in DOMAIN promise_ids) /\ prom_id_counter' = prom_id_counter
    BY <1>1 DEF UntracedAllocation, identity
  <2>2. (a \in DOMAIN promise_ids) \in BOOLEAN
    OBVIOUS
  <2> QED
    BY <1>1, <2>1, <2>2
<1>2. CASE PromiseCreated(a) /\ ~UntracedAllocation(a)
  BY <1>2 DEF PromiseCreated
<1> QED
  BY <1>1, <1>2

(* A collection takes one object away. *)
LEMMA CollectObject ==
  ASSUME TypeOK, HeapSound, NEW a \in Live, heap' = [heap EXCEPT ![a] = 0],
         objects' = objects, prom_id_counter' = prom_id_counter
  PROVE  /\ Live' = Live \ {a} /\ HeapSound' /\ heap' \in [Addresses -> 0..Len(objects')]
         /\ \A b \in Live \ {a} : heap'[b] = heap[b] /\ Object(b)' = Object(b)
<1>1. a \in Addresses /\ Len(objects) \in Nat /\ heap \in [Addresses -> 0..Len(objects)]
  BY LiveObject DEF TypeOK, HeapSound
<1>2. heap'[a] = 0 /\ \A b \in Addresses : b # a => heap'[b] = heap[b]
  BY <1>1
<1>3. Live' = Live \ {a}
  BY <1>2 DEF Live
<1>4. \A b \in Live \ {a} : heap'[b] = heap[b] /\ Object(b)' = Object(b)
  BY <1>2 DEF Live, Object
<1>5. HeapSound'
  BY <1>3, <1>4 DEF HeapSound
<1> QED
  BY <1>1, <1>3, <1>4, <1>5

-----------------------------------------------------------------------------
(* What the helpers of the probes do. *)

(* Looking an id up gives an address that has none a new one, and leaves the *)
(* ids of the others.                                                        *)
LEMMA GetsId ==
  ASSUME PInv, NEW a \in Addresses, GetPromiseId(a)
  PROVE  /\ DOMAIN promise_ids' = DOMAIN promise_ids \cup {a} /\ promise_ids'[a] = IdAt(a)
         /\ \A b \in DOMAIN promise_ids : promise_ids'[b] = promise_ids[b]
         /\ IdsDistinct' /\ Given \subseteq Given' /\ IdAt(a) \in Given'
         /\ a \notin DOMAIN promise_ids => IdAt(a) < 0 /\ IdAt(a) \notin Given
         /\ prom_id_counter' = prom_id_counter
         /\ prom_neg_id_counter' \in Int /\ prom_neg_id_counter' <= 0
         /\ \A b \in DOMAIN promise_ids' : promise_ids'[b] \in Given'
         /\ DOMAIN promise_ids' \subseteq Addresses
<1>1. /\ prom_id_counter \in Nat /\ prom_neg_id_counter \in Int /\ prom_neg_id_counter <= 0
      /\ \A b \in DOMAIN promise_ids : b \in Addresses /\ promise_ids[b] \in Given
      /\ IdsDistinct
  BY BoundsAssumption DEF PInv, TypeOK, Given
<1>2. /\ DOMAIN promise_ids' = DOMAIN promise_ids \cup {a} /\ promise_ids'[a] = IdAt(a)
      /\ \A b \in DOMAIN promise_ids : promise_ids'[b] = promise_ids[b]
  BY DEF GetPromiseId, Insert, Put, IdAt
<1>3. /\ prom_id_counter' = prom_id_counter
      /\ prom_neg_id_counter' = IF a \in DOMAIN promise_ids THEN prom_neg_id_counter
                                ELSE prom_neg_id_counter - 1
      /\ IdAt(a) = IF a \in DOMAIN promise_ids THEN promise_ids[a] ELSE prom_neg_id_counter - 1
  BY DEF GetPromiseId, IdAt
<1>4. /\ Given \subseteq Given' /\ IdAt(a) \in Given'
      /\ a \notin DOMAIN promise_ids => IdAt(a) < 0 /\ IdAt(a) \notin Given
      /\ prom_neg_id_counter' \in Int /\ prom_neg_id_counter' <= 0
  BY <1>1, <1>3 DEF Given
<1>5. IdsDistinct'
  BY <1>1, <1>2, <1>3, <1>4 DEF IdsDistinct
<1>6. \A b \in DOMAIN promise_ids' : promise_ids'[b] \in Given'
  BY <1>1, <1>2, <1>4
<1> QED
  BY <1>1, <1>2, <1>3, <1>4, <1>5, <1>6

(* The mapping and the origins hold states and calls. *)
StatesTyped ==
  \A id \in DOMAIN promises :
    /\ promises[id].local \in BOOLEAN /\ promises[id].argument \in BOOLEAN
    /\ promises[id].call_id \in 0..call_id_counter /\ promises[id].mode \in Modes

OriginsTyped == \A id \in DOMAIN promise_origin : promise_origin[id] \in 0..call_id_counter

LEMMA InsertsState ==
  ASSUME PInv, NEW id, NEW local \in BOOLEAN, call_id_counter' = call_id_counter,
         promises' = IF MapPromises THEN Insert(promises, id, PromiseState(local)) ELSE promises
  PROVE  /\ StatesTyped'
         /\ DOMAIN promises' = IF MapPromises THEN DOMAIN promises \cup {id} ELSE {}
         /\ \A i \in DOMAIN promises : promises'[i] = promises[i]
         /\ \A i \in DOMAIN promises' \ DOMAIN promises : ~promises'[i].argument
<1>1. StatesTyped /\ call_id_counter \in Nat /\ (~MapPromises => DOMAIN promises = {})
  BY BoundsAssumption DEF PInv, TypeOK, StatesTyped, OnlyGiven
<1>2. /\ PromiseState(local).local \in BOOLEAN /\ PromiseState(local).argument = FALSE
      /\ PromiseState(local).call_id = 0 /\ PromiseState(local).mode \in Modes
  BY DEF PromiseState, Modes
<1>3. /\ DOMAIN promises' = IF MapPromises THEN DOMAIN promises \cup {id} ELSE {}
      /\ \A i \in DOMAIN promises : promises'[i] = promises[i]
      /\ \A i \in DOMAIN promises' \ DOMAIN promises : promises'[i] = PromiseState(local)
  BY <1>1 DEF Insert, Put
<1>4. \A i \in DOMAIN promises' \ DOMAIN promises : ~promises'[i].argument
  BY <1>2, <1>3
<1>5. StatesTyped'
  <2> SUFFICES ASSUME NEW i \in DOMAIN promises'
               PROVE  /\ promises'[i].local \in BOOLEAN /\ promises'[i].argument \in BOOLEAN
                      /\ promises'[i].call_id \in 0..call_id_counter
                      /\ promises'[i].mode \in Modes
    BY DEF StatesTyped
  <2>1. CASE i \in DOMAIN promises
    BY <2>1, <1>1, <1>3 DEF StatesTyped
  <2>2. CASE i \notin DOMAIN promises
    <3>1. promises'[i] = [local |-> local, argument |-> FALSE, call_id |-> 0, mode |-> "unassigned"]
      BY <2>2, <1>3 DEF PromiseState
    <3>2. promises'[i].local = local /\ promises'[i].argument = FALSE
      BY <3>1
    <3>3. promises'[i].call_id = 0 /\ promises'[i].mode = "unassigned"
      BY <3>1
    <3>4. 0 \in 0..call_id_counter /\ "unassigned" \in Modes
      BY <1>1 DEF Modes
    <3>5. promises'[i].local \in BOOLEAN /\ promises'[i].argument \in BOOLEAN
      BY <3>2
    <3> QED
      BY <3>3, <3>4, <3>5
  <2> QED
    BY <2>1, <2>2
<1> QED
  BY <1>3, <1>4, <1>5

LEMMA ReadsOrigin ==
  ASSUME TypeOK, NEW id, ReadOrigin(id), call_id_counter' = call_id_counter
  PROVE  /\ OriginsTyped' /\ DOMAIN promise_origin' = DOMAIN promise_origin \cup {id}
         /\ \A i \in DOMAIN promise_origin : promise_origin'[i] = promise_origin[i]
         /\ \A i \in DOMAIN promise_origin' \ DOMAIN promise_origin : promise_origin'[i] = 0
<1>1. OriginsTyped /\ call_id_counter \in Nat
  BY BoundsAssumption DEF TypeOK, OriginsTyped
<1>2. /\ DOMAIN promise_origin' = DOMAIN promise_origin \cup {id}
      /\ \A i \in DOMAIN promise_origin : promise_origin'[i] = promise_origin[i]
      /\ \A i \in DOMAIN promise_origin' \ DOMAIN promise_origin : promise_origin'[i] = 0
  BY DEF ReadOrigin, Insert, Put
<1> QED
  BY <1>1, <1>2 DEF OriginsTyped

(* Counting a promise puts it in the bag if the analysis waits for it. *)
LEMMA CountsWaiting ==
  ASSUME NEW bag, IsABag(bag), NEW id
  PROVE  /\ IsABag(Counted(bag, id))
         /\ DOMAIN Counted(bag, id) = IF id \in Waiting THEN DOMAIN bag \cup {id} ELSE DOMAIN bag
         /\ \A i : i # id => TimesCounted(i, Counted(bag, id)) = TimesCounted(i, bag)
         /\ id \in Waiting /\ id \notin DOMAIN bag => TimesCounted(id, Counted(bag, id)) = 1
<1>1. CASE id \notin Waiting
  BY <1>1 DEF Counted, TimesCounted
<1>2. CASE id \in Waiting /\ id \in DOMAIN bag
  <2>1. Counted(bag, id) = [e \in DOMAIN bag |-> IF e = id THEN bag[e] + 1 ELSE bag[e]]
    BY <1>2 DEF Counted, BagAdd
  <2> QED
    BY <2>1, <1>2 DEF TimesCounted, IsABag, BagIn, BagToSet
<1>3. CASE id \in Waiting /\ id \notin DOMAIN bag
  <2>1. Counted(bag, id) = [e \in DOMAIN bag \cup {id} |-> IF e = id THEN 1 ELSE bag[e]]
    BY <1>3 DEF Counted, BagAdd
  <2> QED
    BY <2>1, <1>3 DEF TimesCounted, IsABag, BagIn, BagToSet
<1> QED
  BY <1>1, <1>2, <1>3

LEMMA StopsWaiting ==
  ASSUME NEW id, StopWaiting(id)
  PROVE  Waiting' \subseteq Waiting
  BY DEF StopWaiting, Waiting

-----------------------------------------------------------------------------
(* Types, and what is known of ids. *)

LEMMA InitPInv == Init => PInv
<1> SUFFICES ASSUME Init PROVE PInv
  OBVIOUS
<1>1. Live = {} /\ DOMAIN promise_ids = {} /\ DOMAIN promises = {} /\ DOMAIN promise_origin = {}
  BY DEF Init, Live, EmptyMap
<1>2. IsABag(EmptyBag) /\ DOMAIN EmptyBag = {}
  BY DEF IsABag, EmptyBag, SetToBag
<1>3. TypeOK
  BY <1>1, <1>2, BoundsAssumption DEF Init, TypeOK
<1>4. HeapSound
  <2>1. <<>> \in Seq(ObjectStates) /\ Len(<<>>) = 0 /\ DOMAIN <<>> = {}
    OBVIOUS
  <2> QED
    BY <2>1, <1>1, BoundsAssumption DEF Init, HeapSound
<1>5. IdsDistinct /\ OnlyGiven
  BY <1>1, <1>2 DEF Init, IdsDistinct, OnlyGiven, Waiting
<1> QED
  BY <1>3, <1>4, <1>5 DEF PInv

(* A probe that names the promise at a by its id. *)
LEMMA ProbeKeepsPInv ==
  ASSUME PInv, NEW a \in Live, GetPromiseId(a), phase = "tracing",
         phase' = phase, passes' = passes, status' \in {"running", "unmapped", "undefined"},
         heap' = heap, HeapSound', Len(objects') = Len(objects),
         fresh_promises' \subseteq fresh_promises,
         call_id_counter' \in 0..MaxCalls, OriginsTyped', StatesTyped',
         DOMAIN promises' \subseteq DOMAIN promises \cup {IdAt(a)},
         ~MapPromises => DOMAIN promises' = {},
         Waiting' \subseteq Waiting \cup {IdAt(a)},
         IsABag(evaluated'), IsABag(unevaluated'),
         DOMAIN evaluated' \subseteq DOMAIN evaluated \cup Waiting,
         DOMAIN unevaluated' \subseteq DOMAIN unevaluated \cup Waiting
  PROVE  PInv'
<1>1. a \in Addresses
  BY DEF Live
<1>2. /\ DOMAIN promise_ids' = DOMAIN promise_ids \cup {a}
      /\ IdsDistinct' /\ Given \subseteq Given' /\ IdAt(a) \in Given'
      /\ prom_id_counter' = prom_id_counter
      /\ prom_neg_id_counter' \in Int /\ prom_neg_id_counter' <= 0
      /\ \A b \in DOMAIN promise_ids' : promise_ids'[b] \in Given'
      /\ DOMAIN promise_ids' \subseteq Addresses
  BY <1>1, GetsId
<1>3. TypeOK'
  BY <1>2 DEF PInv, TypeOK, StatesTyped, OriginsTyped, Given
<1>4. OnlyGiven'
  BY <1>2 DEF PInv, OnlyGiven
<1> QED
  BY <1>2, <1>3, <1>4 DEF PInv

(* The probes of slots, which leave the objects alone. *)
LEMMA AccessKeepsPInv ==
  ASSUME PInv, NEW a \in Addresses,
         PromiseValueLookup(a) \/ PromiseSlotAccess(a) \/ PromiseValueAssign(a)
  PROVE  PInv'
<1>1. /\ a \in Live /\ GetPromiseId(a) /\ ReadOrigin(IdAt(a)) /\ InsertIfNonLocal(IdAt(a))
      /\ status' \in {"running", "unmapped", "undefined"} /\ phase = "tracing"
      /\ UNCHANGED <<phase, passes, fresh_promises, call_id_counter,
                     default_argument_promises, custom_argument_promises,
                     non_argument_promises, evaluated, unevaluated>>
  BY DEF PromiseValueLookup, PromiseSlotAccess, PromiseValueAssign, SlotAccess, Found, typeAnalysis,
     Tracing
<1>2. HeapSound' /\ heap' = heap /\ Len(objects') = Len(objects) /\ Waiting' = Waiting
  <2>1. prom_id_counter' = prom_id_counter
    BY <1>1 DEF GetPromiseId
  <2>2. CASE UNCHANGED interpreter
    BY <1>1, <2>1, <2>2 DEF PInv, HeapSound, Live, Waiting, interpreter
  <2>3. CASE PromiseValueAssign(a)
    <3> DEFINE o == [Object(a) EXCEPT !.value = TRUE]
    <3>1. o \in ObjectStates /\ ObjectSound(o)
      <4>1. Object(a) \in ObjectStates /\ ObjectSound(Object(a))
        BY <1>1, LiveObject DEF PInv
      <4> QED
        BY <4>1 DEF ObjectStates, ObjectSound
    <3>2. Update(a, o)
      BY <2>3 DEF PromiseValueAssign
    <3> HIDE DEF o
    <3>3. HeapSound' /\ heap' = heap /\ Len(objects') = Len(objects)
      BY <1>1, <2>1, <3>1, <3>2, UpdateObject DEF PInv
    <3> QED
      BY <1>1, <3>3 DEF Waiting
  <2> QED
    BY <2>2, <2>3 DEF PromiseValueLookup, PromiseSlotAccess, PromiseValueAssign, SlotAccess
<1>3. OriginsTyped'
  BY <1>1, ReadsOrigin DEF PInv
<1>4. StatesTyped' /\ DOMAIN promises' = IF MapPromises THEN DOMAIN promises \cup {IdAt(a)} ELSE {}
  BY <1>1, InsertsState DEF InsertIfNonLocal
<1>5. call_id_counter' \in 0..MaxCalls /\ IsABag(evaluated') /\ IsABag(unevaluated')
  BY <1>1 DEF PInv, TypeOK
<1> QED
  BY <1>1, <1>2, <1>3, <1>4, <1>5, ProbeKeepsPInv

LEMMA ForceKeepsPInv ==
  ASSUME PInv, NEW a \in Addresses,
         PromiseForceEntry(a) \/ PromiseForceExit(a)
  PROVE  PInv'
<1> DEFINE entered == [Object(a) EXCEPT !.forcing = TRUE]
           exited  == [Object(a) EXCEPT !.forcing = FALSE, !.forced = TRUE, !.value = TRUE]
<1>1. /\ a \in Live /\ GetPromiseId(a) /\ ReadOrigin(IdAt(a))
      /\ status' \in {"running", "unmapped", "undefined"} /\ phase = "tracing"
      /\ UNCHANGED <<phase, passes, fresh_promises, call_id_counter, unevaluated>>
      /\ (Update(a, entered) /\ ~Object(a).value) \/ Update(a, exited)
  BY DEF PromiseForceEntry, PromiseForceExit, Found, typeAnalysis, Tracing
<1>2. HeapSound' /\ heap' = heap /\ Len(objects') = Len(objects)
  <2>1. Object(a) \in ObjectStates /\ ObjectSound(Object(a))
    BY <1>1, LiveObject DEF PInv
  <2>2. /\ entered \in ObjectStates /\ exited \in ObjectStates
        /\ ~Object(a).value => ObjectSound(entered)
        /\ ObjectSound(exited)
    BY <2>1 DEF ObjectStates, ObjectSound
  <2>3. prom_id_counter' = prom_id_counter
    BY <1>1 DEF GetPromiseId
  <2> HIDE DEF entered, exited
  <2> QED
    BY <1>1, <2>2, <2>3, UpdateObject DEF PInv
<1>3. OriginsTyped'
  BY <1>1, ReadsOrigin DEF PInv
<1>4. /\ StatesTyped' /\ DOMAIN promises' \subseteq DOMAIN promises \cup {IdAt(a)}
      /\ ~MapPromises => DOMAIN promises' = {}
  <2>1. CASE PromiseForceEntry(a)
    BY <1>1, <2>1, InsertsState DEF PromiseForceEntry, InsertIfNonLocal
  <2>2. CASE promises' = promises
    BY <1>1, <2>2 DEF PInv, TypeOK, OnlyGiven, StatesTyped
  <2> QED
    BY <2>1, <2>2 DEF PromiseForceExit
<1>5. /\ IsABag(evaluated') /\ Waiting' \subseteq Waiting
      /\ DOMAIN evaluated' \subseteq DOMAIN evaluated \cup Waiting
  <2>1. IsABag(evaluated)
    BY DEF PInv, TypeOK
  <2>2. CASE PromiseForceExit(a) /\ "promise_type" \in Switch
    <3>1. evaluated' = Counted(evaluated, IdAt(a)) /\ StopWaiting(IdAt(a))
      BY <2>2 DEF PromiseForceExit
    <3>2. /\ IsABag(Counted(evaluated, IdAt(a)))
          /\ DOMAIN Counted(evaluated, IdAt(a)) \subseteq DOMAIN evaluated \cup Waiting
      BY <2>1, CountsWaiting, ZenonT(60)
    <3> QED
      BY <3>1, <3>2, StopsWaiting
  <2>3. CASE UNCHANGED <<evaluated, default_argument_promises, custom_argument_promises,
                         non_argument_promises>>
    BY <2>1, <2>3 DEF Waiting
  <2> QED
    BY <2>2, <2>3 DEF PromiseForceEntry, PromiseForceExit, typeAnalysis
<1>6. call_id_counter' \in 0..MaxCalls /\ IsABag(unevaluated')
  BY <1>1 DEF PInv, TypeOK
<1> QED
  BY <1>1, <1>2, <1>3, <1>4, <1>5, <1>6, ProbeKeepsPInv

(* What closure_entry leaves of the mapping. *)
LEMMA MapsArgument ==
  ASSUME PInv, NEW id, NEW mode \in {"default", "custom"},
         NEW call \in 1..MaxCalls, call_id_counter' = call, call = call_id_counter + 1,
         MapArgument(id, mode, call)
  PROVE  /\ StatesTyped' /\ DOMAIN promises' \subseteq DOMAIN promises \cup {id}
         /\ ~MapPromises => DOMAIN promises' = {}
         /\ status' \in {"running", "unmapped"}
         /\ \A i \in DOMAIN promises \ {id} : i \in DOMAIN promises' /\ promises'[i] = promises[i]
         /\ id \in DOMAIN promises' => promises'[id].call_id = call
         /\ MapPromises /\ (id < 0 \/ id \in DOMAIN promises)
              => id \in DOMAIN promises' /\ status' = "running"
         /\ ~MapPromises => status' = "running"
<1> DEFINE known  == IF id < 0 THEN Insert(promises, id, PromiseState(FALSE)) ELSE promises
           mapped == [local |-> TRUE, argument |-> TRUE, call_id |-> call, mode |-> mode]
<1>1. /\ StatesTyped /\ call_id_counter \in Nat /\ (~MapPromises => DOMAIN promises = {})
      /\ call \in Nat
  BY BoundsAssumption DEF PInv, TypeOK, StatesTyped, OnlyGiven
<1>2. /\ DOMAIN known = IF id < 0 THEN DOMAIN promises \cup {id} ELSE DOMAIN promises
      /\ \A i \in DOMAIN promises : known[i] = promises[i]
  BY DEF Insert, Put
<1>3. /\ status' = IF MapPromises /\ id \notin DOMAIN known THEN "unmapped" ELSE "running"
      /\ promises' = IF MapPromises /\ id \in DOMAIN known THEN Put(known, id, mapped) ELSE promises
  BY DEF MapArgument
<1> HIDE DEF known, mapped
<1>4. CASE MapPromises /\ id \in DOMAIN known
  <2>1. /\ DOMAIN promises' = DOMAIN promises \cup {id} /\ promises'[id] = mapped
        /\ \A i \in DOMAIN promises \ {id} : promises'[i] = promises[i]
    BY <1>2, <1>3, <1>4 DEF Put
  <2>2. /\ mapped.local \in BOOLEAN /\ mapped.argument \in BOOLEAN
        /\ mapped.call_id = call /\ mapped.mode \in Modes
    BY DEF mapped, Modes
  <2>3. StatesTyped'
    <3> SUFFICES ASSUME NEW i \in DOMAIN promises'
                 PROVE  /\ promises'[i].local \in BOOLEAN /\ promises'[i].argument \in BOOLEAN
                        /\ promises'[i].call_id \in 0..call_id_counter'
                        /\ promises'[i].mode \in Modes
      BY DEF StatesTyped
    <3>1. CASE i = id
      BY <3>1, <2>1, <2>2, <1>1
    <3>2. CASE i # id
      BY <3>2, <2>1, <1>1 DEF StatesTyped
    <3> QED
      BY <3>1, <3>2
  <2> QED
    BY <2>1, <2>2, <2>3, <1>2, <1>3, <1>4
<1>5. CASE ~(MapPromises /\ id \in DOMAIN known)
  <2>1. promises' = promises /\ id \notin DOMAIN promises
    BY <1>1, <1>2, <1>3, <1>5
  <2>2. StatesTyped'
    BY <2>1, <1>1 DEF StatesTyped
  <2> QED
    BY <2>1, <2>2, <1>1, <1>2, <1>3, <1>5
<1> QED
  BY <1>4, <1>5

(* And of the origins. *)
LEMMA AssociatesArguments ==
  ASSUME TypeOK, NEW ids, NEW call, call = call_id_counter + 1, call_id_counter' = call,
         AssociateArguments(ids, call)
  PROVE  /\ OriginsTyped' /\ fresh_promises' = fresh_promises \ ids
         /\ DOMAIN promise_origin' = DOMAIN promise_origin \cup (ids \cap fresh_promises)
         /\ \A i \in ids \cap fresh_promises : promise_origin'[i] = call
         /\ \A i \in DOMAIN promise_origin \ (ids \cap fresh_promises) :
              promise_origin'[i] = promise_origin[i]
<1>1. OriginsTyped /\ call_id_counter \in Nat
  BY BoundsAssumption DEF TypeOK, OriginsTyped
<1>2. /\ fresh_promises' = fresh_promises \ ids
      /\ DOMAIN promise_origin' = DOMAIN promise_origin \cup (ids \cap fresh_promises)
      /\ \A i \in ids \cap fresh_promises : promise_origin'[i] = call
      /\ \A i \in DOMAIN promise_origin \ (ids \cap fresh_promises) :
              promise_origin'[i] = promise_origin[i]
  BY DEF AssociateArguments
<1>3. OriginsTyped'
  BY <1>1, <1>2 DEF OriginsTyped
<1> QED
  BY <1>2, <1>3

LEMMA ClosureEntryKeepsPInv ==
  ASSUME PInv, NEW a \in Addresses, NEW mode \in {"default", "custom"}, NEW others \in BOOLEAN,
         ClosureEntry(a, mode, others)
  PROVE  PInv'
<1> DEFINE id   == IdAt(a)
           ids  == {id} \cup (IF others THEN {0} ELSE {})
           call == call_id_counter + 1
           o    == [Object(a) EXCEPT !.calls = Append(@, call),
                                         !.wrapped = (Object(a).calls = <<>> /\ ~Object(a).forced)]
<1>1. /\ a \in Live /\ call_id_counter < MaxCalls /\ call_id_counter' = call
      /\ Update(a, o) /\ GetPromiseId(a) /\ MapArgument(id, mode, call)
      /\ ClassifyArguments(ids, id, mode) /\ AssociateArguments(ids, call)
      /\ phase = "tracing" /\ phase' = phase /\ passes' = passes
  BY DEF ClosureEntry, Tracing
<1>2. call \in 1..MaxCalls /\ call_id_counter' \in 0..MaxCalls
  BY <1>1, BoundsAssumption DEF PInv, TypeOK
<1>3. HeapSound' /\ heap' = heap /\ Len(objects') = Len(objects)
  <2>1. Object(a) \in ObjectStates /\ ObjectSound(Object(a))
    BY <1>1, LiveObject DEF PInv
  <2>2. o \in ObjectStates /\ ObjectSound(o)
    <3>1. Object(a).calls \in Seq(Nat) /\ call \in Nat
      BY <2>1, <1>2 DEF ObjectStates
    <3>2. Append(Object(a).calls, call) \in Seq(Nat) /\ Append(Object(a).calls, call) # <<>>
      BY <3>1
    <3>3. \A w \in BOOLEAN : [Object(a) EXCEPT !.calls = Append(@, call), !.wrapped = w] \in ObjectStates
      BY <2>1, <3>2 DEF ObjectStates
    <3>4. /\ o.calls = Append(Object(a).calls, call) /\ o.forced = Object(a).forced
          /\ o.value = Object(a).value /\ o.forcing = Object(a).forcing
      BY <2>1 DEF ObjectStates
    <3>5. o \in ObjectStates
      BY <3>3
    <3> HIDE DEF o
    <3> QED
      BY <2>1, <3>2, <3>4, <3>5 DEF ObjectSound
  <2>3. prom_id_counter' = prom_id_counter
    BY <1>1 DEF GetPromiseId
  <2> HIDE DEF o
  <2> QED
    BY <1>1, <2>2, <2>3, UpdateObject DEF PInv
<1> HIDE DEF o
<1>4. OriginsTyped' /\ fresh_promises' \subseteq fresh_promises
  BY <1>1, AssociatesArguments DEF PInv
<1>5. /\ StatesTyped' /\ DOMAIN promises' \subseteq DOMAIN promises \cup {id}
      /\ ~MapPromises => DOMAIN promises' = {}
      /\ status' \in {"running", "unmapped", "undefined"}
  BY <1>1, <1>2, MapsArgument
<1>6. Waiting' \subseteq Waiting \cup {id} /\ evaluated' = evaluated /\ unevaluated' = unevaluated
  BY <1>1 DEF ClassifyArguments, typeAnalysis, Waiting
<1>7. IsABag(evaluated') /\ IsABag(unevaluated')
  BY <1>6 DEF PInv, TypeOK
<1> QED
  BY <1>1, <1>2, <1>3, <1>4, <1>5, <1>6, <1>7, ProbeKeepsPInv

LEMMA CreatedKeepsPInv ==
  ASSUME PInv, NEW a \in Addresses, PromiseCreated(a)
  PROVE  PInv'
<1> DEFINE id == prom_id_counter
<1>1. /\ Allocate(a, FALSE) /\ prom_id_counter' = id + 1 /\ promise_ids' = Put(promise_ids, a, id)
      /\ fresh_promises' = fresh_promises \cup {id}
      /\ promises' = IF MapPromises THEN Insert(promises, id, PromiseState(TRUE)) ELSE promises
      /\ status' \in {"running", "unmapped", "undefined"} /\ phase = "tracing"
      /\ Waiting' \subseteq Waiting \cup {id}
      /\ UNCHANGED <<phase, passes, prom_neg_id_counter, promise_origin, call_id_counter,
                     evaluated, unevaluated>>
  BY DEF PromiseCreated, Tracing, Waiting
<1>2. /\ HeapSound' /\ heap' \in [Addresses -> 0..Len(objects')]
      /\ prom_id_counter' <= MaxPromises
  <2>1. HeapSound' /\ heap' \in [Addresses -> 0..Len(objects')]
    BY <1>1, AllocateObject DEF PInv
  <2> QED
    BY <1>1, <2>1, BoundsAssumption DEF HeapSound, PInv, TypeOK
<1>3. StatesTyped' /\ DOMAIN promises' = IF MapPromises THEN DOMAIN promises \cup {id} ELSE {}
  BY <1>1, InsertsState
<1>4. /\ prom_id_counter \in Nat /\ prom_neg_id_counter \in Int /\ prom_neg_id_counter <= 0
      /\ \A b \in DOMAIN promise_ids : promise_ids[b] \in Given /\ id \notin Given
      /\ Given' = Given \cup {id}
  BY <1>1, BoundsAssumption DEF PInv, TypeOK, Given
<1>5. /\ DOMAIN promise_ids' = DOMAIN promise_ids \cup {a}
      /\ \A b \in DOMAIN promise_ids' : promise_ids'[b] = IF b = a THEN id ELSE promise_ids[b]
  BY <1>1 DEF Put
<1>6. TypeOK'
  <2>1. DOMAIN promise_ids' \subseteq Addresses /\ \A b \in DOMAIN promise_ids' : promise_ids'[b] \in Given'
    BY <1>4, <1>5 DEF PInv, TypeOK
  <2>2. fresh_promises' \subseteq 0..(prom_id_counter' - 1) /\ prom_id_counter' \in 0..MaxPromises
    <3>1. fresh_promises \subseteq 0..(id - 1) /\ id \in Nat /\ prom_id_counter' <= MaxPromises
      BY <1>2, <1>4 DEF PInv, TypeOK
    <3> QED
      BY <3>1, <1>1, BoundsAssumption
  <2>3. IsABag(evaluated') /\ IsABag(unevaluated')
    BY <1>1 DEF PInv, TypeOK
  <2> QED
    <3>1. StatesTyped' /\ call_id_counter' \in 0..MaxCalls /\ OriginsTyped'
      BY <1>1, <1>3 DEF PInv, TypeOK, OriginsTyped
    <3>2. prom_neg_id_counter' \in Int /\ prom_neg_id_counter' <= 0 /\ phase' \in {"idle", "tracing"}
          /\ passes' \in 0..MaxPasses
      BY <1>1, <1>4 DEF PInv, TypeOK
    <3> QED
      BY <2>1, <2>2, <2>3, <3>1, <3>2, <1>1, <1>2 DEF TypeOK, StatesTyped, OriginsTyped, Given
<1>7. IdsDistinct'
  BY <1>4, <1>5 DEF PInv, IdsDistinct
<1>8. OnlyGiven'
  BY <1>1, <1>3, <1>4 DEF PInv, OnlyGiven
<1> QED
  BY <1>2, <1>6, <1>7, <1>8 DEF PInv

LEMMA UnmarkKeepsPInv ==
  ASSUME PInv, NEW a \in Addresses, GcPromiseUnmark(a)
  PROVE  PInv'
<1>1. /\ a \in Live /\ heap' = [heap EXCEPT ![a] = 0] /\ objects' = objects
      /\ promises' = IF MapPromises THEN Erase(promises, {IdAt(a)}) ELSE promises
      /\ promise_origin' = Erase(promise_origin, {IdAt(a)})
      /\ promise_ids' = Erase(promise_ids, {a})
      /\ prom_neg_id_counter' \in {prom_neg_id_counter, prom_neg_id_counter - 1}
      /\ phase = "tracing"
      /\ UNCHANGED <<phase, passes, status, prom_id_counter, fresh_promises, call_id_counter, evaluated>>
  BY DEF GcPromiseUnmark, Tracing
<1>2. HeapSound' /\ heap' \in [Addresses -> 0..Len(objects')]
  BY <1>1, CollectObject DEF PInv
<1>3. /\ IsABag(unevaluated') /\ Waiting' \subseteq Waiting
      /\ DOMAIN unevaluated' \subseteq DOMAIN unevaluated \cup Waiting
  <2>1. IsABag(unevaluated)
    BY DEF PInv, TypeOK
  <2>2. CASE "promise_type" \in Switch
    <3>1. unevaluated' = Counted(unevaluated, IdAt(a)) /\ StopWaiting(IdAt(a))
      BY <2>2 DEF GcPromiseUnmark
    <3>2. /\ IsABag(Counted(unevaluated, IdAt(a)))
          /\ DOMAIN Counted(unevaluated, IdAt(a)) \subseteq DOMAIN unevaluated \cup Waiting
      BY <2>1, CountsWaiting, ZenonT(60)
    <3> QED
      BY <3>1, <3>2, StopsWaiting
  <2>3. CASE "promise_type" \notin Switch
    BY <2>1, <2>3 DEF GcPromiseUnmark, Waiting
  <2> QED
    BY <2>2, <2>3
<1>4. /\ DOMAIN promise_ids' = DOMAIN promise_ids \ {a}
      /\ \A b \in DOMAIN promise_ids' : promise_ids'[b] = promise_ids[b]
      /\ DOMAIN promises' \subseteq DOMAIN promises
      /\ \A i \in DOMAIN promises' : promises'[i] = promises[i]
      /\ DOMAIN promise_origin' \subseteq DOMAIN promise_origin
      /\ \A i \in DOMAIN promise_origin' : promise_origin'[i] = promise_origin[i]
  BY <1>1 DEF Erase
<1>5. Given \subseteq Given'
  BY <1>1, BoundsAssumption DEF PInv, TypeOK, Given
<1>6. TypeOK'
  <2>1. DOMAIN promise_ids' \subseteq Addresses /\ \A b \in DOMAIN promise_ids' : promise_ids'[b] \in Given'
    BY <1>4, <1>5 DEF PInv, TypeOK, Given
  <2>2. prom_neg_id_counter' \in Int /\ prom_neg_id_counter' <= 0
    BY <1>1 DEF PInv, TypeOK
  <2>3. IsABag(evaluated')
    BY <1>1 DEF PInv, TypeOK
  <2> QED
    BY <2>1, <2>2, <2>3, <1>1, <1>2, <1>3, <1>4 DEF PInv, TypeOK, Given
<1>7. IdsDistinct'
  BY <1>4 DEF PInv, IdsDistinct
<1>8. OnlyGiven'
  BY <1>1, <1>3, <1>4, <1>5 DEF PInv, OnlyGiven
<1> QED
  BY <1>2, <1>6, <1>7, <1>8 DEF PInv

(* At the end of a pass no promise is under evaluation; else the objects are *)
(* what they were.                                                           *)
LEMMA ExitObjects ==
  ASSUME PInv, DyntraceExit
  PROVE  /\ HeapSound' /\ Live' = Live /\ DOMAIN objects' = DOMAIN objects
         /\ \A n \in DOMAIN objects :
              /\ objects'[n].calls = objects[n].calls /\ objects'[n].forced = objects[n].forced
              /\ objects'[n].wrapped = objects[n].wrapped /\ objects'[n].forcing = FALSE
              /\ objects'[n].heir = objects[n].heir
<1>1. /\ heap' = heap /\ prom_id_counter' = prom_id_counter
      /\ objects' = [n \in DOMAIN objects |-> [objects[n] EXCEPT !.forcing = FALSE]]
  BY DEF DyntraceExit, identity
<1>2. objects \in Seq(ObjectStates) /\ Len(objects) \in Nat /\ DOMAIN objects = 1..Len(objects)
  BY DEF PInv, HeapSound
<1>3. \A n \in DOMAIN objects : objects[n] \in ObjectStates
  <2> HIDE DEF ObjectStates
  <2> QED
    BY <1>2
<1>4. DOMAIN objects' = DOMAIN objects
      /\ \A n \in DOMAIN objects : objects'[n] = [objects[n] EXCEPT !.forcing = FALSE]
  BY <1>1
<1>5. \A o \in ObjectStates :
        /\ [o EXCEPT !.forcing = FALSE] \in ObjectStates
        /\ [o EXCEPT !.forcing = FALSE].calls = o.calls
        /\ [o EXCEPT !.forcing = FALSE].forced = o.forced
        /\ [o EXCEPT !.forcing = FALSE].heir = o.heir
        /\ ObjectSound(o) => ObjectSound([o EXCEPT !.forcing = FALSE])
        /\ [o EXCEPT !.forcing = FALSE].wrapped = o.wrapped
        /\ [o EXCEPT !.forcing = FALSE].forcing = FALSE
  BY DEF ObjectStates, ObjectSound
<1>6. objects' \in Seq(ObjectStates) /\ Len(objects') = Len(objects)
  <2> HIDE DEF ObjectStates
  <2>1. \A n \in 1..Len(objects) : objects'[n] \in ObjectStates
    BY <1>2, <1>3, <1>4, <1>5
  <2>2. objects' \in [1..Len(objects) -> ObjectStates]
    BY <2>1, <1>1, <1>2
  <2> QED
    BY <2>2, <1>2
<1>7. \A n \in DOMAIN objects :
        /\ objects'[n].calls = objects[n].calls /\ objects'[n].forced = objects[n].forced
        /\ objects'[n].wrapped = objects[n].wrapped /\ objects'[n].forcing = FALSE
        /\ objects'[n].heir = objects[n].heir
  <2> HIDE DEF ObjectStates
  <2> SUFFICES ASSUME NEW n \in DOMAIN objects
               PROVE  /\ objects'[n].calls = objects[n].calls /\ objects'[n].forced = objects[n].forced
                      /\ objects'[n].wrapped = objects[n].wrapped /\ objects'[n].forcing = FALSE
                      /\ objects'[n].heir = objects[n].heir
    OBVIOUS
  <2>1. objects[n] \in ObjectStates /\ objects'[n] = [objects[n] EXCEPT !.forcing = FALSE]
    BY <1>3, <1>4
  <2> QED
    BY <2>1, <1>5
<1>8. Live' = Live
  BY <1>1 DEF Live
<1>9. \A n \in DOMAIN objects' : ObjectSound(objects'[n])
  <2> HIDE DEF ObjectStates
  <2> QED
    BY <1>3, <1>4, <1>5 DEF PInv, HeapSound
<1>10. HeapSound'
  BY <1>1, <1>6, <1>8, <1>9 DEF PInv, HeapSound
<1> QED
  BY <1>4, <1>7, <1>8, <1>10

LEMMA NextPInv == PInv /\ [Next]_vars => PInv'
<1> SUFFICES ASSUME PInv, [Next]_vars PROVE PInv'
  OBVIOUS
<1>t. TypeOK /\ HeapSound /\ IdsDistinct /\ OnlyGiven
  BY DEF PInv
<1>1. CASE DyntraceEntry
  <2>1. /\ UNCHANGED <<interpreter, status, identity, association, promises, typeAnalysis>>
        /\ phase = "idle" /\ phase' = "tracing" /\ passes < MaxPasses /\ passes' = passes + 1
    BY <1>1 DEF DyntraceEntry
  <2>2. passes' \in 0..MaxPasses /\ passes' # 0
    BY <2>1, <1>t, BoundsAssumption DEF TypeOK
  <2>3. TypeOK'
    BY <2>1, <2>2, <1>t DEF TypeOK, interpreter, identity, association, typeAnalysis
  <2>4. HeapSound' /\ IdsDistinct'
    BY <2>1, <1>t DEF HeapSound, IdsDistinct, Live, interpreter, identity
  <2>5. OnlyGiven'
    BY <2>1, <2>2, <1>t DEF OnlyGiven, Given, Waiting, identity, association, typeAnalysis
  <2> QED
    BY <2>3, <2>4, <2>5 DEF PInv
<1>2. CASE DyntraceExit
  <2>1. /\ phase' = "idle" /\ DOMAIN promise_origin' = {} /\ DOMAIN promises' = {}
        /\ UNCHANGED <<heap, passes, status, identity, fresh_promises, call_id_counter, typeAnalysis>>
        /\ phase = "tracing"
    BY <1>2, <1>t DEF DyntraceExit, Tracing, EmptyMap, OnlyGiven
  <2>2. HeapSound' /\ Len(objects') = Len(objects)
    <3>1. HeapSound' /\ DOMAIN objects' = DOMAIN objects
      BY <1>2, ExitObjects
    <3> QED
      BY <3>1, <1>t DEF HeapSound
  <2>3. TypeOK'
    BY <2>1, <2>2, <1>t DEF TypeOK, identity, typeAnalysis
  <2>4. IdsDistinct' /\ OnlyGiven'
    BY <2>1, <1>t DEF IdsDistinct, OnlyGiven, Given, Waiting, identity, typeAnalysis
  <2> QED
    BY <2>2, <2>3, <2>4 DEF PInv
<1>3. CASE ClosureEntryNoPromise
  <2> DEFINE call == call_id_counter + 1
  <2>1. /\ call_id_counter < MaxCalls /\ call_id_counter' = call
        /\ AssociateArguments({0}, call) /\ Waiting' \subseteq Waiting
        /\ UNCHANGED <<heap, objects, phase, passes, status, identity, promises, evaluated, unevaluated>>
    BY <1>3 DEF ClosureEntryNoPromise, Waiting, interpreter
  <2>2. call_id_counter' \in 0..MaxCalls /\ call_id_counter <= call_id_counter' /\ call_id_counter \in Nat
    BY <2>1, <1>t, BoundsAssumption DEF TypeOK
  <2>3. /\ OriginsTyped' /\ fresh_promises' \subseteq fresh_promises
        /\ DOMAIN promise_origin \subseteq DOMAIN promise_origin' /\ phase = "tracing"
    BY <2>1, <1>3, <1>t, AssociatesArguments DEF ClosureEntryNoPromise, Tracing
  <2>4. StatesTyped'
    BY <2>1, <2>2, <1>t DEF TypeOK, StatesTyped
  <2>5. TypeOK'
    BY <2>1, <2>2, <2>3, <2>4, <1>t DEF TypeOK, OriginsTyped, StatesTyped, identity
  <2>6. HeapSound' /\ IdsDistinct'
    BY <2>1, <1>t DEF HeapSound, IdsDistinct, Live, identity
  <2>7. OnlyGiven'
    BY <2>1, <2>3, <1>t DEF OnlyGiven, Given, identity
  <2> QED
    BY <2>5, <2>6, <2>7 DEF PInv
<1>4. ASSUME NEW a \in Addresses,
             UntracedAllocation(a) \/ UntracedForce(a) \/ UntracedCollection(a) \/ Unwind(a)
      PROVE  PInv'
  <2>1. UNCHANGED <<phase, passes, status, identity, association, promises, typeAnalysis>>
    BY <1>4 DEF UntracedAllocation, UntracedForce, UntracedCollection, Unwind
  <2>2. prom_id_counter' = prom_id_counter
    BY <2>1 DEF identity
  <2>3. HeapSound' /\ heap' \in [Addresses -> 0..Len(objects')]
    <3>1. CASE UntracedAllocation(a)
      <4>1. PICK h \in BOOLEAN : Allocate(a, h)
        BY <3>1, AllocatesObject
      <4> QED
        BY <4>1, <2>2, <1>t, AllocateObject
    <3>2. CASE UntracedCollection(a)
      BY <3>2, <2>2, <1>t, CollectObject DEF UntracedCollection
    <3>3. CASE UntracedForce(a) \/ Unwind(a)
      <4> DEFINE valued  == [Object(a) EXCEPT !.value = TRUE]
                 unwound == [Object(a) EXCEPT !.forcing = FALSE]
      <4>1. a \in Live /\ (Update(a, valued) \/ Update(a, unwound))
        BY <3>3 DEF UntracedForce, Unwind
      <4>2. Object(a) \in ObjectStates /\ ObjectSound(Object(a))
        BY <4>1, <1>t, LiveObject
      <4>3. /\ valued \in ObjectStates /\ unwound \in ObjectStates
            /\ ObjectSound(valued) /\ ObjectSound(unwound)
        BY <4>2 DEF ObjectStates, ObjectSound
      <4> HIDE DEF valued, unwound
      <4>4. HeapSound' /\ heap' = heap /\ Len(objects') = Len(objects)
        BY <4>1, <4>3, <2>2, <1>t, UpdateObject
      <4> QED
        BY <4>4, <1>t DEF TypeOK
    <3> QED
      BY <1>4, <3>1, <3>2, <3>3
  <2>4. TypeOK'
    BY <2>1, <2>3, <1>t DEF TypeOK, identity, association, typeAnalysis
  <2>5. IdsDistinct' /\ OnlyGiven'
    BY <2>1, <1>t DEF IdsDistinct, OnlyGiven, Given, Waiting, identity, association, typeAnalysis
  <2> QED
    BY <2>3, <2>4, <2>5 DEF PInv
<1>5. CASE UNCHANGED vars
  <2>1. TypeOK' /\ HeapSound'
    BY <1>5, <1>t DEF vars, TypeOK, HeapSound, Live, interpreter, identity, association, typeAnalysis
  <2>2. IdsDistinct' /\ OnlyGiven'
    BY <1>5, <1>t DEF vars, IdsDistinct, OnlyGiven, Given, Waiting, identity, association, typeAnalysis
  <2> QED
    BY <2>1, <2>2 DEF PInv
<1> QED
  BY <1>1, <1>2, <1>3, <1>4, <1>5, AccessKeepsPInv, ForceKeepsPInv, ClosureEntryKeepsPInv,
     CreatedKeepsPInv, UnmarkKeepsPInv DEF Next

LEMMA SpecPInv == Spec => []PInv
  BY InitPInv, NextPInv, PTL DEF Spec

(* The types of the tracer's tables, the promise counters kept apart.        *)
THEOREM PromiseTypesCorrect == Spec => []TypeOK
<1>1. PInv => TypeOK
  BY DEF PInv
<1> QED
  BY <1>1, SpecPInv, PTL

-----------------------------------------------------------------------------
(* What the steps do to the objects. *)

LEMMA ForceObjects ==
  ASSUME PInv, NEW a \in Addresses,
         PromiseForceEntry(a) \/ PromiseForceExit(a) \/ Unwind(a) \/ UntracedForce(a)
           \/ PromiseValueAssign(a)
  PROVE  /\ a \in Live /\ heap' = heap /\ Live' = Live
         /\ \A b \in Live \ {a} : Object(b)' = Object(b)
         /\ Object(a)'.calls = Object(a).calls /\ Object(a)'.heir = Object(a).heir
         /\ PromiseForceEntry(a) \/ Unwind(a) \/ UntracedForce(a) \/ PromiseValueAssign(a) =>
              Object(a)'.forced = Object(a).forced
         /\ PromiseForceExit(a) => Object(a)'.forced = TRUE
         /\ PromiseForceExit(a) \/ Unwind(a) => Object(a)'.forcing = FALSE
         /\ UntracedForce(a) \/ PromiseValueAssign(a) => Object(a)'.forcing = Object(a).forcing
         /\ DOMAIN objects' = DOMAIN objects
         /\ \A n \in DOMAIN objects : objects'[n].wrapped = objects[n].wrapped
<1> DEFINE entered == [Object(a) EXCEPT !.forcing = TRUE]
           exited  == [Object(a) EXCEPT !.forcing = FALSE, !.forced = TRUE, !.value = TRUE]
           unwound == [Object(a) EXCEPT !.forcing = FALSE]
           valued  == [Object(a) EXCEPT !.value = TRUE]
<1>1. /\ a \in Live /\ prom_id_counter' = prom_id_counter
      /\ PromiseForceEntry(a) => Update(a, entered) /\ ~Object(a).value
      /\ PromiseForceExit(a) => Update(a, exited)
      /\ Unwind(a) => Update(a, unwound)
      /\ UntracedForce(a) \/ PromiseValueAssign(a) => Update(a, valued)
  BY DEF PromiseForceEntry, PromiseForceExit, Unwind, UntracedForce, PromiseValueAssign, SlotAccess,
     GetPromiseId, identity
<1>2. Object(a) \in ObjectStates /\ ObjectSound(Object(a))
      /\ Object(a) = objects[heap[a]] /\ heap[a] \in DOMAIN objects
  BY <1>1, LiveObject DEF PInv, HeapSound, Object
<1> DEFINE Results == {exited, unwound, valued} \cup {o \in {entered} : ~Object(a).value}
<1>3. \A o \in Results :
        /\ o \in ObjectStates /\ ObjectSound(o)
        /\ o.calls = Object(a).calls /\ o.wrapped = Object(a).wrapped /\ o.heir = Object(a).heir
  BY <1>2 DEF ObjectStates, ObjectSound
<1>4. /\ entered.forced = Object(a).forced /\ unwound.forced = Object(a).forced
      /\ valued.forced = Object(a).forced /\ exited.forced = TRUE
      /\ exited.forcing = FALSE /\ unwound.forcing = FALSE /\ valued.forcing = Object(a).forcing
  BY <1>2 DEF ObjectStates
<1> HIDE DEF entered, exited, unwound, valued
<1>5. PICK o \in Results : Update(a, o)
  BY <1>1
<1>6. /\ heap' = heap /\ Live' = Live /\ DOMAIN objects' = DOMAIN objects
      /\ Object(a)' = o /\ \A b \in Live : b # a => Object(b)' = Object(b)
      /\ \A n \in DOMAIN objects : objects'[n] = IF n = heap[a] THEN o ELSE objects[n]
  BY <1>1, <1>3, <1>5, UpdateObject DEF PInv
<1>7. \A n \in DOMAIN objects : objects'[n].wrapped = objects[n].wrapped
  BY <1>2, <1>3, <1>6
<1>8. \A p \in Results : Update(a, p) => Object(a)' = p
  BY <1>1, <1>3, UpdateObject DEF PInv
<1> QED
  BY <1>1, <1>3, <1>4, <1>6, <1>7, <1>8

(* The call is the last of those the promise was passed to, and the first if *)
(* it was passed to none.                                                    *)
LEMMA EntryObjects ==
  ASSUME PInv, NEW a \in Addresses, NEW mode \in {"default", "custom"}, NEW others \in BOOLEAN,
         ClosureEntry(a, mode, others)
  PROVE  /\ a \in Live /\ heap' = heap /\ Live' = Live
         /\ \A b \in Live \ {a} : Object(b)' = Object(b)
         /\ Object(a)'.calls # <<>> /\ Last(Object(a)'.calls) = call_id_counter'
         /\ Head(Object(a)'.calls)
              = IF Object(a).calls = <<>> THEN call_id_counter' ELSE Head(Object(a).calls)
         /\ Object(a)'.forced = Object(a).forced /\ Object(a)'.forcing = Object(a).forcing
         /\ Object(a)'.heir = Object(a).heir
         /\ Object(a)'.wrapped = (Object(a).calls = <<>> /\ ~Object(a).forced)
         /\ DOMAIN objects' = DOMAIN objects /\ heap[a] \in DOMAIN objects
         /\ objects'[heap[a]].wrapped = Object(a)'.wrapped
         /\ \A n \in DOMAIN objects \ {heap[a]} : objects'[n] = objects[n]
<1> DEFINE call == call_id_counter + 1
           w    == (Object(a).calls = <<>> /\ ~Object(a).forced)
           o    == [Object(a) EXCEPT !.calls = Append(@, call), !.wrapped = w]
<1>1. /\ a \in Live /\ call_id_counter' = call /\ Update(a, o) /\ prom_id_counter' = prom_id_counter
  BY DEF ClosureEntry, GetPromiseId
<1>2. /\ Object(a) \in ObjectStates /\ heap[a] \in DOMAIN objects /\ call \in Nat
      /\ Object(a).calls \in Seq(Nat) /\ w \in BOOLEAN /\ ObjectSound(Object(a))
  <2>1. Object(a) \in ObjectStates /\ heap[a] \in 1..Len(objects) /\ ObjectSound(Object(a))
    BY <1>1, LiveObject DEF PInv
  <2>2. heap[a] \in DOMAIN objects
    BY <2>1 DEF PInv, HeapSound
  <2>3. call \in Nat
    BY BoundsAssumption DEF PInv, TypeOK
  <2>4. Object(a).calls \in Seq(Nat)
    BY <2>1 DEF ObjectStates
  <2> QED
    BY <2>1, <2>2, <2>3, <2>4
<1>3. /\ Append(Object(a).calls, call) \in Seq(Nat) /\ Append(Object(a).calls, call) # <<>>
      /\ Last(Append(Object(a).calls, call)) = call
      /\ Head(Append(Object(a).calls, call))
           = IF Object(a).calls = <<>> THEN call ELSE Head(Object(a).calls)
  BY <1>2 DEF Last
<1>4. \A v \in BOOLEAN :
        LET p == [Object(a) EXCEPT !.calls = Append(@, call), !.wrapped = v] IN
        /\ p \in ObjectStates
        /\ p.calls = Append(Object(a).calls, call)
        /\ p.forced = Object(a).forced /\ p.forcing = Object(a).forcing /\ p.wrapped = v
        /\ p.heir = Object(a).heir /\ p.value = Object(a).value
  BY <1>2, <1>3 DEF ObjectStates
<1> HIDE DEF w
<1>5. /\ o \in ObjectStates /\ o.calls = Append(Object(a).calls, call)
      /\ o.forced = Object(a).forced /\ o.forcing = Object(a).forcing /\ o.wrapped = w
      /\ o.heir = Object(a).heir /\ o.value = Object(a).value
  BY <1>2, <1>4
<1> HIDE DEF o
<1>5a. ObjectSound(o)
  BY <1>2, <1>3, <1>5 DEF ObjectSound
<1>6. /\ heap' = heap /\ Live' = Live /\ DOMAIN objects' = DOMAIN objects
      /\ Object(a)' = o /\ \A b \in Live : b # a => Object(b)' = Object(b)
      /\ \A n \in DOMAIN objects : objects'[n] = IF n = heap[a] THEN o ELSE objects[n]
  BY <1>1, <1>5, <1>5a, UpdateObject DEF PInv
<1> QED
  BY <1>1, <1>2, <1>3, <1>5, <1>6 DEF w

-----------------------------------------------------------------------------
(* The ids that are used after a step. *)

GivenIds(m) == {m[a] : a \in DOMAIN m}

(* An id that comes into use was never given. *)
NewIdsUnused == \A id \in GivenIds(promise_ids') \ GivenIds(promise_ids) : id \notin Given

LEMMA NextNewIds == PInv /\ [Next]_vars => NewIdsUnused
<1> SUFFICES ASSUME PInv, [Next]_vars PROVE NewIdsUnused
  OBVIOUS
<1>1. CASE promise_ids' = promise_ids
  BY <1>1 DEF NewIdsUnused
<1>2. ASSUME NEW a \in Addresses, GetPromiseId(a) PROVE NewIdsUnused
  <2>1. /\ DOMAIN promise_ids' = DOMAIN promise_ids \cup {a} /\ promise_ids'[a] = IdAt(a)
        /\ \A b \in DOMAIN promise_ids : promise_ids'[b] = promise_ids[b]
        /\ (a \notin DOMAIN promise_ids => IdAt(a) \notin Given)
    BY <1>2, GetsId
  <2> QED
    BY <2>1 DEF GivenIds, NewIdsUnused
<1>3. ASSUME NEW a \in Addresses, PromiseCreated(a) PROVE NewIdsUnused
  <2>1. /\ DOMAIN promise_ids' = DOMAIN promise_ids \cup {a}
        /\ \A b \in DOMAIN promise_ids' :
             promise_ids'[b] = IF b = a THEN prom_id_counter ELSE promise_ids[b]
    BY <1>3 DEF PromiseCreated, Put
  <2>2. prom_id_counter \notin Given
    BY BoundsAssumption DEF Given, PInv, TypeOK
  <2> QED
    BY <2>1, <2>2 DEF GivenIds, NewIdsUnused
<1>4. ASSUME NEW a \in Addresses, GcPromiseUnmark(a) PROVE NewIdsUnused
  BY <1>4 DEF GcPromiseUnmark, Erase, GivenIds, NewIdsUnused
<1> QED
  BY <1>1, <1>2, <1>3, <1>4
  DEF Next, vars, identity, DyntraceEntry, DyntraceExit, UntracedAllocation, UntracedForce,
      UntracedCollection, ClosureEntry, ClosureEntryNoPromise, PromiseForceEntry, PromiseForceExit,
      Unwind, PromiseValueLookup, PromiseSlotAccess, PromiseValueAssign, SlotAccess

-----------------------------------------------------------------------------
(* Ids name one promise. *)

(* What is known of the promises that ids were first given to. *)
OwnersKnown ==
  /\ DOMAIN owner \subseteq Given
  /\ \A id \in DOMAIN owner : owner[id] \in 1..Len(objects)
  /\ \A a \in DOMAIN promise_ids : promise_ids[a] \in DOMAIN owner
  /\ \A a \in Live : Object(a).heir => a \in DOMAIN promise_ids

NamesInv == OwnersKnown /\ IdsNameOnePromise

(* Both hold on where the objects stay what they are to them. *)
LEMMA NamesKept ==
  ASSUME PInv, NamesInv, Live' = Live, heap' = heap, Len(objects') = Len(objects),
         \A b \in Live : Object(b)'.heir = Object(b).heir,
         identity' = identity
  PROVE  NamesInv'
  BY DEF NamesInv, OwnersKnown, IdsNameOnePromise, Given, identity

(* An id that a live promise is given has it as its owner. *)
LEMMA NamesGiven ==
  ASSUME PInv, NamesInv, Live' = Live, heap' = heap, Len(objects') = Len(objects),
         \A b \in Live : Object(b)'.heir = Object(b).heir,
         NEW a \in Live, GetPromiseId(a)
  PROVE  NamesInv'
<1>1. /\ DOMAIN promise_ids' = DOMAIN promise_ids \cup {a} /\ promise_ids'[a] = IdAt(a)
      /\ \A b \in DOMAIN promise_ids : promise_ids'[b] = promise_ids[b]
      /\ IdsDistinct' /\ Given \subseteq Given' /\ IdAt(a) \in Given'
      /\ a \notin DOMAIN promise_ids => IdAt(a) \notin Given
  BY GetsId DEF Live
<1>2. heap[a] \in 1..Len(objects) /\ \A b \in Live : heap[b] = heap[a] => b = a
  BY LiveObject DEF PInv, HeapSound
<1>3. CASE a \in DOMAIN promise_ids
  <2>1. IdAt(a) \in DOMAIN owner
    BY <1>3 DEF IdAt, NamesInv, OwnersKnown
  <2>2. owner' = owner
    BY <2>1 DEF GetPromiseId, Insert
  <2>3. promise_ids' = promise_ids
    BY <1>3 DEF GetPromiseId, Insert
  <2> QED
    BY <1>1, <2>2, <2>3 DEF NamesInv, OwnersKnown, IdsNameOnePromise
<1>4. CASE a \notin DOMAIN promise_ids
  <2> DEFINE id == IdAt(a)
  <2>1. id \notin DOMAIN owner
    BY <1>1, <1>4 DEF NamesInv, OwnersKnown
  <2>2. /\ DOMAIN owner' = DOMAIN owner \cup {id} /\ owner'[id] = heap[a]
        /\ \A i \in DOMAIN owner : owner'[i] = owner[i]
    BY <2>1 DEF GetPromiseId, Insert, Put
  <2> HIDE DEF id
  <2>3. ~Object(a).heir
    BY <1>4 DEF NamesInv, OwnersKnown
  <2>4. OwnersKnown'
    <3>1. DOMAIN owner' \subseteq Given'
      BY <1>1, <2>2 DEF NamesInv, OwnersKnown, id
    <3>2. \A i \in DOMAIN owner' : owner'[i] \in 1..Len(objects')
      BY <1>2, <2>2 DEF NamesInv, OwnersKnown
    <3>3. \A b \in DOMAIN promise_ids' : promise_ids'[b] \in DOMAIN owner'
      BY <1>1, <2>2 DEF NamesInv, OwnersKnown, id
    <3>4. \A b \in Live' : Object(b)'.heir => b \in DOMAIN promise_ids'
      BY <1>1 DEF NamesInv, OwnersKnown
    <3> QED
      BY <3>1, <3>2, <3>3, <3>4 DEF OwnersKnown
  <2>5. \A b, c \in DOMAIN promise_ids' : promise_ids'[b] = promise_ids'[c] => b = c
    BY <1>1 DEF IdsDistinct
  <2>6. ASSUME NEW b \in Live', NEW i \in DOMAIN owner', owner'[i] = heap'[b]
        PROVE  b \in DOMAIN promise_ids' /\ promise_ids'[b] = i
    <3>1. CASE i = id
      BY <1>1, <1>2, <2>2, <2>6, <3>1 DEF id
    <3>2. CASE i # id
      <4>1. i \in DOMAIN owner /\ owner[i] = heap[b] /\ b \in Live
        BY <2>2, <2>6, <3>2
      <4> QED
        BY <1>1, <4>1 DEF NamesInv, IdsNameOnePromise
    <3> QED
      BY <3>1, <3>2
  <2>7. ASSUME NEW b \in Live' \cap DOMAIN promise_ids'
        PROVE  promise_ids'[b] \in DOMAIN owner' /\ (owner'[promise_ids'[b]] = heap'[b] <=> ~Object(b)'.heir)
    <3>1. CASE b = a
      BY <1>1, <2>2, <2>3, <3>1 DEF id
    <3>2. CASE b # a
      <4>1. b \in Live \cap DOMAIN promise_ids /\ promise_ids'[b] = promise_ids[b]
        BY <1>1, <3>2
      <4>2. promise_ids[b] \in DOMAIN owner /\ (owner[promise_ids[b]] = heap[b] <=> ~Object(b).heir)
        BY <4>1 DEF NamesInv, IdsNameOnePromise
      <4> QED
        BY <2>2, <4>1, <4>2
    <3> QED
      BY <3>1, <3>2
  <2> QED
    BY <2>4, <2>5, <2>6, <2>7 DEF NamesInv, IdsNameOnePromise
<1> QED
  BY <1>3, <1>4

(* A promise allocated unseen has the id of its address, which is another's, *)
(* or none.                                                                  *)
LEMMA NamesUntraced ==
  ASSUME PInv, NamesInv, NEW a \in Addresses, UntracedAllocation(a)
  PROVE  NamesInv'
<1>h. PICK h \in BOOLEAN :
        /\ Allocate(a, h) /\ prom_id_counter' \in {prom_id_counter, prom_id_counter + 1}
        /\ h <=> a \in DOMAIN promise_ids
  BY AllocatesObject
<1>1. /\ a \notin Live /\ Live' = Live \cup {a} /\ HeapSound'
      /\ Object(a)' = NewObject(h)
      /\ \A b \in Live : heap'[b] = heap[b] /\ Object(b)' = Object(b)
  BY <1>h, AllocateObject DEF PInv
<1>2. Object(a)'.heir <=> h
  BY <1>1, NewObjectFields
<1>3. heap'[a] = Len(objects) + 1 /\ Len(objects) \in Nat /\ Len(objects') = Len(objects) + 1
  BY DEF UntracedAllocation, Allocate, PInv, TypeOK, HeapSound
<1>4. UNCHANGED <<promise_ids, owner, prom_id_counter, prom_neg_id_counter>>
  BY DEF UntracedAllocation, identity
<1>5. \A id \in DOMAIN owner : owner[id] \in 1..Len(objects) /\ owner[id] # heap'[a]
  BY <1>3 DEF NamesInv, OwnersKnown
<1>6. OwnersKnown'
  <2>1. \A id \in DOMAIN owner' : owner'[id] \in 1..Len(objects')
    BY <1>3, <1>4, <1>5
  <2> QED
    BY <1>1, <1>2, <1>4, <1>h, <2>1 DEF NamesInv, OwnersKnown, Given
<1>7. IdsNameOnePromise'
  BY <1>1, <1>2, <1>4, <1>5, <1>h DEF NamesInv, OwnersKnown, IdsNameOnePromise
<1> QED
  BY <1>6, <1>7 DEF NamesInv

(* A promise whose creation is seen gets an id that no promise had. *)
LEMMA NamesCreated ==
  ASSUME PInv, NamesInv, NEW a \in Addresses, PromiseCreated(a)
  PROVE  NamesInv'
<1> DEFINE id == prom_id_counter
<1>1. /\ a \notin Live /\ Live' = Live \cup {a}
      /\ Object(a)' = NewObject(FALSE)
      /\ \A b \in Live : heap'[b] = heap[b] /\ Object(b)' = Object(b)
  BY AllocateObject DEF PromiseCreated, PInv
<1>2. ~Object(a)'.heir
  BY <1>1, NewObjectFields
<1>3. heap'[a] = Len(objects) + 1 /\ Len(objects) \in Nat /\ Len(objects') = Len(objects) + 1
  BY DEF PromiseCreated, Allocate, PInv, TypeOK, HeapSound
<1>4. /\ DOMAIN promise_ids' = DOMAIN promise_ids \cup {a}
      /\ \A b \in DOMAIN promise_ids' : promise_ids'[b] = IF b = a THEN id ELSE promise_ids[b]
  BY DEF PromiseCreated, Put
<1>5. id \notin Given /\ Given' = Given \cup {id}
  BY BoundsAssumption DEF PromiseCreated, Given, PInv, TypeOK
<1>6. id \notin DOMAIN owner
  BY <1>5 DEF NamesInv, OwnersKnown
<1>7. /\ DOMAIN owner' = DOMAIN owner \cup {id} /\ owner'[id] = heap'[a]
      /\ \A i \in DOMAIN owner : owner'[i] = owner[i]
  BY <1>3, <1>6 DEF PromiseCreated, Insert, Put
<1>8. \A i \in DOMAIN owner : owner[i] \in 1..Len(objects) /\ owner[i] # heap'[a]
  BY <1>3 DEF NamesInv, OwnersKnown
<1>d. IdsDistinct'
  BY CreatedKeepsPInv DEF PInv
<1> HIDE DEF id
<1>9. OwnersKnown'
  <2>1. \A i \in DOMAIN owner' : owner'[i] \in 1..Len(objects')
    BY <1>3, <1>7, <1>8
  <2>2. \A b \in DOMAIN promise_ids' : promise_ids'[b] \in DOMAIN owner'
    BY <1>4, <1>7 DEF NamesInv, OwnersKnown
  <2>3. \A b \in Live' : Object(b)'.heir => b \in DOMAIN promise_ids'
    BY <1>1, <1>2, <1>4 DEF NamesInv, OwnersKnown
  <2> QED
    BY <1>5, <1>7, <2>1, <2>2, <2>3 DEF NamesInv, OwnersKnown
<1>10. ASSUME NEW b \in Live', NEW i \in DOMAIN owner', owner'[i] = heap'[b]
       PROVE  b \in DOMAIN promise_ids' /\ promise_ids'[b] = i
  <2>1. CASE b = a
    BY <1>4, <1>7, <1>8, <1>10, <2>1
  <2>2. CASE b # a
    <3>1. b \in Live /\ heap'[b] = heap[b] /\ heap[b] \in 1..Len(objects)
      BY <1>1, <2>2, LiveObject DEF PInv
    <3>2. i # id
      BY <1>3, <1>7, <1>10, <3>1
    <3>3. i \in DOMAIN owner /\ owner[i] = heap[b]
      BY <1>7, <1>10, <3>1, <3>2
    <3> QED
      BY <1>4, <2>2, <3>1, <3>3 DEF NamesInv, IdsNameOnePromise
  <2> QED
    BY <2>1, <2>2
<1>11. ASSUME NEW b \in Live' \cap DOMAIN promise_ids'
       PROVE  promise_ids'[b] \in DOMAIN owner' /\ (owner'[promise_ids'[b]] = heap'[b] <=> ~Object(b)'.heir)
  <2>1. CASE b = a
    BY <1>2, <1>4, <1>7, <2>1
  <2>2. CASE b # a
    <3>1. b \in Live \cap DOMAIN promise_ids /\ promise_ids'[b] = promise_ids[b]
      BY <1>1, <1>4, <2>2
    <3>2. promise_ids[b] \in DOMAIN owner /\ (owner[promise_ids[b]] = heap[b] <=> ~Object(b).heir)
      BY <3>1 DEF NamesInv, IdsNameOnePromise
    <3> QED
      BY <1>1, <1>7, <3>1, <3>2
  <2> QED
    BY <2>1, <2>2
<1> QED
  BY <1>9, <1>10, <1>11, <1>d DEF NamesInv, IdsNameOnePromise, IdsDistinct

(* A collection takes a promise away, and, if it is seen, its id. *)
LEMMA NamesCollected ==
  ASSUME PInv, NamesInv, NEW a \in Addresses, UntracedCollection(a) \/ GcPromiseUnmark(a)
  PROVE  NamesInv'
<1>1. a \in Live /\ heap' = [heap EXCEPT ![a] = 0] /\ objects' = objects
      /\ prom_id_counter' = prom_id_counter
  BY DEF UntracedCollection, GcPromiseUnmark, identity
<1>2. Live' = Live \ {a} /\ \A b \in Live \ {a} : heap'[b] = heap[b] /\ Object(b)' = Object(b)
  BY <1>1, CollectObject DEF PInv
<1>3. CASE UntracedCollection(a)
  <2>1. identity' = identity
    BY <1>3 DEF UntracedCollection
  <2> QED
    BY <1>1, <1>2, <2>1 DEF NamesInv, OwnersKnown, IdsNameOnePromise, Given, identity
<1>4. CASE GcPromiseUnmark(a)
  <2> DEFINE id == IdAt(a)
  <2>1. /\ DOMAIN promise_ids' = DOMAIN promise_ids \ {a}
        /\ \A b \in DOMAIN promise_ids' : promise_ids'[b] = promise_ids[b]
    BY <1>4 DEF GcPromiseUnmark, Erase
  <2>2. /\ DOMAIN owner' = DOMAIN owner \cup {id}
        /\ \A i \in DOMAIN owner : owner'[i] = owner[i]
        /\ id \notin DOMAIN owner => owner'[id] = heap[a]
    BY <1>4 DEF GcPromiseUnmark, Insert, Put
  <2>3. /\ id \in Given' /\ Given \subseteq Given' /\ heap[a] \in 1..Len(objects)
        /\ \A b \in Live : heap[b] = heap[a] => b = a
    <3>1. heap[a] \in 1..Len(objects) /\ \A b \in Live : heap[b] = heap[a] => b = a
      BY <1>1, LiveObject DEF PInv, HeapSound
    <3>2. /\ prom_neg_id_counter' = IF a \in DOMAIN promise_ids THEN prom_neg_id_counter
                                    ELSE prom_neg_id_counter - 1
          /\ id = IF a \in DOMAIN promise_ids THEN promise_ids[a] ELSE prom_neg_id_counter - 1
      BY <1>4 DEF GcPromiseUnmark, IdAt
    <3>3. prom_neg_id_counter \in Int /\ prom_neg_id_counter <= 0 /\ prom_id_counter \in Nat
          /\ \A b \in DOMAIN promise_ids : promise_ids[b] \in prom_neg_id_counter..(prom_id_counter - 1)
      BY BoundsAssumption DEF PInv, TypeOK
    <3> HIDE DEF id
    <3> QED
      BY <1>1, <3>1, <3>2, <3>3 DEF Given
  <2> HIDE DEF id
  <2>4. OwnersKnown'
    <3>1. DOMAIN owner' \subseteq Given'
      BY <2>2, <2>3 DEF NamesInv, OwnersKnown
    <3>2. \A i \in DOMAIN owner' : owner'[i] \in 1..Len(objects')
      BY <1>1, <2>2, <2>3 DEF NamesInv, OwnersKnown
    <3>3. \A b \in DOMAIN promise_ids' : promise_ids'[b] \in DOMAIN owner'
      BY <2>1, <2>2 DEF NamesInv, OwnersKnown
    <3>4. \A b \in Live' : Object(b)'.heir => b \in DOMAIN promise_ids'
      BY <1>2, <2>1 DEF NamesInv, OwnersKnown
    <3> QED
      BY <3>1, <3>2, <3>3, <3>4 DEF OwnersKnown
  <2>5. ASSUME NEW b \in Live', NEW i \in DOMAIN owner', owner'[i] = heap'[b]
        PROVE  b \in DOMAIN promise_ids' /\ promise_ids'[b] = i
    <3>1. b \in Live /\ b # a /\ heap'[b] = heap[b]
      BY <1>2
    <3>2. i \in DOMAIN owner
      BY <2>2, <2>3, <2>5, <3>1
    <3>3. owner[i] = heap[b]
      BY <2>2, <2>5, <3>1, <3>2
    <3> QED
      BY <2>1, <3>1, <3>2, <3>3 DEF NamesInv, IdsNameOnePromise
  <2>6. ASSUME NEW b \in Live' \cap DOMAIN promise_ids'
        PROVE  promise_ids'[b] \in DOMAIN owner' /\ (owner'[promise_ids'[b]] = heap'[b] <=> ~Object(b)'.heir)
    <3>1. b \in Live \cap DOMAIN promise_ids /\ promise_ids'[b] = promise_ids[b]
          /\ heap'[b] = heap[b] /\ Object(b)' = Object(b)
      BY <1>2, <2>1
    <3>2. promise_ids[b] \in DOMAIN owner /\ (owner[promise_ids[b]] = heap[b] <=> ~Object(b).heir)
      BY <3>1 DEF NamesInv, IdsNameOnePromise
    <3> QED
      BY <2>2, <3>1, <3>2
  <2>7. \A b, c \in DOMAIN promise_ids' : promise_ids'[b] = promise_ids'[c] => b = c
    BY <2>1 DEF NamesInv, IdsNameOnePromise
  <2> QED
    BY <2>4, <2>5, <2>6, <2>7 DEF NamesInv, IdsNameOnePromise
<1> QED
  BY <1>3, <1>4

LEMMA NextNames == PInv /\ NamesInv /\ [Next]_vars => NamesInv'
<1> SUFFICES ASSUME PInv, NamesInv, [Next]_vars PROVE NamesInv'
  OBVIOUS
<1>l. Len(objects) \in Nat /\ \A b \in Live : heap[b] \in DOMAIN objects
  BY LiveObject DEF PInv, HeapSound
<1>1. CASE UNCHANGED <<interpreter, identity>>
  <2>1. Live' = Live /\ heap' = heap /\ objects' = objects /\ identity' = identity
    BY <1>1 DEF Live, interpreter
  <2>2. \A b \in Live : Object(b)' = Object(b)
    BY <2>1 DEF Object
  <2> QED
    BY <2>1, <2>2, NamesKept
<1>2. CASE DyntraceExit
  <2>1. /\ Live' = Live /\ HeapSound' /\ heap' = heap /\ identity' = identity
        /\ DOMAIN objects' = DOMAIN objects
        /\ \A n \in DOMAIN objects : objects'[n].heir = objects[n].heir
    BY <1>2, ExitObjects DEF DyntraceExit
  <2>2. Len(objects') = Len(objects)
    BY <2>1 DEF PInv, HeapSound
  <2>3. \A b \in Live : Object(b)'.heir = Object(b).heir
    BY <1>l, <2>1 DEF Object
  <2> QED
    BY <2>1, <2>2, <2>3, NamesKept
<1>3. ASSUME NEW a \in Addresses, UntracedForce(a) \/ Unwind(a) PROVE NamesInv'
  <2>1. /\ Live' = Live /\ heap' = heap /\ DOMAIN objects' = DOMAIN objects
        /\ \A b \in Live : Object(b)'.heir = Object(b).heir
    BY <1>3, ForceObjects
  <2>2. Len(objects') = Len(objects) /\ identity' = identity
    BY <1>3, <1>l DEF UntracedForce, Unwind, Update
  <2> QED
    BY <2>1, <2>2, NamesKept
<1>4. ASSUME NEW a \in Addresses,
             PromiseForceEntry(a) \/ PromiseForceExit(a) \/ PromiseValueAssign(a)
      PROVE  NamesInv'
  <2>1. /\ Live' = Live /\ heap' = heap /\ a \in Live
        /\ \A b \in Live : Object(b)'.heir = Object(b).heir
    BY <1>4, ForceObjects
  <2>2. Len(objects') = Len(objects) /\ GetPromiseId(a)
    BY <1>4, <1>l DEF PromiseForceEntry, PromiseForceExit, PromiseValueAssign, SlotAccess, Update
  <2> QED
    BY <2>1, <2>2, NamesGiven
<1>5. ASSUME NEW a \in Addresses, PromiseValueLookup(a) \/ PromiseSlotAccess(a) PROVE NamesInv'
  <2>1. /\ Live' = Live /\ heap' = heap /\ objects' = objects /\ a \in Live /\ GetPromiseId(a)
    BY <1>5 DEF PromiseValueLookup, PromiseSlotAccess, SlotAccess, interpreter, Live
  <2>2. \A b \in Live : Object(b)'.heir = Object(b).heir
    BY <2>1 DEF Object
  <2> QED
    BY <2>1, <2>2, NamesGiven
<1>6. ASSUME NEW a \in Addresses, NEW mode \in {"default", "custom"}, NEW others \in BOOLEAN,
             ClosureEntry(a, mode, others)
      PROVE  NamesInv'
  <2>1. /\ Live' = Live /\ heap' = heap /\ a \in Live
        /\ \A b \in Live : Object(b)'.heir = Object(b).heir
    BY <1>6, EntryObjects
  <2>2. Len(objects') = Len(objects) /\ GetPromiseId(a)
    BY <1>6, <1>l DEF ClosureEntry, Update
  <2> QED
    BY <2>1, <2>2, NamesGiven
<1> QED
  BY <1>1, <1>2, <1>3, <1>4, <1>5, <1>6, NamesUntraced, NamesCreated, NamesCollected
  DEF Next, vars, DyntraceEntry, ClosureEntryNoPromise

(* The id at the address of a live promise is that promise's for its life,   *)
(* and was no other's before, for any reuse of addresses, unless it was      *)
(* allocated unseen where the tracer still had the entry of a dead one: then *)
(* it always is that one's.                                                  *)
THEOREM PromiseIdsTrue == Spec => []IdsNameOnePromise
<1>1. Init => NamesInv
  BY DEF Init, NamesInv, OwnersKnown, IdsNameOnePromise, Live, EmptyMap
<1>2. NamesInv => IdsNameOnePromise
  BY DEF NamesInv
<1> QED
  BY <1>1, <1>2, SpecPInv, NextNames, PTL DEF Spec

-----------------------------------------------------------------------------
(* What a step leaves of a promise whose id is known. *)

KnownKept(b) ==
  /\ b \in Known' /\ promise_ids'[b] = promise_ids[b]
  /\ Object(b)'.calls = Object(b).calls /\ Object(b)'.wrapped = Object(b).wrapped
  /\ ~PromiseForceExit(b) => Object(b)'.forced = Object(b).forced

LEMMA UnmarkKeepsKnown ==
  ASSUME PInv, NEW a \in Addresses, GcPromiseUnmark(a), NEW b \in Known \ {a}
  PROVE  KnownKept(b)
<1>1. b \in Live' /\ Object(b)' = Object(b)
  BY CollectObject DEF GcPromiseUnmark, PInv, Known
<1>2. b \in DOMAIN promise_ids' /\ promise_ids'[b] = promise_ids[b]
  BY DEF GcPromiseUnmark, Erase, Known
<1> QED
  BY <1>1, <1>2 DEF KnownKept, Known

LEMMA EntryKeepsKnown ==
  ASSUME PInv, NEW a \in Addresses, NEW mode \in {"default", "custom"}, NEW others \in BOOLEAN,
         ClosureEntry(a, mode, others), NEW b \in Known \ {a}
  PROVE  KnownKept(b)
<1>1. b \in DOMAIN promise_ids' /\ promise_ids'[b] = promise_ids[b]
  BY GetsId DEF ClosureEntry, Known
<1>2. Live' = Live /\ Object(b)' = Object(b)
  BY EntryObjects DEF Known
<1> QED
  BY <1>1, <1>2 DEF KnownKept, Known

(* Only a collection and a call that has it as an argument change it. *)
KeepingStep ==
  \/ DyntraceEntry \/ DyntraceExit \/ ClosureEntryNoPromise
  \/ \E a \in Addresses :
       \/ UntracedAllocation(a) \/ UntracedForce(a) \/ PromiseCreated(a) \/ PromiseForceEntry(a)
       \/ PromiseForceExit(a) \/ Unwind(a) \/ PromiseValueLookup(a) \/ PromiseSlotAccess(a)
       \/ PromiseValueAssign(a)

LEMMA StepKeepsKnown ==
  ASSUME PInv, KeepingStep, NEW b \in Known
  PROVE  KnownKept(b)
<1>1. b \in Live /\ b \in DOMAIN promise_ids /\ b \in Addresses
      /\ heap[b] \in DOMAIN objects /\ Object(b) = objects[heap[b]]
  BY LiveObject DEF Known, Live, PInv, HeapSound, Object
<1>2. ASSUME UNCHANGED <<heap, objects, promise_ids>> PROVE KnownKept(b)
  BY <1>1, <1>2 DEF KnownKept, Known, Live, Object
<1>3. CASE DyntraceEntry \/ ClosureEntryNoPromise
  BY <1>2, <1>3 DEF DyntraceEntry, ClosureEntryNoPromise, interpreter, identity
<1>4. CASE DyntraceExit
  <2>1. promise_ids' = promise_ids /\ heap' = heap /\ phase' = "idle"
    BY <1>4 DEF DyntraceExit, identity
  <2>2. Live' = Live /\ Object(b)' = objects'[heap[b]]
    BY <2>1 DEF Live, Object
  <2>3. \A n \in DOMAIN objects :
          /\ objects'[n].calls = objects[n].calls /\ objects'[n].wrapped = objects[n].wrapped
          /\ objects'[n].forced = objects[n].forced
    BY <1>4, ExitObjects
  <2> QED
    BY <1>1, <2>1, <2>2, <2>3 DEF KnownKept, Known
<1>5. ASSUME NEW a \in Addresses, UntracedAllocation(a) PROVE KnownKept(b)
  <2>1. PICK h \in BOOLEAN :
          Allocate(a, h) /\ prom_id_counter' \in {prom_id_counter, prom_id_counter + 1}
    BY <1>5, AllocatesObject
  <2>2. Live' = Live \cup {a} /\ Object(b)' = Object(b)
    BY <1>1, <2>1, AllocateObject DEF PInv
  <2> QED
    BY <1>1, <1>5, <2>2 DEF UntracedAllocation, identity, KnownKept, Known
<1>6. ASSUME NEW a \in Addresses, UntracedForce(a) \/ Unwind(a) PROVE KnownKept(b)
  <2>1. promise_ids' = promise_ids
    BY <1>6 DEF UntracedForce, Unwind, identity
  <2>2. /\ Live' = Live /\ heap' = heap /\ \A c \in Live \ {a} : Object(c)' = Object(c)
        /\ Object(a)'.calls = Object(a).calls
        /\ \A n \in DOMAIN objects : objects'[n].wrapped = objects[n].wrapped
    BY <1>6, ForceObjects
  <2>3. Object(b)'.wrapped = Object(b).wrapped
    BY <1>1, <2>2 DEF Object
  <2>4. Object(b)'.forced = Object(b).forced
    <3>1. Object(a)'.forced = Object(a).forced
      BY <1>6, ForceObjects
    <3> QED
      BY <1>1, <2>2, <3>1
  <2> QED
    BY <1>1, <2>1, <2>2, <2>3, <2>4 DEF KnownKept, Known
<1>7. ASSUME NEW a \in Addresses, PromiseCreated(a) PROVE KnownKept(b)
  <2>1. a \notin Live /\ Live' = Live \cup {a} /\ \A c \in Live : Object(c)' = Object(c)
    BY <1>7, AllocateObject DEF PromiseCreated, PInv
  <2>2. b \in DOMAIN promise_ids' /\ promise_ids'[b] = promise_ids[b]
    BY <1>1, <1>7, <2>1 DEF PromiseCreated, Put
  <2> QED
    BY <1>1, <2>1, <2>2 DEF KnownKept, Known
<1>8. ASSUME NEW a \in Addresses,
             PromiseForceEntry(a) \/ PromiseForceExit(a) \/ PromiseValueAssign(a)
      PROVE  KnownKept(b)
  <2>1. b \in DOMAIN promise_ids' /\ promise_ids'[b] = promise_ids[b]
    BY <1>1, <1>8, GetsId DEF PromiseForceEntry, PromiseForceExit, PromiseValueAssign, SlotAccess
  <2>2. /\ Live' = Live /\ heap' = heap /\ \A c \in Live \ {a} : Object(c)' = Object(c)
        /\ Object(a)'.calls = Object(a).calls
        /\ \A n \in DOMAIN objects : objects'[n].wrapped = objects[n].wrapped
    BY <1>8, ForceObjects
  <2>3. Object(b)'.wrapped = Object(b).wrapped
    BY <1>1, <2>2 DEF Object
  <2>4. ~PromiseForceExit(b) => Object(b)'.forced = Object(b).forced
    <3>1. PromiseForceEntry(a) \/ PromiseValueAssign(a) => Object(a)'.forced = Object(a).forced
      BY ForceObjects
    <3> QED
      BY <1>1, <1>8, <2>2, <3>1
  <2> QED
    BY <1>1, <2>1, <2>2, <2>3, <2>4 DEF KnownKept, Known
<1>9. ASSUME NEW a \in Addresses, PromiseValueLookup(a) \/ PromiseSlotAccess(a) PROVE KnownKept(b)
  <2>1. b \in DOMAIN promise_ids' /\ promise_ids'[b] = promise_ids[b] /\ heap' = heap /\ objects' = objects
    BY <1>1, <1>9, GetsId DEF PromiseValueLookup, PromiseSlotAccess, SlotAccess, interpreter
  <2> QED
    BY <1>1, <2>1 DEF KnownKept, Known, Live, Object
<1> QED
  BY <1>3, <1>4, <1>5, <1>6, <1>7, <1>8, <1>9 DEF KeepingStep

-----------------------------------------------------------------------------
(* PromiseMapper follows the heap. *)

(* It does if what is mapped as an argument was, and its promise was kept. *)
LEMMA MappingKept ==
  ASSUME PInv, MapperFollowsHeap,
         \A i \in DOMAIN promises' : promises'[i].argument =>
           i \in DOMAIN promises /\ promises'[i] = promises[i],
         \A b \in Known : promise_ids[b] \in DOMAIN promises' => KnownKept(b)
  PROVE  MapperFollowsHeap'
<1> SUFFICES ASSUME NEW i \in DOMAIN promises', promises'[i].argument
             PROVE  \E a \in Live' \cap DOMAIN promise_ids' :
                      /\ promise_ids'[a] = i
                      /\ Object(a)'.calls # <<>> /\ promises'[i].call_id = Last(Object(a)'.calls)
  BY DEF MapperFollowsHeap
<1>1. i \in DOMAIN promises /\ promises'[i] = promises[i]
  OBVIOUS
<1>2. PICK a \in Live \cap DOMAIN promise_ids :
        /\ promise_ids[a] = i
        /\ Object(a).calls # <<>> /\ promises[i].call_id = Last(Object(a).calls)
  BY <1>1 DEF MapperFollowsHeap
<1>3. KnownKept(a)
  BY <1>2 DEF Known
<1>4. a \in Live' \cap DOMAIN promise_ids' /\ promise_ids'[a] = i
      /\ Object(a)'.calls = Object(a).calls
  BY <1>2, <1>3 DEF KnownKept, Known
<1> QED
  BY <1>1, <1>2, <1>4

LEMMA NextMapper == PInv /\ MapperFollowsHeap /\ [Next]_vars => MapperFollowsHeap'
<1>1. ASSUME PInv, MapperFollowsHeap, UNCHANGED vars PROVE MapperFollowsHeap'
  BY <1>1 DEF vars, MapperFollowsHeap, Live, Object, interpreter, identity
<1> SUFFICES ASSUME PInv, MapperFollowsHeap, Next PROVE MapperFollowsHeap'
  BY <1>1
<1>2. CASE (phase = "idle" /\ promises' = promises) \/ DyntraceExit
  <2>1. DOMAIN promises' = {}
    BY <1>2 DEF PInv, OnlyGiven, DyntraceExit, EmptyMap
  <2> QED
    BY <2>1 DEF MapperFollowsHeap
<1>3. ASSUME NEW a \in Addresses, GcPromiseUnmark(a) PROVE MapperFollowsHeap'
  <2>1. /\ a \in Live /\ phase = "tracing"
        /\ promises' = IF MapPromises THEN Erase(promises, {IdAt(a)}) ELSE promises
    BY <1>3 DEF GcPromiseUnmark, Tracing
  <2>2. \A i \in DOMAIN promises' : i \in DOMAIN promises /\ promises'[i] = promises[i]
    BY <2>1 DEF Erase
  <2>3. IdAt(a) \notin DOMAIN promises'
    BY <2>1 DEF Erase, PInv, OnlyGiven
  <2>4. ASSUME NEW b \in Known, promise_ids[b] \in DOMAIN promises' PROVE KnownKept(b)
    <3>1. b # a
      BY <2>3, <2>4 DEF IdAt, Known
    <3> QED
      BY <1>3, <3>1, UnmarkKeepsKnown
  <2> QED
    BY <2>2, <2>4, MappingKept
<1>4. ASSUME NEW a \in Addresses, NEW mode \in {"default", "custom"}, NEW others \in BOOLEAN,
             ClosureEntry(a, mode, others)
      PROVE  MapperFollowsHeap'
  <2> DEFINE id == IdAt(a)
  <2>1. /\ a \in Live /\ call_id_counter' = call_id_counter + 1
        /\ MapArgument(id, mode, call_id_counter + 1) /\ GetPromiseId(a)
        /\ call_id_counter + 1 \in 1..MaxCalls
    BY <1>4, BoundsAssumption DEF ClosureEntry, PInv, TypeOK
  <2>2. /\ DOMAIN promises' \subseteq DOMAIN promises \cup {id}
        /\ \A i \in DOMAIN promises \ {id} : promises'[i] = promises[i]
        /\ id \in DOMAIN promises' => promises'[id].call_id = call_id_counter'
    BY <2>1, MapsArgument
  <2>3. a \in DOMAIN promise_ids' /\ promise_ids'[a] = id
    BY <2>1, GetsId
  <2> SUFFICES ASSUME NEW i \in DOMAIN promises', promises'[i].argument
               PROVE  \E b \in Live' \cap DOMAIN promise_ids' :
                        /\ promise_ids'[b] = i
                        /\ Object(b)'.calls # <<>> /\ promises'[i].call_id = Last(Object(b)'.calls)
    BY DEF MapperFollowsHeap
  <2>4. CASE i = id
    BY <2>1, <2>2, <2>3, <2>4, <1>4, EntryObjects
  <2>5. CASE i # id
    <3>1. i \in DOMAIN promises /\ promises'[i] = promises[i]
      BY <2>2, <2>5
    <3>2. PICK b \in Live \cap DOMAIN promise_ids :
            /\ promise_ids[b] = i
            /\ Object(b).calls # <<>> /\ promises[i].call_id = Last(Object(b).calls)
      BY <3>1 DEF MapperFollowsHeap
    <3>3. b # a
      BY <3>2, <2>5 DEF IdAt
    <3>4. KnownKept(b)
      BY <3>2, <3>3, <1>4, EntryKeepsKnown DEF Known
    <3>5. b \in Live' \cap DOMAIN promise_ids' /\ promise_ids'[b] = i
          /\ Object(b)'.calls = Object(b).calls
      BY <3>2, <3>4 DEF KnownKept, Known
    <3> QED
      BY <3>1, <3>2, <3>5
  <2> QED
    BY <2>4, <2>5
<1>5. ASSUME NEW a \in Addresses, PromiseCreated(a) PROVE MapperFollowsHeap'
  <2>1. \A i \in DOMAIN promises' : promises'[i].argument =>
          i \in DOMAIN promises /\ promises'[i] = promises[i]
    BY <1>5, InsertsState DEF PromiseCreated
  <2> QED
    BY <1>5, <2>1, StepKeepsKnown, MappingKept DEF KeepingStep
<1>6. ASSUME NEW a \in Addresses,
             PromiseForceEntry(a) \/ PromiseValueLookup(a) \/ PromiseSlotAccess(a)
               \/ PromiseValueAssign(a)
      PROVE  MapperFollowsHeap'
  <2>1. \A i \in DOMAIN promises' : promises'[i].argument =>
          i \in DOMAIN promises /\ promises'[i] = promises[i]
    BY <1>6, InsertsState DEF PromiseForceEntry, PromiseValueLookup, PromiseSlotAccess,
       PromiseValueAssign, SlotAccess, InsertIfNonLocal
  <2> QED
    BY <1>6, <2>1, StepKeepsKnown, MappingKept DEF KeepingStep
<1>7. CASE promises' = promises /\ KeepingStep
  BY <1>7, StepKeepsKnown, MappingKept
<1> QED
  BY <1>2, <1>3, <1>4, <1>5, <1>6, <1>7
  DEF Next, KeepingStep, DyntraceEntry, UntracedAllocation, UntracedForce, UntracedCollection,
      ClosureEntryNoPromise, PromiseForceExit, Unwind

LEMMA InitMapper == Init => MapperFollowsHeap
  BY DEF Init, MapperFollowsHeap, EmptyMap

(* What PromiseMapper has of an argument is true of the promise alive that   *)
(* has the id, whatever was at its address before.                           *)
THEOREM MapperTrue == Spec => []MapperFollowsHeap
  BY SpecPInv, InitMapper, NextMapper, PTL DEF Spec

-----------------------------------------------------------------------------
(* Where a promise known after a step comes from. *)

LEMMA KnownNext ==
  ASSUME PInv, Next, NEW b \in Known'
  PROVE  \/ b \in Known /\ KnownKept(b)
         \/ \E mode \in {"default", "custom"}, others \in BOOLEAN : ClosureEntry(b, mode, others)
         \/ PromiseCreated(b) /\ promise_ids'[b] = prom_id_counter /\ Object(b)'.calls = <<>>
         \/ /\ promise_ids'[b] < 0 /\ b \in Live \ DOMAIN promise_ids
            /\ \/ PromiseForceEntry(b) \/ PromiseForceExit(b)
               \/ PromiseValueLookup(b) \/ PromiseSlotAccess(b) \/ PromiseValueAssign(b)
         \/ UntracedAllocation(b) /\ Object(b)'.calls = <<>>
<1>1. b \in Addresses /\ b \in Live' /\ b \in DOMAIN promise_ids' /\ heap'[b] # 0
  BY DEF Known, Live
<1>2. ASSUME NEW a \in Addresses, UntracedCollection(a) \/ GcPromiseUnmark(a)
      PROVE  b # a /\ b \in Live /\ (b \in DOMAIN promise_ids => KnownKept(b))
             /\ DOMAIN promise_ids' \subseteq DOMAIN promise_ids
  <2>1. PInv /\ a \in Live /\ heap' = [heap EXCEPT ![a] = 0] /\ objects' = objects
        /\ prom_id_counter' = prom_id_counter
    BY <1>2 DEF UntracedCollection, GcPromiseUnmark, identity
  <2>2. b # a
    BY <1>1, <2>1 DEF PInv, TypeOK
  <2>3. Live' = Live \ {a} /\ \A c \in Live \ {a} : Object(c)' = Object(c)
    BY <2>1, CollectObject DEF PInv
  <2>4. DOMAIN promise_ids' \subseteq DOMAIN promise_ids
        /\ \A c \in DOMAIN promise_ids' : promise_ids'[c] = promise_ids[c]
    BY <1>2 DEF UntracedCollection, GcPromiseUnmark, identity, Erase
  <2> QED
    BY <1>1, <2>2, <2>3, <2>4 DEF KnownKept, Known
<1>3. CASE b \in Known
  <2>1. ASSUME NEW a \in Addresses, a # b, NEW mode \in {"default", "custom"},
               NEW others \in BOOLEAN, ClosureEntry(a, mode, others)
        PROVE  KnownKept(b)
    BY <1>3, <2>1, EntryKeepsKnown
  <2>2. KeepingStep => KnownKept(b)
    BY <1>3, StepKeepsKnown
  <2> QED
    BY <1>2, <1>3, <2>1, <2>2 DEF Next, KeepingStep, Known
<1>4. CASE b \in Live \ DOMAIN promise_ids
  <2>1. \A a \in Addresses : GetPromiseId(a) => a = b
    BY <1>1, <1>4, GetsId
  <2>2. \A a \in Addresses : PromiseCreated(a) => a = b
    BY <1>1, <1>4 DEF PromiseCreated, Put
  <2>3. ~PromiseCreated(b)
    BY <1>4 DEF PromiseCreated, Allocate
  <2>4. promise_ids' # promise_ids
    BY <1>1, <1>4
  <2>5. /\ ~DyntraceEntry /\ ~DyntraceExit /\ ~ClosureEntryNoPromise
        /\ \A a \in Addresses : ~UntracedAllocation(a) /\ ~UntracedForce(a) /\ ~Unwind(a)
    BY <2>4 DEF DyntraceEntry, DyntraceExit, UntracedAllocation, UntracedForce,
         ClosureEntryNoPromise, Unwind, identity
  <2>6. \A a \in Addresses : ~UntracedCollection(a) /\ ~GcPromiseUnmark(a)
    BY <1>1, <1>2, <1>4
  <2>7. \A a \in Addresses, mode \in {"default", "custom"}, others \in BOOLEAN :
          ClosureEntry(a, mode, others) => a = b
    BY <2>1 DEF ClosureEntry
  <2>8. \A a \in Addresses :
          PromiseForceEntry(a) \/ PromiseForceExit(a) \/ PromiseValueLookup(a) \/ PromiseSlotAccess(a)
            \/ PromiseValueAssign(a) => a = b
    BY <2>1 DEF PromiseForceEntry, PromiseForceExit, PromiseValueLookup, PromiseSlotAccess,
       PromiseValueAssign, SlotAccess
  <2>9. \/ PromiseForceEntry(b) \/ PromiseForceExit(b)
        \/ PromiseValueLookup(b) \/ PromiseSlotAccess(b) \/ PromiseValueAssign(b)
        \/ \E mode \in {"default", "custom"}, others \in BOOLEAN : ClosureEntry(b, mode, others)
    BY <2>2, <2>3, <2>5, <2>6, <2>7, <2>8 DEF Next
  <2>10. ASSUME GetPromiseId(b) PROVE promise_ids'[b] < 0
    BY <1>1, <1>4, <2>10, GetsId
  <2> QED
    BY <1>4, <2>9, <2>10
    DEF PromiseForceEntry, PromiseForceExit, PromiseValueLookup, PromiseSlotAccess,
        PromiseValueAssign, SlotAccess
<1>5. CASE b \notin Live
  <2>1. \A a \in Addresses, h \in BOOLEAN : Allocate(a, h) => a = b
    BY <1>1, <1>5 DEF Allocate, Live, PInv, TypeOK
  <2>2. heap' # heap
    BY <1>1, <1>5 DEF Live
  <2>3. \A a \in Addresses : ~UntracedForce(a) /\ ~PromiseForceEntry(a) /\ ~PromiseForceExit(a)
                             /\ ~Unwind(a) /\ ~PromiseValueAssign(a)
    BY <2>2, ForceObjects
  <2>4. \A a \in Addresses : ~PromiseValueLookup(a) /\ ~PromiseSlotAccess(a)
    BY <2>2 DEF PromiseValueLookup, PromiseSlotAccess, PromiseValueAssign, SlotAccess, interpreter
  <2>5. \A a \in Addresses, mode \in {"default", "custom"}, others \in BOOLEAN :
          ~ClosureEntry(a, mode, others)
    BY <2>2, EntryObjects
  <2>6. ~DyntraceEntry /\ ~DyntraceExit /\ ~ClosureEntryNoPromise
    BY <2>2 DEF DyntraceEntry, DyntraceExit, ClosureEntryNoPromise, interpreter
  <2>7. \A a \in Addresses : ~UntracedCollection(a) /\ ~GcPromiseUnmark(a)
    BY <1>2, <1>5
  <2>8. \A a \in Addresses : UntracedAllocation(a) \/ PromiseCreated(a) => a = b
    BY <2>1, AllocatesObject
  <2>9. UntracedAllocation(b) \/ PromiseCreated(b)
    BY <2>3, <2>4, <2>5, <2>6, <2>7, <2>8 DEF Next
  <2>10. Object(b)'.calls = <<>>
    <3>1. PICK h \in BOOLEAN :
            Allocate(b, h) /\ prom_id_counter' \in {prom_id_counter, prom_id_counter + 1}
      BY <2>9, AllocatesObject
    <3>2. Object(b)' = NewObject(h)
      BY <1>1, <3>1, AllocateObject DEF PInv
    <3> QED
      BY <3>2, NewObjectFields
  <2>11. PromiseCreated(b) => promise_ids'[b] = prom_id_counter
    BY DEF PromiseCreated, Put
  <2> QED
    BY <2>9, <2>10, <2>11
<1> QED
  BY <1>3, <1>4, <1>5 DEF Known

(* A pass goes on, or it begins and knows nothing. *)
LEMMA FirstPassGoesOn ==
  ASSUME PInv, Next, passes' = 1, phase' = "tracing"
  PROVE  \/ passes = 1 /\ phase = "tracing" /\ UNCHANGED <<passes, phase>>
         \/ DOMAIN promise_ids' = {} /\ prom_id_counter' = 0
<1>1. CASE DyntraceEntry
  <2>1. passes = 0 /\ identity' = identity
    BY <1>1, BoundsAssumption DEF DyntraceEntry, PInv, TypeOK
  <2> QED
    BY <2>1 DEF PInv, OnlyGiven, identity
<1>2. CASE ~DyntraceEntry
  BY <1>2, ZenonT(60) DEF Next, DyntraceExit, UntracedAllocation, UntracedForce, UntracedCollection,
     PromiseCreated, GcPromiseUnmark, ClosureEntry, ClosureEntryNoPromise, PromiseForceEntry,
     PromiseForceExit, Unwind, PromiseValueLookup, PromiseSlotAccess,
     PromiseValueAssign, SlotAccess, Tracing
<1> QED
  BY <1>1, <1>2

-----------------------------------------------------------------------------
(* The promises that await their first call. *)

LEMMA NextFresh == PInv /\ PInv' /\ FreshUnpassed /\ [Next]_vars => FreshUnpassed'
<1>1. ASSUME FreshUnpassed, UNCHANGED vars PROVE FreshUnpassed'
  BY <1>1 DEF vars, FreshUnpassed, Known, Live, Object, interpreter, identity, association
<1> SUFFICES ASSUME PInv, PInv', FreshUnpassed, Next PROVE FreshUnpassed'
  BY <1>1
<1>2. prom_id_counter \in Nat /\ fresh_promises \subseteq 0..(prom_id_counter - 1)
      /\ fresh_promises' \subseteq 0..(prom_id_counter' - 1)
      /\ \A b \in Known : promise_ids[b] < prom_id_counter /\ promise_ids[b] \in Int
  <2>1. prom_id_counter \in Nat /\ prom_neg_id_counter \in Int /\ fresh_promises \subseteq 0..(prom_id_counter - 1)
    BY BoundsAssumption DEF PInv, TypeOK
  <2>2. fresh_promises' \subseteq 0..(prom_id_counter' - 1)
    BY DEF PInv, TypeOK
  <2>3. \A b \in Known : promise_ids[b] \in prom_neg_id_counter..(prom_id_counter - 1)
    BY DEF PInv, TypeOK, Known
  <2> QED
    BY <2>1, <2>2, <2>3
<1>3. fresh_promises' \subseteq fresh_promises \cup {prom_id_counter}
  BY ZenonT(60) DEF Next, DyntraceEntry, DyntraceExit, UntracedAllocation, UntracedForce, UntracedCollection,
     PromiseCreated, GcPromiseUnmark, ClosureEntry, ClosureEntryNoPromise, PromiseForceEntry,
     PromiseForceExit, Unwind, PromiseValueLookup, PromiseSlotAccess,
     PromiseValueAssign, SlotAccess, association, AssociateArguments
<1>4. ASSUME NEW b \in Known', NEW mode \in {"default", "custom"}, NEW others \in BOOLEAN,
             ClosureEntry(b, mode, others)
      PROVE  promise_ids'[b] \notin fresh_promises' /\ Object(b)'.calls # <<>>
  <2>1. b \in Addresses /\ Object(b)'.calls # <<>>
    BY <1>4, EntryObjects DEF Known, Live
  <2>2. promise_ids'[b] = IdAt(b)
    BY <1>4, <2>1, GetsId DEF ClosureEntry
  <2>3. IdAt(b) \notin fresh_promises'
    BY <1>4 DEF ClosureEntry, AssociateArguments
  <2> QED
    BY <2>1, <2>2, <2>3
<1>5. ASSUME NEW b \in Known, KnownKept(b), promise_ids[b] > 0, promise_ids[b] \in fresh_promises
      PROVE  \/ promise_ids[b] \in fresh_promises'
             \/ \E mode \in {"default", "custom"}, others \in BOOLEAN : ClosureEntry(b, mode, others)
  <2>1. \A a \in Addresses : a # b => IdAt(a) # promise_ids[b]
    BY <1>2, <1>5 DEF IdAt, PInv, IdsDistinct, TypeOK, Known
  <2>2. promise_ids[b] # 0
    BY <1>2, <1>5
  <2>3. ASSUME NEW a \in Addresses, a # b, NEW mode \in {"default", "custom"},
               NEW others \in BOOLEAN, ClosureEntry(a, mode, others)
        PROVE  promise_ids[b] \in fresh_promises'
    BY <1>5, <2>1, <2>2, <2>3 DEF ClosureEntry, AssociateArguments
  <2>4. CASE ClosureEntryNoPromise
    BY <1>5, <2>2, <2>4 DEF ClosureEntryNoPromise, AssociateArguments
  <2> QED
    BY <1>5, <2>3, <2>4
    DEF Next, DyntraceEntry, DyntraceExit, UntracedAllocation, UntracedForce, UntracedCollection,
        PromiseCreated, GcPromiseUnmark, PromiseForceEntry, PromiseForceExit, Unwind,
        PromiseValueLookup, PromiseSlotAccess, PromiseValueAssign, SlotAccess, association
<1> SUFFICES ASSUME NEW b \in Known'
             PROVE  /\ promise_ids'[b] \in fresh_promises' \ {0} => Object(b)'.calls = <<>>
                    /\ passes' = 1 /\ phase' = "tracing" /\ promise_ids'[b] > 0 /\ Object(b)'.calls = <<>>
                         => promise_ids'[b] \in fresh_promises'
  BY DEF FreshUnpassed, Known
<1>6. CASE b \in Known /\ KnownKept(b)
  <2>1. promise_ids'[b] = promise_ids[b] /\ Object(b)'.calls = Object(b).calls
    BY <1>6 DEF KnownKept
  <2>2. promise_ids'[b] \in fresh_promises' \ {0} => Object(b)'.calls = <<>>
    BY <1>2, <1>3, <1>6, <2>1 DEF FreshUnpassed
  <2>3. ASSUME passes' = 1, phase' = "tracing", promise_ids'[b] > 0, Object(b)'.calls = <<>>
        PROVE  promise_ids'[b] \in fresh_promises'
    <3>1. passes = 1 /\ phase = "tracing"
      BY <1>6, <2>3, FirstPassGoesOn DEF KnownKept, Known
    <3>2. promise_ids[b] \in fresh_promises
      BY <1>6, <2>1, <2>3, <3>1 DEF FreshUnpassed
    <3> QED
      BY <1>4, <1>5, <1>6, <2>1, <2>3, <3>2
  <2> QED
    BY <2>2, <2>3
<1>7. ASSUME NEW mode \in {"default", "custom"}, NEW others \in BOOLEAN, ClosureEntry(b, mode, others)
      PROVE  promise_ids'[b] \notin fresh_promises' /\ Object(b)'.calls # <<>>
  BY <1>4, <1>7
<1>8. CASE PromiseCreated(b) /\ promise_ids'[b] = prom_id_counter /\ Object(b)'.calls = <<>>
  BY <1>8 DEF PromiseCreated
<1>9. CASE promise_ids'[b] < 0
  <2>1. promise_ids'[b] \in Int
    BY DEF PInv, TypeOK, Known
  <2> QED
    BY <1>2, <1>9, <2>1
<1>10. CASE UntracedAllocation(b) /\ Object(b)'.calls = <<>>
  BY <1>10 DEF UntracedAllocation
<1> QED
  BY <1>6, <1>7, <1>8, <1>9, <1>10, KnownNext

LEMMA SpecFresh == Spec => []FreshUnpassed
<1>1. Init => FreshUnpassed
  BY DEF Init, FreshUnpassed, Known, EmptyMap
<1> QED
  BY <1>1, SpecPInv, NextFresh, PTL DEF Spec

-----------------------------------------------------------------------------
(* The origins. *)

OriginSteps ==
  \/ promise_origin' = promise_origin
  \/ DyntraceExit \/ ClosureEntryNoPromise
  \/ \E a \in Addresses :
       \/ GcPromiseUnmark(a)
       \/ ReadOrigin(IdAt(a)) /\ call_id_counter' = call_id_counter
       \/ \E mode \in {"default", "custom"}, others \in BOOLEAN : ClosureEntry(a, mode, others)

LEMMA NextOriginSteps == Next => OriginSteps
  BY DEF Next, OriginSteps, DyntraceEntry, UntracedAllocation, UntracedForce, UntracedCollection,
      PromiseCreated, PromiseForceEntry, PromiseForceExit, Unwind,
      PromiseValueLookup, PromiseSlotAccess, PromiseValueAssign, SlotAccess, association

(* What a step but a call does to the origins: it reads one, keeps them, or   *)
(* forgets those of a promise collected or of the pass.                       *)
LEMMA NextOrigins ==
  ASSUME PInv, Next, NEW i \in DOMAIN promise_origin', i # 0, promise_origin'[i] # 0
  PROVE  \/ /\ i \in DOMAIN promise_origin /\ promise_origin'[i] = promise_origin[i]
         \/ \E a \in Addresses, mode \in {"default", "custom"}, others \in BOOLEAN :
              /\ ClosureEntry(a, mode, others) /\ i = IdAt(a)
              /\ i \in fresh_promises /\ promise_origin'[i] = call_id_counter'
<1>1. CASE ClosureEntryNoPromise
  BY <1>1 DEF ClosureEntryNoPromise, AssociateArguments
<1>2. ASSUME NEW a \in Addresses, NEW mode \in {"default", "custom"}, NEW others \in BOOLEAN,
             ClosureEntry(a, mode, others)
      PROVE  \/ i \in DOMAIN promise_origin /\ promise_origin'[i] = promise_origin[i]
             \/ i = IdAt(a) /\ i \in fresh_promises /\ promise_origin'[i] = call_id_counter'
  BY <1>2 DEF ClosureEntry, AssociateArguments
<1>3. ASSUME NEW a \in Addresses, ReadOrigin(IdAt(a)), call_id_counter' = call_id_counter
      PROVE  i \in DOMAIN promise_origin /\ promise_origin'[i] = promise_origin[i]
  BY <1>3, ReadsOrigin DEF PInv
<1>4. CASE promise_origin' = promise_origin
  BY <1>4
<1>5. CASE DyntraceExit
  BY <1>5 DEF DyntraceExit, EmptyMap
<1>6. ASSUME NEW a \in Addresses, GcPromiseUnmark(a)
      PROVE  i \in DOMAIN promise_origin /\ promise_origin'[i] = promise_origin[i]
  BY <1>6 DEF GcPromiseUnmark, Erase
<1> QED
  BY <1>1, <1>2, <1>3, <1>4, <1>5, <1>6, NextOriginSteps DEF OriginSteps

(* A known promise whose id still has an origin is not lost by the step. *)
LEMMA OriginatedKept ==
  ASSUME PInv, Next, NEW b \in Known, promise_ids[b] \in DOMAIN promise_origin'
  PROVE  \/ KnownKept(b)
         \/ \E mode \in {"default", "custom"}, others \in BOOLEAN : ClosureEntry(b, mode, others)
<1>1. CASE KeepingStep
  BY <1>1, StepKeepsKnown
<1>2. ASSUME NEW a \in Addresses, UntracedCollection(a) PROVE FALSE
  BY <1>2 DEF UntracedCollection, association, PInv, OnlyGiven
<1>3. ASSUME NEW a \in Addresses, GcPromiseUnmark(a) PROVE KnownKept(b)
  <2>1. IdAt(a) \notin DOMAIN promise_origin'
    BY <1>3 DEF GcPromiseUnmark, Erase
  <2>2. b # a
    BY <2>1 DEF IdAt, Known
  <2> QED
    BY <1>3, <2>2, UnmarkKeepsKnown
<1>4. ASSUME NEW a \in Addresses, a # b, NEW mode \in {"default", "custom"},
             NEW others \in BOOLEAN, ClosureEntry(a, mode, others)
      PROVE  KnownKept(b)
  BY <1>4, EntryKeepsKnown
<1> QED
  BY <1>1, <1>2, <1>3, <1>4 DEF Next, KeepingStep

LEMMA NextOriginTrue ==
  PInv /\ FreshUnpassed /\ OriginIsArgumentButZero /\ [Next]_vars => OriginIsArgumentButZero'
<1>1. ASSUME OriginIsArgumentButZero, UNCHANGED vars PROVE OriginIsArgumentButZero'
  BY <1>1 DEF vars, OriginIsArgumentButZero, HasOrigin, Live, Object, interpreter, identity, association
<1> SUFFICES ASSUME PInv, FreshUnpassed, OriginIsArgumentButZero, Next,
                    NEW i \in DOMAIN promise_origin', i # 0, promise_origin'[i] # 0
             PROVE  \E b \in Live' \cap DOMAIN promise_ids' :
                      /\ promise_ids'[b] = i
                      /\ Object(b)'.calls # <<>> /\ promise_origin'[i] = Head(Object(b)'.calls)
  BY <1>1 DEF OriginIsArgumentButZero, HasOrigin
<1>2. CASE i \in DOMAIN promise_origin /\ promise_origin'[i] = promise_origin[i]
  <2>1. PICK b \in Live \cap DOMAIN promise_ids :
          /\ promise_ids[b] = i
          /\ Object(b).calls # <<>> /\ promise_origin[i] = Head(Object(b).calls)
    BY <1>2 DEF OriginIsArgumentButZero, HasOrigin
  <2>2. b \in Known
    BY <2>1 DEF Known
  <2>3. CASE KnownKept(b)
    BY <1>2, <2>1, <2>3 DEF KnownKept, Known
  <2>4. ASSUME NEW mode \in {"default", "custom"}, NEW others \in BOOLEAN,
               ClosureEntry(b, mode, others)
        PROVE  /\ b \in Live' \cap DOMAIN promise_ids' /\ promise_ids'[b] = i
               /\ Object(b)'.calls # <<>> /\ Head(Object(b)'.calls) = Head(Object(b).calls)
    <3>1. b \in DOMAIN promise_ids' /\ promise_ids'[b] = i /\ b \in Addresses
      BY <2>1, <2>4, GetsId DEF ClosureEntry, Live
    <3> QED
      BY <2>1, <2>4, <3>1, EntryObjects
  <2> QED
    BY <1>2, <2>1, <2>2, <2>3, <2>4, OriginatedKept
<1>3. ASSUME NEW a \in Addresses, NEW mode \in {"default", "custom"}, NEW others \in BOOLEAN,
             ClosureEntry(a, mode, others), i = IdAt(a),
             i \in fresh_promises, promise_origin'[i] = call_id_counter'
      PROVE  /\ a \in Live' \cap DOMAIN promise_ids' /\ promise_ids'[a] = i
             /\ Object(a)'.calls # <<>> /\ promise_origin'[i] = Head(Object(a)'.calls)
  <2>1. a \in Live /\ GetPromiseId(a)
    BY <1>3 DEF ClosureEntry
  <2>2. a \in DOMAIN promise_ids' /\ promise_ids'[a] = i
    BY <1>3, <2>1, GetsId
  <2>3. i >= 0 /\ i \in Int
    BY <1>3, BoundsAssumption DEF PInv, TypeOK
  <2>4. a \in Known /\ promise_ids[a] = i
    <3>1. a \notin DOMAIN promise_ids => IdAt(a) < 0
      BY <2>1, GetsId
    <3>2. a \in DOMAIN promise_ids
      BY <1>3, <2>3, <3>1
    <3> QED
      BY <1>3, <2>1, <3>2 DEF Known, IdAt
  <2>5. Object(a).calls = <<>>
    BY <1>3, <2>4 DEF FreshUnpassed
  <2> QED
    BY <1>3, <2>1, <2>2, <2>5, EntryObjects
<1> QED
  BY <1>2, <1>3, NextOrigins

(* The origin of a promise is the first call it was an argument of: no origin *)
(* is inherited with an address, or kept of a promise that is gone, except    *)
(* for the id 0.                                                              *)
THEOREM OriginsTrue == Spec => []OriginIsArgumentButZero
<1>1. Init => OriginIsArgumentButZero
  BY DEF Init, OriginIsArgumentButZero, EmptyMap
<1> QED
  BY <1>1, SpecPInv, SpecFresh, NextOriginTrue, PTL DEF Spec

LEMMA NextArguments ==
  PInv /\ PInv' /\ FreshUnpassed /\ EveryArgumentHasOrigin /\ [Next]_vars => EveryArgumentHasOrigin'
<1>1. ASSUME EveryArgumentHasOrigin, UNCHANGED vars PROVE EveryArgumentHasOrigin'
  BY <1>1 DEF vars, EveryArgumentHasOrigin, Live, Object, interpreter, identity, association
<1> SUFFICES ASSUME PInv, PInv', FreshUnpassed, EveryArgumentHasOrigin, Next,
                    passes' = 1, phase' = "tracing", NEW b \in Live' \cap DOMAIN promise_ids',
                    promise_ids'[b] > 0, Object(b)'.calls # <<>>
             PROVE  /\ promise_ids'[b] \in DOMAIN promise_origin'
                    /\ promise_origin'[promise_ids'[b]] = Head(Object(b)'.calls)
  BY <1>1 DEF EveryArgumentHasOrigin
<1>2. b \in Known' /\ passes = 1 /\ phase = "tracing" /\ promise_ids'[b] \in Int
  BY FirstPassGoesOn DEF Known, PInv, TypeOK
<1>3. CASE b \in Known /\ KnownKept(b)
  <2> DEFINE id == promise_ids[b]
  <2>1. promise_ids'[b] = id /\ Object(b)'.calls = Object(b).calls /\ id # 0 /\ b \in Live'
    BY <1>2, <1>3 DEF KnownKept
  <2>2. id \in DOMAIN promise_origin /\ promise_origin[id] = Head(Object(b).calls)
    BY <1>2, <1>3, <2>1 DEF EveryArgumentHasOrigin, Known
  <2>3. \A a \in Addresses : a # b => IdAt(a) # id
    BY <1>2, <1>3, <2>1 DEF IdAt, PInv, IdsDistinct, TypeOK, Known
  <2>4. \A a \in Addresses : GcPromiseUnmark(a) => a # b
    BY <2>1 DEF GcPromiseUnmark, Live, PInv, TypeOK
  <2>5. ASSUME NEW a \in Addresses, GcPromiseUnmark(a)
        PROVE  id \in DOMAIN promise_origin' /\ promise_origin'[id] = promise_origin[id]
    BY <2>2, <2>3, <2>4, <2>5 DEF GcPromiseUnmark, Erase
  <2>6. ClosureEntryNoPromise => id \in DOMAIN promise_origin' /\ promise_origin'[id] = promise_origin[id]
    BY <2>1, <2>2 DEF ClosureEntryNoPromise, AssociateArguments
  <2>7. ASSUME NEW a \in Addresses, NEW mode \in {"default", "custom"}, NEW others \in BOOLEAN,
               ClosureEntry(a, mode, others)
        PROVE  id \in DOMAIN promise_origin' /\ promise_origin'[id] = promise_origin[id]
    <3>1. CASE a = b
      <4>1. id \notin fresh_promises
        BY <1>3, <2>1 DEF FreshUnpassed
      <4> QED
        BY <2>2, <2>7, <4>1 DEF ClosureEntry, AssociateArguments
    <3>2. CASE a # b
      BY <2>1, <2>2, <2>3, <2>7, <3>2 DEF ClosureEntry, AssociateArguments
    <3> QED
      BY <3>1, <3>2
  <2>8. ASSUME NEW a \in Addresses, ReadOrigin(IdAt(a)), call_id_counter' = call_id_counter
        PROVE  id \in DOMAIN promise_origin' /\ promise_origin'[id] = promise_origin[id]
    BY <2>2, <2>8, ReadsOrigin DEF PInv
  <2>9. promise_origin' = promise_origin =>
          id \in DOMAIN promise_origin' /\ promise_origin'[id] = promise_origin[id]
    BY <2>2
  <2>10. ~DyntraceExit
    BY DEF DyntraceExit
  <2> HIDE DEF id
  <2>11. id \in DOMAIN promise_origin' /\ promise_origin'[id] = promise_origin[id]
    BY <2>5, <2>6, <2>7, <2>8, <2>9, <2>10, NextOriginSteps DEF OriginSteps
  <2> QED
    BY <2>1, <2>2, <2>11
<1>4. ASSUME NEW mode \in {"default", "custom"}, NEW others \in BOOLEAN, ClosureEntry(b, mode, others)
      PROVE  /\ promise_ids'[b] \in DOMAIN promise_origin'
             /\ promise_origin'[promise_ids'[b]] = Head(Object(b)'.calls)
  <2> DEFINE id == IdAt(b)
  <2>1. b \in Addresses /\ b \in Live /\ GetPromiseId(b) /\ promise_ids'[b] = id
    BY <1>4, GetsId DEF ClosureEntry, Live
  <2>2. b \in Known /\ promise_ids[b] = id /\ id # 0
    <3>1. b \notin DOMAIN promise_ids => IdAt(b) < 0
      BY <2>1, GetsId
    <3>2. b \in DOMAIN promise_ids
      BY <1>2, <2>1, <3>1
    <3> QED
      BY <1>2, <2>1, <3>2 DEF Known, IdAt
  <2>3. /\ Head(Object(b)'.calls)
             = IF Object(b).calls = <<>> THEN call_id_counter' ELSE Head(Object(b).calls)
        /\ call_id_counter' = call_id_counter + 1
    BY <1>4, <2>1, EntryObjects DEF ClosureEntry
  <2>4. CASE Object(b).calls = <<>>
    <3>1. id \in fresh_promises
      BY <1>2, <2>1, <2>2, <2>4 DEF FreshUnpassed
    <3> QED
      BY <1>4, <2>1, <2>3, <2>4, <3>1 DEF ClosureEntry, AssociateArguments
  <2>5. CASE Object(b).calls # <<>>
    <3>1. id \in DOMAIN promise_origin /\ promise_origin[id] = Head(Object(b).calls)
      BY <1>2, <2>1, <2>2, <2>5 DEF EveryArgumentHasOrigin, Known
    <3>2. id \notin fresh_promises
      BY <2>2, <2>5 DEF FreshUnpassed
    <3> QED
      BY <1>4, <2>1, <2>3, <2>5, <3>1, <3>2 DEF ClosureEntry, AssociateArguments
  <2> QED
    BY <2>4, <2>5
<1> QED
  BY <1>2, <1>3, <1>4, KnownNext

(* In the first pass no argument misses its origin, though fresh_promises     *)
(* alone tells that it awaits one, and reads of the table fill it with zeros. *)
THEOREM ArgumentsAssociated == Spec => []EveryArgumentHasOrigin
<1>1. Init => EveryArgumentHasOrigin
  BY DEF Init, EveryArgumentHasOrigin
<1> QED
  BY <1>1, SpecPInv, SpecFresh, NextArguments, PTL DEF Spec

-----------------------------------------------------------------------------
(* The promises the mapping must have. *)

(* A promise under evaluation was, or has its force entered. *)
LEMMA ForcingNext ==
  ASSUME PInv, Next, NEW b \in Live', Object(b)'.forcing
  PROVE  PromiseForceEntry(b) \/ (b \in Live /\ Object(b).forcing /\ ~DyntraceExit)
<1>1. b \in Addresses
  BY DEF Live
<1>2. heap' = heap /\ objects' = objects => b \in Live /\ Object(b).forcing
  BY DEF Live, Object
<1>3. ~DyntraceExit
  <2> SUFFICES ASSUME DyntraceExit PROVE FALSE
    OBVIOUS
  <2>1. heap' = heap /\ b \in Live
    BY DEF DyntraceExit, Live
  <2>2. Object(b)' = objects'[heap[b]] /\ heap[b] \in DOMAIN objects
    BY <2>1, LiveObject DEF Object, PInv, HeapSound
  <2> QED
    BY <2>2, ExitObjects
<1>4. ASSUME NEW a \in Addresses, UntracedAllocation(a) \/ PromiseCreated(a)
      PROVE  b \in Live /\ Object(b).forcing
  <2>1. PICK h \in BOOLEAN :
          Allocate(a, h) /\ prom_id_counter' \in {prom_id_counter, prom_id_counter + 1}
    BY <1>4, AllocatesObject
  <2>2. /\ Object(a)' = NewObject(h)
        /\ Live' = Live \cup {a} /\ \A c \in Live : Object(c)' = Object(c)
    BY <2>1, AllocateObject DEF PInv
  <2>3. Object(a)'.forcing = FALSE
    BY <2>2, NewObjectFields
  <2> QED
    BY <2>2, <2>3
<1>5. ASSUME NEW a \in Addresses, UntracedCollection(a) \/ GcPromiseUnmark(a)
      PROVE  b \in Live /\ Object(b).forcing
  <2>1. /\ a \in Live /\ heap' = [heap EXCEPT ![a] = 0] /\ objects' = objects
        /\ prom_id_counter' = prom_id_counter
    BY <1>5 DEF UntracedCollection, GcPromiseUnmark, identity
  <2> QED
    BY <2>1, CollectObject DEF PInv
<1>6. ASSUME NEW a \in Addresses,
             PromiseForceEntry(a) \/ PromiseForceExit(a) \/ Unwind(a) \/ UntracedForce(a)
               \/ PromiseValueAssign(a)
      PROVE  PromiseForceEntry(b) \/ (b \in Live /\ Object(b).forcing)
  BY <1>6, ForceObjects
<1>7. ASSUME NEW a \in Addresses, NEW mode \in {"default", "custom"}, NEW others \in BOOLEAN,
             ClosureEntry(a, mode, others)
      PROVE  b \in Live /\ Object(b).forcing
  BY <1>7, EntryObjects
<1>8. /\ DyntraceEntry \/ ClosureEntryNoPromise => heap' = heap /\ objects' = objects
      /\ \A a \in Addresses : PromiseValueLookup(a) \/ PromiseSlotAccess(a) => heap' = heap /\ objects' = objects
  BY DEF DyntraceEntry, ClosureEntryNoPromise, PromiseValueLookup, PromiseSlotAccess,
     PromiseValueAssign, SlotAccess, interpreter
<1> QED
  BY <1>2, <1>3, <1>4, <1>5, <1>6, <1>7, <1>8 DEF Next

(* An id leaves the mapping with the promise or with the pass. *)
LEMMA MappedNext ==
  ASSUME PInv, Next, ~DyntraceExit, NEW b \in Known, KnownKept(b),
         promise_ids[b] \in DOMAIN promises
  PROVE  promise_ids[b] \in DOMAIN promises'
<1> DEFINE id == promise_ids[b]
<1>1. \A a \in Addresses :
        PromiseForceEntry(a) \/ PromiseValueLookup(a) \/ PromiseSlotAccess(a) \/ PromiseValueAssign(a)
          => id \in DOMAIN promises'
  BY DEF PromiseForceEntry, PromiseValueLookup, PromiseSlotAccess, PromiseValueAssign, SlotAccess,
     InsertIfNonLocal, Insert, Put
<1>2. \A a \in Addresses : PromiseCreated(a) => id \in DOMAIN promises'
  BY DEF PromiseCreated, Insert, Put
<1>3. \A a \in Addresses, mode \in {"default", "custom"}, others \in BOOLEAN :
        ClosureEntry(a, mode, others) => id \in DOMAIN promises'
  BY DEF ClosureEntry, MapArgument, Insert, Put
<1>4. ASSUME NEW a \in Addresses, GcPromiseUnmark(a) PROVE id \in DOMAIN promises'
  <2>1. a # b
    BY <1>4 DEF GcPromiseUnmark, KnownKept, Known, Live, PInv, TypeOK
  <2>2. prom_neg_id_counter \in Int /\ prom_id_counter \in Nat
        /\ id \in prom_neg_id_counter..(prom_id_counter - 1)
    BY BoundsAssumption DEF PInv, TypeOK, Known
  <2>3. IdAt(a) # id
    BY <2>1, <2>2 DEF IdAt, PInv, IdsDistinct, Known
  <2> QED
    BY <1>4, <2>3 DEF GcPromiseUnmark, Erase
<1>5. promises' = promises => id \in DOMAIN promises'
  OBVIOUS
<1> HIDE DEF id
<1>6. id \in DOMAIN promises'
  BY <1>1, <1>2, <1>3, <1>4, <1>5
  DEF Next, DyntraceEntry, UntracedAllocation, UntracedForce, UntracedCollection,
      ClosureEntryNoPromise, PromiseForceExit, Unwind
<1> QED
  BY <1>6 DEF id

LEMMA NextKnownMapped == PInv /\ PInv' /\ KnownMapped /\ [Next]_vars => KnownMapped'
<1>1. ASSUME KnownMapped, UNCHANGED vars PROVE KnownMapped'
  BY <1>1 DEF vars, KnownMapped, Known, Live, Object, interpreter, identity
<1> SUFFICES ASSUME PInv, PInv', KnownMapped, Next PROVE KnownMapped'
  BY <1>1
<1>2. ASSUME NEW b \in Live', Object(b)'.forcing
      PROVE  phase' = "tracing" /\ b \in DOMAIN promise_ids'
  <2>1. CASE PromiseForceEntry(b)
    <3>1. b \in Addresses /\ GetPromiseId(b) /\ phase' = "tracing"
      BY <2>1 DEF PromiseForceEntry, Tracing, Live
    <3> QED
      BY <3>1, GetsId
  <2>2. CASE b \in Live /\ Object(b).forcing /\ ~DyntraceExit
    <3>1. phase = "tracing" /\ b \in DOMAIN promise_ids /\ b \in Known
      BY <2>2 DEF KnownMapped, Known
    <3>2. phase' = "tracing"
      BY <2>2, <3>1 DEF Next, DyntraceEntry, UntracedAllocation, UntracedForce, UntracedCollection,
         PromiseCreated, GcPromiseUnmark, ClosureEntry, ClosureEntryNoPromise, PromiseForceEntry,
         PromiseForceExit, Unwind, PromiseValueLookup, PromiseSlotAccess,
         PromiseValueAssign, SlotAccess
    <3>3. ASSUME NEW a \in Addresses, GcPromiseUnmark(a) PROVE b \in DOMAIN promise_ids'
      <4>1. a # b
        BY <2>2, <3>3 DEF GcPromiseUnmark
      <4> QED
        BY <3>1, <3>3, <4>1, UnmarkKeepsKnown DEF KnownKept, Known
    <3>4. \A a \in Addresses : ~UntracedCollection(a)
      BY <3>1 DEF UntracedCollection
    <3>5. ASSUME NEW a \in Addresses, NEW mode \in {"default", "custom"}, NEW others \in BOOLEAN,
                 ClosureEntry(a, mode, others)
          PROVE  b \in DOMAIN promise_ids'
      BY <3>1, <3>5, GetsId DEF ClosureEntry
    <3>6. KeepingStep => b \in DOMAIN promise_ids'
      BY <3>1, StepKeepsKnown DEF KnownKept, Known
    <3> QED
      BY <3>2, <3>3, <3>4, <3>5, <3>6 DEF Next, KeepingStep
  <2> QED
    BY <1>2, <2>1, <2>2, ForcingNext
<1>3. ASSUME MapPromises, NEW b \in Known',
             Object(b)'.forcing \/ (passes' = 1 /\ phase' = "tracing")
      PROVE  promise_ids'[b] \in DOMAIN promises'
  <2>1. b \in Addresses /\ b \in Live'
    BY DEF Known, Live
  <2>2. ASSUME PromiseForceEntry(b) \/ PromiseValueLookup(b) \/ PromiseSlotAccess(b)
                 \/ PromiseValueAssign(b)
        PROVE  promise_ids'[b] \in DOMAIN promises'
    <3>1. GetPromiseId(b) /\ InsertIfNonLocal(IdAt(b))
      BY <2>2 DEF PromiseForceEntry, PromiseValueLookup, PromiseSlotAccess,
         PromiseValueAssign, SlotAccess
    <3>2. promise_ids'[b] = IdAt(b)
      BY <2>1, <3>1, GetsId
    <3> QED
      BY <1>3, <3>1, <3>2 DEF InsertIfNonLocal, Insert, Put
  <2>3. ASSUME b \in Known, ~PromiseForceEntry(b)
        PROVE  promise_ids[b] \in DOMAIN promises /\ ~DyntraceExit
    <3>1. CASE Object(b)'.forcing
      BY <1>3, <2>1, <2>3, <3>1, ForcingNext DEF KnownMapped
    <3>2. CASE passes' = 1 /\ phase' = "tracing"
      <4>1. DOMAIN promise_ids' # {}
        BY DEF Known
      <4>2. passes = 1 /\ phase = "tracing"
        BY <3>2, <4>1, FirstPassGoesOn
      <4> QED
        BY <1>3, <2>3, <3>2, <4>2 DEF KnownMapped, DyntraceExit
    <3> QED
      BY <1>3, <3>1, <3>2
  <2>4. CASE b \in Known /\ KnownKept(b)
    BY <2>2, <2>3, <2>4, MappedNext DEF KnownKept
  <2>5. ASSUME NEW mode \in {"default", "custom"}, NEW others \in BOOLEAN, ClosureEntry(b, mode, others)
        PROVE  promise_ids'[b] \in DOMAIN promises'
    <3>1. /\ GetPromiseId(b) /\ MapArgument(IdAt(b), mode, call_id_counter + 1)
          /\ call_id_counter' = call_id_counter + 1 /\ call_id_counter + 1 \in 1..MaxCalls /\ b \in Live
      BY <2>5, BoundsAssumption DEF ClosureEntry, PInv, TypeOK
    <3>2. promise_ids'[b] = IdAt(b) /\ (b \notin DOMAIN promise_ids => IdAt(b) < 0)
      BY <2>1, <3>1, GetsId
    <3>3. ~PromiseForceEntry(b)
      BY <2>5, <3>1 DEF PromiseForceEntry, PInv, TypeOK
    <3>4. b \in DOMAIN promise_ids => IdAt(b) \in DOMAIN promises
      BY <2>3, <3>1, <3>3 DEF Known, IdAt
    <3> QED
      BY <1>3, <3>1, <3>2, <3>4, MapsArgument
  <2>6. CASE PromiseCreated(b) /\ promise_ids'[b] = prom_id_counter
    BY <1>3, <2>6 DEF PromiseCreated, Insert, Put
  <2>7. ~(b \in Live \ DOMAIN promise_ids /\ PromiseForceExit(b))
    BY DEF PromiseForceExit, KnownMapped
  <2>8. ~UntracedAllocation(b)
    <3>1. ASSUME UntracedAllocation(b) PROVE FALSE
      <4>1. phase' = "idle" /\ b \notin Live
        BY <3>1 DEF UntracedAllocation, Allocate
      <4>2. Object(b)'.forcing
        BY <1>3, <4>1
      <4>3. ~PromiseForceEntry(b) /\ b \notin Live
        BY <4>1 DEF PromiseForceEntry, Allocate
      <4> QED
        BY <2>1, <4>2, <4>3, ForcingNext
    <3> QED
      BY <3>1
  <2> QED
    BY <2>2, <2>4, <2>5, <2>6, <2>7, <2>8, KnownNext
<1> QED
  BY <1>2, <1>3 DEF KnownMapped, MapPromises

LEMMA SpecKnownMapped == Spec => []KnownMapped
<1>1. Init => KnownMapped
  BY DEF Init, KnownMapped, Known, Live
<1> QED
  BY <1>1, SpecPInv, NextKnownMapped, PTL DEF Spec

LEMMA NextAlwaysMapped ==
  ASSUME "strictness" \in Switch
  PROVE  PInv /\ PInv' /\ KnownMapped /\ AlwaysMapped /\ [Next]_vars => AlwaysMapped'
<1> SUFFICES ASSUME PInv, PInv', KnownMapped, AlwaysMapped, [Next]_vars, passes' <= 1
             PROVE  status' = "running"
  BY DEF AlwaysMapped
<1>1. MapPromises
  BY DEF MapPromises
<1>2. CASE status' = status
  <2>1. passes <= 1
    <3>1. passes \in Nat
      BY BoundsAssumption DEF PInv, TypeOK
    <3>2. passes' = passes \/ passes' = passes + 1
      BY DEF Next, vars, DyntraceEntry, DyntraceExit, UntracedAllocation, UntracedForce,
         UntracedCollection, PromiseCreated, GcPromiseUnmark, ClosureEntry, ClosureEntryNoPromise,
         PromiseForceEntry, PromiseForceExit, Unwind, PromiseValueLookup, PromiseSlotAccess,
         PromiseValueAssign, SlotAccess
    <3> QED
      BY <3>1, <3>2
  <2> QED
    BY <1>2, <2>1 DEF AlwaysMapped
<1>3. ASSUME NEW a \in Addresses, PromiseCreated(a) PROVE status' = "running"
  <2>1. prom_id_counter \notin DOMAIN promises
    BY BoundsAssumption DEF PInv, TypeOK, OnlyGiven, Given
  <2> QED
    BY <1>3, <2>1 DEF PromiseCreated
<1>4. ASSUME NEW a \in Addresses,
             PromiseForceEntry(a) \/ PromiseSlotAccess(a) \/ PromiseValueAssign(a)
               \/ PromiseValueLookup(a)
      PROVE  status' = "running"
  <2>1. InsertIfNonLocal(IdAt(a))
    BY <1>4 DEF PromiseForceEntry, PromiseSlotAccess,
       PromiseValueAssign, SlotAccess, PromiseValueLookup
  <2>2. IdAt(a) \in DOMAIN promises'
    BY <1>1, <2>1 DEF InsertIfNonLocal, Insert, Put
  <2> QED
    BY <1>4, <2>2 DEF PromiseForceEntry, PromiseSlotAccess, PromiseValueAssign, SlotAccess,
       PromiseValueLookup, Found
<1>5. ASSUME NEW a \in Addresses, PromiseForceExit(a) PROVE status' = "running"
  <2>1. a \in Live /\ Object(a).forcing
    BY <1>5 DEF PromiseForceExit
  <2>2. IdAt(a) \in DOMAIN promises
    BY <1>1, <2>1 DEF KnownMapped, Known, IdAt
  <2> QED
    BY <1>5, <2>2 DEF PromiseForceExit, Found
<1>6. ASSUME NEW a \in Addresses, NEW mode \in {"default", "custom"}, NEW others \in BOOLEAN,
             ClosureEntry(a, mode, others)
      PROVE  status' = "running"
  <2>1. /\ GetPromiseId(a) /\ MapArgument(IdAt(a), mode, call_id_counter + 1)
        /\ call_id_counter' = call_id_counter + 1 /\ call_id_counter + 1 \in 1..MaxCalls
        /\ a \in Live /\ phase = "tracing" /\ passes' = passes
    BY <1>6, BoundsAssumption DEF ClosureEntry, Tracing, PInv, TypeOK
  <2>2. passes = 1
    BY <2>1, BoundsAssumption DEF PInv, OnlyGiven, TypeOK
  <2>3. IdAt(a) < 0 \/ IdAt(a) \in DOMAIN promises
    <3>1. CASE a \in DOMAIN promise_ids
      BY <1>1, <2>1, <2>2, <3>1 DEF KnownMapped, Known, IdAt
    <3>2. CASE a \notin DOMAIN promise_ids
      BY <2>1, <3>2, GetsId
    <3> QED
      BY <3>1, <3>2
  <2> QED
    BY <1>1, <2>1, <2>3, MapsArgument
<1> QED
  BY <1>2, <1>3, <1>4, <1>5, <1>6
  DEF Next, vars, DyntraceEntry, DyntraceExit, UntracedAllocation, UntracedForce, UntracedCollection,
      GcPromiseUnmark, ClosureEntryNoPromise, Unwind

(* With the strictness analysis on, no probe of the first pass names a        *)
(* promise, or the call of an argument, that the analyses cannot find.        *)
THEOREM PromisesMapped == "strictness" \in Switch => (Spec => []AlwaysMapped)
<1> SUFFICES ASSUME "strictness" \in Switch PROVE Spec => []AlwaysMapped
  OBVIOUS
<1>1. Init => AlwaysMapped
  BY DEF Init, AlwaysMapped
<1>2. PInv /\ PInv' /\ KnownMapped /\ AlwaysMapped /\ [Next]_vars => AlwaysMapped'
  BY NextAlwaysMapped
<1> QED
  BY <1>1, <1>2, SpecPInv, SpecKnownMapped, PTL DEF Spec

-----------------------------------------------------------------------------
(* Where PromiseTypeAnalysis has a promise. *)

LEMMA NextUnevaluated == PInv /\ PInv' /\ UnevaluatedGone /\ [Next]_vars => UnevaluatedGone'
<1>1. ASSUME UnevaluatedGone, UNCHANGED vars PROVE UnevaluatedGone'
  BY <1>1 DEF vars, UnevaluatedGone, identity, typeAnalysis
<1> SUFFICES ASSUME PInv, PInv', UnevaluatedGone, Next, NEW b \in DOMAIN promise_ids'
             PROVE  promise_ids'[b] \notin DOMAIN unevaluated'
  BY <1>1 DEF UnevaluatedGone
<1> DEFINE id == promise_ids'[b]
<1>1a. id \notin DOMAIN unevaluated
  <2>1. CASE id \in GivenIds(promise_ids)
    BY <2>1 DEF GivenIds, UnevaluatedGone
  <2>2. CASE id \notin GivenIds(promise_ids)
    <3>1. id \in GivenIds(promise_ids')
      BY DEF GivenIds
    <3>2. id \notin Given
      BY <2>2, <3>1, NextNewIds DEF NewIdsUnused
    <3> QED
      BY <3>2 DEF PInv, OnlyGiven
  <2> QED
    BY <2>1, <2>2
<1>2. CASE unevaluated' = unevaluated
  BY <1>1a, <1>2
<1>3. ASSUME NEW a \in Addresses, GcPromiseUnmark(a) PROVE id \notin DOMAIN unevaluated'
  <2>1. DOMAIN unevaluated' \subseteq DOMAIN unevaluated \cup {IdAt(a)}
    <3>1. DOMAIN Counted(unevaluated, IdAt(a)) \subseteq DOMAIN unevaluated \cup {IdAt(a)}
      BY CountsWaiting DEF PInv, TypeOK
    <3> QED
      BY <1>3, <3>1 DEF GcPromiseUnmark
  <2>2. b \in DOMAIN promise_ids /\ b # a /\ id = promise_ids[b]
    BY <1>3 DEF GcPromiseUnmark, Erase
  <2>3. prom_neg_id_counter \in Int /\ prom_id_counter \in Nat
        /\ id \in prom_neg_id_counter..(prom_id_counter - 1)
    BY <2>2, BoundsAssumption DEF PInv, TypeOK
  <2>4. id # IdAt(a)
    BY <2>2, <2>3 DEF IdAt, PInv, IdsDistinct
  <2> QED
    BY <1>1a, <2>1, <2>4
<1> QED
  BY <1>2, <1>3
  DEF Next, DyntraceEntry, DyntraceExit, UntracedAllocation, UntracedForce, UntracedCollection,
      PromiseCreated, ClosureEntry, ClassifyArguments, ClosureEntryNoPromise, PromiseForceEntry,
      PromiseForceExit, Unwind, PromiseValueLookup, PromiseSlotAccess,
      PromiseValueAssign, SlotAccess, typeAnalysis

LEMMA SpecUnevaluated == Spec => []UnevaluatedGone
<1>1. Init => UnevaluatedGone
  BY DEF Init, UnevaluatedGone, EmptyMap
<1> QED
  BY <1>1, SpecPInv, NextUnevaluated, PTL DEF Spec

(* Arguments wrapped after a step were so before. *)
AllWrapped == \A n \in DOMAIN objects : objects[n].wrapped

LEMMA WrappedBefore == ASSUME PInv, Next, AllWrapped' PROVE AllWrapped
<1> SUFFICES ASSUME NEW n \in DOMAIN objects PROVE objects[n].wrapped
  BY DEF AllWrapped
<1>1. CASE objects' = objects
  BY <1>1 DEF AllWrapped
<1>2. CASE DyntraceExit
  BY <1>2, ExitObjects DEF AllWrapped
<1>3. ASSUME NEW a \in Addresses, UntracedAllocation(a) \/ PromiseCreated(a) PROVE objects[n].wrapped
  <2>1. PICK h \in BOOLEAN :
          Allocate(a, h) /\ prom_id_counter' \in {prom_id_counter, prom_id_counter + 1}
    BY <1>3, AllocatesObject
  <2>2. n \in DOMAIN objects' /\ objects'[n] = objects[n]
    BY <2>1, AllocateObject DEF PInv
  <2> QED
    BY <2>2 DEF AllWrapped
<1>4. ASSUME NEW a \in Addresses,
             PromiseForceEntry(a) \/ PromiseForceExit(a) \/ Unwind(a) \/ UntracedForce(a)
               \/ PromiseValueAssign(a)
      PROVE  objects[n].wrapped
  BY <1>4, ForceObjects DEF AllWrapped
<1>5. ASSUME NEW a \in Addresses, NEW mode \in {"default", "custom"}, NEW others \in BOOLEAN,
             ClosureEntry(a, mode, others)
      PROVE  objects[n].wrapped
  <2>1. n \in DOMAIN objects'
    BY <1>5, EntryObjects
  <2>2. CASE n # heap[a]
    BY <1>5, <2>1, <2>2, EntryObjects DEF AllWrapped
  <2>3. CASE n = heap[a]
    <3>1. Object(a).calls = <<>>
      BY <1>5, <2>1, <2>3, EntryObjects DEF AllWrapped
    <3> QED
      BY <2>3, <3>1 DEF PInv, HeapSound, Object, ObjectSound
  <2> QED
    BY <2>2, <2>3
<1> QED
  BY <1>1, <1>2, <1>3, <1>4, <1>5
  DEF Next, DyntraceEntry, UntracedCollection, GcPromiseUnmark, ClosureEntryNoPromise,
      PromiseValueLookup, PromiseSlotAccess, PromiseValueAssign, SlotAccess, interpreter

-----------------------------------------------------------------------------
(* Each promise is in one place. *)

LEMMA TimesOfBag ==
  ASSUME NEW bag, IsABag(bag), NEW i
  PROVE  TimesCounted(i, bag) \in Nat /\ (TimesCounted(i, bag) = 0 <=> i \notin DOMAIN bag)
  BY DEF TimesCounted, IsABag, BagIn, BagToSet

PlacesKept(i) ==
  /\ i \in default_argument_promises' <=> i \in default_argument_promises
  /\ i \in custom_argument_promises' <=> i \in custom_argument_promises
  /\ i \in non_argument_promises' <=> i \in non_argument_promises
  /\ i \in DOMAIN evaluated' <=> i \in DOMAIN evaluated
  /\ TimesCounted(i, evaluated') = TimesCounted(i, evaluated)
  /\ TimesCounted(i, unevaluated') = TimesCounted(i, unevaluated)

(* Only the creation, a call, the end of a force and the collection of a      *)
(* promise move it.                                                           *)
LEMMA NextPlaces ==
  ASSUME PInv, Next, NEW i \in Int, i > 0
  PROVE  \/ PlacesKept(i)
         \/ \E a \in Addresses :
              \/ PromiseCreated(a) /\ i = prom_id_counter
              \/ i = IdAt(a) /\ (GcPromiseUnmark(a) \/ PromiseForceExit(a))
              \/ i = IdAt(a) /\ \E mode \in {"default", "custom"}, others \in BOOLEAN :
                                  ClosureEntry(a, mode, others)
<1>1. UNCHANGED typeAnalysis => PlacesKept(i)
  BY DEF typeAnalysis, PlacesKept
<1>2. ClosureEntryNoPromise => PlacesKept(i)
  BY DEF ClosureEntryNoPromise, PlacesKept
<1>3. \A a \in Addresses : PromiseCreated(a) /\ i # prom_id_counter => PlacesKept(i)
  BY DEF PromiseCreated, PlacesKept
<1>4. \A a \in Addresses, mode \in {"default", "custom"}, others \in BOOLEAN :
        ClosureEntry(a, mode, others) /\ i # IdAt(a) => PlacesKept(i)
  BY DEF ClosureEntry, ClassifyArguments, typeAnalysis, PlacesKept
<1>5. ASSUME NEW a \in Addresses, PromiseForceExit(a) \/ GcPromiseUnmark(a), i # IdAt(a)
      PROVE  PlacesKept(i)
  <2> DEFINE id == IdAt(a)
  <2>1. CASE "promise_type" \notin Switch
    BY <1>5, <2>1 DEF PromiseForceExit, GcPromiseUnmark, PlacesKept
  <2>2. CASE "promise_type" \in Switch
    <3>1. /\ StopWaiting(id)
          /\ \/ evaluated' = Counted(evaluated, id) /\ unevaluated' = unevaluated
             \/ unevaluated' = Counted(unevaluated, id) /\ evaluated' = evaluated
      BY <1>5, <2>2 DEF PromiseForceExit, GcPromiseUnmark
    <3>2. \A bag : IsABag(bag) =>
            /\ TimesCounted(i, Counted(bag, id)) = TimesCounted(i, bag)
            /\ i \in DOMAIN Counted(bag, id) <=> i \in DOMAIN bag
      BY <1>5, CountsWaiting
    <3>3. IsABag(evaluated) /\ IsABag(unevaluated)
      BY DEF PInv, TypeOK
    <3>4. /\ i \in default_argument_promises' <=> i \in default_argument_promises
          /\ i \in custom_argument_promises' <=> i \in custom_argument_promises
          /\ i \in non_argument_promises' <=> i \in non_argument_promises
      BY <1>5, <3>1 DEF StopWaiting
    <3> QED
      BY <3>1, <3>2, <3>3, <3>4 DEF PlacesKept
  <2> QED
    BY <2>1, <2>2
<1> QED
  BY <1>1, <1>2, <1>3, <1>4, <1>5
  DEF Next, DyntraceEntry, DyntraceExit, UntracedAllocation, UntracedForce, UntracedCollection,
      PromiseForceEntry, Unwind, PromiseValueLookup, PromiseSlotAccess,
      PromiseValueAssign, SlotAccess

(* What is waited for and counted changes its place for another. *)
LEMMA CountsOnce ==
  ASSUME NEW i, NEW counts, IsABag(counts), NEW others, StopWaiting(i),
         Held(i, default_argument_promises) + Held(i, custom_argument_promises)
           + Held(i, non_argument_promises) + TimesCounted(i, counts) + others = 1,
         others \in Nat
  PROVE  /\ Held(i, default_argument_promises') + Held(i, custom_argument_promises')
              + Held(i, non_argument_promises') + TimesCounted(i, Counted(counts, i)) + others = 1
         /\ i \in Waiting => i \in DOMAIN Counted(counts, i)
<1>1. TimesCounted(i, counts) \in Nat /\ (TimesCounted(i, counts) = 0 <=> i \notin DOMAIN counts)
  BY TimesOfBag
<1>2. /\ i \in Waiting /\ i \notin DOMAIN counts => TimesCounted(i, Counted(counts, i)) = 1
      /\ i \in Waiting => i \in DOMAIN Counted(counts, i)
  BY CountsWaiting
<1>3. CASE i \in Waiting
  <2>1. TimesCounted(i, counts) = 0 /\ others = 0
        /\ Held(i, default_argument_promises) + Held(i, custom_argument_promises)
             + Held(i, non_argument_promises) = 1
    BY <1>1, <1>3 DEF Held, Waiting
  <2>2. Held(i, default_argument_promises') = 0 /\ Held(i, custom_argument_promises') = 0
        /\ Held(i, non_argument_promises') = 0
    BY <2>1 DEF Held, StopWaiting
  <2>3. TimesCounted(i, Counted(counts, i)) = 1
    BY <1>1, <1>2, <1>3, <2>1
  <2> QED
    BY <1>2, <2>1, <2>2, <2>3
<1>4. CASE i \notin Waiting
  <2>1. Counted(counts, i) = counts
    BY <1>4 DEF Counted
  <2>2. /\ Held(i, default_argument_promises') = Held(i, default_argument_promises)
        /\ Held(i, custom_argument_promises') = Held(i, custom_argument_promises)
        /\ Held(i, non_argument_promises') = Held(i, non_argument_promises)
    BY <1>4 DEF StopWaiting, Waiting, Held
  <2> QED
    BY <1>4, <2>1, <2>2
<1> QED
  BY <1>3, <1>4

LEMMA CountedPlaces ==
  ASSUME PInv, NEW a \in Addresses, NEW i, i = IdAt(a), PromiseForceExit(a) \/ GcPromiseUnmark(a),
         "promise_type" \in Switch, PlacesOf(i) = 1
  PROVE  /\ PlacesOf(i)' = 1
         /\ PromiseForceExit(a) /\ i \in Waiting => i \in DOMAIN evaluated'
         /\ PromiseForceExit(a) => /\ default_argument_promises' \subseteq default_argument_promises
                                   /\ custom_argument_promises' \subseteq custom_argument_promises
<1>1. /\ IsABag(evaluated) /\ IsABag(unevaluated)
      /\ TimesCounted(i, evaluated) \in Nat /\ TimesCounted(i, unevaluated) \in Nat
  BY TimesOfBag DEF PInv, TypeOK
<1>2. StopWaiting(i)
  BY DEF PromiseForceExit, GcPromiseUnmark
<1> DEFINE held == Held(i, default_argument_promises) + Held(i, custom_argument_promises)
                     + Held(i, non_argument_promises)
           held2 == Held(i, default_argument_promises') + Held(i, custom_argument_promises')
                     + Held(i, non_argument_promises')
<1>3. held \in Nat /\ held2 \in Nat
  BY DEF Held
<1>4. PlacesOf(i) = held + TimesCounted(i, evaluated) + TimesCounted(i, unevaluated)
      /\ PlacesOf(i)' = held2 + TimesCounted(i, evaluated') + TimesCounted(i, unevaluated')
  BY DEF PlacesOf, TimesCounted, Held
<1>5. CASE PromiseForceExit(a)
  <2>1. evaluated' = Counted(evaluated, i) /\ unevaluated' = unevaluated
    BY <1>5 DEF PromiseForceExit
  <2>2. /\ held2 + TimesCounted(i, Counted(evaluated, i)) + TimesCounted(i, unevaluated) = 1
        /\ i \in Waiting => i \in DOMAIN Counted(evaluated, i)
    BY <1>1, <1>2, <1>4, CountsOnce
  <2> QED
    BY <1>2, <1>4, <2>1, <2>2 DEF StopWaiting
<1>6. CASE GcPromiseUnmark(a)
  <2>1. unevaluated' = Counted(unevaluated, i) /\ evaluated' = evaluated
    BY <1>6 DEF GcPromiseUnmark
  <2>2. held + TimesCounted(i, unevaluated) + TimesCounted(i, evaluated) = 1
    BY <1>1, <1>3, <1>4
  <2>3. held2 + TimesCounted(i, Counted(unevaluated, i)) + TimesCounted(i, evaluated) = 1
    BY <1>1, <1>2, <2>2, CountsOnce
  <2>4. TimesCounted(i, Counted(unevaluated, i)) \in Nat
    BY <1>1, CountsWaiting, TimesOfBag
  <2>5. ~PromiseForceExit(a)
    BY <1>6 DEF GcPromiseUnmark, PromiseForceExit
  <2> QED
    BY <1>1, <1>3, <1>4, <2>1, <2>3, <2>4, <2>5
<1> QED
  BY <1>5, <1>6

(* A promise that no call had yet becomes one of the arguments. *)
LEMMA EntryPlaces ==
  ASSUME PInv, NEW a \in Addresses, NEW mode \in {"default", "custom"}, NEW others \in BOOLEAN,
         ClosureEntry(a, mode, others), NEW i, i = IdAt(a),
         "promise_type" \in Switch, PlacesOf(i) = 1, i \in Waiting,
         i \notin default_argument_promises \cup custom_argument_promises
  PROVE  PlacesOf(i)' = 1 /\ i \in Waiting'
<1>1. /\ evaluated' = evaluated /\ unevaluated' = unevaluated
      /\ i \in default_argument_promises' <=> mode = "default"
      /\ i \in custom_argument_promises' <=> mode = "custom"
      /\ i \notin non_argument_promises'
  BY DEF ClosureEntry, ClassifyArguments
<1>2. i \in non_argument_promises
  BY DEF Waiting
<1>3. /\ Held(i, default_argument_promises) = 0 /\ Held(i, custom_argument_promises) = 0
      /\ Held(i, non_argument_promises) = 1 /\ Held(i, non_argument_promises') = 0
  BY <1>1, <1>2 DEF Held
<1>4. Held(i, default_argument_promises') + Held(i, custom_argument_promises') = 1
      /\ i \in Waiting'
  BY <1>1 DEF Held, Waiting
<1>5. TimesCounted(i, evaluated) \in Nat /\ TimesCounted(i, unevaluated) \in Nat
  BY TimesOfBag DEF PInv, TypeOK
<1>6. /\ Held(i, default_argument_promises') + Held(i, custom_argument_promises')
           + Held(i, non_argument_promises') + TimesCounted(i, evaluated')
           + TimesCounted(i, unevaluated') = 1
  <2>1. TimesCounted(i, evaluated) + TimesCounted(i, unevaluated) = 0
    BY <1>3, <1>5 DEF PlacesOf
  <2>2. Held(i, default_argument_promises') \in Nat /\ Held(i, custom_argument_promises') \in Nat
    BY DEF Held
  <2> QED
    BY <1>1, <1>3, <1>4, <1>5, <2>1, <2>2
<1> QED
  BY <1>4, <1>6 DEF PlacesOf, Held, TimesCounted

(* And a new one waits as no argument. *)
LEMMA CreatedPlaces ==
  ASSUME PInv, NEW a \in Addresses, PromiseCreated(a), "promise_type" \in Switch
  PROVE  /\ \A i : i = prom_id_counter => PlacesOf(i)' = 1
         /\ prom_id_counter \in Waiting'
         /\ prom_id_counter \notin default_argument_promises' \cup custom_argument_promises'
<1> DEFINE id == prom_id_counter
<1>1. id \notin Waiting /\ id \notin DOMAIN evaluated /\ id \notin DOMAIN unevaluated
  BY BoundsAssumption DEF PInv, TypeOK, OnlyGiven, Given
<1>2. /\ default_argument_promises' = default_argument_promises
      /\ custom_argument_promises' = custom_argument_promises
      /\ non_argument_promises' = non_argument_promises \cup {id}
      /\ evaluated' = evaluated /\ unevaluated' = unevaluated
  BY DEF PromiseCreated
<1>3. TimesCounted(id, evaluated) = 0 /\ TimesCounted(id, unevaluated) = 0
  BY <1>1 DEF TimesCounted, BagIn, BagToSet
<1>4. /\ Held(id, default_argument_promises) = 0 /\ Held(id, custom_argument_promises) = 0
      /\ Held(id, non_argument_promises) = 0 /\ Held(id, non_argument_promises') = 1
  BY <1>1, <1>2 DEF Held, Waiting
<1>5. ASSUME NEW i, i = id PROVE PlacesOf(i)' = 1
  <2>1. /\ Held(i, default_argument_promises') = 0 /\ Held(i, custom_argument_promises') = 0
        /\ Held(i, non_argument_promises') = 1
        /\ TimesCounted(i, evaluated') = 0 /\ TimesCounted(i, unevaluated') = 0
    BY <1>2, <1>3, <1>4, <1>5
  <2> QED
    BY <2>1 DEF PlacesOf, Held, TimesCounted
<1> QED
  BY <1>1, <1>2, <1>5 DEF Waiting

LEMMA KeptPlaces == ASSUME NEW i, PlacesKept(i) PROVE PlacesOf(i)' = PlacesOf(i)
<1>1. /\ Held(i, default_argument_promises') = Held(i, default_argument_promises)
      /\ Held(i, custom_argument_promises') = Held(i, custom_argument_promises)
      /\ Held(i, non_argument_promises') = Held(i, non_argument_promises)
      /\ TimesCounted(i, evaluated') = TimesCounted(i, evaluated)
      /\ TimesCounted(i, unevaluated') = TimesCounted(i, unevaluated)
  BY DEF PlacesKept, Held
<1>2. PlacesOf(i)' = Held(i, default_argument_promises') + Held(i, custom_argument_promises')
                       + Held(i, non_argument_promises') + TimesCounted(i, evaluated')
                       + TimesCounted(i, unevaluated')
  BY DEF PlacesOf, Held, TimesCounted
<1> QED
  BY <1>1, <1>2 DEF PlacesOf

(* Where a promise that is alive must be. *)
RightPlace(b) ==
  /\ IF Object(b).forced THEN promise_ids[b] \in DOMAIN evaluated ELSE promise_ids[b] \in Waiting
  /\ Object(b).calls = <<>> =>
       promise_ids[b] \notin default_argument_promises \cup custom_argument_promises

(* A wrapped argument was one for the first time, and was not forced. *)
LEMMA WrappedEntry ==
  ASSUME PInv, NEW a \in Addresses, NEW mode \in {"default", "custom"}, NEW others \in BOOLEAN,
         ClosureEntry(a, mode, others), AllWrapped'
  PROVE  Object(a).calls = <<>> /\ ~Object(a).forced
<1>1. objects'[heap[a]].wrapped
  BY EntryObjects DEF AllWrapped
<1> QED
  BY <1>1, EntryObjects

LEMMA NextConserves ==
  ASSUME PInv, PInv', InPlace, Next, "promise_type" \in Switch, AllWrapped', passes = 1,
         NEW i \in Int, i > 0, i < prom_id_counter'
  PROVE  PlacesOf(i)' = 1
<1>1. i \in Int /\ i > 0 /\ i < prom_id_counter' /\ prom_id_counter \in Nat /\ prom_id_counter' \in Nat
  BY BoundsAssumption DEF PInv, TypeOK
<1>2. AllWrapped
  BY WrappedBefore
<1>3. i < prom_id_counter => PlacesOf(i) = 1
  BY <1>1, <1>2 DEF InPlace, AllWrapped
<1>4. \A a \in Addresses : IdAt(a) > 0 /\ IdAt(a) \in Int => a \in DOMAIN promise_ids /\ IdAt(a) < prom_id_counter
  BY <1>1 DEF IdAt, PInv, TypeOK
<1>5. ASSUME NEW a \in Addresses, PromiseCreated(a), i = prom_id_counter PROVE PlacesOf(i)' = 1
  BY <1>5, CreatedPlaces
<1>6. ASSUME NEW a \in Addresses, i = IdAt(a), GcPromiseUnmark(a) \/ PromiseForceExit(a)
      PROVE  PlacesOf(i)' = 1
  BY <1>1, <1>3, <1>4, <1>6, CountedPlaces
<1>7. ASSUME NEW a \in Addresses, i = IdAt(a), NEW mode \in {"default", "custom"},
             NEW others \in BOOLEAN, ClosureEntry(a, mode, others)
      PROVE  PlacesOf(i)' = 1
  <2>1. Object(a).calls = <<>> /\ ~Object(a).forced
    BY <1>7, WrappedEntry
  <2>2. a \in DOMAIN promise_ids /\ promise_ids[a] = i /\ i < prom_id_counter
    BY <1>1, <1>4, <1>7 DEF IdAt
  <2>3. a \in Known /\ phase = "tracing"
    BY <1>7, <2>2 DEF ClosureEntry, Tracing, Known
  <2>4. i \in Waiting /\ i \notin default_argument_promises \cup custom_argument_promises
    BY <1>1, <1>2, <2>1, <2>2, <2>3 DEF InPlace, AllWrapped
  <2> QED
    BY <1>3, <1>7, <2>2, <2>4, EntryPlaces
<1>8. CASE PlacesKept(i)
  <2>1. i # prom_id_counter
    <3>1. CASE prom_id_counter' = prom_id_counter
      BY <1>1, <3>1
    <3>2. ASSUME NEW a \in Addresses, PromiseCreated(a) PROVE i # prom_id_counter
      <4>1. prom_id_counter \notin Waiting
        BY BoundsAssumption DEF PInv, TypeOK, OnlyGiven, Given
      <4>2. prom_id_counter \in non_argument_promises'
        BY <3>2 DEF PromiseCreated
      <4>3. i \in non_argument_promises' <=> i \in non_argument_promises
        BY <1>8 DEF PlacesKept
      <4> QED
        BY <4>1, <4>2, <4>3 DEF Waiting
    <3> QED
      BY <3>1, <3>2 DEF Next, DyntraceEntry, DyntraceExit, UntracedAllocation, UntracedForce,
         UntracedCollection, GcPromiseUnmark, ClosureEntry, ClosureEntryNoPromise, PromiseForceEntry,
         PromiseForceExit, Unwind, PromiseValueLookup, PromiseSlotAccess,
         PromiseValueAssign, SlotAccess, GetPromiseId, identity
  <2>2. prom_id_counter' = prom_id_counter \/ prom_id_counter' = prom_id_counter + 1
    BY DEF Next, DyntraceEntry, DyntraceExit, UntracedAllocation, UntracedForce,
         UntracedCollection, GcPromiseUnmark, ClosureEntry, ClosureEntryNoPromise, PromiseForceEntry,
         PromiseForceExit, Unwind, PromiseValueLookup, PromiseSlotAccess,
         PromiseValueAssign, SlotAccess, GetPromiseId, identity,
         PromiseCreated
  <2>3. i < prom_id_counter
    BY <1>1, <2>1, <2>2
  <2> QED
    BY <1>3, <1>8, <2>3, KeptPlaces
<1> QED
  BY <1>1, <1>5, <1>6, <1>7, <1>8, NextPlaces

LEMMA NextRightPlace ==
  ASSUME PInv, PInv', InPlace, Next, "promise_type" \in Switch, AllWrapped',
         passes = 1, phase = "tracing", phase' = "tracing", NEW b \in Known', promise_ids'[b] > 0
  PROVE  RightPlace(b)'
<1> DEFINE id == promise_ids'[b]
<1>1. /\ b \in Addresses /\ id \in Int /\ id > 0 /\ b \in Live'
      /\ prom_id_counter \in Nat /\ prom_neg_id_counter \in Int
      /\ \A a \in DOMAIN promise_ids : promise_ids[a] \in Int /\ promise_ids[a] < prom_id_counter
  BY BoundsAssumption DEF PInv, TypeOK, Known, Live
<1>2. AllWrapped
  BY WrappedBefore
<1>3. \A a \in Known : promise_ids[a] > 0 => RightPlace(a) /\ PlacesOf(promise_ids[a]) = 1
  <2> SUFFICES ASSUME NEW a \in Known, promise_ids[a] > 0
               PROVE  RightPlace(a) /\ PlacesOf(promise_ids[a]) = 1
    OBVIOUS
  <2>1. promise_ids[a] \in 1..(prom_id_counter - 1)
    BY <1>1 DEF Known
  <2> QED
    BY <1>2, <2>1 DEF InPlace, AllWrapped, RightPlace
<1>4. ASSUME NEW mode \in {"default", "custom"}, NEW others \in BOOLEAN, ClosureEntry(b, mode, others)
      PROVE  RightPlace(b)'
  <2>1. /\ Object(b).calls = <<>> /\ ~Object(b).forced
        /\ Object(b)'.calls # <<>> /\ Object(b)'.forced = Object(b).forced
    BY <1>1, <1>4, WrappedEntry, EntryObjects
  <2>2. GetPromiseId(b) /\ b \in Live
    BY <1>4 DEF ClosureEntry
  <2>3. id = IdAt(b) /\ (b \notin DOMAIN promise_ids => IdAt(b) < 0)
    BY <1>1, <2>2, GetsId
  <2>4. b \in Known /\ promise_ids[b] = id
    BY <1>1, <2>2, <2>3 DEF IdAt, Known
  <2>5. PlacesOf(id) = 1 /\ id \in Waiting
        /\ id \notin default_argument_promises \cup custom_argument_promises
    BY <1>1, <1>3, <2>1, <2>4 DEF RightPlace
  <2> HIDE DEF id
  <2>6. id \in Waiting'
    BY <1>1, <1>4, <2>3, <2>5, EntryPlaces
  <2> QED
    BY <2>1, <2>6 DEF RightPlace, id
<1>5. CASE PromiseCreated(b) /\ id = prom_id_counter
  <2>1. Object(b)'.forced = FALSE
    <3>1. Object(b)' = NewObject(FALSE)
      BY <1>1, <1>5, AllocateObject DEF PInv, PromiseCreated
    <3> QED
      BY <3>1, NewObjectFields
  <2>2. id \in Waiting' /\ id \notin default_argument_promises' \cup custom_argument_promises'
    BY <1>1, <1>5, CreatedPlaces
  <2> QED
    BY <2>1, <2>2 DEF RightPlace
<1>6. ASSUME b \in Known, KnownKept(b),
             \A mode \in {"default", "custom"}, others \in BOOLEAN : ~ClosureEntry(b, mode, others)
      PROVE  RightPlace(b)'
  <2>1. /\ promise_ids[b] = id /\ Object(b)'.calls = Object(b).calls
        /\ ~PromiseForceExit(b) => Object(b)'.forced = Object(b).forced
    BY <1>6 DEF KnownKept
  <2>2. RightPlace(b) /\ PlacesOf(id) = 1
    BY <1>1, <1>3, <1>6, <2>1
  <2>3. \A a \in Addresses : id = IdAt(a) => a = b
    BY <1>1, <1>6, <2>1 DEF IdAt, PInv, IdsDistinct, TypeOK, Known
  <2>4. ~GcPromiseUnmark(b)
    BY <1>1 DEF GcPromiseUnmark, Live, PInv, TypeOK
  <2>5. id # prom_id_counter
    BY <1>1, <1>6, <2>1 DEF Known
  <2>6. CASE PromiseForceExit(b)
    <3>1. Object(b)'.forced = TRUE
      BY <1>1, <2>6, ForceObjects
    <3>2. ~Object(b).forced
      BY <2>6, LiveObject DEF PromiseForceExit, ObjectSound, PInv
    <3>3. IdAt(b) = id /\ id \in Waiting
      BY <1>6, <2>1, <2>2, <3>2 DEF RightPlace, IdAt, Known
    <3> HIDE DEF id
    <3>4. id \in DOMAIN evaluated' /\ default_argument_promises' \subseteq default_argument_promises
          /\ custom_argument_promises' \subseteq custom_argument_promises
      BY <1>1, <2>2, <2>6, <3>3, CountedPlaces
    <3> QED
      BY <2>1, <2>2, <3>1, <3>4 DEF RightPlace, id
  <2>7. CASE ~PromiseForceExit(b)
    <3>1. PlacesKept(id)
      BY <1>1, <1>6, <2>3, <2>4, <2>5, <2>7, NextPlaces
    <3> HIDE DEF id
    <3>2. /\ id \in Waiting' <=> id \in Waiting
          /\ id \in DOMAIN evaluated' <=> id \in DOMAIN evaluated
          /\ id \in default_argument_promises' \cup custom_argument_promises'
               <=> id \in default_argument_promises \cup custom_argument_promises
      BY <3>1 DEF PlacesKept, Waiting
    <3> QED
      BY <2>1, <2>2, <2>7, <3>2 DEF RightPlace, id
  <2> QED
    BY <2>6, <2>7
<1>7. ~UntracedAllocation(b)
  BY DEF UntracedAllocation
<1> QED
  BY <1>1, <1>4, <1>5, <1>6, <1>7, KnownNext

LEMMA NextInPlace ==
  PInv /\ PInv' /\ InPlace /\ [Next]_vars => InPlace'
<1> SUFFICES ASSUME PInv, PInv', InPlace, [Next]_vars, passes' = 1,
                    "promise_type" \in Switch, AllWrapped'
             PROVE  /\ \A i \in 1..(prom_id_counter' - 1) : PlacesOf(i)' = 1
                    /\ phase' = "tracing" => \A b \in Known' : promise_ids'[b] > 0 => RightPlace(b)'
  BY DEF InPlace, AllWrapped, RightPlace
<1>1. CASE UNCHANGED vars
  <2>1. \A i : PlacesOf(i)' = PlacesOf(i)
    BY <1>1, KeptPlaces DEF PlacesKept, vars, typeAnalysis
  <2>2. /\ heap' = heap /\ objects' = objects /\ promise_ids' = promise_ids
        /\ passes' = passes /\ phase' = phase /\ prom_id_counter' = prom_id_counter
        /\ evaluated' = evaluated /\ default_argument_promises' = default_argument_promises
        /\ custom_argument_promises' = custom_argument_promises
        /\ non_argument_promises' = non_argument_promises
    BY <1>1 DEF vars, interpreter, identity, typeAnalysis
  <2>3. Known' = Known /\ \A b : RightPlace(b)' <=> RightPlace(b)
    <3>1. Known' = Known /\ Waiting' = Waiting
      BY <2>2 DEF Known, Live, Waiting
    <3>2. \A b : Object(b)' = Object(b)
      BY <2>2 DEF Object
    <3> QED
      BY <2>2, <3>1, <3>2 DEF RightPlace
  <2>4. AllWrapped
    BY <2>2 DEF AllWrapped
  <2>5. /\ \A i \in 1..(prom_id_counter - 1) : PlacesOf(i) = 1
        /\ phase = "tracing" => \A b \in Known : promise_ids[b] > 0 => RightPlace(b)
    BY <2>2, <2>4 DEF InPlace, AllWrapped, RightPlace
  <2> QED
    BY <2>1, <2>2, <2>3, <2>5
<1>2. CASE DyntraceEntry
  <2>1. passes = 0 /\ identity' = identity
    BY <1>2, BoundsAssumption DEF DyntraceEntry, PInv, TypeOK
  <2>2. DOMAIN promise_ids' = {} /\ prom_id_counter' = 0
    BY <2>1 DEF PInv, OnlyGiven, identity
  <2> QED
    BY <2>2 DEF Known
<1>3. CASE Next /\ ~DyntraceEntry
  <2>1. passes = 1
    BY <1>3 DEF Next, DyntraceExit, UntracedAllocation, UntracedForce, UntracedCollection,
       PromiseCreated, GcPromiseUnmark, ClosureEntry, ClosureEntryNoPromise, PromiseForceEntry,
       PromiseForceExit, Unwind, PromiseValueLookup, PromiseSlotAccess,
       PromiseValueAssign, SlotAccess
  <2>2. phase' = "tracing" => phase = "tracing"
    BY <1>3 DEF Next, DyntraceExit, UntracedAllocation, UntracedForce, UntracedCollection,
       PromiseCreated, GcPromiseUnmark, ClosureEntry, ClosureEntryNoPromise, PromiseForceEntry,
       PromiseForceExit, Unwind, PromiseValueLookup, PromiseSlotAccess,
       PromiseValueAssign, SlotAccess
  <2>3. \A i \in 1..(prom_id_counter' - 1) : i \in Int /\ i > 0 /\ i < prom_id_counter'
    <3>1. prom_id_counter' \in Nat
      BY BoundsAssumption DEF PInv, TypeOK
    <3>2. \A n \in Nat : \A i \in 1..(n - 1) : i \in Int /\ i > 0 /\ i < n
      OBVIOUS
    <3> QED
      BY <3>1, <3>2
  <2> QED
    BY <1>3, <2>1, <2>2, <2>3, NextConserves, NextRightPlace
<1> QED
  BY <1>1, <1>2, <1>3

(* In the first pass PromiseTypeAnalysis loses no promise and counts none     *)
(* twice, and has counted as evaluated just the promises whose force it saw   *)
(* end, and not those that were given a value otherwise, while no promise was *)
(* an argument twice, and id 0 apart.                                         *)
THEOREM PromisesAllCounted == Spec => []PromisesConserved
<1>1. Init => InPlace
  BY DEF Init, InPlace
<1>2. PInv /\ InPlace /\ UnevaluatedGone => PromisesConserved
  <2> SUFFICES ASSUME PInv, InPlace, UnevaluatedGone, passes = 1, "promise_type" \in Switch, AllWrapped
               PROVE  /\ \A id \in 1..(prom_id_counter - 1) : PlacesOf(id) = 1
                      /\ \A a \in Live \cap DOMAIN promise_ids :
                           /\ ~BagIn(promise_ids[a], unevaluated)
                           /\ promise_ids[a] > 0 /\ phase = "tracing" =>
                                (BagIn(promise_ids[a], evaluated) <=> Object(a).forced)
    BY DEF PromisesConserved, AllWrapped
  <2>1. \A id \in 1..(prom_id_counter - 1) : PlacesOf(id) = 1
    BY DEF InPlace, AllWrapped
  <2>2. ASSUME NEW a \in Known PROVE ~BagIn(promise_ids[a], unevaluated)
    BY <2>2 DEF UnevaluatedGone, BagIn, BagToSet, Known
  <2>3. ASSUME NEW a \in Known, promise_ids[a] > 0, phase = "tracing"
        PROVE  BagIn(promise_ids[a], evaluated) <=> Object(a).forced
    <3> DEFINE id == promise_ids[a]
    <3>1. id \in 1..(prom_id_counter - 1)
      BY <2>3, BoundsAssumption DEF PInv, TypeOK, Known
    <3>2. IF Object(a).forced THEN id \in DOMAIN evaluated ELSE id \in Waiting
      BY <2>3 DEF InPlace, AllWrapped
    <3>3. PlacesOf(id) = 1
      BY <2>1, <3>1
    <3> HIDE DEF id
    <3>4. id \in Waiting => id \notin DOMAIN evaluated
      <4>1. TimesCounted(id, evaluated) \in Nat /\ TimesCounted(id, unevaluated) \in Nat
            /\ (TimesCounted(id, evaluated) = 0 <=> id \notin DOMAIN evaluated)
        BY TimesOfBag DEF PInv, TypeOK
      <4> QED
        BY <3>3, <4>1 DEF PlacesOf, Held, Waiting
    <3> QED
      BY <3>2, <3>4 DEF BagIn, BagToSet, id
  <2> QED
    BY <2>1, <2>2, <2>3 DEF Known
<1> QED
  BY <1>1, <1>2, SpecPInv, SpecUnevaluated, NextInPlace, PTL DEF Spec
=============================================================================
