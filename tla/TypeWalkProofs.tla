--------------------------- MODULE TypeWalkProofs ---------------------------
(***************************************************************************)
(* Proofs about TypeWalk, for every heap: any promises, environments and   *)
(* bindings, of any number.                                                *)
(***************************************************************************)
EXTENDS TypeWalk, SequenceTheorems, TLAPS

(* The promises walked were visited, each is entered by the first visit; all *)
(* but the one the walk is about, which may be met later.                    *)
PathVisited ==
  /\ path \in Seq(Promises) /\ Len(path) >= 1
  /\ \A i \in 2..Len(path) : path[i] \in visited
  /\ \A i, j \in 2..Len(path) : path[i] = path[j] => i = j

LEMMA InitPath == Init => PathVisited
<1> SUFFICES ASSUME Init PROVE PathVisited
  OBVIOUS
<1>1. PICK p \in Promises : path = <<p>>
  BY DEF Init
<1>2. path \in Seq(Promises) /\ Len(path) = 1
  BY <1>1
<1>3. 2..Len(path) = {}
  BY <1>2
<1> QED
  BY <1>2, <1>3 DEF PathVisited

LEMMA NextPath == PathVisited /\ [Next]_vars => PathVisited'
<1> SUFFICES ASSUME PathVisited, [Next]_vars PROVE PathVisited'
  OBVIOUS
<1>1. CASE WalkPromise
  <2>1. /\ at \in Promises /\ at \notin visited
        /\ visited' = visited \cup {at} /\ path' = Append(path, at)
    BY <1>1 DEF WalkPromise, Visit
  <2>2. path \in Seq(Promises) /\ Len(path) \in Nat /\ Len(path) >= 1
    BY DEF PathVisited
  <2>3. /\ path' \in Seq(Promises) /\ Len(path') = Len(path) + 1
        /\ path'[Len(path) + 1] = at
        /\ \A i \in 1..Len(path) : path'[i] = path[i]
    BY <2>1, <2>2
  <2>4. 2..Len(path') = 2..Len(path) \cup {Len(path) + 1} /\ 2..Len(path) \subseteq 1..Len(path)
    BY <2>2, <2>3
  <2>5. \A i \in 2..Len(path) : path[i] \in visited /\ path[i] # at
    BY <2>1 DEF PathVisited
  <2>6. \A i, j \in 2..Len(path) : path[i] = path[j] => i = j
    BY DEF PathVisited
  <2>7. \A i \in 2..Len(path') : path'[i] \in visited'
    BY <2>1, <2>3, <2>4, <2>5
  <2>8. \A i, j \in 2..Len(path') : path'[i] = path'[j] => i = j
    BY <2>3, <2>4, <2>5, <2>6
  <2>9. Len(path') >= 1
    BY <2>2, <2>3
  <2> QED
    BY <2>3, <2>7, <2>8, <2>9 DEF PathVisited
<1>2. CASE ~WalkPromise
  <2>1. path' = path /\ visited \subseteq visited'
    BY <1>2 DEF Next, WalkAgain, WalkBytecode, WalkUnbound, WalkSelf, WalkBinding, WalkEnd,
                End, Visit, vars, walk
  <2> QED
    BY <2>1 DEF PathVisited
<1> QED
  BY <1>1, <1>2

(* Promises that refer to each other do not make the walk endless: the code  *)
(* of each that it meets is walked once, so that of the promise that it is   *)
(* about twice at most, whatever the heap.                                   *)
THEOREM EachPromiseOnce == Spec => []PromisesOnce
<1>1. PathVisited => PromisesOnce
  <2> SUFFICES ASSUME PathVisited PROVE PromisesOnce
    OBVIOUS
  <2>1. path # <<>> /\ \A i \in DOMAIN path : path[i] \in Promises
    BY DEF PathVisited
  <2> QED
    BY <2>1 DEF PathVisited, PromisesOnce, Range
<1> QED
  BY <1>1, InitPath, NextPath, PTL DEF Spec

-----------------------------------------------------------------------------
(* From a symbol of a cycle the walk can only go on to the next one.         *)
LEMMA StaysOnCycle ==
  ASSUME DistinctKinds, NEW C \in SUBSET Pairs, Cyclic(C), <<at, rho>> \in C, Walking, Next
  PROVE  Cyclic(C)' /\ <<at, rho>>' \in C /\ Walking'
<1> DEFINE r == Lookup(at, rho)
<1>1. at \in Symbols /\ rho \in Environments
  BY DEF Pairs
<1>2. at \notin Promises /\ at \notin Bytecodes /\ at \notin Ends
  BY <1>1 DEF DistinctKinds
<1>3. <<r.value, r.environment>> \in C /\ <<r.value, r.environment>> # <<at, rho>>
  BY DEF Cyclic
<1>4. Found # Self
  BY <1>3 DEF Found, Self
<1>5. Found # NotFound
  <2>1. r.value \in Symbols
    BY <1>3 DEF Pairs
  <2> QED
    BY <2>1 DEF Found, NotFound, DistinctKinds
<1>6. WalkBinding
  BY <1>2, <1>4, <1>5 DEF Next, WalkPromise, WalkAgain, WalkBytecode, WalkUnbound, WalkSelf, WalkEnd
<1>7. at' = r.value /\ rho' = r.environment /\ outcome' = outcome /\ bound' = bound
  BY <1>6 DEF WalkBinding, GoTo, Found, heap
<1>8. Cyclic(C)'
  <2>1. \A s, e : Lookup(s, e)' = Lookup(s, e)
    BY <1>7 DEF Lookup, BoundAt
  <2> QED
    BY <2>1 DEF Cyclic
<1> QED
  BY <1>3, <1>7, <1>8 DEF Walking

(* Symbols bound to each other make the walk endless: once it has come to    *)
(* one of them no step can end it, whatever else the heap has.               *)
THEOREM SymbolCyclesAreEndless ==
  ASSUME DistinctKinds
  PROVE  Spec => TrappedForEver
<1>1. [Next]_vars => [Trapped => Trapped']_vars
  <2> SUFFICES ASSUME [Next]_vars, Trapped PROVE Trapped' \/ UNCHANGED vars
    OBVIOUS
  <2>1. CASE Next
    <3>1. PICK C \in SUBSET Pairs : Cyclic(C) /\ <<at, rho>> \in C
      BY DEF Trapped
    <3>2. Walking
      BY DEF Trapped
    <3>3. Cyclic(C)' /\ <<at, rho>>' \in C /\ Walking'
      BY <2>1, <3>1, <3>2, StaysOnCycle
    <3> QED
      BY <3>3 DEF Trapped, Pairs
  <2> QED
    BY <2>1
<1> QED
  BY <1>1, PTL DEF Spec, TrappedForEver
=============================================================================
