------------------------------ MODULE TypeWalk ------------------------------
(***************************************************************************)
(* get_full_type, which tells the type of a promise that has no value: the *)
(* chain of types met on the way from its code, over the bindings of       *)
(* symbols and the code of other promises, to something that is neither.   *)
(*                                                                         *)
(* The heap is external and does not change while a probe walks it: code   *)
(* and env are those of a promise, Nil for the environment of a promise    *)
(* that was forced; instruction is what the first instruction of a compiled*)
(* code refers to; bound has the bindings.  Calls, constants, R_MissingArg,*)
(* active bindings and all else where a walk ends are in Ends.             *)
(*                                                                         *)
(*   at, rho    the arguments of get_full_type_inner;                      *)
(*   visited    the objects met so far;                                    *)
(*   path       the promises whose code was walked, in their order, from   *)
(*              the one that the walk is about, which is not in visited;   *)
(*   outcome    "walking", or how it ended: with a type or with Omega.     *)
(***************************************************************************)
EXTENDS Integers, SequencesExt, FiniteSets, Functions

CONSTANTS Promises, Symbols, Bytecodes, Ends, Environments,
          Chain,       \* an environment -> it and those that enclose it
          Nil,         \* R_NilValue
          Unbound      \* R_UnboundValue

VARIABLES code, env, instruction, bound, at, rho, visited, path, outcome

heap == <<code, env, instruction, bound>>
walk == <<at, rho, visited, path, outcome>>
vars == <<heap, walk>>

-----------------------------------------------------------------------------
(* A symbol is a thing of its own. *)
DistinctKinds == /\ Symbols \cap (Promises \cup Bytecodes \cup Ends) = {}
                 /\ Unbound \notin Symbols

Objects == Promises \cup Symbols \cup Bytecodes \cup Ends
Values  == Promises \cup Symbols \cup Ends

(* find_binding_in_environment: the innermost environment in which the      *)
(* symbol is bound; NotFound also if the environment is nil.                *)
NotFound == [value |-> Unbound, environment |-> Nil]

BoundAt(s, e) == {i \in DOMAIN Chain[e] : bound[Chain[e][i], s] # Unbound}

Lookup(s, e) ==
  IF e = Nil THEN NotFound
  ELSE IF BoundAt(s, e) = {} THEN NotFound
  ELSE LET i == CHOOSE i \in BoundAt(s, e) : \A j \in BoundAt(s, e) : i <= j
       IN  [value |-> bound[Chain[e][i], s], environment |-> Chain[e][i]]

Walking == outcome = "walking"
End(how) == outcome' = how /\ UNCHANGED <<at, rho, path>>
GoTo(object, e) == at' = object /\ rho' = e /\ UNCHANGED outcome

-----------------------------------------------------------------------------
(* get_full_type, of a promise p: the walk begins with the code of p, and   *)
(* does not visit p itself.                                                 *)
Init ==
  /\ code \in [Promises -> Symbols \cup Bytecodes \cup Ends]
  /\ env \in [Promises -> Environments \cup {Nil}]
  /\ instruction \in [Bytecodes -> Symbols \cup Ends]
  /\ bound \in [Environments \X Symbols -> Values \cup {Unbound}]
  /\ \E p \in Promises : at = code[p] /\ rho = env[p] /\ path = <<p>>
  /\ visited = {} /\ outcome = "walking"

Visit == visited' = visited \cup {at}

WalkPromise ==
  /\ Walking /\ at \in Promises /\ at \notin visited
  /\ Visit
  /\ path' = Append(path, at)
  /\ GoTo(code[at], env[at])
  /\ UNCHANGED heap

(* A promise that was met before is a cycle.                                *)
WalkAgain ==
  /\ Walking /\ at \in Promises /\ at \in visited
  /\ End("omega")
  /\ UNCHANGED <<visited, heap>>

(* infer_type_from_bytecode.                                                *)
WalkBytecode ==
  /\ Walking /\ at \in Bytecodes
  /\ Visit
  /\ GoTo(instruction[at], rho)
  /\ UNCHANGED <<path, heap>>

Found == Lookup(at, rho)
Self  == [value |-> at, environment |-> rho]

WalkUnbound ==
  /\ Walking /\ at \in Symbols /\ Found = NotFound
  /\ Visit /\ End("type")
  /\ UNCHANGED heap

(* A symbol bound to itself where it is looked up is a cycle as well; that  *)
(* a symbol was met before is not asked.                                    *)
WalkSelf ==
  /\ Walking /\ at \in Symbols /\ Found = Self
  /\ Visit /\ End("omega")
  /\ UNCHANGED heap

WalkBinding ==
  /\ Walking /\ at \in Symbols /\ Found \notin {NotFound, Self}
  /\ Visit
  /\ GoTo(Found.value, Found.environment)
  /\ UNCHANGED <<path, heap>>

WalkEnd ==
  /\ Walking /\ at \in Ends
  /\ Visit /\ End("type")
  /\ UNCHANGED heap

Next == WalkPromise \/ WalkAgain \/ WalkBytecode \/ WalkUnbound \/ WalkSelf \/ WalkBinding \/ WalkEnd

(* The walk is a recursion of C++, which goes on. *)
Spec == Init /\ [][Next]_vars /\ WF_vars(Next)
-----------------------------------------------------------------------------
(* Properties. *)

Pairs == Symbols \X Environments

(* C has the symbols of cycles: each is bound, where it is looked up, to     *)
(* another one of C, or to itself further out.                               *)
Cyclic(C) ==
  \A c \in C : LET r == Lookup(c[1], c[2]) IN
    <<r.value, r.environment>> \in C /\ <<r.value, r.environment>> # c

(* The code of a promise that the walk meets is walked once, so that         *)
(* promises that refer to each other do not make the walk endless            *)
(* (sexptypes.cpp:125).  The promise that the walk is about was not met yet: *)
(* its code is walked a second time if it refers back to itself, and no      *)
(* third time.                                                               *)
PromisesOnce ==
  /\ path # <<>> /\ Range(path) \subseteq Promises
  /\ \A i, j \in 2..Len(path) : path[i] = path[j] => i = j

(* A walk over symbols that are bound to each other, as after x <- quote(y)  *)
(* and y <- quote(x), never ends: only promises and symbols bound to         *)
(* themselves are noticed (sexptypes.cpp:125, 150).                          *)
Trapped == Walking /\ \E C \in SUBSET Pairs : Cyclic(C) /\ <<at, rho>> \in C

TrappedForEver == [][Trapped => Trapped']_vars

(* That is the only way for a walk not to end.                               *)
Terminates == (\A C \in SUBSET Pairs : Cyclic(C) => C = {}) ~> ~Walking

(* A type says Omega only if the bindings are in fact circular: from where   *)
(* the walk stopped, it could be continued for ever.                         *)
Positions == Objects \X (Environments \cup {Nil})
Successor(c) ==
  IF c[1] \in Promises THEN <<code[c[1]], env[c[1]]>>
  ELSE IF c[1] \in Bytecodes THEN <<instruction[c[1]], c[2]>>
  ELSE IF c[1] \in Symbols THEN <<Lookup(c[1], c[2]).value, Lookup(c[1], c[2]).environment>>
  ELSE <<Unbound, Nil>>

After[n \in Nat] == IF n = 0 THEN <<at, rho>> ELSE Successor(After[n - 1])

OmegaIsTrue == outcome = "omega" => \E n \in 1..Cardinality(Positions) : After[n] = After[0]
=============================================================================
