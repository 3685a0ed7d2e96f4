----------------------------- MODULE Strictness -----------------------------
(***************************************************************************)
(* StrictnessAnalysis on top of the stacks of TracerStack: which arguments *)
(* of a call are forced, in which order, and which are used after the call *)
(* has returned.                                                           *)
(*                                                                         *)
(*   arguments   PromiseMapper's view of each promise: the call and the    *)
(*               formal position it was last passed at, if it is an        *)
(*               argument of a call of this pass;                          *)
(*   call_map    StrictnessAnalysis::call_map_: the CallState of every     *)
(*               call ever entered, also of those that have returned;      *)
(*   argument_rows   the `arguments' table: for each call the contents its *)
(*               rows have, one row for each position and pass so far.     *)
(*                                                                         *)
(* Several promises may share a position (the elements of `...'), and a    *)
(* promise may be passed on to another call.  is_active() of a call is     *)
(* the same as having no row in the calls table: function_exit_ sets the   *)
(* one and writes the other.                                               *)
(***************************************************************************)
EXTENDS TracerStack

CONSTANTS Positions,   \* formal parameter positions of a closure
          MaxForces,   \* bound: forces begun in a behaviour
          MaxUses      \* bound: other uses of promises in a behaviour

ASSUME UsesAssumption == MaxForces \in Nat /\ MaxUses \in Nat

VARIABLES arguments, evaluated, collected, call_map, argument_rows, forces, uses

strictness == <<arguments, call_map, argument_rows>>
promises   == <<evaluated, collected>>
bounds     == <<forces, uses>>
allVars    == <<vars, strictness, promises, bounds>>

-----------------------------------------------------------------------------
(* ParameterUse, with its counters of type uint8_t, and CallState. *)

UInt8(n) == n % 256

UnusedParameter == [force |-> 0, lookup |-> 0, metaprogram |-> 0, escape |-> FALSE]

NewCallState ==
  [order |-> <<>>, intrinsic_order |-> <<>>, parameters |-> [k \in Positions |-> UnusedParameter]]

NoArgument == [argument |-> FALSE]
(* Mutant: the argument is given to the call entered before. *)
ArgumentOfPrevious(call, position) ==
  [argument |-> TRUE, call |-> call - 1, position |-> position]

Argument(call, position) == [argument |-> TRUE, call |-> call, position |-> position]

(* Mutant: make_inactive is never called. *)
AlwaysActive(call) == TRUE

IsActive(call) == call \notin calls

(* Mutant: a closure above the call does not end its being a leaf. *)
IsOnStack(call) == \E i \in DOMAIN call_stack : call_stack[i].id = call

(* get_call_state: the call is a leaf if it is on call_stack_ and no closure *)
(* is above it.  (The flag of a call that has left the stack is not read.)   *)
IsLeaf(call) ==
  \E i \in DOMAIN call_stack :
    /\ call_stack[i].id = call
    /\ \A j \in (i + 1)..Len(call_stack) : call_stack[j].fn # "closure"

Counted(parameter, counter) ==
  [parameter EXCEPT ![counter] = UInt8(@ + 1)]

(* CallState::lookup and CallState::metaprogram; CallState::force_entry for *)
(* the part that concerns ParameterUse.                                     *)
Used(parameter, counter, active) ==
  [Counted(parameter, counter) EXCEPT !.escape = @ \/ ~active]

UseArgument(p, counter) ==
  call_map' = IF ~arguments[p].argument THEN call_map ELSE
    [call_map EXCEPT ![arguments[p].call].parameters[arguments[p].position] =
       Used(@, counter, IsActive(arguments[p].call))]

(* Mutant: a position is listed at each force. *)
ForcedEachTime(callState, call, k) ==
  [order           |-> Append(callState.order, k),
   intrinsic_order |-> IF IsLeaf(call) THEN Append(callState.intrinsic_order, k)
                       ELSE callState.intrinsic_order,
   parameters      |-> [callState.parameters EXCEPT ![k] = Used(@, "force", IsActive(call))]]

(* CallState::force_entry: the first force of a position, while the call is *)
(* active, adds the position to the order, and to the intrinsic order if    *)
(* the call is a leaf.                                                      *)
Forced(callState, call, k) ==
  LET first == IsActive(call) /\ callState.parameters[k].force = 0
      add(s, cond) == IF first /\ cond THEN Append(s, k) ELSE s
  IN [order           |-> add(callState.order, TRUE),
      intrinsic_order |-> add(callState.intrinsic_order, IsLeaf(call)),
      parameters      |-> [callState.parameters EXCEPT ![k] = Used(@, "force", IsActive(call))]]

ForceArgument(p) ==
  call_map' = IF ~arguments[p].argument THEN call_map ELSE
    [call_map EXCEPT ![arguments[p].call] =
       Forced(@, arguments[p].call, arguments[p].position)]

-----------------------------------------------------------------------------
StrictnessInit ==
  /\ Init
  /\ arguments = [p \in Promises |-> NoArgument]
  /\ evaluated = {} /\ collected = {}
  /\ forces = 0 /\ uses = 0
  /\ call_map = <<>> /\ argument_rows = <<>>

(* AnalysisDriver::closure_entry: PromiseMapper associates the promises *)
(* with the call before the analysis creates its CallState.             *)
ClosureEntry(args) ==
  /\ CallEntry("closure")
  /\ arguments' = [p \in Promises |-> IF p \in DOMAIN args
                                      THEN Argument(call_id_counter', args[p]) ELSE arguments[p]]
  /\ call_map' = Append(call_map, NewCallState)
  /\ UNCHANGED <<argument_rows, promises, bounds>>

BuiltinEntry(fn) ==
  /\ CallEntry(fn)
  /\ call_map' = Append(call_map, NewCallState)
  /\ UNCHANGED <<arguments, argument_rows, promises, bounds>>

FunctionExits(fn) == CallExit(fn) /\ UNCHANGED <<strictness, promises, bounds>>

(* A promise is forced until it has a value; one whose evaluation was left *)
(* by a jump has none.                                                     *)
ForceEntry(p) ==
  /\ forces < MaxForces /\ forces' = forces + 1
  /\ p \notin evaluated \cup collected
  /\ PromiseForceEntry(p)
  /\ ForceArgument(p)
  /\ UNCHANGED <<arguments, argument_rows, promises, uses>>

ForceExit(p) ==
  /\ PromiseForceExit(p)
  /\ evaluated' = evaluated \cup {p}
  /\ UNCHANGED <<strictness, collected, bounds>>

PromiseValueLookup(p) ==
  /\ Running /\ uses < MaxUses /\ uses' = uses + 1
  /\ p \in evaluated \ collected
  /\ UseArgument(p, "lookup")
  /\ UNCHANGED <<vars, arguments, argument_rows, promises, forces>>

(* The lookups of a promise's expression and environment, and the *)
(* assignments to its expression, environment and value.          *)
PromiseMetaprogram(p) ==
  /\ Running /\ uses < MaxUses /\ uses' = uses + 1
  /\ p \notin collected
  /\ UseArgument(p, "metaprogram")
  /\ UNCHANGED <<vars, arguments, argument_rows, promises, forces>>

(* PromiseMapper forgets a promise that is collected; its id never returns. *)
PromiseCollected(p) ==
  /\ Running
  /\ p \notin collected /\ ~Live(PromiseEvent(p))
  /\ collected' = collected \cup {p}
  /\ arguments' = [arguments EXCEPT ![p] = NoArgument]
  /\ UNCHANGED <<vars, evaluated, call_map, argument_rows, bounds>>

Contextual ==
  /\ \/ \E c \in Contexts : ContextEntry(c) \/ ContextExit(c)
     \/ \E c \in Contexts \cup {TopLevel} : ContextJump(c)
  /\ UNCHANGED <<strictness, promises, bounds>>

PassBegins == DyntraceEntry /\ UNCHANGED <<strictness, promises, bounds>>

(* Mutant: PromiseMapper is not cleared at the end of a pass. *)
KeptArguments == arguments

(* AnalysisDriver::end clears PromiseMapper, not call_map_. *)
ClearedArguments == [p \in Promises |-> NoArgument]

(* StrictnessAnalysis::end, before that: serialize_arguments_ of every call *)
(* there has been, again of those of the passes before.                     *)
PassEnds ==
  /\ DyntraceExit
  /\ argument_rows' = [c \in DOMAIN call_map |->
       {call_map[c].parameters} \cup (IF c \in DOMAIN argument_rows THEN argument_rows[c] ELSE {})]
  /\ arguments' = ClearedArguments
  /\ UNCHANGED <<promises, call_map, bounds>>

Arguments == UNION {[S -> Positions] : S \in SUBSET (Promises \ collected)}

StrictnessNext ==
  \/ PassBegins \/ PassEnds \/ Contextual
  \/ \E args \in Arguments : ClosureEntry(args)
  \/ \E fn \in {"special", "builtin"} : BuiltinEntry(fn)
  \/ \E fn \in FunctionTypes : FunctionExits(fn)
  \/ \E p \in Promises :
       \/ ForceEntry(p) \/ ForceExit(p) \/ PromiseValueLookup(p)
       \/ PromiseMetaprogram(p) \/ PromiseCollected(p)

StrictnessSpec == StrictnessInit /\ [][StrictnessNext]_allVars
-----------------------------------------------------------------------------
(* Properties. *)

StrictnessTypeOK ==
  /\ TypeOK
  /\ \A p \in Promises : arguments[p] \in
       {NoArgument} \cup [argument : {TRUE}, call : 1..call_id_counter, position : Positions]
  /\ Len(call_map) = call_id_counter /\ Len(argument_rows) <= Len(call_map)
  /\ \A c \in DOMAIN call_map :
       /\ call_map[c].order \in Seq(Positions) /\ call_map[c].intrinsic_order \in Seq(Positions)
       /\ call_map[c].parameters \in
            [Positions -> [force : 0..255, lookup : 0..255, metaprogram : 0..255, escape : BOOLEAN]]

(* The interpreter is in the call now; no closure was entered since. *)
InCall(c) == \E i \in DOMAIN frames : frames[i].type = "CALL" /\ frames[i].id = c
InnermostClosure(c) ==
  \E i \in DOMAIN frames :
    /\ frames[i].type = "CALL" /\ frames[i].id = c
    /\ \A j \in (i + 1)..Len(frames) : frames[j].fn # "closure"

(* The force order of a call grows only by forces that happen while the      *)
(* interpreter is in that call, and its intrinsic order only by those that   *)
(* happen in the call's own body, with no other closure entered in between:  *)
(* calls left on call_stack_ by an unfinished pass, and calls that were left *)
(* by a jump, do not confuse get_call_state.                                 *)
OrdersGrowTruly ==
  \A c \in DOMAIN call_map :
    /\ call_map'[c].order # call_map[c].order => InCall(c)
    /\ call_map'[c].intrinsic_order # call_map[c].intrinsic_order => InnermostClosure(c)
    /\ call_map'[c].order # call_map[c].order /\ InnermostClosure(c) =>
         call_map'[c].intrinsic_order # call_map[c].intrinsic_order

(* Every step lets the orders grow so. *)
OrdersAreTrue == [][OrdersGrowTruly]_allVars

(* An argument is marked as escaped exactly when it is used while the *)
(* interpreter is no longer in the call it was passed to.             *)
EscapesTruly ==
  \A c \in DOMAIN call_map : \A k \in Positions :
    LET before == call_map[c].parameters[k]
        after  == call_map'[c].parameters[k]
    IN /\ after # before => after.escape = (before.escape \/ ~InCall(c))
       /\ before.escape => after.escape

(* Every step marks the arguments so. *)
EscapesAreTrue == [][EscapesTruly]_allVars

(* A position has at most one entry in the force order, however many        *)
(* elements of `...' are at it (CallState.h:77-79): the comment's claim.    *)
SingleOrderEntry ==
  \A c \in DOMAIN call_map : IsInjective(call_map[c].order)

(* s has only elements of t, and in the order they have in t. *)
InOrderOf(s, t) ==
  /\ Range(s) \subseteq Range(t)
  /\ \A i, j \in DOMAIN s : i < j =>
       \E m, n \in DOMAIN t : m < n /\ t[m] = s[i] /\ t[n] = s[j]

(* The force order lists the positions whose force count is not zero and    *)
(* that were first forced while the call was active, each of them once;     *)
(* intrinsic_order is a part of it in the same order.  (While no counter    *)
(* has wrapped.)                                                            *)
OrderListsForced ==
  forces < 256 =>
    /\ \A c \in DOMAIN call_map :
         /\ \A k \in Range(call_map[c].order) : call_map[c].parameters[k].force > 0
         /\ \A k \in Positions :
              call_map[c].parameters[k].force > 0 /\ ~call_map[c].parameters[k].escape
                => k \in Range(call_map[c].order)
         /\ InOrderOf(call_map[c].intrinsic_order, call_map[c].order)
    /\ SingleOrderEntry

(* The rows of a call in the arguments table, written at the end of its own  *)
(* pass and again at the end of each later one, are the same rows: nothing   *)
(* that happens in a later pass, to promises that live on or on a call_stack_*)
(* that an unfinished pass left behind, is counted for an earlier pass's     *)
(* call.  And at the end of a pass each call in the calls table has them.    *)
RowsRepeat ==
  /\ \A c \in DOMAIN argument_rows : argument_rows[c] = {call_map[c].parameters}
  /\ phase = "idle" => calls \subseteq DOMAIN argument_rows
=============================================================================
