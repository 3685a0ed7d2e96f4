# A verification project for promisedyntracer

promisedyntracer is an R package that observes an R program through the probes of
R-dyntrace, a patched interpreter, and writes tables and a trace about how functions
are called and promises (lazy arguments) are evaluated. Everything it knows it has
pieced together from a sequence of callbacks; the raw facts (which object is at which
address, which call the interpreter is in) are never available at once. The interesting
question is therefore not whether one handler is right, but whether the state kept by
some fifty handlers stays a true account of the interpreter through every sequence
of calls, jumps, collections and passes. The modules here state that as TLA+: the
interpreter is an environment with a state of its own, and the properties compare what
the tracer believes with what is true.

## 1. Inventory

The package is single threaded: probes run on the interpreter's only thread, so handlers
are atomic with respect to each other, but for two: `closure_entry` and `closure_exit` evaluate R code
in their midst, and a collection may come there (`FunctionIdentity` has it). What is
concurrent is the interpreter's own structure: calls, promises, contexts, jumps over
any of them, collections at any allocation, and the reuse of freed addresses.

| component | source | state | operations | what makes it correct |
|---|---|---|---|---|
| probes and tracer state | `probes.cpp`, `tracer.cpp`, `State.*` | `full_stack` (calls, promises, contexts), `call_id_counter` | entry and exit of calls, promises, contexts; `context_jump` + `adjust_stacks`; begin and end of a pass | `full_stack` is the interpreter's stack; every call is accounted for once |
| trace file | `TraceSerializer.*` | the output | a record per event | BEGIN and FINISH nest |
| promise identity | `helpers.cpp`, `recorder.cpp` | `promise_ids` by address, `fresh_promises`, `promise_origin`, two counters | creation, argument association, lookup, collection | an id means one promise (but for promises allocated unseen at a known address); an origin is a call that received it |
| function identity | `helpers.cpp`, `utilities.cpp`, `StrictnessAnalysis.cpp:292` | `function_definitions` by address, `function_ids`, bodies on file | call entry and exit, collection | a call's id is that of its function, and its body is on file |
| AnalysisDriver, AnalysisSwitch | `AnalysisDriver.*` | the switches | passes each event to the analyses, in an order some depend on | no analysis sees a promise that is not mapped |
| PromiseMapper | `PromiseMapper.*`, `PromiseState.*` | `promises_`: id to state | insert, associate, find, erase, clear | every live promise met is mapped, as what it is |
| PromiseTypeAnalysis | `PromiseTypeAnalysis.*` | three sets of waiting promises, counts | creation, call, force, collection | each promise is counted once, and as evaluated just when a force of it ended, whatever happens to it |
| StrictnessAnalysis | `StrictnessAnalysis.*`, `CallState.h`, `ParameterUse.h` | `call_stack_`, `call_map_`, tables | call, force, lookup, metaprogramming, jump, end | agrees with `full_stack`; orders and escapes say what happened |
| SideEffectAnalysis | `SideEffectAnalysis.*`, `State.cpp` | timestamps, counters, observers, ids of environments and variables | define, assign, remove, lookup | observers and counts are true; ids are unique |
| data tables | `DataTableStream.h` and the streams, `table.cpp` | buffers, position, rows, header | open, write, close, read | nothing lost or twice; a header never lies; closing ends |
| PromiseEvaluationAnalysis | `PromiseEvaluationAnalysis.*` | counts by distance and by context | force | a distance leads to the call whose environment the promise was made in, though it is found by comparing ids kept from long ago |
| type inference, lookup of bindings | `sexptypes.*`, `lookup.*` | `visited`, on the stack of C++ | `get_full_type` | a walk over circular bindings ends, and says Omega of no other |
| the rest | `DebugSerializer`, `Timer`, `ObjectCountSizeAnalysis`, `FunctionAnalysis`, `PromiseSlotMutationAnalysis`, `MetadataAnalysis`, names, hashes, R functions | | | logging, sums, dead code and conversions: section 8 |

How they interact. The interpreter calls a probe (`probes.cpp`). The probe asks the
recorder (`recorder.cpp`) for a record of the event, which reads and updates identities;
it changes `full_stack`; it passes the record to `AnalysisDriver`, which calls
`PromiseMapper` first and then each analysis; it writes the trace. `closure_entry` pushes
before it calls the analyses, builtins and forces after, exits pop before. All
tables go through `DataTableStream`. A `Context` owns everything, lives from
`create_dyntracer` to `destroy_dyntracer` and may see several passes (`dyntrace`), of
which only some state is reset in between: that is a source of trouble of its own.

What is hard here: two stacks that are popped by different code in different orders;
jumps over any mixture of frames, also to contexts that began before tracing; addresses
as keys of objects that are freed and reused; state that survives a pass next to
state that does not; counters of eight bits; a table whose header is written last.
`PROJECT.json` lists these hazards, line by line, with the properties on watch.

## 2. Modules

| module | models | instances |
|---|---|---|
| `TracerStack` | the core: the probes that move `full_stack`, StrictnessAnalysis's `call_stack_`, the rows of the calls table, the brackets of the trace | `MCTracerStack` |
| `CallLog` | abstract: what the trace and the calls table promise to their reader | refined by `TracerStack` |
| `TracerStackProofs` | the invariants of `TracerStack`, and that it implements `CallLog`, proved | |
| `Strictness` | extends `TracerStack`: arguments, orders, escapes | `MCStrictness` |
| `StrictnessProofs` | the properties of `Strictness`, proved; extends `TracerStackProofs` | |
| `PromiseTracking` | identity of promises, PromiseMapper, PromiseTypeAnalysis, the switches | `MCPromiseTracking` |
| `PromiseTrackingProofs` | the properties of `PromiseTracking`, proved | |
| `FunctionIdentity` | definitions, ids and bodies of functions | `MCFunctionIdentity` |
| `FunctionIdentityProofs` | the properties of `FunctionIdentity`, proved | |
| `PromiseEvaluation` | ids of environments as promises keep them, PromiseEvaluationAnalysis | `MCPromiseEvaluation` |
| `PromiseEvaluationProofs` | its properties, proved | |
| `TypeWalk` | the walk of `get_full_type` | `MCTypeWalk` |
| `TypeWalkProofs` | two of its properties, proved | |
| `SideEffects` | ids of environments and variables, SideEffectAnalysis | `MCSideEffects` |
| `SideEffectsProofs` | its properties, proved | |
| `DataTable` | the streams of a table, from cell to file, and its reader | `MCDataTable` |
| `DataTableProofs` | its safety properties, proved | |

Variables have the names of the code's members where they model one (`full_stack`,
`promise_ids`, `function_definitions`, `fresh_promises`, ...; `calls`, `open`, `rows` are
the outputs). Variables with other names are the truth the code does not have:
`frames` (TracerStack) is the interpreter's stack; `home` and `passed` (PromiseEvaluation) say
where the environment is that a promise was made in, and which promises were arguments; `heap` and `objects` say which object is
at an address and what is true of it; `owner` (PromiseTracking) remembers which promise each id was first given to; `created`, `written`, `observed`, `last`
(SideEffects) are what really happened. No action of the tracer reads them,
except where the code itself dereferences the object.

An action is one probe with everything it does: `CallExit` in `TracerStack` is
`closure_exit` with its pop, `function_exit_`, `serialize_call_` and the FINISH record.
Actions that begin with `Untraced` are the interpreter between two passes, when no probe
is called. Three modules have steps smaller than a probe. In `DataTable` a step is one round of one loop, so that
the process may crash in between and the operating system may take any part of a buffer. In `TypeWalk` it is
one call of `get_full_type_inner`, since the question is whether they end. In `FunctionIdentity`
`closure_entry` and `closure_exit` are cut where `get_expression` or the deparsing of a new
function evaluates R code (`recorder.cpp:137-143`): `EnterUnknown` has looked the closure up in vain,
`StoreDefinition` stores what was deparsed and numbers the call, `EnterKnown` does so at once, and only
`PushCall` pushes it and lets StrictnessAnalysis write the body; `LeaveCall` and `PopCall` are the
exit. In between any other closure may be collected, and its definition removed. `stage`, `callee` and `info` hold
what the handler has on its C++ stack meanwhile.

`PromiseEvaluation` and `TracerStack` both have `full_stack`. The former takes it to be the interpreter's own stack,
which is what `FullStackMirrors` of the latter says, and leaves R contexts out, as the walks
it models skip them.

Each module has a few operators marked "Mutant": variants of the operator that
follows, wrong the way a plausible mistake would be. Substituted for it they violate
a property, which is how we know that the property watches that code.

## 3. Runs

All bounds are constants named in the modules. Runs that must pass:

| run | asks | size of the instance |
|---|---|---|
| `tracer_stack` | do the two stacks, the trace and the calls table agree, do they implement `CallLog`, and is the caller in the call graph the parent the recorder names? | 2 promises, 2 contexts, 3 calls, 5 frames, jumps also to a context from before tracing, passes that end anywhere |
| `strictness` | do force orders and escapes say what happened, and what does the arguments table repeat? | 2 promises, 2 positions, 2 calls, 3 frames, 2 forces, 1 other use |
| `promise_evaluation` | does a force count the right context and the right distance, whatever happened to environments since? | 2 promises, 2 addresses, 3 numbered environments, stacks of 3, specials as the one kind of primitive, 2 passes |
| `promise_tracking` | do ids, origins, mapper and counts follow the heap, and what of it survives a second pass? | 2 addresses, 3 promises, 2 calls, 2 passes |
| `function_identity` | are definitions, ids and bodies those of the functions called, also if a collection comes while one is entered? | 2 addresses, 4 closures, 2 texts, 3 calls, 2 passes |
| `side_effects` | are ids unique, observers and counts true? | 2 addresses, 3 environments, 2 symbols, 1 promise, 2 actions on variables (a promise may be created between any two), 2 frames |
| `data_table` | is what is on file complete and truthful, and does closing end? | binary or text, compressed or not, truncating or not, over an older file of 5 rows or none (all chosen in `Init`); 4 rows of 3 columns, buffers of 3 and 4 cells, row counts modulo 3 |

A second pass makes a few statements weaker, and the properties say so themselves:
`PromisesConserved` and `AlwaysMapped` are about the first pass, `IdsNameOnePromise` says that the id of a promise is its own unless it is an
`heir`, allocated unseen at an address with an entry in `promise_ids`, and then is not, and `DefinitionsAreTrue` and
`CallsNameTheirFunction` leave out the addresses in `lost`, whose closure went between two
passes, unseen. Section 4 says what happens there.

Why the bounds are enough. Stack properties are about the order of pushes and pops: five
frames hold every pair of kinds of frames over and under a target context, with one more
above. Address reuse needs two objects at one address and a second address to confuse it
with. A jump over two calls, a call left by an unfinished pass under one of the next, a
promise passed on to a second call, a buffer that fills in the middle of a row and one that
fills exactly at its end all happen in these instances. In `promise_evaluation` three environments share two addresses, so
that one is freed and its address used again while a promise of it is mapped; three
events put a primitive or a promise between a call and the force; specials and builtins
are treated alike but for the column they count in, and one of them will do. In `side_effects` two symbols in
one environment and in two, with three environments at two addresses, give every pair of variables whose ids could be confused. Its cfg has
a VIEW: the counts, which are added to and never read, the record of the latest action and what is known of dead environments do
not tell states apart. No later step and no invariant depends on them, and TLC checks an action property on every step, also on one to a
state that it takes for an earlier one. In `data_table` `CountLimit` stands for 2^32: four rows
and five old ones are above it, so that counts wrap. Symmetry is declared over model
values that no property or action tells apart, and in no run with a liveness property. Where deadlock is not
checked the cfg says why: bounds on passes and uses, or a process that has ended
(`undefined`, `unmapped`, `closed`, `crashed`) and really stops. In the runs of
`SideEffects` the interpreter can always go on, and deadlock is checked.

`TypeWalk.cfg` is an instance to be run by hand, `tlc -config TypeWalk.cfg MCTypeWalk`: one promise, two
symbols, one compiled code, two environments, and every heap these can make (65,465 states, some seconds).
It checks `PromisesOnce`, `TrappedForEver`, `OmegaIsTrue` and `Terminates`. `TypeWalkProofs` has the first two in
general. With two promises and no compiled code it also passes (537,202 states, a minute).

## 4. What the code does otherwise

Five runs state what a comment, an assertion or a name in the code says, and TLC
finds the code doing something else. Each is a finding in `PROJECT.json`.

| run | property | what happens |
|---|---|---|
| `promise_id_zero` | `OriginIsArgument` | non-promise arguments carry `promise_id` 0 (`recorder.cpp:28`), the id of the first promise, which so gets a call as origin that never received it |
| `promise_type_only` | `AlwaysMapped` | `AnalysisDriver.cpp:210` calls the strictness analysis whatever the switches say; with only promise types on, the mapper's `find` fails |
| `promise_second_pass` | `NonLocalUnseen` | ids survive a pass, their states do not: a promise created in the first pass is foreign in the second |
| `strictness_wrap` | `SingleOrderEntry` | 256 forces of a position wrap its counter to "not forced" (`CallState.h:69`, `ParameterUse.h:47`) |
| `side_effects_scopes` | `CountedByScope` | the three scope constants are all 0 (`SideEffectAnalysis.cpp:3-5`) |

The passing runs state what is left: `OriginIsArgumentButZero` is the first without id 0, and
`NoActionLost` says that the counts are right in sum.

More disagreements were met while modelling and have no run of their own:

* the header has `sizeof(int)` for columns of doubles (`BinaryDataTableStream.h:76`; the comment
  two lines above says `sizeof(double)`). The reader happens not to use it, which is why
  `ReaderInStep` holds;
* with the side effect analysis on, the analysis numbers a variable before
  `environment_action` asks whether it is new (`probes.cpp:692-700`), so that none is
  described in the debug trace but one that is removed and was never met before;
* a definition kept from one pass to the next is taken for that of a new closure at the same
  address (`helpers.cpp:53-62`, which has a debugging check for it). `lost` in `FunctionIdentity`
  marks these addresses; `BodiesOnFile` says that even a stale id can be looked up;
* `infer_sexptype` notices promises it has met and symbols bound to themselves, and nothing
  else (`sexptypes.cpp:125`, `150`). After `x <- quote(y); y <- quote(x)` the type of a promise for `x` is
  asked for without end. `TrappedForEver` says that such a walk never ends, `Terminates` that there
  is no other; the code's `visited` has the symbols too, and is not asked for them;
* a promise on top of the stack is counted as the context CLOSURE (`PromiseEvaluationAnalysis.cpp:86`), so
  that the row PROMISE of `promise-evaluation-context.csv` is always 0. `EvaluationContext` has it as it is;
* the `call_map_` of StrictnessAnalysis outlives the pass, and so the arguments of a pass are written again
  at the end of each later one. `RowsRepeat` says exactly how often;
* `promise_ids` outlives the pass too, and what is collected between passes stays in it: a promise allocated there before
  the next pass has the id of a dead one (`helpers.cpp:21-25`). `IdsNameOnePromise` says that this
  is the only way for an id to come to another promise;
* a promise that is given its value by an assignment (`promise_value_assign`) is still waited for by
  PromiseTypeAnalysis, and is counted as never evaluated when it is collected. `PromisesConserved` says so;
* the header's row count has 32 bits (`BinaryDataTableStream.h:104`), so that a table of more rows states the
  remainder. `HeaderTruthful` says that it never states more rows than there are;
* what SideEffectAnalysis, PromiseEvaluationAnalysis and ObjectCountSizeAnalysis have counted also outlives the pass.

## 5. Fairness and liveness

Nothing schedules the tracer: it runs when the interpreter calls it, and the interpreter
may stop at any time. So only two specifications state fairness. `DataTable` has weak
fairness of `Step`, the loops of a write or close that has begun: they run without
returning to anyone, write(2) makes progress (EINTR and EAGAIN, on which
`FileStream::write` tries again, do not recur for ever), and zstd, once the input has
ended, empties its own buffer: the loop around `ZSTD_endStream` is one step, `EndFrame`, and that it ends is
assumed of zstd and not checked. Opening, writing another cell, closing and crashing are
not fair. Under this, `Closes` says that a close ends unless the process does.
`TypeWalk` has weak fairness of `Next`: it is one recursion in C++, inside one probe, with nothing
to wait for. Under it `Terminates` says that the walk ends if no symbols are bound in a circle.

## 6. Proofs

### The core

`TracerStackProofs` proves every property that the run `tracer_stack` checks, for all sets of promises and contexts, all bounds, and passes that
end anywhere:

| theorem | property |
|---|---|
| `TypeCorrect` | `TypeOK` |
| `StackMirrored` | `FullStackMirrors`: `full_stack = frames` |
| `StacksAgree` | `CallStackAgrees`: `call_stack_` ends with the calls of `full_stack`, in order |
| `NoFailure` | `NeverFails`: the exit at `StrictnessAnalysis.cpp:61` is unreachable |
| `TraceWellNested` | `TraceNests`: no FINISH but of the last open BEGIN, and what is open is what is on the stack |
| `AllCallsAccounted` | `CallsAccounted`: a call is active without a row or inactive with its row |
| `CallLogImplemented` | `ImplementsCallLog`: `TracerStack` refines `CallLog` |
| `GraphCallerIsParent` | `CallerIsParent`: the two accounts of a call's parent agree |

Assumptions: the bounds are naturals, and `TopLevel` is not one of the contexts that
begin during tracing.

The inductive invariant `IInv` is the conjunction of the first five properties and of
`ContextsDistinct`: no context is on the interpreter's stack twice. The last part is what
a jump needs: `adjust_stacks` stops at the topmost event of the target, the
interpreter at the target itself, and only if these are the same do the stacks still
agree. `TypeOK` and `FullStackMirrors` are needed by all actions; the agreement of
`call_stack` by the exits, which take the call id from one stack and the call from the other.

The argument is about positions. `Upto(s, T, m)` is the set of positions of `s` up to `m`
that hold an event of the types `T`; `Agrees(s, fs, T)` says that `s` ends with the events of
`fs` of these types, and the i-th of them is found by counting. The lemmas `AgreesPush`,
`AgreesPushOther`, `AgreesPop`, `AgreesPopOther` and `AgreesTruncate` say how
agreement survives a push, a pop and an unwinding; each action then is a use of one
of them for the calls and one for the brackets. Counting replaces a recursive filter,
about which the provers could prove nothing without induction over an operator.

For the account of calls and the refinement, `LInv` adds `CallsAccounted` and
`OpenIsExact` (as many brackets are open as `full_stack` has calls and promises) to
`IInv`. `StepKinds` says that as far as these variables go each action is a push, a pop of all
above some position, the end of a pass, or nothing; so each fact is proved for a push and
for a pop. A pop moves ids from `call_stack_` to the table on the word of `full_stack`, so it must be
shown that the events dropped from the one are just those popped from the other. That is
`DroppedEvents`: counting is strictly monotonic (`UptoStrict`), an injection between
finite sets of one size is onto (`UptoOnto`), and so every dropped element is the image of
a popped position. A jump that closes many brackets maps to one `Finish(k)` of
`CallLog`, a push to `Begin`, a probe about a context to a stutter.

### Strictness

`Strictness` extends the core, and its steps are steps of the core or leave it alone (`SpecOfTracer`), so that
every theorem above holds of it. `StrictnessProofs` adds all the run `strictness` checks: `StrictnessTypesCorrect`,
`OrderListsTrue` (`OrderListsForced`), `RowsAreRepeated` (`RowsRepeat`), `OrdersTrue` (`OrdersAreTrue`) and `EscapesTrue`
(`EscapesAreTrue`), for all sets of promises and positions and all bounds. `SInv` joins the types and `OrderListsForced` to the
`LInv` of the core, and to three more parts. `ArgumentsOfPass`: the call that a promise is an argument of was entered in this pass; it
is one the interpreter is in, or has its row in the calls table, and has none yet in the arguments table. The analysis takes a
use for an escape if that call was made inactive. That it was if and only if the interpreter has left it is
`CallsAccounted` with `FullStackMirrors`: this is where the core earns its keep. `RowsInStep`: each row already written is the last word
on its call, so that a later pass can write only the same again. `ForcesBound`: no counter is
above the number of forces, so that none wraps before the 256th; up to there a position is on the list just when its counter is not 0.
Whether a force is intrinsic is told by a walk down `call_stack_` to the call; `LeafIsInnermost` says that it meets no closure just when the
interpreter has entered none since.

### Promises

`PromiseTrackingProofs` proves all the run `promise_tracking` checks, for all sets of addresses, all choices of analyses and
any number of passes: `PromiseTypesCorrect`, `PromiseIdsTrue` (`IdsNameOnePromise`), `MapperTrue` (`MapperFollowsHeap`),
`OriginsTrue` (`OriginIsArgumentButZero`), `ArgumentsAssociated` (`EveryArgumentHasOrigin`), `PromisesAllCounted`
(`PromisesConserved`: counted as evaluated just when a force ended) and `PromisesMapped` (`AlwaysMapped`). The last has the hypothesis `"strictness" \in Switch`: without it the
property is false, which is what the run `promise_type_only` shows. It is a hypothesis of the theorem and not an
assumption on `Switch`, so the other six hold with any choice of analyses.

`PInv` holds the types, that no object is at two addresses, that ids in use are distinct (`IdsDistinct`), and that no table knows anything of an id not
given out yet (`OnlyGiven`): a new promise therefore meets a clean slate although its address had another. The other parts are
invariants relative to `PInv`, proved one after the other:

* `KnownMapped`: a promise under evaluation is known and mapped, in any pass; in the first every known one is. A force that began
  in a pass is over, or left by a jump, when the pass ends.
* `FreshUnpassed`: `fresh_promises` has, in the first pass, just the promises that were no argument. Without it `OriginsTrue` fails: the code decides by
  this set, which is never pruned, whether a call is the first to receive a promise. Id 0 is left out here and, hence, in three of the theorems.
* `NamesInv`: `IdsNameOnePromise` with `OwnersKnown`. The history variable `owner` has, for each id, the promise it was first given to. Ids in
  `promise_ids` are in `owner`; an id is only added for a promise when it is new, so its owner is that promise; an heir finds an entry already there,
  and no step gives it another.
* `UnevaluatedGone`: what was counted as never evaluated is collected.
* `InPlace`: every promise but 0 is in exactly one of the waiting sets and counts, and in which, by what is true of its object.

`PromiseEvaluationProofs` proves `EvaluationTypesCorrect`, `EnvironmentIdsTrue` (`EnvironmentIdsAreTrue`) and
`EvaluationsCountedTruly` (`EvaluationsAreTrue`). The force compares an id kept in a promise with ids of environments on the stack, and either
may be of an environment whose address is used again. `EInv` says why it comes out right: ids are distinct and below the counter, an environment on
the stack has one (`Numbered`), a promise yet to be forced keeps its environment alive (`Reached`), and the id in a promise is that of the environment it was met
with while that is there, and afterwards nobody's (`HomeTrue`). The walk over the stack is a choice of the highest
matching position, so the distance is settled by which positions match, and no induction over the stack is needed.

### Variables

`SideEffectsProofs` proves `SideEffectTypesCorrect`, `ObserversTrue` (`ObserversAreTrue`), `VariableIdsTrue` (`IdsNameOneVariable`)
and `ActionsCountedOnce` (`NoActionLost`). The analysis has a clock that only writes and creations it sees advance, and stamps ids; the truth is
kept per object, with a clock of its own. `Stamped` relates the two: a variable is stamped just when its last write was seen, and a
promise is older than the stamp by the one clock if and only if by the other. Only the order is the same, not the times, and
only the order is compared. `Numbered` keeps ids distinct over variables and environments when an address is used again. `IdsNameOneVariable` is
a property of steps: the two counters never go back, an id that is new to the tables lies between the old and the new value of its counter, so was never given before,
what is known of an environment is kept while it lives, and two variables with one id have one symbol and one environment.
`NoActionLost` says that an action adds one to one count of its kind per scope it was truly done in (none for an action of a
function on its own environment), and that a step that is no action on a variable changes no count.

### Functions

`FunctionIdentityProofs` proves `DefinitionsAreTrue`, `CallsNameTheirFunction` and `BodiesOnFile`
(theorems `DefinitionsTrue`, `CallsNamed`, `BodiesThere`), for all addresses, definitions and bounds and any
number of passes, from the assumption that the bounds are naturals. `FInv` joins them with the types and `IdsAreHashes`:
what `function_ids` and the files hold is filed under its hash. A call's id comes from the definition
kept for an address; that this is the function's own is `DefinitionsAreTrue`, that an id
found in `function_ids` is the one that would be computed is `IdsAreHashes`, and that a body written earlier will
do is both. No closure is collected while called, so an exit finds the definition of its entry.
`HandlerInStep` is what re-entrancy asks for: between the steps of `closure_entry`, what is on
the C++ stack is the newest call's number, the definition of its function and the hash of that, whatever a
collection does to the tables. It holds because the callee itself is not collected meanwhile.

### Tables

`DataTableProofs` proves `TableTypesCorrect`, `HeaderIsTruthful` (`HeaderTruthful`), `RowsAllOrNothing` (`AllOrNothing`), `ClosedComplete`
(`ClosedIsComplete`) and `ReaderStaysInStep` (`ReaderInStep`): for any columns, any number of rows, all sizes of the two buffers
above 0, every way in which write(2) and zstd split what they take, and an older file of any number of rows. The assumptions are those of
`DataTable` on its constants. The step property of `AllOrNothing` is named `RowsAppearAtOnce` so that the proof can cite it.

The inductive invariant `DInv` gives every cell its place. `Plain` is the infinite sequence of cells a table of this kind would have, `Stream`
the same as it leaves the compressor, with the end of the frame after the cells given so far; `InPlace(f, s, k)` says that `s` is what `f` has
after place `k`. Then

* `Flow`: each buffer is in place where the one after it ends, those before the compressor in `Plain` and those after it in what is to be
  written, and the last ends with the last cell given. So nothing is lost, doubled or overtaken (theorem `CellsInPlace`).
* `Filed`: up to the position the file is what is being written (`Target`), beyond it what was there (`Ground`). `WriteHeader` goes back to
  the beginning: the header becomes the target, and the stream over the older file the ground.
* `Staged`: which streams are empty at which stage. An end of the frame, a seek or a close that came too early would break it.
* `Kept`: the place of the header is past the buffer before anything else is written. It is what makes the first bytes of the file zeros
  for as long as there are rows but no header, and hence the rows all or nothing.
* `Measured`: a size recorded is the size of that column.

A step that moves cells is one cut and one concatenation, `InPlaceSplit` and `InPlaceConcat`, whatever the amount. The truth of the header is then read
off: a first cell from the stream is a zero, one from the ground is the older file's with all its rows still there, one from
the target is the header, and `Ground` has the rows behind it. A crash leaves the file alone.

### The walk over types

`TypeWalkProofs` has two theorems for any heap, and so for any number of promises, symbols
and environments. `EachPromiseOnce` (`PromisesOnce`): each promise that the walk meets
is entered once. The promise it begins with is not met but given, so `visited` does not have it (`sexptypes.cpp:189-192`): if its code leads back to
it, the code is walked a second time, and no third. `path` begins with it. The invariant `PathVisited` says that what is on `path` after that is in `visited`. So promises which refer to each other do not keep a walk from
ending. `SymbolCyclesAreEndless` (`TrappedForEver`), under the assumption `DistinctKinds`, that a symbol is
neither a promise nor compiled code nor a value where a walk ends: a walk that has come to a cycle of symbols stays in it
and never ends. At such a symbol `WalkBinding` is the only step, since it is bound and not to itself, and it leads to another symbol of
the cycle. The two say which half of the problem of circular bindings the code has solved.

## 7. What is only model-checked

Every safety property of the modules `TracerStack`, `Strictness`, `PromiseTracking`, `PromiseEvaluation`, `FunctionIdentity`,
`SideEffects` and `DataTable` that a passing run checks is a theorem. Liveness (`Closes`, `Terminates`)
is beyond the prover used. `OmegaIsTrue` compares the walk with a function defined by recursion (`After`), which would take
induction over it. The five runs of section 4 show that a statement fails, and an instance is all that takes.

## 8. Not modelled

* `ObjectCountSizeAnalysis`: two sums by type.
* `FunctionAnalysis`, `PromiseSlotMutationAnalysis`, `MetadataAnalysis`: not called at this commit.
* `DebugSerializer`, `Timer`, the record formats of `TraceSerializer`: output without effect on state.
* Types of values in the tables, the names of types, locations, the mode of an argument (`PromiseEvaluation` keeps that
  a promise is one, not whether it is of a default): data carried through.
* PromiseEvaluation leaves out slot accesses of promises that have their value: they number `R_NilValue`, or touch fields
  this analysis does not read.
* `create_table` and `parse_table` convert columns to and from data frames; `DataTable` has the file between them.
* The debug trace's rule to describe a variable at its first sight (`probes.cpp:692-700`), a matter of the
  trace's wording; what numbers the variable is in `SideEffects`.
* Hashing: `Hash` is injective in `FunctionIdentity`; the code says "unique (hopefully)".
* Re-entrancy: while a closure or a call is deparsed, R could do more than collect closures. The lookup probe
  is disabled for the call expression (`recorder.cpp:138`) and the one probe modelled there is the collection of
  closures. The other modules take these handlers as atomic, so that promises and environments are collected
  before them or after.
* `SideEffects` has the other analyses off: PromiseMapper's own calls of
  `to_environment_id` number environments earlier, which changes numbers and not their uniqueness.
* `FunctionIdentity` ends a pass between top-level calls only; passes that end in the midst of calls are
  in `TracerStack`.
* In `DataTable` a cell is indivisible: a write(2) that takes part of a number, the row count included, is left out. A count torn by
  a crash would not be all or nothing, but on a little-endian machine it would claim too little at most: what is
  written first are its low bytes, zeros over those of an older count, later the new ones over these zeros. The count's other reading, as a signed int (`table.cpp:155`), matters from 2^31 rows on and is not modelled.
* In `DataTable`, `error_at_line` and `exit` after a failed write or a changed column type are
  the action `Crash`.

## 9. Plan

Done: everything in section 2. What would come next, in order:

1. The ids of environments when several analyses ask for them: now `SideEffects` and `PromiseEvaluation` each number their own.
2. One module of the whole life of a dyntracer: several passes, what is reset and what is kept over
   all analyses, ERROR and NOERROR. Now each module has its own passes.
3. `base64` against a reference definition.
