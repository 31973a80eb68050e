# util-headers in TLA+

util-headers is a collection of small C++ headers. Most of them are a few pure
functions; the ones worth a specification keep state that several threads, or a
long sequence of calls, can put out of step. This directory holds TLA+ models of
those headers, TLC configurations that check them on small instances, and
TLAPS proofs of what matters most.

## Inventory

| Component (`util/`) | State | Operations | What is hard | What makes it correct |
|---|---|---|---|---|
| `RunLoopManager.h`, `…Boost.h`, `…Std.h`, `…VPR.h` | `shouldStop_`, `currentState_`, a mutex, a condition variable | `signalStart`, `signalAndWaitForStart`, `signalShutdown`, `signalAndWaitForShutdown`; `reportStarting/Running/Stopped`, `shouldContinue`; `LoopGuard` | `notify_all` after the unlock, spurious wake-ups, a flag read without the mutex, RUNNING can be over before it is seen, restarts, a loop left by an exception | no lost wake-up; a wait returns only where the loop is as it says; `currentState_` follows the loop on every path; starts and shutdowns complete |
| `LockFreeBuffer.h` | `_val`, `_sent`, `_received` | `send`, `receive` | a copy that is not atomic, guarded by two ints; the build may reorder | producer and consumer never meet in `_val`; an atomic one-place buffer; no call waits |
| `BlockingInvokeFunctor.h`, `…VPR.h` | a heap-allocated sync object shared by a functor and its copies | construct, copy, `blockUntilCompletion`, call, destroy | the caller deletes what the receiver uses; copies die in any order; functions throw; addresses are used again | no dangling use, one delete, the caller continues when its function has run |
| `ReceiveBuffer.h`, `VectorSimulator.h` | a window `[_begin, _pastEnd)` over a fixed array | construct, copy, assign, `push_back`, `bufferFromExternalFunctorRef`, `pop_*`, `erase`, `clear` | the window slides at a boundary; old values around it | the window stays in the array; the buffer is the sequence of the values added and not removed |
| `UniqueDestructionActionWrapper.h`, `Finally.h` | a functor and whether it is active | construct, move, cancel, `reset`, destroy | a moved-from functor can still be run, an action that throws | the cleanup stays due until it is completed, once, or the client cancels it |
| `w32/UniqueWinObj.h` | a handle | move, `release`, `reset`, `Attach` | two notions of an invalid handle, self-assignment, delayed assignment | every handle is closed once |
| `WithHistory.h` | two values, two pointers | copy, assign, `swap`, `advanceByCopy` | which slot is current after a copy | current and previous survive copies |
| `CountedUniqueValues.h` | a vector and a map | `store`, `get` | an insertion that fails halfway | a number handed out stays the number of its value |
| `RangedInt.h` | an int | construct, assign, conversion between types | checks left out between ranges and policies; assignment before the check | a checked value is in its range |
| `Set2.h` | an ordered pair | construct, `set`, compare | arguments that are the pair's own members; equivalent and unordered values | both values kept, in order; a key whichever way round |
| `Stride.h`, `SizeGenerator.h` | counters | `++`; `loop` | the two forms of `++`; counters past the maximum, the width of the word | one result in n; the loop covers the grid and ends |
| `SearchPath.h` | a list of templates | split, edit, print, classify | empty elements, placeholders | printing and parsing are inverse |
| `CubeComponents.h` | a vertex, a face, a face vertex | conversions, neighbours | bits put in the wrong place | a face is part of the cube |
| `EigenTie.h` | references to variables | tie, assign | aliasing; a variable tied twice | a simultaneous assignment |
| `ValueToTemplate.h`, `…Policy.h`, `FusionMapToTemplate.h` | the arguments converted so far | dispatch on run-time values | the ends of a range | the operation called with those values, or an error |
| `MPLApplyAt.h`, `MPLFindIndex.h`, `TypeId.h` | none; a pointer to a `type_info` | index to type and back; compare | an index at the width of its type; several `type_info`s for one type | the type at the index; usable as a key |
| `FixedLengthStringFunctions.h` | a char array | `strcpy_safe` | truncation, old contents | a terminated prefix of the source |
| `osgFindNamedNode.h` | a recursion's stack | search | nodes shared by groups | the first match in depth-first order |

The components do not call each other, with two exceptions: `LoopGuard` drives
the loop interface of a `RunLoopManager`, and `ReceiveBuffer` inherits from
`vector_simulator`. The interactions worth modelling are between the threads,
or the objects, that share one of them.

### Not modelled

- The move assignment of `UniqueDestructionActionWrapper` compares `this` with
  `*other` and compiles in no program; nor do `at()` (in a build with exceptions),
  `data()` and the `const` `operator[]` of `ReceiveBuffer`.
- `changeFileExtension` is one `rfind`, one `erase` and two appends. It cuts at
  the last dot even if that is in the name of a directory; no doc or test says
  whether it should.
- Floating-point, random numbers and serialisation (`Saturate`, `RandomFloat`,
  `gmtlToOsgMatrix`, `EigenMatrixSerialize`), and calls of the operating system
  (`GetLocalComputerName`, `launchByAssociation`, `w32/LastErrorToString`,
  `w32/Win32Utilities`): no state to relate to anything.
- `SplitMap`, `ValToHex`, `max_extended`, `min_extended`: single expressions.
- Configuration headers and their generators, build scripts, vendored code.

## Modules

| Module | What it is |
|---|---|
| `RunLoopContract` | what the starting, the shutdown and the loop interface promise, without threads |
| `RunLoopManager` | the monitor: `RunLoopManagerBase`, its three implementations, `LoopGuard`; refines `RunLoopContract` |
| `MCRunLoopManager` | symmetry for TLC |
| `RunLoopLifecycle` | `RunLoopManager` composed with a client that starts, stops and restarts the loop; liveness |
| `RunLoopManagerProofs` | proofs about `RunLoopManager` |
| `RunLoopLifecycleProofs` | proofs about `RunLoopLifecycle`, on those about the monitor |
| `OnePlaceBuffer` | what `LockFreeBuffer` promises |
| `LockFreeBuffer` | `send` and `receive`, access by access; refines `OnePlaceBuffer` in an ordered build |
| `LockFreeBufferProofs` | proofs about `LockFreeBuffer` |
| `BlockingInvokeFunctor` | callers, receivers, and the sync objects they share |
| `BlockingInvokeFunctorProofs` | proofs about `BlockingInvokeFunctor` |
| `BoundedSequence` | what `ReceiveBuffer` promises |
| `ReceiveBuffer`, `MCReceiveBuffer` | the window and its operations; refines `BoundedSequence` |
| `ReceiveBufferProofs` | proofs about `ReceiveBuffer` |
| `HandleOwnership` | what `UniqueWinObj` promises |
| `UniqueWinObj`, `MCUniqueWinObj` | objects that own handles and the wrappers that `Attach` returns; refines `HandleOwnership` |
| `UniqueWinObjProofs` | proofs about `UniqueWinObj` |
| `WithHistory` | two values, two pointers, copies and assignments |
| `SearchPath` | splitting, editing and printing search paths |
| `RangedInt`, `MCRangedInt` | objects of several ranges and policies that take values from each other |
| `CountedUniqueValues` | stores that may fail halfway |
| `CleanupDuty` | what a scope guard promises of a cleanup |
| `ScopeGuard` | `UniqueDestructionActionWrapper` and `FinalTask`; refines `CleanupDuty` |
| `Set2` | pairs set from references, and their order |
| `EigenTie` | variables tied together and assigned as a vector |
| `CubeComponents` | a walk over vertices, faces and face vertices |
| `Dispatch` | run-time values turned into template arguments |
| `TypeSequence` | types by index, and `TypeId`s as keys |
| `Stride`, `SizeGenerator` | the two counters |
| `FixedStrings` | `strcpy_safe` |
| `SceneSearch` | `findNamedNode`, call by call |
| `SequentialHeaders`, `MCSequentialHeaders` | a program that uses one of the last thirteen |
| `SequentialObjectsProofs` | proofs about those that keep values or duties: `RangedInt`, `CountedUniqueValues`, `Set2`, `ScopeGuard`, `SearchPath`, `CubeComponents` |
| `SequentialHeadersProofs` | proofs about the other seven, and about the composition |

### RunLoopManager

One step is one access to the shared state. A call of a controller goes through
`Call`, `Acquire` (the `Lock`), `SetShouldStop` (`setShouldStop_`) and, for the
waiting calls, `CheckState` (one test of the `while`), where it returns or joins
the wait set and releases the mutex in the same step; `NotifyAll` or
`SpuriousWake` takes it out, and `Acquire` takes the mutex again.
`signalAndWaitForStart` releases the mutex between its request and its first
test, as the code does; `signalAndWaitForShutdown` does not. The loop thread
goes through `EnterLoop` (`LoopGuard`'s constructor), and for each report
through `LoopAcquire`, `SetState` and `NotifyAll`, the last one outside the
mutex. `NotifyAll` returns either to a constructor that reports RUNNING at once
or, with `DELAY_REPORTING_START`, to a set-up that reports it later
(`FinishSetup`). `ShouldContinue` reads `shouldStop` without the mutex;
`LeaveLoop` is an exception or an early return, after which only `LoopGuard`'s
destructor runs. The three implementations differ in the names of the mutex and
the condition variable only (VPR's `CondVar` is both), so one module stands for
all; the map points `CtlStep`, `LoopStep` and `Next` at the other two.

`shouldStop_` and `currentState_` are `volatile` and, but for one read, used
under the mutex. The unlocked read of `shouldStop_` is modelled as a read of its
current value: one that is delayed is an interleaving the model has.

### RunLoopLifecycle

`Owner` arms the manager (`signalStart`, when `PreSignal`), spawns the loop
thread, waits for the start, and later waits for the shutdown and joins the
thread; the other controllers may ask for shutdown in between, with either
call. The repository's own tests only construct a manager; this client is the
use that the comments of the interfaces describe. The monitor's actions are the
ones of `RunLoopManager`, conjoined with UNCHANGED client variables. The client assumes that a set-up or body does
not give up before the start has been confirmed: if it does, RUNNING is never
reported and `signalAndWaitForStart` waits for ever by design.

### LockFreeBuffer

After its test, each call has three accesses to make: the copy of the value
begins, it ends, the flag is written. `Ordered` builds make the flag's the last.
Otherwise the accesses are made in any order that the thread itself cannot tell
apart; that is what a compiler or processor may do to plain ints, and it is the
only freedom the model takes. `_val` holds `Torn` during a copy, and a copy
from `_val` during which it changes yields `Torn`. Flags are integers, and
`BitNot` is the `~` of two's complement. `_val` is `Torn` at first: the
constructor does not set it.

### BlockingInvokeFunctor

`Construct` allocates at any free address of `Syncs`, so addresses are used
again. `SendCopy` and `Receive` stand for the client's transport, which is not
in the repository: a copy is in flight once, and copies overtake each other.
Semaphore and flag come to the same, since a sync object sees one `unblock` and
one `block`. `RunFunction` returns or throws; a throw skips `Unblock`. Any copy
that is destroyed goes through the destructor (`Deletes`, `Free`), in the build
with `NDEBUG`. A caller that has sent its functor goes on to block, as the
comment of `blockUntilCompletion` asks. The `void` specialisation is the same
code. The value a function returns is left out.

### ReceiveBuffer

A buffer is its window and its array; iterators are indices from `begin()`.
`ensure_space`, `Moved` (`idealContentsCopy`) and `Filled` are the parts the
operations are built from, and every operation is one action, with the values
it adds chosen by `\E`; `WriteElement` is a write through a reference or an
iterator the buffer has handed out. `bufferFromExternalFunctorRef` lets its functor scribble
over all the room it was given and return less. `given` and `ret` record what
the last operation was given to add and what it returned, so that
`BoundedSequence` can say what belongs to what. The preconditions the code
asserts are the guards. `data()` and the `const` `operator[]` call a non-`const`
`adjusted_index`, and `at()` a private `rangecheck`, so they do not compile when
used, and are not modelled.

### UniqueWinObj

An object is the value of its `v_`. `Pipes` are of type `UniqueHandleForPipes`,
the others of type `UniqueProcessHandle`; a move between the two converts an
invalid value (`Converted`), and since both move members of the header's own
type are disabled, the converting ones serve every move. `Closed` is what
`reset` hands to the deleter. A wrapper is its `obj_`, `v_` and `active_`; the
value stored through it (`Store`, the operating system's part) reaches the
object in `DestroyWrapper`. The client (`mine`) gives an object only handles it
owns, the object's own `get()` or a failure of the type's own calls: a
`UniqueProcessHandle` given `INVALID_HANDLE_VALUE` would close that, which is
the reason the header has more than one policy. A wrapper is given to one call
that succeeds, and goes before its object, as a reference must.

### WithHistory

A pointer is the name of the member it points to: no operation makes one point
into another object. The assignment operator ends without a return statement
(`src/util/WithHistory.h:103-111`); `Assign` allows the two outcomes an
optimising build produces, the assignment and nothing at all.

### SearchPath

Strings are sequences over `Chars`; `Tokens`, a scan character by character,
stands for `boost::tokenizer`, which drops empty tokens. The state is one list, split from any path of at most
`MaxInput` characters in either style and then edited. A call that throws
changes nothing, so `setSuffix` on a fixed path is a guard, and
`listOfDirectoriesToString` returns `Throws`. `Separators` is `{"/"}`, or has
the backslash as well on Windows. The delimiter and the placeholder are the
default arguments.

### The sequential headers

The objects of these headers belong to one thread, so a model of one is the
sequence of calls a program makes of it. Each module has its own variables,
initial predicate and next-state relation, and can be checked or proved about
by itself. `SequentialHeaders` puts the thirteen together, one run for all: the
variable `header` is chosen once, only that module's variables move, and the
state space is the sum, not the product, of theirs.

- `RangedInt`. `TypeOf` gives each object its range, checking policy and error
  policy. A constructor that throws makes no object, an assignment that throws
  has already assigned, and a failed `assert` ends the program, so no step
  stands for it. The history variable `spoiled` names the objects whose value
  came from a failed assignment or through `AssertOutOfRange` in a release build,
  and what was copied from them: `CheckedInRange` is about all others,
  `CopyKnownOk` about what the comment says of a copy.
- `CountedUniqueValues`. `StoreFails` is the map's insertion throwing after
  `push_back` has succeeded. A value can then be in the storage twice;
  `NumbersStable` says that no number that was *returned* is affected.
- `ScopeGuard`. `functor` stays in an object that was moved from, as a lambda
  does, so running it twice is possible in the model and `active` has to prevent
  it. `cancelled` and `failed` record the client's cancels and the cleanups that
  have thrown in `reset`: `CleanupDuty` lets a due cleanup off for a cancel only
  (`Waive`) and keeps one that threw due (`Fail`), so a move or a destructor that
  loses one takes no step it allows. Out of a destructor a throw ends the program.
- `Set2`. An argument is a value or a member of a pair (`References`). `Rank` and
  `Unordered` make `operator<` a partial order with equivalent values and with
  values that compare with nothing. `InterchangeableKeys` excludes the latter: a
  NaN is no key, which the header's own todo notes.
- `EigenTie`. A tie is a sequence of variables; `Written` is the loop of `_set`,
  in which an expression may read variables already overwritten. `AssignTie`
  converts first. Both builds, with the check for a variable tied twice and
  without, are initial states.
- `CubeComponents`. Bitsets are functions on bit places; a number out of range
  throws and makes no step.
- `Dispatch`. One step converts one element. A tuple has at least one, as
  `ValueToTemplate` compiles for no other; a map may be empty.
  `call_type_from_int_impl` is the recursion whose last case takes every value
  not above it. The policy header has a `RangedInt` of its own, with the name of
  the other header's class template but other parameters: a program cannot
  include both.
- `TypeSequence`. `apply_at` narrows its argument to `IndexWidth` bits, and
  what happens beyond that width is left alone by `AppliesAtIndex`. A `type_info`
  is a type and the library its object is in.
- `Stride`. `operator++()` returns a copy from before the step and
  `operator++(int)` the object after it; `FiresEveryNth` says what each gives.
- `SizeGenerator`. `loop()` goes past the maximum in both directions before it
  turns back, so `visited` has points outside the grid; the property is that none
  inside is missing. `LoopEnds` assumes that maximum and step together do not
  wrap, without which the loop never ends.
- `FixedStrings`. `strcpy_safe` is either of the two behaviours its C libraries
  give it, over an array a longer string may have filled.
- `SceneSearch`. `frames` is the call stack; the scene is any acyclic graph of
  groups built beforehand, and `Preorder` the reference definition.

## Runs

| Run | Instance | Shows |
|---|---|---|
| `runloop_manager` | 3 controllers, symmetric; 12227 states | `TypeOK`; `StateTracksLoop`; `NoLostWakeup`; `HandshakeSound`; `ImplementsContract` |
| `runloop_lifecycle` | 3 controllers, `PreSignal`; 2095 states | `StartCompletes`, `ShutdownCompletes`, `ShutdownFinal` |
| `runloop_missed_start` | the same without `PreSignal` | `StartCompletes` violated |
| `lockfree_ordered` | 3 items, `Ordered`; 1333 states | `TypeOK`; `Exclusive`; `ImplementsPlace`; `CallsReturn` |
| `lockfree_default_build` | 3 items, not `Ordered` | `HandsOverItems` violated |
| `blocking_invoke` | 3 callers, 2 receivers, 2 addresses; 37305 states | `TypeOK`; `NoDanglingSync`; `OneOwner`; `ExecutedBeforeContinuing`; `ReleasedWhenDone` |
| `blocking_invoke_throw` | 2 callers | `CallCompletes` violated |
| `receive_buffer` | 2 buffers of capacity 3, 2 values; 29164 states | `TypeOK`; `ImplementsSequence` |
| `unique_win_obj` | 3 objects (2 pipes), 2 wrappers, 3 handles; 12855 states | `TypeOK`; `OwnedOnce`; `DeletesOpen`; `ImplementsOwnership` |
| `with_history_copy` | 2 objects, 2 values | `CopyKeepsHistory` violated |
| `sequential_headers` | thirteen headers, bounds below; 268454 states | `TemplatesReadBack`; `DirectoriesReadBack`; `CheckedInRange`; `NumbersStable`; `ImplementsDuty`; `KeepsBothInOrder`; `InterchangeableKeys`; `SimultaneousAssignment`; `FaceIsPartOfCube`; `CalledWithInput`; `AppliesAtIndex`; `HandlesAreKeys`; `FiresEveryNth`; `GridCovered`; `LoopEnds`; `HoldsCopy`; `FindsFirst` |
| `ranged_int_copy` | 5 objects of 4 types, 3 integers | `CopyKnownOk` violated |

**Bounds.** Only `sequential_headers` bounds its inputs; every other state space
is finite by itself. Three
controllers make two that wait (for the same or different states) while a third
signals. Three items tell an old, a current and a refused item apart, so that a
mix-up would show. Three callers over two addresses and two receivers make a
caller wait for memory, addresses come round, and two functions run at once.
Capacity 3 gives a window room in front, room behind and a value to slide, and
a range of two that fits only after a slide; two values are enough to see a
wrong one, and two buffers to see a copy disturb its source. Three objects make
two of one type and one of the other, so that moves go within and between types
while the third owns a handle, and two wrappers let one be moved while its
target has another. Four characters are an element with a prefix, a placeholder
and a suffix, with a delimiter on either side, or two elements with an empty
one between them; one new character can be a placeholder, a delimiter or a
separator in the wrong place.

In `sequential_headers`: `MaxInput` (4), `MaxEdit` (1) and `MaxTemplates` (2) are
the search paths just described. `MaxStored` (5) and `MaxAtFailure` (4) let
every one of three values fail and be stored again. The five `RangedInt`s are
two of one type and one each of a wider, an unchecked and an asserting type;
the integers are below, in and above their ranges. Two wrappers, two final
tasks and two cleanups have a move in each class and a cleanup elsewhere. Five
elements are two equivalent ones, two others and a NaN. `MaxDim` is 2, with three
variables: enough for two ties in opposite orders and one variable outside.
The ids 0 to 8 are all vertices, faces and one number too many. The signatures
have a default range, a negative one and ranges that do not start at 0, with
arguments on, next to and beyond the ends. The sequence has three places for an
index of two bits (so the size just fits), one type at two of them; `Indices` (-1
to 5) go past the width on both sides; there are two libraries. `StrideWidth` and `WordWidth` are 3 bits, every stride, minimum,
maximum and step among them; `MaxUses` (15) is more than two turns of the largest
stride. The array has 3 characters and the strings up to 4 (`MaxSourceLength`).
Scenes have 4 nodes with up to `MaxChildren` (2) children, which makes shared
nodes, the same child twice and three levels.

**Deadlock** is checked except in the two `blocking_invoke` runs, where the
system may stop: a function that throws leaves its caller blocked, and all of
them may come to that. Elsewhere somebody can always call.

**Fairness.** `RunLoopLifecycle`: a thread that can take its next step takes it
(weak), and one that keeps asking for the mutex gets it (strong on
`LifeAcquire` and `LifeLoopAcquire`: mutexes are not fair, but a holder that
always wins again is not a schedule a real one produces for ever). Nothing is
assumed of the client's calls, spurious wake-ups, or a body that gives up.
`LockFreeBuffer`: none; `CallsReturn` assumes of each call that its own thread
goes on with it (`ProducerRuns`, `ConsumerRuns`) and nothing of the other thread,
which may have stopped in the middle of its own call. `BlockingInvokeFunctor`:
callers inside `blockUntilCompletion` and receivers with a functor keep running,
and no functor sent is passed over for ever. `ReleasedWhenDone` needs no more:
it starts from a function that has run to its end.
`SequentialHeaders`: a program in a `SizeGenerator` loop goes on calling
`loop()`; nothing is assumed of the other headers.

**Five disagreements** between comments or tests and code are runs of their own,
listed as findings: `signalAndWaitForStart` on a restart can miss the confirmation it
waits for (call `signalStart` before spawning the thread);
`LockFreeBuffer` needs its build option to be a buffer for two threads; a
function that throws leaves its `BlockingInvokeFunctor`'s caller blocked; a
copy of a `WithHistory` that has been swapped exchanges its two values; and a
`RangedInt` keeps the value of an assignment that threw, which a copy passes on.

## Proofs

The eight proof modules are for every value of the constants, under the named
assumptions of the modules (such as `ThreadAssumption`: the loop thread is no
controller, and `ItemAssumption`: the markers are not items), which TLC evaluates
on its instances. Every safety invariant, action property and refinement that a
run expects to hold is a theorem.

`RunLoopManagerProofs`. `IInv` is `TypeOK`, `MutexInv` (who holds the mutex is
where the mutex is held), `CallInv` (a call's position and its name agree),
`StateTracksLoop` and `NoLostWakeup`. The last is not inductive alone: that a
controller which finds the wrong state can go to sleep before the notification
is excluded because the test and the sleep hold the mutex (`MutexInv`) that
`SetState` needs, and that a sleeper waits for what `Awaited` says needs
`CallInv`. `InitIInv` and `NextIInv` prove it inductive, one step per action,
and `TypeCorrect`, `StateIsTracked` and `NoWakeupIsLost` follow.
`HandshakeIsSound` rests on two lemmas: `CheckState` is the only action that
returns from a waiting call, and there `StateTracksLoop` and the mutex say
where the loop is. `MonitorImplementsContract` maps each action to a step of
`RunLoopContract` or a stutter (`CtlContract`, `LoopContract`).

`RunLoopLifecycleProofs`. Every step of the client's system is a step of the
monitor or a stutter (`LifecycleRefinesMonitor`), so `IInv` holds there as well.
`ShutdownFinal` needs more, since it is about what Owner may conclude from
calls it made earlier. `LifeInv` is `ClientCalls` (Owner makes the call its
phase allows, the others only ask for shutdown, between a confirmed start and
the join), `LoopSpawned` (no loop runs before it is spawned, and once its start is
confirmed it reports STARTING no more) and `StopHolds` (Owner's request to stop
is in force from the moment it is made, and when its call has returned the loop
is past its last report). `StopHolds` is inductive because nobody resets
`shouldStop_` in that phase, which is `ClientCalls`, and because a loop that is
recorded as stopped cannot report anything else, which is `LoopSpawned` with
`StateTracksLoop`. It holds with and without the early `signalStart`.

`LockFreeBufferProofs`. For `Ordered` builds, `Inv` says that a send past its
test owns an empty buffer, a receive past its test a full one, and that each
copy is complete when only the flag is left. It is inductive (`InitInv`,
`NextInv`); `Exclusive` follows at once, since empty and full exclude each
other. `PutStep` and `TakeStep` show that the two flag writes are the `Put` and
the `Take` of `OnePlaceBuffer`, which gives `OrderedImplementsPlace`.

`TypesAreKept` is for every build, ordered or not: it needs only that a send under
way has an item.

`BlockingInvokeFunctorProofs`. `InvokeInv` adds three parts to `TypeOK`. `Held`:
every functor between construction and delete holds an allocated sync object of
its own, and every allocated one is held. `Copies`: a copy in flight, or with a
receiver that has still to unblock, belongs to a caller that is blocked on the
very object the copy points to, and no caller has two such copies. `Completed`:
nothing is unblocked before its function has run. Without `Copies` an unblock
could hit an address that has been used again, so neither `NoDanglingSync` nor
`ExecutedBeforeContinuing` is inductive. `CallerInv` and `ReceiverInv` have one
step per action; the three safety theorems follow from the parts.

`UniqueWinObjProofs`. `WinObjInv` is `TypeOK`, `Owned` (an open handle has
exactly one agent, object, wrapper or client, that will close it or pass it on;
a closed one has none) and `InTerms` (no object holds what only the other type
calls invalid, so that `valid` tells handles from failures). The argument is
not per action but per effect: `StepTransfers` shows that each action leaves the
owners alone, opens a handle for someone, passes it on, lets an object take it,
or closes it, `TransferKeepsOwned` that each of these keeps one owner, and
`TransferIsAllowed` that each is a step of `HandleOwnership` or a stutter, which
gives the refinement. `HandleOwnership` shares `open` with the detailed module, so
that no step of it takes an open handle from its owner and gives it to nobody: a
leak breaks the refinement as well as `OwnedOnce`.

`ReceiveBufferProofs`. A buffer is a `Window`; `Held` is the sequence it shows.
For each part an operation is built from there is a lemma that says what it
keeps and what it does to `Held`: `EnsureSpaceProperties` (a slide changes no
value held), `FilledProperties`, `FrontProperties`, `BackProperties`,
`ErasedProperties`, `WriteProperties`, `ClearProperties`. `ErasedMiddle` is the hard one: the values
behind a range move over it. The operations are then one lemma each
(`PushBackStep` ... `AssignStep`), with the type and the step of
`BoundedSequence` together, and both theorems follow.

`SequentialObjectsProofs`.

- `ScopeGuard`. `GuardInv` says that active guards exist, hold cleanups that were
  handed out, and different ones. `DutyTaken`, `DutyMoved` and `DutyOver` say
  what constructing, moving and deactivating a guard do to the duties of
  `CleanupDuty`; with what each action does to the history variables that gives
  the refinement.
- `RangedInt`. `CheckedInRange` is inductive with the types of the variables; the
  argument is in `CrossCheckSuffices`: where the check is left out, the source
  is checked, unspoiled and has the narrower range.
- `CountedUniqueValues`. `StoreInv` says that the dictionary numbers only what is
  stored there and that what was returned is what it says: an append after a
  failure moves nothing.
- `Set2`. `OnePair` reduces every operation to one object getting two values in
  order; `NeitherLess` is the case analysis on ranks behind
  `InterchangeableKeys`.
- `SearchPath`. `PathInv` says that every element of a split list prints as a
  word, a string with no delimiter in it that is not empty. `TokenAdded` says
  what the scan does with a word at the end of what it has read, and `JoinedReads`,
  by induction on the words, that what is joined of words splits into those
  words; that an element is what its printed form reads as is `TemplatePrints`
  and `ListReadsBack`.
- `CubeComponents`. `SumOfTerms` turns the fold of `to_ulong` into a sum of three
  bits, so that identifiers and bitsets determine each other. A face is one
  fixed bit and its corners the two free ones (`CornersAre`), and its centre
  is the mean of the four (`CenterIsMiddle`).

`SequentialHeadersProofs`.

- `TypeSequence`. `HandlesInv`: no two handles kept are equal. `AppliedIs` says
  what the recursion over the sequence calls, by induction from its end.
- `FixedStrings`. All of the C library's functions leave the same prefix and
  terminator (`StringInv`), whatever was behind it.
- `Stride`. `StrideInv` counts the rounds that are over: `Rounds(q)` relates uses
  and fires to the step through `q`, from which the division follows.
- `SizeGenerator`. The counters go through a `Chain`, the minimum and as
  many steps as fit a word, which may go past the maximum. `GeneratorInv` says that rows before the
  current one are done and columns before the current one visited, or that a
  counter has wrapped and then everything is covered already.
- `EigenTie`. The loop of `_set` is a recursive function of the places written
  (`WritesProperties`); with different variables, or from values converted
  first, it is the simultaneous assignment.
- `Dispatch`. `RecursionFindsValue`: for a value in the range the recursion ends
  at its constant, so the constant at the end is never taken for another value.
  `DispatchInv` is about the arguments converted so far.
- `SceneSearch`. `OrderIs` says what the depth-first order of a place is, which
  exists because the nodes are numbered from parents to children (`RankFalls`).
  `SceneInv` relates every frame to that order: what waits has found nothing
  below the children before, and what returns has found what its part of the
  order has first.
- The composition. A step of `SequentialHeaders` is a step of one header and
  leaves the other twelve alone (`OneHeaderSteps`), so it satisfies each one's
  specification (`HeadersAreComponents`), and `ObjectsKeepPromises` and
  `OperationsKeepPromises` carry the theorems over to it.

The library's induction theorems take an operator as a parameter, which none
of the provers can instantiate. Where a recursive function has to be reasoned
about, the proof uses sets: that the numbers are well-founded
(`NatLessThanWellFounded`, `WFMin`) gives `LeastNumber`, and that `SetInduction`,
which is used on the set of the numbers, or of the ranks, that the claim holds
for. That the recursive function exists at all is proved the same way
(`OrderExists`, `WritesExist`, `FlattenRules`).

Only model-checked: the liveness properties `StartCompletes`,
`ShutdownCompletes`, `CallsReturn`, `ReleasedWhenDone` and `LoopEnds`, since the
prover reasons neither about fairness nor about `ENABLED`; and the five
disagreements, which are counterexamples.

## Limits

- Memory ordering is modelled where the code depends on it alone
  (`LockFreeBuffer`). The polled flag of `VPRInvokeFunctorFlagSync` is taken as
  ordered, and deleting a semaphore inside its `release` is not modelled.
- The implicit assignment of a `BlockingInvokeFunctor`, which would copy the
  creator flag that its copy constructor clears, is not modelled: the repository
  never assigns one.
- A start that takes back somebody else's stop request is in `RunLoopManager`,
  where no property forbids it; the lifecycle's client does not do it.
- A reference to a buffer's own value as an argument of `push_back` is not
  modelled: the slide moves the value before it is read.
- Two client errors the interfaces cannot detect are left out:
  `signalAndWaitForShutdown` from the loop's own body, and two threads that block
  in `blockUntilCompletion` on each other.
- A failed insertion in `CountedUniqueValues` is one that changes nothing itself
  (the strong guarantee of `push_back` and of the map).

## Plan

1. The safety of every module is proved; what a next change to the code needs is
   that its proofs stay short. Candidates to be shortened: the lemmas on
   `SceneSearch`'s frames and on the corners of a cube.
2. A buffer's own value as an argument of `push_back`, once the header says
   whether it is allowed.
3. `changeFileExtension`, once the header says what it means for a dot in the name
   of a directory.
