# Super-Searcher in TLA+

Super-Searcher runs programs that write programs. Users' code is made of ASTs
that live in a garbage-collected pool of 64-bit words; it is compiled by an LLVM
JIT, run, copied, changed and compiled again, for as long as the process lives.
Beside it, `user_admin/` starts one process per user and lets them talk through
queues in shared memory. This directory models the parts of the C++ code (under
`src/`) where a mistake shows only after a long or an unlucky history, checks
them with TLC on small instances, and proves facts about them with TLAPS.

## The system

| component | code | state | operations | who calls it |
|---|---|---|---|---|
| word pool | `src/memory.cpp` | `free_memory` (multimap size → address), `free_memory_count`, `living_objects` | `allocate`, `start_GC`, `found_living_object`, `sweepy_sweep` | everything that makes an object; the event loop |
| collector | `src/memory.cpp` | roots (`type_roots`, `event_roots`), `type_hash_table`, the function bit masks | `trace_objects`, `initialize_roots`, `mark_target`, `found_function`, the finalizers | event loop (`testdriver.cpp:678`), fuzzer (195), console (707) |
| objects | `vector.h`, `dynamic.h`, `ASTs.h`, `runtime.h`, `helperfunctions.h` | words of the pool | `new_AST`, `copy_AST`, `deep_AST_copier`, `vector_build`, `pushback_int`, `new_dynamic_obj`, stores through references | compiled code, reader, fuzzer |
| unique types | `type_creator.*`, `types.*` | `type_hash_table` | `new_unique_type`, `uniquefy_premade_type`, `concatenate_types`, `type_check` | compiler, collector |
| functions | `function.h`, `runtime.h`, `orc.h` | `function_pool`, its bit masks, the JIT's modules | `allocate_function`, `compile_*`, `run_null_parameter_function`, `overwrite_func`, `~function` | compiled code, event loop |
| types and their check | `types.*`, `helperfunctions.h` | none | `type_check`, `type_check_once`, `concatenate_types`, `get_size`, `is_full` | compiler |
| compiler | `cs11.*`, `helperfunctions.h` | `objects` and `object_stack`, `labels`, `loop_catcher`, the memory allocations | `compile_AST`, `generate_IR`, `clear_stack`, `create_if_value` | `compile_*` |
| queue | `generic_ipc.h` | three positions and a ring of words | `write_values` (`allocate_memory`, `commit_memory`), `should_I_load`, `get_next_value` | admin, king, users |
| admin and slaves | `user_admin/mmap.cpp`, `slave.cpp` | times of the last pings, `pinged_already`, the king's list | the two main loops and `handle_queue_event` | the operating system |
| snapshot | `serialization_snapshot.cpp` | a file | `serialize`, `unserialize` | `main` |
| ancestry tree | `ancestry.h` | a tree of users | insert, delete, find | nobody yet |

One process runs compiler, program and collector in a single thread, so there
the hard part is the sequence: an object is reachable through six kinds of
words, each with its own size rule and its own case of `mark_target`; types are
compared by address, and the table that makes this sound is emptied and rebuilt
in the middle of each collection; machine code holds words the collector cannot
see. The compiler meets graphs that nobody wrote: the fuzzer and the programs
make them, cyclic, shared and mistyped, and each way out of `generate_IR` has
to leave its tables as it found them. Between processes the hard part is
interleaving: the queue has no lock, several senders, plain word writes between
two compare-and-swaps, and users may be killed. `PROJECT.json` lists the
hazards one by one with their lines and the properties that cover them.

What makes each component correct:

* word pool: no word in two blocks, none lost, the counter right, collections
  end, keep what is marked and coalesce the rest;
* collector: the marks are exactly what the roots own; what the program can
  reach through any chain of words is intact; survivors are not touched; types
  stay unique; the function masks agree with the JIT;
* copies: deep, with the shape of the original;
* types: what fits in a slot has its size, and nothing that points to a
  temporary fits where a full object may be;
* compiler: it returns on every graph; its tables agree on every path, error
  paths included; what was alive before a frame is alive after it; in the code
  it emits a value is made on each way to its use;
* queue: a channel, whole messages in the order of their reservations, whatever
  the interleaving; nobody waits for ever;
* admin and slaves: a user that runs is not given up, one that died is noticed,
  and everyone is told the others' addresses before it needs them.

## Modules

    ManagedMemory   <--implements--  Heap  <--implements--  Collector  --extends--> BitMasks
                                     ^ HeapProofs           ^ MCCollector
                                                            ^ CollectorLemmas <- CollectorProgram
                                                              <- CollectorTrace <- CollectorProofs
    Channel         <--implements--  MultipleSenderQueue
                                     ^ QueueProofs, MCQueue
    TypeCheck       <--instance--    Compiler
                                     ^ CompilerProofs, MCCompiler
    AdminProtocol   <--extends--     AdminProofs, MCAdmin

**`ManagedMemory`** is what callers of `allocate()` are promised: blocks apart
from every block in use, which stay until a collection drops them.

**`Heap`** is the pool. `free_memory` is a set of blocks (equal sizes keep their
insertion order in the multimap; the model lets any be taken). `AllocateOne` and
`AllocateTwo` are operations with one and two calls of `allocate()`; of the
sweep each turn of the loop is a step (`SweepGap`), with the code's cursor and
`lower_bound`. `objects` is history: the blocks handed out and not collected.
Which blocks the tracer reports is open, so that everything said of `Heap` holds
for any tracer that reports blocks in use with their sizes. Two pieces of
`allocate()` have no counterpart because they never run: the branch of lines
66-72 (its condition contradicts the one before) and the check of lines 81-88
(its loop compares the start with itself).

**`Collector`** puts words in the pool. A word is a number; a type up to
`never_reached` is itself, a larger one an address, as in the code. The
operations of the program allocate, write words and keep references in locals
(`held`); `Menu` selects the kinds a run may perform. A vector grows in two
ways: `vecpb` on a vector object (`cs11.cpp:891-900`, the local is redirected when
it is rebuilt) and the pushback to a basicblock (the AST's word is). Stores go
through `AST_subfield`, to a field or to an element of a basicblock's vector,
and through `load_imv_from_AST`. A function may have no return type (`T::null`,
which is 0). The recursion of
`mark_target` is a stack of what is left to do (`to_be_marked`), one action per
case of its switch; a dynamic object takes two because its type is marked
before its size is taken. Copies by `deep_AST_copier` advance one AST per step,
with its map. `uniquefy_premade_type` rewrites the fields of a type in place as
the code does. The finalizers work on bit masks with the code's subtraction,
modulo 2^`BlockBits` (`BitMasks` has the powers of two and the bits of a
number). What is reached from a set of references is a recursive function on
sets, not a `RECURSIVE` operator, so that it can be proved about. A collection
starts only between events, where no C++
local is used afterwards: `held` is emptied. `InUse` is the program's own view:
it follows each word by its type, the type of what it reads, and the words in
machine code, and knows nothing of the collector. `modules` is the JIT: the
slots whose code it holds. `overwrite_func` destroys the function in a slot,
which takes its code out of the JIT, and compiles another AST into the same
slot. `error` says why a process aborted (`error()` and `check()` call
`abort()`).

**`Channel`** and **`MultipleSenderQueue`**: the second is `generic_ipc.h` at the
grain of single accesses to shared memory: read the reserve position, swap it,
write each word, swap the done position; the receiver polls, reads the event,
then each argument. The mapping to `Channel` is the words in memory between the
receiver's position and the done position, so the refinement fails if a word is
published before it is written, written after it is published, or overwritten.
Senders and events are constants; a failing compare-and-swap that leaves
everything as it was is a stutter. A sender that touches memory behind the
mapping gets no further (the process is killed by the system). The size checks
of `write_values` (`generic_ipc.h:152`, `192`, `193`) would abort the sender;
every caller sends one to three words, and `LengthAssumption` says that the
messages are such that the checks pass.

**`TypeCheck`** has types as tuples, a name and what it is made of, and the two
checks and `concatenate_types` as operators, with the code's order of tests. A
pair of compound types whose insides differ falls through to the case of
`integer` as it does in `types.cpp`. The call of `type_check` for the insides is
the constant `SameTarget`: the runs close the recursion with `SameInside`, and
what is proved holds whatever it answers. `MadeFrom` says which types the
program makes: what `new_unique_type`, `nvec` and `concatenate_types` build.

**`Compiler`** is `generate_IR`. The recursion is `frames`, one record per call
in progress with the results of the fields compiled so far; `control` is what
happens next, a call, a return, or that the last frame goes on; a tag's case of
the switch is one action. `objects`, `object_stack`, `labels` and
`loop_catcher` are the code's tables, `allocations` its `memory_allocation`s,
which begin on the stack and are turned full (moved to the heap) when a pointer
needs it. Of the LLVM code that is emitted `flow` keeps the blocks and the
jumps between them, the block each value is made in and the blocks it is used
in: enough to ask whether a value is made on each way to its use. A constant is
the sequence of its words; `Huge` stands for every number beyond all offsets,
and what is folded from it may be any number. `scoped` is history: it is FALSE
once a label was compiled as a field of something other than a basicblock, or a
goto has jumped to a label whose scope was left. `ProgramsAssumption` is what
the reader, the fuzzer and the running program keep to when they make an AST:
a field is an AST or `nullptr`, there are as many as the tag asks for
(`pointer_fields`), and the words of an imv are those of an object of its type
(`ImvTypes`). Nothing is assumed of the graph's shape.

**`AdminProtocol`** is `mmap.cpp` and `slave.cpp`. The queues are sequences of
messages, which is what `MultipleSenderQueue` is shown to implement. The admin's
round is events, then each user in turn, then sleep; a user wakes, handles what
is in its queue and sleeps. Time passes only while everybody who runs sleeps, in
units of which the admin's round and a user's poll take at most `AdminPause`
and `UserPause`; `silence` is `current_time - time_of_last_ping`. A user may die
between any two of its steps, and a send is one step: a user that is killed inside
`write_values`, after its reservation and before its commit, keeps the pings of
the others from the admin for ever, and what `NoneWronged` says would then be false.
`generic_ipc.h:11` assumes that this does not happen, and so does this module;
what it does to the queue is the subject of `MultipleSenderQueue`. The assumption on the times says that a question that is asked as
late as the code can ask it is polled and answered before the limit: `PingAfter`
+ `AdminPause` + `UserPause` <= `GiveUp`. The code's 1 s, 300 ms and 3 s satisfy
it as long as the system keeps nobody waiting for most of the two seconds between.

Definitions named after another one with a suffix (`Taken_NoErase`) are mutants:
each property is shown to fail when the definition is replaced by its mutant.

## Runs

| run | asks | result |
|---|---|---|
| `MCHeap` | everything about the pool, on 6 words with requests of 1 to 3 | holds, 7 506 states |
| `MCASTs` | reachability and deep copies, ASTs of two fields, cyclic and shared, two and their copies at once; collections end | holds, 459 883 |
| `MCBlocks` | growing basicblocks whose elements are replaced; the contract of `Heap` | holds, 220 121 |
| `MCObjects` | dynamic objects, vectors that grow, and pointers, types that nest: the marks are what the roots own, types stay unique | holds, 901 010 |
| `MCFunctions` | four slots in two blocks: compiled, overwritten, collected, with moving roots; the masks, the slots and the JIT agree | holds, 1 324 159 |
| `MCQueue` | three senders, messages of 1 to 3 words, one sender may be killed anywhere | holds, 86 122 |
| `MCCompiler` | the compiler's tables, lifetimes, types and emitted blocks on three families of programs; it returns | holds, 384 530 |
| `MCAdmin` | a king and two citizens, any of which may die: nobody wronged, everybody told, the dead found | holds, 231 516 |
| `MCPointers` | an object is marked with its size | violated |
| `MCBakedTypes` | types in machine code stay valid | violated |
| `MCDeepCopy` | a deep copy of a basicblock is deep | violated |
| `MCQueueWrap` | senders and receiver agree on positions over a lap | violated |

**Bounds.** Each pool is as small as the case allows that its run is for;
running out is part of every run. In `MCASTs` the root of the types takes two of
14 words: four ASTs of three words are left, so that two distinct ASTs, one
below the other, sharing a child or in a cycle, can be copied whole and their
copies traced (with 12 words only single ASTs could). Copies of three ASTs do
not fit; a longer cycle adds no case to the copier or the trace, which look at
one AST at a time, and the proofs are for every pool. In `MCBlocks` 20 words let a
basicblock whose vector has moved be compiled, lost and collected. In
`MCObjects` 17 words let a vector be rebuilt in a block of six and wrapped in a
dynamic object; types of depth two are made there, and types that nest deeper seldom
survive a collection beside it. `MaxObjects` is the number of
blocks in use, lost ones included, beyond which the program makes no object of
its own (copies and results of functions are made all the same), and
`MaxWritten` that beyond which it stores nothing; they keep out histories that
only fill the pool with objects that are lost. In
`MCFunctions` three of the four slots are taken at a time, so that slots of both
blocks are taken and given back in many orders; the full function pool is
reached in `MCASTs`, which has one slot. `MaxHeld` = 1 keeps one C++ local beside the roots: with two
references needed at a time, one is in an object. `spare_elements` is 1 instead
of 3 so that a vector fills and moves within the pool. `BlockBits` is 2 instead
of 64 in `MCFunctions`, with two blocks, so that a borrow would reach a
neighbouring bit. `Menu`, `PlainTypes`,
`TypeShapes` and `ASTFields` pick what a run builds. In the queue runs
`MaxWords` bounds what is ever sent, so that no sender loses its
compare-and-swap for ever because others always win it; the messages are the real ones of
`slave.cpp`, with short stand-ins for identifiers. `MCCompiler` compiles each
program of three families. Control flow: labels, gotos, branches and a nested
scope that share an object, in all the orders that put a jump before, behind,
into and out of a scope. Data: a value of every kind of type, something made of
it (a pointer, a structure, a vector, its type, a dynamic object), and every
tag applied to those, with a constant, a zero and an unknown offset. Cycles:
every graph of three ASTs that may hold themselves and each other. Deeper
programs repeat these pairs, as a frame sees only its own base of the stack and
the results of its fields. In `MCAdmin` the pauses are as long as the timeouts
allow: with `GiveUp` one less `NoneWronged` is violated. In `MCFunctions`
functions are overwritten by ASTs that compile (see below for those that do
not).

**What the passing runs leave out because of the defects found.** No passing run
has a pointer to a structure (`MCPointers` shows what happens), a type baked in
by `dynamify` (`MCBakedTypes`), an imv below a compiled basicblock (a
consequence of `MCDeepCopy`) or in a function whose root `find_random_AST`
moves, or a queue over more than one lap. Inside those
limits the properties hold of the code as it is.

**Fairness.** `HeapFairSpec` and `FairSpec` say that a collection goes on: it
is one call in the only thread, and nothing in it waits. In `Heap` that is one
condition per step of the sweep, and none on `found_living_object`, so that
nothing is assumed of the tracer. `QueueFairSpec` is fairness of each process
(the operating system schedules it), none on beginning to send. With killed
senders the other senders may wait for ever, as `generic_ipc.h:11` admits:
`WritesFinish` is about behaviours in which nobody is killed. That the receiver
gets all that is committed (`MessagesArrive`: whenever committed words are unread,
there comes a time when it has read all of them and polls again) needs no such
condition; nothing is said of a message that a killed sender keeps from being committed. The
compiler's `FairSpec` says that its recursion, in the only thread, goes on.
That of `AdminProtocol` says that some process that runs takes a step or time
passes; nobody has to die, and no user is assumed to answer except through
being alive and within its pauses.

## Findings

1. `memory.cpp:297`: a pointer's target is marked with `get_size` of the
   pointer type, 1 word. Behind a pointer to a structure the other words are
   freed while in use; `testdriver.cpp:660-667` makes such an object
   (`MCPointers`).
2. `cs11.cpp:920`: a type made by the compiler and put in machine code is not
   traced with the function (`MCBakedTypes`).
3. `helperfunctions.h:361`: a "deep" copy shares the ASTs in a basicblock with
   the original. What the function's code has baked in from below loses its
   root when the original is changed (`MCDeepCopy`).
4. `generic_ipc.h:164` and `182`: `>=` and `>`; a stretch that ends at the very
   end of the ring stops the queue (`MCQueueWrap`).

Seen while modelling, without a run of their own: the receiver goes back to the
front of the ring two words after the senders (`generic_ipc.h:136` against
`175`; the model's `get_next_value` has it, but no run goes over the end with
the receiver); and `mmap.cpp:15` maps 10 240 bytes where the ring indexes 10 240
words. More of the kind:

* `types.cpp:103-113`: a compound type whose inside does not match falls
  through to the case that only compares kinds, so that a vector of one type is
  accepted as a vector of another, against the comments at `types.cpp:13` and
  `106`. The size is right all the same, which is what `SlotsHold` says.
* A label that is a field and not a statement keeps the objects of its scope,
  and since labels are never erased a later goto can jump back into a scope
  that was left (`label_incorrect_stack`, `helperfunctions.h:20`, is never
  returned; `doc/goto` says that one cannot jump into scopes). There a value is
  used that was not made; `ObjectsAreMade` excepts it by `scoped` and is
  violated without.
* `does_not_return` is lost in `finish_internal`, so that the typing of a
  branch that ends in a goto, as `doc/goto` describes it, never applies.
* A reference to the first word of an object keeps the `llvm::Value` it was
  made with when `turn_full` moves the object (`cs11.cpp:226-227`, `1065-1066`,
  `helperfunctions.h:253-261`).
* `overwrite_func` returns 1, "success" by `ASTs.h:114`, when the compilation
  failed (`runtime.h:282-289`); the slot is then flagged and has no code. With
  `"compile_error"` in its menu `FunctionsMatchModules` is violated.
* `find_random_AST` works on a reference to the function's own AST
  (`testdriver.cpp:55`), so that choosing a part of it makes that part the
  function's AST. The machine code still holds what the rest held in its imvs, and
  the next collection takes it: with `"imv"` and `"find_random_AST"` in one menu,
  ASTs of two fields and a pool of 22 words, TLC finds `Intact` violated.
* An admin that the system keeps from running for two seconds finds a user past
  the limit which it has never asked.

## Proofs

All proofs are for every value of the constants that the named assumptions
allow.

**`HeapProofs`**, for every pool size, base address and set of positive request
sizes (`PoolAssumption`, `RequestAssumption`): `TypeOK`, `NoOverlap`,
`NoWordLost`, `CountIsFreeWords` and `CursorInPool` as invariants,
`CollectsUnmarked` (the free list the sweep has built is every word of the pool
but those of marked objects) and `SweepCoalesces` as action properties, and that `Heap`
implements `ManagedMemory`.

`NoOverlap` alone is not inductive: the sweep rebuilds the free list from marks,
so one must know that the marks are blocks in use (`MarksInv`), that none lies
across the cursor, that what has been freed lies strictly below it, and that
everything below it is in some block (`SweepInv`). `CountInv` ties the counter to
the free list while the program runs and to the marks during a collection.
`HeapInv` is their conjunction; the runs' properties follow from it. One lemma,
`AllocateOnce`, says what one call of `allocate()` does to a tiled pool and
serves the operations with one call, those with two, and the refinement.

**`CollectorLemmas`, `CollectorProgram`, `CollectorTrace`, `CollectorProofs`**,
one argument in four modules, for every pool, every size of the function pool,
every kind of AST and all types that programs may make
(`CollectorAssumption`): `CollectorTypeOK`, `ChecksNeverFail`,
`FunctionsMatchModules`, `Intact`, `TypesUnique` and `LivingIsRooted` as
invariants, `MarkedWhole` and `SurvivorsUntouched` as action properties, and that
`Collector` implements `Heap`. Two hypotheses say which programs, and every menu of a
passing run satisfies them:

* `SafeMenu`: no `dynamify` and no function overwritten by an AST that does not
  compile; and where words of objects get into machine code, through imvs that
  are compiled (`Bakes`), neither basicblocks nor `find_random_AST`. Each is
  needed. With `dynamify` `Intact` is false (`MCBakedTypes`), with
  `compile_error` `FunctionsMatchModules` is. With imvs, copies share what is in
  a basicblock (`MCDeepCopy`), and `find_random_AST` moves a function's root off
  the AST that keeps what its code holds: either way `Intact` is false.
* `FlatTypes`: no pointer to a structure. Without it `MarkedWhole` is false
  (`MCPointers`).

The refinement has a third, `AnyRequest`: what `Heap` may be asked for includes
every size up to the pool's, as types and basicblocks are of any length. And
where there are no basicblocks at all `CopyIsDeep` holds; with them it does not
(`MCDeepCopy`).

The invariants read what the program reaches, a closure. `CollectorLemmas` shows
by induction that it is the least set that is closed, and after that nothing
computes it: a `Shape` is a closed set of references in which every one is
`Sound` (its object is a block of the size its type says, its fields lead to
sound objects again, its type is a type, ranked above its subtypes), and
a `World` is a shape with the roots, the locals and what the copier holds in it,
whose types are all different and, those in the heap, in the hash table.

Machine code holds words that the trace does not visit, so a world has to say why
they are found all the same (`Guarded`). Some of the ASTs are the functions' own: nothing
else leads to them, the program holds none of them, and so no store reaches them. Among
these, whatever closed set of ASTs contains a function's root contains, in the
objects of its imvs, all that the code holds (`Keeps`). A compilation bakes in
what is below the original, and hands its copy to the function: so each
intermediate state of the copier is described (`Mirror`: the copies made so far
are as their originals but for the fields still to be copied, and the objects of
imvs have the same words), and when nothing is left to copy, the copy keeps what
the original kept. `CopyIsDeep` follows from the same description. After a trace,
the ASTs found are a closed set, so what the code holds is found (`CodeFound`).

`CollectorProgram` shows that each operation leads from a world to a world:
with what it made added, or with a field of something in it changed. A vector that
grows does both: room is left behind its elements (`PushedWithRoom`), or it is
rebuilt elsewhere and one word, or one local, is redirected, while the old block
stays sound for whoever else refers to it (`VectorMoved`).

Collections are about the least world of the roots (`Minimal`). `CollectorTrace`
has the invariant of the trace (`Traced`), that of tri-colour marking, what is
marked leads only to what is marked or on the stack, made for types that are
objects themselves and are unified while they are traced: what is on the stack fits
the world (`EntriesFit`); a type's subtypes are made unique before it is
(`SubtypesFirst`, and `Ordered` by rank, or `uniquefy_premade_type` would compare
fields that are about to change); the type of whatever was found is found or
will be (`TypesCovered`); a type that was found and is not in the table yet is about
to be put there (`TypesPending`). When the stack is empty the marks are closed,
and the world is least, so the marks are the world: hence `LivingIsRooted`, that
nothing in use is swept, and a `World` again after the sweep. On the way every
entry of the stack is one its case of `mark_target` accepts, so that no `check()`
fails.

The masks of the function pool are numbers. `CollectorLemmas` shows that adding
the power of a bit that is clear sets this bit and no other, and that
subtracting a mask from one that has all its bits clears these and borrows
nothing (`SetBit`, `DifferenceOfMasks`, by induction over the width). So `FunctionsMatchModules` holds for every `BlockBits`,
64 among them: no borrow reaches a neighbour.

`CollectorInv` is the disjunction of what holds before the types are
initialised, while the program runs, while it traces, while it sweeps, and
after an abort. `HeapInv` is part of each.

**`QueueProofs`**, for any set of senders, any of which may be killed anywhere,
and any messages, under `OneLap`: all that is sent fits into one lap of the
ring. Beyond that the properties are false of the code (`MCQueueWrap`), so the
hypothesis is needed. It proves `QueueTypeOK`, `StretchesApart` and
`PositionsAgree`. The invariant: a sender between its two compare-and-swaps
holds a stretch inside the part that is reserved and not committed
(`SenderInv`), two stretches do not meet (`ApartInv`), and unless somebody was
killed the stretches cover that part (`CoverInv`). That no position reaches the
end is by counting: what is reserved, and the words of the messages that still
wait for a stretch, a finite set, are together no more than all that was sent
(`LapInv`). For the receiver, under `WholeMessages` (each message is an event
of its switch with as many words as the handler reads), the committed words
fall into messages: there is a set of positions at which messages begin, the
last of which is the done position, and the receiver, with what it expects, is
at one of them (`ReceiverInv`). From it follow `EventsAreEvents` and that the
queue implements `Channel`.

**`AdminProofs`**, for any number of users, timeouts and pauses that satisfy
`TimesAssumption`: `AdminTypeOK`, `NoneWronged` and `ToldInOrder`. That a user
is silent for no more than `GiveUp` when the admin looks at it is not inductive: a
question has to be followed. While it is in the user's queue it is no older
than the user's last poll; from there it goes to the admin's queue as an answer;
and the admin reads all answers before it looks at users (`QuestionInv`).
`CountInv` bounds what is under way, for which one has to know that
only one question is open. `CitizenInv` and `AddressInv` say what is left of the
messages each user was given at the start, and in which order.

**`CompilerProofs`**, for any set of programs, which are any graphs of ASTs,
cyclic, shared and mistyped, and any types and constants in their imvs
(`ProgramsAssumption`, `HugeAssumption`): `CompilerTypeOK`, `TablesAgree`,
`PointersHaveTargets` and `SlotsHold` as invariants, `ScopesNest` and
`StatementsLeaveOne` as action properties. None of them is inductive. The
invariant `Inv(S)` speaks of a set S of types closed under what they are made
of, which grows as the compilation makes types: every table is typed over S
(`TypeInv`); the objects are what the stack says (`TablesAgree`); the bases of
the frames nest, and a frame that waits for a field keeps the mark, the merge
block and the labels it will need (`ScopeInv`); on the stack a pointer stands
above what it was made from, whose allocation is full when the pointer is
(`PointerInv`), which is why clearing a stretch of the stack never separates
the two; and a frame of a pointer compiles nothing itself (`PointerFrameInv`).

With forty actions and five conjuncts the proof goes through the shapes of a
step: one that ends the last frame, one in which the frames stay, one that
begins a frame (`OneStep`). Each action is shown once to be of one of these
shapes (the `...Step` lemmas, joined in `NextIsOneStep`), and each shape once to keep every conjunct. What is
proved of a call's way out, with an error or with a result, so holds of all
ways out together. `SlotsAreSafe` is about the typing alone: what the check
lets into a slot has the slot's size, by cases over how the two types are made.

Writing the proofs found CASE expressions in the model whose arms overlapped
(`type_check`, `ReferenceType`, `Targets`, `Extent`): TLA+ does not say which
arm is taken, TLC takes the first, as the code does. They are IF chains now.

Only model-checked:

* `Compiler`: `ObjectsAreMade`, a statement about all paths through the emitted
  blocks, whose proof would be an induction over paths; and `CompileReturns`.
* All liveness: `CollectionEnds`, `CollectorReturns`, `CompileReturns`,
  `WritesFinish`, `MessagesArrive`, `DeadAreFound`.

## Not modelled, and the plan

Left out for good: `debugoutput.h` (printing), `fitter.h` (unused declarations),
`mmap and fork.cpp` (a demonstration), the LLVM JIT behind `orc.h` (external: a
set of modules), the fuzzer's random numbers (nondeterminism instead), reading
characters from the console. `serialization_snapshot.cpp` cannot be run by the
program (`unserialize_choice` is never set, `testdriver.cpp:548`) and
`ancestry.h` is constructed by nobody, with a member it leaves uninitialised
(`ancestry.h:18`): of neither is there a state the program can be in.
`allocate_shm` and `open_memory` are system calls; they appear as
the number of mapped words.

Next, in this order:

1. The pointer and reference operations of dynamic objects (`dynamic.h`) and the
   reads that only compute, as operations of `Collector`.
2. The source reader's table of labels (`testdriver.cpp`): a pure pass over a
   sequence of tokens, to be checked against a reference definition.
3. The composition of `AdminProtocol` with the queue word by word, on two users.
