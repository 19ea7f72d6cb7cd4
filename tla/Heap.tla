-------------------------------- MODULE Heap --------------------------------
(***************************************************************************)
(* The word pool of src/src/memory.cpp: allocate() with its best-fit free  *)
(* list, and the collector's bookkeeping (start_GC, found_living_object,   *)
(* sweepy_sweep).  Which blocks the tracer finds is left open here: it may *)
(* report any block in use, with the size it was allocated with.  Module   *)
(* Collector says what the tracer really does and is checked to keep to    *)
(* this contract.                                                          *)
(***************************************************************************)
EXTENDS Integers, FiniteSets

CONSTANTS
    pool_size,        \* globalinfo.h:69, in 64-bit words
    big_memory_pool,  \* memory.cpp:15, the address of the first word
    Requests          \* the sizes the program asks allocate() for

ASSUME PoolAssumption == pool_size \in Nat \ {0} /\ big_memory_pool \in Nat \ {0}
ASSUME RequestAssumption == Requests \subseteq Nat \ {0} \* the check of memory.cpp:49

VARIABLES
    free_memory,          \* memory.cpp:23: the multimap size -> address, as blocks
    free_memory_count,    \* memory.cpp:11
    living_objects,       \* memory.cpp:24: what the trace has found so far
    MEMORY_BEING_TRACED,  \* memory.cpp:44
    memory_incrementor,   \* memory.cpp:367: the cursor of sweepy_sweep
    phase,                \* where the one thread is: program, trace, sweep, aborted
    objects               \* history: the blocks handed out and not collected

heapVars == <<free_memory, free_memory_count, living_objects,
              MEMORY_BEING_TRACED, memory_incrementor, phase, objects>>

PoolEnd == big_memory_pool + pool_size

Block == {b \in [addr : big_memory_pool .. PoolEnd - 1, size : 1 .. pool_size] :
              b.addr + b.size <= PoolEnd}

Words(b) == b.addr .. b.addr + b.size - 1

Apart(a, b) == a.addr + a.size <= b.addr \/ b.addr + b.size <= a.addr

-----------------------------------------------------------------------------
HeapInit ==
    /\ free_memory = {[addr |-> big_memory_pool, size |-> pool_size]}
    /\ free_memory_count = pool_size
    /\ living_objects = {}
    /\ MEMORY_BEING_TRACED = FALSE
    /\ memory_incrementor = big_memory_pool
    /\ phase = "program"
    /\ objects = {}

\* Mutant of BestFit: the smallest block, large enough or not.
BestFit_AnySize(free, size) == {k \in free : \A o \in free : k.size <= o.size}

\* lower_bound(size): a smallest block that is large enough.  Blocks of equal
\* size keep their insertion order in the multimap; the model lets any be first.
BestFit(free, size) ==
    {k \in free : k.size >= size /\ \A o \in free : o.size >= size => k.size <= o.size}

\* Mutants of Taken: the remainder starts where the block did; the remainder is
\* dropped; the block is not erased from the list.
Taken_SameAddress(free, k, size) ==
    (free \ {k}) \cup
        IF k.size = size THEN {} ELSE {[addr |-> k.addr, size |-> k.size - size]}

Taken_NoRemainder(free, k, size) == free \ {k}

Taken_NoErase(free, k, size) ==
    free \cup
        IF k.size = size THEN {} ELSE {[addr |-> k.addr + size, size |-> k.size - size]}

\* The front of block k is used, what is left over goes back in the list.
Taken(free, k, size) ==
    IF k.size = size
    THEN free \ {k}
    ELSE (free \ {k}) \cup {[addr |-> k.addr + size, size |-> k.size - size]}

Issued(k, size) == [addr |-> k.addr, size |-> size]

\* One call of allocate().
AllocateAt(size, k) ==
    /\ phase = "program"
    /\ free_memory_count' = free_memory_count - size
    /\ free_memory' = Taken(free_memory, k, size)
    /\ objects' = objects \cup {Issued(k, size)}
    /\ UNCHANGED <<living_objects, MEMORY_BEING_TRACED, memory_incrementor, phase>>

\* An operation that calls allocate() twice (new_AST of a basicblock, copy_AST
\* of an imv): the second call sees what the first left.
AllocateTwoAt(first, k, second, l) ==
    /\ phase = "program"
    /\ free_memory_count' = free_memory_count - first - second
    /\ free_memory' = Taken(Taken(free_memory, k, first), l, second)
    /\ objects' = objects \cup {Issued(k, first), Issued(l, second)}
    /\ UNCHANGED <<living_objects, MEMORY_BEING_TRACED, memory_incrementor, phase>>

\* error() and check() abort the process: nothing runs after this step.
Abort ==
    /\ phase' = "aborted"
    /\ UNCHANGED <<free_memory, free_memory_count, living_objects,
                   MEMORY_BEING_TRACED, memory_incrementor, objects>>

\* Another part of the program fails a check() or calls error().
FailElsewhere == phase = "program" /\ Abort

OutOfMemory(size) == phase = "program" /\ BestFit(free_memory, size) = {} /\ Abort

OutOfMemoryTwo(first, second) ==
    /\ phase = "program"
    /\ \E k \in BestFit(free_memory, first) :
          BestFit(Taken(free_memory, k, first), second) = {}
    /\ Abort

AllocateOne(size) == \E k \in BestFit(free_memory, size) : AllocateAt(size, k)

AllocateTwo(first, second) ==
    \E k \in BestFit(free_memory, first) :
        \E l \in BestFit(Taken(free_memory, k, first), second) :
            AllocateTwoAt(first, k, second, l)

-----------------------------------------------------------------------------
start_GC ==
    /\ phase = "program"
    /\ living_objects = {}
    /\ free_memory_count' = pool_size
    /\ MEMORY_BEING_TRACED' = TRUE
    /\ phase' = "trace"
    /\ UNCHANGED <<free_memory, living_objects, memory_incrementor, objects>>

\* Mutant of found_living_object: the count stays.
found_living_object_NoCount(addr, size) ==
    /\ phase = "trace"
    /\ living_objects' = IF \E l \in living_objects : l.addr = addr
                         THEN living_objects
                         ELSE living_objects \cup {[addr |-> addr, size |-> size]}
    /\ UNCHANGED <<free_memory, free_memory_count, MEMORY_BEING_TRACED,
                   memory_incrementor, phase, objects>>

\* The tracer has reached the object at addr and computed its size.
found_living_object(addr, size) ==
    /\ phase = "trace"
    /\ IF \E l \in living_objects : l.addr = addr
       THEN UNCHANGED <<living_objects, free_memory_count>>
       ELSE /\ living_objects' = living_objects \cup {[addr |-> addr, size |-> size]}
            /\ free_memory_count' = free_memory_count - size
    /\ UNCHANGED <<free_memory, MEMORY_BEING_TRACED, memory_incrementor, phase, objects>>

\* Mutant of BeginSweep: the free list is kept.
BeginSweep_KeepsList ==
    /\ phase = "trace"
    /\ phase' = "sweep"
    /\ memory_incrementor' = big_memory_pool
    /\ objects' = {o \in objects : \E l \in living_objects : l.addr = o.addr}
    /\ UNCHANGED <<free_memory, free_memory_count, living_objects, MEMORY_BEING_TRACED>>

\* The trace is over: sweepy_sweep drops the free list and starts at the
\* bottom of the pool.  From here on the program's blocks are the marked ones.
BeginSweep ==
    /\ phase = "trace"
    /\ phase' = "sweep"
    /\ free_memory' = {}
    /\ memory_incrementor' = big_memory_pool
    /\ objects' = {o \in objects : \E l \in living_objects : l.addr = o.addr}
    /\ UNCHANGED <<free_memory_count, living_objects, MEMORY_BEING_TRACED>>

\* living_objects.lower_bound(memory_incrementor) looks at these, and returns
\* end() when there are none.
AtOrAfterCursor == {l \in living_objects : l.addr >= memory_incrementor}

NextLiving == {l \in AtOrAfterCursor : \A m \in AtOrAfterCursor : l.addr <= m.addr}

\* Mutants of SweepGap: the cursor goes behind the object's first word only; it
\* goes one word too far; it does not move.
SweepGap_FirstWord ==
    /\ phase = "sweep"
    /\ \E l \in NextLiving :
        /\ free_memory' =
              IF l.addr = memory_incrementor
              THEN free_memory
              ELSE free_memory \cup {[addr |-> memory_incrementor,
                                      size |-> l.addr - memory_incrementor]}
        /\ memory_incrementor' = l.addr + 1
    /\ UNCHANGED <<free_memory_count, living_objects, MEMORY_BEING_TRACED, phase, objects>>

SweepGap_OneTooFar ==
    /\ phase = "sweep"
    /\ \E l \in NextLiving : memory_incrementor' = l.addr + l.size + 1
    /\ UNCHANGED <<free_memory, free_memory_count, living_objects,
                   MEMORY_BEING_TRACED, phase, objects>>

SweepGap_Stays ==
    /\ phase = "sweep"
    /\ NextLiving # {}
    /\ UNCHANGED heapVars

\* One turn of the loop: the gap before the next living object is free.
SweepGap ==
    /\ phase = "sweep"
    /\ \E l \in NextLiving :
        /\ free_memory' =
              IF l.addr = memory_incrementor
              THEN free_memory
              ELSE free_memory \cup {[addr |-> memory_incrementor,
                                      size |-> l.addr - memory_incrementor]}
        /\ memory_incrementor' = l.addr + l.size
    /\ UNCHANGED <<free_memory_count, living_objects, MEMORY_BEING_TRACED, phase, objects>>

\* The end of the pool, and the end of the collection.  memory.cpp:405 checks
\* that the cursor has not run past the pool; CursorInPool says it never has.
SweepEnd ==
    /\ phase = "sweep"
    /\ AtOrAfterCursor = {}
    /\ memory_incrementor <= PoolEnd
    /\ free_memory' =
          IF memory_incrementor = PoolEnd
          THEN free_memory
          ELSE free_memory \cup {[addr |-> memory_incrementor,
                                  size |-> PoolEnd - memory_incrementor]}
    /\ living_objects' = {}
    /\ MEMORY_BEING_TRACED' = FALSE
    /\ phase' = "program"
    /\ UNCHANGED <<free_memory_count, memory_incrementor, objects>>

HeapNext ==
    \/ \E size \in Requests : AllocateOne(size) \/ OutOfMemory(size)
    \/ \E first, second \in Requests :
          AllocateTwo(first, second) \/ OutOfMemoryTwo(first, second)
    \/ FailElsewhere
    \/ start_GC
    \/ \E o \in objects : found_living_object(o.addr, o.size)
    \/ BeginSweep
    \/ SweepGap
    \/ SweepEnd

HeapSpec == HeapInit /\ [][HeapNext]_heapVars

\* start_GC is one call: once it runs, the thread does nothing else before it
\* returns, so each of its steps that can be taken is taken.
HeapFairSpec == HeapSpec /\ WF_heapVars(BeginSweep) /\ WF_heapVars(SweepGap)
                         /\ WF_heapVars(SweepEnd)

-----------------------------------------------------------------------------
(* Properties *)

TypeOK ==
    /\ free_memory \subseteq Block
    /\ free_memory_count \in Int
    /\ living_objects \subseteq Block
    /\ MEMORY_BEING_TRACED \in BOOLEAN
    /\ memory_incrementor \in Nat
    /\ phase \in {"program", "trace", "sweep", "aborted"}
    /\ objects \subseteq Block

\* No word is in two blocks: the free blocks are apart from each other, the
\* blocks in use are apart from each other, and no free block overlaps a block
\* in use.  allocate() (memory.cpp:46-93) and sweepy_sweep keep it together:
\* the first splits the free list, the second rebuilds it from the marks.
NoOverlap ==
    /\ \A a, b \in free_memory : a = b \/ Apart(a, b)
    /\ \A a, b \in objects : a = b \/ Apart(a, b)
    /\ \A a \in free_memory : \A o \in objects : Apart(a, o)

\* No word of the pool is lost while the program runs: each is in a free block
\* or in a block in use.  The sweep must hand back every gap, the first and
\* the last one included (memory.cpp:381-404).
NoWordLost ==
    phase = "program" =>
        \A w \in big_memory_pool .. PoolEnd - 1 :
            \E b \in free_memory \cup objects : w \in Words(b)

\* free_memory_count, which the event loop compares with a tenth of the pool to
\* decide on a collection (testdriver.cpp:678), is the number of free words,
\* although allocate(), start_GC and found_living_object change it without
\* looking at the free list.
CountIsFreeWords ==
    phase = "program" => free_memory_count = Cardinality(UNION {Words(b) : b \in free_memory})

\* The sweep's cursor never leaves the pool, so that the check of
\* memory.cpp:405 never fails and the last gap is not computed below zero.
CursorInPool ==
    phase = "sweep" => memory_incrementor \in big_memory_pool .. PoolEnd

\* A collection takes back no word of an object the trace reported, and every
\* word of the others, whatever the order and the sizes of the gaps between the
\* survivors: the sweep computes the free list from addresses and sizes alone
\* (memory.cpp:375-404).
CollectsUnmarked ==
    [][phase = "sweep" /\ phase' = "program" =>
         UNION {Words(f) : f \in free_memory'} =
             (big_memory_pool .. PoolEnd - 1)
                 \ UNION {Words(l) : l \in living_objects}]_heapVars

\* A collection coalesces: right after it, no two free blocks are neighbours,
\* so that the largest request that could be met is met.
SweepCoalesces ==
    [][phase = "sweep" /\ phase' = "program" =>
         \A a, b \in free_memory' : a.addr + a.size # b.addr]_heapVars

\* Once it runs, a collection ends (start_GC returns to the event loop).
CollectionEnds == phase \in {"trace", "sweep"} ~> phase = "program"

\* The pool as the rest of the program sees it.
Memory == INSTANCE ManagedMemory
ImplementsMemory == Memory!Spec
=============================================================================
