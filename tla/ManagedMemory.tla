--------------------------- MODULE ManagedMemory ---------------------------
(***************************************************************************)
(* What the rest of the program relies on from src/src/memory.cpp:         *)
(* allocate() hands out blocks of the pool that overlap nothing that is    *)
(* still in use, a block never moves or changes size, and only the         *)
(* collector takes blocks back.  The only state is the set of blocks in    *)
(* use; free lists, mark sets and cursors are the implementation's affair. *)
(***************************************************************************)
EXTENDS Integers

CONSTANTS
    pool_size,        \* globalinfo.h:69, in 64-bit words
    big_memory_pool   \* memory.cpp:15, the address of the first word

VARIABLE objects      \* the blocks in use, each [addr |-> .., size |-> ..]

PoolEnd == big_memory_pool + pool_size

Block == {b \in [addr : big_memory_pool .. PoolEnd - 1, size : 1 .. pool_size] :
              b.addr + b.size <= PoolEnd}

Apart(a, b) == a.addr + a.size <= b.addr \/ b.addr + b.size <= a.addr

Init == objects = {}

\* One operation of the program obtains one block, or two.
Allocate == \E a, b \in Block :
    /\ \A o \in objects : Apart(o, a) /\ Apart(o, b)
    /\ a = b \/ Apart(a, b)
    /\ objects' = objects \cup {a, b}

\* A collection drops any part of the blocks; what it may not drop is said by
\* the module that knows which blocks are reachable.
Collect == \E dead \in SUBSET objects : objects' = objects \ dead

Next == Allocate \/ Collect

Spec == Init /\ [][Next]_objects
=============================================================================
