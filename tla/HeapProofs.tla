----------------------------- MODULE HeapProofs -----------------------------
(***************************************************************************)
(* Theorems about module Heap, for every pool, every base address and      *)
(* every set of request sizes.                                             *)
(*                                                                         *)
(* NoOverlap is not inductive alone.  The sweep is safe because nothing    *)
(* marked lies across its cursor and because what it has already freed     *)
(* lies below; it loses no word because everything below the cursor is     *)
(* accounted for; and the marks are blocks in use, pairwise apart, because *)
(* the blocks in use are.  HeapInv is the conjunction of those facts.      *)
(***************************************************************************)
EXTENDS Heap, TLAPS, FiniteSetTheorems

\* The words of a set of blocks.
WordsOf(S) == UNION {Words(b) : b \in S}

\* No word in two blocks, for a given free list and set of blocks in use.
DisjointIn(free, objs) ==
    /\ \A a, b \in free : a = b \/ Apart(a, b)
    /\ \A a, b \in objs : a = b \/ Apart(a, b)
    /\ \A a \in free : \A o \in objs : Apart(a, o)

\* Every word from the bottom of the pool up to `limit' is in some block.
CoveredTo(limit, free, objs) ==
    \A w \in big_memory_pool .. limit - 1 : \E b \in free \cup objs : w \in Words(b)

MarksInv ==
    /\ living_objects \subseteq objects
    /\ phase = "program" => living_objects = {}

SweepInv ==
    phase = "sweep" =>
        /\ objects = living_objects
        /\ \A l \in living_objects :
              l.addr >= memory_incrementor \/ l.addr + l.size <= memory_incrementor
        /\ \A f \in free_memory : f.addr + f.size < memory_incrementor
        /\ \A a, b \in free_memory : a.addr + a.size # b.addr
        /\ CoveredTo(memory_incrementor, free_memory, objects)

CountInv ==
    /\ phase = "program" => free_memory_count = Cardinality(WordsOf(free_memory))
    /\ phase \in {"trace", "sweep"} =>
          free_memory_count = pool_size - Cardinality(WordsOf(living_objects))

HeapInv ==
    /\ TypeOK
    /\ NoOverlap
    /\ NoWordLost
    /\ CursorInPool
    /\ MarksInv
    /\ SweepInv
    /\ CountInv

-----------------------------------------------------------------------------
(* Facts about blocks and about one call of allocate() *)

\* The pool is a nonempty interval of addresses above zero.
LEMMA PoolEndNat == PoolEnd \in Nat /\ PoolEnd > big_memory_pool
BY PoolAssumption DEF PoolEnd

\* Blocks lie in the pool, and their fields are numbers.
LEMMA BlockFacts ==
    ASSUME NEW b \in Block
    PROVE  /\ b.addr \in Nat /\ b.size \in Nat /\ b.size >= 1
           /\ b.addr >= big_memory_pool /\ b.addr + b.size <= PoolEnd
           /\ b = [addr |-> b.addr, size |-> b.size]
BY PoolAssumption DEF Block, PoolEnd

\* A record within the bounds of the pool is a block.
LEMMA BlockIntro ==
    ASSUME NEW a \in Int, NEW s \in Int,
           a >= big_memory_pool, s >= 1, a + s <= PoolEnd
    PROVE  [addr |-> a, size |-> s] \in Block
BY PoolAssumption DEF Block, PoolEnd

\* Apart blocks share no word, and blocks that share no word are apart.
LEMMA ApartWords ==
    ASSUME NEW a \in Block, NEW b \in Block
    PROVE  Apart(a, b) <=> Words(a) \cap Words(b) = {}
<1>1. /\ a.addr \in Nat /\ a.size \in Nat /\ a.size >= 1
      /\ b.addr \in Nat /\ b.size \in Nat /\ b.size >= 1
  BY BlockFacts
<1>2. Apart(a, b) => Words(a) \cap Words(b) = {}
  BY <1>1 DEF Apart, Words
<1>3. CASE ~ Apart(a, b)
  <2>1. CASE a.addr <= b.addr
    BY <1>1, <1>3, <2>1, b.addr \in Words(a) \cap Words(b) DEF Apart, Words
  <2>2. CASE b.addr < a.addr
    BY <1>1, <1>3, <2>2, a.addr \in Words(a) \cap Words(b) DEF Apart, Words
  <2> QED BY <1>1, <2>1, <2>2
<1> QED BY <1>2, <1>3

\* The words of a set of blocks are words of the pool, hence finitely many.
LEMMA WordsOfFinite ==
    ASSUME NEW S \in SUBSET Block
    PROVE  /\ WordsOf(S) \subseteq big_memory_pool .. PoolEnd - 1
           /\ IsFiniteSet(WordsOf(S))
           /\ Cardinality(WordsOf(S)) \in Nat
<1>1. WordsOf(S) \subseteq big_memory_pool .. PoolEnd - 1
  <2> SUFFICES ASSUME NEW b \in S, NEW w \in Words(b)
               PROVE  w \in big_memory_pool .. PoolEnd - 1
    BY DEF WordsOf
  <2> QED BY BlockFacts, PoolAssumption DEF Words, PoolEnd
<1>2. IsFiniteSet(big_memory_pool .. PoolEnd - 1)
  BY FS_Interval, PoolAssumption DEF PoolEnd
<1> QED BY <1>1, <1>2, FS_Subset, FS_CardinalityType

\* A block has as many words as its size says.
LEMMA WordsCount ==
    ASSUME NEW b \in Block
    PROVE  /\ IsFiniteSet(Words(b))
           /\ Cardinality(Words(b)) = b.size
<1>1. /\ b.addr \in Int /\ b.addr + b.size - 1 \in Int /\ b.size >= 1 /\ b.size \in Int
  BY BlockFacts
<1>2. Words(b) = b.addr .. (b.addr + b.size - 1)
  BY DEF Words
<1>3. ~ (b.addr > b.addr + b.size - 1) /\ (b.addr + b.size - 1) - b.addr + 1 = b.size
  BY <1>1
<1> QED BY <1>1, <1>2, <1>3, FS_Interval

\* A free list and a set of blocks in use that allocate() can be called on.
Tiled(free, objs) ==
    /\ free \subseteq Block
    /\ objs \subseteq Block
    /\ DisjointIn(free, objs)
    /\ CoveredTo(PoolEnd, free, objs)

\* One call of allocate(): the new block is cut from the front of a free one, so
\* the pool stays tiled, and the free words lose exactly the new block's words.
LEMMA AllocateOnce ==
    ASSUME NEW free, NEW objs, Tiled(free, objs),
           NEW s \in Nat \ {0}, NEW k \in BestFit(free, s)
    PROVE  /\ Tiled(Taken(free, k, s), objs \cup {Issued(k, s)})
           /\ Issued(k, s) \in Block
           /\ \A o \in objs : Apart(o, Issued(k, s))
           /\ WordsOf(Taken(free, k, s)) = WordsOf(free) \ Words(Issued(k, s))
           /\ Words(Issued(k, s)) \subseteq WordsOf(free)
<1> DEFINE new == Issued(k, s)
           rest == [addr |-> k.addr + s, size |-> k.size - s]
<1>1. /\ k \in free /\ k \in Block /\ k.size >= s
      /\ k.addr \in Nat /\ k.size \in Nat /\ s \in Nat /\ s >= 1
      /\ k.addr >= big_memory_pool /\ k.addr + k.size <= PoolEnd
  BY BlockFacts DEF BestFit, Tiled
<1>2. /\ new \in Block /\ new.addr = k.addr /\ new.size = s
  <2>1. k.addr + s <= PoolEnd
    BY <1>1, PoolEndNat
  <2>2. [addr |-> k.addr, size |-> s] \in Block
    BY <1>1, <2>1, BlockIntro
  <2> QED BY <2>2 DEF Issued
<1>3. k.size # s => /\ rest \in Block
                    /\ rest.addr = k.addr + s /\ rest.size = k.size - s
  <2> SUFFICES ASSUME k.size # s PROVE rest \in Block
    OBVIOUS
  <2>1. /\ k.addr + s \in Int /\ k.size - s \in Int /\ k.size - s >= 1
        /\ k.addr + s >= big_memory_pool
        /\ (k.addr + s) + (k.size - s) <= PoolEnd
    BY <1>1, PoolEndNat, PoolAssumption
  <2> QED BY <2>1, BlockIntro
<1>4. /\ Words(new) \subseteq Words(k)
      /\ k.size # s => /\ Words(rest) = Words(k) \ Words(new)
                       /\ Apart(rest, new)
      /\ k.size = s => Words(new) = Words(k)
  BY <1>1, <1>2, <1>3 DEF Words, Apart
<1> HIDE DEF new, rest
<1>5. Taken(free, k, s) = IF k.size = s THEN free \ {k} ELSE (free \ {k}) \cup {rest}
  BY DEF Taken, rest
<1>6. ASSUME NEW b \in Block, Apart(b, k)
      PROVE  /\ Apart(b, new) /\ Apart(new, b)
             /\ k.size # s => Apart(b, rest) /\ Apart(rest, b)
  BY <1>1, <1>2, <1>3, <1>6, BlockFacts DEF Apart
<1>7. /\ \A b \in free \ {k} : b \in Block /\ Apart(b, k)
      /\ \A o \in objs : o \in Block /\ Apart(o, k)
  BY <1>1, BlockFacts DEF Tiled, DisjointIn, Apart
<1>8. Taken(free, k, s) \subseteq Block /\ objs \cup {new} \subseteq Block
  BY <1>2, <1>3, <1>5 DEF Tiled
<1>9. DisjointIn(Taken(free, k, s), objs \cup {new})
  <2>1. \A a, b \in Taken(free, k, s) : a = b \/ Apart(a, b)
    BY <1>5, <1>6, <1>7 DEF Tiled, DisjointIn
  <2>2. \A a, b \in objs \cup {new} : a = b \/ Apart(a, b)
    BY <1>6, <1>7 DEF Tiled, DisjointIn
  <2>3. \A a \in Taken(free, k, s) : \A o \in objs \cup {new} : Apart(a, o)
    <3> SUFFICES ASSUME NEW a \in Taken(free, k, s), NEW o \in objs \cup {new}
                 PROVE  Apart(a, o)
      OBVIOUS
    <3>1. CASE a \in free \ {k} /\ o \in objs
      BY <3>1 DEF Tiled, DisjointIn
    <3>2. CASE a \in free \ {k} /\ o = new
      BY <3>2, <1>6, <1>7
    <3>3. CASE k.size # s /\ a = rest /\ o \in objs
      BY <3>3, <1>6, <1>7
    <3>4. CASE k.size # s /\ a = rest /\ o = new
      BY <3>4, <1>4
    <3> QED BY <3>1, <3>2, <3>3, <3>4, <1>5
  <2> QED BY <2>1, <2>2, <2>3 DEF DisjointIn
<1>10. CoveredTo(PoolEnd, Taken(free, k, s), objs \cup {new})
  <2> SUFFICES ASSUME NEW w \in big_memory_pool .. PoolEnd - 1
               PROVE  \E b \in Taken(free, k, s) \cup (objs \cup {new}) : w \in Words(b)
    BY DEF CoveredTo
  <2>1. PICK b \in free \cup objs : w \in Words(b)
    BY DEF Tiled, CoveredTo
  <2>2. CASE b = k
    BY <1>4, <1>5, <2>1, <2>2
  <2>3. CASE b # k
    BY <1>5, <2>1, <2>3
  <2> QED BY <2>2, <2>3
<1>11. WordsOf(Taken(free, k, s)) = WordsOf(free) \ Words(new)
  <2>1. \A b \in free \ {k} : Words(b) \cap Words(k) = {}
    BY <1>1, <1>7, ApartWords
  <2>2. WordsOf(free) = WordsOf(free \ {k}) \cup Words(k)
    BY <1>1 DEF WordsOf
  <2>3. WordsOf(free \ {k}) \cap Words(k) = {}
    BY <2>1 DEF WordsOf
  <2>4. CASE k.size = s
    BY <1>4, <1>5, <2>2, <2>3, <2>4
  <2>5. CASE k.size # s
    <3>1. WordsOf(Taken(free, k, s)) = WordsOf(free \ {k}) \cup Words(rest)
      BY <1>5, <2>5 DEF WordsOf
    <3> QED BY <1>4, <2>2, <2>3, <2>5, <3>1
  <2> QED BY <2>4, <2>5
<1>12. Words(new) \subseteq WordsOf(free)
  BY <1>1, <1>4 DEF WordsOf
<1>13. \A o \in objs : Apart(o, new)
  BY <1>6, <1>7
<1> QED BY <1>2, <1>8, <1>9, <1>10, <1>11, <1>12, <1>13 DEF Tiled, new

\* The number of free words falls by the size asked for.
LEMMA AllocateCount ==
    ASSUME NEW free, NEW objs, Tiled(free, objs),
           NEW s \in Nat \ {0}, NEW k \in BestFit(free, s)
    PROVE  Cardinality(WordsOf(Taken(free, k, s))) = Cardinality(WordsOf(free)) - s
<1>1. /\ WordsOf(Taken(free, k, s)) = WordsOf(free) \ Words(Issued(k, s))
      /\ Words(Issued(k, s)) \subseteq WordsOf(free)
      /\ Issued(k, s) \in Block
  BY AllocateOnce
<1>2. IsFiniteSet(WordsOf(free))
  BY WordsOfFinite DEF Tiled
<1>3. Cardinality(Words(Issued(k, s))) = s
  BY <1>1, WordsCount DEF Issued
<1>4. WordsOf(free) \cap Words(Issued(k, s)) = Words(Issued(k, s))
  BY <1>1
<1>5. Cardinality(WordsOf(free) \ Words(Issued(k, s)))
        = Cardinality(WordsOf(free)) - Cardinality(WordsOf(free) \cap Words(Issued(k, s)))
  BY <1>2, FS_Difference
<1> QED BY <1>1, <1>3, <1>4, <1>5

\* In a tiled pool the free words are those of no block in use.
LEMMA TiledFree ==
    ASSUME NEW free, NEW objs, Tiled(free, objs)
    PROVE  WordsOf(free) = (big_memory_pool .. PoolEnd - 1) \ WordsOf(objs)
<1> DEFINE pool == big_memory_pool .. PoolEnd - 1
<1>1. WordsOf(free) \subseteq pool
  BY WordsOfFinite DEF Tiled
<1>2. \A f \in free, o \in objs : Words(f) \cap Words(o) = {}
  BY ApartWords DEF Tiled, DisjointIn
<1>3. pool \subseteq WordsOf(free) \cup WordsOf(objs)
  BY DEF Tiled, CoveredTo, WordsOf
<1> QED BY <1>1, <1>2, <1>3 DEF WordsOf

\* While the program runs, the invariant says that the pool is tiled.
LEMMA ProgramTiled == ASSUME HeapInv, phase = "program" PROVE Tiled(free_memory, objects)
BY DEF HeapInv, TypeOK, NoOverlap, NoWordLost, Tiled, DisjointIn, CoveredTo

-----------------------------------------------------------------------------
(* The steps *)

\* At the start the whole pool is one free block.
LEMMA InitInv == ASSUME HeapInit PROVE HeapInv
<1> DEFINE all == [addr |-> big_memory_pool, size |-> pool_size]
<1>1. /\ all \in Block
      /\ all.addr = big_memory_pool /\ all.size = pool_size
  BY BlockIntro, PoolAssumption DEF PoolEnd
<1> HIDE DEF all
<1>2. /\ free_memory = {all} /\ free_memory_count = pool_size /\ living_objects = {}
      /\ MEMORY_BEING_TRACED = FALSE /\ memory_incrementor = big_memory_pool
      /\ phase = "program" /\ objects = {}
  BY DEF HeapInit, all
<1>3. TypeOK
  <2>1. free_memory_count \in Int /\ memory_incrementor \in Nat
    BY <1>2, PoolAssumption
  <2> QED BY <1>1, <1>2, <2>1 DEF TypeOK
<1>4. NoOverlap
  BY <1>2 DEF NoOverlap
<1>5. NoWordLost
  <2>1. Words(all) = big_memory_pool .. PoolEnd - 1
    <3>1. all.addr + all.size - 1 = PoolEnd - 1
      BY <1>1, PoolAssumption DEF PoolEnd
    <3> QED BY <1>1, <3>1 DEF Words
  <2> QED BY <1>2, <2>1 DEF NoWordLost
<1>6. CountInv
  <2>1. WordsOf(free_memory) = Words(all)
    BY <1>2 DEF WordsOf
  <2> QED BY <1>1, <1>2, <2>1, WordsCount DEF CountInv
<1> QED BY <1>2, <1>3, <1>4, <1>5, <1>6 DEF HeapInv, CursorInPool, MarksInv, SweepInv

\* What an operation of the program leaves behind, however it allocated.
LEMMA ProgramStep ==
    ASSUME HeapInv, phase = "program", phase' = "program",
           Tiled(free_memory', objects'),
           free_memory_count' = Cardinality(WordsOf(free_memory')),
           living_objects' = living_objects,
           MEMORY_BEING_TRACED' = MEMORY_BEING_TRACED,
           memory_incrementor' = memory_incrementor
    PROVE  HeapInv'
<1>1. living_objects' = {} /\ living_objects' \subseteq objects'
  BY DEF HeapInv, MarksInv
<1>2. free_memory_count' \in Nat
  BY WordsOfFinite DEF Tiled
<1>3. TypeOK'
  BY <1>1, <1>2 DEF HeapInv, TypeOK, Tiled
<1>4. NoOverlap' /\ NoWordLost'
  BY DEF Tiled, DisjointIn, CoveredTo, NoOverlap, NoWordLost
<1> QED BY <1>1, <1>3, <1>4 DEF HeapInv, CursorInPool, MarksInv, SweepInv, CountInv

\* An operation that calls allocate() once preserves the invariant.
LEMMA AllocateOneStep ==
    ASSUME HeapInv, NEW size \in Requests, AllocateOne(size)
    PROVE  HeapInv'
<1>1. PICK k \in BestFit(free_memory, size) : AllocateAt(size, k)
  BY DEF AllocateOne
<1>2. size \in Nat \ {0} /\ phase = "program" /\ Tiled(free_memory, objects)
  BY <1>1, RequestAssumption, ProgramTiled DEF AllocateAt
<1>3. Tiled(Taken(free_memory, k, size), objects \cup {Issued(k, size)})
  BY <1>2, AllocateOnce
<1>4. Cardinality(WordsOf(Taken(free_memory, k, size)))
        = Cardinality(WordsOf(free_memory)) - size
  BY <1>2, AllocateCount
<1>5. free_memory_count = Cardinality(WordsOf(free_memory))
  BY <1>2 DEF HeapInv, CountInv
<1> QED BY <1>1, <1>2, <1>3, <1>4, <1>5, ProgramStep DEF AllocateAt

\* So does one that calls it twice: the second call is made on the free list and
\* the blocks in use that the first leaves.
LEMMA AllocateTwoStep ==
    ASSUME HeapInv, NEW first \in Requests, NEW second \in Requests,
           AllocateTwo(first, second)
    PROVE  HeapInv'
<1>1. PICK k \in BestFit(free_memory, first) :
        \E l \in BestFit(Taken(free_memory, k, first), second) :
            AllocateTwoAt(first, k, second, l)
  BY DEF AllocateTwo
<1> DEFINE free == Taken(free_memory, k, first)
           objs == objects \cup {Issued(k, first)}
<1>2. PICK l \in BestFit(free, second) : AllocateTwoAt(first, k, second, l)
  BY <1>1
<1>3. /\ first \in Nat \ {0} /\ second \in Nat \ {0}
      /\ phase = "program" /\ Tiled(free_memory, objects)
  BY <1>2, RequestAssumption, ProgramTiled DEF AllocateTwoAt
<1>4. Tiled(free, objs)
  BY <1>3, AllocateOnce
<1>5. Tiled(Taken(free, l, second), objs \cup {Issued(l, second)})
  BY <1>3, <1>4, AllocateOnce
<1>6. objs \cup {Issued(l, second)} = objects \cup {Issued(k, first), Issued(l, second)}
  OBVIOUS
<1>7. Cardinality(WordsOf(free)) = Cardinality(WordsOf(free_memory)) - first
  BY <1>3, AllocateCount
<1>8. Cardinality(WordsOf(Taken(free, l, second))) = Cardinality(WordsOf(free)) - second
  BY <1>3, <1>4, AllocateCount
<1>9. free_memory_count = Cardinality(WordsOf(free_memory))
  BY <1>3 DEF HeapInv, CountInv
<1>10. free_memory_count' = Cardinality(WordsOf(free_memory'))
  BY <1>2, <1>7, <1>8, <1>9 DEF AllocateTwoAt
<1> QED BY <1>2, <1>3, <1>5, <1>6, <1>10, ProgramStep DEF AllocateTwoAt

\* Nothing of the program's view changes when the process aborts.
LEMMA AbortStep == ASSUME HeapInv, phase = "program", Abort PROVE HeapInv'
<1>1. UNCHANGED <<free_memory, free_memory_count, living_objects,
                  MEMORY_BEING_TRACED, memory_incrementor, objects>> /\ phase' = "aborted"
  BY DEF Abort
<1>2. TypeOK' /\ NoOverlap' /\ NoWordLost' /\ MarksInv'
  BY <1>1 DEF HeapInv, TypeOK, NoOverlap, NoWordLost, MarksInv
<1> QED BY <1>1, <1>2 DEF HeapInv, CursorInPool, SweepInv, CountInv

\* start_GC resets the count; nothing is marked yet, so it is the count of the trace.
LEMMA StartStep == ASSUME HeapInv, start_GC PROVE HeapInv'
<1>1. TypeOK' /\ NoOverlap' /\ NoWordLost' /\ MarksInv'
  BY PoolAssumption DEF HeapInv, TypeOK, NoOverlap, NoWordLost, MarksInv, start_GC
<1>2. CountInv'
  <2>1. WordsOf(living_objects') = {}
    BY DEF start_GC, WordsOf
  <2> QED BY <2>1, FS_EmptySet, PoolAssumption DEF start_GC, CountInv
<1> QED BY <1>1, <1>2 DEF HeapInv, CursorInPool, SweepInv, start_GC

\* A first visit marks a block apart from those already marked.
LEMMA FoundStep ==
    ASSUME HeapInv, NEW o \in objects, found_living_object(o.addr, o.size)
    PROVE  HeapInv'
<1>1. /\ phase = "trace" /\ phase' = "trace"
      /\ UNCHANGED <<free_memory, MEMORY_BEING_TRACED, memory_incrementor, objects>>
  BY DEF found_living_object
<1>2. CASE \E l \in living_objects : l.addr = o.addr
  <2>1. UNCHANGED <<living_objects, free_memory_count>>
    BY <1>2 DEF found_living_object
  <2> QED BY <1>1, <2>1 DEF HeapInv, TypeOK, NoOverlap, NoWordLost, CursorInPool,
                            MarksInv, SweepInv, CountInv
<1>3. CASE ~ \E l \in living_objects : l.addr = o.addr
  <2>1. o \in Block /\ o = [addr |-> o.addr, size |-> o.size] /\ o.size \in Nat
    BY BlockFacts DEF HeapInv, TypeOK
  <2>2. /\ living_objects' = living_objects \cup {o}
        /\ free_memory_count' = free_memory_count - o.size
    BY <1>3, <2>1 DEF found_living_object
  <2>3. TypeOK' /\ NoOverlap' /\ NoWordLost' /\ MarksInv'
    BY <1>1, <2>1, <2>2 DEF HeapInv, TypeOK, NoOverlap, NoWordLost, MarksInv
  <2>4. CountInv'
    <3>1. \A l \in living_objects : Words(l) \cap Words(o) = {}
      <4> TAKE l \in living_objects
      <4>1. l \in objects /\ l \in Block /\ l # o
        BY <1>3 DEF HeapInv, MarksInv, TypeOK
      <4>2. Apart(l, o)
        BY <4>1 DEF HeapInv, NoOverlap
      <4> QED BY <2>1, <4>1, <4>2, ApartWords
    <3>2. /\ WordsOf(living_objects') = WordsOf(living_objects) \cup Words(o)
          /\ WordsOf(living_objects) \cap Words(o) = {}
      BY <2>2, <3>1 DEF WordsOf
    <3>3. /\ IsFiniteSet(WordsOf(living_objects))
          /\ Cardinality(WordsOf(living_objects)) \in Nat
      BY WordsOfFinite DEF HeapInv, TypeOK
    <3>4. IsFiniteSet(Words(o)) /\ Cardinality(Words(o)) = o.size
      BY <2>1, WordsCount
    <3>5. Cardinality(WordsOf(living_objects) \cup Words(o))
            = Cardinality(WordsOf(living_objects)) + Cardinality(Words(o))
                - Cardinality(WordsOf(living_objects) \cap Words(o))
      BY <3>3, <3>4, FS_Union
    <3>6. Cardinality(WordsOf(living_objects'))
            = Cardinality(WordsOf(living_objects)) + o.size
      <4>1. Cardinality(WordsOf(living_objects) \cap Words(o)) = 0
        BY <3>2, FS_EmptySet
      <4>2. Cardinality(WordsOf(living_objects'))
              = Cardinality(WordsOf(living_objects) \cup Words(o))
        BY <3>2
      <4> QED BY <2>1, <3>3, <3>4, <3>5, <4>1, <4>2
    <3>7. free_memory_count = pool_size - Cardinality(WordsOf(living_objects))
      BY <1>1 DEF HeapInv, CountInv
    <3> QED BY <1>1, <2>1, <2>2, <3>3, <3>6, <3>7, PoolAssumption DEF CountInv
  <2> QED BY <1>1, <2>3, <2>4 DEF HeapInv, CursorInPool, SweepInv
<1> QED BY <1>2, <1>3

\* Blocks in use that are apart start at different addresses, so the sweep keeps
\* exactly the marked ones.
LEMMA BeginSweepStep == ASSUME HeapInv, BeginSweep PROVE HeapInv'
<1>1. /\ phase = "trace" /\ phase' = "sweep" /\ free_memory' = {}
      /\ memory_incrementor' = big_memory_pool
      /\ objects' = {o \in objects : \E l \in living_objects : l.addr = o.addr}
      /\ UNCHANGED <<free_memory_count, living_objects, MEMORY_BEING_TRACED>>
  BY DEF BeginSweep
<1>2. living_objects \subseteq objects /\ objects \subseteq Block
  BY DEF HeapInv, MarksInv, TypeOK
<1>3. \A o \in objects, l \in living_objects : l.addr = o.addr => l = o
  <2> SUFFICES ASSUME NEW o \in objects, NEW l \in objects, l.addr = o.addr, l # o
               PROVE  FALSE
    BY <1>2
  <2>1. Apart(l, o)
    BY DEF HeapInv, NoOverlap
  <2> QED BY <1>2, <2>1, BlockFacts DEF Apart
<1>4. objects' = living_objects
  BY <1>1, <1>2, <1>3
<1>5. TypeOK' /\ NoOverlap' /\ NoWordLost' /\ MarksInv' /\ CursorInPool'
  BY <1>1, <1>2, <1>4, PoolAssumption, PoolEndNat
     DEF HeapInv, TypeOK, NoOverlap, NoWordLost, MarksInv, CursorInPool
<1>6. SweepInv'
  <2>1. \A l \in living_objects : l.addr >= big_memory_pool
    BY <1>2, BlockFacts
  <2>2. CoveredTo(big_memory_pool, {}, objects')
    BY PoolAssumption DEF CoveredTo
  <2> QED BY <1>1, <1>4, <2>1, <2>2 DEF SweepInv
<1>7. CountInv'
  BY <1>1 DEF HeapInv, CountInv
<1> QED BY <1>5, <1>6, <1>7 DEF HeapInv

\* One turn of the sweep: the gap between the cursor and the next marked object
\* is apart from everything, and the cursor ends up behind that object.
LEMMA SweepGapStep == ASSUME HeapInv, SweepGap PROVE HeapInv'
<1>1. PICK l \in NextLiving :
        /\ free_memory' =
              IF l.addr = memory_incrementor
              THEN free_memory
              ELSE free_memory \cup {[addr |-> memory_incrementor,
                                      size |-> l.addr - memory_incrementor]}
        /\ memory_incrementor' = l.addr + l.size
  BY DEF SweepGap
<1>2. /\ phase = "sweep" /\ phase' = "sweep"
      /\ UNCHANGED <<free_memory_count, living_objects, MEMORY_BEING_TRACED, objects>>
  BY DEF SweepGap
<1> DEFINE cur == memory_incrementor
           gap == [addr |-> cur, size |-> l.addr - cur]
<1>3. /\ l \in living_objects /\ l \in Block /\ l.addr >= cur
      /\ \A m \in living_objects : m.addr >= cur => l.addr <= m.addr
  BY DEF NextLiving, AtOrAfterCursor, HeapInv, TypeOK
<1>4. /\ l.addr \in Nat /\ l.size \in Nat /\ l.size >= 1
      /\ l.addr >= big_memory_pool /\ l.addr + l.size <= PoolEnd
      /\ cur \in Nat /\ cur >= big_memory_pool
      /\ big_memory_pool \in Nat /\ PoolEnd \in Nat
  BY <1>2, <1>3, BlockFacts, PoolAssumption, PoolEndNat DEF HeapInv, CursorInPool
<1>5. /\ objects = living_objects /\ objects \subseteq Block /\ free_memory \subseteq Block
      /\ \A m \in living_objects : m.addr >= cur \/ m.addr + m.size <= cur
      /\ \A f \in free_memory : f.addr + f.size < cur
      /\ \A a, b \in free_memory : a.addr + a.size # b.addr
      /\ CoveredTo(cur, free_memory, objects)
  BY <1>2 DEF HeapInv, SweepInv, TypeOK
<1>6. l.addr # cur =>
        /\ gap \in Block /\ gap.addr = cur /\ gap.size = l.addr - cur
        /\ Words(gap) = cur .. l.addr - 1
  <2> SUFFICES ASSUME l.addr # cur PROVE gap \in Block /\ Words(gap) = cur .. l.addr - 1
    OBVIOUS
  <2>1. l.addr - cur \in Int /\ l.addr - cur >= 1 /\ cur + (l.addr - cur) <= PoolEnd
    BY <1>3, <1>4
  <2>2. cur + (l.addr - cur) - 1 = l.addr - 1
    BY <1>4
  <2> QED BY <1>4, <2>1, <2>2, BlockIntro DEF Words
<1>7. free_memory' = IF l.addr = cur THEN free_memory ELSE free_memory \cup {gap}
  BY <1>1
<1> HIDE DEF gap
<1>8. TypeOK'
  BY <1>1, <1>2, <1>4, <1>5, <1>6, <1>7 DEF HeapInv, TypeOK
<1>9. \A m \in living_objects : m = l \/ m.addr >= l.addr + l.size \/ m.addr + m.size <= cur
  <2> SUFFICES ASSUME NEW m \in living_objects, m # l, m.addr >= cur
               PROVE  m.addr >= l.addr + l.size
    BY <1>5
  <2>1. Apart(l, m) /\ m \in Block
    BY <1>3, <1>5 DEF HeapInv, NoOverlap
  <2> QED BY <1>3, <1>4, <2>1, BlockFacts DEF Apart
<1>10. NoOverlap'
  <2>1. ASSUME l.addr # cur
        PROVE  /\ \A f \in free_memory : Apart(f, gap) /\ Apart(gap, f)
               /\ \A o \in objects : Apart(gap, o)
    <3>1. \A f \in free_memory : Apart(f, gap) /\ Apart(gap, f)
      BY <1>4, <1>5, <1>6, <2>1, BlockFacts DEF Apart
    <3>2. \A o \in objects : Apart(gap, o)
      <4> TAKE o \in objects
      <4>1. o \in living_objects /\ o.addr \in Nat /\ o.size \in Nat
        BY <1>5, BlockFacts
      <4>2. gap.addr + gap.size = l.addr
        BY <1>4, <1>6, <2>1
      <4>3. o.addr >= l.addr \/ o.addr + o.size <= cur
        BY <1>4, <1>9, <4>1
      <4> QED BY <1>6, <2>1, <4>2, <4>3 DEF Apart
    <3> QED BY <3>1, <3>2
  <2> QED BY <1>2, <1>7, <2>1 DEF HeapInv, NoOverlap
<1>11. SweepInv'
  <2>1. \A m \in living_objects :
          m.addr >= l.addr + l.size \/ m.addr + m.size <= l.addr + l.size
    <3> TAKE m \in living_objects
    <3>1. m.addr \in Nat /\ m.size \in Nat
      BY <1>5, BlockFacts
    <3> QED BY <1>3, <1>4, <1>9, <3>1
  <2>2. /\ \A f \in free_memory' : f.addr + f.size < l.addr + l.size
        /\ \A a, b \in free_memory' : a.addr + a.size # b.addr
    <3>1. \A f \in free_memory : f.addr \in Nat /\ f.size \in Nat /\ f.size >= 1
      BY <1>5, BlockFacts
    <3>2. CASE l.addr = cur
      BY <1>3, <1>4, <1>5, <1>7, <3>1, <3>2
    <3>3. CASE l.addr # cur
      <4>1. /\ gap.addr = cur /\ gap.addr + gap.size = l.addr
            /\ free_memory' = free_memory \cup {gap}
        BY <1>4, <1>6, <1>7, <3>3
      <4> QED BY <1>3, <1>4, <1>5, <3>1, <3>3, <4>1
    <3> QED BY <3>2, <3>3
  <2>3. CoveredTo(l.addr + l.size, free_memory', objects)
    <3> SUFFICES ASSUME NEW w \in big_memory_pool .. (l.addr + l.size) - 1
                 PROVE  \E b \in free_memory' \cup objects : w \in Words(b)
      BY DEF CoveredTo
    <3>1. CASE w < cur
      <4>1. w \in big_memory_pool .. cur - 1
        BY <1>4, <3>1
      <4>2. PICK b \in free_memory \cup objects : w \in Words(b)
        BY <1>5, <4>1 DEF CoveredTo
      <4> QED BY <1>7, <4>2
    <3>2. CASE cur <= w /\ w < l.addr
      <4>1. l.addr # cur /\ w \in cur .. l.addr - 1
        BY <1>4, <3>2
      <4> QED BY <1>6, <1>7, <4>1
    <3>3. CASE l.addr <= w
      <4>1. w \in Words(l)
        BY <1>4, <3>3 DEF Words
      <4> QED BY <1>3, <1>5, <4>1
    <3> QED BY <1>4, <3>1, <3>2, <3>3
  <2> QED BY <1>1, <1>2, <1>5, <2>1, <2>2, <2>3 DEF SweepInv
<1>12. CursorInPool' /\ NoWordLost' /\ MarksInv' /\ CountInv'
  BY <1>1, <1>2, <1>4 DEF HeapInv, CursorInPool, NoWordLost, MarksInv, CountInv
<1> QED BY <1>8, <1>10, <1>11, <1>12 DEF HeapInv

\* The end of the sweep: the last gap closes the tiling, and the free words are
\* the words of the pool that were not marked.
LEMMA SweepEndStep == ASSUME HeapInv, SweepEnd PROVE HeapInv'
<1> DEFINE cur == memory_incrementor
           gap == [addr |-> cur, size |-> PoolEnd - cur]
<1>1. /\ phase = "sweep" /\ phase' = "program" /\ AtOrAfterCursor = {}
      /\ living_objects' = {} /\ MEMORY_BEING_TRACED' = FALSE
      /\ UNCHANGED <<free_memory_count, memory_incrementor, objects>>
      /\ free_memory' = IF cur = PoolEnd THEN free_memory ELSE free_memory \cup {gap}
  BY DEF SweepEnd
<1>2. /\ objects = living_objects /\ objects \subseteq Block /\ free_memory \subseteq Block
      /\ \A m \in living_objects : m.addr + m.size <= cur
      /\ \A f \in free_memory : f.addr + f.size < cur
      /\ \A a, b \in free_memory : a.addr + a.size # b.addr
      /\ CoveredTo(cur, free_memory, objects)
  BY <1>1 DEF HeapInv, SweepInv, TypeOK, AtOrAfterCursor
<1>3. /\ cur \in Nat /\ cur >= big_memory_pool /\ cur <= PoolEnd
      /\ big_memory_pool \in Nat /\ PoolEnd \in Nat
  BY <1>1, PoolAssumption, PoolEndNat DEF HeapInv, CursorInPool
<1>4. cur # PoolEnd =>
        /\ gap \in Block /\ gap.addr = cur /\ gap.size = PoolEnd - cur
        /\ Words(gap) = cur .. PoolEnd - 1
  <2> SUFFICES ASSUME cur # PoolEnd PROVE gap \in Block /\ Words(gap) = cur .. PoolEnd - 1
    OBVIOUS
  <2>1. PoolEnd - cur \in Int /\ PoolEnd - cur >= 1 /\ cur + (PoolEnd - cur) <= PoolEnd
    BY <1>3
  <2>2. cur + (PoolEnd - cur) - 1 = PoolEnd - 1
    BY <1>3
  <2> QED BY <1>3, <2>1, <2>2, BlockIntro DEF Words
<1> HIDE DEF gap
<1>5. free_memory' \subseteq Block
  BY <1>1, <1>2, <1>4
<1>6. DisjointIn(free_memory', objects')
  <2>1. ASSUME cur # PoolEnd
        PROVE  /\ \A f \in free_memory : Apart(f, gap) /\ Apart(gap, f)
               /\ \A o \in objects : Apart(gap, o)
    <3>1. \A f \in free_memory : Apart(f, gap) /\ Apart(gap, f)
      BY <1>2, <1>3, <1>4, <2>1, BlockFacts DEF Apart
    <3>2. \A o \in objects : Apart(gap, o)
      BY <1>2, <1>3, <1>4, <2>1, BlockFacts DEF Apart
    <3> QED BY <3>1, <3>2
  <2> QED BY <1>1, <2>1 DEF HeapInv, NoOverlap, DisjointIn
<1>7. CoveredTo(PoolEnd, free_memory', objects')
  <2> SUFFICES ASSUME NEW w \in big_memory_pool .. PoolEnd - 1
               PROVE  \E b \in free_memory' \cup objects' : w \in Words(b)
    BY DEF CoveredTo
  <2>1. CASE w < cur
    <3>1. w \in big_memory_pool .. cur - 1
      BY <1>3, <2>1
    <3>2. PICK b \in free_memory \cup objects : w \in Words(b)
      BY <1>2, <3>1 DEF CoveredTo
    <3> QED BY <1>1, <3>2
  <2>2. CASE cur <= w
    <3>1. cur # PoolEnd /\ w \in cur .. PoolEnd - 1
      BY <1>3, <2>2
    <3> QED BY <1>1, <1>4, <3>1
  <2> QED BY <1>3, <2>1, <2>2
<1>8. Tiled(free_memory', objects')
  BY <1>1, <1>2, <1>5, <1>6, <1>7 DEF Tiled
<1>9. free_memory_count' = Cardinality(WordsOf(free_memory'))
  <2> DEFINE pool == big_memory_pool .. PoolEnd - 1
  <2>1. WordsOf(free_memory') = pool \ WordsOf(objects')
    BY <1>8, TiledFree
  <2>2. IsFiniteSet(pool) /\ Cardinality(pool) = pool_size
    <3>1. big_memory_pool \in Int /\ PoolEnd - 1 \in Int
          /\ ~ (big_memory_pool > PoolEnd - 1)
          /\ (PoolEnd - 1) - big_memory_pool + 1 = pool_size
      BY PoolAssumption DEF PoolEnd
    <3> QED BY <3>1, FS_Interval
  <2>3. pool \cap WordsOf(objects') = WordsOf(objects')
    BY <1>1, <1>2, WordsOfFinite
  <2>4. Cardinality(pool \ WordsOf(objects'))
          = Cardinality(pool) - Cardinality(pool \cap WordsOf(objects'))
    BY <2>2, FS_Difference
  <2>5. free_memory_count = pool_size - Cardinality(WordsOf(living_objects))
    BY <1>1 DEF HeapInv, CountInv
  <2> QED BY <1>1, <1>2, <2>1, <2>2, <2>3, <2>4, <2>5
<1>10. TypeOK' /\ NoOverlap' /\ NoWordLost'
  <2>1. free_memory_count' \in Nat
    BY <1>5, <1>9, WordsOfFinite
  <2> QED BY <1>1, <1>8, <2>1
          DEF HeapInv, TypeOK, Tiled, DisjointIn, CoveredTo, NoOverlap, NoWordLost
<1> QED BY <1>1, <1>9, <1>10 DEF HeapInv, CursorInPool, MarksInv, SweepInv, CountInv

\* Every step preserves the invariant.
LEMMA NextInv == ASSUME HeapInv, [HeapNext]_heapVars PROVE HeapInv'
<1>1. CASE UNCHANGED heapVars
  BY <1>1 DEF heapVars, HeapInv, TypeOK, NoOverlap, NoWordLost, CursorInPool,
              MarksInv, SweepInv, CountInv, AtOrAfterCursor
<1>2. ASSUME NEW size \in Requests, AllocateOne(size) PROVE HeapInv'
  BY <1>2, AllocateOneStep
<1>3. ASSUME NEW size \in Requests, OutOfMemory(size) PROVE HeapInv'
  BY <1>3, AbortStep DEF OutOfMemory
<1>4. ASSUME NEW first \in Requests, NEW second \in Requests, AllocateTwo(first, second)
      PROVE  HeapInv'
  BY <1>4, AllocateTwoStep
<1>5. ASSUME NEW first \in Requests, NEW second \in Requests, OutOfMemoryTwo(first, second)
      PROVE  HeapInv'
  BY <1>5, AbortStep DEF OutOfMemoryTwo
<1>6. CASE FailElsewhere
  BY <1>6, AbortStep DEF FailElsewhere
<1>7. CASE start_GC
  BY <1>7, StartStep
<1>8. ASSUME NEW o \in objects, found_living_object(o.addr, o.size) PROVE HeapInv'
  BY <1>8, FoundStep
<1>9. CASE BeginSweep
  BY <1>9, BeginSweepStep
<1>10. CASE SweepGap
  BY <1>10, SweepGapStep
<1>11. CASE SweepEnd
  BY <1>11, SweepEndStep
<1> QED
  BY <1>1, <1>2, <1>3, <1>4, <1>5, <1>6, <1>7, <1>8, <1>9, <1>10, <1>11 DEF HeapNext

-----------------------------------------------------------------------------
(* The theorems *)

\* The inductive invariant holds in every state of every execution.
THEOREM Invariance == HeapSpec => []HeapInv
<1>1. HeapInit => HeapInv
  BY InitInv
<1>2. HeapInv /\ [HeapNext]_heapVars => HeapInv'
  BY NextInv
<1> QED BY <1>1, <1>2, PTL DEF HeapSpec

\* Type correctness: free blocks, marks and blocks in use stay inside the pool.
THEOREM TypeCorrect == HeapSpec => []TypeOK
<1>1. HeapInv => TypeOK
  BY DEF HeapInv
<1> QED BY <1>1, Invariance, PTL

\* No word of the pool is ever in two blocks: allocate() (memory.cpp:46-93) never
\* hands out memory that is in use, and the sweep never frees any.
THEOREM NoOverlapAlways == HeapSpec => []NoOverlap
<1>1. HeapInv => NoOverlap
  BY DEF HeapInv
<1> QED BY <1>1, Invariance, PTL

\* No word is lost while the program runs (memory.cpp:381-404 finds every gap).
THEOREM NoWordLostAlways == HeapSpec => []NoWordLost
<1>1. HeapInv => NoWordLost
  BY DEF HeapInv
<1> QED BY <1>1, Invariance, PTL

\* free_memory_count agrees with the free list whenever the event loop looks at it
\* (testdriver.cpp:678).
THEOREM CountAlways == HeapSpec => []CountIsFreeWords
<1>1. HeapInv => CountIsFreeWords
  BY DEF HeapInv, CountInv, CountIsFreeWords, WordsOf
<1> QED BY <1>1, Invariance, PTL

\* The sweep's cursor stays in the pool (the check of memory.cpp:405).
THEOREM CursorAlways == HeapSpec => []CursorInPool
<1>1. HeapInv => CursorInPool
  BY DEF HeapInv
<1> QED BY <1>1, Invariance, PTL

\* After a collection no word of a marked object is free and every other word of
\* the pool is (memory.cpp:364-406).
THEOREM CollectsUnmarkedAlways == HeapSpec => CollectsUnmarked
<1>1. HeapInv /\ [HeapNext]_heapVars =>
        [phase = "sweep" /\ phase' = "program" =>
           UNION {Words(f) : f \in free_memory'} =
               (big_memory_pool .. PoolEnd - 1)
                   \ UNION {Words(l) : l \in living_objects}]_heapVars
  <2> SUFFICES ASSUME HeapInv, HeapNext, phase = "sweep", phase' = "program"
               PROVE  WordsOf(free_memory') =
                        (big_memory_pool .. PoolEnd - 1) \ WordsOf(living_objects)
    BY DEF WordsOf
  <2>1. SweepEnd
    BY DEF HeapNext, AllocateOne, AllocateAt, AllocateTwo, AllocateTwoAt, OutOfMemory,
           OutOfMemoryTwo, FailElsewhere, Abort, start_GC, found_living_object, BeginSweep, SweepGap
  <2>2. HeapInv'
    BY NextInv
  <2>3. Tiled(free_memory', objects')
    BY <2>2 DEF HeapInv, TypeOK, NoOverlap, NoWordLost, Tiled, DisjointIn, CoveredTo
  <2>4. objects' = living_objects
    BY <2>1 DEF SweepEnd, HeapInv, SweepInv
  <2> QED BY <2>3, <2>4, TiledFree
<1> QED BY <1>1, Invariance, PTL DEF HeapSpec, CollectsUnmarked

\* After a collection no two free blocks are neighbours.
THEOREM SweepCoalescesAlways == HeapSpec => SweepCoalesces
<1>1. HeapInv /\ [HeapNext]_heapVars =>
        [phase = "sweep" /\ phase' = "program" =>
           \A a, b \in free_memory' : a.addr + a.size # b.addr]_heapVars
  <2> SUFFICES ASSUME HeapInv, HeapNext, phase = "sweep", phase' = "program",
                      NEW a \in free_memory', NEW b \in free_memory'
               PROVE  a.addr + a.size # b.addr
    OBVIOUS
  <2>1. SweepEnd
    BY DEF HeapNext, AllocateOne, AllocateAt, AllocateTwo, AllocateTwoAt, OutOfMemory,
           OutOfMemoryTwo, FailElsewhere, Abort, start_GC, found_living_object, BeginSweep, SweepGap
  <2> DEFINE last == [addr |-> memory_incrementor, size |-> PoolEnd - memory_incrementor]
  <2>2. /\ \A f \in free_memory : /\ f.addr \in Nat /\ f.size \in Nat /\ f.size >= 1
                                 /\ f.addr + f.size < memory_incrementor
        /\ \A f, g \in free_memory : f.addr + f.size # g.addr
        /\ memory_incrementor \in Nat /\ PoolEnd \in Nat /\ memory_incrementor <= PoolEnd
    BY <2>1, BlockFacts, PoolEndNat DEF HeapInv, TypeOK, SweepInv, SweepEnd
  <2>3. /\ last.addr = memory_incrementor
        /\ last.addr + last.size = PoolEnd
    BY <2>2
  <2> HIDE DEF last
  <2>4. free_memory' = IF memory_incrementor = PoolEnd
                       THEN free_memory ELSE free_memory \cup {last}
    BY <2>1 DEF SweepEnd, last
  <2>5. CASE memory_incrementor = PoolEnd
    BY <2>2, <2>4, <2>5
  <2>6. CASE memory_incrementor # PoolEnd
    <3>1. CASE a = last /\ b = last
      BY <2>2, <2>3, <2>6, <3>1
    <3>2. CASE a = last /\ b \in free_memory
      BY <2>2, <2>3, <2>6, <3>2
    <3>3. CASE a \in free_memory /\ b = last
      BY <2>2, <2>3, <2>6, <3>3
    <3>4. CASE a \in free_memory /\ b \in free_memory
      BY <2>2, <3>4
    <3> QED BY <2>4, <2>6, <3>1, <3>2, <3>3, <3>4
  <2> QED BY <2>5, <2>6
<1> QED BY <1>1, Invariance, PTL DEF HeapSpec, SweepCoalesces

\* The pool implements what its callers are promised: every step obtains one or
\* two fresh blocks, or drops some at a collection, or is invisible to them.
THEOREM Implementation == HeapSpec => ImplementsMemory
<1>1. HeapInit => Memory!Init
  BY DEF HeapInit, Memory!Init
<1>2. HeapInv /\ [HeapNext]_heapVars => [Memory!Next]_objects
  <2> SUFFICES ASSUME HeapInv, [HeapNext]_heapVars
               PROVE  Memory!Next \/ UNCHANGED objects
    OBVIOUS
  <2>1. ASSUME NEW size \in Requests, AllocateOne(size) PROVE Memory!Allocate
    <3>1. PICK k \in BestFit(free_memory, size) : AllocateAt(size, k)
      BY <2>1 DEF AllocateOne
    <3>2. size \in Nat \ {0} /\ Tiled(free_memory, objects)
      BY <3>1, RequestAssumption, ProgramTiled DEF AllocateAt
    <3>3. /\ Issued(k, size) \in Block
          /\ \A o \in objects : Apart(o, Issued(k, size))
      BY <3>2, AllocateOnce
    <3> QED BY <3>1, <3>3
            DEF AllocateAt, Memory!Allocate, Memory!Block, Memory!Apart,
                Memory!PoolEnd, Block, Apart, PoolEnd
  <2>2. ASSUME NEW first \in Requests, NEW second \in Requests, AllocateTwo(first, second)
        PROVE  Memory!Allocate
    <3>1. PICK k \in BestFit(free_memory, first) :
            \E l \in BestFit(Taken(free_memory, k, first), second) :
                AllocateTwoAt(first, k, second, l)
      BY <2>2 DEF AllocateTwo
    <3> DEFINE free == Taken(free_memory, k, first)
               a == Issued(k, first)
    <3>2. PICK l \in BestFit(free, second) : AllocateTwoAt(first, k, second, l)
      BY <3>1
    <3> DEFINE b == Issued(l, second)
    <3>3. /\ first \in Nat \ {0} /\ second \in Nat \ {0} /\ Tiled(free_memory, objects)
      BY <3>2, RequestAssumption, ProgramTiled DEF AllocateTwoAt
    <3>4. /\ Tiled(free, objects \cup {a}) /\ a \in Block
          /\ \A o \in objects : Apart(o, a)
      BY <3>3, AllocateOnce
    <3>5. b \in Block /\ \A o \in objects \cup {a} : Apart(o, b)
      BY <3>3, <3>4, AllocateOnce
    <3>6. objects' = objects \cup {a, b}
      BY <3>2 DEF AllocateTwoAt
    <3> HIDE DEF a, b
    <3> QED BY <3>4, <3>5, <3>6
            DEF Memory!Allocate, Memory!Block, Memory!Apart,
                Memory!PoolEnd, Block, Apart, PoolEnd
  <2>3. ASSUME BeginSweep PROVE Memory!Collect
    <3>1. objects' = {o \in objects : \E l \in living_objects : l.addr = o.addr}
      BY <2>3 DEF BeginSweep
    <3>2. objects' = objects \ (objects \ objects')
      BY <3>1
    <3> QED BY <3>2 DEF Memory!Collect
  <2>4. ASSUME NEW size \in Requests, OutOfMemory(size) PROVE UNCHANGED objects
    BY <2>4 DEF OutOfMemory, Abort
  <2>5. ASSUME NEW first \in Requests, NEW second \in Requests, OutOfMemoryTwo(first, second)
        PROVE  UNCHANGED objects
    BY <2>5 DEF OutOfMemoryTwo, Abort
  <2>6. ASSUME start_GC \/ SweepGap \/ SweepEnd PROVE UNCHANGED objects
    BY <2>6 DEF start_GC, SweepGap, SweepEnd
  <2>7. ASSUME NEW o \in objects, found_living_object(o.addr, o.size)
        PROVE  UNCHANGED objects
    BY <2>7 DEF found_living_object
  <2>8. CASE UNCHANGED heapVars
    BY <2>8 DEF heapVars
  <2>9. CASE FailElsewhere
    BY <2>9 DEF FailElsewhere, Abort
  <2> QED BY <2>1, <2>2, <2>3, <2>4, <2>5, <2>6, <2>7, <2>8, <2>9 DEF HeapNext, Memory!Next
<1> QED BY <1>1, <1>2, Invariance, PTL DEF HeapSpec, ImplementsMemory, Memory!Spec
=============================================================================
