--------------------------- MODULE CollectorProofs ---------------------------
(***************************************************************************)
(* Theorems about module Collector, for every pool, every size of the      *)
(* function pool, every kind of AST and every type that programs may make. *)
(*                                                                         *)
(* CollectorInv says of each phase what its steps need: a World while the  *)
(* program runs; a shape with the roots, least among them, and the         *)
(* invariant of the trace while it traces; that everything in it is marked *)
(* while it sweeps. The trace ends with an empty stack, where its invariant*)
(* says that the marks are closed; the shape is the least closed one; so   *)
(* the marks are the shape, and the sweep gives the program its world back.*)
(***************************************************************************)
EXTENDS CollectorTrace

------------------------------------------------------------------------------
(* The sweep *)

\* All that the roots reach has been marked, with its size, and nothing else.
SweepWorld(G, rk) ==
    /\ Shape(G, rk) /\ AllOnMenu(G) /\ Guarded(G) /\ TypesApart(G) /\ Tabled(G) /\ Minimal(G)
    /\ RootRefs \subseteq G /\ copier = NoCopy /\ held = {}
    /\ living_objects = {BlockOf(r) : r \in {q \in G : Solid(q)}}
    /\ Flagged(sweep_function_pool_flags) = {f \in Slots : Ref(f, function_pointer) \in G}

\* What holds while sweeping.
SweepingInv == HeapInv /\ Typings /\ phase = "sweep" /\ \E G, rk : SweepWorld(G, rk)

\* All of G has been found.
AllFound(G, L, F) == \A r \in G : Leading(r) => Marked(L, F, r)

\* When there is nothing left to do, all types above have been found.
LEMMA TypesFound ==
    ASSUME NEW G, NEW rk, Typed, Shape(G, rk), NEW L, NEW F, NEW T, Traced(G, rk, L, F, T, <<>>),
           NEW r \in G, Found(L, F, r), IsHeapType(r.type)
    PROVE  Handled(L, F, <<>>, Ref(r.type, type_pointer))
<1>1. \A q : ~ OnStack(<<>>, q)
  BY DEF OnStack
<1>2. \A q : Handled(L, F, <<>>, q) /\ Leading(q) => Marked(L, F, q)
  BY <1>1 DEF Handled
<1>3. PICK S : S = {u \in HeapTypes(G) : Marked(L, F, Ref(u, type_pointer))}
  OBVIOUS
<1>4. ASSUME NEW u \in HeapTypes(G)
      PROVE  /\ Ref(u, type_pointer) \in G /\ Leading(Ref(u, type_pointer)) /\ Leads(Ref(u, type_pointer))
             /\ Ref(u, type_pointer).type = type_pointer /\ Ref(u, type_pointer).val = u
  <2>1. Ref(u, type_pointer) \in G /\ Solid(Ref(u, type_pointer))
    BY <1>4, TypeFacts
  <2> QED
    BY <2>1, SolidFacts, SolidLeads, Refs
<1>5. ASSUME NEW u \in S, NEW v \in Range(Subtypes(u)), IsHeapType(v)
      PROVE  v \in S
  <2>1. u \in HeapTypes(G) /\ Found(L, F, Ref(u, type_pointer))
    BY <1>3, <1>4 DEF Found
  <2>2. Passed(L, F, <<>>, Ref(u, type_pointer))
    BY <1>4, <2>1 DEF Traced, AllPassed
  <2>3. Targets(Ref(u, type_pointer)) = {Ref(x, type_pointer) : x \in Range(Subtypes(u))}
    BY <1>4, <2>1, TargetsByKind
  <2>4. Handled(L, F, <<>>, Ref(v, type_pointer))
    <3>1. Ref(u, type_pointer).type # function_pointer
      BY <1>4, <2>1, Tags
    <3>2. \A q \in Targets(Ref(u, type_pointer)) : Handled(L, F, <<>>, q)
      BY <2>2, <3>1 DEF Passed
    <3> QED
      BY <2>3, <3>2
  <2>5. v \in FieldlessTypes \cup HeapTypes(G)
    BY <2>1, TypeFacts
  <2>6. v \in HeapTypes(G)
    <3>1. \A x \in FieldlessTypes : ~ IsHeapType(x)
      BY Tags
    <3> QED
      BY <1>5, <2>5, <3>1
  <2> QED
    BY <1>2, <1>3, <1>4, <2>4, <2>6
<1>6. CoverClosed(G, L, F, <<>>, S)
  BY <1>2, <1>3, <1>4, <1>5 DEF CoverClosed
<1>7. S \in SUBSET HeapTypes(G)
  BY <1>3
<1>8. Covered(G, L, F, <<>>, r.type)
  BY DEF Traced, TypesCovered
<1>9. r.type \in S
  BY <1>6, <1>7, <1>8 DEF Covered
<1> QED
  BY <1>3, <1>9 DEF Handled

\* What the machine code of a function that was found holds has been found too:
\* the trace does not visit the code, but the objects in it hang on the AST.
LEMMA CodeFound ==
    ASSUME NEW G, NEW rk, Typed, Shape(G, rk), Guarded(G), copier = NoCopy,
           NEW L, NEW F, NEW T, Traced(G, rk, L, F, T, <<>>),
           NEW r \in G, Found(L, F, r), r.type = function_pointer, NEW q \in functions[r.val].code
    PROVE  Handled(L, F, <<>>, q)
<1>1. \A x : ~ OnStack(<<>>, x)
  BY DEF OnStack
<1>2. \A x : Handled(L, F, <<>>, x) /\ Leading(x) => Marked(L, F, x)
  BY <1>1 DEF Handled
<1>3. \A x \in G : Found(L, F, x) => Passed(L, F, <<>>, x)
  BY DEF Traced, AllPassed
<1>4. PICK a, code : a = functions[r.val].the_AST /\ code = functions[r.val].code
  OBVIOUS
<1>5. r.val # 0 /\ code # {} /\ q \in code
  BY <1>4 DEF Found, Leading
<1>6. "basicblock" \notin Menu
  BY <1>4, <1>5 DEF Guarded, CodeEmpty
<1>7. PICK P : Guard(G, P)
  BY <1>6 DEF Guarded
<1>8. KeptBy(P, functions[r.val]) /\ P \subseteq ASTsIn(G)
  BY <1>5, <1>7 DEF Guard
<1>9. Keeps(P, a, code)
  BY <1>4, <1>5, <1>8 DEF KeptBy
<1>10. \A x \in P : x \in G /\ x.type = AST_pointer /\ x.val # 0 /\ x.type # function_pointer
  BY <1>8, Tags DEF ASTsIn
<1>11. \A x : x.type = AST_pointer /\ x.val # 0 => Leading(x)
  BY Tags DEF Leading
<1>12. PICK X : X = {x \in P : Marked(L, F, x)}
  OBVIOUS
<1>13. ASSUME NEW x \in X
       PROVE  x \in P /\ \A y \in Targets(x) : Handled(L, F, <<>>, y)
  <2>1. x \in P /\ Found(L, F, x) /\ Passed(L, F, <<>>, x)
    BY <1>3, <1>10, <1>11, <1>12 DEF Found
  <2> QED
    BY <1>10, <2>1 DEF Passed
<1>14. FieldsClosed(X)
  <2> SUFFICES ASSUME NEW x \in X, NEW y, y \in Targets(x), y.type = AST_pointer, y.val # 0
               PROVE  y \in X
    BY DEF FieldsClosed
  <2>1. y \in P
    BY <1>9, <1>13 DEF Keeps, FieldsClosed
  <2>2. Marked(L, F, y)
    BY <1>2, <1>11, <1>13
  <2> QED
    BY <1>12, <2>1, <2>2
<1>15. Ref(a, AST_pointer) \in X
  <2>1. Ref(a, AST_pointer) \in P
    BY <1>9 DEF Keeps
  <2>2. Handled(L, F, <<>>, Ref(a, AST_pointer))
    BY <1>3, <1>4 DEF Passed
  <2>3. Leading(Ref(a, AST_pointer))
    BY <1>10, <1>11, <2>1
  <2> QED
    BY <1>2, <1>12, <2>1, <2>2, <2>3
<1>16. X \in SUBSET P
  BY <1>12
<1>17. Holds(X, q)
  BY <1>5, <1>9, <1>14, <1>15, <1>16 DEF Keeps
<1>23. PICK x \in X : \E d \in Targets(x) : d.type = dynamic_object /\ q \in Targets(d)
  BY <1>17 DEF Holds
<1>18. PICK d \in Targets(x) : d.type = dynamic_object /\ q \in Targets(d)
  BY <1>23
<1>19. d \in G /\ Sound(rk, d)
  BY <1>10, <1>13, <1>18 DEF Shape, Closed
<1>20. Leading(d)
  <2>1. Leads(d)
    BY <1>18 DEF Targets
  <2> QED
    BY <1>19, <2>1, LeadsWhenSound
<1>21. Found(L, F, d)
  BY <1>2, <1>13, <1>18, <1>20 DEF Found
<1>22. Passed(L, F, <<>>, d) /\ d.type # function_pointer
  BY <1>3, <1>18, <1>19, <1>21, Tags
<1> QED
  BY <1>18, <1>22 DEF Passed

\* A trace that has nothing left to do has found everything the roots own.
LEMMA EverythingFound ==
    ASSUME NEW G, NEW rk, Typed, Shape(G, rk), Minimal(G), RootRefs \subseteq G,
           Guarded(G), copier = NoCopy,
           NEW L, NEW F, NEW T, Traced(G, rk, L, F, T, <<>>)
    PROVE  AllFound(G, L, F)
<1>1. \A q : ~ OnStack(<<>>, q)
  BY DEF OnStack
<1>2. PICK S : S = {r \in G : Handled(L, F, <<>>, r)}
  OBVIOUS
<1>3. ASSUME NEW r \in S
      PROVE  Found(L, F, r) \/ ~ Leading(r)
  BY <1>1, <1>2 DEF Handled, Found
<1>4. \A r \in G : Sound(rk, r) /\ Targets(r) \subseteq G /\ (IsHeapType(r.type) => Ref(r.type, type_pointer) \in G)
  BY DEF Shape, Closed
<1>5. \A r \in G : Found(L, F, r) => Passed(L, F, <<>>, r)
  BY DEF Traced, AllPassed
<1>6. ASSUME NEW r \in S
      PROVE  Targets(r) \subseteq S
  <2>1. CASE Found(L, F, r)
    <3>1. Passed(L, F, <<>>, r)
      BY <1>2, <1>5, <2>1
    <3>2. CASE r.type # function_pointer
      BY <1>2, <1>4, <3>1, <3>2 DEF Passed
    <3>3. CASE r.type = function_pointer
      <4>1. Leads(r)
        BY <1>2, <1>4, <2>1, LeadsWhenSound DEF Found
      <4>2. Targets(r) = {Ref(functions[r.val].return_type, type_pointer)} \cup functions[r.val].code
        BY <3>3, <4>1, TargetsByKind
      <4>3. \A q \in functions[r.val].code : Handled(L, F, <<>>, q)
        BY <1>2, <2>1, <3>3, CodeFound
      <4>4. Handled(L, F, <<>>, Ref(functions[r.val].return_type, type_pointer))
        BY <3>1, <3>3 DEF Passed
      <4>5. Targets(r) \subseteq G
        BY <1>2, <1>4
      <4> QED
        BY <1>2, <4>2, <4>3, <4>4, <4>5
    <3> QED
      BY <3>2, <3>3
  <2>2. CASE ~ Leading(r)
    <3>1. ~ Leads(r)
      BY <1>2, <1>4, <2>2, LeadsWhenSound
    <3> QED
      BY <3>1 DEF Targets
  <2> QED
    BY <1>3, <2>1, <2>2
<1>7. ASSUME NEW r \in S, IsHeapType(r.type)
      PROVE  Ref(r.type, type_pointer) \in S
  <2>1. Leading(r)
    <3>1. r.val # 0
      <4>1. r.type \notin FieldlessTypes
        BY <1>7, Tags
      <4> QED
        BY <1>2, <1>4, <4>1 DEF Sound
    <3> QED
      BY <1>7, <3>1, Tags DEF Leading
  <2>2. Found(L, F, r)
    BY <1>3, <2>1
  <2>3. Handled(L, F, <<>>, Ref(r.type, type_pointer))
    BY <1>2, <1>7, <2>2, TypesFound
  <2> QED
    BY <1>2, <1>4, <1>7, <2>3
<1>8. Closed(S)
  BY <1>6, <1>7 DEF Closed
<1>9. ASTsKept(S)
  <2> SUFFICES ASSUME NEW r \in S, r.type = function_pointer, r.val # 0
               PROVE  Ref(functions[r.val].the_AST, AST_pointer) \in S
    BY DEF ASTsKept
  <2>1. Leading(r)
    BY Tags DEF Leading
  <2>2. Passed(L, F, <<>>, r)
    BY <1>2, <1>3, <1>5, <2>1
  <2>3. Ref(functions[r.val].the_AST, AST_pointer) \in G
    BY <1>2 DEF Shape, ASTsKept
  <2> QED
    BY <1>2, <2>2, <2>3 DEF Passed
<1>10. RootRefs \subseteq S
  BY <1>2 DEF Traced, RootsHandled
<1>11. G \subseteq S \cup Base
  <2>1. S \in SUBSET G
    BY <1>2
  <2> QED
    BY <1>8, <1>9, <1>10, <2>1 DEF Minimal
<1>12. \A r \in Base : ~ Leading(r)
  BY BaseIsSound
<1> QED
  BY <1>3, <1>11, <1>12 DEF AllFound, Found

\* So a sweep begins with exactly that.
LEMMA TraceEnds ==
    ASSUME HeapInv, Typings, NEW G, NEW rk, TraceWorld(G, rk), to_be_marked = <<>>
    PROVE  SweepWorld(G, rk)
<1>1. /\ Typed /\ Shape(G, rk) /\ AllOnMenu(G) /\ TypesApart(G) /\ Minimal(G) /\ RootRefs \subseteq G
      /\ copier = NoCopy /\ held = {} /\ Guarded(G)
  BY TraceFacts
<1>2. PICK L, F, T : /\ L = living_objects /\ F = Flagged(sweep_function_pool_flags) /\ T = type_hash_table
                     /\ Traced(G, rk, L, F, T, <<>>)
  BY DEF TraceWorld, TraceNow
<1>3. AllFound(G, L, F)
  BY <1>1, <1>2, EverythingFound
<1>4. LivingIn(G, L) /\ FlagsIn(G, F) /\ TableIn(G, T) /\ TypesPending(G, L, F, T, <<>>)
  BY <1>2 DEF Traced
<1>5. ASSUME NEW r \in G, Solid(r)
      PROVE  BlockOf(r) \in L
  <2>1. Leading(r) /\ r.type # function_pointer
    BY <1>5, SolidLeads
  <2>2. PICK l \in L : l.addr = r.val
    BY <1>3, <2>1 DEF AllFound, Marked
  <2>3. PICK q \in G : Solid(q) /\ l = BlockOf(q)
    BY <1>4 DEF LivingIn
  <2>4. q.val = r.val
    BY <2>2, <2>3 DEF BlockOf
  <2>5. q = r
    BY <1>1, <1>5, <2>3, <2>4 DEF Shape
  <2> QED
    BY <2>3, <2>5
<1>6. L = {BlockOf(r) : r \in {q \in G : Solid(q)}}
  BY <1>4, <1>5 DEF LivingIn
<1>7. F = {f \in Slots : Ref(f, function_pointer) \in G}
  <2>1. F \subseteq Slots
    BY <1>2 DEF Flagged
  <2>2. ASSUME NEW f \in Slots, Ref(f, function_pointer) \in G
        PROVE  f \in F
    <3>1. f # 0
      BY DEF Slots
    <3>2. Leading(Ref(f, function_pointer))
      BY <3>1, Refs, Tags DEF Leading
    <3> QED
      BY <1>3, <2>2, <3>2, Refs DEF AllFound, Marked
  <2> QED
    BY <1>4, <2>1, <2>2 DEF FlagsIn
<1>8. HeapTypes(G) \subseteq T
  <2> SUFFICES ASSUME NEW t \in HeapTypes(G)
               PROVE  t \in T
    OBVIOUS
  <2>1. Ref(t, type_pointer) \in G /\ Solid(Ref(t, type_pointer))
    BY <1>1, TypeFacts
  <2>2. Marked(L, F, Ref(t, type_pointer))
    BY <1>3, <2>1, SolidLeads DEF AllFound
  <2> QED
    BY <1>4, <2>2 DEF TypesPending
<1>9. Tabled(G)
  BY <1>2, <1>4, <1>8 DEF TableIn, Tabled
<1> QED
  BY <1>1, <1>2, <1>6, <1>7, <1>9 DEF SweepWorld

\* What the roots reach stays so when a step changes nothing of it.
LEMMA MinimalMoves ==
    ASSUME NEW G, NEW rk, Typed, Shape(G, rk), Moves(G, {}), Minimal(G), UNCHANGED event_roots
    PROVE  Minimal(G)'
<1>1. RootRefs' = RootRefs
  BY RootsStay DEF Moves
<1>2. \A r \in G : Targets(r)' = Targets(r)
  BY RefMoves
<1>3. \A r \in G : r.type = function_pointer /\ r.val # 0 => functions'[r.val] = functions[r.val]
  BY DEF Moves
<1>4. ASSUME NEW S \in SUBSET G
      PROVE  (Closed(S)' => Closed(S)) /\ (ASTsKept(S)' => ASTsKept(S))
  <2>1. Closed(S)' => Closed(S)
    BY <1>2 DEF Closed, IsHeapType
  <2>2. ASTsKept(S)' => ASTsKept(S)
    BY <1>3 DEF ASTsKept
  <2> QED
    BY <2>1, <2>2
<1> QED
  BY <1>1, <1>4 DEF Minimal, Base

\* A step that changes no object keeps the sweep going.
LEMMA SweepMoves ==
    ASSUME HeapInv, Typings, NEW G, NEW rk, SweepWorld(G, rk), Moves(G, {}),
           UNCHANGED <<type_hash_table, type_roots, event_roots, functionVars, traceVars, copier, held, living_objects>>
    PROVE  SweepWorld(G, rk)'
<1>1. /\ Typed /\ Shape(G, rk) /\ AllOnMenu(G) /\ TypesApart(G) /\ Tabled(G) /\ Minimal(G)
      /\ RootRefs \subseteq G /\ copier = NoCopy /\ held = {} /\ Guarded(G)
  BY DEF SweepWorld, Typings, HeapInv, TypeOK, Typed
<1>2. PICK N : N = {}
  OBVIOUS
<1>3. N \in SUBSET G /\ N \in SUBSET Reference /\ G \cup N = G /\ Moves(G, N) /\ rk \in [Nat -> Nat]
  BY <1>1, <1>2 DEF Shape
<1>4. Distinct(G, N) /\ \A r \in N \cup N : Fits(G \cup N, rk, r)'
  BY <1>2 DEF Distinct
<1>5. Shape(G \cup N, rk)'
  BY <1>1, <1>3, <1>4, ShapeMoves
<1>6. /\ HeapTypes(G \cup N)' = HeapTypes(G)
      /\ TypesApart(G \cup N)'
      /\ Tabled(G \cup N)'
  <2>1. \A r \in N : r.type # type_pointer
    BY <1>2
  <2>2. type_hash_table' = type_hash_table
    OBVIOUS
  <2> QED
    BY <1>1, <1>3, <2>1, <2>2, TypesStay
<1>7. Shape(G, rk)' /\ TypesApart(G)' /\ Tabled(G)'
  BY <1>3, <1>5, <1>6
<1>8. Minimal(G)'
  BY <1>1, MinimalMoves
<1>9. \A r \in G : Solid(r) => Extent(r)' = Extent(r) /\ Word(r.val)' = Word(r.val)
  BY <1>1, <1>3, <1>2, RefMoves
<1>10. \A r \in G : Solid(r)' <=> Solid(r)
  BY DEF Solid, IsHeapType
<1>11. AllOnMenu(G)'
  BY <1>1, <1>9, <1>10 DEF AllOnMenu, OnMenu, functionVars
<1>12. RootRefs' = RootRefs
  BY RootsStay
<1>13. living_objects' = {BlockOf(r) : r \in {q \in G : Solid(q)}}'
  <2>1. \A r \in G : Solid(r) => BlockOf(r)' = BlockOf(r)
    BY <1>9 DEF BlockOf
  <2>2. {q \in G : Solid(q)}' = {q \in G : Solid(q)}
    BY <1>10
  <2>3. living_objects = {BlockOf(r) : r \in {q \in G : Solid(q)}}
    BY DEF SweepWorld
  <2> QED
    BY <2>1, <2>2, <2>3
<1>14. Flagged(sweep_function_pool_flags)' = {f \in Slots : Ref(f, function_pointer) \in G}'
  <2>1. Flagged(sweep_function_pool_flags) = {f \in Slots : Ref(f, function_pointer) \in G}
    BY DEF SweepWorld
  <2> QED
    BY <2>1 DEF traceVars, Flagged, Slots, Bit, Power
<1>15. copier' = NoCopy /\ held' = {}
  BY <1>1
<1>16. Guarded(G)'
  BY <1>1, <1>15, GuardMoves
<1> QED
  BY <1>1, <1>7, <1>8, <1>11, <1>12, <1>13, <1>14, <1>15, <1>16 DEF SweepWorld, NoCopy

\* A sweep keeps the types of the variables.
LEMMA TypingsSweep ==
    ASSUME Typings, MemTyped',
           UNCHANGED <<type_hash_table, type_roots, event_roots, functionVars, traceVars, held, error>>
    PROVE  Typings'
<1>1. FunctionTypings' /\ Flagged(function_pool_flags)' = Flagged(function_pool_flags)
  BY FunctionsStay DEF Typings
<1> QED
  BY <1>1 DEF Typings, TraceTypings, traceVars, Flagged, Slots, Bit, Power, Masks, Blocks

\* The step sweepy_sweep begins a sweep.
LEMMA SweepBegins ==
    ASSUME TraceInv, sweepy_sweep
    PROVE  SweepingInv'
<1>1. PICK G, rk : TraceWorld(G, rk)
  BY DEF TraceInv
<1>2. HeapInv /\ Typings
  BY DEF TraceInv
<1>3. /\ to_be_marked = <<>> /\ BeginSweep
      /\ UNCHANGED <<mem, type_hash_table, type_roots, event_roots, functionVars, traceVars, copier, held, error>>
  BY DEF sweepy_sweep
<1>4. /\ phase' = "sweep" /\ UNCHANGED living_objects /\ HeapInv'
      /\ objects' = {o \in objects : \E l \in living_objects : l.addr = o.addr}
  BY <1>2, <1>3, BeginSweepStep DEF BeginSweep
<1>5. SweepWorld(G, rk)
  BY <1>1, <1>2, <1>3, TraceEnds
<1>6. Typed /\ Shape(G, rk)
  BY <1>1, <1>2, TraceFacts
<1>7. MemTyped' /\ \A w : Word(w)' = Word(w)
  BY <1>3, <1>6 DEF Typed, MemTyped, Word, Pool, PoolEnd
<1>8. ASSUME NEW r \in G, Solid(r)
      PROVE  Agree(r) /\ BlockOf(r) \in objects'
  <2>1. BlockOf(r) \in living_objects
    BY <1>5, <1>8 DEF SweepWorld
  <2>2. BlockOf(r) \in objects
    BY <1>6, <1>8 DEF Shape, Sound
  <2>3. Agree(r)
    BY <1>7 DEF Agree
  <2> QED
    BY <1>4, <2>1, <2>2, <2>3
<1>9. ASSUME NEW r \in G, r.type = function_pointer, r.val # 0
      PROVE  r.val \in Flagged(function_pool_flags)' /\ functions'[r.val] = functions[r.val]
  <2>1. r.val \in Flagged(function_pool_flags)
    BY <1>6, <1>9 DEF Shape, Sound
  <2>2. Flagged(function_pool_flags)' = Flagged(function_pool_flags) /\ functions' = functions
    BY <1>2, <1>3, FunctionsStay DEF Typings, functionVars
  <2> QED
    BY <2>1, <2>2
<1>10. Moves(G, {})
  BY <1>3, <1>7, <1>8, <1>9 DEF Moves
<1>11. SweepWorld(G, rk)'
  BY <1>2, <1>3, <1>4, <1>5, <1>10, SweepMoves
<1>12. Typings'
  BY <1>2, <1>3, <1>7, TypingsSweep
<1> QED
  BY <1>4, <1>11, <1>12 DEF SweepingInv

\* A gap holds no word of an object.
LEMMA GapIsFree ==
    ASSUME HeapInv, phase = "sweep", NEW n, n \in Nat,
           \A l \in living_objects : l.addr >= memory_incrementor => n <= l.addr,
           NEW w, w \in memory_incrementor .. n - 1, NEW o \in objects
    PROVE  w \notin Words(o)
<1>1. objects = living_objects
  BY DEF HeapInv, SweepInv
<1>2. o.addr >= memory_incrementor \/ o.addr + o.size <= memory_incrementor
  BY <1>1 DEF HeapInv, SweepInv
<1>3. memory_incrementor \in Nat /\ o \in Block
  BY DEF HeapInv, TypeOK
<1>4. o.addr \in Nat /\ o.size \in Nat
  BY <1>3, BlockFacts
<1>5. o.addr >= memory_incrementor => n <= o.addr
  BY <1>1
<1> QED
  BY <1>2, <1>3, <1>4, <1>5 DEF Words

\* Clearing a gap.
LEMMA ClearedFacts ==
    ASSUME MemTyped, NEW n, mem' = Cleared(n)
    PROVE  MemTyped' /\ \A w : Word(w)' = Word(w) \/ w \in memory_incrementor .. n - 1
<1>1. \A w \in Pool : mem'[w] = IF w \in memory_incrementor .. n - 1 THEN special_value ELSE mem[w]
  BY DEF Cleared
<1>2. MemTyped'
  BY <1>1, Sizes DEF MemTyped, Cleared, Memories, TypedNext
<1>3. Pool' = Pool
  BY DEF Pool, PoolEnd
<1> QED
  BY <1>1, <1>2, <1>3 DEF Word

\* The step sweep_gap clears no object that lives.
LEMMA SweepGoesOn ==
    ASSUME SweepingInv, sweep_gap
    PROVE  SweepingInv'
<1>1. PICK G, rk : SweepWorld(G, rk)
  BY DEF SweepingInv
<1>2. HeapInv /\ Typings /\ phase = "sweep"
  BY DEF SweepingInv
<1>3. /\ SweepGap
      /\ UNCHANGED <<type_hash_table, type_roots, event_roots, functionVars, traceVars, copier, held, error>>
  BY DEF sweep_gap
<1>4. PICK l \in NextLiving : mem' = Cleared(l.addr)
  BY DEF sweep_gap
<1>5. UNCHANGED <<living_objects, phase, objects>> /\ HeapInv'
  BY <1>2, <1>3, SweepGapStep DEF SweepGap
<1>6. Typed /\ Shape(G, rk) /\ MemTyped
  BY <1>1, <1>2 DEF SweepWorld, Typings, HeapInv, TypeOK, Typed
<1>7. MemTyped' /\ \A w : Word(w)' = Word(w) \/ w \in memory_incrementor .. l.addr - 1
  BY <1>4, <1>6, ClearedFacts
<1>8. /\ l \in living_objects /\ l.addr \in Nat
      /\ \A m \in living_objects : m.addr >= memory_incrementor => l.addr <= m.addr
  <2>1. l \in living_objects /\ l \in Block
    BY <1>2, <1>4 DEF NextLiving, AtOrAfterCursor, HeapInv, TypeOK
  <2> QED
    BY <1>4, <2>1, BlockFacts DEF NextLiving, AtOrAfterCursor
<1>9. \A w : Word(w)' = Word(w) \/ \A o \in objects : w \notin Words(o)
  BY <1>2, <1>7, <1>8, GapIsFree
<1>10. Moves(G, {})
  <2>1. PICK D : D = {}
    OBVIOUS
  <2>2. /\ D \in SUBSET G /\ objects \subseteq objects' /\ \A r \in D : r.type # type_pointer
        /\ \A r \in G \ D : r.type = AST_pointer /\ Solid(r) /\ Word(r.val) = basicblock =>
               Ref(Word(r.val + 1), type_roots[1]) \notin D
        /\ \A w : \/ Word(w)' = Word(w)
                  \/ \A o \in objects : w \notin Words(o)
                  \/ \E d \in D : Solid(d) /\ w \in Words(BlockOf(d))
    BY <1>5, <1>9, <2>1
  <2>3. \A r \in G \ D : r.type = function_pointer /\ r.val # 0 =>
               r.val \in Flagged(function_pool_flags)' /\ functions'[r.val] = functions[r.val]
    <3>1. Flagged(function_pool_flags)' = Flagged(function_pool_flags) /\ functions' = functions
      BY <1>2, <1>3, FunctionsStay DEF Typings, functionVars
    <3> QED
      BY <1>6, <3>1 DEF Shape, Sound
  <2>4. type_roots' = type_roots
    BY <1>3
  <2>5. Moves(G, D)
    BY <1>2, <1>6, <1>7, <2>2, <2>3, <2>4, MovesIntro
  <2> QED
    BY <2>1, <2>5
<1>11. SweepWorld(G, rk)'
  BY <1>1, <1>2, <1>3, <1>5, <1>10, SweepMoves
<1>12. Typings'
  BY <1>2, <1>3, <1>7, TypingsSweep
<1> QED
  BY <1>2, <1>5, <1>11, <1>12 DEF SweepingInv

------------------------------------------------------------------------------
(* The finalizers *)

\* A slot in its block.
LEMMA Division ==
    ASSUME NEW B \in Nat \ {0}, NEW b \in Nat, NEW j \in 0 .. B - 1
    PROVE  (b * B + j) \div B = b /\ (b * B + j) % B = j
<1>1. PICK x, q, m : x = b * B + j /\ q = x \div B /\ m = x % B
  OBVIOUS
<1>2. x \in Nat
  BY <1>1
<1>3. q \in Nat /\ m \in 0 .. B - 1 /\ x = B * q + m
  BY <1>1, <1>2, DivisionFacts
<1>4. B * b + j = B * q + m
  BY <1>1, <1>3
<1>5. ASSUME q >= b + 1 PROVE FALSE
  <2>1. PICK d \in Nat : q = b + 1 + d
    <3>1. q - b - 1 \in Nat /\ q = b + 1 + (q - b - 1)
      BY <1>3, <1>5
    <3> QED
      BY <3>1
  <2>2. B * q = B * b + B + B * d /\ B * d \in Nat
    BY <2>1
  <2> QED
    BY <1>3, <1>4, <2>2
<1>6. ASSUME b >= q + 1 PROVE FALSE
  <2>1. PICK d \in Nat : b = q + 1 + d
    <3>1. b - q - 1 \in Nat /\ b = q + 1 + (b - q - 1)
      BY <1>3, <1>6
    <3> QED
      BY <3>1
  <2>2. B * b = B * q + B + B * d /\ B * d \in Nat
    BY <1>3, <2>1
  <2> QED
    BY <1>3, <1>4, <2>2
<1>7. q = b
  BY <1>3, <1>5, <1>6
<1>8. m = j
  BY <1>3, <1>4, <1>7
<1> QED
  BY <1>1, <1>7, <1>8

\* The slot of a bit.
LEMMA SlotOfBit ==
    ASSUME NEW b \in Blocks, NEW j \in 0 .. BlockBits - 1
    PROVE  \E s \in Slots : SlotBlock(s) = b /\ (s - 1) % BlockBits = j
<1>1. PICK B, F : B = BlockBits /\ F = FunctionBlocks
  OBVIOUS
<1>2. B \in Nat \ {0} /\ F \in Nat \ {0} /\ b \in Nat /\ b <= F - 1 /\ j \in 0 .. B - 1
  BY <1>1, CollectorAssumption DEF Blocks
<1>3. PICK s : s = b * B + j + 1
  OBVIOUS
<1>4. s \in Nat /\ s >= 1 /\ s - 1 = b * B + j
  BY <1>2, <1>3
<1>5. s <= F * B
  <2>1. PICK d \in Nat : F = b + 1 + d
    <3>1. F - b - 1 \in Nat /\ F = b + 1 + (F - b - 1)
      BY <1>2
    <3> QED
      BY <3>1
  <2>2. F * B = b * B + B + d * B /\ d * B \in Nat
    BY <1>2, <2>1
  <2> QED
    BY <1>2, <1>3, <2>2
<1>6. s \in Slots
  BY <1>1, <1>4, <1>5, <1>2 DEF Slots
<1>7. (s - 1) \div B = b /\ (s - 1) % B = j
  <2>1. (b * B + j) \div B = b /\ (b * B + j) % B = j
    BY <1>2, Division
  <2> QED
    BY <1>4, <2>1
<1> QED
  BY <1>1, <1>6, <1>7 DEF SlotBlock

\* What the subtraction of the masks leaves of a block.
DiffOf(b) ==
    /\ diffmask(b) = function_pool_flags[b] - sweep_function_pool_flags[b]
    /\ sweep_function_pool_flags[b] \in Nat /\ function_pool_flags[b] \in Nat
    /\ \A j \in Nat : Bit(diffmask(b), j) <=> Bit(function_pool_flags[b], j) /\ ~ Bit(sweep_function_pool_flags[b], j)

\* The mask of the slots to clear.
LEMMA DiffmaskFacts ==
    ASSUME Typings, NEW b \in Blocks
    PROVE  DiffOf(b)
<1>1. PICK n, f, s : n = BlockBits /\ f = function_pool_flags[b] /\ s = sweep_function_pool_flags[b]
  OBVIOUS
<1>2. n \in Nat /\ f \in 0 .. Power[n] - 1 /\ s \in 0 .. Power[n] - 1
  BY <1>1, CollectorAssumption DEF Typings, FunctionTypings, TraceTypings, Masks
<1>3. ASSUME NEW j \in 0 .. n - 1, Bit(s, j)
      PROVE  Bit(f, j)
  <2>1. PICK o \in Slots : SlotBlock(o) = b /\ (o - 1) % BlockBits = j
    BY <1>1, SlotOfBit
  <2>2. o \in Flagged(sweep_function_pool_flags)
    BY <1>1, <1>3, <2>1 DEF Flagged, SlotBlock
  <2>3. o \in Flagged(function_pool_flags)
    BY <2>2 DEF Typings
  <2> QED
    BY <1>1, <2>1, <2>3 DEF Flagged, SlotBlock
<1>4. /\ s <= f /\ (f - s) % Power[n] = f - s
      /\ \A j \in Nat : Bit(f - s, j) <=> Bit(f, j) /\ ~ Bit(s, j)
  BY <1>2, <1>3, DifferenceOfMasks
<1>5. diffmask(b) = (f - s) % Power[n]
  BY <1>1 DEF diffmask
<1>6. f \in Nat /\ s \in Nat
  <2>1. Power[n] \in Nat
    BY <1>2, PowerEquations
  <2> QED
    BY <1>2, <2>1
<1>7. diffmask(b) = f - s
  BY <1>4, <1>5
<1> QED
  BY <1>1, <1>4, <1>6, <1>7 DEF DiffOf

\* The slots that lose their functions are those the trace has not found.
LEMMA FinalizedFacts ==
    ASSUME Typings
    PROVE  Finalized = Flagged(function_pool_flags) \ Flagged(sweep_function_pool_flags)
<1>1. ASSUME NEW s \in Slots
      PROVE  s \in Finalized <=> s \in Flagged(function_pool_flags) /\ s \notin Flagged(sweep_function_pool_flags)
  <2>1. PICK b, j : b = SlotBlock(s) /\ j = (s - 1) % BlockBits
    OBVIOUS
  <2>2. b \in Blocks /\ j \in Nat
    BY <2>1, SlotFacts
  <2>3. Bit(diffmask(b), j) <=> Bit(function_pool_flags[b], j) /\ ~ Bit(sweep_function_pool_flags[b], j)
    BY <2>2, DiffmaskFacts DEF DiffOf
  <2> QED
    BY <2>1, <2>3 DEF Finalized, Flagged, SlotBlock
<1> QED
  BY <1>1 DEF Finalized, Flagged

\* The flags of the sweep take the place of those of the functions.
LEMMA FlagsTaken ==
    ASSUME Typings, NEW flags,
           flags = [b \in Blocks |-> IF diffmask(b) # 0 THEN sweep_function_pool_flags[b] ELSE function_pool_flags[b]]
    PROVE  flags = sweep_function_pool_flags
<1>1. ASSUME NEW b \in Blocks
      PROVE  flags[b] = sweep_function_pool_flags[b]
  <2>1. DiffOf(b)
    BY DiffmaskFacts
  <2>2. diffmask(b) = 0 => function_pool_flags[b] = sweep_function_pool_flags[b]
    BY <2>1 DEF DiffOf
  <2>3. flags[b] = IF diffmask(b) # 0 THEN sweep_function_pool_flags[b] ELSE function_pool_flags[b]
    <3> HIDE DEF diffmask
    <3> QED
      OBVIOUS
  <2> QED
    BY <2>2, <2>3
<1>2. DOMAIN flags = Blocks
  OBVIOUS
<1>3. sweep_function_pool_flags = [b \in Blocks |-> sweep_function_pool_flags[b]]
  BY DEF Typings, TraceTypings, Masks
<1>4. flags = [b \in Blocks |-> flags[b]]
  OBVIOUS
<1> QED
  BY <1>1, <1>3, <1>4

\* Past the last object there is no word of any.
LEMMA RestIsFree ==
    ASSUME HeapInv, phase = "sweep", AtOrAfterCursor = {},
           NEW w, w \in memory_incrementor .. PoolEnd - 1, NEW o \in objects
    PROVE  w \notin Words(o)
<1>1. objects = living_objects
  BY DEF HeapInv, SweepInv
<1>2. o.addr + o.size <= memory_incrementor
  BY <1>1 DEF HeapInv, SweepInv, AtOrAfterCursor
<1>3. memory_incrementor \in Nat /\ o \in Block
  BY DEF HeapInv, TypeOK
<1>4. o.addr \in Nat /\ o.size \in Nat
  BY <1>3, BlockFacts
<1> QED
  BY <1>2, <1>3, <1>4 DEF Words

\* The functions after the finalizers.
FunctionsSwept ==
    /\ function_pool_flags' = sweep_function_pool_flags
    /\ FunctionTypings'
    /\ Flagged(function_pool_flags)' = Flagged(sweep_function_pool_flags)
    /\ \A s \in Flagged(sweep_function_pool_flags) : functions'[s] = functions[s]

\* And they are the only ones to change.
LEMMA FinalizersRun ==
    ASSUME Typings,
           functions' = [s \in Slots |-> IF s \in Finalized THEN NoFunction ELSE functions[s]],
           modules' = modules \ Finalized,
           function_pool_flags' = [b \in Blocks |-> IF diffmask(b) # 0 THEN sweep_function_pool_flags[b]
                                                    ELSE function_pool_flags[b]]
    PROVE  FunctionsSwept
<1>1. PICK F, S, X, flags : /\ F = Flagged(function_pool_flags) /\ S = Flagged(sweep_function_pool_flags)
                            /\ X = Finalized /\ flags = sweep_function_pool_flags
  OBVIOUS
<1>2. X = F \ S /\ S \subseteq F /\ F \subseteq Slots /\ modules = F
  BY <1>1, FinalizedFacts DEF Typings, FunctionTypings, Flagged
<1>3. function_pool_flags' = flags /\ flags \in Masks
  BY <1>1, FlagsTaken DEF Typings, TraceTypings
<1>4. Flagged(function_pool_flags)' = S
  <2>1. Flagged(function_pool_flags)' = Flagged(flags)
    BY <1>3 DEF Flagged, Slots, Bit, Power
  <2> QED
    BY <1>1, <2>1
<1>5. functions' = [s \in Slots |-> IF s \in X THEN NoFunction ELSE functions[s]]
  BY <1>1
<1>6. \A s \in S : functions'[s] = functions[s]
  BY <1>2, <1>5
<1>7. Functional'
  <2>1. functions \in [Slots -> FunctionRecord]
    BY DEF Typings, FunctionTypings, Functional, FunctionRecord
  <2>2. NoFunction \in FunctionRecord
    BY Sizes DEF NoFunction, Function, FunctionRecord
  <2>3. functions' \in [Slots -> FunctionRecord]
    BY <1>5, <2>1, <2>2
  <2> QED
    BY <2>3 DEF Functional, FunctionRecord, Slots, Reference
<1>8. modules' = S
  BY <1>1, <1>2
<1>9. (function_pool_flags \in Masks)'
  BY <1>3 DEF Masks, Blocks, Power
<1>10. FunctionTypings'
  BY <1>4, <1>7, <1>8, <1>9 DEF FunctionTypings
<1> QED
  BY <1>1, <1>3, <1>4, <1>6, <1>10 DEF FunctionsSwept

\* The end of a sweep gives the program its world back.
LEMMA SweepFinishes ==
    ASSUME SweepingInv, sweep_end
    PROVE  ProgramInv'
<1>1. PICK G, rk : SweepWorld(G, rk)
  BY DEF SweepingInv
<1>2. HeapInv /\ Typings /\ phase = "sweep"
  BY DEF SweepingInv
<1>3. /\ SweepEnd /\ mem' = Cleared(PoolEnd)
      /\ UNCHANGED <<type_hash_table, type_roots, event_roots, traceVars, copier, held, error>>
  BY DEF sweep_end
<1>4. FunctionsSwept
  <2>1. /\ functions' = [s \in Slots |-> IF s \in Finalized THEN NoFunction ELSE functions[s]]
        /\ modules' = modules \ Finalized
        /\ function_pool_flags' = [b \in Blocks |-> IF diffmask(b) # 0 THEN sweep_function_pool_flags[b]
                                                    ELSE function_pool_flags[b]]
    BY DEF sweep_end
  <2> QED
    BY <1>2, <2>1, FinalizersRun
<1>5. objects' = objects /\ phase' = "program" /\ AtOrAfterCursor = {} /\ HeapInv'
  BY <1>2, <1>3, SweepEndStep DEF SweepEnd
<1>6. /\ Typed /\ Shape(G, rk) /\ AllOnMenu(G) /\ TypesApart(G) /\ Tabled(G) /\ MemTyped
      /\ RootRefs \subseteq G /\ copier = NoCopy /\ held = {} /\ Guarded(G)
      /\ Flagged(sweep_function_pool_flags) = {f \in Slots : Ref(f, function_pointer) \in G}
  BY <1>1, <1>2 DEF SweepWorld, Typings, HeapInv, TypeOK, Typed
<1>7. MemTyped' /\ \A w : Word(w)' = Word(w) \/ w \in memory_incrementor .. PoolEnd - 1
  BY <1>3, <1>6, ClearedFacts
<1>8. \A w : Word(w)' = Word(w) \/ \A o \in objects : w \notin Words(o)
  BY <1>2, <1>5, <1>7, RestIsFree
<1>9. ASSUME NEW r \in G, r.type = function_pointer, r.val # 0
      PROVE  r.val \in Flagged(function_pool_flags)' /\ functions'[r.val] = functions[r.val]
  <2>1. r.val \in Slots /\ r = Ref(r.val, function_pointer)
    <3>1. Sound(rk, r) /\ r \in Reference
      BY <1>6 DEF Shape
    <3> QED
      BY <1>9, <3>1, FlaggedSlots, Refs DEF Sound
  <2>2. r.val \in Flagged(sweep_function_pool_flags)
    BY <1>6, <1>9, <2>1
  <2> QED
    BY <1>4, <2>2 DEF FunctionsSwept
<1>10. PICK N : N = {}
  OBVIOUS
<1>11. N \in SUBSET G /\ N \in SUBSET Reference /\ G \cup N = G /\ rk \in [Nat -> Nat]
  BY <1>6, <1>10 DEF Shape
<1>12. Moves(G, N)
  <2>1. /\ objects \subseteq objects' /\ \A r \in N : r.type # type_pointer
        /\ \A r \in G \ N : r.type = AST_pointer /\ Solid(r) /\ Word(r.val) = basicblock =>
               Ref(Word(r.val + 1), type_roots[1]) \notin N
        /\ \A r \in G \ N : r.type = function_pointer /\ r.val # 0 =>
               r.val \in Flagged(function_pool_flags)' /\ functions'[r.val] = functions[r.val]
        /\ \A w : \/ Word(w)' = Word(w)
                  \/ \A o \in objects : w \notin Words(o)
                  \/ \E d \in N : Solid(d) /\ w \in Words(BlockOf(d))
    BY <1>5, <1>8, <1>9, <1>10
  <2>2. type_roots' = type_roots
    BY <1>3
  <2> QED
    BY <1>2, <1>6, <1>7, <1>11, <2>1, <2>2, MovesIntro
<1>13. Shape(G \cup N, rk)'
  <2>1. Distinct(G, N) /\ \A r \in N \cup N : Fits(G \cup N, rk, r)'
    BY <1>10 DEF Distinct
  <2> QED
    BY <1>6, <1>11, <1>12, <2>1, ShapeMoves
<1>14. TypesApart(G \cup N)' /\ Tabled(G \cup N)'
  <2>1. \A r \in N : r.type # type_pointer
    BY <1>10
  <2>2. type_hash_table' = type_hash_table
    BY <1>3
  <2> QED
    BY <1>6, <1>11, <1>12, <2>1, <2>2, TypesStay
<1>15. Shape(G, rk)' /\ TypesApart(G)' /\ Tabled(G)'
  BY <1>11, <1>13, <1>14
<1>16. \A r \in G : (Solid(r) => Word(r.val)' = Word(r.val)) /\ (Solid(r)' <=> Solid(r))
  <2>1. \A r \in G : Solid(r) => Word(r.val)' = Word(r.val)
    BY <1>6, <1>10, <1>12, RefMoves
  <2> QED
    BY <2>1 DEF Solid, IsHeapType
<1>17. AllOnMenu(G)'
  BY <1>6, <1>9, <1>16 DEF AllOnMenu, OnMenu
<1>18. RootRefs' \cup held' \subseteq G
  <2>1. RootRefs' = RootRefs
    BY <1>3, RootsStay
  <2> QED
    BY <1>3, <1>6, <2>1
<1>19. copier' = NoCopy'
  BY <1>3, <1>6 DEF NoCopy
<1>22. Guarded(G)'
  <2>1. copier' = NoCopy /\ held' \subseteq held
    BY <1>3, <1>6
  <2>2. Moves(G, {})
    BY <1>10, <1>12
  <2> QED
    BY <1>6, <2>1, <2>2, GuardMoves
<1>20. World(G, rk)'
  BY <1>15, <1>17, <1>18, <1>19, <1>22 DEF World, CopierIn
<1>21. Typings'
  <2>1. TraceTypings'
    BY <1>2, <1>3 DEF Typings, TraceTypings, traceVars, Masks, Blocks, Power
  <2>2. (Flagged(sweep_function_pool_flags) \subseteq Flagged(function_pool_flags))'
    <3>1. Flagged(sweep_function_pool_flags)' = Flagged(sweep_function_pool_flags)
      BY <1>3 DEF traceVars, Flagged, Slots, Bit, Power
    <3> QED
      BY <1>4, <3>1 DEF FunctionsSwept
  <2> QED
    BY <1>2, <1>3, <1>4, <1>7, <2>1, <2>2 DEF Typings, FunctionsSwept, Slots
<1> QED
  BY <1>5, <1>20, <1>21 DEF ProgramInv

------------------------------------------------------------------------------
(* The inductive invariant *)

\* While the collector runs, the program does not.
LEMMA OneThread ==
    /\ phase # "program" => ~ Program /\ ~ trace_objects
    /\ phase # "trace" => \A op : ~ Tracing(op)
    /\ phase # "trace" => ~ sweepy_sweep
    /\ phase # "sweep" => ~ sweep_gap /\ ~ sweep_end
<1>1. ASSUME phase # "program"
      PROVE  ~ Program /\ ~ trace_objects
  <2>1. \A op : ~ Running(op)
    BY <1>1 DEF Running
  <2>2. \A size, k : ~ AllocateAt(size, k)
    BY <1>1 DEF AllocateAt
  <2>3. ~ Copying /\ ~ compiled /\ ~ initialize /\ ~ out_of_memory
    BY <1>1, <2>2 DEF Copying, compiled, initialize, out_of_memory, OutOfMemory, OutOfMemoryTwo
  <2>4. ~ (copy_found \/ copy_imv \/ copy_basicblock \/ copy_AST)
    BY <2>3 DEF copy_found, copy_imv, copy_basicblock, copy_AST, NewCopy
  <2>5. ~ (new_AST \/ new_imv_AST \/ new_basicblock \/ new_dynamic_obj \/ new_pointer \/ new_vector)
    BY <2>1 DEF new_AST, new_imv_AST, new_basicblock, new_dynamic_obj, new_pointer, new_vector
  <2>6. ~ (new_unique_type \/ pushback_int \/ vecpb \/ store \/ compile_specifying_location \/ AST_from_function)
    BY <2>1 DEF new_unique_type, pushback_int, vecpb, store, compile_specifying_location, AST_from_function
  <2>7. ~ (run_null_parameter_function \/ overwrite_func \/ find_random_AST \/ add_event_root \/ clear_event_roots)
    BY <2>1 DEF run_null_parameter_function, overwrite_func, find_random_AST, add_event_root, clear_event_roots
  <2>8. ~ trace_objects
    BY <1>1 DEF trace_objects, start_GC
  <2> QED
    BY <2>3, <2>4, <2>5, <2>6, <2>7, <2>8 DEF Program
<1>2. phase # "trace" => \A op : ~ Tracing(op)
  BY DEF Tracing
<1>3. phase # "trace" => ~ sweepy_sweep
  BY DEF sweepy_sweep, BeginSweep
<1>4. phase # "sweep" => ~ sweep_gap /\ ~ sweep_end
  BY DEF sweep_gap, sweep_end, SweepGap, SweepEnd
<1> QED
  BY <1>1, <1>2, <1>3, <1>4

\* The steps of a trace.
ObjectMarks == mark_nothing \/ mark_pointer \/ mark_vector \/ mark_dynamic_object \/ mark_dynamic_contents
\* The other half of them.
OtherMarks == mark_AST \/ mark_type \/ uniquefy_premade_type \/ mark_function

\* These steps are those of a trace.
LEMMA MarksTrace == ObjectMarks \/ OtherMarks => phase = "trace"
  BY DEF ObjectMarks, OtherMarks, Tracing, Marking, mark_nothing, mark_pointer, mark_vector, mark_dynamic_object,
         mark_dynamic_contents, mark_AST, mark_type, uniquefy_premade_type, mark_function

\* Collection has these steps, and the three of the sweep.
LEMMA CollectionSteps == Collection <=> ObjectMarks \/ OtherMarks \/ sweepy_sweep \/ sweep_gap \/ sweep_end
  BY DEF Collection, ObjectMarks, OtherMarks

\* Each keeps the invariant.
LEMMA MarkStep ==
    ASSUME TraceInv, ObjectMarks \/ OtherMarks
    PROVE  TraceInv'
<1>1. PICK G, rk : TraceWorld(G, rk)
  BY DEF TraceInv
<1>2. HeapInv /\ Typings
  BY DEF TraceInv
<1>3. mark_nothing => TraceInv'
  BY <1>1, <1>2, MarkNothingStep
<1>4. mark_pointer => TraceInv'
  BY <1>1, <1>2, MarkPointerStep
<1>5. mark_vector => TraceInv'
  BY <1>1, <1>2, MarkVectorStep
<1>6. mark_dynamic_object => TraceInv'
  BY <1>1, <1>2, MarkDynamicObjectStep
<1>7. mark_dynamic_contents => TraceInv'
  BY <1>1, <1>2, MarkContentsStep
<1>8. mark_AST => TraceInv'
  BY <1>1, <1>2, MarkASTStep
<1>9. mark_type => TraceInv'
  BY <1>1, <1>2, MarkTypeStep
<1>10. uniquefy_premade_type => TraceInv'
  BY <1>1, <1>2, UniquefyStep
<1>11. mark_function => TraceInv'
  BY <1>1, <1>2, MarkFunctionStep
<1> QED
  BY <1>3, <1>4, <1>5, <1>6, <1>7, <1>8, <1>9, <1>10, <1>11 DEF ObjectMarks, OtherMarks

\* A stuttering step keeps the invariant of the trace.
LEMMA TraceStays ==
    ASSUME TraceInv, UNCHANGED vars
    PROVE  TraceInv'
<1>1. PICK G, rk : TraceWorld(G, rk)
  BY DEF TraceInv
<1>2. HeapInv /\ Typings /\ phase = "trace"
  BY DEF TraceInv
<1>3. HeapInv'
  BY <1>2, NextInv DEF vars
<1>4. PICK L, F, T, s : /\ L = living_objects /\ F = Flagged(sweep_function_pool_flags) /\ T = type_hash_table
                        /\ s = to_be_marked /\ Traced(G, rk, L, F, T, s)
  BY <1>1 DEF TraceWorld, TraceNow
<1>5. /\ phase' = "trace"
      /\ UNCHANGED <<objects, mem, type_roots, event_roots, functionVars, copier, held, error>>
      /\ sweep_function_pool_flags' \in Masks
      /\ L = living_objects' /\ T = type_hash_table' /\ s = to_be_marked'
  BY <1>2, <1>4 DEF vars, heapVars, traceVars, Typings, TraceTypings
<1>6. F = Flagged(sweep_function_pool_flags)'
  BY <1>4 DEF vars, traceVars, Flagged, Slots, Bit, Power
<1> QED
  BY <1>1, <1>2, <1>3, <1>4, <1>5, <1>6, TraceGoesOn

\* A stuttering step keeps the invariant of the sweep.
LEMMA SweepStays ==
    ASSUME SweepingInv, UNCHANGED vars
    PROVE  SweepingInv'
<1>1. PICK G, rk : SweepWorld(G, rk)
  BY DEF SweepingInv
<1>2. HeapInv /\ Typings /\ phase = "sweep"
  BY DEF SweepingInv
<1>3. HeapInv'
  BY <1>2, NextInv DEF vars
<1>4. Typings'
  BY <1>2, TypingsStay DEF vars
<1>5. Typed /\ Shape(G, rk) /\ Still
  BY <1>1, <1>2 DEF SweepWorld, Typings, HeapInv, TypeOK, Typed, Still, vars, heapVars, functionVars
<1>6. Moves(G, {})
  BY <1>5, StillMoves
<1>7. UNCHANGED <<type_hash_table, type_roots, event_roots, functionVars, traceVars, copier, held, living_objects>>
  BY DEF vars, heapVars
<1>8. SweepWorld(G, rk)'
  BY <1>1, <1>2, <1>6, <1>7, SweepMoves
<1> QED
  BY <1>2, <1>3, <1>4, <1>8 DEF SweepingInv, vars, heapVars

\* Before there are roots, while the program runs, while the collector traces,
\* while it sweeps, and when the process has stopped.
CollectorInv == StartInv \/ ProgramInv \/ TraceInv \/ SweepingInv \/ Aborted

\* The invariant is inductive.
LEMMA CollectorNext ==
    ASSUME SafeMenu, FlatTypes, CollectorInv, [Next]_vars
    PROVE  CollectorInv'
<1>1. CASE StartInv
  BY <1>1, FirstStep DEF CollectorInv
<1>2. CASE ProgramInv
  <2>1. phase = "program"
    BY <1>2 DEF ProgramInv
  <2>2. ~ Collection
    BY <2>1, OneThread, MarksTrace, CollectionSteps
  <2>3. Program => ProgramInv' \/ Aborted'
    BY <1>2, ProgramOperation
  <2>4. trace_objects => TraceInv'
    BY <1>2, TraceStarts
  <2>5. UNCHANGED vars => ProgramInv'
    BY <1>2, ProgramStays
  <2> QED
    BY <2>2, <2>3, <2>4, <2>5 DEF CollectorInv, Next
<1>3. CASE TraceInv
  <2>1. phase = "trace"
    BY <1>3 DEF TraceInv
  <2>2. ~ Program /\ ~ trace_objects /\ ~ sweep_gap /\ ~ sweep_end
    BY <2>1, OneThread
  <2>3. ObjectMarks \/ OtherMarks => TraceInv'
    BY <1>3, MarkStep
  <2>4. sweepy_sweep => SweepingInv'
    BY <1>3, SweepBegins
  <2>5. UNCHANGED vars => TraceInv'
    BY <1>3, TraceStays
  <2> QED
    BY <2>2, <2>3, <2>4, <2>5, CollectionSteps DEF CollectorInv, Next
<1>4. CASE SweepingInv
  <2>1. phase = "sweep"
    BY <1>4 DEF SweepingInv
  <2>2. ~ Program /\ ~ trace_objects /\ ~ sweepy_sweep /\ ~ ObjectMarks /\ ~ OtherMarks
    BY <2>1, OneThread, MarksTrace
  <2>3. sweep_gap => SweepingInv'
    BY <1>4, SweepGoesOn
  <2>4. sweep_end => ProgramInv'
    BY <1>4, SweepFinishes
  <2>5. UNCHANGED vars => SweepingInv'
    BY <1>4, SweepStays
  <2> QED
    BY <2>2, <2>3, <2>4, <2>5, CollectionSteps DEF CollectorInv, Next
<1>5. CASE Aborted
  BY <1>5, AbortedStays DEF CollectorInv
<1> QED
  BY <1>1, <1>2, <1>3, <1>4, <1>5 DEF CollectorInv

\* The inductive invariant of the collector holds always.
THEOREM CollectorInvariance ==
    ASSUME SafeMenu, FlatTypes
    PROVE  Spec => []CollectorInv
<1>1. Init => CollectorInv
  BY FirstState DEF CollectorInv
<1>2. CollectorInv /\ [Next]_vars => CollectorInv'
  BY CollectorNext
<1> QED
  BY <1>1, <1>2, PTL DEF Spec

------------------------------------------------------------------------------
(* What the invariant says of a state *)

\* Whatever the program or the collector does, the pool and the words have
\* their types.
LEMMA EveryState ==
    CollectorInv => /\ HeapInv /\ Typings
                    /\ phase = "program" => StartInv \/ ProgramInv
                    /\ phase = "trace" => TraceInv
                    /\ phase = "sweep" => SweepingInv
  BY DEF CollectorInv, StartInv, ProgramInv, TraceInv, SweepingInv, Aborted

\* What the types of the variables say.
LEMMA TypingsMean ==
    ASSUME HeapInv, Typings
    PROVE  CollectorTypeOK /\ FunctionsMatchModules /\ ChecksNeverFail
<1>1. TypeOK
  BY DEF HeapInv
<1> DEFINE V == 0 .. special_value
<1>9. V \subseteq Nat
  BY Sizes
<1>10. /\ mem \in [Pool -> V]
       /\ functions \in [Slots -> [the_AST : V, return_type : V, code : SUBSET Reference]]
  BY DEF Typings, FunctionTypings, MemTyped, Functional
<1> HIDE DEF V
<1>2. mem \in [Pool -> Nat]
  BY <1>9, <1>10
<1>3. functions \in [Slots -> [the_AST : Nat, return_type : Nat, code : SUBSET Reference]]
  <2>1. [the_AST : V, return_type : V, code : SUBSET Reference] \subseteq
           [the_AST : Nat, return_type : Nat, code : SUBSET Reference]
    BY <1>9
  <2> QED
    BY <1>10, <2>1
<1>4. /\ function_pool_flags \in [Blocks -> 0 .. Power[BlockBits] - 1]
      /\ sweep_function_pool_flags \in [Blocks -> 0 .. Power[BlockBits] - 1]
  BY DEF Typings, FunctionTypings, TraceTypings, Masks
<1>5. modules \subseteq Slots /\ FunctionsMatchModules
  BY FlaggedSlots DEF Typings, FunctionTypings, FunctionsMatchModules
<1>6. to_be_marked \in Seq([op : {"mark", "contents", "uniquefy"}, val : Nat, type : Nat])
  BY DEF Typings, TraceTypings
<1>7. error \in {"none", "OOM", "OOM function", "check"} /\ ChecksNeverFail
  BY DEF Typings, ChecksNeverFail
<1> QED
  BY <1>1, <1>2, <1>3, <1>4, <1>5, <1>6, <1>7 DEF CollectorTypeOK, Typings

\* While there are no roots there is nothing to reach.
LEMMA NothingReached ==
    ASSUME MemTyped, Functional, objects = {}, RootRefs \cup held = {}
    PROVE  InUse = {}
<1>1. Readable
  BY DEF Readable
<1>2. LeadOn({}) = {} /\ FunctionASTs({}) = {}
  BY DEF LeadOn, FunctionASTs
<1>3. FullLeadOn({}) = {}
  BY <1>2 DEF FullLeadOn
<1>4. {} \in SUBSET Reference
  OBVIOUS
<1>5. FullClosure[{}] \subseteq {}
  BY <1>1, <1>3, <1>4, ClosureIsLeast
<1> QED
  BY <1>5 DEF InUse

\* A program that has made nothing reaches nothing.
LEMMA FreshReachesNothing ==
    ASSUME StartInv
    PROVE  InUse = {}
<1>1. MemTyped /\ Functional /\ objects = {}
  BY DEF StartInv, Typings, FunctionTypings, Fresh
<1>2. type_roots = <<>> /\ event_roots = <<>> /\ held = {}
  BY DEF StartInv, Fresh
<1>3. RootRefs \cup held = {}
  BY <1>2 DEF RootRefs
<1> QED
  BY <1>1, <1>3, NothingReached

\* What the program reaches is in the world.
LEMMA InUseInWorld ==
    ASSUME HeapInv, Typings, NEW G, NEW rk, World(G, rk)
    PROVE  InUse \subseteq G
<1>1. Shape(G, rk) /\ RootRefs \cup held \subseteq G
  BY DEF World
<1> QED
  BY <1>1, KnownInShape DEF Typings, FunctionTypings

\* A reference of a shape owns words exactly if it is the address of an object.
LEMMA ExtentWhenSolid ==
    ASSUME NEW G, NEW rk, Typed, Shape(G, rk), NEW r \in G
    PROVE  Extent(r) > 0 <=> Solid(r)
<1>1. Solid(r) => Extent(r) > 0
  BY SolidFacts
<1>2. ASSUME ~ Solid(r)
      PROVE  Extent(r) = 0
  <2>1. Sound(rk, r)
    BY DEF Shape
  <2>2. r.type \in FieldlessTypes => Extent(r) = 0
    BY <1>2, ExtentByKind
  <2>3. CASE r.type \notin FieldlessTypes
    <3>1. r.val # 0 /\ r.type \notin {integer, function_pointer, type_pointer}
      BY <2>1, <2>3, Tags DEF Sound
    <3> QED
      BY <1>2, <3>1 DEF Solid
  <2> QED
    BY <2>2, <2>3
<1> QED
  BY <1>1, <1>2

\* So what it reaches is intact.
LEMMA WorldIsIntact ==
    ASSUME ProgramInv
    PROVE  Intact
<1>1. PICK G, rk : World(G, rk)
  BY DEF ProgramInv
<1>2. HeapInv /\ Typings
  BY DEF ProgramInv
<1>3. Typed /\ Shape(G, rk) /\ InUse \subseteq G
  BY <1>1, <1>2, WorldFacts, InUseInWorld
<1>4. modules = Flagged(function_pool_flags)
  BY <1>2 DEF Typings, FunctionTypings
<1>5. ASSUME NEW r \in InUse
      PROVE  /\ r.type = function_pointer /\ r.val # 0 =>
                    r.val \in Flagged(function_pool_flags) \cap modules
             /\ Extent(r) > 0 => [addr |-> r.val, size |-> Extent(r)] \in objects
  <2>1. r \in G /\ Sound(rk, r)
    BY <1>3 DEF Shape
  <2>2. r.type = function_pointer /\ r.val # 0 => r.val \in Flagged(function_pool_flags)
    BY <2>1 DEF Sound
  <2>3. Extent(r) > 0 => Solid(r)
    BY <1>3, <2>1, ExtentWhenSolid
  <2>4. Solid(r) => [addr |-> r.val, size |-> Extent(r)] \in objects
    BY <2>1 DEF Sound, BlockOf
  <2> QED
    BY <1>4, <2>2, <2>3, <2>4
<1> QED
  BY <1>5 DEF Intact

\* The types without fields are all different.
LEMMA FieldlessApart ==
    \A t, u \in FieldlessTypes : SameType(t, u) => t = u
<1>1. \A t \in FieldlessTypes : ver(t) = t
  BY Fieldless, Tags
<1> QED
  BY <1>1 DEF SameType

\* The types of the world are unique.
LEMMA WorldTypesUnique ==
    ASSUME ProgramInv
    PROVE  TypesUnique
<1>1. PICK G, rk : World(G, rk)
  BY DEF ProgramInv
<1>2. HeapInv /\ Typings
  BY DEF ProgramInv
<1>3. Typed /\ Shape(G, rk) /\ InUse \subseteq G
  BY <1>1, <1>2, WorldFacts, InUseInWorld
<1>4. TypesApart(G) /\ Tabled(G)
  BY <1>1 DEF World
<1> DEFINE types == {r.val : r \in {q \in InUse : q.type = type_pointer}} \ {0}
           all == FieldlessTypes \cup HeapTypes(G)
<1>5. types \subseteq all
  <2> SUFFICES ASSUME NEW r \in InUse, r.type = type_pointer, r.val # 0
               PROVE  r.val \in all
    OBVIOUS
  <2>1. r \in G /\ Sound(rk, r)
    BY <1>3 DEF Shape
  <2>2. r.val \in FieldlessTypes \/ IsHeapType(r.val)
    BY <2>1 DEF Sound
  <2>3. r \in Reference /\ r = Ref(r.val, r.type) /\ r.val \in Nat
    BY <1>3, <2>1, Refs DEF Shape
  <2> QED
    BY <2>1, <2>2, <2>3 DEF HeapTypes
<1>6. type_hash_table \subseteq all
  BY <1>4 DEF Tabled
<1>7. \A t, u \in all : SameType(t, u) => t = u
  <2>1. \A t \in HeapTypes(G) : ver(t) \in {con_vec, vector, pointer}
    BY <1>3, TypeFacts
  <2>2. \A t \in FieldlessTypes : ver(t) = t /\ t \notin {con_vec, vector, pointer}
    BY Fieldless, Tags
  <2>3. \A t \in FieldlessTypes, u \in HeapTypes(G) : ~ SameType(t, u) /\ ~ SameType(u, t)
    BY <2>1, <2>2 DEF SameType
  <2> QED
    BY <1>4, <2>3, FieldlessApart DEF TypesApart
<1>8. {t \in types : IsHeapType(t)} \subseteq type_hash_table
  <2>1. {t \in all : IsHeapType(t)} \subseteq HeapTypes(G)
    BY Tags
  <2> QED
    BY <1>4, <1>5, <2>1 DEF Tabled
<1>9. \A t \in type_hash_table : Range(Subtypes(t)) \subseteq type_hash_table
  <2>1. \A t \in FieldlessTypes : Range(Subtypes(t)) = {}
    BY Fieldless, Tags DEF Range
  <2> QED
    BY <1>4, <2>1 DEF Tabled
<1> HIDE DEF types, all
<1>10. \A t, u \in types \cup type_hash_table : SameType(t, u) => t = u
  BY <1>5, <1>6, <1>7
<1> QED
  BY <1>8, <1>9, <1>10 DEF TypesUnique, types

\* So are those of a program that has made nothing.
LEMMA FreshTypesUnique ==
    ASSUME StartInv
    PROVE  TypesUnique /\ Intact
<1>1. InUse = {}
  BY FreshReachesNothing
<1>2. type_hash_table = FieldlessTypes
  BY DEF StartInv, Fresh
<1>3. \A t \in FieldlessTypes : Range(Subtypes(t)) = {}
  BY Fieldless, Tags DEF Range
<1>4. {r.val : r \in {q \in InUse : q.type = type_pointer}} \ {0} = {}
  BY <1>1
<1> QED
  BY <1>1, <1>2, <1>3, <1>4, FieldlessApart DEF TypesUnique, Intact

\* What the roots reach is what has been marked.
LEMMA RootedInShape ==
    ASSUME NEW G, NEW rk, Typed, Functional, Shape(G, rk), RootRefs \subseteq G, held = {}, Minimal(G)
    PROVE  Rooted \subseteq G /\ G \subseteq Rooted \cup Base
<1>1. Rooted \subseteq G
  BY KnownInShape DEF Typed
<1>2. Readable
  BY ShapeReads DEF Typed
<1>3. RootRefs \in SUBSET Reference
  BY DEF Shape
<1>4. FullLeadOn(Rooted) = Rooted /\ RootRefs \subseteq Rooted
  BY <1>2, <1>3, ClosureIsLeast DEF Rooted
<1>5. \A r \in Rooted : Sound(rk, r)
  BY <1>1 DEF Shape
<1>6. Closed(Rooted) /\ ASTsKept(Rooted)
  BY <1>4, <1>5, ClosedLeadsOn
<1> QED
  BY <1>1, <1>4, <1>6 DEF Minimal

\* The nulls and the types without fields have no objects.
LEMMA BaseIsNotSolid ==
    \A r \in Base : ~ Solid(r) /\ (r.type = function_pointer => r.val = 0)
  BY Tags, Refs DEF Base, Solid

\* What the roots own is the whole of a minimal shape.
LEMMA OwnedIsMarked ==
    ASSUME NEW G, NEW rk, Typed, Functional, Shape(G, rk), RootRefs \subseteq G, held = {}, Minimal(G)
    PROVE  /\ Owned(Rooted) = {BlockOf(r) : r \in {q \in G : Solid(q)}}
           /\ {r.val : r \in {q \in Rooted : q.type = function_pointer}} \ {0} =
                 {f \in Slots : Ref(f, function_pointer) \in G}
<1>1. Rooted \subseteq G /\ G \subseteq Rooted \cup Base
  BY RootedInShape
<1>2. \A r \in G : Extent(r) > 0 <=> Solid(r)
  BY ExtentWhenSolid
<1>3. {q \in Rooted : Extent(q) > 0} = {q \in G : Solid(q)}
  BY <1>1, <1>2, BaseIsNotSolid
<1>4. Owned(Rooted) = {BlockOf(r) : r \in {q \in G : Solid(q)}}
  BY <1>3 DEF Owned, BlockOf
<1>5. ASSUME NEW r \in Rooted, r.type = function_pointer, r.val # 0
      PROVE  r.val \in {f \in Slots : Ref(f, function_pointer) \in G}
  <2>1. r \in G /\ r = Ref(r.val, function_pointer) /\ Sound(rk, r)
    BY <1>1, <1>5, Refs DEF Shape
  <2>2. r.val \in Slots
    BY <1>5, <2>1, FlaggedSlots DEF Sound
  <2> QED
    BY <2>1, <2>2
<1>6. ASSUME NEW f \in Slots, Ref(f, function_pointer) \in G
      PROVE  f # 0 /\ Ref(f, function_pointer) \in Rooted
  <2>1. f # 0
    BY DEF Slots
  <2> QED
    BY <1>1, <1>6, <2>1, BaseIsNotSolid, Refs
<1>7. {r.val : r \in {q \in Rooted : q.type = function_pointer}} \ {0} =
         {f \in Slots : Ref(f, function_pointer) \in G}
  <2>1. {r.val : r \in {q \in Rooted : q.type = function_pointer}} \ {0} \subseteq
           {f \in Slots : Ref(f, function_pointer) \in G}
    BY <1>5
  <2>2. {f \in Slots : Ref(f, function_pointer) \in G} \subseteq
           {r.val : r \in {q \in Rooted : q.type = function_pointer}} \ {0}
    <3> SUFFICES ASSUME NEW f \in Slots, Ref(f, function_pointer) \in G
                 PROVE  f \in {r.val : r \in {q \in Rooted : q.type = function_pointer}} \ {0}
      OBVIOUS
    <3>1. f # 0 /\ Ref(f, function_pointer) \in Rooted
      BY <1>6
    <3>2. Ref(f, function_pointer).val = f /\ Ref(f, function_pointer).type = function_pointer
      BY Refs
    <3> QED
      BY <3>1, <3>2
  <2> QED
    BY <2>1, <2>2
<1> QED
  BY <1>4, <1>7

\* A sweep keeps exactly what the roots own.
LEMMA SweepIsRooted ==
    ASSUME SweepingInv
    PROVE  LivingIsRooted
<1>1. PICK G, rk : SweepWorld(G, rk)
  BY DEF SweepingInv
<1>2. Typed /\ Functional
  BY DEF SweepingInv, HeapInv, TypeOK, Typed, Typings, FunctionTypings
<1>3. /\ Shape(G, rk) /\ RootRefs \subseteq G /\ held = {} /\ Minimal(G)
      /\ living_objects = {BlockOf(r) : r \in {q \in G : Solid(q)}}
      /\ Flagged(sweep_function_pool_flags) = {f \in Slots : Ref(f, function_pointer) \in G}
  BY <1>1 DEF SweepWorld
<1>4. /\ Owned(Rooted) = {BlockOf(r) : r \in {q \in G : Solid(q)}}
      /\ {r.val : r \in {q \in Rooted : q.type = function_pointer}} \ {0} =
             {f \in Slots : Ref(f, function_pointer) \in G}
  BY <1>2, <1>3, OwnedIsMarked
<1> QED
  BY <1>3, <1>4 DEF LivingIsRooted

-----------------------------------------------------------------------------
(* What a step does to the words and to the pool *)

\* Marking writes to no word: a type that is made unique has unique fields already.
LEMMA MarksWriteNothing ==
    ASSUME TraceInv, ObjectMarks \/ OtherMarks, error' # "check"
    PROVE  mem' = mem
<1>1. mark_nothing \/ mark_pointer \/ mark_vector => mem' = mem
  BY DEF mark_nothing, mark_pointer, mark_vector, Visit, CheckedElseAbort
<1>2. mark_dynamic_object \/ mark_dynamic_contents \/ mark_AST => mem' = mem
  BY DEF mark_dynamic_object, mark_dynamic_contents, mark_AST, Visit, CheckedElseAbort
<1>3. mark_type \/ mark_function => mem' = mem
  BY DEF mark_type, mark_function, Visit, CheckedElseAbort
<1>4. uniquefy_premade_type => mem' = mem
  BY TypesUnwritten
<1> QED
  BY <1>1, <1>2, <1>3, <1>4 DEF ObjectMarks, OtherMarks

\* The words of an object stay while the gaps between them are overwritten.
LEMMA SweepWritesGaps ==
    ASSUME SweepingInv, sweep_gap \/ sweep_end, NEW o \in objects, NEW w \in Words(o)
    PROVE  mem'[w] = mem[w]
<1>1. HeapInv /\ Typings /\ phase = "sweep" /\ MemTyped /\ o \in Block
  BY DEF SweepingInv, Typings, HeapInv, TypeOK
<1>2. w \in Pool
  BY <1>1, BlockFacts, Sizes DEF Words, Pool
<1>3. CASE sweep_gap
  <2>1. PICK l \in NextLiving : mem' = Cleared(l.addr)
    BY <1>3 DEF sweep_gap
  <2>2. l \in living_objects /\ l \in Block
    BY <1>1, <2>1 DEF NextLiving, AtOrAfterCursor, HeapInv, TypeOK
  <2>3. l.addr \in Nat /\ \A m \in living_objects : m.addr >= memory_incrementor => l.addr <= m.addr
    BY <2>1, <2>2, BlockFacts DEF NextLiving, AtOrAfterCursor
  <2>4. w \notin memory_incrementor .. l.addr - 1
    BY <1>1, <2>3, GapIsFree
  <2> QED
    BY <1>2, <2>1, <2>4 DEF Cleared
<1>4. CASE sweep_end
  <2>1. mem' = Cleared(PoolEnd) /\ AtOrAfterCursor = {}
    BY <1>4 DEF sweep_end, SweepEnd
  <2>2. w \notin memory_incrementor .. PoolEnd - 1
    BY <1>1, <2>1, RestIsFree
  <2> QED
    BY <1>2, <2>1, <2>2 DEF Cleared
<1> QED
  BY <1>3, <1>4

\* What the roots own is in use.
LEMMA RootedIsInUse ==
    ASSUME SweepingInv
    PROVE  Owned(Rooted) \subseteq objects
<1>1. PICK G, rk : SweepWorld(G, rk)
  BY DEF SweepingInv
<1>2. LivingIsRooted /\ phase = "sweep" /\ HeapInv
  BY SweepIsRooted DEF SweepingInv
<1>3. Owned(Rooted) = living_objects
  BY <1>2 DEF LivingIsRooted
<1> QED
  BY <1>2, <1>3 DEF HeapInv, MarksInv

\* What SurvivorsUntouched says of a step.
Untouched ==
    phase \in {"trace", "sweep"} =>
        \A b \in Owned(Rooted) : \A w \in Words(b) : mem'[w] = mem[w]

\* Every step of the collector does so.
LEMMA StepLeavesSurvivors ==
    ASSUME CollectorInv, CollectorInv', [Next]_vars
    PROVE  Untouched
<1>1. error' # "check"
  BY EveryState DEF CollectorInv, StartInv, ProgramInv, TraceInv, SweepingInv, Aborted, Typings
<1>2. UNCHANGED vars => Untouched
  BY DEF Untouched, vars
<1>3. CASE phase = "trace" /\ Next
  <2>1. ~ Program /\ ~ trace_objects /\ ~ sweep_gap /\ ~ sweep_end
    BY <1>3, OneThread
  <2>2. sweepy_sweep => mem' = mem
    BY DEF sweepy_sweep
  <2>3. TraceInv
    BY <1>3, EveryState
  <2>4. mem' = mem
    BY <1>1, <1>3, <2>1, <2>2, <2>3, MarksWriteNothing, CollectionSteps DEF Next
  <2> QED
    BY <2>4 DEF Untouched
<1>4. CASE phase = "sweep" /\ Next
  <2>1. ~ Program /\ ~ trace_objects /\ ~ sweepy_sweep /\ ~ ObjectMarks /\ ~ OtherMarks
    BY <1>4, OneThread, MarksTrace
  <2>2. sweep_gap \/ sweep_end
    BY <1>4, <2>1, CollectionSteps DEF Next
  <2>3. SweepingInv
    BY <1>4, EveryState
  <2> QED
    BY <2>2, <2>3, RootedIsInUse, SweepWritesGaps DEF Untouched
<1>5. phase \notin {"trace", "sweep"} => Untouched
  BY DEF Untouched
<1> QED
  BY <1>2, <1>3, <1>4, <1>5

-----------------------------------------------------------------------------
(* The collector uses the word pool as its contract says *)

\* allocate() is asked for any number of words.
AnyRequest == 1 .. pool_size \subseteq Requests

\* A step that asks the pool for a block, or for two.
Allocates ==
    \/ \E size : \E k \in BestFit(free_memory, size) : AllocateAt(size, k)
    \/ \E first, second :
          \E k \in BestFit(free_memory, first) :
              \E l \in BestFit(Taken(free_memory, k, first), second) :
                  AllocateTwoAt(first, k, second, l)

\* What an operation of the program does to the pool.
LEMMA ProgramAllocates ==
    ASSUME Program
    PROVE  \/ Allocates
           \/ UNCHANGED heapVars
           \/ FailElsewhere
           \/ out_of_memory
<1>1. initialize => Allocates
  BY DEF initialize, Allocates
<1>2. new_AST => Allocates
  BY DEF new_AST, Allocates
<1>3. new_imv_AST => Allocates
  BY DEF new_imv_AST, Allocates
<1>4. new_basicblock => Allocates
  BY DEF new_basicblock, BasicblockAt, Allocates
<1>5. (\E t : DynamicWith(t)) => Allocates
  BY DEF DynamicWith, Allocates
<1>6. new_dynamic_obj => Allocates
  BY <1>5 DEF new_dynamic_obj
<1>7. new_pointer => Allocates
  BY DEF new_pointer, Allocates
<1>8. new_vector => Allocates
  BY DEF new_vector, Allocates
<1>9. new_unique_type => Allocates
  <2> SUFFICES ASSUME new_unique_type
               PROVE  Allocates
    OBVIOUS
  <2>1. PICK tag \in DOMAIN TypeShapes :
        \E given \in [1 .. (IF tag = con_vec THEN 2 ELSE 1) ->
                      {t \in Objects(type_pointer) \cup FieldlessTypes : ver(t) \in TypeShapes[tag]}] :
           LET subs == [i \in DOMAIN given |-> Unique(given[i])]
               words == TypeWords(tag, subs)
               size == Len(words)
               created == {u \in Range(given) : InTable(u) = {}}
               same == Existing(tag, subs)
           IN  TypeOp(words, size, subs, tag, created, same)
    BY DEF new_unique_type, TypeOp
  <2>2. \E words, size, subs, created, same : TypeOp(words, size, subs, tag, created, same)
    BY <2>1
  <2>3. \A words, size, subs, created, same : TypeOp(words, size, subs, tag, created, same) => Allocates
    BY DEF TypeOp, Allocates
  <2> QED
    BY <2>2, <2>3
<1>10. pushback_int \/ vecpb => Allocates \/ UNCHANGED heapVars
  BY DEF pushback_int, vecpb, Allocates
<1>11. store \/ compile_specifying_location \/ AST_from_function \/ copy_found => UNCHANGED heapVars
  BY DEF store, compile_specifying_location, AST_from_function, copy_found
<1>12. copy_imv => Allocates
  BY DEF copy_imv, Allocates
<1>13. copy_basicblock => Allocates
  BY DEF copy_basicblock, Allocates
<1>14. copy_AST => Allocates
  BY DEF copy_AST, Allocates
<1>15. compiled => FailElsewhere \/ UNCHANGED heapVars
  BY DEF compiled, FailElsewhere
<1>16. run_null_parameter_function => Allocates \/ UNCHANGED heapVars
  BY <1>5 DEF run_null_parameter_function
<1>17. overwrite_func \/ find_random_AST \/ add_event_root \/ clear_event_roots => UNCHANGED heapVars
  BY DEF overwrite_func, find_random_AST, add_event_root, clear_event_roots
<1> QED
  BY <1>1, <1>2, <1>3, <1>4, <1>6, <1>7, <1>8, <1>9, <1>10, <1>11, <1>12, <1>13, <1>14, <1>15,
     <1>16, <1>17 DEF Program

\* What is allocated is a block of the pool, so it was asked for.
LEMMA IssuedIsAsked ==
    ASSUME AnyRequest, NEW k, NEW size, Issued(k, size) \in Block
    PROVE  size \in Requests
<1>1. Issued(k, size).size \in 1 .. pool_size
  BY DEF Block
<1> QED
  BY <1>1 DEF Issued, AnyRequest

\* It is one of the pool.
LEMMA AllocatesAsked ==
    ASSUME AnyRequest, Allocates, objects' \subseteq Block
    PROVE  HeapNext
<1>1. CASE \E size : \E k \in BestFit(free_memory, size) : AllocateAt(size, k)
  <2>1. PICK size : \E k \in BestFit(free_memory, size) : AllocateAt(size, k)
    BY <1>1
  <2>2. PICK k \in BestFit(free_memory, size) : AllocateAt(size, k)
    BY <2>1
  <2>3. size \in Requests
    BY <2>2, IssuedIsAsked DEF AllocateAt
  <2> QED
    BY <2>2, <2>3 DEF HeapNext, AllocateOne
<1>2. CASE \E first, second :
              \E k \in BestFit(free_memory, first) :
                  \E l \in BestFit(Taken(free_memory, k, first), second) :
                      AllocateTwoAt(first, k, second, l)
  <2>1. PICK first, second :
              \E k \in BestFit(free_memory, first) :
                  \E l \in BestFit(Taken(free_memory, k, first), second) :
                      AllocateTwoAt(first, k, second, l)
    BY <1>2
  <2>2. PICK k \in BestFit(free_memory, first) :
              \E l \in BestFit(Taken(free_memory, k, first), second) :
                  AllocateTwoAt(first, k, second, l)
    BY <2>1
  <2>3. PICK l \in BestFit(Taken(free_memory, k, first), second) : AllocateTwoAt(first, k, second, l)
    BY <2>2
  <2>4. first \in Requests /\ second \in Requests
    BY <2>3, IssuedIsAsked DEF AllocateTwoAt
  <2> QED
    BY <2>3, <2>4 DEF HeapNext, AllocateTwo
<1> QED
  BY <1>1, <1>2 DEF Allocates

\* What a step of the trace does to the pool.
LEMMA VisitFinds ==
    ASSUME NEW addr, NEW size, NEW children, Visit(addr, size, children), error' # "check",
           living_objects' \subseteq objects', phase' = "trace"
    PROVE  \/ UNCHANGED heapVars
           \/ \E o \in objects : found_living_object(o.addr, o.size)
<1>1. found_living_object(addr, size)
  BY DEF Visit, CheckedElseAbort
<1>2. CASE \E l \in living_objects : l.addr = addr
  BY <1>1, <1>2 DEF found_living_object, heapVars
<1>3. CASE ~ \E l \in living_objects : l.addr = addr
  <2>1. [addr |-> addr, size |-> size] \in objects
    BY <1>1, <1>3 DEF found_living_object
  <2> QED
    BY <1>1, <2>1
<1> QED
  BY <1>2, <1>3

\* A step of the trace finds an object of the pool, or leaves the pool alone.
LEMMA MarksFind ==
    ASSUME ObjectMarks \/ OtherMarks, error' # "check", living_objects' \subseteq objects', phase' = "trace"
    PROVE  \/ UNCHANGED heapVars
           \/ \E o \in objects : found_living_object(o.addr, o.size)
<1>1. mark_nothing \/ mark_dynamic_object \/ mark_function => UNCHANGED heapVars
  BY DEF mark_nothing, mark_dynamic_object, mark_function
<1>2. uniquefy_premade_type => UNCHANGED heapVars
  BY DEF uniquefy_premade_type, CheckedElseAbort
<1>3. mark_pointer \/ mark_vector \/ mark_dynamic_contents \/ mark_AST =>
          \E addr, size, children : Visit(addr, size, children)
  BY DEF mark_pointer, mark_vector, mark_dynamic_contents, mark_AST
<1>4. mark_type => UNCHANGED heapVars \/ \E addr, size, children : Visit(addr, size, children)
  BY DEF mark_type
<1> QED
  BY <1>1, <1>2, <1>3, <1>4, VisitFinds DEF ObjectMarks, OtherMarks

\* Every step of the collector is one of the pool, or leaves it alone.
LEMMA StepOfThePool ==
    ASSUME AnyRequest, SafeMenu, FlatTypes, CollectorInv, [Next]_vars
    PROVE  [HeapNext]_heapVars
<1>1. CollectorInv' /\ HeapInv' /\ Typings'
  <2>1. CollectorInv'
    BY CollectorNext
  <2> QED
    BY <2>1 DEF CollectorInv, StartInv, ProgramInv, TraceInv, SweepingInv, Aborted
<1>2. objects' \subseteq Block /\ living_objects' \subseteq objects' /\ error' # "check"
  BY <1>1 DEF HeapInv, TypeOK, MarksInv, Typings, Block, PoolEnd
<1>3. UNCHANGED vars => UNCHANGED heapVars
  BY DEF vars
<1>4. out_of_memory => HeapNext
  BY DEF out_of_memory, HeapNext
<1>5. Program => [HeapNext]_heapVars
  BY <1>2, <1>4, ProgramAllocates, AllocatesAsked DEF HeapNext
<1>6. trace_objects => HeapNext
  BY DEF trace_objects, HeapNext
<1>7. ASSUME ObjectMarks \/ OtherMarks
      PROVE  [HeapNext]_heapVars
  <2>1. TraceInv
    BY <1>7, MarksTrace, EveryState
  <2>2. phase' = "trace"
    BY <1>7, <2>1, MarkStep DEF TraceInv
  <2> QED
    BY <1>2, <1>7, <2>2, MarksFind DEF HeapNext
<1>8. sweepy_sweep \/ sweep_gap \/ sweep_end => HeapNext
  BY DEF sweepy_sweep, sweep_gap, sweep_end, HeapNext
<1> QED
  BY <1>3, <1>5, <1>6, <1>7, <1>8, CollectionSteps DEF Next

-----------------------------------------------------------------------------
(* A deep copy *)

\* The copy and the original have no AST in common.
LEMMA CopiesApart ==
    ASSUME HeapInv, Typings, NEW G, NEW rk, World(G, rk), "basicblock" \notin Menu,
           copier # NoCopy, copier.todo = <<>>
    PROVE  ASTsFrom[{copier.result} \ {0}] \cap ASTsFrom[{copier.source} \ {0}] = {}
<1>1. PICK P : Guard(G, P)
  BY DEF World, Guarded
<1>2. PICK a, b : a = copier.source /\ b = copier.result
  OBVIOUS
<1>3. /\ Copies \subseteq ASTsIn(G) /\ FieldsClosed(Copies)
      /\ b # 0 => Ref(b, AST_pointer) \in Copies
  BY <1>1, <1>2, CopiesTogether
<1>4. Ref(a, AST_pointer) \in G /\ Ref(a, AST_pointer) \notin Copies /\ P \cap Copies = {}
  BY <1>1, <1>2 DEF World, CopierIn, Guard, CopierGuard
<1>5. PICK T : T = ASTsIn(G) \ Copies
  OBVIOUS
<1>6. FieldsClosed(T)
  <2> SUFFICES ASSUME NEW r \in T, NEW q, q \in Targets(r), q.type = AST_pointer, q.val # 0
               PROVE  q \in T
    BY DEF FieldsClosed
  <2>1. r \in G /\ r \notin Copies /\ q \in ASTsIn(G)
    <3>1. FieldsClosed(ASTsIn(G))
      BY WorldFacts, AllASTs
    <3> QED
      BY <1>5, <3>1 DEF FieldsClosed, ASTsIn
  <2>2. CASE r \in P
    <3>1. q \in P
      BY <1>1, <2>2 DEF Guard, FieldsClosed
    <3> QED
      BY <1>4, <1>5, <2>1, <3>1
  <2>3. CASE r \notin P
    <3>1. q \notin Copies
      BY <1>1, <2>1, <2>3 DEF Guard
    <3> QED
      BY <1>5, <2>1, <3>1
  <2> QED
    BY <2>2, <2>3
<1>7. b # 0 => \A x \in ASTsFrom[{b}] : Ref(x, AST_pointer) \in Copies
  <2>1. Copies \in SUBSET ASTsIn(G)
    BY <1>3
  <2> QED
    BY <1>3, <2>1, ASTsFromInside
<1>8. a # 0 => \A x \in ASTsFrom[{a}] : Ref(x, AST_pointer) \notin Copies
  <2>1. T \in SUBSET ASTsIn(G)
    BY <1>5
  <2>2. a # 0 => Ref(a, AST_pointer) \in T
    BY <1>4, <1>5, Refs DEF ASTsIn
  <2>3. a # 0 => \A x \in ASTsFrom[{a}] : Ref(x, AST_pointer) \in T
    BY <1>6, <2>1, <2>2, ASTsFromInside
  <2> QED
    BY <1>5, <2>3
<1>9. ASTsFrom[{}] = {}
  <2>1. Readable
    BY WorldFacts, ShapeReads DEF Typings, FunctionTypings
  <2>2. Below({}) = {}
    BY DEF Below
  <2>3. PICK as : as = {}
    OBVIOUS
  <2>4. as \in SUBSET (1 .. special_value) /\ Below(as) \subseteq as
    BY <2>2, <2>3
  <2> QED
    BY <2>1, <2>3, <2>4, ASTsFromIsLeast
<1>10. (b = 0 => {b} \ {0} = {}) /\ (b # 0 => {b} \ {0} = {b}) /\ (a = 0 => {a} \ {0} = {}) /\ (a # 0 => {a} \ {0} = {a})
  OBVIOUS
<1>11. ASTsFrom[{b} \ {0}] \cap ASTsFrom[{a} \ {0}] = {}
  <2>1. CASE a = 0 \/ b = 0
    BY <1>9, <1>10, <2>1
  <2>2. CASE a # 0 /\ b # 0
    BY <1>7, <1>8, <1>10, <2>2
  <2> QED
    BY <2>1, <2>2
<1> QED
  BY <1>2, <1>11

\* The copy has the fields of the original, each copied.
LEMMA FieldsAreCopies ==
    ASSUME HeapInv, Typings, NEW G, NEW rk, World(G, rk), "basicblock" \notin Menu,
           copier # NoCopy, copier.todo = <<>>, NEW a \in DOMAIN copier.copied \ {0}, NEW b, b = copier.copied[a]
    PROVE  /\ Word(a) = Word(b)
           /\ [i \in DOMAIN AST_range(a) |-> copier.copied[AST_range(a)[i].val]] =
              [i \in DOMAIN AST_range(b) |-> AST_range(b)[i].val]
<1>1. PICK P : Guard(G, P)
  BY DEF World, Guarded
<1>2. PICK f : f = copier.copied
  OBVIOUS
<1>3. Ref(a, AST_pointer) \in G /\ CopyOf(f, <<>>, a, b)
  BY <1>1, <1>2 DEF Guard, CopierGuard, Mirror
<1>4. Word(a) = Word(b)
  BY <1>3 DEF CopyOf
<1>5. IsTag(Word(a)) /\ Word(a) # basicblock
  BY <1>3, ASTOfWorld
<1>6. CASE Word(a) = imv
  <2>1. AST_range(a) = <<>> /\ AST_range(b) = <<>>
    <3>1. Word(b) = imv /\ imv # basicblock
      BY <1>4, <1>6, Tags
    <3>2. AST_range(a) = <<>>
      BY <1>6, <3>1 DEF AST_range
    <3>3. AST_range(b) = <<>>
      BY <3>1 DEF AST_range
    <3> QED
      BY <3>2, <3>3
  <2> QED
    BY <1>4, <2>1
<1>7. CASE Word(a) # imv
  <2>1. Word(a) \in DOMAIN ASTFields /\ Word(b) # imv /\ Word(b) # basicblock
    BY <1>4, <1>5, <1>7 DEF IsTag
  <2>2. PICK n : n = ASTFields[Word(a)]
    OBVIOUS
  <2>3. get_field_size_of_AST(Word(a)) = n /\ get_field_size_of_AST(Word(b)) = n
    BY <1>4, <1>5, <1>7, <2>1, <2>2 DEF get_field_size_of_AST
  <2>4. /\ AST_range(a) = [i \in 1 .. n |-> Ref(Word(a + i), AST_pointer)]
        /\ AST_range(b) = [i \in 1 .. n |-> Ref(Word(b + i), AST_pointer)]
    BY <1>5, <1>7, <2>1, <2>3 DEF AST_range
  <2>5. ASSUME NEW i \in 1 .. n
        PROVE  f[AST_range(a)[i].val] = AST_range(b)[i].val
    <3>1. AST_range(a)[i].val = Word(a + i) /\ AST_range(b)[i].val = Word(b + i)
      BY <2>4, Refs
    <3>2. FieldCopied(f, <<>>, a, b, i)
      BY <1>3, <2>1, <2>2 DEF CopyOf
    <3>3. Word(b + i) = f[Word(a + i)]
      BY <3>2 DEF FieldCopied, Range
    <3> QED
      BY <3>1, <3>3
  <2>6. DOMAIN AST_range(a) = 1 .. n /\ DOMAIN AST_range(b) = 1 .. n
    BY <2>4
  <2> QED
    BY <1>2, <1>4, <2>5, <2>6
<1> QED
  BY <1>6, <1>7

\* So a complete copy is one.
LEMMA WorldCopies ==
    ASSUME ProgramInv, "basicblock" \notin Menu
    PROVE  CopyIsDeep
<1>1. PICK G, rk : World(G, rk)
  BY DEF ProgramInv
<1>2. HeapInv /\ Typings
  BY DEF ProgramInv
<1> QED
  BY <1>1, <1>2, CopiesApart, FieldsAreCopies DEF CopyIsDeep

-----------------------------------------------------------------------------
(* The properties *)

\* Type correctness of the collector: every variable keeps its type, whatever
\* the program does and wherever a collection is.
THEOREM CollectorTyped ==
    ASSUME SafeMenu, FlatTypes
    PROVE  Spec => []CollectorTypeOK
<1>1. CollectorInv => CollectorTypeOK
  BY EveryState, TypingsMean
<1> QED
  BY <1>1, CollectorInvariance, PTL

\* No check() of the collector fails: no null where none is allowed, no object
\* out of bounds, no type to allocate while collecting (memory.cpp).
THEOREM NoCheckFails ==
    ASSUME SafeMenu, FlatTypes
    PROVE  Spec => []ChecksNeverFail
<1>1. CollectorInv => ChecksNeverFail
  BY EveryState, TypingsMean
<1> QED
  BY <1>1, CollectorInvariance, PTL

\* A slot of the function pool is taken exactly when the JIT holds its code.
THEOREM SlotsMatchModules ==
    ASSUME SafeMenu, FlatTypes
    PROVE  Spec => []FunctionsMatchModules
<1>1. CollectorInv => FunctionsMatchModules
  BY EveryState, TypingsMean
<1> QED
  BY <1>1, CollectorInvariance, PTL

\* Every reference the program can reach leads to a live block of exactly the
\* size it is used with, or to a function whose code is there.
THEOREM IntactAlways ==
    ASSUME SafeMenu, FlatTypes
    PROVE  Spec => []Intact
<1>1. CollectorInv => Intact
  <2>1. phase # "program" => Intact
    BY DEF Intact
  <2> QED
    BY <2>1, EveryState, FreshTypesUnique, WorldIsIntact
<1> QED
  BY <1>1, CollectorInvariance, PTL

\* Types that are the same are identical, so that words can be compared.
THEOREM TypesUniqueAlways ==
    ASSUME SafeMenu, FlatTypes
    PROVE  Spec => []TypesUnique
<1>1. CollectorInv => TypesUnique
  <2>1. phase # "program" => TypesUnique
    BY DEF TypesUnique
  <2> QED
    BY <2>1, EveryState, FreshTypesUnique, WorldTypesUnique
<1> QED
  BY <1>1, CollectorInvariance, PTL

\* A finished trace has found exactly what the roots own.
THEOREM LivingIsRootedAlways ==
    ASSUME SafeMenu, FlatTypes
    PROVE  Spec => []LivingIsRooted
<1>1. CollectorInv => LivingIsRooted
  <2>1. phase # "sweep" => LivingIsRooted
    BY DEF LivingIsRooted
  <2> QED
    BY <2>1, EveryState, SweepIsRooted
<1> QED
  BY <1>1, CollectorInvariance, PTL

\* Whatever leads to an object first, it is marked with the size the program
\* sees: where no pointer leads to a con_vec, which memory.cpp:297 gets wrong.
THEOREM MarkedWholeAlways ==
    ASSUME SafeMenu, FlatTypes
    PROVE  Spec => []MarkedWhole
<1>1. CollectorInv => MarkedWhole
  <2> SUFFICES ASSUME CollectorInv, NEW l \in living_objects, NEW o \in objects, o.addr = l.addr
               PROVE  o.size = l.size
    BY DEF MarkedWhole
  <2>1. l \in objects /\ l \in Block /\ o \in Block /\ NoOverlap
    BY EveryState DEF HeapInv, MarksInv, TypeOK
  <2>2. l = o \/ Apart(l, o)
    BY <2>1 DEF NoOverlap
  <2>3. ~ Apart(l, o)
    BY <2>1, BlockFacts DEF Apart
  <2> QED
    BY <2>2, <2>3
<1> QED
  BY <1>1, CollectorInvariance, PTL

\* A deep copy has the shape of the original and no AST in common with it, also
\* where the original is shared or cyclic: where there are no basicblocks, whose
\* elements copy_AST shares.
THEOREM CopyIsDeepAlways ==
    ASSUME SafeMenu, FlatTypes, "basicblock" \notin Menu
    PROVE  Spec => []CopyIsDeep
<1>1. CollectorInv => CopyIsDeep
  <2>1. phase # "program" \/ copier = NoCopy => CopyIsDeep
    BY DEF CopyIsDeep
  <2>2. StartInv => copier = NoCopy
    BY DEF StartInv, Fresh
  <2> QED
    BY <2>1, <2>2, EveryState, WorldCopies
<1> QED
  BY <1>1, CollectorInvariance, PTL

\* A collection changes no word of what the roots own.
THEOREM SurvivorsAlways ==
    ASSUME SafeMenu, FlatTypes
    PROVE  Spec => SurvivorsUntouched
<1>1. CollectorInv /\ [Next]_vars => Untouched
  BY CollectorNext, StepLeavesSurvivors
<1>2. CollectorInv /\ [Next]_vars =>
          [(phase \in {"trace", "sweep"}) =>
              \A b \in Owned(Rooted) : \A w \in Words(b) : mem'[w] = mem[w]]_vars
  BY <1>1 DEF Untouched
<1> QED
  BY <1>2, CollectorInvariance, PTL DEF Spec, SurvivorsUntouched

\* The collector and the program keep to the contract of the word pool, so that
\* what is proved of the pool in HeapProofs holds of theirs.
THEOREM CollectorImplementsHeap ==
    ASSUME SafeMenu, FlatTypes, AnyRequest
    PROVE  Spec => ImplementsHeap
<1>1. Init => HeapInit
  BY DEF Init
<1>2. CollectorInv /\ [Next]_vars => [HeapNext]_heapVars
  BY StepOfThePool
<1> QED
  BY <1>1, <1>2, CollectorInvariance, PTL DEF Spec, ImplementsHeap, HeapSpec
==============================================================================
