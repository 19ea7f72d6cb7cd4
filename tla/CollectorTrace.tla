--------------------------- MODULE CollectorTrace ----------------------------
(***************************************************************************)
(* The trace. Its invariant is the usual one of tri-colour marking (what is*)
(* found has all it leads to found or on the stack), made for types that   *)
(* are objects themselves: a reference of a type that is not yet unique may*)
(* be met before the type is, and subtypes are made unique before what is  *)
(* made of them, or uniquefy_premade_type would compare addresses that are *)
(* about to change.                                                        *)
(***************************************************************************)
EXTENDS CollectorProgram

------------------------------------------------------------------------------
(* The invariants of the phases *)

\* What holds before the program has initialised its types.
StartInv == HeapInv /\ Typings /\ phase = "program" /\ Fresh
\* What holds when the program has stopped.
Aborted == HeapInv /\ Typings /\ phase = "aborted"

\* The types of the variables, when none of them changes.
LEMMA TypingsStay ==
    ASSUME Typings, UNCHANGED <<mem, type_hash_table, type_roots, event_roots, functionVars, traceVars, held, error>>
    PROVE  Typings'
<1>1. MemTyped'
  BY DEF Typings, MemTyped, Pool, PoolEnd
<1>2. FunctionTypings' /\ Flagged(function_pool_flags)' = Flagged(function_pool_flags)
  BY FunctionsStay DEF Typings
<1>3. TraceTypings' /\ Flagged(sweep_function_pool_flags)' = Flagged(sweep_function_pool_flags)
  BY DEF Typings, TraceTypings, traceVars, Masks, Blocks, Power, Flagged, Slots, Bit
<1>4. type_roots' \in Seq(Nat) /\ event_roots' \in Seq(Slots)' /\ error' \in {"none", "OOM", "OOM function"}
  BY DEF Typings, Slots
<1>5. held' \subseteq Reference' /\ type_hash_table' \subseteq Nat
  BY DEF Typings, Reference
<1> QED
  BY <1>1, <1>2, <1>3, <1>4, <1>5 DEF Typings

\* References lead where they led when nothing changes.
LEMMA StillTargets ==
    ASSUME Still
    PROVE  \A r : Targets(r)' = Targets(r)
<1>1. /\ \A a : Word(a)' = Word(a)
      /\ \A t : ver(t)' = ver(t) /\ Subtypes(t)' = Subtypes(t) /\ get_size(t)' = get_size(t)
                /\ (IsHeapType(t)' <=> IsHeapType(t))
  BY StillTypes
<1>2. Flagged(function_pool_flags)' = Flagged(function_pool_flags)
  BY DEF Still, Flagged, Slots, Bit
<1>3. \A r : Leads(r)' <=> Leads(r)
  BY <1>1, <1>2 DEF Leads, Still, integer, function_pointer, type_pointer
<1>4. \A loc, t : RefsAt(loc, t)' = RefsAt(loc, t)
  BY <1>1 DEF RefsAt, Ref, con_vec
<1>5. \A v, t : Vector_range(v, t)' = Vector_range(v, t)
  <2>1. \A v : Elements(v)' = Elements(v)
    BY <1>1 DEF Elements, WordsAt, vector_header_size
  <2> QED
    BY <2>1 DEF Vector_range, Ref
<1>6. \A v : AST_range(v)' = AST_range(v)
  <2> SUFFICES ASSUME NEW v PROVE AST_range(v)' = AST_range(v)
    OBVIOUS
  <2> PICK w, x : w = Word(v) /\ x = Word(v + 1)
    OBVIOUS
  <2>1. Vector_range(Word(v + 1), AST_pointer)' = Vector_range(x, AST_pointer)
    <3>1. Vector_range(Word(v + 1), AST_pointer)' = Vector_range(x, AST_pointer)'
      BY <1>1 DEF Vector_range, Elements, Ref, AST_pointer, vector_header_size
    <3> QED
      BY <1>5, <3>1 DEF AST_pointer
  <2>2. Word(v)' = w /\ \A i : Word(v + i)' = Word(v + i)
    BY <1>1
  <2>3. get_field_size_of_AST(Word(v))' = get_field_size_of_AST(w)
    BY <2>2 DEF get_field_size_of_AST, imv, basicblock
  <2> QED
    BY <2>1, <2>2, <2>3 DEF AST_range, Ref, AST_pointer, imv, basicblock
<1> SUFFICES ASSUME NEW r PROVE Targets(r)' = Targets(r)
  OBVIOUS
<1> PICK v, t : v = r.val /\ t = r.type
  OBVIOUS
<1>7. RefsAt(v + 1, Word(v))' = RefsAt(v + 1, Word(v))
  <2> PICK w : w = Word(v)
    OBVIOUS
  <2>1. RefsAt(v + 1, Word(v))' = RefsAt(v + 1, w)'
    BY <1>1 DEF RefsAt, Ref, con_vec
  <2> QED
    BY <1>4, <2>1
<1>8. PICK u : u = Subtypes(t)[1] /\ u = Subtypes(t)'[1]
  BY <1>1
<1>9. Vector_range(v, Subtypes(t)[1])' = Vector_range(v, Subtypes(t)[1])
  <2>1. Vector_range(v, Subtypes(t)[1])' = Vector_range(v, u)'
    BY <1>8 DEF Vector_range, Ref
  <2> QED
    BY <1>5, <1>8, <2>1
<1>10. RefsAt(v, Subtypes(t)[1])' = RefsAt(v, Subtypes(t)[1])
  <2>1. RefsAt(v, Subtypes(t)[1])' = RefsAt(v, u)'
    BY <1>8 DEF RefsAt, Ref, con_vec
  <2> QED
    BY <1>4, <1>8, <2>1
<1>11. /\ Leads(r)' <=> Leads(r)
       /\ Word(v)' = Word(v) /\ Word(v + 1)' = Word(v + 1) /\ AST_range(v)' = AST_range(v) /\ Subtypes(v)' = Subtypes(v)
       /\ ver(t)' = ver(t) /\ (IsHeapType(t)' <=> IsHeapType(t))
       /\ type_roots' = type_roots /\ functions' = functions
  BY <1>1, <1>3, <1>6 DEF Still
<1>12. PICK A, B, C, D, E : /\ A = RefsAt(v + 1, Word(v)) /\ B = AST_range(v) /\ C = Vector_range(v, Subtypes(t)[1])
                            /\ D = RefsAt(v, Subtypes(t)[1]) /\ E = Subtypes(v)
  OBVIOUS
<1>13. /\ RefsAt(v + 1, Word(v))' = A /\ AST_range(v)' = B /\ Vector_range(v, Subtypes(t)[1])' = C
       /\ RefsAt(v, Subtypes(t)[1])' = D /\ Subtypes(v)' = E
  BY <1>7, <1>9, <1>10, <1>11, <1>12
<1>14. CASE ~ Leads(r)
  BY <1>11, <1>14 DEF Targets
<1>15. CASE Leads(r) /\ t = dynamic_object
  <2>1. Targets(r) = {Ref(Word(v), type_pointer)} \cup Range(A)
    BY <1>12, <1>15, TargetsByKind
  <2>2. Targets(r)' = {Ref(Word(v)', type_pointer)} \cup Range(A)
    <3>1. Range(RefsAt(v + 1, Word(v)))' = Range(A)
      BY <1>13 DEF Range
    <3> QED
      BY <1>11, <1>15, <3>1, TargetsByKindNext DEF Ref, type_pointer, dynamic_object
  <2> QED
    BY <1>11, <2>1, <2>2
<1>16. CASE Leads(r) /\ t = AST_pointer
  <2>1. Targets(r) = Range(B) \cup
                     (IF Word(v) = imv THEN {Ref(Word(v + 1), dynamic_object)}
                      ELSE IF Word(v) = basicblock THEN {Ref(Word(v + 1), type_roots[1])} ELSE {})
    BY <1>12, <1>16, TargetsByKind
  <2>2. Targets(r)' = Range(B) \cup
                     (IF Word(v)' = imv THEN {Ref(Word(v + 1)', dynamic_object)}
                      ELSE IF Word(v)' = basicblock THEN {Ref(Word(v + 1)', type_roots'[1])} ELSE {})
    <3>1. Range(AST_range(v))' = Range(B)
      BY <1>13 DEF Range
    <3> QED
      BY <1>11, <1>16, <3>1, TargetsByKindNext DEF Ref, AST_pointer, dynamic_object, imv, basicblock
  <2> QED
    BY <1>11, <2>1, <2>2
<1>17. CASE Leads(r) /\ t = type_pointer
  BY <1>11, <1>12, <1>13, <1>17, Tags DEF Targets, Ref, Range, dynamic_object, AST_pointer, type_pointer
<1>18. CASE Leads(r) /\ t = function_pointer
  BY <1>11, <1>17, <1>18, Tags DEF Targets, Ref, dynamic_object, AST_pointer, type_pointer, function_pointer
<1>19. CASE Leads(r) /\ t \notin {dynamic_object, AST_pointer, type_pointer, function_pointer}
  BY <1>11, <1>12, <1>13, <1>19 DEF Targets, Range, dynamic_object, AST_pointer, type_pointer, function_pointer, vector, pointer
<1> QED
  BY <1>14, <1>15, <1>16, <1>17, <1>18, <1>19

\* What the functions keep stays when nothing changes.
LEMMA GuardedStays ==
    ASSUME Still, UNCHANGED <<copier, held>>, NEW G, Guarded(G)
    PROVE  Guarded(G)'
<1>1. (\A a : Word(a)' = Word(a)) /\ \A r : Targets(r)' = Targets(r)
  BY StillTypes, StillTargets
<1>2. CodeEmpty(G) => CodeEmpty(G)'
  BY DEF Still, CodeEmpty, NoCopy, function_pointer
<1>3. ASTsIn(G)' = ASTsIn(G) /\ Copies' = Copies
  BY DEF ASTsIn, Copies, NoCopy, Ref, AST_pointer
<1>4. \A W : SameBelow(W)
  BY <1>1 DEF SameBelow
<1>5. ASSUME NEW P, Guard(G, P)
      PROVE  Guard(G, P)'
  <2>1. FieldsClosed(P)'
    BY <1>4, <1>5, KeepsStays DEF Guard
  <2>2. ASSUME NEW r \in G, r.type = function_pointer, r.val # 0
        PROVE  KeptBy(P, functions[r.val])'
    <3> PICK s : s = r.val
      OBVIOUS
    <3>1. KeptBy(P, functions[s]) /\ functions'[s] = functions[s]
      BY <1>5, <2>2 DEF Guard, Still
    <3>2. KeptBy(P, functions[s])'
      BY <1>4, <3>1, KeptByStays
    <3> QED
      BY <3>2
  <2>3. CopierGuard(G, P)'
    <3> SUFFICES ASSUME copier # NoCopy PROVE CopierGuard(G, P)'
      BY DEF CopierGuard, NoCopy
    <3> PICK f, todo, source, code : f = copier.copied /\ todo = copier.todo /\ source = copier.source /\ code = copier.code
      OBVIOUS
    <3>1. CopierGuard(G, P)
      BY <1>5 DEF Guard
    <3>2. copier.what = "compile" =>
              IF Bakes THEN \E W \in SUBSET (ASTsIn(G) \ Copies)' : Keeps(W, source, code)' ELSE copier.code = {}
      <4>1. \A W : Keeps(W, source, code) => Keeps(W, source, code)'
        BY <1>4, KeepsStays
      <4> QED
        BY <1>3, <3>1, <4>1 DEF CopierGuard
    <3>3. Mirror(G, f, todo)'
      <4>1. Mirror(G, f, todo)
        BY <3>1 DEF CopierGuard
      <4>2. \A x, c : CopyOf(f, todo, x, c) => CopyOf(f, todo, x, c)'
        BY <1>1 DEF CopyOf, FieldCopied, ObjectCopied, Ref, imv, dynamic_object
      <4>3. \A p : FieldOfCopy(f, p) => FieldOfCopy(f, p)'
        BY <1>1 DEF FieldOfCopy
      <4> QED
        BY <4>1, <4>2, <4>3 DEF Mirror, ResultPlace, Ref, AST_pointer
    <3> QED
      BY <1>3, <3>1, <3>2, <3>3 DEF CopierGuard, Ref, AST_pointer, ResultPlace
  <2> QED
    BY <1>1, <1>3, <1>5, <2>1, <2>2, <2>3 DEF Guard, function_pointer
<1> QED
  BY <1>2, <1>5 DEF Guarded

\* Nothing changes.
LEMMA ProgramStays ==
    ASSUME ProgramInv, UNCHANGED vars
    PROVE  ProgramInv'
<1> USE DEF ProgramInv
<1>1. PICK G, rk : World(G, rk)
  OBVIOUS
<1>2. UNCHANGED <<heapVars, mem, type_hash_table, type_roots, functionVars, traceVars, error>>
      /\ UNCHANGED <<event_roots, held, copier>>
  BY DEF vars
<1>3. Typed /\ Shape(G, rk) /\ Moves(G, {})
  <2>1. Still
    BY <1>2 DEF Still, heapVars, functionVars
  <2> QED
    BY <1>1, <2>1, WorldFacts, StillMoves
<1>4. \A p : FieldOf(G, p) => FieldOf(G, p)'
  <2> DEFINE D == {}
             N == {}
  <2>1. D \in SUBSET G /\ Moves(G, D) /\ \A r \in D : r.type = AST_pointer /\ r.val # 0 => Word(r.val)' = Word(r.val)
    BY <1>3
  <2>2. G \cup N = G
    OBVIOUS
  <2> HIDE DEF D, N
  <2>3. \A p : FieldOf(G, p) => FieldOf(G \cup N, p)'
    BY <1>3, <2>1, FieldKept
  <2> QED
    BY <2>2, <2>3
<1>5. CopierIn(G)'
  <2>1. CopierIn(G)
    BY <1>1 DEF World
  <2> QED
    BY <1>2, <1>4, <2>1 DEF CopierIn, CopierTyped, NoCopy, ResultPlace, Ref, AST_pointer, type_pointer, Reference
<1>6. event_roots' \in Seq(Slots) /\ RootRefs' \cup held' \subseteq G
  BY <1>1, <1>2 DEF World, Typings, RootRefs, Ref, type_pointer, function_pointer
<1>7. Guarded(G)'
  BY <1>1, <1>2, GuardedStays DEF World, Still, heapVars, functionVars
<1> QED
  BY <1>1, <1>2, <1>5, <1>6, <1>7, StillGrows

\* Every operation of the program.
LEMMA ProgramOperation ==
    ASSUME SafeMenu, FlatTypes, ProgramInv, Program
    PROVE  ProgramInv' \/ Aborted'
<1> USE DEF ProgramInv
<1>1. PICK G, rk : World(G, rk)
  OBVIOUS
<1>2. type_roots # <<>>
  <2>1. Root
    BY <1>1 DEF World, Shape
  <2> QED
    BY <2>1 DEF Root
<1>3. ~ initialize
  BY <1>2 DEF initialize
<1>4. CASE new_AST \/ new_imv_AST \/ new_basicblock \/ new_dynamic_obj
  BY <1>1, <1>4, NewASTStep, NewImvStep, NewBasicblockStep, NewDynamicStep
<1>5. CASE new_pointer \/ new_vector \/ new_unique_type
  BY <1>1, <1>5, NewPointerStep, NewVectorStep, NewTypeStep
<1>6. CASE pushback_int \/ vecpb \/ store
  BY <1>1, <1>6, PushbackStep, VecpbStep, StoreStep
<1>7. CASE compile_specifying_location \/ AST_from_function
  BY <1>1, <1>7, CompileStep, ASTFromFunctionStep
<1>8. CASE copy_found \/ copy_imv \/ copy_basicblock \/ copy_AST
  BY <1>1, <1>8, CopyFoundStep, CopyImvStep, CopyBasicblockStep, CopyASTStep
<1>9. CASE compiled
  BY <1>1, <1>9, CompiledStep DEF Aborted
<1>10. CASE run_null_parameter_function \/ overwrite_func \/ find_random_AST
  BY <1>1, <1>10, RunStep, OverwriteStep, FindRandomASTStep
<1>11. CASE add_event_root \/ clear_event_roots
  BY <1>1, <1>11, EventRootStep
<1>12. CASE out_of_memory
  BY <1>12, OutOfMemoryStep DEF Aborted
<1> QED
  BY <1>3, <1>4, <1>5, <1>6, <1>7, <1>8, <1>9, <1>10, <1>11, <1>12 DEF Program

\* Before there is a type of the vectors of ASTs, nothing else can be done.
LEMMA FirstStep ==
    ASSUME StartInv, [Next]_vars
    PROVE  StartInv' \/ ProgramInv' \/ Aborted'
<1> USE DEF StartInv
<1>1. type_roots = <<>> /\ copier = NoCopy /\ event_roots = <<>> /\ phase = "program"
  BY DEF Fresh
<1>2. CASE UNCHANGED vars
  <2>1. Typings' /\ phase' = "program" /\ HeapInv'
    BY <1>2, TypingsStay, NextInv DEF vars, heapVars
  <2>2. Fresh'
    <3>1. Flagged(function_pool_flags)' = Flagged(function_pool_flags)
      BY <1>2 DEF vars, functionVars, Flagged, Slots, Bit
    <3> QED
      BY <1>2, <3>1 DEF vars, heapVars, Fresh, NoCopy, FieldlessTypes, integer, dynamic_object, AST_pointer, type_pointer, function_pointer
  <2> QED
    BY <2>1, <2>2
<1>3. CASE initialize
  BY <1>3, InitializeStep
<1>4. CASE out_of_memory
  BY <1>4, OutOfMemoryStep DEF Aborted
<1>5. \A op : ~ Running(op)
  BY <1>1 DEF Running
<1>6. ~ Copying /\ ~ compiled
  BY <1>1 DEF Copying, compiled
<1>7. ~ (copy_found \/ copy_imv \/ copy_basicblock \/ copy_AST)
  BY <1>6 DEF copy_found, copy_imv, copy_basicblock, copy_AST, NewCopy
<1>8. ~ (new_AST \/ new_imv_AST \/ new_basicblock \/ new_dynamic_obj \/ new_pointer \/ new_vector)
  BY <1>5 DEF new_AST, new_imv_AST, new_basicblock, new_dynamic_obj, new_pointer, new_vector
<1>9. ~ (new_unique_type \/ pushback_int \/ vecpb \/ store \/ compile_specifying_location \/ AST_from_function)
  BY <1>5 DEF new_unique_type, pushback_int, vecpb, store, compile_specifying_location, AST_from_function
<1>10. ~ (run_null_parameter_function \/ overwrite_func \/ find_random_AST \/ add_event_root \/ clear_event_roots)
  BY <1>5 DEF run_null_parameter_function, overwrite_func, find_random_AST, add_event_root, clear_event_roots
<1>11. ~ trace_objects
  BY <1>1 DEF trace_objects
<1>12. ~ Collection
  <2>1. \A op : ~ Tracing(op)
    BY <1>1 DEF Tracing
  <2>2. ~ (sweepy_sweep \/ sweep_gap \/ sweep_end)
    BY <1>1 DEF sweepy_sweep, sweep_gap, sweep_end, BeginSweep, SweepGap, SweepEnd
  <2> QED
    BY <2>1, <2>2 DEF Collection, Marking, mark_nothing, mark_pointer, mark_vector, mark_dynamic_object,
       mark_dynamic_contents, mark_AST, mark_type, uniquefy_premade_type, mark_function
<1> QED
  BY <1>2, <1>3, <1>4, <1>6, <1>7, <1>8, <1>9, <1>10, <1>11, <1>12 DEF Next, Program

\* A process that has stopped does nothing.
LEMMA AbortedStays ==
    ASSUME Aborted, [Next]_vars
    PROVE  Aborted'
<1> USE DEF Aborted
<1>1. phase = "aborted"
  OBVIOUS
<1>2. CASE UNCHANGED vars
  BY <1>2, TypingsStay, NextInv DEF vars, heapVars
<1>3. \A op : ~ Running(op)
  BY <1>1 DEF Running
<1>4. \A size, k : ~ AllocateAt(size, k)
  BY <1>1 DEF AllocateAt
<1>5. ~ Copying /\ ~ compiled /\ ~ initialize /\ ~ out_of_memory
  BY <1>1, <1>4 DEF Copying, compiled, initialize, out_of_memory, OutOfMemory, OutOfMemoryTwo
<1>7. ~ (copy_found \/ copy_imv \/ copy_basicblock \/ copy_AST)
  BY <1>5 DEF copy_found, copy_imv, copy_basicblock, copy_AST, NewCopy
<1>8. ~ (new_AST \/ new_imv_AST \/ new_basicblock \/ new_dynamic_obj \/ new_pointer \/ new_vector)
  BY <1>3 DEF new_AST, new_imv_AST, new_basicblock, new_dynamic_obj, new_pointer, new_vector
<1>9. ~ (new_unique_type \/ pushback_int \/ vecpb \/ store \/ compile_specifying_location \/ AST_from_function)
  BY <1>3 DEF new_unique_type, pushback_int, vecpb, store, compile_specifying_location, AST_from_function
<1>10. ~ (run_null_parameter_function \/ overwrite_func \/ find_random_AST \/ add_event_root \/ clear_event_roots)
  BY <1>3 DEF run_null_parameter_function, overwrite_func, find_random_AST, add_event_root, clear_event_roots
<1>11. ~ trace_objects
  BY <1>1 DEF trace_objects, start_GC
<1>12. ~ Collection
  <2>1. \A op : ~ Tracing(op)
    BY <1>1 DEF Tracing
  <2>2. ~ (sweepy_sweep \/ sweep_gap \/ sweep_end)
    BY <1>1 DEF sweepy_sweep, sweep_gap, sweep_end, BeginSweep, SweepGap, SweepEnd
  <2> QED
    BY <2>1, <2>2 DEF Collection, Marking, mark_nothing, mark_pointer, mark_vector, mark_dynamic_object,
       mark_dynamic_contents, mark_AST, mark_type, uniquefy_premade_type, mark_function
<1> QED
  BY <1>2, <1>5, <1>7, <1>8, <1>9, <1>10, <1>11, <1>12 DEF Next, Program

\* The first state.
LEMMA FirstState == ASSUME Init PROVE StartInv
<1> USE DEF Init
<1>1. HeapInv /\ phase = "program" /\ objects = {}
  BY InitInv DEF HeapInit
<1>2. MemTyped
  BY Sizes DEF MemTyped
<1>3. Power[BlockBits] \in Nat /\ Power[BlockBits] > 0
  <2>1. BlockBits \in Nat
    BY CollectorAssumption
  <2>2. Power[BlockBits] \in Nat \ {0}
    BY <2>1, PowerEquations
  <2> HIDE DEF Init
  <2> QED
    BY <2>2
<1>4. function_pool_flags \in Masks /\ sweep_function_pool_flags \in Masks
  BY <1>3 DEF Masks
<1>5. Flagged(function_pool_flags) = {} /\ Flagged(sweep_function_pool_flags) = {}
  <2>1. ASSUME NEW s \in Slots, NEW flags, flags = [b \in Blocks |-> 0]
        PROVE  ~ Bit(flags[(s - 1) \div BlockBits], (s - 1) % BlockBits)
    <3>1. SlotBlock(s) \in Blocks /\ (s - 1) % BlockBits \in Nat
      BY SlotFacts, CollectorAssumption
    <3>2. flags[(s - 1) \div BlockBits] = 0
      BY <2>1, <3>1 DEF SlotBlock
    <3> QED
      BY <3>1, <3>2, NoBits
  <2> QED
    BY <2>1 DEF Flagged
<1>6. Functional
  <2>1. NoFunction \in FunctionRecord
    BY Sizes DEF NoFunction, Function, FunctionRecord
  <2> QED
    BY <2>1 DEF Functional, FunctionRecord
<1>7. to_be_marked \in Seq([op : {"mark", "contents", "uniquefy"}, val : Nat, type : Nat])
      /\ type_roots \in Seq(Nat) /\ event_roots \in Seq(Slots)
  OBVIOUS
<1>8. type_hash_table = FieldlessTypes /\ FieldlessTypes \subseteq Nat
  BY Tags DEF FieldlessTypes
<1>9. Typings
  BY <1>2, <1>4, <1>5, <1>6, <1>7, <1>8 DEF Typings, FunctionTypings, TraceTypings
<1> QED
  BY <1>1, <1>5, <1>8, <1>9 DEF StartInv, Fresh

-----------------------------------------------------------------------------
(* A trace: what it has found is L, and F of the functions, the types made unique
   so far are T, and s is the rest of its work. *)

\* An entry of to_be_marked.
Entry == [op : {"mark", "contents", "uniquefy"}, val : Nat, type : Nat]
\* The reference it is about.
EntryRef(e) == Ref(e.val, e.type)
\* It is about the type t.
TypeEntry(e, t) == e.type = type_pointer /\ e.op \in {"mark", "uniquefy"} /\ e.val = t

\* r has been found.
Marked(L, F, r) == IF r.type = function_pointer THEN r.val \in F ELSE \E l \in L : l.addr = r.val
\* r is going to be found.
OnStack(s, r) == \E j \in DOMAIN s : s[j].op # "uniquefy" /\ EntryRef(s[j]) = r
\* r leads nowhere, or has been found, or is going to be.
Handled(L, F, s, r) == ~ Leading(r) \/ Marked(L, F, r) \/ OnStack(s, r)
\* r leads on and has been found.
Found(L, F, r) == Leading(r) /\ Marked(L, F, r)
\* All that r leads to has been seen, but for what is in machine code.
Passed(L, F, s, r) ==
    IF r.type = function_pointer
    THEN /\ Handled(L, F, s, Ref(functions[r.val].the_AST, AST_pointer))
         /\ Handled(L, F, s, Ref(functions[r.val].return_type, type_pointer))
    ELSE \A q \in Targets(r) : Handled(L, F, s, q)

\* Only objects of G have been found.
LivingIn(G, L) == \A l \in L : \E r \in G : Solid(r) /\ l = BlockOf(r)
\* Only functions of G have been found.
FlagsIn(G, F) == \A f \in F : f # 0 /\ Ref(f, function_pointer) \in G
\* Only types of G have been made unique, each after its subtypes.
TableIn(G, T) ==
    /\ T \subseteq FieldlessTypes \cup HeapTypes(G)
    /\ \A t \in T : Range(Subtypes(t)) \subseteq T

\* What is left to do is about G, and follows on what has been done.
EntryFits(G, L, F, s, e) ==
    /\ e \in Entry /\ EntryRef(e) \in G
    /\ e.op = "contents" => e.type = dynamic_object /\ e.val # 0 /\ Handled(L, F, s, Ref(Word(e.val), type_pointer))
    /\ e.op = "uniquefy" => e.type = type_pointer /\ e.val # 0 /\ (IsHeapType(e.val) => Marked(L, F, EntryRef(e)))
\* All entries are such.
EntriesFit(G, L, F, s) == \A j \in DOMAIN s : EntryFits(G, L, F, s, s[j])

\* The subtypes are made unique before the type.
SubtypesFirst(T, s) ==
    \A j \in DOMAIN s : s[j].op = "uniquefy" =>
        \A u \in Range(Subtypes(s[j].val)) : u \in T \/ \E i \in 1 .. j - 1 : TypeEntry(s[i], u)

\* What comes before a type that is to be made unique is a part of it.
Under(rk, e, t) ==
    /\ e.type = type_pointer /\ e.op \in {"mark", "uniquefy"}
    /\ IsHeapType(e.val) => IsHeapType(t) /\ rk[e.val] < rk[t]
\* What comes before the making unique of a type is about types of a lower rank.
Ordered(rk, s) == \A j \in DOMAIN s : s[j].op = "uniquefy" => \A i \in 1 .. j - 1 : Under(rk, s[i], s[j].val)

\* The roots have been found or are going to be.
RootsHandled(L, F, s) == \A r \in RootRefs : Handled(L, F, s, r)
\* What has been found leads to nothing overlooked.
AllPassed(G, L, F, s) == \A r \in G : Found(L, F, r) => Passed(L, F, s, r)

\* The type is a part of one that will have been found.
CoverClosed(G, L, F, s, S) ==
    /\ \A u \in HeapTypes(G) : Handled(L, F, s, Ref(u, type_pointer)) => u \in S
    /\ \A u \in S : \A v \in Range(Subtypes(u)) : IsHeapType(v) => v \in S
\* The type t is found, or will be, whatever else happens.
Covered(G, L, F, s, t) == \A S \in SUBSET HeapTypes(G) : CoverClosed(G, L, F, s, S) => t \in S
\* So is the type of each object that is found or on the stack.
TypesCovered(G, L, F, s) ==
    \A r \in G : IsHeapType(r.type) /\ (Found(L, F, r) \/ OnStack(s, r)) => Covered(G, L, F, s, r.type)

\* A type that was found is unique already or will be made so.
TypesPending(G, L, F, T, s) ==
    \A t \in HeapTypes(G) : Marked(L, F, Ref(t, type_pointer)) =>
        t \in T \/ \E j \in DOMAIN s : s[j].op = "uniquefy" /\ s[j].val = t

\* The invariant of a trace.
Traced(G, rk, L, F, T, s) ==
    /\ s \in Seq(Entry)
    /\ LivingIn(G, L) /\ FlagsIn(G, F) /\ TableIn(G, T)
    /\ EntriesFit(G, L, F, s) /\ SubtypesFirst(T, s) /\ Ordered(rk, s)
    /\ RootsHandled(L, F, s) /\ AllPassed(G, L, F, s)
    /\ TypesCovered(G, L, F, s) /\ TypesPending(G, L, F, T, s)

-----------------------------------------------------------------------------
\* The first entry is done, and others take its place.
Replaced(s, c, s2) ==
    /\ Len(s) \in Nat \ {0} /\ DOMAIN s = 1 .. Len(s) /\ Len(c) \in Nat /\ DOMAIN c = 1 .. Len(c)
    /\ s2 \in Seq(Entry) /\ DOMAIN s2 = 1 .. Len(c) + Len(s) - 1
    /\ \A i \in 1 .. Len(c) : s2[i] = c[i]
    /\ \A j \in 2 .. Len(s) : s2[Len(c) + j - 1] = s[j]

\* The first entry makes room for others.
LEMMA ReplacedFacts ==
    ASSUME NEW s \in Seq(Entry), s # <<>>, NEW c \in Seq(Entry), NEW s2, s2 = c \o Tail(s)
    PROVE  Replaced(s, c, s2)
<1> DEFINE t == Tail(s)
<1>1. Len(s) \in Nat \ {0} /\ DOMAIN s = 1 .. Len(s) /\ Len(c) \in Nat /\ DOMAIN c = 1 .. Len(c)
  <2>1. Len(s) # 0
    BY EmptySeq
  <2> QED
    BY <2>1, SeqFacts
<1>2. t \in Seq(Entry) /\ Len(t) = Len(s) - 1 /\ \A i \in 1 .. Len(s) - 1 : t[i] = s[i + 1]
  BY HeadTailProperties
<1> HIDE DEF t
<1>3. s2 = c \o t
  BY DEF t
<1>4. Joined(Entry, c, t, s2)
  BY <1>2, <1>3, JoinedFacts
<1>5. s2 \in Seq(Entry) /\ Len(s2) = Len(c) + Len(s) - 1 /\ \A i \in 1 .. Len(c) : s2[i] = c[i]
  BY <1>1, <1>2, <1>4 DEF Joined
<1>6. DOMAIN s2 = 1 .. Len(c) + Len(s) - 1
  BY <1>5, SeqFacts
<1>7. ASSUME NEW j \in 2 .. Len(s)
      PROVE  s2[Len(c) + j - 1] = s[j]
  <2>1. j - 1 \in 1 .. Len(t) /\ j - 1 + 1 = j /\ Len(c) + (j - 1) = Len(c) + j - 1
    BY <1>1, <1>2
  <2>2. s2[Len(c) + (j - 1)] = t[j - 1]
    BY <1>4, <2>1 DEF Joined
  <2>3. t[j - 1] = s[j]
    BY <1>1, <1>2, <2>1
  <2> QED
    BY <2>1, <2>2, <2>3
<1> QED
  BY <1>1, <1>5, <1>6, <1>7 DEF Replaced

\* Where an entry comes from.
LEMMA EntryFrom ==
    ASSUME NEW s, NEW c, NEW s2, Replaced(s, c, s2), NEW j \in DOMAIN s2
    PROVE  \/ j \in 1 .. Len(c) /\ s2[j] = c[j]
           \/ \E i \in 2 .. Len(s) : j = Len(c) + i - 1 /\ s2[j] = s[i]
<1>1. CASE j <= Len(c)
  BY <1>1 DEF Replaced
<1>2. CASE ~ (j <= Len(c))
  <2>1. j - Len(c) + 1 \in 2 .. Len(s) /\ Len(c) + (j - Len(c) + 1) - 1 = j
    BY <1>2 DEF Replaced
  <2> QED
    BY <2>1 DEF Replaced
<1> QED
  BY <1>1, <1>2

\* A step of the trace finds more, and replaces its first entry.
Grown(L, F, T, s, L2, F2, T2, c, s2) ==
    /\ Replaced(s, c, s2)
    /\ L \subseteq L2 /\ F \subseteq F2 /\ T \subseteq T2
    /\ s[1].op # "uniquefy" => Handled(L2, F2, s2, EntryRef(s[1]))

\* What was found stays found, and what was to be found will be.
LEMMA HandledGrows ==
    ASSUME NEW L, NEW F, NEW T, NEW s, NEW L2, NEW F2, NEW T2, NEW c, NEW s2,
           Grown(L, F, T, s, L2, F2, T2, c, s2)
    PROVE  /\ \A r : Marked(L, F, r) => Marked(L2, F2, r)
           /\ \A r : Handled(L, F, s, r) => Handled(L2, F2, s2, r)
           /\ \A r : OnStack(s2, r) => OnStack(s, r) \/ \E i \in 1 .. Len(c) : c[i].op # "uniquefy" /\ EntryRef(c[i]) = r
<1>1. \A r : Marked(L, F, r) => Marked(L2, F2, r)
  BY DEF Grown, Marked
<1>2. ASSUME NEW r, OnStack(s, r), Leading(r)
      PROVE  Handled(L2, F2, s2, r)
  <2>1. PICK j \in DOMAIN s : s[j].op # "uniquefy" /\ EntryRef(s[j]) = r
    BY <1>2 DEF OnStack
  <2>2. CASE j = 1
    BY <2>1, <2>2 DEF Grown
  <2>3. CASE j # 1
    <3>1. j \in 2 .. Len(s) /\ Len(c) + j - 1 \in DOMAIN s2 /\ s2[Len(c) + j - 1] = s[j]
      BY <2>3 DEF Grown, Replaced
    <3> QED
      BY <2>1, <3>1 DEF Handled, OnStack
  <2> QED
    BY <2>2, <2>3
<1>3. ASSUME NEW r, OnStack(s2, r)
      PROVE  OnStack(s, r) \/ \E i \in 1 .. Len(c) : c[i].op # "uniquefy" /\ EntryRef(c[i]) = r
  <2>1. PICK j \in DOMAIN s2 : s2[j].op # "uniquefy" /\ EntryRef(s2[j]) = r
    BY <1>3 DEF OnStack
  <2>2. Replaced(s, c, s2)
    BY DEF Grown
  <2>3. CASE j \in 1 .. Len(c) /\ s2[j] = c[j]
    BY <2>1, <2>3
  <2>4. ASSUME NEW i \in 2 .. Len(s), s2[j] = s[i]
        PROVE  OnStack(s, r)
    <3>1. i \in DOMAIN s
      BY <2>2 DEF Replaced
    <3> QED
      BY <2>1, <2>4, <3>1 DEF OnStack
  <2> QED
    BY <2>2, <2>3, <2>4, EntryFrom
<1> QED
  BY <1>1, <1>2, <1>3 DEF Handled

\* A type that is covered stays so.
LEMMA CoveredGrows ==
    ASSUME NEW L, NEW F, NEW T, NEW s, NEW L2, NEW F2, NEW T2, NEW c, NEW s2,
           Grown(L, F, T, s, L2, F2, T2, c, s2), NEW G, NEW t, Covered(G, L, F, s, t)
    PROVE  Covered(G, L2, F2, s2, t)
<1>1. \A r : Handled(L, F, s, r) => Handled(L2, F2, s2, r)
  BY HandledGrows
<1> SUFFICES ASSUME NEW S \in SUBSET HeapTypes(G), CoverClosed(G, L2, F2, s2, S)
             PROVE  t \in S
  BY DEF Covered
<1>2. CoverClosed(G, L, F, s, S)
  BY <1>1 DEF CoverClosed
<1> QED
  BY <1>2 DEF Covered

\* What is handled is covered, and so are the parts of what is covered.
LEMMA CoveredFacts ==
    ASSUME NEW G, NEW L, NEW F, NEW s
    PROVE  /\ \A u \in HeapTypes(G) : Handled(L, F, s, Ref(u, type_pointer)) => Covered(G, L, F, s, u)
           /\ \A u : Covered(G, L, F, s, u) => \A v \in Range(Subtypes(u)) : IsHeapType(v) => Covered(G, L, F, s, v)
<1>1. \A u \in HeapTypes(G) : Handled(L, F, s, Ref(u, type_pointer)) => Covered(G, L, F, s, u)
  BY DEF Covered, CoverClosed
<1>2. ASSUME NEW u, Covered(G, L, F, s, u), NEW v \in Range(Subtypes(u)), IsHeapType(v)
      PROVE  Covered(G, L, F, s, v)
  BY <1>2 DEF Covered, CoverClosed
<1> QED
  BY <1>1, <1>2

------------------------------------------------------------------------------
(* A step of the trace *)

\* What the entries that take the place of the first one are like.
Children(G, rk, L, F, T, s, L2, F2, T2, c, s2) ==
    /\ LivingIn(G, L2) /\ FlagsIn(G, F2) /\ TableIn(G, T2)
    /\ \A i \in 1 .. Len(c) :
          /\ EntryFits(G, L2, F2, s2, c[i])
          /\ c[i].op # "uniquefy" /\ IsHeapType(c[i].type) => Covered(G, L2, F2, s2, c[i].type)
          /\ c[i].op = "uniquefy" => /\ \A h \in 1 .. i - 1 : Under(rk, c[h], c[i].val)
                                     /\ \A u \in Range(Subtypes(c[i].val)) :
                                           u \in T2 \/ \E h \in 1 .. i - 1 : TypeEntry(c[h], u)
          /\ \A t \in Nat : Under(rk, s[1], t) => Under(rk, c[i], t)
    /\ \A r \in G : Found(L2, F2, r) /\ ~ Found(L, F, r) =>
          s[1].op # "uniquefy" /\ r = EntryRef(s[1]) /\ Passed(L2, F2, s2, r)
    /\ \A t \in HeapTypes(G) : Marked(L2, F2, Ref(t, type_pointer)) /\ ~ Marked(L, F, Ref(t, type_pointer)) =>
          \E i \in 1 .. Len(c) : c[i].op = "uniquefy" /\ c[i].val = t
    /\ s[1].op = "uniquefy" => s[1].val \in T2
    /\ s[1].op = "mark" /\ s[1].type = type_pointer /\ s[1].val # 0 =>
          \/ \E i \in 1 .. Len(c) : TypeEntry(c[i], s[1].val)
          \/ s[1].val \in HeapTypes(G) /\ Marked(L, F, Ref(s[1].val, type_pointer))

\* The entries of the stack are handled, whatever is added to what was found.
LEMMA EntriesStayFit ==
    ASSUME NEW G, NEW rk, NEW L, NEW F, NEW T, NEW s, NEW L2, NEW F2, NEW T2, NEW c, NEW s2,
           Grown(L, F, T, s, L2, F2, T2, c, s2), Traced(G, rk, L, F, T, s),
           Children(G, rk, L, F, T, s, L2, F2, T2, c, s2)
    PROVE  EntriesFit(G, L2, F2, s2)
<1>1. /\ \A r : Marked(L, F, r) => Marked(L2, F2, r)
      /\ \A r : Handled(L, F, s, r) => Handled(L2, F2, s2, r)
  BY HandledGrows
<1>2. Replaced(s, c, s2)
  BY DEF Grown
<1>3. ASSUME NEW j \in 2 .. Len(s)
      PROVE  EntryFits(G, L2, F2, s2, s[j])
  <2>1. j \in DOMAIN s
    BY <1>2 DEF Replaced
  <2>2. EntryFits(G, L, F, s, s[j])
    BY <2>1 DEF Traced, EntriesFit
  <2> QED
    BY <1>1, <2>2 DEF EntryFits
<1>4. ASSUME NEW j \in DOMAIN s2
      PROVE  EntryFits(G, L2, F2, s2, s2[j])
  <2>1. CASE j \in 1 .. Len(c) /\ s2[j] = c[j]
    BY <2>1 DEF Children
  <2>2. ASSUME NEW i \in 2 .. Len(s), s2[j] = s[i]
        PROVE  EntryFits(G, L2, F2, s2, s2[j])
    BY <1>3, <2>2
  <2> QED
    BY <1>2, <2>1, <2>2, EntryFrom
<1> QED
  BY <1>4 DEF EntriesFit

\* A step of the trace keeps the order.
LEMMA OrderStays ==
    ASSUME NEW G, NEW rk, NEW L, NEW F, NEW T, NEW s, NEW L2, NEW F2, NEW T2, NEW c, NEW s2,
           Grown(L, F, T, s, L2, F2, T2, c, s2), Traced(G, rk, L, F, T, s),
           Children(G, rk, L, F, T, s, L2, F2, T2, c, s2)
    PROVE  Ordered(rk, s2)
<1>2. Replaced(s, c, s2)
  BY DEF Grown
<1>3. ASSUME NEW j \in 2 .. Len(s), s[j].op = "uniquefy", NEW h \in 1 .. Len(c) + j - 2
      PROVE  Under(rk, s2[h], s[j].val)
  <2>0. j \in DOMAIN s /\ s[j].val \in Nat
    <3>1. j \in DOMAIN s
      BY <1>2 DEF Replaced
    <3> QED
      BY <3>1 DEF Traced, EntriesFit, EntryFits, Entry
  <2>1. \A i \in 1 .. j - 1 : Under(rk, s[i], s[j].val)
    BY <1>3, <2>0 DEF Traced, Ordered
  <2>2. CASE h \in 1 .. Len(c)
    <3>1. Under(rk, s[1], s[j].val)
      BY <1>2, <2>1 DEF Replaced
    <3> QED
      BY <1>2, <2>0, <2>2, <3>1 DEF Replaced, Children
  <2>3. CASE h \notin 1 .. Len(c)
    <3>1. h - Len(c) + 1 \in 2 .. j - 1 /\ Len(c) + (h - Len(c) + 1) - 1 = h
      BY <1>2, <2>3 DEF Replaced
    <3>2. s2[h] = s[h - Len(c) + 1]
      BY <1>2, <3>1 DEF Replaced
    <3> QED
      BY <2>1, <3>1, <3>2
  <2> QED
    BY <2>2, <2>3
<1>4. ASSUME NEW j \in DOMAIN s2, s2[j].op = "uniquefy", NEW h \in 1 .. j - 1
      PROVE  Under(rk, s2[h], s2[j].val)
  <2>1. CASE j \in 1 .. Len(c) /\ s2[j] = c[j]
    <3>1. h \in 1 .. Len(c) /\ s2[h] = c[h]
      BY <1>2, <2>1 DEF Replaced
    <3> QED
      BY <1>4, <2>1, <3>1 DEF Children
  <2>2. ASSUME NEW i \in 2 .. Len(s), j = Len(c) + i - 1, s2[j] = s[i]
        PROVE  Under(rk, s2[h], s2[j].val)
    <3>1. h \in 1 .. Len(c) + i - 2
      BY <1>2, <2>2 DEF Replaced
    <3> QED
      BY <1>3, <1>4, <2>2, <3>1
  <2> QED
    BY <1>2, <2>1, <2>2, EntryFrom
<1> QED
  BY <1>4 DEF Ordered

\* A step of the trace keeps subtypes ahead of their types.
LEMMA SubtypesStayFirst ==
    ASSUME NEW G, NEW rk, Typed, Shape(G, rk),
           NEW L, NEW F, NEW T, NEW s, NEW L2, NEW F2, NEW T2, NEW c, NEW s2,
           Grown(L, F, T, s, L2, F2, T2, c, s2), Traced(G, rk, L, F, T, s),
           Children(G, rk, L, F, T, s, L2, F2, T2, c, s2)
    PROVE  SubtypesFirst(T2, s2)
<1>2. Replaced(s, c, s2) /\ T \subseteq T2
  BY DEF Grown
<1>3. ASSUME NEW j \in 2 .. Len(s), s[j].op = "uniquefy", NEW u \in Range(Subtypes(s[j].val)), u \notin T2
      PROVE  \E h \in 1 .. Len(c) + j - 2 : TypeEntry(s2[h], u)
  <2>1. PICK i \in 1 .. j - 1 : TypeEntry(s[i], u)
    BY <1>2, <1>3 DEF Replaced, Traced, SubtypesFirst
  <2>2. ASSUME NEW k \in 2 .. j - 1, TypeEntry(s[k], u)
        PROVE  \E h \in 1 .. Len(c) + j - 2 : TypeEntry(s2[h], u)
    <3>1. Len(c) + k - 1 \in 1 .. Len(c) + j - 2 /\ k \in 2 .. Len(s)
      BY <1>2 DEF Replaced
    <3>2. s2[Len(c) + k - 1] = s[k]
      BY <1>2, <3>1 DEF Replaced
    <3> QED
      BY <2>2, <3>1, <3>2
  <2>3. CASE i # 1
    <3>1. i \in 2 .. j - 1
      BY <2>3
    <3> QED
      BY <2>1, <2>2, <3>1
  <2>4. CASE i = 1
    <3>1. s[1].op = "mark" /\ s[1].type = type_pointer /\ s[1].val = u
      <4>1. s[1].op \in {"mark", "uniquefy"} /\ s[1].type = type_pointer /\ s[1].val = u
        BY <2>1, <2>4 DEF TypeEntry
      <4>2. s[1].op # "uniquefy"
        BY <1>3, <4>1 DEF Children
      <4> QED
        BY <4>1, <4>2
    <3>2. u # 0 /\ (IsHeapType(u) => u \in HeapTypes(G) /\ s[j].val \in HeapTypes(G) /\ rk[u] < rk[s[j].val] /\ rk[s[j].val] \in Nat)
      <4>1. EntryFits(G, L, F, s, s[j])
        BY <1>2, <1>3 DEF Replaced, Traced, EntriesFit
      <4>2. s[j].val \in Nat /\ Ref(s[j].val, type_pointer) \in G /\ s[j].val # 0
        BY <1>3, <4>1, Refs DEF EntryFits, Entry, EntryRef
      <4>3. IsHeapType(s[j].val)
        <5>1. Subtypes(s[j].val) # <<>>
          BY <1>3 DEF Range
        <5> QED
          BY <5>1, Fieldless
      <4>4. s[j].val \in HeapTypes(G)
        BY <4>2, <4>3 DEF HeapTypes
      <4>5. PICK t : t = s[j].val
        OBVIOUS
      <4>6. MadeType(rk, t) /\ u \in FieldlessTypes \cup HeapTypes(G) /\ t \in Nat
        BY <1>3, <4>4, <4>5, TypeFacts
      <4>7. IsHeapType(u) => rk[u] < rk[t]
        BY <1>3, <4>5, <4>6 DEF MadeType
      <4>8. u # 0 /\ (IsHeapType(u) => u \in HeapTypes(G))
        BY <4>6, Tags DEF HeapTypes
      <4>9. rk[t] \in Nat
        BY <4>6 DEF Shape
      <4> QED
        BY <4>4, <4>5, <4>7, <4>8, <4>9
    <3>3. CASE \E k \in 1 .. Len(c) : TypeEntry(c[k], u)
      <4>1. PICK k \in 1 .. Len(c) : TypeEntry(c[k], u)
        BY <3>3
      <4>2. k \in 1 .. Len(c) + j - 2 /\ s2[k] = c[k]
        BY <1>2 DEF Replaced
      <4> QED
        BY <4>1, <4>2
    <3>4. CASE u \in HeapTypes(G) /\ Marked(L, F, Ref(u, type_pointer))
      <4>1. PICK k \in DOMAIN s : s[k].op = "uniquefy" /\ s[k].val = u
        BY <1>2, <1>3, <3>4 DEF Traced, TypesPending
      <4>2. k # 1
        BY <3>1, <4>1
      <4>3. IsHeapType(u) /\ rk[u] < rk[s[j].val] /\ rk[u] \in Nat /\ rk[s[j].val] \in Nat
        <5>1. u \in Nat /\ IsHeapType(u)
          BY <3>4 DEF HeapTypes
        <5> QED
          BY <3>2, <5>1 DEF Shape
      <4>4. ~ (j < k)
        <5> SUFFICES ASSUME j < k PROVE FALSE
          OBVIOUS
        <5>1. j \in 1 .. k - 1
          BY <1>2, <4>1 DEF Replaced
        <5>2. Under(rk, s[j], u)
          BY <4>1, <5>1 DEF Traced, Ordered
        <5> QED
          BY <3>2, <4>3, <5>2 DEF Under, HeapTypes
      <4>5. j # k
        BY <4>1, <4>3
      <4>6. k \in 2 .. j - 1
        BY <1>2, <4>1, <4>2, <4>4, <4>5 DEF Replaced
      <4>7. s[k].type = type_pointer
        <5>1. EntryFits(G, L, F, s, s[k])
          BY <4>1 DEF Traced, EntriesFit
        <5> QED
          BY <4>1, <5>1 DEF EntryFits
      <4> QED
        BY <2>2, <4>1, <4>6, <4>7 DEF TypeEntry
    <3> QED
      BY <3>1, <3>2, <3>3, <3>4 DEF Children
  <2> QED
    BY <2>3, <2>4
<1>4. ASSUME NEW j \in DOMAIN s2, s2[j].op = "uniquefy", NEW u \in Range(Subtypes(s2[j].val)), u \notin T2
      PROVE  \E h \in 1 .. j - 1 : TypeEntry(s2[h], u)
  <2>1. CASE j \in 1 .. Len(c) /\ s2[j] = c[j]
    <3>1. PICK h \in 1 .. j - 1 : TypeEntry(c[h], u)
      BY <1>4, <2>1 DEF Children
    <3>2. s2[h] = c[h]
      BY <1>2, <2>1 DEF Replaced
    <3> QED
      BY <3>1, <3>2
  <2>2. ASSUME NEW i \in 2 .. Len(s), j = Len(c) + i - 1, s2[j] = s[i]
        PROVE  \E h \in 1 .. j - 1 : TypeEntry(s2[h], u)
    <3>1. j - 1 = Len(c) + i - 2
      BY <1>2, <2>2 DEF Replaced
    <3>2. \E h \in 1 .. Len(c) + i - 2 : TypeEntry(s2[h], u)
      BY <1>3, <1>4, <2>2
    <3> QED
      BY <3>1, <3>2
  <2> QED
    BY <1>2, <2>1, <2>2, EntryFrom
<1> QED
  BY <1>4 DEF SubtypesFirst

\* Another entry of the trace is done.
LEMMA TraceAdvances ==
    ASSUME NEW G, NEW rk, Typed, Shape(G, rk),
           NEW L, NEW F, NEW T, NEW s, NEW L2, NEW F2, NEW T2, NEW c, NEW s2,
           Grown(L, F, T, s, L2, F2, T2, c, s2), Traced(G, rk, L, F, T, s),
           Children(G, rk, L, F, T, s, L2, F2, T2, c, s2)
    PROVE  Traced(G, rk, L2, F2, T2, s2)
<1>1. /\ \A r : Marked(L, F, r) => Marked(L2, F2, r)
      /\ \A r : Handled(L, F, s, r) => Handled(L2, F2, s2, r)
      /\ \A r : OnStack(s2, r) => OnStack(s, r) \/ \E i \in 1 .. Len(c) : c[i].op # "uniquefy" /\ EntryRef(c[i]) = r
  BY HandledGrows
<1>2. Replaced(s, c, s2) /\ T \subseteq T2
  BY DEF Grown
<1>3. s2 \in Seq(Entry) /\ LivingIn(G, L2) /\ FlagsIn(G, F2) /\ TableIn(G, T2)
  BY <1>2 DEF Replaced, Children
<1>4. EntriesFit(G, L2, F2, s2) /\ SubtypesFirst(T2, s2) /\ Ordered(rk, s2)
  BY EntriesStayFit, SubtypesStayFirst, OrderStays
<1>5. RootsHandled(L2, F2, s2)
  BY <1>1 DEF Traced, RootsHandled
<1>6. AllPassed(G, L2, F2, s2)
  <2>1. ASSUME NEW r \in G, Found(L2, F2, r)
        PROVE  Passed(L2, F2, s2, r)
    <3>1. CASE Found(L, F, r)
      <4>1. Passed(L, F, s, r)
        BY <3>1 DEF Traced, AllPassed
      <4> QED
        BY <1>1, <4>1 DEF Passed
    <3> QED
      BY <2>1, <3>1 DEF Children
  <2> QED
    BY <2>1 DEF AllPassed
<1>7. TypesCovered(G, L2, F2, s2)
  <2>1. ASSUME NEW r \in G, IsHeapType(r.type), Found(L, F, r) \/ OnStack(s, r)
        PROVE  Covered(G, L2, F2, s2, r.type)
    <3>1. Covered(G, L, F, s, r.type)
      BY <2>1 DEF Traced, TypesCovered
    <3> QED
      BY <3>1, CoveredGrows
  <2>2. ASSUME NEW r \in G, IsHeapType(r.type), Found(L2, F2, r), ~ Found(L, F, r)
        PROVE  Covered(G, L2, F2, s2, r.type)
    <3>1. s[1].op # "uniquefy" /\ r = EntryRef(s[1])
      BY <2>2 DEF Children
    <3>2. OnStack(s, r)
      <4>1. 1 \in DOMAIN s
        BY <1>2 DEF Replaced
      <4> QED
        BY <3>1, <4>1 DEF OnStack
    <3> QED
      BY <2>1, <2>2, <3>2
  <2>3. ASSUME NEW i \in 1 .. Len(c), c[i].op # "uniquefy", IsHeapType(EntryRef(c[i]).type)
        PROVE  Covered(G, L2, F2, s2, EntryRef(c[i]).type)
    <3>1. EntryRef(c[i]).type = c[i].type
      BY Refs DEF EntryRef
    <3> QED
      BY <2>3, <3>1 DEF Children
  <2> QED
    BY <1>1, <2>1, <2>2, <2>3 DEF TypesCovered
<1>8. TypesPending(G, L2, F2, T2, s2)
  <2>1. ASSUME NEW t \in HeapTypes(G), Marked(L, F, Ref(t, type_pointer)), t \notin T2
        PROVE  \E j \in DOMAIN s2 : s2[j].op = "uniquefy" /\ s2[j].val = t
    <3>1. PICK j \in DOMAIN s : s[j].op = "uniquefy" /\ s[j].val = t
      BY <1>2, <2>1 DEF Traced, TypesPending
    <3>2. j # 1
      BY <2>1, <3>1 DEF Children
    <3>3. j \in 2 .. Len(s) /\ Len(c) + j - 1 \in DOMAIN s2
      BY <1>2, <3>2 DEF Replaced
    <3>4. s2[Len(c) + j - 1] = s[j]
      BY <1>2, <3>3 DEF Replaced
    <3> QED
      BY <3>1, <3>3, <3>4
  <2>2. ASSUME NEW t \in HeapTypes(G), Marked(L2, F2, Ref(t, type_pointer)), ~ Marked(L, F, Ref(t, type_pointer))
        PROVE  \E j \in DOMAIN s2 : s2[j].op = "uniquefy" /\ s2[j].val = t
    <3>1. PICK i \in 1 .. Len(c) : c[i].op = "uniquefy" /\ c[i].val = t
      BY <2>2 DEF Children
    <3>2. i \in DOMAIN s2 /\ s2[i] = c[i]
      BY <1>2 DEF Replaced
    <3> QED
      BY <3>1, <3>2
  <2> QED
    BY <2>1, <2>2 DEF TypesPending
<1> QED
  BY <1>3, <1>4, <1>5, <1>6, <1>7, <1>8 DEF Traced

\* The state of the trace, as the variables have it.
TraceNow(G, rk) ==
    \E L, F, T, s : /\ L = living_objects /\ F = Flagged(sweep_function_pool_flags)
                    /\ T = type_hash_table /\ s = to_be_marked
                    /\ Traced(G, rk, L, F, T, s)

\* The objects while the collector traces them.
TraceWorld(G, rk) ==
    /\ Shape(G, rk) /\ AllOnMenu(G) /\ Guarded(G) /\ TypesApart(G) /\ Minimal(G)
    /\ RootRefs \subseteq G /\ copier = NoCopy /\ held = {}
    /\ TraceNow(G, rk)

\* What holds while tracing.
TraceInv == HeapInv /\ Typings /\ phase = "trace" /\ \E G, rk : TraceWorld(G, rk)

\* What is said of a trace does not depend on the state.
LEMMA HandledStill ==
    ASSUME NEW L, NEW F, NEW s, NEW r
    PROVE  /\ Handled(L, F, s, r)' <=> Handled(L, F, s, r)
           /\ Marked(L, F, r)' <=> Marked(L, F, r)
           /\ OnStack(s, r)' <=> OnStack(s, r)
           /\ Found(L, F, r)' <=> Found(L, F, r)
           /\ Leading(r)' <=> Leading(r) /\ (Solid(r)' <=> Solid(r))
<1>1. Leading(r)' <=> Leading(r)
  BY DEF Leading, integer, type_pointer, IsHeapType, never_reached
<1>2. Marked(L, F, r)' <=> Marked(L, F, r)
  BY DEF Marked, function_pointer
<1>3. OnStack(s, r)' <=> OnStack(s, r)
  BY DEF OnStack, EntryRef, Ref
<1>4. Solid(r)' <=> Solid(r)
  BY DEF Solid, integer, type_pointer, function_pointer, IsHeapType, never_reached
<1> QED
  BY <1>1, <1>2, <1>3, <1>4 DEF Handled, Found

\* The invariant of the trace reads nothing that a step of it changes.
LEMMA TracedStill ==
    ASSUME NEW G, NEW rk, Typed, Shape(G, rk), Still, event_roots' = event_roots,
           NEW L, NEW F, NEW T, NEW s, Traced(G, rk, L, F, T, s)
    PROVE  Traced(G, rk, L, F, T, s)'
<1>1. /\ \A a : Word(a)' = Word(a)
      /\ \A t : Subtypes(t)' = Subtypes(t) /\ (IsHeapType(t)' <=> IsHeapType(t))
  BY StillTypes
<1>2. /\ HeapTypes(G)' = HeapTypes(G)
      /\ \A r \in G : Targets(r)' = Targets(r) /\ (Solid(r) => BlockOf(r)' = BlockOf(r))
  BY StillShape
<1>3. /\ \A r : Handled(L, F, s, r)' <=> Handled(L, F, s, r)
      /\ \A r : Marked(L, F, r)' <=> Marked(L, F, r)
      /\ \A r : OnStack(s, r)' <=> OnStack(s, r)
      /\ \A r : Found(L, F, r)' <=> Found(L, F, r)
      /\ \A r : Solid(r)' <=> Solid(r)
  BY HandledStill
<1>4. functions' = functions /\ type_roots' = type_roots
  BY DEF Still
<1>5. LivingIn(G, L)'
  BY <1>2, <1>3 DEF Traced, LivingIn
<1>6. FlagsIn(G, F)'
  BY DEF Traced, FlagsIn, Ref, function_pointer
<1>7. TableIn(G, T)'
  <2>1. FieldlessTypes' = FieldlessTypes
    BY DEF FieldlessTypes, integer, dynamic_object, AST_pointer, type_pointer, function_pointer
  <2> QED
    BY <1>1, <1>2, <2>1 DEF Traced, TableIn, Range
<1>8. EntriesFit(G, L, F, s)'
  <2>1. ASSUME NEW j \in DOMAIN s
        PROVE  EntryFits(G, L, F, s, s[j])'
    <3>1. EntryFits(G, L, F, s, s[j])
      BY DEF Traced, EntriesFit
    <3>2. PICK w, q : w = Word(s[j].val) /\ w = Word(s[j].val)' /\ q = Ref(w, type_pointer)
      BY <1>1
    <3>3. s[j].op = "contents" => s[j].type = dynamic_object /\ s[j].val # 0 /\ Handled(L, F, s, q)'
      BY <1>3, <3>1, <3>2 DEF EntryFits
    <3>4. s[j].op = "uniquefy" => s[j].type = type_pointer /\ s[j].val # 0
                                   /\ (IsHeapType(s[j].val) => Marked(L, F, EntryRef(s[j])))
      BY <3>1 DEF EntryFits
    <3>5. PICK e : e = s[j]
      OBVIOUS
    <3>6. IsHeapType(e.val)' => Marked(L, F, EntryRef(e)) \/ e.op # "uniquefy"
      BY <1>1, <3>4, <3>5
    <3>7. PICK p : p = EntryRef(e) /\ p = EntryRef(e)'
      BY DEF EntryRef, Ref
    <3>8. IsHeapType(e.val)' => Marked(L, F, p)' \/ e.op # "uniquefy"
      BY <1>3, <3>6, <3>7
    <3>9. e \in Entry /\ p \in G
      BY <3>1, <3>5, <3>7 DEF EntryFits
    <3>10. Word(e.val)' = w /\ q = Ref(w, type_pointer)'
      BY <3>2, <3>5 DEF Ref, type_pointer
    <3>11. e.op = "contents" => Handled(L, F, s, Ref(Word(e.val), type_pointer))'
      BY <3>3, <3>5, <3>10
    <3>12. e.op = "uniquefy" => (IsHeapType(e.val) => Marked(L, F, EntryRef(e)))'
      BY <3>7, <3>8
    <3>13. e.op = "contents" => e.type = dynamic_object' /\ e.val # 0
      BY <3>3, <3>5 DEF dynamic_object
    <3>14. e.op = "uniquefy" => e.type = type_pointer' /\ e.val # 0
      BY <3>4, <3>5 DEF type_pointer
    <3>15. Entry' = Entry
      BY DEF Entry
    <3> QED
      BY <3>5, <3>7, <3>9, <3>11, <3>12, <3>13, <3>14, <3>15 DEF EntryFits
  <2> QED
    BY <2>1 DEF EntriesFit
<1>9. SubtypesFirst(T, s)'
  <2>1. ASSUME NEW j \in DOMAIN s, s[j].op = "uniquefy", NEW u \in Range(Subtypes(s[j].val))'
        PROVE  u \in T \/ \E i \in 1 .. j - 1 : TypeEntry(s[i], u)'
    <3>1. PICK t : t = s[j].val
      OBVIOUS
    <3>2. u \in Range(Subtypes(t))
      BY <1>1, <2>1, <3>1 DEF Range
    <3>3. u \in T \/ \E i \in 1 .. j - 1 : TypeEntry(s[i], u)
      BY <2>1, <3>1, <3>2 DEF Traced, SubtypesFirst
    <3> QED
      BY <3>3 DEF TypeEntry, type_pointer
  <2> QED
    BY <2>1 DEF SubtypesFirst
<1>10. Ordered(rk, s)'
  BY DEF Traced, Ordered, Under, IsHeapType, never_reached, type_pointer
<1>11. RootsHandled(L, F, s)'
  <2>1. RootRefs' = RootRefs
    BY <1>4, RootsStay
  <2> QED
    BY <1>3, <2>1 DEF Traced, RootsHandled
<1>12. AllPassed(G, L, F, s)'
  <2>1. ASSUME NEW r \in G, Found(L, F, r)'
        PROVE  Passed(L, F, s, r)'
    <3>1. Passed(L, F, s, r)
      BY <1>3, <2>1 DEF Traced, AllPassed
    <3>2. PICK q : q = Ref(functions[r.val].the_AST, AST_pointer) /\ q = Ref(functions[r.val].the_AST, AST_pointer)'
      BY <1>4 DEF Ref, AST_pointer
    <3>3. PICK t : t = Ref(functions[r.val].return_type, type_pointer) /\ t = Ref(functions[r.val].return_type, type_pointer)'
      BY <1>4 DEF Ref, type_pointer
    <3>4. r.type = function_pointer => Handled(L, F, s, q)' /\ Handled(L, F, s, t)'
      BY <1>3, <3>1, <3>2, <3>3 DEF Passed
    <3>5. r.type # function_pointer => \A p \in Targets(r)' : Handled(L, F, s, p)'
      BY <1>2, <1>3, <3>1 DEF Passed
    <3>6. r.type = function_pointer' =>
             /\ Handled(L, F, s, Ref(functions[r.val].the_AST, AST_pointer))'
             /\ Handled(L, F, s, Ref(functions[r.val].return_type, type_pointer))'
      BY <3>2, <3>3, <3>4 DEF function_pointer
    <3>7. function_pointer' = function_pointer
      BY DEF function_pointer
    <3> QED
      BY <3>5, <3>6, <3>7 DEF Passed
  <2> QED
    BY <2>1 DEF AllPassed
<1>13. ASSUME NEW t, Covered(G, L, F, s, t)
       PROVE  Covered(G, L, F, s, t)'
  <2>1. ASSUME NEW S \in SUBSET HeapTypes(G), CoverClosed(G, L, F, s, S)'
        PROVE  t \in S
    <3>1. ASSUME NEW u \in HeapTypes(G), Handled(L, F, s, Ref(u, type_pointer))
          PROVE  u \in S
      <4>1. PICK q : q = Ref(u, type_pointer) /\ q = Ref(u, type_pointer)'
        BY DEF Ref, type_pointer
      <4>2. Handled(L, F, s, q)'
        BY <1>3, <3>1, <4>1
      <4>3. Handled(L, F, s, Ref(u, type_pointer))'
        BY <4>1, <4>2
      <4> QED
        BY <1>2, <2>1, <4>3 DEF CoverClosed
    <3>2. \A u \in S : \A v \in Range(Subtypes(u)) : IsHeapType(v) => v \in S
      BY <1>1, <2>1 DEF CoverClosed, Range
    <3> QED
      BY <1>13, <3>1, <3>2 DEF Covered, CoverClosed
  <2> QED
    BY <1>2, <2>1 DEF Covered
<1>14. TypesCovered(G, L, F, s)'
  <2>1. ASSUME NEW r \in G, IsHeapType(r.type)', Found(L, F, r)' \/ OnStack(s, r)'
        PROVE  Covered(G, L, F, s, r.type)'
    <3>1. Covered(G, L, F, s, r.type)
      BY <1>1, <1>3, <2>1 DEF Traced, TypesCovered
    <3> QED
      BY <1>13, <3>1
  <2> QED
    BY <2>1 DEF TypesCovered
<1>15. TypesPending(G, L, F, T, s)'
  <2>1. ASSUME NEW t \in HeapTypes(G), Marked(L, F, Ref(t, type_pointer))'
        PROVE  t \in T \/ \E j \in DOMAIN s : s[j].op = "uniquefy" /\ s[j].val = t
    <3>1. PICK q : q = Ref(t, type_pointer) /\ q = Ref(t, type_pointer)'
      BY DEF Ref, type_pointer
    <3>2. Marked(L, F, q)'
      BY <2>1, <3>1
    <3>3. Marked(L, F, q)
      BY <1>3, <3>2
    <3> QED
      BY <3>1, <3>3 DEF Traced, TypesPending
  <2> QED
    BY <1>2, <2>1 DEF TypesPending
<1>16. (s \in Seq(Entry))'
  BY DEF Traced, Entry
<1> QED
  BY <1>5, <1>6, <1>7, <1>8, <1>9, <1>10, <1>11, <1>12, <1>14, <1>15, <1>16 DEF Traced

------------------------------------------------------------------------------
(* Each case of mark_target *)

\* The first entry leads nowhere, or to what was found before.
LEMMA EntryDropped ==
    ASSUME NEW G, NEW rk, Typed, Shape(G, rk), NEW L, NEW F, NEW T, NEW s, Traced(G, rk, L, F, T, s), s # <<>>,
           s[1].op # "uniquefy", ~ Leading(EntryRef(s[1])) \/ Marked(L, F, EntryRef(s[1])),
           s[1].type = type_pointer /\ s[1].val # 0 => IsHeapType(s[1].val)
    PROVE  Traced(G, rk, L, F, T, Tail(s))
<1>1. PICK c, s2, e : c = <<>> /\ s2 = c \o Tail(s) /\ e = s[1]
  OBVIOUS
<1>2. s \in Seq(Entry) /\ c \in Seq(Entry) /\ Len(c) = 0 /\ Tail(s) \in Seq(Entry)
  BY <1>1, HeadTailProperties DEF Traced
<1>3. s2 = Tail(s)
  BY <1>1, <1>2, ConcatEmptySeq
<1>4. Replaced(s, c, s2)
  BY <1>1, <1>2, ReplacedFacts
<1>5. Grown(L, F, T, s, L, F, T, c, s2)
  BY <1>4 DEF Grown, Handled
<1>6. 1 \in DOMAIN s
  BY <1>4 DEF Replaced
<1>7. EntryFits(G, L, F, s, e)
  BY <1>1, <1>6 DEF Traced, EntriesFit
<1>8. e.op = "mark" /\ e.type = type_pointer /\ e.val # 0 =>
         e.val \in HeapTypes(G) /\ Marked(L, F, Ref(e.val, type_pointer))
  <2> SUFFICES ASSUME e.type = type_pointer, e.val # 0
               PROVE  e.val \in HeapTypes(G) /\ Marked(L, F, Ref(e.val, type_pointer))
    OBVIOUS
  <2>1. EntryRef(e) = Ref(e.val, type_pointer) /\ EntryRef(e) \in G /\ e.val \in Nat /\ IsHeapType(e.val)
    BY <1>1, <1>7 DEF EntryRef, EntryFits, Entry
  <2>2. Leading(EntryRef(e))
    BY <2>1, Refs, Tags DEF Leading
  <2> QED
    BY <1>1, <2>1, <2>2 DEF HeapTypes
<1>9. Children(G, rk, L, F, T, s, L, F, T, c, s2)
  <2>1. LivingIn(G, L) /\ FlagsIn(G, F) /\ TableIn(G, T)
    BY DEF Traced
  <2>2. \A i \in 1 .. Len(c) : FALSE
    BY <1>2
  <2>3. s[1].op = "mark" /\ s[1].type = type_pointer /\ s[1].val # 0 =>
           s[1].val \in HeapTypes(G) /\ Marked(L, F, Ref(s[1].val, type_pointer))
    BY <1>1, <1>8
  <2> QED
    BY <2>1, <2>2, <2>3 DEF Children
<1>10. Traced(G, rk, L, F, T, s2)
  BY <1>5, <1>9, TraceAdvances
<1> QED
  BY <1>3, <1>10

\* r is found, and nothing else.
MarkedNow(G, L, F, r, L2) ==
    /\ LivingIn(G, L2) /\ Marked(L2, F, r)
    /\ \A q \in G : Leading(q) /\ Marked(L2, F, q) /\ ~ Marked(L, F, q) => q = r

\* The marks of a block are those of one reference.
LEMMA MarkedBlock ==
    ASSUME NEW G, NEW rk, Shape(G, rk), NEW L, LivingIn(G, L), NEW F, NEW r \in G, Solid(r),
           NEW L2, L2 = L \cup {BlockOf(r)}
    PROVE  MarkedNow(G, L, F, r, L2)
<1>1. LivingIn(G, L2)
  BY DEF LivingIn
<1>2. r.type # function_pointer
  BY DEF Solid
<1>3. Marked(L2, F, r)
  <2>1. BlockOf(r) \in L2 /\ BlockOf(r).addr = r.val
    BY DEF BlockOf
  <2> QED
    BY <1>2, <2>1 DEF Marked
<1>4. ASSUME NEW q \in G, Leading(q), Marked(L2, F, q), ~ Marked(L, F, q)
      PROVE  q = r
  <2>1. q.type # function_pointer /\ BlockOf(r).addr = q.val
    BY <1>4 DEF Marked
  <2>2. Solid(q) /\ q.val = r.val
    BY <1>4, <2>1, SolidLeads DEF BlockOf
  <2> QED
    BY <2>2 DEF Shape
<1> QED
  BY <1>1, <1>3, <1>4 DEF MarkedNow

\* An object is found that is no type: its words are marked next.
LEMMA ObjectVisited ==
    ASSUME NEW G, NEW rk, Typed, Shape(G, rk), NEW L, NEW F, NEW T, NEW s, Traced(G, rk, L, F, T, s), s # <<>>,
           s[1].op # "uniquefy", NEW r, r = EntryRef(s[1]), Solid(r), r.type # type_pointer,
           NEW c \in Seq(Entry),
           \A i \in 1 .. Len(c) : /\ c[i].op = "mark" /\ EntryRef(c[i]) \in G
                                  /\ IsHeapType(c[i].type) => Covered(G, L, F, s, c[i].type),
           \A q \in Targets(r) : Handled(L, F, s, q) \/ \E i \in 1 .. Len(c) : EntryRef(c[i]) = q
    PROVE  Traced(G, rk, L \cup {BlockOf(r)}, F, T, c \o Tail(s))
<1>1. PICK s2, L2 : s2 = c \o Tail(s) /\ L2 = L \cup {BlockOf(r)}
  OBVIOUS
<1>2. s \in Seq(Entry)
  BY DEF Traced
<1>3. Replaced(s, c, s2)
  BY <1>1, <1>2, ReplacedFacts
<1>4. EntryFits(G, L, F, s, s[1]) /\ r \in G
  <2>1. EntryFits(G, L, F, s, s[1])
    BY <1>3 DEF Traced, EntriesFit, Replaced
  <2> QED
    BY <2>1 DEF EntryFits
<1>5. /\ LivingIn(G, L2) /\ Marked(L2, F, r)
      /\ \A q \in G : Leading(q) /\ Marked(L2, F, q) /\ ~ Marked(L, F, q) => q = r
  <2>1. LivingIn(G, L)
    BY DEF Traced
  <2>2. MarkedNow(G, L, F, r, L2)
    BY <1>1, <1>4, <2>1, MarkedBlock
  <2> QED
    BY <2>2 DEF MarkedNow
<1>6. Grown(L, F, T, s, L2, F, T, c, s2)
  BY <1>1, <1>3, <1>5 DEF Grown, Handled
<1>7. /\ \A q : Handled(L, F, s, q) => Handled(L2, F, s2, q)
  BY <1>6, HandledGrows
<1>8. \A t : Covered(G, L, F, s, t) => Covered(G, L2, F, s2, t)
  BY <1>6, CoveredGrows
<1>9. \A i \in 1 .. Len(c) : c[i] \in Entry
  BY SeqFacts
<1>10. \A i \in 1 .. Len(c) : OnStack(s2, EntryRef(c[i]))
  BY <1>3 DEF OnStack, Replaced
<1>11. r.type # function_pointer /\ s[1].type = r.type
  BY Refs DEF Solid, EntryRef
<1>12. Passed(L2, F, s2, r)
  BY <1>7, <1>10, <1>11 DEF Passed, Handled
<1>13. Children(G, rk, L, F, T, s, L2, F, T, c, s2)
  <2>1. LivingIn(G, L2) /\ FlagsIn(G, F) /\ TableIn(G, T)
    BY <1>5 DEF Traced
  <2>2. ASSUME NEW i \in 1 .. Len(c)
        PROVE  /\ EntryFits(G, L2, F, s2, c[i]) /\ c[i].op # "uniquefy"
               /\ IsHeapType(c[i].type) => Covered(G, L2, F, s2, c[i].type)
    BY <1>8, <1>9 DEF EntryFits
  <2>3. \A t : ~ Under(rk, s[1], t)
    BY <1>11 DEF Under
  <2>4. \A q \in G : Found(L2, F, q) /\ ~ Found(L, F, q) => q = EntryRef(s[1]) /\ Passed(L2, F, s2, q)
    BY <1>5, <1>12 DEF Found
  <2>5. ASSUME NEW t \in HeapTypes(G), Marked(L2, F, Ref(t, type_pointer)), ~ Marked(L, F, Ref(t, type_pointer))
        PROVE  FALSE
    <3>1. Ref(t, type_pointer) \in G /\ Leading(Ref(t, type_pointer))
      BY Refs, Tags DEF HeapTypes, Leading
    <3>2. Ref(t, type_pointer) = r
      BY <1>5, <2>5, <3>1
    <3> QED
      BY <3>2, Refs
  <2> QED
    BY <1>11, <2>1, <2>2, <2>3, <2>4, <2>5 DEF Children
<1>14. Traced(G, rk, L2, F, T, s2)
  BY <1>6, <1>13, TraceAdvances
<1> QED
  BY <1>1, <1>14

\* A function is found: its AST and its type are marked next.
LEMMA FunctionVisited ==
    ASSUME NEW G, NEW rk, Typed, Shape(G, rk), NEW L, NEW F, NEW T, NEW s, Traced(G, rk, L, F, T, s), s # <<>>,
           s[1].op # "uniquefy", NEW f, f # 0, Ref(f, function_pointer) = EntryRef(s[1]),
           NEW c \in Seq(Entry), Len(c) = 2, c[1].op = "mark", c[2].op = "mark",
           EntryRef(c[1]) = Ref(functions[f].the_AST, AST_pointer),
           EntryRef(c[2]) = Ref(functions[f].return_type, type_pointer),
           EntryRef(c[2]) \in Targets(Ref(f, function_pointer))
    PROVE  Traced(G, rk, L, F \cup {f}, T, c \o Tail(s))
<1>1. PICK s2, F2, r : s2 = c \o Tail(s) /\ F2 = F \cup {f} /\ r = Ref(f, function_pointer)
  OBVIOUS
<1>2. s \in Seq(Entry)
  BY DEF Traced
<1>3. Replaced(s, c, s2)
  BY <1>1, <1>2, ReplacedFacts
<1>4. r \in G /\ r.val = f /\ r.type = function_pointer /\ s[1].type = function_pointer
  <2>1. EntryFits(G, L, F, s, s[1])
    BY <1>3 DEF Traced, EntriesFit, Replaced
  <2>2. r \in G
    BY <1>1, <2>1 DEF EntryFits
  <2>3. s[1].type = function_pointer
    <3>1. EntryRef(s[1]).type = s[1].type /\ Ref(f, function_pointer).type = function_pointer
      BY Refs DEF EntryRef
    <3> QED
      BY <3>1
  <2> QED
    BY <1>1, <2>2, <2>3, Refs
<1>5. Marked(L, F2, r) /\ \A q \in G : Marked(L, F2, q) /\ ~ Marked(L, F, q) => q = r
  <2>1. Marked(L, F2, r)
    BY <1>1, <1>4 DEF Marked
  <2>2. ASSUME NEW q \in G, Marked(L, F2, q), ~ Marked(L, F, q)
        PROVE  q = r
    <3>1. q.type = function_pointer /\ q.val = f
      BY <1>1, <2>2 DEF Marked
    <3>2. q = Ref(q.val, q.type)
      BY Refs DEF Shape
    <3> QED
      BY <1>1, <3>1, <3>2
  <2> QED
    BY <2>1, <2>2
<1>6. Grown(L, F, T, s, L, F2, T, c, s2)
  BY <1>1, <1>3, <1>5 DEF Grown, Handled
<1>7. \A i \in 1 .. Len(c) : c[i] \in Entry /\ OnStack(s2, EntryRef(c[i])) /\ c[i].op = "mark"
  <2>1. \A i \in 1 .. Len(c) : c[i] \in Entry
    BY SeqFacts
  <2>2. ASSUME NEW i \in 1 .. Len(c)
        PROVE  OnStack(s2, EntryRef(c[i])) /\ c[i].op = "mark"
    <3>1. i \in DOMAIN s2 /\ s2[i] = c[i]
      BY <1>3 DEF Replaced
    <3>2. i = 1 \/ i = 2
      OBVIOUS
    <3>3. c[i].op = "mark"
      BY <3>2
    <3> QED
      BY <3>1, <3>3 DEF OnStack
  <2> QED
    BY <2>1, <2>2
<1>8. EntryRef(c[1]) \in G /\ EntryRef(c[2]) \in G
  <2>1. EntryRef(c[1]) \in G
    BY <1>4 DEF Shape, ASTsKept
  <2>2. Targets(r) \subseteq G
    BY <1>4 DEF Shape, Closed
  <2> QED
    BY <1>1, <2>1, <2>2
<1>9. c[1].type = AST_pointer /\ c[2].type = type_pointer
  <2>1. EntryRef(c[1]).type = c[1].type /\ EntryRef(c[2]).type = c[2].type
    BY Refs DEF EntryRef
  <2> QED
    BY <2>1, Refs
<1>10. Passed(L, F2, s2, r)
  <2>1. OnStack(s2, EntryRef(c[1])) /\ OnStack(s2, EntryRef(c[2]))
    BY <1>7
  <2> QED
    BY <1>1, <1>4, <2>1 DEF Passed, Handled
<1>11. Children(G, rk, L, F, T, s, L, F2, T, c, s2)
  <2>1. LivingIn(G, L) /\ FlagsIn(G, F2) /\ TableIn(G, T)
    BY <1>1, <1>4 DEF Traced, FlagsIn
  <2>2. ASSUME NEW i \in 1 .. Len(c)
        PROVE  /\ EntryFits(G, L, F2, s2, c[i]) /\ c[i].op # "uniquefy"
               /\ ~ IsHeapType(c[i].type)
    <3>1. i = 1 \/ i = 2
      OBVIOUS
    <3>2. EntryFits(G, L, F2, s2, c[i])
      BY <1>7, <1>8, <3>1 DEF EntryFits
    <3>3. c[i].op # "uniquefy" /\ ~ IsHeapType(c[i].type)
      BY <1>7, <1>9, <3>1, Tags
    <3> QED
      BY <3>2, <3>3
  <2>3. \A t : ~ Under(rk, s[1], t)
    BY <1>4, Tags DEF Under
  <2>4. \A q \in G : Found(L, F2, q) /\ ~ Found(L, F, q) => q = EntryRef(s[1]) /\ Passed(L, F2, s2, q)
    BY <1>1, <1>5, <1>10 DEF Found
  <2>5. ASSUME NEW t \in HeapTypes(G), Marked(L, F2, Ref(t, type_pointer)), ~ Marked(L, F, Ref(t, type_pointer))
        PROVE  FALSE
    <3>1. Ref(t, type_pointer) \in G
      BY DEF HeapTypes
    <3>2. Ref(t, type_pointer) = r
      BY <1>5, <2>5, <3>1
    <3> QED
      BY <1>4, <3>2, Refs, Tags
  <2> QED
    BY <1>4, <2>1, <2>2, <2>3, <2>4, <2>5, Tags DEF Children
<1>12. Traced(G, rk, L, F2, T, s2)
  BY <1>6, <1>11, TraceAdvances
<1> QED
  BY <1>1, <1>12

\* The subtypes are a sequence.
LEMMA SubtypesSeq ==
    ASSUME NEW G, NEW rk, Typed, Shape(G, rk), NEW t \in HeapTypes(G)
    PROVE  Len(Subtypes(t)) \in Nat /\ DOMAIN Subtypes(t) = 1 .. Len(Subtypes(t))
<1>1. t \in Nat /\ IsHeapType(t) /\ ver(t) = Word(t) /\ ver(t) \in {con_vec, vector, pointer} /\ MemTyped
  BY TypeFacts DEF Typed
<1>2. CASE Word(t) = con_vec
  <2>1. DOMAIN Subtypes(t) = 1 .. Word(t + 1) /\ Word(t + 1) \in Nat
    BY <1>1, <1>2, SubtypesByTag, WordTyped, Sizes
  <2>2. Subtypes(t) = [i \in 1 .. Word(t + 1) |-> Word(t + 1 + i)]
    BY <1>1, <1>2, Tags DEF Subtypes
  <2>3. \A i \in 1 .. Word(t + 1) : Word(t + 1 + i) \in Nat
    BY <1>1, WordTyped, Sizes
  <2>4. Subtypes(t) \in [1 .. Word(t + 1) -> Nat]
    BY <2>2, <2>3
  <2>5. Len(Subtypes(t)) = Word(t + 1)
    BY <2>1, <2>4, FunctionIsSeq
  <2> QED
    BY <2>1, <2>5
<1>3. CASE Word(t) \in {vector, pointer}
  <2>1. Subtypes(t) = <<Word(t + 1)>> /\ DOMAIN Subtypes(t) = {1}
    BY <1>1, <1>3, SubtypesByTag
  <2>2. Len(Subtypes(t)) = 1
    BY <2>1
  <2> QED
    BY <2>1, <2>2
<1> QED
  BY <1>1, <1>2, <1>3

\* A type whose parts are marked first, and which is then made unique.
TypeMarks(t, c) ==
    /\ c \in Seq(Entry) /\ Len(c) = Len(Subtypes(t)) + 1
    /\ \A i \in 1 .. Len(Subtypes(t)) : c[i] = [op |-> "mark", val |-> Subtypes(t)[i], type |-> type_pointer]
    /\ c[Len(Subtypes(t)) + 1] = [op |-> "uniquefy", val |-> t, type |-> type_pointer]

\* The work that mark_type leaves for a type: its subtypes, then itself.
TypeMarked(G, rk, t, n, c) ==
    /\ n \in Nat /\ Len(c) = n + 1 /\ \A i \in 1 .. n + 1 : c[i] \in Entry
    /\ \A i \in 1 .. n : /\ c[i].op = "mark" /\ c[i].type = type_pointer /\ c[i].val \in FieldlessTypes \cup HeapTypes(G)
                         /\ EntryRef(c[i]) \in G /\ Under(rk, c[i], t)
    /\ c[n + 1].op = "uniquefy" /\ c[n + 1].type = type_pointer /\ c[n + 1].val = t
    /\ \A u \in Range(Subtypes(t)) : \E i \in 1 .. n : c[i].op = "mark" /\ EntryRef(c[i]) = Ref(u, type_pointer) /\ TypeEntry(c[i], u)

\* The marks of a type: they are sound, and its parts come before it.
LEMMA TypeMarksFacts ==
    ASSUME NEW G, NEW rk, Typed, Shape(G, rk), NEW t \in HeapTypes(G), NEW c, TypeMarks(t, c), NEW n, n = Len(Subtypes(t))
    PROVE  TypeMarked(G, rk, t, n, c)
<1>1. /\ t \in Nat /\ IsHeapType(t) /\ MadeType(rk, t) /\ ver(t) = Word(t) /\ ver(t) \in {con_vec, vector, pointer}
      /\ \A u \in Range(Subtypes(t)) : u \in FieldlessTypes \cup HeapTypes(G)
  BY TypeFacts
<1>2. MemTyped
  BY DEF Typed
<1>3. n \in Nat /\ DOMAIN Subtypes(t) = 1 .. n
  BY SubtypesSeq
<1>4. Len(c) = n + 1 /\ \A i \in 1 .. n + 1 : c[i] \in Entry
  <2>1. c \in Seq(Entry) /\ Len(c) = n + 1
    BY DEF TypeMarks
  <2> QED
    BY <2>1, SeqFacts
<1>5. \A i \in 1 .. n : Subtypes(t)[i] \in Range(Subtypes(t))
  BY <1>3 DEF Range
<1>6. \A u \in FieldlessTypes \cup HeapTypes(G) : u \in Nat /\ Ref(u, type_pointer) \in G
  <2>1. \A u \in FieldlessTypes : u \in Nat /\ Ref(u, type_pointer) \in Base
    BY Tags DEF Base
  <2>2. Base \subseteq G
    BY DEF Shape
  <2> QED
    BY <2>1, <2>2 DEF HeapTypes
<1>7. ASSUME NEW i \in 1 .. n
      PROVE  /\ c[i].op = "mark" /\ c[i].type = type_pointer /\ c[i].val = Subtypes(t)[i]
             /\ c[i].val \in FieldlessTypes \cup HeapTypes(G)
             /\ EntryRef(c[i]) = Ref(Subtypes(t)[i], type_pointer)
             /\ EntryRef(c[i]) \in G /\ Under(rk, c[i], t)
  <2>1. c[i].op = "mark" /\ c[i].type = type_pointer /\ c[i].val = Subtypes(t)[i]
    <3>1. c[i] = [op |-> "mark", val |-> Subtypes(t)[i], type |-> type_pointer]
      BY DEF TypeMarks
    <3> QED
      BY <3>1
  <2>2. Subtypes(t)[i] \in FieldlessTypes \cup HeapTypes(G)
    BY <1>1, <1>5
  <2>3. EntryRef(c[i]) = Ref(Subtypes(t)[i], type_pointer)
    BY <2>1 DEF EntryRef
  <2>4. EntryRef(c[i]) \in G
    BY <1>6, <2>2, <2>3
  <2>5. IsHeapType(Subtypes(t)[i]) => rk[Subtypes(t)[i]] < rk[t]
    BY <1>1, <1>5 DEF MadeType
  <2>6. Under(rk, c[i], t)
    BY <1>1, <2>1, <2>5 DEF Under
  <2> QED
    BY <2>1, <2>2, <2>3, <2>4, <2>6
<1>8. c[n + 1].op = "uniquefy" /\ c[n + 1].type = type_pointer /\ c[n + 1].val = t
  BY DEF TypeMarks
<1>9. ASSUME NEW u \in Range(Subtypes(t))
      PROVE  \E i \in 1 .. n : c[i].op = "mark" /\ EntryRef(c[i]) = Ref(u, type_pointer) /\ TypeEntry(c[i], u)
  <2>1. PICK i \in 1 .. n : u = Subtypes(t)[i]
    BY <1>3 DEF Range
  <2> QED
    BY <1>7, <2>1 DEF TypeEntry
<1> QED
  BY <1>3, <1>4, <1>7, <1>8, <1>9 DEF TypeMarked

\* A type is found: what it is made of is marked next, and then it is made unique.
LEMMA TypeVisited ==
    ASSUME NEW G, NEW rk, Typed, Shape(G, rk), NEW L, NEW F, NEW T, NEW s, Traced(G, rk, L, F, T, s), s # <<>>,
           s[1].op = "mark", NEW t \in HeapTypes(G), EntryRef(s[1]) = Ref(t, type_pointer),
           NEW c, TypeMarks(t, c)
    PROVE  Traced(G, rk, L \cup {BlockOf(Ref(t, type_pointer))}, F, T, c \o Tail(s))
<1>1. PICK s2, L2, r, n : s2 = c \o Tail(s) /\ r = Ref(t, type_pointer) /\ L2 = L \cup {BlockOf(r)} /\ n = Len(Subtypes(t))
  OBVIOUS
<1>2. s \in Seq(Entry) /\ c \in Seq(Entry)
  BY DEF Traced, TypeMarks
<1>3. Replaced(s, c, s2)
  BY <1>1, <1>2, ReplacedFacts
<1>4. r \in G /\ r.val = t /\ r.type = type_pointer /\ s[1].type = type_pointer /\ s[1].val = t /\ r = EntryRef(s[1])
  <2>1. EntryRef(s[1]).type = s[1].type /\ EntryRef(s[1]).val = s[1].val /\ r.val = t /\ r.type = type_pointer
    BY <1>1, Refs DEF EntryRef
  <2> QED
    BY <1>1, <2>1 DEF HeapTypes
<1>5. t \in Nat /\ IsHeapType(t) /\ Solid(r) /\ rk \in [Nat -> Nat]
  BY <1>1, TypeFacts DEF Shape
<1>6. /\ n \in Nat /\ Len(c) = n + 1 /\ \A i \in 1 .. n + 1 : c[i] \in Entry
      /\ \A i \in 1 .. n : /\ c[i].op = "mark" /\ c[i].type = type_pointer /\ c[i].val \in FieldlessTypes \cup HeapTypes(G)
                           /\ EntryRef(c[i]) \in G /\ Under(rk, c[i], t)
      /\ c[n + 1].op = "uniquefy" /\ c[n + 1].type = type_pointer /\ c[n + 1].val = t
      /\ \A u \in Range(Subtypes(t)) : \E i \in 1 .. n : c[i].op = "mark" /\ EntryRef(c[i]) = Ref(u, type_pointer) /\ TypeEntry(c[i], u)
  <2>1. TypeMarked(G, rk, t, n, c)
    BY <1>1, TypeMarksFacts
  <2> QED
    BY <2>1 DEF TypeMarked
<1>7. /\ LivingIn(G, L2) /\ Marked(L2, F, r)
      /\ \A q \in G : Leading(q) /\ Marked(L2, F, q) /\ ~ Marked(L, F, q) => q = r
  <2>1. LivingIn(G, L)
    BY DEF Traced
  <2>2. MarkedNow(G, L, F, r, L2)
    BY <1>1, <1>4, <1>5, <2>1, MarkedBlock
  <2> QED
    BY <2>2 DEF MarkedNow
<1>8. Grown(L, F, T, s, L2, F, T, c, s2)
  BY <1>1, <1>3, <1>4, <1>7 DEF Grown, Handled
<1>9. Passed(L2, F, s2, r)
  <2>1. Leads(r)
    BY <1>4, <1>5, SolidFacts
  <2>2. Targets(r) = {Ref(u, type_pointer) : u \in Range(Subtypes(t))}
    BY <1>4, <2>1, TargetsByKind
  <2>3. ASSUME NEW u \in Range(Subtypes(t))
        PROVE  OnStack(s2, Ref(u, type_pointer))
    <3>1. PICK i \in 1 .. n : c[i].op = "mark" /\ EntryRef(c[i]) = Ref(u, type_pointer)
      BY <1>6
    <3>2. i \in DOMAIN s2 /\ s2[i] = c[i]
      BY <1>3, <1>6 DEF Replaced
    <3> QED
      BY <3>1, <3>2 DEF OnStack
  <2> QED
    BY <1>4, <2>2, <2>3, Tags DEF Passed, Handled
<1>10. EntryRef(c[n + 1]) = r
  BY <1>1, <1>6 DEF EntryRef
<1>11. Children(G, rk, L, F, T, s, L2, F, T, c, s2)
  <2>1. LivingIn(G, L2) /\ FlagsIn(G, F) /\ TableIn(G, T)
    BY <1>7 DEF Traced
  <2>2. ASSUME NEW i \in 1 .. Len(c)
        PROVE  /\ EntryFits(G, L2, F, s2, c[i])
               /\ ~ IsHeapType(c[i].type)
               /\ \A u \in Nat : Under(rk, s[1], u) => Under(rk, c[i], u)
    <3>1. CASE i \in 1 .. n
      <4>1. EntryFits(G, L2, F, s2, c[i]) /\ ~ IsHeapType(c[i].type)
        BY <1>6, <3>1, Tags DEF EntryFits
      <4>2. ASSUME NEW u \in Nat, Under(rk, s[1], u)
            PROVE  Under(rk, c[i], u)
        <5>1. IsHeapType(u) /\ rk[t] < rk[u] /\ rk[u] \in Nat /\ rk[t] \in Nat
          BY <1>4, <1>5, <4>2 DEF Under
        <5>2. Under(rk, c[i], t) /\ c[i].val \in Nat
          <6>1. c[i] \in Entry
            BY <1>6
          <6> QED
            BY <1>6, <3>1, <6>1 DEF Entry
        <5>3. rk[c[i].val] \in Nat
          BY <1>5, <5>2
        <5> QED
          BY <5>1, <5>2, <5>3 DEF Under
      <4> QED
        BY <4>1, <4>2
    <3>2. CASE i = n + 1
      <4>1. EntryFits(G, L2, F, s2, c[i])
        <5>1. c[i] \in Entry /\ EntryRef(c[i]) = r /\ c[i].val # 0
          <6>1. n + 1 \in 1 .. n + 1
            BY <1>6
          <6>2. c[n + 1] \in Entry
            BY <1>6, <6>1
          <6>3. t # 0
            BY <1>5, Tags
          <6> QED
            BY <1>6, <1>10, <3>2, <6>2, <6>3
        <5> QED
          BY <1>4, <1>6, <1>7, <3>2, <5>1 DEF EntryFits
      <4>2. ~ IsHeapType(c[i].type)
        BY <1>6, <3>2, Tags
      <4>3. \A u \in Nat : Under(rk, s[1], u) => Under(rk, c[i], u)
        BY <1>4, <1>6, <3>2 DEF Under
      <4> QED
        BY <4>1, <4>2, <4>3
    <3>3. i \in 1 .. n \/ i = n + 1
      BY <1>6
    <3> QED
      BY <3>1, <3>2, <3>3
  <2>3. ASSUME NEW i \in 1 .. Len(c), c[i].op = "uniquefy"
        PROVE  /\ \A h \in 1 .. i - 1 : Under(rk, c[h], c[i].val)
               /\ \A u \in Range(Subtypes(c[i].val)) : \E h \in 1 .. i - 1 : TypeEntry(c[h], u)
    <3>1. i = n + 1
      <4>1. i \in 1 .. n \/ i = n + 1
        BY <1>6
      <4>2. i \in 1 .. n => c[i].op = "mark"
        BY <1>6
      <4> QED
        BY <2>3, <4>1, <4>2
    <3>2. n + 1 - 1 = n
      BY <1>6
    <3> QED
      BY <1>6, <3>1, <3>2
  <2>4. \A q \in G : Found(L2, F, q) /\ ~ Found(L, F, q) => q = EntryRef(s[1]) /\ Passed(L2, F, s2, q)
    BY <1>4, <1>7, <1>9 DEF Found
  <2>5. ASSUME NEW u \in HeapTypes(G), Marked(L2, F, Ref(u, type_pointer)), ~ Marked(L, F, Ref(u, type_pointer))
        PROVE  \E i \in 1 .. Len(c) : c[i].op = "uniquefy" /\ c[i].val = u
    <3>1. Ref(u, type_pointer) \in G /\ Leading(Ref(u, type_pointer))
      BY Refs, Tags DEF HeapTypes, Leading
    <3>2. Ref(u, type_pointer) = r
      BY <1>7, <2>5, <3>1
    <3>3. u = t
      BY <1>4, <3>2, Refs
    <3>4. n + 1 \in 1 .. Len(c)
      BY <1>6
    <3> QED
      BY <1>6, <3>3, <3>4
  <2>6. \E i \in 1 .. Len(c) : TypeEntry(c[i], s[1].val)
    <3>1. n + 1 \in 1 .. Len(c) /\ TypeEntry(c[n + 1], t)
      BY <1>6 DEF TypeEntry
    <3> QED
      BY <1>4, <3>1
  <2>7. s[1].op # "uniquefy"
    OBVIOUS
  <2> QED
    BY <2>1, <2>2, <2>3, <2>4, <2>5, <2>6, <2>7 DEF Children
<1>12. Traced(G, rk, L2, F, T, s2)
  BY <1>8, <1>11, TraceAdvances
<1> QED
  BY <1>1, <1>12

\* A type without fields has nothing to be marked before it.
LEMMA FieldlessVisited ==
    ASSUME NEW G, NEW rk, Typed, Shape(G, rk), NEW L, NEW F, NEW T, NEW s, Traced(G, rk, L, F, T, s), s # <<>>,
           s[1].op = "mark", NEW t \in FieldlessTypes, EntryRef(s[1]) = Ref(t, type_pointer),
           NEW c \in Seq(Entry), Len(c) = 1, c[1] = [op |-> "uniquefy", val |-> t, type |-> type_pointer]
    PROVE  Traced(G, rk, L, F, T, c \o Tail(s))
<1>1. PICK s2 : s2 = c \o Tail(s)
  OBVIOUS
<1>2. s \in Seq(Entry)
  BY DEF Traced
<1>3. Replaced(s, c, s2)
  BY <1>1, <1>2, ReplacedFacts
<1>4. s[1].type = type_pointer /\ s[1].val = t /\ Ref(t, type_pointer) \in G
  <2>1. EntryRef(s[1]).type = s[1].type /\ EntryRef(s[1]).val = s[1].val
    BY Refs DEF EntryRef
  <2>2. Ref(t, type_pointer) \in Base /\ Base \subseteq G
    BY DEF Base, Shape
  <2> QED
    BY <2>1, <2>2, Refs
<1>5. t \in Nat /\ t # 0 /\ ~ IsHeapType(t) /\ Subtypes(t) = <<>> /\ Range(Subtypes(t)) = {}
  <2>1. t \in Nat /\ t # 0 /\ ~ IsHeapType(t)
    BY Tags
  <2>2. Subtypes(t) = <<>>
    BY <2>1, Fieldless
  <2> QED
    BY <2>1, <2>2 DEF Range
<1>6. c[1].op = "uniquefy" /\ c[1].val = t /\ c[1].type = type_pointer /\ c[1] \in Entry
  <2>1. c[1] \in Entry
    <3>1. \A i \in 1 .. Len(c) : c[i] \in Entry
      BY SeqFacts
    <3>2. 1 \in 1 .. Len(c)
      OBVIOUS
    <3> QED
      BY <3>1, <3>2
  <2> QED
    BY <2>1
<1>7. ~ Leading(EntryRef(s[1]))
  BY <1>5, Refs DEF Leading
<1>8. Grown(L, F, T, s, L, F, T, c, s2)
  BY <1>3, <1>7 DEF Grown, Handled
<1>9. Children(G, rk, L, F, T, s, L, F, T, c, s2)
  <2>1. LivingIn(G, L) /\ FlagsIn(G, F) /\ TableIn(G, T)
    BY DEF Traced
  <2>2. ASSUME NEW i \in 1 .. Len(c)
        PROVE  i = 1
    OBVIOUS
  <2>3. EntryFits(G, L, F, s2, c[1]) /\ ~ IsHeapType(c[1].type)
    BY <1>4, <1>5, <1>6, Tags DEF EntryFits, EntryRef
  <2>4. \A u \in Nat : Under(rk, s[1], u) => Under(rk, c[1], u)
    BY <1>4, <1>6 DEF Under
  <2>5. /\ \A h \in 1 .. 1 - 1 : Under(rk, c[h], c[1].val)
        /\ \A u \in Range(Subtypes(c[1].val)) : u \in T \/ \E h \in 1 .. 1 - 1 : TypeEntry(c[h], u)
    <3>1. \A h \in 1 .. 1 - 1 : FALSE
      OBVIOUS
    <3> QED
      BY <1>5, <1>6, <3>1
  <2>6. TypeEntry(c[1], s[1].val) /\ 1 \in 1 .. Len(c)
    BY <1>4, <1>6 DEF TypeEntry
  <2>7. \A q \in G : ~ (Found(L, F, q) /\ ~ Found(L, F, q))
    OBVIOUS
  <2>8. s[1].op # "uniquefy"
    OBVIOUS
  <2> QED
    BY <2>1, <2>2, <2>3, <2>4, <2>5, <2>6, <2>7, <2>8 DEF Children
<1>10. Traced(G, rk, L, F, T, s2)
  BY <1>8, <1>9, TraceAdvances
<1> QED
  BY <1>1, <1>10

\* A dynamic object is looked at again when its type is marked.
LEMMA DynamicSplit ==
    ASSUME NEW G, NEW rk, Typed, Shape(G, rk), NEW L, NEW F, NEW T, NEW s, Traced(G, rk, L, F, T, s), s # <<>>,
           s[1].op = "mark", NEW d, d # 0, EntryRef(s[1]) = Ref(d, dynamic_object),
           NEW c \in Seq(Entry), Len(c) = 2,
           c[1] = [op |-> "mark", val |-> Word(d), type |-> type_pointer],
           c[2] = [op |-> "contents", val |-> d, type |-> dynamic_object]
    PROVE  Traced(G, rk, L, F, T, c \o Tail(s))
<1>1. PICK s2, r : s2 = c \o Tail(s) /\ r = Ref(d, dynamic_object)
  OBVIOUS
<1>2. s \in Seq(Entry)
  BY DEF Traced
<1>3. Replaced(s, c, s2)
  BY <1>1, <1>2, ReplacedFacts
<1>4. r \in G /\ r.val = d /\ r.type = dynamic_object /\ s[1].type = dynamic_object
  <2>1. EntryFits(G, L, F, s, s[1])
    BY <1>3 DEF Traced, EntriesFit, Replaced
  <2>2. r \in G
    BY <1>1, <2>1 DEF EntryFits
  <2>3. EntryRef(s[1]).type = s[1].type
    BY Refs DEF EntryRef
  <2> QED
    BY <1>1, <2>2, <2>3, Refs
<1>5. Ref(Word(d), type_pointer) \in G
  <2>1. Solid(r)
    BY <1>4, Tags DEF Solid
  <2>2. Leads(r)
    BY <1>4, <2>1, SolidFacts
  <2>3. Ref(Word(d), type_pointer) \in Targets(r)
    BY <1>4, <2>2, TargetsByKind
  <2> QED
    BY <1>4, <2>3 DEF Shape, Closed
<1>6. /\ c[1].op = "mark" /\ c[1].type = type_pointer /\ EntryRef(c[1]) = Ref(Word(d), type_pointer)
      /\ c[2].op = "contents" /\ c[2].type = dynamic_object /\ c[2].val = d /\ EntryRef(c[2]) = r
      /\ c[1] \in Entry /\ c[2] \in Entry
  <2>1. c[1] \in Entry /\ c[2] \in Entry
    <3>1. \A i \in 1 .. Len(c) : c[i] \in Entry
      BY SeqFacts
    <3>2. 1 \in 1 .. Len(c) /\ 2 \in 1 .. Len(c)
      OBVIOUS
    <3> QED
      BY <3>1, <3>2
  <2>2. c[1].op = "mark" /\ c[1].type = type_pointer /\ EntryRef(c[1]) = Ref(Word(d), type_pointer)
    BY DEF EntryRef
  <2>3. c[2].op = "contents" /\ c[2].type = dynamic_object /\ c[2].val = d /\ EntryRef(c[2]) = r
    BY <1>1 DEF EntryRef
  <2> QED
    BY <2>1, <2>2, <2>3
<1>7. OnStack(s2, EntryRef(c[1])) /\ OnStack(s2, r)
  <2>1. 1 \in DOMAIN s2 /\ 2 \in DOMAIN s2 /\ s2[1] = c[1] /\ s2[2] = c[2]
    BY <1>3 DEF Replaced
  <2> QED
    BY <1>6, <2>1 DEF OnStack
<1>8. Grown(L, F, T, s, L, F, T, c, s2)
  BY <1>1, <1>3, <1>7 DEF Grown, Handled
<1>9. Children(G, rk, L, F, T, s, L, F, T, c, s2)
  <2>1. LivingIn(G, L) /\ FlagsIn(G, F) /\ TableIn(G, T)
    BY DEF Traced
  <2>2. ASSUME NEW i \in 1 .. Len(c)
        PROVE  i = 1 \/ i = 2
    OBVIOUS
  <2>3. EntryFits(G, L, F, s2, c[1])
    BY <1>5, <1>6 DEF EntryFits
  <2>4. EntryFits(G, L, F, s2, c[2])
    BY <1>4, <1>6, <1>7 DEF EntryFits, Handled
  <2>5. c[1].op # "uniquefy" /\ c[2].op # "uniquefy" /\ ~ IsHeapType(c[1].type) /\ ~ IsHeapType(c[2].type)
    BY <1>6, Tags
  <2>6. \A t : ~ Under(rk, s[1], t)
    BY <1>4, Tags DEF Under
  <2>7. s[1].op # "uniquefy" /\ s[1].type # type_pointer
    BY <1>4, Tags
  <2>8. ASSUME NEW i \in 1 .. Len(c)
        PROVE  EntryFits(G, L, F, s2, c[i]) /\ c[i].op # "uniquefy" /\ ~ IsHeapType(c[i].type)
    BY <2>2, <2>3, <2>4, <2>5
  <2> QED
    BY <2>1, <2>6, <2>7, <2>8 DEF Children
<1>10. Traced(G, rk, L, F, T, s2)
  BY <1>8, <1>9, TraceAdvances
<1> QED
  BY <1>1, <1>10

\* A type is made unique: what it is made of is in the table.
LEMMA TypeUniquefied ==
    ASSUME NEW G, NEW rk, Typed, Shape(G, rk), NEW L, NEW F, NEW T, NEW s, Traced(G, rk, L, F, T, s), s # <<>>,
           s[1].op = "uniquefy", NEW t, t = s[1].val
    PROVE  /\ t \in FieldlessTypes \cup HeapTypes(G) /\ Range(Subtypes(t)) \subseteq T
           /\ Traced(G, rk, L, F, T \cup {t}, Tail(s))
<1>1. PICK c, s2, T2 : c = <<>> /\ s2 = c \o Tail(s) /\ T2 = T \cup {t}
  OBVIOUS
<1>2. s \in Seq(Entry) /\ c \in Seq(Entry) /\ Len(c) = 0 /\ Tail(s) \in Seq(Entry)
  BY <1>1, HeadTailProperties DEF Traced
<1>3. s2 = Tail(s)
  BY <1>1, <1>2, ConcatEmptySeq
<1>4. Replaced(s, c, s2)
  BY <1>1, <1>2, ReplacedFacts
<1>5. 1 \in DOMAIN s
  BY <1>4 DEF Replaced
<1>6. EntryFits(G, L, F, s, s[1])
  BY <1>5 DEF Traced, EntriesFit
<1>7. t \in FieldlessTypes \cup HeapTypes(G)
  <2>1. Ref(t, type_pointer) \in G /\ t \in Nat /\ t # 0
    BY <1>6 DEF EntryFits, EntryRef, Entry
  <2>2. Sound(rk, Ref(t, type_pointer))
    BY <2>1 DEF Shape
  <2> QED
    BY <2>1, <2>2, Refs DEF Sound, HeapTypes
<1>8. Range(Subtypes(t)) \subseteq T
  <2>1. \A u \in Range(Subtypes(t)) : u \in T \/ \E i \in 1 .. 1 - 1 : TypeEntry(s[i], u)
    BY <1>5 DEF Traced, SubtypesFirst
  <2> QED
    BY <2>1
<1>9. TableIn(G, T2)
  <2>1. TableIn(G, T)
    BY DEF Traced
  <2> QED
    BY <1>1, <1>7, <1>8, <2>1 DEF TableIn
<1>10. Grown(L, F, T, s, L, F, T2, c, s2)
  BY <1>1, <1>4 DEF Grown
<1>11. Children(G, rk, L, F, T, s, L, F, T2, c, s2)
  <2>1. LivingIn(G, L) /\ FlagsIn(G, F)
    BY DEF Traced
  <2>2. \A i \in 1 .. Len(c) : FALSE
    BY <1>2
  <2>3. s[1].val \in T2
    BY <1>1
  <2> QED
    BY <1>9, <2>1, <2>2, <2>3 DEF Children
<1>12. Traced(G, rk, L, F, T2, s2)
  BY <1>10, <1>11, TraceAdvances
<1> QED
  BY <1>1, <1>3, <1>7, <1>8, <1>12

\* What is said of the objects stays when nothing of them changes.
LEMMA WorldStill ==
    ASSUME NEW G, NEW rk, Typed, Shape(G, rk), Still, UNCHANGED event_roots
    PROVE  /\ TypesApart(G) => TypesApart(G)'
           /\ Minimal(G) => Minimal(G)'
           /\ AllOnMenu(G) => AllOnMenu(G)'
<1>1. /\ \A t : ver(t)' = ver(t) /\ Subtypes(t)' = Subtypes(t)
      /\ HeapTypes(G)' = HeapTypes(G)
      /\ \A r \in G : Targets(r)' = Targets(r) /\ (Solid(r) => BlockOf(r)' = BlockOf(r))
      /\ \A a : Word(a)' = Word(a)
      /\ functions' = functions /\ type_roots' = type_roots
  BY StillTypes, StillShape DEF Still
<1>2. TypesApart(G) => TypesApart(G)'
  BY <1>1 DEF TypesApart, SameType
<1>3. RootRefs' = RootRefs /\ Base' = Base
  BY <1>1, RootsStay DEF Base, Ref, type_pointer, FieldlessTypes, integer, dynamic_object, AST_pointer, function_pointer
<1>4. ASSUME NEW S \in SUBSET G
      PROVE  Closed(S)' <=> Closed(S)
  BY <1>1 DEF Closed, IsHeapType, never_reached, Ref, type_pointer
<1>5. ASSUME NEW S \in SUBSET G
      PROVE  ASTsKept(S)' <=> ASTsKept(S)
  BY <1>1 DEF ASTsKept, Ref, AST_pointer, function_pointer
<1>6. Minimal(G) => Minimal(G)'
  BY <1>3, <1>4, <1>5 DEF Minimal
<1>7. AllOnMenu(G) => AllOnMenu(G)'
  <2>1. ASSUME NEW r \in G, OnMenu(r)
        PROVE  OnMenu(r)'
    <3>1. Word(r.val)' = Word(r.val) /\ (Solid(r)' <=> Solid(r))
      BY <1>1 DEF Solid, integer, type_pointer, function_pointer, IsHeapType, never_reached
    <3> QED
      BY <1>1, <2>1, <3>1 DEF OnMenu, AST_pointer, function_pointer, imv
  <2> QED
    BY <2>1 DEF AllOnMenu
<1> QED
  BY <1>2, <1>6, <1>7

\* What a trace knows, for the steps that follow.
LEMMA TraceFacts ==
    ASSUME HeapInv, Typings, NEW G, NEW rk, TraceWorld(G, rk)
    PROVE  /\ Typed /\ Shape(G, rk) /\ AllOnMenu(G) /\ TypesApart(G) /\ Minimal(G) /\ RootRefs \subseteq G
           /\ G \subseteq Reference /\ Base \subseteq G /\ copier = NoCopy /\ held = {} /\ Guarded(G)
<1>1. Typed
  BY DEF Typed, Typings, HeapInv, TypeOK
<1> QED
  BY <1>1 DEF TraceWorld, Shape

\* What a trace has found is there: its flags are those of functions.
LEMMA TracedTyped ==
    ASSUME NEW G, NEW rk, Shape(G, rk), NEW L, NEW F, NEW T, NEW s, Traced(G, rk, L, F, T, s)
    PROVE  F \subseteq Flagged(function_pool_flags) /\ T \subseteq Nat /\ s \in Seq(Entry)
<1>1. ASSUME NEW f \in F
      PROVE  f \in Flagged(function_pool_flags)
  <2>1. f # 0 /\ Ref(f, function_pointer) \in G
    BY DEF Traced, FlagsIn
  <2>2. Sound(rk, Ref(f, function_pointer))
    BY <2>1 DEF Shape
  <2> QED
    BY <2>1, <2>2, Refs DEF Sound
<1>2. T \subseteq Nat
  BY Tags DEF Traced, TableIn, HeapTypes
<1> QED
  BY <1>1, <1>2 DEF Traced

\* A step of the trace.
LEMMA TraceGoesOn ==
    ASSUME HeapInv, Typings, NEW G, NEW rk, TraceWorld(G, rk), HeapInv', phase' = "trace",
           UNCHANGED <<objects, mem, type_roots, event_roots, functionVars, copier, held, error>>,
           sweep_function_pool_flags' \in Masks,
           NEW L, NEW F, NEW T, NEW s, L = living_objects', F = Flagged(sweep_function_pool_flags)',
           T = type_hash_table', s = to_be_marked', Traced(G, rk, L, F, T, s)
    PROVE  TraceInv'
<1>1. /\ Typed /\ Shape(G, rk) /\ AllOnMenu(G) /\ TypesApart(G) /\ Minimal(G) /\ RootRefs \subseteq G
      /\ copier = NoCopy /\ held = {} /\ Guarded(G)
  BY TraceFacts
<1>2. Still /\ UNCHANGED event_roots
  BY DEF Still, functionVars
<1>3. Shape(G, rk)' /\ AllOnMenu(G)' /\ TypesApart(G)' /\ Minimal(G)'
  BY <1>1, <1>2, StillShape, WorldStill
<1>4. RootRefs' = RootRefs
  BY RootsStay
<1>5. Traced(G, rk, L, F, T, s)'
  BY <1>1, <1>2, TracedStill
<1>6. TraceNow(G, rk)'
  BY <1>5 DEF TraceNow
<1>7. copier' = NoCopy' /\ held' = {}
  BY <1>1 DEF NoCopy
<1>16. Guarded(G)'
  BY <1>1, <1>2, GuardedStays
<1>8. TraceWorld(G, rk)'
  BY <1>1, <1>3, <1>4, <1>6, <1>7, <1>16 DEF TraceWorld
<1>9. F \subseteq Flagged(function_pool_flags) /\ T \subseteq Nat /\ s \in Seq(Entry)
  BY <1>1, TracedTyped
<1>10. MemTyped'
  BY DEF Typings, MemTyped, Pool, PoolEnd
<1>11. FunctionTypings' /\ Flagged(function_pool_flags)' = Flagged(function_pool_flags)
  BY FunctionsStay DEF Typings
<1>12. TraceTypings'
  BY <1>9 DEF TraceTypings, Entry, Masks, Blocks, Power
<1>13. type_roots' \in Seq(Nat) /\ event_roots' \in Seq(Slots)' /\ error' \in {"none", "OOM", "OOM function"}
  BY DEF Typings, Slots
<1>14. held' \subseteq Reference' /\ type_hash_table' \subseteq Nat
  BY <1>7, <1>9
<1>15. Typings'
  BY <1>9, <1>10, <1>11, <1>12, <1>13, <1>14 DEF Typings
<1> QED
  BY <1>8, <1>15 DEF TraceInv

\* The trace at an entry of the given kind.
TraceAt(G, rk, L, F, T, s, op) ==
    /\ L = living_objects /\ F = Flagged(sweep_function_pool_flags) /\ T = type_hash_table /\ s = to_be_marked
    /\ Traced(G, rk, L, F, T, s) /\ s \in Seq(Entry) /\ s # <<>> /\ 1 \in DOMAIN s
    /\ s[1].op = op /\ s[1] \in Entry /\ EntryFits(G, L, F, s, s[1])
    /\ EntryRef(s[1]) \in G /\ EntryRef(s[1]).val = s[1].val /\ EntryRef(s[1]).type = s[1].type
    /\ Next_to_mark = s[1] /\ Rest = Tail(s)

\* A step of the trace, with all it reads named.
LEMMA TraceFound ==
    ASSUME HeapInv, Typings, NEW G, NEW rk, TraceWorld(G, rk), NEW op, Tracing(op)
    PROVE  \E L, F, T, s : TraceAt(G, rk, L, F, T, s, op)
<1>1. PICK L, F, T, s : /\ L = living_objects /\ F = Flagged(sweep_function_pool_flags)
                        /\ T = type_hash_table /\ s = to_be_marked
                        /\ Traced(G, rk, L, F, T, s)
  BY DEF TraceWorld, TraceNow
<1>2. s \in Seq(Entry) /\ s # <<>>
  BY <1>1 DEF Traced, Tracing
<1>3. 1 \in DOMAIN s /\ Head(s) = s[1]
  <2>1. Len(s) \in Nat /\ DOMAIN s = 1 .. Len(s)
    BY <1>2, SeqFacts
  <2>2. Len(s) # 0
    BY <1>2, EmptySeq
  <2>3. Head(s) = s[1]
    BY <1>2, HeadTailProperties
  <2> QED
    BY <2>1, <2>2, <2>3
<1>4. EntryFits(G, L, F, s, s[1])
  BY <1>1, <1>3 DEF Traced, EntriesFit
<1>5. s[1] \in Entry /\ EntryRef(s[1]) \in G /\ EntryRef(s[1]).val = s[1].val /\ EntryRef(s[1]).type = s[1].type
  BY <1>4, Refs DEF EntryFits, EntryRef
<1>6. Next_to_mark = s[1] /\ Rest = Tail(s)
  BY <1>1, <1>3 DEF Next_to_mark, Rest
<1>7. s[1].op = op
  BY <1>6 DEF Tracing
<1>8. TraceAt(G, rk, L, F, T, s, op)
  BY <1>1, <1>2, <1>3, <1>4, <1>5, <1>6, <1>7 DEF TraceAt
<1> QED
  BY <1>8

\* The entries that mark references.
LEMMA MarksFacts ==
    ASSUME NEW n \in Nat, NEW refs, DOMAIN refs = 1 .. n, \A i \in 1 .. n : refs[i] \in Reference
    PROVE  /\ Marks(refs) \in Seq(Entry) /\ Len(Marks(refs)) = n
           /\ \A i \in 1 .. n : Marks(refs)[i].op = "mark" /\ EntryRef(Marks(refs)[i]) = refs[i]
                                /\ Marks(refs)[i].type = refs[i].type
<1>1. ASSUME NEW i \in 1 .. n
      PROVE  /\ Mark(refs[i]) \in Entry /\ Mark(refs[i]).op = "mark" /\ EntryRef(Mark(refs[i])) = refs[i]
             /\ Mark(refs[i]).type = refs[i].type
  <2>1. refs[i].val \in Nat /\ refs[i].type \in Nat /\ refs[i] = Ref(refs[i].val, refs[i].type)
    BY Refs, Sizes
  <2>2. Mark(refs[i]) = [op |-> "mark", val |-> refs[i].val, type |-> refs[i].type]
    BY DEF Mark
  <2> QED
    BY <2>1, <2>2 DEF Entry, EntryRef
<1>2. Marks(refs) = [i \in 1 .. n |-> Mark(refs[i])]
  BY DEF Marks
<1>3. Marks(refs) \in [1 .. n -> Entry]
  BY <1>1, <1>2
<1>4. Marks(refs) \in Seq(Entry) /\ Len(Marks(refs)) = n
  BY <1>3, FunctionIsSeq
<1> QED
  BY <1>1, <1>2, <1>4

\* The visit of an object.
LEMMA VisitStep ==
    ASSUME HeapInv, Typings, NEW G, NEW rk, TraceWorld(G, rk), phase = "trace", traceUnchanged,
           NEW L, NEW F, NEW T, NEW s, NEW op, TraceAt(G, rk, L, F, T, s, op), op # "uniquefy",
           NEW r, r = EntryRef(s[1]), Solid(r), NEW c,
           Visit(r.val, Extent(r), c),
           Traced(G, rk, L \cup {BlockOf(r)}, F, T, c \o Tail(s))
    PROVE  TraceInv'
<1>1. Typed /\ Shape(G, rk) /\ r \in G
  BY TraceFacts DEF TraceAt
<1>2. /\ BlockOf(r) \in Block /\ Extent(r) \in Nat /\ Extent(r) > 0
      /\ r.val \in Nat /\ r.val >= big_memory_pool /\ r.val + Extent(r) <= PoolEnd
  BY <1>1, SolidFacts
<1>3. BlockOf(r) \in objects /\ BlockOf(r).addr = r.val /\ BlockOf(r).size = Extent(r)
  BY <1>1 DEF Shape, Sound, BlockOf
<1>4. Extent(r) # 0 /\ r.val # 0
  BY <1>2, Sizes
<1>5. /\ found_living_object(r.val, Extent(r))
      /\ to_be_marked' = (IF \E l \in living_objects : l.addr = r.val THEN <<>> ELSE c) \o Rest
      /\ UNCHANGED <<mem, type_hash_table, sweep_function_pool_flags>> /\ UNCHANGED error
  BY <1>2, <1>4 DEF Visit, CheckedElseAbort
<1>6. HeapInv'
  BY <1>3, <1>5, FoundStep
<1>7. /\ phase' = "trace" /\ UNCHANGED objects
      /\ UNCHANGED <<objects, mem, type_roots, event_roots, functionVars, copier, held, error>>
  BY <1>5 DEF found_living_object, traceUnchanged
<1>8. sweep_function_pool_flags' \in Masks
  BY <1>5 DEF Typings, TraceTypings
<1>9. F = Flagged(sweep_function_pool_flags)' /\ T = type_hash_table'
  BY <1>5 DEF TraceAt, Flagged, Slots, Bit, Power
<1>10. CASE \E l \in living_objects : l.addr = r.val
  <2>1. Marked(L, F, r)
    <3>1. r.type # function_pointer
      BY DEF Solid
    <3> QED
      BY <1>10, <3>1 DEF Marked, TraceAt
  <2>2. s[1].type = type_pointer /\ s[1].val # 0 => IsHeapType(s[1].val)
    BY DEF Solid, TraceAt
  <2>3. Traced(G, rk, L, F, T, Tail(s))
    BY <1>1, <2>1, <2>2, EntryDropped DEF TraceAt
  <2>4. to_be_marked' = Tail(s)
    <3>1. to_be_marked' = <<>> \o Tail(s)
      BY <1>5, <1>10 DEF TraceAt
    <3>2. Tail(s) \in Seq(Entry)
      BY HeadTailProperties DEF TraceAt
    <3> QED
      BY <3>1, <3>2, ConcatEmptySeq
  <2>5. L = living_objects'
    BY <1>5, <1>10 DEF found_living_object, TraceAt
  <2> QED
    BY <1>6, <1>7, <1>8, <1>9, <2>3, <2>4, <2>5, TraceGoesOn
<1>11. CASE ~ \E l \in living_objects : l.addr = r.val
  <2>1. to_be_marked' = c \o Tail(s)
    BY <1>5, <1>11 DEF TraceAt
  <2>2. living_objects' = L \cup {BlockOf(r)}
    BY <1>5, <1>11 DEF found_living_object, TraceAt, BlockOf
  <2> QED
    BY <1>6, <1>7, <1>8, <1>9, <2>1, <2>2, TraceGoesOn
<1> QED
  BY <1>10, <1>11

\* What an object leads to is handled or marked next.
MarksTargets(G, L, F, s, r, c) ==
    /\ \A i \in 1 .. Len(c) : /\ c[i].op = "mark" /\ EntryRef(c[i]) \in G
                              /\ IsHeapType(c[i].type) => Covered(G, L, F, s, c[i].type)
    /\ \A q \in Targets(r) : Handled(L, F, s, q) \/ \E i \in 1 .. Len(c) : EntryRef(c[i]) = q

\* The visit of an object that is no type.
LEMMA ObjectMarked ==
    ASSUME HeapInv, Typings, NEW G, NEW rk, TraceWorld(G, rk), phase = "trace", traceUnchanged,
           NEW L, NEW F, NEW T, NEW s, NEW op, TraceAt(G, rk, L, F, T, s, op), op # "uniquefy",
           NEW r, r = EntryRef(s[1]), Solid(r), r.type # type_pointer, NEW c \in Seq(Entry),
           Visit(r.val, Extent(r), c),
           MarksTargets(G, L, F, s, r, c)
    PROVE  TraceInv'
<1>1. Typed /\ Shape(G, rk)
  BY TraceFacts
<1>2. Traced(G, rk, L, F, T, s) /\ s # <<>> /\ s[1].op # "uniquefy"
  BY DEF TraceAt
<1>3. Traced(G, rk, L \cup {BlockOf(r)}, F, T, c \o Tail(s))
  BY <1>1, <1>2, ObjectVisited DEF MarksTargets
<1> QED
  BY <1>3, VisitStep

\* A step of the trace that only changes what is left to do.
LEMMA StackStep ==
    ASSUME HeapInv, Typings, NEW G, NEW rk, TraceWorld(G, rk), phase = "trace", traceUnchanged,
           UNCHANGED <<heapVars, mem, type_hash_table, sweep_function_pool_flags, error>>,
           NEW L, NEW F, NEW T, NEW s, NEW op, TraceAt(G, rk, L, F, T, s, op),
           Traced(G, rk, L, F, T, to_be_marked')
    PROVE  TraceInv'
<1>1. HeapInv'
  BY NextInv
<1>2. /\ phase' = "trace" /\ L = living_objects' /\ T = type_hash_table'
      /\ UNCHANGED <<objects, mem, type_roots, event_roots, functionVars, copier, held, error>>
  BY DEF heapVars, traceUnchanged, TraceAt
<1>3. sweep_function_pool_flags' \in Masks
  BY DEF Typings, TraceTypings
<1>4. F = Flagged(sweep_function_pool_flags)'
  BY DEF TraceAt, Flagged, Slots, Bit, Power
<1>5. PICK s2 : s2 = to_be_marked'
  OBVIOUS
<1>6. Traced(G, rk, L, F, T, s2)
  BY <1>5
<1> QED
  BY <1>1, <1>2, <1>3, <1>4, <1>5, <1>6, TraceGoesOn

\* A step mark_nothing keeps the invariant of the trace.
LEMMA MarkNothingStep ==
    ASSUME HeapInv, Typings, NEW G, NEW rk, TraceWorld(G, rk), mark_nothing
    PROVE  TraceInv'
<1>1. /\ Tracing("mark") /\ traceUnchanged /\ to_be_marked' = Rest
      /\ UNCHANGED <<heapVars, mem, type_hash_table, sweep_function_pool_flags, error>>
      /\ \/ Next_to_mark.type = integer
         \/ Next_to_mark.val = 0 /\ Next_to_mark.type \in {dynamic_object, AST_pointer, type_pointer, function_pointer}
  BY DEF mark_nothing
<1>2. PICK L, F, T, s : TraceAt(G, rk, L, F, T, s, "mark")
  BY <1>1, TraceFound
<1>3. phase = "trace"
  BY <1>1 DEF Tracing
<1>4. s[1].type = integer \/ s[1].val = 0
  BY <1>1, <1>2 DEF TraceAt
<1>5. ~ Leading(EntryRef(s[1])) /\ (s[1].type = type_pointer /\ s[1].val # 0 => IsHeapType(s[1].val))
  BY <1>2, <1>4, Tags DEF TraceAt, Leading
<1>6. Traced(G, rk, L, F, T, Tail(s))
  BY <1>2, <1>5, TraceFacts, EntryDropped DEF TraceAt
<1>7. to_be_marked' = Tail(s)
  BY <1>1, <1>2 DEF TraceAt
<1> QED
  BY <1>1, <1>2, <1>3, <1>6, <1>7, StackStep

\* A reference of a type of the heap is the address of an object.
LEMMA HeapTyped ==
    ASSUME NEW G, NEW rk, Typed, Shape(G, rk), NEW r \in G, ver(r.type) \in {vector, pointer}
    PROVE  /\ IsHeapType(r.type) /\ r.type \in HeapTypes(G) /\ r.val # 0 /\ Solid(r) /\ Leads(r)
           /\ Subtypes(r.type) = <<Word(r.type + 1)>> /\ OneWord(Subtypes(r.type)[1])
           /\ Subtypes(r.type)[1] \in Range(Subtypes(r.type)) /\ r \in Reference
<1>1. OneWord(r.type) /\ (r.val = 0 => r.type \in FieldlessTypes) /\ r \in Reference
  BY DEF Shape, Sound
<1>2. IsHeapType(r.type)
  <2>1. r.type \in FieldlessTypes => ver(r.type) = r.type /\ r.type \in {1, 2, 3, 4, 5}
    BY Fieldless, Tags
  <2> QED
    BY <1>1, <2>1, Tags DEF OneWord
<1>3. r.val # 0
  BY <1>1, <1>2, Tags
<1>4. r.type \in HeapTypes(G)
  BY <1>1, <1>2, Refs, Sizes DEF Shape, Closed, HeapTypes
<1>5. Solid(r)
  BY <1>2, <1>3, Tags DEF Solid
<1>6. Leads(r)
  BY <1>5, SolidFacts
<1>7. /\ MadeType(rk, r.type) /\ ver(r.type) = Word(r.type) /\ r.type \in Nat
  BY <1>4, TypeFacts
<1>8. Subtypes(r.type) = <<Word(r.type + 1)>> /\ Subtypes(r.type)[1] \in Range(Subtypes(r.type))
  <2>1. MemTyped
    BY DEF Typed
  <2>2. /\ Subtypes(r.type) = <<Word(r.type + 1)>> /\ Subtypes(r.type)[1] = Word(r.type + 1)
        /\ Range(Subtypes(r.type)) = {Word(r.type + 1)}
    BY <1>2, <1>7, <2>1, SubtypesByTag
  <2> QED
    BY <2>2
<1>9. OneWord(Subtypes(r.type)[1])
  BY <1>7, <1>8 DEF MadeType
<1> QED
  BY <1>1, <1>2, <1>3, <1>4, <1>5, <1>6, <1>8, <1>9

\* The type that is below that of an entry is covered.
LEMMA EntryCovers ==
    ASSUME NEW G, NEW rk, Typed, Shape(G, rk), NEW L, NEW F, NEW T, NEW s, NEW op, TraceAt(G, rk, L, F, T, s, op),
           op # "uniquefy", NEW u \in Range(Subtypes(s[1].type)), IsHeapType(s[1].type), IsHeapType(u)
    PROVE  Covered(G, L, F, s, u)
<1>1. OnStack(s, EntryRef(s[1]))
  BY DEF TraceAt, OnStack
<1>2. Covered(G, L, F, s, s[1].type)
  BY <1>1 DEF TraceAt, Traced, TypesCovered
<1> QED
  BY <1>2, CoveredFacts

\* A step mark_pointer keeps the invariant of the trace.
LEMMA MarkPointerStep ==
    ASSUME HeapInv, Typings, NEW G, NEW rk, TraceWorld(G, rk), mark_pointer
    PROVE  TraceInv'
<1>1. Tracing("mark") /\ ver(Next_to_mark.type) = pointer /\ traceUnchanged /\ phase = "trace"
  BY DEF mark_pointer, Marking, Tracing
<1>2. PICK L, F, T, s : TraceAt(G, rk, L, F, T, s, "mark")
  BY <1>1, TraceFound
<1>3. PICK r : r = EntryRef(s[1])
  OBVIOUS
<1>4. r \in G /\ r.val = s[1].val /\ r.type = s[1].type /\ Next_to_mark = s[1]
  BY <1>2, <1>3 DEF TraceAt
<1>5. Typed /\ Shape(G, rk) /\ ver(r.type) = pointer /\ ver(r.type) \in {vector, pointer}
  BY <1>1, <1>4, TraceFacts
<1>6. /\ IsHeapType(r.type) /\ r.type \in HeapTypes(G) /\ r.val # 0 /\ Solid(r) /\ Leads(r)
      /\ Subtypes(r.type) = <<Word(r.type + 1)>> /\ OneWord(Subtypes(r.type)[1])
      /\ Subtypes(r.type)[1] \in Range(Subtypes(r.type)) /\ r \in Reference
  BY <1>4, <1>5, HeapTyped
<1>7. PICK u : u = Subtypes(r.type)[1]
  OBVIOUS
<1>8. u \in Nat /\ OneWord(u)
  <2>1. u \in FieldlessTypes \cup HeapTypes(G)
    BY <1>5, <1>6, <1>7, TypeFacts
  <2> QED
    BY <1>6, <1>7, <2>1, Tags DEF HeapTypes
<1>9. Targets(r) = {Ref(Word(r.val), u)}
  BY <1>5, <1>6, <1>7, <1>8, HeapTargets DEF Typed
<1>10. get_size(r.type) = Extent(r)
  <2>1. Extent(r) = get_size(u)
    BY <1>5, <1>6, <1>7, ExtentByKind
  <2>2. get_size(u) = 1
    BY <1>8, RefsByType, Tags
  <2>3. get_size(r.type) = 1
    BY <1>5, <1>6, Tags DEF get_size
  <2> QED
    BY <2>1, <2>2, <2>3
<1>11. PICK c : c = Marks(RefsAt(r.val, u))
  OBVIOUS
<1>12. RefsAt(r.val, u) = <<Ref(Word(r.val), u)>>
  <2>1. u # 0 => ver(u) # con_vec
    <3>1. u \in FieldlessTypes => ver(u) = u /\ u \in {1, 2, 3, 4, 5}
      BY Fieldless, Tags
    <3> QED
      BY <1>8, <3>1, Tags DEF OneWord
  <2> QED
    BY <2>1 DEF RefsAt
<1>13. c \in Seq(Entry) /\ Len(c) = 1 /\ c[1].op = "mark" /\ EntryRef(c[1]) = Ref(Word(r.val), u) /\ c[1].type = u
  <2>1. PICK refs, q : refs = RefsAt(r.val, u) /\ q = Ref(Word(r.val), u)
    OBVIOUS
  <2>2. refs = <<q>> /\ DOMAIN refs = 1 .. 1 /\ refs[1] = q
    BY <1>12, <2>1
  <2>3. q \in Reference /\ q.type = u
    BY <1>4, <1>5, <1>9, <2>1, Refs DEF Shape, Closed
  <2>4. \A i \in 1 .. 1 : refs[i] \in Reference
    BY <2>2, <2>3
  <2>5. /\ Marks(refs) \in Seq(Entry) /\ Len(Marks(refs)) = 1
        /\ \A i \in 1 .. 1 : Marks(refs)[i].op = "mark" /\ EntryRef(Marks(refs)[i]) = refs[i]
                             /\ Marks(refs)[i].type = refs[i].type
    BY <2>2, <2>4, MarksFacts
  <2> QED
    BY <1>11, <2>1, <2>2, <2>3, <2>5
<1>14. Visit(r.val, Extent(r), c)
  <2>1. Visit(Next_to_mark.val, get_size(Next_to_mark.type), Marks(RefsAt(Next_to_mark.val, Subtypes(Next_to_mark.type)[1])))
    BY DEF mark_pointer
  <2> QED
    BY <1>4, <1>7, <1>10, <1>11, <2>1
<1>15. ASSUME NEW i \in 1 .. Len(c)
       PROVE  /\ c[i].op = "mark" /\ EntryRef(c[i]) \in G
              /\ IsHeapType(c[i].type) => Covered(G, L, F, s, c[i].type)
  <2>1. i = 1
    BY <1>13
  <2>2. Ref(Word(r.val), u) \in G
    BY <1>4, <1>5, <1>9 DEF Shape, Closed
  <2>3. IsHeapType(u) => Covered(G, L, F, s, u)
    BY <1>2, <1>4, <1>5, <1>6, <1>7, EntryCovers
  <2> QED
    BY <1>13, <2>1, <2>2, <2>3
<1>16. \A q \in Targets(r) : Handled(L, F, s, q) \/ \E i \in 1 .. Len(c) : EntryRef(c[i]) = q
  BY <1>9, <1>13
<1>17. r.type # type_pointer
  BY <1>6, Tags
<1> QED
  <2>1. MarksTargets(G, L, F, s, r, c)
    BY <1>15, <1>16 DEF MarksTargets
  <2> QED
    BY <1>1, <1>2, <1>3, <1>6, <1>13, <1>14, <1>17, <2>1, ObjectMarked

\* A step mark_vector keeps the invariant of the trace.
LEMMA MarkVectorStep ==
    ASSUME HeapInv, Typings, NEW G, NEW rk, TraceWorld(G, rk), mark_vector
    PROVE  TraceInv'
<1>1. Tracing("mark") /\ ver(Next_to_mark.type) = vector /\ traceUnchanged /\ phase = "trace"
  BY DEF mark_vector, Marking, Tracing
<1>2. PICK L, F, T, s : TraceAt(G, rk, L, F, T, s, "mark")
  BY <1>1, TraceFound
<1>3. PICK r : r = EntryRef(s[1])
  OBVIOUS
<1>4. r \in G /\ r.val = s[1].val /\ r.type = s[1].type /\ Next_to_mark = s[1]
  BY <1>2, <1>3 DEF TraceAt
<1>5. Typed /\ Shape(G, rk) /\ ver(r.type) = vector /\ ver(r.type) \in {vector, pointer}
  BY <1>1, <1>4, TraceFacts
<1>6. /\ IsHeapType(r.type) /\ r.type \in HeapTypes(G) /\ r.val # 0 /\ Solid(r) /\ Leads(r)
      /\ Subtypes(r.type) = <<Word(r.type + 1)>> /\ OneWord(Subtypes(r.type)[1])
      /\ Subtypes(r.type)[1] \in Range(Subtypes(r.type)) /\ r \in Reference
  BY <1>4, <1>5, HeapTyped
<1>7. PICK u, n : u = Subtypes(r.type)[1] /\ n = Word(r.val)
  OBVIOUS
<1>8. n \in Nat /\ r.val \in Nat
  BY <1>4, <1>5, <1>7, SolidFacts, Sizes
<1>9. Targets(r) = {Ref(Word(r.val + 1 + i), u) : i \in 1 .. n}
  BY <1>5, <1>6, <1>7, HeapTargets DEF Typed
<1>10. vector_header_size + Word(r.val + 1) = Extent(r)
  BY <1>5, <1>6, ExtentByKind DEF vector_header_size
<1>11. PICK refs, c : refs = Vector_range(r.val, u) /\ c = Marks(refs)
  OBVIOUS
<1>12. DOMAIN refs = 1 .. n /\ \A i \in 1 .. n : refs[i] = Ref(Word(r.val + 1 + i), u)
  <2>1. Elements(r.val) = [i \in 1 .. n |-> Word(r.val + 2 + i - 1)]
    BY <1>7 DEF Elements, vector_header_size
  <2>2. refs = [i \in 1 .. n |-> Ref(Elements(r.val)[i], u)]
    BY <1>11, <2>1 DEF Vector_range
  <2>3. \A i \in 1 .. n : r.val + 2 + i - 1 = r.val + 1 + i
    BY <1>8
  <2> QED
    BY <2>1, <2>2, <2>3
<1>13. \A i \in 1 .. n : refs[i] \in G /\ refs[i] \in Reference /\ refs[i].type = u
  <2>1. Targets(r) \subseteq G /\ G \subseteq Reference
    BY <1>4, <1>5 DEF Shape, Closed
  <2> QED
    BY <1>9, <1>12, <2>1, Refs
<1>14. /\ c \in Seq(Entry) /\ Len(c) = n
       /\ \A i \in 1 .. n : c[i].op = "mark" /\ EntryRef(c[i]) = refs[i] /\ c[i].type = refs[i].type
  BY <1>8, <1>11, <1>12, <1>13, MarksFacts
<1>15. Visit(r.val, Extent(r), c)
  BY <1>4, <1>7, <1>10, <1>11 DEF mark_vector
<1>16. ASSUME NEW i \in 1 .. Len(c)
       PROVE  /\ c[i].op = "mark" /\ EntryRef(c[i]) \in G
              /\ IsHeapType(c[i].type) => Covered(G, L, F, s, c[i].type)
  <2>1. IsHeapType(u) => Covered(G, L, F, s, u)
    BY <1>2, <1>4, <1>5, <1>6, <1>7, EntryCovers
  <2> QED
    BY <1>13, <1>14, <2>1
<1>17. \A q \in Targets(r) : Handled(L, F, s, q) \/ \E i \in 1 .. Len(c) : EntryRef(c[i]) = q
  BY <1>9, <1>12, <1>14
<1>18. r.type # type_pointer
  BY <1>6, Tags
<1> QED
  <2>1. MarksTargets(G, L, F, s, r, c)
    BY <1>16, <1>17 DEF MarksTargets
  <2> QED
    BY <1>1, <1>2, <1>3, <1>6, <1>14, <1>15, <1>18, <2>1, ObjectMarked

\* A type without fields is told by its tag.
LEMMA FieldlessTyped ==
    ASSUME NEW G, NEW rk, Shape(G, rk), NEW r \in G, ver(r.type) \in FieldlessTypes
    PROVE  r.type = ver(r.type)
<1>1. OneWord(r.type)
  BY DEF Shape, Sound
<1>2. r.type \in FieldlessTypes
  BY <1>1, Tags DEF OneWord
<1> QED
  BY <1>2, Fieldless, Tags

\* Two entries.
LEMMA PairOfEntries ==
    ASSUME NEW x \in Entry, NEW y \in Entry, NEW c, c = <<x, y>>
    PROVE  c \in Seq(Entry) /\ Len(c) = 2 /\ c[1] = x /\ c[2] = y
  BY PairFacts

\* A step mark_dynamic_object keeps the invariant of the trace.
LEMMA MarkDynamicObjectStep ==
    ASSUME HeapInv, Typings, NEW G, NEW rk, TraceWorld(G, rk), mark_dynamic_object
    PROVE  TraceInv'
<1>1. /\ Tracing("mark") /\ ver(Next_to_mark.type) = dynamic_object /\ traceUnchanged /\ phase = "trace"
      /\ Next_to_mark.val # 0
      /\ UNCHANGED <<heapVars, mem, type_hash_table, sweep_function_pool_flags, error>>
  BY DEF mark_dynamic_object, Marking, Tracing
<1>2. PICK L, F, T, s : TraceAt(G, rk, L, F, T, s, "mark")
  BY <1>1, TraceFound
<1>3. PICK r, d : r = EntryRef(s[1]) /\ d = s[1].val
  OBVIOUS
<1>4. r \in G /\ r.val = d /\ r.type = s[1].type /\ Next_to_mark = s[1] /\ d # 0
  BY <1>1, <1>2, <1>3 DEF TraceAt
<1>5. Typed /\ Shape(G, rk) /\ r \in Reference
  BY <1>4, TraceFacts
<1>6. r.type = dynamic_object
  BY <1>1, <1>4, <1>5, FieldlessTyped, Tags
<1>7. r = Ref(d, dynamic_object)
  BY <1>4, <1>5, <1>6, Refs
<1>8. PICK x, y : /\ x = [op |-> "mark", val |-> Word(d), type |-> type_pointer]
                  /\ y = [op |-> "contents", val |-> d, type |-> dynamic_object]
  OBVIOUS
<1>9. x \in Entry /\ y \in Entry
  <2>1. Word(d) \in Nat /\ d \in Nat
    BY <1>4, <1>5, WordTyped, Sizes, Refs DEF Typed
  <2> QED
    BY <1>8, <2>1, Tags DEF Entry
<1>10. PICK c : c = <<x, y>>
  OBVIOUS
<1>11. c \in Seq(Entry) /\ Len(c) = 2 /\ c[1] = x /\ c[2] = y
  BY <1>9, <1>10, PairOfEntries
<1>12. to_be_marked' = c \o Tail(s)
  <2>1. Mark(Ref(Word(d), type_pointer)) = x
    BY <1>8, Refs DEF Mark
  <2> QED
    <3>1. to_be_marked' = <<Mark(Ref(Word(Next_to_mark.val), type_pointer)),
                            [op |-> "contents", val |-> Next_to_mark.val, type |-> dynamic_object]>> \o Rest
      BY DEF mark_dynamic_object
    <3>2. Next_to_mark.val = d /\ Rest = Tail(s)
      BY <1>2, <1>3 DEF TraceAt
    <3> QED
      BY <1>8, <1>10, <2>1, <3>1, <3>2
<1>13. Traced(G, rk, L, F, T, s) /\ s # <<>> /\ s[1].op = "mark"
  BY <1>2 DEF TraceAt
<1>14. Traced(G, rk, L, F, T, c \o Tail(s))
  BY <1>3, <1>4, <1>5, <1>7, <1>8, <1>11, <1>13, DynamicSplit
<1> QED
  BY <1>1, <1>2, <1>12, <1>14, StackStep

\* The marks of several references, some of them apart from the others.
LEMMA RefsMarked ==
    ASSUME HeapInv, Typings, NEW G, NEW rk, TraceWorld(G, rk), phase = "trace", traceUnchanged,
           NEW L, NEW F, NEW T, NEW s, NEW op, TraceAt(G, rk, L, F, T, s, op), op # "uniquefy",
           NEW r, r = EntryRef(s[1]), Solid(r), r.type # type_pointer,
           NEW n \in Nat, NEW refs, DOMAIN refs = 1 .. n, Range(refs) \subseteq Targets(r),
           \A q \in Targets(r) : Handled(L, F, s, q) \/ q \in Range(refs),
           \A q \in Range(refs) : IsHeapType(q.type) => Covered(G, L, F, s, q.type),
           Visit(r.val, Extent(r), Marks(refs))
    PROVE  TraceInv'
<1>1. \A i \in 1 .. n : refs[i] \in Range(refs)
  BY DEF Range
<1>2. \A q \in Range(refs) : \E i \in 1 .. n : q = refs[i]
  BY DEF Range
<1>3. Targets(r) \subseteq G /\ G \subseteq Reference
  BY TraceFacts DEF TraceAt, Shape, Closed
<1>4. PICK c : c = Marks(refs)
  OBVIOUS
<1>5. /\ c \in Seq(Entry) /\ Len(c) = n
      /\ \A i \in 1 .. n : c[i].op = "mark" /\ EntryRef(c[i]) = refs[i] /\ c[i].type = refs[i].type
  BY <1>1, <1>3, <1>4, MarksFacts
<1>6. MarksTargets(G, L, F, s, r, c)
  <2>1. ASSUME NEW i \in 1 .. Len(c)
        PROVE  /\ c[i].op = "mark" /\ EntryRef(c[i]) \in G
               /\ IsHeapType(c[i].type) => Covered(G, L, F, s, c[i].type)
    BY <1>1, <1>3, <1>5
  <2>2. \A q \in Targets(r) : Handled(L, F, s, q) \/ \E i \in 1 .. Len(c) : EntryRef(c[i]) = q
    BY <1>2, <1>5
  <2> QED
    BY <2>1, <2>2 DEF MarksTargets
<1> QED
  BY <1>4, <1>5, <1>6, ObjectMarked

\* A step mark_dynamic_contents keeps the invariant of the trace.
LEMMA MarkContentsStep ==
    ASSUME HeapInv, Typings, NEW G, NEW rk, TraceWorld(G, rk), mark_dynamic_contents
    PROVE  TraceInv'
<1>1. Tracing("contents") /\ traceUnchanged /\ phase = "trace"
  BY DEF mark_dynamic_contents, Tracing
<1>2. PICK L, F, T, s : TraceAt(G, rk, L, F, T, s, "contents")
  BY <1>1, TraceFound
<1>3. PICK r, d, w : r = EntryRef(s[1]) /\ d = s[1].val /\ w = Word(d)
  OBVIOUS
<1>4. r \in G /\ r.val = d /\ r.type = s[1].type /\ Next_to_mark = s[1]
  BY <1>2, <1>3 DEF TraceAt
<1>5. Typed /\ Shape(G, rk) /\ r \in Reference
  BY <1>4, TraceFacts
<1>6. r.type = dynamic_object /\ d # 0 /\ Handled(L, F, s, Ref(w, type_pointer))
  BY <1>2, <1>3, <1>4 DEF TraceAt, EntryFits
<1>7. Solid(r) /\ Leads(r) /\ r.type # type_pointer
  <2>1. Solid(r)
    BY <1>4, <1>6, Tags DEF Solid
  <2> QED
    BY <1>4, <1>5, <1>6, <2>1, SolidFacts, Tags
<1>8. /\ w \in FieldlessTypes \cup HeapTypes(G) /\ w # 0 /\ w \in Nat
      /\ OneWord(w) \/ (IsHeapType(w) /\ ver(w) = con_vec)
      /\ Extent(r) = get_size(w) + 1
  <2>1. /\ w \in FieldlessTypes \cup HeapTypes(G)
        /\ OneWord(w) \/ (IsHeapType(w) /\ ver(w) = con_vec)
        /\ Extent(r) = get_size(w) + 1
    BY <1>3, <1>4, <1>5, <1>6, <1>7, DynamicFacts
  <2>2. w # 0 /\ w \in Nat
    BY <2>1, Tags DEF HeapTypes
  <2> QED
    BY <2>1, <2>2
<1>9. PICK refs : refs = RefsAt(d + 1, w)
  OBVIOUS
<1>10. Targets(r) = {Ref(w, type_pointer)} \cup Range(refs)
  BY <1>3, <1>4, <1>6, <1>7, <1>9, TargetsByKind
<1>11. Visit(r.val, Extent(r), Marks(refs))
  BY <1>3, <1>4, <1>8, <1>9 DEF mark_dynamic_contents
<1>12. w \in HeapTypes(G) => Covered(G, L, F, s, w)
  BY <1>6, CoveredFacts
<1>13. \E n \in Nat : DOMAIN refs = 1 .. n
  <2>1. CASE OneWord(w)
    <3>1. ver(w) # con_vec
      <4>1. w \in FieldlessTypes => ver(w) = w /\ w \in {1, 2, 3, 4, 5}
        BY Fieldless, Tags
      <4> QED
        BY <2>1, <4>1, Tags DEF OneWord
    <3>2. refs = <<Ref(Word(d + 1), w)>>
      BY <1>9, <3>1 DEF RefsAt
    <3>3. DOMAIN refs = 1 .. 1
      BY <3>2
    <3> QED
      BY <3>3
  <2>2. CASE IsHeapType(w) /\ ver(w) = con_vec
    <3>1. refs = [i \in DOMAIN Subtypes(w) |-> Ref(Word(d + 1 + i - 1), Subtypes(w)[i])]
      BY <1>8, <1>9, <2>2 DEF RefsAt
    <3>2. DOMAIN Subtypes(w) = 1 .. Word(w + 1) /\ Word(w + 1) \in Nat
      BY <1>5, <1>8, <2>2, SubtypesByTag, WordTyped, Sizes DEF Typed
    <3> QED
      BY <3>1, <3>2
  <2> QED
    BY <1>8, <2>1, <2>2
<1>14. ASSUME NEW q \in Range(refs), IsHeapType(q.type)
       PROVE  Covered(G, L, F, s, q.type)
  <2>1. CASE OneWord(w)
    <3>1. Range(refs) = {Ref(Word(d + 1), w)}
      <4>1. d + 1 \in Nat
        BY <1>4, <1>5, Refs, Sizes
      <4> QED
        BY <1>8, <1>9, <2>1, <4>1, RefsByType
    <3>2. q.type = w
      BY <3>1, Refs
    <3>3. w \in HeapTypes(G)
      BY <1>8, <1>14, <3>2, Tags
    <3> QED
      BY <1>12, <3>2, <3>3
  <2>2. CASE IsHeapType(w) /\ ver(w) = con_vec
    <3>1. refs = [i \in DOMAIN Subtypes(w) |-> Ref(Word(d + 1 + i - 1), Subtypes(w)[i])]
      BY <1>8, <1>9, <2>2 DEF RefsAt
    <3>2. PICK i \in DOMAIN Subtypes(w) : q = Ref(Word(d + 1 + i - 1), Subtypes(w)[i])
      BY <3>1 DEF Range
    <3>3. q.type \in Range(Subtypes(w))
      BY <3>2, Refs DEF Range
    <3>4. w \in HeapTypes(G)
      BY <1>8, <2>2, Tags
    <3> QED
      BY <1>12, <1>14, <3>3, <3>4, CoveredFacts
  <2> QED
    BY <1>8, <2>1, <2>2
<1>15. PICK n \in Nat : DOMAIN refs = 1 .. n
  BY <1>13
<1>16. Range(refs) \subseteq Targets(r) /\ \A q \in Targets(r) : Handled(L, F, s, q) \/ q \in Range(refs)
  BY <1>6, <1>10
<1> QED
  BY <1>1, <1>2, <1>3, <1>7, <1>11, <1>14, <1>15, <1>16, RefsMarked

\* What is below an AST, one after the other.
LEMMA ASTRangeFacts ==
    ASSUME MemTyped, NEW a \in Nat, IsTag(Word(a)), Word(a) # imv
    PROVE  /\ \E n \in Nat : DOMAIN AST_range(a) = 1 .. n
           /\ \A q \in Range(AST_range(a)) : q.type = AST_pointer
<1>1. CASE Word(a) = basicblock
  <2>1. PICK v : v = Word(a + 1)
    OBVIOUS
  <2>2. AST_range(a) = Vector_range(v, AST_pointer)
    BY <1>1, <2>1, Tags DEF AST_range
  <2>3. DOMAIN Elements(v) = 1 .. Word(v)
    BY DEF Elements
  <2>4. Vector_range(v, AST_pointer) = [i \in 1 .. Word(v) |-> Ref(Elements(v)[i], AST_pointer)]
    BY <2>3 DEF Vector_range
  <2>5. Word(v) \in Nat
    BY WordTyped, Sizes
  <2>6. DOMAIN AST_range(a) = 1 .. Word(v)
    BY <2>2, <2>4
  <2>7. \A q \in Range(AST_range(a)) : q.type = AST_pointer
    BY <2>2, <2>4, Refs DEF Range
  <2> QED
    BY <2>5, <2>6, <2>7
<1>2. CASE Word(a) # basicblock
  <2>1. Word(a) \in DOMAIN ASTFields
    BY <1>2 DEF IsTag
  <2>2. ASTFields[Word(a)] \in Nat
    BY <2>1, CollectorAssumption
  <2>3. get_field_size_of_AST(Word(a)) = ASTFields[Word(a)]
    BY <1>2, <2>1 DEF get_field_size_of_AST
  <2>4. AST_range(a) = [i \in 1 .. get_field_size_of_AST(Word(a)) |-> Ref(Word(a + i), AST_pointer)]
    BY <1>2 DEF AST_range
  <2>5. DOMAIN AST_range(a) = 1 .. ASTFields[Word(a)]
    BY <2>3, <2>4
  <2>6. \A q \in Range(AST_range(a)) : q.type = AST_pointer
    BY <2>4, Refs DEF Range
  <2> QED
    BY <2>2, <2>5, <2>6
<1> QED
  BY <1>1, <1>2

\* A step mark_AST marks the object of an imv.
LEMMA MarkImvStep ==
    ASSUME HeapInv, Typings, NEW G, NEW rk, TraceWorld(G, rk), mark_AST, Word(Next_to_mark.val) = imv
    PROVE  TraceInv'
<1>1. Tracing("mark") /\ ver(Next_to_mark.type) = AST_pointer /\ traceUnchanged /\ phase = "trace" /\ Next_to_mark.val # 0
  BY DEF mark_AST, Marking, Tracing
<1>2. PICK L, F, T, s : TraceAt(G, rk, L, F, T, s, "mark")
  BY <1>1, TraceFound
<1>3. PICK r, a : r = EntryRef(s[1]) /\ a = s[1].val
  OBVIOUS
<1>4. r \in G /\ r.val = a /\ r.type = s[1].type /\ Next_to_mark = s[1] /\ a # 0 /\ Word(a) = imv
  BY <1>1, <1>2, <1>3 DEF TraceAt
<1>5. Typed /\ Shape(G, rk) /\ r \in Reference /\ MemTyped
  BY <1>4, TraceFacts DEF Typed
<1>6. r.type = AST_pointer /\ r.type # type_pointer
  BY <1>1, <1>4, <1>5, FieldlessTyped, Tags
<1>7. Solid(r) /\ Leads(r) /\ a \in Nat
  <2>1. Solid(r)
    BY <1>4, <1>6, Tags DEF Solid
  <2> QED
    BY <1>4, <1>5, <2>1, SolidFacts
<1>8. Extent(r) = get_full_size_of_AST(Word(a))
  BY <1>4, <1>6, ExtentByKind
<1>9. PICK d, refs : d = Ref(Word(a + 1), dynamic_object) /\ refs = <<d>>
  OBVIOUS
<1>10. DOMAIN refs = 1 .. 1 /\ Range(refs) = {d} /\ refs[1] = d
  BY <1>9 DEF Range
<1>11. AST_range(a) = <<>> /\ imv # basicblock
  BY <1>4, Tags DEF AST_range
<1>12. Targets(r) = {d}
  <2>1. Targets(r) = Range(AST_range(r.val)) \cup
                       (IF Word(r.val) = imv THEN {Ref(Word(r.val + 1), dynamic_object)}
                        ELSE IF Word(r.val) = basicblock THEN {Ref(Word(r.val + 1), type_roots[1])}
                        ELSE {})
    BY <1>6, <1>7, TargetsByKind
  <2>2. Range(AST_range(r.val)) = {}
    BY <1>4, <1>11 DEF Range
  <2> QED
    BY <1>4, <1>9, <2>1, <2>2
<1>13. Visit(r.val, Extent(r), Marks(refs))
  <2>1. PICK x : x = Mark(d)
    OBVIOUS
  <2>2. Marks(refs) = <<x>>
    BY <1>9, <2>1 DEF Marks
  <2>3. Marks(AST_range(a)) = <<>>
    BY <1>11 DEF Marks
  <2>4. PICK y, c : /\ y = Ref(Word(a + 1), type_roots[1])
                    /\ c = (IF Word(a) = imv THEN <<Mark(d)>> ELSE <<>>) \o
                           (IF Word(a) = basicblock THEN <<Mark(y)>> ELSE <<>>) \o Marks(AST_range(a))
    OBVIOUS
  <2>5. Next_to_mark.val = a
    BY <1>3, <1>4
  <2>6. Visit(a, get_full_size_of_AST(Word(a)), c)
    BY <1>9, <2>4, <2>5 DEF mark_AST
  <2>7. c = <<x>> \o <<>> \o <<>>
    BY <1>4, <1>11, <2>1, <2>3, <2>4
  <2>8. <<x>> \o <<>> = <<x>>
    <3>1. <<x>> \in Seq({x})
      OBVIOUS
    <3> QED
      BY <3>1, ConcatEmptySeq
  <2>9. c = <<x>>
    BY <2>7, <2>8
  <2> QED
    BY <1>4, <1>8, <2>2, <2>6, <2>9
<1>14. \A q \in Range(refs) : ~ IsHeapType(q.type)
  BY <1>9, <1>10, Refs, Tags
<1> QED
  BY <1>1, <1>2, <1>3, <1>6, <1>7, <1>10, <1>12, <1>13, <1>14, RefsMarked

\* A step mark_AST keeps the invariant of the trace.
LEMMA MarkASTStep ==
    ASSUME HeapInv, Typings, NEW G, NEW rk, TraceWorld(G, rk), mark_AST
    PROVE  TraceInv'
<1> SUFFICES ASSUME Word(Next_to_mark.val) # imv
             PROVE  TraceInv'
  BY MarkImvStep
<1>1. Tracing("mark") /\ ver(Next_to_mark.type) = AST_pointer /\ traceUnchanged /\ phase = "trace" /\ Next_to_mark.val # 0
  BY DEF mark_AST, Marking, Tracing
<1>2. PICK L, F, T, s : TraceAt(G, rk, L, F, T, s, "mark")
  BY <1>1, TraceFound
<1>3. PICK r, a : r = EntryRef(s[1]) /\ a = s[1].val
  OBVIOUS
<1>4. r \in G /\ r.val = a /\ r.type = s[1].type /\ Next_to_mark = s[1] /\ a # 0
  BY <1>1, <1>2, <1>3 DEF TraceAt
<1>5. Typed /\ Shape(G, rk) /\ AllOnMenu(G) /\ r \in Reference /\ RootRefs \subseteq G /\ MemTyped
  BY <1>4, TraceFacts DEF Typed
<1>6. r.type = AST_pointer /\ r.type # type_pointer
  BY <1>1, <1>4, <1>5, FieldlessTyped, Tags
<1>7. Solid(r) /\ Leads(r) /\ a \in Nat
  <2>1. Solid(r)
    BY <1>4, <1>6, Tags DEF Solid
  <2> QED
    BY <1>4, <1>5, <2>1, SolidFacts
<1>8. IsTag(Word(a)) /\ Word(a) # imv
  <2>1. IsTag(Word(a))
    BY <1>4, <1>5, <1>6, <1>7 DEF Shape, Sound, SoundObject
  <2> QED
    BY <1>3, <1>4, <2>1
<1>9. Extent(r) = get_full_size_of_AST(Word(a))
  BY <1>4, <1>6, ExtentByKind
<1>10. PICK refs : refs = AST_range(a)
  OBVIOUS
<1>11. PICK n \in Nat : DOMAIN refs = 1 .. n
  BY <1>5, <1>7, <1>8, <1>10, ASTRangeFacts
<1>12. \A q \in Range(refs) : ~ IsHeapType(q.type)
  BY <1>5, <1>7, <1>8, <1>10, ASTRangeFacts, Tags
<1>13. Targets(r) = Range(refs) \cup (IF Word(a) = basicblock THEN {Ref(Word(a + 1), type_roots[1])} ELSE {})
  <2>1. Targets(r) = Range(AST_range(r.val)) \cup
                       (IF Word(r.val) = imv THEN {Ref(Word(r.val + 1), dynamic_object)}
                        ELSE IF Word(r.val) = basicblock THEN {Ref(Word(r.val + 1), type_roots[1])}
                        ELSE {})
    BY <1>6, <1>7, TargetsByKind
  <2> QED
    BY <1>4, <1>8, <1>10, <2>1
<1>14. PICK v, c : /\ v = Ref(Word(a + 1), type_roots[1])
                   /\ c = (IF Word(a) = imv THEN <<Mark(Ref(Word(a + 1), dynamic_object))>> ELSE <<>>) \o
                          (IF Word(a) = basicblock THEN <<Mark(v)>> ELSE <<>>) \o Marks(refs)
  OBVIOUS
<1>15. Visit(r.val, Extent(r), c)
  <2>1. Next_to_mark.val = a
    BY <1>3, <1>4
  <2> QED
    BY <1>4, <1>9, <1>10, <1>14, <2>1 DEF mark_AST
<1>16. PICK m : m = Marks(refs)
  OBVIOUS
<1>17. \A i \in 1 .. n : refs[i] \in Range(refs)
  BY <1>11 DEF Range
<1>18. Targets(r) \subseteq G /\ G \subseteq Reference
  BY <1>4, <1>5 DEF Shape, Closed
<1>19. /\ m \in Seq(Entry) /\ Len(m) = n
       /\ \A i \in 1 .. n : m[i].op = "mark" /\ EntryRef(m[i]) = refs[i] /\ m[i].type = refs[i].type
  <2>1. \A i \in 1 .. n : refs[i] \in Reference
    BY <1>13, <1>17, <1>18
  <2> QED
    BY <1>11, <1>16, <2>1, MarksFacts
<1>20. CASE Word(a) = basicblock
  <2>1. PICK x : x = Mark(v)
    OBVIOUS
  <2>2. v \in G /\ v \in Reference
    BY <1>13, <1>14, <1>18, <1>20
  <2>3. x \in Entry /\ x.op = "mark" /\ EntryRef(x) = v /\ x.type = v.type
    <3>1. v.val \in Nat /\ v.type \in Nat /\ v = Ref(v.val, v.type)
      BY <2>2, Refs, Sizes
    <3>2. x = [op |-> "mark", val |-> v.val, type |-> v.type]
      BY <2>1 DEF Mark
    <3> QED
      BY <3>1, <3>2 DEF Entry, EntryRef
  <2>4. c = <<x>> \o m
    <3>1. <<x>> \in Seq(Entry) /\ m \in Seq(Entry)
      BY <1>19, <2>3
    <3>2. c = <<>> \o <<x>> \o m
      BY <1>8, <1>14, <1>16, <1>20, <2>1
    <3>3. <<>> \o <<x>> = <<x>>
      BY <3>1, ConcatEmptySeq
    <3> QED
      BY <3>2, <3>3
  <2>5. /\ c \in Seq(Entry) /\ Len(c) = n + 1 /\ c[1] = x /\ \A i \in 1 .. n : c[i + 1] = m[i]
    <3>1. x \in Entry /\ m \in Seq(Entry) /\ n \in Nat /\ Len(m) = n
      BY <1>19, <2>3
    <3> QED
      BY <2>4, <3>1, ConsFacts
  <2>6. v.type = type_roots[1] /\ Covered(G, L, F, s, v.type)
    <3>1. v.type = type_roots[1]
      BY <1>14, Refs
    <3>2. Ref(type_roots[1], type_pointer) \in RootRefs /\ type_roots[1] \in HeapTypes(G)
      <4>1. 1 \in DOMAIN type_roots /\ IsHeapType(type_roots[1])
        BY <1>5 DEF Shape, Root
      <4>2. Ref(type_roots[1], type_pointer) \in RootRefs
        BY <4>1 DEF RootRefs
      <4>3. type_roots[1] \in Nat
        BY <2>2, <3>1, Refs, Sizes
      <4> QED
        BY <1>5, <4>1, <4>2, <4>3 DEF HeapTypes
    <3>3. Handled(L, F, s, Ref(type_roots[1], type_pointer))
      BY <1>2, <3>2 DEF TraceAt, Traced, RootsHandled
    <3> QED
      BY <3>1, <3>2, <3>3, CoveredFacts
  <2>7. ASSUME NEW i \in 1 .. Len(c)
        PROVE  /\ c[i].op = "mark" /\ EntryRef(c[i]) \in G
               /\ IsHeapType(c[i].type) => Covered(G, L, F, s, c[i].type)
    <3>1. CASE i = 1
      BY <2>2, <2>3, <2>5, <2>6, <3>1
    <3>2. CASE i # 1
      <4>1. i - 1 \in 1 .. n /\ i - 1 + 1 = i
        BY <2>5, <3>2
      <4>2. c[i] = m[i - 1]
        BY <2>5, <4>1
      <4>3. refs[i - 1] \in G /\ ~ IsHeapType(refs[i - 1].type)
        BY <1>12, <1>13, <1>17, <1>18, <4>1
      <4> QED
        BY <1>19, <4>1, <4>2, <4>3
    <3> QED
      BY <3>1, <3>2
  <2>8. ASSUME NEW q \in Targets(r)
        PROVE  \E i \in 1 .. Len(c) : EntryRef(c[i]) = q
    <3>1. CASE q = v
      <4>1. 1 \in 1 .. Len(c)
        BY <2>5
      <4> QED
        BY <2>3, <2>5, <3>1, <4>1
    <3>2. CASE q \in Range(refs)
      <4>1. PICK i \in 1 .. n : q = refs[i]
        BY <1>11, <3>2 DEF Range
      <4>2. i + 1 \in 1 .. Len(c)
        BY <2>5
      <4> QED
        BY <1>19, <2>5, <4>1, <4>2
    <3> QED
      BY <1>13, <1>14, <1>20, <3>1, <3>2
  <2>9. MarksTargets(G, L, F, s, r, c)
    BY <2>7, <2>8 DEF MarksTargets
  <2> QED
    BY <1>1, <1>2, <1>3, <1>6, <1>7, <1>15, <2>5, <2>9, ObjectMarked
<1>21. CASE Word(a) # basicblock
  <2>1. c = m
    <3>1. c = <<>> \o <<>> \o m
      BY <1>8, <1>14, <1>16, <1>21
    <3>2. <<>> \in Seq(Entry) /\ <<>> \o <<>> = <<>> /\ <<>> \o m = m
      BY <1>19, ConcatEmptySeq
    <3> QED
      BY <3>1, <3>2
  <2>2. Visit(r.val, Extent(r), Marks(refs))
    BY <1>15, <1>16, <2>1
  <2>3. Range(refs) = Targets(r)
    BY <1>13, <1>21
  <2> QED
    BY <1>1, <1>2, <1>3, <1>6, <1>7, <1>11, <1>12, <2>2, <2>3, RefsMarked
<1> QED
  BY <1>20, <1>21

\* What mark_type leaves to do for a type.
LEMMA TypeMarksOf ==
    ASSUME NEW G, NEW rk, Typed, Shape(G, rk), NEW t \in HeapTypes(G), NEW c, c = SubtypesThenUniquefy(t)
    PROVE  TypeMarks(t, c)
<1>1. PICK n, subs : n = Len(Subtypes(t)) /\ subs = Subtypes(t)
  OBVIOUS
<1>2. n \in Nat /\ DOMAIN subs = 1 .. n /\ t \in Nat
  BY <1>1, SubtypesSeq, TypeFacts
<1>3. PICK refs, m, x : /\ refs = [i \in DOMAIN subs |-> Ref(subs[i], type_pointer)]
                        /\ m = Marks(refs) /\ x = [op |-> "uniquefy", val |-> t, type |-> type_pointer]
  OBVIOUS
<1>4. DOMAIN refs = 1 .. n /\ \A i \in 1 .. n : refs[i] = Ref(subs[i], type_pointer)
  BY <1>2, <1>3
<1>5. \A i \in 1 .. n : refs[i] \in Reference
  <2>1. \A u \in Range(Subtypes(t)) : u \in FieldlessTypes \cup HeapTypes(G)
    BY TypeFacts
  <2>2. \A i \in 1 .. n : subs[i] \in Range(Subtypes(t))
    BY <1>1, <1>2 DEF Range
  <2>3. \A u \in FieldlessTypes \cup HeapTypes(G) : Ref(u, type_pointer) \in G
    BY DEF HeapTypes, Shape, Base
  <2> QED
    BY <1>4, <2>1, <2>2, <2>3 DEF Shape
<1>6. m \in Seq(Entry) /\ Len(m) = n /\ \A i \in 1 .. n : m[i] = Mark(refs[i])
  <2>1. m \in Seq(Entry) /\ Len(m) = n
    BY <1>2, <1>3, <1>4, <1>5, MarksFacts
  <2>2. \A i \in 1 .. n : m[i] = Mark(refs[i])
    BY <1>3, <1>4 DEF Marks
  <2> QED
    BY <2>1, <2>2
<1>7. x \in Entry /\ <<x>> \in Seq(Entry) /\ Len(<<x>>) = 1 /\ <<x>>[1] = x
  <2>1. x \in Entry
    BY <1>2, <1>3, Tags DEF Entry
  <2> QED
    BY <2>1
<1>8. c = m \o <<x>>
  BY <1>1, <1>3 DEF SubtypesThenUniquefy
<1>9. c \in Seq(Entry) /\ Len(c) = n + 1 /\ c[n + 1] = x /\ \A i \in 1 .. n : c[i] = m[i]
  BY <1>6, <1>7, <1>8, AppendedFacts
<1>10. ASSUME NEW i \in 1 .. n
       PROVE  c[i] = [op |-> "mark", val |-> subs[i], type |-> type_pointer]
  <2>1. c[i] = Mark(Ref(subs[i], type_pointer))
    BY <1>4, <1>6, <1>9
  <2> QED
    BY <2>1, Refs DEF Mark
<1> QED
  BY <1>1, <1>3, <1>9, <1>10 DEF TypeMarks

\* A type without fields is only made unique.
LEMMA FieldlessMarks ==
    ASSUME NEW t \in FieldlessTypes, NEW c, c = SubtypesThenUniquefy(t)
    PROVE  c \in Seq(Entry) /\ Len(c) = 1 /\ c[1] = [op |-> "uniquefy", val |-> t, type |-> type_pointer]
<1>1. PICK refs, m, x : /\ refs = [i \in DOMAIN Subtypes(t) |-> Ref(Subtypes(t)[i], type_pointer)]
                        /\ m = Marks(refs) /\ x = [op |-> "uniquefy", val |-> t, type |-> type_pointer]
  OBVIOUS
<1>2. DOMAIN refs = 1 .. 0
  <2>1. Subtypes(t) = <<>>
    BY Fieldless, Tags
  <2> QED
    BY <1>1, <2>1
<1>3. m \in Seq(Entry) /\ Len(m) = 0
  BY <1>1, <1>2, MarksFacts
<1>4. x \in Entry
  BY <1>1, Tags DEF Entry
<1>5. c = m \o <<x>>
  BY <1>1 DEF SubtypesThenUniquefy
<1>6. c \in Seq(Entry) /\ Len(c) = 0 + 1 /\ c[0 + 1] = x
  BY <1>3, <1>4, <1>5, AppendedFacts
<1> QED
  BY <1>1, <1>6

\* A step mark_type keeps the invariant of the trace.
LEMMA MarkTypeStep ==
    ASSUME HeapInv, Typings, NEW G, NEW rk, TraceWorld(G, rk), mark_type
    PROVE  TraceInv'
<1>1. Tracing("mark") /\ ver(Next_to_mark.type) = type_pointer /\ traceUnchanged /\ phase = "trace" /\ Next_to_mark.val # 0
  BY DEF mark_type, Marking, Tracing
<1>2. PICK L, F, T, s : TraceAt(G, rk, L, F, T, s, "mark")
  BY <1>1, TraceFound
<1>3. PICK r, t, c : r = EntryRef(s[1]) /\ t = s[1].val /\ c = SubtypesThenUniquefy(t)
  OBVIOUS
<1>4. r \in G /\ r.val = t /\ r.type = s[1].type /\ Next_to_mark = s[1] /\ t # 0
  BY <1>1, <1>2, <1>3 DEF TraceAt
<1>5. Typed /\ Shape(G, rk) /\ r \in Reference
  BY <1>4, TraceFacts
<1>6. r.type = type_pointer /\ r = Ref(t, type_pointer)
  BY <1>1, <1>4, <1>5, FieldlessTyped, Refs, Tags
<1>7. t \in FieldlessTypes \/ t \in HeapTypes(G)
  <2>1. t \in FieldlessTypes \/ IsHeapType(t)
    BY <1>4, <1>5, <1>6 DEF Shape, Sound
  <2> QED
    BY <1>4, <1>5, <1>6, <2>1, Refs, Sizes DEF HeapTypes
<1>8. Traced(G, rk, L, F, T, s) /\ s # <<>> /\ s[1].op = "mark" /\ Rest = Tail(s)
  BY <1>2 DEF TraceAt
<1>9. CASE t \in FieldlessTypes
  <2>1. Subtypes(t) = <<>>
    BY <1>9, Fieldless, Tags
  <2>2. /\ to_be_marked' = c \o Tail(s)
        /\ UNCHANGED <<heapVars, mem, type_hash_table, sweep_function_pool_flags, error>>
    BY <1>3, <1>4, <1>8, <2>1 DEF mark_type
  <2>3. c \in Seq(Entry) /\ Len(c) = 1 /\ c[1] = [op |-> "uniquefy", val |-> t, type |-> type_pointer]
    BY <1>3, <1>9, FieldlessMarks
  <2>4. Traced(G, rk, L, F, T, c \o Tail(s))
    BY <1>3, <1>5, <1>6, <1>8, <1>9, <2>3, FieldlessVisited
  <2> QED
    BY <1>1, <1>2, <2>2, <2>4, StackStep
<1>10. CASE t \in HeapTypes(G)
  <2>1. Subtypes(t) # <<>> /\ Extent(r) = total_valid_fields(t) + 1 /\ Solid(r)
    BY <1>5, <1>6, <1>10, TypeFacts DEF MadeType
  <2>2. Visit(r.val, Extent(r), c)
    BY <1>3, <1>4, <2>1 DEF mark_type
  <2>3. TypeMarks(t, c)
    BY <1>3, <1>5, <1>10, TypeMarksOf
  <2>4. Traced(G, rk, L \cup {BlockOf(r)}, F, T, c \o Tail(s))
    <3>1. EntryRef(s[1]) = Ref(t, type_pointer)
      BY <1>3, <1>6
    <3>2. Traced(G, rk, L \cup {BlockOf(Ref(t, type_pointer))}, F, T, c \o Tail(s))
      BY <1>5, <1>8, <1>10, <2>3, <3>1, TypeVisited
    <3> QED
      BY <1>6, <3>2
  <2> QED
    BY <1>1, <1>2, <1>3, <2>1, <2>2, <2>4, VisitStep
<1> QED
  BY <1>7, <1>9, <1>10

\* Types of a trace are the same only if they are identical.
LEMMA TracedTypesDiffer ==
    ASSUME NEW G, NEW rk, Typed, Shape(G, rk), TypesApart(G),
           NEW t \in FieldlessTypes \cup HeapTypes(G), NEW u \in FieldlessTypes \cup HeapTypes(G), SameType(t, u)
    PROVE  t = u
<1>2. \A x \in HeapTypes(G) : IsHeapType(x) /\ ver(x) \in {con_vec, vector, pointer}
  BY TypeFacts
<1>3. \A x \in FieldlessTypes : ver(x) = x /\ x \in {1, 2, 3, 4, 5}
  BY Fieldless, Tags
<1>4. ver(t) = ver(u)
  BY DEF SameType
<1>5. CASE t \in HeapTypes(G) /\ u \in HeapTypes(G)
  BY <1>5 DEF TypesApart
<1>6. CASE t \in FieldlessTypes /\ u \in FieldlessTypes
  BY <1>3, <1>4, <1>6
<1> QED
  BY <1>2, <1>3, <1>4, <1>5, <1>6, Tags

\* A type of the shape is the one the table has, if the table has it.
LEMMA TracedUnique ==
    ASSUME NEW G, NEW rk, Typed, Shape(G, rk), TypesApart(G),
           type_hash_table \subseteq FieldlessTypes \cup HeapTypes(G), NEW t \in FieldlessTypes \cup HeapTypes(G)
    PROVE  Unique(t) = t /\ (InTable(t) = {} <=> t \notin type_hash_table)
<1>1. \A e \in InTable(t) : e \in type_hash_table /\ SameType(e, t) /\ e \in FieldlessTypes \cup HeapTypes(G)
  BY DEF InTable
<1>2. \A e \in InTable(t) : e = t
  BY <1>1, TracedTypesDiffer
<1>3. t \in type_hash_table => t \in InTable(t)
  BY DEF InTable, SameType
<1>4. Unique(t) = t
  BY <1>2 DEF Unique
<1> QED
  BY <1>1, <1>2, <1>3, <1>4

\* The fields of a type of a trace are unique.
LEMMA FieldsUnique ==
    ASSUME NEW G, NEW rk, Typed, Shape(G, rk), TypesApart(G),
           type_hash_table \subseteq FieldlessTypes \cup HeapTypes(G), NEW t \in FieldlessTypes \cup HeapTypes(G),
           Range(Subtypes(t)) \subseteq type_hash_table
    PROVE  /\ \A i \in DOMAIN Subtypes(t) : InTable(Subtypes(t)[i]) # {}
           /\ [w \in Pool |-> IF \E i \in DOMAIN Subtypes(t) : w = SubtypeAt(t, i) THEN Unique(mem[w]) ELSE mem[w]] = mem
<1>1. \A i \in DOMAIN Subtypes(t) : Subtypes(t)[i] \in Range(Subtypes(t))
  BY DEF Range
<1>2. \A i \in DOMAIN Subtypes(t) : /\ Subtypes(t)[i] \in type_hash_table
                                    /\ Subtypes(t)[i] \in FieldlessTypes \cup HeapTypes(G)
                                    /\ Unique(Subtypes(t)[i]) = Subtypes(t)[i]
                                    /\ InTable(Subtypes(t)[i]) # {}
  BY <1>1, TracedUnique
<1>3. ASSUME NEW i \in DOMAIN Subtypes(t)
      PROVE  Word(SubtypeAt(t, i)) = Subtypes(t)[i]
  <2>1. t \notin FieldlessTypes
    <3>1. t \in FieldlessTypes => Subtypes(t) = <<>>
      BY Fieldless, Tags
    <3> QED
      BY <3>1
  <2>2. /\ t \in Nat /\ IsHeapType(t) /\ ver(t) = Word(t) /\ ver(t) \in {con_vec, vector, pointer} /\ MemTyped
    BY <2>1, TypeFacts DEF Typed
  <2>3. CASE ver(t) = con_vec
    <3>1. DOMAIN Subtypes(t) = 1 .. Word(t + 1) /\ \A j \in 1 .. Word(t + 1) : Subtypes(t)[j] = Word(t + 1 + j)
      BY <2>2, <2>3, SubtypesByTag
    <3> QED
      BY <2>3, <3>1 DEF SubtypeAt
  <2>4. CASE ver(t) \in {vector, pointer}
    <3>1. DOMAIN Subtypes(t) = {1} /\ Subtypes(t)[1] = Word(t + 1)
      BY <2>2, <2>4, SubtypesByTag
    <3>2. ver(t) # con_vec
      BY <2>4, Tags
    <3> QED
      BY <3>1, <3>2 DEF SubtypeAt
  <2> QED
    BY <2>2, <2>3, <2>4
<1>4. ASSUME NEW w \in Pool, NEW i \in DOMAIN Subtypes(t), w = SubtypeAt(t, i)
      PROVE  Unique(mem[w]) = mem[w]
  <2>1. Word(w) = Subtypes(t)[i] /\ Word(w) = mem[w]
    BY <1>3, <1>4 DEF Word
  <2> QED
    BY <1>2, <2>1
<1>5. mem \in [Pool -> 0 .. special_value]
  BY DEF Typed, MemTyped
<1> QED
  BY <1>2, <1>4, <1>5

\* A type that is made unique keeps its words.
LEMMA TypesUnwritten ==
    ASSUME TraceInv, uniquefy_premade_type
    PROVE  mem' = mem
<1>1. PICK G, rk : TraceWorld(G, rk)
  BY DEF TraceInv
<1>2. HeapInv /\ Typings
  BY DEF TraceInv
<1>3. Tracing("uniquefy")
  BY DEF uniquefy_premade_type
<1>4. PICK L, F, T, s : TraceAt(G, rk, L, F, T, s, "uniquefy")
  BY <1>1, <1>2, <1>3, TraceFound
<1>5. PICK t : t = s[1].val
  OBVIOUS
<1>6. Typed /\ Shape(G, rk) /\ TypesApart(G) /\ Next_to_mark.val = t
  BY <1>1, <1>2, <1>4, <1>5, TraceFacts DEF TraceAt
<1>7. Traced(G, rk, L, F, T, s) /\ s # <<>> /\ s[1].op = "uniquefy" /\ T = type_hash_table
  BY <1>4 DEF TraceAt
<1>8. t \in FieldlessTypes \cup HeapTypes(G) /\ Range(Subtypes(t)) \subseteq T
  BY <1>5, <1>6, <1>7, TypeUniquefied
<1>9. T \subseteq FieldlessTypes \cup HeapTypes(G)
  BY <1>7 DEF Traced, TableIn
<1>10. /\ \A i \in DOMAIN Subtypes(t) : InTable(Subtypes(t)[i]) # {}
       /\ [w \in Pool |-> IF \E i \in DOMAIN Subtypes(t) : w = SubtypeAt(t, i) THEN Unique(mem[w]) ELSE mem[w]] = mem
  BY <1>6, <1>7, <1>8, <1>9, FieldsUnique
<1>11. mem' = [w \in Pool |-> IF \E i \in DOMAIN Subtypes(t) : w = SubtypeAt(t, i) THEN Unique(mem[w]) ELSE mem[w]]
  BY <1>6, <1>10 DEF uniquefy_premade_type, CheckedElseAbort
<1> QED
  BY <1>10, <1>11

\* A step uniquefy_premade_type keeps the invariant of the trace.
LEMMA UniquefyStep ==
    ASSUME HeapInv, Typings, NEW G, NEW rk, TraceWorld(G, rk), uniquefy_premade_type
    PROVE  TraceInv'
<1>1. Tracing("uniquefy") /\ traceUnchanged /\ phase = "trace"
  BY DEF uniquefy_premade_type, Tracing
<1>2. PICK L, F, T, s : TraceAt(G, rk, L, F, T, s, "uniquefy")
  BY <1>1, TraceFound
<1>3. PICK t : t = s[1].val
  OBVIOUS
<1>4. Typed /\ Shape(G, rk) /\ TypesApart(G) /\ Next_to_mark.val = t
  BY <1>2, <1>3, TraceFacts DEF TraceAt
<1>5. Traced(G, rk, L, F, T, s) /\ s # <<>> /\ s[1].op = "uniquefy" /\ Rest = Tail(s) /\ T = type_hash_table
  BY <1>2 DEF TraceAt
<1>6. /\ t \in FieldlessTypes \cup HeapTypes(G) /\ Range(Subtypes(t)) \subseteq T
      /\ Traced(G, rk, L, F, T \cup {t}, Tail(s))
  BY <1>3, <1>4, <1>5, TypeUniquefied
<1>7. T \subseteq FieldlessTypes \cup HeapTypes(G)
  BY <1>5 DEF Traced, TableIn
<1>8. /\ \A i \in DOMAIN Subtypes(t) : InTable(Subtypes(t)[i]) # {}
      /\ [w \in Pool |-> IF \E i \in DOMAIN Subtypes(t) : w = SubtypeAt(t, i) THEN Unique(mem[w]) ELSE mem[w]] = mem
  BY <1>4, <1>5, <1>6, <1>7, FieldsUnique
<1>9. /\ mem' = [w \in Pool |-> IF \E i \in DOMAIN Subtypes(t) : w = SubtypeAt(t, i) THEN Unique(mem[w]) ELSE mem[w]]
      /\ type_hash_table' = IF InTable(t) = {} THEN type_hash_table \cup {t} ELSE type_hash_table
      /\ to_be_marked' = Rest /\ UNCHANGED <<heapVars, sweep_function_pool_flags>> /\ UNCHANGED error
  BY <1>4, <1>8 DEF uniquefy_premade_type, CheckedElseAbort
<1>10. InTable(t) = {} <=> t \notin type_hash_table
  BY <1>4, <1>5, <1>6, <1>7, TracedUnique
<1>11. type_hash_table' = T \cup {t} /\ mem' = mem
  BY <1>5, <1>8, <1>9, <1>10
<1>12. HeapInv'
  BY <1>9, NextInv
<1>13. /\ phase' = "trace" /\ L = living_objects' /\ Tail(s) = to_be_marked'
       /\ UNCHANGED <<objects, mem, type_roots, event_roots, functionVars, copier, held, error>>
  BY <1>1, <1>2, <1>5, <1>9, <1>11 DEF heapVars, traceUnchanged, TraceAt
<1>14. sweep_function_pool_flags' \in Masks
  BY <1>9 DEF Typings, TraceTypings
<1>15. F = Flagged(sweep_function_pool_flags)'
  BY <1>2, <1>9 DEF TraceAt, Flagged, Slots, Bit, Power
<1>16. PICK T2 : T2 = T \cup {t}
  OBVIOUS
<1> QED
  BY <1>6, <1>11, <1>12, <1>13, <1>14, <1>15, <1>16, TraceGoesOn

\* A function that is found for the first time.
LEMMA NewFunctionFound ==
    ASSUME HeapInv, Typings, NEW G, NEW rk, TraceWorld(G, rk),
           NEW L, NEW F, NEW T, NEW s, TraceAt(G, rk, L, F, T, s, "mark"),
           NEW f, f = s[1].val, s[1].type = function_pointer, f # 0,
           NEW c, c = <<Mark(Ref(functions[f].the_AST, AST_pointer)), Mark(Ref(functions[f].return_type, type_pointer))>>
    PROVE  f \in Slots /\ Traced(G, rk, L, F \cup {f}, T, c \o Tail(s))
<1>1. Typed /\ Shape(G, rk) /\ AllOnMenu(G)
  BY TraceFacts
<1>2. EntryRef(s[1]) = Ref(f, function_pointer) /\ Ref(f, function_pointer) \in G
  BY DEF TraceAt, EntryRef
<1>3. f \in Flagged(function_pool_flags) /\ f \in Slots
  <2>1. Sound(rk, Ref(f, function_pointer))
    BY <1>1, <1>2 DEF Shape
  <2> QED
    BY <2>1, FlaggedSlots, Refs DEF Sound
<1>5. PICK a, t : a = functions[f].the_AST /\ t = functions[f].return_type
  OBVIOUS
<1>6. a \in Nat /\ t \in Nat
  <2>1. functions[f] \in FunctionRecord
    BY <1>3 DEF Typings, FunctionTypings, Functional, FunctionRecord
  <2>2. a \in 0 .. special_value /\ t \in 0 .. special_value
    BY <1>5, <2>1 DEF FunctionRecord
  <2> QED
    BY <2>2
<1>7. Mark(Ref(a, AST_pointer)) \in Entry /\ Mark(Ref(t, type_pointer)) \in Entry
  BY <1>6, Refs, Tags DEF Mark, Entry
<1>8. c \in Seq(Entry) /\ Len(c) = 2 /\ c[1] = Mark(Ref(a, AST_pointer)) /\ c[2] = Mark(Ref(t, type_pointer))
  BY <1>5, <1>7, PairOfEntries
<1>9. /\ c[1].op = "mark" /\ EntryRef(c[1]) = Ref(a, AST_pointer)
      /\ c[2].op = "mark" /\ EntryRef(c[2]) = Ref(t, type_pointer)
  BY <1>8, Refs DEF Mark, EntryRef
<1>10. Ref(t, type_pointer) \in Targets(Ref(f, function_pointer))
  <2>1. Leads(Ref(f, function_pointer))
    BY <1>3, Refs, Tags DEF Leads
  <2> QED
    BY <1>5, <2>1, Refs, TargetsByKind
<1>11. Traced(G, rk, L, F, T, s) /\ s # <<>> /\ s[1].op = "mark"
  BY DEF TraceAt
<1> QED
  BY <1>1, <1>2, <1>3, <1>5, <1>8, <1>9, <1>10, <1>11, FunctionVisited

\* A step mark_function keeps the invariant of the trace.
LEMMA MarkFunctionStep ==
    ASSUME HeapInv, Typings, NEW G, NEW rk, TraceWorld(G, rk), mark_function
    PROVE  TraceInv'
<1>1. Tracing("mark") /\ ver(Next_to_mark.type) = function_pointer /\ traceUnchanged /\ phase = "trace" /\ Next_to_mark.val # 0
  BY DEF mark_function, Marking, Tracing
<1>2. PICK L, F, T, s : TraceAt(G, rk, L, F, T, s, "mark")
  BY <1>1, TraceFound
<1>3. PICK f, c : f = s[1].val /\ c = <<Mark(Ref(functions[f].the_AST, AST_pointer)), Mark(Ref(functions[f].return_type, type_pointer))>>
  OBVIOUS
<1>4. /\ Next_to_mark = s[1] /\ f # 0 /\ EntryRef(s[1]) \in G /\ EntryRef(s[1]).type = s[1].type
      /\ EntryRef(s[1]).val = f /\ Rest = Tail(s) /\ F = Flagged(sweep_function_pool_flags)
      /\ Traced(G, rk, L, F, T, s) /\ s # <<>> /\ s[1].op = "mark" /\ L = living_objects /\ T = type_hash_table
  BY <1>1, <1>2, <1>3 DEF TraceAt
<1>5. Typed /\ Shape(G, rk)
  BY TraceFacts
<1>6. s[1].type = function_pointer
  BY <1>1, <1>4, <1>5, FieldlessTyped, Tags
<1>7. UNCHANGED <<heapVars, mem, type_hash_table, error>>
  BY DEF mark_function
<1>8. CASE f \in F
  <2>1. to_be_marked' = Tail(s) /\ UNCHANGED sweep_function_pool_flags
    BY <1>3, <1>4, <1>8 DEF mark_function
  <2>2. Marked(L, F, EntryRef(s[1]))
    BY <1>4, <1>6, <1>8 DEF Marked
  <2>3. Traced(G, rk, L, F, T, Tail(s))
    BY <1>4, <1>5, <1>6, <2>2, EntryDropped, Tags
  <2> QED
    BY <1>1, <1>2, <1>7, <2>1, <2>3, StackStep
<1>9. CASE f \notin F
  <2>1. f \in Slots /\ Traced(G, rk, L, F \cup {f}, T, c \o Tail(s))
    BY <1>2, <1>3, <1>4, <1>6, NewFunctionFound
  <2>2. /\ sweep_function_pool_flags' = [sweep_function_pool_flags EXCEPT ![SlotBlock(f)] = @ + SlotBit(f)]
        /\ to_be_marked' = c \o Tail(s)
    BY <1>3, <1>4, <1>9 DEF mark_function
  <2>3. PICK flags, set : flags = sweep_function_pool_flags /\ set = sweep_function_pool_flags'
    OBVIOUS
  <2>4. flags \in Masks /\ f \notin Flagged(flags)
    BY <1>4, <1>9, <2>3 DEF Typings, TraceTypings
  <2>5. set \in Masks /\ Flagged(set) = F \cup {f}
    BY <1>4, <2>1, <2>2, <2>3, <2>4, SetFlag
  <2>6. Flagged(sweep_function_pool_flags)' = F \cup {f} /\ sweep_function_pool_flags' \in Masks
    <3>1. Flagged(set)' = Flagged(set)
      BY DEF Flagged, Slots, Bit, Power
    <3>2. Flagged(sweep_function_pool_flags)' = Flagged(set)
      BY <2>3 DEF Flagged, Slots, Bit, Power
    <3> QED
      BY <2>3, <2>5, <3>2
  <2>7. HeapInv'
    BY <1>7, NextInv
  <2>8. /\ phase' = "trace" /\ L = living_objects' /\ T = type_hash_table'
        /\ UNCHANGED <<objects, mem, type_roots, event_roots, functionVars, copier, held, error>>
    BY <1>1, <1>4, <1>7 DEF heapVars, traceUnchanged
  <2>9. PICK F2, s2 : F2 = F \cup {f} /\ s2 = c \o Tail(s)
    OBVIOUS
  <2> QED
    BY <2>1, <2>2, <2>6, <2>7, <2>8, <2>9, TraceGoesOn
<1> QED
  BY <1>8, <1>9

------------------------------------------------------------------------------
(* The beginning of a trace *)

\* The nulls and the types without fields lead nowhere.
LEMMA BaseLeadsNowhere ==
    ASSUME NEW rk, NEW r \in Base, Sound(rk, r)
    PROVE  Targets(r) = {} /\ ~ IsHeapType(r.type) /\ (r.type = function_pointer => r.val = 0)
<1>1. ~ Leading(r) /\ ~ IsHeapType(r.type) /\ (r.type = function_pointer => r.val = 0)
  BY BaseIsSound
<1>2. ~ Leads(r)
  BY <1>1, LeadsWhenSound
<1> QED
  BY <1>1, <1>2 DEF Targets

\* What the functions keep stays when no object of G changes.
LEMMA GuardMoves ==
    ASSUME NEW G, NEW rk, Typed, Shape(G, rk), Guarded(G), copier = NoCopy, copier' = NoCopy, held' \subseteq held,
           Moves(G, {})
    PROVE  Guarded(G)'
<1>1. \A r \in G : r.type = function_pointer /\ r.val # 0 => functions'[r.val] = functions[r.val]
  BY DEF Moves
<1>2. CASE "basicblock" \in Menu
  <2>1. CodeEmpty(G)
    BY <1>2 DEF Guarded
  <2>2. CodeEmpty(G)'
    BY <1>1, <2>1 DEF CodeEmpty, NoCopy, function_pointer
  <2> QED
    BY <1>2, <2>2 DEF Guarded
<1>3. CASE "basicblock" \notin Menu
  <2>1. PICK P : Guard(G, P)
    BY <1>3 DEF Guarded
  <2>2. Copies = {} /\ Copies' = {}
    BY DEF Copies, NoCopy
  <2>3. /\ P \subseteq ASTsIn(G) /\ FieldsClosed(P) /\ (~ Bakes => P = {})
        /\ \A r \in G : r \notin P => Targets(r) \cap P = {}
        /\ held \cap P = {}
        /\ \A r \in G : r.type = function_pointer /\ r.val # 0 => KeptBy(P, functions[r.val])
    BY <2>1, <2>2 DEF Guard
  <2>4. PICK D : D = {}
    OBVIOUS
  <2>5. SameBelow(P)
    <3>1. P \subseteq G \ D /\ Moves(G, D) /\ \A r \in D : r.type # dynamic_object
      BY <2>3, <2>4 DEF ASTsIn
    <3> QED
      BY <3>1, SameBelowMoves
  <2>6. \A r \in G : Targets(r)' = Targets(r)
    BY RefMoves
  <2>7. P \subseteq ASTsIn(G)' /\ FieldsClosed(P)'
    <3>1. FieldsClosed(P)'
      BY <2>3, <2>5, KeepsStays
    <3> QED
      BY <2>3, <3>1 DEF ASTsIn, AST_pointer
  <2>8. \A r \in G : r \notin P \cup Copies' => Targets(r)' \cap (P \cup Copies') = {}
    BY <2>2, <2>3, <2>6
  <2>9. held' \cap (P \cup Copies') = {}
    BY <2>2, <2>3
  <2>10. ASSUME NEW r \in G, r.type = function_pointer, r.val # 0
         PROVE  KeptBy(P, functions[r.val])'
    BY <1>1, <2>3, <2>5, <2>10, KeptByStays
  <2>11. (\A r \in G : r.type = function_pointer /\ r.val # 0 => KeptBy(P, functions[r.val]))'
    BY <2>10 DEF function_pointer
  <2>12. CopierGuard(G, P)'
    BY DEF CopierGuard, NoCopy
  <2>13. Guard(G, P)'
    BY <2>3, <2>7, <2>8, <2>9, <2>11, <2>12 DEF Guard, Bakes
  <2> QED
    BY <1>3, <2>13 DEF Guarded
<1> QED
  BY <1>2, <1>3

\* A part of G that leads to nothing else, with the ASTs of its functions, keeps
\* what they hold.
LEMMA GuardNarrows ==
    ASSUME NEW G, Guarded(G), copier = NoCopy, NEW H, H \subseteq G, Closed(H), ASTsKept(H)
    PROVE  Guarded(H)
<1>1. CASE "basicblock" \in Menu
  BY <1>1 DEF Guarded, CodeEmpty
<1>2. CASE "basicblock" \notin Menu
  <2>1. PICK P : Guard(G, P)
    BY <1>2 DEF Guarded
  <2>2. Copies = {}
    BY DEF Copies
  <2>3. /\ P \subseteq ASTsIn(G) /\ FieldsClosed(P) /\ (~ Bakes => P = {})
        /\ \A r \in G : r \notin P => Targets(r) \cap P = {}
        /\ held \cap P = {}
        /\ \A r \in G : r.type = function_pointer /\ r.val # 0 => KeptBy(P, functions[r.val])
    BY <2>1, <2>2 DEF Guard
  <2>4. PICK Q : Q = P \cap H
    OBVIOUS
  <2>5. Q \subseteq ASTsIn(H)
    BY <2>3, <2>4 DEF ASTsIn
  <2>6. FieldsClosed(Q)
    BY <2>3, <2>4 DEF FieldsClosed, Closed
  <2>7. \A r \in H : r \notin Q => Targets(r) \cap Q = {}
    BY <2>3, <2>4
  <2>8. ASSUME NEW r \in H, r.type = function_pointer, r.val # 0
        PROVE  KeptBy(Q, functions[r.val])
    <3>1. KeptBy(P, functions[r.val])
      BY <2>3, <2>8
    <3>2. Ref(functions[r.val].the_AST, AST_pointer) \in H
      BY <2>8 DEF ASTsKept
    <3> QED
      BY <2>4, <2>6, <3>1, <3>2 DEF KeptBy, Keeps
  <2>9. CopierGuard(H, Q)
    BY DEF CopierGuard
  <2>10. Guard(H, Q)
    BY <2>2, <2>3, <2>4, <2>5, <2>6, <2>7, <2>8, <2>9 DEF Guard
  <2> QED
    BY <1>2, <2>10 DEF Guarded
<1> QED
  BY <1>1, <1>2

\* What the roots reach.
RootedWorld(G, rk) ==
    /\ Shape(G, rk) /\ AllOnMenu(G) /\ Guarded(G) /\ TypesApart(G) /\ Minimal(G) /\ RootRefs \subseteq G

\* What the roots reach is a shape of its own: the least one with the roots.
LEMMA RootsReach ==
    ASSUME HeapInv, Typings, NEW G, NEW rk, World(G, rk), copier = NoCopy
    PROVE  \E H : RootedWorld(H, rk)
<1>1. /\ Typed /\ Shape(G, rk) /\ G \in SUBSET Reference /\ Base \subseteq G /\ RootRefs \subseteq G
      /\ RootRefs \cup held \subseteq G /\ AllOnMenu(G) /\ Guarded(G) /\ TypesApart(G)
  BY WorldFacts DEF World
<1>2. MemTyped /\ Functional
  BY DEF Typings, FunctionTypings
<1>3. Readable /\ Rooted \subseteq G
  BY <1>1, <1>2, ShapeReads, KnownInShape
<1>4. PICK refs, S : refs = RootRefs /\ S = FullClosure[refs]
  OBVIOUS
<1>5. refs \in SUBSET Reference /\ S \subseteq G
  BY <1>1, <1>3, <1>4 DEF Rooted
<1>6. S \in SUBSET Reference /\ refs \subseteq S /\ FullLeadOn(S) = S
  BY <1>3, <1>4, <1>5, ClosureIsLeast
<1>7. \A r \in G : Sound(rk, r)
  BY <1>1 DEF Shape
<1>8. Closed(S) /\ ASTsKept(S)
  BY <1>5, <1>6, <1>7, ClosedLeadsOn
<1>9. \A r \in Base : Targets(r) = {} /\ ~ IsHeapType(r.type) /\ (r.type = function_pointer => r.val = 0)
  BY <1>1, <1>7, BaseLeadsNowhere
<1>10. PICK H : H = S \cup Base
  OBVIOUS
<1>11. H \subseteq G /\ S \subseteq H /\ Base \subseteq H
  BY <1>1, <1>5, <1>10
<1>12. Closed(H)
  BY <1>8, <1>9, <1>10 DEF Closed
<1>13. ASTsKept(H)
  BY <1>8, <1>9, <1>10 DEF ASTsKept
<1>14. Ref(type_roots[1], type_pointer) \in H
  <2>1. Ref(type_roots[1], type_pointer) \in RootRefs
    BY <1>1 DEF Shape, Root, RootRefs
  <2> QED
    BY <1>4, <1>6, <1>11, <2>1
<1>15. Shape(H, rk)
  BY <1>1, <1>7, <1>11, <1>12, <1>13, <1>14 DEF Shape
<1>16. AllOnMenu(H)
  BY <1>1, <1>11 DEF AllOnMenu
<1>17. TypesApart(H)
  BY <1>1, <1>11 DEF TypesApart, HeapTypes
<1>18. Minimal(H)
  <2> SUFFICES ASSUME NEW X \in SUBSET H, Closed(X), ASTsKept(X), RootRefs \subseteq X
               PROVE  H \subseteq X \cup Base
    BY DEF Minimal
  <2>1. X \in SUBSET Reference /\ \A r \in X : Sound(rk, r)
    BY <1>1, <1>7, <1>11
  <2>2. FullLeadOn(X) = X
    BY <2>1, ClosedLeadsOn
  <2>3. S \subseteq X
    BY <1>3, <1>4, <1>5, <2>1, <2>2, ClosureIsLeast
  <2> QED
    BY <1>10, <2>3
<1>19. Guarded(H)
  BY <1>1, <1>11, <1>12, <1>13, GuardNarrows
<1> QED
  BY <1>4, <1>6, <1>11, <1>15, <1>16, <1>17, <1>18, <1>19 DEF RootedWorld

\* The first entries of a trace are the roots.
RootEntries(s) ==
    /\ s \in Seq(Entry)
    /\ \A j \in DOMAIN s : s[j].op = "mark" /\ EntryRef(s[j]) \in RootRefs
                           /\ s[j].type \in {type_pointer, function_pointer}
    /\ \A r \in RootRefs : \E j \in DOMAIN s : EntryRef(s[j]) = r /\ s[j].op = "mark"

\* A trace begins with the roots on its stack.
LEMMA RootsOnStack ==
    ASSUME Typings, NEW G, NEW rk, RootedWorld(G, rk),
           NEW s, s = Marks([i \in DOMAIN type_roots |-> Ref(type_roots[i], type_pointer)])
                      \o Marks([i \in DOMAIN event_roots |-> Ref(event_roots[i], function_pointer)])
    PROVE  RootEntries(s)
<1>1. PICK x, y, m, n : /\ x = [i \in DOMAIN type_roots |-> Ref(type_roots[i], type_pointer)]
                        /\ y = [i \in DOMAIN event_roots |-> Ref(event_roots[i], function_pointer)]
                        /\ m = Len(type_roots) /\ n = Len(event_roots)
  OBVIOUS
<1>2. m \in Nat /\ n \in Nat /\ DOMAIN type_roots = 1 .. m /\ DOMAIN event_roots = 1 .. n
  BY <1>1, SeqFacts DEF Typings
<1>3. DOMAIN x = 1 .. m /\ \A i \in 1 .. m : x[i] = Ref(type_roots[i], type_pointer)
  BY <1>1, <1>2
<1>4. DOMAIN y = 1 .. n /\ \A i \in 1 .. n : y[i] = Ref(event_roots[i], function_pointer)
  BY <1>1, <1>2
<1>5. /\ \A i \in 1 .. m : x[i] \in RootRefs /\ x[i].type = type_pointer
      /\ \A i \in 1 .. n : y[i] \in RootRefs /\ y[i].type = function_pointer
  <2>1. \A i \in 1 .. m : Ref(type_roots[i], type_pointer) \in RootRefs
    BY <1>2 DEF RootRefs
  <2>2. \A i \in 1 .. n : Ref(event_roots[i], function_pointer) \in RootRefs
    BY <1>2 DEF RootRefs
  <2> QED
    BY <1>3, <1>4, <2>1, <2>2, Refs
<1>6. \A r \in RootRefs : (\E i \in 1 .. m : r = x[i]) \/ (\E i \in 1 .. n : r = y[i])
  BY <1>2, <1>3, <1>4 DEF RootRefs
<1>7. RootRefs \subseteq Reference
  BY DEF RootedWorld, Shape
<1>8. PICK p, q : p = Marks(x) /\ q = Marks(y)
  OBVIOUS
<1>9. /\ p \in Seq(Entry) /\ Len(p) = m
      /\ \A i \in 1 .. m : p[i].op = "mark" /\ EntryRef(p[i]) = x[i] /\ p[i].type = x[i].type
  BY <1>2, <1>3, <1>5, <1>7, <1>8, MarksFacts
<1>10. /\ q \in Seq(Entry) /\ Len(q) = n
       /\ \A i \in 1 .. n : q[i].op = "mark" /\ EntryRef(q[i]) = y[i] /\ q[i].type = y[i].type
  BY <1>2, <1>4, <1>5, <1>7, <1>8, MarksFacts
<1>11. s = p \o q
  BY <1>1, <1>8
<1>12. Joined(Entry, p, q, s)
  BY <1>9, <1>10, <1>11, JoinedFacts
<1>13. /\ s \in Seq(Entry) /\ Len(s) = m + n /\ \A i \in 1 .. m : s[i] = p[i]
       /\ \A i \in 1 .. n : s[m + i] = q[i]
  <2>1. /\ s \in Seq(Entry) /\ Len(s) = Len(p) + Len(q) /\ \A i \in 1 .. Len(p) : s[i] = p[i]
        /\ \A i \in 1 .. Len(q) : s[Len(p) + i] = q[i]
    BY <1>12 DEF Joined
  <2>2. Len(p) = m /\ Len(q) = n
    BY <1>9, <1>10
  <2> QED
    BY <2>1, <2>2
<1>14. DOMAIN s = 1 .. m + n
  BY <1>13, SeqFacts
<1>15. ASSUME NEW j \in DOMAIN s
       PROVE  s[j].op = "mark" /\ EntryRef(s[j]) \in RootRefs /\ s[j].type \in {type_pointer, function_pointer}
  <2>1. CASE j \in 1 .. m
    <3>1. s[j] = p[j] /\ p[j].op = "mark" /\ EntryRef(p[j]) = x[j] /\ p[j].type = x[j].type
      BY <1>9, <1>13, <2>1
    <3>2. x[j] \in RootRefs /\ x[j].type = type_pointer
      BY <1>5, <2>1
    <3> QED
      BY <3>1, <3>2
  <2>2. CASE j \notin 1 .. m
    <3>1. PICK i : i = j - m
      OBVIOUS
    <3>4. j \in 1 .. (m + n)
      BY <1>14
    <3>2. i \in 1 .. n /\ j = m + i
      BY <1>2, <2>2, <3>1, <3>4
    <3>3. s[j] = q[i]
      BY <1>13, <3>2
    <3> QED
      BY <1>5, <1>10, <3>2, <3>3
  <2> QED
    BY <2>1, <2>2
<1>16. ASSUME NEW r \in RootRefs
       PROVE  \E j \in DOMAIN s : EntryRef(s[j]) = r /\ s[j].op = "mark"
  <2>1. CASE \E i \in 1 .. m : r = x[i]
    <3>1. PICK i \in 1 .. m : r = x[i]
      BY <2>1
    <3>2. i \in DOMAIN s
      BY <1>2, <1>14
    <3> QED
      BY <1>9, <1>13, <3>1, <3>2
  <2>2. CASE \E i \in 1 .. n : r = y[i]
    <3>1. PICK i \in 1 .. n : r = y[i]
      BY <2>2
    <3>2. m + i \in DOMAIN s /\ s[m + i] = q[i]
      <4>1. m + i \in 1 .. (m + n)
        BY <1>2
      <4> QED
        BY <1>13, <1>14, <4>1
    <3> QED
      BY <1>10, <3>1, <3>2
  <2> QED
    BY <1>6, <2>1, <2>2
<1> QED
  BY <1>13, <1>15, <1>16 DEF RootEntries

\* And with its invariant.
LEMMA TraceBegins ==
    ASSUME NEW G, NEW rk, RootedWorld(G, rk), NEW s, RootEntries(s)
    PROVE  Traced(G, rk, {}, {}, {}, s)
<1>1. \A r : ~ Marked({}, {}, r)
  BY DEF Marked
<1>2. \A j \in DOMAIN s : /\ s[j].op = "mark" /\ EntryRef(s[j]) \in RootRefs /\ s[j].op # "uniquefy" /\ s[j].op # "contents"
                          /\ s[j].type \in {type_pointer, function_pointer}
  BY DEF RootEntries
<1>3. s \in Seq(Entry) /\ \A j \in DOMAIN s : s[j] \in Entry
  BY SeqFacts DEF RootEntries
<1>4. LivingIn(G, {}) /\ FlagsIn(G, {}) /\ TableIn(G, {})
  BY DEF LivingIn, FlagsIn, TableIn
<1>5. EntriesFit(G, {}, {}, s)
  BY <1>2, <1>3 DEF EntriesFit, EntryFits, RootedWorld
<1>6. SubtypesFirst({}, s) /\ Ordered(rk, s)
  BY <1>2 DEF SubtypesFirst, Ordered
<1>7. RootsHandled({}, {}, s)
  <2>1. \A r \in RootRefs : OnStack(s, r)
    BY <1>2 DEF OnStack, RootEntries
  <2> QED
    BY <2>1 DEF RootsHandled, Handled
<1>8. AllPassed(G, {}, {}, s)
  BY <1>1 DEF AllPassed, Found
<1>9. TypesCovered(G, {}, {}, s)
  <2>1. \A r : OnStack(s, r) => r.type \in {type_pointer, function_pointer}
    BY <1>2, Refs DEF OnStack, EntryRef
  <2>2. \A r : OnStack(s, r) => ~ IsHeapType(r.type)
    BY <2>1, Tags
  <2> QED
    BY <1>1, <2>2 DEF TypesCovered, Found
<1>10. TypesPending(G, {}, {}, {}, s)
  BY <1>1 DEF TypesPending
<1> QED
  BY <1>3, <1>4, <1>5, <1>6, <1>7, <1>8, <1>9, <1>10 DEF Traced

\* No function is marked.
LEMMA NoFlags ==
    ASSUME NEW flags, flags = [b \in Blocks |-> 0]
    PROVE  flags \in Masks /\ Flagged(flags) = {}
<1>1. Power[BlockBits] \in Nat \ {0}
  BY PowerEquations, CollectorAssumption
<1>2. flags \in Masks
  BY <1>1 DEF Masks
<1>3. ASSUME NEW s \in Slots
      PROVE  ~ Bit(flags[(s - 1) \div BlockBits], (s - 1) % BlockBits)
  <2>1. SlotBlock(s) \in Blocks /\ (s - 1) % BlockBits \in 0 .. BlockBits - 1
    BY SlotFacts
  <2>2. (s - 1) \div BlockBits \in Blocks /\ (s - 1) % BlockBits \in Nat
    BY <2>1 DEF SlotBlock
  <2> QED
    BY <2>2, NoBits
<1> QED
  BY <1>2, <1>3 DEF Flagged

\* The operation trace_objects begins a trace.
LEMMA TraceStarts ==
    ASSUME ProgramInv, trace_objects
    PROVE  TraceInv'
<1>1. PICK G0, rk : World(G0, rk)
  BY DEF ProgramInv
<1>2. HeapInv /\ Typings
  BY DEF ProgramInv
<1>3. PICK G : RootedWorld(G, rk)
  BY <1>1, <1>2, RootsReach DEF trace_objects
<1>4. /\ start_GC /\ copier = NoCopy /\ held' = {} /\ type_hash_table' = {}
      /\ sweep_function_pool_flags' = [b \in Blocks |-> 0]
      /\ to_be_marked' = Marks([i \in DOMAIN type_roots |-> Ref(type_roots[i], type_pointer)])
                    \o Marks([i \in DOMAIN event_roots |-> Ref(event_roots[i], function_pointer)])
      /\ UNCHANGED <<mem, type_roots, event_roots, functionVars, copier, error>>
  BY DEF trace_objects
<1>5. /\ living_objects' = {} /\ phase' = "trace" /\ objects' = objects /\ HeapInv'
  BY <1>2, <1>4, StartStep DEF start_GC
<1>6. PICK s : s = to_be_marked'
  OBVIOUS
<1>7. RootEntries(s)
  BY <1>2, <1>3, <1>4, <1>6, RootsOnStack
<1>8. Traced(G, rk, {}, {}, {}, s)
  BY <1>3, <1>7, TraceBegins
<1>9. PICK flags : flags = sweep_function_pool_flags'
  OBVIOUS
<1>10. flags \in Masks /\ Flagged(flags) = {}
  BY <1>4, <1>9, NoFlags
<1>11. Flagged(sweep_function_pool_flags)' = {}
  <2>1. Flagged(sweep_function_pool_flags)' = Flagged(flags)
    BY <1>9 DEF Flagged, Slots, Bit, Power
  <2> QED
    BY <1>10, <2>1
<1>12. Typed /\ Shape(G, rk) /\ Still
  BY <1>1, <1>2, <1>3, <1>4, <1>5, WorldFacts DEF RootedWorld, Still, functionVars
<1>13. Traced(G, rk, {}, {}, {}, s)'
  <2>1. event_roots' = event_roots
    BY <1>4
  <2> QED
    BY <1>8, <1>12, <2>1, TracedStill
<1>14. /\ Shape(G, rk)' /\ AllOnMenu(G)' /\ TypesApart(G)' /\ Minimal(G)'
  BY <1>3, <1>4, <1>12, StillShape, WorldStill DEF RootedWorld
<1>15. RootRefs' \subseteq G
  BY <1>3, <1>4, RootsStay DEF RootedWorld
<1>21. Guarded(G)'
  <2>1. copier' = NoCopy /\ held' \subseteq held /\ Guarded(G)
    BY <1>3, <1>4 DEF RootedWorld
  <2>2. Moves(G, {})
    BY <1>12, StillMoves
  <2> QED
    BY <1>4, <1>12, <2>1, <2>2, GuardMoves
<1>16. TraceNow(G, rk)'
  BY <1>4, <1>5, <1>6, <1>11, <1>13 DEF TraceNow
<1>17. TraceWorld(G, rk)'
  BY <1>4, <1>14, <1>15, <1>16, <1>21 DEF TraceWorld, NoCopy
<1>18. FunctionTypings' /\ MemTyped'
  BY <1>2, <1>4, FunctionsStay DEF Typings, MemTyped, Pool, PoolEnd
<1>19. to_be_marked' \in Seq([op : {"mark", "contents", "uniquefy"}, val : Nat, type : Nat])
  BY <1>6, <1>7 DEF RootEntries, Entry
<1>20. Typings'
  BY <1>2, <1>4, <1>9, <1>10, <1>11, <1>18, <1>19 DEF Typings, TraceTypings, Masks, Slots, Blocks, Power
<1> QED
  BY <1>5, <1>17, <1>20 DEF TraceInv
==============================================================================
