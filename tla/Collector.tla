------------------------------ MODULE Collector ------------------------------
(***************************************************************************)
(* The tracing collector of src/src/memory.cpp over real memory words: the *)
(* objects the program builds (ASTs, vectors, dynamic objects, types,      *)
(* pointers, functions), the typed walk of mark_target, the unique table   *)
(* of types it rebuilds, the sweep, and the finalizers of functions.       *)
(* The word pool itself is module Heap.                                    *)
(*                                                                         *)
(* A word is a number.  As in the code, a Tptr up to never_reached is a    *)
(* type without fields, a larger one is the address of [tag, fields...];   *)
(* 0 is the null pointer.  A function pointer is a slot number from 1.     *)
(* A reference is a word together with the type it is read at.             *)
(***************************************************************************)
EXTENDS Heap, BitMasks, Sequences, Functions

CONSTANTS
    BlockBits,          \* slots per word of function_pool_flags; 64 in the code
    FunctionBlocks,     \* function_pool_size / 64
    ASTFields,          \* AST_descriptor[tag].pointer_fields, for the tags in use
    PlainTypes,         \* bound: types without fields of the objects it makes
    TypeShapes,         \* bound: per tag it makes types with, the tags below it
    spare_elements,     \* vector.h:27, 3 in the code: room of an empty vector
    max_fuzztester_size,\* testdriver.cpp:106
    MaxHeld,            \* bound: references in C++ locals at a time
    MaxObjects,         \* bound: blocks in use when the program makes another object
    MaxWritten,         \* bound: blocks in use when the program stores in one
    MaxFields,          \* bound: fields of a new basicblock
    Menu,               \* the kinds of operation the program performs in a run
    special_value       \* initial_ and collected_special_value, not told apart

\* Type_descriptor, types.h:78-94: the tags by position.
con_vec == 0
integer == 1
dynamic_object == 2
AST_pointer == 3
type_pointer == 4
function_pointer == 5
vector == 6
pointer == 7
never_reached == 12

\* AST_descriptor, ASTs.h:89-92: the two tags that are not [tag, ASTs...].
imv == 0
basicblock == 1

ASSUME CollectorAssumption ==
    /\ spare_elements \in Nat \ {0}
    /\ BlockBits \in Nat \ {0} /\ FunctionBlocks \in Nat \ {0}
    /\ \A tag \in DOMAIN ASTFields : tag > basicblock /\ ASTFields[tag] \in Nat
    /\ PlainTypes \subseteq {integer, dynamic_object, AST_pointer, type_pointer, function_pointer}
    /\ DOMAIN TypeShapes \subseteq {con_vec, vector, pointer}
    /\ con_vec \notin UNION {TypeShapes[tag] : tag \in DOMAIN TypeShapes \ {pointer}}
    /\ big_memory_pool > never_reached
    /\ special_value \in Nat \* neither an address nor a slot
    /\ special_value > big_memory_pool + pool_size /\ special_value > FunctionBlocks * BlockBits
    /\ \A tag \in DOMAIN ASTFields : tag \in Nat /\ special_value > tag

VARIABLES
    mem,                       \* the words of the pool
    type_hash_table,           \* memory.cpp:31
    type_roots, event_roots,   \* memory.cpp:29-30
    functions,                 \* the function objects, by slot
    function_pool_flags,       \* memory.cpp:20, one bit mask per block
    sweep_function_pool_flags, \* memory.cpp:21
    modules,                   \* history: the slots whose code the JIT holds
    to_be_marked,              \* what the recursion of mark_target still has to do
    copier,                    \* a deep_AST_copier at work
    held,                      \* references in the locals of the running program
    error                      \* why the process aborted

functionVars == <<functions, function_pool_flags, modules>>
traceVars == <<sweep_function_pool_flags, to_be_marked>>
vars == <<heapVars, mem, type_hash_table, type_roots, event_roots, functionVars,
          traceVars, copier, held, error>>

vector_header_size == 2
Pool == big_memory_pool .. PoolEnd - 1
Blocks == 0 .. FunctionBlocks - 1
Slots == 1 .. FunctionBlocks * BlockBits

-----------------------------------------------------------------------------
(* Types and objects in memory *)

\* A word read through a pointer; outside of the pool there is nothing to know.
Word(a) == IF a \in Pool THEN mem[a] ELSE special_value

IsHeapType(t) == t > never_reached

\* Tptr::ver.
ver(t) == IF IsHeapType(t) THEN Word(t) ELSE t

\* Type_pointer_range: the subtypes, without the count of a con_vec.
Subtypes(t) ==
    CASE IsHeapType(t) /\ ver(t) = con_vec            -> [i \in 1 .. Word(t + 1) |-> Word(t + 1 + i)]
      [] IsHeapType(t) /\ ver(t) \in {vector, pointer} -> <<Word(t + 1)>>
      [] OTHER                                         -> <<>>

\* Where Subtypes(t)[i] is stored: Tptr::field.
SubtypeAt(t, i) == IF ver(t) = con_vec THEN t + 1 + i ELSE t + i

total_valid_fields(t) == Len(Subtypes(t)) + (IF ver(t) = con_vec THEN 1 ELSE 0)

\* The words of a type object, new_local_type types.h:184-204.
TypeWords(tag, subs) ==
    IF tag = con_vec THEN <<tag, Len(subs)>> \o subs ELSE <<tag>> \o subs

get_size(t) == IF t = 0 THEN 0 ELSE IF ver(t) = con_vec THEN Word(t + 1) ELSE 1

\* get_field_size_of_AST and get_full_size_of_AST.
get_field_size_of_AST(tag) ==
    IF tag \in {imv, basicblock} THEN 1
    ELSE IF tag \in DOMAIN ASTFields THEN ASTFields[tag] ELSE 0
get_full_size_of_AST(tag) == get_field_size_of_AST(tag) + 1

Ref(v, t) == [val |-> v, type |-> t]

\* The references in the words at loc, read at type t: one word, or the words of
\* a con_vec one after the other.
RefsAt(loc, t) ==
    IF t # 0 /\ ver(t) = con_vec
    THEN [i \in DOMAIN Subtypes(t) |-> Ref(Word(loc + i - 1), Subtypes(t)[i])]
    ELSE <<Ref(Word(loc), t)>>

Elements(v) == [i \in 1 .. Word(v) |-> Word(v + vector_header_size + i - 1)]

\* Vector_range.
Vector_range(v, t) == [i \in DOMAIN Elements(v) |-> Ref(Elements(v)[i], t)]

\* AST_range: the ASTs below an AST; the elements of a basicblock are the vector's.
AST_range(a) ==
    CASE Word(a) = imv        -> <<>>
      [] Word(a) = basicblock -> Vector_range(Word(a + 1), AST_pointer)
      [] OTHER -> [i \in 1 .. get_field_size_of_AST(Word(a)) |-> Ref(Word(a + i), AST_pointer)]

-----------------------------------------------------------------------------
(* What the program can get at, whatever the collector thinks of it *)

\* The slots whose bits are set.
Flagged(flags) == {s \in Slots : Bit(flags[(s - 1) \div BlockBits], (s - 1) % BlockBits)}

\* The word is what its type says: a live object and no null or plain number.
Leads(r) ==
    /\ r.val # 0 /\ r.type # integer
    /\ CASE r.type = function_pointer -> r.val \in Flagged(function_pool_flags)
         [] r.type = type_pointer -> IsHeapType(r.val) /\ \E o \in objects : o.addr = r.val
         [] OTHER                 -> \E o \in objects : o.addr = r.val

\* What a reference leads to in one step.  The program sees the AST of a function
\* only as a copy (AST_from_function); its machine code holds words of its own.
Targets(r) ==
    LET v == r.val IN
    IF ~ Leads(r) THEN {} ELSE
    CASE r.type = dynamic_object   -> {Ref(Word(v), type_pointer)} \cup Range(RefsAt(v + 1, Word(v)))
      [] r.type = AST_pointer      ->
            Range(AST_range(v)) \cup (IF Word(v) = imv THEN {Ref(Word(v + 1), dynamic_object)}
                                      ELSE IF Word(v) = basicblock THEN {Ref(Word(v + 1), type_roots[1])}
                                      ELSE {})
      [] r.type = type_pointer     -> {Ref(u, type_pointer) : u \in Range(Subtypes(v))}
      [] r.type = function_pointer -> {Ref(functions[v].return_type, type_pointer)} \cup functions[v].code
      [] IsHeapType(r.type) /\ ver(r.type) = vector  -> Range(Vector_range(v, Subtypes(r.type)[1]))
      [] IsHeapType(r.type) /\ ver(r.type) = pointer -> Range(RefsAt(v, Subtypes(r.type)[1]))
      [] OTHER -> {}

FunctionASTs(refs) ==
    {Ref(functions[r.val].the_AST, AST_pointer) :
        r \in {q \in refs : q.type = function_pointer /\ Leads(q)}}

\* References lead on, and the type they are read at can be had too ("typeof").
LeadOn(refs) ==
    refs \cup {Ref(r.type, type_pointer) : r \in {q \in refs : IsHeapType(q.type)}}
         \cup UNION {Targets(r) : r \in refs}

Reference == [val : 0 .. special_value, type : 0 .. special_value]

Closure[refs \in SUBSET Reference] ==
    IF LeadOn(refs) = refs THEN refs ELSE Closure[LeadOn(refs)]

FullClosure[refs \in SUBSET Reference] ==
    LET more == LeadOn(refs \cup FunctionASTs(refs))
    IN  IF more = refs THEN refs ELSE FullClosure[more]

RootRefs ==
    {Ref(type_roots[i], type_pointer) : i \in DOMAIN type_roots} \cup
    {Ref(event_roots[i], function_pointer) : i \in DOMAIN event_roots}

\* What the program can get hold of, and with the ASTs functions keep.
Known == Closure[RootRefs \cup held]
InUse == FullClosure[RootRefs \cup held]
Rooted == FullClosure[RootRefs]

\* The number of words the program may use behind a reference.
Extent(r) ==
    LET v == r.val IN
    IF v = 0 THEN 0 ELSE
    CASE r.type = dynamic_object -> get_size(Word(v)) + 1
      [] r.type = AST_pointer    -> get_full_size_of_AST(Word(v))
      [] r.type = type_pointer   -> IF IsHeapType(v) THEN total_valid_fields(v) + 1 ELSE 0
      [] ver(r.type) = vector    -> vector_header_size + Word(v + 1)
      [] ver(r.type) = pointer   -> get_size(Subtypes(r.type)[1])
      [] OTHER -> 0

\* The blocks behind a set of references.
Owned(refs) == {[addr |-> r.val, size |-> Extent(r)] : r \in {q \in refs : Extent(q) > 0}}

-----------------------------------------------------------------------------
(* The program: each operation allocates, writes and keeps a reference *)

Write(m, loc, words) ==
    [w \in Pool |-> IF w - loc + 1 \in DOMAIN words THEN words[w - loc + 1] ELSE m[w]]

WordsAt(loc, n) == [i \in 1 .. n |-> Word(loc + i - 1)]

\* A new reference takes the place of another when there are MaxHeld.
Hold(v, t) ==
    \E kept \in IF Cardinality(held) < MaxHeld THEN {held}
                ELSE {held \ {r} : r \in held} :
        held' = kept \cup {Ref(v, t)}

Values(t) == {r.val : r \in {q \in Known : q.type = t}}
Objects(t) == Values(t) \ {0}
Nullable(t) == Values(t) \cup {0}

FieldlessTypes == {integer, dynamic_object, AST_pointer, type_pointer, function_pointer}
Types == Objects(type_pointer) \cup PlainTypes

\* An AST without a value compiles to a function of no type, T::null.
ReturnTypes == Types \cup {0}

\* What can be stored at type t; is_zeroable, types.h:343-351.
Storable(t) ==
    CASE t = integer -> {0}
      [] t \in {dynamic_object, AST_pointer, type_pointer, function_pointer} -> Nullable(t)
      [] OTHER -> Objects(t)

\* The words an object of type t may hold.
Contents(t) ==
    IF ver(t) = con_vec
    THEN {ws \in [1 .. get_size(t) -> UNION {Storable(u) : u \in Range(Subtypes(t))}] :
              \A i \in DOMAIN ws : ws[i] \in Storable(Subtypes(t)[i])}
    ELSE {<<w>> : w \in Storable(t)}

programUnchanged ==
    UNCHANGED <<type_hash_table, type_roots, event_roots, functionVars, traceVars, copier, error>>

NoCopy == [what |-> "none"]

Running(op) ==
    op \in Menu /\ phase = "program" /\ type_roots # <<>> /\ copier = NoCopy

FewObjects == Cardinality(objects) < MaxObjects

\* main() calls initialize() first: u::vector_of_ASTs becomes the type root.
initialize ==
    /\ type_roots = <<>>
    /\ \E k \in BestFit(free_memory, 2) :
        /\ AllocateAt(2, k)
        /\ mem' = Write(mem, k.addr, TypeWords(vector, <<AST_pointer>>))
        /\ type_roots' = <<k.addr>>
        /\ type_hash_table' = type_hash_table \cup {k.addr}
    /\ UNCHANGED <<event_roots, functionVars, traceVars, copier, held, error>>

\* new_AST for a tag other than imv and basicblock, and vector_to_AST.
new_AST ==
    /\ Running("AST") /\ FewObjects
    /\ \E tag \in DOMAIN ASTFields :
        \E fields \in [1 .. ASTFields[tag] -> Nullable(AST_pointer)] :
            LET size == get_full_size_of_AST(tag) IN
            \E k \in BestFit(free_memory, size) :
                /\ AllocateAt(size, k)
                /\ mem' = Write(mem, k.addr, <<tag>> \o fields)
                /\ Hold(k.addr, AST_pointer)
    /\ programUnchanged

new_imv_AST ==
    /\ Running("imv") /\ FewObjects
    /\ \E d \in Nullable(dynamic_object) : \E k \in BestFit(free_memory, 2) :
        /\ AllocateAt(2, k)
        /\ mem' = Write(mem, k.addr, <<imv, d>>)
        /\ Hold(k.addr, AST_pointer)
    /\ programUnchanged

\* Mutant of ReservedSize: no spare room.
ReservedSize_NoSpare(n) == n + n \div 2

\* vector_build: room for half as many elements again, and spare_elements more.
ReservedSize(n) == spare_elements + n + n \div 2
VectorSize(elements) == vector_header_size + ReservedSize(Len(elements))
VectorWords(elements) == <<Len(elements), ReservedSize(Len(elements))>> \o elements

\* new_AST of a basicblock: the AST first, then the vector of its fields.
BasicblockAt(a, v, fields) ==
    /\ AllocateTwoAt(2, a, VectorSize(fields), v)
    /\ mem' = Write(Write(mem, a.addr, <<basicblock, v.addr>>), v.addr, VectorWords(fields))

new_basicblock ==
    /\ Running("basicblock") /\ FewObjects
    /\ \E n \in 0 .. MaxFields : \E fields \in [1 .. n -> Nullable(AST_pointer)] :
        \E k \in BestFit(free_memory, 2) :
            \E l \in BestFit(Taken(free_memory, k, 2), VectorSize(fields)) :
                BasicblockAt(k, l, fields) /\ Hold(k.addr, AST_pointer)
    /\ programUnchanged

\* new_dynamic_obj, with the write that follows it in dynamify and
\* run_null_parameter_function.
DynamicWith(t) ==
    \E words \in Contents(t) : \E k \in BestFit(free_memory, get_size(t) + 1) :
        /\ AllocateAt(get_size(t) + 1, k)
        /\ mem' = Write(mem, k.addr, <<t>> \o words)
        /\ Hold(k.addr, dynamic_object)

new_dynamic_obj ==
    /\ Running("dynamic") /\ FewObjects
    /\ \E t \in Types : DynamicWith(t)
    /\ programUnchanged

\* nvec: an empty vector of the given type.
new_vector ==
    /\ Running("vector") /\ FewObjects
    /\ \E t \in Objects(type_pointer) : \E k \in BestFit(free_memory, VectorSize(<<>>)) :
        /\ ver(t) = vector
        /\ AllocateAt(VectorSize(<<>>), k)
        /\ mem' = Write(mem, k.addr, VectorWords(<<>>))
        /\ Hold(k.addr, t)
    /\ programUnchanged

\* turn_full: an object of type t moves to the heap, and a pointer to it exists.
new_pointer ==
    /\ Running("pointer") /\ FewObjects
    /\ \E p \in Types :
        /\ ver(p) = pointer
        /\ LET t == Subtypes(p)[1] IN
           \E words \in Contents(t) : \E k \in BestFit(free_memory, get_size(t)) :
                /\ AllocateAt(get_size(t), k)
                /\ mem' = Write(mem, k.addr, words)
                /\ Hold(k.addr, p)
    /\ programUnchanged

\* std::equal_to<Tptr>, and the members of the table it finds.
SameType(l, r) == ver(l) = ver(r) /\ Subtypes(l) = Subtypes(r)
InTable(t) == {e \in type_hash_table : SameType(e, t)}
Unique(t) == IF InTable(t) = {} THEN t ELSE CHOOSE e \in InTable(t) : TRUE

\* Mutant of Existing: a type that is there already is not found.
Existing_Never(tag, subs) == {}

\* type_hash_table.find of a type that is not in the table itself.
Existing(tag, subs) ==
    {e \in type_hash_table : IsHeapType(e) /\ ver(e) = tag /\ Subtypes(e) = subs}

\* new_unique_type: new_local_type allocates the type object, then
\* get_unique_type_internal makes its subtypes unique and returns it, an older
\* one that is the same, or, when a subtype was new in the table, a second copy.
\* The types the program holds are in the table (TypesUnique), so that what is
\* below a subtype is unique already.
new_unique_type ==
    /\ Running("type") /\ FewObjects
    /\ \E tag \in DOMAIN TypeShapes :
       \E given \in [1 .. (IF tag = con_vec THEN 2 ELSE 1) ->
                      {t \in Objects(type_pointer) \cup FieldlessTypes : ver(t) \in TypeShapes[tag]}] :
           LET subs == [i \in DOMAIN given |-> Unique(given[i])]
               words == TypeWords(tag, subs)
               size == Len(words)
               created == {u \in Range(given) : InTable(u) = {}}
               same == Existing(tag, subs)
           IN
           IF created # {}
           THEN \E k \in BestFit(free_memory, size) :
                \E l \in BestFit(Taken(free_memory, k, size), size) :
                    /\ AllocateTwoAt(size, k, size, l)
                    /\ mem' = Write(Write(mem, k.addr, words), l.addr, words)
                    /\ type_hash_table' =
                          type_hash_table \cup created \cup (IF same = {} THEN {l.addr} ELSE {})
                    /\ Hold(l.addr, type_pointer)
           ELSE \E k \in BestFit(free_memory, size) :
                    /\ AllocateAt(size, k)
                    /\ mem' = Write(mem, k.addr, words)
                    /\ IF same = {}
                       THEN type_hash_table' = type_hash_table \cup {k.addr} /\ Hold(k.addr, type_pointer)
                       ELSE UNCHANGED type_hash_table /\ \E e \in same : Hold(e, type_pointer)
    /\ UNCHANGED <<type_roots, event_roots, functionVars, traceVars, copier, error>>

\* pushback_int on the vector of a basicblock, through the word that refers to it.
\* A full vector is rebuilt elsewhere and that one word redirected.
pushback_int ==
    /\ Running("pushback")
    /\ \E a \in Objects(AST_pointer) : \E value \in Nullable(AST_pointer) :
        /\ Word(a) = basicblock
        /\ LET s == Word(a + 1)
               size == Word(s)
               wanted == VectorSize(Elements(s))
           IN
           IF size < Word(s + 1)
           THEN /\ mem' = [mem EXCEPT ![s] = size + 1, ![s + vector_header_size + size] = value]
                /\ UNCHANGED heapVars
           ELSE \E k \in BestFit(free_memory, wanted) :
                /\ AllocateAt(wanted, k)
                /\ mem' = [Write(mem, k.addr, VectorWords(Elements(s)) \o <<value>>)
                              EXCEPT ![k.addr] = size + 1, ![a + 1] = k.addr]
    /\ programUnchanged
    /\ UNCHANGED held

\* vecpb, pushback_int on the vector of a local.  Its elements are words of one
\* type; when it is rebuilt the local is redirected, no other word that refers to it.
vecpb ==
    /\ Running("vecpb")
    /\ \E r \in held :
        /\ ver(r.type) = vector
        /\ \E value \in Storable(Subtypes(r.type)[1]) :
           LET s == r.val
               size == Word(s)
               wanted == VectorSize(Elements(s))
           IN
           IF size < Word(s + 1)
           THEN /\ mem' = [mem EXCEPT ![s] = size + 1, ![s + vector_header_size + size] = value]
                /\ UNCHANGED <<heapVars, held>>
           ELSE \E k \in BestFit(free_memory, wanted) :
                /\ AllocateAt(wanted, k)
                /\ mem' = Write(mem, k.addr, <<size + 1, ReservedSize(size)>> \o Append(Elements(s), value))
                /\ held' = (held \ {r}) \cup {Ref(k.addr, r.type)}
    /\ programUnchanged

\* store through a reference: AST_subfield, which is how ASTs get cyclic and which
\* leads to an element of the vector of a basicblock, or load_imv_from_AST, which
\* replaces the object in an imv.
store ==
    /\ Running("store") /\ Cardinality(objects) <= MaxWritten
    /\ \E a \in Objects(AST_pointer) :
        \/ /\ Word(a) \in DOMAIN ASTFields
           /\ \E value \in Nullable(AST_pointer) : \E i \in 1 .. ASTFields[Word(a)] :
                mem' = [mem EXCEPT ![a + i] = value]
        \/ /\ Word(a) = imv
           /\ \E value \in Nullable(dynamic_object) : mem' = [mem EXCEPT ![a + 1] = value]
        \/ /\ Word(a) = basicblock
           /\ \E value \in Nullable(AST_pointer) : \E i \in DOMAIN Elements(Word(a + 1)) :
                mem' = [mem EXCEPT ![Word(a + 1) + vector_header_size + i - 1] = value]
    /\ UNCHANGED <<heapVars, held>>
    /\ programUnchanged

\* Any allocate() of the program may find no block: error("OOM").
out_of_memory ==
    /\ \/ \E size \in Requests : OutOfMemory(size)
       \/ \E first, second \in Requests : OutOfMemoryTwo(first, second)
    /\ error' = "OOM"
    /\ UNCHANGED <<mem, type_hash_table, type_roots, event_roots, functionVars,
                   traceVars, copier, held>>

-----------------------------------------------------------------------------
(* Functions: compiling copies the AST, running gives back what is baked in *)

Below(as) == as \cup ((UNION {{r.val : r \in Range(AST_range(a))} : a \in as}) \ {0})

ASTsFrom[as \in SUBSET (1 .. special_value)] ==
    IF Below(as) = as THEN as ELSE ASTsFrom[Below(as)]

\* generate_IR of an imv puts the words of the object in the machine code
\* (cs11.cpp:991-1010), with its type where the result is dynamified.
BakedIn(a) ==
    LET objs == {Word(i + 1) : i \in {b \in ASTsFrom[{a}] : Word(b) = imv}} \ {0}
    IN  UNION {{Ref(Word(d), type_pointer)} \cup Range(RefsAt(d + 1, Word(d))) : d \in objs}

\* A type made by generate_IR itself, for instance by "pointer", can be put in the
\* code by "dynamify" (cs11.cpp:920) and is in no AST.
BakedTypes == IF "dynamify" \in Menu THEN {{Ref(t, type_pointer)} : t \in Types} ELSE {{}}

\* The word of the copy that is looked at next; ResultPlace is the copier's result.
ResultPlace == 0

StartCopy(what, a, return_type, code) ==
    copier' = [what |-> what, source |-> a, copied |-> [x \in {0} |-> 0], todo |-> <<ResultPlace>>,
               result |-> 0, return_type |-> return_type, code |-> code]

\* A successful compile_AST; a failed one changes nothing.  The deep copy follows.
compile_specifying_location ==
    /\ Running("compile")
    /\ \E a \in Objects(AST_pointer) : \E t \in ReturnTypes : \E made \in BakedTypes :
          StartCopy("compile", a, t, BakedIn(a) \cup made)
    /\ UNCHANGED <<heapVars, mem, type_hash_table, type_roots, event_roots, functionVars,
                   traceVars, held, error>>

AST_from_function ==
    /\ Running("AST_from_function")
    /\ \E f \in Objects(function_pointer) :
          StartCopy("AST_from_function", functions[f].the_AST, 0, {})
    /\ UNCHANGED <<heapVars, mem, type_hash_table, type_roots, event_roots, functionVars,
                   traceVars, held, error>>

Copying == copier # NoCopy /\ phase = "program" /\ copier.todo # <<>>
Place == Head(copier.todo)
Original == IF Place = ResultPlace THEN copier.source ELSE Word(Place)

\* Mutant of Pending: the fields of a copied AST are not copied.
Pending_Shallow(fields) == Tail(copier.todo)

\* What the copier still has to look at, the fields of the new copy first.
Pending(fields) == fields \o Tail(copier.todo)

\* A table f with an entry for x.
Extended(f, x, v) == [y \in DOMAIN f \cup {x} |-> IF y = x THEN v ELSE f[y]]

\* internal_copy(Original) returns new, whose fields at the given places are next.
Deliver(m, new, fields) ==
    /\ mem' = IF Place = ResultPlace THEN m ELSE [m EXCEPT ![Place] = new]
    /\ copier' = [copier EXCEPT !.copied = Extended(@, Original, new),
                                !.todo = Pending(fields),
                                !.result = IF Place = ResultPlace THEN new ELSE @]
    /\ UNCHANGED <<type_hash_table, type_roots, event_roots, functionVars, traceVars, held, error>>

copy_found ==
    /\ Copying
    /\ Original \in DOMAIN copier.copied
    /\ Deliver(mem, copier.copied[Original], <<>>)
    /\ UNCHANGED heapVars

NewCopy(tag) == Copying /\ Original \notin DOMAIN copier.copied /\ Word(Original) = tag

\* copy_AST of an imv copies the object first.
copy_imv ==
    /\ NewCopy(imv)
    /\ LET d == Word(Original + 1)
           size == get_size(Word(d)) + 1
       IN
       IF d = 0
       THEN \E k \in BestFit(free_memory, 2) :
                AllocateAt(2, k) /\ Deliver(Write(mem, k.addr, <<imv, 0>>), k.addr, <<>>)
       ELSE \E k \in BestFit(free_memory, size) : \E l \in BestFit(Taken(free_memory, k, size), 2) :
                /\ AllocateTwoAt(size, k, 2, l)
                /\ Deliver(Write(Write(mem, k.addr, WordsAt(d, size)), l.addr, <<imv, k.addr>>),
                           l.addr, <<>>)

\* The vector is copied, its elements are not: a basicblock has no pointer_fields.
copy_basicblock ==
    /\ NewCopy(basicblock)
    /\ LET fields == Elements(Word(Original + 1)) IN
       \E k \in BestFit(free_memory, 2) :
           \E l \in BestFit(Taken(free_memory, k, 2), VectorSize(fields)) :
               /\ AllocateTwoAt(2, k, VectorSize(fields), l)
               /\ Deliver(Write(Write(mem, k.addr, <<basicblock, l.addr>>),
                                l.addr, VectorWords(fields)), k.addr, <<>>)

copy_AST ==
    /\ \E tag \in DOMAIN ASTFields : NewCopy(tag)
    /\ LET size == get_full_size_of_AST(Word(Original)) IN
       \E k \in BestFit(free_memory, size) :
           /\ AllocateAt(size, k)
           /\ Deliver(Write(mem, k.addr, WordsAt(Original, size)), k.addr,
                      [i \in 1 .. size - 1 |-> k.addr + i])

Function(ast, return_type, code) == [the_AST |-> ast, return_type |-> return_type, code |-> code]
NoFunction == Function(0, 0, {})

\* Where a slot's bit is in function_pool_flags.
SlotBit(s) == Power[(s - 1) % BlockBits]
SlotBlock(s) == (s - 1) \div BlockBits

\* Mutant of allocate_function: a slot that is taken is not skipped.
allocate_function_Taken(s) ==
    /\ \A o \in Slots : o < s => o \in Flagged(function_pool_flags)
    /\ function_pool_flags' = [function_pool_flags EXCEPT ![SlotBlock(s)] = @ + SlotBit(s)]

\* allocate_function: the first zero of the first block that has one.
allocate_function(s) ==
    /\ s \notin Flagged(function_pool_flags)
    /\ \A o \in Slots : o < s => o \in Flagged(function_pool_flags)
    /\ function_pool_flags' = [function_pool_flags EXCEPT ![SlotBlock(s)] = @ + SlotBit(s)]

\* The copy is complete: the function is placed, or the copy is the result.
compiled ==
    /\ copier # NoCopy /\ phase = "program" /\ copier.todo = <<>>
    /\ copier' = NoCopy
    /\ IF copier.what = "AST_from_function"
       THEN Hold(copier.result, AST_pointer) /\ UNCHANGED <<heapVars, functionVars, error>>
       ELSE IF Slots \subseteq Flagged(function_pool_flags)
       THEN Abort /\ error' = "OOM function" /\ UNCHANGED <<functionVars, held>>
       ELSE \E s \in Slots :
            /\ allocate_function(s)
            /\ functions' = [functions EXCEPT ![s] =
                                Function(copier.result, copier.return_type, copier.code)]
            /\ modules' = modules \cup {s}
            /\ Hold(s, function_pointer)
            /\ UNCHANGED <<heapVars, error>>
    /\ UNCHANGED <<mem, type_hash_table, type_roots, event_roots, traceVars>>

\* run_null_parameter_function: the code uses a word it holds, and its result, if
\* it has one, is wrapped in a dynamic object unless it is one.
run_null_parameter_function ==
    /\ Running("run")
    /\ \E f \in Objects(function_pointer) :
        \/ /\ \E r \in functions[f].code : Hold(r.val, r.type)
           /\ UNCHANGED <<heapVars, mem>>
        \/ /\ functions[f].return_type \notin {0, dynamic_object}
           /\ DynamicWith(functions[f].return_type)
    /\ programUnchanged

\* Whether the AST of a function compiles again: parts of what compiled need not,
\* and nothing is certain of an AST but that none is an error.
Recompiles(a) ==
    (IF a # 0 THEN {TRUE} ELSE {}) \cup (IF "compile_error" \in Menu THEN {FALSE} ELSE {})

\* The first function is destroyed, then the AST of the second, not a copy of it,
\* is compiled in its place.  Nobody asks whether it compiled.
overwrite_func ==
    /\ Running("overfunc")
    /\ \E first, second \in Objects(function_pointer) : \E t \in ReturnTypes :
        LET a == functions[second].the_AST IN
        /\ functions[first].return_type = functions[second].return_type
        /\ \E compiles \in Recompiles(a) :
              /\ functions' = IF compiles THEN [functions EXCEPT ![first] = Function(a, t, BakedIn(a))]
                              ELSE functions
              /\ modules' = IF compiles THEN modules ELSE modules \ {first}
    /\ UNCHANGED <<heapVars, mem, type_hash_table, type_roots, event_roots, function_pool_flags,
                   traceVars, copier, held, error>>

\* The fuzzer's choice of a part of a function's AST moves the function's own
\* root down to that part (testdriver.cpp:55-66).
find_random_AST ==
    /\ Running("find_random_AST")
    /\ \E f \in Objects(function_pointer) :
        /\ functions[f].the_AST # 0
        /\ \E r \in Range(AST_range(functions[f].the_AST)) :
            functions' = [functions EXCEPT ![f].the_AST = r.val] /\ Hold(r.val, AST_pointer)
    /\ UNCHANGED <<heapVars, mem, type_hash_table, type_roots, event_roots, function_pool_flags,
                   modules, traceVars, copier, error>>

\* A function that compiled becomes an event root, replacing one when there are many.
add_event_root ==
    /\ Running("event_root")
    /\ \E f \in Objects(function_pointer) :
        event_roots' \in IF Len(event_roots) > max_fuzztester_size
                         THEN {[event_roots EXCEPT ![i] = f] : i \in DOMAIN event_roots}
                         ELSE {Append(event_roots, f)}
    /\ UNCHANGED <<heapVars, mem, type_hash_table, type_roots, functionVars, traceVars,
                   copier, held, error>>

\* The fuzzer is done, testdriver.cpp:198.
clear_event_roots ==
    /\ Running("clear") /\ event_roots # <<>>
    /\ event_roots' = <<>>
    /\ UNCHANGED <<heapVars, mem, type_hash_table, type_roots, functionVars, traceVars,
                   copier, held, error>>

-----------------------------------------------------------------------------
(* The collector *)

Mark(r) == [op |-> "mark", val |-> r.val, type |-> r.type]
Marks(refs) == [i \in DOMAIN refs |-> Mark(refs[i])]

\* Between the events of the main loop; no C++ local is used afterwards.
trace_objects ==
    /\ "GC" \in Menu /\ type_roots # <<>> /\ copier = NoCopy
    /\ start_GC
    /\ held' = {}
    /\ type_hash_table' = {}
    /\ sweep_function_pool_flags' = [b \in Blocks |-> 0]
    /\ to_be_marked' = Marks([i \in DOMAIN type_roots |-> Ref(type_roots[i], type_pointer)])
                    \o Marks([i \in DOMAIN event_roots |-> Ref(event_roots[i], function_pointer)])
    /\ UNCHANGED <<mem, type_roots, event_roots, functionVars, copier, error>>

Next_to_mark == Head(to_be_marked)
Rest == Tail(to_be_marked)
Tracing(op) == phase = "trace" /\ to_be_marked # <<>> /\ Next_to_mark.op = op

traceUnchanged == UNCHANGED <<type_roots, event_roots, functionVars, copier, held>>

\* check(): the process stops where the code finds itself inconsistent.
CheckedElseAbort(condition, Step) ==
    IF condition THEN Step /\ UNCHANGED error
    ELSE /\ Abort /\ error' = "check"
         /\ UNCHANGED <<mem, type_hash_table, traceVars>>

\* found_living_object, then the words of the object unless it was found before.
Visit(addr, size, children) ==
    CheckedElseAbort(size # 0 /\ addr # 0 /\ addr >= big_memory_pool /\ addr + size <= PoolEnd,
        /\ found_living_object(addr, size)
        /\ to_be_marked' = (IF \E l \in living_objects : l.addr = addr THEN <<>> ELSE children)
                           \o Rest
        /\ UNCHANGED <<mem, type_hash_table, sweep_function_pool_flags>>)

Marking(kind) == Tracing("mark") /\ ver(Next_to_mark.type) = kind

\* Mutant of mark_nothing: a null is looked at again and again.
mark_nothing_Stuck ==
    /\ Tracing("mark") /\ Next_to_mark.val = 0
    /\ UNCHANGED <<heapVars, mem, type_hash_table, sweep_function_pool_flags, to_be_marked, error>>
    /\ traceUnchanged

\* An integer, or a null of one of the types that have it.
mark_nothing ==
    /\ Tracing("mark")
    /\ \/ Next_to_mark.type = integer
       \/ Next_to_mark.val = 0 /\ Next_to_mark.type \in
                {dynamic_object, AST_pointer, type_pointer, function_pointer}
    /\ to_be_marked' = Rest
    /\ UNCHANGED <<heapVars, mem, type_hash_table, sweep_function_pool_flags, error>>
    /\ traceUnchanged

\* memory.cpp:297 takes the size of the pointer, not of what it points to.
mark_pointer ==
    /\ Marking(pointer)
    /\ Visit(Next_to_mark.val, get_size(Next_to_mark.type),
             Marks(RefsAt(Next_to_mark.val, Subtypes(Next_to_mark.type)[1])))
    /\ traceUnchanged

\* Mutant of mark_vector: only the elements in use count, not the reserved ones.
mark_vector_Used ==
    /\ Marking(vector)
    /\ LET v == Next_to_mark.val IN
       Visit(v, vector_header_size + Word(v), Marks(Vector_range(v, Subtypes(Next_to_mark.type)[1])))
    /\ traceUnchanged

mark_vector ==
    /\ Marking(vector)
    /\ LET v == Next_to_mark.val IN
       Visit(v, vector_header_size + Word(v + 1),
             Marks(Vector_range(v, Subtypes(Next_to_mark.type)[1])))
    /\ traceUnchanged

\* Mutant of mark_dynamic_object: the type is not marked.
mark_dynamic_object_NoType ==
    /\ Marking(dynamic_object) /\ Next_to_mark.val # 0
    /\ to_be_marked' = <<[op |-> "contents", val |-> Next_to_mark.val, type |-> dynamic_object]>> \o Rest
    /\ UNCHANGED <<heapVars, mem, type_hash_table, sweep_function_pool_flags, error>>
    /\ traceUnchanged

\* The type comes first: the size depends on it.
mark_dynamic_object ==
    /\ Marking(dynamic_object) /\ Next_to_mark.val # 0
    /\ to_be_marked' = <<Mark(Ref(Word(Next_to_mark.val), type_pointer)),
                         [op |-> "contents", val |-> Next_to_mark.val, type |-> dynamic_object]>>
                       \o Rest
    /\ UNCHANGED <<heapVars, mem, type_hash_table, sweep_function_pool_flags, error>>
    /\ traceUnchanged

mark_dynamic_contents ==
    /\ Tracing("contents")
    /\ LET d == Next_to_mark.val IN
       Visit(d, get_size(Word(d)) + 1, Marks(RefsAt(d + 1, Word(d))))
    /\ traceUnchanged

\* Mutant of mark_AST: the ASTs below it are not visited.
mark_AST_Alone ==
    /\ Marking(AST_pointer) /\ Next_to_mark.val # 0
    /\ LET a == Next_to_mark.val IN
       Visit(a, get_full_size_of_AST(Word(a)),
             IF Word(a) = imv THEN <<Mark(Ref(Word(a + 1), dynamic_object))>> ELSE <<>>)
    /\ traceUnchanged

mark_AST ==
    /\ Marking(AST_pointer) /\ Next_to_mark.val # 0
    /\ LET a == Next_to_mark.val IN
       Visit(a, get_full_size_of_AST(Word(a)),
             (IF Word(a) = imv THEN <<Mark(Ref(Word(a + 1), dynamic_object))>> ELSE <<>>) \o
             (IF Word(a) = basicblock THEN <<Mark(Ref(Word(a + 1), type_roots[1]))>> ELSE <<>>) \o
             Marks(AST_range(a)))
    /\ traceUnchanged

\* Mutant of SubtypesThenUniquefy: the other way round.
UniquefyThenSubtypes(t) ==
    <<[op |-> "uniquefy", val |-> t, type |-> type_pointer]>> \o
    Marks([i \in DOMAIN Subtypes(t) |-> Ref(Subtypes(t)[i], type_pointer)])

\* A type is made unique only after what it is made of.
SubtypesThenUniquefy(t) ==
    Marks([i \in DOMAIN Subtypes(t) |-> Ref(Subtypes(t)[i], type_pointer)]) \o
    <<[op |-> "uniquefy", val |-> t, type |-> type_pointer]>>

mark_type ==
    /\ Marking(type_pointer) /\ Next_to_mark.val # 0
    /\ LET t == Next_to_mark.val IN
       IF Subtypes(t) = <<>>
       THEN /\ to_be_marked' = SubtypesThenUniquefy(t) \o Rest
            /\ UNCHANGED <<heapVars, mem, type_hash_table, sweep_function_pool_flags, error>>
       ELSE Visit(t, total_valid_fields(t) + 1, SubtypesThenUniquefy(t))
    /\ traceUnchanged

\* get_unique_type_internal on a type of the pool: its fields become the unique
\* ones.  One that is missing from the table would have this type copied, and
\* allocate() refuses to run during a collection.
uniquefy_premade_type ==
    /\ Tracing("uniquefy")
    /\ LET t == Next_to_mark.val
           subs == Subtypes(t)
       IN
       CheckedElseAbort(\A i \in DOMAIN subs : InTable(subs[i]) # {},
            /\ mem' = [w \in Pool |-> IF \E i \in DOMAIN subs : w = SubtypeAt(t, i)
                                      THEN Unique(mem[w]) ELSE mem[w]]
            /\ type_hash_table' = IF InTable(t) = {} THEN type_hash_table \cup {t}
                                  ELSE type_hash_table
            /\ to_be_marked' = Rest
            /\ UNCHANGED <<heapVars, sweep_function_pool_flags>>)
    /\ traceUnchanged

\* Mutant of mark_function: the AST of a function is not marked.
mark_function_NoAST ==
    /\ Marking(function_pointer) /\ Next_to_mark.val # 0
    /\ LET f == Next_to_mark.val IN
       /\ f \notin Flagged(sweep_function_pool_flags)
       /\ sweep_function_pool_flags' =
             [sweep_function_pool_flags EXCEPT ![SlotBlock(f)] = @ + SlotBit(f)]
       /\ to_be_marked' = <<Mark(Ref(functions[f].return_type, type_pointer))>> \o Rest
    /\ UNCHANGED <<heapVars, mem, type_hash_table, error>>
    /\ traceUnchanged

\* found_function; what the machine code holds is not visited.
mark_function ==
    /\ Marking(function_pointer) /\ Next_to_mark.val # 0
    /\ LET f == Next_to_mark.val IN
       IF f \in Flagged(sweep_function_pool_flags)
       THEN to_be_marked' = Rest /\ UNCHANGED sweep_function_pool_flags
       ELSE /\ sweep_function_pool_flags' =
                  [sweep_function_pool_flags EXCEPT ![SlotBlock(f)] = @ + SlotBit(f)]
            /\ to_be_marked' = <<Mark(Ref(functions[f].the_AST, AST_pointer)),
                                 Mark(Ref(functions[f].return_type, type_pointer))>> \o Rest
    /\ UNCHANGED <<heapVars, mem, type_hash_table, error>>
    /\ traceUnchanged

sweepy_sweep ==
    /\ to_be_marked = <<>>
    /\ BeginSweep
    /\ UNCHANGED <<mem, type_hash_table, type_roots, event_roots, functionVars, traceVars,
                   copier, held, error>>

\* Mutant of Cleared: one word too many.
Cleared_Inclusive(upto) ==
    [w \in Pool |-> IF w \in memory_incrementor .. upto THEN special_value ELSE mem[w]]

\* The words of a gap are overwritten, memory.cpp:386 and 400.
Cleared(upto) ==
    [w \in Pool |-> IF w \in memory_incrementor .. upto - 1 THEN special_value ELSE mem[w]]

sweep_gap ==
    /\ SweepGap
    /\ \E l \in NextLiving : mem' = Cleared(l.addr)
    /\ UNCHANGED <<type_hash_table, type_roots, event_roots, functionVars, traceVars,
                   copier, held, error>>

\* Mutant of diffmask: subtracted the wrong way round.
diffmask_Swapped(b) == (sweep_function_pool_flags[b] - function_pool_flags[b]) % Power[BlockBits]

\* The bits of a block of the function pool that the trace did not set again.
diffmask(b) == (function_pool_flags[b] - sweep_function_pool_flags[b]) % Power[BlockBits]

Finalized == {s \in Slots : Bit(diffmask(SlotBlock(s)), (s - 1) % BlockBits)}

\* The rest of the pool, then the finalizers of functions: ~function() takes the
\* code of the slot out of the JIT.
sweep_end ==
    /\ SweepEnd
    /\ mem' = Cleared(PoolEnd)
    /\ functions' = [s \in Slots |-> IF s \in Finalized THEN NoFunction ELSE functions[s]]
    /\ modules' = modules \ Finalized
    /\ function_pool_flags' =
          [b \in Blocks |-> IF diffmask(b) # 0 THEN sweep_function_pool_flags[b]
                            ELSE function_pool_flags[b]]
    /\ UNCHANGED <<type_hash_table, type_roots, event_roots, traceVars, copier, held, error>>

-----------------------------------------------------------------------------
Init ==
    /\ HeapInit
    /\ mem = [w \in Pool |-> special_value]
    /\ type_hash_table = {integer, dynamic_object, AST_pointer, type_pointer, function_pointer}
    /\ type_roots = <<>> /\ event_roots = <<>>
    /\ functions = [s \in Slots |-> NoFunction]
    /\ function_pool_flags = [b \in Blocks |-> 0]
    /\ sweep_function_pool_flags = [b \in Blocks |-> 0]
    /\ modules = {}
    /\ to_be_marked = <<>>
    /\ copier = NoCopy
    /\ held = {}
    /\ error = "none"

Program ==
    \/ initialize
    \/ new_AST
    \/ new_imv_AST
    \/ new_basicblock
    \/ new_dynamic_obj
    \/ new_pointer
    \/ new_vector
    \/ new_unique_type
    \/ pushback_int
    \/ vecpb
    \/ store
    \/ compile_specifying_location
    \/ AST_from_function
    \/ copy_found
    \/ copy_imv
    \/ copy_basicblock
    \/ copy_AST
    \/ compiled
    \/ run_null_parameter_function
    \/ overwrite_func
    \/ find_random_AST
    \/ add_event_root
    \/ clear_event_roots
    \/ out_of_memory

Collection ==
    \/ mark_nothing
    \/ mark_pointer
    \/ mark_vector
    \/ mark_dynamic_object
    \/ mark_dynamic_contents
    \/ mark_AST
    \/ mark_type
    \/ uniquefy_premade_type
    \/ mark_function
    \/ sweepy_sweep
    \/ sweep_gap
    \/ sweep_end

Next == Program \/ trace_objects \/ Collection

Spec == Init /\ [][Next]_vars

\* A collection is one call of the only thread; it is not interrupted.
FairSpec == Spec /\ WF_vars(Collection)

-----------------------------------------------------------------------------
(* Properties *)


CollectorTypeOK ==
    /\ TypeOK
    /\ mem \in [Pool -> Nat]
    /\ type_hash_table \subseteq Nat
    /\ type_roots \in Seq(Nat) /\ event_roots \in Seq(Slots)
    /\ functions \in [Slots -> [the_AST : Nat, return_type : Nat, code : SUBSET Reference]]
    /\ function_pool_flags \in [Blocks -> 0 .. Power[BlockBits] - 1]
    /\ sweep_function_pool_flags \in [Blocks -> 0 .. Power[BlockBits] - 1]
    /\ modules \subseteq Slots
    /\ to_be_marked \in Seq([op : {"mark", "contents", "uniquefy"}, val : Nat, type : Nat])
    /\ held \subseteq Reference
    /\ error \in {"none", "OOM", "OOM function", "check"}

\* Every reference the program can reach, through the memory, the functions or
\* the machine code, leads to a live block of exactly the size it is used with,
\* or to a function whose code is still in the JIT.  A word the trace misses, a
\* size it gets wrong, or a block handed out twice breaks it.
Intact ==
    phase = "program" =>
        \A r \in InUse :
            /\ r.type = function_pointer /\ r.val # 0 =>
                  r.val \in Flagged(function_pool_flags) \cap modules
            /\ Extent(r) > 0 => [addr |-> r.val, size |-> Extent(r)] \in objects

\* When the trace is over, the blocks it has found are those the roots own, with
\* their sizes, and the functions it has found those the roots reach: nothing is
\* missed, although a visit stops at anything found before, and nothing else kept.
LivingIsRooted ==
    phase = "sweep" =>
        /\ living_objects = Owned(Rooted)
        /\ Flagged(sweep_function_pool_flags) =
              {r.val : r \in {q \in Rooted : q.type = function_pointer}} \ {0}

\* A collection changes no word of a block that is reachable from the roots,
\* neither by clearing a gap nor by making types unique.
SurvivorsUntouched ==
    [][(phase \in {"trace", "sweep"}) =>
          \A b \in Owned(Rooted) : \A w \in Words(b) : mem'[w] = mem[w]]_vars

\* Types are unique and in the table: two types the program can reach are the
\* same only if they are identical, so that it may compare types as words
\* (type_creator.cpp:2-5), and the subtypes of a type in the table are in it.
\* The table is emptied and rebuilt by every collection.
TypesUnique ==
    phase = "program" =>
        LET types == {r.val : r \in {q \in InUse : q.type = type_pointer}} \ {0} IN
        /\ \A t, u \in types \cup type_hash_table : SameType(t, u) => t = u
        /\ {t \in types : IsHeapType(t)} \subseteq type_hash_table
        /\ \A t \in type_hash_table : Range(Subtypes(t)) \subseteq type_hash_table

\* A slot of the function pool is taken exactly when the JIT holds its code, and
\* while the sweep decides, what it has marked was taken: the subtraction that
\* makes diffmask never borrows, so no finalizer runs on another slot.
FunctionsMatchModules ==
    /\ modules = Flagged(function_pool_flags)
    /\ Flagged(sweep_function_pool_flags) \subseteq Flagged(function_pool_flags)

\* None of the collector's checks fails: no null where none is allowed, no
\* object out of bounds, no type to allocate while collecting.
ChecksNeverFail == error # "check"

\* A deep copy is a copy: it has the shape of the original, field by field, also
\* where the original is shared or cyclic, and no AST in common with it.
CopyIsDeep ==
    copier # NoCopy /\ phase = "program" /\ copier.todo = <<>> =>
        /\ ASTsFrom[{copier.result} \ {0}] \cap ASTsFrom[{copier.source} \ {0}] = {}
        /\ \A a \in DOMAIN copier.copied \ {0} :
              LET b == copier.copied[a] IN
              /\ Word(a) = Word(b)
              /\ [i \in DOMAIN AST_range(a) |-> copier.copied[AST_range(a)[i].val]] =
                 [i \in DOMAIN AST_range(b) |-> AST_range(b)[i].val]

\* An object is marked with the size the program sees (memory.cpp:24), whatever
\* kind of reference leads to it first: "we assume that full pointers point to
\* the entire object" (memory.cpp:232).
MarkedWhole == phase \in {"trace", "sweep"} => \A l \in living_objects :
    \A o \in objects : o.addr = l.addr => o.size = l.size

\* References to types stay valid forever (type_creator.cpp:15), those in the
\* machine code of a function that is still there included.
TypeReferencesStayValid ==
    phase = "program" =>
        \A s \in modules : \A r \in functions[s].code :
            r.type = type_pointer /\ IsHeapType(r.val) =>
                \E o \in objects : o.addr = r.val /\ o.size = Extent(r)

\* A collection ends and the main loop goes on.
CollectorReturns == phase \in {"trace", "sweep"} ~> phase = "program"

\* The collector keeps to the contract of the word pool: it reports only blocks
\* in use, with the sizes they were allocated with.
ImplementsHeap == HeapSpec
==============================================================================
