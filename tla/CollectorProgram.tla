-------------------------- MODULE CollectorProgram ---------------------------
(***************************************************************************)
(* Every operation of the program keeps the world (ProgramInv): whatever it*)
(* makes is sound, of its declared type and in a block of its size, and what*)
(* it writes leads on to sound objects.                                    *)
(***************************************************************************)
EXTENDS CollectorLemmas, SequenceTheorems

------------------------------------------------------------------------------
(* Objects of one block *)

\* What holds between two operations of the program.
ProgramInv == HeapInv /\ Typings /\ phase = "program" /\ \E G, rk : World(G, rk)

\* A new object with a sound content is sound.
LEMMA SoundNew ==
    \A rk, r : /\ OneWord(r.type) /\ r.val # 0 /\ r.type \notin {integer, function_pointer, type_pointer}
               /\ BlockOf(r) \in objects /\ SoundObject(rk, r)
               => Sound(rk, r) /\ Leads(r)
BY DEF Sound, Solid, Leads, BlockOf

\* The same, in the next state.
LEMMA SoundNewNext ==
    (\A rk, r : /\ OneWord(r.type) /\ r.val # 0 /\ r.type \notin {integer, function_pointer, type_pointer}
                /\ BlockOf(r) \in objects /\ SoundObject(rk, r)
                => Sound(rk, r) /\ Leads(r))'
BY SoundNew, PTL

\* The roots are read from two variables.
LEMMA RootsStay ==
    UNCHANGED <<type_roots, event_roots>> => RootRefs' = RootRefs
BY DEF RootRefs, Ref, type_pointer, function_pointer

\* One new object joins the world.
LEMMA ObjectJoins ==
    ASSUME HeapInv, Typings, NEW G, NEW rk, World(G, rk),
           HeapInv', phase' = "program", MemTyped', Moves(G, {}),
           NEW a \in 0 .. special_value, \A r \in G : Solid(r) => r.val # a,
           a # 0, NEW t \in 0 .. special_value, t # type_pointer, t # function_pointer,
           \A q \in Targets(Ref(a, t))' : Visible(q),
           held' \subseteq held \cup {Ref(a, t)}, copier = NoCopy,
           UNCHANGED <<type_hash_table, type_roots, event_roots, functionVars, traceVars, copier, error>>,
           Fits(G \cup {Ref(a, t)}, rk, Ref(a, t))', OnMenu(Ref(a, t))'
    PROVE  ProgramInv'
<1> DEFINE n == Ref(a, t)
           N == {n}
           D == {}
<1>1. n \in Reference /\ n.val = a /\ n.type = t
  BY Refs
<1>2. Distinct(G, N)
  BY <1>1 DEF Distinct
<1>3. RootRefs' \cup held' \subseteq G \cup N
  BY RootsStay DEF World
<1>4. CopierIn(G \cup N)' /\ Guarded(G \cup N)'
  <2>1. CopierIn(G \cup N)' /\ copier' = NoCopy
    BY DEF CopierIn, NoCopy
  <2>2. \A r \in N : r.type # function_pointer /\ (r.type = AST_pointer => r \notin G)
    <3>1. n.type = AST_pointer => Solid(n)
      BY <1>1, Tags DEF Solid
    <3> QED
      BY <1>1, <3>1
  <2>3. \A r \in D \cup N : \A q \in Targets(r)' : Visible(q)
    OBVIOUS
  <2>4. \A q \in held' : q \in held \cup N
    OBVIOUS
  <2>5. D \in SUBSET G /\ Moves(G, D) /\ \A r \in D : Visible(r) /\ r.type \notin {dynamic_object, function_pointer}
    OBVIOUS
  <2> HIDE DEF D, N
  <2> QED
    BY <2>1, <2>2, <2>3, <2>4, <2>5, GuardGrows
<1>5. \A r \in D \cup N : Fits(G \cup N, rk, r)' /\ OnMenu(r)'
  OBVIOUS
<1>6. D \in SUBSET G /\ N \in SUBSET Reference /\ \A r \in N : r.type # type_pointer
  BY <1>1
<1>7. Moves(G, D) /\ type_hash_table' = type_hash_table
  OBVIOUS
<1> HIDE DEF D, N
<1>8. World(G \cup N, rk)'
  BY <1>2, <1>3, <1>4, <1>5, <1>6, <1>7, ProgramGrows
<1>9. Typings'
  <2>1. held' \subseteq Reference /\ type_hash_table' \subseteq Nat
    BY <1>1 DEF Typings
  <2> QED
    BY <2>1, TypingsKept, FunctionsStay DEF Typings
<1> QED
  BY <1>8, <1>9 DEF ProgramInv

\* Putting an element in front of a sequence.
LEMMA ConsFacts ==
    ASSUME NEW V, NEW v \in V, NEW s \in Seq(V)
    PROVE  /\ <<v>> \o s \in Seq(V) /\ Len(<<v>> \o s) = Len(s) + 1
           /\ (<<v>> \o s)[1] = v /\ \A i \in 1 .. Len(s) : (<<v>> \o s)[i + 1] = s[i]
OBVIOUS

\* Keeping a reference.
LEMMA Held == \A v, t : Hold(v, t) => held' \subseteq held \cup {Ref(v, t)}
BY DEF Hold

-----------------------------------------------------------------------------
\* The operation new_AST keeps the world.
LEMMA NewASTStep ==
    ASSUME HeapInv, Typings, NEW G, NEW rk, World(G, rk), new_AST
    PROVE  ProgramInv'
<1>0. PICK tag \in DOMAIN ASTFields :
        \E fields \in [1 .. ASTFields[tag] -> Nullable(AST_pointer)] :
            \E k \in BestFit(free_memory, get_full_size_of_AST(tag)) :
                /\ AllocateAt(get_full_size_of_AST(tag), k)
                /\ mem' = Write(mem, k.addr, <<tag>> \o fields)
                /\ Hold(k.addr, AST_pointer)
  BY DEF new_AST
<1>1. PICK fields \in [1 .. ASTFields[tag] -> Nullable(AST_pointer)],
           k \in BestFit(free_memory, get_full_size_of_AST(tag)) :
              /\ AllocateAt(get_full_size_of_AST(tag), k)
              /\ mem' = Write(mem, k.addr, <<tag>> \o fields)
              /\ Hold(k.addr, AST_pointer)
  BY <1>0
<1> DEFINE size == get_full_size_of_AST(tag)
           a == k.addr
           m == ASTFields[tag]
           n == Ref(a, AST_pointer)
           words == <<tag>> \o fields
<1>2. tag > basicblock /\ m \in Nat /\ size = m + 1 /\ tag # imv /\ tag # basicblock
  BY CollectorAssumption, Tags DEF get_full_size_of_AST, get_field_size_of_AST
<1>3. \A i \in 1 .. m : Ref(fields[i], AST_pointer) \in G /\ fields[i] \in 0 .. special_value
  <2>1. \A i \in 1 .. m : fields[i] \in Nullable(AST_pointer)
    OBVIOUS
  <2>2. AST_pointer \in FieldlessTypes
    BY DEF FieldlessTypes
  <2>3. \A i \in 1 .. m : Ref(fields[i], AST_pointer) \in G
    BY <2>1, <2>2, KnownIn
  <2> QED
    BY <2>3, Refs, WorldFacts
<1>4. words \in Seq(0 .. special_value) /\ Len(words) = size /\ words[1] = tag /\ \A i \in 1 .. m : words[i + 1] = fields[i]
  <2>1. tag \in 0 .. special_value
    BY CollectorAssumption, Sizes
  <2>2. fields \in [1 .. m -> 0 .. special_value]
    BY <1>3
  <2>3. fields \in Seq(0 .. special_value) /\ Len(fields) = m
    BY <1>2, <2>2, FunctionIsSeq
  <2> QED
    BY <1>2, <2>1, <2>3, ConsFacts
<1>5. /\ HeapInv' /\ phase' = "program" /\ MemTyped' /\ Moves(G, {})
      /\ Issued(k, size) \in objects' /\ \A r \in G : Solid(r) => r.val # a
      /\ a \in 0 .. special_value /\ a # 0 /\ a \in Nat
      /\ \A i \in 1 .. size : Word(a + i - 1)' = words[i]
  <2>1. size \in Nat \ {0} /\ Len(words) <= size /\ UNCHANGED <<type_roots, functionVars>>
    BY <1>2, <1>4 DEF new_AST, programUnchanged
  <2>2. PICK z, ws : z = size /\ ws = words
    OBVIOUS
  <2>3. AllocateAt(z, k) /\ k \in BestFit(free_memory, z) /\ mem' = Write(mem, k.addr, ws)
    BY <1>1, <2>2
  <2>4. ws \in Seq(0 .. special_value) /\ Len(ws) = z /\ z \in Nat \ {0} /\ Len(ws) <= z
    BY <1>4, <2>1, <2>2
  <2> HIDE DEF words, size
  <2>5. /\ HeapInv' /\ phase' = "program" /\ MemTyped' /\ Moves(G, {})
        /\ Issued(k, z) \in objects' /\ \A r \in G : Solid(r) => r.val # k.addr
        /\ k.addr \in 0 .. special_value /\ k.addr # 0 /\ k.addr \in Nat /\ IsHeapType(k.addr)
        /\ \A i \in 1 .. Len(ws) : Word(k.addr + i - 1)' = ws[i]
    BY <2>1, <2>3, <2>4, NewObject
  <2> QED
    BY <2>2, <2>4, <2>5
<1>6. Word(a)' = tag /\ \A i \in 1 .. m : Word(a + i)' = fields[i]
  <2>1. a + 1 - 1 = a /\ \A i \in 1 .. m : i + 1 \in 1 .. size /\ a + (i + 1) - 1 = a + i
    BY <1>2, <1>5
  <2> QED
    BY <1>2, <1>4, <1>5, <2>1
<1>7. n.val = a /\ n.type = AST_pointer
  BY Refs
<1>8. Sound(rk, n)' /\ Leads(n)'
  <2>1. BlockOf(n)' = Issued(k, size)
    <3>1. Extent(n)' = get_full_size_of_AST(Word(a))'
      BY <1>5, <1>7, ExtentByKindNext DEF AST_pointer
    <3>2. get_full_size_of_AST(Word(a))' = size
      BY <1>6 DEF get_full_size_of_AST, get_field_size_of_AST, imv, basicblock
    <3> QED
      BY <1>7, <3>1, <3>2 DEF BlockOf, Issued, Ref
  <2>2. SoundObject(rk, n)'
    BY <1>2, <1>6, <1>7, Tags DEF SoundObject, IsTag, imv, basicblock, AST_pointer, type_pointer,
       dynamic_object, IsHeapType, never_reached
  <2>3. OneWord(n.type)' /\ n.type \notin {integer, function_pointer, type_pointer}'
    BY <1>7 DEF OneWord, FieldlessTypes, AST_pointer, integer, function_pointer, type_pointer, dynamic_object
  <2> QED
    BY <1>5, <1>7, <2>1, <2>2, <2>3, SoundNewNext
<1>9. Targets(n)' = {Ref(fields[i], AST_pointer) : i \in 1 .. m}
  <2>1. Targets(Ref(a, AST_pointer))' = {Ref(Word(a + i)', AST_pointer) : i \in 1 .. m}
    BY <1>5, <1>6, <1>8, ASTTargetsNext DEF AST_pointer, Ref
  <2>2. {Ref(Word(a + i)', AST_pointer) : i \in 1 .. m} = {Ref(fields[i], AST_pointer) : i \in 1 .. m}
    BY <1>6
  <2> QED
    BY <2>1, <2>2 DEF Ref, AST_pointer
<1>10. Fits(G \cup {n}, rk, n)' /\ OnMenu(n)'
  <2>1. Targets(n)' \subseteq G
    BY <1>3, <1>9
  <2> QED
    BY <1>2, <1>6, <1>7, <1>8, <2>1 DEF Fits, OnMenu, IsHeapType, never_reached, AST_pointer,
       function_pointer, imv, basicblock, Ref
<1>11. copier = NoCopy /\ UNCHANGED <<type_hash_table, type_roots, event_roots, functionVars, traceVars, copier, error>>
  BY DEF new_AST, Running, programUnchanged
<1>12. AST_pointer \in 0 .. special_value /\ AST_pointer # type_pointer /\ AST_pointer # function_pointer
  BY Tags, Sizes
<1>13. held' \subseteq held \cup {Ref(a, AST_pointer)}
  BY <1>1, Held
<1>14. \A q \in Targets(Ref(a, AST_pointer))' : Visible(q)
  <2>1. \A i \in 1 .. m : fields[i] \in Nullable(AST_pointer)
    OBVIOUS
  <2>2. \A i \in 1 .. m : Visible(Ref(fields[i], AST_pointer))
    BY <2>1, StorableIsVisible
  <2> QED
    BY <1>9, <2>2
<1> QED
  BY <1>5, <1>10, <1>11, <1>12, <1>13, <1>14, ObjectJoins

\* A sequence of two.
LEMMA PairFacts ==
    ASSUME NEW V, NEW x \in V, NEW y \in V
    PROVE  <<x, y>> \in Seq(V) /\ Len(<<x, y>>) = 2 /\ <<x, y>>[1] = x /\ <<x, y>>[2] = y
OBVIOUS

\* The operation new_vector keeps the world.
LEMMA NewVectorStep ==
    ASSUME HeapInv, Typings, NEW G, NEW rk, World(G, rk), new_vector
    PROVE  ProgramInv'
<1>0. PICK size, words : size = VectorSize(<<>>) /\ words = VectorWords(<<>>)
  OBVIOUS
<1>1. PICK t \in Objects(type_pointer), k \in BestFit(free_memory, size) :
         ver(t) = vector /\ AllocateAt(size, k) /\ mem' = Write(mem, k.addr, words) /\ Hold(k.addr, t)
  BY <1>0 DEF new_vector
<1> DEFINE a == k.addr
           n == Ref(a, t)
<1>2. size \in Nat \ {0} /\ size = 2 + spare_elements /\ spare_elements \in Nat
  <2>1. Len(<<>>) = 0 /\ 0 \div 2 = 0
    OBVIOUS
  <2> QED
    BY <1>0, <2>1, CollectorAssumption DEF VectorSize, ReservedSize, vector_header_size
<1>3. Typed /\ Shape(G, rk) /\ Issued(k, size) \in Block
  BY <1>1, <1>2, WorldFacts, AllocateAtStep
<1>4. size <= pool_size
  BY <1>3, <1>2 DEF Block, Issued
<1>5. words \in Seq(0 .. special_value) /\ Len(words) = 2 /\ words[1] = 0 /\ words[2] = spare_elements
  <2>1. words = <<0, spare_elements>>
    <3>1. Len(<<>>) = 0 /\ 0 \div 2 = 0 /\ \A x, y : <<x, y>> \o <<>> = <<x, y>>
      OBVIOUS
    <3> QED
      BY <1>0, <1>2, <3>1 DEF VectorWords, ReservedSize
  <2>2. 0 \in 0 .. special_value /\ spare_elements \in 0 .. special_value
    BY <1>2, <1>4, Sizes
  <2> DEFINE V == 0 .. special_value
  <2>3. 0 \in V /\ spare_elements \in V
    BY <2>2
  <2> HIDE DEF V
  <2>4. words \in Seq(V) /\ Len(words) = 2 /\ words[1] = 0 /\ words[2] = spare_elements
    BY <2>1, <2>3, PairFacts
  <2> QED
    BY <2>4 DEF V
<1>6. t \in HeapTypes(G) /\ t \in Nat /\ IsHeapType(t) /\ t \in 0 .. special_value /\ Ref(t, type_pointer) \in G
  <2>1. t \in FieldlessTypes \cup HeapTypes(G) /\ Ref(t, type_pointer) \in G
    BY KnownIn DEF Types
  <2>2. t \notin FieldlessTypes
    BY <1>1, Fieldless, Tags
  <2>3. t \in 0 .. special_value
    BY <2>1, <1>3, Refs DEF Shape
  <2> QED
    BY <2>1, <2>2, <2>3 DEF HeapTypes
<1>7. /\ HeapInv' /\ phase' = "program" /\ MemTyped' /\ Moves(G, {})
      /\ Issued(k, size) \in objects' /\ \A r \in G : Solid(r) => r.val # a
      /\ a \in 0 .. special_value /\ a # 0 /\ a \in Nat
      /\ \A i \in 1 .. 2 : Word(a + i - 1)' = words[i]
  <2>1. UNCHANGED <<type_roots, functionVars>>
    BY DEF new_vector, programUnchanged
  <2>2. Len(words) <= size /\ Len(words) = 2
    BY <1>2, <1>5
  <2>3. \A i \in 1 .. Len(words) : Word(a + i - 1)' = words[i]
    BY <1>1, <1>2, <1>5, <2>1, <2>2, NewObject
  <2>4. /\ HeapInv' /\ phase' = "program" /\ MemTyped' /\ Moves(G, {})
        /\ Issued(k, size) \in objects' /\ \A r \in G : Solid(r) => r.val # a
        /\ a \in 0 .. special_value /\ a # 0 /\ a \in Nat
    BY <1>1, <1>2, <1>5, <2>1, <2>2, NewObject
  <2>5. \A i \in 1 .. 2 : Word(a + i - 1)' = words[i]
    BY <2>2, <2>3
  <2> QED
    BY <2>4, <2>5
<1>8. Word(a)' = 0 /\ Word(a + 1)' = spare_elements
  <2>1. a + 1 - 1 = a /\ a + 2 - 1 = a + 1
    BY <1>7
  <2> QED
    BY <1>5, <1>7, <2>1
<1>9. n.val = a /\ n.type = t /\ n \in Reference
  BY <1>6, <1>7, Refs
<1>10. TypeKept(t) /\ ver(t)' = vector
  BY <1>1, <1>3, <1>6, <1>7, MovesTypes DEF TypeKept
<1>11. Sound(rk, n)' /\ Leads(n)'
  <2>1. BlockOf(n)' = Issued(k, size)
    <3>1. Extent(n)' = 2 + Word(a + 1)'
      BY <1>6, <1>7, <1>9, <1>10, ExtentByKindNext DEF IsHeapType, never_reached, vector
    <3>2. Extent(n)' = size
      BY <1>2, <1>8, <3>1
    <3> QED
      BY <1>9, <3>2 DEF BlockOf, Issued, Ref
  <2>2. SoundObject(rk, n)'
    BY <1>2, <1>6, <1>8, <1>9, Tags DEF SoundObject, AST_pointer, type_pointer,
       dynamic_object, IsHeapType, never_reached
  <2>3. OneWord(n.type)' /\ n.type \notin {integer, function_pointer, type_pointer}'
    BY <1>6, <1>9, <1>10, Tags DEF OneWord, IsHeapType, never_reached, integer, function_pointer, type_pointer, vector
  <2> QED
    BY <1>7, <1>9, <2>1, <2>2, <2>3, SoundNewNext
<1>12. Targets(n)' = {}
  <2> DEFINE u == Subtypes(t)[1]
  <2>1. Targets(n)' = {Ref(Word(a + 1 + i), u)' : i \in 1 .. Word(a)'}
    BY <1>6, <1>7, <1>9, <1>10, <1>11, HeapTargetsNext DEF IsHeapType, never_reached, vector, Reference
  <2>2. 1 .. Word(a)' = {}
    BY <1>8
  <2> QED
    BY <2>1, <2>2
<1>13. Fits(G \cup {n}, rk, n)' /\ OnMenu(n)'
  BY <1>6, <1>9, <1>11, <1>12, Tags DEF Fits, OnMenu, IsHeapType, never_reached, AST_pointer,
       function_pointer, Ref, type_pointer
<1>14. copier = NoCopy /\ UNCHANGED <<type_hash_table, type_roots, event_roots, functionVars, traceVars, copier, error>>
  BY DEF new_vector, Running, programUnchanged
<1>15. t # type_pointer /\ t # function_pointer
  BY <1>6, Tags
<1>16. held' \subseteq held \cup {Ref(a, t)}
  BY <1>1, Held
<1> QED
  BY <1>6, <1>7, <1>12, <1>13, <1>14, <1>15, <1>16, ObjectJoins

\* The operation new_pointer keeps the world.
LEMMA NewPointerStep ==
    ASSUME HeapInv, Typings, NEW G, NEW rk, World(G, rk), new_pointer
    PROVE  ProgramInv'
<1>1. PICK p \in Types : ver(p) = pointer /\
         \E words \in Contents(Subtypes(p)[1]) : \E k \in BestFit(free_memory, get_size(Subtypes(p)[1])) :
                /\ AllocateAt(get_size(Subtypes(p)[1]), k)
                /\ mem' = Write(mem, k.addr, words)
                /\ Hold(k.addr, p)
  BY DEF new_pointer
<1>2. PICK t : t = Subtypes(p)[1]
  OBVIOUS
<1>3. PICK words \in Contents(t), k \in BestFit(free_memory, get_size(t)) :
                AllocateAt(get_size(t), k) /\ mem' = Write(mem, k.addr, words) /\ Hold(k.addr, p)
  BY <1>1, <1>2
<1> DEFINE a == k.addr
           n == Ref(a, p)
<1>4. Typed /\ Shape(G, rk)
  BY WorldFacts
<1>5. p \in HeapTypes(G) /\ p \in Nat /\ IsHeapType(p) /\ p \in 0 .. special_value /\ Ref(p, type_pointer) \in G
  <2>1. p \in FieldlessTypes \cup HeapTypes(G)
    BY KnownIn
  <2>2. p \notin FieldlessTypes
    BY <1>1, Fieldless, Tags
  <2>3. Ref(p, type_pointer) \in G
    BY <2>1, KnownIn
  <2>4. p \in 0 .. special_value
    BY <2>3, <1>4, Refs DEF Shape
  <2> QED
    BY <2>1, <2>2, <2>3, <2>4 DEF HeapTypes
<1>6. OneWord(t) /\ t \in FieldlessTypes \cup HeapTypes(G) /\ t \in Nat /\ get_size(t) = 1
  <2>1. MadeType(rk, p) /\ ver(p) = Word(p) /\ \A u \in Range(Subtypes(p)) : u \in FieldlessTypes \cup HeapTypes(G)
    BY <1>4, <1>5, TypeFacts
  <2>2. Subtypes(p) = <<Word(p + 1)>> /\ t = Word(p + 1) /\ Range(Subtypes(p)) = {Word(p + 1)}
    BY <1>1, <1>2, <1>4, <1>5, <2>1, SubtypesByTag DEF Typed
  <2>3. OneWord(t) /\ t \in FieldlessTypes \cup HeapTypes(G)
    BY <2>1, <2>2 DEF MadeType
  <2>4. t \in Nat
    BY <2>3, Tags DEF HeapTypes
  <2> QED
    BY <2>3, <2>4, RefsByType
<1>7. words \in Seq(0 .. special_value) /\ Len(words) = 1 /\ Ref(words[1], t) \in G
  <2>1. ver(t) # con_vec
    BY <1>6, Tags, Fieldless DEF OneWord
  <2> QED
    BY <1>6, <2>1, ContentsIn
<1>8. /\ HeapInv' /\ phase' = "program" /\ MemTyped' /\ Moves(G, {})
      /\ Issued(k, 1) \in objects' /\ \A r \in G : Solid(r) => r.val # a
      /\ a \in 0 .. special_value /\ a # 0 /\ a \in Nat
      /\ \A i \in 1 .. 1 : Word(a + i - 1)' = words[i]
  <2>1. UNCHANGED <<type_roots, functionVars>> /\ 1 \in Nat \ {0} /\ k \in BestFit(free_memory, 1)
    BY <1>6 DEF new_pointer, programUnchanged
  <2>2. AllocateAt(1, k) /\ Len(words) <= 1 /\ mem' = Write(mem, k.addr, words)
    BY <1>3, <1>6, <1>7
  <2> QED
    BY <1>7, <2>1, <2>2, NewObject
<1>9. Word(a)' = words[1]
  <2>1. a + 1 - 1 = a
    BY <1>8
  <2> QED
    BY <1>8, <2>1
<1>10. n.val = a /\ n.type = p /\ n \in Reference
  BY <1>5, <1>8, Refs
<1>11. TypeKept(p) /\ TypeKept(t)
  BY <1>4, <1>5, <1>6, <1>8, MovesTypes
<1>12. ver(p)' = pointer /\ (Subtypes(p)[1])' = t /\ OneWord(t)' /\ get_size(t)' = 1
  BY <1>1, <1>2, <1>6, <1>11, OneWordKept DEF TypeKept
<1>13. Sound(rk, n)' /\ Leads(n)'
  <2>1. BlockOf(n)' = Issued(k, 1)
    <3>1. Extent(n)' = get_size(Subtypes(p)[1])'
      BY <1>5, <1>8, <1>10, <1>12, ExtentByKindNext DEF IsHeapType, never_reached, pointer
    <3>2. get_size(Subtypes(p)[1])' = get_size(t)'
      BY <1>12 DEF get_size, ver, Word, Pool, PoolEnd, IsHeapType, never_reached, con_vec
    <3> QED
      BY <1>10, <1>12, <3>1, <3>2 DEF BlockOf, Issued, Ref
  <2>2. SoundObject(rk, n)'
    BY <1>5, <1>10, <1>12, Tags DEF SoundObject, AST_pointer, type_pointer,
       dynamic_object, IsHeapType, never_reached, vector
  <2>3. OneWord(n.type)' /\ n.type \notin {integer, function_pointer, type_pointer}'
    BY <1>5, <1>10, <1>12, Tags DEF OneWord, IsHeapType, never_reached, integer, function_pointer, type_pointer, pointer
  <2> QED
    BY <1>8, <1>10, <2>1, <2>2, <2>3, SoundNewNext
<1>14. Targets(n)' = {Ref(words[1], t)}
  <2>1. OneWord(Subtypes(p)[1])'
    BY <1>12 DEF OneWord, IsHeapType, never_reached, FieldlessTypes, vector, pointer, ver, Word, Pool, PoolEnd,
       integer, dynamic_object, AST_pointer, type_pointer, function_pointer
  <2>2. Targets(n)' = {Ref(Word(a), Subtypes(p)[1])'}
    BY <1>5, <1>8, <1>10, <1>12, <1>13, <2>1, HeapTargetsNext DEF IsHeapType, never_reached, pointer, Reference
  <2> QED
    BY <1>9, <1>12, <2>2 DEF Ref
<1>15. Fits(G \cup {n}, rk, n)' /\ OnMenu(n)'
  BY <1>5, <1>7, <1>10, <1>13, <1>14, Tags DEF Fits, OnMenu, IsHeapType, never_reached, AST_pointer,
       function_pointer, Ref, type_pointer
<1>16. copier = NoCopy /\ UNCHANGED <<type_hash_table, type_roots, event_roots, functionVars, traceVars, copier, error>>
  BY DEF new_pointer, Running, programUnchanged
<1>17. p # type_pointer /\ p # function_pointer
  BY <1>5, Tags
<1>18. held' \subseteq held \cup {Ref(a, p)}
  BY <1>3, Held
<1>19. \A q \in Targets(Ref(a, p))' : Visible(q)
  BY <1>3, <1>6, <1>14, ContentsAreVisible
<1> QED
  BY <1>5, <1>8, <1>15, <1>16, <1>17, <1>18, <1>19, ObjectJoins

\* Where an object of a structure leads.
LEMMA ManyTargets ==
    \A r \in Reference, t \in Nat :
        MemTyped /\ Leads(r) /\ r.type = dynamic_object /\ Word(r.val) = t /\ IsHeapType(t) /\ ver(t) = con_vec =>
            Targets(r) = {Ref(t, type_pointer)} \cup {Ref(Word(r.val + i), Subtypes(t)[i]) : i \in 1 .. Word(t + 1)}
BY HeapTargets

\* The same, in the next state.
LEMMA ManyTargetsNext ==
    (\A r \in Reference, t \in Nat :
        MemTyped /\ Leads(r) /\ r.type = dynamic_object /\ Word(r.val) = t /\ IsHeapType(t) /\ ver(t) = con_vec =>
            Targets(r) = {Ref(t, type_pointer)} \cup {Ref(Word(r.val + i), Subtypes(t)[i]) : i \in 1 .. Word(t + 1)})'
BY ManyTargets, PTL

\* A new dynamic object joins the world.
LEMMA DynamicStep ==
    ASSUME HeapInv, Typings, NEW G, NEW rk, World(G, rk), copier = NoCopy, programUnchanged,
           NEW t \in FieldlessTypes \cup HeapTypes(G), DynamicWith(t)
    PROVE  ProgramInv'
<1>1. PICK ws \in Contents(t), k \in BestFit(free_memory, get_size(t) + 1) :
         AllocateAt(get_size(t) + 1, k) /\ mem' = Write(mem, k.addr, <<t>> \o ws) /\ Hold(k.addr, dynamic_object)
  BY DEF DynamicWith
<1>2. PICK m, words : m = get_size(t) /\ words = <<t>> \o ws
  OBVIOUS
<1> DEFINE a == k.addr
           n == Ref(a, dynamic_object)
<1>3. Typed /\ Shape(G, rk)
  BY WorldFacts
<1>4. /\ ws \in Seq(0 .. special_value) /\ Len(ws) = m /\ m \in Nat \ {0}
      /\ \/ /\ OneWord(t) /\ Len(ws) = 1 /\ Ref(ws[1], t) \in G
         \/ /\ IsHeapType(t) /\ ver(t) = con_vec /\ Len(ws) = Word(t + 1)
            /\ \A i \in 1 .. Word(t + 1) : Ref(ws[i], Subtypes(t)[i]) \in G
  BY <1>2, ContentsIn
<1>5. t \in Nat /\ t \in 0 .. special_value /\ t # 0 /\ Ref(t, type_pointer) \in G
  <2>1. Ref(t, type_pointer) \in G
    BY KnownIn
  <2>2. t \in 0 .. special_value
    BY <2>1, <1>3, Refs DEF Shape
  <2>3. t # 0
    BY Tags DEF HeapTypes
  <2> QED
    BY <2>1, <2>2, <2>3, Sizes
<1>6. words \in Seq(0 .. special_value) /\ Len(words) = m + 1 /\ words[1] = t /\ \A i \in 1 .. m : words[i + 1] = ws[i]
  BY <1>2, <1>4, <1>5, ConsFacts
<1>7. /\ HeapInv' /\ phase' = "program" /\ MemTyped' /\ Moves(G, {})
      /\ Issued(k, m + 1) \in objects' /\ \A r \in G : Solid(r) => r.val # a
      /\ a \in 0 .. special_value /\ a # 0 /\ a \in Nat
      /\ \A i \in 1 .. m + 1 : Word(a + i - 1)' = words[i]
  <2>1. m + 1 \in Nat \ {0} /\ Len(words) <= m + 1 /\ UNCHANGED <<type_roots, functionVars>>
    BY <1>4, <1>6 DEF programUnchanged
  <2>2. k \in BestFit(free_memory, m + 1) /\ AllocateAt(m + 1, k) /\ mem' = Write(mem, k.addr, words)
    BY <1>1, <1>2
  <2>3. \A i \in 1 .. Len(words) : Word(a + i - 1)' = words[i]
    BY <1>6, <2>1, <2>2, NewObject
  <2>4. /\ HeapInv' /\ phase' = "program" /\ MemTyped' /\ Moves(G, {})
        /\ Issued(k, m + 1) \in objects' /\ \A r \in G : Solid(r) => r.val # a
        /\ a \in 0 .. special_value /\ a # 0 /\ a \in Nat
    BY <1>6, <2>1, <2>2, NewObject
  <2> QED
    BY <1>6, <2>3, <2>4
<1>8. Word(a)' = t /\ \A i \in 1 .. m : Word(a + i)' = ws[i]
  <2>1. a + 1 - 1 = a /\ \A i \in 1 .. m : i + 1 \in 1 .. m + 1 /\ a + (i + 1) - 1 = a + i
    BY <1>4, <1>7
  <2> QED
    BY <1>4, <1>6, <1>7, <2>1
<1>9. n.val = a /\ n.type = dynamic_object /\ n \in Reference
  BY <1>7, Refs, Tags, Sizes
<1>10. TypeKept(t)
  BY <1>3, <1>7, MovesTypes
<1>11. Sound(rk, n)' /\ Leads(n)'
  <2>1. BlockOf(n)' = Issued(k, m + 1)
    <3>1. Extent(n)' = get_size(Word(n.val))' + 1
      BY <1>7, <1>9, ExtentByKindNext DEF dynamic_object
    <3>2. get_size(Word(n.val))' = get_size(t)'
      BY <1>8, <1>9 DEF get_size, ver, Word, Pool, PoolEnd, IsHeapType, never_reached, con_vec
    <3>3. get_size(t)' = m
      BY <1>2, <1>10 DEF TypeKept
    <3> QED
      BY <1>9, <3>1, <3>2, <3>3 DEF BlockOf, Issued, Ref
  <2>2. SoundObject(rk, n)'
    BY <1>5, <1>8, <1>9, Tags DEF SoundObject, AST_pointer, type_pointer,
       dynamic_object, IsHeapType, never_reached
  <2>3. OneWord(n.type)' /\ n.type \notin {integer, function_pointer, type_pointer}'
    BY <1>9 DEF OneWord, FieldlessTypes, AST_pointer, integer, function_pointer, type_pointer, dynamic_object
  <2> QED
    BY <1>7, <1>9, <2>1, <2>2, <2>3, SoundNewNext
<1>12. Targets(n)' \subseteq G /\ \A q \in Targets(n)' : Visible(q)
  <2>0. Visible(Ref(t, type_pointer))
    BY Refs, Tags DEF Visible
  <2>1. CASE OneWord(t) /\ Len(ws) = 1 /\ Ref(ws[1], t) \in G
    <3>1. OneWord(t)' /\ m = 1
      BY <2>1, <1>4, <1>10, OneWordKept
    <3>2. Word(a + 1)' = ws[1]
      BY <1>8, <3>1
    <3>3. OneWord(Word(n.val))'
      BY <1>8, <1>9, <3>1 DEF OneWord, IsHeapType, never_reached, FieldlessTypes, vector, pointer, ver, Word, Pool, PoolEnd,
         integer, dynamic_object, AST_pointer, type_pointer, function_pointer
    <3>4. Targets(n)' = {Ref(Word(n.val), type_pointer)', Ref(Word(n.val + 1), Word(n.val))'}
      BY <1>7, <1>9, <1>11, <3>3, HeapTargetsNext DEF dynamic_object, Reference
    <3>5. Targets(n)' = {Ref(t, type_pointer), Ref(ws[1], t)}
      BY <1>8, <1>9, <3>2, <3>4 DEF Ref, type_pointer
    <3>6. Visible(Ref(ws[1], t))
      BY <1>1, <2>1, ContentsAreVisible
    <3> QED
      BY <1>5, <2>0, <2>1, <3>5, <3>6
  <2>2. CASE /\ IsHeapType(t) /\ ver(t) = con_vec /\ Len(ws) = Word(t + 1)
             /\ \A i \in 1 .. Word(t + 1) : Ref(ws[i], Subtypes(t)[i]) \in G
    <3>1. ver(t)' = con_vec /\ Subtypes(t)' = Subtypes(t) /\ get_size(t)' = m
      BY <1>2, <1>10, <2>2 DEF TypeKept
    <3>2. Word(t + 1)' = m /\ Word(t + 1) = m
      <4>1. get_size(t)' = Word(t + 1)'
        BY <1>5, <3>1 DEF get_size, con_vec
      <4> QED
        BY <3>1, <4>1, <2>2, <1>4
    <3>3. \A x : x = t => /\ (IsHeapType(x) /\ ver(x) = con_vec)' /\ Subtypes(x)' = Subtypes(t) /\ Word(x + 1)' = m
      BY <2>2, <3>1, <3>2 DEF IsHeapType, never_reached, con_vec
    <3>4. Targets(n)' = {Ref(t, type_pointer)} \cup {Ref(Word(a + i)', Subtypes(t)[i]) : i \in 1 .. m}
      <4>2. Targets(n)' = {Ref(t, type_pointer)} \cup
                          {Ref(Word(n.val + i)', (Subtypes(t)')[i]) : i \in 1 .. Word(t + 1)'}
        BY <1>5, <1>7, <1>8, <1>9, <1>11, <2>2, <3>3, ManyTargetsNext DEF dynamic_object, Reference, Ref, type_pointer
      <4> QED
        BY <1>9, <3>1, <3>2, <4>2
    <3>5. \A i \in 1 .. m : Ref(Word(a + i)', Subtypes(t)[i]) = Ref(ws[i], Subtypes(t)[i])
      BY <1>8
    <3>6. \A i \in 1 .. m : Visible(Ref(ws[i], Subtypes(t)[i]))
      BY <1>1, <2>2, <3>2, ContentsAreVisible
    <3> QED
      BY <1>5, <2>0, <2>2, <3>2, <3>4, <3>5, <3>6
  <2> QED
    BY <1>4, <2>1, <2>2
<1>13. Fits(G \cup {n}, rk, n)' /\ OnMenu(n)'
  BY <1>9, <1>11, <1>12, Tags DEF Fits, OnMenu, IsHeapType, never_reached, AST_pointer,
       function_pointer, Ref, dynamic_object
<1>14. UNCHANGED <<type_hash_table, type_roots, event_roots, functionVars, traceVars, copier, error>>
  BY DEF programUnchanged
<1>15. dynamic_object \in 0 .. special_value /\ dynamic_object # type_pointer /\ dynamic_object # function_pointer
  BY Tags, Sizes
<1>16. held' \subseteq held \cup {Ref(a, dynamic_object)}
  BY <1>1, Held
<1> QED
  BY <1>7, <1>12, <1>13, <1>14, <1>15, <1>16, ObjectJoins

\* The operation new_dynamic_obj keeps the world.
LEMMA NewDynamicStep ==
    ASSUME HeapInv, Typings, NEW G, NEW rk, World(G, rk), new_dynamic_obj
    PROVE  ProgramInv'
<1>1. PICK t \in Types : DynamicWith(t)
  BY DEF new_dynamic_obj
<1>2. t \in FieldlessTypes \cup HeapTypes(G)
  BY KnownIn
<1> QED
  BY <1>1, <1>2, DynamicStep DEF new_dynamic_obj, Running

\* What the program knows of a function.
LEMMA FunctionIn ==
    ASSUME HeapInv, Typings, NEW G, NEW rk, World(G, rk), NEW f \in Objects(function_pointer)
    PROVE  /\ f \in Slots /\ f # 0 /\ Ref(f, function_pointer) \in G /\ functions[f].code \subseteq G
           /\ Ref(functions[f].the_AST, AST_pointer) \in G
           /\ Ref(functions[f].return_type, type_pointer) \in G /\ f \in Flagged(function_pool_flags)
           /\ functions[f].return_type # 0 => functions[f].return_type \in FieldlessTypes \cup HeapTypes(G)
<1> DEFINE r == Ref(f, function_pointer)
<1>1. f # 0 /\ r \in G /\ r.val = f /\ r.type = function_pointer
  BY KnownIn, Refs
<1>2. Shape(G, rk) /\ Sound(rk, r) /\ OnMenu(r)
  BY <1>1 DEF World, Shape, AllOnMenu
<1>3. f \in Flagged(function_pool_flags) /\ f \in Slots
  BY <1>1, <1>2, FlaggedSlots DEF Sound
<1>4. Leads(r)
  BY <1>1, <1>3, Tags DEF Leads
<1>5. Ref(functions[f].return_type, type_pointer) \in Targets(r) /\ functions[f].code \subseteq Targets(r)
  BY <1>1, <1>4, TargetsByKind
<1>6. functions[f].code \subseteq G
  BY <1>1, <1>2, <1>5 DEF Shape, Closed
<1>7. PICK t : t = functions[f].return_type
  OBVIOUS
<1>8. Ref(t, type_pointer) \in G
  BY <1>1, <1>2, <1>5, <1>6, <1>7 DEF Shape, Closed
<1>9. ASSUME t # 0
      PROVE  t \in FieldlessTypes \cup HeapTypes(G)
  <2>1. Ref(t, type_pointer) \in Reference /\ Sound(rk, Ref(t, type_pointer))
    BY <1>2, <1>8 DEF Shape
  <2>2. t \in Nat
    BY <2>1, Refs, Sizes
  <2> QED
    BY <1>8, <1>9, <2>1, <2>2, Refs DEF Sound, HeapTypes
<1> QED
  BY <1>1, <1>2, <1>3, <1>6, <1>7, <1>8, <1>9 DEF Shape, ASTsKept

\* What a compilation may return.
LEMMA ReturnTypeIn ==
    ASSUME HeapInv, Typings, NEW G, NEW rk, World(G, rk), NEW t \in ReturnTypes
    PROVE  Ref(t, type_pointer) \in G
<1>1. CASE t = 0
  BY <1>1, WorldFacts DEF Base, FieldlessTypes
<1>2. CASE t \in Types
  BY <1>2, KnownIn
<1> QED
  BY <1>1, <1>2 DEF ReturnTypes

------------------------------------------------------------------------------
(* Objects of two blocks *)

\* The vector at v leads to its first n elements, no further.
VectorLeads(v, t, u, n) == \A x \in Targets(Ref(v, t)) : \E i \in 1 .. n : x = Ref(Word(v + 1 + i), u)

\* A vector as a step leaves it.
LEMMA VectorOfFits ==
    ASSUME HeapInv, Typings, NEW G, NEW rk, World(G, rk), NEW D, Moves(G, D), NEW H, G \subseteq H,
           NEW t \in HeapTypes(G), ver(t) = vector, NEW u, u = Subtypes(t)[1],
           NEW v \in 1 .. special_value, NEW n \in Nat, NEW m \in Nat, n <= m,
           Word(v)' = n, Word(v + 1)' = m, [addr |-> v, size |-> 2 + m] \in objects',
           \A i \in 1 .. n : Ref(Word(v + 1 + i)', u) \in H
    PROVE  Fits(H, rk, Ref(v, t))' /\ OnMenu(Ref(v, t))' /\ VectorLeads(v, t, u, n)'
<1> DEFINE r == Ref(v, t)
<1>2. Typed /\ Shape(G, rk)
  BY WorldFacts
<1>3. IsHeapType(t) /\ Ref(t, type_pointer) \in G
  BY DEF HeapTypes
<1>4. t \in 0 .. special_value /\ t \in Nat
  BY <1>2, <1>3, Refs, Sizes DEF HeapTypes, Shape
<1>5. MemTyped' /\ type_roots' = type_roots /\ TypeKept(t)
  BY <1>2, <1>4, MovesTypes DEF Moves
<1>6. ver(t)' = vector /\ (Subtypes(t)[1])' = u /\ IsHeapType(t)'
  BY <1>3, <1>5 DEF TypeKept, IsHeapType, never_reached
<1>7. r.val = v /\ r.type = t /\ r \in Reference /\ v # 0
  BY <1>4, Refs, Sizes
<1>8. Sound(rk, r)' /\ Leads(r)'
  <2>1. BlockOf(r)' = [addr |-> v, size |-> 2 + m]
    <3>1. Extent(r)' = 2 + Word(v + 1)'
      BY <1>6, <1>7, ExtentByKindNext DEF IsHeapType, never_reached, vector
    <3> QED
      BY <1>7, <3>1 DEF BlockOf, Ref
  <2>2. SoundObject(rk, r)'
    BY <1>3, <1>7, Tags DEF SoundObject, AST_pointer, type_pointer, dynamic_object, IsHeapType, never_reached
  <2>3. OneWord(r.type)' /\ r.type \notin {integer, function_pointer, type_pointer}'
    BY <1>3, <1>6, <1>7, Tags DEF OneWord, IsHeapType, never_reached, integer, function_pointer, type_pointer, vector
  <2> QED
    BY <1>7, <2>1, <2>2, <2>3, SoundNewNext
<1>9. Targets(r)' = {Ref(Word(v + 1 + i)', u) : i \in 1 .. n}
  <2>1. Targets(r)' = {Ref(Word(r.val + 1 + i), Subtypes(t)[1])' : i \in 1 .. Word(r.val)'}
    BY <1>5, <1>6, <1>7, <1>8, HeapTargetsNext DEF IsHeapType, never_reached, vector, Reference
  <2>2. \A i : Ref(Word(r.val + 1 + i), Subtypes(t)[1])' = Ref(Word(v + 1 + i)', u)
    BY <1>6, <1>7 DEF Ref
  <2> QED
    BY <1>7, <2>1, <2>2
<1>10. Fits(H, rk, r)' /\ OnMenu(r)'
  BY <1>3, <1>7, <1>8, <1>9, Tags DEF Fits, OnMenu, IsHeapType, never_reached, AST_pointer,
       function_pointer, Ref, type_pointer
<1>11. VectorLeads(v, t, u, n)'
  BY <1>9 DEF VectorLeads, Ref
<1> QED
  BY <1>10, <1>11

\* The type of the vectors of ASTs is a type of the world.
LEMMA RootIsVector ==
    ASSUME HeapInv, Typings, NEW G, NEW rk, World(G, rk), NEW t, t = type_roots[1]
    PROVE  t \in HeapTypes(G) /\ ver(t) = vector /\ Subtypes(t)[1] = AST_pointer
<1>1. Typed /\ Shape(G, rk)
  BY WorldFacts
<1>2. IsHeapType(t) /\ ver(t) = vector /\ Subtypes(t) = <<AST_pointer>> /\ Ref(t, type_pointer) \in G
  BY <1>1 DEF Shape, Root
<1> QED
  BY <1>1, <1>2, Refs, Sizes DEF HeapTypes, Shape

\* A vector of ASTs as a step leaves it.
LEMMA VectorFits ==
    ASSUME HeapInv, Typings, NEW G, NEW rk, World(G, rk), NEW D, Moves(G, D), NEW H, G \subseteq H,
           NEW v \in 1 .. special_value, NEW n \in Nat, NEW m \in Nat, n <= m,
           Word(v)' = n, Word(v + 1)' = m, [addr |-> v, size |-> 2 + m] \in objects',
           \A i \in 1 .. n : Ref(Word(v + 1 + i)', AST_pointer) \in H
    PROVE  Fits(H, rk, Ref(v, type_roots[1]))' /\ OnMenu(Ref(v, type_roots[1]))'
<1>1. PICK t, u : t = type_roots[1] /\ u = AST_pointer
  OBVIOUS
<1>2. t \in HeapTypes(G) /\ ver(t) = vector /\ u = Subtypes(t)[1]
  BY <1>1, RootIsVector
<1>3. type_roots' = type_roots
  BY DEF Moves
<1>4. Fits(H, rk, Ref(v, t))' /\ OnMenu(Ref(v, t))'
  BY <1>1, <1>2, VectorOfFits
<1>5. (Fits(H, rk, Ref(v, type_roots[1])) /\ OnMenu(Ref(v, type_roots[1])))' = (Fits(H, rk, Ref(v, t)) /\ OnMenu(Ref(v, t)))'
  BY <1>1, <1>3
<1> QED
  BY <1>4, <1>5

\* A new AST is sound and leads into H.
LEMMA ASTFits ==
    ASSUME MemTyped', NEW H, NEW rk, NEW a \in Nat \ {0}, IsTag(Word(a))', Word(a)' = imv => "imv" \in Menu,
           Word(a)' = basicblock => Word(a + 1)' # 0 /\ "basicblock" \in Menu,
           [addr |-> a, size |-> get_full_size_of_AST(Word(a))'] \in objects',
           Targets(Ref(a, AST_pointer))' \subseteq H
    PROVE  Fits(H, rk, Ref(a, AST_pointer))' /\ OnMenu(Ref(a, AST_pointer))' /\ Leads(Ref(a, AST_pointer))'
<1> DEFINE n == Ref(a, AST_pointer)
<1>1. n.val = a /\ n.type = AST_pointer
  BY Refs
<1>2. Sound(rk, n)' /\ Leads(n)'
  <2>1. BlockOf(n)' = [addr |-> a, size |-> get_full_size_of_AST(Word(a))']
    <3>1. Extent(n)' = get_full_size_of_AST(Word(n.val))'
      BY <1>1, ExtentByKindNext DEF AST_pointer
    <3>2. get_full_size_of_AST(Word(n.val))' = get_full_size_of_AST(Word(a))'
      BY <1>1 DEF get_full_size_of_AST, get_field_size_of_AST, Word, Pool, PoolEnd, imv, basicblock
    <3> QED
      BY <1>1, <3>1, <3>2 DEF BlockOf, Ref
  <2>2. SoundObject(rk, n)'
    BY <1>1, Tags DEF SoundObject, AST_pointer, type_pointer, basicblock,
       dynamic_object, IsHeapType, never_reached
  <2>3. OneWord(n.type)' /\ n.type \notin {integer, function_pointer, type_pointer}'
    BY <1>1 DEF OneWord, FieldlessTypes, AST_pointer, integer, function_pointer, type_pointer, dynamic_object
  <2> QED
    BY <1>1, <2>1, <2>2, <2>3, SoundNewNext
<1>3. Fits(H, rk, n)' /\ OnMenu(n)'
  BY <1>1, <1>2, Tags DEF Fits, OnMenu, IsHeapType, never_reached, AST_pointer,
       function_pointer, imv, basicblock, Ref
<1> QED
  BY <1>2, <1>3

\* Where the words of an AST lead in the next state.
LEMMA ASTLeadsNext ==
    ASSUME MemTyped', NEW a \in Nat \ {0}, Leads(Ref(a, AST_pointer))'
    PROVE  /\ Word(a)' = basicblock =>
                 Targets(Ref(a, AST_pointer))' =
                    {Ref(Word(a + 1)', type_roots'[1])} \cup
                    {Ref(Word(Word(a + 1) + 1 + i)', AST_pointer) : i \in 1 .. Word(Word(a + 1))'}
           /\ Word(a)' \in DOMAIN ASTFields =>
                 Targets(Ref(a, AST_pointer))' = {Ref(Word(a + i)', AST_pointer) : i \in 1 .. ASTFields[Word(a)']}
BY ASTTargetsNext DEF basicblock, AST_pointer, Ref

-----------------------------------------------------------------------------
\* A step that makes two objects, as it leaves the memory m.
TwoNew(G, k, first, l, second, w1, w2, m) ==
    /\ HeapInv' /\ phase' = "program" /\ m \in Memories /\ objects \subseteq objects'
    /\ Issued(k, first) \in objects' /\ Issued(l, second) \in objects'
    /\ \A r \in G : Solid(r) => r.val # k.addr /\ r.val # l.addr
    /\ k.addr \in 1 .. special_value /\ l.addr \in 1 .. special_value /\ k.addr # l.addr
    /\ \A i \in 1 .. Len(w1) : WordIn(m, k.addr + i - 1) = w1[i]
    /\ \A i \in 1 .. Len(w2) : WordIn(m, l.addr + i - 1) = w2[i]
    /\ \A w : WordIn(m, w) = Word(w) \/ \A o \in objects : w \notin Words(o)
    /\ \A o \in objects : \A w \in Words(o) : \A i \in 1 .. first : w # k.addr + i - 1
    /\ \A o \in objects : \A w \in Words(o) : \A i \in 1 .. second : w # l.addr + i - 1

\* Two new objects.
LEMMA NewTwo ==
    ASSUME HeapInv, Typings, NEW G, NEW rk, World(G, rk),
           NEW first \in Nat \ {0}, NEW k \in BestFit(free_memory, first),
           NEW second \in Nat \ {0}, NEW l \in BestFit(Taken(free_memory, k, first), second),
           AllocateTwoAt(first, k, second, l),
           NEW w1 \in Seq(0 .. special_value), Len(w1) <= first,
           NEW w2 \in Seq(0 .. special_value), Len(w2) <= second,
           NEW m, m = Write(Write(mem, k.addr, w1), l.addr, w2)
    PROVE  TwoNew(G, k, first, l, second, w1, w2, m)
<1> USE DEF TwoNew
<1> DEFINE b == Issued(k, first)
           c == Issued(l, second)
           m1 == Write(mem, k.addr, w1)
<1>1. /\ HeapInv' /\ phase' = "program" /\ b \in Block /\ c \in Block /\ objects' = objects \cup {b, c}
      /\ \A o \in objects : Apart(o, b) /\ Apart(o, c)
      /\ Apart(b, c)
  BY AllocateTwoAtStep
<1>2. b.addr = k.addr /\ b.size = first /\ c.addr = l.addr /\ c.size = second
  BY DEF Issued
<1>3. /\ \A o \in objects : Words(o) \cap Words(b) = {} /\ Words(o) \cap Words(c) = {}
      /\ \A r \in G : Solid(r) => r.val # b.addr /\ r.val # c.addr
      /\ b.addr \in 0 .. special_value /\ b.addr # 0 /\ b.addr \in Nat /\ b.addr \in Words(b)
      /\ c.addr \in 0 .. special_value /\ c.addr # 0 /\ c.addr \in Nat /\ c.addr \in Words(c)
  BY <1>1, Elsewhere
<1>4. Words(b) \cap Words(c) = {}
  BY <1>1, ApartWords
<1>5. mem \in Memories
  BY DEF Typings, MemTyped, Memories
<1>6. /\ m1 \in Memories
      /\ \A i \in 1 .. Len(w1) : WordIn(m1, b.addr + i - 1) = w1[i]
      /\ \A w : w \notin Words(b) => WordIn(m1, w) = WordIn(mem, w)
  BY <1>1, <1>2, <1>5, WriteIn
<1>7. m = Write(m1, c.addr, w2)
  BY <1>2
<1> HIDE DEF m1
<1>8. /\ m \in Memories
      /\ \A i \in 1 .. Len(w2) : WordIn(m, c.addr + i - 1) = w2[i]
      /\ \A w : w \notin Words(c) => WordIn(m, w) = WordIn(m1, w)
  BY <1>1, <1>2, <1>6, <1>7, WriteIn
<1>9. Len(w1) \in Nat /\ Len(w2) \in Nat
  OBVIOUS
<1>10. /\ \A i \in 1 .. first : k.addr + i - 1 \in Words(b)
       /\ \A i \in 1 .. second : l.addr + i - 1 \in Words(c)
  BY <1>2, <1>3 DEF Words
<1>11. \A i \in 1 .. Len(w1) : WordIn(m, k.addr + i - 1) = w1[i]
  <2> SUFFICES ASSUME NEW i \in 1 .. Len(w1)
               PROVE  WordIn(m, k.addr + i - 1) = w1[i]
    OBVIOUS
  <2>1. i \in 1 .. first
    BY <1>9
  <2>2. k.addr + i - 1 \notin Words(c)
    BY <1>4, <1>10, <2>1
  <2> QED
    BY <1>2, <1>6, <1>8, <2>2
<1>12. \A w : WordIn(m, w) = Word(w) \/ \A o \in objects : w \notin Words(o)
  BY <1>3, <1>6, <1>8, WordOf
<1>13. k.addr # l.addr
  BY <1>2, <1>3, <1>4
<1> QED
  BY <1>1, <1>2, <1>3, <1>8, <1>10, <1>11, <1>12, <1>13

\* An operation that changes D and adds N.
LEMMA OperationGrows ==
    ASSUME HeapInv, Typings, NEW G, NEW rk, World(G, rk), HeapInv', phase' = "program",
           NEW D \in SUBSET G, NEW N \in SUBSET Reference,
           Moves(G, D), \A r \in D \cup N : Fits(G \cup N, rk, r)' /\ OnMenu(r)', Distinct(G, N),
           \A r \in N : r.type # type_pointer, held' \subseteq G \cup N, copier = NoCopy,
           Guarded(G \cup N)',
           UNCHANGED <<type_hash_table, type_roots, event_roots, functionVars, traceVars, copier, error>>
    PROVE  ProgramInv'
<1>1. RootRefs' \cup held' \subseteq G \cup N
  BY RootsStay DEF World
<1>2. CopierIn(G \cup N)'
  BY DEF CopierIn, NoCopy
<1>3. World(G \cup N, rk)'
  BY <1>1, <1>2, ProgramGrows
<1>4. Typings'
  <2>1. held' \subseteq Reference /\ type_hash_table' \subseteq Nat /\ MemTyped'
    BY WorldFacts DEF Typings, Moves
  <2> QED
    BY <2>1, TypingsKept, FunctionsStay DEF Typings
<1> QED
  BY <1>3, <1>4 DEF ProgramInv

\* The words of a new vector.
LEMMA ReservedFacts ==
    ASSUME NEW n \in Nat
    PROVE  ReservedSize(n) \in Nat /\ ReservedSize(n) > n
<1>1. \A x \in Nat : x \div 2 \in Nat
  OBVIOUS
<1> QED
  BY <1>1, CollectorAssumption DEF ReservedSize

\* The words of a new vector.
LEMMA VectorFacts ==
    ASSUME NEW V, NEW fields \in Seq(V), Len(fields) \in V, ReservedSize(Len(fields)) \in V
    PROVE  /\ VectorWords(fields) \in Seq(V) /\ Len(VectorWords(fields)) = Len(fields) + 2
           /\ VectorWords(fields)[1] = Len(fields) /\ VectorWords(fields)[2] = ReservedSize(Len(fields))
           /\ \A i \in 1 .. Len(fields) : VectorWords(fields)[i + 2] = fields[i]
           /\ VectorSize(fields) = 2 + ReservedSize(Len(fields)) /\ VectorSize(fields) \in Nat \ {0}
           /\ Len(VectorWords(fields)) < VectorSize(fields)
<1>1. PICK n, m : n = Len(fields) /\ m = ReservedSize(n)
  OBVIOUS
<1>2. n \in Nat /\ m \in Nat /\ m > n /\ n \in V /\ m \in V
  BY <1>1, ReservedFacts
<1>3. VectorWords(fields) = <<n, m>> \o fields
  BY <1>1 DEF VectorWords
<1>4. /\ <<n, m>> \o fields \in Seq(V) /\ Len(<<n, m>> \o fields) = n + 2
      /\ (<<n, m>> \o fields)[1] = n /\ (<<n, m>> \o fields)[2] = m
      /\ \A i \in 1 .. n : (<<n, m>> \o fields)[i + 2] = fields[i]
  BY <1>1, <1>2
<1>5. VectorSize(fields) = 2 + m
  BY <1>1 DEF VectorSize, vector_header_size
<1> QED
  BY <1>1, <1>2, <1>3, <1>4, <1>5

\* A new basicblock and its vector, as a step leaves them.
LEMMA BasicblockFits ==
    ASSUME HeapInv, Typings, NEW G, NEW rk, World(G, rk), NEW D, Moves(G, D), NEW H, G \subseteq H,
           NEW a \in 1 .. special_value, NEW v \in 1 .. special_value, NEW n \in Nat, NEW res \in Nat, n <= res,
           NEW t, t = type_roots[1], t = type_roots'[1],
           Word(a)' = basicblock, Word(a + 1)' = v, Word(v)' = n, Word(v + 1)' = res,
           \A i \in 1 .. n : Ref(Word(v + 1 + i)', AST_pointer) \in G,
           [addr |-> a, size |-> 2] \in objects', [addr |-> v, size |-> 2 + res] \in objects',
           Ref(v, t) \in H, "basicblock" \in Menu
    PROVE  /\ Fits(H, rk, Ref(v, t))' /\ OnMenu(Ref(v, t))'
           /\ Fits(H, rk, Ref(a, AST_pointer))' /\ OnMenu(Ref(a, AST_pointer))'
<1>1. Fits(H, rk, Ref(v, t))' /\ OnMenu(Ref(v, t))'
  <2>1. \A i \in 1 .. n : Ref(Word(v + 1 + i)', AST_pointer) \in H
    OBVIOUS
  <2>2. Fits(H, rk, Ref(v, type_roots[1]))' /\ OnMenu(Ref(v, type_roots[1]))'
    BY <2>1, VectorFits
  <2> QED
    BY <2>2
<1>2. MemTyped' /\ type_roots' = type_roots
  BY DEF Moves
<1>3. IsTag(Word(a))' /\ (Word(a)' = imv => "imv" \in Menu) /\ Word(a + 1)' # 0 /\ a \in Nat \ {0}
  BY Tags, Sizes DEF IsTag, imv, basicblock
<1>4. [addr |-> a, size |-> get_full_size_of_AST(Word(a))'] \in objects'
  <2>1. get_full_size_of_AST(Word(a))' = 2
    BY Tags DEF get_full_size_of_AST, get_field_size_of_AST, imv, basicblock
  <2> QED
    BY <2>1
<1>5. Leads(Ref(a, AST_pointer))'
  BY <1>3, <1>4, Tags DEF Leads, Ref, AST_pointer, integer, function_pointer, type_pointer
<1>6. Targets(Ref(a, AST_pointer))' \subseteq H
  <2>1. Targets(Ref(a, AST_pointer))' = {Ref(Word(a + 1)', type_roots'[1])} \cup
                      {Ref(Word(Word(a + 1) + 1 + i)', AST_pointer) : i \in 1 .. Word(Word(a + 1))'}
    BY <1>2, <1>3, <1>5, ASTLeadsNext
  <2>2. Word(Word(a + 1))' = n /\ \A i : Word(Word(a + 1) + 1 + i)' = Word(v + 1 + i)'
    BY DEF Word, Pool, PoolEnd
  <2>3. Targets(Ref(a, AST_pointer))' = {Ref(v, t)} \cup {Ref(Word(v + 1 + i)', AST_pointer) : i \in 1 .. n}
    BY <2>1, <2>2
  <2> QED
    BY <2>3
<1>7. Fits(H, rk, Ref(a, AST_pointer))' /\ OnMenu(Ref(a, AST_pointer))'
  BY <1>2, <1>3, <1>4, <1>6, ASTFits
<1> QED
  BY <1>1, <1>7

\* The ASTs of a sequence are in the world, and so are its words.
LEMMA FieldsIn ==
    ASSUME HeapInv, Typings, NEW G, NEW rk, World(G, rk), NEW n \in Nat,
           NEW fields \in [1 .. n -> Nullable(AST_pointer)]
    PROVE  /\ \A i \in 1 .. n : Ref(fields[i], AST_pointer) \in G
           /\ fields \in Seq(0 .. special_value) /\ Len(fields) = n
<1>1. \A i \in 1 .. n : fields[i] \in Nullable(AST_pointer) /\ AST_pointer \in FieldlessTypes
  BY DEF FieldlessTypes
<1>2. \A i \in 1 .. n : Ref(fields[i], AST_pointer) \in G
  BY <1>1, KnownIn
<1>3. \A i \in 1 .. n : Ref(fields[i], AST_pointer) \in Reference
  BY <1>2, WorldFacts
<1>4. \A i \in 1 .. n : fields[i] \in 0 .. special_value
  BY <1>3, Refs
<1>5. fields \in [1 .. n -> 0 .. special_value]
  BY <1>4
<1> QED
  BY <1>2, <1>5, FunctionIsSeq

\* The type of the vectors of ASTs is a type of the world.
LEMMA RootType ==
    ASSUME HeapInv, Typings, NEW G, NEW rk, World(G, rk), NEW t, t = type_roots[1]
    PROVE  t \in 0 .. special_value /\ t # type_pointer /\ t # integer /\ t # AST_pointer /\ IsHeapType(t)
<1>1. IsHeapType(t) /\ Ref(t, type_pointer) \in G
  BY WorldFacts DEF Shape, Root
<1>2. Ref(t, type_pointer) \in Reference
  BY <1>1, WorldFacts
<1>3. t \in 0 .. special_value
  BY <1>2, Refs
<1> QED
  BY <1>1, <1>3, Tags

\* A step that makes a basicblock and its vector, as it leaves the memory m.
BasicblockNew(G, n, fields, k, size, l, m) ==
    /\ HeapInv' /\ phase' = "program" /\ m \in Memories /\ objects \subseteq objects'
    /\ \A r \in G : Solid(r) => r.val # k.addr /\ r.val # l.addr
    /\ k.addr \in 1 .. special_value /\ l.addr \in 1 .. special_value /\ k.addr # l.addr
    /\ WordIn(m, k.addr) = basicblock /\ WordIn(m, k.addr + 1) = l.addr
    /\ WordIn(m, l.addr) = n /\ \A i \in 1 .. n : WordIn(m, l.addr + 1 + i) = fields[i]
    /\ \A w : WordIn(m, w) = Word(w) \/ \A o \in objects : w \notin Words(o)
    /\ \A o \in objects : \A w \in Words(o) : \A i \in 1 .. 2 : w # k.addr + i - 1
    /\ \A o \in objects : \A w \in Words(o) : \A i \in 1 .. size : w # l.addr + i - 1
    /\ [addr |-> k.addr, size |-> 2] \in objects'
    /\ \E res \in Nat : /\ n < res /\ WordIn(m, l.addr + 1) = res /\ size = 2 + res
                        /\ [addr |-> l.addr, size |-> 2 + res] \in objects'

\* The memory with a new basicblock for a number of fields.
LEMMA BasicblockWords ==
    ASSUME HeapInv, Typings, NEW G, NEW rk, World(G, rk), NEW n \in Nat,
           NEW fields \in Seq(0 .. special_value), Len(fields) = n,
           NEW k \in BestFit(free_memory, 2), NEW size, size = VectorSize(fields),
           NEW l \in BestFit(Taken(free_memory, k, 2), size), AllocateTwoAt(2, k, size, l),
           NEW m, m = Write(Write(mem, k.addr, <<basicblock, l.addr>>), l.addr, VectorWords(fields))
    PROVE  BasicblockNew(G, n, fields, k, size, l, m)
<1> PICK res : res = ReservedSize(n)
  OBVIOUS
<1>1. res \in Nat /\ res > n
  BY ReservedFacts
<1>2. size = 2 + res /\ size \in Nat \ {0}
  BY <1>1 DEF VectorSize, vector_header_size
<1>3. Issued(l, size) \in Block
  BY <1>2, AllocateTwoAtStep
<1>4. n \in 0 .. special_value /\ res \in 0 .. special_value
  <2>1. 2 + res <= pool_size
    BY <1>2, <1>3 DEF Block, Issued
  <2> QED
    BY <1>1, <2>1, Sizes
<1>5. PICK w1, w2 : w1 = <<basicblock, l.addr>> /\ w2 = VectorWords(fields)
  OBVIOUS
<1>6. /\ w2 \in Seq(0 .. special_value) /\ Len(w2) = n + 2 /\ Len(w2) < size
      /\ w2[1] = n /\ w2[2] = res /\ \A i \in 1 .. n : w2[i + 2] = fields[i]
  BY <1>4, <1>5, VectorFacts
<1>7. w1 \in Seq(0 .. special_value) /\ Len(w1) = 2 /\ w1[1] = basicblock /\ w1[2] = l.addr
  <2> DEFINE V == 0 .. special_value
  <2>1. basicblock \in V /\ l.addr \in V
    <3>1. Issued(l, size).addr = l.addr
      BY DEF Issued
    <3> QED
      BY <1>3, <3>1, BlockFacts, Sizes, Tags
  <2> HIDE DEF V
  <2>2. w1 \in Seq(V) /\ Len(w1) = 2 /\ w1[1] = basicblock /\ w1[2] = l.addr
    BY <1>5, <2>1, PairFacts
  <2> QED
    BY <2>2 DEF V
<1>8. m = Write(Write(mem, k.addr, w1), l.addr, w2)
  BY <1>5
<1>9. 2 \in Nat \ {0} /\ Len(w1) <= 2 /\ Len(w2) <= size
  BY <1>1, <1>2, <1>6, <1>7
<1>10. /\ HeapInv' /\ phase' = "program" /\ m \in Memories /\ objects \subseteq objects'
       /\ Issued(k, 2) \in objects' /\ Issued(l, size) \in objects'
       /\ \A r \in G : Solid(r) => r.val # k.addr /\ r.val # l.addr
       /\ k.addr \in 1 .. special_value /\ l.addr \in 1 .. special_value /\ k.addr # l.addr
       /\ \A i \in 1 .. Len(w1) : WordIn(m, k.addr + i - 1) = w1[i]
       /\ \A i \in 1 .. Len(w2) : WordIn(m, l.addr + i - 1) = w2[i]
       /\ \A w : WordIn(m, w) = Word(w) \/ \A o \in objects : w \notin Words(o)
       /\ \A o \in objects : \A w \in Words(o) : \A i \in 1 .. 2 : w # k.addr + i - 1
       /\ \A o \in objects : \A w \in Words(o) : \A i \in 1 .. size : w # l.addr + i - 1
  <2>1. TwoNew(G, k, 2, l, size, w1, w2, m)
    BY <1>2, <1>6, <1>7, <1>8, <1>9, NewTwo
  <2> QED
    BY <2>1 DEF TwoNew
<1>11. /\ WordIn(m, k.addr) = basicblock /\ WordIn(m, k.addr + 1) = l.addr
       /\ WordIn(m, l.addr) = n /\ WordIn(m, l.addr + 1) = res
       /\ \A i \in 1 .. n : WordIn(m, l.addr + 1 + i) = fields[i]
  <2> PICK a, v : a = k.addr /\ v = l.addr
    OBVIOUS
  <2>1. a + 1 - 1 = a /\ a + 2 - 1 = a + 1 /\ v + 1 - 1 = v /\ v + 2 - 1 = v + 1
        /\ \A i \in 1 .. n : v + (i + 2) - 1 = v + 1 + i /\ i + 2 \in 1 .. n + 2
    BY <1>10
  <2>2. WordIn(m, a) = w1[1] /\ WordIn(m, a + 1) = w1[2] /\ WordIn(m, v) = w2[1] /\ WordIn(m, v + 1) = w2[2]
    <3>1. \A i \in 1 .. 2 : WordIn(m, a + i - 1) = w1[i]
      BY <1>7, <1>10
    <3>2. \A i \in 1 .. n + 2 : WordIn(m, v + i - 1) = w2[i]
      BY <1>6, <1>10
    <3>3. 1 \in 1 .. 2 /\ 2 \in 1 .. 2 /\ 1 \in 1 .. n + 2 /\ 2 \in 1 .. n + 2
      OBVIOUS
    <3>4. WordIn(m, a + 1 - 1) = w1[1] /\ WordIn(m, a + 2 - 1) = w1[2]
      BY <3>1, <3>3
    <3>5. WordIn(m, v + 1 - 1) = w2[1] /\ WordIn(m, v + 2 - 1) = w2[2]
      BY <3>2, <3>3
    <3> QED
      BY <2>1, <3>4, <3>5
  <2>3. \A i \in 1 .. n : WordIn(m, v + 1 + i) = w2[i + 2]
    BY <1>6, <1>10, <2>1
  <2> QED
    BY <1>6, <1>7, <2>2, <2>3
<1>12. [addr |-> k.addr, size |-> 2] \in objects' /\ [addr |-> l.addr, size |-> 2 + res] \in objects'
  BY <1>2, <1>10 DEF Issued
<1> QED
  BY <1>1, <1>2, <1>10, <1>11, <1>12 DEF BasicblockNew

\* The operation new_basicblock keeps the world.
LEMMA NewBasicblockStep ==
    ASSUME HeapInv, Typings, NEW G, NEW rk, World(G, rk), new_basicblock
    PROVE  ProgramInv'
<1>0. PICK n \in 0 .. MaxFields : \E fields \in [1 .. n -> Nullable(AST_pointer)] :
        \E k \in BestFit(free_memory, 2) :
            \E l \in BestFit(Taken(free_memory, k, 2), VectorSize(fields)) :
                BasicblockAt(k, l, fields) /\ Hold(k.addr, AST_pointer)
  BY DEF new_basicblock
<1>1. PICK fields \in [1 .. n -> Nullable(AST_pointer)], k \in BestFit(free_memory, 2) :
            \E l \in BestFit(Taken(free_memory, k, 2), VectorSize(fields)) :
                BasicblockAt(k, l, fields) /\ Hold(k.addr, AST_pointer)
  BY <1>0
<1> PICK size : size = VectorSize(fields)
  OBVIOUS
<1>2. PICK l \in BestFit(Taken(free_memory, k, 2), size) :
                BasicblockAt(k, l, fields) /\ Hold(k.addr, AST_pointer)
  BY <1>1
<1>3. n \in Nat /\ Shape(G, rk) /\ Typed
  BY WorldFacts
<1>4. fields \in Seq(0 .. special_value) /\ Len(fields) = n /\ \A i \in 1 .. n : Ref(fields[i], AST_pointer) \in G
  BY <1>3, FieldsIn
<1>5. PICK m : m = mem'
  OBVIOUS
<1>6. /\ AllocateTwoAt(2, k, size, l)
      /\ m = Write(Write(mem, k.addr, <<basicblock, l.addr>>), l.addr, VectorWords(fields))
  BY <1>2, <1>5 DEF BasicblockAt
<1>7. PICK a, v : a = k.addr /\ v = l.addr
  OBVIOUS
<1>8. /\ HeapInv' /\ phase' = "program" /\ m \in Memories /\ objects \subseteq objects'
      /\ \A r \in G : Solid(r) => r.val # a /\ r.val # v
      /\ a \in 1 .. special_value /\ v \in 1 .. special_value /\ a # v
      /\ WordIn(m, a) = basicblock /\ WordIn(m, a + 1) = v
      /\ WordIn(m, v) = n /\ \A i \in 1 .. n : WordIn(m, v + 1 + i) = fields[i]
      /\ \A w : WordIn(m, w) = Word(w) \/ \A o \in objects : w \notin Words(o)
      /\ [addr |-> a, size |-> 2] \in objects'
      /\ \E res \in Nat : /\ n < res /\ WordIn(m, v + 1) = res /\ size = 2 + res
                          /\ [addr |-> v, size |-> 2 + res] \in objects'
  <2>1. BasicblockNew(G, n, fields, k, size, l, m)
    BY <1>3, <1>4, <1>6, BasicblockWords
  <2> QED
    BY <1>7, <2>1 DEF BasicblockNew
<1>9. PICK res \in Nat : /\ n < res /\ WordIn(m, v + 1) = res
                         /\ [addr |-> v, size |-> 2 + res] \in objects'
  BY <1>8
<1>10. \A w : Word(w)' = WordIn(m, w)
  BY <1>5, WordOfNext
<1>11. "basicblock" \in Menu /\ MemTyped' /\ UNCHANGED <<type_hash_table, type_roots, event_roots, functionVars, traceVars, copier, error>> /\ copier = NoCopy
  BY <1>5, <1>8, TypedNext DEF new_basicblock, Running, programUnchanged
<1> DEFINE D == {}
<1>12. Moves(G, D)
  <2>1. D \in SUBSET G /\ \A r \in D : r.type # type_pointer
    OBVIOUS
  <2>2. \A r \in G \ D : r.type = AST_pointer /\ Solid(r) /\ Word(r.val) = basicblock =>
               Ref(Word(r.val + 1), type_roots[1]) \notin D
    OBVIOUS
  <2>3. \A r \in G \ D : r.type = function_pointer /\ r.val # 0 =>
               r.val \in Flagged(function_pool_flags)' /\ functions'[r.val] = functions[r.val]
    BY <1>3, <1>11, FunctionsStay DEF Typings, functionVars, Shape, Sound
  <2>4. \A w : \/ Word(w)' = Word(w)
               \/ \A o \in objects : w \notin Words(o)
               \/ \E d \in D : Solid(d) /\ w \in Words(BlockOf(d))
    BY <1>8, <1>10
  <2> HIDE DEF D
  <2> QED
    BY <1>3, <1>8, <1>11, <2>1, <2>2, <2>3, <2>4, MovesIntro
<1>13. PICK t : t = type_roots[1] /\ t = type_roots'[1]
  BY <1>11
<1>14. t \in 0 .. special_value /\ t # type_pointer
  BY <1>13, RootType
<1> DEFINE p == Ref(a, AST_pointer)
           q == Ref(v, t)
           N == {p, q}
           H == G \cup N
<1>15. N \in SUBSET Reference /\ p.val = a /\ q.val = v /\ p.type = AST_pointer /\ q.type = t
  BY <1>8, <1>14, Refs, Tags, Sizes
<1>16. Fits(H, rk, p)' /\ OnMenu(p)' /\ Fits(H, rk, q)' /\ OnMenu(q)'
  <2>1. \A i \in 1 .. n : Ref(Word(v + 1 + i)', AST_pointer) \in G
    BY <1>4, <1>8, <1>10
  <2>2. G \subseteq H /\ Ref(v, t) \in H /\ n <= res
    BY <1>3, <1>9
  <2>3. Word(a)' = basicblock /\ Word(a + 1)' = v /\ Word(v)' = n /\ Word(v + 1)' = res
    BY <1>8, <1>9, <1>10
  <2> HIDE DEF H, D
  <2> QED
    BY <1>3, <1>8, <1>9, <1>11, <1>12, <1>13, <2>1, <2>2, <2>3, BasicblockFits
<1>17. Distinct(G, N)
  BY <1>8, <1>15 DEF Distinct
<1>18. held' \subseteq G \cup N
  BY <1>2, <1>7, Held DEF World
<1>19. \A r \in D \cup N : Fits(G \cup N, rk, r)' /\ OnMenu(r)'
  BY <1>16
<1>20. D \in SUBSET G /\ \A r \in N : r.type # type_pointer
  BY <1>14, <1>15, Tags
<1>21. \A r \in N : r.type # function_pointer
  BY <1>13, <1>15, RootType, Tags
<1> HIDE DEF D, N, H
<1>22. Guarded(G \cup N)'
  BY <1>11, <1>21, BlocksGuarded DEF World, functionVars
<1> QED
  BY <1>8, <1>22, <1>11, <1>12, <1>15, <1>17, <1>18, <1>19, <1>20, OperationGrows

\* A new AST with an object in it, as a step leaves it.
LEMMA ImvFits ==
    ASSUME MemTyped', "imv" \in Menu, NEW H, NEW rk, NEW a \in Nat \ {0}, Word(a)' = imv,
           [addr |-> a, size |-> 2] \in objects', NEW d, Word(a + 1)' = d, Ref(d, dynamic_object) \in H
    PROVE  /\ Fits(H, rk, Ref(a, AST_pointer))' /\ OnMenu(Ref(a, AST_pointer))'
           /\ Targets(Ref(a, AST_pointer))' = {Ref(d, dynamic_object)}
<1>1. get_full_size_of_AST(Word(a))' = 2
  BY Tags DEF get_full_size_of_AST, get_field_size_of_AST, imv, basicblock
<1>2. Leads(Ref(a, AST_pointer))'
  BY <1>1, Tags DEF Leads, Ref, AST_pointer, integer, function_pointer, type_pointer
<1>3. Targets(Ref(a, AST_pointer))' = {Ref(d, dynamic_object)}
  <2>1. Targets(Ref(a, AST_pointer))' = {Ref(Word(a + 1)', dynamic_object)}
    BY <1>2, ASTTargetsNext DEF imv, AST_pointer, Ref, dynamic_object
  <2> QED
    BY <2>1
<1>4. IsTag(Word(a))' /\ (Word(a)' = basicblock => Word(a + 1)' # 0 /\ "basicblock" \in Menu)
  BY Tags DEF IsTag, imv, basicblock
<1>5. Fits(H, rk, Ref(a, AST_pointer))' /\ OnMenu(Ref(a, AST_pointer))'
  BY <1>1, <1>3, <1>4, ASTFits
<1> QED
  BY <1>3, <1>5

\* The operation new_imv_AST keeps the world.
LEMMA NewImvStep ==
    ASSUME HeapInv, Typings, NEW G, NEW rk, World(G, rk), new_imv_AST
    PROVE  ProgramInv'
<1>1. PICK d \in Nullable(dynamic_object), k \in BestFit(free_memory, 2) :
           AllocateAt(2, k) /\ mem' = Write(mem, k.addr, <<imv, d>>) /\ Hold(k.addr, AST_pointer)
  BY DEF new_imv_AST
<1>2. PICK a, words : a = k.addr /\ words = <<imv, d>>
  OBVIOUS
<1>3. Ref(d, dynamic_object) \in G /\ d \in 0 .. special_value
  <2>1. Ref(d, dynamic_object) \in G
    BY KnownIn DEF FieldlessTypes
  <2> QED
    BY <2>1, WorldFacts, Refs
<1>4. words \in Seq(0 .. special_value) /\ Len(words) = 2 /\ words[1] = imv /\ words[2] = d
  <2> PICK V : V = 0 .. special_value
    OBVIOUS
  <2>1. imv \in V /\ d \in V
    BY <1>3, Tags, Sizes
  <2> QED
    BY <1>2, <2>1, PairFacts
<1>5. /\ HeapInv' /\ phase' = "program" /\ MemTyped' /\ Moves(G, {})
      /\ Issued(k, 2) \in objects' /\ \A r \in G : Solid(r) => r.val # a
      /\ a \in 0 .. special_value /\ a # 0 /\ a \in Nat
      /\ \A i \in 1 .. Len(words) : Word(a + i - 1)' = words[i]
  <2>1. 2 \in Nat \ {0} /\ Len(words) <= 2 /\ UNCHANGED <<type_roots, functionVars>>
    BY <1>4 DEF new_imv_AST, programUnchanged
  <2>2. AllocateAt(2, k) /\ mem' = Write(mem, k.addr, words) /\ words \in Seq(0 .. special_value)
    BY <1>1, <1>2, <1>4
  <2>3. /\ HeapInv' /\ phase' = "program" /\ MemTyped' /\ Moves(G, {})
        /\ Issued(k, 2) \in objects' /\ \A r \in G : Solid(r) => r.val # k.addr
        /\ k.addr \in 0 .. special_value /\ k.addr # 0 /\ k.addr \in Nat /\ IsHeapType(k.addr)
        /\ \A i \in 1 .. Len(words) : Word(k.addr + i - 1)' = words[i]
    BY <2>1, <2>2, NewObject
  <2> QED
    BY <1>2, <2>3
<1>6. Word(a)' = imv /\ Word(a + 1)' = d
  <2>1. a + 1 - 1 = a /\ a + 2 - 1 = a + 1 /\ 1 \in 1 .. Len(words) /\ 2 \in 1 .. Len(words)
    BY <1>4, <1>5
  <2> QED
    BY <1>4, <1>5, <2>1
<1> DEFINE n == Ref(a, AST_pointer)
<1>7. "imv" \in Menu /\ copier = NoCopy /\ UNCHANGED <<type_hash_table, type_roots, event_roots, functionVars, traceVars, copier, error>>
  BY DEF new_imv_AST, Running, programUnchanged
<1>8. [addr |-> a, size |-> 2] \in objects' /\ a \in Nat \ {0}
  BY <1>2, <1>5 DEF Issued
<1>9. Fits(G \cup {n}, rk, n)' /\ OnMenu(n)' /\ Targets(n)' = {Ref(d, dynamic_object)}
  <2> PICK H : H = G \cup {n}
    OBVIOUS
  <2>1. Fits(H, rk, n)' /\ OnMenu(n)' /\ Targets(n)' = {Ref(d, dynamic_object)}
    BY <1>3, <1>5, <1>6, <1>7, <1>8, ImvFits
  <2> QED
    BY <2>1
<1>10. AST_pointer \in 0 .. special_value /\ AST_pointer # type_pointer /\ AST_pointer # function_pointer
  BY Tags, Sizes
<1>11. held' \subseteq held \cup {Ref(a, AST_pointer)}
  BY <1>1, <1>2, Held
<1>12. \A q \in Targets(Ref(a, AST_pointer))' : Visible(q)
  BY <1>9, Refs, Tags DEF Visible
<1> QED
  BY <1>5, <1>7, <1>9, <1>10, <1>11, <1>12, ObjectJoins

------------------------------------------------------------------------------
(* Functions: compiling, placing, copying back, overwriting *)

\* An operation that leaves the objects alone.
LEMMA StillGrows ==
    ASSUME HeapInv, Typings, NEW G, NEW rk, World(G, rk), phase = "program",
           UNCHANGED <<heapVars, mem, type_hash_table, type_roots, functionVars, traceVars, error>>,
           event_roots' \in Seq(Slots), RootRefs' \cup held' \subseteq G,
           CopierIn(G)', Guarded(G)'
    PROVE  ProgramInv'
<1>1. Typed /\ Shape(G, rk) /\ G \in SUBSET Reference
  BY WorldFacts
<1>2. Still
  BY DEF Still, heapVars, functionVars
<1> DEFINE D == {}
<1>3. Moves(G, D)
  BY <1>1, <1>2, StillMoves
<1>4. G \cup D = G
  OBVIOUS
<1>5. D \in SUBSET G /\ D \in SUBSET Reference /\ \A r \in D : r.type # type_pointer
  OBVIOUS
<1>6. Distinct(G, D)
  BY DEF Distinct
<1>7. \A r \in D \cup D : Fits(G \cup D, rk, r)' /\ OnMenu(r)'
  OBVIOUS
<1> HIDE DEF D
<1>8. World(G \cup D, rk)'
  BY <1>3, <1>4, <1>5, <1>6, <1>7, ProgramGrows
<1>9. HeapInv' /\ phase' = "program"
  BY NextInv DEF heapVars
<1>10. Typings'
  <2>1. MemTyped' /\ FunctionTypings' /\ Flagged(function_pool_flags)' = Flagged(function_pool_flags)
    BY <1>3, FunctionsStay DEF Typings, Moves
  <2>2. TraceTypings' /\ Flagged(sweep_function_pool_flags)' = Flagged(sweep_function_pool_flags)
    BY DEF Typings, TraceTypings, traceVars, Masks, Blocks, Power, Flagged, Slots, Bit
  <2>3. type_roots' \in Seq(Nat) /\ event_roots' \in Seq(Slots)' /\ error' \in {"none", "OOM", "OOM function"}
    BY DEF Typings, Slots
  <2>4. held' \subseteq Reference' /\ type_hash_table' \subseteq Nat
    BY <1>1 DEF Typings, Reference
  <2> QED
    BY <2>1, <2>2, <2>3, <2>4 DEF Typings
<1> QED
  BY <1>4, <1>8, <1>9, <1>10 DEF ProgramInv

\* What is below an AST of the world is in the world.
LEMMA ASTRangeIn ==
    ASSUME HeapInv, Typings, NEW G, NEW rk, World(G, rk), NEW v, v # 0,
           Ref(v, AST_pointer) \in G, NEW r \in Range(AST_range(v))
    PROVE  r = Ref(r.val, AST_pointer) /\ Ref(r.val, AST_pointer) \in G /\ r.val \in 0 .. special_value
<1>2. Shape(G, rk) /\ Sound(rk, Ref(v, AST_pointer))
  BY DEF World, Shape
<1>3. Leads(Ref(v, AST_pointer))
  BY <1>2, LeadsWhenSound, Refs, Tags DEF Leading
<1>4. r \in G
  <2>1. r \in Targets(Ref(v, AST_pointer))
    BY <1>3, TargetsByKind, Refs
  <2> QED
    BY <1>2, <2>1 DEF Shape, Closed
<1>5. r.type = AST_pointer
  <2> PICK w : w = Word(v)
    OBVIOUS
  <2>0. AST_range(v) =
           (CASE w = imv        -> <<>>
              [] w = basicblock -> Vector_range(Word(v + 1), AST_pointer)
              [] OTHER -> [i \in 1 .. get_field_size_of_AST(w) |-> Ref(Word(v + i), AST_pointer)])
    BY DEF AST_range
  <2>1. \A e, t : \A q \in Range(Vector_range(e, t)) : q.type = t
    BY Refs DEF Vector_range, Range
  <2>2. w # imv /\ w # basicblock => r.type = AST_pointer
    BY <2>0, Refs DEF Range
  <2>3. w = imv => FALSE
    <3>1. w = imv => AST_range(v) = <<>>
      BY <2>0, Tags
    <3>2. Range(<<>>) = {}
      BY DEF Range
    <3> QED
      BY <3>1, <3>2
  <2>4. w = basicblock => r.type = AST_pointer
    BY <2>0, <2>1, Tags
  <2> QED
    BY <2>2, <2>3, <2>4
<1>6. r \in Reference
  BY <1>4, WorldFacts
<1> QED
  BY <1>4, <1>5, <1>6, Refs

\* ASTsFrom is the least set of ASTs that has all that is below its own.
LEMMA ASTsFromIsLeast ==
    ASSUME Readable, NEW as \in SUBSET (1 .. special_value)
    PROVE  /\ as \subseteq ASTsFrom[as] /\ ASTsFrom[as] \subseteq 1 .. special_value
           /\ Below(ASTsFrom[as]) \subseteq ASTsFrom[as]
           /\ \A T \in SUBSET (1 .. special_value) : Below(T) \subseteq T /\ as \subseteq T => ASTsFrom[as] \subseteq T
<1> DEFINE U == 1 .. special_value
           grow == [s \in SUBSET U |-> Below(s)]
           IsFrom(f) == f = [s \in SUBSET U |-> IF Below(s) = s THEN s ELSE f[Below(s)]]
<1>2. \A v \in U : \A r \in Range(AST_range(v)) : r.val \in 0 .. special_value
  BY WordsRead, Refs, Sizes
<1>3. Growing(U, grow)
  <2>1. \A s \in SUBSET U : Below(s) \in SUBSET U /\ s \subseteq Below(s)
    <3>1. \A v \in U : {r.val : r \in Range(AST_range(v))} \ {0} \subseteq U
      BY <1>2, Sizes
    <3> HIDE DEF U
    <3> QED
      BY <3>1 DEF Below
  <2>2. \A s, t \in SUBSET U : s \subseteq t => Below(s) \subseteq Below(t)
    BY DEF Below
  <2> HIDE DEF U
  <2> QED
    BY <2>1, <2>2 DEF Growing
<1>4. \A f : Follows(U, grow, f) <=> IsFrom(f)
  BY DEF Follows
<1>5. \E f : IsFrom(f)
  <2> HIDE DEF U, grow, IsFrom
  <2> QED
    BY <1>3, <1>4, FollowingExists
<1>6. ASTsFrom = CHOOSE f : IsFrom(f)
  BY DEF ASTsFrom
<1>7. IsFrom(ASTsFrom)
  <2> HIDE DEF IsFrom
  <2> QED
    BY <1>5, <1>6
<1>8. Follows(U, grow, ASTsFrom)
  <2> HIDE DEF IsFrom, grow, U
  <2> QED
    BY <1>4, <1>7
<1>9. \A s \in SUBSET U : s \in Fixed(U, grow) <=> Below(s) \subseteq s
  <2>1. \A s \in SUBSET U : s \subseteq Below(s)
    BY DEF Below
  <2> HIDE DEF U
  <2> QED
    BY <2>1 DEF Fixed
<1>10. as \in SUBSET U /\ IsFiniteSet(U)
  <2>1. IsFiniteSet(U)
    BY Sizes, FS_Interval
  <2> QED
    BY <2>1
<1> HIDE DEF grow, IsFrom, U
<1>11. ASTsFrom[as] = Least(U, grow, as)
  BY <1>3, <1>8, <1>10, FollowingEnds
<1>12. /\ Least(U, grow, as) \in Fixed(U, grow) /\ as \subseteq Least(U, grow, as)
       /\ \A t \in Fixed(U, grow) : as \subseteq t => Least(U, grow, as) \subseteq t
  BY <1>3, <1>10, LeastIsFixed
<1>13. Least(U, grow, as) \in SUBSET U
  BY DEF Least
<1>14. /\ as \subseteq ASTsFrom[as] /\ ASTsFrom[as] \subseteq U
       /\ Below(ASTsFrom[as]) \subseteq ASTsFrom[as]
       /\ \A T \in SUBSET U : Below(T) \subseteq T /\ as \subseteq T => ASTsFrom[as] \subseteq T
  BY <1>9, <1>11, <1>12, <1>13
<1> QED
  BY <1>14 DEF U

\* A set of ASTs with their fields has all that is below one of them.
LEMMA ASTsFromInside ==
    ASSUME HeapInv, Typings, NEW G, NEW rk, World(G, rk), NEW T \in SUBSET ASTsIn(G), FieldsClosed(T),
           NEW a, Ref(a, AST_pointer) \in T
    PROVE  \A b \in ASTsFrom[{a}] : b # 0 /\ Ref(b, AST_pointer) \in T
<1> DEFINE S == {v \in 1 .. special_value : Ref(v, AST_pointer) \in T}
<1>1. Readable /\ Shape(G, rk) /\ G \subseteq Reference
  <2>1. Shape(G, rk) /\ MemTyped /\ Functional /\ G \subseteq Reference
    BY WorldFacts DEF Typings, FunctionTypings
  <2> QED
    BY <2>1, ShapeReads
<1>2. \A v : Ref(v, AST_pointer) \in T => v \in 1 .. special_value
  <2>1. \A v : Ref(v, AST_pointer) \in T => Ref(v, AST_pointer) \in Reference /\ v # 0
    BY <1>1, Refs DEF ASTsIn
  <2> QED
    BY <2>1, Refs, Sizes
<1>3. ASSUME NEW v \in S, NEW r \in Range(AST_range(v)), r.val # 0
      PROVE  r.val \in S
  <2>1. Ref(v, AST_pointer) \in G /\ v # 0 /\ Ref(v, AST_pointer) \in T
    BY <1>2 DEF ASTsIn
  <2>2. r = Ref(r.val, AST_pointer)
    BY <2>1, ASTRangeIn
  <2>3. Leads(Ref(v, AST_pointer))
    BY <1>1, <2>1, LeadsWhenSound, Refs, Tags DEF Leading, Shape
  <2>4. r \in Targets(Ref(v, AST_pointer))
    BY <2>3, TargetsByKind, Refs
  <2>5. r \in T
    BY <1>3, <2>1, <2>2, <2>4, Refs DEF FieldsClosed
  <2> QED
    BY <1>2, <2>2, <2>5
<1>4. Below(S) \subseteq S
  <2>1. \A v \in S : {r.val : r \in Range(AST_range(v))} \ {0} \subseteq S
    BY <1>3
  <2> HIDE DEF S
  <2> QED
    BY <2>1 DEF Below
<1>5. {a} \subseteq S /\ S \in SUBSET (1 .. special_value) /\ {a} \in SUBSET (1 .. special_value)
  BY <1>2
<1> HIDE DEF S
<1>6. ASTsFrom[{a}] \subseteq S
  BY <1>1, <1>4, <1>5, ASTsFromIsLeast
<1> QED
  BY <1>6, Sizes DEF S

\* All ASTs together have their fields among them.
LEMMA AllASTs ==
    ASSUME NEW G, NEW rk, Shape(G, rk)
    PROVE  FieldsClosed(ASTsIn(G))
BY DEF FieldsClosed, ASTsIn, Shape, Closed

\* What is baked in the code of an AST is in the objects below it.
LEMMA BakedIsKept ==
    ASSUME HeapInv, Typings, NEW G, NEW rk, World(G, rk), NEW W \in SUBSET ASTsIn(G), FieldsClosed(W),
           NEW a, Ref(a, AST_pointer) \in W
    PROVE  Keeps(W, a, BakedIn(a))
<1>1. Shape(G, rk)
  BY WorldFacts
<1>2. ASSUME NEW T \in SUBSET W, FieldsClosed(T), Ref(a, AST_pointer) \in T, NEW q \in BakedIn(a)
      PROVE  Holds(T, q)
  <2>1. PICK b \in ASTsFrom[{a}] : Word(b) = imv /\ Word(b + 1) # 0
           /\ q \in {Ref(Word(Word(b + 1)), type_pointer)} \cup Range(RefsAt(Word(b + 1) + 1, Word(Word(b + 1))))
    BY <1>2 DEF BakedIn
  <2>2. b # 0 /\ Ref(b, AST_pointer) \in T /\ Ref(b, AST_pointer) \in G
    <3>1. T \in SUBSET ASTsIn(G)
      OBVIOUS
    <3> QED
      BY <1>2, <2>1, <3>1, ASTsFromInside DEF ASTsIn
  <2>3. PICK d : d = Ref(Word(b + 1), dynamic_object)
    OBVIOUS
  <2>4. Leads(Ref(b, AST_pointer))
    BY <1>1, <2>2, LeadsWhenSound, Refs, Tags DEF Leading, Shape
  <2>5. d \in Targets(Ref(b, AST_pointer))
    BY <2>1, <2>3, <2>4, TargetsByKind, Refs
  <2>6. d \in G /\ d.val = Word(b + 1) /\ d.type = dynamic_object
    BY <1>1, <2>2, <2>3, <2>5, Refs DEF Shape, Closed
  <2>7. Leads(d)
    BY <1>1, <2>1, <2>6, LeadsWhenSound, Tags DEF Leading, Shape
  <2>8. q \in Targets(d)
    BY <2>1, <2>6, <2>7, TargetsByKind
  <2> QED
    BY <2>2, <2>5, <2>6, <2>8 DEF Holds
<1> QED
  BY <1>2 DEF Keeps

\* What is kept is in the world, and the same as what can be kept apart from others.
LEMMA KeptIn ==
    ASSUME NEW G, NEW rk, Shape(G, rk), NEW W \in SUBSET ASTsIn(G), NEW a, NEW code, Keeps(W, a, code)
    PROVE  /\ code \subseteq G
           /\ \A X : X \subseteq ASTsIn(G) /\ (\A r \in G : r \notin X => Targets(r) \cap X = {}) => code \cap X = {}
<1>1. ASSUME NEW q \in code
      PROVE  \E d \in G : d.type = dynamic_object /\ q \in Targets(d)
  <2>1. Holds(W, q)
    BY DEF Keeps
  <2>2. PICK r \in W : \E d \in Targets(r) : d.type = dynamic_object /\ q \in Targets(d)
    BY <2>1 DEF Holds
  <2>3. Targets(r) \subseteq G
    BY DEF ASTsIn, Shape, Closed
  <2> QED
    BY <2>2, <2>3
<1>2. ASSUME NEW X, X \subseteq ASTsIn(G), \A r \in G : r \notin X => Targets(r) \cap X = {}, NEW q \in code, q \in X
      PROVE  FALSE
  <2>1. PICK d \in G : d.type = dynamic_object /\ q \in Targets(d)
    BY <1>1
  <2>2. d \notin X
    BY <1>2, <2>1, Tags DEF ASTsIn
  <2> QED
    BY <1>2, <2>1, <2>2
<1> QED
  BY <1>1, <1>2 DEF Shape, Closed

\* Without imvs no object is baked in any code.
LEMMA BakedNothing ==
    ASSUME HeapInv, Typings, NEW G, NEW rk, World(G, rk), NEW a, Ref(a, AST_pointer) \in G, a # 0,
           "imv" \notin Menu
    PROVE  BakedIn(a) = {}
<1>1. Ref(a, AST_pointer) \in ASTsIn(G) /\ FieldsClosed(ASTsIn(G)) /\ ASTsIn(G) \in SUBSET ASTsIn(G)
  BY WorldFacts, AllASTs, Refs DEF ASTsIn
<1>2. \A b \in ASTsFrom[{a}] : Word(b) # imv
  <2>1. SUFFICES ASSUME NEW b \in ASTsFrom[{a}] PROVE Word(b) # imv
    OBVIOUS
  <2>2. b # 0 /\ Ref(b, AST_pointer) \in G
    BY <1>1, ASTsFromInside DEF ASTsIn
  <2>3. OnMenu(Ref(b, AST_pointer))
    BY <2>2 DEF World, AllOnMenu
  <2> QED
    BY <2>2, <2>3, Refs, Tags DEF OnMenu, Solid
<1> QED
  BY <1>2 DEF BakedIn

\* A copier at its start is in the world.
LEMMA CopierStarts ==
    ASSUME NEW G, Base \subseteq G, Ref(0, AST_pointer) \in G, Ref(0, type_pointer) \in G,
           NEW what \in {"compile", "AST_from_function"}, NEW a \in Nat, NEW t \in Nat,
           Ref(a, AST_pointer) \in G, Ref(t, type_pointer) \in G, what = "compile" => "compile" \in Menu,
           NEW code \in SUBSET Reference, code \subseteq G, StartCopy(what, a, t, code)
    PROVE  CopierIn(G)'
<1> PICK todo, copied : todo = <<ResultPlace>> /\ copied = [x \in {0} |-> 0]
  OBVIOUS
<1>1. copier' = [what |-> what, source |-> a, copied |-> copied, todo |-> todo,
                 result |-> 0, return_type |-> t, code |-> code]
  BY DEF StartCopy
<1>2. todo \in Seq(Nat) /\ \A j \in DOMAIN todo : todo[j] = ResultPlace
  BY DEF ResultPlace
<1>3. DOMAIN copied = {0} /\ copied[0] = 0
  OBVIOUS
<1>4. CopierTyped'
  BY <1>1, <1>2 DEF CopierTyped, Reference
<1>5. \A x \in DOMAIN copied : Ref(copied[x], AST_pointer) \in G
  BY <1>3
<1>6. CopierIn(G)'
  BY <1>1, <1>2, <1>3, <1>4, <1>5 DEF CopierIn, Ref, AST_pointer, type_pointer, ResultPlace
<1> QED
  BY <1>1, <1>6

\* The menus without what takes away the ASTs that keep what machine code holds:
\* dynamify, an error in a compilation, and, where objects get into machine code,
\* copies that share the elements of a basicblock and find_random_AST.
SafeMenu ==
    /\ "dynamify" \notin Menu /\ "compile_error" \notin Menu
    /\ Bakes => "basicblock" \notin Menu /\ "find_random_AST" \notin Menu

\* A copy that starts leaves alone what the functions keep.
LEMMA GuardStarts ==
    ASSUME HeapInv, Typings, NEW G, NEW rk, World(G, rk), copier = NoCopy,
           UNCHANGED <<heapVars, mem, type_roots, functionVars, held>>,
           NEW what, NEW a, NEW t, NEW code, StartCopy(what, a, t, code), Ref(a, AST_pointer) \in G,
           "basicblock" \in Menu \/ ~ Bakes => code = {},
           what = "compile" /\ Bakes => Keeps(ASTsIn(G), a, code)
    PROVE  Guarded(G)'
<1>1. Typed /\ Shape(G, rk) /\ Still
  BY WorldFacts DEF Still, heapVars, functionVars
<1>2. PICK todo, copied : todo = <<ResultPlace>> /\ copied = [x \in {0} |-> 0]
  OBVIOUS
<1>3. copier' = [what |-> what, source |-> a, copied |-> copied, todo |-> todo,
                 result |-> 0, return_type |-> t, code |-> code]
  BY <1>2 DEF StartCopy
<1>4. DOMAIN copied = {0} /\ copied[0] = 0 /\ DOMAIN todo = {1} /\ todo[1] = ResultPlace
  BY <1>2
<1>5. Copies' = {} /\ Copies = {}
  BY <1>3, <1>4 DEF Copies, Ref, AST_pointer
<1>6. CASE "basicblock" \in Menu
  <2>1. copier'.code = {}
    BY <1>3, <1>6
  <2> PICK N : N = {}
    OBVIOUS
  <2>2. \A r \in N : r.type # function_pointer
    OBVIOUS
  <2>3. Guarded(G \cup N)'
    BY <1>6, <2>1, <2>2, BlocksGuarded DEF World, functionVars
  <2>4. G \cup N = G
    OBVIOUS
  <2> QED
    BY <2>3, <2>4
<1>7. CASE "basicblock" \notin Menu
  <2>1. PICK P : Guard(G, P)
    BY <1>7 DEF World, Guarded
  <2>2. /\ P \subseteq ASTsIn(G) /\ FieldsClosed(P) /\ (~ Bakes => P = {})
        /\ \A r \in G : r \notin P => Targets(r) \cap P = {}
        /\ held \cap P = {}
        /\ \A r \in G : r.type = function_pointer /\ r.val # 0 => KeptBy(P, functions[r.val])
    BY <1>5, <2>1 DEF Guard
  <2>3. \A r \in G : Targets(r)' = Targets(r)
    BY <1>1, StillShape
  <2>4. \A W : W \subseteq G => SameBelow(W)
    <3> PICK D : D = {}
      OBVIOUS
    <3>1. Moves(G, D)
      BY <1>1, StillMoves
    <3> QED
      BY <1>1, <3>1, SameBelowMoves
  <2>5. SameBelow(P) /\ SameBelow(ASTsIn(G))
    BY <2>2, <2>4 DEF ASTsIn
  <2>6. P \subseteq ASTsIn(G)' /\ FieldsClosed(P)'
    BY <2>2, <2>5, KeepsStays DEF ASTsIn, AST_pointer
  <2>7. (\A r \in G : r \notin P \cup Copies => Targets(r) \cap (P \cup Copies) = {})'
    BY <1>5, <2>2, <2>3
  <2>8. (held \cap (P \cup Copies))' = {}
    BY <1>5, <2>2
  <2>9. (\A r \in G : r.type = function_pointer /\ r.val # 0 => KeptBy(P, functions[r.val]))'
    <3>1. ASSUME NEW r \in G, r.type = function_pointer, r.val # 0
          PROVE  KeptBy(P, functions[r.val])'
      BY <2>2, <2>5, <3>1, KeptByStays DEF functionVars
    <3> QED
      BY <3>1 DEF function_pointer
  <2>10. CopierGuard(G, P)'
    <3>1. (copier.what = "compile" =>
             IF Bakes THEN \E W \in SUBSET (ASTsIn(G) \ Copies) : Keeps(W, copier.source, copier.code)
             ELSE copier.code = {})'
      <4>1. CASE what = "compile" /\ Bakes
        <5>1. Keeps(ASTsIn(G), a, code)'
          BY <2>5, <4>1, KeepsStays
        <5>2. PICK W : W = ASTsIn(G)
          OBVIOUS
        <5>3. Keeps(W, a, code)' /\ W \in SUBSET (ASTsIn(G) \ Copies)'
          BY <1>5, <5>1, <5>2 DEF ASTsIn, AST_pointer, Keeps, Ref
        <5>4. Keeps(W, copier.source, copier.code)'
          BY <1>3, <5>3 DEF Keeps, Ref
        <5> QED
          BY <4>1, <5>3, <5>4 DEF Bakes
      <4>2. CASE ~ (what = "compile" /\ Bakes)
        BY <1>3, <4>2 DEF Bakes
      <4> QED
        BY <4>1, <4>2
    <3>2. Mirror(G, copier.copied, copier.todo)'
      <4>1. Ref(0, AST_pointer) \in G
        BY <1>1 DEF Shape, Base, FieldlessTypes
      <4> QED
        BY <1>3, <1>4, <4>1 DEF Mirror, Ref, AST_pointer, ResultPlace
    <3>3. (P \cap Copies = {} /\ Ref(copier.source, AST_pointer) \notin Copies)'
      BY <1>5
    <3>4. (ResultPlace \in Range(copier.todo))'
      BY <1>3, <1>4 DEF Range, ResultPlace
    <3> QED
      BY <3>1, <3>2, <3>3, <3>4 DEF CopierGuard
  <2> QED
    BY <1>7, <2>2, <2>6, <2>7, <2>8, <2>9, <2>10 DEF Guarded, Guard, Bakes
<1> QED
  BY <1>6, <1>7

\* What stays with an operation that only keeps a reference.
LEMMA HeldIn ==
    ASSUME HeapInv, Typings, NEW G, NEW rk, World(G, rk),
           UNCHANGED <<type_roots, event_roots>>, held' \subseteq G
    PROVE  RootRefs' \cup held' \subseteq G /\ event_roots' \in Seq(Slots)
<1>1. RootRefs' = RootRefs
  BY RootsStay
<1> QED
  BY <1>1 DEF World, Typings

\* The nulls of ASTs and types.
LEMMA BaseFacts == Ref(0, AST_pointer) \in Base /\ Ref(0, type_pointer) \in Base
BY DEF Base, FieldlessTypes

\* The operation compile_specifying_location keeps the world.
LEMMA CompileStep ==
    ASSUME HeapInv, Typings, NEW G, NEW rk, World(G, rk), SafeMenu, compile_specifying_location
    PROVE  ProgramInv'
<1>1. PICK a \in Objects(AST_pointer), t \in ReturnTypes, made \in BakedTypes :
         StartCopy("compile", a, t, BakedIn(a) \cup made)
  BY DEF compile_specifying_location
<1>2. a # 0 /\ Ref(a, AST_pointer) \in G /\ Ref(t, type_pointer) \in G
  BY <1>1, KnownIn, ReturnTypeIn
<1>3. /\ BakedIn(a) \cup made = BakedIn(a) /\ Keeps(ASTsIn(G), a, BakedIn(a))
      /\ "basicblock" \in Menu \/ ~ Bakes => BakedIn(a) = {}
  <2>1. made = {}
    BY <1>1 DEF SafeMenu, BakedTypes
  <2>2. Ref(a, AST_pointer) \in ASTsIn(G) /\ FieldsClosed(ASTsIn(G)) /\ ASTsIn(G) \in SUBSET ASTsIn(G)
    BY <1>2, WorldFacts, AllASTs, Refs DEF ASTsIn
  <2>3. Keeps(ASTsIn(G), a, BakedIn(a))
    BY <2>2, BakedIsKept
  <2>4. "basicblock" \in Menu \/ ~ Bakes => "imv" \notin Menu
    BY DEF SafeMenu, Bakes, compile_specifying_location, Running
  <2> QED
    BY <1>2, <2>1, <2>3, <2>4, BakedNothing
<1>4. t \in Nat /\ a \in Nat
  <2>1. Ref(a, AST_pointer) \in Reference /\ Ref(t, type_pointer) \in Reference
    BY <1>2, WorldFacts
  <2> QED
    BY <2>1, Refs, Sizes
<1>5. PICK code : code = BakedIn(a)
  OBVIOUS
<1>51. StartCopy("compile", a, t, code)
  BY <1>1, <1>3, <1>5
<1>52. code \in SUBSET Reference /\ code \subseteq G
  BY <1>3, <1>5, WorldFacts, KeptIn
<1>6. CopierIn(G)'
  <2>1. "compile" \in Menu
    BY DEF compile_specifying_location, Running
  <2> QED
    BY <1>2, <1>4, <1>51, <1>52, <2>1, WorldFacts, BaseFacts, CopierStarts
<1>61. Guarded(G)'
  <2>1. copier = NoCopy /\ UNCHANGED <<heapVars, mem, type_roots, functionVars, held>>
    BY DEF compile_specifying_location, Running
  <2> QED
    BY <1>2, <1>3, <1>5, <1>51, <2>1, GuardStarts
<1>7. held' \subseteq G /\ UNCHANGED <<type_roots, event_roots>>
  BY DEF compile_specifying_location, World
<1>8. RootRefs' \cup held' \subseteq G /\ event_roots' \in Seq(Slots)
  BY <1>7, HeldIn
<1> QED
  BY <1>6, <1>61, <1>8, StillGrows DEF compile_specifying_location, Running

\* The operation AST_from_function keeps the world.
LEMMA ASTFromFunctionStep ==
    ASSUME HeapInv, Typings, NEW G, NEW rk, World(G, rk), AST_from_function
    PROVE  ProgramInv'
<1>1. PICK f \in Objects(function_pointer) : StartCopy("AST_from_function", functions[f].the_AST, 0, {})
  BY DEF AST_from_function
<1> PICK a : a = functions[f].the_AST
  OBVIOUS
<1>2. Ref(a, AST_pointer) \in G
  BY <1>1, FunctionIn
<1>3. a \in Nat
  <2>2. Ref(a, AST_pointer) \in Reference
    BY <1>2, WorldFacts
  <2> QED
    BY <2>2, Refs, Sizes
<1>4. CopierIn(G)' /\ Guarded(G)'
  <2> PICK none, what : none = {} /\ what = "AST_from_function"
    OBVIOUS
  <2>1. StartCopy(what, a, 0, none) /\ none \in SUBSET Reference /\ none \subseteq G
    BY <1>1
  <2>2. copier = NoCopy /\ UNCHANGED <<heapVars, mem, type_roots, functionVars, held>>
    BY DEF AST_from_function, Running
  <2>4. what # "compile"
    OBVIOUS
  <2>3. CopierIn(G)'
    BY <1>2, <1>3, <2>1, <2>4, WorldFacts, BaseFacts, CopierStarts
  <2>5. Guarded(G)'
    BY <1>2, <2>1, <2>2, <2>4, GuardStarts
  <2> QED
    BY <2>3, <2>5
<1>7. held' \subseteq G /\ UNCHANGED <<type_roots, event_roots>>
  BY DEF AST_from_function, World
<1>8. RootRefs' \cup held' \subseteq G /\ event_roots' \in Seq(Slots)
  BY <1>7, HeldIn
<1> QED
  BY <1>4, <1>8, StillGrows DEF AST_from_function, Running

\* An operation that leaves the objects and the functions alone keeps the guard.
LEMMA GuardStays ==
    ASSUME HeapInv, Typings, NEW G, NEW rk, World(G, rk), copier = NoCopy, copier' = NoCopy,
           UNCHANGED <<heapVars, mem, type_roots, functionVars>>,
           \A q \in held' : q \in held \/ Visible(q)
    PROVE  Guarded(G)'
<1> PICK D, N : D = {} /\ N = {}
  OBVIOUS
<1>1. Moves(G, D)
  BY WorldFacts, StillMoves DEF Still, heapVars, functionVars
<1>2. D \in SUBSET G /\ G \cup N = G
  OBVIOUS
<1>3. \A r \in D : Visible(r) /\ r.type \notin {dynamic_object, function_pointer}
  OBVIOUS
<1>4. \A r \in N : r.type # function_pointer /\ (r.type = AST_pointer => r \notin G)
  OBVIOUS
<1>5. \A r \in D \cup N : \A q \in Targets(r)' : q \in N \/ Visible(q) \/ \E d \in D : q \in Targets(d)
  OBVIOUS
<1>6. \A q \in held' : q \in held \cup N \/ Visible(q)
  OBVIOUS
<1>7. Guarded(G \cup N)'
  BY <1>1, <1>2, <1>3, <1>4, <1>5, <1>6, GuardGrows
<1> QED
  BY <1>2, <1>7

\* The operations on the event roots keep the world.
LEMMA EventRootStep ==
    ASSUME HeapInv, Typings, NEW G, NEW rk, World(G, rk), add_event_root \/ clear_event_roots
    PROVE  ProgramInv'
<1>1. PICK old : old = event_roots /\ old \in Seq(Slots) /\ \A i \in DOMAIN old : Ref(old[i], function_pointer) \in G
  BY DEF Typings, World, RootRefs
<1>2. PICK new : new = event_roots'
  OBVIOUS
<1>3. new \in Seq(Slots) /\ \A i \in DOMAIN new : Ref(new[i], function_pointer) \in G
  <2>1. CASE add_event_root
    <3>1. PICK f \in Objects(function_pointer) :
             new \in IF Len(old) > max_fuzztester_size
                     THEN {[old EXCEPT ![i] = f] : i \in DOMAIN old}
                     ELSE {Append(old, f)}
      BY <1>1, <1>2, <2>1 DEF add_event_root
    <3>2. f \in Slots /\ Ref(f, function_pointer) \in G
      BY <3>1, FunctionIn
    <3>3. CASE new = Append(old, f)
      <4>1. new \in Seq(Slots) /\ DOMAIN new = 1 .. Len(old) + 1 /\ DOMAIN old = 1 .. Len(old) /\ Len(old) \in Nat
        BY <1>1, <3>2, <3>3
      <4>2. \A i \in 1 .. Len(old) : new[i] = old[i]
        BY <1>1, <3>2, <3>3
      <4>3. new[Len(old) + 1] = f
        BY <1>1, <3>2, <3>3
      <4> QED
        BY <1>1, <3>2, <4>1, <4>2, <4>3
    <3>4. ASSUME NEW i \in DOMAIN old, new = [old EXCEPT ![i] = f]
          PROVE  new \in Seq(Slots) /\ \A j \in DOMAIN new : Ref(new[j], function_pointer) \in G
      <4>1. new \in Seq(Slots)
        BY <1>1, <3>2, <3>4
      <4>2. DOMAIN new = DOMAIN old /\ \A j \in DOMAIN old : new[j] = IF j = i THEN f ELSE old[j]
        BY <3>4
      <4> QED
        BY <1>1, <3>2, <4>1, <4>2
    <3> QED
      BY <3>1, <3>3, <3>4
  <2>2. CASE clear_event_roots
    BY <1>2, <2>2 DEF clear_event_roots
  <2> QED
    BY <2>1, <2>2
<1>4. RootRefs' \cup held' \subseteq G
  <2>1. type_roots' = type_roots /\ held' = held
    BY DEF add_event_root, clear_event_roots
  <2>2. RootRefs' = {Ref(type_roots[i], type_pointer) : i \in DOMAIN type_roots} \cup
                    {Ref(new[i], function_pointer) : i \in DOMAIN new}
    BY <1>2, <2>1 DEF RootRefs, Ref, type_pointer, function_pointer
  <2> QED
    BY <1>3, <2>1, <2>2 DEF World, RootRefs
<1>5. copier' = NoCopy /\ CopierIn(G)'
  BY DEF add_event_root, clear_event_roots, Running, CopierIn, NoCopy
<1>6. Guarded(G)'
  <2>1. UNCHANGED <<heapVars, mem, type_roots, functionVars, held>> /\ copier = NoCopy
    BY DEF add_event_root, clear_event_roots, Running
  <2>2. \A q \in held' : q \in held
    BY <2>1
  <2> QED
    BY <1>5, <2>1, <2>2, GuardStays
<1> QED
  BY <1>2, <1>3, <1>4, <1>5, <1>6, StillGrows DEF add_event_root, clear_event_roots, Running

\* The operation run_null_parameter_function keeps the world.
LEMMA RunStep ==
    ASSUME HeapInv, Typings, NEW G, NEW rk, World(G, rk), run_null_parameter_function
    PROVE  ProgramInv'
<1>1. PICK f \in Objects(function_pointer) :
         \/ UNCHANGED <<heapVars, mem>> /\ \E r \in functions[f].code : Hold(r.val, r.type)
         \/ functions[f].return_type # 0 /\ DynamicWith(functions[f].return_type)
  BY DEF run_null_parameter_function
<1>2. /\ functions[f].code \subseteq G
      /\ functions[f].return_type # 0 => functions[f].return_type \in FieldlessTypes \cup HeapTypes(G)
      /\ Ref(f, function_pointer) \in G /\ f # 0
  BY <1>1, FunctionIn
<1>3. CASE functions[f].return_type # 0 /\ DynamicWith(functions[f].return_type)
  BY <1>2, <1>3, DynamicStep DEF run_null_parameter_function, Running
<1>4. CASE UNCHANGED <<heapVars, mem>> /\ \E r \in functions[f].code : Hold(r.val, r.type)
  <2>1. PICK r \in functions[f].code : Hold(r.val, r.type)
    BY <1>4
  <2>2. r \in Known
    <3>1. f \in Values(function_pointer)
      BY DEF Objects
    <3>2. PICK q \in Known : q.type = function_pointer /\ q.val = f
      BY <3>1 DEF Values
    <3>3. q \in G
      BY WorldFacts, KnownInShape DEF World, Typings, FunctionTypings, MemTyped
    <3>4. Leads(q)
      BY <1>2, <3>2, <3>3, WorldFacts, LeadsWhenSound, Tags DEF Leading, Shape
    <3>5. r \in Targets(q)
      BY <2>1, <3>2, <3>4, TargetsByKind
    <3> QED
      BY <3>5, KnownLeadsOn
  <2>3. r \in G /\ r = Ref(r.val, r.type)
    BY <1>2, WorldFacts DEF Reference, Ref
  <2>4. held' \subseteq held \cup {r}
    BY <2>1, <2>3, Held
  <2>5. /\ UNCHANGED <<type_hash_table, type_roots, event_roots, functionVars, traceVars, copier, error>>
        /\ copier = NoCopy /\ phase = "program"
    BY DEF run_null_parameter_function, programUnchanged, Running
  <2>6. Guarded(G)'
    <3>1. \A q \in held' : q \in held \/ Visible(q)
      BY <2>2, <2>4 DEF Visible
    <3>2. copier' = NoCopy
      BY <2>5
    <3> QED
      BY <1>4, <2>5, <3>1, <3>2, GuardStays
  <2>7. RootRefs' \cup held' \subseteq G /\ event_roots' \in Seq(Slots)
    BY <2>3, <2>4, <2>5, HeldIn DEF World
  <2>8. CopierIn(G)'
    BY <2>5 DEF CopierIn, NoCopy
  <2> QED
    BY <1>4, <2>5, <2>6, <2>7, <2>8, StillGrows
<1> QED
  BY <1>1, <1>3, <1>4

\* Running out of memory stops the program.
LEMMA OutOfMemoryStep ==
    ASSUME HeapInv, Typings, out_of_memory
    PROVE  HeapInv' /\ Typings' /\ phase' = "aborted"
<1>1. phase = "program" /\ Abort
  BY DEF out_of_memory, OutOfMemory, OutOfMemoryTwo
<1>2. HeapInv' /\ phase' = "aborted"
  BY <1>1, AbortStep DEF Abort
<1>3. Typings'
  <2>1. MemTyped' /\ FunctionTypings' /\ Flagged(function_pool_flags)' = Flagged(function_pool_flags)
    <3>1. UNCHANGED functionVars /\ MemTyped'
      BY DEF out_of_memory, Typings, MemTyped, Pool, PoolEnd
    <3> QED
      BY <3>1, FunctionsStay DEF Typings
  <2>2. TraceTypings' /\ Flagged(sweep_function_pool_flags)' = Flagged(sweep_function_pool_flags)
    BY DEF Typings, TraceTypings, traceVars, Masks, Blocks, Power, Flagged, Slots, Bit, out_of_memory
  <2>3. type_roots' \in Seq(Nat) /\ event_roots' \in Seq(Slots)' /\ error' \in {"none", "OOM", "OOM function"}
    BY DEF Typings, Slots, out_of_memory
  <2>4. held' \subseteq Reference' /\ type_hash_table' \subseteq Nat
    BY DEF Typings, Reference, out_of_memory
  <2> QED
    BY <2>1, <2>2, <2>3, <2>4 DEF Typings
<1> QED
  BY <1>2, <1>3

\* A function of the world as a step leaves it.
LEMMA FunctionFits ==
    ASSUME NEW H, NEW rk, NEW s \in Slots, s \in Flagged(function_pool_flags)',
           NEW fn, functions'[s] = fn, fn.code \subseteq H, "compile" \in Menu,
           Ref(fn.the_AST, AST_pointer) \in H, Ref(fn.return_type, type_pointer) \in H
    PROVE  /\ Fits(H, rk, Ref(s, function_pointer))' /\ OnMenu(Ref(s, function_pointer))'
           /\ Targets(Ref(s, function_pointer))' = {Ref(fn.return_type, type_pointer)} \cup fn.code
<1> DEFINE d == Ref(s, function_pointer)
<1>1. d.val = s /\ d.type = 5 /\ s # 0 /\ function_pointer = 5
  BY Refs, Tags DEF Slots
<1>2. Sound(rk, d)'
  BY <1>1, Tags DEF Sound, OneWord, FieldlessTypes, Solid, function_pointer, type_pointer, integer,
       dynamic_object, AST_pointer, IsHeapType, never_reached, Ref
<1>3. Leads(d)'
  BY <1>1, Tags DEF Leads, function_pointer, integer, Ref
<1>4. Targets(d)' = {Ref(fn.return_type, type_pointer)} \cup fn.code
  <2>1. d.type = function_pointer
    BY <1>1
  <2>2. Targets(d)' = {Ref(functions'[s].return_type, type_pointer)} \cup functions'[s].code
    BY <1>1, <1>3, <2>1, TargetsByKindNext DEF function_pointer, type_pointer, Ref
  <2> QED
    BY <2>2
<1>5. Fits(H, rk, d)'
  BY <1>1, <1>2, <1>4, Tags DEF Fits, IsHeapType, never_reached, function_pointer, AST_pointer, Ref
<1>6. OnMenu(d)'
  BY <1>1, Tags DEF OnMenu, AST_pointer, function_pointer, Ref
<1> QED
  BY <1>4, <1>5, <1>6

\* The type of a function.
FunctionRecord == [the_AST : 0 .. special_value, return_type : 0 .. special_value, code : SUBSET Reference]

\* A function is given another record, whose code is kept where that of the others is.
LEMMA GuardSwaps ==
    ASSUME HeapInv, Typings, NEW G, NEW rk, World(G, rk), copier = NoCopy, copier' = NoCopy,
           NEW f \in Slots, Ref(f, function_pointer) \in G,
           NEW fn, functions' = [functions EXCEPT ![f] = fn],
           UNCHANGED <<heapVars, mem, type_roots, function_pool_flags>>,
           "basicblock" \in Menu \/ ~ Bakes => fn.code = {},
           \A P : Guard(G, P) => held' \cap P = {} /\ (Bakes => Keeps(P, fn.the_AST, fn.code))
    PROVE  Guarded(G)'
<1>1. Typed /\ Shape(G, rk) /\ G \in SUBSET Reference
  BY WorldFacts
<1>2. functions'[f] = fn /\ \A s \in Slots : s # f => functions'[s] = functions[s]
  BY DEF Typings, FunctionTypings, Functional
<1>3. \A r \in G : r.type = function_pointer /\ r.val # 0 => r.val \in Slots
  BY <1>1, FlaggedSlots DEF Shape, Sound
<1>4. CASE "basicblock" \in Menu
  <2>1. CodeEmpty(G)
    BY <1>4 DEF World, Guarded
  <2>2. \A r \in G : r.type = function_pointer /\ r.val # 0 => functions'[r.val].code = {}
    BY <1>2, <1>3, <1>4, <2>1 DEF CodeEmpty
  <2>3. CodeEmpty(G)'
    BY <2>2 DEF CodeEmpty, NoCopy, function_pointer
  <2> QED
    BY <1>4, <2>3 DEF Guarded
<1>5. CASE "basicblock" \notin Menu
  <2>1. PICK P : Guard(G, P)
    BY <1>5 DEF World, Guarded
  <2>2. Copies = {} /\ Copies' = {}
    BY DEF Copies, NoCopy
  <2>3. /\ P \subseteq ASTsIn(G) /\ FieldsClosed(P) /\ (~ Bakes => P = {})
        /\ \A r \in G : r \notin P => Targets(r) \cap P = {}
        /\ \A r \in G : r.type = function_pointer /\ r.val # 0 => KeptBy(P, functions[r.val])
    BY <2>1, <2>2 DEF Guard
  <2>4. held' \cap P = {} /\ (Bakes => Keeps(P, fn.the_AST, fn.code))
    BY <2>1
  <2> DEFINE d == Ref(f, function_pointer)
             D == {d}
  <2>5. d.val = f /\ d.type = function_pointer /\ d \in G /\ f # 0
    BY Refs DEF Slots
  <2>6. Moves(G, D)
    <3>1. D \in SUBSET G /\ \A r \in D : r.type # type_pointer
      BY <2>5, Tags
    <3>2. \A r \in G \ D : r.type = AST_pointer /\ Solid(r) /\ Word(r.val) = basicblock =>
               Ref(Word(r.val + 1), type_roots[1]) \notin D
      <4> PICK t : t = type_roots[1]
        OBVIOUS
      <4>1. IsHeapType(t)
        BY RootType
      <4> QED
        BY <4>1, Refs, Tags
    <3>3. \A r \in G \ D : r.type = function_pointer /\ r.val # 0 =>
               r.val \in Flagged(function_pool_flags)' /\ functions'[r.val] = functions[r.val]
      <4>1. SUFFICES ASSUME NEW r \in G \ D, r.type = function_pointer, r.val # 0
                     PROVE  r.val \in Flagged(function_pool_flags)' /\ functions'[r.val] = functions[r.val]
        OBVIOUS
      <4>2. r.val \in Flagged(function_pool_flags) /\ r \in Reference
        BY <1>1, <4>1 DEF Shape, Sound
      <4>3. r.val # f
        BY <4>1, <4>2, Refs
      <4>4. Flagged(function_pool_flags)' = Flagged(function_pool_flags)
        BY DEF Flagged, Slots, Bit
      <4> QED
        BY <1>2, <4>2, <4>3, <4>4, FlaggedSlots
    <3>4. \A w : Word(w)' = Word(w)
      BY DEF Word, Pool, PoolEnd
    <3>5. objects \subseteq objects' /\ type_roots' = type_roots /\ MemTyped'
      BY DEF heapVars, Typings, MemTyped, Pool, PoolEnd
    <3> HIDE DEF D
    <3> QED
      BY <1>1, <3>1, <3>2, <3>3, <3>4, <3>5, MovesIntro
  <2>7. SameBelow(P)
    <3>1. P \subseteq G \ D /\ \A r \in D : r.type # dynamic_object
      BY <2>3, <2>5, Tags DEF ASTsIn
    <3> HIDE DEF D
    <3> QED
      BY <1>1, <2>6, <3>1, SameBelowMoves
  <2>8. P \subseteq ASTsIn(G)' /\ FieldsClosed(P)'
    BY <2>3, <2>7, KeepsStays DEF ASTsIn, AST_pointer
  <2>9. fn.code \cap P = {}
    <3>1. CASE Bakes
      <4>1. PICK a, code : a = fn.the_AST /\ code = fn.code
        OBVIOUS
      <4>2. Keeps(P, a, code)
        BY <2>4, <3>1, <4>1
      <4>3. code \cap P = {}
        BY <1>1, <2>3, <4>2, KeptIn
      <4> QED
        BY <4>1, <4>3
    <3> QED
      BY <3>1
  <2>10. ASSUME NEW r \in G, r \notin P
         PROVE  Targets(r)' \cap P = {}
    <3>1. CASE r \in G \ D
      <4>1. Targets(r)' = Targets(r)
        BY <1>1, <2>6, <3>1, RefMoves
      <4> QED
        BY <2>3, <2>10, <4>1
    <3>2. CASE r = d
      <4>1. CASE Leads(r)'
        <5>1. PICK rt : rt = fn.return_type
          OBVIOUS
        <5>2. Targets(r)' = {Ref(rt, type_pointer)} \cup fn.code
          BY <1>2, <2>5, <3>2, <4>1, <5>1, TargetsByKindNext DEF function_pointer, type_pointer, Ref
        <5>3. Ref(rt, type_pointer) \notin P
          BY <2>3, Refs, Tags DEF ASTsIn
        <5> QED
          BY <2>9, <5>2, <5>3
      <4>2. CASE ~ Leads(r)'
        BY <4>2, NowhereNext
      <4> QED
        BY <4>1, <4>2
    <3> QED
      BY <3>1, <3>2
  <2>11. ASSUME NEW r \in G, r.type = function_pointer, r.val # 0
         PROVE  KeptBy(P, functions[r.val])'
    <3>1. CASE r.val # f
      <4>1. functions'[r.val] = functions[r.val] /\ KeptBy(P, functions[r.val])
        BY <1>2, <1>3, <2>3, <2>11, <3>1
      <4> QED
        BY <2>7, <4>1, KeptByStays
    <3>2. CASE r.val = f /\ Bakes
      <4>1. PICK a, code : a = fn.the_AST /\ code = fn.code
        OBVIOUS
      <4>2. Keeps(P, a, code)
        BY <2>4, <3>2, <4>1
      <4>3. Keeps(P, a, code)'
        BY <2>7, <4>2, KeepsStays
      <4>4. a = functions'[r.val].the_AST /\ code = functions'[r.val].code
        BY <1>2, <3>2, <4>1
      <4>5. Keeps(P, functions[r.val].the_AST, functions[r.val].code)'
        BY <4>3, <4>4 DEF Keeps, Ref
      <4> QED
        BY <3>2, <4>5 DEF KeptBy, Bakes
    <3>3. CASE r.val = f /\ ~ Bakes
      BY <1>2, <3>3 DEF KeptBy, Bakes
    <3> QED
      BY <3>1, <3>2, <3>3
  <2>12. (\A r \in G : r.type = function_pointer /\ r.val # 0 => KeptBy(P, functions[r.val]))'
    BY <2>11 DEF function_pointer
  <2>13. (\A r \in G : r \notin P \cup Copies => Targets(r) \cap (P \cup Copies) = {})'
    BY <2>2, <2>10
  <2>14. (held \cap (P \cup Copies))' = {}
    BY <2>2, <2>4
  <2>15. CopierGuard(G, P)'
    BY DEF CopierGuard, NoCopy
  <2> QED
    BY <1>5, <2>3, <2>8, <2>12, <2>13, <2>14, <2>15 DEF Guarded, Guard, Bakes
<1> QED
  BY <1>4, <1>5

\* A function that is there is given another AST and type.
LEMMA FunctionChanges ==
    ASSUME HeapInv, Typings, NEW G, NEW rk, World(G, rk), phase = "program", copier = NoCopy,
           NEW f, Ref(f, function_pointer) \in G, f \in Flagged(function_pool_flags), f \in Slots,
           NEW fn \in FunctionRecord, fn.code \subseteq G, Guarded(G)',
           Ref(fn.the_AST, AST_pointer) \in G, Ref(fn.return_type, type_pointer) \in G,
           functions' = [functions EXCEPT ![f] = fn], held' \subseteq G,
           UNCHANGED <<heapVars, mem, type_hash_table, type_roots, event_roots, function_pool_flags,
                       modules, traceVars, copier, error>>
    PROVE  ProgramInv'
<1>1. Typed /\ Shape(G, rk) /\ G \in SUBSET Reference
  BY WorldFacts
<1> DEFINE d == Ref(f, function_pointer)
           D == {d}
           N == {}
<1>2. d.val = f /\ d.type = function_pointer /\ d \in G
  BY Refs
<1>3. HeapInv' /\ phase' = "program"
  BY NextInv DEF heapVars
<1>4. Flagged(function_pool_flags)' = Flagged(function_pool_flags) /\ function_pool_flags' \in Masks'
  BY DEF Typings, FunctionTypings, Masks, Blocks, Power, Flagged, Slots, Bit
<1>5. functions \in [Slots -> FunctionRecord]
  BY DEF Typings, FunctionTypings, Functional, FunctionRecord
<1>6. functions'[f] = fn /\ \A s \in Slots : s # f => functions'[s] = functions[s]
  BY <1>5
<1>7. FunctionTypings'
  <2>1. functions' \in [Slots -> FunctionRecord]
    BY <1>5
  <2>2. Functional'
    BY <2>1 DEF Functional, FunctionRecord, Slots, Reference
  <2>3. modules' = Flagged(function_pool_flags)'
    BY <1>4 DEF Typings, FunctionTypings
  <2> QED
    BY <1>4, <2>2, <2>3 DEF FunctionTypings
<1>8. MemTyped'
  BY DEF Typings, MemTyped, Pool, PoolEnd
<1>9. Moves(G, D)
  <2>1. D \in SUBSET G /\ \A r \in D : r.type # type_pointer
    BY <1>2, Tags
  <2>2. \A r \in G \ D : r.type = AST_pointer /\ Solid(r) /\ Word(r.val) = basicblock =>
               Ref(Word(r.val + 1), type_roots[1]) \notin D
    <3>1. ASSUME NEW r \in G, r.type = AST_pointer, Solid(r), Word(r.val) = basicblock
          PROVE  Ref(Word(r.val + 1), type_roots[1]) \notin D
      <4>1. PICK t : t = type_roots[1]
        OBVIOUS
      <4>2. IsHeapType(t)
        BY <4>1, RootType
      <4> QED
        BY <4>1, <4>2, Refs, Tags
    <3> QED
      BY <3>1
  <2>3. \A r \in G \ D : r.type = function_pointer /\ r.val # 0 =>
               r.val \in Flagged(function_pool_flags)' /\ functions'[r.val] = functions[r.val]
    <3>1. SUFFICES ASSUME NEW r \in G \ D, r.type = function_pointer, r.val # 0
                   PROVE  r.val \in Flagged(function_pool_flags)' /\ functions'[r.val] = functions[r.val]
      OBVIOUS
    <3>2. r.val \in Flagged(function_pool_flags) /\ r \in Reference
      BY <1>1, <3>1 DEF Shape, Sound
    <3>3. r.val # f
      BY <3>1, <3>2, Refs
    <3> QED
      BY <1>4, <1>6, <3>2, <3>3, FlaggedSlots
  <2>4. \A w : Word(w)' = Word(w)
    BY DEF Word, Pool, PoolEnd
  <2>5. objects \subseteq objects' /\ type_roots' = type_roots
    BY DEF heapVars
  <2> HIDE DEF D
  <2> QED
    BY <1>1, <1>8, <2>1, <2>2, <2>3, <2>4, <2>5, MovesIntro
<1>10. Fits(G, rk, d)' /\ OnMenu(d)'
  <2>1. OnMenu(d)
    BY <1>2 DEF World, AllOnMenu
  <2>2. "compile" \in Menu
    BY <1>2, <2>1 DEF OnMenu, Slots
  <2> QED
    BY <1>4, <1>6, <2>2, FunctionFits
<1>11. G \cup N = G
  OBVIOUS
<1>12. N \in SUBSET Reference /\ (\A r \in N : r.type # type_pointer) /\ Distinct(G, N) /\ D \in SUBSET G
  BY <1>2 DEF Distinct
<1>13. \A r \in D \cup N : Fits(G \cup N, rk, r)' /\ OnMenu(r)'
  BY <1>10
<1>14. RootRefs' \cup held' \subseteq G
  BY HeldIn
<1>15. CopierIn(G)'
  BY DEF CopierIn, NoCopy
<1> HIDE DEF D, N, d
<1>16. World(G \cup N, rk)'
  <2>1. /\ RootRefs' \cup held' \subseteq G \cup N /\ CopierIn(G \cup N)' /\ type_hash_table' = type_hash_table
        /\ Guarded(G \cup N)'
    BY <1>11, <1>14, <1>15
  <2>2. N \in SUBSET Reference /\ D \in SUBSET G /\ Distinct(G, N)
    BY <1>12
  <2>3. \A r \in N : r.type # type_pointer
    BY <1>12
  <2> QED
    BY <1>9, <1>13, <2>1, <2>2, <2>3, ProgramGrows
<1>17. Typings'
  <2>1. held' \subseteq Reference /\ type_hash_table' \subseteq Nat
    BY <1>1 DEF Typings
  <2> QED
    BY <1>4, <1>7, <1>8, <2>1, TypingsKept
<1> QED
  BY <1>3, <1>11, <1>16, <1>17 DEF ProgramInv

\* The operation overwrite_func keeps the world.
LEMMA OverwriteStep ==
    ASSUME HeapInv, Typings, NEW G, NEW rk, World(G, rk), SafeMenu, overwrite_func
    PROVE  ProgramInv'
<1>1. PICK first \in Objects(function_pointer), second \in Objects(function_pointer), t \in ReturnTypes :
        LET a == functions[second].the_AST IN
        \E compiles \in Recompiles(a) :
              /\ functions' = IF compiles THEN [functions EXCEPT ![first] = Function(a, t, BakedIn(a))]
                              ELSE functions
              /\ modules' = IF compiles THEN modules ELSE modules \ {first}
  BY DEF overwrite_func
<1>2. PICK a : a = functions[second].the_AST
  OBVIOUS
<1>3. PICK compiles \in Recompiles(a) :
              /\ functions' = IF compiles THEN [functions EXCEPT ![first] = Function(a, t, BakedIn(a))]
                              ELSE functions
              /\ modules' = IF compiles THEN modules ELSE modules \ {first}
  BY <1>1, <1>2
<1>4. compiles = TRUE /\ a # 0
  BY <1>3 DEF SafeMenu, Recompiles
<1>5. Ref(a, AST_pointer) \in G
  BY <1>2, FunctionIn
<1>6. PICK code : code = BakedIn(a)
  OBVIOUS
<1>7. PICK fn : fn = Function(a, t, code)
  OBVIOUS
<1>8. functions' = [functions EXCEPT ![first] = fn] /\ modules' = modules
  BY <1>3, <1>4, <1>6, <1>7
<1>81. code \subseteq G /\ code \in SUBSET Reference
  <2>1. Ref(a, AST_pointer) \in ASTsIn(G) /\ FieldsClosed(ASTsIn(G)) /\ ASTsIn(G) \in SUBSET ASTsIn(G)
    BY <1>4, <1>5, WorldFacts, AllASTs, Refs DEF ASTsIn
  <2>2. Keeps(ASTsIn(G), a, code)
    BY <1>6, <2>1, BakedIsKept
  <2> QED
    BY <2>1, <2>2, KeptIn, WorldFacts
<1>9. /\ first \in Slots /\ first # 0 /\ Ref(first, function_pointer) \in G
      /\ first \in Flagged(function_pool_flags)
  BY FunctionIn
<1>10. Ref(t, type_pointer) \in G
  BY ReturnTypeIn
<1>11. fn \in FunctionRecord /\ fn.the_AST = a /\ fn.return_type = t /\ fn.code = code
  <2>1. Ref(a, AST_pointer) \in Reference /\ Ref(t, type_pointer) \in Reference
    BY <1>5, <1>10, WorldFacts
  <2>2. a \in 0 .. special_value /\ t \in 0 .. special_value
    BY <2>1, Refs
  <2> QED
    BY <1>7, <1>81, <2>2 DEF Function, FunctionRecord
<1>12. held' \subseteq G
  BY DEF overwrite_func, World
<1>13. copier = NoCopy /\ copier' = NoCopy /\ UNCHANGED <<heapVars, mem, type_roots, function_pool_flags, held>>
  BY DEF overwrite_func, Running
<1>14. PICK s : s = second
  OBVIOUS
<1>15. Ref(s, function_pointer) \in G /\ s # 0
  BY <1>14, FunctionIn
<1>16. "compile" \in Menu
  <2>1. OnMenu(Ref(s, function_pointer))
    BY <1>15 DEF World, AllOnMenu
  <2> QED
    BY <1>15, <2>1, Refs DEF OnMenu
<1>17. "basicblock" \in Menu \/ ~ Bakes => fn.code = {}
  <2>1. "basicblock" \in Menu \/ ~ Bakes => "imv" \notin Menu
    BY <1>16 DEF SafeMenu, Bakes
  <2> QED
    BY <1>4, <1>5, <1>6, <1>11, <2>1, BakedNothing
<1>18. ASSUME NEW P, Guard(G, P)
       PROVE  held' \cap P = {} /\ (Bakes => Keeps(P, fn.the_AST, fn.code))
  <2>1. held' \cap P = {} /\ P \in SUBSET ASTsIn(G) /\ FieldsClosed(P)
    BY <1>13, <1>18 DEF Guard
  <2>2. ASSUME Bakes
        PROVE  Keeps(P, fn.the_AST, fn.code)
    <3>1. KeptBy(P, functions[s])
      BY <1>15, <1>18, Refs DEF Guard
    <3>2. Ref(a, AST_pointer) \in P
      BY <1>2, <1>14, <2>2, <3>1 DEF KeptBy, Keeps
    <3>3. Keeps(P, a, BakedIn(a))
      BY <2>1, <3>2, BakedIsKept
    <3> QED
      BY <1>6, <1>11, <3>3
  <2> QED
    BY <2>1, <2>2
<1>19. Guarded(G)'
  BY <1>8, <1>9, <1>13, <1>17, <1>18, GuardSwaps
<1> QED
  BY <1>5, <1>8, <1>9, <1>10, <1>11, <1>81, <1>12, <1>19, FunctionChanges DEF overwrite_func, Running

\* The operation find_random_AST keeps the world.
LEMMA FindRandomASTStep ==
    ASSUME HeapInv, Typings, NEW G, NEW rk, World(G, rk), SafeMenu, find_random_AST
    PROVE  ProgramInv'
<1>1. PICK f \in Objects(function_pointer) :
        /\ functions[f].the_AST # 0
        /\ \E r \in Range(AST_range(functions[f].the_AST)) :
            functions' = [functions EXCEPT ![f].the_AST = r.val] /\ Hold(r.val, AST_pointer)
  BY DEF find_random_AST
<1>2. PICK a : a = functions[f].the_AST
  OBVIOUS
<1>3. PICK r \in Range(AST_range(a)) :
            functions' = [functions EXCEPT ![f].the_AST = r.val] /\ Hold(r.val, AST_pointer)
  BY <1>1, <1>2
<1>4. /\ f \in Slots /\ f # 0 /\ Ref(f, function_pointer) \in G /\ functions[f].code \subseteq G
      /\ Ref(a, AST_pointer) \in G
      /\ Ref(functions[f].return_type, type_pointer) \in G
      /\ f \in Flagged(function_pool_flags)
  BY <1>1, <1>2, FunctionIn
<1>5. Ref(r.val, AST_pointer) \in G /\ r.val \in 0 .. special_value
  BY <1>1, <1>2, <1>3, <1>4, ASTRangeIn
<1>6. PICK fn : fn = [functions[f] EXCEPT !.the_AST = r.val]
  OBVIOUS
<1>7. functions \in [Slots -> FunctionRecord]
  BY DEF Typings, FunctionTypings, Functional, FunctionRecord
<1>8. functions[f] \in FunctionRecord
  BY <1>4, <1>7
<1>9. fn \in FunctionRecord /\ fn.the_AST = r.val /\ fn.return_type = functions[f].return_type /\ fn.code = functions[f].code
  BY <1>4, <1>5, <1>6, <1>8 DEF FunctionRecord
<1>10. functions' = [functions EXCEPT ![f] = fn]
  BY <1>3, <1>6
<1>11. held' \subseteq G
  BY <1>3, <1>5, Held DEF World
<1>12. copier = NoCopy /\ copier' = NoCopy /\ UNCHANGED <<heapVars, mem, type_roots, function_pool_flags>>
  BY DEF find_random_AST, Running
<1>13. ~ Bakes
  BY DEF SafeMenu, find_random_AST, Running
<1>14. fn.code = {}
  <2>1. CASE "basicblock" \in Menu
    BY <1>4, <1>9, <2>1, Refs DEF World, Guarded, CodeEmpty
  <2>2. CASE "basicblock" \notin Menu
    <3>1. PICK P : Guard(G, P)
      BY <2>2 DEF World, Guarded
    <3>2. KeptBy(P, functions[f])
      BY <1>4, <3>1, Refs DEF Guard
    <3> QED
      BY <1>9, <1>13, <3>2 DEF KeptBy
  <2> QED
    BY <2>1, <2>2
<1>15. \A P : Guard(G, P) => held' \cap P = {} /\ (Bakes => Keeps(P, fn.the_AST, fn.code))
  BY <1>13 DEF Guard
<1>16. Guarded(G)'
  BY <1>4, <1>10, <1>12, <1>14, <1>15, GuardSwaps
<1> QED
  BY <1>4, <1>5, <1>9, <1>10, <1>11, <1>16, FunctionChanges DEF find_random_AST, Running

\* Quotient and remainder.
LEMMA DivisionFacts ==
    ASSUME NEW B \in Nat \ {0}, NEW x \in Nat
    PROVE  x \div B \in Nat /\ x % B \in 0 .. B - 1 /\ x = B * (x \div B) + (x % B)
OBVIOUS

\* The block of a slot is one of the blocks.
LEMMA DivisionBelow ==
    ASSUME NEW B \in Nat \ {0}, NEW x \in Nat, NEW F \in Nat, x < F * B
    PROVE  x \div B < F
<1> PICK q, r : q = x \div B /\ r = x % B
  OBVIOUS
<1>1. q \in Nat /\ r \in 0 .. B - 1 /\ x = B * q + r
  BY DivisionFacts
<1>2. CASE q >= F
  <2>1. PICK e \in Nat : q = F + e
    <3>1. q - F \in Nat /\ q = F + (q - F)
      BY <1>1, <1>2
    <3> QED
      BY <3>1
  <2>2. B * q = F * B + B * e
    BY <2>1
  <2>3. B * e \in Nat
    BY <2>1
  <2> QED
    BY <1>1, <2>2, <2>3
<1> QED
  BY <1>1, <1>2

\* A slot has a block and a bit of its own.
LEMMA SlotFacts ==
    /\ \A s \in Slots : SlotBlock(s) \in Blocks /\ (s - 1) % BlockBits \in 0 .. BlockBits - 1
    /\ \A s, o \in Slots : SlotBlock(s) = SlotBlock(o) /\ (s - 1) % BlockBits = (o - 1) % BlockBits => s = o
<1>1. BlockBits \in Nat \ {0} /\ FunctionBlocks \in Nat \ {0} /\ FunctionBlocks * BlockBits \in Nat
  BY CollectorAssumption
<1>2. ASSUME NEW s \in Slots
      PROVE  /\ s - 1 \in Nat /\ s \in Nat /\ SlotBlock(s) \in Blocks /\ (s - 1) % BlockBits \in 0 .. BlockBits - 1
             /\ s = BlockBits * SlotBlock(s) + ((s - 1) % BlockBits) + 1
  <2>1. s - 1 \in Nat /\ s \in Nat /\ s - 1 < FunctionBlocks * BlockBits
    BY <1>1 DEF Slots
  <2>2. (s - 1) \div BlockBits < FunctionBlocks
    BY <1>1, <2>1, DivisionBelow
  <2>3. /\ (s - 1) \div BlockBits \in Nat /\ (s - 1) % BlockBits \in 0 .. BlockBits - 1
        /\ s - 1 = BlockBits * ((s - 1) \div BlockBits) + ((s - 1) % BlockBits)
    BY <1>1, <2>1, DivisionFacts
  <2> PICK q, r : q = (s - 1) \div BlockBits /\ r = (s - 1) % BlockBits
    OBVIOUS
  <2>4. q \in Nat /\ r \in Nat /\ s - 1 = BlockBits * q + r /\ q < FunctionBlocks
    BY <1>1, <2>2, <2>3
  <2>5. s = BlockBits * q + r + 1
    <3>1. BlockBits * q \in Nat
      <4>1. \A x, y \in Nat : x * y \in Nat
        OBVIOUS
      <4>2. q \in Nat /\ BlockBits \in Nat
        BY <1>1, <2>4
      <4> QED
        BY <4>1, <4>2
    <3> QED
      BY <2>1, <2>4, <3>1
  <2>6. q \in Blocks
    BY <1>1, <2>4 DEF Blocks
  <2> QED
    BY <2>1, <2>3, <2>5, <2>6 DEF SlotBlock
<1>3. \A s \in Slots : SlotBlock(s) \in Blocks /\ (s - 1) % BlockBits \in 0 .. BlockBits - 1
  BY <1>2
<1>4. ASSUME NEW s \in Slots, NEW o \in Slots, SlotBlock(s) = SlotBlock(o), (s - 1) % BlockBits = (o - 1) % BlockBits
      PROVE  s = o
  <2> PICK q, r : q = SlotBlock(s) /\ r = (s - 1) % BlockBits
    OBVIOUS
  <2>1. s = BlockBits * q + r + 1
    BY <1>2
  <2>2. o = BlockBits * q + r + 1
    BY <1>2, <1>4
  <2> QED
    BY <2>1, <2>2
<1> QED
  BY <1>3, <1>4

\* The sum that sets the bit of a slot.
LEMMA SetFlag ==
    ASSUME NEW flags \in Masks, NEW s \in Slots, s \notin Flagged(flags),
           NEW set, set = [flags EXCEPT ![SlotBlock(s)] = @ + SlotBit(s)]
    PROVE  set \in Masks /\ Flagged(set) = Flagged(flags) \cup {s}
<1> PICK b, i : b = SlotBlock(s) /\ i = (s - 1) % BlockBits
  OBVIOUS
<1>1. b \in Blocks /\ i \in 0 .. BlockBits - 1 /\ BlockBits \in Nat
  BY SlotFacts, CollectorAssumption
<1>2. \A x \in Blocks : flags[x] \in 0 .. Power[BlockBits] - 1
  BY DEF Masks
<1>3. PICK f : f = flags[b]
  OBVIOUS
<1>4. f \in 0 .. Power[BlockBits] - 1 /\ f \in Nat
  BY <1>1, <1>2, <1>3
<1>5. ~ Bit(f, i)
  BY <1>3 DEF Flagged, SlotBlock
<1>6. /\ f + Power[i] \in 0 .. Power[BlockBits] - 1
      /\ \A j \in Nat : Bit(f + Power[i], j) <=> Bit(f, j) \/ j = i
  BY <1>1, <1>4, <1>5, SetBit
<1>7. set = [flags EXCEPT ![b] = f + Power[i]]
  BY <1>3 DEF SlotBit
<1>8. set \in Masks
  BY <1>1, <1>6, <1>7 DEF Masks
<1>9. ASSUME NEW o \in Slots
      PROVE  o \in Flagged(set) <=> o \in Flagged(flags) \/ o = s
  <2> PICK c, j : c = SlotBlock(o) /\ j = (o - 1) % BlockBits
    OBVIOUS
  <2>1. c \in Blocks /\ j \in 0 .. BlockBits - 1 /\ j \in Nat
    BY <1>1, SlotFacts
  <2>2. (o \in Flagged(set) <=> Bit(set[c], j)) /\ (o \in Flagged(flags) <=> Bit(flags[c], j))
    BY DEF Flagged, SlotBlock
  <2>3. CASE c # b
    <3>1. set[c] = flags[c] /\ o # s
      BY <1>1, <1>7, <2>1, <2>3 DEF Masks
    <3> QED
      BY <2>2, <3>1
  <2>4. CASE c = b
    <3>1. set[c] = f + Power[i]
      BY <1>1, <1>7, <2>4 DEF Masks
    <3>2. Bit(set[c], j) <=> Bit(f, j) \/ j = i
      BY <1>6, <2>1, <3>1
    <3>3. j = i <=> o = s
      BY <2>4, SlotFacts
    <3> QED
      BY <1>3, <2>2, <2>4, <3>2, <3>3
  <2> QED
    BY <2>3, <2>4
<1>10. Flagged(set) \subseteq Slots /\ Flagged(flags) \subseteq Slots
  BY DEF Flagged
<1> QED
  BY <1>8, <1>9, <1>10

\* When the copy is complete, copies lead to copies.
LEMMA CopiesTogether ==
    ASSUME HeapInv, Typings, NEW G, NEW rk, World(G, rk), "basicblock" \notin Menu, NEW P, Guard(G, P),
           copier # NoCopy, copier.todo = <<>>
    PROVE  /\ Copies \subseteq ASTsIn(G) /\ FieldsClosed(Copies)
           /\ copier.source \in DOMAIN copier.copied /\ copier.result = copier.copied[copier.source]
           /\ copier.result # 0 => Ref(copier.result, AST_pointer) \in Copies
<1>1. /\ Typed /\ Shape(G, rk) /\ G \in SUBSET Reference /\ AllOnMenu(G)
  BY WorldFacts DEF World
<1>2. PICK f : f = copier.copied
  OBVIOUS
<1>3. /\ f[0] = 0 /\ \A x \in DOMAIN f : Ref(x, AST_pointer) \in G
      /\ \A x \in DOMAIN f \ {0} : CopyOf(f, <<>>, x, f[x])
  BY <1>2 DEF Guard, CopierGuard, Mirror
<1>4. Range(copier.todo) = {}
  BY DEF Range
<1>5. copier.source \in DOMAIN copier.copied /\ copier.result = copier.copied[copier.source]
  BY <1>4 DEF Guard, CopierGuard
<1>6. \A x \in DOMAIN f : Ref(f[x], AST_pointer) \in G
  BY <1>2 DEF World, CopierIn
<1>7. Copies = {Ref(f[x], AST_pointer) : x \in DOMAIN f} \ {Ref(0, AST_pointer)}
  BY <1>2 DEF Copies
<1>8. \A v : Ref(v, AST_pointer).val = v /\ Ref(v, AST_pointer).type = AST_pointer
  BY Refs
<1>9. Copies \subseteq ASTsIn(G)
  BY <1>6, <1>7, <1>8 DEF ASTsIn
<1>10. copier.result # 0 => Ref(copier.result, AST_pointer) \in Copies
  BY <1>2, <1>5, <1>7, <1>8
<1>11. ASSUME NEW r \in Copies, NEW q \in Targets(r), q.type = AST_pointer, q.val # 0
       PROVE  q \in Copies
  <2>1. PICK x \in DOMAIN f : r = Ref(f[x], AST_pointer)
    BY <1>7
  <2>2. f[x] # 0 /\ x # 0
    BY <1>3, <1>7, <2>1
  <2>3. PICK c : c = f[x]
    OBVIOUS
  <2>4. r \in G /\ r.val = c /\ r.type = AST_pointer /\ c # 0 /\ r = Ref(c, AST_pointer)
    BY <1>6, <1>8, <2>1, <2>2, <2>3
  <2>5. Solid(r)
    BY <2>4 DEF Solid, integer, AST_pointer, function_pointer, type_pointer
  <2>6. IsTag(Word(c)) /\ Leads(r) /\ c \in Nat
    BY <1>1, <2>4, <2>5, ASTFacts, SolidFacts
  <2>7. Word(c) # basicblock
    BY <1>1, <2>4, <2>5 DEF AllOnMenu, OnMenu
  <2>8. CASE Word(c) = imv
    <3>1. Targets(r) = {Ref(Word(c + 1), dynamic_object)}
      BY <1>1, <2>4, <2>6, <2>8, ASTTargets DEF Typed
    <3> QED
      BY <1>11, <3>1, Refs, Tags
  <2>9. CASE Word(c) \in DOMAIN ASTFields
    <3>1. Targets(r) = {Ref(Word(c + i), AST_pointer) : i \in 1 .. ASTFields[Word(c)]}
      BY <1>1, <2>4, <2>6, <2>9, ASTTargets DEF Typed
    <3>2. PICK i \in 1 .. ASTFields[Word(c)] : q = Ref(Word(c + i), AST_pointer)
      BY <3>1
    <3>3. CopyOf(f, <<>>, x, c)
      BY <1>3, <2>2, <2>3
    <3>4. Word(x) = Word(c) /\ FieldCopied(f, <<>>, x, c, i)
      BY <2>9, <3>3 DEF CopyOf
    <3>5. Word(x + i) \in DOMAIN f /\ Word(c + i) = f[Word(x + i)]
      BY <3>4 DEF FieldCopied, Range
    <3>6. Word(c + i) # 0
      BY <1>8, <1>11, <3>2
    <3> QED
      BY <1>7, <1>8, <3>2, <3>5, <3>6
  <2> QED
    BY <2>6, <2>7, <2>8, <2>9 DEF IsTag
<1>12. FieldsClosed(Copies)
  BY <1>11 DEF FieldsClosed
<1> QED
  BY <1>5, <1>9, <1>10, <1>12

\* The copy keeps what the original keeps.
LEMMA CopyKeeps ==
    ASSUME HeapInv, Typings, NEW G, NEW rk, World(G, rk), "basicblock" \notin Menu, NEW P, Guard(G, P),
           copier # NoCopy, copier.todo = <<>>,
           NEW W \in SUBSET ASTsIn(G), NEW code, Keeps(W, copier.source, code)
    PROVE  Keeps(P \cup Copies, copier.result, code)
<1>1. /\ Typed /\ Shape(G, rk) /\ G \in SUBSET Reference /\ AllOnMenu(G)
  BY WorldFacts DEF World
<1>2. PICK f : f = copier.copied
  OBVIOUS
<1>3. /\ f[0] = 0 /\ \A x \in DOMAIN f : Ref(x, AST_pointer) \in G
      /\ \A x \in DOMAIN f \ {0} : CopyOf(f, <<>>, x, f[x])
  BY <1>2 DEF Guard, CopierGuard, Mirror
<1>4. \A x \in DOMAIN f : Ref(f[x], AST_pointer) \in G
  BY <1>2 DEF World, CopierIn
<1>5. Copies = {Ref(f[x], AST_pointer) : x \in DOMAIN f} \ {Ref(0, AST_pointer)}
  BY <1>2 DEF Copies
<1>6. /\ Copies \subseteq ASTsIn(G) /\ FieldsClosed(Copies)
      /\ copier.source \in DOMAIN f /\ copier.result = f[copier.source]
      /\ copier.result # 0 => Ref(copier.result, AST_pointer) \in Copies
  BY <1>2, CopiesTogether
<1>7. \A v : Ref(v, AST_pointer).val = v /\ Ref(v, AST_pointer).type = AST_pointer
  BY Refs
<1>8. Ref(copier.source, AST_pointer) \in W /\ copier.source # 0 /\ FieldsClosed(W)
  BY <1>7 DEF Keeps, ASTsIn
<1>9. copier.result # 0
  BY <1>3, <1>6, <1>8 DEF CopyOf
<1>10. P \subseteq ASTsIn(G) /\ FieldsClosed(P) /\ FieldsClosed(P \cup Copies)
  BY <1>6 DEF Guard, FieldsClosed
<1>11. ASSUME NEW T \in SUBSET (P \cup Copies), FieldsClosed(T), Ref(copier.result, AST_pointer) \in T,
              NEW q \in code
       PROVE  Holds(T, q)
  <2>1. PICK U : U = {r \in W : r.val \in DOMAIN f /\ Ref(f[r.val], AST_pointer) \in T}
    OBVIOUS
  <2>2. Ref(copier.source, AST_pointer) \in U
    BY <1>6, <1>7, <1>8, <1>11, <2>1
  <2>3. ASSUME NEW r \in U
        PROVE  /\ r.val # 0 /\ r.type = AST_pointer /\ r = Ref(r.val, AST_pointer) /\ Leads(r) /\ r \in G
               /\ CopyOf(f, <<>>, r.val, f[r.val]) /\ IsTag(Word(r.val)) /\ Word(r.val) # basicblock
               /\ r.val \in Nat /\ f[r.val] \in Nat /\ Leads(Ref(f[r.val], AST_pointer))
               /\ Word(f[r.val]) = Word(r.val)
    <3>1. r.val # 0 /\ r.type = AST_pointer /\ r \in G /\ r \in Reference
      BY <1>1, <2>1, <2>3 DEF ASTsIn
    <3>2. r = Ref(r.val, AST_pointer)
      BY <3>1, Refs
    <3>3. Solid(r)
      BY <3>1 DEF Solid, integer, AST_pointer, function_pointer, type_pointer
    <3>4. IsTag(Word(r.val)) /\ Leads(r) /\ r.val \in Nat
      BY <1>1, <3>1, <3>3, ASTFacts, SolidFacts
    <3>5. Word(r.val) # basicblock
      BY <1>1, <3>1, <3>3 DEF AllOnMenu, OnMenu
    <3>6. CopyOf(f, <<>>, r.val, f[r.val])
      BY <1>3, <2>1, <3>1
    <3>7. f[r.val] # 0 /\ Word(f[r.val]) = Word(r.val)
      BY <3>6 DEF CopyOf
    <3>8. PICK s : s = Ref(f[r.val], AST_pointer)
      OBVIOUS
    <3>9. s \in G /\ s.val = f[r.val] /\ s.type = AST_pointer
      BY <1>4, <1>7, <2>1, <3>8
    <3>10. Solid(s)
      BY <3>7, <3>9 DEF Solid, integer, AST_pointer, function_pointer, type_pointer
    <3>11. Leads(s) /\ s.val \in Nat
      BY <1>1, <3>9, <3>10, SolidFacts
    <3> QED
      BY <3>1, <3>2, <3>4, <3>5, <3>6, <3>7, <3>8, <3>9, <3>11
  <2>4. ASSUME NEW r \in U, NEW p \in Targets(r), p.type = AST_pointer, p.val # 0
        PROVE  p \in U
    <3>1. p \in W
      BY <1>8, <2>1, <2>4 DEF FieldsClosed
    <3>2. PICK x, c : x = r.val /\ c = f[x]
      OBVIOUS
    <3>3. CASE Word(x) = imv
      <4>1. Targets(r) = {Ref(Word(x + 1), dynamic_object)}
        BY <1>1, <2>3, <3>2, <3>3, ASTTargets DEF Typed
      <4> QED
        BY <2>4, <4>1, Refs, Tags
    <3>4. CASE Word(x) \in DOMAIN ASTFields
      <4>1. Targets(r) = {Ref(Word(x + i), AST_pointer) : i \in 1 .. ASTFields[Word(x)]}
        BY <1>1, <2>3, <3>2, <3>4, ASTTargets DEF Typed
      <4>2. PICK i \in 1 .. ASTFields[Word(x)] : p = Ref(Word(x + i), AST_pointer)
        BY <2>4, <4>1
      <4>3. Targets(Ref(c, AST_pointer)) = {Ref(Word(c + j), AST_pointer) : j \in 1 .. ASTFields[Word(c)]}
        BY <1>1, <2>3, <3>2, <3>4, ASTTargets DEF Typed
      <4>4. FieldCopied(f, <<>>, x, c, i)
        BY <2>3, <3>2, <3>4 DEF CopyOf
      <4>5. Word(x + i) \in DOMAIN f /\ Word(c + i) = f[Word(x + i)]
        BY <4>4 DEF FieldCopied, Range
      <4>6. Word(x + i) # 0 /\ p.val = Word(x + i)
        BY <1>7, <2>4, <4>2
      <4>7. Word(c + i) # 0
        BY <1>3, <4>5, <4>6 DEF CopyOf
      <4>8. Ref(Word(c + i), AST_pointer) \in Targets(Ref(c, AST_pointer))
        BY <2>3, <3>2, <4>3
      <4>9. Ref(c, AST_pointer) \in T
        BY <2>1, <2>4, <3>2
      <4>10. Ref(Word(c + i), AST_pointer) \in T
        BY <1>7, <1>11, <4>7, <4>8, <4>9 DEF FieldsClosed
      <4> QED
        BY <2>1, <3>1, <4>5, <4>6, <4>10
    <3> QED
      BY <2>3, <3>2, <3>3, <3>4 DEF IsTag
  <2>5. FieldsClosed(U) /\ U \in SUBSET W
    BY <2>1, <2>4 DEF FieldsClosed
  <2>6. Holds(U, q)
    BY <2>2, <2>5, <1>11 DEF Keeps
  <2>7. PICK r \in U : \E d \in Targets(r) : d.type = dynamic_object /\ q \in Targets(d)
    BY <2>6 DEF Holds
  <2>8. PICK d \in Targets(r) : d.type = dynamic_object /\ q \in Targets(d)
    BY <2>7
  <2>9. PICK x, c : x = r.val /\ c = f[x]
    OBVIOUS
  <2>10. Word(x) = imv
    <3>1. ASSUME Word(x) \in DOMAIN ASTFields
          PROVE  FALSE
      <4>1. Targets(r) = {Ref(Word(x + i), AST_pointer) : i \in 1 .. ASTFields[Word(x)]}
        BY <1>1, <2>3, <2>9, <3>1, ASTTargets DEF Typed
      <4> QED
        BY <1>7, <2>8, <4>1, Tags
    <3> QED
      BY <2>3, <2>9, <3>1 DEF IsTag
  <2>11. Targets(r) = {Ref(Word(x + 1), dynamic_object)}
         /\ Targets(Ref(c, AST_pointer)) = {Ref(Word(c + 1), dynamic_object)}
    BY <1>1, <2>3, <2>9, <2>10, ASTTargets DEF Typed
  <2>12. d = Ref(Word(x + 1), dynamic_object)
    BY <2>8, <2>11
  <2>13. ObjectCopied(x, c)
    BY <2>3, <2>9, <2>10 DEF CopyOf
  <2>14. Word(x + 1) # 0
    <3>1. Leads(d)
      BY <2>8 DEF Targets
    <3> QED
      BY <2>12, <3>1, Refs DEF Leads
  <2>15. Targets(Ref(Word(c + 1), dynamic_object)) = Targets(d)
    BY <2>12, <2>13, <2>14 DEF ObjectCopied
  <2>16. Ref(c, AST_pointer) \in T /\ Ref(Word(c + 1), dynamic_object) \in Targets(Ref(c, AST_pointer))
    BY <2>1, <2>9, <2>11
  <2>17. Ref(Word(c + 1), dynamic_object).type = dynamic_object
    BY Refs
  <2> QED
    BY <2>8, <2>15, <2>16, <2>17 DEF Holds
<1> QED
  BY <1>6, <1>9, <1>10, <1>11 DEF Keeps

\* More ASTs keep no less.
LEMMA KeepsMore ==
    ASSUME NEW W, NEW V, W \subseteq V, FieldsClosed(V), NEW a, NEW code, Keeps(W, a, code)
    PROVE  Keeps(V, a, code)
<1>1. ASSUME NEW T \in SUBSET V, FieldsClosed(T), Ref(a, AST_pointer) \in T, NEW q \in code
      PROVE  Holds(T, q)
  <2>1. FieldsClosed(T \cap W) /\ Ref(a, AST_pointer) \in T \cap W /\ T \cap W \in SUBSET W
    BY <1>1 DEF Keeps, FieldsClosed
  <2>2. Holds(T \cap W, q)
    BY <1>1, <2>1 DEF Keeps
  <2> QED
    BY <2>2 DEF Holds
<1> QED
  BY <1>1 DEF Keeps

\* At the end of a copy the ASTs that the functions had are still only theirs.
LEMMA CopierEnds ==
    ASSUME HeapInv, Typings, NEW G, NEW rk, World(G, rk), "basicblock" \notin Menu, NEW P, Guard(G, P),
           copier # NoCopy, copier.todo = <<>>
    PROVE  /\ \A r \in G : r \notin P => Targets(r) \cap P = {}
           /\ held \cap P = {} /\ Ref(copier.result, AST_pointer) \notin P
<1>1. /\ Copies \subseteq ASTsIn(G) /\ FieldsClosed(Copies)
      /\ copier.result # 0 => Ref(copier.result, AST_pointer) \in Copies
  BY CopiesTogether
<1>2. /\ P \subseteq ASTsIn(G) /\ held \cap (P \cup Copies) = {} /\ P \cap Copies = {}
      /\ \A r \in G : r \notin P \cup Copies => Targets(r) \cap (P \cup Copies) = {}
  BY DEF Guard, CopierGuard
<1>3. ASSUME NEW r \in G, r \notin P, NEW q \in Targets(r), q \in P
      PROVE  FALSE
  <2>1. r \in Copies
    BY <1>2, <1>3
  <2>2. q.type = AST_pointer /\ q.val # 0
    BY <1>2, <1>3 DEF ASTsIn
  <2>3. q \in Copies
    BY <1>1, <1>3, <2>1, <2>2 DEF FieldsClosed
  <2> QED
    BY <1>2, <1>3, <2>3
<1>4. Ref(copier.result, AST_pointer) \notin P
  <2>1. copier.result = 0 => Ref(copier.result, AST_pointer).val = 0
    BY Refs
  <2> QED
    BY <1>1, <1>2, <2>1 DEF ASTsIn
<1> QED
  BY <1>2, <1>3, <1>4

\* The copy becomes public.
LEMMA ResultGuarded ==
    ASSUME HeapInv, Typings, NEW G, NEW rk, World(G, rk), copier # NoCopy, copier.todo = <<>>, copier' = NoCopy,
           UNCHANGED <<heapVars, functionVars, mem, type_roots>>,
           held' \subseteq held \cup {Ref(copier.result, AST_pointer)}
    PROVE  Guarded(G)'
<1>1. CASE "basicblock" \in Menu
  <2>1. Guarded(G \cup {})'
    <3>1. functions' = functions /\ (copier' # NoCopy => copier'.code = {})
      BY DEF functionVars
    <3>2. \A r \in {} : r.type # function_pointer
      OBVIOUS
    <3> QED
      BY <1>1, <3>1, <3>2, BlocksGuarded DEF World
  <2> QED
    <3>1. G \cup {} = G
      OBVIOUS
    <3> QED
      BY <2>1, <3>1
<1>2. CASE "basicblock" \notin Menu
  <2>1. PICK P : Guard(G, P)
    BY <1>2 DEF World, Guarded
  <2>2. Typed /\ Shape(G, rk)
    BY WorldFacts
  <2>3. Still
    BY DEF Still, heapVars, functionVars
  <2>4. \A r \in G : Targets(r)' = Targets(r)
    BY <2>2, <2>3, StillShape
  <2>5. P \subseteq ASTsIn(G) /\ FieldsClosed(P) /\ (~ Bakes => P = {})
        /\ \A r \in G : r.type = function_pointer /\ r.val # 0 => KeptBy(P, functions[r.val])
    BY <2>1 DEF Guard
  <2>6. SameBelow(P)
    <3>1. \A r \in P : r \in G /\ Targets(r) \subseteq G
      BY <2>2, <2>5 DEF ASTsIn, Shape, Closed
    <3> QED
      BY <2>4, <3>1 DEF SameBelow
  <2>7. FieldsClosed(P)' /\ P \subseteq ASTsIn(G)'
    BY <2>5, <2>6, KeepsStays DEF ASTsIn, AST_pointer
  <2>8. /\ \A r \in G : r \notin P => Targets(r) \cap P = {}
        /\ held \cap P = {} /\ Ref(copier.result, AST_pointer) \notin P
    BY <1>2, <2>1, CopierEnds
  <2>9. Copies' = {}
    BY DEF Copies, NoCopy
  <2>10. \A r \in G : r \notin P \cup Copies' => Targets(r)' \cap (P \cup Copies') = {}
    BY <2>4, <2>8, <2>9
  <2>11. held' \cap (P \cup Copies') = {}
    BY <2>8, <2>9
  <2>12. ASSUME NEW r \in G, r.type = function_pointer, r.val # 0
         PROVE  KeptBy(P, functions[r.val])'
    <3>1. functions'[r.val] = functions[r.val]
      BY DEF functionVars
    <3> QED
      BY <2>5, <2>6, <2>12, <3>1, KeptByStays
  <2>13. (\A r \in G : r.type = function_pointer /\ r.val # 0 => KeptBy(P, functions[r.val]))'
    BY <2>12 DEF function_pointer
  <2>14. CopierGuard(G, P)'
    BY DEF CopierGuard, NoCopy
  <2>15. Guard(G, P)'
    BY <2>5, <2>7, <2>10, <2>11, <2>13, <2>14 DEF Guard, Bakes
  <2> QED
    BY <1>2, <2>15 DEF Guarded
<1> QED
  BY <1>1, <1>2

\* The copy is the result.
LEMMA CopyIsResult ==
    ASSUME HeapInv, Typings, NEW G, NEW rk, World(G, rk), compiled, copier.what = "AST_from_function"
    PROVE  ProgramInv'
<1>1. /\ copier # NoCopy /\ phase = "program" /\ copier' = NoCopy /\ Hold(copier.result, AST_pointer)
      /\ copier.todo = <<>>
      /\ UNCHANGED <<heapVars, functionVars, error, mem, type_hash_table, type_roots, event_roots, traceVars>>
  BY DEF compiled
<1>2. Ref(copier.result, AST_pointer) \in G
  BY <1>1 DEF World, CopierIn
<1>3. held' \subseteq G
  BY <1>1, <1>2, Held DEF World
<1>4. RootRefs' \cup held' \subseteq G /\ event_roots' \in Seq(Slots)
  BY <1>1, <1>3, HeldIn
<1>5. CopierIn(G)'
  BY <1>1 DEF CopierIn, NoCopy
<1>6. Guarded(G)'
  <2>1. held' \subseteq held \cup {Ref(copier.result, AST_pointer)}
    BY <1>1, Held
  <2> QED
    BY <1>1, <2>1, ResultGuarded
<1> QED
  BY <1>1, <1>4, <1>5, <1>6, StillGrows

\* The function keeps the copy.
LEMMA FunctionGuarded ==
    ASSUME HeapInv, Typings, NEW G, NEW rk, World(G, rk), copier # NoCopy, copier.todo = <<>>, copier' = NoCopy,
           copier.what = "compile", Moves(G, {}),
           NEW s, \A r \in G : r.type = function_pointer /\ r.val # 0 => r.val # s,
           functions'[s] = Function(copier.result, copier.return_type, copier.code),
           Targets(Ref(s, function_pointer))' \subseteq
               {Ref(copier.return_type, type_pointer)} \cup copier.code,
           held' \subseteq held \cup {Ref(s, function_pointer)}
    PROVE  Guarded(G \cup {Ref(s, function_pointer)})'
<1>0. PICK d : d = Ref(s, function_pointer) /\ d.type = function_pointer /\ d.val = s
  BY Refs
<1>1. PICK N : N = {d} /\ d = Ref(s, function_pointer) /\ d.type = function_pointer /\ d.val = s
  BY <1>0
<1>2. Typed /\ Shape(G, rk)
  BY WorldFacts
<1>3. \A r \in G : r.type = function_pointer /\ r.val # 0 => functions'[r.val] = functions[r.val]
  BY DEF Moves
<1>4. PICK a, t, code : a = copier.result /\ t = copier.return_type /\ code = copier.code
  OBVIOUS
<1>5. functions'[s].the_AST = a /\ functions'[s].code = code
  BY <1>4 DEF Function
<1>6. CASE "basicblock" \in Menu
  <2>1. CodeEmpty(G)
    BY <1>6 DEF World, Guarded
  <2>2. code = {}
    BY <1>4, <2>1 DEF CodeEmpty
  <2>3. \A r \in G \cup N : r.type = function_pointer /\ r.val # 0 => functions'[r.val].code = {}
    BY <1>1, <1>3, <1>5, <2>1, <2>2 DEF CodeEmpty
  <2>4. CodeEmpty(G \cup N)'
    BY <2>3 DEF CodeEmpty, NoCopy, function_pointer
  <2>5. Guarded(G \cup N)'
    BY <1>6, <2>4 DEF Guarded
  <2> QED
    BY <1>1, <2>5 DEF Ref, function_pointer
<1>7. CASE "basicblock" \notin Menu
  <2>1. PICK P : Guard(G, P)
    BY <1>7 DEF World, Guarded
  <2>2. PICK Q : Q = IF Bakes THEN P \cup Copies ELSE {}
    OBVIOUS
  <2>3. /\ P \subseteq ASTsIn(G) /\ FieldsClosed(P) /\ (~ Bakes => P = {})
        /\ \A r \in G : r \notin P \cup Copies => Targets(r) \cap (P \cup Copies) = {}
        /\ held \cap (P \cup Copies) = {}
        /\ \A r \in G : r.type = function_pointer /\ r.val # 0 => KeptBy(P, functions[r.val])
    BY <2>1 DEF Guard
  <2>4. Copies \subseteq ASTsIn(G) /\ FieldsClosed(Copies)
    BY <1>7, <2>1, CopiesTogether
  <2>5. P \cup Copies \subseteq ASTsIn(G) /\ FieldsClosed(P \cup Copies)
    BY <2>3, <2>4 DEF FieldsClosed
  <2>6. Q \subseteq ASTsIn(G) /\ FieldsClosed(Q) /\ Q \subseteq G
    BY <2>2, <2>5 DEF FieldsClosed, ASTsIn
  <2>7. \A r \in G : r \notin Q => Targets(r) \cap Q = {}
    BY <2>2, <2>3
  <2>8. held \cap Q = {}
    BY <2>2, <2>3
  <2>9. SameBelow(Q)
    <3>1. \A r \in {} : r.type # dynamic_object
      OBVIOUS
    <3>2. Q \subseteq G \ {}
      BY <2>6
    <3> QED
      BY <1>2, <3>1, <3>2, SameBelowMoves
  <2>10. FieldsClosed(Q)' /\ Q \subseteq ASTsIn(G \cup N)'
    BY <2>6, <2>9, KeepsStays DEF ASTsIn, AST_pointer
  <2>11. code \cap Q = {} /\ (Bakes => Keeps(Q, a, code)) /\ (~ Bakes => code = {})
    <3>1. CASE Bakes
      <4>1. PICK W \in SUBSET (ASTsIn(G) \ Copies) : Keeps(W, copier.source, code)
        BY <1>4, <2>1, <3>1 DEF Guard, CopierGuard
      <4>2. W \in SUBSET ASTsIn(G)
        OBVIOUS
      <4>3. Keeps(P \cup Copies, copier.result, code)
        BY <1>7, <2>1, <4>1, <4>2, CopyKeeps
      <4>4. code \cap Q = {}
        <5>1. PICK source : source = copier.source
          OBVIOUS
        <5>2. Keeps(W, source, code)
          BY <4>1, <5>1
        <5> QED
          BY <1>2, <2>6, <2>7, <4>2, <5>2, KeptIn
      <4> QED
        BY <1>4, <2>2, <3>1, <4>3, <4>4
    <3>2. CASE ~ Bakes
      BY <1>4, <2>1, <2>2, <3>2 DEF Guard, CopierGuard
    <3> QED
      BY <3>1, <3>2
  <2>12. Copies' = {}
    BY DEF Copies, NoCopy
  <2>13. ASSUME NEW r \in G \cup N, r \notin Q
         PROVE  Targets(r)' \cap Q = {}
    <3>1. CASE r \in G
      <4>1. Targets(r)' = Targets(r)
        <5>1. r \in G \ {}
          BY <3>1
        <5> QED
          BY <1>2, <5>1, RefMoves
      <4> QED
        BY <2>7, <2>13, <3>1, <4>1
    <3>2. CASE r = d
      <4>1. \A q \in Q : q.type = AST_pointer
        BY <2>6 DEF ASTsIn
      <4>2. Targets(d)' \subseteq {Ref(t, type_pointer)} \cup code
        BY <1>1, <1>4 DEF Ref, function_pointer, type_pointer
      <4>3. Ref(t, type_pointer).type # AST_pointer
        BY Refs, Tags
      <4> QED
        BY <2>11, <3>2, <4>1, <4>2, <4>3
    <3> QED
      BY <1>1, <3>1, <3>2
  <2>14. held' \cap Q = {}
    <3>1. d \notin Q
      BY <1>1, <2>6, Tags DEF ASTsIn
    <3> QED
      BY <1>1, <2>8, <3>1
  <2>15. ASSUME NEW r \in G \cup N, r.type = function_pointer, r.val # 0
         PROVE  KeptBy(Q, functions[r.val])'
    <3>1. CASE r \in G
      <4>1. PICK f : f = functions[r.val]
        OBVIOUS
      <4>2. KeptBy(P, f) /\ functions'[r.val] = f
        BY <1>3, <2>3, <2>15, <3>1, <4>1
      <4>3. KeptBy(Q, f)
        <5>1. Bakes => P \subseteq Q /\ FieldsClosed(Q)
          BY <2>2, <2>6
        <5>2. Bakes => Keeps(P, f.the_AST, f.code)
          BY <4>2 DEF KeptBy
        <5>3. Bakes => Keeps(Q, f.the_AST, f.code)
          BY <5>1, <5>2, KeepsMore
        <5> QED
          BY <4>2, <5>3 DEF KeptBy
      <4> QED
        BY <2>9, <4>1, <4>2, <4>3, KeptByStays
    <3>2. CASE r = d
      <4>1. CASE Bakes
        <5>1. Keeps(Q, a, code)'
          BY <2>9, <2>11, <4>1, KeepsStays
        <5>2. Keeps(Q, functions[r.val].the_AST, functions[r.val].code)'
          BY <1>1, <1>5, <3>2, <5>1 DEF Keeps, Ref
        <5> QED
          BY <4>1, <5>2 DEF KeptBy, Bakes
      <4>2. CASE ~ Bakes
        <5>1. functions'[r.val].code = {}
          BY <1>1, <1>5, <2>11, <3>2, <4>2
        <5> QED
          BY <4>2, <5>1 DEF KeptBy, Bakes
      <4> QED
        BY <4>1, <4>2
    <3> QED
      BY <1>1, <3>1, <3>2
  <2>16. Guard(G \cup N, Q)'
    <3>1. CopierGuard(G \cup N, Q)'
      BY DEF CopierGuard, NoCopy
    <3>2. \A r \in G \cup N : r \notin Q \cup Copies' => Targets(r)' \cap (Q \cup Copies') = {}
      BY <2>12, <2>13
    <3>3. held' \cap (Q \cup Copies') = {}
      BY <2>12, <2>14
    <3>4. (\A r \in G \cup N : r.type = function_pointer /\ r.val # 0 => KeptBy(Q, functions[r.val]))'
      BY <2>15 DEF function_pointer
    <3>5. ~ Bakes => Q = {}
      BY <2>2
    <3> QED
      BY <2>10, <3>1, <3>2, <3>3, <3>4, <3>5 DEF Guard, Bakes
  <2>17. Guarded(G \cup N)'
    BY <1>7, <2>16 DEF Guarded
  <2> QED
    BY <1>1, <2>17 DEF Ref, function_pointer
<1> QED
  BY <1>6, <1>7

\* There is no slot for the function.
LEMMA NoSlotLeft ==
    ASSUME HeapInv, Typings, compiled, copier.what # "AST_from_function",
           Slots \subseteq Flagged(function_pool_flags)
    PROVE  HeapInv' /\ Typings' /\ phase' = "aborted"
<1>1. /\ phase = "program" /\ Abort /\ error' = "OOM function"
      /\ UNCHANGED <<functionVars, held, mem, type_hash_table, type_roots, event_roots, traceVars>>
  BY DEF compiled
<1>2. HeapInv' /\ phase' = "aborted"
  BY <1>1, AbortStep DEF Abort
<1>3. Typings'
  <2>1. MemTyped' /\ FunctionTypings' /\ Flagged(function_pool_flags)' = Flagged(function_pool_flags)
    <3>1. MemTyped'
      BY <1>1 DEF Typings, MemTyped, Pool, PoolEnd
    <3> QED
      BY <1>1, <3>1, FunctionsStay DEF Typings
  <2>2. TraceTypings' /\ Flagged(sweep_function_pool_flags)' = Flagged(sweep_function_pool_flags)
    BY <1>1 DEF Typings, TraceTypings, traceVars, Masks, Blocks, Power, Flagged, Slots, Bit
  <2>3. type_roots' \in Seq(Nat) /\ event_roots' \in Seq(Slots)' /\ error' \in {"none", "OOM", "OOM function"}
    BY <1>1 DEF Typings, Slots
  <2>4. held' \subseteq Reference' /\ type_hash_table' \subseteq Nat
    BY <1>1 DEF Typings, Reference
  <2> QED
    BY <2>1, <2>2, <2>3, <2>4 DEF Typings
<1> QED
  BY <1>2, <1>3

\* The function is placed in a free slot.
LEMMA FunctionPlaced ==
    ASSUME HeapInv, Typings, NEW G, NEW rk, World(G, rk), compiled, copier.what # "AST_from_function",
           ~ (Slots \subseteq Flagged(function_pool_flags))
    PROVE  ProgramInv'
<1>0. /\ copier # NoCopy /\ phase = "program" /\ copier' = NoCopy
      /\ UNCHANGED <<mem, type_hash_table, type_roots, event_roots, traceVars>>
  BY DEF compiled
<1>1. PICK s \in Slots :
            /\ allocate_function(s)
            /\ functions' = [functions EXCEPT ![s] =
                                Function(copier.result, copier.return_type, copier.code)]
            /\ modules' = modules \cup {s}
            /\ Hold(s, function_pointer)
            /\ UNCHANGED <<heapVars, error>>
  BY DEF compiled
<1>2. PICK fn : fn = Function(copier.result, copier.return_type, copier.code)
  OBVIOUS
<1>3. /\ Ref(copier.result, AST_pointer) \in G /\ Ref(copier.return_type, type_pointer) \in G
      /\ copier.code \subseteq G /\ "compile" \in Menu /\ copier.what = "compile"
      /\ copier.code \subseteq Reference
  <2>1. CopierTyped /\ copier.what \in {"compile", "AST_from_function"}
    BY <1>0 DEF World, CopierIn, CopierTyped
  <2>2. copier.what = "compile" /\ copier.code \subseteq Reference
    BY <2>1 DEF CopierTyped
  <2> QED
    BY <1>0, <2>2 DEF World, CopierIn
<1>4. /\ fn \in FunctionRecord /\ fn.code \subseteq G
      /\ Ref(fn.the_AST, AST_pointer) \in G /\ Ref(fn.return_type, type_pointer) \in G
  <2>1. Ref(copier.result, AST_pointer) \in Reference /\ Ref(copier.return_type, type_pointer) \in Reference
    BY <1>3, WorldFacts
  <2>2. copier.result \in 0 .. special_value /\ copier.return_type \in 0 .. special_value
    BY <2>1, Refs
  <2> QED
    BY <1>2, <1>3, <2>2 DEF Function, FunctionRecord
<1>5. Typed /\ Shape(G, rk) /\ G \in SUBSET Reference
  BY WorldFacts
<1> DEFINE d == Ref(s, function_pointer)
           D == {}
           N == {d}
<1>6. d.val = s /\ d.type = function_pointer /\ d \in Reference
  <2>1. s \in 0 .. special_value
    BY CollectorAssumption DEF Slots
  <2> QED
    BY <2>1, Refs, Sizes, Tags
<1>7. HeapInv' /\ phase' = "program"
  BY <1>0, <1>1, NextInv DEF heapVars
<1>8. s \notin Flagged(function_pool_flags)
  BY <1>1 DEF allocate_function
<1>9. function_pool_flags' \in Masks /\ Flagged(function_pool_flags') = Flagged(function_pool_flags) \cup {s}
  <2>1. function_pool_flags' = [function_pool_flags EXCEPT ![SlotBlock(s)] = @ + SlotBit(s)]
    BY <1>1 DEF allocate_function
  <2>2. function_pool_flags \in Masks
    BY DEF Typings, FunctionTypings
  <2>3. PICK set : set = function_pool_flags'
    OBVIOUS
  <2>4. set \in Masks /\ Flagged(set) = Flagged(function_pool_flags) \cup {s}
    BY <1>8, <2>1, <2>2, <2>3, SetFlag
  <2> QED
    BY <2>3, <2>4
<1>10. Flagged(function_pool_flags)' = Flagged(function_pool_flags) \cup {s} /\ function_pool_flags' \in Masks'
  BY <1>9 DEF Masks, Blocks, Power, Flagged, Slots, Bit
<1>11. functions \in [Slots -> FunctionRecord]
  BY DEF Typings, FunctionTypings, Functional, FunctionRecord
<1>12. functions'[s] = fn /\ \A o \in Slots : o # s => functions'[o] = functions[o]
  BY <1>1, <1>2, <1>11
<1>13. FunctionTypings'
  <2>1. functions' \in [Slots -> FunctionRecord]
    BY <1>1, <1>2, <1>4, <1>11
  <2>2. Functional'
    BY <2>1 DEF Functional, FunctionRecord, Slots, Reference
  <2>3. modules' = Flagged(function_pool_flags)'
    BY <1>1, <1>10 DEF Typings, FunctionTypings
  <2> QED
    BY <1>10, <2>2, <2>3 DEF FunctionTypings
<1>14. MemTyped'
  BY <1>0 DEF Typings, MemTyped, Pool, PoolEnd
<1>15. Moves(G, D)
  <2>1. D \in SUBSET G /\ \A r \in D : r.type # type_pointer
    OBVIOUS
  <2>2. \A r \in G \ D : r.type = AST_pointer /\ Solid(r) /\ Word(r.val) = basicblock =>
               Ref(Word(r.val + 1), type_roots[1]) \notin D
    OBVIOUS
  <2>3. \A r \in G \ D : r.type = function_pointer /\ r.val # 0 =>
               r.val \in Flagged(function_pool_flags)' /\ functions'[r.val] = functions[r.val]
    <3>1. SUFFICES ASSUME NEW r \in G, r.type = function_pointer, r.val # 0
                   PROVE  r.val \in Flagged(function_pool_flags)' /\ functions'[r.val] = functions[r.val]
      OBVIOUS
    <3>2. r.val \in Flagged(function_pool_flags)
      BY <1>5, <3>1 DEF Shape, Sound
    <3> QED
      BY <1>8, <1>10, <1>12, <3>2, FlaggedSlots
  <2>4. \A w : Word(w)' = Word(w)
    BY <1>0 DEF Word, Pool, PoolEnd
  <2>5. objects \subseteq objects' /\ type_roots' = type_roots
    BY <1>0, <1>1 DEF heapVars
  <2> HIDE DEF D
  <2> QED
    BY <1>5, <1>14, <2>1, <2>2, <2>3, <2>4, <2>5, MovesIntro
<1>16. /\ Fits(G \cup N, rk, d)' /\ OnMenu(d)'
       /\ Targets(d)' \subseteq {Ref(copier.return_type, type_pointer)} \cup copier.code
  <2>1. s \in Flagged(function_pool_flags)'
    BY <1>10
  <2>2. Ref(fn.the_AST, AST_pointer) \in G \cup N /\ Ref(fn.return_type, type_pointer) \in G \cup N
    BY <1>4
  <2>3. PICK H : H = G \cup N
    OBVIOUS
  <2>4. fn.code \subseteq H /\ functions'[s] = fn
    BY <1>4, <1>12, <2>3
  <2>5. Ref(fn.the_AST, AST_pointer) \in H /\ Ref(fn.return_type, type_pointer) \in H
    BY <2>2, <2>3
  <2>6. /\ Fits(H, rk, Ref(s, function_pointer))' /\ OnMenu(Ref(s, function_pointer))'
        /\ Targets(Ref(s, function_pointer))' = {Ref(fn.return_type, type_pointer)} \cup fn.code
    BY <1>3, <2>1, <2>4, <2>5, FunctionFits
  <2>7. fn.return_type = copier.return_type /\ fn.code = copier.code
    BY <1>2 DEF Function
  <2> QED
    BY <2>3, <2>6, <2>7
<1>17. N \in SUBSET Reference /\ (\A r \in N : r.type # type_pointer) /\ Distinct(G, N) /\ D \in SUBSET G
  <2>1. ~ Solid(d)
    BY <1>6 DEF Solid
  <2> QED
    BY <1>6, <2>1, Tags DEF Distinct
<1>18. \A r \in D \cup N : Fits(G \cup N, rk, r)' /\ OnMenu(r)'
  BY <1>16
<1>19. RootRefs' \cup held' \subseteq G \cup N
  <2>1. RootRefs' = RootRefs
    BY <1>0, RootsStay
  <2>2. held' \subseteq held \cup N
    BY <1>1, Held
  <2> QED
    BY <2>1, <2>2 DEF World
<1>20. CopierIn(G \cup N)'
  BY <1>0 DEF CopierIn, NoCopy
<1>23. Guarded(G \cup N)'
  <2>1. \A r \in G : r.type = function_pointer /\ r.val # 0 => r.val # s
    BY <1>5, <1>8 DEF Shape, Sound
  <2>2. functions'[s] = Function(copier.result, copier.return_type, copier.code)
    BY <1>2, <1>12
  <2>3. held' \subseteq held \cup {Ref(s, function_pointer)}
    BY <1>1, Held
  <2>4. Moves(G, {}) /\ copier.todo = <<>>
    BY <1>15 DEF compiled
  <2>5. Targets(Ref(s, function_pointer))' \subseteq {Ref(copier.return_type, type_pointer)} \cup copier.code
    BY <1>16
  <2>6. Guarded(G \cup {Ref(s, function_pointer)})'
    BY <1>0, <1>3, <2>1, <2>2, <2>3, <2>4, <2>5, FunctionGuarded
  <2> QED
    BY <2>6
<1> HIDE DEF D, N, d
<1>21. World(G \cup N, rk)'
  <2>2. N \in SUBSET Reference /\ D \in SUBSET G /\ Distinct(G, N)
    BY <1>17
  <2>3. \A r \in N : r.type # type_pointer
    BY <1>17
  <2>4. Guarded(G \cup N)'
    BY <1>23
  <2>5. CopierIn(G \cup N)'
    BY <1>20
  <2> QED
    BY <1>0, <1>15, <1>18, <1>19, <2>2, <2>3, <2>4, <2>5, ProgramGrows
<1>22. Typings'
  <2>1. type_hash_table' \subseteq Nat
    BY <1>0 DEF Typings
  <2>2. held' \subseteq Reference
    BY <1>6, <1>1, Held DEF Typings, d
  <2>3. Flagged(function_pool_flags) \subseteq Flagged(function_pool_flags)'
    BY <1>10
  <2> QED
    BY <1>0, <1>1, <1>13, <1>14, <2>1, <2>2, <2>3, TypingsKept
<1> QED
  BY <1>7, <1>21, <1>22 DEF ProgramInv

\* The end of a compilation keeps the world, or finds no slot and stops the program.
LEMMA CompiledStep ==
    ASSUME HeapInv, Typings, NEW G, NEW rk, World(G, rk), compiled
    PROVE  ProgramInv' \/ (HeapInv' /\ Typings' /\ phase' = "aborted")
BY CopyIsResult, NoSlotLeft, FunctionPlaced

------------------------------------------------------------------------------
(* Stores *)

\* An AST of the world: its block, and what its fields lead to.
LEMMA ASTOfWorld ==
    ASSUME HeapInv, Typings, NEW G, NEW rk, World(G, rk), NEW a, a # 0, Ref(a, AST_pointer) \in G
    PROVE  /\ a \in Nat \ {0} /\ a \in 1 .. special_value /\ Solid(Ref(a, AST_pointer)) /\ IsTag(Word(a))
           /\ BlockOf(Ref(a, AST_pointer)) \in objects /\ BlockOf(Ref(a, AST_pointer)) \in Block
           /\ BlockOf(Ref(a, AST_pointer)) = [addr |-> a, size |-> get_full_size_of_AST(Word(a))]
           /\ Word(a) \in DOMAIN ASTFields =>
                 /\ ASTFields[Word(a)] \in Nat
                 /\ get_full_size_of_AST(Word(a)) = 1 + ASTFields[Word(a)]
                 /\ \A i \in 1 .. ASTFields[Word(a)] : Ref(Word(a + i), AST_pointer) \in G
                 /\ Targets(Ref(a, AST_pointer)) = {Ref(Word(a + i), AST_pointer) : i \in 1 .. ASTFields[Word(a)]}
           /\ Word(a) = imv =>
                 /\ "imv" \in Menu /\ get_full_size_of_AST(Word(a)) = 2
                 /\ Ref(Word(a + 1), dynamic_object) \in G
                 /\ Targets(Ref(a, AST_pointer)) = {Ref(Word(a + 1), dynamic_object)}
           /\ Word(a) = basicblock => "basicblock" \in Menu
<1> DEFINE r == Ref(a, AST_pointer)
<1>1. Typed /\ Shape(G, rk) /\ r \in Reference /\ r.val = a /\ r.type = AST_pointer /\ r \in G
  BY WorldFacts, Refs
<1>2. a \in 0 .. special_value /\ a \in Nat \ {0}
  BY <1>1, Refs, Sizes
<1>3. Solid(r)
  BY <1>1, Tags DEF Solid
<1>4. Sound(rk, r) /\ Leads(r) /\ BlockOf(r) \in objects /\ BlockOf(r) \in Block
  BY <1>1, <1>3, SolidFacts DEF Shape, Sound
<1>5. IsTag(Word(a)) /\ (Word(a) = imv => "imv" \in Menu) /\ (Word(a) = basicblock => "basicblock" \in Menu)
  <2>1. OnMenu(r)
    BY <1>1 DEF World, AllOnMenu
  <2> QED
    BY <1>1, <1>3, <1>4, <2>1 DEF Sound, SoundObject, OnMenu
<1>6. Extent(r) = get_full_size_of_AST(Word(a))
  BY <1>1, ExtentByKind
<1>7. BlockOf(r) = [addr |-> a, size |-> get_full_size_of_AST(Word(a))]
  BY <1>1, <1>6 DEF BlockOf
<1>8. Word(a) \in DOMAIN ASTFields => ASTFields[Word(a)] \in Nat /\ Extent(r) = 1 + ASTFields[Word(a)]
  BY <1>1, <1>3, ASTFacts
<1>9. Word(a) \in DOMAIN ASTFields =>
         /\ \A i \in 1 .. ASTFields[Word(a)] : Ref(Word(a + i), AST_pointer) \in G
         /\ Targets(r) = {Ref(Word(a + i), AST_pointer) : i \in 1 .. ASTFields[Word(a)]}
  <2>1. Targets(r) \subseteq G
    BY <1>1 DEF Shape, Closed
  <2>2. Word(a) \in DOMAIN ASTFields => Targets(r) = {Ref(Word(a + i), AST_pointer) : i \in 1 .. ASTFields[Word(a)]}
    BY <1>1, <1>2, <1>4, ASTTargets DEF Typed
  <2> QED
    BY <2>1, <2>2
<1>11. Word(a) = imv => Targets(r) = {Ref(Word(a + 1), dynamic_object)} /\ Ref(Word(a + 1), dynamic_object) \in G
  <2>1. Targets(r) \subseteq G
    BY <1>1 DEF Shape, Closed
  <2>2. Word(a) = imv => Targets(r) = {Ref(Word(a + 1), dynamic_object)}
    BY <1>1, <1>2, <1>4, ASTTargets DEF Typed
  <2> QED
    BY <2>1, <2>2
<1>12. Word(a) = imv => get_full_size_of_AST(Word(a)) = 2
  BY Tags DEF get_full_size_of_AST, get_field_size_of_AST
<1> HIDE DEF r
<1>10. a \in 1 .. special_value
  BY <1>2, Sizes
<1> QED
  BY <1>2, <1>3, <1>4, <1>5, <1>6, <1>7, <1>8, <1>9, <1>10, <1>11, <1>12 DEF r

\* An AST one of whose fields a step redirects.
LEMMA FieldFits ==
    ASSUME HeapInv, Typings, NEW G, NEW rk, World(G, rk), MemTyped', objects \subseteq objects',
           NEW a, a # 0, Ref(a, AST_pointer) \in G, Word(a) \in DOMAIN ASTFields,
           NEW i \in 1 .. ASTFields[Word(a)], NEW H, G \subseteq H, Word(a)' = Word(a),
           \A j \in 1 .. ASTFields[Word(a)] : j # i => Word(a + j)' = Word(a + j),
           Ref(Word(a + i)', AST_pointer) \in H
    PROVE  /\ Fits(H, rk, Ref(a, AST_pointer))' /\ OnMenu(Ref(a, AST_pointer))'
           /\ \A q \in Targets(Ref(a, AST_pointer))' :
                 q = Ref(Word(a + i)', AST_pointer) \/ q \in Targets(Ref(a, AST_pointer))
<1> PICK tag, n : tag = Word(a) /\ n = ASTFields[tag]
  OBVIOUS
<1>1. /\ a \in Nat \ {0} /\ IsTag(tag) /\ n \in Nat
      /\ [addr |-> a, size |-> get_full_size_of_AST(tag)] \in objects
      /\ \A j \in 1 .. n : Ref(Word(a + j), AST_pointer) \in G
  BY ASTOfWorld
<1>2. tag = Word(a)' /\ tag \in DOMAIN ASTFields /\ tag # basicblock /\ tag # imv
  BY CollectorAssumption, Tags
<1>3. [addr |-> a, size |-> get_full_size_of_AST(Word(a))'] \in objects'
  <2>1. get_full_size_of_AST(Word(a))' = get_full_size_of_AST(tag)
    BY <1>2 DEF get_full_size_of_AST, get_field_size_of_AST, imv, basicblock
  <2> QED
    BY <1>1, <2>1
<1>4. IsTag(Word(a))' /\ Word(a)' # imv /\ Word(a)' # basicblock
  BY <1>1, <1>2 DEF IsTag, imv, basicblock
<1>5. Leads(Ref(a, AST_pointer))'
  BY <1>1, <1>3, Tags DEF Leads, Ref, AST_pointer, integer, function_pointer, type_pointer
<1>6. Targets(Ref(a, AST_pointer))' = {Ref(Word(a + j)', AST_pointer) : j \in 1 .. n}
  BY <1>1, <1>2, <1>5, ASTLeadsNext
<1>7. Targets(Ref(a, AST_pointer))' \subseteq H
  <2>1. ASSUME NEW j \in 1 .. n PROVE Ref(Word(a + j)', AST_pointer) \in H
    BY <1>1
  <2> QED
    BY <1>6, <2>1
<1>8. Targets(Ref(a, AST_pointer)) = {Ref(Word(a + j), AST_pointer) : j \in 1 .. n}
  BY <1>2, ASTOfWorld
<1>9. ASSUME NEW q \in Targets(Ref(a, AST_pointer))'
      PROVE  q = Ref(Word(a + i)', AST_pointer) \/ q \in Targets(Ref(a, AST_pointer))
  <2>1. PICK j \in 1 .. n : q = Ref(Word(a + j)', AST_pointer)
    BY <1>6, <1>9
  <2>2. j # i => Word(a + j)' = Word(a + j)
    OBVIOUS
  <2> QED
    BY <1>8, <2>1, <2>2
<1>10. Fits(H, rk, Ref(a, AST_pointer))' /\ OnMenu(Ref(a, AST_pointer))'
  BY <1>1, <1>3, <1>4, <1>7, ASTFits
<1> QED
  BY <1>9, <1>10

\* Only the word at p changes.
Stored(p, value) == Word(p)' = value /\ \A w : w # p => Word(w)' = Word(w)

\* A step that writes one word of an AST.
LEMMA WordStored ==
    ASSUME HeapInv, Typings, NEW G, NEW rk, World(G, rk), phase = "program",
           NEW a, a # 0, Ref(a, AST_pointer) \in G, NEW n \in Nat,
           BlockOf(Ref(a, AST_pointer)) = [addr |-> a, size |-> 1 + n],
           NEW i \in 1 .. n, NEW value \in 0 .. special_value,
           mem' = [mem EXCEPT ![a + i] = value], UNCHANGED <<heapVars, type_roots, functionVars>>
    PROVE  /\ HeapInv' /\ phase' = "program" /\ MemTyped' /\ Moves(G, {Ref(a, AST_pointer)})
           /\ objects \subseteq objects' /\ Stored(a + i, value)
<1>3. /\ a \in Nat \ {0} /\ a \in 1 .. special_value /\ Solid(Ref(a, AST_pointer)) /\ IsTag(Word(a))
      /\ BlockOf(Ref(a, AST_pointer)) \in objects /\ BlockOf(Ref(a, AST_pointer)) \in Block
  BY ASTOfWorld
<1> DEFINE d == Ref(a, AST_pointer)
           D == {d}
<1>8. a + i \in Pool /\ a + i \in Words(BlockOf(d))
  <2>1. [addr |-> a, size |-> 1 + n] \in Block
    BY <1>3
  <2>2. a >= big_memory_pool /\ a + (1 + n) <= PoolEnd
    BY <2>1, BlockFacts
  <2>3. a + i \in Pool
    BY <1>3, <2>2, Sizes DEF Pool
  <2>4. a + i \in Words([addr |-> a, size |-> 1 + n])
    BY <1>3 DEF Words
  <2> QED
    BY <2>3, <2>4
<1>9. PICK m : m = mem'
  OBVIOUS
<1>10. m \in Memories /\ WordIn(m, a + i) = value /\ \A w : w # a + i => WordIn(m, w) = Word(w)
  <2>1. mem \in Memories
    BY WorldFacts DEF Typed, MemTyped, Memories
  <2> PICK p : p = a + i
    OBVIOUS
  <2>2. p \in Pool /\ m = [mem EXCEPT ![p] = value]
    BY <1>8, <1>9
  <2>3. m \in Memories /\ WordIn(m, p) = value
    BY <2>1, <2>2, PutIn
  <2>4. \A w : w # p => WordIn(m, w) = WordIn(mem, w)
    <3>1. \A w : w # p => WordIn([mem EXCEPT ![p] = value], w) = WordIn(mem, w)
      BY <2>1, <2>2, PutIn
    <3> QED
      BY <2>2, <3>1
  <2> QED
    BY <2>3, <2>4, WordOf
<1>11. MemTyped' /\ Word(a + i)' = value /\ \A w : w # a + i => Word(w)' = Word(w)
  BY <1>9, <1>10, TypedNext, WordOfNext
<1>12. HeapInv' /\ phase' = "program" /\ objects \subseteq objects' /\ type_roots' = type_roots
  BY NextInv DEF heapVars
<1>13. Typed /\ Shape(G, rk)
  BY WorldFacts
<1>14. d.type = AST_pointer /\ D \in SUBSET G /\ \A r \in D : r.type # type_pointer
  BY Refs, Tags
<1>15. Moves(G, D)
  <2>2. \A r \in G \ D : r.type = AST_pointer /\ Solid(r) /\ Word(r.val) = basicblock =>
               Ref(Word(r.val + 1), type_roots[1]) \notin D
    BY RootType, Refs
  <2>3. \A r \in G \ D : r.type = function_pointer /\ r.val # 0 =>
               r.val \in Flagged(function_pool_flags)' /\ functions'[r.val] = functions[r.val]
    BY <1>13, FunctionsStay DEF Typings, functionVars, Shape, Sound
  <2>4. \A w : Word(w)' = Word(w) \/ w \in Words(BlockOf(d))
    BY <1>8, <1>11
  <2> HIDE DEF d
  <2>5. \A w : \/ Word(w)' = Word(w)
               \/ \A o \in objects : w \notin Words(o)
               \/ \E e \in D : Solid(e) /\ w \in Words(BlockOf(e))
    BY <1>3, <2>4 DEF d
  <2> HIDE DEF D
  <2> QED
    BY <1>11, <1>12, <1>13, <1>14, <2>2, <2>3, <2>5, MovesIntro
<1> QED
  BY <1>11, <1>12, <1>15 DEF Stored

\* An AST that the program knows leads elsewhere.
LEMMA ASTRedirected ==
    ASSUME HeapInv, Typings, NEW G, NEW rk, World(G, rk), HeapInv', phase' = "program", copier = NoCopy,
           NEW d \in G, Visible(d), d.type = AST_pointer, Moves(G, {d}),
           Fits(G, rk, d)', OnMenu(d)', \A q \in Targets(d)' : Visible(q) \/ q \in Targets(d),
           UNCHANGED <<type_hash_table, type_roots, event_roots, functionVars, traceVars, copier, error, held>>
    PROVE  ProgramInv'
<1> PICK D : D = {d}
  OBVIOUS
<1> PICK N : N = {}
  OBVIOUS
<1>1. G \cup N = G /\ D \cup N = D
  OBVIOUS
<1>2. /\ \A r \in D : Visible(r) /\ r.type \notin {dynamic_object, function_pointer}
      /\ \A r \in N : r.type # function_pointer /\ (r.type = AST_pointer => r \notin G)
  BY Tags
<1>3. /\ \A r \in D \cup N : \A q \in Targets(r)' : q \in N \/ Visible(q) \/ \E e \in D : q \in Targets(e)
      /\ \A q \in held' : q \in held \cup N \/ Visible(q)
  OBVIOUS
<1>4. Moves(G, D) /\ D \in SUBSET G
  OBVIOUS
<1>5. Guarded(G \cup N)'
  BY <1>2, <1>3, <1>4, GuardGrows
<1>6. \A r \in D \cup N : Fits(G \cup N, rk, r)' /\ OnMenu(r)'
  <2>1. Fits(G \cup N, rk, d)'
    BY <1>1
  <2> QED
    BY <2>1
<1>7. N \in SUBSET Reference /\ Distinct(G, N) /\ (\A r \in N : r.type # type_pointer) /\ held' \subseteq G \cup N
  BY DEF Distinct, World
<1> QED
  <2>1. Distinct(G, N)
    BY <1>7
  <2>2. \A r \in N : r.type # type_pointer
    BY <1>7
  <2> QED
    BY <1>4, <1>5, <1>6, <1>7, <2>1, <2>2, OperationGrows

------------------------------------------------------------------------------
(* Vectors that grow *)

\* Two words are written.
BothPut(m, x, y, v, w, n) ==
    /\ n \in Memories /\ WordIn(n, x) = v /\ WordIn(n, y) = w
    /\ \A z : z # x /\ z # y => WordIn(n, z) = WordIn(m, z)

\* Writing two words.
LEMMA PutTwo ==
    ASSUME NEW m \in Memories, NEW x \in Pool, NEW y \in Pool, x # y,
           NEW v \in 0 .. special_value, NEW w \in 0 .. special_value,
           NEW n, n = [m EXCEPT ![x] = v, ![y] = w]
    PROVE  BothPut(m, x, y, v, w, n)
<1>1. n \in Memories
  BY DEF Memories
<1>2. n[x] = v /\ n[y] = w /\ \A z \in Pool : z # x /\ z # y => n[z] = m[z]
  BY DEF Memories
<1> QED
  BY <1>1, <1>2 DEF WordIn, BothPut

\* Putting an element at the end of a sequence.
LEMMA AppendedFacts ==
    ASSUME NEW V, NEW s \in Seq(V), NEW v \in V, NEW e, e = s \o <<v>>
    PROVE  /\ e \in Seq(V) /\ Len(e) = Len(s) + 1 /\ e[Len(s) + 1] = v
           /\ \A i \in 1 .. Len(s) : e[i] = s[i]
OBVIOUS

\* A vector of the world.
LEMMA VectorOfType ==
    ASSUME HeapInv, Typings, NEW G, NEW rk, World(G, rk),
           NEW t \in HeapTypes(G), ver(t) = vector, NEW u, u = Subtypes(t)[1],
           NEW s, s # 0, Ref(s, t) \in G
    PROVE  /\ s \in Nat \ {0} /\ s \in 1 .. special_value
           /\ Word(s) \in Nat /\ Word(s + 1) \in Nat /\ Word(s) <= Word(s + 1)
           /\ Solid(Ref(s, t)) /\ BlockOf(Ref(s, t)) = [addr |-> s, size |-> 2 + Word(s + 1)]
           /\ BlockOf(Ref(s, t)) \in objects /\ BlockOf(Ref(s, t)) \in Block
           /\ Targets(Ref(s, t)) = {Ref(Word(s + 1 + i), u) : i \in 1 .. Word(s)}
           /\ \A i \in 1 .. Word(s) : Ref(Word(s + 1 + i), u) \in G
<1> DEFINE r == Ref(s, t)
<1>1. Typed /\ Shape(G, rk) /\ r \in Reference /\ r.val = s /\ r.type = t /\ r \in G
  BY WorldFacts, Refs
<1>2. s \in 0 .. special_value /\ s \in Nat \ {0} /\ s \in 1 .. special_value
  BY <1>1, Refs, Sizes
<1>3. IsHeapType(t)
  BY DEF HeapTypes
<1>4. Solid(r)
  BY <1>1, <1>3, Tags DEF Solid
<1>5. Sound(rk, r) /\ Leads(r) /\ BlockOf(r) \in objects /\ BlockOf(r) \in Block
  BY <1>1, <1>4, SolidFacts DEF Shape, Sound
<1>6. Word(s) <= Word(s + 1) /\ Extent(r) = 2 + Word(s + 1)
  BY <1>1, <1>3, <1>4, <1>5, ExtentByKind DEF Sound, SoundObject
<1>7. Word(s) \in Nat /\ Word(s + 1) \in Nat
  BY <1>1, WordTyped, Sizes DEF Typed
<1>8. BlockOf(r) = [addr |-> s, size |-> 2 + Word(s + 1)]
  BY <1>1, <1>6 DEF BlockOf
<1>9. Targets(r) = {Ref(Word(s + 1 + i), u) : i \in 1 .. Word(s)}
  BY <1>1, <1>3, <1>5, HeapTargets DEF Typed
<1>10. \A i \in 1 .. Word(s) : Ref(Word(s + 1 + i), u) \in G
  <2>1. Targets(r) \subseteq G
    BY <1>1 DEF Shape, Closed
  <2> QED
    BY <1>9, <2>1
<1> HIDE DEF r
<1> QED
  BY <1>2, <1>4, <1>5, <1>6, <1>7, <1>8, <1>9, <1>10 DEF r

\* A vector of ASTs of the world.
LEMMA VectorOfWorld ==
    ASSUME HeapInv, Typings, NEW G, NEW rk, World(G, rk), NEW t, t = type_roots[1],
           NEW s, s # 0, Ref(s, t) \in G
    PROVE  /\ s \in Nat \ {0} /\ s \in 1 .. special_value
           /\ Word(s) \in Nat /\ Word(s + 1) \in Nat /\ Word(s) <= Word(s + 1)
           /\ Solid(Ref(s, t)) /\ BlockOf(Ref(s, t)) = [addr |-> s, size |-> 2 + Word(s + 1)]
           /\ BlockOf(Ref(s, t)) \in objects /\ BlockOf(Ref(s, t)) \in Block
           /\ \A i \in 1 .. Word(s) : Ref(Word(s + 1 + i), AST_pointer) \in G
<1>1. t \in HeapTypes(G) /\ ver(t) = vector /\ AST_pointer = Subtypes(t)[1]
  BY RootIsVector
<1> QED
  BY <1>1, VectorOfType

\* The elements of a vector of the world.
LEMMA ElementsOf ==
    ASSUME HeapInv, Typings, NEW G, NEW rk, World(G, rk),
           NEW t \in HeapTypes(G), ver(t) = vector, NEW u, u = Subtypes(t)[1],
           NEW s, s # 0, Ref(s, t) \in G, NEW e, e = Elements(s)
    PROVE  /\ e \in Seq(0 .. special_value) /\ Len(e) = Word(s)
           /\ \A i \in 1 .. Word(s) : e[i] = Word(s + 1 + i) /\ Ref(e[i], u) \in G
<1> PICK n : n = Word(s)
  OBVIOUS
<1>1. n \in Nat /\ s \in Nat /\ \A i \in 1 .. n : Ref(Word(s + 1 + i), u) \in G
  BY VectorOfType
<1>2. e = [i \in 1 .. n |-> Word(s + 2 + i - 1)]
  BY DEF Elements, vector_header_size
<1>3. \A i \in 1 .. n : s + 2 + i - 1 = s + 1 + i
  BY <1>1
<1>4. \A i \in 1 .. n : e[i] = Word(s + 1 + i)
  BY <1>2, <1>3
<1>5. e \in [1 .. n -> 0 .. special_value]
  <2>1. MemTyped
    BY DEF Typings
  <2> QED
    BY <1>2, <2>1, WordTyped
<1>6. e \in Seq(0 .. special_value) /\ Len(e) = n
  BY <1>1, <1>5, FunctionIsSeq
<1> QED
  BY <1>1, <1>4, <1>6

\* The elements of a vector of ASTs of the world.
LEMMA ElementsIn ==
    ASSUME HeapInv, Typings, NEW G, NEW rk, World(G, rk), NEW t, t = type_roots[1],
           NEW s, s # 0, Ref(s, t) \in G, NEW e, e = Elements(s)
    PROVE  /\ e \in Seq(0 .. special_value) /\ Len(e) = Word(s)
           /\ \A i \in 1 .. Word(s) : e[i] = Word(s + 1 + i) /\ Ref(e[i], AST_pointer) \in G
<1>1. t \in HeapTypes(G) /\ ver(t) = vector /\ AST_pointer = Subtypes(t)[1]
  BY RootIsVector
<1> QED
  BY <1>1, ElementsOf

\* A basicblock of the world has a vector of the world.
LEMMA BasicblockOfWorld ==
    ASSUME HeapInv, Typings, NEW G, NEW rk, World(G, rk), NEW t, t = type_roots[1],
           NEW a, a # 0, Ref(a, AST_pointer) \in G, Word(a) = basicblock
    PROVE  /\ a \in 1 .. special_value /\ [addr |-> a, size |-> 2] \in objects /\ [addr |-> a, size |-> 2] \in Block
           /\ Solid(Ref(a, AST_pointer)) /\ BlockOf(Ref(a, AST_pointer)) = [addr |-> a, size |-> 2]
           /\ Word(a + 1) # 0 /\ Ref(Word(a + 1), t) \in G /\ "basicblock" \in Menu
<1>1. /\ a \in 1 .. special_value /\ Solid(Ref(a, AST_pointer))
      /\ BlockOf(Ref(a, AST_pointer)) \in objects /\ BlockOf(Ref(a, AST_pointer)) \in Block
      /\ BlockOf(Ref(a, AST_pointer)) = [addr |-> a, size |-> get_full_size_of_AST(Word(a))]
      /\ "basicblock" \in Menu
  BY ASTOfWorld
<1>2. get_full_size_of_AST(Word(a)) = 2
  BY Tags DEF get_full_size_of_AST, get_field_size_of_AST
<1>3. Ref(Word(a + 1), t) \in G /\ Solid(Ref(Word(a + 1), t))
  <2>1. Typed /\ Shape(G, rk) /\ Ref(a, AST_pointer).val = a /\ Ref(a, AST_pointer).type = AST_pointer
    BY WorldFacts, Refs
  <2> QED
    BY <1>1, <2>1, ASTFacts
<1>4. Word(a + 1) # 0
  BY <1>3, Refs DEF Solid
<1> QED
  BY <1>1, <1>2, <1>3, <1>4

\* Different references lead to blocks without a common word.
LEMMA Separate ==
    ASSUME HeapInv, Typings, NEW G, NEW rk, World(G, rk), NEW r \in G, NEW q \in G, Solid(r), Solid(q), r # q
    PROVE  Words(BlockOf(r)) \cap Words(BlockOf(q)) = {}
<1>1. Typed /\ Shape(G, rk)
  BY WorldFacts
<1>2. BlockOf(r) \in objects /\ BlockOf(q) \in objects /\ BlockOf(r) \in Block /\ BlockOf(q) \in Block
  BY <1>1, SolidFacts DEF Shape, Sound
<1>3. r.val # q.val
  BY <1>1 DEF Shape
<1>4. BlockOf(r) # BlockOf(q)
  BY <1>3 DEF BlockOf
<1> QED
  BY <1>2, <1>4, ApartWords DEF HeapInv, NoOverlap

\* A step writes only to the vector q, which keeps its room and gets n elements of
\* type u, each of them at the program's hand or an element before.
VectorWritten(G, q, u, n) ==
    /\ MemTyped' /\ objects' = objects
    /\ \A w : Word(w)' = Word(w) \/ w \in Words(BlockOf(q))
    /\ Word(q.val)' = n /\ Word(q.val + 1)' = Word(q.val + 1) /\ n <= Word(q.val + 1)
    /\ \A i \in 1 .. n : LET x == Ref(Word(q.val + 1 + i)', u) IN
          x \in G /\ (Visible(x) \/ x \in Targets(q))

\* A vector is written, and so are the basicblocks that have it.
LEMMA VectorRewritten ==
    ASSUME HeapInv, Typings, NEW G, NEW rk, World(G, rk), HeapInv', phase' = "program", copier = NoCopy,
           NEW t \in HeapTypes(G), ver(t) = vector, NEW u, u = Subtypes(t)[1],
           NEW s, s # 0, Ref(s, t) \in G, NEW n \in Nat, VectorWritten(G, Ref(s, t), u, n),
           UNCHANGED <<type_hash_table, type_roots, event_roots, functionVars, traceVars, copier, error, held>>
    PROVE  ProgramInv'
<1> PICK res : res = Word(s + 1)
  OBVIOUS
<1> DEFINE q == Ref(s, t)
<1>1. /\ s \in 1 .. special_value /\ res \in Nat /\ Solid(q) /\ BlockOf(q) = [addr |-> s, size |-> 2 + res]
      /\ BlockOf(q) \in objects /\ q.val = s /\ q.type = t /\ q \in G
      /\ Targets(q) = {Ref(Word(s + 1 + i), u) : i \in 1 .. Word(s)}
  BY VectorOfType, Refs
<1>2. Typed /\ Shape(G, rk)
  BY WorldFacts
<1>3. t \notin {AST_pointer, dynamic_object, function_pointer, type_pointer, integer} /\ IsHeapType(t)
  BY Tags DEF HeapTypes
<1>4. /\ MemTyped' /\ objects' = objects /\ \A w : Word(w)' = Word(w) \/ w \in Words(BlockOf(q))
      /\ Word(s)' = n /\ Word(s + 1)' = res /\ n <= res
      /\ \A i \in 1 .. n : /\ Ref(Word(s + 1 + i)', u) \in G
                           /\ Visible(Ref(Word(s + 1 + i)', u)) \/ Ref(Word(s + 1 + i)', u) \in Targets(q)
  BY <1>1 DEF VectorWritten
<1> DEFINE User(r) == r.type = AST_pointer /\ Solid(r) /\ Word(r.val) = basicblock /\ Ref(Word(r.val + 1), type_roots[1]) = q
           D == {q} \cup {r \in G : User(r)}
           N == {}
<1>5. D \in SUBSET G /\ \A r \in D : r.type # type_pointer
  BY <1>1, <1>3, Tags
<1>6. Moves(G, D)
  <2>1. \A r \in G \ D : r.type = AST_pointer /\ Solid(r) /\ Word(r.val) = basicblock =>
               Ref(Word(r.val + 1), type_roots[1]) \notin D
    <3>1. ASSUME NEW r \in G, r \notin D, r.type = AST_pointer, Solid(r), Word(r.val) = basicblock
          PROVE  Ref(Word(r.val + 1), type_roots[1]) \notin D
      <4>1. Ref(Word(r.val + 1), type_roots[1]) # q
        BY <3>1
      <4>2. Ref(Word(r.val + 1), type_roots[1]).type # AST_pointer
        BY Refs, RootType
      <4>3. \A e : User(e) => e.type = AST_pointer
        OBVIOUS
      <4> HIDE DEF q, User
      <4> QED
        BY <4>1, <4>2, <4>3
    <3> QED
      BY <3>1
  <2>2. \A r \in G \ D : r.type = function_pointer /\ r.val # 0 =>
               r.val \in Flagged(function_pool_flags)' /\ functions'[r.val] = functions[r.val]
    BY <1>2, FunctionsStay DEF Typings, functionVars, Shape, Sound
  <2>3. q \in D /\ objects \subseteq objects' /\ type_roots' = type_roots
    BY <1>4
  <2> HIDE DEF q, User, D
  <2>4. \A w : \/ Word(w)' = Word(w)
               \/ \A o \in objects : w \notin Words(o)
               \/ \E e \in D : Solid(e) /\ w \in Words(BlockOf(e))
    BY <1>1, <1>4, <2>3
  <2> QED
    BY <1>2, <1>4, <1>5, <2>1, <2>2, <2>3, <2>4, MovesIntro
<1>7. [addr |-> s, size |-> 2 + res] \in objects'
  BY <1>1, <1>4
<1>8. /\ Fits(G, rk, q)' /\ OnMenu(q)'
      /\ \A x \in Targets(q)' : \E i \in 1 .. n : x = Ref(Word(s + 1 + i)', u)
  <2>1. \A i \in 1 .. n : Ref(Word(s + 1 + i)', u) \in G
    BY <1>4
  <2>2. Word(s)' = n /\ Word(s + 1)' = res /\ n <= res /\ s \in 1 .. special_value /\ res \in Nat
    BY <1>1, <1>4
  <2> HIDE DEF D
  <2>3. G \subseteq G
    OBVIOUS
  <2>4. Fits(G, rk, Ref(s, t))' /\ OnMenu(Ref(s, t))'
    BY <1>6, <1>7, <2>1, <2>2, <2>3, VectorOfFits
  <2>5. VectorLeads(s, t, u, n)'
    BY <1>6, <1>7, <2>1, <2>2, <2>3, VectorOfFits
  <2>6. \A x \in Targets(Ref(s, t))' : \E i \in 1 .. n : x = Ref(Word(s + 1 + i)', u)
    BY <2>5 DEF VectorLeads, Ref
  <2> QED
    BY <2>4, <2>6
<1>9. ASSUME NEW r \in G, User(r)
      PROVE  Fits(G, rk, r)' /\ OnMenu(r)' /\ "basicblock" \in Menu
  <2>1. PICK b : b = r.val
    OBVIOUS
  <2>2. r \in Reference /\ r.val # 0
    BY <1>2, <1>9 DEF Shape, Solid
  <2>3. r = Ref(b, AST_pointer) /\ b # 0 /\ Word(b) = basicblock
    BY <1>9, <2>1, <2>2, Refs
  <2>4. Word(b + 1) = s /\ t = type_roots[1]
    BY <1>9, <2>1, Refs
  <2>5. /\ b \in 1 .. special_value /\ [addr |-> b, size |-> 2] \in objects
        /\ Solid(Ref(b, AST_pointer)) /\ BlockOf(Ref(b, AST_pointer)) = [addr |-> b, size |-> 2]
        /\ "basicblock" \in Menu
    BY <2>3, <2>4, BasicblockOfWorld
  <2>6. Ref(b, AST_pointer) # q
    BY <1>3, Refs
  <2>7. Words(BlockOf(Ref(b, AST_pointer))) \cap Words(BlockOf(q)) = {}
    BY <1>1, <2>3, <2>5, <2>6, Separate
  <2>8. b \in Words(BlockOf(Ref(b, AST_pointer))) /\ b + 1 \in Words(BlockOf(Ref(b, AST_pointer)))
    BY <2>5 DEF Words
  <2>9. Word(b)' = basicblock /\ Word(b + 1)' = s
    BY <1>4, <2>3, <2>4, <2>7, <2>8
  <2>10. [addr |-> b, size |-> 2] \in objects' /\ t = type_roots'[1] /\ u = AST_pointer
    BY <1>4, <2>4, <2>5, RootIsVector
  <2>11. \A i \in 1 .. n : Ref(Word(s + 1 + i)', AST_pointer) \in G
    BY <1>4, <2>10
  <2> HIDE DEF D, q
  <2>12. Fits(G, rk, Ref(b, AST_pointer))' /\ OnMenu(Ref(b, AST_pointer))'
    BY <1>1, <1>4, <1>6, <1>7, <2>4, <2>5, <2>9, <2>10, <2>11, BasicblockFits
  <2> QED
    BY <2>3, <2>5, <2>12
<1>10. \A r \in D \cup N : Fits(G \cup N, rk, r)' /\ OnMenu(r)'
  <2>1. G \cup N = G
    OBVIOUS
  <2> QED
    BY <1>8, <1>9, <2>1
<1>11. N \in SUBSET Reference /\ Distinct(G, N)
  BY DEF Distinct
<1>12. \A r \in N : r.type # type_pointer
  OBVIOUS
<1>13. held' \subseteq G \cup N
  BY DEF World
<1>14. Guarded(G \cup N)'
  <2>1. UNCHANGED functions /\ copier' = NoCopy /\ (copier' # NoCopy => copier'.code = {})
    BY DEF functionVars
  <2>2. \A r \in N : r.type # function_pointer /\ (r.type = AST_pointer => r \notin G)
    OBVIOUS
  <2>3. CASE "basicblock" \in Menu
    <3> HIDE DEF D, N
    <3> QED
      BY <2>1, <2>2, <2>3, BlocksGuarded DEF World
  <2>4. CASE "basicblock" \notin Menu
    <3>1. D = {q}
      BY <1>9, <2>4
    <3>2. \A r \in D : Visible(r) /\ r.type \notin {dynamic_object, function_pointer}
      BY <1>1, <1>3, <3>1 DEF Visible
    <3>3. \A r \in D \cup N : \A x \in Targets(r)' : x \in N \/ Visible(x) \/ \E d \in D : x \in Targets(d)
      <4>1. ASSUME NEW x \in Targets(q)' PROVE Visible(x) \/ x \in Targets(q)
        <5>1. PICK i \in 1 .. n : x = Ref(Word(s + 1 + i)', u)
          BY <1>8
        <5> QED
          BY <1>4, <5>1
      <4> QED
        BY <3>1, <4>1
    <3>4. \A x \in held' : x \in held \cup N \/ Visible(x)
      OBVIOUS
    <3> HIDE DEF D, N, q
    <3> QED
      BY <1>5, <1>6, <2>1, <2>2, <3>2, <3>3, <3>4, GuardGrows
  <2> QED
    BY <2>3, <2>4
<1> HIDE DEF D, N, q, User
<1> QED
  BY <1>5, <1>6, <1>10, <1>11, <1>12, <1>13, <1>14, OperationGrows

\* An element goes to the end of a vector that has room.
PushedWithRoom(s, value) ==
    /\ Word(s) < Word(s + 1) /\ UNCHANGED heapVars
    /\ mem' = [mem EXCEPT ![s] = Word(s) + 1, ![s + vector_header_size + Word(s)] = value]

\* There is room in the vector.
LEMMA VectorPushed ==
    ASSUME HeapInv, Typings, NEW G, NEW rk, World(G, rk), phase = "program", copier = NoCopy,
           NEW t \in HeapTypes(G), ver(t) = vector, NEW u, u = Subtypes(t)[1],
           NEW s, s # 0, Ref(s, t) \in G, NEW value \in 0 .. special_value,
           Ref(value, u) \in G, Visible(Ref(value, u)),
           PushedWithRoom(s, value), programUnchanged, UNCHANGED held
    PROVE  ProgramInv'
<1> PICK size, res : size = Word(s) /\ res = Word(s + 1)
  OBVIOUS
<1> DEFINE q == Ref(s, t)
<1>1. /\ s \in Nat \ {0} /\ s \in 1 .. special_value /\ size \in Nat /\ res \in Nat
      /\ Solid(q) /\ BlockOf(q) = [addr |-> s, size |-> 2 + res] /\ BlockOf(q) \in Block
      /\ Targets(q) = {Ref(Word(s + 1 + i), u) : i \in 1 .. size}
      /\ \A i \in 1 .. size : Ref(Word(s + 1 + i), u) \in G
  BY VectorOfType
<1>2. size < res /\ UNCHANGED heapVars
  BY DEF PushedWithRoom
<1>3. PICK m, p : m = mem' /\ p = s + 2 + size
  OBVIOUS
<1>4. m = [mem EXCEPT ![s] = size + 1, ![p] = value]
  BY <1>3 DEF PushedWithRoom, vector_header_size
<1>5. s \in Pool /\ p \in Pool /\ s # p /\ s \in Words(BlockOf(q)) /\ p \in Words(BlockOf(q)) /\ size + 1 \in 0 .. special_value
  <2>1. [addr |-> s, size |-> 2 + res] \in Block
    BY <1>1
  <2>2. s >= big_memory_pool /\ s + (2 + res) <= PoolEnd
    BY <2>1, BlockFacts
  <2>3. s \in Pool /\ p \in Pool /\ s # p /\ size + 1 \in 0 .. special_value
    BY <1>1, <1>2, <1>3, <2>2, Sizes DEF Pool
  <2>4. \A w \in Nat : w >= s /\ w < s + (2 + res) => w \in Words([addr |-> s, size |-> 2 + res])
    BY <1>1 DEF Words
  <2>5. p \in Nat /\ p >= s /\ p < s + (2 + res) /\ s < s + (2 + res)
    BY <1>1, <1>2, <1>3
  <2> QED
    BY <1>1, <2>3, <2>4, <2>5
<1>6. PICK v : v = size + 1
  OBVIOUS
<1>7. BothPut(mem, s, p, v, value, m)
  <2>1. mem \in Memories
    BY WorldFacts DEF Typed, MemTyped, Memories
  <2>2. v \in 0 .. special_value /\ m = [mem EXCEPT ![s] = v, ![p] = value]
    BY <1>4, <1>5, <1>6
  <2> QED
    BY <1>5, <2>1, <2>2, PutTwo
<1>8. MemTyped' /\ Word(s)' = v /\ Word(p)' = value /\ \A w : w # s /\ w # p => Word(w)' = Word(w)
  BY <1>3, <1>7, WordOf, TypedNext, WordOfNext DEF BothPut
<1>9. HeapInv' /\ phase' = "program" /\ objects' = objects
  BY <1>2, NextInv DEF heapVars
<1>10. Word(s + 1)' = res
  <2>1. s + 1 # s /\ s + 1 # p
    BY <1>1, <1>3
  <2> QED
    BY <1>8, <2>1
<1>11. ASSUME NEW i \in 1 .. v
       PROVE  LET x == Ref(Word(s + 1 + i)', u) IN x \in G /\ (Visible(x) \/ x \in Targets(q))
  <2>1. CASE i = v
    <3>1. s + 1 + i = p
      BY <1>1, <1>3, <1>6, <2>1
    <3> QED
      BY <1>8, <3>1
  <2>2. CASE i # v
    <3>1. s + 1 + i # p /\ s + 1 + i # s /\ i \in 1 .. size
      BY <1>1, <1>3, <1>6, <2>2
    <3>2. Word(s + 1 + i)' = Word(s + 1 + i)
      BY <1>8, <3>1
    <3> QED
      BY <1>1, <3>1, <3>2
  <2> QED
    BY <2>1, <2>2
<1>12. VectorWritten(G, q, u, v)
  <2>1. \A w : Word(w)' = Word(w) \/ w \in Words(BlockOf(q))
    BY <1>5, <1>8
  <2>2. v \in Nat /\ v <= res
    BY <1>1, <1>2, <1>6
  <2>3. q.val = s
    BY Refs
  <2> HIDE DEF q
  <2> QED
    BY <1>8, <1>9, <1>10, <1>11, <2>1, <2>2, <2>3 DEF VectorWritten
<1>13. v \in Nat /\ UNCHANGED <<type_hash_table, type_roots, event_roots, functionVars, traceVars, copier, error, held>>
  BY <1>1, <1>6 DEF programUnchanged
<1> QED
  BY <1>9, <1>12, <1>13, VectorRewritten

\* One element of a vector is replaced.
LEMMA ElementStored ==
    ASSUME HeapInv, Typings, NEW G, NEW rk, World(G, rk), phase = "program", copier = NoCopy,
           NEW t \in HeapTypes(G), ver(t) = vector, NEW u, u = Subtypes(t)[1],
           NEW s, s # 0, Ref(s, t) \in G, NEW value \in 0 .. special_value,
           Ref(value, u) \in G, Visible(Ref(value, u)), NEW j \in 1 .. Word(s),
           mem' = [mem EXCEPT ![s + vector_header_size + j - 1] = value],
           UNCHANGED <<heapVars, held>>, programUnchanged
    PROVE  ProgramInv'
<1> PICK n, res, p : n = Word(s) /\ res = Word(s + 1) /\ p = s + 1 + j
  OBVIOUS
<1> DEFINE q == Ref(s, t)
<1>1. /\ s \in Nat \ {0} /\ n \in Nat /\ res \in Nat /\ n <= res
      /\ BlockOf(q) = [addr |-> s, size |-> 2 + res] /\ BlockOf(q) \in Block
      /\ Targets(q) = {Ref(Word(s + 1 + i), u) : i \in 1 .. n}
      /\ \A i \in 1 .. n : Ref(Word(s + 1 + i), u) \in G
  BY VectorOfType
<1>2. j \in 1 .. n /\ s + vector_header_size + j - 1 = p
  BY <1>1 DEF vector_header_size
<1>3. p \in Pool /\ p \in Words(BlockOf(q))
  <2>1. [addr |-> s, size |-> 2 + res] \in Block
    BY <1>1
  <2>2. s >= big_memory_pool /\ s + (2 + res) <= PoolEnd
    BY <2>1, BlockFacts
  <2>3. p \in Pool
    BY <1>1, <1>2, <2>2, Sizes DEF Pool
  <2>4. p \in Words([addr |-> s, size |-> 2 + res])
    BY <1>1, <1>2 DEF Words
  <2> QED
    BY <1>1, <2>3, <2>4
<1>4. PICK m : m = mem'
  OBVIOUS
<1>5. m \in Memories /\ WordIn(m, p) = value /\ \A w : w # p => WordIn(m, w) = Word(w)
  <2>1. mem \in Memories
    BY WorldFacts DEF Typed, MemTyped, Memories
  <2>2. m = [mem EXCEPT ![p] = value]
    BY <1>2, <1>4
  <2>3. m \in Memories /\ WordIn(m, p) = value
    BY <1>3, <2>1, <2>2, PutIn
  <2>4. \A w : w # p => WordIn(m, w) = WordIn(mem, w)
    <3>1. \A w : w # p => WordIn([mem EXCEPT ![p] = value], w) = WordIn(mem, w)
      BY <1>3, <2>1, PutIn
    <3> QED
      BY <2>2, <3>1
  <2> QED
    BY <2>3, <2>4, WordOf
<1>6. MemTyped' /\ Word(p)' = value /\ \A w : w # p => Word(w)' = Word(w)
  BY <1>4, <1>5, TypedNext, WordOfNext
<1>7. HeapInv' /\ phase' = "program" /\ objects' = objects
  BY NextInv DEF heapVars
<1>8. Word(s)' = n /\ Word(s + 1)' = res
  BY <1>1, <1>2, <1>6
<1>9. ASSUME NEW i \in 1 .. n
      PROVE  LET x == Ref(Word(s + 1 + i)', u) IN x \in G /\ (Visible(x) \/ x \in Targets(q))
  <2>1. CASE i = j
    BY <1>6, <2>1
  <2>2. CASE i # j
    <3>1. s + 1 + i # p
      BY <1>1, <1>2, <2>2
    <3>2. Word(s + 1 + i)' = Word(s + 1 + i)
      BY <1>6, <3>1
    <3> QED
      BY <1>1, <3>2
  <2> QED
    BY <2>1, <2>2
<1>10. VectorWritten(G, q, u, n)
  <2>1. \A w : Word(w)' = Word(w) \/ w \in Words(BlockOf(q))
    BY <1>3, <1>6
  <2>2. q.val = s
    BY Refs
  <2> HIDE DEF q
  <2> QED
    BY <1>1, <1>6, <1>7, <1>8, <1>9, <2>1, <2>2 DEF VectorWritten
<1>11. n \in Nat /\ UNCHANGED <<type_hash_table, type_roots, event_roots, functionVars, traceVars, copier, error, held>>
  BY <1>1 DEF programUnchanged
<1> QED
  BY <1>7, <1>10, <1>11, VectorRewritten

\* A step that makes one object, as it leaves the memory m.
OneNew(G, k, size, words, m) ==
    /\ HeapInv' /\ phase' = "program" /\ m \in Memories /\ objects \subseteq objects'
    /\ [addr |-> k.addr, size |-> size] \in objects'
    /\ \A r \in G : Solid(r) => r.val # k.addr
    /\ k.addr \in 1 .. special_value
    /\ \A i \in 1 .. Len(words) : WordIn(m, k.addr + i - 1) = words[i]
    /\ \A w : WordIn(m, w) = Word(w) \/ \A o \in objects : w \notin Words(o)
    /\ \A o \in objects : \A w \in Words(o) : \A i \in 1 .. size : w # k.addr + i - 1
    /\ \A i \in 1 .. size : k.addr + i - 1 \in Pool

\* One new object.
LEMMA NewOne ==
    ASSUME HeapInv, Typings, NEW G, NEW rk, World(G, rk),
           NEW size \in Nat \ {0}, NEW k \in BestFit(free_memory, size), AllocateAt(size, k),
           NEW words \in Seq(0 .. special_value), Len(words) <= size,
           NEW m, m = Write(mem, k.addr, words)
    PROVE  OneNew(G, k, size, words, m)
<1> USE DEF OneNew
<1> DEFINE b == Issued(k, size)
<1>1. /\ HeapInv' /\ phase' = "program" /\ b \in Block /\ objects' = objects \cup {b}
      /\ \A o \in objects : Apart(o, b)
  BY AllocateAtStep
<1>2. b.addr = k.addr /\ b.size = size /\ b = [addr |-> k.addr, size |-> size]
  BY DEF Issued
<1>3. /\ \A o \in objects : Words(o) \cap Words(b) = {}
      /\ \A r \in G : Solid(r) => r.val # b.addr
      /\ b.addr \in 0 .. special_value /\ b.addr # 0 /\ b.addr \in Nat /\ b.addr \in Words(b)
  BY <1>1, Elsewhere
<1>5. mem \in Memories
  BY DEF Typings, MemTyped, Memories
<1>6. /\ m \in Memories
      /\ \A i \in 1 .. Len(words) : WordIn(m, b.addr + i - 1) = words[i]
      /\ \A w : w \notin Words(b) => WordIn(m, w) = WordIn(mem, w)
  BY <1>1, <1>2, <1>5, WriteIn
<1>10. \A i \in 1 .. size : k.addr + i - 1 \in Words(b)
  BY <1>2, <1>3 DEF Words
<1>11. \A w \in Words(b) : w \in Pool
  BY <1>1, BlockFacts, Sizes DEF Words, Pool
<1>12. \A w : WordIn(m, w) = Word(w) \/ \A o \in objects : w \notin Words(o)
  BY <1>3, <1>6, WordOf
<1>13. k.addr \in 1 .. special_value
  BY <1>2, <1>3, Sizes
<1> QED
  BY <1>1, <1>2, <1>3, <1>6, <1>10, <1>11, <1>12, <1>13

\* pushback_int where the vector is full and moves.
PushRebuilt(a, value, s, size, wanted, k) ==
    /\ Word(a) = basicblock /\ s = Word(a + 1) /\ size = Word(s)
    /\ wanted = VectorSize(Elements(s))
    /\ AllocateAt(wanted, k)
    /\ mem' = [Write(mem, k.addr, VectorWords(Elements(s)) \o <<value>>)
                  EXCEPT ![k.addr] = size + 1, ![a + 1] = k.addr]

\* The words of a rebuilt vector.
RebuiltWords(V, e, v, n, res, w) ==
    /\ w \in Seq(V) /\ Len(w) = n + 3 /\ w[2] = res /\ w[n + 3] = v
    /\ \A i \in 1 .. n : w[i + 2] = e[i]

\* The words of a vector that has moved.
LEMMA RebuiltFacts ==
    ASSUME NEW V, NEW e \in Seq(V), NEW v \in V, NEW n, n = Len(e), NEW res, res = ReservedSize(n),
           n \in V, res \in V, NEW w, w = VectorWords(e) \o <<v>>
    PROVE  RebuiltWords(V, e, v, n, res, w)
<1> USE DEF RebuiltWords
<1> PICK x : x = VectorWords(e)
  OBVIOUS
<1>1. /\ x \in Seq(V) /\ Len(x) = n + 2 /\ x[2] = res /\ \A i \in 1 .. n : x[i + 2] = e[i]
  BY VectorFacts
<1>2. n \in Nat
  OBVIOUS
<1>3. w \in Seq(V) /\ Len(w) = Len(x) + 1 /\ w[Len(x) + 1] = v /\ \A i \in 1 .. Len(x) : w[i] = x[i]
  BY <1>1, AppendedFacts
<1>4. Len(w) = n + 3 /\ w[n + 3] = v
  BY <1>1, <1>2, <1>3
<1>5. \A i \in 1 .. n + 2 : w[i] = x[i]
  BY <1>1, <1>3
<1>6. 2 \in 1 .. n + 2 /\ \A i \in 1 .. n : i + 2 \in 1 .. n + 2
  BY <1>2
<1> QED
  BY <1>1, <1>3, <1>4, <1>5, <1>6

\* The vector is full: another takes its place.
LEMMA PushbackRebuilt ==
    ASSUME HeapInv, Typings, NEW G, NEW rk, World(G, rk), copier = NoCopy,
           NEW a, a # 0, Ref(a, AST_pointer) \in G,
           NEW value \in 0 .. special_value, Ref(value, AST_pointer) \in G,
           NEW s, NEW size, NEW wanted, NEW k \in BestFit(free_memory, wanted),
           PushRebuilt(a, value, s, size, wanted, k), programUnchanged, UNCHANGED held
    PROVE  ProgramInv'
<1>1. PICK t : t = type_roots[1] /\ t = type_roots'[1]
  BY DEF programUnchanged
<1>2. PICK e, w, res, v : e = Elements(s) /\ w = VectorWords(e) \o <<value>> /\ res = ReservedSize(size) /\ v = k.addr
  OBVIOUS
<1>3. /\ Word(a) = basicblock /\ s # 0 /\ Ref(s, t) \in G /\ size = Word(s)
      /\ a \in 1 .. special_value /\ [addr |-> a, size |-> 2] \in objects /\ [addr |-> a, size |-> 2] \in Block
      /\ Solid(Ref(a, AST_pointer)) /\ BlockOf(Ref(a, AST_pointer)) = [addr |-> a, size |-> 2]
      /\ "basicblock" \in Menu
  BY <1>1, BasicblockOfWorld DEF PushRebuilt
<1>4. /\ e \in Seq(0 .. special_value) /\ Len(e) = size /\ size \in Nat
      /\ \A i \in 1 .. size : Ref(e[i], AST_pointer) \in G
  BY <1>1, <1>2, <1>3, ElementsIn, VectorOfWorld
<1>5. res \in Nat /\ res > size /\ wanted = 2 + res /\ wanted \in Nat \ {0}
  <2>1. res \in Nat /\ res > size
    BY <1>2, <1>4, ReservedFacts
  <2>2. wanted = vector_header_size + ReservedSize(Len(e))
    BY <1>2 DEF PushRebuilt, VectorSize
  <2>3. wanted = 2 + res
    BY <1>2, <1>4, <2>2 DEF vector_header_size
  <2> QED
    BY <2>1, <2>3
<1>6. AllocateAt(wanted, k)
  BY DEF PushRebuilt
<1>7. size \in 0 .. special_value /\ size + 1 \in 0 .. special_value /\ res \in 0 .. special_value
  <2>1. Issued(k, wanted) \in Block
    BY <1>5, <1>6, AllocateAtStep
  <2>2. 2 + res <= pool_size
    BY <1>5, <2>1 DEF Block, Issued
  <2> QED
    BY <1>4, <1>5, <2>2, Sizes
<1>8. /\ w \in Seq(0 .. special_value) /\ Len(w) = size + 3 /\ w[2] = res /\ w[size + 3] = value
      /\ \A i \in 1 .. size : w[i + 2] = e[i]
  <2> DEFINE V == 0 .. special_value
  <2>1. e \in Seq(V) /\ value \in V /\ size \in V /\ res \in V
    BY <1>4, <1>7
  <2> HIDE DEF V
  <2>2. /\ w \in Seq(V) /\ Len(w) = size + 3 /\ w[2] = res /\ w[size + 3] = value
        /\ \A i \in 1 .. size : w[i + 2] = e[i]
    <3>1. size = Len(e)
      BY <1>4
    <3>2. RebuiltWords(V, e, value, size, res, w)
      BY <1>2, <2>1, <3>1, RebuiltFacts
    <3> QED
      BY <3>2 DEF RebuiltWords
  <2> QED
    BY <2>2 DEF V
<1>9. PICK m1, m, y : m1 = Write(mem, k.addr, w) /\ m = mem' /\ y = a + 1
  OBVIOUS
<1>10. OneNew(G, k, wanted, w, m1)
  <2>1. Len(w) <= wanted
    BY <1>4, <1>5, <1>8
  <2> QED
    BY <1>5, <1>6, <1>8, <1>9, <2>1, NewOne
<1>11. /\ HeapInv' /\ phase' = "program" /\ m1 \in Memories /\ objects \subseteq objects'
       /\ [addr |-> v, size |-> wanted] \in objects'
       /\ \A r \in G : Solid(r) => r.val # v
       /\ v \in 1 .. special_value
  BY <1>2, <1>10 DEF OneNew
<1>12. /\ \A i \in 1 .. Len(w) : WordIn(m1, v + i - 1) = w[i]
       /\ \A z : WordIn(m1, z) = Word(z) \/ \A o \in objects : z \notin Words(o)
       /\ \A o \in objects : \A z \in Words(o) : \A i \in 1 .. wanted : z # v + i - 1
       /\ \A i \in 1 .. wanted : v + i - 1 \in Pool
  BY <1>2, <1>10 DEF OneNew
<1>13. a \in Words([addr |-> a, size |-> 2]) /\ y \in Words([addr |-> a, size |-> 2]) /\ y \in Pool /\ a # y /\ v \in Pool
  <2>1. a >= big_memory_pool /\ a + 2 <= PoolEnd
    BY <1>3, BlockFacts
  <2>2. 1 \in 1 .. wanted /\ v + 1 - 1 = v
    BY <1>5, <1>11
  <2>3. v \in Pool
    BY <1>12, <2>2
  <2>4. y \in Pool /\ a # y /\ a \in a .. a + 2 - 1 /\ y \in a .. a + 2 - 1
    BY <1>3, <1>9, <2>1, Sizes DEF Pool
  <2>5. [addr |-> a, size |-> 2].addr = a /\ [addr |-> a, size |-> 2].size = 2
    OBVIOUS
  <2> QED
    BY <2>3, <2>4, <2>5 DEF Words
<1>14. \A i \in 1 .. wanted : a # v + i - 1 /\ y # v + i - 1
  BY <1>3, <1>12, <1>13
<1>15. v # y /\ a # v
  <2>1. 1 \in 1 .. wanted /\ v + 1 - 1 = v
    BY <1>5, <1>11
  <2> QED
    BY <1>14, <2>1
<1>16. BothPut(m1, v, y, size + 1, v, m)
  <2>1. PICK n : n = size + 1
    OBVIOUS
  <2>2. m = [m1 EXCEPT ![v] = n, ![y] = v]
    BY <1>2, <1>9, <2>1 DEF PushRebuilt
  <2>3. n \in 0 .. special_value /\ v \in 0 .. special_value
    BY <1>7, <1>11, <2>1, Sizes
  <2>4. BothPut(m1, v, y, n, v, m)
    BY <1>11, <1>13, <1>15, <2>2, <2>3, PutTwo
  <2> QED
    BY <2>1, <2>4
<1>17. /\ MemTyped' /\ Word(v)' = size + 1 /\ Word(y)' = v
       /\ \A z : z # v /\ z # y => Word(z)' = WordIn(m1, z)
  BY <1>9, <1>16, TypedNext, WordOfNext DEF BothPut
<1>18. Word(a)' = basicblock
  <2>1. WordIn(m1, a) = Word(a)
    BY <1>3, <1>12, <1>13
  <2> QED
    BY <1>3, <1>13, <1>15, <1>17, <2>1
<1>19. \A i \in 2 .. size + 3 : Word(v + i - 1)' = w[i]
  <2> SUFFICES ASSUME NEW i \in 2 .. size + 3 PROVE Word(v + i - 1)' = w[i]
    OBVIOUS
  <2>1. i \in 1 .. Len(w) /\ i \in 1 .. wanted /\ v + i - 1 # v
    BY <1>4, <1>5, <1>8, <1>11
  <2>2. v + i - 1 # y
    BY <1>14, <2>1
  <2> QED
    BY <1>12, <1>17, <2>1, <2>2
<1>20. Word(v + 1)' = res /\ \A i \in 1 .. size + 1 : Ref(Word(v + 1 + i)', AST_pointer) \in G
  <2>1. Word(v + 1)' = res
    <3>1. 2 \in 2 .. size + 3 /\ v + 2 - 1 = v + 1
      BY <1>4, <1>11
    <3> QED
      BY <1>8, <1>19, <3>1
  <2>2. ASSUME NEW i \in 1 .. size + 1 PROVE Ref(Word(v + 1 + i)', AST_pointer) \in G
    <3>1. i + 2 \in 2 .. size + 3 /\ v + (i + 2) - 1 = v + 1 + i
      BY <1>4, <1>11
    <3>2. Word(v + 1 + i)' = w[i + 2]
      BY <1>19, <3>1
    <3>3. CASE i = size + 1
      <4>1. i + 2 = size + 3
        BY <1>4, <3>3
      <4> QED
        BY <1>8, <3>2, <4>1
    <3>4. CASE i # size + 1
      <4>1. i \in 1 .. size
        BY <1>4, <3>4
      <4> QED
        BY <1>4, <1>8, <3>2, <4>1
    <3> QED
      BY <3>3, <3>4
  <2> QED
    BY <2>1, <2>2
<1>21. Typed /\ Shape(G, rk)
  BY WorldFacts
<1>22. UNCHANGED <<type_hash_table, type_roots, event_roots, functionVars, traceVars, copier, error, held>>
  BY DEF programUnchanged
<1>23. t \in 0 .. special_value /\ t # type_pointer /\ t # AST_pointer /\ IsHeapType(t)
  BY <1>1, RootType
<1> DEFINE d == Ref(a, AST_pointer)
           q == Ref(v, t)
           D == {d}
           N == {q}
<1>24. /\ D \in SUBSET G /\ N \in SUBSET Reference /\ d.type = AST_pointer /\ q.type = t /\ q.val = v
  BY <1>11, <1>23, Refs, Sizes
<1>25. Moves(G, D)
  <2>1. \A r \in D : r.type # type_pointer
    BY <1>24, Tags
  <2>2. \A r \in G \ D : r.type = AST_pointer /\ Solid(r) /\ Word(r.val) = basicblock =>
               Ref(Word(r.val + 1), type_roots[1]) \notin D
    BY <1>1, <1>23, Refs
  <2>3. \A r \in G \ D : r.type = function_pointer /\ r.val # 0 =>
               r.val \in Flagged(function_pool_flags)' /\ functions'[r.val] = functions[r.val]
    BY <1>21, <1>22, FunctionsStay DEF Typings, functionVars, Shape, Sound
  <2>4. ASSUME NEW z
        PROVE  \/ Word(z)' = Word(z)
               \/ \A o \in objects : z \notin Words(o)
               \/ z \in Words(BlockOf(d))
    <3>1. CASE z = y
      BY <1>3, <1>13, <3>1
    <3>2. CASE z = v
      <4>1. 1 \in 1 .. wanted /\ v + 1 - 1 = v
        BY <1>5, <1>11
      <4> QED
        BY <1>12, <3>2, <4>1
    <3>3. CASE z # y /\ z # v
      BY <1>12, <1>17, <3>3
    <3> QED
      BY <3>1, <3>2, <3>3
  <2> HIDE DEF d
  <2>5. \A z : \/ Word(z)' = Word(z)
               \/ \A o \in objects : z \notin Words(o)
               \/ \E x \in D : Solid(x) /\ z \in Words(BlockOf(x))
    BY <1>3, <2>4 DEF d
  <2> HIDE DEF D
  <2> QED
    BY <1>11, <1>17, <1>21, <1>22, <1>24, <2>1, <2>2, <2>3, <2>5, MovesIntro
<1>26. Fits(G \cup N, rk, d)' /\ OnMenu(d)' /\ Fits(G \cup N, rk, q)' /\ OnMenu(q)'
  <2>1. PICK n, H : n = size + 1 /\ H = G \cup N
    OBVIOUS
  <2>2. /\ G \subseteq H /\ Ref(v, t) \in H /\ n \in Nat /\ n <= res /\ Word(v)' = n /\ Word(a + 1)' = v
        /\ \A i \in 1 .. n : Ref(Word(v + 1 + i)', AST_pointer) \in G
        /\ [addr |-> a, size |-> 2] \in objects' /\ [addr |-> v, size |-> 2 + res] \in objects'
    BY <1>3, <1>4, <1>5, <1>9, <1>11, <1>17, <1>20, <2>1
  <2> HIDE DEF D
  <2>3. /\ Fits(H, rk, Ref(v, t))' /\ OnMenu(Ref(v, t))'
        /\ Fits(H, rk, Ref(a, AST_pointer))' /\ OnMenu(Ref(a, AST_pointer))'
    BY <1>1, <1>3, <1>5, <1>11, <1>18, <1>20, <1>25, <2>2, BasicblockFits
  <2> QED
    BY <2>1, <2>3
<1>27. Distinct(G, N)
  BY <1>11, <1>24 DEF Distinct
<1>28. \A r \in D \cup N : Fits(G \cup N, rk, r)' /\ OnMenu(r)'
  BY <1>26
<1>29. \A r \in N : r.type # type_pointer
  BY <1>23, <1>24
<1>30. held' \subseteq G \cup N
  BY <1>22 DEF World
<1>31. Guarded(G \cup N)'
  <2>1. UNCHANGED functions /\ (copier' # NoCopy => copier'.code = {})
    BY <1>22 DEF functionVars
  <2>2. \A r \in N : r.type # function_pointer
    BY <1>23, <1>24, Tags
  <2> HIDE DEF D, N
  <2> QED
    BY <1>3, <2>1, <2>2, BlocksGuarded DEF World
<1> HIDE DEF D, N, q, d
<1> QED
  BY <1>11, <1>22, <1>24, <1>25, <1>27, <1>28, <1>29, <1>30, <1>31, OperationGrows

\* The operation pushback_int keeps the world.
LEMMA PushbackStep ==
    ASSUME HeapInv, Typings, NEW G, NEW rk, World(G, rk), pushback_int
    PROVE  ProgramInv'
<1>1. PICK a \in Objects(AST_pointer), value \in Nullable(AST_pointer) :
        /\ Word(a) = basicblock
        /\ LET s == Word(a + 1)
               size == Word(s)
               wanted == VectorSize(Elements(s))
           IN
           IF size < Word(s + 1)
           THEN /\ mem' = [mem EXCEPT ![s] = size + 1, ![s + vector_header_size + size] = value]
                /\ UNCHANGED heapVars
           ELSE \E k \in BestFit(free_memory, wanted) :
                /\ AllocateAt(wanted, k)
                /\ mem' = [Write(mem, k.addr, VectorWords(Elements(s)) \o <<value>>)
                              EXCEPT ![k.addr] = size + 1, ![a + 1] = k.addr]
  BY DEF pushback_int
<1>2. PICK s, size, wanted : s = Word(a + 1) /\ size = Word(s) /\ wanted = VectorSize(Elements(s))
  OBVIOUS
<1>3. programUnchanged /\ UNCHANGED held /\ phase = "program" /\ copier = NoCopy
  BY DEF pushback_int, Running
<1>4. a # 0 /\ Ref(a, AST_pointer) \in G
  BY KnownIn
<1>5. Ref(value, AST_pointer) \in G /\ value \in 0 .. special_value
  <2>1. Ref(value, AST_pointer) \in G
    BY KnownIn DEF FieldlessTypes
  <2>2. Ref(value, AST_pointer) \in Reference
    BY <2>1, WorldFacts
  <2> QED
    BY <2>1, <2>2, Refs
<1>6. CASE size < Word(s + 1)
  <2>1. PushedWithRoom(s, value)
    BY <1>1, <1>2, <1>6 DEF PushedWithRoom
  <2>2. PICK t, u : t = type_roots[1] /\ u = AST_pointer
    OBVIOUS
  <2>3. t \in HeapTypes(G) /\ ver(t) = vector /\ u = Subtypes(t)[1]
    BY <2>2, RootIsVector
  <2>4. s # 0 /\ Ref(s, t) \in G
    BY <1>1, <1>2, <1>4, <2>2, BasicblockOfWorld
  <2>5. Ref(value, u) \in G /\ Visible(Ref(value, u))
    BY <1>5, <2>2, StorableIsVisible
  <2> QED
    BY <1>3, <1>5, <2>1, <2>3, <2>4, <2>5, VectorPushed
<1>7. CASE ~ (size < Word(s + 1))
  <2>1. PICK k \in BestFit(free_memory, wanted) :
                /\ AllocateAt(wanted, k)
                /\ mem' = [Write(mem, k.addr, VectorWords(Elements(s)) \o <<value>>)
                              EXCEPT ![k.addr] = size + 1, ![a + 1] = k.addr]
    BY <1>1, <1>2, <1>7
  <2>2. PushRebuilt(a, value, s, size, wanted, k)
    BY <1>1, <1>2, <2>1 DEF PushRebuilt
  <2> QED
    BY <1>3, <1>4, <1>5, <2>2, PushbackRebuilt
<1> QED
  BY <1>6, <1>7

\* The operation store keeps the world.
LEMMA StoreStep ==
    ASSUME HeapInv, Typings, NEW G, NEW rk, World(G, rk), store
    PROVE  ProgramInv'
<1>1. PICK a \in Objects(AST_pointer) :
        \/ /\ Word(a) \in DOMAIN ASTFields
           /\ \E value \in Nullable(AST_pointer) : \E i \in 1 .. ASTFields[Word(a)] :
                mem' = [mem EXCEPT ![a + i] = value]
        \/ /\ Word(a) = imv
           /\ \E value \in Nullable(dynamic_object) : mem' = [mem EXCEPT ![a + 1] = value]
        \/ /\ Word(a) = basicblock
           /\ \E value \in Nullable(AST_pointer) : \E i \in DOMAIN Elements(Word(a + 1)) :
                mem' = [mem EXCEPT ![Word(a + 1) + vector_header_size + i - 1] = value]
  BY DEF store
<1>2. a # 0 /\ Ref(a, AST_pointer) \in G /\ Visible(Ref(a, AST_pointer)) /\ Ref(a, AST_pointer).type = AST_pointer
  BY <1>1, KnownIn, StorableIsVisible, Refs
<1>3. /\ a \in Nat \ {0} /\ Solid(Ref(a, AST_pointer))
      /\ BlockOf(Ref(a, AST_pointer)) = [addr |-> a, size |-> get_full_size_of_AST(Word(a))]
  BY <1>2, ASTOfWorld
<1>4. /\ phase = "program" /\ copier = NoCopy /\ UNCHANGED <<heapVars, type_roots, functionVars>>
      /\ UNCHANGED <<type_hash_table, type_roots, event_roots, functionVars, traceVars, copier, error, held>>
  BY DEF store, Running, programUnchanged
<1>5. ASSUME NEW t \in FieldlessTypes, NEW value \in Nullable(t)
      PROVE  Ref(value, t) \in G /\ value \in 0 .. special_value
  <2>1. Ref(value, t) \in G
    BY KnownIn
  <2>2. Ref(value, t) \in Reference
    BY <2>1, WorldFacts
  <2> QED
    BY <2>1, <2>2, Refs
<1>6. CASE Word(a) \in DOMAIN ASTFields
  <2> PICK n : n = ASTFields[Word(a)]
    OBVIOUS
  <2>0. Word(a) # imv /\ Word(a) # basicblock
    BY <1>6, CollectorAssumption, Tags
  <2>1. PICK value \in Nullable(AST_pointer), i \in 1 .. n : mem' = [mem EXCEPT ![a + i] = value]
    BY <1>1, <2>0
  <2>2. n \in Nat /\ BlockOf(Ref(a, AST_pointer)) = [addr |-> a, size |-> 1 + n]
    BY <1>2, <1>3, <1>6, ASTOfWorld
  <2>3. Ref(value, AST_pointer) \in G /\ value \in 0 .. special_value
    BY <1>5 DEF FieldlessTypes
  <2>10. /\ HeapInv' /\ phase' = "program" /\ MemTyped' /\ Moves(G, {Ref(a, AST_pointer)})
         /\ objects \subseteq objects' /\ Stored(a + i, value)
    BY <1>2, <1>4, <2>1, <2>2, <2>3, WordStored
  <2>4. /\ HeapInv' /\ phase' = "program" /\ MemTyped' /\ Moves(G, {Ref(a, AST_pointer)})
        /\ objects \subseteq objects' /\ Word(a + i)' = value /\ \A w : w # a + i => Word(w)' = Word(w)
    BY <2>10 DEF Stored
  <2>5. Word(a)' = Word(a) /\ \A j \in 1 .. n : j # i => Word(a + j)' = Word(a + j)
    BY <1>3, <2>2, <2>4
  <2>6. Ref(Word(a + i)', AST_pointer) \in G /\ Visible(Ref(Word(a + i)', AST_pointer))
    BY <2>3, <2>4, StorableIsVisible
  <2>7. /\ Fits(G, rk, Ref(a, AST_pointer))' /\ OnMenu(Ref(a, AST_pointer))'
        /\ \A q \in Targets(Ref(a, AST_pointer))' :
              q = Ref(Word(a + i)', AST_pointer) \/ q \in Targets(Ref(a, AST_pointer))
    BY <1>2, <1>6, <2>4, <2>5, <2>6, FieldFits
  <2>8. \A q \in Targets(Ref(a, AST_pointer))' : Visible(q) \/ q \in Targets(Ref(a, AST_pointer))
    BY <2>6, <2>7
  <2> PICK d : d = Ref(a, AST_pointer)
    OBVIOUS
  <2>9. /\ d \in G /\ Visible(d) /\ d.type = AST_pointer /\ Moves(G, {d})
        /\ Fits(G, rk, d)' /\ OnMenu(d)' /\ \A q \in Targets(d)' : Visible(q) \/ q \in Targets(d)
    BY <1>2, <2>4, <2>7, <2>8 DEF Fits, OnMenu, Ref, AST_pointer
  <2> QED
    BY <1>4, <2>4, <2>9, ASTRedirected
<1>7. CASE Word(a) = imv
  <2>0. Word(a) \notin DOMAIN ASTFields /\ Word(a) # basicblock
    BY <1>7, CollectorAssumption, Tags
  <2>1. PICK value \in Nullable(dynamic_object) : mem' = [mem EXCEPT ![a + 1] = value]
    BY <1>1, <2>0
  <2>2. /\ BlockOf(Ref(a, AST_pointer)) = [addr |-> a, size |-> 1 + 1] /\ 1 \in 1 .. 1 /\ 1 \in Nat
        /\ "imv" \in Menu /\ BlockOf(Ref(a, AST_pointer)) \in objects
    BY <1>2, <1>3, <1>7, ASTOfWorld
  <2>3. Ref(value, dynamic_object) \in G /\ value \in 0 .. special_value
    BY <1>5 DEF FieldlessTypes
  <2>10. /\ HeapInv' /\ phase' = "program" /\ MemTyped' /\ Moves(G, {Ref(a, AST_pointer)})
         /\ objects \subseteq objects' /\ Stored(a + 1, value)
    BY <1>2, <1>4, <2>1, <2>2, <2>3, WordStored
  <2>4. /\ HeapInv' /\ phase' = "program" /\ MemTyped' /\ Moves(G, {Ref(a, AST_pointer)})
        /\ objects \subseteq objects' /\ Word(a + 1)' = value /\ \A w : w # a + 1 => Word(w)' = Word(w)
    BY <2>10 DEF Stored
  <2>5. Word(a)' = imv /\ [addr |-> a, size |-> 2] \in objects'
    BY <1>3, <1>7, <2>2, <2>4
  <2>6. /\ Fits(G, rk, Ref(a, AST_pointer))' /\ OnMenu(Ref(a, AST_pointer))'
        /\ Targets(Ref(a, AST_pointer))' = {Ref(value, dynamic_object)}
    BY <1>3, <2>2, <2>3, <2>4, <2>5, ImvFits
  <2>7. Visible(Ref(value, dynamic_object))
    BY Refs, Tags DEF Visible
  <2>8. \A q \in Targets(Ref(a, AST_pointer))' : Visible(q) \/ q \in Targets(Ref(a, AST_pointer))
    BY <2>6, <2>7
  <2> PICK d : d = Ref(a, AST_pointer)
    OBVIOUS
  <2>9. /\ d \in G /\ Visible(d) /\ d.type = AST_pointer /\ Moves(G, {d})
        /\ Fits(G, rk, d)' /\ OnMenu(d)' /\ \A q \in Targets(d)' : Visible(q) \/ q \in Targets(d)
    BY <1>2, <2>4, <2>6, <2>8 DEF Fits, OnMenu, Ref, AST_pointer
  <2> QED
    BY <1>4, <2>4, <2>9, ASTRedirected
<1>8. CASE Word(a) = basicblock
  <2>0. Word(a) \notin DOMAIN ASTFields /\ Word(a) # imv
    BY <1>8, CollectorAssumption, Tags
  <2>1. PICK s, t, u : s = Word(a + 1) /\ t = type_roots[1] /\ u = AST_pointer
    OBVIOUS
  <2>2. PICK value \in Nullable(AST_pointer), j \in DOMAIN Elements(s) :
           mem' = [mem EXCEPT ![s + vector_header_size + j - 1] = value]
    BY <1>1, <2>0, <2>1
  <2>3. t \in HeapTypes(G) /\ ver(t) = vector /\ u = Subtypes(t)[1]
    BY <2>1, RootIsVector
  <2>4. s # 0 /\ Ref(s, t) \in G
    BY <1>2, <1>8, <2>1, BasicblockOfWorld
  <2>5. j \in 1 .. Word(s)
    BY DEF Elements
  <2>6. Ref(value, u) \in G /\ value \in 0 .. special_value /\ Visible(Ref(value, u))
    BY <1>5, <2>1, StorableIsVisible DEF FieldlessTypes
  <2>7. UNCHANGED <<heapVars, held>> /\ programUnchanged
    BY DEF store
  <2> QED
    BY <1>4, <2>2, <2>3, <2>4, <2>5, <2>6, <2>7, ElementStored
<1> QED
  BY <1>1, <1>6, <1>7, <1>8

\* vecpb where the vector of the local r is full and moves.
VectorMoves(r, value, k) ==
    LET e == Elements(r.val) IN
    /\ AllocateAt(VectorSize(e), k)
    /\ mem' = Write(mem, k.addr, <<Len(e) + 1, ReservedSize(Len(e))>> \o Append(e, value))
    /\ held' = (held \ {r}) \cup {Ref(k.addr, r.type)}

\* The words of a vector with one element more.
MovedWords(V, e, v, x, y, w) ==
    /\ w \in Seq(V) /\ Len(w) = Len(e) + 3 /\ w[1] = x /\ w[2] = y /\ w[Len(e) + 3] = v
    /\ \A i \in 1 .. Len(e) : w[i + 2] = e[i]

\* The words of the vector that takes its place.
LEMMA MovedFacts ==
    ASSUME NEW V, NEW e \in Seq(V), NEW v \in V, NEW x \in V, NEW y \in V,
           NEW w, w = <<x, y>> \o Append(e, v)
    PROVE  MovedWords(V, e, v, x, y, w)
<1>1. PICK n, f : n = Len(e) /\ f = Append(e, v)
  OBVIOUS
<1>2. n \in Nat /\ f \in Seq(V) /\ Len(f) = n + 1 /\ f[n + 1] = v /\ \A i \in 1 .. n : f[i] = e[i]
  BY <1>1
<1>3. w = <<x, y>> \o f
  BY <1>1
<1>4. w \in Seq(V) /\ Len(w) = n + 3 /\ w[1] = x /\ w[2] = y /\ \A i \in 1 .. n + 1 : w[i + 2] = f[i]
  BY <1>2, <1>3
<1>5. w[n + 3] = v /\ \A i \in 1 .. n : w[i + 2] = e[i]
  <2>1. n + 1 \in 1 .. n + 1 /\ (n + 1) + 2 = n + 3
    BY <1>2
  <2> QED
    BY <1>2, <1>4, <2>1
<1> QED
  BY <1>1, <1>4, <1>5 DEF MovedWords

\* The vector of a local is full: another takes its place.
LEMMA VectorMoved ==
    ASSUME HeapInv, Typings, NEW G, NEW rk, World(G, rk), copier = NoCopy,
           NEW t \in HeapTypes(G), ver(t) = vector, NEW u, u = Subtypes(t)[1],
           NEW s, s # 0, Ref(s, t) \in held, NEW value \in 0 .. special_value,
           Ref(value, u) \in G, Visible(Ref(value, u)),
           NEW k \in BestFit(free_memory, VectorSize(Elements(s))),
           VectorMoves(Ref(s, t), value, k), programUnchanged
    PROVE  ProgramInv'
<1>1. PICK e, size, res, wanted, v : /\ e = Elements(s) /\ size = Len(e) /\ res = ReservedSize(size)
                                     /\ wanted = VectorSize(e) /\ v = k.addr
  OBVIOUS
<1>2. Ref(s, t) \in G /\ Ref(s, t).val = s /\ Ref(s, t).type = t
  BY Refs DEF World
<1>3. /\ e \in Seq(0 .. special_value) /\ size = Word(s) /\ size \in Nat
      /\ \A i \in 1 .. size : Ref(e[i], u) \in G /\ Ref(e[i], u) \in Targets(Ref(s, t))
  <2>1. /\ e \in Seq(0 .. special_value) /\ Len(e) = Word(s)
        /\ \A i \in 1 .. Word(s) : e[i] = Word(s + 1 + i) /\ Ref(e[i], u) \in G
    BY <1>1, <1>2, ElementsOf
  <2>2. size = Word(s) /\ size \in Nat
    BY <1>1, <2>1
  <2>3. ASSUME NEW i \in 1 .. Word(s) PROVE Ref(e[i], u) \in Targets(Ref(s, t))
    <3>1. Targets(Ref(s, t)) = {Ref(Word(s + 1 + j), u) : j \in 1 .. Word(s)}
      BY <1>2, VectorOfType
    <3>2. e[i] = Word(s + 1 + i)
      BY <2>1
    <3> QED
      BY <3>1, <3>2
  <2> QED
    BY <2>1, <2>2, <2>3
<1>4. res \in Nat /\ res > size /\ wanted = 2 + res /\ wanted \in Nat \ {0}
  <2>1. res \in Nat /\ res > size
    BY <1>1, <1>3, ReservedFacts
  <2>2. VectorSize(e) = vector_header_size + ReservedSize(Len(e))
    BY DEF VectorSize
  <2>3. wanted = 2 + res
    BY <1>1, <2>2 DEF vector_header_size
  <2> QED
    BY <2>1, <2>3
<1>5. PICK w : w = <<size + 1, res>> \o Append(e, value)
  OBVIOUS
<1>6. /\ AllocateAt(wanted, k) /\ k \in BestFit(free_memory, wanted) /\ mem' = Write(mem, k.addr, w)
      /\ held' = (held \ {Ref(s, t)}) \cup {Ref(v, t)}
  BY <1>1, <1>2, <1>5 DEF VectorMoves
<1>7. size + 1 \in 0 .. special_value /\ res \in 0 .. special_value
  <2>1. Issued(k, wanted) \in Block
    BY <1>4, <1>6, AllocateAtStep
  <2>2. 2 + res <= pool_size
    BY <1>4, <2>1 DEF Block, Issued
  <2> QED
    BY <1>3, <1>4, <2>2, Sizes
<1>8. /\ w \in Seq(0 .. special_value) /\ Len(w) = size + 3 /\ w[1] = size + 1 /\ w[2] = res
      /\ w[size + 3] = value /\ \A i \in 1 .. size : w[i + 2] = e[i]
  <2> DEFINE V == 0 .. special_value
  <2>1. e \in Seq(V) /\ value \in V /\ size + 1 \in V /\ res \in V
    BY <1>3, <1>7
  <2> HIDE DEF V
  <2>2. MovedWords(V, e, value, size + 1, res, w)
    BY <1>5, <2>1, MovedFacts
  <2> QED
    BY <1>1, <2>2 DEF V, MovedWords
<1>9. /\ HeapInv' /\ phase' = "program" /\ MemTyped' /\ Moves(G, {})
      /\ Issued(k, wanted) \in objects' /\ \A r \in G : Solid(r) => r.val # v
      /\ v \in 0 .. special_value /\ v # 0 /\ v \in Nat
      /\ \A i \in 1 .. Len(w) : Word(v + i - 1)' = w[i]
  <2>1. UNCHANGED <<type_roots, functionVars>>
    BY DEF programUnchanged
  <2>2. Len(w) <= wanted
    BY <1>3, <1>4, <1>8
  <2> QED
    BY <1>1, <1>4, <1>6, <1>8, <2>1, <2>2, NewObject
<1>10. Word(v)' = size + 1 /\ Word(v + 1)' = res
  <2>1. 1 \in 1 .. Len(w) /\ 2 \in 1 .. Len(w) /\ v + 1 - 1 = v /\ v + 2 - 1 = v + 1
    BY <1>3, <1>8, <1>9
  <2> QED
    BY <1>8, <1>9, <2>1
<1>11. ASSUME NEW i \in 1 .. size + 1
       PROVE  Ref(Word(v + 1 + i)', u) \in G /\ Visible(Ref(Word(v + 1 + i)', u))
  <2>1. i + 2 \in 1 .. Len(w) /\ v + (i + 2) - 1 = v + 1 + i
    BY <1>3, <1>8, <1>9
  <2>2. Word(v + 1 + i)' = w[i + 2]
    BY <1>9, <2>1
  <2>3. CASE i = size + 1
    <3>1. i + 2 = size + 3
      BY <1>3, <2>3
    <3> QED
      BY <1>8, <2>2, <3>1
  <2>4. CASE i # size + 1
    <3>1. i \in 1 .. size
      BY <1>3, <2>4
    <3>2. Word(v + 1 + i)' = e[i] /\ Ref(e[i], u) \in G /\ Ref(e[i], u) \in Targets(Ref(s, t))
      BY <1>3, <1>8, <2>2, <3>1
    <3>3. Ref(e[i], u) \in Known
      BY <3>2, KnownLeadsOn
    <3> QED
      BY <3>2, <3>3 DEF Visible
  <2> QED
    BY <2>3, <2>4
<1> PICK n, H : n = size + 1 /\ H = G \cup {Ref(v, t)}
  OBVIOUS
<1>12. Fits(H, rk, Ref(v, t))' /\ OnMenu(Ref(v, t))' /\ VectorLeads(v, t, u, n)'
  <2>1. [addr |-> v, size |-> 2 + res] \in objects'
    BY <1>1, <1>4, <1>9 DEF Issued
  <2>2. v \in 1 .. special_value /\ n \in Nat /\ n <= res /\ Word(v)' = n /\ Word(v + 1)' = res
    BY <1>3, <1>4, <1>9, <1>10, Sizes
  <2>3. G \subseteq H /\ \A i \in 1 .. n : Ref(Word(v + 1 + i)', u) \in H
    BY <1>11
  <2> QED
    BY <1>4, <1>9, <2>1, <2>2, <2>3, VectorOfFits
<1>13. \A q \in Targets(Ref(v, t))' : Visible(q)
  <2>1. \A q \in Targets(Ref(v, t))' : \E i \in 1 .. n : q = Ref(Word(v + 1 + i)', u)
    BY <1>12 DEF VectorLeads, Ref
  <2> QED
    BY <1>11, <2>1
<1>14. t \in 0 .. special_value /\ t # type_pointer /\ t # function_pointer
  <2>1. IsHeapType(t) /\ Ref(t, type_pointer) \in Reference
    BY WorldFacts DEF HeapTypes
  <2> QED
    BY <2>1, Refs, Tags
<1>15. held' \subseteq held \cup {Ref(v, t)} /\ UNCHANGED <<type_hash_table, type_roots, event_roots, functionVars, traceVars, copier, error>>
  BY <1>6 DEF programUnchanged
<1>16. Fits(G \cup {Ref(v, t)}, rk, Ref(v, t))'
  BY <1>12
<1> QED
  BY <1>9, <1>12, <1>13, <1>14, <1>15, <1>16, ObjectJoins

\* The operation vecpb keeps the world.
LEMMA VecpbStep ==
    ASSUME HeapInv, Typings, NEW G, NEW rk, World(G, rk), vecpb
    PROVE  ProgramInv'
<1>1. PICK r \in held : ver(r.type) = vector /\ \E value \in Storable(Subtypes(r.type)[1]) :
           LET s == r.val
               size == Word(s)
               wanted == VectorSize(Elements(s))
           IN
           IF size < Word(s + 1)
           THEN /\ mem' = [mem EXCEPT ![s] = size + 1, ![s + vector_header_size + size] = value]
                /\ UNCHANGED <<heapVars, held>>
           ELSE \E k \in BestFit(free_memory, wanted) :
                /\ AllocateAt(wanted, k)
                /\ mem' = Write(mem, k.addr, <<size + 1, ReservedSize(size)>> \o Append(Elements(s), value))
                /\ held' = (held \ {r}) \cup {Ref(k.addr, r.type)}
  BY DEF vecpb
<1>2. PICK s, t, u : s = r.val /\ t = r.type /\ u = Subtypes(t)[1]
  OBVIOUS
<1>3. PICK value \in Storable(u) :
           IF Word(s) < Word(s + 1)
           THEN /\ mem' = [mem EXCEPT ![s] = Word(s) + 1, ![s + vector_header_size + Word(s)] = value]
                /\ UNCHANGED <<heapVars, held>>
           ELSE \E k \in BestFit(free_memory, VectorSize(Elements(s))) :
                /\ AllocateAt(VectorSize(Elements(s)), k)
                /\ mem' = Write(mem, k.addr, <<Word(s) + 1, ReservedSize(Word(s))>> \o Append(Elements(s), value))
                /\ held' = (held \ {r}) \cup {Ref(k.addr, t)}
  BY <1>1, <1>2
<1>4. programUnchanged /\ phase = "program" /\ copier = NoCopy
  BY DEF vecpb, Running
<1>5. Typed /\ Shape(G, rk) /\ r \in G /\ r \in Reference /\ r = Ref(s, t)
  BY <1>2, WorldFacts, Refs DEF World
<1>6. t \in HeapTypes(G) /\ ver(t) = vector /\ s # 0
  <2>1. t \notin FieldlessTypes
    BY <1>1, <1>2, Fieldless, Tags
  <2>2. Sound(rk, r)
    BY <1>5 DEF Shape
  <2>3. IsHeapType(t) /\ s # 0
    BY <1>2, <2>1, <2>2 DEF Sound, OneWord
  <2>4. Ref(t, type_pointer) \in G
    BY <1>2, <1>5, <2>3 DEF Shape, Closed
  <2> QED
    BY <1>1, <1>2, <1>5, <2>3, <2>4, Refs DEF HeapTypes
<1>7. OneWord(u) /\ u \in Nat
  <2>1. MadeType(rk, t) /\ Subtypes(t) = <<Word(t + 1)>> /\ Range(Subtypes(t)) = {Word(t + 1)} /\ t \in Nat
    BY <1>5, <1>6, TypeFacts, SubtypesByTag, Tags DEF Typed
  <2>2. u = Word(t + 1) /\ u \in Range(Subtypes(t))
    BY <1>2, <2>1
  <2> QED
    BY <1>5, <2>1, <2>2, WordTyped, Sizes DEF MadeType, Typed
<1>8. Ref(value, u) \in G /\ value \in 0 .. special_value /\ Visible(Ref(value, u))
  BY <1>7, StorableIn, StorableIsVisible
<1>9. CASE Word(s) < Word(s + 1)
  <2>1. PushedWithRoom(s, value) /\ UNCHANGED held
    BY <1>3, <1>9 DEF PushedWithRoom
  <2> QED
    BY <1>2, <1>4, <1>5, <1>6, <1>8, <2>1, VectorPushed
<1>10. CASE ~ (Word(s) < Word(s + 1))
  <2>1. PICK k \in BestFit(free_memory, VectorSize(Elements(s))) :
                /\ AllocateAt(VectorSize(Elements(s)), k)
                /\ mem' = Write(mem, k.addr, <<Word(s) + 1, ReservedSize(Word(s))>> \o Append(Elements(s), value))
                /\ held' = (held \ {r}) \cup {Ref(k.addr, t)}
    BY <1>3, <1>10
  <2>2. PICK e : e = Elements(s)
    OBVIOUS
  <2>5. Ref(s, t) \in G
    BY <1>5
  <2>3. Len(e) = Word(s)
    BY <1>2, <1>6, <2>2, <2>5, ElementsOf
  <2>4. VectorMoves(Ref(s, t), value, k)
    <3>1. Ref(s, t).val = s /\ Ref(s, t).type = t
      BY Refs
    <3>2. /\ AllocateAt(VectorSize(e), k)
          /\ mem' = Write(mem, k.addr, <<Len(e) + 1, ReservedSize(Len(e))>> \o Append(e, value))
      <4>1. PICK y : y = Len(e)
        OBVIOUS
      <4>2. mem' = Write(mem, k.addr, <<y + 1, ReservedSize(y)>> \o Append(e, value))
        BY <2>1, <2>2, <2>3, <4>1
      <4> QED
        BY <2>1, <2>2, <4>1, <4>2
    <3>3. held' = (held \ {Ref(s, t)}) \cup {Ref(k.addr, t)}
      BY <1>5, <2>1
    <3> QED
      BY <2>2, <3>1, <3>2, <3>3 DEF VectorMoves
  <2> QED
    BY <1>2, <1>4, <1>5, <1>6, <1>8, <2>4, VectorMoved
<1> QED
  BY <1>9, <1>10

------------------------------------------------------------------------------
(* New types *)

\* No pointer to a structure: its size would be taken wrong (memory.cpp:297).
FlatTypes == pointer \in DOMAIN TypeShapes => con_vec \notin TypeShapes[pointer]

\* Types of the world that are the same are identical.
LEMMA TypesDiffer ==
    ASSUME HeapInv, Typings, NEW G, NEW rk, World(G, rk),
           NEW t \in FieldlessTypes \cup HeapTypes(G), NEW u \in FieldlessTypes \cup HeapTypes(G), SameType(t, u)
    PROVE  t = u
<1>1. Typed /\ Shape(G, rk)
  BY WorldFacts
<1>2. \A x \in HeapTypes(G) : IsHeapType(x) /\ ver(x) \in {con_vec, vector, pointer}
  BY <1>1, TypeFacts
<1>3. \A x \in FieldlessTypes : ver(x) = x /\ x \in {1, 2, 3, 4, 5}
  BY Fieldless, Tags
<1>4. ver(t) = ver(u)
  BY DEF SameType
<1>5. CASE t \in HeapTypes(G) /\ u \in HeapTypes(G)
  BY <1>5 DEF World, TypesApart
<1>6. CASE t \in FieldlessTypes /\ u \in FieldlessTypes
  BY <1>3, <1>4, <1>6
<1> QED
  BY <1>2, <1>3, <1>4, <1>5, <1>6, Tags

\* A type of the world is the one the table has.
LEMMA UniqueIsItself ==
    ASSUME HeapInv, Typings, NEW G, NEW rk, World(G, rk), NEW t \in FieldlessTypes \cup HeapTypes(G)
    PROVE  Unique(t) = t /\ (InTable(t) = {} <=> t \notin type_hash_table)
<1>1. \A e \in InTable(t) : e \in type_hash_table /\ SameType(e, t) /\ e \in FieldlessTypes \cup HeapTypes(G)
  BY DEF InTable, World, Tabled
<1>2. \A e \in InTable(t) : e = t
  BY <1>1, TypesDiffer
<1>3. t \in type_hash_table => t \in InTable(t)
  BY DEF InTable, SameType
<1>4. Unique(t) = t
  BY <1>2 DEF Unique
<1> QED
  BY <1>1, <1>2, <1>3, <1>4

\* A type object as its words make it.
TypeTags == {con_vec, vector, pointer}
\* The number of types a new type is made of.
Arity(tag) == IF tag = con_vec THEN 2 ELSE 1
\* n is a type object with that tag and those subtypes.
MadeAs(n, tag, subs, size) ==
    /\ IsHeapType(n) /\ ver(n) = tag /\ Subtypes(n) = subs /\ Extent(Ref(n, type_pointer)) = size

\* e is s followed by t.
Joined(V, s, t, e) ==
    /\ e \in Seq(V) /\ Len(e) = Len(s) + Len(t)
    /\ \A i \in 1 .. Len(s) : e[i] = s[i]
    /\ \A i \in 1 .. Len(t) : e[Len(s) + i] = t[i]

\* Two sequences, one after the other.
LEMMA JoinedFacts ==
    ASSUME NEW V, NEW s \in Seq(V), NEW t \in Seq(V), NEW e, e = s \o t
    PROVE  Joined(V, s, t, e)
  BY DEF Joined

\* A sequence of one.
LEMMA OneTuple ==
    ASSUME NEW V, NEW f \in [1 .. 1 -> V]
    PROVE  f = <<f[1]>>
<1>1. PICK g : g = <<f[1]>>
  OBVIOUS
<1>2. f \in Seq(V) /\ Len(f) = 1 /\ f[1] \in V
  <2>1. PICK n : n = 1
    OBVIOUS
  <2>2. n \in Nat /\ f \in [1 .. n -> V]
    BY <2>1
  <2>3. f \in Seq(V) /\ Len(f) = n
    BY <2>2, FunctionIsSeq
  <2> QED
    BY <2>1, <2>3
<1>3. g \in Seq(V) /\ Len(g) = 1 /\ g[1] = f[1]
  BY <1>1, <1>2
<1>4. f = g
  BY <1>2, <1>3, SeqEqual
<1> QED
  BY <1>1, <1>4

\* The words of a new type.
LEMMA TypeWordsFacts ==
    ASSUME NEW V, 2 \in V, NEW tag \in TypeTags, tag \in V, NEW subs \in [1 .. Arity(tag) -> V],
           NEW words, words = TypeWords(tag, subs)
    PROVE  /\ words \in Seq(V) /\ Len(words) = (IF tag = con_vec THEN 4 ELSE 2)
           /\ words[1] = tag
           /\ tag = con_vec => words[2] = 2 /\ words[3] = subs[1] /\ words[4] = subs[2]
           /\ tag # con_vec => words[2] = subs[1]
           /\ Len(subs) = Arity(tag) /\ subs \in Seq(V)
<1>1. Arity(tag) \in Nat
  BY DEF Arity
<1>2. subs \in Seq(V) /\ Len(subs) = Arity(tag)
  BY <1>1, FunctionIsSeq
<1>3. CASE tag = con_vec
  <2>1. words = <<tag, 2>> \o subs /\ Len(subs) = 2
    BY <1>2, <1>3 DEF TypeWords, Arity
  <2>2. PICK x : x = <<tag, 2>>
    OBVIOUS
  <2>3. x \in Seq(V) /\ Len(x) = 2 /\ x[1] = tag /\ x[2] = 2
    BY <2>2, PairFacts
  <2>4. /\ words \in Seq(V) /\ Len(words) = Len(x) + Len(subs)
        /\ \A i \in 1 .. Len(x) : words[i] = x[i]
        /\ \A i \in 1 .. Len(subs) : words[Len(x) + i] = subs[i]
    <3>1. words = x \o subs
      BY <2>1, <2>2
    <3>2. Joined(V, x, subs, words)
      BY <1>2, <2>3, <3>1, JoinedFacts
    <3> QED
      BY <3>2 DEF Joined
  <2>5. words[1] = x[1] /\ words[2] = x[2] /\ words[2 + 1] = subs[1] /\ words[2 + 2] = subs[2]
    BY <2>1, <2>3, <2>4
  <2>6. Len(words) = 4 /\ words[3] = subs[1] /\ words[4] = subs[2]
    BY <2>1, <2>3, <2>4, <2>5
  <2> QED
    BY <1>2, <1>3, <2>3, <2>4, <2>5, <2>6
<1>4. CASE tag # con_vec
  <2>1. words = <<tag>> \o subs /\ Len(subs) = 1
    BY <1>2, <1>4 DEF TypeWords, Arity
  <2>2. words \in Seq(V) /\ Len(words) = Len(subs) + 1 /\ words[1] = tag /\ \A i \in 1 .. Len(subs) : words[i + 1] = subs[i]
    BY <1>2, <2>1, ConsFacts
  <2>3. Len(words) = 2 /\ words[1 + 1] = subs[1]
    BY <2>1, <2>2
  <2>4. words[2] = subs[1]
    BY <2>3
  <2> QED
    BY <1>2, <1>4, <2>2, <2>3, <2>4
<1> QED
  BY <1>3, <1>4

\* The words at n are those of a type object.
WordsMake(n, tag, subs) ==
    /\ Word(n) = tag
    /\ tag = con_vec => Word(n + 1) = 2 /\ Word(n + 2) = subs[1] /\ Word(n + 3) = subs[2]
    /\ tag # con_vec => Word(n + 1) = subs[1]

\* And they make it one.
LEMMA WordsMakeType ==
    \A n \in Nat : \A tag \in TypeTags : \A subs \in [1 .. Arity(tag) -> Nat] :
        MemTyped /\ IsHeapType(n) /\ WordsMake(n, tag, subs) =>
            MadeAs(n, tag, subs, IF tag = con_vec THEN 4 ELSE 2)
<1> SUFFICES ASSUME NEW n \in Nat, NEW tag \in TypeTags, NEW subs \in [1 .. Arity(tag) -> Nat],
                    MemTyped, IsHeapType(n), WordsMake(n, tag, subs)
             PROVE  MadeAs(n, tag, subs, IF tag = con_vec THEN 4 ELSE 2)
  OBVIOUS
<1>1. ver(n) = tag /\ Word(n) = tag
  BY SubtypesByTag DEF WordsMake
<1>2. n # 0
  BY Tags
<1>3. Extent(Ref(n, type_pointer)) = total_valid_fields(n) + 1
  <2>1. Ref(n, type_pointer).val = n /\ Ref(n, type_pointer).type = type_pointer
    BY Refs
  <2> QED
    BY <1>2, <2>1, ExtentByKind
<1>4. CASE tag = con_vec
  <2>0. Word(n) = con_vec /\ Word(n + 1) = 2
    BY <1>1, <1>4 DEF WordsMake
  <2>1. /\ DOMAIN Subtypes(n) = 1 .. 2 /\ \A i \in 1 .. 2 : Subtypes(n)[i] = Word(n + 1 + i)
        /\ total_valid_fields(n) = 3
    <3>1. /\ DOMAIN Subtypes(n) = 1 .. Word(n + 1)
          /\ \A i \in 1 .. Word(n + 1) : Subtypes(n)[i] = Word(n + 1 + i)
          /\ total_valid_fields(n) = Word(n + 1) + 1
      BY <2>0, SubtypesByTag
    <3> QED
      BY <2>0, <3>1
  <2>2. n + 1 + 1 = n + 2 /\ n + 1 + 2 = n + 3
    OBVIOUS
  <2>3. \A i \in 1 .. 2 : Subtypes(n)[i] = subs[i]
    BY <1>4, <2>1, <2>2 DEF WordsMake
  <2>4. Subtypes(n) = [i \in 1 .. Word(n + 1) |-> Word(n + 1 + i)]
    <3>1. IsHeapType(n) /\ ver(n) = con_vec
      BY <1>1, <1>4
    <3> QED
      BY <3>1, Tags DEF Subtypes
  <2>5. subs = [i \in 1 .. 2 |-> subs[i]] /\ Subtypes(n) = [i \in 1 .. 2 |-> Subtypes(n)[i]]
    <3>1. subs \in [1 .. 2 -> Nat]
      BY <1>4 DEF Arity
    <3>2. Subtypes(n) = [i \in 1 .. 2 |-> Word(n + 1 + i)]
      BY <2>0, <2>4
    <3> QED
      BY <3>1, <3>2
  <2>6. Subtypes(n) = subs
    BY <2>3, <2>5
  <2> QED
    BY <1>1, <1>3, <1>4, <2>1, <2>6, 3 + 1 = 4 DEF MadeAs
<1>5. CASE tag # con_vec
  <2>1. Subtypes(n) = <<Word(n + 1)>> /\ total_valid_fields(n) = 1
    BY <1>1, <1>5, SubtypesByTag DEF TypeTags
  <2>2. subs = <<subs[1]>>
    <3>1. subs \in [1 .. 1 -> Nat]
      BY <1>5 DEF Arity
    <3> QED
      BY <3>1, OneTuple
  <2>3. Subtypes(n) = subs
    BY <1>5, <2>1, <2>2 DEF WordsMake
  <2> QED
    BY <1>1, <1>3, <1>5, <2>1, <2>3, 1 + 1 = 2 DEF MadeAs
<1> QED
  BY <1>4, <1>5

\* In the next state too.
LEMMA WordsMakeTypeNext ==
    (\A n \in Nat : \A tag \in TypeTags : \A subs \in [1 .. Arity(tag) -> Nat] :
        MemTyped /\ IsHeapType(n) /\ WordsMake(n, tag, subs) =>
            MadeAs(n, tag, subs, IF tag = con_vec THEN 4 ELSE 2))'
BY WordsMakeType, PTL

\* A rank above those of the types that a new one is made of.
LEMMA RankAbove ==
    ASSUME NEW rk \in [Nat -> Nat], NEW tag, NEW subs \in [1 .. Arity(tag) -> Nat], NEW n \in Nat,
           \A i \in 1 .. Arity(tag) : IsHeapType(subs[i]) => subs[i] # n
    PROVE  \E rk2 \in [Nat -> Nat] :
               /\ \A t \in Nat : t # n => rk2[t] = rk[t]
               /\ \A i \in 1 .. Arity(tag) : IsHeapType(subs[i]) => rk2[subs[i]] < rk2[n]
<1>1. PICK b : b = rk[subs[1]] + rk[subs[Arity(tag)]] + 1
  OBVIOUS
<1>2. /\ Arity(tag) \in {1, 2} /\ 1 .. Arity(tag) \subseteq {1, Arity(tag)}
      /\ 1 \in 1 .. Arity(tag) /\ Arity(tag) \in 1 .. Arity(tag)
  BY DEF Arity
<1>3. subs[1] \in Nat /\ subs[Arity(tag)] \in Nat
  BY <1>2
<1>4. rk[subs[1]] \in Nat /\ rk[subs[Arity(tag)]] \in Nat
  BY <1>3
<1>5. b \in Nat /\ rk[subs[1]] < b /\ rk[subs[Arity(tag)]] < b
  <2>1. PICK x, y : x = rk[subs[1]] /\ y = rk[subs[Arity(tag)]]
    OBVIOUS
  <2>2. x \in Nat /\ y \in Nat /\ b = x + y + 1
    BY <1>1, <1>4, <2>1
  <2>3. b \in Nat /\ x < b /\ y < b
    BY <2>2
  <2> QED
    BY <2>1, <2>3
<1>6. \A i \in 1 .. Arity(tag) : rk[subs[i]] < b /\ subs[i] \in Nat
  BY <1>2, <1>5
<1>7. PICK rk2 : rk2 = [rk EXCEPT ![n] = b]
  OBVIOUS
<1>8. rk2 \in [Nat -> Nat] /\ rk2[n] = b /\ \A t \in Nat : t # n => rk2[t] = rk[t]
  BY <1>5, <1>7
<1>9. \A i \in 1 .. Arity(tag) : IsHeapType(subs[i]) => rk2[subs[i]] < rk2[n]
  BY <1>6, <1>8
<1> QED
  BY <1>8, <1>9

\* A step that makes a type n that the world does not have.
JoinedType(G, n, tag, subs, size) ==
    /\ HeapInv' /\ phase' = "program" /\ MemTyped' /\ Moves(G, {})
    /\ n \in 1 .. special_value /\ IsHeapType(n) /\ \A r \in G : Solid(r) => r.val # n
    /\ tag \in TypeTags /\ subs \in [1 .. Arity(tag) -> FieldlessTypes \cup HeapTypes(G)]
    /\ \A i \in 1 .. Arity(tag) : OneWord(subs[i])
    /\ MadeAs(n, tag, subs, size)' /\ [addr |-> n, size |-> size] \in objects'

\* A new type as a step leaves it.
LEMMA TypeFits ==
    ASSUME HeapInv, Typings, NEW G, NEW rk, World(G, rk), NEW n, NEW tag, NEW subs, NEW size,
           JoinedType(G, n, tag, subs, size),
           NEW rk2 \in [Nat -> Nat], \A i \in 1 .. Arity(tag) : IsHeapType(subs[i]) => rk2[subs[i]] < rk2[n],
           NEW H, G \subseteq H
    PROVE  /\ Fits(H, rk2, Ref(n, type_pointer))' /\ OnMenu(Ref(n, type_pointer))'
           /\ \A r \in Targets(Ref(n, type_pointer))' : r.type = type_pointer
<1> DEFINE q == Ref(n, type_pointer)
<1>1. q.val = n /\ q.type = type_pointer /\ n # 0 /\ IsHeapType(n)
  BY Refs DEF JoinedType
<1>2. ver(n)' = tag /\ Subtypes(n)' = subs /\ Extent(q)' = size /\ [addr |-> n, size |-> size] \in objects'
  BY DEF JoinedType, MadeAs, Ref, type_pointer
<1>3. \A t \in HeapTypes(G) \cup FieldlessTypes : TypeKept(t)
  BY WorldFacts, MovesTypes DEF JoinedType
<1>4. DOMAIN subs = 1 .. Arity(tag) /\ \A i \in 1 .. Arity(tag) : subs[i] \in FieldlessTypes \cup HeapTypes(G)
  BY DEF JoinedType
<1>5. \A i \in 1 .. Arity(tag) : OneWord(subs[i])'
  BY <1>3, <1>4, OneWordKept DEF JoinedType
<1>6. \A u \in Range(subs) : /\ OneWord(u)' /\ (IsHeapType(u) => rk2[u] < rk2[n])
                             /\ u \in FieldlessTypes \cup HeapTypes(G)
  BY <1>4, <1>5 DEF Range
<1>7. subs # <<>>
  <2>1. 1 \in DOMAIN subs
    BY <1>4 DEF Arity
  <2> QED
    BY <2>1
<1>8. MadeType(rk2, n)'
  <2>1. tag \in {con_vec, vector, pointer}
    BY DEF JoinedType, TypeTags
  <2> QED
    BY <1>2, <1>6, <1>7, <2>1 DEF MadeType, con_vec, vector, pointer, IsHeapType, never_reached
<1>9. BlockOf(q)' \in objects'
  BY <1>1, <1>2 DEF BlockOf
<1>10. Leads(q)'
  <2>1. \E o \in objects' : o.addr = n
    BY <1>2
  <2> QED
    BY <1>1, <2>1, Tags DEF Leads, IsHeapType, never_reached, type_pointer, integer, function_pointer
<1>11. Targets(q)' = {Ref(u, type_pointer) : u \in Range(subs)}
  BY <1>1, <1>2, <1>10, TargetsByKindNext DEF Ref, type_pointer
<1>12. Targets(q)' \subseteq H
  <2>1. \A t \in FieldlessTypes \cup HeapTypes(G) : Ref(t, type_pointer) \in G
    BY KnownIn
  <2> QED
    BY <1>6, <1>11, <2>1
<1>13. OneWord(type_pointer)'
  BY DEF OneWord, FieldlessTypes, integer, dynamic_object, AST_pointer, type_pointer, function_pointer
<1>14. Sound(rk2, q)'
  BY <1>1, <1>8, <1>9, <1>13 DEF Sound, SoundObject, IsHeapType, never_reached, type_pointer, AST_pointer,
     dynamic_object, function_pointer, vector
<1>15. Fits(H, rk2, q)'
  BY <1>1, <1>12, <1>14 DEF Fits, IsHeapType, never_reached, type_pointer, function_pointer
<1>16. \A r \in Targets(q)' : r.type = type_pointer
  BY <1>11, Refs
<1> QED
  BY <1>1, <1>15, <1>16 DEF OnMenu, type_pointer, AST_pointer, function_pointer

\* A new type joins the world and the table.
LEMMA TypeJoins ==
    ASSUME HeapInv, Typings, NEW G, NEW rk, World(G, rk), NEW n, NEW tag, NEW subs, NEW size,
           JoinedType(G, n, tag, subs, size), Existing(tag, subs) = {},
           NEW T \in SUBSET FieldlessTypes, Range(subs) \subseteq type_hash_table \cup T,
           type_hash_table' = type_hash_table \cup T \cup {n},
           held' \subseteq held \cup {Ref(n, type_pointer)}, copier = NoCopy,
           UNCHANGED <<type_roots, event_roots, functionVars, traceVars, copier, error>>
    PROVE  ProgramInv'
<1> DEFINE q == Ref(n, type_pointer)
           N == {q}
           D == {}
<1>1. Typed /\ Shape(G, rk) /\ rk \in [Nat -> Nat] /\ G \in SUBSET Reference
  BY WorldFacts
<1>2. /\ q.val = n /\ q.type = type_pointer /\ q \in Reference /\ n \in Nat /\ n # 0 /\ IsHeapType(n)
      /\ tag \in TypeTags /\ Moves(G, {}) /\ HeapInv' /\ phase' = "program" /\ MemTyped'
  <2>1. n \in 1 .. special_value
    BY DEF JoinedType
  <2>2. n \in 0 .. special_value /\ type_pointer \in 0 .. special_value /\ n \in Nat /\ n # 0
    BY <2>1, Tags, Sizes
  <2>3. q.val = n /\ q.type = type_pointer /\ q \in Reference
    BY <2>2, Refs
  <2> QED
    BY <2>2, <2>3 DEF JoinedType
<1>3. n \notin HeapTypes(G)
  <2>1. ASSUME n \in HeapTypes(G) PROVE FALSE
    <3>1. q \in G /\ Solid(q)
      BY <1>1, <2>1, TypeFacts
    <3> QED
      BY <1>2, <3>1 DEF JoinedType
  <2> QED
    BY <2>1
<1>4. HeapTypes(G) \subseteq Nat /\ FieldlessTypes \subseteq Nat
  BY Tags DEF HeapTypes
<1>5. /\ DOMAIN subs = 1 .. Arity(tag) /\ subs \in [1 .. Arity(tag) -> Nat]
      /\ \A i \in 1 .. Arity(tag) : IsHeapType(subs[i]) => subs[i] # n
  <2>1. subs \in [1 .. Arity(tag) -> FieldlessTypes \cup HeapTypes(G)]
    BY DEF JoinedType
  <2>2. \A i \in 1 .. Arity(tag) : subs[i] \in FieldlessTypes \cup HeapTypes(G)
    BY <2>1
  <2>3. n \notin FieldlessTypes
    BY <1>2, Tags
  <2> QED
    BY <1>3, <1>4, <2>1, <2>2, <2>3
<1>6. PICK rk2 \in [Nat -> Nat] :
               /\ \A t \in Nat : t # n => rk2[t] = rk[t]
               /\ \A i \in 1 .. Arity(tag) : IsHeapType(subs[i]) => rk2[subs[i]] < rk2[n]
  BY <1>1, <1>2, <1>5, RankAbove
<1>7. \A t \in HeapTypes(G) : rk2[t] = rk[t]
  BY <1>3, <1>4, <1>6
<1>8. Fits(G \cup N, rk2, q)' /\ OnMenu(q)'
  BY <1>6, TypeFits
<1>9. Distinct(G, N)
  <2>1. \A r \in G : Solid(r) => r.val # n
    BY DEF JoinedType
  <2> QED
    BY <1>2, <2>1 DEF Distinct
<1>10. Shape(G \cup N, rk2)'
  <2>1. D \in SUBSET G /\ N \in SUBSET Reference /\ Moves(G, D)
    BY <1>2
  <2>2. \A r \in D \cup N : Fits(G \cup N, rk2, r)'
    BY <1>8
  <2> HIDE DEF D, N
  <2> QED
    BY <1>1, <1>6, <1>7, <1>9, <2>1, <2>2, ShapeMoves
<1>11. ASSUME NEW r \in G
      PROVE  OnMenu(r)'
  <2>1. Solid(r) => Word(r.val)' = Word(r.val)
    BY <1>1, <1>2, RefMoves
  <2>2. OnMenu(r)
    BY DEF World, AllOnMenu
  <2>3. r.type = function_pointer /\ r.val # 0 => functions'[r.val] = functions[r.val]
    BY <1>2 DEF Moves
  <2> QED
    BY <2>1, <2>2, <2>3 DEF OnMenu, Solid, IsHeapType, never_reached, integer, function_pointer,
       AST_pointer, type_pointer, imv
<1>12. AllOnMenu(G \cup N)'
  BY <1>8, <1>11 DEF AllOnMenu
<1>13. RootRefs' \cup held' \subseteq G \cup N
  BY RootsStay DEF World
<1>14. CopierIn(G \cup N)' /\ (copier' # NoCopy => copier'.code = {})
  BY DEF CopierIn, NoCopy
<1>15. HeapTypes(G \cup N)' = HeapTypes(G) \cup {n}
  <2>1. HeapTypes(G \cup N) = HeapTypes(G) \cup {n}
    <3>1. \A t \in Nat : Ref(t, type_pointer) = q => t = n
      BY <1>2, Refs
    <3> QED
      BY <1>2, <3>1 DEF HeapTypes
  <2> QED
    BY <2>1 DEF HeapTypes, IsHeapType, never_reached, Ref, type_pointer
<1>16. \A t \in HeapTypes(G) : ver(t)' = ver(t) /\ Subtypes(t)' = Subtypes(t)
  BY <1>1, <1>2, MovesTypes DEF TypeKept
<1>17. ver(n)' = tag /\ Subtypes(n)' = subs
  BY DEF JoinedType, MadeAs
<1>18. \A t \in HeapTypes(G) : ~ (ver(t) = tag /\ Subtypes(t) = subs)
  <2>1. \A t \in HeapTypes(G) : t \in type_hash_table /\ IsHeapType(t)
    BY <1>1, TypeFacts DEF World, Tabled
  <2> QED
    BY <2>1 DEF Existing
<1>19. TypesApart(G \cup N)'
  <2>1. \A t, u \in HeapTypes(G) \cup {n} : SameType(t, u)' => t = u
    BY <1>16, <1>17, <1>18 DEF SameType, World, TypesApart
  <2> QED
    BY <1>15, <2>1 DEF TypesApart
<1>20. Tabled(G \cup N)'
  <2>1. \A t \in HeapTypes(G) \cup {n} : Range(Subtypes(t)') \subseteq type_hash_table'
    BY <1>16, <1>17 DEF World, Tabled
  <2>2. HeapTypes(G) \cup {n} \subseteq type_hash_table'
    BY DEF World, Tabled
  <2>3. type_hash_table' \subseteq FieldlessTypes \cup (HeapTypes(G) \cup {n})
    BY DEF World, Tabled
  <2> QED
    BY <1>15, <2>1, <2>2, <2>3 DEF Tabled, Range, FieldlessTypes, integer, dynamic_object, AST_pointer, type_pointer, function_pointer
<1>21. Guarded(G \cup N)'
  <2>1. copier = NoCopy /\ copier' = NoCopy
    BY DEF NoCopy
  <2>2. \A r \in D : Visible(r) /\ r.type \notin {dynamic_object, function_pointer}
    OBVIOUS
  <2>3. \A r \in N : r.type # function_pointer /\ (r.type = AST_pointer => r \notin G)
    BY <1>2, Tags
  <2>4. \A r \in D \cup N : \A p \in Targets(r)' : p \in N \/ Visible(p) \/ \E d \in D : p \in Targets(d)
    <3>1. \A p \in Targets(q)' : p.type # AST_pointer
      BY <1>6, TypeFits, Tags
    <3> QED
      BY <3>1 DEF Visible
  <2>5. \A p \in held' : p \in held \cup N \/ Visible(p)
    OBVIOUS
  <2>6. D \in SUBSET G /\ Moves(G, D)
    BY <1>2
  <2> HIDE DEF D, N
  <2> QED
    BY <2>1, <2>2, <2>3, <2>4, <2>5, <2>6, GuardGrows
<1>22. World(G \cup N, rk2)'
  BY <1>10, <1>12, <1>13, <1>14, <1>19, <1>20, <1>21 DEF World, NoCopy
<1>23. Typings'
  <2>1. held' \subseteq Reference /\ type_hash_table' \subseteq Nat
    BY <1>2, <1>4 DEF Typings
  <2> QED
    BY <1>2, <2>1, TypingsKept, FunctionsStay DEF Typings
<1> QED
  BY <1>2, <1>22, <1>23 DEF ProgramInv

\* No word of an object changes.
LEMMA MovesNothing ==
    ASSUME HeapInv, Typings, NEW G, NEW rk, World(G, rk), MemTyped', objects \subseteq objects',
           UNCHANGED <<type_roots, functionVars>>,
           \A w : Word(w)' = Word(w) \/ \A o \in objects : w \notin Words(o)
    PROVE  Moves(G, {})
<1>1. Shape(G, rk) /\ Typed
  BY WorldFacts
<1> DEFINE D == {}
<1>2. D \in SUBSET G /\ \A r \in D : r.type # type_pointer
  OBVIOUS
<1>3. \A r \in G \ D : r.type = AST_pointer /\ Solid(r) /\ Word(r.val) = basicblock =>
             Ref(Word(r.val + 1), type_roots[1]) \notin D
  OBVIOUS
<1>4. \A r \in G \ D : r.type = function_pointer /\ r.val # 0 =>
             r.val \in Flagged(function_pool_flags)' /\ functions'[r.val] = functions[r.val]
  BY <1>1, FunctionsStay DEF Typings, functionVars, Shape, Sound
<1>5. \A w : \/ Word(w)' = Word(w)
             \/ \A o \in objects : w \notin Words(o)
             \/ \E d \in D : Solid(d) /\ w \in Words(BlockOf(d))
  OBVIOUS
<1>6. Moves(G, D)
  <2> HIDE DEF D
  <2> QED
    BY <1>1, <1>2, <1>3, <1>4, <1>5, MovesIntro
<1> QED
  BY <1>6

\* The words of a new type, as a sequence.
MadeWords(V, tag, subs, words) ==
    /\ words \in Seq(V) /\ Len(words) = (IF tag = con_vec THEN 4 ELSE 2) /\ words[1] = tag
    /\ tag = con_vec => words[2] = 2 /\ words[3] = subs[1] /\ words[4] = subs[2]
    /\ tag # con_vec => words[2] = subs[1]

\* TypeWords gives them.
LEMMA WordsMade ==
    ASSUME NEW V, 2 \in V, NEW tag \in TypeTags, tag \in V, NEW subs \in [1 .. Arity(tag) -> V],
           NEW words, words = TypeWords(tag, subs)
    PROVE  MadeWords(V, tag, subs, words)
  BY TypeWordsFacts DEF MadeWords

\* The two ways in which new_unique_type goes on: what it is made of has to be
\* made unique first, or has been.
TypeOp(words, size, subs, tag, created, same) ==
    IF created # {}
    THEN \E k \in BestFit(free_memory, size) :
         \E l \in BestFit(Taken(free_memory, k, size), size) :
             /\ AllocateTwoAt(size, k, size, l)
             /\ mem' = Write(Write(mem, k.addr, words), l.addr, words)
             /\ type_hash_table' =
                   type_hash_table \cup created \cup (IF same = {} THEN {l.addr} ELSE {})
             /\ Hold(l.addr, type_pointer)
    ELSE \E k \in BestFit(free_memory, size) :
             /\ AllocateAt(size, k)
             /\ mem' = Write(mem, k.addr, words)
             /\ IF same = {}
                THEN type_hash_table' = type_hash_table \cup {k.addr} /\ Hold(k.addr, type_pointer)
                ELSE UNCHANGED type_hash_table /\ \E e \in same : Hold(e, type_pointer)

\* What new_unique_type is asked for.
TypeRequest(G, tag, subs, words, size, created, same) ==
    /\ tag \in TypeTags /\ subs \in [1 .. Arity(tag) -> FieldlessTypes \cup HeapTypes(G)]
    /\ \A i \in 1 .. Arity(tag) : OneWord(subs[i])
    /\ words \in Seq(0 .. special_value) /\ Len(words) = size /\ size = (IF tag = con_vec THEN 4 ELSE 2)
    /\ words[1] = tag
    /\ tag = con_vec => words[2] = 2 /\ words[3] = subs[1] /\ words[4] = subs[2]
    /\ tag # con_vec => words[2] = subs[1]
    /\ created = Range(subs) \ type_hash_table /\ created \subseteq FieldlessTypes
    /\ same = Existing(tag, subs) /\ (created # {} => same = {})
    /\ same \subseteq HeapTypes(G)

\* A type is asked for that is made of types of the world.
LEMMA TypeRequested ==
    ASSUME HeapInv, Typings, NEW G, NEW rk, World(G, rk), FlatTypes, NEW tag \in DOMAIN TypeShapes,
           NEW given \in [1 .. (IF tag = con_vec THEN 2 ELSE 1) ->
                      {t \in Objects(type_pointer) \cup FieldlessTypes : ver(t) \in TypeShapes[tag]}],
           NEW subs, subs = [i \in DOMAIN given |-> Unique(given[i])],
           NEW words, words = TypeWords(tag, subs), NEW size, size = Len(words),
           NEW created, created = {u \in Range(given) : InTable(u) = {}},
           NEW same, same = Existing(tag, subs)
    PROVE  TypeRequest(G, tag, subs, words, size, created, same)
<1>1. Typed /\ Shape(G, rk)
  BY WorldFacts
<1>2. tag \in TypeTags /\ con_vec \notin TypeShapes[tag]
  BY CollectorAssumption, Tags DEF FlatTypes, TypeTags
<1>3. DOMAIN given = 1 .. Arity(tag)
  BY DEF Arity
<1>4. \A i \in 1 .. Arity(tag) : given[i] \in Objects(type_pointer) \cup FieldlessTypes /\ ver(given[i]) \in TypeShapes[tag]
  BY <1>3
<1>5. Objects(type_pointer) \subseteq FieldlessTypes \cup HeapTypes(G)
  BY KnownIn DEF Types
<1>6. \A i \in 1 .. Arity(tag) : given[i] \in FieldlessTypes \cup HeapTypes(G)
  BY <1>4, <1>5
<1>7. \A i \in 1 .. Arity(tag) : OneWord(given[i])
  <2>1. \A t \in HeapTypes(G) : IsHeapType(t) /\ ver(t) \in {con_vec, vector, pointer}
    BY <1>1, TypeFacts
  <2> QED
    BY <1>2, <1>4, <1>6, <2>1 DEF OneWord
<1>8. given = [i \in 1 .. Arity(tag) |-> given[i]]
  BY DEF Arity
<1>9. subs = given
  <2>1. \A i \in 1 .. Arity(tag) : Unique(given[i]) = given[i]
    BY <1>6, UniqueIsItself
  <2>2. subs = [i \in 1 .. Arity(tag) |-> given[i]]
    BY <1>3, <2>1
  <2> QED
    BY <1>8, <2>2
<1>10. \A t \in HeapTypes(G) \cup FieldlessTypes : t \in 0 .. special_value
  <2>1. \A t \in FieldlessTypes : t \in 0 .. special_value
    BY Tags, Sizes
  <2>2. ASSUME NEW t \in HeapTypes(G) PROVE t \in 0 .. special_value
    <3>1. Ref(t, type_pointer) \in G
      BY <2>2 DEF HeapTypes
    <3>2. Ref(t, type_pointer) \in Reference
      BY <1>1, <3>1 DEF Shape
    <3> QED
      BY <3>2, Refs
  <2> QED
    BY <2>1, <2>2
<1>11. subs \in [1 .. Arity(tag) -> FieldlessTypes \cup HeapTypes(G)] /\ subs \in [1 .. Arity(tag) -> 0 .. special_value]
  BY <1>6, <1>8, <1>9, <1>10
<1>12. 2 \in 0 .. special_value /\ tag \in 0 .. special_value
  BY <1>2, Sizes, Tags DEF TypeTags
<1>13. /\ words \in Seq(0 .. special_value) /\ size = (IF tag = con_vec THEN 4 ELSE 2) /\ words[1] = tag
       /\ tag = con_vec => words[2] = 2 /\ words[3] = subs[1] /\ words[4] = subs[2]
       /\ tag # con_vec => words[2] = subs[1]
  <2>1. MadeWords(0 .. special_value, tag, subs, words)
    <3> DEFINE V == 0 .. special_value
    <3>1. 2 \in V /\ tag \in V /\ subs \in [1 .. Arity(tag) -> V]
      BY <1>11, <1>12
    <3> HIDE DEF V
    <3>2. MadeWords(V, tag, subs, words)
      BY <1>2, <3>1, WordsMade
    <3> QED
      BY <3>2 DEF V
  <2> QED
    BY <2>1 DEF MadeWords
<1>14. Range(subs) \subseteq FieldlessTypes \cup HeapTypes(G)
  BY <1>3, <1>6, <1>9 DEF Range
<1>15. created = Range(subs) \ type_hash_table
  BY <1>9, <1>14, UniqueIsItself
<1>16. created \subseteq FieldlessTypes
  BY <1>14, <1>15 DEF World, Tabled
<1>17. same \subseteq HeapTypes(G)
  <2>1. \A e \in same : e \in type_hash_table /\ IsHeapType(e)
    BY DEF Existing
  <2>2. \A e \in FieldlessTypes : ~ IsHeapType(e)
    BY Tags
  <2> QED
    BY <2>1, <2>2 DEF World, Tabled
<1>18. created # {} => same = {}
  <2>1. ASSUME NEW e \in same PROVE created = {}
    <3>1. Subtypes(e) = subs /\ Range(Subtypes(e)) \subseteq type_hash_table
      BY <1>17 DEF Existing, World, Tabled
    <3> QED
      BY <1>15, <3>1
  <2> QED
    BY <2>1
<1> QED
  BY <1>2, <1>7, <1>9, <1>11, <1>13, <1>15, <1>16, <1>17, <1>18 DEF TypeRequest

\* The words of a type in a new block make the type.
LEMMA WordsJoin ==
    ASSUME HeapInv, Typings, NEW G, NEW rk, World(G, rk), NEW tag, NEW subs, NEW words, NEW size, NEW created, NEW same,
           TypeRequest(G, tag, subs, words, size, created, same), NEW n \in Nat, n \in 1 .. special_value, IsHeapType(n),
           MemTyped', \A i \in 1 .. Len(words) : Word(n + i - 1)' = words[i]
    PROVE  MadeAs(n, tag, subs, size)'
<1>1. tag \in TypeTags /\ subs \in [1 .. Arity(tag) -> Nat] /\ size = (IF tag = con_vec THEN 4 ELSE 2)
  <2>1. FieldlessTypes \cup HeapTypes(G) \subseteq Nat
    BY Tags DEF HeapTypes
  <2>2. subs \in [1 .. Arity(tag) -> FieldlessTypes \cup HeapTypes(G)]
    BY DEF TypeRequest
  <2> QED
    BY <2>1, <2>2 DEF TypeRequest
<1>2. CASE tag = con_vec
  <2>1. Len(words) = 4 /\ words[1] = tag /\ words[2] = 2 /\ words[3] = subs[1] /\ words[4] = subs[2]
    BY <1>2 DEF TypeRequest
  <2>2. n + 1 - 1 = n /\ n + 2 - 1 = n + 1 /\ n + 3 - 1 = n + 2 /\ n + 4 - 1 = n + 3
    OBVIOUS
  <2>3. Word(n)' = tag /\ Word(n + 1)' = 2 /\ Word(n + 2)' = subs[1] /\ Word(n + 3)' = subs[2]
    <3>1. 1 \in 1 .. 4 /\ 2 \in 1 .. 4 /\ 3 \in 1 .. 4 /\ 4 \in 1 .. 4
      OBVIOUS
    <3> QED
      BY <2>1, <2>2, <3>1
  <2>4. WordsMake(n, tag, subs)'
    BY <1>2, <2>3 DEF WordsMake, con_vec
  <2>5. MadeAs(n, tag, subs, 4)'
    BY <1>1, <1>2, <2>4, WordsMakeTypeNext DEF con_vec, IsHeapType, never_reached
  <2> QED
    BY <1>1, <1>2, <2>5
<1>3. CASE tag # con_vec
  <2>1. Len(words) = 2 /\ words[1] = tag /\ words[2] = subs[1]
    BY <1>3 DEF TypeRequest
  <2>2. n + 1 - 1 = n /\ n + 2 - 1 = n + 1
    OBVIOUS
  <2>3. Word(n)' = tag /\ Word(n + 1)' = subs[1]
    <3>1. 1 \in 1 .. 2 /\ 2 \in 1 .. 2
      OBVIOUS
    <3> QED
      BY <2>1, <2>2, <3>1
  <2>4. WordsMake(n, tag, subs)'
    BY <1>3, <2>3 DEF WordsMake, con_vec
  <2>5. MadeAs(n, tag, subs, 2)'
    BY <1>1, <1>3, <2>4, WordsMakeTypeNext DEF con_vec, IsHeapType, never_reached
  <2> QED
    BY <1>1, <1>3, <2>5
<1> QED
  BY <1>2, <1>3

\* The operation new_unique_type keeps the world.
LEMMA NewTypeStep ==
    ASSUME HeapInv, Typings, NEW G, NEW rk, World(G, rk), FlatTypes, new_unique_type
    PROVE  ProgramInv'
<1>0. PICK tag \in DOMAIN TypeShapes :
        \E given \in [1 .. (IF tag = con_vec THEN 2 ELSE 1) ->
                      {t \in Objects(type_pointer) \cup FieldlessTypes : ver(t) \in TypeShapes[tag]}] :
           LET subs == [i \in DOMAIN given |-> Unique(given[i])]
               words == TypeWords(tag, subs)
               size == Len(words)
               created == {u \in Range(given) : InTable(u) = {}}
               same == Existing(tag, subs)
           IN  TypeOp(words, size, subs, tag, created, same)
  BY DEF new_unique_type, TypeOp
<1>1. PICK given \in [1 .. (IF tag = con_vec THEN 2 ELSE 1) ->
                      {t \in Objects(type_pointer) \cup FieldlessTypes : ver(t) \in TypeShapes[tag]}] :
           LET subs == [i \in DOMAIN given |-> Unique(given[i])]
               words == TypeWords(tag, subs)
               size == Len(words)
               created == {u \in Range(given) : InTable(u) = {}}
               same == Existing(tag, subs)
           IN  TypeOp(words, size, subs, tag, created, same)
  BY <1>0
<1>2. PICK subs, words, size, created, same :
           /\ subs = [i \in DOMAIN given |-> Unique(given[i])]
           /\ words = TypeWords(tag, subs) /\ size = Len(words)
           /\ created = {u \in Range(given) : InTable(u) = {}} /\ same = Existing(tag, subs)
  OBVIOUS
<1>3. TypeOp(words, size, subs, tag, created, same)
  BY <1>1, <1>2
<1>4. TypeRequest(G, tag, subs, words, size, created, same)
  BY <1>2, TypeRequested
<1>5. /\ UNCHANGED <<type_roots, event_roots, functionVars, traceVars, copier, error>>
      /\ copier = NoCopy /\ phase = "program"
  BY DEF new_unique_type, Running
<1>6. size \in Nat \ {0} /\ words \in Seq(0 .. special_value) /\ Len(words) = size
  BY <1>4 DEF TypeRequest
<1>7. Range(subs) \subseteq type_hash_table \cup created /\ created \in SUBSET FieldlessTypes
  BY <1>4 DEF TypeRequest
<1>8. CASE created # {}
  <2>1. PICK k \in BestFit(free_memory, size) :
        \E l \in BestFit(Taken(free_memory, k, size), size) :
             /\ AllocateTwoAt(size, k, size, l)
             /\ mem' = Write(Write(mem, k.addr, words), l.addr, words)
             /\ type_hash_table' =
                   type_hash_table \cup created \cup (IF same = {} THEN {l.addr} ELSE {})
             /\ Hold(l.addr, type_pointer)
    BY <1>3, <1>8 DEF TypeOp
  <2>2. PICK l \in BestFit(Taken(free_memory, k, size), size) :
             /\ AllocateTwoAt(size, k, size, l)
             /\ mem' = Write(Write(mem, k.addr, words), l.addr, words)
             /\ type_hash_table' =
                   type_hash_table \cup created \cup (IF same = {} THEN {l.addr} ELSE {})
             /\ Hold(l.addr, type_pointer)
    BY <2>1
  <2>3. PICK n, m : n = l.addr /\ m = mem'
    OBVIOUS
  <2>4. TwoNew(G, k, size, l, size, words, words, m)
    <3>1. Len(words) <= size
      BY <1>6
    <3> QED
      BY <1>6, <2>2, <2>3, <3>1, NewTwo
  <2>5. /\ HeapInv' /\ phase' = "program" /\ m \in Memories /\ objects \subseteq objects'
        /\ [addr |-> n, size |-> size] \in objects' /\ \A r \in G : Solid(r) => r.val # n
        /\ n \in 1 .. special_value /\ \A i \in 1 .. Len(words) : WordIn(m, n + i - 1) = words[i]
        /\ \A w : WordIn(m, w) = Word(w) \/ \A o \in objects : w \notin Words(o)
    BY <2>3, <2>4 DEF TwoNew, Issued
  <2>6. IsHeapType(n)
    <3>1. Issued(l, size) \in Block
      BY <1>6, <2>2, AllocateTwoAtStep
    <3>2. Issued(l, size).addr = n
      BY <2>3 DEF Issued
    <3>3. n \in Nat /\ n >= big_memory_pool
      BY <3>1, <3>2, BlockFacts
    <3> QED
      BY <3>3, Sizes, Tags
  <2>7. MemTyped' /\ \A i \in 1 .. Len(words) : Word(n + i - 1)' = words[i]
    BY <2>3, <2>5, TypedNext, WordOfNext
  <2>8. MadeAs(n, tag, subs, size)'
    BY <1>4, <2>5, <2>6, <2>7, WordsJoin
  <2>9. Moves(G, {})
    <3>1. \A w : Word(w)' = Word(w) \/ \A o \in objects : w \notin Words(o)
      BY <2>3, <2>5, WordOfNext
    <3> QED
      BY <1>5, <2>5, <2>7, <3>1, MovesNothing
  <2>10. JoinedType(G, n, tag, subs, size)
    BY <1>4, <2>5, <2>6, <2>7, <2>8, <2>9 DEF JoinedType, TypeRequest
  <2>11. Existing(tag, subs) = {} /\ same = {}
    BY <1>4, <1>8 DEF TypeRequest
  <2>12. type_hash_table' = type_hash_table \cup created \cup {n}
    BY <2>2, <2>3, <2>11
  <2>13. held' \subseteq held \cup {Ref(n, type_pointer)}
    BY <2>2, <2>3, Held
  <2> QED
    BY <1>5, <1>7, <2>10, <2>11, <2>12, <2>13, TypeJoins
<1>9. CASE created = {}
  <2>1. PICK k \in BestFit(free_memory, size) :
             /\ AllocateAt(size, k)
             /\ mem' = Write(mem, k.addr, words)
             /\ IF same = {}
                THEN type_hash_table' = type_hash_table \cup {k.addr} /\ Hold(k.addr, type_pointer)
                ELSE UNCHANGED type_hash_table /\ \E e \in same : Hold(e, type_pointer)
    BY <1>3, <1>9 DEF TypeOp
  <2>2. PICK n : n = k.addr
    OBVIOUS
  <2>3. /\ HeapInv' /\ phase' = "program" /\ MemTyped' /\ Moves(G, {})
        /\ [addr |-> n, size |-> size] \in objects' /\ \A r \in G : Solid(r) => r.val # n
        /\ n \in 0 .. special_value /\ n # 0 /\ n \in Nat /\ IsHeapType(n)
        /\ \A i \in 1 .. Len(words) : Word(n + i - 1)' = words[i]
    <3>1. Len(words) <= size
      BY <1>6
    <3> QED
      BY <1>5, <1>6, <2>1, <2>2, <3>1, NewObject DEF Issued
  <2>4. n \in 1 .. special_value
    BY <2>3, Sizes
  <2>5. CASE same = {}
    <3>1. MadeAs(n, tag, subs, size)'
      BY <1>4, <2>3, <2>4, WordsJoin
    <3>2. JoinedType(G, n, tag, subs, size)
      BY <1>4, <2>3, <2>4, <3>1 DEF JoinedType, TypeRequest
    <3>3. Existing(tag, subs) = {}
      BY <1>4, <2>5 DEF TypeRequest
    <3>4. type_hash_table' = type_hash_table \cup created \cup {n}
      BY <1>9, <2>1, <2>2, <2>5
    <3>5. held' \subseteq held \cup {Ref(n, type_pointer)}
      BY <2>1, <2>2, <2>5, Held
    <3> QED
      BY <1>5, <1>7, <3>2, <3>3, <3>4, <3>5, TypeJoins
  <2>6. CASE same # {}
    <3>1. PICK e \in same : Hold(e, type_pointer)
      BY <2>1, <2>6
    <3>2. Ref(e, type_pointer) \in G
      BY <1>4, <3>1, KnownIn DEF TypeRequest
    <3>3. held' \subseteq G
      BY <3>1, <3>2, Held DEF World
    <3>4. type_hash_table' = type_hash_table
      BY <2>1, <2>6
    <3> DEFINE D == {}
               N == {}
    <3>5. /\ D \in SUBSET G /\ N \in SUBSET Reference /\ Moves(G, D) /\ Distinct(G, N)
          /\ \A r \in N : r.type # type_pointer
          /\ held' \subseteq G \cup N
      BY <2>3, <3>3 DEF Distinct
    <3>6. \A r \in D \cup N : Fits(G \cup N, rk, r)' /\ OnMenu(r)'
      OBVIOUS
    <3>7. copier = NoCopy /\ copier' = NoCopy
      BY <1>5 DEF NoCopy
    <3>8. \A p \in held' : p \in held \cup N \/ Visible(p)
      <4>1. Ref(e, type_pointer).type # AST_pointer
        BY Refs, Tags
      <4> QED
        BY <3>1, <4>1, Held DEF Visible
    <3>9. /\ \A r \in D : Visible(r) /\ r.type \notin {dynamic_object, function_pointer}
          /\ \A r \in N : r.type # function_pointer /\ (r.type = AST_pointer => r \notin G)
          /\ \A r \in D \cup N : \A p \in Targets(r)' : p \in N \/ Visible(p) \/ \E d \in D : p \in Targets(d)
      OBVIOUS
    <3> HIDE DEF D, N
    <3>10. Guarded(G \cup N)'
      BY <3>5, <3>7, <3>8, <3>9, GuardGrows
    <3> QED
      BY <1>5, <2>3, <3>4, <3>5, <3>6, <3>10, OperationGrows
  <2> QED
    BY <2>5, <2>6
<1> QED
  BY <1>8, <1>9

------------------------------------------------------------------------------
(* Copies *)

\* What the copier is at.
LEMMA CopierFacts ==
    ASSUME HeapInv, Typings, NEW G, NEW rk, World(G, rk), Copying
    PROVE  /\ CopierTyped /\ copier.todo \in Seq(Nat) /\ Len(copier.todo) > 0
           /\ Place \in Nat /\ (Place = ResultPlace \/ FieldOf(G, Place))
           /\ Tail(copier.todo) \in Seq(Nat)
           /\ \A j \in 1 .. Len(Tail(copier.todo)) :
                 Tail(copier.todo)[j] = ResultPlace \/ FieldOf(G, Tail(copier.todo)[j])
<1>1. /\ CopierTyped
      /\ \A j \in DOMAIN copier.todo : copier.todo[j] = ResultPlace \/ FieldOf(G, copier.todo[j])
  BY DEF World, CopierIn, Copying
<1>2. copier.todo \in Seq(Nat) /\ copier.todo # <<>>
  BY <1>1 DEF CopierTyped, Copying
<1>3. PICK s : s = copier.todo
  OBVIOUS
<1>4. s \in Seq(Nat) /\ s # <<>>
  BY <1>2, <1>3
<1>5. /\ Len(s) > 0 /\ 1 \in DOMAIN s /\ Head(s) = s[1] /\ s[1] \in Nat
      /\ Tail(s) \in Seq(Nat) /\ \A j \in 1 .. Len(Tail(s)) : Tail(s)[j] = s[j + 1] /\ j + 1 \in DOMAIN s
  BY <1>4
<1> QED
  BY <1>1, <1>3, <1>4, <1>5 DEF Place

\* The original is an AST of the world.
LEMMA OriginalIn ==
    ASSUME HeapInv, Typings, NEW G, NEW rk, World(G, rk), Copying
    PROVE  Ref(Original, AST_pointer) \in G /\ Original \in 0 .. special_value
<1>1. Ref(Original, AST_pointer) \in G
  <2>1. CASE Place = ResultPlace
    BY <2>1 DEF Original, World, CopierIn, Copying
  <2>2. CASE Place # ResultPlace
    <3>1. FieldOf(G, Place)
      BY <2>2, CopierFacts
    <3>2. PICK r \in G : /\ r.type = AST_pointer /\ r.val # 0 /\ Word(r.val) \in DOMAIN ASTFields
                         /\ \E i \in 1 .. ASTFields[Word(r.val)] : Place = r.val + i
      BY <3>1 DEF FieldOf
    <3>3. r = Ref(r.val, AST_pointer)
      BY <3>2, WorldFacts, Refs
    <3>4. PICK a : a = r.val
      OBVIOUS
    <3>5. \A i \in 1 .. ASTFields[Word(a)] : Ref(Word(a + i), AST_pointer) \in G
      BY <3>2, <3>3, <3>4, ASTOfWorld
    <3>6. Ref(Word(Place), AST_pointer) \in G
      BY <3>2, <3>4, <3>5
    <3> QED
      BY <2>2, <3>6 DEF Original
  <2> QED
    BY <2>1, <2>2
<1>2. Ref(Original, AST_pointer) \in Reference
  BY <1>1, WorldFacts
<1> QED
  BY <1>1, <1>2, Refs

\* A copy is delivered: D is the AST whose field is the place, itself a copy.
Delivered(G, rk, D, m, new) ==
    /\ D \in SUBSET G /\ Moves(G, D) /\ MemTyped'
    /\ \A r \in D : /\ r.type = AST_pointer /\ r.val # 0 /\ Word(r.val)' = Word(r.val)
                    /\ Word(r.val) \in DOMAIN ASTFields
    /\ \A w : (\A o \in objects : w \notin Words(o)) => Word(w)' = WordIn(m, w)
    /\ \A o \in objects : \A w \in Words(o) : w # Place => Word(w)' = Word(w)
    /\ \A p : p = Place /\ p # ResultPlace => Word(p)' = new
    /\ \A H : G \subseteq H /\ Ref(new, AST_pointer) \in H => \A r \in D : Fits(H, rk, r)' /\ OnMenu(r)'
    /\ "basicblock" \notin Menu => D \subseteq Copies

\* The copy of the whole AST is delivered.
LEMMA ResultDelivered ==
    ASSUME HeapInv, Typings, NEW G, NEW rk, World(G, rk), Copying, NEW m \in Memories, objects \subseteq objects',
           \A w : WordIn(m, w) = Word(w) \/ \A o \in objects : w \notin Words(o),
           NEW new, mem' = m, Place = ResultPlace, UNCHANGED <<type_roots, functionVars>>
    PROVE  Delivered(G, rk, {}, m, new)
<1>1. MemTyped' /\ \A w : Word(w)' = WordIn(m, w)
  BY TypedNext, WordOfNext
<1>2. Moves(G, {})
  BY <1>1, MovesNothing
<1> QED
  BY <1>1, <1>2 DEF Delivered

\* The copy of a field is delivered.
LEMMA FieldDelivered ==
    ASSUME HeapInv, Typings, NEW G, NEW rk, World(G, rk), Copying, NEW m \in Memories, objects \subseteq objects',
           \A w : WordIn(m, w) = Word(w) \/ \A o \in objects : w \notin Words(o),
           NEW new \in 0 .. special_value, NEW p, p = Place, mem' = [m EXCEPT ![p] = new],
           UNCHANGED <<type_roots, functionVars>>,
           NEW a, a # 0, Ref(a, AST_pointer) \in G, Word(a) \in DOMAIN ASTFields,
           NEW i \in 1 .. ASTFields[Word(a)], p = a + i,
           "basicblock" \notin Menu => Ref(a, AST_pointer) \in Copies
    PROVE  \E D : Delivered(G, rk, D, m, new)
<1>1. PICK r \in G : r = Ref(a, AST_pointer)
  OBVIOUS
<1>2. a = r.val /\ r.type = AST_pointer /\ r.val # 0 /\ Word(r.val) \in DOMAIN ASTFields
  BY <1>1, Refs
<1>3. p = a + i
  OBVIOUS
<1>4. r = Ref(a, AST_pointer) /\ Ref(a, AST_pointer) \in G /\ a # 0 /\ Word(a) \in DOMAIN ASTFields
  BY <1>1
<1>5. /\ a \in Nat \ {0} /\ a \in 1 .. special_value /\ Solid(r)
      /\ BlockOf(r) \in objects /\ BlockOf(r) \in Block
      /\ BlockOf(r) = [addr |-> a, size |-> 1 + ASTFields[Word(a)]] /\ ASTFields[Word(a)] \in Nat
  BY <1>4, ASTOfWorld
<1>6. \A j \in 0 .. ASTFields[Word(a)] : a + j \in Words(BlockOf(r)) /\ a + j \in Pool
  <2>1. PICK b : b = BlockOf(r)
    OBVIOUS
  <2>2. b.addr = a /\ b.size = 1 + ASTFields[Word(a)] /\ b \in Block
    BY <1>5, <2>1
  <2>3. b.addr >= big_memory_pool /\ b.addr + b.size <= PoolEnd
    BY <2>2, BlockFacts
  <2> QED
    BY <1>5, <2>1, <2>2, <2>3, Sizes DEF Words, Pool
<1>7. p \in Pool /\ p \in Words(BlockOf(r))
  BY <1>3, <1>5, <1>6
<1>8. PICK n : n = mem'
  OBVIOUS
<1>9. n \in Memories /\ WordIn(n, p) = new /\ \A w : w # p => WordIn(n, w) = WordIn(m, w)
  <2>1. n = [m EXCEPT ![p] = new]
    BY <1>8
  <2>2. /\ [m EXCEPT ![p] = new] \in Memories /\ WordIn([m EXCEPT ![p] = new], p) = new
        /\ \A w : w # p => WordIn([m EXCEPT ![p] = new], w) = WordIn(m, w)
    <3>1. m \in Memories /\ p \in Pool /\ new \in 0 .. special_value
      BY <1>7
    <3> QED
      BY <3>1, PutIn
  <2> QED
    BY <2>1, <2>2
<1>10. MemTyped' /\ Word(p)' = new /\ \A w : w # p => Word(w)' = WordIn(m, w)
  BY <1>8, <1>9, TypedNext, WordOfNext
<1>11. \A w : (\A o \in objects : w \notin Words(o)) => Word(w)' = WordIn(m, w)
  BY <1>5, <1>7, <1>10
<1>12. \A j \in 0 .. ASTFields[Word(a)] : j # i => Word(a + j)' = Word(a + j)
  <2> SUFFICES ASSUME NEW j \in 0 .. ASTFields[Word(a)], j # i PROVE Word(a + j)' = Word(a + j)
    OBVIOUS
  <2>1. a + j # p
    BY <1>3, <1>5
  <2>2. WordIn(m, a + j) = Word(a + j)
    BY <1>5, <1>6
  <2> QED
    BY <1>10, <2>1, <2>2
<1>13. Word(a)' = Word(a)
  <2>1. 0 \in 0 .. ASTFields[Word(a)] /\ 0 # i /\ a + 0 = a
    BY <1>5
  <2> QED
    BY <1>12, <2>1
<1>14. Typed /\ Shape(G, rk)
  BY WorldFacts
<1> DEFINE D == {r}
<1>15. Moves(G, D)
  <2>1. D \in SUBSET G /\ \A x \in D : x.type # type_pointer
    BY <1>2, Tags
  <2>2. \A x \in G \ D : x.type = AST_pointer /\ Solid(x) /\ Word(x.val) = basicblock =>
               Ref(Word(x.val + 1), type_roots[1]) \notin D
    <3>1. PICK t : t = type_roots[1]
      OBVIOUS
    <3>2. t # AST_pointer
      BY <3>1, RootType
    <3> QED
      BY <1>1, <3>1, <3>2, Refs
  <2>3. \A x \in G \ D : x.type = function_pointer /\ x.val # 0 =>
               x.val \in Flagged(function_pool_flags)' /\ functions'[x.val] = functions[x.val]
    BY <1>14, FunctionsStay DEF Typings, functionVars, Shape, Sound
  <2>4. \A w : \/ Word(w)' = Word(w)
               \/ \A o \in objects : w \notin Words(o)
               \/ \E x \in D : Solid(x) /\ w \in Words(BlockOf(x))
    BY <1>5, <1>7, <1>10
  <2> HIDE DEF D
  <2> QED
    BY <1>10, <1>14, <2>1, <2>2, <2>3, <2>4, MovesIntro
<1>16. ASSUME NEW H, G \subseteq H, Ref(new, AST_pointer) \in H
      PROVE  Fits(H, rk, r)' /\ OnMenu(r)'
  <2>1. \A j \in 1 .. ASTFields[Word(a)] : j # i => Word(a + j)' = Word(a + j)
    BY <1>12
  <2>2. Ref(Word(a + i)', AST_pointer) \in H
    BY <1>3, <1>10, <1>16
  <2>3. Fits(H, rk, Ref(a, AST_pointer))' /\ OnMenu(Ref(a, AST_pointer))'
    BY <1>4, <1>10, <1>13, <1>16, <2>1, <2>2, FieldFits
  <2> QED
    BY <1>4, <2>3
<1>17. Delivered(G, rk, D, m, new)
  <2>1. \A x \in D : /\ x.type = AST_pointer /\ x.val # 0 /\ Word(x.val)' = Word(x.val)
                     /\ Word(x.val) \in DOMAIN ASTFields
    BY <1>2, <1>13
  <2>2. \A H : G \subseteq H /\ Ref(new, AST_pointer) \in H => \A x \in D : Fits(H, rk, x)' /\ OnMenu(x)'
    BY <1>16
  <2>3. D \in SUBSET G /\ ("basicblock" \notin Menu => D \subseteq Copies)
    BY <1>1
  <2>4. \A o \in objects : \A w \in Words(o) : w # Place => Word(w)' = Word(w)
    BY <1>10
  <2>5. \A q : q = Place /\ q # ResultPlace => Word(q)' = new
    BY <1>10
  <2> HIDE DEF D
  <2> QED
    BY <1>10, <1>11, <1>15, <2>1, <2>2, <2>3, <2>4, <2>5 DEF Delivered
<1> HIDE DEF D
<1> QED
  BY <1>17

\* An original and its copy, while copies are made.
LEMMA CopiedFacts ==
    ASSUME HeapInv, Typings, NEW G, NEW rk, World(G, rk), NEW P, Guard(G, P), copier # NoCopy,
           NEW y, y \in DOMAIN copier.copied, y # 0, NEW c, c = copier.copied[y]
    PROVE  /\ Ref(y, AST_pointer) \in G /\ Ref(y, AST_pointer) \notin Copies
           /\ c # 0 /\ Ref(c, AST_pointer) \in Copies /\ Ref(c, AST_pointer) \in G
           /\ CopyOf(copier.copied, copier.todo, y, c) /\ Word(c) = Word(y)
<1>1. PICK f, todo : f = copier.copied /\ todo = copier.todo
  OBVIOUS
<1>2. /\ f[0] = 0 /\ \A x \in DOMAIN f : Ref(x, AST_pointer) \in G
      /\ \A x \in DOMAIN f \ {0} : CopyOf(f, todo, x, f[x])
  BY <1>1 DEF Guard, CopierGuard, Mirror
<1>3. \A x \in DOMAIN f : Ref(f[x], AST_pointer) \in G
  BY <1>1 DEF World, CopierIn
<1>4. Copies = {Ref(f[x], AST_pointer) : x \in DOMAIN f} \ {Ref(0, AST_pointer)}
  BY <1>1 DEF Copies
<1>5. \A v : Ref(v, AST_pointer).val = v
  BY Refs
<1>6. c # 0 /\ Word(c) = Word(y) /\ CopyOf(f, todo, y, c)
  BY <1>1, <1>2 DEF CopyOf
<1>7. Ref(c, AST_pointer) \in Copies /\ Ref(c, AST_pointer) \in G
  BY <1>1, <1>3, <1>4, <1>5, <1>6
<1>8. Ref(y, AST_pointer) \notin Copies
  <2>1. ASSUME NEW x \in DOMAIN f, Ref(y, AST_pointer) = Ref(f[x], AST_pointer) PROVE FALSE
    <3>1. y = f[x]
      BY <1>5, <2>1
    <3>2. x # 0
      BY <1>2, <3>1
    <3> QED
      BY <1>1, <1>2, <3>1, <3>2 DEF CopyOf
  <2> QED
    BY <1>4, <2>1
<1> QED
  BY <1>1, <1>2, <1>6, <1>7, <1>8

\* A place to fill in is a field of a copy.
LEMMA CopyPlaces ==
    ASSUME HeapInv, Typings, NEW G, NEW rk, World(G, rk), NEW P, Guard(G, P), copier # NoCopy,
           NEW q, q \in Range(copier.todo), q # ResultPlace
    PROVE  \E y \in DOMAIN copier.copied : \E a :
              /\ y # 0 /\ a = copier.copied[y] /\ a # 0 /\ Word(a) = Word(y) /\ Word(a) \in DOMAIN ASTFields
              /\ Ref(a, AST_pointer) \in Copies /\ Ref(a, AST_pointer) \in G
              /\ \E i \in 1 .. ASTFields[Word(a)] : q = a + i /\ Word(a + i) = Word(y + i)
<1>1. \A j \in DOMAIN copier.todo : copier.todo[j] = ResultPlace \/ FieldOfCopy(copier.copied, copier.todo[j])
  BY DEF Guard, CopierGuard, Mirror
<1>2. FieldOfCopy(copier.copied, q)
  BY <1>1 DEF Range
<1>3. PICK y \in DOMAIN copier.copied \ {0} :
          /\ Word(y) \in DOMAIN ASTFields
          /\ \E i \in 1 .. ASTFields[Word(y)] : q = copier.copied[y] + i
  BY <1>2 DEF FieldOfCopy
<1>4. PICK a : a = copier.copied[y]
  OBVIOUS
<1>5. /\ a # 0 /\ Ref(a, AST_pointer) \in Copies /\ Ref(a, AST_pointer) \in G
      /\ CopyOf(copier.copied, copier.todo, y, a) /\ Word(a) = Word(y)
  BY <1>3, <1>4, CopiedFacts
<1>6. PICK i \in 1 .. ASTFields[Word(y)] : q = a + i
  BY <1>3, <1>4
<1>7. FieldCopied(copier.copied, copier.todo, y, a, i)
  BY <1>3, <1>5, <1>6 DEF CopyOf
<1>8. Word(a + i) = Word(y + i)
  BY <1>6, <1>7 DEF FieldCopied
<1> QED
  BY <1>3, <1>4, <1>5, <1>6, <1>8

\* No copy is copied.
LEMMA OriginalIsNoCopy ==
    ASSUME HeapInv, Typings, NEW G, NEW rk, World(G, rk), NEW P, Guard(G, P), Copying
    PROVE  Ref(Original, AST_pointer) \notin Copies
<1>1. copier # NoCopy /\ Place \in Range(copier.todo)
  <2>1. copier # NoCopy /\ copier.todo \in Seq(Nat) /\ Len(copier.todo) > 0
    BY CopierFacts DEF Copying
  <2>2. PICK s : s = copier.todo
    OBVIOUS
  <2>3. s \in Seq(Nat) /\ Len(s) > 0
    BY <2>1, <2>2
  <2>4. 1 \in DOMAIN s /\ Head(s) = s[1]
    BY <2>3
  <2> QED
    BY <2>1, <2>2, <2>4 DEF Place, Range
<1>2. CASE Place = ResultPlace
  BY <1>1, <1>2 DEF Original, Guard, CopierGuard
<1>3. CASE Place # ResultPlace
  <2>1. PICK y \in DOMAIN copier.copied : \E a :
              /\ y # 0 /\ a = copier.copied[y] /\ a # 0 /\ Word(a) = Word(y) /\ Word(a) \in DOMAIN ASTFields
              /\ Ref(a, AST_pointer) \in Copies /\ Ref(a, AST_pointer) \in G
              /\ \E i \in 1 .. ASTFields[Word(a)] : Place = a + i /\ Word(a + i) = Word(y + i)
    BY <1>1, <1>3, CopyPlaces
  <2>2. PICK i : /\ y # 0 /\ Word(y) \in DOMAIN ASTFields /\ i \in 1 .. ASTFields[Word(y)]
                 /\ Word(Place) = Word(y + i)
    BY <2>1
  <2>3. Ref(y, AST_pointer) \in G /\ Ref(y, AST_pointer) \notin Copies
    BY <1>1, <2>2, CopiedFacts
  <2>4. PICK q : q = Ref(Word(y + i), AST_pointer)
    OBVIOUS
  <2>5. q \in Targets(Ref(y, AST_pointer))
    BY <2>2, <2>3, <2>4, ASTOfWorld
  <2>6. q.type = AST_pointer /\ q = Ref(Original, AST_pointer)
    BY <1>3, <2>2, <2>4, Refs DEF Original
  <2>7. CASE q.val = 0
    BY <2>6, <2>7, Refs DEF Copies
  <2>8. CASE q.val # 0
    <3>1. CASE Ref(y, AST_pointer) \in P
      BY <2>5, <2>6, <2>8, <3>1 DEF Guard, CopierGuard, FieldsClosed, Copying
    <3>2. CASE Ref(y, AST_pointer) \notin P
      BY <2>3, <2>5, <2>6, <3>2 DEF Guard
    <3> QED
      BY <3>1, <3>2
  <2> QED
    BY <2>7, <2>8
<1> QED
  BY <1>2, <1>3

\* The copier's next map and list, when it delivers new for the AST x.
GoesOn(f, todo, x, new, f2, todo2) ==
    /\ DOMAIN f2 = DOMAIN f \cup {x} /\ f2[x] = new /\ \A y \in DOMAIN f : f2[y] = f[y]
    /\ \A o \in objects : \A w \in Words(o) : w \in Range(todo2) <=> w \in Range(todo) /\ w # Place

\* The words of an AST that is not in D stay.
LEMMA FieldsStay ==
    ASSUME HeapInv, Typings, NEW G, NEW rk, World(G, rk), NEW D, Moves(G, D), NEW a, a # 0,
           Ref(a, AST_pointer) \in G \ D
    PROVE  /\ Word(a)' = Word(a)
           /\ Word(a) = imv => Word(a + 1)' = Word(a + 1)
           /\ Word(a) \in DOMAIN ASTFields => \A i \in 1 .. ASTFields[Word(a)] : Word(a + i)' = Word(a + i)
<1>1. Typed /\ Shape(G, rk)
  BY WorldFacts
<1>2. PICK r : r = Ref(a, AST_pointer)
  OBVIOUS
<1>3. r.val = a /\ r \in G \ D
  BY <1>2, Refs
<1>4. Solid(r) /\ a \in Nat /\ BlockOf(r) = [addr |-> a, size |-> get_full_size_of_AST(Word(a))]
  BY <1>2, ASTOfWorld
<1>5. Word(a)' = Word(a)
  BY <1>1, <1>3, <1>4, RefMoves
<1>6. PICK n : n = get_full_size_of_AST(Word(a))
  OBVIOUS
<1>7. Agree(r) /\ Extent(r) = n
  BY <1>3, <1>4, <1>6 DEF Moves, BlockOf
<1>8. \A w \in a .. a + n - 1 : Word(w)' = Word(w)
  BY <1>3, <1>7 DEF Agree
<1>9. ASSUME Word(a) = imv
      PROVE  Word(a + 1)' = Word(a + 1)
  <2>1. n = 2
    BY <1>2, <1>3, <1>6, <1>9, ASTOfWorld
  <2>2. a + 1 \in a .. a + n - 1
    BY <1>4, <2>1
  <2> QED
    BY <1>8, <2>2
<1>10. ASSUME Word(a) \in DOMAIN ASTFields, NEW i \in 1 .. ASTFields[Word(a)]
       PROVE  Word(a + i)' = Word(a + i)
  <2>1. n = 1 + ASTFields[Word(a)] /\ ASTFields[Word(a)] \in Nat
    BY <1>2, <1>3, <1>6, <1>10, ASTOfWorld
  <2>2. a + i \in a .. a + n - 1
    BY <1>4, <2>1
  <2> QED
    BY <1>8, <2>2
<1> QED
  BY <1>5, <1>9, <1>10

\* A copy that was made before is one still, with one more field if that is the place.
LEMMA CopyStays ==
    ASSUME HeapInv, Typings, NEW G, NEW rk, World(G, rk), "basicblock" \notin Menu, NEW P, Guard(G, P), Copying,
           NEW D, NEW m, NEW new, Delivered(G, rk, D, m, new),
           NEW f, NEW todo, NEW x, NEW f2, NEW todo2, f = copier.copied, todo = copier.todo, x = Original,
           GoesOn(f, todo, x, new, f2, todo2),
           NEW y, y \in DOMAIN f, y # 0, NEW c, c = f[y]
    PROVE  CopyOf(f2, todo2, y, c)' /\ Word(y)' = Word(y) /\ Word(c)' = Word(c)
<1>0. copier # NoCopy
  BY DEF Copying
<1>1. /\ Ref(y, AST_pointer) \in G /\ Ref(y, AST_pointer) \notin Copies
      /\ c # 0 /\ Ref(c, AST_pointer) \in Copies /\ Ref(c, AST_pointer) \in G
      /\ CopyOf(f, todo, y, c) /\ Word(c) = Word(y)
  BY <1>0, CopiedFacts
<1>2. /\ D \in SUBSET G /\ Moves(G, D) /\ D \subseteq Copies
      /\ \A r \in D : /\ r.type = AST_pointer /\ r.val # 0 /\ Word(r.val)' = Word(r.val)
                      /\ Word(r.val) \in DOMAIN ASTFields
      /\ \A o \in objects : \A w \in Words(o) : w # Place => Word(w)' = Word(w)
      /\ \A p : p = Place /\ p # ResultPlace => Word(p)' = new
  BY DEF Delivered
<1>3. /\ Word(y)' = Word(y)
      /\ Word(y) = imv => Word(y + 1)' = Word(y + 1)
      /\ Word(y) \in DOMAIN ASTFields => \A i \in 1 .. ASTFields[Word(y)] : Word(y + i)' = Word(y + i)
  <2>1. Ref(y, AST_pointer) \in G \ D
    BY <1>1, <1>2
  <2> QED
    BY <1>2, <2>1, FieldsStay
<1>4. \A v : Ref(v, AST_pointer).val = v /\ Ref(v, dynamic_object).type = dynamic_object
  BY Refs
<1>5. Word(c)' = Word(c) /\ (Word(c) = imv => Word(c + 1)' = Word(c + 1))
  <2>1. CASE Ref(c, AST_pointer) \in D
    <3>1. Word(c) # imv
      <4>1. Word(c) \in DOMAIN ASTFields
        BY <1>2, <1>4, <2>1
      <4> QED
        BY <4>1, CollectorAssumption, Tags
    <3> QED
      BY <1>2, <1>4, <2>1, <3>1
  <2>2. CASE Ref(c, AST_pointer) \notin D
    <3>1. Ref(c, AST_pointer) \in G \ D
      BY <1>1, <2>2
    <3> QED
      BY <1>1, <1>2, <3>1, FieldsStay
  <2> QED
    BY <2>1, <2>2
<1>6. c \notin DOMAIN f2
  <2>1. c # x
    BY <1>1, OriginalIsNoCopy
  <2>2. c \notin DOMAIN f
    BY <1>1 DEF CopyOf
  <2> QED
    BY <2>1, <2>2 DEF GoesOn
<1>7. ASSUME Word(y) \in DOMAIN ASTFields, NEW i \in 1 .. ASTFields[Word(y)]
      PROVE  FieldCopied(f2, todo2, y, c, i)'
  <2>1. FieldCopied(f, todo, y, c, i)
    BY <1>1, <1>7 DEF CopyOf
  <2>2. /\ c \in Nat \ {0} /\ ASTFields[Word(c)] \in Nat
        /\ [addr |-> c, size |-> 1 + ASTFields[Word(c)]] \in objects
    BY <1>1, <1>7, ASTOfWorld
  <2>3. PICK o \in objects : o = [addr |-> c, size |-> 1 + ASTFields[Word(c)]]
    BY <2>2
  <2>4. c + i \in Words(o) /\ c + i # ResultPlace
    <3>1. PICK n : n = ASTFields[Word(c)] /\ n \in Nat
      BY <2>2
    <3>2. i \in 1 .. n /\ o.addr = c /\ o.size = 1 + n
      BY <1>1, <1>7, <2>3, <3>1
    <3> QED
      BY <2>2, <3>1, <3>2 DEF Words, ResultPlace
  <2>5. Word(y + i)' = Word(y + i)
    BY <1>3, <1>7
  <2>6. CASE c + i = Place
    <3>1. Word(c + i) = Word(y + i) /\ x = Word(c + i)
      <4>1. c + i \in Range(todo)
        <5>1. Len(copier.todo) > 0 /\ copier.todo \in Seq(Nat)
          BY CopierFacts
        <5>2. 1 \in DOMAIN todo /\ Head(todo) = todo[1]
          BY <5>1
        <5> QED
          BY <2>6, <5>2 DEF Place, Range
      <4> QED
        BY <2>1, <2>4, <2>6, <4>1 DEF FieldCopied, Original
    <3>2. Word(c + i)' = new
      BY <1>2, <2>4, <2>6
    <3>3. Word(y + i)' \in DOMAIN f2 /\ Word(c + i)' = f2[Word(y + i)']
      BY <2>5, <3>1, <3>2 DEF GoesOn
    <3>4. c + i \notin Range(todo2)
      BY <2>3, <2>4, <2>6 DEF GoesOn
    <3> QED
      BY <3>3, <3>4 DEF FieldCopied
  <2>7. CASE c + i # Place
    <3>1. Word(c + i)' = Word(c + i)
      BY <1>2, <2>3, <2>4, <2>7
    <3>2. c + i \in Range(todo2) <=> c + i \in Range(todo)
      BY <2>3, <2>4, <2>7 DEF GoesOn
    <3> QED
      BY <2>1, <2>5, <3>1, <3>2 DEF FieldCopied, GoesOn
  <2> QED
    BY <2>6, <2>7
<1>8. ASSUME Word(y) = imv
      PROVE  ObjectCopied(y, c)'
  <2>1. PICK d, k : d = Word(y + 1) /\ k = Word(c + 1)
    OBVIOUS
  <2>2. \/ d = 0 /\ k = 0
        \/ d # 0 /\ k # 0 /\ Targets(Ref(k, dynamic_object)) = Targets(Ref(d, dynamic_object))
    BY <1>1, <1>8, <2>1 DEF CopyOf, ObjectCopied
  <2>3. Word(y + 1)' = d /\ Word(c + 1)' = k
    BY <1>1, <1>3, <1>5, <1>8, <2>1
  <2>4. Ref(d, dynamic_object) \in G \ D /\ Ref(k, dynamic_object) \in G \ D
    <3>1. Ref(d, dynamic_object) \in G /\ Ref(k, dynamic_object) \in G
      BY <1>1, <1>8, <2>1, ASTOfWorld
    <3> QED
      BY <1>2, <1>4, <3>1, Tags
  <2>5. /\ Targets(Ref(d, dynamic_object))' = Targets(Ref(d, dynamic_object))
        /\ Targets(Ref(k, dynamic_object))' = Targets(Ref(k, dynamic_object))
    BY <1>2, <2>4, WorldFacts, RefMoves DEF Ref, dynamic_object
  <2> QED
    BY <2>2, <2>3, <2>5 DEF ObjectCopied
<1> QED
  BY <1>1, <1>3, <1>5, <1>6, <1>7, <1>8 DEF CopyOf, imv

\* A new copy v of the AST x, with the places of its fields.
NewMade(G, x, v, fields, N) ==
    /\ x \notin DOMAIN copier.copied /\ v \in Nat \ {0} /\ \A r \in G : Solid(r) => r.val # v
    /\ Word(v)' = Word(x)
    /\ IF Word(x) \in DOMAIN ASTFields THEN Len(fields) = ASTFields[Word(x)] ELSE Len(fields) = 0
    /\ \A i \in 1 .. Len(fields) : /\ fields[i] = v + i /\ Word(v + i)' = Word(x + i)
                                   /\ \A o \in objects : v + i \notin Words(o)
    /\ Word(x) = imv => \E d, k : /\ Word(x + 1) = d /\ Word(v + 1)' = k /\ (d = 0 <=> k = 0)
                                  /\ d # 0 => Targets(Ref(k, dynamic_object))' = Targets(Ref(d, dynamic_object))
    /\ Ref(v, AST_pointer) \in N
    /\ \A r \in N : \/ r = Ref(v, AST_pointer)
                    \/ /\ r.type = dynamic_object
                       /\ \E d \in G : d.type = dynamic_object /\ Targets(r)' = Targets(d)

\* What a step of the copier delivers: a copy that was made before, or a new one.
CopyGiven(G, x, new, fields, N) ==
    \/ x \in DOMAIN copier.copied /\ new = copier.copied[x] /\ Len(fields) = 0 /\ N = {}
    \/ NewMade(G, x, new, fields, N)

\* The new copy is a copy.
LEMMA NewIsCopy ==
    ASSUME HeapInv, Typings, NEW G, NEW rk, World(G, rk), "basicblock" \notin Menu, NEW P, Guard(G, P), Copying,
           NEW D, NEW m, NEW new, Delivered(G, rk, D, m, new),
           NEW f, NEW todo, NEW x, NEW f2, NEW todo2, f = copier.copied, todo = copier.todo, x = Original,
           GoesOn(f, todo, x, new, f2, todo2),
           NEW fields \in Seq(Nat), NEW N, NewMade(G, x, new, fields, N), Range(fields) \subseteq Range(todo2)
    PROVE  CopyOf(f2, todo2, x, new)' /\ Word(x)' = Word(x)
<1>0. copier # NoCopy
  BY DEF Copying
<1>1. /\ x \notin DOMAIN f /\ new \in Nat \ {0} /\ \A r \in G : Solid(r) => r.val # new
      /\ Word(new)' = Word(x)
      /\ Word(x) \in DOMAIN ASTFields => Len(fields) = ASTFields[Word(x)]
      /\ \A i \in 1 .. Len(fields) : fields[i] = new + i /\ Word(new + i)' = Word(x + i)
  BY DEF NewMade
<1>2. D \in SUBSET G /\ Moves(G, D) /\ D \subseteq Copies /\ \A r \in D : r.type = AST_pointer
  BY DEF Delivered
<1>3. 0 \in DOMAIN f /\ \A y \in DOMAIN f : Ref(y, AST_pointer) \in G
  BY <1>0 DEF World, CopierIn, Guard, CopierGuard, Mirror
<1>4. x # 0 /\ Ref(x, AST_pointer) \in G \ D
  BY <1>1, <1>2, <1>3, OriginalIn, OriginalIsNoCopy
<1>5. /\ Word(x)' = Word(x)
      /\ Word(x) = imv => Word(x + 1)' = Word(x + 1)
      /\ Word(x) \in DOMAIN ASTFields => \A i \in 1 .. ASTFields[Word(x)] : Word(x + i)' = Word(x + i)
  BY <1>2, <1>4, FieldsStay
<1>6. new \notin DOMAIN f2
  <2>1. \A y : y # 0 /\ Ref(y, AST_pointer) \in G => y # new
    <3> SUFFICES ASSUME NEW y, y # 0, Ref(y, AST_pointer) \in G PROVE y # new
      OBVIOUS
    <3>1. Solid(Ref(y, AST_pointer)) /\ Ref(y, AST_pointer).val = y
      BY ASTOfWorld, Refs
    <3> QED
      BY <1>1, <3>1
  <2> QED
    BY <1>1, <1>3, <1>4, <2>1 DEF GoesOn
<1>7. ASSUME Word(x) \in DOMAIN ASTFields, NEW i \in 1 .. ASTFields[Word(x)]
      PROVE  FieldCopied(f2, todo2, x, new, i)'
  <2>1. i \in 1 .. Len(fields)
    BY <1>1, <1>7
  <2>2. new + i \in Range(todo2)
    <3>1. i \in DOMAIN fields /\ fields[i] = new + i
      BY <1>1, <2>1
    <3> QED
      BY <3>1 DEF Range
  <2>3. Word(new + i)' = Word(x + i) /\ Word(x + i)' = Word(x + i)
    BY <1>1, <1>5, <1>7, <2>1
  <2> QED
    BY <2>2, <2>3 DEF FieldCopied
<1>8. ASSUME Word(x) = imv
      PROVE  ObjectCopied(x, new)'
  <2>1. PICK d, k : /\ Word(x + 1) = d /\ Word(new + 1)' = k /\ (d = 0 <=> k = 0)
                    /\ d # 0 => Targets(Ref(k, dynamic_object))' = Targets(Ref(d, dynamic_object))
    BY <1>8 DEF NewMade
  <2>2. Word(x + 1)' = d
    BY <1>5, <1>8, <2>1
  <2>3. Ref(d, dynamic_object) \in G \ D
    <3>1. Ref(d, dynamic_object) \in G
      BY <1>4, <1>8, <2>1, ASTOfWorld
    <3>2. Ref(d, dynamic_object).type # AST_pointer
      BY Refs, Tags
    <3> QED
      BY <1>2, <3>1, <3>2
  <2>4. Targets(Ref(d, dynamic_object))' = Targets(Ref(d, dynamic_object))
    BY <1>2, <2>3, WorldFacts, RefMoves DEF Ref, dynamic_object
  <2> QED
    BY <2>1, <2>2, <2>4 DEF ObjectCopied
<1> QED
  BY <1>1, <1>5, <1>6, <1>7, <1>8 DEF CopyOf, imv

\* No element of s occurs twice.
Unlike(s) == \A j, k \in DOMAIN s : s[j] = s[k] => j = k

\* left has the fields and what is in todo but for its head.
PlacesOf(left, fields, todo) ==
    /\ left \in Seq(Nat)
    /\ \A w : w \in Range(left) <=> w \in Range(fields) \/ (w \in Range(todo) /\ w # Head(todo))
    /\ Unlike(left)

\* The places that are left when the fields of a new copy come first.
LEMMA PlacesLeft ==
    ASSUME NEW todo \in Seq(Nat), Len(todo) > 0, NEW fields \in Seq(Nat), NEW left, left = fields \o Tail(todo),
           Unlike(todo), Unlike(fields), Range(fields) \cap Range(todo) = {}
    PROVE  PlacesOf(left, fields, todo)
<1> USE DEF Unlike
<1>0. \A j \in DOMAIN fields : fields[j] \notin Range(todo)
  BY DEF Range
<1>1. PICK t : t = Tail(todo)
  OBVIOUS
<1>2. /\ t \in Seq(Nat) /\ Len(t) = Len(todo) - 1 /\ DOMAIN todo = 1 .. Len(todo) /\ Head(todo) = todo[1]
      /\ \A j \in 1 .. Len(t) : t[j] = todo[j + 1] /\ j + 1 \in DOMAIN todo
      /\ Len(t) \in Nat /\ 1 \in DOMAIN todo
  BY <1>1
<1>3. PICK n \in Nat : n = Len(fields) /\ DOMAIN fields = 1 .. n
  OBVIOUS
<1>4. Joined(Nat, fields, t, left)
  BY <1>1, <1>2, JoinedFacts
<1>5. /\ left \in Seq(Nat) /\ DOMAIN left = 1 .. n + Len(t)
      /\ \A i \in 1 .. n : left[i] = fields[i]
      /\ \A i \in 1 .. Len(t) : left[n + i] = t[i]
  BY <1>2, <1>3, <1>4 DEF Joined
<1>6. \A j \in DOMAIN left : j \in 1 .. n \/ \E i \in 1 .. Len(t) : j = n + i
  <2> SUFFICES ASSUME NEW j \in DOMAIN left, j \notin 1 .. n PROVE \E i \in 1 .. Len(t) : j = n + i
    OBVIOUS
  <2>1. j - n \in 1 .. Len(t) /\ j = n + (j - n)
    BY <1>2, <1>5
  <2> QED
    BY <2>1
<1>7. ASSUME NEW j \in 1 .. Len(t)
      PROVE  t[j] \in Range(todo) /\ t[j] # Head(todo)
  <2>1. PICK i : i = j + 1
    OBVIOUS
  <2>2. i \in DOMAIN todo /\ t[j] = todo[i] /\ i # 1
    <3>1. j \in Nat /\ j >= 1
      BY <1>2
    <3>2. i # 1
      BY <2>1, <3>1
    <3> QED
      BY <1>2, <2>1, <3>2
  <2>3. todo[i] # todo[1]
    BY <1>2, <2>2
  <2> QED
    BY <1>2, <2>2, <2>3 DEF Range
<1>8. ASSUME NEW w
      PROVE  w \in Range(left) <=> w \in Range(fields) \/ (w \in Range(todo) /\ w # Head(todo))
  <2>1. ASSUME w \in Range(left)
        PROVE  w \in Range(fields) \/ (w \in Range(todo) /\ w # Head(todo))
    <3>1. PICK j \in DOMAIN left : w = left[j]
      BY <2>1 DEF Range
    <3>2. CASE j \in 1 .. n
      BY <1>3, <1>5, <3>1, <3>2 DEF Range
    <3>3. CASE \E i \in 1 .. Len(t) : j = n + i
      <4>1. PICK i \in 1 .. Len(t) : j = n + i
        BY <3>3
      <4>2. w = t[i]
        BY <1>5, <3>1, <4>1
      <4> QED
        BY <1>7, <4>2
    <3> QED
      BY <1>6, <3>2, <3>3
  <2>2. ASSUME w \in Range(fields)
        PROVE  w \in Range(left)
    <3>1. PICK j \in 1 .. n : w = fields[j]
      BY <1>3, <2>2 DEF Range
    <3>2. j \in DOMAIN left /\ w = left[j]
      BY <1>2, <1>5, <3>1
    <3> QED
      BY <3>2 DEF Range
  <2>3. ASSUME w \in Range(todo), w # Head(todo)
        PROVE  w \in Range(left)
    <3>1. PICK j \in DOMAIN todo : w = todo[j]
      BY <2>3 DEF Range
    <3>2. PICK i : i = j - 1
      OBVIOUS
    <3>3. i \in 1 .. Len(t) /\ j = i + 1
      <4>1. j \in 1 .. Len(todo) /\ j # 1
        BY <1>2, <2>3, <3>1
      <4> QED
        BY <1>2, <3>2, <4>1
    <3>4. n + i \in DOMAIN left /\ left[n + i] = w
      <4>1. t[i] = todo[i + 1] /\ todo[i + 1] = w
        BY <1>2, <3>1, <3>3
      <4>2. n + i \in 1 .. n + Len(t)
        <5>1. PICK l \in Nat : l = Len(t)
          BY <1>2
        <5>2. i \in 1 .. l
          BY <3>3, <5>1
        <5>3. n + i \in 1 .. n + l
          BY <5>2
        <5> QED
          BY <5>1, <5>3
      <4> QED
        BY <1>5, <3>3, <4>1, <4>2
    <3> QED
      BY <3>4 DEF Range
  <2> QED
    BY <2>1, <2>2, <2>3
<1>9. ASSUME NEW j \in DOMAIN left, NEW k \in DOMAIN left, left[j] = left[k]
      PROVE  j = k
  <2>1. CASE j \in 1 .. n /\ k \in 1 .. n
    BY <1>3, <1>5, <1>9, <2>1
  <2>2. CASE j \in 1 .. n /\ \E i \in 1 .. Len(t) : k = n + i
    <3>1. PICK i \in 1 .. Len(t) : k = n + i
      BY <2>2
    <3>2. t[i] \in Range(todo) /\ fields[j] = t[i] /\ j \in DOMAIN fields
      BY <1>3, <1>5, <1>7, <1>9, <2>2, <3>1
    <3> QED
      BY <1>0, <3>2
  <2>3. CASE k \in 1 .. n /\ \E i \in 1 .. Len(t) : j = n + i
    <3>1. PICK i \in 1 .. Len(t) : j = n + i
      BY <2>3
    <3>2. t[i] \in Range(todo) /\ fields[k] = t[i] /\ k \in DOMAIN fields
      BY <1>3, <1>5, <1>7, <1>9, <2>3, <3>1
    <3> QED
      BY <1>0, <3>2
  <2>4. CASE (\E i \in 1 .. Len(t) : j = n + i) /\ (\E i \in 1 .. Len(t) : k = n + i)
    <3>1. PICK a \in 1 .. Len(t) : j = n + a
      BY <2>4
    <3>2. PICK b \in 1 .. Len(t) : k = n + b
      BY <2>4
    <3>3. todo[a + 1] = todo[b + 1] /\ a + 1 \in DOMAIN todo /\ b + 1 \in DOMAIN todo
      BY <1>2, <1>5, <1>9, <3>1, <3>2
    <3>4. a + 1 = b + 1
      BY <3>3
    <3> QED
      BY <3>1, <3>2, <3>4
  <2> QED
    BY <1>6, <2>1, <2>2, <2>3, <2>4
<1> QED
  BY <1>5, <1>8, <1>9 DEF PlacesOf

\* What the copier works with, as a step of it leaves it.
LEMMA CopierMoves ==
    ASSUME HeapInv, Typings, NEW G, NEW rk, World(G, rk), "basicblock" \notin Menu, NEW P, Guard(G, P), Copying,
           NEW x, x = Original, NEW new, NEW fields \in Seq(Nat), NEW N, CopyGiven(G, x, new, fields, N),
           NEW f, NEW todo, f = copier.copied, todo = copier.todo, NEW p, p = Place,
           NEW f2, NEW todo2, f2 = Extended(f, x, new), todo2 = Pending(fields)
    PROVE  /\ GoesOn(f, todo, x, new, f2, todo2)
           /\ \A w : w \in Range(todo2) <=> w \in Range(fields) \/ (w \in Range(todo) /\ w # p)
           /\ \A j, k \in DOMAIN todo2 : todo2[j] = todo2[k] => j = k
           /\ p \in Range(todo) /\ todo2 \in Seq(Nat)
<1>1. copier # NoCopy /\ todo \in Seq(Nat) /\ Len(todo) > 0 /\ p = Head(todo)
  BY CopierFacts DEF Copying, Place
<1>2. p \in Range(todo)
  <2>1. 1 \in DOMAIN todo /\ Head(todo) = todo[1]
    BY <1>1
  <2> QED
    BY <1>1, <2>1 DEF Range
<1>3. \A j, k \in DOMAIN todo : todo[j] = todo[k] => j = k
  BY <1>1 DEF Guard, CopierGuard, Mirror
<1>4. ASSUME NEW q \in Range(todo), q # ResultPlace
      PROVE  \E o \in objects : q \in Words(o)
  <2>1. PICK a, i : /\ a # 0 /\ Word(a) \in DOMAIN ASTFields /\ Ref(a, AST_pointer) \in G
                    /\ i \in 1 .. ASTFields[Word(a)] /\ q = a + i
    BY <1>1, <1>4, CopyPlaces
  <2>2. PICK n : n = ASTFields[Word(a)]
    OBVIOUS
  <2>3. a \in Nat \ {0} /\ n \in Nat /\ [addr |-> a, size |-> 1 + n] \in objects
    BY <2>1, <2>2, ASTOfWorld
  <2>4. PICK o \in objects : o = [addr |-> a, size |-> 1 + n]
    BY <2>3
  <2>5. o.addr = a /\ o.size = 1 + n
    BY <2>4
  <2>6. q \in Words(o)
    BY <2>1, <2>2, <2>3, <2>5 DEF Words
  <2> QED
    BY <2>6
<1>5. /\ \A j, k \in DOMAIN fields : fields[j] = fields[k] => j = k
      /\ \A j \in DOMAIN fields : fields[j] # ResultPlace /\ \A o \in objects : fields[j] \notin Words(o)
  <2>1. CASE Len(fields) = 0
    <3>1. DOMAIN fields = {}
      BY <2>1
    <3> QED
      BY <3>1
  <2>2. CASE NewMade(G, x, new, fields, N)
    <3>1. new \in Nat \ {0}
      BY <2>2 DEF NewMade
    <3>2. \A i \in 1 .. Len(fields) : fields[i] = new + i /\ \A o \in objects : new + i \notin Words(o)
      BY <2>2 DEF NewMade
    <3>3. DOMAIN fields = 1 .. Len(fields)
      OBVIOUS
    <3>4. \A i \in 1 .. Len(fields) : fields[i] = new + i
      BY <3>2
    <3>5. \A j, k \in DOMAIN fields : fields[j] = fields[k] => j = k
      BY <3>1, <3>3, <3>4
    <3>6. \A j \in DOMAIN fields : fields[j] # ResultPlace
      BY <3>1, <3>3, <3>4 DEF ResultPlace
    <3> QED
      BY <3>2, <3>3, <3>5, <3>6
  <2> QED
    BY <2>1, <2>2 DEF CopyGiven
<1>6. \A j \in DOMAIN fields : fields[j] \notin Range(todo)
  BY <1>4, <1>5
<1>7. /\ todo2 \in Seq(Nat)
      /\ \A w : w \in Range(todo2) <=> w \in Range(fields) \/ (w \in Range(todo) /\ w # p)
      /\ \A j, k \in DOMAIN todo2 : todo2[j] = todo2[k] => j = k
  <2>1. todo2 = fields \o Tail(todo)
    BY DEF Pending
  <2>2. Unlike(todo) /\ Unlike(fields)
    BY <1>3, <1>5 DEF Unlike
  <2>3. Range(fields) \cap Range(todo) = {}
    BY <1>6 DEF Range
  <2>4. PlacesOf(todo2, fields, todo)
    BY <1>1, <2>1, <2>2, <2>3, PlacesLeft
  <2> QED
    BY <1>1, <2>4 DEF PlacesOf, Unlike
<1>8. DOMAIN f2 = DOMAIN f \cup {x} /\ f2[x] = new /\ \A y \in DOMAIN f : f2[y] = f[y]
  <2>1. x \in DOMAIN f => new = f[x]
    BY DEF CopyGiven, NewMade
  <2> QED
    BY <2>1 DEF Extended
<1>9. \A o \in objects : \A w \in Words(o) : w \in Range(todo2) <=> w \in Range(todo) /\ w # Place
  <2>1. \A o \in objects : \A w \in Words(o) : w \notin Range(fields)
    BY <1>5 DEF Range
  <2> QED
    BY <1>7, <2>1
<1> QED
  BY <1>2, <1>7, <1>8, <1>9 DEF GoesOn

\* The copies stay copies.
LEMMA MirrorGoesOn ==
    ASSUME HeapInv, Typings, NEW G, NEW rk, World(G, rk), "basicblock" \notin Menu, NEW P, Guard(G, P), Copying,
           NEW D, NEW m, NEW new, Delivered(G, rk, D, m, new),
           NEW x, x = Original, NEW fields \in Seq(Nat), NEW N, CopyGiven(G, x, new, fields, N),
           NEW f, NEW todo, f = copier.copied, todo = copier.todo,
           NEW f2, NEW todo2, f2 = Extended(f, x, new), todo2 = Pending(fields)
    PROVE  Mirror(G \cup N, f2, todo2)'
<1>0. copier # NoCopy
  BY DEF Copying
<1>1. PICK p : p = Place
  OBVIOUS
<1>2. /\ GoesOn(f, todo, x, new, f2, todo2)
      /\ \A w : w \in Range(todo2) <=> w \in Range(fields) \/ (w \in Range(todo) /\ w # p)
      /\ \A j, k \in DOMAIN todo2 : todo2[j] = todo2[k] => j = k
  BY <1>1, CopierMoves
<1>3. /\ f[0] = 0 /\ 0 \in DOMAIN f /\ \A y \in DOMAIN f : Ref(y, AST_pointer) \in G
      /\ \A j \in DOMAIN todo : todo[j] = ResultPlace \/ FieldOfCopy(f, todo[j])
  BY <1>0 DEF World, CopierIn, Guard, CopierGuard, Mirror
<1>4. DOMAIN f2 = DOMAIN f \cup {x} /\ f2[x] = new /\ \A y \in DOMAIN f : f2[y] = f[y]
  BY <1>2 DEF GoesOn
<1>5. Ref(x, AST_pointer) \in G
  BY OriginalIn
<1>6. ASSUME NEW y \in DOMAIN f, y # 0
      PROVE  CopyOf(f2, todo2, y, f2[y])' /\ Word(y)' = Word(y)
  <2>1. PICK c : c = f[y]
    OBVIOUS
  <2>2. CopyOf(f2, todo2, y, c)' /\ Word(y)' = Word(y)
    BY <1>2, <1>6, <2>1, CopyStays
  <2>3. c = f2[y]
    BY <1>4, <2>1
  <2> QED
    BY <2>2, <2>3
<1>7. ASSUME NewMade(G, x, new, fields, N)
      PROVE  CopyOf(f2, todo2, x, f2[x])' /\ Word(x)' = Word(x)
  <2>1. Range(fields) \subseteq Range(todo2)
    BY <1>2
  <2>2. CopyOf(f2, todo2, x, new)' /\ Word(x)' = Word(x)
    BY <1>2, <1>7, <2>1, NewIsCopy
  <2> QED
    BY <1>4, <2>2
<1>8. \A y \in DOMAIN f2 \ {0} : CopyOf(f2, todo2, y, f2[y])' /\ Word(y)' = Word(y)
  <2>1. x \in DOMAIN f \/ NewMade(G, x, new, fields, N)
    BY DEF CopyGiven
  <2> QED
    BY <1>4, <1>6, <1>7, <2>1
<1>9. f2[0] = 0 /\ \A y \in DOMAIN f2 : Ref(y, AST_pointer)' \in G \cup N
  BY <1>3, <1>4, <1>5 DEF Ref, AST_pointer
<1>10. ASSUME NEW q \in Range(todo2)
       PROVE  q = ResultPlace \/ FieldOfCopy(f2, q)'
  <2>1. CASE q \in Range(todo)
    <3>1. q = ResultPlace \/ FieldOfCopy(f, q)
      BY <1>3, <2>1 DEF Range
    <3>2. ASSUME FieldOfCopy(f, q)
          PROVE  FieldOfCopy(f2, q)'
      <4>1. PICK y \in DOMAIN f \ {0} : /\ Word(y) \in DOMAIN ASTFields
                                        /\ \E i \in 1 .. ASTFields[Word(y)] : q = f[y] + i
        BY <3>2 DEF FieldOfCopy
      <4>2. Word(y)' = Word(y) /\ f2[y] = f[y] /\ y \in DOMAIN f2 \ {0}
        BY <1>4, <1>6
      <4> QED
        BY <4>1, <4>2 DEF FieldOfCopy
    <3> QED
      BY <3>1, <3>2
  <2>2. CASE q \in Range(fields)
    <3>1. NewMade(G, x, new, fields, N)
      <4>1. Len(fields) # 0
        BY <2>2 DEF Range
      <4> QED
        BY <4>1 DEF CopyGiven
    <3>2. PICK i \in 1 .. Len(fields) : q = fields[i]
      BY <2>2 DEF Range
    <3>3. q = new + i /\ Word(x) \in DOMAIN ASTFields /\ i \in 1 .. ASTFields[Word(x)]
      BY <3>1, <3>2 DEF NewMade
    <3>4. x \in DOMAIN f2 \ {0} /\ Word(x)' = Word(x) /\ f2[x] = new
      BY <1>3, <1>4, <1>7, <3>1 DEF NewMade
    <3> QED
      BY <3>3, <3>4 DEF FieldOfCopy
  <2> QED
    BY <1>2, <2>1, <2>2
<1>11. \A j \in DOMAIN todo2 : todo2[j] = ResultPlace \/ FieldOfCopy(f2, todo2[j])'
  BY <1>10 DEF Range
<1> QED
  BY <1>2, <1>8, <1>9, <1>11 DEF Mirror, ResultPlace

\* What a delivery makes of the copier's record.
LEMMA CopierNext ==
    ASSUME HeapInv, Typings, NEW G, NEW rk, World(G, rk), Copying, NEW m, NEW new, NEW fields, Deliver(m, new, fields),
           NEW x, x = Original, NEW p, p = Place
    PROVE  /\ copier'.copied = Extended(copier.copied, x, new) /\ copier'.todo = Pending(fields)
           /\ copier'.result = IF p = ResultPlace THEN new ELSE copier.result
           /\ copier'.what = copier.what /\ copier'.source = copier.source
           /\ copier'.return_type = copier.return_type /\ copier'.code = copier.code /\ copier' # NoCopy
<1>1. PICK left, cop, res :
           /\ left = Pending(fields) /\ cop = Extended(copier.copied, Original, new)
           /\ res = IF Place = ResultPlace THEN new ELSE copier.result
  OBVIOUS
<1>2. copier' = [copier EXCEPT !.copied = cop, !.todo = left, !.result = res]
  BY <1>1 DEF Deliver
<1>3. CopierTyped
  BY CopierFacts
<1>4. /\ copier'.copied = cop /\ copier'.todo = left /\ copier'.result = res
      /\ copier'.what = copier.what /\ copier'.source = copier.source
      /\ copier'.return_type = copier.return_type /\ copier'.code = copier.code
  BY <1>2, <1>3 DEF CopierTyped
<1>5. copier' # NoCopy
  <2>1. copier.what \in {"compile", "AST_from_function"}
    BY <1>3 DEF CopierTyped
  <2> QED
    BY <1>4, <2>1 DEF NoCopy
<1> QED
  BY <1>1, <1>4, <1>5

\* The copies after a delivery: the new one is none of the objects that were there.
LEMMA CopiesNext ==
    ASSUME HeapInv, Typings, NEW G, NEW rk, World(G, rk), NEW P, Guard(G, P), Copying,
           NEW x, x = Original, NEW new, NEW fields, NEW N, CopyGiven(G, x, new, fields, N),
           copier' # NoCopy, copier'.copied = Extended(copier.copied, x, new)
    PROVE  /\ Copies \subseteq Copies' /\ \A r \in Copies' : r.type = AST_pointer /\ (r \in Copies \/ r \notin G)
           /\ \A r \in N : \/ r \in Copies'
                           \/ /\ r.type = dynamic_object
                              /\ \E d \in G : d.type = dynamic_object /\ Targets(r)' = Targets(d)
<1>1. PICK f, f2 : f = copier.copied /\ f2 = copier'.copied
  OBVIOUS
<1>2. /\ DOMAIN f2 = DOMAIN f \cup {x} /\ f2[x] = new /\ \A y \in DOMAIN f : f2[y] = f[y]
  <2>1. x \in DOMAIN f => new = f[x]
    BY <1>1 DEF CopyGiven, NewMade
  <2> QED
    BY <1>1, <2>1 DEF Extended
<1>3. /\ Copies = {Ref(f[y], AST_pointer) : y \in DOMAIN f} \ {Ref(0, AST_pointer)}
      /\ Copies' = {Ref(f2[y], AST_pointer) : y \in DOMAIN f2} \ {Ref(0, AST_pointer)}
  BY <1>1 DEF Copies, Copying, Ref, AST_pointer
<1>4. Copies \subseteq Copies'
  <2>1. ASSUME NEW r \in Copies
        PROVE  r \in Copies'
    <3>1. PICK y \in DOMAIN f : r = Ref(f[y], AST_pointer)
      BY <1>3
    <3>2. y \in DOMAIN f2 /\ r = Ref(f2[y], AST_pointer) /\ r # Ref(0, AST_pointer)
      BY <1>2, <1>3, <3>1
    <3> QED
      BY <1>3, <3>2
  <2> QED
    BY <2>1
<1>5. ASSUME NEW r \in Copies', r \notin Copies
      PROVE  NewMade(G, x, new, fields, N) /\ r = Ref(new, AST_pointer)
  <2>1. PICK y \in DOMAIN f2 : r = Ref(f2[y], AST_pointer) /\ r # Ref(0, AST_pointer)
    BY <1>3
  <2>2. y \notin DOMAIN f
    BY <1>2, <1>3, <1>5, <2>1
  <2> QED
    BY <1>1, <1>2, <2>1, <2>2 DEF CopyGiven
<1>6. ASSUME NewMade(G, x, new, fields, N)
      PROVE  Ref(new, AST_pointer) \in Copies' /\ Ref(new, AST_pointer) \notin G
  <2>1. new # 0 /\ \A r \in G : Solid(r) => r.val # new
    BY <1>6 DEF NewMade
  <2>2. Ref(new, AST_pointer).val = new /\ Ref(0, AST_pointer).val = 0
    BY Refs
  <2>3. Ref(new, AST_pointer) \notin G
    BY <2>1, <2>2, ASTOfWorld
  <2> QED
    BY <1>2, <1>3, <2>1, <2>2, <2>3
<1>7. \A r \in Copies' : r.type = AST_pointer
  BY <1>3, Refs
<1>8. ASSUME NEW r \in N
      PROVE  \/ r \in Copies'
             \/ /\ r.type = dynamic_object
                /\ \E d \in G : d.type = dynamic_object /\ Targets(r)' = Targets(d)
  <2>1. NewMade(G, x, new, fields, N)
    BY <1>8 DEF CopyGiven
  <2> QED
    BY <1>6, <1>8, <2>1 DEF NewMade
<1> QED
  BY <1>4, <1>5, <1>6, <1>7, <1>8

\* A step of the copier leaves alone what the functions keep, and what they will.
LEMMA CopyGuarded ==
    ASSUME HeapInv, Typings, NEW G, NEW rk, World(G, rk), Copying,
           NEW D, NEW m, NEW new, Delivered(G, rk, D, m, new),
           NEW x, x = Original, NEW fields \in Seq(Nat), NEW N, "basicblock" \notin Menu => CopyGiven(G, x, new, fields, N),
           Deliver(m, new, fields), \A r \in N : r.type # function_pointer
    PROVE  Guarded(G \cup N)'
<1>0. Typed /\ Shape(G, rk) /\ copier # NoCopy
  BY WorldFacts DEF Copying
<1>1. PICK f, todo, f2, todo2, p :
        /\ f = copier.copied /\ todo = copier.todo /\ p = Place
        /\ f2 = Extended(f, x, new) /\ todo2 = Pending(fields)
  OBVIOUS
<1>2. /\ copier'.copied = f2 /\ copier'.todo = todo2
      /\ copier'.result = IF p = ResultPlace THEN new ELSE copier.result
      /\ copier'.what = copier.what /\ copier'.source = copier.source
      /\ copier'.return_type = copier.return_type /\ copier'.code = copier.code /\ copier' # NoCopy
  BY <1>1, CopierNext
<1>3. UNCHANGED <<functions, held>>
  BY DEF Deliver, functionVars
<1>4. CASE "basicblock" \in Menu
  <2>1. copier'.code = {}
    BY <1>0, <1>2, <1>4 DEF World, Guarded, CodeEmpty
  <2> QED
    BY <1>3, <1>4, <2>1, BlocksGuarded DEF World
<1>5. CASE "basicblock" \notin Menu
  <2>1. PICK P : Guard(G, P)
    BY <1>5 DEF World, Guarded
  <2>2. CopyGiven(G, x, new, fields, N)
    BY <1>5
  <2>3. /\ P \subseteq ASTsIn(G) /\ FieldsClosed(P) /\ (~ Bakes => P = {})
        /\ \A r \in G : r \notin P \cup Copies => Targets(r) \cap (P \cup Copies) = {}
        /\ held \cap (P \cup Copies) = {}
        /\ \A r \in G : r.type = function_pointer /\ r.val # 0 => KeptBy(P, functions[r.val])
        /\ P \cap Copies = {} /\ Ref(copier.source, AST_pointer) \notin Copies
        /\ copier.what = "compile" =>
              IF Bakes THEN \E W \in SUBSET (ASTsIn(G) \ Copies) : Keeps(W, copier.source, copier.code)
              ELSE copier.code = {}
        /\ ResultPlace \notin Range(todo) =>
              copier.source \in DOMAIN f /\ copier.result = f[copier.source]
    BY <1>0, <1>1, <2>1 DEF Guard, CopierGuard
  <2>4. PICK C2 : C2 = Copies'
    OBVIOUS
  <2>5. /\ Copies \subseteq C2 /\ \A r \in C2 : r.type = AST_pointer /\ (r \in Copies \/ r \notin G)
        /\ \A r \in N : \/ r \in C2
                        \/ /\ r.type = dynamic_object
                           /\ \E d \in G : d.type = dynamic_object /\ Targets(r)' = Targets(d)
    BY <1>1, <1>2, <2>1, <2>2, <2>4, CopiesNext
  <2>6. /\ D \in SUBSET G /\ Moves(G, D) /\ D \subseteq Copies /\ \A r \in D : r.type = AST_pointer
    BY <1>5 DEF Delivered
  <2>7. \A r \in D : r.type # dynamic_object
    BY <2>6, Tags
  <2>8. \A W : W \subseteq ASTsIn(G) \ Copies => SameBelow(W)
    <3>1. \A W : W \subseteq ASTsIn(G) \ Copies => W \subseteq G \ D
      BY <2>6 DEF ASTsIn
    <3> QED
      BY <1>0, <2>6, <2>7, <3>1, SameBelowMoves
  <2>9. SameBelow(P)
    BY <2>3, <2>8
  <2>10. P \subseteq ASTsIn(G \cup N)' /\ FieldsClosed(P)'
    <3>1. FieldsClosed(P)'
      BY <2>3, <2>9, KeepsStays
    <3> QED
      BY <2>3, <3>1 DEF ASTsIn, AST_pointer
  <2>11. Closed(G)
    BY <1>0 DEF Shape
  <2>12. ASSUME NEW r \in G \cup N, r \notin P \cup C2
         PROVE  Targets(r)' \cap (P \cup C2) = {}
    <3>1. PICK d \in G : d \notin P \cup Copies /\ Targets(r)' = Targets(d)
      <4>1. CASE r \in G
        <5>1. r \in G \ D
          BY <2>5, <2>6, <2>12, <4>1
        <5>2. Targets(r)' = Targets(r)
          BY <1>0, <2>6, <5>1, RefMoves
        <5> QED
          BY <2>5, <2>12, <4>1, <5>2
      <4>2. CASE r \in N
        <5>1. PICK d \in G : d.type = dynamic_object /\ Targets(r)' = Targets(d)
          BY <2>5, <2>12, <4>2
        <5>2. d \notin P \cup Copies
          BY <2>3, <2>5, <5>1, Tags DEF ASTsIn
        <5> QED
          BY <5>1, <5>2
      <4> QED
        BY <4>1, <4>2
    <3>2. Targets(d) \subseteq G
      BY <2>11 DEF Closed
    <3> QED
      BY <2>3, <2>5, <3>1, <3>2
  <2>13. held' \cap (P \cup C2) = {}
    <3>1. held \subseteq G
      BY DEF World
    <3> QED
      BY <1>3, <2>3, <2>5, <3>1
  <2>14. ASSUME NEW r \in G \cup N, r.type = function_pointer, r.val # 0
         PROVE  KeptBy(P, functions[r.val])'
    <3>1. r \in G
      BY <2>14
    <3>2. KeptBy(P, functions[r.val])
      BY <2>3, <2>14, <3>1
    <3> QED
      BY <1>3, <2>9, <3>2, KeptByStays
  <2>15. P \cap C2 = {} /\ Ref(copier.source, AST_pointer) \notin C2
    <3>1. Ref(copier.source, AST_pointer) \in G
      BY <1>0 DEF World, CopierIn
    <3> QED
      BY <2>3, <2>5, <3>1 DEF ASTsIn
  <2>16. ASSUME copier.what = "compile", Bakes
         PROVE  \E W \in SUBSET (ASTsIn(G \cup N)' \ C2) : Keeps(W, copier.source, copier.code)'
    <3>1. PICK W \in SUBSET (ASTsIn(G) \ Copies) : Keeps(W, copier.source, copier.code)
      BY <2>3, <2>16
    <3>2. PICK a, code : a = copier.source /\ code = copier.code
      OBVIOUS
    <3>3. Keeps(W, a, code)'
      BY <2>8, <3>1, <3>2, KeepsStays
    <3>4. a = copier'.source /\ code = copier'.code
      BY <1>2, <3>2
    <3>5. Keeps(W, copier.source, copier.code)'
      BY <3>3, <3>4 DEF Keeps, Ref
    <3>6. W \subseteq ASTsIn(G \cup N)' \ C2
      BY <2>5 DEF ASTsIn, AST_pointer
    <3> QED
      BY <3>5, <3>6
  <2>17. Mirror(G \cup N, copier.copied, copier.todo)'
    <3>1. Mirror(G \cup N, f2, todo2)'
      BY <1>1, <1>5, <2>1, <2>2, MirrorGoesOn
    <3> QED
      BY <1>2, <3>1
  <2>18. ResultPlace \notin Range(todo2) =>
            copier.source \in DOMAIN f2 /\ copier'.result = f2[copier.source]
    <3>1. /\ GoesOn(f, todo, x, new, f2, todo2)
          /\ \A w : w \in Range(todo2) <=> w \in Range(fields) \/ (w \in Range(todo) /\ w # p)
      BY <1>1, <1>5, <2>1, <2>2, CopierMoves
    <3>2. DOMAIN f2 = DOMAIN f \cup {x} /\ f2[x] = new /\ \A y \in DOMAIN f : f2[y] = f[y]
      BY <3>1 DEF GoesOn
    <3>3. CASE p = ResultPlace
      <4>1. x = copier.source
        BY <1>1, <3>3 DEF Original
      <4> QED
        BY <1>2, <3>2, <3>3, <4>1
    <3>4. CASE p # ResultPlace
      BY <1>2, <2>3, <3>1, <3>2, <3>4
    <3> QED
      BY <3>3, <3>4
  <2>19. CopierGuard(G \cup N, P)'
    <3>1. (copier.what = "compile" =>
             IF Bakes THEN \E W \in SUBSET (ASTsIn(G \cup N) \ Copies) : Keeps(W, copier.source, copier.code)
             ELSE copier.code = {})'
      BY <1>2, <2>3, <2>4, <2>16 DEF Bakes
    <3>2. (P \cap Copies = {} /\ Ref(copier.source, AST_pointer) \notin Copies)'
      BY <1>2, <2>4, <2>15 DEF Ref, AST_pointer
    <3>3. (ResultPlace \notin Range(copier.todo) =>
              copier.source \in DOMAIN copier.copied /\ copier.result = copier.copied[copier.source])'
      BY <1>2, <2>18 DEF Range, ResultPlace
    <3> QED
      BY <2>17, <3>1, <3>2, <3>3 DEF CopierGuard
  <2>20. (\A r \in G \cup N : r.type = function_pointer /\ r.val # 0 => KeptBy(P, functions[r.val]))'
    BY <2>14 DEF function_pointer
  <2>21. Guard(G \cup N, P)'
    BY <2>3, <2>4, <2>10, <2>12, <2>13, <2>19, <2>20 DEF Guard, Bakes
  <2> QED
    BY <1>5, <2>21 DEF Guarded
<1> QED
  BY <1>4, <1>5

\* What a delivery makes of the copier.
LEMMA CopierGoesOn ==
    ASSUME HeapInv, Typings, NEW G, NEW rk, World(G, rk), Copying, NEW m, NEW new, NEW fields \in Seq(Nat),
           Deliver(m, new, fields), NEW H, G \subseteq H, Ref(new, AST_pointer) \in H, new \in Nat,
           \A j \in 1 .. Len(fields) : FieldOf(H, fields[j])',
           \A p : FieldOf(G, p) => FieldOf(H, p)'
    PROVE  CopierIn(H)'
<1>0. PICK left, cop, res :
           /\ left = Pending(fields) /\ cop = Extended(copier.copied, Original, new)
           /\ res = IF Place = ResultPlace THEN new ELSE copier.result
  OBVIOUS
<1>1. /\ CopierTyped /\ copier # NoCopy
      /\ copier.what = "compile" => "compile" \in Menu
      /\ Ref(copier.source, AST_pointer) \in G /\ Ref(copier.result, AST_pointer) \in G
      /\ Ref(copier.return_type, type_pointer) \in G /\ copier.code \subseteq G
      /\ 0 \in DOMAIN copier.copied
      /\ \A x \in DOMAIN copier.copied : Ref(copier.copied[x], AST_pointer) \in G
  BY DEF World, CopierIn, Copying
<1>2. copier' = [copier EXCEPT !.copied = cop, !.todo = left, !.result = res]
  BY <1>0 DEF Deliver
<1>3. PICK t : t = Tail(copier.todo)
  OBVIOUS
<1>4. t \in Seq(Nat) /\ \A j \in 1 .. Len(t) : t[j] = ResultPlace \/ FieldOf(G, t[j])
  BY <1>3, CopierFacts
<1>5. /\ left \in Seq(Nat) /\ Len(left) = Len(fields) + Len(t)
      /\ \A i \in 1 .. Len(fields) : left[i] = fields[i]
      /\ \A i \in 1 .. Len(t) : left[Len(fields) + i] = t[i]
  <2>1. left = fields \o t
    BY <1>0, <1>3 DEF Pending
  <2>2. Joined(Nat, fields, t, left)
    BY <1>4, <2>1, JoinedFacts
  <2> QED
    BY <2>2 DEF Joined
<1>6. \A j \in DOMAIN left : left[j] = ResultPlace \/ FieldOf(H, left[j])'
  <2> SUFFICES ASSUME NEW j \in DOMAIN left PROVE left[j] = ResultPlace \/ FieldOf(H, left[j])'
    OBVIOUS
  <2>1. j \in 1 .. Len(fields) + Len(t)
    BY <1>5
  <2>2. CASE j \in 1 .. Len(fields)
    <3>1. left[j] = fields[j]
      BY <1>5, <2>2
    <3>2. FieldOf(H, fields[j])'
      BY <2>2
    <3> QED
      BY <3>1, <3>2 DEF FieldOf
  <2>3. CASE j \notin 1 .. Len(fields)
    <3>1. PICK i : i = j - Len(fields)
      OBVIOUS
    <3>2. i \in 1 .. Len(t) /\ j = Len(fields) + i
      BY <1>4, <2>1, <2>3, <3>1
    <3>3. left[j] = t[i]
      BY <1>5, <3>2
    <3>4. t[i] = ResultPlace \/ FieldOf(H, t[i])'
      BY <1>4, <3>2
    <3> QED
      BY <3>3, <3>4 DEF FieldOf, ResultPlace
  <2> QED
    BY <2>2, <2>3
<1>7. /\ DOMAIN cop = DOMAIN copier.copied \cup {Original}
      /\ \A x \in DOMAIN cop : cop[x] = new \/ (x \in DOMAIN copier.copied /\ cop[x] = copier.copied[x])
  BY <1>0 DEF Extended
<1>8. 0 \in DOMAIN cop /\ \A x \in DOMAIN cop : Ref(cop[x], AST_pointer) \in H
  BY <1>1, <1>7
<1>9. res \in Nat /\ Ref(res, AST_pointer) \in H
  BY <1>0, <1>1 DEF CopierTyped
<1>10. /\ copier'.what = copier.what /\ copier'.source = copier.source /\ copier'.copied = cop
       /\ copier'.todo = left /\ copier'.result = res /\ copier'.return_type = copier.return_type
       /\ copier'.code = copier.code
       /\ copier' \in [what : {"compile", "AST_from_function"}, source : Nat, copied : {cop},
                       todo : Seq(Nat), result : Nat, return_type : Nat, code : SUBSET Reference]
  BY <1>1, <1>2, <1>5, <1>9 DEF CopierTyped
<1>11. CopierTyped'
  BY <1>10 DEF CopierTyped, Reference
<1>12. ASSUME NEW j \in DOMAIN left
       PROVE  (copier.todo[j] = ResultPlace \/ FieldOf(H, copier.todo[j]))'
  <2>1. PICK p : p = left[j]
    OBVIOUS
  <2>2. p = ResultPlace \/ FieldOf(H, p)'
    BY <1>6, <2>1 DEF FieldOf
  <2>3. copier.todo[j]' = p
    BY <1>10, <2>1
  <2> QED
    BY <2>2, <2>3 DEF FieldOf, ResultPlace
<1>13. CopierIn(H)'
  BY <1>1, <1>8, <1>9, <1>10, <1>11, <1>12 DEF CopierIn, Ref, AST_pointer, type_pointer
<1> QED
  BY <1>13

\* A step of the copier that delivers new, with its fields left to copy.
DeliveryOf(G, m, new, fields) ==
    /\ Copying /\ HeapInv' /\ phase' = "program" /\ m \in Memories /\ objects \subseteq objects'
    /\ \A w : WordIn(m, w) = Word(w) \/ \A o \in objects : w \notin Words(o)
    /\ new \in 0 .. special_value /\ fields \in Seq(Nat)
    /\ Deliver(m, new, fields)

\* A delivery of new objects keeps the world.
LEMMA DeliverySucceeds ==
    ASSUME HeapInv, Typings, NEW G, NEW rk, World(G, rk), NEW m, NEW new, NEW fields,
           DeliveryOf(G, m, new, fields), NEW D, Delivered(G, rk, D, m, new),
           NEW N \in SUBSET Reference, Distinct(G, N), \A r \in N : r.type # type_pointer,
           Ref(new, AST_pointer) \in G \cup N,
           \A r \in N : Fits(G \cup N, rk, r)' /\ OnMenu(r)',
           \A j \in 1 .. Len(fields) : FieldOf(G \cup N, fields[j])',
           \A r \in N : r.type # function_pointer,
           "basicblock" \notin Menu => CopyGiven(G, Original, new, fields, N)
    PROVE  ProgramInv'
<1>1. /\ Copying /\ HeapInv' /\ phase' = "program" /\ fields \in Seq(Nat) /\ new \in Nat
      /\ Deliver(m, new, fields)
  BY Sizes DEF DeliveryOf
<1>2. /\ D \in SUBSET G /\ Moves(G, D) /\ MemTyped'
      /\ \A r \in D : r.type = AST_pointer /\ r.val # 0 /\ Word(r.val)' = Word(r.val)
      /\ \A H : G \subseteq H /\ Ref(new, AST_pointer) \in H => \A r \in D : Fits(H, rk, r)' /\ OnMenu(r)'
  BY DEF Delivered
<1>3. Typed /\ Shape(G, rk)
  BY WorldFacts
<1>4. \A p : FieldOf(G, p) => FieldOf(G \cup N, p)'
  BY <1>2, <1>3, FieldKept
<1>5. CopierIn(G \cup N)'
  <2>1. PICK H : H = G \cup N
    OBVIOUS
  <2>2. /\ G \subseteq H /\ Ref(new, AST_pointer) \in H
        /\ \A j \in 1 .. Len(fields) : FieldOf(H, fields[j])'
        /\ \A p : FieldOf(G, p) => FieldOf(H, p)'
    BY <1>4, <2>1
  <2>3. CopierIn(H)'
    BY <1>1, <2>2, CopierGoesOn
  <2> QED
    BY <2>1, <2>3
<1>6. \A r \in D \cup N : Fits(G \cup N, rk, r)' /\ OnMenu(r)'
  BY <1>2
<1>7. UNCHANGED <<type_hash_table, type_roots, event_roots, functionVars, traceVars, held, error>>
  BY <1>1 DEF Deliver
<1>8. RootRefs' \cup held' \subseteq G \cup N
  BY <1>7, RootsStay DEF World
<1>11. Guarded(G \cup N)'
  <2>1. PICK x : x = Original
    OBVIOUS
  <2> QED
    BY <1>1, <2>1, CopyGuarded
<1>9. World(G \cup N, rk)'
  BY <1>2, <1>5, <1>6, <1>7, <1>8, <1>11, ProgramGrows
<1>10. Typings'
  BY <1>2, <1>7, TypingsKept, FunctionsStay DEF Typings
<1> QED
  BY <1>1, <1>9, <1>10 DEF ProgramInv

\* What is delivered goes to the result or to a field.
LEMMA DeliveryMoves ==
    ASSUME HeapInv, Typings, NEW G, NEW rk, World(G, rk), NEW m, NEW new, NEW fields,
           DeliveryOf(G, m, new, fields)
    PROVE  \E D : Delivered(G, rk, D, m, new)
<1>1. /\ Copying /\ HeapInv' /\ phase' = "program" /\ m \in Memories /\ objects \subseteq objects'
      /\ \A w : WordIn(m, w) = Word(w) \/ \A o \in objects : w \notin Words(o)
      /\ new \in 0 .. special_value
      /\ mem' = (IF Place = ResultPlace THEN m ELSE [m EXCEPT ![Place] = new])
      /\ UNCHANGED <<type_roots, functionVars>>
  BY DEF DeliveryOf, Deliver
<1>2. CASE Place = ResultPlace
  BY <1>1, <1>2, ResultDelivered
<1>3. CASE Place # ResultPlace
  <2>1. PICK p : p = Place
    OBVIOUS
  <2>2. FieldOf(G, p) /\ mem' = [m EXCEPT ![p] = new]
    BY <1>1, <1>3, <2>1, CopierFacts
  <2>3. \E a : /\ a # 0 /\ Ref(a, AST_pointer) \in G /\ Word(a) \in DOMAIN ASTFields
               /\ \E i \in 1 .. ASTFields[Word(a)] : p = a + i
               /\ "basicblock" \notin Menu => Ref(a, AST_pointer) \in Copies
    <3>1. CASE "basicblock" \in Menu
      <4>1. PICK r \in G : /\ r.type = AST_pointer /\ r.val # 0 /\ Word(r.val) \in DOMAIN ASTFields
                           /\ \E i \in 1 .. ASTFields[Word(r.val)] : p = r.val + i
        BY <2>2 DEF FieldOf
      <4>2. r = Ref(r.val, AST_pointer)
        BY <4>1, WorldFacts, Refs
      <4> QED
        BY <3>1, <4>1, <4>2
    <3>2. CASE "basicblock" \notin Menu
      <4>1. PICK P : Guard(G, P)
        BY <3>2 DEF World, Guarded
      <4>2. copier # NoCopy /\ p \in Range(copier.todo) /\ p # ResultPlace
        <5>1. PICK s : s = copier.todo
          OBVIOUS
        <5>2. s \in Seq(Nat) /\ Len(s) > 0
          BY <1>1, <5>1, CopierFacts
        <5>3. 1 \in DOMAIN s /\ Head(s) = s[1]
          BY <5>2
        <5> QED
          BY <1>1, <1>3, <2>1, <5>1, <5>3 DEF Place, Range, Copying
      <4> QED
        BY <4>1, <4>2, CopyPlaces
    <3> QED
      BY <3>1, <3>2
  <2>4. PICK a : /\ a # 0 /\ Ref(a, AST_pointer) \in G /\ Word(a) \in DOMAIN ASTFields
                 /\ \E i \in 1 .. ASTFields[Word(a)] : p = a + i
                 /\ "basicblock" \notin Menu => Ref(a, AST_pointer) \in Copies
    BY <2>3
  <2>5. PICK i \in 1 .. ASTFields[Word(a)] : p = a + i
    BY <2>4
  <2> QED
    BY <1>1, <2>1, <2>2, <2>4, <2>5, FieldDelivered
<1> QED
  BY <1>2, <1>3

\* Delivering a copy that was made before keeps the world.
LEMMA CopyFoundStep ==
    ASSUME HeapInv, Typings, NEW G, NEW rk, World(G, rk), copy_found
    PROVE  ProgramInv'
<1>1. /\ Copying /\ Original \in DOMAIN copier.copied /\ UNCHANGED heapVars /\ phase = "program"
      /\ Deliver(mem, copier.copied[Original], <<>>)
  BY DEF copy_found, Copying
<1>2. PICK m, new, fields : m = mem /\ new = copier.copied[Original] /\ fields = <<>>
  OBVIOUS
<1>3. Ref(new, AST_pointer) \in G
  BY <1>1, <1>2 DEF World, CopierIn, Copying
<1>4. new \in 0 .. special_value
  <2>1. Ref(new, AST_pointer) \in Reference
    BY <1>3, WorldFacts
  <2> QED
    BY <2>1, Refs
<1>5. DeliveryOf(G, m, new, fields)
  <2>1. HeapInv' /\ phase' = "program" /\ objects \subseteq objects'
    BY <1>1, NextInv DEF heapVars
  <2>2. m \in Memories /\ \A w : WordIn(m, w) = Word(w)
    BY <1>2, WordOf DEF Typings, MemTyped, Memories
  <2>3. fields \in Seq(Nat)
    BY <1>2
  <2> QED
    BY <1>1, <1>2, <1>4, <2>1, <2>2, <2>3 DEF DeliveryOf
<1>6. PICK D : Delivered(G, rk, D, m, new)
  BY <1>5, DeliveryMoves
<1> DEFINE N == {}
<1>7. /\ N \in SUBSET Reference /\ Distinct(G, N) /\ \A r \in N : r.type # type_pointer
      /\ Ref(new, AST_pointer) \in G \cup N /\ \A r \in N : Fits(G \cup N, rk, r)' /\ OnMenu(r)'
  BY <1>3 DEF Distinct
<1>8. \A j \in 1 .. Len(fields) : FieldOf(G \cup N, fields[j])'
  BY <1>2
<1>9. CopyGiven(G, Original, new, fields, N) /\ \A r \in N : r.type # function_pointer
  BY <1>1, <1>2 DEF CopyGiven
<1> HIDE DEF N
<1> QED
  BY <1>5, <1>6, <1>7, <1>8, <1>9, DeliverySucceeds

\* The original of a new copy is an AST of the world with its tag.
LEMMA NewCopyIn ==
    ASSUME HeapInv, Typings, NEW G, NEW rk, World(G, rk), NEW tag, NewCopy(tag)
    PROVE  /\ Copying /\ Original # 0 /\ Ref(Original, AST_pointer) \in G /\ Word(Original) = tag
           /\ Original \in 1 .. special_value
<1>1. Copying /\ Original \notin DOMAIN copier.copied /\ Word(Original) = tag
  BY DEF NewCopy
<1>2. 0 \in DOMAIN copier.copied
  BY <1>1 DEF World, CopierIn, Copying
<1>3. Ref(Original, AST_pointer) \in G /\ Original \in 0 .. special_value
  BY <1>1, OriginalIn
<1>4. Original # 0
  BY <1>1, <1>2
<1> QED
  BY <1>1, <1>3, <1>4, Sizes

\* The words of an object.
LEMMA WordsAtFacts ==
    ASSUME MemTyped, NEW a, NEW n \in Nat, NEW ws, ws = WordsAt(a, n)
    PROVE  ws \in Seq(0 .. special_value) /\ Len(ws) = n /\ \A i \in 1 .. n : ws[i] = Word(a + i - 1)
<1>1. ws = [i \in 1 .. n |-> Word(a + i - 1)]
  BY DEF WordsAt
<1>2. \A i \in 1 .. n : Word(a + i - 1) \in 0 .. special_value
  BY WordTyped
<1>3. ws \in [1 .. n -> 0 .. special_value] /\ \A i \in 1 .. n : ws[i] = Word(a + i - 1)
  BY <1>1, <1>2
<1>4. ws \in Seq(0 .. special_value) /\ Len(ws) = n
  <2> DEFINE V == 0 .. special_value
  <2>1. ws \in [1 .. n -> V]
    BY <1>3
  <2> HIDE DEF V
  <2>2. ws \in Seq(V) /\ Len(ws) = n
    BY <2>1, FunctionIsSeq
  <2> QED
    BY <2>2 DEF V
<1> QED
  BY <1>3, <1>4

\* An object of the world: its type, its block and what it leads to.
LEMMA ObjectOfWorld ==
    ASSUME HeapInv, Typings, NEW G, NEW rk, World(G, rk), NEW d, d # 0, Ref(d, dynamic_object) \in G,
           NEW t, t = Word(d), NEW m, m = get_size(t)
    PROVE  /\ d \in Nat /\ t \in Nat /\ t # 0 /\ Ref(t, type_pointer) \in G /\ t \in FieldlessTypes \cup HeapTypes(G)
           /\ m \in Nat \ {0}
           /\ \/ /\ OneWord(t) /\ m = 1
                 /\ Targets(Ref(d, dynamic_object)) = {Ref(t, type_pointer), Ref(Word(d + 1), t)}
              \/ /\ IsHeapType(t) /\ ver(t) = con_vec /\ m = Word(t + 1)
                 /\ Targets(Ref(d, dynamic_object)) =
                       {Ref(t, type_pointer)} \cup {Ref(Word(d + i), Subtypes(t)[i]) : i \in 1 .. m}
<1> PICK r : r = Ref(d, dynamic_object)
  OBVIOUS
<1>1. Typed /\ Shape(G, rk) /\ MemTyped /\ r \in G /\ r \in Reference
  BY WorldFacts DEF Typed
<1>2. r.val = d /\ r.type = dynamic_object /\ d \in Nat
  BY <1>1, Refs, Sizes
<1>3. Leads(r) /\ Solid(r)
  BY <1>1, <1>2, SolidFacts, Tags DEF Solid
<1>4. t \in FieldlessTypes \cup HeapTypes(G) /\ (OneWord(t) \/ (IsHeapType(t) /\ ver(t) = con_vec))
  BY <1>1, <1>2, <1>3, DynamicFacts
<1>5. Ref(t, type_pointer) \in G /\ t # 0
  BY <1>4, KnownIn, Tags DEF HeapTypes
<1>6. t \in Nat
  BY <1>4, Tags DEF HeapTypes
<1>7. CASE OneWord(t)
  <2>1. m = 1
    BY <1>6, <1>7, <1>1, RefsByType
  <2>2. Targets(r) = {Ref(t, type_pointer), Ref(Word(d + 1), t)}
    BY <1>1, <1>2, <1>3, <1>7, HeapTargets
  <2> QED
    BY <1>2, <1>4, <1>5, <1>6, <1>7, <2>1, <2>2
<1>8. CASE IsHeapType(t) /\ ver(t) = con_vec
  <2>1. t \in HeapTypes(G) /\ MadeType(rk, t) /\ ver(t) = Word(t)
    BY <1>1, <1>4, <1>8, TypeFacts, Tags
  <2>2. m = Word(t + 1) /\ m \in Nat
    BY <1>1, <1>6, <1>8, <2>1, SubtypesByTag, RefsByType, WordTyped, Sizes
  <2>3. m # 0
    <3>1. Subtypes(t) # <<>>
      BY <2>1 DEF MadeType
    <3>2. Subtypes(t) = [i \in 1 .. m |-> Word(t + 1 + i)]
      BY <1>8, <2>2, Tags DEF Subtypes
    <3> QED
      BY <3>1, <3>2
  <2>4. Targets(r) = {Ref(t, type_pointer)} \cup {Ref(Word(d + i), Subtypes(t)[i]) : i \in 1 .. m}
    BY <1>1, <1>2, <1>3, <1>6, <1>8, <2>2, ManyTargets
  <2> QED
    BY <1>2, <1>4, <1>5, <1>6, <1>8, <2>2, <2>3, <2>4
<1> QED
  BY <1>4, <1>7, <1>8

\* A copy of an object leads where the object leads.
LEMMA CopiedObjectFits ==
    ASSUME HeapInv, Typings, NEW G, NEW rk, World(G, rk), NEW D, Moves(G, D), NEW d, d # 0,
           Ref(d, dynamic_object) \in G \ D, NEW t, t = Word(d), NEW m, m = get_size(t),
           NEW k \in 1 .. special_value, Word(k)' = t, \A i \in 1 .. m : Word(k + i)' = Word(d + i),
           [addr |-> k, size |-> m + 1] \in objects', NEW H, G \subseteq H
    PROVE  /\ Fits(H, rk, Ref(k, dynamic_object))' /\ OnMenu(Ref(k, dynamic_object))'
           /\ Targets(Ref(k, dynamic_object))' = Targets(Ref(d, dynamic_object))
<1> PICK n, r : n = Ref(k, dynamic_object) /\ r = Ref(d, dynamic_object)
  OBVIOUS
<1>1. Typed /\ Shape(G, rk) /\ MemTyped' /\ G \in SUBSET Reference
  BY WorldFacts DEF Moves
<1>2. n.val = k /\ n.type = dynamic_object /\ n \in Reference /\ k \in Nat /\ k # 0
  BY Refs, Tags, Sizes
<1>3. /\ d \in Nat /\ t \in Nat /\ t # 0 /\ Ref(t, type_pointer) \in G /\ t \in FieldlessTypes \cup HeapTypes(G)
      /\ m \in Nat \ {0}
      /\ \/ OneWord(t) /\ m = 1 /\ Targets(r) = {Ref(t, type_pointer), Ref(Word(d + 1), t)}
         \/ /\ IsHeapType(t) /\ ver(t) = con_vec /\ m = Word(t + 1)
            /\ Targets(r) = {Ref(t, type_pointer)} \cup {Ref(Word(d + i), Subtypes(t)[i]) : i \in 1 .. m}
  BY ObjectOfWorld
<1>4. TypeKept(t)
  BY <1>1, <1>3, MovesTypes
<1>5. Sound(rk, n)' /\ Leads(n)'
  <2>1. BlockOf(n)' = [addr |-> k, size |-> m + 1]
    <3>1. Extent(n)' = get_size(Word(n.val))' + 1
      BY <1>2, ExtentByKindNext DEF dynamic_object
    <3>2. get_size(Word(n.val))' = get_size(t)'
      BY <1>2 DEF get_size, ver, Word, Pool, PoolEnd, IsHeapType, never_reached, con_vec
    <3>3. get_size(t)' = m
      BY <1>4 DEF TypeKept
    <3> QED
      BY <1>2, <3>1, <3>2, <3>3 DEF BlockOf
  <2>2. SoundObject(rk, n)'
    BY <1>2, <1>3, Tags DEF SoundObject, AST_pointer, type_pointer,
       dynamic_object, IsHeapType, never_reached
  <2>3. OneWord(n.type)' /\ n.type \notin {integer, function_pointer, type_pointer}'
    BY <1>2 DEF OneWord, FieldlessTypes, AST_pointer, integer, function_pointer, type_pointer, dynamic_object
  <2> QED
    BY <1>2, <2>1, <2>2, <2>3, SoundNewNext
<1>6. Targets(n)' = Targets(r)
  <2>1. CASE OneWord(t) /\ m = 1 /\ Targets(r) = {Ref(t, type_pointer), Ref(Word(d + 1), t)}
    <3>1. OneWord(t)'
      BY <2>1, <1>4, OneWordKept
    <3>2. Word(k + 1)' = Word(d + 1)
      BY <2>1
    <3>3. OneWord(Word(n.val))'
      BY <1>2, <3>1 DEF OneWord, IsHeapType, never_reached, FieldlessTypes, vector, pointer, ver, Word, Pool, PoolEnd,
         integer, dynamic_object, AST_pointer, type_pointer, function_pointer
    <3>4. Targets(n)' = {Ref(Word(n.val), type_pointer)', Ref(Word(n.val + 1), Word(n.val))'}
      BY <1>1, <1>2, <1>5, <3>3, HeapTargetsNext DEF dynamic_object, Reference
    <3>5. Targets(n)' = {Ref(t, type_pointer), Ref(Word(d + 1), t)}
      BY <1>2, <3>2, <3>4 DEF Ref, type_pointer
    <3> QED
      BY <2>1, <3>5
  <2>2. CASE /\ IsHeapType(t) /\ ver(t) = con_vec /\ m = Word(t + 1)
             /\ Targets(r) = {Ref(t, type_pointer)} \cup {Ref(Word(d + i), Subtypes(t)[i]) : i \in 1 .. m}
    <3>1. ver(t)' = con_vec /\ Subtypes(t)' = Subtypes(t) /\ get_size(t)' = m
      BY <1>4, <2>2 DEF TypeKept
    <3>2. Word(t + 1)' = m
      <4>1. get_size(t)' = Word(t + 1)'
        BY <1>3, <3>1 DEF get_size, con_vec
      <4> QED
        BY <3>1, <4>1
    <3>3. \A x : x = t => /\ (IsHeapType(x) /\ ver(x) = con_vec)' /\ Subtypes(x)' = Subtypes(t) /\ Word(x + 1)' = m
      BY <2>2, <3>1, <3>2 DEF IsHeapType, never_reached, con_vec
    <3>4. Targets(n)' = {Ref(t, type_pointer)} \cup {Ref(Word(k + i)', Subtypes(t)[i]) : i \in 1 .. m}
      <4>2. Targets(n)' = {Ref(t, type_pointer)} \cup
                          {Ref(Word(n.val + i)', (Subtypes(t)')[i]) : i \in 1 .. Word(t + 1)'}
        BY <1>1, <1>2, <1>3, <1>5, <2>2, <3>3, ManyTargetsNext DEF dynamic_object, Reference, Ref, type_pointer
      <4> QED
        BY <1>2, <3>1, <3>2, <4>2
    <3>5. \A i \in 1 .. m : Ref(Word(k + i)', Subtypes(t)[i]) = Ref(Word(d + i), Subtypes(t)[i])
      OBVIOUS
    <3> QED
      BY <2>2, <3>4, <3>5
  <2> QED
    BY <1>3, <2>1, <2>2
<1>7. Targets(r) \subseteq G
  BY <1>1 DEF Shape, Closed
<1>8. Fits(H, rk, n)' /\ OnMenu(n)'
  BY <1>2, <1>5, <1>6, <1>7, Tags DEF Fits, OnMenu, IsHeapType, never_reached, AST_pointer,
       function_pointer, Ref, dynamic_object
<1> QED
  BY <1>6, <1>8

\* The copy of an imv is delivered, with that of its object if it has one.
LEMMA ImvDelivered ==
    ASSUME HeapInv, Typings, NEW G, NEW rk, World(G, rk), NewCopy(imv), NEW a, a = Original,
           NEW m, NEW v \in 1 .. special_value, NEW none, none = <<>>, DeliveryOf(G, m, v, none),
           NEW D, Delivered(G, rk, D, m, v), NEW d, d = Word(a + 1), NEW k \in 0 .. special_value,
           Word(v)' = imv, Word(v + 1)' = k, [addr |-> v, size |-> 2] \in objects',
           \A r \in G : Solid(r) => r.val # v /\ r.val # k, v # k, d = 0 <=> k = 0,
           k # 0 => /\ \A H : G \subseteq H => Fits(H, rk, Ref(k, dynamic_object))' /\ OnMenu(Ref(k, dynamic_object))'
                    /\ Targets(Ref(k, dynamic_object))' = Targets(Ref(d, dynamic_object))
    PROVE  ProgramInv'
<1>1. /\ Copying /\ a # 0 /\ Ref(a, AST_pointer) \in G /\ Word(a) = imv /\ a \notin DOMAIN copier.copied
      /\ Ref(d, dynamic_object) \in G /\ "imv" \in Menu
  <2>1. Copying /\ a # 0 /\ Ref(a, AST_pointer) \in G /\ Word(a) = imv /\ a \notin DOMAIN copier.copied
    BY NewCopyIn DEF NewCopy
  <2> QED
    BY <2>1, ASTOfWorld
<1> PICK p, q : p = Ref(v, AST_pointer) /\ q = Ref(k, dynamic_object)
  OBVIOUS
<1>0. PICK N : N = IF k = 0 THEN {p} ELSE {p, q}
  OBVIOUS
<1>2. /\ N \in SUBSET Reference /\ p.val = v /\ p.type = AST_pointer /\ q.val = k /\ q.type = dynamic_object
      /\ p \in Reference /\ q \in Reference
  BY <1>0, Refs, Tags, Sizes
<1>3. Distinct(G, N)
  BY <1>0, <1>2 DEF Distinct
<1>4. \A r \in N : r.type # type_pointer /\ r.type # function_pointer
  BY <1>0, <1>2, Tags
<1>5. Ref(k, dynamic_object) \in G \cup N
  BY <1>0, <1>1
<1>6. MemTyped'
  BY DEF Delivered
<1>7. v \in Nat \ {0}
  BY Sizes
<1>8. Fits(G \cup N, rk, p)' /\ OnMenu(p)'
  <2> PICK H : H = G \cup N
    OBVIOUS
  <2>1. Fits(H, rk, p)' /\ OnMenu(p)'
    BY <1>1, <1>5, <1>6, <1>7, ImvFits
  <2> QED
    BY <2>1
<1>9. \A r \in N : Fits(G \cup N, rk, r)' /\ OnMenu(r)'
  <2> PICK H : H = G \cup N
    OBVIOUS
  <2>1. k # 0 => Fits(H, rk, q)' /\ OnMenu(q)'
    OBVIOUS
  <2>2. Fits(H, rk, p)' /\ OnMenu(p)'
    BY <1>8
  <2> QED
    BY <1>0, <2>1, <2>2
<1>10. NewMade(G, a, v, none, N)
  <2>1. Len(none) = 0 /\ imv \notin DOMAIN ASTFields
    BY CollectorAssumption, Tags
  <2>2. \A r \in N : r = p \/ (r = q /\ k # 0)
    BY <1>0
  <2>3. \A r \in N : \/ r = Ref(v, AST_pointer)
                     \/ /\ r.type = dynamic_object
                        /\ \E e \in G : e.type = dynamic_object /\ Targets(r)' = Targets(e)
    <3> SUFFICES ASSUME NEW r \in N, r # p
                 PROVE  /\ r.type = dynamic_object
                        /\ \E e \in G : e.type = dynamic_object /\ Targets(r)' = Targets(e)
      OBVIOUS
    <3>1. r = q /\ k # 0
      BY <2>2
    <3>2. Targets(r)' = Targets(Ref(d, dynamic_object)) /\ Ref(d, dynamic_object).type = dynamic_object
      BY <3>1, Refs
    <3> QED
      BY <1>1, <1>2, <3>1, <3>2
  <2>4. \E e, c : /\ Word(a + 1) = e /\ Word(v + 1)' = c /\ (e = 0 <=> c = 0)
                  /\ e # 0 => Targets(Ref(c, dynamic_object))' = Targets(Ref(e, dynamic_object))
    OBVIOUS
  <2>5. Ref(v, AST_pointer) \in N
    BY <1>0
  <2>6. \A i \in 1 .. Len(none) : FALSE
    BY <2>1
  <2> QED
    BY <1>1, <1>7, <2>1, <2>3, <2>4, <2>5, <2>6 DEF NewMade
<1>11. CopyGiven(G, Original, v, none, N)
  BY <1>10 DEF CopyGiven
<1>12. \A j \in 1 .. Len(none) : FieldOf(G \cup N, none[j])'
  OBVIOUS
<1>13. Ref(v, AST_pointer) \in G \cup N
  BY <1>0
<1>14. (\A r \in N : r.type # type_pointer) /\ \A r \in N : r.type # function_pointer
  BY <1>4
<1>15. DeliveryOf(G, m, v, none) /\ Delivered(G, rk, D, m, v)
  OBVIOUS
<1> QED
  BY <1>15, <1>2, <1>3, <1>9, <1>11, <1>12, <1>13, <1>14, DeliverySucceeds

\* Copying an AST with no object in it keeps the world.
LEMMA CopyEmptyImv ==
    ASSUME HeapInv, Typings, NEW G, NEW rk, World(G, rk), NewCopy(imv), Word(Original + 1) = 0,
           NEW k \in BestFit(free_memory, 2), AllocateAt(2, k),
           Deliver(Write(mem, k.addr, <<imv, 0>>), k.addr, <<>>)
    PROVE  ProgramInv'
<1>1. PICK words, m, v, none : /\ words = <<imv, 0>> /\ m = Write(mem, k.addr, words)
                               /\ v = k.addr /\ none = <<>>
  OBVIOUS
<1>2. words \in Seq(0 .. special_value) /\ Len(words) = 2 /\ words[1] = imv /\ words[2] = 0
  <2> PICK V : V = 0 .. special_value
    OBVIOUS
  <2>1. imv \in V /\ 0 \in V
    BY Tags, Sizes
  <2> QED
    BY <1>1, <2>1, PairFacts
<1>3. OneNew(G, k, 2, words, m)
  <2>1. 2 \in Nat \ {0} /\ Len(words) <= 2
    BY <1>2
  <2> QED
    BY <1>1, <1>2, <2>1, NewOne
<1>4. /\ HeapInv' /\ phase' = "program" /\ m \in Memories /\ objects \subseteq objects'
      /\ [addr |-> v, size |-> 2] \in objects' /\ \A r \in G : Solid(r) => r.val # v
      /\ v \in 1 .. special_value
      /\ \A i \in 1 .. 2 : WordIn(m, v + i - 1) = words[i]
      /\ \A w : WordIn(m, w) = Word(w) \/ \A o \in objects : w \notin Words(o)
      /\ \A o \in objects : \A w \in Words(o) : \A i \in 1 .. 2 : w # v + i - 1
  BY <1>1, <1>2, <1>3 DEF OneNew
<1>5. none \in Seq(Nat)
  BY <1>1
<1>6. DeliveryOf(G, m, v, none)
  <2>1. Copying
    BY DEF NewCopy
  <2>2. Deliver(m, v, none) /\ v \in 0 .. special_value
    BY <1>1, <1>4, Sizes
  <2> QED
    BY <1>4, <1>5, <2>1, <2>2 DEF DeliveryOf
<1>7. PICK D : Delivered(G, rk, D, m, v)
  BY <1>6, DeliveryMoves
<1>8. Word(v)' = imv /\ Word(v + 1)' = 0
  <2>1. \A w : (\A o \in objects : w \notin Words(o)) => Word(w)' = WordIn(m, w)
    BY <1>7 DEF Delivered
  <2>2. 1 \in 1 .. 2 /\ 2 \in 1 .. 2 /\ v + 1 - 1 = v /\ v + 2 - 1 = v + 1
    BY <1>4
  <2>3. WordIn(m, v) = imv /\ WordIn(m, v + 1) = 0
    BY <1>2, <1>4, <2>2
  <2>4. \A o \in objects : v \notin Words(o) /\ v + 1 \notin Words(o)
    BY <1>4, <2>2
  <2> QED
    BY <2>1, <2>3, <2>4
<1>9. PICK a : a = Original
  OBVIOUS
<1>10. PICK d, z : d = Word(a + 1) /\ z = 0
  OBVIOUS
<1>11. /\ z \in 0 .. special_value /\ v # z /\ (d = 0 <=> z = 0) /\ Word(v + 1)' = z
       /\ \A r \in G : Solid(r) => r.val # v /\ r.val # z
  <2>1. \A r \in G : Solid(r) => r.val # z
    BY <1>10 DEF Solid
  <2>2. d = 0 /\ z = 0
    BY <1>9, <1>10
  <2> QED
    BY <1>4, <1>8, <2>1, <2>2, Sizes
<1>12. z # 0 => /\ \A H : G \subseteq H => Fits(H, rk, Ref(z, dynamic_object))' /\ OnMenu(Ref(z, dynamic_object))'
                /\ Targets(Ref(z, dynamic_object))' = Targets(Ref(d, dynamic_object))
  BY <1>10
<1> QED
  BY <1>1, <1>4, <1>6, <1>7, <1>8, <1>9, <1>10, <1>11, <1>12, ImvDelivered

\* Copying an AST and the object in it keeps the world.
LEMMA CopyFullImv ==
    ASSUME HeapInv, Typings, NEW G, NEW rk, World(G, rk), NewCopy(imv), NEW d, d = Word(Original + 1), d # 0,
           NEW size, size = get_size(Word(d)) + 1,
           NEW k \in BestFit(free_memory, size), NEW l \in BestFit(Taken(free_memory, k, size), 2),
           AllocateTwoAt(size, k, 2, l),
           Deliver(Write(Write(mem, k.addr, WordsAt(d, size)), l.addr, <<imv, k.addr>>), l.addr, <<>>)
    PROVE  ProgramInv'
<1>1. PICK a, t, n : a = Original /\ t = Word(d) /\ n = get_size(t)
  OBVIOUS
<1>2. PICK words, m, b, v, none, pair :
         /\ words = WordsAt(d, size) /\ pair = <<imv, k.addr>> /\ m = Write(Write(mem, k.addr, words), l.addr, pair)
         /\ b = k.addr /\ v = l.addr /\ none = <<>>
  OBVIOUS
<1>3. Ref(d, dynamic_object) \in G
  BY <1>1, NewCopyIn, ASTOfWorld
<1>4. d \in Nat /\ n \in Nat \ {0} /\ size = n + 1 /\ size \in Nat \ {0}
  BY <1>1, <1>3, ObjectOfWorld
<1>5. words \in Seq(0 .. special_value) /\ Len(words) = size /\ \A i \in 1 .. size : words[i] = Word(d + i - 1)
  <2>1. MemTyped
    BY DEF Typings
  <2>2. size \in Nat /\ words = WordsAt(d, size)
    BY <1>2, <1>4
  <2> QED
    BY <2>1, <2>2, WordsAtFacts
<1>6. Issued(k, size) \in Block
  BY <1>4, AllocateTwoAtStep
<1>7. b \in 0 .. special_value
  <2>1. Issued(k, size).addr = b
    BY <1>2 DEF Issued
  <2> QED
    BY <1>6, <2>1, BlockFacts, Sizes
<1>8. pair \in Seq(0 .. special_value) /\ Len(pair) = 2 /\ pair[1] = imv /\ pair[2] = b
  <2> PICK V : V = 0 .. special_value
    OBVIOUS
  <2>1. imv \in V /\ b \in V
    BY <1>7, Tags, Sizes
  <2> QED
    BY <1>2, <2>1, PairFacts
<1>9. TwoNew(G, k, size, l, 2, words, pair, m)
  <2>1. 2 \in Nat \ {0} /\ Len(pair) <= 2 /\ Len(words) <= size
    BY <1>4, <1>5, <1>8
  <2> QED
    BY <1>2, <1>4, <1>5, <1>8, <2>1, NewTwo
<1>10. /\ HeapInv' /\ phase' = "program" /\ m \in Memories /\ objects \subseteq objects'
       /\ Issued(k, size) \in objects' /\ Issued(l, 2) \in objects'
       /\ \A r \in G : Solid(r) => r.val # b /\ r.val # v
       /\ b \in 1 .. special_value /\ v \in 1 .. special_value /\ b # v
       /\ \A i \in 1 .. size : WordIn(m, b + i - 1) = words[i]
       /\ \A i \in 1 .. 2 : WordIn(m, v + i - 1) = pair[i]
       /\ \A w : WordIn(m, w) = Word(w) \/ \A o \in objects : w \notin Words(o)
       /\ \A o \in objects : \A w \in Words(o) : \A i \in 1 .. size : w # b + i - 1
       /\ \A o \in objects : \A w \in Words(o) : \A i \in 1 .. 2 : w # v + i - 1
  <2>1. k.addr = b /\ l.addr = v /\ Len(words) = size /\ Len(pair) = 2
    BY <1>2, <1>5, <1>8
  <2> QED
    BY <1>9, <2>1 DEF TwoNew
<1>11. none \in Seq(Nat)
  BY <1>2
<1>12. DeliveryOf(G, m, v, none)
  <2>1. Copying
    BY DEF NewCopy
  <2>2. Deliver(m, v, none) /\ v \in 0 .. special_value
    BY <1>2, <1>10, Sizes
  <2> QED
    BY <1>10, <1>11, <2>1, <2>2 DEF DeliveryOf
<1>13. PICK D : Delivered(G, rk, D, m, v)
  BY <1>12, DeliveryMoves
<1>14. /\ Moves(G, D) /\ \A r \in D : r.type = AST_pointer
       /\ \A w : (\A o \in objects : w \notin Words(o)) => Word(w)' = WordIn(m, w)
  BY <1>13 DEF Delivered
<1>15. Word(v)' = imv /\ Word(v + 1)' = b
  <2>1. 1 \in 1 .. 2 /\ 2 \in 1 .. 2 /\ v + 1 - 1 = v /\ v + 2 - 1 = v + 1
    BY <1>10
  <2>2. WordIn(m, v) = imv /\ WordIn(m, v + 1) = b
    BY <1>8, <1>10, <2>1
  <2>3. \A o \in objects : v \notin Words(o) /\ v + 1 \notin Words(o)
    BY <1>10, <2>1
  <2> QED
    BY <1>14, <2>2, <2>3
<1>16. \A i \in 1 .. size : Word(b + i - 1)' = Word(d + i - 1)
  <2> SUFFICES ASSUME NEW i \in 1 .. size PROVE Word(b + i - 1)' = Word(d + i - 1)
    OBVIOUS
  <2>1. WordIn(m, b + i - 1) = Word(d + i - 1) /\ \A o \in objects : b + i - 1 \notin Words(o)
    BY <1>5, <1>10
  <2> QED
    BY <1>14, <2>1
<1>17. Word(b)' = t /\ \A i \in 1 .. n : Word(b + i)' = Word(d + i)
  <2>1. /\ 1 \in 1 .. size /\ b + 1 - 1 = b /\ d + 1 - 1 = d
        /\ \A i \in 1 .. n : i + 1 \in 1 .. size /\ b + (i + 1) - 1 = b + i /\ d + (i + 1) - 1 = d + i
    BY <1>4, <1>10
  <2>2. Word(b)' = Word(d)
    BY <1>16, <2>1
  <2>3. ASSUME NEW i \in 1 .. n PROVE Word(b + i)' = Word(d + i)
    <3> PICK j : j = i + 1
      OBVIOUS
    <3>1. j \in 1 .. size /\ b + j - 1 = b + i /\ d + j - 1 = d + i
      BY <2>1
    <3>2. Word(b + j - 1)' = Word(d + j - 1)
      BY <1>16, <3>1
    <3> QED
      BY <3>1, <3>2
  <2> QED
    BY <1>1, <2>2, <2>3
<1>18. [addr |-> b, size |-> n + 1] \in objects' /\ [addr |-> v, size |-> 2] \in objects'
  BY <1>2, <1>4, <1>10 DEF Issued
<1>19. Ref(d, dynamic_object) \in G \ D
  BY <1>3, <1>14, Refs, Tags
<1>20. b # 0 => /\ \A H : G \subseteq H => Fits(H, rk, Ref(b, dynamic_object))' /\ OnMenu(Ref(b, dynamic_object))'
                /\ Targets(Ref(b, dynamic_object))' = Targets(Ref(d, dynamic_object))
  <2>1. ASSUME NEW H, G \subseteq H
        PROVE  /\ Fits(H, rk, Ref(b, dynamic_object))' /\ OnMenu(Ref(b, dynamic_object))'
               /\ Targets(Ref(b, dynamic_object))' = Targets(Ref(d, dynamic_object))
    <3>1. t = Word(d) /\ n = get_size(t) /\ b \in 1 .. special_value /\ Moves(G, D)
      BY <1>1, <1>10, <1>14
    <3>2. d # 0 /\ Ref(d, dynamic_object) \in G \ D /\ [addr |-> b, size |-> n + 1] \in objects'
      BY <1>18, <1>19
    <3>3. Word(b)' = t /\ \A i \in 1 .. n : Word(b + i)' = Word(d + i)
      BY <1>17
    <3> QED
      BY <2>1, <3>1, <3>2, <3>3, CopiedObjectFits
  <2>2. G \subseteq G
    OBVIOUS
  <2> QED
    BY <2>1, <2>2
<1>21. d = Word(a + 1) /\ (d = 0 <=> b = 0) /\ v # b /\ \A r \in G : Solid(r) => r.val # v /\ r.val # b
  BY <1>1, <1>10
<1>22. a = Original /\ none = <<>>
  BY <1>1, <1>2
<1> QED
  BY <1>7, <1>10, <1>12, <1>13, <1>15, <1>18, <1>20, <1>21, <1>22, ImvDelivered

\* Copying an AST with an object in it keeps the world.
LEMMA CopyImvStep ==
    ASSUME HeapInv, Typings, NEW G, NEW rk, World(G, rk), copy_imv
    PROVE  ProgramInv'
<1>1. PICK d, size : d = Word(Original + 1) /\ size = get_size(Word(d)) + 1
  OBVIOUS
<1>2. NewCopy(imv)
  BY DEF copy_imv
<1>3. CASE d = 0
  <2>1. PICK k \in BestFit(free_memory, 2) :
            AllocateAt(2, k) /\ Deliver(Write(mem, k.addr, <<imv, 0>>), k.addr, <<>>)
    BY <1>1, <1>3 DEF copy_imv
  <2> QED
    BY <1>1, <1>2, <1>3, <2>1, CopyEmptyImv
<1>4. CASE d # 0
  <2>1. PICK k \in BestFit(free_memory, size) : \E l \in BestFit(Taken(free_memory, k, size), 2) :
                /\ AllocateTwoAt(size, k, 2, l)
                /\ Deliver(Write(Write(mem, k.addr, WordsAt(d, size)), l.addr, <<imv, k.addr>>),
                           l.addr, <<>>)
    BY <1>1, <1>4 DEF copy_imv
  <2>2. PICK l \in BestFit(Taken(free_memory, k, size), 2) :
                /\ AllocateTwoAt(size, k, 2, l)
                /\ Deliver(Write(Write(mem, k.addr, WordsAt(d, size)), l.addr, <<imv, k.addr>>),
                           l.addr, <<>>)
    BY <2>1
  <2> QED
    BY <1>1, <1>2, <1>4, <2>2, CopyFullImv
<1> QED
  BY <1>3, <1>4

\* An AST as a step leaves it in a new block, with the fields of another.
LEMMA CopiedASTFits ==
    ASSUME MemTyped', NEW H, NEW rk, NEW v \in 1 .. special_value, NEW tag \in DOMAIN ASTFields,
           Word(v)' = tag, \A i \in 1 .. ASTFields[tag] : Ref(Word(v + i)', AST_pointer) \in H,
           [addr |-> v, size |-> 1 + ASTFields[tag]] \in objects'
    PROVE  Fits(H, rk, Ref(v, AST_pointer))' /\ OnMenu(Ref(v, AST_pointer))'
<1>1. v \in Nat \ {0} /\ tag # imv /\ tag # basicblock
  BY Sizes, CollectorAssumption, Tags
<1>2. get_full_size_of_AST(tag) = 1 + ASTFields[tag]
  BY <1>1, CollectorAssumption DEF get_full_size_of_AST, get_field_size_of_AST
<1>3. get_full_size_of_AST(Word(v))' = 1 + ASTFields[tag]
  BY <1>2 DEF get_full_size_of_AST, get_field_size_of_AST, imv, basicblock
<1>4. Leads(Ref(v, AST_pointer))'
  <2>1. \E o \in objects' : o.addr = v
    OBVIOUS
  <2>2. Ref(v, AST_pointer).val = v /\ Ref(v, AST_pointer).type = AST_pointer
    BY Refs
  <2> QED
    BY <1>1, <2>1, <2>2, Tags DEF Leads, IsHeapType, never_reached, type_pointer, integer, function_pointer, AST_pointer, Ref
<1>5. Targets(Ref(v, AST_pointer))' = {Ref(Word(v + i)', AST_pointer) : i \in 1 .. ASTFields[Word(v)']}
  BY <1>1, <1>4, ASTLeadsNext
<1>6. Targets(Ref(v, AST_pointer))' \subseteq H
  BY <1>5
<1>7. IsTag(Word(v))'
  BY DEF IsTag, imv, basicblock
<1>8. (Word(v)' = imv => "imv" \in Menu) /\ (Word(v)' = basicblock => Word(v + 1)' # 0 /\ "basicblock" \in Menu)
  BY <1>1
<1> QED
  BY <1>1, <1>3, <1>6, <1>7, <1>8, ASTFits

\* Copying an AST with fields keeps the world.
LEMMA CopyASTStep ==
    ASSUME HeapInv, Typings, NEW G, NEW rk, World(G, rk), copy_AST
    PROVE  ProgramInv'
<1>1. PICK tag \in DOMAIN ASTFields : NewCopy(tag)
  BY DEF copy_AST
<1>2. PICK a, size : a = Original /\ size = get_full_size_of_AST(tag)
  OBVIOUS
<1>3. /\ Copying /\ a # 0 /\ Ref(a, AST_pointer) \in G /\ Word(a) = tag /\ Word(Original) = tag
      /\ a \in 1 .. special_value
  BY <1>1, <1>2, NewCopyIn
<1>4. PICK k \in BestFit(free_memory, size) :
           /\ AllocateAt(size, k)
           /\ Deliver(Write(mem, k.addr, WordsAt(a, size)), k.addr, [i \in 1 .. size - 1 |-> k.addr + i])
  BY <1>2, <1>3 DEF copy_AST
<1>5. /\ ASTFields[tag] \in Nat /\ size = 1 + ASTFields[tag] /\ size \in Nat \ {0}
      /\ \A i \in 1 .. ASTFields[tag] : Ref(Word(a + i), AST_pointer) \in G
  BY <1>2, <1>3, ASTOfWorld
<1>6. PICK words, v, m, fields :
        /\ words = WordsAt(a, size) /\ v = k.addr /\ m = Write(mem, k.addr, words)
        /\ fields = [i \in 1 .. ASTFields[tag] |-> v + i]
  OBVIOUS
<1>7. words \in Seq(0 .. special_value) /\ Len(words) = size /\ \A i \in 1 .. size : words[i] = Word(a + i - 1)
  <2>1. MemTyped
    BY DEF Typings
  <2> QED
    BY <1>5, <1>6, <2>1, WordsAtFacts
<1>8. OneNew(G, k, size, words, m)
  <2>1. Len(words) <= size
    BY <1>5, <1>7
  <2> QED
    BY <1>4, <1>5, <1>6, <1>7, <2>1, NewOne
<1>9. /\ HeapInv' /\ phase' = "program" /\ m \in Memories /\ objects \subseteq objects'
      /\ [addr |-> v, size |-> size] \in objects'
      /\ \A r \in G : Solid(r) => r.val # v
      /\ v \in 1 .. special_value
      /\ \A i \in 1 .. size : WordIn(m, v + i - 1) = words[i]
      /\ \A w : WordIn(m, w) = Word(w) \/ \A o \in objects : w \notin Words(o)
      /\ \A o \in objects : \A w \in Words(o) : \A i \in 1 .. size : w # v + i - 1
  BY <1>6, <1>7, <1>8 DEF OneNew
<1>10. fields \in Seq(Nat) /\ Len(fields) = ASTFields[tag] /\ \A i \in 1 .. ASTFields[tag] : fields[i] = v + i
  <2>1. fields \in [1 .. ASTFields[tag] -> Nat] /\ \A i \in 1 .. ASTFields[tag] : fields[i] = v + i
    BY <1>5, <1>6, <1>9
  <2>2. fields \in Seq(Nat) /\ Len(fields) = ASTFields[tag]
    BY <1>5, <2>1, FunctionIsSeq
  <2> QED
    BY <2>1, <2>2
<1>11. DeliveryOf(G, m, v, fields)
  <2>1. size - 1 = ASTFields[tag]
    BY <1>5
  <2>2. Deliver(m, v, fields)
    BY <1>4, <1>6, <2>1
  <2>3. v \in 0 .. special_value
    BY <1>9, Sizes
  <2> QED
    BY <1>3, <1>9, <1>10, <2>2, <2>3 DEF DeliveryOf
<1>12. PICK D : Delivered(G, rk, D, m, v)
  BY <1>11, DeliveryMoves
<1>13. MemTyped' /\ \A w : (\A o \in objects : w \notin Words(o)) => Word(w)' = WordIn(m, w)
  BY <1>12 DEF Delivered
<1>14. \A i \in 1 .. size : Word(v + i - 1)' = Word(a + i - 1)
  BY <1>7, <1>9, <1>13
<1>15. Word(v)' = tag
  <2>1. 1 \in 1 .. size /\ v + 1 - 1 = v /\ a + 1 - 1 = a
    BY <1>3, <1>5, <1>9
  <2> QED
    BY <1>3, <1>14, <2>1
<1>16. \A i \in 1 .. ASTFields[tag] : Ref(Word(v + i)', AST_pointer) \in G
  <2> SUFFICES ASSUME NEW i \in 1 .. ASTFields[tag] PROVE Ref(Word(v + i)', AST_pointer) \in G
    OBVIOUS
  <2>1. PICK j : j = i + 1
    OBVIOUS
  <2>2. j \in 1 .. size /\ v + j - 1 = v + i /\ a + j - 1 = a + i
    BY <1>3, <1>5, <1>9, <2>1
  <2>3. Word(v + i)' = Word(a + i)
    BY <1>14, <2>2
  <2> QED
    BY <1>5, <2>3
<1> DEFINE q == Ref(v, AST_pointer)
           N == {q}
<1>17. N \in SUBSET Reference /\ q.val = v /\ q.type = AST_pointer
  BY <1>9, Refs, Tags, Sizes
<1>18. Distinct(G, N) /\ \A r \in N : r.type # type_pointer
  BY <1>9, <1>17, Tags DEF Distinct
<1>19. \A r \in N : Fits(G \cup N, rk, r)' /\ OnMenu(r)'
  <2>1. PICK H : H = G \cup N
    OBVIOUS
  <2>2. \A i \in 1 .. ASTFields[tag] : Ref(Word(v + i)', AST_pointer) \in H
    BY <1>16, <2>1
  <2>3. [addr |-> v, size |-> 1 + ASTFields[tag]] \in objects'
    BY <1>5, <1>9
  <2>4. Fits(H, rk, Ref(v, AST_pointer))' /\ OnMenu(Ref(v, AST_pointer))'
    BY <1>9, <1>13, <1>15, <2>2, <2>3, CopiedASTFits
  <2> QED
    BY <2>1, <2>4
<1>20. \A j \in 1 .. Len(fields) : FieldOf(G \cup N, fields[j])'
  <2> SUFFICES ASSUME NEW j \in 1 .. Len(fields) PROVE FieldOf(G \cup N, fields[j])'
    OBVIOUS
  <2>1. PICK p : p = fields[j]
    OBVIOUS
  <2>2. j \in 1 .. ASTFields[tag] /\ p = v + j
    BY <1>10, <2>1
  <2>3. /\ q \in G \cup N /\ q.type = AST_pointer /\ q.val # 0 /\ Word(q.val)' \in DOMAIN ASTFields
        /\ \E i \in 1 .. ASTFields[Word(q.val)'] : p = q.val + i
    BY <1>9, <1>15, <1>17, <2>2
  <2>4. FieldOf(G \cup N, p)'
    <3> HIDE DEF q
    <3> QED
      BY <2>3 DEF FieldOf, AST_pointer
  <2> QED
    BY <2>1, <2>4 DEF FieldOf
<1>21. Ref(v, AST_pointer) \in G \cup N /\ Ref(v, AST_pointer) \in N /\ \A r \in N : r = q
  OBVIOUS
<1>22. \A r \in N : r.type # function_pointer
  BY <1>17, Tags
<1>23. CopyGiven(G, Original, v, fields, N)
  <2>1. \A i \in 1 .. Len(fields) : /\ fields[i] = v + i /\ Word(v + i)' = Word(a + i)
                                   /\ \A o \in objects : v + i \notin Words(o)
    <3> SUFFICES ASSUME NEW i \in 1 .. Len(fields)
                 PROVE  fields[i] = v + i /\ Word(v + i)' = Word(a + i) /\ \A o \in objects : v + i \notin Words(o)
      OBVIOUS
    <3> PICK j : j = i + 1
      OBVIOUS
    <3>1. j \in 1 .. size /\ v + j - 1 = v + i /\ a + j - 1 = a + i /\ i \in 1 .. ASTFields[tag]
      BY <1>3, <1>5, <1>9, <1>10
    <3>2. Word(v + j - 1)' = Word(a + j - 1) /\ \A o \in objects : v + j - 1 \notin Words(o)
      BY <1>9, <1>14, <3>1
    <3> QED
      BY <1>10, <3>1, <3>2
  <2>2. Word(a) # imv /\ Word(a) \in DOMAIN ASTFields /\ Word(v)' = Word(a) /\ Len(fields) = ASTFields[Word(a)]
    BY <1>3, <1>10, <1>15, CollectorAssumption, Tags
  <2>3. a \notin DOMAIN copier.copied /\ v \in Nat \ {0} /\ \A r \in G : Solid(r) => r.val # v
    BY <1>1, <1>2, <1>9, Sizes DEF NewCopy
  <2>4. Ref(v, AST_pointer) \in N /\ \A r \in N : r = Ref(v, AST_pointer)
    OBVIOUS
  <2> HIDE DEF N, q
  <2>5. NewMade(G, a, v, fields, N)
    BY <2>1, <2>2, <2>3, <2>4 DEF NewMade
  <2> QED
    BY <1>2, <2>5 DEF CopyGiven
<1> HIDE DEF N, q
<1> QED
  BY <1>11, <1>12, <1>17, <1>18, <1>19, <1>20, <1>21, <1>22, <1>23, DeliverySucceeds

\* Copying a basicblock keeps the world.
LEMMA CopyBasicblockStep ==
    ASSUME HeapInv, Typings, NEW G, NEW rk, World(G, rk), copy_basicblock
    PROVE  ProgramInv'
<1>1. NewCopy(basicblock)
  BY DEF copy_basicblock
<1>2. PICK a, fields, size, t :
        /\ a = Original /\ fields = Elements(Word(a + 1)) /\ size = VectorSize(fields) /\ t = type_roots[1]
  OBVIOUS
<1>3. Copying /\ a # 0 /\ Ref(a, AST_pointer) \in G /\ Word(a) = basicblock /\ a \in 1 .. special_value
  BY <1>1, <1>2, NewCopyIn
<1>4. PICK k \in BestFit(free_memory, 2) :
           \E l \in BestFit(Taken(free_memory, k, 2), size) :
               /\ AllocateTwoAt(2, k, size, l)
               /\ Deliver(Write(Write(mem, k.addr, <<basicblock, l.addr>>),
                                l.addr, VectorWords(fields)), k.addr, <<>>)
  BY <1>2 DEF copy_basicblock
<1>5. PICK l \in BestFit(Taken(free_memory, k, 2), size) :
               /\ AllocateTwoAt(2, k, size, l)
               /\ Deliver(Write(Write(mem, k.addr, <<basicblock, l.addr>>),
                                l.addr, VectorWords(fields)), k.addr, <<>>)
  BY <1>4
<1>6. Word(a + 1) # 0 /\ Ref(Word(a + 1), t) \in G /\ "basicblock" \in Menu
  BY <1>2, <1>3, BasicblockOfWorld
<1>7. PICK s, n : s = Word(a + 1) /\ n = Word(s)
  OBVIOUS
<1>8. /\ fields \in Seq(0 .. special_value) /\ Len(fields) = n /\ n \in Nat
      /\ \A i \in 1 .. n : Ref(fields[i], AST_pointer) \in G
  <2>1. s # 0 /\ Ref(s, t) \in G /\ fields = Elements(s)
    BY <1>2, <1>6, <1>7
  <2>2. fields \in Seq(0 .. special_value) /\ Len(fields) = Word(s) /\ \A i \in 1 .. Word(s) : Ref(fields[i], AST_pointer) \in G
    BY <1>2, <2>1, ElementsIn
  <2>3. Word(s) \in Nat
    BY <1>2, <2>1, VectorOfWorld
  <2> QED
    BY <1>7, <2>2, <2>3
<1>9. PICK m, b, v, none : /\ m = Write(Write(mem, k.addr, <<basicblock, l.addr>>), l.addr, VectorWords(fields))
                           /\ b = k.addr /\ v = l.addr /\ none = <<>>
  OBVIOUS
<1>10. BasicblockNew(G, n, fields, k, size, l, m)
  BY <1>2, <1>5, <1>8, <1>9, BasicblockWords
<1>11. /\ HeapInv' /\ phase' = "program" /\ m \in Memories /\ objects \subseteq objects'
       /\ \A r \in G : Solid(r) => r.val # b /\ r.val # v
       /\ b \in 1 .. special_value /\ v \in 1 .. special_value /\ b # v
       /\ WordIn(m, b) = basicblock /\ WordIn(m, b + 1) = v
       /\ WordIn(m, v) = n /\ \A i \in 1 .. n : WordIn(m, v + 1 + i) = fields[i]
       /\ \A w : WordIn(m, w) = Word(w) \/ \A o \in objects : w \notin Words(o)
       /\ \A o \in objects : \A w \in Words(o) : \A i \in 1 .. 2 : w # b + i - 1
       /\ \A o \in objects : \A w \in Words(o) : \A i \in 1 .. size : w # v + i - 1
       /\ [addr |-> b, size |-> 2] \in objects'
       /\ \E res \in Nat : /\ n < res /\ WordIn(m, v + 1) = res /\ size = 2 + res
                           /\ [addr |-> v, size |-> 2 + res] \in objects'
  BY <1>9, <1>10 DEF BasicblockNew
<1>12. PICK res \in Nat : /\ n < res /\ WordIn(m, v + 1) = res /\ size = 2 + res
                          /\ [addr |-> v, size |-> 2 + res] \in objects'
  BY <1>11
<1>13. none \in Seq(Nat) /\ Len(none) = 0
  BY <1>9
<1>14. DeliveryOf(G, m, b, none)
  <2>1. b \in 0 .. special_value /\ Deliver(m, b, none)
    BY <1>5, <1>9, <1>11, Sizes
  <2> QED
    BY <1>3, <1>11, <1>13, <2>1 DEF DeliveryOf
<1>15. PICK D : Delivered(G, rk, D, m, b)
  BY <1>14, DeliveryMoves
<1>16. MemTyped' /\ Moves(G, D) /\ \A w : (\A o \in objects : w \notin Words(o)) => Word(w)' = WordIn(m, w)
  BY <1>15 DEF Delivered
<1>17. Word(b)' = basicblock /\ Word(b + 1)' = v
  <2>1. 1 \in 1 .. 2 /\ 2 \in 1 .. 2 /\ b + 1 - 1 = b /\ b + 2 - 1 = b + 1
    BY <1>11
  <2>2. \A o \in objects : b \notin Words(o) /\ b + 1 \notin Words(o)
    BY <1>11, <2>1
  <2> QED
    BY <1>11, <1>16, <2>2
<1>18. \A i \in 1 .. size : Word(v + i - 1)' = WordIn(m, v + i - 1)
  BY <1>11, <1>16
<1>19. /\ Word(v)' = n /\ Word(v + 1)' = res
       /\ \A i \in 1 .. n : Ref(Word(v + 1 + i)', AST_pointer) \in G
  <2>1. 1 \in 1 .. size /\ 2 \in 1 .. size /\ v + 1 - 1 = v /\ v + 2 - 1 = v + 1
    BY <1>11, <1>12
  <2>2. Word(v)' = n /\ Word(v + 1)' = res
    BY <1>11, <1>12, <1>18, <2>1
  <2>3. ASSUME NEW i \in 1 .. n PROVE Ref(Word(v + 1 + i)', AST_pointer) \in G
    <3>1. i + 2 \in 1 .. size /\ v + (i + 2) - 1 = v + 1 + i
      BY <1>8, <1>11, <1>12
    <3>2. Word(v + 1 + i)' = WordIn(m, v + 1 + i)
      BY <1>18, <3>1
    <3>3. Word(v + 1 + i)' = fields[i]
      BY <1>11, <3>2
    <3> QED
      BY <1>8, <3>3
  <2> QED
    BY <2>2, <2>3
<1>20. t = type_roots'[1] /\ t \in 0 .. special_value /\ t # type_pointer
  <2>1. type_roots' = type_roots
    BY <1>5 DEF Deliver
  <2> QED
    BY <1>2, <2>1, RootType
<1> DEFINE p == Ref(b, AST_pointer)
           q == Ref(v, t)
           N == {p, q}
<1>21. N \in SUBSET Reference /\ p.val = b /\ q.val = v /\ p.type = AST_pointer /\ q.type = t
  BY <1>11, <1>20, Refs, Tags, Sizes
<1>22. Distinct(G, N) /\ \A r \in N : r.type # type_pointer
  BY <1>11, <1>20, <1>21, Tags DEF Distinct
<1>23. \A r \in N : Fits(G \cup N, rk, r)' /\ OnMenu(r)'
  <2>1. PICK H : H = G \cup N
    OBVIOUS
  <2>2. G \subseteq H /\ Ref(v, t) \in H /\ n <= res
    BY <1>8, <1>12, <2>1
  <2>3. /\ Fits(H, rk, Ref(v, t))' /\ OnMenu(Ref(v, t))'
        /\ Fits(H, rk, Ref(b, AST_pointer))' /\ OnMenu(Ref(b, AST_pointer))'
    BY <1>2, <1>6, <1>8, <1>11, <1>12, <1>16, <1>17, <1>19, <1>20, <2>2, BasicblockFits
  <2> QED
    BY <2>1, <2>3
<1>24. Ref(b, AST_pointer) \in G \cup N /\ \A j \in 1 .. Len(none) : FieldOf(G \cup N, none[j])'
  BY <1>13
<1>25. (\A r \in N : r.type # function_pointer) /\ \A r \in N : r.type # type_pointer
  BY <1>2, <1>20, <1>21, RootType, Tags
<1> HIDE DEF N, p, q
<1> QED
  BY <1>6, <1>14, <1>15, <1>21, <1>22, <1>23, <1>24, <1>25, DeliverySucceeds

------------------------------------------------------------------------------
(* The start *)

\* The nulls and the types without fields lead nowhere.
LEMMA BaseIsSound ==
    ASSUME NEW rk, NEW r \in Base
    PROVE  /\ r \in Reference /\ r.type \in FieldlessTypes /\ ~ IsHeapType(r.type) /\ ~ Solid(r) /\ ~ Leading(r)
           /\ r.type = function_pointer => r.val = 0
           /\ r.type = type_pointer => ~ IsHeapType(r.val)
           /\ Sound(rk, r)' /\ OnMenu(r)' /\ Targets(r)' = {}
<1>1. \/ \E t \in FieldlessTypes : r = Ref(0, t)
      \/ \E t \in FieldlessTypes : r = Ref(t, type_pointer)
  BY DEF Base
<1>2. /\ r.type \in FieldlessTypes
      /\ r.val = 0 \/ (r.type = type_pointer /\ r.val \in FieldlessTypes)
      /\ r \in Reference
  <2>1. ASSUME NEW t \in FieldlessTypes, r = Ref(0, t) PROVE r.val = 0 /\ r.type = t /\ r \in Reference
    BY <2>1, Refs, Tags, Sizes
  <2>2. ASSUME NEW t \in FieldlessTypes, r = Ref(t, type_pointer)
        PROVE r.val = t /\ r.type = type_pointer /\ r \in Reference /\ type_pointer \in FieldlessTypes
    BY <2>2, Refs, Tags, Sizes
  <2> QED
    BY <1>1, <2>1, <2>2
<1>3. ~ IsHeapType(r.type) /\ ~ Solid(r) /\ ~ Leading(r)
  BY <1>2, Tags DEF Solid, Leading
<1>4. r.type = function_pointer => r.val = 0
  BY <1>2, Tags
<1>5. r.type = type_pointer => ~ IsHeapType(r.val) /\ (r.val = 0 \/ r.val \in FieldlessTypes)
  BY <1>2, Tags
<1>6. ~ Leads(r)'
  BY <1>3, LeadsNext DEF Leading, integer, type_pointer, IsHeapType, never_reached
<1>7. Targets(r)' = {}
  BY <1>6, NowhereNext
<1>8. Sound(rk, r)'
  BY <1>2, <1>3, <1>4, <1>5 DEF Sound, OneWord, Solid, FieldlessTypes, IsHeapType, never_reached,
     integer, dynamic_object, AST_pointer, type_pointer, function_pointer
<1>9. OnMenu(r)'
  BY <1>3, <1>4 DEF OnMenu, Solid, IsHeapType, never_reached, integer, AST_pointer, type_pointer, function_pointer
<1> QED
  BY <1>2, <1>3, <1>4, <1>5, <1>7, <1>8, <1>9

\* Without functions and without a copier there is nothing to guard.
LEMMA NothingGuarded ==
    \A G : copier = NoCopy /\ (\A r \in G : ~ (r.type = function_pointer /\ r.val # 0)) => Guarded(G)
<1> SUFFICES ASSUME NEW G, copier = NoCopy, \A r \in G : ~ (r.type = function_pointer /\ r.val # 0)
             PROVE  Guarded(G)
  OBVIOUS
<1>1. CodeEmpty(G)
  BY DEF CodeEmpty
<1>2. Copies = {}
  BY DEF Copies
<1>3. PICK P : P = {}
  OBVIOUS
<1>4. Guard(G, P)
  BY <1>2, <1>3 DEF Guard, FieldsClosed, CopierGuard
<1> QED
  BY <1>1, <1>4 DEF Guarded

\* The same, in the next state.
LEMMA NothingGuardedNext ==
    (\A G : copier = NoCopy /\ (\A r \in G : ~ (r.type = function_pointer /\ r.val # 0)) => Guarded(G))'
BY NothingGuarded, PTL

\* The roots of a program that has a type of the vectors of ASTs.
LEMMA InitializeStep ==
    ASSUME HeapInv, Typings, Fresh, initialize
    PROVE  ProgramInv'
<1>1. PICK k \in BestFit(free_memory, 2) :
        /\ AllocateAt(2, k)
        /\ mem' = Write(mem, k.addr, TypeWords(vector, <<AST_pointer>>))
        /\ type_roots' = <<k.addr>>
        /\ type_hash_table' = type_hash_table \cup {k.addr}
  BY DEF initialize
<1>2. UNCHANGED <<event_roots, functionVars, traceVars, copier, held, error>>
  BY DEF initialize
<1>3. PICK n, subs, words, m : /\ n = k.addr /\ subs = <<AST_pointer>> /\ words = TypeWords(vector, subs) /\ m = mem'
  OBVIOUS
<1>4. HeapInv' /\ phase' = "program" /\ Issued(k, 2) \in Block /\ objects' = objects \cup {Issued(k, 2)}
  BY <1>1, AllocateAtStep
<1>5. Issued(k, 2) = [addr |-> n, size |-> 2] /\ objects' = {[addr |-> n, size |-> 2]}
  BY <1>3, <1>4 DEF Issued, Fresh
<1>6. n \in Nat /\ n >= big_memory_pool /\ n + 2 <= PoolEnd
  <2>1. PICK b : b = Issued(k, 2)
    OBVIOUS
  <2>2. b \in Block /\ b.addr = n /\ b.size = 2
    BY <1>4, <1>5, <2>1
  <2> QED
    BY <2>2, BlockFacts
<1>7. IsHeapType(n) /\ n \in 1 .. special_value /\ n # 0 /\ n \notin FieldlessTypes
  BY <1>6, Sizes, Tags
<1>8. vector \in TypeTags /\ Arity(vector) = 1 /\ vector # con_vec /\ AST_pointer \in FieldlessTypes /\ AST_pointer \in Nat
  BY Tags DEF TypeTags, Arity
<1>9. subs \in [1 .. Arity(vector) -> 0 .. special_value] /\ subs \in [1 .. Arity(vector) -> Nat] /\ subs[1] = AST_pointer
      /\ Range(subs) = {AST_pointer} /\ subs # <<>>
  <2>1. AST_pointer \in 0 .. special_value
    BY Tags, Sizes
  <2>2. subs \in [1 .. 1 -> 0 .. special_value] /\ subs \in [1 .. 1 -> Nat] /\ subs[1] = AST_pointer
    BY <1>3, <1>8, <2>1
  <2>3. Range(subs) = {AST_pointer}
    BY <2>2 DEF Range
  <2>4. subs # <<>>
    <3>1. Len(subs) = 1
      BY <1>3
    <3> QED
      BY <3>1
  <2>5. subs \in [1 .. Arity(vector) -> 0 .. special_value] /\ subs \in [1 .. Arity(vector) -> Nat]
    BY <1>8, <2>2, Zenon
  <2> QED
    BY <2>2, <2>3, <2>4, <2>5
<1>10. words \in Seq(0 .. special_value) /\ Len(words) = 2 /\ words[1] = vector /\ words[2] = AST_pointer
  <2> DEFINE V == 0 .. special_value
  <2>1. 2 \in V /\ vector \in V /\ subs \in [1 .. Arity(vector) -> V]
    BY <1>9, Sizes, Tags
  <2> HIDE DEF V
  <2>2. MadeWords(V, vector, subs, words)
    BY <1>3, <1>8, <2>1, WordsMade
  <2> QED
    BY <1>8, <1>9, <2>2 DEF MadeWords, V
<1>11. mem \in Memories
  BY DEF Typings, MemTyped, Memories
<1>12. m \in Memories /\ WordIn(m, n) = vector /\ WordIn(m, n + 1) = AST_pointer
  <2>1. PICK b : b = Issued(k, 2)
    OBVIOUS
  <2>2. b \in Block /\ b.addr = n /\ b.size = 2 /\ m = Write(mem, b.addr, words)
    BY <1>1, <1>3, <1>4, <1>5, <2>1
  <2>3. m \in Memories /\ \A i \in 1 .. Len(words) : WordIn(m, b.addr + i - 1) = words[i]
    <3>1. Len(words) <= b.size
      BY <1>10, <2>2
    <3> QED
      BY <1>10, <1>11, <2>2, <3>1, WriteIn
  <2>4. 1 \in 1 .. Len(words) /\ 2 \in 1 .. Len(words) /\ n + 1 - 1 = n /\ n + 2 - 1 = n + 1
    BY <1>6, <1>10
  <2> QED
    BY <1>10, <2>2, <2>3, <2>4
<1>13. MemTyped' /\ Word(n)' = vector /\ Word(n + 1)' = AST_pointer
  BY <1>3, <1>12, TypedNext, WordOfNext
<1>14. ver(n)' = vector /\ Subtypes(n)' = subs /\ Extent(Ref(n, type_pointer))' = 2
  <2>1. WordsMake(n, vector, subs)'
    BY <1>8, <1>9, <1>13 DEF WordsMake, con_vec
  <2>2. MadeAs(n, vector, subs, 2)'
    BY <1>6, <1>7, <1>8, <1>9, <1>13, <2>1, WordsMakeTypeNext DEF IsHeapType, never_reached, con_vec
  <2> QED
    BY <2>2 DEF MadeAs
<1>15. PICK rk : rk = [t \in Nat |-> 0]
  OBVIOUS
<1>99. PICK q, G : q = Ref(n, type_pointer) /\ G = Base \cup {q}
  OBVIOUS
<1>98. q \in G /\ Base \subseteq G /\ \A r \in G : r \in Base \/ r = q
  BY <1>99
<1>16. q.val = n /\ q.type = type_pointer /\ q \in Reference /\ Solid(q) /\ ~ IsHeapType(type_pointer)
  BY <1>7, <1>99, Refs, Tags, Sizes DEF Solid
<1>17. \A r \in G : r # q => r \in Reference /\ ~ IsHeapType(r.type) /\ ~ Solid(r)
  BY <1>98, BaseIsSound
<1>71. \A r \in G : r # q => (r.type = function_pointer => r.val = 0)
  BY <1>98, BaseIsSound
<1>72. \A r \in G : r # q => (r.type = type_pointer => ~ IsHeapType(r.val))
  BY <1>98, BaseIsSound
<1>73. \A r \in G : r # q => Sound(rk, r)'
  BY <1>98, BaseIsSound
<1>74. \A r \in G : r # q => OnMenu(r)'
  BY <1>98, BaseIsSound
<1>75. \A r \in G : r # q => Targets(r)' = {}
  BY <1>98, BaseIsSound
<1>18. Leads(q)'
  <2>1. \E o \in objects' : o.addr = n
    BY <1>5
  <2> QED
    BY <1>7, <1>16, <2>1, Tags DEF Leads, IsHeapType, never_reached, type_pointer, integer, function_pointer
<1>19. Targets(q)' = {Ref(AST_pointer, type_pointer)}
  <2>1. Targets(q)' = {Ref(u, type_pointer) : u \in Range(Subtypes(n)')}
    BY <1>16, <1>18, TargetsByKindNext DEF Ref, type_pointer
  <2> QED
    BY <1>9, <1>14, <2>1
<1>20. Ref(AST_pointer, type_pointer) \in Base
  BY <1>8 DEF Base
<1>21. OneWord(type_pointer)' /\ OneWord(AST_pointer)'
  BY DEF OneWord, FieldlessTypes, integer, dynamic_object, AST_pointer, type_pointer, function_pointer
<1>22. MadeType(rk, n)'
  <2>1. \A u \in Range(subs) : OneWord(u)' /\ ~ IsHeapType(u)
    <3>1. ~ IsHeapType(AST_pointer)
      BY Tags
    <3> QED
      BY <1>9, <1>21, <3>1 DEF AST_pointer
  <2> QED
    BY <1>9, <1>14, <2>1 DEF MadeType, con_vec, vector, pointer, IsHeapType, never_reached
<1>23. Sound(rk, q)'
  <2>1. BlockOf(q)' \in objects'
    <3>1. Extent(q)' = 2
      BY <1>14, <1>99 DEF Ref, type_pointer
    <3> QED
      BY <1>5, <1>16, <3>1 DEF BlockOf
  <2> QED
    BY <1>7, <1>16, <1>21, <1>22, <2>1 DEF Sound, SoundObject, IsHeapType, never_reached, type_pointer, AST_pointer,
       dynamic_object, function_pointer, vector
<1>24. OnMenu(q)'
  BY <1>16 DEF OnMenu, type_pointer, AST_pointer, function_pointer
<1>25. Root'
  <2>1. DOMAIN type_roots' = {1} /\ type_roots'[1] = n
    BY <1>1, <1>3
  <2>2. (type_roots[1])' = n
    BY <2>1
  <2> QED
    BY <1>3, <1>7, <1>14, <2>1, <2>2 DEF Root, IsHeapType, never_reached, vector, AST_pointer, Subtypes, ver, Word
<1>26. Shape(G, rk)'
  <2>1. G \subseteq Reference /\ Base \subseteq G /\ rk \in [Nat -> Nat]
    BY <1>15, <1>16, <1>17, <1>98, <1>99
  <2>2. Closed(G)'
    <3>1. \A r \in G : Targets(r)' \subseteq G /\ ~ IsHeapType(r.type)
      BY <1>16, <1>17, <1>19, <1>20, <1>75, <1>98
    <3> QED
      BY <3>1 DEF Closed, IsHeapType, never_reached
  <2>3. ASTsKept(G)'
    <3>1. \A r \in G : ~ (r.type = function_pointer /\ r.val # 0)
      BY <1>16, <1>71, <1>98, Tags
    <3> QED
      BY <3>1 DEF ASTsKept, function_pointer
  <2>4. \A r \in G : Sound(rk, r)'
    BY <1>73, <1>23, <1>98
  <2>5. \A r, p \in G : Solid(r) /\ Solid(p) => r = p
    BY <1>17, <1>98
  <2>6. Ref((type_roots[1])', type_pointer) \in G
    BY <1>1, <1>3, <1>98, <1>99
  <2> QED
    BY <1>25, <2>1, <2>2, <2>3, <2>4, <2>5, <2>6 DEF Shape, Base, Reference, Solid, IsHeapType, never_reached, Ref,
       type_pointer, FieldlessTypes, integer, dynamic_object, AST_pointer, function_pointer
<1>27. AllOnMenu(G)'
  <2>1. \A r \in G : OnMenu(r)'
    BY <1>74, <1>24, <1>98
  <2> QED
    BY <2>1 DEF AllOnMenu
<1>28. HeapTypes(G)' = {n}
  <2>1. HeapTypes(G) = {n}
    <3>1. \A t \in Nat : Ref(t, type_pointer).val = t /\ Ref(t, type_pointer).type = type_pointer
      BY Refs
    <3>2. \A t \in Nat : IsHeapType(t) /\ Ref(t, type_pointer) \in G => t = n
      BY <1>16, <1>72, <1>98, <1>99, <3>1
    <3>3. n \in HeapTypes(G)
      BY <1>6, <1>7, <1>98, <1>99 DEF HeapTypes
    <3> QED
      BY <3>2, <3>3 DEF HeapTypes
  <2> QED
    BY <2>1 DEF HeapTypes, IsHeapType, never_reached, Ref, type_pointer
<1>29. TypesApart(G)'
  <2> QED
    BY <1>28 DEF TypesApart
<1>30. Tabled(G)'
  <2>1. type_hash_table' = FieldlessTypes \cup {n}
    BY <1>1, <1>3 DEF Fresh
  <2>2. Range(Subtypes(n)') \subseteq type_hash_table'
    BY <1>8, <1>9, <1>14, <2>1
  <2> QED
    BY <1>28, <2>1, <2>2 DEF Tabled, Range, FieldlessTypes, integer, dynamic_object, AST_pointer, type_pointer, function_pointer
<1>31. CopierIn(G)' /\ Guarded(G)'
  <2>1. copier' = NoCopy
    BY <1>2 DEF Fresh
  <2>2. \A r \in G : ~ (r.type = function_pointer /\ r.val # 0)
    BY <1>16, <1>71, <1>98, Tags
  <2>3. Guarded(G)'
    BY <2>1, <2>2, NothingGuardedNext DEF NoCopy, function_pointer
  <2> QED
    BY <2>1, <2>3 DEF CopierIn, NoCopy
<1>32. RootRefs' \cup held' \subseteq G
  <2>1. event_roots' = <<>> /\ held' = {} /\ type_roots' = <<n>>
    BY <1>1, <1>2, <1>3 DEF Fresh
  <2>2. RootRefs' = {q}
    BY <1>99, <2>1 DEF RootRefs, Ref, type_pointer
  <2> QED
    BY <1>98, <2>1, <2>2
<1>33. World(G, rk)'
  <2> QED
    BY <1>26, <1>27, <1>29, <1>30, <1>31, <1>32 DEF World
<1>34. Typings'
  <2>1. type_roots' \in Seq(Nat) /\ event_roots' \in Seq(Slots) /\ type_hash_table' \subseteq Nat
    <3>1. FieldlessTypes \subseteq Nat
      BY Tags
    <3>2. type_roots' = <<n>> /\ event_roots' = event_roots /\ type_hash_table' = FieldlessTypes \cup {n}
      BY <1>1, <1>2, <1>3 DEF Fresh
    <3>3. type_roots' \in Seq(Nat)
      BY <1>6, <3>2
    <3>4. event_roots' \in Seq(Slots)
      BY <3>2 DEF Typings
    <3> QED
      BY <1>6, <3>1, <3>2, <3>3, <3>4
  <2>2. FunctionTypings' /\ Flagged(function_pool_flags)' = Flagged(function_pool_flags)
    BY <1>2, FunctionsStay DEF Typings
  <2>3. TraceTypings' /\ Flagged(sweep_function_pool_flags)' = Flagged(sweep_function_pool_flags)
    BY <1>2 DEF Typings, TraceTypings, traceVars, Masks, Flagged, Bit, Slots, Blocks
  <2> QED
    BY <1>2, <1>13, <2>1, <2>2, <2>3 DEF Typings, Reference
<1> QED
  BY <1>4, <1>33, <1>34 DEF ProgramInv
==============================================================================
