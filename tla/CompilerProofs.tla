--------------------------- MODULE CompilerProofs ---------------------------
(***************************************************************************)
(* Theorems about modules TypeCheck and Compiler: for all graphs of ASTs,  *)
(* all types in their imvs and all constants.                              *)
(*                                                                         *)
(* The inductive invariant Inv(S) speaks of a set S of types, closed under *)
(* taking types apart, that all values are of; S grows with the types that *)
(* are made. A step either leaves the last frame, or leaves the frames     *)
(* where they are, or begins one (OneStep): that such steps keep Inv is    *)
(* proved once for each kind, that each action is such a step once for     *)
(* each action.                                                            *)
(***************************************************************************)
EXTENDS Compiler, TLAPS, SequenceTheorems

-----------------------------------------------------------------------------
(* Types *)

\* The types without fields by their names.
LEMMA Names ==
    /\ does_not_return[1] = "does not return" /\ does_not_return # null
    /\ integer[1] = "integer" /\ integer # null
    /\ dynamic_object[1] = "dynamic object" /\ dynamic_object # null
    /\ type_pointer[1] = "type pointer" /\ type_pointer # null
    /\ AST_pointer[1] = "AST pointer" /\ AST_pointer # null
    /\ function_pointer[1] = "function pointer" /\ function_pointer # null
    /\ pointer_to_something[1] = "pointer to something" /\ pointer_to_something # null
    /\ vector_of_something[1] = "vector of something" /\ vector_of_something # null
BY DEF null, does_not_return, integer, dynamic_object, type_pointer,
   AST_pointer, function_pointer, pointer_to_something, vector_of_something

\* A type made of something has a kind of its own and one thing inside.
LEMMA CompoundType ==
    ASSUME NEW kind \in Compound, NEW inside
    PROVE  LET t == <<kind, inside>> IN
           /\ t # null /\ ver(t) = kind /\ Target(t) = inside
           /\ t \notin Fieldless
           /\ ver(t) # "con_vec" /\ Components(t) = <<t>> /\ get_size(t) = 1
<1> DEFINE t == <<kind, inside>>
<1>1. t # null /\ t[1] = kind /\ t[2] = inside
  BY DEF null
<1>2. ver(t) = kind /\ Target(t) = inside
  BY <1>1 DEF ver, Target
<1>3. ver(t) # "con_vec"
  BY <1>2 DEF Compound
<1>4. \A u \in Fieldless : u = null \/ u[1] \notin Compound
  BY Names DEF Fieldless, Compound
<1>5. t \notin Fieldless
  BY <1>1, <1>4
<1>6. Components(t) = <<t>>
  BY <1>3 DEF Components
<1>7. t # does_not_return
  BY <1>5 DEF Fieldless
<1>8. get_size(t) = 1
  BY <1>6, <1>7 DEF get_size
<1> QED
  BY <1>1, <1>2, <1>3, <1>5, <1>6, <1>8

\* A type without fields is its own only component, or empty.
LEMMA FieldlessType ==
    ASSUME NEW t \in Fieldless, t # null
    PROVE  /\ ver(t) # "con_vec" /\ ver(t) \notin Compound
           /\ Components(t) = <<t>>
           /\ get_size(t) = IF t = does_not_return THEN 0 ELSE 1
<1>1. ver(t) # "con_vec" /\ ver(t) \notin Compound
  BY Names DEF Fieldless, Compound, ver
<1>2. Components(t) = <<t>>
  BY <1>1 DEF Components
<1> QED
  BY <1>1, <1>2 DEF get_size

\* A structure: its components are words of the same set, and there are two or more.
LEMMA StructureType ==
    ASSUME NEW S, NEW t, t # null, t = <<"con_vec">> \o Tail(t), Tail(t) \in Seq(S),
           Len(Tail(t)) > 1
    PROVE  /\ ver(t) = "con_vec" /\ t # does_not_return /\ t \notin Fieldless
           /\ Components(t) = Tail(t) /\ get_size(t) = Len(Tail(t))
           /\ Len(t) = Len(Tail(t)) + 1
           /\ \A i \in 2 .. Len(t) : t[i] = Tail(t)[i - 1]
<1> DEFINE c == Tail(t)
<1>1. /\ c \in Seq(S \cup {"con_vec"}) /\ <<"con_vec">> \in Seq(S \cup {"con_vec"})
      /\ Len(<<"con_vec">>) = 1 /\ <<"con_vec">>[1] = "con_vec"
  BY SeqMonotonic
<1>2. /\ Len(t) = 1 + Len(c)
      /\ \A i \in 1 .. 1 + Len(c) : t[i] = IF i <= 1 THEN <<"con_vec">>[i] ELSE c[i - 1]
  <2> HIDE DEF c
  <2> DEFINE h == <<"con_vec">>
  <2>1. t = h \o c
    BY DEF c
  <2>2. h \in Seq(S \cup {"con_vec"}) /\ c \in Seq(S \cup {"con_vec"}) /\ Len(h) = 1
    BY <1>1
  <2> HIDE DEF h
  <2>3. /\ Len(h \o c) = Len(h) + Len(c)
        /\ \A i \in 1 .. Len(h) + Len(c) :
              (h \o c)[i] = IF i <= Len(h) THEN h[i] ELSE c[i - Len(h)]
    BY <2>2, ConcatProperties
  <2> QED
    BY <2>1, <2>2, <2>3 DEF h
<1>3. Len(c) \in Nat
  BY LenProperties
<1>4. t[1] = "con_vec"
  BY <1>1, <1>2, <1>3
<1>5. ver(t) = "con_vec" /\ t # does_not_return
  BY <1>4, Names DEF ver
<1>6. t \notin Fieldless
  BY <1>5, FieldlessType
<1>7. Components(t) = c /\ get_size(t) = Len(c)
  BY <1>5 DEF Components, get_size
<1> QED
  BY <1>2, <1>3, <1>5, <1>6, <1>7
\* What every type of a closed set is like, whichever way it was made.
LEMMA TypeFacts ==
    ASSUME NEW S, IsClosed(S), NEW t \in S
    PROVE  /\ Components(t) \in Seq(S)
           /\ get_size(t) = IF t = does_not_return THEN 0 ELSE Len(Components(t))
           /\ t = null <=> Components(t) = <<>>
           /\ ver(t) = "con_vec" /\ t # null => Len(t) = Len(Components(t)) + 1 /\ Len(t) > 2
           /\ ver(t) # "con_vec" => Components(t) = <<t>>
           /\ \A i \in 1 .. Len(Components(t)) :
                 /\ ver(Components(t)[i]) # "con_vec"
                 /\ t # does_not_return => IsWord(Components(t)[i])
                 /\ ver(t) = "con_vec" => Components(t)[i] = t[i + 1]
           /\ ver(t) \in Compound =>
                 /\ Target(t) \in S
                 /\ ver(t) = "vector" => IsWord(Target(t))
           /\ ver(t) = "integer" => t = integer
<1>0. MadeFrom(S, t)
  BY DEF IsClosed
<1>1. CASE t = null
  <2>1. ver(t) = "con_vec" /\ Components(t) = <<>> /\ t # does_not_return
    BY <1>1, Names DEF ver, Components
  <2>2. get_size(t) = 0 /\ Len(<<>>) = 0 /\ <<>> \in Seq(S)
    BY <2>1 DEF get_size
  <2>3. "con_vec" \notin Compound /\ "con_vec" # "integer"
    BY DEF Compound
  <2> QED
    BY <1>1, <2>1, <2>2, <2>3
<1>2. CASE t \in Fieldless /\ t # null
  <2>1. /\ ver(t) # "con_vec" /\ ver(t) \notin Compound /\ Components(t) = <<t>>
        /\ get_size(t) = IF t = does_not_return THEN 0 ELSE 1
    BY <1>2, FieldlessType
  <2>2. <<t>> \in Seq(S) /\ Len(<<t>>) = 1 /\ <<t>> # <<>> /\ <<t>>[1] = t
    OBVIOUS
  <2>3. t # does_not_return => IsWord(t)
    BY <2>1 DEF IsWord
  <2>4. ver(t) = "integer" => t = integer
    BY <1>2, Names DEF Fieldless, ver
  <2> QED
    BY <1>2, <2>1, <2>2, <2>3, <2>4
<1>3. CASE \E kind \in Compound, inside \in S :
              t = <<kind, inside>> /\ (kind = "vector" => IsWord(inside))
  <2>1. PICK kind \in Compound, inside \in S :
              t = <<kind, inside>> /\ (kind = "vector" => IsWord(inside))
    BY <1>3
  <2>2. /\ t # null /\ ver(t) = kind /\ Target(t) = inside /\ t \notin Fieldless
        /\ ver(t) # "con_vec" /\ Components(t) = <<t>> /\ get_size(t) = 1
    BY <2>1, CompoundType
  <2>3. <<t>> \in Seq(S) /\ Len(<<t>>) = 1 /\ <<t>> # <<>> /\ <<t>>[1] = t
    OBVIOUS
  <2>4. t # does_not_return /\ IsWord(t)
    BY <2>2 DEF Fieldless, IsWord
  <2>5. kind # "integer"
    BY <2>1 DEF Compound
  <2> QED
    BY <2>1, <2>2, <2>3, <2>4, <2>5
<1>4. CASE /\ t # null /\ t = <<"con_vec">> \o Tail(t)
           /\ Tail(t) \in Seq(S) /\ Len(Tail(t)) > 1
           /\ \A i \in DOMAIN Tail(t) : IsWord(Tail(t)[i])
  <2>1. /\ ver(t) = "con_vec" /\ t # does_not_return
        /\ Components(t) = Tail(t) /\ get_size(t) = Len(Tail(t))
        /\ Len(t) = Len(Tail(t)) + 1
        /\ \A i \in 2 .. Len(t) : t[i] = Tail(t)[i - 1]
    BY <1>4, StructureType
  <2> DEFINE d == Tail(t)
  <2>2. Len(d) \in Nat /\ DOMAIN d = 1 .. Len(d) /\ d # <<>>
    <3>1. d \in Seq(S) /\ Len(d) > 1
      BY <1>4
    <3> HIDE DEF d
    <3> QED
      BY <3>1, LenProperties, EmptySeq
  <2>3. "con_vec" \notin Compound /\ "con_vec" # "integer"
    BY DEF Compound
  <2>4. ASSUME NEW i \in 1 .. Len(Tail(t))
        PROVE  IsWord(Tail(t)[i]) /\ Tail(t)[i] = t[i + 1]
    <3>1. i + 1 \in 2 .. Len(t) /\ (i + 1) - 1 = i
      BY <2>1, <2>2
    <3>2. t[i + 1] = Tail(t)[i]
      BY <2>1, <3>1
    <3> QED
      BY <1>4, <2>2, <3>2
  <2>5. /\ Components(t) \in Seq(S) /\ Components(t) # <<>> /\ Len(t) > 2
        /\ get_size(t) = Len(Components(t)) /\ Len(t) = Len(Components(t)) + 1
    BY <1>4, <2>1, <2>2
  <2>6. ASSUME NEW i \in 1 .. Len(Components(t))
        PROVE  /\ IsWord(Components(t)[i]) /\ ver(Components(t)[i]) # "con_vec"
               /\ Components(t)[i] = t[i + 1]
    BY <2>1, <2>4 DEF IsWord
  <2> QED
    BY <1>4, <2>1, <2>3, <2>5, <2>6
<1> QED
  BY <1>0, <1>1, <1>2, <1>3, <1>4 DEF MadeFrom

\* A type stays well made when there are more types.
LEMMA MadeFromMore ==
    ASSUME NEW S, NEW T, S \subseteq T, NEW t, MadeFrom(S, t)
    PROVE  MadeFrom(T, t)
<1>1. Tail(t) \in Seq(S) => Tail(t) \in Seq(T)
  BY SeqMonotonic
<1> QED
  BY <1>1 DEF MadeFrom

\* A closed set of types stays closed with a type made from it.
LEMMA OneMoreType ==
    ASSUME NEW S, IsClosed(S), NEW t, MadeFrom(S, t)
    PROVE  IsClosed(S \cup {t})
<1>1. \A u \in S : MadeFrom(S, u)
  BY DEF IsClosed
<1>2. \A u \in S \cup {t} : MadeFrom(S \cup {t}, u)
  BY <1>1, MadeFromMore
<1> QED
  BY <1>2 DEF IsClosed

\* A pointer, a temporary pointer or a vector of a known type.
LEMMA CompoundIsMade ==
    ASSUME NEW S, IsClosed(S), NEW kind \in Compound, NEW inside \in S,
           kind = "vector" => IsWord(inside)
    PROVE  IsClosed(S \cup {<<kind, inside>>})
<1>1. MadeFrom(S, <<kind, inside>>)
  BY DEF MadeFrom
<1> QED
  BY <1>1, OneMoreType

\* concatenate_types: flat again, and as large as both together.
LEMMA ConcatenationIsMade ==
    ASSUME NEW S, IsClosed(S), NEW t \in S, NEW u \in S,
           t # does_not_return, u # does_not_return, null \in S
    PROVE  LET c == concatenate_types(t, u) IN
           /\ IsClosed(S \cup {c})
           /\ c # does_not_return
           /\ get_size(c) = get_size(t) + get_size(u)
<1> DEFINE all == Components(t) \o Components(u)
           c == concatenate_types(t, u)
<1>1. /\ Components(t) \in Seq(S) /\ Components(u) \in Seq(S)
      /\ get_size(t) = Len(Components(t)) /\ get_size(u) = Len(Components(u))
      /\ \A i \in 1 .. Len(Components(t)) : IsWord(Components(t)[i])
      /\ \A i \in 1 .. Len(Components(u)) : IsWord(Components(u)[i])
  BY TypeFacts
<1>2. Len(Components(t)) \in Nat /\ Len(Components(u)) \in Nat
  BY <1>1, LenProperties
<1>3. /\ all \in Seq(S) /\ Len(all) = Len(Components(t)) + Len(Components(u))
      /\ \A i \in 1 .. Len(Components(t)) + Len(Components(u)) :
            all[i] = IF i <= Len(Components(t)) THEN Components(t)[i]
                     ELSE Components(u)[i - Len(Components(t))]
  BY <1>1, ConcatProperties
<1>4. \A i \in 1 .. Len(all) : all[i] \in S /\ IsWord(all[i])
  BY <1>1, <1>2, <1>3, ElementOfSeq
<1>5. c = IF Len(all) = 0 THEN null ELSE IF Len(all) = 1 THEN all[1] ELSE <<"con_vec">> \o all
  BY DEF concatenate_types
<1>6. get_size(t) + get_size(u) = Len(all) /\ Len(all) \in Nat
  BY <1>1, <1>2, <1>3
<1> HIDE DEF all, c
<1>7. CASE Len(all) = 0
  <2>1. c = null /\ c # does_not_return
    BY <1>5, <1>7, Names
  <2>3. get_size(null) = 0
    BY <2>1, TypeFacts, EmptySeq
  <2>2. S \cup {c} = S
    BY <2>1
  <2> QED
    BY <1>6, <1>7, <2>1, <2>2, <2>3 DEF c
<1>8. CASE Len(all) = 1
  <2>1. c \in S /\ IsWord(c)
    BY <1>4, <1>5, <1>8
  <2>2. c # does_not_return /\ Components(c) = <<c>> /\ get_size(c) = Len(<<c>>)
    BY <2>1, TypeFacts DEF IsWord
  <2>3. get_size(c) = 1 /\ S \cup {c} = S
    BY <2>1, <2>2
  <2> QED
    BY <1>6, <1>8, <2>2, <2>3 DEF c
<1>9. CASE Len(all) > 1
  <2>1. c = <<"con_vec">> \o all
    BY <1>5, <1>6, <1>9
  <2>2. Tail(c) = all /\ c # null
    <3>1. /\ <<"con_vec">> \in Seq(S \cup {"con_vec"}) /\ all \in Seq(S \cup {"con_vec"})
          /\ Len(<<"con_vec">>) = 1
      BY <1>3, SeqMonotonic
    <3> DEFINE h == <<"con_vec">>
    <3>2. h \in Seq(S \cup {"con_vec"}) /\ Len(h) = 1
      BY <3>1
    <3> HIDE DEF h
    <3>3. /\ h \o all \in Seq(S \cup {"con_vec"}) /\ Len(h \o all) = 1 + Len(all)
          /\ \A i \in 1 .. 1 + Len(all) : (h \o all)[i] = IF i <= 1 THEN h[i] ELSE all[i - 1]
      BY <3>1, <3>2, ConcatProperties
    <3>4. h \o all # <<>>
      BY <3>3, <1>6, EmptySeq
    <3>5. /\ Tail(h \o all) \in Seq(S \cup {"con_vec"}) /\ Len(Tail(h \o all)) = Len(all)
          /\ \A i \in 1 .. Len(all) : Tail(h \o all)[i] = all[i]
      <4>1. /\ Tail(h \o all) \in Seq(S \cup {"con_vec"})
            /\ Len(Tail(h \o all)) = Len(h \o all) - 1
            /\ \A i \in 1 .. Len(Tail(h \o all)) : Tail(h \o all)[i] = (h \o all)[i + 1]
        BY <3>3, <3>4, HeadTailProperties
      <4> QED
        BY <4>1, <3>3, <1>6
    <3>6. Tail(h \o all) = all
      BY <3>1, <3>5, SeqEqual
    <3> QED
      BY <2>1, <3>4, <3>6 DEF h, null
  <2>3. MadeFrom(S, c)
    <3>1. DOMAIN Tail(c) = 1 .. Len(all)
      BY <1>3, <2>2, LenProperties
    <3> QED
      BY <1>3, <1>4, <1>9, <2>1, <2>2, <3>1 DEF MadeFrom
  <2>4. get_size(c) = Len(all) /\ c # does_not_return
    BY <1>3, <1>9, <2>1, <2>2, StructureType
  <2>5. IsClosed(S \cup {c})
    BY <2>3, OneMoreType
  <2> QED
    BY <1>6, <2>4, <2>5 DEF c
<1> QED
  BY <1>6, <1>7, <1>8, <1>9
-----------------------------------------------------------------------------
(* The inductive invariant *)

Sized(type, constant) ==
    type # does_not_return /\ (constant # NoConstant => Len(constant) = get_size(type))

\* What generate_IR returns, over a set of types and a number of memory_allocations.
Codes == {"no_error", "infinite_loop", "type_mismatch", "label_duplication", "missing_label",
          "pointer_without_target", "pointer_to_temporary", "missing_reference",
          "lost_hidden_subtype", "oversized_offset", "nonfull_object", "requires_constant",
          "vector_cant_take_large_objects"}
Constants(S) == Seq([number : 0 .. Huge, type : S])
Values(S, count) ==
    {v \in [error : Codes, type : S, place : 0 .. count, hidden : BOOLEAN, made : Nat,
            constant : Constants(S), subtype : BOOLEAN] : Sized(v.type, v.constant)}
Frame(S, count) == [target : DOMAIN ast, degree : {0, 2}, base : Nat,
                    results : Seq(Values(S, count)), mark : Nat, merge : Nat]
Objects(S, count) == {v \in Values(S, count) : get_size(v.type) > 0}

ControlOK(S, count) ==
    \/ control = Going
    \/ \E id \in DOMAIN ast \cup {0}, degree \in {0, 2} : control = Called(id, degree)
    \/ \E r \in Values(S, count) : control = Returned(r)

\* The memory_allocations that a value may be in.
Allocated == Len(allocations)

FlowOK(fl) ==
    /\ fl = [block |-> fl.block, count |-> fl.count, edges |-> fl.edges, uses |-> fl.uses]
    /\ fl.count \in Nat /\ fl.block \in 1 .. fl.count
    /\ fl.edges \subseteq (1 .. fl.count) \X (1 .. fl.count)

LabelsOf(ls, count) ==
    /\ ls = [id \in DOMAIN ls |-> ls[id]]
    /\ \A id \in DOMAIN ls :
          /\ ls[id] = [block |-> ls[id].block, is_forward |-> ls[id].is_forward,
                       home |-> ls[id].home]
          /\ ls[id].block \in 1 .. count

Allocation == [names : {"alloca", "allocate", "value"} \X Nat, full : BOOLEAN]

TypeInv(S) ==
    /\ IsClosed(S) /\ ImvTypes \cup Fieldless \subseteq S
    /\ ast \in Programs
    /\ frames \in Seq(Frame(S, Allocated))
    /\ ControlOK(S, Allocated)
    /\ objects \in [DOMAIN objects -> Objects(S, Allocated)] /\ DOMAIN objects \subseteq DOMAIN ast
    /\ object_stack \in Seq(DOMAIN ast)
    /\ DOMAIN labels \subseteq DOMAIN ast /\ LabelsOf(labels, flow.count)
    /\ loop_catcher \subseteq DOMAIN ast
    /\ allocations \in Seq(Allocation)
    /\ FlowOK(flow)

Branching == {"if", "dyn_subobj", "label"} \cup InBranch

\* Frame i has done the part of its own code that comes before its branches.
Entered(i) ==
    /\ ast[frames[i].target].tag \in Branching
    /\ Len(frames[i].results) >= Len(parameter_types(ast[frames[i].target].tag))
    /\ ~(i = Len(frames) /\ control = Going)

\* What it keeps for what comes after: how far it will cut the stack, the block
\* where its branches meet, its label.
KeptOK(f, nodes, count, labelled) ==
    LET tag == nodes[f.target].tag IN
    /\ tag # "label" => f.base <= f.mark
    /\ tag \in {"if"} \cup InBranch => f.merge \in 1 .. count - 2
    /\ tag = "dyn_subobj" => f.merge \in 2 .. count - Len(case_type)
    /\ tag = "label" => f.target \in labelled
EnteredOK(i) == KeptOK(frames[i], ast, flow.count, DOMAIN labels)

\* Each frame began with no fewer objects than the one that called it.
ScopeInv ==
    /\ \A i \in DOMAIN frames : frames[i].base <= Len(object_stack)
    /\ \A i, j \in DOMAIN frames : i <= j => frames[i].base <= frames[j].base
    /\ \A i \in DOMAIN frames : Entered(i) => EnteredOK(i)

\* A pointer was made after what it points to, and is cut from the stack before.
PointerOK(j) ==
    LET id == object_stack[j] IN
    ast[id].tag = "pointer" =>
        \E i \in 1 .. j - 1 :
            /\ object_stack[i] = ast[id].fields[1]
            /\ ver(objects[id].type) = "pointer" =>
                   LET target == objects[object_stack[i]] IN
                   ~target.hidden /\ target.place # 0 /\ allocations[target.place].full
PointerInv == \A j \in DOMAIN object_stack : PointerOK(j)

\* A pointer compiles no field, so nothing is made between its begin and its end.
PointerFrameInv ==
    \A i \in DOMAIN frames : ast[frames[i].target].tag = "pointer" =>
        i = Len(frames) /\ control = Going /\ Len(object_stack) = frames[i].base

Inv(S) == TypeInv(S) /\ TablesAgree /\ ScopeInv /\ PointerInv /\ PointerFrameInv
CompilerInv == \E S : Inv(S)

-----------------------------------------------------------------------------
(* The stack and the map of living objects *)

Smaller(m, n) == IF m < n THEN m ELSE n

\* clear_stack: what is kept of the stack and of the map.
LEMMA StackCut ==
    ASSUME NEW A, object_stack \in Seq(A), IsInjective(object_stack),
           Range(object_stack) = DOMAIN objects, NEW n \in Nat
    PROVE  LET stack == clear_stack(n)
               kept == KeepObjects(stack)
               m == Smaller(n, Len(object_stack)) IN
           /\ stack \in Seq(A) /\ Len(stack) = m /\ m \in Nat
           /\ \A i \in 1 .. m : stack[i] = object_stack[i]
           /\ IsInjective(stack) /\ Range(stack) = DOMAIN kept
           /\ kept = [id \in DOMAIN kept |-> objects[id]] /\ DOMAIN kept \subseteq DOMAIN objects
<1> DEFINE stack == clear_stack(n)
           kept == KeepObjects(stack)
           m == Smaller(n, Len(object_stack))
<1>1. /\ Len(object_stack) \in Nat /\ DOMAIN object_stack = 1 .. Len(object_stack)
      /\ \A i \in 1 .. Len(object_stack) : object_stack[i] \in A
  BY LenProperties, ElementOfSeq
<1>2. m \in Nat /\ m <= Len(object_stack)
  BY <1>1 DEF Smaller
<1>3. stack = SubSeq(object_stack, 1, m)
  BY DEF clear_stack, Smaller
<1>4. stack \in Seq(A) /\ Len(stack) = m /\ \A i \in 1 .. m : stack[i] = object_stack[i]
  <2>1. \A i \in 1 .. m : object_stack[i] \in A
    BY <1>1, <1>2
  <2> HIDE DEF m
  <2>2. /\ SubSeq(object_stack, 1, m) \in Seq(A)
        /\ Len(SubSeq(object_stack, 1, m)) = IF 1 <= m THEN m - 1 + 1 ELSE 0
        /\ \A i \in 1 .. m - 1 + 1 : SubSeq(object_stack, 1, m)[i] = object_stack[1 + i - 1]
    BY <1>2, <2>1, SubSeqProperties
  <2>3. \A i \in 1 .. m : 1 + i - 1 = i
    BY <1>2
  <2> QED
    BY <1>2, <1>3, <2>2, <2>3
<1>5. DOMAIN stack = 1 .. m
  BY <1>4, LenProperties
<1>6. IsInjective(stack)
  BY <1>1, <1>2, <1>4, <1>5 DEF IsInjective
<1>7. DOMAIN kept = DOMAIN objects \ {object_stack[i] : i \in m + 1 .. Len(object_stack)}
  BY <1>4 DEF KeepObjects, Restrict
<1>8. kept = [id \in DOMAIN kept |-> objects[id]] /\ DOMAIN kept \subseteq DOMAIN objects
  BY <1>7 DEF KeepObjects, Restrict
<1>9. Range(stack) = DOMAIN kept
  <2>1. \A id : id \in Range(stack) <=> \E i \in 1 .. m : object_stack[i] = id
    BY <1>4, <1>5 DEF Range
  <2>2. \A id : id \in DOMAIN objects <=> \E i \in 1 .. Len(object_stack) : object_stack[i] = id
    BY <1>1 DEF Range
  <2>3. \A i \in 1 .. Len(object_stack) : i \in 1 .. m \/ i \in m + 1 .. Len(object_stack)
    BY <1>1, <1>2
  <2>4. \A i \in 1 .. m, j \in m + 1 .. Len(object_stack) :
            i \in 1 .. Len(object_stack) /\ j \in 1 .. Len(object_stack) /\ i # j
    BY <1>1, <1>2
  <2>5. \A i \in 1 .. m, j \in m + 1 .. Len(object_stack) : object_stack[i] # object_stack[j]
    BY <1>1, <2>4 DEF IsInjective
  <2>6. \A id : id \in DOMAIN kept <=>
            id \in DOMAIN objects /\ \A j \in m + 1 .. Len(object_stack) : object_stack[j] # id
    BY <1>7
  <2>7. \A id : id \in DOMAIN kept <=> \E i \in 1 .. m : object_stack[i] = id
    <3> HIDE DEF m, kept, stack
    <3>1. ASSUME NEW id \in DOMAIN kept PROVE \E i \in 1 .. m : object_stack[i] = id
      BY <2>2, <2>3, <2>6
    <3>2. ASSUME NEW i \in 1 .. m PROVE object_stack[i] \in DOMAIN kept
      <4>1. i \in 1 .. Len(object_stack)
        BY <1>1, <1>2
      <4> QED
        BY <2>2, <2>5, <2>6, <4>1
    <3> QED
      BY <3>1, <3>2
  <2> QED
    BY <2>1, <2>7
<1> QED
  BY <1>2, <1>4, <1>6, <1>8, <1>9

\* What a step does to the living objects: those above n go, then id may come.
LivingMoves(n, id, info) ==
    LET m == Smaller(n, Len(object_stack)) IN
    /\ m \in Nat
    /\ IsInjective(object_stack') /\ Range(object_stack') = DOMAIN objects'
    /\ objects' = [x \in DOMAIN objects' |-> objects'[x]]
    /\ Len(object_stack') \in {m, m + 1}
    /\ \A i \in 1 .. m : /\ object_stack'[i] = object_stack[i]
                         /\ object_stack[i] \in DOMAIN objects
                         /\ objects'[object_stack[i]] = objects[object_stack[i]]
    /\ Len(object_stack') = m + 1 => object_stack'[m + 1] = id /\ objects'[id] = info

\* clear_stack alone: what is kept stays, nothing new comes alive.
LEMMA CutMoves ==
    ASSUME NEW A, object_stack \in Seq(A), IsInjective(object_stack),
           Range(object_stack) = DOMAIN objects, NEW n \in Nat, NEW id, NEW info,
           object_stack' = clear_stack(n), objects' = KeepObjects(clear_stack(n))
    PROVE  object_stack' \in Seq(A) /\ LivingMoves(n, id, info)
           /\ Len(object_stack') = Smaller(n, Len(object_stack))
<1> DEFINE stack == clear_stack(n)
           kept == KeepObjects(stack)
           m == Smaller(n, Len(object_stack))
<1>1. /\ stack \in Seq(A) /\ Len(stack) = m /\ m \in Nat
      /\ \A i \in 1 .. m : stack[i] = object_stack[i]
      /\ IsInjective(stack) /\ Range(stack) = DOMAIN kept
      /\ kept = [x \in DOMAIN kept |-> objects[x]] /\ DOMAIN kept \subseteq DOMAIN objects
  BY StackCut
<1>2. DOMAIN stack = 1 .. m
  BY <1>1, LenProperties
<1>3. \A i \in 1 .. m : object_stack[i] \in DOMAIN kept
  BY <1>1, <1>2 DEF Range
<1> QED
  BY <1>1, <1>2, <1>3 DEF LivingMoves

\* clear_stack, then new_living_object.
LEMMA NewObjectMoves ==
    ASSUME NEW A, object_stack \in Seq(A), IsInjective(object_stack),
           Range(object_stack) = DOMAIN objects, NEW n \in Nat, NEW id \in A, NEW info,
           new_living_object(clear_stack(n), id, info)
    PROVE  object_stack' \in Seq(A) /\ LivingMoves(n, id, info)
<1> DEFINE stack == clear_stack(n)
           kept == KeepObjects(stack)
           m == Smaller(n, Len(object_stack))
<1>1. /\ stack \in Seq(A) /\ Len(stack) = m /\ m \in Nat
      /\ \A i \in 1 .. m : stack[i] = object_stack[i]
      /\ IsInjective(stack) /\ Range(stack) = DOMAIN kept
      /\ kept = [x \in DOMAIN kept |-> objects[x]] /\ DOMAIN kept \subseteq DOMAIN objects
  BY StackCut
<1>2. DOMAIN stack = 1 .. m
  BY <1>1, LenProperties
<1>3. \A i \in 1 .. m : object_stack[i] \in DOMAIN kept
  BY <1>1, <1>2 DEF Range
<1> HIDE DEF stack, kept, m
<1>4. CASE id \in DOMAIN kept
  <2>1. object_stack' = stack /\ objects' = kept
    BY <1>4 DEF new_living_object, stack, kept
  <2> QED
    BY <1>1, <1>2, <1>3, <2>1 DEF LivingMoves, m
<1>5. CASE id \notin DOMAIN kept
  <2>1. object_stack' = Append(stack, id) /\ objects' = Extended(kept, id, info)
    BY <1>5 DEF new_living_object, stack, kept
  <2>2. /\ object_stack' \in Seq(A) /\ Len(object_stack') = m + 1
        /\ \A i \in 1 .. m : object_stack'[i] = stack[i]
        /\ object_stack'[m + 1] = id
    BY <1>1, <2>1, AppendProperties
  <2>3. /\ DOMAIN objects' = DOMAIN kept \cup {id} /\ objects'[id] = info
        /\ \A x \in DOMAIN kept : objects'[x] = kept[x]
        /\ objects' = [x \in DOMAIN objects' |-> objects'[x]]
    BY <1>5, <2>1 DEF Extended
  <2>4. DOMAIN object_stack' = 1 .. m + 1
    BY <2>2, LenProperties
  <2>5. IsInjective(object_stack')
    <3>1. \A i \in 1 .. m : object_stack'[i] # id
      BY <1>1, <1>2, <1>5, <2>2 DEF Range
    <3>2. \A i \in 1 .. m + 1 : i \in 1 .. m \/ i = m + 1
      BY <1>1
    <3> QED
      BY <1>1, <1>2, <2>2, <2>4, <3>1, <3>2 DEF IsInjective
  <2>6. Range(object_stack') = DOMAIN objects'
    <3>1. \A x : x \in Range(object_stack') <=> \E i \in 1 .. m + 1 : object_stack'[i] = x
      BY <2>4 DEF Range
    <3>2. \A x : x \in DOMAIN kept <=> \E i \in 1 .. m : object_stack'[i] = x
      BY <1>1, <1>2, <2>2 DEF Range
    <3>3. \A i : i \in 1 .. m + 1 <=> i \in 1 .. m \/ i = m + 1
      BY <1>1
    <3> QED
      BY <2>2, <2>3, <3>1, <3>2, <3>3
  <2> QED
    BY <1>1, <1>3, <2>2, <2>3, <2>5, <2>6 DEF LivingMoves, m
<1> QED
  BY <1>4, <1>5

\* Nothing is cut from a stack that is not higher.
LEMMA NothingCut ==
    ASSUME NEW A, object_stack \in Seq(A), IsInjective(object_stack),
           Range(object_stack) = DOMAIN objects, objects = [x \in DOMAIN objects |-> objects[x]]
    PROVE  /\ Len(object_stack) \in Nat
           /\ clear_stack(Len(object_stack)) = object_stack
           /\ KeepObjects(object_stack) = objects
<1>1. Len(object_stack) \in Nat
  BY LenProperties
<1>2. clear_stack(Len(object_stack)) = object_stack
  BY <1>1, SubSeqFull DEF clear_stack
<1>3. {object_stack[i] : i \in Len(object_stack) + 1 .. Len(object_stack)} = {}
  BY <1>1
<1>4. KeepObjects(object_stack) = objects
  BY <1>3 DEF KeepObjects, Restrict
<1> QED
  BY <1>1, <1>2, <1>4

-----------------------------------------------------------------------------
(* The emitted code *)

\* A branch to an existing block.
LEMMA JumpOK ==
    ASSUME NEW fl, FlowOK(fl), NEW b \in 1 .. fl.count
    PROVE  FlowOK(Jump(fl, b)) /\ Jump(fl, b).count = fl.count /\ Jump(fl, b).block = fl.block
<1>1. Jump(fl, b) = [block |-> fl.block, count |-> fl.count,
                     edges |-> fl.edges \cup {<<fl.block, b>>}, uses |-> fl.uses]
  BY DEF FlowOK, Jump
<1> QED
  BY <1>1 DEF FlowOK

\* The IRBuilder is moved to an existing block.
LEMMA AtOK ==
    ASSUME NEW fl, FlowOK(fl), NEW b \in 1 .. fl.count
    PROVE  FlowOK(At(fl, b)) /\ At(fl, b).count = fl.count /\ At(fl, b).block = b
<1>1. At(fl, b) = [block |-> b, count |-> fl.count, edges |-> fl.edges, uses |-> fl.uses]
  BY DEF FlowOK, At
<1> QED
  BY <1>1 DEF FlowOK

\* New blocks.
LEMMA MoreBlocksOK ==
    ASSUME NEW fl, FlowOK(fl), NEW n \in Nat
    PROVE  /\ FlowOK(MoreBlocks(fl, n)) /\ MoreBlocks(fl, n).count = fl.count + n
           /\ MoreBlocks(fl, n).block = fl.block
<1>1. MoreBlocks(fl, n) = [block |-> fl.block, count |-> fl.count + n, edges |-> fl.edges,
                           uses |-> fl.uses]
  BY DEF FlowOK, MoreBlocks
<1>2. \A x \in 1 .. fl.count : x \in 1 .. fl.count + n
  BY DEF FlowOK
<1> QED
  BY <1>1, <1>2 DEF FlowOK

\* Uses of values change no block.
LEMMA UsesOK ==
    ASSUME NEW fl, FlowOK(fl), NEW X
    PROVE  FlowOK(Uses(fl, X)) /\ Uses(fl, X).count = fl.count /\ Uses(fl, X).block = fl.block
<1> DEFINE used == {<<d, fl.block>> : d \in X \ {0, fl.block}}
<1>1. Uses(fl, X) = [block |-> fl.block, count |-> fl.count, edges |-> fl.edges,
                     uses |-> fl.uses \cup used]
  BY DEF FlowOK, Uses
<1> HIDE DEF used
<1> QED
  BY <1>1 DEF FlowOK

\* A conditional branch: three new blocks, the second of which is entered.
LEMMA ForkOK ==
    ASSUME NEW fl, FlowOK(fl)
    PROVE  FlowOK(Fork(fl)) /\ Fork(fl).count = fl.count + 3 /\ Fork(fl).block = fl.count + 2
<1> DEFINE more == MoreBlocks(fl, 3)
           both == Jump(Jump(fl, fl.count + 2), fl.count + 3)
<1>1. fl.count \in Nat /\ fl.block \in 1 .. fl.count
  BY DEF FlowOK
<1>2. FlowOK(more) /\ more.count = fl.count + 3 /\ more.block = fl.block
  BY MoreBlocksOK
<1>3. MoreBlocks(both, 3) = Jump(Jump(more, fl.count + 2), fl.count + 3)
  BY DEF FlowOK, MoreBlocks, Jump
<1> DEFINE first == Jump(more, fl.count + 2)
           second == Jump(first, fl.count + 3)
<1> HIDE DEF more, both
<1>4. FlowOK(first) /\ first.count = fl.count + 3
  BY <1>1, <1>2, JumpOK
<1> HIDE DEF first
<1>5. FlowOK(second) /\ second.count = fl.count + 3
  BY <1>1, <1>4, JumpOK
<1>6. Fork(fl) = At(second, fl.count + 2)
  BY <1>3 DEF Fork, second, first, both
<1> HIDE DEF second
<1> QED
  BY <1>1, <1>5, <1>6, AtOK

\* create_if_value on values: three new blocks, the last of which is entered.
LEMMA IfValueOK ==
    ASSUME NEW fl, FlowOK(fl)
    PROVE  FlowOK(create_if_value(fl)) /\ create_if_value(fl).count = fl.count + 3
<1>1. fl.count \in Nat
  BY DEF FlowOK
<1> DEFINE a == Fork(fl)
           b == Jump(a, Merge(fl))
           c == At(b, fl.count + 3)
           d == Jump(c, Merge(fl))
<1>2. FlowOK(a) /\ a.count = fl.count + 3
  BY ForkOK
<1>3. create_if_value(fl) = At(d, Merge(fl))
  BY DEF create_if_value
<1>4. Merge(fl) = fl.count + 1
  BY DEF Merge
<1> HIDE DEF a
<1>5. FlowOK(b) /\ b.count = fl.count + 3
  BY <1>1, <1>2, <1>4, JumpOK
<1> HIDE DEF b
<1>6. FlowOK(c) /\ c.count = fl.count + 3
  BY <1>1, <1>5, AtOK
<1> HIDE DEF c
<1>7. FlowOK(d) /\ d.count = fl.count + 3
  BY <1>1, <1>4, <1>6, JumpOK
<1> HIDE DEF d
<1> QED
  BY <1>1, <1>3, <1>4, <1>7, AtOK

\* The switch of dyn_subobj: nine new blocks.
LEMMA SwitchOK ==
    ASSUME NEW fl, FlowOK(fl)
    PROVE  FlowOK(Switch(fl)) /\ Switch(fl).count = fl.count + 2 + Len(case_type)
<1> DEFINE merge == fl.count + 2
           n == Len(case_type)
           cases == {case_block(merge, x) : x \in 0 .. n}
<1>1. fl.count \in Nat /\ fl.block \in 1 .. fl.count /\ n = 7
  BY DEF FlowOK, case_type
<1>2. \A x \in 0 .. n : case_block(merge, x) \in 1 .. fl.count + 2 + n
  BY <1>1 DEF case_block
<1> DEFINE out == {<<fl.block, b>> : b \in cases}
<1>3. Switch(fl) = [block |-> case_block(merge, 0), count |-> fl.count + 2 + n,
                    edges |-> fl.edges \cup out, uses |-> fl.uses]
  <2>1. Switch(fl) = [fl EXCEPT !.edges = fl.edges \cup out, !.count = fl.count + 2 + n,
                                !.block = case_block(merge, 0)]
    BY DEF Switch
  <2> HIDE DEF out, n, merge
  <2> QED
    BY <2>1 DEF FlowOK
<1>4. \A x \in 1 .. fl.count : x \in 1 .. fl.count + 2 + n
  BY <1>1
<1>5. out \subseteq (1 .. fl.count + 2 + n) \X (1 .. fl.count + 2 + n)
  BY <1>1, <1>2
<1>6. fl.edges \subseteq (1 .. fl.count + 2 + n) \X (1 .. fl.count + 2 + n)
  BY <1>4 DEF FlowOK
<1>7. 0 \in 0 .. n /\ fl.count + 2 + n \in Nat
  BY <1>1
<1>8. case_block(merge, 0) \in 1 .. fl.count + 2 + n
  BY <1>2, <1>7
<1> HIDE DEF n, cases, merge, out
<1>9. /\ Switch(fl).block = case_block(merge, 0) /\ Switch(fl).count = fl.count + 2 + n
      /\ Switch(fl).edges = fl.edges \cup out
      /\ Switch(fl).uses = fl.uses
  BY <1>3
<1>10. Switch(fl).edges \subseteq (1 .. fl.count + 2 + n) \X (1 .. fl.count + 2 + n)
  BY <1>5, <1>6, <1>9
<1>11. FlowOK(Switch(fl))
  BY <1>3, <1>7, <1>8, <1>9, <1>10 DEF FlowOK
<1> QED
  BY <1>9, <1>11 DEF n

\* A load is a use at most.
LEMMA LoadOK ==
    ASSUME FlowOK(flow), NEW info
    PROVE  FlowOK(AfterLoad(info)) /\ AfterLoad(info).count = flow.count
BY UsesOK DEF AfterLoad

\* The uses that a step adds change nothing else.
LEMMA HereOK ==
    ASSUME FlowOK(flow)
    PROVE  FlowOK(flow_here) /\ flow_here.count = flow.count /\ flow_here.block = flow.block
BY UsesOK DEF flow_here

-----------------------------------------------------------------------------
(* What a step may do *)

\* Memory is added and made full, never taken away.
MoreMemory(all) ==
    /\ all \in Seq(Allocation) /\ Len(all) >= Len(allocations)
    /\ \A i \in 1 .. Len(allocations) : allocations[i].full => all[i].full

\* Code is added.
MoreCode(fl) == FlowOK(fl) /\ fl.count >= flow.count

\* Labels are added.
MoreLabels ==
    /\ DOMAIN labels \subseteq DOMAIN labels' /\ DOMAIN labels' \subseteq DOMAIN ast
    /\ LabelsOf(labels', flow'.count)

\* An object may come alive above the m that are kept; a pointer finds its target there.
PointsWell(m, id, info, all) ==
    ast[id].tag = "pointer" =>
        \E i \in 1 .. m :
            /\ object_stack[i] = ast[id].fields[1]
            /\ ver(info.type) = "pointer" =>
                   LET target == objects[object_stack[i]] IN
                   ~target.hidden /\ target.place # 0 /\ all[target.place].full

NewObjectOK(T, m, id, info) ==
    /\ id \in DOMAIN ast
    /\ info \in Values(T, Allocated') /\ get_size(info.type) > 0
    /\ PointsWell(m, id, info, allocations')

LivingStep(T, n, id) ==
    LET m == Smaller(n, Len(object_stack)) IN
    /\ object_stack' \in Seq(DOMAIN ast)
    /\ \E info : /\ LivingMoves(n, id, info)
                 /\ Len(object_stack') = m + 1 => NewObjectOK(T, m, id, info)

\* What was alive when a frame began is kept.
Keeps(n) == n \in Nat /\ \A i \in DOMAIN frames : frames[i].base <= n

Common(S, T, n, id) ==
    /\ S \subseteq T /\ IsClosed(T)
    /\ ast' = ast
    /\ Keeps(n) /\ LivingStep(T, n, id)
    /\ MoreMemory(allocations') /\ MoreCode(flow') /\ MoreLabels

\* The last frame is left. A statement that succeeds cuts the stack to its base.
Ends(T, n, id) ==
    /\ frames # <<>> /\ Pop
    /\ \E r \in Values(T, Allocated') : control' = Returned(r)
    /\ top.degree = 2 /\ this.tag # "basicblock" /\ control'.result.error = "no_error" =>
           n = top.base /\ id = top.target

\* The frames stay; the last one may go on.
Stays(T) ==
    /\ \A i \in DOMAIN frames : ast[frames[i].target].tag # "pointer"
    /\ frames' \in Seq(Frame(T, Allocated')) /\ Len(frames') = Len(frames)
    /\ \A i \in 1 .. Len(frames) :
          /\ i < Len(frames) => frames'[i] = frames[i]
          /\ frames'[i].target = frames[i].target /\ frames'[i].base = frames[i].base
    /\ loop_catcher' = loop_catcher
    /\ ControlOK(T, Allocated)'
    /\ frames # <<>> /\ Entered(Len(frames))' => EnteredOK(Len(frames))'

OneStep(S) == \E T, n, id : Common(S, T, n, id) /\ (Ends(T, n, id) \/ Stays(T) \/ begin)

\* What is a value, or a frame, stays one when there are more types and more memory.
LEMMA ValuesMore ==
    ASSUME NEW S, NEW T, S \subseteq T, NEW m \in Nat, NEW n \in Nat, m <= n
    PROVE  Values(S, m) \subseteq Values(T, n) /\ Frame(S, m) \subseteq Frame(T, n)
<1>1. Constants(S) \subseteq Constants(T)
  <2>1. [number : 0 .. Huge, type : S] \subseteq [number : 0 .. Huge, type : T]
    OBVIOUS
  <2> QED
    BY <2>1, SeqMonotonic DEF Constants
<1>2. 0 .. m \subseteq 0 .. n
  OBVIOUS
<1>3. Values(S, m) \subseteq Values(T, n)
  BY <1>1, <1>2 DEF Values
<1>4. Seq(Values(S, m)) \subseteq Seq(Values(T, n))
  BY <1>3, SeqMonotonic
<1>5. Frame(S, m) \subseteq Frame(T, n)
  BY <1>4 DEF Frame
<1> QED
  BY <1>3, <1>5

\* ... over one step.
LEMMA StepMore ==
    ASSUME NEW S, NEW T, S \subseteq T, allocations \in Seq(Allocation), MoreMemory(allocations'),
           ast' = ast
    PROVE  /\ Values(S, Allocated) \subseteq Values(T, Allocated')
           /\ Frame(S, Allocated) \subseteq Frame(T, Allocated')
           /\ Frame(T, Allocated)' = Frame(T, Allocated')
           /\ Allocated \in Nat /\ Allocated' \in Nat /\ Allocated <= Allocated'
<1>1. Allocated \in Nat /\ Allocated' \in Nat /\ Allocated <= Allocated'
  BY LenProperties DEF MoreMemory, Allocated
<1>2. Frame(T, Allocated)' = Frame(T, Allocated')
  BY DEF Frame
<1> QED
  BY <1>1, <1>2, ValuesMore

\* Every frame is well formed, and only the last may be a pointer's.
LEMMA FrameFacts ==
    ASSUME NEW S, Inv(S)
    PROVE  /\ Len(frames) \in Nat /\ DOMAIN frames = 1 .. Len(frames)
           /\ \A i \in 1 .. Len(frames) :
                 /\ frames[i] \in Frame(S, Allocated)
                 /\ frames[i].target \in DOMAIN ast /\ frames[i].degree \in {0, 2}
                 /\ frames[i].base \in Nat /\ frames[i].results \in Seq(Values(S, Allocated))
                 /\ frames[i].mark \in Nat /\ frames[i].merge \in Nat
                 /\ frames[i].base <= Len(object_stack)
                 /\ frames[i].base <= top.base
                 /\ ast[frames[i].target].tag = "pointer" => i = Len(frames)
           /\ Len(object_stack) \in Nat /\ DOMAIN object_stack = 1 .. Len(object_stack)
<1>1. frames \in Seq(Frame(S, Allocated)) /\ object_stack \in Seq(DOMAIN ast)
  BY DEF Inv, TypeInv
<1>2. Len(frames) \in Nat /\ DOMAIN frames = 1 .. Len(frames)
      /\ Len(object_stack) \in Nat /\ DOMAIN object_stack = 1 .. Len(object_stack)
  BY <1>1, LenProperties
<1>3. \A i \in 1 .. Len(frames) : frames[i] \in Frame(S, Allocated)
  BY <1>1, ElementOfSeq
<1>4. \A i \in 1 .. Len(frames) :
          /\ frames[i].base <= Len(object_stack)
          /\ ast[frames[i].target].tag = "pointer" => i = Len(frames)
  BY <1>2 DEF Inv, ScopeInv, PointerFrameInv
<1>5. \A i \in 1 .. Len(frames) : i <= Len(frames) /\ Len(frames) \in 1 .. Len(frames)
  BY <1>2
<1>6. \A i \in 1 .. Len(frames) : frames[i].base <= top.base
  BY <1>2, <1>5 DEF Inv, ScopeInv, top
<1> QED
  BY <1>2, <1>3, <1>4, <1>6 DEF Frame

\* What a step of any kind keeps of the invariant.
LEMMA CommonKeeps ==
    ASSUME NEW S, Inv(S), NEW T, NEW n, NEW id, Common(S, T, n, id)
    PROVE  /\ objects' \in [DOMAIN objects' -> Objects(T, Allocated)'] /\ DOMAIN objects' \subseteq DOMAIN ast
           /\ IsInjective(object_stack') /\ Range(object_stack') = DOMAIN objects'
           /\ Len(object_stack) \in Nat /\ Len(object_stack') \in Nat
           /\ \A i \in DOMAIN frames : frames[i].base <= Len(object_stack')
           /\ PointerInv'
           /\ \A f : KeptOK(f, ast, flow.count, DOMAIN labels) =>
                     KeptOK(f, ast, flow'.count, DOMAIN labels')
<1> DEFINE m == Smaller(n, Len(object_stack))
<1>1. PICK info : /\ LivingMoves(n, id, info)
                  /\ Len(object_stack') = m + 1 => NewObjectOK(T, m, id, info)
  BY DEF Common, LivingStep
<1>2. /\ object_stack \in Seq(DOMAIN ast) /\ object_stack' \in Seq(DOMAIN ast)
      /\ n \in Nat /\ \A i \in DOMAIN frames : frames[i].base <= n
  BY DEF Inv, TypeInv, Common, LivingStep, Keeps
<1>3. Len(object_stack) \in Nat /\ Len(object_stack') \in Nat
      /\ DOMAIN object_stack = 1 .. Len(object_stack)
      /\ DOMAIN object_stack' = 1 .. Len(object_stack')
  BY <1>2, LenProperties
<1>4. m \in Nat /\ m <= n /\ m <= Len(object_stack)
  BY <1>2, <1>3 DEF Smaller
<1> HIDE DEF m
<1>5. /\ IsInjective(object_stack') /\ Range(object_stack') = DOMAIN objects'
      /\ objects' = [x \in DOMAIN objects' |-> objects'[x]]
      /\ Len(object_stack') \in {m, m + 1}
      /\ \A i \in 1 .. m : /\ object_stack'[i] = object_stack[i]
                           /\ object_stack[i] \in DOMAIN objects
                           /\ objects'[object_stack[i]] = objects[object_stack[i]]
      /\ Len(object_stack') = m + 1 => object_stack'[m + 1] = id /\ objects'[id] = info
  BY <1>1 DEF LivingMoves, m
<1>6. \A i \in DOMAIN frames : frames[i].base <= Len(object_stack')
  <2>1. \A i \in DOMAIN frames : frames[i].base \in Nat /\ frames[i].base <= Len(object_stack)
    BY FrameFacts
  <2>2. \A i \in DOMAIN frames : frames[i].base <= m
    BY <1>2, <2>1 DEF m, Smaller
  <2> QED
    BY <1>3, <1>4, <1>5, <2>1, <2>2
<1>7. Objects(S, Allocated) \subseteq Objects(T, Allocated)'
  <2>1. Values(S, Allocated) \subseteq Values(T, Allocated')
    BY StepMore DEF Common, Inv, TypeInv
  <2> QED
    BY <2>1 DEF Objects
<1>8. \A x \in DOMAIN objects' : \/ \E i \in 1 .. m : x = object_stack[i]
                                 \/ (Len(object_stack') = m + 1 /\ x = id)
  <2>1. \A x \in DOMAIN objects' : \E i \in 1 .. Len(object_stack') : x = object_stack'[i]
    BY <1>3, <1>5 DEF Range
  <2>2. \A i \in 1 .. Len(object_stack') :
            i \in 1 .. m \/ (Len(object_stack') = m + 1 /\ i = m + 1)
    BY <1>4, <1>5
  <2> QED
    BY <1>5, <2>1, <2>2
<1>9. /\ \A x \in DOMAIN objects : objects[x] \in Objects(S, Allocated)
      /\ DOMAIN objects \subseteq DOMAIN ast
  BY DEF Inv, TypeInv
<1>10. ASSUME NEW x \in DOMAIN objects' PROVE objects'[x] \in Objects(T, Allocated)' /\ x \in DOMAIN ast
  <2>1. CASE \E i \in 1 .. m : x = object_stack[i]
    BY <1>5, <1>7, <1>9, <2>1
  <2>2. CASE Len(object_stack') = m + 1 /\ x = id
    BY <1>1, <1>5, <2>2 DEF NewObjectOK, Objects, m
  <2> QED
    BY <1>8, <2>1, <2>2
<1>11. objects' \in [DOMAIN objects' -> Objects(T, Allocated)'] /\ DOMAIN objects' \subseteq DOMAIN ast
  BY <1>5, <1>10
<1>12. PointerInv'
  <2> SUFFICES ASSUME NEW j \in 1 .. Len(object_stack')
               PROVE  PointerOK(j)'
    BY <1>3 DEF PointerInv
  <2>0. ast' = ast
    BY DEF Common
  <2>1. CASE j \in 1 .. m
    <3>1. PointerOK(j)
      BY <1>3, <1>4, <2>1 DEF Inv, PointerInv
    <3> SUFFICES ASSUME ast[object_stack[j]].tag = "pointer" PROVE PointerOK(j)'
      BY <1>5, <2>0, <2>1 DEF PointerOK
    <3>2. PICK i \in 1 .. j - 1 :
            /\ object_stack[i] = ast[object_stack[j]].fields[1]
            /\ ver(objects[object_stack[j]].type) = "pointer" =>
                   /\ ~objects[object_stack[i]].hidden /\ objects[object_stack[i]].place # 0
                   /\ allocations[objects[object_stack[i]].place].full
      BY <3>1 DEF PointerOK
    <3>3. i \in 1 .. m
      BY <1>4, <2>1
    <3>4. objects[object_stack[i]].place \in 0 .. Len(allocations)
      <4>1. objects[object_stack[i]] \in Values(S, Allocated)
        BY <1>5, <1>9, <3>3 DEF Objects
      <4> QED
        BY <4>1 DEF Values, Allocated
    <3>5. \A p \in 1 .. Len(allocations) : allocations[p].full => allocations'[p].full
      BY DEF Common, MoreMemory
    <3>6. /\ object_stack'[i] = object_stack[i] /\ object_stack'[j] = object_stack[j]
          /\ objects'[object_stack[i]] = objects[object_stack[i]]
          /\ objects'[object_stack[j]] = objects[object_stack[j]]
      BY <1>5, <2>1, <3>3
    <3>7. objects[object_stack[i]].place # 0 =>
              objects[object_stack[i]].place \in 1 .. Len(allocations)
      BY <3>4
    <3> QED
      BY <2>0, <3>2, <3>5, <3>6, <3>7 DEF PointerOK
  <2>2. CASE j = m + 1 /\ Len(object_stack') = m + 1
    <3>1. PointsWell(m, id, info, allocations')
      BY <1>1, <2>2 DEF NewObjectOK, m
    <3>2. object_stack'[j] = id /\ objects'[id] = info
      BY <1>5, <2>2
    <3> SUFFICES ASSUME ast[id].tag = "pointer" PROVE PointerOK(j)'
      BY <2>0, <3>2 DEF PointerOK
    <3>3. PICK i \in 1 .. m :
            /\ object_stack[i] = ast[id].fields[1]
            /\ ver(info.type) = "pointer" =>
                   /\ ~objects[object_stack[i]].hidden /\ objects[object_stack[i]].place # 0
                   /\ allocations'[objects[object_stack[i]].place].full
      BY <3>1 DEF PointsWell
    <3>4. /\ object_stack'[i] = object_stack[i]
          /\ objects'[object_stack[i]] = objects[object_stack[i]]
          /\ i \in 1 .. j - 1
      BY <1>4, <1>5, <2>2
    <3> QED
      BY <2>0, <3>2, <3>3, <3>4 DEF PointerOK
  <2> QED
    BY <1>4, <1>5, <2>1, <2>2
<1>13. ASSUME NEW f, KeptOK(f, ast, flow.count, DOMAIN labels)
       PROVE  KeptOK(f, ast, flow'.count, DOMAIN labels')
  <2>1. /\ DOMAIN labels \subseteq DOMAIN labels'
        /\ flow.count \in Nat /\ flow'.count \in Nat /\ flow.count <= flow'.count
    BY DEF Common, MoreLabels, MoreCode, FlowOK, Inv, TypeInv
  <2>2. Len(case_type) = 7
    BY DEF case_type
  <2>3. 1 .. flow.count - 2 \subseteq 1 .. flow'.count - 2
        /\ 2 .. flow.count - Len(case_type) \subseteq 2 .. flow'.count - Len(case_type)
    BY <2>1, <2>2
  <2> QED
    BY <1>13, <2>1, <2>3 DEF KeptOK
<1> QED
  BY <1>3, <1>5, <1>6, <1>11, <1>12, <1>13

\* A step that leaves the last frame keeps the invariant.
LEMMA EndsKeeps ==
    ASSUME NEW S, Inv(S), NEW T, NEW n, NEW id, Common(S, T, n, id), Ends(T, n, id)
    PROVE  Inv(T)'
<1>1. /\ objects' \in [DOMAIN objects' -> Objects(T, Allocated)'] /\ DOMAIN objects' \subseteq DOMAIN ast
      /\ IsInjective(object_stack') /\ Range(object_stack') = DOMAIN objects'
      /\ \A i \in DOMAIN frames : frames[i].base <= Len(object_stack')
      /\ PointerInv'
      /\ \A f : KeptOK(f, ast, flow.count, DOMAIN labels) =>
                KeptOK(f, ast, flow'.count, DOMAIN labels')
  BY CommonKeeps
<1>0. Len(frames) \in Nat /\ DOMAIN frames = 1 .. Len(frames)
  BY FrameFacts
<1>2. /\ \A i \in 1 .. Len(frames) : frames[i] \in Frame(S, Allocated) /\ frames[i].target \in DOMAIN ast
      /\ \A i \in 1 .. Len(frames) : ast[frames[i].target].tag = "pointer" => i = Len(frames)
  BY FrameFacts
<1>3. /\ ast' = ast /\ S \subseteq T
      /\ frames' = SubSeq(frames, 1, Len(frames) - 1)
      /\ loop_catcher' = loop_catcher \ {top.target}
      /\ \E r \in Values(T, Allocated') : control' = Returned(r)
  BY DEF Common, Ends, Pop, Front
<1>4. Len(frames) > 0
  <2>1. frames \in Seq(Frame(S, Allocated)) /\ frames # <<>>
    BY DEF Inv, TypeInv, Ends
  <2>2. Len(frames) # 0
    BY <2>1, EmptySeq
  <2> QED
    BY <1>0, <2>2
<1>5. /\ frames' \in Seq(Frame(S, Allocated)) /\ Len(frames') = Len(frames) - 1
      /\ \A i \in 1 .. Len(frames) - 1 : frames'[i] = frames[i]
      /\ DOMAIN frames' = 1 .. Len(frames) - 1
  <2> DEFINE k == Len(frames) - 1
  <2>0. k \in Nat /\ k <= Len(frames) /\ \A i \in 1 .. k : i \in 1 .. Len(frames)
    BY <1>0, <1>4
  <2>1. k \in Nat /\ k <= Len(frames) /\ \A i \in 1 .. k : frames[i] \in Frame(S, Allocated)
    BY <1>2, <2>0
  <2> HIDE DEF k
  <2>2. /\ SubSeq(frames, 1, k) \in Seq(Frame(S, Allocated))
        /\ Len(SubSeq(frames, 1, k)) = IF 1 <= k THEN k - 1 + 1 ELSE 0
        /\ \A i \in 1 .. k - 1 + 1 : SubSeq(frames, 1, k)[i] = frames[1 + i - 1]
    BY <2>1, SubSeqProperties
  <2>3. \A i \in 1 .. k : 1 + i - 1 = i
    BY <2>1
  <2>4. /\ SubSeq(frames, 1, k) \in Seq(Frame(S, Allocated)) /\ Len(SubSeq(frames, 1, k)) = k
        /\ \A i \in 1 .. k : SubSeq(frames, 1, k)[i] = frames[i]
    BY <2>1, <2>2, <2>3
  <2>5. DOMAIN SubSeq(frames, 1, k) = 1 .. k
    BY <2>4, LenProperties
  <2> QED
    BY <1>3, <2>4, <2>5 DEF k
<1>11. \A i \in DOMAIN frames' :
           i \in 1 .. Len(frames) /\ i # Len(frames) /\ frames'[i] = frames[i]
  BY <1>0, <1>5
<1>6. control' # Going
  BY <1>3 DEF Returned, Going
<1>7. TypeInv(T)'
  <2>1. /\ IsClosed(T) /\ ImvTypes \cup Fieldless \subseteq T
        /\ ast' \in Programs
        /\ object_stack' \in Seq(DOMAIN ast)
        /\ DOMAIN labels' \subseteq DOMAIN ast /\ LabelsOf(labels', flow'.count)
        /\ allocations' \in Seq(Allocation)
        /\ FlowOK(flow')
    BY DEF Common, Inv, TypeInv, LivingStep, MoreLabels, MoreMemory, MoreCode
  <2>2. frames' \in Seq(Frame(T, Allocated)')
    <3>1. Frame(T, Allocated)' = Frame(T, Allocated')
      BY <1>3 DEF Frame
    <3>2. Frame(S, Allocated) \subseteq Frame(T, Allocated')
      BY StepMore DEF Common, Inv, TypeInv
    <3>3. Seq(Frame(S, Allocated)) \subseteq Seq(Frame(T, Allocated'))
      BY <3>2, SeqMonotonic
    <3> QED
      BY <1>5, <3>1, <3>3
  <2>3. ControlOK(T, Allocated)'
    BY <1>3 DEF ControlOK
  <2>4. loop_catcher' \subseteq DOMAIN ast
    BY <1>3 DEF Inv, TypeInv
  <2> QED
    BY <1>1, <1>3, <2>1, <2>2, <2>3, <2>4 DEF TypeInv
<1>8. TablesAgree'
  <2> DEFINE before == [i \in DOMAIN frames |-> frames[i].target]
             after == [i \in 1 .. Len(frames) - 1 |-> frames[i].target]
  <2>1. IsInjective(before) /\ Range(before) = loop_catcher
    BY DEF Inv, TablesAgree
  <2>2. after = [i \in DOMAIN frames' |-> frames'[i].target]
    BY <1>5
  <2>3. /\ \A i \in 1 .. Len(frames) : i # Len(frames) => i \in 1 .. Len(frames) - 1
        /\ \A i \in 1 .. Len(frames) - 1 : i # Len(frames)
    <3>1. Len(frames) \in Nat
      BY <1>0
    <3>2. ASSUME NEW k \in Nat
          PROVE  /\ \A i \in 1 .. k : i # k => i \in 1 .. k - 1
                 /\ \A i \in 1 .. k - 1 : i # k
      OBVIOUS
    <3> QED
      BY <3>1, <3>2
  <2>9. \A i \in 1 .. Len(frames) - 1 : i \in 1 .. Len(frames)
    BY <1>0
  <2>4. IsInjective(after)
    BY <1>0, <2>1, <2>9 DEF IsInjective
  <2>5. Range(after) = loop_catcher \ {top.target}
    <3>1. \A x : x \in loop_catcher <=> \E i \in 1 .. Len(frames) : frames[i].target = x
      BY <1>0, <2>1 DEF Range
    <3>2. \A i \in 1 .. Len(frames) : i # Len(frames) => frames[i].target # top.target
      <4>1. Len(frames) \in 1 .. Len(frames)
        BY <1>0, <1>4
      <4> QED
        BY <1>0, <2>1, <4>1 DEF IsInjective, top
    <3>3. \A x : x \in Range(after) <=> \E i \in 1 .. Len(frames) - 1 : frames[i].target = x
      BY DEF Range
    <3>4. Len(frames) \in 1 .. Len(frames)
      BY <1>0, <1>4
    <3> HIDE DEF after
    <3>5. ASSUME NEW x \in Range(after) PROVE x \in loop_catcher \ {top.target}
      BY <2>3, <2>9, <3>1, <3>2, <3>3
    <3>6. ASSUME NEW x \in loop_catcher \ {top.target} PROVE x \in Range(after)
      BY <2>3, <3>1, <3>3, <3>4 DEF top
    <3> QED
      BY <3>5, <3>6
  <2> HIDE DEF after
  <2>6. IsInjective([i \in DOMAIN frames' |-> frames'[i].target])
        /\ Range([i \in DOMAIN frames' |-> frames'[i].target]) = loop_catcher'
    BY <1>3, <2>2, <2>4, <2>5
  <2> QED
    BY <1>1, <2>6 DEF TablesAgree
<1>9. ScopeInv'
  <2>1. \A i \in DOMAIN frames' : i \in 1 .. Len(frames) /\ i # Len(frames) /\ frames'[i] = frames[i]
    BY <1>11
  <2>2. \A i \in DOMAIN frames' : frames'[i].base <= Len(object_stack')
    BY <1>0, <1>1, <2>1
  <2>3. \A i, j \in DOMAIN frames' : i <= j => frames'[i].base <= frames'[j].base
    BY <1>0, <2>1 DEF Inv, ScopeInv
  <2>4. ASSUME NEW i \in DOMAIN frames', Entered(i)' PROVE EnteredOK(i)'
    <3>1. Entered(i)
      BY <1>3, <2>1, <2>4 DEF Entered
    <3>2. EnteredOK(i)
      BY <1>0, <2>1, <3>1 DEF Inv, ScopeInv
    <3>3. KeptOK(frames[i], ast, flow'.count, DOMAIN labels')
      BY <1>1, <3>2 DEF EnteredOK
    <3> QED
      BY <1>3, <2>1, <3>3 DEF EnteredOK
  <2> QED
    BY <2>2, <2>3, <2>4 DEF ScopeInv
<1>10. PointerFrameInv'
  <2>1. \A i \in DOMAIN frames' : i \in 1 .. Len(frames) /\ i # Len(frames) /\ frames'[i] = frames[i]
    BY <1>11
  <2> QED
    BY <1>2, <1>3, <2>1 DEF PointerFrameInv
<1> QED
  BY <1>1, <1>7, <1>8, <1>9, <1>10 DEF Inv

\* The part of the type invariant that no frame is in.
LEMMA CommonTypes ==
    ASSUME NEW S, Inv(S), NEW T, NEW n, NEW id, Common(S, T, n, id)
    PROVE  /\ IsClosed(T) /\ ImvTypes \cup Fieldless \subseteq T
           /\ ast' = ast /\ ast' \in Programs
           /\ object_stack' \in Seq(DOMAIN ast)
           /\ DOMAIN labels' \subseteq DOMAIN ast /\ LabelsOf(labels', flow'.count)
           /\ allocations' \in Seq(Allocation)
           /\ FlowOK(flow')
           /\ Frame(S, Allocated) \subseteq Frame(T, Allocated') /\ Frame(T, Allocated)' = Frame(T, Allocated')
<1>1. Frame(S, Allocated) \subseteq Frame(T, Allocated')
  BY StepMore DEF Common, Inv, TypeInv
<1>2. ast' = ast
  BY DEF Common
<1>3. Frame(T, Allocated)' = Frame(T, Allocated')
  BY <1>2 DEF Frame
<1> QED
  BY <1>1, <1>2, <1>3
  DEF Common, Inv, TypeInv, LivingStep, MoreLabels, MoreMemory, MoreCode

\* A step that leaves the frames where they are keeps the invariant.
LEMMA StaysKeeps ==
    ASSUME NEW S, Inv(S), NEW T, NEW n, NEW id, Common(S, T, n, id), Stays(T)
    PROVE  Inv(T)'
<1>0. Len(frames) \in Nat /\ DOMAIN frames = 1 .. Len(frames)
  BY FrameFacts
<1>1. /\ objects' \in [DOMAIN objects' -> Objects(T, Allocated)'] /\ DOMAIN objects' \subseteq DOMAIN ast
      /\ IsInjective(object_stack') /\ Range(object_stack') = DOMAIN objects'
      /\ \A i \in DOMAIN frames : frames[i].base <= Len(object_stack')
      /\ PointerInv'
      /\ \A f : KeptOK(f, ast, flow.count, DOMAIN labels) =>
                KeptOK(f, ast, flow'.count, DOMAIN labels')
  BY CommonKeeps
<1>2. /\ \A i \in DOMAIN frames : ast[frames[i].target].tag # "pointer"
      /\ \A i \in 1 .. Len(frames) :
            /\ i < Len(frames) => frames'[i] = frames[i]
            /\ frames'[i].target = frames[i].target /\ frames'[i].base = frames[i].base
      /\ loop_catcher' = loop_catcher
      /\ ControlOK(T, Allocated)'
  BY DEF Stays
<1>3. ast' = ast
  BY DEF Common
<1>4. Len(frames') = Len(frames) /\ DOMAIN frames' = DOMAIN frames /\ frames' \in Seq(Frame(T, Allocated'))
  <2>1. frames' \in Seq(Frame(T, Allocated')) /\ Len(frames') = Len(frames)
    BY DEF Stays
  <2> QED
    BY <1>0, <2>1, LenProperties
<1>5. TypeInv(T)'
  <2>1. frames' \in Seq(Frame(T, Allocated)')
    BY <1>4, CommonTypes
  <2>2. loop_catcher' \subseteq DOMAIN ast
    BY <1>2 DEF Inv, TypeInv
  <2> QED
    BY <1>1, <1>2, <2>1, <2>2, CommonTypes DEF TypeInv
<1>6. TablesAgree'
  <2>1. [i \in DOMAIN frames' |-> frames'[i].target] = [i \in DOMAIN frames |-> frames[i].target]
    BY <1>0, <1>2, <1>4
  <2>2. /\ IsInjective([i \in DOMAIN frames |-> frames[i].target])
        /\ Range([i \in DOMAIN frames |-> frames[i].target]) = loop_catcher
    BY DEF Inv, TablesAgree
  <2>3. /\ IsInjective([i \in DOMAIN frames' |-> frames'[i].target])
        /\ Range([i \in DOMAIN frames' |-> frames'[i].target]) = loop_catcher'
    BY <1>2, <2>1, <2>2
  <2> QED
    BY <1>1, <2>3 DEF TablesAgree
<1>7. ScopeInv'
  <2>1. \A i \in DOMAIN frames' : frames'[i].base <= Len(object_stack')
    BY <1>0, <1>1, <1>2, <1>4
  <2>2. \A i, j \in DOMAIN frames' : i <= j => frames'[i].base <= frames'[j].base
    BY <1>0, <1>2, <1>4 DEF Inv, ScopeInv
  <2>3. ASSUME NEW i \in DOMAIN frames', Entered(i)' PROVE EnteredOK(i)'
    <3>1. CASE i < Len(frames)
      <4>1. frames'[i] = frames[i] /\ i \in DOMAIN frames /\ i # Len(frames)
        BY <1>0, <1>2, <1>4, <3>1
      <4>2. Entered(i)
        BY <1>3, <2>3, <4>1 DEF Entered
      <4>3. EnteredOK(i)
        BY <4>1, <4>2 DEF Inv, ScopeInv
      <4>4. KeptOK(frames[i], ast, flow'.count, DOMAIN labels')
        BY <1>1, <4>3 DEF EnteredOK
      <4> QED
        BY <1>3, <4>1, <4>4 DEF EnteredOK
    <3>2. CASE i = Len(frames)
      <4>1. Len(frames) # 0
        BY <1>0, <1>4, <3>2
      <4>2. frames # <<>>
        BY <4>1
      <4> QED
        BY <2>3, <3>2, <4>2 DEF Stays
    <3>3. i \in 1 .. Len(frames)
      BY <1>0, <1>4
    <3>4. i < Len(frames) \/ i = Len(frames)
      BY <1>0, <3>3
    <3> QED
      BY <3>1, <3>2, <3>4
  <2> QED
    BY <2>1, <2>2, <2>3 DEF ScopeInv
<1>8. PointerFrameInv'
  BY <1>0, <1>2, <1>3, <1>4 DEF PointerFrameInv
<1> QED
  BY <1>1, <1>5, <1>6, <1>7, <1>8 DEF Inv

\* The begin of a frame keeps the invariant.
LEMMA BeginKeeps ==
    ASSUME NEW S, Inv(S), NEW T, NEW n, NEW id, Common(S, T, n, id), begin
    PROVE  Inv(T)'
<1> DEFINE started == [target |-> control.target, degree |-> control.degree,
                       base |-> Len(object_stack), results |-> <<>>, mark |-> 0, merge |-> 0]
<1>0. Len(frames) \in Nat /\ DOMAIN frames = 1 .. Len(frames) /\ Len(object_stack) \in Nat
  BY FrameFacts
<1>1. /\ objects' \in [DOMAIN objects' -> Objects(T, Allocated)'] /\ DOMAIN objects' \subseteq DOMAIN ast
      /\ IsInjective(object_stack') /\ Range(object_stack') = DOMAIN objects'
      /\ \A i \in DOMAIN frames : frames[i].base <= Len(object_stack')
      /\ PointerInv'
      /\ \A f : KeptOK(f, ast, flow.count, DOMAIN labels) =>
                KeptOK(f, ast, flow'.count, DOMAIN labels')
  BY CommonKeeps
<1>2. /\ control.kind = "call" /\ ast' = ast /\ object_stack' = object_stack
      /\ loop_catcher' = loop_catcher \cup {control.target} /\ control.target \notin loop_catcher
      /\ control.target # 0
      /\ frames' = Append(frames, started) /\ control' = Going
  BY DEF begin, Call, living
<1>3. control # Going /\ control.target \in DOMAIN ast /\ control.degree \in {0, 2}
  BY <1>2 DEF Inv, TypeInv, ControlOK, Going, Called, Returned
<1>4. started \in Frame(T, Allocated')
  <2>1. <<>> \in Seq(Values(T, Allocated'))
    OBVIOUS
  <2> QED
    BY <1>0, <1>3, <2>1 DEF Frame
<1> HIDE DEF started
<1>5. /\ frames' \in Seq(Frame(T, Allocated')) /\ Len(frames') = Len(frames) + 1
      /\ \A i \in 1 .. Len(frames) : frames'[i] = frames[i]
      /\ frames'[Len(frames) + 1] = started
  <2>1. frames \in Seq(Frame(S, Allocated)) /\ Frame(S, Allocated) \subseteq Frame(T, Allocated')
    BY CommonTypes DEF Inv, TypeInv
  <2>2. frames \in Seq(Frame(T, Allocated'))
    BY <2>1, SeqMonotonic
  <2> QED
    BY <1>2, <1>4, <2>2, AppendProperties
<1>6. DOMAIN frames' = 1 .. Len(frames) + 1
  BY <1>5, LenProperties
<1>7. \A i \in DOMAIN frames' : \/ i \in 1 .. Len(frames) /\ frames'[i] = frames[i]
                                \/ i = Len(frames) + 1 /\ frames'[i] = started
  <2>1. \A i \in 1 .. Len(frames) + 1 : i \in 1 .. Len(frames) \/ i = Len(frames) + 1
    BY <1>0
  <2> QED
    BY <1>5, <1>6, <2>1
<1>8. started.base = Len(object_stack) /\ started.target = control.target /\ started.results = <<>>
  BY DEF started
<1>9. TypeInv(T)'
  <2>1. frames' \in Seq(Frame(T, Allocated)')
    BY <1>5, CommonTypes
  <2>2. loop_catcher' \subseteq DOMAIN ast
    BY <1>2, <1>3 DEF Inv, TypeInv
  <2>3. ControlOK(T, Allocated)'
    BY <1>2 DEF ControlOK, Going
  <2> QED
    BY <1>1, <2>1, <2>2, <2>3, CommonTypes DEF TypeInv
<1>10. TablesAgree'
  <2> DEFINE before == [i \in DOMAIN frames |-> frames[i].target]
             after == [i \in DOMAIN frames' |-> frames'[i].target]
  <2>1. IsInjective(before) /\ Range(before) = loop_catcher
    BY DEF Inv, TablesAgree
  <2>2. \A i \in DOMAIN frames' : \/ i \in 1 .. Len(frames) /\ after[i] = before[i]
                                  \/ i = Len(frames) + 1 /\ after[i] = control.target
    BY <1>0, <1>7, <1>8
  <2>3. /\ DOMAIN before = 1 .. Len(frames) /\ DOMAIN after = DOMAIN frames'
        /\ \A i \in 1 .. Len(frames) : i \in DOMAIN frames'
        /\ Len(frames) + 1 \in DOMAIN frames'
        /\ \A i \in 1 .. Len(frames) : i # Len(frames) + 1
    BY <1>0, <1>6
  <2> HIDE DEF before, after
  <2>4. \A i \in 1 .. Len(frames) : before[i] \in loop_catcher
    BY <2>1, <2>3 DEF Range
  <2>5. IsInjective(after)
    BY <1>2, <2>1, <2>2, <2>3, <2>4 DEF IsInjective
  <2>6. Range(after) = loop_catcher'
    <3>1. ASSUME NEW x \in Range(after) PROVE x \in loop_catcher'
      BY <1>2, <2>2, <2>3, <2>4, <3>1 DEF Range
    <3>2. ASSUME NEW x \in loop_catcher PROVE x \in Range(after)
      <4>1. PICK i \in 1 .. Len(frames) : before[i] = x
        BY <2>1, <2>3 DEF Range
      <4> QED
        BY <2>2, <2>3, <4>1 DEF Range
    <3>3. control.target \in Range(after)
      BY <2>2, <2>3 DEF Range
    <3> QED
      BY <1>2, <3>1, <3>2, <3>3
  <2> QED
    BY <1>1, <2>5, <2>6 DEF TablesAgree, after
<1>11. ScopeInv'
  <2>1. \A i \in DOMAIN frames' : frames'[i].base <= Len(object_stack')
    BY <1>0, <1>1, <1>2, <1>7, <1>8
  <2>2. ASSUME NEW i \in DOMAIN frames', NEW j \in DOMAIN frames', i <= j
        PROVE  frames'[i].base <= frames'[j].base
    <3>1. CASE j \in 1 .. Len(frames)
      <4>1. i \in 1 .. Len(frames)
        BY <1>0, <1>6, <2>2, <3>1
      <4> QED
        BY <1>0, <1>5, <2>2, <3>1, <4>1 DEF Inv, ScopeInv
    <3>2. CASE j = Len(frames) + 1
      <4>1. j \notin 1 .. Len(frames)
        BY <1>0, <3>2
      <4>2. frames'[j].base = Len(object_stack')
        BY <1>2, <1>7, <1>8, <4>1
      <4> QED
        BY <2>1, <4>2
    <3> QED
      BY <1>7, <3>1, <3>2
  <2>3. ASSUME NEW i \in DOMAIN frames', Entered(i)' PROVE EnteredOK(i)'
    <3>1. i # Len(frames')
      BY <1>2, <2>3 DEF Entered
    <3>2. i \in 1 .. Len(frames) /\ frames'[i] = frames[i]
      BY <1>5, <1>7, <3>1
    <3>3. Entered(i)
      BY <1>2, <1>3, <2>3, <3>2 DEF Entered
    <3>4. EnteredOK(i)
      BY <1>0, <3>2, <3>3 DEF Inv, ScopeInv
    <3>5. KeptOK(frames[i], ast, flow'.count, DOMAIN labels')
      BY <1>1, <3>4 DEF EnteredOK
    <3> QED
      BY <1>2, <3>2, <3>5 DEF EnteredOK
  <2> QED
    BY <2>1, <2>2, <2>3 DEF ScopeInv
<1>12. PointerFrameInv'
  <2>1. \A i \in 1 .. Len(frames) : ast[frames[i].target].tag # "pointer"
    BY <1>0, <1>3 DEF Inv, PointerFrameInv
  <2> QED
    BY <1>2, <1>5, <1>7, <1>8, <2>1 DEF PointerFrameInv
<1> QED
  BY <1>1, <1>9, <1>10, <1>11, <1>12 DEF Inv

\* The invariant is kept by every step that is one of the three.
LEMMA OneStepKeeps ==
    ASSUME NEW S, Inv(S), OneStep(S)
    PROVE  CompilerInv'
<1>1. PICK T, n, id : Common(S, T, n, id) /\ (Ends(T, n, id) \/ Stays(T) \/ begin)
  BY DEF OneStep
<1>2. Inv(T)'
  BY <1>1, EndsKeeps, StaysKeeps, BeginKeeps
<1> QED
  BY <1>2 DEF CompilerInv

-----------------------------------------------------------------------------
(* How frames end *)

\* The last frame.
LEMMA TopFacts ==
    ASSUME NEW S, Inv(S), frames # <<>>
    PROVE  /\ Len(frames) \in Nat /\ Len(frames) \in 1 .. Len(frames)
           /\ Len(object_stack) \in Nat /\ top \in Frame(S, Allocated)
           /\ top.target \in DOMAIN ast /\ top.degree \in {0, 2}
           /\ top.base \in Nat /\ top.base <= Len(object_stack)
           /\ \A i \in DOMAIN frames : frames[i].base <= top.base
           /\ results = top.results /\ results \in Seq(Values(S, Allocated)) /\ Len(results) \in Nat
           /\ \A i \in 1 .. Len(results) : results[i] \in Values(S, Allocated)
           /\ top.mark \in Nat /\ top.merge \in Nat
<1>1. /\ Len(frames) \in Nat /\ DOMAIN frames = 1 .. Len(frames)
      /\ Len(object_stack) \in Nat
  BY FrameFacts
<1>2. Len(frames) \in 1 .. Len(frames)
  <2>1. frames \in Seq(Frame(S, Allocated))
    BY DEF Inv, TypeInv
  <2>2. Len(frames) # 0
    BY <2>1, EmptySeq
  <2> QED
    BY <1>1, <2>2
<1>3. /\ top \in Frame(S, Allocated)
      /\ top.target \in DOMAIN ast /\ top.degree \in {0, 2}
      /\ top.base \in Nat /\ top.base <= Len(object_stack)
      /\ top.results \in Seq(Values(S, Allocated))
      /\ top.mark \in Nat /\ top.merge \in Nat
  BY <1>2, FrameFacts DEF top
<1>4. \A i \in DOMAIN frames : frames[i].base <= top.base
  BY FrameFacts
<1>5. Len(results) \in Nat /\ \A i \in 1 .. Len(results) : results[i] \in Values(S, Allocated)
  BY <1>3, LenProperties, ElementOfSeq DEF results
<1> QED
  BY <1>1, <1>2, <1>3, <1>4, <1>5 DEF results

\* The parts of a value.
LEMMA ValueFacts ==
    ASSUME NEW S, NEW count, NEW v \in Values(S, count)
    PROVE  /\ v.error \in Codes /\ v.type \in S /\ v.place \in 0 .. count /\ v.made \in Nat
           /\ v.hidden \in BOOLEAN /\ v.subtype \in BOOLEAN
           /\ v.constant \in Constants(S) /\ Sized(v.type, v.constant)
BY DEF Values

\* The fields that the last frame has compiled.
LEMMA ResultFacts ==
    ASSUME NEW S, Inv(S), frames # <<>>, NEW i \in 1 .. Len(results)
    PROVE  /\ results[i] \in Values(S, Allocated)
           /\ results[i].type \in S /\ results[i].place \in 0 .. Allocated
           /\ results[i].constant \in Constants(S) /\ Sized(results[i].type, results[i].constant)
<1>1. results[i] \in Values(S, Allocated)
  BY TopFacts
<1> QED
  BY <1>1, ValueFacts

\* The AST of the last frame, and any other.
LEMMA ASTFacts ==
    ASSUME NEW S, Inv(S), NEW id \in DOMAIN ast
    PROVE  /\ id # 0
           /\ ast[id].fields \in Seq(DOMAIN ast \cup {0})
           /\ Len(ast[id].fields) >= pointer_fields(ast[id].tag)
           /\ ast[id].type \in S /\ ast[id].type # does_not_return
           /\ ast[id].constant \in Constants(S)
           /\ Sized(ast[id].type, ast[id].constant)
<1>1. IsAST(ast[id], DOMAIN ast) /\ id # 0
  BY ProgramsAssumption DEF Inv, TypeInv
<1>2. ImvTypes \subseteq S
  BY DEF Inv, TypeInv
<1>3. [number : 0 .. Huge, type : ImvTypes] \subseteq [number : 0 .. Huge, type : S]
  BY <1>2
<1>4. ast[id].constant \in Constants(S)
  <2>1. ast[id].constant \in Seq([number : 0 .. Huge, type : ImvTypes])
    BY <1>1 DEF IsAST
  <2>2. Seq([number : 0 .. Huge, type : ImvTypes]) \subseteq Seq([number : 0 .. Huge, type : S])
    BY <1>3, SeqMonotonic
  <2> QED
    BY <2>1, <2>2 DEF Constants
<1> QED
  BY <1>1, <1>2, <1>4 DEF IsAST, Sized

\* Every type in use has a size.
LEMMA SizeFacts ==
    ASSUME NEW S, IsClosed(S), NEW t \in S
    PROVE  /\ get_size(t) \in Nat
           /\ get_size(t) > 0 => t # does_not_return /\ t # null
           /\ get_size(t) = 0 => t = does_not_return \/ t = null
<1>1. /\ Components(t) \in Seq(S)
      /\ get_size(t) = IF t = does_not_return THEN 0 ELSE Len(Components(t))
      /\ t = null <=> Components(t) = <<>>
  BY TypeFacts
<1>2. Len(Components(t)) \in Nat /\ (Len(Components(t)) = 0 <=> Components(t) = <<>>)
  BY <1>1, LenProperties, EmptySeq
<1> QED
  BY <1>1, <1>2

\* A Return_Info put together from its parts.
LEMMA IsValue ==
    ASSUME NEW S, NEW count, NEW error \in Codes, NEW type \in S, NEW place \in 0 .. count,
           NEW hidden \in BOOLEAN, NEW made \in Nat, NEW constant \in Constants(S),
           NEW subtype \in BOOLEAN, Sized(type, constant)
    PROVE  [error |-> error, type |-> type, place |-> place, hidden |-> hidden, made |-> made,
            constant |-> constant, subtype |-> subtype] \in Values(S, count)
BY DEF Values

\* A value need not be a constant.
LEMMA NoConstantFits ==
    ASSUME NEW S, NEW type \in S, type # does_not_return
    PROVE  NoConstant \in Constants(S) /\ Sized(type, NoConstant)
<1>1. <<>> \in Seq([number : 0 .. Huge, type : S])
  OBVIOUS
<1> QED
  BY <1>1 DEF NoConstant, Constants, Sized

\* The null object and the errors are values.
LEMMA NullIsValue ==
    ASSUME NEW S, NEW count \in Nat, Fieldless \subseteq S
    PROVE  /\ NullObject \in Values(S, count)
           /\ \A code \in Codes : Error(code) \in Values(S, count) /\ Error(code).error = code
<1>1. null \in S /\ null # does_not_return
  BY Names DEF Fieldless
<1>2. NoConstant \in Constants(S) /\ Sized(null, NoConstant)
  BY <1>1, NoConstantFits
<1>0. 0 \in 0 .. count /\ 0 \in Nat /\ FALSE \in BOOLEAN
  OBVIOUS
<1>3. NullObject = [error |-> "no_error", type |-> null, place |-> 0, hidden |-> FALSE,
                    made |-> 0, constant |-> NoConstant, subtype |-> FALSE]
  BY DEF NullObject, Value
<1>4. ASSUME NEW code \in Codes
      PROVE  Error(code) = [error |-> code, type |-> null, place |-> 0, hidden |-> FALSE,
                            made |-> 0, constant |-> NoConstant, subtype |-> FALSE]
  <2> DEFINE none == "no_error"
             no == FALSE
             nowhere == 0
  <2>1. NullObject = [error |-> none, type |-> null, place |-> nowhere, hidden |-> no,
                      made |-> nowhere, constant |-> NoConstant, subtype |-> no]
    BY <1>3
  <2> HIDE DEF none, no, nowhere
  <2>2. Error(code) = [error |-> code, type |-> null, place |-> nowhere, hidden |-> no,
                       made |-> nowhere, constant |-> NoConstant, subtype |-> no]
    BY <2>1 DEF Error
  <2> QED
    BY <2>2 DEF no, nowhere
<1>5. \A code \in Codes : Error(code) \in Values(S, count)
  BY <1>0, <1>1, <1>2, <1>4, IsValue
<1>6. NullObject \in Values(S, count)
  <2>1. [error |-> "no_error", type |-> null, place |-> 0, hidden |-> FALSE, made |-> 0,
         constant |-> NoConstant, subtype |-> FALSE] \in Values(S, count)
    <3>1. ASSUME NEW code \in Codes
          PROVE  [error |-> code, type |-> null, place |-> 0, hidden |-> FALSE, made |-> 0,
                  constant |-> NoConstant, subtype |-> FALSE] \in Values(S, count)
      BY <1>0, <1>1, <1>2, IsValue
    <3>2. "no_error" \in Codes
      BY DEF Codes
    <3> QED
      BY <3>1, <3>2, Zenon
  <2> QED
    BY <1>3, <2>1, Zenon
<1> QED
  BY <1>4, <1>5, <1>6

\* Labels stay labels when there is more code.
LEMMA LabelsStay ==
    ASSUME NEW S, Inv(S), labels' = labels, MoreCode(flow')
    PROVE  MoreLabels
<1>1. LabelsOf(labels, flow.count) /\ DOMAIN labels \subseteq DOMAIN ast
  BY DEF Inv, TypeInv
<1>2. flow.count \in Nat /\ flow'.count \in Nat /\ flow.count <= flow'.count
  BY DEF MoreCode, FlowOK, Inv, TypeInv
<1>3. \A b \in 1 .. flow.count : b \in 1 .. flow'.count
  BY <1>2
<1>4. LabelsOf(labels, flow'.count)
  BY <1>1, <1>3 DEF LabelsOf
<1> QED
  BY <1>1, <1>4 DEF MoreLabels

\* No memory and no code is added.
LEMMA MemoryStays ==
    ASSUME NEW S, Inv(S)
    PROVE  MoreMemory(allocations) /\ MoreCode(flow) /\ Len(allocations) \in Nat
           /\ FlowOK(flow)
<1>1. allocations \in Seq(Allocation) /\ FlowOK(flow)
  BY DEF Inv, TypeInv
<1>2. Len(allocations) \in Nat /\ flow.count \in Nat
  BY <1>1, LenProperties DEF FlowOK
<1> QED
  BY <1>1, <1>2 DEF MoreMemory, MoreCode

\* One memory_allocation more.
LEMMA MemoryGrows ==
    ASSUME NEW S, Inv(S), NEW all, MoreMemory(all),
           NEW names \in {"alloca", "allocate", "value"} \X Nat
    PROVE  /\ MoreMemory(new_reference(all, names))
           /\ Len(new_reference(all, names)) = Len(all) + 1 /\ Len(all) \in Nat
           /\ \A i \in 1 .. Len(all) : new_reference(all, names)[i] = all[i]
<1> DEFINE fresh == [names |-> names, full |-> FALSE]
<1>1. /\ all \in Seq(Allocation) /\ Len(all) >= Len(allocations)
      /\ \A i \in 1 .. Len(allocations) : allocations[i].full => all[i].full
  BY DEF MoreMemory
<1>2. Len(allocations) \in Nat /\ Len(all) \in Nat
  BY <1>1, MemoryStays, LenProperties
<1>3. fresh \in Allocation
  BY DEF Allocation
<1>4. new_reference(all, names) = Append(all, fresh)
  BY DEF new_reference
<1> HIDE DEF fresh
<1>5. /\ Append(all, fresh) \in Seq(Allocation) /\ Len(Append(all, fresh)) = Len(all) + 1
      /\ \A i \in 1 .. Len(all) : Append(all, fresh)[i] = all[i]
  BY <1>1, <1>3, AppendProperties
<1>6. \A i \in 1 .. Len(allocations) : i \in 1 .. Len(all)
  BY <1>1, <1>2
<1>7. Len(Append(all, fresh)) >= Len(allocations)
  BY <1>1, <1>2, <1>5
<1> QED
  BY <1>1, <1>2, <1>4, <1>5, <1>6, <1>7 DEF MoreMemory

\* One alloca more.
LEMMA AllocaGrows ==
    ASSUME NEW S, Inv(S), NEW all, MoreMemory(all)
    PROVE  /\ MoreMemory(create_actual_alloca(all))
           /\ Len(create_actual_alloca(all)) = Len(all) + 1 /\ Len(all) \in Nat
           /\ \A i \in 1 .. Len(all) : create_actual_alloca(all)[i] = all[i]
<1>1. Len(all) \in Nat
  BY LenProperties DEF MoreMemory
<1> DEFINE names == <<"alloca", Len(all) + 1>>
<1>2. names \in {"alloca", "allocate", "value"} \X Nat
  BY <1>1
<1>3. create_actual_alloca(all) = new_reference(all, names)
  BY DEF create_actual_alloca, new_reference
<1> HIDE DEF names
<1> QED
  BY <1>2, <1>3, MemoryGrows

\* turn_full: the allocation is a heap object from then on.
LEMMA TurnFullGrows ==
    ASSUME NEW S, Inv(S), NEW p \in 1 .. Len(allocations)
    PROVE  /\ MoreMemory(turn_full(p)) /\ Len(turn_full(p)) = Len(allocations)
           /\ turn_full(p)[p].full
<1>1. allocations \in Seq(Allocation) /\ Len(allocations) \in Nat
  BY LenProperties DEF Inv, TypeInv
<1>2. CASE allocations[p].full
  BY <1>2, MemoryStays DEF turn_full
<1>3. CASE ~allocations[p].full
  <2> DEFINE moved == [names |-> <<"allocate", p>>, full |-> TRUE]
  <2>1. turn_full(p) = [allocations EXCEPT ![p] = moved]
    BY <1>3 DEF turn_full
  <2>2. moved \in Allocation /\ moved.full
    BY <1>1 DEF Allocation
  <2> HIDE DEF moved
  <2>3. /\ [allocations EXCEPT ![p] = moved] \in Seq(Allocation)
        /\ Len([allocations EXCEPT ![p] = moved]) = Len(allocations)
        /\ \A i \in 1 .. Len(allocations) :
              [allocations EXCEPT ![p] = moved][i] = IF i = p THEN moved ELSE allocations[i]
    BY <1>1, <2>2, ExceptSeq
  <2> QED
    BY <1>1, <2>1, <2>2, <2>3 DEF MoreMemory
<1> QED
  BY <1>2, <1>3

\* The living objects stay.
LEMMA LivingStays ==
    ASSUME NEW S, Inv(S), object_stack' = object_stack, objects' = objects, ast' = ast, NEW T, NEW id
    PROVE  Keeps(Len(object_stack)) /\ LivingStep(T, Len(object_stack), id)
<1>1. /\ object_stack \in Seq(DOMAIN ast) /\ Len(object_stack) \in Nat
      /\ DOMAIN object_stack = 1 .. Len(object_stack)
      /\ IsInjective(object_stack) /\ Range(object_stack) = DOMAIN objects
      /\ objects = [x \in DOMAIN objects |-> objects[x]]
  BY FrameFacts DEF Inv, TypeInv, TablesAgree
<1>2. Smaller(Len(object_stack), Len(object_stack)) = Len(object_stack)
  BY DEF Smaller
<1>3. \A i \in 1 .. Len(object_stack) : object_stack[i] \in DOMAIN objects
  BY <1>1 DEF Range
<1>4. Len(object_stack) # Len(object_stack) + 1
  <2>1. Len(object_stack) \in Nat
    BY FrameFacts
  <2> QED
    BY <2>1
<1>5. \A info : LivingMoves(Len(object_stack), id, info)
  BY <1>1, <1>2, <1>3, <1>4 DEF LivingMoves
<1>6. Keeps(Len(object_stack))
  BY <1>1, FrameFacts DEF Keeps
<1> QED
  BY <1>1, <1>2, <1>4, <1>5, <1>6 DEF LivingStep

\* A step that changes neither objects nor labels nor memory.
LEMMA NothingCommon ==
    ASSUME NEW S, Inv(S), MoreCode(flow'), NEW id,
           UNCHANGED <<ast, living, labels, allocations>>
    PROVE  Common(S, S, Len(object_stack), id)
<1>1. object_stack' = object_stack /\ objects' = objects /\ ast' = ast /\ labels' = labels
      /\ allocations' = allocations
  BY DEF living
<1>2. MoreLabels
  BY <1>1, LabelsStay
<1>3. MoreMemory(allocations')
  BY <1>1, MemoryStays
<1>4. Keeps(Len(object_stack)) /\ LivingStep(S, Len(object_stack), id)
  BY <1>1, LivingStays
<1> QED
  BY <1>1, <1>2, <1>3, <1>4 DEF Common, Inv, TypeInv

\* return_code: nothing but the frame goes.
LEMMA ReturnCodeEnds ==
    ASSUME NEW S, Inv(S), frames # <<>>, NEW code \in Codes, code # "no_error",
           return_code(code), MoreCode(flow'), UNCHANGED <<ast, labels>>
    PROVE  OneStep(S)
<1>1. Pop /\ control' = Returned(Error(code)) /\ UNCHANGED <<ast, living, labels, allocations>>
  BY DEF return_code
<1>2. Error(code) \in Values(S, Allocated') /\ Error(code).error = code
  <2>1. Allocated' = Allocated /\ Allocated \in Nat
    BY <1>1, MemoryStays DEF Allocated
  <2>2. Allocated' \in Nat
    BY <2>1
  <2> QED
    BY <2>2, NullIsValue DEF Inv, TypeInv
<1>3. control'.result.error = code
  BY <1>1, <1>2 DEF Returned
<1>4. Ends(S, Len(object_stack), top.target)
  BY <1>1, <1>2, <1>3 DEF Ends
<1>5. Common(S, S, Len(object_stack), top.target)
  BY <1>1, NothingCommon
<1> QED
  BY <1>4, <1>5 DEF OneStep

\* return_code, with the code as it is.
LEMMA RefusedEnds ==
    ASSUME NEW S, Inv(S), frames # <<>>, NEW code \in Codes, code # "no_error",
           Refused(code), UNCHANGED <<ast, labels>>
    PROVE  OneStep(S)
BY ReturnCodeEnds, MemoryStays DEF Refused

\* How far a frame that succeeds cuts the stack.
FinalCut(keep) == IF top.degree = 2 THEN top.base ELSE keep

\* finish_internal: a value of a known type, and perhaps an object that holds it.
LEMMA FinishEnds ==
    ASSUME NEW S, Inv(S), frames # <<>>, NEW T, S \subseteq T, IsClosed(T),
           NEW keep \in Nat, top.base <= keep,
           NEW all, MoreMemory(all), NEW place \in 0 .. Len(all),
           NEW type \in T, NEW constant,
           get_size(type) > 0 => constant \in Constants(T) /\ Sized(type, constant),
           NEW fl, MoreCode(fl), finish_in(keep, place, all, type, constant, fl),
           ast' = ast, MoreLabels,
           \A info : info.type = type =>
               PointsWell(Smaller(FinalCut(keep), Len(object_stack)), top.target, info, allocations')
    PROVE  OneStep(S)
<1> DEFINE n == FinalCut(keep)
           stack == clear_stack(n)
           statement == top.degree = 2
           placed == IF statement /\ place = 0 THEN create_actual_alloca(all) ELSE all
           where == IF statement /\ place = 0 THEN Len(placed) ELSE place
           info == Value(type, where, place # 0, fl.block, constant, FALSE)
<1>1. /\ top.target \in DOMAIN ast /\ n \in Nat /\ top.base \in Nat
      /\ \A i \in DOMAIN frames : frames[i].base <= top.base /\ frames[i].base \in Nat
  BY TopFacts, FrameFacts DEF FinalCut
<1>2. Keeps(n)
  BY <1>1 DEF Keeps, FinalCut
<1>3. /\ object_stack \in Seq(DOMAIN ast) /\ IsInjective(object_stack)
      /\ Range(object_stack) = DOMAIN objects /\ Fieldless \subseteq T
  BY DEF Inv, TypeInv, TablesAgree
<1>4. FinalStack(keep) = stack
  BY DEF FinalStack, FinalCut
<1>5. /\ MoreMemory(placed) /\ Len(placed) \in Nat /\ Len(all) \in Nat /\ where \in 0 .. Len(placed)
      /\ statement => where # 0
  BY AllocaGrows, LenProperties DEF MoreMemory
<1>6. Pop /\ flow' = fl
  BY DEF finish_in
<1>7. CASE get_size(type) = 0
  <2>1. /\ object_stack' = stack /\ objects' = KeepObjects(stack) /\ allocations' = all
        /\ control' = Returned(NullObject)
    BY <1>4, <1>7 DEF finish_in
  <2>2. /\ object_stack' \in Seq(DOMAIN ast) /\ LivingMoves(n, top.target, NullObject)
        /\ Len(object_stack') = Smaller(n, Len(object_stack))
    BY <1>1, <1>3, <2>1, CutMoves
  <2>3. LivingStep(T, n, top.target)
    <3>1. Smaller(n, Len(object_stack)) \in Nat
      BY <2>2 DEF LivingMoves
    <3>2. Len(object_stack') # Smaller(n, Len(object_stack)) + 1
      BY <2>2, <3>1
    <3> QED
      BY <2>2, <3>2 DEF LivingStep
  <2>4. Common(S, T, n, top.target)
    BY <1>2, <1>6, <2>1, <2>3 DEF Common
  <2>5. NullObject \in Values(T, Allocated')
    <3>1. Allocated' \in Nat
      BY <1>5, <2>1 DEF Allocated
    <3> QED
      BY <1>3, <3>1, NullIsValue
  <2>6. Ends(T, n, top.target)
    BY <1>6, <2>1, <2>5 DEF Ends, FinalCut
  <2> QED
    BY <2>4, <2>6 DEF OneStep
<1>8. CASE get_size(type) # 0
  <2>1. /\ new_living_object(stack, top.target, info) /\ allocations' = placed
        /\ control' = Returned(info)
    BY <1>4, <1>8 DEF finish_in
  <2>2. object_stack' \in Seq(DOMAIN ast) /\ LivingMoves(n, top.target, info)
    BY <1>1, <1>3, <2>1, NewObjectMoves
  <2>3. get_size(type) > 0
    BY <1>8, SizeFacts
  <2>4. info \in Values(T, Allocated') /\ info.type = type /\ info.place = where
    <3>1. info = [error |-> "no_error", type |-> type, place |-> where, hidden |-> place # 0,
                  made |-> fl.block, constant |-> IF where = 0 THEN constant ELSE NoConstant,
                  subtype |-> FALSE]
      BY DEF Value
    <3>2. type # does_not_return
      BY <2>3, SizeFacts
    <3>3. NoConstant \in Constants(T) /\ Sized(type, NoConstant)
      BY <3>2, NoConstantFits
    <3>4. fl.block \in Nat
      BY DEF MoreCode, FlowOK
    <3> DEFINE code == "no_error"
               own == place # 0
               no == FALSE
               made == fl.block
               known == IF where = 0 THEN constant ELSE NoConstant
    <3>9. where \in 0 .. Allocated'
      BY <1>5, <2>1 DEF Allocated
    <3>5. code \in Codes /\ own \in BOOLEAN /\ no \in BOOLEAN
      BY DEF Codes
    <3>6. known \in Constants(T) /\ Sized(type, known)
      BY <2>3, <3>3
    <3>7. info = [error |-> code, type |-> type, place |-> where, hidden |-> own,
                  made |-> made, constant |-> known, subtype |-> no]
      BY <3>1
    <3>8. made \in Nat
      BY <3>4
    <3> HIDE DEF info, where, code, own, no, known, made
    <3> QED
      BY <3>5, <3>6, <3>7, <3>8, <3>9, IsValue
  <2> HIDE DEF info, where, placed
  <2>5. NewObjectOK(T, Smaller(n, Len(object_stack)), top.target, info)
    BY <1>1, <1>5, <2>1, <2>3, <2>4 DEF NewObjectOK
  <2>6. LivingStep(T, n, top.target)
    BY <2>2, <2>5 DEF LivingStep
  <2>7. Common(S, T, n, top.target)
    BY <1>2, <1>5, <1>6, <2>1, <2>6 DEF Common
  <2>8. Ends(T, n, top.target)
    BY <1>6, <2>1, <2>4 DEF Ends, FinalCut
  <2> QED
    BY <2>7, <2>8 DEF OneStep
<1> QED
  BY <1>7, <1>8

\* finish_special: nothing is cut but a statement's temporaries.
LEMMA FinishSpecialEnds ==
    ASSUME NEW S, Inv(S), frames # <<>>, this.tag # "pointer", NEW T, S \subseteq T, IsClosed(T),
           NEW type \in T, NEW constant,
           get_size(type) > 0 => constant \in Constants(T) /\ Sized(type, constant),
           NEW fl, MoreCode(fl), finish_special(type, constant, fl), ast' = ast, MoreLabels
    PROVE  OneStep(S)
<1>1. /\ finish_in(Len(object_stack), 0, allocations, type, constant, fl)
      /\ Len(object_stack) \in Nat /\ top.base <= Len(object_stack)
      /\ MoreMemory(allocations) /\ 0 \in 0 .. Len(allocations)
  BY TopFacts, MemoryStays DEF finish_special
<1>2. \A info : PointsWell(Smaller(FinalCut(Len(object_stack)), Len(object_stack)),
                           top.target, info, allocations')
  BY DEF PointsWell, this
<1> QED
  BY <1>1, <1>2, FinishEnds

\* What a descriptor says is returned.
LEMMA ReturnObjects ==
    ASSUME NEW tag
    PROVE  return_object(tag) \in Fieldless /\ return_object(tag) # does_not_return
BY Names DEF return_object, Fieldless

\* finish: what the descriptor says is returned, and no constant.
LEMMA FinishPlainEnds ==
    ASSUME NEW S, Inv(S), frames # <<>>, this.tag # "pointer",
           NEW fl, MoreCode(fl), finish(fl), ast' = ast, MoreLabels
    PROVE  OneStep(S)
<1>1. return_object(this.tag) \in S /\ return_object(this.tag) # does_not_return /\ IsClosed(S)
  BY ReturnObjects DEF Inv, TypeInv
<1>2. NoConstant \in Constants(S) /\ Sized(return_object(this.tag), NoConstant)
  BY <1>1, NoConstantFits
<1> QED
  BY <1>1, <1>2, FinishSpecialEnds DEF finish

\* finish after the AST's own code cut the stack.
LEMMA FinishAfterEnds ==
    ASSUME NEW S, Inv(S), frames # <<>>, this.tag # "pointer",
           NEW keep \in Nat, top.base <= keep,
           NEW fl, MoreCode(fl), finish_after(keep, fl), ast' = ast, MoreLabels
    PROVE  OneStep(S)
<1>1. return_object(this.tag) \in S /\ return_object(this.tag) # does_not_return /\ IsClosed(S)
  BY ReturnObjects DEF Inv, TypeInv
<1>2. NoConstant \in Constants(S) /\ Sized(return_object(this.tag), NoConstant)
  BY <1>1, NoConstantFits
<1>3. \A info : PointsWell(Smaller(FinalCut(keep), Len(object_stack)),
                           top.target, info, allocations')
  BY DEF PointsWell, this
<1>4. MoreMemory(allocations) /\ 0 \in 0 .. Len(allocations)
  BY MemoryStays
<1>5. finish_in(keep, 0, allocations, return_object(this.tag), NoConstant, fl)
  BY DEF finish_after
<1> QED
  BY <1>1, <1>2, <1>3, <1>4, <1>5, FinishEnds

\* The code as the AST's own step finds it.
LEMMA HereMore ==
    ASSUME NEW S, Inv(S)
    PROVE  /\ MoreCode(flow_here) /\ FlowOK(flow_here) /\ flow_here.count = flow.count
           /\ MoreCode(create_if_value(flow_here)) /\ flow.count \in Nat
<1>1. FlowOK(flow) /\ flow.count \in Nat
  BY MemoryStays DEF FlowOK
<1>2. FlowOK(flow_here) /\ flow_here.count = flow.count
  BY <1>1, HereOK
<1>3. /\ FlowOK(create_if_value(flow_here))
      /\ create_if_value(flow_here).count = flow_here.count + 3
  BY <1>2, IfValueOK
<1> QED
  BY <1>1, <1>2, <1>3 DEF MoreCode

\* Constants of one word.
LEMMA OneWord ==
    ASSUME NEW S, null \in S
    PROVE  /\ \A n : Constant(n) \in Constants(S) /\ Len(Constant(n)) = 1
           /\ \A t \in S : TypeConstant(t) \in Constants(S) /\ Len(TypeConstant(t)) = 1
<1>1. ASSUME NEW w \in [number : 0 .. Huge, type : S]
      PROVE  <<w>> \in Constants(S) /\ Len(<<w>>) = 1
  BY DEF Constants
<1>2. ASSUME NEW n
      PROVE  Constant(n) \in Constants(S) /\ Len(Constant(n)) = 1
  <2> DEFINE number == IF n \in 0 .. Huge THEN n ELSE Huge
  <2>1. number \in 0 .. Huge
    BY HugeAssumption
  <2> HIDE DEF number
  <2>2. [number |-> number, type |-> null] \in [number : 0 .. Huge, type : S]
    BY <2>1
  <2>3. Constant(n) = <<[number |-> number, type |-> null]>>
    BY DEF Constant, number
  <2> QED
    BY <1>1, <2>2, <2>3
<1>3. ASSUME NEW t \in S
      PROVE  TypeConstant(t) \in Constants(S) /\ Len(TypeConstant(t)) = 1
  <2> DEFINE number == IF t = null THEN 0 ELSE Huge
  <2>1. number \in 0 .. Huge
    BY HugeAssumption
  <2> HIDE DEF number
  <2>2. [number |-> number, type |-> t] \in [number : 0 .. Huge, type : S]
    BY <2>1
  <2>3. TypeConstant(t) = <<[number |-> number, type |-> t]>>
    BY DEF TypeConstant, number
  <2> QED
    BY <1>1, <2>2, <2>3
<1> QED
  BY <1>2, <1>3

\* A constant of one word fits a type of one word.
LEMMA OneWordFits ==
    ASSUME NEW type \in Fieldless, type # null, type # does_not_return,
           NEW constant, Len(constant) = 1
    PROVE  Sized(type, constant)
BY FieldlessType DEF Sized

\* The body of an AST: what it changes beside its own.
LEMMA InBodyFacts ==
    ASSUME NEW S, Inv(S), NEW tags, InBody(tags)
    PROVE  /\ frames # <<>> /\ control = Going /\ this.tag \in tags
           /\ Len(results) = Len(parameter_types(this.tag))
           /\ ast' = ast /\ labels' = labels
           /\ MoreCode(flow') => MoreLabels
BY LabelsStay DEF InBody, Body, fields_to_compile

\* finish_in leaves its code behind.
LEMMA FinishCode ==
    ASSUME NEW keep, NEW place, NEW all, NEW type, NEW constant, NEW fl,
           finish_in(keep, place, all, type, constant, fl)
    PROVE  flow' = fl
BY DEF finish_in

\* The body ends with a value.
LEMMA BodySpecial ==
    ASSUME NEW S, Inv(S), NEW tags, InBody(tags), "pointer" \notin tags,
           NEW T, S \subseteq T, IsClosed(T), NEW type \in T, NEW constant,
           get_size(type) > 0 => constant \in Constants(T) /\ Sized(type, constant),
           NEW fl, MoreCode(fl), finish_special(type, constant, fl)
    PROVE  OneStep(S)
<1>1. /\ frames # <<>> /\ this.tag \in tags /\ ast' = ast /\ (MoreCode(flow') => MoreLabels)
  BY InBodyFacts
<1>2. flow' = fl
  BY FinishCode DEF finish_special
<1>3. MoreLabels /\ this.tag # "pointer"
  BY <1>1, <1>2
<1> QED
  BY <1>1, <1>3, FinishSpecialEnds

\* ... with what the descriptor says, without changes of the code but uses or
\* a branch on values, or with an error.
LEMMA BodyPlain ==
    ASSUME NEW S, Inv(S), NEW tags, InBody(tags), "pointer" \notin tags,
           \/ finish(flow_here)
           \/ finish(create_if_value(flow_here))
           \/ finish_null /\ this.tag \in {"zero", "dynamify", "compile"}
           \/ \E code \in Codes \ {"no_error"} : Refused(code)
    PROVE  OneStep(S)
<1>1. /\ frames # <<>> /\ this.tag \in tags /\ ast' = ast /\ labels' = labels
  BY InBodyFacts
<1>2. MoreCode(flow_here) /\ MoreCode(create_if_value(flow_here))
  BY HereMore
<1>3. /\ return_object(this.tag) \in S /\ return_object(this.tag) # does_not_return
      /\ IsClosed(S) /\ null \in S /\ return_object(this.tag) \in Fieldless
  BY ReturnObjects DEF Inv, TypeInv, Fieldless
<1>4. NoConstant \in Constants(S) /\ Sized(return_object(this.tag), NoConstant)
  BY <1>3, NoConstantFits
<1>5. CASE finish(flow_here)
  BY <1>2, <1>3, <1>4, <1>5, BodySpecial DEF finish
<1>6. CASE finish(create_if_value(flow_here))
  BY <1>2, <1>3, <1>4, <1>6, BodySpecial DEF finish
<1>7. CASE finish_null /\ this.tag \in {"zero", "dynamify", "compile"}
  <2>1. return_object(this.tag) # null
    BY <1>7, Names DEF return_object
  <2>2. Constant(0) \in Constants(S) /\ Len(Constant(0)) = 1
    BY <1>3, OneWord
  <2>3. Sized(return_object(this.tag), Constant(0))
    BY <1>3, <2>1, <2>2, OneWordFits
  <2> QED
    BY <1>2, <1>3, <1>7, <2>2, <2>3, BodySpecial DEF finish_null
<1>8. CASE \E code \in Codes \ {"no_error"} : Refused(code)
  BY <1>1, <1>8, RefusedEnds
<1> QED
  BY <1>5, <1>6, <1>7, <1>8

-----------------------------------------------------------------------------
(* The actions: bodies that end *)

\* The actions that end with what their descriptor says, or an error.
LEMMA PlainBodies ==
    ASSUME NEW S, Inv(S),
           \/ zero \/ guarded_arithmetic \/ plain_call \/ vecpb \/ vecsz \/ dynamify \/ compile
           \/ convert_to_AST \/ load_tag \/ store \/ try_store
    PROVE  OneStep(S)
<1>1. {"type_mismatch", "missing_reference", "nonfull_object", "lost_hidden_subtype"}
          \subseteq Codes \ {"no_error"}
  BY DEF Codes
<1>2. CASE zero
  <2>1. this.tag = "zero"
    BY <1>2, InBodyFacts DEF zero
  <2> QED
    BY <1>2, <2>1, BodyPlain DEF zero
<1>3. CASE guarded_arithmetic
  BY <1>3, BodyPlain DEF guarded_arithmetic, Shifts, Divisions
<1>4. CASE plain_call
  BY <1>4, BodyPlain DEF plain_call, PlainCalls
<1>5. CASE vecpb
  BY <1>1, <1>5, BodyPlain DEF vecpb
<1>6. CASE vecsz
  BY <1>1, <1>6, BodyPlain DEF vecsz
<1>7. CASE dynamify
  <2>1. this.tag = "dynamify"
    BY <1>7, InBodyFacts DEF dynamify
  <2> QED
    BY <1>1, <1>7, <2>1, BodyPlain DEF dynamify
<1>8. CASE compile
  <2>1. this.tag = "compile"
    BY <1>8, InBodyFacts DEF compile
  <2> QED
    BY <1>1, <1>8, <2>1, BodyPlain DEF compile
<1>9. CASE convert_to_AST
  BY <1>1, <1>9, BodyPlain DEF convert_to_AST
<1>10. CASE load_tag
  BY <1>1, <1>10, BodyPlain DEF load_tag
<1>11. CASE store
  BY <1>1, <1>11, BodyPlain DEF store
<1>12. CASE try_store
  BY <1>1, <1>12, BodyPlain DEF try_store
<1> QED
  BY <1>2, <1>3, <1>4, <1>5, <1>6, <1>7, <1>8, <1>9, <1>10, <1>11, <1>12

\* Types without fields are in every set, and are of one word.
LEMMA Words ==
    ASSUME NEW S, Inv(S), NEW t \in Fieldless \ {null, does_not_return}
    PROVE  t \in S /\ IsClosed(S) /\ get_size(t) = 1
BY FieldlessType DEF Inv, TypeInv

\* The types that are returned most are of one word.
LEMMA OneType ==
    /\ integer \in Fieldless \ {null, does_not_return}
    /\ type_pointer \in Fieldless \ {null, does_not_return}
    /\ AST_pointer \in Fieldless \ {null, does_not_return}
    /\ function_pointer \in Fieldless \ {null, does_not_return}
    /\ dynamic_object \in Fieldless \ {null, does_not_return}
    /\ vector_of_something \in Fieldless \ {null, does_not_return}
    /\ pointer_to_something \in Fieldless \ {null, does_not_return}
<1>1. /\ integer # does_not_return /\ type_pointer # does_not_return
      /\ AST_pointer # does_not_return /\ function_pointer # does_not_return
      /\ dynamic_object # does_not_return /\ vector_of_something # does_not_return
      /\ pointer_to_something # does_not_return
  BY Names
<1> QED
  BY <1>1, Names DEF Fieldless

\* The actions that return a constant of one word.
LEMMA ConstantBodies ==
    ASSUME NEW S, Inv(S), arithmetic \/ get_event_loop \/ typeof \/ imv
    PROVE  OneStep(S)
<1>1. null \in S /\ IsClosed(S) /\ MoreCode(flow) /\ MoreCode(flow_here)
  BY MemoryStays, HereMore DEF Inv, TypeInv, Fieldless
<1>2. CASE arithmetic
  <2>1. PICK c \in Folded : finish_special(integer, c, flow_here)
    BY <1>2 DEF arithmetic
  <2>2. c = NoConstant \/ \E n : c = Constant(n)
    BY DEF Folded
  <2>3. c \in Constants(S) /\ Sized(integer, c)
    <3>1. CASE c = NoConstant
      BY <3>1, NoConstantFits, Words, OneType
    <3>2. CASE \E n : c = Constant(n)
      BY <1>1, <3>2, OneWord, OneWordFits, OneType
    <3> QED
      BY <2>2, <3>1, <3>2
  <2>4. integer \in S
    BY Words, OneType
  <2>5. InBody(Folding) /\ "pointer" \notin Folding
    BY <1>2 DEF arithmetic, Folding
  <2> QED
    BY <1>1, <2>1, <2>3, <2>4, <2>5, BodySpecial
<1>3. CASE get_event_loop
  <2>1. Constant(Huge) \in Constants(S) /\ Sized(function_pointer, Constant(Huge))
    BY <1>1, OneWord, OneWordFits, OneType
  <2>2. function_pointer \in S
    BY Words, OneType
  <2> QED
    BY <1>1, <1>3, <2>1, <2>2, BodySpecial DEF get_event_loop
<1>4. CASE typeof
  <2>1. frames # <<>> /\ Len(results) = 1
    <3>1. frames # <<>> /\ this.tag = "typeof" /\ Len(results) = Len(parameter_types(this.tag))
      BY <1>4, InBodyFacts DEF typeof
    <3>2. parameter_types("typeof") = <<any>>
      BY DEF parameter_types, Folding, Shifts, Divisions
    <3> QED
      BY <3>1, <3>2
  <2>2. results[1].type \in S
    BY <2>1, ResultFacts
  <2>3. /\ TypeConstant(results[1].type) \in Constants(S)
        /\ Sized(type_pointer, TypeConstant(results[1].type))
    BY <1>1, <2>2, OneWord, OneWordFits, OneType
  <2>4. type_pointer \in S
    BY Words, OneType
  <2> QED
    BY <1>1, <1>4, <2>3, <2>4, BodySpecial DEF typeof
<1>5. CASE imv
  <2>1. frames # <<>>
    BY <1>5, InBodyFacts DEF imv
  <2>2. top.target \in DOMAIN ast
    BY <2>1, TopFacts
  <2>3. this.type \in S /\ this.constant \in Constants(S) /\ Sized(this.type, this.constant)
    BY <2>2, ASTFacts DEF this
  <2> QED
    BY <1>1, <1>5, <2>3, BodySpecial DEF imv
<1> QED
  BY <1>2, <1>3, <1>4, <1>5

\* How many parameters the tags have whose bodies look at what they were given.
LEMMA ParameterCount ==
    /\ \A tag : Len(parameter_types(tag)) \in Nat
    /\ Len(parameter_types("pointer")) = 0 /\ Len(parameter_types("label")) = 0
    /\ \A tag \in {"if", "nvec", "tmp_pointer", "typeof", "load_imv_from_AST", "load_vector_from_BB"} :
          Len(parameter_types(tag)) = 1
    /\ \A tag \in {"concatenate", "load_subobj", "load_subobj_ref", "dyn_subobj"} :
          Len(parameter_types(tag)) = 2
BY DEF parameter_types, Folding, Shifts, Divisions

\* The results of a body: as many as the tag has parameters, each of a type with a value.
LEMMA BodyResults ==
    ASSUME NEW S, Inv(S), NEW tag, InBody({tag}), NEW n \in Nat, Len(parameter_types(tag)) = n
    PROVE  /\ frames # <<>> /\ this.tag = tag /\ Len(results) = n
           /\ \A i \in 1 .. n :
                 /\ results[i] \in Values(S, Allocated)
                 /\ results[i].type \in S /\ results[i].place \in 0 .. Allocated
                 /\ results[i].type # does_not_return
                 /\ results[i].constant \in Constants(S)
                 /\ Sized(results[i].type, results[i].constant)
           /\ IsClosed(S) /\ null \in S
<1>1. frames # <<>> /\ this.tag = tag /\ Len(results) = n
  BY InBodyFacts
<1>2. IsClosed(S) /\ null \in S
  BY DEF Inv, TypeInv, Fieldless
<1> QED
  BY <1>1, <1>2, ResultFacts DEF Sized

\* nvec and tmp_pointer make a type of one that is there.
LEMMA NvecStep ==
    ASSUME NEW S, Inv(S), nvec
    PROVE  OneStep(S)
<1>1. /\ InBody({"nvec"}) /\ Len(results) = 1 /\ results[1].constant \in Constants(S)
      /\ Sized(results[1].type, results[1].constant)
      /\ IsClosed(S) /\ null \in S
  BY ParameterCount, BodyResults DEF nvec
<1> DEFINE c == results[1].constant
           vector == <<"vector", c[1].type>>
<1>2. CASE \E code \in {"requires_constant", "type_mismatch", "vector_cant_take_large_objects",
                        "nonfull_object"} : Refused(code)
  BY <1>1, <1>2, BodyPlain DEF Codes
<1>3. CASE /\ c # NoConstant /\ ver(c[1].type) # "con_vec" /\ is_full(c[1].type)
           /\ finish_special(vector, NoConstant, flow_here)
  <2>1. c \in Seq([number : 0 .. Huge, type : S]) /\ c # <<>>
    BY <1>1, <1>3 DEF Constants, NoConstant
  <2>2. c[1].type \in S
    <3> HIDE DEF c
    <3>1. Len(c) \in Nat /\ Len(c) # 0
      BY <2>1, EmptySeq, LenProperties
    <3>3. 1 \in 1 .. Len(c)
      BY <3>1
    <3>2. c[1] \in [number : 0 .. Huge, type : S]
      BY <2>1, <3>3, ElementOfSeq
    <3> QED
      BY <3>2
  <2>3. IsWord(c[1].type)
    <3> DEFINE t == c[1].type
    <3>1. CASE t = does_not_return
      <4>1. Components(t) = <<t>> /\ ver(t) = "does not return"
        BY <3>1, FieldlessType, Names DEF Fieldless, ver
      <4> HIDE DEF t
      <4>3. <<t>>[1] = t /\ 1 \in DOMAIN <<t>>
        OBVIOUS
      <4>2. 1 \in DOMAIN Components(t) /\ Components(t)[1] = t
        BY <4>1, <4>3, Zenon
      <4> USE DEF t
      <4> QED
        BY <1>3, <4>1, <4>2 DEF is_full
    <3> QED
      BY <1>3, <3>1 DEF IsWord
  <2> DEFINE T == S \cup {vector}
  <2>4. IsClosed(T) /\ vector \in T /\ S \subseteq T
    BY <1>1, <2>2, <2>3, CompoundIsMade DEF Compound
  <2>5. vector # does_not_return
    BY CompoundType DEF Compound, Fieldless
  <2>6. NoConstant \in Constants(T) /\ Sized(vector, NoConstant)
    BY <2>4, <2>5, NoConstantFits
  <2> HIDE DEF T, vector
  <2> QED
    BY <1>1, <1>3, <2>4, <2>6, HereMore, BodySpecial
<1> QED
  BY <1>2, <1>3 DEF nvec

\* tmp_pointer: the same pointer, which may refer to references too.
LEMMA TmpPointerStep ==
    ASSUME NEW S, Inv(S), tmp_pointer
    PROVE  OneStep(S)
<1>1. /\ InBody({"tmp_pointer"}) /\ results[1].type \in S /\ results[1].constant \in Constants(S)
      /\ Sized(results[1].type, results[1].constant)
      /\ IsClosed(S)
  <2>1. InBody({"tmp_pointer"})
    BY DEF tmp_pointer
  <2>2. frames # <<>> /\ this.tag = "tmp_pointer" /\ Len(results) = 1
    BY <2>1, ParameterCount, InBodyFacts
  <2>3. 1 \in 1 .. Len(results)
    BY <2>2
  <2> QED
    BY <2>1, <2>2, <2>3, ResultFacts DEF Inv, TypeInv
<1> DEFINE t == results[1].type
           temporary == <<"temp pointer", Target(t)>>
<1>2. CASE Refused("type_mismatch")
  BY <1>1, <1>2, BodyPlain DEF Codes
<1>3. CASE ver(t) = "pointer" /\ finish_special(temporary, results[1].constant, flow_here)
  <2>1. "pointer" \in Compound /\ "temp pointer" \in Compound /\ "temp pointer" # "vector"
    BY DEF Compound
  <2>2. Target(t) \in S /\ Components(t) = <<t>> /\ t # does_not_return
    <3>1. t # does_not_return
      BY <1>3, Names DEF ver
    <3> QED
      BY <1>1, <1>3, <2>1, <3>1, TypeFacts
  <2>3. get_size(t) = 1
    BY <2>2 DEF get_size
  <2> DEFINE T == S \cup {temporary}
  <2>4. IsClosed(T) /\ temporary \in T /\ S \subseteq T
    BY <1>1, <2>1, <2>2, CompoundIsMade
  <2>5. temporary # does_not_return /\ get_size(temporary) = 1
    BY <2>1, CompoundType DEF Fieldless
  <2>6. results[1].constant \in Constants(T) /\ Sized(temporary, results[1].constant)
    <3>1. [number : 0 .. Huge, type : S] \subseteq [number : 0 .. Huge, type : T]
      BY <2>4
    <3>2. Constants(S) \subseteq Constants(T)
      BY <3>1, SeqMonotonic DEF Constants
    <3> QED
      BY <1>1, <2>3, <2>5, <3>2 DEF Sized
  <2> HIDE DEF T, temporary
  <2> QED
    BY <1>1, <1>3, <2>4, <2>6, HereMore, BodySpecial
<1> QED
  BY <1>2, <1>3 DEF tmp_pointer

\* Two constants side by side are as long as both objects together.
LEMMA JoinedFits ==
    ASSUME NEW S, IsClosed(S), null \in S, frames # <<>>,
           \A i \in 1 .. 2 : /\ results[i].type \in S /\ results[i].constant \in Constants(S)
                             /\ Sized(results[i].type, results[i].constant)
    PROVE  /\ Joined \in Constants(S)
           /\ Joined # NoConstant =>
                  Len(Joined) = get_size(results[1].type) + get_size(results[2].type)
<1> DEFINE c == results[1].constant
           d == results[2].constant
           W == [number : 0 .. Huge, type : S]
<1>1. 1 \in 1 .. 2 /\ 2 \in 1 .. 2
  OBVIOUS
<1>2. c \in Seq(W) /\ d \in Seq(W)
  BY <1>1 DEF Constants
<1>3. c \o d \in Seq(W) /\ Len(c \o d) = Len(c) + Len(d)
  BY <1>2, ConcatProperties
<1>4. NoConstant \in Seq(W)
  <2>1. <<>> \in Seq(W)
    OBVIOUS
  <2> QED
    BY <2>1 DEF NoConstant
<1>5. ASSUME NEW i \in 1 .. 2,
             results[i].type = null \/ results[i].constant # NoConstant
      PROVE  Len(results[i].constant) = get_size(results[i].type)
  <2>1. CASE results[i].constant # NoConstant
    BY <2>1 DEF Sized
  <2>2. CASE results[i].constant = NoConstant
    <3>1. results[i].type = null
      BY <1>5, <2>2
    <3>2. Components(null) = <<>> /\ get_size(null) = Len(Components(null))
      BY TypeFacts, Names
    <3>3. Len(<<>>) = 0
      OBVIOUS
    <3> QED
      BY <2>2, <3>1, <3>2, <3>3 DEF NoConstant
  <2> QED
    BY <2>1, <2>2
<1>6. CASE \A i \in 1 .. 2 : results[i].type = null \/ results[i].constant # NoConstant
  <2>1. Joined = c \o d
    BY <1>6 DEF Joined
  <2>2. Len(c) = get_size(results[1].type) /\ Len(d) = get_size(results[2].type)
    BY <1>1, <1>5, <1>6
  <2> QED
    BY <1>3, <2>1, <2>2 DEF Constants
<1>7. CASE ~\A i \in 1 .. 2 : results[i].type = null \/ results[i].constant # NoConstant
  <2>1. Joined = NoConstant
    BY <1>7 DEF Joined
  <2> QED
    BY <1>4, <2>1 DEF Constants
<1> QED
  BY <1>6, <1>7

\* Constants of more types.
LEMMA MoreConstants ==
    ASSUME NEW S, NEW T, S \subseteq T
    PROVE  Constants(S) \subseteq Constants(T)
<1>1. [number : 0 .. Huge, type : S] \subseteq [number : 0 .. Huge, type : T]
  OBVIOUS
<1> QED
  BY <1>1, SeqMonotonic DEF Constants

\* concatenate: both objects side by side.
LEMMA ConcatenateStep ==
    ASSUME NEW S, Inv(S), concatenate
    PROVE  OneStep(S)
<1> DEFINE t == results[1].type
           u == results[2].type
           c == concatenate_types(t, u)
           T == S \cup {c}
<1>1. InBody({"concatenate"}) /\ finish_special(c, Joined, flow_here)
  BY DEF concatenate
<1>2. frames # <<>> /\ this.tag = "concatenate" /\ Len(results) = 2
  BY <1>1, ParameterCount, InBodyFacts
<1>3. IsClosed(S) /\ null \in S
  BY DEF Inv, TypeInv, Fieldless
<1>4. \A i \in 1 .. 2 : /\ results[i].type \in S /\ results[i].constant \in Constants(S)
                        /\ Sized(results[i].type, results[i].constant)
  BY <1>2, ResultFacts
<1>5. t \in S /\ u \in S /\ t # does_not_return /\ u # does_not_return
  <2>1. 1 \in 1 .. 2 /\ 2 \in 1 .. 2
    OBVIOUS
  <2> QED
    BY <1>4, <2>1 DEF Sized
<1>6. IsClosed(T) /\ c # does_not_return /\ get_size(c) = get_size(t) + get_size(u)
  BY <1>3, <1>5, ConcatenationIsMade
<1>7. Joined \in Constants(S) /\ (Joined # NoConstant => Len(Joined) = get_size(c))
  BY <1>2, <1>3, <1>4, <1>6, JoinedFits
<1>8. S \subseteq T /\ c \in T
  OBVIOUS
<1>9. Joined \in Constants(T) /\ Sized(c, Joined)
  BY <1>6, <1>7, <1>8, MoreConstants DEF Sized
<1> HIDE DEF c, T
<1> QED
  BY <1>1, <1>6, <1>8, <1>9, HereMore, BodySpecial

\* What is at an offset of an object: a word, or nothing.
LEMMA WordAt ==
    ASSUME NEW S, IsClosed(S), null \in S, NEW t \in S, NEW offset \in Nat
    PROVE  /\ get_offset_type(t, offset) \in S
           /\ t # does_not_return /\ get_offset_type(t, offset) # null =>
                  IsWord(get_offset_type(t, offset)) /\ get_size(get_offset_type(t, offset)) = 1
<1> DEFINE w == get_offset_type(t, offset)
<1>1. CASE offset < Len(Components(t))
  <2>1. /\ Components(t) \in Seq(S)
        /\ \A i \in 1 .. Len(Components(t)) :
              t # does_not_return => IsWord(Components(t)[i])
    BY TypeFacts
  <2>2. offset + 1 \in 1 .. Len(Components(t))
    BY <1>1, <2>1, LenProperties
  <2>3. w = Components(t)[offset + 1]
    BY <1>1 DEF get_offset_type
  <2>4. w \in S /\ (t # does_not_return => IsWord(w))
    BY <2>1, <2>2, <2>3, ElementOfSeq
  <2>5. IsWord(w) => get_size(w) = 1
    <3> SUFFICES ASSUME IsWord(w) PROVE get_size(w) = 1
      OBVIOUS
    <3>1. Components(w) = <<w>> /\ w # does_not_return
      BY <2>4, TypeFacts DEF IsWord
    <3> HIDE DEF w
    <3> QED
      BY <3>1 DEF get_size
  <2> QED
    BY <2>4, <2>5
<1>2. CASE ~(offset < Len(Components(t)))
  BY <1>2 DEF get_offset_type
<1> QED
  BY <1>1, <1>2

\* load_subobj from an object in memory: a reference.
LEMMA LoadReferenceStep ==
    ASSUME NEW S, Inv(S), InBody({"load_subobj"}), NEW object \in S, Offset.number \in Nat,
           NEW names \in {"alloca", "allocate", "value"} \X Nat, load_reference(object, names)
    PROVE  OneStep(S)
<1>1. /\ frames # <<>> /\ this.tag = "load_subobj" /\ ast' = ast /\ labels' = labels
      /\ MoreCode(flow_here) /\ IsClosed(S) /\ null \in S
  BY InBodyFacts, HereMore DEF Inv, TypeInv, Fieldless
<1> DEFINE type == get_offset_type(object, Offset.number)
           more == new_reference(allocations, names)
<1>2. CASE Refused("oversized_offset")
  BY <1>2, BodyPlain DEF Codes
<1>3. CASE finish_in(Len(object_stack), Len(allocations) + 1, more, type, NoConstant, flow_here)
  <2>1. type \in S
    BY <1>1, WordAt
  <2>2. /\ MoreMemory(more) /\ Len(more) = Len(allocations) + 1 /\ Len(allocations) \in Nat
    BY MemoryStays, MemoryGrows
  <2>3. get_size(type) > 0 => NoConstant \in Constants(S) /\ Sized(type, NoConstant)
    BY <1>1, <2>1, SizeFacts, NoConstantFits
  <2>4. MoreLabels
    <3>1. flow' = flow_here
      BY <1>3, FinishCode
    <3> QED
      BY <1>1, <3>1, LabelsStay
  <2>5. \A info : PointsWell(Smaller(FinalCut(Len(object_stack)), Len(object_stack)),
                             top.target, info, allocations')
    BY <1>1 DEF PointsWell, this
  <2>6. Len(object_stack) \in Nat /\ top.base <= Len(object_stack)
    BY <1>1, TopFacts
  <2>7. Len(allocations) + 1 \in 0 .. Len(more)
    BY <2>2
  <2> HIDE DEF type, more
  <2> QED
    BY <1>1, <1>3, <2>1, <2>2, <2>3, <2>4, <2>5, <2>6, <2>7, FinishEnds
<1> QED
  BY <1>2, <1>3 DEF load_reference

\* load_subobj from a value: one of its words.
LEMMA LoadWordStep ==
    ASSUME NEW S, Inv(S), InBody({"load_subobj"}), NEW type \in S, NEW constant,
           constant \in Constants(S), get_size(type) > 0 => Sized(type, constant),
           load_word(type, constant)
    PROVE  OneStep(S)
<1>1. MoreCode(flow_here) /\ IsClosed(S)
  BY HereMore DEF Inv, TypeInv
<1>2. CASE Refused("oversized_offset")
  BY <1>2, BodyPlain DEF Codes
<1>3. CASE finish_special(type, constant, flow_here)
  BY <1>1, <1>3, BodySpecial
<1> QED
  BY <1>2, <1>3 DEF load_word

\* load_subobj, whatever it loads from.
LEMMA LoadSubobjStep ==
    ASSUME NEW S, Inv(S), load_subobj
    PROVE  OneStep(S)
<1> DEFINE type == results[1].type
           kind == ver(type)
           place == results[1].place
           known == results[1].constant
<1>1. InBody({"load_subobj"})
  BY DEF load_subobj
<1>2. frames # <<>> /\ this.tag = "load_subobj" /\ Len(results) = 2
  BY <1>1, ParameterCount, InBodyFacts
<1>3. IsClosed(S) /\ null \in S /\ MoreCode(flow_here)
  BY HereMore DEF Inv, TypeInv, Fieldless
<1>4. 1 \in 1 .. Len(results) /\ 2 \in 1 .. Len(results)
  BY <1>2
<1>5. /\ type \in S /\ place \in 0 .. Allocated /\ known \in Constants(S) /\ Sized(type, known)
      /\ results[2].constant \in Constants(S)
  BY <1>2, <1>4, ResultFacts
<1>6. \A t \in S : t # does_not_return => NoConstant \in Constants(S) /\ Sized(t, NoConstant)
  BY NoConstantFits
<1>7. Allocated \in Nat /\ Allocated = Len(allocations)
  BY MemoryStays DEF Allocated
<1>8. FreshValue(allocations) \in {"alloca", "allocate", "value"} \X Nat
  BY <1>7 DEF FreshValue
<1>9. results[2].constant # NoConstant => Offset.number \in Nat
  <2> DEFINE c == results[2].constant
  <2> SUFFICES ASSUME c # NoConstant PROVE Offset.number \in Nat
    OBVIOUS
  <2>1. c \in Seq([number : 0 .. Huge, type : S]) /\ c # <<>>
    BY <1>5 DEF Constants, NoConstant
  <2> HIDE DEF c
  <2>2. Len(c) \in Nat /\ Len(c) # 0
    BY <2>1, EmptySeq, LenProperties
  <2>3. 1 \in 1 .. Len(c)
    BY <2>2
  <2>4. c[1] \in [number : 0 .. Huge, type : S]
    BY <2>1, <2>3, ElementOfSeq
  <2>5. c[1].number \in 0 .. Huge
    BY <2>4
  <2> QED
    BY <2>5, HugeAssumption DEF c, Offset
<1>10. CASE \E code \in {"type_mismatch", "requires_constant"} : Refused(code)
  BY <1>1, <1>10, BodyPlain DEF Codes
<1>11. CASE /\ kind = "type pointer" \/ kind = "AST pointer"
            /\ finish_special(type, NoConstant, flow_here)
  BY <1>1, <1>3, <1>5, <1>6, <1>11, BodySpecial DEF Sized
<1>12. CASE /\ kind = "vector" /\ is_zeroable(Target(type))
            /\ finish_special(Target(type), NoConstant, flow_here)
  <2>1. Target(type) \in S
    BY <1>3, <1>5, <1>12, TypeFacts DEF Compound
  <2>2. Target(type) # does_not_return
    BY <1>12, OneType DEF is_zeroable
  <2> QED
    BY <1>1, <1>3, <1>6, <1>12, <2>1, <2>2, BodySpecial
<1>13. CASE results[2].constant # NoConstant /\ kind = "function pointer" /\ load_from_function
  <2> DEFINE word == CASE Offset.number = 0 -> AST_pointer
                       [] Offset.number = 1 -> type_pointer
                       [] OTHER -> null
  <2>1. AST_pointer \in S /\ type_pointer \in S
    BY Words, OneType
  <2>2. word \in S /\ word # does_not_return
    BY <1>3, <2>1, OneType, Names
  <2>3. load_word(word, NoConstant)
    BY <1>13 DEF load_from_function
  <2> HIDE DEF word
  <2> QED
    BY <1>1, <1>6, <2>2, <2>3, LoadWordStep
<1>14. CASE /\ results[2].constant # NoConstant /\ kind = "con_vec"
            /\ load_from_structure(type, place)
  <2>1. Offset.number \in Nat
    BY <1>9, <1>14
  <2>2. CASE place = 0
    <3> DEFINE word == get_offset_type(type, Offset.number)
               c == Word(known, Offset.number)
    <3>1. word \in S /\ (word # null => get_size(word) = 1 /\ word # does_not_return)
      BY <1>3, <1>5, <2>1, WordAt DEF Sized, IsWord
    <3>2. c \in Constants(S) /\ (c # NoConstant => Len(c) = 1)
      <4>1. CASE Offset.number < Len(known)
        <5>1. known \in Seq([number : 0 .. Huge, type : S])
          BY <1>5 DEF Constants
        <5>2. Offset.number + 1 \in 1 .. Len(known)
          BY <2>1, <4>1, <5>1, LenProperties
        <5> DEFINE w == known[Offset.number + 1]
        <5>3. w \in [number : 0 .. Huge, type : S]
          BY <5>1, <5>2, ElementOfSeq
        <5>4. c = <<w>>
          BY <4>1 DEF Word
        <5> HIDE DEF w, c
        <5>5. <<w>> \in Seq([number : 0 .. Huge, type : S]) /\ Len(<<w>>) = 1
          BY <5>3
        <5> QED
          BY <5>4, <5>5 DEF Constants
      <4>2. CASE ~(Offset.number < Len(known))
        BY <1>3, <1>6, <4>2, Names DEF Word
      <4> QED
        BY <4>1, <4>2
    <3>3. load_word(word, c)
      BY <1>14, <2>2 DEF load_from_structure
    <3>4. get_size(word) > 0 => Sized(word, c)
      BY <1>3, <3>1, <3>2, SizeFacts DEF Sized
    <3> HIDE DEF word, c
    <3> QED
      BY <1>1, <3>1, <3>2, <3>3, <3>4, LoadWordStep
  <2>3. CASE place # 0
    <3> DEFINE names == IF Offset.number = 0 THEN allocations[place].names
                        ELSE FreshValue(allocations)
    <3>1. allocations[place].names \in {"alloca", "allocate", "value"} \X Nat
      <4>1. place \in 1 .. Len(allocations)
        BY <1>5, <1>7, <2>3
      <4>2. allocations[place] \in Allocation
        BY <4>1, ElementOfSeq DEF Inv, TypeInv
      <4> QED
        BY <4>2 DEF Allocation
    <3>2. names \in {"alloca", "allocate", "value"} \X Nat
      BY <1>8, <3>1
    <3>3. load_reference(type, names)
      BY <1>14, <2>3 DEF load_from_structure
    <3> HIDE DEF names
    <3> QED
      BY <1>1, <1>5, <2>1, <3>2, <3>3, LoadReferenceStep
  <2> QED
    BY <2>2, <2>3
<1>15. CASE /\ results[2].constant # NoConstant /\ kind \in {"pointer", "temp pointer"}
            /\ load_reference(Target(type), FreshValue(allocations))
  <2>1. Target(type) \in S
    BY <1>3, <1>5, <1>15, TypeFacts DEF Compound
  <2> QED
    BY <1>1, <1>8, <1>9, <1>15, <2>1, LoadReferenceStep
<1> QED
  BY <1>10, <1>11, <1>12, <1>13, <1>14, <1>15 DEF load_subobj

-----------------------------------------------------------------------------
(* How frames go on *)

\* What is called, and what is returned.
LEMMA ControlFacts ==
    ASSUME NEW S, Inv(S)
    PROVE  /\ control.kind = "call" => /\ control # Going
                                       /\ control.target \in DOMAIN ast \cup {0}
                                       /\ control.degree \in {0, 2}
           /\ control.kind = "return" => /\ control # Going
                                         /\ control.result \in Values(S, Allocated)
                                         /\ control = Returned(control.result)
<1>1. ControlOK(S, Allocated)
  BY DEF Inv, TypeInv
<1>2. CASE control = Going
  BY <1>2 DEF Going
<1>3. CASE \E id \in DOMAIN ast \cup {0}, degree \in {0, 2} : control = Called(id, degree)
  BY <1>3 DEF Called, Going
<1>4. CASE \E r \in Values(S, Allocated) : control = Returned(r)
  <2>1. PICK r \in Values(S, Allocated) : control = Returned(r)
    BY <1>4
  <2>2. control.kind = "return" /\ control.result = r
    BY <2>1 DEF Returned
  <2>3. control # Going
    BY <2>2 DEF Going
  <2> QED
    BY <2>1, <2>2, <2>3
<1> QED
  BY <1>1, <1>2, <1>3, <1>4 DEF ControlOK

\* A pointer is the last frame, and only when it goes on.
LEMMA NoPointers ==
    ASSUME NEW S, Inv(S), frames # <<>> /\ this.tag = "pointer" => control # Going
    PROVE  \A i \in DOMAIN frames : ast[frames[i].target].tag # "pointer"
<1> SUFFICES ASSUME NEW i \in DOMAIN frames, ast[frames[i].target].tag = "pointer"
             PROVE  FALSE
  OBVIOUS
<1>1. i = Len(frames) /\ control = Going
  BY DEF Inv, PointerFrameInv
<1>2. frames # <<>>
  OBVIOUS
<1> QED
  BY <1>1, <1>2 DEF this, top

\* The last frame becomes f.
LEMMA TopGoesOn ==
    ASSUME NEW S, Inv(S), NEW T, NEW n, NEW id, Common(S, T, n, id),
           frames # <<>>, this.tag # "pointer",
           NEW f \in Frame(T, Allocated'), f.target = top.target, f.base = top.base,
           frames' = [frames EXCEPT ![Len(frames)] = f],
           loop_catcher' = loop_catcher, ControlOK(T, Allocated)',
           \/ control' = Going
           \/ this.tag \notin Branching
           \/ Len(f.results) < Len(parameter_types(this.tag))
           \/ KeptOK(f, ast, flow'.count, DOMAIN labels')
    PROVE  OneStep(S)
<1>1. Len(frames) \in Nat /\ DOMAIN frames = 1 .. Len(frames) /\ Len(frames) \in 1 .. Len(frames)
  BY TopFacts, FrameFacts
<1>2. frames \in Seq(Frame(T, Allocated'))
  <2>1. frames \in Seq(Frame(S, Allocated)) /\ Frame(S, Allocated) \subseteq Frame(T, Allocated')
    BY CommonTypes DEF Inv, TypeInv
  <2> QED
    BY <2>1, SeqMonotonic
<1>3. /\ frames' \in Seq(Frame(T, Allocated')) /\ Len(frames') = Len(frames)
      /\ \A i \in 1 .. Len(frames) : frames'[i] = IF i = Len(frames) THEN f ELSE frames[i]
  BY <1>1, <1>2, ExceptSeq
<1>4. \A i \in DOMAIN frames : ast[frames[i].target].tag # "pointer"
  BY NoPointers
<1>5. frames'[Len(frames)] = f /\ ast' = ast
  BY <1>1, <1>3 DEF Common
<1>6. Entered(Len(frames))' => EnteredOK(Len(frames))'
  <2> SUFFICES ASSUME Entered(Len(frames))' PROVE EnteredOK(Len(frames))'
    OBVIOUS
  <2>1. /\ this.tag \in Branching /\ Len(f.results) >= Len(parameter_types(this.tag))
        /\ control' # Going
    BY <1>3, <1>5 DEF Entered, this
  <2>2. Len(f.results) \in Nat /\ Len(parameter_types(this.tag)) \in Nat
    <3>1. f.results \in Seq(Values(T, Allocated'))
      BY DEF Frame
    <3> QED
      BY <3>1, LenProperties, ParameterCount
  <2>3. KeptOK(f, ast, flow'.count, DOMAIN labels')
    BY <2>1, <2>2
  <2> QED
    BY <1>3, <1>5, <2>3 DEF EnteredOK
<1>7. \A i \in 1 .. Len(frames) :
          /\ i < Len(frames) => frames'[i] = frames[i]
          /\ frames'[i].target = frames[i].target /\ frames'[i].base = frames[i].base
  <2>1. \A i \in 1 .. Len(frames) : i < Len(frames) => i # Len(frames)
    OBVIOUS
  <2>2. f.target = frames[Len(frames)].target /\ f.base = frames[Len(frames)].base
    BY DEF top
  <2> TAKE i \in 1 .. Len(frames)
  <2>3. frames'[i] = IF i = Len(frames) THEN f ELSE frames[i]
    BY <1>3
  <2>4. CASE i = Len(frames)
    <3>1. frames'[i] = f /\ ~(i < Len(frames))
      BY <2>1, <2>3, <2>4
    <3> QED
      BY <2>2, <2>4, <3>1
  <2>5. CASE i # Len(frames)
    BY <2>3, <2>5
  <2> QED
    BY <2>4, <2>5
<1>8. Stays(T)
  BY <1>3, <1>4, <1>6, <1>7 DEF Stays
<1> QED
  BY <1>8 DEF OneStep

\* The frames stay as they are, and the last one calls.
LEMMA TopCalls ==
    ASSUME NEW S, Inv(S), NEW T, NEW n, NEW id, Common(S, T, n, id),
           frames # <<>>, this.tag # "pointer", frames' = frames, loop_catcher' = loop_catcher,
           NEW called \in DOMAIN ast \cup {0}, NEW degree \in {0, 2},
           control' = Called(called, degree),
           \/ this.tag \notin Branching
           \/ Len(results) < Len(parameter_types(this.tag))
           \/ KeptOK(top, ast, flow'.count, DOMAIN labels')
    PROVE  OneStep(S)
<1>1. top \in Frame(T, Allocated')
  BY TopFacts, CommonTypes
<1>2. frames' = [frames EXCEPT ![Len(frames)] = top]
  <2>1. frames \in Seq(Frame(S, Allocated))
    BY DEF Inv, TypeInv
  <2> QED
    BY <2>1 DEF top
<1>3. ControlOK(T, Allocated)'
  BY CommonTypes DEF ControlOK
<1> QED
  BY <1>1, <1>2, <1>3, TopGoesOn DEF results

\* A call is answered, or an answer is passed on: the frames stay as they are.
LEMMA AnswerStays ==
    ASSUME NEW S, Inv(S), NEW id, Common(S, S, Len(object_stack), id), control # Going,
           frames' = frames, loop_catcher' = loop_catcher,
           NEW r \in Values(S, Allocated'), control' = Returned(r)
    PROVE  OneStep(S)
<1>1. \A i \in DOMAIN frames : ast[frames[i].target].tag # "pointer"
  BY NoPointers
<1>2. frames' \in Seq(Frame(S, Allocated'))
  <2>1. frames \in Seq(Frame(S, Allocated)) /\ Frame(S, Allocated) \subseteq Frame(S, Allocated')
    BY CommonTypes DEF Inv, TypeInv
  <2> QED
    BY <2>1, SeqMonotonic
<1>3. ControlOK(S, Allocated)'
  BY DEF ControlOK
<1>4. ASSUME frames # <<>>, Entered(Len(frames))' PROVE EnteredOK(Len(frames))'
  <2>1. Entered(Len(frames)) /\ ast' = ast
    BY <1>4, CommonTypes DEF Entered
  <2>2. EnteredOK(Len(frames))
    BY <1>4, <2>1, TopFacts, FrameFacts DEF Inv, ScopeInv
  <2>3. KeptOK(frames[Len(frames)], ast, flow'.count, DOMAIN labels')
    BY <2>2, CommonKeeps DEF EnteredOK
  <2> QED
    BY <2>1, <2>3 DEF EnteredOK
<1>5. Stays(S)
  BY <1>1, <1>2, <1>3, <1>4 DEF Stays
<1> QED
  BY <1>5 DEF OneStep

-----------------------------------------------------------------------------
(* The actions: calls and answers *)

\* A value that was loaded is a value.
LEMMA LoadedFacts ==
    ASSUME NEW S, Inv(S), NEW info \in Values(S, Allocated)
    PROVE  /\ Loaded(info) \in Values(S, Allocated) /\ MoreCode(AfterLoad(info)) /\ MoreCode(flow)
           /\ Loaded(info).error = info.error
<1>1. FlowOK(flow) /\ flow.count \in Nat /\ flow.block \in Nat /\ MoreCode(flow)
  BY MemoryStays DEF FlowOK
<1>2. MoreCode(AfterLoad(info))
  BY <1>1, LoadOK DEF MoreCode
<1>3. CASE info.place # 0
  <2>1. Loaded(info) = [info EXCEPT !.made = flow.block]
    BY <1>3 DEF Loaded
  <2>2. /\ info \in [error : Codes, type : S, place : 0 .. Allocated, hidden : BOOLEAN, made : Nat,
                     constant : Constants(S), subtype : BOOLEAN]
        /\ Sized(info.type, info.constant)
    BY DEF Values
  <2>3. /\ Loaded(info) \in [error : Codes, type : S, place : 0 .. Allocated, hidden : BOOLEAN,
                             made : Nat, constant : Constants(S), subtype : BOOLEAN]
        /\ Loaded(info).type = info.type /\ Loaded(info).constant = info.constant
        /\ Loaded(info).error = info.error
    BY <1>1, <2>1, <2>2
  <2>4. Loaded(info) \in Values(S, Allocated)
    BY <2>2, <2>3 DEF Values
  <2> QED
    BY <1>1, <1>2, <2>3, <2>4
<1>4. CASE info.place = 0
  BY <1>1, <1>2, <1>4 DEF Loaded
<1> QED
  BY <1>3, <1>4

\* The four ways a call of generate_IR may go.
LEMMA CallSteps ==
    ASSUME NEW S, Inv(S), null_target \/ refreshed_load \/ infinite_loop \/ begin
    PROVE  OneStep(S)
<1>1. UNCHANGED <<ast, living, labels, allocations>> /\ control.kind = "call"
  BY DEF null_target, refreshed_load, infinite_loop, begin, Call
<1>2. control # Going /\ MoreCode(flow) /\ Allocated' = Allocated /\ Allocated \in Nat
      /\ Fieldless \subseteq S
  BY <1>1, ControlFacts, MemoryStays DEF Allocated, Inv, TypeInv
<1>3. CASE null_target
  <2>1. flow' = flow /\ UNCHANGED <<frames, loop_catcher>> /\ control' = Returned(NullObject)
    BY <1>3 DEF null_target
  <2>2. Common(S, S, Len(object_stack), 0)
    BY <1>1, <1>2, <2>1, NothingCommon
  <2>3. NullObject \in Values(S, Allocated')
    BY <1>2, NullIsValue
  <2> QED
    BY <1>2, <2>1, <2>2, <2>3, AnswerStays
<1>4. CASE infinite_loop
  <2>1. /\ flow' = flow /\ UNCHANGED <<frames, loop_catcher>>
        /\ control' = Returned(Error("infinite_loop"))
    BY <1>4 DEF infinite_loop
  <2>2. Common(S, S, Len(object_stack), 0)
    BY <1>1, <1>2, <2>1, NothingCommon
  <2>3. Error("infinite_loop") \in Values(S, Allocated')
    <3>1. "infinite_loop" \in Codes
      BY DEF Codes
    <3> QED
      BY <1>2, <3>1, NullIsValue
  <2> QED
    BY <1>2, <2>1, <2>2, <2>3, AnswerStays
<1>5. CASE refreshed_load
  <2> DEFINE info == objects[control.target]
  <2>1. /\ flow' = AfterLoad(info) /\ UNCHANGED <<frames, loop_catcher>>
        /\ control' = Returned(Loaded(info)) /\ control.target \in DOMAIN objects
    BY <1>5 DEF refreshed_load
  <2>2. info \in Values(S, Allocated)
    BY <2>1 DEF Inv, TypeInv, Objects
  <2>3. Loaded(info) \in Values(S, Allocated') /\ MoreCode(AfterLoad(info))
    BY <1>2, <2>2, LoadedFacts
  <2> HIDE DEF info
  <2>4. Common(S, S, Len(object_stack), 0)
    BY <1>1, <2>1, <2>3, NothingCommon
  <2> QED
    BY <1>2, <2>1, <2>3, <2>4, AnswerStays
<1>6. CASE begin
  <2>1. flow' = flow
    BY <1>6 DEF begin
  <2>2. Common(S, S, Len(object_stack), 0)
    BY <1>1, <1>2, <2>1, NothingCommon
  <2> QED
    BY <1>6, <2>2 DEF OneStep
<1> QED
  BY <1>3, <1>4, <1>5, <1>6

\* A field of the last frame's AST.
LEMMA FieldFacts ==
    ASSUME NEW S, Inv(S), frames # <<>>, NEW i \in Nat, 1 <= i, i <= Len(this.fields)
    PROVE  this.fields[i] \in DOMAIN ast \cup {0}
<1>1. this.fields \in Seq(DOMAIN ast \cup {0})
  BY TopFacts, ASTFacts DEF this
<1>2. i \in 1 .. Len(this.fields)
  BY <1>1, LenProperties
<1> QED
  BY <1>1, <1>2, ElementOfSeq

\* There are as many fields as the tag asks for.
LEMMA PointerFields ==
    /\ pointer_fields("if") = 3 /\ pointer_fields("dyn_subobj") = 10
    /\ \A tag \in {"goto", "label", "pointer"} : pointer_fields(tag) = 1
    /\ \A tag \in InBranch : pointer_fields(tag) \in {2, 3}
    /\ \A tag : pointer_fields(tag) \in Nat /\ Len(parameter_types(tag)) <= pointer_fields(tag)
<1>1. \A tag : added_pointer_fields(tag) \in Nat
  BY DEF added_pointer_fields, case_type
<1>2. /\ added_pointer_fields("if") = 2 /\ added_pointer_fields("dyn_subobj") = 8
      /\ \A tag \in {"goto", "label", "pointer"} : added_pointer_fields(tag) = 1
      /\ \A tag \in InBranch : added_pointer_fields(tag) = 1
  BY DEF added_pointer_fields, case_type, InBranch
<1>3. \A tag \in {"goto", "label", "pointer"} : Len(parameter_types(tag)) = 0
  BY DEF parameter_types, Folding, Shifts, Divisions
<1>4. \A tag \in InBranch : Len(parameter_types(tag)) \in {1, 2}
  BY ParameterCount DEF InBranch
<1>5. /\ Len(parameter_types("if")) = 1 /\ Len(parameter_types("dyn_subobj")) = 2
      /\ \A tag : Len(parameter_types(tag)) \in Nat
  BY ParameterCount
<1>6. \A tag : pointer_fields(tag) = Len(parameter_types(tag)) + added_pointer_fields(tag)
  BY DEF pointer_fields
<1>7. pointer_fields("if") = 3 /\ pointer_fields("dyn_subobj") = 10
  <2>1. /\ pointer_fields("if") = Len(parameter_types("if")) + added_pointer_fields("if")
        /\ pointer_fields("dyn_subobj") =
               Len(parameter_types("dyn_subobj")) + added_pointer_fields("dyn_subobj")
    BY <1>6
  <2>2. pointer_fields("if") = 1 + 2 /\ pointer_fields("dyn_subobj") = 2 + 8
    BY <1>2, <1>5, <2>1
  <2> QED
    BY <2>2
<1>8. ASSUME NEW tag \in {"goto", "label", "pointer"} PROVE pointer_fields(tag) = 1
  BY <1>2, <1>3, <1>6
<1>9. ASSUME NEW tag \in InBranch PROVE pointer_fields(tag) \in {2, 3}
  <2>1. added_pointer_fields(tag) = 1 /\ Len(parameter_types(tag)) \in {1, 2}
    BY <1>2, <1>4
  <2>2. pointer_fields(tag) = Len(parameter_types(tag)) + 1
    BY <1>6, <2>1
  <2>3. \A n \in {1, 2} : n + 1 \in {2, 3}
    OBVIOUS
  <2> QED
    BY <2>1, <2>2, <2>3
<1>10. ASSUME NEW tag
       PROVE  pointer_fields(tag) \in Nat /\ Len(parameter_types(tag)) <= pointer_fields(tag)
  <2>1. added_pointer_fields(tag) \in Nat /\ Len(parameter_types(tag)) \in Nat
    BY <1>1, <1>5
  <2> QED
    BY <1>6, <2>1
<1> QED
  BY <1>7, <1>8, <1>9, <1>10

\* The fields of the last frame's AST.
LEMMA FieldCount ==
    ASSUME NEW S, Inv(S), frames # <<>>
    PROVE  /\ this.fields \in Seq(DOMAIN ast \cup {0}) /\ Len(this.fields) \in Nat
           /\ Len(this.fields) >= pointer_fields(this.tag)
<1>1. /\ this.fields \in Seq(DOMAIN ast \cup {0})
      /\ Len(this.fields) >= pointer_fields(this.tag)
  BY TopFacts, ASTFacts DEF this
<1> QED
  BY <1>1, LenProperties

\* The next field is compiled.
LEMMA CompileFieldStep ==
    ASSUME NEW S, Inv(S), compile_field
    PROVE  OneStep(S)
<1>1. /\ frames # <<>> /\ control = Going /\ Len(results) < Len(parameter_types(this.tag))
      /\ UNCHANGED <<ast, frames, living, labels, loop_catcher, allocations, flow>>
      /\ control' = Called(this.fields[Len(results) + 1], 0)
  BY DEF compile_field, fields_to_compile
<1>2. Common(S, S, Len(object_stack), 0)
  BY <1>1, MemoryStays, NothingCommon
<1>3. this.tag # "pointer"
  BY <1>1, TopFacts, ParameterCount
<1>4. this.fields[Len(results) + 1] \in DOMAIN ast \cup {0}
  <2>1. /\ Len(results) \in Nat /\ Len(parameter_types(this.tag)) \in Nat
        /\ pointer_fields(this.tag) \in Nat /\ Len(this.fields) \in Nat
        /\ Len(parameter_types(this.tag)) <= pointer_fields(this.tag)
        /\ Len(this.fields) >= pointer_fields(this.tag)
    BY <1>1, TopFacts, ParameterCount, PointerFields, FieldCount
  <2>2. Len(results) + 1 \in Nat /\ 1 <= Len(results) + 1 /\ Len(results) + 1 <= Len(this.fields)
    BY <1>1, <2>1
  <2> QED
    BY <1>1, <2>2, FieldFacts
<1> QED
  BY <1>1, <1>2, <1>3, <1>4, TopCalls

\* The last frame with one result more.
LEMMA AnsweredFacts ==
    ASSUME NEW S, Inv(S), frames # <<>>, control.kind = "return"
    PROVE  \E f \in Frame(S, Allocated) :
               /\ Answered = [frames EXCEPT ![Len(frames)] = f]
               /\ f.target = top.target /\ f.base = top.base /\ f.degree = top.degree
               /\ f.mark = top.mark /\ f.merge = top.merge
               /\ f.results = Append(results, control.result)
               /\ Len(f.results) = Len(results) + 1
<1> DEFINE more == Append(results, control.result)
           f == [top EXCEPT !.results = more]
<1>1. top \in Frame(S, Allocated) /\ results \in Seq(Values(S, Allocated))
  BY TopFacts
<1>2. more \in Seq(Values(S, Allocated)) /\ Len(more) = Len(results) + 1
  BY <1>1, ControlFacts, AppendProperties
<1>3. Answered = [frames EXCEPT ![Len(frames)] = f]
  <2> HIDE DEF more
  <2>1. Answered = [frames EXCEPT ![Len(frames)].results = more]
    BY DEF Answered, With, more
  <2>2. frames \in Seq(Frame(S, Allocated)) /\ Len(frames) \in DOMAIN frames
    BY TopFacts, FrameFacts DEF Inv, TypeInv
  <2> QED
    BY <2>1, <2>2 DEF top
<1> HIDE DEF more
<1>4. /\ f \in Frame(S, Allocated) /\ f.results = more
      /\ f.target = top.target /\ f.base = top.base /\ f.degree = top.degree
      /\ f.mark = top.mark /\ f.merge = top.merge
  BY <1>1, <1>2 DEF Frame
<1> HIDE DEF f
<1> QED
  BY <1>2, <1>3, <1>4 DEF more

\* A field is compiled: it is of the parameter's type, or an error.
LEMMA FieldCompiledStep ==
    ASSUME NEW S, Inv(S), field_compiled
    PROVE  OneStep(S)
<1>1. /\ frames # <<>> /\ control.kind = "return" /\ Len(results) < Len(parameter_types(this.tag))
      /\ UNCHANGED <<ast, labels, flow>>
  BY DEF field_compiled, fields_to_compile
<1>2. MoreCode(flow')
  BY <1>1, MemoryStays
<1>3. CASE /\ frames' = Answered /\ control' = Going
           /\ UNCHANGED <<living, loop_catcher, allocations>>
  <2>1. Common(S, S, Len(object_stack), 0)
    BY <1>1, <1>2, <1>3, NothingCommon
  <2>2. PICK f \in Frame(S, Allocated) :
              /\ Answered = [frames EXCEPT ![Len(frames)] = f]
              /\ f.target = top.target /\ f.base = top.base
    BY <1>1, AnsweredFacts
  <2>3. f \in Frame(S, Allocated')
    BY <2>1, CommonTypes
  <2>4. this.tag # "pointer"
    BY <1>1, TopFacts, ParameterCount
  <2>5. ControlOK(S, Allocated)'
    BY <1>3 DEF ControlOK, Going
  <2> QED
    BY <1>1, <1>3, <2>1, <2>2, <2>3, <2>4, <2>5, TopGoesOn
<1>4. CASE return_code("type_mismatch")
  BY <1>1, <1>2, <1>4, ReturnCodeEnds DEF Codes
<1> QED
  BY <1>3, <1>4 DEF field_compiled

\* An error is passed on.
LEMMA PassErrorStep ==
    ASSUME NEW S, Inv(S), pass_error
    PROVE  OneStep(S)
<1>1. /\ frames # <<>> /\ control.kind = "return" /\ control.result.error # "no_error" /\ Pop
      /\ UNCHANGED <<ast, living, labels, allocations, flow>> /\ control' = control
  BY DEF pass_error
<1>2. Common(S, S, Len(object_stack), 0)
  BY <1>1, MemoryStays, NothingCommon
<1>3. control.result \in Values(S, Allocated') /\ control' = Returned(control.result)
  <2>1. Allocated' = Allocated
    BY <1>1 DEF Allocated
  <2> QED
    BY <1>1, <2>1, ControlFacts
<1>4. Ends(S, Len(object_stack), 0)
  BY <1>1, <1>3 DEF Ends
<1> QED
  BY <1>2, <1>4 DEF OneStep

\* What a frame that returned well is given back to.
LEMMA BackFacts ==
    ASSUME NEW S, Inv(S), NEW tags, Back(tags)
    PROVE  /\ frames # <<>> /\ control.kind = "return" /\ this.tag \in tags /\ control # Going
           /\ Len(results) >= Len(parameter_types(this.tag))
           /\ control.result \in Values(S, Allocated)
           /\ this.tag # "pointer" /\ FlowOK(flow) /\ flow.count \in Nat
           /\ this.tag \in Branching => KeptOK(top, ast, flow.count, DOMAIN labels)
<1>1. /\ frames # <<>> /\ control.kind = "return" /\ this.tag \in tags
      /\ Len(results) >= Len(parameter_types(this.tag))
  BY DEF Back, fields_to_compile
<1>2. control # Going /\ control.result \in Values(S, Allocated)
  BY <1>1, ControlFacts
<1>3. Len(frames) \in DOMAIN frames
  BY <1>1, TopFacts, FrameFacts
<1>4. this.tag # "pointer"
  BY <1>2, <1>3, NoPointers DEF this, top
<1>5. this.tag \in Branching => Entered(Len(frames))
  BY <1>1, <1>2 DEF Entered, this, top, results
<1>6. this.tag \in Branching => KeptOK(top, ast, flow.count, DOMAIN labels)
  BY <1>3, <1>5 DEF Inv, ScopeInv, EnteredOK, top
<1> QED
  BY <1>1, <1>2, <1>4, <1>6, MemoryStays DEF FlowOK

\* The next statement of a basicblock, or its end.
LEMMA BasicblockStep ==
    ASSUME NEW S, Inv(S), basicblock
    PROVE  OneStep(S)
<1>1. /\ frames # <<>> /\ control = Going /\ this.tag = "basicblock"
      /\ UNCHANGED <<ast, living, labels, allocations>>
  BY DEF basicblock
<1>2. /\ results \in Seq(Values(S, Allocated)) /\ Len(results) \in Nat
      /\ \A i \in 1 .. Len(results) : results[i] \in Values(S, Allocated)
  BY <1>1, TopFacts
<1>3. MoreCode(flow)
  BY MemoryStays
<1>4. CASE /\ Len(results) < Len(this.fields)
           /\ control' = Called(this.fields[Len(results) + 1], 2)
           /\ UNCHANGED <<frames, loop_catcher, flow>>
  <2>1. Common(S, S, Len(object_stack), 0)
    BY <1>1, <1>3, <1>4, NothingCommon
  <2>2. this.fields[Len(results) + 1] \in DOMAIN ast \cup {0}
    <3>1. Len(this.fields) \in Nat
      BY <1>1, FieldCount
    <3>2. Len(results) + 1 \in Nat /\ 1 <= Len(results) + 1 /\ Len(results) + 1 <= Len(this.fields)
      BY <1>2, <1>4, <3>1
    <3> QED
      BY <1>1, <3>2, FieldFacts
  <2>3. this.tag # "pointer" /\ this.tag \notin Branching
    BY <1>1 DEF Branching, InBranch
  <2> QED
    BY <1>1, <1>4, <2>1, <2>2, <2>3, TopCalls
<1>5. CASE ~(Len(results) < Len(this.fields))
  <2> DEFINE final == IF results = <<>> THEN NullObject ELSE Last(results)
             loads == top.degree = 0 /\ final.place # 0
  <2>1. /\ Pop /\ flow' = (IF loads THEN AfterLoad(final) ELSE flow)
        /\ control' = Returned(IF loads THEN Loaded(final) ELSE final)
    BY <1>5 DEF basicblock
  <2>2. Allocated \in Nat /\ Allocated' = Allocated /\ Fieldless \subseteq S
    BY <1>1, MemoryStays DEF Allocated, Inv, TypeInv
  <2>3. final \in Values(S, Allocated)
    <3>1. CASE results = <<>>
      BY <2>2, <3>1, NullIsValue
    <3>2. CASE results # <<>>
      <4>1. Len(results) \in 1 .. Len(results)
        <5>1. Len(results) # 0
          BY <1>2, <3>2, EmptySeq
        <5> QED
          BY <1>2, <5>1
      <4> QED
        BY <1>2, <3>2, <4>1 DEF Last
    <3> QED
      BY <3>1, <3>2
  <2> HIDE DEF final
  <2>4. Loaded(final) \in Values(S, Allocated) /\ MoreCode(AfterLoad(final))
    BY <2>3, LoadedFacts
  <2>5. Common(S, S, Len(object_stack), 0)
    BY <1>1, <1>3, <2>1, <2>4, NothingCommon
  <2>6. \E r \in Values(S, Allocated') : control' = Returned(r)
    BY <2>1, <2>2, <2>3, <2>4
  <2>7. Ends(S, Len(object_stack), 0)
    BY <1>1, <2>1, <2>6 DEF Ends
  <2> QED
    BY <2>5, <2>7 DEF OneStep
<1> QED
  BY <1>4, <1>5 DEF basicblock

\* A statement is compiled.
LEMMA ElementCompiledStep ==
    ASSUME NEW S, Inv(S), element_compiled
    PROVE  OneStep(S)
<1>1. Back({"basicblock"}) /\ frames' = Answered /\ control' = Going
      /\ UNCHANGED <<ast, living, labels, loop_catcher, allocations, flow>>
  BY DEF element_compiled, BackWell
<1>2. frames # <<>> /\ control.kind = "return" /\ this.tag # "pointer"
  BY <1>1, BackFacts
<1>3. Common(S, S, Len(object_stack), 0)
  BY <1>1, MemoryStays, NothingCommon
<1>4. PICK f \in Frame(S, Allocated) :
            /\ Answered = [frames EXCEPT ![Len(frames)] = f]
            /\ f.target = top.target /\ f.base = top.base
  BY <1>2, AnsweredFacts
<1>5. f \in Frame(S, Allocated')
  BY <1>3, CommonTypes
<1>6. ControlOK(S, Allocated)'
  BY <1>1 DEF ControlOK, Going
<1> QED
  BY <1>1, <1>2, <1>3, <1>4, <1>5, <1>6, TopGoesOn

-----------------------------------------------------------------------------
(* The actions: branches and labels *)

\* The last frame, with what it remembers of the stack and of the code.
Marked(mark, merge) == [top EXCEPT !.mark = mark, !.merge = merge]

\* A frame with a mark and a merge is a frame.
LEMMA MarkedFacts ==
    ASSUME NEW S, Inv(S), frames # <<>>, NEW mark \in Nat, NEW merge \in Nat
    PROVE  /\ [frames EXCEPT ![Len(frames)].mark = mark, ![Len(frames)].merge = merge] =
              [frames EXCEPT ![Len(frames)] = Marked(mark, merge)]
           /\ Marked(mark, merge) \in Frame(S, Allocated)
           /\ Marked(mark, merge).target = top.target /\ Marked(mark, merge).base = top.base
           /\ Marked(mark, merge).mark = mark /\ Marked(mark, merge).merge = merge
<1>1. top \in Frame(S, Allocated)
  BY TopFacts
<1>2. [frames EXCEPT ![Len(frames)].mark = mark, ![Len(frames)].merge = merge] =
      [frames EXCEPT ![Len(frames)] = Marked(mark, merge)]
  <2>1. frames \in Seq(Frame(S, Allocated)) /\ Len(frames) \in DOMAIN frames
    BY TopFacts, FrameFacts DEF Inv, TypeInv
  <2> QED
    BY <2>1 DEF top, Marked
<1> QED
  BY <1>1, <1>2 DEF Frame, Marked

\* A branch is entered: the frame remembers the stack and where the branches meet.
LEMMA MarkedGoesOn ==
    ASSUME NEW S, Inv(S), NEW T, NEW n, NEW id, Common(S, T, n, id),
           frames # <<>>, this.tag # "pointer", this.tag # "label", NEW merge \in Nat,
           frames' = [frames EXCEPT ![Len(frames)].mark = Len(object_stack),
                                    ![Len(frames)].merge = merge],
           loop_catcher' = loop_catcher,
           NEW called \in DOMAIN ast \cup {0}, control' = Called(called, 0),
           this.tag \in {"if"} \cup InBranch => merge \in 1 .. flow'.count - 2,
           this.tag = "dyn_subobj" => merge \in 2 .. flow'.count - Len(case_type)
    PROVE  OneStep(S)
<1>1. Len(object_stack) \in Nat /\ top.base <= Len(object_stack)
  BY TopFacts
<1> DEFINE f == Marked(Len(object_stack), merge)
<1>2. /\ frames' = [frames EXCEPT ![Len(frames)] = f] /\ f \in Frame(S, Allocated)
      /\ f.target = top.target /\ f.base = top.base
      /\ f.mark = Len(object_stack) /\ f.merge = merge
  <2> DEFINE mark == Len(object_stack)
  <2>1. mark \in Nat /\ frames' = [frames EXCEPT ![Len(frames)].mark = mark,
                                                 ![Len(frames)].merge = merge]
    BY <1>1
  <2> HIDE DEF mark
  <2>2. /\ [frames EXCEPT ![Len(frames)].mark = mark, ![Len(frames)].merge = merge] =
           [frames EXCEPT ![Len(frames)] = Marked(mark, merge)]
        /\ Marked(mark, merge) \in Frame(S, Allocated)
        /\ Marked(mark, merge).target = top.target /\ Marked(mark, merge).base = top.base
        /\ Marked(mark, merge).mark = mark /\ Marked(mark, merge).merge = merge
    BY <2>1, MarkedFacts
  <2>3. frames' = [frames EXCEPT ![Len(frames)] = Marked(mark, merge)]
    BY <2>1, <2>2
  <2> QED
    BY <2>2, <2>3 DEF mark
<1> HIDE DEF f
<1>3. f \in Frame(T, Allocated')
  BY <1>2, CommonTypes
<1>4. ControlOK(T, Allocated)'
  BY CommonTypes DEF ControlOK
<1>5. KeptOK(f, ast, flow'.count, DOMAIN labels')
  BY <1>1, <1>2 DEF KeptOK, this
<1> QED
  BY <1>2, <1>3, <1>4, <1>5, TopGoesOn

\* if: the condition is compiled, the first branch begins.
LEMMA IfBeginStep ==
    ASSUME NEW S, Inv(S), if_begin
    PROVE  OneStep(S)
<1>1. InBody({"if"}) /\ UNCHANGED <<living, loop_catcher, allocations>>
      /\ control' = Called(this.fields[2], 0) /\ flow' = Fork(flow_here)
      /\ frames' = [frames EXCEPT ![Len(frames)].mark = Len(object_stack),
                                  ![Len(frames)].merge = Merge(flow)]
  BY DEF if_begin
<1>2. frames # <<>> /\ this.tag = "if" /\ ast' = ast /\ labels' = labels
  BY <1>1, InBodyFacts
<1>3. /\ FlowOK(Fork(flow_here)) /\ Fork(flow_here).count = flow.count + 3 /\ flow.count \in Nat
      /\ MoreCode(flow')
  BY <1>1, HereMore, ForkOK DEF MoreCode
<1>4. Common(S, S, Len(object_stack), 0)
  BY <1>1, <1>2, <1>3, NothingCommon
<1>5. this.fields[2] \in DOMAIN ast \cup {0}
  <2>1. Len(this.fields) \in Nat /\ Len(this.fields) >= 3
    BY <1>2, FieldCount, PointerFields
  <2> QED
    BY <1>2, <2>1, FieldFacts
<1>6. Merge(flow) \in Nat /\ Merge(flow) \in 1 .. flow'.count - 2
  BY <1>1, <1>3 DEF Merge
<1> QED
  BY <1>1, <1>2, <1>4, <1>5, <1>6, MarkedGoesOn

\* dyn_subobj: the switch, and the case of a null object.
LEMMA DynBeginStep ==
    ASSUME NEW S, Inv(S), dyn_begin
    PROVE  OneStep(S)
<1> DEFINE fl == IF Fits(results[1].type, dynamic_object) THEN create_if_value(flow_here)
                 ELSE flow_here
<1>1. InBody({"dyn_subobj"})
  BY DEF dyn_begin
<1>2. frames # <<>> /\ this.tag = "dyn_subobj" /\ ast' = ast /\ labels' = labels
  BY <1>1, InBodyFacts
<1>3. CASE \E code \in {"lost_hidden_subtype", "type_mismatch"} : Refused(code)
  BY <1>1, <1>3, BodyPlain DEF Codes
<1>4. CASE /\ frames' = [frames EXCEPT ![Len(frames)].mark = Len(object_stack),
                                       ![Len(frames)].merge = fl.count + 2]
           /\ flow' = Switch(fl)
           /\ control' = Called(this.fields[3], 0)
           /\ UNCHANGED <<living, loop_catcher, allocations>>
  <2>1. /\ FlowOK(fl) /\ fl.count \in Nat /\ fl.count >= flow.count /\ flow.count \in Nat
    BY HereMore DEF MoreCode, FlowOK
  <2> HIDE DEF fl
  <2>2. FlowOK(Switch(fl)) /\ Switch(fl).count = fl.count + 2 + Len(case_type) /\ Len(case_type) = 7
    BY <2>1, SwitchOK DEF case_type
  <2>3. MoreCode(flow')
    BY <1>4, <2>1, <2>2 DEF MoreCode
  <2>4. Common(S, S, Len(object_stack), 0)
    BY <1>2, <1>4, <2>3, NothingCommon
  <2>5. this.fields[3] \in DOMAIN ast \cup {0}
    <3>1. Len(this.fields) \in Nat /\ Len(this.fields) >= 10
      BY <1>2, FieldCount, PointerFields
    <3> QED
      BY <1>2, <3>1, FieldFacts
  <2>6. fl.count + 2 \in Nat /\ fl.count + 2 \in 2 .. flow'.count - Len(case_type)
    BY <1>4, <2>1, <2>2
  <2>7. this.tag # "pointer" /\ this.tag # "label" /\ this.tag \notin {"if"} \cup InBranch
    BY <1>2 DEF InBranch
  <2> QED
    BY <1>2, <1>4, <2>4, <2>5, <2>6, <2>7, MarkedGoesOn
<1> QED
  BY <1>3, <1>4 DEF dyn_begin

\* A reference to an object of a known type comes alive, above what is kept.
LEMMA ReferredCommon ==
    ASSUME NEW S, Inv(S), frames # <<>>, this.tag # "pointer",
           NEW T, S \subseteq T, IsClosed(T), NEW type \in T, get_size(type) > 0,
           NEW n \in Nat, top.base <= n, NEW fl, fl.block \in Nat, NEW subtype \in BOOLEAN,
           Referred(clear_stack(n), type, allocations, fl, subtype),
           ast' = ast, MoreCode(flow'), MoreLabels
    PROVE  Common(S, T, n, top.target)
<1> DEFINE all == new_reference(allocations, FreshValue(allocations))
           info == Value(type, Len(allocations) + 1, TRUE, fl.block, NoConstant, subtype)
<1>1. allocations' = all /\ new_living_object(clear_stack(n), top.target, info)
  BY DEF Referred
<1>2. /\ top.target \in DOMAIN ast /\ top.base \in Nat
      /\ \A i \in DOMAIN frames : frames[i].base <= top.base /\ frames[i].base \in Nat
  BY TopFacts, FrameFacts
<1>3. Keeps(n)
  BY <1>2 DEF Keeps
<1>4. /\ object_stack \in Seq(DOMAIN ast) /\ IsInjective(object_stack)
      /\ Range(object_stack) = DOMAIN objects
  BY DEF Inv, TypeInv, TablesAgree
<1>5. MoreMemory(all) /\ Len(all) = Len(allocations) + 1 /\ Len(allocations) \in Nat
  <2>1. FreshValue(allocations) \in {"alloca", "allocate", "value"} \X Nat
    BY MemoryStays DEF FreshValue
  <2> QED
    BY <2>1, MemoryStays, MemoryGrows
<1>6. object_stack' \in Seq(DOMAIN ast) /\ LivingMoves(n, top.target, info)
  <2> HIDE DEF info
  <2> QED
    BY <1>1, <1>2, <1>4, NewObjectMoves
<1>7. info \in Values(T, Allocated') /\ info.type = type
  <2> DEFINE code == "no_error"
             yes == TRUE
             where == Len(allocations) + 1
             made == fl.block
  <2>1. info = [error |-> code, type |-> type, place |-> where, hidden |-> yes,
                made |-> made, constant |-> NoConstant, subtype |-> subtype]
    BY DEF Value
  <2>2. NoConstant \in Constants(T) /\ Sized(type, NoConstant)
    BY SizeFacts, NoConstantFits
  <2>3. code \in Codes /\ yes \in BOOLEAN /\ made \in Nat
    BY DEF Codes
  <2>4. where \in 0 .. Allocated'
    BY <1>1, <1>5 DEF Allocated
  <2> HIDE DEF info, code, yes, where, made
  <2> QED
    BY <2>1, <2>2, <2>3, <2>4, IsValue
<1>8. PointsWell(Smaller(n, Len(object_stack)), top.target, info, allocations')
  BY DEF PointsWell, this
<1> HIDE DEF info, all
<1>9. NewObjectOK(T, Smaller(n, Len(object_stack)), top.target, info)
  BY <1>2, <1>7, <1>8 DEF NewObjectOK
<1>10. LivingStep(T, n, top.target)
  BY <1>6, <1>9 DEF LivingStep
<1> QED
  BY <1>1, <1>3, <1>5, <1>10 DEF Common

\* The branch that runs with a reference begins.
LEMMA BranchBeginStep ==
    ASSUME NEW S, Inv(S), branch_begin
    PROVE  OneStep(S)
<1>1. InBody(InBranch)
  BY DEF branch_begin
<1>2. frames # <<>> /\ this.tag \in InBranch /\ ast' = ast /\ labels' = labels
      /\ Len(results) = Len(parameter_types(this.tag))
  BY <1>1, InBodyFacts
<1>3. this.tag # "pointer" /\ this.tag # "label" /\ this.tag # "dyn_subobj" /\ "pointer" \notin InBranch
  BY <1>2 DEF InBranch
<1>4. CASE Refused("type_mismatch")
  BY <1>1, <1>3, <1>4, BodyPlain DEF Codes
<1>5. CASE /\ ~(/\ this.tag = "load_subobj_ref"
                /\ ver(results[1].type) \notin {"vector", "AST pointer"})
           /\ Referred(object_stack, ReferenceType, allocations, flow_here, FALSE)
           /\ frames' = [frames EXCEPT ![Len(frames)].mark = Len(object_stack),
                                       ![Len(frames)].merge = Merge(flow)]
           /\ flow' = Fork(flow_here)
           /\ control' = Called(Last(this.fields), 0)
           /\ UNCHANGED loop_catcher
  <2>1. IsClosed(S) /\ object_stack \in Seq(DOMAIN ast) /\ IsInjective(object_stack)
        /\ Range(object_stack) = DOMAIN objects
        /\ objects = [x \in DOMAIN objects |-> objects[x]]
    BY DEF Inv, TypeInv, TablesAgree
  <2>2. Len(object_stack) \in Nat /\ clear_stack(Len(object_stack)) = object_stack
        /\ top.base <= Len(object_stack)
    BY <1>2, <2>1, NothingCut, TopFacts
  <2>3. /\ FlowOK(Fork(flow_here)) /\ Fork(flow_here).count = flow.count + 3 /\ flow.count \in Nat
        /\ flow_here.block \in Nat
    BY HereMore, ForkOK DEF FlowOK
  <2>12. flow' = Fork(flow_here)
    BY <1>5
  <2>4. MoreCode(flow')
    BY <2>3, <2>12 DEF MoreCode
  <2>5. MoreLabels
    BY <1>2, <2>4, LabelsStay
  <2> DEFINE T == S \cup {ReferenceType}
  <2>6. IsClosed(T) /\ get_size(ReferenceType) > 0
    <3>1. /\ dynamic_object \in S /\ get_size(dynamic_object) = 1
          /\ AST_pointer \in S /\ get_size(AST_pointer) = 1
      BY Words, OneType
    <3>2. /\ IsClosed(S \cup {vector_of_ASTs}) /\ get_size(vector_of_ASTs) = 1
      <4>1. IsWord(AST_pointer)
        BY FieldlessType, OneType DEF IsWord
      <4>2. "vector" \in Compound
        BY DEF Compound
      <4> QED
        BY <2>1, <3>1, <4>1, <4>2, CompoundIsMade, CompoundType DEF vector_of_ASTs
    <3>3. CASE this.tag = "load_subobj_ref" /\ ver(results[1].type) = "vector"
      <4> DEFINE t == results[1].type
      <4>1. 1 \in 1 .. Len(results)
        BY <1>2, <3>3, ParameterCount
      <4>2. t \in S
        BY <1>2, <4>1, ResultFacts
      <4>3. Target(t) \in S /\ IsWord(Target(t))
        BY <2>1, <3>3, <4>2, TypeFacts DEF Compound
      <4>4. ReferenceType = Target(t)
        BY <3>3 DEF ReferenceType
      <4> HIDE DEF t
      <4>5. Components(Target(t)) = <<Target(t)>> /\ Target(t) # does_not_return
        BY <2>1, <4>3, TypeFacts DEF IsWord
      <4>6. get_size(Target(t)) = 1
        BY <4>5 DEF get_size
      <4>7. T = S /\ get_size(ReferenceType) = 1
        BY <4>3, <4>4, <4>6
      <4> HIDE DEF T
      <4> QED
        BY <2>1, <4>7
    <3>4. CASE ~(this.tag = "load_subobj_ref" /\ ver(results[1].type) = "vector")
      <4>1. CASE ReferenceType = dynamic_object \/ ReferenceType = AST_pointer
        <5>1. T = S /\ get_size(ReferenceType) = 1
          BY <3>1, <4>1
        <5> HIDE DEF T
        <5> QED
          BY <2>1, <5>1
      <4>3. CASE ReferenceType = vector_of_ASTs
        BY <3>2, <4>3
      <4>4. \/ ReferenceType = dynamic_object \/ ReferenceType = AST_pointer
            \/ ReferenceType = vector_of_ASTs
        <5> DEFINE tag == this.tag
        <5> HIDE DEF tag
        <5>4. ReferenceType =
                  CASE tag = "load_imv_from_AST" -> dynamic_object
                    [] tag = "load_vector_from_BB" -> vector_of_ASTs
                    [] OTHER -> IF ver(results[1].type) = "vector"
                                THEN Target(results[1].type) ELSE AST_pointer
          BY DEF ReferenceType, tag
        <5>1. CASE tag = "load_imv_from_AST"
          BY <5>1, <5>4
        <5>2. CASE tag = "load_vector_from_BB"
          BY <5>2, <5>4
        <5>3. CASE tag = "load_subobj_ref"
          <6>1. ver(results[1].type) = "AST pointer"
            BY <1>5, <3>4, <5>3 DEF tag
          <6> QED
            BY <5>3, <5>4, <6>1
        <5> QED
          BY <1>2, <5>1, <5>2, <5>3 DEF InBranch, tag
      <4> QED
        BY <4>1, <4>3, <4>4
    <3> QED
      BY <3>3, <3>4
  <2>7. S \subseteq T /\ ReferenceType \in T
    OBVIOUS
  <2>8. Referred(clear_stack(Len(object_stack)), ReferenceType, allocations, flow_here, FALSE)
    BY <1>5, <2>2
  <2> HIDE DEF T
  <2>9. Common(S, T, Len(object_stack), top.target)
    BY <1>2, <1>3, <2>2, <2>3, <2>4, <2>5, <2>6, <2>7, <2>8, ReferredCommon
  <2>10. Last(this.fields) \in DOMAIN ast \cup {0}
    <3>2. Len(this.fields) \in Nat /\ 1 <= Len(this.fields)
      <4>1. pointer_fields(this.tag) \in {2, 3} /\ Len(this.fields) >= pointer_fields(this.tag)
        BY <1>2, FieldCount, PointerFields
      <4> QED
        BY <1>2, <4>1, FieldCount
    <3> QED
      BY <1>2, <3>2, FieldFacts DEF Last
  <2>11. Merge(flow) \in Nat /\ Merge(flow) \in 1 .. flow'.count - 2
    BY <2>3, <2>12 DEF Merge
  <2> QED
    BY <1>2, <1>3, <1>5, <2>9, <2>10, <2>11, MarkedGoesOn
<1> QED
  BY <1>4, <1>5 DEF branch_begin

\* The stack is cut and nothing comes alive.
LEMMA CutCommon ==
    ASSUME NEW S, Inv(S), frames # <<>>, NEW n \in Nat, top.base <= n, ClearedTo(n), NEW id,
           allocations' = allocations, ast' = ast, MoreCode(flow'), MoreLabels
    PROVE  Common(S, S, n, id)
<1>1. \A i \in DOMAIN frames : frames[i].base <= top.base /\ frames[i].base \in Nat
  BY TopFacts, FrameFacts
<1>2. Keeps(n)
  <2>1. top.base \in Nat
    BY TopFacts
  <2> QED
    BY <1>1, <2>1 DEF Keeps
<1>3. /\ object_stack \in Seq(DOMAIN ast) /\ IsInjective(object_stack)
      /\ Range(object_stack) = DOMAIN objects
  BY DEF Inv, TypeInv, TablesAgree
<1>4. /\ object_stack' \in Seq(DOMAIN ast) /\ LivingMoves(n, id, NullObject)
      /\ Len(object_stack') = Smaller(n, Len(object_stack))
  BY <1>3, CutMoves DEF ClearedTo
<1>5. Smaller(n, Len(object_stack)) \in Nat
  BY <1>4 DEF LivingMoves
<1>6. Len(object_stack') # Smaller(n, Len(object_stack)) + 1
  BY <1>4, <1>5
<1>7. LivingStep(S, n, id)
  BY <1>4, <1>6 DEF LivingStep
<1> QED
  BY <1>2, <1>7, MemoryStays DEF Common, Inv, TypeInv

\* The last frame has one result more, and calls for the next.
LEMMA AnsweredGoesOn ==
    ASSUME NEW S, Inv(S), NEW n, NEW id, Common(S, S, n, id),
           frames # <<>>, control.kind = "return", this.tag # "pointer", this.tag \in Branching,
           KeptOK(top, ast, flow.count, DOMAIN labels),
           frames' = Answered, loop_catcher' = loop_catcher,
           NEW called \in DOMAIN ast \cup {0}, control' = Called(called, 0)
    PROVE  OneStep(S)
<1>1. PICK f \in Frame(S, Allocated) :
            /\ Answered = [frames EXCEPT ![Len(frames)] = f]
            /\ f.target = top.target /\ f.base = top.base
            /\ f.mark = top.mark /\ f.merge = top.merge
  BY AnsweredFacts
<1>2. f \in Frame(S, Allocated')
  BY CommonTypes
<1>3. ControlOK(S, Allocated)'
  BY CommonTypes DEF ControlOK
<1>4. KeptOK(f, ast, flow.count, DOMAIN labels)
  BY <1>1 DEF KeptOK
<1>5. KeptOK(f, ast, flow'.count, DOMAIN labels')
  BY <1>4, CommonKeeps
<1> QED
  BY <1>1, <1>2, <1>3, <1>5, TopGoesOn

\* if: from the first branch to the second.
LEMMA IfThenStep ==
    ASSUME NEW S, Inv(S), if_then
    PROVE  OneStep(S)
<1>1. /\ Back({"if"}) /\ ClearedTo(top.mark) /\ frames' = Answered
      /\ flow' = At(Jump(flow, top.merge), top.merge + 2)
      /\ control' = Called(this.fields[3], 0)
      /\ UNCHANGED <<ast, labels, loop_catcher, allocations>>
  BY DEF if_then, BackWell
<1>2. this.tag \in Branching
  BY <1>1, BackFacts DEF Branching
<1>3. /\ frames # <<>> /\ control.kind = "return" /\ this.tag = "if"
      /\ FlowOK(flow) /\ flow.count \in Nat
      /\ KeptOK(top, ast, flow.count, DOMAIN labels)
  BY <1>1, <1>2, BackFacts
<1>4. top.base <= top.mark /\ top.mark \in Nat /\ top.merge \in 1 .. flow.count - 2
  BY <1>3, TopFacts DEF KeptOK, this
<1>5. MoreCode(flow')
  <2> DEFINE jumped == Jump(flow, top.merge)
  <2>1. FlowOK(jumped) /\ jumped.count = flow.count
    BY <1>3, <1>4, JumpOK
  <2> HIDE DEF jumped
  <2>2. top.merge + 2 \in 1 .. jumped.count
    BY <1>3, <1>4, <2>1
  <2>3. FlowOK(At(jumped, top.merge + 2)) /\ At(jumped, top.merge + 2).count = flow.count
    BY <2>1, <2>2, AtOK
  <2>4. flow' = At(jumped, top.merge + 2)
    BY <1>1 DEF jumped
  <2> QED
    BY <1>3, <2>3, <2>4 DEF MoreCode
<1>6. Common(S, S, top.mark, 0)
  <2>1. MoreLabels
    BY <1>1, <1>5, LabelsStay
  <2> QED
    BY <1>1, <1>3, <1>4, <1>5, <2>1, CutCommon
<1>7. this.fields[3] \in DOMAIN ast \cup {0}
  <2>1. Len(this.fields) \in Nat /\ Len(this.fields) >= 3
    BY <1>3, FieldCount, PointerFields
  <2> QED
    BY <1>3, <2>1, FieldFacts
<1> QED
  BY <1>1, <1>2, <1>3, <1>6, <1>7, AnsweredGoesOn

\* dyn_subobj: the next case, with a reference of its type.
LEMMA DynCaseStep ==
    ASSUME NEW S, Inv(S), dyn_case
    PROVE  OneStep(S)
<1> DEFINE x == Len(results) - 1
           next == At(Jump(flow, top.merge), case_block(top.merge, x))
<1>1. /\ Back({"dyn_subobj"}) /\ Len(results) < 2 + Len(case_type)
      /\ flow' = next
      /\ Referred(clear_stack(top.mark), case_type[x], allocations, next, x >= 6)
      /\ control' = Called(this.fields[x + 3], 0)
      /\ frames' = Answered
      /\ UNCHANGED <<ast, labels, loop_catcher>>
  BY DEF dyn_case, BackWell
<1>2. this.tag \in Branching
  BY <1>1, BackFacts DEF Branching
<1>3. /\ frames # <<>> /\ control.kind = "return" /\ this.tag = "dyn_subobj"
      /\ this.tag # "pointer" /\ FlowOK(flow) /\ flow.count \in Nat
      /\ KeptOK(top, ast, flow.count, DOMAIN labels)
      /\ Len(results) >= Len(parameter_types(this.tag))
  BY <1>1, <1>2, BackFacts
<1>4. Len(case_type) = 7
  BY DEF case_type
<1>5. top.base <= top.mark /\ top.mark \in Nat /\ top.merge \in 2 .. flow.count - 7
  <2>1. top.base <= top.mark /\ top.merge \in 2 .. flow.count - Len(case_type)
    BY <1>3 DEF KeptOK, this
  <2> QED
    BY <1>3, <1>4, <2>1, TopFacts
<1>6. x \in 1 .. 7
  <2>1. \A n \in Nat : n >= 2 /\ n < 2 + 7 => n - 1 \in 1 .. 7
    OBVIOUS
  <2>2. Len(results) \in Nat /\ Len(parameter_types("dyn_subobj")) = 2
    BY <1>3, TopFacts, ParameterCount
  <2>3. Len(results) >= 2 /\ Len(results) < 2 + 7
    BY <1>1, <1>3, <1>4, <2>2
  <2> QED
    BY <2>1, <2>2, <2>3
<1> HIDE DEF x
<1>7. /\ FlowOK(next) /\ next.count = flow.count /\ next.block \in Nat
  <2> DEFINE jumped == Jump(flow, top.merge)
             b == case_block(top.merge, x)
  <2>1. FlowOK(jumped) /\ jumped.count = flow.count
    BY <1>3, <1>5, JumpOK
  <2>2. b \in 1 .. flow.count
    <3>1. x # 0 /\ x \in Int
      BY <1>6
    <3>2. b = top.merge + x
      BY <3>1 DEF case_block
    <3> HIDE DEF b
    <3> QED
      BY <1>3, <1>5, <1>6, <3>2
  <2> HIDE DEF jumped, b
  <2>3. FlowOK(At(jumped, b)) /\ At(jumped, b).count = flow.count /\ At(jumped, b).block = b
    BY <2>1, <2>2, AtOK
  <2>4. At(jumped, b).block \in Nat
    BY <2>2, <2>3
  <2> QED
    BY <2>3, <2>4 DEF jumped, b
<1>8. case_type[x] \in S /\ get_size(case_type[x]) > 0 /\ IsClosed(S)
  <2>1. case_type[x] \in Fieldless \ {null, does_not_return}
    <3>1. x = 1 \/ x = 2 \/ x = 3 \/ x = 4 \/ x = 5 \/ x = 6 \/ x = 7
      BY <1>6
    <3>2. \/ case_type[x] = integer \/ case_type[x] = dynamic_object \/ case_type[x] = AST_pointer
          \/ case_type[x] = type_pointer \/ case_type[x] = function_pointer
          \/ case_type[x] = vector_of_something \/ case_type[x] = pointer_to_something
      BY <3>1 DEF case_type
    <3> QED
      BY <3>2, OneType
  <2> QED
    BY <2>1, Words
<1>9. this.fields[x + 3] \in DOMAIN ast \cup {0}
  <2>1. Len(this.fields) \in Nat /\ Len(this.fields) >= 10
    BY <1>3, FieldCount, PointerFields
  <2>2. x + 3 \in Nat /\ 1 <= x + 3 /\ x + 3 <= Len(this.fields)
    BY <1>6, <2>1
  <2> QED
    BY <1>3, <2>2, FieldFacts
<1>10. (x >= 6) \in BOOLEAN
  OBVIOUS
<1> HIDE DEF next
<1>11. MoreCode(flow') /\ MoreLabels
  <2>1. MoreCode(flow')
    BY <1>1, <1>3, <1>7 DEF MoreCode
  <2> QED
    BY <1>1, <2>1, LabelsStay
<1>12. Common(S, S, top.mark, top.target)
  BY <1>1, <1>3, <1>5, <1>7, <1>8, <1>10, <1>11, ReferredCommon
<1> QED
  BY <1>1, <1>2, <1>3, <1>9, <1>12, AnsweredGoesOn

\* The frame jumps from where its last branch ended to where the branches meet.
LEMMA MeetOK ==
    ASSUME NEW S, Inv(S), NEW merge \in 1 .. flow.count
    PROVE  /\ FlowOK(At(Jump(flow, merge), merge))
           /\ At(Jump(flow, merge), merge).count = flow.count
           /\ MoreCode(At(Jump(flow, merge), merge))
<1> DEFINE jumped == Jump(flow, merge)
<1>1. FlowOK(flow) /\ flow.count \in Nat
  BY MemoryStays DEF FlowOK
<1>2. FlowOK(jumped) /\ jumped.count = flow.count
  BY <1>1, JumpOK
<1> HIDE DEF jumped
<1>3. FlowOK(At(jumped, merge)) /\ At(jumped, merge).count = flow.count
  BY <1>2, AtOK
<1> QED
  BY <1>1, <1>3 DEF MoreCode, jumped

\* dyn_subobj: the cases meet.
LEMMA DynEndStep ==
    ASSUME NEW S, Inv(S), dyn_end
    PROVE  OneStep(S)
<1>1. /\ Back({"dyn_subobj"}) /\ UNCHANGED <<ast, labels>>
      /\ finish_after(top.mark, At(Jump(flow, top.merge), top.merge))
  BY DEF dyn_end, BackWell
<1>2. this.tag \in Branching
  BY <1>1, BackFacts DEF Branching
<1>3. /\ frames # <<>> /\ this.tag = "dyn_subobj" /\ this.tag # "pointer" /\ flow.count \in Nat
      /\ KeptOK(top, ast, flow.count, DOMAIN labels)
  BY <1>1, <1>2, BackFacts
<1>4. Len(case_type) = 7
  BY DEF case_type
<1>5. top.base <= top.mark /\ top.mark \in Nat /\ top.merge \in 1 .. flow.count
  <2>1. top.base <= top.mark /\ top.merge \in 2 .. flow.count - Len(case_type)
    BY <1>3 DEF KeptOK, this
  <2> QED
    BY <1>3, <1>4, <2>1, TopFacts
<1> DEFINE fl == At(Jump(flow, top.merge), top.merge)
<1>6. MoreCode(fl)
  BY <1>5, MeetOK
<1>7. MoreLabels
  <2>1. flow' = fl
    BY <1>1, FinishCode DEF finish_after
  <2> HIDE DEF fl
  <2> QED
    BY <1>1, <1>6, <2>1, LabelsStay
<1> HIDE DEF fl
<1> QED
  BY <1>1, <1>3, <1>5, <1>6, <1>7, FinishAfterEnds DEF fl

\* A phi changes no block.
LEMMA OnlyUses ==
    ASSUME NEW fl, FlowOK(fl), NEW uses
    PROVE  FlowOK([fl EXCEPT !.uses = uses]) /\ [fl EXCEPT !.uses = uses].count = fl.count
<1>1. [fl EXCEPT !.uses = uses] = [block |-> fl.block, count |-> fl.count, edges |-> fl.edges,
                                   uses |-> uses]
  BY DEF FlowOK
<1> QED
  BY <1>1 DEF FlowOK

\* if: the branches meet in a phi.
LEMMA IfElseStep ==
    ASSUME NEW S, Inv(S), if_else
    PROVE  OneStep(S)
<1> DEFINE type == if_type(results[2].type, control.result.type)
           first_end == CHOOSE b \in 1..flow.count : <<b, top.merge>> \in flow.edges
           merged == At(Jump(flow, top.merge), top.merge)
           phi == At(Uses(At(Uses(flow, {control.result.made}), first_end), {results[2].made}),
                     flow.block)
           fl == IF type = null THEN merged ELSE [merged EXCEPT !.uses = phi.uses]
<1>1. /\ Back({"if"}) /\ UNCHANGED <<ast, labels>> /\ Len(results) = 2
      /\ finish_in(top.mark, 0, allocations, type, NoConstant, fl)
  BY DEF if_else, BackWell
<1>2. this.tag \in Branching
  BY <1>1, BackFacts DEF Branching
<1>3. /\ frames # <<>> /\ this.tag = "if" /\ this.tag # "pointer" /\ flow.count \in Nat
      /\ control.result \in Values(S, Allocated)
      /\ KeptOK(top, ast, flow.count, DOMAIN labels)
  BY <1>1, <1>2, BackFacts
<1>4. top.base <= top.mark /\ top.mark \in Nat /\ top.merge \in 1 .. flow.count
  BY <1>3, TopFacts DEF KeptOK, this
<1>5. type \in S /\ IsClosed(S) /\ S \subseteq S
  <2>1. control.result.type \in S /\ null \in S /\ IsClosed(S)
    BY <1>3, ValueFacts DEF Inv, TypeInv, Fieldless
  <2>2. results[2].type \in S
    <3>1. 2 \in 1 .. Len(results)
      BY <1>1
    <3> QED
      BY <1>3, <3>1, ResultFacts
  <2> QED
    BY <2>1, <2>2 DEF if_type
<1>6. get_size(type) > 0 => NoConstant \in Constants(S) /\ Sized(type, NoConstant)
  <2> HIDE DEF type
  <2> QED
    BY <1>5, SizeFacts, NoConstantFits
<1>7. MoreCode(fl)
  <2>1. FlowOK(merged) /\ merged.count = flow.count
    BY <1>4, MeetOK
  <2> HIDE DEF merged, type, phi
  <2>2. FlowOK(fl) /\ fl.count = flow.count
    BY <2>1, OnlyUses
  <2> QED
    BY <1>3, <2>2 DEF MoreCode
<1> HIDE DEF fl, type
<1>8. MoreLabels
  <2>1. flow' = fl
    BY <1>1, FinishCode
  <2> QED
    BY <1>1, <1>7, <2>1, LabelsStay
<1>9. \A info : PointsWell(Smaller(FinalCut(top.mark), Len(object_stack)),
                           top.target, info, allocations')
  BY <1>3 DEF PointsWell, this
<1>10. MoreMemory(allocations) /\ 0 \in 0 .. Len(allocations)
  BY MemoryStays
<1> QED
  BY <1>1, <1>3, <1>4, <1>5, <1>6, <1>7, <1>8, <1>9, <1>10, FinishEnds

\* The branch is done, well or with an error.
LEMMA BranchEndStep ==
    ASSUME NEW S, Inv(S), branch_end
    PROVE  OneStep(S)
<1> DEFINE first == Jump(flow, top.merge)
           second == At(first, top.merge + 2)
           third == Jump(second, top.merge)
           fl == At(third, top.merge)
<1>1. Back(InBranch) /\ UNCHANGED <<ast, labels>>
  BY DEF branch_end
<1>2. this.tag \in InBranch /\ this.tag \in Branching
  BY <1>1, BackFacts DEF Branching
<1>3. /\ frames # <<>> /\ control.kind = "return" /\ this.tag # "pointer"
      /\ FlowOK(flow) /\ flow.count \in Nat
      /\ control.result \in Values(S, Allocated)
      /\ KeptOK(top, ast, flow.count, DOMAIN labels)
  BY <1>1, <1>2, BackFacts
<1>4. /\ top.base <= top.mark /\ top.mark \in Nat /\ top.base \in Nat
      /\ top.merge \in 1 .. flow.count - 2
  <2>1. this.tag # "label"
    BY <1>2 DEF InBranch
  <2> QED
    BY <1>2, <1>3, <2>1, TopFacts DEF KeptOK, this
<1>5. MoreCode(fl)
  <2>0. top.merge \in 1 .. flow.count /\ top.merge + 2 \in 1 .. flow.count
    BY <1>3, <1>4
  <2>1. FlowOK(first) /\ first.count = flow.count
    BY <1>3, <2>0, JumpOK
  <2> HIDE DEF first
  <2>2. FlowOK(second) /\ second.count = flow.count
    BY <2>0, <2>1, AtOK
  <2> HIDE DEF second
  <2>3. FlowOK(third) /\ third.count = flow.count
    BY <2>0, <2>2, JumpOK
  <2> HIDE DEF third
  <2>4. FlowOK(fl) /\ fl.count = flow.count
    BY <2>0, <2>3, AtOK
  <2> QED
    BY <1>3, <2>4 DEF MoreCode
<1>6. CASE finish_after(top.mark, fl)
  <2>1. flow' = fl
    BY <1>6, FinishCode DEF finish_after
  <2> HIDE DEF fl
  <2>2. MoreLabels
    BY <1>1, <1>5, <2>1, LabelsStay
  <2> QED
    BY <1>1, <1>3, <1>4, <1>5, <1>6, <2>2, FinishAfterEnds
<1>7. CASE /\ control.result.error # "no_error" /\ Pop /\ ClearedTo(top.mark + 1) /\ flow' = fl
           /\ UNCHANGED <<control, allocations>>
  <2> HIDE DEF fl
  <2>1. MoreCode(flow') /\ MoreLabels
    BY <1>1, <1>5, <1>7, LabelsStay
  <2>2. top.mark + 1 \in Nat /\ top.base <= top.mark + 1
    BY <1>4
  <2>3. Common(S, S, top.mark + 1, 0)
    BY <1>1, <1>3, <1>7, <2>1, <2>2, CutCommon
  <2>4. control.result \in Values(S, Allocated') /\ control' = Returned(control.result)
    <3>1. Allocated' = Allocated
      BY <1>7 DEF Allocated
    <3> QED
      BY <1>3, <1>7, <3>1, ControlFacts
  <2>5. Ends(S, top.mark + 1, 0)
    BY <1>3, <1>7, <2>4 DEF Ends
  <2> QED
    BY <2>3, <2>5 DEF OneStep
<1> QED
  BY <1>6, <1>7 DEF branch_end

\* label: its name is known from here on.
LEMMA LabelBeginStep ==
    ASSUME NEW S, Inv(S), label_begin
    PROVE  OneStep(S)
<1>1. /\ frames # <<>> /\ this.tag = "label" /\ ast' = ast
      /\ this.tag # "pointer"
  BY DEF label_begin, Body
<1>2. CASE return_code("label_duplication") /\ UNCHANGED <<labels, flow>>
  <2>1. MoreCode(flow')
    BY <1>2, MemoryStays
  <2> QED
    BY <1>1, <1>2, <2>1, ReturnCodeEnds DEF Codes
<1> DEFINE home == IF top.degree = 2 THEN frames[Len(frames) - 1].target ELSE 0
           info == [block |-> flow.count + 1, is_forward |-> TRUE, home |-> home]
<1>3. CASE /\ labels' = Extended(labels, top.target, info)
           /\ flow' = MoreBlocks(flow, 1)
           /\ control' = Called(this.fields[1], 0)
           /\ UNCHANGED <<frames, living, loop_catcher, allocations>>
  <2>1. FlowOK(flow) /\ flow.count \in Nat /\ 1 \in Nat
    BY MemoryStays DEF FlowOK
  <2>2. FlowOK(flow') /\ flow'.count = flow.count + 1
    BY <1>3, <2>1, MoreBlocksOK
  <2>3. MoreCode(flow')
    BY <2>1, <2>2 DEF MoreCode
  <2>4. MoreLabels /\ top.target \in DOMAIN labels'
    <3> HIDE DEF home
    <3>1. info.block = flow.count + 1 /\ info = [block |-> info.block,
                                        is_forward |-> info.is_forward, home |-> info.home]
      OBVIOUS
    <3> HIDE DEF info
    <3>2. /\ LabelsOf(labels, flow.count) /\ DOMAIN labels \subseteq DOMAIN ast
          /\ top.target \in DOMAIN ast
      BY <1>1, TopFacts DEF Inv, TypeInv
    <3>3. /\ DOMAIN labels' = DOMAIN labels \cup {top.target}
          /\ \A x \in DOMAIN labels' : labels'[x] = IF x = top.target THEN info ELSE labels[x]
          /\ labels' = [x \in DOMAIN labels' |-> labels'[x]]
      BY <1>3 DEF Extended
    <3>4. \A b \in 1 .. flow.count : b \in 1 .. flow.count + 1
      BY <2>1
    <3>5. ASSUME NEW x \in DOMAIN labels'
          PROVE  /\ labels'[x] = [block |-> labels'[x].block, is_forward |-> labels'[x].is_forward,
                                  home |-> labels'[x].home]
                 /\ labels'[x].block \in 1 .. flow.count + 1
      <4>1. CASE x = top.target
        <5>1. labels'[x] = info
          BY <3>3, <4>1
        <5> QED
          BY <2>1, <3>1, <5>1
      <4>2. CASE x # top.target
        <5>1. labels'[x] = labels[x] /\ x \in DOMAIN labels
          BY <3>3, <4>2
        <5> QED
          BY <3>2, <3>4, <5>1 DEF LabelsOf
      <4> QED
        BY <4>1, <4>2
    <3>6. LabelsOf(labels', flow'.count)
      BY <2>2, <3>3, <3>5 DEF LabelsOf
    <3> QED
      BY <3>2, <3>3, <3>6 DEF MoreLabels
  <2>5. MoreMemory(allocations')
    BY <1>3, MemoryStays
  <2>6. Common(S, S, Len(object_stack), 0)
    <3>1. object_stack' = object_stack /\ objects' = objects
      BY <1>3 DEF living
    <3>2. Keeps(Len(object_stack)) /\ LivingStep(S, Len(object_stack), 0)
      BY <1>1, <3>1, LivingStays
    <3> QED
      BY <1>1, <2>3, <2>4, <2>5, <3>2 DEF Common, Inv, TypeInv
  <2>7. this.fields[1] \in DOMAIN ast \cup {0}
    <3>1. Len(this.fields) \in Nat /\ Len(this.fields) >= 1
      BY <1>1, FieldCount, PointerFields
    <3> QED
      BY <1>1, <3>1, FieldFacts
  <2>8. KeptOK(top, ast, flow'.count, DOMAIN labels')
    BY <1>1, <2>4 DEF KeptOK, this, InBranch
  <2> QED
    BY <1>1, <1>3, <2>6, <2>7, <2>8, TopCalls
<1> QED
  BY <1>2, <1>3 DEF label_begin

\* label: the code goes on behind it.
LEMMA LabelEndStep ==
    ASSUME NEW S, Inv(S), label_end
    PROVE  OneStep(S)
<1> DEFINE block == labels[top.target].block
           fl == At(Jump(flow, block), block)
<1>1. /\ Back({"label"}) /\ ast' = ast /\ finish(fl)
      /\ labels' = [labels EXCEPT ![top.target].is_forward = FALSE]
  BY DEF label_end, BackWell
<1>2. this.tag \in Branching
  BY <1>1, BackFacts DEF Branching
<1>3. /\ frames # <<>> /\ this.tag = "label" /\ this.tag # "pointer" /\ flow.count \in Nat
      /\ KeptOK(top, ast, flow.count, DOMAIN labels)
  BY <1>1, <1>2, BackFacts
<1>4. top.target \in DOMAIN labels
  BY <1>3 DEF KeptOK, this
<1>5. LabelsOf(labels, flow.count) /\ DOMAIN labels \subseteq DOMAIN ast
  BY DEF Inv, TypeInv
<1>6. block \in 1 .. flow.count
  BY <1>4, <1>5 DEF LabelsOf
<1>7. MoreCode(fl) /\ fl.count = flow.count
  <2> HIDE DEF block
  <2> QED
    BY <1>6, MeetOK
<1>8. flow' = fl
  BY <1>1, FinishCode DEF finish, finish_special
<1> HIDE DEF fl
<1>9. MoreLabels
  <2> DEFINE no == FALSE
             info == [block |-> block, is_forward |-> no, home |-> labels[top.target].home]
  <2>1. labels[top.target] = [block |-> block, is_forward |-> labels[top.target].is_forward,
                              home |-> labels[top.target].home]
    BY <1>4, <1>5 DEF LabelsOf
  <2>2. labels' = [labels EXCEPT ![top.target].is_forward = no]
    BY <1>1
  <2> HIDE DEF no, block
  <2>3. [labels[top.target] EXCEPT !.is_forward = no] = info
    BY <2>1
  <2>4. /\ DOMAIN labels' = DOMAIN labels
        /\ \A x \in DOMAIN labels : labels'[x] = IF x = top.target THEN info ELSE labels[x]
        /\ labels' = [x \in DOMAIN labels' |-> labels'[x]]
    <3>1. labels = [x \in DOMAIN labels |-> labels[x]]
      BY <1>5 DEF LabelsOf
    <3> HIDE DEF info
    <3> QED
      BY <1>4, <2>2, <2>3, <3>1
  <2>5. info.block = block /\ info = [block |-> info.block, is_forward |-> info.is_forward,
                                      home |-> info.home]
    OBVIOUS
  <2> HIDE DEF info
  <2>6. LabelsOf(labels', flow'.count)
    BY <1>5, <1>6, <1>7, <1>8, <2>4, <2>5 DEF LabelsOf
  <2> QED
    BY <1>5, <2>4, <2>6 DEF MoreLabels
<1> QED
  BY <1>1, <1>3, <1>7, <1>9, FinishPlainEnds

\* goto, forward or back.
LEMMA GotoStep ==
    ASSUME NEW S, Inv(S), goto
    PROVE  OneStep(S)
<1>1. /\ frames # <<>> /\ this.tag = "goto" /\ this.tag # "pointer"
      /\ UNCHANGED <<ast, labels>>
  BY DEF goto, Body
<1>2. FlowOK(flow) /\ flow.count \in Nat /\ 1 \in Nat /\ 2 \in Nat
  BY MemoryStays DEF FlowOK
<1>3. CASE Refused("missing_label")
  BY <1>1, <1>3, RefusedEnds DEF Codes
<1> DEFINE info == labels[this.fields[1]]
<1>4. CASE this.fields[1] \in DOMAIN labels /\ (goto_forward(info.block) \/ goto_backward(info.block, info.home))
  <2> DEFINE block == info.block
  <2>1. block \in 1 .. flow.count
    <3>1. LabelsOf(labels, flow.count)
      BY DEF Inv, TypeInv
    <3> QED
      BY <1>4, <3>1 DEF LabelsOf
  <2>2. CASE goto_forward(block)
    <3> DEFINE more == MoreBlocks(flow, 1)
               jumped == Jump(more, block)
               fl == At(jumped, flow.count + 1)
    <3>1. finish_special(does_not_return, NoConstant, fl)
      BY <2>2 DEF goto_forward
    <3> HIDE DEF block
    <3>2. FlowOK(more) /\ more.count = flow.count + 1
      BY <1>2, MoreBlocksOK
    <3> HIDE DEF more
    <3>3. block \in 1 .. flow.count + 1 /\ flow.count + 1 \in 1 .. flow.count + 1
      BY <1>2, <2>1
    <3>4. FlowOK(jumped) /\ jumped.count = flow.count + 1
      BY <3>2, <3>3, JumpOK
    <3> HIDE DEF jumped
    <3>5. FlowOK(fl) /\ fl.count = flow.count + 1
      BY <3>3, <3>4, AtOK
    <3>6. MoreCode(fl)
      BY <1>2, <3>5 DEF MoreCode
    <3>7. flow' = fl
      BY <3>1, FinishCode DEF finish_special
    <3> HIDE DEF fl
    <3>8. MoreLabels
      BY <1>1, <3>6, <3>7, LabelsStay
    <3>9. does_not_return \in S /\ IsClosed(S) /\ get_size(does_not_return) = 0
      BY DEF Inv, TypeInv, Fieldless, get_size
    <3>10. ~(get_size(does_not_return) > 0)
      BY <3>9
    <3> QED
      BY <1>1, <3>1, <3>6, <3>8, <3>9, <3>10, FinishSpecialEnds
  <2>3. CASE goto_backward(block, info.home)
    <3> DEFINE success == flow.count + 1
               failure == flow.count + 2
               more == MoreBlocks(flow, 2)
               one == Jump(more, success)
               tested == Jump(one, failure)
               went == At(tested, success)
               jumped == Jump(went, block)
               fl == At(jumped, failure)
    <3>1. finish(fl)
      BY <2>3 DEF goto_backward
    <3> HIDE DEF block
    <3>2. FlowOK(more) /\ more.count = flow.count + 2
      BY <1>2, MoreBlocksOK
    <3> HIDE DEF more
    <3>3. /\ block \in 1 .. flow.count + 2 /\ success \in 1 .. flow.count + 2
          /\ failure \in 1 .. flow.count + 2
      BY <1>2, <2>1
    <3> HIDE DEF success, failure
    <3>4. FlowOK(one) /\ one.count = flow.count + 2
      BY <3>2, <3>3, JumpOK
    <3> HIDE DEF one
    <3>5. FlowOK(tested) /\ tested.count = flow.count + 2
      BY <3>3, <3>4, JumpOK
    <3> HIDE DEF tested
    <3>6. FlowOK(went) /\ went.count = flow.count + 2
      BY <3>3, <3>5, AtOK
    <3> HIDE DEF went
    <3>7. FlowOK(jumped) /\ jumped.count = flow.count + 2
      BY <3>3, <3>6, JumpOK
    <3> HIDE DEF jumped
    <3>8. FlowOK(fl) /\ fl.count = flow.count + 2
      BY <3>3, <3>7, AtOK
    <3>9. MoreCode(fl)
      BY <1>2, <3>8 DEF MoreCode
    <3>10. flow' = fl
      BY <3>1, FinishCode DEF finish, finish_special
    <3> HIDE DEF fl
    <3>11. MoreLabels
      BY <1>1, <3>9, <3>10, LabelsStay
    <3> QED
      BY <1>1, <3>1, <3>9, <3>11, FinishPlainEnds
  <2> QED
    BY <1>4, <2>2, <2>3
<1> QED
  BY <1>3, <1>4 DEF goto

-----------------------------------------------------------------------------
(* The actions: pointers *)

\* What a pointer's own AST finds: its target is on the stack, below where the
\* stack will be cut.
LEMMA TargetOnStack ==
    ASSUME NEW S, Inv(S), InBody({"pointer"}), this.fields[1] \in DOMAIN objects
    PROVE  /\ Smaller(FinalCut(Len(object_stack)), Len(object_stack)) = Len(object_stack)
           /\ \E i \in 1 .. Len(object_stack) : object_stack[i] = this.fields[1]
           /\ objects[this.fields[1]] \in Values(S, Allocated)
<1>1. frames # <<>> /\ this.tag = "pointer"
  BY InBodyFacts
<1>2. Len(frames) \in DOMAIN frames /\ Len(object_stack) \in Nat
      /\ DOMAIN object_stack = 1 .. Len(object_stack)
  BY <1>1, TopFacts, FrameFacts
<1>3. Len(object_stack) = top.base
  BY <1>1, <1>2 DEF Inv, PointerFrameInv, top, this
<1>4. Range(object_stack) = DOMAIN objects
  BY DEF Inv, TablesAgree
<1>5. \E i \in 1 .. Len(object_stack) : object_stack[i] = this.fields[1]
  BY <1>2, <1>4 DEF Range
<1>6. objects[this.fields[1]] \in Values(S, Allocated)
  BY DEF Inv, TypeInv, Objects
<1> QED
  BY <1>2, <1>3, <1>5, <1>6 DEF Smaller, FinalCut

\* pointer: what a full pointer points to is in the heap from then on.
LEMMA PointerStep ==
    ASSUME NEW S, Inv(S), pointer
    PROVE  OneStep(S)
<1>1. /\ InBody({"pointer"}) /\ frames # <<>> /\ ast' = ast /\ labels' = labels
  BY InBodyFacts DEF pointer
<1>2. CASE Refused("pointer_without_target") \/ Refused("pointer_to_temporary")
  BY <1>1, <1>2, RefusedEnds DEF Codes
<1> DEFINE found == objects[this.fields[1]]
           temporary == Temporary(found)
           all == IF temporary THEN allocations ELSE turn_full(found.place)
           kind == IF temporary THEN "temp pointer" ELSE "pointer"
           type == <<kind, found.type>>
           fl == Uses(flow, {found.made})
           keep == Len(object_stack)
<1>3. CASE /\ this.fields[1] \in DOMAIN objects /\ found.place # 0
           /\ finish_in(keep, 0, all, type, NoConstant, fl)
  <2>1. /\ Smaller(FinalCut(keep), keep) = keep
        /\ \E i \in 1 .. keep : object_stack[i] = this.fields[1]
        /\ found \in Values(S, Allocated)
    BY <1>1, <1>3, TargetOnStack
  <2>2. found.type \in S /\ found.place \in 0 .. Allocated
    <3> HIDE DEF found
    <3> QED
      BY <2>1, ValueFacts
  <2>3. found.place \in 1 .. Len(allocations) /\ Len(allocations) \in Nat
    <3>1. found.place # 0
      BY <1>3
    <3>2. Len(allocations) \in Nat
      BY MemoryStays
    <3> HIDE DEF found
    <3> QED
      BY <2>2, <3>1, <3>2 DEF Allocated
  <2>4. MoreMemory(all) /\ Len(all) = Len(allocations) /\ (~temporary => all[found.place].full)
    BY <2>3, MemoryStays, TurnFullGrows
  <2>5. kind \in Compound /\ kind # "vector" /\ (kind = "pointer" => ~temporary)
    BY DEF Compound
  <2> HIDE DEF all, kind
  <2>6. /\ type # does_not_return /\ ver(type) = kind /\ get_size(type) = 1
    BY <2>5, CompoundType DEF Fieldless
  <2> DEFINE T == S \cup {type}
  <2>7. IsClosed(T) /\ type \in T /\ S \subseteq T
    <3>1. IsClosed(S)
      BY DEF Inv, TypeInv
    <3> QED
      BY <2>2, <2>5, <3>1, CompoundIsMade
  <2>8. NoConstant \in Constants(T) /\ Sized(type, NoConstant)
    <3> HIDE DEF T, type
    <3> QED
      BY <2>6, <2>7, NoConstantFits
  <2>9. MoreCode(fl) /\ flow' = fl
    <3>1. FlowOK(flow) /\ flow.count \in Nat
      BY MemoryStays DEF FlowOK
    <3>2. FlowOK(fl) /\ fl.count = flow.count
      BY <3>1, UsesOK
    <3>3. flow' = fl
      BY <1>3, FinishCode
    <3> HIDE DEF fl
    <3> QED
      BY <3>1, <3>2, <3>3 DEF MoreCode
  <2> HIDE DEF fl
  <2>10. MoreLabels
    BY <1>1, <2>9, LabelsStay
  <2>11. keep \in Nat /\ top.base <= keep
    BY <1>1, TopFacts
  <2>12. ~temporary => ~found.hidden /\ allocations'[found.place].full
    <3>1. allocations' \in {all, create_actual_alloca(all)}
      BY <1>3, <2>6 DEF finish_in
    <3>2. \A i \in 1 .. Len(all) : create_actual_alloca(all)[i] = all[i]
      BY <2>4, AllocaGrows
    <3> QED
      BY <2>3, <2>4, <3>1, <3>2 DEF Temporary
  <2>13. ASSUME NEW info, info.type = type
         PROVE  PointsWell(Smaller(FinalCut(keep), keep), top.target, info, allocations')
    <3>1. PICK i \in 1 .. keep : object_stack[i] = this.fields[1]
      BY <2>1
    <3>2. ver(info.type) = "pointer" =>
              LET target == objects[object_stack[i]] IN
              ~target.hidden /\ target.place # 0 /\ allocations'[target.place].full
      BY <1>3, <2>5, <2>6, <2>12, <2>13, <3>1
    <3> QED
      BY <2>1, <3>1, <3>2 DEF PointsWell, this
  <2>14. 0 \in 0 .. Len(all)
    BY <2>3, <2>4
  <2> HIDE DEF type, T, keep
  <2>15. /\ finish_in(keep, 0, all, type, NoConstant, fl)
         /\ \A info : info.type = type =>
                PointsWell(Smaller(FinalCut(keep), Len(object_stack)), top.target, info, allocations')
    BY <1>3, <2>13 DEF keep
  <2> QED
    BY <1>1, <2>4, <2>7, <2>8, <2>9, <2>10, <2>11, <2>14, <2>15, FinishEnds
<1> QED
  BY <1>2, <1>3 DEF pointer

-----------------------------------------------------------------------------
(* The invariant holds *)

\* Whatever action is taken, it is a step of one of the three kinds.
LEMMA NextIsOneStep ==
    ASSUME NEW S, Inv(S), Next
    PROVE  OneStep(S)
<1>1. CASE null_target \/ refreshed_load \/ infinite_loop \/ begin
  BY <1>1, CallSteps
<1>2. CASE compile_field \/ field_compiled \/ pass_error
  BY <1>2, CompileFieldStep, FieldCompiledStep, PassErrorStep
<1>3. CASE basicblock \/ element_compiled
  BY <1>3, BasicblockStep, ElementCompiledStep
<1>4. CASE \/ zero \/ guarded_arithmetic \/ plain_call \/ vecpb \/ vecsz \/ dynamify \/ compile
           \/ convert_to_AST \/ load_tag \/ store \/ try_store
  BY <1>4, PlainBodies
<1>5. CASE arithmetic \/ get_event_loop \/ typeof \/ imv
  BY <1>5, ConstantBodies
<1>6. CASE if_begin \/ if_then \/ if_else
  BY <1>6, IfBeginStep, IfThenStep, IfElseStep
<1>7. CASE label_begin \/ label_end \/ goto
  BY <1>7, LabelBeginStep, LabelEndStep, GotoStep
<1>8. CASE dyn_begin \/ dyn_case \/ dyn_end
  BY <1>8, DynBeginStep, DynCaseStep, DynEndStep
<1>9. CASE branch_begin \/ branch_end
  BY <1>9, BranchBeginStep, BranchEndStep
<1>10. CASE nvec \/ pointer \/ tmp_pointer \/ concatenate \/ load_subobj
  BY <1>10, NvecStep, PointerStep, TmpPointerStep, ConcatenateStep, LoadSubobjStep
<1> QED
  BY <1>1, <1>2, <1>3, <1>4, <1>5, <1>6, <1>7, <1>8, <1>9, <1>10 DEF Next

\* compile_AST begins with nothing alive. The types are those of the imvs.
LEMMA CompilerInit ==
    ASSUME Init
    PROVE  CompilerInv
<1> DEFINE S == ImvTypes \cup Fieldless
<1>1. IsClosed(S)
  <2>1. \A t \in ImvTypes : MadeFrom(ImvTypes, t)
    BY ProgramsAssumption DEF IsClosed
  <2>2. \A t \in Fieldless : MadeFrom(S, t)
    BY DEF MadeFrom
  <2>3. ImvTypes \subseteq S
    OBVIOUS
  <2> HIDE DEF S
  <2>4. \A t \in ImvTypes : MadeFrom(S, t)
    BY <2>1, <2>3, MadeFromMore
  <2> QED
    BY <2>2, <2>4 DEF IsClosed, S
<1>2. Root \in DOMAIN ast /\ ast \in Programs
  BY ProgramsAssumption DEF Init
<1>3. ControlOK(S, Allocated)
  BY <1>2 DEF Init, ControlOK
<1>4. FlowOK(flow)
  <2> DEFINE first == [block |-> 1, count |-> 1, edges |-> {}, uses |-> {}]
  <2>1. flow = first
    BY DEF Init
  <2>2. /\ first.block = 1 /\ first.count = 1 /\ first.edges = {} /\ first.uses = {}
    OBVIOUS
  <2>3. first = [block |-> first.block, count |-> first.count, edges |-> first.edges,
                 uses |-> first.uses]
    OBVIOUS
  <2> HIDE DEF first
  <2>4. 1 \in Nat /\ 1 \in 1 .. 1
    OBVIOUS
  <2> QED
    BY <2>1, <2>2, <2>3, <2>4 DEF FlowOK
<1>5. DOMAIN <<>> = {} /\ \A A : <<>> \in Seq(A) /\ <<>> = [x \in DOMAIN <<>> |-> <<>>[x]]
  OBVIOUS
<1>6. /\ frames = <<>> /\ objects = <<>> /\ object_stack = <<>> /\ labels = <<>>
      /\ loop_catcher = {} /\ allocations = <<>>
  BY DEF Init
<1>7. LabelsOf(labels, flow.count)
  BY <1>5, <1>6 DEF LabelsOf
<1>8. objects \in [DOMAIN objects -> Objects(S, Allocated)]
  BY <1>5, <1>6
<1> HIDE DEF S
<1>9. TypeInv(S)
  <2>1. ImvTypes \cup Fieldless \subseteq S
    BY DEF S
  <2> QED
    BY <1>1, <1>2, <1>3, <1>4, <1>5, <1>6, <1>7, <1>8, <2>1 DEF TypeInv
<1>10. TablesAgree
  <2> DEFINE targets == [i \in DOMAIN frames |-> frames[i].target]
  <2>1. DOMAIN targets = {} /\ DOMAIN frames = {} /\ DOMAIN object_stack = {} /\ DOMAIN objects = {}
    BY <1>5, <1>6
  <2> HIDE DEF targets
  <2>2. IsInjective(targets) /\ Range(targets) = {} /\ IsInjective(object_stack)
        /\ Range(object_stack) = {}
    BY <2>1 DEF IsInjective, Range
  <2> QED
    BY <1>6, <2>1, <2>2 DEF TablesAgree, targets
<1>11. ScopeInv /\ PointerInv /\ PointerFrameInv
  BY <1>5, <1>6 DEF ScopeInv, PointerInv, PointerFrameInv
<1> QED
  BY <1>9, <1>10, <1>11 DEF Inv, CompilerInv

\* A step that changes nothing.
LEMMA CompilerStutter ==
    ASSUME NEW S, Inv(S), UNCHANGED vars
    PROVE  Inv(S)'
<1>1. /\ ast' = ast /\ frames' = frames /\ control' = control /\ objects' = objects
      /\ object_stack' = object_stack /\ labels' = labels /\ loop_catcher' = loop_catcher
      /\ allocations' = allocations /\ flow' = flow
  BY DEF vars
<1>2. TypeInv(S)'
  BY <1>1 DEF Inv, TypeInv, ControlOK, Allocated, Frame, Objects, FlowOK, LabelsOf
<1>3. TablesAgree'
  BY <1>1 DEF Inv, TablesAgree
<1>4. ScopeInv'
  BY <1>1 DEF Inv, ScopeInv, Entered, EnteredOK
<1>5. PointerInv'
  BY <1>1 DEF Inv, PointerInv, PointerOK
<1>6. PointerFrameInv'
  BY <1>1 DEF Inv, PointerFrameInv
<1> QED
  BY <1>2, <1>3, <1>4, <1>5, <1>6 DEF Inv

\* Over some closed set of types every table is well formed, no object of a frame
\* outlives what it was made from, and every frame that waits for a branch has
\* kept where it will go on: in every state of the compiler (cs11.cpp:292-1112).
THEOREM CompilerInvariant == Spec => []CompilerInv
<1>1. Init => CompilerInv
  BY CompilerInit
<1>2. CompilerInv /\ [Next]_vars => CompilerInv'
  <2> SUFFICES ASSUME CompilerInv, [Next]_vars PROVE CompilerInv'
    OBVIOUS
  <2>1. PICK S : Inv(S)
    BY DEF CompilerInv
  <2>2. CASE Next
    BY <2>1, <2>2, NextIsOneStep, OneStepKeeps
  <2>3. CASE UNCHANGED vars
    <3>1. Inv(S)'
      BY <2>1, <2>3, CompilerStutter
    <3> QED
      BY <3>1 DEF CompilerInv
  <2> QED
    BY <2>2, <2>3
<1> QED
  BY <1>1, <1>2, PTL DEF Spec

\* What is known of an object that is alive.
LEMMA LivingFacts ==
    ASSUME NEW S, Inv(S), NEW id \in DOMAIN objects
    PROVE  /\ IsClosed(S) /\ id \in DOMAIN ast
           /\ objects[id] \in Values(S, Allocated) /\ objects[id].type \in S
           /\ get_size(objects[id].type) > 0
           /\ Sized(objects[id].type, objects[id].constant)
           /\ objects[id].place \in 0 .. Len(allocations)
<1>1. /\ IsClosed(S) /\ DOMAIN objects \subseteq DOMAIN ast
      /\ objects \in [DOMAIN objects -> Objects(S, Allocated)]
  BY DEF Inv, TypeInv
<1>2. objects[id] \in Values(S, Allocated) /\ get_size(objects[id].type) > 0
  BY <1>1 DEF Objects
<1> QED
  BY <1>1, <1>2, ValueFacts DEF Allocated

\* Every state is of the types of the module: what is alive has a size and a
\* place that exists, its constant is of its size, its type is flat
\* (types.cpp:171, cs11.cpp:262).
THEOREM CompilerTypes == Spec => []CompilerTypeOK
<1>1. CompilerInv => CompilerTypeOK
  <2> SUFFICES ASSUME NEW S, Inv(S) PROVE CompilerTypeOK
    BY DEF CompilerInv
  <2>1. \A i \in DOMAIN frames : frames[i].target \in DOMAIN ast /\ frames[i].degree \in {0, 2}
    BY FrameFacts
  <2>2. control.kind \in {"call", "return", "go"}
    BY DEF Inv, TypeInv, ControlOK, Going, Called, Returned
  <2>3. DOMAIN objects \cup DOMAIN labels \subseteq DOMAIN ast
        /\ flow.edges \subseteq (1..flow.count) \X (1..flow.count)
    BY DEF Inv, TypeInv, FlowOK
  <2>4. ASSUME NEW id \in DOMAIN objects
        PROVE  /\ IsFlat(objects[id].type) /\ get_size(objects[id].type) > 0
               /\ objects[id].place \in 0..Len(allocations)
               /\ objects[id].constant # NoConstant =>
                      Len(objects[id].constant) = get_size(objects[id].type)
    <3> DEFINE t == objects[id].type
    <3>1. /\ IsClosed(S) /\ t \in S /\ get_size(t) > 0
          /\ Sized(t, objects[id].constant) /\ objects[id].place \in 0 .. Len(allocations)
      BY LivingFacts
    <3>2. IsFlat(t)
      <4> HIDE DEF t
      <4> SUFFICES ASSUME ver(t) = "con_vec", t # null
                   PROVE  Len(t) > 2 /\ \A i \in 2 .. Len(t) : ver(t[i]) # "con_vec"
        BY DEF IsFlat
      <4> DEFINE c == Components(t)
      <4>1. /\ c \in Seq(S) /\ Len(t) = Len(c) + 1 /\ Len(t) > 2
            /\ \A i \in 1 .. Len(c) : ver(c[i]) # "con_vec" /\ c[i] = t[i + 1]
        BY <3>1, TypeFacts
      <4>2. Len(c) \in Nat
        BY <4>1, LenProperties
      <4> HIDE DEF c
      <4>3. ASSUME NEW i \in 2 .. Len(t) PROVE ver(t[i]) # "con_vec"
        <5>1. i - 1 \in 1 .. Len(c) /\ (i - 1) + 1 = i
          BY <4>1, <4>2
        <5> QED
          BY <4>1, <5>1
      <4> QED
        BY <4>1, <4>3
    <3> QED
      BY <3>1, <3>2 DEF Sized
  <2> QED
    BY <2>1, <2>2, <2>3, <2>4 DEF CompilerTypeOK
<1> QED
  BY <1>1, CompilerInvariant, PTL

\* However a frame is left, the stack and the map of living objects name the same
\* ASTs, each once, and the loop catcher holds those that are being compiled
\* (cs11.cpp:168, cs11.cpp:327).
THEOREM TablesStayTogether == Spec => []TablesAgree
<1>1. CompilerInv => TablesAgree
  BY DEF CompilerInv, Inv
<1> QED
  BY <1>1, CompilerInvariant, PTL

\* A pointer outlives nothing it was made from, and the target of a full one is
\* an object of its own in the heap (cs11.cpp:631).
THEOREM TargetsOutlivePointers == Spec => []PointersHaveTargets
<1>1. CompilerInv => PointersHaveTargets
  <2> SUFFICES ASSUME NEW S, Inv(S), NEW id \in DOMAIN objects, ast[id].tag = "pointer"
               PROVE  LET target == ast[id].fields[1] IN
                      /\ target \in DOMAIN objects
                      /\ ver(objects[id].type) = "pointer" =>
                             ~objects[target].hidden /\ allocations[objects[target].place].full
    BY DEF CompilerInv, PointersHaveTargets
  <2>1. Range(object_stack) = DOMAIN objects
    BY DEF Inv, TablesAgree
  <2>2. PICK j \in DOMAIN object_stack : object_stack[j] = id
    BY <2>1 DEF Range
  <2>3. PointerOK(j)
    BY DEF Inv, PointerInv
  <2>4. PICK i \in 1 .. j - 1 :
            /\ object_stack[i] = ast[id].fields[1]
            /\ ver(objects[id].type) = "pointer" =>
                   LET target == objects[object_stack[i]] IN
                   ~target.hidden /\ target.place # 0 /\ allocations[target.place].full
    BY <2>2, <2>3 DEF PointerOK
  <2>5. i \in DOMAIN object_stack
    BY FrameFacts
  <2>6. object_stack[i] \in DOMAIN objects
    BY <2>1, <2>5 DEF Range
  <2> QED
    BY <2>4, <2>6
<1> QED
  BY <1>1, CompilerInvariant, PTL

\* What was alive when a frame began stays as it is until the frame ends
\* (cs11.cpp:340): no step cuts the stack below the base of any frame.
THEOREM FramesNest == Spec => ScopesNest
<1>1. ASSUME CompilerInv, [Next]_vars
      PROVE  [\A i \in DOMAIN frames : SubSeq(object_stack', 1, frames[i].base) =
                                       SubSeq(object_stack, 1, frames[i].base)]_vars
  <2> SUFFICES ASSUME NEW S, Inv(S), Next, NEW i \in DOMAIN frames
               PROVE  SubSeq(object_stack', 1, frames[i].base) =
                      SubSeq(object_stack, 1, frames[i].base)
    BY <1>1 DEF CompilerInv
  <2> DEFINE base == frames[i].base
  <2>1. PICK T, n, id : Common(S, T, n, id)
    BY NextIsOneStep DEF OneStep
  <2>2. PICK info : LivingMoves(n, id, info) /\ object_stack' \in Seq(DOMAIN ast)
    BY <2>1 DEF Common, LivingStep
  <2>3. /\ base \in Nat /\ base <= Len(object_stack) /\ n \in Nat /\ base <= n
        /\ Len(object_stack) \in Nat
    BY <2>1, FrameFacts DEF Common, Keeps
  <2> HIDE DEF base
  <2>4. base <= Smaller(n, Len(object_stack)) /\ Smaller(n, Len(object_stack)) \in Nat
    BY <2>3 DEF Smaller
  <2>5. \A k \in 1 .. base : object_stack'[k] = object_stack[k]
    BY <2>2, <2>3, <2>4 DEF LivingMoves
  <2>6. object_stack \in Seq(DOMAIN ast)
    BY DEF Inv, TypeInv
  <2>7. \A k \in 1 .. base : object_stack[k] \in DOMAIN ast
    BY <2>3, <2>6, ElementOfSeq
  <2> DEFINE before == SubSeq(object_stack, 1, base)
             after == SubSeq(object_stack', 1, base)
             length == IF 1 <= base THEN base - 1 + 1 ELSE 0
  <2>8. /\ before \in Seq(DOMAIN ast) /\ Len(before) = length
        /\ \A k \in 1 .. base - 1 + 1 : before[k] = object_stack[1 + k - 1]
    BY <2>3, <2>7, SubSeqProperties
  <2>9. /\ after \in Seq(DOMAIN ast) /\ Len(after) = length
        /\ \A k \in 1 .. base - 1 + 1 : after[k] = object_stack'[1 + k - 1]
    BY <2>3, <2>5, <2>7, SubSeqProperties
  <2>10. length = base
    BY <2>3
  <2> HIDE DEF length, before, after
  <2>11. \A k \in 1 .. base : k \in 1 .. base - 1 + 1 /\ 1 + k - 1 = k
    BY <2>3
  <2>12. \A k \in 1 .. base : after[k] = before[k]
    BY <2>5, <2>8, <2>9, <2>11
  <2>13. after = before
    BY <2>8, <2>9, <2>10, <2>12, SeqEqual
  <2> QED
    BY <2>13 DEF after, before, base
<1> QED
  BY <1>1, CompilerInvariant, PTL DEF Spec, ScopesNest

\* A statement that succeeds leaves at most its own result on the stack above
\* what was there before it (cs11.cpp:262).
THEOREM StatementsClean == Spec => StatementsLeaveOne
<1>1. ASSUME CompilerInv, [Next]_vars
      PROVE  [frames # <<>> /\ Len(frames') < Len(frames) /\ top.degree = 2
                  /\ this.tag # "basicblock" /\ control'.result.error = "no_error" =>
              /\ Len(object_stack') <= top.base + 1
              /\ Len(object_stack') > top.base => Last(object_stack') = top.target]_vars
  <2> SUFFICES ASSUME NEW S, Inv(S), Next, frames # <<>>, Len(frames') < Len(frames),
                      top.degree = 2, this.tag # "basicblock",
                      control'.result.error = "no_error"
               PROVE  /\ Len(object_stack') <= top.base + 1
                      /\ Len(object_stack') > top.base => Last(object_stack') = top.target
    BY <1>1 DEF CompilerInv
  <2>1. PICK T, n, id : Common(S, T, n, id) /\ (Ends(T, n, id) \/ Stays(T) \/ begin)
    BY NextIsOneStep DEF OneStep
  <2>2. Len(frames) \in Nat /\ top.base \in Nat /\ top.base <= Len(object_stack)
        /\ Len(object_stack) \in Nat
    BY TopFacts
  <2>3. ~Stays(T)
    BY <2>2 DEF Stays
  <2>4. ~begin
    <3> SUFFICES ASSUME begin PROVE FALSE
      OBVIOUS
    <3> DEFINE started == [target |-> control.target, degree |-> control.degree,
                           base |-> Len(object_stack), results |-> <<>>, mark |-> 0, merge |-> 0]
    <3>1. frames' = Append(frames, started)
      BY DEF begin
    <3> HIDE DEF started
    <3>2. frames \in Seq(Frame(S, Allocated) \cup {started})
      <4>1. frames \in Seq(Frame(S, Allocated))
        BY DEF Inv, TypeInv
      <4> QED
        BY <4>1, SeqMonotonic
    <3>3. Len(frames') = Len(frames) + 1
      BY <3>1, <3>2, AppendProperties
    <3> QED
      BY <2>2, <3>3
  <2>5. n = top.base /\ id = top.target
    BY <2>1, <2>3, <2>4 DEF Ends
  <2>6. PICK info : LivingMoves(n, id, info)
    BY <2>1 DEF Common, LivingStep
  <2>7. Smaller(n, Len(object_stack)) = top.base
    BY <2>2, <2>5 DEF Smaller
  <2>8. /\ Len(object_stack') \in {top.base, top.base + 1}
        /\ Len(object_stack') = top.base + 1 => object_stack'[top.base + 1] = top.target
    BY <2>5, <2>6, <2>7 DEF LivingMoves
  <2> QED
    BY <2>2, <2>8 DEF Last
<1> QED
  BY <1>1, CompilerInvariant, PTL DEF Spec, StatementsLeaveOne

-----------------------------------------------------------------------------
(* Slots *)

\* What may not be put in the heap, by its kind.
Unowned == {"pointer to something", "vector of something", "temp pointer", "does not return"}

\* One word in the slot of another: a temporary pointer fits a word that may be in
\* the heap only as an integer.
LEMMA WordInSlot ==
    ASSUME NEW S, IsClosed(S), NEW existing, NEW new \in S,
           type_check_once("RVO", existing, new) = "perfect_fit",
           ver(existing) = "temp pointer", ver(new) \notin Unowned
    PROVE  new = integer
<1>1. FitsSlot(existing, new)
  BY DEF type_check_once
<1>2. ver(new) # "temp pointer"
  BY DEF Unowned
<1>3. ver(new) = "integer"
  BY <1>1, <1>2 DEF FitsSlot, SameKind, Compound
<1> QED
  BY <1>3, TypeFacts

\* A structure is a sequence: its kind, then its components.
LEMMA StructureDomain ==
    ASSUME NEW S, IsClosed(S), NEW t \in S, ver(t) = "con_vec", t # null
    PROVE  DOMAIN t = 1 .. Len(t)
<1>1. MadeFrom(S, t)
  BY DEF IsClosed
<1>2. t \notin Fieldless
  BY FieldlessType
<1>3. ~ \E kind \in Compound, inside \in S : t = <<kind, inside>>
  BY CompoundType
<1>4. t = <<"con_vec">> \o Tail(t) /\ Tail(t) \in Seq(S)
  BY <1>1, <1>2, <1>3 DEF MadeFrom
<1> DEFINE tail == Tail(t)
           all == S \cup {"con_vec"}
<1>5. tail \in Seq(all)
  BY <1>4, SeqMonotonic
<1>6. <<"con_vec">> \in Seq(all)
  OBVIOUS
<1> HIDE DEF tail, all
<1>7. <<"con_vec">> \o tail \in Seq(all)
  BY <1>5, <1>6, ConcatProperties
<1> QED
  BY <1>4, <1>7, LenProperties DEF tail

\* What fits in a slot has its size; and, where the slot may be in the heap,
\* no temporary pointer but in the place of an integer.
LEMMA FitsFacts ==
    ASSUME NEW S, IsClosed(S), NEW from \in S, NEW to \in S, Fits(from, to),
           get_size(from) > 0, get_size(to) > 0
    PROVE  /\ get_size(from) = get_size(to)
           /\ is_full(to) => \A i \in DOMAIN Components(from) :
                  ver(Components(from)[i]) = "temp pointer" => Components(to)[i] = integer
<1> DEFINE f == Components(from)
           t == Components(to)
<1>1. /\ from # null /\ from # does_not_return /\ to # null /\ to # does_not_return
  BY SizeFacts
<1>2. f \in Seq(S) /\ t \in Seq(S) /\ get_size(from) = Len(f) /\ get_size(to) = Len(t)
  BY <1>1, TypeFacts
<1>3. /\ Len(f) \in Nat /\ DOMAIN f = 1 .. Len(f)
      /\ Len(t) \in Nat /\ DOMAIN t = 1 .. Len(t)
      /\ \A i \in 1 .. Len(t) : t[i] \in S
  <2> HIDE DEF f, t
  <2> QED
    BY <1>2, LenProperties, ElementOfSeq
<1>4. is_full(to) => \A i \in DOMAIN t : ver(t[i]) \notin Unowned
  BY DEF is_full, Unowned
<1>5. CASE from = to
  <2>1. ASSUME is_full(to), NEW i \in DOMAIN f PROVE ver(f[i]) # "temp pointer"
    BY <1>4, <1>5, <2>1 DEF Unowned
  <2> QED
    BY <1>5, <2>1
<1>6. CASE from # to /\ ver(from) # "con_vec"
  <2>1. type_check_once("RVO", from, to) = "perfect_fit" /\ ver(to) # "con_vec"
    BY <1>1, <1>6 DEF Fits, type_check
  <2>2. f = <<from>> /\ t = <<to>>
    BY <1>6, <2>1, TypeFacts
  <2>3. Len(f) = 1 /\ Len(t) = 1 /\ f[1] = from /\ t[1] = to
    BY <2>2
  <2> HIDE DEF f, t
  <2>4. ASSUME is_full(to), NEW i \in DOMAIN f, ver(f[i]) = "temp pointer"
        PROVE  t[i] = integer
    <3>1. i = 1 /\ 1 \in DOMAIN t
      BY <1>3, <2>3
    <3> QED
      BY <1>4, <2>1, <2>3, <2>4, <3>1, WordInSlot
  <2> QED
    BY <1>2, <2>3, <2>4 DEF f, t
<1>7. CASE from # to /\ ver(from) = "con_vec"
  <2>1. ver(to) = "con_vec" /\ CommonPart("RVO", from, to)
        /\ SizeVerdict(from, to) = "perfect_fit"
    BY <1>1, <1>7 DEF Fits, type_check
  <2>2. /\ Len(from) = Len(f) + 1 /\ Len(to) = Len(t) + 1
        /\ \A i \in 1 .. Len(f) : f[i] = from[i + 1]
        /\ \A i \in 1 .. Len(t) : t[i] = to[i + 1]
    BY <1>1, <1>7, <2>1, TypeFacts
  <2>3. DOMAIN from = 1 .. Len(from) /\ DOMAIN to = 1 .. Len(to)
    BY <1>1, <1>7, <2>1, StructureDomain
  <2> HIDE DEF f, t
  <2>4. Len(from) \in Nat /\ Len(to) \in Nat
    BY <1>3, <2>2
  <2>5. Len(from) = Len(to)
    <3>1. ~(Len(from) > Len(to)) /\ ~(Len(from) < Len(to))
      BY <2>1, <2>4 DEF SizeVerdict
    <3> QED
      BY <2>4, <3>1
  <2>6. Len(f) = Len(t)
    <3>1. Len(f) + 1 = Len(t) + 1
      BY <2>2, <2>5
    <3>2. Len(f) \in Nat /\ Len(t) \in Nat
      BY <1>3
    <3>3. \A m, n \in Nat : m + 1 = n + 1 => m = n
      OBVIOUS
    <3> QED
      BY <3>1, <3>2, <3>3, Zenon
  <2>7. ASSUME is_full(to), NEW i \in DOMAIN f, ver(f[i]) = "temp pointer"
        PROVE  t[i] = integer
    <3>1. i \in 1 .. Len(t) /\ i \in DOMAIN t
      BY <1>3, <2>6
    <3>2. i + 1 \in (DOMAIN from \cap DOMAIN to) \ {1}
      BY <1>3, <2>2, <2>3, <3>1
    <3>3. type_check_once("RVO", from[i + 1], to[i + 1]) = "perfect_fit"
      BY <2>1, <3>2 DEF CommonPart
    <3>4. f[i] = from[i + 1] /\ t[i] = to[i + 1] /\ t[i] \in S
      BY <1>3, <2>2, <2>6, <3>1
    <3>5. ver(t[i]) \notin Unowned
      BY <1>4, <2>7, <3>1
    <3>6. type_check_once("RVO", f[i], t[i]) = "perfect_fit"
      BY <3>3, <3>4
    <3> QED
      BY <2>7, <3>4, <3>5, <3>6, WordInSlot
  <2> QED
    BY <1>2, <2>6, <2>7 DEF f, t
<1> QED
  BY <1>5, <1>6, <1>7

\* Of all objects that are ever alive together, one that type_check lets into the
\* slot of another has its size, and no temporary pointer comes where a full
\* object may be, but as an integer (types.h:88, helperfunctions.h:122).
THEOREM SlotsAreSafe == Spec => []SlotsHold
<1>1. CompilerInv => SlotsHold
  <2> SUFFICES ASSUME NEW S, Inv(S) PROVE SlotsHold
    BY DEF CompilerInv
  <2>1. ASSUME NEW from, NEW to,
               from \in {objects[id].type : id \in DOMAIN objects},
               to \in {objects[id].type : id \in DOMAIN objects}, Fits(from, to)
        PROVE  /\ get_size(from) = get_size(to)
               /\ is_full(to) => \A i \in DOMAIN Components(from) :
                      ver(Components(from)[i]) = "temp pointer" => Components(to)[i] = integer
    <3>1. from \in S /\ to \in S /\ get_size(from) > 0 /\ get_size(to) > 0 /\ IsClosed(S)
      BY <2>1, LivingFacts DEF Inv, TypeInv
    <3> QED
      BY <2>1, <3>1, FitsFacts
  <2> QED
    BY <2>1 DEF SlotsHold
<1> QED
  BY <1>1, CompilerInvariant, PTL

=============================================================================
