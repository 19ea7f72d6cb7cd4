----------------------------- MODULE TypeCheck -----------------------------
(***************************************************************************)
(* Types and what may be stored where (types.h, types.cpp). A type is a    *)
(* tuple: its name, then the types it is made of. con_vec, a structure, is *)
(* followed by its components; the null type, a Tptr of 0, is empty.       *)
(***************************************************************************)
EXTENDS Naturals, Sequences, SequencesExt

CONSTANT SameTarget(_, _)   \* SameInside below: the recursion of type_check is
                            \* closed where the constant is given its value

null == <<>>
does_not_return == <<"does not return">>
integer == <<"integer">>
dynamic_object == <<"dynamic object">>
type_pointer == <<"type pointer">>
AST_pointer == <<"AST pointer">>
function_pointer == <<"function pointer">>
pointer_to_something == <<"pointer to something">>
vector_of_something == <<"vector of something">>
vector_of_ASTs == <<"vector", AST_pointer>>

\* The kind of a type. The null type answers 0, which is also con_vec's number.
ver(t) == IF t = null THEN "con_vec" ELSE t[1]

\* What a pointer points to, what a vector holds.
Target(t) == t[2]

\* The components of a structure; any other type is its own only component.
Components(t) == IF ver(t) = "con_vec" THEN IF t = null THEN <<>> ELSE Tail(t) ELSE <<t>>

\* Words of an object: a structure has one for each component.
get_size(t) == IF t = does_not_return THEN 0 ELSE Len(Components(t))

\* The type of the word at an offset, null when there is none.
get_offset_type(t, offset) ==
    IF offset < Len(Components(t)) THEN Components(t)[offset + 1] ELSE null

\* Whether 0 is a valid object of the type.
is_zeroable(t) == t \in {integer, dynamic_object, AST_pointer, type_pointer, function_pointer}

\* Whether an object of the type may be put in the heap.
is_full(t) == \A i \in DOMAIN Components(t) :
    ver(Components(t)[i]) \notin
        {"pointer to something", "vector of something", "temp pointer", "does not return"}

\* Mutant: a structure of one component stays one.
concatenate_types_wrapped(first, second) ==
    LET all == Components(first) \o Components(second)
    IN IF Len(all) = 0 THEN null ELSE <<"con_vec">> \o all

\* Structures are flattened; a structure of one component is that component. The
\* compiler calls it with two types.
concatenate_types(first, second) ==
    LET all == Components(first) \o Components(second)
    IN IF Len(all) = 0 THEN null ELSE IF Len(all) = 1 THEN all[1] ELSE <<"con_vec">> \o all

Compound == {"vector", "pointer", "temp pointer"}
Untyped == {"vector of something", "pointer to something"}

\* Types of one word: what structures and vectors are made of.
IsWord(t) == ver(t) # "con_vec" /\ t # does_not_return

Fieldless == {null, does_not_return, integer, dynamic_object, type_pointer, AST_pointer,
              function_pointer, pointer_to_something, vector_of_something}

(***************************************************************************)
(* The types the program makes: new_unique_type is given a kind and what    *)
(* is inside, nvec refuses all but words, concatenate_types flattens.       *)
(***************************************************************************)
MadeFrom(S, t) ==
    \/ t \in Fieldless
    \/ \E kind \in Compound, inside \in S :
           t = <<kind, inside>> /\ (kind = "vector" => IsWord(inside))
    \/ /\ t # null /\ t = <<"con_vec">> \o Tail(t)
       /\ Tail(t) \in Seq(S) /\ Len(Tail(t)) > 1
       /\ \A i \in DOMAIN Tail(t) : IsWord(Tail(t)[i])

\* With each type what it is made of.
IsClosed(S) == \A t \in S : MadeFrom(S, t)

(***************************************************************************)
(* May an object of type existing be put in a slot of type new ("RVO"), or *)
(* be referred to as new ("reference")? A compound type whose inside does  *)
(* not match goes on to the case of integer, which asks only for the kind. *)
(***************************************************************************)
AsInteger(existing, new) ==
    \/ ver(existing) = ver(new)
    \/ ver(existing) \in {"pointer", "type pointer", "function pointer", "AST pointer", "temp pointer"}

SameKind(existing, new) ==
    ver(existing) = ver(new) \/ (ver(existing) = "pointer" /\ ver(new) = "temp pointer")

FitsSlot(existing, new) ==
    \/ /\ ver(new) \in Compound
       /\ SameKind(existing, new)
       /\ SameTarget(existing, new) \/ AsInteger(existing, new)
    \/ ver(new) = "integer" /\ AsInteger(existing, new)
    \/ ver(new) \notin Compound \cup Untyped \cup {"integer"} /\ ver(existing) = ver(new)

FitsReference(existing, new) ==
    /\ ver(existing) = ver(new)
    /\ ver(new) \in Compound => SameTarget(existing, new)
    /\ ver(new) \notin Untyped

type_check_once(version, existing, new) ==
    IF IF version = "RVO" THEN FitsSlot(existing, new) ELSE FitsReference(existing, new)
    THEN "perfect_fit" ELSE "different"

\* Two structures are compared as far as the shorter one goes.
CommonPart(version, existing, new) ==
    \A i \in (DOMAIN existing \cap DOMAIN new) \ {1} :
        type_check_once(version, existing[i], new[i]) = "perfect_fit"

\* Mutant: what is beyond the slot is not looked at.
SizeVerdict_lax(existing, new) ==
    IF Len(existing) < Len(new) THEN "new_reference_too_large" ELSE "perfect_fit"

SizeVerdict(existing, new) ==
    CASE Len(existing) > Len(new) -> "existing_reference_too_large"
      [] Len(existing) < Len(new) -> "new_reference_too_large"
      [] OTHER -> "perfect_fit"

type_check(version, existing, new) ==
    IF existing = new THEN "perfect_fit"
    ELSE IF new = null THEN "existing_reference_too_large"
    ELSE IF existing = null THEN "new_reference_too_large"
    ELSE IF existing = does_not_return THEN "perfect_fit"
    ELSE IF (ver(existing) = "con_vec") # (ver(new) = "con_vec") THEN "different"
    ELSE IF ver(existing) # "con_vec" THEN type_check_once(version, existing, new)
    ELSE IF CommonPart(version, existing, new) THEN SizeVerdict(existing, new)
    ELSE "different"

\* What is inside two compound types is compared as by a reference.
SameInside(existing, new) ==
    type_check("reference", Target(existing), Target(new)) = "perfect_fit"

Fits(existing, new) == type_check("RVO", existing, new) = "perfect_fit"
=============================================================================
