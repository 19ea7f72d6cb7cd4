------------------------------ MODULE Compiler ------------------------------
(***************************************************************************)
(* compiler_object (cs11.h, cs11.cpp): the recursion of generate_IR over a *)
(* graph of ASTs, any graph the fuzzer or a program can make. What is kept *)
(* of the emitted code is its basic blocks, where each value is made and   *)
(* where it is used.                                                       *)
(***************************************************************************)
EXTENDS Naturals, Sequences, FiniteSets, Functions

CONSTANTS
    Programs,   \* the programs to compile: an AST by number, 0 is nullptr
    Root,       \* the AST that compile_AST is given
    ImvTypes,   \* the types in the imvs of the programs, with what they are made of
    Huge,       \* stands for every constant that is beyond all offsets
    SameTarget(_, _)    \* whether type_check finds what is inside two types to match

INSTANCE TypeCheck

ASSUME HugeAssumption == Huge \in Nat

VARIABLES
    ast,            \* [AST -> [tag, fields, type, constant]]; the ASTs do not change
    frames,         \* the calls of generate_IR in progress
    control,        \* what happens next: a call, a return, or the last frame goes on
    objects,        \* AST -> Return_Info, what can be referred to
    object_stack,   \* the same ASTs in the order they were made
    labels,         \* AST -> label_info
    loop_catcher,   \* the ASTs in progress
    allocations,    \* the memory_allocations, by number
    flow,           \* the emitted code: current block, blocks, edges, uses
    scoped          \* history: labels were statements, gotos saw their labels

vars == <<ast, frames, control, objects, object_stack, labels, loop_catcher,
          allocations, flow, scoped>>

living == <<objects, object_stack>>

----------------------------------------------------------------------------
(* What is known of each tag: AST_descriptor. *)
any == <<"compile_without_type_check">>

Shifts == {"ushr", "sshr", "shl"}
Divisions == {"udiv", "urem"}
Folding == {"increment", "decrement", "add", "subtract", "multiply", "lessu", "lesss"}
PlainCalls == {"random", "overfunc", "imv_AST", "run_function", "system1", "system2",
               "agency1", "agency2"}

parameter_types(tag) ==
    CASE tag \in {"decrement", "increment", "if", "system1", "agency1"} -> <<integer>>
      [] tag \in (Folding \ {"decrement", "increment"}) \cup Shifts \cup Divisions
              \cup {"system2", "agency2"} -> <<integer, integer>>
      [] tag \in {"tmp_pointer", "dynamify", "compile", "vecsz", "typeof", "load_tag"} -> <<any>>
      [] tag \in {"concatenate", "store", "try_store", "vecpb"} -> <<any, any>>
      [] tag \in {"load_subobj", "load_subobj_ref", "dyn_subobj"} -> <<any, integer>>
      [] tag = "nvec" -> <<type_pointer>>
      [] tag = "overfunc" -> <<function_pointer, function_pointer>>
      [] tag = "run_function" -> <<function_pointer>>
      [] tag = "convert_to_AST" -> <<integer, any>>
      [] tag = "imv_AST" -> <<dynamic_object>>
      [] tag \in {"load_imv_from_AST", "load_vector_from_BB"} -> <<AST_pointer>>
      [] OTHER -> <<>>

return_object(tag) ==
    CASE tag \in {"goto", "label", "store", "vecpb", "load_subobj_ref", "agency1", "agency2",
                  "load_imv_from_AST", "load_vector_from_BB"} -> null
      [] tag \in {"dynamify", "run_function"} -> dynamic_object
      [] tag \in {"compile", "get_event_loop"} -> function_pointer
      [] tag \in {"convert_to_AST", "imv_AST"} -> AST_pointer
      [] tag \in {"dyn_subobj", "typeof"} -> type_pointer
      [] OTHER -> integer

----------------------------------------------------------------------------
(* Values. An llvm::Constant is the sequence of its words, each a number and, *)
(* when it stands for a type, that type; other values have none.              *)
NoConstant == <<>>
Constant(n) == <<[number |-> IF n \in 0..Huge THEN n ELSE Huge, type |-> null]>>
TypeConstant(t) == <<[number |-> IF t = null THEN 0 ELSE Huge, type |-> t]>>
Word(c, offset) == IF offset < Len(c) THEN <<c[offset + 1]>> ELSE NoConstant

\* Return_Info. place is an allocation or 0; made is the block the value is made in.
Value(type, place, hidden, made, constant, subtype) ==
    [error |-> "no_error", type |-> type, place |-> place, hidden |-> hidden, made |-> made,
     constant |-> IF place = 0 THEN constant ELSE NoConstant, subtype |-> subtype]
NullObject == Value(null, 0, FALSE, 0, NoConstant, FALSE)
Error(code) == [NullObject EXCEPT !.error = code]

Called(id, degree) == [kind |-> "call", target |-> id, degree |-> degree]
Returned(r) == [kind |-> "return", result |-> r]
Going == [kind |-> "go"]

top == frames[Len(frames)]
this == ast[top.target]
results == top.results
fields_to_compile == Len(parameter_types(this.tag))

\* A frame that has the results rs, or in addition the one just returned.
With(rs) == [frames EXCEPT ![Len(frames)].results = rs]
Answered == With(Append(results, control.result))

----------------------------------------------------------------------------
(* The emitted code. Block 1 is the entry, where all allocas go. *)
Jump(fl, b) == [fl EXCEPT !.edges = @ \cup {<<fl.block, b>>}]
At(fl, b) == [fl EXCEPT !.block = b]
MoreBlocks(fl, n) == [fl EXCEPT !.count = @ + n]

\* The current block uses what was made in the blocks of S.
Uses(fl, S) == [fl EXCEPT !.uses = @ \cup {<<d, fl.block>> : d \in S \ {0, fl.block}}]

\* A conditional branch to two new blocks, the first of which is entered; the
\* block where they meet comes before them.
Fork(fl) ==
    LET both == Jump(Jump(fl, fl.count + 2), fl.count + 3)
    IN At(MoreBlocks(both, 3), fl.count + 2)
Merge(fl) == fl.count + 1

\* create_if_value on values alone: both ways do nothing to the stack.
create_if_value(fl) ==
    LET forked == Fork(fl)
        second == At(Jump(forked, Merge(fl)), fl.count + 3)
    IN At(Jump(second, Merge(fl)), Merge(fl))

\* load_from_memory, when there is a place; any other value stays where it was made.
Loaded(info) == IF info.place = 0 THEN info ELSE [info EXCEPT !.made = flow.block]
AfterLoad(info) == IF info.place = 0 THEN flow ELSE Uses(flow, {info.made})

\* The code as the current AST's own step finds it: its fields' values are used.
flow_here == Uses(flow, {results[i].made : i \in DOMAIN results})

----------------------------------------------------------------------------
(* Objects and their lifetimes. *)
\* Mutant: one object too many is removed.
clear_stack_below(n) == SubSeq(object_stack, 1, IF n < Len(object_stack) THEN n - 1 ELSE Len(object_stack))

clear_stack(n) == SubSeq(object_stack, 1, IF n < Len(object_stack) THEN n ELSE Len(object_stack))

KeepObjects(stack) == Restrict(objects, DOMAIN objects \
    {object_stack[i] : i \in Len(stack) + 1 .. Len(object_stack)})

ClearedTo(n) ==
    /\ object_stack' = clear_stack(n)
    /\ objects' = KeepObjects(clear_stack(n))

\* A table f with an entry for x.
Extended(f, x, v) == [y \in DOMAIN f \cup {x} |-> IF y = x THEN v ELSE f[y]]

\* new_living_object after the stack was cut to stack; an AST already there stays.
new_living_object(stack, id, info) ==
    LET kept == KeepObjects(stack)
        known == id \in DOMAIN kept
    IN /\ object_stack' = IF known THEN stack ELSE Append(stack, id)
       /\ objects' = IF known THEN kept ELSE Extended(kept, id, info)

\* memory_allocation: what names it, and whether turn_full made it a heap object.
create_actual_alloca(all) ==
    Append(all, [names |-> <<"alloca", Len(all) + 1>>, full |-> FALSE])
new_reference(all, names) == Append(all, [names |-> names, full |-> FALSE])
FreshValue(all) == <<"value", Len(all) + 1>>

turn_full(p) == IF allocations[p].full THEN allocations
                ELSE [allocations EXCEPT ![p] = [names |-> <<"allocate", p>>, full |-> TRUE]]

----------------------------------------------------------------------------
(* How a call of generate_IR ends: its loop_catcher entry goes in any case. *)
Pop ==
    /\ frames' = Front(frames)
    /\ loop_catcher' = loop_catcher \ {top.target}

\* Mutant: an error leaves the AST in the loop catcher.
return_code_caught(code) ==
    /\ frames' = Front(frames)
    /\ control' = Returned(Error(code))
    /\ UNCHANGED <<loop_catcher, living, allocations>>

return_code(code) ==
    /\ Pop
    /\ control' = Returned(Error(code))
    /\ UNCHANGED <<living, allocations>>

\* Mutant: temporaries live on in a statement as in a field.
FinalStack_kept(keep) == clear_stack(keep)

\* A statement's temporaries die, and what came before it stays.
FinalStack(keep) == clear_stack(IF top.degree = 2 THEN top.base ELSE keep)

\* finish_internal, after the AST's own code cut the stack to keep. place is a
\* location made by this AST, in all, or 0.
finish_in(keep, place, all, type, constant, fl) ==
    LET statement == top.degree = 2
        stack == FinalStack(keep)
        placed == IF statement /\ place = 0 THEN create_actual_alloca(all) ELSE all
        where == IF statement /\ place = 0 THEN Len(placed) ELSE place
        info == Value(type, where, place # 0, fl.block, constant, FALSE)
    IN /\ Pop
       /\ flow' = fl
       /\ IF get_size(type) = 0
          THEN /\ object_stack' = stack
               /\ objects' = KeepObjects(stack)
               /\ allocations' = all
               /\ control' = Returned(NullObject)
          ELSE /\ new_living_object(stack, top.target, info)
               /\ allocations' = placed
               /\ control' = Returned(info)

finish_special(type, constant, fl) ==
    finish_in(Len(object_stack), 0, allocations, type, constant, fl)
finish(fl) == finish_special(return_object(this.tag), NoConstant, fl)
finish_after(keep, fl) ==
    finish_in(keep, 0, allocations, return_object(this.tag), NoConstant, fl)
finish_null == finish_special(return_object(this.tag), Constant(0), flow_here)

Refused(code) == return_code(code) /\ UNCHANGED flow

\* The frame's own step, when its fields are compiled and type checked.
Body(tags) ==
    /\ frames # <<>> /\ control = Going
    /\ this.tag \in tags
    /\ Len(results) = fields_to_compile

InBody(tags) == Body(tags) /\ UNCHANGED <<ast, labels, scoped>>

\* What is returned to a frame that compiles a field by itself.
Back(tags) ==
    /\ frames # <<>> /\ control.kind = "return"
    /\ this.tag \in tags
    /\ Len(results) >= fields_to_compile

BackWell(tags) == Back(tags) /\ control.result.error = "no_error"

----------------------------------------------------------------------------
(* The beginning of generate_IR. *)
Call == control.kind = "call" /\ UNCHANGED <<ast, living, labels, allocations, scoped>>

null_target ==
    /\ Call /\ control.target = 0
    /\ control' = Returned(NullObject)
    /\ UNCHANGED <<frames, loop_catcher, flow>>

\* An AST that is alive is not compiled again: its value, loaded anew from its place.
refreshed_load ==
    /\ Call /\ control.target \in DOMAIN objects
    /\ flow' = AfterLoad(objects[control.target])
    /\ control' = Returned(Loaded(objects[control.target]))
    /\ UNCHANGED <<frames, loop_catcher>>

infinite_loop ==
    /\ Call /\ control.target \notin DOMAIN objects
    /\ control.target \in loop_catcher
    /\ control' = Returned(Error("infinite_loop"))
    /\ UNCHANGED <<frames, loop_catcher, flow>>

begin ==
    /\ Call /\ control.target \notin DOMAIN objects \cup loop_catcher \cup {0}
    /\ loop_catcher' = loop_catcher \cup {control.target}
    /\ frames' = Append(frames, [target |-> control.target, degree |-> control.degree,
                                 base |-> Len(object_stack), results |-> <<>>,
                                 mark |-> 0, merge |-> 0])
    /\ control' = Going
    /\ UNCHANGED flow

compile_field ==
    /\ frames # <<>> /\ control = Going
    /\ Len(results) < fields_to_compile
    /\ control' = Called(this.fields[Len(results) + 1], 0)
    /\ UNCHANGED <<ast, frames, living, labels, loop_catcher, allocations, flow, scoped>>

field_compiled ==
    /\ frames # <<>> /\ control.kind = "return" /\ control.result.error = "no_error"
    /\ Len(results) < fields_to_compile
    /\ LET parameter == parameter_types(this.tag)[Len(results) + 1]
       IN IF parameter = any \/ Fits(control.result.type, parameter)
          THEN /\ frames' = Answered
               /\ control' = Going
               /\ UNCHANGED <<living, loop_catcher, allocations>>
          ELSE return_code("type_mismatch")
    /\ UNCHANGED <<ast, labels, flow, scoped>>

\* Every caller passes an error on at once, but for create_if_value's.
InBranch == {"load_subobj_ref", "load_imv_from_AST", "load_vector_from_BB"}

\* Mutant: what failed is tried again.
pass_error_retrying ==
    /\ frames # <<>> /\ control.kind = "return" /\ control.result.error # "no_error"
    /\ ~Back(InBranch) /\ this.fields # <<>>
    /\ control' = Called(this.fields[1], 0)
    /\ UNCHANGED <<ast, frames, living, labels, loop_catcher, allocations, flow, scoped>>

pass_error ==
    /\ frames # <<>> /\ control.kind = "return" /\ control.result.error # "no_error"
    /\ ~Back(InBranch)
    /\ Pop
    /\ UNCHANGED <<ast, control, living, labels, allocations, flow, scoped>>

----------------------------------------------------------------------------
(* The cases of the switch. *)
basicblock ==
    /\ frames # <<>> /\ control = Going /\ this.tag = "basicblock"
    /\ IF Len(results) < Len(this.fields)
       THEN /\ control' = Called(this.fields[Len(results) + 1], 2)
            /\ UNCHANGED <<frames, loop_catcher, flow>>
       ELSE LET final == IF results = <<>> THEN NullObject ELSE Last(results)
                loads == top.degree = 0 /\ final.place # 0
            IN /\ Pop
               /\ flow' = IF loads THEN AfterLoad(final) ELSE flow
               /\ control' = Returned(IF loads THEN Loaded(final) ELSE final)
    /\ UNCHANGED <<ast, living, labels, allocations, scoped>>

element_compiled ==
    /\ BackWell({"basicblock"})
    /\ frames' = Answered
    /\ control' = Going
    /\ UNCHANGED <<ast, living, labels, loop_catcher, allocations, flow, scoped>>

\* The IRBuilder folds what it can. What is computed from Huge may be any number.
Fold(tag, a, b) ==
    CASE tag = "increment" -> a + 1
      [] tag = "decrement" -> a - 1
      [] tag = "add" -> a + b
      [] tag = "subtract" -> a - b
      [] tag = "multiply" -> a * b
      [] OTHER -> IF a < b THEN 1 ELSE 0

Folded ==
    IF \E i \in DOMAIN results : results[i].constant = NoConstant THEN {NoConstant}
    ELSE LET a == results[1].constant[1].number
             b == Last(results).constant[1].number
         IN IF Huge \in {a, b} THEN {Constant(n) : n \in 0..Huge}
            ELSE {Constant(Fold(this.tag, a, b))}

zero == InBody({"zero"}) /\ finish_null
arithmetic == InBody(Folding) /\ \E c \in Folded : finish_special(integer, c, flow_here)
guarded_arithmetic == InBody(Shifts \cup Divisions) /\ finish(create_if_value(flow_here))
plain_call == InBody(PlainCalls) /\ finish(flow_here)
get_event_loop ==
    InBody({"get_event_loop"}) /\ finish_special(function_pointer, Constant(Huge), flow)

if_begin ==
    /\ InBody({"if"})
    /\ frames' = [frames EXCEPT ![Len(frames)].mark = Len(object_stack),
                                ![Len(frames)].merge = Merge(flow)]
    /\ flow' = Fork(flow_here)
    /\ control' = Called(this.fields[2], 0)
    /\ UNCHANGED <<living, loop_catcher, allocations>>

\* Mutant: the first branch's objects are alive in the second.
if_then_keeping ==
    /\ BackWell({"if"}) /\ Len(results) = 1
    /\ flow' = At(Jump(flow, top.merge), top.merge + 2)
    /\ frames' = Answered
    /\ control' = Called(this.fields[3], 0)
    /\ UNCHANGED <<ast, living, labels, loop_catcher, allocations, scoped>>

if_then ==
    /\ BackWell({"if"}) /\ Len(results) = 1
    /\ ClearedTo(top.mark)
    /\ flow' = At(Jump(flow, top.merge), top.merge + 2)
    /\ frames' = Answered
    /\ control' = Called(this.fields[3], 0)
    /\ UNCHANGED <<ast, labels, loop_catcher, allocations, scoped>>

\* The slot is the first branch's, else the second's, else nothing is returned.
if_type(first, second) ==
    IF Fits(second, first) THEN first ELSE IF Fits(first, second) THEN second ELSE null

\* The phi uses each value at the end of its own branch.
if_else ==
    /\ BackWell({"if"}) /\ Len(results) = 2
    /\ LET type == if_type(results[2].type, control.result.type)
           first_end == CHOOSE b \in 1..flow.count : <<b, top.merge>> \in flow.edges
           merged == At(Jump(flow, top.merge), top.merge)
           phi == At(Uses(At(Uses(flow, {control.result.made}), first_end), {results[2].made}),
                     flow.block)
       IN finish_in(top.mark, 0, allocations, type, NoConstant,
                    IF type = null THEN merged ELSE [merged EXCEPT !.uses = phi.uses])
    /\ UNCHANGED <<ast, labels, scoped>>

nvec ==
    /\ InBody({"nvec"})
    /\ LET c == results[1].constant
       IN IF c = NoConstant THEN Refused("requires_constant")
          ELSE IF c[1].number = 0 THEN Refused("type_mismatch")
          ELSE IF ver(c[1].type) = "con_vec" THEN Refused("vector_cant_take_large_objects")
          ELSE IF ~is_full(c[1].type) THEN Refused("nonfull_object")
          ELSE finish_special(<<"vector", c[1].type>>, NoConstant, flow_here)

\* home is the basicblock that the label is a statement of, 0 for a field.
label_begin ==
    /\ Body({"label"}) /\ UNCHANGED ast
    /\ IF top.target \in DOMAIN labels
       THEN return_code("label_duplication") /\ UNCHANGED <<labels, flow, scoped>>
       ELSE /\ labels' = Extended(labels, top.target, [block |-> flow.count + 1, is_forward |-> TRUE,
                home |-> IF top.degree = 2 THEN frames[Len(frames) - 1].target ELSE 0])
            /\ flow' = MoreBlocks(flow, 1)
            /\ control' = Called(this.fields[1], 0)
            /\ scoped' = (scoped /\ top.degree = 2)
            /\ UNCHANGED <<frames, living, loop_catcher, allocations>>

label_end ==
    /\ BackWell({"label"})
    /\ labels' = [labels EXCEPT ![top.target].is_forward = FALSE]
    /\ LET block == labels[top.target].block IN finish(At(Jump(flow, block), block))
    /\ UNCHANGED <<ast, scoped>>

\* After a jump the code goes on in a block that nothing leads to.
goto_forward(block) ==
    /\ finish_special(does_not_return, NoConstant,
                      At(Jump(MoreBlocks(flow, 1), block), flow.count + 1))
    /\ UNCHANGED scoped

\* If there is finiteness left, back to the label, else on.
goto_backward(block, home) ==
    LET success == flow.count + 1
        failure == flow.count + 2
        tested == Jump(Jump(MoreBlocks(flow, 2), success), failure)
    IN /\ finish(At(Jump(At(tested, success), block), failure))
       /\ scoped' = (scoped /\ \E i \in DOMAIN frames : frames[i].target = home)

goto ==
    /\ Body({"goto"}) /\ UNCHANGED <<ast, labels>>
    /\ IF this.fields[1] \notin DOMAIN labels
       THEN Refused("missing_label") /\ UNCHANGED scoped
       ELSE LET info == labels[this.fields[1]]
            IN IF info.is_forward THEN goto_forward(info.block)
               ELSE goto_backward(info.block, info.home)

----------------------------------------------------------------------------
(* Pointers, references and stores. *)
\* Mutant: a reference is taken for an object of its own.
Temporary_type(found) == ~is_full(found.type)

\* A reference is not owned; a type that is not full is not for the heap.
Temporary(found) == found.hidden \/ ~is_full(found.type)

pointer ==
    /\ InBody({"pointer"})
    /\ IF this.fields[1] \notin DOMAIN objects THEN Refused("pointer_without_target")
       ELSE LET found == objects[this.fields[1]]
                temporary == Temporary(found)
            IN IF found.place = 0 THEN Refused("pointer_to_temporary")
               ELSE finish_in(Len(object_stack), 0,
                        IF temporary THEN allocations ELSE turn_full(found.place),
                        <<IF temporary THEN "temp pointer" ELSE "pointer", found.type>>,
                        NoConstant, Uses(flow, {found.made}))

tmp_pointer ==
    /\ InBody({"tmp_pointer"})
    /\ IF ver(results[1].type) # "pointer" THEN Refused("type_mismatch")
       ELSE finish_special(<<"temp pointer", Target(results[1].type)>>,
                           results[1].constant, flow_here)

\* Two constants side by side are a constant; an empty half adds nothing.
Joined ==
    IF \A i \in 1..2 : results[i].type = null \/ results[i].constant # NoConstant
    THEN results[1].constant \o results[2].constant ELSE NoConstant

concatenate ==
    /\ InBody({"concatenate"})
    /\ finish_special(concatenate_types(results[1].type, results[2].type), Joined, flow_here)

store ==
    /\ InBody({"store"})
    /\ LET slot == results[1].type
       IN IF slot = null THEN Refused("type_mismatch")
          ELSE IF Fits(results[2].type, slot)
          THEN IF results[1].place = 0 THEN Refused("missing_reference") ELSE finish(flow_here)
          ELSE IF /\ ver(slot) \in {"temp pointer", "pointer"}
                  /\ Fits(results[2].type, Target(slot))
          THEN finish(flow_here)
          ELSE Refused("type_mismatch")

Storable == {<<"pointer", "pointer to something">>, <<"vector", "vector of something">>,
             <<"vector of something", "vector of something">>, <<"vector of something", "vector">>,
             <<"pointer to something", "pointer to something">>, <<"pointer to something", "pointer">>}

try_store ==
    /\ InBody({"try_store"})
    /\ IF results[1].type = null THEN Refused("type_mismatch")
       ELSE IF results[1].place = 0 THEN Refused("missing_reference")
       ELSE IF \E i \in 1..2 : ver(results[i].type) \in Untyped /\ ~results[i].subtype
       THEN Refused("lost_hidden_subtype")
       ELSE IF <<ver(results[1].type), ver(results[2].type)>> \notin Storable
       THEN Refused("type_mismatch")
       ELSE finish(create_if_value(flow_here))

\* The reference is alive while the branch is compiled, in InBranch and in dyn_subobj.
Referred(stack, type, all, fl, subtype) ==
    /\ allocations' = new_reference(all, FreshValue(all))
    /\ new_living_object(stack, top.target,
                         Value(type, Len(all) + 1, TRUE, fl.block, NoConstant, subtype))

\* The types of the cases; a vector or a pointer is given without its inside.
case_type == <<integer, dynamic_object, AST_pointer, type_pointer, function_pointer,
               vector_of_something, pointer_to_something>>

\* Case 0 is before the block where all meet, the others after it.
case_block(merge, x) == IF x = 0 THEN merge - 1 ELSE merge + x

Switch(fl) ==
    LET merge == fl.count + 2
        cases == {case_block(merge, x) : x \in 0..Len(case_type)}
    IN [fl EXCEPT !.edges = @ \cup {<<fl.block, b>> : b \in cases},
                  !.count = @ + 2 + Len(case_type), !.block = case_block(merge, 0)]

dyn_begin ==
    /\ InBody({"dyn_subobj"})
    /\ LET type == results[1].type
           dynamic == Fits(type, dynamic_object)
           fl == IF dynamic THEN create_if_value(flow_here) ELSE flow_here
       IN IF ~dynamic /\ ~results[1].subtype THEN Refused("lost_hidden_subtype")
          ELSE IF ~dynamic /\ ver(type) \notin Untyped THEN Refused("type_mismatch")
          ELSE /\ frames' = [frames EXCEPT ![Len(frames)].mark = Len(object_stack),
                                           ![Len(frames)].merge = fl.count + 2]
               /\ flow' = Switch(fl)
               /\ control' = Called(this.fields[3], 0)
               /\ UNCHANGED <<living, loop_catcher, allocations>>

dyn_case ==
    /\ BackWell({"dyn_subobj"}) /\ Len(results) < 2 + Len(case_type)
    /\ LET x == Len(results) - 1
           next == At(Jump(flow, top.merge), case_block(top.merge, x))
       IN /\ flow' = next
          /\ Referred(clear_stack(top.mark), case_type[x], allocations, next, x >= 6)
          /\ control' = Called(this.fields[x + 3], 0)
    /\ frames' = Answered
    /\ UNCHANGED <<ast, labels, loop_catcher, scoped>>

dyn_end ==
    /\ BackWell({"dyn_subobj"}) /\ Len(results) = 2 + Len(case_type)
    /\ finish_after(top.mark, At(Jump(flow, top.merge), top.merge))
    /\ UNCHANGED <<ast, labels, scoped>>

\* load_subobj_ref, load_imv_from_AST, load_vector_from_BB: the last field is run
\* if the reference, made now, is not nullptr.
ReferenceType ==
    CASE this.tag = "load_imv_from_AST" -> dynamic_object
      [] this.tag = "load_vector_from_BB" -> vector_of_ASTs
      [] OTHER -> IF ver(results[1].type) = "vector" THEN Target(results[1].type) ELSE AST_pointer

branch_begin ==
    /\ InBody(InBranch)
    /\ IF this.tag = "load_subobj_ref" /\ ver(results[1].type) \notin {"vector", "AST pointer"}
       THEN Refused("type_mismatch")
       ELSE /\ Referred(object_stack, ReferenceType, allocations, flow_here, FALSE)
            /\ frames' = [frames EXCEPT ![Len(frames)].mark = Len(object_stack),
                                        ![Len(frames)].merge = Merge(flow)]
            /\ flow' = Fork(flow_here)
            /\ control' = Called(Last(this.fields), 0)
            /\ UNCHANGED loop_catcher

\* create_if_value goes on after an error; the error is looked at when it is done.
branch_end ==
    /\ Back(InBranch)
    /\ LET second == At(Jump(flow, top.merge), top.merge + 2)
           fl == At(Jump(second, top.merge), top.merge)
       IN IF control.result.error = "no_error" THEN finish_after(top.mark, fl)
          ELSE /\ Pop
               /\ ClearedTo(top.mark + 1)
               /\ flow' = fl
               /\ UNCHANGED <<control, allocations>>
    /\ UNCHANGED <<ast, labels, scoped>>

----------------------------------------------------------------------------
(* Vectors, dynamic objects, functions and ASTs. *)
vecpb ==
    /\ InBody({"vecpb"})
    /\ IF results[1].place = 0 THEN Refused("missing_reference")
       ELSE IF ver(results[1].type) # "vector" THEN Refused("type_mismatch")
       ELSE IF ~Fits(results[2].type, Target(results[1].type)) THEN Refused("type_mismatch")
       ELSE finish(flow_here)

vecsz ==
    /\ InBody({"vecsz"})
    /\ IF ver(results[1].type) \in {"vector", "vector of something"} THEN finish(flow_here)
       ELSE Refused("type_mismatch")

dynamify ==
    /\ InBody({"dynamify"})
    /\ IF results[1].type = null THEN finish_null
       ELSE IF ~is_full(results[1].type) THEN Refused("nonfull_object")
       ELSE finish(flow_here)

compile ==
    /\ InBody({"compile"})
    /\ IF results[1].type = null THEN finish_null
       ELSE IF Fits(results[1].type, AST_pointer) THEN finish(flow_here)
       ELSE Refused("type_mismatch")

convert_to_AST ==
    /\ InBody({"convert_to_AST"})
    /\ IF results[2].type = null \/ Fits(results[2].type, vector_of_ASTs) THEN finish(flow_here)
       ELSE Refused("type_mismatch")

load_tag ==
    /\ InBody({"load_tag"})
    /\ IF ver(results[1].type) \in {"type pointer", "AST pointer"} THEN finish(flow_here)
       ELSE Refused("type_mismatch")

imv ==
    /\ InBody({"imv"})
    /\ finish_special(this.type, this.constant, flow)

typeof ==
    /\ InBody({"typeof"})
    /\ finish_special(type_pointer, TypeConstant(results[1].type), flow_here)

----------------------------------------------------------------------------
(* load_subobj, by what it loads from. *)
Offset == results[2].constant[1]

\* A reference to a word of the object; to the first, its address itself.
load_reference(object, names) ==
    IF get_offset_type(object, Offset.number) = null THEN Refused("oversized_offset")
    ELSE finish_in(Len(object_stack), Len(allocations) + 1, new_reference(allocations, names),
                   get_offset_type(object, Offset.number), NoConstant, flow_here)

load_word(type, constant) ==
    IF type = null THEN Refused("oversized_offset")
    ELSE finish_special(type, constant, flow_here)

load_from_function ==
    load_word(CASE Offset.number = 0 -> AST_pointer
                [] Offset.number = 1 -> type_pointer
                [] OTHER -> null, NoConstant)

load_from_structure(type, place) ==
    IF place = 0
    THEN load_word(get_offset_type(type, Offset.number),
                   Word(results[1].constant, Offset.number))
    ELSE load_reference(type, IF Offset.number = 0 THEN allocations[place].names
                              ELSE FreshValue(allocations))

load_subobj ==
    /\ InBody({"load_subobj"})
    /\ LET type == results[1].type
           kind == ver(type)
       IN IF type = null THEN Refused("type_mismatch")
          ELSE IF kind = "type pointer" \/ kind = "AST pointer"
          THEN finish_special(type, NoConstant, flow_here)
          ELSE IF kind = "vector"
          THEN IF is_zeroable(Target(type))
               THEN finish_special(Target(type), NoConstant, flow_here)
               ELSE Refused("type_mismatch")
          ELSE IF kind \notin {"pointer", "temp pointer", "function pointer", "con_vec"}
          THEN Refused("type_mismatch")
          ELSE IF results[2].constant = NoConstant THEN Refused("requires_constant")
          ELSE IF kind = "function pointer" THEN load_from_function
          ELSE IF kind = "con_vec" THEN load_from_structure(type, results[1].place)
          ELSE load_reference(Target(type), FreshValue(allocations))

----------------------------------------------------------------------------
(* The programs: any graph of ASTs as the reader, the fuzzer and the programs *)
(* themselves make them. A field is an AST or nullptr, and there are as many  *)
(* as the tag asks for; the words of an imv are those of an object.           *)
added_pointer_fields(tag) ==
    CASE tag = "if" -> 2
      [] tag \in {"goto", "label", "pointer"} \cup InBranch -> 1
      [] tag = "dyn_subobj" -> Len(case_type) + 1
      [] OTHER -> 0
pointer_fields(tag) == Len(parameter_types(tag)) + added_pointer_fields(tag)

IsAST(node, ids) ==
    /\ node.fields \in Seq(ids \cup {0}) /\ Len(node.fields) >= pointer_fields(node.tag)
    /\ node.type \in ImvTypes \ {does_not_return}
    /\ node.constant \in Seq([number : 0..Huge, type : ImvTypes])
    /\ node.constant # NoConstant => Len(node.constant) = get_size(node.type)

ASSUME ProgramsAssumption ==
    /\ IsClosed(ImvTypes)
    /\ \A program \in Programs :
          /\ Root \in DOMAIN program /\ 0 \notin DOMAIN program
          /\ \A id \in DOMAIN program : IsAST(program[id], DOMAIN program)

----------------------------------------------------------------------------
\* compile_AST: nothing alive, an empty function, one call of generate_IR.
Init ==
    /\ ast \in Programs
    /\ frames = <<>>
    /\ control = Called(Root, 0)
    /\ objects = <<>> /\ object_stack = <<>>
    /\ labels = <<>>
    /\ loop_catcher = {}
    /\ allocations = <<>>
    /\ flow = [block |-> 1, count |-> 1, edges |-> {}, uses |-> {}]
    /\ scoped = TRUE

Next ==
    \/ null_target \/ refreshed_load \/ infinite_loop \/ begin
    \/ compile_field \/ field_compiled \/ pass_error
    \/ basicblock \/ element_compiled \/ zero \/ arithmetic \/ guarded_arithmetic \/ plain_call
    \/ get_event_loop
    \/ if_begin \/ if_then \/ if_else \/ nvec
    \/ label_begin \/ label_end \/ goto
    \/ pointer \/ tmp_pointer \/ concatenate \/ store \/ try_store
    \/ dyn_begin \/ dyn_case \/ dyn_end \/ branch_begin \/ branch_end
    \/ vecpb \/ vecsz \/ dynamify \/ compile \/ convert_to_AST \/ load_tag
    \/ imv \/ typeof \/ load_subobj

Spec == Init /\ [][Next]_vars

\* generate_IR is plain recursion in one thread: it goes on while it can.
FairSpec == Spec /\ WF_vars(Next)

----------------------------------------------------------------------------
(* Properties. *)
IsFlat(t) == ver(t) = "con_vec" /\ t # null =>
    Len(t) > 2 /\ \A i \in 2..Len(t) : ver(t[i]) # "con_vec"

\* The type invariant. A structure that is alive is flat and has at least two
\* components, as concatenate_types makes it (types.cpp:171).
CompilerTypeOK ==
    /\ \A i \in DOMAIN frames : frames[i].target \in DOMAIN ast /\ frames[i].degree \in {0, 2}
    /\ control.kind \in {"call", "return", "go"}
    /\ DOMAIN objects \cup DOMAIN labels \subseteq DOMAIN ast
    /\ \A id \in DOMAIN objects :
        /\ IsFlat(objects[id].type) /\ get_size(objects[id].type) > 0
        /\ objects[id].place \in 0..Len(allocations)
        /\ objects[id].constant # NoConstant =>
               Len(objects[id].constant) = get_size(objects[id].type)
    /\ flow.edges \subseteq (1..flow.count) \X (1..flow.count)

\* The compiler's tables agree with each other on whatever path a frame is left,
\* errors included. The stack and the map of living objects name the same ASTs,
\* each once: what clear_stack checks of every erase (cs11.cpp:168). The loop
\* catcher holds the ASTs being compiled, each once (cs11.cpp:327).
TablesAgree ==
    LET targets == [i \in DOMAIN frames |-> frames[i].target] IN
    /\ IsInjective(object_stack) /\ Range(object_stack) = DOMAIN objects
    /\ IsInjective(targets) /\ Range(targets) = loop_catcher

\* Whatever is compiled, and however its frame is left, the objects that were
\* alive before the frame began stay as they are until it ends (cs11.cpp:340).
ScopesNest == [][
    \A i \in DOMAIN frames : SubSeq(object_stack', 1, frames[i].base) =
                             SubSeq(object_stack, 1, frames[i].base)]_vars

\* A statement of a basicblock leaves nothing alive but its own result
\* (cs11.cpp:262, doc/lifetime across fields).
StatementsLeaveOne == [][
    frames # <<>> /\ Len(frames') < Len(frames) /\ top.degree = 2
        /\ this.tag # "basicblock" /\ control'.result.error = "no_error" =>
    /\ Len(object_stack') <= top.base + 1
    /\ Len(object_stack') > top.base => Last(object_stack') = top.target]_vars

\* Blocks that can be reached from S without entering avoided.
Reached(S, avoided) ==
    LET After(T) == T \cup {e[2] : e \in {x \in flow.edges : x[1] \in T /\ x[2] # avoided}}
        steps[n \in Nat] == IF n = 0 THEN S ELSE After(steps[n - 1])
    IN steps[flow.count]

Dominates(d, u) == d = 1 \/ u \notin Reached({1}, d)

\* In the code of a compiled program a value is made on every way to its use, or
\* verifyFunction refuses the code (cs11.cpp:114), or a place is read before it
\* is written. Labels that are fields, and jumps back into a scope that was
\* left, are excepted by scoped: there the code does not keep it.
ObjectsAreMade ==
    frames = <<>> /\ control.kind = "return" /\ control.result.error = "no_error" /\ scoped =>
        \A use \in flow.uses : use[2] \in Reached({1}, 0) => Dominates(use[1], use[2])

\* While a pointer is alive so is what it was made from; and what a full pointer
\* was made from was moved to the heap and is no reference (cs11.cpp:631).
PointersHaveTargets ==
    \A id \in {x \in DOMAIN objects : ast[x].tag = "pointer"} :
        LET target == ast[id].fields[1] IN
        /\ target \in DOMAIN objects
        /\ ver(objects[id].type) = "pointer" =>
               ~objects[target].hidden /\ allocations[objects[target].place].full

\* Whatever fits in a slot is of the slot's size, as the phi and the stores
\* assume (helperfunctions.h:122). And a pointer to a temporary does not fit where
\* a full object may be, but as an integer: it would outlive its target (types.h:88).
SlotsHold ==
    LET types == {objects[id].type : id \in DOMAIN objects} IN
    \A from, to \in types :
        Fits(from, to) =>
            /\ get_size(from) = get_size(to)
            /\ is_full(to) => \A i \in DOMAIN Components(from) :
                   ver(Components(from)[i]) = "temp pointer" => Components(to)[i] = integer

\* generate_IR returns on every graph of ASTs, cyclic ones too (cs11.cpp:326).
CompileReturns == <>(frames = <<>> /\ control.kind = "return")

=============================================================================
