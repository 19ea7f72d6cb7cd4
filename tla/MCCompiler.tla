----------------------------- MODULE MCCompiler -----------------------------
(* Three families of programs: control flow, data, and graphs with cycles. *)
EXTENDS Compiler

Node(tag, fields) == [tag |-> tag, fields |-> fields, type |-> null, constant |-> NoConstant]
Imv(t, c) == [tag |-> "imv", fields |-> <<>>, type |-> t, constant |-> c]
Nodes(tags, fieldss) == {Node(tag, fields) : tag \in tags, fields \in fieldss}

----------------------------------------------------------------------------
\* Labels, gotos and branches, which share an object (5), a scope (6), a goto (3)
\* and a use of the object (7).
ControlFlow ==
    {<<root, label, Node("goto", <<2>>), branch, Node("random", <<>>), scope, use, Node("zero", <<>>)>> :
        root \in Nodes({"basicblock"}, {<<2, 4>>, <<4, 2>>, <<5, 2, 4>>, <<6, 5, 4>>, <<2, 5, 4>>,
                                        <<2, 8, 8>>, <<4, 3>>, <<7, 3>>}),
        label \in Nodes({"label"}, {<<i>> : i \in {0, 3, 4, 6}}),
        branch \in Nodes({"if"}, {<<8, i, j>> : i \in {2, 3, 5, 6}, j \in {0, 3, 7}}),
        scope \in Nodes({"basicblock"}, {<<>>, <<4, 5>>, <<5, 3>>, <<2, 3>>, <<5, 2, 7>>}),
        use \in Nodes({"concatenate"}, {<<5, 5>>, <<2, 5>>})}

----------------------------------------------------------------------------
\* A value (2), an offset (5), something made of them (3) and every tag on those (4).
Leaves ==
    {Imv(integer, Constant(1)), Imv(<<"con_vec", integer, type_pointer>>, Constant(1) \o TypeConstant(integer)),
     Imv(<<"vector", integer>>, Constant(Huge)), Imv(AST_pointer, Constant(Huge)),
     Imv(type_pointer, TypeConstant(integer)), Imv(type_pointer, TypeConstant(<<"con_vec", integer, integer>>)),
     Imv(dynamic_object, Constant(0)), Node("get_event_loop", <<>>)}
Offsets == {Node("zero", <<>>), Imv(integer, Constant(1)), Node("random", <<>>)}
Makers ==
    Nodes({"pointer", "typeof", "dynamify", "nvec", "load_tag"}, {<<2>>})
        \cup Nodes({"concatenate", "load_subobj"}, {<<2, 5>>})
Users ==
    Nodes(Folding \cup Shifts \cup Divisions \cup PlainCalls, {<<3, 5>>})
    \cup Nodes({"zero", "nvec", "pointer", "tmp_pointer", "concatenate", "store", "try_store", "vecpb", "vecsz", "dynamify", "compile", "convert_to_AST", "load_tag", "typeof", "load_subobj"},
          {<<3, 2>>, <<3, 5>>, <<2, 3>>})
    \cup Nodes({"if", "load_subobj_ref"}, {<<3, 5, 4>>, <<2, 5, 3>>})
    \cup Nodes({"load_imv_from_AST", "load_vector_from_BB"}, {<<2, 4>>, <<2, 7>>, <<3, 2>>})
    \cup Nodes({"dyn_subobj"}, {<<2, 5, 0, 4, 3, 4, 0, 0, 6, 7>>})
Data ==
    {<<Node("basicblock", <<2, 3, 4>>), leaf, maker, user, offset, inner,
       Node("dyn_subobj", <<4, 5, 0, 0, 0, 0, 0, 0, 0, 0>>)>> :
        leaf \in Leaves, maker \in Makers, user \in Users, offset \in Offsets,
        inner \in {Node("try_store", <<4, 4>>)}}

----------------------------------------------------------------------------
\* Any graph of three ASTs, each of which may hold itself.
Ids == 1..3
Shapes ==
    Nodes({"basicblock"}, {<<i, j>> : i, j \in Ids}) \cup Nodes({"concatenate"}, {<<i, j>> : i, j \in Ids})
        \cup Nodes({"label", "goto", "pointer"}, {<<i>> : i \in Ids})
Cyclic == {<<first, second, third>> :
    first \in {s \in Shapes : s.tag = "basicblock"}, second \in Shapes, third \in Shapes}

----------------------------------------------------------------------------
\* type_check calls itself for what is inside two compound types. No two insides
\* met in these programs are again compound and different, so once is enough.
NeverAsked(existing, new) == FALSE
Innermost == INSTANCE TypeCheck WITH SameTarget <- NeverAsked
MCSameTarget(existing, new) == Innermost!SameInside(existing, new)

MCImvTypes ==
    {null, integer, AST_pointer, type_pointer, dynamic_object, <<"vector", integer>>,
     <<"con_vec", integer, type_pointer>>, <<"con_vec", integer, integer>>}

MCPrograms == ControlFlow \cup Data \cup Cyclic
=============================================================================
