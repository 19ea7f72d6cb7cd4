---------------------------- MODULE MCCollector ----------------------------
(* The collector on pools of a few words; each .cfg lets the program do some *)
(* of what it can do, so that the pool is filled by that.                    *)
EXTENDS Collector, TLC

\* ASTs with one field, with two, and none but imv and basicblock.
OneField == (2 :> 1)
TwoFields == (2 :> 2)
NoTags == <<>>

\* Types that nest: pointers to pointers; the same and structures of two
\* integers; pointers to such structures.
NoTypes == <<>>
Pointers == (7 :> {3, 7})
PointersAndPairs == (0 :> {1}) @@ (7 :> {3, 7})
StructPointers == (0 :> {1}) @@ (7 :> {0})
=============================================================================
