------------------------------- MODULE MCHeap -------------------------------
(* The word pool on a pool of a few words, with requests that fit exactly,   *)
(* split a block, and fail.                                                  *)
EXTENDS Heap
=============================================================================
