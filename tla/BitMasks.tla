------------------------------- MODULE BitMasks ------------------------------
(* The masks of function_pool_flags (memory.cpp:20): a word, a bit per slot. *)
EXTENDS Integers

\* 1 << i
Power[i \in Nat] == IF i = 0 THEN 1 ELSE 2 * Power[i - 1]

Bit(mask, i) == (mask \div Power[i]) % 2 = 1
=============================================================================
