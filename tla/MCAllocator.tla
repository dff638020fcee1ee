---------------------------- MODULE MCAllocator ----------------------------
(***************************************************************************)
(* Threads whose allocators have tiny blocks.                              *)
(***************************************************************************)
EXTENDS Allocator, TLC

Symmetry == Permutations(Threads)
=============================================================================
