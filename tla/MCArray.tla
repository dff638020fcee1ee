------------------------------ MODULE MCArray ------------------------------
(***************************************************************************)
(* Arrays on a host CPU and two GPUs, so that a transfer from one GPU to   *)
(* the other has to be staged.                                             *)
(***************************************************************************)
EXTENDS Array, TLC

Symmetry == Permutations(Bufs) \cup Permutations(Devices \ CPUs)
            \cup Permutations(Arrays)
=============================================================================
