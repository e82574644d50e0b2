----------------------------- MODULE MCCudaArray -----------------------------
(* Small instances of CudaArray. *)
EXTENDS CudaArray, TLC

Symmetry == Permutations(Users) \cup Permutations(Shards)
=============================================================================
