---------------------------- MODULE MCHandleCache ----------------------------
(* Small instances of HandleCache. *)
EXTENDS HandleCache, TLC

\* Threads of one kind, paths and inodes are interchangeable.
Symmetry == Permutations(Threads \ Daemons) \cup Permutations(Paths)
              \cup Permutations(Inodes)
=============================================================================
