----------------------------- MODULE MCShardFetch -----------------------------
(* A small instance of ShardFetch: every index of up to MaxCount chunks. *)
EXTENDS ShardFetch

MCOffsets == 0..5
MCLengths == {0, 1, 2, 5}
MCSizes == {0, 4}
=============================================================================
