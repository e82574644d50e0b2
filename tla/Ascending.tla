------------------------------ MODULE Ascending -------------------------------
(***************************************************************************)
(* The loops over enumerate(...) that keep some of the indices: of the     *)
(* chunks that are not None in codecs/base.py and codecs/compressors/      *)
(* blosc.py, of the windows with bytes in codecs/sharding.py.              *)
(***************************************************************************)
EXTENDS Naturals, Sequences

\* After k steps of the loop, the members of S among 1..k in order.
KeptIn(S, n) ==
  LET kept[k \in 0..n] ==
        IF k = 0 THEN <<>> ELSE IF k \in S THEN Append(kept[k - 1], k) ELSE kept[k - 1]
  IN  kept
InOrder(S, n) == KeptIn(S, n)[n]
=============================================================================
