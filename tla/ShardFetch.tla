------------------------------ MODULE ShardFetch ------------------------------
(***************************************************************************)
(* _decode_partial_single of src/czarr/codecs/sharding.py: the chunks of   *)
(* one shard that a read wants are looked up in the shard's index, their   *)
(* ranges fused by coalesce_ranges (Coalesce, which this module extends),  *)
(* and the fused reads gathered in any order while the shard may be        *)
(* deleted or replaced. Chunk i is request i of Coalesce; a wanted chunk   *)
(* the index does not have is never requested.                             *)
(***************************************************************************)
EXTENDS Coalesce, Ascending, FiniteSets

CONSTANTS
  Sizes, \* sizes of the shard files that replace the one whose index was read
  None   \* byte_getter.get's None

ASSUME SizesAssumption == Sizes \subseteq Nat

\* A buffer of device memory: the bytes from..from+length-1 of a file.
Buffer == [file : {1, 2}, from : Nat, length : Nat]
ASSUME NoneAssumption == None \notin Buffer

VARIABLES
  disk,  \* the shard file: 0 for none, 1 the one whose index is read, 2 its successor
  size,  \* file -> its bytes
  stage, \* of the call
  got,   \* window -> what its get returned
  dict,  \* shard_dict: chunk -> buffer
  seen   \* history: the files the key named during the call

fetchVars == <<disk, size, stage, got, dict, seen>>

Largest(S) == CHOOSE a \in S : \A b \in S : b <= a

\* The windows with bytes, in order.
WithBytes == {v \in DOMAIN fused : fused[v].length > 0}
NonEmpty == InOrder(WithBytes, Len(fused))

\* A slice of n bytes from position o of total bytes.
Clip(total, o, n) == IF o >= total THEN 0 ELSE IF n < total - o THEN n ELSE total - o
Slice(file, o, n) == [file |-> file, from |-> o, length |-> Clip(size[file], o, n)]
SubSlice(b, o, n) == [b EXCEPT !.from = @ + o, !.length = Clip(@, o, n)]

-----------------------------------------------------------------------------
\* _load_shard_index_maybe: without a shard every chunk is the fill value.
LoadIndex ==
  /\ stage = "index"
  /\ stage' = IF disk = 0 THEN "none" ELSE "coalesce"
  /\ UNCHANGED vars /\ UNCHANGED <<disk, size, got, dict, seen>>

\* _load_full_shard_maybe, when all chunks are wanted: one get, index included.
LoadFullShard ==
  /\ stage = "index"
  /\ IF disk = 0
     THEN stage' = "none" /\ dict' = dict
     ELSE /\ stage' = "answered"
          /\ dict' = [i \in 1..Count |-> Slice(disk, ranges[i].offset, ranges[i].length)]
  /\ UNCHANGED vars /\ UNCHANGED <<disk, size, got, seen>>

CoalesceStep == stage = "coalesce" /\ Next /\ UNCHANGED fetchVars

\* One get of the gather; empty windows are not read.
Gathering == stage = "coalesce" /\ pc = "done"
Get(w) ==
  /\ Gathering
  /\ fused[w].length > 0 /\ w \notin DOMAIN got
  /\ LET b == IF disk = 0 THEN None ELSE Slice(disk, fused[w].offset, fused[w].length)
     IN  got' = [v \in DOMAIN got \cup {w} |-> IF v = w THEN b ELSE got[v]]
  /\ UNCHANGED vars /\ UNCHANGED <<disk, size, stage, dict, seen>>

\* The gathered buffers, one per window with bytes, put back beside the windows.
Gathered == [j \in DOMAIN NonEmpty |-> got[NonEmpty[j]]]
ByPlaceFault(w) == IF w \in DOMAIN Gathered THEN Gathered[w] ELSE None
Materialized(w) ==
  IF fused[w].length = 0 THEN None
  ELSE Gathered[Cardinality({v \in 1..w : v \in WithBytes})]

\* The chunks of the windows that have a buffer, each its slice.
Chunks == {[w |-> w, m |-> m] : w \in {v \in DOMAIN fused : Materialized(v) # None},
                                m \in UNION {MembersOf(v) : v \in DOMAIN fused}}
FirstMemberFault == {c \in Chunks : c.m \in MembersOf(c.w) /\ c.m.intra = 0}
Sliced == {c \in Chunks : c.m \in MembersOf(c.w)}

Assemble ==
  /\ Gathering
  /\ \A w \in DOMAIN fused : fused[w].length > 0 => w \in DOMAIN got
  /\ dict' = [i \in {c.m.idx : c \in Sliced} |->
                LET c == CHOOSE c \in Sliced : c.m.idx = i
                IN  SubSlice(Materialized(c.w), c.m.intra, c.m.length)]
  /\ stage' = "answered"
  /\ UNCHANGED vars /\ UNCHANGED <<disk, size, got, seen>>

-----------------------------------------------------------------------------
(* Others: a writer replaces the shard or deletes it. While coalesce_ranges *)
(* runs nothing reads the file, so that later is as good as then.           *)

Exposed == stage = "index" \/ Gathering

Delete ==
  /\ Exposed /\ disk # 0
  /\ disk' = 0 /\ seen' = seen \cup {0}
  /\ UNCHANGED vars /\ UNCHANGED <<size, stage, got, dict>>

Replace ==
  /\ Gathering /\ 2 \notin seen
  /\ \E n \in Sizes : size' = [size EXCEPT ![2] = n]
  /\ disk' = 2 /\ seen' = seen \cup {2}
  /\ UNCHANGED vars /\ UNCHANGED <<stage, got, dict>>

-----------------------------------------------------------------------------
FetchInit ==
  /\ Init
  /\ disk = 1 /\ seen = {1}
  /\ size = <<Largest({0} \cup {End(ranges[i]) : i \in 1..Count}), 0>>
  /\ stage = "index"
  /\ got = <<>> /\ dict = <<>>

FetchNext == \/ LoadIndex \/ LoadFullShard \/ CoalesceStep
             \/ \E w \in DOMAIN fused : Get(w)
             \/ Assemble \/ Delete \/ Replace

FetchSpec == FetchInit /\ [][FetchNext]_<<vars, fetchVars>>

-----------------------------------------------------------------------------
(* Properties *)

\* Whatever order the gets are answered in, a chunk's buffer is the part of a
\* shard file where the index places that chunk: with no writer in the way, its
\* bytes.
ChunksGetTheirBytes ==
  stage = "answered" =>
    \A i \in DOMAIN dict :
      \E f \in seen \ {0} : dict[i] = Slice(f, ranges[i].offset, ranges[i].length)

\* A chunk that the index places is left out, and so read as the fill value, only
\* if the get of its own window met no shard: one deleted in the middle of the
\* gather costs the chunks of no other window. An absent shard is met only after
\* a deletion.
FilledOnlyIfAbsent ==
  /\ 0 \notin seen => stage # "none" /\ \A w \in DOMAIN got : got[w] # None
  /\ stage = "answered" =>
       \A i \in 1..Count : ranges[i].length > 0 =>
         \/ i \in DOMAIN dict
         \/ \E w \in DOMAIN got : got[w] = None /\ \E m \in MembersOf(w) : m.idx = i
=============================================================================
