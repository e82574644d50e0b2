----------------------------- MODULE MCGpuCodecs ------------------------------
(* Small instances of Filters, Blosc, Frames and DecodeChain: a behaviour is one of them. *)
EXTENDS Filters, Blosc, Frames, DecodeChain

MCWords == {0, 1, 2, 31, 32, 63}
MCDeltas == UNION {[1..n -> MCWords] : n \in 1..2} \cup {<<62, 63, 1>>, <<3, 4, 3>>}
MCPins == {<<>>, [d \in {"delta"} |-> "cccl"], [d \in {"delta", "shuffle"} |-> "cccl"]}

\* c-blosc makes no block longer than the chunk.
MCLayouts ==
  {L \in [nbytes : {8, 16, 20, 24, 32}, blocksize : {8, 16}, typesize : {1, 2},
          shuffle : {"bit", "byte", "none"}] : L.blocksize <= L.nbytes}

Codec(name) == [name |-> name]
PlainBytes == [name |-> "bytes", endian |-> "little"]
ShuffleBy(e) == [name |-> "shuffle", elementsize |-> e]
Appended == {ShuffleBy(2), ShuffleBy(4), Codec("zstd"), Codec("blosc"), Codec("crc32c")}

\* Lists of codecs as zarr takes them: one that serializes, and codecs of bytes.
Lists == {<<PlainBytes>> \o s : s \in UNION {[1..n -> Appended] : n \in 0..3}}
           \cup {<<[PlainBytes EXCEPT !.endian = "big"]>>,
                 <<Codec("delta"), PlainBytes>>, <<PlainBytes, Codec("gzip")>>}

Sharding(cs, location, divides) ==
  [name |-> "sharding_indexed", codecs |-> cs, location |-> location, divides |-> divides]
Behind == {<<>>, <<Codec("crc32c")>>, <<Codec("zstd")>>, <<Codec("crc32c"), Codec("crc32c")>>}
ShardedLists ==
  {<<Sharding(cs, location, TRUE)>> \o b : cs \in Lists, location \in {"start", "end"}, b \in Behind}
    \cup {<<Sharding(<<PlainBytes>>, "end", FALSE)>>}

SupportedArrays ==
  [node : {"array"}, dtype : {"numeric"}, grid : {"regular"}, key : {"default", "v2"},
   fill : {"number", "special"}, compressed : {4, 6}, codecs : Lists]
UnsupportedArrays ==
  [node : {"array", "group"}, dtype : {"numeric", "other"}, grid : {"regular", "other"},
   key : {"default", "other"}, fill : {"number", "other"}, compressed : {4},
   codecs : {<<PlainBytes>>}]
MCMetadata ==
  {m \in SupportedArrays \cup UnsupportedArrays
           \cup [node : {"array"}, dtype : {"numeric"}, grid : {"regular"}, key : {"default"},
                 fill : {"number"}, compressed : {4, 6}, codecs : ShardedLists] : Writable(m)}

\* Arrays without a compressor, whose decoding is all czarr's own.
MCUncompressed ==
  {m \in MCMetadata : \A i \in DOMAIN m.codecs : m.codecs[i].name \in {"bytes", "shuffle", "crc32c"}}

NoBatch == items = <<>> /\ layout = <<>> /\ decoded = <<>> /\ out = <<>> /\ phase = "none"
NoChunk == /\ overrides = Unpinned /\ config = 0 /\ tokens = <<>> /\ calls = 0
           /\ scopes = <<[config |-> 0, overrides |-> Unpinned]>>
           /\ job = [filter |-> "none"] /\ stored = Unset /\ read = Unset /\ stage = "none"
NoTrip == /\ trip = [codec |-> "none", before |-> "none"] /\ entry = [form |-> "nested", keys |-> {}]
          /\ object = <<>> /\ result = <<>> /\ at = "none"
NoArray == /\ meta = (CHOOSE m \in UnsupportedArrays : TRUE)
           /\ recipe = NoRecipe /\ view = Garbled(0) /\ step = "none"

MCInit == \/ FilterInit /\ NoBatch /\ NoTrip /\ NoArray
          \/ BloscInit /\ NoChunk /\ NoTrip /\ NoArray
          \/ FrameInit /\ NoBatch /\ NoChunk /\ NoArray
          \/ ChainInit /\ NoBatch /\ NoChunk /\ NoTrip
MCNext == \/ FilterNext /\ stage # "none" /\ UNCHANGED <<bloscVars, frameVars, chainVars>>
          \/ BloscNext /\ UNCHANGED <<filterVars, frameVars, chainVars>>
          \/ FrameNext /\ UNCHANGED <<filterVars, bloscVars, chainVars>>
          \/ ChainNext /\ UNCHANGED <<filterVars, bloscVars, frameVars>>
MCSpec == MCInit /\ [][MCNext]_<<filterVars, bloscVars, frameVars, chainVars>>
=============================================================================
