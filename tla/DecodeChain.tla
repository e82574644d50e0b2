----------------------------- MODULE DecodeChain ------------------------------
(***************************************************************************)
(* From the metadata of an array to a decoded chunk in the explicit tier:  *)
(* plan_from_metadata of src/czarr/lowlevel/plan.py checks the metadata,   *)
(* _Chain of lowlevel/decode.py distils its list of codecs into a recipe   *)
(* of three flags, and _decode_sync applies the recipe in a fixed order to *)
(* a chunk that a zarr writer encoded with the list, codec by codec. What  *)
(* a stored chunk holds is the sequence of codecs applied to it.           *)
(***************************************************************************)
EXTENDS Naturals, Sequences, SequencesExt

CONSTANTS
  Metadata,   \* contents of zarr.json
  ChunkNbytes \* bytes of a decoded chunk

VARIABLES
  meta,   \* the parsed zarr.json
  recipe, \* the _Chain
  view,   \* the bytes of one chunk: what was applied to them, and their number
  step    \* how far the call is, how it raised, or "returned"

chainVars == <<meta, recipe, view, step>>

NoRecipe == [compressor |-> "none", elementsize |-> 0, trailer |-> FALSE]

\* Bytes that are the result of no sequence of codecs.
Garbled(n) == [layers |-> <<[name |-> "garbled"]>>, nbytes |-> n]

-----------------------------------------------------------------------------
(* The writer: zarr, which encodes with one codec of the list after the other *)

Compressors == {"zstd", "blosc"}
Sharded(m) == Head(m.codecs).name = "sharding_indexed"
ChunkCodecs(m) == IF Sharded(m) THEN Head(m.codecs).codecs ELSE m.codecs

\* The bytes after codec c, for a chunk that compresses to z bytes.
Grown(n, c, z) == CASE c.name = "crc32c" -> n + 4
                    [] c.name \in Compressors -> z
                    [] OTHER -> n
EncodedSize(codecs, z) ==
  LET size[i \in 0..Len(codecs)] == IF i = 0 THEN ChunkNbytes ELSE Grown(size[i - 1], codecs[i], z)
  IN  size[Len(codecs)]
EncodedChunk(m) == [layers |-> ChunkCodecs(m), nbytes |-> EncodedSize(ChunkCodecs(m), m.compressed)]

\* byteshuffle of a writer raises unless elementsize divides the bytes.
Writable(m) ==
  LET cs == ChunkCodecs(m)
  IN  \A i \in DOMAIN cs : cs[i].name = "shuffle" =>
         EncodedSize(SubSeq(cs, 1, i - 1), m.compressed) % cs[i].elementsize = 0

\* What zarr writes: its writer did not raise.
ASSUME MetadataAssumption ==
  /\ ChunkNbytes \in Nat
  /\ \A m \in Metadata :
       LET cs == ChunkCodecs(m)
       IN  /\ cs \in Seq({cs[i] : i \in DOMAIN cs}) /\ m.compressed \in Nat /\ Writable(m)
           /\ \A i \in DOMAIN cs :
                /\ cs[i].name = "bytes" => cs[i] = [name |-> "bytes", endian |-> cs[i].endian]
                /\ cs[i].name = "shuffle" => cs[i].elementsize \in Nat \ {0}

-----------------------------------------------------------------------------
(* plan_from_metadata *)

Indivisible(m) == Sharded(m) /\ ~Head(m.codecs).divides

\* The first check that fails.
PlanError(m) ==
  IF m.node # "array" THEN "ValueError"
  ELSE IF m.dtype = "other" \/ m.grid = "other" \/ m.key = "other" THEN "NotImplementedError"
  ELSE IF Indivisible(m) THEN "ValueError"
  ELSE IF m.fill = "other" THEN "NotImplementedError" ELSE "none"

PlanFromMetadata ==
  /\ step = "metadata"
  /\ step' = IF PlanError(meta) = "none" THEN "planned" ELSE PlanError(meta)
  /\ UNCHANGED <<meta, recipe, view>>

\* The codecs behind sharding_indexed are not in the plan. They encoded the file
\* as a whole: the index is where the plan looks for it only if it is in front
\* and they only appended to the file.
ShardFound(m) ==
  Sharded(m) =>
    \/ Len(m.codecs) = 1
    \/ Head(m.codecs).location = "start" /\ \A i \in 2..Len(m.codecs) : m.codecs[i].name = "crc32c"

\* The unit's bytes are fetched: garbled ranges may lie outside the file.
Fetch ==
  /\ step = "planned"
  /\ \/ ShardFound(meta) /\ view' = EncodedChunk(meta) /\ step' = "fetched"
     \/ /\ ~ShardFound(meta)
        /\ \/ view' = Garbled(EncodedChunk(meta).nbytes) /\ step' = "fetched"
           \/ view' = view /\ step' = "OSError"
  /\ UNCHANGED <<meta, recipe>>

-----------------------------------------------------------------------------
(* _Chain: each codec of the list sets a flag of the recipe *)

Refuses(c) == \/ c.name = "bytes" /\ c.endian # "little"
              \/ c.name \notin {"bytes", "shuffle", "crc32c"} \cup Compressors

Recipe(r, c) ==
  CASE c.name \in Compressors -> [r EXCEPT !.compressor = c.name]
    [] c.name = "shuffle"     -> [r EXCEPT !.elementsize = c.elementsize]
    [] c.name = "crc32c"      -> [r EXCEPT !.trailer = TRUE]
    [] OTHER                  -> r

Distilled(codecs) ==
  LET flags[i \in 0..Len(codecs)] == IF i = 0 THEN NoRecipe ELSE Recipe(flags[i - 1], codecs[i])
  IN  flags[Len(codecs)]

Distill ==
  /\ step = "fetched"
  /\ IF \E i \in DOMAIN ChunkCodecs(meta) : Refuses(ChunkCodecs(meta)[i])
     THEN step' = "NotImplementedError" /\ recipe' = recipe
     ELSE step' = "distilled" /\ recipe' = Distilled(ChunkCodecs(meta))
  /\ UNCHANGED <<meta, view>>

-----------------------------------------------------------------------------
(* _decode_sync *)

\* The codec applied last, undone if it was the expected one.
OnTop(v, name) == Last(v.layers).name = name
Under(v) == LET below == Front(v.layers)
            IN  [layers |-> below, nbytes |-> EncodedSize(below, meta.compressed)]

\* The last four bytes are left out of the slice.
KeepsTrailerFault(v) == v
WithoutTrailer(v) ==
  IF ~recipe.trailer THEN v
  ELSE IF OnTop(v, "crc32c") THEN Under(v) ELSE Garbled(v.nbytes - 4)

Slice ==
  /\ step = "distilled"
  /\ view' = WithoutTrailer(view)
  /\ step' = "sliced"
  /\ UNCHANGED <<meta, recipe>>

\* nvCOMP writes into an output of chunk_nbytes; given other bytes than it
\* expects it raises or leaves garbage in it. A blosc chunk has its own size.
Decompress ==
  /\ step = "sliced"
  /\ \/ recipe.compressor = "none" /\ view' = view /\ step' = "decompressed"
     \/ recipe.compressor = "zstd" /\
          LET fits == OnTop(view, "zstd") /\ Under(view).nbytes = ChunkNbytes
          IN  \/ fits /\ view' = Under(view) /\ step' = "decompressed"
              \/ ~fits /\ view' = Garbled(ChunkNbytes) /\ step' = "decompressed"
              \/ ~fits /\ view' = view /\ step' = "RuntimeError"
     \/ recipe.compressor = "blosc" /\
          \/ OnTop(view, "blosc") /\ view' = Under(view) /\ step' = "decompressed"
          \/ view' = view /\ step' = "UnsupportedBlosc"
  /\ UNCHANGED <<meta, recipe>>

\* The shuffle is undone once, whatever came before it in the list.
Undo ==
  /\ step = "decompressed"
  /\ LET e == recipe.elementsize
         shuffled == OnTop(view, "shuffle") /\ Last(view.layers).elementsize = e
     IN  \/ e = 0 /\ view' = view /\ step' = "undone"
         \/ e # 0 /\ view.nbytes % e # 0 /\ view' = view /\ step' = "ValueError"
         \/ /\ e # 0 /\ view.nbytes % e = 0
            /\ view' = IF shuffled THEN Under(view) ELSE Garbled(view.nbytes)
            /\ step' = "undone"
  /\ UNCHANGED <<meta, recipe>>

Scatter ==
  /\ step = "undone"
  /\ step' = IF view.nbytes = ChunkNbytes THEN "returned" ELSE "ValueError"
  /\ UNCHANGED <<meta, recipe, view>>

-----------------------------------------------------------------------------
ChainInit == meta \in Metadata /\ recipe = NoRecipe /\ view = Garbled(0) /\ step = "metadata"
ChainNext == PlanFromMetadata \/ Fetch \/ Distill \/ Slice \/ Decompress \/ Undo \/ Scatter
ChainSpec == ChainInit /\ [][ChainNext]_chainVars

-----------------------------------------------------------------------------
(* Properties *)

\* The list that "Codec support (v1)" describes: bytes, then at most one shuffle,
\* one compressor and one checksum, and no codec behind the sharding codec.
Optional(names, cs, i) == i <= Len(cs) /\ cs[i].name \in names
Described(m) ==
  LET cs == ChunkCodecs(m)
      i1 == IF Optional({"shuffle"}, cs, 2) THEN 3 ELSE 2
      i2 == IF Optional(Compressors, cs, i1) THEN i1 + 1 ELSE i1
      i3 == IF Optional({"crc32c"}, cs, i2) THEN i2 + 1 ELSE i2
  IN  /\ PlanError(m) = "none" /\ Len(cs) = i3 - 1
      /\ cs[1].name = "bytes" /\ cs[1].endian = "little"
      /\ Sharded(m) => Len(m.codecs) = 1

DecodedChunk == [layers |-> <<[name |-> "bytes", endian |-> "little"]>>, nbytes |-> ChunkNbytes]

\* Such an array is read as it was written; only a blosc chunk can be refused,
\* for its own format.
OrdinaryChainsDecode ==
  Described(meta) =>
    /\ step = "returned" => view = DecodedChunk
    /\ step \notin {"NotImplementedError", "ValueError", "RuntimeError", "OSError"}
    /\ step = "UnsupportedBlosc" => recipe.compressor = "blosc"

\* "Anything else raises NotImplementedError": what is returned is the chunk
\* that was written, whatever the list of codecs.
ReturnsTheChunk == step = "returned" => view = DecodedChunk
=============================================================================
