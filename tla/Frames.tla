-------------------------------- MODULE Frames --------------------------------
(***************************************************************************)
(* What the compressors of src/czarr/codecs write and read: the bitstream  *)
(* and the frame of each subclass of CudaBytesBytesCodec, the size of the  *)
(* buffer that _batch_sync decodes into, and the configuration kept in the *)
(* metadata. One chunk is written by czarr or by the CPU codec of the same *)
(* name, and read by either. Bytes are marked with what they are made of.  *)
(* The two paths of _batch_sync, over device buffers and over host bytes,  *)
(* strip the same bytes, and are one here.                                 *)
(***************************************************************************)
EXTENDS Naturals, Sequences, SequencesExt

CONSTANTS
  SpecNbytes, \* bytes of a chunk of the array's dtype and shape
  BodyNbytes, \* bytes a chunk compresses to
  Befores     \* what happens to a chunk before it is compressed

ASSUME FramesAssumption ==
  /\ SpecNbytes \in Nat /\ BodyNbytes \in Nat \ {0}
  /\ Befores \subseteq {"none", "shuffle", "astype"}

VARIABLES
  trip,   \* the codec, and what happens before it
  entry,  \* the codec's entry in the metadata
  object, \* the bytes in the store
  result, \* the chunk as it was read
  at      \* "new", "written", "read", or how the read raised

frameVars == <<trip, entry, object, result, at>>

Interoperable == {"zstd", "lz4", "gzip", "zlib"}
FrameCodecs == Interoperable \cup {"none", "native"}

-----------------------------------------------------------------------------
(* Bytes *)

Chunk(n) == [j \in 1..n |-> <<"data", j>>]
\* Four bytes that hold v, the least significant first.
Word(what, v) == [j \in 1..4 |-> <<what, v, j>>]
Leading(what, n) == [j \in 1..n |-> <<what, j>>]

\* The bytes the compressor is given: the chunk's, shuffled ones, or those of the
\* narrower dtype that a filter's astype asks for.
Given(before) ==
  CASE before = "none"    -> Chunk(SpecNbytes)
    [] before = "shuffle" -> Reverse(Chunk(SpecNbytes))
    [] before = "astype"  -> Chunk(SpecNbytes \div 2)

-----------------------------------------------------------------------------
(* The codecs: _algorithm, _bitstream_kind, _frame_strip_head and _tail *)

Algorithm(c) == IF c \in {"gzip", "zlib"} THEN "deflate" ELSE c
BitstreamKind(c) == CASE c = "lz4"    -> "WITH_UNCOMPRESSED_SIZE"
                      [] c = "native" -> "NVCOMP_NATIVE"
                      [] OTHER        -> "RAW"
StripHead(c) == CASE c = "gzip" -> 10 [] c = "zlib" -> 2 [] OTHER -> 0
StripTail(c) == CASE c = "gzip" -> 8 [] c = "zlib" -> 4 [] OTHER -> 0

\* nvcomp.Codec.encode: the algorithm's own bitstream, a size in front of it, or
\* the chunks of nvCOMP's own format.
Body(c, bytes) == [j \in 1..BodyNbytes |-> <<Algorithm(c), bytes, j>>]
Nvcomp(c, bytes) ==
  CASE BitstreamKind(c) = "RAW"                    -> Body(c, bytes)
    [] BitstreamKind(c) = "WITH_UNCOMPRESSED_SIZE" -> Word("size", Len(bytes)) \o Body(c, bytes)
    [] BitstreamKind(c) = "NVCOMP_NATIVE"          -> Leading("nvcomp", 4) \o Body(c, bytes)

\* _wrap_frame: struct.pack("<II", crc, isize) and struct.pack(">I", adler).
LittleEndianFault(c, compressed, original) ==
  IF c = "zlib" THEN Leading("zlib", 2) \o compressed \o Word("adler32", original)
  ELSE compressed
WrapFrame(c, compressed, original) ==
  CASE c = "gzip" -> Leading("gzip", 10) \o compressed
                       \o Word("crc32", original) \o Word("size", Len(original))
    [] c = "zlib" -> Leading("zlib", 2) \o compressed \o Reverse(Word("adler32", original))
    [] OTHER      -> compressed

\* _unwrap_frame, and the slice of the device path.
UnwrapFrame(c, bytes) == SubSeq(bytes, StripHead(c) + 1, Len(bytes) - StripTail(c))

\* The format of the CPU codec: RFC 1952, RFC 1950, RFC 8478, numcodecs.LZ4.
Standard(c, bytes) ==
  CASE c = "gzip" -> Leading("gzip", 10) \o Body(c, bytes)
                       \o Word("crc32", bytes) \o Word("size", Len(bytes))
    [] c = "zlib" -> Leading("zlib", 2) \o Body(c, bytes) \o Reverse(Word("adler32", bytes))
    [] c = "lz4"  -> Word("size", Len(bytes)) \o Body(c, bytes)
    [] c = "zstd" -> Body(c, bytes)

-----------------------------------------------------------------------------
(* to_dict and from_dict *)

\* The fields of CudaBytesBytesCodec that are compared, and those of the subclass.
BaseFields == {"chunk_size", "checksum_policy", "device_id"}
Schema(c) == CASE c = "zstd"             -> {"level", "checksum"}
               [] c = "lz4"              -> {"acceleration"}
               [] c \in {"gzip", "zlib"} -> {"level"}
               [] OTHER                  -> {"algorithm_type"}
ToDict(c) == IF c = "native" THEN BaseFields \cup Schema(c) ELSE Schema(c)

\* The configuration of an entry is nested in it, flat beside its name, or no mapping.
EntryForms == {"nested", "flat", "malformed"}

\* codec_config takes the configuration or, without one, the entry's other keys.
CodecConfig(e) == IF e.form = "flat" THEN e.keys \ {"name"} ELSE e.keys

\* It raises for what is no mapping. LZ4 passes on every key it finds, and raises
\* for an unknown one; the others drop those.
FromDict(c, e) ==
  /\ e.form # "malformed"
  /\ c = "lz4" => CodecConfig(e) \subseteq Schema(c) \cup BaseFields \cup {"cuda_stream"}

-----------------------------------------------------------------------------
(* Writing *)

\* _batch_sync("encode"): a frame is added only by a codec that strips one.
EncodedFrame(c, bytes) ==
  IF c = "none" THEN bytes
  ELSE IF StripHead(c) + StripTail(c) = 0 THEN Nvcomp(c, bytes)
  ELSE WrapFrame(c, Nvcomp(c, bytes), bytes)

EncodeGpu ==
  /\ at = "new"
  /\ object' = EncodedFrame(trip.codec, Given(trip.before))
  /\ entry' = [form |-> "nested", keys |-> ToDict(trip.codec)]
  /\ at' = "written"
  /\ UNCHANGED <<trip, result>>

\* Another writer may put its keys beside the name, leak one of its own, or write
\* an entry that is malformed.
EncodeCpu ==
  /\ at = "new" /\ trip.codec \in Interoperable
  /\ object' = Standard(trip.codec, Given(trip.before))
  /\ \E form \in EntryForms, leaks \in SUBSET {"backend"} :
       entry' = [form |-> form,
                 keys |-> Schema(trip.codec) \cup leaks \cup (IF form = "flat" THEN {"name"} ELSE {})]
  /\ at' = "written"
  /\ UNCHANGED <<trip, result>>

-----------------------------------------------------------------------------
(* Reading *)

Unwritten == <<"unwritten">>
Padded(bytes, n) == [j \in 1..n |-> IF j <= Len(bytes) THEN bytes[j] ELSE Unwritten]

\* Compressed bytes of the codec's format hold what was compressed.
Holds(c, bytes) ==
  /\ bytes # <<>> /\ Last(bytes)[1] = Algorithm(c)
  /\ bytes = Nvcomp(c, Last(bytes)[2])

\* zarr undoes the codecs before the compressor: it reshapes the bytes to the spec.
Undone(bytes) == IF trip.before = "shuffle" THEN Reverse(bytes) ELSE bytes
Finish(bytes) ==
  IF Len(bytes) = SpecNbytes THEN result' = Undone(bytes) /\ at' = "read"
  ELSE result' = result /\ at' = "zarr"

\* nvcomp.Codec.decode into buffers of _expected_decoded_bytes: for other bytes, or
\* a chunk of another size, it raises or leaves the buffer partly unwritten.
Decompressed(c, bytes) ==
  LET content == IF Holds(c, bytes) THEN Last(bytes)[2] ELSE <<>>
  IN  \/ Finish(Padded(content, SpecNbytes))
      \/ Len(content) # SpecNbytes /\ at' = "nvcomp" /\ result' = result

\* The spec is the array's: no filter of czarr has a resolve_metadata.
DecodeGpu ==
  /\ at = "written"
  /\ IF ~FromDict(trip.codec, entry) THEN at' = "TypeError" /\ result' = result
     ELSE IF trip.codec = "none" THEN Finish(object)
     ELSE Decompressed(trip.codec, UnwrapFrame(trip.codec, object))
  /\ UNCHANGED <<trip, entry, object>>

\* zarr's and numcodecs' codecs know their own keys, and check what they read.
DecodeCpu ==
  /\ at = "written" /\ trip.codec \in Interoperable
  /\ entry.form = "nested" /\ "backend" \notin entry.keys
  /\ IF entry.keys \subseteq Schema(trip.codec) /\ object = Standard(trip.codec, Given(trip.before))
     THEN result' = Chunk(SpecNbytes) /\ at' = "read"
     ELSE result' = result /\ at' = "cpu"
  /\ UNCHANGED <<trip, entry, object>>

-----------------------------------------------------------------------------
FrameInit ==
  /\ trip \in [codec : FrameCodecs, before : Befores]
  /\ entry = [form |-> "nested", keys |-> {}]
  /\ object = <<>> /\ result = <<>> /\ at = "new"

FrameNext == EncodeGpu \/ EncodeCpu \/ DecodeGpu \/ DecodeCpu

FrameSpec == FrameInit /\ [][FrameNext]_frameVars

-----------------------------------------------------------------------------
(* Properties *)

\* "Compatible with zarr's GzipCodec", "with libzstd / numcodecs.Zstd", "with
\* numcodecs.LZ4", "with numcodecs.Zlib": a chunk written by either side is read by
\* either as it was written. A leaked key stops LZ4; "malformed input should fail
\* loudly", and nothing else raises.
ReadsBack ==
  /\ at = "read" => result = Chunk(SpecNbytes) /\ entry.form # "malformed"
  /\ at = "TypeError" => \/ entry.form = "malformed"
                         \/ trip.codec = "lz4" /\ "backend" \in entry.keys
  /\ at \notin {"nvcomp", "zarr", "cpu"}
=============================================================================
