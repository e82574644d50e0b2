-------------------------------- MODULE Blosc ---------------------------------
(***************************************************************************)
(* Blosc._decode_sync of src/czarr/codecs/compressors/blosc.py and         *)
(* decode_blosc_batch of src/czarr/lowlevel/blosc.py: a batch of chunks    *)
(* that a CPU compressed with blosc is decoded in sub-batches, block by    *)
(* block with zstd into a scratch buffer and then unshuffled.              *)
(***************************************************************************)
EXTENDS Kernels, Sequences, SequencesExt, Ascending

CONSTANTS
  Layouts,          \* the layouts a batch's chunks may have
  MaxItems,         \* bound: chunks of one batch
  MaxChunksPerCall, \* _MAX_CHUNKS_PER_CALL
  Tails,            \* BOOLEAN: chunks may end in a short block
  None

\* c-blosc's blocks hold whole elements, and compressed ones are shorter than a block.
Layout == [nbytes : Nat \ {0}, blocksize : Nat \ {0, 1}, typesize : Nat \ {0},
           shuffle : {"bit", "byte", "none"}]
ASSUME LayoutAssumption ==
  \A L \in Layouts : L \in Layout /\ L.blocksize % L.typesize = 0
ASSUME CallAssumption == MaxItems \in Nat /\ MaxChunksPerCall \in Nat \ {0} /\ Tails \in BOOLEAN

\* What is special about a chunk: nothing, or its flags, or its last block.
Forms == {"plain", "not zstd", "memcpyed", "raw block", "RLE block"}

VARIABLES
  items,   \* the batch: None or the form of a chunk; all chunks have layout
  layout,
  decoded, \* what the sub-batches so far returned
  out,     \* the batch's result
  phase

bloscVars == <<items, layout, decoded, out, phase>>

CeilDiv(a, b) == (a + b - 1) \div b
NBlocks(L) == CeilDiv(L.nbytes, L.blocksize)

\* The uncompressed bytes of block b: all blocks but the last are full.
BlockBytes(L, b) == IF (b + 1) * L.blocksize <= L.nbytes THEN L.blocksize
                    ELSE L.nbytes - b * L.blocksize

\* Bit j of the chunk at position i of the batch, before it was compressed.
Original(i) == [j \in Bits(layout.nbytes) |-> 8 * layout.nbytes * i + j]

\* c-blosc's shuffles of a block of m bytes: at bit j of the block, the bit of
\* the original block that is stored there.
BitPlanes(L, m) ==
  LET bpp == (m \div L.typesize) \div 8
  IN  [j \in Bits(m) |-> LET byte == j \div 8
                             e    == 8 * (byte % bpp) + (j % 8)
                         IN  (8 * L.typesize * e) + (byte \div bpp)]
StoredAt(L, m) ==
  LET asIs == [j \in Bits(m) |-> j]
  IN  CASE L.shuffle = "byte" -> ByteShuffle(asIs, m, L.typesize, m)
        [] L.shuffle = "bit" /\ (m \div L.typesize) % 8 = 0 -> BitPlanes(L, m)
        [] OTHER -> asIs

-----------------------------------------------------------------------------
\* The size prefix of block b: the compressed bytes, the block's length if it is
\* stored raw, and not positive for a run.
SizePrefix(form, L, b) ==
  CASE b = NBlocks(L) - 1 /\ form = "raw block" -> BlockBytes(L, b)
    [] b = NBlocks(L) - 1 /\ form = "RLE block" -> 0
    [] OTHER -> 1

\* _parse_header and the check of the prefixes.
Parses(form) == form \notin {"not zstd", "memcpyed"}
TinyPrefixFault(form, L) == \A b \in 0..(NBlocks(L) - 1) :
                           SizePrefix(form, L, b) > 1 /\ SizePrefix(form, L, b) < L.blocksize
PrefixesPass(form, L) == \A b \in 0..(NBlocks(L) - 1) :
                           SizePrefix(form, L, b) > 0 /\ SizePrefix(form, L, b) < L.blocksize

\* nvcompBatchedZstdDecompressAsync reports a block that is not zstd.
StatusesPass(form) == form = "plain"

\* The unshuffle kernels' own checks, on the scratch of nblocks * blocksize bytes.
Unshuffles(L) ==
  CASE L.shuffle = "bit"  -> WholeBitPlanes(L.typesize, L.blocksize)
    [] L.shuffle = "byte" -> Reshapes(NBlocks(L) * L.blocksize, L.typesize, L.blocksize)
    [] OTHER -> TRUE

\* The scratch after the zstd call: block b at b * blocksize.
Scratch(i, L) ==
  [j \in Bits(NBlocks(L) * L.blocksize) |->
     LET b == j \div (8 * L.blocksize)
         o == j % (8 * L.blocksize)
     IN  IF o < 8 * BlockBytes(L, b)
         THEN Original(i)[8 * b * L.blocksize + StoredAt(L, BlockBytes(L, b))[o]]
         ELSE Junk]

First(buf, n) == [j \in Bits(n) |-> buf[j]]
Unshuffled(scr, L) ==
  CASE L.shuffle = "bit"  -> BitUnshuffle(scr, L.nbytes, L.typesize, L.blocksize)
    [] L.shuffle = "byte" -> First(ByteUnshuffle(scr, NBlocks(L) * L.blocksize,
                                                 L.typesize, L.blocksize), L.nbytes)
    [] OTHER -> First(scr, L.nbytes)

-----------------------------------------------------------------------------
\* _decode_sync drops the missing chunks and remembers where the others go.
Idx == InOrder({i \in DOMAIN items : items[i] # None}, Len(items))

\* itertools.batched: the next sub-batch, positions in items.
Taken == Len(decoded)
Upto(n) == IF n < Len(Idx) THEN n ELSE Len(Idx)
Sub == SubSeq(Idx, Taken + 1, Upto(Taken + MaxChunksPerCall))

BloscInit ==
  /\ items \in UNION {[1..n -> Forms \cup {None}] : n \in 0..MaxItems}
  /\ layout \in {L \in Layouts : Tails \/ L.nbytes % L.blocksize = 0}
  /\ decoded = <<>> /\ out = <<>>
  /\ phase = "decode"

Accepts(form) == /\ Parses(form) /\ PrefixesPass(form, layout)
                 /\ Unshuffles(layout) /\ StatusesPass(form)

\* _decode_subbatch, when every check passes.
DecodeSub ==
  /\ phase = "decode" /\ Taken < Len(Idx)
  /\ \A p \in DOMAIN Sub : Accepts(items[Sub[p]])
  /\ decoded' = decoded \o [p \in DOMAIN Sub |-> Unshuffled(Scratch(Sub[p], layout), layout)]
  /\ UNCHANGED <<items, layout, out, phase>>

\* One check of one chunk fails: the batch has no result.
RaiseSub ==
  /\ phase = "decode" /\ Taken < Len(Idx)
  /\ \E p \in DOMAIN Sub : ~Accepts(items[Sub[p]])
  /\ phase' = "raised"
  /\ UNCHANGED <<items, layout, decoded, out>>

\* The results, at the places their chunks came from.
PackedFault == [i \in DOMAIN items |->
                 IF i \in DOMAIN decoded THEN decoded[i] ELSE None]
InPlace == [i \in DOMAIN items |->
             IF items[i] = None THEN None
             ELSE decoded[CHOOSE p \in DOMAIN Idx : Idx[p] = i]]

Return ==
  /\ phase = "decode" /\ Taken = Len(Idx)
  /\ out' = InPlace
  /\ phase' = "returned"
  /\ UNCHANGED <<items, layout, decoded>>

BloscNext == DecodeSub \/ RaiseSub \/ Return
BloscSpec == BloscInit /\ [][BloscNext]_bloscVars

-----------------------------------------------------------------------------
(* Properties *)

\* "Raw (memcpy) / RLE-special blocks, non-zstd sub-codecs, and bitshuffle tails
\* raise": what a decode returns is, chunk by chunk, what the CPU compressed.
DecodesOrRaises ==
  phase = "returned" =>
    \A i \in DOMAIN items :
      out[i] = IF items[i] = None THEN None ELSE Original(i)

\* A batch of zstd chunks whose blocks are compressed and whose bit-planes are
\* whole bytes is never refused.
RaisesOnlyUnsupported ==
  phase = "raised" =>
    \/ \E i \in DOMAIN items : items[i] \notin {None, "plain"}
    \/ layout.shuffle = "bit" /\ ~WholeBitPlanes(layout.typesize, layout.blocksize)
=============================================================================
