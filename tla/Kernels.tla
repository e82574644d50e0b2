------------------------------- MODULE Kernels --------------------------------
(***************************************************************************)
(* The shuffle kernels of src/czarr/kernels: byteshuffle, byteunshuffle    *)
(* and bitunshuffle. A device buffer of n bytes is a function on Bits(n):  *)
(* bit t of byte i is at 8*i + t.                                          *)
(***************************************************************************)
EXTENDS Integers

Bits(n) == 0..(8 * n - 1)

\* A bit of memory that nothing wrote since cp.empty.
Junk == -1

\* The buffer of n bytes whose byte i is byte From(i) of buf.
TakeBytes(buf, n, From(_)) == [j \in Bits(n) |-> buf[8 * From(j \div 8) + (j % 8)]]

\* typesize planes of blocksize/typesize bytes per block, interleaved back.
\* reshape(nblocks, typesize, nelem) needs whole blocks of whole elements.
Reshapes(n, typesize, blocksize) == n % blocksize = 0 /\ blocksize % typesize = 0

ByteUnshuffle(packed, n, typesize, blocksize) ==
  LET nelem == blocksize \div typesize
  IN  TakeBytes(packed, n, LAMBDA i : (i \div blocksize) * blocksize
                              + (i % typesize) * nelem + ((i % blocksize) \div typesize))

ByteShuffle(raw, n, typesize, blocksize) ==
  LET nelem == blocksize \div typesize
  IN  TakeBytes(raw, n, LAMBDA i : (i \div blocksize) * blocksize
                           + (i % nelem) * typesize + ((i % blocksize) \div nelem))

\* bitunshuffle_into: one thread per element gathers its bits from the
\* 8*typesize bit-planes of its block; other bytes of out are not written.
WholeBitPlanes(typesize, blocksize) == (blocksize \div typesize) % 8 = 0

BitUnshuffle(scratch, n, typesize, blocksize) ==
  LET epb == blocksize \div typesize
      bpp == epb \div 8
      Gather(e, plane) ==
        scratch[8 * ((e \div epb) * blocksize + plane * bpp + ((e % epb) \div 8)) + (e % 8)]
  IN  [j \in Bits(n) |->
         LET e == j \div (8 * typesize)
         IN  IF e < n \div typesize THEN Gather(e, j % (8 * typesize)) ELSE Junk]
=============================================================================
