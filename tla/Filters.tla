------------------------------- MODULE Filters --------------------------------
(***************************************************************************)
(* The filters of src/czarr/codecs/filters (Shuffle, Delta, BitRound) and  *)
(* the settings that choose their backend: configure_gpu of                *)
(* src/czarr/__init__.py and the override map of codecs/_backend.py. One   *)
(* task writes a chunk through a filter and reads it back later; each time *)
(* a new instance of the filter is built from the settings then in force.  *)
(***************************************************************************)
EXTENDS Kernels, Sequences, SequencesExt

CONSTANTS
  Width,    \* bits of a dtype's words
  Mantissa, \* mantissa bits of a float of Width bits
  Narrow,   \* bits of Delta's astype
  Deltas,   \* arrays written through Delta
  Sizes,    \* byte lengths of chunks written through Shuffle
  Kwargs,   \* backend= of a writer
  Pins,     \* values of codec_backend_overrides
  MaxCalls, \* bound: calls of configure_gpu
  Unset     \* Python's None: no backend given, no astype, nothing stored yet

\* 2^n.
Pow2(n) == LET power[k \in 0..n] == IF k = 0 THEN 1 ELSE 2 * power[k - 1]
           IN  power[n]
Words == 0..(Pow2(Width) - 1)

ASSUME WidthAssumption == /\ Width \in Nat /\ Narrow \in 1..Width /\ Mantissa \in 1..(Width - 2)
                          /\ Deltas \subseteq Seq(Words) \ {<<>>} /\ Sizes \subseteq Nat
ASSUME PinsAssumption == \A o \in Pins : DOMAIN o \subseteq {"delta", "shuffle"}

\* A chunk and the filter it is written through.
Jobs ==
  [filter : {"delta"}, astype : {Unset, Narrow}, data : Deltas]
    \cup [filter : {"shuffle"}, elementsize : 1..3, size : Sizes]
    \cup [filter : {"bitround"}, keepbits : 0..(Mantissa + 1), word : Words]

VARIABLES
  overrides, \* _BACKEND_OVERRIDES: codec name -> backend
  config,    \* zarr.config: the call whose settings it holds, 0 for none
  tokens,    \* the _GpuConfigTokens of the with blocks that are open
  scopes,    \* history: per open block, the settings it asked for last
  calls,     \* history: the calls of configure_gpu
  job, stored, read, stage

settings == <<overrides, config, tokens, scopes, calls>>
chunk == <<job, stored, read, stage>>
filterVars == <<settings, chunk>>

Front1(s) == SubSeq(s, 1, Len(s) - 1)
Unpinned == <<>>

-----------------------------------------------------------------------------
(* Settings *)

Snapshot == [config |-> config, overrides |-> overrides]

\* configure_gpu: in a with statement its token waits for the block's end,
\* otherwise the token is dropped. What may raise, the RMM pool and the allocator,
\* comes before the overrides and the config are set, so that a call that raises
\* changes neither; the two are set one after the other, by one task.
Configure(scoped) ==
  /\ calls < MaxCalls /\ calls' = calls + 1
  /\ \E o \in Pins :
       /\ overrides' = o
       /\ config' = calls'
       /\ LET s == [config |-> calls', overrides |-> o]
          IN  scopes' = IF scoped THEN Append(scopes, s)
                        ELSE [scopes EXCEPT ![Len(scopes)] = s]
  /\ tokens' = IF scoped THEN Append(tokens, Snapshot) ELSE tokens
  /\ UNCHANGED chunk

\* __exit__
ClearedFault == [config |-> Last(tokens).config, overrides |-> Unpinned]
Restored == Last(tokens)
Exit ==
  /\ tokens # <<>>
  /\ config' = Restored.config
  /\ overrides' = Restored.overrides
  /\ tokens' = Front1(tokens) /\ scopes' = Front1(scopes)
  /\ UNCHANGED calls /\ UNCHANGED chunk

-----------------------------------------------------------------------------
(* Backends. BitRound has none. *)

Supported(filter) == IF filter = "delta" THEN {"cupy", "cccl"} ELSE {"cupy"}

\* resolve_backend_for_filter, called from __post_init__: kwarg, override, default.
Choice(filter, kwarg) ==
  IF kwarg # Unset THEN kwarg
  ELSE IF filter \in DOMAIN overrides THEN overrides[filter] ELSE "cupy"
Builds(filter, kwarg) == filter = "bitround" \/ Choice(filter, kwarg) \in Supported(filter)

-----------------------------------------------------------------------------
(* The transforms. Integers wrap at their width. *)

Wrap(x, w) == x % Pow2(w)
\* astype to a wider dtype: a narrow word is a signed one.
Widen(x, w) == IF w < Width /\ x >= Pow2(w - 1) THEN Wrap(x - Pow2(w), Width) ELSE x

StoredWidth(j) == IF j.astype = Unset THEN Width ELSE j.astype

DeltaEncode(j) ==
  [i \in DOMAIN j.data |->
     Wrap(IF i = 1 THEN j.data[1] ELSE j.data[i] - j.data[i - 1], StoredWidth(j))]

\* cp.cumsum adds the words up; make_inclusive_scan of a + b wraps every sum.
NativeScan(s) ==
  LET sum[i \in DOMAIN s] == IF i = 1 THEN s[1] ELSE Wrap(sum[i - 1] + s[i], Width)
  IN  sum
CumSum(s) ==
  LET sum[i \in 0..Len(s)] == IF i = 0 THEN 0 ELSE sum[i - 1] + s[i]
  IN  [i \in DOMAIN s |-> Wrap(sum[i], Width)]
NotWidenedFault(j, backend, s) == IF backend = "cccl" THEN NativeScan(s) ELSE CumSum(s)
DeltaDecode(j, backend, s) ==
  LET working == [i \in DOMAIN s |-> Widen(s[i], StoredWidth(j))]
  IN  IF backend = "cccl" THEN NativeScan(working) ELSE CumSum(working)

\* The whole chunk is one shuffle block.
Divides(j) == Reshapes(j.size, j.elementsize, j.size)
Plain(j) == [k \in Bits(j.size) |-> k]

\* _bitround_even: half, low_mask and lsb_step of the integer view's type.
BitRoundKernel(bits, shift) ==
  LET lowMask   == Pow2(shift) - 1
      half      == Pow2(shift - 1)
      low       == bits % Pow2(shift)
      lsb       == (bits \div Pow2(shift)) % 2
      roundUp   == low > half \/ (low = half /\ lsb # 0)
      truncated == bits - low
  IN  Wrap(truncated + (IF roundUp THEN lowMask + 1 ELSE 0), Width)
HalfAwayFault(j) ==
  LET shift == Mantissa - j.keepbits
  IN  IF shift <= 0 THEN j.word
      ELSE Wrap(((j.word + Pow2(shift - 1)) \div Pow2(shift)) * Pow2(shift), Width)
BitRound(j) ==
  LET shift == Mantissa - j.keepbits
  IN  IF shift <= 0 THEN j.word ELSE BitRoundKernel(j.word, shift)

Encoded(j) == CASE j.filter = "delta"    -> DeltaEncode(j)
                [] j.filter = "shuffle"  -> ByteShuffle(Plain(j), j.size, j.elementsize, j.size)
                [] j.filter = "bitround" -> BitRound(j)
Decoded(j, backend, s) ==
  CASE j.filter = "delta"    -> DeltaDecode(j, backend, s)
    [] j.filter = "shuffle"  -> ByteUnshuffle(s, j.size, j.elementsize, j.size)
    [] j.filter = "bitround" -> s

-----------------------------------------------------------------------------
\* The constructor or the shuffle's reshape raises.
Raises(kwarg) == \/ ~Builds(job.filter, kwarg)
                 \/ job.filter = "shuffle" /\ ~Divides(job)

\* The writer's instance encodes; metadata does not keep its backend.
Write ==
  /\ stage = "new"
  /\ \E kwarg \in Kwargs :
       IF Raises(kwarg) THEN stage' = "raised" /\ stored' = stored
       ELSE stage' = "written" /\ stored' = Encoded(job)
  /\ UNCHANGED <<job, read>> /\ UNCHANGED settings

\* from_dict builds the reader's instance without a backend.
Read ==
  /\ stage = "written"
  /\ IF Raises(Unset) THEN stage' = "raised" /\ read' = read
     ELSE stage' = "read" /\ read' = Decoded(job, Choice(job.filter, Unset), stored)
  /\ UNCHANGED <<job, stored>> /\ UNCHANGED settings

FilterInit ==
  /\ overrides = Unpinned /\ config = 0 /\ tokens = <<>> /\ calls = 0
  /\ scopes = <<[config |-> 0, overrides |-> Unpinned]>>
  /\ job \in Jobs
  /\ stored = Unset /\ read = Unset /\ stage = "new"

FilterNext == Configure(TRUE) \/ Configure(FALSE) \/ Exit \/ Write \/ Read

FilterSpec == FilterInit /\ [][FilterNext]_filterVars

-----------------------------------------------------------------------------
(* Properties *)

\* "On exit, restores the prior zarr.config and codec-backend overrides": with
\* blocks nest, and within a block the last call rules.
SettingsAreScoped == Snapshot = Last(scopes)

\* "All backends produce the same on-disk bitstream": whatever the backends of
\* the writer and of the reader, a shuffled chunk and a differenced one whose
\* differences fit the stored dtype are read back as they were written.
Fits(j) == \A i \in DOMAIN j.data :
             LET d == IF i = 1 THEN j.data[1] ELSE Wrap(j.data[i] - j.data[i - 1], Width)
             IN  StoredWidth(j) = Width \/ Widen(Wrap(d, StoredWidth(j)), StoredWidth(j)) = d
FiltersInvert ==
  stage = "read" =>
    /\ job.filter = "delta" /\ Fits(job) => read = job.data
    /\ job.filter = "shuffle" => read = Plain(job)

\* BitRound returns the nearest float with keepbits mantissa bits, the even one of
\* two, with the sign kept and infinity for what is too large; NaNs aside.
Sign == Pow2(Width - 1)
Infinity == Pow2(Mantissa) * (Pow2(Width - 1 - Mantissa) - 1)
Distance(a, b) == IF a > b THEN a - b ELSE b - a
Nearest(m, unit) ==
  LET near == {q \in 0..(m \div unit + 1) :
                 \A p \in 0..(m \div unit + 1) : Distance(q * unit, m) <= Distance(p * unit, m)}
  IN  unit * (CHOOSE q \in near : near = {q} \/ q % 2 = 0)
RoundsToNearestEven ==
  stage = "read" /\ job.filter = "bitround" =>
    LET m    == job.word % Sign
        keep == IF job.keepbits < Mantissa THEN job.keepbits ELSE Mantissa
    IN  m <= Infinity => read = job.word - m + Nearest(m, Pow2(Mantissa - keep))
=============================================================================
