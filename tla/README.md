# A TLA+ model of czarr

czarr reads and writes Zarr v3 arrays between local files and GPU memory: cuFile
moves the bytes, nvCOMP decompresses them, cupy holds them. This directory models
the parts of it whose correctness depends on the order in which threads, files
and library calls interleave, the arithmetic that decides which bytes go where,
and the formats that czarr shares with other writers. Paths below are relative
to `src/src/czarr/` unless they say otherwise.

## 1. The system

| Component | Source | State it keeps | Operations | What makes it correct |
|---|---|---|---|---|
| cuFile handle cache | `cufile.py` 151-369 | `_handle_cache` (LRU by path), `refs`/`dead`/`sig` of each `_CachedHandle`, `_handle_cache_lock` | `read_into`, `read_into_many`, `clear_handle_cache` | a descriptor is open while a read holds it, closed once and eventually, bounded in number, and never of a file older than the request's stat |
| cuFile driver | `cufile.py` 34-130 | `_opened`, `_lock`, the atexit hook, libcufile's knobs | `ensure_driver_open`, `is_available`, `configure`, `_close`, `set_poll_mode` | opened once; knobs set before it opens are in force; no handle outlives it |
| Buffer registration | `cufile.py` 380-420 | `_registered_bufs`, `_registration_lock` | `ensure_buf_registered`, `deregister_buf` | the dictionary agrees with libcufile, and a buffer is registered for at least the size asked for |
| Coalescing | `lowlevel/coalesce.py` | none | `coalesce_ranges` | each request in one window at the right slice; cap and gap kept |
| GPU local store | `storage/gpu_local.py` | the files | `get`, `set`, the inherited `delete` | a get after a set returns its bytes; a racing get is bounded |
| Read planning | `lowlevel/plan.py` | shard indexes of a plan | `plan_from_metadata`, `normalize_selection`, `selected_units`, `ranges` | numpy's indexing; each selected unit is read once; what cannot be served is refused |
| Plan cache | `lowlevel/plan.py` 327-375 | `_plan_cache` (LRU by root) | `open_plan`, `clear_plan_cache` | no stale plan; the least recently used leaves |
| Batched reads | `lowlevel/io.py` | none | `read` | every buffer is complete or the read raises |
| Decode and scatter | `lowlevel/decode.py` | `_CODECS` | `_Chain`, `decode`, `read_array` | a chunk is decoded by the inverse of what wrote it; every element of the result is written once, or filled |
| Array, AsyncArray | `core/array.py` | a plan | `retrieve_array_subset`, `retrieve_chunk`, `retrieve_encoded_chunk` | the same, per chunk box; AsyncArray does it in worker threads |
| CudaZarrArray | `array.py` | the memo `_czarr_fast_array` | `__getitem__`, `__setitem__` | the fast path never answers from stale metadata or shard indexes |
| nvCOMP allocator hook | `alloc.py` | `_registered`, `_lock` | `register_nvcomp_allocator`, `use_rmm_pool` | installed before any codec; a custom one stays |
| nvCOMP codecs | `codecs/base.py` | a codec per thread and instance | `encode`, `decode` | no codec in two threads; results at their inputs' positions |
| Compressors | `codecs/compressors/` | none | the frame of each codec, `to_dict`/`from_dict` | what czarr writes the CPU codecs read, and the reverse |
| Sharding codec | `codecs/sharding.py` | none | `_coalesced_chunk_fetch` | each chunk gets its slice of the fused reads |
| Configuration | `__init__.py`, `codecs/_backend.py` | zarr's config, `_BACKEND_OVERRIDES` | `configure_gpu` and its token | leaving a block restores what entering it found |
| Filters | `codecs/filters/`, `codecs/_backends/` | none that outlives a call | `encode`, `decode` | decode inverts encode whatever backend either uses; BitRound rounds half to even |
| Kernels | `kernels/` | compiled kernels | `byteshuffle`, `byteunshuffle`, `bitunshuffle_into` | inverses of c-blosc's shuffles |
| Blosc | `codecs/compressors/blosc.py`, `lowlevel/blosc.py` | none | `_decode_sync`, `decode_blosc_batch` | every chunk is decoded exactly or the batch raises; sub-batches keep the order |
| Benchmarks | `bench/` | the results file | `run`, `sweep`, `--isolate` | a wrong result is never timed and reported; a failing point costs no other |
| Buffers, pipeline, tracing | `core/buffer.py`, `codecs/_nvcomp_buffer.py`, `pipeline.py`, `_nvtx.py` | none | | |

**Interactions.** zarr's pipeline calls the store (`get`/`set` in worker threads
through `asyncio.to_thread`) and the codecs (`encode`/`decode`, again in worker
threads). The store calls `read_into` and `write_from`; the explicit tier
(`Array`, `CudaZarrArray`) goes plan -> coalesce -> `read_into_many` -> decode
without zarr. They share, process wide, the handle cache, the plan cache, the
driver, the allocator and `_CODECS`; they share with other processes the files.

**What is hard.** Nearly every cache is validated by a `stat` made before a lock
and used after it. The file is opened later still, by name. A shard's index
and its data are read by separate calls. Writers truncate in place. Entries are
evicted while reads are in flight. Fallible calls sit between acquiring and
releasing. Three checks (`_opened`, `_registered`, the size of a registered
buffer) are made outside the lock that guards what they are about. Result
buffers start uninitialised, so a miscounted chunk shows garbage and not zeros.
`PROJECT.json` lists these hazards by line, with the properties about each.

## 2. The modules

| Module | Models | State and actions |
|---|---|---|
| `FileReads` | nothing of the code: what `read_into_many` promises, with no cache in sight | a request is asked, statted, served by a file its path named since, let go |
| `HandleCache` | the handle cache, with the driver's open and exit hook, and writers of the files; implements `FileReads` (`ServesFiles`) | `cached`+`older` are `_handle_cache` and its order, `entry` the objects, `hold` the local `entries` of a call. A critical section is one step (`Hit`, `Open`, `OpenFails`, `Release`, `Clear`); `os.stat` is a step before it. `read_into` is a one-slot call of `read_into_many`. `named` is history. |
| `CufileSetup` | `ensure_driver_open`, `is_available`, `configure`, and the registration of buffers | the two looks, the lock, the open, the flag are steps; `configure` sets one knob per step; `_registered_bufs` is `sizes`, what libcufile has is `driver`, and `buf_register` may raise |
| `Coalesce` | `coalesce_ranges` | one step per loop iteration: `PassThrough`, `OpenWindow`, `Fuse`, `Split`; `Finish` is the last `_emit`. Any list of ranges may be the argument. |
| `ShardFetch` (extends `Coalesce`) | `_decode_partial_single` and `_coalesced_chunk_fetch` | chunk i is request i. Index read, coalescing, each `Get` of the gather and `Assemble` are steps; the shard may be deleted or replaced between them. |
| `GpuLocalStore` | `get` and `set` of one key by several threads, and deletion | stat, open and each piece of a read or a write are steps; `Resolve` is `_resolve_byte_range`, `Requested` what a byte range means. |
| `CudaArray` | the memo, the plans it builds and their shard indexes, `__getitem__` with its fallback, `__setitem__`, `resize` | a shard file is the number of the write it comes from. Reading the metadata, looking into the memo, building the plan, index stat, index fetch and data read are six steps; the fallback to zarr is taken before any I/O for a selection or an array without plan, and after it for a codec that only `_Chain` refuses. `resize` deletes each shard outside the new shape, then replaces the metadata. `clean`, `quiet`, `settled`, `trusted` are history. |
| `PlanCache` | `open_plan(cached=True)` by several threads | stat, lookup, parse and store are four steps; the cache is a sequence, oldest first. |
| `ReadPlan` | `normalize_selection` to the scattered result, with files that are cut or removed under the read | a byte is `<<unit, k>>`; a store is the size of each file and the file and place of each unit, anywhere but on one another; `Plan` may fuse units in every way, because which neighbours fuse is Coalesce's subject; `Reference` says what the result must be. |
| `Ascending` | the loops over a set of numbers in ascending order that `ShardFetch`, `NvcompCodecs` and `Blosc` have | no state; `InOrder` |
| `DecodeChain` | `plan_from_metadata`'s checks, `_Chain`'s recipe and its use in `_decode_sync` | what a chunk holds is the list of codecs applied to it, so that an inverse in the wrong order shows |
| `Alloc` | `register_nvcomp_allocator` | both checks, the lock, the set and the flag are steps. |
| `NvcompCodecs` (extends `Alloc`) | construction of codecs, their per-thread slot, `_batch_sync`, and `_nvcomp_codec` of the explicit tier | `local` is `_thread_local.codec`, `shared` is `_CODECS`, which every thread in `lowlevel.decode` uses. |
| `Frames` | bitstream, header and trailer of zstd, lz4, gzip, zlib and a native codec, the size `_batch_sync` decodes into, `to_dict`/`from_dict` | one chunk written by czarr or a CPU codec and read by either, from metadata that is nested, flat or malformed; bytes are marked with what they are made of |
| `Kernels` | the shuffle kernels, as functions on the bits of a buffer | no state; memory nothing wrote reads as `Junk` |
| `Blosc` (extends `Kernels`) | `Blosc._decode_sync`, `decode_blosc_batch`, `_decode_subbatch` | one step per sub-batch, decoded or refused (`DecodeSub`, `RaiseSub`); `Return` puts the results in place. |
| `Filters` (extends `Kernels`) | Shuffle, Delta, BitRound, the choice of their backend, `configure_gpu` | `Configure`, `Exit` change the settings between a chunk's `Write` and its `Read`; words are integers of `Width` bits, floats their integer view |
| `Bench` | one `run` or `sweep`, in this process or isolated | a point's reference, gate, body and row are steps; `configured` are the processes whose codecs `configure_gpu` has changed. A result is right, wrong, or wrong only beyond the 4 KiB that read_path compares ("late") |
| `MC*` | small instances | definitions for the configurations and symmetry sets |
| `*_proofs` | proofs, section 4 | |

Three of the MC modules join parts that share no state, and let one of them run
in a behaviour while the others have not begun: `MCStorage` (`GpuLocalStore`,
`PlanCache`), `MCRuntime` (`CudaArray`, `NvcompCodecs`, `CufileSetup`, `Bench`) and
`MCGpuCodecs` (`Filters`, `Blosc`, `Frames`, `DecodeChain`). TLC visits the states of
each and not their product, and a run answers for each part what a run of its
own would.

`map` in `PROJECT.json` gives the lines each definition stands for. Definitions
whose name ends in `Fault` are variants of the definition after them that are
never part of a specification; each stands for a plausible mistake in the code
and makes one property fail. What nvCOMP, c-blosc, zarr and the RFCs do is in
the definitions `map` marks external.

## 3. The runs

| Run | Instance | What it shows |
|---|---|---|
| `handle_safety` | 2 paths, 2 threads of 2 slots, cap 1, renames and removals, open failures, clear, exit | reference counts, no close under a reader, no leak, the bound on descriptors, nothing registered after the driver closed |
| `handle_live` | 1 path, 2 threads, 3 inodes, 2 writes, cap 1 | the cache implements `FileReads`; every call returns and every retired entry is closed |
| `shard_fetch` | every index of up to 3 wanted chunks, offsets 0-5, lengths 0, 1, 2, 5, cap 4, gap 1; one deletion or replacement by a file of 0 or 4 bytes, or both | each request is in one window, gaps are bounded, and a window is split only where a bound says so; each chunk gets its own bytes, and is left out only if its own window's get met no shard |
| `storage` | store: 1 reader and 2 writers, 3 values of 0, 1 and 3 bytes, 3 sets, 2 files, deletions, every byte range up to 3. Plans: 2 threads, 3 roots, cap 2, 3 files, 3 plans | quiet gets are exact, racing gets return bytes held during the call, None only for an absent key; no stale plan, and the cache holds the most recent roots |
| `store_empty` (violation) | an existing key is set to `b""` | the old bytes stay |
| `array_bypass` (violation) | one thread writes through an inherited method | the next read uses a stale index |
| `read_exact` | arrays of 0-2 axes, plain and sharded; every tuple of up to 2 items with bounds past both ends; every subset of present chunks, shard orders and gaps; files one byte short, cut or removed | selection and reads are exact, or fail |
| `runtime` | array: 2 threads, 2 shards, 2 metadata objects, 2 plans, a first write before the array is opened and one after, by `__setitem__` or not, resizes to any set of shards, codecs that are served, refused at decode or never planned. Codecs: 3 threads, any number of them in `lowlevel.decode`, 1 instance, a custom allocator, batches with None first, in the middle, alone. cuFile: 2 threads, a pointer of 2 sizes, two lists of knobs, one with an unknown name, the driver switched off or failing to open. Benchmarks: 3 points of every arm, any of them decoded wrongly or failing | reads of clean shards return the last write, and settled reads use the current metadata; codecs of the pipeline are thread-local and come after an allocator, a custom one stays, chunks keep their positions; the driver opens once, undisturbed knobs are in force, undisturbed registrations hold; a result that its gate can tell is wrong is in no row, an isolated sweep is complete and writes no row twice |
| `gpu_codecs` | words of 6 bits with 3 of mantissa, Delta arrays of up to 3 words, shuffled chunks of 4 and 6 bytes, 3 calls of `configure_gpu` nested in every way; batches of up to 3 blosc chunks in sub-batches of 2, blocks of 8 and 16 bytes, every kind of chunk the header can announce; each compressor behind nothing or a shuffle, its configuration nested or flat; lists of up to 4 codecs, in a shard or not, with index trailers, and metadata that must be refused | settings are restored in the order of the blocks; filters invert under every mix of backends; BitRound rounds to the nearest, ties to even; blosc decodes exactly or raises, and raises only for what is documented as unsupported; czarr and the CPU codecs read each other; the documented lists of codecs are decoded to what was written |
| `blosc_tails` (violation) | a chunk with a short last block | it is decoded wrong and returned |
| `other_chains` (violation) | lists of codecs in other orders than the documented one | a checksum before the shuffle is accepted, and the chunk returned garbled |
| `narrow_filters` (violation) | a filter with a narrower `astype` | its chunks cannot be read |

**Bounds.** A cap of 1 makes every second path evict, with entries held by the
other thread. Two slots per call give a failure after a success. Three roots
against a cap of two make eviction choose. In `shard_fetch`, cap 4 and length 5
give oversized ranges, and two short ranges and a gap of 1 fall on either side
of both bounds; three ranges are an open window, the one that joins and the one
that splits it, and three windows are enough for an empty one before and after one
with bytes. The arrays of `read_exact` have a partial chunk and a partial
shard on each axis. Two writers are what it takes to mix two sets in one file;
a second file is what it takes to read across a deletion. Two sizes
on one pointer give a call that trusts a registration and one that renews it.
Three benchmark points give one before and one after the failing one. In
`gpu_codecs`, words of 6 bits reach every case of rounding: tie, carry within the
mantissa, carry into the exponent, overflow to infinity, both signs. A stored
width of 2 bits under a width of 6 wraps in one addition. Two blocks of 8 bytes with
2-byte elements interleave planes and elements, and `(8 / 2) % 8` is the bit-plane
case the kernel refuses. Lists of four codecs hold each optional codec of the
documented list once, every order of two of them, and repetitions.
`MaxWrites`, `MaxFiles`, `MaxSets`, `MaxPlans`, `MaxMeta`, `MaxCodecs` and `MaxCalls`
bound counters that only grow. Where a run says `CHECK_DEADLOCK FALSE`, the program is a
terminating function or command (`ShardFetch`, `ReadPlan`, `Filters`, `Blosc`, `Frames`,
`DecodeChain`, `Bench`) or such a bound ends the behaviour (`CudaArray`, `NvcompCodecs`).

**Fairness.** Only `handle_live` assumes any: weak fairness of each thread's own
steps once a call has begun. The code has no wait but a mutex whose sections end,
and stat, open and read return. Calls need never begin, writers need never
act, and no fairness is put on the exit hook.

**Restrictions of the passing runs**; those given as a name are constants:
* `handle_live` and the plan part of `storage` give every write its own modification
  time and move no file over another. A file moved away and back between the stat and
  the open pairs one file's signature with the other's descriptor or plan. The
  code's comments do not claim otherwise, but `os.rename` keeps inode and mtime.
* `Daemons = {}`: the interpreter joins the callers before exit hooks run. A daemon thread
  in a read keeps a registered handle past `driver_close`.
* `CufileSetup`: `QuietConfigureIsInForce` speaks of `configure` calls that no opening of
  the driver overlaps: `configure` looks at `_opened` without the lock, and the
  driver may open between that look and a setter, which libcufile then ignores.
  One call of `configure` runs at a time. `QuietBuffersAreRegistered` speaks of calls that
  no other call on their pointer overlaps, and of pointers whose last `buf_register`
  did not raise (`lost`): the size is compared before the lock and not again
  under it, and a failed renewal leaves the dictionary with the old size.
  Without either restriction TLC finds the wrong registration.
* `GpuLocalStore`: `Emptying = FALSE`: see `store_empty`. After two sets have overlapped on
  a file (`mixed`) its bytes may be of both; what the properties say of it is that
  each byte is of one of them. The count `write_from` returns is ignored by `set`; a short
  write is not modelled.
* `CudaArray`: reads overlap writes and resizes at every step, and writes go through `__setitem__`
  or around it. zarr promises nothing of two writers of one shard, so writes and resizes
  of one array exclude each other. `CleanReadsLastWrite` speaks of reads of a shard that nothing
  writes or deletes meanwhile, and of which no stale index can be left behind. A read that
  overlaps a write of its shard may leave one: it stores the memo again with the index of the
  file that is replaced (the memo is dropped before the write, not after it), or one fetched
  in the middle of the write, and later, undisturbed reads use it. So may a write around
  `__setitem__` (see `array_bypass`). The shard is clean again when `__setitem__` drops the
  memo while nobody reads the shard, or when a resize replaces the metadata. A read that meets a shard that
  `resize` has deleted raises `FileNotFoundError`, which `array.py` 99 does not catch. One read
  touches one shard.
* `NvcompCodecs`: `lowlevel/decode.py` keeps one codec per algorithm on the ground that decode
  has a single caller ("sync-single-caller"), while `AsyncArray` runs it in worker threads. The run
  has several threads there, and two of them do share a codec; `CodecsAreThreadLocal` excepts exactly
  these and no codec of the pipeline. And
  `CustomRaces = FALSE`. With `TRUE`, a default registration that checked the
  flag before a custom one set it replaces the custom allocator afterwards.
* `Blosc`: `Tails = FALSE`: see `blosc_tails`. The chunks of a batch have one layout, as
  those of one array do. Decoding runs on cupy's own stream; with a stream of the
  caller's the unshuffle is not ordered after nvCOMP's decode by anything in this code.
* `Filters`: one task, for which `Configure` is one step: `configure_gpu` sets the memory
  pool, the allocator, the overrides and zarr's config one after another, and what may raise
  comes before the last two. Two tasks whose `configure_gpu` blocks end in another order than
  they began restore each other's settings. BitRound's NaNs are left out: like numcodecs
  it may turn one into an infinity.
* `Frames`: no narrowing `astype` in `gpu_codecs`: see `narrow_filters`. Codecs that change a
  chunk's size by an amount the data decides, placed before the compressor, are left out.
* `ReadPlan`: `retrieve_chunk` is given coordinates one past either end of the grid, which raise
  `IndexError`; coordinates of another length than the array has axes, which `zip(strict=True)`
  refuses, are left out.
* `ShardFetch`: `FilledOnlyIfAbsent` allows the chunks of a window to be filled whose get came after a
  deletion, though the index has them: the code takes None for an absent chunk.
* `DecodeChain`: `OrdinaryChainsDecode` speaks of lists in the order that `lowlevel/decode.py`
  describes (bytes, shuffle, a compressor, crc32c): see `other_chains`.
* `Bench`: `WrongIsNeverReported` speaks of `run` and of isolated sweeps, and of what the gate
  compares: read_path's `verify` looks at 4 KiB (`bench/benches/read_path.py` 114), and what is
  wrong only beyond them is in a row. In a sweep in one
  process, `configure_gpu` stays in force for the points after the one that called it,
  whose references are then decoded by the codecs under test, so that a wrong
  decoder agrees with itself. The help text recommends `--isolate` for crashes only.

## 4. The proofs

Each theorem below is `Spec => []Inv` (or `Spec => AbstractSpec`) for every value of the
constants its module's named `ASSUME`s allow, and of an inductive invariant whose
parts are named in the proof module. `ASSUME` in the statement of a theorem is
what it needs beyond those, and is among the restrictions of section 3. Every
safety property and the refinement that a passing run checks has its theorem.

**`HandleCache_proofs`.** `HandleInvariant`: `HandleInv` is `TypeOK`, `RefsCountHolders`,
`NeverClosedUnderReader`, `NoLeak`, `ClosedOnce` and `CachedAlive`. The last is
the strengthening: what the dictionary holds is open, not dead, and cached under
one path only. Without it neither a hit (which must find an open descriptor)
nor a retirement (which must touch one entry) preserves the rest. Four lemmas
(`HitStep`, `MissStep`, `RetireStep`, `ReleaseStep`) do the work on the entries,
and one lemma per group of actions applies them. `ReadersKeepTheirHandles`,
`ReferencesAreCounted` and `DescriptorsAreAccountedFor` follow. `CapIsKept`: an
insertion evicts at most one path because the cap held before. From the
module: the sets of threads, paths and entries are finite, the cap is at least
one, and there are enough entry identities for allocation never to fail.

`DescriptorsAreBounded`: by `HandleInv` an open entry is cached or in use, at most `Cap` are
cached, and those in use are no more than the slots that hold one.
`NoHandleOutlives`, with `Daemons = {}`: `ExitInv` says that an idle thread holds nothing and
that before the driver opens and from `_close` on, all are idle and nothing is cached.

`CacheServesFiles`, with `~Renames`: `HandleCache` implements
`FileReads`, each step a step of it or a stutter. A read of a cached descriptor
returns bytes of a file its path named between its own stat and its release,
as if there were no cache. What makes a hit safe is in `ReadsInvariant`: signatures that
calls and entries remember are no later than the last write (`TimesArePast`), so a
path that has an entry's signature names the entry's file (`SigsAreTrue`), and the
entry a lookup is about to hit holds a file the request may be served by
(`HitsServe`). A rename carries an old signature to another path; hence the assumption.

**`ShardFetch_proofs`.** First `Coalesce`, for lists of any length: `RequestsArePlacedOnce`,
`SlicesAreCorrect`, `CapIsRespected` and `WindowsAreSorted` follow from `CoalesceInv`, which adds that
`indexed` is sorted, that the open window is a prefix of what is still to come
and within the cap, and that every window emitted starts no later. `GapsAreBounded` adds to it
that each member starts its window or lies at most the gap behind another (`GapInv`);
`FusionIsGreedy`, that each emitted window, and the open one, starts beyond what the window
before it could take (`GreedyInv`). Then the fetch: `ChunksAreTheirBytes` and
`FillMeansAbsent`, by `FetchInv`: the answer to a `get` of the gather is None, and the shard was
absent at some moment, or the slice of a shard that stood there meanwhile, and the k-th answer is that of the k-th window with
bytes. That `Materialized` puts it back at its window is a fact about `InOrder` (below).

**`Storage_proofs`.** `QuietGetsReadTheLastSet` and `GetsReadHeldBytes`, with `~Emptying` (the run
`store_empty` shows what setting an empty value does). `StoreInv`: a file that no writer
is in holds the value stored last, and one that can only hold the value `v` lacks what a
writer of `v` has still to write (`StoredWhole`); every byte of a file is of one of the values
it was given (`FileFrom`); and what a reader has so far is a piece of the file
it opened, made of values its `held` has gathered (`ReaderOK`). `QuietOK` says the same
of the one value that an undisturbed reader may see. `PlansAreNotStale`: every signature
that the cache, or a call about to store, has is no newer than the last write, and the plan
beside it is that of the file with this signature for as long as that file is there (`Fresh`). `PlanCacheIsLRU`: `Lru` relates the cache to the
sequence of uses by positions, so that a hit, an insertion and an eviction are each
one shift of indexes.

**`CudaArray_proofs`**, with no assumption beyond the bounds: reads, writes of both kinds and
resizes overlap at will. `ReadInv` has four parts. `MetaInv`: the types, at most one entry in the
memo, and a settled reader's metadata is the array's; `ReadsUseCurrentMetadata` follows. `HeldInv`:
plans are numbered as they come, and a plan belongs to one metadata object whoever holds it.
`WriterInv`: at most one thread writes or resizes, only it leaves a file in part, and no trusted
reader is at a shard it touches. `TrustInv`: for a clean shard, a memo that serves the array's metadata
has no index but that of the file there now, and every reader that may yet look into that memo
or build the next is trusted (`CleanShard`); whatever a trusted reader has in hand, a stat, an index, bytes, is of that file
(`Fits`). `CleanReadsReturnLastWrite` follows. The second half of `CleanShard` is the strengthening: without it a
reader from before a write could store the old index after the memo was dropped.

**`ReadPlan_proofs`**, for arrays of any rank and shape and stores of any size.
`SelectionsKeepTheirMeaning`: an ellipsis becomes as many full slices as are missing
(`ExpandedIsPadded`), and `slice.indices`, clamped, has the points that the item means
(`AxisBoundsAre`). `UnitsAreSelected`: floor and ceiling division are adjoint to multiplication
(`DivIsGalois`, `CeilDivIsGalois`), so the units of an interval are those it touches, axis by axis.
`ReadsReturnTheArray` and `DamageIsReported`, by `ReadInv`: the requests are the hulls of
groups of units of one file that leave no present unit out (`RequestsAreFused`), and after a
read that has not raised every buffer holds what its request asked for (`BuffersAreRead`). From these, each unit's slice of its window is
that unit's bytes (`SliceIsUnit`), every selected unit is one of the pieces or is missing
(`PayloadsArePieces`), and each element of the result is written by the unit that
holds it and by no other (`WritersAre`), or keeps the fill value. That the fill is run
exactly when a unit is missing compares two cardinalities, hence `UnitsAreFinite`.

**`Runtime_proofs`.** `CufileSetup`: `SetupInvariant` says that the lock is held by the one call that opens
the driver (`LockIsHeld`), `_opened` lags behind the driver only while it is held
(`FlagIsTrue`), and what an undisturbed `configure` has set so far is in `knobs` before the
open and in force after it (`KnobsAreKept`). `DriverIsOpenedOnce` and `ConfigureIsInForce` follow.
`BuffersAreRegistered`: the dictionary and libcufile agree on
every pointer, except one in the middle of a registration and one whose last
registration raised (`RecordsAreTrue`); a call marked as alone is alone
(`AloneIsTrue`). Together these carry `QuietBuffersAreRegistered` over calls on other pointers.

`NvcompCodecs`: `CodecsComeAfterAllocator`: the flag, and every call that has gone past the
check, imply an allocator (`DeviceIsSet`), and codecs are made after that.
`CustomStays`, with `~CustomRaces`: the default is installed only under the lock and
before any custom one (`DefaultIsFirst`). `CodecsStayInTheirThreads`, with any number of threads in
`lowlevel.decode`: no codec is in two slots, and one in hand is from the thread's own
slot, or, in `lowlevel.decode` only, from `_CODECS`, which no slot shares. `BatchesKeepPositions`: what a call is
about to return is, at every position, the answer to that position's item (`BatchInv`).

`Bench`: `WrongResultsAreNotReported`: as long as the process of a point has not been configured, its
reference is right, and with a right reference only a result that is right as far as `Verified`
compares it passes the gate (`RightInv`). `RowsAreWrittenOnce` and `SweepsComplete`: the points that have a row, failed or
are still to do are all of them, each once (`SweepInv`).

**`Ascending_proofs`.** What the loops over sets in ascending order return: the member with k members up
to it stands at place k (`InOrderRanks`). The module also proves the facts the
other proofs about data rest on. `NatSetInduction` is induction for a set of numbers in place of a predicate, from
the well-foundedness of `<`. `Recursion` says that a step and a start have a function over
`0..n` that solves them; with it a recursive function of the model is known to satisfy
its own equation, and what it computes is shown by `NatSetInduction`.

**`GpuCodecs_proofs`.** `SettingsStayScoped`: each open block keeps what the block around it
had asked for last (`ScopesInv`). `FiltersReadBack`, for words of any width and chunks of
any length: the unshuffle's index map is the inverse of the shuffle's (`ShuffleUndone`), and a
running sum of differences is the array modulo the width, whichever backend widens first
(`CumSumInverts`, `NativeScanInverts`). `BitRoundRoundsToNearestEven`: adding half a unit less
one and the parity, then cutting, reaches the nearest multiple, ties to even, and
a carry out of the mantissa stays a float (`BitRoundRounds`). `BloscDecodesOrRaises`, with `~Tails` (the run
`blosc_tails` shows what a short block does), and `BloscRaisesOnlyUnsupported`: what is decoded so
far is what the first chunks of the batch hold (`BloscInv`), and the three layouts are undone bit by bit
(`PlainChunk`, `ByteChunk`, `BitChunk`).

`CompressorsReadBack`, without the narrowing `astype` of the run `narrow_filters`, for chunks of
any size: the frame of czarr is that of the CPU codec, byte for byte
(`FramesAreStandard`); stripping it leaves the bitstream (`FrameIsStripped`); the bitstream says
what it holds (`NvcompIs`); and the metadata has the codec's own keys and at most one
that leaked, unless it is malformed, when each codec raises (`FrameInv`). `DocumentedChainsDecode`: `ChainInv` gives the bytes in hand after each
part of the recipe as a prefix of the list of codecs. A list in the documented order
distils into exactly the flags that take it apart (`DistilledIs`), nothing before the
compressor changes the number of bytes (`PlainSizes`), and a writer's shuffle divides it
(`MetadataAssumption`).

Some facts are proved and in no run, because a proof for every value says more:
the type invariants, `ClosedOnce`, the cap of the handle cache, and
`SlicesAreRequests`, `FusedCapKept` and `SortedByOffset` of `Coalesce`.

**Only model-checked.** Liveness (`CallsReturn`, `RetiredAreClosed`) is out of reach of
the proof system: it needs ENABLED. So are the five runs that expect a violation. Of the model,
folds and `SelectSeq` are opaque to the provers, because they take an operator, and
the library's induction theorems are too; this is why the loops that the proofs are
about are recursive functions over an interval (`Ascending`, `Pow2`, `EncodedSize`,
`Distilled`), whose existence `Recursion` gives.

## 5. What disagrees

`findings` in `PROJECT.json` quotes the lines, and a run of its own shows each.

* `set(b"")` on an existing key leaves the old value (`storage/gpu_local.py` 73).
* Writes through inherited methods do not drop the memo of `CudaZarrArray`
  (`array.py` 107), though the architecture page says that writes do.
* A blosc chunk whose size is no multiple of its block size ends in a short block.
  The scratch buffer is padded to whole blocks, so no check sees it, and the
  unshuffle takes the short block for a full one (`lowlevel/blosc.py` 174).
* `_Chain` reads the list of codecs as a set of flags (`lowlevel/decode.py` 127): a legal
  list in another order is neither decoded nor refused, and the chunk is garbled.
* `FixedScaleOffset` and `Delta` with a narrower `astype` tell zarr nothing of it
  (`codecs/filters/fixedscaleoffset.py` 79): the codecs behind them expect chunks of
  the wide size, and the chunk cannot be read back. A comment of the tests (`src/tests/test_filters.py`
  80) records this path as deferred; the docstrings offer it.

Five more show under the constants and conditions of section 3 and have no run:
the stale index that a read overlapping a write leaves in the memo, a codec that worker threads share,
`configure` against an opening driver, the size of a buffer compared before the lock
and the entry that survives a failed renewal, and a sweep in one process whose
references are decoded by the codecs under test.

## 6. Plan

Written first, because they carry the promises of the documentation and the most
shared state: `HandleCache`, `Coalesce`, `ShardFetch`, `GpuLocalStore`, `CudaArray`,
`PlanCache`, `ReadPlan`, `NvcompCodecs`; then `Kernels`, `Filters` and `Blosc`, whose
arithmetic is the easiest to get wrong unseen. Then `FileReads` and the refinement;
`CufileSetup`, the last of the checks outside a lock; `Frames` and `DecodeChain`, the formats
between czarr and other writers; `Bench`. A new module shares a run with a
neighbour where the instance allows, and a property that a proof settles gives
its place in the runs to another.

Worth adding: an atomic register implemented by `CudaArray` and, for one writer, by
`GpuLocalStore`; `configure_gpu` by several tasks; the CUDA stream a codec works on
(`get_stream`), so that the order of kernels is a property and not an assumption.

**Not modelled, and why.**

* FixedScaleOffset's arithmetic is floating point, which TLC does not compute; only its
  narrower stored type is in `Frames`.
* Buffers (`core/buffer.py`, `codecs/_nvcomp_buffer.py`), the pipeline, NVTX ranges: wrappers without
  protocol or state. The views of `core/array.py` and the factories of `array.py` only construct.
* The native codecs' tuning parameters, `use_rmm_pool`, which sets rmm and cupy and then
  registers the default allocator, and reading `zarr.json`, which is parsing.
* The clock, telemetry and profiler windows of `bench/`, and `ci/`: they measure or deploy.
* The text of the CUDA kernels (`Kernels` models what each computes), nvCOMP, cuFile, c-blosc
  and zarr themselves: external, modelled only by how czarr uses them.
* A write of fewer bytes than asked, whose count `set` ignores; and the alignment of slices
  of device buffers.
