------------------------------ MODULE CudaArray ------------------------------
(***************************************************************************)
(* One CudaZarrArray of src/czarr/array.py over a sharded array on disk:   *)
(* the memo of its DecodePlan, keyed by the identity of the metadata       *)
(* object, the shard indexes the plan caches (_shard_index in              *)
(* lowlevel/plan.py), and reads and writes of shards by several threads.   *)
(*                                                                         *)
(* A shard file is the number of the write it comes from; any two writes   *)
(* place the chunks differently, so that one's index is wrong for the      *)
(* other's bytes. Absent, number 0, is a shard of fill values.             *)
(***************************************************************************)
EXTENDS Naturals, FiniteSets

CONSTANTS
  Users,       \* threads that use the array
  Shards,      \* shard coordinates
  MaxMeta,     \* bound: metadata objects, in the order resize creates them
  MaxWrites,   \* bound: writes of shards, the first of them before the array is opened
  MaxPlans,    \* bound: plans built
  IndexAtEnd   \* index_location is "end"

ASSUME BoundsAssumption == MaxMeta \in Nat \ {0} /\ MaxWrites \in Nat \ {0} /\ MaxPlans \in Nat
ASSUME IndexAtEndAssumption == IndexAtEnd \in BOOLEAN

Absent  == 0                \* no file: every chunk is the fill value
Written == 1..MaxWrites     \* whole files
Partial == MaxWrites + 1    \* truncated by a set that is in progress
Wrong   == MaxWrites + 2    \* an index, or bytes, of no single file; or an error

NoPlan == 0                 \* lowlevel cannot plan this metadata
Plans  == 1..MaxPlans

VARIABLES
  scope,   \* what lowlevel can do with the codecs, which resize keeps
  disk,    \* shard -> its file
  writes,  \* writes of shards so far
  meta,    \* self._async_array.metadata
  inside,  \* the shards its shape has
  memo,    \* self.__dict__["_czarr_fast_array"]: {} or {[meta, plan]}
  plans,   \* plans built so far
  index,   \* plan -> shard -> its cached index, Absent when there is none
  access,  \* thread -> the read, write or resize it is in
  clean,   \* history: the shards of which no stale index can be left behind
  quiet,   \* history: threads whose shard nothing wrote or deleted during their read
  settled, \* history: threads during whose read no resize ended
  trusted  \* history: the quiet ones whose shard was clean when their read began

arrayVars == <<scope, disk, writes, meta, inside, memo, plans, index, access,
               clean, quiet, settled, trusted>>
history == <<clean, quiet, settled, trusted>>

Scopes == {"served", "undecodable", "unplanned"}
NoAccess == [pc |-> "idle"]
WritePcs == {"write", "partial"}
Reading == {t \in Users : access[t].pc \notin {"idle", "resize"} \cup WritePcs}
Writing == {t \in Users : access[t].pc \in {"resize"} \cup WritePcs}

\* What is being written or deleted: the shard of a set, or those outside the
\* shape of a resize.
Touched(t) == IF access[t].pc = "resize" THEN Shards \ access[t].new ELSE {access[t].shard}
Busy == UNION {Touched(t) : t \in Writing}
ReadersOf(shards) == {t \in Reading : access[t].shard \in shards}

-----------------------------------------------------------------------------
(* __getitem__ *)

\* _fast_array reads the metadata first.
ReadMeta(t) ==
  /\ access[t].pc = "idle"
  /\ \E s \in inside :
       /\ access' = [access EXCEPT ![t] = [pc |-> "lookup", shard |-> s, meta |-> meta]]
       /\ quiet' = quiet \cup {r \in {t} : s \notin Busy}
       /\ trusted' = trusted \cup {r \in {t} : s \in clean \ Busy}
       /\ clean' = clean \ ({s} \cap Busy)
  /\ settled' = settled \cup {t}
  /\ UNCHANGED <<scope, disk, writes, meta, inside, memo, plans, index>>

FallBack(t) == access' = [access EXCEPT ![t] = [pc |-> "fallback", shard |-> @.shard]]

\* On with the plan p of metadata m, unless there is none or the selection is
\* not basic indexing: normalize_selection raises, before any I/O.
Route(t, m, p) ==
  \/ p # NoPlan /\ access' = [access EXCEPT ![t] =
                                [pc |-> "index", shard |-> @.shard, meta |-> m, plan |-> p]]
  \/ FallBack(t)

\* The memo serves the metadata it was made from.
MemoHitAnyFault(m) == memo # {}
MemoHit(m) == \E e \in memo : e.meta = m

LookUp(t) ==
  /\ access[t].pc = "lookup"
  /\ IF MemoHit(access[t].meta)
     THEN \E e \in memo : Route(t, e.meta, e.plan)
     ELSE access' = [access EXCEPT ![t] = [pc |-> "build", shard |-> @.shard, meta |-> @.meta]]
  /\ UNCHANGED <<scope, disk, writes, meta, inside, memo, plans, index>>
  /\ UNCHANGED history

\* CoreArray.from_metadata with the metadata read before; an empty index cache.
NewIndexes == [s \in Shards |-> Absent]
Build(t) ==
  /\ access[t].pc = "build" /\ scope # "unplanned"
  /\ plans < MaxPlans
  /\ plans' = plans + 1
  /\ index' = [index EXCEPT ![plans + 1] = NewIndexes]
  /\ memo' = {[meta |-> access[t].meta, plan |-> plans + 1]}
  /\ Route(t, access[t].meta, plans + 1)
  /\ UNCHANGED <<scope, disk, writes, meta, inside>> /\ UNCHANGED history

\* plan_from_metadata raises: the memo holds None.
NotPlanned(t) ==
  /\ access[t].pc = "build" /\ scope = "unplanned"
  /\ memo' = {[meta |-> access[t].meta, plan |-> NoPlan]}
  /\ Route(t, access[t].meta, NoPlan)
  /\ UNCHANGED <<scope, disk, writes, meta, inside, plans, index>> /\ UNCHANGED history

Answer(t, v) == access' = [access EXCEPT ![t] =
                             [pc |-> "returned", shard |-> @.shard, meta |-> @.meta, result |-> v]]
File(t) == disk[access[t].shard]
CachedIndex(t) == index[access[t].plan][access[t].shard]
GoRead(t, i) == access' = [access EXCEPT ![t] =
                             [pc |-> "data", shard |-> @.shard, meta |-> @.meta, index |-> i]]

\* lowlevel.decode makes its chain of codecs first, and only there meets one it
\* does not know; all I/O is done by then.
Decoded(t, v) == IF scope = "served" THEN Answer(t, v) ELSE FallBack(t)

\* _shard_index: the plan's dictionary, else a stat and a read of the file.
IndexCached(t) ==
  /\ access[t].pc = "index" /\ CachedIndex(t) # Absent
  /\ GoRead(t, CachedIndex(t))
  /\ UNCHANGED <<scope, disk, writes, meta, inside, memo, plans, index>> /\ UNCHANGED history

\* An absent file is not cached: nothing is read of it, all its chunks are filled.
IndexStat(t) ==
  /\ access[t].pc = "index" /\ CachedIndex(t) = Absent
  /\ IF File(t) = Absent
     THEN Decoded(t, Absent)
     ELSE access' = [access EXCEPT ![t] =
                       [pc |-> "fetch", shard |-> @.shard, meta |-> @.meta,
                        plan |-> @.plan, stat |-> File(t)]]
  /\ UNCHANGED <<scope, disk, writes, meta, inside, memo, plans, index>> /\ UNCHANGED history

\* The bytes at the place the stat's size gave, from the file there now; they
\* are cached unverified. A deleted file raises.
FetchedIndex(file, stat) ==
  IF file \in Written /\ (file = stat \/ ~IndexAtEnd) THEN file ELSE Wrong
IndexFetch(t) ==
  /\ access[t].pc = "fetch"
  /\ IF File(t) = Absent
     THEN Answer(t, Wrong) /\ UNCHANGED index
     ELSE LET i == FetchedIndex(File(t), access[t].stat)
          IN  /\ index' = [index EXCEPT ![access[t].plan][access[t].shard] = i]
              /\ GoRead(t, i)
  /\ UNCHANGED <<scope, disk, writes, meta, inside, memo, plans>> /\ UNCHANGED history

\* lowlevel.read and decode. An index of another file finds other bytes, or
\* ranges the file does not have: the read raises an OSError or a ValueError,
\* as it does for a deleted file, and neither leads to zarr.
Data(t) ==
  /\ access[t].pc = "data"
  /\ \/ File(t) = access[t].index /\ Decoded(t, File(t))
     \/ File(t) # access[t].index /\ File(t) # Absent /\ Decoded(t, Wrong)
     \/ File(t) # access[t].index /\ Answer(t, Wrong)
  /\ UNCHANGED <<scope, disk, writes, meta, inside, memo, plans, index>> /\ UNCHANGED history

\* zarr.Array.__getitem__: the metadata of the moment, which must have the
\* shard, then the index, read each time, and the chunks.
Fallback(t) ==
  /\ access[t].pc = "fallback"
  /\ LET i == IF File(t) \in Written THEN File(t) ELSE Wrong
         v == IF access[t].shard \in inside THEN Absent ELSE Wrong
     IN  access' = [access EXCEPT ![t] =
           IF v = Wrong \/ File(t) = Absent
           THEN [pc |-> "returned", shard |-> @.shard, meta |-> meta, result |-> v]
           ELSE [pc |-> "zarr", shard |-> @.shard, meta |-> meta, index |-> i]]
  /\ UNCHANGED <<scope, disk, writes, meta, inside, memo, plans, index>> /\ UNCHANGED history

\* A file deleted after its index was read is a missing key: fill values.
FallbackData(t) ==
  /\ access[t].pc = "zarr"
  /\ Answer(t, IF File(t) \in {access[t].index, Absent} THEN File(t) ELSE Wrong)
  /\ UNCHANGED <<scope, disk, writes, meta, inside, memo, plans, index>> /\ UNCHANGED history

ArrayReturn(t) ==
  /\ access[t].pc = "returned"
  /\ access' = [access EXCEPT ![t] = NoAccess]
  /\ quiet' = quiet \ {t} /\ settled' = settled \ {t} /\ trusted' = trusted \ {t}
  /\ UNCHANGED <<scope, disk, writes, meta, inside, memo, plans, index, clean>>

-----------------------------------------------------------------------------
(* Writes and resizes, one at a time *)

MayWrite(t) == access[t].pc = "idle" /\ Writing = {}

\* __setitem__ drops the memo first; oindex, vindex, set_basic_selection and the
\* like, which the class inherits, do not pass through it.
KeepsMemoFault(own) == memo
MemoAfter(own) == IF own THEN {} ELSE memo

\* Once the memo is dropped only a read in flight can still store an index of a
\* file that the write replaces.
CleanAfter(s, own) ==
  (clean \ {s}) \cup {x \in Shards : (own \/ memo = {}) /\ ReadersOf({x}) = {}}

SetBegins(t) ==
  /\ MayWrite(t)
  /\ \E s \in inside, own \in BOOLEAN :
       /\ access' = [access EXCEPT ![t] = [pc |-> "write", shard |-> s]]
       /\ memo' = MemoAfter(own)
       /\ quiet' = quiet \ ReadersOf({s}) /\ trusted' = trusted \ ReadersOf({s})
       /\ clean' = CleanAfter(s, own)
  /\ UNCHANGED <<scope, disk, writes, meta, inside, plans, index, settled>>

\* zarr writes the whole shard with store.set, or deletes one that is all fill.
WriteBegins(t) ==
  /\ access[t].pc = "write"
  /\ writes < MaxWrites
  /\ disk' = [disk EXCEPT ![access[t].shard] = Partial]
  /\ writes' = writes + 1
  /\ access' = [access EXCEPT ![t] = [pc |-> "partial", shard |-> @.shard]]
  /\ UNCHANGED <<scope, meta, inside, memo, plans, index>> /\ UNCHANGED history

WriteEnds(t) ==
  /\ access[t].pc = "partial"
  /\ disk' = [disk EXCEPT ![access[t].shard] = writes]
  /\ access' = [access EXCEPT ![t] = NoAccess]
  /\ UNCHANGED <<scope, writes, meta, inside, memo, plans, index>> /\ UNCHANGED history

WriteFill(t) ==
  /\ access[t].pc = "write"
  /\ disk' = [disk EXCEPT ![access[t].shard] = Absent]
  /\ access' = [access EXCEPT ![t] = NoAccess]
  /\ UNCHANGED <<scope, writes, meta, inside, memo, plans, index>> /\ UNCHANGED history

\* resize deletes the shards outside the new shape, saves the metadata and then
\* replaces the metadata object. No index of a shard it deletes is good until
\* the new object is there.
ResizeBegins(t) ==
  /\ MayWrite(t)
  /\ meta < MaxMeta
  /\ \E new \in SUBSET Shards :
       /\ access' = [access EXCEPT ![t] = [pc |-> "resize", new |-> new, gone |-> inside \ new]]
       /\ quiet' = quiet \ ReadersOf(Shards \ new)
       /\ trusted' = trusted \ ReadersOf(Shards \ new)
       /\ clean' = clean \cap new
  /\ UNCHANGED <<scope, disk, writes, meta, inside, memo, plans, index, settled>>

DeleteOutside(t) ==
  /\ access[t].pc = "resize"
  /\ \E s \in access[t].gone :
       /\ disk' = [disk EXCEPT ![s] = Absent]
       /\ access' = [access EXCEPT ![t] =
                        [pc |-> "resize", new |-> @.new, gone |-> @.gone \ {s}]]
  /\ UNCHANGED <<scope, writes, meta, inside, memo, plans, index>> /\ UNCHANGED history

ResizeEnds(t) ==
  /\ access[t].pc = "resize" /\ access[t].gone = {}
  /\ meta' = meta + 1
  /\ inside' = access[t].new
  /\ access' = [access EXCEPT ![t] = NoAccess]
  /\ settled' = {} /\ clean' = Shards
  /\ UNCHANGED <<scope, disk, writes, memo, plans, index, quiet, trusted>>

\* A deletion or the save of the metadata raises: the object stays.
ResizeFails(t) ==
  /\ access[t].pc = "resize"
  /\ access' = [access EXCEPT ![t] = NoAccess]
  /\ UNCHANGED <<scope, disk, writes, meta, inside, memo, plans, index>> /\ UNCHANGED history

-----------------------------------------------------------------------------
ArrayInit ==
  /\ scope \in Scopes
  /\ disk \in [Shards -> {Absent, 1}] /\ writes = 1
  /\ meta = 1 /\ inside = Shards
  /\ memo = {} /\ plans = 0
  /\ index = [p \in Plans |-> [s \in Shards |-> Absent]]
  /\ access = [t \in Users |-> NoAccess]
  /\ clean = Shards /\ quiet = {} /\ settled = {} /\ trusted = {}

Get(t) == \/ ReadMeta(t) \/ LookUp(t) \/ Build(t) \/ NotPlanned(t)
          \/ IndexCached(t) \/ IndexStat(t) \/ IndexFetch(t) \/ Data(t)
          \/ Fallback(t) \/ FallbackData(t) \/ ArrayReturn(t)
Set(t) == \/ SetBegins(t) \/ WriteBegins(t) \/ WriteEnds(t) \/ WriteFill(t)
          \/ ResizeBegins(t) \/ DeleteOutside(t) \/ ResizeEnds(t) \/ ResizeFails(t)
ArrayNext == \E t \in Users : Get(t) \/ Set(t)

ArraySpec == ArrayInit /\ [][ArrayNext]_arrayVars

-----------------------------------------------------------------------------
(* Properties *)

\* "a rewritten shard must not be read through stale shard indexes": a read
\* whose shard nothing wrote or deleted meanwhile returns what the last write
\* of it stored.
ReadsLastWrite ==
  \A t \in Users : access[t].pc = "returned" /\ t \in quiet => access[t].result = File(t)

\* The same for shards of which no stale index was left behind when the read
\* began: since __setitem__ last dropped the memo or resize replaced the
\* metadata, none was written by an inherited method, or while it was read.
CleanReadsLastWrite ==
  \A t \in Users : access[t].pc = "returned" /\ t \in trusted => access[t].result = File(t)

\* "a new metadata object (resize, reopen) invalidates": a read that no resize
\* overlapped was planned from the current metadata, whatever else ran.
ReadsCurrentMetadata ==
  \A t \in Users : access[t].pc = "returned" /\ t \in settled => access[t].meta = meta
=============================================================================
