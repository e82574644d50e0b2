--------------------------- MODULE CudaArray_proofs ---------------------------
(***************************************************************************)
(* Proofs about CudaArray: a read that no resize overlapped was planned    *)
(* from the current metadata, and a read of a shard that was clean when it *)
(* began, and that nothing wrote or deleted meanwhile, returns what the    *)
(* last write of it stored. Nothing is assumed of the schedule: other      *)
(* shards are written, other reads go wrong, and resizes fail.             *)
(***************************************************************************)
EXTENDS CudaArray, TLAPS

ReadPcs  == {"lookup", "build", "index", "fetch", "data", "fallback", "zarr", "returned"}

Accesses ==
       [pc : {"idle"}]
  \cup [pc : {"lookup", "build"}, shard : Shards, meta : Nat]
  \cup [pc : {"index"}, shard : Shards, meta : Nat, plan : Plans]
  \cup [pc : {"fetch"}, shard : Shards, meta : Nat, plan : Plans, stat : Nat]
  \cup [pc : {"data", "zarr"}, shard : Shards, meta : Nat, index : Nat]
  \cup [pc : {"fallback"}, shard : Shards]
  \cup [pc : {"returned"}, shard : Shards, meta : Nat, result : Nat]
  \cup [pc : WritePcs, shard : Shards]
  \cup [pc : {"resize"}, new : SUBSET Shards, gone : SUBSET Shards]

TypeOK ==
  /\ scope \in Scopes
  /\ disk \in [Shards -> Nat] /\ writes \in Written
  /\ meta \in Nat /\ inside \subseteq Shards
  /\ memo \subseteq [meta : Nat, plan : 0..MaxPlans]
  /\ plans \in 0..MaxPlans
  /\ index \in [Plans -> [Shards -> Nat]]
  /\ access \in [Users -> Accesses]
  /\ clean \subseteq Shards

\* The memo holds one entry at most.
MemoIsOne == \A e, f \in memo : e = f

\* Only a resize parts a read from the current metadata.
PlannedNow ==
  \A t \in settled : access[t].pc \in ReadPcs \ {"fallback"} => access[t].meta = meta

MetaInv == TypeOK /\ MemoIsOne /\ PlannedNow /\ settled \subseteq Users

-----------------------------------------------------------------------------
(* What each step does to the access of its thread *)

Moves(t, v) == access' = [access EXCEPT ![t] = v]

LEMMA MoveFacts ==
  ASSUME TypeOK, NEW t \in Users, NEW v, Moves(t, v)
  PROVE  access'[t] = v /\ \A u \in Users : u # t => access'[u] = access[u]
  BY DEF TypeOK, Moves

LEMMA MoveType ==
  ASSUME TypeOK, NEW t \in Users, NEW v \in Accesses, Moves(t, v)
  PROVE  access' \in [Users -> Accesses]
  BY DEF TypeOK, Moves

\* The fields an access has.
LEMMA Fields ==
  ASSUME TypeOK, NEW t \in Users
  PROVE  /\ access[t].pc \in ReadPcs \cup WritePcs => access[t].shard \in Shards
         /\ access[t].pc \in ReadPcs \ {"fallback"} => access[t].meta \in Nat
         /\ access[t].pc \in {"index", "fetch"} => access[t].plan \in Plans
         /\ access[t].pc = "fetch" => access[t].stat \in Nat
         /\ access[t].pc \in {"data", "zarr"} => access[t].index \in Nat
         /\ access[t].pc = "returned" => access[t].result \in Nat
         /\ access[t].pc = "resize" =>
              access[t].new \subseteq Shards /\ access[t].gone \subseteq Shards
<1>1. access[t] \in Accesses
  BY DEF TypeOK
<1>2. QED
  BY <1>1 DEF Accesses, ReadPcs, WritePcs

LEMMA Pcs ==
  ASSUME TypeOK, NEW t \in Users
  PROVE  access[t].pc \in {"idle", "resize"} \cup ReadPcs \cup WritePcs
<1>1. access[t] \in Accesses
  BY DEF TypeOK
<1>2. QED
  BY <1>1 DEF Accesses, ReadPcs, WritePcs

LEMMA Numbers ==
  /\ Absent = 0 /\ NoPlan = 0 /\ Wrong \in Nat /\ Partial \in Nat /\ Written \subseteq Nat
  /\ Absent \notin Written /\ Plans \subseteq Nat /\ 0 \notin Plans /\ MaxPlans \in Nat
  BY BoundsAssumption DEF Absent, NoPlan, Wrong, Partial, Written, Plans

\* The reads that stand where a step of thread t may leave its own.
Falls(t)     == Moves(t, [pc |-> "fallback", shard |-> access[t].shard])
Goes(t, m, p) ==
  Moves(t, [pc |-> "index", shard |-> access[t].shard, meta |-> m, plan |-> p])
Answers(t, m, r) ==
  Moves(t, [pc |-> "returned", shard |-> access[t].shard, meta |-> m, result |-> r])
Reads(t, pc, m, i) ==
  Moves(t, [pc |-> pc, shard |-> access[t].shard, meta |-> m, index |-> i])
Stats(t) ==
  Moves(t, [pc |-> "fetch", shard |-> access[t].shard, meta |-> access[t].meta,
            plan |-> access[t].plan, stat |-> File(t)])

\* A step of a read: it stays with its shard, and with its metadata until zarr
\* reads the metadata again.
ReadStep(t) ==
  /\ UNCHANGED <<scope, disk, writes, meta, inside, clean, quiet, settled, trusted>>
  /\ access' \in [Users -> Accesses]
  /\ \A u \in Users : u # t => access'[u] = access[u]
  /\ access[t].pc \in ReadPcs /\ access'[t].pc \in ReadPcs \ {"lookup"}
  /\ access'[t].shard = access[t].shard
  /\ \/ access'[t].pc = "fallback"
     \/ access[t].pc # "fallback" /\ access'[t].meta = access[t].meta
     \/ access'[t].pc \in {"zarr", "returned"} /\ access'[t].meta = meta

LEMMA FallsStep ==
  ASSUME TypeOK, NEW t \in Users, access[t].pc \in ReadPcs, Falls(t),
         UNCHANGED <<scope, disk, writes, meta, inside>>, UNCHANGED history
  PROVE  ReadStep(t) /\ access'[t].pc = "fallback"
<1>1. [pc |-> "fallback", shard |-> access[t].shard] \in Accesses
  BY Fields DEF Accesses
<1>2. access' \in [Users -> Accesses]
  BY <1>1, MoveType DEF Falls
<1>3. QED
  BY <1>2, MoveFacts DEF Falls, ReadStep, ReadPcs, history

LEMMA AnswersStep ==
  ASSUME TypeOK, NEW t \in Users, access[t].pc \in ReadPcs, NEW m \in Nat, NEW r \in Nat,
         Answers(t, m, r), UNCHANGED <<scope, disk, writes, meta, inside>>, UNCHANGED history,
         m = meta \/ (access[t].pc # "fallback" /\ m = access[t].meta)
  PROVE  ReadStep(t) /\ access'[t].pc = "returned" /\ access'[t].result = r
<1>1. [pc |-> "returned", shard |-> access[t].shard, meta |-> m, result |-> r] \in Accesses
  BY Fields DEF Accesses
<1>2. access' \in [Users -> Accesses]
  BY <1>1, MoveType DEF Answers
<1>3. QED
  BY <1>2, MoveFacts DEF Answers, ReadStep, ReadPcs, history

LEMMA ReadsStep ==
  ASSUME TypeOK, NEW t \in Users, access[t].pc \in ReadPcs, NEW m \in Nat, NEW i \in Nat,
         NEW pc \in {"data", "zarr"},
         Reads(t, pc, m, i), UNCHANGED <<scope, disk, writes, meta, inside>>, UNCHANGED history,
         (m = meta /\ pc = "zarr") \/ (access[t].pc # "fallback" /\ m = access[t].meta)
  PROVE  ReadStep(t) /\ access'[t].pc = pc /\ access'[t].index = i
<1>1. [pc |-> pc, shard |-> access[t].shard, meta |-> m, index |-> i] \in Accesses
  BY Fields DEF Accesses
<1>2. access' \in [Users -> Accesses]
  BY <1>1, MoveType DEF Reads
<1>3. QED
  BY <1>2, MoveFacts DEF Reads, ReadStep, ReadPcs, history

LEMMA GoesStep ==
  ASSUME TypeOK, NEW t \in Users, access[t].pc \in {"lookup", "build"}, NEW p \in Plans,
         Goes(t, access[t].meta, p), UNCHANGED <<scope, disk, writes, meta, inside>>,
         UNCHANGED history
  PROVE  ReadStep(t) /\ access'[t].pc = "index" /\ access'[t].meta = access[t].meta
         /\ access'[t].plan = p
<1>1. [pc |-> "index", shard |-> access[t].shard, meta |-> access[t].meta, plan |-> p] \in Accesses
  BY Fields DEF Accesses, ReadPcs
<1>2. access' \in [Users -> Accesses]
  BY <1>1, MoveType DEF Goes
<1>3. QED
  BY <1>2, MoveFacts DEF Goes, ReadStep, ReadPcs, history

LEMMA FileType ==
  ASSUME TypeOK, NEW t \in Users, access[t].pc \in ReadPcs
  PROVE  File(t) \in Nat /\ access[t].shard \in Shards
  BY Fields DEF TypeOK, File

-----------------------------------------------------------------------------
(* The steps of a read, by what they do to it *)

LEMMA LookUpStep ==
  ASSUME TypeOK, MemoIsOne, NEW t \in Users, LookUp(t)
  PROVE  /\ access[t].pc = "lookup" /\ ReadStep(t) /\ UNCHANGED <<memo, plans, index>>
         /\ \/ access'[t].pc = "fallback"
            \/ access'[t].pc = "build" /\ access'[t].meta = access[t].meta
            \/ /\ access'[t].pc = "index" /\ access'[t].meta = access[t].meta
               /\ \E e \in memo : /\ e.meta = access[t].meta /\ e.plan = access'[t].plan
                                  /\ e.plan # NoPlan
<1>1. /\ access[t].pc = "lookup" /\ access[t].pc \in ReadPcs
      /\ UNCHANGED <<memo, plans, index>>
      /\ UNCHANGED <<scope, disk, writes, meta, inside>> /\ UNCHANGED history
  BY DEF LookUp, ReadPcs
<1>2. CASE MemoHit(access[t].meta)
  <2>1. PICK e \in memo : Route(t, e.meta, e.plan)
    BY <1>2 DEF LookUp
  <2>2. e.meta = access[t].meta /\ e.plan \in 0..MaxPlans
    BY <1>2 DEF MemoHit, MemoIsOne, TypeOK
  <2>3. e.plan # NoPlan => e.plan \in Plans
    BY <2>2, Numbers DEF Plans
  <2>4. Falls(t) \/ (e.plan # NoPlan /\ Goes(t, e.meta, e.plan))
    BY <2>1 DEF Route, Falls, Goes, FallBack, Moves
  <2>5. CASE Falls(t)
    BY <1>1, <2>5, FallsStep
  <2>6. CASE e.plan # NoPlan /\ Goes(t, e.meta, e.plan)
    <3>1. Goes(t, access[t].meta, e.plan) /\ e.plan \in Plans
      BY <2>2, <2>3, <2>6
    <3>2. QED
      BY <1>1, <2>2, <2>6, <3>1, GoesStep
  <2>7. QED
    BY <2>4, <2>5, <2>6
<1>3. CASE ~MemoHit(access[t].meta)
  <2>1. Moves(t, [pc |-> "build", shard |-> access[t].shard, meta |-> access[t].meta])
    BY <1>3 DEF LookUp, Moves
  <2>2. [pc |-> "build", shard |-> access[t].shard, meta |-> access[t].meta] \in Accesses
    BY <1>1, Fields DEF Accesses, ReadPcs
  <2>3. access' \in [Users -> Accesses]
    BY <2>1, <2>2, MoveType
  <2>4. /\ access'[t] = [pc |-> "build", shard |-> access[t].shard, meta |-> access[t].meta]
        /\ \A u \in Users : u # t => access'[u] = access[u]
    BY <2>1, MoveFacts
  <2>5. QED
    BY <1>1, <2>3, <2>4 DEF ReadStep, ReadPcs, history
<1>4. QED
  BY <1>2, <1>3

\* A new plan, with an empty index cache.
LEMMA BuildStep ==
  ASSUME TypeOK, NEW t \in Users, Build(t)
  PROVE  /\ access[t].pc = "build" /\ ReadStep(t)
         /\ plans' = plans + 1 /\ plans' \in Plans
         /\ index' \in [Plans -> [Shards -> Nat]]
         /\ \A s \in Shards : index'[plans'][s] = Absent
         /\ \A p \in Plans : p # plans' => index'[p] = index[p]
         /\ memo' = {[meta |-> access[t].meta, plan |-> plans']}
         /\ \/ access'[t].pc = "fallback"
            \/ /\ access'[t].pc = "index" /\ access'[t].meta = access[t].meta
               /\ access'[t].plan = plans'
<1>1. /\ access[t].pc = "build" /\ access[t].pc \in ReadPcs /\ plans < MaxPlans
      /\ plans' = plans + 1 /\ memo' = {[meta |-> access[t].meta, plan |-> plans + 1]}
      /\ index' = [index EXCEPT ![plans + 1] = NewIndexes]
      /\ Route(t, access[t].meta, plans + 1)
      /\ UNCHANGED <<scope, disk, writes, meta, inside>> /\ UNCHANGED history
  BY DEF Build, ReadPcs
<1>2. plans + 1 \in Plans
  BY <1>1, Numbers DEF TypeOK, Plans
<1>3. NewIndexes \in [Shards -> Nat] /\ \A s \in Shards : NewIndexes[s] = Absent
  BY DEF NewIndexes, Absent
<1>4. /\ index' \in [Plans -> [Shards -> Nat]] /\ index'[plans + 1] = NewIndexes
      /\ \A p \in Plans : p # plans + 1 => index'[p] = index[p]
  BY <1>1, <1>2, <1>3 DEF TypeOK
<1>5. Falls(t) \/ Goes(t, access[t].meta, plans + 1)
  BY <1>1 DEF Route, Falls, Goes, FallBack, Moves
<1>6. /\ ReadStep(t)
      /\ \/ access'[t].pc = "fallback"
         \/ access'[t].pc = "index" /\ access'[t].meta = access[t].meta
            /\ access'[t].plan = plans + 1
  BY <1>1, <1>2, <1>5, FallsStep, GoesStep
<1>7. QED
  BY <1>1, <1>2, <1>3, <1>4, <1>6

LEMMA NotPlannedStep ==
  ASSUME TypeOK, NEW t \in Users, NotPlanned(t)
  PROVE  /\ access[t].pc = "build" /\ ReadStep(t) /\ access'[t].pc = "fallback"
         /\ UNCHANGED <<plans, index>>
         /\ memo' = {[meta |-> access[t].meta, plan |-> NoPlan]}
<1>1. /\ access[t].pc = "build" /\ access[t].pc \in ReadPcs /\ UNCHANGED <<plans, index>>
      /\ memo' = {[meta |-> access[t].meta, plan |-> NoPlan]}
      /\ UNCHANGED <<scope, disk, writes, meta, inside>> /\ UNCHANGED history /\ Falls(t)
  BY DEF NotPlanned, ReadPcs, Route, FallBack, Falls, Moves
<1>2. QED
  BY <1>1, FallsStep

\* What a read that found all its bytes does with them.
LEMMA DecodedStep ==
  ASSUME TypeOK, NEW t \in Users, access[t].pc \in ReadPcs \ {"fallback"}, NEW r \in Nat,
         Decoded(t, r), UNCHANGED <<scope, disk, writes, meta, inside>>, UNCHANGED history
  PROVE  /\ ReadStep(t)
         /\ access'[t].pc # "fallback" => access'[t].pc = "returned" /\ access'[t].result = r
<1>1. Falls(t) \/ Answers(t, access[t].meta, r)
  BY DEF Decoded, Answer, FallBack, Falls, Answers, Moves
<1>2. CASE Falls(t)
  BY <1>2, FallsStep
<1>3. CASE Answers(t, access[t].meta, r)
  <2>1. PICK m \in Nat : m = access[t].meta
    BY Fields
  <2>2. Answers(t, m, r)
    BY <1>3, <2>1
  <2>3. QED
    BY <2>1, <2>2, AnswersStep
<1>4. QED
  BY <1>1, <1>2, <1>3

LEMMA IndexCachedStep ==
  ASSUME TypeOK, NEW t \in Users, IndexCached(t)
  PROVE  /\ access[t].pc = "index" /\ ReadStep(t) /\ UNCHANGED <<memo, plans, index>>
         /\ access'[t].pc = "data" /\ access'[t].index = CachedIndex(t)
         /\ CachedIndex(t) # Absent
<1>1. /\ access[t].pc = "index" /\ access[t].pc \in ReadPcs /\ UNCHANGED <<memo, plans, index>>
      /\ UNCHANGED <<scope, disk, writes, meta, inside>> /\ UNCHANGED history
      /\ Reads(t, "data", access[t].meta, CachedIndex(t)) /\ CachedIndex(t) # Absent
  BY DEF IndexCached, GoRead, Reads, Moves, ReadPcs
<1>2. CachedIndex(t) \in Nat /\ access[t].meta \in Nat
  BY <1>1, Fields DEF TypeOK, CachedIndex, ReadPcs
<1>3. QED
  BY <1>1, <1>2, ReadsStep

LEMMA IndexStatStep ==
  ASSUME TypeOK, NEW t \in Users, IndexStat(t)
  PROVE  /\ access[t].pc = "index" /\ ReadStep(t) /\ UNCHANGED <<memo, plans, index>>
         /\ \/ access'[t].pc = "fallback"
            \/ access'[t].pc = "returned" /\ access'[t].result = File(t)
            \/ /\ access'[t].pc = "fetch" /\ access'[t].meta = access[t].meta
               /\ access'[t].plan = access[t].plan
               /\ access'[t].stat = File(t) /\ File(t) # Absent
<1>1. /\ access[t].pc = "index" /\ access[t].pc \in ReadPcs /\ UNCHANGED <<memo, plans, index>>
      /\ UNCHANGED <<scope, disk, writes, meta, inside>> /\ UNCHANGED history
  BY DEF IndexStat, ReadPcs
<1>2. CASE File(t) = Absent
  <2>1. Decoded(t, Absent)
    BY <1>2 DEF IndexStat
  <2>2. QED
    BY <1>1, <1>2, <2>1, Numbers, DecodedStep
<1>3. CASE File(t) # Absent
  <2>1. Stats(t)
    BY <1>3 DEF IndexStat, Stats, Moves
  <2>2. [pc |-> "fetch", shard |-> access[t].shard, meta |-> access[t].meta,
         plan |-> access[t].plan, stat |-> File(t)] \in Accesses
    BY <1>1, Fields, FileType DEF Accesses, ReadPcs
  <2>3. access' \in [Users -> Accesses]
    BY <2>1, <2>2, MoveType DEF Stats
  <2>4. QED
    BY <1>1, <1>3, <2>1, <2>3, MoveFacts DEF Stats, ReadStep, ReadPcs, history
<1>4. QED
  BY <1>2, <1>3

LEMMA SetIndexType ==
  ASSUME index \in [Plans -> [Shards -> Nat]], NEW p \in Plans, NEW s \in Shards, NEW i \in Nat
  PROVE  /\ [index EXCEPT ![p][s] = i] \in [Plans -> [Shards -> Nat]]
         /\ [index EXCEPT ![p][s] = i][p][s] = i
         /\ \A q \in Plans, x \in Shards :
              q # p \/ x # s => [index EXCEPT ![p][s] = i][q][x] = index[q][x]
  OBVIOUS

\* What a fetch stores, and where.
Stores(t, i) ==
  /\ index' \in [Plans -> [Shards -> Nat]]
  /\ index'[access[t].plan][access[t].shard] = i
  /\ \A q \in Plans, x \in Shards :
       q # access[t].plan \/ x # access[t].shard => index'[q][x] = index[q][x]

LEMMA IndexFetchStep ==
  ASSUME TypeOK, NEW t \in Users, IndexFetch(t)
  PROVE  /\ access[t].pc = "fetch" /\ ReadStep(t) /\ UNCHANGED <<memo, plans>>
         /\ \/ File(t) = Absent /\ access'[t].pc = "returned" /\ index' = index
            \/ /\ File(t) # Absent /\ access'[t].pc = "data"
               /\ access'[t].index = FetchedIndex(File(t), access[t].stat)
               /\ Stores(t, FetchedIndex(File(t), access[t].stat))
<1>1. /\ access[t].pc = "fetch" /\ access[t].pc \in ReadPcs /\ UNCHANGED <<memo, plans>>
      /\ UNCHANGED <<scope, disk, writes, meta, inside>> /\ UNCHANGED history
  BY DEF IndexFetch, ReadPcs
<1>2. access[t].meta \in Nat /\ access[t].plan \in Plans /\ access[t].shard \in Shards
  BY <1>1, Fields DEF ReadPcs
<1>3. CASE File(t) = Absent
  <2>1. Answers(t, access[t].meta, Wrong) /\ index' = index
    BY <1>3 DEF IndexFetch, Answer, Answers, Moves
  <2>2. QED
    BY <1>1, <1>2, <1>3, <2>1, Numbers, AnswersStep
<1>4. CASE File(t) # Absent
  <2>1. PICK i : i = FetchedIndex(File(t), access[t].stat)
    OBVIOUS
  <2>2. i \in Nat
    BY <1>1, <2>1, Numbers, FileType DEF FetchedIndex
  <2>3. /\ Reads(t, "data", access[t].meta, i)
        /\ index' = [index EXCEPT ![access[t].plan][access[t].shard] = i]
    BY <1>4, <2>1 DEF IndexFetch, GoRead, Reads, Moves
  <2>4. Stores(t, i)
    BY <1>2, <2>2, <2>3, SetIndexType DEF TypeOK, Stores
  <2>5. QED
    BY <1>1, <1>2, <1>4, <2>1, <2>2, <2>3, <2>4, ReadsStep
<1>5. QED
  BY <1>3, <1>4

LEMMA DataStep ==
  ASSUME TypeOK, NEW t \in Users, Data(t)
  PROVE  /\ access[t].pc = "data" /\ ReadStep(t) /\ UNCHANGED <<memo, plans, index>>
         /\ \/ access'[t].pc = "fallback"
            \/ /\ access'[t].pc = "returned"
               /\ access[t].index = File(t) => access'[t].result = File(t)
<1>1. /\ access[t].pc = "data" /\ access[t].pc \in ReadPcs \ {"fallback"}
      /\ UNCHANGED <<memo, plans, index>>
      /\ UNCHANGED <<scope, disk, writes, meta, inside>> /\ UNCHANGED history
  BY DEF Data, ReadPcs
<1>2. File(t) \in Nat /\ Wrong \in Nat /\ access[t].meta \in Nat
  BY <1>1, Fields, FileType, Numbers
<1>3. CASE File(t) = access[t].index /\ Decoded(t, File(t))
  BY <1>1, <1>2, <1>3, DecodedStep
<1>4. CASE File(t) # access[t].index /\ Decoded(t, Wrong)
  BY <1>1, <1>2, <1>4, DecodedStep
<1>5. CASE File(t) # access[t].index /\ Answer(t, Wrong)
  <2>1. Answers(t, access[t].meta, Wrong)
    BY <1>5 DEF Answer, Answers, Moves
  <2>2. QED
    BY <1>1, <1>2, <1>5, <2>1, AnswersStep
<1>6. QED
  BY <1>3, <1>4, <1>5 DEF Data

LEMMA FallbackStep ==
  ASSUME TypeOK, NEW t \in Users, Fallback(t)
  PROVE  /\ access[t].pc = "fallback" /\ ReadStep(t) /\ UNCHANGED <<memo, plans, index>>
         /\ \/ /\ access'[t].pc = "returned"
               /\ access[t].shard \in inside => access'[t].result = File(t)
            \/ /\ access'[t].pc = "zarr"
               /\ File(t) # Absent /\ (File(t) \in Written => access'[t].index = File(t))
<1>1. /\ access[t].pc = "fallback" /\ access[t].pc \in ReadPcs /\ UNCHANGED <<memo, plans, index>>
      /\ UNCHANGED <<scope, disk, writes, meta, inside>> /\ UNCHANGED history
  BY DEF Fallback, ReadPcs
<1>2. PICK v : v = IF access[t].shard \in inside THEN Absent ELSE Wrong
  OBVIOUS
<1>3. PICK i : i = IF File(t) \in Written THEN File(t) ELSE Wrong
  OBVIOUS
<1>4. i \in Nat /\ v \in Nat /\ meta \in Nat /\ Absent # Wrong
  BY <1>1, <1>2, <1>3, FileType, Numbers, BoundsAssumption DEF TypeOK, Absent, Wrong
<1>5. IF v = Wrong \/ File(t) = Absent THEN Answers(t, meta, v) ELSE Reads(t, "zarr", meta, i)
  BY <1>2, <1>3 DEF Fallback, Answers, Reads, Moves
<1>6. CASE v = Wrong \/ File(t) = Absent
  <2>1. ReadStep(t) /\ access'[t].pc = "returned" /\ access'[t].result = v
    BY <1>1, <1>4, <1>5, <1>6, AnswersStep
  <2>2. access[t].shard \in inside => v = File(t)
    BY <1>2, <1>4, <1>6
  <2>3. QED
    BY <1>1, <2>1, <2>2
<1>7. CASE ~(v = Wrong \/ File(t) = Absent)
  <2>1. Reads(t, "zarr", meta, i)
    BY <1>5, <1>7
  <2>2. ReadStep(t) /\ access'[t].pc = "zarr" /\ access'[t].index = i
    BY <1>1, <1>4, <2>1, ReadsStep
  <2>3. QED
    BY <1>1, <1>3, <1>7, <2>2
<1>8. QED
  BY <1>6, <1>7

LEMMA FallbackDataStep ==
  ASSUME TypeOK, NEW t \in Users, FallbackData(t)
  PROVE  /\ access[t].pc = "zarr" /\ ReadStep(t) /\ UNCHANGED <<memo, plans, index>>
         /\ access'[t].pc = "returned"
         /\ access[t].index = File(t) => access'[t].result = File(t)
<1>1. /\ access[t].pc = "zarr" /\ access[t].pc \in ReadPcs /\ UNCHANGED <<memo, plans, index>>
      /\ UNCHANGED <<scope, disk, writes, meta, inside>> /\ UNCHANGED history
  BY DEF FallbackData, ReadPcs
<1>2. PICK r : r = IF File(t) \in {access[t].index, Absent} THEN File(t) ELSE Wrong
  OBVIOUS
<1>3. r \in Nat /\ access[t].meta \in Nat
  BY <1>1, <1>2, Fields, FileType, Numbers
<1>4. Answers(t, access[t].meta, r)
  BY <1>2 DEF FallbackData, Answer, Answers, Moves
<1>5. QED
  BY <1>1, <1>2, <1>3, <1>4, AnswersStep

\* A step between reads and writes: thread t takes up access v, which is no read.
Takes(t, v) ==
  /\ v \in Accesses /\ v.pc \notin ReadPcs
  /\ access' \in [Users -> Accesses] /\ access'[t] = v
  /\ \A u \in Users : u # t => access'[u] = access[u]

LEMMA TakesStep ==
  ASSUME TypeOK, NEW t \in Users, NEW v \in Accesses, v.pc \notin ReadPcs, Moves(t, v)
  PROVE  Takes(t, v)
  BY MoveFacts, MoveType DEF Takes

LEMMA ArrayReturnStep ==
  ASSUME TypeOK, NEW t \in Users, ArrayReturn(t)
  PROVE  /\ Takes(t, NoAccess) /\ access[t].pc = "returned"
         /\ UNCHANGED <<scope, disk, writes, meta, inside, memo, plans, index, clean>>
         /\ settled' = settled \ {t} /\ trusted' = trusted \ {t}
<1>1. NoAccess \in Accesses /\ NoAccess.pc \notin ReadPcs
  BY DEF NoAccess, Accesses, ReadPcs
<1>2. Moves(t, NoAccess)
  BY DEF ArrayReturn, Moves
<1>3. QED
  BY <1>1, <1>2, TakesStep DEF ArrayReturn

LEMMA SetBeginsStep ==
  ASSUME TypeOK, NEW t \in Users, SetBegins(t)
  PROVE  \E s \in inside :
           /\ Takes(t, [pc |-> "write", shard |-> s]) /\ access[t].pc = "idle" /\ Writing = {}
           /\ UNCHANGED <<scope, disk, writes, meta, inside, plans, index, settled>>
           /\ memo' \in {{}, memo}
           /\ trusted' = trusted \ ReadersOf({s})
           /\ clean' \subseteq Shards /\ clean \ {s} \subseteq clean'
           /\ \A x \in clean' : (x \in clean /\ x # s) \/ (memo' = {} /\ ReadersOf({x}) = {})
<1>1. PICK s \in inside, own \in BOOLEAN :
        /\ Moves(t, [pc |-> "write", shard |-> s])
        /\ memo' = MemoAfter(own) /\ trusted' = trusted \ ReadersOf({s})
        /\ clean' = CleanAfter(s, own)
  BY DEF SetBegins, Moves
<1>2. [pc |-> "write", shard |-> s] \in Accesses
  BY DEF Accesses, WritePcs, TypeOK
<1>3. Takes(t, [pc |-> "write", shard |-> s])
  BY <1>1, <1>2, TakesStep DEF ReadPcs
<1>4. memo' \in {{}, memo} /\ (own \/ memo = {} => memo' = {})
  BY <1>1 DEF MemoAfter
<1>5. /\ clean' \subseteq Shards /\ clean \ {s} \subseteq clean'
      /\ \A x \in clean' : (x \in clean /\ x # s) \/ (memo' = {} /\ ReadersOf({x}) = {})
  BY <1>1, <1>4 DEF CleanAfter, TypeOK
<1>6. QED
  BY <1>1, <1>3, <1>4, <1>5 DEF SetBegins, MayWrite

\* What a write leaves of its shard.
LEMMA WriteStep ==
  ASSUME TypeOK, NEW t \in Users, WriteBegins(t) \/ WriteEnds(t) \/ WriteFill(t)
  PROVE  /\ access[t].pc \in WritePcs /\ access[t].shard \in Shards
         /\ \/ Takes(t, [pc |-> "partial", shard |-> access[t].shard])
            \/ Takes(t, NoAccess) /\ disk'[access[t].shard] \in {Absent} \cup Written
         /\ UNCHANGED <<scope, meta, inside, memo, plans, index>> /\ UNCHANGED history
         /\ disk' \in [Shards -> Nat] /\ writes' \in Written
         /\ \A s \in Shards : s # access[t].shard => disk'[s] = disk[s]
<1>1. /\ access[t].pc \in WritePcs /\ access[t].shard \in Shards
      /\ UNCHANGED <<scope, meta, inside, memo, plans, index>> /\ UNCHANGED history
  BY Fields DEF WriteBegins, WriteEnds, WriteFill, WritePcs
<1>2. CASE WriteBegins(t)
  <2>1. /\ Moves(t, [pc |-> "partial", shard |-> access[t].shard])
        /\ disk' = [disk EXCEPT ![access[t].shard] = Partial]
        /\ writes' = writes + 1 /\ writes < MaxWrites
    BY <1>2 DEF WriteBegins, Moves
  <2>2. [pc |-> "partial", shard |-> access[t].shard] \in Accesses
    BY <1>1 DEF Accesses, WritePcs
  <2>3. Takes(t, [pc |-> "partial", shard |-> access[t].shard])
    BY <2>1, <2>2, TakesStep DEF ReadPcs
  <2>4. writes' \in Written
    BY <2>1, BoundsAssumption DEF TypeOK, Written
  <2>5. QED
    BY <1>1, <2>1, <2>3, <2>4, Numbers DEF TypeOK
<1>3. CASE WriteEnds(t) \/ WriteFill(t)
  <2>1. PICK f \in {Absent} \cup Written : disk' = [disk EXCEPT ![access[t].shard] = f]
    BY <1>3 DEF WriteEnds, WriteFill, TypeOK
  <2>2. Moves(t, NoAccess) /\ writes' = writes
    BY <1>3 DEF WriteEnds, WriteFill, Moves
  <2>3. NoAccess \in Accesses /\ NoAccess.pc \notin ReadPcs
    BY DEF NoAccess, Accesses, ReadPcs
  <2>4. Takes(t, NoAccess)
    BY <2>2, <2>3, TakesStep
  <2>5. f \in Nat
    BY Numbers
  <2>6. QED
    BY <1>1, <2>1, <2>2, <2>4, <2>5 DEF TypeOK
<1>4. QED
  BY <1>2, <1>3

LEMMA ResizeBeginsStep ==
  ASSUME TypeOK, NEW t \in Users, ResizeBegins(t)
  PROVE  \E new \in SUBSET Shards :
           /\ Takes(t, [pc |-> "resize", new |-> new, gone |-> inside \ new])
           /\ access[t].pc = "idle" /\ Writing = {}
           /\ UNCHANGED <<scope, disk, writes, meta, inside, memo, plans, index, settled>>
           /\ trusted' = trusted \ ReadersOf(Shards \ new) /\ clean' = clean \cap new
<1>1. PICK new \in SUBSET Shards :
        /\ Moves(t, [pc |-> "resize", new |-> new, gone |-> inside \ new])
        /\ trusted' = trusted \ ReadersOf(Shards \ new) /\ clean' = clean \cap new
  BY DEF ResizeBegins, Moves
<1>2. inside \ new \in SUBSET Shards
  BY DEF TypeOK
<1>3. [pc |-> "resize", new |-> new, gone |-> inside \ new] \in Accesses
  BY <1>2 DEF Accesses
<1>4. Takes(t, [pc |-> "resize", new |-> new, gone |-> inside \ new])
  BY <1>1, <1>3, TakesStep DEF ReadPcs
<1>5. QED
  BY <1>1, <1>4 DEF ResizeBegins, MayWrite

LEMMA DeleteOutsideStep ==
  ASSUME TypeOK, NEW t \in Users, DeleteOutside(t)
  PROVE  \E s \in access[t].gone :
           /\ access[t].pc = "resize" /\ s \in Shards
           /\ Takes(t, [pc |-> "resize", new |-> access[t].new, gone |-> access[t].gone \ {s}])
           /\ UNCHANGED <<scope, writes, meta, inside, memo, plans, index>> /\ UNCHANGED history
           /\ disk' \in [Shards -> Nat] /\ disk'[s] = Absent
           /\ \A x \in Shards : x # s => disk'[x] = disk[x]
<1>1. PICK s \in access[t].gone :
        /\ access[t].pc = "resize"
        /\ Moves(t, [pc |-> "resize", new |-> access[t].new, gone |-> access[t].gone \ {s}])
        /\ disk' = [disk EXCEPT ![s] = Absent]
        /\ UNCHANGED <<scope, writes, meta, inside, memo, plans, index>> /\ UNCHANGED history
  BY DEF DeleteOutside, Moves
<1>2. access[t].new \in SUBSET Shards /\ access[t].gone \ {s} \in SUBSET Shards /\ s \in Shards
  BY <1>1, Fields
<1>3. [pc |-> "resize", new |-> access[t].new, gone |-> access[t].gone \ {s}] \in Accesses
  BY <1>2 DEF Accesses
<1>4. Takes(t, [pc |-> "resize", new |-> access[t].new, gone |-> access[t].gone \ {s}])
  BY <1>1, <1>3, TakesStep DEF ReadPcs
<1>5. QED
  BY <1>1, <1>2, <1>4, Numbers DEF TypeOK

LEMMA ResizeEndsStep ==
  ASSUME TypeOK, NEW t \in Users, ResizeEnds(t)
  PROVE  /\ access[t].pc = "resize" /\ Takes(t, NoAccess)
         /\ meta' = meta + 1 /\ inside' = access[t].new /\ inside' \subseteq Shards
         /\ settled' = {} /\ clean' = Shards
         /\ UNCHANGED <<scope, disk, writes, memo, plans, index, trusted>>
<1>1. NoAccess \in Accesses /\ NoAccess.pc \notin ReadPcs
  BY DEF NoAccess, Accesses, ReadPcs
<1>2. Moves(t, NoAccess) /\ access[t].pc = "resize"
  BY DEF ResizeEnds, Moves
<1>3. QED
  BY <1>1, <1>2, TakesStep, Fields DEF ResizeEnds

LEMMA ResizeFailsStep ==
  ASSUME TypeOK, NEW t \in Users, ResizeFails(t)
  PROVE  /\ access[t].pc = "resize" /\ Takes(t, NoAccess)
         /\ UNCHANGED <<scope, disk, writes, meta, inside, memo, plans, index>>
         /\ UNCHANGED history
<1>1. NoAccess \in Accesses /\ NoAccess.pc \notin ReadPcs
  BY DEF NoAccess, Accesses, ReadPcs
<1>2. Moves(t, NoAccess)
  BY DEF ResizeFails, Moves
<1>3. QED
  BY <1>1, <1>2, TakesStep DEF ResizeFails

\* A read begins.
LEMMA ReadMetaStep ==
  ASSUME TypeOK, NEW t \in Users, ReadMeta(t)
  PROVE  \E s \in inside :
           /\ access[t].pc = "idle"
           /\ access' \in [Users -> Accesses]
           /\ access'[t] = [pc |-> "lookup", shard |-> s, meta |-> meta]
           /\ \A u \in Users : u # t => access'[u] = access[u]
           /\ UNCHANGED <<scope, disk, writes, meta, inside, memo, plans, index>>
           /\ settled' = settled \cup {t}
           /\ trusted \subseteq trusted' /\ (s \in clean \ Busy => t \in trusted')
           /\ \A u \in trusted' : u \in trusted \/ (u = t /\ s \in clean \ Busy)
           /\ clean' = clean \ ({s} \cap Busy)
<1>1. PICK s \in inside :
        /\ Moves(t, [pc |-> "lookup", shard |-> s, meta |-> meta])
        /\ trusted' = trusted \cup {r \in {t} : s \in clean \ Busy}
        /\ clean' = clean \ ({s} \cap Busy)
  BY DEF ReadMeta, Moves
<1>2. [pc |-> "lookup", shard |-> s, meta |-> meta] \in Accesses
  BY DEF Accesses, TypeOK
<1>3. /\ trusted \subseteq trusted' /\ (s \in clean \ Busy => t \in trusted')
      /\ \A u \in trusted' : u \in trusted \/ (u = t /\ s \in clean \ Busy)
  BY <1>1
<1>4. /\ access' \in [Users -> Accesses]
      /\ access'[t] = [pc |-> "lookup", shard |-> s, meta |-> meta]
      /\ \A u \in Users : u # t => access'[u] = access[u]
  BY <1>1, <1>2, MoveFacts, MoveType
<1>5. QED
  BY <1>1, <1>3, <1>4 DEF ReadMeta

-----------------------------------------------------------------------------
(* Types, and the metadata a read is planned from *)

\* The steps of a read but its first and its last.
Continues(t) == \/ LookUp(t) \/ Build(t) \/ NotPlanned(t) \/ IndexCached(t) \/ IndexStat(t)
                \/ IndexFetch(t) \/ Data(t) \/ Fallback(t) \/ FallbackData(t)

LEMMA ContinuesStep ==
  ASSUME TypeOK, MemoIsOne, NEW t \in Users, Continues(t)
  PROVE  /\ ReadStep(t) /\ MemoIsOne'
         /\ memo' \subseteq [meta : Nat, plan : 0..MaxPlans]
         /\ plans' \in 0..MaxPlans /\ index' \in [Plans -> [Shards -> Nat]]
<1>1. ASSUME UNCHANGED <<memo, plans, index>>
      PROVE  /\ memo' \subseteq [meta : Nat, plan : 0..MaxPlans] /\ MemoIsOne'
             /\ plans' \in 0..MaxPlans /\ index' \in [Plans -> [Shards -> Nat]]
  BY <1>1 DEF TypeOK, MemoIsOne
<1>2. CASE LookUp(t)
  BY <1>1, <1>2, LookUpStep
<1>3. CASE Build(t)
  <2>1. access[t].meta \in Nat /\ plans' \in 0..MaxPlans
    BY <1>3, BuildStep, Fields, Numbers DEF ReadPcs, Plans
  <2>2. MemoIsOne' /\ memo' \subseteq [meta : Nat, plan : 0..MaxPlans]
    BY <1>3, <2>1, BuildStep DEF MemoIsOne
  <2>3. QED
    BY <1>3, <2>1, <2>2, BuildStep
<1>4. CASE NotPlanned(t)
  <2>1. access[t].meta \in Nat /\ NoPlan \in 0..MaxPlans
    BY <1>4, NotPlannedStep, Fields, Numbers DEF ReadPcs
  <2>2. MemoIsOne' /\ memo' \subseteq [meta : Nat, plan : 0..MaxPlans]
    BY <1>4, <2>1, NotPlannedStep DEF MemoIsOne
  <2>3. QED
    BY <1>4, <2>2, NotPlannedStep DEF TypeOK
<1>5. CASE IndexCached(t) \/ IndexStat(t) \/ Data(t) \/ Fallback(t) \/ FallbackData(t)
  BY <1>1, <1>5, IndexCachedStep, IndexStatStep, DataStep, FallbackStep, FallbackDataStep
<1>6. CASE IndexFetch(t)
  BY <1>6, IndexFetchStep DEF Stores, TypeOK, MemoIsOne
<1>7. QED
  BY <1>2, <1>3, <1>4, <1>5, <1>6 DEF Continues

LEMMA MetaInit == ArrayInit => MetaInv
<1> SUFFICES ASSUME ArrayInit PROVE MetaInv
  OBVIOUS
<1>1. access \in [Users -> Accesses]
  BY DEF ArrayInit, NoAccess, Accesses
<1>2. TypeOK
  BY <1>1, BoundsAssumption DEF ArrayInit, TypeOK, Absent, Written
<1>3. QED
  BY <1>2 DEF ArrayInit, MetaInv, MemoIsOne, PlannedNow

LEMMA MetaPreserves == MetaInv /\ [ArrayNext]_arrayVars => MetaInv'
<1> SUFFICES ASSUME MetaInv, [ArrayNext]_arrayVars PROVE MetaInv'
  OBVIOUS
<1>0. TypeOK /\ MemoIsOne /\ PlannedNow /\ settled \subseteq Users
  BY DEF MetaInv
<1>1. CASE UNCHANGED arrayVars
  BY <1>0, <1>1 DEF arrayVars, MetaInv, TypeOK, MemoIsOne, PlannedNow
<1>2. ASSUME NEW t \in Users, ReadMeta(t)
      PROVE  MetaInv'
  <2>1. TypeOK' /\ MemoIsOne'
    BY <1>0, <1>2, ReadMetaStep DEF TypeOK, MemoIsOne
  <2>2. /\ access'[t].meta = meta /\ meta' = meta /\ settled' = settled \cup {t}
        /\ \A u \in Users : u # t => access'[u] = access[u]
    <3>1. PICK s \in inside : /\ access'[t] = [pc |-> "lookup", shard |-> s, meta |-> meta]
                              /\ \A u \in Users : u # t => access'[u] = access[u]
      BY <1>0, <1>2, ReadMetaStep
    <3>2. QED
      BY <1>2, <3>1 DEF ReadMeta
  <2>3. QED
    BY <1>0, <2>1, <2>2 DEF MetaInv, PlannedNow
<1>3. ASSUME NEW t \in Users, Continues(t)
      PROVE  MetaInv'
  <2>1. ReadStep(t)
    BY <1>0, <1>3, ContinuesStep
  <2>2. TypeOK' /\ MemoIsOne'
    BY <1>0, <1>3, ContinuesStep DEF ReadStep, TypeOK
  <2>3. ASSUME NEW u \in settled, access'[u].pc \in ReadPcs \ {"fallback"}
        PROVE  access'[u].meta = meta
    BY <1>0, <2>1, <2>3 DEF ReadStep, PlannedNow
  <2>4. QED
    BY <1>0, <2>1, <2>2, <2>3 DEF ReadStep, MetaInv, PlannedNow
\* A step that leaves the metadata and takes up no read.
<1>4. ASSUME NEW t \in Users, NEW v, Takes(t, v), UNCHANGED <<scope, meta, inside, plans, index>>,
             memo' \in {{}, memo}, disk' \in [Shards -> Nat], writes' \in Written,
             settled' \subseteq settled, clean' \subseteq Shards
      PROVE  MetaInv'
  <2>1. TypeOK' /\ MemoIsOne'
    BY <1>0, <1>4 DEF Takes, TypeOK, MemoIsOne
  <2>2. PlannedNow'
    BY <1>0, <1>4 DEF Takes, PlannedNow
  <2>3. QED
    BY <1>0, <1>4, <2>1, <2>2 DEF MetaInv
<1>5. ASSUME NEW t \in Users, ArrayReturn(t)
      PROVE  MetaInv'
  BY <1>0, <1>4, <1>5, ArrayReturnStep DEF TypeOK
<1>6. ASSUME NEW t \in Users, SetBegins(t)
      PROVE  MetaInv'
  BY <1>0, <1>4, <1>6, SetBeginsStep DEF TypeOK
<1>7. ASSUME NEW t \in Users, WriteBegins(t) \/ WriteEnds(t) \/ WriteFill(t)
      PROVE  MetaInv'
  BY <1>0, <1>4, <1>7, WriteStep DEF TypeOK, history
<1>8. ASSUME NEW t \in Users, ResizeBegins(t)
      PROVE  MetaInv'
  BY <1>0, <1>4, <1>8, ResizeBeginsStep DEF TypeOK
<1>9. ASSUME NEW t \in Users, DeleteOutside(t)
      PROVE  MetaInv'
  BY <1>0, <1>4, <1>9, DeleteOutsideStep DEF TypeOK, history
<1>10. ASSUME NEW t \in Users, ResizeFails(t)
       PROVE  MetaInv'
  BY <1>0, <1>4, <1>10, ResizeFailsStep DEF TypeOK, history
<1>11. ASSUME NEW t \in Users, ResizeEnds(t)
       PROVE  MetaInv'
  BY <1>0, <1>11, ResizeEndsStep DEF Takes, MetaInv, TypeOK, MemoIsOne, PlannedNow
<1>12. QED
  BY <1>1, <1>2, <1>3, <1>5, <1>6, <1>7, <1>8, <1>9, <1>10, <1>11
     DEF ArrayNext, Get, Set, Continues

\* A read that no resize overlapped was planned from the current metadata,
\* whatever else overlapped it.
THEOREM ReadsUseCurrentMetadata == ArraySpec => []ReadsCurrentMetadata
<1>1. MetaInv => ReadsCurrentMetadata
  BY DEF MetaInv, PlannedNow, ReadPcs, ReadsCurrentMetadata
<1>2. QED
  BY <1>1, MetaInit, MetaPreserves, PTL DEF ArraySpec

-----------------------------------------------------------------------------
(* Who holds which plan *)

Planning(t) == access[t].pc \in {"lookup", "build", "index", "fetch"}
InHand(t)   == access[t].pc \in {"index", "fetch"}

\* Metadata and plans are numbered as they come, and a plan is of one metadata
\* object whoever holds it.
HeldInv ==
  /\ \A e \in memo : e.meta <= meta /\ e.plan <= plans
  /\ \A t \in Users : Planning(t) => access[t].meta <= meta
  /\ \A t \in Users : InHand(t) =>
       /\ access[t].plan <= plans
       /\ \A e \in memo : e.plan = access[t].plan => e.meta = access[t].meta
       /\ \A u \in Users : InHand(u) /\ access[u].plan = access[t].plan =>
                             access[u].meta = access[t].meta

LEMMA HeldInit == ArrayInit => HeldInv
  BY DEF ArrayInit, HeldInv, NoAccess, Planning, InHand

\* A step of thread t that builds no plan and has none in hand but the one it
\* had, or one of the memo.
LEMMA HeldStep ==
  ASSUME MetaInv, HeldInv, NEW t \in Users, \A u \in Users : u # t => access'[u] = access[u],
         memo' \in {{}, memo}, plans' = plans, meta' \in {meta, meta + 1},
         Planning(t)' =>
           access'[t].meta = meta \/ (Planning(t) /\ access'[t].meta = access[t].meta),
         InHand(t)' =>
           \/ InHand(t) /\ access'[t].plan = access[t].plan /\ access'[t].meta = access[t].meta
           \/ \E e \in memo : e.plan = access'[t].plan /\ e.meta = access'[t].meta
  PROVE  HeldInv'
<1>0. /\ MemoIsOne /\ meta \in Nat /\ meta' \in Nat /\ meta <= meta'
      /\ \A e \in memo : e.meta \in Nat
      /\ \A u \in Users : Planning(u) => access[u].meta \in Nat
  BY Fields DEF MetaInv, TypeOK, Planning, ReadPcs
<1>1. \A e \in memo' : e \in memo /\ e.meta <= meta' /\ e.plan <= plans'
  BY <1>0 DEF HeldInv
<1>2. ASSUME NEW u \in Users, Planning(u)' PROVE access'[u].meta <= meta'
  <2>1. CASE u # t
    BY <1>0, <1>2, <2>1 DEF HeldInv, Planning
  <2>2. CASE u = t
    BY <1>0, <1>2, <2>2 DEF HeldInv
  <2>3. QED
    BY <2>1, <2>2
\* What thread u has in hand, it had, or the memo.
<1>3. ASSUME NEW u \in Users, InHand(u)'
      PROVE  \/ InHand(u) /\ access'[u].plan = access[u].plan /\ access'[u].meta = access[u].meta
             \/ \E e \in memo : e.plan = access'[u].plan /\ e.meta = access'[u].meta
  BY <1>3 DEF InHand
<1>4. ASSUME NEW u \in Users, InHand(u)'
      PROVE  /\ access'[u].plan <= plans
             /\ \A e \in memo : e.plan = access'[u].plan => e.meta = access'[u].meta
  BY <1>0, <1>3, <1>4 DEF HeldInv, MemoIsOne
<1>5. ASSUME NEW u \in Users, NEW v \in Users, InHand(u)', InHand(v)',
             access'[v].plan = access'[u].plan
      PROVE  access'[v].meta = access'[u].meta
  <2>1. CASE \E e \in memo : e.plan = access'[u].plan /\ e.meta = access'[u].meta
    BY <1>4, <1>5, <2>1
  <2>2. CASE \E e \in memo : e.plan = access'[v].plan /\ e.meta = access'[v].meta
    BY <1>4, <1>5, <2>2
  <2>3. CASE /\ InHand(u) /\ access'[u].plan = access[u].plan /\ access'[u].meta = access[u].meta
             /\ InHand(v) /\ access'[v].plan = access[v].plan /\ access'[v].meta = access[v].meta
    BY <1>5, <2>3 DEF HeldInv
  <2>4. QED
    BY <1>3, <1>5, <2>1, <2>2, <2>3
<1>6. QED
  BY <1>1, <1>2, <1>4, <1>5 DEF HeldInv

LEMMA HeldPreserves == MetaInv /\ HeldInv /\ [ArrayNext]_arrayVars => HeldInv'
<1> SUFFICES ASSUME MetaInv, HeldInv, [ArrayNext]_arrayVars PROVE HeldInv'
  OBVIOUS
<1>0. /\ TypeOK /\ MemoIsOne /\ meta \in Nat /\ plans \in Nat
      /\ \A t \in Users : Planning(t) => access[t].meta \in Nat
      /\ \A t \in Users : InHand(t) => access[t].plan \in Plans
  BY Fields, Numbers DEF MetaInv, TypeOK, Planning, InHand, ReadPcs
<1>1. CASE UNCHANGED arrayVars
  BY <1>1 DEF arrayVars, HeldInv, Planning, InHand
<1>2. ASSUME NEW t \in Users, ReadMeta(t)
      PROVE  HeldInv'
  <2>1. /\ access'[t].pc = "lookup" /\ access'[t].meta = meta
        /\ \A u \in Users : u # t => access'[u] = access[u]
        /\ UNCHANGED <<meta, memo, plans>>
    <3>1. PICK s \in inside : /\ access'[t] = [pc |-> "lookup", shard |-> s, meta |-> meta]
                              /\ \A u \in Users : u # t => access'[u] = access[u]
      BY <1>0, <1>2, ReadMetaStep
    <3>2. QED
      BY <1>2, <3>1 DEF ReadMeta
  <2>2. QED
    BY <2>1, HeldStep DEF InHand
<1>3. ASSUME NEW t \in Users, LookUp(t)
      PROVE  HeldInv'
  <2>1. /\ access[t].pc = "lookup" /\ ReadStep(t) /\ UNCHANGED <<memo, plans>>
        /\ Planning(t)' => access'[t].meta = access[t].meta
        /\ InHand(t)' => \E e \in memo : e.plan = access'[t].plan /\ e.meta = access'[t].meta
    BY <1>0, <1>3, LookUpStep DEF Planning, InHand
  <2>2. QED
    BY <2>1, HeldStep DEF ReadStep, Planning
<1>4. ASSUME NEW t \in Users, Build(t)
      PROVE  HeldInv'
  <2>1. PICK n \in Plans : n = plans' /\ n = plans + 1
    BY <1>0, <1>4, BuildStep
  <2>2. /\ access[t].pc = "build" /\ ReadStep(t)
        /\ memo' = {[meta |-> access[t].meta, plan |-> n]}
        /\ InHand(t)' => access'[t].plan = n
        /\ Planning(t)' => access'[t].meta = access[t].meta
    BY <1>0, <1>4, <2>1, BuildStep DEF Planning, InHand
  <2>3. access[t].meta \in Nat /\ access[t].meta <= meta
    BY <1>0, <2>2 DEF Planning, HeldInv
  <2>4. \A u \in Users : u # t => /\ Planning(u)' => Planning(u) /\ access'[u].meta = access[u].meta
                                  /\ InHand(u)' => InHand(u) /\ access'[u].plan = access[u].plan
    BY <2>2 DEF ReadStep, Planning, InHand
  <2>5. \A u \in Users : u # t /\ InHand(u)' => access'[u].plan <= plans /\ access'[u].plan # n
    BY <1>0, <2>1, <2>4, Numbers DEF HeldInv
  <2>6. \A e \in memo' : e.meta = access[t].meta /\ e.plan = n
    BY <2>2
  <2>7. \A u \in Users : Planning(u)' => access'[u].meta <= meta
    BY <2>2, <2>3, <2>4 DEF HeldInv
  <2>8. ASSUME NEW u \in Users, InHand(u)'
        PROVE  /\ access'[u].plan <= n
               /\ access'[u].plan = n => u = t
    <3>1. n \in Nat /\ n = plans + 1
      BY <2>1, Numbers
    <3>2. CASE u = t
      BY <2>2, <2>8, <3>1, <3>2
    <3>3. CASE u # t
      <4>1. access'[u].plan <= plans /\ access'[u].plan # n /\ access'[u].plan \in Plans
        BY <1>0, <2>4, <2>5, <2>8, <3>3
      <4>2. PICK q \in Nat : q = access'[u].plan
        BY <4>1, Numbers
      <4>3. q <= plans /\ plans <= n /\ q # n
        BY <1>0, <3>1, <4>1, <4>2
      <4>4. q <= n
        BY <1>0, <3>1, <4>3
      <4>5. QED
        BY <3>3, <4>2, <4>3, <4>4
    <3>4. QED
      BY <3>2, <3>3
  <2>9. ASSUME NEW u \in Users, NEW v \in Users, InHand(u)', InHand(v)',
               access'[v].plan = access'[u].plan
        PROVE  access'[v].meta = access'[u].meta
    <3>1. CASE access'[u].plan = n
      BY <2>8, <2>9, <3>1
    <3>2. CASE access'[u].plan # n
      <4>1. u # t /\ v # t
        BY <2>2, <2>9, <3>2
      <4>2. QED
        BY <2>2, <2>4, <2>9, <4>1 DEF HeldInv, ReadStep
    <3>3. QED
      BY <3>1, <3>2
  <2>10. InHand(t)' => access'[t].meta = access[t].meta
    BY <2>2 DEF InHand, Planning
  <2>11. meta' = meta /\ plans' = n
    BY <2>1, <2>2 DEF ReadStep
  <2>12. \A e \in memo' : e.meta <= meta' /\ e.plan <= plans'
    BY <2>1, <2>3, <2>6, <2>11, Numbers
  <2>13. ASSUME NEW u \in Users, InHand(u)'
         PROVE  /\ access'[u].plan <= plans'
                /\ \A e \in memo' : e.plan = access'[u].plan => e.meta = access'[u].meta
    BY <2>6, <2>8, <2>10, <2>11, <2>13
  <2>14. QED
    BY <2>7, <2>9, <2>11, <2>12, <2>13 DEF HeldInv
<1>5. ASSUME NEW t \in Users, NotPlanned(t)
      PROVE  HeldInv'
  <2>1. /\ access[t].pc = "build" /\ ReadStep(t) /\ access'[t].pc = "fallback"
        /\ plans' = plans /\ memo' = {[meta |-> access[t].meta, plan |-> NoPlan]}
    BY <1>0, <1>5, NotPlannedStep
  <2>2. access[t].meta <= meta
    BY <2>1 DEF HeldInv, Planning
  <2>3. \A u \in Users : /\ Planning(u)' => Planning(u) /\ access'[u] = access[u]
                         /\ InHand(u)' => InHand(u) /\ access'[u] = access[u]
    BY <2>1 DEF ReadStep, Planning, InHand
  <2>4. \A e \in memo' : e.meta = access[t].meta /\ e.plan = 0
    BY <2>1, Numbers
  <2>5. \A u \in Users : InHand(u)' => access'[u].plan # 0
    BY <1>0, <2>3, Numbers
  <2>6. meta' = meta
    BY <2>1 DEF ReadStep
  <2>7. \A e \in memo' : e.meta <= meta /\ e.plan <= plans
    BY <1>0, <2>2, <2>4
  <2>8. QED
    BY <2>1, <2>3, <2>4, <2>5, <2>6, <2>7 DEF HeldInv
<1>6. ASSUME NEW t \in Users,
             \/ IndexCached(t) \/ IndexStat(t) \/ IndexFetch(t) \/ Data(t)
             \/ Fallback(t) \/ FallbackData(t)
      PROVE  HeldInv'
  <2>1. /\ ReadStep(t) /\ UNCHANGED <<memo, plans>>
        /\ Planning(t)' => InHand(t) /\ access'[t].meta = access[t].meta
        /\ InHand(t)' => access'[t].plan = access[t].plan
    BY <1>0, <1>6, IndexCachedStep, IndexStatStep, IndexFetchStep, DataStep, FallbackStep,
       FallbackDataStep DEF Planning, InHand
  <2>2. QED
    BY <2>1, HeldStep DEF ReadStep, Planning, InHand
<1>7. ASSUME NEW t \in Users, NEW v, Takes(t, v), meta' \in {meta, meta + 1}, plans' = plans,
             memo' \in {{}, memo}
      PROVE  HeldInv'
  <2>1. access'[t].pc \notin ReadPcs /\ \A u \in Users : u # t => access'[u] = access[u]
    BY <1>7 DEF Takes
  <2>2. ~Planning(t)' /\ ~InHand(t)'
    BY <2>1 DEF Planning, InHand, ReadPcs
  <2>3. QED
    BY <1>7, <2>1, <2>2, HeldStep
<1>8. ASSUME NEW t \in Users, ArrayReturn(t)
      PROVE  HeldInv'
  BY <1>0, <1>7, <1>8, ArrayReturnStep
<1>9. ASSUME NEW t \in Users, Set(t)
      PROVE  HeldInv'
  <2>1. CASE SetBegins(t)
    BY <1>0, <1>7, <2>1, SetBeginsStep
  <2>2. CASE WriteBegins(t) \/ WriteEnds(t) \/ WriteFill(t)
    BY <1>0, <1>7, <2>2, WriteStep
  <2>3. CASE ResizeBegins(t)
    BY <1>0, <1>7, <2>3, ResizeBeginsStep
  <2>4. CASE DeleteOutside(t)
    BY <1>0, <1>7, <2>4, DeleteOutsideStep
  <2>5. CASE ResizeEnds(t) \/ ResizeFails(t)
    BY <1>0, <1>7, <2>5, ResizeEndsStep, ResizeFailsStep
  <2>6. QED
    BY <1>9, <2>1, <2>2, <2>3, <2>4, <2>5 DEF Set
<1>10. QED
  BY <1>1, <1>2, <1>3, <1>4, <1>5, <1>6, <1>8, <1>9 DEF ArrayNext, Get

-----------------------------------------------------------------------------
(* Writers exclude each other, and stay away from the shards of trusted reads *)

WriterPcs == {"resize"} \cup WritePcs

WriterInv ==
  /\ \A t, u \in Writing : t = u
  /\ \A t \in Users : access[t].pc = "resize" => access[t].gone \cap access[t].new = {}
  /\ \A s \in Shards : \/ disk[s] \in {Absent} \cup Written
                       \/ \E t \in Users : access[t].pc = "partial" /\ access[t].shard = s
  /\ \A t \in trusted : t \in Reading /\ access[t].shard \in inside \ Busy

LEMMA WriterPcFacts ==
  /\ \A t \in Users : t \in Writing <=> access[t].pc \in WriterPcs
  /\ \A t \in Users : access[t].pc \in ReadPcs => t \in Reading
  /\ \A pc \in ReadPcs : pc \notin WriterPcs /\ pc # "idle"
  /\ \A s : s \in Busy <=> \E t \in Writing : s \in Touched(t)
  /\ Writing \subseteq Users /\ Reading \subseteq Users
  BY DEF Writing, Reading, WriterPcs, WritePcs, ReadPcs, Busy

LEMMA ReadingPc ==
  ASSUME TypeOK, NEW t \in Users
  PROVE  t \in Reading <=> access[t].pc \in ReadPcs
  BY Pcs DEF Reading, ReadPcs, WritePcs

\* A step of a thread that is no writer before or after leaves the writers.
LEMMA BusySame ==
  ASSUME NEW t \in Users, \A u \in Users : u # t => access'[u] = access[u],
         access[t].pc \notin WriterPcs, access'[t].pc \notin WriterPcs
  PROVE  Writing' = Writing /\ Busy' = Busy
<1>1. Writing' = Writing
  BY DEF Writing, WriterPcs
<1>2. \A u \in Writing : Touched(u)' = Touched(u)
  BY DEF Writing, WriterPcs, Touched
<1>3. QED
  BY <1>1, <1>2 DEF Busy

\* A step of the only thread that may be a writer.
LEMMA BusyTakes ==
  ASSUME NEW t \in Users, \A u \in Users : u # t => access'[u] = access[u], Writing \subseteq {t}
  PROVE  /\ access'[t].pc \in WriterPcs => Writing' = {t} /\ Busy' = Touched(t)'
         /\ access'[t].pc \notin WriterPcs => Writing' = {} /\ Busy' = {}
<1>1. \A u \in Users : u \in Writing' <=> u = t /\ access'[t].pc \in WriterPcs
  BY DEF Writing, WriterPcs
<1>2. Writing' \subseteq Users
  BY DEF Writing
<1>3. CASE access'[t].pc \in WriterPcs
  <2>1. Writing' = {t}
    BY <1>1, <1>2, <1>3
  <2>2. Busy' = UNION {Touched(u)' : u \in {t}}
    BY <2>1 DEF Busy
  <2>3. UNION {Touched(u)' : u \in {t}} = Touched(t)'
    OBVIOUS
  <2>4. QED
    BY <1>3, <2>1, <2>2, <2>3
<1>4. CASE access'[t].pc \notin WriterPcs
  <2>1. Writing' = {}
    BY <1>1, <1>2, <1>4
  <2>2. QED
    BY <1>4, <2>1 DEF Busy
<1>5. QED
  BY <1>3, <1>4

LEMMA WriterInit == ArrayInit => WriterInv
<1> SUFFICES ASSUME ArrayInit PROVE WriterInv
  OBVIOUS
<1>1. \A t \in Users : access[t].pc = "idle"
  BY DEF ArrayInit, NoAccess
<1>2. Writing = {} /\ trusted = {}
  BY <1>1 DEF ArrayInit, Writing, WritePcs
<1>3. \A s \in Shards : disk[s] \in {Absent} \cup Written
  BY BoundsAssumption DEF ArrayInit, Absent, Written
<1>4. QED
  BY <1>1, <1>2, <1>3 DEF WriterInv

\* A step of a writer, or of a thread that becomes or was one. What it takes up
\* does not touch the shards of the reads that are trusted afterwards.
LEMMA WriterTakes ==
  ASSUME TypeOK, WriterInv, NEW t \in Users, access[t].pc \notin ReadPcs, Writing \subseteq {t},
         NEW v, Takes(t, v),
         v.pc = "resize" => v.gone \cap v.new = {},
         \A s \in Shards : \/ disk'[s] \in {Absent} \cup Written
                           \/ v.pc = "partial" /\ v.shard = s,
         trusted' \subseteq trusted,
         \A u \in trusted' : access[u].shard \in inside' /\
           (v.pc \in WriterPcs => access[u].shard \notin Touched(t)')
  PROVE  WriterInv'
<1>1. access'[t] = v /\ \A u \in Users : u # t => access'[u] = access[u]
  BY DEF Takes
<1>2. /\ v.pc \in WriterPcs => Writing' = {t} /\ Busy' = Touched(t)'
      /\ v.pc \notin WriterPcs => Writing' = {} /\ Busy' = {}
  BY <1>1, BusyTakes
<1>3. \A u, w \in Writing' : u = w
  BY <1>2
<1>4. ASSUME NEW u \in Users, access'[u].pc = "resize"
      PROVE  access'[u].gone \cap access'[u].new = {}
  BY <1>1, <1>4 DEF WriterInv
<1>5. ASSUME NEW s \in Shards
      PROVE  \/ disk'[s] \in {Absent} \cup Written
             \/ \E u \in Users : access'[u].pc = "partial" /\ access'[u].shard = s
  BY <1>1, <1>5
<1>6. ASSUME NEW u \in trusted'
      PROVE  u \in Reading' /\ access'[u].shard \in inside' \ Busy'
  <2>1. u \in trusted /\ u \in Reading /\ u \in Users
    BY <1>6, WriterPcFacts DEF WriterInv
  <2>2. u # t
    BY <2>1, ReadingPc
  <2>3. access'[u] = access[u]
    BY <1>1, <2>1, <2>2
  <2>4. u \in Reading'
    BY <2>1, <2>3 DEF Reading
  <2>5. QED
    BY <1>2, <1>6, <2>3, <2>4
<1>7. QED
  BY <1>3, <1>4, <1>5, <1>6 DEF WriterInv

LEMMA WriterPreserves == MetaInv /\ WriterInv /\ [ArrayNext]_arrayVars => WriterInv'
<1> SUFFICES ASSUME MetaInv, WriterInv, [ArrayNext]_arrayVars PROVE WriterInv'
  OBVIOUS
<1>0. TypeOK /\ MemoIsOne
  BY DEF MetaInv
<1>1. CASE UNCHANGED arrayVars
  BY <1>1 DEF arrayVars, WriterInv, Writing, Reading, Busy, Touched
\* A step of a reader.
<1>2. ASSUME NEW t \in Users, \A u \in Users : u # t => access'[u] = access[u],
             access[t].pc \notin WriterPcs, access'[t].pc \notin WriterPcs,
             disk' = disk, inside' = inside,
             \A u \in trusted' : u # t => u \in trusted,
             t \in trusted' => t \in Reading' /\ access'[t].shard \in inside \ Busy
      PROVE  WriterInv'
  <2>1. Writing' = Writing /\ Busy' = Busy
    BY <1>2, BusySame
  <2>2. \A u \in Users : access'[u].pc \in WriterPcs => access'[u] = access[u]
    BY <1>2
  <2>3. ASSUME NEW u \in Users, access'[u].pc = "resize"
        PROVE  access'[u].gone \cap access'[u].new = {}
    BY <2>2, <2>3 DEF WriterInv, WriterPcs
  <2>4. ASSUME NEW s \in Shards
        PROVE  \/ disk'[s] \in {Absent} \cup Written
               \/ \E u \in Users : access'[u].pc = "partial" /\ access'[u].shard = s
    BY <1>2, <2>4 DEF WriterInv, WriterPcs, WritePcs
  <2>5. ASSUME NEW u \in trusted'
        PROVE  u \in Reading' /\ access'[u].shard \in inside' \ Busy'
    <3>1. CASE u = t
      BY <1>2, <2>1, <2>5, <3>1
    <3>2. CASE u # t
      <4>1. u \in trusted /\ u \in Reading /\ access[u].shard \in inside \ Busy /\ u \in Users
        BY <1>2, <2>5, <3>2 DEF WriterInv, Reading
      <4>2. access'[u] = access[u]
        BY <1>2, <3>2, <4>1
      <4>3. QED
        BY <1>2, <2>1, <4>1, <4>2 DEF Reading
    <3>3. QED
      BY <3>1, <3>2
  <2>6. QED
    BY <2>1, <2>3, <2>4, <2>5 DEF WriterInv
<1>3. ASSUME NEW t \in Users, ReadMeta(t)
      PROVE  WriterInv'
  <2>1. PICK s \in inside :
          /\ access[t].pc = "idle"
          /\ access'[t] = [pc |-> "lookup", shard |-> s, meta |-> meta]
          /\ \A u \in Users : u # t => access'[u] = access[u]
          /\ \A u \in trusted' : u \in trusted \/ (u = t /\ s \in clean \ Busy)
    BY <1>0, <1>3, ReadMetaStep
  <2>2. disk' = disk /\ inside' = inside
    BY <1>3 DEF ReadMeta
  <2>3. t \notin trusted
    BY <2>1 DEF WriterInv, Reading
  <2>4. access'[t].pc = "lookup" /\ access'[t].shard = s
    BY <2>1
  <2>5. t \in Reading'
    BY <2>4 DEF Reading, WritePcs
  <2>6. t \in trusted' => s \in inside \ Busy
    BY <2>1, <2>3
  <2>7. QED
    BY <1>2, <2>1, <2>2, <2>4, <2>5, <2>6 DEF WriterPcs, WritePcs
<1>4. ASSUME NEW t \in Users, Continues(t)
      PROVE  WriterInv'
  <2>1. ReadStep(t)
    BY <1>0, <1>4, ContinuesStep
  <2>2. t \in Reading' /\ access[t].pc \notin WriterPcs /\ access'[t].pc \notin WriterPcs
    BY <2>1 DEF ReadStep, ReadPcs, Reading, WriterPcs, WritePcs
  <2>3. t \in trusted => access'[t].shard \in inside \ Busy
    BY <2>1 DEF ReadStep, WriterInv
  <2>4. QED
    BY <1>2, <2>1, <2>2, <2>3 DEF ReadStep
<1>5. ASSUME NEW t \in Users, ArrayReturn(t)
      PROVE  WriterInv'
  <2>1. /\ access'[t] = NoAccess /\ access[t].pc = "returned" /\ disk' = disk /\ inside' = inside
        /\ \A u \in Users : u # t => access'[u] = access[u]
        /\ trusted' = trusted \ {t}
    BY <1>0, <1>5, ArrayReturnStep DEF Takes
  <2>2. access[t].pc \notin WriterPcs /\ access'[t].pc \notin WriterPcs
    BY <2>1 DEF WriterPcs, WritePcs, NoAccess
  <2>3. QED
    BY <1>2, <2>1, <2>2
<1>6. ASSUME NEW t \in Users, SetBegins(t)
      PROVE  WriterInv'
  <2>1. PICK s \in inside :
           /\ Takes(t, [pc |-> "write", shard |-> s]) /\ access[t].pc = "idle" /\ Writing = {}
           /\ trusted' = trusted \ ReadersOf({s})
    BY <1>0, <1>6, SetBeginsStep
  <2>2. disk' = disk /\ inside' = inside
    BY <1>6 DEF SetBegins
  <2>3. \A x \in Shards : disk[x] \in {Absent} \cup Written
    BY <2>1 DEF WriterInv, Writing, WritePcs
  <2>4. Touched(t)' = {s}
    BY <2>1 DEF Takes, Touched
  <2>5. \A u \in trusted' : u \in trusted /\ access[u].shard \in inside /\ access[u].shard # s
    BY <2>1 DEF WriterInv, ReadersOf
  <2>6. access[t].pc \notin ReadPcs
    BY <2>1 DEF ReadPcs
  <2>7. QED
    BY <1>0, <2>1, <2>2, <2>3, <2>4, <2>5, <2>6, WriterTakes
<1>7. ASSUME NEW t \in Users, WriteBegins(t) \/ WriteEnds(t) \/ WriteFill(t)
      PROVE  WriterInv'
  <2>1. /\ access[t].pc \in WritePcs /\ access[t].shard \in Shards
        /\ inside' = inside /\ trusted' = trusted
        /\ \A s \in Shards : s # access[t].shard => disk'[s] = disk[s]
    BY <1>0, <1>7, WriteStep DEF history
  <2>2. t \in Writing /\ Touched(t) = {access[t].shard} /\ access[t].pc \notin ReadPcs
    BY <2>1 DEF Writing, Touched, WritePcs, ReadPcs
  <2>3. Writing \subseteq {t}
    BY <2>2 DEF WriterInv
  <2>4. \A u \in trusted : access[u].shard \in inside /\ access[u].shard # access[t].shard
    BY <2>2, WriterPcFacts DEF WriterInv
  <2>5. \A s \in Shards : s # access[t].shard => disk'[s] \in {Absent} \cup Written
    BY <2>1, <2>3 DEF WriterInv, Writing, WritePcs
  <2>6. CASE Takes(t, [pc |-> "partial", shard |-> access[t].shard])
    <3>1. Touched(t)' = {access[t].shard}
      BY <2>6 DEF Takes, Touched
    <3>2. QED
      BY <1>0, <2>1, <2>2, <2>3, <2>4, <2>5, <2>6, <3>1, WriterTakes
  <2>7. CASE Takes(t, NoAccess) /\ disk'[access[t].shard] \in {Absent} \cup Written
    <3>1. NoAccess.pc = "idle" /\ NoAccess.pc \notin WriterPcs
      BY DEF NoAccess, WriterPcs, WritePcs
    <3>2. \A s \in Shards : disk'[s] \in {Absent} \cup Written
      BY <2>5, <2>7
    <3>3. QED
      BY <1>0, <2>1, <2>2, <2>3, <2>4, <2>7, <3>1, <3>2, WriterTakes
  <2>8. QED
    BY <1>0, <1>7, <2>6, <2>7, WriteStep
<1>8. ASSUME NEW t \in Users, ResizeBegins(t)
      PROVE  WriterInv'
  <2>1. PICK new \in SUBSET Shards :
           /\ Takes(t, [pc |-> "resize", new |-> new, gone |-> inside \ new])
           /\ access[t].pc = "idle" /\ Writing = {}
           /\ trusted' = trusted \ ReadersOf(Shards \ new)
    BY <1>0, <1>8, ResizeBeginsStep
  <2>2. disk' = disk /\ inside' = inside
    BY <1>8 DEF ResizeBegins
  <2>3. \A x \in Shards : disk[x] \in {Absent} \cup Written
    BY <2>1 DEF WriterInv, Writing, WritePcs
  <2>4. Touched(t)' = Shards \ new
    BY <2>1 DEF Takes, Touched
  <2>5. \A u \in trusted' : /\ u \in trusted /\ access[u].shard \in inside
                            /\ access[u].shard \notin Shards \ new
    BY <2>1 DEF WriterInv, ReadersOf
  <2>6. access[t].pc \notin ReadPcs
    BY <2>1 DEF ReadPcs
  <2>7. QED
    BY <1>0, <2>1, <2>2, <2>3, <2>4, <2>5, <2>6, WriterTakes
\* The steps of a resize that has begun.
<1>9. ASSUME NEW t \in Users, access[t].pc = "resize"
      PROVE  /\ Writing \subseteq {t} /\ access[t].pc \notin ReadPcs
             /\ \A s \in Shards : disk[s] \in {Absent} \cup Written
             /\ \A u \in trusted : access[u].shard \in inside /\ access[u].shard \notin Shards \ access[t].new
             /\ access[t].gone \cap access[t].new = {}
  <2>1. t \in Writing /\ Touched(t) = Shards \ access[t].new /\ access[t].pc \notin ReadPcs
    BY <1>9 DEF Writing, Touched, ReadPcs
  <2>2. Writing \subseteq {t}
    BY <2>1 DEF WriterInv
  <2>3. \A s \in Shards : disk[s] \in {Absent} \cup Written
    BY <1>9, <2>2 DEF WriterInv, Writing, WritePcs
  <2>4. \A u \in trusted : access[u].shard \in inside /\ access[u].shard \notin Shards \ access[t].new
    BY <2>1, WriterPcFacts DEF WriterInv
  <2>5. QED
    BY <1>9, <2>1, <2>2, <2>3, <2>4 DEF WriterInv
<1>10. ASSUME NEW t \in Users, DeleteOutside(t)
       PROVE  WriterInv'
  <2>1. PICK s \in access[t].gone :
           /\ access[t].pc = "resize"
           /\ Takes(t, [pc |-> "resize", new |-> access[t].new, gone |-> access[t].gone \ {s}])
           /\ disk'[s] = Absent
           /\ \A x \in Shards : x # s => disk'[x] = disk[x]
    BY <1>0, <1>10, DeleteOutsideStep
  <2>2. inside' = inside /\ trusted' = trusted
    BY <1>10 DEF DeleteOutside, history
  <2>3. Touched(t)' = Shards \ access[t].new
    BY <2>1 DEF Takes, Touched
  <2>4. \A x \in Shards : disk'[x] \in {Absent} \cup Written
    BY <1>9, <2>1
  <2>5. (access[t].gone \ {s}) \cap access[t].new = {}
    BY <1>9, <2>1
  <2>6. QED
    BY <1>0, <1>9, <2>1, <2>2, <2>3, <2>4, <2>5, WriterTakes
<1>11. ASSUME NEW t \in Users, ResizeEnds(t) \/ ResizeFails(t)
       PROVE  WriterInv'
  <2>1. /\ access[t].pc = "resize" /\ Takes(t, NoAccess) /\ disk' = disk /\ trusted' = trusted
        /\ inside' \in {inside, access[t].new}
    BY <1>0, <1>11, ResizeEndsStep, ResizeFailsStep DEF history
  <2>2. NoAccess.pc = "idle" /\ NoAccess.pc \notin WriterPcs
    BY DEF NoAccess, WriterPcs, WritePcs
  <2>3. \A u \in trusted : access[u].shard \in inside'
    BY <1>0, <1>9, <2>1 DEF TypeOK
  <2>4. QED
    BY <1>0, <1>9, <2>1, <2>2, <2>3, WriterTakes
<1>12. QED
  BY <1>1, <1>3, <1>4, <1>5, <1>6, <1>7, <1>8, <1>10, <1>11
     DEF ArrayNext, Get, Set, Continues

-----------------------------------------------------------------------------
(* What a trusted read meets *)

\* What a plan has cached of a shard is of the file there now.
Good(p, s) == index[p][s] \in {Absent, disk[s]}
MemoGood(m, s) == \A e \in memo : e.meta = m /\ e.plan # NoPlan => Good(e.plan, s)

\* The next plan for a clean shard is good, and stays so: only trusted reads are
\* about to cache its index.
CleanShard(s) ==
  /\ MemoGood(meta, s)
  /\ \A t \in Users : Planning(t) /\ access[t].shard = s /\ access[t].meta = meta => t \in trusted
  /\ \A t \in Users : access[t].pc = "resize" => s \in access[t].new
  /\ \A t \in Users : access[t].pc \in WritePcs /\ access[t].shard = s =>
       \A e \in memo : e.meta = meta /\ e.plan # NoPlan => index[e.plan][s] = Absent

Shielded(t) ==
  Planning(t) =>
    /\ MemoGood(access[t].meta, access[t].shard)
    /\ \A u \in Users :
         Planning(u) /\ access[u].shard = access[t].shard /\ access[u].meta = access[t].meta
         => u \in trusted
    /\ access[t].meta = meta => access[t].shard \in clean

Fits(t) ==
  /\ InHand(t) => Good(access[t].plan, access[t].shard)
  /\ access[t].pc = "fetch" => access[t].stat = File(t) /\ File(t) # Absent
  /\ access[t].pc \in {"data", "zarr"} => access[t].index = File(t)
  /\ access[t].pc = "returned" => access[t].result = File(t)

TrustInv ==
  /\ \A s \in clean : CleanShard(s)
  /\ \A t \in trusted : Shielded(t) /\ Fits(t)

ReadInv == MetaInv /\ HeldInv /\ WriterInv /\ TrustInv

LEMMA TrustInit == ArrayInit => TrustInv
<1> SUFFICES ASSUME ArrayInit PROVE TrustInv
  OBVIOUS
<1>1. \A t \in Users : access[t].pc = "idle"
  BY DEF ArrayInit, NoAccess
<1>2. QED
  BY <1>1 DEF ArrayInit, TrustInv, CleanShard, MemoGood, Planning, WritePcs

\* A trusted read is of a whole file, or of none, inside the shape.
LEMMA TrustedFacts ==
  ASSUME TypeOK, WriterInv, NEW t \in trusted
  PROVE  /\ t \in Users /\ access[t].pc \in ReadPcs /\ access[t].shard \in Shards
         /\ access[t].shard \in inside /\ access[t].shard \notin Busy
         /\ File(t) \in {Absent} \cup Written
<1>1. t \in Reading /\ access[t].shard \in inside \ Busy /\ t \in Users
  BY DEF WriterInv, Reading
<1>2. access[t].pc \in ReadPcs /\ access[t].shard \in Shards
  BY <1>1, ReadingPc DEF TypeOK
<1>3. ASSUME NEW u \in Users, access[u].pc = "partial"
      PROVE  access[u].shard # access[t].shard
  <2>1. u \in Writing /\ access[u].shard \in Touched(u)
    BY <1>3 DEF Writing, WritePcs, Touched
  <2>2. access[u].shard \in Busy
    BY <2>1 DEF Busy
  <2>3. QED
    BY <1>1, <2>2
<1>4. disk[access[t].shard] \in {Absent} \cup Written
  BY <1>2, <1>3 DEF WriterInv
<1>5. QED
  BY <1>1, <1>2, <1>4 DEF File

\* What a step of a read may cache: nothing, or for a trusted read the index of
\* the file there.
Caches(t) ==
  /\ ReadStep(t)
  /\ Planning(t)' => Planning(t) /\ access'[t].meta = access[t].meta
  /\ \A p \in Plans, x \in Shards :
       \/ index'[p][x] \in {index[p][x], Absent}
       \/ /\ InHand(t) /\ p = access[t].plan /\ x = access[t].shard
          /\ t \in trusted => index'[p][x] = disk[x]
  /\ \/ memo' = memo
     \/ \A e \in memo', x \in Shards : e.plan # NoPlan => index'[e.plan][x] = Absent

\* The step of a trusted read leaves it with what it needs.
LEMMA ContinuesCaches ==
  ASSUME ReadInv, NEW t \in Users, Continues(t)
  PROVE  Caches(t) /\ (t \in trusted => Fits(t)')
<1>0. /\ TypeOK /\ MemoIsOne /\ HeldInv /\ WriterInv
      /\ t \in trusted => Shielded(t) /\ Fits(t)
  BY DEF ReadInv, MetaInv, TrustInv
<1>1. /\ ReadStep(t) /\ disk' = disk /\ access'[t].shard = access[t].shard /\ File(t)' = File(t)
      /\ access[t].shard \in Shards
  BY <1>0, ContinuesStep, FileType DEF ReadStep, File
<1>2. ASSUME UNCHANGED <<memo, index>>
      PROVE  /\ memo' = memo
             /\ \A p \in Plans, x \in Shards : index'[p][x] \in {index[p][x], Absent}
  BY <1>2
<1>3. CASE LookUp(t)
  <2>1. /\ access[t].pc = "lookup" /\ UNCHANGED <<memo, index>>
        /\ Planning(t)' => access'[t].meta = access[t].meta
        /\ \/ access'[t].pc \in {"fallback", "build"}
           \/ /\ access'[t].pc = "index"
              /\ \E e \in memo : /\ e.meta = access[t].meta /\ e.plan = access'[t].plan
                                 /\ e.plan # NoPlan
    BY <1>0, <1>3, LookUpStep DEF Planning
  <2>2. t \in trusted /\ access'[t].pc = "index" => Good(access'[t].plan, access[t].shard)
    BY <1>0, <2>1 DEF Shielded, Planning, MemoGood
  <2>3. t \in trusted => Fits(t)'
    BY <1>1, <2>1, <2>2 DEF Fits, Good, InHand
  <2>4. QED
    BY <1>1, <1>2, <2>1, <2>3 DEF Caches, Planning
<1>4. CASE Build(t)
  <2>1. /\ access[t].pc = "build" /\ plans' \in Plans
        /\ \A s \in Shards : index'[plans'][s] = Absent
        /\ \A p \in Plans : p # plans' => index'[p] = index[p]
        /\ \A e \in memo' : e.plan = plans'
        /\ \/ access'[t].pc = "fallback"
           \/ /\ access'[t].pc = "index" /\ access'[t].meta = access[t].meta
              /\ access'[t].plan = plans'
    BY <1>0, <1>4, BuildStep
  <2>2. Fits(t)'
    BY <1>1, <2>1 DEF Fits, Good, InHand
  <2>3. \A p \in Plans, x \in Shards : index'[p][x] \in {index[p][x], Absent}
    BY <2>1
  <2>4. QED
    BY <1>1, <2>1, <2>2, <2>3 DEF Caches, Planning
<1>5. CASE NotPlanned(t)
  <2>1. /\ access'[t].pc = "fallback" /\ index' = index
        /\ \A e \in memo' : e.plan = NoPlan
    BY <1>0, <1>5, NotPlannedStep
  <2>2. Fits(t)'
    BY <2>1 DEF Fits, InHand
  <2>3. QED
    BY <1>1, <2>1, <2>2 DEF Caches, Planning
<1>6. CASE IndexCached(t)
  <2>1. /\ access[t].pc = "index" /\ UNCHANGED <<memo, index>>
        /\ access'[t].pc = "data" /\ access'[t].index = CachedIndex(t) /\ CachedIndex(t) # Absent
    BY <1>0, <1>6, IndexCachedStep
  <2>2. t \in trusted => CachedIndex(t) = File(t)
    BY <1>0, <2>1 DEF Fits, InHand, Good, CachedIndex, File
  <2>3. t \in trusted => Fits(t)'
    BY <1>1, <2>1, <2>2 DEF Fits, InHand
  <2>4. QED
    BY <1>1, <1>2, <2>1, <2>3 DEF Caches, Planning
<1>7. CASE IndexStat(t)
  <2>1. /\ access[t].pc = "index" /\ UNCHANGED <<memo, index>>
        /\ \/ access'[t].pc = "fallback"
           \/ access'[t].pc = "returned" /\ access'[t].result = File(t)
           \/ /\ access'[t].pc = "fetch" /\ access'[t].meta = access[t].meta
              /\ access'[t].plan = access[t].plan
              /\ access'[t].stat = File(t) /\ File(t) # Absent
    BY <1>0, <1>7, IndexStatStep
  <2>2. t \in trusted => Good(access[t].plan, access[t].shard)
    BY <1>0, <2>1 DEF Fits, InHand
  <2>3. t \in trusted => Fits(t)'
    BY <1>1, <2>1, <2>2 DEF Fits, InHand, Good
  <2>4. QED
    BY <1>1, <1>2, <2>1, <2>3 DEF Caches, Planning
<1>8. CASE IndexFetch(t)
  <2>1. /\ access[t].pc = "fetch" /\ memo' = memo
        /\ \/ File(t) = Absent /\ access'[t].pc = "returned" /\ index' = index
           \/ /\ File(t) # Absent /\ access'[t].pc = "data"
              /\ access'[t].index = FetchedIndex(File(t), access[t].stat)
              /\ Stores(t, FetchedIndex(File(t), access[t].stat))
    BY <1>0, <1>8, IndexFetchStep
  <2>2. t \in trusted => File(t) # Absent /\ FetchedIndex(File(t), access[t].stat) = File(t)
    BY <1>0, <2>1, TrustedFacts DEF Fits, FetchedIndex
  <2>3. t \in trusted => Fits(t)'
    BY <1>1, <2>1, <2>2 DEF Fits, InHand
  <2>4. ASSUME NEW p \in Plans, NEW x \in Shards
        PROVE  \/ index'[p][x] \in {index[p][x], Absent}
               \/ /\ InHand(t) /\ p = access[t].plan /\ x = access[t].shard
                  /\ t \in trusted => index'[p][x] = disk[x]
    BY <2>1, <2>2 DEF Stores, InHand, File
  <2>5. QED
    BY <1>1, <2>1, <2>3, <2>4 DEF Caches, Planning
<1>9. CASE Data(t)
  <2>1. /\ access[t].pc = "data" /\ UNCHANGED <<memo, index>>
        /\ \/ access'[t].pc = "fallback"
           \/ /\ access'[t].pc = "returned"
              /\ access[t].index = File(t) => access'[t].result = File(t)
    BY <1>0, <1>9, DataStep
  <2>2. t \in trusted => Fits(t)'
    BY <1>0, <1>1, <2>1 DEF Fits, InHand
  <2>3. QED
    BY <1>1, <1>2, <2>1, <2>2 DEF Caches, Planning
<1>10. CASE Fallback(t)
  <2>1. /\ access[t].pc = "fallback" /\ UNCHANGED <<memo, index>>
        /\ \/ /\ access'[t].pc = "returned"
              /\ access[t].shard \in inside => access'[t].result = File(t)
           \/ /\ access'[t].pc = "zarr"
              /\ File(t) # Absent /\ (File(t) \in Written => access'[t].index = File(t))
    BY <1>0, <1>10, FallbackStep
  <2>2. t \in trusted => access[t].shard \in inside /\ File(t) \in {Absent} \cup Written
    BY <1>0, TrustedFacts
  <2>3. t \in trusted => Fits(t)'
    BY <1>1, <2>1, <2>2 DEF Fits, InHand
  <2>4. QED
    BY <1>1, <1>2, <2>1, <2>3 DEF Caches, Planning
<1>11. CASE FallbackData(t)
  <2>1. /\ access[t].pc = "zarr" /\ UNCHANGED <<memo, index>> /\ access'[t].pc = "returned"
        /\ access[t].index = File(t) => access'[t].result = File(t)
    BY <1>0, <1>11, FallbackDataStep
  <2>2. t \in trusted => Fits(t)'
    BY <1>0, <1>1, <2>1 DEF Fits, InHand
  <2>3. QED
    BY <1>1, <1>2, <2>1, <2>2 DEF Caches, Planning
<1>12. QED
  BY <1>3, <1>4, <1>5, <1>6, <1>7, <1>8, <1>9, <1>10, <1>11 DEF Continues

\* While only trusted reads of shard s are planning with metadata m, what the
\* memo has of s for m stays good.
LEMMA CachesGood ==
  ASSUME ReadInv, NEW t \in Users, Caches(t), NEW m, NEW s \in Shards, MemoGood(m, s),
         \A u \in Users : Planning(u) /\ access[u].shard = s /\ access[u].meta = m => u \in trusted
  PROVE  MemoGood(m, s)'
<1>0. TypeOK /\ HeldInv
  BY DEF ReadInv, MetaInv
<1>1. SUFFICES ASSUME NEW e \in memo', e.meta = m, e.plan # NoPlan
               PROVE  index'[e.plan][s] \in {Absent, disk[s]}
  BY DEF MemoGood, Good, Caches, ReadStep
<1>2. CASE \A x \in Shards : index'[e.plan][x] = Absent
  BY <1>2
<1>3. CASE memo' = memo
  <2>1. e \in memo /\ e.plan \in Plans /\ index[e.plan][s] \in {Absent, disk[s]}
    BY <1>0, <1>1, <1>3, Numbers DEF MemoGood, Good, TypeOK, Plans
  <2>2. CASE InHand(t) /\ e.plan = access[t].plan /\ s = access[t].shard
             /\ (t \in trusted => index'[e.plan][s] = disk[s])
    <3>1. access[t].meta = m
      BY <1>0, <1>1, <2>1, <2>2 DEF HeldInv
    <3>2. Planning(t)
      BY <2>2 DEF InHand, Planning
    <3>3. QED
      BY <2>2, <3>1, <3>2
  <2>3. CASE index'[e.plan][s] \in {index[e.plan][s], Absent}
    BY <2>1, <2>3
  <2>4. QED
    BY <2>1, <2>2, <2>3 DEF Caches
<1>4. QED
  BY <1>1, <1>2, <1>3 DEF Caches

LEMMA TrustContinues ==
  ASSUME ReadInv, NEW t \in Users, Continues(t)
  PROVE  TrustInv'
<1>0. /\ TypeOK /\ HeldInv /\ WriterInv /\ TrustInv /\ Caches(t) /\ ReadStep(t)
      /\ t \in trusted => Fits(t)'
  BY ContinuesCaches DEF ReadInv, MetaInv, Caches
<1>1. /\ UNCHANGED <<disk, meta, inside, clean, trusted>>
      /\ \A u \in Users : u # t => access'[u] = access[u]
      /\ access'[t].shard = access[t].shard
      /\ access[t].pc \in ReadPcs /\ access'[t].pc \in ReadPcs
  BY <1>0 DEF ReadStep
<1>2. \A u \in Users : Planning(u)' => /\ Planning(u) /\ access'[u].meta = access[u].meta
                                       /\ access'[u].shard = access[u].shard
  BY <1>0, <1>1 DEF Caches, Planning
<1>3. \A u \in Users : access'[u].pc \in WriterPcs => u # t /\ access'[u] = access[u]
  BY <1>1, WriterPcFacts
<1>4. ASSUME NEW s \in clean
      PROVE  CleanShard(s)'
  <2>0. CleanShard(s) /\ s \in Shards
    BY <1>0 DEF TrustInv, TypeOK
  <2>1. MemoGood(meta, s)'
    BY <1>0, <1>1, <2>0, CachesGood DEF CleanShard, MemoGood, Good
  <2>2. \A u \in Users : Planning(u)' /\ access'[u].shard = s /\ access'[u].meta = meta
                           => u \in trusted
    BY <1>2, <2>0 DEF CleanShard
  <2>3. \A u \in Users : access'[u].pc = "resize" => s \in access'[u].new
    BY <1>3, <2>0 DEF CleanShard, WriterPcs
  <2>4. ASSUME NEW u \in Users, access'[u].pc \in WritePcs, access'[u].shard = s,
               NEW e \in memo', e.meta = meta, e.plan # NoPlan
        PROVE  index'[e.plan][s] = Absent
    <3>1. access[u].pc \in WritePcs /\ access[u].shard = s
      BY <1>3, <2>4 DEF WriterPcs
    <3>2. u \in Writing /\ s \in Touched(u)
      BY <3>1 DEF Writing, Touched, WritePcs
    <3>3. s \in Busy
      BY <3>2 DEF Busy
    <3>4. CASE \A x \in Shards : index'[e.plan][x] = Absent
      BY <2>0, <3>4
    <3>5. CASE memo' = memo
      <4>1. e \in memo /\ e.plan \in Plans /\ index[e.plan][s] = Absent
        BY <1>0, <2>0, <2>4, <3>1, <3>5, Numbers DEF CleanShard, TypeOK, Plans
      <4>2. ~(InHand(t) /\ e.plan = access[t].plan /\ s = access[t].shard)
        <5>1. SUFFICES ASSUME InHand(t), e.plan = access[t].plan, s = access[t].shard
                       PROVE  FALSE
          OBVIOUS
        <5>2. access[t].meta = meta
          BY <1>0, <2>4, <4>1, <5>1 DEF HeldInv
        <5>3. t \in trusted
          BY <2>0, <5>1, <5>2 DEF CleanShard, Planning, InHand
        <5>4. QED
          BY <1>0, <3>3, <5>1, <5>3, TrustedFacts
      <4>3. QED
        BY <1>0, <2>0, <4>1, <4>2 DEF Caches
    <3>6. QED
      BY <1>0, <2>4, <3>4, <3>5 DEF Caches
  <2>5. QED
    BY <1>1, <2>1, <2>2, <2>3, <2>4 DEF CleanShard
<1>5. ASSUME NEW u \in trusted
      PROVE  Shielded(u)'
  <2>0. Shielded(u) /\ u \in Users /\ access[u].shard \in Shards
    BY <1>0, TrustedFacts DEF TrustInv
  <2>1. SUFFICES ASSUME Planning(u)'
                 PROVE  /\ MemoGood(access[u].meta, access[u].shard)'
                        /\ \A v \in Users :
                             Planning(v)' /\ access'[v].shard = access'[u].shard
                             /\ access'[v].meta = access'[u].meta => v \in trusted'
                        /\ access'[u].meta = meta' => access'[u].shard \in clean'
    BY DEF Shielded
  <2>2. Planning(u) /\ access'[u].meta = access[u].meta /\ access'[u].shard = access[u].shard
    BY <1>2, <2>0, <2>1
  <2>3. PICK m : m = access[u].meta
    OBVIOUS
  <2>4. PICK s \in Shards : s = access[u].shard
    BY <2>0
  <2>5. MemoGood(access[u].meta, access[u].shard)'
    <3>1. MemoGood(m, s)'
      BY <1>0, <2>0, <2>2, <2>3, <2>4, CachesGood DEF Shielded
    <3>2. QED
      BY <2>2, <2>3, <2>4, <3>1 DEF MemoGood
  <2>6. QED
    BY <1>1, <1>2, <2>0, <2>2, <2>5 DEF Shielded
<1>6. ASSUME NEW u \in trusted
      PROVE  Fits(u)'
  <2>1. CASE u = t
    BY <1>0, <1>6, <2>1
  <2>2. CASE u # t
    <3>1. /\ u \in Users /\ access'[u] = access[u] /\ access[u].shard \in Shards
          /\ Fits(u) /\ Shielded(u) /\ File(u)' = File(u)
      BY <1>0, <1>1, <2>2, TrustedFacts DEF TrustInv, File
    <3>2. ASSUME InHand(u)
          PROVE  index'[access[u].plan][access[u].shard] \in {Absent, disk[access[u].shard]}
      <4>1. /\ access[u].plan \in Plans /\ Planning(u)
            /\ index[access[u].plan][access[u].shard] \in {Absent, disk[access[u].shard]}
        BY <1>0, <3>1, <3>2, Fields DEF InHand, Planning, Fits, Good
      <4>2. CASE /\ InHand(t) /\ access[u].plan = access[t].plan /\ access[u].shard = access[t].shard
                 /\ t \in trusted => index'[access[u].plan][access[u].shard] = disk[access[u].shard]
        <5>1. access[t].meta = access[u].meta /\ Planning(t)
          BY <1>0, <3>1, <3>2, <4>2 DEF HeldInv, InHand, Planning
        <5>2. t \in trusted
          BY <3>1, <4>1, <4>2, <5>1 DEF Shielded
        <5>3. QED
          BY <4>2, <5>2
      <4>3. CASE index'[access[u].plan][access[u].shard]
                   \in {index[access[u].plan][access[u].shard], Absent}
        BY <4>1, <4>3
      <4>4. QED
        BY <1>0, <3>1, <4>1, <4>2, <4>3 DEF Caches
    <3>3. QED
      BY <1>1, <3>1, <3>2 DEF Fits, InHand, Good
  <2>3. QED
    BY <2>1, <2>2
<1>7. QED
  BY <1>1, <1>4, <1>5, <1>6 DEF TrustInv

LEMMA TrustReadMeta ==
  ASSUME ReadInv, NEW t \in Users, ReadMeta(t)
  PROVE  TrustInv'
<1>0. TypeOK /\ WriterInv /\ TrustInv
  BY DEF ReadInv, MetaInv
<1>1. PICK s \in inside :
        /\ access[t].pc = "idle"
        /\ access'[t] = [pc |-> "lookup", shard |-> s, meta |-> meta]
        /\ \A u \in Users : u # t => access'[u] = access[u]
        /\ trusted \subseteq trusted' /\ (s \in clean \ Busy => t \in trusted')
        /\ \A u \in trusted' : u \in trusted \/ (u = t /\ s \in clean \ Busy)
        /\ clean' = clean \ ({s} \cap Busy)
  BY <1>0, ReadMetaStep
<1>2. UNCHANGED <<disk, meta, memo, index>>
  BY DEF ReadMeta
<1>3. access'[t].pc = "lookup" /\ access'[t].shard = s /\ access'[t].meta = meta
  BY <1>1
<1>4. \A u \in Users : access'[u].pc \in WriterPcs => access'[u] = access[u]
  BY <1>1, <1>3 DEF WriterPcs, WritePcs
<1>5. ASSUME NEW x \in clean'
      PROVE  CleanShard(x)'
  <2>1. CleanShard(x) /\ x \in clean /\ ~(x = s /\ s \in Busy)
    BY <1>0, <1>1 DEF TrustInv
  <2>2. ASSUME NEW u \in Users, Planning(u)', access'[u].shard = x, access'[u].meta = meta
        PROVE  u \in trusted'
    <3>1. CASE u = t
      BY <1>1, <1>3, <2>1, <2>2, <3>1
    <3>2. CASE u # t
      BY <1>1, <2>1, <2>2, <3>2 DEF CleanShard, Planning
    <3>3. QED
      BY <3>1, <3>2
  <2>3. MemoGood(meta, x)'
    BY <1>2, <2>1 DEF CleanShard, MemoGood, Good
  <2>4. \A u \in Users : access'[u].pc = "resize" => x \in access'[u].new
    BY <1>4, <2>1 DEF CleanShard, WriterPcs
  <2>5. \A u \in Users : access'[u].pc \in WritePcs /\ access'[u].shard = x =>
          \A e \in memo : e.meta = meta /\ e.plan # NoPlan => index[e.plan][x] = Absent
    BY <1>4, <2>1 DEF CleanShard, WriterPcs
  <2>6. QED
    BY <1>2, <2>2, <2>3, <2>4, <2>5 DEF CleanShard
<1>6. ASSUME NEW u \in trusted'
      PROVE  Shielded(u)' /\ Fits(u)'
  <2>1. CASE u = t /\ s \in clean \ Busy
    <3>1. Fits(u)'
      BY <1>3, <2>1 DEF Fits, InHand
    <3>2. CleanShard(s)
      BY <1>0, <2>1 DEF TrustInv
    <3>3. MemoGood(access[u].meta, access[u].shard)'
      BY <1>2, <1>3, <2>1, <3>2 DEF CleanShard, MemoGood, Good
    <3>4. ASSUME NEW v \in Users, Planning(v)', access'[v].shard = s, access'[v].meta = meta
          PROVE  v \in trusted'
      <4>1. CASE v = t
        BY <1>6, <2>1, <4>1
      <4>2. CASE v # t
        BY <1>1, <3>2, <3>4, <4>2 DEF CleanShard, Planning
      <4>3. QED
        BY <4>1, <4>2
    <3>5. s \in clean'
      BY <1>1, <2>1
    <3>6. QED
      BY <1>3, <2>1, <3>1, <3>3, <3>4, <3>5 DEF Shielded
  <2>2. CASE u \in trusted
    <3>1. /\ u \in Users /\ access[u].pc \in ReadPcs /\ access[u].shard \notin Busy
          /\ Shielded(u) /\ Fits(u)
      BY <1>0, <2>2, TrustedFacts DEF TrustInv
    <3>2. u # t /\ access'[u] = access[u]
      BY <1>1, <3>1 DEF ReadPcs
    <3>3. Fits(u)'
      BY <1>2, <3>1, <3>2 DEF Fits, InHand, Good, File
    <3>4. ASSUME Planning(u)
          PROVE  /\ MemoGood(access[u].meta, access[u].shard)'
                 /\ access[u].meta = meta => access[u].shard \in clean'
      <4>1. MemoGood(access[u].meta, access[u].shard)
        BY <3>1, <3>4 DEF Shielded
      <4>2. MemoGood(access[u].meta, access[u].shard)'
        BY <1>2, <3>2, <4>1 DEF MemoGood, Good
      <4>3. QED
        BY <1>1, <3>1, <3>4, <4>2 DEF Shielded
    <3>5. ASSUME Planning(u), NEW v \in Users, Planning(v)', access'[v].shard = access[u].shard,
                 access'[v].meta = access[u].meta
          PROVE  v \in trusted'
      <4>1. CASE v = t
        <5>1. s = access[u].shard /\ access[u].meta = meta
          BY <1>3, <3>5, <4>1
        <5>2. s \in clean \ Busy
          BY <3>1, <3>5, <5>1 DEF Shielded
        <5>3. QED
          BY <1>1, <4>1, <5>2
      <4>2. CASE v # t
        <5>1. access'[v] = access[v]
          BY <1>1, <3>5, <4>2
        <5>2. v \in trusted
          BY <3>1, <3>5, <5>1 DEF Shielded, Planning
        <5>3. QED
          BY <1>1, <5>2
      <4>3. QED
        BY <4>1, <4>2
    <3>6. Planning(u)' => Planning(u)
      BY <3>2 DEF Planning
    <3>7. QED
      BY <1>2, <3>2, <3>3, <3>4, <3>5, <3>6 DEF Shielded
  <2>3. QED
    BY <1>1, <2>1, <2>2
<1>7. QED
  BY <1>5, <1>6 DEF TrustInv

\* A read that stays trusted over a step that leaves its shard's file, the plans
\* and the other readers of the shard.
LEMMA Shields ==
  ASSUME ReadInv, NEW t \in Users, NEW u \in trusted, u # t,
         \A v \in Users : v # t => access'[v] = access[v], ~Planning(t)',
         \A s \in Shards : s = access[u].shard => disk'[s] = disk[s],
         index' = index, memo' \in {{}, memo},
         \A v \in trusted : v # t /\ access[v].shard = access[u].shard => v \in trusted',
         Planning(u) /\ access[u].meta = meta' => access[u].shard \in clean'
  PROVE  Shielded(u)' /\ Fits(u)'
<1>0. TypeOK /\ WriterInv /\ TrustInv
  BY DEF ReadInv, MetaInv
<1>1. /\ u \in Users /\ access[u].shard \in Shards /\ access'[u] = access[u]
      /\ Shielded(u) /\ Fits(u)
  BY <1>0, TrustedFacts DEF TrustInv
<1>2. disk'[access[u].shard] = disk[access[u].shard]
  BY <1>1
<1>3. Fits(u)'
  BY <1>1, <1>2 DEF Fits, InHand, Good, File
<1>4. Planning(u) => MemoGood(access[u].meta, access[u].shard)'
  <2>1. SUFFICES ASSUME Planning(u), NEW e \in memo', e.meta = access[u].meta, e.plan # NoPlan
                 PROVE  index'[e.plan][access[u].shard] \in {Absent, disk'[access[u].shard]}
    BY <1>1 DEF MemoGood, Good
  <2>2. e \in memo
    BY <2>1
  <2>3. MemoGood(access[u].meta, access[u].shard)
    BY <1>1, <2>1 DEF Shielded
  <2>4. QED
    BY <1>2, <2>1, <2>2, <2>3 DEF MemoGood, Good
<1>5. ASSUME Planning(u), NEW v \in Users, Planning(v)', access'[v].shard = access[u].shard,
             access'[v].meta = access[u].meta
      PROVE  v \in trusted'
  <2>1. v # t /\ access'[v] = access[v]
    BY <1>5
  <2>2. v \in trusted
    BY <1>1, <1>5, <2>1 DEF Shielded, Planning
  <2>3. QED
    BY <1>5, <2>1, <2>2
<1>6. Planning(u)' => Planning(u)
  BY <1>1 DEF Planning
<1>7. QED
  BY <1>1, <1>3, <1>4, <1>5, <1>6 DEF Shielded

\* A clean shard stays clean over a step that leaves its file, the metadata and
\* the other readers of the shard, and takes up no write of it.
LEMMA Cleans ==
  ASSUME ReadInv, NEW t \in Users, NEW x \in clean,
         \A v \in Users : v # t => access'[v] = access[v], ~Planning(t)',
         disk'[x] = disk[x], index' = index, memo' \in {{}, memo}, meta' = meta,
         \A v \in trusted : v # t /\ access[v].shard = x => v \in trusted',
         access'[t].pc = "resize" => x \in access'[t].new,
         access'[t].pc \in WritePcs => access'[t].shard # x
  PROVE  CleanShard(x)'
<1>1. CleanShard(x)
  BY DEF ReadInv, TrustInv
<1>2. MemoGood(meta, x)'
  BY <1>1 DEF CleanShard, MemoGood, Good
<1>3. \A u \in Users : Planning(u)' /\ access'[u].shard = x /\ access'[u].meta = meta
                         => u \in trusted'
  BY <1>1 DEF CleanShard, Planning
<1>4. \A u \in Users : access'[u].pc = "resize" => x \in access'[u].new
  BY <1>1 DEF CleanShard
<1>5. \A u \in Users : access'[u].pc \in WritePcs /\ access'[u].shard = x =>
        \A e \in memo' : e.meta = meta /\ e.plan # NoPlan => index'[e.plan][x] = Absent
  BY <1>1 DEF CleanShard
<1>6. QED
  BY <1>2, <1>3, <1>4, <1>5 DEF CleanShard

LEMMA TrustReturn ==
  ASSUME ReadInv, NEW t \in Users, ArrayReturn(t)
  PROVE  TrustInv'
<1>0. TypeOK /\ TrustInv /\ WriterInv
  BY DEF ReadInv, MetaInv
<1>1. /\ access'[t] = NoAccess /\ \A u \in Users : u # t => access'[u] = access[u]
      /\ UNCHANGED <<disk, meta, memo, index, clean>> /\ trusted' = trusted \ {t}
  BY <1>0, ArrayReturnStep DEF Takes
<1>2. ~Planning(t)' /\ access'[t].pc \notin WriterPcs
  BY <1>1 DEF NoAccess, Planning, WriterPcs, WritePcs
<1>3. ASSUME NEW x \in clean'
      PROVE  CleanShard(x)'
  BY <1>1, <1>2, <1>3, Cleans DEF WriterPcs
<1>4. ASSUME NEW u \in trusted'
      PROVE  Shielded(u)' /\ Fits(u)'
  <2>1. u \in trusted /\ u # t /\ Shielded(u)
    BY <1>0, <1>1, <1>4 DEF TrustInv
  <2>2. QED
    BY <1>1, <1>2, <2>1, Shields DEF Shielded
<1>5. QED
  BY <1>3, <1>4 DEF TrustInv

LEMMA TrustSetBegins ==
  ASSUME ReadInv, NEW t \in Users, SetBegins(t)
  PROVE  TrustInv'
<1>0. TypeOK /\ TrustInv /\ WriterInv
  BY DEF ReadInv, MetaInv
<1>1. PICK s \in inside :
         /\ Takes(t, [pc |-> "write", shard |-> s]) /\ access[t].pc = "idle" /\ Writing = {}
         /\ memo' \in {{}, memo} /\ trusted' = trusted \ ReadersOf({s})
         /\ clean' \subseteq Shards /\ clean \ {s} \subseteq clean'
         /\ \A x \in clean' : (x \in clean /\ x # s) \/ (memo' = {} /\ ReadersOf({x}) = {})
  BY <1>0, SetBeginsStep
<1>2. UNCHANGED <<disk, meta, index>>
  BY DEF SetBegins
<1>3. /\ access'[t].pc = "write" /\ access'[t].shard = s /\ ~Planning(t)'
      /\ \A u \in Users : u # t => access'[u] = access[u]
  BY <1>1 DEF Takes, Planning
<1>4. \A v \in trusted : access[v].shard # s => v \in trusted'
  BY <1>1 DEF ReadersOf
<1>5. ASSUME NEW x \in clean'
      PROVE  CleanShard(x)'
  <2>1. CASE x \in clean /\ x # s
    BY <1>1, <1>2, <1>3, <1>4, <2>1, Cleans
  <2>2. CASE memo' = {} /\ ReadersOf({x}) = {}
    <3>1. \A u \in Users : access'[u].pc # "resize"
      BY <1>1, <1>3 DEF Writing
    <3>2. ASSUME NEW u \in Users, Planning(u)', access'[u].shard = x
          PROVE  FALSE
      <4>1. u # t /\ access[u].shard = x /\ Planning(u)
        BY <1>3, <3>2 DEF Planning
      <4>2. u \in ReadersOf({x})
        BY <4>1 DEF ReadersOf, Reading, Planning, WritePcs
      <4>3. QED
        BY <2>2, <4>2
    <3>3. MemoGood(meta, x)'
      BY <2>2 DEF MemoGood
    <3>4. QED
      BY <2>2, <3>1, <3>2, <3>3 DEF CleanShard
  <2>3. QED
    BY <1>1, <1>5, <2>1, <2>2
<1>6. ASSUME NEW u \in trusted'
      PROVE  Shielded(u)' /\ Fits(u)'
  <2>1. u \in trusted /\ Shielded(u) /\ u \in Users /\ access[u].pc \in ReadPcs
    BY <1>0, <1>1, <1>6, TrustedFacts DEF TrustInv
  <2>2. u # t /\ access[u].shard # s
    BY <1>1, <1>6, <2>1, WriterPcFacts DEF ReadersOf, ReadPcs
  <2>3. Planning(u) /\ access[u].meta = meta => access[u].shard \in clean'
    BY <1>1, <2>1, <2>2 DEF Shielded
  <2>4. QED
    BY <1>1, <1>2, <1>3, <1>4, <2>1, <2>2, <2>3, Shields
<1>7. QED
  BY <1>5, <1>6 DEF TrustInv

LEMMA TrustWrite ==
  ASSUME ReadInv, NEW t \in Users, WriteBegins(t) \/ WriteEnds(t) \/ WriteFill(t)
  PROVE  TrustInv'
<1>0. TypeOK /\ TrustInv /\ WriterInv
  BY DEF ReadInv, MetaInv
<1>1. /\ access[t].pc \in WritePcs /\ access[t].shard \in Shards
      /\ UNCHANGED <<meta, memo, index, clean, trusted>>
      /\ \A s \in Shards : s # access[t].shard => disk'[s] = disk[s]
      /\ \A u \in Users : u # t => access'[u] = access[u]
      /\ \/ access'[t].pc = "partial" /\ access'[t].shard = access[t].shard
         \/ access'[t] = NoAccess
  <2>1. /\ access[t].pc \in WritePcs /\ access[t].shard \in Shards
        /\ UNCHANGED <<meta, memo, index, clean, trusted>>
        /\ \A s \in Shards : s # access[t].shard => disk'[s] = disk[s]
        /\ \/ Takes(t, [pc |-> "partial", shard |-> access[t].shard])
           \/ Takes(t, NoAccess)
    BY <1>0, WriteStep DEF history
  <2>2. CASE Takes(t, [pc |-> "partial", shard |-> access[t].shard])
    BY <2>1, <2>2 DEF Takes
  <2>3. CASE Takes(t, NoAccess)
    BY <2>1, <2>3 DEF Takes
  <2>4. QED
    BY <2>1, <2>2, <2>3
<1>2. ~Planning(t)' /\ access'[t].pc # "resize" /\ access[t].pc \notin ReadPcs
  BY <1>1 DEF Planning, NoAccess, WritePcs, ReadPcs
<1>3. access'[t].pc \in WritePcs => access'[t].shard = access[t].shard
  BY <1>1 DEF NoAccess, WritePcs
<1>4. t \in Writing /\ access[t].shard \in Busy
  BY <1>1 DEF Writing, Busy, Touched, WritePcs
<1>5. ASSUME NEW x \in clean'
      PROVE  CleanShard(x)'
  <2>0. x \in clean /\ x \in Shards /\ CleanShard(x)
    BY <1>0, <1>1, <1>5 DEF TrustInv, TypeOK
  <2>1. CASE x # access[t].shard
    BY <1>1, <1>2, <1>3, <2>0, <2>1, Cleans
  <2>2. CASE x = access[t].shard
    <3>1. \A e \in memo : e.meta = meta /\ e.plan # NoPlan => index[e.plan][x] = Absent
      BY <1>1, <2>0, <2>2 DEF CleanShard
    <3>2. MemoGood(meta, x)'
      BY <1>1, <3>1 DEF MemoGood, Good
    <3>3. \A u \in Users : Planning(u)' /\ access'[u].shard = x /\ access'[u].meta = meta
                             => u \in trusted
      BY <1>1, <1>2, <2>0 DEF CleanShard, Planning
    <3>4. \A u \in Users : access'[u].pc = "resize" => x \in access'[u].new
      BY <1>1, <1>2, <2>0 DEF CleanShard
    <3>5. QED
      BY <1>1, <3>1, <3>2, <3>3, <3>4 DEF CleanShard
  <2>3. QED
    BY <2>1, <2>2
<1>6. ASSUME NEW u \in trusted'
      PROVE  Shielded(u)' /\ Fits(u)'
  <2>1. /\ u \in trusted /\ Shielded(u) /\ u # t /\ access[u].shard \in Shards
        /\ access[u].shard # access[t].shard
    BY <1>0, <1>1, <1>2, <1>4, <1>6, TrustedFacts DEF TrustInv
  <2>2. QED
    BY <1>1, <1>2, <2>1, Shields DEF Shielded
<1>7. QED
  BY <1>5, <1>6 DEF TrustInv

LEMMA TrustResizeBegins ==
  ASSUME ReadInv, NEW t \in Users, ResizeBegins(t)
  PROVE  TrustInv'
<1>0. TypeOK /\ TrustInv /\ WriterInv
  BY DEF ReadInv, MetaInv
<1>1. PICK new \in SUBSET Shards :
         /\ Takes(t, [pc |-> "resize", new |-> new, gone |-> inside \ new])
         /\ access[t].pc = "idle"
         /\ trusted' = trusted \ ReadersOf(Shards \ new) /\ clean' = clean \cap new
  BY <1>0, ResizeBeginsStep
<1>2. UNCHANGED <<disk, meta, memo, index>>
  BY DEF ResizeBegins
<1>3. /\ access'[t].pc = "resize" /\ access'[t].new = new /\ ~Planning(t)'
      /\ \A u \in Users : u # t => access'[u] = access[u]
  BY <1>1 DEF Takes, Planning
<1>4. \A v \in trusted : access[v].shard \in new => v \in trusted'
  BY <1>1 DEF ReadersOf
<1>5. ASSUME NEW x \in clean'
      PROVE  CleanShard(x)'
  <2>1. x \in clean /\ x \in new /\ access'[t].pc \notin WritePcs
    BY <1>1, <1>3, <1>5 DEF WritePcs
  <2>2. QED
    BY <1>2, <1>3, <1>4, <2>1, Cleans
<1>6. ASSUME NEW u \in trusted'
      PROVE  Shielded(u)' /\ Fits(u)'
  <2>1. /\ u \in trusted /\ Shielded(u) /\ u \in Users /\ access[u].pc \in ReadPcs
        /\ access[u].shard \in Shards
    BY <1>0, <1>1, <1>6, TrustedFacts DEF TrustInv
  <2>2. u # t /\ access[u].shard \in new
    BY <1>1, <1>6, <2>1, WriterPcFacts DEF ReadersOf, ReadPcs
  <2>3. Planning(u) /\ access[u].meta = meta => access[u].shard \in clean'
    BY <1>1, <2>1, <2>2 DEF Shielded
  <2>4. QED
    BY <1>2, <1>3, <1>4, <2>1, <2>2, <2>3, Shields
<1>7. QED
  BY <1>5, <1>6 DEF TrustInv

LEMMA TrustDeleteOutside ==
  ASSUME ReadInv, NEW t \in Users, DeleteOutside(t)
  PROVE  TrustInv'
<1>0. TypeOK /\ TrustInv /\ WriterInv
  BY DEF ReadInv, MetaInv
<1>1. PICK s \in access[t].gone :
         /\ access[t].pc = "resize"
         /\ Takes(t, [pc |-> "resize", new |-> access[t].new, gone |-> access[t].gone \ {s}])
         /\ \A x \in Shards : x # s => disk'[x] = disk[x]
  BY <1>0, DeleteOutsideStep
<1>2. UNCHANGED <<meta, memo, index, clean, trusted>>
  BY DEF DeleteOutside, history
<1>3. /\ access'[t].pc = "resize" /\ access'[t].new = access[t].new /\ ~Planning(t)'
      /\ \A u \in Users : u # t => access'[u] = access[u]
  BY <1>1 DEF Takes, Planning
<1>4. s \notin access[t].new /\ s \in Shards
  BY <1>0, <1>1, Fields DEF WriterInv
<1>5. t \in Writing /\ s \in Busy
  BY <1>1, <1>4 DEF Writing, Busy, Touched
<1>6. ASSUME NEW x \in clean'
      PROVE  CleanShard(x)'
  <2>1. x \in clean /\ x \in Shards /\ x \in access[t].new /\ access'[t].pc \notin WritePcs
    BY <1>0, <1>1, <1>2, <1>3, <1>6 DEF TrustInv, CleanShard, TypeOK, WritePcs
  <2>2. disk'[x] = disk[x]
    BY <1>1, <1>4, <2>1
  <2>3. QED
    BY <1>2, <1>3, <2>1, <2>2, Cleans
<1>7. ASSUME NEW u \in trusted'
      PROVE  Shielded(u)' /\ Fits(u)'
  <2>1. /\ u \in trusted /\ Shielded(u) /\ u # t /\ access[u].shard \in Shards
        /\ access[u].shard # s
    BY <1>0, <1>1, <1>2, <1>5, <1>7, TrustedFacts DEF TrustInv, ReadPcs
  <2>2. QED
    BY <1>1, <1>2, <1>3, <2>1, Shields DEF Shielded
<1>8. QED
  BY <1>6, <1>7 DEF TrustInv

\* Nothing is planned from a metadata object that was not there before.
LEMMA TrustResizeEnds ==
  ASSUME ReadInv, NEW t \in Users, ResizeEnds(t)
  PROVE  TrustInv'
<1>0. TypeOK /\ TrustInv /\ WriterInv /\ HeldInv /\ meta \in Nat
  BY DEF ReadInv, MetaInv, TypeOK
<1>1. /\ access[t].pc = "resize" /\ access'[t] = NoAccess
      /\ \A u \in Users : u # t => access'[u] = access[u]
      /\ meta' = meta + 1
      /\ UNCHANGED <<disk, memo, index, trusted>>
  BY <1>0, ResizeEndsStep DEF Takes
<1>2. ~Planning(t)' /\ access'[t].pc # "resize"
  BY <1>1 DEF Planning, NoAccess
<1>3. \A e \in memo : e.meta # meta'
  BY <1>0, <1>1 DEF HeldInv
<1>4. \A u \in Users : Planning(u) => access[u].meta # meta'
  BY <1>0, <1>1 DEF HeldInv
<1>5. \A u \in Users : access'[u].pc # "resize"
  <2>1. \A u \in Users : access[u].pc = "resize" => u = t
    BY <1>0, <1>1 DEF WriterInv, Writing
  <2>2. QED
    BY <1>1, <1>2, <2>1
<1>6. ASSUME NEW x \in clean'
      PROVE  CleanShard(x)'
  <2>1. MemoGood(meta, x)'
    BY <1>1, <1>3 DEF MemoGood
  <2>2. \A u \in Users : Planning(u)' => access'[u].meta # meta'
    BY <1>1, <1>2, <1>4 DEF Planning
  <2>3. QED
    BY <1>1, <1>3, <1>5, <2>1, <2>2 DEF CleanShard
<1>7. ASSUME NEW u \in trusted'
      PROVE  Shielded(u)' /\ Fits(u)'
  <2>1. u \in trusted /\ u \in Users /\ u # t
    BY <1>0, <1>1, <1>7, TrustedFacts DEF ReadPcs
  <2>2. QED
    BY <1>1, <1>2, <1>4, <2>1, Shields
<1>8. QED
  BY <1>6, <1>7 DEF TrustInv

LEMMA TrustResizeFails ==
  ASSUME ReadInv, NEW t \in Users, ResizeFails(t)
  PROVE  TrustInv'
<1>0. TypeOK /\ TrustInv /\ WriterInv
  BY DEF ReadInv, MetaInv
<1>1. /\ access[t].pc = "resize" /\ access'[t] = NoAccess
      /\ \A u \in Users : u # t => access'[u] = access[u]
      /\ UNCHANGED <<disk, meta, memo, index, clean, trusted>>
  BY <1>0, ResizeFailsStep DEF Takes, history
<1>2. ~Planning(t)' /\ access'[t].pc \notin WriterPcs
  BY <1>1 DEF NoAccess, Planning, WriterPcs, WritePcs
<1>3. ASSUME NEW x \in clean'
      PROVE  CleanShard(x)'
  BY <1>1, <1>2, <1>3, Cleans DEF WriterPcs
<1>4. ASSUME NEW u \in trusted'
      PROVE  Shielded(u)' /\ Fits(u)'
  <2>1. u \in trusted /\ u # t /\ Shielded(u)
    BY <1>0, <1>1, <1>4, TrustedFacts DEF TrustInv, ReadPcs
  <2>2. QED
    BY <1>1, <1>2, <2>1, Shields DEF Shielded
<1>5. QED
  BY <1>3, <1>4 DEF TrustInv

LEMMA TrustPreserves == ReadInv /\ [ArrayNext]_arrayVars => TrustInv'
<1> SUFFICES ASSUME ReadInv, [ArrayNext]_arrayVars PROVE TrustInv'
  OBVIOUS
<1>1. CASE UNCHANGED arrayVars
  BY <1>1 DEF arrayVars, ReadInv, TrustInv, CleanShard, MemoGood, Good, Shielded, Fits, Planning,
     InHand, File
<1>2. CASE ArrayNext
  BY <1>2, TrustReadMeta, TrustContinues, TrustReturn, TrustSetBegins, TrustWrite,
     TrustResizeBegins, TrustDeleteOutside, TrustResizeEnds, TrustResizeFails
     DEF ArrayNext, Get, Set, Continues
<1>3. QED
  BY <1>1, <1>2

\* A read of a shard of which no stale index was left behind when the read
\* began, and which nothing wrote or deleted during the read, returns what the
\* last write of it stored: fast path or zarr, whatever happens to the memo, to
\* the other shards and to the metadata meanwhile.
THEOREM CleanReadsReturnLastWrite == ArraySpec => []CleanReadsLastWrite
<1>1. ReadInv => CleanReadsLastWrite
  BY DEF ReadInv, TrustInv, Fits, CleanReadsLastWrite
<1>2. ArrayInit => ReadInv
  BY MetaInit, HeldInit, WriterInit, TrustInit DEF ReadInv
<1>3. ReadInv /\ [ArrayNext]_arrayVars => ReadInv'
  BY MetaPreserves, HeldPreserves, WriterPreserves, TrustPreserves DEF ReadInv
<1>4. QED
  BY <1>1, <1>2, <1>3, PTL DEF ArraySpec
=============================================================================
