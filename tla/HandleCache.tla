----------------------------- MODULE HandleCache -----------------------------
(***************************************************************************)
(* The registered-handle cache of src/czarr/cufile.py: an LRU of open,     *)
(* cuFile-registered file descriptors keyed by path, shared by the threads *)
(* that call read_into and read_into_many, together with the file system   *)
(* that other processes rewrite under it and the driver's exit hook.       *)
(*                                                                         *)
(* A call is a job of Batch request slots.  read_into is a job with one    *)
(* request; a slot of read_into_many with size 0 asks for nothing and is   *)
(* the value Skip.  A critical section under _handle_cache_lock is one     *)
(* step; the os.stat of _acquire_handle is a step of its own because it    *)
(* runs before the lock is taken.                                          *)
(***************************************************************************)
EXTENDS Naturals, FiniteSets

CONSTANTS
  Paths,         \* file names readers ask for
  Threads,       \* threads that call read_into / read_into_many
  Daemons,       \* the ones the interpreter does not join before atexit hooks
  Batch,         \* request slots of a call
  Entries,       \* identities of _CachedHandle objects
  Inodes,        \* inode numbers; a free one may be used again
  Cap,           \* _HANDLE_CACHE_CAP
  MaxWrites,     \* bound: writes the environment makes
  Renames,       \* whether writers also rename existing files over one another
  NoEntry, NoFile, Skip

ASSUME DaemonsAssumption == Daemons \subseteq Threads
ASSUME BatchAssumption   == Batch \in Nat \ {0}
ASSUME CapAssumption     == Cap \in Nat \ {0}
ASSUME WritersAssumption == MaxWrites \in Nat /\ Renames \in BOOLEAN
ASSUME FiniteAssumption  == /\ IsFiniteSet(Threads) /\ IsFiniteSet(Paths)
                            /\ IsFiniteSet(Entries)
\* Python allocates entries at will: the pool is never what stops a miss.
ASSUME PoolAssumption    == Cardinality(Entries) >= Cap + Cardinality(Threads) * Batch
ASSUME NoneAssumption    == /\ NoEntry \notin Entries
                            /\ NoFile \notin Inodes \cup (Inodes \X Nat)
                            /\ Skip \notin Paths

Slots == 1..Batch
Holds == Threads \X Slots
Sigs  == Inodes \X Nat

VARIABLES
  \* the file system
  dir,     \* path -> <<inode, mtime>> of the file it names: its stat signature
  writes,  \* number of writes so far, the clock: every write has its own mtime
  \* the cache
  cached,  \* _handle_cache: path -> entry
  older,   \* its order: <<p, q>> when p was used less recently than q
  entry,   \* the _CachedHandle objects
  \* the calls
  pc, job, hold, sig,
  named,   \* history: <<t, i>> -> inodes the path has named since the stat
  \* the driver
  driver,  \* "closed" or "open"; equals _opened except inside _close
  exit     \* progress of the atexit hook _close

fsVars    == <<dir, writes>>
cacheVars == <<cached, older, entry>>
callVars  == <<pc, job, hold, sig, named>>
exitVars  == <<driver, exit>>
vars      == <<fsVars, cacheVars, callVars, exitVars>>

-----------------------------------------------------------------------------
(* Entries *)

Handle == [sig : Sigs \cup {NoFile}, file : Inodes \cup {NoFile},
           refs : Nat, dead : BOOLEAN, fd : {"open", "closed", "reclosed"}]

\* An entry whose descriptor is deregistered and closed, which nobody refers to.
NoHandle == [sig |-> NoFile, file |-> NoFile, refs |-> 0, dead |-> TRUE, fd |-> "closed"]

CachedPaths == {p \in Paths : cached[p] # NoEntry}
HoldersOf(e) == {h \in Holds : hold[h] = e}
Held == {h \in Holds : hold[h] # NoEntry}
OpenEntries == {e \in Entries : entry[e].fd = "open"}

\* _destroy_entry.  Closing a descriptor that is no longer open is recorded:
\* by then the number may belong to another file.
Destroyed(en) == [NoHandle EXCEPT !.refs = en.refs,
                                  !.fd = IF en.fd = "open" THEN "closed" ELSE "reclosed"]

\* refs += 1
UnreferencedFault(en) == en
Referenced(en) == [en EXCEPT !.refs = @ + 1]

\* dead = True; destroy at once unless a read is in flight.
RetiredUnderReaderFault(en) == Destroyed(en)
Retired(en) == IF en.refs = 0 THEN Destroyed(en) ELSE [en EXCEPT !.dead = TRUE]

\* refs -= 1; the last releaser of a dead entry destroys it.
ReleasedLeakFault(en)  == [en EXCEPT !.refs = @ - 1]
Released(en) == LET r == [en EXCEPT !.refs = @ - 1]
                IN  IF r.dead /\ r.refs = 0 THEN Destroyed(r) ELSE r

FreeEntries == {e \in Entries : entry[e] = NoHandle /\ HoldersOf(e) = {}}
NewEntry == CHOOSE e \in FreeEntries : TRUE

-----------------------------------------------------------------------------
(* The file system *)

Inode(p) == dir[p][1]
Exists(p) == dir[p] # NoFile
FreeInodes == {n \in Inodes : /\ \A p \in Paths : Exists(p) => Inode(p) # n
                              /\ \A e \in OpenEntries : entry[e].file # n}

\* After p names n, every request that has made its stat of p has seen n.
SeenBy(p, n) == [h \in Holds |-> IF named[h] # {} /\ job[h[1]][h[2]] = p
                                 THEN named[h] \cup {n} ELSE named[h]]

\* A writer renames a new file over p, or creates it.
Replace(p) ==
  /\ writes < MaxWrites
  /\ \E n \in FreeInodes :
       /\ dir' = [dir EXCEPT ![p] = <<n, writes + 1>>]
       /\ named' = SeenBy(p, n)
  /\ writes' = writes + 1
  /\ UNCHANGED <<cacheVars, pc, job, hold, sig, exitVars>>

\* A writer changes the file in place: same inode, later mtime (write_from).
Rewrite(p) ==
  /\ writes < MaxWrites
  /\ Exists(p)
  /\ dir' = [dir EXCEPT ![p] = <<Inode(p), writes + 1>>]
  /\ writes' = writes + 1
  /\ UNCHANGED <<cacheVars, callVars, exitVars>>

Remove(p) ==
  /\ Exists(p)
  /\ dir' = [dir EXCEPT ![p] = NoFile]
  /\ UNCHANGED <<writes, cacheVars, callVars, exitVars>>

\* A writer renames the file q over p (mv): the inode keeps its mtime.
Rename(q, p) ==
  /\ Renames
  /\ p # q /\ Exists(q)
  /\ dir' = [dir EXCEPT ![p] = dir[q], ![q] = NoFile]
  /\ named' = SeenBy(p, Inode(q))
  /\ UNCHANGED <<writes, cacheVars, pc, job, hold, sig, exitVars>>

-----------------------------------------------------------------------------
(* A call of read_into or read_into_many *)

Wanted(t) == {i \in Slots : job[t][i] # Skip /\ hold[<<t, i>>] = NoEntry}
IsNext(t, i) == i \in Wanted(t) /\ \A j \in Wanted(t) : i <= j
NoJob == [i \in Slots |-> Skip]

\* Once the exit hook runs, only threads the interpreter did not join still call.
MayCall(t) == exit = "running" \/ t \in Daemons

\* Enter: ensure_driver_open, entries = [None] * n.
Start(t) ==
  /\ pc[t] = "idle"
  /\ MayCall(t)
  /\ \E j \in [Slots -> Paths \cup {Skip}] :
       /\ j # NoJob
       /\ job' = [job EXCEPT ![t] = j]
  /\ pc' = [pc EXCEPT ![t] = "acquire"]
  /\ driver' = "open"
  /\ UNCHANGED <<fsVars, cacheVars, hold, sig, named, exit>>

\* os.stat, before the lock.
Stat(t) ==
  /\ pc[t] = "acquire"
  /\ \E i \in Slots :
       /\ IsNext(t, i)
       /\ Exists(job[t][i])
       /\ sig' = [sig EXCEPT ![t] = dir[job[t][i]]]
       /\ named' = [named EXCEPT ![<<t, i>>] = {Inode(job[t][i])}]
  /\ pc' = [pc EXCEPT ![t] = "lookup"]
  /\ UNCHANGED <<fsVars, cacheVars, job, hold, exitVars>>

\* FileNotFoundError from os.stat: on to the finally clause.
StatRetriesFault(t) ==
  /\ pc[t] = "acquire"
  /\ \E i \in Slots : IsNext(t, i) /\ ~Exists(job[t][i])
  /\ UNCHANGED vars
StatMissing(t) ==
  /\ pc[t] = "acquire"
  /\ \E i \in Slots : IsNext(t, i) /\ ~Exists(job[t][i])
  /\ pc' = [pc EXCEPT ![t] = "release"]
  /\ UNCHANGED <<fsVars, cacheVars, job, hold, sig, named, exitVars>>

HitByPathFault(t, p) == cached[p] # NoEntry
IsHit(t, p) == cached[p] # NoEntry /\ entry[cached[p]].sig = sig[t]

\* The order after p becomes the most recently used and the paths in gone leave.
Touched(p, gone) ==
  {x \in older : x[1] \notin gone \cup {p} /\ x[2] \notin gone \cup {p}}
    \cup {<<q, p>> : q \in CachedPaths \ (gone \cup {p})}

Acquired(t, i, e) ==
  /\ hold' = [hold EXCEPT ![<<t, i>>] = e]
  /\ sig' = [sig EXCEPT ![t] = NoFile]
  /\ pc' = [pc EXCEPT ![t] = "acquire"]
  /\ UNCHANGED <<fsVars, job, named, exitVars>>

\* The lock is taken: the entry is cached with the signature just read.
Hit(t) ==
  /\ pc[t] = "lookup"
  /\ \E i \in Slots :
       /\ IsNext(t, i)
       /\ LET p == job[t][i]
          IN  /\ IsHit(t, p)
              /\ entry' = [entry EXCEPT ![cached[p]] = Referenced(@)]
              /\ older' = Touched(p, {})
              /\ Acquired(t, i, cached[p])
  /\ UNCHANGED cached

\* What popitem(last=False) takes when p is inserted: the least recently used
\* other path, once the cache would exceed its cap.  The loop runs at most once
\* because the cache never exceeded the cap before.
EvictsLateFault(p) ==
  LET others == CachedPaths \ {p}
  IN  IF Cardinality(others) > Cap
      THEN {{v} : v \in {w \in others : \A q \in others : <<q, w>> \notin older}}
      ELSE {{}}
Evictions(p) ==
  LET others == CachedPaths \ {p}
  IN  IF Cardinality(others) >= Cap
      THEN {{v} : v \in {w \in others : \A q \in others : <<q, w>> \notin older}}
      ELSE {{}}

\* The entry stored by a miss: opened on whatever p names now, tagged with the
\* signature of the earlier stat.
Fresh(t, p) == [sig |-> sig[t], file |-> Inode(p), refs |-> 1, dead |-> FALSE, fd |-> "open"]

\* A miss: retire a stale entry, open and register, insert, evict.
Open(t) ==
  /\ pc[t] = "lookup"
  /\ \E i \in Slots :
       /\ IsNext(t, i)
       /\ LET p == job[t][i]
          IN  /\ ~IsHit(t, p)
              /\ Exists(p)
              /\ FreeEntries # {}
              /\ \E gone \in Evictions(p) : LET e == NewEntry IN
                   /\ cached' = [q \in Paths |-> IF q = p THEN e
                                 ELSE IF q \in gone THEN NoEntry ELSE cached[q]]
                   /\ entry' = [x \in Entries |->
                        IF x = e THEN Fresh(t, p)
                        ELSE IF \E q \in gone \cup {p} : cached[q] = x
                             THEN Retired(entry[x]) ELSE entry[x]]
                   /\ older' = Touched(p, gone)
                   /\ Acquired(t, i, e)

\* os.open or handle_register raises (the descriptor is closed again in the
\* second case): the stale entry, if any, stays retired.
OpenFails(t) ==
  /\ pc[t] = "lookup"
  /\ \E i \in Slots :
       /\ IsNext(t, i)
       /\ LET p == job[t][i]
          IN  /\ ~IsHit(t, p)
              /\ cached' = [cached EXCEPT ![p] = NoEntry]
              /\ entry' = [x \in Entries |-> IF x = cached[p]
                                             THEN Retired(entry[x]) ELSE entry[x]]
              /\ older' = {x \in older : p # x[1] /\ p # x[2]}
  /\ pc' = [pc EXCEPT ![t] = "release"]
  /\ sig' = [sig EXCEPT ![t] = NoFile]
  /\ UNCHANGED <<fsVars, job, hold, named, exitVars>>

\* All entries are held: the reads are submitted, and run until EndReads.
BeginReads(t) ==
  /\ pc[t] = "acquire"
  /\ Wanted(t) = {}
  /\ pc' = [pc EXCEPT ![t] = "read"]
  /\ UNCHANGED <<fsVars, cacheVars, job, hold, sig, named, exitVars>>

\* Every submitted cufile.read has returned or raised; the pool is shut down.
EndReads(t) ==
  /\ pc[t] = "read"
  /\ pc' = [pc EXCEPT ![t] = "release"]
  /\ UNCHANGED <<fsVars, cacheVars, job, hold, sig, named, exitVars>>

\* One _release_handle of the finally clause, in slot order.
Release(t) ==
  /\ pc[t] = "release"
  /\ \E i \in Slots :
       /\ hold[<<t, i>>] # NoEntry
       /\ \A j \in Slots : hold[<<t, j>>] # NoEntry => i <= j
       /\ entry' = [entry EXCEPT ![hold[<<t, i>>]] = Released(@)]
       /\ hold' = [hold EXCEPT ![<<t, i>>] = NoEntry]
       /\ named' = [named EXCEPT ![<<t, i>>] = {}]
  /\ UNCHANGED <<fsVars, cached, older, pc, job, sig, exitVars>>

Return(t) ==
  /\ pc[t] = "release"
  /\ \A i \in Slots : hold[<<t, i>>] = NoEntry
  /\ pc' = [pc EXCEPT ![t] = "idle"]
  /\ job' = [job EXCEPT ![t] = NoJob]
  /\ named' = [h \in Holds |-> IF h[1] = t THEN {} ELSE named[h]]
  /\ UNCHANGED <<fsVars, cacheVars, hold, sig, exitVars>>

-----------------------------------------------------------------------------
(* clear_handle_cache and the exit hook *)

ClearedCache ==
  /\ entry' = [x \in Entries |-> IF \E p \in Paths : cached[p] = x
                                 THEN Retired(entry[x]) ELSE entry[x]]
  /\ cached' = [p \in Paths |-> NoEntry]
  /\ older' = {}

Clear ==
  /\ CachedPaths # {}
  /\ ClearedCache
  /\ UNCHANGED <<fsVars, callVars, exitVars>>

\* atexit: threads that are not daemons have been joined.  _close drops the
\* cached handles first ...
CloseKeepsHandlesFault ==
  /\ exit = "running"
  /\ driver = "open"
  /\ \A t \in Threads \ Daemons : pc[t] = "idle"
  /\ exit' = "closing"
  /\ UNCHANGED <<fsVars, cacheVars, callVars, driver>>
CloseClear ==
  /\ exit = "running"
  /\ driver = "open"
  /\ \A t \in Threads \ Daemons : pc[t] = "idle"
  /\ ClearedCache
  /\ exit' = "closing"
  /\ UNCHANGED <<fsVars, callVars, driver>>

\* ... and then closes the driver.
CloseDriver ==
  /\ exit = "closing"
  /\ driver' = "closed"
  /\ exit' = "exited"
  /\ UNCHANGED <<fsVars, cacheVars, callVars>>

\* The process is gone.
Exited == exit = "exited" /\ UNCHANGED vars

-----------------------------------------------------------------------------
Init ==
  /\ dir \in [Paths -> (Inodes \X {0}) \cup {NoFile}]
  /\ \A p, q \in Paths : p # q /\ Exists(p) => dir[p] # dir[q]
  /\ writes = 0
  /\ cached = [p \in Paths |-> NoEntry]
  /\ older = {}
  /\ entry = [e \in Entries |-> NoHandle]
  /\ pc = [t \in Threads |-> "idle"]
  /\ job = [t \in Threads |-> NoJob]
  /\ hold = [h \in Holds |-> NoEntry]
  /\ sig = [t \in Threads |-> NoFile]
  /\ named = [h \in Holds |-> {}]
  /\ driver = "closed"
  /\ exit = "running"

Call(t) == \/ Stat(t) \/ StatMissing(t)
           \/ Hit(t) \/ Open(t) \/ OpenFails(t)
           \/ BeginReads(t) \/ EndReads(t)
           \/ Release(t) \/ Return(t)

Next == \/ \E p \in Paths : Replace(p) \/ Rewrite(p) \/ Remove(p)
        \/ \E p, q \in Paths : Rename(q, p)
        \/ \E t \in Threads : Start(t) \/ Call(t)
        \/ Clear \/ CloseClear \/ CloseDriver \/ Exited

Spec == Init /\ [][Next]_vars

\* A call that has begun is run by a live thread and every step of it returns:
\* stat, open, read and the critical sections all terminate.
FairSpec == Spec /\ \A t \in Threads : WF_vars(Call(t))

-----------------------------------------------------------------------------
(* Properties *)

\* Every variable has its type.
TypeOK ==
  /\ dir \in [Paths -> Sigs \cup {NoFile}]
  /\ writes \in Nat
  /\ cached \in [Paths -> Entries \cup {NoEntry}]
  /\ older \subseteq Paths \X Paths
  /\ entry \in [Entries -> Handle]
  /\ pc \in [Threads -> {"idle", "acquire", "lookup", "read", "release"}]
  /\ job \in [Threads -> [Slots -> Paths \cup {Skip}]]
  /\ hold \in [Holds -> Entries \cup {NoEntry}]
  /\ sig \in [Threads -> Sigs \cup {NoFile}]
  /\ named \in [Holds -> SUBSET Inodes]
  /\ driver \in {"open", "closed"}
  /\ exit \in {"running", "closing", "exited"}

\* _CachedHandle.refs is the number of requests that hold the entry: no
\* interleaving of hits, misses, failed acquires and releases loses or doubles
\* a reference.
RefsCountHolders == \A e \in Entries : entry[e].refs = Cardinality(HoldersOf(e))

\* "Entries evicted while a read is in flight are closed by the last releaser,
\* never under a reader": what a request holds is open until it releases it,
\* whatever evictions, rewrites and clears happen meanwhile.
NeverClosedUnderReader == \A h \in Held : entry[hold[h]].fd = "open"

\* No descriptor leaks: an open one is either in the cache (and then not dead)
\* or dead and held by a request whose release will close it.
NoLeak ==
  \A e \in OpenEntries :
     \/ \E p \in Paths : cached[p] = e /\ ~entry[e].dead
     \/ entry[e].dead /\ HoldersOf(e) # {}

\* _destroy_entry runs at most once for an entry.
ClosedOnce == \A e \in Entries : entry[e].fd # "reclosed"

\* The cache holds at most _HANDLE_CACHE_CAP entries, and with what requests in
\* flight keep alive the process has at most that many more descriptors open.
DescriptorsBounded ==
  /\ Cardinality(CachedPaths) <= Cap
  /\ Cardinality(OpenEntries) <= Cap + Cardinality(Held)

\* How far a request is: served while it holds an entry; what a failed or
\* finished call does not hold is done.
Phase(h) ==
  LET t == h[1] IN
  IF job[t][h[2]] = Skip THEN "none"
  ELSE IF hold[h] # NoEntry THEN "served"
  ELSE IF pc[t] = "release" THEN "done"
  ELSE IF named[h] # {} THEN "statted" ELSE "asked"

Reads == INSTANCE FileReads WITH
  Requests <- Holds, Files <- Inodes, Nothing <- Skip,
  names <- [p \in Paths |-> IF Exists(p) THEN Inode(p) ELSE NoFile],
  wants <- [h \in Holds |-> job[h[1]][h[2]]],
  phase <- [h \in Holds |-> Phase(h)],
  may   <- [h \in Holds |-> IF Phase(h) = "done" THEN {} ELSE named[h]],
  file  <- [h \in Holds |-> IF hold[h] = NoEntry THEN NoFile ELSE entry[hold[h]].file]

\* "a rewritten/replaced file is reopened, so cached handles never serve stale
\* data": the cache cannot be told from reads that open a file their path named
\* at some moment since the request's own stat, never an older one, and keep
\* that file open until they are done with it.
ServesFiles == Reads!ReadsSpec

\* "deregister cached handles before the driver goes away": once the exit hook
\* has closed the driver no handle is registered with it.
NoHandleOutlivesDriver == driver = "closed" => OpenEntries = {}

\* Every call returns: no thread waits for ever on an entry, a lock or a file
\* that keeps changing under it.
CallsReturn == \A t \in Threads : pc[t] # "idle" ~> pc[t] = "idle"

\* A retired entry is closed eventually, by its last releaser.
RetiredAreClosed ==
  \A e \in Entries : (entry[e].fd = "open" /\ entry[e].dead) ~> entry[e].fd = "closed"
=============================================================================
