------------------------------ MODULE PlanCache ------------------------------
(***************************************************************************)
(* open_plan(cached=True) of src/czarr/lowlevel/plan.py: a process-wide    *)
(* LRU of DecodePlans. The signature of zarr.json is read before the lock, *)
(* the file is parsed outside it, and the entry is stored under it again.  *)
(***************************************************************************)
EXTENDS Naturals, Sequences, SequencesExt

CONSTANTS
  Threads,   \* callers of open_plan
  Roots,     \* array directories
  Cap,       \* _PLAN_CACHE_CAP
  MaxWrites, \* bound: zarr.json files ever written
  MaxPlans   \* bound: plans ever parsed

ASSUME CapAssumption == Cap \in Nat \ {0}
ASSUME PlanBoundsAssumption == MaxWrites \in Nat /\ MaxPlans \in Nat

\* A zarr.json is the number of the write it comes from, and so is its
\* signature: no two writes share inode, mtime and size, and none is moved back.
\* 0 is no file.
Writes == 0..MaxWrites

VARIABLES
  disk,   \* root -> its zarr.json
  writes, \* zarr.json files written so far
  cache,  \* _plan_cache: [root, sig, plan], the least recently used first
  parsed, \* plan -> the file it was parsed from; the plans so far
  call,   \* thread -> its call
  seen,   \* history: thread -> the files its root named since its call began
  recent  \* history: the roots stored or hit, the latest last, each once

planVars == <<disk, writes, cache, parsed, call, seen, recent>>

NoOpening == [pc |-> "idle"]

\* What is left without the root r. Each root is in cache and in recent once at most.
Others(r) ==
  IF \E i \in DOMAIN cache : cache[i].root = r
  THEN RemoveAt(cache, CHOOSE i \in DOMAIN cache : cache[i].root = r) ELSE cache
OtherRoots(r) ==
  IF \E i \in DOMAIN recent : recent[i] = r
  THEN RemoveAt(recent, CHOOSE i \in DOMAIN recent : recent[i] = r) ELSE recent

-----------------------------------------------------------------------------
OpenPlan(t) ==
  /\ call[t].pc = "idle"
  /\ \E r \in Roots :
       /\ call' = [call EXCEPT ![t] = [pc |-> "stat", root |-> r]]
       /\ seen' = [seen EXCEPT ![t] = {disk[r]}]
  /\ UNCHANGED <<disk, writes, cache, parsed, recent>>

Answers(t, p) == call' = [call EXCEPT ![t] = [pc |-> "returned", root |-> @.root, plan |-> p]]

\* zarr_json.stat(), which raises when there is none.
StatZarrJson(t) ==
  /\ call[t].pc = "stat"
  /\ LET sig == disk[call[t].root]
     IN  call' = [call EXCEPT ![t] =
                    IF sig = 0 THEN NoOpening ELSE [pc |-> "lookup", root |-> @.root, sig |-> sig]]
  /\ UNCHANGED <<disk, writes, cache, parsed, seen, recent>>

\* Under the lock: a hit is an entry of the root with this signature.
AnyEntryFault(t) == {e \in {cache[i] : i \in DOMAIN cache} : e.root = call[t].root}
Entries(t) == {e \in {cache[i] : i \in DOMAIN cache} :
                 e.root = call[t].root /\ e.sig = call[t].sig}

\* move_to_end
Hit(t) ==
  /\ call[t].pc = "lookup"
  /\ \E e \in Entries(t) :
       /\ cache' = Append(Others(e.root), e)
       /\ recent' = Append(OtherRoots(e.root), e.root)
       /\ Answers(t, e.plan)
  /\ UNCHANGED <<disk, writes, parsed, seen>>

Miss(t) ==
  /\ call[t].pc = "lookup" /\ Entries(t) = {}
  /\ call' = [call EXCEPT ![t].pc = "parse"]
  /\ UNCHANGED <<disk, writes, cache, parsed, seen, recent>>

\* read_bytes of the file that is there now.
Parse(t) ==
  /\ call[t].pc = "parse"
  /\ LET f == disk[call[t].root]
     IN  IF f = 0
         THEN call' = [call EXCEPT ![t] = NoOpening] /\ UNCHANGED parsed
         ELSE /\ Len(parsed) < MaxPlans
              /\ parsed' = Append(parsed, f)
              /\ call' = [call EXCEPT ![t] = [pc |-> "store", root |-> @.root, sig |-> @.sig,
                                              plan |-> Len(parsed) + 1]]
  /\ UNCHANGED <<disk, writes, cache, seen, recent>>

\* Under the lock: store, move_to_end, evict from the front.
Evicted(c) == IF Len(c) > Cap THEN SubSeq(c, Len(c) - Cap + 1, Len(c)) ELSE c
Entry(t) == [root |-> call[t].root, sig |-> call[t].sig, plan |-> call[t].plan]
InPlaceFault(t) ==
  IF \E i \in DOMAIN cache : cache[i].root = call[t].root
  THEN [i \in DOMAIN cache |-> IF cache[i].root = call[t].root THEN Entry(t) ELSE cache[i]]
  ELSE Append(cache, Entry(t))
Stored(t) == Append(Others(call[t].root), Entry(t))

Store(t) ==
  /\ call[t].pc = "store"
  /\ cache' = Evicted(Stored(t))
  /\ recent' = Append(OtherRoots(call[t].root), call[t].root)
  /\ Answers(t, call[t].plan)
  /\ UNCHANGED <<disk, writes, parsed, seen>>

ReturnPlan(t) ==
  /\ call[t].pc = "returned"
  /\ call' = [call EXCEPT ![t] = NoOpening]
  /\ UNCHANGED <<disk, writes, cache, parsed, seen, recent>>

\* clear_plan_cache
Clear ==
  /\ cache # <<>>
  /\ cache' = <<>> /\ recent' = <<>>
  /\ UNCHANGED <<disk, writes, parsed, call, seen>>

-----------------------------------------------------------------------------
(* Writers of zarr.json *)

Sees(r, f) ==
  seen' = [t \in Threads |-> IF call[t].pc # "idle" /\ call[t].root = r
                             THEN seen[t] \cup {f} ELSE seen[t]]
Becomes(r, f) == disk' = [disk EXCEPT ![r] = f] /\ Sees(r, f)

Write(r) ==
  /\ writes < MaxWrites
  /\ writes' = writes + 1
  /\ Becomes(r, writes + 1)
  /\ UNCHANGED <<cache, parsed, call, recent>>

RemoveZarrJson(r) ==
  /\ disk[r] # 0
  /\ Becomes(r, 0)
  /\ UNCHANGED <<writes, cache, parsed, call, recent>>

-----------------------------------------------------------------------------
PlanInit ==
  /\ disk = [r \in Roots |-> 0] /\ writes = 0
  /\ cache = <<>> /\ parsed = <<>>
  /\ call = [t \in Threads |-> NoOpening]
  /\ seen = [t \in Threads |-> {}] /\ recent = <<>>

PlanNext == \/ \E t \in Threads : \/ OpenPlan(t) \/ StatZarrJson(t) \/ Hit(t) \/ Miss(t)
                                  \/ Parse(t) \/ Store(t) \/ ReturnPlan(t)
            \/ Clear
            \/ \E r \in Roots : Write(r) \/ RemoveZarrJson(r)

PlanSpec == PlanInit /\ [][PlanNext]_planVars

-----------------------------------------------------------------------------
(* Properties *)

\* "a rewritten array reparses": the plan a call returns was parsed from a
\* zarr.json its root named during the call.
PlanIsNotStale ==
  \A t \in Threads : call[t].pc = "returned" => parsed[call[t].plan] \in seen[t]

\* The cache holds the Cap roots stored or hit last, in that order: what one
\* thread just stored or hit is never what another's insertion evicts.
HoldsMostRecent ==
  [i \in DOMAIN cache |-> cache[i].root] =
    SubSeq(recent, IF Len(recent) > Cap THEN Len(recent) - Cap + 1 ELSE 1, Len(recent))
=============================================================================
