-------------------------- MODULE HandleCache_proofs --------------------------
(***************************************************************************)
(* Proofs about HandleCache for every number of paths, threads, request    *)
(* slots, entries and every cap.                                           *)
(***************************************************************************)
EXTENDS HandleCache, FiniteSetTheorems, TLAPS

\* What the cache holds is open and alive, and no entry is cached twice.
CachedAlive ==
  \A p \in Paths : cached[p] # NoEntry =>
     /\ entry[cached[p]].fd = "open"
     /\ ~entry[cached[p]].dead
     /\ \A q \in Paths : cached[q] = cached[p] => q = p

\* The inductive invariant.
HandleInv == /\ TypeOK
             /\ RefsCountHolders
             /\ NeverClosedUnderReader
             /\ CachedAlive
             /\ NoLeak
             /\ ClosedOnce

LEMMA HoldersFinite == \A e : IsFiniteSet(HoldersOf(e))
<1>1. IsFiniteSet(Slots)
  BY FS_Interval, BatchAssumption DEF Slots
<1>2. IsFiniteSet(Holds)
  BY <1>1, FS_Product, FiniteAssumption DEF Holds
<1>3. QED
  BY <1>2, FS_Subset DEF HoldersOf

\* A request that held nothing takes e: e gains a holder, no other entry does.
LEMMA HoldersGrow ==
  ASSUME NEW h \in Holds, NEW e \in Entries,
         hold \in [Holds -> Entries \cup {NoEntry}],
         hold[h] = NoEntry, hold' = [hold EXCEPT ![h] = e]
  PROVE  /\ HoldersOf(e)' = HoldersOf(e) \cup {h}
         /\ Cardinality(HoldersOf(e)') = Cardinality(HoldersOf(e)) + 1
         /\ \A x \in Entries : x # e => HoldersOf(x)' = HoldersOf(x)
<1>1. /\ HoldersOf(e)' = HoldersOf(e) \cup {h}
      /\ h \notin HoldersOf(e)
      /\ \A x \in Entries : x # e => HoldersOf(x)' = HoldersOf(x)
  BY NoneAssumption DEF HoldersOf
<1>2. Cardinality(HoldersOf(e) \cup {h}) = Cardinality(HoldersOf(e)) + 1
  BY <1>1, HoldersFinite, FS_AddElement
<1>3. QED
  BY <1>1, <1>2

\* A request gives back what it held: that entry loses a holder.
LEMMA HoldersShrink ==
  ASSUME NEW h \in Holds, NEW e \in Entries,
         hold \in [Holds -> Entries \cup {NoEntry}],
         hold[h] = e, hold' = [hold EXCEPT ![h] = NoEntry]
  PROVE  /\ HoldersOf(e)' = HoldersOf(e) \ {h}
         /\ Cardinality(HoldersOf(e)') = Cardinality(HoldersOf(e)) - 1
         /\ \A x \in Entries : x # e => HoldersOf(x)' = HoldersOf(x)
<1>1. /\ HoldersOf(e)' = HoldersOf(e) \ {h}
      /\ h \in HoldersOf(e)
      /\ \A x \in Entries : x # e => HoldersOf(x)' = HoldersOf(x)
  BY NoneAssumption DEF HoldersOf
<1>2. Cardinality(HoldersOf(e) \ {h}) = Cardinality(HoldersOf(e)) - 1
  BY <1>1, HoldersFinite, FS_RemoveElement
<1>3. QED
  BY <1>1, <1>2

\* An entry nobody holds counts no references, and the other way round.
LEMMA NoRefsNoHolders ==
  ASSUME RefsCountHolders, NEW e \in Entries
  PROVE  entry[e].refs = 0 <=> HoldersOf(e) = {}
  BY HoldersFinite, FS_EmptySet DEF RefsCountHolders

\* What retiring an open entry does to it.
LEMMA RetiredHandle ==
  ASSUME NEW en \in Handle, en.fd = "open"
  PROVE  /\ Retired(en) \in Handle
         /\ Retired(en).refs = en.refs
         /\ Retired(en).dead
         /\ Retired(en).fd = IF en.refs = 0 THEN "closed" ELSE "open"
  BY DEF Handle, Retired, Destroyed, NoHandle

\* What giving back one of its references does to an open entry.
LEMMA ReleasedHandle ==
  ASSUME NEW en \in Handle, en.fd = "open", en.refs > 0
  PROVE  /\ Released(en) \in Handle
         /\ Released(en).refs = en.refs - 1
         /\ Released(en).dead = en.dead
         /\ Released(en).fd = IF en.dead /\ en.refs = 1 THEN "closed" ELSE "open"
<1> DEFINE r == [en EXCEPT !.refs = @ - 1]
<1>1. /\ r \in Handle /\ r.refs = en.refs - 1
      /\ r.dead = en.dead /\ r.fd = "open" /\ en.dead \in BOOLEAN
  BY DEF Handle
<1>2. CASE r.dead /\ r.refs = 0
  <2>1. Released(en) = Destroyed(r)
    BY <1>2 DEF Released
  <2> HIDE DEF r
  <2>2. /\ Destroyed(r) \in Handle /\ Destroyed(r).refs = 0
        /\ Destroyed(r).dead = TRUE /\ Destroyed(r).fd = "closed"
    BY <1>1, <1>2 DEF Handle, Destroyed, NoHandle
  <2>3. en.refs = 1 /\ en.dead = TRUE /\ en.dead
    BY <1>1, <1>2 DEF Handle
  <2>4. (IF en.dead /\ en.refs = 1 THEN "closed" ELSE "open") = "closed"
    BY <2>3
  <2>5. Released(en) \in Handle
    BY <2>1, <2>2
  <2>6. Released(en).refs = en.refs - 1
    BY <2>1, <2>2, <2>3
  <2>7. Released(en).dead = en.dead
    BY <2>1, <2>2, <2>3
  <2>8. Released(en).fd = "closed"
    BY <2>1, <2>2
  <2>9. QED
    BY <2>4, <2>5, <2>6, <2>7, <2>8
<1>3. CASE ~(r.dead /\ r.refs = 0)
  <2>1. Released(en) = r
    BY <1>3 DEF Released
  <2>2. ~(en.dead /\ en.refs = 1)
    BY <1>1, <1>3 DEF Handle
  <2>3. QED
    BY <2>1, <2>2, <1>1
<1>4. QED
  BY <1>2, <1>3

\* A step that leaves the cache, the entries and the holds alone.
LEMMA SameCache ==
  ASSUME HandleInv, UNCHANGED <<cached, entry, hold>>
  PROVE  (RefsCountHolders /\ NeverClosedUnderReader /\ CachedAlive
            /\ NoLeak /\ ClosedOnce)'
  BY DEF HandleInv, RefsCountHolders, NeverClosedUnderReader, CachedAlive,
         NoLeak, ClosedOnce, HoldersOf, Held, OpenEntries

\* The paths in R leave the cache and their entries are retired.
LEMMA RetireStep ==
  ASSUME HandleInv, NEW R \in SUBSET Paths, hold' = hold,
         cached' = [p \in Paths |-> IF p \in R THEN NoEntry ELSE cached[p]],
         entry' = [x \in Entries |-> IF \E p \in R : cached[p] = x
                                     THEN Retired(entry[x]) ELSE entry[x]]
  PROVE  /\ cached' \in [Paths -> Entries \cup {NoEntry}]
         /\ entry' \in [Entries -> Handle]
         /\ (RefsCountHolders /\ NeverClosedUnderReader /\ CachedAlive
               /\ NoLeak /\ ClosedOnce)'
<1> USE DEF HandleInv
<1>0. /\ cached \in [Paths -> Entries \cup {NoEntry}]
      /\ entry \in [Entries -> Handle]
      /\ hold \in [Holds -> Entries \cup {NoEntry}]
  BY DEF TypeOK
<1>1. \A x \in Entries : HoldersOf(x)' = HoldersOf(x)
  BY DEF HoldersOf
<1>2. ASSUME NEW x \in Entries, NEW p \in R, cached[p] = x
      PROVE  /\ entry'[x] \in Handle
             /\ entry'[x].refs = entry[x].refs
             /\ entry'[x].dead
             /\ entry'[x].fd = IF entry[x].refs = 0 THEN "closed" ELSE "open"
  <2>1. entry'[x] = Retired(entry[x])
    BY <1>2
  <2>2. entry[x] \in Handle /\ entry[x].fd = "open"
    BY <1>0, <1>2, NoneAssumption DEF CachedAlive
  <2>3. QED
    BY <2>1, <2>2, RetiredHandle
<1>3. ASSUME NEW x \in Entries, \A p \in R : cached[p] # x
      PROVE  entry'[x] = entry[x]
  BY <1>3
<1>4. entry' \in [Entries -> Handle]
  <2>1. \A x \in Entries : entry'[x] \in Handle
    BY <1>0, <1>2, <1>3
  <2>2. QED
    BY <2>1
<1>5. RefsCountHolders'
  <2>1. \A x \in Entries : entry'[x].refs = entry[x].refs
    BY <1>2, <1>3
  <2>2. QED
    BY <2>1, <1>1 DEF RefsCountHolders
<1>6. NeverClosedUnderReader'
  <2> SUFFICES ASSUME NEW h \in Holds, hold[h] # NoEntry
               PROVE  entry'[hold[h]].fd = "open"
    BY DEF NeverClosedUnderReader, Held
  <2>1. hold[h] \in Entries /\ HoldersOf(hold[h]) # {} /\ entry[hold[h]].fd = "open"
    BY <1>0 DEF NeverClosedUnderReader, Held, HoldersOf
  <2>2. entry[hold[h]].refs # 0
    BY <2>1, NoRefsNoHolders
  <2>3. QED
    BY <2>1, <2>2, <1>2, <1>3
<1>7. CachedAlive'
  <2> SUFFICES ASSUME NEW p \in Paths, cached'[p] # NoEntry
               PROVE  /\ entry'[cached'[p]].fd = "open"
                      /\ ~entry'[cached'[p]].dead
                      /\ \A q \in Paths : cached'[q] = cached'[p] => q = p
    BY DEF CachedAlive
  <2>1. p \notin R /\ cached'[p] = cached[p] /\ cached[p] \in Entries
    BY <1>0
  <2>2. \A q \in R : cached[q] # cached[p]
    BY <2>1, <1>0 DEF CachedAlive
  <2>3. entry'[cached[p]] = entry[cached[p]]
    BY <2>1, <2>2, <1>3
  <2>4. QED
    BY <2>1, <2>3, <1>0 DEF CachedAlive
<1>8. NoLeak'
  <2> SUFFICES ASSUME NEW x \in Entries, entry'[x].fd = "open"
               PROVE  \/ \E p \in Paths : cached'[p] = x /\ ~entry'[x].dead
                      \/ entry'[x].dead /\ HoldersOf(x) # {}
    BY <1>1 DEF NoLeak, OpenEntries
  <2>1. CASE \E p \in R : cached[p] = x
    BY <2>1, <1>2, NoRefsNoHolders
  <2>2. CASE \A p \in R : cached[p] # x
    BY <2>2, <1>3 DEF NoLeak, OpenEntries
  <2>3. QED
    BY <2>1, <2>2
<1>9. ClosedOnce'
  BY <1>2, <1>3 DEF ClosedOnce
<1>10. QED
  BY <1>0, <1>4, <1>5, <1>6, <1>7, <1>8, <1>9

\* The request h takes the entry e that is cached already.
LEMMA HitStep ==
  ASSUME HandleInv, NEW h \in Holds, hold[h] = NoEntry,
         NEW p \in Paths, cached[p] # NoEntry,
         entry' = [entry EXCEPT ![cached[p]] = Referenced(@)],
         hold' = [hold EXCEPT ![h] = cached[p]],
         cached' = cached
  PROVE  /\ entry' \in [Entries -> Handle]
         /\ hold' \in [Holds -> Entries \cup {NoEntry}]
         /\ (RefsCountHolders /\ NeverClosedUnderReader /\ CachedAlive
               /\ NoLeak /\ ClosedOnce)'
<1> USE DEF HandleInv
<1>0. /\ cached \in [Paths -> Entries \cup {NoEntry}]
      /\ entry \in [Entries -> Handle]
      /\ hold \in [Holds -> Entries \cup {NoEntry}]
  BY DEF TypeOK
<1> DEFINE e == cached[p]
<1>1. e \in Entries /\ entry[e] \in Handle
  BY <1>0
<1>2. PICK c \in Entries : c = e
  BY <1>1
<1>3. /\ HoldersOf(c)' = HoldersOf(c) \cup {h}
      /\ Cardinality(HoldersOf(c)') = Cardinality(HoldersOf(c)) + 1
      /\ \A x \in Entries : x # c => HoldersOf(x)' = HoldersOf(x)
  BY <1>0, <1>2, HoldersGrow
<1>4. /\ entry'[c] \in Handle
      /\ entry'[c].refs = entry[c].refs + 1
      /\ entry'[c].dead = entry[c].dead
      /\ entry'[c].fd = entry[c].fd
      /\ \A x \in Entries : x # c => entry'[x] = entry[x]
  BY <1>0, <1>1, <1>2 DEF Handle, Referenced
<1>5. entry' \in [Entries -> Handle]
  BY <1>0, <1>4
<1>6. hold' \in [Holds -> Entries \cup {NoEntry}]
  BY <1>0, <1>1
<1>7. RefsCountHolders'
  BY <1>3, <1>4 DEF RefsCountHolders
<1>8. entry[c].fd = "open" /\ ~entry[c].dead
  BY <1>2 DEF CachedAlive
<1>9. NeverClosedUnderReader'
  BY <1>0, <1>2, <1>4, <1>8 DEF NeverClosedUnderReader, Held
<1>10. CachedAlive'
  BY <1>0, <1>4, <1>8 DEF CachedAlive
<1>11. NoLeak'
  BY <1>0, <1>2, <1>3, <1>4 DEF NoLeak, OpenEntries
<1>12. ClosedOnce'
  BY <1>4 DEF ClosedOnce
<1>13. QED
  BY <1>5, <1>6, <1>7, <1>9, <1>10, <1>11, <1>12

\* The request h gives back its entry.
LEMMA ReleaseStep ==
  ASSUME HandleInv, NEW h \in Holds, hold[h] # NoEntry,
         entry' = [entry EXCEPT ![hold[h]] = Released(@)],
         hold' = [hold EXCEPT ![h] = NoEntry],
         cached' = cached
  PROVE  /\ entry' \in [Entries -> Handle]
         /\ hold' \in [Holds -> Entries \cup {NoEntry}]
         /\ (RefsCountHolders /\ NeverClosedUnderReader /\ CachedAlive
               /\ NoLeak /\ ClosedOnce)'
<1> USE DEF HandleInv
<1>0. /\ cached \in [Paths -> Entries \cup {NoEntry}]
      /\ entry \in [Entries -> Handle]
      /\ hold \in [Holds -> Entries \cup {NoEntry}]
  BY DEF TypeOK
<1>1. PICK c \in Entries : c = hold[h]
  BY <1>0
<1>2. /\ HoldersOf(c)' = HoldersOf(c) \ {h}
      /\ Cardinality(HoldersOf(c)') = Cardinality(HoldersOf(c)) - 1
      /\ \A x \in Entries : x # c => HoldersOf(x)' = HoldersOf(x)
  BY <1>0, <1>1, HoldersShrink
<1>3. entry[c] \in Handle /\ entry[c].fd = "open" /\ entry[c].refs > 0
  <2>1. h \in HoldersOf(c)
    BY <1>1 DEF HoldersOf
  <2>2. entry[c].refs # 0 /\ entry[c] \in Handle
    BY <1>0, <2>1, NoRefsNoHolders
  <2>3. QED
    BY <2>2, <1>1 DEF Handle, NeverClosedUnderReader, Held
<1>4. /\ entry'[c] \in Handle
      /\ entry'[c].refs = entry[c].refs - 1
      /\ entry'[c].dead = entry[c].dead
      /\ entry'[c].fd = IF entry[c].dead /\ entry[c].refs = 1 THEN "closed" ELSE "open"
      /\ \A x \in Entries : x # c => entry'[x] = entry[x]
  <2>1. entry'[c] = Released(entry[c]) /\ \A x \in Entries : x # c => entry'[x] = entry[x]
    BY <1>0, <1>1
  <2>2. QED
    BY <2>1, <1>3, ReleasedHandle
<1>5. entry' \in [Entries -> Handle]
  BY <1>0, <1>4
<1>6. hold' \in [Holds -> Entries \cup {NoEntry}]
  BY <1>0
<1>7. RefsCountHolders'
  BY <1>2, <1>4 DEF RefsCountHolders
<1>8. HoldersOf(c)' = {} <=> entry[c].refs = 1
  <2>1. IsFiniteSet(HoldersOf(c)') /\ entry[c].refs \in Nat
    BY <1>2, <1>3, HoldersFinite, FS_RemoveElement DEF Handle
  <2>2. Cardinality(HoldersOf(c)') = entry[c].refs - 1
    BY <1>2 DEF RefsCountHolders
  <2>3. QED
    BY <2>1, <2>2, FS_EmptySet
<1>9. NeverClosedUnderReader'
  <2> SUFFICES ASSUME NEW g \in Holds, hold'[g] # NoEntry
               PROVE  entry'[hold'[g]].fd = "open"
    BY DEF NeverClosedUnderReader, Held
  <2>1. g # h /\ hold'[g] = hold[g] /\ hold[g] \in Entries
    BY <1>0
  <2>2. CASE hold[g] = c
    <3>1. g \in HoldersOf(c)'
      BY <2>1, <2>2 DEF HoldersOf
    <3>2. QED
      BY <3>1, <2>1, <2>2, <1>4, <1>8
  <2>3. CASE hold[g] # c
    BY <2>1, <2>3, <1>4 DEF NeverClosedUnderReader, Held
  <2>4. QED
    BY <2>2, <2>3
<1>10. CachedAlive'
  BY <1>0, <1>4 DEF CachedAlive
<1>11. NoLeak'
  <2> SUFFICES ASSUME NEW x \in Entries, entry'[x].fd = "open"
               PROVE  \/ \E p \in Paths : cached'[p] = x /\ ~entry'[x].dead
                      \/ entry'[x].dead /\ HoldersOf(x)' # {}
    BY DEF NoLeak, OpenEntries
  <2>1. CASE x = c
    <3>1. CASE entry[c].dead
      <4>1. entry[c].refs # 1
        BY <2>1, <3>1, <1>4
      <4>2. HoldersOf(c)' # {}
        BY <4>1, <1>8
      <4>3. QED
        BY <2>1, <3>1, <4>2, <1>4
    <3>2. CASE ~entry[c].dead
      BY <2>1, <3>2, <1>3, <1>4 DEF NoLeak, OpenEntries
    <3>3. QED
      BY <3>1, <3>2
  <2>2. CASE x # c
    BY <2>2, <1>2, <1>4 DEF NoLeak, OpenEntries
  <2>3. QED
    BY <2>1, <2>2
<1>12. ClosedOnce'
  BY <1>4 DEF ClosedOnce
<1>13. QED
  BY <1>5, <1>6, <1>7, <1>9, <1>10, <1>11, <1>12

\* The request h opens p: the entries of gone and the old entry of p, if any,
\* are retired, and the fresh entry e is cached.
LEMMA MissStep ==
  ASSUME HandleInv, NEW h \in Holds, hold[h] = NoEntry,
         NEW p \in Paths, NEW gone \in SUBSET Paths, p \notin gone,
         NEW e \in FreeEntries, NEW new \in Handle,
         new.refs = 1, ~new.dead, new.fd = "open",
         cached' = [q \in Paths |-> IF q = p THEN e
                      ELSE IF q \in gone THEN NoEntry ELSE cached[q]],
         entry' = [x \in Entries |-> IF x = e THEN new
                      ELSE IF \E q \in gone \cup {p} : cached[q] = x
                           THEN Retired(entry[x]) ELSE entry[x]],
         hold' = [hold EXCEPT ![h] = e]
  PROVE  /\ cached' \in [Paths -> Entries \cup {NoEntry}]
         /\ entry' \in [Entries -> Handle]
         /\ hold' \in [Holds -> Entries \cup {NoEntry}]
         /\ (RefsCountHolders /\ NeverClosedUnderReader /\ CachedAlive
               /\ NoLeak /\ ClosedOnce)'
<1> USE DEF HandleInv
<1> DEFINE R == gone \cup {p}
<1>0. /\ cached \in [Paths -> Entries \cup {NoEntry}]
      /\ entry \in [Entries -> Handle]
      /\ hold \in [Holds -> Entries \cup {NoEntry}]
  BY DEF TypeOK
<1>1. /\ e \in Entries /\ e # NoEntry
      /\ entry[e].fd = "closed"
      /\ Cardinality(HoldersOf(e)) = 0
      /\ \A q \in Paths : cached[q] # e
      /\ \A g \in Holds : hold[g] # e
  <2>1. e \in Entries /\ e # NoEntry /\ entry[e].fd = "closed" /\ HoldersOf(e) = {}
    BY NoneAssumption DEF FreeEntries, NoHandle
  <2>2. QED
    BY <2>1, FS_EmptySet DEF CachedAlive, HoldersOf
<1>2. /\ HoldersOf(e)' = HoldersOf(e) \cup {h}
      /\ Cardinality(HoldersOf(e)') = Cardinality(HoldersOf(e)) + 1
      /\ \A x \in Entries : x # e => HoldersOf(x)' = HoldersOf(x)
  BY <1>0, <1>1, HoldersGrow
<1>3. entry'[e] = new
  BY <1>1
<1>4. ASSUME NEW x \in Entries, NEW q \in R, cached[q] = x
      PROVE  /\ entry'[x] \in Handle
             /\ entry'[x].refs = entry[x].refs
             /\ entry'[x].dead
             /\ entry'[x].fd = IF entry[x].refs = 0 THEN "closed" ELSE "open"
  <2>1. x # e
    BY <1>1, <1>4
  <2>2. entry'[x] = Retired(entry[x])
    BY <2>1, <1>4
  <2>3. entry[x] \in Handle /\ entry[x].fd = "open"
    BY <1>0, <1>4, NoneAssumption DEF CachedAlive
  <2>4. QED
    BY <2>2, <2>3, RetiredHandle
<1>5. ASSUME NEW x \in Entries, x # e, \A q \in R : cached[q] # x
      PROVE  entry'[x] = entry[x]
  BY <1>5
<1>6. entry' \in [Entries -> Handle]
  <2>1. \A x \in Entries : entry'[x] \in Handle
    BY <1>0, <1>3, <1>4, <1>5
  <2>2. QED
    BY <2>1
<1>7. cached' \in [Paths -> Entries \cup {NoEntry}]
  BY <1>0, <1>1
<1>8. hold' \in [Holds -> Entries \cup {NoEntry}]
  BY <1>0, <1>1
<1>9. RefsCountHolders'
  <2>1. \A x \in Entries : x # e => entry'[x].refs = entry[x].refs
    BY <1>4, <1>5
  <2>2. entry'[e].refs = Cardinality(HoldersOf(e)')
    BY <1>1, <1>2, <1>3
  <2>3. \A x \in Entries : x # e => entry'[x].refs = Cardinality(HoldersOf(x)')
    BY <2>1, <1>2 DEF RefsCountHolders
  <2>4. QED
    BY <2>2, <2>3 DEF RefsCountHolders
<1>10. NeverClosedUnderReader'
  <2> SUFFICES ASSUME NEW g \in Holds, hold'[g] # NoEntry
               PROVE  entry'[hold'[g]].fd = "open"
    BY DEF NeverClosedUnderReader, Held
  <2>1. CASE g = h
    BY <2>1, <1>0, <1>3
  <2>2. CASE g # h
    <3>1. hold'[g] = hold[g] /\ hold[g] \in Entries /\ hold[g] # e
      BY <2>2, <1>0, <1>1
    <3>2. HoldersOf(hold[g]) # {} /\ entry[hold[g]].fd = "open"
      BY <3>1, NoneAssumption DEF NeverClosedUnderReader, Held, HoldersOf
    <3>3. entry[hold[g]].refs # 0
      BY <3>1, <3>2, NoRefsNoHolders
    <3>4. QED
      BY <3>1, <3>2, <3>3, <1>4, <1>5
  <2>3. QED
    BY <2>1, <2>2
<1>11. CachedAlive'
  <2> SUFFICES ASSUME NEW r \in Paths, cached'[r] # NoEntry
               PROVE  /\ entry'[cached'[r]].fd = "open"
                      /\ ~entry'[cached'[r]].dead
                      /\ \A q \in Paths : cached'[q] = cached'[r] => q = r
    BY DEF CachedAlive
  <2>1. CASE r = p
    BY <2>1, <1>0, <1>1, <1>3
  <2>2. CASE r # p
    <3>1. r \notin R /\ cached'[r] = cached[r] /\ cached[r] \in Entries /\ cached[r] # e
      BY <2>2, <1>0, <1>1
    <3>2. \A q \in R : cached[q] # cached[r]
      BY <3>1, <1>0 DEF CachedAlive
    <3>3. entry'[cached[r]] = entry[cached[r]]
      BY <3>1, <3>2, <1>5
    <3>4. QED
      BY <3>1, <3>3, <1>0, <1>1 DEF CachedAlive
  <2>3. QED
    BY <2>1, <2>2
<1>12. NoLeak'
  <2> SUFFICES ASSUME NEW x \in Entries, entry'[x].fd = "open"
               PROVE  \/ \E q \in Paths : cached'[q] = x /\ ~entry'[x].dead
                      \/ entry'[x].dead /\ HoldersOf(x)' # {}
    BY DEF NoLeak, OpenEntries
  <2>1. CASE x = e
    BY <2>1, <1>3
  <2>2. CASE x # e /\ \E q \in R : cached[q] = x
    <3>1. entry[x].refs # 0 /\ entry'[x].dead
      BY <2>2, <1>4
    <3>2. HoldersOf(x) # {}
      BY <3>1, NoRefsNoHolders
    <3>3. QED
      BY <2>2, <3>1, <3>2, <1>2
  <2>3. CASE x # e /\ \A q \in R : cached[q] # x
    BY <2>3, <1>2, <1>5 DEF NoLeak, OpenEntries
  <2>4. QED
    BY <2>1, <2>2, <2>3
<1>13. ClosedOnce'
  <2>1. \A x \in Entries : entry'[x].fd # "reclosed"
    BY <1>3, <1>4, <1>5 DEF ClosedOnce
  <2>2. QED
    BY <2>1 DEF ClosedOnce
<1>14. QED
  BY <1>6, <1>7, <1>8, <1>9, <1>10, <1>11, <1>12, <1>13

-----------------------------------------------------------------------------
(* The steps of the specification *)

LEMMA InitEstablishes == Init => HandleInv
<1> SUFFICES ASSUME Init PROVE HandleInv
  OBVIOUS
<1>1. TypeOK
  BY NoneAssumption DEF Init, TypeOK, NoHandle, NoJob, Handle, Sigs, Slots
<1>2. \A e \in Entries : HoldersOf(e) = {} /\ entry[e] = NoHandle
  BY NoneAssumption DEF Init, HoldersOf
<1>3. RefsCountHolders
  BY <1>2, FS_EmptySet DEF RefsCountHolders, NoHandle
<1>4. QED
  BY <1>1, <1>2, <1>3 DEF Init, HandleInv, NeverClosedUnderReader, CachedAlive,
     NoLeak, ClosedOnce, NoHandle, Held, OpenEntries

\* The writers change files and what calls have seen of them, nothing else.
LEMMA WritersPreserve ==
  ASSUME HandleInv, NEW p \in Paths, NEW q \in Paths,
         Replace(p) \/ Rewrite(p) \/ Remove(p) \/ Rename(q, p)
  PROVE  HandleInv'
<1>1. UNCHANGED <<cached, entry, hold>>
  BY DEF Replace, Rewrite, Remove, Rename, cacheVars, callVars
<1>2. \A n \in Inodes : TypeOK => SeenBy(p, n) \in [Holds -> SUBSET Inodes]
  BY DEF SeenBy, TypeOK
<1>3. TypeOK'
  <2> USE DEF HandleInv
  <2>1. CASE Replace(p)
    BY <2>1, <1>2 DEF Replace, TypeOK, Sigs, FreeInodes, cacheVars, exitVars
  <2>2. CASE Rewrite(p)
    BY <2>2 DEF Rewrite, TypeOK, Sigs, Exists, Inode, cacheVars, callVars, exitVars
  <2>3. CASE Remove(p)
    BY <2>3 DEF Remove, TypeOK, cacheVars, callVars, exitVars
  <2>4. CASE Rename(q, p)
    <3>1. dir[q] \in Sigs /\ Inode(q) \in Inodes
      BY <2>4 DEF Rename, TypeOK, Exists, Inode, Sigs
    <3>2. QED
      BY <2>4, <3>1, <1>2 DEF Rename, TypeOK, cacheVars, exitVars
  <2>5. QED
    BY <2>1, <2>2, <2>3, <2>4
<1>4. QED
  BY <1>1, <1>3, SameCache DEF HandleInv

\* What a request slot of a thread is.
LEMMA NextSlot ==
  ASSUME TypeOK, NEW t \in Threads, NEW i \in Slots, IsNext(t, i)
  PROVE  /\ <<t, i>> \in Holds
         /\ hold[<<t, i>>] = NoEntry
         /\ job[t][i] \in Paths
  BY DEF IsNext, Wanted, TypeOK, Holds

\* The steps of a call that only move the call along.
LEMMA CallStepsPreserve ==
  ASSUME HandleInv, NEW t \in Threads,
         Start(t) \/ Stat(t) \/ StatMissing(t) \/ BeginReads(t) \/ EndReads(t) \/ Return(t)
  PROVE  HandleInv'
<1> USE DEF HandleInv
<1>1. UNCHANGED <<cached, entry, hold>>
  BY DEF Start, Stat, StatMissing, BeginReads, EndReads, Return, cacheVars
<1>2. TypeOK'
  <2>1. CASE Start(t)
    BY <2>1 DEF Start, TypeOK, fsVars, cacheVars
  <2>2. CASE Stat(t)
    <3>1. PICK i \in Slots :
            /\ IsNext(t, i) /\ Exists(job[t][i])
            /\ sig' = [sig EXCEPT ![t] = dir[job[t][i]]]
            /\ named' = [named EXCEPT ![<<t, i>>] = {Inode(job[t][i])}]
      BY <2>2 DEF Stat
    <3>2. dir[job[t][i]] \in Sigs /\ Inode(job[t][i]) \in Inodes
      BY <3>1, NextSlot DEF TypeOK, Exists, Inode, Sigs
    <3>3. sig' \in [Threads -> Sigs \cup {NoFile}]
      BY <3>1, <3>2 DEF TypeOK
    <3>4. named' \in [Holds -> SUBSET Inodes]
      BY <3>1, <3>2 DEF TypeOK
    <3>5. QED
      BY <2>2, <3>3, <3>4 DEF Stat, TypeOK, fsVars, cacheVars, exitVars
  <2>3. CASE StatMissing(t) \/ BeginReads(t) \/ EndReads(t)
    BY <2>3 DEF StatMissing, BeginReads, EndReads, TypeOK, fsVars, cacheVars, exitVars
  <2>4. CASE Return(t)
    BY <2>4 DEF Return, TypeOK, NoJob, fsVars, cacheVars, exitVars
  <2>5. QED
    BY <2>1, <2>2, <2>3, <2>4
<1>3. QED
  BY <1>1, <1>2, SameCache

LEMMA HitPreserves ==
  ASSUME HandleInv, NEW t \in Threads, Hit(t)
  PROVE  HandleInv'
<1>1. PICK i \in Slots :
        /\ IsNext(t, i)
        /\ IsHit(t, job[t][i])
        /\ entry' = [entry EXCEPT ![cached[job[t][i]]] = Referenced(@)]
        /\ older' = Touched(job[t][i], {})
        /\ Acquired(t, i, cached[job[t][i]])
  BY DEF Hit
<1> DEFINE p == job[t][i]
<1>2. p \in Paths /\ <<t, i>> \in Holds /\ hold[<<t, i>>] = NoEntry /\ cached[p] # NoEntry
  BY <1>1, NextSlot DEF HandleInv, IsHit
<1>3. cached' = cached /\ hold' = [hold EXCEPT ![<<t, i>>] = cached[p]]
  BY <1>1 DEF Hit, Acquired
<1>4. /\ entry' \in [Entries -> Handle]
      /\ hold' \in [Holds -> Entries \cup {NoEntry}]
      /\ (RefsCountHolders /\ NeverClosedUnderReader /\ CachedAlive
            /\ NoLeak /\ ClosedOnce)'
  BY <1>1, <1>2, <1>3, HitStep
<1>5. older' \in SUBSET (Paths \X Paths)
  BY <1>1, <1>2 DEF HandleInv, TypeOK, Touched, CachedPaths
<1>6. TypeOK'
  BY <1>1, <1>3, <1>4, <1>5 DEF HandleInv, TypeOK, Acquired, fsVars, exitVars
<1>7. QED
  BY <1>4, <1>6 DEF HandleInv

LEMMA OpenPreserves ==
  ASSUME HandleInv, NEW t \in Threads, Open(t)
  PROVE  HandleInv'
<1>1. PICK i \in Slots :
        /\ IsNext(t, i)
        /\ Exists(job[t][i])
        /\ FreeEntries # {}
        /\ \E gone \in Evictions(job[t][i]) :
             /\ cached' = [q \in Paths |-> IF q = job[t][i] THEN NewEntry
                             ELSE IF q \in gone THEN NoEntry ELSE cached[q]]
             /\ entry' = [x \in Entries |-> IF x = NewEntry THEN Fresh(t, job[t][i])
                             ELSE IF \E q \in gone \cup {job[t][i]} : cached[q] = x
                                  THEN Retired(entry[x]) ELSE entry[x]]
             /\ older' = Touched(job[t][i], gone)
             /\ Acquired(t, i, NewEntry)
  BY DEF Open
<1> DEFINE p == job[t][i]
<1>2. PICK gone \in Evictions(p) :
        /\ cached' = [q \in Paths |-> IF q = p THEN NewEntry
                        ELSE IF q \in gone THEN NoEntry ELSE cached[q]]
        /\ entry' = [x \in Entries |-> IF x = NewEntry THEN Fresh(t, p)
                        ELSE IF \E q \in gone \cup {p} : cached[q] = x
                             THEN Retired(entry[x]) ELSE entry[x]]
        /\ older' = Touched(p, gone)
        /\ Acquired(t, i, NewEntry)
  BY <1>1
<1>3. p \in Paths /\ <<t, i>> \in Holds /\ hold[<<t, i>>] = NoEntry
  BY <1>1, NextSlot DEF HandleInv
<1>4. gone \in SUBSET Paths /\ p \notin gone
  BY DEF Evictions, CachedPaths
<1>5. NewEntry \in FreeEntries
  BY <1>1 DEF NewEntry
<1>6. /\ Fresh(t, p) \in Handle
      /\ Fresh(t, p).refs = 1 /\ ~Fresh(t, p).dead /\ Fresh(t, p).fd = "open"
  <2>1. sig[t] \in Sigs \cup {NoFile} /\ Inode(p) \in Inodes
    BY <1>1, <1>3 DEF HandleInv, TypeOK, Exists, Inode, Sigs
  <2>2. QED
    BY <2>1 DEF Fresh, Handle
<1>7. hold' = [hold EXCEPT ![<<t, i>>] = NewEntry]
  BY <1>2 DEF Acquired
<1>8. /\ cached' \in [Paths -> Entries \cup {NoEntry}]
      /\ entry' \in [Entries -> Handle]
      /\ hold' \in [Holds -> Entries \cup {NoEntry}]
      /\ (RefsCountHolders /\ NeverClosedUnderReader /\ CachedAlive
            /\ NoLeak /\ ClosedOnce)'
  <2> HIDE DEF p
  <2>1. QED
    BY <1>2, <1>3, <1>4, <1>5, <1>6, <1>7, MissStep
<1>9. older' \in SUBSET (Paths \X Paths)
  BY <1>2, <1>3 DEF HandleInv, TypeOK, Touched, CachedPaths
<1>10. TypeOK'
  BY <1>2, <1>8, <1>9 DEF HandleInv, TypeOK, Acquired, fsVars, exitVars
<1>11. QED
  BY <1>8, <1>10 DEF HandleInv

LEMMA OpenFailsPreserves ==
  ASSUME HandleInv, NEW t \in Threads, OpenFails(t)
  PROVE  HandleInv'
<1>1. PICK i \in Slots :
        /\ IsNext(t, i)
        /\ cached' = [cached EXCEPT ![job[t][i]] = NoEntry]
        /\ entry' = [x \in Entries |-> IF x = cached[job[t][i]]
                                       THEN Retired(entry[x]) ELSE entry[x]]
        /\ older' = {x \in older : job[t][i] # x[1] /\ job[t][i] # x[2]}
  BY DEF OpenFails
<1> DEFINE R == {job[t][i]}
<1>2. R \in SUBSET Paths
  BY <1>1, NextSlot DEF HandleInv
<1>3. cached' = [p \in Paths |-> IF p \in R THEN NoEntry ELSE cached[p]]
  BY <1>1, <1>2 DEF HandleInv, TypeOK
<1>4. entry' = [x \in Entries |-> IF \E p \in R : cached[p] = x
                                  THEN Retired(entry[x]) ELSE entry[x]]
  BY <1>1
<1>5. hold' = hold
  BY DEF OpenFails
<1>6. /\ cached' \in [Paths -> Entries \cup {NoEntry}]
      /\ entry' \in [Entries -> Handle]
      /\ (RefsCountHolders /\ NeverClosedUnderReader /\ CachedAlive
            /\ NoLeak /\ ClosedOnce)'
  BY <1>2, <1>3, <1>4, <1>5, RetireStep
<1>7. older' \in SUBSET (Paths \X Paths)
  BY <1>1 DEF HandleInv, TypeOK
<1>8. TypeOK'
  BY <1>6, <1>7 DEF HandleInv, TypeOK, OpenFails, fsVars, exitVars
<1>9. QED
  BY <1>6, <1>8 DEF HandleInv

LEMMA ReleasePreserves ==
  ASSUME HandleInv, NEW t \in Threads, Release(t)
  PROVE  HandleInv'
<1>1. PICK i \in Slots :
        /\ hold[<<t, i>>] # NoEntry
        /\ entry' = [entry EXCEPT ![hold[<<t, i>>]] = Released(@)]
        /\ hold' = [hold EXCEPT ![<<t, i>>] = NoEntry]
        /\ named' = [named EXCEPT ![<<t, i>>] = {}]
  BY DEF Release
<1>2. <<t, i>> \in Holds /\ cached' = cached
  BY DEF Release, Holds
<1>3. /\ entry' \in [Entries -> Handle]
      /\ hold' \in [Holds -> Entries \cup {NoEntry}]
      /\ (RefsCountHolders /\ NeverClosedUnderReader /\ CachedAlive
            /\ NoLeak /\ ClosedOnce)'
  BY <1>1, <1>2, ReleaseStep
<1>4. TypeOK'
  BY <1>1, <1>3 DEF HandleInv, TypeOK, Release, fsVars, exitVars
<1>5. QED
  BY <1>3, <1>4 DEF HandleInv

\* Emptying the cache, by a caller or by the exit hook.
LEMMA ClearPreserves ==
  ASSUME HandleInv, Clear \/ CloseClear
  PROVE  HandleInv'
<1>1. ClearedCache /\ hold' = hold
  BY DEF Clear, CloseClear, callVars
<1>2. cached' = [p \in Paths |-> IF p \in Paths THEN NoEntry ELSE cached[p]]
  BY <1>1 DEF ClearedCache
<1>3. entry' = [x \in Entries |-> IF \E p \in Paths : cached[p] = x
                                  THEN Retired(entry[x]) ELSE entry[x]]
  BY <1>1 DEF ClearedCache
<1>4. /\ cached' \in [Paths -> Entries \cup {NoEntry}]
      /\ entry' \in [Entries -> Handle]
      /\ (RefsCountHolders /\ NeverClosedUnderReader /\ CachedAlive
            /\ NoLeak /\ ClosedOnce)'
  BY <1>1, <1>2, <1>3, RetireStep
<1>5. TypeOK'
  BY <1>1, <1>4 DEF HandleInv, TypeOK, ClearedCache, Clear, CloseClear,
                    fsVars, callVars, exitVars
<1>6. QED
  BY <1>4, <1>5 DEF HandleInv

LEMMA ClosePreserves ==
  ASSUME HandleInv, CloseDriver \/ UNCHANGED vars
  PROVE  HandleInv'
<1>1. UNCHANGED <<cached, entry, hold>>
  BY DEF CloseDriver, vars, cacheVars, callVars
<1>2. TypeOK'
  BY DEF HandleInv, TypeOK, CloseDriver, vars, fsVars, cacheVars, callVars, exitVars
<1>3. QED
  BY <1>1, <1>2, SameCache DEF HandleInv

-----------------------------------------------------------------------------
(* Theorems *)

\* The reference counts, the cache and the open descriptors agree in every
\* reachable state, for any number of threads, paths and slots and any cap.
THEOREM HandleInvariant == Spec => []HandleInv
<1>1. Init => HandleInv
  BY InitEstablishes
<1>2. HandleInv /\ [Next]_vars => HandleInv'
  <2> SUFFICES ASSUME HandleInv, [Next]_vars PROVE HandleInv'
    OBVIOUS
  <2>1. ASSUME NEW p \in Paths, Replace(p) \/ Rewrite(p) \/ Remove(p) PROVE HandleInv'
    BY <2>1, WritersPreserve
  <2>2. ASSUME NEW p \in Paths, NEW q \in Paths, Rename(q, p) PROVE HandleInv'
    BY <2>2, WritersPreserve
  <2>3. ASSUME NEW t \in Threads, Start(t) \/ Call(t) PROVE HandleInv'
    BY <2>3, CallStepsPreserve, HitPreserves, OpenPreserves, OpenFailsPreserves,
       ReleasePreserves DEF Call
  <2>4. CASE Clear \/ CloseClear
    BY <2>4, ClearPreserves
  <2>5. CASE CloseDriver \/ Exited \/ UNCHANGED vars
    BY <2>5, ClosePreserves DEF Exited
  <2>6. QED
    BY <2>1, <2>2, <2>3, <2>4, <2>5 DEF Next
<1>3. QED
  BY <1>1, <1>2, PTL DEF Spec

\* No descriptor is closed while a request reads through it.
THEOREM ReadersKeepTheirHandles == Spec => []NeverClosedUnderReader
  BY HandleInvariant, PTL DEF HandleInv

\* References are never lost or doubled.
THEOREM ReferencesAreCounted == Spec => []RefsCountHolders
  BY HandleInvariant, PTL DEF HandleInv

\* Every open descriptor is cached or will be closed by a request that holds it.
THEOREM DescriptorsAreAccountedFor == Spec => [](NoLeak /\ ClosedOnce)
  BY HandleInvariant, PTL DEF HandleInv

-----------------------------------------------------------------------------
(* The cap *)

CapInv == HandleInv /\ Cardinality(CachedPaths) <= Cap

LEMMA CachedFinite == IsFiniteSet(CachedPaths) /\ Cardinality(CachedPaths) \in Nat
  BY FiniteAssumption, FS_Subset, FS_CardinalityType DEF CachedPaths

\* Inserting p and evicting gone keeps the cap.
LEMMA InsertKeepsCap ==
  ASSUME CapInv, NEW p \in Paths, NEW gone \in Evictions(p)
  PROVE  Cardinality((CachedPaths \ gone) \cup {p}) <= Cap
<1> DEFINE others == CachedPaths \ {p}
<1>1. IsFiniteSet(others) /\ Cardinality(others) \in Nat
      /\ Cardinality(others) <= Cardinality(CachedPaths)
  BY CachedFinite, FS_Subset, FS_CardinalityType
<1>2. Cap \in Nat /\ Cap > 0
  BY CapAssumption
<1>3. CASE Cardinality(others) >= Cap
  <2>1. PICK v \in others : gone = {v}
    BY <1>3 DEF Evictions
  <2>2. (CachedPaths \ gone) \cup {p} = (others \ {v}) \cup {p}
    BY <2>1
  <2>3. IsFiniteSet(others \ {v}) /\ Cardinality(others \ {v}) = Cardinality(others) - 1
    BY <1>1, <2>1, FS_RemoveElement
  <2>4. Cardinality((others \ {v}) \cup {p}) = Cardinality(others \ {v}) + 1
    BY <2>3, FS_AddElement
  <2>5. QED
    BY CachedFinite, <1>1, <1>2, <2>2, <2>3, <2>4 DEF CapInv
<1>4. CASE ~(Cardinality(others) >= Cap)
  <2>1. gone = {}
    BY <1>4 DEF Evictions
  <2>2. (CachedPaths \ gone) \cup {p} = others \cup {p}
    BY <2>1
  <2>3. Cardinality(others \cup {p}) = Cardinality(others) + 1
    BY <1>1, FS_AddElement
  <2>4. QED
    BY <1>1, <1>2, <1>4, <2>2, <2>3
<1>5. QED
  BY <1>3, <1>4

\* A set of cached paths that did not grow keeps the cap.
LEMMA ShrinkKeepsCap ==
  ASSUME CapInv, CachedPaths' \subseteq CachedPaths
  PROVE  Cardinality(CachedPaths') <= Cap
<1>1. Cardinality(CachedPaths') <= Cardinality(CachedPaths)
      /\ Cardinality(CachedPaths') \in Nat
  BY CachedFinite, FS_Subset, FS_CardinalityType
<1>2. QED
  BY <1>1, CachedFinite, CapAssumption DEF CapInv

\* len(_handle_cache) never exceeds _HANDLE_CACHE_CAP.
THEOREM CapIsKept == Spec => [](Cardinality(CachedPaths) <= Cap)
<1>1. Init => CapInv
  <2> SUFFICES ASSUME Init PROVE CapInv
    OBVIOUS
  <2>1. CachedPaths = {}
    BY DEF Init, CachedPaths
  <2>2. QED
    BY <2>1, InitEstablishes, FS_EmptySet, CapAssumption DEF CapInv
<1>2. CapInv /\ HandleInv' /\ [Next]_vars => CapInv'
  <2> SUFFICES ASSUME CapInv, HandleInv', [Next]_vars
               PROVE  Cardinality(CachedPaths') <= Cap
    BY DEF CapInv
  <2>1. CASE cached' = cached
    BY <2>1, ShrinkKeepsCap DEF CachedPaths
  <2>2. ASSUME NEW t \in Threads, Open(t)
        PROVE  Cardinality(CachedPaths') <= Cap
    <3>0. PICK i \in Slots :
            /\ IsNext(t, i)
            /\ FreeEntries # {}
            /\ \E gone \in Evictions(job[t][i]) :
                 cached' = [q \in Paths |-> IF q = job[t][i] THEN NewEntry
                             ELSE IF q \in gone THEN NoEntry ELSE cached[q]]
      BY <2>2 DEF Open
    <3> DEFINE p == job[t][i]
    <3>1. PICK gone \in Evictions(p) :
            cached' = [q \in Paths |-> IF q = p THEN NewEntry
                        ELSE IF q \in gone THEN NoEntry ELSE cached[q]]
      BY <3>0
    <3>2. p \in Paths /\ NewEntry # NoEntry
      BY <3>0, NextSlot, NoneAssumption DEF CapInv, HandleInv, NewEntry, FreeEntries
    <3>3. p \notin gone
      BY DEF Evictions
    <3>4. CachedPaths' = (CachedPaths \ gone) \cup {p}
      BY <3>1, <3>2, <3>3 DEF CachedPaths
    <3>5. QED
      BY <3>2, <3>4, InsertKeepsCap
  <2>3. ASSUME NEW t \in Threads, OpenFails(t)
        PROVE  Cardinality(CachedPaths') <= Cap
    <3>1. PICK p : cached' = [cached EXCEPT ![p] = NoEntry]
      BY <2>3 DEF OpenFails
    <3>2. CachedPaths' \subseteq CachedPaths
      BY <3>1 DEF CachedPaths, CapInv, HandleInv, TypeOK
    <3>3. QED
      BY <3>2, ShrinkKeepsCap
  <2>4. CASE Clear \/ CloseClear
    <3>1. CachedPaths' = {}
      BY <2>4 DEF Clear, CloseClear, ClearedCache, CachedPaths
    <3>2. QED
      BY <3>1, ShrinkKeepsCap
  <2>5. CASE \/ \E p \in Paths : Replace(p) \/ Rewrite(p) \/ Remove(p)
             \/ \E p, q \in Paths : Rename(q, p)
             \/ CloseDriver \/ Exited \/ UNCHANGED vars
    BY <2>5, <2>1 DEF Replace, Rewrite, Remove, Rename, CloseDriver, Exited, vars, cacheVars
  <2>6. ASSUME NEW t \in Threads,
               Start(t) \/ Stat(t) \/ StatMissing(t) \/ Hit(t)
                 \/ BeginReads(t) \/ EndReads(t) \/ Release(t) \/ Return(t)
        PROVE  Cardinality(CachedPaths') <= Cap
    BY <2>6, <2>1 DEF Start, Stat, StatMissing, Hit, BeginReads, EndReads, Release,
                      Return, cacheVars
  <2>7. QED
    BY <2>2, <2>3, <2>4, <2>5, <2>6 DEF Next, Call
<1>3. QED
  BY <1>1, <1>2, HandleInvariant, PTL DEF Spec, CapInv

-----------------------------------------------------------------------------
(* Consequences of HandleInv: how many descriptors are open, and what the  *)
(* exit hook finds when it closes the driver.                              *)

\* The entries the cache holds, and those requests hold.
InCache == {cached[p] : p \in CachedPaths}
InUse   == {hold[h] : h \in Held}

LEMMA InCacheIsSmall ==
  /\ IsFiniteSet(InCache) /\ Cardinality(InCache) <= Cardinality(CachedPaths)
  /\ Cardinality(InCache) \in Nat
<1> DEFINE f == [p \in CachedPaths |-> cached[p]]
<1>1. f \in Surjection(CachedPaths, InCache)
  BY DEF Surjection, InCache
<1>2. QED
  BY <1>1, CachedFinite, FS_Surjection, FS_CardinalityType

LEMMA InUseIsSmall ==
  /\ IsFiniteSet(InUse) /\ Cardinality(InUse) <= Cardinality(Held)
  /\ Cardinality(InUse) \in Nat /\ Cardinality(Held) \in Nat
<1> DEFINE f == [h \in Held |-> hold[h]]
<1>1. IsFiniteSet(Held) /\ Cardinality(Held) \in Nat
  <2>1. IsFiniteSet(Slots)
    BY FS_Interval, BatchAssumption DEF Slots
  <2>2. IsFiniteSet(Holds)
    BY <2>1, FS_Product, FiniteAssumption DEF Holds
  <2>3. QED
    BY <2>2, FS_Subset, FS_CardinalityType DEF Held
<1>2. f \in Surjection(Held, InUse)
  BY DEF Surjection, InUse
<1>3. QED
  BY <1>1, <1>2, FS_Surjection, FS_CardinalityType

\* A descriptor is open because the cache or a request has its entry.
LEMMA OpenIsCachedOrInUse ==
  ASSUME HandleInv
  PROVE  OpenEntries \subseteq InCache \cup InUse
<1> SUFFICES ASSUME NEW e \in OpenEntries PROVE e \in InCache \cup InUse
  OBVIOUS
<1>1. e \in Entries /\ e # NoEntry
  BY NoneAssumption DEF OpenEntries
<1>2. CASE \E p \in Paths : cached[p] = e
  BY <1>1, <1>2 DEF InCache, CachedPaths
<1>3. CASE HoldersOf(e) # {}
  BY <1>1, <1>3 DEF InUse, HoldersOf, Held
<1>4. QED
  BY <1>2, <1>3 DEF HandleInv, NoLeak

\* The process never has more descriptors open than the cap and the requests in
\* flight account for.
THEOREM DescriptorsAreBounded == Spec => []DescriptorsBounded
<1>1. HandleInv /\ Cardinality(CachedPaths) <= Cap => DescriptorsBounded
  <2> SUFFICES ASSUME HandleInv, Cardinality(CachedPaths) <= Cap
               PROVE  Cardinality(OpenEntries) <= Cap + Cardinality(Held)
    BY DEF DescriptorsBounded
  <2>1. /\ IsFiniteSet(InCache \cup InUse)
        /\ Cardinality(InCache \cup InUse)
             = Cardinality(InCache) + Cardinality(InUse) - Cardinality(InCache \cap InUse)
    BY InCacheIsSmall, InUseIsSmall, FS_Union
  <2>2. Cardinality(InCache \cap InUse) \in Nat
    BY InCacheIsSmall, FS_Subset, FS_CardinalityType
  <2>3. /\ Cardinality(OpenEntries) <= Cardinality(InCache \cup InUse)
        /\ Cardinality(OpenEntries) \in Nat
    BY <2>1, OpenIsCachedOrInUse, FS_Subset, FS_CardinalityType
  <2>4. QED
    BY <2>1, <2>2, <2>3, InCacheIsSmall, InUseIsSmall, CachedFinite, CapAssumption
<1>2. QED
  BY <1>1, HandleInvariant, CapIsKept, PTL

-----------------------------------------------------------------------------
(* The exit hook *)

IdleHoldsNothing ==
  \A t \in Threads : pc[t] = "idle" => \A i \in Slots : hold[<<t, i>>] = NoEntry

\* Nothing runs and nothing is cached before the driver is opened and once its
\* closing has begun.
QuietWhenNotOpen ==
  driver = "closed" \/ exit # "running" =>
    /\ \A t \in Threads : pc[t] = "idle"
    /\ \A p \in Paths : cached[p] = NoEntry

ExitInv == IdleHoldsNothing /\ QuietWhenNotOpen

\* The steps of a call leave the driver as it is and begin in a call.
LEMMA CallKeepsExit ==
  ASSUME HandleInv, ExitInv, NEW t \in Threads, Call(t)
  PROVE  ExitInv'
<1>1. pc[t] # "idle" /\ driver' = driver /\ exit' = exit
  BY DEF Call, Stat, StatMissing, Hit, Open, OpenFails, BeginReads, EndReads, Release,
         Return, Acquired, exitVars
<1>2. QuietWhenNotOpen'
  BY <1>1 DEF ExitInv, QuietWhenNotOpen
<1>3. /\ pc \in [Threads -> {"idle", "acquire", "lookup", "read", "release"}]
      /\ hold \in [Holds -> Entries \cup {NoEntry}]
  BY DEF HandleInv, TypeOK
<1>4. CASE Stat(t) \/ StatMissing(t) \/ OpenFails(t) \/ BeginReads(t) \/ EndReads(t)
  <2>1. hold' = hold /\ \E s \in {"lookup", "release", "read"} : pc' = [pc EXCEPT ![t] = s]
    BY <1>4 DEF Stat, StatMissing, OpenFails, BeginReads, EndReads
  <2>2. \A u \in Threads : pc'[u] = "idle" => pc[u] = "idle"
    BY <2>1, <1>3
  <2>3. QED
    BY <1>2, <2>1, <2>2 DEF ExitInv, IdleHoldsNothing
<1>5. CASE Hit(t) \/ Open(t)
  <2>1. PICK i \in Slots : \E e : Acquired(t, i, e)
    BY <1>5 DEF Hit, Open
  <2>2. PICK e : hold' = [hold EXCEPT ![<<t, i>>] = e] /\ pc' = [pc EXCEPT ![t] = "acquire"]
    BY <2>1 DEF Acquired
  <2>3. \A u \in Threads : pc'[u] = "idle" =>
          u # t /\ pc[u] = "idle" /\ \A j \in Slots : hold'[<<u, j>>] = hold[<<u, j>>]
    BY <2>2, <1>3 DEF Holds
  <2>4. QED
    BY <1>2, <2>3 DEF ExitInv, IdleHoldsNothing
<1>6. CASE Release(t)
  <2>1. PICK i \in Slots : hold' = [hold EXCEPT ![<<t, i>>] = NoEntry]
    BY <1>6 DEF Release
  <2>2. pc' = pc
    BY <1>6 DEF Release
  <2>3. \A u \in Threads, j \in Slots :
          hold[<<u, j>>] = NoEntry => hold'[<<u, j>>] = NoEntry
    BY <2>1, <1>3 DEF Holds
  <2>4. QED
    BY <1>2, <2>2, <2>3 DEF ExitInv, IdleHoldsNothing
<1>7. CASE Return(t)
  <2>1. /\ \A i \in Slots : hold[<<t, i>>] = NoEntry
        /\ pc' = [pc EXCEPT ![t] = "idle"] /\ hold' = hold
    BY <1>7 DEF Return
  <2>2. QED
    BY <1>2, <1>3, <2>1 DEF ExitInv, IdleHoldsNothing
<1>8. QED
  BY <1>4, <1>5, <1>6, <1>7 DEF Call

\* Without daemon threads _close finds every handle released: none is registered
\* when the driver goes.
THEOREM NoHandleOutlives ==
  ASSUME Daemons = {}
  PROVE  Spec => []NoHandleOutlivesDriver
<1>1. Init => ExitInv
  BY DEF Init, ExitInv, IdleHoldsNothing, QuietWhenNotOpen, Holds
<1>2. HandleInv /\ ExitInv /\ [Next]_vars => ExitInv'
  <2> SUFFICES ASSUME HandleInv, ExitInv, [Next]_vars PROVE ExitInv'
    OBVIOUS
  <2>1. CASE \/ \E p \in Paths : Replace(p) \/ Rewrite(p) \/ Remove(p)
             \/ \E p, q \in Paths : Rename(q, p)
             \/ Exited \/ UNCHANGED vars
    <3>1. UNCHANGED <<cached, pc, hold, driver, exit>>
      BY <2>1 DEF Replace, Rewrite, Remove, Rename, Exited, vars, cacheVars, callVars, exitVars
    <3>2. QED
      BY <3>1 DEF ExitInv, IdleHoldsNothing, QuietWhenNotOpen
  <2>2. ASSUME NEW t \in Threads, Start(t) PROVE ExitInv'
    <3>1. exit = "running" /\ driver' = "open" /\ exit' = exit /\ hold' = hold
          /\ pc' = [pc EXCEPT ![t] = "acquire"]
      BY <2>2 DEF Start, MayCall
    <3>2. \A u \in Threads : pc'[u] = "idle" => pc[u] = "idle"
      BY <3>1 DEF HandleInv, TypeOK
    <3>3. QED
      BY <3>1, <3>2 DEF ExitInv, IdleHoldsNothing, QuietWhenNotOpen
  <2>3. ASSUME NEW t \in Threads, Call(t) PROVE ExitInv'
    BY <2>3, CallKeepsExit
  <2>4. CASE Clear \/ CloseClear
    <3>1. /\ \A p \in Paths : cached'[p] = NoEntry
          /\ pc' = pc /\ hold' = hold /\ driver' = driver
          /\ exit' # "running" => exit # "running" \/ \A t \in Threads : pc[t] = "idle"
      BY <2>4 DEF Clear, CloseClear, ClearedCache, callVars, exitVars
    <3>2. QED
      BY <3>1 DEF ExitInv, IdleHoldsNothing, QuietWhenNotOpen
  <2>5. CASE CloseDriver
    <3>1. exit = "closing" /\ UNCHANGED <<cached, pc, hold>>
      BY <2>5 DEF CloseDriver, cacheVars, callVars
    <3>2. QED
      BY <3>1 DEF ExitInv, IdleHoldsNothing, QuietWhenNotOpen
  <2>6. QED
    BY <2>1, <2>2, <2>3, <2>4, <2>5 DEF Next
<1>3. HandleInv /\ ExitInv => NoHandleOutlivesDriver
  <2> SUFFICES ASSUME HandleInv, ExitInv, driver = "closed" PROVE OpenEntries = {}
    BY DEF NoHandleOutlivesDriver
  <2>1. \A e \in Entries : HoldersOf(e) = {} /\ \A p \in Paths : cached[p] # e
    BY NoneAssumption DEF ExitInv, IdleHoldsNothing, QuietWhenNotOpen, HoldersOf, Holds
  <2>2. QED
    BY <2>1 DEF HandleInv, NoLeak, OpenEntries
<1>4. QED
  BY <1>1, <1>2, <1>3, HandleInvariant, PTL DEF Spec

-----------------------------------------------------------------------------
(* HandleCache implements FileReads, for any number of paths, threads and  *)
(* slots and any cap, as long as no writer renames an existing file over   *)
(* another: a hit serves a file its path named since the request's stat.   *)

\* What a request slot holds and has seen, by where its call is.
Shape(t, i) ==
  /\ job[t][i] = Skip => named[<<t, i>>] = {} /\ hold[<<t, i>>] = NoEntry
  /\ pc[t] = "idle" => job[t][i] = Skip
  /\ hold[<<t, i>>] # NoEntry => named[<<t, i>>] # {}
  /\ pc[t] = "acquire" /\ hold[<<t, i>>] = NoEntry => named[<<t, i>>] = {}
  /\ pc[t] = "lookup" /\ hold[<<t, i>>] = NoEntry => (named[<<t, i>>] # {} <=> IsNext(t, i))
  /\ pc[t] = "read" => job[t][i] = Skip \/ hold[<<t, i>>] # NoEntry
CallShape == \A t \in Threads, i \in Slots : Shape(t, i)

\* What a path names now has been seen by the requests that made their stat of it.
SeesCurrent ==
  \A t \in Threads, i \in Slots :
    named[<<t, i>>] # {} /\ Exists(job[t][i]) => Inode(job[t][i]) \in named[<<t, i>>]

\* Signatures that calls and the cache remember are older than any later write.
TimesArePast ==
  /\ \A p \in Paths : cached[p] # NoEntry =>
       entry[cached[p]].sig \in Sigs /\ entry[cached[p]].sig[2] <= writes
  /\ \A t \in Threads : pc[t] = "lookup" => sig[t] \in Sigs /\ sig[t][2] <= writes
  /\ \A p \in Paths : Exists(p) => dir[p][2] <= writes

\* A path that still has the signature of its entry names the entry's file.
SigsAreTrue ==
  \A p \in Paths : cached[p] # NoEntry /\ dir[p] = entry[cached[p]].sig =>
    entry[cached[p]].file = Inode(p)

\* The entry a lookup would hit holds a file the request may be served by.
HitsServe ==
  \A t \in Threads, i \in Slots :
    pc[t] = "lookup" /\ IsNext(t, i) /\ IsHit(t, job[t][i]) =>
      entry[cached[job[t][i]]].file \in named[<<t, i>>]

ReadsInv == /\ HandleInv /\ CallShape /\ SeesCurrent
            /\ TimesArePast /\ SigsAreTrue /\ HitsServe

LEMMA NextIsUnique ==
  ASSUME NEW t \in Threads, NEW i \in Slots, NEW j \in Slots, IsNext(t, i), IsNext(t, j)
  PROVE  i = j
  BY BatchAssumption DEF IsNext, Slots

\* Nothing of the other threads changes while t takes a step.
OnlyCall(t) ==
  \A u \in Threads : u # t =>
    /\ pc'[u] = pc[u] /\ job'[u] = job[u] /\ sig'[u] = sig[u]
    /\ \A i \in Slots : hold'[<<u, i>>] = hold[<<u, i>>] /\ named'[<<u, i>>] = named[<<u, i>>]

LEMMA OthersKeepShape ==
  ASSUME CallShape, NEW t \in Threads, OnlyCall(t), \A i \in Slots : Shape(t, i)'
  PROVE  CallShape'
<1> SUFFICES ASSUME NEW u \in Threads, NEW i \in Slots PROVE Shape(u, i)'
  BY DEF CallShape
<1>1. CASE u = t
  BY <1>1
<1>2. CASE u # t
  <2>1. IsNext(u, i)' <=> IsNext(u, i)
    BY <1>2 DEF IsNext, Wanted, OnlyCall
  <2>2. QED
    BY <1>2, <2>1 DEF CallShape, Shape, OnlyCall
<1>3. QED
  BY <1>1, <1>2

\* What stays in the cache keeps its signature and its file.
Kept(p) ==
  cached'[p] # NoEntry =>
    /\ cached'[p] = cached[p]
    /\ entry'[cached[p]].sig = entry[cached[p]].sig
    /\ entry'[cached[p]].file = entry[cached[p]].file

\* A step of t that does not begin a lookup and keeps the cache, or empties it.
LEMMA KeepingStep ==
  ASSUME ReadsInv, HandleInv', NEW t \in Threads,
         UNCHANGED <<dir, writes>>, OnlyCall(t), \A p \in Paths : Kept(p),
         pc'[t] # "lookup", \A i \in Slots : Shape(t, i)',
         \A i \in Slots : \/ named'[<<t, i>>] = {}
                          \/ named'[<<t, i>>] = named[<<t, i>>] /\ job'[t] = job[t]
  PROVE  ReadsInv'
<1> USE DEF ReadsInv
<1>1. CallShape'
  BY OthersKeepShape
<1>2. SeesCurrent'
  <2> SUFFICES ASSUME NEW u \in Threads, NEW i \in Slots,
                      named'[<<u, i>>] # {}, Exists(job[u][i])'
               PROVE  Inode(job[u][i])' \in named'[<<u, i>>]
    BY DEF SeesCurrent
  <2>1. named'[<<u, i>>] = named[<<u, i>>] /\ job'[u] = job[u]
    BY DEF OnlyCall
  <2>2. QED
    BY <2>1 DEF SeesCurrent, Exists, Inode
<1>3. TimesArePast'
  <2>1. \A p \in Paths : cached'[p] # NoEntry =>
          entry'[cached'[p]].sig \in Sigs /\ entry'[cached'[p]].sig[2] <= writes'
    BY DEF TimesArePast, Kept
  <2>2. \A u \in Threads : pc'[u] = "lookup" => sig'[u] \in Sigs /\ sig'[u][2] <= writes'
    BY DEF TimesArePast, OnlyCall
  <2>3. \A p \in Paths : Exists(p)' => dir'[p][2] <= writes'
    BY DEF TimesArePast, Exists
  <2>4. QED
    BY <2>1, <2>2, <2>3 DEF TimesArePast
<1>4. SigsAreTrue'
  BY DEF SigsAreTrue, Kept, Inode
<1>5. HitsServe'
  <2> SUFFICES ASSUME NEW u \in Threads, NEW i \in Slots,
                      pc'[u] = "lookup", IsNext(u, i)', IsHit(u, job[u][i])'
               PROVE  entry'[cached'[job'[u][i]]].file \in named'[<<u, i>>]
    BY DEF HitsServe
  <2>1. /\ u # t /\ pc[u] = "lookup" /\ job'[u] = job[u] /\ sig'[u] = sig[u]
        /\ named'[<<u, i>>] = named[<<u, i>>]
        /\ IsNext(u, i)
    BY DEF OnlyCall, IsNext, Wanted
  <2>2. job[u][i] \in Paths
    BY <2>1, NextSlot DEF HandleInv
  <2>3. IsHit(u, job[u][i])
    BY <2>1, <2>2 DEF IsHit, Kept
  <2>4. QED
    BY <2>1, <2>2, <2>3 DEF HitsServe, IsHit, Kept
<1>6. QED
  BY <1>1, <1>2, <1>3, <1>4, <1>5

-----------------------------------------------------------------------------
(* The steps of a call *)

LEMMA MovesKeepReads ==
  ASSUME ReadsInv, HandleInv', NEW t \in Threads,
         Start(t) \/ StatMissing(t) \/ BeginReads(t) \/ EndReads(t) \/ Return(t)
  PROVE  ReadsInv'
<1> USE DEF ReadsInv
<1>0. /\ pc \in [Threads -> {"idle", "acquire", "lookup", "read", "release"}]
      /\ job \in [Threads -> [Slots -> Paths \cup {Skip}]]
      /\ named \in [Holds -> SUBSET Inodes]
  BY DEF HandleInv, TypeOK
<1>1. UNCHANGED <<dir, writes, cached, entry, hold, sig>>
  BY DEF Start, StatMissing, BeginReads, EndReads, Return, fsVars, cacheVars
<1>2. OnlyCall(t)
  BY <1>0, <1>1 DEF OnlyCall, Start, StatMissing, BeginReads, EndReads, Return, Holds
<1>3. \A p \in Paths : Kept(p)
  BY <1>1 DEF Kept
<1>4. ASSUME NEW i \in Slots
      PROVE  /\ Shape(t, i)' /\ pc'[t] # "lookup"
             /\ \/ named'[<<t, i>>] = {}
                \/ named'[<<t, i>>] = named[<<t, i>>] /\ job'[t] = job[t]
  <2>0. <<t, i>> \in Holds /\ <<t, i>>[1] = t /\ Shape(t, i)
    BY DEF Holds, CallShape
  <2>1. CASE Start(t)
    BY <2>0, <2>1, <1>0, <1>1 DEF Start, Shape
  <2>2. CASE StatMissing(t) \/ EndReads(t)
    BY <2>0, <2>2, <1>0, <1>1 DEF StatMissing, EndReads, Shape
  <2>3. CASE BeginReads(t)
    BY <2>0, <2>3, <1>0, <1>1 DEF BeginReads, Shape, Wanted
  <2>4. CASE Return(t)
    BY <2>0, <2>4, <1>0, <1>1 DEF Return, Shape, NoJob
  <2>5. QED
    BY <2>1, <2>2, <2>3, <2>4
<1>5. pc'[t] # "lookup"
  BY <1>0 DEF Start, StatMissing, BeginReads, EndReads, Return
<1>6. QED
  BY <1>1, <1>2, <1>3, <1>4, <1>5, KeepingStep

\* The slot k of t takes an entry.
LEMMA AcquiredShape ==
  ASSUME ReadsInv, NEW t \in Threads, NEW k \in Slots, NEW e \in Entries,
         pc[t] = "lookup", IsNext(t, k), Acquired(t, k, e)
  PROVE  /\ OnlyCall(t) /\ pc'[t] = "acquire"
         /\ \A i \in Slots : Shape(t, i)'
         /\ UNCHANGED <<dir, writes, job, named>>
<1> USE DEF ReadsInv
<1>0. /\ pc \in [Threads -> {"idle", "acquire", "lookup", "read", "release"}]
      /\ hold \in [Holds -> Entries \cup {NoEntry}]
      /\ sig \in [Threads -> Sigs \cup {NoFile}]
      /\ e # NoEntry
  BY NoneAssumption DEF HandleInv, TypeOK
<1>1. /\ UNCHANGED <<dir, writes, job, named>>
      /\ hold' = [hold EXCEPT ![<<t, k>>] = e]
      /\ sig' = [sig EXCEPT ![t] = NoFile]
      /\ pc' = [pc EXCEPT ![t] = "acquire"]
  BY DEF Acquired, fsVars
<1>2. OnlyCall(t) /\ pc'[t] = "acquire"
  BY <1>0, <1>1 DEF OnlyCall, Holds
<1>3. ASSUME NEW i \in Slots PROVE Shape(t, i)'
  <2>1. Shape(t, i) /\ Shape(t, k) /\ job[t][k] # Skip /\ hold[<<t, k>>] = NoEntry
    BY DEF CallShape, IsNext, Wanted
  <2>2. CASE i = k
    <3>1. hold'[<<t, i>>] = e /\ named'[<<t, i>>] # {} /\ job'[t][i] # Skip
      BY <1>0, <1>1, <2>1, <2>2 DEF Holds, Shape
    <3>2. QED
      BY <3>1, <1>0, <1>2 DEF Shape
  <2>3. CASE i # k
    <3>1. ~IsNext(t, i)
      BY <2>3, NextIsUnique
    <3>2. hold'[<<t, i>>] = hold[<<t, i>>]
      BY <1>0, <1>1, <2>3 DEF Holds
    <3>3. QED
      BY <3>1, <3>2, <1>1, <1>2, <2>1 DEF Shape
  <2>4. QED
    BY <2>2, <2>3
<1>4. QED
  BY <1>1, <1>2, <1>3

LEMMA HitKeepsReads ==
  ASSUME ReadsInv, HandleInv', NEW t \in Threads, Hit(t)
  PROVE  ReadsInv'
<1> USE DEF ReadsInv
<1>1. PICK k \in Slots :
        /\ IsNext(t, k) /\ IsHit(t, job[t][k])
        /\ entry' = [entry EXCEPT ![cached[job[t][k]]] = Referenced(@)]
        /\ Acquired(t, k, cached[job[t][k]])
  BY DEF Hit
<1>2. cached[job[t][k]] \in Entries /\ cached' = cached /\ pc[t] = "lookup"
  BY <1>1, NextSlot DEF HandleInv, TypeOK, IsHit, Hit
<1>3. /\ OnlyCall(t) /\ pc'[t] = "acquire"
      /\ \A i \in Slots : Shape(t, i)'
      /\ UNCHANGED <<dir, writes, job, named>>
  BY <1>1, <1>2, AcquiredShape
<1>4. ASSUME NEW e \in Entries PROVE entry'[e].sig = entry[e].sig /\ entry'[e].file = entry[e].file
  <2>1. entry \in [Entries -> Handle]
    BY DEF HandleInv, TypeOK
  <2>2. QED
    BY <1>1, <2>1 DEF Handle, Referenced
<1>5. \A p \in Paths : Kept(p)
  BY <1>2, <1>4 DEF Kept, HandleInv, TypeOK
<1>6. QED
  BY <1>3, <1>5, KeepingStep

LEMMA OpenFailsKeepsReads ==
  ASSUME ReadsInv, HandleInv', NEW t \in Threads, OpenFails(t)
  PROVE  ReadsInv'
<1> USE DEF ReadsInv
<1>0. /\ pc \in [Threads -> {"idle", "acquire", "lookup", "read", "release"}]
      /\ cached \in [Paths -> Entries \cup {NoEntry}]
      /\ entry \in [Entries -> Handle]
      /\ sig \in [Threads -> Sigs \cup {NoFile}]
  BY DEF HandleInv, TypeOK
<1>1. PICK k \in Slots :
        /\ IsNext(t, k)
        /\ cached' = [cached EXCEPT ![job[t][k]] = NoEntry]
        /\ entry' = [x \in Entries |-> IF x = cached[job[t][k]]
                                       THEN Retired(entry[x]) ELSE entry[x]]
  BY DEF OpenFails
<1>2. /\ UNCHANGED <<dir, writes, job, hold, named>>
      /\ pc' = [pc EXCEPT ![t] = "release"] /\ sig' = [sig EXCEPT ![t] = NoFile]
  BY DEF OpenFails, fsVars
<1>3. OnlyCall(t)
  BY <1>0, <1>2 DEF OnlyCall
<1>4. \A i \in Slots : Shape(t, i)'
  BY <1>0, <1>2 DEF CallShape, Shape
<1>5. ASSUME NEW p \in Paths PROVE Kept(p)
  <2>0. job[t][k] \in Paths
    BY <1>1, NextSlot DEF HandleInv
  <2>1. CASE p = job[t][k]
    BY <2>1, <1>0, <1>1 DEF Kept
  <2>2. CASE p # job[t][k] /\ cached[p] # NoEntry
    <3>1. cached'[p] = cached[p] /\ cached[p] \in Entries
      BY <2>2, <1>0, <1>1
    <3>2. cached[p] # cached[job[t][k]]
      BY <2>0, <2>2 DEF HandleInv, CachedAlive
    <3>3. QED
      BY <3>1, <3>2, <1>1 DEF Kept
  <2>3. CASE p # job[t][k] /\ cached[p] = NoEntry
    BY <2>3, <1>0, <1>1 DEF Kept
  <2>4. QED
    BY <2>1, <2>2, <2>3
<1>6. pc'[t] # "lookup"
  BY <1>0, <1>2
<1>7. QED
  BY <1>2, <1>3, <1>4, <1>5, <1>6, KeepingStep

LEMMA ReleaseKeepsReads ==
  ASSUME ReadsInv, HandleInv', NEW t \in Threads, Release(t)
  PROVE  ReadsInv'
<1> USE DEF ReadsInv
<1>0. /\ cached \in [Paths -> Entries \cup {NoEntry}]
      /\ entry \in [Entries -> Handle]
      /\ hold \in [Holds -> Entries \cup {NoEntry}]
      /\ named \in [Holds -> SUBSET Inodes]
  BY DEF HandleInv, TypeOK
<1>1. PICK k \in Slots :
        /\ hold[<<t, k>>] # NoEntry
        /\ entry' = [entry EXCEPT ![hold[<<t, k>>]] = Released(@)]
        /\ hold' = [hold EXCEPT ![<<t, k>>] = NoEntry]
        /\ named' = [named EXCEPT ![<<t, k>>] = {}]
  BY DEF Release
<1>2. pc[t] = "release" /\ UNCHANGED <<dir, writes, cached, pc, job, sig>>
  BY DEF Release, fsVars
<1>3. OnlyCall(t)
  BY <1>0, <1>1, <1>2 DEF OnlyCall, Holds
<1>4. ASSUME NEW i \in Slots
      PROVE  /\ Shape(t, i)'
             /\ \/ named'[<<t, i>>] = {}
                \/ named'[<<t, i>>] = named[<<t, i>>] /\ job'[t] = job[t]
  <2>1. Shape(t, i) /\ <<t, i>> \in Holds /\ <<t, k>> \in Holds
    BY DEF CallShape, Holds
  <2>2. CASE i = k
    <3>1. hold'[<<t, i>>] = NoEntry /\ named'[<<t, i>>] = {}
      BY <1>0, <1>1, <2>1, <2>2
    <3>2. QED
      BY <3>1, <1>2 DEF Shape
  <2>3. CASE i # k
    <3>1. hold'[<<t, i>>] = hold[<<t, i>>] /\ named'[<<t, i>>] = named[<<t, i>>]
      BY <1>0, <1>1, <2>1, <2>3
    <3>2. QED
      BY <3>1, <1>2, <2>1 DEF Shape
  <2>4. QED
    BY <2>2, <2>3
<1>5. ASSUME NEW p \in Paths PROVE Kept(p)
  <2> SUFFICES ASSUME cached[p] # NoEntry
               PROVE  /\ entry'[cached[p]].sig = entry[cached[p]].sig
                      /\ entry'[cached[p]].file = entry[cached[p]].file
    BY <1>2 DEF Kept
  <2> DEFINE e == cached[p]
  <2>1. e \in Entries /\ entry[e] \in Handle /\ ~entry[e].dead
    BY <1>0 DEF HandleInv, CachedAlive
  <2>2. CASE hold[<<t, k>>] = e
    <3>1. entry'[e] = Released(entry[e])
      BY <1>0, <1>1, <2>1, <2>2
    <3>2. Released(entry[e]) = [entry[e] EXCEPT !.refs = @ - 1]
      BY <2>1 DEF Released, Handle
    <3>3. QED
      BY <2>1, <3>1, <3>2 DEF Handle
  <2>3. CASE hold[<<t, k>>] # e
    BY <1>0, <1>1, <2>1, <2>3
  <2>4. QED
    BY <2>2, <2>3
<1>6. QED
  BY <1>2, <1>3, <1>4, <1>5, KeepingStep

\* Emptying the cache, and steps that leave files, cache and calls alone.
LEMMA ClearKeepsReads ==
  ASSUME ReadsInv, HandleInv', Clear \/ CloseClear \/ CloseDriver \/ Exited \/ UNCHANGED vars
  PROVE  ReadsInv'
<1> USE DEF ReadsInv
<1>1. UNCHANGED <<dir, writes, pc, job, hold, sig, named>>
  BY DEF Clear, CloseClear, CloseDriver, Exited, vars, fsVars, callVars
<1>2. \/ \A p \in Paths : cached'[p] = NoEntry
      \/ UNCHANGED <<cached, entry>>
  BY DEF Clear, CloseClear, ClearedCache, CloseDriver, Exited, vars, cacheVars
<1>3. CallShape' /\ SeesCurrent'
  BY <1>1 DEF CallShape, Shape, SeesCurrent, IsNext, Wanted, Exists, Inode
<1>4. CASE \A p \in Paths : cached'[p] = NoEntry
  <2>1. TimesArePast'
    BY <1>1, <1>4 DEF TimesArePast, Exists
  <2>2. SigsAreTrue'
    BY <1>4 DEF SigsAreTrue
  <2>3. HitsServe'
    <3> SUFFICES ASSUME NEW t \in Threads, NEW i \in Slots, IsNext(t, i)', IsHit(t, job[t][i])'
                 PROVE  FALSE
      BY DEF HitsServe
    <3>1. IsNext(t, i) /\ job'[t][i] = job[t][i]
      BY <1>1 DEF IsNext, Wanted
    <3>2. job[t][i] \in Paths
      BY <3>1, NextSlot DEF HandleInv
    <3>3. QED
      BY <3>1, <3>2, <1>4 DEF IsHit
  <2>4. QED
    BY <1>3, <2>1, <2>2, <2>3
<1>5. CASE UNCHANGED <<cached, entry>>
  <2>1. TimesArePast' /\ SigsAreTrue'
    BY <1>1, <1>5 DEF TimesArePast, SigsAreTrue, Exists, Inode
  <2>2. HitsServe'
    BY <1>1, <1>5 DEF HitsServe, IsNext, Wanted, IsHit
  <2>3. QED
    BY <1>3, <2>1, <2>2
<1>6. QED
  BY <1>2, <1>4, <1>5

LEMMA StatKeepsReads ==
  ASSUME ReadsInv, HandleInv', NEW t \in Threads, Stat(t)
  PROVE  ReadsInv'
<1> USE DEF ReadsInv
<1>0. /\ pc \in [Threads -> {"idle", "acquire", "lookup", "read", "release"}]
      /\ sig \in [Threads -> Sigs \cup {NoFile}]
      /\ named \in [Holds -> SUBSET Inodes]
      /\ dir \in [Paths -> Sigs \cup {NoFile}]
  BY DEF HandleInv, TypeOK
<1>1. PICK k \in Slots :
        /\ IsNext(t, k) /\ Exists(job[t][k])
        /\ sig' = [sig EXCEPT ![t] = dir[job[t][k]]]
        /\ named' = [named EXCEPT ![<<t, k>>] = {Inode(job[t][k])}]
  BY DEF Stat
<1>2. /\ UNCHANGED <<dir, writes, cached, entry, job, hold>>
      /\ pc[t] = "acquire" /\ pc' = [pc EXCEPT ![t] = "lookup"]
  BY DEF Stat, fsVars, cacheVars
<1> DEFINE p == job[t][k]
<1>3. p \in Paths /\ p # Skip /\ hold[<<t, k>>] = NoEntry /\ dir[p] \in Sigs
  BY <1>0, <1>1, NextSlot, NoneAssumption DEF HandleInv, Exists
<1>4. OnlyCall(t) /\ pc'[t] = "lookup" /\ sig'[t] = dir[p]
  BY <1>0, <1>1, <1>2 DEF OnlyCall, Holds
<1>5. named'[<<t, k>>] = {Inode(p)}
      /\ \A i \in Slots : i # k => named'[<<t, i>>] = named[<<t, i>>]
  BY <1>0, <1>1 DEF Holds
<1>6. \A u \in Threads, i \in Slots : IsNext(u, i)' <=> IsNext(u, i)
  BY <1>2 DEF IsNext, Wanted
<1>7. CallShape'
  <2>1. ASSUME NEW i \in Slots PROVE Shape(t, i)'
    <3>1. Shape(t, i) /\ hold'[<<t, i>>] = hold[<<t, i>>] /\ job'[t][i] = job[t][i]
      BY <1>2 DEF CallShape
    <3>2. CASE i = k
      BY <3>1, <3>2, <1>1, <1>3, <1>4, <1>5, <1>6 DEF Shape
    <3>3. CASE i # k
      <4>1. ~IsNext(t, i)
        BY <3>3, <1>1, NextIsUnique
      <4>2. QED
        BY <3>1, <3>3, <4>1, <1>2, <1>4, <1>5, <1>6 DEF Shape
    <3>4. QED
      BY <3>2, <3>3
  <2>2. QED
    BY <2>1, <1>4, OthersKeepShape
<1>8. SeesCurrent'
  <2> SUFFICES ASSUME NEW u \in Threads, NEW i \in Slots,
                      named'[<<u, i>>] # {}, Exists(job[u][i])'
               PROVE  Inode(job[u][i])' \in named'[<<u, i>>]
    BY DEF SeesCurrent
  <2>1. Exists(job[u][i]) /\ Inode(job[u][i])' = Inode(job[u][i])
    BY <1>2 DEF Exists, Inode
  <2>2. CASE u = t /\ i = k
    BY <2>1, <2>2, <1>5
  <2>3. CASE ~(u = t /\ i = k)
    <3>1. named'[<<u, i>>] = named[<<u, i>>]
      BY <2>3, <1>4, <1>5 DEF OnlyCall
    <3>2. QED
      BY <2>1, <3>1 DEF SeesCurrent
  <2>4. QED
    BY <2>2, <2>3
<1>9. TimesArePast'
  <2>1. \A u \in Threads : pc'[u] = "lookup" => sig'[u] \in Sigs /\ sig'[u][2] <= writes'
    BY <1>1, <1>2, <1>3, <1>4 DEF TimesArePast, OnlyCall
  <2>2. QED
    BY <2>1, <1>2 DEF TimesArePast, Exists
<1>10. SigsAreTrue'
  BY <1>2 DEF SigsAreTrue, Inode
<1>11. HitsServe'
  <2> SUFFICES ASSUME NEW u \in Threads, NEW i \in Slots,
                      pc'[u] = "lookup", IsNext(u, i)', IsHit(u, job[u][i])'
               PROVE  entry[cached[job[u][i]]].file \in named'[<<u, i>>]
    BY <1>2 DEF HitsServe
  <2>1. IsNext(u, i) /\ cached[job[u][i]] # NoEntry
        /\ entry[cached[job[u][i]]].sig = sig'[u]
    BY <1>2, <1>6 DEF IsHit
  <2>2. CASE u = t
    <3>1. i = k
      BY <2>1, <2>2, <1>1, NextIsUnique
    <3>2. entry[cached[p]].file = Inode(p)
      BY <2>1, <2>2, <3>1, <1>3, <1>4 DEF SigsAreTrue
    <3>3. QED
      BY <2>2, <3>1, <3>2, <1>5
  <2>3. CASE u # t
    BY <2>1, <2>3, <1>4 DEF OnlyCall, HitsServe, IsHit
  <2>4. QED
    BY <2>2, <2>3
<1>12. QED
  BY <1>7, <1>8, <1>9, <1>10, <1>11

LEMMA OpenKeepsReads ==
  ASSUME ReadsInv, HandleInv', NEW t \in Threads, Open(t)
  PROVE  ReadsInv'
<1> USE DEF ReadsInv
<1>0. /\ cached \in [Paths -> Entries \cup {NoEntry}]
      /\ entry \in [Entries -> Handle]
  BY DEF HandleInv, TypeOK
<1>1. PICK k \in Slots :
        /\ IsNext(t, k) /\ Exists(job[t][k]) /\ FreeEntries # {}
        /\ \E gone \in Evictions(job[t][k]) :
             /\ cached' = [q \in Paths |-> IF q = job[t][k] THEN NewEntry
                             ELSE IF q \in gone THEN NoEntry ELSE cached[q]]
             /\ entry' = [x \in Entries |-> IF x = NewEntry THEN Fresh(t, job[t][k])
                             ELSE IF \E q \in gone \cup {job[t][k]} : cached[q] = x
                                  THEN Retired(entry[x]) ELSE entry[x]]
             /\ Acquired(t, k, NewEntry)
  BY DEF Open
<1> DEFINE p == job[t][k]
<1>2. PICK gone \in Evictions(p) :
        /\ cached' = [q \in Paths |-> IF q = p THEN NewEntry
                        ELSE IF q \in gone THEN NoEntry ELSE cached[q]]
        /\ entry' = [x \in Entries |-> IF x = NewEntry THEN Fresh(t, p)
                        ELSE IF \E q \in gone \cup {p} : cached[q] = x
                             THEN Retired(entry[x]) ELSE entry[x]]
        /\ Acquired(t, k, NewEntry)
  BY <1>1
<1>3. p \in Paths /\ gone \in SUBSET Paths /\ pc[t] = "lookup"
  <2>1. p \in Paths
    BY <1>1, NextSlot DEF HandleInv
  <2>2. gone \in SUBSET Paths
    BY DEF Evictions, CachedPaths
  <2>3. pc[t] = "lookup"
    BY DEF Open
  <2>4. QED
    BY <2>1, <2>2, <2>3
<1>4. NewEntry \in FreeEntries /\ NewEntry \in Entries /\ NewEntry # NoEntry
  BY <1>1, NoneAssumption DEF NewEntry, FreeEntries
<1>5. \A q \in Paths : cached[q] # NewEntry
  BY <1>4 DEF HandleInv, CachedAlive, FreeEntries, NoHandle
<1>6. /\ OnlyCall(t) /\ pc'[t] = "acquire"
      /\ \A i \in Slots : Shape(t, i)'
      /\ UNCHANGED <<dir, writes, job, named>>
  BY <1>1, <1>2, <1>3, <1>4, AcquiredShape
<1>7. cached'[p] = NewEntry /\ entry'[NewEntry] = Fresh(t, p)
  BY <1>2, <1>3, <1>4
<1>8. Fresh(t, p).sig = sig[t] /\ Fresh(t, p).file = Inode(p)
  BY DEF Fresh
<1>9. ASSUME NEW q \in Paths, q # p PROVE Kept(q)
  <2> SUFFICES ASSUME cached'[q] # NoEntry
               PROVE  /\ cached'[q] = cached[q]
                      /\ entry'[cached[q]] = entry[cached[q]]
    BY DEF Kept
  <2>1. q \notin gone /\ cached'[q] = cached[q] /\ cached[q] \in Entries
    BY <1>0, <1>2, <1>9
  <2>2. \A r \in gone \cup {p} : cached[r] # cached[q]
    BY <2>1, <1>3, <1>9, NoneAssumption DEF HandleInv, CachedAlive
  <2>3. QED
    BY <2>1, <2>2, <1>2, <1>5
<1>10. CallShape'
  BY <1>6, OthersKeepShape
<1>11. SeesCurrent'
  BY <1>6 DEF SeesCurrent, Exists, Inode
<1>12. TimesArePast'
  <2>1. ASSUME NEW q \in Paths, cached'[q] # NoEntry
        PROVE  entry'[cached'[q]].sig \in Sigs /\ entry'[cached'[q]].sig[2] <= writes'
    <3>1. CASE q = p
      BY <3>1, <1>3, <1>6, <1>7, <1>8 DEF TimesArePast
    <3>2. CASE q # p
      BY <2>1, <3>2, <1>6, <1>9 DEF Kept, TimesArePast
    <3>3. QED
      BY <3>1, <3>2
  <2>2. \A u \in Threads : pc'[u] = "lookup" => sig'[u] \in Sigs /\ sig'[u][2] <= writes'
    BY <1>6 DEF TimesArePast, OnlyCall
  <2>3. \A q \in Paths : Exists(q)' => dir'[q][2] <= writes'
    BY <1>6 DEF TimesArePast, Exists
  <2>4. QED
    BY <2>1, <2>2, <2>3 DEF TimesArePast
<1>13. SigsAreTrue'
  <2> SUFFICES ASSUME NEW q \in Paths, cached'[q] # NoEntry, dir[q] = entry'[cached'[q]].sig
               PROVE  entry'[cached'[q]].file = Inode(q)
    BY <1>6 DEF SigsAreTrue, Inode
  <2>1. CASE q = p
    BY <2>1, <1>7, <1>8
  <2>2. CASE q # p
    BY <2>2, <1>9 DEF Kept, SigsAreTrue
  <2>3. QED
    BY <2>1, <2>2
<1>14. HitsServe'
  <2> SUFFICES ASSUME NEW u \in Threads, NEW i \in Slots,
                      pc'[u] = "lookup", IsNext(u, i)', IsHit(u, job[u][i])'
               PROVE  entry'[cached'[job[u][i]]].file \in named[<<u, i>>]
    BY <1>6 DEF HitsServe
  <2>1. /\ u # t /\ pc[u] = "lookup" /\ sig'[u] = sig[u] /\ IsNext(u, i)
        /\ cached'[job[u][i]] # NoEntry /\ entry'[cached'[job[u][i]]].sig = sig[u]
    BY <1>6 DEF OnlyCall, IsNext, Wanted, IsHit
  <2>2. job[u][i] \in Paths /\ hold[<<u, i>>] = NoEntry
    BY <2>1, NextSlot DEF HandleInv
  <2>3. CASE job[u][i] = p
    <3>1. named[<<u, i>>] # {}
      BY <2>1, <2>2 DEF CallShape, Shape
    <3>2. Inode(p) \in named[<<u, i>>]
      BY <2>3, <3>1, <1>1 DEF SeesCurrent
    <3>3. QED
      BY <2>3, <3>2, <1>7, <1>8
  <2>4. CASE job[u][i] # p
    BY <2>1, <2>2, <2>4, <1>9 DEF Kept, HitsServe, IsHit
  <2>5. QED
    BY <2>3, <2>4
<1>15. QED
  BY <1>10, <1>11, <1>12, <1>13, <1>14

-----------------------------------------------------------------------------
(* Writers *)

LEMMA WritersKeepReads ==
  ASSUME ReadsInv, HandleInv', NEW p \in Paths, Replace(p) \/ Rewrite(p) \/ Remove(p)
  PROVE  ReadsInv'
<1> USE DEF ReadsInv
<1>0. /\ dir \in [Paths -> Sigs \cup {NoFile}] /\ writes \in Nat
      /\ named \in [Holds -> SUBSET Inodes]
      /\ NoFile \notin Sigs
  BY NoneAssumption DEF HandleInv, TypeOK, Sigs
<1>1. UNCHANGED <<cached, entry, pc, job, hold, sig>> /\ writes' \in {writes, writes + 1}
  BY DEF Replace, Rewrite, Remove, cacheVars, callVars
<1>2. \A q \in Paths : q # p => dir'[q] = dir[q]
  BY <1>0 DEF Replace, Rewrite, Remove
<1>3. \/ dir'[p] = NoFile
      \/ writes' = writes + 1 /\ dir'[p] \in Sigs /\ dir'[p][2] = writes + 1
  <2>1. CASE Replace(p)
    BY <2>1, <1>0 DEF Replace, FreeInodes, Sigs
  <2>2. CASE Rewrite(p)
    BY <2>2, <1>0 DEF Rewrite, Exists, Inode, Sigs
  <2>3. CASE Remove(p)
    BY <2>3, <1>0 DEF Remove
  <2>4. QED
    BY <2>1, <2>2, <2>3
<1>4. \A t \in Threads, i \in Slots :
        /\ named[<<t, i>>] \subseteq named'[<<t, i>>]
        /\ named[<<t, i>>] = {} => named'[<<t, i>>] = {}
  BY <1>0 DEF Replace, Rewrite, Remove, SeenBy, Holds, callVars
<1>5. ASSUME NEW t \in Threads, NEW i \in Slots, job[t][i] = p, named[<<t, i>>] # {},
             dir'[p] # NoFile
      PROVE  dir'[p][1] \in named'[<<t, i>>]
  <2>1. CASE Replace(p)
    <3>1. PICK n \in FreeInodes : dir' = [dir EXCEPT ![p] = <<n, writes + 1>>]
                                  /\ named' = SeenBy(p, n)
      BY <2>1 DEF Replace
    <3>2. dir'[p][1] = n
      BY <3>1, <1>0
    <3>3. named'[<<t, i>>] = named[<<t, i>>] \cup {n}
      BY <3>1, <1>5 DEF SeenBy, Holds
    <3>4. QED
      BY <3>2, <3>3
  <2>2. CASE Rewrite(p)
    <3>1. dir'[p][1] = Inode(p) /\ Exists(p) /\ named' = named
      BY <2>2, <1>0 DEF Rewrite, callVars
    <3>2. QED
      BY <3>1, <1>5 DEF SeesCurrent
  <2>3. CASE Remove(p)
    BY <2>3, <1>0, <1>5 DEF Remove
  <2>4. QED
    BY <2>1, <2>2, <2>3
<1>6. \A u \in Threads, i \in Slots : IsNext(u, i)' <=> IsNext(u, i)
  BY <1>1 DEF IsNext, Wanted
<1>7. CallShape'
  <2> SUFFICES ASSUME NEW t \in Threads, NEW i \in Slots PROVE Shape(t, i)'
    BY DEF CallShape
  <2>1. named'[<<t, i>>] = {} <=> named[<<t, i>>] = {}
    BY <1>4
  <2>2. Shape(t, i)
    BY DEF CallShape
  <2>3. QED
    BY <2>1, <2>2, <1>1, <1>6 DEF Shape
<1>8. SeesCurrent'
  <2> SUFFICES ASSUME NEW t \in Threads, NEW i \in Slots,
                      named'[<<t, i>>] # {}, Exists(job[t][i])'
               PROVE  Inode(job[t][i])' \in named'[<<t, i>>]
    BY DEF SeesCurrent
  <2>1. named[<<t, i>>] # {} /\ job' = job /\ dir'[job[t][i]] # NoFile
    BY <1>1, <1>4 DEF Exists
  <2>2. job[t][i] \in Paths
    <3>1. Shape(t, i)
      BY DEF CallShape
    <3>2. job[t][i] # Skip
      BY <2>1, <3>1 DEF Shape
    <3>3. job[t][i] \in Paths \cup {Skip}
      BY DEF HandleInv, TypeOK
    <3>4. QED
      BY <3>2, <3>3
  <2>3. CASE job[t][i] = p
    BY <2>1, <2>3, <1>5 DEF Inode
  <2>4. CASE job[t][i] # p
    <3>1. dir'[job[t][i]] = dir[job[t][i]]
      BY <2>2, <2>4, <1>2
    <3>2. QED
      BY <2>1, <3>1, <1>4 DEF Inode, Exists, SeesCurrent
  <2>5. QED
    BY <2>3, <2>4
<1>9. TimesArePast'
  <2>0. \A s \in Sigs : s[2] \in Nat /\ (s[2] <= writes => s[2] <= writes')
    BY <1>0, <1>1 DEF Sigs
  <2>1. \A q \in Paths : cached'[q] # NoEntry =>
          entry'[cached'[q]].sig \in Sigs /\ entry'[cached'[q]].sig[2] <= writes'
    BY <2>0, <1>1 DEF TimesArePast
  <2>2. \A u \in Threads : pc'[u] = "lookup" => sig'[u] \in Sigs /\ sig'[u][2] <= writes'
    BY <2>0, <1>1 DEF TimesArePast
  <2>3. ASSUME NEW q \in Paths, Exists(q)' PROVE dir'[q][2] <= writes'
    <3>1. CASE q = p
      BY <2>3, <3>1, <1>0, <1>3 DEF Exists
    <3>2. CASE q # p
      <4>1. dir'[q] = dir[q] /\ Exists(q) /\ dir[q] \in Sigs
        BY <2>3, <3>2, <1>0, <1>2 DEF Exists
      <4>2. QED
        BY <4>1, <2>0 DEF TimesArePast
    <3>3. QED
      BY <3>1, <3>2
  <2>4. QED
    BY <2>1, <2>2, <2>3 DEF TimesArePast
<1>10. SigsAreTrue'
  <2> SUFFICES ASSUME NEW q \in Paths, cached[q] # NoEntry, dir'[q] = entry[cached[q]].sig
               PROVE  entry[cached[q]].file = Inode(q)'
    BY <1>1 DEF SigsAreTrue
  <2>1. entry[cached[q]].sig \in Sigs /\ entry[cached[q]].sig[2] <= writes
    BY DEF TimesArePast
  <2>2. q # p
    BY <2>1, <1>0, <1>3
  <2>3. QED
    BY <2>2, <1>2 DEF SigsAreTrue, Inode
<1>11. HitsServe'
  <2> SUFFICES ASSUME NEW u \in Threads, NEW i \in Slots,
                      pc'[u] = "lookup", IsNext(u, i)', IsHit(u, job[u][i])'
               PROVE  entry[cached[job[u][i]]].file \in named'[<<u, i>>]
    BY <1>1 DEF HitsServe
  <2>1. pc[u] = "lookup" /\ IsNext(u, i) /\ IsHit(u, job[u][i])
    BY <1>1, <1>6 DEF IsHit
  <2>2. QED
    BY <2>1, <1>4 DEF HitsServe
<1>12. QED
  BY <1>7, <1>8, <1>9, <1>10, <1>11

LEMMA ReadsInitially == Init => ReadsInv
<1> SUFFICES ASSUME Init PROVE ReadsInv
  OBVIOUS
<1>1. \A t \in Threads, i \in Slots :
        /\ <<t, i>> \in Holds /\ pc[t] = "idle" /\ job[t][i] = Skip
        /\ hold[<<t, i>>] = NoEntry /\ named[<<t, i>>] = {}
  BY DEF Init, Holds, NoJob
<1>2. CallShape /\ SeesCurrent /\ HitsServe
  BY <1>1 DEF CallShape, Shape, SeesCurrent, HitsServe
<1>3. \A p \in Paths : cached[p] = NoEntry
  BY DEF Init
<1>4. TimesArePast /\ SigsAreTrue
  BY <1>1, <1>3 DEF Init, TimesArePast, SigsAreTrue, Exists
<1>5. QED
  BY <1>2, <1>4, InitEstablishes DEF ReadsInv

\* What makes a hit safe, in every reachable state.
THEOREM ReadsInvariant ==
  ASSUME ~Renames
  PROVE  Spec => []ReadsInv
<1>1. ReadsInv /\ HandleInv' /\ [Next]_vars => ReadsInv'
  <2> SUFFICES ASSUME ReadsInv, HandleInv', [Next]_vars PROVE ReadsInv'
    OBVIOUS
  <2>1. ASSUME NEW p \in Paths, Replace(p) \/ Rewrite(p) \/ Remove(p) PROVE ReadsInv'
    BY <2>1, WritersKeepReads
  <2>2. ASSUME NEW t \in Threads, Start(t) \/ Call(t) PROVE ReadsInv'
    BY <2>2, MovesKeepReads, StatKeepsReads, HitKeepsReads, OpenKeepsReads,
       OpenFailsKeepsReads, ReleaseKeepsReads DEF Call
  <2>3. CASE Clear \/ CloseClear \/ CloseDriver \/ Exited \/ UNCHANGED vars
    BY <2>3, ClearKeepsReads
  <2>4. QED
    BY <2>1, <2>2, <2>3 DEF Next, Rename
<1>2. QED
  BY <1>1, ReadsInitially, HandleInvariant, PTL DEF Spec

-----------------------------------------------------------------------------
(* The refinement mapping *)

Names  == [p \in Paths |-> IF Exists(p) THEN Inode(p) ELSE NoFile]
Wants  == [h \in Holds |-> job[h[1]][h[2]]]
Phases == [h \in Holds |-> Phase(h)]
May    == [h \in Holds |-> IF Phase(h) = "done" THEN {} ELSE named[h]]
Serving == [h \in Holds |-> IF hold[h] = NoEntry THEN NoFile ELSE entry[hold[h]].file]

LEMMA MapWriters ==
  ASSUME Names' \in [Paths -> Inodes \cup {NoFile}],
         May' = [r \in Holds |->
                   IF Phases[r] \in {"statted", "served"} /\ Names'[Wants[r]] # NoFile
                   THEN May[r] \cup {Names'[Wants[r]]} ELSE May[r]],
         Wants' = Wants, Phases' = Phases, Serving' = Serving
  PROVE  Reads!ReadsNext
<1>1. Reads!Writers
  BY DEF Reads!Writers, Reads!Sees, Names, Wants, Phases, May, Serving
<1>2. QED
  BY <1>1 DEF Reads!ReadsNext

LEMMA MapStat ==
  ASSUME NEW r \in Holds, Phases[r] = "asked", Names[Wants[r]] # NoFile,
         Phases' = [Phases EXCEPT ![r] = "statted"],
         May' = [May EXCEPT ![r] = {Names[Wants[r]]}],
         Names' = Names, Wants' = Wants, Serving' = Serving
  PROVE  Reads!ReadsNext
<1>1. Reads!StatOf(r)
  BY DEF Reads!StatOf, Names, Wants, Phases, May, Serving
<1>2. QED
  BY <1>1 DEF Reads!ReadsNext

LEMMA MapStutter ==
  ASSUME Names' = Names, Wants' = Wants, Phases' = Phases, May' = May, Serving' = Serving
  PROVE  UNCHANGED Reads!readsVars
  BY DEF Reads!readsVars, Names, Wants, Phases, May, Serving

LEMMA MapInit == Init => Reads!ReadsInit
<1> SUFFICES ASSUME Init PROVE Reads!ReadsInit
  OBVIOUS
<1>1. Names \in [Paths -> Inodes \cup {NoFile}]
  BY DEF Names, Init, Exists, Inode
<1>2. Wants = [h \in Holds |-> Skip]
  BY DEF Wants, Init, NoJob, Holds
<1>3. Phases = [h \in Holds |-> "none"]
  BY DEF Phases, Phase, Init, NoJob, Holds
<1>4. May = [h \in Holds |-> {}]
  BY DEF May, Init
<1>5. Serving = [h \in Holds |-> NoFile]
  BY DEF Serving, Init
<1>6. QED
  BY <1>1, <1>2, <1>3, <1>4, <1>5 DEF Reads!ReadsInit, Names, Wants, Phases, May, Serving

LEMMA MapAsk ==
  ASSUME NEW asking \in SUBSET Holds, asking # {}, \A r \in asking : Phases[r] = "none",
         Wants' \in [Holds -> Paths \cup {Skip}],
         \A r \in Holds : IF r \in asking THEN Wants'[r] # Skip ELSE Wants'[r] = Wants[r],
         Phases' = [r \in Holds |-> IF r \in asking THEN "asked" ELSE Phases[r]],
         Names' = Names, May' = May, Serving' = Serving
  PROVE  Reads!ReadsNext
<1>1. Reads!Ask
  BY DEF Reads!Ask, Names, Wants, Phases, May, Serving
<1>2. QED
  BY <1>1 DEF Reads!ReadsNext

LEMMA MapServe ==
  ASSUME NEW r \in Holds, Phases[r] = "statted", NEW f \in May[r],
         Serving' = [Serving EXCEPT ![r] = f],
         Phases' = [Phases EXCEPT ![r] = "served"],
         Names' = Names, Wants' = Wants, May' = May
  PROVE  Reads!ReadsNext
<1>1. Reads!Serve(r)
  BY DEF Reads!Serve, Names, Wants, Phases, May, Serving
<1>2. QED
  BY <1>1 DEF Reads!ReadsNext

LEMMA MapLetGo ==
  ASSUME NEW r \in Holds, Phases[r] = "served",
         Phases' = [Phases EXCEPT ![r] = "done"],
         May' = [May EXCEPT ![r] = {}],
         Serving' = [Serving EXCEPT ![r] = NoFile],
         Names' = Names, Wants' = Wants
  PROVE  Reads!ReadsNext
<1>1. Reads!LetGo(r)
  BY DEF Reads!LetGo, Names, Wants, Phases, May, Serving
<1>2. QED
  BY <1>1 DEF Reads!ReadsNext

LEMMA MapFail ==
  ASSUME NEW dropped \in SUBSET Holds, dropped # {},
         \A r \in dropped : Phases[r] \in {"asked", "statted"},
         Phases' = [r \in Holds |-> IF r \in dropped THEN "done" ELSE Phases[r]],
         May' = [r \in Holds |-> IF r \in dropped THEN {} ELSE May[r]],
         Names' = Names, Wants' = Wants, Serving' = Serving
  PROVE  Reads!ReadsNext
<1>1. Reads!Fail
  BY DEF Reads!Fail, Names, Wants, Phases, May, Serving
<1>2. QED
  BY <1>1 DEF Reads!ReadsNext

LEMMA MapAnswer ==
  ASSUME NEW over \in SUBSET Holds, over # {}, \A r \in over : Phases[r] = "done",
         Wants' = [r \in Holds |-> IF r \in over THEN Skip ELSE Wants[r]],
         Phases' = [r \in Holds |-> IF r \in over THEN "none" ELSE Phases[r]],
         Names' = Names, May' = May, Serving' = Serving
  PROVE  Reads!ReadsNext
<1>1. Reads!Answer
  BY DEF Reads!Answer, Names, Wants, Phases, May, Serving
<1>2. QED
  BY <1>1 DEF Reads!ReadsNext

\* An entry a request goes on holding keeps its file, whatever is done to it.
LEMMA HeldKeepsFile ==
  ASSUME HandleInv, HandleInv', NEW h \in Holds,
         hold[h] # NoEntry, hold'[h] = hold[h],
         entry'[hold[h]] \in {entry[hold[h]], Referenced(entry[hold[h]]),
                              Released(entry[hold[h]]), Retired(entry[hold[h]])}
  PROVE  entry'[hold[h]].file = entry[hold[h]].file
<1> DEFINE en == entry[hold[h]]
<1>1. en \in Handle /\ entry'[hold[h]].fd = "open"
  BY DEF HandleInv, TypeOK, NeverClosedUnderReader, Held
<1>2. ASSUME NEW r, r \in Handle PROVE Destroyed(r).fd # "open"
  BY DEF Destroyed, NoHandle
<1>3. CASE entry'[hold[h]] = Referenced(en)
  BY <1>1, <1>3 DEF Referenced, Handle
<1>4. CASE entry'[hold[h]] = Retired(en)
  BY <1>1, <1>2, <1>4 DEF Retired, Handle
<1>5. CASE entry'[hold[h]] = Released(en)
  <2> DEFINE r == [en EXCEPT !.refs = @ - 1]
  <2>1. r.file = en.file
    BY <1>1 DEF Handle
  <2>2. Released(en) = r \/ Released(en) = Destroyed(r)
    BY DEF Released
  <2>3. Destroyed(r).fd # "open"
    BY DEF Destroyed, NoHandle
  <2>4. QED
    BY <1>1, <1>5, <2>1, <2>2, <2>3
<1>6. QED
  BY <1>3, <1>4, <1>5

\* What requests are served by, when only the slot r takes or gives back an entry.
LEMMA ServingStays ==
  ASSUME HandleInv, HandleInv',
         NEW R \in SUBSET Holds, \A h \in Holds \ R : hold'[h] = hold[h],
         \A e \in Entries : entry'[e] \in {entry[e], Referenced(entry[e]),
                                           Released(entry[e]), Retired(entry[e])}
                            \/ \A h \in Holds : hold[h] # e
  PROVE  \A h \in Holds \ R : Serving'[h] = Serving[h]
<1> SUFFICES ASSUME NEW h \in Holds \ R PROVE Serving'[h] = Serving[h]
  OBVIOUS
<1>1. CASE hold[h] = NoEntry
  BY <1>1 DEF Serving
<1>2. CASE hold[h] # NoEntry
  <2>1. hold[h] \in Entries /\ hold'[h] = hold[h]
    BY <1>2 DEF HandleInv, TypeOK
  <2>2. entry'[hold[h]].file = entry[hold[h]].file
    BY <1>2, <2>1, HeldKeepsFile
  <2>3. QED
    BY <1>2, <2>1, <2>2 DEF Serving
<1>3. QED
  BY <1>1, <1>2

-----------------------------------------------------------------------------
(* Every step is one of FileReads or changes nothing it can see. *)

ReadsStep == Reads!ReadsNext \/ UNCHANGED Reads!readsVars

\* A slot is <<its thread, its number>>.
LEMMA SlotParts ==
  /\ \A h \in Holds : h[1] \in Threads /\ h[2] \in Slots /\ h = <<h[1], h[2]>>
  /\ \A t \in Threads, i \in Slots :
       <<t, i>> \in Holds /\ <<t, i>>[1] = t /\ <<t, i>>[2] = i
  BY DEF Holds

LEMMA SameNames ==
  ASSUME dir' = dir
  PROVE  Names' = Names
  BY DEF Names, Exists, Inode

LEMMA SamePhases ==
  ASSUME \A h \in Holds : Phase(h)' = Phase(h)
  PROVE  Phases' = Phases /\ (named' = named => May' = May)
  BY DEF Phases, May

LEMMA WritersMap ==
  ASSUME ReadsInv, HandleInv', NEW p \in Paths, Replace(p) \/ Rewrite(p) \/ Remove(p)
  PROVE  ReadsStep
<1> USE DEF ReadsInv
<1>0. /\ dir \in [Paths -> Sigs \cup {NoFile}] /\ dir' \in [Paths -> Sigs \cup {NoFile}]
      /\ job \in [Threads -> [Slots -> Paths \cup {Skip}]]
      /\ named \in [Holds -> SUBSET Inodes]
      /\ NoFile \notin Sigs
  BY NoneAssumption DEF HandleInv, TypeOK, Sigs
<1>1. UNCHANGED <<cached, entry, pc, job, hold>>
  BY DEF Replace, Rewrite, Remove, cacheVars, callVars
<1>2. Wants' = Wants /\ Serving' = Serving
  BY <1>1 DEF Wants, Serving
<1>3. \A h \in Holds : named'[h] = {} <=> named[h] = {}
  BY <1>0 DEF Replace, Rewrite, Remove, SeenBy, callVars
<1>4. \A h \in Holds : Phase(h)' = Phase(h)
  BY <1>1, <1>3 DEF Phase
<1>5. Phases' = Phases
  BY <1>4, SamePhases
<1>6. CASE Rewrite(p)
  <2>1. Names' = Names
    <3>1. dir[p] # NoFile /\ dir' = [dir EXCEPT ![p] = <<dir[p][1], writes + 1>>]
      BY <1>6 DEF Rewrite, Exists, Inode
    <3>2. dir'[p] # NoFile /\ dir'[p][1] = dir[p][1]
      <4>1. <<dir[p][1], writes + 1>> \in Sigs
        BY <3>1, <1>0 DEF Sigs, HandleInv, TypeOK
      <4>2. QED
        BY <3>1, <4>1, <1>0
    <3>3. \A q \in Paths : q # p => dir'[q] = dir[q]
      BY <3>1, <1>0
    <3>4. QED
      BY <3>1, <3>2, <3>3 DEF Names, Exists, Inode
  <2>2. May' = May
    BY <1>4, <1>6, SamePhases DEF Rewrite, callVars
  <2>3. QED
    BY <1>2, <1>5, <2>1, <2>2, MapStutter DEF ReadsStep
<1>7. CASE Replace(p) \/ Remove(p)
  <2>1. Names' \in [Paths -> Inodes \cup {NoFile}]
    <3>1. ASSUME NEW q \in Paths
          PROVE  Names'[q] \in Inodes \cup {NoFile}
      <4>1. Names'[q] = IF dir'[q] # NoFile THEN dir'[q][1] ELSE NoFile
        BY DEF Names, Exists, Inode
      <4>2. QED
        BY <4>1, <1>0 DEF Sigs
    <3>2. QED
      BY <3>1 DEF Names
  <2>2. ASSUME NEW h \in Holds
        PROVE  May'[h] = IF Phases[h] \in {"statted", "served"} /\ Names'[Wants[h]] # NoFile
                         THEN May[h] \cup {Names'[Wants[h]]} ELSE May[h]
    <3>1. CASE Phase(h) = "done"
      BY <3>1, <1>4 DEF May, Phases
    <3>2. CASE Phase(h) \in {"none", "asked"}
      <4>1. named[h] = {} /\ named'[h] = {}
        BY <3>2, <1>3, SlotParts DEF Phase, CallShape, Shape
      <4>2. QED
        BY <3>2, <4>1, <1>4 DEF May, Phases
    <3>3. CASE Phase(h) \in {"statted", "served"}
      <4> DEFINE w == job[h[1]][h[2]]
      <4>1. named[h] # {} /\ w \in Paths /\ Wants[h] = w
        BY <3>3, <1>0, SlotParts DEF Phase, CallShape, Shape, Wants
      <4>2. May[h] = named[h] /\ May'[h] = named'[h] /\ Phases[h] \in {"statted", "served"}
        BY <3>3, <1>4 DEF May, Phases
      <4>3. Names'[w] = IF dir'[w] # NoFile THEN dir'[w][1] ELSE NoFile
        BY <4>1 DEF Names, Exists, Inode
      <4>4. dir'[w] # NoFile => Names'[w] # NoFile
        <5>1. ASSUME dir'[w] # NoFile PROVE dir'[w][1] \in Inodes /\ Names'[w] = dir'[w][1]
          BY <5>1, <4>1, <4>3, <1>0 DEF Sigs
        <5>2. QED
          BY <5>1, NoneAssumption
      <4>5. named'[h] = IF dir'[w] # NoFile THEN named[h] \cup {dir'[w][1]} ELSE named[h]
        <5>1. CASE w # p
          <6>1. named'[h] = named[h] /\ dir'[w] = dir[w]
            BY <1>0, <1>7, <4>1, <5>1 DEF Replace, Remove, SeenBy, callVars
          <6>2. dir[w] # NoFile => dir[w][1] \in named[h]
            BY <4>1, SlotParts DEF SeesCurrent, Exists, Inode
          <6>3. QED
            BY <6>1, <6>2
        <5>2. CASE w = p /\ Replace(p)
          <6>1. PICK n \in FreeInodes : dir' = [dir EXCEPT ![p] = <<n, writes + 1>>]
                                        /\ named' = SeenBy(p, n)
            BY <5>2 DEF Replace
          <6>2. dir'[w] # NoFile /\ dir'[w][1] = n
            BY <5>2, <6>1, <1>0 DEF HandleInv, TypeOK, Sigs, FreeInodes
          <6>3. named'[h] = named[h] \cup {n}
            BY <5>2, <6>1, <4>1 DEF SeenBy
          <6>4. QED
            BY <6>2, <6>3
        <5>3. CASE w = p /\ Remove(p)
          BY <5>3, <1>0, <4>1 DEF Remove, callVars
        <5>4. QED
          BY <1>7, <5>1, <5>2, <5>3
      <4>6. QED
        BY <4>1, <4>2, <4>3, <4>4, <4>5
    <3>4. QED
      BY <3>1, <3>2, <3>3 DEF Phase
  <2>3. May' = [h \in Holds |->
                  IF Phases[h] \in {"statted", "served"} /\ Names'[Wants[h]] # NoFile
                  THEN May[h] \cup {Names'[Wants[h]]} ELSE May[h]]
    BY <2>2 DEF May
  <2>4. QED
    BY <1>2, <1>5, <2>1, <2>3, MapWriters DEF ReadsStep
<1>8. QED
  BY <1>6, <1>7

LEMMA StartMap ==
  ASSUME ReadsInv, NEW t \in Threads, Start(t)
  PROVE  ReadsStep
<1> USE DEF ReadsInv
<1>0. /\ pc \in [Threads -> {"idle", "acquire", "lookup", "read", "release"}]
      /\ job \in [Threads -> [Slots -> Paths \cup {Skip}]]
  BY DEF HandleInv, TypeOK
<1>1. PICK j \in [Slots -> Paths \cup {Skip}] : j # NoJob /\ job' = [job EXCEPT ![t] = j]
  BY DEF Start
<1>2. /\ pc[t] = "idle" /\ pc' = [pc EXCEPT ![t] = "acquire"]
      /\ UNCHANGED <<dir, cached, entry, hold, named>>
  BY DEF Start, fsVars, cacheVars
<1> DEFINE asking == {h \in Holds : h[1] = t /\ j[h[2]] # Skip}
<1>3. asking # {}
  <2>1. PICK i \in Slots : j[i] # Skip
    BY <1>1 DEF NoJob
  <2>2. <<t, i>> \in asking
    BY <2>1, SlotParts
  <2>3. QED
    BY <2>2
<1>4. ASSUME NEW h \in Holds, h[1] = t
      PROVE  /\ job[t][h[2]] = Skip /\ named[h] = {} /\ hold[h] = NoEntry
             /\ job'[t][h[2]] = j[h[2]] /\ pc'[t] = "acquire"
  BY <1>0, <1>1, <1>2, <1>4, SlotParts DEF CallShape, Shape
<1>5. ASSUME NEW h \in Holds, h[1] # t
      PROVE  job'[h[1]] = job[h[1]] /\ pc'[h[1]] = pc[h[1]]
  BY <1>0, <1>1, <1>2, <1>5
<1>6. \A r \in asking : Phases[r] = "none"
  BY <1>4 DEF Phases, Phase
<1>7. Wants' \in [Holds -> Paths \cup {Skip}]
  <2>1. job' \in [Threads -> [Slots -> Paths \cup {Skip}]]
    BY <1>0, <1>1
  <2>2. ASSUME NEW h \in Holds PROVE Wants'[h] \in Paths \cup {Skip}
    <3>1. Wants'[h] = job'[h[1]][h[2]]
      BY DEF Wants
    <3>2. QED
      BY <2>1, <3>1, SlotParts
  <2>3. QED
    BY <2>2 DEF Wants
<1>8. \A r \in Holds : IF r \in asking THEN Wants'[r] # Skip ELSE Wants'[r] = Wants[r]
  BY <1>4, <1>5 DEF Wants
<1>9. ASSUME NEW h \in Holds
      PROVE  Phase(h)' = IF h \in asking THEN "asked" ELSE Phase(h)
  <2>1. CASE h[1] = t
    BY <2>1, <1>2, <1>4 DEF Phase
  <2>2. CASE h[1] # t
    BY <2>2, <1>2, <1>5 DEF Phase
  <2>3. QED
    BY <2>1, <2>2
<1>10. Phases' = [r \in Holds |-> IF r \in asking THEN "asked" ELSE Phases[r]]
  BY <1>9 DEF Phases
<1>11. May' = May
  <2>1. ASSUME NEW h \in Holds PROVE Phase(h)' = "done" <=> Phase(h) = "done"
    BY <1>6, <1>9 DEF Phases
  <2>2. QED
    BY <2>1, <1>2 DEF May
<1>12. Names' = Names /\ Serving' = Serving
  BY <1>2, SameNames DEF Serving
<1>13. QED
  BY <1>3, <1>6, <1>7, <1>8, <1>10, <1>11, <1>12, MapAsk DEF ReadsStep

LEMMA StatMap ==
  ASSUME ReadsInv, NEW t \in Threads, Stat(t)
  PROVE  ReadsStep
<1> USE DEF ReadsInv
<1>0. /\ pc \in [Threads -> {"idle", "acquire", "lookup", "read", "release"}]
      /\ named \in [Holds -> SUBSET Inodes]
      /\ dir \in [Paths -> Sigs \cup {NoFile}]
  BY DEF HandleInv, TypeOK
<1>1. PICK k \in Slots :
        /\ IsNext(t, k) /\ Exists(job[t][k])
        /\ named' = [named EXCEPT ![<<t, k>>] = {Inode(job[t][k])}]
  BY DEF Stat
<1>2. /\ UNCHANGED <<dir, cached, entry, job, hold>>
      /\ pc[t] = "acquire" /\ pc' = [pc EXCEPT ![t] = "lookup"]
  BY DEF Stat, fsVars, cacheVars
<1> DEFINE r == <<t, k>>
<1>3. r \in Holds /\ r[1] = t /\ r[2] = k
  BY SlotParts
<1>4. job[t][k] \in Paths /\ job[t][k] # Skip /\ hold[r] = NoEntry
  BY <1>1, NextSlot, NoneAssumption DEF HandleInv
<1>5. named[r] = {} /\ named'[r] = {Inode(job[t][k])}
      /\ \A h \in Holds : h # r => named'[h] = named[h]
  BY <1>0, <1>1, <1>2, <1>3, <1>4 DEF CallShape, Shape
<1>6. Phase(r) = "asked" /\ Phase(r)' = "statted"
  BY <1>0, <1>2, <1>3, <1>4, <1>5 DEF Phase
<1>7. ASSUME NEW h \in Holds, h # r PROVE Phase(h)' = Phase(h)
  BY <1>0, <1>2, <1>5, <1>7, SlotParts DEF Phase
<1>8. Phases[r] = "asked" /\ Phases' = [Phases EXCEPT ![r] = "statted"]
  BY <1>3, <1>6, <1>7 DEF Phases
<1>9. Wants[r] = job[t][k] /\ Names[Wants[r]] = Inode(job[t][k]) /\ Names[Wants[r]] # NoFile
  <2>1. Inode(job[t][k]) \in Inodes
    BY <1>0, <1>1, <1>4 DEF Exists, Inode, Sigs
  <2>2. QED
    BY <2>1, <1>1, <1>3, <1>4, NoneAssumption DEF Wants, Names
<1>10. May' = [May EXCEPT ![r] = {Names[Wants[r]]}]
  <2>1. ASSUME NEW h \in Holds
        PROVE  May'[h] = IF h = r THEN {Inode(job[t][k])} ELSE May[h]
    BY <1>3, <1>5, <1>6, <1>7 DEF May
  <2>2. QED
    BY <2>1, <1>3, <1>9 DEF May
<1>11. Names' = Names /\ Wants' = Wants /\ Serving' = Serving
  BY <1>2, SameNames DEF Wants, Serving
<1>12. QED
  BY <1>3, <1>8, <1>9, <1>10, <1>11, MapStat DEF ReadsStep

\* Its stat or its open fails: the requests of t not served yet are dropped.
LEMMA FailMap ==
  ASSUME ReadsInv, NEW t \in Threads, pc[t] \in {"acquire", "lookup"}, Wanted(t) # {},
         pc' = [pc EXCEPT ![t] = "release"],
         UNCHANGED <<dir, job, hold, named>>, Serving' = Serving
  PROVE  ReadsStep
<1> USE DEF ReadsInv
<1>0. pc \in [Threads -> {"idle", "acquire", "lookup", "read", "release"}]
  BY DEF HandleInv, TypeOK
<1> DEFINE dropped == {h \in Holds : h[1] = t /\ h[2] \in Wanted(t)}
<1>1. dropped # {}
  <2>1. \E i \in Slots : i \in Wanted(t)
    BY DEF Wanted
  <2>2. QED
    BY <2>1, SlotParts
<1>2. ASSUME NEW h \in dropped
      PROVE  Phase(h) \in {"asked", "statted"} /\ Phase(h)' = "done"
  BY <1>0, <1>2, SlotParts DEF Phase, Wanted
<1>3. ASSUME NEW h \in Holds, h \notin dropped PROVE Phase(h)' = Phase(h)
  BY <1>0, <1>3, SlotParts DEF Phase, Wanted
<1>4. /\ \A r \in dropped : Phases[r] \in {"asked", "statted"}
      /\ Phases' = [r \in Holds |-> IF r \in dropped THEN "done" ELSE Phases[r]]
  BY <1>2, <1>3 DEF Phases
<1>5. May' = [r \in Holds |-> IF r \in dropped THEN {} ELSE May[r]]
  BY <1>2, <1>3 DEF May
<1>6. Names' = Names /\ Wants' = Wants
  BY SameNames DEF Wants
<1>7. QED
  BY <1>1, <1>4, <1>5, <1>6, MapFail DEF ReadsStep

\* The next request of t is served by the file of e.
LEMMA ServeMap ==
  ASSUME ReadsInv, HandleInv', NEW t \in Threads, NEW k \in Slots, NEW e \in Entries,
         pc[t] = "lookup", IsNext(t, k), Acquired(t, k, e),
         entry'[e].file \in named[<<t, k>>],
         \A x \in Entries : entry'[x] \in {entry[x], Referenced(entry[x]),
                                           Released(entry[x]), Retired(entry[x])}
                            \/ \A h \in Holds : hold[h] # x
  PROVE  ReadsStep
<1> USE DEF ReadsInv
<1>0. /\ pc \in [Threads -> {"idle", "acquire", "lookup", "read", "release"}]
      /\ hold \in [Holds -> Entries \cup {NoEntry}]
      /\ e # NoEntry
  BY NoneAssumption DEF HandleInv, TypeOK
<1>1. /\ UNCHANGED <<dir, job, named>>
      /\ hold' = [hold EXCEPT ![<<t, k>>] = e]
      /\ pc' = [pc EXCEPT ![t] = "acquire"]
  BY DEF Acquired, fsVars
<1> DEFINE r == <<t, k>>
<1>2. r \in Holds /\ r[1] = t /\ r[2] = k /\ job[t][k] # Skip /\ hold[r] = NoEntry
  BY SlotParts DEF IsNext, Wanted
<1>3. hold'[r] = e /\ \A h \in Holds : h # r => hold'[h] = hold[h]
  BY <1>0, <1>1, <1>2
<1>4. Phase(r) = "statted" /\ Phase(r)' = "served"
  BY <1>0, <1>1, <1>2, <1>3 DEF Phase
<1>5. ASSUME NEW h \in Holds, h # r PROVE Phase(h)' = Phase(h)
  BY <1>0, <1>1, <1>3, <1>5, SlotParts DEF Phase
<1>6. Phases[r] = "statted" /\ Phases' = [Phases EXCEPT ![r] = "served"]
  BY <1>2, <1>4, <1>5 DEF Phases
<1>7. May' = May /\ entry'[e].file \in May[r]
  BY <1>1, <1>2, <1>4, <1>5 DEF May
<1>8. Serving' = [Serving EXCEPT ![r] = entry'[e].file]
  <2>1. \A h \in Holds \ {r} : Serving'[h] = Serving[h]
    <3>1. {r} \in SUBSET Holds /\ \A h \in Holds \ {r} : hold'[h] = hold[h]
      BY <1>2, <1>3
    <3>2. QED
      BY <3>1, ServingStays
  <2>2. Serving'[r] = entry'[e].file
    BY <1>0, <1>2, <1>3 DEF Serving
  <2>3. /\ Serving = [h \in Holds |-> Serving[h]]
        /\ Serving' = [h \in Holds |-> Serving'[h]]
    BY DEF Serving
  <2> HIDE DEF r
  <2>4. QED
    BY <2>1, <2>2, <2>3, <1>2
<1>9. Names' = Names /\ Wants' = Wants
  BY <1>1, SameNames DEF Wants
<1>10. QED
  BY <1>2, <1>6, <1>7, <1>8, <1>9, MapServe DEF ReadsStep

LEMMA HitMap ==
  ASSUME ReadsInv, HandleInv', NEW t \in Threads, Hit(t)
  PROVE  ReadsStep
<1> USE DEF ReadsInv
<1>0. entry \in [Entries -> Handle]
  BY DEF HandleInv, TypeOK
<1>1. PICK k \in Slots :
        /\ IsNext(t, k) /\ IsHit(t, job[t][k])
        /\ entry' = [entry EXCEPT ![cached[job[t][k]]] = Referenced(@)]
        /\ Acquired(t, k, cached[job[t][k]])
  BY DEF Hit
<1> DEFINE e == cached[job[t][k]]
<1>2. e \in Entries /\ pc[t] = "lookup"
  BY <1>1, NextSlot DEF HandleInv, TypeOK, IsHit, Hit
<1>3. \A x \in Entries : entry'[x] \in {entry[x], Referenced(entry[x])}
  BY <1>0, <1>1
<1>4. entry'[e].file = entry[e].file
  BY <1>0, <1>2, <1>3 DEF Referenced, Handle
<1>5. entry[e].file \in named[<<t, k>>]
  BY <1>1, <1>2 DEF HitsServe
<1>6. QED
  BY <1>1, <1>2, <1>3, <1>4, <1>5, ServeMap

LEMMA OpenMap ==
  ASSUME ReadsInv, HandleInv', NEW t \in Threads, Open(t)
  PROVE  ReadsStep
<1> USE DEF ReadsInv
<1>1. PICK k \in Slots :
        /\ IsNext(t, k) /\ Exists(job[t][k]) /\ FreeEntries # {}
        /\ \E gone \in Evictions(job[t][k]) :
             /\ entry' = [x \in Entries |-> IF x = NewEntry THEN Fresh(t, job[t][k])
                             ELSE IF \E q \in gone \cup {job[t][k]} : cached[q] = x
                                  THEN Retired(entry[x]) ELSE entry[x]]
             /\ Acquired(t, k, NewEntry)
  BY DEF Open
<1> DEFINE p == job[t][k]
<1>2. PICK gone \in Evictions(p) :
        /\ entry' = [x \in Entries |-> IF x = NewEntry THEN Fresh(t, p)
                        ELSE IF \E q \in gone \cup {p} : cached[q] = x
                             THEN Retired(entry[x]) ELSE entry[x]]
        /\ Acquired(t, k, NewEntry)
  BY <1>1
<1>3. NewEntry \in Entries /\ \A h \in Holds : hold[h] # NewEntry
  <2>1. NewEntry \in FreeEntries
    BY <1>1 DEF NewEntry
  <2>2. QED
    BY <2>1 DEF FreeEntries, HoldersOf
<1>4. \A x \in Entries : entry'[x] \in {entry[x], Retired(entry[x])}
                         \/ \A h \in Holds : hold[h] # x
  BY <1>2, <1>3
<1>5. entry'[NewEntry].file = Inode(p)
  BY <1>2, <1>3 DEF Fresh
<1>6. pc[t] = "lookup"
  BY DEF Open
<1>7. Inode(p) \in named[<<t, k>>]
  <2>1. hold[<<t, k>>] = NoEntry
    BY <1>1, NextSlot DEF HandleInv
  <2>2. named[<<t, k>>] # {}
    BY <2>1, <1>1, <1>6 DEF CallShape, Shape
  <2>3. QED
    BY <2>2, <1>1 DEF SeesCurrent
<1>8. QED
  BY <1>1, <1>2, <1>3, <1>4, <1>5, <1>6, <1>7, ServeMap

LEMMA FailuresMap ==
  ASSUME ReadsInv, HandleInv', NEW t \in Threads, StatMissing(t) \/ OpenFails(t)
  PROVE  ReadsStep
<1> USE DEF ReadsInv
<1>1. CASE StatMissing(t)
  <2>1. /\ pc[t] = "acquire" /\ pc' = [pc EXCEPT ![t] = "release"]
        /\ UNCHANGED <<dir, job, hold, named, cached, entry>>
        /\ Wanted(t) # {}
    BY <1>1 DEF StatMissing, IsNext, fsVars, cacheVars
  <2>2. Serving' = Serving
    BY <2>1 DEF Serving
  <2>3. QED
    BY <2>1, <2>2, FailMap
<1>2. CASE OpenFails(t)
  <2>1. PICK p : entry' = [x \in Entries |-> IF x = cached[p] THEN Retired(entry[x]) ELSE entry[x]]
    BY <1>2 DEF OpenFails
  <2>2. /\ pc[t] = "lookup" /\ pc' = [pc EXCEPT ![t] = "release"]
        /\ UNCHANGED <<dir, job, hold, named>>
        /\ Wanted(t) # {}
    BY <1>2 DEF OpenFails, IsNext, fsVars
  <2>3. \A h \in Holds : Serving'[h] = Serving[h]
    <3>1. \A x \in Entries : entry'[x] \in {entry[x], Retired(entry[x])}
      BY <2>1
    <3>2. {} \in SUBSET Holds /\ \A h \in Holds \ {} : hold'[h] = hold[h]
      BY <2>2
    <3>3. \A h \in Holds \ {} : Serving'[h] = Serving[h]
      BY <3>1, <3>2, ServingStays
    <3>4. QED
      BY <3>3
  <2>4. Serving' = Serving
    BY <2>3 DEF Serving
  <2>5. QED
    BY <2>2, <2>4, FailMap
<1>3. QED
  BY <1>1, <1>2

LEMMA ReleaseMap ==
  ASSUME ReadsInv, HandleInv', NEW t \in Threads, Release(t)
  PROVE  ReadsStep
<1> USE DEF ReadsInv
<1>0. /\ entry \in [Entries -> Handle]
      /\ hold \in [Holds -> Entries \cup {NoEntry}]
      /\ named \in [Holds -> SUBSET Inodes]
  BY DEF HandleInv, TypeOK
<1>1. PICK k \in Slots :
        /\ hold[<<t, k>>] # NoEntry
        /\ entry' = [entry EXCEPT ![hold[<<t, k>>]] = Released(@)]
        /\ hold' = [hold EXCEPT ![<<t, k>>] = NoEntry]
        /\ named' = [named EXCEPT ![<<t, k>>] = {}]
  BY DEF Release
<1>2. pc[t] = "release" /\ UNCHANGED <<dir, pc, job>>
  BY DEF Release, fsVars
<1> DEFINE r == <<t, k>>
<1>3. r \in Holds /\ r[1] = t /\ r[2] = k /\ job[t][k] # Skip
  BY <1>1, SlotParts DEF CallShape, Shape
<1>4. /\ hold'[r] = NoEntry /\ named'[r] = {}
      /\ \A h \in Holds : h # r => hold'[h] = hold[h] /\ named'[h] = named[h]
  BY <1>0, <1>1, <1>3
<1>5. Phase(r) = "served" /\ Phase(r)' = "done"
  BY <1>1, <1>2, <1>3, <1>4 DEF Phase
<1>6. ASSUME NEW h \in Holds, h # r PROVE Phase(h)' = Phase(h)
  BY <1>2, <1>4, <1>6 DEF Phase
<1>7. Phases[r] = "served" /\ Phases' = [Phases EXCEPT ![r] = "done"]
  BY <1>3, <1>5, <1>6 DEF Phases
<1>8. May' = [May EXCEPT ![r] = {}]
  BY <1>3, <1>4, <1>5, <1>6 DEF May
<1>9. Serving' = [Serving EXCEPT ![r] = NoFile]
  <2>1. {r} \in SUBSET Holds /\ \A h \in Holds \ {r} : hold'[h] = hold[h]
    BY <1>3, <1>4
  <2>2. \A x \in Entries : entry'[x] \in {entry[x], Released(entry[x])}
    BY <1>0, <1>1
  <2>3. \A h \in Holds \ {r} : Serving'[h] = Serving[h]
    BY <2>1, <2>2, ServingStays
  <2>4. Serving'[r] = NoFile
    BY <1>3, <1>4 DEF Serving
  <2>5. QED
    BY <2>3, <2>4, <1>3 DEF Serving
<1>10. Names' = Names /\ Wants' = Wants
  BY <1>2, SameNames DEF Wants
<1>11. QED
  BY <1>3, <1>7, <1>8, <1>9, <1>10, MapLetGo DEF ReadsStep

LEMMA ReturnMap ==
  ASSUME ReadsInv, NEW t \in Threads, Return(t)
  PROVE  ReadsStep
<1> USE DEF ReadsInv
<1>0. /\ pc \in [Threads -> {"idle", "acquire", "lookup", "read", "release"}]
      /\ job \in [Threads -> [Slots -> Paths \cup {Skip}]]
  BY DEF HandleInv, TypeOK
<1>1. /\ pc[t] = "release" /\ pc' = [pc EXCEPT ![t] = "idle"]
      /\ job' = [job EXCEPT ![t] = NoJob]
      /\ named' = [h \in Holds |-> IF h[1] = t THEN {} ELSE named[h]]
      /\ UNCHANGED <<dir, cached, entry, hold>>
      /\ \A i \in Slots : hold[<<t, i>>] = NoEntry
  BY DEF Return, fsVars, cacheVars
<1> DEFINE over == {h \in Holds : h[1] = t /\ job[t][h[2]] # Skip}
<1>2. ASSUME NEW h \in Holds, h[1] = t
      PROVE  /\ hold[h] = NoEntry /\ job'[t][h[2]] = Skip /\ pc'[t] = "idle"
             /\ named'[h] = {}
             /\ job[t][h[2]] = Skip => named[h] = {}
  BY <1>0, <1>1, <1>2, SlotParts DEF CallShape, Shape, NoJob
<1>3. ASSUME NEW h \in Holds, h[1] # t
      PROVE  job'[h[1]] = job[h[1]] /\ pc'[h[1]] = pc[h[1]] /\ named'[h] = named[h]
  BY <1>0, <1>1, <1>3
<1>4. ASSUME NEW h \in Holds
      PROVE  /\ h \in over => Phase(h) = "done"
             /\ Phase(h)' = IF h \in over THEN "none" ELSE Phase(h)
             /\ job'[h[1]][h[2]] = IF h \in over THEN Skip ELSE job[h[1]][h[2]]
  <2>1. CASE h[1] = t
    BY <2>1, <1>1, <1>2 DEF Phase
  <2>2. CASE h[1] # t
    BY <2>2, <1>1, <1>3 DEF Phase
  <2>3. QED
    BY <2>1, <2>2
<1>5. /\ \A r \in over : Phases[r] = "done"
      /\ Phases' = [r \in Holds |-> IF r \in over THEN "none" ELSE Phases[r]]
      /\ Wants' = [r \in Holds |-> IF r \in over THEN Skip ELSE Wants[r]]
  BY <1>4 DEF Phases, Wants
<1>6. May' = May
  <2>1. ASSUME NEW h \in Holds PROVE May'[h] = May[h]
    <3>1. CASE h \in over
      BY <3>1, <1>2, <1>4 DEF May
    <3>2. CASE h \notin over /\ h[1] = t
      BY <3>2, <1>2, <1>4 DEF May
    <3>3. CASE h[1] # t
      BY <3>3, <1>3, <1>4 DEF May
    <3>4. QED
      BY <3>1, <3>2, <3>3
  <2>2. QED
    BY <2>1 DEF May
<1>7. Names' = Names /\ Serving' = Serving
  BY <1>1, SameNames DEF Serving
<1>8. CASE over = {}
  <2>1. Phases' = Phases /\ Wants' = Wants
    BY <1>5, <1>8 DEF Phases, Wants
  <2>2. QED
    BY <2>1, <1>6, <1>7, MapStutter DEF ReadsStep
<1>9. CASE over # {}
  BY <1>5, <1>6, <1>7, <1>9, MapAnswer DEF ReadsStep
<1>10. QED
  BY <1>8, <1>9

\* Steps FileReads does not see.
LEMMA StuttersMap ==
  ASSUME ReadsInv, HandleInv',
         \/ \E t \in Threads : BeginReads(t) \/ EndReads(t)
         \/ Clear \/ CloseClear \/ CloseDriver \/ Exited \/ UNCHANGED vars
  PROVE  ReadsStep
<1> USE DEF ReadsInv
<1>1. UNCHANGED <<dir, job, hold, named>>
  BY DEF BeginReads, EndReads, Clear, CloseClear, CloseDriver, Exited, vars, fsVars, callVars
<1>2. \A x \in Entries : entry'[x] \in {entry[x], Retired(entry[x])}
  BY DEF BeginReads, EndReads, Clear, CloseClear, ClearedCache, CloseDriver, Exited, vars, cacheVars
<1>3. Serving' = Serving
  <2>1. {} \in SUBSET Holds /\ \A h \in Holds \ {} : hold'[h] = hold[h]
    BY <1>1
  <2>2. \A h \in Holds \ {} : Serving'[h] = Serving[h]
    BY <1>2, <2>1, ServingStays
  <2>3. QED
    BY <2>2 DEF Serving
<1>4. \A h \in Holds : Phase(h)' = Phase(h)
  <2>1. CASE pc' = pc
    BY <2>1, <1>1 DEF Phase
  <2>2. ASSUME NEW t \in Threads, BeginReads(t) \/ EndReads(t)
        PROVE  \A h \in Holds : Phase(h)' = Phase(h)
    <3>0. /\ pc \in [Threads -> {"idle", "acquire", "lookup", "read", "release"}]
          /\ \E s \in {"read", "release"} : pc' = [pc EXCEPT ![t] = s]
          /\ pc[t] \in {"acquire", "read"}
      BY <2>2 DEF BeginReads, EndReads, HandleInv, TypeOK
    <3>1. ASSUME NEW h \in Holds PROVE Phase(h)' = Phase(h)
      <4>1. CASE h[1] = t
        <5>1. job[t][h[2]] = Skip \/ hold[h] # NoEntry
          BY <2>2, <4>1, SlotParts DEF BeginReads, EndReads, Wanted, CallShape, Shape
        <5>2. QED
          BY <4>1, <5>1, <1>1 DEF Phase
      <4>2. CASE h[1] # t
        BY <4>2, <3>0, <1>1 DEF Phase
      <4>3. QED
        BY <4>1, <4>2
    <3>2. QED
      BY <3>1
  <2>3. QED
    BY <2>1, <2>2 DEF Clear, CloseClear, CloseDriver, Exited, vars, callVars
<1>5. Phases' = Phases /\ May' = May
  BY <1>1, <1>4, SamePhases
<1>6. Names' = Names /\ Wants' = Wants
  BY <1>1, SameNames DEF Wants
<1>7. QED
  BY <1>3, <1>5, <1>6, MapStutter DEF ReadsStep

-----------------------------------------------------------------------------
\* The cache cannot be told from reads that open files themselves: no request is
\* served a file its path stopped naming before the request's stat.
THEOREM CacheServesFiles ==
  ASSUME ~Renames
  PROVE  Spec => ServesFiles
<1>1. ReadsInv /\ HandleInv' /\ [Next]_vars => [Reads!ReadsNext]_(Reads!readsVars)
  <2> SUFFICES ASSUME ReadsInv, HandleInv', [Next]_vars PROVE ReadsStep
    BY DEF ReadsStep
  <2>1. ASSUME NEW p \in Paths, Replace(p) \/ Rewrite(p) \/ Remove(p) PROVE ReadsStep
    BY <2>1, WritersMap
  <2>2. ASSUME NEW t \in Threads,
               \/ Start(t) \/ Stat(t) \/ StatMissing(t) \/ Hit(t) \/ Open(t) \/ OpenFails(t)
               \/ Release(t) \/ Return(t)
        PROVE  ReadsStep
    BY <2>2, StartMap, StatMap, HitMap, OpenMap, FailuresMap, ReleaseMap, ReturnMap
  <2>3. CASE \/ \E t \in Threads : BeginReads(t) \/ EndReads(t)
             \/ Clear \/ CloseClear \/ CloseDriver \/ Exited \/ UNCHANGED vars
    BY <2>3, StuttersMap
  <2>4. QED
    BY <2>1, <2>2, <2>3 DEF Next, Call, Rename
<1>2. QED
  BY <1>1, MapInit, ReadsInvariant, HandleInvariant, PTL DEF Spec, ServesFiles, Reads!ReadsSpec
===============================================================================
