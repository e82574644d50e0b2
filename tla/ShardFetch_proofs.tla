--------------------------- MODULE ShardFetch_proofs --------------------------
(***************************************************************************)
(* Proofs about Coalesce for every argument, cap and gap, and about        *)
(* ShardFetch for every shard, request and writer.                         *)
(***************************************************************************)
EXTENDS ShardFetch, Ascending_proofs, FiniteSetTheorems, TLAPS

\* The position in the order does not precede what is still to come.
AheadOf(offset) == \A j \in k..Count : offset <= ranges[indexed[j]].offset

\* What the loop keeps of its open window.
OpenInv ==
  /\ cur.open \/ cur = Closed
  /\ cur.open => /\ cur.offset <= cur.end
                 /\ cur.end - cur.offset <= MaxFused
                 /\ AheadOf(cur.offset)
                 /\ \A w \in DOMAIN fused : fused[w].offset <= cur.offset
  /\ \A w \in DOMAIN fused : AheadOf(fused[w].offset)
  /\ pc = "done" => k = Count + 1 /\ ~cur.open

\* The inductive invariant.
CoalesceInv == /\ TypeOK
               /\ Sorted(indexed)
               /\ OpenInv
               /\ EachRequestOnce
               /\ SlicesAreRequests
               /\ FusedCapKept
               /\ SortedByOffset

\* The request at hand: its type, and that the loop has not met it before.
LEMMA RequestAtHand ==
  ASSUME TypeOK, Sorted(indexed), NEW i \in 1..Count, At(i)
  PROVE  /\ Count \in Nat /\ k \in 1..Count /\ k \in Nat /\ i = indexed[k]
         /\ ranges[i].offset \in Nat /\ ranges[i].length \in Nat
         /\ i \notin Passed
         /\ {indexed[j] : j \in 1..k} = Passed \cup {i}
         /\ \A j \in (k+1)..Count : ranges[i].offset <= ranges[indexed[j]].offset
<1>1. Count \in Nat /\ k \in 1..Count /\ i = indexed[k] /\ k \in Nat
  BY DEF TypeOK, At, Count
<1>2. \A j \in 1..Count : /\ indexed[j] \in 1..Count
                          /\ ranges[indexed[j]].offset \in Nat
                          /\ ranges[indexed[j]].length \in Nat
  <2>1. \A x \in 1..Count : ranges[x] \in AnyRange
    BY DEF TypeOK, Count
  <2>2. \A x \in 1..Count : ranges[x].offset \in Nat /\ ranges[x].length \in Nat
    BY <2>1 DEF AnyRange
  <2>3. \A j \in 1..Count : indexed[j] \in 1..Count
    BY DEF TypeOK
  <2>4. QED
    BY <2>2, <2>3
<1>3. i \notin Passed
  <2> SUFFICES ASSUME NEW j \in 1..(k-1), indexed[j] = i PROVE FALSE
    BY DEF Passed
  <2>1. Before(indexed[j], indexed[k])
    BY <1>1 DEF Sorted
  <2>2. QED
    BY <2>1, <1>1, <1>2 DEF Before
<1>4. {indexed[j] : j \in 1..k} = Passed \cup {i}
  BY <1>1 DEF Passed
<1>5. \A j \in (k+1)..Count : ranges[i].offset <= ranges[indexed[j]].offset
  <2> SUFFICES ASSUME NEW j \in (k+1)..Count
               PROVE  ranges[i].offset <= ranges[indexed[j]].offset
    OBVIOUS
  <2>1. j \in 1..Count /\ k < j
    BY <1>1
  <2>2. Before(indexed[k], indexed[j])
    BY <1>1, <2>1 DEF Sorted
  <2>3. QED
    BY <2>1, <2>2, <1>1, <1>2 DEF Before
<1>6. QED
  BY <1>1, <1>2, <1>3, <1>4, <1>5

\* A step that adds the member m at position p and moves no other member.
Gains(p, m) ==
  \A w, n : (w \in Positions' /\ n \in MembersAt(w)')
              <=> \/ w \in Positions /\ n \in MembersAt(w)
                  \/ w = p /\ n = m

\* A step that only adds a member for the request at hand keeps every request
\* placed once.
LEMMA PlacedOnce ==
  ASSUME TypeOK, Sorted(indexed), EachRequestOnce, NEW i \in 1..Count, At(i), Advance,
         NEW p, NEW m, m.idx = i, Gains(p, m)
  PROVE  EachRequestOnce'
<1>1. i \notin Passed /\ Passed' = Passed \cup {i}
  <2>1. (k + 1) - 1 = k
    BY RequestAtHand
  <2>2. QED
    BY <2>1, RequestAtHand DEF Advance, Passed
<1>2. \A w \in Positions' : \A n \in MembersAt(w)' : n.idx \in Passed'
  BY <1>1 DEF EachRequestOnce, Gains
<1>3. \A j \in Passed' : \E w \in Positions' : \E n \in MembersAt(w)' : n.idx = j
  BY <1>1 DEF EachRequestOnce, Gains
<1>4. ASSUME NEW v \in Positions', NEW w \in Positions',
             NEW x \in MembersAt(v)', NEW n \in MembersAt(w)', x.idx = n.idx
      PROVE  v = w /\ x = n
  BY <1>1, <1>4 DEF EachRequestOnce, Gains
<1>5. QED
  BY <1>2, <1>3, <1>4 DEF EachRequestOnce

\* Emitting the open window puts its members at the position they had.
LEMMA EmittedPlaces ==
  ASSUME TypeOK, OpenInv
  PROVE  /\ Emitted(fused, cur) \in Seq(FusedRead)
         /\ Len(Emitted(fused, cur)) \in Nat
         /\ \A w, n : (w \in 1..Len(Emitted(fused, cur)) /\ n \in Emitted(fused, cur)[w].members)
                        <=> (w \in Positions /\ n \in MembersAt(w))
<1>1. CASE ~cur.open
  <2>1. Emitted(fused, cur) = fused /\ cur.members = {}
    BY <1>1 DEF Emitted, OpenInv, Closed
  <2>2. Len(fused) \in Nat
    BY DEF TypeOK
  <2>3. QED
    BY <2>1, <2>2 DEF TypeOK, Positions, MembersAt
<1>2. CASE cur.open
  <2>1. Window(cur) \in FusedRead
    <3>1. /\ cur.offset \in Nat /\ cur.end \in Nat /\ cur.members \in SUBSET Member
          /\ cur.offset <= cur.end
      BY <1>2 DEF TypeOK, CurWindow, OpenInv
    <3>2. cur.end - cur.offset \in Nat
      BY <3>1
    <3>3. QED
      BY <3>1, <3>2 DEF Window, FusedRead
  <2>2. /\ Emitted(fused, cur) = Append(fused, Window(cur))
        /\ Window(cur).members = cur.members
        /\ fused \in Seq(FusedRead) /\ Len(fused) \in Nat
    BY <1>2 DEF Emitted, TypeOK, Window
  <2>3. /\ Emitted(fused, cur) \in Seq(FusedRead)
        /\ Len(Emitted(fused, cur)) = Len(fused) + 1
        /\ \A w \in 1..Len(fused) : Emitted(fused, cur)[w] = fused[w]
        /\ Emitted(fused, cur)[Len(fused) + 1] = Window(cur)
    BY <2>1, <2>2
  <2>4. QED
    BY <2>2, <2>3 DEF Positions, MembersAt
<1>3. QED
  BY <1>1, <1>2

-----------------------------------------------------------------------------
(* Each action, on each part of the invariant *)

\* What a step that gives request i a window of its own or none has in common.
LEMMA OpenedWindow ==
  ASSUME TypeOK, Sorted(indexed), NEW i \in 1..Count, At(i)
  PROVE  /\ Opened(i) \in CurWindow
         /\ Window(Opened(i)) \in FusedRead
         /\ Opened(i).offset = ranges[i].offset
         /\ Opened(i).end = ranges[i].offset + ranges[i].length
         /\ Window(Opened(i)).offset = ranges[i].offset
         /\ Window(Opened(i)).length = ranges[i].length
         /\ Opened(i).members = {[idx |-> i, intra |-> 0, length |-> ranges[i].length]}
         /\ Window(Opened(i)).members = Opened(i).members
         /\ Opened(i).open
<1>1. ranges[i].offset \in Nat /\ ranges[i].length \in Nat /\ i \in Nat
  BY RequestAtHand
<1>2. [idx |-> i, intra |-> 0, length |-> ranges[i].length] \in Member
  BY <1>1 DEF Member
<1>3. QED
  BY <1>1, <1>2 DEF Opened, End, CurWindow, Window, FusedRead

\* The type invariant, the order and k.
LEMMA StepTypes ==
  ASSUME CoalesceInv, NEW i \in 1..Count, Step(i)
  PROVE  TypeOK' /\ Sorted(indexed)'
<1> USE DEF CoalesceInv
<1>1. At(i) /\ Advance
  BY DEF Step, PassThrough, OpenWindow, Fuse, Split
<1>2. Count' = Count /\ (k + 1) \in 1..(Count + 1) /\ Sorted(indexed)'
  <2>1. Count' = Count /\ k' = k + 1 /\ ranges' = ranges /\ indexed' = indexed
    BY <1>1 DEF Advance, Count
  <2>2. Count \in Nat /\ k \in 1..Count
    BY <1>1, RequestAtHand
  <2>3. Sorted(indexed)'
    BY <2>1 DEF Sorted, Before
  <2>4. QED
    BY <2>1, <2>2, <2>3
<1>3. cur' \in CurWindow /\ fused' \in Seq(FusedRead)
  <2>1. Emitted(fused, cur) \in Seq(FusedRead)
    BY EmittedPlaces
  <2>2. Closed \in CurWindow
    BY DEF Closed, CurWindow
  <2>3. CASE PassThrough(i)
    BY <1>1, <2>1, <2>2, <2>3, OpenedWindow DEF PassThrough
  <2>4. CASE OpenWindow(i) \/ Split(i)
    BY <1>1, <2>1, <2>4, OpenedWindow DEF OpenWindow, Split, TypeOK
  <2>5. CASE Fuse(i)
    <3>1. /\ ranges[i].offset \in Nat /\ ranges[i].length \in Nat /\ i \in Nat
          /\ cur.offset \in Nat /\ cur.end \in Nat /\ cur.members \in SUBSET Member
          /\ cur.offset <= ranges[i].offset
      BY <1>1, <2>5, RequestAtHand DEF Fuse, TypeOK, CurWindow, OpenInv, AheadOf
    <3>2. [idx |-> i, intra |-> ranges[i].offset - cur.offset,
           length |-> ranges[i].length] \in Member
      BY <3>1 DEF Member
    <3>3. CandidateEnd(cur, i) \in Nat
      BY <3>1 DEF CandidateEnd, Bigger, End
    <3>4. QED
      BY <2>5, <3>1, <3>2, <3>3 DEF Fuse, Grown, TypeOK, CurWindow
  <2>6. QED
    BY <2>3, <2>4, <2>5 DEF Step
<1>4. QED
  BY <1>1, <1>2, <1>3 DEF TypeOK, Advance

\* What is said of one emitted window.
GoodWindow(f) ==
  /\ \A m \in f.members : Payload(f.offset, f.offset + f.length, m)
  /\ f.length <= MaxFused \/ \A m, n \in f.members : m = n

\* The windows emitted so far and what _emit makes of the open one.
LEMMA EmittedGood ==
  ASSUME CoalesceInv
  PROVE  LET fs == Emitted(fused, cur)
         IN  /\ fs \in Seq(FusedRead)
             /\ \A w \in DOMAIN fs : GoodWindow(fs[w]) /\ AheadOf(fs[w].offset)
             /\ \A v, w \in DOMAIN fs : v < w => fs[v].offset <= fs[w].offset
<1> USE DEF CoalesceInv
<1> DEFINE fs == Emitted(fused, cur)
<1>1. /\ \A w \in DOMAIN fused : GoodWindow(fused[w]) /\ AheadOf(fused[w].offset)
      /\ \A v, w \in DOMAIN fused : v < w => fused[v].offset <= fused[w].offset
  BY DEF GoodWindow, SlicesAreRequests, MembersOf, FusedCapKept, OpenInv, SortedByOffset
<1>2. CASE ~cur.open
  BY <1>1, <1>2, EmittedPlaces DEF Emitted
<1>3. CASE cur.open
  <2>1. /\ cur.offset \in Nat /\ cur.end \in Nat
        /\ cur.end - cur.offset <= MaxFused /\ AheadOf(cur.offset)
        /\ \A w \in DOMAIN fused : fused[w].offset <= cur.offset
    BY <1>3 DEF TypeOK, CurWindow, OpenInv
  <2>2. GoodWindow(Window(cur)) /\ Window(cur).offset = cur.offset
    <3>1. cur.offset + (cur.end - cur.offset) = cur.end
      BY <2>1
    <3>2. QED
      BY <2>1, <3>1 DEF GoodWindow, Window, SlicesAreRequests
  <2>3. fs = Append(fused, Window(cur)) /\ fused \in Seq(FusedRead) /\ fs \in Seq(FusedRead)
    BY <1>3, EmittedPlaces DEF Emitted, TypeOK
  <2>4. /\ DOMAIN fs = 1..(Len(fused) + 1) /\ DOMAIN fused = 1..Len(fused)
        /\ Len(fused) \in Nat
        /\ \A w \in DOMAIN fused : fs[w] = fused[w]
        /\ fs[Len(fused) + 1] = Window(cur)
    BY <2>3
  <2>5. \A w \in DOMAIN fs : w \in DOMAIN fused \/ w = Len(fused) + 1
    BY <2>4
  <2>6. \A w \in DOMAIN fs : GoodWindow(fs[w]) /\ AheadOf(fs[w].offset)
    BY <1>1, <2>1, <2>2, <2>4, <2>5
  <2>7. ASSUME NEW v \in DOMAIN fs, NEW w \in DOMAIN fs, v < w
        PROVE  fs[v].offset <= fs[w].offset
    <3>1. v \in DOMAIN fused
      BY <2>4, <2>7
    <3>2. QED
      BY <1>1, <2>1, <2>2, <2>4, <2>5, <2>7, <3>1
  <2>8. QED
    BY <2>3, <2>6, <2>7
<1>4. QED
  BY <1>2, <1>3

\* A window of its own for request i is good, and nothing before it is ahead of it.
LEMMA OpenedGood ==
  ASSUME TypeOK, Sorted(indexed), NEW i \in 1..Count, At(i)
  PROVE  /\ GoodWindow(Window(Opened(i)))
         /\ \A m \in Opened(i).members : Payload(Opened(i).offset, Opened(i).end, m)
         /\ \A j \in (k+1)..Count : ranges[i].offset <= ranges[indexed[j]].offset
         /\ \A offset : AheadOf(offset) => offset <= ranges[i].offset
<1>1. /\ ranges[i].offset \in Nat /\ ranges[i].length \in Nat
      /\ k \in 1..Count /\ Count \in Nat /\ i = indexed[k]
      /\ \A j \in (k+1)..Count : ranges[i].offset <= ranges[indexed[j]].offset
  BY RequestAtHand
<1>2. \A m \in Opened(i).members :
        m.idx = i /\ m.intra = 0 /\ m.length = ranges[i].length
  BY OpenedWindow
<1>3. \A m, n \in Opened(i).members : m = n
  BY OpenedWindow
<1>4. QED
  BY <1>1, <1>2, <1>3, OpenedWindow DEF GoodWindow, Payload, AheadOf

\* The windows of fused after a step are those emitted and at most one more at
\* the end, which starts where request i does.
LEMMA StepWindows ==
  ASSUME CoalesceInv, NEW i \in 1..Count, Step(i)
  PROVE  /\ \A w \in DOMAIN fused' : GoodWindow(fused'[w])
         /\ \A v, w \in DOMAIN fused' : v < w => fused'[v].offset <= fused'[w].offset
         /\ \A w \in DOMAIN fused' : fused'[w].offset <= ranges[i].offset
         /\ \A w \in DOMAIN fused' :
               \A j \in (k+1)..Count : fused'[w].offset <= ranges[indexed[j]].offset
<1> USE DEF CoalesceInv
<1>1. At(i)
  BY DEF Step, PassThrough, OpenWindow, Fuse, Split
<1> DEFINE fs == Emitted(fused, cur)
<1>2. /\ fs \in Seq(FusedRead) /\ Len(fs) \in Nat /\ DOMAIN fs = 1..Len(fs)
      /\ \A w \in DOMAIN fs : GoodWindow(fs[w]) /\ AheadOf(fs[w].offset)
      /\ \A v, w \in DOMAIN fs : v < w => fs[v].offset <= fs[w].offset
  BY EmittedGood
<1>3. \A offset : AheadOf(offset) =>
        /\ offset <= ranges[i].offset
        /\ \A j \in (k+1)..Count : offset <= ranges[indexed[j]].offset
  BY <1>1, OpenedGood, RequestAtHand DEF AheadOf
<1>4. CASE PassThrough(i)
  <2>1. fused' = Append(fs, Window(Opened(i))) /\ Window(Opened(i)) \in FusedRead
    BY <1>1, <1>4, OpenedWindow DEF PassThrough
  <2>2. /\ DOMAIN fused' = 1..(Len(fs) + 1)
        /\ \A w \in DOMAIN fs : fused'[w] = fs[w]
        /\ fused'[Len(fs) + 1] = Window(Opened(i))
    BY <1>2, <2>1
  <2>3. \A w \in DOMAIN fused' : w \in DOMAIN fs \/ w = Len(fs) + 1
    BY <1>2, <2>2
  <2>4. /\ GoodWindow(Window(Opened(i))) /\ Window(Opened(i)).offset = ranges[i].offset
        /\ ranges[i].offset \in Nat
        /\ \A j \in (k+1)..Count : ranges[i].offset <= ranges[indexed[j]].offset
    BY <1>1, OpenedGood, OpenedWindow, RequestAtHand
  <2>5. ASSUME NEW v \in DOMAIN fused', NEW w \in DOMAIN fused', v < w
        PROVE  fused'[v].offset <= fused'[w].offset
    <3>1. v \in DOMAIN fs
      BY <1>2, <2>2, <2>5
    <3>2. QED
      BY <1>2, <1>3, <2>2, <2>3, <2>4, <2>5, <3>1
  <2>6. \A w \in DOMAIN fused' : GoodWindow(fused'[w])
    BY <1>2, <2>2, <2>3, <2>4
  <2>7. \A w \in DOMAIN fused' :
          /\ fused'[w].offset <= ranges[i].offset
          /\ \A j \in (k+1)..Count : fused'[w].offset <= ranges[indexed[j]].offset
    BY <1>2, <1>3, <2>2, <2>3, <2>4
  <2>8. QED
    BY <2>5, <2>6, <2>7
<1>5. CASE OpenWindow(i) \/ Split(i) \/ Fuse(i)
  <2>1. fused' = fs \/ fused' = fused
    BY <1>5 DEF OpenWindow, Split, Fuse
  <2>2. /\ \A w \in DOMAIN fused : GoodWindow(fused[w]) /\ AheadOf(fused[w].offset)
        /\ \A v, w \in DOMAIN fused : v < w => fused[v].offset <= fused[w].offset
    BY DEF GoodWindow, SlicesAreRequests, MembersOf, FusedCapKept, OpenInv, SortedByOffset
  <2>3. QED
    BY <1>2, <1>3, <2>1, <2>2
<1>6. QED
  BY <1>4, <1>5 DEF Step

\* The open window after a step: closed, request i alone, or the old one grown.
LEMMA StepOpen ==
  ASSUME CoalesceInv, NEW i \in 1..Count, Step(i)
  PROVE  /\ cur'.open \/ cur' = Closed
         /\ cur'.open => /\ cur'.offset <= cur'.end
                         /\ cur'.end - cur'.offset <= MaxFused
                         /\ \A w \in DOMAIN fused' : fused'[w].offset <= cur'.offset
                         /\ \A j \in (k+1)..Count : cur'.offset <= ranges[indexed[j]].offset
         /\ \A m \in cur'.members : Payload(cur'.offset, cur'.end, m)
<1> USE DEF CoalesceInv
<1>1. At(i)
  BY DEF Step, PassThrough, OpenWindow, Fuse, Split
<1>2. /\ ranges[i].offset \in Nat /\ ranges[i].length \in Nat /\ MaxFused \in Nat
  BY <1>1, RequestAtHand, LimitsAssumption
<1>3. CASE PassThrough(i)
  BY <1>3 DEF PassThrough, Closed
<1>4. CASE OpenWindow(i) \/ Split(i)
  <2>1. cur' = Opened(i) /\ ranges[i].length <= MaxFused
    BY <1>4 DEF OpenWindow, Split, Fusible
  <2>2. \A w \in DOMAIN fused' : fused'[w].offset <= ranges[i].offset
    BY StepWindows
  <2>3. QED
    BY <1>1, <1>2, <2>1, <2>2, OpenedGood, OpenedWindow
<1>5. CASE Fuse(i)
  <2>1. /\ cur' = Grown(cur, i) /\ cur.open /\ fused' = fused
        /\ CandidateEnd(cur, i) - cur.offset <= MaxFused
    BY <1>5 DEF Fuse, Fits
  <2>2. /\ cur.offset \in Nat /\ cur.end \in Nat /\ cur.members \in SUBSET Member
        /\ cur.offset <= cur.end /\ AheadOf(cur.offset)
        /\ \A w \in DOMAIN fused : fused[w].offset <= cur.offset
    BY <2>1 DEF TypeOK, CurWindow, OpenInv
  <2>3. /\ CandidateEnd(cur, i) \in Nat /\ cur.end <= CandidateEnd(cur, i)
        /\ ranges[i].offset + ranges[i].length <= CandidateEnd(cur, i)
        /\ cur.offset <= ranges[i].offset
        /\ \A j \in (k+1)..Count : cur.offset <= ranges[indexed[j]].offset
    BY <1>1, <1>2, <2>2, RequestAtHand, OpenedGood DEF CandidateEnd, Bigger, End, AheadOf
  <2> DEFINE new == [idx |-> i, intra |-> ranges[i].offset - cur.offset,
                     length |-> ranges[i].length]
  <2>4. /\ cur'.open /\ cur'.offset = cur.offset /\ cur'.end = CandidateEnd(cur, i)
        /\ cur'.members = cur.members \cup {new}
    BY <2>1 DEF Grown, TypeOK, CurWindow
  <2>5. Payload(cur.offset, CandidateEnd(cur, i), new)
    BY <1>2, <2>2, <2>3 DEF Payload
  <2>6. ASSUME NEW m \in cur.members
        PROVE  Payload(cur.offset, CandidateEnd(cur, i), m)
    <3>1. Payload(cur.offset, cur.end, m) /\ m \in Member
      BY <2>2 DEF SlicesAreRequests
    <3>2. m.intra \in Nat /\ m.length \in Nat
      BY <3>1 DEF Member
    <3>3. QED
      BY <2>2, <2>3, <3>1, <3>2 DEF Payload
  <2>7. QED
    BY <2>1, <2>2, <2>3, <2>4, <2>5, <2>6
<1>6. QED
  BY <1>3, <1>4, <1>5 DEF Step

\* Request i is placed, every other one stays where it was.
LEMMA StepPlaces ==
  ASSUME CoalesceInv, NEW i \in 1..Count, Step(i)
  PROVE  EachRequestOnce'
<1> USE DEF CoalesceInv
<1>1. At(i) /\ Advance
  BY DEF Step, PassThrough, OpenWindow, Fuse, Split
<1> DEFINE fs == Emitted(fused, cur)
<1>2. /\ fs \in Seq(FusedRead) /\ Len(fs) \in Nat
      /\ \A w, n : (w \in 1..Len(fs) /\ n \in fs[w].members)
                     <=> (w \in Positions /\ n \in MembersAt(w))
  BY EmittedPlaces
<1>3. fused \in Seq(FusedRead) /\ Len(fused) \in Nat
  BY DEF TypeOK
<1> DEFINE own == [idx |-> i, intra |-> 0, length |-> ranges[i].length]
<1>4. own.idx = i
  OBVIOUS
<1>5. CASE PassThrough(i)
  <2>1. fused' = Append(fs, Window(Opened(i))) /\ cur'.members = {}
        /\ Window(Opened(i)) \in FusedRead /\ Window(Opened(i)).members = {own}
    BY <1>1, <1>5, OpenedWindow DEF PassThrough, Closed
  <2>2. /\ Len(fused') = Len(fs) + 1
        /\ \A w \in 1..Len(fs) : fused'[w] = fs[w]
        /\ fused'[Len(fs) + 1] = Window(Opened(i))
    BY <1>2, <2>1
  <2>3. Gains(Len(fs) + 1, own)
    <3> SUFFICES ASSUME NEW w, NEW n
                 PROVE  (w \in Positions' /\ n \in MembersAt(w)')
                    <=> \/ w \in 1..Len(fs) /\ n \in fs[w].members
                        \/ w = Len(fs) + 1 /\ n = own
      BY <1>2 DEF Gains
    <3>1. Positions' = 1..(Len(fs) + 2)
      BY <1>2, <2>2 DEF Positions
    <3>2. MembersAt(w)' = IF w = Len(fs) + 2 THEN {} ELSE fused'[w].members
      <4>1. Len(fused') + 1 = Len(fs) + 2
        BY <1>2, <2>2
      <4>2. MembersAt(w)' = IF w = Len(fused') + 1 THEN cur'.members ELSE fused'[w].members
        BY DEF MembersAt
      <4>3. QED
        BY <2>1, <4>1, <4>2
    <3>3. QED
      BY <1>2, <2>1, <2>2, <3>1, <3>2
  <2> HIDE DEF own
  <2>4. QED
    BY <1>1, <1>4, <2>3, PlacedOnce
<1>6. CASE OpenWindow(i) \/ Split(i)
  <2>1. fused' = fs /\ cur'.members = {own}
    BY <1>1, <1>6, OpenedWindow DEF OpenWindow, Split, Emitted
  <2>2. Gains(Len(fs) + 1, own)
    <3> SUFFICES ASSUME NEW w, NEW n
                 PROVE  (w \in Positions' /\ n \in MembersAt(w)')
                    <=> \/ w \in 1..Len(fs) /\ n \in fs[w].members
                        \/ w = Len(fs) + 1 /\ n = own
      BY <1>2 DEF Gains
    <3>1. QED
      BY <1>2, <2>1 DEF Positions, MembersAt
  <2> HIDE DEF own
  <2>3. QED
    BY <1>1, <1>4, <2>2, PlacedOnce
<1>7. CASE Fuse(i)
  <2> DEFINE new == [idx |-> i, intra |-> ranges[i].offset - cur.offset,
                     length |-> ranges[i].length]
  <2>1. fused' = fused /\ cur'.members = cur.members \cup {new}
    BY <1>7 DEF Fuse, Grown, TypeOK, CurWindow
  <2>2. Gains(Len(fused) + 1, new)
    BY <1>3, <2>1 DEF Gains, Positions, MembersAt
  <2>3. new.idx = i
    OBVIOUS
  <2> HIDE DEF new
  <2>4. QED
    BY <1>1, <2>2, <2>3, PlacedOnce
<1>8. QED
  BY <1>5, <1>6, <1>7 DEF Step

LEMMA StepPreserves ==
  ASSUME CoalesceInv, NEW i \in 1..Count, Step(i)
  PROVE  CoalesceInv'
<1> USE DEF CoalesceInv
<1>1. At(i) /\ Advance /\ Count' = Count
  BY DEF Step, PassThrough, OpenWindow, Fuse, Split, Advance, Count
<1>2. pc' # "done"
  BY <1>1 DEF At, Advance
<1>3. OpenInv'
  BY <1>1, <1>2, StepWindows, StepOpen DEF OpenInv, AheadOf, Advance, Closed
<1>4. SlicesAreRequests'
  BY <1>1, StepWindows, StepOpen DEF SlicesAreRequests, MembersOf, GoodWindow, Payload, Advance
<1>5. FusedCapKept' /\ SortedByOffset'
  BY StepWindows DEF FusedCapKept, SortedByOffset, GoodWindow, MembersOf
<1>6. QED
  BY <1>3, <1>4, <1>5, StepTypes, StepPlaces

LEMMA FinishPreserves ==
  ASSUME CoalesceInv, Finish
  PROVE  CoalesceInv'
<1> USE DEF CoalesceInv
<1> DEFINE fs == Emitted(fused, cur)
<1>1. fused' = fs /\ cur' = Closed /\ UNCHANGED <<ranges, indexed, k>> /\ pc' = "done"
      /\ Count' = Count /\ k = Count + 1
  BY DEF Finish, TypeOK, Count
<1>2. /\ fs \in Seq(FusedRead)
      /\ \A w \in DOMAIN fs : GoodWindow(fs[w]) /\ AheadOf(fs[w].offset)
      /\ \A v, w \in DOMAIN fs : v < w => fs[v].offset <= fs[w].offset
  BY EmittedGood
<1>3. TypeOK' /\ Sorted(indexed)'
  BY <1>1, <1>2 DEF TypeOK, Sorted, Before, Closed, CurWindow, Count
<1>4. OpenInv'
  BY <1>1, <1>2 DEF OpenInv, Closed, AheadOf
<1>5. SlicesAreRequests' /\ FusedCapKept' /\ SortedByOffset'
  BY <1>1, <1>2 DEF SlicesAreRequests, FusedCapKept, SortedByOffset, GoodWindow,
                    MembersOf, Payload, Closed
<1>6. EachRequestOnce'
  <2>1. /\ Len(fs) \in Nat
        /\ \A w, n : (w \in 1..Len(fs) /\ n \in fs[w].members)
                       <=> (w \in Positions /\ n \in MembersAt(w))
    BY EmittedPlaces
  <2>2. \A w, n : (w \in Positions' /\ n \in MembersAt(w)')
                    <=> (w \in Positions /\ n \in MembersAt(w))
    <3> SUFFICES ASSUME NEW w, NEW n
                 PROVE  (w \in Positions' /\ n \in MembersAt(w)')
                          <=> (w \in 1..Len(fs) /\ n \in fs[w].members)
      BY <2>1
    <3>1. QED
      BY <1>1, <2>1 DEF Positions, MembersAt, Closed
  <2>3. Passed' = Passed
    BY <1>1 DEF Passed
  <2>4. QED
    BY <2>2, <2>3 DEF EachRequestOnce
<1>7. QED
  BY <1>3, <1>4, <1>5, <1>6

-----------------------------------------------------------------------------
(* Theorems *)

LEMMA InitCoalesce == Init => CoalesceInv
<1> SUFFICES ASSUME Init PROVE CoalesceInv
  OBVIOUS
<1>1. ranges \in Seq(AnyRange) /\ Count \in Nat
  <2>1. PICK n \in 0..MaxCount : ranges \in [1..n -> ByteRange]
    BY DEF Init
  <2>2. ByteRange \subseteq AnyRange /\ n \in Nat
    <3>1. \A o \in Offsets : o \in Nat
      BY RangesAssumption
    <3>2. \A l \in Lengths : l \in Nat
      BY RangesAssumption
    <3>3. ASSUME NEW r \in ByteRange PROVE r \in AnyRange
      BY <3>1, <3>2 DEF ByteRange, AnyRange
    <3>4. QED
      BY <3>3, CountAssumption
  <2>3. ranges \in [1..n -> AnyRange]
    BY <2>1, <2>2
  <2>4. QED
    BY <2>2, <2>3 DEF Count
<1>2. TypeOK /\ Sorted(indexed)
  BY <1>1 DEF Init, TypeOK, Closed, CurWindow
<1>3. fused = <<>> /\ cur = Closed /\ k = 1 /\ pc = "loop"
  BY DEF Init
<1>4. Passed = {} /\ \A w \in Positions : MembersAt(w) = {}
  BY <1>3 DEF Passed, Positions, MembersAt, Closed
<1>5. EachRequestOnce
  BY <1>4 DEF EachRequestOnce
<1>6. QED
  BY <1>2, <1>3, <1>5 DEF CoalesceInv, OpenInv, Closed, SlicesAreRequests, FusedCapKept,
                          SortedByOffset

LEMMA CoalesceInvariant == Spec => []CoalesceInv
<1>1. Init => CoalesceInv
  BY InitCoalesce
<1>2. CoalesceInv /\ [Next]_vars => CoalesceInv'
  <2> SUFFICES ASSUME CoalesceInv, [Next]_vars PROVE CoalesceInv'
    OBVIOUS
  <2>1. CASE Next
    BY <2>1, StepPreserves, FinishPreserves DEF Next
  <2>2. CASE UNCHANGED vars
    BY <2>2 DEF vars, CoalesceInv, TypeOK, Sorted, Before, OpenInv, AheadOf, EachRequestOnce,
       Positions, MembersAt, Passed, SlicesAreRequests, Payload, MembersOf, FusedCapKept,
       SortedByOffset, Count, Closed
  <2>3. QED
    BY <2>1, <2>2
<1>3. QED
  BY <1>1, <1>2, PTL DEF Spec

\* No request is lost or read twice, for every argument.
THEOREM RequestsArePlacedOnce == Spec => []EachRequestOnce
  BY CoalesceInvariant, PTL DEF CoalesceInv

\* A caller that slices a fused read gets the bytes of its request.
THEOREM SlicesAreCorrect == Spec => []SlicesAreRequests
  BY CoalesceInvariant, PTL DEF CoalesceInv

\* Fusion never makes a read longer than the cap.
THEOREM CapIsRespected == Spec => []FusedCapKept
  BY CoalesceInvariant, PTL DEF CoalesceInv

\* The windows come out sorted by offset.
THEOREM WindowsAreSorted == Spec => []SortedByOffset
  BY CoalesceInvariant, PTL DEF CoalesceInv

-----------------------------------------------------------------------------
(* The gap, and that the fusion is greedy *)

\* A member of a window starts it, or no farther than MaxGap behind another.
Near(members, m) ==
  \/ m.intra = 0
  \/ \E n \in members : n.intra + n.length + MaxGap >= m.intra /\ Before(n.idx, m.idx)

\* A window ends where one of its members does.
GapInv ==
  /\ GapsBounded
  /\ \A m \in cur.members : Near(cur.members, m)
  /\ cur.open => \E n \in cur.members : cur.offset + n.intra + n.length = cur.end

\* What keeps a window of members at offset from joining the window f before it.
Alone(f) == f.length = 0 \/ f.length > MaxFused
Kept(f, offset, members) ==
  \/ Alone(f)
  \/ offset > f.offset + f.length + MaxGap
  \/ \E m \in members : /\ m.intra = 0
       /\ Bigger(f.offset + f.length, offset + m.length) - f.offset > MaxFused

KeptPairs(fs) ==
  \A w \in 1..(Len(fs) - 1) :
    Alone(fs[w + 1]) \/ Kept(fs[w], fs[w + 1].offset, fs[w + 1].members)

\* A window that no other is open behind holds one request that cannot be fused.
GreedyInv ==
  /\ KeptPairs(fused)
  /\ cur.open /\ fused # <<>> => Kept(fused[Len(fused)], cur.offset, cur.members)
  /\ ~cur.open /\ fused # <<>> /\ pc = "loop" => Alone(fused[Len(fused)])

LEMMA GrownWindow ==
  ASSUME CoalesceInv, NEW i \in 1..Count, Fuse(i)
  PROVE  LET new == [idx |-> i, intra |-> ranges[i].offset - cur.offset,
                     length |-> ranges[i].length]
         IN  /\ cur'.open /\ cur'.offset = cur.offset /\ cur'.members = cur.members \cup {new}
             /\ cur'.end = CandidateEnd(cur, i)
             /\ cur.offset \in Nat /\ cur.end \in Nat
             /\ ranges[i].offset \in Nat /\ ranges[i].length \in Nat
             /\ fused' = fused
  BY RequestAtHand DEF Fuse, Grown, TypeOK, CurWindow, CoalesceInv

\* An open window is emitted behind the others.
EmittedOpen ==
  LET fs == Emitted(fused, cur)
  IN  /\ Len(fs) = Len(fused) + 1 /\ fs[Len(fused) + 1] = Window(cur)
      /\ \A w \in 1..Len(fused) : fs[w] = fused[w]
LEMMA OpenIsEmitted ==
  ASSUME CoalesceInv, cur.open
  PROVE  EmittedOpen
<1>1. Window(cur) \in FusedRead
  BY DEF CoalesceInv, TypeOK, OpenInv, CurWindow, Window, FusedRead
<1>2. QED
  BY <1>1 DEF Emitted, EmittedOpen, CoalesceInv, TypeOK

\* What _emit makes of the windows, the last of them.
LEMMA EmittedNear ==
  ASSUME CoalesceInv, GapInv
  PROVE  LET fs == Emitted(fused, cur)
         IN  \A w \in 1..Len(fs) : \A m \in fs[w].members : Near(fs[w].members, m)
<1> DEFINE fs == Emitted(fused, cur)
<1>1. fs \in Seq(FusedRead) /\ fused \in Seq(FusedRead) /\ Len(fs) \in Nat
  BY EmittedPlaces DEF CoalesceInv, TypeOK
<1>2. CASE ~cur.open
  BY <1>1, <1>2 DEF Emitted, GapInv, GapsBounded, MembersOf, Near
<1>3. CASE cur.open
  <2>1. Window(cur).members = cur.members
    BY DEF Window
  <2>2. EmittedOpen
    BY <1>3, OpenIsEmitted
  <2>3. \A w \in 1..Len(fused) : \A m \in fused[w].members : Near(fused[w].members, m)
    BY <1>1 DEF GapInv, GapsBounded, MembersOf, Near
  <2>4. \A w \in 1..Len(fs) : w \in 1..Len(fused) \/ w = Len(fused) + 1
    BY <1>1, <2>2 DEF EmittedOpen
  <2>5. QED
    BY <1>1, <2>1, <2>2, <2>3, <2>4 DEF GapInv, EmittedOpen
<1>4. QED
  BY <1>2, <1>3

LEMMA StepKeepsGaps ==
  ASSUME CoalesceInv, GapInv, NEW i \in 1..Count, Step(i)
  PROVE  GapInv'
<1>1. At(i) /\ Advance /\ TypeOK /\ Sorted(indexed)
  BY DEF Step, PassThrough, OpenWindow, Fuse, Split, CoalesceInv
<1>2. \A j, l : Before(j, l)' <=> Before(j, l)
  BY <1>1 DEF Advance, Before
<1> DEFINE fs == Emitted(fused, cur)
<1>3. /\ fs \in Seq(FusedRead) /\ Len(fs) \in Nat /\ fused \in Seq(FusedRead)
      /\ \A w \in 1..Len(fs) : \A m \in fs[w].members : Near(fs[w].members, m)
  BY EmittedPlaces, EmittedNear DEF CoalesceInv, TypeOK
<1>4. /\ \A m \in Opened(i).members : m.intra = 0
      /\ \E n \in Opened(i).members : Opened(i).offset + n.intra + n.length = Opened(i).end
  <2> DEFINE own == [idx |-> i, intra |-> 0, length |-> ranges[i].length]
  <2>1. /\ Opened(i).members = {own} /\ Opened(i).offset = ranges[i].offset
        /\ Opened(i).end = ranges[i].offset + ranges[i].length
        /\ ranges[i].offset \in Nat /\ ranges[i].length \in Nat
    BY <1>1, OpenedWindow, RequestAtHand
  <2>2. own.intra = 0 /\ own.length = ranges[i].length
    OBVIOUS
  <2> HIDE DEF own
  <2>3. QED
    BY <2>1, <2>2
<1>5. CASE PassThrough(i)
  <2>1. fused' = Append(fs, Window(Opened(i))) /\ cur' = Closed
        /\ Window(Opened(i)) \in FusedRead /\ Window(Opened(i)).members = Opened(i).members
    BY <1>1, <1>5, OpenedWindow DEF PassThrough
  <2>2. /\ DOMAIN fused' = 1..(Len(fs) + 1)
        /\ \A w \in 1..Len(fs) : fused'[w] = fs[w]
        /\ fused'[Len(fs) + 1] = Window(Opened(i))
    BY <1>3, <2>1
  <2>3. \A w \in DOMAIN fused' : w \in 1..Len(fs) \/ w = Len(fs) + 1
    BY <1>3, <2>2
  <2>4. \A w \in DOMAIN fused' : \A m \in fused'[w].members : Near(fused'[w].members, m)
    BY <1>3, <1>4, <2>1, <2>2, <2>3 DEF Near
  <2>5. GapsBounded'
    BY <1>2, <2>4 DEF GapsBounded, MembersOf, Near
  <2>6. QED
    BY <2>1, <2>5 DEF GapInv, Closed
<1>6. CASE OpenWindow(i) \/ Split(i)
  <2>1. fused' = fs /\ cur' = Opened(i)
    BY <1>6 DEF OpenWindow, Split, Emitted
  <2>2. GapsBounded'
    BY <1>2, <1>3, <2>1 DEF GapsBounded, MembersOf, Near
  <2>3. QED
    BY <1>4, <2>1, <2>2 DEF GapInv, Near
<1>7. CASE Fuse(i)
  <2> DEFINE new == [idx |-> i, intra |-> ranges[i].offset - cur.offset,
                     length |-> ranges[i].length]
  <2>1. /\ cur'.open /\ cur'.offset = cur.offset /\ cur'.members = cur.members \cup {new}
        /\ cur'.end = CandidateEnd(cur, i)
        /\ cur.offset \in Nat /\ cur.end \in Nat /\ MaxGap \in Nat
        /\ ranges[i].offset \in Nat /\ ranges[i].length \in Nat
        /\ fused' = fused
    BY <1>7, GrownWindow, LimitsAssumption
  <2>2. PICK n \in cur.members : cur.offset + n.intra + n.length = cur.end
    BY <1>7 DEF Fuse, GapInv
  <2>3. n.intra \in Nat /\ n.length \in Nat /\ n.idx \in Passed
    <3>1. n \in Member
      BY <1>1, <2>2 DEF TypeOK, CurWindow
    <3>2. n \in MembersAt(Len(fused) + 1) /\ Len(fused) + 1 \in Positions
      BY <1>3, <2>2 DEF MembersAt, Positions
    <3>3. QED
      BY <3>1, <3>2 DEF Member, CoalesceInv, EachRequestOnce
  <2>4. Before(n.idx, i)
    <3>1. PICK j \in 1..(k - 1) : n.idx = indexed[j]
      BY <2>3 DEF Passed
    <3>2. k \in 1..Count /\ i = indexed[k] /\ Count \in Nat
      BY <1>1, RequestAtHand
    <3>3. QED
      BY <1>1, <3>1, <3>2 DEF Sorted
  <2>5. ranges[i].offset <= cur.end + MaxGap
    BY <1>7 DEF Fuse, Fits
  <2>6. Near(cur.members \cup {new}, new)
    <3>1. n.intra + n.length + MaxGap >= ranges[i].offset - cur.offset
      BY <2>1, <2>2, <2>3, <2>5
    <3>2. QED
      BY <2>4, <3>1 DEF Near
  <2>7. \A m \in cur.members : Near(cur.members \cup {new}, m)
    BY DEF GapInv, Near
  <2>8. \E p \in cur.members \cup {new} : cur.offset + p.intra + p.length = CandidateEnd(cur, i)
    <3>1. CASE CandidateEnd(cur, i) = cur.end
      BY <2>2, <3>1
    <3>2. CASE CandidateEnd(cur, i) = ranges[i].offset + ranges[i].length
      <4>1. new.intra = ranges[i].offset - cur.offset /\ new.length = ranges[i].length
        OBVIOUS
      <4>2. cur.offset + new.intra + new.length = ranges[i].offset + ranges[i].length
        BY <2>1, <4>1
      <4>3. QED
        BY <3>2, <4>2
    <3>3. QED
      BY <3>1, <3>2 DEF CandidateEnd, Bigger, End
  <2> HIDE DEF new
  <2>9. GapsBounded'
    BY <1>2, <2>1 DEF GapInv, GapsBounded, MembersOf
  <2>10. (\A m \in cur.members : Near(cur.members, m))'
    BY <1>2, <2>1, <2>6, <2>7 DEF Near
  <2>11. QED
    BY <2>1, <2>8, <2>9, <2>10 DEF GapInv
<1>8. QED
  BY <1>5, <1>6, <1>7 DEF Step

LEMMA FinishKeepsGaps ==
  ASSUME CoalesceInv, GapInv, Finish
  PROVE  GapInv'
<1> DEFINE fs == Emitted(fused, cur)
<1>1. fused' = fs /\ cur' = Closed /\ ranges' = ranges
  BY DEF Finish
<1>2. \A w \in 1..Len(fs) : \A m \in fs[w].members : Near(fs[w].members, m)
  BY EmittedNear
<1>3. fs \in Seq(FusedRead)
  BY EmittedPlaces DEF CoalesceInv
<1>4. QED
  BY <1>1, <1>2, <1>3 DEF GapInv, GapsBounded, MembersOf, Near, Before, Closed

LEMMA EmittedKept ==
  ASSUME CoalesceInv, GreedyInv
  PROVE  KeptPairs(Emitted(fused, cur))
<1> DEFINE fs == Emitted(fused, cur)
<1>1. fused \in Seq(FusedRead) /\ Len(fused) \in Nat
  BY DEF CoalesceInv, TypeOK
<1>2. CASE ~cur.open
  BY <1>2 DEF Emitted, GreedyInv
<1>3. CASE cur.open
  <2>1. /\ Len(fs) = Len(fused) + 1 /\ fs[Len(fused) + 1] = Window(cur)
        /\ \A w \in 1..Len(fused) : fs[w] = fused[w]
        /\ Window(cur).offset = cur.offset /\ Window(cur).members = cur.members
    BY <1>3, OpenIsEmitted DEF EmittedOpen, Window
  <2> SUFFICES ASSUME NEW w \in 1..(Len(fs) - 1)
               PROVE  Alone(fs[w + 1]) \/ Kept(fs[w], fs[w + 1].offset, fs[w + 1].members)
    BY DEF KeptPairs
  <2>2. CASE w = Len(fused)
    <3>1. fused # <<>> /\ fs[w] = fused[Len(fused)] /\ fs[w + 1] = Window(cur)
      BY <1>1, <2>1, <2>2
    <3>2. QED
      BY <1>3, <2>1, <3>1 DEF GreedyInv
  <2>3. CASE w # Len(fused)
    <3>1. /\ w \in 1..(Len(fused) - 1)
          /\ fs[w] = fused[w] /\ fs[w + 1] = fused[w + 1]
      BY <1>1, <2>1, <2>3
    <3>2. QED
      BY <3>1 DEF GreedyInv, KeptPairs
  <2>4. QED
    BY <2>2, <2>3
<1>4. QED
  BY <1>2, <1>3

LEMMA StepKeepsGreedy ==
  ASSUME CoalesceInv, GreedyInv, NEW i \in 1..Count, Step(i)
  PROVE  GreedyInv'
<1>1. /\ At(i) /\ Advance /\ TypeOK /\ Sorted(indexed)
      /\ fused \in Seq(FusedRead) /\ Len(fused) \in Nat
  BY DEF Step, PassThrough, OpenWindow, Fuse, Split, CoalesceInv, TypeOK
<1> DEFINE fs == Emitted(fused, cur)
<1>2. /\ fs \in Seq(FusedRead) /\ Len(fs) \in Nat /\ KeptPairs(fs)
  BY EmittedKept, EmittedPlaces DEF CoalesceInv
<1>3. CASE PassThrough(i)
  <2>1. /\ fused' = Append(fs, Window(Opened(i))) /\ cur' = Closed
        /\ Window(Opened(i)) \in FusedRead /\ Alone(Window(Opened(i)))
    BY <1>1, <1>3, OpenedWindow DEF PassThrough, Alone
  <2>2. /\ Len(fused') = Len(fs) + 1
        /\ \A w \in 1..Len(fs) : fused'[w] = fs[w]
        /\ fused'[Len(fs) + 1] = Window(Opened(i))
    BY <1>2, <2>1
  <2>3. ASSUME NEW w \in 1..(Len(fused') - 1)
        PROVE  Alone(fused'[w + 1]) \/ Kept(fused'[w], fused'[w + 1].offset, fused'[w + 1].members)
    <3>1. CASE w = Len(fs)
      BY <2>1, <2>2, <3>1
    <3>2. CASE w # Len(fs)
      <4>1. /\ w \in 1..(Len(fs) - 1)
            /\ fused'[w] = fs[w] /\ fused'[w + 1] = fs[w + 1]
        BY <1>2, <2>2, <3>2
      <4>2. QED
        BY <1>2, <4>1 DEF KeptPairs
    <3>3. QED
      BY <3>1, <3>2
  <2>4. KeptPairs(fused')
    BY <2>3 DEF KeptPairs
  <2>5. QED
    BY <2>1, <2>2, <2>4 DEF GreedyInv, Closed, KeptPairs, Alone, Kept
<1>4. CASE OpenWindow(i)
  <2>1. fused' = fused /\ cur' = Opened(i) /\ cur'.open /\ pc = "loop" /\ ~cur.open
    BY <1>1, <1>4, OpenedWindow DEF OpenWindow, At
  <2>2. QED
    BY <2>1 DEF GreedyInv, KeptPairs, Alone, Kept
<1>5. CASE Fuse(i)
  <2>1. /\ fused' = fused /\ cur.open /\ cur'.open /\ cur'.offset = cur.offset
        /\ cur.members \subseteq cur'.members
    BY <1>5, GrownWindow DEF Fuse
  <2>2. QED
    BY <2>1 DEF GreedyInv, KeptPairs, Alone, Kept
<1>6. CASE Split(i)
  <2> DEFINE own == [idx |-> i, intra |-> 0, length |-> ranges[i].length]
  <2>1. /\ fused' = fs /\ cur' = Opened(i) /\ cur.open /\ ~Fits(cur, i) /\ cur'.open
        /\ Opened(i).offset = ranges[i].offset /\ Opened(i).members = {own}
        /\ ranges[i].offset \in Nat /\ ranges[i].length \in Nat
        /\ cur.offset \in Nat /\ cur.end \in Nat
    BY <1>1, <1>6, OpenedWindow, RequestAtHand DEF Split, TypeOK, CurWindow
  <2>2. /\ fs[Len(fs)] = Window(cur) /\ Window(cur).offset = cur.offset
        /\ Window(cur).length = cur.end - cur.offset
    BY <1>1, <2>1, OpenIsEmitted DEF EmittedOpen, Window
  <2>3. Window(cur).offset + Window(cur).length = cur.end
    BY <2>1, <2>2
  <2>4. \/ ranges[i].offset > cur.end + MaxGap
        \/ Bigger(cur.end, ranges[i].offset + ranges[i].length) - cur.offset > MaxFused
    <3>1. \/ ~(ranges[i].offset <= cur.end + MaxGap)
          \/ ~(Bigger(cur.end, ranges[i].offset + ranges[i].length) - cur.offset <= MaxFused)
      BY <2>1 DEF Fits, CandidateEnd, End
    <3>2. Bigger(cur.end, ranges[i].offset + ranges[i].length) \in Nat
      BY <2>1 DEF Bigger
    <3>3. QED
      BY <2>1, <3>1, <3>2, LimitsAssumption
  <2>5. own.intra = 0 /\ own.length = ranges[i].length
    OBVIOUS
  <2> HIDE DEF own
  <2>6. Kept(Window(cur), ranges[i].offset, {own})
    BY <2>2, <2>3, <2>4, <2>5 DEF Kept
  <2>7. QED
    BY <1>2, <2>1, <2>2, <2>6 DEF GreedyInv, KeptPairs, Alone, Kept
<1>7. QED
  BY <1>3, <1>4, <1>5, <1>6 DEF Step

LEMMA GapsAndGreed == Spec => [](GapInv /\ GreedyInv)
<1>1. Init => GapInv /\ GreedyInv
  <2> SUFFICES ASSUME Init PROVE GapInv /\ GreedyInv
    OBVIOUS
  <2>1. fused = <<>> /\ cur = Closed
    BY DEF Init
  <2>2. QED
    BY <2>1 DEF GapInv, GapsBounded, GreedyInv, KeptPairs, Closed
<1>2. CoalesceInv /\ GapInv /\ GreedyInv /\ [Next]_vars => GapInv' /\ GreedyInv'
  <2> SUFFICES ASSUME CoalesceInv, GapInv, GreedyInv, [Next]_vars PROVE GapInv' /\ GreedyInv'
    OBVIOUS
  <2>1. CASE \E i \in 1..Count : Step(i)
    BY <2>1, StepKeepsGaps, StepKeepsGreedy
  <2>2. CASE Finish
    <3>1. fused' = Emitted(fused, cur) /\ cur' = Closed /\ pc' = "done"
      BY <2>2 DEF Finish
    <3>2. GreedyInv'
      BY <3>1, EmittedKept DEF GreedyInv, KeptPairs, Kept, Alone, Closed
    <3>3. QED
      BY <2>2, <3>2, FinishKeepsGaps
  <2>3. CASE UNCHANGED vars
    BY <2>3 DEF vars, GapInv, GapsBounded, MembersOf, Near, Before, GreedyInv, KeptPairs, Kept, Alone
  <2>4. QED
    BY <2>1, <2>2, <2>3 DEF Next
<1>3. QED
  BY <1>1, <1>2, CoalesceInvariant, PTL DEF Spec

\* No read spans more than max_gap_bytes that nobody asked for.
THEOREM GapsAreBounded == Spec => []GapsBounded
  BY GapsAndGreed, PTL DEF GapInv

\* Two neighbouring windows were kept apart by the cap or the gap.
THEOREM FusionIsGreedy == Spec => []NoMissedFusion
<1>1. CoalesceInv /\ GreedyInv => NoMissedFusion
  <2> SUFFICES ASSUME CoalesceInv, GreedyInv, NEW w \in 1..(Len(fused) - 1)
               PROVE  \/ FusedAlone(w) \/ FusedAlone(w + 1)
                      \/ fused[w + 1].offset > fused[w].offset + fused[w].length + MaxGap
                      \/ \E m \in MembersOf(w + 1) : /\ m.intra = 0
                           /\ Bigger(fused[w].offset + fused[w].length,
                                     fused[w + 1].offset + m.length) - fused[w].offset > MaxFused
    BY DEF NoMissedFusion
  <2>1. QED
    BY DEF GreedyInv, KeptPairs, Kept, Alone, FusedAlone, MembersOf
<1>2. QED
  BY <1>1, CoalesceInvariant, GapsAndGreed, PTL


\* The buffer that the gather returned for a window with bytes is put back at it.
LEMMA MaterializedIsGot ==
  ASSUME Len(fused) \in Nat, NEW w \in DOMAIN fused, DOMAIN fused = 1..Len(fused),
         fused[w].length > 0
  PROVE  Materialized(w) = got[w]
<1>1. w \in WithBytes /\ w \in 1..Len(fused)
  BY DEF WithBytes
<1>2. NonEmpty[Rank(WithBytes, w)] = w /\ Rank(WithBytes, w) \in DOMAIN NonEmpty
  BY <1>1, InOrderRanks DEF NonEmpty
<1>3. fused[w].length # 0
  OBVIOUS
<1>4. Cardinality({v \in 1..w : v \in WithBytes}) = Rank(WithBytes, w)
  BY DEF Rank, MembersUpto
<1>5. QED
  BY <1>2, <1>3, <1>4 DEF Materialized, Gathered

-----------------------------------------------------------------------------
(* The shard's size, and slices of a slice *)

LEMMA LargestEndIsNatural ==
  ASSUME Count \in Nat, ranges \in Seq(AnyRange)
  PROVE  Largest({0} \cup {End(ranges[i]) : i \in 1..Count}) \in Nat
<1> DEFINE Ends(n) == {0} \cup {End(ranges[i]) : i \in 1..n}
           T == {n \in Nat : n <= Count => \E a \in Ends(n) : a \in Nat /\ \A b \in Ends(n) : b <= a}
<1>1. \A i \in 1..Count : End(ranges[i]) \in Nat
  <2>1. \A i \in 1..Count : ranges[i] \in AnyRange
    BY DEF Count
  <2>2. QED
    BY <2>1 DEF AnyRange, End
<1>2. 0 \in T
  OBVIOUS
<1>3. ASSUME NEW n \in Nat, n \in T PROVE n + 1 \in T
  <2> SUFFICES ASSUME n + 1 <= Count
               PROVE  \E a \in Ends(n + 1) : a \in Nat /\ \A b \in Ends(n + 1) : b <= a
    OBVIOUS
  <2>1. PICK a \in Ends(n) : a \in Nat /\ \A b \in Ends(n) : b <= a
    BY <1>3
  <2>2. Ends(n + 1) = Ends(n) \cup {End(ranges[n + 1])}
    OBVIOUS
  <2>3. End(ranges[n + 1]) \in Nat
    BY <1>1
  <2> HIDE DEF Ends
  <2>4. \A b \in Ends(n) : b \in Nat
    <3>1. Ends(n) \subseteq {0} \cup {End(ranges[i]) : i \in 1..Count}
      BY DEF Ends
    <3>2. QED
      BY <3>1, <1>1
  <2>5. CASE a <= End(ranges[n + 1])
    BY <2>1, <2>2, <2>3, <2>4, <2>5
  <2>6. CASE ~(a <= End(ranges[n + 1]))
    BY <2>1, <2>2, <2>3, <2>4, <2>6
  <2>7. QED
    BY <2>5, <2>6
<1>4. Nat \subseteq T
  BY <1>2, <1>3, NatSetInduction
<1>5. PICK a \in Ends(Count) : a \in Nat /\ \A b \in Ends(Count) : b <= a
  <2> HIDE DEF T
  <2>1. Count \in T
    BY <1>4
  <2>2. Count <= Count
    OBVIOUS
  <2>3. QED
    BY <2>1, <2>2 DEF T
<1> HIDE DEF Ends
<1>6. Largest(Ends(Count)) \in Ends(Count)
  BY <1>5 DEF Largest
<1>7. QED
  BY <1>6, <1>1 DEF Ends

LEMMA ClipNatural ==
  ASSUME NEW total \in Nat, NEW o \in Nat, NEW n \in Nat
  PROVE  Clip(total, o, n) \in Nat
BY DEF Clip

\* A slice that lies inside a slice is the slice of the whole.
LEMMA ClipOfClip ==
  ASSUME NEW total \in Nat, NEW o \in Nat, NEW n \in Nat, NEW i \in Nat, NEW l \in Nat,
         i + l <= n
  PROVE  Clip(Clip(total, o, n), i, l) = Clip(total, o + i, l)
<1>1. CASE o >= total
  BY <1>1 DEF Clip
<1>2. CASE o < total /\ n < total - o
  BY <1>2 DEF Clip
<1>3. CASE o < total /\ ~(n < total - o)
  BY <1>3 DEF Clip
<1>4. QED
  BY <1>1, <1>2, <1>3

-----------------------------------------------------------------------------
(* The invariant of the fetch *)

FetchTypes ==
  /\ size \in [{1, 2} -> Nat]
  /\ seen \subseteq {0, 1, 2} /\ disk \in seen
  /\ stage \in {"index", "coalesce", "none", "answered"}

\* Window w was answered from one of the files seen, or by none.
Answered(w) ==
  /\ pc = "done" /\ w \in DOMAIN fused /\ fused[w].length > 0
  /\ \/ got[w] = None /\ 0 \in seen
     \/ \E f \in seen \ {0} : got[w] = Slice(f, fused[w].offset, fused[w].length)

FetchInv ==
  /\ FetchTypes
  /\ \A w \in DOMAIN got : Answered(w)
  /\ stage = "none" => 0 \in seen
  /\ ChunksGetTheirBytes
  /\ FilledOnlyIfAbsent

\* What the proofs use of Coalesce's invariant.
LEMMA WindowFacts ==
  ASSUME CoalesceInv
  PROVE  /\ Len(fused) \in Nat /\ DOMAIN fused = 1..Len(fused) /\ Count \in Nat
         /\ \A w \in DOMAIN fused : fused[w] \in FusedRead
         /\ \A i \in 1..Count : ranges[i].offset \in Nat /\ ranges[i].length \in Nat
         /\ \A w \in DOMAIN fused : \A m \in MembersOf(w) :
              /\ m.idx \in 1..Count /\ m.intra \in Nat
              /\ fused[w].offset + m.intra = ranges[m.idx].offset
              /\ m.length = ranges[m.idx].length
              /\ m.intra + m.length <= fused[w].length
<1>1. /\ Len(fused) \in Nat /\ DOMAIN fused = 1..Len(fused) /\ Count \in Nat
      /\ \A w \in DOMAIN fused : fused[w] \in FusedRead
  BY DEF CoalesceInv, TypeOK, Count
<1>2. \A i \in 1..Count : ranges[i].offset \in Nat /\ ranges[i].length \in Nat
  <2>1. \A i \in 1..Count : ranges[i] \in AnyRange
    BY DEF CoalesceInv, TypeOK, Count
  <2>2. QED
    BY <2>1 DEF AnyRange
<1>3. ASSUME NEW w \in DOMAIN fused, NEW m \in MembersOf(w)
      PROVE  /\ m.idx \in 1..Count /\ m.intra \in Nat
             /\ fused[w].offset + m.intra = ranges[m.idx].offset
             /\ m.length = ranges[m.idx].length
             /\ m.intra + m.length <= fused[w].length
  <2>1. m \in Member /\ fused[w].offset \in Nat /\ fused[w].length \in Nat
    BY <1>1 DEF FusedRead, MembersOf
  <2>2. m.idx \in Nat /\ m.intra \in Nat /\ m.length \in Nat
    BY <2>1 DEF Member
  <2>3. w \in Positions /\ m \in MembersAt(w)
    BY <1>1 DEF Positions, MembersAt, MembersOf
  <2>4. m.idx \in Passed
    BY <2>3 DEF CoalesceInv, EachRequestOnce
  <2>5. m.idx \in 1..Count
    <3>1. indexed \in [1..Count -> 1..Count] /\ k \in 1..(Count + 1) /\ Count \in Nat
      BY <1>1 DEF CoalesceInv, TypeOK
    <3>2. PICK j \in 1..(k - 1) : m.idx = indexed[j]
      BY <2>4 DEF Passed
    <3>3. j \in 1..Count
      BY <3>1
    <3>4. QED
      BY <3>1, <3>2, <3>3
  <2>6. Payload(fused[w].offset, fused[w].offset + fused[w].length, m)
    BY DEF CoalesceInv, SlicesAreRequests
  <2>7. QED
    BY <2>1, <2>2, <2>5, <2>6 DEF Payload
<1>4. QED
  BY <1>1, <1>2, <1>3

\* When the loop is done every request is a member of a window.
LEMMA AllPlaced ==
  ASSUME CoalesceInv, pc = "done", NEW i \in 1..Count
  PROVE  \E w \in DOMAIN fused : \E m \in MembersOf(w) : m.idx = i
<1>1. Count \in Nat /\ k = Count + 1 /\ ~cur.open /\ indexed \in [1..Count -> 1..Count]
  BY DEF CoalesceInv, OpenInv, TypeOK, Count
<1>2. cur = Closed
  BY <1>1 DEF CoalesceInv, OpenInv
<1>3. indexed \in Injection(1..Count, 1..Count)
  <2>1. ASSUME NEW a \in 1..Count, NEW b \in 1..Count, a < b PROVE indexed[a] # indexed[b]
    <3>1. Before(indexed[a], indexed[b])
      BY <2>1 DEF CoalesceInv, Sorted
    <3>2. indexed[a] \in Nat /\ ranges[indexed[a]].offset \in Nat
      BY <1>1, WindowFacts
    <3>3. QED
      BY <3>1, <3>2 DEF Before
  <2>2. \A a, b \in 1..Count : a # b => indexed[a] # indexed[b]
    BY <2>1, <1>1
  <2>3. QED
    BY <1>1, <2>2 DEF Injection, IsInjective
<1>4. indexed \in Surjection(1..Count, 1..Count)
  BY <1>1, <1>3, FS_Injection, FS_Interval
<1>5. i \in Passed
  <2>1. PICK j \in 1..Count : indexed[j] = i
    BY <1>4 DEF Surjection
  <2>2. j \in 1..(k - 1)
    BY <1>1
  <2>3. QED
    BY <2>1, <2>2 DEF Passed
<1>6. PICK w \in Positions : \E m \in MembersAt(w) : m.idx = i
  BY <1>5 DEF CoalesceInv, EachRequestOnce
<1>7. w # Len(fused) + 1
  BY <1>2, <1>6 DEF MembersAt, Closed
<1>8. QED
  BY <1>6, <1>7, WindowFacts DEF Positions, MembersAt, MembersOf

\* A get's buffer is a buffer, so not None.
LEMMA SliceIsBuffer ==
  ASSUME FetchTypes, NEW f \in {1, 2}, NEW o \in Nat, NEW n \in Nat
  PROVE  Slice(f, o, n) \in Buffer /\ Slice(f, o, n) # None
<1>1. size[f] \in Nat
  BY DEF FetchTypes
<1>2. Clip(size[f], o, n) \in Nat
  BY <1>1, ClipNatural
<1>3. Slice(f, o, n) \in Buffer
  BY <1>2 DEF Slice, Buffer
<1>4. QED
  BY <1>3, NoneAssumption

-----------------------------------------------------------------------------
(* The steps *)

LEMMA FetchInitHolds == FetchInit => FetchInv
<1> SUFFICES ASSUME FetchInit PROVE FetchInv
  OBVIOUS
<1>1. Count \in Nat /\ ranges \in Seq(AnyRange)
  BY InitCoalesce DEF FetchInit, CoalesceInv, TypeOK, Count
<1>2. size \in [{1, 2} -> Nat]
  <2>1. Largest({0} \cup {End(ranges[i]) : i \in 1..Count}) \in Nat
    BY <1>1, LargestEndIsNatural
  <2>2. QED
    BY <2>1 DEF FetchInit
<1>3. FetchTypes
  BY <1>2 DEF FetchInit, FetchTypes
<1>4. DOMAIN got = {}
  BY DEF FetchInit
<1>5. ChunksGetTheirBytes /\ FilledOnlyIfAbsent
  BY DEF FetchInit, ChunksGetTheirBytes, FilledOnlyIfAbsent
<1>6. QED
  BY <1>3, <1>4, <1>5 DEF FetchInit, FetchInv

LEMMA GetKeeps ==
  ASSUME CoalesceInv, FetchInv, NEW w \in DOMAIN fused, Get(w)
  PROVE  FetchInv'
<1>1. /\ UNCHANGED <<ranges, pc, fused, disk, size, stage, dict, seen>>
      /\ pc = "done" /\ stage = "coalesce" /\ fused[w].length > 0
      /\ got' = [v \in DOMAIN got \cup {w} |->
                   IF v = w THEN IF disk = 0 THEN None
                                 ELSE Slice(disk, fused[w].offset, fused[w].length)
                            ELSE got[v]]
  BY DEF Get, Gathering, vars
<1>2. /\ DOMAIN got' = DOMAIN got \cup {w} /\ \A v \in DOMAIN got : v # w => got'[v] = got[v]
      /\ got'[w] = IF disk = 0 THEN None ELSE Slice(disk, fused[w].offset, fused[w].length)
  BY <1>1
<1>3. ASSUME NEW v \in DOMAIN got' PROVE Answered(v)'
  <2>1. \A f, o, n : Slice(f, o, n)' = Slice(f, o, n)'
    OBVIOUS
  <2>2. disk \in seen
    BY DEF FetchInv, FetchTypes
  <2>3. CASE v = w
    BY <1>1, <1>2, <2>2, <2>3 DEF Answered, Slice
  <2>4. CASE v # w
    <3>1. Answered(v)
      BY <1>2, <2>4 DEF FetchInv
    <3>2. QED
      BY <1>1, <1>2, <2>4, <3>1 DEF Answered, Slice
  <2>5. QED
    BY <2>3, <2>4
<1>4. FilledOnlyIfAbsent'
  <2>1. disk \in seen /\ disk \in {0, 1, 2} /\ fused[w] \in FusedRead
    BY WindowFacts DEF FetchInv, FetchTypes
  <2>2. ASSUME disk # 0 PROVE got'[w] # None
    <3>1. disk \in {1, 2} /\ fused[w].offset \in Nat /\ fused[w].length \in Nat
      BY <2>1, <2>2 DEF FusedRead
    <3>2. Slice(disk, fused[w].offset, fused[w].length) # None
      BY <3>1, SliceIsBuffer DEF FetchInv
    <3>3. QED
      BY <1>2, <2>2, <3>2
  <2>3. 0 \notin seen => \A v \in DOMAIN got' : got'[v] # None
    BY <1>2, <2>1, <2>2 DEF FetchInv, FilledOnlyIfAbsent
  <2>4. QED
    BY <1>1, <2>3 DEF FetchInv, FilledOnlyIfAbsent
<1>5. QED
  BY <1>1, <1>3, <1>4 DEF FetchInv, FetchTypes, ChunksGetTheirBytes

\* A chunk assembled from window w is the slice of the file that window is from.
LEMMA SlicedChunk ==
  ASSUME CoalesceInv, FetchInv, NEW c \in Sliced,
         \A w \in DOMAIN fused : fused[w].length > 0 => w \in DOMAIN got
  PROVE  \E f \in seen \ {0} :
           SubSlice(Materialized(c.w), c.m.intra, c.m.length)
             = Slice(f, ranges[c.m.idx].offset, ranges[c.m.idx].length)
<1>1. c.w \in DOMAIN fused /\ Materialized(c.w) # None /\ c.m \in MembersOf(c.w)
  BY DEF Sliced, Chunks
<1> DEFINE w == c.w
           m == c.m
<1>2. fused[w].length > 0
  <2>1. fused[w].length \in Nat /\ fused[w].length # 0
    BY <1>1, WindowFacts DEF FusedRead, Materialized
  <2>2. QED
    BY <2>1
<1>3. Materialized(w) = got[w]
  BY <1>1, <1>2, WindowFacts, MaterializedIsGot
<1>4. Answered(w)
  BY <1>1, <1>2 DEF FetchInv
<1>5. PICK f \in seen \ {0} : got[w] = Slice(f, fused[w].offset, fused[w].length)
  BY <1>1, <1>3, <1>4 DEF Answered
<1>6. /\ m.intra \in Nat /\ m.length \in Nat /\ fused[w].offset \in Nat /\ fused[w].length \in Nat
      /\ fused[w].offset + m.intra = ranges[m.idx].offset
      /\ m.length = ranges[m.idx].length
      /\ m.intra + m.length <= fused[w].length
      /\ size[f] \in Nat
  BY <1>1, WindowFacts DEF FusedRead, FetchInv, FetchTypes
<1> HIDE DEF w, m
<1>7. Clip(Clip(size[f], fused[w].offset, fused[w].length), m.intra, m.length)
        = Clip(size[f], fused[w].offset + m.intra, m.length)
  BY <1>6, ClipOfClip
<1>8. SubSlice(got[w], m.intra, m.length)
        = [file |-> f, from |-> fused[w].offset + m.intra,
           length |-> Clip(Clip(size[f], fused[w].offset, fused[w].length), m.intra, m.length)]
  <2>1. got[w] = [file |-> f, from |-> fused[w].offset,
                  length |-> Clip(size[f], fused[w].offset, fused[w].length)]
    BY <1>5 DEF Slice
  <2>2. ASSUME NEW n, NEW b, b = [file |-> f, from |-> fused[w].offset, length |-> n]
        PROVE  SubSlice(b, m.intra, m.length)
                 = [file |-> f, from |-> fused[w].offset + m.intra,
                    length |-> Clip(n, m.intra, m.length)]
    <3>1. SubSlice(b, m.intra, m.length)
            = [[b EXCEPT !.from = b.from + m.intra] EXCEPT !.length = Clip(b.length, m.intra, m.length)]
      BY <2>2, Zenon DEF SubSlice
    <3>2. QED
      BY <2>2, <3>1
  <2>3. QED
    BY <2>1, <2>2
<1>9. SubSlice(got[w], m.intra, m.length) = Slice(f, ranges[m.idx].offset, ranges[m.idx].length)
  BY <1>6, <1>7, <1>8 DEF Slice
<1>10. QED
  BY <1>3, <1>9 DEF w, m

LEMMA AssembleKeeps ==
  ASSUME CoalesceInv, FetchInv, Assemble
  PROVE  FetchInv'
<1>1. /\ UNCHANGED <<ranges, pc, fused, disk, size, got, seen>>
      /\ pc = "done" /\ stage' = "answered"
      /\ \A w \in DOMAIN fused : fused[w].length > 0 => w \in DOMAIN got
      /\ dict' = [i \in {c.m.idx : c \in Sliced} |->
                    LET c == CHOOSE c \in Sliced : c.m.idx = i
                    IN  SubSlice(Materialized(c.w), c.m.intra, c.m.length)]
  BY DEF Assemble, Gathering, vars
<1>2. DOMAIN dict' = {c.m.idx : c \in Sliced}
  BY <1>1
<1>3. ChunksGetTheirBytes'
  <2>1. ASSUME NEW i \in DOMAIN dict'
        PROVE  \E f \in seen \ {0} : dict'[i] = Slice(f, ranges[i].offset, ranges[i].length)
    <3> DEFINE c == CHOOSE c \in Sliced : c.m.idx = i
    <3>1. c \in Sliced /\ c.m.idx = i
      BY <1>2
    <3>2. dict'[i] = SubSlice(Materialized(c.w), c.m.intra, c.m.length)
      BY <1>1, <1>2
    <3> HIDE DEF c
    <3>3. QED
      BY <1>1, <3>1, <3>2, SlicedChunk
  <2>2. \A f, o, n : Slice(f, o, n) = [file |-> f, from |-> o, length |-> Clip(size[f], o, n)]
    BY DEF Slice
  <2>3. \A i \in DOMAIN dict' :
          \E f \in seen \ {0} : dict'[i] = [file |-> f, from |-> ranges[i].offset,
                                    length |-> Clip(size[f], ranges[i].offset, ranges[i].length)]
    BY <2>1, <2>2
  <2>4. ranges' = ranges /\ size' = size /\ seen' = seen
    BY <1>1
  <2>5. QED
    BY <2>3, <2>4, Zenon DEF ChunksGetTheirBytes, Slice
<1>4. FilledOnlyIfAbsent'
  <2>1. ASSUME NEW i \in 1..Count, ranges[i].length > 0
        PROVE  \/ \E c \in Sliced : c.m.idx = i
               \/ \E w \in DOMAIN got : got[w] = None /\ \E m \in MembersOf(w) : m.idx = i
    <3>1. PICK w \in DOMAIN fused : \E m \in MembersOf(w) : m.idx = i
      BY <1>1, AllPlaced
    <3>2. PICK m \in MembersOf(w) : m.idx = i
      BY <3>1
    <3>3. fused[w].length > 0
      <4>1. m.length > 0 /\ m.intra \in Nat /\ m.length \in Nat /\ fused[w].length \in Nat
            /\ m.intra + m.length <= fused[w].length
        BY <2>1, <3>2, WindowFacts DEF FusedRead
      <4>2. QED
        BY <4>1
    <3>4. w \in DOMAIN got
      BY <1>1, <3>3
    <3>5. CASE got[w] = None
      BY <3>2, <3>4, <3>5
    <3>6. CASE got[w] # None
      <4>1. Materialized(w) # None
        BY <3>3, <3>6, MaterializedIsGot, WindowFacts
      <4>2. [w |-> w, m |-> m] \in Sliced
        BY <3>2, <4>1 DEF Sliced, Chunks
      <4>3. QED
        BY <3>2, <4>2
    <3>7. QED
      BY <3>5, <3>6
  <2>2. \A i \in 1..Count : ranges[i].length > 0 =>
          \/ i \in DOMAIN dict'
          \/ \E w \in DOMAIN got : got[w] = None /\ \E m \in MembersOf(w) : m.idx = i
    BY <1>2, <2>1
  <2>3. 0 \notin seen => \A w \in DOMAIN got : got[w] # None
    BY DEF FetchInv, FilledOnlyIfAbsent
  <2>4. QED
    BY <1>1, <2>2, <2>3 DEF FilledOnlyIfAbsent, Count, MembersOf
<1>5. \A w \in DOMAIN got' : Answered(w)'
  BY <1>1 DEF FetchInv, Answered, Slice
<1>6. QED
  BY <1>1, <1>3, <1>4, <1>5 DEF FetchInv, FetchTypes

\* The file a get was answered from is not the one a writer replaces the shard by.
LEMMA ReplaceKeeps ==
  ASSUME FetchInv, Replace
  PROVE  FetchInv'
<1>1. /\ UNCHANGED <<ranges, pc, fused, stage, got, dict>> /\ stage = "coalesce"
      /\ 2 \notin seen /\ disk' = 2 /\ seen' = seen \cup {2}
  BY DEF Replace, Gathering, vars
<1>2. PICK n \in Sizes : size' = [size EXCEPT ![2] = n]
  BY DEF Replace
<1>3. FetchTypes'
  BY <1>1, <1>2, SizesAssumption DEF FetchInv, FetchTypes
<1>4. \A f \in seen : size'[f] = size[f]
  BY <1>1, <1>2 DEF FetchInv, FetchTypes
<1>5. ASSUME NEW w \in DOMAIN got' PROVE Answered(w)'
  <2>1. Answered(w)
    BY <1>1 DEF FetchInv
  <2>2. QED
    BY <1>1, <1>4, <2>1 DEF Answered, Slice
<1>6. QED
  BY <1>1, <1>3, <1>5 DEF FetchInv, ChunksGetTheirBytes, FilledOnlyIfAbsent

LEMMA FetchKeeps ==
  ASSUME CoalesceInv, FetchInv, [FetchNext]_<<vars, fetchVars>>
  PROVE  FetchInv'
<1>1. CASE LoadIndex
  <2>1. UNCHANGED <<ranges, pc, fused, disk, size, got, dict, seen>>
        /\ stage' = IF disk = 0 THEN "none" ELSE "coalesce"
    BY <1>1 DEF LoadIndex, vars
  <2>2. QED
    BY <2>1 DEF FetchInv, FetchTypes, Answered, Slice, ChunksGetTheirBytes,
                FilledOnlyIfAbsent
<1>2. CASE LoadFullShard
  <2>1. /\ UNCHANGED <<ranges, pc, fused, disk, size, got, seen>>
        /\ IF disk = 0
           THEN stage' = "none" /\ dict' = dict
           ELSE /\ stage' = "answered"
                /\ dict' = [i \in 1..Count |-> Slice(disk, ranges[i].offset, ranges[i].length)]
    BY <1>2 DEF LoadFullShard, vars
  <2>2. FetchTypes' /\ (\A w \in DOMAIN got' : Answered(w)') /\ (stage' = "none" => 0 \in seen')
    BY <2>1 DEF FetchInv, FetchTypes, Answered, Slice
  <2>3. ChunksGetTheirBytes'
    BY <2>1 DEF FetchInv, FetchTypes, ChunksGetTheirBytes, Slice
  <2>4. FilledOnlyIfAbsent'
    BY <2>1 DEF FetchInv, FetchTypes, FilledOnlyIfAbsent, Count
  <2>5. QED
    BY <2>2, <2>3, <2>4 DEF FetchInv
<1>3. CASE CoalesceStep
  <2>1. stage = "coalesce" /\ Next /\ UNCHANGED <<disk, size, stage, got, dict, seen>>
    BY <1>3 DEF CoalesceStep, fetchVars
  <2>2. pc # "done"
    BY <2>1 DEF Next, Step, PassThrough, OpenWindow, Fuse, Split, At, Finish
  <2>3. DOMAIN got = {}
    BY <2>2 DEF FetchInv, Answered
  <2>4. QED
    BY <2>1, <2>3 DEF FetchInv, FetchTypes, ChunksGetTheirBytes, FilledOnlyIfAbsent
<1>4. CASE \E w \in DOMAIN fused : Get(w)
  BY <1>4, GetKeeps
<1>5. CASE Assemble
  BY <1>5, AssembleKeeps
<1>6. CASE Delete
  <2>1. /\ UNCHANGED <<ranges, pc, fused, size, stage, got, dict>> /\ stage \in {"index", "coalesce"}
        /\ disk' = 0 /\ seen' = seen \cup {0}
    BY <1>6 DEF Delete, Exposed, Gathering, vars
  <2>2. \A w \in DOMAIN got' : Answered(w)'
    BY <2>1 DEF FetchInv, Answered, Slice
  <2>3. QED
    BY <2>1, <2>2 DEF FetchInv, FetchTypes, ChunksGetTheirBytes, FilledOnlyIfAbsent
<1>7. CASE Replace
  BY <1>7, ReplaceKeeps
<1>8. CASE UNCHANGED <<vars, fetchVars>>
  <2>1. UNCHANGED <<ranges, pc, fused, disk, size, stage, got, dict, seen>>
    BY <1>8 DEF vars, fetchVars
  <2>2. QED
    BY <2>1 DEF FetchInv, FetchTypes, Answered, Slice, ChunksGetTheirBytes,
                FilledOnlyIfAbsent, Count, MembersOf
<1>9. QED
  BY <1>1, <1>2, <1>3, <1>4, <1>5, <1>6, <1>7, <1>8 DEF FetchNext

\* The fetch runs the loop of coalesce_ranges unchanged.
LEMMA FetchIsCoalesce == FetchSpec => Spec
<1>1. FetchInit => Init
  BY DEF FetchInit
<1>2. [FetchNext]_<<vars, fetchVars>> => [Next]_vars
  BY DEF FetchNext, LoadIndex, LoadFullShard, CoalesceStep, Get, Assemble, Delete, Replace
<1>3. QED
  BY <1>1, <1>2, PTL DEF FetchSpec, Spec

LEMMA FetchInvariant == FetchSpec => []FetchInv
<1>1. FetchSpec => []CoalesceInv
  BY FetchIsCoalesce, CoalesceInvariant, PTL
<1>2. FetchInit => FetchInv
  BY FetchInitHolds
<1>3. CoalesceInv /\ FetchInv /\ [FetchNext]_<<vars, fetchVars>> => FetchInv'
  BY FetchKeeps
<1>4. QED
  BY <1>1, <1>2, <1>3, PTL DEF FetchSpec

\* In whatever order the gets of the gather are answered, and whatever a writer
\* does meanwhile, _decode_partial_single slices a chunk out of the window that
\* holds it: the bytes are those the index places there, of one shard file.
THEOREM ChunksAreTheirBytes == FetchSpec => []ChunksGetTheirBytes
  BY FetchInvariant, PTL DEF FetchInv

\* A chunk with bytes is left to the fill value only if the get of its own window
\* found the shard gone, or the whole shard was absent from the start.
THEOREM FillMeansAbsent == FetchSpec => []FilledOnlyIfAbsent
  BY FetchInvariant, PTL DEF FetchInv
===============================================================================
