------------------------------- MODULE Coalesce -------------------------------
(***************************************************************************)
(* coalesce_ranges of src/czarr/lowlevel/coalesce.py: byte ranges of one   *)
(* shard file are sorted by offset and fused greedily into fewer reads.    *)
(* One step per iteration of its loop.                                     *)
(***************************************************************************)
EXTENDS Naturals, Sequences

CONSTANTS
  Offsets,  \* offsets a request may have
  Lengths,  \* lengths a request may have; 0 is a placeholder
  MaxCount, \* bound: requests of one call
  MaxFused, \* max_fused_bytes
  MaxGap    \* max_gap_bytes

ASSUME RangesAssumption == Offsets \subseteq Nat /\ Lengths \subseteq Nat
ASSUME CountAssumption  == MaxCount \in Nat
\* The ValueErrors of the function's first lines.
ASSUME LimitsAssumption == MaxFused \in Nat \ {0} /\ MaxGap \in Nat

ByteRange == [offset : Offsets, length : Lengths]

VARIABLES
  ranges,  \* the argument
  indexed, \* the positions of ranges, sorted by offset and then by position
  k,       \* the next element of indexed
  cur,     \* the open window: cur_open, cur_offset, cur_end, cur_members
  fused,   \* the windows emitted so far
  pc

vars == <<ranges, indexed, k, cur, fused, pc>>

\* A member of a window: where the payload of request idx lies in the window.
Member == [idx : Nat, intra : Nat, length : Nat]
FusedRead == [offset : Nat, length : Nat, members : SUBSET Member]

Count == Len(ranges)
End(r) == r.offset + r.length
Before(i, j) == \/ ranges[i].offset < ranges[j].offset
                \/ ranges[i].offset = ranges[j].offset /\ i < j
Sorted(s) == \A a, b \in 1..Count : a < b => Before(s[a], s[b])

Closed == [open |-> FALSE, offset |-> 0, end |-> 0, members |-> {}]

\* A window that holds request i alone.
Opened(i) == [open |-> TRUE, offset |-> ranges[i].offset, end |-> End(ranges[i]),
              members |-> {[idx |-> i, intra |-> 0, length |-> ranges[i].length]}]

\* The window c after request i joined it.
Bigger(a, b) == IF a > b THEN a ELSE b
CandidateEnd(c, i) == Bigger(c.end, End(ranges[i]))
Grown(c, i) ==
  [c EXCEPT !.end = CandidateEnd(c, i),
            !.members = @ \cup {[idx |-> i, intra |-> ranges[i].offset - c.offset,
                                 length |-> ranges[i].length]}]

\* _emit: append the open window, if there is one.
Window(c) == [offset |-> c.offset, length |-> c.end - c.offset, members |-> c.members]
Emitted(fs, c) == IF c.open THEN Append(fs, Window(c)) ELSE fs

\* gap <= 0 (contiguous or overlapping) or gap <= max_gap_bytes, and the cap.
FitsAnyGapFault(c, i) == CandidateEnd(c, i) - c.offset <= MaxFused
FitsStrictFault(c, i) == /\ ranges[i].offset < c.end + MaxGap
                         /\ CandidateEnd(c, i) - c.offset <= MaxFused
Fits(c, i) == /\ ranges[i].offset <= c.end + MaxGap
              /\ CandidateEnd(c, i) - c.offset <= MaxFused

-----------------------------------------------------------------------------
Init ==
  /\ ranges \in UNION {[1..n -> ByteRange] : n \in 0..MaxCount}
  /\ indexed \in [1..Count -> 1..Count] /\ Sorted(indexed)
  /\ k = 1
  /\ cur = Closed
  /\ fused = <<>>
  /\ pc = "loop"

\* The loop body reaches element k of indexed, request i.
At(i) == pc = "loop" /\ k <= Count /\ i = indexed[k]
Advance == k' = k + 1 /\ UNCHANGED <<ranges, indexed, pc>>

\* Too long to fuse, or empty: flush, then a window of its own.
PassForgetsFault(i) ==
  /\ At(i)
  /\ ranges[i].length = 0 \/ ranges[i].length > MaxFused
  /\ fused' = Append(fused, Window(Opened(i)))
  /\ cur' = Closed
  /\ Advance
PassThrough(i) ==
  /\ At(i)
  /\ ranges[i].length = 0 \/ ranges[i].length > MaxFused
  /\ fused' = Append(Emitted(fused, cur), Window(Opened(i)))
  /\ cur' = Closed
  /\ Advance

Fusible(i) == ranges[i].length > 0 /\ ranges[i].length <= MaxFused

OpenWindow(i) ==
  /\ At(i) /\ Fusible(i) /\ ~cur.open
  /\ cur' = Opened(i)
  /\ fused' = fused
  /\ Advance

Fuse(i) ==
  /\ At(i) /\ Fusible(i) /\ cur.open /\ Fits(cur, i)
  /\ cur' = Grown(cur, i)
  /\ fused' = fused
  /\ Advance

Split(i) ==
  /\ At(i) /\ Fusible(i) /\ cur.open /\ ~Fits(cur, i)
  /\ fused' = Emitted(fused, cur)
  /\ cur' = Opened(i)
  /\ Advance

\* The last _emit, and return.
Finish ==
  /\ pc = "loop" /\ k > Count
  /\ fused' = Emitted(fused, cur)
  /\ cur' = Closed
  /\ pc' = "done"
  /\ UNCHANGED <<ranges, indexed, k>>

Step(i) == PassThrough(i) \/ OpenWindow(i) \/ Fuse(i) \/ Split(i)
Next == (\E i \in 1..Count : Step(i)) \/ Finish

Spec == Init /\ [][Next]_vars

-----------------------------------------------------------------------------
(* Properties *)

AnyRange == [offset : Nat, length : Nat]
CurWindow == [open : BOOLEAN, offset : Nat, end : Nat, members : SUBSET Member]

\* Every variable has its type.
TypeOK ==
  /\ ranges \in Seq(AnyRange)
  /\ indexed \in [1..Count -> 1..Count]
  /\ k \in 1..(Count + 1)
  /\ cur \in CurWindow
  /\ fused \in Seq(FusedRead)
  /\ pc \in {"loop", "done"}

\* The requests the loop has passed.
Passed == {indexed[j] : j \in 1..(k - 1)}
MembersOf(w) == fused[w].members

\* The windows emitted so far and, after them, the open one.
Positions == 1..(Len(fused) + 1)
MembersAt(w) == IF w = Len(fused) + 1 THEN cur.members ELSE fused[w].members

\* "every input request appears exactly once across all fused reads": at every
\* iteration each request passed so far is a member of exactly one window,
\* emitted or open, and no other request is a member of any.
EachRequestOnce ==
  /\ \A w \in Positions : \A m \in MembersAt(w) : m.idx \in Passed
  /\ \A i \in Passed : \E w \in Positions : \E m \in MembersAt(w) : m.idx = i
  /\ \A v, w \in Positions : \A m \in MembersAt(v), n \in MembersAt(w) :
        m.idx = n.idx => v = w /\ m = n

\* buffer[intra : intra + length] of a fused read is the request's payload: it
\* starts at the request's offset and lies inside the window.
Payload(offset, end, m) ==
  /\ offset + m.intra = ranges[m.idx].offset
  /\ m.length = ranges[m.idx].length
  /\ offset + m.intra + m.length <= end
SlicesAreRequests ==
  /\ \A w \in DOMAIN fused : \A m \in MembersOf(w) :
        Payload(fused[w].offset, fused[w].offset + fused[w].length, m)
  /\ \A m \in cur.members : Payload(cur.offset, cur.end, m)

\* "fusion never grows past it, never shrinks an individual request": a window
\* longer than max_fused_bytes holds one request.
FusedCapKept ==
  \A w \in DOMAIN fused :
     \/ fused[w].length <= MaxFused
     \/ \A m, n \in MembersOf(w) : m = n

\* No byte is read that is farther than max_gap_bytes from requested bytes: a
\* member that starts a window or starts at most MaxGap after an earlier one ends.
GapsBounded ==
  \A w \in DOMAIN fused : \A m \in MembersOf(w) :
     \/ m.intra = 0
     \/ \E n \in MembersOf(w) : /\ n.intra + n.length + MaxGap >= m.intra
                                /\ Before(n.idx, m.idx)

\* "Sorted by fused offset."
SortedByOffset ==
  \A v, w \in DOMAIN fused : v < w => fused[v].offset <= fused[w].offset

\* The fusion is greedy: two neighbouring windows stay apart only for the cap,
\* the gap, or because one of them is a placeholder or oversized.
FusedAlone(w) == fused[w].length = 0 \/ fused[w].length > MaxFused
NoMissedFusion ==
  pc = "done" =>
    \A w \in 1..(Len(fused) - 1) :
       \/ FusedAlone(w) \/ FusedAlone(w + 1)
       \/ fused[w + 1].offset > fused[w].offset + fused[w].length + MaxGap
       \/ \E m \in MembersOf(w + 1) : /\ m.intra = 0
            /\ Bigger(fused[w].offset + fused[w].length, fused[w + 1].offset + m.length)
                 - fused[w].offset > MaxFused
=============================================================================
