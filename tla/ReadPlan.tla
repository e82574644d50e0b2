------------------------------- MODULE ReadPlan -------------------------------
(***************************************************************************)
(* The explicit read path: Array.retrieve_array_subset and retrieve_chunk  *)
(* of src/czarr/core/array.py through normalize_selection, selected_units  *)
(* and ranges (lowlevel/plan.py), read (lowlevel/io.py) and decode         *)
(* (lowlevel/decode.py) of one array without compression, whose files may  *)
(* be cut or removed after the plan was made.                              *)
(*                                                                         *)
(* Coordinates are sequences, one number per axis. A decode unit is a      *)
(* chunk, or an inner chunk of a shard; a byte is <<unit, k>>, the k-th    *)
(* byte of the encoded unit, and an element <<unit, where>>.               *)
(***************************************************************************)
EXTENDS Integers, Sequences, FiniteSets, FiniteSetsExt

CONSTANTS
  Cases,      \* [array, stores, selections]: arrays, what may be on disk, and indices
  ChunkBytes  \* chunk_nbytes: the bytes of every decode unit

ASSUME ChunkBytesAssumption == ChunkBytes \in Nat \ {0}

\* One extent per axis, none of a chunk empty.
IsArray(A) ==
  \E n \in {Len(A.shape)} :
    /\ n \in Nat
    /\ A.shape \in [1..n -> Nat] /\ A.inner \in [1..n -> Nat \ {0}]
    /\ A.per_shard \in [1..n -> Nat \ {0}]

\* An item of a selection: [kind |-> "int", i], [kind |-> "slice", start, stop]
\* with <<>> for None, or one of the other kinds alone. "outside" is none of
\* Python's: it stands for a chunk coordinate that _chunk_box refuses.
IsBound(b) == b \in Seq(Int) /\ Len(b) <= 1
IsItem(it) ==
  \/ it.kind = "int" /\ it.i \in Int
  \/ it.kind = "slice" /\ IsBound(it.start) /\ IsBound(it.stop)
  \/ it.kind \in {"ellipsis", "step", "newaxis", "bool", "array", "outside"}
IsSelection(s) == /\ Len(s) \in Nat /\ s = [k \in 1..Len(s) |-> s[k]]
                  /\ \A k \in 1..Len(s) : IsItem(s[k])

\* The file of a unit: its own when per_shard is 1 along each axis.
FileIn(A, u) == [a \in 1..Len(A.shape) |-> u[a] \div A.per_shard[a]]

\* The units of a file lie in it and do not overlap. Only a chunk with a file to
\* itself may be empty, because the file is.
Apart(e, d) == e.offset + e.nbytes <= d.offset \/ d.offset + d.nbytes <= e.offset
IsStore(A, s) ==
  /\ s.size \in [DOMAIN s.size -> Nat]
  /\ s.entry \in [DOMAIN s.entry -> [offset : Nat, nbytes : Nat]]
  /\ \A u \in DOMAIN s.entry :
       /\ u \in [1..Len(A.shape) -> Nat] /\ FileIn(A, u) \in DOMAIN s.size
       /\ s.entry[u].offset + s.entry[u].nbytes <= s.size[FileIn(A, u)]
       /\ s.entry[u].nbytes = 0 => \A a \in 1..Len(A.shape) : A.per_shard[a] = 1
  /\ \A u, v \in DOMAIN s.entry :
       u # v /\ FileIn(A, u) = FileIn(A, v) => Apart(s.entry[u], s.entry[v])

ASSUME CasesAssumption ==
  \A c \in Cases : /\ IsArray(c.array)
                   /\ \A s \in c.stores : IsStore(c.array, s)
                   /\ \A s \in c.selections : IsSelection(s)

VARIABLES
  array,     \* [shape, inner, per_shard]: extents, decode unit, units per shard
  store,     \* [size, entry]: file -> its bytes, unit -> where in its file it lies
  selection, \* the tuple of items it is indexed with
  bounds,   \* per axis <<start, stop>>
  requests, \* the coalesced reads
  left,     \* file -> its bytes now, -1 when it was removed
  buffers,  \* request -> the bytes read
  out,      \* the result: position -> element
  pc

vars == <<array, store, selection, bounds, requests, left, buffers, out, pc>>

Axes == 1..Len(array.shape)
CeilDiv(a, b) == -((-a) \div b)
AtMost(a, b) == IF a < b THEN a ELSE b
AtLeast(a, b) == IF a > b THEN a ELSE b

\* The integer points of a product of half-open ranges.
Span(r) == r[1]..(r[2] - 1)
Points(ranges) ==
  {p \in [DOMAIN ranges -> UNION {Span(ranges[i]) : i \in DOMAIN ranges}] :
     \A i \in DOMAIN ranges : p[i] \in Span(ranges[i])}

-----------------------------------------------------------------------------
(* normalize_selection *)

Full == [kind |-> "slice", start |-> <<>>, stop |-> <<>>]
Ellipses(items) == {k \in DOMAIN items : items[k].kind = "ellipsis"}
Fulls(n) == [k \in 1..n |-> Full]

\* The items padded to one per axis.
Expanded(items, ndim) ==
  IF Ellipses(items) = {} THEN items \o Fulls(ndim - Len(items))
  ELSE LET at == CHOOSE k \in Ellipses(items) : TRUE
       IN  SubSeq(items, 1, at - 1) \o Fulls(ndim - (Len(items) - 1))
             \o SubSeq(items, at + 1, Len(items))

TooMany(items, ndim) ==
  \/ Cardinality(Ellipses(items)) > 1
  \/ Len(items) - Cardinality(Ellipses(items)) > ndim

AxisError(it, dim) ==
  CASE it.kind \in {"bool", "array"} -> "TypeError"
    [] it.kind \in {"step", "newaxis"} -> "NotImplementedError"
    [] it.kind = "outside" -> "IndexError"
    [] it.kind = "int" -> IF it.i \in (-dim)..(dim - 1) THEN "none" ELSE "IndexError"
    [] it.kind = "slice" -> "none"

\* slice.indices: a bound counted from the end, and clamped to the axis.
NegativeIsZeroFault(v, dim) == IF v < 0 THEN 0 ELSE AtMost(v, dim)
Clamped(v, dim) == IF v < 0 THEN AtLeast(v + dim, 0) ELSE AtMost(v, dim)
AxisBounds(it, dim) ==
  IF it.kind = "int"
  THEN LET i == IF it.i < 0 THEN it.i + dim ELSE it.i IN <<i, i + 1>>
  ELSE LET start == IF it.start = <<>> THEN 0 ELSE Clamped(it.start[1], dim)
           stop  == IF it.stop = <<>> THEN dim ELSE Clamped(it.stop[1], dim)
       IN  <<start, AtLeast(start, stop)>>

Failed(error) == pc' = error /\ UNCHANGED <<array, store, selection>>

Normalize ==
  /\ pc = "start"
  /\ UNCHANGED <<requests, left, buffers, out>>
  /\ LET ndim == Len(array.shape)
     IN  IF TooMany(selection, ndim) THEN Failed("IndexError") /\ UNCHANGED bounds
         ELSE LET items == Expanded(selection, ndim)
                  bad == {a \in Axes : AxisError(items[a], array.shape[a]) # "none"}
              IN  IF bad # {}
                  THEN /\ Failed(AxisError(items[Min(bad)], array.shape[Min(bad)]))
                       /\ UNCHANGED bounds
                  ELSE /\ bounds' = [a \in Axes |-> AxisBounds(items[a], array.shape[a])]
                       /\ pc' = "plan"
                       /\ UNCHANGED <<array, store, selection>>

-----------------------------------------------------------------------------
(* The plan *)

\* selected_units
UnitsFloorFault(b) == Points([a \in Axes |->
  IF b[a][2] > b[a][1] THEN <<b[a][1] \div array.inner[a], b[a][2] \div array.inner[a]>>
                       ELSE <<0, 0>>])
Units(b) == Points([a \in Axes |->
  IF b[a][2] > b[a][1] THEN <<b[a][1] \div array.inner[a], CeilDiv(b[a][2], array.inner[a])>>
                       ELSE <<0, 0>>])

\* Where the units of file f lie: the entries of its index, or the file's size.
FileOf(u) == FileIn(array, u)
InFile(f) == {u \in DOMAIN store.entry : FileOf(u) = f}
OffsetOf(u) == store.entry[u].offset
UnitBytes(u) == store.entry[u].nbytes

Present(b) == {u \in Units(b) : u \in DOMAIN store.entry}
FilesOf(b) == {FileOf(u) : u \in Present(b)}

\* A fused read of neighbours in one file: coalesce_ranges decides which are
\* fused, and places each member as here.
Members(us, first) ==
  {[unit |-> u, intra |-> OffsetOf(u) - first, length |-> UnitBytes(u)] : u \in us}
Window(us) ==
  LET first == Min({OffsetOf(u) : u \in us})
      last  == Max({OffsetOf(u) + UnitBytes(u) : u \in us})
  IN  [file |-> FileOf(CHOOSE u \in us : TRUE), offset |-> first, nbytes |-> last - first,
       members |-> Members(us, first)]

\* The ways to fuse units of one file: each starts a window or joins the last.
Groups(us, starts) ==
  {{v \in us : \A s \in starts : OffsetOf(s) <= OffsetOf(u) <=> OffsetOf(s) <= OffsetOf(v)} :
     u \in us}

Plan ==
  /\ pc = "plan"
  /\ \E starts \in SUBSET Present(bounds) :
       requests' = UNION {{Window(g) : g \in Groups({u \in Present(bounds) : FileOf(u) = f}, starts)} :
                            f \in FilesOf(bounds)}
  /\ pc' = "read"
  /\ UNCHANGED <<array, store, selection, bounds, left, buffers, out>>

-----------------------------------------------------------------------------
(* The read *)

\* A file is cut or removed once the plan was made.
Cut == /\ pc = "read"
       /\ \E f \in DOMAIN left :
            /\ left[f] > 0
            /\ \E n \in {-1, left[f] - 1} : left' = [left EXCEPT ![f] = n]
       /\ UNCHANGED <<array, store, selection, bounds, requests, buffers, out, pc>>

Byte(f, p) ==
  LET here == {u \in InFile(f) : OffsetOf(u) < p /\ p <= OffsetOf(u) + UnitBytes(u)}
  IN  IF here = {} THEN <<"gap">>
      ELSE LET u == CHOOSE u \in here : TRUE IN <<u, p - OffsetOf(u)>>

\* FileNotFoundError, or the OSError of a short read.
AnyCountFault(r) == left[r.file] < 0
Unreadable(r) == left[r.file] < r.offset + r.nbytes

ReadFails ==
  /\ pc = "read"
  /\ \E r \in requests : Unreadable(r)
  /\ pc' = "OSError"
  /\ UNCHANGED <<array, store, selection, bounds, requests, left, buffers, out>>

Read ==
  /\ pc = "read"
  /\ \A r \in requests : ~Unreadable(r)
  /\ buffers' = [r \in requests |->
       [k \in 1..r.nbytes |-> IF r.offset + k <= left[r.file] THEN Byte(r.file, r.offset + k)
                              ELSE <<"uninitialised">>]]
  /\ pc' = "decode"
  /\ UNCHANGED <<array, store, selection, bounds, requests, left, out>>

-----------------------------------------------------------------------------
(* decode *)

Payloads == UNION {{[unit |-> m.unit,
                     bytes |-> SubSeq(buffers[r], m.intra + 1, m.intra + m.length)] :
                      m \in r.members} : r \in requests}
Whole(u) == [k \in 1..ChunkBytes |-> <<u, k>>]

\* The elements of a decoded chunk: wrong bytes make wrong elements.
Element(p, where) ==
  IF \E u \in DOMAIN store.entry : p.bytes = Whole(u)
  THEN <<CHOOSE u \in DOMAIN store.entry : p.bytes = Whole(u), where>> ELSE <<"wrong">>

\* _intersect along one axis: the source and destination slices.
Lo(u, a) == u[a] * array.inner[a]
Intersect(u, a) ==
  LET lo == AtLeast(Lo(u, a), bounds[a][1])
      hi == AtMost(Lo(u, a) + array.inner[a], bounds[a][2])
  IN  [src |-> <<lo - Lo(u, a), hi - Lo(u, a)>>, dst |-> <<lo - bounds[a][1], hi - bounds[a][1]>>]

OutPoints == Points([a \in Axes |-> <<0, bounds[a][2] - bounds[a][1]>>])

\* cp.empty, or filled when fewer units were read than selected.
FillIfNoneFault(n) == n = 0
NeedsFill(n) == n < Cardinality(Units(bounds))
Blank == IF NeedsFill(Cardinality(Payloads)) THEN <<"fill">> ELSE <<"uninitialised">>

DecodeFails ==
  /\ pc = "decode"
  /\ \E p \in Payloads : Len(p.bytes) # ChunkBytes
  /\ pc' = "ValueError"
  /\ UNCHANGED <<array, store, selection, bounds, requests, left, buffers, out>>

\* The payload whose destination slice holds position q, if there is one.
Writers(q) == {p \in Payloads : \A a \in Axes :
                 LET d == Intersect(p.unit, a).dst IN d[1] <= q[a] /\ q[a] < d[2]}
Decode ==
  /\ pc = "decode"
  /\ \A p \in Payloads : Len(p.bytes) = ChunkBytes
  /\ out' = [q \in OutPoints |->
       IF Writers(q) = {} THEN Blank
       ELSE LET p == CHOOSE p \in Writers(q) : TRUE
            IN  Element(p, [a \in Axes |-> LET i == Intersect(p.unit, a)
                                           IN  i.src[1] + q[a] - i.dst[1]])]
  /\ pc' = "done"
  /\ UNCHANGED <<array, store, selection, bounds, requests, left, buffers>>

-----------------------------------------------------------------------------
\* The chunks of the grid, and what retrieve_chunk may be asked for: one chunk past
\* each end of an axis stands for all that are out of range.
GridShape(A) == [a \in 1..Len(A.shape) |-> CeilDiv(A.shape[a], A.inner[a])]
GridPoints(A) == Points([a \in 1..Len(A.shape) |-> <<0, GridShape(A)[a]>>])
ChunkCoords(A) == Points([a \in 1..Len(A.shape) |-> <<-1, GridShape(A)[a] + 1>>])

\* _chunk_box: IndexError at the first coordinate out of range, else a slice per axis.
ChunkBox(A, c) == [a \in 1..Len(A.shape) |->
  IF c[a] \in 0..(GridShape(A)[a] - 1)
  THEN [kind |-> "slice", start |-> <<c[a] * A.inner[a]>>,
        stop |-> <<AtMost((c[a] + 1) * A.inner[a], A.shape[a])>>]
  ELSE [kind |-> "outside"]]

\* retrieve_encoded_chunk: None without a request, else the slice of the one
\* member of the one request; two of either would not unpack.
EncodedSlice(r, m) == SubSeq(buffers[r], m.intra + 1, m.intra + m.length)
Encoded ==
  /\ pc = "decode"
  /\ selection \in {ChunkBox(array, u) : u \in GridPoints(array)}
  /\ IF requests = {}
     THEN pc' = "encoded" /\ out' = <<"None">>
     ELSE IF \E r \in requests : requests = {r} /\ Cardinality(r.members) = 1
     THEN /\ pc' = "encoded"
          /\ out' = LET r == CHOOSE r \in requests : TRUE
                    IN  EncodedSlice(r, CHOOSE m \in r.members : TRUE)
     ELSE pc' = "ValueError" /\ UNCHANGED out
  /\ UNCHANGED <<array, store, selection, bounds, requests, left, buffers>>

Init ==
  /\ \E c \in Cases :
       /\ array = c.array
       /\ store \in c.stores
       /\ selection \in c.selections \cup {ChunkBox(array, u) : u \in ChunkCoords(array)}
  /\ bounds = <<>> /\ requests = {} /\ buffers = <<>> /\ out = <<>>
  /\ left = store.size
  /\ pc = "start"

Next == Normalize \/ Plan \/ Cut \/ ReadFails \/ Read \/ DecodeFails \/ Decode \/ Encoded

Spec == Init /\ [][Next]_vars

-----------------------------------------------------------------------------
(* Properties *)

Normalized == pc \notin {"start", "IndexError", "TypeError", "NotImplementedError"}

\* What the items mean in numpy's terms, said of single indices.
Meant(it, dim, i) ==
  LET pos(v) == IF v < 0 THEN v + dim ELSE v
  IN  IF it.kind = "int" THEN i = pos(it.i)
      ELSE /\ it.start = <<>> \/ i >= pos(it.start[1])
           /\ it.stop = <<>> \/ i < pos(it.stop[1])

\* normalize_selection keeps basic indexing's meaning: along each axis the
\* bounds hold exactly the indices the item means, however it is padded,
\* counted from the end or out of range.
BoundsMeanSelection ==
  Normalized =>
    \A a \in Axes : \A i \in 0..(array.shape[a] - 1) :
       (bounds[a][1] <= i /\ i < bounds[a][2])
          <=> Meant(Expanded(selection, Len(array.shape))[a], array.shape[a], i)

\* selected_units is exact: a unit is read when, and only when, it holds an
\* element of the selection; retrieve_encoded_chunk relies on its chunk box
\* to select one unit.
SelectsTouchedUnits ==
  Normalized =>
    Units(bounds) = {[a \in Axes |-> p[a] \div array.inner[a]] : p \in Points(bounds)}

\* The element of the array at position q of the result.
Reference(q) ==
  LET at == [a \in Axes |-> bounds[a][1] + q[a]]
      u  == [a \in Axes |-> at[a] \div array.inner[a]]
  IN  IF u \in DOMAIN store.entry THEN <<u, [a \in Axes |-> at[a] % array.inner[a]]>> ELSE <<"fill">>

\* A read returns the array's elements, fill values for missing chunks, and
\* nothing uninitialised or misplaced; an encoded chunk is the bytes stored for
\* it, or None.
ReadsAreExact ==
  /\ pc = "done" => out = [q \in OutPoints |-> Reference(q)]
  /\ pc = "encoded" =>
       \A u \in Units(bounds) :
         out = IF u \in DOMAIN store.entry THEN [k \in 1..UnitBytes(u) |-> <<u, k>>] ELSE <<"None">>

\* A read fails only when a file it needs is too short or was cut or removed
\* under it; then it never answers.
Damaged(u) == \/ UnitBytes(u) # ChunkBytes
              \/ left[FileOf(u)] < OffsetOf(u) + UnitBytes(u)
FailsWhenDamaged ==
  /\ pc \in {"OSError", "ValueError"} =>
       \/ \E r \in requests : left[r.file] < r.offset + r.nbytes
       \/ \E u \in Present(bounds) : UnitBytes(u) # ChunkBytes
  /\ pc = "done" => \A u \in Present(bounds) : ~Damaged(u)
=============================================================================
