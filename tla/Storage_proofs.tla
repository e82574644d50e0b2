---------------------------- MODULE Storage_proofs ----------------------------
(***************************************************************************)
(* Proofs about GpuLocalStore and PlanCache, for every number of readers,  *)
(* writers, threads, roots and files and every cap: a get is a read of the *)
(* values its key held, and a plan is one of the files its root named.     *)
(***************************************************************************)
EXTENDS GpuLocalStore, PlanCache, FiniteSetTheorems, SequenceTheorems, TLAPS

-----------------------------------------------------------------------------
(* The store *)

GetCalls ==
       [pc : {"idle"}]
  \cup [pc : {"called"}, req : Requests]
  \cup [pc : {"open"}, req : Requests, offset : Nat, size : Nat]
  \cup [pc : {"read"}, req : Requests, offset : Nat, size : Nat, file : 1..MaxFiles, got : Seq(Nat)]
  \cup [pc : {"returned"}, req : Requests, offset : Nat, result : Seq(Nat) \cup {Missing}]
SetCalls ==
  [pc : {"idle"}] \cup [pc : {"write"}, file : 1..MaxFiles, value : Seq(Nat), done : Nat]

StoreTypeOK ==
  /\ dir \in Nat /\ files \in Nat /\ dir <= files /\ files <= MaxFiles
  /\ data \in [1..MaxFiles -> Seq(Nat)]
  /\ writer \in [Writers -> SetCalls]
  /\ stored \subseteq Seq(Nat) \cup {Missing} /\ mixed \in BOOLEAN
  /\ get \in [Readers -> GetCalls]
  /\ held = [r \in Readers |-> held[r]] /\ quiet \in [Readers -> BOOLEAN]

\* The sets that still write to a file.
To(f) == {w \in Writers : writer[w].pc = "write" /\ writer[w].file = f}

\* Byte b at place k is that of a value of V, or of a hole; so are all of a file.
From(V, k, b) == \/ mixed /\ b = 0
                 \/ \E v \in V \ {Missing} : k <= Len(v) /\ b = v[k]
FileFrom(f, V) == /\ \A k \in 1..Len(data[f]) : From(V, k, data[f][k])
                  /\ \A w \in To(f) : writer[w].value \in V

\* Sets that have not overlapped append to a file of their own.
WritersOK ==
  \A w \in Writers : writer[w].pc = "write" =>
    /\ writer[w].file <= files /\ writer[w].done <= Len(writer[w].value)
    /\ ~mixed => /\ Len(data[writer[w].file]) = writer[w].done
                 /\ \A u \in To(writer[w].file) : u = w

KeyOK == /\ dir = 0 => stored = {Missing}
         /\ dir # 0 => Missing \notin stored /\ FileFrom(dir, stored)

\* When the key can only hold v, what is missing of v is still to be written.
StoredWhole ==
  dir # 0 => \A v \in stored : stored = {v} =>
    /\ Len(data[dir]) <= Len(v)
    /\ \A k \in 1..Len(v) : \/ k <= Len(data[dir]) /\ data[dir][k] = v[k]
                            \/ \E u \in To(dir) : writer[u].done < k

\* What the call g of a reader that has seen the values h has read.
ReaderOK(g, h) ==
  /\ g.pc # "idle" => stored \subseteq h
  /\ g.pc = "read" => /\ g.file <= files /\ FileFrom(g.file, h)
                      /\ \A k \in 1..Len(g.got) : From(h, g.offset + k, g.got[k])
  /\ g.pc = "returned" =>
       IF g.result = Missing THEN Missing \in h
       ELSE \A k \in DOMAIN g.result : From(h, g.offset + k, g.result[k])

\* s is d from o on, n bytes at most; all of them that d has.
PartOf(s, o, n, d) == Len(s) <= n /\ \A i \in 1..Len(s) : o + i <= Len(d) /\ s[i] = d[o + i]
IsRead(s, o, n, d) == s \in Seq(Nat) /\ PartOf(s, o, n, d) /\ (Len(s) = n \/ o + Len(s) + 1 > Len(d))

\* A quiet call reads the file as it is.
QuietOK(g, q) ==
  q /\ g.pc # "idle" =>
    /\ \A w \in Writers : writer[w].pc = "idle"
    /\ g.pc \in {"open", "read"} => dir # 0 /\ <<g.offset, g.size>> = Resolve(g.req, Len(data[dir]))
    /\ g.pc = "read" => g.file = dir /\ PartOf(g.got, g.offset, g.size, data[dir])
    /\ g.pc = "returned" =>
         IF dir = 0 THEN g.result = Missing
         ELSE LET os == Resolve(g.req, Len(data[dir]))
              IN  IsRead(g.result, os[1], os[2], data[dir])

StoreInv ==
  /\ StoreTypeOK /\ WritersOK /\ KeyOK /\ StoredWhole
  /\ \A r \in Readers : ReaderOK(get[r], held[r]) /\ QuietOK(get[r], quiet[r])

-----------------------------------------------------------------------------
(* A byte range means the interval that it resolves to. *)

LEMMA ResolveTypes ==
  ASSUME NEW req \in Requests, NEW n \in Nat
  PROVE  \E o, s \in Nat :
           /\ Resolve(req, n) = <<o, s>>
           /\ \A i \in 1..n : InRange(req, n, i) <=> o < i /\ i <= o + s
<1>1. CASE req \in [kind : {"whole"}]
  <2>1. Resolve(req, n) = <<0, n>> /\ \A i : InRange(req, n, i)
    BY <1>1 DEF Resolve, InRange
  <2>2. QED
    BY <2>1
<1>2. CASE req \in [kind : {"range"}, start : 0..MaxBytes, end : 0..MaxBytes]
  <2>1. req.kind = "range" /\ req.start \in Nat /\ req.end \in Nat
    BY <1>2, BoundsAssumption
  <2>2. Resolve(req, n) = <<req.start, AtLeast0(req.end - req.start)>>
        /\ \A i : InRange(req, n, i) <=> req.start < i /\ i <= req.end
    BY <2>1 DEF Resolve, InRange
  <2>3. AtLeast0(req.end - req.start) \in Nat
        /\ \A i \in 1..n : req.start < i =>
              (i <= req.end <=> i <= req.start + AtLeast0(req.end - req.start))
    BY <2>1 DEF AtLeast0
  <2>4. QED
    BY <2>1, <2>2, <2>3
<1>3. CASE req \in [kind : {"offset"}, offset : 0..MaxBytes]
  <2>1. req.kind = "offset" /\ req.offset \in Nat
    BY <1>3, BoundsAssumption
  <2>2. Resolve(req, n) = <<req.offset, AtLeast0(n - req.offset)>>
        /\ \A i : InRange(req, n, i) <=> req.offset < i
    BY <2>1 DEF Resolve, InRange
  <2>3. AtLeast0(n - req.offset) \in Nat
        /\ \A i \in 1..n : req.offset < i => i <= req.offset + AtLeast0(n - req.offset)
    BY <2>1 DEF AtLeast0
  <2>4. QED
    BY <2>1, <2>2, <2>3
<1>4. CASE req \in [kind : {"suffix"}, suffix : 0..MaxBytes]
  <2>1. req.kind = "suffix" /\ req.suffix \in Nat
    BY <1>4, BoundsAssumption
  <2>2. Resolve(req, n) = <<AtLeast0(n - req.suffix), Lesser(req.suffix, n)>>
        /\ \A i : InRange(req, n, i) <=> i > n - req.suffix
    BY <2>1 DEF Resolve, InRange
  <2>3. AtLeast0(n - req.suffix) \in Nat /\ Lesser(req.suffix, n) \in Nat
        /\ \A i \in 1..n : i > n - req.suffix <=>
              AtLeast0(n - req.suffix) < i /\ i <= AtLeast0(n - req.suffix) + Lesser(req.suffix, n)
    BY <2>1 DEF AtLeast0, Lesser
  <2>4. QED
    BY <2>2, <2>3
<1>5. QED
  BY <1>1, <1>2, <1>3, <1>4 DEF Requests

\* The positions a range picks, counted.
LEMMA RequestedIsRead ==
  ASSUME NEW v \in Seq(Nat), NEW req \in Requests, NEW s,
         IsRead(s, Resolve(req, Len(v))[1], Resolve(req, Len(v))[2], v)
  PROVE  s = Requested(v, req)
<1>1. PICK n \in Nat : n = Len(v) /\ DOMAIN v = 1..n
  OBVIOUS
<1>2. PICK o, z \in Nat : /\ Resolve(req, n) = <<o, z>>
                          /\ \A i \in 1..n : InRange(req, n, i) <=> o < i /\ i <= o + z
  BY ResolveTypes
<1>3. IsRead(s, o, z, v)
  BY <1>1, <1>2
<1>4. PICK l \in Nat : l = Len(s)
  BY <1>3 DEF IsRead
<1>5. /\ s \in Seq(Nat) /\ l <= z /\ (\A i \in 1..l : o + i <= n /\ s[i] = v[o + i])
      /\ (l = z \/ o + l + 1 > n)
  BY <1>1, <1>3, <1>4 DEF IsRead, PartOf
<1>6. l > 0 => o + l <= n
  <2>1. l > 0 => l \in 1..l
    OBVIOUS
  <2>2. QED
    BY <1>5, <2>1
<1> DEFINE picked == {i \in 1..Len(v) : InRange(req, Len(v), i)}
<1>7. picked = (o + 1)..(o + l)
  <2>1. ASSUME NEW i \in 1..n PROVE InRange(req, n, i) <=> i \in (o + 1)..(o + l)
    BY <1>2, <1>5, <1>6
  <2>2. ASSUME NEW i \in (o + 1)..(o + l) PROVE i \in 1..n
    BY <1>6
  <2>3. QED
    BY <1>1, <2>1, <2>2
<1>8. ASSUME NEW j \in Int
      PROVE  Cardinality((o + 1)..j) = IF o + 1 > j THEN 0 ELSE j - o
  <2>1. o + 1 \in Int
    OBVIOUS
  <2>2. Cardinality((o + 1)..j) = IF o + 1 > j THEN 0 ELSE j - (o + 1) + 1
    BY <2>1, FS_Interval
  <2>3. QED
    BY <2>2
<1>9. Cardinality(picked) = l
  <2>1. Cardinality((o + 1)..(o + l)) = l
    BY <1>8
  <2>2. QED
    BY <1>7, <2>1
<1> DEFINE UpTo(j) == {m \in picked : m <= j}
<1>10. ASSUME NEW j \in picked
       PROVE  Cardinality(UpTo(j)) = j - o /\ j \in Int
  <2>1. j \in (o + 1)..(o + l)
    BY <1>7
  <2>2. UpTo(j) = (o + 1)..j
    BY <1>7, <2>1
  <2>3. Cardinality((o + 1)..j) = j - o
    BY <1>8, <2>1
  <2> HIDE DEF UpTo, picked
  <2>4. QED
    BY <2>1, <2>2, <2>3
<1> HIDE DEF picked, UpTo
<1>11. ASSUME NEW i \in 1..l
       PROVE  (CHOOSE j \in picked : Cardinality(UpTo(j)) = i) = o + i
  <2>1. o + i \in picked
    BY <1>7
  <2>2. Cardinality(UpTo(o + i)) = i
    BY <1>10, <2>1
  <2>3. ASSUME NEW j \in picked, Cardinality(UpTo(j)) = i PROVE j = o + i
    BY <1>10, <2>3
  <2>4. QED
    BY <2>1, <2>2, <2>3
<1>12. Requested(v, req) = [i \in 1..l |-> v[o + i]]
  <2>1. Requested(v, req)
          = [i \in 1..Cardinality(picked) |->
               v[CHOOSE j \in picked : Cardinality({m \in picked : m <= j}) = i]]
    BY DEF Requested, picked
  <2>2. \A i \in 1..l : (CHOOSE j \in picked : Cardinality({m \in picked : m <= j}) = i) = o + i
    BY <1>11 DEF UpTo
  <2>3. QED
    BY <1>9, <2>1, <2>2
<1>13. s = [i \in 1..l |-> s[i]]
  BY <1>4, <1>5
<1>14. QED
  BY <1>5, <1>12, <1>13

-----------------------------------------------------------------------------
(* A step of a reader *)

LEMMA GetShape ==
  ASSUME StoreTypeOK, NEW r \in Readers
  PROVE  /\ get[r].pc \in {"idle", "called", "open", "read", "returned"}
         /\ get[r].pc # "idle" => get[r].req \in Requests
         /\ get[r].pc = "open" => get[r].offset \in Nat /\ get[r].size \in Nat
         /\ get[r].pc = "read" =>
              get[r] \in [pc : {"read"}, req : Requests, offset : Nat, size : Nat,
                          file : 1..MaxFiles, got : Seq(Nat)]
         /\ get[r].pc = "returned" => get[r].result \in Seq(Nat) \cup {Missing}
BY DEF StoreTypeOK, GetCalls

LEMMA SetShape ==
  ASSUME StoreTypeOK, NEW w \in Writers
  PROVE  /\ writer[w].pc \in {"idle", "write"}
         /\ writer[w].pc = "write" =>
              writer[w] \in [pc : {"write"}, file : 1..MaxFiles, value : Seq(Nat), done : Nat]
BY DEF StoreTypeOK, SetCalls

LEMMA ReaderMoves ==
  ASSUME StoreInv, NEW r \in Readers, NEW g \in GetCalls, NEW h, NEW q \in BOOLEAN,
         UNCHANGED <<dir, data, files, writer, sets, stored, mixed>>,
         get' = [get EXCEPT ![r] = g], held' = [held EXCEPT ![r] = h],
         quiet' = [quiet EXCEPT ![r] = q], ReaderOK(g, h), QuietOK(g, q)
  PROVE  StoreInv'
<1>1. StoreTypeOK'
  BY DEF StoreInv, StoreTypeOK
<1>2. WritersOK' /\ KeyOK' /\ StoredWhole'
  BY DEF StoreInv, WritersOK, KeyOK, StoredWhole, To, FileFrom, From
<1>3. \A u \in Readers : /\ get'[u] = IF u = r THEN g ELSE get[u]
                         /\ held'[u] = IF u = r THEN h ELSE held[u]
                         /\ quiet'[u] = IF u = r THEN q ELSE quiet[u]
  BY DEF StoreInv, StoreTypeOK
<1>4. \A f, V : FileFrom(f, V)' <=> FileFrom(f, V)
  BY DEF FileFrom, From, To
<1>5. ASSUME NEW u \in Readers
      PROVE  ReaderOK(get'[u], held'[u]) /\ QuietOK(get'[u], quiet'[u])
  <2>1. CASE u = r
    BY <1>3, <2>1
  <2>2. CASE u # r
    BY <1>3, <2>2 DEF StoreInv
  <2>3. QED
    BY <2>1, <2>2
<1>6. ASSUME NEW u \in Readers PROVE ReaderOK(get[u], held[u])'
  BY <1>5 DEF ReaderOK, FileFrom, From, To
<1>7. ASSUME NEW u \in Readers PROVE QuietOK(get[u], quiet[u])'
  BY <1>5 DEF QuietOK
<1>8. QED
  BY <1>1, <1>2, <1>6, <1>7 DEF StoreInv

LEMMA GetUnchanged ==
  ASSUME StoreTypeOK
  PROVE  /\ UNCHANGED held => \A r \in Readers : held' = [held EXCEPT ![r] = held[r]]
         /\ UNCHANGED quiet => \A r \in Readers : quiet' = [quiet EXCEPT ![r] = quiet[r]]
         /\ \A r \in Readers : quiet[r] \in BOOLEAN
<1>1. quiet \in [Readers -> BOOLEAN]
  BY DEF StoreTypeOK
<1>2. UNCHANGED quiet => \A r \in Readers : quiet' = [quiet EXCEPT ![r] = quiet[r]]
  BY <1>1
<1>3. UNCHANGED held => \A r \in Readers : held' = [held EXCEPT ![r] = held[r]]
  <2>1. held = [r \in Readers |-> held[r]]
    BY DEF StoreTypeOK
  <2>2. ASSUME NEW r \in Readers PROVE [held EXCEPT ![r] = held[r]] = held
    BY <2>1
  <2>3. QED
    BY <2>2
<1>4. QED
  BY <1>1, <1>2, <1>3

LEMMA CallKeeps ==
  ASSUME StoreInv, NEW r \in Readers, Call(r) PROVE StoreInv'
<1>1. PICK req \in Requests : get' = [get EXCEPT ![r] = [pc |-> "called", req |-> req]]
  BY DEF Call
<1> DEFINE g == [pc |-> "called", req |-> req]
           q == \A w \in Writers : writer[w].pc = "idle"
<1>2. /\ get' = [get EXCEPT ![r] = g] /\ held' = [held EXCEPT ![r] = stored]
      /\ quiet' = [quiet EXCEPT ![r] = q]
      /\ UNCHANGED <<dir, data, files, writer, sets, stored, mixed>>
  BY <1>1 DEF Call
<1>3. g \in GetCalls /\ g.pc = "called" /\ q \in BOOLEAN
  BY DEF GetCalls
<1>4. ReaderOK(g, stored) /\ QuietOK(g, q)
  BY <1>3 DEF ReaderOK, QuietOK
<1> HIDE DEF g, q
<1>5. QED
  BY <1>2, <1>3, <1>4, ReaderMoves

LEMMA StatKeeps ==
  ASSUME StoreInv, NEW r \in Readers, Stat(r) PROVE StoreInv'
<1>1. /\ get[r].pc = "called" /\ dir # 0
      /\ UNCHANGED <<dir, data, files, writer, sets, stored, mixed, held, quiet>>
  BY DEF Stat
<1>2. get[r].req \in Requests /\ dir \in 1..MaxFiles /\ Len(data[dir]) \in Nat
      /\ ReaderOK(get[r], held[r]) /\ QuietOK(get[r], quiet[r])
  BY <1>1, GetShape, BoundsAssumption DEF StoreInv, StoreTypeOK
<1>3. PICK o, s \in Nat : Resolve(get[r].req, Len(data[dir])) = <<o, s>>
  BY <1>2, ResolveTypes
<1> DEFINE done == [pc |-> "returned", req |-> get[r].req, offset |-> o, result |-> <<>>]
           open == [pc |-> "open", req |-> get[r].req, offset |-> o, size |-> s]
<1>4. /\ s = 0 => get' = [get EXCEPT ![r] = done]
      /\ s # 0 => get' = [get EXCEPT ![r] = open]
  BY <1>1, <1>3 DEF Stat, Answer
<1>5. done \in GetCalls /\ open \in GetCalls
  BY <1>2 DEF GetCalls
<1>6. /\ done.pc = "returned" /\ done.result = <<>> /\ done.req = get[r].req
      /\ open.pc = "open" /\ open.offset = o /\ open.size = s /\ open.req = get[r].req
  OBVIOUS
<1> HIDE DEF done, open
<1>7. ReaderOK(done, held[r]) /\ ReaderOK(open, held[r])
  <2>1. stored \subseteq held[r]
    BY <1>1, <1>2 DEF ReaderOK
  <2>2. <<>> \in Seq(Nat)
    OBVIOUS
  <2>3. <<>> # Missing
    BY <2>2, MissingAssumption
  <2>4. QED
    BY <1>6, <2>1, <2>3 DEF ReaderOK
<1>8. s = 0 => QuietOK(done, quiet[r])
  <2>1. s = 0 => IsRead(<<>>, o, s, data[dir])
    BY DEF IsRead, PartOf
  <2>2. QED
    BY <1>1, <1>2, <1>3, <1>6, <2>1 DEF QuietOK
<1>9. QuietOK(open, quiet[r])
  BY <1>1, <1>2, <1>3, <1>6 DEF QuietOK
<1>10. /\ held' = [held EXCEPT ![r] = held[r]] /\ quiet' = [quiet EXCEPT ![r] = quiet[r]]
       /\ quiet[r] \in BOOLEAN
  BY <1>1, GetUnchanged DEF StoreInv
<1>11. CASE s = 0
  <2>0. PICK h : h = held[r]
    OBVIOUS
  <2>1. PICK q \in BOOLEAN : q = quiet[r]
    BY <1>10
  <2>2. get' = [get EXCEPT ![r] = done] /\ ReaderOK(done, h) /\ QuietOK(done, q)
    BY <1>4, <1>7, <1>8, <1>11, <2>0, <2>1
  <2>3. QED
    BY <1>1, <1>5, <1>10, <2>0, <2>1, <2>2, ReaderMoves
<1>12. CASE s # 0
  <2>0. PICK h : h = held[r]
    OBVIOUS
  <2>1. PICK q \in BOOLEAN : q = quiet[r]
    BY <1>10
  <2>2. get' = [get EXCEPT ![r] = open] /\ ReaderOK(open, h) /\ QuietOK(open, q)
    BY <1>4, <1>7, <1>9, <1>12, <2>0, <2>1
  <2>3. QED
    BY <1>1, <1>5, <1>10, <2>0, <2>1, <2>2, ReaderMoves
<1>13. QED
  BY <1>11, <1>12

\* A get finds no file: at its stat, or at the open after a stat that found one.
LEMMA MissingKeeps ==
  ASSUME StoreInv, NEW r \in Readers, StatMissing(r) \/ OpenMissing(r) PROVE StoreInv'
<1>1. /\ get[r].pc \in {"called", "open"} /\ dir = 0 /\ Answer(r, 0, Missing)
      /\ UNCHANGED <<dir, data, files, writer, sets, stored, mixed, held, quiet>>
  BY DEF StatMissing, OpenMissing
<1> DEFINE g == [pc |-> "returned", req |-> get[r].req, offset |-> 0, result |-> Missing]
<1>2. get' = [get EXCEPT ![r] = g]
  BY <1>1 DEF Answer
<1>3. get[r].req \in Requests /\ ReaderOK(get[r], held[r]) /\ QuietOK(get[r], quiet[r])
  BY <1>1, GetShape DEF StoreInv
<1>4. g \in GetCalls /\ g.pc = "returned" /\ g.result = Missing
  BY <1>3 DEF GetCalls
<1> HIDE DEF g
<1>5. ReaderOK(g, held[r])
  <2>1. stored = {Missing} /\ stored \subseteq held[r]
    BY <1>1, <1>3 DEF StoreInv, KeyOK, ReaderOK
  <2>2. QED
    BY <1>4, <2>1 DEF ReaderOK
<1>6. QuietOK(g, quiet[r])
  BY <1>1, <1>3, <1>4 DEF QuietOK
<1>7. /\ held' = [held EXCEPT ![r] = held[r]] /\ quiet' = [quiet EXCEPT ![r] = quiet[r]]
      /\ quiet[r] \in BOOLEAN
  BY <1>1, GetUnchanged DEF StoreInv
<1>8. QED
  BY <1>1, <1>2, <1>4, <1>5, <1>6, <1>7, ReaderMoves

LEMMA OpenKeeps ==
  ASSUME StoreInv, NEW r \in Readers, Open(r) PROVE StoreInv'
<1> DEFINE g == [pc |-> "read", req |-> get[r].req, offset |-> get[r].offset,
                 size |-> get[r].size, file |-> dir, got |-> <<>>]
<1>1. /\ get[r].pc = "open" /\ dir # 0 /\ get' = [get EXCEPT ![r] = g]
      /\ UNCHANGED <<dir, data, files, writer, sets, stored, mixed, held, quiet>>
  BY DEF Open
<1>2. /\ get[r].req \in Requests /\ get[r].offset \in Nat /\ get[r].size \in Nat
      /\ dir \in 1..MaxFiles /\ dir <= files
      /\ ReaderOK(get[r], held[r]) /\ QuietOK(get[r], quiet[r])
  BY <1>1, GetShape, BoundsAssumption DEF StoreInv, StoreTypeOK
<1>3. /\ g \in GetCalls /\ g.pc = "read" /\ g.file = dir /\ g.got = <<>> /\ g.req = get[r].req
      /\ g.offset = get[r].offset /\ g.size = get[r].size
  BY <1>2 DEF GetCalls
<1> HIDE DEF g
<1>4. ReaderOK(g, held[r])
  <2>1. stored \subseteq held[r] /\ FileFrom(dir, stored)
    BY <1>1, <1>2 DEF StoreInv, KeyOK, ReaderOK
  <2>2. FileFrom(dir, held[r])
    BY <2>1 DEF FileFrom, From
  <2>3. QED
    BY <1>2, <1>3, <2>1, <2>2 DEF ReaderOK
<1>5. QuietOK(g, quiet[r])
  <2>1. PartOf(<<>>, get[r].offset, get[r].size, data[dir])
    BY <1>2 DEF PartOf
  <2>2. QED
    BY <1>1, <1>2, <1>3, <2>1 DEF QuietOK
<1>6. /\ held' = [held EXCEPT ![r] = held[r]] /\ quiet' = [quiet EXCEPT ![r] = quiet[r]]
      /\ quiet[r] \in BOOLEAN
  BY <1>1, GetUnchanged DEF StoreInv
<1>7. QED
  BY <1>1, <1>3, <1>4, <1>5, <1>6, ReaderMoves

LEMMA ReadPieceKeeps ==
  ASSUME StoreInv, NEW r \in Readers, ReadPiece(r) PROVE StoreInv'
<1>1. PICK c \in [pc : {"read"}, req : Requests, offset : Nat, size : Nat,
                  file : 1..MaxFiles, got : Seq(Nat)] : c = get[r]
  BY GetShape DEF StoreInv, ReadPiece
<1>2. /\ ~AtEnd(c) /\ ReaderOK(c, held[r]) /\ QuietOK(c, quiet[r])
      /\ UNCHANGED <<dir, data, files, writer, sets, stored, mixed, held, quiet>>
  BY <1>1 DEF ReadPiece, StoreInv
<1>3. data[c.file] \in Seq(Nat)
  BY DEF StoreInv, StoreTypeOK
<1>4. PICK p \in Nat : p = Len(c.got) + 1
  OBVIOUS
<1>5. PICK n \in Nat : n = Len(data[c.file]) /\ DOMAIN data[c.file] = 1..n
  BY <1>3
<1>6. p # c.size + 1 /\ c.offset + p \in 1..n /\ Position(c) = c.offset + p
  <2>1. c.offset \in Nat /\ c.size \in Nat /\ Len(c.got) \in Nat
    OBVIOUS
  <2>2. Position(c) = c.offset + p
    BY <1>4, <2>1 DEF Position
  <2>3. Len(c.got) # c.size /\ ~(Position(c) > n)
    BY <1>2, <1>5 DEF AtEnd
  <2>4. QED
    BY <1>4, <2>1, <2>2, <2>3
<1>7. PICK b \in Nat : b = data[c.file][c.offset + p]
  BY <1>3, <1>5, <1>6
<1>8. PICK s \in Seq(Nat) : /\ s = Append(c.got, b) /\ Len(s) = p
                            /\ \A i \in 1..p : s[i] = IF i = p THEN b ELSE c.got[i]
  <2>1. Append(c.got, b) \in Seq(Nat) /\ Len(Append(c.got, b)) = p
    BY <1>4
  <2>2. \A i \in 1..p : Append(c.got, b)[i] = IF i = p THEN b ELSE c.got[i]
    BY <1>4
  <2>3. QED
    BY <2>1, <2>2
<1> DEFINE g == [c EXCEPT !.got = s]
<1>9. get' = [get EXCEPT ![r] = g]
  BY <1>1, <1>6, <1>7, <1>8 DEF ReadPiece
<1>10. /\ g \in GetCalls /\ g.pc = "read" /\ g.file = c.file /\ g.got = s /\ g.req = c.req
       /\ g.offset = c.offset /\ g.size = c.size
  BY DEF GetCalls
<1> HIDE DEF g
<1>11. ReaderOK(g, held[r])
  <2>1. stored \subseteq held[r] /\ c.file <= files /\ FileFrom(c.file, held[r])
        /\ \A k \in 1..Len(c.got) : From(held[r], c.offset + k, c.got[k])
    BY <1>2 DEF ReaderOK
  <2>2. From(held[r], c.offset + p, b)
    BY <1>5, <1>6, <1>7, <2>1 DEF FileFrom
  <2>3. ASSUME NEW k \in 1..p PROVE From(held[r], c.offset + k, s[k])
    <3>1. CASE k = p
      BY <1>8, <2>2, <3>1
    <3>2. CASE k # p
      BY <1>4, <1>8, <2>1, <3>2
    <3>3. QED
      BY <3>1, <3>2
  <2>4. QED
    BY <1>8, <1>10, <2>1, <2>3 DEF ReaderOK
<1>12. QuietOK(g, quiet[r])
  <2>1. SUFFICES ASSUME quiet[r] PROVE QuietOK(g, quiet[r])
    BY DEF QuietOK
  <2>2. /\ \A w \in Writers : writer[w].pc = "idle"
        /\ dir # 0 /\ <<c.offset, c.size>> = Resolve(c.req, Len(data[dir]))
        /\ c.file = dir /\ PartOf(c.got, c.offset, c.size, data[dir])
    BY <1>2, <2>1 DEF QuietOK
  <2>3. PartOf(s, c.offset, c.size, data[dir])
    <3>1. p <= c.size
      BY <1>4, <1>6, <2>2 DEF PartOf
    <3>2. ASSUME NEW i \in 1..p
          PROVE  c.offset + i <= Len(data[dir]) /\ s[i] = data[dir][c.offset + i]
      <4>1. CASE i = p
        BY <1>5, <1>6, <1>7, <1>8, <2>2, <4>1
      <4>2. CASE i # p
        BY <1>4, <1>8, <2>2, <4>2 DEF PartOf
      <4>3. QED
        BY <4>1, <4>2
    <3>3. QED
      BY <1>8, <3>1, <3>2 DEF PartOf
  <2>4. QED
    BY <1>10, <2>2, <2>3 DEF QuietOK
<1>13. /\ held' = [held EXCEPT ![r] = held[r]] /\ quiet' = [quiet EXCEPT ![r] = quiet[r]]
       /\ quiet[r] \in BOOLEAN
  BY <1>2, GetUnchanged DEF StoreInv
<1>14. UNCHANGED <<dir, data, files, writer, sets, stored, mixed>>
  BY <1>2
<1>15. QED
  BY <1>9, <1>10, <1>11, <1>12, <1>13, <1>14, ReaderMoves

LEMMA ReadEndsKeeps ==
  ASSUME StoreInv, NEW r \in Readers, ReadEnds(r) PROVE StoreInv'
<1>1. PICK c \in [pc : {"read"}, req : Requests, offset : Nat, size : Nat,
                  file : 1..MaxFiles, got : Seq(Nat)] : c = get[r]
  BY GetShape DEF StoreInv, ReadEnds
<1>2. /\ AtEnd(c) /\ ReaderOK(c, held[r]) /\ QuietOK(c, quiet[r])
      /\ UNCHANGED <<dir, data, files, writer, sets, stored, mixed, held, quiet>>
  BY <1>1 DEF ReadEnds, StoreInv
<1> DEFINE g == [pc |-> "returned", req |-> c.req, offset |-> c.offset, result |-> c.got]
<1>3. get' = [get EXCEPT ![r] = g]
  BY <1>1 DEF ReadEnds, Answer
<1>4. g \in GetCalls /\ g.pc = "returned" /\ g.req = c.req /\ g.offset = c.offset /\ g.result = c.got
  BY DEF GetCalls
<1> HIDE DEF g
<1>5. c.got # Missing /\ DOMAIN c.got = 1..Len(c.got)
  BY MissingAssumption
<1>6. ReaderOK(g, held[r])
  BY <1>2, <1>4, <1>5 DEF ReaderOK
<1>7. QuietOK(g, quiet[r])
  <2>1. SUFFICES ASSUME quiet[r] PROVE QuietOK(g, quiet[r])
    BY DEF QuietOK
  <2>2. /\ \A w \in Writers : writer[w].pc = "idle"
        /\ dir # 0 /\ <<c.offset, c.size>> = Resolve(c.req, Len(data[dir]))
        /\ c.file = dir /\ PartOf(c.got, c.offset, c.size, data[dir])
    BY <1>2, <2>1 DEF QuietOK
  <2>3. IsRead(c.got, c.offset, c.size, data[dir])
    BY <1>2, <2>2 DEF IsRead, AtEnd, Position
  <2>4. /\ Resolve(c.req, Len(data[dir]))[1] = c.offset
        /\ Resolve(c.req, Len(data[dir]))[2] = c.size
    BY <2>2
  <2>5. QED
    BY <1>4, <2>2, <2>3, <2>4 DEF QuietOK
<1>8. /\ held' = [held EXCEPT ![r] = held[r]] /\ quiet' = [quiet EXCEPT ![r] = quiet[r]]
      /\ quiet[r] \in BOOLEAN
  BY <1>2, GetUnchanged DEF StoreInv
<1>9. UNCHANGED <<dir, data, files, writer, sets, stored, mixed>>
  BY <1>2
<1>10. QED
  BY <1>3, <1>4, <1>6, <1>7, <1>8, <1>9, ReaderMoves

LEMMA ReturnKeeps ==
  ASSUME StoreInv, NEW r \in Readers, Return(r) PROVE StoreInv'
<1>1. Idle \in GetCalls /\ Idle.pc = "idle"
  BY DEF GetCalls, Idle
<1>2. ReaderOK(Idle, {}) /\ QuietOK(Idle, quiet[r])
  BY <1>1 DEF ReaderOK, QuietOK
<1>3. /\ get' = [get EXCEPT ![r] = Idle] /\ held' = [held EXCEPT ![r] = {}]
      /\ UNCHANGED <<dir, data, files, writer, sets, stored, mixed, quiet>>
  BY DEF Return
<1>4. quiet' = [quiet EXCEPT ![r] = quiet[r]] /\ quiet[r] \in BOOLEAN
  BY <1>3, GetUnchanged DEF StoreInv
<1>5. QED
  BY <1>1, <1>2, <1>3, <1>4, ReaderMoves

-----------------------------------------------------------------------------
(* A step of a writer *)

\* What the readers in progress see of a key that has been opened, touched or deleted.
LEMMA ReadersSee ==
  ASSUME StoreInv, NEW v, UNCHANGED get, held' = SeesAll(v), quiet' = Disturbed,
         stored' \subseteq stored \cup {v}, mixed => mixed', files' \in Nat, files <= files',
         \A f \in 1..MaxFiles : data'[f] = data[f] \/ data'[f] = <<>>,
         \A w \in Writers : writer'[w].pc = "write" =>
            \/ writer'[w].value = v
            \/ /\ writer[w].pc = "write" /\ writer'[w].file = writer[w].file
               /\ writer'[w].value = writer[w].value
  PROVE  \A r \in Readers : ReaderOK(get[r], held[r])' /\ QuietOK(get[r], quiet[r])'
<1> SUFFICES ASSUME NEW r \in Readers
             PROVE  ReaderOK(get[r], held[r])' /\ QuietOK(get[r], quiet[r])'
  OBVIOUS
<1>1. QuietOK(get[r], quiet[r])'
  BY DEF QuietOK, Disturbed
<1>2. get[r].pc # "idle" => held'[r] = held[r] \cup {v}
  BY DEF SeesAll
<1>3. CASE get[r].pc = "idle"
  BY <1>1, <1>3 DEF ReaderOK
<1>4. CASE get[r].pc # "idle"
  <2>1. ReaderOK(get[r], held[r]) /\ held'[r] = held[r] \cup {v}
    BY <1>2, <1>4 DEF StoreInv
  <2> DEFINE After(k, b) == \/ mixed' /\ b = 0
                            \/ \E u \in held'[r] \ {Missing} : k <= Len(u) /\ b = u[k]
  <2>2. \A k, b : From(held[r], k, b) => After(k, b)
    BY <2>1 DEF From
  <2> HIDE DEF After
  <2>3. stored' \subseteq held'[r]
    BY <1>4, <2>1 DEF ReaderOK
  <2>4. ASSUME get[r].pc = "read"
        PROVE  /\ get'[r].file <= files' /\ FileFrom(get[r].file, held[r])'
               /\ \A k \in 1..Len(get'[r].got) : From(held[r], get[r].offset + k, get[r].got[k])'
    <3>1. PICK f \in 1..MaxFiles : f = get[r].file
      BY <2>4, GetShape DEF StoreInv
    <3>2. f <= files /\ FileFrom(f, held[r])
          /\ \A k \in 1..Len(get[r].got) : From(held[r], get[r].offset + k, get[r].got[k])
      BY <2>1, <2>4, <3>1 DEF ReaderOK
    <3>3. f <= files'
      <4>1. files \in Nat /\ MaxFiles \in Nat
        BY BoundsAssumption DEF StoreInv, StoreTypeOK
      <4>2. QED
        BY <3>1, <3>2, <4>1
    <3>4. \A k \in 1..Len(data'[f]) : From(held[r], k, data[f][k])'
      <4>1. ASSUME data'[f] = data[f] PROVE \A k \in 1..Len(data'[f]) : After(k, data'[f][k])
        BY <2>2, <3>2, <4>1 DEF FileFrom
      <4>2. \A k \in 1..Len(data'[f]) : After(k, data'[f][k])
        BY <4>1
      <4>3. QED
        BY <4>2 DEF From, After
    <3>5. \A w \in To(f)' : writer'[w].value \in held'[r]
      BY <2>1, <3>2 DEF FileFrom, To
    <3>6. FileFrom(f, held[r])'
      BY <3>4, <3>5 DEF FileFrom
    <3>7. \A k \in 1..Len(get'[r].got) : From(held[r], get[r].offset + k, get[r].got[k])'
      <4>1. \A k \in 1..Len(get'[r].got) : After(get'[r].offset + k, get'[r].got[k])
        BY <2>2, <3>2
      <4>2. QED
        BY <4>1 DEF From, After
    <3>8. QED
      BY <3>1, <3>3, <3>6, <3>7
  <2>5. ASSUME get[r].pc = "returned"
        PROVE  IF get'[r].result = Missing THEN Missing \in held'[r]
               ELSE \A k \in DOMAIN get'[r].result : From(held[r], get[r].offset + k, get[r].result[k])'
    <3>1. IF get'[r].result = Missing THEN Missing \in held'[r]
          ELSE \A k \in DOMAIN get'[r].result : After(get'[r].offset + k, get'[r].result[k])
      BY <2>1, <2>2, <2>5 DEF ReaderOK
    <3>2. QED
      BY <3>1 DEF From, After
  <2>6. ReaderOK(get[r], held[r])'
    BY <2>3, <2>4, <2>5 DEF ReaderOK
  <2>7. QED
    BY <1>1, <2>6
<1>5. QED
  BY <1>3, <1>4

LEMMA CreatedFile ==
  ASSUME StoreInv, Created
  PROVE  /\ Target \in 1..MaxFiles /\ dir' = Target /\ dir' \in Nat /\ dir' # 0
         /\ files' \in Nat /\ files <= files' /\ files' <= MaxFiles /\ dir' <= files'
         /\ dir # 0 => Target = dir
         /\ dir = 0 => To(Target) = {}
<1>1. /\ dir \in Nat /\ files \in Nat /\ dir <= files /\ files <= MaxFiles /\ MaxFiles \in Nat
  BY BoundsAssumption DEF StoreInv, StoreTypeOK
<1>2. ASSUME dir = 0 PROVE To(Target) = {}
  <2>1. Target = files + 1
    BY <1>2 DEF Target
  <2>2. \A w \in Writers : writer[w].pc = "write" => writer[w].file <= files
    BY DEF StoreInv, WritersOK
  <2>3. QED
    BY <1>1, <2>1, <2>2 DEF To
<1>3. QED
  BY <1>1, <1>2 DEF Created, Target

LEMMA SetOpenKeeps ==
  ASSUME StoreInv, NEW w \in Writers, SetOpen(w) PROVE StoreInv'
<1>1. PICK v \in Values \ {<<>>} :
        /\ writer' = [writer EXCEPT ![w] = [pc |-> "write", file |-> Target, value |-> v, done |-> 0]]
        /\ held' = SeesAll(v)
        /\ stored' = {v} \cup {writer[u].value : u \in Overlapping}
  BY DEF SetOpen
<1>2. /\ writer[w].pc = "idle" /\ Created /\ data' = [data EXCEPT ![Target] = <<>>]
      /\ mixed' = (mixed \/ Overlapping # {}) /\ quiet' = Disturbed /\ UNCHANGED get
  BY DEF SetOpen, Opened
<1>3. v \in Seq(Nat) /\ Len(v) \in Nat /\ v # Missing
  BY ValuesAssumption, MissingAssumption
<1>4. PICK f \in 1..MaxFiles : f = Target
  BY <1>2, CreatedFile
<1>5. /\ dir' = f /\ dir' \in Nat /\ dir' # 0 /\ files' \in Nat /\ files <= files' /\ files' <= MaxFiles
      /\ dir' <= files' /\ (dir # 0 => f = dir) /\ (dir = 0 => To(f) = {})
  BY <1>2, <1>4, CreatedFile
<1>6. Overlapping = To(f) /\ w \notin To(f)
  BY <1>2, <1>4 DEF Overlapping, To
<1>7. \A u \in To(f) : writer[u].value \in stored
  BY <1>5 DEF StoreInv, KeyOK, FileFrom
<1>8. stored' \subseteq stored \cup {v} /\ v \in stored'
  BY <1>1, <1>6, <1>7
<1>9. /\ \A u \in Writers : writer'[u] = IF u = w THEN [pc |-> "write", file |-> f, value |-> v, done |-> 0]
                                         ELSE writer[u]
      /\ \A e \in 1..MaxFiles : data'[e] = IF e = f THEN <<>> ELSE data[e]
      /\ writer'[w].pc = "write" /\ writer'[w].file = f /\ writer'[w].value = v /\ writer'[w].done = 0
  BY <1>1, <1>2, <1>4 DEF StoreInv, StoreTypeOK
<1>10. To(f)' = To(f) \cup {w} /\ \A e : e # f => To(e)' = To(e)
  BY <1>2, <1>9 DEF To
<1>11. StoreTypeOK'
  <2>1. writer' \in [Writers -> SetCalls]
    BY <1>1, <1>3, <1>4 DEF StoreInv, StoreTypeOK, SetCalls
  <2>2. data' \in [1..MaxFiles -> Seq(Nat)]
    <3>1. <<>> \in Seq(Nat)
      OBVIOUS
    <3>2. QED
      BY <1>2, <1>4, <3>1 DEF StoreInv, StoreTypeOK
  <2>3. held' = [r \in Readers |-> held'[r]]
    BY <1>1 DEF SeesAll
  <2>4. stored' \subseteq Seq(Nat) \cup {Missing} /\ mixed' \in BOOLEAN
    BY <1>2, <1>3, <1>8 DEF StoreInv, StoreTypeOK
  <2>5. quiet' \in [Readers -> BOOLEAN] /\ get' \in [Readers -> GetCalls]
    BY <1>2 DEF StoreInv, StoreTypeOK, Disturbed
  <2>6. QED
    BY <1>5, <2>1, <2>2, <2>3, <2>4, <2>5 DEF StoreTypeOK
<1>12. WritersOK'
  <2>1. SUFFICES ASSUME NEW x \in Writers, writer'[x].pc = "write"
                 PROVE  /\ writer'[x].file <= files' /\ writer'[x].done <= Len(writer'[x].value)
                        /\ ~mixed' => /\ Len(data'[writer'[x].file]) = writer'[x].done
                                      /\ \A u \in To(writer[x].file)' : u = x
    BY DEF WritersOK
  <2>2. CASE x = w
    <3>1. ~mixed' => To(f) = {}
      BY <1>2, <1>6
    <3>2. QED
      BY <1>3, <1>5, <1>9, <1>10, <2>2, <3>1
  <2>3. CASE x # w
    <3>1. PICK e \in 1..MaxFiles : e = writer[x].file
      BY <1>9, <2>1, <2>3, SetShape DEF StoreInv
    <3>2. /\ e <= files /\ writer[x].done <= Len(writer[x].value)
          /\ ~mixed => Len(data[e]) = writer[x].done /\ \A u \in To(e) : u = x
      BY <1>9, <2>1, <2>3, <3>1 DEF StoreInv, WritersOK
    <3>3. e <= files'
      BY <1>5, <3>1, <3>2 DEF StoreInv, StoreTypeOK
    <3>4. e = f => mixed'
      BY <1>2, <1>6, <1>9, <2>1, <2>3, <3>1 DEF To
    <3>5. writer'[x] = writer[x] /\ (mixed => mixed')
      BY <1>2, <1>9, <2>3
    <3>6. e # f => data'[e] = data[e] /\ To(e)' = To(e)
      BY <1>9, <1>10
    <3>7. To(writer[x].file)' = To(e)'
      BY <1>9, <2>3, <3>1
    <3>8. QED
      BY <1>9, <2>3, <3>1, <3>2, <3>3, <3>4, <3>5, <3>6, <3>7
  <2>4. QED
    BY <2>2, <2>3
<1>13. KeyOK'
  <2>1. Missing \notin stored'
    <3>1. \A u \in To(f) : writer[u].value \in Seq(Nat)
      BY SetShape DEF StoreInv, To
    <3>2. QED
      BY <1>1, <1>3, <1>6, <3>1, MissingAssumption
  <2>2. \A u \in To(f)' : writer'[u].value \in stored'
    BY <1>1, <1>6, <1>8, <1>9, <1>10 DEF To
  <2>3. FileFrom(f, stored)'
    BY <1>9, <2>2 DEF FileFrom
  <2>4. QED
    BY <1>5, <2>1, <2>3 DEF KeyOK
<1>14. StoredWhole'
  <2>1. SUFFICES ASSUME NEW x \in stored', stored' = {x}
                 PROVE  /\ Len(data'[f]) <= Len(x)
                        /\ \A k \in 1..Len(x) : \E u \in To(f)' : writer'[u].done < k
    BY <1>5 DEF StoredWhole
  <2>2. x = v
    BY <1>8, <2>1
  <2>3. QED
    BY <1>3, <1>9, <1>10, <2>2
<1>15. \A r \in Readers : ReaderOK(get[r], held[r])' /\ QuietOK(get[r], quiet[r])'
  <2>1. \A e \in 1..MaxFiles : data'[e] = data[e] \/ data'[e] = <<>>
    BY <1>9
  <2>2. \A u \in Writers : writer'[u].pc = "write" =>
           \/ writer'[u].value = v
           \/ /\ writer[u].pc = "write" /\ writer'[u].file = writer[u].file
              /\ writer'[u].value = writer[u].value
    BY <1>9
  <2>3. QED
    BY <1>1, <1>2, <1>5, <1>8, <2>1, <2>2, ReadersSee
<1>16. QED
  BY <1>11, <1>12, <1>13, <1>14, <1>15 DEF StoreInv

\* What a piece written at a place of a file leaves of it.
LEMMA PutShape ==
  ASSUME NEW d \in Seq(Nat), NEW p \in Nat, p >= 1, NEW b \in Nat
  PROVE  /\ Put(d, p, b) \in Seq(Nat)
         /\ Len(Put(d, p, b)) = IF p > Len(d) THEN p ELSE Len(d)
         /\ \A i \in 1..Len(Put(d, p, b)) :
               Put(d, p, b)[i] = IF i = p THEN b ELSE IF i <= Len(d) THEN d[i] ELSE 0
<1>1. PICK n \in Nat : n = Len(d) /\ \A i \in 1..n : d[i] \in Nat
  OBVIOUS
<1>2. PICK m \in Nat : m = IF p > n THEN p ELSE n
  OBVIOUS
<1>3. Put(d, p, b) = [i \in 1..m |-> IF i = p THEN b ELSE IF i <= n THEN d[i] ELSE 0]
  BY <1>1, <1>2 DEF Put
<1>4. \A i \in 1..m : (IF i = p THEN b ELSE IF i <= n THEN d[i] ELSE 0) \in Nat
  BY <1>1
<1>5. Put(d, p, b) \in Seq(Nat) /\ Len(Put(d, p, b)) = m
  BY <1>3, <1>4
<1>6. QED
  BY <1>1, <1>2, <1>3, <1>5

LEMMA SetWriteKeeps ==
  ASSUME StoreInv, NEW w \in Writers, SetWrite(w) PROVE StoreInv'
<1>1. PICK x \in [pc : {"write"}, file : 1..MaxFiles, value : Seq(Nat), done : Nat] : x = writer[w]
  BY SetShape DEF StoreInv, SetWrite
<1>2. PICK f \in 1..MaxFiles : f = x.file
  OBVIOUS
<1>3. PICK v \in Seq(Nat) : v = x.value
  OBVIOUS
<1>4. PICK p \in Nat : p = x.done + 1 /\ p >= 1
  OBVIOUS
<1>5. PICK d \in Seq(Nat) : d = data[f]
  BY DEF StoreInv, StoreTypeOK
<1>6. /\ p <= Len(v) /\ Len(v) \in Nat /\ v[p] \in Nat /\ v # Missing /\ Len(d) \in Nat
      /\ data' = [data EXCEPT ![f] = Put(d, p, v[p])]
      /\ writer' = [writer EXCEPT ![w] = [x EXCEPT !.done = p]]
      /\ UNCHANGED <<dir, files, sets, stored, mixed, get, held, quiet>>
  <2>1. x.done < Len(v) /\ Len(v) \in Nat
    BY <1>1, <1>3 DEF SetWrite
  <2>2. p <= Len(v) /\ v[p] \in Nat
    BY <1>4, <2>1
  <2>3. QED
    BY <1>1, <1>2, <1>3, <1>4, <1>5, <2>1, <2>2, MissingAssumption DEF SetWrite
<1>7. PICK e \in Seq(Nat) :
        /\ e = Put(d, p, v[p]) /\ Len(e) = IF p > Len(d) THEN p ELSE Len(d)
        /\ \A i \in 1..Len(e) : e[i] = IF i = p THEN v[p] ELSE IF i <= Len(d) THEN d[i] ELSE 0
  <2>1. /\ Put(d, p, v[p]) \in Seq(Nat)
        /\ Len(Put(d, p, v[p])) = IF p > Len(d) THEN p ELSE Len(d)
        /\ \A i \in 1..Len(Put(d, p, v[p])) :
             Put(d, p, v[p])[i] = IF i = p THEN v[p] ELSE IF i <= Len(d) THEN d[i] ELSE 0
    <3>1. PICK b \in Nat : b = v[p]
      BY <1>6
    <3>2. /\ Put(d, p, b) \in Seq(Nat)
          /\ Len(Put(d, p, b)) = IF p > Len(d) THEN p ELSE Len(d)
          /\ \A i \in 1..Len(Put(d, p, b)) :
               Put(d, p, b)[i] = IF i = p THEN b ELSE IF i <= Len(d) THEN d[i] ELSE 0
      BY <1>4, PutShape
    <3>3. QED
      BY <3>1, <3>2
  <2>2. QED
    BY <2>1
<1>8. /\ \A g \in 1..MaxFiles : data'[g] = IF g = f THEN e ELSE data[g]
      /\ \A u \in Writers : /\ writer'[u].pc = writer[u].pc
                            /\ writer'[u].pc = "write" =>
                                 /\ writer'[u].file = writer[u].file
                                 /\ writer'[u].value = writer[u].value
                                 /\ writer'[u].done = IF u = w THEN p ELSE writer[u].done
      /\ writer'[w].done = p /\ writer[w].pc = "write" /\ writer[w].file = f /\ writer[w].value = v
  BY <1>1, <1>2, <1>3, <1>6, <1>7 DEF StoreInv, StoreTypeOK
<1>9. w \in To(f) /\ \A g : To(g)' = To(g)
  BY <1>8 DEF To
<1>10. Len(d) < p - 1 => mixed
  <2>1. ~mixed => Len(d) = x.done
    BY <1>1, <1>2, <1>5, <1>8 DEF StoreInv, WritersOK
  <2>2. QED
    BY <1>4, <1>6, <2>1
<1>11. StoreTypeOK'
  <2>1. [x EXCEPT !.done = p] \in SetCalls
    BY DEF SetCalls
  <2>2. QED
    BY <1>6, <1>7, <2>1 DEF StoreInv, StoreTypeOK
<1>12. WritersOK'
  <2>1. SUFFICES ASSUME NEW y \in Writers, writer'[y].pc = "write"
                 PROVE  /\ writer'[y].file <= files' /\ writer'[y].done <= Len(writer'[y].value)
                        /\ ~mixed' => /\ Len(data'[writer'[y].file]) = writer'[y].done
                                      /\ \A u \in To(writer[y].file)' : u = y
    BY DEF WritersOK
  <2>2. PICK g \in 1..MaxFiles : g = writer[y].file
    BY <1>8, <2>1, SetShape DEF StoreInv
  <2>3. /\ g <= files /\ writer[y].done <= Len(writer[y].value)
        /\ ~mixed => Len(data[g]) = writer[y].done /\ \A u \in To(g) : u = y
    BY <1>8, <2>1, <2>2 DEF StoreInv, WritersOK
  <2>4. writer'[y].file = g /\ To(writer[y].file)' = To(g)
    BY <1>8, <1>9, <2>1, <2>2
  <2>5. CASE y = w
    <3>1. ~mixed => Len(e) = p
      BY <1>1, <1>4, <1>5, <1>6, <1>7, <1>8, <2>2, <2>3, <2>5
    <3>2. QED
      BY <1>6, <1>8, <2>1, <2>2, <2>3, <2>4, <2>5, <3>1
  <2>6. CASE y # w
    <3>1. g = f => mixed
      BY <1>9, <2>3, <2>6
    <3>2. writer'[y].done = writer[y].done /\ writer'[y].value = writer[y].value
      BY <1>8, <2>1, <2>6
    <3>3. ~mixed => data'[g] = data[g]
      BY <1>8, <3>1
    <3>4. QED
      BY <1>6, <2>3, <2>4, <3>2, <3>3
  <2>7. QED
    BY <2>5, <2>6
<1>13. ASSUME NEW g \in 1..MaxFiles, NEW V, FileFrom(g, V)
       PROVE  /\ \A u \in To(g)' : writer'[u].value \in V
              /\ \A k \in 1..Len(data'[g]) : From(V, k, data'[g][k])
  <2>1. \A u \in To(g)' : writer'[u].value \in V
    <3>1. SUFFICES ASSUME NEW u \in Writers, u \in To(g) PROVE writer'[u].value \in V
      BY <1>9 DEF To
    <3>2. QED
      BY <1>8, <1>13, <3>1 DEF FileFrom, To
  <2>2. ASSUME g = f, NEW k \in 1..Len(e) PROVE From(V, k, e[k])
    <3>1. v \in V
      BY <1>8, <1>9, <1>13, <2>2 DEF FileFrom
    <3>2. CASE k = p
      BY <1>6, <1>7, <2>2, <3>1, <3>2 DEF From
    <3>3. CASE k # p /\ k <= Len(d)
      <4>1. From(V, k, d[k])
        BY <1>5, <1>6, <1>13, <2>2, <3>3 DEF FileFrom
      <4>2. QED
        BY <1>7, <2>2, <3>3, <4>1
    <3>4. CASE k # p /\ ~(k <= Len(d))
      <4>1. e[k] = 0
        BY <1>7, <2>2, <3>4
      <4>2. Len(e) \in Nat /\ k \in Nat /\ k <= Len(e)
        BY <2>2
      <4>3. Len(d) < p - 1
        <5>1. Len(e) = IF p > Len(d) THEN p ELSE Len(d)
          BY <1>7
        <5>2. Len(d) \in Nat
          BY <1>6
        <5>3. QED
          BY <3>4, <4>2, <5>1, <5>2
      <4>4. QED
        BY <1>10, <4>1, <4>3 DEF From
    <3>5. QED
      BY <3>2, <3>3, <3>4
  <2>3. QED
    BY <1>8, <1>13, <2>1, <2>2 DEF FileFrom
<1>14. KeyOK'
  <2>1. CASE dir = 0
    BY <1>6, <2>1 DEF StoreInv, KeyOK
  <2>2. CASE dir # 0
    <3>1. dir \in 1..MaxFiles /\ Missing \notin stored /\ FileFrom(dir, stored)
      <4>1. dir \in 0..files /\ files \in 0..MaxFiles
        BY DEF StoreInv, StoreTypeOK
      <4>2. Missing \notin stored /\ FileFrom(dir, stored)
        BY <2>2 DEF StoreInv, KeyOK
      <4>3. QED
        BY <2>2, <4>1, <4>2, BoundsAssumption
    <3>2. (\A u \in To(dir)' : writer'[u].value \in stored)
          /\ \A k \in 1..Len(data'[dir]) : From(stored, k, data'[dir][k])
      BY <1>6, <1>13, <3>1
    <3>3. FileFrom(dir, stored)'
      BY <1>6, <3>2 DEF FileFrom, From, To
    <3>4. QED
      BY <1>6, <2>2, <3>1, <3>3 DEF KeyOK
  <2>3. QED
    BY <2>1, <2>2
<1>15. StoredWhole'
  <2>1. SUFFICES ASSUME dir # 0, NEW z \in stored, stored = {z}
                 PROVE  /\ Len(data'[dir]) <= Len(z)
                        /\ \A k \in 1..Len(z) : \/ k <= Len(data'[dir]) /\ data'[dir][k] = z[k]
                                                \/ \E u \in To(dir)' : writer'[u].done < k
    BY <1>6 DEF StoredWhole
  <2>2. /\ dir \in 1..MaxFiles /\ Missing \notin stored /\ FileFrom(dir, stored)
        /\ Len(data[dir]) <= Len(z)
        /\ \A k \in 1..Len(z) : \/ k <= Len(data[dir]) /\ data[dir][k] = z[k]
                                \/ \E u \in To(dir) : writer[u].done < k
    <3>1. dir \in 0..files /\ files \in 0..MaxFiles
      BY DEF StoreInv, StoreTypeOK
    <3>2. Missing \notin stored /\ FileFrom(dir, stored)
      BY <2>1 DEF StoreInv, KeyOK
    <3>3. StoredWhole
      BY DEF StoreInv
    <3>4. QED
      BY <2>1, <3>1, <3>2, <3>3, BoundsAssumption DEF StoredWhole
  <2>3. CASE dir # f
    <3>1. data'[dir] = data[dir] /\ \A u \in To(dir) : writer'[u].done = writer[u].done
      BY <1>8, <2>2, <2>3 DEF To
    <3>2. QED
      BY <1>6, <1>9, <2>2, <3>1
  <2>4. CASE dir = f
    <3>1. z = v
      BY <1>8, <1>9, <2>1, <2>2, <2>4 DEF FileFrom
    <3>2. Len(e) <= Len(v)
      BY <1>5, <1>6, <1>7, <2>2, <2>4, <3>1
    <3>3. ASSUME NEW k \in 1..Len(v)
          PROVE  \/ k <= Len(e) /\ e[k] = v[k]
                 \/ \E u \in To(f) : writer'[u].done < k
      <4> USE <3>3
      <4>0. /\ k \in Nat /\ k >= 1 /\ Len(d) \in Nat /\ Len(e) \in Nat
            /\ Len(e) = IF p > Len(d) THEN p ELSE Len(d)
        BY <1>6, <1>7
      <4>1. CASE k = p
        <5>1. k \in 1..Len(e)
          BY <4>0, <4>1
        <5>2. e[k] = v[p]
          BY <1>7, <4>1, <5>1
        <5>3. QED
          BY <4>1, <5>1, <5>2
      <4>2. CASE k # p /\ k <= Len(d) /\ d[k] = v[k]
        <5>1. k \in 1..Len(e)
          BY <4>0, <4>2
        <5>2. e[k] = d[k]
          BY <1>7, <4>2, <5>1
        <5>3. QED
          BY <4>2, <5>1, <5>2
      <4>3. CASE k # p /\ \E u \in To(f) : writer[u].done < k
        <5>1. PICK u \in To(f) : writer[u].done < k
          BY <4>3
        <5>2. writer'[u].done < k
          BY <1>1, <1>4, <1>6, <1>8, <4>3, <5>1 DEF To
        <5>3. QED
          BY <5>1, <5>2
      <4>4. QED
        BY <1>5, <2>2, <2>4, <3>1, <4>1, <4>2, <4>3
    <3>4. data'[dir] = e /\ To(dir)' = To(f)
      BY <1>6, <1>8, <1>9, <2>4
    <3>5. QED
      BY <2>4, <3>1, <3>2, <3>3, <3>4
  <2>5. QED
    BY <2>3, <2>4
<1>16. ASSUME NEW r \in Readers PROVE ReaderOK(get[r], held[r])' /\ QuietOK(get[r], quiet[r])'
  <2>1. ReaderOK(get[r], held[r]) /\ QuietOK(get[r], quiet[r])
    BY DEF StoreInv
  <2>2. QuietOK(get[r], quiet[r])'
    <3>1. ~(quiet[r] /\ get[r].pc # "idle")
      BY <1>8, <2>1 DEF QuietOK
    <3>2. QED
      BY <1>6, <3>1 DEF QuietOK
  <2>3. ASSUME get[r].pc = "read" PROVE FileFrom(get[r].file, held[r])'
    <3>1. PICK g \in 1..MaxFiles : g = get[r].file
      BY <2>3, GetShape DEF StoreInv
    <3>2. FileFrom(g, held[r])
      BY <2>1, <2>3, <3>1 DEF ReaderOK
    <3>3. (\A u \in To(g)' : writer'[u].value \in held[r])
          /\ \A k \in 1..Len(data'[g]) : From(held[r], k, data'[g][k])
      BY <1>13, <3>2
    <3>4. QED
      BY <1>6, <3>1, <3>3 DEF FileFrom, From, To
  <2>4. ReaderOK(get[r], held[r])'
    BY <1>6, <2>1, <2>3 DEF ReaderOK, From
  <2>5. QED
    BY <2>2, <2>4
<1>17. QED
  BY <1>11, <1>12, <1>14, <1>15, <1>16 DEF StoreInv

LEMMA SetReturnsKeeps ==
  ASSUME StoreInv, NEW w \in Writers, SetReturns(w) PROVE StoreInv'
<1>1. /\ writer[w].pc = "write" /\ writer[w].done = Len(writer[w].value)
      /\ writer' = [writer EXCEPT ![w] = Idle]
      /\ UNCHANGED <<dir, data, files, sets, stored, mixed, get, held, quiet>>
  BY DEF SetReturns
<1>2. \A u \in Writers : writer'[u] = IF u = w THEN Idle ELSE writer[u]
  BY <1>1 DEF StoreInv, StoreTypeOK
<1>3. Idle.pc = "idle" /\ Idle \in SetCalls
  BY DEF Idle, SetCalls
<1>4. \A f : To(f)' = To(f) \ {w}
  BY <1>2, <1>3 DEF To
<1>5. StoreTypeOK'
  BY <1>1, <1>3 DEF StoreInv, StoreTypeOK
<1>6. WritersOK'
  BY <1>1, <1>2, <1>3, <1>4 DEF StoreInv, WritersOK
<1>7. ASSUME NEW f, NEW V, FileFrom(f, V)
      PROVE  /\ \A k \in 1..Len(data[f]) : From(V, k, data[f][k])
             /\ \A u \in To(f)' : writer'[u].value \in V
  BY <1>2, <1>4, <1>7 DEF FileFrom, To
<1>8. KeyOK'
  <2>1. dir = 0 => stored = {Missing}
    BY DEF StoreInv, KeyOK
  <2>2. dir # 0 => /\ Missing \notin stored
                   /\ \A k \in 1..Len(data[dir]) : From(stored, k, data[dir][k])
                   /\ \A u \in To(dir)' : writer'[u].value \in stored
    BY <1>1, <1>7 DEF StoreInv, KeyOK
  <2>3. QED
    BY <1>1, <2>1, <2>2 DEF KeyOK, FileFrom, From, To
<1>9. StoredWhole'
  <2>1. SUFFICES ASSUME dir # 0, NEW z \in stored, stored = {z}
                 PROVE  /\ Len(data[dir]) <= Len(z)
                        /\ \A k \in 1..Len(z) : \/ k <= Len(data[dir]) /\ data[dir][k] = z[k]
                                                \/ \E u \in To(dir)' : writer'[u].done < k
    BY <1>1 DEF StoredWhole
  <2>2. /\ FileFrom(dir, stored) /\ Len(data[dir]) <= Len(z)
        /\ \A k \in 1..Len(z) : \/ k <= Len(data[dir]) /\ data[dir][k] = z[k]
                                \/ \E u \in To(dir) : writer[u].done < k
    BY <2>1 DEF StoreInv, KeyOK, StoredWhole
  <2>3. w \in To(dir) => writer[w].value = z
    BY <2>1, <2>2 DEF FileFrom
  <2>4. ASSUME NEW k \in 1..Len(z), NEW u \in To(dir), writer[u].done < k
        PROVE  u \in To(dir)' /\ writer'[u].done < k
    <3>1. u = w => writer[w].value = z /\ writer[w].done = Len(z) /\ Len(z) \in Nat
      BY <1>1, <2>3, <2>4, SetShape DEF StoreInv
    <3>2. u # w
      BY <2>4, <3>1
    <3>3. QED
      BY <1>1, <1>2, <1>4, <2>4, <3>2 DEF To
  <2>5. QED
    BY <2>2, <2>4
<1>10. ASSUME NEW r \in Readers PROVE ReaderOK(get[r], held[r])' /\ QuietOK(get[r], quiet[r])'
  <2>1. ReaderOK(get[r], held[r]) /\ QuietOK(get[r], quiet[r])
    BY DEF StoreInv
  <2>2. QuietOK(get[r], quiet[r])'
    <3>1. ~(quiet[r] /\ get[r].pc # "idle")
      BY <1>1, <2>1 DEF QuietOK
    <3>2. QED
      BY <1>1, <3>1 DEF QuietOK
  <2>3. ASSUME get[r].pc = "read" PROVE FileFrom(get[r].file, held[r])'
    <3>1. /\ \A k \in 1..Len(data[get[r].file]) : From(held[r], k, data[get[r].file][k])
          /\ \A u \in To(get[r].file)' : writer'[u].value \in held[r]
      BY <1>1, <1>7, <2>1, <2>3 DEF ReaderOK
    <3>2. QED
      BY <1>1, <3>1 DEF FileFrom, From, To
  <2>4. ReaderOK(get[r], held[r])'
    BY <1>1, <2>1, <2>3 DEF ReaderOK, From
  <2>5. QED
    BY <2>2, <2>4
<1>11. QED
  BY <1>5, <1>6, <1>8, <1>9, <1>10 DEF StoreInv

\* Only a key that is not there is touched, unless an existing one may be emptied.
LEMMA SetTouchKeeps ==
  ASSUME StoreInv, ~Emptying, NEW w \in Writers, SetTouch(w) PROVE StoreInv'
<1>1. /\ dir = 0 /\ Created /\ data' = [data EXCEPT ![Target] = <<>>] /\ stored' = {<<>>}
      /\ held' = SeesAll(<<>>) /\ quiet' = Disturbed /\ UNCHANGED <<writer, mixed, get>>
  BY DEF SetTouch
<1>2. PICK f \in 1..MaxFiles : f = Target
  BY <1>1, CreatedFile
<1>3. /\ dir' = f /\ dir' \in Nat /\ dir' # 0 /\ files' \in Nat /\ files <= files' /\ files' <= MaxFiles
      /\ dir' <= files' /\ To(f) = {}
  BY <1>1, <1>2, CreatedFile
<1>4. \A e \in 1..MaxFiles : data'[e] = IF e = f THEN <<>> ELSE data[e]
  BY <1>1, <1>2 DEF StoreInv, StoreTypeOK
<1>5. \A e : To(e)' = To(e)
  BY <1>1 DEF To
<1>6. <<>> \in Seq(Nat) /\ <<>> # Missing
  <2>1. <<>> \in Seq(Nat)
    OBVIOUS
  <2>2. QED
    BY <2>1, MissingAssumption
<1>7. StoreTypeOK'
  <2>1. data' \in [1..MaxFiles -> Seq(Nat)]
    BY <1>1, <1>2, <1>6 DEF StoreInv, StoreTypeOK
  <2>2. held' = [r \in Readers |-> held'[r]] /\ quiet' \in [Readers -> BOOLEAN]
    BY <1>1 DEF SeesAll, Disturbed
  <2>3. stored' \subseteq Seq(Nat) \cup {Missing}
    BY <1>1, <1>6
  <2>4. QED
    BY <1>1, <1>3, <2>1, <2>2, <2>3 DEF StoreInv, StoreTypeOK
<1>8. WritersOK'
  <2>1. SUFFICES ASSUME NEW x \in Writers, writer[x].pc = "write"
                 PROVE  /\ writer[x].file <= files' /\ writer[x].done <= Len(writer[x].value)
                        /\ ~mixed => /\ Len(data'[writer[x].file]) = writer[x].done
                                     /\ \A u \in To(writer[x].file)' : u = x
    BY <1>1 DEF WritersOK
  <2>2. PICK e \in 1..MaxFiles : e = writer[x].file
    BY <2>1, SetShape DEF StoreInv
  <2>3. /\ e <= files /\ writer[x].done <= Len(writer[x].value)
        /\ ~mixed => Len(data[e]) = writer[x].done /\ \A u \in To(e) : u = x
    BY <2>1, <2>2 DEF StoreInv, WritersOK
  <2>4. e # f
    BY <1>3, <2>1, <2>2 DEF To
  <2>5. e <= files'
    BY <1>3, <2>2, <2>3 DEF StoreInv, StoreTypeOK
  <2>6. QED
    BY <1>1, <1>4, <1>5, <2>1, <2>2, <2>3, <2>4, <2>5
<1>9. KeyOK'
  <2>1. FileFrom(f, stored)'
    BY <1>3, <1>4, <1>5 DEF FileFrom
  <2>2. QED
    BY <1>1, <1>3, <1>6, <2>1 DEF KeyOK
<1>10. StoredWhole'
  BY <1>1, <1>3, <1>4 DEF StoredWhole
<1>11. \A r \in Readers : ReaderOK(get[r], held[r])' /\ QuietOK(get[r], quiet[r])'
  <2>1. stored' \subseteq stored \cup {<<>>}
    BY <1>1
  <2>2. \A e \in 1..MaxFiles : data'[e] = data[e] \/ data'[e] = <<>>
    BY <1>4
  <2>3. QED
    BY <1>1, <1>3, <2>1, <2>2, ReadersSee
<1>12. QED
  BY <1>7, <1>8, <1>9, <1>10, <1>11 DEF StoreInv

LEMMA DeleteKeeps ==
  ASSUME StoreInv, Delete PROVE StoreInv'
<1>1. /\ dir' = 0 /\ stored' = {Missing} /\ held' = SeesAll(Missing) /\ quiet' = Disturbed
      /\ UNCHANGED <<data, files, writer, sets, mixed, get>>
  BY DEF Delete
<1>2. StoreTypeOK'
  BY <1>1 DEF StoreInv, StoreTypeOK, SeesAll, Disturbed
<1>3. WritersOK'
  BY <1>1 DEF StoreInv, WritersOK, To
<1>4. KeyOK' /\ StoredWhole'
  BY <1>1 DEF KeyOK, StoredWhole
<1>5. \A r \in Readers : ReaderOK(get[r], held[r])' /\ QuietOK(get[r], quiet[r])'
  <2>1. /\ stored' \subseteq stored \cup {Missing} /\ (mixed => mixed') /\ files' \in Nat
        /\ files <= files'
    BY <1>1 DEF StoreInv, StoreTypeOK
  <2>2. QED
    BY <1>1, <2>1, ReadersSee
<1>6. QED
  BY <1>2, <1>3, <1>4, <1>5 DEF StoreInv

-----------------------------------------------------------------------------
(* What holds of the store *)

LEMMA StoreInvInit == Init => StoreInv
<1> SUFFICES ASSUME Init PROVE StoreInv
  OBVIOUS
<1>1. Idle.pc = "idle" /\ Idle \in GetCalls /\ Idle \in SetCalls
  BY DEF Idle, GetCalls, SetCalls
<1>2. <<>> \in Seq(Nat)
  OBVIOUS
<1>3. StoreTypeOK
  <2>1. data \in [1..MaxFiles -> Seq(Nat)]
    BY <1>2 DEF Init
  <2>2. get \in [Readers -> GetCalls] /\ writer \in [Writers -> SetCalls]
    BY <1>1 DEF Init
  <2>3. held = [r \in Readers |-> held[r]] /\ quiet \in [Readers -> BOOLEAN]
    BY DEF Init
  <2>4. /\ dir \in Nat /\ files \in Nat /\ dir <= files /\ files <= MaxFiles
    BY BoundsAssumption DEF Init
  <2>5. stored \subseteq Seq(Nat) \cup {Missing}
    BY DEF Init
  <2>6. mixed \in BOOLEAN
    BY DEF Init
  <2>7. QED
    BY <2>1, <2>2, <2>3, <2>4, <2>5, <2>6 DEF StoreTypeOK
<1>4. WritersOK /\ KeyOK /\ StoredWhole
  BY <1>1 DEF Init, WritersOK, KeyOK, StoredWhole
<1>5. \A r \in Readers : ReaderOK(get[r], held[r]) /\ QuietOK(get[r], quiet[r])
  BY <1>1 DEF Init, ReaderOK, QuietOK
<1>6. QED
  BY <1>3, <1>4, <1>5 DEF StoreInv

LEMMA StoreInvNext ==
  ASSUME ~Emptying, StoreInv, [Next]_vars PROVE StoreInv'
<1>1. CASE UNCHANGED vars
  BY <1>1 DEF StoreInv, StoreTypeOK, WritersOK, KeyOK, StoredWhole, ReaderOK, QuietOK,
              FileFrom, From, To, vars
<1>2. ASSUME NEW r \in Readers,
             \/ Call(r) \/ Stat(r) \/ StatMissing(r) \/ Open(r)
             \/ OpenMissing(r) \/ ReadPiece(r) \/ ReadEnds(r) \/ Return(r)
      PROVE  StoreInv'
  BY <1>2, CallKeeps, StatKeeps, MissingKeeps, OpenKeeps, ReadPieceKeeps, ReadEndsKeeps, ReturnKeeps
<1>3. ASSUME NEW w \in Writers, SetOpen(w) \/ SetWrite(w) \/ SetReturns(w) \/ SetTouch(w)
      PROVE  StoreInv'
  BY <1>3, SetOpenKeeps, SetWriteKeeps, SetReturnsKeeps, SetTouchKeeps
<1>4. CASE Delete
  BY <1>4, DeleteKeeps
<1>5. QED
  BY <1>1, <1>2, <1>3, <1>4 DEF Next

\* Quiet, with every set returned, the file is the value stored last.
LEMMA QuietFromInv == StoreInv => QuietGetsAreExact
<1> SUFFICES ASSUME StoreInv, NEW r \in Readers, Returned(r), quiet[r],
                    NEW v \in stored, stored = {v}
             PROVE  get[r].result = IF v = Missing THEN Missing ELSE Requested(v, get[r].req)
  BY DEF QuietGetsAreExact
<1>1. /\ \A w \in Writers : writer[w].pc = "idle"
      /\ IF dir = 0 THEN get[r].result = Missing
         ELSE IsRead(get[r].result, Resolve(get[r].req, Len(data[dir]))[1],
                     Resolve(get[r].req, Len(data[dir]))[2], data[dir])
  BY DEF StoreInv, QuietOK, Returned
<1>2. CASE dir = 0
  BY <1>1, <1>2 DEF StoreInv, KeyOK
<1>3. CASE dir # 0
  <2>1. v # Missing /\ v \in Seq(Nat) /\ dir \in 1..MaxFiles /\ data[dir] \in Seq(Nat)
    BY <1>3, BoundsAssumption DEF StoreInv, KeyOK, StoreTypeOK
  <2>2. /\ Len(data[dir]) <= Len(v)
        /\ \A k \in 1..Len(v) : k <= Len(data[dir]) /\ data[dir][k] = v[k]
    BY <1>1, <1>3 DEF StoreInv, StoredWhole, To
  <2>3. data[dir] = v
    <3>1. PICK n \in Nat : n = Len(v) /\ v = [i \in 1..n |-> v[i]]
      BY <2>1
    <3>2. PICK m \in Nat : m = Len(data[dir]) /\ data[dir] = [i \in 1..m |-> data[dir][i]]
      BY <2>1
    <3>3. m = n
      <4>1. m <= n
        BY <2>2, <3>1, <3>2
      <4>2. n >= 1 => n \in 1..Len(v)
        BY <3>1
      <4>3. n >= 1 => n <= m
        BY <2>2, <3>2, <4>2
      <4>4. QED
        BY <4>1, <4>3
    <3>4. QED
      BY <2>2, <3>1, <3>2, <3>3
  <2>4. get[r].req \in Requests
    BY GetShape DEF StoreInv, Returned
  <2>5. QED
    BY <1>1, <1>3, <2>1, <2>3, <2>4, RequestedIsRead
<1>4. QED
  BY <1>2, <1>3

LEMMA RacingFromInv == StoreInv => RacingGetsReadHeldBytes
BY DEF StoreInv, ReaderOK, From, RacingGetsReadHeldBytes, Returned

\* Unless a set may empty a key that exists (path.touch() leaves the bytes there), a
\* get that no set or delete overlaps returns the bytes that its range means of the
\* value stored last, for every number of readers and writers, whatever sets and
\* deletes came before it: _gds_get_sync and _gds_set_sync agree.
THEOREM QuietGetsReadTheLastSet ==
  ASSUME ~Emptying PROVE Spec => []QuietGetsAreExact
<1>1. Spec => []StoreInv
  <2>1. ~Emptying /\ StoreInv /\ [Next]_vars => StoreInv'
    BY StoreInvNext
  <2>2. QED
    BY <2>1, StoreInvInit, PTL DEF Spec
<1>2. QED
  BY <1>1, QuietFromInv, PTL

\* Under the same hypothesis every byte a get returns, however sets and deletes
\* interleave with its stat, its open and its pieces, is at its place in a value the
\* key held during the call, or the zero of a hole that overlapping sets left, and it
\* answers None only when the key was absent meanwhile.
THEOREM GetsReadHeldBytes ==
  ASSUME ~Emptying PROVE Spec => []RacingGetsReadHeldBytes
<1>1. Spec => []StoreInv
  <2>1. ~Emptying /\ StoreInv /\ [Next]_vars => StoreInv'
    BY StoreInvNext
  <2>2. QED
    BY <2>1, StoreInvInit, PTL DEF Spec
<1>2. QED
  BY <1>1, RacingFromInv, PTL

-----------------------------------------------------------------------------
(* The plan cache: the order of what it holds *)

PlanEntry == [root : Roots, sig : Nat, plan : Nat]

\* c holds what was stored or hit last, of all the roots q.
Lru(c, q) ==
  /\ c \in Seq(PlanEntry) /\ q \in Seq(Roots)
  /\ \A i, j \in 1..Len(q) : q[i] = q[j] => i = j
  /\ Len(c) = Lesser(Cap, Len(q))
  /\ \A i \in 1..Len(c) : c[i].root = q[Len(q) - Len(c) + i]

LEMMA RemoveAtShape ==
  ASSUME NEW S, NEW s \in Seq(S), NEW n \in Nat, n = Len(s), NEW i \in 1..n
  PROVE  /\ RemoveAt(s, i) \in Seq(S) /\ Len(RemoveAt(s, i)) = n - 1
         /\ \A k \in 1..(n - 1) : RemoveAt(s, i)[k] = IF k < i THEN s[k] ELSE s[k + 1]
<1>1. SubSeq(s, 1, i - 1) \in Seq(S) /\ Len(SubSeq(s, 1, i - 1)) = i - 1
      /\ \A k \in 1..(i - 1) : SubSeq(s, 1, i - 1)[k] = s[k]
  OBVIOUS
<1>2. SubSeq(s, i + 1, n) \in Seq(S) /\ Len(SubSeq(s, i + 1, n)) = n - i
      /\ \A k \in 1..(n - i) : SubSeq(s, i + 1, n)[k] = s[i + k]
  OBVIOUS
<1> DEFINE a == SubSeq(s, 1, i - 1)
           b == SubSeq(s, i + 1, n)
<1>3. RemoveAt(s, i) = a \o b
  BY DEF RemoveAt
<1> HIDE DEF a, b
<1>4. /\ a \in Seq(S) /\ Len(a) = i - 1 /\ b \in Seq(S) /\ Len(b) = n - i
      /\ \A k \in 1..(i - 1) : a[k] = s[k]
      /\ \A k \in 1..(n - i) : b[k] = s[i + k]
  BY <1>1, <1>2 DEF a, b
<1>5. /\ a \o b \in Seq(S) /\ Len(a \o b) = n - 1
      /\ \A k \in 1..(n - 1) : (a \o b)[k] = IF k <= i - 1 THEN a[k] ELSE b[k - (i - 1)]
  <2>1. Len(a) + Len(b) = n - 1
    BY <1>4
  <2>2. /\ a \o b \in Seq(S) /\ Len(a \o b) = Len(a) + Len(b)
        /\ \A k \in 1..(Len(a) + Len(b)) : (a \o b)[k] = IF k <= Len(a) THEN a[k] ELSE b[k - Len(a)]
    BY <1>4, ConcatProperties
  <2>3. QED
    BY <1>4, <2>1, <2>2
<1>6. ASSUME NEW k \in 1..(n - 1) PROVE (a \o b)[k] = IF k < i THEN s[k] ELSE s[k + 1]
  <2>1. k < i => (a \o b)[k] = s[k]
    BY <1>4, <1>5
  <2>2. ~(k < i) => k - (i - 1) \in 1..(n - i) /\ i + (k - (i - 1)) = k + 1
    OBVIOUS
  <2>3. ~(k < i) => (a \o b)[k] = s[k + 1]
    BY <1>4, <1>5, <2>2
  <2>4. QED
    BY <2>1, <2>3
<1>7. QED
  BY <1>3, <1>5, <1>6

\* Where the root r is left out, if it is there.
LEMMA OthersShape ==
  ASSUME cache \in Seq(PlanEntry), NEW r \in Roots
  PROVE  \/ \E i \in 1..Len(cache) : cache[i].root = r /\ Others(r) = RemoveAt(cache, i)
         \/ (\A i \in 1..Len(cache) : cache[i].root # r) /\ Others(r) = cache
<1>1. DOMAIN cache = 1..Len(cache)
  OBVIOUS
<1>2. CASE \E i \in DOMAIN cache : cache[i].root = r
  <2>1. PICK i \in DOMAIN cache : i = CHOOSE k \in DOMAIN cache : cache[k].root = r
    BY <1>2
  <2>2. cache[i].root = r
    BY <1>2, <2>1
  <2>3. QED
    BY <1>1, <1>2, <2>1, <2>2 DEF Others
<1>3. CASE ~\E i \in DOMAIN cache : cache[i].root = r
  BY <1>1, <1>3 DEF Others
<1>4. QED
  BY <1>2, <1>3

LEMMA OtherRootsShape ==
  ASSUME recent \in Seq(Roots), NEW r \in Roots
  PROVE  \/ \E i \in 1..Len(recent) : recent[i] = r /\ OtherRoots(r) = RemoveAt(recent, i)
         \/ (\A i \in 1..Len(recent) : recent[i] # r) /\ OtherRoots(r) = recent
<1>1. DOMAIN recent = 1..Len(recent)
  OBVIOUS
<1>2. CASE \E i \in DOMAIN recent : recent[i] = r
  <2>1. PICK i \in DOMAIN recent : i = CHOOSE k \in DOMAIN recent : recent[k] = r
    BY <1>2
  <2>2. recent[i] = r
    BY <1>2, <2>1
  <2>3. QED
    BY <1>1, <1>2, <2>1, <2>2 DEF OtherRoots
<1>3. CASE ~\E i \in DOMAIN recent : recent[i] = r
  BY <1>1, <1>3 DEF OtherRoots
<1>4. QED
  BY <1>2, <1>3

\* s with x appended, the i-th element left out unless i is past the end.
LEMMA MovedLast ==
  ASSUME NEW S, NEW s \in Seq(S), NEW n \in Nat, n = Len(s), NEW i \in 1..(n + 1), NEW x \in S,
         NEW d, i <= n => d = RemoveAt(s, i), i = n + 1 => d = s,
         NEW m \in Nat, m = IF i <= n THEN n ELSE n + 1
  PROVE  /\ Append(d, x) \in Seq(S) /\ Len(Append(d, x)) = m
         /\ \A k \in 1..m : Append(d, x)[k] = IF k = m THEN x ELSE IF k < i THEN s[k] ELSE s[k + 1]
<1>1. /\ d \in Seq(S) /\ Len(d) = m - 1
      /\ \A k \in 1..(m - 1) : d[k] = IF k < i THEN s[k] ELSE s[k + 1]
  <2>1. CASE i <= n
    <3>1. i \in 1..n /\ d = RemoveAt(s, i) /\ m = n
      BY <2>1
    <3>2. RemoveAt(s, i) \in Seq(S)
      BY <3>1, RemoveAtShape
    <3>3. Len(RemoveAt(s, i)) = n - 1
      BY <3>1, RemoveAtShape
    <3>4. \A k \in 1..(n - 1) : RemoveAt(s, i)[k] = IF k < i THEN s[k] ELSE s[k + 1]
      BY <3>1, RemoveAtShape
    <3>5. QED
      BY <3>1, <3>2, <3>3, <3>4
  <2>2. CASE i = n + 1
    BY <2>2
  <2>3. QED
    BY <2>1, <2>2
<1>2. /\ Append(d, x) \in Seq(S) /\ Len(Append(d, x)) = m
      /\ \A k \in 1..(m - 1) : Append(d, x)[k] = d[k]
      /\ Append(d, x)[m] = x
  BY <1>1, AppendProperties
<1>3. QED
  BY <1>1, <1>2

\* What a hit or a store makes of the cache and of the order of the roots.
LEMMA LruMoves ==
  ASSUME Lru(cache, recent), NEW e \in PlanEntry
  PROVE  LET c == Evicted(Append(Others(e.root), e))
         IN  /\ Lru(c, Append(OtherRoots(e.root), e.root))
             /\ \A k \in 1..Len(c) : c[k] = e \/ \E h \in 1..Len(cache) : c[k] = cache[h]
             /\ (\E h \in 1..Len(cache) : cache[h].root = e.root) => c = Append(Others(e.root), e)
<1> DEFINE r == e.root
<1>1. PICK L \in Nat, n \in Nat : L = Len(recent) /\ n = Len(cache)
  BY DEF Lru
<1>2. /\ cache \in Seq(PlanEntry) /\ recent \in Seq(Roots) /\ r \in Roots
      /\ \A i, j \in 1..L : recent[i] = recent[j] => i = j
      /\ n = Lesser(Cap, L) /\ Cap \in Nat /\ Cap >= 1
      /\ \A i \in 1..n : cache[i].root = recent[L - n + i]
  BY <1>1, CapAssumption DEF Lru, PlanEntry
<1> HIDE DEF r
<1>3. PICK i \in 1..(n + 1) :
        /\ i <= n => cache[i].root = r /\ Others(r) = RemoveAt(cache, i)
        /\ i = n + 1 => (\A k \in 1..n : cache[k].root # r) /\ Others(r) = cache
  <2>1. ASSUME NEW k \in 1..n, cache[k].root = r, Others(r) = RemoveAt(cache, k)
        PROVE  \E h \in 1..(n + 1) : /\ h <= n => cache[h].root = r /\ Others(r) = RemoveAt(cache, h)
                                     /\ h = n + 1 => (\A g \in 1..n : cache[g].root # r) /\ Others(r) = cache
    <3>1. k \in 1..(n + 1) /\ k # n + 1
      OBVIOUS
    <3>2. QED
      BY <2>1, <3>1
  <2>2. ASSUME \A k \in 1..n : cache[k].root # r, Others(r) = cache
        PROVE  \E h \in 1..(n + 1) : /\ h <= n => cache[h].root = r /\ Others(r) = RemoveAt(cache, h)
                                     /\ h = n + 1 => (\A g \in 1..n : cache[g].root # r) /\ Others(r) = cache
    <3>1. n + 1 \in 1..(n + 1) /\ ~(n + 1 <= n)
      OBVIOUS
    <3>2. QED
      BY <2>2, <3>1
  <2>3. QED
    BY <1>1, <1>2, <2>1, <2>2, OthersShape
<1>4. PICK j \in 1..(L + 1) :
        /\ j <= L => recent[j] = r /\ OtherRoots(r) = RemoveAt(recent, j)
        /\ j = L + 1 => (\A k \in 1..L : recent[k] # r) /\ OtherRoots(r) = recent
  <2>1. ASSUME NEW k \in 1..L, recent[k] = r, OtherRoots(r) = RemoveAt(recent, k)
        PROVE  \E h \in 1..(L + 1) : /\ h <= L => recent[h] = r /\ OtherRoots(r) = RemoveAt(recent, h)
                                     /\ h = L + 1 => (\A g \in 1..L : recent[g] # r) /\ OtherRoots(r) = recent
    <3>1. k \in 1..(L + 1) /\ k # L + 1
      OBVIOUS
    <3>2. QED
      BY <2>1, <3>1
  <2>2. ASSUME \A k \in 1..L : recent[k] # r, OtherRoots(r) = recent
        PROVE  \E h \in 1..(L + 1) : /\ h <= L => recent[h] = r /\ OtherRoots(r) = RemoveAt(recent, h)
                                     /\ h = L + 1 => (\A g \in 1..L : recent[g] # r) /\ OtherRoots(r) = recent
    <3>1. L + 1 \in 1..(L + 1) /\ ~(L + 1 <= L)
      OBVIOUS
    <3>2. QED
      BY <2>2, <3>1
  <2>3. QED
    BY <1>1, <1>2, <2>1, <2>2, OtherRootsShape
<1>5. PICK m \in Nat, M \in Nat : /\ m = IF i <= n THEN n ELSE n + 1
                                  /\ M = IF j <= L THEN L ELSE L + 1
  OBVIOUS
<1> DEFINE a == Append(Others(r), e)
           g == Append(OtherRoots(r), r)
<1>6. /\ a \in Seq(PlanEntry) /\ Len(a) = m
      /\ \A k \in 1..m : a[k] = IF k = m THEN e ELSE IF k < i THEN cache[k] ELSE cache[k + 1]
  <2>1. (i <= n => Others(r) = RemoveAt(cache, i)) /\ (i = n + 1 => Others(r) = cache)
    BY <1>3
  <2>2. cache \in Seq(PlanEntry) /\ n = Len(cache)
    BY <1>1, <1>2
  <2> HIDE DEF a
  <2>3. /\ Append(Others(r), e) \in Seq(PlanEntry) /\ Len(Append(Others(r), e)) = m
        /\ \A k \in 1..m : Append(Others(r), e)[k] =
              IF k = m THEN e ELSE IF k < i THEN cache[k] ELSE cache[k + 1]
    BY <1>5, <2>1, <2>2, MovedLast
  <2>4. QED
    BY <2>3 DEF a
<1>7. /\ g \in Seq(Roots) /\ Len(g) = M
      /\ \A k \in 1..M : g[k] = IF k = M THEN r ELSE IF k < j THEN recent[k] ELSE recent[k + 1]
  <2>1. (j <= L => OtherRoots(r) = RemoveAt(recent, j)) /\ (j = L + 1 => OtherRoots(r) = recent)
    BY <1>4
  <2>2. recent \in Seq(Roots) /\ L = Len(recent) /\ r \in Roots
    BY <1>1, <1>2
  <2> HIDE DEF g
  <2>3. /\ Append(OtherRoots(r), r) \in Seq(Roots) /\ Len(Append(OtherRoots(r), r)) = M
        /\ \A k \in 1..M : Append(OtherRoots(r), r)[k] =
              IF k = M THEN r ELSE IF k < j THEN recent[k] ELSE recent[k + 1]
    BY <1>5, <2>1, <2>2, MovedLast
  <2>4. QED
    BY <2>3 DEF g
<1> HIDE DEF a, g
\* The same root at the same place of both, unless the cache has evicted it.
<1>8. /\ i <= n => j = L - n + i
      /\ i = n + 1 => j <= L - n \/ j = L + 1
      /\ n <= Cap /\ n <= L /\ (n < Cap => n = L)
  <2>1. n <= Cap /\ n <= L /\ (n < Cap => n = L)
    BY <1>2 DEF Lesser
  <2>2. ASSUME i <= n PROVE j = L - n + i
    <3>1. L - n + i \in 1..L /\ recent[L - n + i] = r
      <4>1. i \in 1..n /\ cache[i].root = r
        BY <1>3, <2>2
      <4>2. recent[L - n + i] = r
        BY <1>2, <4>1
      <4>3. QED
        BY <2>1, <4>1, <4>2
    <3>2. j <= L
      BY <1>4, <3>1
    <3>3. j \in 1..L /\ recent[j] = r
      BY <1>4, <3>2
    <3>4. QED
      BY <1>2, <3>1, <3>3
  <2>3. ASSUME i = n + 1, j <= L PROVE j <= L - n
    <3>1. ASSUME j > L - n PROVE FALSE
      <4>1. j - (L - n) \in 1..n /\ L - n + (j - (L - n)) = j
        BY <2>3, <3>1
      <4>2. cache[j - (L - n)].root = r
        BY <1>2, <1>4, <2>3, <4>1
      <4>3. QED
        BY <1>3, <2>3, <4>1, <4>2
    <3>2. QED
      BY <3>1
  <2>4. QED
    BY <2>1, <2>2, <2>3
<1>9. \A h, k \in 1..M : g[h] = g[k] => h = k
  <2>1. ASSUME NEW k \in 1..(M - 1)
        PROVE  \E h \in 1..L : g[k] = recent[h] /\ h # j /\ h = IF k < j THEN k ELSE k + 1
    BY <1>5, <1>7
  <2>2. ASSUME NEW h \in 1..L, h # j PROVE recent[h] # r
    <3>1. j <= L => j \in 1..L /\ recent[j] = r
      BY <1>4
    <3>2. ~(j <= L) => j = L + 1
      OBVIOUS
    <3>3. QED
      BY <1>2, <1>4, <2>2, <3>1, <3>2
  <2>3. ASSUME NEW h \in 1..M, NEW k \in 1..M, g[h] = g[k], h # M, k # M PROVE h = k
    <3>1. h \in 1..(M - 1) /\ k \in 1..(M - 1)
      BY <2>3
    <3>2. PICK a1 \in 1..L : g[h] = recent[a1] /\ a1 # j /\ a1 = IF h < j THEN h ELSE h + 1
      BY <2>1, <3>1
    <3>3. PICK a2 \in 1..L : g[k] = recent[a2] /\ a2 # j /\ a2 = IF k < j THEN k ELSE k + 1
      BY <2>1, <3>1
    <3>4. a1 = a2
      BY <1>2, <2>3, <3>2, <3>3
    <3>5. QED
      BY <3>2, <3>3, <3>4
  <2>4. ASSUME NEW k \in 1..M, k # M PROVE g[k] # r
    BY <2>1, <2>2, <2>4
  <2>5. M \in 1..M /\ g[M] = r
    BY <1>5, <1>7
  <2>6. QED
    BY <2>3, <2>4, <2>5
<1>10. CASE m <= Cap
  <2>1. Evicted(a) = a
    BY <1>2, <1>5, <1>6, <1>10 DEF Evicted
  <2>2. m = Lesser(Cap, M)
    BY <1>2, <1>5, <1>8, <1>10 DEF Lesser
  <2>3. ASSUME NEW k \in 1..m PROVE a[k].root = g[M - m + k]
    <3>1. CASE k = m
      BY <1>5, <1>6, <1>7, <1>8, <3>1, <1>10 DEF r
    <3>2. CASE i <= n /\ k # m
      <4>1. M = L /\ m = n /\ j = L - n + i /\ L - n + k \in 1..(M - 1)
            /\ (k < i => L - n + k < j) /\ (~(k < i) => ~(L - n + k < j))
        BY <1>5, <1>8, <3>2
      <4>2. k < i => a[k].root = recent[L - n + k] /\ g[L - n + k] = recent[L - n + k]
        <5>1. k \in 1..n /\ cache[k].root = recent[L - n + k] /\ L - n + k \in 1..M /\ L - n + k # M
          <6>1. k \in 1..n /\ L - n + k \in 1..M /\ L - n + k # M
            BY <4>1
          <6>2. QED
            BY <1>2, <6>1
        <5>2. k < i => a[k] = cache[k]
          BY <1>6, <3>2
        <5>3. k < i => g[L - n + k] = recent[L - n + k]
          BY <1>7, <4>1, <5>1
        <5>4. QED
          BY <5>1, <5>2, <5>3
      <4>3. ~(k < i) => a[k] = cache[k + 1] /\ g[L - n + k] = recent[L - n + k + 1]
        BY <1>6, <1>7, <3>2, <4>1
      <4>4. k + 1 \in 1..n /\ L - n + (k + 1) = L - n + k + 1
        BY <3>2, <4>1
      <4>5. cache[k + 1].root = recent[L - n + k + 1]
        BY <1>2, <4>4
      <4>6. QED
        BY <4>1, <4>2, <4>3, <4>5
    <3>3. CASE i = n + 1 /\ k # m
      <4>1. n = L /\ m = n + 1 /\ M = n + 1 /\ j = L + 1 /\ k \in 1..n
        <5>1. m = n + 1 /\ n < Cap /\ n = L
          BY <1>2, <1>5, <1>8, <1>10, <3>3
        <5>2. ~(j <= L - n)
          BY <5>1
        <5>3. j = L + 1
          BY <1>8, <3>3, <5>2
        <5>4. QED
          BY <1>5, <3>3, <5>1, <5>3
      <4>2. a[k] = cache[k] /\ g[k] = recent[k] /\ cache[k].root = recent[k]
        BY <1>2, <1>6, <1>7, <3>3, <4>1
      <4>3. QED
        BY <4>1, <4>2
    <3>4. QED
      BY <1>5, <3>1, <3>2, <3>3
  <2>4. Lru(a, g)
    BY <1>6, <1>7, <1>9, <2>2, <2>3 DEF Lru
  <2>5. ASSUME NEW k \in 1..m PROVE a[k] = e \/ \E h \in 1..n : a[k] = cache[h]
    <3>1. k # m => k \in 1..n /\ (~(k < i) => k + 1 \in 1..n)
      BY <1>5, <2>5
    <3>2. QED
      BY <1>6, <3>1
  <2>6. QED
    BY <1>1, <1>6, <2>1, <2>4, <2>5 DEF a, g, r
<1>11. CASE m > Cap
  <2>1. m = n + 1 /\ n = Cap /\ i = n + 1
    BY <1>2, <1>5, <1>8, <1>11
  <2>2. Evicted(a) = SubSeq(a, 2, n + 1)
    BY <1>6, <2>1 DEF Evicted
  <2>3. PICK b \in Seq(PlanEntry) : /\ b = SubSeq(a, 2, n + 1) /\ Len(b) = n
                                    /\ \A k \in 1..n : b[k] = a[k + 1]
    <3>1. \A k \in 2..(n + 1) : a[k] \in PlanEntry
      BY <1>6, <2>1
    <3>2. /\ SubSeq(a, 2, n + 1) \in Seq(PlanEntry) /\ Len(SubSeq(a, 2, n + 1)) = n
          /\ \A k \in 1..n : SubSeq(a, 2, n + 1)[k] = a[k + 1]
      BY <1>2, <2>1, <3>1, SubSeqProperties
    <3>3. QED
      BY <3>2
  <2>4. n = Lesser(Cap, M)
    BY <1>2, <1>5, <1>8, <2>1 DEF Lesser
  <2>5. ASSUME NEW k \in 1..n PROVE b[k].root = g[M - n + k]
    <3>1. CASE k = n
      BY <1>5, <1>6, <1>7, <2>1, <2>3, <3>1 DEF r
    <3>2. CASE k # n
      <4>1. /\ k + 1 \in 1..n /\ M - n + k \in 1..(M - 1) /\ L - n + k + 1 = L - n + (k + 1)
            /\ M - n + k = IF j <= L THEN L - n + k ELSE L - n + k + 1
        <5>1. n <= L /\ k < n
          BY <1>8, <3>2
        <5>2. QED
          BY <1>5, <5>1
      <4>2. b[k].root = recent[L - n + k + 1]
        <5>1. b[k] = a[k + 1] /\ k + 1 \in 1..m /\ k + 1 # m /\ k + 1 < i
          BY <2>1, <2>3, <4>1
        <5>2. a[k + 1] = cache[k + 1]
          BY <1>6, <5>1
        <5>3. cache[k + 1].root = recent[L - n + (k + 1)]
          BY <1>2, <4>1
        <5>4. QED
          BY <4>1, <5>1, <5>2, <5>3
      <4>3. CASE j <= L
        <5>1. M - n + k = L - n + k /\ ~(L - n + k < j)
          BY <1>8, <2>1, <4>1, <4>3
        <5>2. L - n + k \in 1..M /\ L - n + k # M
          BY <4>1, <5>1
        <5>3. g[L - n + k] = recent[L - n + k + 1]
          BY <1>7, <5>1, <5>2
        <5>4. QED
          BY <4>2, <5>1, <5>3
      <4>4. CASE j = L + 1
        BY <1>7, <4>1, <4>2, <4>4, <1>5
      <4>5. QED
        BY <4>3, <4>4
    <3>3. QED
      BY <3>1, <3>2
  <2>6. Lru(b, g)
    BY <1>7, <1>9, <2>3, <2>4, <2>5 DEF Lru
  <2>7. ASSUME NEW k \in 1..n PROVE b[k] = e \/ \E h \in 1..n : b[k] = cache[h]
    <3>1. b[k] = a[k + 1] /\ k + 1 \in 1..m /\ (k # n => k + 1 \in 1..n /\ k + 1 # m /\ k + 1 < i)
      BY <2>1, <2>3
    <3>2. k = n => a[k + 1] = e
      BY <1>6, <2>1, <3>1
    <3>3. k # n => a[k + 1] = cache[k + 1]
      BY <1>6, <3>1
    <3>4. QED
      BY <3>1, <3>2, <3>3
  <2>8. Evicted(a) = b /\ Len(b) = n
    BY <2>2, <2>3
  <2>9. ~\E h \in 1..Len(cache) : cache[h].root = r
    BY <1>1, <1>3, <2>1
  <2>10. QED
    BY <1>1, <2>6, <2>7, <2>8, <2>9 DEF a, g, r
<1>12. QED
  BY <1>2, <1>5, <1>10, <1>11

-----------------------------------------------------------------------------
(* The plan cache: what a call returns *)

PlanCalls ==
       [pc : {"idle"}] \cup [pc : {"stat"}, root : Roots]
  \cup [pc : {"lookup", "parse"}, root : Roots, sig : Nat]
  \cup [pc : {"store"}, root : Roots, sig : Nat, plan : Nat]
  \cup [pc : {"returned"}, root : Roots, plan : Nat]

PlanTypeOK ==
  /\ disk \in [Roots -> Nat] /\ writes \in Nat /\ \A r \in Roots : disk[r] <= writes
  /\ parsed \in Seq(Nat) /\ call \in [Threads -> PlanCalls] /\ seen = [t \in Threads |-> seen[t]]

\* The entries of the cache, and those about to be stored.
Known == {cache[i] : i \in 1..Len(cache)} \cup {Entry(t) : t \in {u \in Threads : call[u].pc = "store"}}

\* The plan of an entry is of the file that has its signature, as long as that is there.
Fresh(e) == /\ e.sig \in 1..writes /\ e.plan \in 1..Len(parsed)
            /\ disk[e.root] = e.sig => parsed[e.plan] = e.sig

\* What the call c of a thread that has seen the files s will answer is one of them.
CallOK(c, s) ==
  /\ c.pc # "idle" => disk[c.root] \in s
  /\ c.pc \in {"lookup", "parse"} => c.sig \in 1..writes
  /\ c.pc = "lookup" =>
       \A e \in Known : e.root = c.root /\ e.sig = c.sig => parsed[e.plan] \in s
  /\ c.pc \in {"store", "returned"} => c.plan \in 1..Len(parsed) /\ parsed[c.plan] \in s

PlanInv ==
  /\ PlanTypeOK /\ Lru(cache, recent)
  /\ \A e \in Known : Fresh(e)
  /\ \A t \in Threads : CallOK(call[t], seen[t])

LEMMA PlanShape ==
  ASSUME PlanTypeOK, NEW t \in Threads
  PROVE  /\ call[t].pc \in {"idle", "stat", "lookup", "parse", "store", "returned"}
         /\ call[t].pc # "idle" => call[t].root \in Roots
         /\ call[t].pc \in {"lookup", "parse", "store"} => call[t].sig \in Nat
         /\ call[t].pc \in {"store", "returned"} => call[t].plan \in Nat
BY DEF PlanTypeOK, PlanCalls

LEMMA KnownMoves ==
  ASSUME PlanTypeOK, NEW t \in Threads, NEW c, c.pc # "store", call' = [call EXCEPT ![t] = c],
         \A i \in 1..Len(cache') : cache'[i] \in Known
  PROVE  Known' \subseteq Known
<1>1. \A u \in Threads : call'[u] = IF u = t THEN c ELSE call[u]
  BY DEF PlanTypeOK
<1>2. ASSUME NEW u \in Threads, call'[u].pc = "store" PROVE Entry(u)' \in Known
  BY <1>1, <1>2 DEF Known, Entry
<1>3. QED
  BY <1>2 DEF Known, Entry

LEMMA CallerMoves ==
  ASSUME PlanInv, NEW t \in Threads, NEW c \in PlanCalls, call' = [call EXCEPT ![t] = c],
         UNCHANGED <<disk, writes, parsed, seen>>, Lru(cache, recent)', Known' \subseteq Known,
         CallOK(c, seen[t])
  PROVE  PlanInv'
<1>1. PlanTypeOK'
  BY DEF PlanInv, PlanTypeOK
<1>2. \A e \in Known' : Fresh(e)'
  BY DEF PlanInv, Fresh
<1>3. \A u \in Threads : call'[u] = IF u = t THEN c ELSE call[u]
  BY DEF PlanInv, PlanTypeOK
<1>4. ASSUME NEW u \in Threads PROVE CallOK(call'[u], seen[u])
  BY <1>3 DEF PlanInv
<1>5. ASSUME NEW u \in Threads PROVE CallOK(call[u], seen[u])'
  BY <1>4 DEF CallOK
<1>6. QED
  BY <1>1, <1>2, <1>5 DEF PlanInv

\* A step that leaves the cache alone.
LEMMA CacheUnchanged ==
  ASSUME PlanInv, UNCHANGED <<cache, recent>>
  PROVE  Lru(cache, recent)' /\ \A i \in 1..Len(cache') : cache'[i] \in Known
BY DEF PlanInv, Lru, Known

LEMMA OpenPlanKeeps ==
  ASSUME PlanInv, NEW t \in Threads, OpenPlan(t) PROVE PlanInv'
<1>1. PICK r \in Roots : /\ call' = [call EXCEPT ![t] = [pc |-> "stat", root |-> r]]
                         /\ seen' = [seen EXCEPT ![t] = {disk[r]}]
                         /\ UNCHANGED <<disk, writes, cache, parsed, recent>>
  BY DEF OpenPlan
<1>2. [pc |-> "stat", root |-> r] \in PlanCalls
  BY DEF PlanCalls
<1>3. PlanTypeOK'
  BY <1>1, <1>2 DEF PlanInv, PlanTypeOK
<1>4. Lru(cache, recent)' /\ Known' \subseteq Known
  BY <1>1, CacheUnchanged, KnownMoves DEF PlanInv
<1>5. \A e \in Known' : Fresh(e)'
  BY <1>1, <1>4 DEF PlanInv, Fresh
<1>6. ASSUME NEW u \in Threads PROVE CallOK(call[u], seen[u])'
  <2>1. CASE u = t
    <3>1. call'[u] = [pc |-> "stat", root |-> r] /\ seen'[u] = {disk[r]}
      BY <1>1, <2>1 DEF PlanInv, PlanTypeOK
    <3>2. QED
      BY <1>1, <3>1 DEF CallOK
  <2>2. CASE u # t
    <3>1. call'[u] = call[u] /\ seen'[u] = seen[u] /\ CallOK(call[u], seen[u])
      BY <1>1, <2>2 DEF PlanInv, PlanTypeOK
    <3>2. QED
      BY <1>1, <1>4, <3>1 DEF CallOK
  <2>3. QED
    BY <2>1, <2>2
<1>7. QED
  BY <1>3, <1>4, <1>5, <1>6 DEF PlanInv

\* At the stat, an entry with the signature of the file that is there is of that file.
LEMMA StatPlanKeeps ==
  ASSUME PlanInv, NEW t \in Threads, StatZarrJson(t) PROVE PlanInv'
<1>1. call[t].pc = "stat" /\ call[t].root \in Roots
      /\ UNCHANGED <<disk, writes, cache, parsed, seen, recent>>
  BY PlanShape DEF PlanInv, StatZarrJson
<1> DEFINE sig == disk[call[t].root]
           looks == [pc |-> "lookup", root |-> call[t].root, sig |-> sig]
<1>2. call' = [call EXCEPT ![t] = IF sig = 0 THEN NoOpening ELSE looks]
  BY DEF StatZarrJson
<1>3. sig \in Nat /\ sig <= writes /\ writes \in Nat /\ disk[call[t].root] \in seen[t]
  BY <1>1 DEF PlanInv, PlanTypeOK, CallOK
<1>4. NoOpening \in PlanCalls /\ CallOK(NoOpening, seen[t]) /\ NoOpening.pc # "store"
  BY DEF PlanCalls, NoOpening, CallOK
<1>5. looks \in PlanCalls /\ looks.pc # "store"
  BY <1>1, <1>3 DEF PlanCalls
<1>6. sig # 0 => CallOK(looks, seen[t])
  <2>1. \A e \in Known : e.root = call[t].root /\ e.sig = sig => parsed[e.plan] = sig
    BY DEF PlanInv, Fresh
  <2>2. QED
    BY <1>3, <2>1 DEF CallOK
<1>7. Lru(cache, recent)' /\ \A i \in 1..Len(cache') : cache'[i] \in Known
  BY <1>1, CacheUnchanged
<1> HIDE DEF looks, sig
<1>8. CASE sig = 0
  <2>1. Known' \subseteq Known
    BY <1>2, <1>4, <1>7, <1>8, KnownMoves DEF PlanInv
  <2>2. QED
    BY <1>1, <1>2, <1>4, <1>7, <1>8, <2>1, CallerMoves
<1>9. CASE sig # 0
  <2>1. Known' \subseteq Known
    BY <1>2, <1>5, <1>7, <1>9, KnownMoves DEF PlanInv
  <2>2. QED
    BY <1>1, <1>2, <1>5, <1>6, <1>7, <1>9, <2>1, CallerMoves
<1>10. QED
  BY <1>8, <1>9

LEMMA HitKeeps ==
  ASSUME PlanInv, NEW t \in Threads, Hit(t) PROVE PlanInv'
<1>1. PICK e \in Entries(t) : /\ cache' = Append(Others(e.root), e)
                              /\ recent' = Append(OtherRoots(e.root), e.root)
                              /\ Answers(t, e.plan)
  BY DEF Hit
<1>2. call[t].pc = "lookup" /\ call[t].root \in Roots /\ UNCHANGED <<disk, writes, parsed, seen>>
      /\ CallOK(call[t], seen[t])
  BY PlanShape DEF PlanInv, Hit
<1>3. e \in Known /\ e \in PlanEntry /\ e.root = call[t].root /\ e.sig = call[t].sig
  BY DEF Entries, Known, PlanInv, Lru
<1> DEFINE c == [pc |-> "returned", root |-> call[t].root, plan |-> e.plan]
<1>4. call' = [call EXCEPT ![t] = c]
  BY <1>1 DEF Answers
<1>5. c \in PlanCalls /\ c.pc = "returned" /\ c.root = call[t].root /\ c.plan = e.plan
  BY <1>2, <1>3 DEF PlanCalls, PlanEntry
<1> HIDE DEF c
<1>6. CallOK(c, seen[t])
  BY <1>2, <1>3, <1>5 DEF CallOK, PlanInv, Fresh
<1>7. Lru(cache, recent)' /\ \A i \in 1..Len(cache') : cache'[i] \in Known
  <2>1. \E h \in 1..Len(cache) : cache[h] = e
    BY DEF Entries, PlanInv, Lru
  <2>2. /\ Evicted(cache') = cache' /\ Lru(Evicted(cache'), recent')
        /\ \A k \in 1..Len(cache') : cache'[k] = e \/ \E h \in 1..Len(cache) : cache'[k] = cache[h]
    <3>1. e \in PlanEntry /\ Lru(cache, recent) /\ \E h \in 1..Len(cache) : cache[h].root = e.root
      BY <1>3, <2>1 DEF PlanInv
    <3>2. PICK a : a = Append(Others(e.root), e)
      OBVIOUS
    <3>3. PICK g : g = Append(OtherRoots(e.root), e.root)
      OBVIOUS
    <3>4. /\ Lru(Evicted(a), g) /\ Evicted(a) = a
          /\ \A k \in 1..Len(Evicted(a)) : Evicted(a)[k] = e \/ \E h \in 1..Len(cache) : Evicted(a)[k] = cache[h]
      BY <3>1, <3>2, <3>3, LruMoves
    <3>5. cache' = a /\ recent' = g
      BY <1>1, <3>2, <3>3
    <3>6. QED
      BY <3>4, <3>5
  <2>3. QED
    BY <1>3, <2>2 DEF Known, Lru
<1>8. QED
  BY <1>2, <1>4, <1>5, <1>6, <1>7, KnownMoves, CallerMoves DEF PlanInv

LEMMA MissKeeps ==
  ASSUME PlanInv, NEW t \in Threads, Miss(t) PROVE PlanInv'
<1>1. /\ call[t].pc = "lookup" /\ call' = [call EXCEPT ![t].pc = "parse"]
      /\ UNCHANGED <<disk, writes, cache, parsed, seen, recent>>
  BY DEF Miss
<1>2. PICK x \in [pc : {"lookup", "parse"}, root : Roots, sig : Nat] : x = call[t] /\ CallOK(x, seen[t])
  BY <1>1 DEF PlanInv, PlanTypeOK, PlanCalls
<1> DEFINE c == [x EXCEPT !.pc = "parse"]
<1>3. call' = [call EXCEPT ![t] = c]
  BY <1>1, <1>2
<1>4. c \in PlanCalls /\ c.pc = "parse" /\ c.root = x.root /\ c.sig = x.sig
  BY DEF PlanCalls
<1> HIDE DEF c
<1>5. CallOK(c, seen[t])
  BY <1>1, <1>2, <1>4 DEF CallOK
<1>6. Lru(cache, recent)' /\ \A i \in 1..Len(cache') : cache'[i] \in Known
  BY <1>1, CacheUnchanged
<1>7. Known' \subseteq Known
  BY <1>3, <1>4, <1>6, KnownMoves DEF PlanInv
<1>8. UNCHANGED <<disk, writes, parsed, seen>>
  BY <1>1
<1>9. QED
  BY <1>3, <1>4, <1>5, <1>6, <1>7, <1>8, CallerMoves

\* The file has been written or removed since the stat, or it is the one that was there.
LEMMA ParseKeeps ==
  ASSUME PlanInv, NEW t \in Threads, Parse(t) PROVE PlanInv'
<1>1. /\ call[t].pc = "parse" /\ UNCHANGED <<disk, writes, cache, seen, recent>>
  BY DEF Parse
<1>2. PICK x \in [pc : {"lookup", "parse"}, root : Roots, sig : Nat] : x = call[t] /\ CallOK(x, seen[t])
  BY <1>1 DEF PlanInv, PlanTypeOK, PlanCalls
<1>3. PICK f \in Nat : f = disk[x.root]
  BY DEF PlanInv, PlanTypeOK
<1>4. Lru(cache, recent)' /\ \A i \in 1..Len(cache') : cache'[i] \in Known
  BY <1>1, CacheUnchanged
<1>5. CASE f = 0
  <2>1. call' = [call EXCEPT ![t] = NoOpening] /\ UNCHANGED parsed
    BY <1>2, <1>3, <1>5 DEF Parse
  <2>2. NoOpening \in PlanCalls /\ CallOK(NoOpening, seen[t]) /\ NoOpening.pc # "store"
    BY DEF PlanCalls, NoOpening, CallOK
  <2>3. Known' \subseteq Known
    BY <1>4, <2>1, <2>2, KnownMoves DEF PlanInv
  <2>4. QED
    BY <1>1, <1>4, <2>1, <2>2, <2>3, CallerMoves
<1>6. CASE f # 0
  <2>1. PICK n \in Nat : n = Len(parsed) + 1
    BY DEF PlanInv, PlanTypeOK
  <2> DEFINE c == [pc |-> "store", root |-> x.root, sig |-> x.sig, plan |-> n]
             e == [root |-> x.root, sig |-> x.sig, plan |-> n]
  <2>2. call' = [call EXCEPT ![t] = c] /\ parsed' = Append(parsed, f)
    BY <1>2, <1>3, <1>6, <2>1 DEF Parse
  <2>3. /\ parsed' \in Seq(Nat) /\ Len(parsed') = n /\ parsed'[n] = f
        /\ \A i \in 1..Len(parsed) : i \in 1..n /\ parsed'[i] = parsed[i]
    BY <2>1, <2>2 DEF PlanInv, PlanTypeOK
  <2>4. c \in PlanCalls
    BY DEF PlanCalls
  <2>5. \A u \in Threads : call'[u] = IF u = t THEN c ELSE call[u]
    BY <2>2 DEF PlanInv, PlanTypeOK
  <2>6. Known' \subseteq Known \cup {e}
    <3>1. \A i \in 1..Len(cache') : cache'[i] \in Known
      BY <1>4
    <3>2. ASSUME NEW u \in Threads, call'[u].pc = "store" PROVE Entry(u)' \in Known \cup {e}
      BY <2>5, <3>2 DEF Known, Entry
    <3>3. SUFFICES ASSUME NEW z \in Known' PROVE z \in Known \cup {e}
      OBVIOUS
    <3>4. \/ \E i \in 1..Len(cache') : z = cache'[i]
          \/ \E u \in Threads : call'[u].pc = "store" /\ z = Entry(u)'
      BY <3>3 DEF Known
    <3>5. QED
      BY <3>1, <3>2, <3>4
  <2>7. /\ c.pc = "store" /\ c.root = x.root /\ c.sig = x.sig /\ c.plan = n
        /\ e.root = x.root /\ e.sig = x.sig /\ e.plan = n
    OBVIOUS
  <2> HIDE DEF c, e
  <2>8. f \in seen[t] /\ x.sig \in 1..writes /\ n \in 1..n
    BY <1>2, <1>3, <2>1 DEF CallOK
  <2>9. PlanTypeOK'
    BY <1>1, <2>2, <2>3, <2>4 DEF PlanInv, PlanTypeOK
  <2>10. ASSUME NEW k \in Known' PROVE Fresh(k)'
    <3>1. CASE k \in Known
      BY <1>1, <2>3, <3>1 DEF PlanInv, Fresh
    <3>2. CASE k = e
      BY <1>1, <1>3, <2>3, <2>7, <2>8, <3>2 DEF Fresh
    <3>3. QED
      BY <2>6, <3>1, <3>2
  <2>11. ASSUME NEW u \in Threads PROVE CallOK(call[u], seen[u])'
    <3>1. CASE u = t
      BY <1>1, <1>2, <2>3, <2>5, <2>7, <2>8, <3>1 DEF CallOK
    <3>2. CASE u # t
      <4>1. call'[u] = call[u] /\ CallOK(call[u], seen[u])
        BY <2>5, <3>2 DEF PlanInv
      <4>2. ASSUME call[u].pc = "lookup", NEW k \in Known', k.root = call[u].root, k.sig = call[u].sig
            PROVE  parsed'[k.plan] \in seen[u]
        <5>1. CASE k \in Known
          BY <2>3, <4>1, <4>2, <5>1 DEF CallOK, PlanInv, Fresh
        <5>2. CASE k = e
          BY <1>3, <2>3, <2>7, <4>1, <4>2, <5>2 DEF CallOK
        <5>3. QED
          BY <2>6, <5>1, <5>2
      <4>3. call[u].pc \in {"store", "returned"} =>
              call[u].plan \in 1..n /\ parsed'[call[u].plan] \in seen[u]
        BY <2>3, <4>1 DEF CallOK
      <4>4. QED
        BY <1>1, <2>3, <4>1, <4>2, <4>3 DEF CallOK
    <3>3. QED
      BY <3>1, <3>2
  <2>12. QED
    BY <1>4, <2>9, <2>10, <2>11 DEF PlanInv
<1>7. QED
  BY <1>5, <1>6

LEMMA StoreKeeps ==
  ASSUME PlanInv, NEW t \in Threads, Store(t) PROVE PlanInv'
<1>1. /\ call[t].pc = "store" /\ cache' = Evicted(Append(Others(call[t].root), Entry(t)))
      /\ recent' = Append(OtherRoots(call[t].root), call[t].root)
      /\ UNCHANGED <<disk, writes, parsed, seen>>
  BY DEF Store, Stored
<1> DEFINE c == [pc |-> "returned", root |-> call[t].root, plan |-> call[t].plan]
<1>2. call' = [call EXCEPT ![t] = c] /\ call[t].root \in Roots /\ call[t].plan \in Nat
      /\ call[t].sig \in Nat /\ CallOK(call[t], seen[t])
  BY <1>1, PlanShape DEF Store, Answers, PlanInv
<1>3. c \in PlanCalls /\ c.pc = "returned" /\ c.root = call[t].root /\ c.plan = call[t].plan
  BY <1>2 DEF PlanCalls
<1> HIDE DEF c
<1>4. Entry(t) \in PlanEntry /\ Entry(t) \in Known /\ Entry(t).root = call[t].root
  BY <1>1, <1>2 DEF Entry, PlanEntry, Known
<1>5. CallOK(c, seen[t])
  BY <1>1, <1>2, <1>3 DEF CallOK
<1>6. /\ Lru(cache', recent')
      /\ \A k \in 1..Len(cache') : cache'[k] = Entry(t) \/ \E h \in 1..Len(cache) : cache'[k] = cache[h]
  BY <1>1, <1>4, LruMoves DEF PlanInv
<1>7. Lru(cache, recent)' /\ \A k \in 1..Len(cache') : cache'[k] \in Known
  BY <1>4, <1>6 DEF Known, Lru
<1>8. Known' \subseteq Known
  BY <1>2, <1>3, <1>7, KnownMoves DEF PlanInv
<1>9. QED
  BY <1>1, <1>2, <1>3, <1>5, <1>7, <1>8, CallerMoves

LEMMA ReturnPlanKeeps ==
  ASSUME PlanInv, NEW t \in Threads, ReturnPlan(t) PROVE PlanInv'
<1>1. call' = [call EXCEPT ![t] = NoOpening] /\ UNCHANGED <<disk, writes, cache, parsed, seen, recent>>
  BY DEF ReturnPlan
<1>2. NoOpening \in PlanCalls /\ CallOK(NoOpening, seen[t]) /\ NoOpening.pc # "store"
  BY DEF PlanCalls, NoOpening, CallOK
<1>3. Lru(cache, recent)' /\ \A i \in 1..Len(cache') : cache'[i] \in Known
  BY <1>1, CacheUnchanged
<1>4. Known' \subseteq Known
  BY <1>1, <1>2, <1>3, KnownMoves DEF PlanInv
<1>5. QED
  BY <1>1, <1>2, <1>3, <1>4, CallerMoves

LEMMA ClearKeeps ==
  ASSUME PlanInv, Clear PROVE PlanInv'
<1>1. cache' = <<>> /\ recent' = <<>> /\ UNCHANGED <<disk, writes, parsed, call, seen>>
  BY DEF Clear
<1>2. PlanTypeOK'
  BY <1>1 DEF PlanInv, PlanTypeOK
<1>3. Lru(<<>>, <<>>)
  <2>1. 0 = Lesser(Cap, 0)
    BY CapAssumption DEF Lesser
  <2>2. QED
    BY <2>1 DEF Lru
<1>4. Lru(cache, recent)'
  BY <1>1, <1>3 DEF Lru
<1>5. Known' \subseteq Known
  BY <1>1 DEF Known, Entry
<1>6. \A e \in Known' : Fresh(e)'
  BY <1>1, <1>5 DEF PlanInv, Fresh
<1>7. \A t \in Threads : CallOK(call[t], seen[t])'
  BY <1>1, <1>5 DEF PlanInv, CallOK
<1>8. QED
  BY <1>2, <1>4, <1>6, <1>7 DEF PlanInv

\* No file becomes one that was there before: an entry's signature can only go stale.
LEMMA BecomesKeeps ==
  ASSUME PlanInv, NEW r \in Roots, NEW f \in Nat, Becomes(r, f), f = 0 \/ f > writes,
         f <= writes', writes' \in Nat, writes <= writes', UNCHANGED <<cache, parsed, call, recent>>
  PROVE  PlanInv'
<1>1. /\ disk' = [disk EXCEPT ![r] = f]
      /\ seen' = [t \in Threads |-> IF call[t].pc # "idle" /\ call[t].root = r
                                    THEN seen[t] \cup {f} ELSE seen[t]]
  BY DEF Becomes, Sees
<1>2. \A q \in Roots : disk'[q] = IF q = r THEN f ELSE disk[q]
  BY <1>1 DEF PlanInv, PlanTypeOK
<1>3. PlanTypeOK'
  BY <1>1, <1>2 DEF PlanInv, PlanTypeOK
<1>4. Lru(cache, recent)' /\ Known' = Known
  BY DEF PlanInv, Lru, Known, Entry
<1>5. Known \subseteq PlanEntry
  <2>1. \A i \in 1..Len(cache) : cache[i] \in PlanEntry
    BY DEF PlanInv, Lru
  <2>2. ASSUME NEW t \in Threads, call[t].pc = "store" PROVE Entry(t) \in PlanEntry
    BY <2>2, PlanShape DEF PlanInv, Entry, PlanEntry
  <2>3. QED
    BY <2>1, <2>2 DEF Known
<1>6. ASSUME NEW e \in Known PROVE Fresh(e)'
  <2>1. e.root \in Roots /\ e.sig \in 1..writes /\ Fresh(e) /\ writes \in Nat
    BY <1>5 DEF PlanInv, Fresh, PlanEntry, PlanTypeOK
  <2>2. e.sig # f /\ e.sig \in 1..writes'
    BY <2>1
  <2>3. QED
    BY <1>2, <2>1, <2>2 DEF Fresh
<1>7. ASSUME NEW t \in Threads PROVE CallOK(call[t], seen[t])'
  <2>1. CallOK(call[t], seen[t]) /\ writes \in Nat
    BY DEF PlanInv, PlanTypeOK
  <2>2. seen[t] \subseteq seen'[t]
    BY <1>1
  <2>3. call[t].pc # "idle" => call[t].root \in Roots /\ disk'[call[t].root] \in seen'[t]
    BY <1>1, <1>2, <2>1, PlanShape DEF PlanInv, CallOK
  <2>4. QED
    BY <1>4, <2>1, <2>2, <2>3 DEF CallOK
<1>8. QED
  BY <1>3, <1>4, <1>6, <1>7 DEF PlanInv

LEMMA PlanInvInit == PlanInit => PlanInv
<1> SUFFICES ASSUME PlanInit PROVE PlanInv
  OBVIOUS
<1>1. NoOpening \in PlanCalls /\ NoOpening.pc = "idle"
  BY DEF PlanCalls, NoOpening
<1>2. PlanTypeOK
  <2>1. parsed \in Seq(Nat)
    BY DEF PlanInit
  <2>2. call \in [Threads -> PlanCalls] /\ seen = [t \in Threads |-> seen[t]]
    BY <1>1 DEF PlanInit
  <2>3. disk \in [Roots -> Nat] /\ writes \in Nat /\ \A r \in Roots : disk[r] <= writes
    BY DEF PlanInit
  <2>4. QED
    BY <2>1, <2>2, <2>3 DEF PlanTypeOK
<1>3. Lru(cache, recent)
  <2>1. 0 = Lesser(Cap, 0)
    BY CapAssumption DEF Lesser
  <2>2. QED
    BY <2>1 DEF Lru, PlanInit
<1>4. Known = {} /\ \A t \in Threads : CallOK(call[t], seen[t])
  BY <1>1 DEF PlanInit, Known, CallOK
<1>5. QED
  BY <1>2, <1>3, <1>4 DEF PlanInv

LEMMA PlanInvNext ==
  ASSUME PlanInv, [PlanNext]_planVars PROVE PlanInv'
<1>1. CASE UNCHANGED planVars
  <2>1. Known' = Known
    BY <1>1 DEF planVars, Known, Entry
  <2>2. QED
    BY <1>1, <2>1 DEF PlanInv, PlanTypeOK, Lru, Fresh, CallOK, planVars
<1>2. ASSUME NEW t \in Threads,
             \/ OpenPlan(t) \/ StatZarrJson(t) \/ Hit(t) \/ Miss(t)
             \/ Parse(t) \/ Store(t) \/ ReturnPlan(t)
      PROVE  PlanInv'
  BY <1>2, OpenPlanKeeps, StatPlanKeeps, HitKeeps, MissKeeps, ParseKeeps, StoreKeeps, ReturnPlanKeeps
<1>3. CASE Clear
  BY <1>3, ClearKeeps
<1>4. ASSUME NEW r \in Roots, Write(r) PROVE PlanInv'
  <2>1. writes \in Nat /\ Becomes(r, writes + 1) /\ writes' = writes + 1
        /\ UNCHANGED <<cache, parsed, call, recent>>
    BY <1>4 DEF Write, PlanInv, PlanTypeOK
  <2>2. writes + 1 \in Nat /\ writes + 1 > writes /\ writes <= writes + 1
    BY <2>1
  <2>3. QED
    BY <2>1, <2>2, BecomesKeeps
<1>5. ASSUME NEW r \in Roots, RemoveZarrJson(r) PROVE PlanInv'
  <2>1. writes \in Nat /\ Becomes(r, 0) /\ UNCHANGED <<writes, cache, parsed, call, recent>>
    BY <1>5 DEF RemoveZarrJson, PlanInv, PlanTypeOK
  <2>2. QED
    BY <2>1, BecomesKeeps
<1>6. QED
  BY <1>1, <1>2, <1>3, <1>4, <1>5 DEF PlanNext

LEMMA LruIsTail ==
  ASSUME NEW c, NEW q, Lru(c, q)
  PROVE  [i \in DOMAIN c |-> c[i].root]
           = SubSeq(q, IF Len(q) > Cap THEN Len(q) - Cap + 1 ELSE 1, Len(q))
<1>1. PICK n \in Nat, L \in Nat : n = Len(c) /\ L = Len(q) /\ DOMAIN c = 1..n
  BY DEF Lru
<1>2. /\ c \in Seq(PlanEntry) /\ q \in Seq(Roots) /\ n = Lesser(Cap, L) /\ Cap \in Nat /\ Cap >= 1
      /\ \A i \in 1..n : c[i].root = q[L - n + i]
  BY <1>1, CapAssumption DEF Lru
<1>3. PICK b \in Int : b = IF L > Cap THEN L - Cap + 1 ELSE 1
  <2>1. (IF L > Cap THEN L - Cap + 1 ELSE 1) \in Int
    BY <1>2
  <2>2. QED
    BY <2>1
<1>4. b = L - n + 1 /\ b >= 1 /\ n <= L
  BY <1>2, <1>3 DEF Lesser
<1>5. SubSeq(q, b, L) = [i \in 1..n |-> q[L - n + i]]
  <2>1. \A i \in b..L : q[i] \in Roots
    BY <1>1, <1>2, <1>4
  <2>2. /\ SubSeq(q, b, L) \in Seq(Roots) /\ Len(SubSeq(q, b, L)) = n
        /\ \A i \in 1..n : SubSeq(q, b, L)[i] = q[L - n + i]
    <3>1. /\ SubSeq(q, b, L) \in Seq(Roots)
          /\ Len(SubSeq(q, b, L)) = IF b <= L THEN L - b + 1 ELSE 0
          /\ \A i \in 1..(L - b + 1) : SubSeq(q, b, L)[i] = q[b + i - 1]
      BY <1>2, <2>1, SubSeqProperties
    <3>2. L - b + 1 = n /\ \A i \in 1..n : b + i - 1 = L - n + i
      BY <1>4
    <3>3. (IF b <= L THEN L - b + 1 ELSE 0) = n
      BY <1>4
    <3>4. QED
      BY <3>1, <3>2, <3>3
  <2>3. QED
    BY <2>2
<1>6. QED
  BY <1>1, <1>2, <1>3, <1>5

\* open_plan(cached=True) never answers with a plan of a zarr.json that its root did
\* not name during the call, although the signature is read before the lock and the
\* file is parsed outside it: for every number of threads, roots and every cap.
THEOREM PlansAreNotStale == PlanSpec => []PlanIsNotStale
<1>1. PlanInv => PlanIsNotStale
  BY DEF PlanInv, CallOK, PlanIsNotStale
<1>2. QED
  BY <1>1, PlanInvInit, PlanInvNext, PTL DEF PlanSpec

\* The order of _plan_cache is that of the last hit or store of each root, and what
\* popitem(last=False) evicts is the root that waited longest for either.
THEOREM PlanCacheIsLRU == PlanSpec => []HoldsMostRecent
<1>1. PlanInv => HoldsMostRecent
  BY LruIsTail DEF PlanInv, HoldsMostRecent
<1>2. QED
  BY <1>1, PlanInvInit, PlanInvNext, PTL DEF PlanSpec
===============================================================================
