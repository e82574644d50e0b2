---------------------------- MODULE GpuLocalStore ----------------------------
(***************************************************************************)
(* GPULocalStore of src/czarr/storage/gpu_local.py on one key: readers run *)
(* _gds_get_sync, which takes the size from one stat and the bytes from a  *)
(* later open, while writers run _gds_set_sync, which truncates the file   *)
(* in place and then writes it, and others delete the key.                 *)
(***************************************************************************)
EXTENDS Integers, Sequences, FiniteSets

CONSTANTS
  Readers,   \* threads in GPULocalStore.get
  Writers,   \* threads in GPULocalStore.set
  Values,    \* values that set stores: sequences of bytes
  MaxBytes,  \* bound on the numbers in a byte range
  MaxFiles,  \* bound: files ever created under the key
  MaxSets,   \* bound: calls of set
  Emptying,  \* an existing key may be set to an empty value
  Missing    \* get's None

ASSUME ValuesAssumption == \A v \in Values : v \in Seq(Nat) /\ Len(v) <= MaxBytes
ASSUME BoundsAssumption == MaxBytes \in Nat /\ MaxFiles \in Nat /\ MaxSets \in Nat
ASSUME EmptyingAssumption == Emptying \in BOOLEAN
ASSUME MissingAssumption == Missing \notin Seq(Nat)

VARIABLES
  dir,     \* the file the key names, 0 when there is none
  data,    \* file -> its bytes
  files,   \* files created so far
  writer,  \* writer -> its call of set
  sets,    \* calls of set so far
  stored,  \* history: the values whose bytes the key may hold, {Missing} for no key
  mixed,   \* history: two sets have overlapped on one file
  get,     \* reader -> its call of get
  held,    \* history: reader -> what the key held since its call began
  quiet    \* history: reader -> no set or delete overlapped its call

vars == <<dir, data, files, writer, sets, stored, mixed, get, held, quiet>>

Lesser(a, b) == IF a < b THEN a ELSE b
AtLeast0(a)  == IF a < 0 THEN 0 ELSE a

-----------------------------------------------------------------------------
(* Byte ranges *)

Requests == [kind : {"whole"}]
       \cup [kind : {"range"}, start : 0..MaxBytes, end : 0..MaxBytes]
       \cup [kind : {"offset"}, offset : 0..MaxBytes]
       \cup [kind : {"suffix"}, suffix : 0..MaxBytes]

\* _resolve_byte_range: <<offset, size>> for a file of n bytes.
RangeInclusiveFault(r, n) ==
  CASE r.kind = "whole"  -> <<0, n>>
    [] r.kind = "range"  -> <<r.start, AtLeast0(r.end - r.start + 1)>>
    [] r.kind = "offset" -> <<r.offset, AtLeast0(n - r.offset)>>
    [] r.kind = "suffix" -> <<AtLeast0(n - r.suffix), Lesser(r.suffix, n)>>
Resolve(r, n) ==
  CASE r.kind = "whole"  -> <<0, n>>
    [] r.kind = "range"  -> <<r.start, AtLeast0(r.end - r.start)>>
    [] r.kind = "offset" -> <<r.offset, AtLeast0(n - r.offset)>>
    [] r.kind = "suffix" -> <<AtLeast0(n - r.suffix), Lesser(r.suffix, n)>>

\* What a byte range of v means, position by position.
InRange(r, n, i) ==
  CASE r.kind = "whole"  -> TRUE
    [] r.kind = "range"  -> r.start < i /\ i <= r.end
    [] r.kind = "offset" -> r.offset < i
    [] r.kind = "suffix" -> i > n - r.suffix
Requested(v, r) ==
  LET picked == {i \in 1..Len(v) : InRange(r, Len(v), i)}
  IN  [i \in 1..Cardinality(picked) |->
         v[CHOOSE j \in picked : Cardinality({m \in picked : m <= j}) = i]]

-----------------------------------------------------------------------------
(* get *)

Idle == [pc |-> "idle"]

\* Every get in progress sees what a writer makes of the key, and is not quiet.
SeesAll(v) == [r \in Readers |-> IF get[r].pc = "idle" THEN held[r] ELSE held[r] \cup {v}]
Disturbed == [r \in Readers |-> FALSE]

\* The byte range of a call.
Call(r) ==
  /\ get[r].pc = "idle"
  /\ \E req \in Requests : get' = [get EXCEPT ![r] = [pc |-> "called", req |-> req]]
  /\ held' = [held EXCEPT ![r] = stored]
  /\ quiet' = [quiet EXCEPT ![r] = \A w \in Writers : writer[w].pc = "idle"]
  /\ UNCHANGED <<dir, data, files, writer, sets, stored, mixed>>

Answer(r, offset, v) ==
  get' = [get EXCEPT ![r] = [pc |-> "returned", req |-> @.req, offset |-> offset, result |-> v]]

\* path.stat() fixes offset and size; nothing is read when the size is 0.
Stat(r) ==
  /\ get[r].pc = "called"
  /\ dir # 0
  /\ LET os == Resolve(get[r].req, Len(data[dir]))
     IN  IF os[2] = 0
         THEN Answer(r, os[1], <<>>)
         ELSE get' = [get EXCEPT ![r] =
                        [pc |-> "open", req |-> @.req, offset |-> os[1], size |-> os[2]]]
  /\ UNCHANGED <<dir, data, files, writer, sets, stored, mixed, held, quiet>>

StatMissing(r) ==
  /\ get[r].pc = "called"
  /\ dir = 0
  /\ Answer(r, 0, Missing)
  /\ UNCHANGED <<dir, data, files, writer, sets, stored, mixed, held, quiet>>

\* cufile.read_into acquires a handle of the file the key names now.
Open(r) ==
  /\ get[r].pc = "open"
  /\ dir # 0
  /\ get' = [get EXCEPT ![r] = [pc |-> "read", req |-> @.req, offset |-> @.offset,
                                size |-> @.size, file |-> dir, got |-> <<>>]]
  /\ UNCHANGED <<dir, data, files, writer, sets, stored, mixed, held, quiet>>

\* FileNotFoundError between the stat and the open is None as well.
OpenMissing(r) ==
  /\ get[r].pc = "open"
  /\ dir = 0
  /\ Answer(r, 0, Missing)
  /\ UNCHANGED <<dir, data, files, writer, sets, stored, mixed, held, quiet>>

\* cufile.read copies the bytes piece by piece, no lock held.
Position(g) == g.offset + Len(g.got) + 1
AtEnd(g) == Len(g.got) = g.size \/ Position(g) > Len(data[g.file])

ReadFromStartFault(r) ==
  /\ get[r].pc = "read" /\ ~AtEnd(get[r])
  /\ get' = [get EXCEPT ![r].got = Append(@, data[get[r].file][Len(@) + 1])]
  /\ UNCHANGED <<dir, data, files, writer, sets, stored, mixed, held, quiet>>
ReadPiece(r) ==
  /\ get[r].pc = "read" /\ ~AtEnd(get[r])
  /\ get' = [get EXCEPT ![r].got = Append(@, data[get[r].file][Position(get[r])])]
  /\ UNCHANGED <<dir, data, files, writer, sets, stored, mixed, held, quiet>>

\* A short count is not an error: the buffer is cut to what was read.
ReadEnds(r) ==
  /\ get[r].pc = "read" /\ AtEnd(get[r])
  /\ Answer(r, get[r].offset, get[r].got)
  /\ UNCHANGED <<dir, data, files, writer, sets, stored, mixed, held, quiet>>

Return(r) ==
  /\ get[r].pc = "returned"
  /\ get' = [get EXCEPT ![r] = Idle]
  /\ held' = [held EXCEPT ![r] = {}]
  /\ UNCHANGED <<dir, data, files, writer, sets, stored, mixed, quiet>>

-----------------------------------------------------------------------------
(* set and delete *)

\* The file named by the key once it is opened for writing.
Target == IF dir = 0 THEN files + 1 ELSE dir
Created == /\ dir = 0 => files < MaxFiles
           /\ dir' = Target
           /\ files' = IF dir = 0 THEN files + 1 ELSE files

\* os.open(O_WRONLY | O_CREAT | O_TRUNC) in write_from.
Opened(bytes) == <<>>

\* The writers whose bytes still go to the file.
Overlapping == {u \in Writers : writer[u].pc = "write" /\ writer[u].file = Target}

SetOpen(w) ==
  /\ writer[w].pc = "idle" /\ sets < MaxSets
  /\ \E v \in Values \ {<<>>} :
       /\ writer' = [writer EXCEPT ![w] = [pc |-> "write", file |-> Target, value |-> v, done |-> 0]]
       /\ held' = SeesAll(v)
       /\ stored' = {v} \cup {writer[u].value : u \in Overlapping}
  /\ Created
  /\ data' = [data EXCEPT ![Target] = Opened(@)]
  /\ sets' = sets + 1
  /\ mixed' = (mixed \/ Overlapping # {})
  /\ quiet' = Disturbed
  /\ UNCHANGED get

\* cufile.write stores the bytes piece by piece, from offset 0. Where another set
\* truncated the file in the meantime, it leaves a hole, which reads as zeros.
Put(bytes, p, byte) ==
  [i \in 1..(IF p > Len(bytes) THEN p ELSE Len(bytes)) |->
     IF i = p THEN byte ELSE IF i <= Len(bytes) THEN bytes[i] ELSE 0]

SetWrite(w) ==
  /\ writer[w].pc = "write" /\ writer[w].done < Len(writer[w].value)
  /\ LET p == writer[w].done + 1
     IN  data' = [data EXCEPT ![writer[w].file] = Put(@, p, writer[w].value[p])]
  /\ writer' = [writer EXCEPT ![w].done = @ + 1]
  /\ UNCHANGED <<dir, files, sets, stored, mixed, get, held, quiet>>

SetReturns(w) ==
  /\ writer[w].pc = "write" /\ writer[w].done = Len(writer[w].value)
  /\ writer' = [writer EXCEPT ![w] = Idle]
  /\ UNCHANGED <<dir, data, files, sets, stored, mixed, get, held, quiet>>

\* A zero-byte value: path.touch() creates the file or leaves it as it is.
SetTouch(w) ==
  /\ writer[w].pc = "idle" /\ sets < MaxSets
  /\ <<>> \in Values
  /\ dir # 0 => Emptying
  /\ Created
  /\ data' = IF dir = 0 THEN [data EXCEPT ![Target] = <<>>] ELSE data
  /\ sets' = sets + 1
  /\ stored' = {<<>>}
  /\ held' = SeesAll(<<>>)
  /\ quiet' = Disturbed
  /\ UNCHANGED <<writer, mixed, get>>

Delete ==
  /\ dir # 0
  /\ dir' = 0
  /\ stored' = {Missing}
  /\ held' = SeesAll(Missing)
  /\ quiet' = Disturbed
  /\ UNCHANGED <<data, files, writer, sets, mixed, get>>

-----------------------------------------------------------------------------
Init ==
  /\ dir = 0 /\ files = 0 /\ sets = 0
  /\ data = [f \in 1..MaxFiles |-> <<>>]
  /\ writer = [w \in Writers |-> Idle]
  /\ stored = {Missing} /\ mixed = FALSE
  /\ get = [r \in Readers |-> Idle]
  /\ held = [r \in Readers |-> {}]
  /\ quiet = [r \in Readers |-> TRUE]

Next == \/ \E r \in Readers : \/ Call(r) \/ Stat(r) \/ StatMissing(r) \/ Open(r)
                              \/ OpenMissing(r) \/ ReadPiece(r) \/ ReadEnds(r) \/ Return(r)
        \/ \E w \in Writers : SetOpen(w) \/ SetWrite(w) \/ SetReturns(w) \/ SetTouch(w)
        \/ Delete

Spec == Init /\ [][Next]_vars

-----------------------------------------------------------------------------
(* Properties *)

Returned(r) == get[r].pc = "returned"

\* get after set: a get that no set or delete overlaps returns the bytes its byte
\* range means of the value stored last, or None when there is none, unless the
\* sets before it overlapped each other.
QuietGetsAreExact ==
  \A r \in Readers : Returned(r) /\ quiet[r] =>
     \A v \in stored : stored = {v} =>
       get[r].result = IF v = Missing THEN Missing ELSE Requested(v, get[r].req)

\* A get that sets and deletes overlap, or that follows sets that overlapped each
\* other, may be short and may mix values, but every byte it returns is the byte
\* some value the key was given during the call, or in those sets, has at that
\* place, or the zero of a hole that overlapping sets left; and it answers None
\* only if the key was absent at some moment of the call: an empty value, or an
\* empty range of one, is a zero-length buffer.
RacingGetsReadHeldBytes ==
  \A r \in Readers : Returned(r) =>
     IF get[r].result = Missing THEN Missing \in held[r]
     ELSE \A k \in DOMAIN get[r].result :
            \/ mixed /\ get[r].result[k] = 0
            \/ \E v \in held[r] \ {Missing} :
                 LET p == get[r].offset + k IN p <= Len(v) /\ get[r].result[k] = v[p]
=============================================================================
