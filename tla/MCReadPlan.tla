------------------------------ MODULE MCReadPlan ------------------------------
(* Small arrays, selections and stores for ReadPlan. *)
EXTENDS ReadPlan

Scalar    == [shape |-> <<>>, inner |-> <<>>, per_shard |-> <<>>]
Void      == [shape |-> <<0>>, inner |-> <<2>>, per_shard |-> <<1>>]
Plain1    == [shape |-> <<5>>, inner |-> <<2>>, per_shard |-> <<1>>]
Sharded1  == [shape |-> <<5>>, inner |-> <<1>>, per_shard |-> <<3>>]
Plain2    == [shape |-> <<3, 3>>, inner |-> <<2, 2>>, per_shard |-> <<1, 1>>]
Sharded2  == [shape |-> <<3, 4>>, inner |-> <<2, 2>>, per_shard |-> <<2, 1>>]
AllArrays == {Scalar, Void, Plain1, Sharded1, Plain2, Sharded2}

At(i) == [kind |-> "int", i |-> i]
Slice(a, b) == [kind |-> "slice", start |-> a, stop |-> b]
Kind(k) == [kind |-> k]
Ends(S) == {<<>>} \cup {<<v>> : v \in S}
Others1 == {Kind(k) : k \in {"ellipsis", "step", "newaxis", "bool", "array"}}

Items(S) == {At(i) : i \in S} \cup {Slice(a, b) : a \in Ends(S), b \in Ends(S)} \cup Others1
Tuples(S, n) == UNION {[1..k -> S] : k \in 0..n}

\* Every tuple of up to two items with bounds from past one end to past the other.
ManySelections ==
  [A \in AllArrays |->
     CASE Len(A.shape) = 0 -> Tuples(Items({0}), 1)
       [] A.shape = <<0>> -> Tuples(Items({-1, 0, 1}), 1)
       [] Len(A.shape) = 1 -> Tuples(Items(-6..6), 1) \cup Tuples(Items({-1, 2}), 2)
       [] Len(A.shape) = 2 -> Tuples(Items({-2, 1}), 2) \cup Tuples({At(-1), Full, Kind("ellipsis")}, 4)]
\* Axis 1 items by axis 2 items, for the reads.
FewSelections ==
  [A \in AllArrays |->
     CASE Len(A.shape) = 1 -> {<<Full>>, <<At(-1)>>, <<Slice(<<1>>, <<4>>)>>}
       [] Len(A.shape) = 2 -> {<<>>, <<At(1), Slice(<<1>>, <<3>>)>>}
       [] OTHER -> {<<>>}]

FilesIn(A) == {FileIn(A, u) : u \in GridPoints(A)}
IsPlain(A) == \A a \in 1..Len(A.shape) : A.per_shard[a] = 1

\* Files of the units us, in ascending or descending order with gap bytes between
\* them; those of the files in short lack their last byte.
Lex(u, v) == \E a \in DOMAIN u : u[a] < v[a] /\ \A b \in 1..(a - 1) : u[b] = v[b]
Store(A, files, us, short, order, gap) ==
  LET In(f) == {u \in us : FileIn(A, u) = f}
      Before(u) == {v \in In(FileIn(A, u)) : IF order = "up" THEN Lex(v, u) ELSE Lex(u, v)}
  IN  [size |-> [f \in files |-> IF f \in short THEN ChunkBytes - 1
                                 ELSE Cardinality(In(f)) * (ChunkBytes + gap)],
       entry |-> [u \in us |->
         [offset |-> Cardinality(Before(u)) * (ChunkBytes + gap),
          nbytes |-> IF FileIn(A, u) \in short THEN ChunkBytes - 1 ELSE ChunkBytes]]]
OneStore == [A \in AllArrays |-> {Store(A, FilesIn(A), GridPoints(A), {}, "up", 0)}]
AllStores ==
  [A \in AllArrays |->
     IF IsPlain(A)
     THEN {Store(A, fs, {u \in GridPoints(A) : FileIn(A, u) \in fs}, short, "up", 0) :
             fs \in SUBSET FilesIn(A), short \in {s \in SUBSET FilesIn(A) : Cardinality(s) <= 1}}
     ELSE {Store(A, {FileIn(A, u) : u \in us}, us, {}, order, gap) :
             us \in SUBSET GridPoints(A), order \in {"up", "down"}, gap \in {0, 1}}]

Many == {[array |-> A, stores |-> OneStore[A], selections |-> ManySelections[A]] : A \in AllArrays}
Few  == {[array |-> A, stores |-> AllStores[A], selections |-> FewSelections[A]] : A \in AllArrays}
ManyAndFew == Many \cup Few
=============================================================================
