--------------------------- MODULE GpuCodecs_proofs ---------------------------
(***************************************************************************)
(* Proofs about the codecs: the settings of Filters are scoped for any     *)
(* nesting of calls and blocks; Delta and Shuffle invert and BitRound      *)
(* rounds, for words of any width; Blosc decodes or raises, for chunks of  *)
(* any size; the frames of Frames are read back; the documented lists of   *)
(* codecs of DecodeChain are undone in the order they were applied.        *)
(***************************************************************************)
EXTENDS Filters, Blosc, Frames, DecodeChain, Ascending_proofs, TLAPS

-----------------------------------------------------------------------------
(* Settings *)

Settings == [config : Nat, overrides : Pins \cup {Unpinned}]

\* Each open block keeps what the block around it had asked for last.
ScopesInv ==
  /\ scopes \in Seq(Settings) /\ tokens \in Seq(Settings) /\ calls \in Nat
  /\ Len(scopes) = Len(tokens) + 1
  /\ \A i \in 1..Len(tokens) : tokens[i] = scopes[i]
  /\ Snapshot = scopes[Len(scopes)]

LEMMA ScopesInit == FilterInit => ScopesInv
<1> SUFFICES ASSUME FilterInit PROVE ScopesInv
  OBVIOUS
<1>1. /\ overrides = Unpinned /\ config = 0 /\ tokens = <<>> /\ calls = 0
      /\ scopes = <<[config |-> 0, overrides |-> Unpinned]>>
  BY DEF FilterInit
<1>2. [config |-> 0, overrides |-> Unpinned] \in Settings
  BY DEF Settings
<1>3. QED
  BY <1>1, <1>2 DEF ScopesInv, Snapshot

LEMMA ConfigureKeeps ==
  ASSUME ScopesInv, NEW scoped \in BOOLEAN, Configure(scoped)
  PROVE  ScopesInv'
<1>1. PICK o \in Pins : /\ overrides' = o /\ config' = calls'
                        /\ LET s == [config |-> calls', overrides |-> o]
                           IN  scopes' = IF scoped THEN Append(scopes, s)
                                         ELSE [scopes EXCEPT ![Len(scopes)] = s]
  BY DEF Configure
<1> DEFINE s == [config |-> calls', overrides |-> o]
<1>2. /\ calls' = calls + 1 /\ calls' \in Nat
      /\ tokens' = IF scoped THEN Append(tokens, Snapshot) ELSE tokens
  BY DEF Configure, ScopesInv
<1>3. s \in Settings /\ Snapshot' = s
  BY <1>1, <1>2 DEF Settings, Snapshot
<1>4. PICK n \in Nat : n = Len(tokens)
  BY DEF ScopesInv
<1>5. /\ scopes \in Seq(Settings) /\ tokens \in Seq(Settings) /\ Len(scopes) = n + 1
      /\ \A i \in 1..n : tokens[i] = scopes[i]
      /\ Snapshot = scopes[n + 1]
  BY <1>4 DEF ScopesInv
<1> HIDE DEF s
<1>6. CASE scoped
  <2>1. scopes' = Append(scopes, s) /\ tokens' = Append(tokens, scopes[n + 1])
    BY <1>1, <1>2, <1>5, <1>6 DEF s
  <2>2. scopes[n + 1] \in Settings
    BY <1>5
  <2>3. /\ scopes' \in Seq(Settings) /\ Len(scopes') = n + 2 /\ scopes'[n + 2] = s
        /\ \A i \in 1..(n + 1) : scopes'[i] = scopes[i]
    BY <1>3, <1>5, <2>1
  <2>4. /\ tokens' \in Seq(Settings) /\ Len(tokens') = n + 1
        /\ \A i \in 1..(n + 1) : tokens'[i] = scopes[i]
    BY <1>4, <1>5, <2>1, <2>2
  <2>5. QED
    BY <1>2, <1>3, <2>3, <2>4 DEF ScopesInv
<1>7. CASE ~scoped
  <2>1. scopes' = [scopes EXCEPT ![n + 1] = s] /\ tokens' = tokens
    BY <1>1, <1>2, <1>5, <1>7 DEF s
  <2>2. /\ scopes' \in Seq(Settings) /\ Len(scopes') = n + 1 /\ scopes'[n + 1] = s
        /\ \A i \in 1..n : scopes'[i] = scopes[i]
    BY <1>3, <1>5, <2>1
  <2>3. QED
    BY <1>2, <1>3, <1>4, <1>5, <2>1, <2>2 DEF ScopesInv
<1>8. QED
  BY <1>6, <1>7

LEMMA ExitKeeps == ASSUME ScopesInv, Exit PROVE ScopesInv'
<1>1. /\ tokens # <<>> /\ tokens' = Front1(tokens) /\ scopes' = Front1(scopes) /\ calls' = calls
      /\ config' = Last(tokens).config /\ overrides' = Last(tokens).overrides
  BY DEF Exit, Restored
<1>2. PICK n \in Nat : n = Len(tokens) /\ n >= 1
  BY <1>1 DEF ScopesInv
<1>3. /\ scopes \in Seq(Settings) /\ tokens \in Seq(Settings) /\ Len(scopes) = n + 1
      /\ \A i \in 1..n : tokens[i] = scopes[i]
  BY <1>2 DEF ScopesInv
<1>4. Last(tokens) = scopes[n] /\ scopes[n] \in Settings
  BY <1>2, <1>3 DEF Last
<1>5. /\ scopes' \in Seq(Settings) /\ Len(scopes') = n
      /\ \A i \in 1..n : scopes'[i] = scopes[i]
  BY <1>1, <1>3 DEF Front1
<1>6. /\ tokens' \in Seq(Settings) /\ Len(tokens') = n - 1
      /\ \A i \in 1..(n - 1) : tokens'[i] = tokens[i]
  BY <1>1, <1>2, <1>3 DEF Front1
<1>7. Snapshot' = scopes[n]
  BY <1>1, <1>4 DEF Snapshot, Settings
<1>8. \A i \in 1..(n - 1) : tokens'[i] = scopes'[i]
  BY <1>3, <1>5, <1>6
<1>9. QED
  BY <1>1, <1>2, <1>5, <1>6, <1>7, <1>8 DEF ScopesInv

\* "On exit, restores the prior zarr.config and codec-backend overrides", however
\* many calls of configure_gpu and blocks are nested in each other.
THEOREM SettingsStayScoped == FilterSpec => []SettingsAreScoped
<1>1. ScopesInv /\ [FilterNext]_filterVars => ScopesInv'
  <2> SUFFICES ASSUME ScopesInv, [FilterNext]_filterVars PROVE ScopesInv'
    OBVIOUS
  <2>1. ASSUME UNCHANGED settings PROVE ScopesInv'
    BY <2>1 DEF settings, ScopesInv, Snapshot
  <2>2. Write \/ Read \/ UNCHANGED filterVars => UNCHANGED settings
    BY DEF Write, Read, filterVars
  <2>3. QED
    BY <2>1, <2>2, ConfigureKeeps, ExitKeeps DEF FilterNext
<1>2. ScopesInv => SettingsAreScoped
  BY DEF ScopesInv, SettingsAreScoped, Last
<1>3. QED
  BY ScopesInit, <1>1, <1>2, PTL DEF FilterSpec

-----------------------------------------------------------------------------
(* Division. The provers follow a product only where it has a name. *)

Splits(a, d, q, r) == d \in Nat \ {0} /\ q \in Int /\ r \in 0..(d - 1) /\ a = q * d + r
Times(m, n, d) == n \in Nat /\ d \in Nat \ {0} /\ m = n * d

LEMMA SplitIs ==
  ASSUME NEW a, NEW d, NEW q, NEW r, Splits(a, d, q, r)
  PROVE  a \div d = q /\ a % d = r
BY DEF Splits

LEMMA SplitExists ==
  ASSUME NEW d \in Nat \ {0}, NEW a \in Nat
  PROVE  Splits(a, d, a \div d, a % d) /\ a \div d \in Nat
BY DEF Splits

LEMMA SplitBelow ==
  ASSUME NEW a, NEW d, NEW q, NEW r, Splits(a, d, q, r), NEW n, NEW m, Times(m, n, d)
  PROVE  /\ a \in Int /\ m \in Nat
         /\ q \in 0..(n - 1) => a \in 0..(m - 1)
         /\ a \in 0..(m - 1) => q \in 0..(n - 1)
<1>1. /\ d \in Nat \ {0} /\ q \in Int /\ r \in 0..(d - 1) /\ a = q * d + r
      /\ n \in Nat /\ m = n * d
  BY DEF Splits, Times
<1>2. a \in Int /\ m \in Nat
  BY <1>1
<1>3. q \in 0..(n - 1) => a \in 0..(m - 1)
  BY <1>1
<1>4. ASSUME a \in 0..(m - 1) PROVE q \in 0..(n - 1)
  <2>1. q >= 0
    <3>1. SUFFICES ASSUME q <= -1 PROVE FALSE
      BY <1>1
    <3>2. q * d <= -d
      BY <1>1, <3>1
    <3>3. QED
      BY <1>1, <1>4, <3>2
  <2>2. q < n
    <3>1. SUFFICES ASSUME q >= n PROVE FALSE
      BY <1>1
    <3>2. q * d >= n * d
      BY <1>1, <3>1
    <3>3. QED
      BY <1>1, <1>4, <3>2
  <2>3. QED
    BY <1>1, <2>1, <2>2
<1>5. QED
  BY <1>2, <1>3, <1>4

-----------------------------------------------------------------------------
(* The shuffle kernels, on blocks of m bytes: ne elements of ts bytes *)

Unshuffle(i, ts, ne, m) == (i \div m) * m + (i % ts) * ne + ((i % m) \div ts)
Shuffle(i, ts, ne, m) == (i \div m) * m + (i % ne) * ts + ((i % m) \div ne)

\* Byte v of element u is at x in its block, and at y when it is shuffled.
Places(ts, ne, m, u, v, x, y) ==
  /\ Times(m, ts, ne) /\ Times(m, ne, ts)
  /\ Splits(x, ts, u, v) /\ u \in 0..(ne - 1)
  /\ Splits(y, ne, v, u) /\ v \in 0..(ts - 1)

LEMMA PlacesInBlock ==
  ASSUME NEW ts, NEW ne, NEW m, NEW u, NEW v, NEW x, NEW y, Places(ts, ne, m, u, v, x, y)
  PROVE  m \in Nat \ {0} /\ x \in 0..(m - 1) /\ y \in 0..(m - 1)
<1>1. x \in 0..(m - 1) /\ y \in 0..(m - 1)
  BY SplitBelow DEF Places
<1>2. m \in Nat
  BY DEF Places, Times
<1>3. QED
  BY <1>1, <1>2

LEMMA PlacesExist ==
  ASSUME NEW ts \in Nat \ {0}, NEW ne \in Nat \ {0}, NEW m, Times(m, ne, ts), NEW x \in 0..(m - 1)
  PROVE  \E u \in Nat, v \in Nat, y \in Nat : Places(ts, ne, m, u, v, x, y)
<1>1. Times(m, ts, ne) /\ m \in Nat
  BY DEF Times
<1>2. PICK u, v : Splits(x, ts, u, v) /\ u \in Nat
  <2>1. x \in Nat
    BY <1>1
  <2>2. Splits(x, ts, x \div ts, x % ts) /\ x \div ts \in Nat
    BY <2>1, SplitExists
  <2>3. QED
    BY <2>2
<1>3. u \in 0..(ne - 1)
  BY <1>2, SplitBelow
<1>4. v \in 0..(ts - 1)
  BY <1>2 DEF Splits
<1>5. PICK y : y = v * ne + u
  OBVIOUS
<1>6. Splits(y, ne, v, u) /\ y \in Nat
  BY <1>3, <1>4, <1>5 DEF Splits
<1>7. QED
  BY <1>1, <1>2, <1>3, <1>4, <1>6 DEF Places

\* In block b the byte is at i, and at k when it is shuffled.
LEMMA Coordinates ==
  ASSUME NEW ts, NEW ne, NEW m, NEW u, NEW v, NEW x, NEW y, Places(ts, ne, m, u, v, x, y),
         NEW b, NEW i, NEW k, Splits(i, m, b, x), Splits(k, m, b, y)
  PROVE  Unshuffle(i, ts, ne, m) = k /\ Shuffle(k, ts, ne, m) = i
<1>1. i \div m = b /\ i % m = x /\ k \div m = b /\ k % m = y
  BY SplitIs
<1>2. x \div ts = u /\ y \div ne = v
  BY SplitIs DEF Places
<1>3. Splits(i, ts, b * ne + u, v) /\ Splits(k, ne, b * ts + v, u)
  BY DEF Splits, Places, Times
<1>4. i % ts = v /\ k % ne = u
  BY <1>3, SplitIs
<1>5. i = b * m + u * ts + v /\ k = b * m + v * ne + u
  BY DEF Splits, Places
<1>6. QED
  BY <1>1, <1>2, <1>4, <1>5 DEF Unshuffle, Shuffle

\* Of what was shuffled byte Unshuffle(i) comes from byte i, in the same buffer.
LEMMA ShuffleUndone ==
  ASSUME NEW ts \in Nat \ {0}, NEW ne \in Nat \ {0}, NEW m, Times(m, ne, ts),
         NEW nb, NEW n, Times(n, nb, m), NEW i \in 0..(n - 1)
  PROVE  /\ Unshuffle(i, ts, ne, m) \in 0..(n - 1)
         /\ Shuffle(Unshuffle(i, ts, ne, m), ts, ne, m) = i
<1>1. m \in Nat \ {0} /\ n \in Nat
  BY DEF Times
<1>2. PICK b, x : Splits(i, m, b, x) /\ b \in Nat
  <2>1. i \in Nat
    BY <1>1
  <2>2. Splits(i, m, i \div m, i % m) /\ i \div m \in Nat
    BY <1>1, <2>1, SplitExists
  <2>3. QED
    BY <2>2
<1>3. b \in 0..(nb - 1)
  BY <1>2, SplitBelow
<1>4. x \in 0..(m - 1)
  BY <1>2 DEF Splits
<1>5. PICK u, v, y : Places(ts, ne, m, u, v, x, y)
  BY <1>4, PlacesExist
<1>6. PICK k : k = b * m + y
  OBVIOUS
<1>7. Splits(k, m, b, y)
  BY <1>1, <1>3, <1>5, <1>6, PlacesInBlock DEF Splits
<1>8. k \in 0..(n - 1)
  BY <1>3, <1>7, SplitBelow
<1>9. Unshuffle(i, ts, ne, m) = k /\ Shuffle(k, ts, ne, m) = i
  BY <1>2, <1>5, <1>7, Coordinates
<1>10. QED
  BY <1>8, <1>9

LEMMA Bit ==
  ASSUME NEW i \in Nat, NEW t \in 0..7
  PROVE  (8 * i + t) \div 8 = i /\ (8 * i + t) % 8 = t
OBVIOUS

LEMMA BitOf ==
  ASSUME NEW n \in Nat, NEW j \in Bits(n)
  PROVE  j \div 8 \in 0..(n - 1) /\ j % 8 \in 0..7 /\ j = 8 * (j \div 8) + (j % 8)
BY DEF Bits

LEMMA BitIn ==
  ASSUME NEW n \in Nat, NEW i \in 0..(n - 1), NEW t \in 0..7
  PROVE  8 * i + t \in Bits(n)
BY DEF Bits

\* The kernels take byte Unshuffle(i) or Shuffle(i) for byte i.
LEMMA KernelBytes ==
  ASSUME NEW ts \in Nat \ {0}, NEW ne \in Nat \ {0}, NEW m, Times(m, ne, ts), NEW n \in Nat, NEW buf
  PROVE  /\ ByteUnshuffle(buf, n, ts, m) =
              [j \in Bits(n) |-> buf[8 * Unshuffle(j \div 8, ts, ne, m) + (j % 8)]]
         /\ ByteShuffle(buf, n, ts, m) =
              [j \in Bits(n) |-> buf[8 * Shuffle(j \div 8, ts, ne, m) + (j % 8)]]
<1>1. m \div ts = ne
  <2>1. Splits(m, ts, ne, 0)
    BY DEF Times, Splits
  <2>2. QED
    BY <2>1, SplitIs
<1>2. ByteUnshuffle(buf, n, ts, m) =
        [j \in Bits(n) |-> buf[8 * Unshuffle(j \div 8, ts, ne, m) + (j % 8)]]
  BY <1>1, Zenon DEF ByteUnshuffle, TakeBytes, Unshuffle
<1>3. ByteShuffle(buf, n, ts, m) =
        [j \in Bits(n) |-> buf[8 * Shuffle(j \div 8, ts, ne, m) + (j % 8)]]
  BY <1>1, Zenon DEF ByteShuffle, TakeBytes, Shuffle
<1>4. QED
  BY <1>2, <1>3

\* A shuffled chunk of any number of blocks is unshuffled to what it was.
LEMMA ByteRoundTrip ==
  ASSUME NEW ts \in Nat \ {0}, NEW ne \in Nat \ {0}, NEW m, Times(m, ne, ts),
         NEW nb, NEW n, Times(n, nb, m), NEW V, NEW raw \in [Bits(n) -> V]
  PROVE  ByteUnshuffle(ByteShuffle(raw, n, ts, m), n, ts, m) = raw
<1>0. n \in Nat
  BY DEF Times
<1>1. PICK packed : packed = ByteShuffle(raw, n, ts, m)
  OBVIOUS
<1>2. packed = [j \in Bits(n) |-> raw[8 * Shuffle(j \div 8, ts, ne, m) + (j % 8)]]
  BY <1>0, <1>1, KernelBytes
<1>3. ByteUnshuffle(packed, n, ts, m) =
        [j \in Bits(n) |-> packed[8 * Unshuffle(j \div 8, ts, ne, m) + (j % 8)]]
  BY <1>0, KernelBytes
<1>4. ASSUME NEW j \in Bits(n)
      PROVE  packed[8 * Unshuffle(j \div 8, ts, ne, m) + (j % 8)] = raw[j]
  <2>1. PICK i, t : i = j \div 8 /\ t = j % 8
    OBVIOUS
  <2>2. i \in 0..(n - 1) /\ t \in 0..7 /\ j = 8 * i + t
    BY <1>0, <2>1, BitOf
  <2>3. PICK k : k = Unshuffle(i, ts, ne, m)
    OBVIOUS
  <2>4. k \in 0..(n - 1) /\ Shuffle(k, ts, ne, m) = i
    BY <2>2, <2>3, ShuffleUndone
  <2>5. (8 * k + t) \div 8 = k /\ (8 * k + t) % 8 = t
    BY <1>0, <2>2, <2>4, Bit
  <2>6. 8 * k + t \in Bits(n)
    BY <1>0, <2>2, <2>4, BitIn
  <2>7. packed[8 * k + t] = raw[8 * i + t]
    BY <1>2, <2>4, <2>5, <2>6
  <2>8. QED
    BY <2>1, <2>2, <2>3, <2>7
<1>5. QED
  BY <1>1, <1>3, <1>4

-----------------------------------------------------------------------------
(* Blosc: chunks of whole blocks *)

\* A chunk of nb blocks of m bytes: ne elements of ts bytes each.
Shape(L, n, m, ts, nb, ne) ==
  /\ L.nbytes = n /\ L.blocksize = m /\ L.typesize = ts
  /\ n \in Nat \ {0} /\ m \in Nat \ {0, 1} /\ ts \in Nat \ {0} /\ ne \in Nat \ {0}
  /\ Times(n, nb, m) /\ Times(m, ne, ts)
  /\ NBlocks(L) = nb /\ m \div ts = ne

LEMMA WholeBlocks ==
  ASSUME NEW L \in Layouts, L.nbytes % L.blocksize = 0
  PROVE  \E nb, ne : Shape(L, L.nbytes, L.blocksize, L.typesize, nb, ne)
<1>1. PICK n, m, ts : n = L.nbytes /\ m = L.blocksize /\ ts = L.typesize
  OBVIOUS
<1>2. n \in Nat \ {0} /\ m \in Nat \ {0, 1} /\ ts \in Nat \ {0} /\ m % ts = 0 /\ n % m = 0
  BY <1>1, LayoutAssumption DEF Layout
<1>3. PICK nb, ne : nb = n \div m /\ ne = m \div ts
  OBVIOUS
<1>4. Splits(n, m, nb, 0) /\ nb \in Nat
  BY <1>2, <1>3, SplitExists
<1>5. Splits(m, ts, ne, 0) /\ ne \in Nat
  <2>1. m \in Nat
    BY <1>2
  <2>2. Splits(m, ts, m \div ts, m % ts) /\ m \div ts \in Nat
    BY <1>2, <2>1, SplitExists
  <2>3. QED
    BY <1>2, <1>3, <2>2
<1>6. Times(n, nb, m) /\ Times(m, ne, ts)
  BY <1>4, <1>5 DEF Splits, Times
<1>7. ne # 0
  BY <1>2, <1>5 DEF Splits
<1>8. (n + m - 1) \div m = nb
  <2>1. Splits(n + m - 1, m, nb, m - 1)
    BY <1>2, <1>4 DEF Splits
  <2>2. QED
    BY <2>1, SplitIs
<1>9. NBlocks(L) = nb
  BY <1>1, <1>8 DEF NBlocks, CeilDiv
<1>10. QED
  BY <1>1, <1>2, <1>3, <1>5, <1>6, <1>7, <1>9 DEF Shape

\* Bit t of byte k, and bit o of block b.
At(k, t) == 8 * k + t
InBlock(b, m, o) == 8 * b * m + o

\* What the zstd call leaves in the scratch: block b, shuffled, at b * m.
LEMMA ScratchAt ==
  ASSUME NEW n, NEW m, NEW ts, NEW nb, NEW ne, Shape(layout, n, m, ts, nb, ne), NEW p,
         NEW b \in 0..(nb - 1), NEW z \in 0..(m - 1), NEW k, Splits(k, m, b, z), NEW t \in 0..7
  PROVE  Scratch(p, layout)[At(k, t)] =
           Original(p)[InBlock(b, m, StoredAt(layout, m)[At(z, t)])]
<1>1. /\ n \in Nat \ {0} /\ m \in Nat \ {0, 1} /\ Times(n, nb, m) /\ NBlocks(layout) = nb
      /\ layout.nbytes = n /\ layout.blocksize = m
  BY DEF Shape
<1>2. k \in 0..(n - 1)
  BY <1>1, SplitBelow
<1>3. 8 * k + t \in Bits(n)
  BY <1>1, <1>2, BitIn
<1>4. Splits(8 * k + t, 8 * m, b, 8 * z + t)
  BY <1>1 DEF Splits
<1>5. (8 * k + t) \div (8 * m) = b /\ (8 * k + t) % (8 * m) = 8 * z + t
  BY <1>4, SplitIs
<1>6. nb * m = n
  BY <1>1 DEF Times
<1>7. BlockBytes(layout, b) = m
  <2>1. (b + 1) * m <= n
    <3>1. b + 1 <= nb /\ nb \in Nat
      BY <1>1 DEF Times
    <3>2. (b + 1) * m <= nb * m
      BY <1>1, <3>1
    <3>3. QED
      BY <1>6, <3>2
  <2>2. QED
    BY <1>1, <2>1 DEF BlockBytes
<1>8. 8 * z + t < 8 * m
  BY <1>1
<1>9. Scratch(p, layout)[8 * k + t] =
        IF 8 * z + t < 8 * BlockBytes(layout, b)
        THEN Original(p)[8 * b * m + StoredAt(layout, BlockBytes(layout, b))[8 * z + t]]
        ELSE Junk
  BY <1>1, <1>3, <1>5, <1>6 DEF Scratch
<1>10. QED
  BY <1>3, <1>7, <1>8, <1>9 DEF InBlock, At

LEMMA OriginalAt ==
  ASSUME NEW n \in Nat, layout.nbytes = n, NEW p, NEW j \in Bits(n)
  PROVE  Original(p)[j] = 8 * n * p + j
BY DEF Original

\* A bit of the chunk, by its block, and by its byte and bit in the block.
LEMMA BitCoordinates ==
  ASSUME NEW n, NEW m, NEW ts, NEW nb, NEW ne, Shape(layout, n, m, ts, nb, ne), NEW j \in Bits(n)
  PROVE  \E i, b, x, t : /\ j = 8 * i + t /\ i = j \div 8 /\ t = j % 8 /\ t \in 0..7
                         /\ Splits(i, m, b, x) /\ b \in 0..(nb - 1) /\ x \in 0..(m - 1)
<1>1. n \in Nat /\ m \in Nat \ {0} /\ Times(n, nb, m)
  BY DEF Shape
<1>2. PICK i, t : i = j \div 8 /\ t = j % 8
  OBVIOUS
<1>3. i \in 0..(n - 1) /\ t \in 0..7 /\ j = 8 * i + t
  BY <1>1, <1>2, BitOf
<1>4. PICK b, x : Splits(i, m, b, x)
  <2>1. i \in Nat
    BY <1>1, <1>3
  <2>2. Splits(i, m, i \div m, i % m)
    BY <1>1, <2>1, SplitExists
  <2>3. QED
    BY <2>2
<1>5. b \in 0..(nb - 1)
  BY <1>1, <1>3, <1>4, SplitBelow
<1>6. x \in 0..(m - 1)
  BY <1>4 DEF Splits
<1>7. QED
  BY <1>2, <1>3, <1>4, <1>5, <1>6

\* Unshuffled chunks are what they were.
LEMMA PlainChunk ==
  ASSUME NEW n, NEW m, NEW ts, NEW nb, NEW ne, Shape(layout, n, m, ts, nb, ne), NEW p,
         layout.shuffle = "none"
  PROVE  Unshuffled(Scratch(p, layout), layout) = Original(p)
<1>1. n \in Nat /\ m \in Nat \ {0} /\ layout.nbytes = n
  BY DEF Shape
<1>2. ASSUME NEW j \in Bits(n)
      PROVE  Scratch(p, layout)[j] = Original(p)[j]
  <2>1. PICK i, b, x, t : /\ j = 8 * i + t /\ t \in 0..7
                          /\ Splits(i, m, b, x) /\ b \in 0..(nb - 1) /\ x \in 0..(m - 1)
    BY BitCoordinates
  <2>2. Scratch(p, layout)[At(i, t)] = Original(p)[InBlock(b, m, StoredAt(layout, m)[At(x, t)])]
    BY <2>1, ScratchAt
  <2>3. StoredAt(layout, m) = [h \in Bits(m) |-> h]
    BY DEF StoredAt
  <2>4. 8 * x + t \in Bits(m)
    BY <1>1, <2>1, BitIn
  <2>5. StoredAt(layout, m)[8 * x + t] = 8 * x + t
    BY <2>3, <2>4
  <2>6. InBlock(b, m, 8 * x + t) = j
    BY <2>1 DEF Splits, InBlock
  <2>7. QED
    BY <2>1, <2>2, <2>5, <2>6 DEF At
<1>3. Unshuffled(Scratch(p, layout), layout) = [j \in Bits(n) |-> Scratch(p, layout)[j]]
  BY <1>1 DEF Unshuffled, First
<1>4. Original(p) = [j \in Bits(n) |-> Original(p)[j]]
  BY <1>1 DEF Original
<1>5. QED
  BY <1>2, <1>3, <1>4

LEMMA ByteChunk ==
  ASSUME NEW n, NEW m, NEW ts, NEW nb, NEW ne, Shape(layout, n, m, ts, nb, ne), NEW p,
         layout.shuffle = "byte"
  PROVE  Unshuffled(Scratch(p, layout), layout) = Original(p)
<1>1. /\ n \in Nat /\ m \in Nat \ {0} /\ ts \in Nat \ {0} /\ ne \in Nat \ {0}
      /\ layout.nbytes = n /\ layout.blocksize = m /\ layout.typesize = ts
      /\ Times(m, ne, ts) /\ Times(n, nb, m) /\ NBlocks(layout) = nb
  BY DEF Shape
<1>2. NBlocks(layout) * layout.blocksize = n
  BY <1>1 DEF Times
<1>3. PICK scr : scr = Scratch(p, layout)
  OBVIOUS
<1>4. ByteUnshuffle(scr, n, ts, m) =
        [j \in Bits(n) |-> scr[8 * Unshuffle(j \div 8, ts, ne, m) + (j % 8)]]
  BY <1>1, KernelBytes
<1>5. ASSUME NEW j \in Bits(n)
      PROVE  scr[8 * Unshuffle(j \div 8, ts, ne, m) + (j % 8)] = Original(p)[j]
  <2>1. PICK i, b, x, t : /\ j = 8 * i + t /\ i = j \div 8 /\ t = j % 8 /\ t \in 0..7
                          /\ Splits(i, m, b, x) /\ b \in 0..(nb - 1) /\ x \in 0..(m - 1)
    BY BitCoordinates
  <2>2. PICK u, v, y : Places(ts, ne, m, u, v, x, y)
    BY <1>1, <2>1, PlacesExist
  <2>3. y \in 0..(m - 1)
    BY <2>2, PlacesInBlock
  <2>4. PICK k : k = b * m + y
    OBVIOUS
  <2>5. Splits(k, m, b, y)
    BY <1>1, <2>1, <2>3, <2>4 DEF Splits
  <2>6. Unshuffle(i, ts, ne, m) = k
    BY <2>1, <2>2, <2>5, Coordinates
  <2>7. scr[At(k, t)] = Original(p)[InBlock(b, m, StoredAt(layout, m)[At(y, t)])]
    BY <1>3, <2>1, <2>3, <2>5, ScratchAt
  <2>8. StoredAt(layout, m)[8 * y + t] = 8 * x + t
    <3>1. PICK raw : raw = [h \in Bits(m) |-> h]
      OBVIOUS
    <3>2. StoredAt(layout, m) = ByteShuffle(raw, m, ts, m)
      BY <1>1, <3>1 DEF StoredAt
    <3>3. ByteShuffle(raw, m, ts, m) =
            [h \in Bits(m) |-> raw[8 * Shuffle(h \div 8, ts, ne, m) + (h % 8)]]
      BY <1>1, KernelBytes
    <3>4. (8 * y + t) \div 8 = y /\ (8 * y + t) % 8 = t
      BY <2>1, <2>3, Bit
    <3>5. 8 * y + t \in Bits(m) /\ 8 * x + t \in Bits(m)
      BY <1>1, <2>1, <2>3, BitIn
    <3>6. Splits(x, m, 0, x) /\ Splits(y, m, 0, y)
      BY <1>1, <2>1, <2>3 DEF Splits
    <3>7. Shuffle(y, ts, ne, m) = x
      BY <2>2, <3>6, Coordinates
    <3>8. QED
      BY <3>1, <3>2, <3>3, <3>4, <3>5, <3>7
  <2>9. InBlock(b, m, 8 * x + t) = j
    BY <2>1 DEF Splits, InBlock
  <2>10. QED
    BY <2>1, <2>6, <2>7, <2>8, <2>9 DEF At
<1>6. Unshuffled(scr, layout) = [j \in Bits(n) |-> ByteUnshuffle(scr, n, ts, m)[j]]
  BY <1>1, <1>2 DEF Unshuffled, First
<1>7. Original(p) = [j \in Bits(n) |-> Original(p)[j]]
  BY <1>1 DEF Original
<1>8. QED
  BY <1>3, <1>4, <1>5, <1>6, <1>7

\* Bit-planes of whole bytes are gathered back element by element.
LEMMA BitChunk ==
  ASSUME NEW n, NEW m, NEW ts, NEW nb, NEW ne, Shape(layout, n, m, ts, nb, ne), NEW p,
         layout.shuffle = "bit", WholeBitPlanes(layout.typesize, layout.blocksize)
  PROVE  Unshuffled(Scratch(p, layout), layout) = Original(p)
<1>1. /\ n \in Nat /\ m \in Nat \ {0} /\ ts \in Nat \ {0} /\ ne \in Nat \ {0} /\ nb \in Nat
      /\ layout.nbytes = n /\ layout.blocksize = m /\ layout.typesize = ts
      /\ Times(m, ne, ts) /\ Times(n, nb, m) /\ m \div ts = ne
  BY DEF Shape, Times
<1>2. PICK bpp : bpp = ne \div 8
  OBVIOUS
<1>3. ne % 8 = 0 /\ bpp \in Nat \ {0} /\ ne = bpp * 8
  BY <1>1, <1>2 DEF WholeBitPlanes
<1>4. PICK M : M = 8 * ts
  OBVIOUS
<1>5. M \in Nat \ {0} /\ Times(m, M, bpp) /\ Times(8 * m, ne, M) /\ Times(ne, bpp, 8)
  BY <1>1, <1>3, <1>4 DEF Times
<1>6. PICK q : q = n \div ts
  OBVIOUS
<1>7. Times(8 * n, q, M) /\ Times(q, nb, ne)
  <2>1. Splits(n, ts, nb * ne, 0) /\ nb * ne \in Nat
    BY <1>1 DEF Splits, Times
  <2>2. q = nb * ne
    BY <1>6, <2>1, SplitIs
  <2>3. 8 * n = q * M
    BY <1>4, <2>1, <2>2 DEF Splits
  <2>4. QED
    BY <1>1, <1>5, <2>1, <2>2, <2>3 DEF Times
<1>8. PICK scr : scr = Scratch(p, layout)
  OBVIOUS
<1> DEFINE Gather(e, plane) ==
      scr[8 * ((e \div ne) * m + plane * bpp + ((e % ne) \div 8)) + (e % 8)]
<1>9. Unshuffled(scr, layout) =
        [j \in Bits(n) |-> IF j \div M < q THEN Gather(j \div M, j % M) ELSE Junk]
  BY <1>1, <1>2, <1>4, <1>6 DEF Unshuffled, BitUnshuffle
<1>10. ASSUME NEW j \in Bits(n)
       PROVE  /\ j \div M < q
              /\ Gather(j \div M, j % M) = Original(p)[j]
  <2>1. PICK e, plane : e = j \div M /\ plane = j % M
    OBVIOUS
  <2>2. Splits(j, M, e, plane) /\ e \in Nat
    <3>1. j \in Nat
      BY <1>1 DEF Bits
    <3>2. QED
      BY <1>5, <2>1, <3>1, SplitExists
  <2>3. e \in 0..(q - 1)
    <3>1. j \in 0..(8 * n - 1)
      BY DEF Bits
    <3>2. QED
      BY <1>7, <2>2, <3>1, SplitBelow
  <2>4. PICK b, w : b = e \div ne /\ w = e % ne
    OBVIOUS
  <2>5. Splits(e, ne, b, w)
    BY <1>1, <2>2, <2>4, SplitExists
  <2>6. b \in 0..(nb - 1) /\ w \in 0..(ne - 1)
    <3>1. b \in 0..(nb - 1)
      BY <1>7, <2>3, <2>5, SplitBelow
    <3>2. QED
      BY <2>5, <3>1 DEF Splits
  <2>7. PICK x, t : x = w \div 8 /\ t = w % 8
    OBVIOUS
  <2>8. Splits(w, 8, x, t)
    BY <1>1, <2>6, <2>7, SplitExists
  <2>9. x \in 0..(bpp - 1) /\ t \in 0..7
    <3>1. x \in 0..(bpp - 1)
      BY <1>5, <2>6, <2>8, SplitBelow
    <3>2. QED
      BY <2>8, <3>1 DEF Splits
  <2>10. e % 8 = t
    <3>1. Splits(e, 8, b * bpp + x, t)
      <4>1. e = (b * bpp + x) * 8 + t
        BY <1>3, <2>5, <2>6, <2>8, <2>9 DEF Splits
      <4>2. QED
        BY <1>3, <2>6, <2>9, <4>1 DEF Splits
    <3>2. QED
      BY <3>1, SplitIs
  <2>11. PICK z : z = plane * bpp + x
    OBVIOUS
  <2>12. Splits(z, bpp, plane, x) /\ plane \in 0..(M - 1)
    BY <1>3, <2>2, <2>9, <2>11 DEF Splits
  <2>13. z \in 0..(m - 1)
    BY <1>5, <2>12, SplitBelow
  <2>14. PICK k : k = b * m + z
    OBVIOUS
  <2>15. Splits(k, m, b, z)
    BY <1>1, <2>6, <2>13, <2>14 DEF Splits
  <2>16. scr[At(k, t)] = Original(p)[InBlock(b, m, StoredAt(layout, m)[At(z, t)])]
    BY <1>8, <2>6, <2>9, <2>13, <2>15, ScratchAt
  <2>17. Gather(e, plane) = scr[At(k, t)]
    <3>1. (e \div ne) * m + plane * bpp + ((e % ne) \div 8) = k
      BY <1>1, <1>3, <2>4, <2>6, <2>7, <2>9, <2>11, <2>12, <2>14
    <3>2. QED
      BY <2>10, <3>1 DEF At
  <2>18. StoredAt(layout, m)[At(z, t)] = M * w + plane
    <3>1. StoredAt(layout, m) =
            [h \in Bits(m) |-> (8 * ts * (8 * ((h \div 8) % bpp) + (h % 8))) + ((h \div 8) \div bpp)]
      BY <1>1, <1>2, <1>3 DEF StoredAt, BitPlanes
    <3>2. At(z, t) \in Bits(m) /\ At(z, t) \div 8 = z /\ At(z, t) % 8 = t
      <4>1. m \in Nat /\ z \in 0..(m - 1) /\ z \in Nat /\ t \in 0..7
        BY <1>1, <2>9, <2>13
      <4>2. At(z, t) = 8 * z + t
        BY DEF At
      <4>3. (8 * z + t) \div 8 = z /\ (8 * z + t) % 8 = t
        BY <4>1, Bit
      <4>4. 8 * z + t \in Bits(m)
        BY <4>1, BitIn
      <4>5. QED
        BY <4>2, <4>3, <4>4
    <3>3. z % bpp = x /\ z \div bpp = plane
      BY <2>12, SplitIs
    <3>4. 8 * x + t = w
      BY <2>8, <2>9 DEF Splits
    <3>5. StoredAt(layout, m)[At(z, t)] = (8 * ts * (8 * x + t)) + plane
      BY <3>1, <3>2, <3>3
    <3>6. QED
      BY <1>4, <3>4, <3>5
  <2>19. InBlock(b, m, M * w + plane) = j
    <3>1. j = e * M + plane /\ e = b * ne + w /\ 8 * m = ne * M
      BY <1>5, <2>2, <2>5 DEF Splits, Times
    <3>2. j = (b * ne + w) * M + plane
      BY <3>1
    <3>3. j = b * (ne * M) + M * w + plane
      BY <1>1, <1>5, <2>6, <2>12, <3>2
    <3>4. j = b * (8 * m) + M * w + plane
      BY <3>1, <3>3
    <3>5. QED
      BY <1>1, <1>5, <2>6, <2>12, <3>4 DEF InBlock
  <2>20. j \div M < q
    BY <1>7, <2>1, <2>3 DEF Times
  <2> HIDE DEF Gather
  <2>21. Gather(j \div M, j % M) = Original(p)[j]
    BY <2>1, <2>16, <2>17, <2>18, <2>19
  <2>22. QED
    BY <2>20, <2>21
<1>11. Original(p) = [j \in Bits(n) |-> Original(p)[j]]
  BY <1>1 DEF Original
<1> HIDE DEF Gather
<1>12. QED
  BY <1>8, <1>9, <1>10, <1>11
-----------------------------------------------------------------------------
(* Blosc: sub-batches *)

\* What decode_blosc_batch makes of the chunk at position i of the batch.
Decoding(i) == Unshuffled(Scratch(i, layout), layout)
Decodings == {Decoding(i) : i \in Nat}

\* The chunks decoded so far, one for each of the first positions of Idx.
BloscInv ==
  /\ \E n \in Nat : items \in [1..n -> Forms \cup {None}]
  /\ layout \in Layouts /\ (~Tails => layout.nbytes % layout.blocksize = 0)
  /\ decoded \in Seq(Decodings) /\ Taken <= Len(Idx)
  /\ \A p \in 1..Taken : decoded[p] = Decoding(Idx[p]) /\ Accepts(items[Idx[p]])
  /\ phase \in {"decode", "raised", "returned"}
  /\ phase = "returned" => Taken = Len(Idx) /\ out = InPlace
  /\ phase = "raised" => \E i \in DOMAIN items : items[i] # None /\ ~Accepts(items[i])

Present == {i \in DOMAIN items : items[i] # None}

\* Idx holds the positions of the chunks that are not missing, each once.
LEMMA IdxIs ==
  ASSUME NEW n \in Nat, items \in [1..n -> Forms \cup {None}]
  PROVE  /\ Idx \in Seq(Nat)
         /\ \A p \in 1..Len(Idx) : Idx[p] \in Present
         /\ \A i \in Present : \E p \in 1..Len(Idx) : Idx[p] = i
<1>1. PICK S : S = Present
  OBVIOUS
<1>2. Len(items) = n /\ DOMAIN items = 1..n
  OBVIOUS
<1>3. Idx = InOrder(S, n)
  BY <1>1, <1>2 DEF Idx, Present
<1>4. /\ InOrder(S, n) \in Seq(Nat)
      /\ \A u \in 1..n : u \in S => /\ Rank(S, u) \in 1..Len(InOrder(S, n))
                                    /\ InOrder(S, n)[Rank(S, u)] = u
      /\ \A j \in 1..Len(InOrder(S, n)) : InOrder(S, n)[j] \in S
  BY InOrderRanks
<1>5. S \subseteq 1..n
  BY <1>1, <1>2 DEF Present
<1>6. QED
  BY <1>1, <1>3, <1>4, <1>5

LEMMA BloscInitially == BloscInit => BloscInv
<1> SUFFICES ASSUME BloscInit PROVE BloscInv
  OBVIOUS
<1>1. /\ items \in UNION {[1..n -> Forms \cup {None}] : n \in 0..MaxItems}
      /\ layout \in Layouts /\ (Tails \/ layout.nbytes % layout.blocksize = 0)
      /\ decoded = <<>> /\ phase = "decode"
  BY DEF BloscInit
<1>2. PICK n \in 0..MaxItems : items \in [1..n -> Forms \cup {None}]
  BY <1>1
<1>3. n \in Nat
  BY <1>2, CallAssumption
<1>4. Len(Idx) \in Nat
  BY <1>2, <1>3, IdxIs
<1>5. decoded \in Seq(Decodings) /\ Taken = 0
  BY <1>1 DEF Taken
<1>6. QED
  BY <1>1, <1>2, <1>3, <1>4, <1>5 DEF BloscInv

\* The chunks of the next sub-batch are those after the ones taken.
LEMMA SubIs ==
  ASSUME BloscInv, phase = "decode", Taken < Len(Idx)
  PROVE  \E k \in 1..Len(Idx) : /\ k <= Len(Idx) - Taken
                                /\ Sub = [p \in 1..k |-> Idx[Taken + p]]
<1>1. Idx \in Seq(Nat) /\ Len(Idx) \in Nat /\ Taken \in Nat
  BY IdxIs DEF BloscInv, Taken
<1>2. PICK u : u = Upto(Taken + MaxChunksPerCall)
  OBVIOUS
<1>3. u \in Nat /\ Taken < u /\ u <= Len(Idx)
  BY <1>1, <1>2, CallAssumption DEF Upto
<1>4. Sub = [p \in 1..(u - Taken) |-> Idx[Taken + p]]
  BY <1>1, <1>2, <1>3 DEF Sub
<1>5. QED
  BY <1>1, <1>3, <1>4

LEMMA DecodeSubKeeps == ASSUME BloscInv, DecodeSub PROVE BloscInv'
<1>1. /\ phase = "decode" /\ Taken < Len(Idx)
      /\ UNCHANGED <<items, layout, out, phase>>
  BY DEF DecodeSub
<1>2. PICK k \in 1..Len(Idx) : k <= Len(Idx) - Taken /\ Sub = [p \in 1..k |-> Idx[Taken + p]]
  BY <1>1, SubIs
<1>3. PICK n \in Nat : items \in [1..n -> Forms \cup {None}]
  BY DEF BloscInv
<1>4. /\ Idx \in Seq(Nat) /\ Len(Idx) \in Nat /\ Taken \in Nat
      /\ \A p \in 1..Len(Idx) : Idx[p] \in Nat
  <2>1. Idx \in Seq(Nat)
    BY <1>3, IdxIs
  <2>2. Taken \in Nat
    BY DEF BloscInv, Taken
  <2>3. QED
    BY <2>1, <2>2
<1>5. k \in Nat \ {0} /\ Taken + k <= Len(Idx)
  BY <1>2, <1>4
<1>6. PICK more : more = [p \in 1..k |-> Decoding(Idx[Taken + p])]
  OBVIOUS
<1>7. \A p \in 1..k : Accepts(items[Idx[Taken + p]])
  BY <1>2 DEF DecodeSub
<1>8. decoded' = decoded \o more
  BY <1>2, <1>6 DEF DecodeSub, Decoding
<1>9. more \in Seq(Decodings) /\ Len(more) = k
  <2>1. ASSUME NEW p \in 1..k PROVE more[p] \in Decodings
    <3>1. Taken + p \in 1..Len(Idx)
      BY <1>4, <1>5
    <3>2. Idx[Taken + p] \in Nat
      BY <1>4, <3>1
    <3>3. QED
      BY <1>6, <3>2 DEF Decodings
  <2>2. more \in [1..k -> Decodings]
    BY <1>6, <2>1
  <2>3. QED
    BY <1>5, <2>2
<1>10. decoded \in Seq(Decodings) /\ Len(decoded) = Taken
  BY DEF BloscInv, Taken
<1>11. /\ decoded' \in Seq(Decodings) /\ Len(decoded') = Taken + k
       /\ \A p \in 1..Taken : decoded'[p] = decoded[p]
       /\ \A p \in (Taken + 1)..(Taken + k) : decoded'[p] = more[p - Taken]
  <2>1. PICK t : t = Taken
    OBVIOUS
  <2>2. /\ t \in Nat /\ decoded \in Seq(Decodings) /\ Len(decoded) = t
        /\ more \in Seq(Decodings) /\ Len(more) = k /\ k \in Nat
    BY <1>4, <1>5, <1>9, <1>10, <2>1
  <2>3. decoded \o more \in Seq(Decodings) /\ Len(decoded \o more) = t + k
    BY <2>2
  <2>4. \A p \in 1..t : (decoded \o more)[p] = decoded[p]
    BY <2>2
  <2>5. ASSUME NEW p \in (t + 1)..(t + k) PROVE (decoded \o more)[p] = more[p - t]
    BY <2>2
  <2>6. QED
    BY <1>8, <2>1, <2>3, <2>4, <2>5
<1>12. Idx' = Idx /\ Decodings' = Decodings
  BY <1>1 DEF Idx, Decodings, Decoding, Unshuffled, Scratch, Original
<1>13. ASSUME NEW p \in 1..(Taken + k)
       PROVE  decoded'[p] = Decoding(Idx[p]) /\ Accepts(items[Idx[p]])
  <2>1. CASE p <= Taken
    BY <1>4, <1>11, <2>1 DEF BloscInv
  <2>2. CASE p > Taken
    <3>1. p - Taken \in 1..k /\ Taken + (p - Taken) = p /\ p \in (Taken + 1)..(Taken + k)
      BY <1>4, <1>5, <2>2
    <3>2. more[p - Taken] = Decoding(Idx[p])
      BY <1>6, <3>1
    <3>3. QED
      BY <1>7, <1>11, <3>1, <3>2
  <2>3. QED
    BY <1>4, <1>5, <2>1, <2>2
<1>14. \A i : Decoding(i)' = Decoding(i)
  BY <1>1 DEF Decoding, Unshuffled, Scratch, Original
<1>15. \A p \in 1..(Taken + k) : decoded'[p] = Decoding(Idx[p])' /\ Accepts(items[Idx[p]])'
  BY <1>1, <1>12, <1>13, <1>14 DEF Accepts
<1>16. QED
  BY <1>1, <1>3, <1>5, <1>11, <1>12, <1>15 DEF BloscInv, Taken

LEMMA RaiseSubKeeps == ASSUME BloscInv, RaiseSub PROVE BloscInv'
<1>1. /\ phase = "decode" /\ Taken < Len(Idx) /\ phase' = "raised"
      /\ UNCHANGED <<items, layout, decoded, out>>
  BY DEF RaiseSub
<1>2. PICK k \in 1..Len(Idx) : k <= Len(Idx) - Taken /\ Sub = [p \in 1..k |-> Idx[Taken + p]]
  BY <1>1, SubIs
<1>3. PICK n \in Nat : items \in [1..n -> Forms \cup {None}]
  BY DEF BloscInv
<1>4. /\ Len(Idx) \in Nat /\ Taken \in Nat
      /\ \A p \in 1..Len(Idx) : Idx[p] \in Present
  <2>1. Idx \in Seq(Nat) /\ \A p \in 1..Len(Idx) : Idx[p] \in Present
    BY <1>3, IdxIs
  <2>2. Taken \in Nat
    BY DEF BloscInv, Taken
  <2>3. QED
    BY <2>1, <2>2
<1>5. PICK p \in 1..k : ~Accepts(items[Idx[Taken + p]])
  BY <1>2 DEF RaiseSub
<1>6. Taken + p \in 1..Len(Idx)
  BY <1>2, <1>4, <1>5
<1>7. Idx[Taken + p] \in DOMAIN items /\ items[Idx[Taken + p]] # None
  BY <1>4, <1>6 DEF Present
<1>8. \E i \in DOMAIN items : items[i] # None /\ ~Accepts(items[i])
  BY <1>5, <1>7
<1>9. (\E i \in DOMAIN items : items[i] # None /\ ~Accepts(items[i]))'
  BY <1>1, <1>8 DEF Accepts
<1>10. /\ Idx' = Idx /\ Decodings' = Decodings /\ Taken' = Taken
       /\ \A i : Decoding(i)' = Decoding(i)
  BY <1>1 DEF Idx, Decodings, Decoding, Unshuffled, Scratch, Original, Taken
<1>11. (\A p1 \in 1..Taken : decoded[p1] = Decoding(Idx[p1]) /\ Accepts(items[Idx[p1]]))'
  BY <1>1, <1>10 DEF BloscInv, Accepts
<1>12. QED
  BY <1>1, <1>9, <1>10, <1>11 DEF BloscInv

LEMMA ReturnKeeps == ASSUME BloscInv, Return \/ UNCHANGED bloscVars PROVE BloscInv'
<1>1. /\ UNCHANGED <<items, layout, decoded>>
      /\ (phase = phase' /\ out = out') \/ Return
  BY DEF Return, bloscVars
<1>2. /\ Idx' = Idx /\ Decodings' = Decodings /\ Taken' = Taken /\ InPlace' = InPlace
      /\ \A i : Decoding(i)' = Decoding(i)
  BY <1>1 DEF Idx, InPlace, Decodings, Decoding, Unshuffled, Scratch, Original, Taken
<1>3. \A i : Accepts(items[i])' <=> Accepts(items[i])
  BY <1>1 DEF Accepts
<1>4. /\ (\E n \in Nat : items \in [1..n -> Forms \cup {None}])'
      /\ (layout \in Layouts /\ (~Tails => layout.nbytes % layout.blocksize = 0))'
      /\ (decoded \in Seq(Decodings) /\ Taken <= Len(Idx))'
      /\ (\A p \in 1..Taken : decoded[p] = Decoding(Idx[p]) /\ Accepts(items[Idx[p]]))'
  BY <1>1, <1>2, <1>3 DEF BloscInv
<1>5. CASE Return
  BY <1>2, <1>4, <1>5 DEF BloscInv, Return
<1>6. CASE phase = phase' /\ out = out'
  BY <1>1, <1>2, <1>3, <1>4, <1>6 DEF BloscInv
<1>7. QED
  BY <1>1, <1>5, <1>6

LEMMA BloscInvariant == BloscSpec => []BloscInv
<1>1. BloscInv /\ [BloscNext]_bloscVars => BloscInv'
  BY DecodeSubKeeps, RaiseSubKeeps, ReturnKeeps DEF BloscNext
<1>2. QED
  BY BloscInitially, <1>1, PTL DEF BloscSpec

\* The decoding of a chunk of whole blocks that passes the checks is the chunk.
LEMMA AcceptedIsDecoded ==
  ASSUME layout \in Layouts, layout.nbytes % layout.blocksize = 0, NEW i, Accepts(items[i])
  PROVE  Decoding(i) = Original(i)
<1>1. PICK nb, ne : Shape(layout, layout.nbytes, layout.blocksize, layout.typesize, nb, ne)
  BY WholeBlocks
<1>2. layout.shuffle \in {"bit", "byte", "none"}
  BY LayoutAssumption DEF Layout
<1>3. CASE layout.shuffle = "none"
  BY <1>1, <1>3, PlainChunk DEF Decoding
<1>4. CASE layout.shuffle = "byte"
  BY <1>1, <1>4, ByteChunk DEF Decoding
<1>5. CASE layout.shuffle = "bit"
  <2>1. WholeBitPlanes(layout.typesize, layout.blocksize)
    BY <1>5 DEF Accepts, Unshuffles
  <2>2. QED
    BY <1>1, <1>5, <2>1, BitChunk DEF Decoding
<1>6. QED
  BY <1>2, <1>3, <1>4, <1>5

\* Of chunks without a short last block what a decode returns is, in the place of
\* each, what the CPU compressed, however the batch is split into sub-batches.
THEOREM BloscDecodesOrRaises ==
  ASSUME ~Tails
  PROVE  BloscSpec => []DecodesOrRaises
<1>1. BloscInv => DecodesOrRaises
  <2> SUFFICES ASSUME BloscInv, phase = "returned", NEW i \in DOMAIN items
               PROVE  out[i] = IF items[i] = None THEN None ELSE Original(i)
    BY DEF DecodesOrRaises
  <2>1. out = InPlace /\ Taken = Len(Idx)
    BY DEF BloscInv
  <2>2. out[i] = IF items[i] = None THEN None ELSE decoded[CHOOSE p \in DOMAIN Idx : Idx[p] = i]
    BY <2>1 DEF InPlace
  <2>3. ASSUME items[i] # None
        PROVE  decoded[CHOOSE p \in DOMAIN Idx : Idx[p] = i] = Original(i)
    <3>1. PICK q : q = CHOOSE p \in DOMAIN Idx : Idx[p] = i
      OBVIOUS
    <3>2. Idx \in Seq(Nat) /\ (\E p \in 1..Len(Idx) : Idx[p] = i)
      BY <2>3, IdxIs DEF BloscInv, Present
    <3>3. q \in 1..Taken /\ Idx[q] = i
      BY <2>1, <3>1, <3>2
    <3>4. decoded[q] = Decoding(i) /\ Accepts(items[i])
      BY <3>3 DEF BloscInv
    <3>5. layout \in Layouts /\ layout.nbytes % layout.blocksize = 0
      BY DEF BloscInv
    <3>6. QED
      BY <3>1, <3>4, <3>5, AcceptedIsDecoded
  <2>4. QED
    BY <2>2, <2>3
<1>2. QED
  BY BloscInvariant, <1>1, PTL

\* Every check passes a chunk of zstd blocks, but for the one on bit-planes.
LEMMA PlainIsAccepted ==
  ASSUME layout \in Layouts,
         layout.shuffle = "bit" => WholeBitPlanes(layout.typesize, layout.blocksize)
  PROVE  Accepts("plain")
<1>1. PICK m, ts, nb : m = layout.blocksize /\ ts = layout.typesize /\ nb = NBlocks(layout)
  OBVIOUS
<1>2. m \in Nat \ {0, 1} /\ ts \in Nat \ {0} /\ m % ts = 0 /\ nb \in Int
  <2>1. layout.nbytes \in Nat /\ m \in Nat \ {0, 1} /\ ts \in Nat \ {0} /\ m % ts = 0
    BY <1>1, LayoutAssumption DEF Layout
  <2>2. QED
    BY <1>1, <2>1 DEF NBlocks, CeilDiv
<1>3. \A b : SizePrefix("plain", layout, b) = 1
  BY DEF SizePrefix
<1>4. PrefixesPass("plain", layout)
  BY <1>1, <1>2, <1>3 DEF PrefixesPass
<1>5. Reshapes(nb * m, ts, m)
  <2>1. Splits(nb * m, m, nb, 0)
    BY <1>2 DEF Splits
  <2>2. (nb * m) % m = 0
    BY <2>1, SplitIs
  <2>3. QED
    BY <1>2, <2>2 DEF Reshapes
<1>6. Unshuffles(layout)
  BY <1>1, <1>5 DEF Unshuffles
<1>7. Parses("plain") /\ StatusesPass("plain")
  BY DEF Parses, StatusesPass
<1>8. QED
  BY <1>4, <1>6, <1>7 DEF Accepts

\* "Raw (memcpy) / RLE-special blocks, non-zstd sub-codecs, and bitshuffle tails
\* raise", and nothing else does: short last blocks included.
THEOREM BloscRaisesOnlyUnsupported == BloscSpec => []RaisesOnlyUnsupported
<1>1. BloscInv => RaisesOnlyUnsupported
  <2> SUFFICES ASSUME BloscInv, phase = "raised", \A i \in DOMAIN items : items[i] \in {None, "plain"},
                      layout.shuffle = "bit" => WholeBitPlanes(layout.typesize, layout.blocksize)
               PROVE  FALSE
    BY DEF RaisesOnlyUnsupported
  <2>1. PICK i \in DOMAIN items : items[i] # None /\ ~Accepts(items[i])
    BY DEF BloscInv
  <2>2. layout \in Layouts
    BY DEF BloscInv
  <2>3. QED
    BY <2>1, <2>2, PlainIsAccepted
<1>2. QED
  BY BloscInvariant, <1>1, PTL
-----------------------------------------------------------------------------
(* Powers of two *)

PowerBody(g, k) == IF k = 0 THEN 1 ELSE 2 * g[k - 1]
PowersTo(n) == LET power[k \in 0..n] == IF k = 0 THEN 1 ELSE 2 * power[k - 1] IN power

LEMMA PowersExist ==
  ASSUME NEW n \in Nat
  PROVE  \E g : g = [k \in 0..n |-> PowerBody(g, k)]
<1> DEFINE Step == [x \in Nat \X Nat |-> 2 * x[2]]
<1>1. Step \in [Nat \X Nat -> Nat]
  OBVIOUS
<1> HIDE DEF Step
<1>2. PICK g : Solves(g, n, Nat, 1, Step)
  BY <1>1, Recursion
<1>3. g \in [0..n -> Nat] /\ g[0] = 1 /\ \A k \in 1..n : g[k] = Step[<<k, g[k - 1]>>]
  BY <1>2 DEF Solves
<1>4. ASSUME NEW k \in 0..n PROVE g[k] = PowerBody(g, k)
  <2>1. CASE k = 0
    BY <1>3, <2>1 DEF PowerBody
  <2>2. CASE k # 0
    <3>1. k \in 1..n /\ k \in Nat /\ g[k - 1] \in Nat
      BY <1>3, <2>2
    <3>2. Step[<<k, g[k - 1]>>] = 2 * g[k - 1]
      BY <3>1 DEF Step
    <3>3. QED
      BY <1>3, <3>1, <3>2 DEF PowerBody
  <2>3. QED
    BY <2>1, <2>2
<1>5. g = [k \in 0..n |-> PowerBody(g, k)]
  BY <1>3, <1>4
<1>6. QED
  BY <1>5

LEMMA PowersRec ==
  ASSUME NEW n \in Nat
  PROVE  \A k \in 0..n : PowersTo(n)[k] = PowerBody(PowersTo(n), k)
<1>1. \E g : g = [k \in 0..n |-> PowerBody(g, k)]
  BY PowersExist
<1>2. PowersTo(n) = [k \in 0..n |-> PowerBody(PowersTo(n), k)]
  BY <1>1 DEF PowersTo, PowerBody
<1>3. QED
  BY <1>2

LEMMA PowersAgree ==
  ASSUME NEW n \in Nat, NEW k \in 0..n
  PROVE  PowersTo(n + 1)[k] = PowersTo(n)[k]
<1> DEFINE T == {v \in Nat : v \in 0..n => PowersTo(n + 1)[v] = PowersTo(n)[v]}
<1>1. 0 \in T
  <2>1. PowersTo(n + 1)[0] = 1 /\ PowersTo(n)[0] = 1
    BY PowersRec DEF PowerBody
  <2>2. QED
    BY <2>1
<1>2. ASSUME NEW v \in Nat, v \in T PROVE v + 1 \in T
  <2>1. SUFFICES ASSUME v + 1 \in 0..n PROVE PowersTo(n + 1)[v + 1] = PowersTo(n)[v + 1]
    OBVIOUS
  <2>2. v \in 0..n /\ v + 1 \in 0..(n + 1) /\ v + 1 # 0 /\ (v + 1) - 1 = v
    BY <2>1
  <2>3. PowersTo(n + 1)[v + 1] = 2 * PowersTo(n + 1)[v] /\ PowersTo(n)[v + 1] = 2 * PowersTo(n)[v]
    BY <2>1, <2>2, PowersRec DEF PowerBody
  <2>4. QED
    BY <1>2, <2>2, <2>3
<1>3. k \in T
  <2>1. k \in Nat
    OBVIOUS
  <2> HIDE DEF T
  <2>2. QED
    BY <1>1, <1>2, <2>1, NatSetInduction
<1>4. QED
  BY <1>3

LEMMA Pow2Rec ==
  /\ Pow2(0) = 1
  /\ \A n \in Nat : Pow2(n + 1) = 2 * Pow2(n)
<1>1. \A n : Pow2(n) = PowersTo(n)[n]
  BY DEF Pow2, PowersTo
<1>2. Pow2(0) = 1
  BY <1>1, PowersRec DEF PowerBody
<1>3. ASSUME NEW n \in Nat PROVE Pow2(n + 1) = 2 * Pow2(n)
  <2>1. n + 1 \in 0..(n + 1) /\ n + 1 # 0 /\ (n + 1) - 1 = n /\ n \in 0..n
    OBVIOUS
  <2>2. PowersTo(n + 1)[n + 1] = 2 * PowersTo(n + 1)[n]
    BY <2>1, PowersRec DEF PowerBody
  <2>3. QED
    BY <1>1, <2>1, <2>2, PowersAgree
<1>4. QED
  BY <1>2, <1>3

LEMMA Pow2Type == ASSUME NEW n \in Nat PROVE Pow2(n) \in Nat \ {0}
<1> DEFINE T == {v \in Nat : Pow2(v) \in Nat \ {0}}
<1>1. 0 \in T
  BY Pow2Rec
<1>2. ASSUME NEW v \in Nat, v \in T PROVE v + 1 \in T
  BY <1>2, Pow2Rec
<1>3. QED
  BY <1>1, <1>2, NatSetInduction

\* A power of two is a multiple of the smaller ones.
LEMMA Pow2Splits ==
  ASSUME NEW v \in Nat, NEW w \in Nat
  PROVE  Times(Pow2(v + w), Pow2(w), Pow2(v))
<1> DEFINE T == {k \in Nat : Times(Pow2(v + k), Pow2(k), Pow2(v))}
<1>0. \A k \in Nat : Pow2(k) \in Nat \ {0}
  BY Pow2Type
<1>1. 0 \in T
  BY <1>0, Pow2Rec DEF Times
<1>2. ASSUME NEW k \in Nat, k \in T PROVE k + 1 \in T
  <2>1. PICK a, b, c : a = Pow2(v + k) /\ b = Pow2(k) /\ c = Pow2(v)
    OBVIOUS
  <2>2. a = b * c /\ b \in Nat \ {0} /\ c \in Nat \ {0}
    BY <1>0, <1>2, <2>1 DEF Times
  <2>3. Pow2(v + (k + 1)) = 2 * a /\ Pow2(k + 1) = 2 * b
    <3>1. v + k \in Nat /\ v + (k + 1) = (v + k) + 1
      OBVIOUS
    <3>2. QED
      BY <2>1, <3>1, Pow2Rec
  <2>4. 2 * a = (2 * b) * c /\ 2 * b \in Nat
    BY <2>2
  <2>5. QED
    BY <2>1, <2>2, <2>3, <2>4 DEF Times
<1>3. w \in T
  <2> HIDE DEF T
  <2>1. QED
    BY <1>1, <1>2, NatSetInduction
<1>4. QED
  BY <1>3
-----------------------------------------------------------------------------
(* Delta: arithmetic modulo the width *)

LEMMA SplitInt ==
  ASSUME NEW d \in Nat \ {0}, NEW a \in Int
  PROVE  Splits(a, d, a \div d, a % d) /\ a \div d \in Int
BY DEF Splits

\* a is y, but for a multiple of d.
Same(a, y, d) == \E c \in Int : a = y + c * d

LEMMA SameIs ==
  ASSUME NEW d \in Nat \ {0}, NEW y \in 0..(d - 1), NEW a, Same(a, y, d)
  PROVE  a % d = y
<1>1. PICK c \in Int : a = y + c * d
  BY DEF Same
<1>2. Splits(a, d, c, y)
  BY <1>1 DEF Splits
<1>3. QED
  BY <1>2, SplitIs

LEMMA SameMod ==
  ASSUME NEW d \in Nat \ {0}, NEW a \in Int
  PROVE  a % d \in 0..(d - 1) /\ Same(a % d, a, d)
<1>1. PICK q, r : q = a \div d /\ r = a % d
  OBVIOUS
<1>2. Splits(a, d, q, r)
  BY <1>1, SplitInt
<1>3. r \in 0..(d - 1) /\ r = a + (-q) * d /\ -q \in Int
  BY <1>2 DEF Splits
<1>4. QED
  BY <1>1, <1>3 DEF Same

LEMMA SameSum ==
  ASSUME NEW d \in Nat \ {0}, NEW a \in Int, NEW b \in Int, NEW x \in Int, NEW y \in Int,
         Same(a, x, d), Same(b, y, d)
  PROVE  Same(a + b, x + y, d)
<1>1. PICK c \in Int : a = x + c * d
  BY DEF Same
<1>2. PICK e \in Int : b = y + e * d
  BY DEF Same
<1>3. a + b = (x + y) + (c + e) * d /\ c + e \in Int
  BY <1>1, <1>2
<1>4. QED
  BY <1>3 DEF Same

\* Wrapping to a width and then to a smaller one is wrapping to the smaller one.
LEMMA WrapTwice ==
  ASSUME NEW v \in Nat, NEW w \in Nat, v <= w, NEW x \in Int
  PROVE  Wrap(Wrap(x, w), v) = Wrap(x, v)
<1>1. PICK N, W, K : N = Pow2(v) /\ W = Pow2(w) /\ K = Pow2(w - v)
  OBVIOUS
<1>2. w - v \in Nat /\ v + (w - v) = w
  OBVIOUS
<1>3. /\ N \in Nat \ {0} /\ W \in Nat \ {0} /\ K \in Nat \ {0}
      /\ Times(W, K, N)
  BY <1>1, <1>2, Pow2Type, Pow2Splits
<1>4. PICK q, r : Splits(x, W, q, r) /\ r = x % W
  BY <1>3, SplitInt
<1>5. PICK p, s : Splits(r, N, p, s) /\ s = r % N /\ p \in Int
  <2>1. r \in Int
    BY <1>3, <1>4 DEF Splits
  <2>2. QED
    BY <1>3, <2>1, SplitInt
<1>6. Splits(x, N, q * K + p, s)
  <2>1. x = q * W + r /\ W = K * N /\ r = p * N + s /\ q \in Int /\ s \in 0..(N - 1)
    BY <1>3, <1>4, <1>5 DEF Splits, Times
  <2>2. x = (q * K + p) * N + s
    <3>1. q * (K * N) = (q * K) * N /\ (q * K + p) * N = (q * K) * N + p * N
      BY <1>3, <1>5, <2>1
    <3>2. QED
      BY <1>3, <1>5, <2>1, <3>1
  <2>3. q * K + p \in Int
    BY <1>3, <1>5, <2>1
  <2>4. PICK u : u = q * K + p
    OBVIOUS
  <2>5. Splits(x, N, u, s)
    BY <1>3, <2>1, <2>2, <2>3, <2>4 DEF Splits
  <2>6. QED
    BY <2>4, <2>5
<1>7. x % N = s
  BY <1>6, SplitIs
<1>8. QED
  BY <1>1, <1>4, <1>5, <1>7 DEF Wrap

-----------------------------------------------------------------------------
(* Delta: both backends add the differences up again *)

\* s holds the differences of D, wrapped to the width.
Differences(s, D, n) ==
  /\ n \in Nat \ {0} /\ D \in [1..n -> Words] /\ s \in [1..n -> Words]
  /\ s[1] = D[1] /\ \A i \in 2..n : s[i] = Wrap(D[i] - D[i - 1], Width)

\* A sum that is D[i - 1] but for wrapping is D[i] with the next difference.
LEMMA NextSum ==
  ASSUME NEW s, NEW D, NEW n, Differences(s, D, n), NEW i \in 2..n, NEW a \in Int,
         Same(a, D[i - 1], Pow2(Width))
  PROVE  Same(a + s[i], D[i], Pow2(Width))
<1>1. PICK W : W = Pow2(Width)
  OBVIOUS
<1>2. W \in Nat \ {0} /\ Words = 0..(W - 1)
  BY <1>1, WidthAssumption, Pow2Type DEF Words
<1>3. PICK x, y : x = D[i - 1] /\ y = D[i]
  OBVIOUS
<1>4. n \in Nat /\ i - 1 \in 1..n /\ i \in 1..n
  BY DEF Differences
<1>5. x \in Int /\ y \in Int
  BY <1>2, <1>3, <1>4 DEF Differences
<1>6. s[i] = (y - x) % W /\ y - x \in Int
  BY <1>1, <1>3, <1>5 DEF Differences, Wrap
<1>7. s[i] \in Int /\ Same(s[i], y - x, W)
  <2>1. (y - x) % W \in 0..(W - 1) /\ Same((y - x) % W, y - x, W)
    BY <1>2, <1>6, SameMod
  <2>2. QED
    BY <1>2, <1>6, <2>1
<1>8. Same(a + s[i], x + (y - x), W)
  BY <1>1, <1>2, <1>3, <1>5, <1>6, <1>7, SameSum
<1>9. x + (y - x) = y
  BY <1>5
<1>10. QED
  BY <1>1, <1>3, <1>8, <1>9

LEMMA WrapSame ==
  ASSUME NEW s, NEW D, NEW n, Differences(s, D, n), NEW i \in 1..n, NEW a,
         Same(a, D[i], Pow2(Width))
  PROVE  Wrap(a, Width) = D[i]
<1>1. PICK W : W = Pow2(Width)
  OBVIOUS
<1>2. W \in Nat \ {0} /\ Words = 0..(W - 1)
  BY <1>1, WidthAssumption, Pow2Type DEF Words
<1>3. D[i] \in 0..(W - 1)
  BY <1>2 DEF Differences
<1>4. QED
  BY <1>1, <1>2, <1>3, SameIs DEF Wrap

LEMMA SameItself == ASSUME NEW a \in Int, NEW d \in Int PROVE Same(a, a, d)
<1>1. a = a + 0 * d /\ 0 \in Int
  OBVIOUS
<1>2. QED
  BY <1>1 DEF Same

ScanBody(s, g, i) == IF i = 1 THEN s[1] ELSE Wrap(g[i - 1] + s[i], Width)

\* "cccl": each sum wraps. D solves the scan's recursion, and nothing else does.
LEMMA NativeScanInverts ==
  ASSUME NEW s, NEW D, NEW n, Differences(s, D, n)
  PROVE  NativeScan(s) = D
<1>1. /\ n \in Nat \ {0} /\ D \in [1..n -> Words] /\ DOMAIN s = 1..n /\ s[1] = D[1]
  BY DEF Differences
<1>2. Pow2(Width) \in Nat \ {0} /\ Words \subseteq Int
  BY WidthAssumption, Pow2Type DEF Words
<1>3. ASSUME NEW i \in 2..n PROVE Wrap(D[i - 1] + s[i], Width) = D[i]
  <2>1. i - 1 \in 1..n /\ i \in 1..n
    BY <1>1
  <2>2. D[i - 1] \in Int
    BY <1>1, <1>2, <2>1
  <2>3. Same(D[i - 1], D[i - 1], Pow2(Width))
    BY <1>2, <2>2, SameItself
  <2>4. Same(D[i - 1] + s[i], D[i], Pow2(Width))
    BY <2>2, <2>3, NextSum
  <2>5. QED
    BY <2>1, <2>4, WrapSame
<1>4. ASSUME NEW i \in 1..n PROVE D[i] = ScanBody(s, D, i)
  BY <1>1, <1>3 DEF ScanBody
<1>5. D = [i \in DOMAIN s |-> ScanBody(s, D, i)]
  BY <1>1, <1>4
<1>6. PICK g : g = NativeScan(s)
  OBVIOUS
<1>7. g = [i \in DOMAIN s |-> ScanBody(s, g, i)]
  <2>1. \E f : f = [i \in DOMAIN s |-> ScanBody(s, f, i)]
    BY <1>5
  <2>2. QED
    BY <1>6, <2>1 DEF NativeScan, ScanBody
<1>8. \A i \in 1..n : g[i] = ScanBody(s, g, i)
  BY <1>1, <1>7
<1> DEFINE T == {v \in Nat : v + 1 \in 1..n => g[v + 1] = D[v + 1]}
<1>9. 0 \in T
  BY <1>1, <1>8 DEF ScanBody
<1>10. ASSUME NEW v \in Nat, v \in T PROVE v + 1 \in T
  <2>1. SUFFICES ASSUME v + 2 \in 1..n PROVE g[v + 2] = D[v + 2]
    OBVIOUS
  <2>2. v + 1 \in 1..n /\ v + 2 \in 2..n /\ (v + 2) - 1 = v + 1 /\ v + 2 # 1
    BY <1>1, <2>1
  <2>3. g[v + 2] = Wrap(g[v + 1] + s[v + 2], Width)
    BY <1>8, <2>1, <2>2 DEF ScanBody
  <2>4. QED
    BY <1>3, <1>10, <2>2, <2>3
<1>11. ASSUME NEW i \in 1..n PROVE g[i] = D[i]
  <2>1. i - 1 \in T
    <3>1. i - 1 \in Nat
      BY <1>1
    <3> HIDE DEF T
    <3>2. QED
      BY <1>9, <1>10, <3>1, NatSetInduction
  <2>2. QED
    BY <1>1, <2>1
<1>12. g = D
  BY <1>1, <1>7, <1>11
<1>13. QED
  BY <1>6, <1>12

SumBody(s, g, i) == IF i = 0 THEN 0 ELSE g[i - 1] + s[i]
RunningSums(s) == LET sum[i \in 0..Len(s)] == IF i = 0 THEN 0 ELSE sum[i - 1] + s[i] IN sum

LEMMA SumsExist ==
  ASSUME NEW n \in Nat, NEW s \in [1..n -> Int]
  PROVE  \E g : g \in [0..n -> Int] /\ g = [i \in 0..n |-> SumBody(s, g, i)]
<1> DEFINE Step == [x \in Nat \X Int |-> IF x[1] \in 1..n THEN x[2] + s[x[1]] ELSE 0]
<1>1. Step \in [Nat \X Int -> Int]
  OBVIOUS
<1> HIDE DEF Step
<1>2. PICK g : Solves(g, n, Int, 0, Step)
  <2>1. PICK zero : zero = 0 /\ zero \in Int
    OBVIOUS
  <2>2. \E g : Solves(g, n, Int, zero, Step)
    BY <1>1, <2>1, Recursion
  <2>3. QED
    BY <2>1, <2>2
<1>3. g \in [0..n -> Int] /\ g[0] = 0 /\ \A k \in 1..n : g[k] = Step[<<k, g[k - 1]>>]
  BY <1>2 DEF Solves
<1>4. ASSUME NEW k \in 0..n PROVE g[k] = SumBody(s, g, k)
  <2>1. CASE k = 0
    BY <1>3, <2>1 DEF SumBody
  <2>2. CASE k # 0
    <3>1. k \in 1..n /\ k \in Nat /\ g[k - 1] \in Int
      BY <1>3, <2>2
    <3>2. Step[<<k, g[k - 1]>>] = g[k - 1] + s[k]
      BY <3>1 DEF Step
    <3>3. QED
      BY <1>3, <3>1, <3>2 DEF SumBody
  <2>3. QED
    BY <2>1, <2>2
<1>5. g = [i \in 0..n |-> SumBody(s, g, i)]
  BY <1>3, <1>4
<1>6. QED
  BY <1>3, <1>5

\* "cupy": the words are added up, and the sums wrap.
LEMMA CumSumInverts ==
  ASSUME NEW s, NEW D, NEW n, Differences(s, D, n)
  PROVE  CumSum(s) = D
<1>1. /\ n \in Nat \ {0} /\ D \in [1..n -> Words] /\ s \in [1..n -> Words] /\ s[1] = D[1]
      /\ DOMAIN s = 1..n /\ Len(s) = n
  BY DEF Differences
<1>2. Pow2(Width) \in Nat \ {0} /\ Words \subseteq Int
  BY WidthAssumption, Pow2Type DEF Words
<1>3. PICK g : g = RunningSums(s)
  OBVIOUS
<1>4. s \in [1..n -> Int] /\ n \in Nat
  BY <1>1, <1>2
<1>5. g = [i \in 0..n |-> SumBody(s, g, i)]
  <2>1. \E f : f = [i \in 0..n |-> SumBody(s, f, i)]
    BY <1>4, SumsExist
  <2>2. QED
    BY <1>1, <1>3, <2>1 DEF RunningSums, SumBody
<1>6. g[0] = 0 /\ \A i \in 1..n : g[i] = g[i - 1] + s[i]
  <2>1. \A i \in 0..n : g[i] = SumBody(s, g, i)
    BY <1>5
  <2>2. QED
    BY <1>1, <2>1 DEF SumBody
<1> DEFINE T == {v \in Nat : v + 1 \in 1..n =>
                               g[v + 1] \in Int /\ Same(g[v + 1], D[v + 1], Pow2(Width))}
<1>7. 0 \in T
  <2>1. 1 \in 1..n /\ s[1] \in Int /\ g[1] = g[0] + s[1]
    BY <1>1, <1>4, <1>6
  <2>2. g[1] = D[1] /\ D[1] \in Int
    BY <1>1, <1>6, <2>1
  <2>3. Same(g[1], D[1], Pow2(Width))
    BY <1>2, <2>2, SameItself
  <2>4. QED
    BY <2>2, <2>3
<1>8. ASSUME NEW v \in Nat, v \in T PROVE v + 1 \in T
  <2>1. SUFFICES ASSUME v + 2 \in 1..n
                 PROVE  g[v + 2] \in Int /\ Same(g[v + 2], D[v + 2], Pow2(Width))
    OBVIOUS
  <2>2. v + 1 \in 1..n /\ v + 2 \in 2..n /\ (v + 2) - 1 = v + 1
    BY <1>1, <2>1
  <2>3. g[v + 2] = g[v + 1] + s[v + 2]
    BY <1>6, <2>1, <2>2
  <2>4. g[v + 1] \in Int /\ Same(g[v + 1], D[(v + 2) - 1], Pow2(Width))
    BY <1>8, <2>2
  <2>5. Same(g[v + 1] + s[v + 2], D[v + 2], Pow2(Width))
    BY <2>2, <2>4, NextSum
  <2>6. s[v + 2] \in Int
    BY <1>4, <2>1
  <2>7. QED
    BY <2>3, <2>4, <2>5, <2>6
<1>9. ASSUME NEW i \in 1..n PROVE Wrap(g[i], Width) = D[i]
  <2>1. i - 1 \in T
    <3>1. i - 1 \in Nat
      BY <1>1
    <3> HIDE DEF T
    <3>2. QED
      BY <1>7, <1>8, <3>1, NatSetInduction
  <2>2. Same(g[i], D[i], Pow2(Width))
    BY <1>1, <2>1
  <2>3. QED
    BY <2>2, WrapSame
<1>10. CumSum(s) = [i \in 1..n |-> Wrap(g[i], Width)]
  BY <1>1, <1>3 DEF CumSum, RunningSums
<1>11. QED
  BY <1>1, <1>9, <1>10

\* Difference i of D, not wrapped.
Diff(D, i) == IF i = 1 THEN D[1] ELSE D[i] - D[i - 1]

LEMMA DeltaJob ==
  ASSUME NEW j \in Jobs, j.filter = "delta"
  PROVE  /\ j.data \in Seq(Words) /\ j.data # <<>> /\ j.astype \in {Unset, Narrow}
<1>1. j \in [filter : {"delta"}, astype : {Unset, Narrow}, data : Deltas]
  BY DEF Jobs
<1>2. QED
  BY <1>1, WidthAssumption

\* What the reader widens is the difference in the full width.
LEMMA WidenedDifference ==
  ASSUME NEW j \in Jobs, j.filter = "delta", Fits(j), NEW n, n = Len(j.data), NEW i \in 1..n
  PROVE  Widen(Wrap(Diff(j.data, i), StoredWidth(j)), StoredWidth(j)) = Wrap(Diff(j.data, i), Width)
<1>1. PICK D, w : D = j.data /\ w = StoredWidth(j)
  OBVIOUS
<1>2. D \in Seq(Words) /\ n = Len(D) /\ n \in Nat
  BY <1>1, DeltaJob
<1>3. Pow2(Width) \in Nat \ {0} /\ Words = 0..(Pow2(Width) - 1)
  BY WidthAssumption, Pow2Type DEF Words
<1>4. w \in Nat /\ w <= Width /\ Width \in Nat
  <2>1. w \in {Width, Narrow}
    BY <1>1, DeltaJob DEF StoredWidth
  <2>2. QED
    BY <2>1, WidthAssumption
<1>5. Diff(D, i) \in Int
  <2>1. D[i] \in Int /\ (i # 1 => D[i - 1] \in Int) /\ (i = 1 => D[1] \in Int)
    BY <1>2, <1>3
  <2>2. QED
    BY <2>1 DEF Diff
<1>6. CASE w = Width
  <2>1. \A x : Widen(x, w) = x
    BY <1>4, <1>6 DEF Widen
  <2>2. QED
    BY <1>1, <1>6, <2>1
<1>7. CASE w # Width
  <2>1. PICK d : d = IF i = 1 THEN D[1] ELSE Wrap(D[i] - D[i - 1], Width)
    OBVIOUS
  <2>2. Widen(Wrap(d, w), w) = d
    <3>1. i \in DOMAIN j.data
      BY <1>1, <1>2
    <3>2. \/ StoredWidth(j) = Width
          \/ Widen(Wrap(IF i = 1 THEN j.data[1] ELSE Wrap(j.data[i] - j.data[i - 1], Width),
                        StoredWidth(j)), StoredWidth(j))
               = IF i = 1 THEN j.data[1] ELSE Wrap(j.data[i] - j.data[i - 1], Width)
      BY <3>1, Zenon DEF Fits
    <3>3. QED
      BY <1>1, <1>7, <2>1, <3>2
  <2>3. d = Wrap(Diff(D, i), Width)
    <3>1. CASE i = 1
      <4>1. D[1] \in 0..(Pow2(Width) - 1)
        BY <1>2, <1>3, <3>1
      <4>2. D[1] % Pow2(Width) = D[1]
        <5>1. \A M \in Nat : \A x \in 0..(M - 1) : x % M = x
          OBVIOUS
        <5>2. Pow2(Width) \in Nat
          BY <1>3
        <5>3. QED
          BY <4>1, <5>1, <5>2
      <4>3. QED
        BY <2>1, <3>1, <4>2 DEF Diff, Wrap
    <3>2. CASE i # 1
      BY <2>1, <3>2 DEF Diff
    <3>3. QED
      BY <3>1, <3>2
  <2>4. Wrap(d, w) = Wrap(Diff(D, i), w)
    BY <1>4, <1>5, <2>3, WrapTwice
  <2>5. QED
    BY <1>1, <2>2, <2>3, <2>4
<1>8. QED
  BY <1>6, <1>7

LEMMA DeltaInverts ==
  ASSUME NEW j \in Jobs, j.filter = "delta", Fits(j), NEW backend
  PROVE  DeltaDecode(j, backend, DeltaEncode(j)) = j.data
<1>1. PICK D, w, n : D = j.data /\ w = StoredWidth(j) /\ n = Len(D)
  OBVIOUS
<1>2. D \in Seq(Words) /\ D # <<>> /\ n \in Nat \ {0} /\ DOMAIN D = 1..n
  BY <1>1, DeltaJob
<1>3. Pow2(Width) \in Nat \ {0} /\ Words = 0..(Pow2(Width) - 1)
  BY WidthAssumption, Pow2Type DEF Words
<1>4. DeltaEncode(j) = [i \in 1..n |-> Wrap(Diff(D, i), w)]
  BY <1>1, <1>2 DEF DeltaEncode, Diff
<1>5. PICK s : s = [i \in 1..n |-> Widen(Wrap(Diff(D, i), w), w)]
  OBVIOUS
<1>6. \A i \in 1..n : s[i] = Wrap(Diff(D, i), Width)
  BY <1>1, <1>5, WidenedDifference
<1>7. \A i \in 1..n : Diff(D, i) \in Int /\ D[i] \in Words
  <2>1. ASSUME NEW i \in 1..n PROVE Diff(D, i) \in Int /\ D[i] \in Words
    <3>1. D[i] \in Int /\ D[i] \in Words /\ (i # 1 => D[i - 1] \in Int) /\ (i = 1 => D[1] \in Int)
      BY <1>2, <1>3
    <3>2. QED
      BY <3>1 DEF Diff
  <2>2. QED
    BY <2>1
<1>8. \A i \in 1..n : s[i] \in Words
  BY <1>3, <1>6, <1>7 DEF Wrap
<1>9. s[1] = D[1] /\ \A i \in 2..n : s[i] = Wrap(D[i] - D[i - 1], Width)
  <2>1. s[1] = Wrap(D[1], Width)
    BY <1>2, <1>6 DEF Diff
  <2>2. D[1] \in 0..(Pow2(Width) - 1)
    BY <1>2, <1>3, <1>7
  <2>3. D[1] % Pow2(Width) = D[1]
    BY <1>3, <2>2
  <2>4. \A i \in 2..n : s[i] = Wrap(D[i] - D[i - 1], Width)
    BY <1>2, <1>6 DEF Diff
  <2>5. QED
    BY <2>1, <2>3, <2>4 DEF Wrap
<1>10. Differences(s, D, n)
  <2>1. D \in [1..n -> Words] /\ s \in [1..n -> Words]
    BY <1>2, <1>5, <1>7, <1>8
  <2>2. QED
    BY <1>2, <1>9, <2>1 DEF Differences
<1>11. DeltaDecode(j, backend, DeltaEncode(j)) = IF backend = "cccl" THEN NativeScan(s) ELSE CumSum(s)
  BY <1>1, <1>4, <1>5 DEF DeltaDecode
<1>12. QED
  BY <1>1, <1>10, <1>11, NativeScanInverts, CumSumInverts

\* One shuffle block, the whole chunk.
LEMMA ShuffleInverts ==
  ASSUME NEW j \in Jobs, j.filter = "shuffle", Divides(j)
  PROVE  ByteUnshuffle(ByteShuffle(Plain(j), j.size, j.elementsize, j.size),
                       j.size, j.elementsize, j.size) = Plain(j)
<1>1. PICK n, ts : n = j.size /\ ts = j.elementsize
  OBVIOUS
<1>2. n \in Nat /\ ts \in Nat \ {0}
  <2>1. j \in [filter : {"shuffle"}, elementsize : 1..3, size : Sizes]
    BY DEF Jobs
  <2>2. QED
    BY <1>1, <2>1, WidthAssumption
<1>3. CASE n = 0
  <2>1. Bits(n) = {}
    BY <1>3 DEF Bits
  <2>2. QED
    BY <1>1, <2>1 DEF ByteUnshuffle, TakeBytes, Plain
<1>4. CASE n # 0
  <2>1. n % ts = 0
    BY <1>1 DEF Divides, Reshapes
  <2>2. PICK ne : ne = n \div ts
    OBVIOUS
  <2>3. Splits(n, ts, ne, 0) /\ ne \in Nat
    BY <1>2, <2>1, <2>2, SplitExists
  <2>4. Times(n, ne, ts) /\ ne # 0
    BY <1>2, <1>4, <2>3 DEF Splits, Times
  <2>5. Times(n, 1, n)
    BY <1>2, <1>4 DEF Times
  <2>6. Plain(j) \in [Bits(n) -> Bits(n)]
    BY <1>1 DEF Plain
  <2>7. ByteUnshuffle(ByteShuffle(Plain(j), n, ts, n), n, ts, n) = Plain(j)
    BY <1>2, <2>3, <2>4, <2>5, <2>6, ByteRoundTrip
  <2>8. QED
    BY <1>1, <2>7
<1>5. QED
  BY <1>3, <1>4

-----------------------------------------------------------------------------
(* What a written chunk is read back as *)

\* A chunk is stored as its filter encodes it, and only a job that can be
\* shuffled is; the reader's backend does not depend on the writer's.
ChunkInv ==
  /\ job \in Jobs /\ stage \in {"new", "written", "read", "raised"}
  /\ stage \in {"written", "read"} =>
       stored = Encoded(job) /\ (job.filter = "shuffle" => Divides(job))
  /\ stage = "read" => \E backend : read = Decoded(job, backend, stored)

LEMMA ChunkInvariant == FilterSpec => []ChunkInv
<1>1. FilterInit => ChunkInv
  BY DEF FilterInit, ChunkInv
<1>2. ChunkInv /\ [FilterNext]_filterVars => ChunkInv'
  <2> SUFFICES ASSUME ChunkInv, [FilterNext]_filterVars PROVE ChunkInv'
    OBVIOUS
  <2>1. ASSUME UNCHANGED chunk PROVE ChunkInv'
    BY <2>1 DEF chunk, ChunkInv
  <2>2. CASE Configure(TRUE) \/ Configure(FALSE) \/ Exit \/ UNCHANGED filterVars
    <3>1. UNCHANGED chunk
      BY <2>2 DEF Configure, Exit, filterVars
    <3>2. QED
      BY <2>1, <3>1
  <2>3. CASE Write
    <3>1. stage = "new" /\ job' = job
      BY <2>3 DEF Write
    <3>2. PICK kwarg \in Kwargs : IF Raises(kwarg) THEN stage' = "raised" /\ stored' = stored
                                  ELSE stage' = "written" /\ stored' = Encoded(job)
      BY <2>3 DEF Write
    <3>3. ~Raises(kwarg) => (job.filter = "shuffle" => Divides(job))
      BY DEF Raises
    <3>4. QED
      BY <3>1, <3>2, <3>3 DEF ChunkInv
  <2>4. CASE Read
    <3>1. stage = "written" /\ job' = job /\ stored' = stored
      BY <2>4 DEF Read
    <3>2. IF Raises(Unset) THEN stage' = "raised" /\ read' = read
          ELSE stage' = "read" /\ read' = Decoded(job, Choice(job.filter, Unset), stored)
      BY <2>4 DEF Read
    <3>3. QED
      BY <3>1, <3>2 DEF ChunkInv
  <2>5. QED
    BY <2>2, <2>3, <2>4 DEF FilterNext
<1>3. QED
  BY <1>1, <1>2, PTL DEF FilterSpec

\* "All backends produce the same on-disk bitstream": a chunk is read back as it
\* was written for every pair of backends, every width of words, and any calls of
\* configure_gpu in between.
THEOREM FiltersReadBack == FilterSpec => []FiltersInvert
<1>1. ChunkInv => FiltersInvert
  <2> SUFFICES ASSUME ChunkInv, stage = "read"
               PROVE  /\ job.filter = "delta" /\ Fits(job) => read = job.data
                      /\ job.filter = "shuffle" => read = Plain(job)
    BY DEF FiltersInvert
  <2>1. PICK backend : read = Decoded(job, backend, Encoded(job))
    BY DEF ChunkInv
  <2>2. job \in Jobs /\ (job.filter = "shuffle" => Divides(job))
    BY DEF ChunkInv
  <2>3. ASSUME job.filter = "delta", Fits(job) PROVE read = job.data
    <3>1. read = DeltaDecode(job, backend, DeltaEncode(job))
      BY <2>1, <2>3 DEF Decoded, Encoded
    <3>2. QED
      BY <2>2, <2>3, <3>1, DeltaInverts
  <2>4. ASSUME job.filter = "shuffle" PROVE read = Plain(job)
    <3>1. read = ByteUnshuffle(ByteShuffle(Plain(job), job.size, job.elementsize, job.size),
                               job.size, job.elementsize, job.size)
      BY <2>1, <2>4 DEF Decoded, Encoded
    <3>2. QED
      BY <2>2, <2>4, <3>1, ShuffleInverts
  <2>5. QED
    BY <2>3, <2>4
<1>2. QED
  BY ChunkInvariant, <1>1, PTL

-----------------------------------------------------------------------------
(* BitRound *)

\* The multiples of U that are nearest to m, of 0 up to the one above m.
Near(m, U) == {q \in 0..(m \div U + 1) :
                 \A p \in 0..(m \div U + 1) : Distance(q * U, m) <= Distance(p * U, m)}

\* m is low above q * U: how far the multiples of U are from it.
LEMMA Distances ==
  ASSUME NEW U \in Nat \ {0}, NEW m, NEW q \in Nat, NEW low, Splits(m, U, q, low), NEW x \in 0..(q + 1)
  PROVE  /\ x = q => Distance(x * U, m) = low
         /\ x = q + 1 => Distance(x * U, m) = U - low
         /\ x < q => Distance(x * U, m) >= low + U
         /\ Distance(x * U, m) \in Int
<1>1. m \in Nat /\ m = q * U + low /\ low \in 0..(U - 1)
  BY DEF Splits
<1>2. PICK a, b : a = x * U /\ b = q * U
  OBVIOUS
<1>3. a \in Nat /\ b \in Nat
  BY <1>2
<1>4. x = q => a = b
  BY <1>2
<1>5. x = q + 1 => a = b + U
  BY <1>2
<1>6. x < q => a + U <= b
  <2>1. SUFFICES ASSUME x + 1 <= q PROVE a + U <= b
    OBVIOUS
  <2>2. (x + 1) * U <= q * U
    BY <2>1
  <2>3. (x + 1) * U = x * U + U
    OBVIOUS
  <2>4. QED
    BY <1>2, <2>2, <2>3
<1>7. Distance(a, m) = IF a > m THEN a - m ELSE m - a
  BY DEF Distance
<1>8. m = b + low
  BY <1>1, <1>2
<1>9. QED
  BY <1>1, <1>2, <1>3, <1>4, <1>5, <1>6, <1>7, <1>8

LEMMA NearIs ==
  ASSUME NEW U \in Nat \ {0}, NEW m, NEW q \in Nat, NEW low, Splits(m, U, q, low)
  PROVE  Near(m, U) = {x \in {q, q + 1} : IF x = q THEN 2 * low <= U ELSE 2 * low >= U}
<1>1. m \div U = q /\ low \in 0..(U - 1) /\ low \in Int
  BY SplitIs DEF Splits
<1> DEFINE D(x) == Distance(x * U, m)
<1>2. \A x \in 0..(q + 1) : /\ (x = q => D(x) = low) /\ (x = q + 1 => D(x) = U - low)
                            /\ (x < q => D(x) >= low + U) /\ D(x) \in Int
  BY Distances
<1>3. Near(m, U) = {x \in 0..(q + 1) : \A p \in 0..(q + 1) : D(x) <= D(p)}
  BY <1>1 DEF Near
<1> HIDE DEF D
<1>4. q \in 0..(q + 1) /\ q + 1 \in 0..(q + 1) /\ D(q) = low /\ D(q + 1) = U - low
  BY <1>2
<1>5. ASSUME NEW x \in Near(m, U)
      PROVE  x \in {q, q + 1} /\ IF x = q THEN 2 * low <= U ELSE 2 * low >= U
  <2>1. x \in 0..(q + 1) /\ D(x) <= low /\ D(x) <= U - low
    BY <1>3, <1>4
  <2>2. ~(x < q)
    BY <1>1, <1>2, <2>1
  <2>3. x \in {q, q + 1}
    BY <2>1, <2>2
  <2>4. QED
    BY <1>1, <1>4, <2>1, <2>3
<1>6. ASSUME NEW x \in {q, q + 1}, IF x = q THEN 2 * low <= U ELSE 2 * low >= U
      PROVE  x \in Near(m, U)
  <2>1. D(x) <= low /\ D(x) <= U - low /\ D(x) \in Int
    BY <1>1, <1>2, <1>4, <1>6
  <2>2. ASSUME NEW p \in 0..(q + 1) PROVE D(x) <= D(p)
    <3>1. p < q \/ p = q \/ p = q + 1
      OBVIOUS
    <3>2. p < q => D(p) >= low + U /\ D(p) \in Int
      BY <1>2
    <3>3. QED
      BY <1>1, <1>4, <2>1, <3>1, <3>2
  <2>3. QED
    BY <1>3, <1>4, <2>2
<1>7. QED
  BY <1>5, <1>6

\* The nearest multiple, and of two the even one.
LEMMA NearestIs ==
  ASSUME NEW U \in Nat \ {0}, NEW m, NEW q \in Nat, NEW low, Splits(m, U, q, low)
  PROVE  Nearest(m, U) = U * (IF 2 * low > U \/ (2 * low = U /\ q % 2 # 0) THEN q + 1 ELSE q)
<1>1. low \in Int /\ q # q + 1
  BY DEF Splits
<1>2. PICK N : N = Near(m, U)
  OBVIOUS
<1>3. PICK c : c = CHOOSE x \in N : N = {x} \/ x % 2 = 0
  OBVIOUS
<1>4. Nearest(m, U) = U * c
  BY <1>2, <1>3 DEF Nearest, Near
<1>5. N = {x \in {q, q + 1} : IF x = q THEN 2 * low <= U ELSE 2 * low >= U}
  BY <1>2, NearIs
<1>6. CASE 2 * low < U
  <2>1. N = {q}
    BY <1>1, <1>5, <1>6
  <2>2. c = q
    BY <1>3, <2>1
  <2>3. QED
    BY <1>1, <1>4, <1>6, <2>2
<1>7. CASE 2 * low > U
  <2>1. N = {q + 1}
    BY <1>1, <1>5, <1>7
  <2>2. c = q + 1
    BY <1>3, <2>1
  <2>3. QED
    BY <1>1, <1>4, <1>7, <2>2
<1>8. CASE 2 * low = U
  <2>1. N = {q, q + 1}
    BY <1>1, <1>5, <1>8
  <2>2. \E x \in N : x % 2 = 0
    BY <2>1
  <2>3. c \in N /\ (N = {c} \/ c % 2 = 0)
    BY <1>3, <2>2
  <2>4. c % 2 = 0
    BY <1>1, <2>1, <2>3
  <2>5. c = IF q % 2 # 0 THEN q + 1 ELSE q
    BY <2>1, <2>3, <2>4
  <2>6. QED
    BY <1>1, <1>4, <1>8, <2>5
<1>9. QED
  BY <1>1, <1>6, <1>7, <1>8

\* The kernel's rounding is to the nearest multiple of the dropped bits' unit, of
\* two the one whose last kept bit is 0; it never carries into the sign.
LEMMA BitRoundRounds ==
  ASSUME NEW j \in Jobs, j.filter = "bitround", NEW m, m = j.word % Sign, m <= Infinity,
         NEW keep, keep = IF j.keepbits < Mantissa THEN j.keepbits ELSE Mantissa
  PROVE  BitRound(j) = j.word - m + Nearest(m, Pow2(Mantissa - keep))
<1>1. PICK x, W, H, P : x = j.word /\ W = Pow2(Width) /\ H = Pow2(Width - 1) /\ P = Pow2(Mantissa)
  OBVIOUS
<1>2. j.keepbits \in 0..(Mantissa + 1) /\ x \in 0..(W - 1)
  <2>1. j \in [filter : {"bitround"}, keepbits : 0..(Mantissa + 1), word : Words]
    BY DEF Jobs
  <2>2. QED
    BY <1>1, <2>1 DEF Words
<1>3. Width \in Nat /\ Mantissa \in Nat \ {0} /\ Mantissa + 2 <= Width /\ Width - 1 \in Nat
  BY WidthAssumption
<1>4. W \in Nat \ {0} /\ H \in Nat \ {0} /\ P \in Nat \ {0}
  BY <1>1, <1>3, Pow2Type
<1>5. W = 2 * H
  <2>1. (Width - 1) + 1 = Width
    BY <1>3
  <2>2. QED
    BY <1>1, <1>3, <2>1, Pow2Rec
<1>6. PICK s : Splits(x, H, s, m) /\ s \in 0..1
  <2>1. PICK q : Splits(x, H, q, m)
    <3>1. m = x % H /\ x \in Int
      BY <1>1, <1>2 DEF Sign
    <3>2. Splits(x, H, x \div H, x % H)
      BY <1>4, <3>1, SplitInt
    <3>3. QED
      BY <3>1, <3>2
  <2>2. Times(W, 2, H)
    BY <1>4, <1>5 DEF Times
  <2>3. q \in 0..(2 - 1)
    BY <1>2, <2>1, <2>2, SplitBelow
  <2>4. QED
    BY <2>1, <2>3
<1>7. m \in Nat /\ m < H /\ x = (IF s = 1 THEN H ELSE 0) + m
  BY <1>4, <1>6 DEF Splits
<1>8. m <= H - P
  <2>1. PICK E : E = Pow2(Width - 1 - Mantissa)
    OBVIOUS
  <2>2. Width - 1 - Mantissa \in Nat /\ Mantissa + (Width - 1 - Mantissa) = Width - 1
    BY <1>3
  <2>3. Times(H, E, P) /\ E \in Nat
    BY <1>1, <1>3, <2>1, <2>2, Pow2Splits, Pow2Type
  <2>4. H = E * P
    BY <2>3 DEF Times
  <2>5. Infinity = P * (E - 1)
    BY <1>1, <2>1 DEF Infinity
  <2>6. P * (E - 1) = E * P - P
    BY <1>4, <2>3
  <2>7. QED
    BY <2>4, <2>5, <2>6
<1>9. CASE Mantissa - j.keepbits <= 0
  <2>1. keep = Mantissa /\ Mantissa - keep = 0
    BY <1>2, <1>3, <1>9
  <2>2. Pow2(Mantissa - keep) = 1
    BY <2>1, Pow2Rec
  <2>3. Splits(m, 1, m, 0)
    BY <1>7 DEF Splits
  <2>4. Nearest(m, 1) = 1 * m
    BY <1>7, <2>3, NearestIs
  <2>5. BitRound(j) = x
    BY <1>1, <1>9 DEF BitRound
  <2>6. QED
    BY <1>1, <1>2, <1>7, <2>2, <2>4, <2>5
<1>10. CASE ~(Mantissa - j.keepbits <= 0)
  <2>1. PICK k : k = Mantissa - j.keepbits
    OBVIOUS
  <2>2. k \in 1..Mantissa /\ Mantissa - keep = k
    BY <1>2, <1>3, <1>10, <2>1
  <2>3. PICK U, h, K, L : U = Pow2(k) /\ h = Pow2(k - 1) /\ K = Pow2(Width - 1 - k) /\ L = Pow2(Width - 2 - k)
    OBVIOUS
  <2>4. /\ k \in Nat /\ k - 1 \in Nat /\ Mantissa - k \in Nat
        /\ Width - 1 - k \in Nat /\ Width - 2 - k \in Nat
    BY <1>3, <2>2
  <2>5. U \in Nat \ {0} /\ h \in Nat \ {0} /\ K \in Nat \ {0} /\ L \in Nat \ {0}
    BY <2>3, <2>4, Pow2Type
  <2>6. U = 2 * h
    <3>1. (k - 1) + 1 = k
      BY <2>4
    <3>2. QED
      BY <2>3, <2>4, <3>1, Pow2Rec
  <2>7. K = 2 * L
    <3>1. (Width - 2 - k) + 1 = Width - 1 - k
      BY <1>3, <2>4
    <3>2. QED
      BY <2>3, <2>4, <3>1, Pow2Rec
  <2>8. H = K * U
    <3>1. k + (Width - 1 - k) = Width - 1
      BY <1>3, <2>4
    <3>2. Times(H, K, U)
      BY <1>1, <2>3, <2>4, <3>1, Pow2Splits
    <3>3. QED
      BY <3>2 DEF Times
  <2>9. U <= P
    <3>1. k + (Mantissa - k) = Mantissa
      BY <1>3, <2>4
    <3>2. PICK C : C = Pow2(Mantissa - k)
      OBVIOUS
    <3>3. Times(P, C, U) /\ C \in Nat \ {0}
      BY <1>1, <2>3, <2>4, <3>1, <3>2, Pow2Splits, Pow2Type
    <3>4. P = C * U /\ C >= 1
      BY <3>3 DEF Times
    <3>5. QED
      BY <2>5, <3>3, <3>4
  <2>10. PICK q, low : Splits(m, U, q, low) /\ q \in Nat
    BY <1>7, <2>5, SplitExists
  <2>11. PICK B : B = q * U
    OBVIOUS
  <2>12. B \in Nat /\ m = B + low /\ low \in 0..(U - 1) /\ (q + 1) * U = B + U
    BY <2>5, <2>10, <2>11 DEF Splits
  <2>13. PICK v : v = (IF s = 1 THEN K ELSE 0) + q
    OBVIOUS
  <2>14. v \in Nat /\ v % 2 = q % 2
    BY <2>5, <2>7, <2>10, <2>13
  <2>15. Splits(x, U, v, low)
    <3>1. v * U = (IF s = 1 THEN H ELSE 0) + B
      BY <2>5, <2>8, <2>10, <2>11, <2>13
    <3>2. x = v * U + low
      BY <1>4, <1>7, <2>12, <3>1
    <3>3. QED
      BY <2>5, <2>12, <2>14, <3>2 DEF Splits
  <2>16. x % U = low /\ x \div U = v
    BY <2>15, SplitIs
  <2>17. PICK up : up = (low > h \/ (low = h /\ q % 2 # 0))
    OBVIOUS
  <2>18. BitRound(j) = Wrap(x - low + (IF up THEN (U - 1) + 1 ELSE 0), Width)
    BY <1>1, <1>10, <2>1, <2>3, <2>14, <2>16, <2>17 DEF BitRound, BitRoundKernel
  <2>19. PICK y : y = x - low + (IF up THEN U ELSE 0)
    OBVIOUS
  <2>20. Nearest(m, U) = B + (IF up THEN U ELSE 0)
    <3>1. Nearest(m, U) = U * (IF 2 * low > U \/ (2 * low = U /\ q % 2 # 0) THEN q + 1 ELSE q)
      BY <2>5, <2>10, NearestIs
    <3>2. (2 * low > U <=> low > h) /\ (2 * low = U <=> low = h)
      BY <2>5, <2>6, <2>12
    <3>3. Nearest(m, U) = U * (IF up THEN q + 1 ELSE q)
      BY <2>17, <3>1, <3>2
    <3>4. U * (q + 1) = B + U /\ U * q = B
      BY <2>5, <2>10, <2>11
    <3>5. QED
      BY <2>12, <3>3, <3>4
  <2>21. y = x - m + Nearest(m, U)
    BY <1>2, <2>5, <2>12, <2>19, <2>20
  <2>22. y \in 0..(W - 1)
    <3>1. ASSUME up PROVE low >= 1
      <4>1. low > h \/ low = h
        BY <2>17, <3>1
      <4>2. QED
        BY <2>5, <2>12, <4>1
    <3>2. up => B + U < H
      BY <1>4, <1>8, <2>5, <2>9, <2>12, <3>1
    <3>3. B < H
      BY <1>4, <1>7, <2>12
    <3>4. x - low = (IF s = 1 THEN H ELSE 0) + B
      BY <1>4, <1>7, <2>12
    <3>5. y \in Int /\ y >= 0 /\ y < H + H
      BY <1>4, <2>5, <2>12, <2>19, <3>2, <3>3, <3>4
    <3>6. QED
      BY <1>4, <1>5, <3>5
  <2>23. y % W = y
    BY <1>4, <2>22
  <2>24. BitRound(j) = y
    BY <1>1, <2>5, <2>18, <2>19, <2>23 DEF Wrap
  <2>25. QED
    BY <1>1, <2>2, <2>3, <2>21, <2>24
<1>11. QED
  BY <1>9, <1>10

\* BitRound keeps the nearest float of keepbits mantissa bits, ties to even, the
\* sign unchanged, for every width of floats and every number of kept bits.
THEOREM BitRoundRoundsToNearestEven == FilterSpec => []RoundsToNearestEven
<1>1. ChunkInv => RoundsToNearestEven
  <2> SUFFICES ASSUME ChunkInv, stage = "read", job.filter = "bitround",
                      NEW m, m = job.word % Sign, m <= Infinity,
                      NEW keep, keep = IF job.keepbits < Mantissa THEN job.keepbits ELSE Mantissa
               PROVE  read = job.word - m + Nearest(m, Pow2(Mantissa - keep))
    BY DEF RoundsToNearestEven
  <2>1. PICK backend : read = Decoded(job, backend, Encoded(job))
    BY DEF ChunkInv
  <2>2. job \in Jobs
    BY DEF ChunkInv
  <2>3. read = BitRound(job)
    BY <2>1 DEF Decoded, Encoded
  <2>4. QED
    BY <2>2, <2>3, BitRoundRounds
<1>2. QED
  BY ChunkInvariant, <1>1, PTL

-----------------------------------------------------------------------------
(* Frames *)

\* What may stand in the store for a chunk B that codec c compressed.
StoredBytes(c, B) ==
  {<<what, j>> : what \in {"gzip", "zlib", "nvcomp"}, j \in Nat}
    \cup {<<what, v, j>> : what \in {"crc32", "adler32", "size", Algorithm(c)},
                           v \in {B, Len(B)}, j \in Nat}

LEMMA WordIs ==
  ASSUME NEW c, NEW B, NEW v \in {B, Len(B)}, NEW what \in {"crc32", "adler32", "size"}
  PROVE  /\ Word(what, v) \in Seq(StoredBytes(c, B)) /\ Len(Word(what, v)) = 4
         /\ Reverse(Word(what, v)) \in Seq(StoredBytes(c, B)) /\ Len(Reverse(Word(what, v))) = 4
<1>1. \A j \in 1..4 : <<what, v, j>> \in StoredBytes(c, B)
  BY DEF StoredBytes
<1>2. Word(what, v) \in Seq(StoredBytes(c, B)) /\ Len(Word(what, v)) = 4
  BY <1>1 DEF Word
<1>3. \A i \in 1..4 : Word(what, v)[(4 - i) + 1] \in StoredBytes(c, B)
  <2>1. \A k \in 1..4 : Word(what, v)[k] \in StoredBytes(c, B)
    BY <1>1 DEF Word
  <2>2. \A i \in 1..4 : (4 - i) + 1 \in 1..4
    OBVIOUS
  <2>3. QED
    BY <2>1, <2>2
<1>4. QED
  BY <1>2, <1>3 DEF Reverse

LEMMA LeadingIs ==
  ASSUME NEW c, NEW B, NEW n \in Nat, NEW what \in {"gzip", "zlib", "nvcomp"}
  PROVE  Leading(what, n) \in Seq(StoredBytes(c, B)) /\ Len(Leading(what, n)) = n
<1>1. \A j \in 1..n : <<what, j>> \in StoredBytes(c, B)
  BY DEF StoredBytes
<1>2. QED
  BY <1>1 DEF Leading

LEMMA BodyIs ==
  ASSUME NEW c, NEW B
  PROVE  /\ Body(c, B) \in Seq(StoredBytes(c, B)) /\ Len(Body(c, B)) = BodyNbytes
         /\ \A j \in 1..BodyNbytes : Body(c, B)[j] = <<Algorithm(c), B, j>>
<1>1. \A j \in 1..BodyNbytes : <<Algorithm(c), B, j>> \in StoredBytes(c, B)
  BY DEF StoredBytes
<1>2. BodyNbytes \in Nat
  BY FramesAssumption
<1>3. QED
  BY <1>1, <1>2 DEF Body

\* The last byte of a codec's bitstream says what it holds.
LEMMA NvcompIs ==
  ASSUME NEW c \in FrameCodecs, NEW B
  PROVE  /\ Nvcomp(c, B) \in Seq(StoredBytes(c, B)) /\ Nvcomp(c, B) # <<>>
         /\ Last(Nvcomp(c, B)) = <<Algorithm(c), B, BodyNbytes>>
<1> DEFINE S == StoredBytes(c, B)
           N == Nvcomp(c, B)
           b == Body(c, B)
<1>1. PICK head \in Seq(S) : N = head \o b \/ N = b
  <2>1. \/ N = b
        \/ N = Word("size", Len(B)) \o b
        \/ N = Leading("nvcomp", 4) \o b
    BY DEF Nvcomp, BitstreamKind
  <2>2. Word("size", Len(B)) \in Seq(S)
    BY WordIs
  <2>3. Leading("nvcomp", 4) \in Seq(S)
    BY LeadingIs
  <2>4. QED
    BY <2>1, <2>2, <2>3
<1>2. BodyNbytes \in Nat \ {0}
  BY FramesAssumption
<1>3. b \in Seq(S) /\ Len(b) = BodyNbytes /\ b[BodyNbytes] = <<Algorithm(c), B, BodyNbytes>>
  BY <1>2, BodyIs
<1> HIDE DEF S, N, b
<1>4. /\ N \in Seq(S) /\ Len(N) >= BodyNbytes /\ Len(N) \in Nat
      /\ N[Len(N)] = b[BodyNbytes]
  <2>1. CASE N = b
    BY <1>2, <1>3, <2>1
  <2>2. CASE N = head \o b
    BY <1>2, <1>3, <2>2
  <2>3. QED
    BY <1>1, <2>1, <2>2
<1>5. N # <<>>
  BY <1>2, <1>4
<1>6. QED
  BY <1>3, <1>4, <1>5 DEF Last, N, S

\* Whatever stands before and behind, the slice between is what was put there.
Framed(S, h, m, t, u, f, z) ==
  /\ h \in Seq(S) /\ m \in Seq(S) /\ t \in Seq(S) /\ u \in Seq(S)
  /\ f = h \o m \o t \o u /\ z = Len(t) + Len(u)

LEMMA Middle ==
  ASSUME NEW S, NEW h, NEW m, NEW t, NEW u, NEW f, NEW z, Framed(S, h, m, t, u, f, z)
  PROVE  SubSeq(f, Len(h) + 1, Len(f) - z) = m
<1> /\ h \in Seq(S) /\ m \in Seq(S) /\ t \in Seq(S) /\ u \in Seq(S)
    /\ f = h \o m \o t \o u /\ z = Len(t) + Len(u)
  BY DEF Framed
<1>1. PICK p \in Seq(S), q \in Seq(S) : p = h \o m /\ q = p \o t /\ f = q \o u
  <2>1. PICK p \in Seq(S) : p = h \o m
    <3>1. (h \o m) \in Seq(S)
      OBVIOUS
    <3>2. QED
      BY <3>1, Zenon
  <2>2. PICK q \in Seq(S) : q = p \o t
    <3>1. (p \o t) \in Seq(S)
      OBVIOUS
    <3>2. QED
      BY <3>1, Zenon
  <2>3. QED
    BY <2>1, <2>2
<1>2. PICK a \in Nat, k \in Nat : a = Len(h) /\ k = Len(m)
  OBVIOUS
<1>3. Len(p) = a + k /\ \A j \in 1..k : p[a + j] = m[j]
  <2>1. Len(p) = a + k
    BY <1>1, <1>2
  <2>2. \A j \in 1..Len(m) : (h \o m)[Len(h) + j] = m[j]
    OBVIOUS
  <2>3. QED
    BY <1>1, <1>2, <2>1, <2>2
<1>4. Len(q) = a + k + Len(t) /\ \A j \in 1..k : q[a + j] = m[j]
  BY <1>1, <1>2, <1>3
<1>5. /\ Len(f) = a + k + Len(t) + Len(u) /\ f \in Seq(S)
      /\ \A j \in 1..k : f[a + j] = m[j]
  BY <1>1, <1>2, <1>4
<1>6. Len(t) \in Nat /\ Len(u) \in Nat
  OBVIOUS
<1>7. Len(f) - z = a + k /\ a + k <= Len(f)
  BY <1>2, <1>5, <1>6
<1>8. SubSeq(f, a + 1, a + k) = [j \in 1..k |-> f[a + j]]
  <2>1. PICK g \in Seq(S) : g = f
    BY <1>5
  <2>0. a + k <= Len(g)
    BY <1>7, <2>1
  <2>2. SubSeq(g, a + 1, a + k) = [j \in 1..k |-> g[a + j]]
    BY <2>0, SliceOfSeq
  <2>3. QED
    BY <2>1, <2>2
<1>9. m = [j \in 1..k |-> f[a + j]]
  BY <1>2, <1>5
<1>10. QED
  BY <1>2, <1>7, <1>8, <1>9

\* The formats that czarr shares with the CPU codecs are the same, byte for byte.
LEMMA FramesAreStandard ==
  ASSUME NEW c \in Interoperable, NEW B
  PROVE  EncodedFrame(c, B) = Standard(c, B)
<1>1. CASE c = "gzip"
  BY <1>1 DEF EncodedFrame, Standard, WrapFrame, Nvcomp, BitstreamKind, StripHead, StripTail
<1>2. CASE c = "zlib"
  BY <1>2 DEF EncodedFrame, Standard, WrapFrame, Nvcomp, BitstreamKind, StripHead, StripTail
<1>3. CASE c = "zstd"
  BY <1>3 DEF EncodedFrame, Standard, Nvcomp, BitstreamKind, StripHead, StripTail
<1>4. CASE c = "lz4"
  BY <1>4 DEF EncodedFrame, Standard, Nvcomp, BitstreamKind, StripHead, StripTail
<1>5. QED
  BY <1>1, <1>2, <1>3, <1>4 DEF Interoperable

LEMMA FrameIsStripped ==
  ASSUME NEW c \in FrameCodecs \ {"none"}, NEW B
  PROVE  UnwrapFrame(c, EncodedFrame(c, B)) = Nvcomp(c, B)
<1> DEFINE S == StoredBytes(c, B)
           N == Nvcomp(c, B)
<1>1. N \in Seq(S)
  BY NvcompIs
<1>2. CASE c \in {"zstd", "lz4", "native"}
  <2>1. StripHead(c) = 0 /\ StripTail(c) = 0
    BY <1>2 DEF StripHead, StripTail
  <2>2. EncodedFrame(c, B) = N
    BY <2>1 DEF EncodedFrame
  <2> HIDE DEF S, N
  <2>3. SubSeq(N, 0 + 1, Len(N) - 0) = N
    BY <1>1
  <2>4. QED
    BY <2>1, <2>2, <2>3 DEF UnwrapFrame, N
<1>3. CASE c = "gzip"
  <2> DEFINE h == Leading("gzip", 10)
             t == Word("crc32", B)
             u == Word("size", Len(B))
  <2>1. StripHead(c) = 10 /\ StripTail(c) = 8
    BY <1>3 DEF StripHead, StripTail
  <2>2. EncodedFrame(c, B) = h \o N \o t \o u
    BY <1>3, <2>1 DEF EncodedFrame, WrapFrame
  <2>3. h \in Seq(S) /\ Len(h) = 10
    BY LeadingIs
  <2>4. t \in Seq(S) /\ Len(t) = 4
    BY WordIs
  <2>5. u \in Seq(S) /\ Len(u) = 4
    BY WordIs
  <2> HIDE DEF S, N, h, t, u
  <2>6. 8 = Len(t) + Len(u)
    BY <2>4, <2>5
  <2>7. SubSeq(h \o N \o t \o u, Len(h) + 1, Len(h \o N \o t \o u) - 8) = N
    <3>1. Framed(S, h, N, t, u, h \o N \o t \o u, 8)
      BY <1>1, <2>3, <2>4, <2>5, <2>6 DEF Framed
    <3>2. QED
      BY <3>1, Middle
  <2>8. QED
    BY <2>1, <2>2, <2>3, <2>7 DEF UnwrapFrame, N
<1>4. CASE c = "zlib"
  <2> DEFINE h == Leading("zlib", 2)
             t == Reverse(Word("adler32", B))
  <2>1. StripHead(c) = 2 /\ StripTail(c) = 4
    BY <1>4 DEF StripHead, StripTail
  <2>2. EncodedFrame(c, B) = h \o N \o t
    BY <1>4, <2>1 DEF EncodedFrame, WrapFrame
  <2>3. h \in Seq(S) /\ Len(h) = 2
    BY LeadingIs
  <2>4. t \in Seq(S) /\ Len(t) = 4
    BY WordIs
  <2> HIDE DEF S, N, h, t
  <2>5. << >> \in Seq(S) /\ Len(<< >>) = 0
    OBVIOUS
  <2>6. 4 = Len(t) + Len(<< >>)
    BY <2>4, <2>5
  <2>7. h \o N \o t = h \o N \o t \o << >>
    BY <1>1, <2>3, <2>4
  <2>8. SubSeq(h \o N \o t, Len(h) + 1, Len(h \o N \o t) - 4) = N
    <3>1. Framed(S, h, N, t, << >>, h \o N \o t, 4)
      BY <1>1, <2>3, <2>4, <2>5, <2>6, <2>7 DEF Framed
    <3>2. QED
      BY <3>1, Middle
  <2>9. QED
    BY <2>1, <2>2, <2>3, <2>8 DEF UnwrapFrame, N
<1>5. QED
  BY <1>2, <1>3, <1>4 DEF FrameCodecs, Interoperable

\* Filters and serializers that keep the number of bytes, undone.
LEMMA GivenIs ==
  ASSUME NEW before \in {"none", "shuffle"}
  PROVE  /\ Len(Given(before)) = SpecNbytes
         /\ Padded(Given(before), SpecNbytes) = Given(before)
         /\ (IF before = "shuffle" THEN Reverse(Given(before)) ELSE Given(before)) = Chunk(SpecNbytes)
<1>1. SpecNbytes \in Nat
  BY FramesAssumption
<1>2. /\ Len(Chunk(SpecNbytes)) = SpecNbytes
      /\ Chunk(SpecNbytes) = [j \in 1..SpecNbytes |-> <<"data", j>>]
  BY <1>1 DEF Chunk
<1>3. Reverse(Chunk(SpecNbytes)) = [j \in 1..SpecNbytes |-> Chunk(SpecNbytes)[(SpecNbytes - j) + 1]]
  BY <1>1, <1>2 DEF Reverse
<1>4. Len(Reverse(Chunk(SpecNbytes))) = SpecNbytes
  BY <1>1, <1>3
<1>5. Reverse(Reverse(Chunk(SpecNbytes))) = Chunk(SpecNbytes)
  <2>1. \A j \in 1..SpecNbytes : /\ (SpecNbytes - j) + 1 \in 1..SpecNbytes
                                 /\ (SpecNbytes - ((SpecNbytes - j) + 1)) + 1 = j
    BY <1>1
  <2>2. \A r : Reverse(r) = [j \in 1..Len(r) |-> r[(Len(r) - j) + 1]]
    BY DEF Reverse
  <2>3. \A j \in 1..SpecNbytes : Reverse(Chunk(SpecNbytes))[(SpecNbytes - j) + 1] = Chunk(SpecNbytes)[j]
    BY <1>3, <2>1
  <2>4. Reverse(Reverse(Chunk(SpecNbytes)))
          = [j \in 1..SpecNbytes |-> Reverse(Chunk(SpecNbytes))[(SpecNbytes - j) + 1]]
    BY <1>4, <2>2
  <2>5. QED
    BY <1>2, <2>3, <2>4
<1>6. Given(before) = IF before = "shuffle" THEN Reverse(Chunk(SpecNbytes)) ELSE Chunk(SpecNbytes)
  BY DEF Given
<1>7. Len(Given(before)) = SpecNbytes /\ Given(before) = [j \in 1..SpecNbytes |-> Given(before)[j]]
  BY <1>2, <1>3, <1>4, <1>6
<1>8. Padded(Given(before), SpecNbytes) = Given(before)
  BY <1>1, <1>7 DEF Padded
<1>9. QED
  BY <1>5, <1>6, <1>7, <1>8

\* Once written, the store holds the codec's frame, whoever wrote it, and the metadata
\* of a codec with a CPU twin has no key but its own and what another writer leaked.
FrameInv ==
  /\ trip \in [codec : FrameCodecs, before : {"none", "shuffle"}]
  /\ at \in {"new", "written", "read", "TypeError"}
  /\ at = "new" \/ object = EncodedFrame(trip.codec, Given(trip.before))
  /\ entry.form \in EntryForms
  /\ trip.codec \in Interoperable =>
       entry.keys \subseteq Schema(trip.codec) \cup {"backend"}
                              \cup (IF entry.form = "flat" THEN {"name"} ELSE {})
  /\ ReadsBack

LEMMA FrameInitially == ASSUME "astype" \notin Befores, FrameInit PROVE FrameInv
<1>1. Befores \subseteq {"none", "shuffle"}
  BY FramesAssumption
<1>2. trip \in [codec : FrameCodecs, before : {"none", "shuffle"}]
  BY <1>1 DEF FrameInit
<1>3. entry.form \in EntryForms /\ entry.keys = {} /\ at = "new"
  BY DEF FrameInit, EntryForms
<1>4. QED
  BY <1>2, <1>3 DEF FrameInv, ReadsBack

LEMMA EncodeKeeps == ASSUME FrameInv, EncodeGpu \/ EncodeCpu PROVE FrameInv'
<1>1. trip' = trip /\ at' = "written"
  BY DEF EncodeGpu, EncodeCpu
<1>2. object' = EncodedFrame(trip.codec, Given(trip.before))
  BY FramesAreStandard DEF EncodeGpu, EncodeCpu
<1>3. /\ entry'.form \in EntryForms
      /\ trip.codec \in Interoperable =>
           entry'.keys \subseteq Schema(trip.codec) \cup {"backend"}
                                   \cup (IF entry'.form = "flat" THEN {"name"} ELSE {})
  <2>1. CASE EncodeGpu
    <3>1. entry'.form \in EntryForms /\ entry'.keys = ToDict(trip.codec)
      BY <2>1 DEF EncodeGpu, EntryForms
    <3>2. trip.codec \in Interoperable => ToDict(trip.codec) = Schema(trip.codec)
      BY DEF ToDict, Interoperable
    <3>3. QED
      BY <3>1, <3>2
  <2>2. CASE EncodeCpu
    <3>1. PICK form \in EntryForms, leaks \in SUBSET {"backend"} :
             entry' = [form |-> form,
                       keys |-> Schema(trip.codec) \cup leaks \cup (IF form = "flat" THEN {"name"} ELSE {})]
      BY <2>2 DEF EncodeCpu
    <3>2. /\ entry'.form = form
          /\ entry'.keys = Schema(trip.codec) \cup leaks \cup (IF form = "flat" THEN {"name"} ELSE {})
      BY <3>1
    <3>3. QED
      BY <3>2
  <2>3. QED
    BY <2>1, <2>2
<1>4. ReadsBack'
  BY <1>1 DEF ReadsBack
<1>5. QED
  BY <1>1, <1>2, <1>3, <1>4 DEF FrameInv

\* Bytes of the spec's size, undone, are the chunk.
LEMMA FinishReturns ==
  ASSUME FrameInv, Finish(Given(trip.before))
  PROVE  result' = Chunk(SpecNbytes) /\ at' = "read"
<1>1. trip.before \in {"none", "shuffle"}
  BY DEF FrameInv
<1>2. Len(Given(trip.before)) = SpecNbytes /\ Undone(Given(trip.before)) = Chunk(SpecNbytes)
  BY <1>1, GivenIs DEF Undone
<1>3. QED
  BY <1>2 DEF Finish

LEMMA DecompressedReturns ==
  ASSUME FrameInv, trip.codec # "none", Decompressed(trip.codec, Nvcomp(trip.codec, Given(trip.before)))
  PROVE  result' = Chunk(SpecNbytes) /\ at' = "read"
<1> DEFINE B == Given(trip.before)
           N == Nvcomp(trip.codec, B)
<1>1. trip.codec \in FrameCodecs /\ trip.before \in {"none", "shuffle"}
  BY DEF FrameInv
<1>2. N # <<>> /\ Last(N) = <<Algorithm(trip.codec), B, BodyNbytes>>
  BY <1>1, NvcompIs
<1>3. Last(N)[1] = Algorithm(trip.codec) /\ Last(N)[2] = B
  BY <1>2
<1>4. Holds(trip.codec, N)
  BY <1>2, <1>3 DEF Holds
<1>5. Len(B) = SpecNbytes /\ Padded(B, SpecNbytes) = B
  BY <1>1, GivenIs
<1> HIDE DEF B, N
<1>6. Decompressed(trip.codec, N) => Finish(B)
  BY <1>3, <1>4, <1>5 DEF Decompressed
<1>7. QED
  BY <1>6, FinishReturns DEF B, N

LEMMA DecodeKeeps == ASSUME FrameInv, DecodeGpu \/ DecodeCpu PROVE FrameInv'
<1>1. /\ trip' = trip /\ entry' = entry /\ object' = object
      /\ object = EncodedFrame(trip.codec, Given(trip.before))
      /\ trip.codec \in FrameCodecs
  BY DEF DecodeGpu, DecodeCpu, FrameInv
<1>2. \/ result' = Chunk(SpecNbytes) /\ at' = "read" /\ entry.form # "malformed"
      \/ at' = "TypeError" /\ entry.form = "malformed"
      \/ at' = "TypeError" /\ trip.codec = "lz4" /\ "backend" \in entry.keys
  <2>0. CASE DecodeGpu /\ entry.form = "malformed"
    BY <2>0 DEF DecodeGpu, FromDict
  <2>1. CASE DecodeGpu /\ entry.form # "malformed" /\ ~FromDict(trip.codec, entry)
    <3>1. trip.codec = "lz4" /\ ~(CodecConfig(entry) \subseteq Schema("lz4") \cup BaseFields \cup {"cuda_stream"})
      BY <2>1 DEF FromDict
    <3>2. CodecConfig(entry) \subseteq Schema("lz4") \cup ({"backend"} \cap entry.keys)
      BY <3>1 DEF FrameInv, CodecConfig, Interoperable, Schema
    <3>3. "backend" \in entry.keys
      BY <3>1, <3>2
    <3>4. QED
      BY <2>1, <3>1, <3>3 DEF DecodeGpu
  <2>2. CASE DecodeGpu /\ FromDict(trip.codec, entry) /\ trip.codec = "none"
    <3>1. object = Given(trip.before) /\ Finish(object)
      BY <1>1, <2>2 DEF DecodeGpu, EncodedFrame
    <3>2. QED
      BY <2>2, <3>1, FinishReturns DEF FromDict
  <2>3. CASE DecodeGpu /\ FromDict(trip.codec, entry) /\ trip.codec # "none"
    <3>1. Decompressed(trip.codec, UnwrapFrame(trip.codec, object))
      BY <2>3 DEF DecodeGpu
    <3>2. UnwrapFrame(trip.codec, object) = Nvcomp(trip.codec, Given(trip.before))
      BY <1>1, <2>3, FrameIsStripped
    <3>3. QED
      BY <2>3, <3>1, <3>2, DecompressedReturns DEF FromDict
  <2>4. CASE DecodeCpu
    <3>1. trip.codec \in Interoperable /\ entry.form = "nested" /\ "backend" \notin entry.keys
      BY <2>4 DEF DecodeCpu
    <3>2. entry.keys \subseteq Schema(trip.codec)
      BY <3>1 DEF FrameInv
    <3>3. object = Standard(trip.codec, Given(trip.before))
      BY <1>1, <3>1, FramesAreStandard
    <3>4. QED
      BY <2>4, <3>2, <3>3 DEF DecodeCpu
  <2>5. QED
    BY <2>0, <2>1, <2>2, <2>3, <2>4
<1>3. ReadsBack'
  BY <1>1, <1>2 DEF ReadsBack
<1>4. QED
  BY <1>1, <1>2, <1>3 DEF FrameInv

\* "Compatible with zarr's GzipCodec": what a compressor of czarr or the CPU codec of
\* its name writes, either reads back as it was; only a leaked key stops LZ4. Beyond
\* the narrowing filters of the finding, for chunks of any size.
THEOREM CompressorsReadBack ==
  ASSUME "astype" \notin Befores
  PROVE  FrameSpec => []ReadsBack
<1>1. FrameInit => FrameInv
  BY FrameInitially
<1>2. FrameInv /\ [FrameNext]_frameVars => FrameInv'
  <2>1. FrameInv /\ UNCHANGED frameVars => FrameInv'
    BY DEF frameVars, FrameInv, ReadsBack
  <2>2. QED
    BY <2>1, EncodeKeeps, DecodeKeeps DEF FrameNext
<1>3. FrameInv => ReadsBack
  BY DEF FrameInv
<1>4. QED
  BY <1>1, <1>2, <1>3, PTL DEF FrameSpec

-----------------------------------------------------------------------------
(* Chains *)

LEMMA CodecsAre ==
  ASSUME NEW m \in Metadata, NEW cs, cs = ChunkCodecs(m)
  PROVE  /\ cs \in Seq({cs[i] : i \in DOMAIN cs}) /\ m.compressed \in Nat /\ Writable(m)
         /\ \A i \in 1..Len(cs) :
              /\ cs[i].name = "bytes" => cs[i] = [name |-> "bytes", endian |-> cs[i].endian]
              /\ cs[i].name = "shuffle" => cs[i].elementsize \in Nat \ {0}
<1>1. cs \in Seq({cs[i] : i \in DOMAIN cs}) /\ m.compressed \in Nat /\ Writable(m)
  BY MetadataAssumption
<1>2. \A i \in DOMAIN cs :
         /\ cs[i].name = "bytes" => cs[i] = [name |-> "bytes", endian |-> cs[i].endian]
         /\ cs[i].name = "shuffle" => cs[i].elementsize \in Nat \ {0}
  BY MetadataAssumption
<1>3. DOMAIN cs = 1..Len(cs)
  BY <1>1
<1>4. QED
  BY <1>1, <1>2, <1>3

\* The sizes after each codec of a list.
SizeBody(s, z, g, i) == IF i = 0 THEN ChunkNbytes ELSE Grown(g[i - 1], s[i], z)
SizesOf(s, z) ==
  LET size[i \in 0..Len(s)] == IF i = 0 THEN ChunkNbytes ELSE Grown(size[i - 1], s[i], z) IN size

LEMMA SizesExist ==
  ASSUME NEW s, NEW n \in Nat, NEW z \in Nat
  PROVE  \E g : g = [i \in 0..n |-> SizeBody(s, z, g, i)]
<1> DEFINE Step == [x \in Nat \X Nat |-> Grown(x[2], s[x[1]], z)]
<1>1. Step \in [Nat \X Nat -> Nat]
  <2>1. \A c : \A k \in Nat : Grown(k, c, z) \in Nat
    BY DEF Grown
  <2>2. QED
    BY <2>1
<1> HIDE DEF Step
<1>2. PICK g : Solves(g, n, Nat, ChunkNbytes, Step)
  <2>1. ChunkNbytes \in Nat
    BY MetadataAssumption
  <2>2. QED
    BY <1>1, <2>1, Recursion
<1>3. /\ g \in [0..n -> Nat] /\ g[0] = ChunkNbytes
      /\ \A k \in 1..n : g[k] = Step[<<k, g[k - 1]>>]
  BY <1>2 DEF Solves
<1>4. ASSUME NEW k \in 0..n PROVE g[k] = SizeBody(s, z, g, k)
  <2>1. CASE k = 0
    BY <1>3, <2>1 DEF SizeBody
  <2>2. CASE k # 0
    <3>1. k \in 1..n /\ k \in Nat /\ g[k - 1] \in Nat
      BY <1>3, <2>2
    <3>2. Step[<<k, g[k - 1]>>] = Grown(g[k - 1], s[k], z)
      BY <3>1 DEF Step
    <3>3. QED
      BY <1>3, <3>1, <3>2 DEF SizeBody
  <2>3. QED
    BY <2>1, <2>2
<1>5. g = [k \in 0..n |-> SizeBody(s, z, g, k)]
  BY <1>3, <1>4
<1>6. QED
  BY <1>5

\* A codec that is neither a compressor nor a checksum keeps the number of bytes.
LEMMA SizeIsKept ==
  ASSUME NEW S, NEW s \in Seq(S), NEW z \in Nat,
         \A i \in 1..Len(s) : s[i].name \notin Compressors \cup {"crc32c"}
  PROVE  EncodedSize(s, z) = ChunkNbytes
<1> DEFINE n == Len(s)
           g == SizesOf(s, z)
           T == {i \in Nat : i <= n => g[i] = ChunkNbytes}
<1>1. n \in Nat
  OBVIOUS
<1>2. \E h : h = [i \in 0..n |-> SizeBody(s, z, h, i)]
  BY <1>1, SizesExist
<1>3. g = [i \in 0..n |-> SizeBody(s, z, g, i)]
  BY <1>2 DEF SizesOf, SizeBody
<1> HIDE DEF g
<1>4. 0 \in T
  BY <1>1, <1>3 DEF SizeBody
<1>5. ASSUME NEW i \in Nat, i \in T PROVE i + 1 \in T
  <2> SUFFICES ASSUME i + 1 <= n PROVE g[i + 1] = ChunkNbytes
    OBVIOUS
  <2>1. i + 1 \in 0..n /\ i + 1 \in 1..n /\ i + 1 # 0 /\ (i + 1) - 1 = i
    BY <1>1
  <2>2. g[i + 1] = Grown(g[i], s[i + 1], z)
    BY <1>3, <2>1 DEF SizeBody
  <2>3. g[i] = ChunkNbytes
    BY <1>1, <1>5
  <2>4. s[i + 1].name \notin Compressors \cup {"crc32c"}
    BY <2>1
  <2>5. QED
    BY <2>2, <2>3, <2>4 DEF Grown
<1> HIDE DEF T, n
<1>6. n \in T
  BY <1>1, <1>4, <1>5, NatSetInduction
<1>7. EncodedSize(s, z) = g[n]
  BY DEF EncodedSize, SizesOf, g, n
<1>8. QED
  BY <1>1, <1>6, <1>7 DEF T

\* The flags after each codec of a list.
FlagsBody(s, g, i) == IF i = 0 THEN NoRecipe ELSE Recipe(g[i - 1], s[i])
FlagsOf(s) ==
  LET flags[i \in 0..Len(s)] == IF i = 0 THEN NoRecipe ELSE Recipe(flags[i - 1], s[i]) IN flags

Recipes == [compressor : Compressors \cup {"none"}, elementsize : Nat, trailer : BOOLEAN]

Flags(c, e, t) == [compressor |-> c, elementsize |-> e, trailer |-> t]

LEMMA RecipeIs ==
  ASSUME NEW r \in Recipes, NEW c, c.name = "shuffle" => c.elementsize \in Nat
  PROVE  /\ Recipe(r, c) \in Recipes
         /\ c.name \in Compressors => Recipe(r, c) = [r EXCEPT !.compressor = c.name]
         /\ c.name = "shuffle" => Recipe(r, c) = [r EXCEPT !.elementsize = c.elementsize]
         /\ c.name = "crc32c" => Recipe(r, c) = [r EXCEPT !.trailer = TRUE]
         /\ c.name = "bytes" => Recipe(r, c) = r
<1>1. c.name \in Compressors => Recipe(r, c) = [r EXCEPT !.compressor = c.name]
  BY DEF Recipe, Compressors
<1>2. c.name = "shuffle" => Recipe(r, c) = [r EXCEPT !.elementsize = c.elementsize]
  BY DEF Recipe, Compressors
<1>3. c.name = "crc32c" => Recipe(r, c) = [r EXCEPT !.trailer = TRUE]
  BY DEF Recipe, Compressors
<1>4. c.name \notin Compressors \cup {"shuffle", "crc32c"} => Recipe(r, c) = r
  BY DEF Recipe
<1>5. Recipe(r, c) \in Recipes
  <2>1. CASE c.name \in Compressors
    BY <1>1, <2>1 DEF Recipes
  <2>2. CASE c.name = "shuffle"
    BY <1>2, <2>2 DEF Recipes
  <2>3. CASE c.name = "crc32c"
    BY <1>3, <2>3 DEF Recipes
  <2>4. QED
    BY <1>4, <2>1, <2>2, <2>3
<1>6. QED
  BY <1>1, <1>2, <1>3, <1>4, <1>5 DEF Compressors

LEMMA RecipeSets ==
  ASSUME NEW k, NEW e, NEW r, r = Flags(k, e, FALSE), NEW c, NEW s, s = Recipe(r, c)
  PROVE  /\ c.name \in Compressors => s = Flags(c.name, e, FALSE)
         /\ c.name = "shuffle" => s = Flags(k, c.elementsize, FALSE)
         /\ c.name = "crc32c" => s = Flags(k, e, TRUE)
<1>1. c.name \in Compressors => s = Flags(c.name, e, FALSE)
  <2> SUFFICES ASSUME c.name \in Compressors PROVE s = Flags(c.name, e, FALSE)
    OBVIOUS
  <2>1. s = [r EXCEPT !.compressor = c.name]
    BY DEF Recipe, Compressors
  <2>2. QED
    BY <2>1 DEF Flags
<1>2. c.name = "shuffle" => s = Flags(k, c.elementsize, FALSE)
  <2> SUFFICES ASSUME c.name = "shuffle" PROVE s = Flags(k, c.elementsize, FALSE)
    OBVIOUS
  <2>1. s = [r EXCEPT !.elementsize = c.elementsize]
    BY DEF Recipe, Compressors
  <2>2. QED
    BY <2>1 DEF Flags
<1>3. c.name = "crc32c" => s = Flags(k, e, TRUE)
  <2> SUFFICES ASSUME c.name = "crc32c" PROVE s = Flags(k, e, TRUE)
    OBVIOUS
  <2>1. s = [r EXCEPT !.trailer = TRUE]
    BY DEF Recipe, Compressors
  <2>2. QED
    BY <2>1 DEF Flags
<1>4. QED
  BY <1>1, <1>2, <1>3

LEMMA FlagsExist ==
  ASSUME NEW s, NEW n \in Nat, \A i \in 1..n : s[i].name = "shuffle" => s[i].elementsize \in Nat
  PROVE  \E g \in [0..n -> Recipes] : g = [i \in 0..n |-> FlagsBody(s, g, i)]
<1> DEFINE Step == [x \in Nat \X Recipes |-> IF x[1] \in 1..n THEN Recipe(x[2], s[x[1]]) ELSE x[2]]
<1>1. Step \in [Nat \X Recipes -> Recipes]
  <2>1. ASSUME NEW x \in Nat \X Recipes
        PROVE  (IF x[1] \in 1..n THEN Recipe(x[2], s[x[1]]) ELSE x[2]) \in Recipes
    <3>1. x[2] \in Recipes
      OBVIOUS
    <3>2. CASE x[1] \in 1..n
      <4>1. Recipe(x[2], s[x[1]]) \in Recipes
        BY <3>1, <3>2, RecipeIs
      <4>2. QED
        BY <3>2, <4>1
    <3>3. QED
      BY <3>1, <3>2
  <2>2. QED
    BY <2>1
<1> HIDE DEF Step
<1>2. PICK g : Solves(g, n, Recipes, NoRecipe, Step)
  <2>1. NoRecipe \in Recipes
    BY DEF NoRecipe, Recipes
  <2>2. QED
    BY <1>1, <2>1, Recursion
<1>3. /\ g \in [0..n -> Recipes] /\ g[0] = NoRecipe
      /\ \A k \in 1..n : g[k] = Step[<<k, g[k - 1]>>]
  BY <1>2 DEF Solves
<1>4. ASSUME NEW k \in 0..n PROVE g[k] = FlagsBody(s, g, k)
  <2>1. CASE k = 0
    BY <1>3, <2>1 DEF FlagsBody
  <2>2. CASE k # 0
    <3>1. k \in 1..n /\ k \in Nat /\ g[k - 1] \in Recipes
      BY <1>3, <2>2
    <3>2. Step[<<k, g[k - 1]>>] = Recipe(g[k - 1], s[k])
      BY <3>1 DEF Step
    <3>3. QED
      BY <1>3, <3>1, <3>2 DEF FlagsBody
  <2>3. QED
    BY <2>1, <2>2
<1>5. g = [k \in 0..n |-> FlagsBody(s, g, k)]
  BY <1>3, <1>4
<1>6. QED
  BY <1>3, <1>5

LEMMA FlagsRec ==
  ASSUME NEW s, Len(s) \in Nat, \A i \in 1..Len(s) : s[i].name = "shuffle" => s[i].elementsize \in Nat
  PROVE  /\ Distilled(s) = FlagsOf(s)[Len(s)]
         /\ FlagsOf(s) \in [0..Len(s) -> Recipes] /\ FlagsOf(s)[0] = NoRecipe
         /\ \A i \in 1..Len(s) : FlagsOf(s)[i] = Recipe(FlagsOf(s)[i - 1], s[i])
<1>1. \E g \in [0..Len(s) -> Recipes] : g = [i \in 0..Len(s) |-> FlagsBody(s, g, i)]
  BY FlagsExist
<1>2. FlagsOf(s) = [i \in 0..Len(s) |-> FlagsBody(s, FlagsOf(s), i)]
  BY <1>1 DEF FlagsOf, FlagsBody
<1>3. FlagsOf(s)[0] = NoRecipe
  BY <1>2 DEF FlagsBody
<1>4. \A i \in 1..Len(s) : FlagsOf(s)[i] = Recipe(FlagsOf(s)[i - 1], s[i])
  BY <1>2 DEF FlagsBody
<1>5. \A i \in 0..Len(s) : FlagsOf(s)[i] \in Recipes
  <2> DEFINE T == {i \in Nat : i <= Len(s) => FlagsOf(s)[i] \in Recipes}
  <2>1. 0 \in T
    <3>1. NoRecipe \in Recipes
      BY DEF NoRecipe, Recipes
    <3>2. QED
      BY <1>3, <3>1
  <2>2. ASSUME NEW i \in Nat, i \in T PROVE i + 1 \in T
    <3> SUFFICES ASSUME i + 1 <= Len(s) PROVE FlagsOf(s)[i + 1] \in Recipes
      OBVIOUS
    <3>1. i + 1 \in 1..Len(s) /\ (i + 1) - 1 = i
      OBVIOUS
    <3>2. FlagsOf(s)[i + 1] = Recipe(FlagsOf(s)[i], s[i + 1])
      BY <1>4, <3>1
    <3>3. FlagsOf(s)[i] \in Recipes
      BY <2>2
    <3>4. QED
      BY <3>1, <3>2, <3>3, RecipeIs
  <2> HIDE DEF T
  <2>3. Nat \subseteq T
    BY <2>1, <2>2, NatSetInduction
  <2>4. QED
    BY <2>3 DEF T
<1>6. QED
  BY <1>2, <1>3, <1>4, <1>5 DEF Distilled, FlagsOf

\* How many codecs of a described list come before its compressor, and its checksum.
ToCompress(cs) == IF Optional({"shuffle"}, cs, 2) THEN 2 ELSE 1
ToTrailer(cs) == IF Optional(Compressors, cs, ToCompress(cs) + 1) THEN ToCompress(cs) + 1 ELSE ToCompress(cs)

Ordinary(cs, a, b, n) ==
  /\ a \in 1..2 /\ b \in {a, a + 1} /\ n \in {b, b + 1}
  /\ cs[1] = [name |-> "bytes", endian |-> "little"]
  /\ a = 2 => cs[2].name = "shuffle" /\ cs[2].elementsize \in Nat \ {0}
  /\ b = a + 1 => cs[b].name \in Compressors
  /\ n = b + 1 => cs[n].name = "crc32c"

LEMMA DescribedIs ==
  ASSUME NEW m \in Metadata, Described(m), NEW cs, cs = ChunkCodecs(m),
         NEW a, a = ToCompress(cs), NEW b, b = ToTrailer(cs), NEW n, n = Len(cs)
  PROVE  /\ PlanError(m) = "none" /\ (Sharded(m) => Len(m.codecs) = 1)
         /\ Ordinary(cs, a, b, n)
<1>1. /\ \A i \in 1..Len(cs) :
           /\ cs[i].name = "bytes" => cs[i] = [name |-> "bytes", endian |-> cs[i].endian]
           /\ cs[i].name = "shuffle" => cs[i].elementsize \in Nat \ {0}
      /\ n \in Nat
  <2> DEFINE S == {cs[i] : i \in DOMAIN cs}
  <2>1. cs \in Seq(S)
    BY CodecsAre
  <2> HIDE DEF S
  <2>2. Len(cs) \in Nat
    BY <2>1
  <2>3. QED
    BY <2>2, CodecsAre
<1>2. /\ a = IF Optional({"shuffle"}, cs, 2) THEN 2 ELSE 1
      /\ b = IF Optional(Compressors, cs, a + 1) THEN a + 1 ELSE a
  BY DEF ToCompress, ToTrailer
<1>3. /\ PlanError(m) = "none" /\ n = (IF Optional({"crc32c"}, cs, b + 1) THEN b + 2 ELSE b + 1) - 1
      /\ cs[1].name = "bytes" /\ cs[1].endian = "little" /\ (Sharded(m) => Len(m.codecs) = 1)
  <2>1. /\ a + 1 = IF Optional({"shuffle"}, cs, 2) THEN 3 ELSE 2
        /\ b + 1 = IF Optional(Compressors, cs, a + 1) THEN (a + 1) + 1 ELSE a + 1
        /\ \A x \in Nat : (x + 1) + 1 = x + 2
    BY <1>2
  <2>2. b \in Nat
    BY <1>2
  <2>3. LET i1 == IF Optional({"shuffle"}, cs, 2) THEN 3 ELSE 2
            i2 == IF Optional(Compressors, cs, i1) THEN i1 + 1 ELSE i1
            i3 == IF Optional({"crc32c"}, cs, i2) THEN i2 + 1 ELSE i2
        IN  /\ PlanError(m) = "none" /\ n = i3 - 1
            /\ cs[1].name = "bytes" /\ cs[1].endian = "little"
            /\ Sharded(m) => Len(m.codecs) = 1
    BY DEF Described
  <2>4. QED
    BY <2>1, <2>2, <2>3
<1>4. a \in 1..2 /\ b \in {a, a + 1} /\ n \in {b, b + 1}
  BY <1>2, <1>3
<1>5. a = 2 => 2 <= n /\ cs[2].name = "shuffle"
  BY <1>2 DEF Optional
<1>6. b = a + 1 => cs[b].name \in Compressors
  BY <1>2, <1>4 DEF Optional
<1>7. n = b + 1 => cs[n].name = "crc32c"
  BY <1>3, <1>4 DEF Optional
<1>8. 1 \in 1..Len(cs) /\ (a = 2 => 2 \in 1..Len(cs))
  BY <1>1, <1>4, <1>5
<1>9. cs[1] = [name |-> "bytes", endian |-> "little"]
  BY <1>1, <1>3, <1>8
<1>10. a = 2 => cs[2].elementsize \in Nat \ {0}
  BY <1>1, <1>5, <1>8
<1>11. QED
  BY <1>3, <1>4, <1>5, <1>6, <1>7, <1>9, <1>10 DEF Ordinary

\* A chunk with the first i codecs of its list applied.
Cut(m, i) ==
  LET layers == SubSeq(ChunkCodecs(m), 1, i)
  IN  [layers |-> layers, nbytes |-> EncodedSize(layers, m.compressed)]

LEMMA CutIs ==
  ASSUME NEW m \in Metadata, NEW i \in 1..Len(ChunkCodecs(m))
  PROVE  /\ Last(Cut(m, i).layers) = ChunkCodecs(m)[i]
         /\ Front(Cut(m, i).layers) = SubSeq(ChunkCodecs(m), 1, i - 1)
         /\ SubSeq(ChunkCodecs(m), 1, Len(ChunkCodecs(m))) = ChunkCodecs(m)
<1> DEFINE cs == ChunkCodecs(m)
           S == {cs[j] : j \in DOMAIN cs}
           l == SubSeq(cs, 1, i)
<1>1. cs \in Seq(S)
  BY CodecsAre
<1>2. Cut(m, i).layers = l
  BY DEF Cut
<1> HIDE DEF cs, S
<1>3. i \in 1..Len(cs) /\ Len(cs) \in Nat
  BY <1>1 DEF cs
<1>4. l \in Seq(S) /\ Len(l) = i /\ \A j \in 1..i : l[j] = cs[j]
  BY <1>1, <1>3
<1>5. Last(l) = cs[i]
  BY <1>3, <1>4 DEF Last
<1>6. SubSeq(l, 1, i - 1) = SubSeq(cs, 1, i - 1)
  <2>1. /\ SubSeq(l, 1, i - 1) = [j \in 1..(i - 1) |-> l[j]]
        /\ SubSeq(cs, 1, i - 1) = [j \in 1..(i - 1) |-> cs[j]]
    <3>1. \A f \in Seq(S) : i <= Len(f) => SubSeq(f, 0 + 1, 0 + (i - 1)) = [j \in 1..(i - 1) |-> f[0 + j]]
      BY <1>3, SliceOfSeq
    <3>2. SubSeq(l, 0 + 1, 0 + (i - 1)) = [j \in 1..(i - 1) |-> l[0 + j]]
      BY <1>3, <1>4, <3>1
    <3>3. SubSeq(cs, 0 + 1, 0 + (i - 1)) = [j \in 1..(i - 1) |-> cs[0 + j]]
      BY <1>1, <1>3, <3>1
    <3>4. 0 + 1 = 1 /\ 0 + (i - 1) = i - 1 /\ \A j \in 1..(i - 1) : 0 + j = j /\ j \in 1..i
      BY <1>3
    <3>5. QED
      BY <3>2, <3>3, <3>4
  <2>2. \A j \in 1..(i - 1) : l[j] = cs[j]
    BY <1>3, <1>4
  <2>3. QED
    BY <2>1, <2>2
<1>7. SubSeq(cs, 1, Len(cs)) = cs
  BY <1>1
<1>8. QED
  BY <1>2, <1>4, <1>5, <1>6, <1>7 DEF Front, cs

\* The codec on top, undone.
LEMMA UndoneIs ==
  ASSUME meta \in Metadata, NEW i \in 1..Len(ChunkCodecs(meta)), view = Cut(meta, i)
  PROVE  /\ \A name : OnTop(view, name) <=> ChunkCodecs(meta)[i].name = name
         /\ Last(view.layers) = ChunkCodecs(meta)[i]
         /\ Under(view) = Cut(meta, i - 1)
<1>1. /\ Last(view.layers) = ChunkCodecs(meta)[i]
      /\ Front(view.layers) = SubSeq(ChunkCodecs(meta), 1, i - 1)
  BY CutIs
<1>2. Under(view) = Cut(meta, i - 1)
  BY <1>1 DEF Under, Cut
<1>3. QED
  BY <1>1, <1>2 DEF OnTop

\* Nothing before the compressor changes the number of bytes, and the writer of a
\* shuffle did not raise.
LEMMA PlainSizes ==
  ASSUME NEW m \in Metadata, Described(m), NEW cs, cs = ChunkCodecs(m), NEW a, a = ToCompress(cs)
  PROVE  /\ \A i \in 1..a : Cut(m, i).nbytes = ChunkNbytes
         /\ Cut(m, 1) = DecodedChunk
         /\ a = 2 => ChunkNbytes % cs[2].elementsize = 0
<1> DEFINE S == {cs[i] : i \in DOMAIN cs}
           n == Len(cs)
           b == ToTrailer(cs)
<1>1. cs \in Seq(S) /\ m.compressed \in Nat /\ Writable(m)
  BY CodecsAre
<1>2. /\ a \in 1..2 /\ b \in {a, a + 1} /\ n \in {b, b + 1}
      /\ cs[1] = [name |-> "bytes", endian |-> "little"]
      /\ a = 2 => cs[2].name = "shuffle"
  <2>1. Ordinary(cs, a, b, n)
    BY DescribedIs
  <2>2. QED
    BY <2>1 DEF Ordinary
<1> HIDE DEF S, b
<1>3. n \in Nat /\ a <= n
  BY <1>1, <1>2
<1>4. ASSUME NEW i \in 1..a PROVE EncodedSize(SubSeq(cs, 1, i), m.compressed) = ChunkNbytes
  <2> DEFINE l == SubSeq(cs, 1, i)
  <2>1. l \in Seq(S) /\ Len(l) = i /\ \A j \in 1..i : l[j] = cs[j]
    BY <1>1, <1>2, <1>3
  <2>2. \A j \in 1..i : cs[j].name \in {"bytes", "shuffle"}
    BY <1>2
  <2>3. \A j \in 1..Len(l) : l[j].name \notin Compressors \cup {"crc32c"}
    BY <2>1, <2>2 DEF Compressors
  <2> HIDE DEF l
  <2>4. EncodedSize(l, m.compressed) = ChunkNbytes
    BY <1>1, <2>1, <2>3, SizeIsKept
  <2>5. QED
    BY <2>4 DEF l
<1>5. \A i \in 1..a : Cut(m, i).nbytes = ChunkNbytes
  BY <1>4 DEF Cut
<1>6. Cut(m, 1) = DecodedChunk
  <2> DEFINE l == SubSeq(cs, 1, 1)
  <2>1. l = <<cs[1]>>
    <3>1. SubSeq(cs, 0 + 1, 0 + 1) = [j \in 1..1 |-> cs[0 + j]]
      BY <1>1, <1>2, <1>3, SliceOfSeq
    <3>2. l = [j \in 1..1 |-> cs[j]]
      BY <3>1
    <3>3. DOMAIN l = DOMAIN <<cs[1]>> /\ l[1] = cs[1]
      BY <3>2
    <3> HIDE DEF l
    <3>4. QED
      BY <3>2, <3>3
  <2>2. Cut(m, 1) = [layers |-> l, nbytes |-> ChunkNbytes]
    BY <1>2, <1>4 DEF Cut
  <2>3. QED
    BY <1>2, <2>1, <2>2 DEF DecodedChunk
<1>7. a = 2 => ChunkNbytes % cs[2].elementsize = 0
  <2>1. \A i \in DOMAIN cs : cs[i].name = "shuffle" =>
           EncodedSize(SubSeq(cs, 1, i - 1), m.compressed) % cs[i].elementsize = 0
    BY <1>1 DEF Writable
  <2>2. a = 2 => 2 \in DOMAIN cs /\ cs[2].name = "shuffle"
    BY <1>1, <1>2, <1>3
  <2>3. a = 2 => EncodedSize(SubSeq(cs, 1, 2 - 1), m.compressed) = ChunkNbytes
    BY <1>4
  <2>4. QED
    BY <2>1, <2>2, <2>3
<1>8. QED
  BY <1>5, <1>6, <1>7

FlagsFor(m) ==
  LET cs == ChunkCodecs(m)
  IN  Flags(IF ToTrailer(cs) = ToCompress(cs) THEN "none" ELSE cs[ToTrailer(cs)].name,
            IF ToCompress(cs) = 1 THEN 0 ELSE cs[2].elementsize,
            IF Len(cs) = ToTrailer(cs) + 1 THEN TRUE ELSE FALSE)

\* The recipe of a described list says which codecs it has.
LEMMA DistilledIs ==
  ASSUME NEW m \in Metadata, Described(m)
  PROVE  Distilled(ChunkCodecs(m)) = FlagsFor(m)
<1> DEFINE cs == ChunkCodecs(m)
           a == ToCompress(cs)
           b == ToTrailer(cs)
           n == Len(cs)
           trailer == IF n = b + 1 THEN TRUE ELSE FALSE
           g == FlagsOf(cs)
           compressor == IF b = a THEN "none" ELSE cs[b].name
           elementsize == IF a = 1 THEN 0 ELSE cs[2].elementsize
<1>0. Ordinary(cs, a, b, n)
  BY DescribedIs
<1>1. /\ a \in 1..2 /\ b \in {a, a + 1} /\ n \in {b, b + 1}
      /\ cs[1] = [name |-> "bytes", endian |-> "little"]
      /\ a = 2 => cs[2].name = "shuffle" /\ cs[2].elementsize \in Nat \ {0}
      /\ b = a + 1 => cs[b].name \in Compressors
      /\ n = b + 1 => cs[n].name = "crc32c"
  BY <1>0 DEF Ordinary
<1>2. /\ n \in Nat /\ a \in Nat /\ b \in Nat /\ 1 <= a /\ a <= b /\ b <= n
  BY <1>1
<1>3. \A i \in 1..n : cs[i].name = "shuffle" => cs[i].elementsize \in Nat
  BY CodecsAre
<1>4. /\ Distilled(cs) = g[n]
      /\ g \in [0..n -> Recipes] /\ g[0] = NoRecipe
      /\ \A i \in 1..n : g[i] = Recipe(g[i - 1], cs[i])
  BY <1>2, <1>3, FlagsRec
<1> HIDE DEF g, cs, a, b, n
<1>5. \A i \in 1..n : g[i - 1] \in Recipes /\ g[i] = Recipe(g[i - 1], cs[i])
  <2>1. \A i \in 1..n : i - 1 \in 0..n
    BY <1>2
  <2>2. QED
    BY <1>4, <2>1
<1>6. g[1] = Flags("none", 0, FALSE)
  <2>1. 1 \in 1..n /\ 1 - 1 = 0
    BY <1>2
  <2>2. g[0] \in Recipes /\ g[1] = Recipe(g[0], cs[1])
    BY <1>5, <2>1
  <2>3. cs[1].name = "bytes"
    BY <1>1
  <2>4. g[1] = g[0]
    BY <2>2, <2>3, RecipeIs
  <2>5. QED
    BY <1>4, <2>4 DEF NoRecipe, Flags
<1>7. g[a] = Flags("none", elementsize, FALSE)
  <2>1. CASE a = 1
    BY <1>6, <2>1
  <2>2. CASE a = 2
    <3>1. 2 \in 1..n /\ 2 - 1 = 1
      BY <1>2, <2>2
    <3>2. g[1] \in Recipes /\ g[2] = Recipe(g[1], cs[2])
      BY <1>5, <3>1
    <3>3. elementsize = cs[2].elementsize
      BY <2>2
    <3> HIDE DEF elementsize
    <3>4. g[2] = Flags("none", cs[2].elementsize, FALSE)
      <4>1. \A c : c.name = "shuffle" => Recipe(g[1], c) = Flags("none", c.elementsize, FALSE)
        BY <1>6, RecipeSets
      <4>2. cs[2].name = "shuffle"
        BY <1>1, <2>2
      <4>3. QED
        BY <3>2, <4>1, <4>2
    <3>5. QED
      BY <2>2, <3>3, <3>4
  <2> HIDE DEF elementsize
  <2>3. a = 1 \/ a = 2
    BY <1>1
  <2>4. QED
    BY <2>1, <2>2, <2>3
<1>8. g[b] = Flags(compressor, elementsize, FALSE)
  <2>1. CASE b = a
    BY <1>7, <2>1
  <2>2. CASE b = a + 1
    <3>1. b \in 1..n /\ b - 1 = a
      BY <1>2, <2>2
    <3>2. g[a] \in Recipes /\ g[b] = Recipe(g[a], cs[b])
      BY <1>5, <3>1
    <3>3. cs[b].name # "shuffle" /\ cs[b].name \in Compressors
      BY <1>1, <2>2 DEF Compressors
    <3>4. compressor = cs[b].name
      BY <1>2, <2>2
    <3> HIDE DEF elementsize, compressor
    <3>5. g[b] = Flags(cs[b].name, elementsize, FALSE)
      <4>1. \A c : c.name \in Compressors => Recipe(g[a], c) = Flags(c.name, elementsize, FALSE)
        BY <1>7, RecipeSets
      <4>2. QED
        BY <3>2, <3>3, <4>1
    <3>6. QED
      BY <3>4, <3>5
  <2>3. QED
    BY <1>1, <2>1, <2>2
<1>9. g[n] = Flags(compressor, elementsize, trailer)
  <2> HIDE DEF elementsize, compressor
  <2>1. CASE n = b
    <3>1. trailer = FALSE
      BY <1>2, <2>1
    <3> HIDE DEF trailer
    <3>2. QED
      BY <1>8, <2>1, <3>1
  <2>2. CASE n = b + 1
    <3>1. n \in 1..n /\ n - 1 = b
      BY <1>2, <2>2
    <3>2. g[b] \in Recipes /\ g[n] = Recipe(g[b], cs[n])
      BY <1>5, <3>1
    <3>3. cs[n].name = "crc32c"
      BY <1>1, <2>2
    <3>4. g[n] = Flags(compressor, elementsize, TRUE)
      BY <1>8, <3>2, <3>3, RecipeSets
    <3>5. trailer = TRUE
      BY <2>2
    <3> HIDE DEF trailer
    <3>6. QED
      BY <3>4, <3>5
  <2>3. QED
    BY <1>1, <2>1, <2>2
<1>10. QED
  BY <1>4, <1>9 DEF FlagsFor, cs, a, b, n

\* Each step of the call takes off the codecs that its part of the recipe is about.
ChainAt(m) ==
  LET cs == ChunkCodecs(m)
  IN  /\ step \in {"metadata", "planned", "fetched", "distilled", "sliced", "decompressed", "undone",
                   "returned", "UnsupportedBlosc"}
      /\ step \in {"fetched", "distilled"} => view = Cut(m, Len(cs))
      /\ step = "sliced" => view = Cut(m, ToTrailer(cs))
      /\ step = "decompressed" => view = Cut(m, ToCompress(cs))
      /\ step \in {"undone", "returned"} => view = Cut(m, 1)
      /\ step \in {"distilled", "sliced", "decompressed"} => recipe = FlagsFor(m)
      /\ step = "UnsupportedBlosc" => recipe.compressor = "blosc"

ChainInv == meta \in Metadata /\ (Described(meta) => ChainAt(meta))

\* A described list, step by step.
LEMMA ChainKeeps ==
  ASSUME NEW m \in Metadata, Described(m), meta = m, ChainAt(m), ChainNext
  PROVE  ChainAt(m)'
<1> DEFINE cs == ChunkCodecs(m)
           a == ToCompress(cs)
           b == ToTrailer(cs)
           n == Len(cs)
           compressor == IF b = a THEN "none" ELSE cs[b].name
           elementsize == IF a = 1 THEN 0 ELSE cs[2].elementsize
<1>1. /\ a \in 1..2 /\ b \in {a, a + 1} /\ n \in {b, b + 1}
      /\ cs[1] = [name |-> "bytes", endian |-> "little"]
      /\ a = 2 => cs[2].name = "shuffle" /\ cs[2].elementsize \in Nat \ {0}
      /\ b = a + 1 => cs[b].name \in Compressors
      /\ n = b + 1 => cs[n].name = "crc32c"
  <2>1. Ordinary(cs, a, b, n)
    BY DescribedIs
  <2>2. QED
    BY <2>1 DEF Ordinary
<1>2. PlanError(m) = "none" /\ ShardFound(m)
  BY DescribedIs DEF ShardFound
<1>3. n \in Nat /\ a \in Nat /\ b \in Nat /\ 1 <= a /\ a <= b /\ b <= n
  BY <1>1
<1>4. /\ \A i \in 1..a : Cut(m, i).nbytes = ChunkNbytes
      /\ a = 2 => ChunkNbytes % cs[2].elementsize = 0
  BY PlainSizes
<1>5. recipe = FlagsFor(m) =>
        /\ recipe.compressor = compressor /\ recipe.elementsize = elementsize
        /\ (n = b + 1 => recipe.trailer = TRUE) /\ (n # b + 1 => recipe.trailer = FALSE)
  <2> SUFFICES ASSUME recipe = FlagsFor(m)
               PROVE  /\ recipe.compressor = compressor /\ recipe.elementsize = elementsize
                      /\ n = b + 1 => recipe.trailer = TRUE
                      /\ n # b + 1 => recipe.trailer = FALSE
    OBVIOUS
  <2>1. recipe = [compressor |-> compressor, elementsize |-> elementsize,
                  trailer |-> IF n = b + 1 THEN TRUE ELSE FALSE]
    BY DEF FlagsFor, Flags
  <2> HIDE DEF compressor, elementsize, n, b
  <2>2. recipe.compressor = compressor /\ recipe.elementsize = elementsize
    BY <2>1
  <2>3. n = b + 1 => recipe.trailer = TRUE
    BY <2>1
  <2>4. n # b + 1 => recipe.trailer = FALSE
    BY <2>1
  <2>5. QED
    BY <2>2, <2>3, <2>4
<1>6. ASSUME NEW i \in 1..n, view = Cut(m, i)
      PROVE  /\ \A name : OnTop(view, name) <=> cs[i].name = name
             /\ Last(view.layers) = cs[i]
             /\ Under(view) = Cut(m, i - 1)
  BY <1>6, UndoneIs
<1>7. /\ step \in {"fetched", "distilled"} => view = Cut(m, n)
      /\ step = "sliced" => view = Cut(m, b)
      /\ step = "decompressed" => view = Cut(m, a)
      /\ step \in {"undone", "returned"} => view = Cut(m, 1)
      /\ step \in {"distilled", "sliced", "decompressed"} => recipe = FlagsFor(m)
  BY DEF ChainAt
<1>8. SUFFICES /\ step' \in {"metadata", "planned", "fetched", "distilled", "sliced", "decompressed",
                             "undone", "returned", "UnsupportedBlosc"}
               /\ step' \in {"fetched", "distilled"} => view' = Cut(m, n)
               /\ step' = "sliced" => view' = Cut(m, b)
               /\ step' = "decompressed" => view' = Cut(m, a)
               /\ step' \in {"undone", "returned"} => view' = Cut(m, 1)
               /\ step' \in {"distilled", "sliced", "decompressed"} => recipe' = FlagsFor(m)
               /\ step' = "UnsupportedBlosc" => recipe'.compressor = "blosc"
  BY DEF ChainAt
<1> HIDE DEF cs, a, b, n, compressor, elementsize
<1>9. CASE PlanFromMetadata
  BY <1>2, <1>9 DEF PlanFromMetadata
<1>10. CASE Fetch
  <2>1. view' = EncodedChunk(m) /\ step' = "fetched"
    BY <1>2, <1>10 DEF Fetch
  <2>2. EncodedChunk(m) = Cut(m, n)
    <3>1. n \in 1..Len(ChunkCodecs(m))
      BY <1>3 DEF n, cs
    <3>2. SubSeq(ChunkCodecs(m), 1, Len(ChunkCodecs(m))) = ChunkCodecs(m)
      BY <3>1, CutIs
    <3>3. QED
      BY <3>2 DEF EncodedChunk, Cut, n, cs
  <2>3. QED
    BY <2>1, <2>2
<1>11. CASE Distill
  <2>1. DOMAIN cs = 1..n
    <3> DEFINE S == {cs[i] : i \in DOMAIN cs}
    <3>1. cs \in Seq(S)
      BY CodecsAre DEF cs
    <3> HIDE DEF S
    <3>2. QED
      BY <3>1 DEF n
  <2>2. ASSUME NEW i \in DOMAIN cs PROVE ~Refuses(cs[i])
    <3>1. i = 1 \/ (i = 2 /\ a = 2) \/ (i = b /\ b = a + 1) \/ (i = n /\ n = b + 1)
      BY <1>1, <1>3, <2>1
    <3>2. CASE i = 1
      BY <1>1, <3>2 DEF Refuses
    <3>3. CASE i # 1
      <4>1. cs[i].name \in {"shuffle", "crc32c"} \cup Compressors
        BY <1>1, <3>1, <3>3
      <4>2. QED
        BY <4>1 DEF Refuses, Compressors
    <3>4. QED
      BY <3>2, <3>3
  <2>3. step' = "distilled" /\ recipe' = Distilled(cs) /\ view' = view /\ step = "fetched"
    BY <1>11, <2>2 DEF Distill, cs
  <2>4. Distilled(cs) = FlagsFor(m)
    BY DistilledIs DEF cs
  <2>5. QED
    BY <1>7, <2>3, <2>4
<1>12. CASE Slice
  <2>1. /\ step = "distilled" /\ step' = "sliced" /\ recipe' = recipe
        /\ view' = WithoutTrailer(view)
    BY <1>12 DEF Slice
  <2>2. /\ view = Cut(m, n) /\ recipe = FlagsFor(m)
        /\ n = b + 1 => recipe.trailer = TRUE
        /\ n # b + 1 => recipe.trailer = FALSE
    BY <1>5, <1>7, <2>1
  <2>3. view' = Cut(m, b)
    <3>1. CASE n = b
      <4>1. ~recipe.trailer
        BY <1>3, <2>2, <3>1
      <4>2. QED
        BY <2>1, <2>2, <3>1, <4>1 DEF WithoutTrailer
    <3>2. CASE n = b + 1
      <4>1. recipe.trailer /\ n \in 1..n /\ n - 1 = b /\ cs[n].name = "crc32c"
        BY <1>1, <1>3, <2>2, <3>2
      <4>2. OnTop(view, "crc32c") /\ Under(view) = Cut(m, b)
        BY <1>6, <2>2, <4>1
      <4>3. QED
        BY <2>1, <4>1, <4>2 DEF WithoutTrailer
    <3>3. QED
      BY <1>1, <3>1, <3>2
  <2>4. QED
    BY <2>1, <2>2, <2>3
<1>13. CASE Decompress
  <2>1. step = "sliced" /\ recipe' = recipe
    BY <1>13 DEF Decompress
  <2>2. view = Cut(m, b) /\ recipe = FlagsFor(m) /\ recipe.compressor = compressor
    BY <1>5, <1>7, <2>1
  <2>3. CASE b = a
    <3>1. compressor = "none"
      BY <2>3 DEF compressor
    <3>2. view' = view /\ step' = "decompressed"
      BY <1>13, <2>2, <3>1 DEF Decompress
    <3>3. QED
      BY <2>1, <2>2, <2>3, <3>2
  <2>4. CASE b = a + 1
    <3>1. compressor = cs[b].name /\ compressor \in Compressors
      BY <1>1, <1>3, <2>4 DEF compressor
    <3>2. b \in 1..n /\ b - 1 = a /\ a \in 1..a
      BY <1>3, <2>4
    <3>3. OnTop(view, compressor) /\ Under(view) = Cut(m, a)
      BY <1>6, <2>2, <3>1, <3>2
    <3>4. Under(view).nbytes = ChunkNbytes
      BY <1>4, <3>2, <3>3
    <3>5. \/ view' = Cut(m, a) /\ step' = "decompressed"
          \/ step' = "UnsupportedBlosc" /\ recipe.compressor = "blosc"
      <4>1. CASE compressor = "zstd"
        BY <1>13, <2>2, <3>3, <3>4, <4>1 DEF Decompress
      <4>2. CASE compressor = "blosc"
        BY <1>13, <2>2, <3>3, <4>2 DEF Decompress
      <4>3. QED
        BY <3>1, <4>1, <4>2 DEF Compressors
    <3>6. QED
      BY <2>1, <2>2, <3>5
  <2>5. QED
    BY <1>1, <2>3, <2>4
<1>14. CASE Undo
  <2>1. step = "decompressed" /\ recipe' = recipe
    BY <1>14 DEF Undo
  <2>2. view = Cut(m, a) /\ recipe.elementsize = elementsize
    BY <1>5, <1>7, <2>1
  <2>3. view' = Cut(m, 1) /\ step' = "undone"
    <3>1. CASE a = 1
      <4>1. recipe.elementsize = 0
        BY <2>2, <3>1 DEF elementsize
      <4>2. view' = view /\ step' = "undone"
        BY <1>14, <4>1 DEF Undo
      <4>3. QED
        BY <2>2, <3>1, <4>2
    <3>2. CASE a = 2
      <4>1. elementsize = cs[2].elementsize /\ elementsize # 0 /\ cs[2].name = "shuffle"
        BY <1>1, <3>2 DEF elementsize
      <4>2. 2 \in 1..n /\ 2 \in 1..a /\ 2 - 1 = 1
        BY <1>3, <3>2
      <4>3. /\ OnTop(view, "shuffle") /\ Last(view.layers).elementsize = elementsize
            /\ Under(view) = Cut(m, 1)
        BY <1>6, <2>2, <3>2, <4>1, <4>2
      <4>4. view.nbytes % elementsize = 0
        BY <1>4, <2>2, <3>2, <4>1, <4>2
      <4>5. QED
        BY <1>14, <2>2, <4>1, <4>3, <4>4 DEF Undo
    <3>3. a = 1 \/ a = 2
      BY <1>1
    <3>4. QED
      BY <3>1, <3>2, <3>3
  <2>4. QED
    BY <2>3
<1>15. CASE Scatter
  <2>1. /\ step = "undone" /\ view' = view
        /\ step' = IF view.nbytes = ChunkNbytes THEN "returned" ELSE "ValueError"
    BY <1>15 DEF Scatter
  <2>2. view = Cut(m, 1)
    BY <1>7, <2>1
  <2>3. view.nbytes = ChunkNbytes
    BY <1>3, <1>4, <2>2
  <2>4. QED
    BY <2>1, <2>2, <2>3
<1>16. QED
  BY <1>9, <1>10, <1>11, <1>12, <1>13, <1>14, <1>15 DEF ChainNext

\* "Codec support (v1)": an array whose list of codecs is in the documented order is
\* read as it was written, for chunks of any size; only a blosc chunk can be refused.
THEOREM DocumentedChainsDecode == ChainSpec => []OrdinaryChainsDecode
<1>1. ChainInit => ChainInv
  BY DEF ChainInit, ChainInv, ChainAt
<1>2. ChainInv /\ [ChainNext]_chainVars => ChainInv'
  <2>1. ChainInv /\ UNCHANGED chainVars => ChainInv'
    BY DEF ChainInv, ChainAt, chainVars
  <2>2. ASSUME ChainInv, ChainNext PROVE ChainInv'
    <3>1. meta' = meta /\ meta \in Metadata
      BY <2>2 DEF ChainInv, ChainNext, PlanFromMetadata, Fetch, Distill, Slice, Decompress, Undo, Scatter
    <3>2. PICK m \in Metadata : m = meta
      BY <3>1
    <3>3. Described(m) => ChainAt(m)
      BY <2>2, <3>2 DEF ChainInv
    <3>4. Described(m) => ChainAt(m)'
      BY <2>2, <3>2, <3>3, ChainKeeps
    <3>5. QED
      BY <3>1, <3>2, <3>4 DEF ChainInv, ChainAt
  <2>3. QED
    BY <2>1, <2>2
<1>3. ChainInv => OrdinaryChainsDecode
  <2> SUFFICES ASSUME ChainInv, Described(meta) PROVE OrdinaryChainsDecode
    BY DEF OrdinaryChainsDecode
  <2>1. meta \in Metadata /\ ChainAt(meta)
    BY DEF ChainInv
  <2>2. Cut(meta, 1) = DecodedChunk
    BY <2>1, PlainSizes
  <2>3. QED
    BY <2>1, <2>2 DEF ChainAt, OrdinaryChainsDecode
<1>4. QED
  BY <1>1, <1>2, <1>3, PTL DEF ChainSpec
=============================================================================
