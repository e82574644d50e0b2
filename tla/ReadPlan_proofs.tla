--------------------------- MODULE ReadPlan_proofs ----------------------------
(* What ReadPlan's properties rest on, for arrays and stores of any size. *)
EXTENDS ReadPlan, Ascending_proofs, FiniteSetTheorems, TLAPS

-----------------------------------------------------------------------------
(* Integer division *)

\* u is a lower bound of x \div c just when u * c is one of x.
LEMMA DivIsGalois ==
  ASSUME NEW x \in Int, NEW c \in Nat \ {0}, NEW u \in Int
  PROVE  x \div c \in Int /\ (u <= x \div c <=> u * c <= x)
<1>1. PICK q \in Int : q = x \div c
  OBVIOUS
<1>2. PICK m \in 0..(c - 1) : m = x % c /\ x = c * q + m
  BY <1>1
<1>3. CASE u <= q
  <2>1. PICK d \in Nat : q = u + d
    BY <1>3
  <2>2. x = c * u + c * d + m /\ c * d >= 0
    BY <1>2, <2>1
  <2>3. QED
    BY <1>1, <1>2, <1>3, <2>2
<1>4. CASE u > q
  <2>1. PICK d \in Nat : u = q + 1 + d
    BY <1>4
  <2>2. u * c = c * q + c + c * d /\ c * d >= 0
    BY <1>2, <2>1
  <2>3. QED
    BY <1>1, <1>2, <1>4, <2>2
<1>5. QED
  BY <1>1, <1>3, <1>4

LEMMA DivIs ==
  ASSUME NEW x \in Int, NEW c \in Nat \ {0}, NEW u \in Int
  PROVE  /\ x \div c = u <=> u * c <= x /\ x < u * c + c
         /\ x % c = x - (x \div c) * c
<1>1. x \div c \in Int /\ (u <= x \div c <=> u * c <= x)
  BY DivIsGalois
<1>2. u + 1 <= x \div c <=> (u + 1) * c <= x
  BY DivIsGalois
<1>3. (u + 1) * c = u * c + c
  OBVIOUS
<1>4. x \div c = u <=> u <= x \div c /\ ~(u + 1 <= x \div c)
  BY <1>1
<1>5. u * c \in Int
  OBVIOUS
<1>6. x = c * (x \div c) + (x % c) /\ (x % c) \in Int
  OBVIOUS
<1>7. c * (x \div c) = (x \div c) * c
  BY <1>1
<1>8. QED
  BY <1>1, <1>2, <1>3, <1>4, <1>5, <1>6, <1>7

LEMMA CeilDivIsGalois ==
  ASSUME NEW x \in Int, NEW c \in Nat \ {0}, NEW u \in Int
  PROVE  CeilDiv(x, c) \in Int /\ (u < CeilDiv(x, c) <=> u * c < x)
<1>1. (-x) \div c \in Int /\ (-u <= (-x) \div c <=> (-u) * c <= -x)
  BY DivIsGalois
<1>2. (-u) * c = -(u * c) /\ u * c \in Int
  OBVIOUS
<1>3. QED
  BY <1>1, <1>2 DEF CeilDiv

-----------------------------------------------------------------------------
(* Points, least and greatest elements *)

LEMMA PointsAre ==
  ASSUME NEW ranges, NEW p
  PROVE  p \in Points(ranges) <=>
           /\ p = [a \in DOMAIN ranges |-> p[a]]
           /\ \A a \in DOMAIN ranges : p[a] \in Span(ranges[a])
  BY DEF Points

LEMMA LessIs == \A x, y \in Nat : x < y => <<x, y>> \in Less
  BY DEF Less

LEMMA LeastIn ==
  ASSUME NEW S, S \subseteq Nat, S # {}
  PROVE  Min(S) \in S /\ \A x \in S : Min(S) <= x
<1>1. PICK m \in S : \A y \in S : <<y, m>> \notin Less
  BY LessWF, WFMin
<1>2. ASSUME NEW y \in S PROVE m <= y
  <2>1. m \in Nat /\ y \in Nat /\ <<y, m>> \notin Less
    BY <1>1
  <2>2. QED
    BY <2>1, LessIs
<1>3. QED
  BY <1>2 DEF Min

LEMMA GreatestIn ==
  ASSUME NEW S, S \subseteq Nat, S # {}, NEW n \in Nat, \A x \in S : x <= n
  PROVE  Max(S) \in S /\ \A x \in S : x <= Max(S)
<1> DEFINE U == {b \in Nat : \A x \in S : x <= b}
<1>1. PICK b \in U : \A y \in U : <<y, b>> \notin Less
  BY LessWF, WFMin
<1>2. ASSUME NEW y \in U PROVE b <= y
  <2>1. b \in Nat /\ y \in Nat /\ <<y, b>> \notin Less
    BY <1>1
  <2>2. QED
    BY <2>1, LessIs
<1>3. b \in S
  <2>1. SUFFICES ASSUME b \notin S PROVE FALSE
    OBVIOUS
  <2>2. b \in Nat /\ \A x \in S : x \in Nat /\ x < b
    BY <2>1
  <2>3. b - 1 \in Nat /\ \A x \in S : x <= b - 1
    <3>1. PICK x \in S : x \in Nat /\ x < b
      BY <2>2
    <3>2. b - 1 \in Nat
      BY <2>2, <3>1
    <3>3. QED
      BY <2>2, <3>2
  <2>4. b <= b - 1
    BY <1>2, <2>3
  <2>5. QED
    BY <2>2, <2>4
<1>4. QED
  BY <1>3 DEF Max

-----------------------------------------------------------------------------
(* normalize_selection *)

\* What the items of a padded selection are.
IsPadded(E, n) == /\ E = [k \in 1..n |-> E[k]]
                  /\ \A k \in 1..n : IsItem(E[k]) /\ E[k].kind # "ellipsis"

LEMMA FullIsItem == IsItem(Full) /\ Full.kind = "slice"
<1>1. <<>> \in Seq(Int) /\ Len(<<>>) = 0
  OBVIOUS
<1>2. QED
  BY <1>1 DEF Full, IsItem, IsBound

LEMMA ExpandedIsPadded ==
  ASSUME NEW items, NEW n \in Nat, IsSelection(items), ~TooMany(items, n)
  PROVE  IsPadded(Expanded(items, n), n)
<1> DEFINE Any == {items[k] : k \in 1..Len(items)} \cup {Full}
<1>1. items \in Seq(Any) /\ DOMAIN items = 1..Len(items) /\ Len(items) \in Nat
  BY DEF IsSelection
<1>2. \A k \in 1..Len(items) : IsItem(items[k])
  BY DEF IsSelection
<1>3. IsFiniteSet(Ellipses(items)) /\ Cardinality(Ellipses(items)) \in Nat
  <2>1. IsFiniteSet(1..Len(items))
    BY <1>1, FS_Interval
  <2>2. Ellipses(items) \in SUBSET (1..Len(items))
    BY <1>1 DEF Ellipses
  <2>3. QED
    BY <2>1, <2>2, FS_Subset, FS_CardinalityType
<1>4. CASE Ellipses(items) = {}
  <2>1. Cardinality(Ellipses(items)) = 0
    BY <1>4, FS_EmptySet
  <2>2. Len(items) <= n
    BY <1>1, <2>1 DEF TooMany
  <2>3. Fulls(n - Len(items)) \in Seq(Any) /\ Len(Fulls(n - Len(items))) = n - Len(items)
    BY <1>1, <2>2 DEF Fulls
  <2>4. \A k \in 1..(n - Len(items)) : Fulls(n - Len(items))[k] = Full
    BY DEF Fulls
  <2>5. Expanded(items, n) = items \o Fulls(n - Len(items))
    BY <1>4 DEF Expanded
  <2>6. Expanded(items, n) \in Seq(Any) /\ Len(Expanded(items, n)) = n
    BY <1>1, <2>2, <2>3, <2>5
  <2>7. ASSUME NEW k \in 1..n PROVE IsItem(Expanded(items, n)[k]) /\ Expanded(items, n)[k].kind # "ellipsis"
    <3>1. CASE k <= Len(items)
      <4>1. Expanded(items, n)[k] = items[k]
        BY <1>1, <2>2, <2>3, <2>5, <3>1
      <4>2. QED
        BY <1>1, <1>2, <1>4, <3>1, <4>1 DEF Ellipses
    <3>2. CASE k > Len(items)
      <4>1. Expanded(items, n)[k] = Fulls(n - Len(items))[k - Len(items)]
        BY <1>1, <2>2, <2>3, <2>5, <3>2
      <4>2. QED
        BY <1>1, <2>2, <2>4, <3>2, <4>1, FullIsItem
    <3>3. QED
      BY <1>1, <3>1, <3>2
  <2>8. QED
    BY <2>6, <2>7 DEF IsPadded
<1>5. CASE Ellipses(items) # {}
  <2>1. Cardinality(Ellipses(items)) = 1
    BY <1>3, <1>5, FS_EmptySet DEF TooMany
  <2>2. PICK at : Ellipses(items) = {at}
    BY <1>3, <2>1, FS_Singleton
  <2>3. at \in 1..Len(items) /\ \A k \in 1..Len(items) : items[k].kind = "ellipsis" <=> k = at
    BY <1>1, <2>2 DEF Ellipses
  <2>4. PICK m \in Nat : m = n - (Len(items) - 1)
    <3>1. Len(items) - 1 <= n
      BY <2>1 DEF TooMany
    <3>2. n - (Len(items) - 1) \in Nat
      BY <1>1, <3>1
    <3>3. QED
      BY <3>2
  <2> DEFINE L == SubSeq(items, 1, at - 1)
             R == SubSeq(items, at + 1, Len(items))
             F == Fulls(m)
  <2>5. (CHOOSE k \in Ellipses(items) : TRUE) = at
    BY <2>2
  <2>6. Expanded(items, n) = L \o F \o R
    BY <1>5, <2>4, <2>5 DEF Expanded
  <2>7. /\ F \in Seq(Any) /\ Len(F) = m
        /\ \A k \in 1..m : F[k] = Full
    BY DEF Fulls
  <2>8. /\ L \in Seq(Any) /\ Len(L) = at - 1
        /\ \A k \in 1..(at - 1) : L[k] = items[k]
    BY <1>1, <2>3
  <2>9. /\ R \in Seq(Any) /\ Len(R) = Len(items) - at
        /\ \A k \in 1..(Len(items) - at) : R[k] = items[at + k]
    <3>1. at + 1 \in 1..(Len(items) + 1) /\ Len(items) - (at + 1) + 1 = Len(items) - at
      BY <1>1, <2>3
    <3>2. R \in Seq(Any) /\ Len(R) = Len(items) - at
      BY <1>1, <3>1
    <3>3. ASSUME NEW k \in 1..(Len(items) - at) PROVE R[k] = items[at + k]
      <4>1. R[k] = items[at + 1 + k - 1]
        BY <1>1, <3>1
      <4>2. at + 1 + k - 1 = at + k
        BY <2>3
      <4>3. QED
        BY <4>1, <4>2
    <3>4. QED
      BY <3>2, <3>3
  <2> HIDE DEF L, R, F
  <2>10. Expanded(items, n) \in Seq(Any) /\ Len(Expanded(items, n)) = n
    <3>1. L \o F \in Seq(Any) /\ Len(L \o F) = at - 1 + m
      <4> HIDE DEF Any
      <4>1. L \in Seq(Any) /\ F \in Seq(Any) /\ Len(L) = at - 1 /\ Len(F) = m
        BY <2>7, <2>8
      <4>2. QED
        BY <4>1
    <3>2. Len(L \o F) + Len(R) = n
      BY <1>1, <2>3, <2>4, <2>9, <3>1
    <3> HIDE DEF Any
    <3>3. \A s, t \in Seq(Any) : s \o t \in Seq(Any) /\ Len(s \o t) = Len(s) + Len(t)
      OBVIOUS
    <3>4. QED
      BY <2>6, <2>9, <3>1, <3>2, <3>3
  <2>11. ASSUME NEW k \in 1..n PROVE IsItem(Expanded(items, n)[k]) /\ Expanded(items, n)[k].kind # "ellipsis"
    <3>1. CASE k <= at - 1
      <4>1. Expanded(items, n)[k] = items[k]
        BY <1>1, <2>3, <2>6, <2>7, <2>8, <2>9, <3>1
      <4>2. QED
        BY <1>1, <1>2, <2>3, <3>1, <4>1
    <3>2. CASE k > at - 1 /\ k <= at - 1 + m
      <4> HIDE DEF Any
      <4>1. /\ L \in Seq(Any) /\ F \in Seq(Any) /\ R \in Seq(Any)
            /\ Len(L) = at - 1 /\ Len(F) = m
        BY <2>7, <2>8, <2>9
      <4>2. k - (at - 1) \in 1..m /\ Len(L) + (k - (at - 1)) = k
        BY <1>1, <2>3, <3>2, <4>1
      <4>3. ((L \o F) \o R)[k] = F[k - (at - 1)]
        <5>1. PICK j \in 1..Len(F) : j = k - (at - 1)
          BY <4>1, <4>2
        <5>2. PICK d \in Seq(Any) : d = L \o F /\ Len(d) = Len(L) + Len(F)
          <6>1. L \o F \in Seq(Any) /\ Len(L \o F) = Len(L) + Len(F)
            BY <4>1
          <6>2. QED
            BY <6>1, Zenon
        <5>3. d[Len(L) + j] = F[j]
          <6>1. (L \o F)[Len(L) + j] = F[j]
            BY <4>1
          <6>2. QED
            BY <5>2, <6>1
        <5>4. k \in 1..Len(d)
          BY <4>1, <4>2, <5>1, <5>2
        <5>5. (d \o R)[k] = d[k]
          BY <4>1, <5>4
        <5>6. QED
          BY <4>2, <5>1, <5>2, <5>3, <5>5
      <4>4. Expanded(items, n)[k] = Full
        BY <2>6, <2>7, <4>2, <4>3
      <4>5. QED
        BY <4>4, FullIsItem
    <3>3. CASE k > at - 1 + m
      <4>1. Expanded(items, n)[k] = items[at + (k - (at - 1 + m))]
        <5>1. L \o F \in Seq(Any) /\ Len(L \o F) = at - 1 + m
          BY <2>7, <2>8
        <5>2. k - (at - 1 + m) \in 1..Len(R)
          BY <1>1, <2>3, <2>4, <2>9, <3>3
        <5> HIDE DEF Any
        <5>3. /\ L \in Seq(Any) /\ F \in Seq(Any) /\ R \in Seq(Any)
              /\ Len(L) = at - 1 /\ Len(F) = m
          BY <2>7, <2>8, <2>9
        <5>4. Len(L) + Len(F) + (k - (at - 1 + m)) = k
          BY <1>1, <2>3, <5>3
        <5>5. ((L \o F) \o R)[k] = R[k - (at - 1 + m)]
          <6>1. PICK j \in 1..Len(R) : j = k - (at - 1 + m)
            BY <5>2
          <6>2. PICK d \in Seq(Any) : d = L \o F /\ Len(d) = at - 1 + m
            BY <5>1
          <6>3. (d \o R)[Len(d) + j] = R[j]
            BY <5>3
          <6>4. Len(d) + j = k
            BY <5>3, <5>4, <6>1, <6>2
          <6>5. QED
            BY <6>1, <6>2, <6>3, <6>4
        <5>6. QED
          BY <2>6, <2>9, <5>2, <5>5
      <4>2. at + (k - (at - 1 + m)) \in 1..Len(items) /\ at + (k - (at - 1 + m)) # at
        BY <1>1, <2>3, <2>4, <3>3
      <4>3. QED
        BY <1>2, <2>3, <4>1, <4>2
    <3>4. QED
      BY <2>3, <3>1, <3>2, <3>3
  <2>12. QED
    BY <2>10, <2>11 DEF IsPadded
<1>6. QED
  BY <1>4, <1>5

LEMMA ClampedIs ==
  ASSUME NEW v \in Int, NEW dim \in Nat
  PROVE  /\ Clamped(v, dim) \in 0..dim
         /\ \A i \in 0..(dim - 1) : Clamped(v, dim) <= i <=> (IF v < 0 THEN v + dim ELSE v) <= i
  BY DEF Clamped, AtMost, AtLeast

\* The bounds of a slice of missing, negative or too large bounds among them.
LEMMA SliceBoundsAre ==
  ASSUME NEW it, it.kind = "slice", IsItem(it), NEW dim \in Nat
  PROVE  \E lo \in 0..dim : \E hi \in lo..dim :
           /\ AxisBounds(it, dim) = <<lo, hi>>
           /\ \A i \in 0..(dim - 1) : lo <= i /\ i < hi <=> Meant(it, dim, i)
<1> DEFINE start == IF it.start = <<>> THEN 0 ELSE Clamped(it.start[1], dim)
           stop  == IF it.stop = <<>> THEN dim ELSE Clamped(it.stop[1], dim)
<1>1. /\ it.start # <<>> => it.start[1] \in Int
      /\ it.stop # <<>> => it.stop[1] \in Int
  <2>1. IsBound(it.start) /\ IsBound(it.stop)
    BY DEF IsItem
  <2>2. \A b \in Seq(Int) : b # <<>> => b[1] \in Int
    OBVIOUS
  <2>3. QED
    BY <2>1, <2>2 DEF IsBound
<1>2. /\ start \in 0..dim
      /\ \A i \in 0..(dim - 1) :
           start <= i <=> (it.start = <<>> \/ i >= (IF it.start[1] < 0 THEN it.start[1] + dim ELSE it.start[1]))
  <2>1. CASE it.start = <<>>
    BY <2>1
  <2>2. CASE it.start # <<>>
    <3>1. PICK v \in Int : v = it.start[1]
      BY <1>1, <2>2
    <3>2. start = Clamped(v, dim)
      BY <2>2, <3>1
    <3>3. QED
      BY <2>2, <3>1, <3>2, ClampedIs
  <2>3. QED
    BY <2>1, <2>2
<1>3. /\ stop \in 0..dim
      /\ \A i \in 0..(dim - 1) :
           i < stop <=> (it.stop = <<>> \/ i < (IF it.stop[1] < 0 THEN it.stop[1] + dim ELSE it.stop[1]))
  <2>1. CASE it.stop = <<>>
    BY <2>1
  <2>2. CASE it.stop # <<>>
    <3>1. PICK v \in Int : v = it.stop[1]
      BY <1>1, <2>2
    <3>2. stop = Clamped(v, dim)
      BY <2>2, <3>1
    <3>3. stop \in 0..dim
      BY <3>2, ClampedIs
    <3>4. /\ Clamped(v, dim) \in 0..dim
          /\ \A i \in 0..(dim - 1) : Clamped(v, dim) <= i <=> (IF v < 0 THEN v + dim ELSE v) <= i
      BY ClampedIs
    <3> HIDE DEF start, stop
    <3>5. \A i \in 0..(dim - 1) : i < stop <=> i < (IF v < 0 THEN v + dim ELSE v)
      BY <3>2, <3>4
    <3>6. QED
      BY <2>2, <3>1, <3>3, <3>5
  <2>3. QED
    BY <2>1, <2>2
<1>4. AxisBounds(it, dim) = <<start, AtLeast(start, stop)>>
  BY DEF AxisBounds
<1>5. \A i : Meant(it, dim, i) <=>
        /\ it.start = <<>> \/ i >= (IF it.start[1] < 0 THEN it.start[1] + dim ELSE it.start[1])
        /\ it.stop = <<>> \/ i < (IF it.stop[1] < 0 THEN it.stop[1] + dim ELSE it.stop[1])
  BY DEF Meant
<1> HIDE DEF start, stop
<1>6. AtLeast(start, stop) \in start..dim
  BY <1>2, <1>3 DEF AtLeast
<1>7. ASSUME NEW i \in 0..(dim - 1)
      PROVE  start <= i /\ i < AtLeast(start, stop) <=> Meant(it, dim, i)
  <2>1. start <= i /\ i < AtLeast(start, stop) <=> start <= i /\ i < stop
    BY <1>2, <1>3 DEF AtLeast
  <2>2. QED
    BY <1>2, <1>3, <1>5, <2>1
<1>8. QED
  BY <1>2, <1>4, <1>6, <1>7

LEMMA AxisBoundsAre ==
  ASSUME NEW it, IsItem(it), it.kind # "ellipsis", NEW dim \in Nat, AxisError(it, dim) = "none"
  PROVE  \E lo \in 0..dim : \E hi \in lo..dim :
           /\ AxisBounds(it, dim) = <<lo, hi>>
           /\ \A i \in 0..(dim - 1) : lo <= i /\ i < hi <=> Meant(it, dim, i)
<1>1. CASE it.kind = "slice"
  BY <1>1, SliceBoundsAre
<1>2. CASE it.kind = "int"
  <2>1. it.i \in (-dim)..(dim - 1)
    BY <1>2 DEF AxisError
  <2>2. PICK j \in 0..(dim - 1) : j = IF it.i < 0 THEN it.i + dim ELSE it.i
    BY <2>1
  <2>3. AxisBounds(it, dim) = <<j, j + 1>>
    BY <1>2, <2>2 DEF AxisBounds
  <2>4. \A i : Meant(it, dim, i) <=> i = j
    BY <1>2, <2>2 DEF Meant
  <2>5. j \in 0..dim /\ j + 1 \in j..dim
    OBVIOUS
  <2>6. QED
    BY <2>3, <2>4, <2>5
<1>3. CASE it.kind \notin {"slice", "int"}
  BY <1>3 DEF IsItem, AxisError
<1>4. QED
  BY <1>1, <1>2, <1>3

-----------------------------------------------------------------------------
(* The bounds *)

LEMMA ArrayIs ==
  ASSUME NEW A, IsArray(A)
  PROVE  /\ Len(A.shape) \in Nat
         /\ \A a \in 1..Len(A.shape) : /\ A.shape[a] \in Nat /\ A.inner[a] \in Nat \ {0}
                                       /\ A.per_shard[a] \in Nat \ {0}
  BY DEF IsArray

Inputs == IsArray(array) /\ IsStore(array, store) /\ IsSelection(selection)

\* What normalize_selection leaves when it raises nothing.
BoundsAreSet ==
  LET ndim  == Len(array.shape)
      items == Expanded(selection, ndim)
  IN  /\ IsPadded(items, ndim)
      /\ \A a \in Axes : AxisError(items[a], array.shape[a]) = "none"
      /\ bounds = [a \in Axes |-> AxisBounds(items[a], array.shape[a])]

BoundsInv == Inputs /\ (Normalized => BoundsAreSet)

LEMMA BoundsAre ==
  ASSUME Inputs, BoundsAreSet
  PROVE  /\ DOMAIN bounds = Axes
         /\ \A a \in Axes :
              /\ bounds[a][1] \in Nat /\ bounds[a][2] \in Nat
              /\ bounds[a][1] <= bounds[a][2] /\ bounds[a][2] <= array.shape[a]
              /\ \A i \in 0..(array.shape[a] - 1) :
                   bounds[a][1] <= i /\ i < bounds[a][2]
                     <=> Meant(Expanded(selection, Len(array.shape))[a], array.shape[a], i)
<1>1. DOMAIN bounds = Axes
  BY DEF BoundsAreSet
<1>2. ASSUME NEW a \in Axes
      PROVE  /\ bounds[a][1] \in Nat /\ bounds[a][2] \in Nat
             /\ bounds[a][1] <= bounds[a][2] /\ bounds[a][2] <= array.shape[a]
             /\ \A i \in 0..(array.shape[a] - 1) :
                  bounds[a][1] <= i /\ i < bounds[a][2]
                    <=> Meant(Expanded(selection, Len(array.shape))[a], array.shape[a], i)
  <2>1. PICK it, dim : it = Expanded(selection, Len(array.shape))[a] /\ dim = array.shape[a]
    OBVIOUS
  <2>2. dim \in Nat
    BY <2>1, ArrayIs DEF Inputs, Axes
  <2>3. IsItem(it) /\ it.kind # "ellipsis" /\ AxisError(it, dim) = "none" /\ bounds[a] = AxisBounds(it, dim)
    BY <2>1 DEF BoundsAreSet, IsPadded, Axes
  <2>4. PICK lo \in 0..dim : \E hi \in lo..dim :
          /\ AxisBounds(it, dim) = <<lo, hi>>
          /\ \A i \in 0..(dim - 1) : lo <= i /\ i < hi <=> Meant(it, dim, i)
    BY <2>2, <2>3, AxisBoundsAre
  <2>5. PICK hi \in lo..dim :
          /\ AxisBounds(it, dim) = <<lo, hi>>
          /\ \A i \in 0..(dim - 1) : lo <= i /\ i < hi <=> Meant(it, dim, i)
    BY <2>4
  <2>6. bounds[a][1] = lo /\ bounds[a][2] = hi
    BY <2>3, <2>5
  <2>7. QED
    BY <2>1, <2>2, <2>5, <2>6
<1>3. QED
  BY <1>1, <1>2

LEMMA ChunkBoxIsSelection ==
  ASSUME NEW A, IsArray(A), NEW u \in ChunkCoords(A)
  PROVE  IsSelection(ChunkBox(A, u))
<1>1. Len(A.shape) \in Nat
  BY ArrayIs
<1>2. ASSUME NEW a \in 1..Len(A.shape)
      PROVE  IsItem(ChunkBox(A, u)[a])
  <2>1. /\ A.shape[a] \in Nat /\ A.inner[a] \in Nat \ {0}
    BY ArrayIs
  <2>2. u[a] \in (-1)..((GridShape(A)[a] + 1) - 1)
    BY PointsAre DEF ChunkCoords, Span
  <2>3. u[a] \in Int
    BY <2>2
  <2>4. u[a] * A.inner[a] \in Int /\ (u[a] + 1) * A.inner[a] \in Int
    BY <2>1, <2>3
  <2>5. AtMost((u[a] + 1) * A.inner[a], A.shape[a]) \in Int
    BY <2>1, <2>4 DEF AtMost
  <2>6. \A v \in Int : IsBound(<<v>>)
    BY DEF IsBound
  <2>7. QED
    BY <2>4, <2>5, <2>6 DEF ChunkBox, IsItem
<1>3. Len(ChunkBox(A, u)) = Len(A.shape)
  BY <1>1 DEF ChunkBox
<1>4. ChunkBox(A, u) = [k \in 1..Len(A.shape) |-> ChunkBox(A, u)[k]]
  BY DEF ChunkBox
<1>5. QED
  BY <1>1, <1>2, <1>3, <1>4 DEF IsSelection

LEMMA InitBounds == Init => BoundsInv
<1> SUFFICES ASSUME Init PROVE BoundsInv
  OBVIOUS
<1>1. PICK c \in Cases : /\ array = c.array /\ store \in c.stores
                         /\ selection \in c.selections \cup {ChunkBox(array, u) : u \in ChunkCoords(array)}
  BY DEF Init
<1>2. IsArray(array) /\ IsStore(array, store)
  BY <1>1, CasesAssumption
<1>3. IsSelection(selection)
  BY <1>1, <1>2, CasesAssumption, ChunkBoxIsSelection
<1>4. QED
  BY <1>2, <1>3 DEF Init, BoundsInv, Inputs, Normalized

\* Every raise of normalize_selection is one of its three errors.
LEMMA NormalizeSetsBounds ==
  ASSUME Inputs, Normalize
  PROVE  BoundsInv' /\ pc' \in {"plan", "IndexError", "TypeError", "NotImplementedError"}
<1> DEFINE ndim  == Len(array.shape)
           items == Expanded(selection, ndim)
           bad   == {a \in Axes : AxisError(items[a], array.shape[a]) # "none"}
<1>1. Inputs'
  BY DEF Inputs, Normalize, Failed
<1>2. ndim \in Nat
  BY ArrayIs DEF Inputs
<1>3. CASE TooMany(selection, ndim)
  BY <1>1, <1>3 DEF BoundsInv, Normalize, Failed, Normalized
<1>4. CASE ~TooMany(selection, ndim)
  <2>1. IsPadded(items, ndim)
    BY <1>2, <1>4, ExpandedIsPadded DEF Inputs
  <2>2. CASE bad # {}
    <3>1. bad \subseteq Nat
      BY DEF Axes
    <3>2. PICK a \in bad : a = Min(bad)
      BY <2>2, <3>1, LeastIn
    <3>3. pc' = AxisError(items[a], array.shape[a])
      BY <1>4, <2>2, <3>2 DEF Normalize, Failed
    <3>4. IsItem(items[a]) /\ items[a].kind # "ellipsis" /\ AxisError(items[a], array.shape[a]) # "none"
      BY <2>1 DEF IsPadded, Axes
    <3>5. pc' \in {"TypeError", "NotImplementedError", "IndexError"}
      <4>1. PICK it, e : it = items[a] /\ e = AxisError(it, array.shape[a])
        OBVIOUS
      <4>2. e \in {"TypeError", "NotImplementedError", "IndexError"}
        BY <3>4, <4>1 DEF IsItem, AxisError
      <4>3. QED
        BY <3>3, <4>1, <4>2
    <3>6. QED
      BY <1>1, <3>5 DEF BoundsInv, Normalized
  <2>3. CASE bad = {}
    <3>1. /\ bounds' = [a \in Axes |-> AxisBounds(items[a], array.shape[a])]
          /\ array' = array /\ selection' = selection
      BY <1>4, <2>3 DEF Normalize
    <3>2. \A a \in Axes : AxisError(items[a], array.shape[a]) = "none"
      BY <2>3
    <3>3. BoundsAreSet'
      BY <2>1, <3>1, <3>2 DEF BoundsAreSet, Axes
    <3>4. QED
      BY <1>1, <1>4, <2>3, <3>3 DEF BoundsInv, Normalize
  <2>4. QED
    BY <2>2, <2>3
<1>5. QED
  BY <1>3, <1>4

LEMMA BoundsInvariant == Spec => []BoundsInv
<1>1. BoundsInv /\ [Next]_vars => BoundsInv'
  <2> SUFFICES ASSUME BoundsInv, [Next]_vars PROVE BoundsInv'
    OBVIOUS
  <2>1. CASE Normalize
    BY <2>1, NormalizeSetsBounds DEF BoundsInv
  <2>2. CASE Plan \/ Cut \/ ReadFails \/ Read \/ DecodeFails \/ Decode \/ Encoded
    <3>1. /\ array' = array /\ store' = store /\ selection' = selection /\ bounds' = bounds
          /\ Normalized
      BY <2>2 DEF Plan, Cut, ReadFails, Read, DecodeFails, Decode, Encoded, Normalized
    <3>2. Inputs' /\ BoundsAreSet'
      BY <3>1 DEF BoundsInv, Inputs, BoundsAreSet, Axes
    <3>3. QED
      BY <3>2 DEF BoundsInv
  <2>3. CASE UNCHANGED vars
    BY <2>3 DEF vars, BoundsInv, Inputs, BoundsAreSet, Axes, Normalized
  <2>4. QED
    BY <2>1, <2>2, <2>3 DEF Next
<1>2. QED
  BY InitBounds, <1>1, PTL DEF Spec

\* Python's meaning of basic indexing, along each axis of any array and for any
\* tuple of items: normalize_selection keeps exactly the indices that are meant.
THEOREM SelectionsKeepTheirMeaning == Spec => []BoundsMeanSelection
<1>1. BoundsInv => BoundsMeanSelection
  <2> SUFFICES ASSUME BoundsInv, Normalized
               PROVE  \A a \in Axes : \A i \in 0..(array.shape[a] - 1) :
                        (bounds[a][1] <= i /\ i < bounds[a][2])
                          <=> Meant(Expanded(selection, Len(array.shape))[a], array.shape[a], i)
    BY DEF BoundsMeanSelection
  <2>1. QED
    BY BoundsAre DEF BoundsInv
<1>2. QED
  BY BoundsInvariant, <1>1, PTL

-----------------------------------------------------------------------------
(* selected_units *)

\* The units of c indices that lo..(hi - 1) is given, and those it touches.
UnitSpan(lo, hi, c) == Span(IF hi > lo THEN <<lo \div c, CeilDiv(hi, c)>> ELSE <<0, 0>>)
Touches(lo, hi, c, x) == \E i \in lo..(hi - 1) : i \div c = x

LEMMA UnitSpanIsTouched ==
  ASSUME NEW lo \in Nat, NEW hi \in Nat, NEW c \in Nat \ {0}, NEW x
  PROVE  x \in UnitSpan(lo, hi, c) <=> Touches(lo, hi, c, x)
<1> USE DEF Touches
<1>1. lo \div c \in Int /\ CeilDiv(hi, c) \in Int
  BY DivIsGalois, CeilDivIsGalois
<1>2. x \in UnitSpan(lo, hi, c) <=> /\ hi > lo /\ x \in Int
                                    /\ lo \div c <= x /\ x < CeilDiv(hi, c)
  BY <1>1 DEF UnitSpan, Span
<1>3. ASSUME x \in UnitSpan(lo, hi, c) PROVE \E i \in lo..(hi - 1) : i \div c = x
  <2>1. PICK y \in Int : y = x
    BY <1>2, <1>3
  <2>2. hi > lo /\ lo \div c <= y /\ y < CeilDiv(hi, c)
    BY <1>2, <1>3, <2>1
  <2>3. PICK z \in Int : z = y * c
    OBVIOUS
  <2>4. z < hi
    BY <2>2, <2>3, CeilDivIsGalois
  <2>5. CASE z <= lo
    <3>1. y <= lo \div c
      BY <2>3, <2>5, DivIsGalois
    <3>2. lo \div c = y
      BY <1>1, <2>2, <3>1
    <3>3. QED
      BY <2>1, <2>2, <3>2
  <2>6. CASE z > lo
    <3>1. z \in lo..(hi - 1) /\ z < z + c
      BY <2>4, <2>6
    <3>2. z \div c = y
      BY <2>3, <3>1, DivIs
    <3>3. QED
      BY <2>1, <3>1, <3>2
  <2>7. QED
    BY <2>5, <2>6
<1>4. ASSUME NEW i \in lo..(hi - 1), i \div c = x PROVE x \in UnitSpan(lo, hi, c)
  <2>1. PICK y \in Int : y = x /\ y = i \div c
    BY <1>4, DivIsGalois
  <2>2. PICK z \in Int : z = y * c
    OBVIOUS
  <2>3. z <= i
    BY <2>1, <2>2, DivIsGalois
  <2>4. y < CeilDiv(hi, c)
    BY <2>2, <2>3, CeilDivIsGalois
  <2>5. PICK w \in Int : w = lo \div c
    BY <1>1
  <2>6. w * c <= lo /\ w * c \in Int
    BY <2>5, DivIsGalois
  <2>7. w <= i \div c
    BY <2>6, DivIsGalois
  <2>8. QED
    BY <1>2, <2>1, <2>4, <2>5, <2>7
<1>5. QED
  BY <1>3, <1>4

LEMMA UnitsAre ==
  ASSUME Inputs, BoundsAreSet, NEW u
  PROVE  u \in Units(bounds) <=>
           /\ u = [a \in Axes |-> u[a]]
           /\ \A a \in Axes : \E i \in bounds[a][1]..(bounds[a][2] - 1) : i \div array.inner[a] = u[a]
<1> DEFINE R == [a \in Axes |->
                   IF bounds[a][2] > bounds[a][1]
                   THEN <<bounds[a][1] \div array.inner[a], CeilDiv(bounds[a][2], array.inner[a])>>
                   ELSE <<0, 0>>]
<1>1. Units(bounds) = Points(R)
  BY DEF Units
<1>2. u \in Points(R) <=> u = [a \in DOMAIN R |-> u[a]] /\ \A a \in DOMAIN R : u[a] \in Span(R[a])
  BY PointsAre
<1>3. ASSUME NEW a \in Axes
      PROVE  u[a] \in Span(R[a])
               <=> \E i \in bounds[a][1]..(bounds[a][2] - 1) : i \div array.inner[a] = u[a]
  <2>1. bounds[a][1] \in Nat /\ bounds[a][2] \in Nat /\ array.inner[a] \in Nat \ {0}
    BY BoundsAre, ArrayIs DEF Inputs, Axes
  <2>2. Span(R[a]) = UnitSpan(bounds[a][1], bounds[a][2], array.inner[a])
    BY DEF UnitSpan
  <2>3. PICK lo \in Nat, hi \in Nat, c \in Nat \ {0} :
          lo = bounds[a][1] /\ hi = bounds[a][2] /\ c = array.inner[a]
    BY <2>1, Zenon
  <2> HIDE DEF R
  <2>4. u[a] \in UnitSpan(lo, hi, c) <=> Touches(lo, hi, c, u[a])
    BY UnitSpanIsTouched
  <2>5. QED
    BY <2>2, <2>3, <2>4 DEF Touches
<1>4. DOMAIN R = Axes
  OBVIOUS
<1> HIDE DEF R
<1>5. QED
  BY <1>1, <1>2, <1>3, <1>4

\* The bounds' own points.
LEMMA BoundsPointsAre ==
  ASSUME Inputs, BoundsAreSet, NEW p
  PROVE  p \in Points(bounds) <=>
           /\ p = [a \in Axes |-> p[a]]
           /\ \A a \in Axes : p[a] \in bounds[a][1]..(bounds[a][2] - 1)
  BY PointsAre, BoundsAre DEF Span

LEMMA UnitsAreTouched ==
  ASSUME Inputs, BoundsAreSet
  PROVE  Units(bounds) = {[a \in Axes |-> p[a] \div array.inner[a]] : p \in Points(bounds)}
<1>1. ASSUME NEW u \in Units(bounds)
      PROVE  \E p \in Points(bounds) : u = [a \in Axes |-> p[a] \div array.inner[a]]
  <2> DEFINE p == [a \in Axes |-> CHOOSE i \in bounds[a][1]..(bounds[a][2] - 1) : i \div array.inner[a] = u[a]]
  <2>1. \A a \in Axes : p[a] \in bounds[a][1]..(bounds[a][2] - 1) /\ p[a] \div array.inner[a] = u[a]
    BY UnitsAre
  <2>2. p = [a \in Axes |-> p[a]]
    OBVIOUS
  <2>3. u = [a \in Axes |-> u[a]]
    BY UnitsAre
  <2> HIDE DEF p
  <2>4. p \in Points(bounds)
    BY <2>1, <2>2, BoundsPointsAre
  <2>5. u = [a \in Axes |-> p[a] \div array.inner[a]]
    BY <2>1, <2>3
  <2>6. QED
    BY <2>4, <2>5
<1>2. ASSUME NEW p \in Points(bounds)
      PROVE  [a \in Axes |-> p[a] \div array.inner[a]] \in Units(bounds)
  <2> DEFINE u == [a \in Axes |-> p[a] \div array.inner[a]]
  <2>1. \A a \in Axes : p[a] \in bounds[a][1]..(bounds[a][2] - 1)
    BY BoundsPointsAre
  <2>2. u = [a \in Axes |-> u[a]]
    OBVIOUS
  <2>3. \A a \in Axes : \E i \in bounds[a][1]..(bounds[a][2] - 1) : i \div array.inner[a] = u[a]
    BY <2>1
  <2> HIDE DEF u
  <2>4. u \in Units(bounds)
    BY <2>2, <2>3, UnitsAre
  <2>5. QED
    BY <2>4 DEF u
<1>3. QED
  BY <1>1, <1>2

\* selected_units names the units that hold an element of the selection, and no
\* other, for any extents of array and chunks.
THEOREM UnitsAreSelected == Spec => []SelectsTouchedUnits
<1>1. BoundsInv => SelectsTouchedUnits
  BY UnitsAreTouched DEF BoundsInv, SelectsTouchedUnits
<1>2. QED
  BY BoundsInvariant, <1>1, PTL

-----------------------------------------------------------------------------
(* The requests *)

\* Units of one file that a request may read together.
IsGroup(g) == /\ g \subseteq Present(bounds) /\ g # {}
              /\ \A u, v \in g : FileOf(u) = FileOf(v)
IsFusion(P) == /\ \A g \in P : IsGroup(g)
               /\ \A u \in Present(bounds) : \E g \in P : u \in g
RequestsAreFused == \E P : IsFusion(P) /\ requests = {Window(g) : g \in P}

LEMMA EntryIs ==
  ASSUME Inputs, NEW u \in DOMAIN store.entry
  PROVE  /\ OffsetOf(u) \in Nat /\ UnitBytes(u) \in Nat
         /\ FileOf(u) \in DOMAIN store.size /\ store.size[FileOf(u)] \in Nat
         /\ OffsetOf(u) + UnitBytes(u) <= store.size[FileOf(u)]
<1>1. /\ store.size \in [DOMAIN store.size -> Nat]
      /\ store.entry \in [DOMAIN store.entry -> [offset : Nat, nbytes : Nat]]
  BY DEF Inputs, IsStore
<1>2. /\ FileIn(array, u) \in DOMAIN store.size
      /\ store.entry[u].offset + store.entry[u].nbytes <= store.size[FileIn(array, u)]
  BY DEF Inputs, IsStore
<1>3. QED
  BY <1>1, <1>2 DEF OffsetOf, UnitBytes, FileOf

LEMMA GroupsAre ==
  ASSUME NEW us, NEW starts
  PROVE  /\ \A g \in Groups(us, starts) : g \subseteq us /\ g # {}
         /\ \A u \in us : \E g \in Groups(us, starts) : u \in g
<1> DEFINE G(u) == {v \in us : \A s \in starts : OffsetOf(s) <= OffsetOf(u) <=> OffsetOf(s) <= OffsetOf(v)}
<1>1. \A u \in us : u \in G(u) /\ G(u) \subseteq us
  OBVIOUS
<1>2. Groups(us, starts) = {G(u) : u \in us}
  BY DEF Groups
<1> HIDE DEF G
<1>3. QED
  BY <1>1, <1>2

\* Whatever is fused, each unit on disk is a member of a request of its file.
LEMMA PlanFuses ==
  ASSUME NEW starts,
         requests' = UNION {{Window(g) : g \in Groups({u \in Present(bounds) : FileOf(u) = f}, starts)} :
                              f \in FilesOf(bounds)}
  PROVE  \E P : IsFusion(P) /\ requests' = {Window(g) : g \in P}
<1> DEFINE Us(f) == {u \in Present(bounds) : FileOf(u) = f}
           P == UNION {Groups(Us(f), starts) : f \in FilesOf(bounds)}
<1>1. \A g \in P : \E f \in FilesOf(bounds) : g \in Groups(Us(f), starts)
  OBVIOUS
<1>2. ASSUME NEW g \in P PROVE IsGroup(g)
  <2>1. PICK f \in FilesOf(bounds) : g \in Groups(Us(f), starts)
    BY <1>1
  <2>2. g \subseteq Us(f) /\ g # {}
    BY <2>1, GroupsAre
  <2>3. \A u \in Us(f) : u \in Present(bounds) /\ FileOf(u) = f
    OBVIOUS
  <2> HIDE DEF Us
  <2>4. QED
    BY <2>2, <2>3 DEF IsGroup
<1>3. ASSUME NEW u \in Present(bounds) PROVE \E g \in P : u \in g
  <2>1. FileOf(u) \in FilesOf(bounds) /\ u \in Us(FileOf(u))
    BY DEF FilesOf
  <2>2. PICK f : f = FileOf(u)
    OBVIOUS
  <2>3. u \in Us(f) /\ f \in FilesOf(bounds)
    BY <2>1, <2>2
  <2> HIDE DEF Us
  <2>4. PICK g \in Groups(Us(f), starts) : u \in g
    BY <2>3, GroupsAre
  <2>5. QED
    BY <2>3, <2>4
<1>4. requests' = {Window(g) : g \in P}
  <2>1. requests' = UNION {{Window(g) : g \in Groups(Us(f), starts)} : f \in FilesOf(bounds)}
    OBVIOUS
  <2> HIDE DEF Us
  <2>2. \A r : r \in requests' <=> \E f \in FilesOf(bounds) : \E g \in Groups(Us(f), starts) : r = Window(g)
    <3>1. PICK Q : Q = UNION {{Window(g) : g \in Groups(Us(f), starts)} : f \in FilesOf(bounds)}
      OBVIOUS
    <3>2. \A r : r \in Q <=> \E f \in FilesOf(bounds) : \E g \in Groups(Us(f), starts) : r = Window(g)
      BY <3>1
    <3>3. Q = requests'
      BY <2>1, <3>1
    <3>4. QED
      BY <3>2, <3>3
  <2>3. \A r : r \in {Window(g) : g \in P} <=> \E f \in FilesOf(bounds) : \E g \in Groups(Us(f), starts) : r = Window(g)
    OBVIOUS
  <2>4. QED
    BY <2>2, <2>3
<1>5. QED
  BY <1>2, <1>3, <1>4 DEF IsFusion

\* A request spans its members.
LEMMA WindowIs ==
  ASSUME Inputs, NEW g, IsGroup(g)
  PROVE  \E first \in Nat : \E last \in Nat :
           /\ first <= last
           /\ Window(g).offset = first /\ Window(g).nbytes = last - first
           /\ Window(g).members = Members(g, first)
           /\ Window(g).file \in DOMAIN store.size
           /\ \A u \in g : /\ FileOf(u) = Window(g).file
                           /\ first <= OffsetOf(u) /\ OffsetOf(u) + UnitBytes(u) <= last
<1> DEFINE F == {OffsetOf(u) : u \in g}
           L == {OffsetOf(u) + UnitBytes(u) : u \in g}
<1>1. \A u \in g : u \in DOMAIN store.entry
  BY DEF IsGroup, Present
<1>2. PICK w \in g : w = CHOOSE u \in g : TRUE
  BY DEF IsGroup
<1>3. /\ FileOf(w) \in DOMAIN store.size /\ store.size[FileOf(w)] \in Nat
      /\ \A u \in g : FileOf(u) = FileOf(w)
  BY <1>1, EntryIs DEF IsGroup
<1>4. \A u \in g : /\ OffsetOf(u) \in Nat /\ UnitBytes(u) \in Nat
                   /\ OffsetOf(u) + UnitBytes(u) <= store.size[FileOf(w)]
  BY <1>1, <1>3, EntryIs
<1>5. /\ F \subseteq Nat /\ F # {} /\ L \subseteq Nat /\ L # {}
      /\ \A x \in L : x <= store.size[FileOf(w)]
  BY <1>2, <1>4
<1>6. /\ \A u \in g : OffsetOf(u) \in F /\ OffsetOf(u) + UnitBytes(u) \in L
      /\ Window(g) = [file |-> FileOf(w), offset |-> Min(F), nbytes |-> Max(L) - Min(F),
                      members |-> Members(g, Min(F))]
  BY <1>2 DEF Window
<1> HIDE DEF F, L
<1>7. Min(F) \in Nat /\ \A x \in F : Min(F) <= x
  BY <1>5, LeastIn
<1>8. Max(L) \in Nat /\ \A x \in L : x <= Max(L)
  BY <1>3, <1>5, GreatestIn
<1>9. \A u \in g : Min(F) <= OffsetOf(u) /\ OffsetOf(u) + UnitBytes(u) <= Max(L)
  BY <1>6, <1>7, <1>8
<1>10. Min(F) <= Max(L)
  <2>1. OffsetOf(w) \in Nat /\ UnitBytes(w) \in Nat
    BY <1>4
  <2>2. Min(F) <= OffsetOf(w) /\ OffsetOf(w) + UnitBytes(w) <= Max(L)
    BY <1>9
  <2>3. Min(F) \in Nat /\ Max(L) \in Nat
    BY <1>7, <1>8
  <2>4. QED
    BY <2>1, <2>2, <2>3
<1>11. QED
  BY <1>3, <1>6, <1>7, <1>8, <1>9, <1>10

-----------------------------------------------------------------------------
(* The bytes read *)

\* Every request was read in full, and its buffer holds what its file holds there.
BuffersAreRead ==
  \A r \in requests : /\ ~Unreadable(r)
                      /\ buffers[r] = [k \in 1..r.nbytes |-> Byte(r.file, r.offset + k)]

\* The encoded bytes of a unit.
BytesOf(u) == [k \in 1..UnitBytes(u) |-> <<u, k>>]

\* The units of a file do not overlap.
LEMMA ByteIs ==
  ASSUME Inputs, NEW u \in DOMAIN store.entry, NEW k \in 1..UnitBytes(u)
  PROVE  Byte(FileOf(u), OffsetOf(u) + k) = <<u, k>>
<1> DEFINE p == OffsetOf(u) + k
           here == {v \in InFile(FileOf(u)) : OffsetOf(v) < p /\ p <= OffsetOf(v) + UnitBytes(v)}
<1>1. OffsetOf(u) \in Nat /\ UnitBytes(u) \in Nat
  BY EntryIs
<1>2. u \in here
  BY <1>1 DEF InFile
<1>3. ASSUME NEW v \in here, v # u PROVE FALSE
  <2>1. v \in DOMAIN store.entry /\ FileOf(v) = FileOf(u)
    BY DEF InFile
  <2>2. OffsetOf(v) \in Nat /\ UnitBytes(v) \in Nat
    BY <2>1, EntryIs
  <2>3. OffsetOf(v) < OffsetOf(u) + k /\ OffsetOf(u) + k <= OffsetOf(v) + UnitBytes(v)
    OBVIOUS
  <2>4. Apart(store.entry[u], store.entry[v])
    BY <1>3, <2>1 DEF Inputs, IsStore, FileOf
  <2>5. \/ OffsetOf(u) + UnitBytes(u) <= OffsetOf(v)
        \/ OffsetOf(v) + UnitBytes(v) <= OffsetOf(u)
    BY <2>4 DEF Apart, OffsetOf, UnitBytes
  <2>6. QED
    BY <1>1, <2>2, <2>3, <2>5
<1>4. here = {u}
  BY <1>2, <1>3
<1>5. p - OffsetOf(u) = k
  BY <1>1
<1>6. Byte(FileOf(u), p) = IF here = {} THEN <<"gap">>
                           ELSE <<CHOOSE v \in here : TRUE, p - OffsetOf(CHOOSE v \in here : TRUE)>>
  BY DEF Byte
<1> HIDE DEF here, p
<1>7. (CHOOSE v \in here : TRUE) = u
  BY <1>4
<1>8. Byte(FileOf(u), p) = <<u, k>>
  BY <1>4, <1>5, <1>6, <1>7
<1>9. QED
  BY <1>8 DEF p

LEMMA SubSeqIs ==
  ASSUME NEW n \in Nat, NEW buf, buf = [k \in 1..n |-> buf[k]],
         NEW i \in Nat, NEW l \in Nat, i + l <= n
  PROVE  SubSeq(buf, i + 1, i + l) = [k \in 1..l |-> buf[i + k]]
<1> DEFINE S == {buf[k] : k \in 1..n}
<1>1. buf \in Seq(S) /\ Len(buf) = n
  OBVIOUS
<1> HIDE DEF S
<1>2. PICK b \in Seq(S) : b = buf
  BY <1>1
<1>3. i + l <= Len(b)
  BY <1>1, <1>2
<1>4. SubSeq(b, i + 1, i + l) = [k \in 1..l |-> b[i + k]]
  BY <1>3, SliceOfSeq
<1>5. QED
  BY <1>2, <1>4

\* The slice of a member is its unit's bytes.
LEMMA SliceIsUnit ==
  ASSUME Inputs, NEW g, IsGroup(g), NEW u \in g, NEW r, r = Window(g),
         buffers[r] = [k \in 1..r.nbytes |-> Byte(r.file, r.offset + k)]
  PROVE  /\ OffsetOf(u) - r.offset \in Nat
         /\ SubSeq(buffers[r], OffsetOf(u) - r.offset + 1, OffsetOf(u) - r.offset + UnitBytes(u)) = BytesOf(u)
<1>1. PICK first \in Nat : \E last \in Nat :
           /\ first <= last /\ r.offset = first /\ r.nbytes = last - first
           /\ FileOf(u) = r.file
           /\ first <= OffsetOf(u) /\ OffsetOf(u) + UnitBytes(u) <= last
  BY WindowIs
<1>2. PICK last \in Nat :
           /\ first <= last /\ r.offset = first /\ r.nbytes = last - first
           /\ FileOf(u) = r.file
           /\ first <= OffsetOf(u) /\ OffsetOf(u) + UnitBytes(u) <= last
  BY <1>1
<1>3. u \in DOMAIN store.entry
  BY DEF IsGroup, Present
<1>4. OffsetOf(u) \in Nat /\ UnitBytes(u) \in Nat
  BY <1>3, EntryIs
<1>5. PICK i, l, n, buf : /\ i = OffsetOf(u) - first /\ l = UnitBytes(u) /\ n = last - first
                          /\ buf = buffers[r]
  OBVIOUS
<1>6. i \in Nat /\ l \in Nat /\ n \in Nat /\ i + l <= n
  BY <1>2, <1>4, <1>5
<1>7. buf = [k \in 1..n |-> Byte(r.file, r.offset + k)]
  BY <1>2, <1>5
<1>8. buf = [k \in 1..n |-> buf[k]]
  BY <1>7
<1>9. SubSeq(buf, i + 1, i + l) = [k \in 1..l |-> buf[i + k]]
  BY <1>6, <1>8, SubSeqIs
<1>10. ASSUME NEW k \in 1..l PROVE buf[i + k] = <<u, k>>
  <2>1. i + k \in 1..n
    BY <1>6
  <2>2. r.offset + (i + k) = OffsetOf(u) + k
    BY <1>2, <1>4, <1>5
  <2>3. Byte(FileOf(u), OffsetOf(u) + k) = <<u, k>>
    BY <1>3, <1>5, ByteIs
  <2>4. QED
    BY <1>2, <1>7, <2>1, <2>2, <2>3
<1>11. [k \in 1..l |-> buf[i + k]] = BytesOf(u)
  BY <1>5, <1>10 DEF BytesOf
<1>12. QED
  BY <1>2, <1>5, <1>6, <1>9, <1>11

Piece(u) == [unit |-> u, bytes |-> BytesOf(u)]

\* The payloads are the units on disk, each with its own bytes.
LEMMA PayloadsArePieces ==
  ASSUME Inputs, RequestsAreFused, BuffersAreRead
  PROVE  Payloads = {Piece(u) : u \in Present(bounds)}
<1>1. PICK P : IsFusion(P) /\ requests = {Window(g) : g \in P}
  BY DEF RequestsAreFused
<1> DEFINE Slice(r, m) == [unit |-> m.unit, bytes |-> SubSeq(buffers[r], m.intra + 1, m.intra + m.length)]
           Of(r, u) == [unit |-> u, intra |-> OffsetOf(u) - r.offset, length |-> UnitBytes(u)]
<1>2. ASSUME NEW g \in P
      PROVE  /\ Window(g) \in requests /\ Window(g).members = {Of(Window(g), u) : u \in g}
             /\ \A u \in g : Slice(Window(g), Of(Window(g), u)) = Piece(u)
  <2>1. IsGroup(g) /\ Window(g) \in requests
    BY <1>1 DEF IsFusion
  <2>2. PICK first \in Nat : Window(g).offset = first /\ Window(g).members = Members(g, first)
    BY <2>1, WindowIs
  <2>3. Window(g).members = {Of(Window(g), u) : u \in g}
    BY <2>2 DEF Members
  <2>4. ASSUME NEW u \in g PROVE Slice(Window(g), Of(Window(g), u)) = Piece(u)
    <3>1. PICK r : r = Window(g)
      OBVIOUS
    <3>2. buffers[r] = [k \in 1..r.nbytes |-> Byte(r.file, r.offset + k)]
      BY <2>1, <3>1 DEF BuffersAreRead
    <3>3. SubSeq(buffers[r], OffsetOf(u) - r.offset + 1, OffsetOf(u) - r.offset + UnitBytes(u)) = BytesOf(u)
      BY <2>1, <3>1, <3>2, SliceIsUnit
    <3>4. QED
      BY <3>1, <3>3 DEF Piece
  <2>5. QED
    BY <2>1, <2>3, <2>4
<1>3. \A x : x \in Payloads <=> \E r \in requests : \E m \in r.members : x = Slice(r, m)
  BY DEF Payloads
<1> HIDE DEF Slice, Of
<1>4. ASSUME NEW x \in Payloads PROVE \E u \in Present(bounds) : x = Piece(u)
  <2>1. PICK r \in requests : \E m \in r.members : x = Slice(r, m)
    BY <1>3
  <2>2. PICK g \in P : r = Window(g)
    BY <1>1
  <2>3. PICK u \in g : x = Slice(r, Of(r, u))
    BY <1>2, <2>1, <2>2
  <2>4. x = Piece(u)
    BY <1>2, <2>2, <2>3
  <2>5. u \in Present(bounds)
    BY <1>1 DEF IsFusion, IsGroup
  <2>6. QED
    BY <2>4, <2>5
<1>5. ASSUME NEW u \in Present(bounds) PROVE Piece(u) \in Payloads
  <2>1. PICK g \in P : u \in g
    BY <1>1 DEF IsFusion
  <2>2. Piece(u) = Slice(Window(g), Of(Window(g), u)) /\ Of(Window(g), u) \in Window(g).members
    BY <1>2, <2>1
  <2>3. QED
    BY <1>2, <1>3, <2>1, <2>2
<1>6. QED
  BY <1>4, <1>5

-----------------------------------------------------------------------------
(* How many units there are *)

\* Finitely many sequences of a given length.
LEMMA FunctionsAreFinite ==
  ASSUME NEW S, IsFiniteSet(S), NEW n \in Nat
  PROVE  IsFiniteSet([1..n -> S])
<1> DEFINE T == {m \in Nat : IsFiniteSet([1..m -> S])}
<1>1. 0 \in T
  <2>1. PICK e : e = [k \in 1..0 |-> k]
    OBVIOUS
  <2>2. e \in [1..0 -> S] /\ \A g \in [1..0 -> S] : g = e
    BY <2>1
  <2>3. [1..0 -> S] = {e}
    BY <2>2, Zenon
  <2>4. IsFiniteSet({e})
    BY FS_Singleton, Zenon
  <2>5. QED
    BY <2>3, <2>4
<1>2. ASSUME NEW m \in Nat, m \in T PROVE m + 1 \in T
  <2> DEFINE A == [1..m -> S] \X S
             B == [1..(m + 1) -> S]
             f == [x \in A |-> [k \in 1..(m + 1) |-> IF k = m + 1 THEN x[2] ELSE x[1][k]]]
  <2>1. IsFiniteSet(A)
    BY <1>2, FS_Product
  <2>2. ASSUME NEW x \in A PROVE f[x] \in B
    <3>1. \A k \in 1..(m + 1) : k # m + 1 => k \in 1..m
      OBVIOUS
    <3>2. QED
      BY <3>1
  <2>3. ASSUME NEW g \in B PROVE \E x \in A : f[x] = g
    <3>1. PICK h \in [1..m -> S] : \A k \in 1..m : h[k] = g[k]
      <4>1. [k \in 1..m |-> g[k]] \in [1..m -> S]
        OBVIOUS
      <4>2. QED
        BY <4>1
    <3>2. <<h, g[m + 1]>> \in A
      OBVIOUS
    <3>3. \A k \in 1..(m + 1) : k # m + 1 => k \in 1..m
      OBVIOUS
    <3>4. f[<<h, g[m + 1]>>] = [k \in 1..(m + 1) |-> IF k = m + 1 THEN g[m + 1] ELSE h[k]]
      BY <3>2
    <3>5. g = [k \in 1..(m + 1) |-> g[k]]
      OBVIOUS
    <3>6. f[<<h, g[m + 1]>>] = g
      BY <3>1, <3>3, <3>4, <3>5
    <3>7. QED
      BY <3>2, <3>6
  <2>4. f \in [A -> B]
    BY <2>2
  <2> HIDE DEF f, A, B
  <2>5. f \in Surjection(A, B)
    BY <2>3, <2>4 DEF Surjection
  <2>6. IsFiniteSet(B)
    BY <2>1, <2>5, FS_Surjection
  <2>7. QED
    BY <2>6 DEF B
<1>3. Nat \subseteq T
  <2> HIDE DEF T
  <2>1. QED
    BY <1>1, <1>2, NatSetInduction
<1>4. QED
  BY <1>3

LEMMA PointsAreFinite ==
  ASSUME NEW n \in Nat, NEW ranges, DOMAIN ranges = 1..n,
         \A a \in 1..n : ranges[a][1] \in Int /\ ranges[a][2] \in Int
  PROVE  IsFiniteSet(Points(ranges))
<1> DEFINE Spans == {Span(ranges[a]) : a \in 1..n}
           f == [a \in 1..n |-> Span(ranges[a])]
<1>1. f \in Surjection(1..n, Spans)
  BY DEF Surjection
<1>2. IsFiniteSet(1..n)
  BY FS_Interval
<1>3. IsFiniteSet(Spans)
  <2> HIDE DEF f, Spans
  <2>1. QED
    BY <1>1, <1>2, FS_Surjection
<1>4. \A a \in 1..n : IsFiniteSet(Span(ranges[a]))
  <2>1. SUFFICES ASSUME NEW a \in 1..n PROVE IsFiniteSet(Span(ranges[a]))
    OBVIOUS
  <2>2. PICK x \in Int, y \in Int : x = ranges[a][1] /\ y = ranges[a][2] - 1
    OBVIOUS
  <2>3. IsFiniteSet(x..y)
    BY FS_Interval
  <2>4. QED
    BY <2>2, <2>3 DEF Span
<1>5. IsFiniteSet(UNION Spans)
  <2>1. \A X \in Spans : IsFiniteSet(X)
    BY <1>4
  <2> HIDE DEF Spans
  <2>2. QED
    BY <1>3, <2>1, FS_UNION
<1>6. IsFiniteSet([1..n -> UNION Spans])
  <2> HIDE DEF Spans
  <2>1. QED
    BY <1>5, FunctionsAreFinite
<1>7. Points(ranges) \in SUBSET [1..n -> UNION Spans]
  BY DEF Points
<1> HIDE DEF Spans
<1>8. QED
  BY <1>6, <1>7, FS_Subset

LEMMA UnitsAreFinite ==
  ASSUME Inputs, BoundsAreSet
  PROVE  IsFiniteSet(Units(bounds))
<1> DEFINE R == [a \in Axes |->
                   IF bounds[a][2] > bounds[a][1]
                   THEN <<bounds[a][1] \div array.inner[a], CeilDiv(bounds[a][2], array.inner[a])>>
                   ELSE <<0, 0>>]
<1>1. Units(bounds) = Points(R)
  BY DEF Units
<1>2. Len(array.shape) \in Nat
  BY ArrayIs DEF Inputs
<1>3. ASSUME NEW a \in 1..Len(array.shape) PROVE R[a][1] \in Int /\ R[a][2] \in Int
  <2>1. bounds[a][1] \in Nat /\ bounds[a][2] \in Nat /\ array.inner[a] \in Nat \ {0}
    BY BoundsAre, ArrayIs DEF Inputs, Axes
  <2>2. bounds[a][1] \div array.inner[a] \in Int
    BY <2>1, DivIsGalois
  <2>3. CeilDiv(bounds[a][2], array.inner[a]) \in Int
    <3>1. \A x \in Nat, c \in Nat \ {0} : CeilDiv(x, c) \in Int
      BY CeilDivIsGalois
    <3>2. QED
      BY <2>1, <3>1
  <2>4. QED
    BY <2>2, <2>3 DEF Axes
<1>4. DOMAIN R = 1..Len(array.shape)
  BY DEF Axes
<1> HIDE DEF R
<1>5. QED
  BY <1>1, <1>2, <1>3, <1>4, PointsAreFinite

\* A unit that is selected and not on disk makes the counts differ.
LEMMA MissingUnitIsCounted ==
  ASSUME Inputs, BoundsAreSet, NEW u \in Units(bounds), u \notin DOMAIN store.entry
  PROVE  Cardinality({Piece(v) : v \in Present(bounds)}) < Cardinality(Units(bounds))
<1> DEFINE Pieces == {Piece(v) : v \in Present(bounds)}
           f == [v \in Present(bounds) |-> Piece(v)]
<1>1. Present(bounds) \in SUBSET Units(bounds) /\ Present(bounds) # Units(bounds)
  BY DEF Present
<1>2. IsFiniteSet(Units(bounds)) /\ Cardinality(Units(bounds)) \in Nat
  BY UnitsAreFinite, FS_CardinalityType
<1>3. /\ IsFiniteSet(Present(bounds)) /\ Cardinality(Present(bounds)) \in Nat
      /\ Cardinality(Present(bounds)) < Cardinality(Units(bounds))
  <2>1. /\ IsFiniteSet(Present(bounds)) /\ Cardinality(Present(bounds)) <= Cardinality(Units(bounds))
        /\ Cardinality(Present(bounds)) # Cardinality(Units(bounds))
    BY <1>1, <1>2, FS_Subset
  <2>2. Cardinality(Present(bounds)) \in Nat
    BY <2>1, FS_CardinalityType
  <2>3. QED
    BY <1>2, <2>1, <2>2
<1>4. f \in Surjection(Present(bounds), Pieces)
  BY DEF Surjection
<1> HIDE DEF f, Pieces
<1>5. IsFiniteSet(Pieces) /\ Cardinality(Pieces) <= Cardinality(Present(bounds))
  BY <1>3, <1>4, FS_Surjection
<1>6. Cardinality(Pieces) \in Nat
  BY <1>5, FS_CardinalityType
<1>7. QED
  BY <1>2, <1>3, <1>5, <1>6 DEF Pieces

-----------------------------------------------------------------------------
(* decode *)

\* Where position q of the result is in the array, and the unit that holds it.
Place(q) == [a \in Axes |-> bounds[a][1] + q[a]]
Home(q)  == [a \in Axes |-> Place(q)[a] \div array.inner[a]]

LEMMA PlaceIs ==
  ASSUME Inputs, BoundsAreSet, NEW q \in OutPoints
  PROVE  /\ \A a \in Axes : q[a] \in Nat /\ Place(q)[a] \in bounds[a][1]..(bounds[a][2] - 1)
         /\ Home(q) \in Units(bounds)
<1>1. ASSUME NEW a \in Axes
      PROVE  q[a] \in Nat /\ Place(q)[a] \in bounds[a][1]..(bounds[a][2] - 1)
  <2>1. q[a] \in Span(<<0, bounds[a][2] - bounds[a][1]>>)
    BY PointsAre DEF OutPoints
  <2>2. bounds[a][1] \in Nat /\ bounds[a][2] \in Nat
    BY BoundsAre
  <2>3. QED
    BY <2>1, <2>2 DEF Place, Span
<1>2. Home(q) = [a \in Axes |-> Home(q)[a]]
  BY DEF Home
<1>3. \A a \in Axes : \E i \in bounds[a][1]..(bounds[a][2] - 1) : i \div array.inner[a] = Home(q)[a]
  BY <1>1 DEF Home
<1>4. QED
  BY <1>1, <1>2, <1>3, UnitsAre

\* _intersect maps the positions of a unit to their places in it.
LEMMA IntersectIs ==
  ASSUME Inputs, BoundsAreSet, NEW u \in Units(bounds), NEW q \in OutPoints, NEW a \in Axes
  PROVE  /\ Intersect(u, a).dst[1] <= q[a] /\ q[a] < Intersect(u, a).dst[2] <=> u[a] = Home(q)[a]
         /\ u[a] = Home(q)[a] =>
              Intersect(u, a).src[1] + q[a] - Intersect(u, a).dst[1] = Place(q)[a] % array.inner[a]
<1>1. /\ bounds[a][1] \in Nat /\ bounds[a][2] \in Nat /\ array.inner[a] \in Nat \ {0}
      /\ q[a] \in Nat
  BY BoundsAre, PlaceIs, ArrayIs DEF Inputs, Axes
<1>2. PICK lo \in Nat, hi \in Nat, c \in Nat \ {0}, n \in Nat :
        lo = bounds[a][1] /\ hi = bounds[a][2] /\ c = array.inner[a] /\ n = q[a]
  BY <1>1
<1>3. u[a] \in Int
  <2>1. PICK i \in lo..(hi - 1) : i \div c = u[a]
    BY <1>2, UnitsAre
  <2>2. \A x \in Int : x \div c \in Int
    OBVIOUS
  <2>3. QED
    BY <2>1, <2>2
<1>4. PICK v \in Int : v = u[a]
  BY <1>3
<1>5. PICK x \in Int : x = v * c
  OBVIOUS
<1>6. PICK p \in lo..(hi - 1) : p = lo + n /\ p = Place(q)[a]
  BY <1>2, PlaceIs DEF Place
<1>7. Intersect(u, a) = [src |-> <<AtLeast(x, lo) - x, AtMost(x + c, hi) - x>>,
                         dst |-> <<AtLeast(x, lo) - lo, AtMost(x + c, hi) - lo>>]
  BY <1>2, <1>4, <1>5 DEF Intersect, Lo
<1>8. AtLeast(x, lo) - lo <= n /\ n < AtMost(x + c, hi) - lo <=> x <= p /\ p < x + c
  BY <1>6 DEF AtLeast, AtMost
<1>9. x <= p /\ p < x + c <=> p \div c = v
  BY <1>5, DivIs
<1>10. Home(q)[a] = p \div c
  BY <1>2, <1>6 DEF Home
<1>11. AtLeast(x, lo) - x + n - (AtLeast(x, lo) - lo) = p - x
  BY <1>6 DEF AtLeast
<1>12. ASSUME p \div c = v PROVE p % c = p - x
  <2>1. p % c = p - (p \div c) * c
    BY DivIs
  <2>2. (p \div c) * c = x
    BY <1>5, <1>12
  <2>3. QED
    BY <2>1, <2>2
<1>13. QED
  BY <1>2, <1>4, <1>6, <1>7, <1>8, <1>9, <1>10, <1>11, <1>12

LEMMA WritersAre ==
  ASSUME Inputs, BoundsAreSet, Payloads = {Piece(u) : u \in Present(bounds)}, NEW q \in OutPoints
  PROVE  Writers(q) = IF Home(q) \in DOMAIN store.entry THEN {Piece(Home(q))} ELSE {}
<1>1. ASSUME NEW u \in Present(bounds)
      PROVE  Piece(u) \in Writers(q) <=> u = Home(q)
  <2>1. u \in Units(bounds) /\ Piece(u).unit = u /\ Piece(u) \in Payloads
    BY DEF Present, Piece
  <2>2. Piece(u) \in Writers(q) <=>
          \A a \in Axes : Intersect(u, a).dst[1] <= q[a] /\ q[a] < Intersect(u, a).dst[2]
    BY <2>1 DEF Writers
  <2>3. Piece(u) \in Writers(q) <=> \A a \in Axes : u[a] = Home(q)[a]
    BY <2>1, <2>2, IntersectIs
  <2>4. u = [a \in Axes |-> u[a]] /\ Home(q) = [a \in Axes |-> Home(q)[a]]
    BY <2>1, UnitsAre DEF Home
  <2>5. QED
    BY <2>3, <2>4
<1>2. \A p \in Writers(q) : \E u \in Present(bounds) : p = Piece(u)
  BY DEF Writers
<1>3. Home(q) \in Present(bounds) <=> Home(q) \in DOMAIN store.entry
  BY PlaceIs DEF Present
<1>4. QED
  BY <1>1, <1>2, <1>3

\* A unit of the right size is decoded to its own elements.
LEMMA ElementIs ==
  ASSUME NEW u \in DOMAIN store.entry, UnitBytes(u) = ChunkBytes, NEW where
  PROVE  Element(Piece(u), where) = <<u, where>>
<1>1. Piece(u).bytes = Whole(u)
  BY DEF Piece, BytesOf, Whole
<1>2. ASSUME NEW v, Whole(u) = Whole(v) PROVE v = u
  <2>1. 1 \in 1..ChunkBytes
    BY ChunkBytesAssumption
  <2>2. Whole(u)[1] = <<u, 1>> /\ Whole(v)[1] = <<v, 1>>
    BY <2>1 DEF Whole
  <2>3. QED
    BY <1>2, <2>2
<1>3. (CHOOSE v \in DOMAIN store.entry : Piece(u).bytes = Whole(v)) = u
  BY <1>1, <1>2
<1>4. QED
  BY <1>1, <1>3 DEF Element

LEMMA ResultIsReference ==
  ASSUME Inputs, BoundsAreSet, Payloads = {Piece(u) : u \in Present(bounds)},
         \A u \in Present(bounds) : UnitBytes(u) = ChunkBytes, NEW q \in OutPoints
  PROVE  (IF Writers(q) = {} THEN Blank
          ELSE LET p == CHOOSE p \in Writers(q) : TRUE
               IN  Element(p, [a \in Axes |-> LET i == Intersect(p.unit, a)
                                              IN  i.src[1] + q[a] - i.dst[1]])) = Reference(q)
<1>1. Home(q) \in Units(bounds)
  BY PlaceIs
<1>2. CASE Home(q) \notin DOMAIN store.entry
  <2>1. Writers(q) = {}
    BY <1>2, WritersAre
  <2>2. Cardinality(Payloads) < Cardinality(Units(bounds))
    BY <1>1, <1>2, MissingUnitIsCounted
  <2>3. Blank = <<"fill">>
    BY <2>2 DEF Blank, NeedsFill
  <2>4. Reference(q) = <<"fill">>
    BY <1>2 DEF Reference, Home, Place
  <2>5. QED
    BY <2>1, <2>3, <2>4
<1>3. CASE Home(q) \in DOMAIN store.entry
  <2>1. Writers(q) = {Piece(Home(q))}
    BY <1>3, WritersAre
  <2>2. (CHOOSE p \in Writers(q) : TRUE) = Piece(Home(q)) /\ Writers(q) # {}
    BY <2>1
  <2> DEFINE where == [a \in Axes |-> LET i == Intersect(Home(q), a) IN i.src[1] + q[a] - i.dst[1]]
  <2>3. where = [a \in Axes |-> Place(q)[a] % array.inner[a]]
    BY <1>1, IntersectIs
  <2>4. UnitBytes(Home(q)) = ChunkBytes
    BY <1>1, <1>3 DEF Present
  <2>5. Element(Piece(Home(q)), where) = <<Home(q), where>>
    BY <1>3, <2>4, ElementIs
  <2>6. Reference(q) = <<Home(q), [a \in Axes |-> Place(q)[a] % array.inner[a]]>>
    BY <1>3 DEF Reference, Home, Place
  <2>7. Piece(Home(q)).unit = Home(q)
    BY DEF Piece
  <2>8. QED
    BY <2>2, <2>3, <2>5, <2>6, <2>7
<1>4. QED
  BY <1>2, <1>3

-----------------------------------------------------------------------------
(* A chunk's own box *)

LEMMA ChunkBoxIsExpanded ==
  ASSUME NEW A, IsArray(A), NEW c \in GridPoints(A)
  PROVE  Expanded(ChunkBox(A, c), Len(A.shape)) = ChunkBox(A, c)
<1> DEFINE n == Len(A.shape)
           box == ChunkBox(A, c)
           Any == {box[k] : k \in 1..n}
<1>1. n \in Nat
  BY ArrayIs
<1>2. DOMAIN box = 1..n /\ box = [k \in 1..n |-> box[k]] /\ \A k \in 1..n : box[k].kind \in {"slice", "outside"}
  BY DEF ChunkBox
<1>3. Ellipses(box) = {}
  BY <1>2 DEF Ellipses
<1> HIDE DEF box, n
<1>4. box \in Seq(Any) /\ Len(box) = n
  BY <1>1, <1>2
<1>5. Fulls(n - Len(box)) = <<>>
  <2>1. n - Len(box) = 0
    BY <1>1, <1>4
  <2>2. 1..0 = {}
    OBVIOUS
  <2>3. QED
    BY <2>1, <2>2 DEF Fulls
<1>6. box \o <<>> = box
  <2> HIDE DEF Any
  <2>1. QED
    BY <1>4
<1>7. QED
  BY <1>3, <1>5, <1>6 DEF Expanded, box, n

LEMMA ChunkBoxSelectsOneUnit ==
  ASSUME Inputs, BoundsAreSet, NEW c \in GridPoints(array), selection = ChunkBox(array, c)
  PROVE  Units(bounds) = {c}
<1>1. c = [a \in Axes |-> c[a]]
  BY PointsAre DEF GridPoints, Axes
<1>2. ASSUME NEW a \in Axes
      PROVE  \A v : (\E i \in bounds[a][1]..(bounds[a][2] - 1) : i \div array.inner[a] = v) <=> v = c[a]
  <2>1. array.shape[a] \in Nat /\ array.inner[a] \in Nat \ {0}
    BY ArrayIs DEF Inputs, Axes
  <2>2. PICK dim \in Nat, w \in Nat \ {0} : dim = array.shape[a] /\ w = array.inner[a]
    BY <2>1
  <2>3. c[a] \in 0..(CeilDiv(dim, w) - 1)
    <3>1. c[a] \in 0..(GridShape(array)[a] - 1)
      BY PointsAre DEF GridPoints, Span, Axes
    <3>2. QED
      BY <2>2, <3>1 DEF GridShape, Axes
  <2>4. CeilDiv(dim, w) \in Int
    <3>1. \A x \in Nat, y \in Nat \ {0} : CeilDiv(x, y) \in Int
      BY CeilDivIsGalois
    <3>2. QED
      BY <3>1
  <2>5. PICK k \in Nat : k = c[a] /\ k < CeilDiv(dim, w)
    BY <2>3, <2>4
  <2>6. PICK x \in Nat : x = k * w /\ (k + 1) * w = x + w
    <3>1. k * w \in Nat /\ (k + 1) * w = k * w + w
      OBVIOUS
    <3>2. QED
      BY <3>1
  <2>7. x < dim
    BY <2>5, <2>6, CeilDivIsGalois
  <2>8. PICK y \in Nat : y = AtMost(x + w, dim) /\ x < y /\ y <= dim /\ y <= x + w
    BY <2>7 DEF AtMost
  <2>9. ChunkBox(array, c)[a] = [kind |-> "slice", start |-> <<x>>, stop |-> <<y>>]
    BY <2>2, <2>3, <2>5, <2>6, <2>8 DEF ChunkBox, GridShape, Axes
  <2>10. Clamped(x, dim) = x /\ Clamped(y, dim) = y /\ AtLeast(x, y) = y
    BY <2>7, <2>8 DEF Clamped, AtMost, AtLeast
  <2>11. AxisBounds(ChunkBox(array, c)[a], dim) = <<x, y>>
    BY <2>9, <2>10 DEF AxisBounds
  <2>12. bounds[a] = <<x, y>>
    <3>1. Expanded(selection, Len(array.shape)) = ChunkBox(array, c)
      BY ChunkBoxIsExpanded DEF Inputs
    <3>2. QED
      BY <2>2, <2>11, <3>1 DEF BoundsAreSet
  <2>13. ASSUME NEW i \in x..(y - 1) PROVE i \div w = k
    <3>1. i \in Int /\ k \in Int /\ k * w <= i /\ i < k * w + w
      BY <2>6, <2>8
    <3>2. QED
      BY <3>1, DivIs
  <2>14. x \in x..(y - 1)
    BY <2>8
  <2>15. QED
    BY <2>2, <2>5, <2>12, <2>13, <2>14
<1>3. \A u : u \in Units(bounds) <=> u = [a \in Axes |-> u[a]] /\ \A a \in Axes : u[a] = c[a]
  BY <1>2, UnitsAre
<1>4. QED
  BY <1>1, <1>3

\* It is read by one request with one member, or by none.
LEMMA EncodedChunkIsOneSlice ==
  ASSUME Inputs, BoundsAreSet, RequestsAreFused, BuffersAreRead,
         NEW c, Units(bounds) = {c}
  PROVE  IF c \in DOMAIN store.entry
         THEN \E r, m : requests = {r} /\ r.members = {m} /\ EncodedSlice(r, m) = BytesOf(c)
         ELSE requests = {}
<1>1. PICK P : IsFusion(P) /\ requests = {Window(g) : g \in P}
  BY DEF RequestsAreFused
<1>2. CASE c \notin DOMAIN store.entry
  <2>1. Present(bounds) = {}
    BY <1>2 DEF Present
  <2>2. P = {}
    BY <1>1, <2>1 DEF IsFusion, IsGroup
  <2>3. QED
    BY <1>1, <1>2, <2>2
<1>3. CASE c \in DOMAIN store.entry
  <2>1. Present(bounds) = {c}
    BY <1>3 DEF Present
  <2>2. \A g \in P : g = {c}
    BY <1>1, <2>1 DEF IsFusion, IsGroup
  <2>3. {c} \in P
    BY <1>1, <2>1, <2>2 DEF IsFusion
  <2>4. PICK r : r = Window({c})
    OBVIOUS
  <2>5. requests = {r}
    BY <1>1, <2>2, <2>3, <2>4
  <2>6. IsGroup({c})
    BY <1>1, <2>3 DEF IsFusion
  <2>7. PICK first \in Nat : r.offset = first /\ r.members = Members({c}, first)
    BY <2>4, <2>6, WindowIs
  <2>8. PICK m : m = [unit |-> c, intra |-> OffsetOf(c) - first, length |-> UnitBytes(c)]
    OBVIOUS
  <2>9. r.members = {m}
    BY <2>7, <2>8 DEF Members
  <2>10. buffers[r] = [k \in 1..r.nbytes |-> Byte(r.file, r.offset + k)]
    BY <2>5 DEF BuffersAreRead
  <2>11. SubSeq(buffers[r], OffsetOf(c) - r.offset + 1, OffsetOf(c) - r.offset + UnitBytes(c)) = BytesOf(c)
    BY <2>4, <2>6, <2>10, SliceIsUnit
  <2>12. EncodedSlice(r, m) = BytesOf(c)
    BY <2>7, <2>8, <2>11 DEF EncodedSlice
  <2>13. QED
    BY <1>3, <2>5, <2>9, <2>12
<1>4. QED
  BY <1>2, <1>3

-----------------------------------------------------------------------------
(* The reads *)

Planned == {"read", "decode", "OSError", "ValueError", "done", "encoded"}

ReadInv ==
  /\ BoundsInv
  /\ left \in [DOMAIN store.size -> Int]
  /\ pc \in Planned => RequestsAreFused
  /\ pc \in Planned \ {"read", "OSError"} => BuffersAreRead
  /\ ReadsAreExact /\ FailsWhenDamaged

\* What the operators of a plan are made of.
LEMMA Frozen ==
  ASSUME UNCHANGED <<array, store, selection, bounds>>
  PROVE  /\ Inputs' <=> Inputs
         /\ BoundsAreSet' <=> BoundsAreSet
         /\ Units(bounds)' = Units(bounds) /\ Present(bounds)' = Present(bounds)
         /\ OutPoints' = OutPoints
         /\ \A u : /\ OffsetOf(u)' = OffsetOf(u) /\ UnitBytes(u)' = UnitBytes(u)
                   /\ FileOf(u)' = FileOf(u) /\ BytesOf(u)' = BytesOf(u)
         /\ \A q : Reference(q)' = Reference(q)
         /\ \A g : Window(g)' = Window(g)
         /\ \A f, p : Byte(f, p)' = Byte(f, p)
<1>1. /\ Inputs' <=> Inputs
      /\ BoundsAreSet' <=> BoundsAreSet
  BY DEF Inputs, BoundsAreSet, Axes
<1>2. Units(bounds)' = Units(bounds)
  BY DEF Units, Axes
<1>3. \A u : /\ OffsetOf(u)' = OffsetOf(u) /\ UnitBytes(u)' = UnitBytes(u)
             /\ FileOf(u)' = FileOf(u) /\ BytesOf(u)' = BytesOf(u)
  BY DEF OffsetOf, UnitBytes, FileOf, BytesOf
<1>4. Present(bounds)' = Present(bounds)
  BY <1>2 DEF Present
<1>5. OutPoints' = OutPoints
  BY DEF OutPoints, Axes
<1>6. \A q : Reference(q)' = Reference(q)
  BY DEF Reference, Axes
<1>7. \A g : Window(g)' = Window(g)
  BY DEF Window, Members, OffsetOf, UnitBytes, FileOf
<1>8. \A f, p : Byte(f, p)' = Byte(f, p)
  BY DEF Byte, InFile, OffsetOf, UnitBytes, FileOf
<1>9. QED
  BY <1>1, <1>2, <1>3, <1>4, <1>5, <1>6, <1>7, <1>8

LEMMA FusionIsFrozen ==
  ASSUME UNCHANGED <<array, store, selection, bounds>>, NEW P
  PROVE  /\ IsFusion(P)' <=> IsFusion(P)
         /\ {Window(g) : g \in P}' = {Window(g) : g \in P}
  BY Frozen DEF IsFusion, IsGroup

LEMMA FusedIsFrozen ==
  ASSUME UNCHANGED <<array, store, selection, bounds, requests>>, RequestsAreFused
  PROVE  RequestsAreFused'
<1>1. PICK P : IsFusion(P) /\ requests = {Window(g) : g \in P}
  BY DEF RequestsAreFused
<1>2. IsFusion(P)' /\ requests' = {Window(g) : g \in P}'
  BY <1>1, FusionIsFrozen
<1>3. QED
  BY <1>2 DEF RequestsAreFused

LEMMA BuffersAreFrozen ==
  ASSUME UNCHANGED <<array, store, selection, bounds, requests, left, buffers>>, BuffersAreRead
  PROVE  BuffersAreRead'
  BY Frozen DEF BuffersAreRead, Unreadable

\* The plan as it is read: a request lies in a file that had all its bytes.
LEMMA RequestIs ==
  ASSUME Inputs, RequestsAreFused, NEW r \in requests
  PROVE  r.offset \in Nat /\ r.nbytes \in Nat /\ r.file \in DOMAIN store.size
<1>1. PICK P : IsFusion(P) /\ requests = {Window(g) : g \in P}
  BY DEF RequestsAreFused
<1>2. PICK g \in P : r = Window(g) /\ IsGroup(g)
  BY <1>1 DEF IsFusion
<1>3. QED
  BY <1>2, WindowIs

LEMMA ReadIsExact ==
  ASSUME ReadInv, Read
  PROVE  BuffersAreRead'
<1>1. /\ pc = "read" /\ Inputs /\ RequestsAreFused
      /\ UNCHANGED <<array, store, selection, bounds, requests, left>>
      /\ \A r \in requests : ~Unreadable(r)
  BY DEF Read, ReadInv, BoundsInv, Planned
<1>2. ASSUME NEW r \in requests
      PROVE  buffers'[r] = [k \in 1..r.nbytes |-> Byte(r.file, r.offset + k)]
  <2>1. /\ r.offset \in Nat /\ r.nbytes \in Nat /\ left[r.file] \in Int
        /\ ~(left[r.file] < r.offset + r.nbytes)
    BY <1>1, RequestIs DEF ReadInv, Unreadable
  <2>2. \A k \in 1..r.nbytes : r.offset + k <= left[r.file]
    BY <2>1
  <2>3. buffers'[r] = [k \in 1..r.nbytes |->
          IF r.offset + k <= left[r.file] THEN Byte(r.file, r.offset + k) ELSE <<"uninitialised">>]
    BY DEF Read
  <2>4. QED
    BY <2>2, <2>3
<1>3. \A f, p : Byte(f, p)' = Byte(f, p)
  BY <1>1, Frozen
<1>4. QED
  BY <1>1, <1>2, <1>3 DEF BuffersAreRead, Unreadable

\* What every request that was read says of its units.
LEMMA ReadUnitsAreWhole ==
  ASSUME Inputs, RequestsAreFused, BuffersAreRead, left \in [DOMAIN store.size -> Int],
         NEW u \in Present(bounds)
  PROVE  ~(left[FileOf(u)] < OffsetOf(u) + UnitBytes(u))
<1>1. PICK P : IsFusion(P) /\ requests = {Window(g) : g \in P}
  BY DEF RequestsAreFused
<1>2. PICK g \in P : u \in g /\ IsGroup(g) /\ Window(g) \in requests
  BY <1>1 DEF IsFusion
<1>3. PICK r : r = Window(g)
  OBVIOUS
<1>4. PICK first \in Nat : \E last \in Nat :
        /\ first <= last /\ r.offset = first /\ r.nbytes = last - first
        /\ FileOf(u) = r.file /\ OffsetOf(u) + UnitBytes(u) <= last
  BY <1>2, <1>3, WindowIs
<1>5. PICK last \in Nat :
        /\ first <= last /\ r.offset = first /\ r.nbytes = last - first
        /\ FileOf(u) = r.file /\ OffsetOf(u) + UnitBytes(u) <= last
  BY <1>4
<1>6. ~(left[r.file] < r.offset + r.nbytes)
  BY <1>2, <1>3 DEF BuffersAreRead, Unreadable
<1>7. u \in DOMAIN store.entry
  BY DEF Present
<1>8. /\ OffsetOf(u) \in Nat /\ UnitBytes(u) \in Nat /\ left[r.file] \in Int
  BY <1>5, <1>7, EntryIs
<1>9. QED
  BY <1>5, <1>6, <1>8

\* decode scatters the elements that Reference names.
LEMMA DecodeIsExact ==
  ASSUME ReadInv, Decode
  PROVE  ReadsAreExact' /\ FailsWhenDamaged'
<1>1. /\ pc = "decode" /\ pc' = "done"
      /\ Inputs /\ BoundsAreSet /\ RequestsAreFused /\ BuffersAreRead
      /\ UNCHANGED <<array, store, selection, bounds, requests, left, buffers>>
  BY DEF Decode, ReadInv, BoundsInv, Planned, Normalized
<1>2. Payloads = {Piece(u) : u \in Present(bounds)}
  BY <1>1, PayloadsArePieces
<1>3. ASSUME NEW u \in Present(bounds) PROVE UnitBytes(u) = ChunkBytes
  <2>1. Len(Piece(u).bytes) = ChunkBytes
    BY <1>2 DEF Decode
  <2>2. UnitBytes(u) \in Nat
    BY <1>1, EntryIs DEF Present
  <2>3. Len(BytesOf(u)) = UnitBytes(u)
    BY <2>2 DEF BytesOf
  <2>4. QED
    BY <2>1, <2>3 DEF Piece
<1>4. out' = [q \in OutPoints |-> Reference(q)]
  <2>1. \A q \in OutPoints :
          (IF Writers(q) = {} THEN Blank
           ELSE LET p == CHOOSE p \in Writers(q) : TRUE
                IN  Element(p, [a \in Axes |-> LET i == Intersect(p.unit, a)
                                               IN  i.src[1] + q[a] - i.dst[1]])) = Reference(q)
    BY <1>1, <1>2, <1>3, ResultIsReference
  <2>2. QED
    BY <2>1 DEF Decode
<1>5. ReadsAreExact'
  BY <1>1, <1>4, Frozen DEF ReadsAreExact
<1>6. ASSUME NEW u \in Present(bounds) PROVE ~Damaged(u)
  BY <1>1, <1>3, ReadUnitsAreWhole DEF Damaged, ReadInv
<1>7. \A u : Damaged(u)' <=> Damaged(u)
  BY <1>1, Frozen DEF Damaged
<1>8. FailsWhenDamaged'
  BY <1>1, <1>6, <1>7, Frozen DEF FailsWhenDamaged
<1>9. QED
  BY <1>5, <1>8

\* retrieve_encoded_chunk answers, and never fails to unpack.
LEMMA EncodedIsExact ==
  ASSUME ReadInv, Encoded
  PROVE  pc' = "encoded" /\ ReadsAreExact' /\ FailsWhenDamaged'
<1>1. /\ pc = "decode"
      /\ Inputs /\ BoundsAreSet /\ RequestsAreFused /\ BuffersAreRead
      /\ UNCHANGED <<array, store, selection, bounds, requests, left, buffers>>
  BY DEF Encoded, ReadInv, BoundsInv, Planned, Normalized
<1>2. PICK c \in GridPoints(array) : selection = ChunkBox(array, c)
  BY DEF Encoded
<1>3. Units(bounds) = {c}
  BY <1>1, <1>2, ChunkBoxSelectsOneUnit
<1>4. pc' = "encoded" /\ out' = IF c \in DOMAIN store.entry THEN BytesOf(c) ELSE <<"None">>
  <2>1. CASE c \notin DOMAIN store.entry
    <3>1. requests = {}
      BY <1>1, <1>3, <2>1, EncodedChunkIsOneSlice
    <3>2. QED
      BY <2>1, <3>1 DEF Encoded
  <2>2. CASE c \in DOMAIN store.entry
    <3>1. PICK r, m : requests = {r} /\ r.members = {m} /\ EncodedSlice(r, m) = BytesOf(c)
      BY <1>1, <1>3, <2>2, EncodedChunkIsOneSlice
    <3>2. requests # {} /\ Cardinality(r.members) = 1
      BY <3>1, FS_Singleton
    <3>3. (CHOOSE x \in requests : TRUE) = r /\ (CHOOSE y \in r.members : TRUE) = m
      BY <3>1
    <3>4. \E x \in requests : requests = {x} /\ Cardinality(x.members) = 1
      BY <3>1, <3>2
    <3>5. pc' = "encoded" /\ out' = EncodedSlice(r, m)
      BY <3>2, <3>3, <3>4 DEF Encoded
    <3>6. QED
      BY <2>2, <3>1, <3>5
  <2>3. QED
    BY <2>1, <2>2
<1>5. ASSUME NEW u \in Units(bounds)
      PROVE  out' = IF u \in DOMAIN store.entry THEN [k \in 1..UnitBytes(u) |-> <<u, k>>] ELSE <<"None">>
  BY <1>3, <1>4 DEF BytesOf
<1>6. ReadsAreExact'
  BY <1>1, <1>4, <1>5, Frozen DEF ReadsAreExact
<1>7. FailsWhenDamaged'
  BY <1>4 DEF FailsWhenDamaged
<1>8. QED
  BY <1>4, <1>6, <1>7

\* A batch is refused only when a chunk of it has not the bytes of a chunk.
LEMMA RefusalIsDue ==
  ASSUME ReadInv, DecodeFails
  PROVE  FailsWhenDamaged'
<1>1. /\ pc' = "ValueError"
      /\ Inputs /\ RequestsAreFused /\ BuffersAreRead
      /\ UNCHANGED <<array, store, selection, bounds, requests, left>>
  BY DEF DecodeFails, ReadInv, BoundsInv, Planned
<1>2. PICK p \in Payloads : Len(p.bytes) # ChunkBytes
  BY DEF DecodeFails
<1>3. PICK u \in Present(bounds) : p = Piece(u)
  BY <1>1, PayloadsArePieces
<1>4. UnitBytes(u) # ChunkBytes
  <2>1. UnitBytes(u) \in Nat
    BY <1>1, EntryIs DEF Present
  <2>2. Len(BytesOf(u)) = UnitBytes(u)
    BY <2>1 DEF BytesOf
  <2>3. QED
    BY <1>2, <1>3, <2>2 DEF Piece
<1>5. u \in Present(bounds)' /\ UnitBytes(u)' = UnitBytes(u)
  BY <1>1, Frozen
<1>6. \E v \in Present(bounds)' : UnitBytes(v)' # ChunkBytes
  BY <1>4, <1>5
<1>7. QED
  BY <1>1, <1>6 DEF FailsWhenDamaged

LEMMA ReadInvInitially == Init => ReadInv
<1> SUFFICES ASSUME Init PROVE ReadInv
  OBVIOUS
<1>1. BoundsInv
  BY InitBounds
<1>2. left \in [DOMAIN store.size -> Int]
  BY <1>1 DEF BoundsInv, Inputs, IsStore, Init
<1>3. pc = "start"
  BY DEF Init
<1>4. QED
  BY <1>1, <1>2, <1>3 DEF ReadInv, Planned, ReadsAreExact, FailsWhenDamaged

LEMMA ReadInvIsInductive == ReadInv /\ BoundsInv' /\ [Next]_vars => ReadInv'
<1> SUFFICES ASSUME ReadInv, BoundsInv', [Next]_vars PROVE ReadInv'
  OBVIOUS
<1>1. CASE Normalize
  <2>1. pc' \in {"plan", "IndexError", "TypeError", "NotImplementedError"}
    BY <1>1, NormalizeSetsBounds DEF ReadInv, BoundsInv
  <2>2. left' = left /\ store' = store
    BY <1>1 DEF Normalize, Failed
  <2>3. ReadsAreExact' /\ FailsWhenDamaged'
    BY <2>1 DEF ReadsAreExact, FailsWhenDamaged
  <2>4. QED
    BY <2>1, <2>2, <2>3 DEF ReadInv, Planned
<1>2. CASE Plan
  <2>1. /\ pc' = "read" /\ UNCHANGED <<array, store, selection, bounds, left>>
    BY <1>2 DEF Plan
  <2>2. PICK P : IsFusion(P) /\ requests' = {Window(g) : g \in P}
    BY <1>2, PlanFuses DEF Plan
  <2>3. IsFusion(P)' /\ requests' = {Window(g) : g \in P}'
    BY <2>1, <2>2, FusionIsFrozen
  <2>4. RequestsAreFused'
    BY <2>3 DEF RequestsAreFused
  <2>5. ReadsAreExact' /\ FailsWhenDamaged'
    BY <2>1 DEF ReadsAreExact, FailsWhenDamaged
  <2>6. QED
    BY <2>1, <2>4, <2>5 DEF ReadInv, Planned
<1>3. CASE Cut
  <2>1. /\ pc = "read" /\ pc' = "read"
        /\ UNCHANGED <<array, store, selection, bounds, requests>>
    BY <1>3 DEF Cut
  <2>2. left' \in [DOMAIN store'.size -> Int]
    BY <1>3, <2>1 DEF Cut, ReadInv
  <2>3. RequestsAreFused'
    BY <2>1, FusedIsFrozen DEF ReadInv, Planned
  <2>4. ReadsAreExact' /\ FailsWhenDamaged'
    BY <2>1 DEF ReadsAreExact, FailsWhenDamaged
  <2>5. QED
    BY <2>1, <2>2, <2>3, <2>4 DEF ReadInv, Planned
<1>4. CASE ReadFails
  <2>1. /\ pc = "read" /\ pc' = "OSError" /\ \E r \in requests : Unreadable(r)
        /\ UNCHANGED <<array, store, selection, bounds, requests, left>>
    BY <1>4 DEF ReadFails
  <2>2. RequestsAreFused'
    BY <2>1, FusedIsFrozen DEF ReadInv, Planned
  <2>3. ReadsAreExact' /\ FailsWhenDamaged'
    BY <2>1 DEF ReadsAreExact, FailsWhenDamaged, Unreadable
  <2>4. QED
    BY <2>1, <2>2, <2>3 DEF ReadInv, Planned
<1>5. CASE Read
  <2>1. /\ pc = "read" /\ pc' = "decode"
        /\ UNCHANGED <<array, store, selection, bounds, requests, left>>
    BY <1>5 DEF Read
  <2>2. RequestsAreFused'
    BY <2>1, FusedIsFrozen DEF ReadInv, Planned
  <2>3. BuffersAreRead'
    BY <1>5, ReadIsExact
  <2>4. ReadsAreExact' /\ FailsWhenDamaged'
    BY <2>1 DEF ReadsAreExact, FailsWhenDamaged
  <2>5. QED
    BY <2>1, <2>2, <2>3, <2>4 DEF ReadInv, Planned
<1>6. CASE DecodeFails \/ Decode \/ Encoded
  <2>1. /\ pc = "decode"
        /\ UNCHANGED <<array, store, selection, bounds, requests, left, buffers>>
    BY <1>6 DEF DecodeFails, Decode, Encoded
  <2>2. RequestsAreFused' /\ BuffersAreRead' /\ left' \in [DOMAIN store'.size -> Int]
    BY <2>1, FusedIsFrozen, BuffersAreFrozen DEF ReadInv, Planned
  <2>3. ReadsAreExact' /\ FailsWhenDamaged'
    <3>1. CASE DecodeFails
      <4>1. pc' = "ValueError"
        BY <3>1 DEF DecodeFails
      <4>2. QED
        BY <3>1, <4>1, RefusalIsDue DEF ReadsAreExact
    <3>2. CASE Decode
      BY <3>2, DecodeIsExact
    <3>3. CASE Encoded
      BY <3>3, EncodedIsExact
    <3>4. QED
      BY <1>6, <3>1, <3>2, <3>3
  <2>4. QED
    BY <2>2, <2>3 DEF ReadInv
<1>7. CASE UNCHANGED vars
  <2>1. /\ UNCHANGED <<array, store, selection, bounds, requests, left, buffers>>
        /\ pc' = pc /\ out' = out
    BY <1>7 DEF vars
  <2>2. /\ pc \in Planned => RequestsAreFused'
        /\ pc \in Planned \ {"read", "OSError"} => BuffersAreRead'
    BY <2>1, FusedIsFrozen, BuffersAreFrozen DEF ReadInv
  <2>3. ReadsAreExact'
    BY <2>1, Frozen DEF ReadInv, ReadsAreExact
  <2>4. \A u : Damaged(u)' <=> Damaged(u)
    BY <2>1, Frozen DEF Damaged
  <2>5. FailsWhenDamaged'
    BY <2>1, <2>4, Frozen DEF ReadInv, FailsWhenDamaged
  <2>6. QED
    BY <2>1, <2>2, <2>3, <2>5 DEF ReadInv
<1>8. QED
  BY <1>1, <1>2, <1>3, <1>4, <1>5, <1>6, <1>7 DEF Next

LEMMA ReadInvariant == Spec => []ReadInv
<1>1. Init => ReadInv
  BY ReadInvInitially
<1>2. ReadInv /\ BoundsInv' /\ [Next]_vars => ReadInv'
  BY ReadInvIsInductive
<1>3. QED
  BY <1>1, <1>2, BoundsInvariant, PTL DEF Spec

\* read_array returns the array's elements, with the fill value for the chunks that
\* are missing, however the units lie in their files and the reads are fused;
\* retrieve_encoded_chunk returns the bytes of its one unit, or None.
THEOREM ReadsReturnTheArray == Spec => []ReadsAreExact
<1>1. ReadInv => ReadsAreExact
  BY DEF ReadInv
<1>2. QED
  BY <1>1, ReadInvariant, PTL

\* A read whose file was cut or removed after the plan raises; one that raises had
\* such a file, or a chunk that has not the bytes of one.
THEOREM DamageIsReported == Spec => []FailsWhenDamaged
<1>1. ReadInv => FailsWhenDamaged
  BY DEF ReadInv
<1>2. QED
  BY <1>1, ReadInvariant, PTL
=============================================================================
