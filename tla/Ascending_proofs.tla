--------------------------- MODULE Ascending_proofs ---------------------------
(***************************************************************************)
(* What InOrder returns: each member at the number of members up to it.    *)
(* And what the other proof modules share: induction, that recursive       *)
(* functions exist, and what a slice of a sequence is.                     *)
(***************************************************************************)
EXTENDS Ascending, FiniteSetTheorems, TLAPS

-----------------------------------------------------------------------------
(* Induction over the naturals, for a set instead of a predicate *)

Less == {ss \in Nat \X Nat : ss[1] < ss[2]}

LEMMA LessWF == IsWellFoundedOn(Less, Nat)
  BY NatLessThanWellFounded, Zenon DEF OpToRel, Less

LEMMA NatSetInduction ==
  ASSUME NEW T, 0 \in T, \A n \in Nat : n \in T => n + 1 \in T
  PROVE  Nat \subseteq T
<1> DEFINE B == Nat \ T
<1>1. SUFFICES ASSUME B # {} PROVE FALSE
  OBVIOUS
<1>2. PICK x \in B : \A y \in B : <<y, x>> \notin Less
  BY <1>1, LessWF, WFMin
<1>3. x # 0 /\ x \in Nat
  OBVIOUS
<1>4. x - 1 \in B
  BY <1>3
<1>5. <<x - 1, x>> \in Less
  BY <1>3, <1>4 DEF Less
<1>6. QED
  BY <1>2, <1>4, <1>5

-----------------------------------------------------------------------------
(* A recursive function has a solution. Step is a function, not an operator:  *)
(* no lemma with an operator among its parameters can be used.                *)

Solves(g, n, V, first, Step) ==
  /\ g \in [0..n -> V] /\ g[0] = first
  /\ \A k \in 1..n : g[k] = Step[<<k, g[k - 1]>>]

LEMMA Recursion ==
  ASSUME NEW V, NEW first \in V, NEW Step \in [Nat \X V -> V], NEW n \in Nat
  PROVE  \E g : Solves(g, n, V, first, Step)
<1> DEFINE T == {m \in Nat : \E g : Solves(g, m, V, first, Step)}
<1>1. 0 \in T
  <2>1. Solves([k \in 0..0 |-> first], 0, V, first, Step)
    BY DEF Solves
  <2>2. QED
    BY <2>1
<1>2. ASSUME NEW m \in Nat, m \in T PROVE m + 1 \in T
  <2>0. PICK g : Solves(g, m, V, first, Step)
    BY <1>2
  <2>1. /\ g \in [0..m -> V] /\ g[0] = first
        /\ \A k \in 1..m : g[k] = Step[<<k, g[k - 1]>>]
    BY <2>0 DEF Solves
  <2> DEFINE h == [k \in 0..(m + 1) |-> IF k <= m THEN g[k] ELSE Step[<<k, g[m]>>]]
  <2>2. Step[<<m + 1, g[m]>>] \in V
    BY <2>1
  <2>3. h \in [0..(m + 1) -> V]
    BY <2>1, <2>2
  <2>4. h[0] = first
    BY <2>1
  <2>5. ASSUME NEW k \in 1..(m + 1) PROVE h[k] = Step[<<k, h[k - 1]>>]
    <3>1. k - 1 \in 0..m /\ k \in 0..(m + 1) /\ k - 1 \in 0..(m + 1)
      OBVIOUS
    <3>2. h[k - 1] = g[k - 1]
      BY <3>1
    <3>3. CASE k <= m
      BY <2>1, <3>1, <3>2, <3>3
    <3>4. CASE k = m + 1
      BY <3>1, <3>2, <3>4
    <3>5. QED
      BY <3>3, <3>4
  <2> HIDE DEF h
  <2>6. Solves(h, m + 1, V, first, Step)
    BY <2>3, <2>4, <2>5 DEF Solves
  <2>7. \E f : Solves(f, m + 1, V, first, Step)
    BY <2>6
  <2>8. QED
    BY <2>7
<1>3. n \in T
  BY <1>1, <1>2, NatSetInduction
<1>4. QED
  BY <1>3

-----------------------------------------------------------------------------
(* What the loop holds after each step *)

KeptBody(S, g, k) ==
  IF k = 0 THEN <<>> ELSE IF k \in S THEN Append(g[k - 1], k) ELSE g[k - 1]

LEMMA KeptExists ==
  ASSUME NEW S, NEW n \in Nat
  PROVE  \E g : g = [k \in 0..n |-> KeptBody(S, g, k)]
<1> DEFINE Step == [x \in Nat \X Seq(Nat) |-> IF x[1] \in S THEN Append(x[2], x[1]) ELSE x[2]]
<1>1. Step \in [Nat \X Seq(Nat) -> Seq(Nat)]
  <2>1. ASSUME NEW x \in Nat \X Seq(Nat)
        PROVE  (IF x[1] \in S THEN Append(x[2], x[1]) ELSE x[2]) \in Seq(Nat)
    OBVIOUS
  <2>2. QED
    BY <2>1
<1> HIDE DEF Step
<1>2. PICK g : Solves(g, n, Seq(Nat), <<>>, Step)
  <2>1. <<>> \in Seq(Nat)
    OBVIOUS
  <2>2. QED
    BY <1>1, <2>1, Recursion
<1>3. /\ g \in [0..n -> Seq(Nat)] /\ g[0] = <<>>
      /\ \A k \in 1..n : g[k] = Step[<<k, g[k - 1]>>]
  BY <1>2 DEF Solves
<1>4. ASSUME NEW k \in 1..n PROVE Step[<<k, g[k - 1]>>] = KeptBody(S, g, k)
  <2>1. k \in Nat /\ g[k - 1] \in Seq(Nat) /\ k # 0
    BY <1>3
  <2>2. QED
    BY <2>1 DEF Step, KeptBody
<1>5. ASSUME NEW k \in 0..n PROVE g[k] = KeptBody(S, g, k)
  <2>1. CASE k = 0
    BY <1>3, <2>1 DEF KeptBody
  <2>2. CASE k # 0
    <3>1. k \in 1..n
      BY <2>2
    <3>2. QED
      BY <1>3, <1>4, <3>1
  <2>3. QED
    BY <2>1, <2>2
<1>6. g = [k \in 0..n |-> KeptBody(S, g, k)]
  BY <1>3, <1>5
<1>7. QED
  BY <1>6

LEMMA KeptRec ==
  ASSUME NEW S, NEW n \in Nat
  PROVE  \A k \in 0..n : KeptIn(S, n)[k] = KeptBody(S, KeptIn(S, n), k)
<1>1. \E g : g = [k \in 0..n |-> KeptBody(S, g, k)]
  BY KeptExists
<1>2. KeptIn(S, n) = [k \in 0..n |-> KeptBody(S, KeptIn(S, n), k)]
  BY <1>1 DEF KeptIn, KeptBody
<1>3. QED
  BY <1>2

\* The members of S up to k.
MembersUpto(S, k) == {v \in 1..k : v \in S}
Rank(S, k) == Cardinality(MembersUpto(S, k))

LEMMA RankCounts ==
  ASSUME NEW S, NEW k \in Nat
  PROVE  /\ Rank(S, 0) = 0 /\ Rank(S, k) \in Nat
         /\ Rank(S, k + 1) = IF k + 1 \in S THEN Rank(S, k) + 1 ELSE Rank(S, k)
<1>1. IsFiniteSet(MembersUpto(S, k))
  <2>1. IsFiniteSet(1..k)
    BY FS_Interval
  <2>2. MembersUpto(S, k) \in SUBSET (1..k)
    BY DEF MembersUpto
  <2>3. QED
    BY <2>1, <2>2, FS_Subset
<1>2. Rank(S, k) \in Nat
  BY <1>1, FS_CardinalityType DEF Rank
<1>3. Rank(S, 0) = 0
  <2>1. MembersUpto(S, 0) = {}
    BY DEF MembersUpto
  <2>2. QED
    BY <2>1, FS_EmptySet DEF Rank
<1>4. CASE k + 1 \in S
  <2>1. MembersUpto(S, k + 1) = MembersUpto(S, k) \cup {k + 1} /\ k + 1 \notin MembersUpto(S, k)
    BY <1>4 DEF MembersUpto
  <2>2. QED
    BY <1>1, <1>2, <1>3, <1>4, <2>1, FS_AddElement DEF Rank
<1>5. CASE k + 1 \notin S
  <2>1. MembersUpto(S, k + 1) = MembersUpto(S, k)
    BY <1>5 DEF MembersUpto
  <2>2. QED
    BY <1>2, <1>3, <1>5, <2>1 DEF Rank
<1>6. QED
  BY <1>4, <1>5

\* InOrder has the members of S among 1..n, each at its rank, and nothing else.
LEMMA InOrderRanks ==
  ASSUME NEW S, NEW n \in Nat
  PROVE  /\ InOrder(S, n) \in Seq(Nat) /\ Len(InOrder(S, n)) = Rank(S, n)
         /\ \A u \in 1..n : u \in S => /\ Rank(S, u) \in 1..Len(InOrder(S, n))
                                       /\ InOrder(S, n)[Rank(S, u)] = u
         /\ \A j \in 1..Len(InOrder(S, n)) : /\ InOrder(S, n)[j] \in 1..n
                                             /\ InOrder(S, n)[j] \in S
                                             /\ Rank(S, InOrder(S, n)[j]) = j
<1> DEFINE K(k) == KeptIn(S, n)[k]
           Holds(k) == /\ K(k) \in Seq(Nat) /\ Len(K(k)) = Rank(S, k)
                       /\ \A u \in 1..k : u \in S => /\ Rank(S, u) \in 1..Len(K(k))
                                                     /\ K(k)[Rank(S, u)] = u
                       /\ \A j \in 1..Len(K(k)) : /\ K(k)[j] \in 1..k
                                                  /\ K(k)[j] \in S
                                                  /\ Rank(S, K(k)[j]) = j
           T == {k \in Nat : k <= n => Holds(k)}
<1>1. 0 \in T
  <2>1. K(0) = <<>> /\ Rank(S, 0) = 0
    BY KeptRec, RankCounts DEF KeptBody
  <2>2. K(0) \in Seq(Nat) /\ Len(K(0)) = 0 /\ \A u \in 1..0 : FALSE
    BY <2>1
  <2>3. Holds(0)
    BY <2>1, <2>2
  <2>4. QED
    BY <2>3
<1>2. ASSUME NEW k \in Nat, k \in T PROVE k + 1 \in T
  <2> SUFFICES ASSUME k + 1 <= n PROVE Holds(k + 1)
    OBVIOUS
  <2>1. Holds(k)
    BY <1>2
  <2>2. K(k + 1) = IF k + 1 \in S THEN Append(K(k), k + 1) ELSE K(k)
    <3>1. k + 1 \in 0..n /\ (k + 1) - 1 = k /\ k + 1 # 0
      OBVIOUS
    <3>2. QED
      BY <3>1, KeptRec DEF KeptBody
  <2>3. CASE k + 1 \in S
    <3> DEFINE s == K(k)
               t == K(k + 1)
    <3>1. PICK m \in Nat : m = Rank(S, k)
      BY RankCounts
    <3>2. Rank(S, k + 1) = m + 1
      BY <2>3, <3>1, RankCounts
    <3>3. /\ s \in Seq(Nat) /\ Len(s) = m
          /\ \A u \in 1..k : u \in S => Rank(S, u) \in 1..m /\ s[Rank(S, u)] = u
          /\ \A j \in 1..m : s[j] \in 1..k /\ s[j] \in S /\ Rank(S, s[j]) = j
      BY <2>1, <3>1
    <3>4. t = Append(s, k + 1)
      BY <2>2, <2>3
    <3> HIDE DEF s, t
    <3>5. /\ t \in Seq(Nat) /\ Len(t) = m + 1 /\ t[m + 1] = k + 1
          /\ \A j \in 1..m : t[j] = s[j]
      BY <3>3, <3>4
    <3>6. ASSUME NEW u \in 1..(k + 1), u \in S
          PROVE  Rank(S, u) \in 1..(m + 1) /\ t[Rank(S, u)] = u
      <4>1. CASE u = k + 1
        BY <4>1, <3>2, <3>5
      <4>2. CASE u \in 1..k
        BY <4>2, <3>3, <3>5, <3>6
      <4>3. QED
        BY <4>1, <4>2
    <3>7. ASSUME NEW j \in 1..(m + 1)
          PROVE  t[j] \in 1..(k + 1) /\ t[j] \in S /\ Rank(S, t[j]) = j
      <4>1. CASE j = m + 1
        BY <4>1, <2>3, <3>2, <3>5
      <4>2. CASE j \in 1..m
        BY <4>2, <3>3, <3>5
      <4>3. QED
        BY <4>1, <4>2
    <3>8. QED
      BY <3>2, <3>5, <3>6, <3>7 DEF t
  <2>4. CASE k + 1 \notin S
    <3>1. K(k + 1) = K(k) /\ Rank(S, k + 1) = Rank(S, k)
      BY <2>2, <2>4, RankCounts
    <3>2. \A u \in 1..(k + 1) : u \in S => u \in 1..k
      BY <2>4
    <3>3. \A j : j \in 1..k => j \in 1..(k + 1)
      OBVIOUS
    <3>4. QED
      BY <2>1, <3>1, <3>2, <3>3
  <2>5. QED
    BY <2>3, <2>4
<1>3. Nat \subseteq T
  <2> HIDE DEF T
  <2>1. QED
    BY <1>1, <1>2, NatSetInduction
<1>4. Holds(n)
  BY <1>3
<1>5. QED
  BY <1>4 DEF InOrder

\* A slice, counted from its own start.
LEMMA SliceOfSeq ==
  ASSUME NEW S, NEW f \in Seq(S), NEW a \in Nat, NEW k \in Nat, a + k <= Len(f)
  PROVE  SubSeq(f, a + 1, a + k) = [j \in 1..k |-> f[a + j]]
<1> DEFINE g == SubSeq(f, a + 1, a + k)
<1>1. g = [j \in 1..((a + k) - (a + 1) + 1) |-> f[(a + 1) + j - 1]]
  OBVIOUS
<1>2. (a + k) - (a + 1) + 1 = k
  OBVIOUS
<1>3. \A j \in 1..k : (a + 1) + j - 1 = a + j
  OBVIOUS
<1> HIDE DEF g
<1>4. g = [j \in 1..k |-> f[a + j]]
  BY <1>1, <1>2, <1>3
<1>5. QED
  BY <1>4 DEF g
=============================================================================
