------------------------ MODULE NoteBoardSyncProofs ------------------------
(***************************************************************************)
(* EditsSurviveSync for any titles, columns, texts and edits.              *)
(*                                                                         *)
(* A text and a board meet in TextHolds(cols, cs, T, Done): the heads of   *)
(* the items of T are the lines written for the cards Done of cs, each     *)
(* with its description below it.  A note without an open code block is a  *)
(* preamble, which holds no card, followed by the blocks of its items.     *)
(* syncNoteBodyFromBoard replaces each block by the lines of the card with *)
(* its key, by nothing when there is none, or keeps it when only blank     *)
(* lines at the end differ, and appends the cards that miss: the result    *)
(* holds all of them (NoteHolds).  What syncBoardFromNoteBody reads from   *)
(* such a text is the same board (ShownBack), and what it reads is written *)
(* as the same text again (NoteAgain).                                     *)
(*                                                                         *)
(* The invariant SyncInv adds that the board is as the text has it, which  *)
(* every sync establishes, whatever the board and the text were.           *)
(***************************************************************************)
EXTENDS NoteBoardSync, FiniteSetTheorems, WellFoundedInduction, TLAPS

---------------------------------------------------------------------------
(* Numbers, sets of them and sequences *)

\* A set of numbers that is not empty has a least member.
LEMMA LeastOf ==
    ASSUME NEW S, S \subseteq Nat, S # {}
    PROVE  \E m \in S : \A k \in S : m <= k
<1>1. \E m \in S : \A k \in S : ~(<<k, m>> \in OpToRel(<, Nat))
  BY NatLessThanWellFounded, WFMin
<1>2. PICK m \in S : \A k \in S : ~(<<k, m>> \in OpToRel(<, Nat))
  BY <1>1
<1>3. \A k \in S : ~(k < m)
  BY <1>2 DEF OpToRel
<1> QED BY <1>3

\* Induction over 0..N, with the set for which the claim holds.
LEMMA Climb ==
    ASSUME NEW N \in Nat, NEW S, 0 \in S, \A k \in 0..N - 1 : k \in S => k + 1 \in S
    PROVE  \A k \in 0..N : k \in S
<1> SUFFICES ASSUME ~(0..N \subseteq S) PROVE FALSE
  OBVIOUS
<1>1. PICK m \in (0..N) \ S : \A x \in (0..N) \ S : m <= x
  <2>1. (0..N) \ S # {} /\ (0..N) \ S \subseteq Nat
    OBVIOUS
  <2> QED BY <2>1, LeastOf
<1>2. m # 0 /\ m - 1 \in 0..N - 1
  BY <1>1
<1> QED BY <1>1, <1>2

\* g[i] is the first i sequences of ss joined, for i up to n.
Grows(g, ss, n) ==
    /\ n >= 1 => g[1] = ss[1]
    /\ \A i \in 1..n - 1 : g[i + 1] = g[i] \o ss[i + 1]

\* The joins of the first sequences do not depend on those that follow.
LEMMA GrowsOn ==
    ASSUME NEW X, NEW ss \in Seq(Seq(X)), NEW k \in 0..Len(ss) - 1,
           NEW g \in [1..k -> Seq(X)], Grows(g, ss, k)
    PROVE  \E h \in [1..k + 1 -> Seq(X)] : Grows(h, ss, k + 1)
<1> DEFINE new == IF k = 0 THEN ss[1] ELSE g[k] \o ss[k + 1]
           h == [i \in 1..k + 1 |-> IF i = k + 1 THEN new ELSE g[i]]
<1>1. ss[k + 1] \in Seq(X)
  OBVIOUS
<1>2. new \in Seq(X)
  BY <1>1
<1> HIDE DEF new
<1>3. h \in [1..k + 1 -> Seq(X)]
  BY <1>2
<1>4. h[k + 1] = new /\ \A i \in 1..k : h[i] = g[i]
  OBVIOUS
<1> HIDE DEF h
<1>5. h[1] = ss[1]
  BY <1>4 DEF new, Grows
<1>6. ASSUME NEW i \in 1..k
      PROVE  h[i + 1] = h[i] \o ss[i + 1]
  <2>1. CASE i = k
    <3>1. k # 0 /\ i + 1 = k + 1
      BY <2>1
    <3>2. new = g[k] \o ss[k + 1]
      BY <3>1 DEF new
    <3> QED BY <1>4, <2>1, <3>2
  <2>2. CASE i # k
    <3>1. i \in 1..k - 1 /\ i + 1 \in 1..k
      BY <2>2
    <3>2. g[i + 1] = g[i] \o ss[i + 1]
      BY <3>1 DEF Grows
    <3> QED BY <1>4, <3>1, <3>2
  <2> QED BY <2>1, <2>2
<1>7. Grows(h, ss, k + 1)
  <2>1. (k + 1) - 1 = k
    OBVIOUS
  <2> QED BY <1>5, <1>6, <2>1 DEF Grows
<1> QED BY <1>3, <1>7

\* FlattenSeq joins its sequences one by one.
LEMMA Flattened ==
    ASSUME NEW X, NEW ss \in Seq(Seq(X)), ss # <<>>
    PROVE  \E f \in [1..Len(ss) -> Seq(X)] :
              /\ Grows(f, ss, Len(ss))
              /\ FlattenSeq(ss) = f[Len(ss)]
<1> PICK M \in Nat \ {0} : M = Len(ss)
  OBVIOUS
<1> DEFINE S == {n \in 0..M : \E g \in [1..n -> Seq(X)] : Grows(g, ss, n)}
<1>1. 0 \in S
  <2> DEFINE g == [i \in 1..0 |-> <<>>]
  <2>1. g \in [1..0 -> Seq(X)]
    OBVIOUS
  <2>2. Grows(g, ss, 0)
    BY DEF Grows
  <2> HIDE DEF g
  <2>3. 0 \in 0..M
    OBVIOUS
  <2> QED BY <2>1, <2>2, <2>3
<1>2. ASSUME NEW k \in 0..M - 1, k \in S
      PROVE  k + 1 \in S
  <2>1. PICK g \in [1..k -> Seq(X)] : Grows(g, ss, k)
    BY <1>2
  <2>2. \E h \in [1..k + 1 -> Seq(X)] : Grows(h, ss, k + 1)
    BY <2>1, GrowsOn
  <2>3. k + 1 \in 0..M
    OBVIOUS
  <2> QED BY <2>2, <2>3
<1>3. PICK g \in [1..M -> Seq(X)] : Grows(g, ss, M)
  <2>1. M \in S
    <3> HIDE DEF S
    <3>1. M \in 0..M
      OBVIOUS
    <3> QED BY <1>1, <1>2, <3>1, Climb
  <2> QED BY <2>1
<1>4. g = [i \in 1..M |-> IF i = 1 THEN ss[i] ELSE g[i - 1] \o ss[i]]
  <2>1. ASSUME NEW i \in 1..M
        PROVE  g[i] = IF i = 1 THEN ss[i] ELSE g[i - 1] \o ss[i]
    <3>1. CASE i = 1
      BY <1>3, <3>1 DEF Grows
    <3>2. CASE i # 1
      <4>1. i - 1 \in 1..M - 1 /\ (i - 1) + 1 = i
        BY <3>2
      <4>2. g[(i - 1) + 1] = g[i - 1] \o ss[(i - 1) + 1]
        BY <1>3, <4>1 DEF Grows
      <4> QED BY <3>2, <4>1, <4>2
    <3> QED BY <3>1, <3>2
  <2> QED BY <2>1
<1> DEFINE F == CHOOSE F : F = [i \in 1..Len(ss) |-> IF i = 1 THEN ss[i] ELSE F[i - 1] \o ss[i]]
<1>5. F = [i \in 1..M |-> IF i = 1 THEN ss[i] ELSE F[i - 1] \o ss[i]]
  BY <1>4
<1>6. FlattenSeq(ss) = F[M]
  BY DEF FlattenSeq
<1> HIDE DEF F
<1>7. \A i \in 1..M : F[i] = IF i = 1 THEN ss[i] ELSE F[i - 1] \o ss[i]
  BY <1>5
<1>8. \A i \in 0..M : i # 0 => F[i] = g[i]
  <2> DEFINE T == {i \in 0..M : i # 0 => F[i] = g[i]}
  <2>1. 0 \in T
    OBVIOUS
  <2>2. ASSUME NEW k \in 0..M - 1, k \in T
        PROVE  k + 1 \in T
    <3> HIDE DEF S
    <3>1. k + 1 \in 1..M /\ (k + 1) - 1 = k /\ (k # 0 => k + 1 # 1)
      OBVIOUS
    <3>2. CASE k = 0
      <4>1. F[1] = ss[1]
        BY <1>7, <3>1, <3>2
      <4> QED BY <1>3, <3>1, <3>2, <4>1 DEF Grows
    <3>3. CASE k # 0
      <4>1. F[k + 1] = F[k] \o ss[k + 1]
        <5>1. F[k + 1] = IF k + 1 = 1 THEN ss[k + 1] ELSE F[(k + 1) - 1] \o ss[k + 1]
          BY <1>7, <3>1
        <5> QED BY <3>1, <3>3, <5>1
      <4>2. g[k + 1] = g[k] \o ss[k + 1]
        <5>1. k \in 1..M - 1
          BY <3>3
        <5> QED BY <1>3, <5>1 DEF Grows
      <4>3. F[k] = g[k] /\ k + 1 \in 0..M
        BY <2>2, <3>3
      <4>4. F[k + 1] = g[k + 1]
        BY <4>1, <4>2, <4>3
      <4> QED BY <4>3, <4>4
    <3> QED BY <3>2, <3>3
  <2>3. \A k \in 0..M : k \in T
    <3> HIDE DEF T
    <3> QED BY <2>1, <2>2, Climb
  <2> QED BY <2>3
<1>9. F[M] = g[M]
  BY <1>8
<1> QED BY <1>3, <1>6, <1>9

\* Min of a set of numbers.
LEMMA LowestOf ==
    ASSUME NEW S, S \subseteq Nat, S # {}
    PROVE  Min(S) \in S /\ \A k \in S : Min(S) <= k
<1>1. \E m \in S : \A k \in S : m <= k
  BY LeastOf
<1> QED BY <1>1 DEF Min

\* Max of a set of numbers with a bound.
LEMMA HighestOf ==
    ASSUME NEW N \in Nat, NEW S, S \subseteq 0..N, S # {}
    PROVE  Max(S) \in S /\ \A k \in S : Max(S) >= k
<1> DEFINE D == {d \in 0..N : N - d \in S}
<1>1. D \subseteq Nat /\ D # {}
  <2>1. PICK k \in S : k \in 0..N
    OBVIOUS
  <2>2. N - k \in D
    BY <2>1
  <2> QED BY <2>2
<1>2. PICK d \in D : \A e \in D : d <= e
  <2> HIDE DEF D
  <2> QED BY <1>1, LeastOf
<1>3. \A k \in S : N - d >= k
  <2> SUFFICES ASSUME NEW k \in S PROVE N - d >= k
    OBVIOUS
  <2>1. k \in 0..N /\ N - k \in 0..N /\ N - (N - k) = k
    OBVIOUS
  <2>2. N - k \in D
    BY <2>1
  <2>3. d <= N - k
    BY <1>2, <2>2
  <2> QED BY <2>1, <2>3
<1>4. N - d \in S
  BY <1>2
<1>5. \E m \in S : \A k \in S : m >= k
  BY <1>3, <1>4
<1> QED BY <1>5 DEF Max

\* The members of S below x.
Below(S, x) == {y \in S : y < x}

\* A larger member has more members below it, and fewer than all.
LEMMA BelowGrows ==
    ASSUME NEW N \in Nat, NEW S \in SUBSET (1..N), NEW x \in S
    PROVE  /\ Cardinality(Below(S, x)) \in 0..Cardinality(S) - 1
           /\ \A z \in S : z < x => Cardinality(Below(S, z)) < Cardinality(Below(S, x))
<1>1. IsFiniteSet(S) /\ IsFiniteSet(1..N)
  <2>1. IsFiniteSet(1..N)
    BY FS_Interval
  <2> QED BY <2>1, FS_Subset
<1>2. \A z \in S : IsFiniteSet(Below(S, z)) /\ Cardinality(Below(S, z)) \in Nat
  <2> SUFFICES ASSUME NEW z \in S
               PROVE  IsFiniteSet(Below(S, z)) /\ Cardinality(Below(S, z)) \in Nat
    OBVIOUS
  <2>1. Below(S, z) \in SUBSET S
    BY DEF Below
  <2> QED BY <1>1, <2>1, FS_Subset, FS_CardinalityType
<1>3. Cardinality(S) \in Nat
  BY <1>1, FS_CardinalityType
<1>4. Cardinality(Below(S, x)) <= Cardinality(S) /\ Cardinality(Below(S, x)) # Cardinality(S)
  <2>1. Below(S, x) \in SUBSET S /\ x \notin Below(S, x)
    BY DEF Below
  <2> QED BY <1>1, <2>1, FS_Subset
<1>5. ASSUME NEW z \in S, z < x
      PROVE  Cardinality(Below(S, z)) < Cardinality(Below(S, x))
  <2>1. Below(S, z) \in SUBSET Below(S, x) /\ z \in Below(S, x) /\ z \notin Below(S, z)
    <3>1. \A y \in S : y < z => y < x
      BY <1>5
    <3>2. ~(z < z)
      OBVIOUS
    <3> QED BY <1>5, <3>1, <3>2 DEF Below
  <2>2. /\ Cardinality(Below(S, z)) <= Cardinality(Below(S, x))
        /\ Cardinality(Below(S, z)) # Cardinality(Below(S, x))
    BY <1>2, <2>1, FS_Subset
  <2>3. Cardinality(Below(S, z)) \in Nat /\ Cardinality(Below(S, x)) \in Nat
    BY <1>2
  <2> QED BY <2>2, <2>3
<1> QED BY <1>2, <1>3, <1>4, <1>5

\* There are M numbers below M.
LEMMA NumbersBelow ==
    ASSUME NEW M \in Nat
    PROVE  IsFiniteSet(0..M - 1) /\ Cardinality(0..M - 1) = M
<1>1. PICK b \in Int : b = M - 1
  OBVIOUS
<1>2. IsFiniteSet(0..b) /\ Cardinality(0..b) = IF 0 > b THEN 0 ELSE b + 1
  BY FS_Interval
<1> QED BY <1>1, <1>2

\* Sorted lists the members of a finite set of numbers in their order, each once.
LEMMA SortedSet ==
    ASSUME NEW N \in Nat, NEW S \in SUBSET (1..N)
    PROVE  /\ Sorted(S) \in [1..Cardinality(S) -> S] /\ Cardinality(S) \in Nat
           /\ IsFiniteSet(S)
           /\ \A n, m \in 1..Cardinality(S) : n < m => Sorted(S)[n] < Sorted(S)[m]
           /\ \A x \in S : \E n \in 1..Cardinality(S) : Sorted(S)[n] = x
<1>1. IsFiniteSet(S) /\ Cardinality(S) \in Nat
  <2>1. IsFiniteSet(1..N)
    BY FS_Interval
  <2> QED BY <2>1, FS_Subset, FS_CardinalityType
<1> PICK M \in Nat : M = Cardinality(S)
  BY <1>1
<1> DEFINE rank == [x \in S |-> Cardinality(Below(S, x))]
<1>2. \A x, z \in S : rank[x] \in 0..M - 1 /\ (z < x => rank[z] < rank[x])
  BY BelowGrows
<1>3. \A x, z \in S : rank[x] = rank[z] => x = z
  <2> SUFFICES ASSUME NEW x \in S, NEW z \in S, rank[x] = rank[z] PROVE x = z
    OBVIOUS
  <2>1. ~(z < x) /\ ~(x < z)
    <3>1. rank[x] \in Nat /\ rank[z] \in Nat
      BY <1>2
    <3> HIDE DEF rank
    <3> QED BY <1>2, <3>1
  <2> QED BY <2>1
<1>4. rank \in Surjection(S, 0..M - 1)
  <2>1. rank \in [S -> 0..M - 1]
    BY <1>2
  <2>2. rank \in Injection(S, 0..M - 1)
    BY <1>3, <2>1 DEF Injection, IsInjective
  <2>3. IsFiniteSet(0..M - 1) /\ Cardinality(0..M - 1) = M
    BY NumbersBelow
  <2> HIDE DEF rank
  <2> QED BY <1>1, <2>2, <2>3, FS_Injection
<1>5. \A n \in 1..M : \E x \in S : Cardinality(Below(S, x)) = n - 1
  <2> SUFFICES ASSUME NEW n \in 1..M PROVE \E x \in S : Cardinality(Below(S, x)) = n - 1
    OBVIOUS
  <2>1. n - 1 \in 0..M - 1
    OBVIOUS
  <2>2. PICK x \in S : rank[x] = n - 1
    BY <1>4, <2>1 DEF Surjection
  <2> QED BY <2>2
<1>6. Sorted(S) = [n \in 1..M |-> CHOOSE x \in S : Cardinality(Below(S, x)) = n - 1]
  BY DEF Sorted, Below
<1> HIDE DEF rank
<1>7. \A n \in 1..M : Sorted(S)[n] \in S /\ Cardinality(Below(S, Sorted(S)[n])) = n - 1
  <2> SUFFICES ASSUME NEW n \in 1..M
               PROVE  Sorted(S)[n] \in S /\ Cardinality(Below(S, Sorted(S)[n])) = n - 1
    OBVIOUS
  <2>1. Sorted(S)[n] = CHOOSE x \in S : Cardinality(Below(S, x)) = n - 1
    BY <1>6
  <2> QED BY <1>5, <2>1
<1>8. Sorted(S) \in [1..M -> S]
  BY <1>6, <1>7
<1>9. ASSUME NEW n \in 1..M, NEW m \in 1..M, n < m
      PROVE  Sorted(S)[n] < Sorted(S)[m]
  <2>1. PICK x \in S, z \in S : x = Sorted(S)[n] /\ z = Sorted(S)[m]
    BY <1>7
  <2>2. rank[x] = n - 1 /\ rank[z] = m - 1
    BY <1>7, <2>1 DEF rank
  <2>3. ~(z < x) /\ z # x
    BY <1>2, <1>9, <2>2
  <2> QED BY <2>1, <2>3
<1>10. ASSUME NEW x \in S
       PROVE  \E n \in 1..M : Sorted(S)[n] = x
  <2>1. PICK n \in 1..M : rank[x] = n - 1
    <3>1. rank[x] \in 0..M - 1 /\ rank[x] + 1 \in 1..M /\ rank[x] = (rank[x] + 1) - 1
      BY <1>2
    <3> QED BY <3>1
  <2>2. rank[Sorted(S)[n]] = n - 1 /\ Sorted(S)[n] \in S
    BY <1>7 DEF rank
  <2> QED BY <1>3, <2>1, <2>2
<1> QED BY <1>1, <1>8, <1>9, <1>10

---------------------------------------------------------------------------
(* Code blocks *)

\* The lines that open or close a code block.
FenceSet(lines) == {i \in DOMAIN lines : lines[i].sort = "fence"}

\* The fences of a text are counted.
LEMMA FencesAreNumbers ==
    ASSUME NEW X, NEW a \in Seq(X)
    PROVE  IsFiniteSet(FenceSet(a)) /\ Fences(a) = Cardinality(FenceSet(a)) /\ Fences(a) \in Nat
<1>1. FenceSet(a) \in SUBSET (1..Len(a))
  BY DEF FenceSet
<1>2. IsFiniteSet(1..Len(a))
  BY FS_Interval
<1>3. IsFiniteSet(FenceSet(a))
  BY <1>1, <1>2, FS_Subset
<1>4. Fences(a) = Cardinality(FenceSet(a))
  BY DEF Fences, FenceSet
<1> QED BY <1>3, <1>4, FS_CardinalityType

\* The fences of two texts one after the other.
LEMMA FencesConcat ==
    ASSUME NEW X, NEW a \in Seq(X), NEW b \in Seq(X)
    PROVE  Fences(a \o b) = Fences(a) + Fences(b)
<1> DEFINE T == {Len(a) + j : j \in FenceSet(b)}
           f == [j \in FenceSet(b) |-> Len(a) + j]
<1>1. FenceSet(b) \subseteq 1..Len(b) /\ FenceSet(a) \subseteq 1..Len(a)
  BY DEF FenceSet
<1>2. f \in Bijection(FenceSet(b), T)
  <2>1. f \in Surjection(FenceSet(b), T)
    BY DEF Surjection
  <2>2. f \in Injection(FenceSet(b), T)
    BY <1>1 DEF Injection, IsInjective
  <2> QED BY <2>1, <2>2 DEF Bijection
<1>3. IsFiniteSet(T) /\ Cardinality(T) = Fences(b)
  <2>1. ExistsBijection(FenceSet(b), T)
    BY <1>2 DEF ExistsBijection
  <2> HIDE DEF T, f
  <2> QED BY <2>1, FencesAreNumbers, FS_Bijection
<1>4. FenceSet(a \o b) = FenceSet(a) \cup T
  <2>1. DOMAIN (a \o b) = 1..Len(a) + Len(b)
    OBVIOUS
  <2>2. ASSUME NEW i \in FenceSet(a \o b)
        PROVE  i \in FenceSet(a) \cup T
    <3>1. i \in 1..Len(a) + Len(b) /\ (a \o b)[i].sort = "fence"
      BY <2>1 DEF FenceSet
    <3>2. CASE i <= Len(a)
      BY <3>1, <3>2 DEF FenceSet
    <3>3. CASE i > Len(a)
      <4>1. i - Len(a) \in DOMAIN b /\ i = Len(a) + (i - Len(a)) /\ (a \o b)[i] = b[i - Len(a)]
        BY <3>1, <3>3
      <4>2. i - Len(a) \in FenceSet(b)
        BY <3>1, <4>1 DEF FenceSet
      <4> QED BY <4>1, <4>2
    <3> QED BY <3>1, <3>2, <3>3
  <2>3. ASSUME NEW i \in FenceSet(a)
        PROVE  i \in FenceSet(a \o b)
    <3>1. i \in 1..Len(a) /\ a[i].sort = "fence"
      BY DEF FenceSet
    <3>2. i \in 1..Len(a) + Len(b) /\ (a \o b)[i] = a[i]
      BY <3>1
    <3> QED BY <2>1, <3>1, <3>2 DEF FenceSet
  <2>4. ASSUME NEW j \in FenceSet(b)
        PROVE  Len(a) + j \in FenceSet(a \o b)
    <3>1. j \in 1..Len(b) /\ b[j].sort = "fence"
      BY DEF FenceSet
    <3>2. Len(a) + j \in 1..Len(a) + Len(b) /\ (a \o b)[Len(a) + j] = b[j]
      BY <3>1
    <3> QED BY <2>1, <3>1, <3>2 DEF FenceSet
  <2> QED BY <2>2, <2>3, <2>4
<1>5. FenceSet(a) \cap T = {}
  BY <1>1
<1>6. a \o b \in Seq(X)
  OBVIOUS
<1>7. Cardinality(FenceSet(a \o b)) = Cardinality(FenceSet(a)) + Cardinality(T)
  <2>1. IsFiniteSet(FenceSet(a)) /\ Cardinality(FenceSet(a)) \in Nat
    BY FencesAreNumbers
  <2>2. Cardinality(T) \in Nat
    BY <1>3, FencesAreNumbers
  <2> HIDE DEF T
  <2>3. Cardinality(FenceSet(a) \cup T) = Cardinality(FenceSet(a)) + Cardinality(T) - Cardinality({})
    BY <1>3, <1>5, <2>1, FS_Union
  <2> QED BY <1>4, <2>1, <2>2, <2>3, FS_EmptySet
<1> QED BY <1>3, <1>6, <1>7, FencesAreNumbers

\* A line is in a code block when the fences before it are odd.
LEMMA InCodeCounts ==
    ASSUME NEW X, NEW a \in Seq(X), NEW i \in 1..Len(a) + 1
    PROVE  InCode(a, i) <=> Fences(SubSeq(a, 1, i - 1)) % 2 = 1
<1>1. SubSeq(a, 1, i - 1) \in Seq(X) /\ DOMAIN SubSeq(a, 1, i - 1) = 1..i - 1
  OBVIOUS
<1>2. \A j \in 1..i - 1 : SubSeq(a, 1, i - 1)[j] = a[j]
  OBVIOUS
<1>3. {j \in 1..i - 1 : a[j].sort = "fence"}
        = {j \in DOMAIN SubSeq(a, 1, i - 1) : SubSeq(a, 1, i - 1)[j].sort = "fence"}
  BY <1>1, <1>2
<1> QED BY <1>3 DEF InCode, Fences

\* What follows a line does not move it in or out of a code block.
LEMMA InCodeLeft ==
    ASSUME NEW X, NEW a \in Seq(X), NEW b \in Seq(X), NEW i \in 1..Len(a)
    PROVE  InCode(a \o b, i) <=> InCode(a, i)
<1>1. \A j \in 1..i - 1 : (a \o b)[j] = a[j]
  OBVIOUS
<1>2. {j \in 1..i - 1 : (a \o b)[j].sort = "fence"} = {j \in 1..i - 1 : a[j].sort = "fence"}
  BY <1>1
<1> QED BY <1>2 DEF InCode

\* Nor does what precedes it, when all code blocks of that are closed.
LEMMA InCodeRight ==
    ASSUME NEW X, NEW a \in Seq(X), NEW b \in Seq(X), NEW i \in 1..Len(b), Fences(a) % 2 = 0
    PROVE  InCode(a \o b, Len(a) + i) <=> InCode(b, i)
<1> DEFINE c == SubSeq(b, 1, i - 1)
<1>1. c \in Seq(X) /\ a \o b \in Seq(X) /\ Len(a) + i \in 1..Len(a \o b) + 1 /\ i \in 1..Len(b) + 1
  OBVIOUS
<1>2. SubSeq(a \o b, 1, (Len(a) + i) - 1) = a \o c
  OBVIOUS
<1>3. Fences(a \o c) = Fences(a) + Fences(c) /\ Fences(a) \in Nat /\ Fences(c) \in Nat
  BY <1>1, FencesConcat, FencesAreNumbers
<1>4. InCode(a \o b, Len(a) + i) <=> Fences(a \o c) % 2 = 1
  BY <1>1, <1>2, InCodeCounts
<1>5. InCode(b, i) <=> Fences(c) % 2 = 1
  BY <1>1, InCodeCounts
<1> HIDE DEF c
<1> QED BY <1>3, <1>4, <1>5

---------------------------------------------------------------------------
(* Lines, items and descriptions *)

\* SubSeq, entry by entry.
LEMMA Slice ==
    ASSUME NEW X, NEW a \in Seq(X), NEW m \in 1..Len(a) + 1, NEW n \in 0..Len(a), n >= m - 1
    PROVE  /\ SubSeq(a, m, n) \in Seq(X) /\ Len(SubSeq(a, m, n)) = n - m + 1
           /\ DOMAIN SubSeq(a, m, n) = 1..n - m + 1
           /\ \A k \in 1..n - m + 1 : SubSeq(a, m, n)[k] = a[m + k - 1]
OBVIOUS

\* The lines that look like an item.
ListLines == [sort : {"item", "sub"}, box : Boxes, tags : Seq(Tags), title : Titles]

\* A board has columns, and no id twice.
Ordered(cols) ==
    /\ cols \in Seq(Column) /\ cols # <<>>
    /\ \A i, j \in DOMAIN cols : cols[i].id = cols[j].id => i = j

\* The columns of a board, their ids and tags, the first and the last.
LEMMA ColumnsAre ==
    ASSUME NEW cols, Ordered(cols)
    PROVE  /\ cols \in Seq(Column) /\ 1 \in DOMAIN cols /\ Len(cols) \in DOMAIN cols
           /\ Head(cols) = cols[1] /\ Last(cols) = cols[Len(cols)]
           /\ \A i \in DOMAIN cols : /\ cols[i] \in Column /\ cols[i].id \in Nat /\ cols[i].tag \in Tags
                                     /\ cols[i].id \in Ids(cols) /\ cols[i].tag \in TagsOf(cols)
           /\ Ids(cols) \subseteq Nat /\ Head(cols).id \in Ids(cols) /\ Last(cols).id \in Ids(cols)
<1>1. /\ cols \in Seq(Column) /\ cols # <<>> /\ 1 \in DOMAIN cols /\ Len(cols) \in DOMAIN cols
      /\ Head(cols) = cols[1] /\ Last(cols) = cols[Len(cols)]
  BY DEF Ordered, Last
<1>2. \A c \in Column : c.id \in Nat /\ c.tag \in Tags
  BY DEF Column
<1>3. \A i \in DOMAIN cols : cols[i] \in Column
  BY <1>1
<1> QED BY <1>1, <1>2, <1>3 DEF Ids, TagsOf

\* A line that looks like an item has the fields of one.
LEMMA ListLine ==
    ASSUME NEW line \in Lines, line.sort \in {"item", "sub"}
    PROVE  line \in ListLines
BY SyncAssumption DEF Lines, ListLines, Blank

\* Indenting and undenting keeps a line a line.
LEMMA MarksAreLines ==
    ASSUME NEW line \in Lines
    PROVE  Undent(line) \in Lines /\ Protect(line) \in Lines
<1>1. CASE line.sort \in {"item", "sub"}
  <2>1. line \in ListLines
    BY <1>1, ListLine
  <2>2. [line EXCEPT !.sort = "item"] \in ListLines /\ [line EXCEPT !.sort = "sub"] \in ListLines
    BY <2>1 DEF ListLines
  <2> QED BY <2>2 DEF Undent, Protect, Lines, ListLines
<1>2. CASE line.sort \notin {"item", "sub"}
  BY <1>2 DEF Undent, Protect
<1> QED BY <1>1, <1>2

\* There is one blank line.
LEMMA BlankIsLine == /\ Blank \in Lines /\ Blank.sort = "blank"
                     /\ \A line \in Lines : line.sort = "blank" => line = Blank
BY SyncAssumption DEF Lines, Blank

\* The lines that begin an item.
LEMMA ItemLinesAre ==
    ASSUME NEW lines \in Texts
    PROVE  /\ ItemLines(lines) \subseteq 1..Len(lines)
           /\ \A i \in ItemLines(lines) :
                /\ lines[i] \in ListLines /\ lines[i].title \in Titles
                /\ KeyOf[lines[i].title] \in Keys /\ KeyOf[lines[i].title] \in KeysIn(lines)
           /\ \A i, j \in ItemLines(lines) :
                KeyOf[lines[i].title] = KeyOf[lines[j].title] => i = j
           /\ KeysIn(lines) \subseteq Keys
<1>1. ItemLines(lines) \subseteq 1..Len(lines)
  BY DEF ItemLines, Texts
<1>2. ASSUME NEW i \in ItemLines(lines)
      PROVE  /\ lines[i] \in ListLines /\ lines[i].title \in Titles
             /\ KeyOf[lines[i].title] \in Keys /\ KeyOf[lines[i].title] \in KeysIn(lines)
  <2>1. lines[i] \in Lines /\ lines[i].sort = "item"
    BY <1>1 DEF ItemLines, LooksLikeItem, Texts
  <2>2. lines[i] \in ListLines
    BY <2>1, ListLine
  <2> QED BY <2>2 DEF ListLines, Keys, KeysIn
<1>3. ASSUME NEW i \in ItemLines(lines), NEW j \in ItemLines(lines),
             KeyOf[lines[i].title] = KeyOf[lines[j].title]
      PROVE  i = j
  <2>1. i \in Nat /\ j \in Nat /\ i >= 1 /\ j >= 1
    BY <1>1
  <2>2. ~(i < j) /\ ~(j < i)
    BY <1>3, <2>1 DEF ItemLines
  <2> QED BY <2>1, <2>2
<1>4. KeysIn(lines) \subseteq Keys
  BY <1>2 DEF KeysIn
<1> QED BY <1>1, <1>2, <1>3, <1>4

\* The item of a key that the text has.
LEMMA ItemOfKey ==
    ASSUME NEW lines \in Texts, NEW key \in KeysIn(lines)
    PROVE  /\ ItemOf(lines, key) \in ItemLines(lines)
           /\ KeyOf[lines[ItemOf(lines, key)].title] = key
<1>1. \E i \in ItemLines(lines) : KeyOf[lines[i].title] = key
  BY DEF KeysIn
<1> QED BY <1>1 DEF ItemOf

\* The block of an item ends before the next one, or at the end.
LEMMA LastLineIs ==
    ASSUME NEW lines \in Texts, NEW i \in 1..Len(lines)
    PROVE  /\ LastLine(lines, i) \in i..Len(lines)
           /\ \A k \in ItemLines(lines) : k > i => LastLine(lines, i) < k
           /\ \/ LastLine(lines, i) = Len(lines)
              \/ LastLine(lines, i) + 1 \in ItemLines(lines) /\ LastLine(lines, i) + 1 > i
<1> DEFINE S == {j - 1 : j \in {k \in ItemLines(lines) : k > i}} \cup {Len(lines)}
<1>1. ItemLines(lines) \subseteq 1..Len(lines) /\ Len(lines) \in Nat
  BY ItemLinesAre DEF Texts
<1>2. S \subseteq i..Len(lines) /\ S \subseteq Nat /\ S # {}
  BY <1>1
<1>3. LastLine(lines, i) = Min(S)
  BY DEF LastLine
<1>4. Min(S) \in S /\ \A k \in S : Min(S) <= k
  <2> HIDE DEF S
  <2> QED BY <1>2, LowestOf
<1>5. \A k \in ItemLines(lines) : k > i => Min(S) <= k - 1
  <2> SUFFICES ASSUME NEW k \in ItemLines(lines), k > i PROVE Min(S) <= k - 1
    OBVIOUS
  <2>1. k - 1 \in S
    OBVIOUS
  <2> HIDE DEF S
  <2> QED BY <1>4, <2>1
<1>6. \/ Min(S) = Len(lines)
      \/ Min(S) + 1 \in ItemLines(lines) /\ Min(S) + 1 > i
  <2>1. CASE Min(S) = Len(lines)
    BY <2>1
  <2>2. CASE Min(S) # Len(lines)
    <3>1. PICK j \in ItemLines(lines) : j > i /\ Min(S) = j - 1
      <4> HIDE DEF S
      <4>1. Min(S) \in S
        BY <1>4
      <4> QED BY <2>2, <4>1 DEF S
    <3>2. (j - 1) + 1 = j
      BY <1>1
    <3> HIDE DEF S
    <3> QED BY <3>1, <3>2
  <2> QED BY <2>1, <2>2
<1>7. Min(S) \in i..Len(lines)
  <2> HIDE DEF S
  <2> QED BY <1>2, <1>4
<1> HIDE DEF S
<1>8. \A k \in ItemLines(lines) : k > i => Min(S) < k
  BY <1>1, <1>5, <1>7
<1> QED BY <1>3, <1>6, <1>7, <1>8

\* A text without blank lines at its ends.
FullEnds(lines) ==
    lines # <<>> => lines[1].sort # "blank" /\ lines[Len(lines)].sort # "blank"

\* Trim leaves a text without blank lines at its ends.
LEMMA TrimIs ==
    ASSUME NEW a \in Texts
    PROVE  Trim(a) \in Texts /\ FullEnds(Trim(a))
<1> DEFINE full == {i \in DOMAIN a : a[i].sort # "blank"}
<1>1. full \subseteq 1..Len(a) /\ full \subseteq Nat /\ full \subseteq 0..Len(a) /\ Len(a) \in Nat
  BY DEF Texts
<1>2. CASE full = {}
  BY <1>2 DEF Trim, FullEnds, Texts
<1>3. CASE full # {}
  <2>1. Min(full) \in full /\ (\A k \in full : Min(full) <= k) /\ Max(full) \in full
    <3> HIDE DEF full
    <3> QED BY <1>1, <1>3, LowestOf, HighestOf
  <2>2. PICK m \in 1..Len(a), n \in 1..Len(a) : m <= n /\ m = Min(full) /\ n = Max(full)
    <3>1. Min(full) <= Max(full)
      BY <2>1
    <3> HIDE DEF full
    <3> QED BY <1>1, <2>1, <3>1
  <2>3. Trim(a) = SubSeq(a, m, n) /\ a[m].sort # "blank" /\ a[n].sort # "blank"
    BY <1>3, <2>1, <2>2 DEF Trim
  <2> HIDE DEF full
  <2>4. /\ SubSeq(a, m, n) \in Texts /\ Len(SubSeq(a, m, n)) = n - m + 1
        /\ \A k \in 1..n - m + 1 : SubSeq(a, m, n)[k] = a[m + k - 1]
    <3>1. m \in 1..Len(a) + 1 /\ n \in 0..Len(a) /\ n >= m - 1 /\ a \in Seq(Lines)
      BY <2>2 DEF Texts
    <3> QED BY <3>1, Slice DEF Texts
  <2>5. 1 \in 1..n - m + 1 /\ n - m + 1 \in 1..n - m + 1 /\ m + 1 - 1 = m /\ m + (n - m + 1) - 1 = n
    BY <2>2
  <2> QED BY <2>3, <2>4, <2>5 DEF FullEnds
<1> QED BY <1>2, <1>3

---------------------------------------------------------------------------
(* Positions, ids and single cards *)

\* There are M numbers in 1..M.
LEMMA UpTo ==
    ASSUME NEW M \in Nat
    PROVE  IsFiniteSet(1..M) /\ Cardinality(1..M) = M
<1>1. M >= 1 => Cardinality(1..M) = M - 1 + 1
  BY FS_Interval
<1>2. M = 0 => Cardinality(1..M) = 0
  BY FS_Interval
<1> QED BY <1>1, <1>2, FS_Interval

\* Picked takes the entries at the positions given, and all of them.
LEMMA PickedIs ==
    ASSUME NEW X, NEW s \in Seq(X), NEW S \in SUBSET (1..Len(s))
    PROVE  /\ Picked(s, S) \in Seq(X) /\ Len(Picked(s, S)) = Cardinality(S)
           /\ DOMAIN Picked(s, S) = 1..Cardinality(S) /\ Cardinality(S) \in Nat
           /\ \A n \in 1..Cardinality(S) : Sorted(S)[n] \in S /\ Picked(s, S)[n] = s[Sorted(S)[n]]
           /\ \A j \in S : \E n \in 1..Cardinality(S) : Picked(s, S)[n] = s[j]
<1>1. /\ Sorted(S) \in [1..Cardinality(S) -> S] /\ Cardinality(S) \in Nat
      /\ \A x \in S : \E n \in 1..Cardinality(S) : Sorted(S)[n] = x
  <2>1. Len(s) \in Nat
    OBVIOUS
  <2> QED BY <2>1, SortedSet
<1> PICK M \in Nat : M = Cardinality(S)
  BY <1>1
<1> PICK at \in [1..M -> S] : at = Sorted(S)
  BY <1>1
<1>2. Picked(s, S) = [n \in 1..M |-> s[at[n]]]
  BY DEF Picked
<1>3. \A n \in 1..M : at[n] \in 1..Len(s) /\ s[at[n]] \in X
  <2> SUFFICES ASSUME NEW n \in 1..M PROVE at[n] \in 1..Len(s) /\ s[at[n]] \in X
    OBVIOUS
  <2>1. at[n] \in S
    OBVIOUS
  <2> PICK x \in 1..Len(s) : x = at[n]
    BY <2>1
  <2>2. s[x] \in X
    OBVIOUS
  <2> QED BY <2>2
<1>4. Picked(s, S) \in Seq(X) /\ Len(Picked(s, S)) = M
  BY <1>2, <1>3
<1> QED BY <1>1, <1>2, <1>4

\* All positions in their order are the sequence itself.
LEMMA PickedAll ==
    ASSUME NEW X, NEW s \in Seq(X)
    PROVE  Picked(s, DOMAIN s) = s
<1> PICK M \in Nat : M = Len(s) /\ DOMAIN s = 1..M
  OBVIOUS
<1>1. Cardinality(1..M) = M
  BY UpTo
<1>2. \A x \in 1..M : Cardinality(Below(1..M, x)) = x - 1
  <2> SUFFICES ASSUME NEW x \in 1..M PROVE Cardinality(Below(1..M, x)) = x - 1
    OBVIOUS
  <2>1. Below(1..M, x) = 0 + 1..x - 1
    BY DEF Below
  <2>2. PICK b \in Nat : b = x - 1
    OBVIOUS
  <2>3. Cardinality(1..b) = b
    BY UpTo
  <2> QED BY <2>1, <2>2, <2>3
<1>3. Sorted(1..M) = [n \in 1..M |-> CHOOSE x \in 1..M : Cardinality(Below(1..M, x)) = n - 1]
  BY <1>1 DEF Sorted, Below
<1>4. \A n \in 1..M : Sorted(1..M)[n] = n
  <2> SUFFICES ASSUME NEW n \in 1..M PROVE Sorted(1..M)[n] = n
    OBVIOUS
  <2>1. Sorted(1..M)[n] = CHOOSE x \in 1..M : Cardinality(Below(1..M, x)) = n - 1
    BY <1>3
  <2>2. \A x \in 1..M : Cardinality(Below(1..M, x)) = n - 1 <=> x = n
    BY <1>2
  <2>3. (CHOOSE x \in 1..M : Cardinality(Below(1..M, x)) = n - 1) = n
    BY <2>2
  <2> QED BY <2>1, <2>3
<1>5. DOMAIN Sorted(1..M) = 1..M
  BY <1>3
<1>6. Picked(s, 1..M) = [n \in 1..M |-> s[Sorted(1..M)[n]]]
  BY <1>5 DEF Picked
<1>7. [n \in 1..M |-> s[Sorted(1..M)[n]]] = s
  BY <1>4
<1> QED BY <1>6, <1>7

\* All but the first, when one was put in front.
LEMMA PickedRest ==
    ASSUME NEW X, NEW x \in X, NEW u \in Seq(X)
    PROVE  Picked(<<x>> \o u, 2..Len(u) + 1) = u
<1> PICK M \in Nat : M = Len(u) /\ DOMAIN u = 1..M
  OBVIOUS
<1> DEFINE s == <<x>> \o u
           S == 2..M + 1
<1>1. Cardinality(S) = M
  <2>1. PICK b \in Int : b = M + 1
    OBVIOUS
  <2>2. 2 \in Int /\ b \in Int
    OBVIOUS
  <2>3. Cardinality(2..b) = IF 2 > b THEN 0 ELSE b - 2 + 1
    BY ONLY <2>2, FS_Interval
  <2> QED BY <2>1, <2>3
<1>2. \A k \in S : Cardinality(Below(S, k)) = k - 2
  <2> SUFFICES ASSUME NEW k \in S PROVE Cardinality(Below(S, k)) = k - 2
    OBVIOUS
  <2>1. Below(S, k) = 2..k - 1
    BY DEF Below
  <2>2. PICK b \in Int : b = k - 1
    OBVIOUS
  <2>3. 2 \in Int /\ b \in Int
    OBVIOUS
  <2>4. Cardinality(2..b) = IF 2 > b THEN 0 ELSE b - 2 + 1
    BY ONLY <2>3, FS_Interval
  <2> QED BY <2>1, <2>2, <2>4
<1>3. Sorted(S) = [n \in 1..M |-> CHOOSE k \in S : Cardinality(Below(S, k)) = n - 1]
  BY <1>1 DEF Sorted, Below
<1>4. \A n \in 1..M : Sorted(S)[n] = n + 1
  <2> SUFFICES ASSUME NEW n \in 1..M PROVE Sorted(S)[n] = n + 1
    OBVIOUS
  <2>1. Sorted(S)[n] = CHOOSE k \in S : Cardinality(Below(S, k)) = n - 1
    BY <1>3
  <2>2. \A k \in S : Cardinality(Below(S, k)) = n - 1 <=> k = n + 1
    BY <1>2
  <2>3. n + 1 \in S
    OBVIOUS
  <2> HIDE DEF S
  <2>4. (CHOOSE k \in S : Cardinality(Below(S, k)) = n - 1) = n + 1
    BY <2>2, <2>3
  <2> QED BY <2>1, <2>4
<1>5. DOMAIN Sorted(S) = 1..M
  BY <1>3
<1> HIDE DEF S
<1>6. Picked(s, S) = [n \in 1..M |-> s[Sorted(S)[n]]]
  BY <1>5 DEF Picked
<1>7. \A n \in 1..M : s[n + 1] = u[n]
  OBVIOUS
<1> HIDE DEF s
<1>8. [n \in 1..M |-> s[Sorted(S)[n]]] = [n \in 1..M |-> u[n]]
  BY <1>4, <1>7
<1>9. [n \in 1..M |-> u[n]] = u
  OBVIOUS
<1>10. Picked(s, S) = u
  BY <1>6, <1>8, <1>9
<1> QED BY <1>10 DEF s, S

\* A text without repeated blank lines is a text.
LEMMA OneBlankType ==
    ASSUME NEW lines \in Texts
    PROVE  OneBlank(lines) \in Texts
<1>1. DOMAIN lines \ Repeats(lines) \in SUBSET (1..Len(lines)) /\ lines \in Seq(Lines)
  BY DEF Texts
<1> QED BY <1>1, PickedIs DEF OneBlank, Texts

\* OneBlank keeps the ends and leaves no two blank lines side by side.
LEMMA OneBlankIs ==
    ASSUME NEW a \in Texts, FullEnds(a)
    PROVE  OneBlank(a) \in Texts /\ Trimmed(OneBlank(a))
<1> PICK N \in Nat : N = Len(a) /\ DOMAIN a = 1..N /\ a \in Seq(Lines)
  BY DEF Texts
<1> DEFINE S == 1..N \ Repeats(a)
<1>1. S \in SUBSET (1..N)
  OBVIOUS
<1>2. \A k \in 1..N : k \in S <=> ~(k \in 2..N /\ a[k] = Blank /\ a[k - 1] = Blank)
  BY DEF Repeats
<1> HIDE DEF S
<1> PICK M \in Nat : M = Cardinality(S)
  BY <1>1, SortedSet
<1> PICK at \in [1..M -> S] : at = Sorted(S)
  BY <1>1, SortedSet
<1>3. /\ \A n, m \in 1..M : n < m => at[n] < at[m]
      /\ \A k \in S : \E n \in 1..M : at[n] = k
  BY <1>1, SortedSet
<1> PICK b \in Seq(Lines) : /\ b = OneBlank(a) /\ Len(b) = M /\ DOMAIN b = 1..M
                           /\ \A n \in 1..M : b[n] = a[at[n]]
  <2>1. OneBlank(a) = Picked(a, S)
    BY DEF OneBlank, S
  <2> QED BY <1>1, <2>1, PickedIs
<1>4. \A n \in 1..M : at[n] \in 1..N
  BY <1>1
<1>5. b # <<>> => b[1].sort # "blank" /\ b[M].sort # "blank"
  <2> SUFFICES ASSUME b # <<>> PROVE b[1].sort # "blank" /\ b[M].sort # "blank"
    OBVIOUS
  <2>1. 1 \in 1..M /\ M \in 1..M
    OBVIOUS
  <2>2. 1 \in 1..N /\ N \in 1..N
    BY <1>4, <2>1
  <2>3. a # <<>> /\ a[1].sort # "blank" /\ a[N].sort # "blank"
    BY <2>2 DEF FullEnds
  <2>4. 1 \in S /\ N \in S
    BY <1>2, <2>2, <2>3, BlankIsLine
  <2>5. at[1] = 1
    <3> PICK n \in 1..M : at[n] = 1
      BY <1>3, <2>4
    <3>1. ~(1 < n)
      BY <1>3, <1>4, <2>1
    <3> QED BY <3>1
  <2>6. at[M] = N
    <3> PICK n \in 1..M : at[n] = N
      BY <1>3, <2>4
    <3>1. ~(n < M)
      BY <1>3, <1>4, <2>1
    <3> QED BY <3>1
  <2> QED BY <2>1, <2>3, <2>5, <2>6
<1>6. ASSUME NEW n \in 2..M, b[n] = Blank, b[n - 1] = Blank PROVE FALSE
  <2>1. n \in 1..M /\ n - 1 \in 1..M /\ n - 1 < n
    OBVIOUS
  <2> PICK k \in 1..N, j \in 1..N : k = at[n] /\ j = at[n - 1] /\ k \in S
    BY <1>4, <2>1
  <2>2. j < k /\ a[k] = Blank /\ a[j] = Blank
    BY <1>3, <1>6, <2>1
  <2>3. k \in 2..N /\ k - 1 \in 1..N
    BY <2>2
  <2>4. a[k - 1] # Blank
    BY <1>2, <2>2, <2>3
  <2>5. k - 1 \in S
    BY <1>2, <2>3, <2>4
  <2> PICK m \in 1..M : at[m] = k - 1
    BY <1>3, <2>5
  <2>6. ~(n < m) /\ m # n
    BY <1>3, <2>1
  <2>7. m # n - 1
    BY <2>2, <2>4
  <2>8. m < n - 1
    BY <2>6, <2>7
  <2>9. k - 1 < j
    BY <1>3, <2>1, <2>8
  <2> QED BY <2>2, <2>9
<1>7. b \in Texts
  BY DEF Texts
<1> QED BY <1>5, <1>6, <1>7 DEF Trimmed

\* A trimmed text has no repeated blank lines to take out.
LEMMA OneBlankAgain ==
    ASSUME NEW d \in Texts, Trimmed(d)
    PROVE  OneBlank(d) = d
<1>1. Repeats(d) = {}
  BY DEF Repeats, Trimmed
<1>2. OneBlank(d) = Picked(d, DOMAIN d)
  BY <1>1 DEF OneBlank
<1> QED BY <1>2, PickedAll DEF Texts

\* The description of an item is a trimmed text.
LEMMA DescriptionIs ==
    ASSUME NEW lines \in Texts, NEW i \in 1..Len(lines)
    PROVE  DescriptionAt(lines, i) \in Texts /\ Trimmed(DescriptionAt(lines, i))
<1>1. PICK n \in i..Len(lines) : n = LastLine(lines, i)
  BY LastLineIs
<1> DEFINE s == SubSeq(lines, i + 1, n)
           u == [j \in DOMAIN s |-> Undent(s[j])]
<1>2. s \in Texts
  BY DEF Texts
<1>3. u \in Texts
  <2> HIDE DEF s
  <2>1. \A j \in 1..Len(s) : Undent(s[j]) \in Lines
    BY <1>2, MarksAreLines DEF Texts
  <2> QED BY <1>2, <2>1 DEF Texts
<1>4. DescriptionAt(lines, i) = OneBlank(Trim(u))
  BY <1>1 DEF DescriptionAt, Each
<1> HIDE DEF u
<1> QED BY <1>3, <1>4, TrimIs, OneBlankIs

\* There are always as many fresh ids as asked for.
LEMMA FreshIdsAre ==
    ASSUME NEW X, NEW cs \in Seq(X), NEW k \in Nat
    PROVE  \A n \in 1..k : FreshIds(cs, k)[n] \in Nat \ {cs[i].id : i \in DOMAIN cs}
<1> DEFINE used == {cs[i].id : i \in DOMAIN cs}
           S == (1..Len(cs) + k) \ used
<1> PICK M \in Nat : M = Len(cs) /\ DOMAIN cs = 1..M
  OBVIOUS
<1>1. IsFiniteSet(used) /\ Cardinality(used) <= M /\ Cardinality(used) \in Nat
  <2> DEFINE f == [i \in 1..M |-> cs[i].id]
  <2>1. f \in Surjection(1..M, used)
    BY DEF Surjection
  <2>2. IsFiniteSet(1..M) /\ Cardinality(1..M) = M
    BY UpTo
  <2> HIDE DEF f, used
  <2> QED BY <2>1, <2>2, FS_Surjection, FS_CardinalityType
<1>2. Cardinality(S) \in Nat /\ Cardinality(S) >= k
  <2>1. PICK b \in Nat : b = M + k
    OBVIOUS
  <2>2. IsFiniteSet(1..b) /\ Cardinality(1..b) = b
    BY UpTo
  <2> HIDE DEF used
  <2>3. IsFiniteSet((1..b) \ used) /\ Cardinality((1..b) \ used) = b - Cardinality((1..b) \cap used)
    BY <2>2, FS_Difference
  <2>4. IsFiniteSet(used \cap (1..b)) /\ Cardinality(used \cap (1..b)) <= Cardinality(used)
    BY <1>1, FS_Intersection
  <2>5. Cardinality(used \cap (1..b)) \in Nat /\ used \cap (1..b) = (1..b) \cap used
    BY <2>4, FS_CardinalityType
  <2>6. Cardinality((1..b) \ used) \in Nat
    BY <2>3, FS_CardinalityType
  <2>7. Cardinality((1..b) \ used) >= k
    <3> PICK p \in Nat : p = Cardinality(used)
      BY <1>1
    <3> PICK q \in Nat : q = Cardinality((1..b) \cap used)
      BY <2>5
    <3> PICK r \in Nat : r = Cardinality((1..b) \ used)
      BY <2>6
    <3>1. p <= M
      BY <1>1
    <3>2. q <= p
      BY <2>4, <2>5
    <3>3. r = b - q /\ b = M + k
      BY <2>1, <2>3
    <3>4. r >= k
      BY <3>1, <3>2, <3>3
    <3> QED BY <3>4
  <2> QED BY <2>1, <2>6, <2>7
<1>3. S \in SUBSET (1..M + k) /\ M + k \in Nat
  OBVIOUS
<1>4. FreshIds(cs, k) = Sorted(S)
  BY DEF FreshIds
<1> HIDE DEF S
<1>5. Sorted(S) \in [1..Cardinality(S) -> S]
  BY <1>3, SortedSet
<1> SUFFICES ASSUME NEW n \in 1..k PROVE Sorted(S)[n] \in Nat \ used
  BY <1>4
<1>6. n \in 1..Cardinality(S)
  BY <1>2
<1>7. Sorted(S)[n] \in S
  BY <1>5, <1>6
<1>8. S \subseteq Nat \ used
  BY DEF S
<1> QED BY <1>7, <1>8

\* The tags that are read from an item, and those that stay in its title.
LEMMA TagsRead ==
    ASSUME NEW cols, Ordered(cols), NEW tags \in Seq(Tags)
    PROVE  /\ ReadTags(cols, tags) \subseteq 1..Len(tags)
           /\ TitleTags(cols, tags) \in Seq(Tags)
           /\ ReadTags(cols, tags) = {} => TitleTags(cols, tags) = tags
           /\ ReadTags(cols, tags) # {} => Max(ReadTags(cols, tags)) \in ReadTags(cols, tags)
<1> DEFINE S == ReadTags(cols, tags)
<1>1. S \subseteq 1..Len(tags) /\ S \subseteq 0..Len(tags) /\ Len(tags) \in Nat
  BY DEF ReadTags
<1>2. DOMAIN tags \ S \in SUBSET (1..Len(tags)) /\ (S = {} => DOMAIN tags \ S = DOMAIN tags)
  <2> HIDE DEF S
  <2> QED OBVIOUS
<1>3. TitleTags(cols, tags) = Picked(tags, DOMAIN tags \ S)
  BY DEF TitleTags
<1> HIDE DEF S
<1>4. TitleTags(cols, tags) \in Seq(Tags)
  BY <1>2, <1>3, PickedIs
<1>5. S = {} => TitleTags(cols, tags) = tags
  BY <1>2, <1>3, PickedAll
<1>6. S # {} => Max(S) \in S
  BY <1>1, HighestOf
<1> QED BY <1>1, <1>4, <1>5, <1>6 DEF S

\* The column of a title is the first with that title.
LEMMA TitledIs ==
    ASSUME NEW cols, Ordered(cols), NEW tag \in TagsOf(cols)
    PROVE  \E k \in DOMAIN cols : cols[k].tag = tag /\ Titled(cols, tag) = cols[k].id
<1> DEFINE S == {i \in DOMAIN cols : cols[i].tag = tag}
<1>1. S \subseteq Nat /\ S # {}
  BY ColumnsAre DEF TagsOf
<1>2. Titled(cols, tag) = cols[Min(S)].id
  BY DEF Titled
<1>3. Min(S) \in S
  <2> HIDE DEF S
  <2> QED BY <1>1, LowestOf
<1> QED BY <1>2, <1>3

\* The column of an item is a column of the board.
LEMMA ColumnOfItem ==
    ASSUME NEW cols, Ordered(cols), NEW item \in ListLines
    PROVE  /\ ColumnForItem(cols, item) \in Ids(cols) /\ ColumnForItem(cols, item) \in Nat
           /\ TitleTags(cols, item.tags) \in Seq(Tags)
<1>1. item.tags \in Seq(Tags)
  BY DEF ListLines
<1> DEFINE read == ReadTags(cols, item.tags)
<1>2. ASSUME read # {} PROVE Titled(cols, item.tags[Max(read)]) \in Ids(cols)
  <2>1. Max(read) \in read
    BY <1>1, <1>2, TagsRead
  <2>2. item.tags[Max(read)] \in TagsOf(cols)
    BY <2>1 DEF ReadTags
  <2> QED BY <2>2, TitledIs, ColumnsAre
<1> HIDE DEF read
<1>3. ColumnForItem(cols, item) \in Ids(cols)
  BY <1>2, ColumnsAre DEF ColumnForItem, read
<1> QED BY <1>1, <1>3, TagsRead, ColumnsAre

\* A card for an item is a card, with the key and a trimmed description.
LEMMA CardOfItem ==
    ASSUME NEW cols, Ordered(cols), NEW lines \in Texts, NEW i \in ItemLines(lines), NEW id \in Nat
    PROVE  /\ CardFor(cols, lines, i, id) \in Cards
           /\ CardFor(cols, lines, i, id).key = KeyOf[lines[i].title]
           /\ CardFor(cols, lines, i, id).key # Null
           /\ CardFor(cols, lines, i, id).title = lines[i].title
           /\ CardFor(cols, lines, i, id).desc = DescriptionAt(lines, i)
           /\ CardFor(cols, lines, i, id).col = ColumnForItem(cols, lines[i])
           /\ CardFor(cols, lines, i, id).tags = TitleTags(cols, lines[i].tags)
           /\ CardFor(cols, lines, i, id).id = id
           /\ Trimmed(CardFor(cols, lines, i, id).desc)
<1>1. /\ lines[i] \in ListLines /\ lines[i].title \in Titles /\ KeyOf[lines[i].title] \in Keys
      /\ i \in 1..Len(lines)
  BY ItemLinesAre
<1>2. DescriptionAt(lines, i) \in Texts /\ Trimmed(DescriptionAt(lines, i))
  BY <1>1, DescriptionIs
<1>3. ColumnForItem(cols, lines[i]) \in Nat /\ TitleTags(cols, lines[i].tags) \in Seq(Tags)
  BY <1>1, ColumnOfItem
<1> QED BY <1>1, <1>2, <1>3, SyncAssumption DEF CardFor, Cards

---------------------------------------------------------------------------
(* The board that is read from a text *)

\* Every card has its key, and its description is trimmed.
Settled(cs) == cs \in Seq(Cards) /\ \A n \in DOMAIN cs : cs[n].key # Null /\ Trimmed(cs[n].desc)

\* Every card is as its item in the text, and every item has a card.
FromText(cols, cs, lines) ==
    /\ \A n \in DOMAIN cs :
           LET i == ItemOf(lines, cs[n].key) IN
           /\ cs[n].key \in KeysIn(lines)
           /\ cs[n].title = lines[i].title
           /\ cs[n].desc = DescriptionAt(lines, i)
           /\ cs[n].col = ColumnForItem(cols, lines[i])
           /\ cs[n].tags = TitleTags(cols, lines[i].tags)
    /\ \A key \in KeysIn(lines) : \E n \in DOMAIN cs : cs[n].key = key

\* What the sync makes of a card that stays.
Updated(cols, lines, c) == CardFor(cols, lines, ItemOf(lines, c.key), c.id)

\* The new cards are made from items, for every item whose key no card has.
LEMMA NewCardsAre ==
    ASSUME NEW cols, Ordered(cols), NEW lines \in Texts, NEW cs \in Seq(Cards)
    PROVE  LET new == NewCards(cols, cs, lines)
               held == {cs[j].key : j \in DOMAIN cs}
           IN  /\ new \in Seq(Cards)
               /\ \A n \in DOMAIN new :
                      \E i \in ItemLines(lines), id \in Nat : new[n] = CardFor(cols, lines, i, id)
               /\ \A i \in ItemLines(lines) : KeyOf[lines[i].title] \notin held =>
                      \E n \in DOMAIN new, id \in Nat : new[n] = CardFor(cols, lines, i, id)
               /\ KeysIn(lines) \subseteq held => new = <<>>
<1> DEFINE held == {cs[j].key : j \in DOMAIN cs}
           S == {i \in ItemLines(lines) : KeyOf[lines[i].title] \notin held}
           new == NewCards(cols, cs, lines)
<1>1. ItemLines(lines) \subseteq 1..Len(lines) /\ Len(lines) \in Nat
  BY ItemLinesAre DEF Texts
<1>2. S \in SUBSET (1..Len(lines)) /\ S \subseteq ItemLines(lines)
  BY <1>1
<1>3. new = [n \in DOMAIN Sorted(S) |->
                 CardFor(cols, lines, Sorted(S)[n], FreshIds(cs, Len(Sorted(S)))[n])]
  BY DEF NewCards
<1>4. KeysIn(lines) \subseteq held => S = {}
  BY DEF KeysIn
<1>5. \A i \in ItemLines(lines) : KeyOf[lines[i].title] \notin held => i \in S
  OBVIOUS
<1> HIDE DEF S
<1>6. /\ Sorted(S) \in [1..Cardinality(S) -> S] /\ Cardinality(S) \in Nat
      /\ \A x \in S : \E n \in 1..Cardinality(S) : Sorted(S)[n] = x
  BY <1>1, <1>2, SortedSet
<1> PICK M \in Nat : M = Cardinality(S)
  BY <1>6
<1> PICK at \in [1..M -> S] : at = Sorted(S)
  BY <1>6
<1>7. Len(at) = M /\ DOMAIN at = 1..M
  OBVIOUS
<1>8. \A n \in 1..M : FreshIds(cs, M)[n] \in Nat
  BY FreshIdsAre
<1> DEFINE id(n) == FreshIds(cs, M)[n]
<1>9. new = [n \in 1..M |-> CardFor(cols, lines, at[n], id(n))]
  BY <1>3, <1>7
<1>10. \A n \in 1..M : id(n) \in Nat
  BY <1>8
<1> HIDE DEF id, new, held
<1>11. \A n \in 1..M : at[n] \in ItemLines(lines)
  BY <1>2
<1>12. \A n \in 1..M : new[n] = CardFor(cols, lines, at[n], id(n)) /\ new[n] \in Cards
  BY <1>9, <1>10, <1>11, CardOfItem
<1>13. new \in Seq(Cards) /\ DOMAIN new = 1..M
  BY <1>9, <1>12
<1>14. \A n \in DOMAIN new : \E i \in ItemLines(lines), d \in Nat : new[n] = CardFor(cols, lines, i, d)
  BY <1>10, <1>11, <1>12, <1>13
<1>15. \A i \in S : \E n \in DOMAIN new, d \in Nat : new[n] = CardFor(cols, lines, i, d)
  <2> SUFFICES ASSUME NEW i \in S
               PROVE  \E n \in DOMAIN new, d \in Nat : new[n] = CardFor(cols, lines, i, d)
    OBVIOUS
  <2>1. PICK n \in 1..M : at[n] = i
    BY <1>6
  <2> QED BY <1>10, <1>12, <1>13, <2>1
<1>16. S = {} => M = 0
  BY FS_EmptySet
<1>17. KeysIn(lines) \subseteq held => new = <<>>
  BY <1>4, <1>9, <1>16
<1> QED BY <1>5, <1>13, <1>14, <1>15, <1>17 DEF held, new

\* The cards old are those that a sync keeps, with the content of their items.
Carried(cols, cs, lines, old) ==
    /\ SyncBoard(cols, cs, lines) = old \o NewCards(cols, cs, lines)
    /\ \A n \in DOMAIN old :
           \E j \in DOMAIN cs : /\ cs[j].key \in KeysIn(lines)
                                /\ old[n] = Updated(cols, lines, cs[j])
    /\ \A j \in DOMAIN cs : cs[j].key \in KeysIn(lines) =>
           \E n \in DOMAIN old : old[n] = Updated(cols, lines, cs[j])
    /\ (\A j \in DOMAIN cs : cs[j].key \in KeysIn(lines)) =>
           old = [j \in DOMAIN cs |-> Updated(cols, lines, cs[j])]

\* The board after the sync: the cards that stay, then the new ones.
LEMMA SyncBoardIs ==
    ASSUME NEW cols, Ordered(cols), NEW lines \in Texts, NEW cs, Settled(cs)
    PROVE  \E old \in Seq(Cards) : Carried(cols, cs, lines, old)
<1> DEFINE S == {j \in DOMAIN cs : cs[j].key \in KeysIn(lines) \cup {Null}}
           stay == Picked(cs, S)
           old == [n \in DOMAIN stay |-> Updated(cols, lines, stay[n])]
           all == \A j \in DOMAIN cs : cs[j].key \in KeysIn(lines)
<1>1. cs \in Seq(Cards) /\ DOMAIN cs = 1..Len(cs) /\ Len(cs) \in Nat
  BY DEF Settled
<1>2. /\ S \in SUBSET (1..Len(cs))
      /\ \A j \in S : cs[j].key \in KeysIn(lines)
      /\ \A j \in DOMAIN cs : cs[j].key \in KeysIn(lines) => j \in S
      /\ all => S = DOMAIN cs
  BY <1>1 DEF Settled
<1>3. SyncBoard(cols, cs, lines)
          = Each(LAMBDA c : IF c.key = Null THEN c ELSE Updated(cols, lines, c), stay)
              \o NewCards(cols, cs, lines)
  BY DEF SyncBoard, Updated
<1> HIDE DEF S
<1>4. /\ stay \in Seq(Cards) /\ DOMAIN stay = 1..Cardinality(S) /\ Cardinality(S) \in Nat
      /\ \A n \in 1..Cardinality(S) : Sorted(S)[n] \in S /\ stay[n] = cs[Sorted(S)[n]]
      /\ \A j \in S : \E n \in 1..Cardinality(S) : stay[n] = cs[j]
  BY <1>1, <1>2, PickedIs
<1>5. all => stay = cs
  BY <1>1, <1>2, PickedAll
<1> HIDE DEF stay
<1>6. \A n \in DOMAIN stay : \E j \in S : stay[n] = cs[j]
  BY <1>4
<1>7. \A n \in DOMAIN stay : stay[n].key # Null
  BY <1>2, <1>6, <1>1 DEF Settled
<1>8. Each(LAMBDA c : IF c.key = Null THEN c ELSE Updated(cols, lines, c), stay) = old
  BY <1>7 DEF Each
<1>9. \A j \in S : Updated(cols, lines, cs[j]) \in Cards
  <2> SUFFICES ASSUME NEW j \in S PROVE Updated(cols, lines, cs[j]) \in Cards
    OBVIOUS
  <2> PICK c \in Cards : c = cs[j]
    BY <1>1, <1>2
  <2>1. c.id \in Nat /\ c.key \in KeysIn(lines)
    BY <1>2 DEF Cards
  <2> QED BY <2>1, ItemOfKey, CardOfItem DEF Updated
<1>10. \A n \in DOMAIN stay : old[n] \in Cards
  BY <1>6, <1>9
<1>11. old \in Seq(Cards) /\ DOMAIN old = DOMAIN stay
  BY <1>4, <1>10
<1>12. \A n \in DOMAIN old :
           \E j \in DOMAIN cs : cs[j].key \in KeysIn(lines) /\ old[n] = Updated(cols, lines, cs[j])
  BY <1>1, <1>2, <1>6, <1>11
<1>13. \A j \in DOMAIN cs : cs[j].key \in KeysIn(lines) =>
           \E n \in DOMAIN old : old[n] = Updated(cols, lines, cs[j])
  BY <1>2, <1>4, <1>11
<1>14. all => old = [j \in DOMAIN cs |-> Updated(cols, lines, cs[j])]
  BY <1>5
<1> HIDE DEF old
<1> QED BY <1>3, <1>8, <1>11, <1>12, <1>13, <1>14 DEF Carried

\* A card that stays takes all but its id and key from its item.
LEMMA UpdatedIs ==
    ASSUME NEW cols, Ordered(cols), NEW lines \in Texts, NEW c \in Cards, c.key \in KeysIn(lines)
    PROVE  LET u == Updated(cols, lines, c)
               i == ItemOf(lines, c.key)
           IN  /\ u \in Cards /\ u.key = c.key /\ u.key # Null /\ u.id = c.id
               /\ u.title = lines[i].title /\ u.desc = DescriptionAt(lines, i)
               /\ u.col = ColumnForItem(cols, lines[i]) /\ Trimmed(u.desc)
               /\ u.tags = TitleTags(cols, lines[i].tags)
<1>1. c.id \in Nat
  BY DEF Cards
<1> QED BY <1>1, ItemOfKey, CardOfItem DEF Updated

\* After the sync every card is as its item, and every item has its card.
LEMMA SyncedBoard ==
    ASSUME NEW cols, Ordered(cols), NEW lines \in Texts, NEW cs, Settled(cs)
    PROVE  /\ Settled(SyncBoard(cols, cs, lines))
           /\ FromText(cols, SyncBoard(cols, cs, lines), lines)
<1> PICK old \in Seq(Cards) : Carried(cols, cs, lines, old)
  BY SyncBoardIs
<1>1. cs \in Seq(Cards) /\ \A j \in DOMAIN cs : cs[j] \in Cards
  BY DEF Settled
<1> DEFINE held == {cs[j].key : j \in DOMAIN cs}
<1> PICK new \in Seq(Cards) :
               /\ new = NewCards(cols, cs, lines)
               /\ \A n \in DOMAIN new :
                      \E i \in ItemLines(lines), id \in Nat : new[n] = CardFor(cols, lines, i, id)
               /\ \A i \in ItemLines(lines) : KeyOf[lines[i].title] \notin held =>
                      \E n \in DOMAIN new, id \in Nat : new[n] = CardFor(cols, lines, i, id)
  BY <1>1, NewCardsAre
<1> DEFINE R == old \o new
           Good(c) == LET i == ItemOf(lines, c.key) IN
                      /\ c \in Cards /\ c.key # Null /\ Trimmed(c.desc)
                      /\ c.key \in KeysIn(lines)
                      /\ c.title = lines[i].title
                      /\ c.desc = DescriptionAt(lines, i)
                      /\ c.col = ColumnForItem(cols, lines[i])
                      /\ c.tags = TitleTags(cols, lines[i].tags)
<1>2. \A n \in DOMAIN old : Good(old[n])
  <2> SUFFICES ASSUME NEW n \in DOMAIN old PROVE Good(old[n])
    OBVIOUS
  <2>1. PICK j \in DOMAIN cs : cs[j].key \in KeysIn(lines) /\ old[n] = Updated(cols, lines, cs[j])
    BY DEF Carried
  <2> QED BY <1>1, <2>1, UpdatedIs
<1>3. \A i \in ItemLines(lines) : ItemOf(lines, KeyOf[lines[i].title]) = i
  <2> SUFFICES ASSUME NEW i \in ItemLines(lines)
               PROVE  ItemOf(lines, KeyOf[lines[i].title]) = i
    OBVIOUS
  <2> DEFINE key == KeyOf[lines[i].title]
  <2>1. key \in KeysIn(lines)
    BY ItemLinesAre
  <2>2. ItemOf(lines, key) \in ItemLines(lines) /\ KeyOf[lines[ItemOf(lines, key)].title] = key
    BY <2>1, ItemOfKey
  <2> QED BY <2>2, ItemLinesAre
<1>4. \A i \in ItemLines(lines), id \in Nat : Good(CardFor(cols, lines, i, id))
  <2> SUFFICES ASSUME NEW i \in ItemLines(lines), NEW id \in Nat
               PROVE  Good(CardFor(cols, lines, i, id))
    OBVIOUS
  <2>1. KeyOf[lines[i].title] \in KeysIn(lines)
    BY ItemLinesAre
  <2> QED BY <1>3, <2>1, CardOfItem
<1> HIDE DEF Good
<1>5. \A n \in DOMAIN new : Good(new[n])
  BY <1>4
<1>6. /\ DOMAIN R = 1..Len(old) + Len(new) /\ Len(old) \in Nat /\ Len(new) \in Nat
      /\ R \in Seq(Cards)
      /\ \A n \in DOMAIN old : R[n] = old[n] /\ n \in DOMAIN R
      /\ \A n \in DOMAIN new : R[Len(old) + n] = new[n] /\ Len(old) + n \in DOMAIN R
  OBVIOUS
<1>7. \A n \in DOMAIN R : \/ n \in DOMAIN old
                          \/ \E m \in DOMAIN new : n = Len(old) + m
  <2> SUFFICES ASSUME NEW n \in DOMAIN R, n \notin DOMAIN old
               PROVE  \E m \in DOMAIN new : n = Len(old) + m
    OBVIOUS
  <2> WITNESS n - Len(old) \in DOMAIN new
  <2> QED BY <1>6
<1>8. \A n \in DOMAIN R : Good(R[n])
  BY <1>2, <1>5, <1>6, <1>7
<1>9. \A key \in KeysIn(lines) : \E n \in DOMAIN R : R[n].key = key
  <2> SUFFICES ASSUME NEW key \in KeysIn(lines) PROVE \E n \in DOMAIN R : R[n].key = key
    OBVIOUS
  <2>1. CASE key \in held
    <3>1. PICK j \in DOMAIN cs : cs[j].key = key
      BY <2>1
    <3>2. PICK n \in DOMAIN old : old[n] = Updated(cols, lines, cs[j])
      BY <3>1 DEF Carried
    <3>3. old[n].key = key
      BY <1>1, <3>1, <3>2, UpdatedIs
    <3> QED BY <1>6, <3>3
  <2>2. CASE key \notin held
    <3>1. PICK i \in ItemLines(lines) : KeyOf[lines[i].title] = key
      BY DEF KeysIn
    <3>2. PICK n \in DOMAIN new, id \in Nat : new[n] = CardFor(cols, lines, i, id)
      BY <2>2, <3>1
    <3>3. new[n].key = key
      BY <3>1, <3>2, CardOfItem
    <3> QED BY <1>6, <3>3
  <2> QED BY <2>1, <2>2
<1>10. R = SyncBoard(cols, cs, lines)
  BY DEF Carried
<1> HIDE DEF R
<1> QED BY <1>6, <1>8, <1>9, <1>10 DEF Settled, FromText, Good

\* A board whose keys are those of the text only takes the text's content.
LEMMA SyncOfHeld ==
    ASSUME NEW cols, Ordered(cols), NEW lines \in Texts, NEW cs, Settled(cs),
           \A j \in DOMAIN cs : cs[j].key \in KeysIn(lines),
           \A key \in KeysIn(lines) : \E n \in DOMAIN cs : cs[n].key = key
    PROVE  SyncBoard(cols, cs, lines) = [j \in DOMAIN cs |-> Updated(cols, lines, cs[j])]
<1> PICK old \in Seq(Cards) :
              /\ SyncBoard(cols, cs, lines) = old \o NewCards(cols, cs, lines)
              /\ old = [j \in DOMAIN cs |-> Updated(cols, lines, cs[j])]
  BY SyncBoardIs DEF Carried
<1>1. cs \in Seq(Cards) /\ KeysIn(lines) \subseteq {cs[j].key : j \in DOMAIN cs}
  BY DEF Settled
<1>2. NewCards(cols, cs, lines) = <<>>
  BY <1>1, NewCardsAre
<1>3. old \o <<>> = old
  OBVIOUS
<1> QED BY <1>2, <1>3

\* A board that is as the text has it is not changed by another sync.
LEMMA SyncAgain ==
    ASSUME NEW cols, Ordered(cols), NEW lines \in Texts, NEW cs, Settled(cs), FromText(cols, cs, lines)
    PROVE  SyncBoard(cols, cs, lines) = cs
<1>1. SyncBoard(cols, cs, lines) = [j \in DOMAIN cs |-> Updated(cols, lines, cs[j])]
  BY SyncOfHeld DEF FromText
<1>2. cs \in Seq(Cards) /\ cs = [j \in DOMAIN cs |-> cs[j]]
  BY DEF Settled
<1>3. \A j \in DOMAIN cs : Updated(cols, lines, cs[j]) = cs[j]
  <2> SUFFICES ASSUME NEW j \in DOMAIN cs PROVE Updated(cols, lines, cs[j]) = cs[j]
    OBVIOUS
  <2> PICK c \in Cards : c = cs[j]
    BY <1>2
  <2> PICK u \in Cards : u = Updated(cols, lines, c)
    BY UpdatedIs DEF FromText
  <2>1. u.id = c.id /\ u.key = c.key /\ u.title = c.title /\ u.desc = c.desc /\ u.col = c.col
      /\ u.tags = c.tags
    BY UpdatedIs DEF FromText
  <2>2. u = c
    BY <2>1 DEF Cards
  <2> QED BY <2>2
<1> QED BY <1>1, <1>2, <1>3

---------------------------------------------------------------------------
(* The lines that are written for a card *)

\* Sequences joined are a sequence over the same set.
LEMMA FlattenedType ==
    ASSUME NEW X, NEW ss \in Seq(Seq(X))
    PROVE  FlattenSeq(ss) \in Seq(X) /\ (ss = <<>> => FlattenSeq(ss) = <<>>)
<1>1. ss # <<>> => FlattenSeq(ss) \in Seq(X)
  <2> SUFFICES ASSUME ss # <<>> PROVE FlattenSeq(ss) \in Seq(X)
    OBVIOUS
  <2> PICK f \in [1..Len(ss) -> Seq(X)] : FlattenSeq(ss) = f[Len(ss)]
    BY Flattened
  <2> QED OBVIOUS
<1>2. ss = <<>> => FlattenSeq(ss) = <<>>
  BY DEF FlattenSeq
<1> QED BY <1>1, <1>2

\* The box of the item of a card.
MarkOf(cols, c, box) == IF Checked(cols, c) THEN "done" ELSE IF box = "list" THEN "list" ELSE "open"

\* A card in a column other than the first and the last has that column's tag.
LEMMA TagIs ==
    ASSUME NEW cols, Ordered(cols), NEW c
    PROVE  /\ Tag(cols, c) \in Seq(Tags)
           /\ c.col \notin Ids(cols) \ {Head(cols).id, Last(cols).id} => Tag(cols, c) = <<>>
           /\ \A k \in DOMAIN cols :
                  c.col = cols[k].id /\ c.col \notin {Head(cols).id, Last(cols).id}
                      => Tag(cols, c) = <<cols[k].tag>>
<1>1. ASSUME NEW k \in DOMAIN cols, c.col = cols[k].id, c.col \notin {Head(cols).id, Last(cols).id}
      PROVE  Tag(cols, c) = <<cols[k].tag>> /\ cols[k].tag \in Tags
  <2>1. cols[k] \in Range(cols) /\ \A column \in Range(cols) : column.id = c.col => column = cols[k]
    BY <1>1 DEF Ordered, Range
  <2>2. (CHOOSE column \in Range(cols) : column.id = c.col) = cols[k]
    BY <1>1, <2>1
  <2>3. c.col \in Ids(cols) /\ cols[k].tag \in Tags
    BY <1>1, ColumnsAre
  <2> QED BY <1>1, <2>2, <2>3 DEF Tag
<1>2. c.col \notin Ids(cols) \ {Head(cols).id, Last(cols).id} => Tag(cols, c) = <<>>
  BY DEF Tag
<1>3. Tag(cols, c) \in Seq(Tags)
  <2>1. CASE c.col \in Ids(cols) \ {Head(cols).id, Last(cols).id}
    <3> PICK k \in DOMAIN cols : c.col = cols[k].id
      BY <2>1 DEF Ids
    <3> PICK t \in Tags : Tag(cols, c) = <<t>>
      BY <1>1, <2>1
    <3>1. <<t>> \in Seq(Tags)
      OBVIOUS
    <3> QED BY <3>1
  <2>2. CASE c.col \notin Ids(cols) \ {Head(cols).id, Last(cols).id}
    <3>1. Tag(cols, c) = <<>>
      BY <1>2, <2>2
    <3>2. <<>> \in Seq(Tags)
      OBVIOUS
    <3> QED BY <3>1, <3>2
  <2> QED BY <2>1, <2>2
<1> QED BY <1>1, <1>2, <1>3

\* The item line of a card.
LEMMA ItemForIs ==
    ASSUME NEW cols, Ordered(cols), NEW c \in Cards, NEW box
    PROVE  /\ ItemFor(cols, c, box) \in ListLines /\ ItemFor(cols, c, box) \in Lines
           /\ ItemFor(cols, c, box).sort = "item" /\ ItemFor(cols, c, box).title = c.title
           /\ ItemFor(cols, c, box).tags = Tag(cols, c) \o c.tags
           /\ ItemFor(cols, c, box).box = MarkOf(cols, c, box)
<1>1. c.title \in Titles /\ c.tags \in Seq(Tags)
  BY DEF Cards
<1>2. Tag(cols, c) \o c.tags \in Seq(Tags)
  BY <1>1, TagIs
<1>3. MarkOf(cols, c, box) \in Boxes
  BY DEF MarkOf, Boxes
<1>4. ItemFor(cols, c, box) = Item(MarkOf(cols, c, box), Tag(cols, c) \o c.tags, c.title)
  BY DEF ItemFor, MarkOf
<1> QED BY <1>1, <1>2, <1>3, <1>4 DEF Item, ListLines, Lines

\* Protecting a line keeps it from being an item, and Undent takes that back.
LEMMA ProtectIs ==
    ASSUME NEW line \in Lines
    PROVE  /\ Protect(line) \in Lines /\ Protect(line).sort # "item"
           /\ Protect(line).sort = "blank" <=> line.sort = "blank"
           /\ Protect(line).sort = "fence" <=> line.sort = "fence"
           /\ line.sort # "sub" => Undent(Protect(line)) = line
<1>1. CASE line.sort = "item"
  <2>1. line \in ListLines
    BY <1>1, ListLine
  <2> PICK s \in {"item", "sub"}, b \in Boxes, g \in Seq(Tags), t \in Titles :
          line = [sort |-> s, box |-> b, tags |-> g, title |-> t]
    BY <2>1 DEF ListLines
  <2>2. line = [sort |-> "item", box |-> b, tags |-> g, title |-> t]
    BY <1>1
  <2>3. Protect(line) = [sort |-> "sub", box |-> b, tags |-> g, title |-> t]
    BY <2>2 DEF Protect
  <2>4. Undent(Protect(line)) = line
    BY <2>2, <2>3 DEF Undent
  <2> QED BY <1>1, <2>3, <2>4, MarksAreLines
<1>2. CASE line.sort # "item"
  BY <1>2, MarksAreLines DEF Protect, Undent
<1> QED BY <1>1, <1>2

\* B is how the text holds the card: its item, its description, blank lines.
Written(cols, c, B) ==
    /\ B \in Texts /\ Len(B) >= Len(c.desc) + 1
    /\ \E box \in Boxes \cup {Null} : B[1] = ItemFor(cols, c, box)
    /\ \A j \in 1..Len(c.desc) : B[j + 1] = Protect(c.desc[j])
    /\ \A k \in Len(c.desc) + 2..Len(B) : B[k] = Blank

\* A line, some lines and a line, side by side.
LEMMA Framed ==
    ASSUME NEW a \in Lines, NEW p \in Seq(Lines), NEW z \in Lines,
           NEW b, b = <<a>> \o p \o <<z>>, NEW n \in Nat, n = Len(p)
    PROVE  /\ b \in Seq(Lines) /\ Len(b) = n + 2 /\ b[1] = a /\ b[n + 2] = z
           /\ \A j \in 1..n : b[j + 1] = p[j]
OBVIOUS

\* buildNoteLinesForCard writes the card.
LEMMA LinesAreWritten ==
    ASSUME NEW cols, Ordered(cols), NEW c \in Cards, NEW box \in Boxes \cup {Null}
    PROVE  /\ Written(cols, c, LinesForCard(cols, c, box))
           /\ LinesForCard(cols, c, box)[1] = ItemFor(cols, c, box)
<1> PICK it \in Lines : it = ItemFor(cols, c, box)
  BY ItemForIs
<1> PICK d \in Texts : d = c.desc
  BY DEF Cards
<1> PICK N \in Nat : N = Len(d) /\ DOMAIN d = 1..N
  BY DEF Texts
<1>1. \A j \in 1..N : d[j] \in Lines
  BY DEF Texts
<1> DEFINE p == [j \in 1..N |-> Protect(d[j])]
<1>2. p \in Texts /\ Len(p) = N /\ \A j \in 1..N : p[j] = Protect(d[j])
  BY <1>1, ProtectIs DEF Texts
<1>3. Each(Protect, d) = p
  BY DEF Each
<1> HIDE DEF p
<1> DEFINE B == LinesForCard(cols, c, box)
<1> SUFFICES Written(cols, c, B) /\ B[1] = it
  OBVIOUS
<1>4. CASE d = <<>>
  <2>1. B = <<it>> /\ N = 0
    BY <1>4 DEF LinesForCard
  <2>2. B \in Texts /\ Len(B) = 1 /\ B[1] = it
    BY <2>1 DEF Texts
  <2> HIDE DEF B
  <2>3. (\A j \in 1..N : B[j + 1] = Protect(d[j])) /\ (\A k \in N + 2..Len(B) : B[k] = Blank)
    BY <2>1, <2>2
  <2> QED BY <2>1, <2>2, <2>3 DEF Written
<1>5. CASE d # <<>>
  <2>1. B = <<it>> \o p \o <<Blank>>
    BY <1>3, <1>5 DEF LinesForCard
  <2> HIDE DEF B
  <2>2. p \in Seq(Lines) /\ Blank \in Lines
    BY <1>2, BlankIsLine DEF Texts
  <2>3. /\ B \in Seq(Lines) /\ Len(B) = N + 2 /\ B[1] = it /\ B[N + 2] = Blank
        /\ \A j \in 1..N : B[j + 1] = p[j]
    <3>1. N = Len(p)
      BY <1>2
    <3> QED BY ONLY N \in Nat, it \in Lines, <2>1, <2>2, <3>1, Framed
  <2>4. \A k \in N + 2..Len(B) : B[k] = Blank
    BY <2>3
  <2>5. Len(B) >= N + 1 /\ \A j \in 1..N : B[j + 1] = Protect(d[j])
    BY <1>2, <2>3
  <2> QED BY <2>3, <2>4, <2>5 DEF Written, Texts
<1> QED BY <1>4, <1>5

\* The lines of a card that count: all but the blank lines at the end.
Core(c, it) == [k \in 1..Len(c.desc) + 1 |-> IF k = 1 THEN it ELSE Protect(c.desc[k - 1])]

\* The core, line by line: it does not end with a blank line.
LEMMA CoreIs ==
    ASSUME NEW c \in Cards, Trimmed(c.desc), NEW it \in Lines, it.sort = "item"
    PROVE  /\ Core(c, it) \in Texts /\ Len(Core(c, it)) = Len(c.desc) + 1 /\ Len(c.desc) \in Nat
           /\ Core(c, it)[1] = it
           /\ \A j \in 1..Len(c.desc) : Core(c, it)[j + 1] = Protect(c.desc[j])
           /\ Core(c, it)[Len(c.desc) + 1].sort # "blank"
<1> PICK d \in Texts : d = c.desc
  BY DEF Cards
<1> PICK N \in Nat : N = Len(d) /\ DOMAIN d = 1..N
  BY DEF Texts
<1> DEFINE C == Core(c, it)
<1>1. C = [k \in 1..N + 1 |-> IF k = 1 THEN it ELSE Protect(d[k - 1])]
  BY DEF Core
<1>2. \A j \in 1..N : d[j] \in Lines
  BY DEF Texts
<1>3. \A k \in 1..N + 1 : k = 1 \/ k - 1 \in 1..N
  OBVIOUS
<1>4. \A k \in 1..N + 1 : C[k] \in Lines
  BY <1>1, <1>2, <1>3, ProtectIs
<1> HIDE DEF C
<1>5. C \in Texts /\ Len(C) = N + 1
  <2>1. C = [k \in 1..N + 1 |-> C[k]] /\ N + 1 \in Nat
    BY <1>1
  <2>2. C \in [1..N + 1 -> Lines]
    BY <1>4, <2>1
  <2> QED BY <2>1, <2>2 DEF Texts
<1>6. C[1] = it
  BY <1>1
<1>7. \A j \in 1..N : C[j + 1] = Protect(d[j])
  BY <1>1
<1>8. C[N + 1].sort # "blank"
  <2>1. CASE N = 0
    BY <1>6, <2>1
  <2>2. CASE N # 0
    <3>1. d # <<>> /\ N \in 1..N
      BY <2>2
    <3>2. d[N].sort # "blank"
      BY <3>1 DEF Trimmed
    <3> QED BY <1>2, <1>7, <3>1, <3>2, ProtectIs
  <2> QED BY <2>1, <2>2
<1> QED BY <1>5, <1>6, <1>7, <1>8 DEF C

\* TrimEnd cuts a text after its last line that is not blank.
LEMMA TrimEndIs ==
    ASSUME NEW a \in Texts, NEW n \in 1..Len(a), a[n].sort # "blank",
           \A k \in n + 1..Len(a) : a[k].sort = "blank"
    PROVE  TrimEnd(a) = SubSeq(a, 1, n)
<1> PICK N \in Nat : N = Len(a) /\ DOMAIN a = 1..N
  BY DEF Texts
<1> DEFINE full == {0} \cup {i \in 1..N : a[i].sort # "blank"}
<1>1. n \in full /\ full \subseteq 0..N /\ \A k \in full : k <= n
  OBVIOUS
<1>2. Max(full) \in full /\ \A k \in full : Max(full) >= k
  <2> HIDE DEF full
  <2> QED BY <1>1, HighestOf
<1>3. Max(full) = n
  BY <1>1, <1>2
<1> QED BY <1>3 DEF TrimEnd

\* Without the blank lines at its end, what is written is the core.
LEMMA TrimEndWritten ==
    ASSUME NEW cols, Ordered(cols), NEW c \in Cards, Trimmed(c.desc), NEW B, Written(cols, c, B)
    PROVE  TrimEnd(B) = Core(c, B[1]) /\ B[1] \in Lines /\ B[1].sort = "item"
<1> PICK N \in Nat : N = Len(c.desc)
  BY DEF Cards, Texts
<1> PICK M \in Nat : M = Len(B) /\ DOMAIN B = 1..M
  BY DEF Written, Texts
<1>1. B[1] \in Lines /\ B[1].sort = "item"
  <2> PICK box \in Boxes \cup {Null} : B[1] = ItemFor(cols, c, box)
    BY DEF Written
  <2>1. ItemFor(cols, c, box) \in Lines /\ ItemFor(cols, c, box).sort = "item"
    BY ItemForIs
  <2> QED BY <2>1
<1> DEFINE C == Core(c, B[1])
<1>2. /\ C \in Texts /\ Len(C) = N + 1 /\ C[1] = B[1]
      /\ \A j \in 1..N : C[j + 1] = Protect(c.desc[j])
      /\ C[N + 1].sort # "blank"
  BY <1>1, CoreIs
<1> HIDE DEF C
<1>3. N + 1 <= M /\ N + 1 \in 1..M /\ B \in Texts
  BY DEF Written
<1>4. \A k \in 1..N + 1 : B[k] = C[k]
  <2> SUFFICES ASSUME NEW k \in 1..N + 1 PROVE B[k] = C[k]
    OBVIOUS
  <2>1. CASE k = 1
    BY <1>2, <2>1
  <2>2. CASE k # 1
    <3> PICK j \in 1..N : j = k - 1 /\ k = j + 1
      BY <2>2
    <3> QED BY <1>2 DEF Written
  <2> QED BY <2>1, <2>2
<1>5. \A k \in N + 1 + 1..M : B[k].sort = "blank"
  BY BlankIsLine DEF Written
<1>6. TrimEnd(B) = SubSeq(B, 1, N + 1)
  <2> PICK n \in 1..M : n = N + 1
    BY <1>3
  <2>1. B[n].sort # "blank"
    BY <1>2, <1>4
  <2>2. \A k \in n + 1..Len(B) : B[k].sort = "blank"
    BY <1>5
  <2> QED BY <1>3, <2>1, <2>2, TrimEndIs
<1>7. SubSeq(B, 1, N + 1) = [k \in 1..N + 1 |-> B[k]]
  BY <1>3 DEF Texts
<1>8. C = [k \in 1..N + 1 |-> C[k]]
  BY <1>2 DEF Texts
<1>9. SubSeq(B, 1, N + 1) = C
  BY <1>4, <1>7, <1>8
<1> QED BY <1>1, <1>6, <1>9 DEF C

\* What TrimEnd takes away is blank.
LEMMA TrimEndEnds ==
    ASSUME NEW a \in Texts
    PROVE  \E n \in 0..Len(a) : /\ TrimEnd(a) = SubSeq(a, 1, n)
                                /\ n > 0 => a[n].sort # "blank"
                                /\ \A k \in n + 1..Len(a) : a[k] = Blank
<1> PICK N \in Nat : N = Len(a) /\ DOMAIN a = 1..N
  BY DEF Texts
<1> DEFINE full == {0} \cup {i \in 1..N : a[i].sort # "blank"}
<1>1. full # {} /\ full \subseteq 0..N
  OBVIOUS
<1>2. Max(full) \in full /\ \A k \in full : Max(full) >= k
  <2> HIDE DEF full
  <2> QED BY <1>1, HighestOf
<1> PICK n \in 0..N : n = Max(full)
  BY <1>1, <1>2
<1>3. n > 0 => a[n].sort # "blank"
  BY <1>2
<1>4. \A k \in n + 1..N : a[k] = Blank
  <2> SUFFICES ASSUME NEW k \in n + 1..N PROVE a[k] = Blank
    OBVIOUS
  <2>1. k \notin full /\ k \in 1..N
    BY <1>2
  <2>2. a[k] \in Lines
    BY <2>1 DEF Texts
  <2> QED BY <2>1, <2>2, BlankIsLine
<1>5. TrimEnd(a) = SubSeq(a, 1, n)
  BY DEF TrimEnd
<1> QED BY <1>3, <1>4, <1>5

\* A block that differs from the card's lines only in its blank end holds the
\* card as well.
LEMMA WrittenAgain ==
    ASSUME NEW cols, Ordered(cols), NEW c \in Cards, Trimmed(c.desc), NEW A, Written(cols, c, A),
           NEW B \in Texts, TrimEnd(B) = TrimEnd(A)
    PROVE  Written(cols, c, B)
<1> PICK N \in Nat : N = Len(c.desc) /\ DOMAIN c.desc = 1..N
  BY DEF Cards, Texts
<1> PICK M \in Nat : M = Len(B) /\ DOMAIN B = 1..M
  BY DEF Texts
<1> PICK it \in Lines : it = A[1] /\ it.sort = "item"
  BY TrimEndWritten
<1> PICK C \in Texts : /\ C = Core(c, it)
                       /\ Len(C) = N + 1 /\ C[1] = it
                       /\ \A j \in 1..N : C[j + 1] = Protect(c.desc[j])
                       /\ C[N + 1].sort # "blank"
  BY CoreIs
<1>1. TrimEnd(B) = C
  BY TrimEndWritten
<1> PICK n \in 0..M : /\ TrimEnd(B) = SubSeq(B, 1, n)
                      /\ \A k \in n + 1..M : B[k] = Blank
  BY TrimEndEnds
<1>2. Len(SubSeq(B, 1, n)) = n /\ \A k \in 1..n : SubSeq(B, 1, n)[k] = B[k]
  <2>1. B \in Seq(Lines) /\ 1 \in 1..Len(B) + 1 /\ n \in 0..Len(B) /\ n >= 1 - 1 /\ n - 1 + 1 = n
        /\ \A k \in 1..n : 1 + k - 1 = k
    BY DEF Texts
  <2>2. /\ Len(SubSeq(B, 1, n)) = n - 1 + 1
        /\ \A k \in 1..n - 1 + 1 : SubSeq(B, 1, n)[k] = B[1 + k - 1]
    BY <2>1, Slice
  <2> QED BY <2>1, <2>2
<1>3. n = N + 1
  BY <1>1, <1>2
<1>4. \A k \in 1..N + 1 : C[k] = B[k]
  BY <1>1, <1>2, <1>3
<1>5. B[1] = it /\ \A j \in 1..N : B[j + 1] = Protect(c.desc[j])
  <2>1. 1 \in 1..N + 1 /\ \A j \in 1..N : j + 1 \in 1..N + 1
    OBVIOUS
  <2> QED BY <1>4, <2>1
<1>6. \A k \in N + 2..M : B[k] = Blank
  BY <1>3
<1>7. \E box \in Boxes \cup {Null} : B[1] = ItemFor(cols, c, box)
  BY <1>5 DEF Written
<1> QED BY <1>3, <1>5, <1>6, <1>7 DEF Written

\* The sequence a is its first n entries b and the rest r.
Split(a, n, b, r) ==
    /\ a = b \o r /\ Len(b) = n /\ Len(a) = n + Len(r)
    /\ b = SubSeq(a, 1, n)
    /\ \A k \in 1..n : b[k] = a[k]
    /\ \A k \in 1..Len(r) : r[k] = a[n + k]

\* A sequence cut at n.
LEMMA SplitAt ==
    ASSUME NEW X, NEW a \in Seq(X), NEW n \in 0..Len(a)
    PROVE  \E b, r \in Seq(X) : Split(a, n, b, r)
<1> PICK M \in Nat : M = Len(a) /\ DOMAIN a = 1..M
  OBVIOUS
<1> PICK L \in Nat : M = n + L
  <2>1. M - n \in Nat /\ M = n + (M - n)
    OBVIOUS
  <2> QED BY <2>1
<1>1. \A k \in 1..L : n + k \in 1..M
  OBVIOUS
<1>2. \A k \in 1..M : a[k] \in X
  OBVIOUS
<1> DEFINE b == [k \in 1..n |-> a[k]]
           r == [k \in 1..L |-> a[n + k]]
<1>3. b \in Seq(X) /\ Len(b) = n
  <2>1. \A k \in 1..n : a[k] \in X
    BY <1>2
  <2> QED BY <2>1
<1>4. r \in Seq(X) /\ Len(r) = L
  <2>1. \A k \in 1..L : a[n + k] \in X
    BY <1>1, <1>2
  <2> QED BY <2>1
<1>5. b = SubSeq(a, 1, n)
  BY <1>2
<1>6. (\A k \in 1..n : b[k] = a[k]) /\ (\A k \in 1..L : r[k] = a[n + k])
  OBVIOUS
<1> HIDE DEF b, r
<1>7. a = b \o r
  <2>1. b \o r \in Seq(X) /\ Len(b \o r) = M
    BY <1>3, <1>4
  <2>2. ASSUME NEW k \in 1..M PROVE (b \o r)[k] = a[k]
    <3>1. CASE k > n
      <4> PICK j \in 1..L : n + j = k
        <5>1. k - n \in 1..L /\ n + (k - n) = k
          BY <3>1
        <5> QED BY <5>1
      <4>1. (b \o r)[n + j] = r[j]
        BY <1>3, <1>4, SMTT(30)
      <4> QED BY <1>6, <4>1
    <3>2. CASE k <= n
      BY <1>3, <1>4, <1>6, <3>2
    <3>3. n \in Int /\ k \in Int
      OBVIOUS
    <3>4. k > n \/ k <= n
      BY <3>3, Z3
    <3> QED BY <3>1, <3>2, <3>4
  <2> QED BY <2>1, <2>2
<1> QED BY <1>3, <1>4, <1>5, <1>6, <1>7 DEF Split

\* The code blocks of what is written are those of the description.
LEMMA WrittenFences ==
    ASSUME NEW cols, Ordered(cols), NEW c \in Cards, NEW B, Written(cols, c, B)
    PROVE  Fences(B) = Fences(c.desc)
<1> PICK d \in Seq(Lines) : d = c.desc
  BY DEF Cards, Texts
<1> PICK N \in Nat : N = Len(d) /\ DOMAIN d = 1..N
  OBVIOUS
<1> PICK M \in Nat : M = Len(B) /\ DOMAIN B = 1..M
  BY DEF Written, Texts
<1> PICK it \in Lines : it = B[1] /\ it.sort = "item"
  <2> PICK box \in Boxes \cup {Null} : B[1] = ItemFor(cols, c, box)
    BY DEF Written
  <2>1. ItemFor(cols, c, box) \in Lines /\ ItemFor(cols, c, box).sort = "item"
    BY ItemForIs
  <2> QED BY <2>1
<1>1. B \in Seq(Lines) /\ N + 1 <= M
  BY DEF Written, Texts
<1> PICK h, t \in Seq(Lines) : Split(B, 1, h, t)
  <2>1. 1 \in 0..Len(B)
    BY <1>1
  <2> QED BY <1>1, <2>1, SplitAt
<1> PICK T \in Nat : T = Len(t)
  OBVIOUS
<1>2. /\ Len(h) = 1 /\ B = h \o t /\ Len(B) = 1 + T
      /\ \A k \in 1..1 : h[k] = B[k]
      /\ \A k \in 1..T : t[k] = B[1 + k]
  BY DEF Split
<1>3. h[1] = it /\ M = 1 + T
  <2>1. 1 \in 1..1
    OBVIOUS
  <2> QED BY <1>2, <2>1
<1> PICK p, r \in Seq(Lines) : Split(t, N, p, r)
  <2>1. N \in 0..T
    BY <1>1, <1>3
  <2> QED BY <1>1, <2>1, SplitAt
<1> PICK L \in Nat : L = Len(r)
  OBVIOUS
<1>4. /\ Len(p) = N /\ t = p \o r /\ Len(t) = N + L
      /\ \A k \in 1..N : p[k] = t[k]
      /\ \A k \in 1..L : r[k] = t[N + k]
  BY DEF Split
<1>5. T = N + L
  BY <1>4
<1>6. DOMAIN p = 1..N /\ \A j \in 1..N : p[j] = B[j + 1]
  <2>1. \A j \in 1..N : j \in 1..T /\ 1 + j = j + 1
    BY <1>5
  <2>2. DOMAIN p = 1..N
    BY <1>4
  <2>3. ASSUME NEW j \in 1..N PROVE p[j] = B[j + 1]
    <3>1. p[j] = t[j] /\ t[j] = B[1 + j] /\ 1 + j = j + 1
      BY <1>2, <1>4, <2>1
    <3> QED BY <3>1
  <2> QED BY <2>2, <2>3
<1>7. DOMAIN r = 1..L /\ \A j \in 1..L : r[j] = B[N + 1 + j]
  <2>1. \A j \in 1..L : N + j \in 1..T /\ 1 + (N + j) = N + 1 + j
    BY <1>5
  <2>2. DOMAIN r = 1..L
    OBVIOUS
  <2>3. ASSUME NEW j \in 1..L PROVE r[j] = B[N + 1 + j]
    <3>1. r[j] = t[N + j]
      BY <1>4
    <3>2. t[N + j] = B[1 + (N + j)]
      BY <1>2, <2>1
    <3> QED BY <2>1, <3>1, <3>2
  <2> QED BY <2>2, <2>3
<1>8. h = <<it>>
  BY <1>2, <1>3
<1>9. Fences(<<it>>) = 0
  <2>1. {i \in DOMAIN <<it>> : <<it>>[i].sort = "fence"} = {}
    OBVIOUS
  <2> QED BY <2>1, FS_EmptySet DEF Fences
<1>10. Fences(r) = 0
  <2>1. \A j \in DOMAIN r : r[j] = Blank
    <3> SUFFICES ASSUME NEW j \in 1..L PROVE r[j] = Blank
      BY <1>7
    <3>1. N + 1 + j \in N + 2..M
      BY <1>3, <1>5
    <3> QED BY <1>7, <3>1 DEF Written
  <2>2. {i \in DOMAIN r : r[i].sort = "fence"} = {}
    BY <2>1, BlankIsLine
  <2> QED BY <2>2, FS_EmptySet DEF Fences
<1>11. Fences(p) = Fences(d)
  <2>1. \A j \in 1..N : p[j] = Protect(d[j]) /\ d[j] \in Lines
    BY <1>6 DEF Written
  <2>2. {i \in DOMAIN p : p[i].sort = "fence"} = {i \in DOMAIN d : d[i].sort = "fence"}
    BY <1>6, <2>1, ProtectIs
  <2> QED BY <2>2 DEF Fences
<1>12. Fences(B) = Fences(h) + Fences(t) /\ Fences(t) = Fences(p) + Fences(r)
  BY <1>2, <1>4, FencesConcat
<1>13. Fences(d) \in Nat
  BY FencesAreNumbers
<1> QED BY <1>8, <1>9, <1>10, <1>11, <1>12, <1>13

\* The lines that look like items.
Heads(T) == {i \in DOMAIN T : LooksLikeItem(T, i)}

\* The heads of two texts one after the other, when the first closes its code blocks.
LEMMA HeadsConcat ==
    ASSUME NEW T \in Texts, NEW B \in Texts, Fences(T) % 2 = 0
    PROVE  Heads(T \o B) = Heads(T) \cup {Len(T) + i : i \in Heads(B)}
<1> PICK M \in Nat : M = Len(T) /\ DOMAIN T = 1..M
  BY DEF Texts
<1> PICK N \in Nat : N = Len(B) /\ DOMAIN B = 1..N
  BY DEF Texts
<1>1. /\ DOMAIN (T \o B) = 1..M + N
      /\ \A i \in 1..M : (T \o B)[i] = T[i]
      /\ \A i \in 1..N : (T \o B)[M + i] = B[i]
  BY DEF Texts
<1>2. T \in Seq(Lines) /\ B \in Seq(Lines)
  BY DEF Texts
<1>3. \A i \in 1..M : InCode(T \o B, i) <=> InCode(T, i)
  BY <1>2, InCodeLeft
<1>4. \A i \in 1..N : InCode(T \o B, M + i) <=> InCode(B, i)
  BY <1>2, InCodeRight
<1>5. \A i \in 1..M : i \in Heads(T \o B) <=> i \in Heads(T)
  BY <1>1, <1>3 DEF Heads, LooksLikeItem
<1>6. \A i \in 1..N : M + i \in Heads(T \o B) <=> i \in Heads(B)
  BY <1>1, <1>4 DEF Heads, LooksLikeItem
<1>7. \A i \in 1..M + N : i \in 1..M \/ \E j \in 1..N : i = M + j
  <2> SUFFICES ASSUME NEW i \in 1..M + N, i \notin 1..M PROVE \E j \in 1..N : i = M + j
    OBVIOUS
  <2> WITNESS i - M \in 1..N
  <2> QED OBVIOUS
<1>8. Heads(T \o B) \subseteq 1..M + N /\ Heads(T) \subseteq 1..M /\ Heads(B) \subseteq 1..N
  BY <1>1 DEF Heads
<1> HIDE DEF Heads
<1>9. ASSUME NEW i \in 1..M + N
      PROVE  i \in Heads(T \o B) <=> i \in Heads(T) \cup {M + j : j \in Heads(B)}
  <2>1. CASE i \in 1..M
    <3>1. \A j \in Heads(B) : i # M + j
      BY <1>8, <2>1
    <3> QED BY <1>5, <2>1, <3>1
  <2>2. CASE i \notin 1..M
    <3>1. i \notin Heads(T)
      BY <1>8, <2>2
    <3> PICK j \in 1..N : i = M + j
      BY <1>7, <2>2
    <3>2. \A k \in Heads(B) : i = M + k => k = j
      BY <1>8
    <3> QED BY <1>6, <3>1, <3>2
  <2> QED BY <2>1, <2>2
<1>10. Heads(T) \subseteq 1..M + N /\ \A j \in Heads(B) : M + j \in 1..M + N
  BY <1>8
<1> QED BY <1>8, <1>9, <1>10

\* What is written for a card has one head, its first line.
LEMMA WrittenHeads ==
    ASSUME NEW cols, Ordered(cols), NEW c \in Cards, NEW B, Written(cols, c, B)
    PROVE  Heads(B) = {1}
<1> PICK N \in Nat : N = Len(c.desc)
  BY DEF Cards, Texts
<1> PICK M \in Nat : M = Len(B) /\ DOMAIN B = 1..M
  BY DEF Written, Texts
<1>1. B[1].sort = "item"
  <2> PICK box \in Boxes \cup {Null} : B[1] = ItemFor(cols, c, box)
    BY DEF Written
  <2>1. ItemFor(cols, c, box).sort = "item"
    BY ItemForIs
  <2> QED BY <2>1
<1>2. ~InCode(B, 1)
  <2>1. {j \in 1..1 - 1 : B[j].sort = "fence"} = {}
    OBVIOUS
  <2> QED BY <2>1, FS_EmptySet DEF InCode
<1>3. \A k \in 2..M : B[k].sort # "item"
  <2> SUFFICES ASSUME NEW k \in 2..M PROVE B[k].sort # "item"
    OBVIOUS
  <2>1. CASE k > N + 1
    BY <2>1, BlankIsLine DEF Written
  <2>2. CASE k <= N + 1
    <3> PICK j \in 1..N : k = j + 1
      <4>1. k - 1 \in 1..N /\ k = (k - 1) + 1
        BY <2>2
      <4> QED BY <4>1
    <3>1. c.desc[j] \in Lines
      BY DEF Cards, Texts
    <3> QED BY <3>1, ProtectIs DEF Written
  <2> QED BY <2>1, <2>2
<1>4. 1 \in 1..M
  BY DEF Written
<1> QED BY <1>1, <1>2, <1>3, <1>4 DEF Heads, LooksLikeItem

---------------------------------------------------------------------------
(* A text that holds cards *)

\* The line i of the text and those below, up to the next item, hold the card.
StandsAt(cols, T, i, c) ==
    /\ i + Len(c.desc) <= Len(T)
    /\ \E box \in Boxes \cup {Null} : T[i] = ItemFor(cols, c, box)
    /\ \A j \in 1..Len(c.desc) : T[i + j] = Protect(c.desc[j])
    /\ \A k \in i + Len(c.desc) + 1..Len(T) :
           (\A h \in Heads(T) : h > i => k < h) => T[k] = Blank

\* The items of the text are those of the cards Done, each once.
TextHolds(cols, cs, T, Done) ==
    /\ T \in Texts /\ Fences(T) % 2 = 0
    /\ Done \subseteq DOMAIN cs
    /\ \A i \in Heads(T) : \E n \in Done : StandsAt(cols, T, i, cs[n])
    /\ \A n \in Done : \E i \in Heads(T) : T[i].title = cs[n].title
    /\ \A i, j \in Heads(T) : KeyOf[T[i].title] = KeyOf[T[j].title] => i = j

\* A board that a text can hold.
Clear(cs) ==
    /\ Settled(cs)
    /\ \A n \in DOMAIN cs :
           /\ KeyOf[cs[n].title] = cs[n].key
           /\ Fences(cs[n].desc) % 2 = 0
           /\ \A j \in DOMAIN cs[n].desc : cs[n].desc[j].sort # "sub"
    /\ \A m, n \in DOMAIN cs : cs[m].key = cs[n].key => m = n

\* And that is read back from it: no two columns share a title, and no card's title begins with
\* the tag of a column.
Named(cols, cs) ==
    /\ \A i, j \in DOMAIN cols : cols[i].tag = cols[j].tag => i = j
    /\ \A n \in DOMAIN cs : ReadTags(cols, cs[n].tags) = {}

\* The fields of a card of a board that a text can hold.
LEMMA ClearCard ==
    ASSUME NEW cs, Clear(cs), NEW n \in DOMAIN cs
    PROVE  /\ cs[n] \in Cards /\ cs[n].title \in Titles /\ cs[n].desc \in Texts
           /\ cs[n].id \in Nat /\ cs[n].col \in Nat /\ Len(cs[n].desc) \in Nat
           /\ Trimmed(cs[n].desc) /\ cs[n].key \in Keys /\ KeyOf[cs[n].title] = cs[n].key
<1>1. cs[n] \in Cards /\ Trimmed(cs[n].desc) /\ KeyOf[cs[n].title] = cs[n].key
  BY DEF Clear, Settled
<1> PICK c \in Cards : c = cs[n]
  BY <1>1
<1>2. c.title \in Titles /\ c.desc \in Texts /\ c.id \in Nat /\ c.col \in Nat
  BY DEF Cards
<1>3. Len(c.desc) \in Nat
  BY <1>2 DEF Texts
<1> QED BY <1>1, <1>2, <1>3 DEF Keys

\* Two texts one after the other, line by line.
LEMMA Joined ==
    ASSUME NEW a \in Texts, NEW b \in Texts
    PROVE  /\ a \o b \in Texts /\ Len(a \o b) = Len(a) + Len(b)
           /\ Len(a) \in Nat /\ Len(b) \in Nat
           /\ \A k \in 1..Len(a) : (a \o b)[k] = a[k]
           /\ \A k \in 1..Len(b) : (a \o b)[Len(a) + k] = b[k]
BY DEF Texts

\* Closed code blocks stay closed side by side.
LEMMA EvenSum ==
    ASSUME NEW m \in Nat, NEW n \in Nat, m % 2 = 0, n % 2 = 0
    PROVE  (m + n) % 2 = 0
OBVIOUS

\* Where the lines after the first n + 1 of a block of l lines are, m lines further down.
LEMMA SumAbove ==
    ASSUME NEW m \in Nat, NEW n \in Nat, NEW l \in Nat
    PROVE  \A k \in (m + 1) + n + 1..m + l : \E j \in n + 2..l : j \in 1..l /\ k = m + j
<1> SUFFICES ASSUME NEW k \in (m + 1) + n + 1..m + l
             PROVE  k - m \in n + 2..l /\ k - m \in 1..l /\ k = m + (k - m)
  OBVIOUS
<1> QED OBVIOUS

\* And where the line n + 1 of the block is.
LEMMA AddLeft ==
    ASSUME NEW m \in Nat, NEW n \in Nat, NEW l \in Nat, l >= n + 1
    PROVE  (m + 1) + n <= m + l
OBVIOUS

\* The line at which a card stands has its title.
LEMMA StandsTitle ==
    ASSUME NEW cols, Ordered(cols), NEW T, NEW i, NEW c \in Cards, StandsAt(cols, T, i, c)
    PROVE  T[i].title = c.title /\ T[i].sort = "item" /\ T[i] \in Lines
<1> PICK box \in Boxes \cup {Null} : T[i] = ItemFor(cols, c, box)
  BY DEF StandsAt
<1>1. /\ ItemFor(cols, c, box).title = c.title /\ ItemFor(cols, c, box).sort = "item"
      /\ ItemFor(cols, c, box) \in Lines
  BY ItemForIs
<1> QED BY <1>1

\* What stands in a text stands in the text followed by another block.
LEMMA StandsOn ==
    ASSUME NEW cols, Ordered(cols), NEW T \in Texts, NEW B \in Texts, NEW c \in Cards, NEW i \in Heads(T),
           Fences(T) % 2 = 0, 1 \in Heads(B), StandsAt(cols, T, i, c)
    PROVE  StandsAt(cols, T \o B, i, c)
<1> PICK N \in Nat : N = Len(c.desc)
  BY DEF Cards, Texts
<1> PICK M \in Nat : M = Len(T) /\ DOMAIN T = 1..M
  BY DEF Texts
<1> PICK L \in Nat : L = Len(B) /\ DOMAIN B = 1..L
  BY DEF Texts
<1> PICK U \in Texts : /\ U = T \o B /\ Len(U) = M + L
                       /\ \A k \in 1..M : U[k] = T[k]
  BY Joined
<1>1. Heads(U) = Heads(T) \cup {M + k : k \in Heads(B)}
  BY HeadsConcat
<1>2. i \in 1..M
  BY DEF Heads
<1>3. i + N <= M
  BY DEF StandsAt
<1>4. \E box \in Boxes \cup {Null} : U[i] = ItemFor(cols, c, box)
  <2> PICK box \in Boxes \cup {Null} : T[i] = ItemFor(cols, c, box)
    BY DEF StandsAt
  <2> QED BY <1>2
<1>5. \A j \in 1..N : U[i + j] = Protect(c.desc[j])
  <2> SUFFICES ASSUME NEW j \in 1..N PROVE U[i + j] = Protect(c.desc[j])
    OBVIOUS
  <2>1. i + j \in 1..M
    BY <1>2, <1>3
  <2>2. T[i + j] = Protect(c.desc[j])
    BY DEF StandsAt
  <2> QED BY <2>1, <2>2
<1>6. ASSUME NEW k \in i + N + 1..M + L, \A h \in Heads(U) : h > i => k < h
      PROVE  U[k] = Blank
  <2>1. M + 1 \in Heads(U)
    BY <1>1
  <2>2. M + 1 > i
    BY <1>2
  <2>3. k < M + 1
    BY <1>6, <2>1, <2>2
  <2>4. k \in i + N + 1..M /\ k \in 1..M
    BY <1>2, <2>3
  <2>5. \A h \in Heads(T) : h > i => k < h
    BY <1>1, <1>6
  <2>6. T[k] = Blank
    BY <2>4, <2>5 DEF StandsAt
  <2> QED BY <2>4, <2>6
<1>7. i + N <= M + L
  BY <1>2, <1>3
<1> QED BY <1>4, <1>5, <1>6, <1>7 DEF StandsAt

\* A block that is written at the end of a text stands in it.
LEMMA WrittenStands ==
    ASSUME NEW cols, Ordered(cols), NEW T \in Texts, Fences(T) % 2 = 0, NEW c \in Cards, NEW B, Written(cols, c, B)
    PROVE  StandsAt(cols, T \o B, Len(T) + 1, c)
<1> PICK N \in Nat : N = Len(c.desc)
  BY DEF Cards, Texts
<1> PICK M \in Nat : M = Len(T) /\ DOMAIN T = 1..M
  BY DEF Texts
<1> PICK L \in Nat : L = Len(B) /\ DOMAIN B = 1..L
  BY DEF Written, Texts
<1>1. B \in Texts /\ L >= N + 1
  BY DEF Written
<1>2. (M + 1) + N <= M + L
  BY <1>1, AddLeft, Zenon
<1>3. \A k \in (M + 1) + N + 1..M + L : \E j \in N + 2..L : j \in 1..L /\ k = M + j
  BY SumAbove, ZenonT(30)
<1> PICK U \in Texts : /\ U = T \o B /\ Len(U) = M + L
                       /\ \A k \in 1..L : U[M + k] = B[k]
  BY <1>1, Joined
<1>4. \E box \in Boxes \cup {Null} : U[M + 1] = ItemFor(cols, c, box)
  <2>1. 1 \in 1..L
    BY <1>1
  <2>2. U[M + 1] = B[1]
    BY <2>1
  <2> QED BY <2>2 DEF Written
<1>5. \A j \in 1..N : U[M + 1 + j] = Protect(c.desc[j])
  <2> SUFFICES ASSUME NEW j \in 1..N PROVE U[M + 1 + j] = Protect(c.desc[j])
    OBVIOUS
  <2>1. j + 1 \in 1..L /\ M + 1 + j = M + (j + 1)
    BY <1>1
  <2>2. B[j + 1] = Protect(c.desc[j])
    BY DEF Written
  <2> QED BY <2>1, <2>2
<1>6. \A k \in (M + 1) + N + 1..M + L : U[k] = Blank
  <2> SUFFICES ASSUME NEW k \in (M + 1) + N + 1..M + L PROVE U[k] = Blank
    OBVIOUS
  <2>1. PICK j \in N + 2..L : j \in 1..L /\ k = M + j
    BY <1>3
  <2>2. B[j] = Blank
    BY DEF Written
  <2> QED BY <2>1, <2>2
<1> QED BY <1>4, <1>5, <1>6, <1>2 DEF StandsAt

\* A text that holds cards, followed by the block of another card, holds that one too.
LEMMA HoldsMore ==
    ASSUME NEW cols, Ordered(cols), NEW cs, Clear(cs), NEW T, NEW Done, TextHolds(cols, cs, T, Done),
           NEW n \in DOMAIN cs, n \notin Done, NEW B, Written(cols, cs[n], B)
    PROVE  TextHolds(cols, cs, T \o B, Done \cup {n})
<1> PICK c \in Cards : c = cs[n]
  BY ClearCard
<1>1. T \in Texts /\ B \in Texts /\ T \in Seq(Lines) /\ B \in Seq(Lines) /\ Fences(T) % 2 = 0
  BY DEF TextHolds, Written, Texts
<1> PICK M \in Nat : M = Len(T) /\ DOMAIN T = 1..M
  BY <1>1
<1> PICK U \in Texts : U = T \o B
  BY <1>1, Joined
<1>2. \A k \in 1..M : U[k] = T[k]
  BY <1>1, Joined
<1>3. Heads(B) = {1}
  BY WrittenHeads
<1>4. Heads(U) = Heads(T) \cup {M + 1}
  <2>1. Heads(U) = Heads(T) \cup {M + k : k \in Heads(B)}
    BY <1>1, HeadsConcat
  <2> QED BY <1>3, <2>1
<1>5. Fences(U) % 2 = 0
  <2>1. Fences(B) % 2 = 0
    BY WrittenFences DEF Clear
  <2>2. Fences(U) = Fences(T) + Fences(B)
    BY <1>1, FencesConcat
  <2>3. Fences(T) \in Nat /\ Fences(B) \in Nat
    BY <1>1, FencesAreNumbers
  <2> QED BY <1>1, <2>1, <2>2, <2>3, EvenSum
<1>6. StandsAt(cols, U, M + 1, c)
  BY <1>1, WrittenStands
<1>7. Heads(T) \subseteq 1..M
  BY DEF Heads
<1>8. ASSUME NEW i \in Heads(T)
      PROVE  /\ U[i] = T[i]
             /\ \E m \in Done : StandsAt(cols, U, i, cs[m]) /\ T[i].title = cs[m].title
  <2> PICK m \in Done : StandsAt(cols, T, i, cs[m])
    BY DEF TextHolds
  <2>1. m \in DOMAIN cs
    BY DEF TextHolds
  <2>2. cs[m] \in Cards
    BY <2>1, ClearCard
  <2>3. StandsAt(cols, U, i, cs[m])
    BY <1>1, <1>3, <2>2, StandsOn
  <2>4. T[i].title = cs[m].title
    BY <2>2, StandsTitle
  <2> QED BY <1>7, <1>2, <2>3, <2>4
<1>9. U[M + 1].title = c.title
  BY <1>6, StandsTitle, ZenonT(30)
<1>10. \A i \in Heads(U) : \E m \in Done \cup {n} : StandsAt(cols, U, i, cs[m])
  BY <1>4, <1>6, <1>8
<1>11. \A m \in Done \cup {n} : \E i \in Heads(U) : U[i].title = cs[m].title
  <2>1. \A m \in Done : \E i \in Heads(T) : T[i].title = cs[m].title
    BY DEF TextHolds
  <2>2. \A m \in Done : \E i \in Heads(U) : U[i].title = cs[m].title
    <3> SUFFICES ASSUME NEW m \in Done PROVE \E i \in Heads(U) : U[i].title = cs[m].title
      OBVIOUS
    <3> PICK i \in Heads(T) : T[i].title = cs[m].title
      BY <2>1
    <3>1. i \in Heads(U) /\ U[i] = T[i]
      BY <1>4, <1>8
    <3> QED BY <3>1
  <2>3. M + 1 \in Heads(U)
    BY <1>4
  <2> QED BY <1>9, <2>2, <2>3
<1>12. \A i \in Heads(T) : KeyOf[U[i].title] # KeyOf[U[M + 1].title]
  <2> SUFFICES ASSUME NEW i \in Heads(T) PROVE KeyOf[U[i].title] # KeyOf[U[M + 1].title]
    OBVIOUS
  <2> PICK m \in Done : T[i].title = cs[m].title
    BY <1>8
  <2>1. m \in DOMAIN cs /\ m # n
    BY DEF TextHolds
  <2>2. KeyOf[cs[m].title] = cs[m].key /\ KeyOf[cs[n].title] = cs[n].key /\ cs[m].key # cs[n].key
    BY <2>1 DEF Clear
  <2> QED BY <1>8, <1>9, <2>2
<1>13. \A i, j \in Heads(U) : KeyOf[U[i].title] = KeyOf[U[j].title] => i = j
  <2>1. \A i, j \in Heads(T) : KeyOf[T[i].title] = KeyOf[T[j].title] => i = j
    BY DEF TextHolds
  <2>2. \A i \in Heads(T) : U[i] = T[i]
    BY <1>8
  <2> SUFFICES ASSUME NEW i \in Heads(U), NEW j \in Heads(U),
                      KeyOf[U[i].title] = KeyOf[U[j].title], i # j
               PROVE  FALSE
    OBVIOUS
  <2>3. CASE i \in Heads(T) /\ j \in Heads(T)
    BY <2>1, <2>2, <2>3
  <2>4. CASE i \in Heads(T) /\ j = M + 1
    BY <1>12, <2>4
  <2>5. CASE i = M + 1 /\ j \in Heads(T)
    BY <1>12, <2>5
  <2> QED BY <1>4, <2>3, <2>4, <2>5
<1>14. Done \cup {n} \subseteq DOMAIN cs
  BY DEF TextHolds
<1> QED BY <1>5, <1>10, <1>11, <1>13, <1>14 DEF TextHolds

\* Joining sequences is associative.
LEMMA ConcatAssoc ==
    ASSUME NEW X, NEW a \in Seq(X), NEW b \in Seq(X), NEW c \in Seq(X)
    PROVE  (a \o b) \o c = a \o (b \o c)
OBVIOUS

\* A sequence without entries.
LEMMA EmptySeq ==
    ASSUME NEW X, NEW s \in Seq(X), Len(s) = 0
    PROVE  s = <<>>
OBVIOUS

\* A sequence with one entry.
LEMMA FirstIs ==
    ASSUME NEW X, NEW s \in Seq(X), Len(s) = 1
    PROVE  s[1] \in X /\ s = <<s[1]>>
BY SMTT(30)

\* The block holds the cards d: one or none.
Holding(cols, cs, B, d) ==
    /\ B \in Texts /\ d \in SUBSET DOMAIN cs
    /\ \/ d = {} /\ B = <<>>
       \/ \E n \in DOMAIN cs : d = {n} /\ Written(cols, cs[n], B)

\* The same for a block that holds one card or none.
LEMMA HoldsOne ==
    ASSUME NEW cols, Ordered(cols), NEW cs, Clear(cs), NEW T, NEW Done, TextHolds(cols, cs, T, Done),
           NEW B, NEW d, d \cap Done = {}, Holding(cols, cs, B, d)
    PROVE  TextHolds(cols, cs, T \o B, Done \cup d)
<1>1. CASE d = {} /\ B = <<>>
  <2>1. T \o B = T
    BY <1>1 DEF TextHolds, Texts
  <2> QED BY <1>1, <2>1
<1>2. CASE \E n \in DOMAIN cs : d = {n} /\ Written(cols, cs[n], B)
  <2> PICK n \in DOMAIN cs : d = {n} /\ Written(cols, cs[n], B)
    BY <1>2
  <2>1. n \notin Done
    OBVIOUS
  <2> QED BY <2>1, HoldsMore
<1> QED BY <1>1, <1>2 DEF Holding

\* The step from the first m blocks to m + 1.
LEMMA HoldsNext ==
    ASSUME NEW cols, Ordered(cols), NEW cs, Clear(cs), NEW T \in Texts, NEW a \in Seq(Lines), NEW Done,
           TextHolds(cols, cs, T \o a, Done),
           NEW B, NEW d, d \cap Done = {}, Holding(cols, cs, B, d)
    PROVE  TextHolds(cols, cs, T \o (a \o B), Done \cup d)
<1>1. TextHolds(cols, cs, (T \o a) \o B, Done \cup d)
  BY HoldsOne
<1>2. T \in Seq(Lines) /\ B \in Seq(Lines)
  BY DEF Texts, Holding
<1>3. (T \o a) \o B = T \o (a \o B)
  BY <1>2, ConcatAssoc
<1> QED BY <1>1, <1>3

\* The cards of the blocks up to k.
UpToBlock(cs, D, k) == {n \in DOMAIN cs : \E m \in 1..k : n \in D[m]}

\* A text followed by the blocks of other cards holds all of them.
LEMMA BlocksHold ==
    ASSUME NEW cols, Ordered(cols), NEW cs, Clear(cs), NEW base, NEW Done, TextHolds(cols, cs, base, Done),
           NEW ss \in Seq(Texts), NEW D,
           \A m \in 1..Len(ss) : Holding(cols, cs, ss[m], D[m]) /\ D[m] \cap Done = {},
           \A m, k \in 1..Len(ss) : m # k => D[m] \cap D[k] = {}
    PROVE  TextHolds(cols, cs, base \o FlattenSeq(ss), Done \cup UpToBlock(cs, D, Len(ss)))
<1> PICK M \in Nat : M = Len(ss)
  OBVIOUS
<1>1. base \in Texts /\ base \in Seq(Lines) /\ ss \in Seq(Seq(Lines))
  BY DEF TextHolds, Texts
<1>2. CASE M = 0
  <2>1. ss = <<>> /\ UpToBlock(cs, D, M) = {}
    <3>1. 1..M = {}
      BY <1>2
    <3>2. \A n \in DOMAIN cs : ~\E m \in 1..M : n \in D[m]
      BY <3>1
    <3>3. ss = <<>>
      BY <1>2, EmptySeq, Zenon
    <3> QED BY <3>2, <3>3 DEF UpToBlock
  <2>2. FlattenSeq(ss) = <<>>
    BY <1>1, <2>1, FlattenedType
  <2>3. base \o <<>> = base
    BY <1>1
  <2> QED BY <2>1, <2>2, <2>3
<1>3. CASE M # 0
  <2>1. ss # <<>> /\ M \in 1..M
    BY <1>3
  <2> PICK f \in [1..M -> Seq(Lines)] : Grows(f, ss, M) /\ FlattenSeq(ss) = f[M]
    BY <1>1, <2>1, Flattened
  <2> DEFINE got(k) == Done \cup UpToBlock(cs, D, k)
             S == {k \in 0..M : k > 0 => TextHolds(cols, cs, base \o f[k], got(k))}
  <2>2. 0 \in S
    OBVIOUS
  <2>3. ASSUME NEW k \in 0..M - 1, k \in S PROVE k + 1 \in S
    <3>1. k + 1 \in 1..M /\ k + 1 \in 0..M
      OBVIOUS
    <3>2. got(k + 1) = got(k) \cup D[k + 1]
      <4>1. 1..k + 1 = 1..k \cup {k + 1}
        OBVIOUS
      <4>2. D[k + 1] \subseteq DOMAIN cs
        BY <3>1 DEF Holding
      <4> QED BY <4>1, <4>2 DEF UpToBlock
    <3>3. D[k + 1] \cap got(k) = {}
      <4>1. \A m \in 1..k : m \in 1..M /\ m # k + 1
        OBVIOUS
      <4>2. \A m \in 1..k : D[m] \cap D[k + 1] = {}
        BY <3>1, <4>1
      <4> QED BY <3>1, <4>2 DEF UpToBlock
    <3>4. ss[k + 1] \in Texts /\ D[k + 1] \in SUBSET DOMAIN cs
      BY <3>1 DEF Holding
    <3>5. Holding(cols, cs, ss[k + 1], D[k + 1])
      BY <3>1
    <3> HIDE DEF got
    <3>6. CASE k = 0
      <4>1. got(k) = Done
        BY <3>6 DEF got, UpToBlock
      <4>2. f[k + 1] = ss[k + 1]
        BY <3>6, <2>1 DEF Grows
      <4>3. TextHolds(cols, cs, base \o ss[k + 1], got(k) \cup D[k + 1])
        BY <3>3, <3>4, <3>5, <4>1, HoldsOne
      <4> QED BY <3>1, <3>2, <4>2, <4>3
    <3>7. CASE k # 0
      <4>1. k \in 1..M /\ k \in 1..M - 1
        BY <3>7
      <4>2. f[k + 1] = f[k] \o ss[k + 1] /\ f[k] \in Seq(Lines)
        BY <4>1 DEF Grows
      <4>3. TextHolds(cols, cs, base \o f[k], got(k))
        BY <2>3, <4>1
      <4>4. TextHolds(cols, cs, base \o (f[k] \o ss[k + 1]), got(k) \cup D[k + 1])
        BY <1>1, <3>3, <3>4, <3>5, <4>2, <4>3, HoldsNext
      <4> QED BY <3>1, <3>2, <4>2, <4>4
    <3> QED BY <3>6, <3>7
  <2> HIDE DEF S
  <2>4. M \in S
    <3>1. \A k \in 0..M - 1 : k \in S => k + 1 \in S
      BY <2>3
    <3>2. \A k \in 0..M : k \in S
      BY <2>2, <3>1, Climb
    <3> QED BY <3>2
  <2>5. TextHolds(cols, cs, base \o f[M], got(M))
    BY <1>3, <2>4 DEF S
  <2> QED BY <2>5
<1> QED BY <1>2, <1>3

\* The text p, which does not end with a blank line, begins the text T.
Opens(p, T) == /\ p \in Texts /\ (p # <<>> => p[Len(p)].sort # "blank")
               /\ Len(p) <= Len(T) /\ \A k \in 1..Len(p) : T[k] = p[k]

\* A text still begins as it did when more follows.
LEMMA OpensMore ==
    ASSUME NEW p, NEW T \in Texts, Opens(p, T), NEW B \in Texts
    PROVE  Opens(p, T \o B)
<1> PICK N \in Nat : N = Len(p)
  BY DEF Opens, Texts
<1>1. \A k \in 1..N : k \in 1..Len(T)
  BY Joined DEF Opens
<1>2. \A k \in 1..N : (T \o B)[k] = p[k]
  BY <1>1, Joined DEF Opens
<1>3. N <= Len(T \o B)
  BY Joined DEF Opens
<1> QED BY <1>2, <1>3 DEF Opens

\* Taking the last line away.
LEMMA NotEmpty ==
    ASSUME NEW T \in Texts, T # <<>>
    PROVE  \E M \in Nat : Len(T) = M + 1
<1>1. Len(T) - 1 \in Nat /\ Len(T) = (Len(T) - 1) + 1
  BY DEF Texts
<1> QED BY <1>1

\* Front of a text, line by line.
LEMMA FrontIs ==
    ASSUME NEW T \in Texts, NEW M \in Nat, Len(T) = M + 1
    PROVE  /\ Front(T) \in Texts /\ Len(Front(T)) = M
           /\ T = Front(T) \o <<Last(T)>> /\ Last(T) = T[M + 1] /\ Last(T) \in Lines
           /\ \A k \in 1..M : Front(T)[k] = T[k]
<1> PICK h, t \in Seq(Lines) : Split(T, M, h, t)
  <2>1. T \in Seq(Lines) /\ M \in 0..Len(T)
    BY DEF Texts
  <2> QED BY <2>1, SplitAt
<1>1. /\ T = h \o t /\ Len(h) = M /\ Len(T) = M + Len(t)
      /\ h = SubSeq(T, 1, M)
      /\ \A k \in 1..M : h[k] = T[k]
      /\ \A k \in 1..Len(t) : t[k] = T[M + k]
  BY DEF Split
<1>2. Front(T) = h
  <2>1. M + 1 - 1 = M
    OBVIOUS
  <2>2. Front(T) = SubSeq(T, 1, M + 1 - 1)
    BY DEF Front
  <2> QED BY <1>1, <2>1, <2>2
<1>3. Last(T) = T[M + 1]
  BY DEF Last
<1>4. Len(t) = 1
  <2> PICK L \in Nat : L = Len(t)
    OBVIOUS
  <2>1. M + 1 = M + L
    BY <1>1
  <2> QED BY <2>1
<1>5. t[1] = T[M + 1]
  <2>1. 1 \in 1..1
    OBVIOUS
  <2> QED BY <1>1, <1>4, <2>1
<1>6. t[1] \in Lines /\ t = <<t[1]>>
  BY <1>4, FirstIs, Zenon
<1>7. t = <<T[M + 1]>> /\ T[M + 1] \in Lines
  BY <1>5, <1>6
<1> QED BY <1>1, <1>2, <1>3, <1>7 DEF Texts

\* Without its blank last line, a text holds the same cards.
LEMMA HoldsFront ==
    ASSUME NEW cols, Ordered(cols), NEW cs, Clear(cs), NEW T, NEW Done, TextHolds(cols, cs, T, Done),
           T # <<>>, Last(T) = Blank
    PROVE  TextHolds(cols, cs, Front(T), Done)
<1>1. T \in Texts
  BY DEF TextHolds
<1> PICK M \in Nat : Len(T) = M + 1
  BY <1>1, NotEmpty
<1> PICK U \in Texts : U = Front(T)
  BY <1>1, FrontIs
<1>2. Len(U) = M /\ T = U \o <<Blank>> /\ \A k \in 1..M : U[k] = T[k]
  BY <1>1, FrontIs
<1>3. T[M + 1] = Blank /\ DOMAIN T = 1..M + 1 /\ DOMAIN U = 1..M
  BY <1>1, <1>2, FrontIs DEF Texts
<1>4. U \in Seq(Lines) /\ <<Blank>> \in Seq(Lines)
  BY BlankIsLine DEF Texts
<1>5. \A i \in 1..M : InCode(T, i) <=> InCode(U, i)
  <2>1. \A i \in 1..Len(U) : InCode(U \o <<Blank>>, i) <=> InCode(U, i)
    BY <1>4, InCodeLeft
  <2> QED BY <1>2, <2>1
<1>6. \A i \in 1..M : i \in Heads(T) <=> i \in Heads(U)
  BY <1>2, <1>3, <1>5 DEF Heads, LooksLikeItem
<1>7. M + 1 \notin Heads(T)
  BY <1>3, BlankIsLine DEF Heads, LooksLikeItem
<1>8. Heads(T) = Heads(U) /\ Heads(U) \subseteq 1..M
  <2>1. Heads(T) \subseteq 1..M + 1 /\ Heads(U) \subseteq 1..M
    BY <1>3 DEF Heads
  <2>2. \A i \in Heads(T) : i \in 1..M
    BY <1>7, <2>1
  <2> QED BY <1>6, <2>1, <2>2
<1>9. Fences(U) % 2 = 0
  <2>1. {i \in DOMAIN <<Blank>> : <<Blank>>[i].sort = "fence"} = {}
    BY BlankIsLine
  <2>2. Fences(<<Blank>>) = 0
    BY <2>1, FS_EmptySet DEF Fences
  <2>3. Fences(T) = Fences(U) + Fences(<<Blank>>)
    BY <1>2, <1>4, FencesConcat
  <2>4. Fences(U) \in Nat
    BY <1>4, FencesAreNumbers
  <2> QED BY <2>2, <2>3, <2>4 DEF TextHolds
<1>10. ASSUME NEW i \in Heads(U)
       PROVE  \E n \in Done : StandsAt(cols, U, i, cs[n])
  <2> PICK n \in Done : StandsAt(cols, T, i, cs[n])
    BY <1>8 DEF TextHolds
  <2>1. n \in DOMAIN cs
    BY DEF TextHolds
  <2> PICK c \in Cards : c = cs[n] /\ Trimmed(c.desc)
    BY <2>1, ClearCard
  <2> PICK d \in Texts : d = c.desc
    BY DEF Cards
  <2> PICK N \in Nat : N = Len(d) /\ DOMAIN d = 1..N
    BY DEF Texts
  <2>2. i + N <= M + 1 /\ i \in 1..M
    BY <1>8 DEF StandsAt
  <2>3. i + N # M + 1
    <3>1. CASE N = 0
      BY <2>2, <3>1
    <3>2. CASE N # 0
      <4>1. d[N].sort # "blank" /\ N \in 1..N /\ d # <<>>
        BY <3>2 DEF Trimmed
      <4>2. d[N] \in Lines
        BY <4>1 DEF Texts
      <4>3. T[i + N] = Protect(d[N])
        BY <4>1 DEF StandsAt
      <4> QED BY <1>3, <4>1, <4>2, <4>3, ProtectIs, BlankIsLine
    <3> QED BY <3>1, <3>2
  <2>4. i + N <= M
    BY <2>2, <2>3, SMTT(30)
  <2>5. \E box \in Boxes \cup {Null} : U[i] = ItemFor(cols, c, box)
    BY <1>2, <2>2 DEF StandsAt
  <2>6. \A j \in 1..N : U[i + j] = Protect(d[j])
    <3>1. \A j \in 1..N : i + j \in 1..M
      BY <2>2, <2>4
    <3> QED BY <1>2, <3>1 DEF StandsAt
  <2>7. ASSUME NEW k \in i + N + 1..M, \A h \in Heads(U) : h > i => k < h
        PROVE  U[k] = Blank
    <3>1. k \in i + N + 1..M + 1 /\ k \in 1..M
      BY <2>2
    <3>2. T[k] = Blank
      BY <1>8, <2>7, <3>1 DEF StandsAt
    <3> QED BY <1>2, <3>1, <3>2
  <2>8. StandsAt(cols, U, i, c)
    BY <1>2, <2>4, <2>5, <2>6, <2>7 DEF StandsAt
  <2> QED BY <2>8
<1>11. \A i \in Heads(U) : U[i] = T[i]
  BY <1>2, <1>8
<1>12. /\ \A n \in Done : \E i \in Heads(U) : U[i].title = cs[n].title
       /\ \A i, j \in Heads(U) : KeyOf[U[i].title] = KeyOf[U[j].title] => i = j
       /\ Done \subseteq DOMAIN cs
  BY <1>8, <1>11 DEF TextHolds
<1> QED BY <1>9, <1>10, <1>12 DEF TextHolds

\* Nor does the beginning change, which does not end with a blank line.
LEMMA OpensFront ==
    ASSUME NEW p, NEW T \in Texts, Opens(p, T), T # <<>>, Last(T) = Blank
    PROVE  Opens(p, Front(T))
<1> PICK N \in Nat : N = Len(p)
  BY DEF Opens, Texts
<1> PICK M \in Nat : Len(T) = M + 1
  BY NotEmpty
<1>1. Len(Front(T)) = M /\ T[M + 1] = Blank /\ \A k \in 1..M : Front(T)[k] = T[k]
  BY FrontIs
<1>2. N # M + 1
  <2> SUFFICES ASSUME N = M + 1 PROVE FALSE
    OBVIOUS
  <2>1. N \in 1..N /\ p # <<>>
    <3>1. N \in 1..N /\ N # 0
      OBVIOUS
    <3> QED BY <3>1
  <2>2. T[N] = p[N] /\ p[N].sort # "blank"
    BY <2>1 DEF Opens
  <2> QED BY <1>1, <2>2, BlankIsLine
<1>3. N <= M
  BY <1>2 DEF Opens
<1>4. \A k \in 1..N : Front(T)[k] = p[k]
  <2>1. \A k \in 1..N : k \in 1..M
    BY <1>3
  <2> QED BY <1>1, <2>1 DEF Opens
<1> QED BY <1>1, <1>3, <1>4 DEF Opens

---------------------------------------------------------------------------
(* The text before the first item, and the items *)

\* The first head with a key is an item.
LEMMA HeadIsItem ==
    ASSUME NEW lines \in Texts, NEW h \in Heads(lines)
    PROVE  \E i \in ItemLines(lines) : i <= h
<1> DEFINE S == Heads(lines)
<1>1. S \subseteq Nat /\ S # {}
  BY DEF Heads, Texts
<1> PICK i \in S : \A k \in S : i <= k
  <2> HIDE DEF S
  <2> QED BY <1>1, LeastOf
<1> PICK N \in Nat : N = Len(lines) /\ DOMAIN lines = 1..N
  BY DEF Texts
<1>2. i \in 1..N
  BY DEF Heads
<1>3. \A j \in 1..i - 1 : ~LooksLikeItem(lines, j)
  <2> SUFFICES ASSUME NEW j \in 1..i - 1, LooksLikeItem(lines, j) PROVE FALSE
    OBVIOUS
  <2>1. j \in 1..N /\ j < i
    BY <1>2
  <2>2. j \in S
    BY <2>1 DEF Heads
  <2> QED BY <1>2, <2>1, <2>2
<1>4. i \in ItemLines(lines)
  BY <1>2, <1>3 DEF ItemLines, Heads
<1> QED BY <1>4

\* The text before the first item.
LEMMA PreambleIs ==
    ASSUME NEW lines \in Texts
    PROVE  \E m \in 0..Len(lines) :
              /\ Preamble(lines) = SubSeq(lines, 1, m)
              /\ \A h \in Heads(lines) : h > m
              /\ \/ m = Len(lines) /\ ItemLines(lines) = {}
                 \/ m + 1 \in ItemLines(lines) /\ \A i \in ItemLines(lines) : m + 1 <= i
<1> PICK N \in Nat : N = Len(lines) /\ DOMAIN lines = 1..N
  BY DEF Texts
<1> DEFINE I == ItemLines(lines)
           V == {N} \cup {i - 1 : i \in I}
<1>1. I \subseteq 1..N
  BY ItemLinesAre
<1> HIDE DEF I
<1>2. V \subseteq 0..N /\ V \subseteq Nat /\ V # {}
  BY <1>1
<1>3. Min(V) \in V /\ \A k \in V : Min(V) <= k
  <2> HIDE DEF V
  <2> QED BY <1>2, LowestOf
<1> PICK m \in 0..N : m = Min(V)
  BY <1>2, <1>3
<1>4. m \in V /\ \A k \in V : m <= k
  BY <1>3
<1>5. Preamble(lines) = SubSeq(lines, 1, m)
  BY DEF Preamble, I
<1>6. \A i \in I : m + 1 <= i
  <2> SUFFICES ASSUME NEW i \in I PROVE m + 1 <= i
    OBVIOUS
  <2>1. i - 1 \in V /\ i \in 1..N
    BY <1>1
  <2>2. m <= i - 1
    BY <1>4, <2>1
  <2> QED BY <2>1, <2>2
<1>7. m + 1 \in I \/ m = N
  <2> SUFFICES ASSUME m # N PROVE m + 1 \in I
    OBVIOUS
  <2> PICK i \in I : m = i - 1
    BY <1>4
  <2>1. m + 1 = i
    BY <1>1
  <2> QED BY <2>1
<1>8. ASSUME NEW h \in Heads(lines) PROVE h > m
  <2> PICK i \in I : i <= h
    BY HeadIsItem DEF I
  <2>1. h \in 1..N
    BY DEF Heads
  <2> QED BY <1>1, <1>6, <2>1
<1>9. m + 1 \in I \/ (m = N /\ I = {})
  <2>1. CASE m = N
    <3>1. \A i \in I : FALSE
      BY <1>1, <1>6, <2>1
    <3> QED BY <2>1, <3>1
  <2>2. CASE m # N
    BY <1>7, <2>2
  <2> QED BY <2>1, <2>2
<1> QED BY <1>5, <1>6, <1>8, <1>9 DEF I

\* The text before the first item holds no card.
LEMMA PreambleHolds ==
    ASSUME NEW cols, Ordered(cols), NEW cs, NEW lines \in Texts, Fences(lines) % 2 = 0
    PROVE  /\ TextHolds(cols, cs, Preamble(lines), {})
           /\ Opens(TrimEnd(Preamble(lines)), Preamble(lines))
<1> PICK N \in Nat : N = Len(lines) /\ DOMAIN lines = 1..N
  BY DEF Texts
<1> PICK m \in 0..N :
              /\ Preamble(lines) = SubSeq(lines, 1, m)
              /\ \A h \in Heads(lines) : h > m
              /\ \/ m = N /\ ItemLines(lines) = {}
                 \/ m + 1 \in ItemLines(lines) /\ \A i \in ItemLines(lines) : m + 1 <= i
  BY PreambleIs
<1> PICK p, r \in Seq(Lines) : Split(lines, m, p, r)
  <2>1. lines \in Seq(Lines) /\ m \in 0..Len(lines)
    BY DEF Texts
  <2> QED BY <2>1, SplitAt
<1>1. /\ lines = p \o r /\ Len(p) = m /\ p = Preamble(lines)
      /\ \A k \in 1..m : p[k] = lines[k]
  BY DEF Split
<1>2. p \in Texts /\ DOMAIN p = 1..m
  BY <1>1 DEF Texts
<1>3. \A i \in 1..m : InCode(lines, i) <=> InCode(p, i)
  <2>1. \A i \in 1..Len(p) : InCode(p \o r, i) <=> InCode(p, i)
    BY InCodeLeft
  <2> QED BY <1>1, <2>1
<1>4. Heads(p) = {}
  <2> SUFFICES ASSUME NEW i \in Heads(p) PROVE FALSE
    OBVIOUS
  <2>1. i \in 1..m /\ i \in 1..N
    BY <1>2 DEF Heads
  <2>2. i \in Heads(lines)
    BY <1>1, <1>3, <2>1 DEF Heads, LooksLikeItem
  <2> QED BY <2>1, <2>2
<1>5. Fences(p) % 2 = 0
  <2>1. CASE m = N
    <3>1. p = lines
      BY <1>1, <1>2, <2>1 DEF Texts
    <3> QED BY <3>1
  <2>2. CASE m + 1 \in ItemLines(lines)
    <3>1. m + 1 \in 1..N /\ m + 1 \in 1..Len(lines) + 1
      BY <2>2, ItemLinesAre
    <3>2. ~InCode(lines, m + 1)
      BY <2>2 DEF ItemLines, LooksLikeItem
    <3>3. InCode(lines, m + 1) <=> Fences(SubSeq(lines, 1, m + 1 - 1)) % 2 = 1
      BY <3>1, InCodeCounts DEF Texts
    <3>4. m + 1 - 1 = m
      OBVIOUS
    <3>5. Fences(p) % 2 # 1
      BY <1>1, <3>2, <3>3, <3>4
    <3>6. Fences(p) \in Nat
      BY FencesAreNumbers
    <3> QED BY <3>5, <3>6
  <2> QED BY <2>1, <2>2
<1>6. TextHolds(cols, cs, p, {})
  BY <1>2, <1>4, <1>5 DEF TextHolds
<1>7. Opens(TrimEnd(p), p)
  <2> PICK n \in 0..Len(p) : /\ TrimEnd(p) = SubSeq(p, 1, n)
                             /\ n > 0 => p[n].sort # "blank"
    BY <1>2, TrimEndEnds
  <2> PICK b, t \in Seq(Lines) : Split(p, n, b, t)
    BY SplitAt
  <2>1. b = TrimEnd(p) /\ Len(b) = n /\ \A k \in 1..n : b[k] = p[k]
    BY DEF Split
  <2>2. b # <<>> => b[n].sort # "blank"
    <3>1. b # <<>> => n \in 1..n /\ n > 0
      BY <2>1
    <3> QED BY <2>1, <3>1
  <2>3. n <= Len(p)
    BY <1>1
  <2>4. b \in Texts
    BY DEF Texts
  <2> QED BY <2>1, <2>2, <2>3, <2>4 DEF Opens
<1> QED BY <1>1, <1>6, <1>7

\* The items of a text that holds cards are the items of those cards.
LEMMA HeldItems ==
    ASSUME NEW cols, Ordered(cols), NEW cs, Clear(cs), NEW T, NEW Done, TextHolds(cols, cs, T, Done)
    PROVE  /\ ItemLines(T) = Heads(T)
           /\ KeysIn(T) = {cs[n].key : n \in Done}
           /\ \A i \in Heads(T) : \E n \in Done :
                  /\ StandsAt(cols, T, i, cs[n]) /\ n \in DOMAIN cs
                  /\ T[i].title = cs[n].title /\ KeyOf[T[i].title] = cs[n].key
<1>1. T \in Texts
  BY DEF TextHolds
<1> PICK N \in Nat : N = Len(T) /\ DOMAIN T = 1..N
  BY <1>1 DEF Texts
<1>2. ItemLines(T) = Heads(T)
  <2>1. ItemLines(T) \subseteq Heads(T)
    BY DEF ItemLines, Heads
  <2>2. ASSUME NEW i \in Heads(T) PROVE i \in ItemLines(T)
    <3>1. i \in 1..N /\ LooksLikeItem(T, i)
      BY DEF Heads
    <3>2. ASSUME NEW j \in 1..i - 1, LooksLikeItem(T, j)
          PROVE  KeyOf[T[j].title] # KeyOf[T[i].title]
      <4>1. j \in 1..N /\ j # i
        BY <3>1
      <4>2. j \in Heads(T)
        BY <3>2, <4>1 DEF Heads
      <4> QED BY <4>1, <4>2 DEF TextHolds
    <3> QED BY <3>1, <3>2 DEF ItemLines
  <2> QED BY <2>1, <2>2
<1>3. ASSUME NEW i \in Heads(T)
      PROVE  \E n \in Done :
                  /\ StandsAt(cols, T, i, cs[n]) /\ n \in DOMAIN cs
                  /\ T[i].title = cs[n].title /\ KeyOf[T[i].title] = cs[n].key
  <2> PICK n \in Done : StandsAt(cols, T, i, cs[n])
    BY DEF TextHolds
  <2>1. n \in DOMAIN cs
    BY DEF TextHolds
  <2>2. cs[n] \in Cards /\ KeyOf[cs[n].title] = cs[n].key
    BY <2>1, ClearCard
  <2>3. T[i].title = cs[n].title
    BY <2>2, StandsTitle
  <2> QED BY <2>1, <2>2, <2>3
<1>4. \A n \in Done : \E i \in Heads(T) : KeyOf[T[i].title] = cs[n].key
  <2> SUFFICES ASSUME NEW n \in Done PROVE \E i \in Heads(T) : KeyOf[T[i].title] = cs[n].key
    OBVIOUS
  <2>1. n \in DOMAIN cs
    BY DEF TextHolds
  <2>2. KeyOf[cs[n].title] = cs[n].key
    BY <2>1, ClearCard
  <2> PICK i \in Heads(T) : T[i].title = cs[n].title
    BY DEF TextHolds
  <2> QED BY <2>2
<1>5. KeysIn(T) = {cs[n].key : n \in Done}
  <2>1. KeysIn(T) = {KeyOf[T[i].title] : i \in Heads(T)}
    BY <1>2 DEF KeysIn
  <2> QED BY <1>3, <1>4, <2>1
<1> QED BY <1>2, <1>3, <1>5

---------------------------------------------------------------------------
(* The text that is written from a board *)

\* With distinct keys, CardOf finds the card.
LEMMA CardOfIs ==
    ASSUME NEW cs \in Seq(Cards), NEW n \in DOMAIN cs,
           \A m \in DOMAIN cs : cs[m].key = cs[n].key => m = n
    PROVE  CardOf(cs, cs[n].key) = cs[n]
<1> PICK N \in Nat : N = Len(cs) /\ DOMAIN cs = 1..N
  OBVIOUS
<1> DEFINE S == {i \in DOMAIN cs : cs[i].key = cs[n].key}
<1>1. S = {n} /\ S \subseteq 0..N /\ S # {}
  OBVIOUS
<1>2. Max(S) \in S
  <2> HIDE DEF S
  <2> QED BY <1>1, HighestOf
<1>3. Max(S) = n
  BY <1>1, <1>2
<1> QED BY <1>3 DEF CardOf

\* The lines that replace an item hold the cards with its key: one or none.
LEMMA RewrittenIs ==
    ASSUME NEW cols, Ordered(cols), NEW cs, Clear(cs), NEW lines \in Texts, NEW i \in ItemLines(lines)
    PROVE  Holding(cols, cs, Rewritten(cols, cs, lines, i),
                   {n \in DOMAIN cs : cs[n].key = KeyOf[lines[i].title]})
<1> DEFINE B == Rewritten(cols, cs, lines, i)
           key == KeyOf[lines[i].title]
           d == {n \in DOMAIN cs : cs[n].key = key}
<1> SUFFICES Holding(cols, cs, B, d)
  OBVIOUS
<1>1. d \in SUBSET DOMAIN cs
  OBVIOUS
<1>2. CASE \A j \in DOMAIN cs : cs[j].key # key
  <2>1. B = <<>>
    BY <1>2 DEF Rewritten
  <2>2. d = {} /\ <<>> \in Texts
    BY <1>2 DEF Texts
  <2> QED BY <1>1, <2>1, <2>2 DEF Holding
<1>3. CASE ~(\A j \in DOMAIN cs : cs[j].key # key)
  <2> PICK n \in DOMAIN cs : cs[n].key = key
    BY <1>3
  <2>1. cs \in Seq(Cards) /\ \A m \in DOMAIN cs : cs[m].key = cs[n].key => m = n
    BY DEF Clear, Settled
  <2>2. d = {n}
    BY <2>1
  <2>3. CardOf(cs, key) = cs[n]
    BY <2>1, CardOfIs
  <2> PICK c \in Cards : c = cs[n] /\ Trimmed(c.desc)
    BY ClearCard
  <2> PICK box \in Boxes : box = lines[i].box
    BY ItemLinesAre DEF ListLines
  <2> DEFINE new == LinesForCard(cols, c, box)
             block == SubSeq(lines, i, LastLine(lines, i))
  <2>4. Written(cols, c, new)
    BY LinesAreWritten
  <2>5. B = IF TrimEnd(new) = TrimEnd(block) THEN block ELSE new
    BY <1>3, <2>3 DEF Rewritten
  <2>6. block \in Texts
    <3>1. i \in 1..Len(lines) /\ lines \in Seq(Lines) /\ Len(lines) \in Nat
      BY ItemLinesAre DEF Texts
    <3>2. LastLine(lines, i) \in i..Len(lines)
      BY <3>1, LastLineIs
    <3> PICK e \in i..Len(lines) : e = LastLine(lines, i)
      BY <3>2
    <3>3. i \in 1..Len(lines) + 1 /\ e \in 0..Len(lines) /\ e >= i - 1
      BY <3>1
    <3> HIDE DEF block
    <3>4. SubSeq(lines, i, e) \in Seq(Lines)
      BY <3>1, <3>3, Slice
    <3> QED BY <3>4 DEF Texts, block
  <2> HIDE DEF new, block, B, key, d
  <2>7. Written(cols, c, B)
    BY <2>4, <2>5, <2>6, WrittenAgain
  <2>8. B \in Texts
    BY <2>7 DEF Written
  <2> QED BY <1>1, <2>2, <2>7, <2>8 DEF Holding
<1> QED BY <1>2, <1>3

\* Blocks after a text that holds no card.
LEMMA BlocksAlone ==
    ASSUME NEW cols, Ordered(cols), NEW cs, Clear(cs), NEW base, TextHolds(cols, cs, base, {}),
           NEW ss \in Seq(Texts), NEW D,
           \A m \in 1..Len(ss) : Holding(cols, cs, ss[m], D[m]),
           \A m, k \in 1..Len(ss) : m # k => D[m] \cap D[k] = {}
    PROVE  \E Done : TextHolds(cols, cs, base \o FlattenSeq(ss), Done)
<1> DEFINE none == {}
<1>1. \A m \in 1..Len(ss) : Holding(cols, cs, ss[m], D[m]) /\ D[m] \cap none = {}
  OBVIOUS
<1>2. TextHolds(cols, cs, base, none)
  OBVIOUS
<1> HIDE DEF none
<1>3. TextHolds(cols, cs, base \o FlattenSeq(ss),
                none \cup UpToBlock(cs, D, Len(ss)))
  BY <1>1, <1>2, BlocksHold
<1> QED BY <1>3

\* What replaces the items of the text holds some of the cards, and begins as before.
LEMMA ReplacedHolds ==
    ASSUME NEW cols, Ordered(cols), NEW cs, Clear(cs), NEW lines \in Texts, Fences(lines) % 2 = 0
    PROVE  /\ \E Done : TextHolds(cols, cs, Replaced(cols, cs, lines), Done)
           /\ Opens(TrimEnd(Preamble(lines)), Replaced(cols, cs, lines))
<1> DEFINE I == ItemLines(lines)
<1> PICK N \in Nat : N = Len(lines)
  BY DEF Texts
<1>1. I \subseteq 1..N /\ \A i, j \in I : KeyOf[lines[i].title] = KeyOf[lines[j].title] => i = j
  BY ItemLinesAre
<1> HIDE DEF I
<1>2. /\ Sorted(I) \in [1..Cardinality(I) -> I] /\ Cardinality(I) \in Nat
      /\ \A n, m \in 1..Cardinality(I) : n < m => Sorted(I)[n] < Sorted(I)[m]
  BY <1>1, SortedSet
<1> PICK M \in Nat : M = Cardinality(I)
  BY <1>2
<1> PICK items \in [1..M -> I] : items = Sorted(I)
  BY <1>2
<1>3. \A n, m \in 1..M : n # m => items[n] # items[m]
  <2> SUFFICES ASSUME NEW n \in 1..M, NEW m \in 1..M, n # m PROVE items[n] # items[m]
    OBVIOUS
  <2>1. items[n] \in I /\ items[m] \in I
    OBVIOUS
  <2>2. items[n] \in Nat /\ items[m] \in Nat
    <3>1. I \subseteq Nat
      BY <1>1
    <3> QED BY <2>1, <3>1
  <2>3. n < m => items[n] < items[m]
    BY <1>2
  <2>4. m < n => items[m] < items[n]
    BY <1>2
  <2>5. n < m \/ m < n
    OBVIOUS
  <2> QED BY <2>2, <2>3, <2>4, <2>5
<1> DEFINE ss == [n \in 1..M |-> Rewritten(cols, cs, lines, items[n])]
           D == [n \in 1..M |-> {j \in DOMAIN cs : cs[j].key = KeyOf[lines[items[n]].title]}]
<1>4. \A n \in 1..M : Holding(cols, cs, ss[n], D[n])
  <2> SUFFICES ASSUME NEW n \in 1..M PROVE Holding(cols, cs, ss[n], D[n])
    OBVIOUS
  <2> PICK i \in ItemLines(lines) : i = items[n]
    BY DEF I
  <2>1. ss[n] = Rewritten(cols, cs, lines, i)
    OBVIOUS
  <2>2. D[n] = {j \in DOMAIN cs : cs[j].key = KeyOf[lines[i].title]}
    OBVIOUS
  <2> HIDE DEF ss, D
  <2> QED BY <2>1, <2>2, RewrittenIs
<1>5. ss \in Seq(Texts) /\ Len(ss) = M
  <2>1. \A n \in 1..M : ss[n] \in Texts
    BY <1>4 DEF Holding
  <2> QED BY <2>1
<1>6. \A m, k \in 1..M : m # k => D[m] \cap D[k] = {}
  <2> SUFFICES ASSUME NEW m \in 1..M, NEW k \in 1..M, m # k PROVE D[m] \cap D[k] = {}
    OBVIOUS
  <2>1. items[m] \in I /\ items[k] \in I /\ items[m] # items[k]
    BY <1>3
  <2>2. KeyOf[lines[items[m]].title] # KeyOf[lines[items[k]].title]
    BY <1>1, <2>1
  <2> QED BY <2>2
<1>7. Replaced(cols, cs, lines) = Preamble(lines) \o FlattenSeq(ss)
  <2>1. DOMAIN items = 1..M
    OBVIOUS
  <2> QED BY <2>1 DEF Replaced, I
<1> HIDE DEF ss, D
<1>8. TextHolds(cols, cs, Preamble(lines), {}) /\ Opens(TrimEnd(Preamble(lines)), Preamble(lines))
  BY PreambleHolds
<1>9. \E Done : TextHolds(cols, cs, Preamble(lines) \o FlattenSeq(ss), Done)
  <2>1. \A m \in 1..Len(ss) : Holding(cols, cs, ss[m], D[m])
    BY <1>4, <1>5
  <2>2. \A m, k \in 1..Len(ss) : m # k => D[m] \cap D[k] = {}
    BY <1>5, <1>6
  <2> QED BY <1>5, <1>8, <2>1, <2>2, BlocksAlone
<1>10. Opens(TrimEnd(Preamble(lines)), Preamble(lines) \o FlattenSeq(ss))
  <2>1. ss \in Seq(Seq(Lines))
    BY <1>5 DEF Texts
  <2>2. FlattenSeq(ss) \in Texts
    BY <2>1, FlattenedType DEF Texts
  <2>3. Preamble(lines) \in Texts
    BY <1>8 DEF TextHolds
  <2> QED BY <1>8, <2>2, <2>3, OpensMore
<1> QED BY <1>7, <1>9, <1>10

\* The cards that miss are those the text does not hold.
LEMMA MissingIs ==
    ASSUME NEW cols, Ordered(cols), NEW cs, Clear(cs), NEW T, NEW Done, TextHolds(cols, cs, T, Done)
    PROVE  Missing(cs, T) = Sorted(DOMAIN cs \ Done)
<1>1. KeysIn(T) = {cs[n].key : n \in Done}
  BY HeldItems
<1>2. Done \subseteq DOMAIN cs
  BY DEF TextHolds
<1>3. \A m, n \in DOMAIN cs : cs[m].key = cs[n].key => m = n
  BY DEF Clear
<1> DEFINE absent == {i \in DOMAIN cs : cs[i].key \notin KeysIn(T)}
<1>4. absent = DOMAIN cs \ Done
  BY <1>1, <1>2, <1>3
<1>5. cs \in Seq(Cards)
  BY DEF Clear, Settled
<1>6. \A i, j \in absent : j < i => cs[j].key # cs[i].key
  <2> SUFFICES ASSUME NEW i \in absent, NEW j \in absent, j < i, cs[j].key = cs[i].key PROVE FALSE
    OBVIOUS
  <2>1. i \in Nat /\ j = i
    BY <1>3, <1>5
  <2> QED BY <2>1
<1>7. {i \in absent : \A j \in absent : j < i => cs[j].key # cs[i].key} = absent
  BY <1>6
<1> QED BY <1>4, <1>7 DEF Missing

\* What the sync appends to, and that it appends the cards that miss.
LEMMA AppendHolds ==
    ASSUME NEW cols, Ordered(cols), NEW cs, Clear(cs), NEW T, NEW Done, TextHolds(cols, cs, T, Done),
           NEW p, Opens(p, T)
    PROVE  LET missing == Missing(cs, T)
               U == Append1(T, FlattenSeq([n \in DOMAIN missing |->
                                     LinesForCard(cols, cs[missing[n]], Null)]))
           IN  TextHolds(cols, cs, U, DOMAIN cs) /\ Opens(p, U)
<1> DEFINE S == DOMAIN cs \ Done
<1> PICK N \in Nat : N = Len(cs) /\ DOMAIN cs = 1..N
  BY DEF Clear, Settled
<1>1. S \subseteq 1..N /\ S \subseteq Nat
  OBVIOUS
<1>2. Missing(cs, T) = Sorted(S)
  BY MissingIs
<1>3. Done \cup S = DOMAIN cs /\ S \cap Done = {}
  BY DEF TextHolds
<1>4. S \subseteq DOMAIN cs
  OBVIOUS
<1> HIDE DEF S
<1>5. /\ Sorted(S) \in [1..Cardinality(S) -> S] /\ Cardinality(S) \in Nat
      /\ \A n, m \in 1..Cardinality(S) : n < m => Sorted(S)[n] < Sorted(S)[m]
      /\ \A x \in S : \E n \in 1..Cardinality(S) : Sorted(S)[n] = x
  BY <1>1, SortedSet
<1> PICK M \in Nat : M = Cardinality(S)
  BY <1>5
<1> PICK at \in [1..M -> S] : at = Sorted(S)
  BY <1>5
<1>6. \A n, m \in 1..M : n # m => at[n] # at[m]
  <2> SUFFICES ASSUME NEW n \in 1..M, NEW m \in 1..M, n # m PROVE at[n] # at[m]
    OBVIOUS
  <2>1. at[n] \in S /\ at[m] \in S
    OBVIOUS
  <2>2. at[n] \in Nat /\ at[m] \in Nat
    BY <1>1, <2>1
  <2>3. n < m => at[n] < at[m]
    BY <1>5
  <2>4. m < n => at[m] < at[n]
    BY <1>5
  <2>5. n < m \/ m < n
    OBVIOUS
  <2> QED BY <2>2, <2>3, <2>4, <2>5
<1> DEFINE ss == [n \in 1..M |-> LinesForCard(cols, cs[at[n]], Null)]
           D == [n \in 1..M |-> {at[n]}]
           more == FlattenSeq(ss)
<1>7. \A n \in 1..M : Holding(cols, cs, ss[n], D[n]) /\ D[n] \cap Done = {}
  <2> SUFFICES ASSUME NEW n \in 1..M
               PROVE  Holding(cols, cs, ss[n], D[n]) /\ D[n] \cap Done = {}
    OBVIOUS
  <2> PICK j \in S : j = at[n]
    OBVIOUS
  <2>1. j \in DOMAIN cs /\ j \notin Done
    BY <1>3, <1>4
  <2>2. cs[j] \in Cards
    BY <2>1, ClearCard
  <2>3. Written(cols, cs[j], LinesForCard(cols, cs[j], Null))
    BY <2>2, LinesAreWritten
  <2>4. ss[n] = LinesForCard(cols, cs[j], Null) /\ D[n] = {j}
    OBVIOUS
  <2>5. ss[n] \in Texts
    BY <2>3, <2>4 DEF Written
  <2> HIDE DEF ss, D
  <2> QED BY <2>1, <2>3, <2>4, <2>5 DEF Holding
<1>8. ss \in Seq(Texts) /\ Len(ss) = M
  <2>1. \A n \in 1..M : ss[n] \in Texts
    BY <1>7 DEF Holding
  <2> QED BY <2>1
<1>9. \A m, k \in 1..M : m # k => D[m] \cap D[k] = {}
  BY <1>6
<1>10. UpToBlock(cs, D, M) = S
  BY <1>4, <1>5 DEF UpToBlock
<1>11. DOMAIN at = 1..M
  OBVIOUS
<1>12. Append1(T, FlattenSeq([n \in DOMAIN Missing(cs, T) |->
                                 LinesForCard(cols, cs[Missing(cs, T)[n]], Null)])) = Append1(T, more)
  BY <1>2, <1>11
<1> HIDE DEF ss, D
<1>13. more \in Texts
  <2>1. ss \in Seq(Seq(Lines))
    BY <1>8 DEF Texts
  <2> QED BY <2>1, FlattenedType DEF Texts
<1>14. ASSUME NEW base, TextHolds(cols, cs, base, Done), Opens(p, base)
       PROVE  TextHolds(cols, cs, base \o more, DOMAIN cs) /\ Opens(p, base \o more)
  <2>1. /\ \A m \in 1..Len(ss) : Holding(cols, cs, ss[m], D[m]) /\ D[m] \cap Done = {}
        /\ \A m, k \in 1..Len(ss) : m # k => D[m] \cap D[k] = {}
    BY <1>7, <1>8, <1>9
  <2>2. TextHolds(cols, cs, base \o more, Done \cup UpToBlock(cs, D, Len(ss)))
    BY <1>8, <1>14, <2>1, BlocksHold
  <2>3. Done \cup UpToBlock(cs, D, Len(ss)) = DOMAIN cs
    BY <1>3, <1>8, <1>10
  <2>4. base \in Texts
    BY <1>14 DEF TextHolds
  <2>5. Opens(p, base \o more)
    BY <1>13, <1>14, <2>4, OpensMore
  <2> QED BY <2>2, <2>3, <2>5
<1> HIDE DEF more
<1>15. T \in Texts
  BY DEF TextHolds
<1>16. CASE more = <<>>
  <2>1. Append1(T, more) = T
    BY <1>16 DEF Append1
  <2>2. T \o more = T
    BY <1>15, <1>16 DEF Texts
  <2> QED BY <1>12, <1>14, <2>1, <2>2
<1>17. CASE more # <<>> /\ T # <<>> /\ Last(T) = Blank
  <2>1. Append1(T, more) = Front(T) \o more
    BY <1>17 DEF Append1
  <2>2. TextHolds(cols, cs, Front(T), Done)
    BY <1>17, HoldsFront
  <2>3. Opens(p, Front(T))
    BY <1>15, <1>17, OpensFront
  <2> QED BY <1>12, <1>14, <2>1, <2>2, <2>3
<1>18. CASE more # <<>> /\ ~(T # <<>> /\ Last(T) = Blank)
  <2>1. Append1(T, more) = T \o more
    BY <1>18 DEF Append1
  <2> QED BY <1>12, <1>14, <2>1
<1> QED BY <1>16, <1>17, <1>18

\* After a sync the text holds the board's cards, and begins as before.
LEMMA NoteHolds ==
    ASSUME NEW cols, Ordered(cols), NEW cs, Clear(cs), NEW lines \in Texts, Fences(lines) % 2 = 0
    PROVE  /\ TextHolds(cols, cs, SyncNote(cols, cs, lines), DOMAIN cs)
           /\ Opens(TrimEnd(Preamble(lines)), SyncNote(cols, cs, lines))
<1> DEFINE T == Replaced(cols, cs, lines)
           p == TrimEnd(Preamble(lines))
<1>1. (\E Done : TextHolds(cols, cs, T, Done)) /\ Opens(p, T)
  BY ReplacedHolds
<1> PICK Done : TextHolds(cols, cs, T, Done)
  BY <1>1
<1>2. SyncNote(cols, cs, lines)
          = Append1(T, FlattenSeq([n \in DOMAIN Missing(cs, T) |->
                                      LinesForCard(cols, cs[Missing(cs, T)[n]], Null)]))
  BY DEF SyncNote
<1> HIDE DEF T, p
<1>3. LET U == Append1(T, FlattenSeq([n \in DOMAIN Missing(cs, T) |->
                                     LinesForCard(cols, cs[Missing(cs, T)[n]], Null)]))
      IN  TextHolds(cols, cs, U, DOMAIN cs) /\ Opens(p, U)
  BY <1>1, AppendHolds
<1>4. TextHolds(cols, cs, SyncNote(cols, cs, lines), DOMAIN cs)
      /\ Opens(p, SyncNote(cols, cs, lines))
  BY <1>2, <1>3
<1> QED BY <1>4 DEF p

---------------------------------------------------------------------------
(* A card that was written is read back *)

\* A function on 1..n is a sequence.
LEMMA FunSeq ==
    ASSUME NEW X, NEW n \in Nat, NEW u \in [1..n -> X]
    PROVE  u \in Seq(X) /\ Len(u) = n
OBVIOUS

\* Trim of a trimmed text followed by blank lines.
LEMMA TrimPadded ==
    ASSUME NEW d \in Texts, Trimmed(d), NEW u \in Texts, Len(u) >= Len(d),
           \A k \in 1..Len(d) : u[k] = d[k],
           \A k \in Len(d) + 1..Len(u) : u[k] = Blank
    PROVE  Trim(u) = d
<1> PICK N \in Nat : N = Len(d) /\ DOMAIN d = 1..N
  BY DEF Texts
<1> PICK M \in Nat : M = Len(u) /\ DOMAIN u = 1..M
  BY DEF Texts
<1> DEFINE full == {i \in DOMAIN u : u[i].sort # "blank"}
<1>1. full \subseteq 1..N
  <2> SUFFICES ASSUME NEW k \in 1..M, u[k].sort # "blank" PROVE k \in 1..N
    OBVIOUS
  <2>1. k \in N + 1..M => u[k].sort = "blank"
    BY BlankIsLine
  <2>2. k \in N + 1..M \/ k \in 1..N
    OBVIOUS
  <2> QED BY <2>1, <2>2
<1>2. CASE N = 0
  <2>1. full = {}
    BY <1>1, <1>2
  <2>2. Trim(u) = <<>>
    BY <2>1 DEF Trim
  <2>3. d = <<>>
    BY <1>2, EmptySeq DEF Texts
  <2> QED BY <2>2, <2>3
<1>3. CASE N # 0
  <2>1. 1 \in 1..N /\ N \in 1..N /\ 1 \in 1..M /\ N \in 1..M /\ d # <<>>
    BY <1>3
  <2>2. 1 \in full /\ N \in full
    BY <2>1 DEF Trimmed
  <2>3. full \subseteq Nat /\ full \subseteq 0..N /\ full # {}
    BY <1>1, <2>2
  <2> HIDE DEF full
  <2>4. Min(full) \in full /\ \A k \in full : Min(full) <= k
    BY <2>3, LowestOf
  <2>5. Max(full) \in full /\ \A k \in full : Max(full) >= k
    BY <2>3, HighestOf
  <2>6. full \subseteq 1..N
    BY <1>1 DEF full
  <2>7. Min(full) = 1
    <3> PICK a \in 1..N : a = Min(full) /\ a <= 1
      BY <2>6, <2>2, <2>4
    <3> QED OBVIOUS
  <2>8. Max(full) = N
    <3> PICK a \in 1..N : a = Max(full) /\ a >= N
      BY <2>6, <2>2, <2>5
    <3> QED OBVIOUS
  <2>9. Trim(u) = SubSeq(u, 1, N)
    BY <2>3, <2>7, <2>8 DEF Trim, full
  <2> PICK b, r \in Seq(Lines) : Split(u, N, b, r)
    <3>1. u \in Seq(Lines) /\ N \in 0..Len(u)
      BY <2>1 DEF Texts
    <3> QED BY <3>1, SplitAt
  <2>10. b = SubSeq(u, 1, N) /\ Len(b) = N /\ \A k \in 1..N : b[k] = u[k]
    BY DEF Split
  <2>11. b = d
    BY <2>10 DEF Texts
  <2> QED BY <2>9, <2>10, <2>11
<1> QED BY <1>2, <1>3

\* The lines below an item, up to the next one.
LEMMA BelowItem ==
    ASSUME NEW T \in Texts, NEW i \in 1..Len(T)
    PROVE  LET e == LastLine(T, i)
               u == Each(Undent, SubSeq(T, i + 1, e))
           IN  /\ u \in Texts /\ Len(u) = e - i
               /\ \A k \in 1..e - i : u[k] = Undent(T[i + k])
<1> PICK N \in Nat : N = Len(T) /\ DOMAIN T = 1..N
  BY DEF Texts
<1> PICK e \in i..N : e = LastLine(T, i)
  BY LastLineIs
<1> PICK m \in 1..N + 1 : m = i + 1
  OBVIOUS
<1> PICK L \in Nat : L = e - i /\ e = i + L
  <2>1. e - i \in Nat /\ e = i + (e - i)
    OBVIOUS
  <2> QED BY <2>1
<1>1. e >= m - 1 /\ e \in 0..N /\ e - m + 1 = L
  OBVIOUS
<1> DEFINE s == SubSeq(T, m, e)
<1>2. s \in Seq(Lines) /\ Len(s) = e - m + 1 /\ DOMAIN s = 1..e - m + 1
      /\ \A k \in 1..e - m + 1 : s[k] = T[m + k - 1]
  <2>1. T \in Seq(Lines) /\ m \in 1..Len(T) + 1 /\ e \in 0..Len(T)
    BY <1>1 DEF Texts
  <2> QED BY <1>1, <2>1, Slice
<1> HIDE DEF s
<1>3. DOMAIN s = 1..L /\ \A k \in 1..L : s[k] = T[i + k] /\ s[k] \in Lines
  <2>1. \A k \in 1..L : m + k - 1 = i + k
    OBVIOUS
  <2> QED BY <1>1, <1>2, <2>1
<1> DEFINE u == Each(Undent, s)
<1>4. u = [k \in 1..L |-> Undent(s[k])]
  BY <1>3 DEF Each
<1>5. \A k \in 1..L : u[k] = Undent(T[i + k]) /\ u[k] \in Lines
  BY <1>3, <1>4, MarksAreLines
<1> HIDE DEF u
<1>6. u \in Texts /\ Len(u) = L
  <2>1. u = [k \in 1..L |-> u[k]]
    BY <1>4
  <2>2. u \in [1..L -> Lines]
    BY <1>5, <2>1
  <2> QED BY <2>2, FunSeq DEF Texts
<1>7. u = Each(Undent, SubSeq(T, i + 1, LastLine(T, i)))
  BY DEF u, s
<1> QED BY <1>5, <1>6, <1>7

\* The column in which a card is shown.
ShownIn(cols, c) == IF c.col \in Ids(cols) THEN c.col ELSE Head(cols).id

\* The column and the tags that an item is read into are those of the card it was written for.
LEMMA ColumnBack ==
    ASSUME NEW cols, Ordered(cols), \A i, j \in DOMAIN cols : cols[i].tag = cols[j].tag => i = j,
           NEW c \in Cards, ReadTags(cols, c.tags) = {}, NEW box
    PROVE  /\ ColumnForItem(cols, ItemFor(cols, c, box)) = ShownIn(cols, c)
           /\ TitleTags(cols, ItemFor(cols, c, box).tags) = c.tags
<1> DEFINE item == ItemFor(cols, c, box)
           T == item.tags
<1>1. T = Tag(cols, c) \o c.tags /\ item.box = MarkOf(cols, c, box)
  BY ItemForIs
<1> PICK u \in Seq(Tags) : u = c.tags /\ ReadTags(cols, u) = {}
  BY DEF Cards
<1>2. Head(cols).id \in Ids(cols) /\ Last(cols).id \in Ids(cols)
  BY ColumnsAre
<1>3. item.box = "done" <=> c.col = Last(cols).id
  BY <1>1 DEF MarkOf, Checked
<1>4. ColumnForItem(cols, item)
          = IF item.box = "done" THEN Last(cols).id
            ELSE IF ReadTags(cols, T) = {} THEN Head(cols).id
            ELSE Titled(cols, T[Max(ReadTags(cols, T))])
  BY DEF ColumnForItem
<1>5. ASSUME c.col \in Ids(cols) \ {Head(cols).id, Last(cols).id}
      PROVE  ColumnForItem(cols, item) = ShownIn(cols, c) /\ TitleTags(cols, T) = u
  <2> PICK k \in DOMAIN cols : c.col = cols[k].id
    BY <1>5 DEF Ids
  <2> PICK t \in Tags : t = cols[k].tag /\ t \in TagsOf(cols)
    BY ColumnsAre
  <2>1. T = <<t>> \o u
    BY <1>1, <1>5, TagIs
  <2>2. /\ DOMAIN T = 1..Len(u) + 1 /\ T[1] = t /\ Len(u) \in Nat
        /\ \A i \in 2..Len(u) + 1 : T[i] = u[i - 1] /\ i - 1 \in DOMAIN u
    <3> HIDE DEF T
    <3> QED BY <2>1
  <2> HIDE DEF T, item
  <2>3. \A i \in DOMAIN T : i = 1 \/ i \in 2..Len(u) + 1
    BY <2>2
  <2>4. \A i \in 2..Len(u) + 1 : T[i] \notin TagsOf(cols)
    BY <2>2 DEF ReadTags
  <2>5. ReadTags(cols, T) = {1}
    BY <2>2, <2>3, <2>4 DEF ReadTags
  <2>6. Max(ReadTags(cols, T)) = 1
    <3>1. {1} \subseteq 0..1 /\ {1} # {}
      OBVIOUS
    <3>2. Max({1}) \in {1}
      BY <3>1, HighestOf
    <3> QED BY <2>5, <3>2
  <2>7. Titled(cols, t) = c.col
    BY TitledIs
  <2>8. ColumnForItem(cols, item) = c.col
    BY <1>3, <1>4, <1>5, <2>2, <2>5, <2>6, <2>7
  <2>9. TitleTags(cols, T) = u
    <3>1. DOMAIN T \ {1} = 2..Len(u) + 1
      BY <2>2
    <3> QED BY <2>1, <2>5, <3>1, PickedRest DEF TitleTags
  <2> QED BY <1>5, <2>8, <2>9 DEF ShownIn
<1>6. ASSUME c.col \notin Ids(cols) \ {Head(cols).id, Last(cols).id}
      PROVE  ColumnForItem(cols, item) = ShownIn(cols, c) /\ TitleTags(cols, T) = u
  <2>1. T = u
    <3>1. T = <<>> \o u
      BY <1>1, <1>6, TagIs
    <3> HIDE DEF T
    <3> QED BY <3>1
  <2> HIDE DEF T, item
  <2>2. TitleTags(cols, T) = u
    BY <2>1, TagsRead
  <2>3. ColumnForItem(cols, item) = IF c.col = Last(cols).id THEN Last(cols).id ELSE Head(cols).id
    BY <1>3, <1>4, <2>1
  <2> QED BY <1>2, <1>6, <2>2, <2>3 DEF ShownIn
<1> QED BY <1>5, <1>6

\* An item and the lines below read back as the card they were written for.
LEMMA ReadBack ==
    ASSUME NEW cols, Ordered(cols), NEW cs, Clear(cs), NEW T, NEW Done,
           TextHolds(cols, cs, T, Done), NEW n \in DOMAIN cs, NEW i \in Heads(T),
           StandsAt(cols, T, i, cs[n])
    PROVE  /\ T[i].title = cs[n].title /\ DescriptionAt(T, i) = cs[n].desc
           /\ LastLine(T, i) >= i + Len(cs[n].desc)
           /\ \A k \in i + Len(cs[n].desc) + 1..LastLine(T, i) : T[k] = Blank
<1> PICK c \in Cards : c = cs[n] /\ Trimmed(c.desc)
  BY ClearCard
<1> PICK d \in Texts : d = c.desc
  BY DEF Cards
<1> PICK N \in Nat : N = Len(d) /\ DOMAIN d = 1..N
  BY DEF Texts
<1>1. T \in Texts
  BY DEF TextHolds
<1> PICK M \in Nat : M = Len(T) /\ DOMAIN T = 1..M
  BY <1>1 DEF Texts
<1>2. i \in 1..M
  BY DEF Heads
<1>3. ItemLines(T) = Heads(T)
  BY HeldItems
<1> PICK e \in i..M : /\ e = LastLine(T, i)
                      /\ \A k \in Heads(T) : k > i => e < k
                      /\ \/ e = M
                         \/ e + 1 \in Heads(T) /\ e + 1 > i
  BY <1>1, <1>2, <1>3, LastLineIs
<1>4. i + N <= M
  BY DEF StandsAt
<1>5. \A j \in 1..N : T[i + j] = Protect(d[j]) /\ d[j] \in Lines /\ d[j].sort # "sub"
  BY DEF StandsAt, Clear, Texts
<1>6. e >= i + N
  <2>1. e \in Nat /\ i + N \in Nat /\ M \in Nat
    BY <1>2
  <2> SUFFICES ASSUME e < i + N PROVE FALSE
    BY <2>1, Z3
  <2>2. e # M
    BY <1>4, <2>1
  <2>3. e + 1 \in Heads(T) /\ e + 1 > i
    BY <2>2
  <2>4. T[e + 1].sort = "item"
    BY <2>3 DEF Heads, LooksLikeItem
  <2> PICK j \in 1..N : e + 1 = i + j
    <3>1. e + 1 - i \in 1..N /\ e + 1 = i + (e + 1 - i)
      BY <1>2
    <3> QED BY <3>1
  <2>5. T[i + j].sort # "item"
    BY <1>5, ProtectIs
  <2> QED BY <2>4, <2>5
<1>7. \A k \in i + N + 1..e : T[k] = Blank
  <2> SUFFICES ASSUME NEW k \in i + N + 1..e PROVE T[k] = Blank
    OBVIOUS
  <2>1. k \in i + N + 1..M
    BY <1>2
  <2>2. \A h \in Heads(T) : h > i => k < h
    <3> SUFFICES ASSUME NEW h \in Heads(T), h > i PROVE k < h
      OBVIOUS
    <3>1. e < h /\ h \in Nat
      BY DEF Heads
    <3> QED BY <1>2, <3>1
  <2> QED BY <2>1, <2>2 DEF StandsAt
<1> DEFINE u == Each(Undent, SubSeq(T, i + 1, LastLine(T, i)))
<1>8. u \in Texts /\ Len(u) = e - i /\ \A k \in 1..e - i : u[k] = Undent(T[i + k])
  BY <1>1, <1>2, BelowItem
<1>9. DescriptionAt(T, i) = OneBlank(Trim(u))
  BY DEF DescriptionAt
<1> HIDE DEF u
<1> PICK L \in Nat : L = e - i /\ e = i + L
  <2>1. e - i \in Nat /\ e = i + (e - i)
    BY <1>2
  <2> QED BY <2>1
<1>10. N <= L
  BY <1>2, <1>6
<1>11. \A k \in 1..N : u[k] = d[k]
  <2> SUFFICES ASSUME NEW k \in 1..N PROVE u[k] = d[k]
    OBVIOUS
  <2>1. k \in 1..L
    BY <1>10
  <2>2. u[k] = Undent(Protect(d[k]))
    BY <1>5, <1>8, <2>1
  <2> QED BY <1>5, <2>2, ProtectIs
<1>12. \A k \in N + 1..L : u[k] = Blank
  <2> SUFFICES ASSUME NEW k \in N + 1..L PROVE u[k] = Blank
    OBVIOUS
  <2>1. k \in 1..L /\ i + k \in i + N + 1..e
    BY <1>2
  <2>2. u[k] = Undent(Blank)
    BY <1>7, <1>8, <2>1
  <2> QED BY <2>2, BlankIsLine DEF Undent
<1>13. Trim(u) = d
  <2>1. Len(u) = L /\ L >= N
    BY <1>8, <1>10
  <2> QED BY <1>8, <1>11, <1>12, <2>1, TrimPadded
<1>14. T[i].title = c.title
  BY StandsTitle, ZenonT(30)
<1>15. OneBlank(d) = d
  BY OneBlankAgain
<1> QED BY <1>6, <1>7, <1>9, <1>13, <1>14, <1>15

\* The board that is read back from a text that holds it.
LEMMA BackToBoard ==
    ASSUME NEW cols, Ordered(cols), NEW cs, Clear(cs), Named(cols, cs),
           NEW T, TextHolds(cols, cs, T, DOMAIN cs)
    PROVE  LET R == SyncBoard(cols, cs, T) IN
           /\ R \in Seq(Cards) /\ DOMAIN R = DOMAIN cs
           /\ \A n \in DOMAIN cs :
                  /\ R[n].id = cs[n].id /\ R[n].key = cs[n].key /\ R[n].title = cs[n].title
                  /\ R[n].desc = cs[n].desc /\ R[n].col = ShownIn(cols, cs[n])
                  /\ R[n].tags = cs[n].tags
<1>1. T \in Texts /\ Settled(cs) /\ cs \in Seq(Cards)
  BY DEF TextHolds, Clear, Settled
<1>2. /\ ItemLines(T) = Heads(T)
      /\ KeysIn(T) = {cs[n].key : n \in DOMAIN cs}
      /\ \A i \in Heads(T) : \E n \in DOMAIN cs :
             /\ StandsAt(cols, T, i, cs[n]) /\ n \in DOMAIN cs
             /\ T[i].title = cs[n].title /\ KeyOf[T[i].title] = cs[n].key
  BY HeldItems
<1> DEFINE R == SyncBoard(cols, cs, T)
<1>3. R = [j \in DOMAIN cs |-> Updated(cols, T, cs[j])]
  <2>1. /\ \A j \in DOMAIN cs : cs[j].key \in KeysIn(T)
        /\ \A key \in KeysIn(T) : \E n \in DOMAIN cs : cs[n].key = key
    BY <1>2
  <2> QED BY <1>1, <2>1, SyncOfHeld
<1>4. R \in Seq(Cards)
  <2>1. Settled(R)
    BY <1>1, SyncedBoard
  <2> QED BY <2>1 DEF Settled
<1>5. ASSUME NEW n \in DOMAIN cs
      PROVE  /\ R[n].id = cs[n].id /\ R[n].key = cs[n].key /\ R[n].title = cs[n].title
             /\ R[n].desc = cs[n].desc /\ R[n].col = ShownIn(cols, cs[n])
             /\ R[n].tags = cs[n].tags
  <2> PICK c \in Cards : c = cs[n]
    BY ClearCard
  <2>1. c.key \in KeysIn(T)
    BY <1>2
  <2> PICK i \in Heads(T) : i = ItemOf(T, c.key) /\ KeyOf[T[i].title] = c.key
    BY <1>1, <1>2, <2>1, ItemOfKey
  <2> PICK m \in DOMAIN cs : StandsAt(cols, T, i, cs[m]) /\ KeyOf[T[i].title] = cs[m].key
    BY <1>2
  <2>2. m = n
    BY DEF Clear
  <2>3. /\ T[i].title = c.title /\ DescriptionAt(T, i) = c.desc
        /\ ColumnForItem(cols, T[i]) = ShownIn(cols, c) /\ TitleTags(cols, T[i].tags) = c.tags
    <3>1. T[i].title = c.title /\ DescriptionAt(T, i) = c.desc
      BY <2>2, ReadBack
    <3> PICK box \in Boxes \cup {Null} : T[i] = ItemFor(cols, c, box)
      BY <2>2 DEF StandsAt
    <3>2. /\ ReadTags(cols, c.tags) = {}
          /\ \A j, k \in DOMAIN cols : cols[j].tag = cols[k].tag => j = k
      BY DEF Named
    <3>3. /\ ColumnForItem(cols, ItemFor(cols, c, box)) = ShownIn(cols, c)
          /\ TitleTags(cols, ItemFor(cols, c, box).tags) = c.tags
      BY <3>2, ColumnBack
    <3> QED BY <3>1, <3>3
  <2> DEFINE u == Updated(cols, T, c)
  <2>4. /\ u.key = c.key /\ u.id = c.id
        /\ u.title = T[i].title /\ u.desc = DescriptionAt(T, i)
        /\ u.col = ColumnForItem(cols, T[i]) /\ u.tags = TitleTags(cols, T[i].tags)
    <3>1. LET v == Updated(cols, T, c)
              k == ItemOf(T, c.key)
          IN  /\ v \in Cards /\ v.key = c.key /\ v.key # Null /\ v.id = c.id
              /\ v.title = T[k].title /\ v.desc = DescriptionAt(T, k)
              /\ v.col = ColumnForItem(cols, T[k]) /\ Trimmed(v.desc)
              /\ v.tags = TitleTags(cols, T[k].tags)
      BY <1>1, <2>1, UpdatedIs
    <3> QED BY <3>1
  <2>5. R[n] = u
    BY <1>3
  <2> HIDE DEF R, u
  <2> QED BY <2>3, <2>4, <2>5
<1>6. DOMAIN R = DOMAIN cs
  BY <1>3
<1> QED BY <1>4, <1>5, <1>6

\* The user sees the same board after it was written and read back.
LEMMA ShownBack ==
    ASSUME NEW cols, Ordered(cols), NEW cs, Clear(cs), Named(cols, cs),
           NEW T, TextHolds(cols, cs, T, DOMAIN cs)
    PROVE  Shown(cols, SyncBoard(cols, cs, T)) = Shown(cols, cs)
<1> PICK R \in Seq(Cards) :
           /\ R = SyncBoard(cols, cs, T) /\ DOMAIN R = DOMAIN cs
           /\ \A n \in DOMAIN cs :
                  /\ R[n].id = cs[n].id /\ R[n].key = cs[n].key /\ R[n].title = cs[n].title
                  /\ R[n].desc = cs[n].desc /\ R[n].col = ShownIn(cols, cs[n])
                  /\ R[n].tags = cs[n].tags
  BY BackToBoard
<1> DEFINE see(c) == [id |-> c.id, tags |-> c.tags, title |-> c.title, desc |-> c.desc,
                      col |-> ShownIn(cols, c)]
<1>1. Head(cols).id \in Ids(cols)
  BY ColumnsAre
<1>2. \A n \in DOMAIN cs : see(R[n]) = see(cs[n])
  BY <1>1 DEF ShownIn
<1>3. \A b : Shown(cols, b) = {see(c) : c \in Range(b)}
  BY DEF Shown, ShownIn
<1> HIDE DEF see
<1>4. {see(c) : c \in Range(R)} = {see(R[n]) : n \in DOMAIN cs}
  BY DEF Range
<1>5. {see(c) : c \in Range(cs)} = {see(cs[n]) : n \in DOMAIN cs}
  BY DEF Range
<1>6. {see(R[n]) : n \in DOMAIN cs} = {see(cs[n]) : n \in DOMAIN cs}
  BY <1>2
<1> QED BY <1>3, <1>4, <1>5, <1>6

\* With two columns at least, the text holds the board that was read back.
LEMMA HoldsBack ==
    ASSUME NEW cols, Ordered(cols), Len(cols) > 1,
           NEW cs, Clear(cs), Named(cols, cs), NEW T, TextHolds(cols, cs, T, DOMAIN cs)
    PROVE  LET R == SyncBoard(cols, cs, T) IN Clear(R) /\ TextHolds(cols, R, T, DOMAIN R)
<1> PICK R \in Seq(Cards) :
           /\ R = SyncBoard(cols, cs, T) /\ DOMAIN R = DOMAIN cs
           /\ \A n \in DOMAIN cs :
                  /\ R[n].id = cs[n].id /\ R[n].key = cs[n].key /\ R[n].title = cs[n].title
                  /\ R[n].desc = cs[n].desc /\ R[n].col = ShownIn(cols, cs[n])
                  /\ R[n].tags = cs[n].tags
  BY BackToBoard
<1>1. Clear(R)
  BY DEF Clear, Settled
<1>2. /\ Head(cols).id # Last(cols).id
      /\ Head(cols).id \in Ids(cols) /\ Last(cols).id \in Ids(cols)
  <2>1. /\ 1 \in DOMAIN cols /\ Len(cols) \in DOMAIN cols /\ Len(cols) # 1
        /\ Head(cols) = cols[1] /\ Last(cols) = cols[Len(cols)]
    BY ColumnsAre
  <2>2. \A i, j \in DOMAIN cols : cols[i].id = cols[j].id => i = j
    BY DEF Ordered
  <2> QED BY <2>1, <2>2, ColumnsAre
<1>3. ASSUME NEW n \in DOMAIN cs, NEW box
      PROVE  ItemFor(cols, cs[n], box) = ItemFor(cols, R[n], box)
  <2>1. Checked(cols, R[n]) <=> Checked(cols, cs[n])
    BY <1>2 DEF Checked, ShownIn
  <2>2. Tag(cols, R[n]) = Tag(cols, cs[n])
    <3>1. CASE cs[n].col \in Ids(cols)
      <4>1. R[n].col = cs[n].col
        BY <3>1 DEF ShownIn
      <4> QED BY <4>1 DEF Tag
    <3>2. CASE cs[n].col \notin Ids(cols)
      <4>1. R[n].col = Head(cols).id
        BY <3>2 DEF ShownIn
      <4> QED BY <3>2, <4>1, TagIs
    <3> QED BY <3>1, <3>2
  <2>3. R[n].title = cs[n].title /\ R[n].tags = cs[n].tags
    OBVIOUS
  <2> QED BY <2>1, <2>2, <2>3 DEF ItemFor
<1>4. ASSUME NEW i \in Heads(T), NEW n \in DOMAIN cs, StandsAt(cols, T, i, cs[n])
      PROVE  StandsAt(cols, T, i, R[n])
  <2>1. R[n].desc = cs[n].desc
    OBVIOUS
  <2>2. \A box : ItemFor(cols, cs[n], box) = ItemFor(cols, R[n], box)
    BY <1>3
  <2> QED BY <1>4, <2>1, <2>2 DEF StandsAt
<1>5. TextHolds(cols, R, T, DOMAIN R)
  BY <1>4 DEF TextHolds
<1> QED BY <1>1, <1>5

\* The box of an item line, used for the same card again, gives the same line.
LEMMA ItemForAgain ==
    ASSUME NEW cols, Ordered(cols), NEW c \in Cards, NEW box
    PROVE  ItemFor(cols, c, ItemFor(cols, c, box).box) = ItemFor(cols, c, box)
<1>1. ItemFor(cols, c, box).box = MarkOf(cols, c, box)
  BY ItemForIs
<1>2. MarkOf(cols, c, MarkOf(cols, c, box)) = MarkOf(cols, c, box)
  BY DEF MarkOf
<1>3. \A b : ItemFor(cols, c, b) = Item(MarkOf(cols, c, b), Tag(cols, c) \o c.tags, c.title)
  BY DEF ItemFor, MarkOf
<1> QED BY <1>1, <1>2, <1>3

\* The block of an item is written again as it is.
LEMMA RewrittenBack ==
    ASSUME NEW cols, Ordered(cols), NEW cs, Clear(cs), NEW T, TextHolds(cols, cs, T, DOMAIN cs),
           NEW i \in ItemLines(T)
    PROVE  Rewritten(cols, cs, T, i) = SubSeq(T, i, LastLine(T, i))
<1>1. /\ ItemLines(T) = Heads(T)
      /\ \A h \in Heads(T) : \E n \in DOMAIN cs :
             /\ StandsAt(cols, T, h, cs[n]) /\ n \in DOMAIN cs
             /\ T[h].title = cs[n].title /\ KeyOf[T[h].title] = cs[n].key
  BY HeldItems
<1>2. T \in Texts /\ i \in Heads(T) /\ cs \in Seq(Cards)
  BY <1>1 DEF TextHolds, Clear, Settled
<1> PICK n \in DOMAIN cs : StandsAt(cols, T, i, cs[n]) /\ KeyOf[T[i].title] = cs[n].key
  BY <1>1, <1>2
<1> PICK c \in Cards : c = cs[n] /\ Trimmed(c.desc)
  BY ClearCard
<1> PICK N \in Nat : N = Len(c.desc)
  BY DEF Cards, Texts
<1> PICK M \in Nat : M = Len(T) /\ DOMAIN T = 1..M
  BY <1>2 DEF Texts
<1>3. i \in 1..M
  BY <1>2 DEF Heads
<1> PICK e \in i..M : e = LastLine(T, i)
  BY <1>2, <1>3, LastLineIs
<1>4. e >= i + N /\ \A k \in i + N + 1..e : T[k] = Blank
  BY <1>2, ReadBack
<1> DEFINE block == SubSeq(T, i, e)
<1>5. /\ block \in Seq(Lines) /\ Len(block) = e - i + 1
      /\ \A k \in 1..e - i + 1 : block[k] = T[i + k - 1]
  <2>1. T \in Seq(Lines) /\ i \in 1..Len(T) + 1 /\ e \in 0..Len(T) /\ e >= i - 1
    BY <1>2, <1>3 DEF Texts
  <2> QED BY <2>1, Slice
<1> HIDE DEF block
<1> PICK box \in Boxes \cup {Null} : T[i] = ItemFor(cols, c, box)
  BY DEF StandsAt
<1>6. Written(cols, c, block)
  <2> PICK L \in Nat : L = e - i + 1 /\ e + 1 = i + L
    <3>1. e - i + 1 \in Nat /\ e + 1 = i + (e - i + 1)
      BY <1>3
    <3> QED BY <3>1
  <2>1. L >= N + 1
    BY <1>3, <1>4
  <2>2. block[1] = T[i]
    <3>1. 1 \in 1..L /\ i + 1 - 1 = i
      BY <1>3, <2>1
    <3> QED BY <1>5, <3>1
  <2>3. \A j \in 1..N : block[j + 1] = Protect(c.desc[j])
    <3> SUFFICES ASSUME NEW j \in 1..N PROVE block[j + 1] = Protect(c.desc[j])
      OBVIOUS
    <3>1. j + 1 \in 1..L /\ i + (j + 1) - 1 = i + j
      BY <1>3, <2>1
    <3>2. block[j + 1] = T[i + j]
      BY <1>5, <3>1
    <3>3. T[i + j] = Protect(c.desc[j])
      BY DEF StandsAt
    <3> QED BY <3>2, <3>3
  <2>4. \A k \in N + 2..L : block[k] = Blank
    <3> SUFFICES ASSUME NEW k \in N + 2..L PROVE block[k] = Blank
      OBVIOUS
    <3>1. k \in 1..L /\ i + k - 1 \in i + N + 1..e
      BY <1>3
    <3> QED BY <1>4, <1>5, <3>1
  <2>5. block \in Texts /\ Len(block) = L
    BY <1>5 DEF Texts
  <2> QED BY <2>1, <2>2, <2>3, <2>4, <2>5 DEF Written
<1>7. block[1] = T[i]
  <2>1. 1 \in 1..e - i + 1 /\ i + 1 - 1 = i
    BY <1>3
  <2> QED BY <1>5, <2>1
<1> DEFINE new == LinesForCard(cols, c, T[i].box)
<1>8. T[i].box \in Boxes
  BY <1>2, ItemLinesAre DEF ListLines
<1>9. Written(cols, c, new) /\ new[1] = ItemFor(cols, c, T[i].box)
  BY <1>8, LinesAreWritten
<1>10. new[1] = T[i]
  BY <1>9, ItemForAgain
<1> HIDE DEF new
<1>11. TrimEnd(new) = TrimEnd(block)
  <2>1. TrimEnd(new) = Core(c, T[i])
    BY <1>9, <1>10, TrimEndWritten
  <2>2. TrimEnd(block) = Core(c, T[i])
    BY <1>6, <1>7, TrimEndWritten
  <2> QED BY <2>1, <2>2
<1>12. CardOf(cs, KeyOf[T[i].title]) = c
  <2>1. \A m \in DOMAIN cs : cs[m].key = cs[n].key => m = n
    BY DEF Clear
  <2> QED BY <1>2, <2>1, CardOfIs
<1>13. Rewritten(cols, cs, T, i) = IF TrimEnd(new) = TrimEnd(block) THEN block ELSE new
  BY <1>12 DEF Rewritten, block, new
<1> QED BY <1>11, <1>13 DEF block

---------------------------------------------------------------------------
(* A text is its preamble and its blocks *)

\* A number in 1..a + n beyond a.
LEMMA Above ==
    ASSUME NEW a \in Nat, NEW n \in Nat, NEW k \in 1..a + n, ~(k <= a)
    PROVE  \E j \in 1..n : a + j = k
<1>1. k - a \in 1..n /\ a + (k - a) = k
  OBVIOUS
<1> QED BY <1>1

\* Two sequences of lines one after the other.
LEMMA JoinedLen ==
    ASSUME NEW p \in Seq(Lines), NEW r \in Seq(Lines)
    PROVE  /\ p \o r \in Seq(Lines) /\ Len(p \o r) = Len(p) + Len(r)
           /\ \A k \in 1..Len(p) : (p \o r)[k] = p[k]
           /\ \A k \in 1..Len(r) : (p \o r)[Len(p) + k] = r[k]
OBVIOUS

\* Sequences with the same lines are the same.
LEMMA SameLines ==
    ASSUME NEW p \in Seq(Lines), NEW r \in Seq(Lines),
           Len(p) = Len(r), \A k \in 1..Len(p) : p[k] = r[k]
    PROVE  p = r
OBVIOUS

\* A cut, and the slice up to the next cut.
LEMMA CutAgain ==
    ASSUME NEW T \in Texts, NEW a \in 0..Len(T), NEW b \in a..Len(T)
    PROVE  SubSeq(T, 1, a) \o SubSeq(T, a + 1, b) = SubSeq(T, 1, b)
<1> PICK N \in Nat : N = Len(T) /\ DOMAIN T = 1..N
  BY DEF Texts
<1> PICK L \in Nat : b = a + L
  <2>1. b - a \in Nat /\ b = a + (b - a)
    OBVIOUS
  <2> QED BY <2>1
<1> PICK m \in 1..N + 1 : m = a + 1
  OBVIOUS
<1>1. T \in Seq(Lines) /\ m \in 1..Len(T) + 1 /\ b \in 0..Len(T) /\ b >= m - 1 /\ b - m + 1 = L
  BY DEF Texts
<1>2. /\ SubSeq(T, m, b) \in Seq(Lines) /\ Len(SubSeq(T, m, b)) = b - m + 1
      /\ \A k \in 1..b - m + 1 : SubSeq(T, m, b)[k] = T[m + k - 1]
  BY <1>1, Slice
<1> PICK r \in Seq(Lines) : r = SubSeq(T, m, b)
  BY <1>2
<1>3. Len(r) = L /\ \A k \in 1..L : r[k] = T[a + k]
  <2>1. \A k \in 1..L : m + k - 1 = a + k
    OBVIOUS
  <2> QED BY <1>1, <1>2, <2>1
<1> PICK p \in Seq(Lines) : p = SubSeq(T, 1, a) /\ Len(p) = a /\ \A k \in 1..a : p[k] = T[k]
  <2>1. \E p, q \in Seq(Lines) : Split(T, a, p, q)
    BY <1>1, SplitAt
  <2> QED BY <2>1 DEF Split
<1> PICK u \in Seq(Lines) : u = SubSeq(T, 1, b) /\ Len(u) = b /\ \A k \in 1..b : u[k] = T[k]
  <2>1. \E u, v \in Seq(Lines) : Split(T, b, u, v)
    BY <1>1, SplitAt
  <2> QED BY <2>1 DEF Split
<1>4. /\ p \o r \in Seq(Lines) /\ Len(p \o r) = Len(p) + Len(r)
      /\ \A k \in 1..Len(p) : (p \o r)[k] = p[k]
      /\ \A k \in 1..Len(r) : (p \o r)[Len(p) + k] = r[k]
  BY JoinedLen, Zenon
<1> PICK w \in Seq(Lines) : w = p \o r
  BY <1>4
<1>5. Len(w) = a + L /\ (\A k \in 1..a : w[k] = p[k]) /\ (\A k \in 1..L : w[a + k] = r[k])
  BY <1>3, <1>4
<1>6. ASSUME NEW k \in 1..b PROVE w[k] = u[k]
  <2>1. CASE k <= a
    <3>1. k \in 1..a
      BY <2>1
    <3> QED BY <1>5, <3>1
  <2>2. CASE ~(k <= a)
    <3>1. a \in Nat /\ k \in 1..a + L /\ ~(k <= a)
      BY <2>2
    <3> PICK j \in 1..L : a + j = k
      BY <3>1, Above, Zenon
    <3> QED BY <1>3, <1>5
  <2> QED BY <2>1, <2>2
<1>7. w = u
  <2>1. Len(w) = b /\ Len(u) = b
    BY <1>5
  <2>2. \A k \in 1..Len(w) : w[k] = u[k]
    BY <1>6, <2>1
  <2>3. Len(w) = Len(u)
    BY <2>1
  <2> QED BY <2>2, <2>3, SameLines, Zenon
<1> QED BY <1>7

\* Joining sequences of lines is associative.
LEMMA AssocLines ==
    \A a, b, c \in Seq(Lines) : (a \o b) \o c = a \o (b \o c)
<1> SUFFICES ASSUME NEW a \in Seq(Lines), NEW b \in Seq(Lines), NEW c \in Seq(Lines)
             PROVE  (a \o b) \o c = a \o (b \o c)
  OBVIOUS
<1> QED BY ConcatAssoc

\* The cut at the end is the text.
LEMMA CutAll ==
    ASSUME NEW T \in Texts
    PROVE  SubSeq(T, 1, Len(T)) = T
BY DEF Texts

\* The slices between consecutive cuts, one after the other.
LEMMA SlicesRejoin ==
    ASSUME NEW T \in Texts, NEW M \in Nat, M # 0,
           NEW cut \in [0..M -> 0..Len(T)], \A k \in 0..M - 1 : cut[k] <= cut[k + 1],
           NEW ss \in Seq(Texts), Len(ss) = M,
           \A k \in 0..M - 1 : ss[k + 1] = SubSeq(T, cut[k] + 1, cut[k + 1])
    PROVE  SubSeq(T, 1, cut[0]) \o FlattenSeq(ss) = SubSeq(T, 1, cut[M])
<1>1. ss # <<>> /\ M \in 1..M /\ 1 \in 1..M /\ ss \in Seq(Seq(Lines))
  BY DEF Texts
<1> PICK f \in [1..M -> Seq(Lines)] : Grows(f, ss, M) /\ FlattenSeq(ss) = f[M]
  BY <1>1, Flattened
<1> PICK head \in Seq(Lines) : head = SubSeq(T, 1, cut[0])
  <2> PICK m \in 0..Len(T) : m = cut[0]
    OBVIOUS
  <2>1. SubSeq(T, 1, m) \in Seq(Lines)
    BY DEF Texts
  <2> QED BY <2>1
<1> DEFINE S == {k \in 0..M : k > 0 => head \o f[k] = SubSeq(T, 1, cut[k])}
<1>2. 0 \in S
  OBVIOUS
<1>3. ASSUME NEW k \in 0..M - 1, k \in S PROVE k + 1 \in S
  <2>1. k + 1 \in 1..M /\ k + 1 \in 0..M /\ k \in 0..M
    OBVIOUS
  <2> PICK a \in 0..Len(T) : a = cut[k]
    BY <2>1
  <2> PICK b \in 0..Len(T) : b = cut[k + 1]
    BY <2>1
  <2>2. a <= b
    OBVIOUS
  <2>3. ss[k + 1] = SubSeq(T, a + 1, b)
    OBVIOUS
  <2>4. ss[k + 1] \in Seq(Lines)
    BY <1>1, <2>1
  <2>5. a <= b /\ ss[k + 1] = SubSeq(T, a + 1, b) /\ ss[k + 1] \in Seq(Lines)
    BY <2>2, <2>3, <2>4
  <2>6. SubSeq(T, 1, a) \o ss[k + 1] = SubSeq(T, 1, b)
    <3>1. b \in a..Len(T)
      BY <2>5
    <3> QED BY <2>5, <3>1, CutAgain
  <2>7. CASE k = 0
    <3>1. f[k + 1] = ss[k + 1]
      BY <1>1, <2>7 DEF Grows
    <3>2. head = SubSeq(T, 1, a)
      BY <2>7
    <3> QED BY <2>1, <2>6, <3>1, <3>2
  <2>8. CASE k # 0
    <3>1. k \in 1..M /\ k \in 1..M - 1 /\ k > 0
      BY <2>8
    <3>2. f[k + 1] = f[k] \o ss[k + 1] /\ f[k] \in Seq(Lines)
      BY <3>1 DEF Grows
    <3>3. head \o f[k] = SubSeq(T, 1, a)
      BY <1>3, <3>1
    <3>4. head \o (f[k] \o ss[k + 1]) = SubSeq(T, 1, a) \o ss[k + 1]
      <4>1. head \in Seq(Lines) /\ f[k] \in Seq(Lines) /\ ss[k + 1] \in Seq(Lines)
        BY <2>5, <3>2
      <4> PICK x \in Seq(Lines), y \in Seq(Lines), z \in Seq(Lines) :
               x = head /\ y = f[k] /\ z = ss[k + 1]
        BY <4>1
      <4>2. (x \o y) \o z = x \o (y \o z)
        BY AssocLines, ZenonT(30)
      <4> QED BY <3>3, <4>2
    <3> QED BY <2>1, <2>6, <3>2, <3>4
  <2> QED BY <2>7, <2>8
<1> HIDE DEF S
<1>4. M \in S
  <2>1. \A k \in 0..M - 1 : k \in S => k + 1 \in S
    BY <1>3
  <2>2. \A k \in 0..M : k \in S
    BY <1>2, <2>1, Climb
  <2> QED BY <2>2
<1>5. M > 0
  OBVIOUS
<1> QED BY <1>4, <1>5 DEF S

\* The cuts of a text of N lines, after the first m and then where a block ends.
Cuts(N, M, at, to, m, cut) ==
    /\ cut \in [0..M -> 0..N]
    /\ cut[0] = m /\ cut[M] = N
    /\ \A k \in 0..M - 1 : /\ cut[k + 1] = to[k + 1] /\ cut[k] <= cut[k + 1]
                           /\ at[k + 1] = cut[k] + 1

\* A block ends before the next one begins, or at the end.
Abut(N, M, I, at, to) ==
    \A n \in 1..M : /\ at[n] <= to[n]
                    /\ \A k \in I : k > at[n] => to[n] < k
                    /\ to[n] = N \/ to[n] + 1 \in I

\* Blocks that begin where the last one ended, and end at the end, in numbers.
LEMMA Chain ==
    ASSUME NEW N \in Nat, NEW M \in Nat, M # 0, NEW I \in SUBSET (1..N), NEW at \in [1..M -> I],
           \A n, k \in 1..M : n < k => at[n] < at[k],
           \A i \in I : \E n \in 1..M : at[n] = i,
           NEW to \in [1..M -> 1..N],
           Abut(N, M, I, at, to),
           NEW m \in 0..N, I # {} => m + 1 \in I /\ \A i \in I : m + 1 <= i
    PROVE  \E cut : Cuts(N, M, at, to, m, cut)
<1>1. \A n \in 1..M : /\ at[n] <= to[n]
                      /\ \A k \in I : k > at[n] => to[n] < k
                      /\ to[n] = N \/ to[n] + 1 \in I
  BY DEF Abut
<1>2. \A n \in 1..M : at[n] \in I /\ at[n] \in 1..N /\ to[n] \in 1..N
  <2> SUFFICES ASSUME NEW n \in 1..M PROVE at[n] \in I /\ at[n] \in 1..N /\ to[n] \in 1..N
    OBVIOUS
  <2>1. at[n] \in I /\ to[n] \in 1..N
    OBVIOUS
  <2> QED BY <2>1
<1>3. ASSUME NEW n \in 1..M, NEW k \in 1..M, at[n] < at[k] PROVE n < k
  <2>1. at[n] \in Nat /\ at[k] \in Nat
    BY <1>2, SMTT(30)
  <2>2. k < n => at[k] < at[n]
    OBVIOUS
  <2>3. k < n \/ k = n \/ n < k
    OBVIOUS
  <2>4. ~(k < n)
    BY <1>3, <2>1, <2>2
  <2>5. k # n
    BY <1>3, <2>1
  <2> QED BY <2>3, <2>4, <2>5
<1>4. at[1] = m + 1
  <2>1. 1 \in 1..M
    OBVIOUS
  <2>2. at[1] \in I /\ at[1] \in Nat
    BY <1>2, <2>1
  <2>3. m + 1 \in I /\ m + 1 <= at[1]
    BY <2>2
  <2> PICK x \in 1..M : at[x] = m + 1
    BY <2>3
  <2>4. x = 1 \/ 1 < x
    OBVIOUS
  <2>5. 1 < x => at[1] < at[x]
    BY <2>1
  <2> QED BY <2>2, <2>3, <2>4, <2>5
<1>5. ASSUME NEW n \in 1..M, n + 1 \in 1..M PROVE at[n + 1] = to[n] + 1
  <2> PICK q \in I : q = at[n + 1] /\ q \in 1..N
    BY <1>2, <1>5
  <2> PICK t \in 1..N : t = to[n]
    BY <1>2
  <2>1. at[n] < q
    <3>1. n < n + 1
      OBVIOUS
    <3> QED BY <1>5, <3>1
  <2>2. at[n] \in 1..N
    BY <1>2
  <2>3. t < q
    <3>1. q > at[n]
      BY <2>1, <2>2
    <3> QED BY <1>1, <3>1
  <2>4. t # N
    BY <2>3
  <2>5. t + 1 \in I
    BY <1>1, <2>4
  <2> PICK x \in 1..M : at[x] = t + 1
    BY <2>5
  <2>6. at[n] <= t
    BY <1>1
  <2>7. at[n] < at[x]
    BY <2>2, <2>6
  <2>8. n < x
    BY <1>3, <2>7
  <2>9. x = n + 1 \/ n + 1 < x
    BY <2>8
  <2>10. n + 1 < x => q < t + 1
    BY <1>5
  <2>11. ~(n + 1 < x)
    BY <2>3, <2>10
  <2>12. q = t + 1
    BY <2>9, <2>11
  <2> QED BY <2>12
<1>6. to[M] = N
  <2> SUFFICES ASSUME to[M] # N PROVE FALSE
    OBVIOUS
  <2>1. M \in 1..M
    OBVIOUS
  <2>2. to[M] + 1 \in I
    BY <1>1, <2>1
  <2> PICK x \in 1..M : at[x] = to[M] + 1
    BY <2>2
  <2>3. at[M] <= to[M] /\ at[M] \in 1..N /\ to[M] \in 1..N
    BY <1>1, <1>2, <2>1
  <2>4. at[M] < at[x]
    BY <2>3
  <2>5. M < x
    BY <1>3, <2>1, <2>4
  <2> QED BY <2>5
<1> DEFINE cut == [k \in 0..M |-> IF k = 0 THEN m ELSE to[k]]
<1>7. \A k \in 0..M : cut[k] \in 0..N
  <2> SUFFICES ASSUME NEW k \in 0..M PROVE cut[k] \in 0..N
    OBVIOUS
  <2>1. CASE k = 0
    BY <2>1
  <2>2. CASE k # 0
    <3>1. k \in 1..M
      BY <2>2
    <3>2. to[k] \in 1..N
      BY <1>2, <3>1
    <3> QED BY <2>2, <3>2
  <2> QED BY <2>1, <2>2
<1>8. cut \in [0..M -> 0..N]
  BY <1>7
<1>9. cut[0] = m /\ \A k \in 1..M : cut[k] = to[k]
  OBVIOUS
<1> HIDE DEF cut
<1>10. cut[M] = N
  BY <1>6, <1>9
<1>11. ASSUME NEW k \in 0..M - 1
       PROVE  /\ cut[k + 1] = to[k + 1] /\ cut[k] <= cut[k + 1]
              /\ at[k + 1] = cut[k] + 1
  <2>1. k + 1 \in 1..M /\ k \in 0..M
    OBVIOUS
  <2>2. cut[k + 1] = to[k + 1]
    BY <1>9, <2>1
  <2>3. at[k + 1] = cut[k] + 1
    <3>1. CASE k = 0
      BY <1>4, <1>9, <3>1
    <3>2. CASE k # 0
      <4>1. k \in 1..M
        BY <3>2
      <4> QED BY <1>5, <1>9, <2>1, <4>1
    <3> QED BY <3>1, <3>2
  <2>4. at[k + 1] <= to[k + 1]
    BY <1>1, <2>1
  <2> PICK c \in 0..N : c = cut[k]
    BY <1>7, <2>1
  <2> PICK e \in 1..N : e = to[k + 1]
    BY <1>2, <2>1
  <2>5. c + 1 <= e
    BY <2>3, <2>4
  <2>6. c <= e
    BY <2>5
  <2> QED BY <2>2, <2>3, <2>6
<1> QED BY <1>8, <1>9, <1>10, <1>11 DEF Cuts

\* The blocks of the items, after the text before them, are the text.
LEMMA BlocksRejoin ==
    ASSUME NEW T \in Texts, NEW M \in Nat, NEW items \in [1..M -> ItemLines(T)],
           \A n, m \in 1..M : n < m => items[n] < items[m],
           \A i \in ItemLines(T) : \E n \in 1..M : items[n] = i,
           NEW ss \in Seq(Texts), Len(ss) = M,
           \A n \in 1..M : ss[n] = SubSeq(T, items[n], LastLine(T, items[n]))
    PROVE  Preamble(T) \o FlattenSeq(ss) = T
<1> PICK N \in Nat : N = Len(T) /\ DOMAIN T = 1..N
  BY DEF Texts
<1> PICK m \in 0..N :
              /\ Preamble(T) = SubSeq(T, 1, m)
              /\ \/ m = N /\ ItemLines(T) = {}
                 \/ m + 1 \in ItemLines(T) /\ \A i \in ItemLines(T) : m + 1 <= i
  <2>1. \E n \in 0..N :
              /\ Preamble(T) = SubSeq(T, 1, n)
              /\ \A h \in Heads(T) : h > n
              /\ \/ n = N /\ ItemLines(T) = {}
                 \/ n + 1 \in ItemLines(T) /\ \A i \in ItemLines(T) : n + 1 <= i
    BY PreambleIs
  <2> QED BY <2>1
<1>1. ItemLines(T) \in SUBSET (1..N)
  BY ItemLinesAre
<1> DEFINE to == [n \in 1..M |-> LastLine(T, items[n])]
<1>2. ASSUME NEW n \in 1..M
      PROVE  /\ to[n] \in 1..N /\ items[n] <= to[n]
             /\ \A k \in ItemLines(T) : k > items[n] => to[n] < k
             /\ to[n] = N \/ to[n] + 1 \in ItemLines(T)
  <2>1. items[n] \in ItemLines(T)
    OBVIOUS
  <2> PICK i \in 1..N : i = items[n]
    BY <1>1, <2>1
  <2>2. /\ LastLine(T, i) \in i..N
        /\ \A k \in ItemLines(T) : k > i => LastLine(T, i) < k
        /\ \/ LastLine(T, i) = N
           \/ LastLine(T, i) + 1 \in ItemLines(T) /\ LastLine(T, i) + 1 > i
    BY LastLineIs
  <2> QED BY <2>2
<1>3. to \in [1..M -> 1..N]
  BY <1>2
<1>4. \A n \in 1..M : ss[n] = SubSeq(T, items[n], to[n])
  OBVIOUS
<1> HIDE DEF to
<1>5. CASE M = 0
  <2>1. ItemLines(T) = {}
    <3>1. 1..M = {}
      BY <1>5
    <3> QED BY <3>1
  <2>2. m = N
    BY <2>1
  <2>3. Preamble(T) = T
    BY <2>2, CutAll
  <2>4. ss = <<>>
    BY <1>5, EmptySeq, Zenon
  <2>5. FlattenSeq(ss) = <<>>
    BY <2>4 DEF FlattenSeq
  <2> QED BY <2>3, <2>5 DEF Texts
<1>6. CASE M # 0
  <2>1. ItemLines(T) # {} => m + 1 \in ItemLines(T) /\ \A i \in ItemLines(T) : m + 1 <= i
    OBVIOUS
  <2> PICK I : I = ItemLines(T)
    OBVIOUS
  <2>2. Abut(N, M, I, items, to)
    BY <1>2 DEF Abut
  <2>3. /\ I \in SUBSET (1..N) /\ items \in [1..M -> I] /\ to \in [1..M -> 1..N] /\ M # 0
        /\ \A n, k \in 1..M : n < k => items[n] < items[k]
        /\ \A i \in I : \E n \in 1..M : items[n] = i
        /\ I # {} => m + 1 \in I /\ \A i \in I : m + 1 <= i
    BY <1>1, <1>3, <1>6, <2>1
  <2> PICK cut : Cuts(N, M, items, to, m, cut)
    BY <2>2, <2>3, Chain, Zenon
  <2>4. /\ cut \in [0..M -> 0..N] /\ cut[0] = m /\ cut[M] = N
        /\ \A k \in 0..M - 1 : /\ cut[k + 1] = to[k + 1] /\ cut[k] <= cut[k + 1]
                               /\ items[k + 1] = cut[k] + 1
    BY DEF Cuts
  <2>5. \A k \in 0..M - 1 : ss[k + 1] = SubSeq(T, cut[k] + 1, cut[k + 1])
    <3>1. \A k \in 0..M - 1 : k + 1 \in 1..M
      OBVIOUS
    <3> QED BY <1>4, <2>4, <3>1
  <2>6. SubSeq(T, 1, cut[0]) \o FlattenSeq(ss) = SubSeq(T, 1, cut[M])
    <3>1. cut \in [0..M -> 0..Len(T)] /\ \A k \in 0..M - 1 : cut[k] <= cut[k + 1]
      BY <2>4
    <3>2. ss \in Seq(Texts) /\ Len(ss) = M /\ M # 0
      BY <1>6
    <3> QED BY <2>5, <3>1, <3>2, SlicesRejoin, Zenon
  <2>7. SubSeq(T, 1, cut[0]) = Preamble(T) /\ SubSeq(T, 1, cut[M]) = SubSeq(T, 1, Len(T))
    BY <2>4
  <2> QED BY <2>6, <2>7, CutAll
<1> QED BY <1>5, <1>6

---------------------------------------------------------------------------
(* The second sync *)

\* The items are written again as they are, so the text stays.
LEMMA ReplacedAgain ==
    ASSUME NEW cols, Ordered(cols), NEW cs, Clear(cs), NEW T, TextHolds(cols, cs, T, DOMAIN cs)
    PROVE  Replaced(cols, cs, T) = T
<1>1. T \in Texts
  BY DEF TextHolds
<1> PICK N \in Nat : N = Len(T)
  BY <1>1 DEF Texts
<1> PICK I : I = ItemLines(T)
  OBVIOUS
<1>2. I \in SUBSET (1..N)
  BY <1>1, ItemLinesAre
<1>3. /\ Sorted(I) \in [1..Cardinality(I) -> I] /\ Cardinality(I) \in Nat
      /\ \A n, m \in 1..Cardinality(I) : n < m => Sorted(I)[n] < Sorted(I)[m]
      /\ \A x \in I : \E n \in 1..Cardinality(I) : Sorted(I)[n] = x
  BY <1>2, SortedSet
<1> PICK M \in Nat : M = Cardinality(I)
  BY <1>3
<1> PICK items \in [1..M -> I] : items = Sorted(I)
  BY <1>3
<1> DEFINE ss == [n \in 1..M |-> Rewritten(cols, cs, T, items[n])]
<1>4. \A n \in 1..M : ss[n] = SubSeq(T, items[n], LastLine(T, items[n])) /\ ss[n] \in Texts
  <2> SUFFICES ASSUME NEW n \in 1..M
               PROVE  ss[n] = SubSeq(T, items[n], LastLine(T, items[n])) /\ ss[n] \in Texts
    OBVIOUS
  <2> PICK i \in ItemLines(T) : i = items[n]
    OBVIOUS
  <2>1. Rewritten(cols, cs, T, i) = SubSeq(T, i, LastLine(T, i))
    BY RewrittenBack
  <2>2. i \in 1..N /\ LastLine(T, i) \in i..N
    BY <1>1, <1>2, LastLineIs
  <2> PICK e \in i..N : e = LastLine(T, i)
    BY <2>2
  <2>3. i \in 1..Len(T) + 1 /\ e \in 0..Len(T) /\ e >= i - 1
    BY <2>2
  <2>4. SubSeq(T, i, e) \in Seq(Lines)
    BY <1>1, <2>3, Slice DEF Texts
  <2>5. ss[n] = Rewritten(cols, cs, T, i)
    OBVIOUS
  <2> HIDE DEF ss
  <2> QED BY <2>1, <2>4, <2>5 DEF Texts
<1>5. ss \in Seq(Texts) /\ Len(ss) = M
  BY <1>4
<1>6. Replaced(cols, cs, T) = Preamble(T) \o FlattenSeq(ss)
  <2>1. DOMAIN items = 1..M
    OBVIOUS
  <2> QED BY <2>1 DEF Replaced
<1> HIDE DEF ss
<1>7. Preamble(T) \o FlattenSeq(ss) = T
  <2>1. items \in [1..M -> ItemLines(T)]
    OBVIOUS
  <2>2. \A n, m \in 1..M : n < m => items[n] < items[m]
    BY <1>3
  <2>3. \A i \in ItemLines(T) : \E n \in 1..M : items[n] = i
    BY <1>3
  <2>4. \A n \in 1..M : ss[n] = SubSeq(T, items[n], LastLine(T, items[n]))
    BY <1>4
  <2> QED BY <1>1, <1>5, <2>1, <2>2, <2>3, <2>4, BlocksRejoin, Zenon
<1> QED BY <1>6, <1>7

\* A text that holds the board is not changed by another sync.
LEMMA NoteAgain ==
    ASSUME NEW cols, Ordered(cols), NEW cs, Clear(cs), NEW T, TextHolds(cols, cs, T, DOMAIN cs)
    PROVE  SyncNote(cols, cs, T) = T
<1>1. Replaced(cols, cs, T) = T
  BY ReplacedAgain
<1>2. Missing(cs, T) = <<>>
  <2>1. Missing(cs, T) = Sorted(DOMAIN cs \ DOMAIN cs)
    BY MissingIs
  <2>2. DOMAIN cs \ DOMAIN cs = {}
    OBVIOUS
  <2>3. Cardinality({}) = 0
    BY FS_EmptySet
  <2>4. Sorted({}) = <<>>
    BY <2>3 DEF Sorted
  <2> QED BY <2>1, <2>2, <2>4
<1>3. [n \in DOMAIN Missing(cs, T) |-> LinesForCard(cols, cs[Missing(cs, T)[n]], Null)] = <<>>
  BY <1>2
<1>4. FlattenSeq(<<>>) = <<>>
  BY DEF FlattenSeq
<1>5. Append1(T, <<>>) = T
  BY DEF Append1
<1>6. SyncNote(cols, cs, T)
          = Append1(T, FlattenSeq([n \in DOMAIN Missing(cs, T) |->
                                      LinesForCard(cols, cs[Missing(cs, T)[n]], Null)]))
  BY <1>1 DEF SyncNote
<1> QED BY <1>3, <1>4, <1>5, <1>6

---------------------------------------------------------------------------
(* Types *)

\* What the sync writes is a text, whatever the board and the text.
LEMMA PreambleType ==
    ASSUME NEW lines \in Texts
    PROVE  Preamble(lines) \in Texts
<1> PICK m \in 0..Len(lines) : Preamble(lines) = SubSeq(lines, 1, m)
  BY PreambleIs
<1> QED BY DEF Texts

\* buildNoteLinesForCard returns a text.
LEMMA LinesForCardType ==
    ASSUME NEW cols, Ordered(cols), NEW c \in Cards, NEW box \in Boxes \cup {Null}
    PROVE  LinesForCard(cols, c, box) \in Texts
<1>1. Written(cols, c, LinesForCard(cols, c, box))
  BY LinesAreWritten
<1> QED BY <1>1 DEF Written

\* The block of an item is a text.
LEMMA BlockType ==
    ASSUME NEW lines \in Texts, NEW i \in ItemLines(lines)
    PROVE  SubSeq(lines, i, LastLine(lines, i)) \in Texts
<1> PICK N \in Nat : N = Len(lines)
  BY DEF Texts
<1>1. i \in 1..N
  BY ItemLinesAre
<1> PICK e \in i..N : e = LastLine(lines, i)
  BY <1>1, LastLineIs
<1>2. i \in 1..Len(lines) + 1 /\ e \in 0..Len(lines) /\ e >= i - 1
  BY <1>1
<1>3. SubSeq(lines, i, e) \in Seq(Lines)
  BY <1>2, Slice DEF Texts
<1> QED BY <1>3 DEF Texts

\* What replaces a block is a text, even if several cards share its key.
LEMMA RewrittenType ==
    ASSUME NEW cols, Ordered(cols), NEW cs \in Seq(Cards), NEW lines \in Texts, NEW i \in ItemLines(lines)
    PROVE  Rewritten(cols, cs, lines, i) \in Texts
<1> PICK key : key = KeyOf[lines[i].title]
  OBVIOUS
<1> PICK box \in Boxes : box = lines[i].box
  BY ItemLinesAre DEF ListLines
<1> PICK block \in Texts : block = SubSeq(lines, i, LastLine(lines, i))
  BY BlockType
<1>1. CASE \A j \in DOMAIN cs : cs[j].key # key
  <2>1. Rewritten(cols, cs, lines, i) = <<>>
    BY <1>1 DEF Rewritten
  <2> QED BY <2>1 DEF Texts
<1>2. CASE \E j \in DOMAIN cs : cs[j].key = key
  <2> DEFINE S == {j \in DOMAIN cs : cs[j].key = key}
  <2> PICK N \in Nat : N = Len(cs) /\ DOMAIN cs = 1..N
    OBVIOUS
  <2>1. S \subseteq 0..N /\ S # {} /\ S \subseteq DOMAIN cs
    BY <1>2
  <2>2. Max(S) \in S
    <3> HIDE DEF S
    <3> QED BY <2>1, HighestOf
  <2>3. CardOf(cs, key) = cs[Max(S)]
    BY DEF CardOf
  <2> HIDE DEF S
  <2>4. \A j \in DOMAIN cs : cs[j] \in Cards
    OBVIOUS
  <2> PICK m \in DOMAIN cs : m = Max(S)
    BY <2>1, <2>2
  <2> PICK c \in Cards : c = cs[m]
    BY <2>4
  <2>5. c = CardOf(cs, key)
    BY <2>3
  <2> PICK new \in Texts : new = LinesForCard(cols, c, box)
    BY LinesForCardType
  <2>6. Rewritten(cols, cs, lines, i) = IF TrimEnd(new) = TrimEnd(block) THEN block ELSE new
    BY <1>2, <2>5 DEF Rewritten
  <2> QED BY <2>6
<1> QED BY <1>1, <1>2

\* Texts joined are a text.
LEMMA JoinedType ==
    ASSUME NEW n \in Nat, NEW ss, ss = [k \in 1..n |-> ss[k]], \A k \in 1..n : ss[k] \in Texts
    PROVE  FlattenSeq(ss) \in Texts
<1>1. ss \in [1..n -> Seq(Lines)]
  BY DEF Texts
<1>2. ss \in Seq(Seq(Lines))
  BY <1>1, FunSeq
<1> QED BY <1>2, FlattenedType DEF Texts

\* The text with its items replaced is a text.
LEMMA ReplacedType ==
    ASSUME NEW cols, Ordered(cols), NEW cs \in Seq(Cards), NEW lines \in Texts
    PROVE  Replaced(cols, cs, lines) \in Texts
<1> PICK I : I = ItemLines(lines)
  OBVIOUS
<1> PICK N \in Nat : N = Len(lines)
  BY DEF Texts
<1>1. I \in SUBSET (1..N)
  BY ItemLinesAre
<1> PICK M \in Nat : M = Cardinality(I)
  BY <1>1, SortedSet
<1> PICK items \in [1..M -> I] : items = Sorted(I)
  BY <1>1, SortedSet
<1> DEFINE ss == [n \in DOMAIN items |-> Rewritten(cols, cs, lines, items[n])]
<1>2. \A n \in 1..M : ss[n] \in Texts
  BY RewrittenType
<1>3. ss = [n \in 1..M |-> ss[n]]
  OBVIOUS
<1>4. Replaced(cols, cs, lines) = Preamble(lines) \o FlattenSeq(ss)
  BY DEF Replaced
<1> HIDE DEF ss
<1>5. FlattenSeq(ss) \in Texts
  BY <1>2, <1>3, JoinedType
<1> QED BY <1>4, <1>5, PreambleType, Joined

\* So it is with lines appended.
LEMMA Append1Type ==
    ASSUME NEW T \in Texts, NEW more \in Texts
    PROVE  Append1(T, more) \in Texts
<1>1. T # <<>> => Front(T) \in Texts
  BY DEF Front, Texts
<1> QED BY <1>1, Joined DEF Append1

\* syncNoteBodyFromBoard returns a text.
LEMMA SyncNoteType ==
    ASSUME NEW cols, Ordered(cols), NEW cs \in Seq(Cards), NEW lines \in Texts
    PROVE  SyncNote(cols, cs, lines) \in Texts
<1> PICK T \in Texts : T = Replaced(cols, cs, lines)
  BY ReplacedType
<1> DEFINE absent == {i \in DOMAIN cs : cs[i].key \notin KeysIn(T)}
           S == {i \in absent : \A j \in absent : j < i => cs[j].key # cs[i].key}
<1> PICK N \in Nat : N = Len(cs) /\ DOMAIN cs = 1..N
  OBVIOUS
<1>1. S \in SUBSET (1..N) /\ Missing(cs, T) = Sorted(S)
  BY DEF Missing
<1> HIDE DEF S
<1> PICK M \in Nat : M = Cardinality(S)
  BY <1>1, SortedSet
<1> PICK at \in [1..M -> S] : at = Missing(cs, T)
  BY <1>1, SortedSet
<1> DEFINE ss == [n \in DOMAIN at |-> LinesForCard(cols, cs[at[n]], Null)]
<1>2. \A n \in 1..M : ss[n] \in Texts
  <2> SUFFICES ASSUME NEW n \in 1..M PROVE ss[n] \in Texts
    OBVIOUS
  <2> PICK j \in 1..N : j = at[n]
    BY <1>1
  <2>1. cs[j] \in Cards
    OBVIOUS
  <2> QED BY <2>1, LinesForCardType
<1>3. ss = [n \in 1..M |-> ss[n]]
  OBVIOUS
<1>4. SyncNote(cols, cs, lines) = Append1(T, FlattenSeq(ss))
  BY DEF SyncNote
<1> HIDE DEF ss
<1>5. FlattenSeq(ss) \in Texts
  BY <1>2, <1>3, JoinedType
<1> QED BY <1>4, <1>5, Append1Type

\* Keyed gives every card a key.
LEMMA KeyedIs ==
    ASSUME NEW cs \in Seq(Cards), \A n \in DOMAIN cs : Trimmed(cs[n].desc)
    PROVE  Settled(Keyed(cs))
<1> DEFINE keyed(c) == IF c.key = Null THEN [c EXCEPT !.key = KeyOf[c.title]] ELSE c
<1>1. Keyed(cs) = [n \in DOMAIN cs |-> keyed(cs[n])]
  BY DEF Keyed, Each
<1>2. ASSUME NEW c \in Cards
      PROVE  keyed(c) \in Cards /\ keyed(c).key # Null /\ keyed(c).desc = c.desc
  <2>1. /\ c.id \in Nat /\ c.col \in Nat /\ c.tags \in Seq(Tags) /\ c.title \in Titles /\ c.key \in Keys \cup {Null}
        /\ c.desc \in Texts
    BY DEF Cards
  <2>2. KeyOf[c.title] \in Keys /\ Null \notin Keys
    BY <2>1, SyncAssumption DEF Keys
  <2>3. CASE c.key = Null
    <3>1. [c EXCEPT !.key = KeyOf[c.title]] \in Cards
      BY <2>1, <2>2 DEF Cards
    <3>2. [c EXCEPT !.key = KeyOf[c.title]].key = KeyOf[c.title]
      BY DEF Cards
    <3>3. [c EXCEPT !.key = KeyOf[c.title]].desc = c.desc
      BY DEF Cards
    <3> QED BY <2>2, <2>3, <3>1, <3>2, <3>3
  <2>4. CASE c.key # Null
    BY <2>4
  <2> QED BY <2>3, <2>4
<1> HIDE DEF keyed
<1>3. \A n \in DOMAIN cs : cs[n] \in Cards
  OBVIOUS
<1>4. Keyed(cs) \in Seq(Cards) /\ DOMAIN Keyed(cs) = DOMAIN cs
  BY <1>1, <1>2, <1>3
<1>5. ASSUME NEW n \in DOMAIN Keyed(cs)
      PROVE  Keyed(cs)[n].key # Null /\ Trimmed(Keyed(cs)[n].desc)
  <2>1. Keyed(cs)[n] = keyed(cs[n]) /\ n \in DOMAIN cs /\ cs[n] \in Cards
    BY <1>1, <1>3, <1>4
  <2> QED BY <1>2, <2>1
<1> QED BY <1>4, <1>5 DEF Settled

\* buildNoteBodyFromBoard returns a text.
LEMMA NoteOfBoardType ==
    ASSUME NEW cols, Ordered(cols), NEW cs \in Seq(Cards)
    PROVE  NoteOfBoard(cols, cs) \in Texts
<1> DEFINE inColumn(column) == Picked(cs, {i \in DOMAIN cs : cs[i].col = column.id})
           ordered == FlattenSeq(Each(inColumn, cols))
           written(c) == LinesForCard(cols, c, Null)
           ss == Each(written, ordered)
<1>1. \A column : inColumn(column) \in Seq(Cards)
  <2> SUFFICES ASSUME NEW column PROVE inColumn(column) \in Seq(Cards)
    OBVIOUS
  <2>1. {i \in DOMAIN cs : cs[i].col = column.id} \in SUBSET (1..Len(cs))
    OBVIOUS
  <2> QED BY <2>1, PickedIs
<1>2. ordered \in Seq(Cards)
  <2> PICK us : us = Each(inColumn, cols)
    OBVIOUS
  <2>1. us = [n \in DOMAIN cols |-> inColumn(cols[n])]
    BY DEF Each
  <2> PICK M \in Nat : M = Len(cols) /\ DOMAIN cols = 1..M
    BY DEF Ordered
  <2> HIDE DEF inColumn
  <2>2. us \in [1..M -> Seq(Cards)]
    BY <1>1, <2>1
  <2>3. us \in Seq(Seq(Cards))
    BY <2>2, FunSeq
  <2>4. FlattenSeq(us) \in Seq(Cards)
    BY <2>3, FlattenedType
  <2> QED BY <2>4
<1> HIDE DEF ordered
<1> PICK N \in Nat : N = Len(ordered) /\ DOMAIN ordered = 1..N
  BY <1>2
<1>3. ss = [n \in 1..N |-> LinesForCard(cols, ordered[n], Null)]
  BY DEF Each
<1>4. \A n \in 1..N : ss[n] \in Texts
  <2> SUFFICES ASSUME NEW n \in 1..N PROVE ss[n] \in Texts
    OBVIOUS
  <2> PICK c \in Cards : c = ordered[n]
    BY <1>2
  <2>1. ss[n] = LinesForCard(cols, c, Null)
    BY <1>3
  <2> HIDE DEF ss
  <2> QED BY <2>1, LinesForCardType
<1>5. NoteOfBoard(cols, cs) = Trim(OneBlank(FlattenSeq(ss)))
  BY DEF NoteOfBoard, ordered
<1>6. ss = [n \in 1..N |-> ss[n]]
  BY <1>3
<1> HIDE DEF ss
<1> PICK T \in Texts : T = FlattenSeq(ss)
  BY <1>4, <1>6, JoinedType
<1> QED BY <1>5, OneBlankType, TrimIs

\* Opens is IsPrefix, as the property states it.
LEMMA OpensIsPrefix ==
    ASSUME NEW p, NEW T \in Texts, Opens(p, T)
    PROVE  IsPrefix(p, T)
<1> PICK N \in Nat : N = Len(p) /\ p \in Seq(Lines)
  BY DEF Opens, Texts
<1>1. N <= Len(T) /\ \A k \in 1..N : T[k] = p[k]
  BY DEF Opens
<1>2. SubSeq(p, 1, N) = SubSeq(T, 1, N)
  <2>1. N \in 0..Len(T) /\ T \in Seq(Lines)
    BY <1>1 DEF Texts
  <2> PICK u \in Seq(Lines), v \in Seq(Lines) : Split(T, N, u, v)
    BY <2>1, SplitAt
  <2>2. /\ u = SubSeq(T, 1, N) /\ Len(u) = N
        /\ \A k \in 1..N : u[k] = T[k]
    BY DEF Split
  <2>3. p \in Texts /\ SubSeq(p, 1, Len(p)) = p
    BY CutAll DEF Texts
  <2>4. u = p
    BY <1>1, <2>2
  <2> QED BY <2>2, <2>3, <2>4
<1> QED BY <1>1, <1>2 DEF IsPrefix

\* The condition of the property is what the lemmas about texts need.
LEMMA PlainIsClear ==
    ASSUME NEW cols, NEW cs, Settled(cs), NEW lines, Plain(cols, cs, lines)
    PROVE  Clear(cs) /\ Named(cols, cs) /\ Fences(lines) % 2 = 0
BY DEF Plain, Clear, Named

\* An edit of a plain board comes back from the text as it was made.
LEMMA EditComesBack ==
    ASSUME NEW cols, Ordered(cols), NEW cs, Settled(cs), NEW lines \in Texts,
           Plain(cols, cs, lines)
    PROVE  LET T == SyncNote(cols, cs, lines)
               R == SyncBoard(cols, cs, T)
           IN  /\ Shown(cols, R) = Shown(cols, cs)
               /\ IsPrefix(TrimEnd(Preamble(lines)), T)
               /\ Len(cols) > 1 => SyncNote(cols, R, T) = T
               /\ SyncBoard(cols, R, T) = R
<1>1. Clear(cs) /\ Named(cols, cs) /\ Fences(lines) % 2 = 0
  BY PlainIsClear
<1> PICK T : T = SyncNote(cols, cs, lines)
  OBVIOUS
<1> PICK R : R = SyncBoard(cols, cs, T)
  OBVIOUS
<1>2. TextHolds(cols, cs, T, DOMAIN cs) /\ Opens(TrimEnd(Preamble(lines)), T)
  BY <1>1, NoteHolds
<1>3. T \in Texts
  BY <1>2 DEF TextHolds
<1>4. Shown(cols, R) = Shown(cols, cs)
  BY <1>1, <1>2, ShownBack
<1>5. IsPrefix(TrimEnd(Preamble(lines)), T)
  BY <1>2, <1>3, OpensIsPrefix
<1>6. Len(cols) > 1 => SyncNote(cols, R, T) = T
  <2> SUFFICES ASSUME Len(cols) > 1 PROVE SyncNote(cols, R, T) = T
    OBVIOUS
  <2>1. Clear(R) /\ TextHolds(cols, R, T, DOMAIN R)
    BY <1>1, <1>2, HoldsBack
  <2> QED BY <2>1, NoteAgain
<1>7. SyncBoard(cols, R, T) = R
  <2>1. Settled(R) /\ FromText(cols, R, T)
    BY <1>3, SyncedBoard
  <2> QED BY <1>3, <2>1, SyncAgain
<1> QED BY <1>4, <1>5, <1>6, <1>7

---------------------------------------------------------------------------
(* Sequences of columns and cards *)

\* The end of a sequence.
LEMMA TailIs ==
    ASSUME NEW X, NEW s \in Seq(X), NEW m \in Nat, NEW l \in Nat, Len(s) = m + l
    PROVE  /\ SubSeq(s, m + 1, m + l) \in Seq(X) /\ Len(SubSeq(s, m + 1, m + l)) = l
           /\ \A k \in 1..l : SubSeq(s, m + 1, m + l)[k] = s[m + k]
OBVIOUS

\* The beginning of a sequence.
LEMMA HeadIs ==
    ASSUME NEW X, NEW s \in Seq(X), NEW m \in 0..Len(s)
    PROVE  /\ SubSeq(s, 1, m) \in Seq(X) /\ Len(SubSeq(s, 1, m)) = m
           /\ \A k \in 1..m : SubSeq(s, 1, m)[k] = s[k]
OBVIOUS

\* p is what comes before line m + 1 of s, r what comes after it, w is both.
Before(s, m, p) == Len(p) = m /\ \A k \in 1..m : p[k] = s[k]
After(s, m, l, r) == Len(r) = l /\ \A k \in 1..l : r[k] = s[m + 1 + k]
Without(s, m, l, w) ==
    Len(w) = m + l /\ \A k \in 1..m + l : w[k] = IF k < m + 1 THEN s[k] ELSE s[k + 1]

\* What comes before line m + 1 and what comes after it, side by side.
LEMMA Glued ==
    ASSUME NEW X, NEW m \in Nat, NEW l \in Nat, NEW s,
           NEW p \in Seq(X), Before(s, m, p), NEW r \in Seq(X), After(s, m, l, r)
    PROVE  p \o r \in Seq(X) /\ Without(s, m, l, p \o r)
<1>1. /\ Len(p) = m /\ \A k \in 1..m : p[k] = s[k]
      /\ Len(r) = l /\ \A k \in 1..l : r[k] = s[m + 1 + k]
  BY DEF Before, After
<1>2. p \o r \in Seq(X) /\ Len(p \o r) = m + l
  BY <1>1
<1> SUFFICES ASSUME NEW k \in 1..m + l
             PROVE  (p \o r)[k] = IF k < m + 1 THEN s[k] ELSE s[k + 1]
  BY <1>2 DEF Without
<1>3. CASE k <= m
  BY <1>1, <1>3
<1>4. CASE ~(k <= m)
  <2> PICK j \in 1..l : m + j = k
    BY <1>4, Above
  <2>1. (p \o r)[m + j] = r[j]
    BY <1>1
  <2>2. m + 1 + j = k + 1 /\ ~(k < m + 1)
    BY <1>4
  <2> QED BY <1>1, <2>1, <2>2
<1> QED BY <1>3, <1>4

\* RemoveAt, entry by entry.
LEMMA RemovedAt ==
    ASSUME NEW X, NEW s \in Seq(X), NEW i \in DOMAIN s
    PROVE  /\ RemoveAt(s, i) \in Seq(X) /\ Len(RemoveAt(s, i)) = Len(s) - 1
           /\ \A k \in 1..Len(s) - 1 : RemoveAt(s, i)[k] = IF k < i THEN s[k] ELSE s[k + 1]
<1> PICK N \in Nat : N = Len(s) /\ i \in 1..N
  OBVIOUS
<1> PICK m \in Nat : i = m + 1
  <2>1. i - 1 \in Nat /\ i = (i - 1) + 1
    OBVIOUS
  <2> QED BY <2>1
<1> PICK l \in Nat : N = i + l
  <2>1. N - i \in Nat /\ N = i + (N - i)
    OBVIOUS
  <2> QED BY <2>1
<1> PICK p \in Seq(X) : p = SubSeq(s, 1, m) /\ Len(p) = m /\ \A k \in 1..m : p[k] = s[k]
  <2>1. m \in 0..Len(s)
    OBVIOUS
  <2> QED BY <2>1, HeadIs, ZenonT(30)
<1> PICK r \in Seq(X) : /\ r = SubSeq(s, i + 1, N) /\ Len(r) = l
                       /\ \A k \in 1..l : r[k] = s[i + k]
  <2>1. Len(s) = i + l /\ i \in Nat /\ l \in Nat /\ s \in Seq(X)
    OBVIOUS
  <2>2. /\ SubSeq(s, i + 1, i + l) \in Seq(X) /\ Len(SubSeq(s, i + 1, i + l)) = l
        /\ \A k \in 1..l : SubSeq(s, i + 1, i + l)[k] = s[i + k]
    BY ONLY <2>1, TailIs
  <2> QED BY <2>2
<1>1. RemoveAt(s, i) = p \o r
  <2>1. i - 1 = m
    OBVIOUS
  <2> QED BY <2>1 DEF RemoveAt
<1>2. /\ p \in Seq(X) /\ Before(s, m, p) /\ r \in Seq(X) /\ After(s, m, l, r)
      /\ m \in Nat /\ l \in Nat
  BY DEF Before, After
<1>3. p \o r \in Seq(X) /\ Without(s, m, l, p \o r)
  BY ONLY <1>2, Glued
<1>4. m + l = N - 1
  OBVIOUS
<1> QED BY <1>1, <1>3, <1>4 DEF Without

\* InsertAt keeps the type.
LEMMA InsertedAt ==
    ASSUME NEW X, NEW s \in Seq(X), NEW i \in 1..Len(s) + 1, NEW x \in X
    PROVE  InsertAt(s, i, x) \in Seq(X)
BY DEF InsertAt

\* Deleting a column keeps the others distinct.
LEMMA OrderedWithout ==
    ASSUME NEW cols, Ordered(cols), Len(cols) > 1, NEW i \in DOMAIN cols
    PROVE  Ordered(RemoveAt(cols, i))
<1> PICK N \in Nat : N = Len(cols) /\ DOMAIN cols = 1..N /\ N > 1 /\ cols \in Seq(Column)
  BY DEF Ordered
<1> PICK r \in Seq(Column) : r = RemoveAt(cols, i)
  BY RemovedAt
<1>1. Len(r) = N - 1 /\ \A k \in 1..N - 1 : r[k] = IF k < i THEN cols[k] ELSE cols[k + 1]
  BY RemovedAt
<1>2. \A k, m \in 1..N : cols[k].id = cols[m].id => k = m
  BY DEF Ordered
<1>3. ASSUME NEW k \in 1..N - 1, NEW m \in 1..N - 1, r[k].id = r[m].id PROVE k = m
  <2>1. k \in 1..N /\ k + 1 \in 1..N /\ m \in 1..N /\ m + 1 \in 1..N
    OBVIOUS
  <2>2. r[k] = cols[IF k < i THEN k ELSE k + 1]
    BY <1>1
  <2>3. r[m] = cols[IF m < i THEN m ELSE m + 1]
    BY <1>1
  <2>4. (IF k < i THEN k ELSE k + 1) = (IF m < i THEN m ELSE m + 1)
    BY <1>2, <1>3, <2>1, <2>2, <2>3
  <2> QED BY <2>1, <2>4
<1>4. r # <<>> /\ DOMAIN r = 1..N - 1
  BY <1>1
<1> QED BY <1>3, <1>4 DEF Ordered

\* So does adding a new one before the last.
LEMMA OrderedWith ==
    ASSUME NEW cols, Ordered(cols), NEW col \in Column, col.id \notin Ids(cols)
    PROVE  Ordered(Append(Front(cols), col) \o <<Last(cols)>>)
<1> PICK N \in Nat : N = Len(cols) /\ DOMAIN cols = 1..N /\ N >= 1 /\ cols \in Seq(Column)
  BY DEF Ordered
<1>1. \A k, m \in 1..N : cols[k].id = cols[m].id => k = m
  BY DEF Ordered
<1>2. \A k \in 1..N : cols[k].id # col.id /\ cols[k] \in Column
  BY DEF Ids
<1> DEFINE f == Append(Front(cols), col)
           r == f \o <<Last(cols)>>
<1>3. f \in Seq(Column) /\ Len(f) = N /\ f[N] = col /\ \A k \in 1..N - 1 : f[k] = cols[k]
  BY DEF Front
<1>4. Last(cols) = cols[N]
  BY DEF Last
<1>5. r \in Seq(Column) /\ Len(r) = N + 1 /\ r[N + 1] = cols[N] /\ \A k \in 1..N : r[k] = f[k]
  <2> HIDE DEF f
  <2>1. cols[N] \in Column
    BY <1>2
  <2> QED BY <1>3, <1>4, <2>1
<1> HIDE DEF r, f
<1>6. r[N] = col /\ r[N + 1] = cols[N] /\ \A k \in 1..N - 1 : r[k] = cols[k]
  BY <1>3, <1>5
<1>7. ASSUME NEW k \in 1..N + 1, NEW m \in 1..N + 1, r[k].id = r[m].id PROVE k = m
  <2>1. \A x \in 1..N + 1 : x \in 1..N - 1 \/ x = N \/ x = N + 1
    OBVIOUS
  <2>2. N \in 1..N /\ N \notin 1..N - 1 /\ \A x \in 1..N - 1 : x \in 1..N
    OBVIOUS
  <2>3. CASE k \in 1..N - 1
    BY <1>1, <1>2, <1>6, <1>7, <2>1, <2>2, <2>3, SMTT(30)
  <2>4. CASE k = N
    BY <1>1, <1>2, <1>6, <1>7, <2>1, <2>2, <2>4
  <2>5. CASE k = N + 1
    BY <1>1, <1>2, <1>6, <1>7, <2>1, <2>2, <2>5
  <2> QED BY <2>1, <2>3, <2>4, <2>5
<1>8. Ordered(r)
  BY <1>5, <1>7 DEF Ordered
<1> QED BY <1>8 DEF r, f

\* And moving one.
LEMMA OrderedSwap ==
    ASSUME NEW cols, Ordered(cols), NEW i \in 1..Len(cols) - 1
    PROVE  Ordered([cols EXCEPT ![i] = cols[i + 1], ![i + 1] = cols[i]])
<1> PICK N \in Nat : N = Len(cols) /\ DOMAIN cols = 1..N /\ cols \in Seq(Column)
  BY DEF Ordered
<1>1. \A k, m \in 1..N : cols[k].id = cols[m].id => k = m
  BY DEF Ordered
<1>2. i \in 1..N /\ i + 1 \in 1..N /\ i # i + 1
  OBVIOUS
<1> DEFINE r == [cols EXCEPT ![i] = cols[i + 1], ![i + 1] = cols[i]]
<1>3. /\ DOMAIN r = 1..N /\ r[i] = cols[i + 1] /\ r[i + 1] = cols[i]
      /\ \A k \in 1..N : k # i /\ k # i + 1 => r[k] = cols[k]
  BY <1>2
<1>4. r \in Seq(Column) /\ Len(r) = N
  BY <1>2
<1> HIDE DEF r
<1>5. ASSUME NEW k \in 1..N, NEW m \in 1..N, r[k].id = r[m].id PROVE k = m
  BY <1>1, <1>2, <1>3, <1>5
<1>6. r # <<>>
  BY <1>2, <1>4
<1>7. Ordered(r)
  BY <1>3, <1>4, <1>5, <1>6 DEF Ordered
<1> QED BY <1>7 DEF r

\* And giving one another title.
LEMMA OrderedRename ==
    ASSUME NEW cols, Ordered(cols), NEW i \in DOMAIN cols, NEW tag \in Tags
    PROVE  Ordered([cols EXCEPT ![i].tag = tag])
<1> PICK N \in Nat : N = Len(cols) /\ DOMAIN cols = 1..N /\ cols \in Seq(Column) /\ cols # <<>>
  BY DEF Ordered
<1> PICK c \in Column : c = cols[i]
  OBVIOUS
<1> PICK d \in Column : d = [c EXCEPT !.tag = tag] /\ d.id = c.id
  <2>1. [c EXCEPT !.tag = tag] \in Column /\ [c EXCEPT !.tag = tag].id = c.id
    BY DEF Column
  <2> QED BY <2>1
<1> DEFINE r == [cols EXCEPT ![i] = d]
<1>1. r = [cols EXCEPT ![i].tag = tag]
  OBVIOUS
<1>2. r \in Seq(Column) /\ Len(r) = N /\ r # <<>> /\ DOMAIN r = 1..N
  OBVIOUS
<1>3. \A k \in 1..N : r[k].id = cols[k].id
  OBVIOUS
<1> HIDE DEF r
<1>4. Ordered(r)
  BY <1>2, <1>3 DEF Ordered
<1> QED BY <1>1, <1>4

---------------------------------------------------------------------------
(* The inductive invariant *)

\* The cards a board may have before an edit gives each its key.
Kept == {c \in Cards : Trimmed(c.desc)}

\* The last edit of the board is in the text, and the board was read from it.
BoardIsSynced ==
    by = "board" =>
        /\ Settled(edited)
        /\ body = SyncNote(columns, edited, source)
        /\ cards = SyncBoard(columns, edited, body)

\* The columns are distinct, the text is a text, and the board is as the text has it.
SyncInv ==
    /\ Ordered(columns) /\ body \in Texts /\ source \in Texts
    /\ Settled(cards) /\ FromText(columns, cards, body)
    /\ BoardIsSynced

\* Cards with trimmed descriptions, before and after each has a key.
LEMMA KeptSeq ==
    ASSUME NEW cs
    PROVE  /\ cs \in Seq(Kept) => Settled(Keyed(cs))
           /\ Settled(cs) => cs \in Seq(Kept)
<1>1. ASSUME cs \in Seq(Kept) PROVE Settled(Keyed(cs))
  <2>1. cs \in Seq(Cards) /\ \A n \in DOMAIN cs : Trimmed(cs[n].desc)
    BY <1>1 DEF Kept
  <2> QED BY <2>1, KeyedIs
<1>2. ASSUME Settled(cs) PROVE cs \in Seq(Kept)
  <2>1. cs \in Seq(Cards) /\ \A n \in DOMAIN cs : cs[n] \in Kept
    BY <1>2 DEF Settled, Kept
  <2> PICK N \in Nat : N = Len(cs) /\ DOMAIN cs = 1..N
    BY <2>1
  <2>2. cs = [n \in 1..N |-> cs[n]]
    BY <2>1
  <2>3. [n \in 1..N |-> cs[n]] \in [1..N -> Kept]
    BY <2>1
  <2>4. cs \in [1..N -> Kept]
    BY <2>2, <2>3
  <2> QED BY <2>4, FunSeq
<1> QED BY <1>1, <1>2

\* A board generated from a note, or bound to a new one, is in sync.
LEMMA InitSynced == SyncInit => SyncInv
<1> SUFFICES ASSUME SyncInit PROVE SyncInv
  OBVIOUS
<1>1. Ordered(columns)
  BY SyncAssumption DEF SyncInit, Ordered
<1>2. CASE Generated
  <2>1. body \in Texts /\ source \in Texts
    BY <1>2, SyncAssumption DEF Generated
  <2>2. Settled(<<>>)
    BY DEF Settled
  <2>3. Settled(cards) /\ FromText(columns, cards, body)
    BY <1>1, <1>2, <2>1, <2>2, SyncedBoard DEF Generated
  <2> QED BY <1>1, <1>2, <2>1, <2>3 DEF Generated, SyncInv, BoardIsSynced
<1>3. CASE Bound
  <2> PICK cs \in Boards : source = NoteOfBoard(columns, cs) /\ edited = Keyed(cs)
    BY <1>3 DEF Bound
  <2>1. cs \in Seq(Cards) /\ \A n \in DOMAIN cs : Trimmed(cs[n].desc)
    BY SyncAssumption
  <2>2. source \in Texts
    BY <1>1, <2>1, NoteOfBoardType
  <2>3. Settled(edited)
    BY <2>1, KeyedIs
  <2>4. body = SyncNote(columns, edited, source) /\ cards = SyncBoard(columns, edited, body)
    BY <1>3 DEF Bound
  <2>5. body \in Texts
    BY <1>1, <2>2, <2>3, <2>4, SyncNoteType DEF Settled
  <2>6. Settled(cards) /\ FromText(columns, cards, body)
    BY <1>1, <2>3, <2>4, <2>5, SyncedBoard
  <2> QED BY <1>1, <2>2, <2>3, <2>4, <2>5, <2>6 DEF SyncInv, BoardIsSynced
<1> QED BY <1>2, <1>3 DEF SyncInit

\* Whatever an edit leaves of the board, its sync writes it and reads it back.
LEMMA BoardEdit ==
    ASSUME SyncInv, NEW cols, Ordered(cols), NEW cs \in Seq(Kept), BoardBecomes(cols, cs)
    PROVE  SyncInv'
<1>1. /\ columns' = cols /\ by' = "board" /\ edited' = Keyed(cs) /\ source' = body
      /\ body' = SyncNote(cols, Keyed(cs), body)
      /\ cards' = SyncBoard(cols, Keyed(cs), body')
  BY DEF BoardBecomes
<1>2. Settled(edited') /\ source' \in Texts
  BY <1>1, KeptSeq DEF SyncInv
<1>3. body' \in Texts
  BY <1>1, <1>2, SyncNoteType DEF SyncInv, Settled
<1>4. Settled(cards') /\ FromText(columns', cards', body')
  BY <1>1, <1>2, <1>3, SyncedBoard
<1> QED BY <1>1, <1>2, <1>3, <1>4 DEF SyncInv, BoardIsSynced

\* Whatever the new text is, the board is read from it.
LEMMA NoteEdit ==
    ASSUME SyncInv, NEW text \in Texts, NoteBecomes(text)
    PROVE  SyncInv'
<1>1. /\ columns' = columns /\ by' = "note" /\ source' = body /\ body' = text
      /\ cards' = SyncBoard(columns, cards, text)
  BY DEF NoteBecomes
<1>2. Settled(cards') /\ FromText(columns', cards', body')
  BY <1>1, SyncedBoard DEF SyncInv
<1> QED BY <1>1, <1>2 DEF SyncInv, BoardIsSynced

\* After a card was moved, all descriptions are still trimmed.
LEMMA MoveKept ==
    ASSUME NEW cs \in Seq(Kept), NEW i \in DOMAIN cs, NEW col \in Nat
    PROVE  LET moved == [cs[i] EXCEPT !.col = col]
               rest == RemoveAt(cs, i)
               there == {j \in DOMAIN rest : rest[j].col = col}
           IN  Picked(rest, DOMAIN rest \ there) \o Picked(rest, there) \o <<moved>> \in Seq(Kept)
<1> PICK c \in Kept : c = cs[i]
  OBVIOUS
<1>1. [c EXCEPT !.col = col] \in Kept
  BY DEF Kept, Cards
<1> PICK rest \in Seq(Kept) : rest = RemoveAt(cs, i)
  BY RemovedAt
<1> DEFINE there == {j \in DOMAIN rest : rest[j].col = col}
<1>2. there \in SUBSET (1..Len(rest)) /\ DOMAIN rest \ there \in SUBSET (1..Len(rest))
  OBVIOUS
<1> HIDE DEF there
<1> PICK p \in Seq(Kept) : p = Picked(rest, DOMAIN rest \ there)
  BY <1>2, PickedIs
<1> PICK q \in Seq(Kept) : q = Picked(rest, there)
  BY <1>2, PickedIs
<1>3. p \o q \o <<[c EXCEPT !.col = col]>> \in Seq(Kept)
  BY <1>1
<1> QED BY <1>3 DEF there

\* Every edit, with its sync, leaves the two in sync.
LEMMA StepSynced == SyncInv /\ [SyncNext]_syncVars => SyncInv'
<1> SUFFICES ASSUME SyncInv, [SyncNext]_syncVars PROVE SyncInv'
  OBVIOUS
<1>1. /\ Ordered(columns) /\ Ids(columns) \subseteq Nat /\ body \in Texts /\ source \in Texts
      /\ cards \in Seq(Kept)
  BY KeptSeq, ColumnsAre DEF SyncInv
<1>2. ASSUME NEW i \in DOMAIN cards, NEW col \in Ids(columns), MoveCard(i, col) PROVE SyncInv'
  <2> DEFINE rest == RemoveAt(cards, i)
             there == {j \in DOMAIN rest : rest[j].col = col}
             cs == Picked(rest, DOMAIN rest \ there) \o Picked(rest, there)
                      \o <<[cards[i] EXCEPT !.col = col]>>
  <2>1. BoardBecomes(columns, cs)
    BY <1>2 DEF MoveCard
  <2>2. cs \in Seq(Kept)
    BY <1>1, MoveKept
  <2> HIDE DEF cs
  <2> QED BY <1>1, <2>1, <2>2, BoardEdit
<1>3. ASSUME NEW i \in DOMAIN cards, NEW tags \in TypedTags, NEW title \in Titles,
             NEW desc \in Descriptions, EditCard(i, tags, title, desc)
      PROVE  SyncInv'
  <2> DEFINE cs == [cards EXCEPT ![i].tags = tags, ![i].title = title, ![i].desc = desc]
  <2>1. BoardBecomes(columns, cs)
    BY <1>3 DEF EditCard
  <2>2. cs \in Seq(Kept)
    <3> PICK c \in Kept : c = cards[i]
      BY <1>1
    <3>1. desc \in Texts /\ Trimmed(desc) /\ tags \in Seq(Tags)
      BY SyncAssumption
    <3>2. [c EXCEPT !.tags = tags, !.title = title, !.desc = desc] \in Kept
      BY <3>1 DEF Kept, Cards
    <3>3. cs = [cards EXCEPT ![i] = [c EXCEPT !.tags = tags, !.title = title, !.desc = desc]]
      OBVIOUS
    <3> QED BY <1>1, <3>2, <3>3
  <2> HIDE DEF cs
  <2> QED BY <1>1, <2>1, <2>2, BoardEdit
<1>4. ASSUME NEW i \in DOMAIN cards, DeleteCard(i) PROVE SyncInv'
  <2>1. RemoveAt(cards, i) \in Seq(Kept)
    BY <1>1, RemovedAt
  <2>2. BoardBecomes(columns, RemoveAt(cards, i))
    BY <1>4 DEF DeleteCard
  <2> QED BY <1>1, <2>1, <2>2, BoardEdit
<1>5. ASSUME NEW col \in Ids(columns), NEW tags \in TypedTags, NEW title \in Titles,
             NEW desc \in Descriptions, AddCard(col, tags, title, desc)
      PROVE  SyncInv'
  <2> DEFINE c == [id |-> FreshIds(cards, 1)[1], col |-> col, tags |-> tags, title |-> title,
                   key |-> Null, desc |-> desc]
  <2>1. BoardBecomes(columns, Append(cards, c))
    BY <1>5 DEF AddCard
  <2>2. FreshIds(cards, 1)[1] \in Nat
    <3>1. cards \in Seq(Cards) /\ 1 \in Nat /\ 1 \in 1..1
      BY DEF SyncInv, Settled
    <3> QED BY <3>1, FreshIdsAre
  <2>3. c \in Cards /\ Trimmed(c.desc)
    <3>1. tags \in Seq(Tags) /\ col \in Nat /\ desc \in Texts /\ Trimmed(desc)
      BY <1>1, SyncAssumption
    <3> QED BY <2>2, <3>1 DEF Cards
  <2> HIDE DEF c
  <2>4. Append(cards, c) \in Seq(Kept)
    BY <1>1, <2>3 DEF Kept
  <2> QED BY <1>1, <2>1, <2>4, BoardEdit
<1>6. ASSUME AddColumn PROVE SyncInv'
  <2> DEFINE column == [id |-> FreshIds(columns, 1)[1], tag |-> NewTag]
             cols == Append(Front(columns), column) \o <<Last(columns)>>
  <2>1. BoardBecomes(cols, cards)
    BY <1>6 DEF AddColumn
  <2>2. FreshIds(columns, 1)[1] \in Nat /\ FreshIds(columns, 1)[1] \notin Ids(columns)
    <3>1. columns \in Seq(Column) /\ 1 \in Nat /\ 1 \in 1..1
      BY <1>1 DEF Ordered
    <3> QED BY <3>1, FreshIdsAre DEF Ids
  <2>3. column \in Column /\ column.id \notin Ids(columns)
    BY <2>2, SyncAssumption DEF Column
  <2> HIDE DEF column
  <2>4. Ordered(cols)
    BY <1>1, <2>3, OrderedWith
  <2> HIDE DEF cols
  <2> QED BY <1>1, <2>1, <2>4, BoardEdit
<1>7. ASSUME NEW i \in DOMAIN columns, NEW tag \in Tags, RenameColumn(i, tag) PROVE SyncInv'
  <2>1. BoardBecomes([columns EXCEPT ![i].tag = tag], cards)
    BY <1>7 DEF RenameColumn
  <2>2. Ordered([columns EXCEPT ![i].tag = tag])
    BY <1>1, OrderedRename
  <2> QED BY <1>1, <2>1, <2>2, BoardEdit
<1>8. ASSUME NEW i \in DOMAIN columns, MoveColumn(i) PROVE SyncInv'
  <2> DEFINE cols == [columns EXCEPT ![i] = columns[i + 1], ![i + 1] = columns[i]]
  <2>1. i \in 1..Len(columns) - 1 /\ BoardBecomes(cols, cards)
    BY <1>8 DEF MoveColumn
  <2>2. Ordered(cols)
    BY <1>1, <2>1, OrderedSwap
  <2> HIDE DEF cols
  <2> QED BY <1>1, <2>1, <2>2, BoardEdit
<1>9. ASSUME NEW i \in DOMAIN columns, DeleteColumn(i) PROVE SyncInv'
  <2>1. Len(columns) > 1 /\ BoardBecomes(RemoveAt(columns, i), cards)
    BY <1>9 DEF DeleteColumn
  <2>2. Ordered(RemoveAt(columns, i))
    BY <1>1, <2>1, OrderedWithout
  <2> QED BY <1>1, <2>1, <2>2, BoardEdit
<1>10. ASSUME NEW i \in 1..Len(body) + 1, NEW line \in NoteLines, InsertLine(i, line)
      PROVE  SyncInv'
  <2>1. line \in Lines
    BY SyncAssumption
  <2>2. InsertAt(body, i, line) \in Texts
    BY <1>1, <2>1, InsertedAt DEF Texts
  <2>3. NoteBecomes(InsertAt(body, i, line))
    BY <1>10 DEF InsertLine
  <2> QED BY <2>2, <2>3, NoteEdit
<1>11. ASSUME NEW i \in DOMAIN body, RemoveLine(i) PROVE SyncInv'
  <2>1. RemoveAt(body, i) \in Texts
    BY <1>1, RemovedAt DEF Texts
  <2>2. NoteBecomes(RemoveAt(body, i))
    BY <1>11 DEF RemoveLine
  <2> QED BY <2>1, <2>2, NoteEdit
<1>12. CASE UNCHANGED syncVars
  BY <1>12 DEF syncVars, SyncInv, BoardIsSynced
<1> QED BY <1>2, <1>3, <1>4, <1>5, <1>6, <1>8, <1>9, <1>10, <1>11, <1>12, <1>7 DEF SyncNext

\* In sync, the cards with a key are the items of the text.
LEMMA CardsAreItems == SyncInv => ItemsAreCards
<1> SUFFICES ASSUME SyncInv PROVE ItemsAreCards
  OBVIOUS
<1>1. \A n \in DOMAIN cards :
         LET i == ItemOf(body, cards[n].key) IN
         /\ cards[n].key \in KeysIn(body)
         /\ cards[n].title = body[i].title
         /\ cards[n].desc = DescriptionAt(body, i)
         /\ cards[n].col = ColumnForItem(columns, body[i])
         /\ cards[n].tags = TitleTags(columns, body[i].tags)
  BY DEF SyncInv, FromText
<1>2. \A key \in KeysIn(body) : \E n \in DOMAIN cards : cards[n].key = key
  BY DEF SyncInv, FromText
<1>3. {c.key : c \in Range(cards)} = KeysIn(body)
  BY <1>1, <1>2 DEF Range
<1> QED BY <1>1, <1>3 DEF ItemsAreCards, Range

\* In sync, the last edit of the board came back from the text.
LEMMA EditsHold == SyncInv => BoardEditHolds
<1> SUFFICES ASSUME SyncInv, by = "board", Plain(columns, edited, source)
             PROVE  /\ Shown(columns, cards) = Shown(columns, edited)
                    /\ IsPrefix(TrimEnd(Preamble(source)), body)
                    /\ Len(columns) > 1 => SyncNote(columns, cards, body) = body
                    /\ SyncBoard(columns, cards, body) = cards
  BY DEF BoardEditHolds
<1>1. /\ Ordered(columns) /\ source \in Texts /\ Settled(edited)
      /\ body = SyncNote(columns, edited, source)
      /\ cards = SyncBoard(columns, edited, body)
  BY DEF SyncInv, BoardIsSynced
<1>2. LET T == SyncNote(columns, edited, source)
          R == SyncBoard(columns, edited, T)
      IN  /\ Shown(columns, R) = Shown(columns, edited)
          /\ IsPrefix(TrimEnd(Preamble(source)), T)
          /\ Len(columns) > 1 => SyncNote(columns, R, T) = T
          /\ SyncBoard(columns, R, T) = R
  BY <1>1, EditComesBack
<1> QED BY <1>1, <1>2

\* For any titles, columns, texts and edits: after every edit and its sync the cards are the
\* items of the text, and an edit of a board that the text can hold (Plain: no two columns share
\* a title, no two cards a key, and no card has the tag of a column in its title) comes back as
\* it was made, with every card's identity, tags, title, description and column, and is stable
\* (kanban-sync.ts:325-445, 111-233).
THEOREM EditsAlwaysSurvive == SyncSpec => []EditsSurviveSync
<1>1. SyncInit => SyncInv
  BY InitSynced
<1>2. SyncInv /\ [SyncNext]_syncVars => SyncInv'
  BY StepSynced
<1>3. SyncInv => EditsSurviveSync
  BY CardsAreItems, EditsHold DEF EditsSurviveSync
<1> QED BY <1>1, <1>2, <1>3, PTL DEF SyncSpec

============================================================================
