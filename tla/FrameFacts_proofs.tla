--------------------------- MODULE FrameFacts_proofs --------------------------
(***************************************************************************)
(* What the operators of FrameLoop do to the player's fields, whatever the *)
(* numbers of frames and layers: every operator that the actions are made  *)
(* of leaves them Good.  FrameLoop_proofs has the actions.                 *)
(***************************************************************************)
EXTENDS FrameLoop, TLAPS, FiniteSetTheorems, SequenceTheorems

-----------------------------------------------------------------------------
(* Numbers and sequences.                                                  *)

\* Induction up to n, over the set of the numbers a fact holds of.
LEMMA UpTo ==
  ASSUME NEW n \in Nat, NEW S, 0 \in S, \A k \in 1..n : k - 1 \in S => k \in S
  PROVE  \A k \in 0..n : k \in S
<1> DEFINE T == {k \in 0..n : k \notin S}
<1>1. SUFFICES ASSUME T # {} PROVE FALSE
  OBVIOUS
<1>2. T \subseteq Nat
  OBVIOUS
<1>3. PICK k \in T : \A y \in T : ~(<<y, k>> \in OpToRel(<, Nat))
  BY <1>1, <1>2, NatLessThanWellFounded, WFMin
<1>4. \A y \in T : ~(y < k)
  BY <1>2, <1>3 DEF OpToRel
<1>5. k # 0 /\ k \in 1..n
  OBVIOUS
<1>6. k - 1 \in 0..n /\ k - 1 < k /\ k - 1 \notin T
  BY <1>4, <1>5
<1> QED
  BY <1>5, <1>6

\* A set of naturals has a least element.
LEMMA LeastOf ==
  ASSUME NEW S, S \subseteq Nat, S # {}
  PROVE  Min(S) \in S /\ \A x \in S : Min(S) <= x
<1>1. PICK m \in S : \A y \in S : ~(<<y, m>> \in OpToRel(<, Nat))
  BY NatLessThanWellFounded, WFMin
<1>2. \A y \in S : ~(y < m)
  BY <1>1 DEF OpToRel
<1>3. \A y \in S : y \in Nat /\ m \in Nat
  OBVIOUS
<1>4. \A y \in S : m <= y
  BY <1>2, <1>3
<1>5. Min(S) \in S /\ \A y \in S : Min(S) <= y
  BY <1>4 DEF Min
<1> QED
  BY <1>5

\* Max of two naturals, one of them 1.
LEMMA AtLeastOne ==
  ASSUME NEW n \in Int
  PROVE  Max({1, n}) = IF n <= 1 THEN 1 ELSE n
<1>1. Max({1, n}) \in {1, n} /\ \A y \in {1, n} : Max({1, n}) >= y
  <2>1. \E x \in {1, n} : \A y \in {1, n} : x >= y
    BY DEF Max
  <2> QED
    BY <2>1 DEF Max
<1> QED
  BY <1>1

\* The elements of a set that are not above x.
Below(S, x) == {y \in S : y <= x}

\* How many elements of a set are not above x: a number of its own for each.
LEMMA RankFacts ==
  ASSUME NEW S, S \subseteq Nat, IsFiniteSet(S)
  PROVE  /\ Cardinality(S) \in Nat
         /\ \A x \in S : Cardinality(Below(S, x)) \in 1..Cardinality(S)
         /\ \A x, z \in S :
              Cardinality(Below(S, x)) = Cardinality(Below(S, z)) => x = z
         /\ \A x, z \in S :
              x < z => Cardinality(Below(S, x)) < Cardinality(Below(S, z))
<1> DEFINE n == Cardinality(S)
           c == [x \in S |-> Cardinality(Below(S, x))]
<1>0. n \in Nat
  BY FS_CardinalityType
<1>1. \A x \in S : IsFiniteSet(Below(S, x)) /\ Cardinality(Below(S, x)) \in 1..n
  <2> TAKE x \in S
  <2>1. Below(S, x) \in SUBSET S /\ x \in Below(S, x)
    BY DEF Below
  <2>2. IsFiniteSet(Below(S, x)) /\ Cardinality(Below(S, x)) <= n
    BY <2>1, FS_Subset
  <2>3. Cardinality(Below(S, x)) \in Nat /\ Cardinality(Below(S, x)) # 0
    BY <2>1, <2>2, FS_CardinalityType, FS_EmptySet
  <2> QED
    BY <1>0, <2>2, <2>3
<1>2. \A x, z \in S : x < z => c[x] < c[z]
  <2> SUFFICES ASSUME NEW x \in S, NEW z \in S, x < z PROVE c[x] < c[z]
    OBVIOUS
  <2>0. x \in Nat /\ z \in Nat /\ \A y \in S : y \in Nat
    OBVIOUS
  <2>a. \A y \in S : y <= x => y <= z
    BY <2>0
  <2>b. Below(S, x) \in SUBSET Below(S, z)
    BY <2>a DEF Below
  <2>c. z <= z /\ ~(z <= x)
    BY <2>0
  <2>1. Below(S, x) \in SUBSET Below(S, z) /\ z \in Below(S, z) /\ z \notin Below(S, x)
    BY <2>b, <2>c DEF Below
  <2>2. Cardinality(Below(S, x)) <= Cardinality(Below(S, z)) /\ Cardinality(Below(S, x)) # Cardinality(Below(S, z))
    BY <1>1, <2>1, FS_Subset
  <2> QED
    BY <1>1, <2>2
<1>3. c \in [S -> 1..n] /\ \A x, z \in S : c[x] = c[z] => x = z
  <2>1. c \in [S -> 1..n]
    BY <1>1
  <2>2. ASSUME NEW x \in S, NEW z \in S, c[x] = c[z] PROVE x = z
    <3>1. ~(x < z) /\ ~(z < x)
      BY <1>1, <1>2, <2>2
    <3> QED
      BY <3>1
  <2> QED
    BY <2>1, <2>2
<1>4. \A x \in S : c[x] = Cardinality(Below(S, x))
  OBVIOUS
<1> QED
  BY <1>0, <1>1, <1>2, <1>3, <1>4

\* What Ascending returns: the elements of the set, each once, in order.
LEMMA AscendingFacts ==
  ASSUME NEW S, S \subseteq Nat, IsFiniteSet(S)
  PROVE  /\ Cardinality(S) \in Nat
         /\ Ascending(S) \in [1..Cardinality(S) -> S]
         /\ \A a, b \in 1..Cardinality(S) : a < b => Ascending(S)[a] < Ascending(S)[b]
         /\ \A x \in S : \E k \in 1..Cardinality(S) : Ascending(S)[k] = x
<1> DEFINE n == Cardinality(S)
           c == [x \in S |-> Cardinality(Below(S, x))]
           A == Ascending(S)
<1>0. n \in Nat
  BY FS_CardinalityType
<1>1. \A x \in S : c[x] = Cardinality(Below(S, x)) /\ c[x] \in 1..n
  <2> TAKE x \in S
  <2>1. Cardinality(Below(S, x)) \in 1..n
    BY RankFacts
  <2> QED
    BY <2>1
<1>2. \A x, z \in S : x < z => c[x] < c[z]
  <2> SUFFICES ASSUME NEW x \in S, NEW z \in S, x < z PROVE c[x] < c[z]
    OBVIOUS
  <2>1. Cardinality(Below(S, x)) < Cardinality(Below(S, z))
    BY RankFacts
  <2> QED
    BY <1>1, <2>1
<1>3. c \in [S -> 1..n] /\ \A x, z \in S : c[x] = c[z] => x = z
  <2>1. ASSUME NEW x \in S, NEW z \in S, c[x] = c[z] PROVE x = z
    <3>1. Cardinality(Below(S, x)) = Cardinality(Below(S, z))
      BY <1>1, <2>1
    <3> QED
      BY <3>1, RankFacts
  <2> QED
    BY <1>1, <2>1
<1>4. c \in Injection(S, 1..n)
  BY <1>3 DEF Injection, IsInjective
<1>5. IsFiniteSet(1..n) /\ Cardinality(1..n) = n
  BY <1>0, FS_Interval
<1>6. c \in Surjection(S, 1..n)
  BY <1>4, <1>5, FS_Injection
<1>7. \A k \in 1..n : \E x \in S : c[x] = k
  BY <1>6 DEF Surjection
<1>8. \A k \in 1..n : A[k] \in S /\ c[A[k]] = k
  <2> TAKE k \in 1..n
  <2>1. \E x \in S : Cardinality(Below(S, x)) = k
    BY <1>7
  <2>2. A[k] = CHOOSE x \in S : Cardinality(Below(S, x)) = k
    BY DEF Ascending, Below
  <2> QED
    BY <2>1, <2>2
<1>9. A \in [1..n -> S]
  BY <1>8 DEF Ascending
<1>10. \A a, b \in 1..n : a < b => A[a] < A[b]
  <2> SUFFICES ASSUME NEW a \in 1..n, NEW b \in 1..n, a < b PROVE A[a] < A[b]
    OBVIOUS
  <2>1. A[a] \in S /\ A[b] \in S /\ c[A[a]] = a /\ c[A[b]] = b
    BY <1>8
  <2> HIDE DEF c, A
  <2>2. A[a] # A[b]
    BY <2>1
  <2>3. ~(A[b] < A[a])
    <3>1. SUFFICES ASSUME A[b] < A[a] PROVE FALSE
      OBVIOUS
    <3>2. c[A[b]] < c[A[a]]
      BY <1>2, <2>1, <3>1
    <3>3. b < a
      BY <2>1, <3>2
    <3>4. a \in Int /\ b \in Int
      BY <1>0
    <3> QED
      BY <3>3, <3>4
  <2>4. A[a] \in Nat /\ A[b] \in Nat
    BY <2>1
  <2> QED
    BY <2>2, <2>3, <2>4
<1>11. \A x \in S : \E k \in 1..n : A[k] = x
  <2> TAKE x \in S
  <2>1. c[x] \in 1..n
    BY <1>3
  <2>2. A[c[x]] \in S /\ c[A[c[x]]] = c[x]
    BY <1>8, <2>1
  <2>3. A[c[x]] = x
    BY <1>3, <2>2
  <2> QED
    BY <2>1, <2>3
<1> QED
  BY <1>0, <1>9, <1>10, <1>11

Sorted(s) == \A a, b \in DOMAIN s : a < b => s[a] < s[b]

\* Kept returns the entries that are in the set; it keeps an order.
LEMMA KeptFacts ==
  ASSUME NEW seq \in Seq(Int), NEW S
  PROVE  /\ Kept(seq, S) \in Seq(Int) /\ Len(Kept(seq, S)) <= Len(seq)
         /\ ToSet(Kept(seq, S)) = ToSet(seq) \cap S
         /\ Sorted(seq) => Sorted(Kept(seq, S))
<1> DEFINE I == {k \in DOMAIN seq : seq[k] \in S}
           n == Cardinality(I)
           at == Ascending(I)
           r == Kept(seq, S)
<1>1. Len(seq) \in Nat /\ DOMAIN seq = 1..Len(seq) /\ \A i \in 1..Len(seq) : seq[i] \in Int
  OBVIOUS
<1>2. IsFiniteSet(1..Len(seq)) /\ Cardinality(1..Len(seq)) = Len(seq)
  <2>1. 1 \in Int /\ Len(seq) \in Int
    BY <1>1
  <2>2. IsFiniteSet(1..Len(seq)) /\ Cardinality(1..Len(seq)) = IF 1 > Len(seq) THEN 0 ELSE Len(seq) - 1 + 1
    BY <2>1, FS_Interval
  <2> QED
    BY <1>1, <2>2
<1>3. I \in SUBSET (1..Len(seq)) /\ I \subseteq Nat
  BY <1>1
<1>4. IsFiniteSet(I) /\ n <= Len(seq)
  BY <1>2, <1>3, FS_Subset
<1>5. /\ n \in Nat /\ at \in [1..n -> I]
      /\ \A a, b \in 1..n : a < b => at[a] < at[b]
      /\ \A i \in I : \E k \in 1..n : at[k] = i
  BY <1>3, <1>4, AscendingFacts
<1>6. r = [k \in 1..n |-> seq[at[k]]]
  BY <1>5 DEF Kept
<1> HIDE DEF n, at, r
<1>7. \A k \in 1..n : at[k] \in 1..Len(seq) /\ seq[at[k]] \in S /\ r[k] = seq[at[k]] /\ r[k] \in Int
  BY <1>1, <1>5, <1>6
<1>8. r \in Seq(Int) /\ Len(r) = n /\ DOMAIN r = 1..n
  BY <1>5, <1>6, <1>7
<1>9. ToSet(r) \subseteq ToSet(seq) \cap S
  BY <1>1, <1>7, <1>8 DEF ToSet
<1>10. ToSet(seq) \cap S \subseteq ToSet(r)
  <2> SUFFICES ASSUME NEW i \in 1..Len(seq), seq[i] \in S PROVE seq[i] \in ToSet(r)
    BY <1>1 DEF ToSet
  <2>1. i \in I
    BY <1>1
  <2>2. PICK k \in 1..n : at[k] = i
    BY <1>5, <2>1
  <2> QED
    BY <1>7, <1>8, <2>2 DEF ToSet
<1>11. ASSUME Sorted(seq) PROVE Sorted(r)
  <2> SUFFICES ASSUME NEW a \in 1..n, NEW b \in 1..n, a < b PROVE r[a] < r[b]
    BY <1>8 DEF Sorted
  <2>1. at[a] \in 1..Len(seq) /\ at[b] \in 1..Len(seq) /\ at[a] < at[b]
    BY <1>5, <1>7
  <2> QED
    BY <1>1, <1>7, <1>11, <2>1 DEF Sorted
<1> QED
  BY <1>4, <1>8, <1>9, <1>10, <1>11 DEF r

\* Where insertSorted puts a new number, and the sequence it leaves.
LEMMA InsertFacts ==
  ASSUME NEW s \in Seq(Int), Sorted(s), NEW x \in Int, x \notin ToSet(s)
  PROVE  LET pos == InsertPosition(s, x)
             r == InsertSorted(s, x)
         IN  /\ pos \in 1..(Len(s) + 1)
             /\ r \in Seq(Int) /\ Len(r) = Len(s) + 1 /\ Sorted(r)
             /\ \A i \in 1..Len(r) :
                  r[i] = IF i < pos THEN s[i] ELSE IF i = pos THEN x ELSE s[i - 1]
             /\ ToSet(r) = ToSet(s) \cup {x}
<1> DEFINE K == {k \in 1..(Len(s) + 1) : k > Len(s) \/ s[k] >= x}
           pos == InsertPosition(s, x)
           r == InsertSorted(s, x)
<1>1. Len(s) \in Nat /\ DOMAIN s = 1..Len(s) /\ \A i \in 1..Len(s) : s[i] \in Int /\ s[i] # x
  BY DEF ToSet
<1>2. K \subseteq Nat /\ Len(s) + 1 \in K
  BY <1>1
<1>3. pos \in K /\ \A k \in K : pos <= k
  BY <1>2, LeastOf DEF InsertPosition
<1>4. pos \in 1..(Len(s) + 1) /\ (pos <= Len(s) => s[pos] >= x)
  BY <1>1, <1>3
<1>5. \A k \in 1..Len(s) : k < pos => s[k] < x
  BY <1>1, <1>3, <1>4
<1>6. \A k \in 1..Len(s) : k >= pos => s[k] > x
  <2> SUFFICES ASSUME NEW k \in 1..Len(s), k >= pos PROVE s[k] > x
    OBVIOUS
  <2>1. pos \in 1..Len(s) /\ s[pos] > x
    BY <1>1, <1>4
  <2>2. k = pos \/ s[pos] < s[k]
    BY <1>1, <1>4, <2>1 DEF Sorted
  <2> QED
    BY <1>1, <2>1, <2>2
<1>7. r = SubSeq(s, 1, pos - 1) \o <<x>> \o SubSeq(s, pos, Len(s))
  BY DEF InsertSorted, InsertAt
<1> HIDE DEF pos, r, K
<1>8. /\ r \in Seq(Int) /\ Len(r) = Len(s) + 1
      /\ \A i \in 1..Len(r) : r[i] = IF i < pos THEN s[i] ELSE IF i = pos THEN x ELSE s[i - 1]
  <2> DEFINE u == SubSeq(s, 1, pos - 1)
             w == SubSeq(s, pos, Len(s))
  <2>1. u \in Seq(Int) /\ Len(u) = pos - 1 /\ \A i \in 1..(pos - 1) : u[i] = s[i]
    BY <1>1, <1>4, SubSeqProperties
  <2>2. w \in Seq(Int) /\ Len(w) = Len(s) - pos + 1 /\ \A i \in 1..(Len(s) - pos + 1) : w[i] = s[pos + i - 1]
    BY <1>1, <1>4, SubSeqProperties, SMTT(30)
  <2> HIDE DEF u, w
  <2>3. r = u \o <<x>> \o w
    BY <1>7 DEF u, w
  <2>4. u \o <<x>> \in Seq(Int) /\ Len(u \o <<x>>) = pos /\ (u \o <<x>>)[pos] = x
        /\ \A i \in 1..(pos - 1) : (u \o <<x>>)[i] = s[i]
    BY <1>1, <1>4, <2>1
  <2> DEFINE ux == u \o <<x>>
  <2> HIDE DEF ux
  <2>5. r = ux \o w /\ ux \in Seq(Int) /\ Len(ux) = pos /\ ux[pos] = x /\ \A i \in 1..(pos - 1) : ux[i] = s[i]
    BY <2>3, <2>4 DEF ux
  <2>a. /\ r \in Seq(Int) /\ Len(r) = Len(ux) + Len(w)
        /\ \A i \in 1..(Len(ux) + Len(w)) : r[i] = IF i <= Len(ux) THEN ux[i] ELSE w[i - Len(ux)]
    BY <2>2, <2>5, ConcatProperties
  <2>6. r \in Seq(Int) /\ Len(r) = Len(s) + 1
    BY <1>1, <1>4, <2>2, <2>5, <2>a
  <2>7. \A i \in 1..Len(r) : r[i] = IF i <= pos THEN ux[i] ELSE w[i - pos]
    BY <2>5, <2>a
  <2>8. \A i \in 1..Len(r) : i > pos => w[i - pos] = s[i - 1]
    <3> SUFFICES ASSUME NEW i \in 1..Len(r), i > pos PROVE w[i - pos] = s[i - 1]
      OBVIOUS
    <3>1. i - pos \in 1..(Len(s) - pos + 1) /\ pos + (i - pos) - 1 = i - 1
      BY <1>1, <1>4, <2>6
    <3> QED
      BY <2>2, <3>1
  <2>9. ASSUME NEW i \in 1..Len(r)
        PROVE  r[i] = IF i < pos THEN s[i] ELSE IF i = pos THEN x ELSE s[i - 1]
    <3>1. CASE i < pos
      <4>1. i \in 1..(pos - 1)
        BY <1>4, <2>6, <3>1
      <4> QED
        BY <2>5, <2>7, <3>1, <4>1
    <3>2. CASE i = pos
      BY <2>5, <2>7, <3>2
    <3>3. CASE i > pos
      BY <1>4, <2>7, <2>8, <3>3
    <3> QED
      BY <1>4, <2>6, <3>1, <3>2, <3>3
  <2> QED
    BY <2>6, <2>9
<1>a. /\ pos \in 1..Len(r) /\ r[pos] = x /\ Len(r) \in Nat
      /\ \A i \in 1..Len(r) : i < pos => i \in 1..Len(s) /\ r[i] = s[i]
      /\ \A i \in 1..Len(r) : i > pos => i - 1 \in 1..Len(s) /\ i - 1 >= pos /\ r[i] = s[i - 1]
  <2>1. pos \in 1..Len(r) /\ Len(r) \in Nat
    BY <1>1, <1>4, <1>8
  <2>2. r[pos] = x
    BY <1>8, <2>1
  <2>3. ASSUME NEW i \in 1..Len(r), i < pos PROVE i \in 1..Len(s) /\ r[i] = s[i]
    BY <1>1, <1>4, <1>8, <2>1, <2>3
  <2>4. ASSUME NEW i \in 1..Len(r), i > pos PROVE i - 1 \in 1..Len(s) /\ i - 1 >= pos /\ r[i] = s[i - 1]
    <3>1. i \in Int /\ ~(i < pos) /\ i # pos
      BY <1>4, <2>4
    <3>2. r[i] = s[i - 1]
      BY <1>8, <3>1
    <3> QED
      BY <1>1, <1>4, <1>8, <2>4, <3>2
  <2> QED
    BY <2>1, <2>2, <2>3, <2>4
<1>9. Sorted(r)
  <2> SUFFICES ASSUME NEW a \in 1..Len(r), NEW b \in 1..Len(r), a < b PROVE r[a] < r[b]
    BY <1>8 DEF Sorted
  <2>1. \A i, j \in 1..Len(s) : i < j => s[i] < s[j]
    BY <1>1 DEF Sorted
  <2>2. a \in Int /\ b \in Int /\ pos \in Int
    BY <1>4
  <2>3. CASE b < pos
    BY <1>a, <2>1, <2>2, <2>3
  <2>4. CASE b = pos
    BY <1>5, <1>a, <2>2, <2>4
  <2>5. CASE a < pos /\ b > pos
    <3>1. r[a] = s[a] /\ a \in 1..Len(s) /\ s[a] < x
      BY <1>5, <1>a, <2>5
    <3>2. r[b] = s[b - 1] /\ b - 1 \in 1..Len(s) /\ s[b - 1] > x
      BY <1>6, <1>a, <2>5
    <3> QED
      BY <1>1, <3>1, <3>2
  <2>6. CASE a = pos /\ b > pos
    BY <1>1, <1>6, <1>a, <2>6
  <2>7. CASE a > pos
    <3>1. r[a] = s[a - 1] /\ a - 1 \in 1..Len(s)
      BY <1>a, <2>7
    <3>2. r[b] = s[b - 1] /\ b - 1 \in 1..Len(s)
      BY <1>a, <2>2, <2>7
    <3>3. a - 1 < b - 1
      BY <2>2
    <3> QED
      BY <2>1, <3>1, <3>2, <3>3
  <2> QED
    BY <2>2, <2>3, <2>4, <2>5, <2>6, <2>7
<1>10. DOMAIN r = 1..Len(r)
  BY <1>8
<1>11. ToSet(r) \subseteq ToSet(s) \cup {x}
  <2> SUFFICES ASSUME NEW i \in 1..Len(r) PROVE r[i] \in ToSet(s) \cup {x}
    BY <1>10 DEF ToSet
  <2>1. i < pos \/ i = pos \/ i > pos
    BY <1>4
  <2>2. i < pos => r[i] \in ToSet(s)
    BY <1>1, <1>a DEF ToSet
  <2>3. i > pos => r[i] \in ToSet(s)
    BY <1>1, <1>a DEF ToSet
  <2> QED
    BY <1>a, <2>1, <2>2, <2>3
<1>12. ToSet(s) \cup {x} \subseteq ToSet(r)
  <2>1. pos \in 1..Len(r) /\ r[pos] = x
    BY <1>a
  <2>2. ASSUME NEW i \in 1..Len(s) PROVE s[i] \in ToSet(r)
    <3>1. CASE i < pos
      <4>1. i \in 1..Len(r)
        BY <1>1, <1>8
      <4>2. r[i] = s[i]
        BY <1>a, <3>1, <4>1
      <4> QED
        BY <1>10, <4>1, <4>2 DEF ToSet
    <3>2. CASE i >= pos
      <4>1. i + 1 \in 1..Len(r) /\ i + 1 > pos /\ (i + 1) - 1 = i
        BY <1>1, <1>4, <1>8, <3>2
      <4>2. r[i + 1] = s[i]
        BY <1>a, <4>1
      <4> QED
        BY <1>10, <4>1, <4>2 DEF ToSet
    <3> QED
      BY <1>4, <3>1, <3>2
  <2>3. x \in ToSet(r)
    BY <1>10, <2>1 DEF ToSet
  <2> QED
    BY <1>1, <2>2, <2>3 DEF ToSet
<1>13. ToSet(r) = ToSet(s) \cup {x}
  BY <1>11, <1>12
<1> QED
  BY <1>4, <1>8, <1>9, <1>13 DEF pos, r

\* indexOf finds what is there.
LEMMA PositionFacts ==
  ASSUME NEW T, NEW s \in Seq(T), NEW x
  PROVE  /\ PositionOf(s, x) \in 0..Len(s)
         /\ x \in ToSet(s) => PositionOf(s, x) \in 1..Len(s) /\ s[PositionOf(s, x)] = x
         /\ x \notin ToSet(s) => PositionOf(s, x) = 0
<1> DEFINE I == {i \in 1..Len(s) : s[i] = x}
<1>1. Len(s) \in Nat /\ DOMAIN s = 1..Len(s)
  OBVIOUS
<1>2. CASE x \in ToSet(s)
  <2>1. I # {} /\ I \subseteq Nat
    BY <1>1, <1>2 DEF ToSet
  <2>2. PositionOf(s, x) = Min(I)
    BY <1>2, <2>1 DEF PositionOf, SelectInSeq
  <2>3. Min(I) \in I
    BY <2>1, LeastOf
  <2> QED
    BY <1>1, <1>2, <2>2, <2>3
<1>3. CASE x \notin ToSet(s)
  BY <1>1, <1>3 DEF PositionOf, None
<1> QED
  BY <1>2, <1>3

\* The nearest frame is a frame.
LEMMA NearestFacts ==
  ASSUME NEW s \in Seq(Int), s # <<>>, NEW t \in Int
  PROVE  NearestIndex(s, t) \in 1..Len(s)
<1> DEFINE D == {Distance(s[j], t) : j \in DOMAIN s}
           near == {j \in DOMAIN s : Distance(s[j], t) = Min(D)}
<1>1. Len(s) \in Nat /\ DOMAIN s = 1..Len(s) /\ \A i \in 1..Len(s) : s[i] \in Int
  OBVIOUS
<1>2. 1 \in DOMAIN s
  BY <1>1
<1>3. \A i \in DOMAIN s : Distance(s[i], t) \in Nat
  BY <1>1 DEF Distance
<1>4. D \subseteq Nat /\ D # {}
  BY <1>2, <1>3
<1>5. Min(D) \in D /\ \A d \in D : Min(D) <= d
  BY <1>4, LeastOf
<1>6. near # {} /\ near \subseteq Nat
  <2>1. PICK j \in DOMAIN s : Min(D) = Distance(s[j], t)
    BY <1>5
  <2>2. j \in near
    BY <2>1
  <2>3. near \subseteq DOMAIN s
    OBVIOUS
  <2> HIDE DEF near
  <2> QED
    BY <1>1, <2>2, <2>3
<1>7. Min(near) \in near /\ \A j \in near : Min(near) <= j
  BY <1>6, LeastOf
<1> QED
  BY <1>1, <1>7 DEF NearestIndex

-----------------------------------------------------------------------------
(* What the player's fields keep to, of one value v of p.  `away` are the  *)
(* replacements that are still loading.                                    *)

Fields == {"times", "img", "loaded", "cur", "prev1", "now", "shown", "attached", "staged",
           "ready", "run", "paused", "tick", "missed"}

LayersOf(S) == {s.layer : s \in S}

\* Replacements: one per time, each with a layer of its own.
Batch(S) ==
  /\ \A s \in S : s.time \in Int /\ s.layer \in LayerIds \ {None}
  /\ \A s, t \in S : s.time = t.time \/ s.layer = t.layer => s = t

\* The frames are in order; the loop plays some of them, in order, that have a layer.
FramesGood(times, img, loaded) ==
  /\ times \in Seq(Int) /\ Sorted(times) /\ Len(times) \in 1..Frames
  /\ img \in Seq(LayerIds \cup {None}) /\ Len(img) = Len(times)
  /\ loaded \in Seq(1..Len(img)) /\ Sorted(loaded)
  /\ \A s \in 1..Len(loaded) : img[loaded[s]] # None

\* The layers on the map are exactly those somebody holds, and each has one holder.
LayersGood(img, attached, staged, away) ==
  /\ attached \subseteq LayerIds \ {None}
  /\ attached = (ToSet(img) \ {None}) \cup LayersOf(staged) \cup LayersOf(away)
  /\ \A i, j \in 1..Len(img) : img[i] = img[j] /\ img[i] # None => i = j
  /\ Batch(staged) /\ Batch(away)
  /\ ToSet(img) \cap (LayersOf(staged) \cup LayersOf(away)) = {}
  /\ LayersOf(staged) \cap LayersOf(away) = {}

\* A position is one of the loop's, or at its start.
InLoop(n, slot) == slot \in Nat /\ (slot <= 1 \/ slot <= n)

CursorGood(v) ==
  /\ InLoop(Len(v.loaded), v.cur) /\ InLoop(Len(v.loaded), v.prev1)
  /\ v.now \in 1..Len(v.times) /\ v.shown \subseteq LayerIds
  /\ v.ready \in BOOLEAN /\ v.run \in BOOLEAN /\ v.paused \in BOOLEAN
  /\ v.tick \in BOOLEAN /\ v.missed \in BOOLEAN
  /\ Len(v.loaded) >= 2 => v.ready

Good(v, away) ==
  /\ DOMAIN v = Fields
  /\ FramesGood(v.times, v.img, v.loaded)
  /\ LayersGood(v.img, v.attached, v.staged, away)
  /\ CursorGood(v)

\* Replacements wait only in a loop that plays, unless a swap threw.
Staffed(v) == v.staged # {} /\ ~v.missed => Len(v.loaded) >= 2

\* No replacement is going to be swapped in.
Idle(v) == v.staged = {} \/ v.missed

\* What showing frames and swapping replacements in may change.
Follows(v, w) ==
  /\ w.times = v.times /\ Len(w.img) = Len(v.img) /\ w.run = v.run /\ w.paused = v.paused
  /\ w.attached \subseteq v.attached /\ w.staged \subseteq v.staged
  /\ ToSet(v.loaded) \subseteq ToSet(w.loaded) /\ Len(v.loaded) <= Len(w.loaded)
  /\ v.ready => w.ready
  /\ v.missed => w.missed
  /\ w.tick => v.tick \/ MayTick(w)
  /\ \A i \in 1..Len(v.img) : w.img[i] = v.img[i] \/ w.img[i] \in LayersOf(v.staged)
  /\ \A i \in ToSet(w.loaded) \ ToSet(v.loaded) : w.img[i] \in LayersOf(v.staged)
  /\ Idle(v) => /\ w.img = v.img /\ w.loaded = v.loaded
               /\ w.now \in {v.now, NearestIndex(v.times, clock)}

\* A swap also leaves the timer and the frame under the cursor.
Swaps(v, w) ==
  /\ Follows(v, w)
  /\ Staffed(v) => Staffed(w) /\ w.tick = v.tick /\ w.cur >= v.cur
  /\ Len(v.loaded) >= 2 /\ v.cur \in 1..Len(v.loaded) =>
       w.cur \in 1..Len(w.loaded) /\ w.loaded[w.cur] = v.loaded[v.cur]

LEMMA SwapsRefl ==
  ASSUME NEW v, NEW away, Good(v, away)
  PROVE  Swaps(v, v)
<1>1. v.loaded \in Seq(1..Len(v.img))
  BY DEF Good, FramesGood
<1>2. Len(v.loaded) \in Nat /\ v.cur \in Nat
  BY <1>1 DEF Good, CursorGood, InLoop
<1> QED
  BY <1>2 DEF Swaps, Follows

LEMMA FollowsTrans ==
  ASSUME NEW v, NEW w, NEW x, NEW away, Good(v, away), Good(w, away), Good(x, away),
         Follows(v, w), Follows(w, x)
  PROVE  Follows(v, x)
<1>1. Len(v.loaded) \in Nat /\ Len(w.loaded) \in Nat /\ Len(x.loaded) \in Nat
  <2>1. v.loaded \in Seq(1..Len(v.img)) /\ w.loaded \in Seq(1..Len(w.img)) /\ x.loaded \in Seq(1..Len(x.img))
    BY DEF Good, FramesGood
  <2> QED
    BY <2>1
<1>2. LayersOf(w.staged) \subseteq LayersOf(v.staged)
  BY DEF Follows, LayersOf
<1>3. x.tick => v.tick \/ MayTick(x)
  <2>1. MayTick(w) => MayTick(x)
    BY <1>1 DEF Follows, MayTick
  <2> QED
    BY <2>1 DEF Follows
<1>4. \A i \in ToSet(x.loaded) \ ToSet(v.loaded) : x.img[i] \in LayersOf(v.staged)
  <2> SUFFICES ASSUME NEW i \in ToSet(x.loaded), i \notin ToSet(v.loaded)
               PROVE  x.img[i] \in LayersOf(v.staged)
    OBVIOUS
  <2>1. i \in ToSet(x.loaded) \ ToSet(w.loaded) => x.img[i] \in LayersOf(v.staged)
    BY <1>2 DEF Follows
  <2>2. ASSUME i \in ToSet(w.loaded) PROVE x.img[i] \in LayersOf(v.staged)
    <3>1. w.img[i] \in LayersOf(v.staged)
      BY <2>2 DEF Follows
    <3>2. i \in 1..Len(w.img)
      <4>1. w.loaded \in Seq(1..Len(w.img))
        BY DEF Good, FramesGood
      <4> QED
        BY <2>2, <4>1 DEF ToSet
    <3> QED
      BY <1>2, <3>1, <3>2 DEF Follows
  <2> QED
    BY <2>1, <2>2
<1>5. \A i \in 1..Len(v.img) : x.img[i] = v.img[i] \/ x.img[i] \in LayersOf(v.staged)
  BY <1>2 DEF Follows
<1>6. Idle(v) => x.img = v.img /\ x.loaded = v.loaded /\ x.now \in {v.now, NearestIndex(v.times, clock)}
  <2>1. Idle(v) => Idle(w)
    BY DEF Idle, Follows
  <2> QED
    BY <2>1 DEF Follows
<1> QED
  BY <1>1, <1>3, <1>4, <1>5, <1>6 DEF Follows

LEMMA SwapsTrans ==
  ASSUME NEW v, NEW w, NEW x, NEW away, Good(v, away), Good(w, away), Good(x, away),
         Swaps(v, w), Swaps(w, x)
  PROVE  Swaps(v, x)
<1>1. Len(v.loaded) \in Nat /\ Len(w.loaded) \in Nat /\ Len(x.loaded) \in Nat
  BY DEF Good, FramesGood
<1>2. Follows(v, x)
  BY FollowsTrans DEF Swaps
<1>3. Len(v.loaded) >= 2 => Len(w.loaded) >= 2
  BY <1>1 DEF Swaps, Follows
<1>4. v.cur \in Nat /\ w.cur \in Nat /\ x.cur \in Nat
  BY DEF Good, CursorGood, InLoop
<1> QED
  BY <1>2, <1>3, <1>4 DEF Swaps

\* The k-th step of a fold of swaps takes the replacement of the k-th frame.
FoldStep(f, k, fis, away) ==
  /\ Good(f[k - 1], away) /\ f[k - 1].times = f[0].times
  /\ Len(f[k - 1].img) = Len(f[0].img) /\ Len(f[0].loaded) <= Len(f[k - 1].loaded)
  => /\ Good(f[k], away) /\ Swaps(f[k - 1], f[k])
     /\ f[k].missed \/ \A s \in f[k].staged : s.time # f[0].times[fis[k]]

\* A fold of swaps is a swap.
LEMMA SwapsFold ==
  ASSUME NEW f, NEW n \in Nat, NEW fis, NEW away, Good(f[0], away),
         \A k \in 1..n : FoldStep(f, k, fis, away)
  PROVE  /\ Good(f[n], away) /\ Swaps(f[0], f[n])
         /\ f[n].missed \/ \A j \in 1..n : \A s \in f[n].staged : s.time # f[0].times[fis[j]]
<1> DEFINE Done(k) ==
             /\ Good(f[k], away) /\ Swaps(f[0], f[k])
             /\ f[k].missed \/ \A j \in 1..k : \A s \in f[k].staged : s.time # f[0].times[fis[j]]
           S == {k \in 0..n : Done(k)}
<1>1. Done(0)
  BY SwapsRefl
<1>2. ASSUME NEW k \in 1..n, Done(k - 1) PROVE Done(k)
  <2>1. /\ f[k - 1].times = f[0].times /\ Len(f[k - 1].img) = Len(f[0].img)
        /\ Len(f[0].loaded) <= Len(f[k - 1].loaded)
    BY <1>2 DEF Swaps, Follows
  <2>2. /\ Good(f[k], away) /\ Swaps(f[k - 1], f[k])
        /\ f[k].missed \/ \A s \in f[k].staged : s.time # f[0].times[fis[k]]
    BY <1>2, <2>1 DEF FoldStep
  <2>3. Swaps(f[0], f[k])
    BY <1>2, <2>2, SwapsTrans
  <2>4. f[k].staged \subseteq f[k - 1].staged /\ (f[k - 1].missed => f[k].missed)
    BY <2>2 DEF Swaps, Follows
  <2>5. \A j \in 1..k : j = k \/ j \in 1..(k - 1)
    OBVIOUS
  <2> QED
    BY <1>2, <2>2, <2>3, <2>4, <2>5
<1> HIDE DEF Done
<1>3. 0 \in S /\ \A k \in 1..n : k - 1 \in S => k \in S
  BY <1>1, <1>2
<1> HIDE DEF S
<1>4. \A k \in 0..n : k \in S
  BY <1>3, UpTo
<1>5. n \in S
  BY <1>4
<1> QED
  BY <1>5 DEF S, Done

\* The folds the model is written with exist, as functions on 0..n.
PushFold(f, base, n, fis) ==
  f = [k \in 0..n |-> IF k = 0 THEN base ELSE SwapOne(f[k - 1], fis[k], PushPositions)]
SwapFold(f, base, n, fis) ==
  f = [k \in 0..n |-> IF k = 0 THEN base ELSE SwapOne(f[k - 1], fis[k], AfterFrameInserted)]

LEMMA PushFoldExists ==
  ASSUME NEW base, NEW n \in Nat, NEW fis
  PROVE  \E f : PushFold(f, base, n, fis)
<1> DEFINE Fold(f, m) ==
             f = [k \in 0..m |-> IF k = 0 THEN base ELSE SwapOne(f[k - 1], fis[k], PushPositions)]
           S == {m \in 0..n : \E f : Fold(f, m)}
<1>1. 0 \in S
  <2>1. Fold([k \in 0..0 |-> base], 0)
    OBVIOUS
  <2>2. 0 \in 0..n
    OBVIOUS
  <2> HIDE DEF Fold
  <2> QED
    BY <2>1, <2>2
<1>2. ASSUME NEW m \in 1..n, m - 1 \in S PROVE m \in S
  <2>1. PICK f : Fold(f, m - 1)
    BY <1>2
  <2> DEFINE last == SwapOne(f[m - 1], fis[m], PushPositions)
             g == [k \in 0..m |-> IF k = m THEN last ELSE f[k]]
  <2> HIDE DEF last
  <2>2. \A k \in 0..m : g[k] = IF k = 0 THEN base ELSE SwapOne(g[k - 1], fis[k], PushPositions)
    <3> TAKE k \in 0..m
    <3>1. CASE k = m
      <4>1. m # 0 /\ m - 1 \in 0..m /\ m - 1 # m
        OBVIOUS
      <4>2. g[m - 1] = f[m - 1]
        BY <4>1
      <4> QED
        BY <3>1, <4>1, <4>2 DEF last
    <3>2. CASE k # m
      <4>1. k \in 0..(m - 1) /\ g[k] = f[k]
        BY <3>2
      <4>2. f[k] = IF k = 0 THEN base ELSE SwapOne(f[k - 1], fis[k], PushPositions)
        BY <2>1, <4>1
      <4>3. k # 0 => k - 1 \in 0..m /\ k - 1 # m
        BY <3>2
      <4>4. k # 0 => g[k - 1] = f[k - 1]
        BY <4>3
      <4> QED
        BY <4>1, <4>2, <4>4
    <3> QED
      BY <3>1, <3>2
  <2>3. Fold(g, m)
    BY <2>2
  <2>4. m \in 0..n
    OBVIOUS
  <2> HIDE DEF Fold
  <2> QED
    BY <2>3, <2>4
<1> HIDE DEF S
<1>3. \A k \in 0..n : k \in S
  BY <1>1, <1>2, UpTo
<1>4. n \in S
  BY <1>3
<1> QED
  BY <1>4 DEF S, PushFold

LEMMA SwapFoldExists ==
  ASSUME NEW base, NEW n \in Nat, NEW fis
  PROVE  \E f : SwapFold(f, base, n, fis)
<1> DEFINE Fold(f, m) ==
             f = [k \in 0..m |-> IF k = 0 THEN base ELSE SwapOne(f[k - 1], fis[k], AfterFrameInserted)]
           S == {m \in 0..n : \E f : Fold(f, m)}
<1>1. 0 \in S
  <2>1. Fold([k \in 0..0 |-> base], 0)
    OBVIOUS
  <2>2. 0 \in 0..n
    OBVIOUS
  <2> HIDE DEF Fold
  <2> QED
    BY <2>1, <2>2
<1>2. ASSUME NEW m \in 1..n, m - 1 \in S PROVE m \in S
  <2>1. PICK f : Fold(f, m - 1)
    BY <1>2
  <2> DEFINE last == SwapOne(f[m - 1], fis[m], AfterFrameInserted)
             g == [k \in 0..m |-> IF k = m THEN last ELSE f[k]]
  <2> HIDE DEF last
  <2>2. \A k \in 0..m : g[k] = IF k = 0 THEN base ELSE SwapOne(g[k - 1], fis[k], AfterFrameInserted)
    <3> TAKE k \in 0..m
    <3>1. CASE k = m
      <4>1. m # 0 /\ m - 1 \in 0..m /\ m - 1 # m
        OBVIOUS
      <4>2. g[m - 1] = f[m - 1]
        BY <4>1
      <4> QED
        BY <3>1, <4>1, <4>2 DEF last
    <3>2. CASE k # m
      <4>1. k \in 0..(m - 1) /\ g[k] = f[k]
        BY <3>2
      <4>2. f[k] = IF k = 0 THEN base ELSE SwapOne(f[k - 1], fis[k], AfterFrameInserted)
        BY <2>1, <4>1
      <4>3. k # 0 => k - 1 \in 0..m /\ k - 1 # m
        BY <3>2
      <4>4. k # 0 => g[k - 1] = f[k - 1]
        BY <4>3
      <4> QED
        BY <4>1, <4>2, <4>4
    <3> QED
      BY <3>1, <3>2
  <2>3. Fold(g, m)
    BY <2>2
  <2>4. m \in 0..n
    OBVIOUS
  <2> HIDE DEF Fold
  <2> QED
    BY <2>3, <2>4
<1> HIDE DEF S
<1>3. \A k \in 0..n : k \in S
  BY <1>1, <1>2, UpTo
<1>4. n \in S
  BY <1>3
<1> QED
  BY <1>4 DEF S, SwapFold

\* A replacement in its frame's place.
Replaced(v, fi, s) ==
  [v EXCEPT !.staged = @ \ {x \in v.staged : x.time = v.times[fi]},
            !.img[fi] = s.layer,
            !.attached = @ \ {v.img[fi]},
            !.shown = IF v.img[fi] \in @ THEN (@ \ {v.img[fi]}) \cup {s.layer} ELSE @]

\* Taking the place of a frame's layer keeps the books.
LEMMA ReplacedLayers ==
  ASSUME NEW img \in Seq(LayerIds \cup {None}), NEW attached, NEW staged, NEW away,
         LayersGood(img, attached, staged, away),
         NEW fi \in 1..Len(img), NEW s \in staged
  PROVE  LayersGood([img EXCEPT ![fi] = s.layer], attached \ {img[fi]}, staged \ {s}, away)
<1> DEFINE img2 == [img EXCEPT ![fi] = s.layer]
           staged2 == staged \ {s}
           old == img[fi]
<1>1. /\ Len(img) \in Nat /\ DOMAIN img = 1..Len(img)
      /\ img2 \in Seq(LayerIds \cup {None}) /\ Len(img2) = Len(img) /\ DOMAIN img2 = 1..Len(img)
      /\ img2[fi] = s.layer /\ \A i \in 1..Len(img) : i # fi => img2[i] = img[i]
  BY DEF LayersGood, Batch
<1>2. /\ s.layer \in LayerIds \ {None} /\ s.layer \in LayersOf(staged)
      /\ s.layer \notin ToSet(img) /\ s.layer \notin LayersOf(away)
  <2>1. s.layer \in LayersOf(staged)
    BY DEF LayersOf
  <2> QED
    BY <2>1 DEF LayersGood, Batch
<1>3. LayersOf(staged2) \subseteq LayersOf(staged) /\ LayersOf(staged) \subseteq LayersOf(staged2) \cup {s.layer}
  BY DEF LayersOf
<1>4. s.layer \notin LayersOf(staged2)
  BY DEF LayersGood, Batch, LayersOf
<1>5. Batch(staged2)
  BY DEF LayersGood, Batch
<1> HIDE DEF img2, staged2
<1>6. ToSet(img2) \subseteq ToSet(img) \cup {s.layer} /\ s.layer \in ToSet(img2)
  BY <1>1 DEF ToSet
<1>7. old \in ToSet(img) /\ \A x \in ToSet(img) : x # old => x \in ToSet(img2)
  BY <1>1 DEF ToSet
<1>8. old # None => old \notin ToSet(img2)
  <2> SUFFICES ASSUME old # None, NEW i \in 1..Len(img), img2[i] = old PROVE FALSE
    BY <1>1 DEF ToSet
  <2>1. CASE i = fi
    BY <1>1, <1>2, <1>7, <2>1
  <2>2. CASE i # fi
    BY <1>1, <2>2 DEF LayersGood
  <2> QED
    BY <2>1, <2>2
<1>9. attached \ {old} \subseteq (ToSet(img2) \ {None}) \cup LayersOf(staged2) \cup LayersOf(away)
  <2> SUFFICES ASSUME NEW x \in attached, x # old
               PROVE  x \in (ToSet(img2) \ {None}) \cup LayersOf(staged2) \cup LayersOf(away)
    OBVIOUS
  <2>1. x \in (ToSet(img) \ {None}) \cup LayersOf(staged) \cup LayersOf(away)
    BY DEF LayersGood
  <2> QED
    BY <1>2, <1>3, <1>6, <1>7, <2>1
<1>10. (ToSet(img2) \ {None}) \cup LayersOf(staged2) \cup LayersOf(away) \subseteq attached \ {old}
  <2>1. attached = (ToSet(img) \ {None}) \cup LayersOf(staged) \cup LayersOf(away)
    BY DEF LayersGood
  <2>2. old \notin LayersOf(staged) /\ old \notin LayersOf(away)
    BY <1>7 DEF LayersGood
  <2>3. \A x \in ToSet(img2) : x # None => x # old /\ x \in attached
    BY <1>2, <1>6, <1>8, <2>1
  <2> QED
    BY <1>3, <2>1, <2>2, <2>3
<1>11. \A i, j \in 1..Len(img2) : img2[i] = img2[j] /\ img2[i] # None => i = j
  <2> SUFFICES ASSUME NEW i \in 1..Len(img), NEW j \in 1..Len(img), img2[i] = img2[j], img2[i] # None
               PROVE  i = j
    BY <1>1
  <2>1. \A k \in 1..Len(img) : k # fi => img2[k] # s.layer
    BY <1>1, <1>2 DEF ToSet
  <2>2. CASE i = fi \/ j = fi
    BY <1>1, <2>1, <2>2
  <2>3. CASE i # fi /\ j # fi
    BY <1>1, <2>3 DEF LayersGood
  <2> QED
    BY <2>2, <2>3
<1>12. ToSet(img2) \cap (LayersOf(staged2) \cup LayersOf(away)) = {}
  BY <1>2, <1>3, <1>4, <1>6 DEF LayersGood
<1>13. LayersOf(staged2) \cap LayersOf(away) = {}
  BY <1>3 DEF LayersGood
<1>14. attached \ {old} = (ToSet(img2) \ {None}) \cup LayersOf(staged2) \cup LayersOf(away)
  BY <1>9, <1>10
<1>15. attached \ {old} \subseteq LayerIds \ {None} /\ Batch(away)
  BY DEF LayersGood
<1>16. LayersGood(img2, attached \ {old}, staged2, away)
  BY <1>5, <1>11, <1>12, <1>13, <1>14, <1>15 DEF LayersGood
<1> QED
  BY <1>16 DEF img2, staged2

LEMMA ReplacedGood ==
  ASSUME NEW v, NEW away, Good(v, away), ~v.missed, NEW fi \in 1..Len(v.img),
         NEW s \in v.staged, s.time = v.times[fi], NEW w, w = Replaced(v, fi, s)
  PROVE  /\ Good(w, away) /\ Swaps(v, w)
         /\ w.loaded = v.loaded /\ w.img[fi] = s.layer /\ w.img[fi] # None
         /\ \A t \in w.staged : t.time # v.times[fi]
<1>1. DOMAIN v = Fields
  BY DEF Good
<1>2. /\ DOMAIN w = Fields
      /\ w.times = v.times /\ w.loaded = v.loaded /\ w.cur = v.cur /\ w.prev1 = v.prev1
      /\ w.now = v.now /\ w.ready = v.ready /\ w.run = v.run /\ w.paused = v.paused
      /\ w.tick = v.tick /\ w.missed = v.missed
      /\ w.staged = v.staged \ {x \in v.staged : x.time = v.times[fi]}
      /\ w.img = [v.img EXCEPT ![fi] = s.layer]
      /\ w.attached = v.attached \ {v.img[fi]}
      /\ w.shown = IF v.img[fi] \in v.shown THEN (v.shown \ {v.img[fi]}) \cup {s.layer} ELSE v.shown
  BY <1>1 DEF Replaced, Fields
<1>3. {x \in v.staged : x.time = v.times[fi]} = {s}
  BY DEF Good, LayersGood, Batch
<1>4. s.layer \in LayerIds \ {None} /\ s.layer \in LayersOf(v.staged)
  BY DEF Good, LayersGood, Batch, LayersOf
<1>5. v.img \in Seq(LayerIds \cup {None})
  BY DEF Good, FramesGood
<1>6. /\ w.img \in Seq(LayerIds \cup {None}) /\ Len(w.img) = Len(v.img)
      /\ w.img[fi] = s.layer /\ \A i \in 1..Len(v.img) : i # fi => w.img[i] = v.img[i]
  BY <1>2, <1>4, <1>5
<1>7. FramesGood(w.times, w.img, w.loaded)
  <2>1. FramesGood(v.times, v.img, v.loaded)
    BY DEF Good
  <2>2. \A k \in 1..Len(v.loaded) : v.loaded[k] \in 1..Len(v.img)
    BY <2>1 DEF FramesGood
  <2>3. \A k \in 1..Len(v.loaded) : w.img[v.loaded[k]] # None
    BY <1>4, <1>6, <2>1, <2>2 DEF FramesGood
  <2> QED
    BY <1>2, <1>6, <2>1, <2>3 DEF FramesGood
<1>8. LayersGood(w.img, w.attached, w.staged, away)
  BY <1>2, <1>3, <1>5, ReplacedLayers DEF Good
<1>9. CursorGood(w)
  BY <1>2, <1>4 DEF Good, CursorGood
<1>10. Good(w, away)
  BY <1>2, <1>7, <1>8, <1>9 DEF Good
<1>11. Len(v.loaded) \in Nat /\ v.cur \in Nat
  BY DEF Good, FramesGood, CursorGood, InLoop
<1>12. Follows(v, w)
  BY <1>2, <1>4, <1>6, <1>11 DEF Follows, Idle
<1>13. Swaps(v, w)
  BY <1>2, <1>11, <1>12 DEF Swaps, Staffed
<1>14. \A t \in w.staged : t.time # v.times[fi]
  BY <1>2
<1> QED
  BY <1>2, <1>4, <1>6, <1>10, <1>13, <1>14

\* A frame that joins the loop.
Joined(v, fi) == [v EXCEPT !.loaded = InsertSorted(@, fi)]

LEMMA JoinedFacts ==
  ASSUME NEW v, NEW away, Good(v, away), NEW fi \in 1..Len(v.img), v.img[fi] # None,
         fi \notin ToSet(v.loaded), NEW w, w = Joined(v, fi),
         NEW pos, pos = InsertPosition(v.loaded, fi)
  PROVE  /\ DOMAIN w = Fields
         /\ w.times = v.times /\ w.img = v.img /\ w.cur = v.cur /\ w.prev1 = v.prev1
         /\ w.now = v.now /\ w.shown = v.shown /\ w.attached = v.attached /\ w.staged = v.staged
         /\ w.ready = v.ready /\ w.run = v.run /\ w.paused = v.paused
         /\ w.tick = v.tick /\ w.missed = v.missed
         /\ Len(v.loaded) \in Nat /\ Len(w.loaded) = Len(v.loaded) + 1
         /\ ToSet(w.loaded) = ToSet(v.loaded) \cup {fi}
         /\ FramesGood(w.times, w.img, w.loaded)
         /\ pos \in 1..Len(w.loaded)
         /\ \A k \in 1..Len(v.loaded) :
              w.loaded[IF pos <= k THEN k + 1 ELSE k] = v.loaded[k]
<1>1. /\ DOMAIN v = Fields /\ FramesGood(v.times, v.img, v.loaded)
      /\ v.loaded \in Seq(1..Len(v.img)) /\ Sorted(v.loaded) /\ Len(v.img) \in Nat
      /\ \A k \in 1..Len(v.loaded) : v.img[v.loaded[k]] # None
  BY DEF Good, FramesGood
<1>2. /\ DOMAIN w = Fields
      /\ w.times = v.times /\ w.img = v.img /\ w.cur = v.cur /\ w.prev1 = v.prev1
      /\ w.now = v.now /\ w.shown = v.shown /\ w.attached = v.attached /\ w.staged = v.staged
      /\ w.ready = v.ready /\ w.run = v.run /\ w.paused = v.paused
      /\ w.tick = v.tick /\ w.missed = v.missed
      /\ w.loaded = InsertSorted(v.loaded, fi)
  BY <1>1 DEF Joined, Fields
<1>3. v.loaded \in Seq(Int) /\ Len(v.loaded) \in Nat /\ fi \in Int
  BY <1>1
<1>4. /\ pos \in 1..(Len(v.loaded) + 1)
      /\ w.loaded \in Seq(Int) /\ Len(w.loaded) = Len(v.loaded) + 1 /\ Sorted(w.loaded)
      /\ \A i \in 1..Len(w.loaded) :
           w.loaded[i] = IF i < pos THEN v.loaded[i] ELSE IF i = pos THEN fi ELSE v.loaded[i - 1]
      /\ ToSet(w.loaded) = ToSet(v.loaded) \cup {fi}
  BY <1>1, <1>2, <1>3, InsertFacts, SMTT(30)
<1>a. DOMAIN w.loaded = 1..Len(w.loaded)
  BY <1>4
<1>5. \A i \in 1..Len(w.loaded) : w.loaded[i] \in ToSet(v.loaded) \cup {fi}
  <2>1. \A i \in 1..Len(w.loaded) : w.loaded[i] \in ToSet(w.loaded)
    BY <1>a DEF ToSet
  <2> QED
    BY <1>4, <2>1
<1>6. \A x \in ToSet(v.loaded) : x \in 1..Len(v.img) /\ v.img[x] # None
  BY <1>1, SMTT(30) DEF ToSet
<1>7. \A i \in 1..Len(w.loaded) : w.loaded[i] \in 1..Len(v.img) /\ v.img[w.loaded[i]] # None
  BY <1>5, <1>6
<1>8. w.loaded \in Seq(1..Len(v.img))
  <2>1. Len(w.loaded) \in Nat /\ w.loaded = [i \in 1..Len(w.loaded) |-> w.loaded[i]]
    BY <1>4, <1>a
  <2> QED
    BY <1>7, <2>1, IsASeq
<1>9. FramesGood(w.times, w.img, w.loaded)
  BY <1>1, <1>2, <1>4, <1>7, <1>8 DEF FramesGood
<1>10. ASSUME NEW k \in 1..Len(v.loaded)
       PROVE  w.loaded[IF pos <= k THEN k + 1 ELSE k] = v.loaded[k]
  <2>1. CASE pos <= k
    <3>1. k + 1 \in 1..Len(w.loaded) /\ ~(k + 1 < pos) /\ k + 1 # pos /\ (k + 1) - 1 = k
      BY <1>3, <1>4, <2>1, SMTT(30)
    <3> QED
      BY <1>4, <2>1, <3>1
  <2>2. CASE ~(pos <= k)
    <3>1. k \in 1..Len(w.loaded) /\ k < pos
      BY <1>3, <1>4, <2>2
    <3> QED
      BY <1>4, <2>2, <3>1
  <2> QED
    BY <2>1, <2>2
<1>11. pos \in 1..Len(w.loaded)
  BY <1>4
<1> QED
  BY <1>2, <1>3, <1>4, <1>9, <1>10, <1>11

\* The frame fi has joined the loop; nothing else has changed for the layers.
Adds(v, fi, w) ==
  /\ w.times = v.times /\ w.img = v.img /\ w.attached = v.attached /\ w.staged = v.staged
  /\ w.run = v.run /\ w.paused = v.paused /\ w.tick = v.tick /\ w.missed = v.missed
  /\ v.ready => w.ready
  /\ Len(w.loaded) = Len(v.loaded) + 1 /\ ToSet(w.loaded) = ToSet(v.loaded) \cup {fi}

\* The cursor stays on its frame.
KeepsPlace(v, w) ==
  v.cur \in 1..Len(v.loaded) => w.cur \in 1..Len(w.loaded) /\ w.loaded[w.cur] = v.loaded[v.cur]

\* From the third frame on, a frame that joins moves the positions, not the
\* frames they stand for.
LEMMA PushGood ==
  ASSUME NEW v, NEW away, Good(v, away), NEW fi \in 1..Len(v.img), v.img[fi] # None,
         fi \notin ToSet(v.loaded), Len(v.loaded) >= 2,
         NEW w, w = PushPositions(Joined(v, fi), InsertPosition(v.loaded, fi))
  PROVE  Good(w, away) /\ Adds(v, fi, w) /\ w.ready /\ w.cur >= v.cur /\ KeepsPlace(v, w)
<1> DEFINE j == Joined(v, fi)
           pos == InsertPosition(v.loaded, fi)
<1>1. /\ DOMAIN j = Fields
      /\ j.times = v.times /\ j.img = v.img /\ j.cur = v.cur /\ j.prev1 = v.prev1
      /\ j.now = v.now /\ j.shown = v.shown /\ j.attached = v.attached /\ j.staged = v.staged
      /\ j.ready = v.ready /\ j.run = v.run /\ j.paused = v.paused
      /\ j.tick = v.tick /\ j.missed = v.missed
      /\ Len(v.loaded) \in Nat /\ Len(j.loaded) = Len(v.loaded) + 1
      /\ ToSet(j.loaded) = ToSet(v.loaded) \cup {fi}
      /\ FramesGood(j.times, j.img, j.loaded)
      /\ pos \in 1..Len(j.loaded)
      /\ \A k \in 1..Len(v.loaded) :
           j.loaded[IF pos <= k THEN k + 1 ELSE k] = v.loaded[k]
  BY JoinedFacts, SMTT(30)
<1>2. w = PushPositions(j, pos)
  OBVIOUS
<1> HIDE DEF j, pos
<1>3. /\ DOMAIN w = Fields
      /\ w.times = j.times /\ w.img = j.img /\ w.now = j.now /\ w.shown = j.shown
      /\ w.attached = j.attached /\ w.staged = j.staged /\ w.loaded = j.loaded
      /\ w.run = j.run /\ w.paused = j.paused /\ w.tick = j.tick /\ w.missed = j.missed
      /\ w.ready = TRUE
      /\ w.cur = IF pos <= j.cur THEN j.cur + 1 ELSE j.cur
      /\ w.prev1 = IF j.prev1 > 0 /\ pos <= j.prev1 THEN j.prev1 + 1 ELSE j.prev1
  BY <1>1, <1>2 DEF PushPositions, Fields
<1>4. v.cur \in Nat /\ v.prev1 \in Nat /\ v.ready
      /\ (v.cur <= 1 \/ v.cur <= Len(v.loaded)) /\ (v.prev1 <= 1 \/ v.prev1 <= Len(v.loaded))
  BY DEF Good, CursorGood, InLoop
<1>5. InLoop(Len(w.loaded), w.cur)
  BY <1>1, <1>3, <1>4 DEF InLoop
<1>6. InLoop(Len(w.loaded), w.prev1)
  BY <1>1, <1>3, <1>4 DEF InLoop
<1>7. CursorGood(w)
  BY <1>1, <1>3, <1>5, <1>6 DEF CursorGood, Good
<1>8. Good(w, away)
  BY <1>1, <1>3, <1>7 DEF Good
<1>9. ASSUME v.cur \in 1..Len(v.loaded)
      PROVE  w.cur \in 1..Len(w.loaded) /\ w.loaded[w.cur] = v.loaded[v.cur]
  <2>1. w.cur = IF pos <= v.cur THEN v.cur + 1 ELSE v.cur
    BY <1>1, <1>3
  <2>2. w.loaded[w.cur] = v.loaded[v.cur]
    BY <1>1, <1>3, <1>9, <2>1
  <2>3. w.cur \in 1..Len(w.loaded)
    BY <1>1, <1>3, <1>9, <2>1
  <2> QED
    BY <2>2, <2>3
<1>10. w.cur >= v.cur
  BY <1>1, <1>3, <1>4
<1>11. Adds(v, fi, w)
  BY <1>1, <1>3, <1>4 DEF Adds
<1> QED
  BY <1>3, <1>8, <1>9, <1>10, <1>11 DEF KeepsPlace

\* A replaced frame that joins: its layer was a replacement.
LEMMA AddsFollows ==
  ASSUME NEW v, NEW away, Good(v, away), ~v.missed, NEW fi \in 1..Len(v.img),
         NEW s \in v.staged, s.time = v.times[fi],
         NEW r, r = Replaced(v, fi, s), NEW w, Adds(r, fi, w)
  PROVE  Follows(v, w)
<1>1. /\ Good(r, away) /\ Swaps(v, r) /\ r.img[fi] = s.layer
  BY ReplacedGood
<1>2. s.layer \in LayersOf(v.staged) /\ ~Idle(v)
  BY DEF LayersOf, Idle
<1>3. Len(v.loaded) \in Nat /\ Len(r.loaded) \in Nat
  BY <1>1 DEF Good, FramesGood
<1>4. /\ r.times = v.times /\ Len(r.img) = Len(v.img) /\ r.run = v.run /\ r.paused = v.paused
      /\ r.attached \subseteq v.attached /\ r.staged \subseteq v.staged
      /\ ToSet(v.loaded) \subseteq ToSet(r.loaded) /\ Len(v.loaded) <= Len(r.loaded)
      /\ (v.ready => r.ready) /\ (v.missed => r.missed)
      /\ \A i \in 1..Len(v.img) : r.img[i] = v.img[i] \/ r.img[i] \in LayersOf(v.staged)
      /\ \A i \in ToSet(r.loaded) \ ToSet(v.loaded) : r.img[i] \in LayersOf(v.staged)
  BY <1>1 DEF Swaps, Follows
<1>5. w.tick => v.tick \/ MayTick(w)
  <2>1. r.tick => v.tick \/ MayTick(r)
    BY <1>1 DEF Swaps, Follows
  <2>2. MayTick(r) => MayTick(w)
    BY <1>3 DEF MayTick, Adds
  <2> QED
    BY <2>1, <2>2 DEF Adds
<1>6. Len(v.loaded) <= Len(w.loaded)
  BY <1>3, <1>4 DEF Adds
<1> QED
  BY <1>1, <1>2, <1>4, <1>5, <1>6 DEF Follows, Adds

\* A swap that finds nothing staged throws, and changes nothing else.
LEMMA MissedGood ==
  ASSUME NEW v, NEW away, Good(v, away), NEW w, w = [v EXCEPT !.missed = TRUE]
  PROVE  Good(w, away) /\ Swaps(v, w) /\ w.missed
<1>1. DOMAIN v = Fields
  BY DEF Good
<1>2. /\ DOMAIN w = Fields
      /\ w.times = v.times /\ w.img = v.img /\ w.loaded = v.loaded /\ w.cur = v.cur
      /\ w.prev1 = v.prev1 /\ w.now = v.now /\ w.shown = v.shown /\ w.attached = v.attached
      /\ w.staged = v.staged /\ w.ready = v.ready /\ w.run = v.run /\ w.paused = v.paused
      /\ w.tick = v.tick /\ w.missed = TRUE
  BY <1>1 DEF Fields
<1>3. Good(w, away)
  BY <1>2 DEF Good, CursorGood
<1>4. Len(v.loaded) \in Nat /\ v.cur \in Nat
  BY DEF Good, FramesGood, CursorGood, InLoop
<1>5. Follows(v, w)
  BY <1>2, <1>4 DEF Follows
<1>6. Swaps(v, w)
  BY <1>2, <1>4, <1>5 DEF Swaps, Staffed
<1> QED
  BY <1>2, <1>3, <1>6

\* The things one swap can do, within the start of a loop.
LEMMA SwapOnePushCases ==
  ASSUME NEW v, NEW fi, NEW w, w = SwapOne(v, fi, PushPositions)
  PROVE  \/ v.missed /\ w = v
         \/ w = [v EXCEPT !.missed = TRUE]
         \/ \E s \in v.staged :
              /\ ~v.missed /\ s.time = v.times[fi]
              /\ \/ w = Replaced(v, fi, s)
                 \/ /\ fi \notin ToSet(v.loaded)
                    /\ w = PushPositions(Joined(Replaced(v, fi, s), fi), InsertPosition(v.loaded, fi))
<1> DEFINE mine == {x \in v.staged : x.time = v.times[fi]}
           s == CHOOSE x \in mine : TRUE
           r == Replaced(v, fi, s)
<1>1. CASE v.missed
  BY <1>1 DEF SwapOne
<1>2. CASE ~v.missed /\ mine = {}
  BY <1>2 DEF SwapOne
<1>3. CASE ~v.missed /\ mine # {}
  <2>1. s \in v.staged /\ s.time = v.times[fi]
    BY <1>3
  <2>2. w = IF fi \in ToSet(v.loaded) THEN r
            ELSE PushPositions(Joined(r, fi), InsertPosition(v.loaded, fi))
    BY <1>3 DEF SwapOne, Replaced, Joined
  <2>3. r = Replaced(v, fi, s)
    OBVIOUS
  <2> HIDE DEF s, r
  <2> QED
    BY <1>3, <2>1, <2>2, <2>3
<1> QED
  BY <1>1, <1>2, <1>3

\* The same for any other swap.
LEMMA SwapOneCases ==
  ASSUME NEW v, NEW fi, NEW w, w = SwapOne(v, fi, AfterFrameInserted)
  PROVE  \/ v.missed /\ w = v
         \/ w = [v EXCEPT !.missed = TRUE]
         \/ \E s \in v.staged :
              /\ ~v.missed /\ s.time = v.times[fi]
              /\ \/ w = Replaced(v, fi, s)
                 \/ /\ fi \notin ToSet(v.loaded)
                    /\ w = AfterFrameInserted(Joined(Replaced(v, fi, s), fi), InsertPosition(v.loaded, fi))
<1> DEFINE mine == {x \in v.staged : x.time = v.times[fi]}
           s == CHOOSE x \in mine : TRUE
           r == Replaced(v, fi, s)
<1>1. CASE v.missed
  BY <1>1 DEF SwapOne
<1>2. CASE ~v.missed /\ mine = {}
  BY <1>2 DEF SwapOne
<1>3. CASE ~v.missed /\ mine # {}
  <2>1. s \in v.staged /\ s.time = v.times[fi]
    BY <1>3
  <2>2. w = IF fi \in ToSet(v.loaded) THEN r
            ELSE AfterFrameInserted(Joined(r, fi), InsertPosition(v.loaded, fi))
    BY <1>3 DEF SwapOne, Replaced, Joined
  <2>3. r = Replaced(v, fi, s)
    OBVIOUS
  <2> HIDE DEF s, r
  <2> QED
    BY <1>3, <2>1, <2>2, <2>3
<1> QED
  BY <1>1, <1>2, <1>3

LEMMA SwapOnePushGood ==
  ASSUME NEW v, NEW away, Good(v, away), NEW fi \in 1..Len(v.img), Len(v.loaded) >= 2,
         NEW w, w = SwapOne(v, fi, PushPositions)
  PROVE  /\ Good(w, away) /\ Swaps(v, w)
         /\ w.missed \/ \A s \in w.staged : s.time # v.times[fi]
<1>1. CASE v.missed /\ w = v
  BY <1>1, SwapsRefl
<1>2. CASE w = [v EXCEPT !.missed = TRUE]
  BY <1>2, MissedGood
<1>3. ASSUME NEW s \in v.staged, NEW r, ~v.missed, s.time = v.times[fi], r = Replaced(v, fi, s),
             \/ w = r
             \/ /\ fi \notin ToSet(v.loaded)
                /\ w = PushPositions(Joined(r, fi), InsertPosition(v.loaded, fi))
      PROVE  Good(w, away) /\ Swaps(v, w) /\ \A t \in w.staged : t.time # v.times[fi]
  <2>1. /\ Good(r, away) /\ Swaps(v, r)
        /\ r.loaded = v.loaded /\ r.img[fi] # None
        /\ \A t \in r.staged : t.time # v.times[fi]
    BY <1>3, ReplacedGood
  <2>2. CASE w = r
    BY <2>1, <2>2
  <2>3. CASE /\ fi \notin ToSet(v.loaded)
             /\ w = PushPositions(Joined(r, fi), InsertPosition(v.loaded, fi))
    <3>1. fi \in 1..Len(r.img)
      BY <2>1 DEF Swaps, Follows
    <3>a. /\ fi \notin ToSet(r.loaded) /\ Len(r.loaded) >= 2
          /\ w = PushPositions(Joined(r, fi), InsertPosition(r.loaded, fi))
      BY <2>1, <2>3
    <3>2. Good(w, away) /\ Adds(r, fi, w) /\ w.ready /\ w.cur >= r.cur /\ KeepsPlace(r, w)
      BY <2>1, <3>1, <3>a, PushGood
    <3>4. Follows(v, w)
      BY <1>3, <3>2, AddsFollows
    <3>5. Len(v.loaded) \in Nat /\ Len(w.loaded) >= 2
      <4>1. v.loaded \in Seq(1..Len(v.img))
        BY DEF Good, FramesGood
      <4> QED
        BY <2>1, <3>2, <4>1 DEF Adds
    <3>6. v.cur \in Nat /\ r.cur \in Nat /\ w.cur \in Nat
      BY <2>1, <3>2 DEF Good, CursorGood, InLoop
    <3>7. Staffed(v) => Staffed(w) /\ w.tick = v.tick /\ w.cur >= v.cur
      BY <2>1, <3>2, <3>5, <3>6 DEF Swaps, Staffed, Adds
    <3>8. v.cur \in 1..Len(v.loaded) => w.cur \in 1..Len(w.loaded) /\ w.loaded[w.cur] = v.loaded[v.cur]
      BY <2>1, <3>2 DEF Swaps, KeepsPlace
    <3>9. Swaps(v, w)
      BY <3>4, <3>7, <3>8 DEF Swaps
    <3> QED
      BY <2>1, <3>2, <3>9 DEF Adds
  <2> QED
    BY <1>3, <2>2, <2>3
<1>4. \A s \in v.staged : ~v.missed /\ s.time = v.times[fi]
        /\ (\/ w = Replaced(v, fi, s)
            \/ /\ fi \notin ToSet(v.loaded)
               /\ w = PushPositions(Joined(Replaced(v, fi, s), fi), InsertPosition(v.loaded, fi)))
      => Good(w, away) /\ Swaps(v, w) /\ \A t \in w.staged : t.time # v.times[fi]
  BY <1>3
<1> QED
  BY <1>1, <1>2, <1>4, SwapOnePushCases, ZenonT(60)

\* _swapStagedFrames first drops the replacements whose frame slid out.
Gone(v) == {s \in v.staged : s.time \notin ToSet(v.times)}
Dropped(v) == [v EXCEPT !.staged = @ \ Gone(v), !.attached = @ \ {s.layer : s \in Gone(v)}]

\* The frames a swap goes through, in its order.
SwapOrder(v, slot, hold) ==
  Ascending({PositionOf(v.times, s.time) : s \in v.staged \ Gone(v)} \ Busy(v, slot, hold))

LEMMA DropGood ==
  ASSUME NEW v, NEW away, Good(v, away), NEW w, w = Dropped(v)
  PROVE  Good(w, away) /\ Swaps(v, w) /\ w.staged = v.staged \ Gone(v)
<1> DEFINE gone == Gone(v)
<1>0. gone \subseteq v.staged
  BY DEF Gone
<1>1. DOMAIN v = Fields
  BY DEF Good
<1>2. /\ DOMAIN w = Fields
      /\ w.times = v.times /\ w.img = v.img /\ w.loaded = v.loaded /\ w.cur = v.cur
      /\ w.prev1 = v.prev1 /\ w.now = v.now /\ w.shown = v.shown
      /\ w.ready = v.ready /\ w.run = v.run /\ w.paused = v.paused
      /\ w.tick = v.tick /\ w.missed = v.missed
      /\ w.staged = v.staged \ gone /\ w.attached = v.attached \ LayersOf(gone)
  BY <1>1 DEF Fields, LayersOf, Dropped
<1> HIDE DEF gone
<1>3. /\ LayersOf(w.staged) \subseteq LayersOf(v.staged)
      /\ LayersOf(gone) \subseteq LayersOf(v.staged)
      /\ LayersOf(v.staged) \subseteq LayersOf(w.staged) \cup LayersOf(gone)
  BY <1>0, <1>2 DEF LayersOf
<1>4. LayersOf(w.staged) \cap LayersOf(gone) = {}
  <2>1. \A s, t \in v.staged : s.layer = t.layer => s = t
    BY DEF Good, LayersGood, Batch
  <2> QED
    BY <1>0, <1>2, <2>1 DEF LayersOf
<1>5. Batch(w.staged)
  BY <1>2 DEF Good, LayersGood, Batch
<1>6. LayersGood(w.img, w.attached, w.staged, away)
  <2>1. LayersGood(v.img, v.attached, v.staged, away)
    BY DEF Good
  <2>2. /\ LayersOf(gone) \cap ToSet(v.img) = {} /\ LayersOf(gone) \cap LayersOf(away) = {}
        /\ v.attached = (ToSet(v.img) \ {None}) \cup LayersOf(v.staged) \cup LayersOf(away)
    BY <1>3, <2>1 DEF LayersGood
  <2>3. w.attached = (ToSet(v.img) \ {None}) \cup LayersOf(w.staged) \cup LayersOf(away)
    BY <1>2, <1>3, <1>4, <2>2
  <2>4. /\ w.attached \subseteq LayerIds \ {None} /\ Batch(away)
        /\ \A i, j \in 1..Len(w.img) : w.img[i] = w.img[j] /\ w.img[i] # None => i = j
    BY <1>2, <2>1 DEF LayersGood
  <2>5. /\ ToSet(w.img) \cap (LayersOf(w.staged) \cup LayersOf(away)) = {}
        /\ LayersOf(w.staged) \cap LayersOf(away) = {}
    BY <1>2, <1>3, <2>1 DEF LayersGood
  <2> QED
    BY <1>2, <1>5, <2>3, <2>4, <2>5 DEF LayersGood
<1>7. Good(w, away)
  BY <1>2, <1>6 DEF Good, CursorGood
<1>8. Len(v.loaded) \in Nat /\ v.cur \in Nat
  BY DEF Good, FramesGood, CursorGood, InLoop
<1>9. Follows(v, w)
  BY <1>2, <1>8 DEF Follows
<1>10. Swaps(v, w)
  BY <1>2, <1>8, <1>9 DEF Swaps, Staffed
<1> QED
  BY <1>2, <1>7, <1>10 DEF gone

\* Each is a frame of the window, and, when no fade runs, every frame that has
\* a replacement is among them.
LEMMA SwapOrderFacts ==
  ASSUME NEW v, NEW away, Good(v, away), NEW slot, NEW hold, NEW fis, fis = SwapOrder(v, slot, hold)
  PROVE  /\ Len(fis) \in Nat /\ \A k \in 1..Len(fis) : fis[k] \in 1..Len(v.img)
         /\ ~hold => \A s \in v.staged \ Gone(v) : \E k \in 1..Len(fis) : v.times[fis[k]] = s.time
<1> DEFINE gone == Gone(v)
           here == {PositionOf(v.times, s.time) : s \in v.staged \ gone}
           S == here \ Busy(v, slot, hold)
           L == Len(v.img)
<1>1. v.times \in Seq(Int) /\ Len(v.times) = L /\ L \in Nat
  BY DEF Good, FramesGood
<1>2. \A s \in v.staged \ gone : PositionOf(v.times, s.time) \in 1..L
                                 /\ v.times[PositionOf(v.times, s.time)] = s.time
  BY <1>1, PositionFacts DEF Gone
<1>3. here \subseteq 1..L
  BY <1>2
<1>4. S \in SUBSET (1..L) /\ S \subseteq Nat
  BY <1>1, <1>3
<1>5. IsFiniteSet(1..L)
  BY <1>1, FS_Interval
<1>6. IsFiniteSet(S)
  BY <1>4, <1>5, FS_Subset
<1>a. fis = Ascending(S)
  BY DEF SwapOrder
<1> HIDE DEF S, gone, here, L
<1>7. /\ Cardinality(S) \in Nat /\ fis \in [1..Cardinality(S) -> S]
      /\ \A x \in S : \E k \in 1..Cardinality(S) : fis[k] = x
  BY <1>4, <1>6, <1>a, AscendingFacts
<1>8. Len(fis) = Cardinality(S)
  BY <1>7
<1>9. \A k \in 1..Len(fis) : fis[k] \in 1..L
  BY <1>4, <1>7, <1>8
<1>10. ASSUME ~hold, NEW s \in v.staged \ gone
       PROVE  \E k \in 1..Len(fis) : v.times[fis[k]] = s.time
  <2>1. S = here
    BY <1>10 DEF S, Busy
  <2>2. PositionOf(v.times, s.time) \in S
    BY <1>10, <2>1 DEF here
  <2>3. PICK k \in 1..Cardinality(S) : fis[k] = PositionOf(v.times, s.time)
    BY <1>7, <2>2
  <2> QED
    BY <1>2, <1>8, <1>10, <2>3
<1> QED
  BY <1>7, <1>8, <1>9, <1>10 DEF gone, L

\* What a call of _swapStagedFrames does.
Settles(v, hold, w, away) ==
  /\ Good(w, away) /\ Swaps(v, w)
  /\ ~hold => Idle(w)

\* From a fold of good swaps.
LEMMA SwapStagedFold ==
  ASSUME NEW v, NEW away, Good(v, away), NEW slot, NEW hold,
         NEW fis, fis = SwapOrder(v, slot, hold), NEW f, f[0] = Dropped(v),
         \A k \in 1..Len(fis) : FoldStep(f, k, fis, away),
         NEW w, w = f[Len(fis)]
  PROVE  Settles(v, hold, w, away)
<1>1. Good(f[0], away) /\ Swaps(v, f[0]) /\ f[0].staged = v.staged \ Gone(v)
  BY DropGood
<1>2. /\ Len(fis) \in Nat
      /\ ~hold => \A s \in v.staged \ Gone(v) : \E k \in 1..Len(fis) : v.times[fis[k]] = s.time
  BY SwapOrderFacts
<1>3. f[0].times = v.times
  BY <1>1 DEF Swaps, Follows
<1> DEFINE n == Len(fis)
<1>4. n \in Nat /\ \A k \in 1..n : FoldStep(f, k, fis, away)
  BY <1>2
<1> HIDE DEF n
<1>5. /\ Good(f[n], away) /\ Swaps(f[0], f[n])
      /\ f[n].missed \/ \A j \in 1..n : \A s \in f[n].staged : s.time # f[0].times[fis[j]]
  BY <1>1, <1>4, SwapsFold
<1>6. w = f[n]
  BY DEF n
<1>7. Swaps(v, w)
  BY <1>1, <1>5, <1>6, SwapsTrans
<1>8. ASSUME ~hold PROVE Idle(w)
  <2>1. w.staged \subseteq v.staged \ Gone(v)
    BY <1>1, <1>5, <1>6 DEF Swaps, Follows
  <2>2. ~w.missed => w.staged = {}
    BY <1>2, <1>3, <1>5, <1>6, <1>8, <2>1 DEF n
  <2> QED
    BY <2>2 DEF Idle
<1> QED
  BY <1>5, <1>6, <1>7, <1>8 DEF Settles

LEMMA SwapStagedPushGood ==
  ASSUME NEW v, NEW away, Good(v, away), Len(v.loaded) >= 2, NEW slot, NEW hold,
         NEW w, w = SwapStaged(v, slot, hold, PushPositions)
  PROVE  Settles(v, hold, w, away)
<1> DEFINE fis == SwapOrder(v, slot, hold)
           base == Dropped(v)
           f == CHOOSE g : PushFold(g, base, Len(fis), fis)
<1>1. w = f[Len(fis)]
  BY DEF SwapStaged, PushFold, SwapOrder, Dropped, Gone
<1>2. Len(fis) \in Nat /\ \A k \in 1..Len(fis) : fis[k] \in 1..Len(v.img)
  BY SwapOrderFacts
<1>3. Good(base, away) /\ Swaps(v, base)
  BY DropGood
<1>a. fis = SwapOrder(v, slot, hold) /\ base = Dropped(v)
  OBVIOUS
<1> HIDE DEF fis, base
<1>4. \E g : PushFold(g, base, Len(fis), fis)
  BY <1>2, PushFoldExists
<1>5. PushFold(f, base, Len(fis), fis)
  BY <1>4
<1> HIDE DEF f
<1>6. f[0] = base
  BY <1>2, <1>5 DEF PushFold
<1>7. \A k \in 1..Len(fis) : f[k] = SwapOne(f[k - 1], fis[k], PushPositions)
  BY <1>2, <1>5 DEF PushFold
<1>8. /\ Len(v.loaded) <= Len(base.loaded) /\ Len(base.img) = Len(v.img)
      /\ Len(v.loaded) \in Nat /\ Len(base.loaded) \in Nat
  BY <1>3 DEF Swaps, Follows, Good, FramesGood
<1>9. ASSUME NEW k \in 1..Len(fis) PROVE FoldStep(f, k, fis, away)
  <2> SUFFICES ASSUME Good(f[k - 1], away), f[k - 1].times = f[0].times,
                      Len(f[k - 1].img) = Len(f[0].img), Len(f[0].loaded) <= Len(f[k - 1].loaded)
               PROVE  /\ Good(f[k], away) /\ Swaps(f[k - 1], f[k])
                      /\ f[k].missed \/ \A s \in f[k].staged : s.time # f[0].times[fis[k]]
    BY DEF FoldStep
  <2>1. Len(f[k - 1].loaded) \in Nat
    BY DEF Good, FramesGood
  <2>2. Len(f[k - 1].loaded) >= 2
    BY <1>6, <1>8, <2>1
  <2>3. f[k] = SwapOne(f[k - 1], fis[k], PushPositions)
    BY <1>7
  <2>4. fis[k] \in 1..Len(f[k - 1].img)
    BY <1>2, <1>6, <1>8
  <2>5. /\ Good(f[k], away) /\ Swaps(f[k - 1], f[k])
        /\ f[k].missed \/ \A s \in f[k].staged : s.time # f[k - 1].times[fis[k]]
    BY <2>2, <2>3, <2>4, SwapOnePushGood
  <2> QED
    BY <2>5
<1> QED
  BY <1>1, <1>6, <1>9, <1>a, SwapStagedFold

-----------------------------------------------------------------------------
(* Showing a frame and starting the loop.                                  *)

\* _showSlot before its swap.
Shown(v, slot, snap) ==
  LET out == IF Chain /\ ~snap
             THEN IF v.prev1 \in DOMAIN v.loaded THEN {LayerAt(v, v.prev1)} ELSE {}
             ELSE LoadedLayers(v)
      on == (v.shown \ out) \cup ({LayerAt(v, slot)} \ {None})
  IN  [v EXCEPT !.shown = on, !.prev1 = slot, !.now = NearestIndex(v.times, clock)]

LEMMA ShownGood ==
  ASSUME NEW v, NEW away, Good(v, away), clock \in Int, NEW slot \in DOMAIN v.loaded, NEW snap,
         NEW w, w = Shown(v, slot, snap)
  PROVE  Good(w, away) /\ Swaps(v, w)
<1> DEFINE out == IF Chain /\ ~snap
                  THEN IF v.prev1 \in DOMAIN v.loaded THEN {LayerAt(v, v.prev1)} ELSE {}
                  ELSE LoadedLayers(v)
           on == (v.shown \ out) \cup ({LayerAt(v, slot)} \ {None})
<1>1. DOMAIN v = Fields
  BY DEF Good
<1>2. w = [v EXCEPT !.shown = on, !.prev1 = slot, !.now = NearestIndex(v.times, clock)]
  BY DEF Shown
<1> HIDE DEF on
<1>3. /\ DOMAIN w = Fields
      /\ w.times = v.times /\ w.img = v.img /\ w.loaded = v.loaded /\ w.cur = v.cur
      /\ w.prev1 = slot /\ w.now = NearestIndex(v.times, clock) /\ w.shown = on
      /\ w.attached = v.attached /\ w.staged = v.staged
      /\ w.ready = v.ready /\ w.run = v.run /\ w.paused = v.paused
      /\ w.tick = v.tick /\ w.missed = v.missed
  BY <1>1, <1>2 DEF Fields
<1>4. /\ v.loaded \in Seq(1..Len(v.img)) /\ v.img \in Seq(LayerIds \cup {None})
      /\ v.times \in Seq(Int) /\ Len(v.times) \in 1..Frames /\ Len(v.loaded) \in Nat
  BY DEF Good, FramesGood
<1>5. slot \in 1..Len(v.loaded)
  BY <1>4
<1>6. LayerAt(v, slot) \in LayerIds \cup {None}
  BY <1>4, <1>5 DEF LayerAt
<1>7. on \subseteq LayerIds
  BY <1>6 DEF on, Good, CursorGood
<1>8. NearestIndex(v.times, clock) \in 1..Len(v.times)
  <2>1. v.times # <<>>
    BY <1>4
  <2> QED
    BY <1>4, <2>1, NearestFacts
<1>9. InLoop(Len(v.loaded), slot)
  BY <1>4, <1>5 DEF InLoop
<1>10. CursorGood(w)
  BY <1>3, <1>7, <1>8, <1>9 DEF Good, CursorGood
<1>11. Good(w, away)
  BY <1>3, <1>10 DEF Good
<1>12. v.cur \in Nat
  BY DEF Good, CursorGood, InLoop
<1>13. Follows(v, w)
  BY <1>3, <1>4 DEF Follows
<1>14. Swaps(v, w)
  BY <1>3, <1>4, <1>12, <1>13 DEF Swaps, Staffed
<1> QED
  BY <1>11, <1>14

LEMMA ShowPushGood ==
  ASSUME NEW v, NEW away, Good(v, away), clock \in Int, Len(v.loaded) >= 2, NEW slot, NEW snap,
         NEW w, w = Show(v, slot, snap, PushPositions)
  PROVE  Good(w, away) /\ Swaps(v, w)
<1>1. CASE slot \notin DOMAIN v.loaded
  <2>1. w = v
    BY <1>1 DEF Show
  <2> QED
    BY <2>1, SwapsRefl
<1>2. CASE slot \in DOMAIN v.loaded
  <2> DEFINE u == Shown(v, slot, snap)
  <2>1. w = SwapStaged(u, slot, TRUE, PushPositions)
    BY <1>2 DEF Show, Shown
  <2>2. Good(u, away) /\ Swaps(v, u)
    BY <1>2, ShownGood
  <2> HIDE DEF u
  <2>3. Len(u.loaded) >= 2
    BY <2>2 DEF Swaps, Follows, Good, FramesGood
  <2>4. Settles(u, TRUE, w, away)
    BY <2>1, <2>2, <2>3, SwapStagedPushGood
  <2> QED
    BY <2>2, <2>4, SwapsTrans DEF Settles
<1> QED
  BY <1>1, <1>2

\* The cursor is put on a slot.
LEMMA CursorPut ==
  ASSUME NEW v, NEW away, Good(v, away), NEW slot, InLoop(Len(v.loaded), slot),
         NEW w, w = [v EXCEPT !.cur = slot]
  PROVE  /\ Good(w, away) /\ Follows(v, w) /\ w.cur = slot
         /\ w.loaded = v.loaded /\ w.tick = v.tick /\ w.staged = v.staged /\ w.missed = v.missed
<1>1. DOMAIN v = Fields
  BY DEF Good
<1>2. /\ DOMAIN w = Fields
      /\ w.times = v.times /\ w.img = v.img /\ w.loaded = v.loaded /\ w.cur = slot
      /\ w.prev1 = v.prev1 /\ w.now = v.now /\ w.shown = v.shown /\ w.attached = v.attached
      /\ w.staged = v.staged /\ w.ready = v.ready /\ w.run = v.run /\ w.paused = v.paused
      /\ w.tick = v.tick /\ w.missed = v.missed
  BY <1>1 DEF Fields
<1>3. Good(w, away)
  BY <1>2 DEF Good, CursorGood
<1>4. Len(v.loaded) \in Nat
  BY DEF Good, FramesGood
<1>5. Follows(v, w)
  BY <1>2, <1>4 DEF Follows
<1> QED
  BY <1>2, <1>3, <1>5

\* The timer is armed, or not, by what the fields say.
LEMMA TickPut ==
  ASSUME NEW v, NEW away, Good(v, away), NEW w, w = [v EXCEPT !.tick = MayTick(v)]
  PROVE  /\ Good(w, away) /\ Follows(v, w) /\ w.tick = MayTick(w)
         /\ w.cur = v.cur /\ w.loaded = v.loaded /\ w.staged = v.staged /\ w.missed = v.missed
<1>1. DOMAIN v = Fields
  BY DEF Good
<1>2. /\ DOMAIN w = Fields
      /\ w.times = v.times /\ w.img = v.img /\ w.loaded = v.loaded /\ w.cur = v.cur
      /\ w.prev1 = v.prev1 /\ w.now = v.now /\ w.shown = v.shown /\ w.attached = v.attached
      /\ w.staged = v.staged /\ w.ready = v.ready /\ w.run = v.run /\ w.paused = v.paused
      /\ w.tick = MayTick(v) /\ w.missed = v.missed
  BY <1>1 DEF Fields
<1>3. MayTick(v) \in BOOLEAN /\ MayTick(w) = MayTick(v)
  BY <1>2 DEF MayTick
<1>4. Good(w, away)
  BY <1>2, <1>3 DEF Good, CursorGood
<1>5. Len(v.loaded) \in Nat
  BY DEF Good, FramesGood
<1>6. Follows(v, w)
  BY <1>2, <1>3, <1>5 DEF Follows
<1> QED
  BY <1>2, <1>3, <1>4, <1>6

\* What _startLoop does.
Starts(v, slot, w, away) ==
  /\ Good(w, away) /\ Follows(v, w) /\ w.tick = MayTick(w)
  /\ Staffed(v) => Staffed(w) /\ w.cur >= slot
  /\ Len(v.loaded) >= 2 /\ slot \in 1..Len(v.loaded) =>
       w.cur \in 1..Len(w.loaded) /\ w.loaded[w.cur] = v.loaded[slot]

\* From what its _showSlot does.
LEMMA StartsFrom ==
  ASSUME NEW v, NEW away, Good(v, away), NEW slot, InLoop(Len(v.loaded), slot),
         NEW x, Good(x, away), Swaps([v EXCEPT !.cur = slot], x),
         NEW w, w = [x EXCEPT !.tick = MayTick(x)]
  PROVE  Starts(v, slot, w, away)
<1> DEFINE u == [v EXCEPT !.cur = slot]
<1>1. /\ Good(u, away) /\ Follows(v, u) /\ u.cur = slot
      /\ u.loaded = v.loaded /\ u.staged = v.staged /\ u.missed = v.missed
  BY CursorPut
<1>2. Swaps(u, x)
  OBVIOUS
<1> HIDE DEF u
<1>3. /\ Good(w, away) /\ Follows(x, w) /\ w.tick = MayTick(w)
      /\ w.cur = x.cur /\ w.loaded = x.loaded /\ w.staged = x.staged /\ w.missed = x.missed
  BY TickPut
<1>4. Follows(v, x)
  BY <1>1, <1>2, FollowsTrans DEF Swaps
<1>5. Follows(v, w)
  BY <1>3, <1>4, FollowsTrans
<1>6. ASSUME Staffed(v) PROVE Staffed(w) /\ w.cur >= slot
  <2>1. Staffed(u)
    BY <1>1, <1>6 DEF Staffed
  <2> QED
    BY <1>1, <1>2, <1>3, <2>1 DEF Swaps, Staffed
<1>7. ASSUME Len(v.loaded) >= 2, slot \in 1..Len(v.loaded)
      PROVE  w.cur \in 1..Len(w.loaded) /\ w.loaded[w.cur] = v.loaded[slot]
  BY <1>1, <1>2, <1>3, <1>7 DEF Swaps
<1> QED
  BY <1>3, <1>5, <1>6, <1>7 DEF Starts

LEMMA StartPushGood ==
  ASSUME NEW v, NEW away, Good(v, away), clock \in Int, Len(v.loaded) >= 2,
         NEW slot, InLoop(Len(v.loaded), slot), NEW w, w = Start(v, slot, PushPositions)
  PROVE  Starts(v, slot, w, away)
<1> DEFINE u == [v EXCEPT !.cur = slot]
           x == Show(u, slot, FALSE, PushPositions)
<1>1. Good(u, away) /\ u.loaded = v.loaded
  BY CursorPut
<1>2. w = [x EXCEPT !.tick = MayTick(x)]
  BY DEF Start, Armed
<1>3. Good(x, away) /\ Swaps(u, x)
  <2> HIDE DEF u
  <2> QED
    BY <1>1, ShowPushGood
<1> HIDE DEF x
<1> QED
  BY <1>2, <1>3, StartsFrom

-----------------------------------------------------------------------------
(* A frame that joins, and with it every swap, show, start and stop.       *)

\* What InsertFrame does: the frame is in, and what happens next only follows.
Inserts(v, fi, w, away) ==
  /\ Good(w, away)
  /\ \E j : Good(j, away) /\ Adds(v, fi, j) /\ j.now = v.now /\ Follows(j, w)
  /\ Staffed(v) => Staffed(w)
  /\ Len(v.loaded) >= 2 => w.tick = v.tick /\ w.cur >= v.cur /\ KeepsPlace(v, w)
  /\ v.cur >= 1 /\ (Len(v.loaded) = 1 => v.now \in ToSet(v.loaded)) => w.cur >= 1

LEMMA InsertGood ==
  ASSUME NEW v, NEW away, Good(v, away), clock \in Int, NEW fi \in 1..Len(v.img),
         v.img[fi] # None, fi \notin ToSet(v.loaded),
         NEW j, j = Joined(v, fi), NEW pos, pos = InsertPosition(v.loaded, fi),
         NEW w, w = AfterFrameInserted(j, pos)
  PROVE  Inserts(v, fi, w, away)
<1>1. /\ DOMAIN j = Fields
      /\ j.times = v.times /\ j.img = v.img /\ j.cur = v.cur /\ j.prev1 = v.prev1
      /\ j.now = v.now /\ j.shown = v.shown /\ j.attached = v.attached /\ j.staged = v.staged
      /\ j.ready = v.ready /\ j.run = v.run /\ j.paused = v.paused
      /\ j.tick = v.tick /\ j.missed = v.missed
      /\ Len(v.loaded) \in Nat /\ Len(j.loaded) = Len(v.loaded) + 1
      /\ ToSet(j.loaded) = ToSet(v.loaded) \cup {fi}
      /\ FramesGood(j.times, j.img, j.loaded) /\ pos \in 1..Len(j.loaded)
  BY JoinedFacts, SMTT(30)
<1>a. v.cur \in Nat /\ InLoop(Len(v.loaded), v.cur) /\ InLoop(Len(v.loaded), v.prev1)
  BY DEF Good, CursorGood, InLoop
<1>b. InLoop(Len(j.loaded), j.cur) /\ InLoop(Len(j.loaded), j.prev1)
  BY <1>1, <1>a DEF InLoop
<1>3. CASE Len(v.loaded) = 0
  <2>a. Len(j.loaded) < 2
    BY <1>1, <1>3
  <2>1. w = j
    BY <2>a DEF AfterFrameInserted
  <2>2. CursorGood(j)
    BY <1>1, <1>3, <1>b DEF Good, CursorGood
  <2>3. Good(j, away)
    BY <1>1, <2>2 DEF Good
  <2>4. Adds(v, fi, j)
    BY <1>1 DEF Adds
  <2>5. Follows(j, j)
    BY <2>3, SwapsRefl DEF Swaps
  <2>6. Staffed(v) => Staffed(j)
    BY <1>1, <1>3 DEF Staffed
  <2>7. \E i : Good(i, away) /\ Adds(v, fi, i) /\ i.now = v.now /\ Follows(i, w)
    BY <1>1, <2>1, <2>3, <2>4, <2>5
  <2> QED
    BY <1>1, <1>3, <2>1, <2>3, <2>6, <2>7 DEF Inserts
<1>4. CASE Len(v.loaded) = 1
  <2> DEFINE i == [j EXCEPT !.ready = TRUE]
             slot == PositionOf(i.loaded, i.now)
  <2>a. ~(Len(j.loaded) < 2) /\ ~(Len(j.loaded) >= 3)
    BY <1>1, <1>4
  <2>1. w = Start([j EXCEPT !.ready = TRUE], PositionOf(j.loaded, j.now), PushPositions)
    BY <2>a DEF AfterFrameInserted
  <2>2. /\ DOMAIN i = Fields
        /\ i.times = j.times /\ i.img = j.img /\ i.cur = j.cur /\ i.prev1 = j.prev1
        /\ i.now = j.now /\ i.shown = j.shown /\ i.attached = j.attached /\ i.staged = j.staged
        /\ i.ready = TRUE /\ i.run = j.run /\ i.paused = j.paused
        /\ i.tick = j.tick /\ i.missed = j.missed /\ i.loaded = j.loaded
    BY <1>1 DEF Fields
  <2>3. w = Start(i, slot, PushPositions)
    BY <2>1, <2>2
  <2> HIDE DEF i
  <2>4. CursorGood(i)
    BY <1>1, <1>b, <2>2 DEF Good, CursorGood
  <2>5. Good(i, away)
    BY <1>1, <2>2, <2>4 DEF Good
  <2>6. Adds(v, fi, i) /\ i.now = v.now
    BY <1>1, <2>2 DEF Adds
  <2>7. Len(i.loaded) = 2 /\ Len(i.loaded) >= 2 /\ i.loaded \in Seq(1..Len(i.img))
    BY <1>1, <1>4, <2>2 DEF FramesGood
  <2>8. slot \in 0..Len(i.loaded) /\ (i.now \in ToSet(i.loaded) => slot >= 1)
    BY <2>7, PositionFacts
  <2>9. InLoop(Len(i.loaded), slot)
    BY <2>7, <2>8 DEF InLoop
  <2> HIDE DEF slot
  <2>10. Starts(i, slot, w, away)
    BY <2>3, <2>5, <2>7, <2>9, StartPushGood
  <2>11. Staffed(i)
    BY <2>7 DEF Staffed
  <2>12. Good(w, away) /\ Follows(i, w) /\ Staffed(w) /\ w.cur >= slot
    BY <2>10, <2>11 DEF Starts
  <2>13. v.now \in ToSet(v.loaded) => w.cur >= 1
    <3>1. w.cur \in Nat /\ slot \in Nat
      BY <2>7, <2>8, <2>12 DEF Good, CursorGood, InLoop
    <3> QED
      BY <1>1, <2>2, <2>8, <2>12, <3>1
  <2> QED
    BY <1>4, <2>5, <2>6, <2>12, <2>13 DEF Inserts
<1>5. CASE Len(v.loaded) >= 2
  <2>a. ~(Len(j.loaded) < 2) /\ Len(j.loaded) >= 3
    BY <1>1, <1>5
  <2>1. w = PushPositions(j, pos)
    BY <2>a DEF AfterFrameInserted
  <2>2. Good(w, away) /\ Adds(v, fi, w) /\ w.ready /\ w.cur >= v.cur /\ KeepsPlace(v, w)
    BY <1>5, <2>1, PushGood
  <2>3. w.now = v.now
    BY <1>1, <2>1 DEF PushPositions, Fields
  <2>4. Follows(w, w)
    BY <2>2, SwapsRefl DEF Swaps
  <2>5. \E i : Good(i, away) /\ Adds(v, fi, i) /\ i.now = v.now /\ Follows(i, w)
    BY <2>2, <2>3, <2>4
  <2>6. Staffed(w) /\ w.tick = v.tick
    BY <1>1, <1>5, <2>2 DEF Staffed, Adds
  <2>7. w.cur \in Nat
    BY <2>2 DEF Good, CursorGood, InLoop
  <2> QED
    BY <1>5, <1>a, <2>2, <2>5, <2>6, <2>7 DEF Inserts
<1>6. Len(v.loaded) = 0 \/ Len(v.loaded) = 1 \/ Len(v.loaded) >= 2
  <2>1. \A n \in Nat : n = 0 \/ n = 1 \/ n >= 2
    OBVIOUS
  <2> QED
    BY <1>1, <2>1
<1> QED
  BY <1>3, <1>4, <1>5, <1>6

LEMMA SwapOneGood ==
  ASSUME NEW v, NEW away, Good(v, away), clock \in Int, NEW fi \in 1..Len(v.img),
         NEW w, w = SwapOne(v, fi, AfterFrameInserted)
  PROVE  /\ Good(w, away) /\ Swaps(v, w)
         /\ w.missed \/ \A s \in w.staged : s.time # v.times[fi]
<1>1. CASE v.missed /\ w = v
  BY <1>1, SwapsRefl
<1>2. CASE w = [v EXCEPT !.missed = TRUE]
  BY <1>2, MissedGood
<1>3. ASSUME NEW s \in v.staged, NEW r, ~v.missed, s.time = v.times[fi], r = Replaced(v, fi, s),
             \/ w = r
             \/ /\ fi \notin ToSet(v.loaded)
                /\ w = AfterFrameInserted(Joined(r, fi), InsertPosition(v.loaded, fi))
      PROVE  Good(w, away) /\ Swaps(v, w) /\ \A t \in w.staged : t.time # v.times[fi]
  <2>1. /\ Good(r, away) /\ Swaps(v, r)
        /\ r.loaded = v.loaded /\ r.img[fi] # None
        /\ \A t \in r.staged : t.time # v.times[fi]
    BY <1>3, ReplacedGood
  <2>2. CASE w = r
    BY <2>1, <2>2
  <2>3. CASE /\ fi \notin ToSet(v.loaded)
             /\ w = AfterFrameInserted(Joined(r, fi), InsertPosition(v.loaded, fi))
    <3>1. fi \in 1..Len(r.img)
      BY <2>1 DEF Swaps, Follows
    <3>2. /\ fi \notin ToSet(r.loaded)
          /\ w = AfterFrameInserted(Joined(r, fi), InsertPosition(r.loaded, fi))
      BY <2>1, <2>3
    <3>3. Inserts(r, fi, w, away)
      BY <2>1, <3>1, <3>2, InsertGood
    <3>4. PICK j : Good(j, away) /\ Adds(r, fi, j) /\ Follows(j, w)
      BY <3>3 DEF Inserts
    <3>5. Follows(v, j)
      BY <1>3, <3>4, AddsFollows
    <3>6. Good(w, away) /\ Follows(v, w)
      BY <3>3, <3>4, <3>5, FollowsTrans DEF Inserts
    <3>7. ASSUME Staffed(v) PROVE Len(v.loaded) >= 2
      BY <1>3, <3>7 DEF Staffed
    <3>8. v.cur \in Nat /\ r.cur \in Nat /\ w.cur \in Nat
      BY <2>1, <3>6 DEF Good, CursorGood, InLoop
    <3>9. Staffed(v) => Staffed(w) /\ w.tick = v.tick /\ w.cur >= v.cur
      BY <2>1, <3>3, <3>7, <3>8 DEF Swaps, Inserts
    <3>10. KeepsPlace(v, r)  \/ Len(v.loaded) < 2
      BY <2>1 DEF Swaps, KeepsPlace
    <3>11. Len(v.loaded) >= 2 /\ v.cur \in 1..Len(v.loaded) =>
             w.cur \in 1..Len(w.loaded) /\ w.loaded[w.cur] = v.loaded[v.cur]
      BY <2>1, <3>3 DEF Swaps, Inserts, KeepsPlace
    <3>12. Swaps(v, w)
      BY <3>6, <3>9, <3>11 DEF Swaps
    <3>13. w.staged \subseteq r.staged
      BY <3>4 DEF Adds, Follows
    <3> QED
      BY <2>1, <3>6, <3>12, <3>13
  <2> QED
    BY <1>3, <2>2, <2>3
<1>4. \A s \in v.staged : ~v.missed /\ s.time = v.times[fi]
        /\ (\/ w = Replaced(v, fi, s)
            \/ /\ fi \notin ToSet(v.loaded)
               /\ w = AfterFrameInserted(Joined(Replaced(v, fi, s), fi), InsertPosition(v.loaded, fi)))
      => Good(w, away) /\ Swaps(v, w) /\ \A t \in w.staged : t.time # v.times[fi]
  BY <1>3
<1> QED
  BY <1>1, <1>2, <1>4, SwapOneCases, ZenonT(60)

LEMMA SwapStagedGood ==
  ASSUME NEW v, NEW away, Good(v, away), clock \in Int, NEW slot, NEW hold,
         NEW w, w = SwapStaged(v, slot, hold, AfterFrameInserted)
  PROVE  Settles(v, hold, w, away)
<1> DEFINE fis == SwapOrder(v, slot, hold)
           base == Dropped(v)
           f == CHOOSE g : SwapFold(g, base, Len(fis), fis)
<1>1. w = f[Len(fis)]
  BY DEF SwapStaged, SwapFold, SwapOrder, Dropped, Gone
<1>2. Len(fis) \in Nat /\ \A k \in 1..Len(fis) : fis[k] \in 1..Len(v.img)
  BY SwapOrderFacts
<1>3. Good(base, away) /\ Swaps(v, base)
  BY DropGood
<1>a. fis = SwapOrder(v, slot, hold) /\ base = Dropped(v)
  OBVIOUS
<1> HIDE DEF fis, base
<1>4. \E g : SwapFold(g, base, Len(fis), fis)
  BY <1>2, SwapFoldExists
<1>5. SwapFold(f, base, Len(fis), fis)
  BY <1>4
<1> HIDE DEF f
<1>6. f[0] = base
  BY <1>2, <1>5 DEF SwapFold
<1>7. \A k \in 1..Len(fis) : f[k] = SwapOne(f[k - 1], fis[k], AfterFrameInserted)
  BY <1>2, <1>5 DEF SwapFold
<1>8. Len(base.img) = Len(v.img)
  BY <1>3 DEF Swaps, Follows
<1>9. ASSUME NEW k \in 1..Len(fis) PROVE FoldStep(f, k, fis, away)
  <2> SUFFICES ASSUME Good(f[k - 1], away), f[k - 1].times = f[0].times,
                      Len(f[k - 1].img) = Len(f[0].img)
               PROVE  /\ Good(f[k], away) /\ Swaps(f[k - 1], f[k])
                      /\ f[k].missed \/ \A s \in f[k].staged : s.time # f[0].times[fis[k]]
    BY DEF FoldStep
  <2>1. f[k] = SwapOne(f[k - 1], fis[k], AfterFrameInserted)
    BY <1>7
  <2>2. fis[k] \in 1..Len(f[k - 1].img)
    BY <1>2, <1>6, <1>8
  <2>3. /\ Good(f[k], away) /\ Swaps(f[k - 1], f[k])
        /\ f[k].missed \/ \A s \in f[k].staged : s.time # f[k - 1].times[fis[k]]
    BY <2>1, <2>2, SwapOneGood
  <2> QED
    BY <2>3
<1> QED
  BY <1>1, <1>6, <1>9, <1>a, SwapStagedFold

LEMMA ShowSlotGood ==
  ASSUME NEW v, NEW away, Good(v, away), clock \in Int, NEW slot, NEW snap,
         NEW w, w = ShowSlot(v, slot, snap)
  PROVE  Good(w, away) /\ Swaps(v, w)
<1>1. CASE slot \notin DOMAIN v.loaded
  <2>1. w = v
    BY <1>1 DEF ShowSlot, Show
  <2> QED
    BY <2>1, SwapsRefl
<1>2. CASE slot \in DOMAIN v.loaded
  <2> DEFINE u == Shown(v, slot, snap)
  <2>1. w = SwapStaged(u, slot, TRUE, AfterFrameInserted)
    BY <1>2 DEF ShowSlot, Show, Shown
  <2>2. Good(u, away) /\ Swaps(v, u)
    BY <1>2, ShownGood
  <2> HIDE DEF u
  <2>3. Settles(u, TRUE, w, away)
    BY <2>1, <2>2, SwapStagedGood
  <2> QED
    BY <2>2, <2>3, SwapsTrans DEF Settles
<1> QED
  BY <1>1, <1>2

LEMMA StartLoopGood ==
  ASSUME NEW v, NEW away, Good(v, away), clock \in Int, NEW slot, InLoop(Len(v.loaded), slot),
         NEW w, w = StartLoop(v, slot)
  PROVE  Starts(v, slot, w, away)
<1> DEFINE u == [v EXCEPT !.cur = slot]
           x == ShowSlot(u, slot, FALSE)
<1>1. Good(u, away)
  BY CursorPut
<1>2. w = [x EXCEPT !.tick = MayTick(x)]
  BY DEF StartLoop, Start, Armed, ShowSlot
<1>3. Good(x, away) /\ Swaps(u, x)
  <2> HIDE DEF u
  <2> QED
    BY <1>1, ShowSlotGood
<1> HIDE DEF x
<1> QED
  BY <1>2, <1>3, StartsFrom

\* _stopLoop ends the timer and swaps everything in.
LEMMA StopLoopGood ==
  ASSUME NEW v, NEW away, Good(v, away), clock \in Int, NEW w, w = StopLoop(v)
  PROVE  /\ Good(w, away) /\ Follows(v, w) /\ Idle(w) /\ (w.tick => MayTick(w))
         /\ Staffed(v) => ~w.tick /\ w.cur >= v.cur
         /\ Len(v.loaded) >= 2 => KeepsPlace(v, w)
<1> DEFINE keep == IF v.prev1 \in DOMAIN v.loaded THEN {LayerAt(v, v.prev1)} \ {None} ELSE {}
           on == (v.shown \ LoadedLayers(v)) \cup keep
           u == [v EXCEPT !.tick = FALSE, !.shown = on]
<1>1. w = SwapStaged(u, v.cur, FALSE, AfterFrameInserted)
  BY DEF StopLoop, SwapStagedFrames
<1>2. v.loaded \in Seq(1..Len(v.img)) /\ v.img \in Seq(LayerIds \cup {None})
  BY DEF Good, FramesGood
<1>3. keep \subseteq LayerIds
  <2> SUFFICES ASSUME v.prev1 \in DOMAIN v.loaded PROVE LayerAt(v, v.prev1) \in LayerIds \cup {None}
    OBVIOUS
  <2>1. v.loaded[v.prev1] \in 1..Len(v.img)
    BY <1>2
  <2> QED
    BY <1>2, <2>1 DEF LayerAt
<1> HIDE DEF keep
<1>4. on \subseteq LayerIds
  BY <1>3 DEF Good, CursorGood
<1> HIDE DEF on
<1>5. DOMAIN v = Fields
  BY DEF Good
<1>6. /\ DOMAIN u = Fields
      /\ u.times = v.times /\ u.img = v.img /\ u.loaded = v.loaded /\ u.cur = v.cur
      /\ u.prev1 = v.prev1 /\ u.now = v.now /\ u.shown = on /\ u.attached = v.attached
      /\ u.staged = v.staged /\ u.ready = v.ready /\ u.run = v.run /\ u.paused = v.paused
      /\ u.tick = FALSE /\ u.missed = v.missed
  BY <1>5 DEF Fields
<1> HIDE DEF u
<1>7. Good(u, away)
  BY <1>4, <1>6 DEF Good, CursorGood
<1>8. Len(v.loaded) \in Nat
  BY <1>2
<1>9. Follows(v, u)
  BY <1>6, <1>8 DEF Follows
<1>10. Good(w, away) /\ Swaps(u, w) /\ Idle(w)
  BY <1>1, <1>7, SwapStagedGood DEF Settles
<1>11. Follows(v, w)
  BY <1>7, <1>9, <1>10, FollowsTrans DEF Swaps
<1>12. w.tick => MayTick(w)
  BY <1>6, <1>10 DEF Swaps, Follows
<1>13. ASSUME Staffed(v) PROVE ~w.tick /\ w.cur >= v.cur
  BY <1>6, <1>10, <1>13 DEF Swaps, Staffed
<1>14. Len(v.loaded) >= 2 => KeepsPlace(v, w)
  BY <1>6, <1>10 DEF Swaps, KeepsPlace
<1> QED
  BY <1>10, <1>11, <1>12, <1>13, <1>14

-----------------------------------------------------------------------------
(* New layers, failed layers, and the renumbering of the arrays.           *)

\* Frames get new layers and lose old ones; the replacements are untouched.
Relayered(img, attached, img2, attached2) ==
  /\ \E out, new : /\ out \subseteq ToSet(img) \cup {None}
                  /\ new \subseteq LayerIds \ ({None} \cup attached)
                  /\ attached2 = (attached \ out) \cup new
                  /\ ToSet(img2) \ {None} = ((ToSet(img) \ {None}) \ out) \cup new
  /\ \A i, j \in 1..Len(img2) : img2[i] = img2[j] /\ img2[i] # None => i = j

LEMMA LayersFrom ==
  ASSUME NEW img, NEW attached, NEW staged, NEW away, LayersGood(img, attached, staged, away),
         NEW img2, NEW attached2, Relayered(img, attached, img2, attached2)
  PROVE  LayersGood(img2, attached2, staged, away)
<1>0. PICK out, new : /\ out \subseteq ToSet(img) \cup {None}
                      /\ new \subseteq LayerIds \ ({None} \cup attached)
                      /\ attached2 = (attached \ out) \cup new
                      /\ ToSet(img2) \ {None} = ((ToSet(img) \ {None}) \ out) \cup new
  BY DEF Relayered
<1> DEFINE held == LayersOf(staged) \cup LayersOf(away)
<1>1. /\ attached = (ToSet(img) \ {None}) \cup held /\ ToSet(img) \cap held = {}
      /\ attached \subseteq LayerIds \ {None} /\ LayersOf(staged) \cap LayersOf(away) = {}
      /\ Batch(staged) /\ Batch(away)
  BY DEF LayersGood
<1>2. None \notin held
  BY <1>1
<1> HIDE DEF held
<1>3. attached2 = (ToSet(img2) \ {None}) \cup held
  BY <1>0, <1>1, <1>2
<1>4. ToSet(img2) \cap held = {}
  <2>1. new \cap held = {}
    BY <1>0, <1>1
  <2>2. (ToSet(img2) \ {None}) \cap held = {}
    BY <1>0, <1>1, <2>1
  <2> QED
    BY <1>2, <2>2
<1>5. attached2 \subseteq LayerIds \ {None}
  BY <1>0, <1>1
<1> QED
  BY <1>0, <1>1, <1>3, <1>4, <1>5 DEF LayersGood, Relayered, held

\* One entry of a sequence is replaced.
LEMMA PutFacts ==
  ASSUME NEW T, NEW s \in Seq(T), NEW i \in 1..Len(s), NEW e \in T, NEW r, r = [s EXCEPT ![i] = e]
  PROVE  /\ r \in Seq(T) /\ Len(r) = Len(s) /\ DOMAIN r = 1..Len(s) /\ r[i] = e
         /\ \A k \in 1..Len(s) : k # i => r[k] = s[k]
  OBVIOUS

\* There is a name to take while a layer is free.
LEMMA FreshFacts ==
  ASSUME FrameAssumption, NEW v, NEW n \in Nat, n >= 1, FreshLayers(v, n)
  PROVE  FreshIn(v) \in Free(v)
<1>1. Free(v) \subseteq Nat
  BY DEF FrameAssumption, Free
<1>2. Free(v) # {}
  <2>1. SUFFICES ASSUME Free(v) = {} PROVE FALSE
    OBVIOUS
  <2>2. Cardinality(Free(v)) = 0
    BY <2>1, FS_EmptySet
  <2> QED
    BY <2>2 DEF FreshLayers
<1> QED
  BY <1>1, <1>2, LeastOf DEF FreshIn

\* A frame gets a layer.
LEMMA RequestGood ==
  ASSUME NEW v, NEW away, Good(v, away), NEW fi \in 1..Len(v.img), v.img[fi] = None,
         NEW x \in Free(v), NEW w, w = Request(v, fi, x)
  PROVE  /\ Good(w, away)
         /\ w.times = v.times /\ w.loaded = v.loaded /\ w.cur = v.cur /\ w.now = v.now
         /\ w.staged = v.staged /\ w.ready = v.ready /\ w.run = v.run /\ w.paused = v.paused
         /\ w.tick = v.tick /\ w.missed = v.missed
         /\ Len(w.img) = Len(v.img) /\ w.img[fi] = x /\ x # None
         /\ \A i \in 1..Len(v.img) : i # fi => w.img[i] = v.img[i]
<1>1. DOMAIN v = Fields
  BY DEF Good
<1>2. /\ DOMAIN w = Fields
      /\ w.times = v.times /\ w.loaded = v.loaded /\ w.cur = v.cur
      /\ w.prev1 = v.prev1 /\ w.now = v.now /\ w.shown = v.shown
      /\ w.staged = v.staged /\ w.ready = v.ready /\ w.run = v.run /\ w.paused = v.paused
      /\ w.tick = v.tick /\ w.missed = v.missed
      /\ w.img = [v.img EXCEPT ![fi] = x] /\ w.attached = v.attached \cup {x}
  BY <1>1 DEF Request, Fields
<1>3. v.img \in Seq(LayerIds \cup {None}) /\ DOMAIN v.img = 1..Len(v.img)
  BY DEF Good, FramesGood
<1>4. x \in LayerIds \ {None} /\ x \notin v.attached
  BY DEF Free
<1>5. /\ w.img \in Seq(LayerIds \cup {None}) /\ Len(w.img) = Len(v.img) /\ DOMAIN w.img = 1..Len(v.img)
      /\ w.img[fi] = x /\ \A i \in 1..Len(v.img) : i # fi => w.img[i] = v.img[i]
  <2>1. x \in LayerIds \cup {None}
    BY <1>4
  <2> QED
    BY <1>2, <1>3, <2>1, PutFacts
<1>6. LayersGood(v.img, v.attached, v.staged, away)
  BY DEF Good
<1>7. x \notin ToSet(v.img)
  BY <1>4, <1>6 DEF LayersGood
<1>8. ToSet(w.img) \ {None} = ((ToSet(v.img) \ {None}) \ {}) \cup {x}
  BY <1>3, <1>4, <1>5 DEF ToSet
<1>9. \A i, j \in 1..Len(w.img) : w.img[i] = w.img[j] /\ w.img[i] # None => i = j
  <2> SUFFICES ASSUME NEW i \in 1..Len(v.img), NEW j \in 1..Len(v.img), w.img[i] = w.img[j], w.img[i] # None
               PROVE  i = j
    BY <1>5
  <2>1. \A k \in 1..Len(v.img) : v.img[k] # x
    BY <1>3, <1>7 DEF ToSet
  <2>2. CASE i = fi \/ j = fi
    BY <1>5, <2>1, <2>2
  <2>3. CASE i # fi /\ j # fi
    BY <1>5, <1>6, <2>3 DEF LayersGood
  <2> QED
    BY <2>2, <2>3
<1> DEFINE out == {}
           new == {x}
<1>10. /\ out \subseteq ToSet(v.img) \cup {None} /\ new \subseteq LayerIds \ ({None} \cup v.attached)
       /\ w.attached = (v.attached \ out) \cup new
       /\ ToSet(w.img) \ {None} = ((ToSet(v.img) \ {None}) \ out) \cup new
  BY <1>2, <1>4, <1>8
<1> HIDE DEF out, new
<1>b. Relayered(v.img, v.attached, w.img, w.attached)
  BY <1>9, <1>10 DEF Relayered
<1>c. LayersGood(w.img, w.attached, v.staged, away)
  BY <1>6, <1>b, LayersFrom
<1>11. LayersGood(w.img, w.attached, w.staged, away)
  BY <1>2, <1>c
<1>12. FramesGood(w.times, w.img, w.loaded)
  <2>1. FramesGood(v.times, v.img, v.loaded)
    BY DEF Good
  <2>2. \A s \in 1..Len(v.loaded) : v.loaded[s] \in 1..Len(v.img) /\ v.img[v.loaded[s]] # None
    BY <2>1 DEF FramesGood
  <2>3. \A s \in 1..Len(v.loaded) : w.img[v.loaded[s]] # None
    BY <1>4, <1>5, <2>2
  <2> QED
    BY <1>2, <1>5, <2>1, <2>3 DEF FramesGood
<1>13. CursorGood(w)
  BY <1>2 DEF Good, CursorGood
<1> QED
  BY <1>2, <1>4, <1>5, <1>11, <1>12, <1>13 DEF Good

\* A layer that failed leaves its frame, which is not in the loop.
Failed(v, fi) == [Detach(v, v.img[fi]) EXCEPT !.img[fi] = None]

LEMMA FailedGood ==
  ASSUME NEW v, NEW away, Good(v, away), NEW fi \in 1..Len(v.img), fi \notin ToSet(v.loaded),
         NEW w, w = Failed(v, fi)
  PROVE  /\ Good(w, away)
         /\ w.times = v.times /\ w.loaded = v.loaded /\ w.cur = v.cur /\ w.now = v.now
         /\ w.staged = v.staged /\ w.ready = v.ready /\ w.run = v.run /\ w.paused = v.paused
         /\ w.tick = v.tick /\ w.missed = v.missed
         /\ Len(w.img) = Len(v.img) /\ w.img[fi] = None
         /\ \A i \in 1..Len(v.img) : i # fi => w.img[i] = v.img[i]
<1>1. DOMAIN v = Fields
  BY DEF Good
<1>2. /\ DOMAIN w = Fields
      /\ w.times = v.times /\ w.loaded = v.loaded /\ w.cur = v.cur
      /\ w.prev1 = v.prev1 /\ w.now = v.now /\ w.shown = v.shown \ {v.img[fi]}
      /\ w.staged = v.staged /\ w.ready = v.ready /\ w.run = v.run /\ w.paused = v.paused
      /\ w.tick = v.tick /\ w.missed = v.missed
      /\ w.img = [v.img EXCEPT ![fi] = None] /\ w.attached = v.attached \ {v.img[fi]}
  BY <1>1 DEF Failed, Detach, Fields
<1>3. v.img \in Seq(LayerIds \cup {None}) /\ DOMAIN v.img = 1..Len(v.img)
  BY DEF Good, FramesGood
<1>5. /\ w.img \in Seq(LayerIds \cup {None}) /\ Len(w.img) = Len(v.img) /\ DOMAIN w.img = 1..Len(v.img)
      /\ w.img[fi] = None /\ \A i \in 1..Len(v.img) : i # fi => w.img[i] = v.img[i]
  <2>1. None \in LayerIds \cup {None}
    OBVIOUS
  <2> QED
    BY <1>2, <1>3, <2>1, PutFacts
<1>6. LayersGood(v.img, v.attached, v.staged, away)
  BY DEF Good
<1>8. ToSet(w.img) \ {None} = ((ToSet(v.img) \ {None}) \ {v.img[fi]}) \cup {}
  <2>1. \A i \in 1..Len(v.img) : v.img[i] = v.img[fi] /\ v.img[i] # None => i = fi
    BY <1>6 DEF LayersGood
  <2>2. \A y \in ToSet(w.img) \ {None} : y \in ToSet(v.img) /\ y # v.img[fi]
    BY <1>3, <1>5, <2>1 DEF ToSet
  <2>3. \A y \in ToSet(v.img) \ {None} : y # v.img[fi] => y \in ToSet(w.img)
    BY <1>3, <1>5 DEF ToSet
  <2> QED
    BY <2>2, <2>3
<1>9. \A i, j \in 1..Len(w.img) : w.img[i] = w.img[j] /\ w.img[i] # None => i = j
  BY <1>5, <1>6 DEF LayersGood
<1>a. v.img[fi] \in ToSet(v.img)
  BY <1>3 DEF ToSet
<1> DEFINE out == {v.img[fi]}
           new == {}
<1>10. /\ out \subseteq ToSet(v.img) \cup {None} /\ new \subseteq LayerIds \ ({None} \cup v.attached)
       /\ w.attached = (v.attached \ out) \cup new
       /\ ToSet(w.img) \ {None} = ((ToSet(v.img) \ {None}) \ out) \cup new
  BY <1>2, <1>8, <1>a
<1> HIDE DEF out, new
<1>b. Relayered(v.img, v.attached, w.img, w.attached)
  BY <1>9, <1>10 DEF Relayered
<1>c. LayersGood(w.img, w.attached, v.staged, away)
  BY <1>6, <1>b, LayersFrom
<1>11. LayersGood(w.img, w.attached, w.staged, away)
  BY <1>2, <1>c
<1>12. FramesGood(w.times, w.img, w.loaded)
  <2>1. FramesGood(v.times, v.img, v.loaded)
    BY DEF Good
  <2>2. \A s \in 1..Len(v.loaded) : v.loaded[s] \in 1..Len(v.img) /\ v.loaded[s] # fi
    BY <2>1 DEF FramesGood, ToSet
  <2>3. \A s \in 1..Len(v.loaded) : w.img[v.loaded[s]] # None
    BY <1>5, <2>1, <2>2 DEF FramesGood
  <2> QED
    BY <1>2, <1>5, <2>1, <2>3 DEF FramesGood
<1>13. CursorGood(w)
  BY <1>2 DEF Good, CursorGood
<1> QED
  BY <1>2, <1>5, <1>11, <1>12, <1>13 DEF Good

\* What filtering leaves when only a prefix goes.
LEMMA KeptSuffix ==
  ASSUME NEW seq \in Seq(Int), NEW S, NEW m \in Nat, m <= Len(seq),
         \A k \in 1..Len(seq) : seq[k] \in S <=> k > m
  PROVE  Len(Kept(seq, S)) = Len(seq) - m
<1> DEFINE I == {k \in DOMAIN seq : seq[k] \in S}
           n == Len(seq)
<1>1. n \in Nat /\ DOMAIN seq = 1..n
  OBVIOUS
<1>2. I = (m + 1)..n
  BY <1>1
<1>3. IsFiniteSet((m + 1)..n) /\ Cardinality((m + 1)..n) = n - m
  <2>1. m + 1 \in Int /\ n \in Int
    BY <1>1
  <2>2. /\ IsFiniteSet((m + 1)..n)
        /\ Cardinality((m + 1)..n) = IF m + 1 > n THEN 0 ELSE n - (m + 1) + 1
    BY <2>1, FS_Interval
  <2> QED
    BY <1>1, <2>2
<1>4. I \subseteq Nat
  BY <1>1
<1>5. Ascending(I) \in [1..(n - m) -> I]
  BY <1>2, <1>3, <1>4, AscendingFacts
<1> HIDE DEF I
<1>6. Kept(seq, S) = [k \in 1..(n - m) |-> seq[Ascending(I)[k]]]
  BY <1>5 DEF Kept, I
<1>7. n - m \in Nat
  BY <1>1
<1> QED
  BY <1>6, <1>7

\* A loop in order plays at most every frame once.
LEMMA SortedLen ==
  ASSUME NEW n \in Nat, NEW s \in Seq(1..n), Sorted(s)
  PROVE  Len(s) <= n /\ \A k \in 1..Len(s) : k <= s[k]
<1> DEFINE S == {k \in 0..Len(s) : k = 0 \/ k <= s[k]}
<1>1. Len(s) \in Nat /\ DOMAIN s = 1..Len(s) /\ \A k \in 1..Len(s) : s[k] \in 1..n
  OBVIOUS
<1>2. 0 \in S
  BY <1>1
<1>3. ASSUME NEW k \in 1..Len(s), k - 1 \in S PROVE k \in S
  <2>1. CASE k = 1
    BY <1>1, <2>1
  <2>2. CASE k > 1
    <3>1. k - 1 \in 1..Len(s) /\ k - 1 <= s[k - 1]
      BY <1>1, <1>3, <2>2
    <3>2. s[k - 1] < s[k]
      BY <1>1, <3>1, SMTT(30) DEF Sorted
    <3>3. s[k - 1] \in Int /\ s[k] \in Int
      BY <1>1, <3>1
    <3> QED
      BY <3>1, <3>2, <3>3
  <2> QED
    BY <2>1, <2>2
<1> HIDE DEF S
<1>4. \A k \in 0..Len(s) : k \in S
  BY <1>1, <1>2, <1>3, UpTo
<1>5. \A k \in 1..Len(s) : k <= s[k]
  BY <1>1, <1>4 DEF S
<1>6. Len(s) <= n
  <2>1. CASE Len(s) = 0
    BY <2>1
  <2>2. CASE Len(s) > 0
    <3>1. Len(s) \in 1..Len(s)
      BY <1>1, <2>2
    <3> QED
      BY <1>1, <1>5, <3>1
  <2> QED
    BY <1>1, <2>1, <2>2
<1> QED
  BY <1>5, <1>6

\* A sequence over a smaller set.
LEMMA SeqOver ==
  ASSUME NEW s \in Seq(Int), NEW T, \A x \in ToSet(s) : x \in T
  PROVE  s \in Seq(T)
<1>1. Len(s) \in Nat /\ DOMAIN s = 1..Len(s) /\ s = [k \in 1..Len(s) |-> s[k]]
  OBVIOUS
<1>2. \A k \in 1..Len(s) : s[k] \in T
  BY <1>1 DEF ToSet
<1> QED
  BY <1>1, <1>2, IsASeq

\* The oldest entry goes, a new one is the last.
LEMMA SlideFacts ==
  ASSUME NEW T, NEW s \in Seq(T), NEW n, n = Len(s), n >= 1, NEW e \in T, NEW r, r = Append(Tail(s), e)
  PROVE  /\ r \in Seq(T) /\ Len(r) = n /\ r[n] = e
         /\ \A i \in 1..(n - 1) : r[i] = s[i + 1]
<1>1. n \in Nat /\ s # <<>>
  OBVIOUS
<1>2. Tail(s) \in Seq(T) /\ Len(Tail(s)) = n - 1 /\ \A i \in 1..(n - 1) : Tail(s)[i] = s[i + 1]
  BY <1>1, HeadTailProperties
<1> QED
  BY <1>1, <1>2, AppendProperties

\* The slots that follow the frames one position down.
Down(loaded) == [k \in DOMAIN loaded |-> loaded[k] - 1]

SlidesDown(loaded, L, slots) ==
  /\ slots \in Seq(1..L) /\ Sorted(slots)
  /\ Len(slots) = IF loaded # <<>> /\ loaded[1] = 1 THEN Len(loaded) - 1 ELSE Len(loaded)
  /\ \A i \in ToSet(slots) : i \in 1..(L - 1) /\ i + 1 \in ToSet(loaded)

LEMMA SlotsDown ==
  ASSUME NEW n \in Nat, NEW L \in 1..n, NEW loaded \in Seq(1..L), Sorted(loaded),
         NEW slots, slots = Kept(Down(loaded), 1..n)
  PROVE  SlidesDown(loaded, L, slots)
<1> DEFINE d == Down(loaded)
<1>0. slots = Kept(d, 1..n)
  OBVIOUS
<1>1. Len(loaded) \in Nat /\ DOMAIN loaded = 1..Len(loaded) /\ \A k \in 1..Len(loaded) : loaded[k] \in 1..L
  OBVIOUS
<1>2. /\ d \in Seq(Int) /\ Len(d) = Len(loaded) /\ DOMAIN d = 1..Len(loaded)
      /\ \A k \in 1..Len(loaded) : d[k] = loaded[k] - 1
  BY <1>1 DEF Down
<1> HIDE DEF d
<1>3. Sorted(d)
  BY <1>1, <1>2 DEF Sorted
<1>5. slots \in Seq(Int) /\ ToSet(slots) = ToSet(d) \cap (1..n) /\ Sorted(slots)
  BY <1>2, <1>3, <1>0, KeptFacts
<1>6. ASSUME NEW i \in ToSet(slots) PROVE i \in 1..(L - 1) /\ i + 1 \in ToSet(loaded)
  <2>1. i \in ToSet(d) /\ i \in 1..n
    BY <1>5
  <2>2. PICK k \in 1..Len(loaded) : i = loaded[k] - 1
    BY <1>2, <2>1 DEF ToSet
  <2>3. i + 1 = loaded[k] /\ loaded[k] \in ToSet(loaded)
    BY <1>1, <2>2 DEF ToSet
  <2>4. i \in 1..(L - 1)
    BY <1>1, <2>1, <2>2
  <2> QED
    BY <2>3, <2>4
<1>7. slots \in Seq(1..L)
  <2>1. \A x \in ToSet(slots) : x \in 1..L
    BY <1>6
  <2>2. slots \in Seq(Int)
    BY <1>5
  <2> QED
    BY <2>1, <2>2, SeqOver, SMTT(30)
<1>8. CASE loaded # <<>> /\ loaded[1] = 1
  <2>1. 1 \in 1..Len(loaded)
    BY <1>1, <1>8
  <2>2. ASSUME NEW k \in 1..Len(d) PROVE d[k] \in 1..n <=> k > 1
    <3>1. CASE k = 1
      BY <1>2, <1>8, <3>1
    <3>2. CASE k > 1
      <4>1. loaded[1] < loaded[k]
        BY <1>1, <1>2, <2>1, <3>2 DEF Sorted
      <4>2. loaded[k] \in 1..L
        BY <1>1, <1>2
      <4> QED
        BY <1>2, <1>8, <3>2, <4>1, <4>2
    <3> QED
      BY <1>1, <1>2, <3>1, <3>2
  <2>3. 1 \in Nat /\ 1 <= Len(d)
    BY <1>1, <1>2, <2>1
  <2>a. d \in Seq(Int)
    BY <1>2
  <2>4. Len(slots) = Len(d) - 1
    BY <2>a, <2>2, <2>3, <1>0, KeptSuffix
  <2> QED
    BY <1>2, <1>5, <1>6, <1>7, <1>8, <2>4 DEF SlidesDown
<1>9. CASE ~(loaded # <<>> /\ loaded[1] = 1)
  <2>2. ASSUME NEW k \in 1..Len(d) PROVE d[k] \in 1..n <=> k > 0
    <3>1. loaded[k] \in 1..L /\ loaded[1] \in 1..L /\ loaded # <<>>
      BY <1>1, <1>2
    <3>2. loaded[1] # 1
      BY <1>9, <3>1
    <3>a. 1 \in DOMAIN loaded /\ k \in DOMAIN loaded /\ (k = 1 \/ 1 < k)
      BY <1>1, <1>2
    <3>3. k = 1 \/ loaded[1] < loaded[k]
      BY <3>a DEF Sorted
    <3>4. loaded[k] > 1
      BY <3>1, <3>2, <3>3
    <3> QED
      BY <1>2, <3>1, <3>4
  <2>3. 0 \in Nat /\ 0 <= Len(d)
    BY <1>1, <1>2
  <2>a. d \in Seq(Int)
    BY <1>2
  <2>4. Len(slots) = Len(d) - 0
    BY <2>a, <2>2, <2>3, <1>0, KeptSuffix
  <2>5. \A k \in Nat : k - 0 = k
    OBVIOUS
  <2>6. Len(slots) = Len(loaded)
    BY <1>1, <1>2, <2>4, <2>5
  <2> QED
    BY <1>5, <1>6, <1>7, <1>9, <2>6 DEF SlidesDown
<1> QED
  BY <1>8, <1>9 DEF SlidesDown

\* _shiftInFrame before it shows the cursor's frame.
Shifted(v, time, layer) ==
  LET dropped == v.loaded # <<>> /\ v.loaded[1] = 1
      slots == Kept([k \in DOMAIN v.loaded |-> v.loaded[k] - 1], 1..Frames)
      down(slot) == IF dropped /\ slot > 1 THEN slot - 1 ELSE slot
      times == Append(Tail(v.times), time)
  IN  [Detach(v, v.img[1]) EXCEPT
        !.times = times,
        !.img = Append(Tail(@), layer),
        !.loaded = slots,
        !.cur = IF dropped THEN Max({1, @ - 1}) ELSE @,
        !.prev1 = down(@),
        !.now = NearestIndex(times, clock),
        !.attached = @ \cup {layer},
        !.shown = IF slots = <<>> THEN @ \cup {layer} ELSE @]

\* What shifting a frame in does to a loop with nothing to swap in.
Slid(v, w, time, x) ==
  /\ w.run = v.run /\ w.paused = v.paused /\ w.tick = v.tick /\ (v.ready => w.ready)
  /\ w.times = Append(Tail(v.times), time) /\ Len(w.img) = Len(v.img)
  /\ w.attached \subseteq v.attached \cup {x} /\ w.staged \subseteq v.staged /\ Idle(w)
  /\ w.img[Len(v.img)] = x
  /\ \A i \in 1..(Len(v.img) - 1) : w.img[i] = v.img[i + 1]
  /\ \A i \in ToSet(w.loaded) : i \in 1..(Len(v.img) - 1) /\ i + 1 \in ToSet(v.loaded)
  /\ v.cur >= 1 => w.cur >= 1

LEMMA ShiftedGood ==
  ASSUME FrameAssumption, NEW v, NEW away, Good(v, away), Idle(v), clock \in Int,
         NEW time \in Int, time > v.times[Len(v.times)], NEW x \in Free(v),
         NEW w, w = Shifted(v, time, x)
  PROVE  Good(w, away) /\ Slid(v, w, time, x)
<1> DEFINE L == Len(v.img)
           dropped == v.loaded # <<>> /\ v.loaded[1] = 1
           down == Down(v.loaded)
           slots == Kept(down, 1..Frames)
           times == Append(Tail(v.times), time)
           img == Append(Tail(v.img), x)
           cur == IF dropped THEN Max({1, v.cur - 1}) ELSE v.cur
           prev1 == IF dropped /\ v.prev1 > 1 THEN v.prev1 - 1 ELSE v.prev1
           on == IF slots = <<>> THEN (v.shown \ {v.img[1]}) \cup {x} ELSE v.shown \ {v.img[1]}
<1>1. DOMAIN v = Fields
  BY DEF Good
<1>2. /\ DOMAIN w = Fields
      /\ w.times = times /\ w.img = img /\ w.loaded = slots /\ w.cur = cur /\ w.prev1 = prev1
      /\ w.now = NearestIndex(times, clock) /\ w.shown = on
      /\ w.attached = (v.attached \ {v.img[1]}) \cup {x}
      /\ w.staged = v.staged /\ w.ready = v.ready /\ w.run = v.run /\ w.paused = v.paused
      /\ w.tick = v.tick /\ w.missed = v.missed
  BY <1>1 DEF Shifted, Detach, Fields, Down
<1>3. /\ v.times \in Seq(Int) /\ Sorted(v.times) /\ Len(v.times) = L /\ L \in 1..Frames
      /\ v.img \in Seq(LayerIds \cup {None})
      /\ v.loaded \in Seq(1..L) /\ Sorted(v.loaded)
      /\ \A s \in 1..Len(v.loaded) : v.img[v.loaded[s]] # None
  BY DEF Good, FramesGood
<1>4. Frames \in Nat
  BY DEF FrameAssumption, Frames
<1>c. slots = Kept(Down(v.loaded), 1..Frames)
  OBVIOUS
<1> HIDE DEF slots, down, L
<1>d. SlidesDown(v.loaded, L, slots)
  BY <1>3, <1>4, <1>c, SlotsDown
<1>5. /\ slots \in Seq(1..L) /\ Sorted(slots)
      /\ Len(slots) = IF dropped THEN Len(v.loaded) - 1 ELSE Len(v.loaded)
      /\ \A i \in ToSet(slots) : i \in 1..(L - 1) /\ i + 1 \in ToSet(v.loaded)
  BY <1>d DEF SlidesDown
<1> HIDE DEF dropped
<1>6. /\ times \in Seq(Int) /\ Len(times) = L /\ times[L] = time
      /\ \A i \in 1..(L - 1) : times[i] = v.times[i + 1]
  BY <1>3, SlideFacts
<1>7. x \in LayerIds \ {None} /\ x \notin v.attached
  BY DEF Free
<1>8. /\ img \in Seq(LayerIds \cup {None}) /\ Len(img) = L /\ img[L] = x
      /\ \A i \in 1..(L - 1) : img[i] = v.img[i + 1]
  <2>1. x \in LayerIds \cup {None} /\ L = Len(v.img) /\ L >= 1
    BY <1>3, <1>7 DEF L
  <2> QED
    BY <1>3, <2>1, SlideFacts
<1> HIDE DEF times, img
<1>9. Sorted(times)
  <2> SUFFICES ASSUME NEW a \in 1..L, NEW b \in 1..L, a < b PROVE times[a] < times[b]
    BY <1>6 DEF Sorted
  <2>0. L \in Nat /\ a \in Int /\ b \in Int
    BY <1>3
  <2>1. a \in 1..(L - 1) /\ a + 1 \in 1..L /\ times[a] = v.times[a + 1]
    <3>1. a \in 1..(L - 1) /\ a + 1 \in 1..L
      BY ONLY <2>0, a \in 1..L, b \in 1..L, a < b
    <3> QED
      BY ONLY <1>6, <3>1
  <2>2. /\ DOMAIN v.times = 1..L /\ \A i \in 1..L : v.times[i] \in Int
        /\ \A i, j \in 1..L : i < j => v.times[i] < v.times[j]
    BY <1>3 DEF Sorted
  <2>3. CASE b = L
    <3>1. L \in 1..L /\ (a + 1 = L \/ a + 1 < L)
      BY <1>3, <2>1, <2>3
    <3>2. v.times[a + 1] <= v.times[L]
      BY <2>1, <2>2, <3>1
    <3>3. v.times[L] < time
      BY <1>3, <2>2, <3>1
    <3> QED
      BY <1>6, <2>1, <2>2, <2>3, <3>1, <3>2, <3>3
  <2>4. CASE b # L
    <3>1. b \in 1..(L - 1) /\ b + 1 \in 1..L /\ times[b] = v.times[b + 1] /\ a + 1 < b + 1
      <4>1. b \in 1..(L - 1) /\ b + 1 \in 1..L /\ a + 1 < b + 1
        BY ONLY <2>0, <2>4, a \in 1..L, b \in 1..L, a < b
      <4> QED
        BY ONLY <1>6, <4>1
    <3> QED
      BY <2>1, <2>2, <3>1
  <2> QED
    BY <2>3, <2>4
<1>10. \A s \in 1..Len(slots) : img[slots[s]] # None
  <2> TAKE s \in 1..Len(slots)
  <2>1. slots[s] \in ToSet(slots)
    BY <1>5 DEF ToSet
  <2>2. slots[s] \in 1..(L - 1) /\ slots[s] + 1 \in ToSet(v.loaded)
    BY <1>5, <2>1
  <2>a. PICK k \in DOMAIN v.loaded : slots[s] + 1 = v.loaded[k]
    BY <2>2 DEF ToSet
  <2>b. k \in 1..Len(v.loaded)
    BY <1>3
  <2>3. v.img[slots[s] + 1] # None
    BY <1>3, <2>a, <2>b
  <2> QED
    BY <1>8, <2>2, <2>3
<1>11. FramesGood(w.times, w.img, w.loaded)
  BY <1>2, <1>3, <1>5, <1>6, <1>8, <1>9, <1>10 DEF FramesGood
<1>12. LayersGood(v.img, v.attached, v.staged, away)
  BY DEF Good
<1>a. /\ DOMAIN v.img = 1..L /\ L \in Nat /\ L >= 1 /\ DOMAIN img = 1..L
      /\ \A i \in 1..L : i = 1 \/ i - 1 \in 1..(L - 1)
      /\ \A i \in 1..L : i = L \/ i \in 1..(L - 1)
      /\ \A i \in 1..(L - 1) : i + 1 \in 1..L /\ i + 1 # 1 /\ i \in 1..L
      /\ \A i \in 1..L : (i - 1) + 1 = i
  BY <1>3, <1>8 DEF L
<1>b. \A i, j \in 1..L : v.img[i] = v.img[j] /\ v.img[i] # None => i = j
  BY <1>12 DEF LayersGood, L
<1>13. ToSet(img) \ {None} = ((ToSet(v.img) \ {None}) \ {v.img[1]}) \cup {x}
  <2>1. \A y \in ToSet(img) \ {None} : y = x \/ (y \in ToSet(v.img) /\ y # v.img[1])
    <3>0. DOMAIN img = 1..L
      BY <1>a
    <3>a. \A y \in ToSet(img) : \E i \in 1..L : y = img[i]
      BY ONLY <3>0, Zenon DEF ToSet
    <3> SUFFICES ASSUME NEW i \in 1..L, img[i] # None, img[i] # x
                 PROVE  img[i] \in ToSet(v.img) /\ img[i] # v.img[1]
      BY <3>a, Zenon
    <3>1. i \in 1..(L - 1) /\ img[i] = v.img[i + 1]
      BY <1>8, <1>a
    <3>2. i + 1 \in 1..L /\ i + 1 # 1 /\ 1 \in 1..L
      BY <1>a, <3>1
    <3> QED
      BY <1>a, <1>b, <3>1, <3>2 DEF ToSet
  <2>2. \A y \in ToSet(v.img) \ {None} : y # v.img[1] => y \in ToSet(img)
    <3> SUFFICES ASSUME NEW i \in 1..L, v.img[i] # v.img[1] PROVE v.img[i] \in ToSet(img)
      BY <1>a DEF ToSet
    <3>1. i - 1 \in 1..(L - 1) /\ img[i - 1] = v.img[i] /\ i - 1 \in 1..L
      BY <1>8, <1>a
    <3> QED
      BY <1>a, <3>1 DEF ToSet
  <2>3. x \in ToSet(img)
    <3>1. L \in 1..L
      BY <1>a
    <3> QED
      BY <1>8, <1>a, <3>1 DEF ToSet
  <2> QED
    BY <1>7, <2>1, <2>2, <2>3
<1>14. \A i, j \in 1..Len(w.img) : w.img[i] = w.img[j] /\ w.img[i] # None => i = j
  <2> SUFFICES ASSUME NEW i \in 1..L, NEW j \in 1..L, img[i] = img[j], img[i] # None
               PROVE  i = j
    BY <1>2, <1>8
  <2>1. \A k \in 1..L : v.img[k] # x
    <3>1. x \notin ToSet(v.img)
      BY <1>7, <1>12 DEF LayersGood
    <3> QED
      BY <1>a, <3>1 DEF ToSet
  <2>2. CASE i = L /\ j = L
    BY <2>2
  <2>a. \A k \in 1..L : k # L => img[k] # x
    <3> SUFFICES ASSUME NEW k \in 1..L, k # L PROVE img[k] # x
      OBVIOUS
    <3>1. k \in 1..(L - 1) /\ k + 1 \in 1..L
      BY <1>a
    <3> QED
      BY <1>8, <2>1, <3>1
  <2>3. CASE i = L /\ j # L
    BY <1>8, <2>3, <2>a
  <2>4. CASE i # L /\ j = L
    BY <1>8, <2>4, <2>a
  <2>5. CASE i # L /\ j # L
    <3>a. i \in 1..(L - 1) /\ j \in 1..(L - 1)
      BY <1>a, <2>5
    <3>1. i + 1 \in 1..L /\ j + 1 \in 1..L /\ v.img[i + 1] = v.img[j + 1] /\ v.img[i + 1] # None
      BY <1>8, <1>a, <3>a
    <3>2. i + 1 = j + 1
      BY <1>b, <3>1
    <3> QED
      BY <1>a, <3>2
  <2> QED
    BY <2>2, <2>3, <2>4, <2>5
<1>15. Relayered(v.img, v.attached, w.img, w.attached)
  <2> DEFINE out == {v.img[1]}
             new == {x}
  <2>1. v.img[1] \in ToSet(v.img)
    <3>1. 1 \in 1..L
      BY <1>a
    <3> QED
      BY <1>a, <3>1 DEF ToSet
  <2>2. /\ out \subseteq ToSet(v.img) \cup {None} /\ new \subseteq LayerIds \ ({None} \cup v.attached)
        /\ w.attached = (v.attached \ out) \cup new
        /\ ToSet(w.img) \ {None} = ((ToSet(v.img) \ {None}) \ out) \cup new
    BY <1>2, <1>7, <1>13, <2>1
  <2> HIDE DEF out, new
  <2> QED
    BY <1>14, <2>2 DEF Relayered
<1>16. LayersGood(w.img, w.attached, w.staged, away)
  <2>1. LayersGood(w.img, w.attached, v.staged, away)
    BY <1>12, <1>15, LayersFrom
  <2> QED
    BY <1>2, <2>1
<1>17. /\ Len(v.loaded) \in Nat /\ v.cur \in Nat /\ v.prev1 \in Nat
       /\ (v.cur <= 1 \/ v.cur <= Len(v.loaded)) /\ (v.prev1 <= 1 \/ v.prev1 <= Len(v.loaded))
  BY DEF Good, FramesGood, CursorGood, InLoop
<1>18. InLoop(Len(slots), prev1) /\ (dropped => Len(v.loaded) >= 1)
  <2>1. dropped => Len(v.loaded) >= 1
    BY <1>3, <1>17 DEF dropped
  <2>2. CASE dropped
    BY <1>5, <1>17, <2>1, <2>2 DEF InLoop
  <2>3. CASE ~dropped
    BY <1>5, <1>17, <2>3 DEF InLoop
  <2> QED
    BY <2>1, <2>2, <2>3
<1>19. InLoop(Len(slots), cur) /\ (v.cur >= 1 => cur >= 1)
  <2>1. CASE dropped
    <3>1. cur = IF v.cur - 1 <= 1 THEN 1 ELSE v.cur - 1
      BY <1>17, <2>1, AtLeastOne
    <3> HIDE DEF cur
    <3> QED
      BY <1>5, <1>17, <1>18, <2>1, <3>1 DEF InLoop
  <2>2. CASE ~dropped
    BY <1>5, <1>17, <2>2 DEF InLoop
  <2> QED
    BY <2>1, <2>2
<1> HIDE DEF cur, prev1
<1>20. on \subseteq LayerIds
  BY <1>7 DEF Good, CursorGood
<1> HIDE DEF on
<1>21. NearestIndex(times, clock) \in 1..L
  <2>1. times # <<>>
    BY <1>6, <1>a
  <2> QED
    BY <1>6, <2>1, NearestFacts
<1>22. Len(slots) >= 2 => v.ready
  <2>1. Len(slots) >= 2 => Len(v.loaded) >= 2
    BY <1>5, <1>17
  <2> QED
    BY <2>1 DEF Good, CursorGood
<1>23. CursorGood(w)
  BY <1>2, <1>6, <1>18, <1>19, <1>20, <1>21, <1>22 DEF Good, CursorGood
<1>24. Good(w, away)
  BY <1>2, <1>11, <1>16, <1>23 DEF Good
<1>25. Idle(w)
  BY <1>2 DEF Idle
<1>26. w.img[Len(v.img)] = x /\ \A i \in 1..(Len(v.img) - 1) : w.img[i] = v.img[i + 1]
  BY <1>2, <1>8 DEF L
<1>27. \A i \in ToSet(w.loaded) : i \in 1..(Len(v.img) - 1) /\ i + 1 \in ToSet(v.loaded)
  BY <1>2, <1>5 DEF L
<1>28. w.times = Append(Tail(v.times), time) /\ Len(w.img) = Len(v.img)
  BY <1>2, <1>8 DEF times, L
<1>29. w.attached \subseteq v.attached \cup {x} /\ w.staged \subseteq v.staged /\ (v.cur >= 1 => w.cur >= 1)
  BY <1>2, <1>19
<1> QED
  BY <1>2, <1>24, <1>25, <1>26, <1>27, <1>28, <1>29 DEF Slid

LEMMA ShiftInGood ==
  ASSUME FrameAssumption, NEW v, NEW away, Good(v, away), Idle(v), clock \in Int,
         NEW time \in Int, time > v.times[Len(v.times)], NEW x \in Free(v),
         NEW w, w = ShiftIn(v, time, x)
  PROVE  Good(w, away) /\ Slid(v, w, time, x)
<1> DEFINE u == Shifted(v, time, x)
<1>1. w = u \/ w = ShowSlot(u, u.cur, TRUE)
  BY DEF ShiftIn, Shifted
<1>2. Good(u, away) /\ Slid(v, u, time, x)
  BY ShiftedGood
<1> HIDE DEF u
<1>3. CASE w = u
  BY <1>2, <1>3
<1>4. CASE w = ShowSlot(u, u.cur, TRUE)
  <2>1. Good(w, away) /\ Swaps(u, w)
    BY <1>2, <1>4, ShowSlotGood
  <2>2. Idle(u) /\ Staffed(u)
    BY <1>2 DEF Slid, Idle, Staffed
  <2>3. Follows(u, w) /\ w.tick = u.tick /\ w.cur >= u.cur
    BY <2>1, <2>2 DEF Swaps
  <2>4. /\ w.times = u.times /\ w.img = u.img /\ w.loaded = u.loaded
        /\ w.run = u.run /\ w.paused = u.paused /\ (u.ready => w.ready)
        /\ w.attached \subseteq u.attached /\ w.staged \subseteq u.staged
    BY <2>2, <2>3 DEF Follows
  <2>5. Idle(w)
    BY <2>2, <2>3 DEF Follows, Idle
  <2>6. u.cur >= 1 => w.cur >= 1
    <3>1. u.cur \in Nat /\ w.cur \in Nat
      BY <1>2, <2>1 DEF Good, CursorGood, InLoop
    <3> QED
      BY <2>3, <3>1
  <2>7. Slid(v, w, time, x)
    BY <1>2, <2>3, <2>4, <2>5, <2>6 DEF Slid
  <2> QED
    BY <2>1, <2>7
<1> QED
  BY <1>1, <1>3, <1>4

\* Free names, after layers left the map and one came.
LEMMA FreeAfter ==
  ASSUME FrameAssumption, NEW v, NEW w, NEW n \in Nat
  PROVE  /\ w.attached \subseteq v.attached /\ FreshLayers(v, n) => FreshLayers(w, n)
         /\ \A x \in Free(v) :
              w.attached \subseteq v.attached \cup {x} /\ FreshLayers(v, n + 1) => FreshLayers(w, n)
<1>1. IsFiniteSet(LayerIds)
  BY DEF FrameAssumption
<1>2. IsFiniteSet(Free(v)) /\ IsFiniteSet(Free(w))
  <2>1. Free(v) \in SUBSET LayerIds /\ Free(w) \in SUBSET LayerIds
    BY DEF Free
  <2> QED
    BY <1>1, <2>1, FS_Subset
<1>3. Cardinality(Free(v)) \in Nat /\ Cardinality(Free(w)) \in Nat
  BY <1>2, FS_CardinalityType
<1>4. ASSUME w.attached \subseteq v.attached, FreshLayers(v, n) PROVE FreshLayers(w, n)
  <2>1. Free(v) \in SUBSET Free(w)
    BY <1>4 DEF Free
  <2>2. Cardinality(Free(v)) <= Cardinality(Free(w))
    BY <1>2, <2>1, FS_Subset
  <2> QED
    BY <1>3, <1>4, <2>2 DEF FreshLayers
<1>5. ASSUME NEW x \in Free(v), w.attached \subseteq v.attached \cup {x}, FreshLayers(v, n + 1)
      PROVE  FreshLayers(w, n)
  <2> DEFINE F == Free(v) \ {x}
  <2>1. IsFiniteSet(F) /\ Cardinality(F) = Cardinality(Free(v)) - 1
    BY <1>2, FS_RemoveElement
  <2>2. F \in SUBSET Free(w)
    BY <1>5 DEF Free
  <2>3. Cardinality(F) <= Cardinality(Free(w))
    BY <1>2, <2>2, FS_Subset
  <2> HIDE DEF F
  <2> QED
    BY <1>3, <1>5, <2>1, <2>3 DEF FreshLayers
<1> QED
  BY <1>4, <1>5

\* The shifts one after the other, as a function on 0..n.
ShiftFold(f, base, n, news) ==
  f = [k \in 0..n |-> IF k = 0 THEN base ELSE ShiftIn(f[k - 1], news[k], FreshIn(f[k - 1]))]

LEMMA ShiftFoldExists ==
  ASSUME NEW base, NEW n \in Nat, NEW news
  PROVE  \E f : ShiftFold(f, base, n, news)
<1> DEFINE Fold(f, m) ==
             f = [k \in 0..m |-> IF k = 0 THEN base ELSE ShiftIn(f[k - 1], news[k], FreshIn(f[k - 1]))]
           S == {m \in 0..n : \E f : Fold(f, m)}
<1>1. 0 \in S
  <2>1. Fold([k \in 0..0 |-> base], 0)
    OBVIOUS
  <2>2. 0 \in 0..n
    OBVIOUS
  <2> HIDE DEF Fold
  <2> QED
    BY <2>1, <2>2
<1>2. ASSUME NEW m \in 1..n, m - 1 \in S PROVE m \in S
  <2>1. PICK f : Fold(f, m - 1)
    BY <1>2
  <2> DEFINE last == ShiftIn(f[m - 1], news[m], FreshIn(f[m - 1]))
             g == [k \in 0..m |-> IF k = m THEN last ELSE f[k]]
  <2> HIDE DEF last
  <2>2. \A k \in 0..m : g[k] = IF k = 0 THEN base ELSE ShiftIn(g[k - 1], news[k], FreshIn(g[k - 1]))
    <3> TAKE k \in 0..m
    <3>1. CASE k = m
      <4>1. m # 0 /\ m - 1 \in 0..m /\ m - 1 # m
        OBVIOUS
      <4>2. g[m - 1] = f[m - 1]
        BY <4>1
      <4> QED
        BY <3>1, <4>1, <4>2 DEF last
    <3>2. CASE k # m
      <4>1. k \in 0..(m - 1) /\ g[k] = f[k]
        BY <3>2
      <4>2. f[k] = IF k = 0 THEN base ELSE ShiftIn(f[k - 1], news[k], FreshIn(f[k - 1]))
        BY <2>1, <4>1
      <4>3. k # 0 => k - 1 \in 0..m /\ k - 1 # m
        BY <3>2
      <4>4. k # 0 => g[k - 1] = f[k - 1]
        BY <4>3
      <4> QED
        BY <4>1, <4>2, <4>4
    <3> QED
      BY <3>1, <3>2
  <2>3. Fold(g, m)
    BY <2>2
  <2>4. m \in 0..n
    OBVIOUS
  <2> HIDE DEF Fold
  <2> QED
    BY <2>3, <2>4
<1> HIDE DEF S
<1>3. \A k \in 0..n : k \in S
  BY <1>1, <1>2, UpTo
<1>4. n \in S
  BY <1>3
<1> QED
  BY <1>4 DEF S, ShiftFold

\* None of the frames in the loop has a layer of S.
Apart(v, S) == \A i \in ToSet(v.loaded) : v.img[i] \notin S

\* After k shifts the loop has none of the k new frames.
SlidBy(v, w, k) ==
  /\ w.run = v.run /\ w.paused = v.paused /\ w.tick = v.tick /\ (v.ready => w.ready)
  /\ Len(w.img) = Len(v.img) /\ w.staged \subseteq v.staged /\ Idle(w)
  /\ \A i \in ToSet(w.loaded) : i <= Len(v.img) - k
  /\ v.cur >= 1 => w.cur >= 1

LEMMA SlidByStep ==
  ASSUME NEW v, NEW u, NEW w, NEW away, Good(v, away), Good(u, away), Good(w, away),
         NEW k \in Nat, k >= 1, SlidBy(v, u, k - 1), NEW time \in Int, NEW x, Slid(u, w, time, x),
         NEW S, Apart(u, S)
  PROVE  SlidBy(v, w, k) /\ Apart(w, S) /\ w.times[Len(w.times)] = time
<1> DEFINE L == Len(v.img)
<1>1. /\ Len(u.img) = L /\ Len(w.img) = L /\ L \in Nat /\ L >= 1
      /\ Len(w.times) = L /\ Len(u.times) = L /\ u.times \in Seq(Int)
  BY DEF SlidBy, Slid, Good, FramesGood
<1> HIDE DEF L
<1>2. \A i \in ToSet(w.loaded) : i \in 1..(L - 1) /\ i + 1 \in ToSet(u.loaded)
  BY <1>1 DEF Slid
<1>3. \A i \in ToSet(w.loaded) : i <= L - k
  <2> TAKE i \in ToSet(w.loaded)
  <2>1. i + 1 <= L - (k - 1) /\ i \in Int
    BY <1>2 DEF SlidBy, L
  <2> QED
    BY <1>1, <2>1
<1>4. \A i \in ToSet(w.loaded) : w.img[i] = u.img[i + 1]
  BY <1>1, <1>2 DEF Slid
<1>5. Apart(w, S)
  BY <1>2, <1>4 DEF Apart
<1>6. w.times[L] = time
  BY <1>1, SlideFacts DEF Slid
<1>7. /\ w.run = v.run /\ w.paused = v.paused /\ w.tick = v.tick /\ (v.ready => w.ready)
      /\ Len(w.img) = Len(v.img) /\ w.staged \subseteq v.staged /\ Idle(w)
      /\ v.cur >= 1 => w.cur >= 1
  BY DEF SlidBy, Slid
<1> QED
  BY <1>1, <1>3, <1>5, <1>6, <1>7 DEF SlidBy, L

\* Shifting frames in, oldest first, into a loop with nothing to swap in.
LEMMA ShiftAllGood ==
  ASSUME FrameAssumption, NEW v, NEW away, Good(v, away), Idle(v), clock \in Int,
         NEW news \in Seq(Int), Sorted(news),
         \A k \in 1..Len(news) : news[k] > v.times[Len(v.times)],
         FreshLayers(v, Len(news)), NEW S, Apart(v, S),
         NEW w, w = ShiftAll(v, news)
  PROVE  Good(w, away) /\ SlidBy(v, w, Len(news)) /\ Apart(w, S)
<1> DEFINE n == Len(news)
           f == CHOOSE g : ShiftFold(g, v, n, news)
<1>1. w = f[n]
  BY DEF ShiftAll, ShiftFold
<1>2. n \in Nat /\ \A k \in 1..n : news[k] \in Int
  OBVIOUS
<1>3. Sorted(news) => \A j, k \in 1..n : j < k => news[j] < news[k]
  BY DEF Sorted
<1> HIDE DEF n
<1>4. ShiftFold(f, v, n, news)
  BY <1>2, ShiftFoldExists
<1> HIDE DEF f
<1>a. n \in Nat
  BY <1>2
<1>b. f[0] = v
  BY <1>a, <1>4 DEF ShiftFold
<1>c. \A k \in 1..n : f[k] = ShiftIn(f[k - 1], news[k], FreshIn(f[k - 1]))
  <2> TAKE k \in 1..n
  <2>1. k \in 0..n /\ k # 0
    BY <1>a
  <2> QED
    BY <1>4, <2>1 DEF ShiftFold
<1>5. f[0] = v /\ \A k \in 1..n : f[k] = ShiftIn(f[k - 1], news[k], FreshIn(f[k - 1]))
  BY <1>b, <1>c
<1> DEFINE Done(k) ==
             /\ Good(f[k], away) /\ SlidBy(v, f[k], k) /\ Apart(f[k], S)
             /\ f[k].times[Len(f[k].times)] = IF k = 0 THEN v.times[Len(v.times)] ELSE news[k]
             /\ FreshLayers(f[k], n - k)
           D == {k \in 0..n : Done(k)}
<1>6. Done(0)
  <2>1. \A i \in ToSet(v.loaded) : i <= Len(v.img) - 0
    BY DEF Good, FramesGood, ToSet
  <2>2. SlidBy(v, v, 0)
    BY <2>1 DEF SlidBy
  <2>3. n - 0 = n
    BY <1>2
  <2> QED
    BY <1>5, <2>2, <2>3 DEF n
<1>7. ASSUME NEW k \in 1..n, Done(k - 1) PROVE Done(k)
  <2> DEFINE u == f[k - 1]
             x == FreshIn(u)
  <2>1. Good(u, away) /\ SlidBy(v, u, k - 1) /\ Apart(u, S) /\ FreshLayers(u, n - (k - 1))
    BY <1>7
  <2>2. u.times[Len(u.times)] = IF k - 1 = 0 THEN v.times[Len(v.times)] ELSE news[k - 1]
    BY <1>7
  <2>3. f[k] = ShiftIn(u, news[k], x)
    BY <1>5
  <2> HIDE DEF u, x
  <2>4. n - (k - 1) \in Nat /\ n - (k - 1) >= 1 /\ n - k \in Nat /\ n - (k - 1) = (n - k) + 1
        /\ k \in Nat /\ k >= 1
    BY <1>2
  <2>5. x \in Free(u)
    BY <2>1, <2>4, FreshFacts DEF x
  <2>6. news[k] > u.times[Len(u.times)]
    <3>1. k - 1 = 0 => news[k] > u.times[Len(u.times)]
      BY <2>2 DEF n
    <3>2. k - 1 # 0 => k - 1 \in 1..n /\ k - 1 < k
      BY <1>2
    <3>3. k - 1 # 0 => news[k - 1] < news[k] /\ news[k - 1] \in Int /\ news[k] \in Int
      BY <1>2, <1>3, <3>2
    <3> QED
      BY <2>2, <3>1, <3>3
  <2>7. news[k] \in Int /\ Idle(u)
    BY <1>2, <2>1 DEF SlidBy
  <2>8. Good(f[k], away) /\ Slid(u, f[k], news[k], x)
    BY <2>1, <2>3, <2>5, <2>6, <2>7, ShiftInGood
  <2>9. SlidBy(v, f[k], k) /\ Apart(f[k], S) /\ f[k].times[Len(f[k].times)] = news[k]
    BY <2>1, <2>4, <2>7, <2>8, SlidByStep
  <2>10. f[k].attached \subseteq u.attached \cup {x}
    BY <2>8 DEF Slid
  <2>11. FreshLayers(f[k], n - k)
    BY <2>1, <2>4, <2>5, <2>10, FreeAfter
  <2> QED
    BY <2>4, <2>8, <2>9, <2>11
<1> HIDE DEF Done
<1>8. 0 \in D /\ \A k \in 1..n : k - 1 \in D => k \in D
  BY <1>2, <1>6, <1>7
<1> HIDE DEF D
<1>9. \A k \in 0..n : k \in D
  BY <1>2, <1>8, UpTo
<1>10. n \in D
  BY <1>2, <1>9
<1>11. Done(n)
  BY <1>10 DEF D
<1> QED
  BY <1>1, <1>11 DEF Done, n

-----------------------------------------------------------------------------
(* What an update brings: the listing's new frames, and replacements.      *)

\* Fewer layers are free too.
LEMMA FreshFewer ==
  ASSUME FrameAssumption, NEW v, NEW n \in Nat, NEW m \in Nat, m <= n, FreshLayers(v, n)
  PROVE  FreshLayers(v, m)
<1>1. IsFiniteSet(LayerIds) /\ Free(v) \in SUBSET LayerIds
  BY DEF FrameAssumption, Free
<1>2. Cardinality(Free(v)) \in Nat
  BY <1>1, FS_Subset, FS_CardinalityType
<1> QED
  BY <1>2 DEF FreshLayers

\* The frames of the listing that are newer than the newest held.
LEMMA NewFramesFacts ==
  ASSUME FrameAssumption, NEW v, v.times \in Seq(Int), Len(v.times) >= 1, clock \in Int,
         NEW news, news = NewFrames(v)
  PROVE  news \in Seq(Int) /\ Sorted(news) /\ \A k \in 1..Len(news) : news[k] > v.times[Len(v.times)]
<1> DEFINE W == Window(clock)
           last == v.times[Len(v.times)]
           R == (last + 1)..(clock + Forecast)
<1>1. Past \in Int /\ Forecast \in Int /\ Frames \in Nat
  BY DEF FrameAssumption, Frames
<1>2. last \in Int
  OBVIOUS
<1>3. W \in Seq(Int) /\ Len(W) = Frames /\ \A i \in 1..Frames : W[i] = clock - Past - 1 + i
  BY <1>1 DEF Window
<1>4. Sorted(W)
  BY <1>1, <1>3 DEF Sorted
<1>5. news = Kept(W, R)
  BY DEF NewFrames, Last
<1> HIDE DEF W, last
<1>6. news \in Seq(Int) /\ ToSet(news) = ToSet(W) \cap R /\ Sorted(news)
  BY <1>3, <1>4, <1>5, KeptFacts
<1>7. \A k \in 1..Len(news) : news[k] \in R
  BY <1>6 DEF ToSet
<1>8. \A k \in 1..Len(news) : news[k] > last
  BY <1>1, <1>2, <1>7
<1> QED
  BY <1>6, <1>8 DEF last

LEMMA SubSeqFacts ==
  ASSUME NEW s, NEW m \in Int, NEW n \in Int, m <= n, \A i \in m..n : s[i] \in Int,
         NEW r, r = SubSeq(s, m, n)
  PROVE  r \in Seq(Int) /\ Len(r) = n - m + 1 /\ \A k \in 1..(n - m + 1) : r[k] = s[m + k - 1]
<1>1. \A k \in m..n : s[k] \in Int
  OBVIOUS
<1>2. SubSeq(s, m, n) \in Seq(Int) /\ Len(SubSeq(s, m, n)) = n - m + 1
      /\ \A k \in 1..(n - m + 1) : SubSeq(s, m, n)[k] = s[m + k - 1]
  BY <1>1, SubSeqProperties
<1> QED
  BY <1>2

\* Frames newer than the newest held.
Beyond(news, last) == \A k \in 1..Len(news) : news[k] > last

Newest(news, count) == SubSeq(news, Len(news) - count + 1, Len(news))

\* The newest `count` of them are such frames too.
LEMMA TakenFacts ==
  ASSUME NEW news \in Seq(Int), Sorted(news), NEW last \in Int, Beyond(news, last),
         NEW count \in Nat, count >= 1, Len(news) > count,
         NEW taken, taken = Newest(news, count)
  PROVE  /\ taken \in Seq(Int) /\ Sorted(taken) /\ Len(taken) = count
         /\ Beyond(taken, last)
<1> DEFINE n == Len(news)
           off == n - count
           m == n - count + 1
<1>0. n \in Nat /\ n > count /\ \A k \in 1..n : news[k] \in Int
  OBVIOUS
<1>1. off \in Nat /\ off >= 1
  BY <1>0
<1>2. m \in Int /\ m <= n /\ n - m + 1 = count /\ m = off + 1
  BY <1>0
<1>a. \A i \in m..n : news[i] \in Int
  BY <1>0, <1>1, <1>2
<1>b. taken = SubSeq(news, m, n) /\ n \in Int
  BY <1>0 DEF Newest
<1> HIDE DEF n, off, m
<1>c. taken \in Seq(Int) /\ Len(taken) = n - m + 1 /\ \A k \in 1..(n - m + 1) : taken[k] = news[m + k - 1]
  BY <1>2, <1>a, <1>b, SubSeqFacts
<1>3. /\ taken \in Seq(Int) /\ Len(taken) = count
      /\ \A k \in 1..count : taken[k] = news[off + 1 + k - 1]
  BY <1>2, <1>c
<1>4. \A k \in 1..count : taken[k] = news[off + k] /\ off + k \in 1..n /\ k \in Int
  <2> TAKE k \in 1..count
  <2>1. off + 1 + k - 1 = off + k /\ off + k \in 1..n /\ k \in Int
    BY <1>0, <1>1, <1>2
  <2> QED
    BY <1>3, <2>1
<1>5. \A k \in 1..count : taken[k] > last
  BY <1>4 DEF n, Beyond
<1>6. \A j, k \in 1..count : j < k => off + j < off + k
  BY <1>1
<1>7. \A j, k \in 1..n : j < k => news[j] < news[k]
  BY DEF Sorted, n
<1>8. \A j, k \in 1..count : j < k => taken[j] < taken[k]
  BY <1>4, <1>6, <1>7
<1>9. DOMAIN taken = 1..count
  BY <1>3
<1> QED
  BY <1>3, <1>5, <1>8, <1>9 DEF Sorted, Beyond

\* The free name the replacement of frame i takes.
NthFree(v, from, i) == Ascending(Free(v))[Cardinality(Below(Due(v, from), i))]

\* Each due frame gets a name of its own.
LEMMA StageFacts ==
  ASSUME FrameAssumption, NEW v, v.times \in Seq(Int), Sorted(v.times), NEW from,
         FreshLayers(v, Cardinality(Due(v, from))), NEW S, S = Stage(v, from)
  PROVE  Batch(S) /\ LayersOf(S) \subseteq Free(v)
<1> DEFINE D == Due(v, from)
           F == Free(v)
<1>1. S = {[time |-> v.times[i], layer |-> NthFree(v, from, i)] : i \in D}
  BY DEF Stage, NthFree, Below
<1>2. Len(v.times) \in Nat /\ D \in SUBSET (1..Len(v.times)) /\ D \subseteq Nat
  BY DEF Due
<1>3. IsFiniteSet(D) /\ Cardinality(D) \in Nat
  <2>0. 1 \in Int /\ Len(v.times) \in Int
    BY <1>2
  <2>1. IsFiniteSet(1..Len(v.times))
    BY <2>0, FS_Interval
  <2> QED
    BY <1>2, <2>1, FS_Subset, FS_CardinalityType
<1>4. F \subseteq LayerIds \ {None} /\ F \subseteq Nat /\ IsFiniteSet(F)
  <2>1. F \in SUBSET LayerIds /\ IsFiniteSet(LayerIds) /\ LayerIds \subseteq Nat
    BY DEF FrameAssumption, Free
  <2> QED
    BY <2>1, FS_Subset DEF Free
<1>5. Cardinality(D) <= Cardinality(F) /\ Cardinality(F) \in Nat
  BY <1>4, FS_CardinalityType DEF FreshLayers
<1>6. /\ Ascending(F) \in [1..Cardinality(F) -> F]
      /\ \A a, b \in 1..Cardinality(F) : a < b => Ascending(F)[a] < Ascending(F)[b]
  BY <1>4, AscendingFacts
<1>7. \A i \in D : Cardinality(Below(D, i)) \in 1..Cardinality(D)
  BY <1>2, <1>3, RankFacts
<1>8. \A i, j \in D : Cardinality(Below(D, i)) = Cardinality(Below(D, j)) => i = j
  BY <1>2, <1>3, RankFacts
<1> HIDE DEF D, F
<1>9. \A i \in D : Cardinality(Below(D, i)) \in 1..Cardinality(F)
  BY <1>3, <1>5, <1>7
<1>10. \A i \in D : NthFree(v, from, i) = Ascending(F)[Cardinality(Below(D, i))]
  BY DEF NthFree, D, F
<1>11. \A i \in D : NthFree(v, from, i) \in F
  BY <1>6, <1>9, <1>10
<1>12. \A a, b \in 1..Cardinality(F) : Ascending(F)[a] = Ascending(F)[b] => a = b
  <2> SUFFICES ASSUME NEW a \in 1..Cardinality(F), NEW b \in 1..Cardinality(F),
                      Ascending(F)[a] = Ascending(F)[b]
               PROVE  a = b
    OBVIOUS
  <2>1. Ascending(F)[a] \in Nat /\ Ascending(F)[b] \in Nat
    BY <1>4, <1>6
  <2>2. ~(a < b) /\ ~(b < a)
    BY <1>6, <2>1
  <2> QED
    BY <1>5, <2>2
<1>13. \A i, j \in D : NthFree(v, from, i) = NthFree(v, from, j) => i = j
  BY <1>8, <1>9, <1>10, <1>12
<1>14. \A i, j \in D : v.times[i] = v.times[j] => i = j
  <2> SUFFICES ASSUME NEW i \in D, NEW j \in D, v.times[i] = v.times[j] PROVE i = j
    OBVIOUS
  <2>1. i \in 1..Len(v.times) /\ j \in 1..Len(v.times) /\ v.times[i] \in Int
    BY <1>2
  <2>2. ~(i < j) /\ ~(j < i)
    BY <2>1 DEF Sorted
  <2> QED
    BY <1>2, <2>1, <2>2
<1>15. \A i \in D : v.times[i] \in Int
  <2> SUFFICES ASSUME NEW i \in D PROVE v.times[i] \in Int
    OBVIOUS
  <2>1. v.times \in Seq(Int) /\ i \in 1..Len(v.times)
    BY <1>2
  <2> QED
    BY <2>1
<1>16. \A s \in S : \E i \in D : s.time = v.times[i] /\ s.layer = NthFree(v, from, i)
                                /\ s = [time |-> v.times[i], layer |-> NthFree(v, from, i)]
  BY <1>1
<1>17. LayersOf(S) \subseteq F
  BY <1>11, <1>16 DEF LayersOf
<1>18. \A s \in S : s.time \in Int /\ s.layer \in LayerIds \ {None}
  BY <1>4, <1>11, <1>15, <1>16
<1>19. \A s, t \in S : s.time = t.time \/ s.layer = t.layer => s = t
  BY <1>13, <1>14, <1>16
<1> QED
  BY <1>17, <1>18, <1>19 DEF Batch, F

\* The replacements' layers are on the map from then on.
OnMap(v, S) == [v EXCEPT !.attached = @ \cup LayersOf(S)]

LEMMA StagedGood ==
  ASSUME NEW v, Good(v, {}), NEW S, Batch(S), LayersOf(S) \subseteq Free(v),
         NEW w, w = OnMap(v, S)
  PROVE  /\ Good(w, S)
         /\ w.times = v.times /\ w.img = v.img /\ w.loaded = v.loaded /\ w.cur = v.cur
         /\ w.now = v.now /\ w.staged = v.staged /\ w.missed = v.missed
         /\ w.ready = v.ready /\ w.run = v.run /\ w.paused = v.paused /\ w.tick = v.tick
<1>1. DOMAIN v = Fields
  BY DEF Good
<1>2. /\ DOMAIN w = Fields
      /\ w.times = v.times /\ w.img = v.img /\ w.loaded = v.loaded /\ w.cur = v.cur
      /\ w.prev1 = v.prev1 /\ w.now = v.now /\ w.shown = v.shown
      /\ w.attached = v.attached \cup LayersOf(S) /\ w.staged = v.staged
      /\ w.ready = v.ready /\ w.run = v.run /\ w.paused = v.paused
      /\ w.tick = v.tick /\ w.missed = v.missed
  BY <1>1 DEF Fields, OnMap
<1>3. LayersGood(v.img, v.attached, v.staged, {}) /\ LayersOf({}) = {}
  BY DEF Good, LayersOf
<1>4. /\ v.attached \subseteq LayerIds \ {None}
      /\ v.attached = (ToSet(v.img) \ {None}) \cup LayersOf(v.staged)
      /\ \A i, j \in 1..Len(v.img) : v.img[i] = v.img[j] /\ v.img[i] # None => i = j
      /\ Batch(v.staged) /\ ToSet(v.img) \cap LayersOf(v.staged) = {}
  BY <1>3 DEF LayersGood
<1>5. LayersOf(S) \subseteq LayerIds \ {None} /\ LayersOf(S) \cap v.attached = {}
  BY DEF Free
<1>6. ToSet(v.img) \cap LayersOf(S) = {} /\ LayersOf(v.staged) \cap LayersOf(S) = {}
  BY <1>4, <1>5
<1>7. LayersGood(v.img, v.attached \cup LayersOf(S), v.staged, S)
  <2>1. v.attached \cup LayersOf(S) \subseteq LayerIds \ {None}
    BY <1>4, <1>5
  <2>2. v.attached \cup LayersOf(S) = (ToSet(v.img) \ {None}) \cup LayersOf(v.staged) \cup LayersOf(S)
    BY <1>4
  <2>3. ToSet(v.img) \cap (LayersOf(v.staged) \cup LayersOf(S)) = {}
    BY <1>4, <1>6
  <2> QED
    BY <1>4, <1>6, <2>1, <2>2, <2>3 DEF LayersGood
<1> QED
  BY <1>2, <1>7 DEF Good, CursorGood

-----------------------------------------------------------------------------
(* The initial load.                                                       *)

\* What ToSet returns, of a sequence.
LEMMA InRange ==
  ASSUME NEW T, NEW s \in Seq(T)
  PROVE  /\ Len(s) \in Nat /\ DOMAIN s = 1..Len(s)
         /\ \A i \in 1..Len(s) : s[i] \in T /\ s[i] \in ToSet(s)
         /\ \A x \in ToSet(s) : x \in T /\ \E i \in 1..Len(s) : x = s[i]
BY DEF ToSet

\* The frames in the loop are frames with a layer on the map.
LEMMA LoadedFacts ==
  ASSUME NEW v, NEW away, Good(v, away)
  PROVE  /\ v.loaded \in Seq(1..Len(v.img)) /\ Sorted(v.loaded) /\ Len(v.loaded) \in Nat
         /\ v.img \in Seq(LayerIds \cup {None}) /\ DOMAIN v.img = 1..Len(v.img) /\ Len(v.img) \in Nat
         /\ v.times \in Seq(Int) /\ Sorted(v.times) /\ Len(v.times) = Len(v.img)
         /\ Len(v.times) \in 1..Frames
         /\ \A i \in ToSet(v.loaded) : i \in 1..Len(v.img) /\ v.img[i] # None
<1>1. /\ v.loaded \in Seq(1..Len(v.img)) /\ Sorted(v.loaded) /\ Len(v.loaded) \in Nat
      /\ v.img \in Seq(LayerIds \cup {None}) /\ DOMAIN v.img = 1..Len(v.img) /\ Len(v.img) \in Nat
      /\ v.times \in Seq(Int) /\ Sorted(v.times) /\ Len(v.times) = Len(v.img)
      /\ Len(v.times) \in 1..Frames
      /\ \A s \in 1..Len(v.loaded) : v.img[v.loaded[s]] # None
  BY DEF Good, FramesGood
<1>2. \A i \in ToSet(v.loaded) : i \in 1..Len(v.img) /\ \E s \in 1..Len(v.loaded) : i = v.loaded[s]
  BY <1>1, InRange
<1> QED
  BY <1>1, <1>2

\* The load order goes through every frame, each once.
LEMMA LoadOrderFacts ==
  ASSUME NEW n \in Nat, NEW now \in 1..n, NEW order, order = LoadOrder(n, now)
  PROVE  /\ order \in Seq(1..n) /\ Len(order) = n /\ order[1] = now
         /\ \A j, k \in 1..n : order[j] = order[k] => j = k
<1>1. \A k \in 1..n : (IF k <= now THEN now - k + 1 ELSE k) \in 1..n
  OBVIOUS
<1>2. order = [k \in 1..n |-> IF k <= now THEN now - k + 1 ELSE k]
  BY DEF LoadOrder
<1>3. order \in Seq(1..n) /\ Len(order) = n
  BY <1>1, <1>2
<1>4. 1 \in 1..n /\ 1 <= now /\ now - 1 + 1 = now
  OBVIOUS
<1>5. order[1] = now
  BY <1>2, <1>4
<1>6. \A j, k \in 1..n : order[j] = order[k] => j = k
  BY <1>2
<1> QED
  BY <1>3, <1>5, <1>6

\* After a failure the load goes on further along its order, or ends.
LEMMA ResumeFacts ==
  ASSUME NEW n \in Nat, NEW order \in Seq(1..n), Len(order) = n, NEW k \in 1..n,
         NEW r, r = ResumeAfterFailure(order, k)
  PROVE  r = None \/ r \in (k + 1)..n
<1>1. order[1] \in 1..n
  OBVIOUS
<1> QED
  BY <1>1 DEF ResumeAfterFailure

\* The first frame that has loaded is shown at once.
Preview(v, layer, pos) == [v EXCEPT !.shown = @ \cup {layer}, !.prev1 = pos]

LEMMA FirstPosition ==
  ASSUME NEW fi \in Int
  PROVE  InsertPosition(<<>>, fi) = 1
<1>1. <<>> \in Seq(Int) /\ Sorted(<<>>) /\ ToSet(<<>>) = {} /\ Len(<<>>) = 0
  BY DEF Sorted, ToSet
<1>2. InsertPosition(<<>>, fi) \in 1..(0 + 1)
  BY <1>1, InsertFacts
<1> QED
  BY <1>2

LEMMA PreviewGood ==
  ASSUME NEW v, NEW away, Good(v, away), v.loaded = <<>>, NEW layer \in LayerIds,
         NEW w, w = Preview(v, layer, 1)
  PROVE  /\ Good(w, away)
         /\ w.times = v.times /\ w.img = v.img /\ w.loaded = v.loaded /\ w.cur = v.cur /\ w.now = v.now
         /\ w.attached = v.attached /\ w.staged = v.staged /\ w.ready = v.ready /\ w.run = v.run
         /\ w.paused = v.paused /\ w.tick = v.tick /\ w.missed = v.missed
<1>1. DOMAIN v = Fields
  BY DEF Good
<1>4. /\ DOMAIN w = Fields
      /\ w.times = v.times /\ w.img = v.img /\ w.loaded = v.loaded /\ w.cur = v.cur
      /\ w.prev1 = 1 /\ w.now = v.now /\ w.shown = v.shown \cup {layer}
      /\ w.attached = v.attached /\ w.staged = v.staged
      /\ w.ready = v.ready /\ w.run = v.run /\ w.paused = v.paused
      /\ w.tick = v.tick /\ w.missed = v.missed
  BY <1>1 DEF Preview, Fields
<1>5. CursorGood(w)
  BY <1>4 DEF Good, CursorGood, InLoop
<1> QED
  BY <1>4, <1>5 DEF Good

\* The frames _dedupFrames keeps: some of those in the loop, the first among them.
Keeps(v, kept) ==
  /\ kept \in Seq(1..Len(v.img)) /\ Sorted(kept) /\ Len(kept) >= 1
  /\ Len(kept) <= Len(v.loaded) /\ ToSet(kept) \subseteq ToSet(v.loaded)

LEMMA KeepsFacts ==
  ASSUME NEW v, NEW away, Good(v, away), NEW drop, v.loaded # <<>>,
         NEW kept, kept = Kept(v.loaded, ToSet(v.loaded) \ {v.loaded[s] : s \in drop \ {1}}),
         drop \subseteq DOMAIN v.loaded
  PROVE  Keeps(v, kept)
<1> DEFINE out == {v.loaded[s] : s \in drop \ {1}}
           S == ToSet(v.loaded) \ out
<1>1. v.loaded \in Seq(1..Len(v.img)) /\ Sorted(v.loaded)
  BY DEF Good, FramesGood
<1>2. v.loaded \in Seq(Int) /\ Len(v.loaded) \in Nat /\ DOMAIN v.loaded = 1..Len(v.loaded)
      /\ 1 \in 1..Len(v.loaded)
  BY <1>1
<1>3. v.loaded[1] \notin out
  <2> SUFFICES ASSUME NEW s \in drop, s # 1, v.loaded[s] = v.loaded[1] PROVE FALSE
    OBVIOUS
  <2>1. s \in 1..Len(v.loaded) /\ 1 < s
    BY <1>2
  <2>2. v.loaded[1] < v.loaded[s] /\ v.loaded[1] \in Int
    BY <1>1, <1>2, <2>1 DEF Sorted
  <2> QED
    BY <2>2
<1>4. v.loaded[1] \in ToSet(v.loaded)
  BY <1>2 DEF ToSet
<1>5. kept = Kept(v.loaded, S)
  OBVIOUS
<1> HIDE DEF out
<1>6. v.loaded[1] \in S /\ S \subseteq ToSet(v.loaded)
  BY <1>3, <1>4
<1> HIDE DEF S
<1>7. /\ kept \in Seq(Int) /\ Len(kept) <= Len(v.loaded) /\ ToSet(kept) = ToSet(v.loaded) \cap S
      /\ Sorted(kept)
  BY <1>1, <1>2, <1>5, KeptFacts
<1>8. \A x \in ToSet(kept) : x \in 1..Len(v.img)
  BY <1>7, LoadedFacts
<1>9. kept \in Seq(1..Len(v.img))
  BY <1>7, <1>8, SeqOver
<1>10. v.loaded[1] \in ToSet(kept)
  BY <1>4, <1>6, <1>7
<1>11. Len(kept) >= 1
  BY <1>7, <1>10 DEF ToSet
<1> QED
  BY <1>7, <1>9, <1>11 DEF Keeps

\* The frames kept are the new arrays, in order, each in the loop.
LEMMA DedupFrames ==
  ASSUME FrameAssumption, NEW v, NEW away, Good(v, away), NEW kept, Keeps(v, kept),
         NEW times, times = [i \in DOMAIN kept |-> v.times[kept[i]]],
         NEW img, img = [i \in DOMAIN kept |-> v.img[kept[i]]],
         NEW loaded, loaded = [i \in DOMAIN kept |-> i]
  PROVE  /\ FramesGood(times, img, loaded)
         /\ Len(times) = Len(kept) /\ Len(img) = Len(kept) /\ Len(loaded) = Len(kept)
<1>1. /\ v.times \in Seq(Int) /\ Sorted(v.times) /\ Len(v.times) \in 1..Frames
      /\ v.img \in Seq(LayerIds \cup {None}) /\ Len(v.img) = Len(v.times)
      /\ \A i \in ToSet(v.loaded) : v.img[i] # None
  BY LoadedFacts
<1>2. /\ kept \in Seq(1..Len(v.img)) /\ Sorted(kept) /\ Len(kept) >= 1 /\ Len(kept) \in Nat
      /\ DOMAIN kept = 1..Len(kept) /\ \A i \in 1..Len(kept) : kept[i] \in 1..Len(v.img)
  BY DEF Keeps
<1>3. Len(kept) <= Len(v.img) /\ Len(v.img) \in Nat
  BY <1>1, <1>2, SortedLen
<1>4. times \in Seq(Int) /\ Len(times) = Len(kept) /\ \A i \in 1..Len(kept) : times[i] = v.times[kept[i]]
  BY <1>1, <1>2
<1>5. img \in Seq(LayerIds \cup {None}) /\ Len(img) = Len(kept) /\ \A i \in 1..Len(kept) : img[i] = v.img[kept[i]]
  BY <1>1, <1>2
<1>6. loaded \in Seq(1..Len(kept)) /\ Len(loaded) = Len(kept) /\ \A i \in 1..Len(kept) : loaded[i] = i
  BY <1>2
<1>7. Sorted(times)
  <2>1. \A a, b \in 1..Len(kept) : a < b => kept[a] < kept[b]
    BY <1>2 DEF Sorted
  <2>2. \A a, b \in 1..Len(v.img) : a < b => v.times[a] < v.times[b]
    BY <1>1 DEF Sorted
  <2>3. \A a, b \in 1..Len(kept) : a < b => times[a] < times[b]
    BY <1>2, <1>4, <2>1, <2>2
  <2>4. DOMAIN times = 1..Len(kept)
    BY <1>4
  <2> QED
    BY <2>3, <2>4 DEF Sorted
<1>8. Sorted(loaded)
  BY <1>6 DEF Sorted
<1>9. \A s \in 1..Len(loaded) : img[loaded[s]] # None
  <2> TAKE s \in 1..Len(loaded)
  <2>1. loaded[s] = s /\ s \in 1..Len(kept) /\ kept[s] \in ToSet(kept)
    BY <1>2, <1>6 DEF ToSet
  <2> QED
    BY <1>1, <1>5, <2>1 DEF Keeps
<1>10. Len(times) \in 1..Frames
  <2>1. Frames \in Nat
    BY DEF FrameAssumption, Frames
  <2> QED
    BY <1>1, <1>2, <1>3, <1>4, <2>1
<1> QED
  BY <1>4, <1>5, <1>6, <1>7, <1>8, <1>9, <1>10 DEF FramesGood

\* The layers of the frames dropped leave the map, the others stay.
LEMMA DedupLayers ==
  ASSUME NEW v, NEW away, Good(v, away), NEW kept, Keeps(v, kept),
         NEW img, img = [i \in DOMAIN kept |-> v.img[kept[i]]],
         NEW out, out = {v.img[i] : i \in DOMAIN v.img \ ToSet(kept)}
  PROVE  LayersGood(img, v.attached \ out, v.staged, away)
<1>1. /\ v.img \in Seq(LayerIds \cup {None}) /\ DOMAIN v.img = 1..Len(v.img)
      /\ \A i \in ToSet(v.loaded) : v.img[i] # None
  BY LoadedFacts
<1>2. /\ kept \in Seq(1..Len(v.img)) /\ Sorted(kept) /\ Len(kept) \in Nat
      /\ DOMAIN kept = 1..Len(kept)
      /\ \A i \in 1..Len(kept) : kept[i] \in 1..Len(v.img) /\ kept[i] \in ToSet(kept) /\ v.img[kept[i]] # None
  <2>1. kept \in Seq(1..Len(v.img)) /\ Sorted(kept) /\ ToSet(kept) \subseteq ToSet(v.loaded)
    BY DEF Keeps
  <2> QED
    BY <1>1, <2>1, InRange
<1>3. LayersGood(v.img, v.attached, v.staged, away)
  BY DEF Good
<1>4. \A i, j \in 1..Len(v.img) : v.img[i] = v.img[j] /\ v.img[i] # None => i = j
  BY <1>3 DEF LayersGood
<1>5. Len(img) = Len(kept) /\ DOMAIN img = 1..Len(kept) /\ \A i \in 1..Len(kept) : img[i] = v.img[kept[i]]
  BY <1>1, <1>2
<1>6. \A a, b \in 1..Len(kept) : kept[a] = kept[b] => a = b
  <2> SUFFICES ASSUME NEW a \in 1..Len(kept), NEW b \in 1..Len(kept), kept[a] = kept[b] PROVE a = b
    OBVIOUS
  <2>1. ~(a < b) /\ ~(b < a)
    BY <1>2, SMTT(30) DEF Sorted
  <2> QED
    BY <1>2, <2>1
<1>7. \A i, j \in 1..Len(img) : img[i] = img[j] /\ img[i] # None => i = j
  BY <1>2, <1>4, <1>5, <1>6
<1>8. \A x : x \in ToSet(img) <=> \E i \in 1..Len(kept) : x = v.img[kept[i]]
  BY <1>5 DEF ToSet
<1>9. \A x : x \in ToSet(v.img) <=> \E i \in 1..Len(v.img) : x = v.img[i]
  BY <1>1 DEF ToSet
<1>10. \A i \in ToSet(kept) : \E k \in 1..Len(kept) : i = kept[k]
  BY <1>2 DEF ToSet
<1>11. \A x : x \in out <=> \E i \in 1..Len(v.img) : i \notin ToSet(kept) /\ x = v.img[i]
  BY <1>1
<1>12. ToSet(img) \ {None} = ((ToSet(v.img) \ {None}) \ out) \cup {}
  <2>1. ASSUME NEW x \in ToSet(img), x # None PROVE x \in ToSet(v.img) /\ x \notin out
    <3>1. PICK i \in 1..Len(kept) : x = v.img[kept[i]]
      BY <1>8, <2>1
    <3>2. x \in ToSet(v.img)
      BY <1>2, <1>9, <3>1
    <3>3. ASSUME NEW j \in 1..Len(v.img), j \notin ToSet(kept), x = v.img[j] PROVE FALSE
      <4>1. kept[i] = j
        BY <1>2, <1>4, <2>1, <3>1, <3>3
      <4> QED
        BY <1>2, <3>3, <4>1
    <3> QED
      BY <1>11, <3>2, <3>3
  <2>2. ASSUME NEW x \in ToSet(v.img), x # None, x \notin out PROVE x \in ToSet(img)
    <3>1. PICK i \in 1..Len(v.img) : x = v.img[i]
      BY <1>9, <2>2
    <3>2. i \in ToSet(kept)
      BY <1>11, <2>2, <3>1
    <3> QED
      BY <1>8, <1>10, <3>1, <3>2
  <2> QED
    BY <2>1, <2>2
<1>13. out \subseteq ToSet(v.img) \cup {None}
  BY <1>9, <1>11
<1>14. Relayered(v.img, v.attached, img, v.attached \ out)
  <2>1. v.attached \ out = (v.attached \ out) \cup {} /\ {} \subseteq LayerIds \ ({None} \cup v.attached)
    OBVIOUS
  <2>2. \E o, n : /\ o \subseteq ToSet(v.img) \cup {None}
                  /\ n \subseteq LayerIds \ ({None} \cup v.attached)
                  /\ v.attached \ out = (v.attached \ o) \cup n
                  /\ ToSet(img) \ {None} = ((ToSet(v.img) \ {None}) \ o) \cup n
    BY <1>12, <1>13, <2>1
  <2> QED
    BY <1>7, <2>2 DEF Relayered
<1> QED
  BY <1>3, <1>14, LayersFrom

\* Every array is compacted to the frames kept and the positions follow.
LEMMA DedupGood ==
  ASSUME FrameAssumption, NEW v, NEW away, Good(v, away), NEW kept, Keeps(v, kept), clock \in Int,
         NEW w, w = Dedup(v, kept)
  PROVE  /\ Good(w, away) /\ w.cur >= 1
         /\ w.staged = v.staged /\ w.missed = v.missed /\ w.tick = v.tick
         /\ w.run = v.run /\ w.paused = v.paused /\ w.ready = v.ready
<1> DEFINE at(slot) == IF slot \in DOMAIN v.loaded THEN PositionOf(kept, v.loaded[slot]) ELSE None
           times == [i \in DOMAIN kept |-> v.times[kept[i]]]
           img == [i \in DOMAIN kept |-> v.img[kept[i]]]
           loaded == [i \in DOMAIN kept |-> i]
           out == {v.img[i] : i \in DOMAIN v.img \ ToSet(kept)}
           cur == IF at(v.cur) # None THEN at(v.cur) ELSE NearestIndex(times, clock)
           prev1 == IF v.prev1 = None THEN v.prev1 ELSE IF at(v.prev1) # None THEN at(v.prev1) ELSE cur
           n == Len(kept)
<1>1. DOMAIN v = Fields
  BY DEF Good
<1>2. w = [v EXCEPT !.times = times, !.img = img, !.loaded = loaded,
                    !.attached = @ \ out, !.shown = @ \ out, !.cur = cur, !.prev1 = prev1,
                    !.now = NearestIndex(times, clock)]
  BY DEF Dedup
<1>3. FramesGood(times, img, loaded) /\ Len(times) = n /\ Len(img) = n /\ Len(loaded) = n
  BY DedupFrames
<1>4. LayersGood(img, v.attached \ out, v.staged, away)
  BY DedupLayers
<1>5. kept \in Seq(1..Len(v.img)) /\ n \in Nat /\ n >= 1 /\ n <= Len(v.loaded)
  BY DEF Keeps
<1>6. \A slot : at(slot) \in 0..n
  <2> TAKE slot
  <2>1. PositionOf(kept, v.loaded[slot]) \in 0..n
    BY <1>5, PositionFacts
  <2>2. None \in 0..n
    BY <1>5 DEF None
  <2> QED
    BY <2>1, <2>2
<1>a. /\ v.shown \subseteq LayerIds /\ v.ready \in BOOLEAN /\ v.run \in BOOLEAN /\ v.paused \in BOOLEAN
      /\ v.tick \in BOOLEAN /\ v.missed \in BOOLEAN /\ (Len(v.loaded) >= 2 => v.ready)
      /\ Len(v.loaded) \in Nat
  BY LoadedFacts DEF Good, CursorGood
<1> HIDE DEF at, times, img, loaded, out, n
<1>7. NearestIndex(times, clock) \in 1..n
  <2>1. times \in Seq(Int)
    BY <1>3 DEF FramesGood
  <2>2. times # <<>>
    BY <1>3, <1>5, <2>1
  <2> QED
    BY <1>3, <2>1, <2>2, NearestFacts
<1>8. cur \in 1..n
  <2>1. at(v.cur) # None => at(v.cur) \in 1..n
    BY <1>5, <1>6 DEF None
  <2> QED
    BY <1>7, <2>1
<1> HIDE DEF cur
<1>9. prev1 \in 0..n
  <2>1. 0 \in 0..n
    BY <1>5
  <2> QED
    BY <1>5, <1>6, <1>8, <2>1 DEF None
<1> HIDE DEF prev1
<1>10. /\ DOMAIN w = Fields
       /\ w.times = times /\ w.img = img /\ w.loaded = loaded /\ w.cur = cur /\ w.prev1 = prev1
       /\ w.now = NearestIndex(times, clock) /\ w.shown = v.shown \ out
       /\ w.attached = v.attached \ out /\ w.staged = v.staged
       /\ w.ready = v.ready /\ w.run = v.run /\ w.paused = v.paused
       /\ w.tick = v.tick /\ w.missed = v.missed
  BY <1>1, <1>2 DEF Fields
<1>11. InLoop(n, cur) /\ InLoop(n, prev1) /\ cur >= 1
  BY <1>5, <1>8, <1>9 DEF InLoop
<1>12. Len(loaded) >= 2 => v.ready
  BY <1>3, <1>5, <1>a
<1>13. CursorGood(w)
  BY <1>3, <1>7, <1>10, <1>11, <1>12, <1>a DEF CursorGood
<1>14. Good(w, away)
  BY <1>3, <1>4, <1>10, <1>13 DEF Good
<1> QED
  BY <1>10, <1>11, <1>14

===============================================================================
