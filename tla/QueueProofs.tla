---------------------------- MODULE QueueProofs ----------------------------
(***************************************************************************)
(* What the operators of Queue return and keep, for every queue: the facts *)
(* the proofs about PlayQueue and Player stand on.                         *)
(***************************************************************************)
EXTENDS Queue, FiniteSetTheorems, SequenceTheorems, NaturalsInduction,
        WellFoundedInduction, TLAPS

-----------------------------------------------------------------------------
(* Numbers, and how many of a set are up to one *)

\* A set of numbers that is not empty has a least one.
LEMMA LeastNumber ==
  ASSUME NEW S, S \subseteq Nat, S # {}
  PROVE  \E n \in S : \A m \in S : n <= m
<1>1. PICK x \in S : \A y \in S : <<y, x>> \notin OpToRel(<, Nat)
  BY WFMin, NatLessThanWellFounded, Zenon
<1>2. \A y \in S : ~ (y < x)
  BY <1>1 DEF OpToRel
<1> QED BY <1>2

\* A set of numbers that 0 is in, and the successor of each of its numbers, is all of them.
LEMMA Induction ==
  ASSUME NEW S, S \subseteq Nat, 0 \in S, \A n \in S : n + 1 \in S
  PROVE  S = Nat
<1> SUFFICES ASSUME S # Nat PROVE FALSE
  OBVIOUS
<1>1. PICK n \in Nat \ S : \A m \in Nat \ S : n <= m
  <2>1. Nat \ S # {} /\ Nat \ S \subseteq Nat
    OBVIOUS
  <2> QED BY <2>1, LeastNumber
<1>2. n - 1 \in S /\ n - 1 + 1 = n
  BY <1>1
<1> QED BY <1>1, <1>2

\* Least() and Greatest() of numbers up to n.
LEMMA LeastIs ==
  ASSUME NEW S, S \subseteq Nat, S # {}
  PROVE  Least(S) \in S /\ \A y \in S : Least(S) <= y
BY LeastNumber DEF Least

LEMMA GreatestIs ==
  ASSUME NEW n \in Nat, NEW S, S \subseteq 1..n, S # {}
  PROVE  Greatest(S) \in S /\ \A y \in S : Greatest(S) >= y
<1> DEFINE D == {d \in Nat : n - d \in S}
<1>1. D \subseteq Nat /\ D # {}
  <2>1. PICK y \in S : TRUE
    OBVIOUS
  <2>2. n - y \in D
    BY <2>1
  <2> QED BY <2>2
<1>2. PICK d \in D : \A e \in D : d <= e
  BY <1>1, LeastNumber
<1>3. n - d \in S /\ \A y \in S : n - d >= y
  <2> SUFFICES ASSUME NEW y \in S PROVE n - d >= y
    BY <1>2
  <2>1. n - y \in D
    OBVIOUS
  <2>2. d <= n - y
    BY <1>2, <2>1
  <2>3. n \in Int /\ d \in Int /\ y \in Int
    BY <1>2
  <2> QED BY <2>2, <2>3
<1> QED BY <1>3 DEF Greatest

UpTo(S, k) == {j \in S : j <= k}
Count(S, k) == Cardinality(UpTo(S, k))
RowSets == SUBSET (Nat \ {0})

\* Counting goes on by one at each member.
LEMMA CountNext ==
  ASSUME NEW S \in RowSets
  PROVE  /\ Count(S, 0) = 0
         /\ \A k \in Nat : /\ Count(S, k) \in Nat
                           /\ Count(S, k + 1) = Count(S, k) + (IF k + 1 \in S THEN 1 ELSE 0)
<1>0. \A j \in S : j \in Nat /\ j # 0
  BY DEF RowSets
<1>1. UpTo(S, 0) = {}
  <2>1. \A j \in S : ~ (j <= 0)
    BY <1>0
  <2> QED BY <2>1 DEF UpTo
<1>2. ASSUME NEW k \in Nat
      PROVE  /\ Count(S, k) \in Nat
             /\ Count(S, k + 1) = Count(S, k) + (IF k + 1 \in S THEN 1 ELSE 0)
  <2>1. IsFiniteSet(UpTo(S, k)) /\ Cardinality(UpTo(S, k)) \in Nat
    <3>1. \A j \in UpTo(S, k) : j \in 1..k
      BY <1>0 DEF UpTo
    <3>2. UpTo(S, k) \in SUBSET (1..k) /\ IsFiniteSet(1..k)
      BY <3>1, FS_Interval
    <3> QED BY <3>2, FS_Subset, FS_CardinalityType
  <2>2. UpTo(S, k + 1) = IF k + 1 \in S THEN UpTo(S, k) \cup {k + 1} ELSE UpTo(S, k)
    <3>1. \A j \in S : j <= k + 1 <=> j <= k \/ j = k + 1
      BY <1>0
    <3>2. \A j : j \in UpTo(S, k + 1) <=> j \in UpTo(S, k) \/ (j = k + 1 /\ j \in S)
      BY <3>1 DEF UpTo
    <3> QED BY <3>2, Zenon
  <2>3. k + 1 \notin UpTo(S, k)
    BY DEF UpTo
  <2>4. Cardinality(UpTo(S, k) \cup {k + 1}) = Cardinality(UpTo(S, k)) + 1
    BY <2>1, <2>3, FS_AddElement
  <2> QED BY <2>1, <2>2, <2>4 DEF Count
<1> QED BY <1>1, <1>2, FS_EmptySet DEF Count

\* At most all numbers up to one are members, and never fewer further on.
LEMMA CountGrows ==
  ASSUME NEW S \in RowSets, NEW j \in Nat, NEW k \in Nat, j <= k
  PROVE  /\ Count(S, j) <= Count(S, k) /\ Count(S, k) - Count(S, j) <= k - j
         /\ k \in S /\ j < k => Count(S, j) < Count(S, k)
<1> DEFINE T == {d \in Nat : /\ Count(S, j) <= Count(S, j + d)
                             /\ Count(S, j + d) - Count(S, j) <= d
                             /\ j + d \in S /\ d > 0 => Count(S, j) < Count(S, j + d)}
<1>1. 0 \in T
  BY CountNext
<1>2. ASSUME NEW d \in T PROVE d + 1 \in T
  <2>1. j + d \in Nat /\ j + d + 1 = j + (d + 1)
    OBVIOUS
  <2>2. /\ Count(S, j + d) \in Nat /\ Count(S, j) \in Nat
        /\ Count(S, j + d + 1) = Count(S, j + d) + (IF j + d + 1 \in S THEN 1 ELSE 0)
    BY <2>1, CountNext
  <2> QED BY <2>1, <2>2
<1>3. T = Nat
  <2> HIDE DEF T
  <2>1. T \subseteq Nat
    BY DEF T
  <2> QED BY <1>1, <1>2, <2>1, Induction
<1>4. k - j \in Nat /\ j + (k - j) = k
  OBVIOUS
<1>5. k - j \in T
  BY <1>3, <1>4
<1> QED BY <1>4, <1>5

\* The count of a number is of the numbers up to it.
LEMMA CountBounds ==
  ASSUME NEW S \in RowSets, NEW k \in Nat
  PROVE  Count(S, k) \in 0..k /\ (k \in S => Count(S, k) > 0)
<1>1. Count(S, 0) = 0 /\ Count(S, k) \in Nat
  BY CountNext
<1>2. Count(S, k) - Count(S, 0) <= k - 0 /\ (k \in S /\ 0 < k => Count(S, 0) < Count(S, k))
  BY CountGrows
<1>3. k \in S => k # 0
  BY DEF RowSets
<1> QED BY <1>1, <1>2, <1>3

\* All of a set of rows are counted at the last of all rows.
LEMMA CountAll ==
  ASSUME NEW n \in Nat, NEW S, S \subseteq 1..n
  PROVE  /\ S \in RowSets /\ IsFiniteSet(S)
         /\ Cardinality(S) \in Nat /\ Count(S, n) = Cardinality(S)
         /\ \A k \in 0..n : Count(S, k) \in 0..Cardinality(S)
<1>1. S \in RowSets
  BY DEF RowSets
<1>2. IsFiniteSet(S) /\ Cardinality(S) \in Nat
  <2>1. S \in SUBSET (1..n) /\ IsFiniteSet(1..n)
    BY FS_Interval
  <2> QED BY <2>1, FS_Subset, FS_CardinalityType
<1>3. UpTo(S, n) = S
  <2>1. \A j \in S : j <= n
    OBVIOUS
  <2> QED BY <2>1, Zenon DEF UpTo
<1>4. ASSUME NEW k \in 0..n PROVE Count(S, k) \in 0..Count(S, n)
  <2>1. k \in Nat /\ k <= n
    OBVIOUS
  <2>2. Count(S, k) \in Nat /\ Count(S, n) \in Nat
    BY <1>1, <2>1, CountNext
  <2> QED BY <1>1, <2>1, <2>2, CountGrows
<1> QED BY <1>1, <1>2, <1>3, <1>4 DEF Count

\* Of the members and the others together there are as many as there are numbers.
LEMMA CountOthers ==
  ASSUME NEW n \in Nat, NEW S, S \subseteq 1..n, NEW k \in 0..n
  PROVE  Count(S, k) + Count((1..n) \ S, k) = k
<1> DEFINE O == (1..n) \ S
           T == {j \in Nat : j <= n => Count(S, j) + Count(O, j) = j}
<1>0. O \in RowSets /\ S \in RowSets /\ \A j \in 1..n : j \in O <=> j \notin S
  BY DEF RowSets
<1> HIDE DEF O
<1>1. 0 \in T
  BY <1>0, CountNext
<1>2. ASSUME NEW j \in T PROVE j + 1 \in T
  <2>0. j \in Nat
    OBVIOUS
  <2>1. /\ Count(S, j + 1) = Count(S, j) + (IF j + 1 \in S THEN 1 ELSE 0)
        /\ Count(O, j + 1) = Count(O, j) + (IF j + 1 \in O THEN 1 ELSE 0)
        /\ Count(S, j) \in Nat /\ Count(O, j) \in Nat
    BY <1>0, <2>0, CountNext
  <2>2. j + 1 <= n => (j + 1 \in O <=> j + 1 \notin S)
    BY <1>0, <2>0
  <2> QED BY <2>0, <2>1, <2>2
<1>3. T = Nat
  <2> HIDE DEF T
  <2>1. T \subseteq Nat
    BY DEF T
  <2> QED BY <1>1, <1>2, <2>1, Induction
<1> QED BY <1>3 DEF O

\* Each number up to the cardinality is the count of exactly one member.
LEMMA CountHits ==
  ASSUME NEW n \in Nat, NEW S, S \subseteq 1..n, NEW m \in 1..Cardinality(S)
  PROVE  \E i \in S : Count(S, i) = m
<1> DEFINE T == {k \in Nat : m <= Count(S, k)}
<1>0. S \in RowSets /\ Count(S, n) = Cardinality(S) /\ Cardinality(S) \in Nat
  BY CountAll
<1>1. n \in T /\ T \subseteq Nat
  BY <1>0
<1>2. PICK k \in T : \A j \in T : k <= j
  <2> HIDE DEF T
  <2> QED BY <1>1, LeastNumber
<1>3. k \in Nat /\ m <= Count(S, k)
  BY <1>2
<1>4. Count(S, 0) = 0
  BY <1>0, CountNext
<1>5. k - 1 \in Nat /\ k - 1 + 1 = k /\ k - 1 \notin T
  BY <1>0, <1>2, <1>3, <1>4
<1>6. Count(S, k) = Count(S, k - 1) + (IF k \in S THEN 1 ELSE 0) /\ Count(S, k - 1) \in Nat
  <2> HIDE DEF T
  <2> QED BY <1>0, <1>5, CountNext
<1> QED BY <1>0, <1>3, <1>5, <1>6

LEMMA CountTells ==
  ASSUME NEW S \in RowSets, NEW i \in S, NEW j \in S, Count(S, i) = Count(S, j)
  PROVE  i = j
<1>1. i \in Nat /\ j \in Nat
  BY DEF RowSets
<1>2. Count(S, i) \in Nat /\ Count(S, j) \in Nat
  BY <1>1, CountNext
<1>3. i < j => Count(S, i) < Count(S, j)
  BY <1>1, CountGrows
<1>4. j < i => Count(S, j) < Count(S, i)
  BY <1>1, CountGrows
<1> QED BY <1>1, <1>2, <1>3, <1>4

-----------------------------------------------------------------------------
(* Sequences: what is picked of one, and one with more inside *)

\* The sequence of some of a sequence's members.
Chosen(r, s, S, T) ==
  /\ r \in Seq(T) /\ Len(r) = Cardinality(S)
  /\ \A i \in S : Count(S, i) \in 1..Cardinality(S) /\ r[Count(S, i)] = s[i]
  /\ \A m \in 1..Cardinality(S) : \E i \in S : Count(S, i) = m /\ r[m] = s[i]

\* Picking keeps the order: a member comes as far on as many were picked up to it.
LEMMA PickedGives ==
  ASSUME NEW T, NEW s \in Seq(T), NEW S, S \subseteq 1..Len(s)
  PROVE  Chosen(Picked(s, S), s, S, T)
<1> DEFINE n == Len(s)
           At(m) == CHOOSE i \in S : Count(S, i) = m
<1>1. n \in Nat /\ S \in RowSets /\ Cardinality(S) \in Nat
  <2>1. n \in Nat
    OBVIOUS
  <2> HIDE DEF n
  <2> QED BY <2>1, CountAll DEF n
<1>2. Picked(s, S) = [m \in 1..Cardinality(S) |-> s[At(m)]]
  BY DEF Picked, Count, UpTo
<1>3. ASSUME NEW m \in 1..Cardinality(S)
      PROVE  At(m) \in S /\ Count(S, At(m)) = m
  <2>1. \E i \in S : Count(S, i) = m
    BY <1>1, CountHits
  <2> QED BY <2>1
<1>4. ASSUME NEW i \in S
      PROVE  Count(S, i) \in 1..Cardinality(S) /\ At(Count(S, i)) = i
  <2>1. i \in Nat /\ i \in 0..n
    BY <1>1
  <2>2. Count(S, i) \in 1..Cardinality(S)
    <3>1. Count(S, i) \in 0..Cardinality(S)
      BY <1>1, <2>1, CountAll
    <3>2. Count(S, i) > 0
      BY <1>1, <2>1, CountBounds
    <3> QED BY <1>1, <3>1, <3>2
  <2>3. At(Count(S, i)) \in S /\ Count(S, At(Count(S, i))) = Count(S, i)
    BY <1>3, <2>2
  <2> HIDE DEF At
  <2> QED BY <1>1, <2>2, <2>3, CountTells
<1> HIDE DEF At
<1>5. ASSUME NEW m \in 1..Cardinality(S) PROVE s[At(m)] \in T
  <2>1. At(m) \in 1..Len(s)
    BY <1>3
  <2> QED BY <2>1, ElementOfSeq
<1>6. Picked(s, S) \in [1..Cardinality(S) -> T]
  BY <1>2, <1>5
<1>7. Picked(s, S) \in Seq(T) /\ Len(Picked(s, S)) = Cardinality(S)
  BY <1>1, <1>6
<1>8. ASSUME NEW i \in S
      PROVE  Count(S, i) \in 1..Cardinality(S) /\ Picked(s, S)[Count(S, i)] = s[i]
  BY <1>2, <1>4
<1>9. ASSUME NEW m \in 1..Cardinality(S)
      PROVE  At(m) \in S /\ Count(S, At(m)) = m /\ Picked(s, S)[m] = s[At(m)]
  BY <1>2, <1>3
<1>10. PICK r : r = Picked(s, S)
  OBVIOUS
<1>11. r \in Seq(T) /\ Len(r) = Cardinality(S)
  BY <1>7, <1>10
<1>12. \A i \in S : Count(S, i) \in 1..Cardinality(S) /\ r[Count(S, i)] = s[i]
  BY <1>8, <1>10
<1>13. \A m \in 1..Cardinality(S) : \E i \in S : Count(S, i) = m /\ r[m] = s[i]
  BY <1>9, <1>10, Zenon
<1> QED BY <1>10, <1>11, <1>12, <1>13, Zenon DEF Chosen

\* The same, part by part.
LEMMA PickedIs ==
  ASSUME NEW T, NEW s \in Seq(T), NEW S, S \subseteq 1..Len(s)
  PROVE  /\ Picked(s, S) \in Seq(T) /\ Len(Picked(s, S)) = Cardinality(S)
         /\ \A i \in S : /\ Count(S, i) \in 1..Cardinality(S)
                         /\ Picked(s, S)[Count(S, i)] = s[i]
         /\ \A m \in 1..Cardinality(S) :
              \E i \in S : Count(S, i) = m /\ Picked(s, S)[m] = s[i]
<1>1. Chosen(Picked(s, S), s, S, T)
  BY PickedGives
<1> QED BY <1>1 DEF Chosen

LEMMA CountOfAll ==
  ASSUME NEW n \in Nat, NEW k \in 0..n
  PROVE  Count(1..n, k) = k
<1>1. (1..n) \ (1..n) = {} /\ UpTo({}, k) = {}
  BY DEF UpTo
<1>2. Count({}, k) = 0
  BY <1>1, FS_EmptySet DEF Count
<1>3. Count(1..n, k) + Count((1..n) \ (1..n), k) = k
  BY CountOthers
<1>4. Count(1..n, k) \in Nat
  <2>1. 1..n \in RowSets /\ k \in Nat
    BY DEF RowSets
  <2> QED BY <2>1, CountNext
<1> QED BY <1>1, <1>2, <1>3, <1>4

\* All of a sequence is the sequence.
LEMMA PickedAll ==
  ASSUME NEW T, NEW s \in Seq(T)
  PROVE  Picked(s, 1..Len(s)) = s
<1> DEFINE n == Len(s)
           r == Picked(s, 1..n)
<1>1. n \in Nat /\ Cardinality(1..n) = n
  <2>1. n \in Nat
    OBVIOUS
  <2> HIDE DEF n
  <2>2. Cardinality(1..n) = IF 1 > n THEN 0 ELSE n - 1 + 1
    BY <2>1, FS_Interval
  <2> QED BY <2>1, <2>2
<1>2. r \in Seq(T) /\ Len(r) = n /\ \A i \in 1..n : r[Count(1..n, i)] = s[i]
  BY <1>1, PickedIs
<1>3. \A i \in 1..n : r[i] = s[i]
  BY <1>1, <1>2, CountOfAll
<1>4. r = s
  <2> HIDE DEF r
  <2> QED BY <1>2, <1>3, SeqEqual
<1> QED BY <1>4

LEMMA InsertedIs ==
  ASSUME NEW T, NEW s \in Seq(T), NEW more \in Seq(T), NEW at \in 1..(Len(s) + 1)
  PROVE  /\ Inserted(s, at, more) \in Seq(T)
         /\ Len(Inserted(s, at, more)) = Len(s) + Len(more)
         /\ \A i \in 1..(at - 1) : Inserted(s, at, more)[i] = s[i]
         /\ \A i \in 1..Len(more) : Inserted(s, at, more)[at - 1 + i] = more[i]
         /\ \A i \in at..Len(s) : Inserted(s, at, more)[i + Len(more)] = s[i]
<1> DEFINE a == SubSeq(s, 1, at - 1)
           b == SubSeq(s, at, Len(s))
<1>0. Len(s) \in Nat /\ Len(more) \in Nat /\ at \in Nat
  OBVIOUS
<1>1. a \in Seq(T) /\ Len(a) = at - 1 /\ \A i \in 1..(at - 1) : a[i] = s[i]
  <2>1. \A i \in 1..(at - 1) : s[i] \in T
    BY <1>0
  <2>2. 1 \in Int /\ at - 1 \in Int
    BY <1>0
  <2>3. /\ a \in Seq(T) /\ Len(a) = IF 1 <= at - 1 THEN at - 1 - 1 + 1 ELSE 0
        /\ \A i \in 1..(at - 1 - 1 + 1) : a[i] = s[1 + i - 1]
    BY <2>1, <2>2, SubSeqProperties
  <2> HIDE DEF a
  <2> QED BY <1>0, <2>3
<1>2. b \in Seq(T) /\ Len(b) = Len(s) - at + 1 /\ \A i \in 1..(Len(s) - at + 1) : b[i] = s[at + i - 1]
  <2>1. \A i \in at..Len(s) : s[i] \in T
    BY <1>0
  <2>2. at \in Int /\ Len(s) \in Int
    BY <1>0
  <2>3. /\ b \in Seq(T) /\ Len(b) = IF at <= Len(s) THEN Len(s) - at + 1 ELSE 0
        /\ \A i \in 1..(Len(s) - at + 1) : b[i] = s[at + i - 1]
    BY <2>1, <2>2, SubSeqProperties
  <2> HIDE DEF b
  <2> QED BY <1>0, <2>3
<1> HIDE DEF a, b
<1>3. /\ a \o more \in Seq(T) /\ Len(a \o more) = at - 1 + Len(more)
      /\ \A i \in 1..(at - 1 + Len(more)) :
           (a \o more)[i] = IF i <= at - 1 THEN a[i] ELSE more[i - (at - 1)]
  <2>1. a \in Seq(T) /\ more \in Seq(T)
    BY <1>1
  <2>2. /\ a \o more \in Seq(T) /\ Len(a \o more) = Len(a) + Len(more)
        /\ \A i \in 1..(Len(a) + Len(more)) :
             (a \o more)[i] = IF i <= Len(a) THEN a[i] ELSE more[i - Len(a)]
    BY <2>1, ConcatProperties, Zenon
  <2> QED BY <1>1, <2>2, Zenon
<1> DEFINE c == a \o more
<1> HIDE DEF c
<1>4. /\ c \o b \in Seq(T) /\ Len(c \o b) = Len(c) + Len(b)
      /\ \A i \in 1..(Len(c) + Len(b)) :
           (c \o b)[i] = IF i <= Len(c) THEN c[i] ELSE b[i - Len(c)]
  <2>1. c \in Seq(T) /\ b \in Seq(T)
    BY <1>2, <1>3 DEF c
  <2> QED BY <2>1, ConcatProperties, Zenon
<1>5. Inserted(s, at, more) = c \o b
  BY DEF Inserted, a, b, c
<1> DEFINE r == c \o b
<1>r. \A i \in 1..(Len(c) + Len(b)) : r[i] = IF i <= Len(c) THEN c[i] ELSE b[i - Len(c)]
  BY <1>4, Zenon
<1> HIDE DEF r
<1>6. /\ r \in Seq(T) /\ Len(r) = Len(s) + Len(more)
      /\ Len(c) = at - 1 + Len(more) /\ Len(b) = Len(s) - at + 1
  BY <1>0, <1>2, <1>3, <1>4 DEF r, c
<1>7. ASSUME NEW i \in 1..(at - 1) PROVE r[i] = s[i]
  <2>1. i \in 1..(Len(c) + Len(b)) /\ i <= Len(c) /\ i \in 1..(at - 1 + Len(more))
    BY <1>0, <1>6
  <2>2. r[i] = c[i]
    BY <1>r, <2>1
  <2>3. c[i] = a[i]
    BY <1>0, <1>3, <2>1 DEF c
  <2> QED BY <1>1, <2>2, <2>3
<1>8. ASSUME NEW i \in 1..Len(more) PROVE r[at - 1 + i] = more[i]
  <2>1. /\ at - 1 + i \in 1..(Len(c) + Len(b)) /\ at - 1 + i <= Len(c)
        /\ at - 1 + i \in 1..(at - 1 + Len(more)) /\ ~ (at - 1 + i <= at - 1)
        /\ at - 1 + i - (at - 1) = i
    BY <1>0, <1>6
  <2>2. r[at - 1 + i] = c[at - 1 + i]
    BY <1>r, <2>1
  <2>3. c[at - 1 + i] = more[at - 1 + i - (at - 1)]
    BY <1>3, <2>1 DEF c
  <2> QED BY <2>1, <2>2, <2>3
<1>9. ASSUME NEW i \in at..Len(s) PROVE r[i + Len(more)] = s[i]
  <2>1. /\ i + Len(more) \in 1..(Len(c) + Len(b)) /\ ~ (i + Len(more) <= Len(c))
        /\ i + Len(more) - Len(c) = i - at + 1 /\ i - at + 1 \in 1..(Len(s) - at + 1)
        /\ at + (i - at + 1) - 1 = i
    BY <1>0, <1>6
  <2>2. b[i - at + 1] = s[i]
    BY <1>2, <2>1
  <2>3. r[i + Len(more)] = b[i + Len(more) - Len(c)]
    BY <1>r, <2>1
  <2> QED BY <2>1, <2>2, <2>3
<1> QED BY <1>5, <1>6, <1>7, <1>8, <1>9 DEF r

-----------------------------------------------------------------------------
(* Types, and what next() gives *)

EntryType == [track : Tracks, part : Parts, giver : {"none", "own", "history"}, seeds : Nat,
              item : Items \cup {NoItem}, pending : BOOLEAN]
Entries == Seq(EntryType)
QueueFields ==
  {"entries", "playing", "own", "history", "historyGave", "withVibe", "historyAllowed",
   "stalled", "inHead", "headMark", "headStart", "contMark", "hint", "nav", "algorithm",
   "shuffle", "repeat", "generation", "asking", "changed", "luck"}

QueueOk(q) ==
  /\ QueueFields \subseteq DOMAIN q
  /\ q.entries \in Entries /\ q.playing \in 0..Len(q.entries)
  /\ q.contMark \in Int /\ q.hint \in Hint /\ q.changed \in BOOLEAN

LEMMA SomeRows ==
  ASSUME NEW q, QueueOk(q)
  PROVE  /\ Len(q.entries) \in Nat /\ Rows(q) = 1..Len(q.entries)
         /\ \A i \in Rows(q) : q.entries[i] \in EntryType
         /\ q.playing \in Nat /\ (HasCurrent(q) <=> q.playing # 0)
         /\ HasCurrent(q) => Current(q) \in EntryType
<1>1. q.entries \in Seq(EntryType) /\ q.playing \in 0..Len(q.entries)
  BY DEF QueueOk, Entries
<1>2. Len(q.entries) \in Nat /\ \A i \in 1..Len(q.entries) : q.entries[i] \in EntryType
  BY <1>1
<1>3. HasCurrent(q) <=> q.playing # 0
  BY <1>1, <1>2 DEF HasCurrent, Rows
<1> QED BY <1>1, <1>2, <1>3 DEF Rows, HasCurrent, Current

LEMMA SomePending ==
  ASSUME NEW q, QueueOk(q)
  PROVE  /\ Pending(q) \subseteq Rows(q)
         /\ Pending(q) # {} => /\ Least(Pending(q)) \in Pending(q)
                               /\ Greatest(Pending(q)) \in Pending(q)
                               /\ \A i \in Pending(q) : Least(Pending(q)) <= i /\ i <= Greatest(Pending(q))
<1>1. Pending(q) \subseteq 1..Len(q.entries) /\ Len(q.entries) \in Nat
  BY SomeRows DEF Pending
<1>2. Pending(q) \subseteq Nat
  BY <1>1
<1>3. Pending(q) # {} => /\ Least(Pending(q)) \in Pending(q)
                         /\ \A i \in Pending(q) : Least(Pending(q)) <= i
  BY <1>2, LeastIs
<1>4. Pending(q) # {} => /\ Greatest(Pending(q)) \in Pending(q)
                         /\ \A i \in Pending(q) : Greatest(Pending(q)) >= i
  BY <1>1, GreatestIs
<1> QED BY <1>1, <1>2, <1>3, <1>4 DEF Rows

\* IndexOf() gives the row of a part's entry, and none when there is no such entry.
LEMMA IndexIs ==
  ASSUME NEW q, QueueOk(q), NEW part, NEW ordinal
  PROVE  /\ IndexOf(q, part, ordinal) \in Nat
         /\ \/ IndexOf(q, part, ordinal) = 0 /\ ordinal \notin 1..CountOf(q, part)
            \/ /\ IndexOf(q, part, ordinal) \in RowsOf(q, part)
               /\ ordinal \in 1..CountOf(q, part)
               /\ OrdinalOf(q, IndexOf(q, part, ordinal)) = ordinal
<1> DEFINE S == RowsOf(q, part)
           n == Len(q.entries)
<1>1. S \subseteq 1..n /\ n \in Nat
  BY SomeRows DEF RowsOf
<1>2. \A i \in S : OrdinalOf(q, i) = Count(S, i)
  BY DEF OrdinalOf, RowsOf, Count, UpTo
<1>3. CASE ordinal \in 1..CountOf(q, part)
  <2>1. ordinal \in 1..Cardinality(S)
    BY <1>3 DEF CountOf
  <2>2. \E i \in S : Count(S, i) = ordinal
    <3> HIDE DEF S, n
    <3> QED BY <1>1, <2>1, CountHits
  <2>3. \E i \in S : OrdinalOf(q, i) = ordinal
    BY <1>2, <2>2
  <2>4. IndexOf(q, part, ordinal) \in S /\ OrdinalOf(q, IndexOf(q, part, ordinal)) = ordinal
    BY <1>3, <2>3 DEF IndexOf
  <2> QED BY <1>1, <1>3, <2>4
<1>4. CASE ordinal \notin 1..CountOf(q, part)
  BY <1>4 DEF IndexOf
<1> QED BY <1>3, <1>4

\* A row of a part is the one its ordinal gives.
LEMMA OrdinalTells ==
  ASSUME NEW q, QueueOk(q), NEW part, NEW i \in RowsOf(q, part)
  PROVE  /\ OrdinalOf(q, i) \in 1..CountOf(q, part)
         /\ IndexOf(q, part, OrdinalOf(q, i)) = i
<1> DEFINE S == RowsOf(q, part)
           n == Len(q.entries)
<1>1. S \subseteq 1..n /\ n \in Nat
  BY SomeRows DEF RowsOf
<1>2. \A j \in S : OrdinalOf(q, j) = Count(S, j)
  BY DEF OrdinalOf, RowsOf, Count, UpTo
<1>3. CountOf(q, part) = Cardinality(S)
  BY DEF CountOf
<1>4. IndexOf(q, part, OrdinalOf(q, i)) \in S \/ OrdinalOf(q, i) \notin 1..CountOf(q, part)
  BY IndexIs
<1>5. OrdinalOf(q, IndexOf(q, part, OrdinalOf(q, i))) = OrdinalOf(q, i) \/ OrdinalOf(q, i) \notin 1..CountOf(q, part)
  BY IndexIs
<1> HIDE DEF S, n
<1>6. i \in S /\ i \in 0..n /\ i \in Nat
  <2>1. i \in S
    BY DEF S
  <2> QED BY <1>1, <2>1
<1>7. S \in RowSets /\ Cardinality(S) \in Nat /\ Count(S, i) \in 0..Cardinality(S)
  BY <1>1, <1>6, CountAll
<1>8. Count(S, i) > 0
  BY <1>6, <1>7, CountBounds
<1>9. OrdinalOf(q, i) \in 1..CountOf(q, part)
  BY <1>2, <1>3, <1>6, <1>7, <1>8
<1>10. Count(S, IndexOf(q, part, OrdinalOf(q, i))) = Count(S, i)
  BY <1>2, <1>4, <1>5, <1>6, <1>9
<1> QED BY <1>4, <1>6, <1>7, <1>9, <1>10, CountTells

LEMMA NextIsRow ==
  ASSUME NEW q, QueueOk(q)
  PROVE  NextRow(q) \in Nat /\ (NextRow(q) # 0 => NextRow(q) \in Rows(q))
<1>1. \A part, ordinal : /\ IndexOf(q, part, ordinal) \in Nat
                         /\ IndexOf(q, part, ordinal) # 0 => IndexOf(q, part, ordinal) \in Rows(q)
  BY IndexIs DEF RowsOf
<1>2. Pending(q) # {} => Least(Pending(q)) \in Rows(q)
  BY SomePending
<1>3. Rows(q) \subseteq Nat
  BY SomeRows
<1> QED BY <1>1, <1>2, <1>3 DEF NextRow

\* What next() reads.
NextAlike(q, r) ==
  /\ r.entries = q.entries /\ r.inHead = q.inHead /\ r.nav = q.nav /\ r.repeat = q.repeat
  /\ r.own = q.own /\ r.contMark = q.contMark

LEMMA SameNext ==
  ASSUME NEW q, QueueOk(q), NEW r, QueueOk(r), NextAlike(q, r)
  PROVE  NextRow(r) = NextRow(q) /\ Rows(r) = Rows(q)
<1>1. Rows(r) = Rows(q) /\ Pending(r) = Pending(q)
  BY DEF NextAlike, Rows, Pending
<1>2. \A part : RowsOf(r, part) = RowsOf(q, part)
  BY <1>1 DEF NextAlike, RowsOf
<1>3. \A row : OrdinalOf(r, row) = OrdinalOf(q, row)
  BY <1>2 DEF NextAlike, OrdinalOf
<1>4. \A part, ordinal : IndexOf(r, part, ordinal) = IndexOf(q, part, ordinal)
  <2> TAKE part, ordinal
  <2>1. CountOf(r, part) = CountOf(q, part)
    BY <1>2 DEF CountOf
  <2>2. CASE ordinal \in 1..CountOf(q, part)
    <3>1. IndexOf(q, part, ordinal) \in RowsOf(r, part)
          /\ OrdinalOf(r, IndexOf(q, part, ordinal)) = ordinal
      BY <1>2, <1>3, <2>2, IndexIs
    <3> QED BY <3>1, OrdinalTells
  <2>3. CASE ordinal \notin 1..CountOf(q, part)
    BY <2>1, <2>3 DEF IndexOf
  <2> QED BY <2>2, <2>3
<1>5. WrapsHead(r) = WrapsHead(q)
  BY DEF NextAlike, WrapsHead
<1> QED BY <1>1, <1>4, <1>5 DEF NextAlike, NextRow

-----------------------------------------------------------------------------
(* remove(): the rows that stay *)

LEMMA CountOrder ==
  ASSUME NEW S \in RowSets, NEW i \in S, NEW k \in Nat
  PROVE  Count(S, i) <= Count(S, k) <=> i <= k
<1>1. i \in Nat /\ Count(S, i) \in Nat /\ Count(S, k) \in Nat
  BY CountNext DEF RowSets
<1>2. i <= k => Count(S, i) <= Count(S, k)
  BY <1>1, CountGrows
<1>3. k < i => Count(S, k) < Count(S, i)
  BY <1>1, CountGrows
<1> QED BY <1>1, <1>2, <1>3

\* The current entry stays, and the items that wait stand together right behind it.
KeepsCurrent(q, r) ==
  HasCurrent(q) => /\ HasCurrent(r) /\ Current(r).track = Current(q).track
                   /\ Current(r).giver = Current(q).giver
Run(S, a, b) == a \in Nat \ {0} /\ b \in Nat /\ S = a..b
Together(q) ==
  /\ \E a, b : Run(Pending(q), a, b) /\ (a <= b /\ HasCurrent(q) => a = q.playing + 1)
  /\ HasCurrent(q) => ~ IsPending(Current(q))

LEMMA EntriesAtIs ==
  ASSUME NEW q, QueueOk(q), NEW kept, kept \subseteq Rows(q)
  PROVE  /\ EntriesAt(q, kept) \in Seq(EntryType)
         /\ Len(EntriesAt(q, kept)) = Cardinality(kept)
         /\ \A i \in kept : /\ Count(kept, i) \in 1..Cardinality(kept)
                            /\ EntriesAt(q, kept)[Count(kept, i)] = q.entries[i]
         /\ \A m \in 1..Cardinality(kept) :
              \E i \in kept : Count(kept, i) = m /\ EntriesAt(q, kept)[m] = q.entries[i]
<1>1. q.entries \in Seq(EntryType) /\ kept \subseteq 1..Len(q.entries)
  BY SomeRows DEF QueueOk, Entries
<1>2. EntriesAt(q, kept) = Picked(q.entries, kept)
  BY DEF EntriesAt
<1> QED BY <1>1, <1>2, PickedIs, SMTT(30)

LEMMA KeptRows ==
  ASSUME NEW q, QueueOk(q), NEW kept, kept \subseteq Rows(q), NEW r, QueueOk(r),
         r.entries = EntriesAt(q, kept)
  PROVE  /\ Len(r.entries) = Cardinality(kept)
         /\ \A i \in kept : Count(kept, i) \in Rows(r) /\ r.entries[Count(kept, i)] = q.entries[i]
         /\ \A m \in Rows(r) : \E i \in kept : Count(kept, i) = m /\ r.entries[m] = q.entries[i]
<1>2. Rows(r) = 1..Len(r.entries)
  BY SomeRows
<1>4. /\ Len(r.entries) = Cardinality(kept)
      /\ \A i \in kept : /\ Count(kept, i) \in 1..Cardinality(kept)
                         /\ r.entries[Count(kept, i)] = q.entries[i]
      /\ \A m \in 1..Cardinality(kept) :
           \E i \in kept : Count(kept, i) = m /\ r.entries[m] = q.entries[i]
  BY EntriesAtIs
<1> QED BY <1>2, <1>4

\* A run of waiting items is one afterwards.
LEMMA KeptRun ==
  ASSUME NEW q, QueueOk(q), NEW kept, kept \subseteq Rows(q), NEW r, QueueOk(r),
         r.entries = EntriesAt(q, kept), NEW a, NEW b, Run(Pending(q), a, b), a <= b
  PROVE  Run(Pending(r), Count(kept, a - 1) + 1, Count(kept, b))
<1>1. /\ a \in Nat /\ b \in Nat /\ a - 1 \in Nat /\ kept \in RowSets
      /\ \A i : i \in Pending(q) <=> i \in a..b
  BY SomeRows DEF Run, RowSets
<1>2. Count(kept, a - 1) \in Nat /\ Count(kept, b) \in Nat
  BY <1>1, CountNext
<1>3. ASSUME NEW i \in kept
      PROVE  i \in Pending(q) <=> Count(kept, i) \in (Count(kept, a - 1) + 1)..Count(kept, b)
  <2>1. i \in Nat /\ Count(kept, i) \in Nat
    BY <1>1, CountNext DEF RowSets
  <2>2. Count(kept, i) <= Count(kept, b) <=> i <= b
    BY <1>1, CountOrder
  <2>3. Count(kept, i) <= Count(kept, a - 1) <=> i <= a - 1
    BY <1>1, CountOrder
  <2> QED BY <1>1, <1>2, <2>1, <2>2, <2>3
<1>4. ASSUME NEW m PROVE m \in Pending(r) <=> m \in (Count(kept, a - 1) + 1)..Count(kept, b)
  <2>1. ASSUME m \in Rows(r)
        PROVE  m \in Pending(r) <=> m \in (Count(kept, a - 1) + 1)..Count(kept, b)
    <3>1. PICK i \in kept : Count(kept, i) = m /\ r.entries[m] = q.entries[i]
      BY <2>1, KeptRows
    <3>2. m \in Pending(r) <=> i \in Pending(q)
      BY <2>1, <3>1 DEF Pending
    <3> QED BY <1>3, <3>1, <3>2
  <2>2. m \in Pending(r) => m \in Rows(r)
    BY DEF Pending
  <2>3. m \in (Count(kept, a - 1) + 1)..Count(kept, b) => m \in Rows(r)
    <3>1. Len(r.entries) = Cardinality(kept) /\ Rows(r) = 1..Cardinality(kept)
      BY KeptRows, SomeRows
    <3>2. b \in 0..Len(q.entries) /\ kept \subseteq 1..Len(q.entries) /\ Len(q.entries) \in Nat
      <4>1. b \in Pending(q)
        BY <1>1
      <4> QED BY <1>1, <4>1, SomeRows, SomePending
    <3>3. Count(kept, b) \in 0..Cardinality(kept) /\ Cardinality(kept) \in Nat
      BY <3>2, CountAll
    <3> QED BY <1>2, <3>1, <3>3
  <2> QED BY <2>1, <2>2, <2>3
<1>5. Count(kept, a - 1) + 1 \in Nat \ {0}
  BY <1>2
<1>6. Pending(r) = (Count(kept, a - 1) + 1)..Count(kept, b)
  BY <1>4
<1> QED BY <1>2, <1>5, <1>6 DEF Run

LEMMA KeptNone ==
  ASSUME NEW q, QueueOk(q), NEW kept, kept \subseteq Rows(q), NEW r, QueueOk(r),
         r.entries = EntriesAt(q, kept), Pending(q) = {}
  PROVE  Pending(r) = {}
<1> SUFFICES ASSUME NEW m \in Pending(r) PROVE FALSE
  OBVIOUS
<1>1. m \in Rows(r) /\ IsPending(r.entries[m])
  BY DEF Pending
<1>2. PICK i \in kept : r.entries[m] = q.entries[i]
  BY <1>1, KeptRows
<1> QED BY <1>1, <1>2 DEF Pending

\* The cursor stays on its entry, or moves to the one that follows it, or to none.
LEMMA CursorIs ==
  ASSUME NEW q, QueueOk(q), NEW rows, rows \subseteq Rows(q), NEW kept, kept = Rows(q) \ rows,
         NEW entries \in Seq(EntryType), Len(entries) = Cardinality(kept),
         NEW c, c = CursorAfter(q, rows, entries)
  PROVE  /\ c \in 0..Len(entries)
         /\ q.playing = 0 => c = 0
         /\ q.playing # 0 /\ q.playing \notin rows => c = Count(kept, q.playing) /\ c > 0
         /\ q.playing \in rows /\ c # 0 =>
              /\ ~ IsPending(entries[c])
              /\ Count(kept, q.playing) < Len(entries) => c = Count(kept, q.playing) + 1
<1> DEFINE n == Len(q.entries)
           before == Cardinality({i \in rows : i < q.playing})
           moved == q.playing - before
           follower == IF moved > Len(entries) THEN Len(entries) ELSE moved
<1>1. /\ n \in Nat /\ Rows(q) = 1..n /\ q.playing \in 0..n /\ q.playing \in Nat
      /\ kept \subseteq 1..n /\ rows \subseteq 1..n /\ kept = (1..n) \ rows
  <2>1. q.playing \in 0..Len(q.entries)
    BY DEF QueueOk
  <2> QED BY <2>1, SomeRows
<1>2. /\ Cardinality(kept) \in Nat /\ Len(entries) = Cardinality(kept)
      /\ kept \in RowSets /\ rows \in RowSets
      /\ Count(kept, q.playing) \in 0..Cardinality(kept)
  <2> HIDE DEF n
  <2> QED BY <1>1, CountAll
<1>3. Count(rows, q.playing) + Count(kept, q.playing) = q.playing
      /\ Count(rows, q.playing) \in Nat
  <2> HIDE DEF n
  <2>1. Count(rows, q.playing) \in Nat
    BY <1>1, <1>2, CountNext
  <2> QED BY <1>1, <2>1, CountOthers
<1>4. CASE q.playing = 0
  <2>1. {i \in rows : i < q.playing} = {}
    <3>1. \A i \in rows : ~ (i < q.playing)
      BY <1>1, <1>4
    <3> QED BY <3>1
  <2>2. before = 0
    BY <2>1, FS_EmptySet
  <2>3. q.playing \notin rows
    BY <1>1, <1>4
  <2>4. moved = 0
    BY <1>4, <2>2
  <2>5. c = IF entries = <<>> THEN 0 ELSE moved
    BY <2>3 DEF CursorAfter
  <2> QED BY <1>2, <1>4, <2>3, <2>4, <2>5
<1>5. CASE q.playing # 0
  <2>1. q.playing - 1 \in Nat /\ q.playing - 1 + 1 = q.playing
    BY <1>1, <1>5
  <2>2. before = Count(rows, q.playing - 1)
    <3>1. \A i \in rows : i < q.playing <=> i <= q.playing - 1
      BY <1>1
    <3>2. {i \in rows : i < q.playing} = UpTo(rows, q.playing - 1)
      BY <3>1 DEF UpTo
    <3> QED BY <3>2 DEF Count
  <2>3. /\ before \in Nat
        /\ Count(rows, q.playing) = before + (IF q.playing \in rows THEN 1 ELSE 0)
    <3> HIDE DEF before
    <3>1. \A k \in Nat : /\ Count(rows, k) \in Nat
                          /\ Count(rows, k + 1) = Count(rows, k) + (IF k + 1 \in rows THEN 1 ELSE 0)
      BY <1>2, CountNext
    <3> QED BY <2>1, <2>2, <3>1
  <2>4. CASE q.playing \notin rows
    <3>1. q.playing \in kept
      BY <1>1, <1>5, <2>4
    <3>2. Count(kept, q.playing) > 0
      BY <1>1, <1>2, <3>1, CountBounds
    <3>3. moved = Count(kept, q.playing)
      BY <1>1, <1>2, <1>3, <2>3, <2>4
    <3>4. entries # <<>>
      <4>1. Len(entries) > 0
        BY <1>2, <3>2
      <4> QED BY <4>1, EmptySeq
    <3>5. c = moved
      BY <2>4, <3>4 DEF CursorAfter
    <3> QED BY <1>2, <1>5, <2>4, <3>2, <3>3, <3>5
  <2>5. CASE q.playing \in rows
    <3>1. moved = Count(kept, q.playing) + 1
      BY <1>1, <1>2, <1>3, <2>3, <2>5
    <3>2. c = IF entries = <<>> THEN 0 ELSE IF IsPending(entries[follower]) THEN 0 ELSE follower
      BY <2>5 DEF CursorAfter
    <3>3. follower \in 0..Len(entries)
      BY <1>2, <3>1
    <3>4. Count(kept, q.playing) < Len(entries) => follower = Count(kept, q.playing) + 1
      BY <1>2, <3>1
    <3> HIDE DEF follower
    <3> QED BY <1>2, <1>5, <2>5, <3>2, <3>3, <3>4
  <2> QED BY <2>4, <2>5
<1> QED BY <1>4, <1>5

LEMMA WithoutIs ==
  ASSUME NEW q, QueueOk(q), NEW rows, rows \subseteq Rows(q), NEW kept, kept = Rows(q) \ rows,
         NEW r, r = WithoutRows(q, rows, EntriesAt(q, kept))
  PROVE  /\ QueueOk(r) /\ r.hint = q.hint /\ (r.changed <=> q.changed \/ rows # {})
         /\ r.entries = EntriesAt(q, kept)
         /\ HasCurrent(q) /\ q.playing \notin rows => HasCurrent(r) /\ Current(r) = Current(q)
         /\ rows = {} => NextAlike(q, r) /\ r.playing = q.playing
         /\ Together(q) => Together(r)
<1> DEFINE entries == EntriesAt(q, kept)
           c == CursorAfter(q, rows, entries)
           mark == MarkAfter(q, rows, "Continuation", q.contMark)
<1>1. /\ kept \subseteq 1..Len(q.entries) /\ kept \subseteq Rows(q) /\ q.entries \in Seq(EntryType)
      /\ rows \subseteq 1..Len(q.entries) /\ Len(q.entries) \in Nat /\ q.playing \in Nat
      /\ q.contMark \in Int /\ q.changed \in BOOLEAN /\ q.hint \in Hint
  BY SomeRows DEF QueueOk, Entries
<1>2. entries \in Seq(EntryType) /\ Len(entries) = Cardinality(kept)
  <2>1. EntriesAt(q, kept) \in Seq(EntryType) /\ Len(EntriesAt(q, kept)) = Cardinality(kept)
    BY <1>1, EntriesAtIs
  <2> QED BY <2>1
<1>3. /\ r.entries = entries /\ r.playing = c /\ r.contMark = mark
      /\ r.changed = (q.changed \/ rows # {}) /\ r.hint = q.hint
      /\ r.inHead = q.inHead /\ r.nav = q.nav /\ r.repeat = q.repeat /\ r.own = q.own
      /\ DOMAIN r = DOMAIN q
  BY DEF WithoutRows, QueueOk, QueueFields
<1>4. mark \in Int /\ (rows = {} => mark = q.contMark)
  <2> DEFINE M == {i \in rows \cap RowsOf(q, "Continuation") : OrdinalOf(q, i) <= q.contMark}
  <2>1. M \subseteq 1..Len(q.entries)
    BY <1>1
  <2>2. Cardinality(M) \in Nat
    <3> HIDE DEF M
    <3> QED BY <1>1, <2>1, CountAll
  <2>3. rows = {} => Cardinality(M) = 0
    BY FS_EmptySet
  <2>4. mark = q.contMark - Cardinality(M)
    BY DEF MarkAfter
  <2> HIDE DEF M, mark
  <2> QED BY <1>1, <2>2, <2>3, <2>4
<1> HIDE DEF mark
<1>5. /\ c \in 0..Len(entries)
      /\ q.playing = 0 => c = 0
      /\ q.playing # 0 /\ q.playing \notin rows => c = Count(kept, q.playing) /\ c > 0
      /\ q.playing \in rows /\ c # 0 =>
           /\ ~ IsPending(entries[c])
           /\ Count(kept, q.playing) < Len(entries) => c = Count(kept, q.playing) + 1
  <2> HIDE DEF entries, c
  <2> QED BY <1>2, CursorIs DEF c
<1> HIDE DEF c
<1>6. QueueOk(r)
  BY <1>1, <1>2, <1>3, <1>4, <1>5 DEF QueueOk, Entries
<1> HIDE DEF entries
<1>7. r.entries = EntriesAt(q, kept)
  BY <1>3 DEF entries
<1>8. \A i \in kept : Count(kept, i) \in Rows(r) /\ r.entries[Count(kept, i)] = q.entries[i]
  <2>1. kept \subseteq Rows(q)
    BY <1>1
  <2> QED BY <1>6, <1>7, <2>1, KeptRows
<1>9. ASSUME HasCurrent(q), q.playing \notin rows PROVE HasCurrent(r) /\ Current(r) = Current(q)
  <2>1. q.playing \in kept /\ q.playing # 0
    BY <1>1, <1>9, SomeRows DEF HasCurrent
  <2> QED BY <1>3, <1>5, <1>8, <1>9, <2>1 DEF HasCurrent, Current
<1>10. ASSUME rows = {} PROVE NextAlike(q, r) /\ r.playing = q.playing
  <2>1. kept = 1..Len(q.entries) /\ q.playing \notin rows
    BY <1>10, SomeRows
  <2>2. entries = q.entries
    BY <1>1, <2>1, PickedAll DEF entries, EntriesAt
  <2>3. q.playing # 0 => c = q.playing
    <3>1. q.playing \in 0..Len(q.entries)
      BY DEF QueueOk
    <3> QED BY <1>1, <1>5, <2>1, <3>1, CountOfAll
  <2> QED BY <1>3, <1>4, <1>5, <1>10, <2>2, <2>3 DEF NextAlike
<1>11. ASSUME Together(q) PROVE Together(r)
  <2>1. PICK a, b : Run(Pending(q), a, b) /\ (a <= b /\ HasCurrent(q) => a = q.playing + 1)
    BY <1>11 DEF Together
  <2>2. CASE ~ (a <= b)
    <3>1. Pending(q) = {}
      BY <2>1, <2>2 DEF Run
    <3>2. Pending(r) = {}
      <4> QED BY <1>1, <1>6, <1>7, <3>1, KeptNone
    <3>3. Run(Pending(r), 1, 0)
      BY <3>2 DEF Run
    <3>4. HasCurrent(r) => ~ IsPending(Current(r))
      BY <3>2 DEF HasCurrent, Current, Pending
    <3> QED BY <3>3, <3>4 DEF Together
  <2>3. CASE a <= b
    <3> DEFINE a1 == Count(kept, a - 1) + 1
               b1 == Count(kept, b)
    <3>1. Run(Pending(r), a1, b1)
      <4> QED BY <1>1, <1>6, <1>7, <2>1, <2>3, KeptRun
    <3>2. CASE q.playing = 0
      <4>1. ~ HasCurrent(r)
        BY <1>3, <1>5, <1>6, <3>2, SomeRows
      <4> QED BY <3>1, <4>1 DEF Together
    <3>3. CASE q.playing # 0 /\ q.playing \notin rows
      <4>1. HasCurrent(q)
        BY <3>3, SomeRows
      <4>2. a - 1 = q.playing
        BY <1>1, <2>1, <2>3, <4>1 DEF Run
      <4>3. a1 = r.playing + 1
        BY <1>3, <1>5, <3>3, <4>2
      <4>4. ~ IsPending(Current(r))
        BY <1>9, <1>11, <3>3, <4>1 DEF Together
      <4> QED BY <3>1, <4>3, <4>4 DEF Together
    <3>4. CASE q.playing \in rows
      <4>1. HasCurrent(q)
        BY <3>4, SomeRows DEF HasCurrent
      <4>2. a - 1 = q.playing
        BY <1>1, <2>1, <2>3, <4>1 DEF Run
      <4>3. CASE c = 0
        <5>1. ~ HasCurrent(r)
          BY <1>3, <1>6, <4>3, SomeRows
        <5> QED BY <3>1, <5>1 DEF Together
      <4>4. CASE c # 0
        <5>1. ~ IsPending(r.entries[c]) /\ c \in Rows(r)
          BY <1>3, <1>5, <1>6, <3>4, <4>4, SomeRows
        <5>2. c \notin a1..b1
          BY <3>1, <5>1 DEF Pending, Run
        <5>3. a1 <= b1 => c = a1
          <6>1. ASSUME a1 <= b1 PROVE Count(kept, q.playing) < Len(entries)
            <7>1. b1 \in Pending(r) /\ a1 \in Nat /\ b1 \in Nat
              BY <3>1, <6>1 DEF Run
            <7>2. b1 \in 1..Len(entries) /\ Len(entries) \in Nat
              BY <1>3, <1>6, <7>1, SomeRows, SomePending
            <7>3. Count(kept, a - 1) \in Nat
              <8>1. kept \in RowSets /\ a - 1 \in Nat
                BY <1>1, <4>2 DEF RowSets
              <8> QED BY <8>1, CountNext
            <7> QED BY <4>2, <6>1, <7>1, <7>2, <7>3
          <6> QED BY <1>5, <3>4, <4>2, <4>4, <6>1
        <5>4. ~ (a1 <= b1)
          <6>1. a1 \in Nat /\ b1 \in Nat
            BY <3>1 DEF Run
          <6> QED BY <5>2, <5>3, <6>1
        <5>5. ~ IsPending(Current(r))
          BY <1>3, <5>1 DEF Current
        <5> QED BY <3>1, <5>4, <5>5 DEF Together
      <4> QED BY <4>3, <4>4
    <3> QED BY <3>2, <3>3, <3>4
  <2> QED BY <2>2, <2>3
<1> QED BY <1>3, <1>6, <1>7, <1>9, <1>10, <1>11

-----------------------------------------------------------------------------
(* What the public methods are made of *)

\* Neither a row nor the cursor moves.
SameRows(q, r) ==
  /\ QueueFields \subseteq DOMAIN r
  /\ r.entries = q.entries /\ r.playing = q.playing /\ r.contMark = q.contMark
  /\ r.hint = q.hint /\ r.changed = q.changed

LEMMA SameRowsOk ==
  ASSUME NEW q, QueueOk(q), NEW r, SameRows(q, r)
  PROVE  /\ QueueOk(r) /\ KeepsCurrent(q, r) /\ (Together(q) => Together(r))
         /\ HasCurrent(r) = HasCurrent(q) /\ (HasCurrent(q) => Current(r) = Current(q))
         /\ Rows(r) = Rows(q) /\ Pending(r) = Pending(q)
<1>1. Rows(r) = Rows(q) /\ Pending(r) = Pending(q)
  BY DEF SameRows, Rows, Pending
<1>2. HasCurrent(r) = HasCurrent(q) /\ Current(r) = Current(q)
  BY <1>1 DEF SameRows, HasCurrent, Current
<1>3. QueueOk(r)
  BY DEF SameRows, QueueOk
<1>4. Together(q) => Together(r)
  BY <1>1, <1>2 DEF Together, SameRows
<1> QED BY <1>1, <1>2, <1>3, <1>4 DEF KeepsCurrent

LEMMA ResetNavigatorIs ==
  ASSUME NEW q, QueueOk(q), NEW r, r = ResetNavigator(q)
  PROVE  SameRows(q, r) /\ r.own = q.own /\ r.inHead = q.inHead /\ r.repeat = q.repeat
BY DEF ResetNavigator, SameRows, QueueOk, QueueFields

LEMMA KnownStartIs ==
  ASSUME NEW q, QueueOk(q), NEW r, r = KnownStart(q)
  PROVE  SameRows(q, r) /\ NextAlike(q, r)
BY DEF KnownStart, SameRows, NextAlike, QueueOk, QueueFields

\* markCurrent() leaves the rows what they are; the current one waits no more.
Marks(q, r) ==
  /\ QueueOk(r) /\ Len(r.entries) = Len(q.entries) /\ r.playing = q.playing
  /\ r.hint = q.hint /\ r.changed = q.changed /\ r.own = q.own
  /\ \A i \in Rows(q) : /\ r.entries[i].track = q.entries[i].track
                        /\ r.entries[i].part = q.entries[i].part
                        /\ r.entries[i].giver = q.entries[i].giver
  /\ Pending(r) = Pending(q) \ {q.playing}

LEMMA MarkCurrentIs ==
  ASSUME NEW q, QueueOk(q), NEW r, r = MarkCurrent(q)
  PROVE  Marks(q, r)
<1> USE DEF Marks
<1>1. CASE ~ HasCurrent(q)
  <2>1. r = q
    BY <1>1 DEF MarkCurrent
  <2>2. q.playing \notin Pending(q)
    BY <1>1, SomePending DEF HasCurrent
  <2> QED BY <2>1, <2>2
<1>2. CASE HasCurrent(q)
  <2> DEFINE ordinal == OrdinalOf(q, q.playing)
             e == Current(q)
  <2>1. /\ q.playing \in Rows(q) /\ e \in EntryType /\ e = q.entries[q.playing]
        /\ q.playing \in 1..Len(q.entries) /\ q.entries \in Seq(EntryType)
    BY <1>2, SomeRows DEF HasCurrent, Current, QueueOk, Entries
  <2>2. ordinal \in Int
    <3>1. q.playing \in RowsOf(q, e.part)
      BY <2>1 DEF RowsOf
    <3>2. ordinal \in 1..CountOf(q, e.part)
      BY <3>1, OrdinalTells
    <3> QED BY <3>2
  <2> HIDE DEF ordinal
  <2>3. CASE e.part = "Item"
    <3>1. r = [q EXCEPT !.entries = [q.entries EXCEPT ![q.playing] = [e EXCEPT !.pending = FALSE]]]
      BY <1>2, <2>1, <2>3 DEF MarkCurrent
    <3> DEFINE new == [e EXCEPT !.pending = FALSE]
               es == [q.entries EXCEPT ![q.playing] = new]
    <3>2. /\ new \in EntryType /\ new.track = e.track /\ new.part = e.part /\ new.giver = e.giver
          /\ ~ IsPending(new)
      BY <2>1 DEF EntryType, IsPending
    <3> HIDE DEF new
    <3>3. /\ es \in Seq(EntryType) /\ Len(es) = Len(q.entries)
          /\ \A i \in 1..Len(q.entries) : es[i] = IF i = q.playing THEN new ELSE q.entries[i]
      BY <2>1, <3>2, ExceptSeq
    <3> HIDE DEF es
    <3>4. /\ r.entries = es /\ r.playing = q.playing /\ r.hint = q.hint /\ r.changed = q.changed
          /\ r.contMark = q.contMark /\ DOMAIN r = DOMAIN q /\ r.own = q.own
      BY <3>1 DEF es, new, QueueOk, QueueFields
    <3>5. QueueOk(r)
      BY <3>3, <3>4 DEF QueueOk, Entries
    <3>6. Rows(r) = Rows(q) /\ Rows(q) = 1..Len(q.entries)
      BY <3>3, <3>4 DEF Rows
    <3>7. Pending(r) = Pending(q) \ {q.playing}
      BY <2>1, <3>2, <3>3, <3>4, <3>6 DEF Pending
    <3> QED BY <2>1, <3>2, <3>3, <3>4, <3>5, <3>6, <3>7
  <2>4. CASE e.part # "Item"
    <3>1. e.part \in {"Head", "Continuation", "Other"}
      BY <2>1, <2>4 DEF EntryType, Parts
    <3>2. /\ r.entries = q.entries /\ r.playing = q.playing /\ r.hint = q.hint
          /\ r.changed = q.changed /\ DOMAIN r = DOMAIN q /\ r.own = q.own
          /\ r.contMark \in {q.contMark, ordinal}
      BY <1>2, <3>1 DEF MarkCurrent, ordinal, QueueOk, QueueFields
    <3>3. QueueOk(r)
      BY <2>2, <3>2 DEF QueueOk
    <3>4. Rows(r) = Rows(q) /\ Pending(r) = Pending(q)
      BY <3>2 DEF Rows, Pending
    <3>5. q.playing \notin Pending(q)
      BY <2>1, <2>4 DEF Pending, IsPending
    <3> QED BY <3>2, <3>3, <3>4, <3>5
  <2> QED BY <2>3, <2>4
<1> QED BY <1>1, <1>2

LEMMA MarksKeep ==
  ASSUME NEW q, QueueOk(q), NEW r, Marks(q, r)
  PROVE  /\ HasCurrent(r) = HasCurrent(q)
         /\ HasCurrent(q) => /\ Current(r).track = Current(q).track
                             /\ Current(r).giver = Current(q).giver
                             /\ ~ IsPending(Current(r))
         /\ Together(q) => Together(r)
<1>1. Rows(r) = Rows(q)
  BY DEF Marks, Rows
<1>2. HasCurrent(r) = HasCurrent(q)
  BY <1>1 DEF Marks, HasCurrent
<1>3. ASSUME HasCurrent(q)
      PROVE  /\ Current(r).track = Current(q).track /\ Current(r).giver = Current(q).giver
             /\ ~ IsPending(Current(r))
  <2>1. q.playing \in Rows(q) /\ r.playing = q.playing
    BY <1>3 DEF HasCurrent, Marks
  <2>2. q.playing \notin Pending(r)
    BY DEF Marks
  <2> QED BY <1>1, <2>1, <2>2 DEF Marks, Current, Pending
<1>4. ASSUME Together(q) PROVE Together(r)
  <2>1. q.playing \notin Pending(q)
    BY <1>4 DEF Together, HasCurrent, Current, Pending
  <2>2. Pending(r) = Pending(q) /\ r.playing = q.playing
    BY <2>1 DEF Marks
  <2> QED BY <1>2, <1>3, <1>4, <2>2 DEF Together
<1> QED BY <1>2, <1>3, <1>4

\* A row that goes never takes the current one with it.
LEMMA RemoveRowsIs ==
  ASSUME NEW q, QueueOk(q), NEW given, NEW r, r = RemoveRows(q, given)
  PROVE  /\ QueueOk(r) /\ r.hint = q.hint
         /\ r.changed <=> q.changed \/ given \cap Rows(q) # {}
         /\ q.playing \notin given /\ HasCurrent(q) => HasCurrent(r) /\ Current(r) = Current(q)
         /\ given \cap Rows(q) = {} => NextAlike(q, r) /\ r.playing = q.playing
         /\ Together(q) => Together(r)
<1> DEFINE rows == given \cap Rows(q)
           kept == Rows(q) \ rows
<1>1. PICK m : m = WithoutRows(q, rows, EntriesAt(q, kept))
  OBVIOUS
<1>2. /\ QueueOk(m) /\ m.hint = q.hint /\ (m.changed <=> q.changed \/ rows # {})
      /\ HasCurrent(q) /\ q.playing \notin rows => HasCurrent(m) /\ Current(m) = Current(q)
      /\ rows = {} => NextAlike(q, m) /\ m.playing = q.playing
      /\ Together(q) => Together(m)
  BY <1>1, WithoutIs
<1>3. PICK n : n = When(q.playing \in rows, MarkCurrent(m), m)
  OBVIOUS
<1>4. /\ QueueOk(n) /\ n.hint = q.hint /\ n.changed = m.changed
      /\ HasCurrent(q) /\ q.playing \notin rows => HasCurrent(n) /\ Current(n) = Current(q)
      /\ rows = {} => NextAlike(q, n) /\ n.playing = q.playing
      /\ Together(q) => Together(n)
  <2>1. CASE q.playing \in rows
    <3>1. n = MarkCurrent(m)
      BY <1>3, <2>1 DEF When
    <3>2. Marks(m, n)
      BY <1>2, <3>1, MarkCurrentIs
    <3>3. Together(m) => Together(n)
      BY <1>2, <3>2, MarksKeep
    <3>4. rows # {}
      BY <2>1
    <3> HIDE DEF rows
    <3> QED BY <1>2, <2>1, <3>2, <3>3, <3>4 DEF Marks
  <2>2. CASE q.playing \notin rows
    <3>1. n = m
      BY <1>3, <2>2 DEF When
    <3> QED BY <1>2, <3>1
  <2> QED BY <2>1, <2>2
<1>5. PICK k : k = KnownStart(n)
  OBVIOUS
<1>6. SameRows(n, k) /\ NextAlike(n, k)
  BY <1>4, <1>5, KnownStartIs
<1>7. QueueOk(k)
  BY <1>4, <1>6, SameRowsOk
<1>8. r = When(rows \cap RowsOf(q, "Head") # {}, ResetNavigator(k), k)
  BY <1>1, <1>3, <1>5 DEF RemoveRows
<1>9. SameRows(k, r) /\ (rows = {} => r = k)
  <2>1. r = ResetNavigator(k) \/ (r = k /\ SameRows(k, k))
    BY <1>7, <1>8 DEF When, SameRows, QueueOk
  <2> QED BY <1>7, <1>8, <2>1, ResetNavigatorIs DEF When
<1>10. SameRows(n, r)
  BY <1>6, <1>9 DEF SameRows
<1>11. /\ QueueOk(r) /\ HasCurrent(r) = HasCurrent(n) /\ (HasCurrent(n) => Current(r) = Current(n))
       /\ Together(n) => Together(r)
  BY <1>4, <1>10, SameRowsOk
<1>12. r.hint = q.hint /\ r.changed = m.changed
  BY <1>4, <1>10 DEF SameRows
<1>13. rows = {} => NextAlike(q, r) /\ r.playing = q.playing
  BY <1>4, <1>6, <1>9 DEF NextAlike, SameRows
<1>14. q.playing \notin given => q.playing \notin rows
  OBVIOUS
<1> HIDE DEF rows, kept
<1>15. r.changed <=> q.changed \/ rows # {}
  BY <1>2, <1>12
<1>16. q.playing \notin given /\ HasCurrent(q) => HasCurrent(r) /\ Current(r) = Current(q)
  BY <1>4, <1>11, <1>14
<1>17. Together(q) => Together(r)
  BY <1>4, <1>11
<1> QED BY <1>11, <1>12, <1>13, <1>15, <1>16, <1>17 DEF rows

\* More rows come in: the current entry is what it was, and what waits is told.
Grown(q, r, at, more) ==
  /\ QueueOk(r) /\ r.changed /\ r.hint = q.hint /\ r.own = q.own
  /\ HasCurrent(r) = HasCurrent(q) /\ (HasCurrent(q) => Current(r) = Current(q))
  /\ r.playing = q.playing + (IF at <= q.playing THEN Len(more) ELSE 0)
  /\ \A i \in Nat : i \in Pending(r) <=>
       \/ i < at /\ i \in Pending(q)
       \/ i >= at /\ i < at + Len(more) /\ IsPending(more[i - at + 1])
       \/ i >= at + Len(more) /\ i - Len(more) \in Pending(q)

LEMMA InsertRowsIs ==
  ASSUME NEW q, QueueOk(q), NEW more \in Seq(EntryType), NEW at \in 1..(Len(q.entries) + 1),
         NEW r, r = InsertRows(q, at, more)
  PROVE  Grown(q, r, at, more)
<1>0. q.entries \in Seq(EntryType)
  BY DEF QueueOk, Entries
<1>a. /\ Inserted(q.entries, at, more) \in Seq(EntryType)
      /\ Len(Inserted(q.entries, at, more)) = Len(q.entries) + Len(more)
      /\ \A i \in 1..(at - 1) : Inserted(q.entries, at, more)[i] = q.entries[i]
      /\ \A i \in 1..Len(more) : Inserted(q.entries, at, more)[at - 1 + i] = more[i]
      /\ \A i \in at..Len(q.entries) : Inserted(q.entries, at, more)[i + Len(more)] = q.entries[i]
  BY <1>0, InsertedIs, ZenonT(60)
<1> DEFINE n == Len(q.entries)
           l == Len(more)
           es == Inserted(q.entries, at, more)
<1>1. /\ q.entries \in Seq(EntryType) /\ n \in Nat /\ l \in Nat /\ at \in Nat /\ at > 0
      /\ at <= n + 1 /\ q.playing \in 0..n /\ Rows(q) = 1..n
  BY SomeRows DEF QueueOk, Entries
<1>2. /\ es \in Seq(EntryType) /\ Len(es) = n + l
      /\ \A i \in 1..(at - 1) : es[i] = q.entries[i]
      /\ \A i \in 1..l : es[at - 1 + i] = more[i]
      /\ \A i \in at..n : es[i + l] = q.entries[i]
  BY <1>a
<1>3. /\ r.entries = es /\ r.playing = q.playing + (IF at <= q.playing THEN l ELSE 0)
      /\ r.contMark = q.contMark /\ r.hint = q.hint /\ r.changed = TRUE /\ DOMAIN r = DOMAIN q
      /\ r.own = q.own
  <2>1. /\ r.entries = es /\ r.playing = (IF at <= q.playing THEN q.playing + l ELSE q.playing)
        /\ r.contMark = q.contMark /\ r.hint = q.hint /\ r.changed = TRUE /\ DOMAIN r = DOMAIN q
        /\ r.own = q.own
    BY DEF InsertRows, QueueOk, QueueFields
  <2> HIDE DEF es, n, l
  <2> QED BY <1>1, <2>1
<1> HIDE DEF es, l, n
<1>4. QueueOk(r)
  <2>1. r.playing \in 0..(n + l)
    BY <1>1, <1>3
  <2> QED BY <1>1, <1>2, <1>3, <2>1 DEF QueueOk, Entries
<1>5. Rows(r) = 1..(n + l)
  BY <1>2, <1>3 DEF Rows
<1>6. HasCurrent(r) = HasCurrent(q)
  <2>1. HasCurrent(r) <=> q.playing # 0
    BY <1>1, <1>3, <1>4, SomeRows
  <2> QED BY <2>1, SomeRows DEF HasCurrent
<1>7. ASSUME HasCurrent(q) PROVE Current(r) = Current(q)
  <2>1. q.playing \in 1..n
    BY <1>1, <1>7 DEF HasCurrent
  <2>2. CASE at <= q.playing
    <3>1. q.playing \in at..n /\ r.playing = q.playing + l
      BY <1>1, <1>3, <2>1, <2>2
    <3> QED BY <1>2, <1>3, <3>1 DEF Current
  <2>3. CASE ~ (at <= q.playing)
    <3>1. q.playing \in 1..(at - 1) /\ r.playing = q.playing
      BY <1>1, <1>3, <2>1, <2>3
    <3> QED BY <1>2, <1>3, <3>1 DEF Current
  <2> QED BY <2>2, <2>3
<1>8. ASSUME NEW i \in Nat
      PROVE  i \in Pending(r) <=>
              \/ i < at /\ i \in Pending(q)
              \/ i >= at /\ i < at + l /\ IsPending(more[i - at + 1])
              \/ i >= at + l /\ i - l \in Pending(q)
  <2>1. \A j : j \in Pending(q) <=> j \in 1..n /\ IsPending(q.entries[j])
    BY <1>1 DEF Pending
  <2>2. i \in Pending(r) <=> i \in 1..(n + l) /\ IsPending(es[i])
    BY <1>3, <1>5 DEF Pending
  <2>3. CASE i < at
    <3>1. i # 0 => i \in 1..(at - 1) /\ i \in 1..n /\ i \in 1..(n + l)
      BY <1>1, <2>3
    <3>2. ~ (i >= at) /\ ~ (i >= at + l)
      BY <1>1, <2>3
    <3> QED BY <1>2, <2>1, <2>2, <2>3, <3>1, <3>2
  <2>4. CASE i >= at /\ i < at + l
    <3>1. i - at + 1 \in 1..l /\ at - 1 + (i - at + 1) = i /\ i \in 1..(n + l)
      BY <1>1, <2>4
    <3>2. ~ (i < at) /\ ~ (i >= at + l)
      BY <1>1, <2>4
    <3>3. es[i] = more[i - at + 1]
      BY <1>2, <3>1
    <3> QED BY <2>2, <2>4, <3>1, <3>2, <3>3
  <2>5. CASE i >= at + l
    <3>1. /\ i - l \in 1..n <=> i \in 1..(n + l)
          /\ i - l \in 1..n => i - l \in at..n
          /\ i - l + l = i
      BY <1>1, <2>5
    <3>2. ~ (i < at) /\ ~ (i < at + l)
      BY <1>1, <2>5
    <3>3. i - l \in 1..n => es[i] = q.entries[i - l]
      BY <1>2, <3>1
    <3> QED BY <2>1, <2>2, <2>5, <3>1, <3>2, <3>3
  <2> QED BY <1>1, <2>3, <2>4, <2>5
<1> QED BY <1>3, <1>4, <1>6, <1>7, <1>8 DEF l, Grown

\* What is not seen to change, next() does not see either.
Quiet(q, r) == (q.changed => r.changed) /\ (~ r.changed => NextAlike(q, r))

LEMMA DropStaleWaveIs ==
  ASSUME NEW q, QueueOk(q), NEW r, r = DropStaleWave(q)
  PROVE  /\ QueueOk(r) /\ r.hint = q.hint /\ Quiet(q, r)
         /\ HasCurrent(q) => HasCurrent(r) /\ Current(r) = Current(q)
         /\ Together(q) => Together(r)
<1> DEFINE stale == {i \in RowsOf(q, "Continuation") :
                       /\ q.entries[i].giver = "history" /\ FollowsSeeds
                       /\ q.entries[i].seeds # q.hint.version
                       /\ OrdinalOf(q, i) > q.contMark}
<1>1. CASE r = q
  BY <1>1 DEF Quiet, NextAlike
<1>2. CASE r # q
  <2>1. r = RemoveRows(q, stale)
    BY <1>2 DEF DropStaleWave
  <2>2. q.playing \notin stale \/ ~ HasCurrent(q)
    <3>1. ~ (HasCurrent(q) /\ Current(q).giver = "history")
      BY <1>2 DEF DropStaleWave
    <3> QED BY <3>1 DEF Current
  <2> HIDE DEF stale
  <2>3. stale \cap Rows(q) # {} => r.changed
    BY <2>1, RemoveRowsIs
  <2> QED BY <2>1, <2>2, <2>3, RemoveRowsIs DEF Quiet
<1> QED BY <1>1, <1>2

\* The current entry stays, and all that waits comes right behind it.
LEMMA GatherPendingIs ==
  ASSUME NEW q, QueueOk(q), HasCurrent(q), ~ IsPending(Current(q)),
         NEW r, r = GatherPending(q)
  PROVE  /\ QueueOk(r) /\ r.hint = q.hint /\ HasCurrent(r) /\ Current(r) = Current(q)
         /\ Together(r)
<1> DEFINE pending == Pending(q)
           k == Cardinality(pending)
           n == Len(q.entries)
<1>1. /\ n \in Nat /\ Rows(q) = 1..n /\ q.playing \in 1..n /\ q.entries \in Seq(EntryType)
      /\ pending \subseteq 1..n /\ q.playing \notin pending
  BY SomeRows, SomePending DEF QueueOk, Entries, HasCurrent, Current, Pending
<1>2. k \in Nat /\ pending \in RowSets
  <2> HIDE DEF n, pending
  <2> QED BY <1>1, CountAll
<1>3. CASE pending = (q.playing + 1)..(q.playing + k)
  <2>1. r = q
    BY <1>3 DEF GatherPending
  <2>2. Run(pending, q.playing + 1, q.playing + k)
    BY <1>1, <1>2, <1>3 DEF Run
  <2> QED BY <2>1, <2>2 DEF Together
<1>4. CASE pending # (q.playing + 1)..(q.playing + k)
  <2> DEFINE playing == q.playing - Cardinality({i \in pending : i < q.playing})
  <2>0. PICK kept : kept = Rows(q) \ pending
    OBVIOUS
  <2>1. kept \subseteq 1..n /\ q.playing \in kept /\ kept = (1..n) \ pending
    BY <1>1, <2>0
  <2>2. playing = Count(kept, q.playing)
    <3>1. \A i \in pending : i < q.playing <=> i <= q.playing
      BY <1>1
    <3>2. {i \in pending : i < q.playing} = UpTo(pending, q.playing)
      BY <3>1 DEF UpTo
    <3>3. playing = q.playing - Count(pending, q.playing)
      BY <3>2 DEF Count
    <3>4. Count(pending, q.playing) + Count(kept, q.playing) = q.playing
      <4>1. q.playing \in 0..n
        BY <1>1
      <4> HIDE DEF n, pending
      <4> QED BY <1>1, <2>1, <4>1, CountOthers
    <3>5. Count(pending, q.playing) \in Nat /\ Count(kept, q.playing) \in Nat
      <4>1. kept \in RowSets /\ q.playing \in Nat
        BY <1>1, <2>1 DEF RowSets
      <4> QED BY <1>2, <4>1, CountNext
    <3> HIDE DEF playing
    <3> QED BY <3>3, <3>4, <3>5
  <2>3. PICK m : m = [q EXCEPT !.entries = EntriesAt(q, kept), !.playing = playing]
    OBVIOUS
  <2>4. PICK more : more = EntriesAt(q, pending)
    OBVIOUS
  <2>5. r = InsertRows(m, playing + 1, more)
    BY <1>4, <2>0, <2>3, <2>4 DEF GatherPending
  <2> HIDE DEF playing
  <2>6. /\ m.entries = EntriesAt(q, kept) /\ m.playing = playing /\ m.contMark = q.contMark
        /\ m.hint = q.hint /\ m.changed = q.changed /\ DOMAIN m = DOMAIN q
    BY <2>3 DEF QueueOk, QueueFields
  <2>7. /\ EntriesAt(q, kept) \in Seq(EntryType)
        /\ Len(EntriesAt(q, kept)) = Cardinality(kept)
        /\ playing \in 1..Cardinality(kept)
        /\ EntriesAt(q, kept)[playing] = q.entries[q.playing]
    BY <1>1, <2>1, <2>2, PickedIs DEF EntriesAt
  <2>8. QueueOk(m)
    BY <2>6, <2>7 DEF QueueOk, Entries
  <2>9. /\ more \in Seq(EntryType) /\ Len(more) = k
        /\ \A j \in 1..k : IsPending(more[j])
    <3>1. /\ more \in Seq(EntryType) /\ Len(more) = k
          /\ \A j \in 1..k : \E i \in pending : more[j] = q.entries[i]
      <4> HIDE DEF n
      <4> QED BY <1>1, <2>4, PickedIs DEF EntriesAt, n
    <3> QED BY <3>1 DEF Pending
  <2>10. Pending(m) = {}
    <3> SUFFICES ASSUME NEW j \in Pending(m) PROVE FALSE
      OBVIOUS
    <3>1. j \in Rows(m) /\ IsPending(m.entries[j])
      BY DEF Pending
    <3>2. PICK i \in kept : m.entries[j] = q.entries[i]
      BY <2>0, <2>6, <2>8, <3>1, KeptRows
    <3> QED BY <2>0, <3>1, <3>2 DEF Pending
  <2>11. HasCurrent(m) /\ Current(m) = Current(q) /\ playing \in Nat /\ Len(m.entries) \in Nat
         /\ playing + 1 \in 1..(Len(m.entries) + 1) /\ playing > 0
    BY <2>6, <2>7, <2>8, SomeRows DEF Current
  <2>a. PICK at : at = playing + 1
    OBVIOUS
  <2>12. /\ QueueOk(r) /\ r.hint = m.hint /\ HasCurrent(r) /\ Current(r) = Current(m)
         /\ r.playing = m.playing + (IF at <= m.playing THEN k ELSE 0)
         /\ \A i \in Nat : i \in Pending(r) <=>
              \/ i < at /\ i \in Pending(m)
              \/ i >= at /\ i < at + k /\ IsPending(more[i - at + 1])
              \/ i >= at + k /\ i - k \in Pending(m)
    <3>1. at \in 1..(Len(m.entries) + 1) /\ r = InsertRows(m, at, more)
      BY <2>5, <2>11, <2>a
    <3> HIDE DEF k
    <3>2. more \in Seq(EntryType) /\ Len(more) = k
      BY <2>9
    <3>3. Grown(m, r, at, more)
      BY <2>8, <3>1, <3>2, InsertRowsIs
    <3> QED BY <2>11, <3>2, <3>3 DEF Grown
  <2>13. r.playing = playing
    BY <2>6, <2>11, <2>12, <2>a
  <2>14. ASSUME NEW i \in Nat PROVE i \in Pending(r) <=> i \in (playing + 1)..(playing + k)
    <3>1. i >= at /\ i < at + k <=> i \in (playing + 1)..(playing + k)
      BY <1>2, <2>11, <2>a
    <3>2. i >= at /\ i < at + k => i - at + 1 \in 1..k
      BY <1>2, <2>11, <2>a
    <3> QED BY <2>9, <2>10, <2>12, <3>1, <3>2
  <2>15. Pending(r) \subseteq Nat
    BY <2>12, SomeRows, SomePending
  <2>16. Pending(r) = (playing + 1)..(playing + k)
    <3>1. (playing + 1)..(playing + k) \subseteq Nat
      BY <2>11
    <3> QED BY <2>14, <2>15, <3>1
  <2>17. Run(Pending(r), playing + 1, playing + k)
    BY <1>2, <2>11, <2>16 DEF Run
  <2> QED BY <2>6, <2>11, <2>12, <2>13, <2>17 DEF Together
<1> QED BY <1>3, <1>4

-----------------------------------------------------------------------------
(* Selections *)

\* playIndex() makes the row's track current.
LEMMA SelectIs ==
  ASSUME NEW q, QueueOk(q), NEW row \in Rows(q), NEW r, r = Select(q, row)
  PROVE  /\ QueueOk(r) /\ r.hint = q.hint /\ HasCurrent(r)
         /\ Current(r).track = q.entries[row].track /\ Together(r)
<1>1. PICK m : m = [q EXCEPT !.playing = row, !.changed = @ \/ IsPending(q.entries[row])]
  OBVIOUS
<1>2. /\ m.entries = q.entries /\ m.playing = row /\ m.contMark = q.contMark /\ m.hint = q.hint
      /\ m.changed \in BOOLEAN /\ DOMAIN m = DOMAIN q
  BY <1>1 DEF QueueOk, QueueFields
<1>3. row \in 1..Len(q.entries) /\ row # 0 /\ row \in 0..Len(q.entries)
  BY SomeRows
<1>4. QueueOk(m)
  BY <1>2, <1>3 DEF QueueOk
<1>5. HasCurrent(m) /\ Current(m) = q.entries[row]
  BY <1>2, <1>3, <1>4, SomeRows DEF Current
<1>6. PICK n : n = MarkCurrent(m)
  OBVIOUS
<1>7. Marks(m, n)
  BY <1>4, <1>6, MarkCurrentIs
<1>8. /\ QueueOk(n) /\ n.hint = q.hint /\ HasCurrent(n)
      /\ Current(n).track = q.entries[row].track /\ ~ IsPending(Current(n))
  <2>1. QueueOk(n) /\ n.hint = q.hint
    BY <1>2, <1>7 DEF Marks
  <2> QED BY <1>4, <1>5, <1>7, <2>1, MarksKeep
<1>9. PICK k : k = GatherPending(n)
  OBVIOUS
<1>10. QueueOk(k) /\ k.hint = q.hint /\ HasCurrent(k) /\ Current(k) = Current(n) /\ Together(k)
  BY <1>8, <1>9, GatherPendingIs
<1>11. r = DropStaleWave(k)
  BY <1>1, <1>6, <1>9 DEF Select
<1>12. /\ QueueOk(r) /\ r.hint = k.hint /\ HasCurrent(r) /\ Current(r) = Current(k)
       /\ Together(r)
  BY <1>10, <1>11, DropStaleWaveIs
<1> QED BY <1>8, <1>10, <1>12

\* previous() goes to a row there is, or nowhere.
LEMMA PreviousIsRow ==
  ASSUME NEW q, QueueOk(q), q.entries # <<>>
  PROVE  PreviousRow(q) \in Nat /\ (PreviousRow(q) # 0 => PreviousRow(q) \in Rows(q))
<1>1. \A part, ordinal : /\ IndexOf(q, part, ordinal) \in Nat
                         /\ IndexOf(q, part, ordinal) # 0 => IndexOf(q, part, ordinal) \in Rows(q)
  BY IndexIs DEF RowsOf
<1>2. /\ Rows(q) = 1..Len(q.entries) /\ Len(q.entries) \in Nat /\ Len(q.entries) > 0
      /\ q.playing \in 0..Len(q.entries)
  <2>1. Len(q.entries) # 0
    <3>1. q.entries \in Seq(EntryType)
      BY DEF QueueOk, Entries
    <3> QED BY <3>1, EmptySeq
  <2>2. q.playing \in 0..Len(q.entries)
    BY DEF QueueOk
  <2> QED BY <2>1, <2>2, SomeRows
<1>3. (IF q.playing > 1 THEN q.playing - 1 ELSE 1) \in Rows(q)
  BY <1>2
<1>4. Rows(q) \subseteq Nat
  BY <1>2
<1> QED BY <1>1, <1>3, <1>4 DEF PreviousRow

\* The step back moves a mark alone, and none when there is nowhere to go.
LEMMA StepBackIs ==
  ASSUME NEW q, QueueOk(q), NEW r, r = StepBack(q)
  PROVE  /\ QueueOk(r) /\ r.entries = q.entries /\ r.hint = q.hint /\ r.changed = q.changed
         /\ r.playing = q.playing
         /\ PreviousRow(q) = 0 => r = q
         /\ Together(q) => Together(r)
<1>1. CASE r = q
  BY <1>1
<1>2. CASE r # q
  <2>1. /\ r = [q EXCEPT !.contMark = OrdinalOf(q, q.playing) - 1]
        /\ HasCurrent(q) /\ PreviousRow(q) > 0
    BY <1>2 DEF StepBack
  <2>2. OrdinalOf(q, q.playing) \in Nat
    <3>1. q.playing \in RowsOf(q, Current(q).part)
      BY <2>1 DEF HasCurrent, Current, RowsOf
    <3>2. OrdinalOf(q, q.playing) \in 1..CountOf(q, Current(q).part)
      BY <3>1, OrdinalTells
    <3> QED BY <3>2
  <2>3. /\ r.entries = q.entries /\ r.hint = q.hint /\ r.changed = q.changed
        /\ r.playing = q.playing /\ r.contMark = OrdinalOf(q, q.playing) - 1
        /\ DOMAIN r = DOMAIN q
    BY <2>1 DEF QueueOk, QueueFields
  <2>4. QueueOk(r)
    BY <2>2, <2>3 DEF QueueOk
  <2>5. Together(q) => Together(r)
    <3>1. Rows(r) = Rows(q) /\ Pending(r) = Pending(q)
      BY <2>3 DEF Rows, Pending
    <3>2. HasCurrent(r) = HasCurrent(q) /\ Current(r) = Current(q)
      BY <2>3, <3>1 DEF HasCurrent, Current
    <3> QED BY <2>3, <3>1, <3>2 DEF Together
  <2>6. PreviousRow(q) # 0
    BY <2>1
  <2> QED BY <2>3, <2>4, <2>5, <2>6
<1> QED BY <1>1, <1>2

-----------------------------------------------------------------------------
(* Edits *)

Givers == {"none", "own", "history"}

\* Tracks become entries of one kind.
OfKind(es, part, pending) ==
  /\ es \in Seq(EntryType)
  /\ \A i \in 1..Len(es) : /\ es[i].part = part
                           /\ IsPending(es[i]) <=> part = "Item" /\ pending

LEMMA EntriesAre ==
  ASSUME NEW tracks \in Seq(Tracks), NEW part \in Parts, NEW giver \in Givers,
         NEW seeds \in Nat, NEW pending \in BOOLEAN,
         NEW es, es = EntriesOf(tracks, part, giver, seeds, pending)
  PROVE  OfKind(es, part, pending)
<1> DEFINE S == {i \in DOMAIN tracks : tracks[i] \notin Unavailable}
<1>1. S \subseteq 1..Len(tracks)
  OBVIOUS
<1> HIDE DEF S
<1>2. PICK some : some = Picked(tracks, S)
  OBVIOUS
<1>3. some \in Seq(Tracks)
  BY <1>1, <1>2, PickedIs
<1>4. es = [i \in 1..Len(some) |-> Entry(some[i], part, giver, seeds, NoItem, pending)]
  BY <1>2 DEF EntriesOf, S
<1>5. Len(some) \in Nat /\ \A i \in 1..Len(some) : some[i] \in Tracks
  BY <1>3, ElementOfSeq
<1>6. \A i \in 1..Len(some) : /\ Entry(some[i], part, giver, seeds, NoItem, pending) \in EntryType
                              /\ Entry(some[i], part, giver, seeds, NoItem, pending).part = part
                              /\ IsPending(Entry(some[i], part, giver, seeds, NoItem, pending))
                                   <=> part = "Item" /\ pending
  BY <1>5 DEF Entry, EntryType, IsPending, Givers
<1>7. es \in Seq(EntryType) /\ Len(es) = Len(some)
  BY <1>4, <1>5, <1>6
<1> QED BY <1>4, <1>6, <1>7 DEF OfKind

-----------------------------------------------------------------------------
(* The continuation's mark *)

\* While an entry of the continuation is current, the mark is its ordinal.
MarkAgrees(q) ==
  HasCurrent(q) /\ Current(q).part = "Continuation" => OrdinalOf(q, q.playing) = q.contMark
Given(q) == RowsOf(q, "Continuation")

LEMMA MarkMeans ==
  ASSUME NEW q, QueueOk(q)
  PROVE  /\ Given(q) \in RowSets /\ Given(q) \subseteq 1..Len(q.entries)
         /\ \A i : i \in Given(q) <=> i \in 1..Len(q.entries) /\ q.entries[i].part = "Continuation"
         /\ \A i \in Given(q) : OrdinalOf(q, i) = Count(Given(q), i)
         /\ MarkAgrees(q) <=> (q.playing \in Given(q) => Count(Given(q), q.playing) = q.contMark)
<1>1. Rows(q) = 1..Len(q.entries) /\ Len(q.entries) \in Nat
  BY SomeRows
<1>2. \A i : i \in Given(q) <=> i \in Rows(q) /\ q.entries[i].part = "Continuation"
  BY DEF Given, RowsOf
<1>3. Given(q) \in RowSets
  BY <1>1, <1>2 DEF RowSets
<1>4. \A i \in Given(q) : OrdinalOf(q, i) = Count(Given(q), i)
  BY <1>2 DEF OrdinalOf, Given, Count, UpTo
<1>5. q.playing \in Given(q) <=> HasCurrent(q) /\ Current(q).part = "Continuation"
  BY <1>2 DEF HasCurrent, Current
<1> QED BY <1>1, <1>2, <1>3, <1>4, <1>5 DEF MarkAgrees

\* Two sets that are alike over a stretch grow alike over it.
GrowAlike(S, T, j, k, d) == Count(S, k) - Count(S, j) = Count(T, k + d) - Count(T, j + d)

LEMMA CountAlike ==
  ASSUME NEW S \in RowSets, NEW T \in RowSets, NEW j \in Nat, NEW k \in Nat, NEW d \in Nat,
         j <= k, \A i \in Nat : j < i /\ i <= k => (i \in S <=> i + d \in T)
  PROVE  GrowAlike(S, T, j, k, d)
<1> DEFINE E == {e \in Nat : j + e <= k =>
                   Count(S, j + e) - Count(S, j) = Count(T, j + e + d) - Count(T, j + d)}
<1>0. \A i \in Nat : Count(S, i) \in Nat /\ Count(T, i) \in Nat
  BY CountNext
<1>1. 0 \in E
  <2>1. j + 0 = j /\ Count(S, j) \in Nat /\ Count(T, j + d) \in Nat
    BY <1>0
  <2> QED BY <2>1
<1>2. ASSUME NEW e \in E PROVE e + 1 \in E
  <2>1. /\ e \in Nat /\ j + e \in Nat /\ j + e + d \in Nat
        /\ j + (e + 1) = (j + e) + 1 /\ j + (e + 1) + d = (j + e + d) + 1
    OBVIOUS
  <2>2. /\ Count(S, (j + e) + 1) = Count(S, j + e) + (IF (j + e) + 1 \in S THEN 1 ELSE 0)
        /\ Count(T, (j + e + d) + 1) = Count(T, j + e + d) + (IF (j + e + d) + 1 \in T THEN 1 ELSE 0)
    BY <2>1, CountNext
  <2>3. (j + e) + 1 <= k => ((j + e) + 1 \in S <=> (j + e + d) + 1 \in T)
    <3>1. (j + e) + 1 \in Nat /\ j < (j + e) + 1 /\ ((j + e) + 1) + d = (j + e + d) + 1
      BY <2>1
    <3> QED BY <3>1
  <2>4. Count(S, j + e) \in Nat /\ Count(T, j + e + d) \in Nat /\ Count(S, j) \in Nat
        /\ Count(T, j + d) \in Nat
    BY <1>0, <2>1
  <2>5. j + (e + 1) <= k =>
          Count(S, j + (e + 1)) - Count(S, j) = Count(T, j + (e + 1) + d) - Count(T, j + d)
    <3>1. SUFFICES ASSUME j + (e + 1) <= k
                   PROVE  Count(S, (j + e) + 1) - Count(S, j)
                            = Count(T, (j + e + d) + 1) - Count(T, j + d)
      BY <2>1
    <3>2. j + e <= k /\ (j + e) + 1 <= k
      BY <2>1, <3>1
    <3>3. Count(S, j + e) - Count(S, j) = Count(T, j + e + d) - Count(T, j + d)
      BY <3>2
    <3> HIDE DEF E
    <3> QED BY <2>2, <2>3, <2>4, <3>2, <3>3
  <2> QED BY <2>5
<1>3. E = Nat
  <2> HIDE DEF E
  <2>1. E \subseteq Nat
    BY DEF E
  <2> QED BY <1>1, <1>2, <2>1, Induction
<1>4. k - j \in Nat /\ j + (k - j) = k
  OBVIOUS
<1>5. k - j \in E
  <2> HIDE DEF E
  <2> QED BY <1>3, <1>4
<1> QED BY <1>4, <1>5 DEF GrowAlike

\* Of a set, those that stay and those that go are all.
LEMMA CountParts ==
  ASSUME NEW S \in RowSets, NEW A \in RowSets, NEW B \in RowSets, NEW k \in Nat,
         S = A \cup B, A \cap B = {}
  PROVE  Count(A, k) + Count(B, k) = Count(S, k)
<1> DEFINE E == {e \in Nat : Count(A, e) + Count(B, e) = Count(S, e)}
<1>1. 0 \in E
  BY CountNext
<1>2. ASSUME NEW e \in E PROVE e + 1 \in E
  <2>1. /\ e \in Nat /\ Count(A, e) \in Nat /\ Count(B, e) \in Nat /\ Count(S, e) \in Nat
        /\ Count(S, e + 1) = Count(S, e) + (IF e + 1 \in S THEN 1 ELSE 0)
        /\ Count(A, e + 1) = Count(A, e) + (IF e + 1 \in A THEN 1 ELSE 0)
        /\ Count(B, e + 1) = Count(B, e) + (IF e + 1 \in B THEN 1 ELSE 0)
    BY CountNext
  <2> QED BY <2>1
<1>3. E = Nat
  <2> HIDE DEF E
  <2>1. E \subseteq Nat
    BY DEF E
  <2> QED BY <1>1, <1>2, <2>1, Induction
<1> QED BY <1>3

\* Among rows that stay, those of a set are counted as before.
LEMMA CountKept ==
  ASSUME NEW kept \in RowSets, NEW C \in RowSets, NEW D \in RowSets, NEW k \in Nat,
         \A i \in kept : i \in C <=> Count(kept, i) \in D
  PROVE  Count(D, Count(kept, k)) = Count(kept \cap C, k)
<1> DEFINE K == kept \cap C
           E == {e \in Nat : Count(D, Count(kept, e)) = Count(K, e)}
<1>0. K \in RowSets
  BY DEF RowSets
<1>1. 0 \in E
  BY <1>0, CountNext
<1>2. ASSUME NEW e \in E PROVE e + 1 \in E
  <2>1. /\ e \in Nat /\ Count(kept, e) \in Nat
        /\ Count(kept, e + 1) = Count(kept, e) + (IF e + 1 \in kept THEN 1 ELSE 0)
        /\ Count(K, e + 1) = Count(K, e) + (IF e + 1 \in K THEN 1 ELSE 0)
    <3> HIDE DEF K
    <3> QED BY <1>0, CountNext
  <2>2. Count(D, Count(kept, e) + 1)
          = Count(D, Count(kept, e)) + (IF Count(kept, e) + 1 \in D THEN 1 ELSE 0)
    BY <2>1, CountNext
  <2>3. Count(D, Count(kept, e)) = Count(K, e)
    OBVIOUS
  <2>4. CASE e + 1 \in kept
    <3>1. Count(kept, e + 1) = Count(kept, e) + 1
      BY <2>1, <2>4
    <3>2. e + 1 \in K <=> Count(kept, e) + 1 \in D
      BY <2>4, <3>1
    <3> HIDE DEF K
    <3>3. Count(D, Count(kept, e + 1)) = Count(K, e + 1)
      BY <2>1, <2>2, <2>3, <3>1, <3>2
    <3> QED BY <2>1, <3>3
  <2>5. CASE e + 1 \notin kept
    <3>1. Count(kept, e + 1) = Count(kept, e) /\ e + 1 \notin K /\ Count(K, e) \in Nat
      <4>1. Count(K, e) \in Nat
        <5> HIDE DEF K
        <5> QED BY <1>0, CountNext
      <4> QED BY <2>1, <2>5, <4>1
    <3> HIDE DEF K
    <3>2. Count(D, Count(kept, e + 1)) = Count(K, e + 1)
      BY <2>1, <2>3, <3>1
    <3> QED BY <2>1, <3>2
  <2> QED BY <2>4, <2>5
<1>3. E = Nat
  <2> HIDE DEF E
  <2>1. E \subseteq Nat
    BY DEF E
  <2> QED BY <1>1, <1>2, <2>1, Induction
<1> QED BY <1>3

LEMMA MarkSame ==
  ASSUME NEW q, QueueOk(q), NEW r, SameRows(q, r), MarkAgrees(q)
  PROVE  MarkAgrees(r)
<1>1. QueueOk(r)
  BY SameRowsOk
<1>2. Given(r) = Given(q)
  BY SameRowsOk DEF SameRows, Given, RowsOf
<1> QED BY <1>1, <1>2, MarkMeans DEF SameRows

LEMMA MarkMarked ==
  ASSUME NEW q, QueueOk(q), NEW r, r = MarkCurrent(q)
  PROVE  MarkAgrees(r)
<1>1. QueueOk(r) /\ Marks(q, r) /\ Rows(r) = Rows(q)
  BY MarkCurrentIs DEF Marks, Rows
<1> SUFFICES ASSUME HasCurrent(r), Current(r).part = "Continuation"
             PROVE  OrdinalOf(r, r.playing) = r.contMark
  BY DEF MarkAgrees
<1>2. HasCurrent(q) /\ Current(q).part = "Continuation"
  BY <1>1, MarksKeep DEF Marks, HasCurrent, Current
<1>3. r = [q EXCEPT !.inHead = FALSE, !.contMark = OrdinalOf(q, q.playing)]
  BY <1>2 DEF MarkCurrent
<1>4. r.entries = q.entries /\ r.playing = q.playing /\ r.contMark = OrdinalOf(q, q.playing)
  BY <1>3 DEF QueueOk, QueueFields
<1>5. \A part : RowsOf(r, part) = RowsOf(q, part)
  BY <1>1, <1>4 DEF RowsOf
<1> QED BY <1>4, <1>5 DEF OrdinalOf

\* The rows that stay are counted as before.
LEMMA MarkKept ==
  ASSUME NEW q, QueueOk(q), NEW kept, kept \subseteq Rows(q), NEW r, QueueOk(r),
         r.entries = EntriesAt(q, kept), q.playing \in kept, r.playing = Count(kept, q.playing),
         q.playing \in Given(q) => r.contMark = Count(kept \cap Given(q), q.playing)
  PROVE  MarkAgrees(r)
<1>1. /\ Given(q) \in RowSets /\ Given(r) \in RowSets
      /\ \A i : i \in Given(q) <=> i \in 1..Len(q.entries) /\ q.entries[i].part = "Continuation"
      /\ \A i : i \in Given(r) <=> i \in 1..Len(r.entries) /\ r.entries[i].part = "Continuation"
      /\ MarkAgrees(r) <=> (r.playing \in Given(r) => Count(Given(r), r.playing) = r.contMark)
  BY MarkMeans
<1>2. kept \in RowSets /\ kept \subseteq 1..Len(q.entries) /\ q.playing \in Nat
  BY SomeRows DEF RowSets
<1>3. \A i \in kept : i \in Given(q) <=> Count(kept, i) \in Given(r)
  <2>1. \A i \in kept : Count(kept, i) \in Rows(r) /\ r.entries[Count(kept, i)] = q.entries[i]
    BY KeptRows
  <2> QED BY <1>1, <1>2, <2>1, SomeRows, SMTT(30)
<1>4. Count(Given(r), Count(kept, q.playing)) = Count(kept \cap Given(q), q.playing)
  BY <1>1, <1>2, <1>3, CountKept
<1> QED BY <1>1, <1>3, <1>4

\* Rows that are not the continuation's come in.
LEMMA MarkInserted ==
  ASSUME NEW q, QueueOk(q), NEW more \in Seq(EntryType), NEW at \in 1..(Len(q.entries) + 1),
         NEW r, r = InsertRows(q, at, more), MarkAgrees(q),
         \A i \in 1..Len(more) : more[i].part # "Continuation"
  PROVE  MarkAgrees(r)
<1>0. q.entries \in Seq(EntryType)
  BY DEF QueueOk, Entries
<1>a. /\ Inserted(q.entries, at, more) \in Seq(EntryType)
      /\ Len(Inserted(q.entries, at, more)) = Len(q.entries) + Len(more)
      /\ \A i \in 1..(at - 1) : Inserted(q.entries, at, more)[i] = q.entries[i]
      /\ \A i \in 1..Len(more) : Inserted(q.entries, at, more)[at - 1 + i] = more[i]
      /\ \A i \in at..Len(q.entries) : Inserted(q.entries, at, more)[i + Len(more)] = q.entries[i]
  BY <1>0, InsertedIs, ZenonT(60)
<1> DEFINE n == Len(q.entries)
           l == Len(more)
           C == Given(q)
           D == Given(r)
<1>1. /\ n \in Nat /\ l \in Nat /\ at \in Nat /\ at - 1 \in Nat /\ at <= n + 1
      /\ q.playing \in 0..n /\ q.playing \in Nat
  BY <1>0, SomeRows DEF QueueOk
<1>2. QueueOk(r) /\ r.playing = q.playing + (IF at <= q.playing THEN l ELSE 0)
  BY InsertRowsIs DEF Grown
<1>3. r.entries = Inserted(q.entries, at, more) /\ r.contMark = q.contMark
  BY DEF InsertRows, QueueOk, QueueFields
<1>4. /\ Len(r.entries) = n + l
      /\ \A i \in 1..(at - 1) : r.entries[i] = q.entries[i]
      /\ \A i \in 1..l : r.entries[at - 1 + i] = more[i]
      /\ \A i \in at..n : r.entries[i + l] = q.entries[i]
  BY <1>3, <1>a
<1>5. /\ C \in RowSets /\ D \in RowSets
      /\ \A i : i \in C <=> i \in 1..n /\ q.entries[i].part = "Continuation"
      /\ \A i : i \in D <=> i \in 1..(n + l) /\ r.entries[i].part = "Continuation"
      /\ q.playing \in C => Count(C, q.playing) = q.contMark
      /\ MarkAgrees(r) <=> (r.playing \in D => Count(D, r.playing) = r.contMark)
  BY <1>2, <1>4, MarkMeans
<1> HIDE DEF n, l, C, D
<1>6. \A i \in Nat : i < at => (i \in C <=> i \in D)
  <2> SUFFICES ASSUME NEW i \in Nat, i < at PROVE i \in C <=> i \in D
    OBVIOUS
  <2>1. CASE i = 0
    BY <1>1, <1>5, <2>1
  <2>2. CASE i # 0
    <3>1. i \in 1..(at - 1) /\ i \in 1..n /\ i \in 1..(n + l)
      BY <1>1, <2>2
    <3>2. r.entries[i] = q.entries[i]
      BY <1>4, <3>1
    <3> QED BY <1>5, <3>1, <3>2
  <2> QED BY <2>1, <2>2
<1>7. \A i \in Nat : i >= at => (i \in C <=> i + l \in D)
  <2> SUFFICES ASSUME NEW i \in Nat, i >= at PROVE i \in C <=> i + l \in D
    OBVIOUS
  <2>1. (i \in 1..n <=> i + l \in 1..(n + l)) /\ (i \in 1..n => i \in at..n)
    BY <1>1
  <2> QED BY <1>4, <1>5, <2>1
<1>8. \A i \in Nat : at <= i /\ i < at + l => i \notin D
  <2> SUFFICES ASSUME NEW i \in Nat, at <= i, i < at + l PROVE i \notin D
    OBVIOUS
  <2>1. i - at + 1 \in 1..l /\ at - 1 + (i - at + 1) = i
    BY <1>1
  <2>2. r.entries[i] = more[i - at + 1]
    BY <1>4, <2>1
  <2> QED BY <1>5, <2>1, <2>2 DEF l
<1>9. ASSUME NEW k \in Nat, k < at PROVE Count(D, k) = Count(C, k)
  <2>1. \A i \in Nat : 0 < i /\ i <= k => (i \in C <=> i + 0 \in D)
    <3> SUFFICES ASSUME NEW i \in Nat, i <= k PROVE i \in C <=> i + 0 \in D
      OBVIOUS
    <3>1. i < at /\ i + 0 = i
      BY <1>1, <1>9
    <3> QED BY <1>6, <3>1
  <2>2. 0 \in Nat /\ 0 <= k
    OBVIOUS
  <2>3. GrowAlike(C, D, 0, k, 0)
    BY <1>5, <2>1, <2>2, CountAlike
  <2>4. Count(C, 0) = 0 /\ Count(D, 0) = 0 /\ Count(C, k) \in Nat /\ Count(D, k) \in Nat
    BY <1>5, CountNext
  <2>5. k + 0 = k /\ 0 + 0 = 0
    OBVIOUS
  <2> QED BY <2>3, <2>4, <2>5 DEF GrowAlike
<1>10. Count(D, at - 1 + l) = Count(D, at - 1)
  <2>1. {} \in RowSets
    BY DEF RowSets
  <2>a. PICK b : b = at - 1
    OBVIOUS
  <2>b. PICK c : c = at - 1 + l
    OBVIOUS
  <2>2. \A i \in Nat : at - 1 < i /\ i <= at - 1 + l => (i \in {} <=> i + 0 \in D)
    <3> SUFFICES ASSUME NEW i \in Nat, at - 1 < i, i <= at - 1 + l PROVE i + 0 \notin D
      OBVIOUS
    <3>1. at <= i /\ i < at + l /\ i + 0 = i
      BY <1>1
    <3> QED BY <1>8, <3>1
  <2>3. at - 1 + l \in Nat /\ at - 1 <= at - 1 + l /\ 0 \in Nat
    BY <1>1
  <2>c. /\ b \in Nat /\ c \in Nat /\ b <= c /\ 0 \in Nat
        /\ \A i \in Nat : b < i /\ i <= c => (i \in {} <=> i + 0 \in D)
    BY <1>1, <2>2, <2>3, <2>a, <2>b
  <2>d. GrowAlike({}, D, b, c, 0)
    BY <1>5, <2>1, <2>c, CountAlike
  <2>4. Count({}, at - 1 + l) - Count({}, at - 1) = Count(D, at - 1 + l + 0) - Count(D, at - 1 + 0)
    BY <2>a, <2>b, <2>d DEF GrowAlike
  <2>5. UpTo({}, at - 1 + l) = {} /\ UpTo({}, at - 1) = {}
    BY DEF UpTo
  <2>6. Count({}, at - 1 + l) = 0 /\ Count({}, at - 1) = 0
    BY <2>5, FS_EmptySet DEF Count
  <2>7. Count(D, at - 1 + l) \in Nat /\ Count(D, at - 1) \in Nat
    BY <1>1, <1>5, <2>3, CountNext
  <2>8. at - 1 + l + 0 = at - 1 + l /\ at - 1 + 0 = at - 1
    BY <1>1
  <2> QED BY <2>4, <2>6, <2>7, <2>8
<1>11. ASSUME NEW k \in Nat, k >= at PROVE Count(D, k + l) = Count(C, k)
  <2>1. \A i \in Nat : at - 1 < i /\ i <= k => (i \in C <=> i + l \in D)
    BY <1>1, <1>7
  <2>2. at - 1 <= k
    BY <1>1, <1>11
  <2>a. PICK b : b = at - 1
    OBVIOUS
  <2>b. /\ b \in Nat /\ b <= k /\ l \in Nat
        /\ \A i \in Nat : b < i /\ i <= k => (i \in C <=> i + l \in D)
    BY <1>1, <2>1, <2>2, <2>a
  <2>c. GrowAlike(C, D, b, k, l)
    BY <1>5, <2>b, CountAlike
  <2>3. Count(C, k) - Count(C, at - 1) = Count(D, k + l) - Count(D, at - 1 + l)
    BY <2>a, <2>c DEF GrowAlike
  <2>4. Count(D, at - 1) = Count(C, at - 1)
    BY <1>1, <1>9
  <2>5. /\ Count(C, k) \in Nat /\ Count(C, at - 1) \in Nat /\ Count(D, k + l) \in Nat
    <3>1. k + l \in Nat
      BY <1>1
    <3> QED BY <1>1, <1>5, <3>1, CountNext
  <2> QED BY <1>10, <2>3, <2>4, <2>5
<1>12. CASE at <= q.playing
  <2>1. r.playing = q.playing + l
    BY <1>2, <1>12
  <2>2. Count(D, r.playing) = Count(C, q.playing) /\ (q.playing \in C <=> r.playing \in D)
    BY <1>1, <1>7, <1>11, <1>12, <2>1
  <2> QED BY <1>3, <1>5, <2>2
<1>13. CASE ~ (at <= q.playing)
  <2>1. r.playing = q.playing /\ q.playing < at
    BY <1>1, <1>2, <1>13
  <2>2. Count(D, r.playing) = Count(C, q.playing) /\ (q.playing \in C <=> r.playing \in D)
    BY <1>1, <1>6, <1>9, <2>1
  <2> QED BY <1>3, <1>5, <2>2
<1> QED BY <1>12, <1>13

LEMMA MarkWithout ==
  ASSUME NEW q, QueueOk(q), NEW rows, rows \subseteq Rows(q), NEW kept, kept = Rows(q) \ rows,
         NEW r, r = WithoutRows(q, rows, EntriesAt(q, kept)), MarkAgrees(q),
         q.playing \notin rows
  PROVE  MarkAgrees(r)
<1>1. QueueOk(r) /\ r.entries = EntriesAt(q, kept)
  BY WithoutIs
<1>2. CASE ~ HasCurrent(q)
  <2>1. q.playing = 0
    BY <1>2, SomeRows
  <2>2. r.playing = 0
    <3>1. r.playing = CursorAfter(q, rows, EntriesAt(q, kept))
      BY DEF WithoutRows, QueueOk, QueueFields
    <3>2. kept \subseteq 1..Len(q.entries) /\ q.entries \in Seq(EntryType)
      BY SomeRows DEF QueueOk, Entries
    <3>3. EntriesAt(q, kept) \in Seq(EntryType) /\ Len(EntriesAt(q, kept)) = Cardinality(kept)
      BY <3>2, PickedIs DEF EntriesAt
    <3>4. PICK es : es = EntriesAt(q, kept)
      OBVIOUS
    <3>5. es \in Seq(EntryType) /\ Len(es) = Cardinality(kept) /\ r.playing = CursorAfter(q, rows, es)
      BY <3>1, <3>3, <3>4
    <3> QED BY <2>1, <3>5, CursorIs
  <2> QED BY <1>1, <2>2, SomeRows DEF MarkAgrees
<1>3. CASE HasCurrent(q)
  <2> DEFINE C == Given(q)
             gone == {i \in rows \cap C : OrdinalOf(q, i) <= q.contMark}
  <2>1. /\ C \in RowSets /\ \A i \in C : OrdinalOf(q, i) = Count(C, i)
        /\ q.playing \in C => Count(C, q.playing) = q.contMark
    BY MarkMeans
  <2>2. q.playing \in kept /\ q.playing \in Nat
    BY <1>3, SomeRows DEF HasCurrent
  <2>3. r.contMark = q.contMark - Cardinality(gone)
    BY DEF WithoutRows, MarkAfter, Given, QueueOk, QueueFields
  <2>4. r.playing = Count(kept, q.playing)
    <3>1. r.playing = CursorAfter(q, rows, EntriesAt(q, kept))
      BY DEF WithoutRows, QueueOk, QueueFields
    <3>2. kept \subseteq 1..Len(q.entries) /\ q.entries \in Seq(EntryType)
      BY SomeRows DEF QueueOk, Entries
    <3>3. EntriesAt(q, kept) \in Seq(EntryType) /\ Len(EntriesAt(q, kept)) = Cardinality(kept)
      BY <3>2, PickedIs DEF EntriesAt
    <3>4. PICK es : es = EntriesAt(q, kept)
      OBVIOUS
    <3>5. es \in Seq(EntryType) /\ Len(es) = Cardinality(kept) /\ r.playing = CursorAfter(q, rows, es)
      BY <3>1, <3>3, <3>4
    <3>6. q.playing # 0
      BY <1>3, SomeRows
    <3> QED BY <3>5, <3>6, CursorIs
  <2>5. ASSUME q.playing \in C PROVE r.contMark = Count(kept \cap C, q.playing)
    <3>1. Count(C, q.playing) = q.contMark
      BY <2>1, <2>5
    <3>2. \A i \in rows \cap C : OrdinalOf(q, i) <= q.contMark <=> i <= q.playing
      <4>1. \A i \in C : Count(C, i) <= Count(C, q.playing) <=> i <= q.playing
        <5> HIDE DEF C
        <5> QED BY <2>1, <2>2, CountOrder
      <4> HIDE DEF C
      <4> QED BY <2>1, <3>1, <4>1
    <3>3. gone = UpTo(rows \cap C, q.playing)
      BY <3>2 DEF UpTo
    <3>4. Cardinality(gone) = Count(rows \cap C, q.playing)
      BY <3>3 DEF Count
    <3>5. /\ kept \cap C \in RowSets /\ rows \cap C \in RowSets
          /\ C = (kept \cap C) \cup (rows \cap C) /\ (kept \cap C) \cap (rows \cap C) = {}
      <4>1. C \subseteq Rows(q)
        BY DEF Given, RowsOf
      <4> HIDE DEF C
      <4> QED BY <2>1, <4>1 DEF RowSets
    <3>6. PICK A, B : A = kept \cap C /\ B = rows \cap C
      OBVIOUS
    <3>7. Count(A, q.playing) + Count(B, q.playing) = Count(C, q.playing)
      <4> HIDE DEF C
      <4>1. A \in RowSets /\ B \in RowSets /\ C = A \cup B /\ A \cap B = {}
        BY <3>5, <3>6
      <4> QED BY <2>1, <2>2, <4>1, CountParts
    <3>8. Count(A, q.playing) \in Nat /\ Count(B, q.playing) \in Nat
      BY <2>2, <3>5, <3>6, CountNext
    <3> HIDE DEF gone, C
    <3> QED BY <2>3, <3>1, <3>4, <3>6, <3>7, <3>8
  <2>6. q.playing \in Given(q) => r.contMark = Count(kept \cap Given(q), q.playing)
    BY <2>5
  <2>7. kept \subseteq Rows(q)
    OBVIOUS
  <2> HIDE DEF C, gone
  <2> QED BY <1>1, <2>2, <2>4, <2>6, <2>7, MarkKept
<1> QED BY <1>2, <1>3

LEMMA MarkRemoved ==
  ASSUME NEW q, QueueOk(q), NEW given, NEW r, r = RemoveRows(q, given), MarkAgrees(q)
  PROVE  MarkAgrees(r)
<1> DEFINE rows == given \cap Rows(q)
           kept == Rows(q) \ rows
<1>1. PICK m : m = WithoutRows(q, rows, EntriesAt(q, kept))
  OBVIOUS
<1>2. QueueOk(m)
  BY <1>1, WithoutIs
<1>3. PICK n : n = When(q.playing \in rows, MarkCurrent(m), m)
  OBVIOUS
<1>4. QueueOk(n) /\ MarkAgrees(n)
  <2>1. CASE q.playing \in rows
    <3>1. n = MarkCurrent(m)
      BY <1>3, <2>1 DEF When
    <3> QED BY <1>2, <3>1, MarkMarked, MarkCurrentIs DEF Marks
  <2>2. CASE q.playing \notin rows
    <3>1. n = m
      BY <1>3, <2>2 DEF When
    <3>2. rows \subseteq Rows(q)
      OBVIOUS
    <3> HIDE DEF rows
    <3> QED BY <1>1, <1>2, <2>2, <3>1, <3>2, MarkWithout
  <2> QED BY <2>1, <2>2
<1>5. PICK k : k = KnownStart(n)
  OBVIOUS
<1>6. QueueOk(k) /\ MarkAgrees(k)
  BY <1>4, <1>5, KnownStartIs, SameRowsOk, MarkSame
<1>7. r = When(rows \cap RowsOf(q, "Head") # {}, ResetNavigator(k), k)
  BY <1>1, <1>3, <1>5 DEF RemoveRows
<1>8. r = ResetNavigator(k) \/ r = k
  BY <1>7 DEF When
<1> QED BY <1>6, <1>8, ResetNavigatorIs, MarkSame

LEMMA MarkStale ==
  ASSUME NEW q, QueueOk(q), NEW r, r = DropStaleWave(q), MarkAgrees(q)
  PROVE  MarkAgrees(r)
<1>1. r = q \/ \E given : r = RemoveRows(q, given)
  BY DEF DropStaleWave
<1> QED BY <1>1, MarkRemoved

LEMMA MarkGathered ==
  ASSUME NEW q, QueueOk(q), HasCurrent(q), ~ IsPending(Current(q)),
         NEW r, r = GatherPending(q), MarkAgrees(q)
  PROVE  MarkAgrees(r)
<1>1. CASE r = q
  BY <1>1
<1>2. CASE r # q
  <2> DEFINE n == Len(q.entries)
             before == Cardinality({i \in Pending(q) : i < q.playing})
  <2>1. PICK kept : kept = Rows(q) \ Pending(q)
    OBVIOUS
  <2>2. PICK playing : playing = q.playing - before
    OBVIOUS
  <2>3. PICK m : m = [q EXCEPT !.entries = EntriesAt(q, kept), !.playing = playing]
    OBVIOUS
  <2>4. PICK more : more = EntriesAt(q, Pending(q))
    OBVIOUS
  <2>5. PICK at : at = playing + 1
    OBVIOUS
  <2>6. r = InsertRows(m, at, more)
    BY <1>2, <2>1, <2>2, <2>3, <2>4, <2>5 DEF GatherPending
  <2>7. /\ n \in Nat /\ Rows(q) = 1..n /\ q.playing \in 1..n /\ q.entries \in Seq(EntryType)
        /\ Pending(q) \subseteq 1..n /\ q.playing \notin Pending(q) /\ Pending(q) \in RowSets
    BY SomeRows, SomePending DEF QueueOk, Entries, HasCurrent, Current, Pending, RowSets
  <2>8. playing = Count(kept, q.playing)
    <3>1. \A i \in Pending(q) : i < q.playing <=> i <= q.playing
      BY <2>7
    <3>2. {i \in Pending(q) : i < q.playing} = UpTo(Pending(q), q.playing)
      BY <3>1 DEF UpTo
    <3>3. before = Count(Pending(q), q.playing)
      BY <3>2 DEF Count
    <3>4. Count(Pending(q), q.playing) + Count(kept, q.playing) = q.playing
      <4>1. q.playing \in 0..n /\ kept = (1..n) \ Pending(q)
        BY <2>1, <2>7
      <4> HIDE DEF n
      <4> QED BY <2>7, <4>1, CountOthers
    <3>5. Count(Pending(q), q.playing) \in Nat /\ Count(kept, q.playing) \in Nat
      <4>1. kept \in RowSets /\ q.playing \in Nat
        BY <2>1, <2>7 DEF RowSets
      <4> QED BY <2>7, <4>1, CountNext
    <3> HIDE DEF before
    <3> QED BY <2>2, <3>3, <3>4, <3>5
  <2>9. /\ m.entries = EntriesAt(q, kept) /\ m.playing = playing /\ m.contMark = q.contMark
        /\ m.hint = q.hint /\ m.changed = q.changed /\ DOMAIN m = DOMAIN q
    BY <2>3 DEF QueueOk, QueueFields
  <2>10. q.playing \in kept /\ kept \subseteq Rows(q) /\ kept \subseteq 1..Len(q.entries)
    BY <2>1, <2>7
  <2>11. /\ EntriesAt(q, kept) \in Seq(EntryType)
         /\ Len(EntriesAt(q, kept)) = Cardinality(kept)
         /\ playing \in 1..Cardinality(kept)
    <3>1. \A i \in kept : Count(kept, i) \in 1..Cardinality(kept)
      BY <2>10, EntriesAtIs
    <3> QED BY <2>8, <2>10, <3>1, EntriesAtIs
  <2>12. QueueOk(m)
    BY <2>9, <2>11 DEF QueueOk, Entries
  <2>13. MarkAgrees(m)
    <3>1. kept \cap Given(q) = Given(q)
      BY <2>1 DEF Given, RowsOf, Pending, IsPending
    <3>2. q.playing \in Given(q) => m.contMark = Count(kept \cap Given(q), q.playing)
      BY <2>9, <3>1, MarkMeans
    <3> QED BY <2>8, <2>9, <2>10, <2>12, <3>2, MarkKept
  <2>14. more \in Seq(EntryType) /\ \A j \in 1..Len(more) : more[j].part # "Continuation"
    <3>1. /\ more \in Seq(EntryType) /\ Len(more) = Cardinality(Pending(q))
          /\ \A j \in 1..Cardinality(Pending(q)) : \E i \in Pending(q) : more[j] = q.entries[i]
      BY <2>4, <2>7, PickedIs DEF EntriesAt
    <3> QED BY <3>1 DEF Pending, IsPending
  <2>15. at \in 1..(Len(m.entries) + 1)
    <3>1. Cardinality(kept) \in Nat /\ Len(m.entries) = Cardinality(kept)
      BY <2>9, <2>11, <2>12, SomeRows
    <3> QED BY <2>5, <2>11, <3>1
  <2> QED BY <2>6, <2>12, <2>13, <2>14, <2>15, MarkInserted
<1> QED BY <1>1, <1>2

LEMMA MarkSelected ==
  ASSUME NEW q, QueueOk(q), NEW row \in Rows(q), NEW r, r = Select(q, row)
  PROVE  MarkAgrees(r)
<1>1. PICK m : m = [q EXCEPT !.playing = row, !.changed = @ \/ IsPending(q.entries[row])]
  OBVIOUS
<1>2. /\ m.entries = q.entries /\ m.playing = row /\ m.contMark = q.contMark /\ m.hint = q.hint
      /\ m.changed \in BOOLEAN /\ DOMAIN m = DOMAIN q
  BY <1>1 DEF QueueOk, QueueFields
<1>3. row \in 1..Len(q.entries) /\ row # 0 /\ row \in 0..Len(q.entries)
  BY SomeRows
<1>4. QueueOk(m) /\ HasCurrent(m)
  <2>1. QueueOk(m)
    BY <1>2, <1>3 DEF QueueOk
  <2> QED BY <1>2, <1>3, <2>1, SomeRows
<1>5. PICK n : n = MarkCurrent(m)
  OBVIOUS
<1>6. QueueOk(n) /\ MarkAgrees(n) /\ HasCurrent(n) /\ ~ IsPending(Current(n))
  <2>1. QueueOk(n) /\ Marks(m, n)
    BY <1>4, <1>5, MarkCurrentIs DEF Marks
  <2> QED BY <1>4, <1>5, <2>1, MarksKeep, MarkMarked
<1>7. PICK k : k = GatherPending(n)
  OBVIOUS
<1>8. QueueOk(k) /\ MarkAgrees(k)
  BY <1>6, <1>7, GatherPendingIs, MarkGathered
<1>9. r = DropStaleWave(k)
  BY <1>1, <1>5, <1>7 DEF Select
<1> QED BY <1>8, <1>9, MarkStale

-----------------------------------------------------------------------------
(* The public methods *)

\* What is current stays so, the waiting items stay behind it, the mark on its ordinal.
Keeps(q, r) ==
  /\ QueueOk(r) /\ (Together(q) => Together(r))
  /\ Together(q) /\ MarkAgrees(q) => MarkAgrees(r) /\ KeepsCurrent(q, r)

\* And whoever does not see it change need not look at it.
Edit(q, r) == Keeps(q, r) /\ Quiet(q, r)

LEMMA SameKeeps ==
  ASSUME NEW q, QueueOk(q), NEW r, SameRows(q, r)
  PROVE  Keeps(q, r)
BY SameRowsOk, MarkSame DEF Keeps

LEMMA ModesKeep ==
  ASSUME NEW q, QueueOk(q)
  PROVE  /\ \A on \in BOOLEAN : Keeps(q, SetShuffle(q, on)) /\ Keeps(q, SetRepeat(q, on))
         /\ \A a : /\ Keeps(q, SetShuffleAlgorithm(q, a))
                   /\ ~ ShuffleActive(SetShuffleAlgorithm(q, a)) =>
                        NextAlike(q, SetShuffleAlgorithm(q, a))
<1>1. ASSUME NEW on \in BOOLEAN PROVE Keeps(q, SetShuffle(q, on))
  <2>1. PICK m : m = [q EXCEPT !.shuffle = on]
    OBVIOUS
  <2>2. SameRows(q, m)
    BY <2>1 DEF SameRows, QueueOk, QueueFields
  <2>3. QueueOk(m)
    BY <2>2, SameRowsOk
  <2>4. PICK r : r = ResetNavigator(m)
    OBVIOUS
  <2>5. SameRows(m, r)
    BY <2>3, <2>4, ResetNavigatorIs
  <2>6. SameRows(q, r)
    BY <2>2, <2>5 DEF SameRows
  <2>7. Keeps(q, r)
    BY <2>6, SameKeeps
  <2> QED BY <2>1, <2>4, <2>7 DEF SetShuffle
<1>2. ASSUME NEW on \in BOOLEAN PROVE Keeps(q, SetRepeat(q, on))
  <2>1. SameRows(q, SetRepeat(q, on))
    BY DEF SetRepeat, SameRows, QueueOk, QueueFields
  <2> QED BY <2>1, SameKeeps
<1>3. ASSUME NEW a
      PROVE  /\ Keeps(q, SetShuffleAlgorithm(q, a))
             /\ ~ ShuffleActive(SetShuffleAlgorithm(q, a)) => NextAlike(q, SetShuffleAlgorithm(q, a))
  <2>1. PICK m : m = [q EXCEPT !.algorithm = a]
    OBVIOUS
  <2>2. /\ SameRows(q, m) /\ NextAlike(q, m) /\ (ShuffleActive(m) <=> ShuffleActive(q))
        /\ m.shuffle = q.shuffle /\ m.own = q.own
    BY <2>1 DEF SameRows, NextAlike, ShuffleActive, QueueOk, QueueFields
  <2>3. QueueOk(m)
    BY <2>2, SameRowsOk
  <2>4. PICK r : r = SetShuffleAlgorithm(q, a)
    OBVIOUS
  <2>5. r = IF ShuffleActive(q) THEN ResetNavigator(m) ELSE m
    BY <2>1, <2>4 DEF SetShuffleAlgorithm
  <2>6. SameRows(q, r)
    BY <2>2, <2>3, <2>5, ResetNavigatorIs DEF SameRows
  <2>7. Keeps(q, r)
    BY <2>6, SameKeeps
  <2>8. ~ ShuffleActive(r) => NextAlike(q, r)
    <3>1. CASE ShuffleActive(q)
      <4>1. r.shuffle = m.shuffle /\ r.own = m.own
        BY <2>3, <2>5, <3>1 DEF ResetNavigator, QueueOk, QueueFields
      <4> QED BY <2>2, <3>1, <4>1 DEF ShuffleActive
    <3>2. CASE ~ ShuffleActive(q)
      BY <2>2, <2>5, <3>2
    <3> QED BY <3>1, <3>2
  <2> QED BY <2>4, <2>7, <2>8
<1> QED BY <1>1, <1>2, <1>3

LEMMA RemoveKeeps ==
  ASSUME NEW q, QueueOk(q), NEW given, NEW r, r = RemoveRows(q, given)
  PROVE  /\ QueueOk(r) /\ (Together(q) => Together(r)) /\ (MarkAgrees(q) => MarkAgrees(r))
         /\ q.playing \notin given => Edit(q, r)
<1>1. QueueOk(r) /\ (Together(q) => Together(r)) /\ (MarkAgrees(q) => MarkAgrees(r))
  BY RemoveRowsIs, MarkRemoved
<1>2. /\ r.changed <=> q.changed \/ given \cap Rows(q) # {}
      /\ given \cap Rows(q) = {} => NextAlike(q, r)
      /\ q.playing \notin given /\ HasCurrent(q) => HasCurrent(r) /\ Current(r) = Current(q)
  BY RemoveRowsIs
<1> QED BY <1>1, <1>2 DEF Edit, Keeps, Quiet, KeepsCurrent

LEMMA JoinedAre ==
  ASSUME NEW T, NEW s \in Seq(T), NEW t \in Seq(T), NEW u, u = s \o t
  PROVE  /\ u \in Seq(T) /\ Len(u) = Len(s) + Len(t)
         /\ \A i \in 1..Len(s) : u[i] = s[i]
         /\ \A i \in 1..Len(t) : u[Len(s) + i] = t[i]
         /\ \A i \in 1..Len(u) : \/ i \in 1..Len(s) /\ u[i] = s[i]
                                 \/ i - Len(s) \in 1..Len(t) /\ u[i] = t[i - Len(s)]
<1>1. /\ s \o t \in Seq(T) /\ Len(s \o t) = Len(s) + Len(t)
      /\ \A i \in 1..(Len(s) + Len(t)) : (s \o t)[i] = IF i <= Len(s) THEN s[i] ELSE t[i - Len(s)]
  BY ConcatProperties, Zenon
<1>2. /\ u \in Seq(T) /\ Len(u) = Len(s) + Len(t) /\ Len(s) \in Nat /\ Len(t) \in Nat
      /\ \A i \in 1..(Len(s) + Len(t)) : u[i] = IF i <= Len(s) THEN s[i] ELSE t[i - Len(s)]
  BY <1>1
<1>3. ASSUME NEW i \in 1..Len(s) PROVE u[i] = s[i]
  BY <1>2
<1>4. ASSUME NEW i \in 1..Len(t) PROVE u[Len(s) + i] = t[i]
  <2>1. Len(s) + i \in 1..(Len(s) + Len(t)) /\ ~ (Len(s) + i <= Len(s)) /\ Len(s) + i - Len(s) = i
    BY <1>2
  <2> QED BY <1>2, <2>1
<1>5. ASSUME NEW i \in 1..Len(u)
      PROVE  \/ i \in 1..Len(s) /\ u[i] = s[i]
             \/ i - Len(s) \in 1..Len(t) /\ u[i] = t[i - Len(s)]
  BY <1>2
<1> QED BY <1>2, <1>3, <1>4, <1>5

\* None of a base's entries waits, and the start track is one of them.
LEMMA SourceEntriesAre ==
  ASSUME NEW source \in Source, NEW es, es = SourceEntries(source)
  PROVE  /\ es \in Seq(EntryType) /\ \A i \in 1..Len(es) : ~ IsPending(es[i])
         /\ es # <<>> => StartOf(source) \in 1..Len(es)
<1> DEFINE giver == IF source.own THEN "own" ELSE "none"
<1>0. /\ source.head \in Seq(Tracks) /\ source.given \in Seq(Tracks) /\ giver \in Givers
      /\ "Head" \in Parts /\ "Continuation" \in Parts /\ "none" \in Givers
      /\ 0 \in Nat /\ FALSE \in BOOLEAN
  BY DEF Source, Givers, Parts
<1>a. PICK no \in BOOLEAN : no = FALSE
  OBVIOUS
<1>b. PICK head \in Parts, given \in Parts : head = "Head" /\ given = "Continuation"
  BY <1>0
<1>c. PICK h \in Seq(Tracks), l \in Seq(Tracks) : h = source.head /\ l = source.given
  BY <1>0
<1>d. PICK none \in Givers, by \in Givers : none = "none" /\ by = giver
  BY <1>0
<1>1. PICK a : a = EntriesOf(h, head, none, 0, no)
  OBVIOUS
<1>2. PICK b : b = EntriesOf(l, given, by, 0, no)
  OBVIOUS
<1>3. es = a \o b
  BY <1>1, <1>2, <1>a, <1>b, <1>c, <1>d DEF SourceEntries
<1> HIDE DEF giver
<1>e. /\ h \in Seq(Tracks) /\ l \in Seq(Tracks) /\ none \in Givers /\ by \in Givers
      /\ head \in Parts /\ given \in Parts /\ no \in BOOLEAN
  BY <1>a, <1>b, <1>c, <1>d
<1>4. a \in Seq(EntryType) /\ \A i \in 1..Len(a) : ~ IsPending(a[i])
  <2>1. OfKind(a, head, no)
    BY <1>1, <1>e, EntriesAre
  <2>2. head # "Item"
    BY <1>b
  <2> QED BY <2>1, <2>2, Zenon DEF OfKind
<1>5. b \in Seq(EntryType) /\ \A i \in 1..Len(b) : ~ IsPending(b[i])
  <2>1. OfKind(b, given, no)
    BY <1>2, <1>e, EntriesAre
  <2>2. given # "Item"
    BY <1>b
  <2> QED BY <2>1, <2>2, Zenon DEF OfKind
<1>6. /\ es \in Seq(EntryType) /\ Len(es) = Len(a) + Len(b)
      /\ \A i \in 1..Len(es) : \/ i \in 1..Len(a) /\ es[i] = a[i]
                               \/ i - Len(a) \in 1..Len(b) /\ es[i] = b[i - Len(a)]
  BY <1>3, <1>4, <1>5, JoinedAre
<1>7. ASSUME es # <<>> PROVE StartOf(source) \in 1..Len(es)
  <2> DEFINE S == {i \in DOMAIN h : h[i] \notin Unavailable}
  <2>1. S \subseteq 1..Len(h) /\ Len(h) \in Nat /\ h \in Seq(Tracks)
    BY <1>0
  <2>2. Len(a) = Cardinality(S)
    <3>1. PICK some : some = Picked(h, S)
      OBVIOUS
    <3>2. some \in Seq(Tracks) /\ Len(some) = Cardinality(S)
      <4> HIDE DEF S
      <4> QED BY <2>1, <3>1, PickedIs
    <3>3. a = [i \in 1..Len(some) |-> Entry(some[i], head, none, 0, NoItem, no)]
      BY <1>1, <3>1 DEF EntriesOf
    <3>4. Len(some) \in Nat
      BY <3>2
    <3> HIDE DEF S
    <3>5. Len(a) = Len(some)
      BY <3>3, <3>4
    <3> QED BY <3>2, <3>5
  <2>3. Len(a) \in Nat /\ Len(b) \in Nat /\ Len(es) # 0 /\ Len(es) \in Nat
    BY <1>4, <1>5, <1>6, <1>7, EmptySeq
  <2>4. CASE source.start \in 1..Len(h) /\ h[source.start] \notin Unavailable
    <3>1. source.start \in S /\ source.start \in Nat /\ source.start \in 0..Len(h)
      BY <2>1, <2>4
    <3>2. StartOf(source) = Count(S, source.start)
      <4>1. \A i : i \in 1..source.start /\ h[i] \notin Unavailable <=> i \in S /\ i <= source.start
        BY <2>1, <2>4
      <4>2. {i \in 1..source.start : h[i] \notin Unavailable} = UpTo(S, source.start)
        BY <4>1 DEF UpTo
      <4> QED BY <1>c, <2>4, <4>2 DEF StartOf, Count
    <3>3. Count(S, source.start) \in 0..Cardinality(S) /\ S \in RowSets
      <4> HIDE DEF S
      <4> QED BY <2>1, <3>1, CountAll
    <3>4. Count(S, source.start) > 0
      <4> HIDE DEF S
      <4> QED BY <3>1, <3>3, CountBounds
    <3> HIDE DEF S
    <3> QED BY <1>6, <2>2, <2>3, <3>2, <3>3, <3>4
  <2>5. CASE ~ (source.start \in 1..Len(h) /\ h[source.start] \notin Unavailable)
    <3>1. StartOf(source) = 1
      BY <1>c, <2>5 DEF StartOf
    <3> QED BY <2>3, <3>1
  <2> QED BY <2>4, <2>5
<1> QED BY <1>4, <1>5, <1>6, <1>7

LEMMA NoneWaits ==
  ASSUME NEW q, QueueOk(q), Pending(q) = {}
  PROVE  Together(q)
<1>1. Run(Pending(q), 1, 0)
  BY DEF Run
<1>2. HasCurrent(q) => ~ IsPending(Current(q))
  BY DEF HasCurrent, Current, Pending
<1> QED BY <1>1, <1>2 DEF Together

\* setSource() begins with a queue in which nothing waits.
LEMMA ReplaceIs ==
  ASSUME NEW q, QueueOk(q), NEW source \in Source, NEW r, r = Replace(q, source)
  PROVE  QueueOk(r) /\ Together(r) /\ MarkAgrees(r) /\ r.hint = q.hint
<1>1. PICK es : es = SourceEntries(source)
  OBVIOUS
<1>2. /\ es \in Seq(EntryType) /\ \A i \in 1..Len(es) : ~ IsPending(es[i])
      /\ es # <<>> => StartOf(source) \in 1..Len(es)
  BY <1>1, SourceEntriesAre
<1>3. PICK playing : playing = IF es = <<>> THEN 0 ELSE StartOf(source)
  OBVIOUS
<1>4. PICK m : m = [q EXCEPT !.own = source.own, !.historyAllowed = source.historyAllowed,
                             !.entries = es, !.playing = playing, !.changed = TRUE]
  OBVIOUS
<1>5. PICK n : n = [NewBase(m) EXCEPT !.history = source.history]
  OBVIOUS
<1>6. r = ResetNavigator(MarkCurrent(n))
  BY <1>1, <1>3, <1>4, <1>5 DEF Replace
<1>7. /\ m.entries = es /\ m.playing = playing /\ m.hint = q.hint /\ m.changed = TRUE
      /\ DOMAIN m = DOMAIN q
  BY <1>4 DEF QueueOk, QueueFields
<1>8. /\ n.entries = es /\ n.playing = playing /\ n.hint = q.hint /\ n.changed = TRUE
      /\ n.contMark = 0 /\ DOMAIN n = DOMAIN q
  BY <1>5, <1>7 DEF NewBase, QueueOk, QueueFields
<1>9. playing \in 0..Len(es)
  BY <1>2, <1>3
<1>10. QueueOk(n)
  <2>1. n.changed \in BOOLEAN /\ n.contMark \in Int
    <3>1. n.changed = TRUE /\ n.contMark = 0
      BY <1>8
    <3>2. n.changed \in BOOLEAN
      BY <3>1, Zenon
    <3> QED BY <3>1, <3>2
  <2>2. n.hint \in Hint /\ QueueFields \subseteq DOMAIN n
    BY <1>8 DEF QueueOk
  <2>3. n.entries \in Entries /\ n.playing \in 0..Len(n.entries)
    BY <1>2, <1>8, <1>9 DEF Entries
  <2> QED BY <2>1, <2>2, <2>3 DEF QueueOk
<1>11. Pending(n) = {}
  BY <1>2, <1>8 DEF Pending, Rows
<1>12. PICK k : k = MarkCurrent(n)
  OBVIOUS
<1>13. Marks(n, k) /\ MarkAgrees(k)
  BY <1>10, <1>12, MarkCurrentIs, MarkMarked
<1>14. QueueOk(k) /\ Pending(k) = {} /\ k.hint = q.hint
  BY <1>8, <1>11, <1>13 DEF Marks
<1>15. Together(k)
  BY <1>14, NoneWaits
<1>16. SameRows(k, r)
  BY <1>6, <1>12, <1>14, ResetNavigatorIs
<1> QED BY <1>13, <1>14, <1>15, <1>16, SameRowsOk, MarkSame DEF SameRows

\* Entries that do not wait come in at the end: nothing that is there moves.
LEMMA GrownIs ==
  ASSUME NEW q, QueueOk(q), NEW added \in Seq(EntryType), NEW m, QueueOk(m),
         \A i \in 1..Len(added) : ~ IsPending(added[i]),
         m.entries = q.entries \o added, m.playing = q.playing, m.contMark = q.contMark
  PROVE  Keeps(q, m)
<1> DEFINE n == Len(q.entries)
<1>0. q.entries \in Seq(EntryType) /\ n \in Nat /\ Rows(q) = 1..n
  BY SomeRows DEF QueueOk, Entries
<1>1. PICK es : es = q.entries \o added
  OBVIOUS
<1>2. /\ es \in Seq(EntryType) /\ Len(es) = n + Len(added)
      /\ \A i \in 1..n : es[i] = q.entries[i]
      /\ \A i \in 1..Len(es) : \/ i \in 1..n /\ es[i] = q.entries[i]
                               \/ i - n \in 1..Len(added) /\ es[i] = added[i - n]
  BY <1>0, <1>1, JoinedAre
<1>3. m.entries = es /\ Rows(m) = 1..Len(es) /\ Len(added) \in Nat
  BY <1>1, SomeRows
<1> HIDE DEF n
<1>4. 1..n \subseteq 1..Len(es)
  BY <1>0, <1>2, <1>3
<1>5. Pending(m) = Pending(q)
  <2>1. ASSUME NEW i PROVE i \in Pending(m) <=> i \in Pending(q)
    BY <1>0, <1>2, <1>3, <1>4 DEF Pending
  <2> QED BY <2>1
<1>6. ASSUME HasCurrent(q) PROVE HasCurrent(m) /\ Current(m) = Current(q)
  <2>1. q.playing \in 1..n
    BY <1>0, <1>6 DEF HasCurrent
  <2> QED BY <1>2, <1>3, <1>4, <2>1 DEF HasCurrent, Current
<1>7. HasCurrent(m) => HasCurrent(q)
  BY SomeRows
<1>8. Together(q) => Together(m)
  BY <1>5, <1>6, <1>7 DEF Together
<1>9. ASSUME MarkAgrees(q) PROVE MarkAgrees(m)
  <2>1. CASE HasCurrent(q)
    <3> DEFINE C == Given(q)
               D == Given(m)
    <3>1. /\ C \in RowSets /\ D \in RowSets
          /\ \A i : i \in C <=> i \in 1..Len(q.entries) /\ q.entries[i].part = "Continuation"
          /\ \A i : i \in D <=> i \in 1..Len(m.entries) /\ m.entries[i].part = "Continuation"
          /\ q.playing \in C => Count(C, q.playing) = q.contMark
          /\ MarkAgrees(m) <=> (m.playing \in D => Count(D, m.playing) = m.contMark)
      BY <1>9, MarkMeans
    <3>2. q.playing \in 1..n
      BY <1>0, <2>1 DEF HasCurrent
    <3>3. \A i \in 1..n : i \in C <=> i \in D
      BY <1>2, <1>3, <1>4, <3>1 DEF n
    <3>4. \A i \in Nat : 0 < i /\ i <= q.playing => (i \in C <=> i + 0 \in D)
      <4> HIDE DEF C, D
      <4> SUFFICES ASSUME NEW i \in Nat, 0 < i, i <= q.playing PROVE i \in C <=> i + 0 \in D
        OBVIOUS
      <4>1. i \in 1..n /\ i + 0 = i
        BY <1>0, <3>2
      <4> QED BY <3>3, <4>1
    <3> HIDE DEF C, D
    <3>5. 0 \in Nat /\ q.playing \in Nat /\ 0 <= q.playing
      BY <1>0, <3>2
    <3>6. GrowAlike(C, D, 0, q.playing, 0)
      BY <3>1, <3>4, <3>5, CountAlike
    <3>7. Count(C, 0) = 0 /\ Count(D, 0) = 0 /\ Count(C, q.playing) \in Nat /\ Count(D, q.playing) \in Nat
      BY <3>1, <3>5, CountNext
    <3>8. q.playing + 0 = q.playing /\ 0 + 0 = 0
      BY <3>5
    <3>9. Count(C, q.playing) = Count(D, q.playing)
      BY <3>6, <3>7, <3>8 DEF GrowAlike
    <3> QED BY <3>1, <3>2, <3>3, <3>9
  <2>2. CASE ~ HasCurrent(q)
    BY <1>7, <2>2 DEF MarkAgrees
  <2> QED BY <2>1, <2>2
<1> QED BY <1>6, <1>8, <1>9 DEF Keeps, KeepsCurrent

\* A continuation's reply.
LEMMA AppendKeeps ==
  ASSUME NEW q, QueueOk(q), NEW tracks \in Seq(Tracks), NEW giver \in Givers, NEW seeds \in Nat,
         NEW r, r = AppendContinuation(q, tracks, giver, seeds)
  PROVE  Edit(q, r) /\ r.hint = q.hint
<1>0. "Continuation" \in Parts /\ FALSE \in BOOLEAN
  BY DEF Parts
<1>a. PICK no : no = FALSE
  OBVIOUS
<1>b. PICK part : part = "Continuation"
  OBVIOUS
<1>1. PICK added : added = EntriesOf(tracks, part, giver, seeds, no)
  OBVIOUS
<1>2. no \in BOOLEAN /\ part \in Parts /\ part # "Item"
  <2>1. no \in BOOLEAN
    BY <1>a, Zenon
  <2> QED BY <1>0, <1>b, <2>1
<1>3. OfKind(added, part, no)
  BY <1>1, <1>2, EntriesAre
<1>4. added \in Seq(EntryType) /\ \A i \in 1..Len(added) : ~ IsPending(added[i])
  BY <1>2, <1>3 DEF OfKind
<1>5. PICK m : m = [q EXCEPT !.entries = @ \o added, !.changed = TRUE,
                             !.historyGave = @ \/ giver = "history"]
  OBVIOUS
<1>6. r = IF added = <<>> THEN q
          ELSE IF q.playing = 0 /\ q.entries = <<>> THEN MarkCurrent([m EXCEPT !.playing = 1])
          ELSE m
  BY <1>1, <1>5, <1>a, <1>b DEF AppendContinuation
<1>7. /\ m.entries = q.entries \o added /\ m.playing = q.playing /\ m.contMark = q.contMark
      /\ m.hint = q.hint /\ m.changed = TRUE /\ DOMAIN m = DOMAIN q
  BY <1>5 DEF QueueOk, QueueFields
<1>8. PICK es : es = q.entries \o added
  OBVIOUS
<1>9. /\ es \in Seq(EntryType) /\ Len(es) = Len(q.entries) + Len(added)
      /\ Len(q.entries) \in Nat /\ Len(added) \in Nat
  <2>1. q.entries \in Seq(EntryType)
    BY DEF QueueOk, Entries
  <2> QED BY <1>4, <1>8, <2>1, JoinedAre
<1>10. m.changed /\ m.changed \in BOOLEAN
  <2>1. m.changed = TRUE
    BY <1>7
  <2>2. m.changed \in BOOLEAN
    BY <2>1, Zenon
  <2> QED BY <2>1, <2>2
<1>11. QueueOk(m)
  <2>1. m.entries \in Entries /\ m.playing \in 0..Len(m.entries)
    BY <1>7, <1>8, <1>9 DEF Entries, QueueOk
  <2>2. m.hint \in Hint /\ QueueFields \subseteq DOMAIN m /\ m.contMark \in Int
    BY <1>7 DEF QueueOk
  <2> QED BY <1>10, <2>1, <2>2 DEF QueueOk
<1>12. CASE added = <<>>
  <2>1. r = q
    BY <1>6, <1>12
  <2>2. SameRows(q, q) /\ NextAlike(q, q)
    BY DEF SameRows, NextAlike, QueueOk
  <2> QED BY <2>1, <2>2, SameKeeps DEF Edit, Quiet
<1>13. CASE added # <<>> /\ ~ (q.playing = 0 /\ q.entries = <<>>)
  <2>1. r = m
    BY <1>6, <1>13
  <2>2. Keeps(q, m)
    BY <1>4, <1>7, <1>11, GrownIs
  <2> QED BY <1>7, <1>10, <2>1, <2>2 DEF Edit, Quiet
<1>14. CASE added # <<>> /\ q.playing = 0 /\ q.entries = <<>>
  <2>1. PICK n : n = [m EXCEPT !.playing = 1]
    OBVIOUS
  <2>2. /\ n.entries = m.entries /\ n.playing = 1 /\ n.contMark = m.contMark /\ n.hint = m.hint
        /\ n.changed = m.changed /\ DOMAIN n = DOMAIN m
    BY <1>11, <2>1 DEF QueueOk, QueueFields
  <2>3. Len(es) > 0
    <3>1. Len(added) # 0
      BY <1>4, <1>14, EmptySeq
    <3> QED BY <1>9, <3>1
  <2>4. QueueOk(n)
    <3>1. 1 \in 0..Len(n.entries)
      BY <1>7, <1>8, <1>9, <2>2, <2>3
    <3> QED BY <1>11, <2>2, <3>1 DEF QueueOk
  <2>5. Pending(n) = {}
    <3>1. es = added
      BY <1>4, <1>8, <1>14
    <3> QED BY <1>4, <1>7, <1>8, <2>2, <3>1 DEF Pending, Rows
  <2>6. r = MarkCurrent(n)
    BY <1>6, <1>14, <2>1
  <2>7. Marks(n, r) /\ MarkAgrees(r)
    BY <2>4, <2>6, MarkCurrentIs, MarkMarked
  <2>8. QueueOk(r) /\ Pending(r) = {} /\ r.hint = q.hint /\ r.changed
    BY <1>7, <1>10, <2>2, <2>5, <2>7 DEF Marks
  <2>9. Together(r)
    BY <2>8, NoneWaits
  <2>10. ~ HasCurrent(q)
    BY <1>14, SomeRows
  <2> QED BY <2>7, <2>8, <2>9, <2>10 DEF Edit, Keeps, KeepsCurrent, Quiet
<1> QED BY <1>12, <1>13, <1>14

LEMMA RunEnds ==
  ASSUME NEW S, NEW a, NEW b, Run(S, a, b), a <= b
  PROVE  a \in S /\ b \in S /\ Least(S) = a /\ Greatest(S) = b
<1>1. a \in Nat /\ b \in Nat /\ S = a..b
  BY DEF Run
<1>2. a \in S /\ S \subseteq Nat /\ S # {} /\ S \subseteq 1..b /\ b \in Nat
  <2>1. a \in S
    BY <1>1
  <2>2. S \subseteq 1..b
    BY DEF Run
  <2> QED BY <1>1, <2>1, <2>2
<1>3. Least(S) \in S /\ \A y \in S : Least(S) <= y
  BY <1>2, LeastIs
<1>4. Greatest(S) \in S /\ \A y \in S : Greatest(S) >= y
  BY <1>2, GreatestIs
<1> QED BY <1>1, <1>3, <1>4

\* Entries that do not wait come in beside those that do.
LEMMA InsertBeside ==
  ASSUME NEW q, QueueOk(q), NEW more \in Seq(EntryType), NEW at \in 1..(Len(q.entries) + 1),
         NEW r, Grown(q, r, at, more), \A i \in 1..Len(more) : ~ IsPending(more[i]),
         at \notin Pending(q), Together(q)
  PROVE  Together(r)
<1>1. PICK a, b : Run(Pending(q), a, b) /\ (a <= b /\ HasCurrent(q) => a = q.playing + 1)
  BY DEF Together
<1>2. PICK l : l = Len(more)
  OBVIOUS
<1>3. /\ a \in Nat /\ b \in Nat /\ a # 0 /\ \A i : i \in Pending(q) <=> i \in a..b
      /\ l \in Nat /\ at \in Nat /\ at # 0
  BY <1>1, <1>2 DEF Run
<1>4. ASSUME NEW i \in Nat
      PROVE  i \in Pending(r) <=> (i < at /\ i \in a..b) \/ (i >= at + l /\ i - l \in a..b)
  <2>1. i \in Pending(r) <=>
          \/ i < at /\ i \in Pending(q)
          \/ i >= at /\ i < at + l /\ IsPending(more[i - at + 1])
          \/ i >= at + l /\ i - l \in Pending(q)
    BY <1>2 DEF Grown
  <2>2. i >= at /\ i < at + l => i - at + 1 \in 1..l
    BY <1>3
  <2> QED BY <1>2, <1>3, <2>1, <2>2
<1>5. QueueOk(r) /\ Pending(r) \subseteq Nat /\ q.playing \in Nat
      /\ HasCurrent(r) = HasCurrent(q) /\ (HasCurrent(q) => Current(r) = Current(q))
      /\ r.playing = q.playing + (IF at <= q.playing THEN l ELSE 0)
  <2>1. QueueOk(r)
    BY DEF Grown
  <2>2. Pending(r) \subseteq Rows(r) /\ Rows(r) \subseteq Nat
    BY <2>1, SomeRows, SomePending
  <2> QED BY <1>2, <2>1, <2>2, SomeRows DEF Grown
<1>6. HasCurrent(r) => ~ IsPending(Current(r))
  BY <1>5 DEF Together
<1>7. CASE at > b
  <2>1. \A i : i \in Pending(r) <=> i \in a..b
    <3>1. \A i \in Nat : i \in Pending(r) <=> i \in a..b
      <4> SUFFICES ASSUME NEW i \in Nat PROVE i \in Pending(r) <=> i \in a..b
        OBVIOUS
      <4> QED BY <1>3, <1>4, <1>7
    <3> QED BY <1>3, <1>5, <3>1
  <2>2. Run(Pending(r), a, b)
    <3>1. Pending(r) = a..b
      BY <2>1
    <3> QED BY <1>3, <3>1 DEF Run
  <2>3. a <= b /\ HasCurrent(r) => a = r.playing + 1
    BY <1>1, <1>3, <1>5, <1>7
  <2> QED BY <1>6, <2>2, <2>3 DEF Together
<1>8. CASE ~ (at > b)
  <2>1. at < a \/ b < a
    BY <1>3, <1>8
  <2>2. PICK c, d : c = a + l /\ d = b + l
    OBVIOUS
  <2>3. CASE b < a
    <3>1. Pending(q) = {}
      BY <1>3, <2>3
    <3>2. \A i \in Nat : i \notin Pending(r)
      BY <1>3, <1>4, <2>3
    <3>3. Pending(r) = {}
      BY <1>5, <3>2
    <3> QED BY <1>5, <3>3, NoneWaits
  <2>4. CASE at < a
    <3>1. \A i \in Nat : i \in Pending(r) <=> i \in c..d
      <4> SUFFICES ASSUME NEW i \in Nat PROVE i \in Pending(r) <=> i \in c..d
        OBVIOUS
      <4>1. ~ (i < at /\ i \in a..b)
        BY <1>3, <2>4
      <4>2. i >= at + l /\ i - l \in a..b <=> i \in c..d
        BY <1>3, <2>2, <2>4
      <4> QED BY <1>4, <4>1, <4>2
    <3>2. c \in Nat \ {0} /\ d \in Nat
      BY <1>3, <2>2
    <3>3. Run(Pending(r), c, d)
      <4>1. c..d \subseteq Nat
        BY <3>2
      <4>2. Pending(r) = c..d
        BY <1>5, <3>1, <4>1
      <4> QED BY <3>2, <4>2 DEF Run
    <3>4. c <= d /\ HasCurrent(r) => c = r.playing + 1
      <4> SUFFICES ASSUME c <= d, HasCurrent(r) PROVE c = r.playing + 1
        OBVIOUS
      <4>1. a <= b /\ HasCurrent(q)
        BY <1>3, <1>5, <2>2
      <4>2. a = q.playing + 1
        BY <1>1, <4>1
      <4>3. at <= q.playing
        BY <1>3, <1>5, <2>4, <4>2
      <4>4. r.playing = q.playing + l
        BY <1>5, <4>3
      <4> QED BY <1>3, <1>5, <2>2, <4>2, <4>4
    <3> QED BY <1>6, <3>3, <3>4 DEF Together
  <2> QED BY <2>1, <2>3, <2>4
<1> QED BY <1>7, <1>8

\* Entries that wait come in before or behind those that wait already.
LEMMA InsertWaiting ==
  ASSUME NEW q, QueueOk(q), NEW more \in Seq(EntryType), NEW at \in 1..(Len(q.entries) + 1),
         NEW r, Grown(q, r, at, more), \A i \in 1..Len(more) : IsPending(more[i]),
         Pending(q) = {} => at = q.playing + 1,
         Pending(q) # {} => at = Least(Pending(q)) \/ at = Greatest(Pending(q)) + 1,
         Together(q)
  PROVE  Together(r)
<1>1. PICK a, b : Run(Pending(q), a, b) /\ (a <= b /\ HasCurrent(q) => a = q.playing + 1)
  BY DEF Together
<1>2. PICK l : l = Len(more)
  OBVIOUS
<1>3. /\ a \in Nat /\ b \in Nat /\ a # 0 /\ \A i : i \in Pending(q) <=> i \in a..b
      /\ l \in Nat /\ at \in Nat /\ at # 0
  BY <1>1, <1>2 DEF Run
<1>4. ASSUME NEW i \in Nat
      PROVE  i \in Pending(r) <=>
               \/ i < at /\ i \in a..b
               \/ i >= at /\ i < at + l
               \/ i >= at + l /\ i - l \in a..b
  <2>1. i \in Pending(r) <=>
          \/ i < at /\ i \in Pending(q)
          \/ i >= at /\ i < at + l /\ IsPending(more[i - at + 1])
          \/ i >= at + l /\ i - l \in Pending(q)
    BY <1>2 DEF Grown
  <2>2. i >= at /\ i < at + l => i - at + 1 \in 1..l
    BY <1>3
  <2> QED BY <1>2, <1>3, <2>1, <2>2
<1>5. QueueOk(r) /\ Pending(r) \subseteq Nat /\ q.playing \in Nat
      /\ HasCurrent(r) = HasCurrent(q) /\ (HasCurrent(q) => Current(r) = Current(q))
      /\ r.playing = q.playing + (IF at <= q.playing THEN l ELSE 0)
  <2>1. QueueOk(r)
    BY DEF Grown
  <2>2. Pending(r) \subseteq Rows(r) /\ Rows(r) \subseteq Nat
    BY <2>1, SomeRows, SomePending
  <2> QED BY <1>2, <2>1, <2>2, SomeRows DEF Grown
<1>6. HasCurrent(r) => ~ IsPending(Current(r))
  BY <1>5 DEF Together
<1>7. CASE a <= b
  <2>1. at = a \/ at = b + 1
    <3>1. Pending(q) # {} /\ Least(Pending(q)) = a /\ Greatest(Pending(q)) = b
      BY <1>1, <1>7, RunEnds
    <3> QED BY <3>1
  <2>2. PICK d : d = b + l
    OBVIOUS
  <2>3. \A i \in Nat : i \in Pending(r) <=> i \in a..d
    <3> SUFFICES ASSUME NEW i \in Nat PROVE i \in Pending(r) <=> i \in a..d
      OBVIOUS
    <3> QED BY <1>3, <1>4, <1>7, <2>1, <2>2
  <2>4. Run(Pending(r), a, d)
    <3>1. a..d \subseteq Nat /\ d \in Nat
      BY <1>3, <2>2
    <3>2. Pending(r) = a..d
      BY <1>5, <2>3, <3>1
    <3> QED BY <1>3, <3>1, <3>2 DEF Run
  <2>5. HasCurrent(r) => a = r.playing + 1
    BY <1>1, <1>3, <1>5, <1>7, <2>1
  <2> QED BY <1>6, <2>4, <2>5 DEF Together
<1>8. CASE ~ (a <= b)
  <2>1. Pending(q) = {}
    BY <1>3, <1>8
  <2>2. PICK d : d = q.playing + l
    OBVIOUS
  <2>3. \A i \in Nat : i \in Pending(r) <=> i \in at..d
    <3> SUFFICES ASSUME NEW i \in Nat PROVE i \in Pending(r) <=> i \in at..d
      OBVIOUS
    <3> QED BY <1>3, <1>4, <1>5, <1>8, <2>1, <2>2
  <2>4. Run(Pending(r), at, d)
    <3>1. at..d \subseteq Nat /\ d \in Nat
      BY <1>3, <1>5, <2>2
    <3>2. Pending(r) = at..d
      BY <1>5, <2>3, <3>1
    <3> QED BY <1>3, <3>1, <3>2 DEF Run
  <2>5. at = r.playing + 1
    BY <1>3, <1>5, <2>1
  <2> QED BY <1>6, <2>4, <2>5 DEF Together
<1> QED BY <1>7, <1>8

LEMMA InsertKeeps ==
  ASSUME NEW q, QueueOk(q), NEW more \in Seq(EntryType), NEW at \in 1..(Len(q.entries) + 1),
         NEW r, r = InsertRows(q, at, more), \A i \in 1..Len(more) : more[i].part # "Continuation",
         Together(q) => Together(r)
  PROVE  Edit(q, r)
<1>1. Grown(q, r, at, more)
  BY InsertRowsIs
<1>2. MarkAgrees(q) => MarkAgrees(r)
  BY MarkInserted
<1> QED BY <1>1, <1>2 DEF Grown, Edit, Keeps, KeepsCurrent, Quiet

\* add()
LEMMA AddKeeps ==
  ASSUME NEW q, QueueOk(q), NEW tracks \in Seq(Tracks), NEW placement \in {"Next", "End"},
         NEW r, r = Add(q, tracks, placement)
  PROVE  Edit(q, r)
<1> DEFINE toHead == placement = "End" /\ q.inHead /\ CountOf(q, "Head") > 0
<1>1. PICK part : part = IF toHead THEN "Head" ELSE "Item"
  OBVIOUS
<1>2. PICK waits : waits = ~ toHead
  OBVIOUS
<1>3. PICK es : es = EntriesOf(tracks, part, "none", 0, waits)
  OBVIOUS
<1>4. part \in Parts /\ part # "Continuation" /\ "none" \in Givers /\ 0 \in Nat
  BY <1>1 DEF Parts, Givers
<1>5. waits \in BOOLEAN
  BY <1>2, Zenon
<1>6. OfKind(es, part, waits)
  BY <1>3, <1>4, <1>5, EntriesAre
<1>7. es \in Seq(EntryType) /\ \A i \in 1..Len(es) : es[i].part # "Continuation"
  BY <1>4, <1>6 DEF OfKind
<1>8. PICK at : at = IF Pending(q) = {} THEN q.playing + 1
                     ELSE IF placement = "Next" THEN Least(Pending(q)) ELSE Greatest(Pending(q)) + 1
  OBVIOUS
<1>9. r = IF es = <<>> THEN q ELSE IF toHead THEN AddToHead(q, es) ELSE InsertRows(q, at, es)
  BY <1>1, <1>2, <1>3, <1>8 DEF Add
<1>10. Rows(q) = 1..Len(q.entries) /\ Len(q.entries) \in Nat /\ q.playing \in 0..Len(q.entries)
  BY SomeRows DEF QueueOk
<1>11. CASE es = <<>>
  <2>1. r = q
    BY <1>9, <1>11
  <2>2. SameRows(q, q) /\ NextAlike(q, q)
    BY DEF SameRows, NextAlike, QueueOk
  <2> QED BY <2>1, <2>2, SameKeeps DEF Edit, Quiet
<1>12. CASE es # <<>> /\ ~ toHead
  <2>1. r = InsertRows(q, at, es)
    BY <1>9, <1>12
  <2>2. at \in 1..(Len(q.entries) + 1)
    <3>1. CASE Pending(q) = {}
      BY <1>8, <1>10, <3>1
    <3>2. CASE Pending(q) # {}
      <4>1. Least(Pending(q)) \in 1..Len(q.entries) /\ Greatest(Pending(q)) \in 1..Len(q.entries)
        BY <1>10, <3>2, SomePending
      <4> QED BY <1>8, <1>10, <3>2, <4>1
    <3> QED BY <3>1, <3>2
  <2>3. \A i \in 1..Len(es) : IsPending(es[i])
    BY <1>1, <1>2, <1>6, <1>12 DEF OfKind
  <2>4. Grown(q, r, at, es)
    BY <1>7, <2>1, <2>2, InsertRowsIs
  <2>5. /\ Pending(q) = {} => at = q.playing + 1
        /\ Pending(q) # {} => at = Least(Pending(q)) \/ at = Greatest(Pending(q)) + 1
    BY <1>8
  <2>6. Together(q) => Together(r)
    BY <1>7, <2>2, <2>3, <2>4, <2>5, InsertWaiting
  <2> QED BY <1>7, <2>1, <2>2, <2>6, InsertKeeps
<1>13. CASE es # <<>> /\ toHead
  <2> DEFINE heads == RowsOf(q, "Head")
  <2>1. PICK last : last = Greatest(heads)
    OBVIOUS
  <2>2. PICK behind : behind = {i \in (last + 1)..(Len(q.entries) + 1) : i \notin Pending(q)}
    OBVIOUS
  <2>3. PICK place : place = Least(behind)
    OBVIOUS
  <2>4. PICK m : m = InsertRows(q, place, es)
    OBVIOUS
  <2>5. r = [m EXCEPT !.nav = NavAppend(@, Len(es), q.luck)]
    BY <1>9, <1>13, <2>1, <2>2, <2>3, <2>4 DEF AddToHead
  <2>6. last \in 1..Len(q.entries)
    <3>1. heads \subseteq 1..Len(q.entries)
      BY <1>10 DEF RowsOf
    <3>2. heads # {}
      <4>1. CountOf(q, "Head") > 0
        BY <1>13
      <4>2. heads = {} => CountOf(q, "Head") = 0
        BY FS_EmptySet DEF CountOf
      <4> QED BY <4>1, <4>2
    <3> HIDE DEF heads
    <3> QED BY <1>10, <2>1, <3>1, <3>2, GreatestIs
  <2>7. place \in 1..(Len(q.entries) + 1) /\ place \notin Pending(q)
    <3>1. Len(q.entries) + 1 \notin Pending(q)
      BY <1>10, SomePending
    <3>2. Len(q.entries) + 1 \in behind /\ behind \subseteq Nat
      BY <1>10, <2>2, <2>6, <3>1
    <3>3. place \in behind
      BY <2>3, <3>2, LeastIs
    <3> QED BY <1>10, <2>2, <2>6, <3>3
  <2>8. \A i \in 1..Len(es) : ~ IsPending(es[i])
    BY <1>1, <1>6, <1>13 DEF OfKind
  <2>9. Grown(q, m, place, es)
    BY <1>7, <2>4, <2>7, InsertRowsIs
  <2>10. Together(q) => Together(m)
    BY <1>7, <2>7, <2>8, <2>9, InsertBeside
  <2>11. Edit(q, m)
    BY <1>7, <2>4, <2>7, <2>10, InsertKeeps
  <2>12. QueueOk(m) /\ m.changed
    BY <2>9 DEF Grown
  <2>13. SameRows(m, r)
    BY <2>5, <2>12 DEF SameRows, QueueOk, QueueFields
  <2>14. QueueOk(r) /\ Keeps(m, r) /\ KeepsCurrent(m, r) /\ r.changed
    BY <2>12, <2>13, SameKeeps, SameRowsOk DEF SameRows
  <2> QED BY <2>11, <2>14 DEF Edit, Keeps, KeepsCurrent, Quiet
<1> QED BY <1>11, <1>12, <1>13

\* A new base under a layer keeps the current entry and the layer's items.
LEMMA ReplaceBaseKeeps ==
  ASSUME NEW q, QueueOk(q), NEW source \in Source, NEW r, r = ReplaceBase(q, source)
  PROVE  Keeps(q, r) /\ r.hint = q.hint
<1> DEFINE one == [Current(q) EXCEPT !.part = IF @ = "Item" THEN @ ELSE "Other"]
           items == {i \in Rows(q) : IsWaitingItem(q.entries[i])}
<1>1. PICK base : base = SourceEntries(source)
  OBVIOUS
<1>2. base \in Seq(EntryType) /\ \A i \in 1..Len(base) : ~ IsPending(base[i])
  BY <1>1, SourceEntriesAre
<1>3. PICK current : current = IF ~ HasCurrent(q) THEN <<>> ELSE <<one>>
  OBVIOUS
<1>4. PICK waiting : waiting = EntriesAt(q, items)
  OBVIOUS
<1>5. PICK m : m = [q EXCEPT !.own = source.own, !.historyAllowed = source.historyAllowed,
                             !.entries = (current \o waiting) \o base,
                             !.playing = IF HasCurrent(q) THEN 1 ELSE 0, !.changed = TRUE]
  OBVIOUS
<1>6. PICK n : n = [NewBase(m) EXCEPT !.headStart = IF source.start > 0 THEN StartOf(source) ELSE 0,
                                      !.history = source.history]
  OBVIOUS
<1>7. r = ResetNavigator(n)
  BY <1>1, <1>3, <1>4, <1>5, <1>6 DEF ReplaceBase
<1>8. PICK es : es = (current \o waiting) \o base
  OBVIOUS
<1>9. /\ m.entries = es /\ m.playing = (IF HasCurrent(q) THEN 1 ELSE 0) /\ m.hint = q.hint
      /\ m.changed = TRUE /\ DOMAIN m = DOMAIN q
  BY <1>5, <1>8 DEF QueueOk, QueueFields
<1>10. /\ n.entries = es /\ n.playing = (IF HasCurrent(q) THEN 1 ELSE 0) /\ n.hint = q.hint
       /\ n.changed = TRUE /\ n.contMark = 0 /\ DOMAIN n = DOMAIN q
  BY <1>6, <1>9 DEF NewBase, QueueOk, QueueFields
<1>11. /\ waiting \in Seq(EntryType) /\ \A i \in 1..Len(waiting) : IsPending(waiting[i])
  <2>1. items \subseteq 1..Len(q.entries) /\ q.entries \in Seq(EntryType)
    BY SomeRows DEF QueueOk, Entries
  <2>2. /\ waiting \in Seq(EntryType) /\ Len(waiting) = Cardinality(items)
        /\ \A k \in 1..Cardinality(items) : \E i \in items : waiting[k] = q.entries[i]
    <3> HIDE DEF items
    <3>1. PICK S : S = items
      OBVIOUS
    <3>2. S \subseteq 1..Len(q.entries) /\ waiting = Picked(q.entries, S)
      BY <1>4, <2>1, <3>1 DEF EntriesAt
    <3>3. /\ waiting \in Seq(EntryType) /\ Len(waiting) = Cardinality(S)
          /\ \A k \in 1..Cardinality(S) : \E i \in S : waiting[k] = q.entries[i]
      BY <2>1, <3>2, PickedIs
    <3> QED BY <3>1, <3>3
  <2> QED BY <2>2 DEF IsWaitingItem
<1>12. HasCurrent(q) => /\ one \in EntryType /\ one.track = Current(q).track
                        /\ one.giver = Current(q).giver /\ one.part # "Continuation"
                        /\ (~ IsPending(Current(q)) => ~ IsPending(one))
  BY SomeRows DEF EntryType, Parts, IsPending
<1> HIDE DEF one
<1>13. PICK c : c = IF HasCurrent(q) THEN 1 ELSE 0
  OBVIOUS
<1>14. /\ current \in Seq(EntryType) /\ Len(current) = c /\ c \in Nat
       /\ HasCurrent(q) => current[1] = one
  BY <1>3, <1>12, <1>13
<1>15. PICK front : front = current \o waiting
  OBVIOUS
<1>16. /\ front \in Seq(EntryType) /\ Len(front) = c + Len(waiting)
       /\ \A i \in 1..Len(current) : front[i] = current[i]
       /\ \A i \in 1..Len(waiting) : front[Len(current) + i] = waiting[i]
  <2>1. /\ front \in Seq(EntryType) /\ Len(front) = Len(current) + Len(waiting)
        /\ \A i \in 1..Len(current) : front[i] = current[i]
        /\ \A i \in 1..Len(waiting) : front[Len(current) + i] = waiting[i]
        /\ \A i \in 1..Len(front) :
             \/ i \in 1..Len(current) /\ front[i] = current[i]
             \/ i - Len(current) \in 1..Len(waiting) /\ front[i] = waiting[i - Len(current)]
    <3>1. current \in Seq(EntryType) /\ waiting \in Seq(EntryType) /\ front = current \o waiting
      BY <1>11, <1>14, <1>15
    <3> QED BY <3>1, JoinedAre
  <2> QED BY <1>14, <2>1
<1>17. /\ es \in Seq(EntryType) /\ Len(es) = Len(front) + Len(base)
       /\ \A i \in 1..Len(front) : es[i] = front[i]
       /\ \A i \in 1..Len(es) : \/ i \in 1..Len(front) /\ es[i] = front[i]
                                \/ i - Len(front) \in 1..Len(base) /\ es[i] = base[i - Len(front)]
  <2>1. es = front \o base
    BY <1>8, <1>15
  <2>2. /\ es \in Seq(EntryType) /\ Len(es) = Len(front) + Len(base)
        /\ \A i \in 1..Len(front) : es[i] = front[i]
        /\ \A i \in 1..Len(base) : es[Len(front) + i] = base[i]
        /\ \A i \in 1..Len(es) : \/ i \in 1..Len(front) /\ es[i] = front[i]
                                 \/ i - Len(front) \in 1..Len(base) /\ es[i] = base[i - Len(front)]
    <3>1. front \in Seq(EntryType) /\ base \in Seq(EntryType)
      BY <1>2, <1>16
    <3> QED BY <2>1, <3>1, JoinedAre
  <2> QED BY <2>2
<1>18. PICK w, b : w = Len(waiting) /\ b = Len(base)
  OBVIOUS
<1>19. w \in Nat /\ b \in Nat /\ Len(es) = c + w + b /\ Len(front) = c + w
  BY <1>2, <1>11, <1>16, <1>17, <1>18
<1>20. QueueOk(n)
  <2>1. n.changed \in BOOLEAN
    <3>1. n.changed = TRUE
      BY <1>10
    <3> QED BY <3>1, Zenon
  <2>2. n.playing \in 0..Len(n.entries) /\ n.contMark \in Int
    BY <1>10, <1>13, <1>14, <1>19
  <2>3. n.entries \in Entries /\ n.hint \in Hint /\ QueueFields \subseteq DOMAIN n
    BY <1>10, <1>17 DEF Entries, QueueOk
  <2> QED BY <2>1, <2>2, <2>3 DEF QueueOk
<1>21. SameRows(n, r)
  BY <1>7, <1>20, ResetNavigatorIs
<1>22. QueueOk(r) /\ HasCurrent(r) = HasCurrent(n) /\ (HasCurrent(n) => Current(r) = Current(n))
       /\ (Together(n) => Together(r)) /\ (MarkAgrees(n) => MarkAgrees(r)) /\ r.hint = n.hint
  BY <1>20, <1>21, SameRowsOk, MarkSame DEF SameRows
<1>23. HasCurrent(n) <=> HasCurrent(q)
  <2>1. HasCurrent(n) <=> n.playing # 0
    BY <1>20, SomeRows
  <2> QED BY <1>10, <2>1
<1>24. ASSUME HasCurrent(q) PROVE Current(n) = one
  <2>1. c = 1 /\ n.playing = 1
    BY <1>10, <1>13, <1>24
  <2>2. 1 \in 1..Len(current) /\ 1 \in 1..Len(front)
    BY <1>14, <1>19, <2>1
  <2>3. es[1] = current[1]
    BY <1>16, <1>17, <2>2
  <2> QED BY <1>10, <1>14, <1>24, <2>1, <2>3 DEF Current
<1>25. KeepsCurrent(q, r)
  BY <1>12, <1>22, <1>23, <1>24 DEF KeepsCurrent
<1>26. MarkAgrees(n)
  BY <1>12, <1>23, <1>24 DEF MarkAgrees
<1>27. ASSUME Together(q) PROVE Together(n)
  <2>1. HasCurrent(q) => ~ IsPending(one)
    BY <1>12, <1>27 DEF Together
  <2>2. ASSUME NEW i \in Nat PROVE i \in Pending(n) <=> i \in (c + 1)..(c + w)
    <3>1. i \in Pending(n) <=> i \in 1..Len(es) /\ IsPending(es[i])
      BY <1>10 DEF Pending, Rows
    <3>2. CASE i <= c /\ i # 0
      <4>1. HasCurrent(q) /\ i = 1 /\ c = 1
        BY <1>13, <3>2
      <4>2. IsPending(es[i]) <=> IsPending(one)
        BY <1>10, <1>24, <4>1 DEF Current
      <4> QED BY <2>1, <3>1, <4>1, <4>2
    <3>3. CASE i = 0
      BY <1>14, <3>1, <3>3
    <3>4. CASE i > c /\ i <= c + w
      <4>1. i - c \in 1..w /\ c + (i - c) = i /\ i \in 1..Len(front) /\ i \in 1..Len(es)
            /\ i \in (c + 1)..(c + w)
        BY <1>14, <1>19, <3>4
      <4>2. front[i] = waiting[i - c]
        BY <1>14, <1>16, <1>18, <4>1
      <4>3. IsPending(es[i])
        BY <1>11, <1>17, <1>18, <4>1, <4>2
      <4> QED BY <3>1, <4>1, <4>3
    <3>5. CASE i > c + w
      <4>1. i \notin 1..Len(front) /\ i \notin (c + 1)..(c + w)
        BY <1>14, <1>19, <3>5
      <4>2. i \in 1..Len(es) => ~ IsPending(es[i])
        BY <1>2, <1>17, <4>1
      <4> QED BY <3>1, <4>1, <4>2
    <3> QED BY <1>14, <1>19, <3>2, <3>3, <3>4, <3>5
  <2>3. Pending(n) \subseteq Nat
    BY <1>20, SomeRows, SomePending
  <2>4. c + 1 \in Nat \ {0} /\ c + w \in Nat /\ (c + 1)..(c + w) \subseteq Nat
    BY <1>14, <1>19
  <2>5. Pending(n) = (c + 1)..(c + w)
    BY <2>2, <2>3, <2>4
  <2>6. Run(Pending(n), c + 1, c + w)
    BY <2>4, <2>5 DEF Run
  <2>7. HasCurrent(n) => c + 1 = n.playing + 1
    BY <1>10, <1>13
  <2>8. HasCurrent(n) => ~ IsPending(Current(n))
    BY <1>23, <1>24, <2>1
  <2> QED BY <2>6, <2>7, <2>8 DEF Together
<1> QED BY <1>10, <1>22, <1>25, <1>26, <1>27 DEF Keeps

LEMMA EndLayerKeeps ==
  ASSUME NEW q, QueueOk(q), NEW r, r = EndLayer(q)
  PROVE  Keeps(q, r) /\ r.changed /\ r.hint = NoHint
<1> DEFINE stale == {i \in RowsOf(q, "Continuation") :
                       q.entries[i].seeds # 0 /\ OrdinalOf(q, i) > q.contMark}
           es == [i \in Rows(q) |-> [q.entries[i] EXCEPT !.item = NoItem]]
           n == Len(q.entries)
<1>1. PICK m : m = [q EXCEPT !.hint = NoHint, !.entries = es, !.changed = TRUE]
  OBVIOUS
<1>2. r = RemoveRows(m, stale)
  BY <1>1 DEF EndLayer
<1>3. Rows(q) = 1..n /\ n \in Nat /\ \A i \in 1..n : q.entries[i] \in EntryType
  BY SomeRows
<1>4. ASSUME NEW i \in 1..n, NEW e, e = [q.entries[i] EXCEPT !.item = NoItem]
      PROVE  /\ e \in EntryType /\ e.part = q.entries[i].part /\ e.track = q.entries[i].track
             /\ e.giver = q.entries[i].giver
             /\ IsPending(e) <=> IsPending(q.entries[i])
  <2>1. e \in EntryType /\ e.part = q.entries[i].part /\ e.track = q.entries[i].track
        /\ e.giver = q.entries[i].giver /\ e.pending = q.entries[i].pending
    BY <1>3, <1>4 DEF EntryType
  <2>2. IsPending(e) <=> IsPending(q.entries[i])
    BY <2>1 DEF IsPending
  <2> QED BY <2>1, <2>2
<1>5. /\ es \in Seq(EntryType) /\ Len(es) = n
      /\ \A i \in 1..n : /\ es[i].part = q.entries[i].part /\ es[i].track = q.entries[i].track
                         /\ es[i].giver = q.entries[i].giver
                         /\ IsPending(es[i]) <=> IsPending(q.entries[i])
  <2>1. es = [i \in 1..n |-> [q.entries[i] EXCEPT !.item = NoItem]]
    BY <1>3
  <2>2. \A i \in 1..n : es[i] = [q.entries[i] EXCEPT !.item = NoItem]
    BY <2>1
  <2> HIDE DEF es, n
  <2>3. \A i \in 1..n : es[i] \in EntryType
    BY <1>4, <2>2
  <2>4. es \in [1..n -> EntryType]
    <3>1. DOMAIN es = 1..n /\ es = [i \in 1..n |-> es[i]]
      BY <2>1
    <3> QED BY <2>3, <3>1
  <2>5. es \in Seq(EntryType) /\ Len(es) = n
    BY <1>3, <2>4
  <2>6. \A i \in 1..n :
          /\ es[i].part = q.entries[i].part /\ es[i].track = q.entries[i].track
          /\ es[i].giver = q.entries[i].giver
          /\ IsPending(es[i]) <=> IsPending(q.entries[i])
    <3> TAKE i \in 1..n
    <3>1. es[i] = [q.entries[i] EXCEPT !.item = NoItem]
      BY <2>2
    <3> QED BY <1>4, <3>1
  <2> QED BY <2>5, <2>6
<1> HIDE DEF es
<1>6. /\ m.entries = es /\ m.playing = q.playing /\ m.contMark = q.contMark /\ m.hint = NoHint
      /\ m.changed = TRUE /\ DOMAIN m = DOMAIN q
  BY <1>1 DEF QueueOk, QueueFields
<1>7. QueueOk(m)
  <2>1. m.changed \in BOOLEAN
    <3>1. m.changed = TRUE
      BY <1>6
    <3> QED BY <3>1, Zenon
  <2>2. NoHint \in Hint
    BY DEF NoHint, Hint
  <2>3. m.entries \in Entries /\ m.playing \in 0..Len(m.entries) /\ m.contMark \in Int
        /\ QueueFields \subseteq DOMAIN m
    BY <1>5, <1>6 DEF Entries, QueueOk
  <2> QED BY <1>6, <2>1, <2>2, <2>3 DEF QueueOk
<1>8. Rows(m) = Rows(q) /\ Rows(m) = 1..n
  BY <1>3, <1>5, <1>6 DEF Rows
<1>9. Pending(m) = Pending(q) /\ Given(m) = Given(q)
  <2>1. ASSUME NEW i PROVE i \in Pending(m) <=> i \in Pending(q)
    BY <1>5, <1>6, <1>8 DEF Pending
  <2>2. ASSUME NEW i PROVE i \in Given(m) <=> i \in Given(q)
    BY <1>5, <1>6, <1>8 DEF Given, RowsOf
  <2> QED BY <2>1, <2>2
<1>10. HasCurrent(m) = HasCurrent(q)
  BY <1>6, <1>8 DEF HasCurrent
<1>11. HasCurrent(q) => /\ Current(m).track = Current(q).track
                        /\ Current(m).giver = Current(q).giver
                        /\ IsPending(Current(m)) <=> IsPending(Current(q))
  BY <1>5, <1>6, <1>8 DEF HasCurrent, Current
<1>12. Together(q) => Together(m)
  BY <1>6, <1>9, <1>10, <1>11 DEF Together
<1>13. MarkAgrees(q) => MarkAgrees(m)
  BY <1>6, <1>7, <1>9, MarkMeans
<1>14. MarkAgrees(q) => q.playing \notin stale
  <2>1. q.playing \in stale => q.playing \in Given(q) /\ OrdinalOf(q, q.playing) > q.contMark
    BY DEF Given
  <2>2. q.playing \in Given(q) => OrdinalOf(q, q.playing) = Count(Given(q), q.playing)
    BY MarkMeans
  <2>3. q.contMark \in Int
    BY DEF QueueOk
  <2> QED BY <2>1, <2>2, <2>3, MarkMeans
<1> HIDE DEF stale
<1>15. QueueOk(r) /\ (Together(m) => Together(r)) /\ (MarkAgrees(m) => MarkAgrees(r))
       /\ (m.playing \notin stale => Edit(m, r))
  BY <1>2, <1>7, RemoveKeeps
<1>16. r.changed /\ r.hint = NoHint
  <2>1. (r.changed <=> m.changed \/ stale \cap Rows(m) # {}) /\ r.hint = m.hint
    BY <1>2, <1>7, RemoveRowsIs
  <2> QED BY <1>6, <2>1
<1> QED BY <1>6, <1>10, <1>11, <1>12, <1>13, <1>14, <1>15, <1>16 DEF Keeps, Edit, KeepsCurrent

-----------------------------------------------------------------------------
(* setItems() *)

Joined(s, t, u) ==
  /\ Len(u) = Len(s) + Len(t)
  /\ \A i \in 1..Len(u) : \/ i \in 1..Len(s) /\ u[i] = s[i]
                          \/ i - Len(s) \in 1..Len(t) /\ u[i] = t[i - Len(s)]

LEMMA JoinedIs ==
  ASSUME NEW T, NEW s \in Seq(T), NEW t \in Seq(T), NEW u, u = s \o t
  PROVE  u \in Seq(T) /\ Joined(s, t, u)
BY JoinedAre DEF Joined

\* A stretch of a sequence gives way to something else.
Spliced(s, p, more, c, u) ==
  /\ Len(u) = p + Len(more) + (Len(s) - c + 1)
  /\ \A i \in 1..Len(u) :
       \/ i <= p /\ u[i] = s[i]
       \/ i > p /\ i <= p + Len(more) /\ u[i] = more[i - p]
       \/ /\ i > p + Len(more) /\ i - p - Len(more) + c - 1 \in c..Len(s)
          /\ u[i] = s[i - p - Len(more) + c - 1]

LEMMA SplicedIs ==
  ASSUME NEW T, NEW s \in Seq(T), NEW more \in Seq(T), NEW p \in 0..Len(s),
         NEW c \in (p + 1)..(Len(s) + 1), NEW u,
         u = SubSeq(s, 1, p) \o more \o SubSeq(s, c, Len(s))
  PROVE  u \in Seq(T) /\ Spliced(s, p, more, c, u)
<1>0. Len(s) \in Nat /\ Len(more) \in Nat /\ p \in Nat /\ c \in Nat /\ c > p /\ c <= Len(s) + 1
  OBVIOUS
<1>1. PICK x, z : x = SubSeq(s, 1, p) /\ z = SubSeq(s, c, Len(s))
  OBVIOUS
<1>2. x \in Seq(T) /\ Len(x) = p /\ \A i \in 1..p : x[i] = s[i]
  <2>1. \A i \in 1..p : s[i] \in T
    BY <1>0
  <2>2. 1 \in Int /\ p \in Int
    BY <1>0
  <2>3. /\ SubSeq(s, 1, p) \in Seq(T)
        /\ Len(SubSeq(s, 1, p)) = IF 1 <= p THEN p - 1 + 1 ELSE 0
        /\ \A i \in 1..(p - 1 + 1) : SubSeq(s, 1, p)[i] = s[1 + i - 1]
    BY <2>1, <2>2, SubSeqProperties
  <2>4. /\ x \in Seq(T) /\ Len(x) = IF 1 <= p THEN p - 1 + 1 ELSE 0
        /\ \A i \in 1..(p - 1 + 1) : x[i] = s[1 + i - 1]
    BY <1>1, <2>3
  <2>5. Len(x) = p /\ p - 1 + 1 = p
    BY <1>0, <2>4
  <2>6. ASSUME NEW i \in 1..p PROVE x[i] = s[i]
    <3>1. i \in 1..(p - 1 + 1) /\ 1 + i - 1 = i
      BY <1>0, <2>6
    <3> QED BY <2>4, <3>1
  <2> QED BY <2>4, <2>5, <2>6
<1>3. PICK e : e = Len(s) - c + 1
  OBVIOUS
<1>4. z \in Seq(T) /\ Len(z) = e /\ \A i \in 1..e : z[i] = s[c + i - 1]
  <2>1. \A i \in c..Len(s) : s[i] \in T
    BY <1>0
  <2>2. c \in Int /\ Len(s) \in Int
    BY <1>0
  <2>3. /\ SubSeq(s, c, Len(s)) \in Seq(T)
        /\ Len(SubSeq(s, c, Len(s))) = IF c <= Len(s) THEN Len(s) - c + 1 ELSE 0
        /\ \A i \in 1..(Len(s) - c + 1) : SubSeq(s, c, Len(s))[i] = s[c + i - 1]
    BY <2>1, <2>2, SubSeqProperties
  <2>4. /\ z \in Seq(T) /\ Len(z) = IF c <= Len(s) THEN Len(s) - c + 1 ELSE 0
        /\ \A i \in 1..(Len(s) - c + 1) : z[i] = s[c + i - 1]
    BY <1>1, <2>3
  <2> QED BY <1>0, <1>3, <2>4
<1>5. PICK y : y = x \o more
  OBVIOUS
<1>6. y \in Seq(T) /\ Joined(x, more, y)
  BY <1>2, <1>5, JoinedIs
<1>7. u = y \o z
  BY <1>1, <1>5
<1>8. u \in Seq(T) /\ Joined(y, z, u)
  BY <1>4, <1>6, <1>7, JoinedIs
<1>9. PICK l : l = Len(more)
  OBVIOUS
<1>10. e \in Nat /\ l \in Nat /\ Len(y) = p + l /\ Len(u) = p + l + e
  <2>1. e \in Nat /\ l \in Nat
    BY <1>0, <1>3, <1>9
  <2>2. Len(y) = p + l
    BY <1>2, <1>6, <1>9 DEF Joined
  <2>3. Len(u) = Len(y) + Len(z) /\ Len(z) = e
    BY <1>4, <1>8 DEF Joined
  <2> QED BY <2>1, <2>2, <2>3
<1>13. PICK m : m = Len(u)
  OBVIOUS
<1>14. m \in Nat /\ m = p + l + e
  BY <1>0, <1>10, <1>13
<1>11. ASSUME NEW i \in 1..m
       PROVE  \/ i <= p /\ u[i] = s[i]
              \/ i > p /\ i <= p + l /\ u[i] = more[i - p]
              \/ /\ i > p + l /\ i - p - l + c - 1 \in c..Len(s)
                 /\ u[i] = s[i - p - l + c - 1]
  <2>0. i \in Nat /\ i # 0 /\ i \in 1..Len(u)
    <3>1. i \in 1..Len(u)
      BY <1>13, Zenon
    <3>2. i \in Nat /\ i # 0
      BY <1>14, SMT
    <3> QED BY <3>1, <3>2, Zenon
  <2>a. \/ i \in 1..(p + l) /\ u[i] = y[i]
        \/ i - (p + l) \in 1..e /\ u[i] = z[i - (p + l)]
    <3>1. \/ i \in 1..Len(y) /\ u[i] = y[i]
          \/ i - Len(y) \in 1..Len(z) /\ u[i] = z[i - Len(y)]
      BY <1>8, <2>0 DEF Joined
    <3> QED BY <1>4, <1>10, <3>1
  <2>1. CASE i \in 1..(p + l) /\ u[i] = y[i]
    <3>1. \/ i \in 1..p /\ y[i] = x[i]
          \/ i - p \in 1..l /\ y[i] = more[i - p]
      <4>1. i \in 1..Len(y)
        BY <1>10, <2>1
      <4>2. \/ i \in 1..Len(x) /\ y[i] = x[i]
            \/ i - Len(x) \in 1..Len(more) /\ y[i] = more[i - Len(x)]
        BY <1>6, <4>1 DEF Joined
      <4> QED BY <1>2, <1>9, <4>2
    <3>2. CASE i \in 1..p /\ y[i] = x[i]
      BY <1>0, <1>2, <2>0, <2>1, <3>2
    <3>3. CASE i - p \in 1..l /\ y[i] = more[i - p]
      <4>1. i > p /\ i <= p + l
        BY <1>0, <1>10, <2>0, <3>3
      <4> QED BY <2>1, <3>3, <4>1
    <3> QED BY <3>1, <3>2, <3>3
  <2>2. CASE i - (p + l) \in 1..e /\ u[i] = z[i - (p + l)]
    <3>3. PICK k : k = i - (p + l)
      OBVIOUS
    <3>4. k \in 1..e /\ u[i] = z[k]
      BY <2>2, <3>3
    <3>5. u[i] = s[c + k - 1]
      BY <1>4, <3>4
    <3>6. i > p + l /\ c + k - 1 = i - p - l + c - 1 /\ i - p - l + c - 1 \in c..Len(s)
      BY <1>0, <1>3, <1>10, <2>0, <3>3, <3>4
    <3> QED BY <3>5, <3>6
  <2> QED BY <2>a, <2>1, <2>2
<1>12. Len(u) = p + Len(more) + (Len(s) - c + 1)
  BY <1>3, <1>9, <1>10
<1> QED BY <1>8, <1>9, <1>11, <1>12, <1>13 DEF Spliced

\* Rows that reach back to the first of them are a run.
LEMMA BlockIs ==
  ASSUME NEW n \in Nat, NEW S, S \subseteq 1..n, NEW a \in Nat \ {0},
         \A i \in S : i >= a /\ \A j \in a..i : j \in S
  PROVE  S = a..(a + Cardinality(S) - 1) /\ Cardinality(S) \in Nat
<1>1. CASE S = {}
  <2>1. Cardinality(S) = 0
    BY <1>1, FS_EmptySet
  <2> QED BY <1>1, <2>1
<1>2. CASE S # {}
  <2>1. PICK g : g = Greatest(S)
    OBVIOUS
  <2>2. g \in S /\ \A y \in S : g >= y
    BY <1>2, <2>1, GreatestIs
  <2>3. g \in Nat /\ g >= a
    BY <2>2
  <2>4. ASSUME NEW i PROVE i \in S <=> i \in a..g
    <3>1. i \in S => i \in Nat /\ i >= a /\ i <= g
      BY <2>2, <2>3
    <3>2. i \in a..g => i \in S
      BY <2>2
    <3> QED BY <2>3, <3>1, <3>2
  <2>5. S = a..g
    BY <2>4
  <2>6. a \in Int /\ g \in Int
    BY <2>3
  <2>7. Cardinality(a..g) = IF a > g THEN 0 ELSE g - a + 1
    BY <2>6, FS_Interval
  <2>8. Cardinality(S) = g - a + 1
    BY <2>3, <2>5, <2>7
  <2> QED BY <2>3, <2>5, <2>8
<1> QED BY <1>1, <1>2

\* The layer's items that stay are the first of those that wait.
LEMMA LayerRowsAre ==
  ASSUME NEW q, QueueOk(q), Together(q), NEW items \in ItemList
  PROVE  /\ LayerRows(q) \subseteq Rows(q) /\ LayerRows(q) \subseteq Pending(q)
         /\ \E b : /\ Pending(q) = ItemsStart(q)..b /\ b \in (ItemsStart(q) - 1)..Len(q.entries)
         /\ ItemsStart(q) \in 1..(Len(q.entries) + 1)
         /\ ItemsStart(q) > q.playing /\ (HasCurrent(q) => ItemsStart(q) = q.playing + 1)
         /\ \A i \in LayerRows(q) : /\ i >= ItemsStart(q)
                                    /\ \A j \in ItemsStart(q)..i : j \in LayerRows(q)
<1>1. PICK a, c : Run(Pending(q), a, c) /\ (a <= c /\ HasCurrent(q) => a = q.playing + 1)
  BY DEF Together
<1>2. PICK start : start = ItemsStart(q)
  OBVIOUS
<1>3. /\ Rows(q) = 1..Len(q.entries) /\ Len(q.entries) \in Nat /\ q.playing \in 0..Len(q.entries)
      /\ HasCurrent(q) <=> q.playing # 0
  BY SomeRows DEF QueueOk
<1>4. a \in Nat \ {0} /\ c \in Nat /\ Pending(q) = a..c
  BY <1>1 DEF Run
<1>5. Pending(q) \subseteq 1..Len(q.entries)
  BY <1>3, SomePending
<1>6. /\ start \in 1..(Len(q.entries) + 1) /\ start > q.playing
      /\ HasCurrent(q) => start = q.playing + 1
      /\ \E b : Pending(q) = start..b /\ b \in (start - 1)..Len(q.entries)
  <2>1. CASE a <= c
    <3>1. a \in Pending(q) /\ c \in Pending(q) /\ Least(Pending(q)) = a
      BY <1>1, <2>1, RunEnds
    <3>2. start = a
      BY <1>2, <3>1 DEF ItemsStart
    <3>3. c \in (start - 1)..Len(q.entries) /\ start \in 1..(Len(q.entries) + 1)
      BY <1>3, <1>4, <1>5, <2>1, <3>1, <3>2
    <3>4. start > q.playing /\ (HasCurrent(q) => start = q.playing + 1)
      BY <1>1, <1>3, <1>4, <2>1, <3>2
    <3> QED BY <1>4, <3>2, <3>3, <3>4
  <2>2. CASE ~ (a <= c)
    <3>1. Pending(q) = {}
      BY <1>4, <2>2
    <3>2. start = q.playing + 1
      BY <1>2, <3>1 DEF ItemsStart
    <3>3. Pending(q) = start..(start - 1) /\ start - 1 \in (start - 1)..Len(q.entries)
      BY <1>3, <3>1, <3>2
    <3> QED BY <1>3, <3>2, <3>3
  <2> QED BY <2>1, <2>2
<1>7. LayerRows(q) = {i \in Rows(q) : i >= start /\ \A j \in start..i : IsWaitingItem(q.entries[j])}
  BY <1>2 DEF LayerRows
<1>8. ASSUME NEW i \in LayerRows(q)
      PROVE  /\ i \in Rows(q) /\ i >= start /\ i \in Nat
             /\ \A j \in start..i : IsWaitingItem(q.entries[j])
  BY <1>3, <1>7
<1>9. ASSUME NEW i \in LayerRows(q) PROVE i \in Pending(q)
  <2>1. i \in start..i
    BY <1>6, <1>8
  <2> QED BY <1>8, <2>1 DEF Pending, IsWaitingItem
<1>10. ASSUME NEW i \in LayerRows(q), NEW j \in start..i PROVE j \in LayerRows(q)
  <2>1. j \in Rows(q) /\ j >= start
    BY <1>3, <1>6, <1>8
  <2>2. \A k \in start..j : k \in start..i
    BY <1>6, <1>8
  <2> QED BY <1>7, <1>8, <2>1, <2>2
<1> QED BY <1>2, <1>6, <1>8, <1>9, <1>10

\* What is wanted has an id and a track.
LEMMA WantedIs ==
  ASSUME NEW q, NEW items \in ItemList
  PROVE  Wanted(q, items) \in ItemList
<1>1. PICK S : S = {n \in DOMAIN items : ~ (/\ HasCurrent(q) /\ Current(q).part = "Item"
                                            /\ Current(q).item = items[n].item)}
  OBVIOUS
<1>2. PICK T : T = [item : Items, track : Tracks]
  OBVIOUS
<1>3. items \in Seq(T) /\ ItemList = Seq(T)
  BY <1>2 DEF ItemList
<1>4. S \subseteq 1..Len(items)
  BY <1>1, <1>3
<1>5. Picked(items, S) \in Seq(T)
  BY <1>3, <1>4, PickedIs
<1> QED BY <1>1, <1>3, <1>5 DEF Wanted

\* What a cut takes away and puts in waits, behind the current entry.
Cut(q, m, start, b, p, c, added) ==
  /\ Pending(q) = start..b /\ b <= Len(q.entries) /\ start <= p + 1 /\ p < c /\ c <= b + 1
  /\ start > q.playing /\ (HasCurrent(q) => start = q.playing + 1)
  /\ m.entries \in Seq(EntryType) /\ Spliced(q.entries, p, added, c, m.entries)
  /\ added \in Seq(EntryType) /\ \A i \in 1..Len(added) : IsPending(added[i])
  /\ QueueFields \subseteq DOMAIN m /\ m.playing = q.playing /\ m.contMark = q.contMark
  /\ m.hint \in Hint /\ m.changed \in BOOLEAN

CutSizes(start, b, p, c, n, l, y, z) ==
  /\ n \in Nat /\ l \in Nat /\ z \in Nat /\ y \in Nat /\ z = p + l + (n - c + 1)
  /\ b <= n /\ start <= p + 1 /\ p < c /\ c <= b + 1
  /\ y < start /\ y <= p /\ y <= z /\ y <= n
CutEntries(es, p, c, added, n, l, u) ==
  \A i \in 1..Len(u) :
    \/ i <= p /\ u[i] = es[i]
    \/ i > p /\ i <= p + l /\ u[i] = added[i - p]
    \/ i > p + l /\ i - p - l + c - 1 \in c..n /\ u[i] = es[i - p - l + c - 1]

LEMMA CutRows ==
  ASSUME NEW q, QueueOk(q), NEW m, NEW start \in Nat \ {0}, NEW b \in Nat, NEW p \in Nat,
         NEW c \in Nat, NEW added, Cut(q, m, start, b, p, c, added)
  PROVE  /\ CutSizes(start, b, p, c, Len(q.entries), Len(added), q.playing, Len(m.entries))
         /\ CutEntries(q.entries, p, c, added, Len(q.entries), Len(added), m.entries)
<1>1. PICK n, l, u, y, z : /\ n = Len(q.entries) /\ l = Len(added) /\ u = m.entries
                           /\ y = q.playing /\ z = Len(u)
  OBVIOUS
<1>2. n \in Nat /\ y \in 0..n /\ y \in Nat
  BY <1>1, SomeRows DEF QueueOk
<1>3. /\ b <= n /\ start <= p + 1 /\ p < c /\ c <= b + 1 /\ y < start
      /\ Spliced(q.entries, p, added, c, u)
  BY <1>1 DEF Cut
<1>4. l \in Nat
  <2>1. added \in Seq(EntryType)
    BY DEF Cut
  <2> QED BY <1>1, <2>1
<1>5. z = p + l + (n - c + 1)
  BY <1>1, <1>3 DEF Spliced
<1>6. y <= p /\ y <= n
  BY <1>2, <1>3
<1>7. n - c + 1 \in Nat
  BY <1>2, <1>3
<1>8. z \in Nat /\ z >= p
  BY <1>4, <1>5, <1>7
<1>9. CutSizes(start, b, p, c, n, l, y, z)
  <2>1. y <= z
    BY <1>2, <1>6, <1>8
  <2> QED BY <1>2, <1>3, <1>4, <1>5, <1>6, <1>8, <2>1 DEF CutSizes
<1>10. CutEntries(q.entries, p, c, added, n, l, u)
  BY <1>1, <1>3 DEF Spliced, CutEntries
<1> QED BY <1>1, <1>9, <1>10

LEMMA CutWaits ==
  ASSUME NEW q, QueueOk(q), NEW m, QueueOk(m), NEW start \in Nat \ {0}, NEW b \in Nat,
         NEW p \in Nat, NEW c \in Nat, NEW added, Cut(q, m, start, b, p, c, added)
  PROVE  \E d \in Nat : Pending(m) = start..d
<1>1. PICK n, l, u, d, y : /\ n = Len(q.entries) /\ l = Len(added) /\ u = m.entries
                           /\ d = p + l + (b - c + 1) /\ y = q.playing
  OBVIOUS
<1>a. CutSizes(start, b, p, c, n, l, y, Len(u)) /\ CutEntries(q.entries, p, c, added, n, l, u)
  BY <1>1, CutRows
<1>2. /\ n \in Nat /\ l \in Nat /\ Len(u) = p + l + (n - c + 1) /\ Len(u) \in Nat
      /\ b <= n /\ start <= p + 1 /\ p < c /\ c <= b + 1
  BY <1>a DEF CutSizes
<1>3. \A i \in 1..Len(u) :
        \/ i <= p /\ u[i] = q.entries[i]
        \/ i > p /\ i <= p + l /\ u[i] = added[i - p]
        \/ i > p + l /\ i - p - l + c - 1 \in c..n /\ u[i] = q.entries[i - p - l + c - 1]
  BY <1>a DEF CutEntries
<1>4. d \in Nat /\ d <= Len(u)
  BY <1>1, <1>2
<1>5. Pending(q) = start..b
  BY DEF Cut
<1>6. \A i \in 1..n : IsPending(q.entries[i]) <=> i \in start..b
  BY <1>1, <1>5, SomeRows DEF Pending
<1>7. \A i : i \in Pending(m) <=> i \in 1..Len(u) /\ IsPending(u[i])
  BY <1>1, SomeRows DEF Pending
<1>8. ASSUME NEW i \in Nat, i \in 1..Len(u) PROVE IsPending(u[i]) <=> i \in start..d
  <2>1. CASE i <= p /\ u[i] = q.entries[i]
    <3>1. i \in 1..n
      BY <1>2, <1>8, <2>1
    <3>2. IsPending(u[i]) <=> i \in start..b
      BY <1>6, <2>1, <3>1
    <3>3. i \in start..b <=> i \in start..d
      BY <1>1, <1>2, <1>4, <2>1
    <3> QED BY <3>2, <3>3
  <2>2. CASE i > p /\ i <= p + l /\ u[i] = added[i - p]
    <3>1. i - p \in 1..Len(added)
      BY <1>1, <1>2, <2>2
    <3>2. IsPending(added[i - p])
      BY <3>1 DEF Cut
    <3>3. i \in start..d
      BY <1>1, <1>2, <1>4, <2>2
    <3> QED BY <2>2, <3>2, <3>3
  <2>3. CASE i > p + l /\ i - p - l + c - 1 \in c..n /\ u[i] = q.entries[i - p - l + c - 1]
    <3>1. PICK j : j = i - p - l + c - 1
      OBVIOUS
    <3>2. j \in c..n /\ u[i] = q.entries[j] /\ i > p + l
      BY <2>3, <3>1
    <3>3. j \in 1..n
      BY <1>2, <3>2
    <3>4. IsPending(u[i]) <=> j \in start..b
      BY <1>6, <3>2, <3>3
    <3>5. j \in start..b <=> i \in start..d
      <4>1. j \in Int /\ i = j + p + l - c + 1 /\ i > p /\ j >= c
        BY <1>1, <1>2, <3>1, <3>2
      <4> QED BY <1>1, <1>2, <1>4, <4>1
    <3> QED BY <3>4, <3>5
  <2> QED BY <1>3, <1>8, <2>1, <2>2, <2>3
<1>9. start..d \subseteq 1..Len(u)
  BY <1>2, <1>4
<1>10. 1..Len(u) \subseteq Nat
  BY <1>2
<1>11. ASSUME NEW i PROVE i \in Pending(m) <=> i \in start..d
  BY <1>7, <1>8, <1>9, <1>10
<1>12. Pending(m) = start..d
  BY <1>11
<1> QED BY <1>4, <1>12

LEMMA CutKeeps ==
  ASSUME NEW q, QueueOk(q), Together(q), NEW m, NEW start \in Nat \ {0}, NEW b \in Nat,
         NEW p \in Nat, NEW c \in Nat, NEW added, Cut(q, m, start, b, p, c, added)
  PROVE  Keeps(q, m) /\ Together(m) /\ KeepsCurrent(q, m)
<1>1. PICK n, l, u, y : /\ n = Len(q.entries) /\ l = Len(added) /\ u = m.entries
                        /\ y = q.playing
  OBVIOUS
<1>a. CutSizes(start, b, p, c, n, l, y, Len(u)) /\ CutEntries(q.entries, p, c, added, n, l, u)
  BY <1>1, CutRows
<1>2. n \in Nat /\ Len(u) \in Nat /\ y \in Nat /\ y <= p /\ y <= Len(u) /\ y <= n /\ y < start
  BY <1>a DEF CutSizes
<1>3. ASSUME NEW i \in 1..Len(u), i <= p PROVE u[i] = q.entries[i]
  <2>1. l \in Nat /\ i \in Nat
    BY <1>2, <1>a DEF CutSizes
  <2>2. ~ (i > p) /\ ~ (i > p + l)
    BY <1>3, <2>1
  <2> QED BY <1>a, <2>2 DEF CutEntries
<1>4. QueueOk(m)
  <2>1. m.entries \in Entries
    BY DEF Entries, Cut
  <2>2. m.playing \in 0..Len(m.entries)
    <3>1. m.playing = y
      BY <1>1 DEF Cut
    <3> QED BY <1>1, <1>2, <3>1
  <2>3. /\ QueueFields \subseteq DOMAIN m /\ m.contMark = q.contMark
        /\ m.hint \in Hint /\ m.changed \in BOOLEAN
    BY DEF Cut
  <2> QED BY <2>1, <2>2, <2>3 DEF QueueOk
<1>5. m.playing = y /\ m.contMark = q.contMark /\ (HasCurrent(q) => start = y + 1)
  BY <1>1 DEF Cut
<1>6. (HasCurrent(m) <=> y # 0) /\ (HasCurrent(q) <=> y # 0)
  BY <1>1, <1>4, <1>5, SomeRows
<1>7. ASSUME NEW i \in 1..y
      PROVE  i \in 1..Len(u) /\ i \in 1..n /\ u[i] = q.entries[i] /\ i \in Nat
  <2>1. i \in 1..Len(u) /\ i \in 1..n /\ i <= p /\ i \in Nat
    BY <1>2
  <2> QED BY <1>3, <2>1
<1>8. ASSUME HasCurrent(q) PROVE HasCurrent(m) /\ Current(m) = Current(q)
  <2>1. y \in 1..y
    BY <1>2, <1>6, <1>8
  <2> QED BY <1>1, <1>5, <1>6, <1>7, <1>8, <2>1 DEF Current
<1>9. Together(m)
  <2>1. PICK d \in Nat : Pending(m) = start..d
    BY <1>4, CutWaits
  <2>2. Run(Pending(m), start, d)
    BY <2>1 DEF Run
  <2>3. HasCurrent(m) => start = m.playing + 1 /\ ~ IsPending(Current(m))
    BY <1>5, <1>6, <1>8 DEF Together
  <2> QED BY <2>2, <2>3 DEF Together
<1>10. MarkAgrees(q) => MarkAgrees(m)
  <2>1. \A i : i \in Given(m) <=> i \in 1..Len(u) /\ u[i].part = "Continuation"
    BY <1>1, <1>4, MarkMeans
  <2>2. \A i : i \in Given(q) <=> i \in 1..n /\ q.entries[i].part = "Continuation"
    BY <1>1, MarkMeans
  <2>3. MarkAgrees(q) <=> (y \in Given(q) => Count(Given(q), y) = q.contMark)
    BY <1>1, MarkMeans
  <2>4. MarkAgrees(m) <=> (y \in Given(m) => Count(Given(m), y) = q.contMark)
    BY <1>4, <1>5, MarkMeans
  <2>5. ASSUME NEW i \in 1..y PROVE i \in Given(m) <=> i \in Given(q)
    BY <1>7, <2>1, <2>2
  <2>6. UpTo(Given(m), y) = UpTo(Given(q), y)
    <3>1. ASSUME NEW i PROVE i \in UpTo(Given(m), y) <=> i \in UpTo(Given(q), y)
      <4>1. i \in UpTo(Given(m), y) => i \in 1..y
        BY <1>2, <2>1 DEF UpTo
      <4>2. i \in UpTo(Given(q), y) => i \in 1..y
        BY <1>2, <2>2 DEF UpTo
      <4> QED BY <2>5, <4>1, <4>2 DEF UpTo
    <3> QED BY <3>1
  <2>7. y \in Given(m) <=> y \in Given(q)
    <3>1. y = 0 \/ y \in 1..y
      BY <1>2
    <3>2. y = 0 => y \notin 1..Len(u) /\ y \notin 1..n
      BY <1>2
    <3> QED BY <2>1, <2>2, <2>5, <3>1, <3>2
  <2> QED BY <2>3, <2>4, <2>6, <2>7 DEF Count
<1> QED BY <1>4, <1>8, <1>9, <1>10 DEF Keeps, KeepsCurrent

\* Nothing taken away and nothing put in.
LEMMA CutNothing ==
  ASSUME NEW q, QueueOk(q), NEW m, NEW start \in Nat \ {0}, NEW b \in Nat,
         NEW p \in Nat, NEW c \in Nat, NEW added, Cut(q, m, start, b, p, c, added),
         c = p + 1, added = <<>>
  PROVE  m.entries = q.entries
<1>1. PICK n, u, l, y : /\ n = Len(q.entries) /\ u = m.entries /\ l = Len(added)
                        /\ y = q.playing
  OBVIOUS
<1>a. CutSizes(start, b, p, c, n, l, y, Len(u)) /\ CutEntries(q.entries, p, c, added, n, l, u)
  BY <1>1, CutRows
<1>2. l = 0
  BY <1>1
<1>3. Len(u) = p + l + (n - c + 1) /\ n \in Nat
  BY <1>a DEF CutSizes
<1>4. Len(u) = n
  BY <1>2, <1>3
<1>5. \A i \in 1..Len(u) :
        \/ i <= p /\ u[i] = q.entries[i]
        \/ i > p /\ i <= p + l /\ u[i] = added[i - p]
        \/ i > p + l /\ i - p - l + c - 1 \in c..n /\ u[i] = q.entries[i - p - l + c - 1]
  BY <1>a DEF CutEntries
<1>6. ASSUME NEW i \in 1..n PROVE u[i] = q.entries[i]
  <2>1. i \in 1..Len(u) /\ ~ (i > p /\ i <= p + l) /\ i - p - l + c - 1 = i
    BY <1>2, <1>3, <1>4
  <2> QED BY <1>5, <2>1
<1>7. u \in Seq(EntryType) /\ q.entries \in Seq(EntryType)
  BY <1>1 DEF Cut, QueueOk, Entries
<1>8. u = q.entries
  <2>1. Len(u) = Len(q.entries) /\ \A i \in 1..Len(u) : u[i] = q.entries[i]
    BY <1>1, <1>4, <1>6
  <2> QED BY <1>7, <2>1, SeqEqual
<1> QED BY <1>1, <1>8

LEMMA QuietThrough ==
  ASSUME NEW q, NEW m, NEW r, Quiet(q, m), Quiet(m, r)
  PROVE  Quiet(q, r)
BY DEF Quiet, NextAlike

\* setItems() cuts, and drops what the new seeds outdated.
ItemsCut(q, m, hint) ==
  /\ Quiet(q, m) /\ m.hint = hint
  /\ m.headMark = q.headMark /\ m.headStart = q.headStart /\ m.contMark = q.contMark
  /\ m.algorithm = q.algorithm /\ m.own = q.own /\ m.shuffle = q.shuffle /\ m.nav = q.nav
  /\ m.luck = q.luck

\* What stays and what comes in is what is wanted; what follows is no item.
CutFits(q, wanted, start, b, p, c, added) ==
  /\ p + Len(added) = start + Len(wanted) - 1 /\ wanted \in ItemList
  /\ \A j \in start..p : /\ IsWaitingItem(q.entries[j])
                         /\ q.entries[j].item = wanted[j - start + 1].item
  /\ \A i \in 1..Len(added) : /\ added[i].item = wanted[p - start + 1 + i].item
                              /\ added[i].item \in Items
  /\ c \in start..b => ~ IsWaitingItem(q.entries[c])

LEMMA SetItemsFits ==
  ASSUME NEW q, QueueOk(q), Together(q), NEW items \in ItemList, NEW hint \in Hint
  PROVE  \E m, added : \E start \in Nat \ {0}, b \in Nat, p \in Nat, c \in Nat :
           /\ Cut(q, m, start, b, p, c, added) /\ ItemsCut(q, m, hint)
           /\ SetItems(q, items, hint) = DropStaleWave(m)
           /\ CutFits(q, Wanted(q, items), start, b, p, c, added)
<1> DEFINE L == LayerRows(q)
           cStart == ItemsStart(q)
           cWanted == Wanted(q, items)
           cSame == {i \in L : LET n == i - cStart + 1 IN
                       n <= Len(cWanted) /\ \A k \in 1..n : q.entries[cStart + k - 1].item = cWanted[k].item}
           cPrefix == Cardinality(cSame)
           cAdded == [n \in 1..(Len(cWanted) - cPrefix) |->
                        LET w == cWanted[cPrefix + n] IN Entry(w.track, "Item", "none", 0, w.item, TRUE)]
           cut == [q EXCEPT !.entries = SubSeq(@, 1, cStart + cPrefix - 1)
                                          \o cAdded
                                          \o SubSeq(@, cStart + Cardinality(L), Len(@)),
                            !.hint = hint,
                            !.stalled = @ /\ ~ (hint.seeds /\ hint.version # q.hint.version),
                            !.changed = @ \/ L # cSame \/ cAdded # <<>>]
<1>1. PICK n, start, y : n = Len(q.entries) /\ start = cStart /\ y = q.playing
  OBVIOUS
<1>2. PICK wanted : wanted = cWanted
  OBVIOUS
<1>3. PICK S : S = cSame
  OBVIOUS
<1>4. PICK prefix, k : prefix = Cardinality(S) /\ k = Cardinality(L)
  OBVIOUS
<1>5. PICK added, l : added = cAdded /\ l = Len(wanted) - prefix
  OBVIOUS
<1>6. PICK m : m = cut
  OBVIOUS
<1>7. SetItems(q, items, hint) = DropStaleWave(m)
  BY <1>6 DEF SetItems
<1> HIDE DEF cut, cAdded, cPrefix
<1>36. ASSUME NEW i
       PROVE  i \in S <=> /\ i \in L /\ i - start + 1 <= Len(wanted)
                         /\ \A j \in 1..(i - start + 1) : q.entries[start + j - 1].item = wanted[j].item
  BY <1>1, <1>2, <1>3
<1>37. cPrefix = prefix
  BY <1>3, <1>4 DEF cPrefix
<1> HIDE DEF cSame, cWanted, cStart
<1>38. added = [i \in 1..l |-> Entry(cWanted[cPrefix + i].track, "Item", "none", 0,
                                    cWanted[cPrefix + i].item, TRUE)]
  BY <1>2, <1>5, <1>37 DEF cAdded
<1>39. /\ DOMAIN added = 1..l
       /\ \A i \in 1..l : added[i] = Entry(wanted[prefix + i].track, "Item", "none", 0,
                                           wanted[prefix + i].item, TRUE)
       /\ added = [i \in 1..l |-> added[i]]
  BY <1>2, <1>37, <1>38
<1>40. m = [q EXCEPT !.entries = SubSeq(@, 1, start + prefix - 1) \o added
                                   \o SubSeq(@, start + k, Len(@)),
                     !.hint = hint,
                     !.stalled = @ /\ ~ (hint.seeds /\ hint.version # q.hint.version),
                     !.changed = @ \/ L # S \/ added # <<>>]
  BY <1>1, <1>3, <1>4, <1>5, <1>6, <1>37 DEF cut
<1>8. n \in Nat /\ Rows(q) = 1..n /\ q.entries \in Seq(EntryType) /\ y \in 0..n
  BY <1>1, SomeRows DEF QueueOk, Entries
<1>9. /\ L \subseteq 1..n /\ L \subseteq Pending(q)
      /\ \E b : Pending(q) = start..b /\ b \in (start - 1)..n
      /\ start \in 1..(n + 1) /\ start > y /\ (HasCurrent(q) => start = y + 1)
      /\ \A i \in L : i >= start /\ \A j \in start..i : j \in L
  BY <1>1, <1>8, LayerRowsAre DEF cStart
<1> HIDE DEF L
<1>10. start \in Nat \ {0}
  BY <1>8, <1>9
<1>11. L = start..(start + k - 1) /\ k \in Nat
  BY <1>4, <1>8, <1>9, <1>10, BlockIs
<1>12. S \subseteq 1..n /\ S \subseteq L
  BY <1>9, <1>36
<1>13. ASSUME NEW i \in S PROVE i >= start /\ \A j \in start..i : j \in S
  <2>1. /\ i \in L /\ i \in Nat /\ i >= start /\ i - start + 1 <= Len(wanted)
        /\ \A j \in 1..(i - start + 1) : q.entries[start + j - 1].item = wanted[j].item
    <3>1. /\ i \in L /\ i - start + 1 <= Len(wanted)
          /\ \A j \in 1..(i - start + 1) : q.entries[start + j - 1].item = wanted[j].item
      BY <1>36, Zenon
    <3>2. i \in Nat /\ i >= start
      BY <1>8, <1>9, <3>1
    <3> QED BY <3>1, <3>2
  <2>2. ASSUME NEW j \in start..i PROVE j \in S
    <3>1. j \in L /\ j \in Nat /\ j <= i
      BY <1>9, <1>10, <2>1
    <3>2. j - start + 1 <= Len(wanted)
      <4>1. Len(wanted) \in Nat
        <5>1. wanted \in ItemList
          BY <1>2, WantedIs DEF cWanted
        <5> QED BY <5>1 DEF ItemList
      <4> QED BY <1>10, <2>1, <3>1, <4>1
    <3>3. 1..(j - start + 1) \subseteq 1..(i - start + 1)
      BY <1>10, <2>1, <3>1
    <3> QED BY <1>36, <2>1, <3>1, <3>2, <3>3
  <2> QED BY <2>1, <2>2
<1>14. S = start..(start + prefix - 1) /\ prefix \in Nat
  BY <1>4, <1>8, <1>10, <1>12, <1>13, BlockIs
<1>15. prefix <= Len(wanted) /\ wanted \in Seq([item : Items, track : Tracks]) /\ Len(wanted) \in Nat
  <2>1. wanted \in Seq([item : Items, track : Tracks])
    BY <1>2, WantedIs DEF ItemList, cWanted
  <2>2. Len(wanted) \in Nat
    BY <2>1
  <2>3. CASE prefix # 0
    <3>1. PICK e : e = start + prefix - 1
      OBVIOUS
    <3>2. e \in S
      BY <1>10, <1>14, <2>3, <3>1
    <3>3. e - start + 1 <= Len(wanted)
      BY <1>36, <3>2
    <3> QED BY <1>10, <1>14, <2>1, <2>2, <3>1, <3>3
  <2> QED BY <2>1, <2>2, <2>3
<1>16. added \in Seq(EntryType) /\ \A i \in 1..Len(added) : IsPending(added[i])
  <2>1. PICK T : T = [item : Items, track : Tracks]
    OBVIOUS
  <2>2. l \in Nat
    BY <1>5, <1>14, <1>15
  <2>3. ASSUME NEW i \in 1..l
        PROVE  /\ Entry(wanted[prefix + i].track, "Item", "none", 0, wanted[prefix + i].item, TRUE)
                    \in EntryType
               /\ IsPending(Entry(wanted[prefix + i].track, "Item", "none", 0,
                                  wanted[prefix + i].item, TRUE))
    <3>1. prefix + i \in 1..Len(wanted)
      BY <1>5, <1>14, <1>15, <2>2
    <3>2. wanted[prefix + i] \in [item : Items, track : Tracks]
      <4>1. wanted \in Seq(T)
        BY <1>15, <2>1
      <4>2. wanted[prefix + i] \in T
        BY <3>1, <4>1, ElementOfSeq
      <4> QED BY <2>1, <4>2
    <3>3. PICK w : w = wanted[prefix + i]
      OBVIOUS
    <3>4. w.track \in Tracks /\ w.item \in Items
      BY <3>2, <3>3
    <3> QED BY <3>3, <3>4 DEF Entry, EntryType, IsPending, Parts
  <2>5. added \in [1..l -> EntryType]
    BY <1>39, <2>3
  <2>6. added \in Seq(EntryType) /\ Len(added) = l
    BY <2>2, <2>5
  <2> QED BY <1>39, <2>3, <2>6
<1>17. PICK b : Pending(q) = start..b /\ b \in (start - 1)..n
  BY <1>9
<1>18. PICK p, c : p = start + prefix - 1 /\ c = start + k
  OBVIOUS
<1>19. p \in Nat /\ c \in Nat /\ b \in Nat /\ b <= n /\ start <= p + 1
  BY <1>8, <1>10, <1>11, <1>14, <1>17, <1>18
<1>20. c <= b + 1
  <2>1. CASE k = 0
    BY <1>8, <1>10, <1>17, <1>18, <2>1
  <2>2. CASE k # 0
    <3>1. c - 1 \in L
      BY <1>10, <1>11, <1>18, <2>2
    <3>2. c - 1 \in start..b
      BY <1>9, <1>17, <3>1
    <3> QED BY <1>19, <3>2
  <2> QED BY <2>1, <2>2
<1>21. p < c
  <2>1. CASE prefix = 0
    BY <1>10, <1>11, <1>18, <2>1
  <2>2. CASE prefix # 0
    <3>1. p \in S
      BY <1>10, <1>14, <1>18, <2>2
    <3>2. p \in start..(start + k - 1)
      BY <1>11, <1>12, <3>1
    <3> QED BY <1>10, <1>11, <1>18, <3>2
  <2> QED BY <2>1, <2>2
<1>22. /\ m.entries = SubSeq(q.entries, 1, p) \o added \o SubSeq(q.entries, c, Len(q.entries))
       /\ m.playing = q.playing /\ m.contMark = q.contMark /\ m.hint = hint
       /\ QueueFields \subseteq DOMAIN m
       /\ m.inHead = q.inHead /\ m.nav = q.nav /\ m.repeat = q.repeat /\ m.own = q.own
       /\ m.headMark = q.headMark /\ m.headStart = q.headStart /\ m.algorithm = q.algorithm
       /\ m.shuffle = q.shuffle /\ m.luck = q.luck
  BY <1>18, <1>40 DEF QueueOk, QueueFields
<1>23. m.changed = (q.changed \/ L # S \/ added # <<>>)
  BY <1>40 DEF QueueOk, QueueFields
<1>24. m.changed \in BOOLEAN
  BY <1>23, Zenon
<1>25. m.entries \in Seq(EntryType) /\ Spliced(q.entries, p, added, c, m.entries)
  <2>1. p \in 0..Len(q.entries) /\ c \in (p + 1)..(Len(q.entries) + 1)
    BY <1>1, <1>8, <1>19, <1>20, <1>21
  <2>2. PICK u : u = m.entries
    OBVIOUS
  <2>3. u = SubSeq(q.entries, 1, p) \o added \o SubSeq(q.entries, c, Len(q.entries))
    BY <1>22, <2>2
  <2>4. u \in Seq(EntryType) /\ Spliced(q.entries, p, added, c, u)
    BY <1>8, <1>16, <2>1, <2>3, SplicedIs
  <2> QED BY <2>2, <2>4
<1>26. Cut(q, m, start, b, p, c, added)
  BY <1>1, <1>9, <1>16, <1>17, <1>19, <1>20, <1>21, <1>22, <1>24, <1>25 DEF Cut
<1>27. ASSUME ~ m.changed PROVE m.entries = q.entries
  <2>1. L = S /\ added = <<>>
    BY <1>23, <1>27
  <2>2. prefix = k
    BY <1>4, <2>1
  <2>3. c = p + 1
    BY <1>10, <1>11, <1>18, <2>2
  <2> QED BY <1>10, <1>19, <1>26, <2>1, <2>3, CutNothing
<1>28. Quiet(q, m)
  BY <1>22, <1>23, <1>27 DEF Quiet, NextAlike
<1>29. ItemsCut(q, m, hint)
  BY <1>22, <1>28 DEF ItemsCut
<1>30. b \in Nat /\ p \in Nat /\ c \in Nat
  BY <1>19
<1>31. Len(added) = l /\ l \in Nat
  BY <1>5, <1>14, <1>15, <1>16, <1>39
<1>32. p + Len(added) = start + Len(wanted) - 1
  BY <1>5, <1>10, <1>14, <1>15, <1>18, <1>31
<1>33. ASSUME NEW j \in start..p
       PROVE  IsWaitingItem(q.entries[j]) /\ q.entries[j].item = wanted[j - start + 1].item
  <2>1. j \in S /\ j \in L /\ j \in Nat
    BY <1>10, <1>12, <1>14, <1>18
  <2>2. \A i \in 1..(j - start + 1) : q.entries[start + i - 1].item = wanted[i].item
    BY <1>36, <2>1
  <2>3. PICK i : i = j - start + 1
    OBVIOUS
  <2>4. i \in 1..(j - start + 1) /\ start + i - 1 = j
    BY <1>10, <2>1, <2>3
  <2>5. q.entries[j].item = wanted[i].item
    BY <2>2, <2>4
  <2>6. IsWaitingItem(q.entries[j])
    <3>1. j \in start..j
      BY <1>10, <2>1
    <3> QED BY <1>1, <2>1, <3>1 DEF L, LayerRows, cStart
  <2> QED BY <2>3, <2>5, <2>6
<1>34. ASSUME NEW i \in 1..Len(added)
       PROVE  added[i].item = wanted[p - start + 1 + i].item /\ added[i].item \in Items
  <2>1. p - start + 1 + i = prefix + i /\ prefix + i \in 1..Len(wanted)
    BY <1>5, <1>10, <1>14, <1>15, <1>18, <1>31
  <2>2. PICK T : T = [item : Items, track : Tracks]
    OBVIOUS
  <2>3. wanted[prefix + i] \in T
    <3>1. wanted \in Seq(T)
      BY <1>15, <2>2
    <3> QED BY <2>1, <3>1, ElementOfSeq
  <2>4. PICK w : w = wanted[prefix + i]
    OBVIOUS
  <2>5. added[i] = Entry(w.track, "Item", "none", 0, w.item, TRUE)
    BY <1>31, <1>39, <2>4
  <2>6. added[i].item = w.item
    BY <2>5 DEF Entry
  <2> QED BY <2>1, <2>2, <2>3, <2>4, <2>6
<1>35. c \in start..b => ~ IsWaitingItem(q.entries[c])
  <2> SUFFICES ASSUME c \in start..b, IsWaitingItem(q.entries[c]) PROVE FALSE
    OBVIOUS
  <2>1. c \in Rows(q) /\ c >= start /\ c \notin L
    BY <1>8, <1>9, <1>10, <1>11, <1>17, <1>18
  <2>2. ASSUME NEW j \in start..c PROVE IsWaitingItem(q.entries[j])
    <3>1. j = c \/ j \in start..(start + k - 1)
      BY <1>10, <1>11, <1>18
    <3>2. CASE j \in start..(start + k - 1)
      <4>1. j \in L /\ j \in start..j
        BY <1>10, <1>11, <3>2
      <4> QED BY <1>1, <4>1 DEF L, LayerRows, cStart
    <3> QED BY <3>1, <3>2
  <2>3. c \in L
    BY <1>1, <2>1, <2>2 DEF L, LayerRows, cStart
  <2> QED BY <2>1, <2>3
<1>41. CutFits(q, wanted, start, b, p, c, added)
  <2>1. wanted \in ItemList
    BY <1>15 DEF ItemList
  <2> QED BY <1>32, <1>33, <1>34, <1>35, <2>1 DEF CutFits
<1>42. CutFits(q, Wanted(q, items), start, b, p, c, added)
  BY <1>2, <1>41 DEF cWanted
<1> QED BY <1>7, <1>10, <1>26, <1>29, <1>30, <1>42, Zenon

LEMMA SetItemsCut ==
  ASSUME NEW q, QueueOk(q), Together(q), NEW items \in ItemList, NEW hint \in Hint
  PROVE  \E m, added : \E start \in Nat \ {0}, b \in Nat, p \in Nat, c \in Nat :
           /\ Cut(q, m, start, b, p, c, added) /\ ItemsCut(q, m, hint)
           /\ SetItems(q, items, hint) = DropStaleWave(m)
<1>1. PICK m, added : \E start \in Nat \ {0}, b \in Nat, p \in Nat, c \in Nat :
        /\ Cut(q, m, start, b, p, c, added) /\ ItemsCut(q, m, hint)
        /\ SetItems(q, items, hint) = DropStaleWave(m)
        /\ CutFits(q, Wanted(q, items), start, b, p, c, added)
  BY SetItemsFits
<1> QED BY <1>1, Zenon

\* setItems()
LEMMA SetItemsKeeps ==
  ASSUME NEW q, QueueOk(q), Together(q), NEW items \in ItemList, NEW hint \in Hint,
         NEW r, r = SetItems(q, items, hint)
  PROVE  Edit(q, r) /\ r.hint = hint
<1>1. PICK m, added : \E start \in Nat \ {0}, b \in Nat, p \in Nat, c \in Nat :
        /\ Cut(q, m, start, b, p, c, added) /\ ItemsCut(q, m, hint)
        /\ r = DropStaleWave(m)
  BY SetItemsCut
<1>2. Keeps(q, m) /\ Together(m) /\ KeepsCurrent(q, m)
  BY <1>1, CutKeeps
<1>3. QueueOk(m)
  BY <1>2 DEF Keeps
<1>4. /\ QueueOk(r) /\ r.hint = m.hint /\ Quiet(m, r) /\ Together(r)
      /\ HasCurrent(m) => HasCurrent(r) /\ Current(r) = Current(m)
  BY <1>1, <1>2, <1>3, DropStaleWaveIs
<1>5. MarkAgrees(m) => MarkAgrees(r)
  BY <1>1, <1>3, MarkStale
<1>6. Quiet(q, r)
  BY <1>1, <1>4, QuietThrough DEF ItemsCut
<1>7. KeepsCurrent(q, r)
  BY <1>2, <1>4 DEF KeepsCurrent
<1>8. MarkAgrees(q) => MarkAgrees(r)
  BY <1>2, <1>5 DEF Keeps
<1> QED BY <1>1, <1>4, <1>6, <1>7, <1>8 DEF Edit, Keeps, ItemsCut

-----------------------------------------------------------------------------
(* The navigator *)

Ordinals == Nat \ {0}

\* A sequence of the members of a set of ordinals, each of them in it.
Lists(d, S) ==
  /\ d \in Seq(Ordinals) /\ \A m \in 1..Len(d) : d[m] \in S
  /\ \A i \in S : \E m \in 1..Len(d) : d[m] = i
Covers(order, n) == Lists(order, 1..n) /\ Len(order) = n

\* What is drawn from a set lists it, each member once.
LEMMA DrawnIs ==
  ASSUME NEW n \in Nat, NEW luck, Draws(luck, n), NEW S, S \subseteq 1..n, NEW d, d = Drawn(S, luck)
  PROVE  Lists(d, S) /\ Len(d) = Cardinality(S) /\ Cardinality(S) \in Nat
<1> DEFINE P == {p \in DOMAIN luck : luck[p] \in S}
<1>1. luck \in Seq(Nat) /\ DOMAIN luck = 1..Len(luck) /\ P \subseteq 1..Len(luck)
  BY DEF Draws
<1>2. d = Picked(luck, P)
  BY DEF Drawn
<1>3. /\ d \in Seq(Nat) /\ Len(d) = Cardinality(P)
      /\ \A i \in P : Count(P, i) \in 1..Cardinality(P) /\ d[Count(P, i)] = luck[i]
      /\ \A m \in 1..Cardinality(P) : \E i \in P : Count(P, i) = m /\ d[m] = luck[i]
  <2>1. PICK U : U = P
    OBVIOUS
  <2>2. luck \in Seq(Nat) /\ U \subseteq 1..Len(luck) /\ d = Picked(luck, U)
    BY <1>1, <1>2, <2>1
  <2>3. /\ d \in Seq(Nat) /\ Len(d) = Cardinality(U)
        /\ \A i \in U : Count(U, i) \in 1..Cardinality(U) /\ d[Count(U, i)] = luck[i]
        /\ \A m \in 1..Cardinality(U) : \E i \in U : Count(U, i) = m /\ d[m] = luck[i]
    <3>1. Chosen(Picked(luck, U), luck, U, Nat)
      <4>1. PICK N : N = Nat
        OBVIOUS
      <4>2. luck \in Seq(N) /\ U \subseteq 1..Len(luck)
        BY <2>2, <4>1
      <4>3. Chosen(Picked(luck, U), luck, U, N)
        BY <4>2, PickedGives
      <4> QED BY <4>1, <4>3
    <3>2. Chosen(d, luck, U, Nat)
      BY <2>2, <3>1
    <3> QED BY <3>2, Zenon DEF Chosen
  <2> QED BY <2>1, <2>3
<1>4. IsFiniteSet(P) /\ IsFiniteSet(S) /\ Cardinality(S) \in Nat
  <2>1. IsFiniteSet(1..Len(luck)) /\ IsFiniteSet(1..n)
    BY <1>1, FS_Interval
  <2> QED BY <1>1, <2>1, FS_Subset, FS_CardinalityType
<1>5. Cardinality(P) = Cardinality(S)
  <2> DEFINE f == [p \in P |-> luck[p]]
  <2>1. f \in Bijection(P, S)
    <3>1. f \in [P -> S]
      OBVIOUS
    <3>2. \A a, b \in P : f[a] = f[b] => a = b
      BY DEF Draws
    <3>3. \A i \in S : \E p \in P : f[p] = i
      BY DEF Draws
    <3> QED BY <3>1, <3>2, <3>3 DEF Bijection, Injection, Surjection, IsInjective
  <2>2. ExistsBijection(P, S)
    BY <2>1 DEF ExistsBijection
  <2> QED BY <1>4, <2>2, FS_Bijection
<1>6. \A m \in 1..Len(d) : d[m] \in S
  BY <1>3
<1>7. \A i \in S : \E m \in 1..Len(d) : d[m] = i
  <2> SUFFICES ASSUME NEW i \in S PROVE \E m \in 1..Len(d) : d[m] = i
    OBVIOUS
  <2>1. PICK p \in P : luck[p] = i
    BY DEF Draws
  <2> QED BY <1>3, <2>1
<1>8. d \in Seq(Ordinals)
  BY <1>3, <1>6 DEF Ordinals
<1> QED BY <1>3, <1>4, <1>5, <1>6, <1>7, <1>8 DEF Lists

\* random draws a candidate that is not current, once there are two.
LEMMA CandidateIs ==
  ASSUME NEW kind, NEW n \in Nat, NEW current, NEW luck, Draws(luck, n),
         NEW c, c = Candidate(kind, n, current, luck)
  PROVE  IF kind = "random" /\ n >= 2 THEN c \in (1..n) \ {current} ELSE c = 0
<1>1. CASE kind = "random" /\ n >= 2
  <2> DEFINE S == (1..n) \ {current}
  <2>1. S \subseteq 1..n /\ \E i \in S : TRUE
    <3>1. 1 \in 1..n /\ 2 \in 1..n
      BY <1>1
    <3> QED BY <3>1
  <2>2. PICK d : d = Drawn(S, luck)
    OBVIOUS
  <2>3. /\ d \in Seq(Ordinals) /\ \A m \in 1..Len(d) : d[m] \in S
        /\ \E m \in 1..Len(d) : TRUE
    <3>1. PICK U : U = S
      OBVIOUS
    <3>2. U \subseteq 1..n /\ d = Drawn(U, luck)
      BY <2>2, <3>1
    <3>3. Lists(d, U)
      BY <3>2, DrawnIs
    <3> QED BY <2>1, <3>1, <3>3 DEF Lists
  <2>4. Len(d) >= 1
    BY <2>3
  <2>5. Head(d) \in S
    BY <2>3, <2>4
  <2> QED BY <1>1, <2>2, <2>5 DEF Candidate
<1>2. CASE ~ (kind = "random" /\ n >= 2)
  BY <1>2 DEF Candidate
<1> QED BY <1>1, <1>2

NavOk(nav, n, mark) ==
  /\ nav \in Navigator /\ Covers(nav.order, n)
  /\ nav.kind # "shuffled" => nav.order = InOrder(n)
  /\ nav.position \in 0..n
  /\ mark > 0 => nav.position > 0 /\ nav.order[nav.position] = mark
  /\ nav.kind = "random" =>
       /\ nav.position = mark
       /\ nav.choice # 0 /\ n > 0 => nav.choice \in (1..n) \ {mark}
       /\ n >= 2 => nav.choice # 0

\* The ordinals in their order are all of them.
LEMMA InOrderIs ==
  ASSUME NEW n \in Nat
  PROVE  Covers(InOrder(n), n) /\ \A p \in 1..n : InOrder(n)[p] = p
BY DEF Covers, Lists, InOrder, Ordinals

\* An ordinal of the order has a place in it.
LEMMA PlaceIs ==
  ASSUME NEW nav, NEW n \in Nat, Covers(nav.order, n), NEW ordinal \in 0..n
  PROVE  /\ PlaceOf(nav, ordinal) \in 0..n
         /\ ordinal = 0 => PlaceOf(nav, ordinal) = 0
         /\ ordinal > 0 => PlaceOf(nav, ordinal) > 0 /\ nav.order[PlaceOf(nav, ordinal)] = ordinal
<1>1. Size(nav) = n
  BY DEF Covers, Size
<1>2. CASE ordinal = 0
  <2>1. ~ \E p \in 1..n : nav.order[p] = ordinal
    BY <1>2 DEF Covers, Lists, Ordinals
  <2> QED BY <1>1, <1>2, <2>1 DEF PlaceOf
<1>3. CASE ordinal > 0
  <2>0. ordinal \in 1..n
    BY <1>3
  <2>1. \E p \in 1..n : nav.order[p] = ordinal
    BY <2>0, Zenon DEF Covers, Lists, Ordinals
  <2>2. PlaceOf(nav, ordinal) = CHOOSE p \in 1..n : nav.order[p] = ordinal
    BY <1>1, <2>1 DEF PlaceOf
  <2>3. PlaceOf(nav, ordinal) \in 1..n /\ nav.order[PlaceOf(nav, ordinal)] = ordinal
    BY <2>1, <2>2, Zenon
  <2> QED BY <1>3, <2>3
<1> QED BY <1>2, <1>3

\* select() puts the navigator on the ordinal.
LEMMA NavSelectIs ==
  ASSUME NEW nav \in Navigator, NEW n \in Nat, Covers(nav.order, n),
         nav.kind # "shuffled" => nav.order = InOrder(n),
         NEW ordinal \in 0..n, NEW luck, Draws(luck, n), NEW r, r = NavSelect(nav, ordinal, luck)
  PROVE  NavOk(r, n, ordinal) /\ r.kind = nav.kind
<1>1. PICK c : c = Candidate(nav.kind, n, ordinal, luck)
  OBVIOUS
<1>2. IF nav.kind = "random" /\ n >= 2 THEN c \in (1..n) \ {ordinal} ELSE c = 0
  BY <1>1, CandidateIs
<1>3. PICK p : p = PlaceOf(nav, ordinal)
  OBVIOUS
<1>4. /\ p \in 0..n /\ (ordinal = 0 => p = 0)
      /\ ordinal > 0 => p > 0 /\ nav.order[p] = ordinal
  BY <1>3, PlaceIs
<1>5. Size(nav) = n
  BY DEF Covers, Size
<1>6. r = [nav EXCEPT !.position = p, !.pinned = FALSE, !.choice = c]
  BY <1>1, <1>3, <1>5 DEF NavSelect
<1>7. c \in Nat
  BY <1>2
<1>8. /\ r \in Navigator /\ r.kind = nav.kind /\ r.order = nav.order /\ r.position = p
      /\ r.choice = c
  <2>1. p \in Nat
    BY <1>4
  <2> QED BY <1>6, <1>7, <2>1 DEF Navigator
<1>9. nav.kind = "random" => p = ordinal
  BY <1>4, InOrderIs
<1> QED BY <1>2, <1>4, <1>8, <1>9 DEF NavOk

\* A generator that reaches further reaches this far.
LEMMA DrawsFewer ==
  ASSUME NEW n \in Nat, NEW m \in 0..n, NEW luck, Draws(luck, n)
  PROVE  Draws(luck, m)
BY DEF Draws

\* A pass that begins with an ordinal has all others behind it.
LEMMA PassIs ==
  ASSUME NEW n \in Nat, NEW current \in 1..n, NEW first, Len(first) = 1, first[1] = current,
         NEW d, Lists(d, (1..n) \ {current}), Len(d) = n - 1,
         NEW order \in Seq(Ordinals), Joined(first, d, order)
  PROVE  Covers(order, n)
<1>1. Len(order) = n
  BY DEF Joined
<1>2. \A i \in 1..n : \/ i = 1 /\ order[i] = current
                      \/ i # 1 /\ i - 1 \in 1..Len(d) /\ order[i] = d[i - 1]
  BY <1>1 DEF Joined
<1>3. \A i \in 1..n : order[i] \in 1..n
  BY <1>2 DEF Lists
<1>4. ASSUME NEW i \in 1..n PROVE \E m \in 1..n : order[m] = i
  <2>1. CASE i = current
    <3>1. 1 \in 1..n /\ order[1] = i
      BY <1>2, <2>1
    <3> QED BY <3>1
  <2>2. CASE i # current
    <3>1. PICK m \in 1..Len(d) : d[m] = i
      BY <2>2 DEF Lists
    <3>2. 1 + m \in 1..n /\ 1 + m # 1 /\ (1 + m) - 1 = m
      BY <3>1
    <3>3. order[1 + m] = i
      BY <1>2, <3>1, <3>2
    <3> QED BY <3>2, <3>3
  <2> QED BY <2>1, <2>2
<1> QED BY <1>1, <1>3, <1>4 DEF Covers, Lists

\* What is drawn of all ordinals but the current one.
LEMMA OthersDrawn ==
  ASSUME NEW n \in Nat, NEW current \in 0..n, NEW luck, Draws(luck, n),
         NEW d, d = Drawn((1..n) \ {current}, luck)
  PROVE  /\ Lists(d, (1..n) \ {current}) /\ d \in Seq(Ordinals)
         /\ Len(d) = IF current = 0 THEN n ELSE n - 1
<1>1. PICK S : S = (1..n) \ {current}
  OBVIOUS
<1>2. S \subseteq 1..n /\ d = Drawn(S, luck)
  BY <1>1
<1>3. Lists(d, S) /\ Len(d) = Cardinality(S)
  BY <1>2, DrawnIs
<1>4. IsFiniteSet(1..n) /\ Cardinality(1..n) = n
  <2>1. IsFiniteSet(1..n) /\ Cardinality(1..n) = IF 1 > n THEN 0 ELSE n - 1 + 1
    BY FS_Interval
  <2> QED BY <2>1
<1>5. Cardinality(S) = IF current \in 1..n THEN n - 1 ELSE n
  BY <1>1, <1>4, FS_RemoveElement
<1>6. d \in Seq(Ordinals)
  BY <1>3 DEF Lists
<1> QED BY <1>1, <1>3, <1>5, <1>6

\* The order that reset() gives.
Pass(kind, n, current, luck) ==
  IF kind = "shuffled"
    THEN (IF current = 0 \/ n = 0 THEN <<>> ELSE <<current>>) \o Drawn((1..n) \ {current}, luck)
    ELSE InOrder(n)

\* A pass covers all ordinals, the current one first.
LEMMA PassCovers ==
  ASSUME NEW kind, NEW n \in Nat, NEW current \in 0..n, NEW luck, Draws(luck, n)
  PROVE  Covers(Pass(kind, n, current, luck), n)
<1>1. CASE kind # "shuffled"
  <2>1. Pass(kind, n, current, luck) = InOrder(n)
    BY <1>1 DEF Pass
  <2> QED BY <2>1, InOrderIs
<1>2. CASE kind = "shuffled"
  <2>1. PICK d : d = Drawn((1..n) \ {current}, luck)
    OBVIOUS
  <2>2. /\ Lists(d, (1..n) \ {current}) /\ d \in Seq(Ordinals)
        /\ Len(d) = IF current = 0 THEN n ELSE n - 1
    BY <2>1, OthersDrawn
  <2>3. CASE current = 0
    <3>1. Pass(kind, n, current, luck) = <<>> \o d
      BY <1>2, <2>1, <2>3 DEF Pass
    <3>2. <<>> \o d = d
      BY <2>2
    <3>3. (1..n) \ {current} = 1..n
      BY <2>3
    <3> QED BY <2>2, <2>3, <3>1, <3>2, <3>3 DEF Covers
  <2>4. CASE current # 0
    <3>1. PICK first : first = <<current>>
      OBVIOUS
    <3>2. current \in 1..n /\ current \in Ordinals
      BY <2>4 DEF Ordinals
    <3>3. first \in Seq(Ordinals) /\ Len(first) = 1 /\ first[1] = current
      BY <3>1, <3>2
    <3>4. PICK order : order = first \o d
      OBVIOUS
    <3>5. Pass(kind, n, current, luck) = order
      BY <1>2, <2>1, <3>1, <3>2, <3>4 DEF Pass
    <3>6. order \in Seq(Ordinals) /\ Joined(first, d, order)
      BY <2>2, <3>3, <3>4, JoinedIs
    <3>7. Len(d) = n - 1
      BY <2>2, <2>4
    <3> QED BY <2>2, <3>2, <3>3, <3>5, <3>6, <3>7, PassIs
  <2> QED BY <2>3, <2>4
<1> QED BY <1>1, <1>2

\* A navigator before anything is selected.
FreshNav(kind, order) ==
  [kind |-> kind, order |-> order, position |-> 0, pinned |-> FALSE, choice |-> 0]

\* A navigator before the first select().
LEMMA FreshNavIs ==
  ASSUME NEW kind \in Kinds, NEW n \in Nat, NEW order, Covers(order, n)
  PROVE  /\ FreshNav(kind, order) \in Navigator /\ FreshNav(kind, order).order = order
         /\ FreshNav(kind, order).kind = kind
<1>1. order \in Seq(Nat \ {0})
  BY DEF Covers, Lists, Ordinals
<1> QED BY <1>1 DEF FreshNav, Navigator

\* reset() puts the navigator on the current ordinal, if there is one.
LEMMA NavResetIs ==
  ASSUME NEW kind \in Kinds, NEW n \in Nat, NEW current \in 0..n, NEW luck, Draws(luck, n),
         NEW r, r = NavReset(kind, n, current, luck)
  PROVE  NavOk(r, n, current) /\ r.kind = kind
<1>1. PICK order : order = Pass(kind, n, current, luck)
  OBVIOUS
<1>2. Covers(order, n)
  BY <1>1, PassCovers
<1>3. PICK nav : nav = FreshNav(kind, order)
  OBVIOUS
<1>4. nav \in Navigator /\ nav.order = order /\ nav.kind = kind
  BY <1>2, <1>3, FreshNavIs
<1>5. r = NavSelect(nav, current, luck)
  BY <1>1, <1>3, Zenon DEF NavReset, Pass, FreshNav
<1>6. kind # "shuffled" => order = InOrder(n)
  BY <1>1 DEF Pass
<1> QED BY <1>2, <1>4, <1>5, <1>6, NavSelectIs

\* resetBefore(): nothing is current, and the first comes next.
LEMMA NavResetBeforeIs ==
  ASSUME NEW kind \in Kinds, NEW n \in Nat, NEW first \in Nat, first > 0,
         n > 0 => first <= n, n = 0 => first = 1, NEW luck, Draws(luck, n),
         NEW r, r = NavResetBefore(kind, n, first, luck)
  PROVE  NavOk(r, n, 0) /\ r.kind = kind
<1>1. PICK nav : nav = NavReset(kind, n, first, luck)
  OBVIOUS
<1>3. nav \in Navigator /\ nav.kind = kind /\ Covers(nav.order, n)
      /\ (kind # "shuffled" => nav.order = InOrder(n))
  <2>1. CASE n > 0
    <3>1. NavOk(nav, n, first) /\ nav.kind = kind
      BY <1>1, <2>1, NavResetIs
    <3> QED BY <3>1 DEF NavOk
  <2>2. CASE n = 0
    <3>1. (1..n) \ {first} = (1..n) \ {0}
      BY <2>2
    <3>2. Pass(kind, n, first, luck) = Pass(kind, n, 0, luck)
      BY <2>2, <3>1 DEF Pass
    <3>3. PICK order : order = Pass(kind, n, first, luck)
      OBVIOUS
    <3>4. Covers(order, n)
      BY <3>2, <3>3, PassCovers
    <3>5. PICK some : some = FreshNav(kind, order)
      OBVIOUS
    <3>6. nav = NavSelect(some, first, luck)
      BY <1>1, <3>3, <3>5, Zenon DEF NavReset, Pass, FreshNav
    <3>7. some \in Navigator /\ some.order = order /\ some.kind = kind /\ Size(some) = 0
      BY <2>2, <3>4, <3>5, FreshNavIs DEF Size, Covers
    <3>8. nav = [some EXCEPT !.position = 0, !.pinned = FALSE, !.choice = 0]
      <4>1. PlaceOf(some, first) = 0 /\ Candidate(some.kind, Size(some), first, luck) = 0
        BY <3>7 DEF PlaceOf, Candidate
      <4> QED BY <3>6, <4>1 DEF NavSelect
    <3>9. kind # "shuffled" => order = InOrder(n)
      BY <3>3 DEF Pass
    <3> QED BY <3>4, <3>7, <3>8, <3>9 DEF Navigator
  <2> QED BY <2>1, <2>2
<1>4. CASE kind = "sequential"
  <2>1. r = [nav EXCEPT !.position = first - 1]
    BY <1>1, <1>4 DEF NavResetBefore
  <2>2. first - 1 \in Nat /\ first - 1 \in 0..n
    OBVIOUS
  <2>3. r \in Navigator /\ r.order = nav.order /\ r.kind = kind /\ r.position = first - 1
    BY <1>3, <2>1, <2>2 DEF Navigator
  <2> QED BY <1>3, <1>4, <2>2, <2>3 DEF NavOk
<1>5. CASE kind = "random"
  <2>1. r = [nav EXCEPT !.position = 0, !.choice = first]
    BY <1>1, <1>5 DEF NavResetBefore
  <2>2. PICK p \in Nat : p = 0
    OBVIOUS
  <2>3. r \in Navigator /\ r.order = nav.order /\ r.kind = kind /\ r.position = p
        /\ r.choice = first
    <3>1. r = [nav EXCEPT !.position = p, !.choice = first]
      BY <2>1, <2>2
    <3> QED BY <1>3, <3>1 DEF Navigator
  <2>4. n > 0 => first \in (1..n) \ {0}
    OBVIOUS
  <2> QED BY <1>3, <1>5, <2>2, <2>3, <2>4 DEF NavOk
<1>6. CASE kind = "shuffled"
  <2>1. r = [nav EXCEPT !.position = 0, !.pinned = n > 0]
    BY <1>1, <1>6 DEF NavResetBefore
  <2>2. (n > 0) \in BOOLEAN
    OBVIOUS
  <2>3. PICK pinned \in BOOLEAN, p \in Nat :
          p = 0 /\ r = [nav EXCEPT !.position = p, !.pinned = pinned]
    BY <2>1, <2>2
  <2>4. r \in Navigator /\ r.order = nav.order /\ r.kind = kind /\ r.position = p
    BY <1>3, <2>3 DEF Navigator
  <2> QED BY <1>3, <1>6, <2>3, <2>4 DEF NavOk
<1> QED BY <1>4, <1>5, <1>6 DEF Kinds

\* A new ordinal joins a pass behind the current one.
LEMMA JoinPlace ==
  ASSUME NEW nav \in Navigator, NEW n \in Nat, Size(nav) = n, nav.position \in 0..n,
         NEW ordinal, NEW luck
  PROVE  \E at \in (nav.position + 1)..(n + 1) :
           Join(nav, ordinal, luck) = Inserted(nav.order, at, <<ordinal>>)
<1> DEFINE from == nav.position + (IF nav.pinned THEN 2 ELSE 1)
           rank(i) == CHOOSE p \in 1..Len(luck) : luck[p] = i
           later == {p \in from..Size(nav) : rank(nav.order[p]) > rank(ordinal)}
           at == IF later = {} THEN Size(nav) + 1
                 ELSE CHOOSE p \in later : \A r \in later : p <= r
<1>1. Join(nav, ordinal, luck) = Inserted(nav.order, at, <<ordinal>>)
  BY Zenon DEF Join
<1>3. later \subseteq from..n
  BY Zenon
<1>5. from \in Nat /\ from >= nav.position + 1
  BY DEF Navigator
<1> HIDE DEF later, from
<1>4. at = IF later = {} THEN n + 1 ELSE CHOOSE p \in later : \A r \in later : p <= r
  OBVIOUS
<1> HIDE DEF at
<1>6. at \in (nav.position + 1)..(n + 1)
  <2>1. CASE later = {}
    BY <1>4, <2>1
  <2>2. CASE later # {}
    <3>1. later \subseteq Nat
      BY <1>3, <1>5
    <3>2. \E p \in later : \A r \in later : p <= r
      BY <2>2, <3>1, LeastNumber
    <3>3. at \in later
      BY <1>4, <2>2, <3>2, Zenon
    <3> QED BY <1>3, <1>5, <3>3
  <2> QED BY <2>1, <2>2
<1> QED BY <1>1, <1>6

Widened(s, at, more, u) ==
  /\ Len(u) = Len(s) + Len(more)
  /\ \A i \in 1..(at - 1) : u[i] = s[i]
  /\ \A i \in 1..Len(more) : u[at - 1 + i] = more[i]
  /\ \A i \in at..Len(s) : u[i + Len(more)] = s[i]

\* An order with one ordinal more covers one more.
LEMMA WidenedIs ==
  ASSUME NEW T, NEW s \in Seq(T), NEW more \in Seq(T), NEW at \in 1..(Len(s) + 1),
         NEW u, u = Inserted(s, at, more)
  PROVE  u \in Seq(T) /\ Widened(s, at, more, u)
<1>1. Inserted(s, at, more) \in Seq(T) /\ Widened(s, at, more, Inserted(s, at, more))
  BY InsertedIs, Zenon DEF Widened
<1> QED BY <1>1

\* One new ordinal joins behind the current one, which keeps its place.
LEMMA JoinIs ==
  ASSUME NEW nav \in Navigator, NEW n \in Nat, Covers(nav.order, n), nav.position \in 0..n,
         NEW luck, NEW order, order = Join(nav, n + 1, luck)
  PROVE  Covers(order, n + 1) /\ \A i \in 1..nav.position : order[i] = nav.order[i]
<1>1. PICK old, one : old = nav.order /\ one = <<n + 1>>
  OBVIOUS
<1>2. Size(nav) = n /\ old \in Seq(Ordinals) /\ Len(old) = n
  BY <1>1 DEF Covers, Lists, Size
<1>3. PICK at \in (nav.position + 1)..(n + 1) : order = Inserted(old, at, one)
  BY <1>1, <1>2, JoinPlace
<1>4. at \in 1..(n + 1)
  BY <1>3 DEF Navigator
<1>5. one \in Seq(Ordinals) /\ Len(one) = 1 /\ one[1] = n + 1
  <2>1. n + 1 \in Ordinals
    BY DEF Ordinals
  <2> QED BY <1>1, <2>1
<1>6. /\ order \in Seq(Ordinals) /\ Len(order) = Len(old) + Len(one)
      /\ \A i \in 1..(at - 1) : order[i] = old[i]
      /\ \A i \in 1..Len(one) : order[at - 1 + i] = one[i]
      /\ \A i \in at..Len(old) : order[i + Len(one)] = old[i]
  <2>1. at \in 1..(Len(old) + 1)
    BY <1>2, <1>4
  <2>2. PICK u : u = Inserted(old, at, one)
    OBVIOUS
  <2>3. old \in Seq(Ordinals) /\ one \in Seq(Ordinals)
    BY <1>2, <1>5
  <2>4. u \in Seq(Ordinals) /\ Widened(old, at, one, u)
    BY <2>1, <2>2, <2>3, WidenedIs
  <2> QED BY <1>3, <2>2, <2>4 DEF Widened
<1>7. /\ Len(order) = n + 1 /\ order[at] = n + 1
      /\ \A i \in 1..(at - 1) : order[i] = old[i]
      /\ \A i \in at..n : order[i + 1] = old[i]
  <2>1. 1 \in 1..Len(one) /\ at - 1 + 1 = at
    BY <1>4, <1>5
  <2> QED BY <1>2, <1>5, <1>6, <2>1
<1>8. \A i \in 1..nav.position : order[i] = nav.order[i]
  BY <1>1, <1>3, <1>7
<1>9. (\A p \in 1..n : old[p] \in 1..n) /\ (\A i \in 1..n : \E p \in 1..n : old[p] = i)
  BY <1>1, <1>2 DEF Covers, Lists
<1>10. ASSUME NEW p \in 1..(n + 1) PROVE order[p] \in 1..(n + 1)
  <2>1. CASE p < at
    <3>1. p \in 1..(at - 1) /\ p \in 1..n
      BY <1>4, <2>1
    <3>2. order[p] \in 1..n
      BY <1>7, <1>9, <3>1
    <3> QED BY <3>2
  <2>2. CASE p = at
    BY <1>7, <2>2
  <2>3. CASE p > at
    <3>1. p - 1 \in at..n /\ p - 1 \in 1..n /\ (p - 1) + 1 = p
      BY <1>4, <2>3
    <3>2. order[p] = old[p - 1]
      BY <1>7, <3>1
    <3> QED BY <1>9, <3>1, <3>2
  <2> QED BY <1>4, <2>1, <2>2, <2>3
<1>11. ASSUME NEW i \in 1..(n + 1) PROVE \E p \in 1..(n + 1) : order[p] = i
  <2>1. CASE i = n + 1
    BY <1>4, <1>7, <2>1
  <2>2. CASE i # n + 1
    <3>1. i \in 1..n
      BY <2>2
    <3>2. PICK p \in 1..n : old[p] = i
      BY <1>9, <3>1
    <3>3. CASE p < at
      <4>1. p \in 1..(at - 1) /\ p \in 1..(n + 1)
        BY <1>4, <3>3
      <4> QED BY <1>7, <3>2, <4>1
    <3>4. CASE p >= at
      <4>1. p \in at..n /\ p + 1 \in 1..(n + 1)
        BY <1>4, <3>4
      <4> QED BY <1>7, <3>2, <4>1
    <3> QED BY <1>4, <3>3, <3>4
  <2> QED BY <2>1, <2>2
<1> QED BY <1>6, <1>7, <1>8, <1>10, <1>11 DEF Covers, Lists

\* A pass while new ordinals join it, one after the other.
JoinedOne(nav, r, n, luck) == [r EXCEPT !.order = Join(r, Size(nav) + n, luck)]
Passes(nav, count, luck, f) ==
  f = [n \in 0..count |-> IF n = 0 THEN nav ELSE JoinedOne(nav, f[n - 1], n, luck)]
Whole(nav, count, luck) == CHOOSE f : Passes(nav, count, luck, f)

\* append() of a shuffled pass lets the new ordinals join one by one.
LEMMA ShuffledAppend ==
  ASSUME NEW nav, NEW count, NEW luck, nav.kind = "shuffled"
  PROVE  NavAppend(nav, count, luck) = Whole(nav, count, luck)[count]
<1>1. (nav.kind = "sequential") = FALSE /\ (nav.kind = "random") = FALSE
  OBVIOUS
<1> QED BY <1>1, Zenon DEF NavAppend, Whole, Passes, JoinedOne

\* The passes append() goes through, from none joined to all.
LEMMA PassesExist ==
  ASSUME NEW nav, NEW luck, NEW count \in Nat
  PROVE  \E f : Passes(nav, count, luck, f)
<1> DEFINE S == {c \in Nat : \E f : Passes(nav, c, luck, f)}
<1>1. 0 \in S
  <2>1. PICK f : f = [n \in 0..0 |-> nav]
    OBVIOUS
  <2>2. Passes(nav, 0, luck, f)
    <3>1. f = [n \in 0..0 |-> IF n = 0 THEN nav ELSE JoinedOne(nav, f[n - 1], n, luck)]
      BY <2>1
    <3> QED BY <3>1 DEF Passes
  <2> QED BY <2>2
<1>2. ASSUME NEW c \in S PROVE c + 1 \in S
  <2>1. PICK f : Passes(nav, c, luck, f)
    OBVIOUS
  <2>2. f = [n \in 0..c |-> IF n = 0 THEN nav ELSE JoinedOne(nav, f[n - 1], n, luck)]
    BY <2>1 DEF Passes
  <2>3. PICK g : g = [n \in 0..(c + 1) |->
                        IF n = 0 THEN nav ELSE JoinedOne(nav, f[n - 1], n, luck)]
    OBVIOUS
  <2>4. \A n \in 0..c : g[n] = f[n]
    BY <2>2, <2>3
  <2>5. \A n \in 0..(c + 1) : n # 0 => f[n - 1] = g[n - 1]
    BY <2>4
  <2>6. \A n \in 0..(c + 1) :
          g[n] = IF n = 0 THEN nav ELSE JoinedOne(nav, g[n - 1], n, luck)
    BY <2>3, <2>5
  <2>7. g = [n \in 0..(c + 1) |-> IF n = 0 THEN nav ELSE JoinedOne(nav, g[n - 1], n, luck)]
    BY <2>3, <2>6
  <2>8. Passes(nav, c + 1, luck, g)
    BY <2>7 DEF Passes
  <2> QED BY <2>8
<1>3. S \subseteq Nat /\ \A c \in S : c + 1 \in S
  BY <1>2
<1> HIDE DEF S
<1>4. S = Nat
  BY <1>1, <1>3, Induction
<1> QED BY <1>4 DEF S

\* What new ordinals leave of a navigator.
Longer(nav, n, r, m) ==
  /\ r \in Navigator /\ r.kind = nav.kind /\ r.position = nav.position /\ r.choice = nav.choice
  /\ Covers(r.order, m)
  /\ \A i \in 1..nav.position : r.order[i] = nav.order[i]

\* One more ordinal joined keeps what the passes before it kept.
LEMMA JoinedOneIs ==
  ASSUME NEW nav \in Navigator, NEW n \in Nat, Size(nav) = n, nav.position \in 0..n,
         NEW c \in Nat, NEW r, Longer(nav, n, r, n + c), NEW luck,
         NEW u, u = JoinedOne(nav, r, c + 1, luck)
  PROVE  Longer(nav, n, u, n + (c + 1))
<1>1. PICK order : order = Join(r, (n + c) + 1, luck)
  OBVIOUS
<1>2. r \in Navigator /\ Covers(r.order, n + c) /\ r.position \in 0..(n + c) /\ n + c \in Nat
  BY DEF Longer
<1>3. Covers(order, (n + c) + 1) /\ \A i \in 1..r.position : order[i] = r.order[i]
  BY <1>1, <1>2, JoinIs
<1>4. u = [r EXCEPT !.order = order] /\ (n + c) + 1 = n + (c + 1)
  BY <1>1 DEF JoinedOne
<1>5. order \in Seq(Nat \ {0})
  BY <1>3 DEF Covers, Lists, Ordinals
<1>6. /\ u \in Navigator /\ u.order = order /\ u.kind = r.kind /\ u.position = r.position
      /\ u.choice = r.choice
  BY <1>2, <1>4, <1>5 DEF Navigator
<1> QED BY <1>3, <1>4, <1>6 DEF Longer

\* However many joined, the pass covers them and the current one stays.
LEMMA WholeIs ==
  ASSUME NEW nav \in Navigator, NEW n \in Nat, Covers(nav.order, n), nav.position \in 0..n,
         NEW count \in Nat, NEW luck
  PROVE  Longer(nav, n, Whole(nav, count, luck)[count], n + count)
<1>1. PICK f : f = Whole(nav, count, luck)
  OBVIOUS
<1>2. Passes(nav, count, luck, f)
  BY <1>1, PassesExist, Zenon DEF Whole
<1>3. f = [c \in 0..count |-> IF c = 0 THEN nav ELSE JoinedOne(nav, f[c - 1], c, luck)]
  BY <1>2 DEF Passes
<1>4. \A c \in 0..count : f[c] = IF c = 0 THEN nav ELSE JoinedOne(nav, f[c - 1], c, luck)
  BY <1>3
<1>5. Size(nav) = n
  BY DEF Covers, Size
<1> DEFINE S == {c \in Nat : c <= count => Longer(nav, n, f[c], n + c)}
<1>6. 0 \in S
  <2>1. f[0] = nav /\ n + 0 = n
    <3>1. 0 \in 0..count /\ n + 0 = n
      OBVIOUS
    <3>2. \A c \in 0..count : c = 0 => f[c] = nav
      BY <1>4, Zenon
    <3>3. f[0] = nav
      BY <3>1, <3>2, Zenon
    <3> QED BY <3>1, <3>3
  <2>2. Longer(nav, n, nav, n)
    BY DEF Longer
  <2> QED BY <2>1, <2>2
<1>7. ASSUME NEW c \in S PROVE c + 1 \in S
  <2>1. CASE c + 1 <= count
    <3>1. Longer(nav, n, f[c], n + c)
      BY <2>1
    <3>2. f[c + 1] = JoinedOne(nav, f[c], c + 1, luck)
      <4>1. c + 1 \in 0..count /\ c + 1 # 0 /\ (c + 1) - 1 = c
        BY <2>1
      <4> QED BY <1>4, <4>1
    <3>3. Longer(nav, n, f[c + 1], n + (c + 1))
      BY <1>5, <3>1, <3>2, JoinedOneIs
    <3> QED BY <3>3
  <2>2. CASE ~ (c + 1 <= count)
    BY <2>2
  <2> QED BY <2>1, <2>2
<1>8. S \subseteq Nat /\ \A c \in S : c + 1 \in S
  BY <1>7
<1> HIDE DEF S
<1>9. S = Nat
  BY <1>6, <1>8, Induction
<1>10. count \in S
  BY <1>9
<1> QED BY <1>1, <1>10 DEF S

\* append() keeps the current ordinal where it is.
LEMMA NavAppendIs ==
  ASSUME NEW nav, NEW n \in Nat, NEW mark \in 0..n, NavOk(nav, n, mark), n > 0,
         NEW count \in Nat, NEW luck, Draws(luck, n + count),
         NEW r, r = NavAppend(nav, count, luck)
  PROVE  NavOk(r, n + count, mark) /\ r.kind = nav.kind
<1>1. nav \in Navigator /\ Covers(nav.order, n) /\ Size(nav) = n
  BY DEF NavOk, Covers, Size
<1>2. Covers(InOrder(n + count), n + count) /\ \A p \in 1..(n + count) : InOrder(n + count)[p] = p
  BY InOrderIs
<1>3. InOrder(n + count) \in Seq(Nat \ {0})
  BY <1>2 DEF Covers, Lists, Ordinals
<1>4. nav.kind # "shuffled" => nav.order = InOrder(n)
  BY DEF NavOk
<1>5. \A p \in 1..n : InOrder(n)[p] = p
  BY InOrderIs
<1>6. CASE nav.kind = "sequential"
  <2>1. r = [nav EXCEPT !.order = InOrder(n + count)]
    BY <1>1, <1>6 DEF NavAppend
  <2>2. r \in Navigator /\ r.order = InOrder(n + count) /\ r.kind = nav.kind
        /\ r.position = nav.position
    BY <1>1, <1>3, <2>1 DEF Navigator
  <2>3. mark > 0 => r.position > 0 /\ r.order[r.position] = mark
    BY <1>2, <1>4, <1>5, <1>6, <2>2 DEF NavOk
  <2>4. r.position \in 0..(n + count)
    BY <2>2 DEF NavOk
  <2> QED BY <1>2, <1>6, <2>2, <2>3, <2>4 DEF NavOk
<1>7. CASE nav.kind = "random"
  <2>1. PICK c : c = IF n >= 2 \/ nav.choice # 0 THEN nav.choice
                     ELSE Candidate("random", n + count, nav.position, luck)
    OBVIOUS
  <2>2. r = [nav EXCEPT !.order = InOrder(n + count), !.choice = c]
    <3>1. (nav.kind = "sequential") = FALSE
      BY <1>7
    <3> QED BY <1>1, <1>7, <2>1, <3>1 DEF NavAppend
  <2>3. nav.position = mark
    BY <1>7 DEF NavOk
  <2>4. /\ c \in Nat /\ (c # 0 => c \in (1..(n + count)) \ {mark})
        /\ n + count >= 2 => c # 0
    <3>1. CASE n >= 2 \/ nav.choice # 0
      <4>1. c = nav.choice /\ nav.choice # 0
        BY <1>7, <2>1, <3>1 DEF NavOk
      <4>2. nav.choice \in (1..n) \ {mark}
        BY <1>7, <4>1 DEF NavOk
      <4> QED BY <4>1, <4>2
    <3>2. CASE ~ (n >= 2 \/ nav.choice # 0)
      <4>1. c = Candidate("random", n + count, mark, luck)
        BY <2>1, <2>3, <3>2
      <4>2. IF "random" = "random" /\ n + count >= 2 THEN c \in (1..(n + count)) \ {mark}
                                                     ELSE c = 0
        BY <4>1, CandidateIs
      <4> QED BY <4>2
    <3> QED BY <3>1, <3>2
  <2>5. r \in Navigator /\ r.order = InOrder(n + count) /\ r.kind = nav.kind
        /\ r.position = nav.position /\ r.choice = c
    BY <1>1, <1>3, <2>2, <2>4 DEF Navigator
  <2>6. mark > 0 => r.position > 0 /\ r.order[r.position] = mark
    BY <1>2, <2>3, <2>5
  <2> QED BY <1>2, <1>7, <2>3, <2>4, <2>5, <2>6 DEF NavOk
<1>8. CASE nav.kind = "shuffled"
  <2>1. r = Whole(nav, count, luck)[count]
    BY <1>8, ShuffledAppend
  <2>2. nav.position \in 0..n
    BY DEF NavOk
  <2>3. Longer(nav, n, r, n + count)
    BY <1>1, <2>1, <2>2, WholeIs
  <2>4. mark > 0 => r.position > 0 /\ r.order[r.position] = mark
    BY <2>2, <2>3 DEF Longer, NavOk
  <2> QED BY <1>8, <2>2, <2>3, <2>4 DEF Longer, NavOk
<1> QED BY <1>1, <1>6, <1>7, <1>8 DEF Navigator, Kinds

\* next() gives an ordinal there is, and none only when none remains.
LEMMA NavNextIs ==
  ASSUME NEW nav, NEW n \in Nat, NEW mark \in 0..n, NavOk(nav, n, mark), NEW repeat
  PROVE  /\ NavNext(nav, repeat) \in 0..n
         /\ NavRemaining(nav, repeat) \in Nat
         /\ NavNext(nav, repeat) = 0 <=> NavRemaining(nav, repeat) = 0
<1>1. nav \in Navigator /\ nav.position \in 0..n /\ Size(nav) = n
      /\ (\A p \in 1..n : nav.order[p] \in 1..n)
  BY DEF NavOk, Covers, Lists, Size
<1>2. CASE Roams(nav)
  <2>1. NavNext(nav, repeat) = nav.choice /\ NavRemaining(nav, repeat) = Endless
    BY <1>2 DEF NavNext, NavRemaining
  <2>2. nav.kind = "random" /\ n >= 2
    BY <1>1, <1>2 DEF Roams
  <2>3. nav.choice \in 1..n
    BY <2>2 DEF NavOk
  <2> QED BY <2>1, <2>3 DEF Endless
<1>3. CASE ~ Roams(nav) /\ nav.position < n
  <2>1. NavNext(nav, repeat) = nav.order[nav.position + 1] /\ nav.position + 1 \in 1..n
    BY <1>1, <1>3 DEF NavNext
  <2>2. NavRemaining(nav, repeat) = Endless \/ NavRemaining(nav, repeat) = n - nav.position
    BY <1>1, <1>3 DEF NavRemaining
  <2> QED BY <1>1, <1>3, <2>1, <2>2 DEF Endless
<1>4. CASE ~ Roams(nav) /\ ~ (nav.position < n) /\ repeat /\ n > 0
  <2>1. NavNext(nav, repeat) = nav.order[1] /\ NavRemaining(nav, repeat) = Endless
    BY <1>1, <1>4 DEF NavNext, NavRemaining
  <2>2. 1 \in 1..n
    BY <1>4
  <2> QED BY <1>1, <2>1, <2>2 DEF Endless
<1>5. CASE ~ Roams(nav) /\ ~ (nav.position < n) /\ ~ (repeat /\ n > 0)
  <2>1. NavNext(nav, repeat) = 0 /\ NavRemaining(nav, repeat) = n - nav.position
    BY <1>1, <1>5 DEF NavNext, NavRemaining
  <2> QED BY <1>1, <1>5, <2>1
<1> QED BY <1>2, <1>3, <1>4, <1>5

-----------------------------------------------------------------------------
(* The start track comes first *)

\* The navigator stands right before an ordinal, as resetBefore() leaves it.
StandsBefore(nav, first) ==
  /\ nav.kind = "sequential" => nav.position = first - 1
  /\ nav.kind = "random" => nav.choice = first
  /\ nav.kind = "shuffled" => nav.position = 0 /\ nav.pinned /\ nav.order[1] = first

\* From there next() gives it.
LEMMA BeforeGives ==
  ASSUME NEW nav, NEW n \in Nat, NEW first \in 1..n, NavOk(nav, n, 0), StandsBefore(nav, first)
  PROVE  NavNext(nav, FALSE) = first
<1>1. nav \in Navigator /\ Size(nav) = n /\ n > 0
  BY DEF NavOk, Covers, Size
<1>2. nav.kind # "shuffled" => nav.order = InOrder(n)
  BY DEF NavOk
<1>3. \A p \in 1..n : InOrder(n)[p] = p
  BY InOrderIs
<1>4. CASE nav.kind = "sequential"
  <2>1. nav.position = first - 1 /\ nav.position < n /\ nav.position + 1 = first
    BY <1>4 DEF StandsBefore
  <2>2. ~ Roams(nav)
    BY <1>4 DEF Roams
  <2>3. nav.order[first] = first
    BY <1>2, <1>3, <1>4
  <2> QED BY <1>1, <2>1, <2>2, <2>3 DEF NavNext
<1>5. CASE nav.kind = "random"
  <2>1. nav.choice = first /\ nav.position = 0
    BY <1>5 DEF StandsBefore, NavOk
  <2>2. CASE n >= 2
    BY <1>1, <1>5, <2>1, <2>2 DEF NavNext, Roams
  <2>3. CASE ~ (n >= 2)
    <3>1. n = 1 /\ first = 1
      BY <1>1, <2>3
    <3>2. nav.order[1] = 1
      BY <1>2, <1>3, <1>5, <3>1
    <3> QED BY <1>1, <2>1, <3>1, <3>2 DEF NavNext, Roams
  <2> QED BY <2>2, <2>3
<1>6. CASE nav.kind = "shuffled"
  <2>1. nav.position = 0 /\ nav.order[1] = first /\ ~ Roams(nav)
    BY <1>6 DEF StandsBefore, Roams
  <2> QED BY <1>1, <2>1 DEF NavNext
<1> QED BY <1>1, <1>4, <1>5, <1>6 DEF Navigator, Kinds

\* resetBefore() makes it stand so, in each order.
LEMMA ResetBeforeStands ==
  ASSUME NEW kind \in Kinds, NEW n \in Nat, NEW first \in 1..n, NEW luck, Draws(luck, n),
         NEW r, r = NavResetBefore(kind, n, first, luck)
  PROVE  StandsBefore(r, first)
<1>1. PICK nav : nav = NavReset(kind, n, first, luck)
  OBVIOUS
<1>2. PICK order : order = Pass(kind, n, first, luck)
  OBVIOUS
<1>3. PICK some : some = FreshNav(kind, order)
  OBVIOUS
<1>4. nav = NavSelect(some, first, luck)
  BY <1>1, <1>2, <1>3, Zenon DEF NavReset, Pass, FreshNav
<1>5. first \in 0..n /\ n > 0
  OBVIOUS
<1>6. Covers(order, n)
  BY <1>2, <1>5, PassCovers
<1>7. some \in Navigator /\ some.order = order /\ some.kind = kind
  BY <1>3, <1>6, FreshNavIs
<1>8. NavOk(nav, n, first) /\ nav.kind = kind
  BY <1>1, <1>5, NavResetIs
<1>9. nav \in Navigator /\ nav.order = order
  BY <1>4, <1>7, <1>8 DEF NavSelect, NavOk, Navigator
<1>10. CASE kind = "sequential"
  <2>1. r = [nav EXCEPT !.position = first - 1]
    BY <1>1, <1>10 DEF NavResetBefore
  <2>2. r.kind = kind /\ r.position = first - 1
    BY <1>8, <1>9, <2>1 DEF Navigator
  <2> QED BY <1>10, <2>2 DEF StandsBefore
<1>11. CASE kind = "random"
  <2>1. r = [nav EXCEPT !.position = 0, !.choice = first]
    BY <1>1, <1>11 DEF NavResetBefore
  <2>2. r.kind = kind /\ r.choice = first
    BY <1>8, <1>9, <2>1 DEF Navigator
  <2> QED BY <1>11, <2>2 DEF StandsBefore
<1>12. CASE kind = "shuffled"
  <2>1. PICK pinned : pinned = TRUE
    OBVIOUS
  <2>2. r = [nav EXCEPT !.position = 0, !.pinned = pinned]
    <3>1. r = [nav EXCEPT !.position = 0, !.pinned = n > 0]
      BY <1>1, <1>12 DEF NavResetBefore
    <3>2. (n > 0) = TRUE
      BY <1>5
    <3> QED BY <2>1, <3>1, <3>2
  <2>3. r.kind = kind /\ r.position = 0 /\ r.pinned = TRUE /\ r.order = order
    BY <1>8, <1>9, <2>1, <2>2 DEF Navigator
  <2>4. order[1] = first
    <3>1. PICK d, one : d = Drawn((1..n) \ {first}, luck) /\ one = <<first>>
      OBVIOUS
    <3>2. order = one \o d
      BY <1>2, <1>5, <1>12, <3>1 DEF Pass
    <3>3. d \in Seq(Ordinals)
      BY <1>5, <3>1, OthersDrawn
    <3>4. one \in Seq(Ordinals) /\ Len(one) = 1 /\ one[1] = first
      <4>1. first \in Ordinals
        BY DEF Ordinals
      <4> QED BY <3>1, <4>1
    <3>5. order \in Seq(Ordinals) /\ Joined(one, d, order)
      BY <3>2, <3>3, <3>4, JoinedIs
    <3>6. 1 \in 1..Len(order)
      BY <1>5, <1>6 DEF Covers
    <3> QED BY <3>4, <3>5, <3>6 DEF Joined
  <2>5. r.pinned
    BY <2>3
  <2> QED BY <1>12, <2>3, <2>4, <2>5 DEF StandsBefore
<1> QED BY <1>10, <1>11, <1>12 DEF Kinds

\* What joins a pinned pass comes behind its first ordinal.
LEMMA JoinPinned ==
  ASSUME NEW nav \in Navigator, NEW n \in Nat, Covers(nav.order, n), n > 0,
         nav.position = 0, nav.pinned, NEW ordinal \in Ordinals, NEW luck,
         NEW order, order = Join(nav, ordinal, luck)
  PROVE  order[1] = nav.order[1]
<1> DEFINE from == nav.position + (IF nav.pinned THEN 2 ELSE 1)
           rank(i) == CHOOSE p \in 1..Len(luck) : luck[p] = i
           later == {p \in from..Size(nav) : rank(nav.order[p]) > rank(ordinal)}
           at == IF later = {} THEN Size(nav) + 1
                 ELSE CHOOSE p \in later : \A r \in later : p <= r
<1>1. order = Inserted(nav.order, at, <<ordinal>>)
  BY Zenon DEF Join
<1>2. Size(nav) = n /\ nav.order \in Seq(Ordinals) /\ Len(nav.order) = n
  BY DEF Covers, Lists, Size
<1>3. later \subseteq from..n
  BY <1>2, Zenon
<1>4. from = 2
  OBVIOUS
<1> HIDE DEF later, from
<1>5. at = IF later = {} THEN n + 1 ELSE CHOOSE p \in later : \A r \in later : p <= r
  BY <1>2
<1> HIDE DEF at
<1>6. at \in 2..(n + 1)
  <2>1. CASE later = {}
    BY <1>5, <2>1
  <2>2. CASE later # {}
    <3>1. later \subseteq Nat
      BY <1>3, <1>4
    <3>2. \E p \in later : \A r \in later : p <= r
      BY <2>2, <3>1, LeastNumber
    <3>3. at \in later
      BY <1>5, <2>2, <3>2, Zenon
    <3> QED BY <1>3, <1>4, <3>3
  <2> QED BY <2>1, <2>2
<1>7. PICK old, one, a : old = nav.order /\ one = <<ordinal>> /\ a = at
  OBVIOUS
<1>8. one \in Seq(Ordinals) /\ old \in Seq(Ordinals) /\ a \in 1..(Len(old) + 1)
  BY <1>2, <1>6, <1>7
<1>9. order = Inserted(old, a, one)
  BY <1>1, <1>7
<1>10. Widened(old, a, one, order)
  BY <1>8, <1>9, WidenedIs
<1>11. 1 \in 1..(a - 1)
  BY <1>6, <1>7
<1> QED BY <1>7, <1>10, <1>11 DEF Widened

\* However many join it, a pinned pass begins with the same ordinal.
LEMMA WholePinned ==
  ASSUME NEW nav \in Navigator, NEW n \in Nat, Covers(nav.order, n), n > 0,
         nav.position = 0, nav.pinned, NEW count \in Nat, NEW luck,
         NEW r, r = Whole(nav, count, luck)[count]
  PROVE  r.kind = nav.kind /\ r.position = 0 /\ r.pinned /\ r.order[1] = nav.order[1]
<1>1. PICK f : f = Whole(nav, count, luck)
  OBVIOUS
<1>2. Passes(nav, count, luck, f)
  BY <1>1, PassesExist, Zenon DEF Whole
<1>3. f = [c \in 0..count |-> IF c = 0 THEN nav ELSE JoinedOne(nav, f[c - 1], c, luck)]
  BY <1>2 DEF Passes
<1>4. \A c \in 0..count : f[c] = IF c = 0 THEN nav ELSE JoinedOne(nav, f[c - 1], c, luck)
  BY <1>3
<1>5. Size(nav) = n /\ nav.position \in 0..n
  BY DEF Covers, Size
<1> DEFINE Good(c) == /\ Longer(nav, n, f[c], n + c) /\ f[c].pinned
                      /\ f[c].order[1] = nav.order[1]
           S == {c \in Nat : c <= count => Good(c)}
<1>6. 0 \in S
  <2>1. f[0] = nav /\ n + 0 = n
    <3>1. 0 \in 0..count /\ n + 0 = n
      OBVIOUS
    <3>2. \A c \in 0..count : c = 0 => f[c] = nav
      BY <1>4, Zenon
    <3>3. f[0] = nav
      BY <3>1, <3>2, Zenon
    <3> QED BY <3>1, <3>3
  <2>2. Longer(nav, n, nav, n)
    BY DEF Longer
  <2> QED BY <2>1, <2>2
<1>7. ASSUME NEW c \in S PROVE c + 1 \in S
  <2>1. CASE c + 1 <= count
    <3>1. Longer(nav, n, f[c], n + c) /\ f[c].pinned /\ f[c].order[1] = nav.order[1]
      BY <2>1
    <3>2. f[c + 1] = JoinedOne(nav, f[c], c + 1, luck)
      <4>1. c + 1 \in 0..count /\ c + 1 # 0 /\ (c + 1) - 1 = c
        BY <2>1
      <4> QED BY <1>4, <4>1
    <3>3. Longer(nav, n, f[c + 1], n + (c + 1))
      BY <1>5, <3>1, <3>2, JoinedOneIs
    <3>4. PICK old, ordinal, order : /\ old = f[c] /\ ordinal = n + (c + 1)
                                     /\ order = Join(old, ordinal, luck)
      OBVIOUS
    <3>5. old \in Navigator /\ Covers(old.order, n + c) /\ old.position = 0 /\ old.pinned
      BY <3>1, <3>4 DEF Longer
    <3>6. n + c \in Nat /\ n + c > 0 /\ ordinal \in Ordinals
      BY <3>4 DEF Ordinals
    <3>7. order[1] = old.order[1]
      BY <3>4, <3>5, <3>6, JoinPinned
    <3>8. f[c + 1] = [old EXCEPT !.order = order]
      BY <1>5, <3>2, <3>4 DEF JoinedOne
    <3>9. f[c + 1].pinned = old.pinned /\ f[c + 1].order = order
      BY <3>5, <3>8 DEF Navigator
    <3> QED BY <3>1, <3>3, <3>4, <3>5, <3>7, <3>9
  <2>2. CASE ~ (c + 1 <= count)
    BY <2>2
  <2> QED BY <2>1, <2>2
<1>8. S \subseteq Nat /\ \A c \in S : c + 1 \in S
  BY <1>7
<1> HIDE DEF S
<1>9. S = Nat
  BY <1>6, <1>8, Induction
<1>10. Good(count)
  BY <1>9 DEF S
<1> QED BY <1>1, <1>10 DEF Longer

\* append() leaves the start next.
LEMMA AppendStands ==
  ASSUME NEW nav, NEW n \in Nat, NEW first \in 1..n, NavOk(nav, n, 0), StandsBefore(nav, first),
         NEW count \in Nat, NEW luck, NEW r, r = NavAppend(nav, count, luck)
  PROVE  StandsBefore(r, first)
<1>1. nav \in Navigator /\ Covers(nav.order, n) /\ Size(nav) = n /\ n > 0
  BY DEF NavOk, Covers, Size
<1>2. CASE nav.kind = "sequential"
  <2>1. r = [nav EXCEPT !.order = InOrder(n + count)]
    BY <1>1, <1>2 DEF NavAppend
  <2>2. r.kind = nav.kind /\ r.position = nav.position
    BY <1>1, <2>1 DEF Navigator
  <2> QED BY <1>2, <2>2 DEF StandsBefore
<1>3. CASE nav.kind = "random"
  <2>1. nav.choice = first /\ first # 0
    BY <1>3 DEF StandsBefore
  <2>2. PICK c : c = IF n >= 2 \/ nav.choice # 0 THEN nav.choice
                     ELSE Candidate("random", n + count, nav.position, luck)
    OBVIOUS
  <2>3. r = [nav EXCEPT !.order = InOrder(n + count), !.choice = c]
    <3>1. (nav.kind = "sequential") = FALSE
      BY <1>3
    <3> QED BY <1>1, <1>3, <2>2, <3>1 DEF NavAppend
  <2>4. r.kind = nav.kind /\ r.choice = c
    BY <1>1, <2>3 DEF Navigator
  <2> QED BY <1>3, <2>1, <2>2, <2>4 DEF StandsBefore
<1>4. CASE nav.kind = "shuffled"
  <2>1. r = Whole(nav, count, luck)[count]
    BY <1>4, ShuffledAppend
  <2>2. nav.position = 0 /\ nav.pinned /\ nav.order[1] = first
    BY <1>4 DEF StandsBefore
  <2>3. r.kind = nav.kind /\ r.position = 0 /\ r.pinned /\ r.order[1] = nav.order[1]
    BY <1>1, <2>1, <2>2, WholePinned
  <2> QED BY <1>4, <2>2, <2>3 DEF StandsBefore
<1> QED BY <1>1, <1>2, <1>3, <1>4 DEF Navigator, Kinds

-----------------------------------------------------------------------------
(* How many entries are the head's *)

HeadRows(es) == {i \in 1..Len(es) : es[i].part = "Head"}
Heads(es) == Cardinality(HeadRows(es))

\* The head tracks of a list are a number of its entries.
LEMMA HeadsAre ==
  ASSUME NEW T, NEW es \in Seq(T)
  PROVE  /\ HeadRows(es) \subseteq 1..Len(es) /\ HeadRows(es) \in RowSets
         /\ Heads(es) \in 0..Len(es) /\ Len(es) \in Nat
         /\ Count(HeadRows(es), Len(es)) = Heads(es) /\ Count(HeadRows(es), 0) = 0
         /\ \A k \in Nat : Count(HeadRows(es), k) \in Nat
<1>1. PICK n, H : n = Len(es) /\ H = HeadRows(es)
  OBVIOUS
<1>2. n \in Nat /\ H \subseteq 1..n
  BY <1>1 DEF HeadRows
<1>3. H \in RowSets /\ Count(H, n) = Cardinality(H) /\ Cardinality(H) \in Nat
  BY <1>2, CountAll
<1>4. Count(H, n) \in 0..n
  BY <1>2, <1>3, CountBounds
<1>5. Count(H, 0) = 0 /\ \A k \in Nat : Count(H, k) \in Nat
  BY <1>3, CountNext
<1> QED BY <1>1, <1>2, <1>3, <1>4, <1>5 DEF Heads

\* A list without a head track has none.
LEMMA NoHeads ==
  ASSUME NEW es, \A i \in 1..Len(es) : es[i].part # "Head"
  PROVE  Heads(es) = 0
<1>1. HeadRows(es) = {}
  BY DEF HeadRows
<1> QED BY <1>1, FS_EmptySet DEF Heads

\* A list of head tracks has as many as it is long.
LEMMA AllHeads ==
  ASSUME NEW T, NEW es \in Seq(T), \A i \in 1..Len(es) : es[i].part = "Head"
  PROVE  Heads(es) = Len(es)
<1>1. HeadRows(es) = 1..Len(es) /\ Len(es) \in Nat
  BY DEF HeadRows
<1>2. Cardinality(1..Len(es)) = IF 1 > Len(es) THEN 0 ELSE Len(es) - 1 + 1
  BY <1>1, FS_Interval
<1> QED BY <1>1, <1>2 DEF Heads

\* Lists with the same parts have as many head tracks.
LEMMA AlikeHeads ==
  ASSUME NEW s, NEW u, Len(u) = Len(s), \A i \in 1..Len(s) : u[i].part = s[i].part
  PROVE  Heads(u) = Heads(s)
<1>1. HeadRows(u) = HeadRows(s)
  BY DEF HeadRows
<1> QED BY <1>1 DEF Heads

AlikeOver(s, u, j, k, d) ==
  /\ j <= k /\ k <= Len(s) /\ k + d <= Len(u)
  /\ \A i \in 1..Len(s) : j < i /\ i <= k => u[i + d].part = s[i].part

\* Where two sequences are alike, their heads are counted alike.
LEMMA HeadsGrow ==
  ASSUME NEW T, NEW s \in Seq(T), NEW u \in Seq(T), NEW j \in Nat, NEW k \in Nat, NEW d \in Nat,
         AlikeOver(s, u, j, k, d)
  PROVE  GrowAlike(HeadRows(s), HeadRows(u), j, k, d)
<1>1. PICK S, U : S = HeadRows(s) /\ U = HeadRows(u)
  OBVIOUS
<1>2. S \in RowSets /\ U \in RowSets
  BY <1>1, HeadsAre
<1>3. ASSUME NEW i \in Nat, j < i, i <= k PROVE i \in S <=> i + d \in U
  <2>1. i \in 1..Len(s) /\ i + d \in 1..Len(u)
    BY <1>3 DEF AlikeOver
  <2>2. u[i + d].part = s[i].part
    BY <1>3, <2>1 DEF AlikeOver
  <2> QED BY <1>1, <2>1, <2>2 DEF HeadRows
<1>4. j <= k
  BY DEF AlikeOver
<1>5. GrowAlike(S, U, j, k, d)
  BY <1>2, <1>3, <1>4, CountAlike
<1> QED BY <1>1, <1>5

\* Over a stretch without heads the count stands still.
LEMMA HeadsStand ==
  ASSUME NEW T, NEW s \in Seq(T), NEW j \in Nat, NEW k \in Nat, j <= k, k <= Len(s),
         \A i \in 1..Len(s) : j < i /\ i <= k => s[i].part # "Head"
  PROVE  Count(HeadRows(s), k) = Count(HeadRows(s), j)
<1>1. PICK S, E : S = HeadRows(s) /\ E = {}
  OBVIOUS
<1>2. S \in RowSets /\ E \in RowSets
  BY <1>1, HeadsAre DEF RowSets
<1>3. ASSUME NEW i \in Nat, j < i, i <= k PROVE i \in S <=> i + 0 \in E
  <2>1. i \in 1..Len(s)
    BY <1>3
  <2> QED BY <1>1, <1>3, <2>1 DEF HeadRows
<1>4. GrowAlike(S, E, j, k, 0)
  BY <1>2, <1>3, CountAlike
<1>5. Count(E, k + 0) = 0 /\ Count(E, j + 0) = 0
  <2>1. UpTo(E, k + 0) = {} /\ UpTo(E, j + 0) = {}
    BY <1>1 DEF UpTo
  <2> QED BY <2>1, FS_EmptySet DEF Count
<1>6. Count(S, k) \in Nat /\ Count(S, j) \in Nat
  BY <1>1, HeadsAre
<1> QED BY <1>1, <1>4, <1>5, <1>6 DEF GrowAlike

\* The entries of a stretch that gives way, none of them the head's, and those
\* that come for it.
LEMMA SplicedHeads ==
  ASSUME NEW T, NEW s \in Seq(T), NEW more \in Seq(T), NEW p \in 0..Len(s),
         NEW c \in (p + 1)..(Len(s) + 1), NEW u \in Seq(T), Spliced(s, p, more, c, u),
         \A i \in 1..Len(s) : p < i /\ i < c => s[i].part # "Head"
  PROVE  Heads(u) = Heads(s) + Heads(more)
<1>1. PICK m, l, e, z : m = Len(s) /\ l = Len(more) /\ e = c - 1 /\ z = Len(u)
  OBVIOUS
<1>2. /\ m \in Nat /\ l \in Nat /\ e \in Nat /\ p \in Nat /\ p <= e /\ e <= m
      /\ z = p + l + (m - e) /\ z \in Nat
  BY <1>1 DEF Spliced
<1>3. \A i \in 1..z :
        \/ i <= p /\ u[i] = s[i]
        \/ i > p /\ i <= p + l /\ u[i] = more[i - p]
        \/ i > p + l /\ u[i] = s[i - p - l + e]
  <2>1. \A i \in 1..z : i - p - l + c - 1 = i - p - l + e
    BY <1>1, <1>2
  <2> QED BY <1>1, <2>1 DEF Spliced
<1>4. AlikeOver(s, u, 0, p, 0)
  <2>1. ASSUME NEW i \in 1..m, i <= p PROVE u[i + 0].part = s[i].part
    <3>1. i \in 1..z /\ i + 0 = i /\ ~ (i > p) /\ ~ (i > p + l)
      BY <1>2, <2>1
    <3>2. u[i] = s[i]
      BY <1>3, <3>1
    <3> QED BY <3>1, <3>2
  <2> QED BY <1>1, <1>2, <2>1 DEF AlikeOver
<1>5. AlikeOver(more, u, 0, l, p)
  <2>1. ASSUME NEW i \in 1..l PROVE u[i + p].part = more[i].part
    <3>1. i + p \in 1..z /\ i + p > p /\ i + p <= p + l /\ (i + p) - p = i
      BY <1>2
    <3>2. i + p \in Nat /\ ~ (i + p <= p) /\ ~ (i + p > p + l)
      BY <1>2, <3>1
    <3>3. u[i + p] = more[i]
      BY <1>3, <3>1, <3>2
    <3> QED BY <3>3
  <2> QED BY <1>1, <1>2, <2>1 DEF AlikeOver
<1>6. /\ Count(HeadRows(u), p) = Count(HeadRows(s), p)
      /\ Count(HeadRows(u), p + l) - Count(HeadRows(u), p) = Heads(more)
  <2>1. GrowAlike(HeadRows(s), HeadRows(u), 0, p, 0)
    BY <1>2, <1>4, HeadsGrow
  <2>2. GrowAlike(HeadRows(more), HeadRows(u), 0, l, p)
    BY <1>2, <1>5, HeadsGrow
  <2>3. /\ Count(HeadRows(s), 0) = 0 /\ Count(HeadRows(u), 0) = 0 /\ Count(HeadRows(more), 0) = 0
        /\ Count(HeadRows(more), l) = Heads(more) /\ Heads(more) \in Nat
        /\ Count(HeadRows(s), p) \in Nat /\ Count(HeadRows(u), p) \in Nat
        /\ Count(HeadRows(u), p + l) \in Nat
    <3>1. p + l \in Nat
      BY <1>2
    <3> QED BY <1>1, <1>2, <3>1, HeadsAre
  <2>4. p + 0 = p /\ 0 + 0 = 0 /\ l + p = p + l /\ 0 + p = p
    BY <1>2
  <2> QED BY <2>1, <2>2, <2>3, <2>4 DEF GrowAlike
<1>7. Count(HeadRows(s), e) = Count(HeadRows(s), p)
  <2>1. \A i \in 1..Len(s) : p < i /\ i <= e => s[i].part # "Head"
    BY <1>1, <1>2, SMTT(30)
  <2> QED BY <1>1, <1>2, <2>1, HeadsStand
<1>8. Count(HeadRows(u), z) - Count(HeadRows(u), p + l)
        = Count(HeadRows(s), m) - Count(HeadRows(s), e)
  <2>1. CASE p + l >= e
    <3>1. PICK d \in Nat : d = (p + l) - e
      BY <1>2, <2>1
    <3>2. AlikeOver(s, u, e, m, d)
      <4>1. ASSUME NEW i \in 1..m, e < i PROVE u[i + d].part = s[i].part
        <5>1. i + d \in 1..z /\ i + d > p + l /\ (i + d) - p - l + e = i
          <6>1. i \in Nat /\ i >= 1 /\ i <= m /\ e < i
            BY <1>2, <4>1
          <6>2. /\ i + d = (i - e) + (p + l) /\ z = (m - e) + (p + l)
                /\ (i + d) - p - l + e = i /\ i + d \in Nat
            BY <1>2, <3>1, <6>1
          <6>3. PICK j \in Int, x \in Nat, y \in Nat :
                  j = i + d /\ x = i - e /\ y = p + l
            BY <1>2, <6>1, <6>2
          <6>4. x >= 1 /\ x <= m - e /\ j = x + y /\ z = (m - e) + y /\ y >= 0
            BY <1>2, <6>1, <6>2, <6>3
          <6>5. j >= 1 /\ j <= z /\ j > y
            BY <1>2, <6>3, <6>4
          <6>6. j \in 1..z
            BY <1>2, <6>3, <6>5
          <6> QED BY <6>2, <6>3, <6>5, <6>6
        <5> QED BY <1>2, <1>3, <5>1
      <4>2. e <= m /\ m + d <= z
        BY <1>2, <3>1
      <4> QED BY <1>1, <1>2, <4>1, <4>2 DEF AlikeOver
    <3>3. GrowAlike(HeadRows(s), HeadRows(u), e, m, d)
      BY <1>2, <3>2, HeadsGrow
    <3>4. m + d = z /\ e + d = p + l
      BY <1>2, <3>1
    <3> QED BY <3>3, <3>4 DEF GrowAlike
  <2>2. CASE p + l < e
    <3>1. PICK d \in Nat : d = e - (p + l)
      BY <1>2, <2>2
    <3>2. AlikeOver(u, s, p + l, z, d)
      <4>1. ASSUME NEW i \in 1..z, p + l < i PROVE s[i + d].part = u[i].part
        <5>1. i + d = i - p - l + e /\ ~ (i <= p) /\ ~ (i <= p + l)
          BY <1>2, <3>1, <4>1
        <5>2. u[i] = s[i - p - l + e]
          BY <1>2, <1>3, <5>1
        <5> QED BY <5>1, <5>2
      <4>2. p + l <= z /\ z + d <= m
        BY <1>2, <3>1
      <4> QED BY <1>1, <1>2, <4>1, <4>2 DEF AlikeOver
    <3>3. GrowAlike(HeadRows(u), HeadRows(s), p + l, z, d)
      <4>1. p + l \in Nat
        BY <1>2
      <4> QED BY <1>2, <3>2, <4>1, HeadsGrow
    <3>4. z + d = m /\ (p + l) + d = e
      BY <1>2, <3>1
    <3> QED BY <3>3, <3>4 DEF GrowAlike
  <2> QED BY <1>2, <2>1, <2>2
<1>9. /\ Count(HeadRows(s), m) = Heads(s) /\ Count(HeadRows(u), z) = Heads(u)
      /\ Heads(s) \in Nat /\ Heads(u) \in Nat /\ Heads(more) \in Nat
      /\ Count(HeadRows(s), p) \in Nat /\ Count(HeadRows(u), p + l) \in Nat
  <2>1. p + l \in Nat
    BY <1>2
  <2> QED BY <1>1, <1>2, <2>1, HeadsAre
<1>10. PICK sp \in Nat, upl \in Nat, hs \in Nat, hu \in Nat, hm \in Nat :
         /\ sp = Count(HeadRows(s), p) /\ upl = Count(HeadRows(u), p + l)
         /\ hs = Heads(s) /\ hu = Heads(u) /\ hm = Heads(more)
  BY <1>9
<1>11. upl - sp = hm /\ hu - upl = hs - sp
  BY <1>6, <1>7, <1>8, <1>9, <1>10
<1>12. hu = hs + hm
  BY <1>11
<1> QED BY <1>10, <1>12

\* Entries put into a list bring their head tracks along.
LEMMA InsertedHeads ==
  ASSUME NEW T, NEW s \in Seq(T), NEW more \in Seq(T), NEW at \in 1..(Len(s) + 1)
  PROVE  Heads(Inserted(s, at, more)) = Heads(s) + Heads(more)
<1>1. PICK u, p : u = Inserted(s, at, more) /\ p = at - 1
  OBVIOUS
<1>2. p \in 0..Len(s) /\ at \in (p + 1)..(Len(s) + 1) /\ p + 1 = at
  BY <1>1
<1>3. u = SubSeq(s, 1, p) \o more \o SubSeq(s, at, Len(s))
  BY <1>1 DEF Inserted
<1>4. u \in Seq(T) /\ Spliced(s, p, more, at, u)
  BY <1>2, <1>3, SplicedIs
<1>5. \A i \in 1..Len(s) : p < i /\ i < at => s[i].part # "Head"
  BY <1>2
<1>6. Heads(u) = Heads(s) + Heads(more)
  BY <1>2, <1>4, <1>5, SplicedHeads
<1> QED BY <1>1, <1>6

\* Joined is spliced at the end.
LEMMA JoinedHeads ==
  ASSUME NEW T, NEW s \in Seq(T), NEW t \in Seq(T)
  PROVE  Heads(s \o t) = Heads(s) + Heads(t)
<1>1. PICK u, n : u = s \o t /\ n = Len(s)
  OBVIOUS
<1>2. n \in 0..Len(s) /\ n + 1 \in (n + 1)..(Len(s) + 1)
  BY <1>1
<1>3. u \in Seq(T) /\ Joined(s, t, u)
  BY <1>1, JoinedIs
<1>4. Spliced(s, n, t, n + 1, u)
  <2>1. Len(u) = n + Len(t) /\ Len(t) \in Nat /\ n \in Nat
    BY <1>1, <1>3 DEF Joined
  <2>2. \A i \in 1..Len(u) :
          \/ i <= n /\ u[i] = s[i]
          \/ i > n /\ i <= n + Len(t) /\ u[i] = t[i - n]
    BY <1>1, <1>3, <2>1 DEF Joined
  <2> QED BY <1>1, <2>1, <2>2 DEF Spliced
<1>5. \A i \in 1..Len(s) : n < i /\ i < n + 1 => s[i].part # "Head"
  BY <1>1
<1>6. Heads(u) = Heads(s) + Heads(t)
  BY <1>2, <1>3, <1>4, <1>5, SplicedHeads
<1> QED BY <1>1, <1>6

\* Of what is picked, the heads are those that are picked.
LEMMA PickedHeads ==
  ASSUME NEW q, QueueOk(q), NEW kept, kept \subseteq Rows(q)
  PROVE  /\ Heads(EntriesAt(q, kept)) = Cardinality(kept \cap HeadRows(q.entries))
         /\ EntriesAt(q, kept) \in Seq(EntryType)
<1>1. PICK C, t : C = HeadRows(q.entries) /\ t = EntriesAt(q, kept)
  OBVIOUS
<1>2. q.entries \in Seq(EntryType) /\ kept \subseteq 1..Len(q.entries)
  BY SomeRows DEF QueueOk, Entries
<1>3. /\ t \in Seq(EntryType) /\ Len(t) = Cardinality(kept)
      /\ \A i \in kept : Count(kept, i) \in 1..Cardinality(kept) /\ t[Count(kept, i)] = q.entries[i]
  <2>1. PICK n : n = Cardinality(kept)
    OBVIOUS
  <2>2. /\ t \in Seq(EntryType) /\ Len(t) = n
        /\ \A i \in kept : Count(kept, i) \in 1..n /\ t[Count(kept, i)] = q.entries[i]
    BY <1>1, <2>1, EntriesAtIs
  <2> QED BY <2>1, <2>2
<1>4. PICK D : D = HeadRows(t)
  OBVIOUS
<1>5. \A i \in kept : i \in C <=> Count(kept, i) \in D
  BY <1>1, <1>2, <1>3, <1>4 DEF HeadRows
<1>6. PICK n \in Nat : n = Len(q.entries)
  BY <1>2
<1>7. kept \in RowSets /\ Count(kept, n) = Cardinality(kept)
  BY <1>2, <1>6, CountAll
<1>8. C \in RowSets /\ D \in RowSets
  BY <1>1, <1>2, <1>3, <1>4, HeadsAre
<1>9. Count(D, Count(kept, n)) = Count(kept \cap C, n)
  BY <1>5, <1>7, <1>8, CountKept
<1>10. kept \cap C \subseteq 1..n /\ Count(kept \cap C, n) = Cardinality(kept \cap C)
  BY <1>2, <1>6, CountAll
<1>11. Count(D, Len(t)) = Heads(t)
  BY <1>3, <1>4, HeadsAre
<1> QED BY <1>1, <1>3, <1>7, <1>9, <1>10, <1>11

\* A track of the head by its ordinal, and that each of them stays where it is.
HeadIs(es, k, t) == \E i \in HeadRows(es) : Count(HeadRows(es), i) = k /\ es[i].track = t
HeadStays(es, fs) == \A k, t : HeadIs(es, k, t) => HeadIs(fs, k, t)
HeadFree(es, j, k) == \A i \in 1..Len(es) : j < i /\ i < k => es[i].part # "Head"

\* An ordinal has one track, and is one of the head's.
LEMMA HeadTells ==
  ASSUME NEW T, NEW es \in Seq(T), NEW k, NEW t, HeadIs(es, k, t)
  PROVE  k \in 1..Heads(es) /\ \A u : HeadIs(es, k, u) => u = t
<1>1. PICK S : S = HeadRows(es)
  OBVIOUS
<1>2. PICK i \in S : Count(S, i) = k /\ es[i].track = t
  BY <1>1 DEF HeadIs
<1>3. /\ S \subseteq 1..Len(es) /\ S \in RowSets /\ Len(es) \in Nat
      /\ Count(S, Len(es)) = Heads(es)
  BY <1>1, HeadsAre
<1>4. k \in 1..Heads(es)
  <2>1. i \in Nat /\ i <= Len(es)
    BY <1>3
  <2>2. Count(S, i) \in Nat /\ Count(S, i) > 0 /\ Count(S, Len(es)) \in Nat
    BY <1>3, <2>1, CountBounds, CountNext
  <2>3. Count(S, i) <= Count(S, Len(es))
    BY <1>3, <2>1, CountGrows
  <2> QED BY <1>2, <1>3, <2>2, <2>3
<1>5. ASSUME NEW u, HeadIs(es, k, u) PROVE u = t
  <2>1. PICK j \in S : Count(S, j) = k /\ es[j].track = u
    BY <1>1, <1>5 DEF HeadIs
  <2>2. i = j
    BY <1>2, <1>3, <2>1, CountTells
  <2> QED BY <1>2, <2>1, <2>2
<1> QED BY <1>4, <1>5

\* Entries with the same parts and tracks.
LEMMA HeadAlike ==
  ASSUME NEW es, NEW fs, Len(fs) = Len(es),
         \A i \in 1..Len(es) : fs[i].part = es[i].part /\ fs[i].track = es[i].track
  PROVE  HeadStays(es, fs)
<1>1. HeadRows(fs) = HeadRows(es) /\ \A i \in HeadRows(es) : fs[i].track = es[i].track
  BY DEF HeadRows
<1> QED BY <1>1 DEF HeadStays, HeadIs

\* Up to any row, the head tracks that were picked.
LEMMA PickedCount ==
  ASSUME NEW x, QueueOk(x), NEW kept, kept \subseteq Rows(x), NEW C, C = HeadRows(x.entries),
         NEW D, D = HeadRows(EntriesAt(x, kept))
  PROVE  /\ \A j \in kept : j \in C <=> Count(kept, j) \in D
         /\ \A k \in Nat : Count(D, Count(kept, k)) = Count(kept \cap C, k)
         /\ \A j \in kept : EntriesAt(x, kept)[Count(kept, j)] = x.entries[j]
<1>1. PICK t : t = EntriesAt(x, kept)
  OBVIOUS
<1>2. x.entries \in Seq(EntryType) /\ kept \subseteq 1..Len(x.entries)
  BY SomeRows DEF QueueOk, Entries
<1>3. /\ t \in Seq(EntryType) /\ Len(t) = Cardinality(kept)
      /\ \A i \in kept : Count(kept, i) \in 1..Cardinality(kept) /\ t[Count(kept, i)] = x.entries[i]
  <2>1. PICK n : n = Cardinality(kept)
    OBVIOUS
  <2>2. /\ t \in Seq(EntryType) /\ Len(t) = n
        /\ \A i \in kept : Count(kept, i) \in 1..n /\ t[Count(kept, i)] = x.entries[i]
    BY <1>1, <2>1, EntriesAtIs
  <2> QED BY <2>1, <2>2
<1>4. \A i \in kept : i \in C <=> Count(kept, i) \in D
  BY <1>1, <1>2, <1>3 DEF HeadRows
<1>5. kept \in RowSets /\ C \in RowSets /\ D \in RowSets
  <2>1. kept \in RowSets
    BY <1>2 DEF RowSets
  <2> QED BY <1>1, <1>2, <1>3, <2>1, HeadsAre
<1>6. ASSUME NEW k \in Nat PROVE Count(D, Count(kept, k)) = Count(kept \cap C, k)
  BY <1>4, <1>5, CountKept
<1> QED BY <1>1, <1>3, <1>4, <1>6

\* Of what is picked, a head track's ordinal is how many were picked up to it.
LEMMA PickedTrack ==
  ASSUME NEW x, QueueOk(x), NEW kept, kept \subseteq Rows(x),
         NEW C, C = HeadRows(x.entries), NEW i \in kept, i \in C
  PROVE  HeadIs(EntriesAt(x, kept), Count(kept \cap C, i), x.entries[i].track)
<1>1. PICK fs, D, j, t : /\ fs = EntriesAt(x, kept) /\ D = HeadRows(fs) /\ j = Count(kept, i)
                         /\ t = x.entries[i].track
  OBVIOUS
<1>2. i \in Nat
  BY SomeRows
<1>3. /\ \A y \in kept : y \in C <=> Count(kept, y) \in D
      /\ \A k \in Nat : Count(D, Count(kept, k)) = Count(kept \cap C, k)
      /\ \A y \in kept : EntriesAt(x, kept)[Count(kept, y)] = x.entries[y]
  <2>1. D = HeadRows(EntriesAt(x, kept))
    BY <1>1
  <2> QED BY <2>1, PickedCount
<1>4. j \in D /\ Count(D, j) = Count(kept \cap C, i) /\ fs[j] = x.entries[i]
  BY <1>1, <1>2, <1>3
<1> QED BY <1>1, <1>4 DEF HeadIs

\* Where all of the head is picked, it stays.
LEMMA PickedStays ==
  ASSUME NEW x, QueueOk(x), NEW kept, kept \subseteq Rows(x), HeadRows(x.entries) \subseteq kept
  PROVE  HeadStays(x.entries, EntriesAt(x, kept))
<1>1. PICK C, es : C = HeadRows(x.entries) /\ es = x.entries
  OBVIOUS
<1>2. kept \cap C = C
  BY <1>1
<1>3. ASSUME NEW k, NEW t, HeadIs(es, k, t) PROVE HeadIs(EntriesAt(x, kept), k, t)
  <2>1. PICK i \in C : Count(C, i) = k /\ es[i].track = t
    BY <1>1, <1>3 DEF HeadIs
  <2>2. i \in kept
    BY <1>1
  <2>3. HeadIs(EntriesAt(x, kept), Count(kept \cap C, i), x.entries[i].track)
    BY <1>1, <2>2, PickedTrack
  <2> QED BY <1>1, <1>2, <2>1, <2>3
<1> QED BY <1>1, <1>3 DEF HeadStays

\* So it does when entries come and go, none of them the head's, or when those
\* that come are behind it.
LEMMA SplicedStays ==
  ASSUME NEW T, NEW s \in Seq(T), NEW more \in Seq(T), NEW p \in 0..Len(s),
         NEW c \in (p + 1)..(Len(s) + 1), NEW u \in Seq(T), Spliced(s, p, more, c, u),
         HeadFree(s, p, c), HeadFree(more, 0, Len(more) + 1) \/ HeadFree(s, c - 1, Len(s) + 1)
  PROVE  HeadStays(s, u)
<1>1. PICK m, l, e, z : m = Len(s) /\ l = Len(more) /\ e = c - 1 /\ z = Len(u)
  OBVIOUS
<1>2. /\ m \in Nat /\ l \in Nat /\ e \in Nat /\ p \in Nat /\ p <= e /\ e <= m
      /\ z = p + l + (m - e) /\ z \in Nat
  <2>1. m \in Nat /\ l \in Nat /\ z \in Nat
    BY <1>1
  <2>2. p \in Nat /\ p <= m
    BY <1>1, <2>1
  <2>3. c \in (p + 1)..(m + 1)
    BY <1>1
  <2>4. e \in Nat /\ p <= e /\ e <= m /\ c = e + 1
    BY <1>1, <2>1, <2>2, <2>3
  <2>5. z = p + l + m - (c - 1)
    BY <1>1 DEF Spliced
  <2> QED BY <2>1, <2>2, <2>4, <2>5
<1>3. \A i \in 1..z :
        \/ i <= p /\ u[i] = s[i]
        \/ i > p /\ i <= p + l /\ u[i] = more[i - p]
        \/ i > p + l /\ u[i] = s[i - p - l + e]
  <2>1. \A i \in 1..z : i - p - l + c - 1 = i - p - l + e
    BY <1>1, <1>2
  <2> QED BY <1>1, <2>1 DEF Spliced
<1>4. PICK S, U : S = HeadRows(s) /\ U = HeadRows(u)
  OBVIOUS
<1>5. /\ S \subseteq 1..m /\ \A k \in Nat : Count(S, k) \in Nat /\ Count(U, k) \in Nat
      /\ Count(S, 0) = 0 /\ Count(U, 0) = 0
  BY <1>1, <1>4, HeadsAre
<1>6. ASSUME NEW i \in S, i <= p PROVE i \in U /\ u[i] = s[i] /\ Count(U, i) = Count(S, i)
  <2>1. i \in 1..z /\ i \in Nat /\ i <= m
    BY <1>2, <1>5, <1>6
  <2>2. u[i] = s[i]
    BY <1>2, <1>3, <1>6, <2>1
  <2>3. i \in U
    BY <1>1, <1>4, <2>1, <2>2 DEF HeadRows
  <2>4. AlikeOver(s, u, 0, i, 0)
    <3>1. ASSUME NEW j \in 1..m, j <= i PROVE u[j + 0].part = s[j].part
      <4>1. j \in 1..z /\ j <= p /\ j + 0 = j
        BY <1>2, <1>6, <2>1, <3>1
      <4> QED BY <1>2, <1>3, <4>1
    <3> QED BY <1>1, <1>2, <2>1, <3>1 DEF AlikeOver
  <2>5. GrowAlike(S, U, 0, i, 0)
    BY <1>4, <2>1, <2>4, HeadsGrow
  <2>6. i + 0 = i /\ Count(S, i) \in Nat /\ Count(U, i) \in Nat
    BY <1>5, <2>1
  <2> QED BY <1>5, <2>2, <2>3, <2>5, <2>6 DEF GrowAlike
<1>7. Count(U, p) = Count(S, p) /\ Count(S, e) = Count(S, p)
  <2>1. AlikeOver(s, u, 0, p, 0)
    <3>1. ASSUME NEW j \in 1..m, j <= p PROVE u[j + 0].part = s[j].part
      <4>1. j \in 1..z /\ j + 0 = j
        BY <1>2, <3>1
      <4> QED BY <1>2, <1>3, <3>1, <4>1
    <3> QED BY <1>1, <1>2, <3>1 DEF AlikeOver
  <2>2. GrowAlike(S, U, 0, p, 0)
    BY <1>2, <1>4, <2>1, HeadsGrow
  <2>3. Count(U, p) = Count(S, p)
    BY <1>2, <1>5, <2>2 DEF GrowAlike
  <2>4. \A i \in 1..Len(s) : p < i /\ i <= e => s[i].part # "Head"
    BY <1>1, <1>2 DEF HeadFree
  <2>5. Count(S, e) = Count(S, p)
    BY <1>1, <1>2, <1>4, <2>4, HeadsStand
  <2> QED BY <2>3, <2>5
<1>8. ASSUME NEW i \in S, i > e, HeadFree(more, 0, l + 1), NEW k, k = i - e + (p + l)
      PROVE  k \in U /\ u[k] = s[i] /\ Count(U, k) = Count(S, i)
  <2>1. i \in Nat /\ i <= m /\ k \in Nat /\ k > p + l /\ k <= z /\ k \in 1..z /\ k - p - l + e = i
    <3>1. i \in Nat /\ i <= m
      BY <1>5
    <3>2. PICK d \in Nat, y \in Nat, f \in Int : d = i - e /\ y = p + l /\ f = m - e
      BY <1>2, <1>8, <3>1
    <3>3. d >= 1 /\ d <= f /\ k = d + y /\ z = f + y
      BY <1>2, <1>8, <3>1, <3>2
    <3>4. k \in Nat /\ k > y /\ k <= z /\ k \in 1..z
      BY <3>3
    <3>5. k - p - l + e = i
      BY <1>2, <3>1, <3>2, <3>3
    <3> QED BY <3>1, <3>2, <3>4, <3>5
  <2>2. u[k] = s[i]
    <3>1. ~ (k <= p) /\ ~ (k <= p + l)
      BY <1>2, <2>1
    <3>2. u[k] = s[k - p - l + e]
      BY <1>3, <2>1, <3>1
    <3> QED BY <2>1, <3>2
  <2>3. k \in U
    BY <1>1, <1>4, <2>1, <2>2 DEF HeadRows
  <2>4. Count(U, p + l) = Count(U, p)
    <3>1. ASSUME NEW j \in 1..Len(u), p < j, j <= p + l PROVE u[j].part # "Head"
      <4>1. j \in 1..z /\ ~ (j <= p) /\ ~ (j > p + l)
        BY <1>1, <1>2, <3>1
      <4>2. u[j] = more[j - p]
        BY <1>3, <4>1
      <4>3. j - p \in 1..l /\ 0 < j - p /\ j - p < l + 1
        BY <1>2, <3>1
      <4> QED BY <1>1, <1>8, <4>2, <4>3 DEF HeadFree
    <3>2. p <= p + l /\ p + l <= Len(u) /\ p + l \in Nat
      BY <1>1, <1>2
    <3> QED BY <1>2, <1>4, <3>1, <3>2, HeadsStand
  <2>5. Count(U, k) - Count(U, p + l) = Count(S, i) - Count(S, e)
    <3>1. CASE p + l >= e
      <4>1. PICK d \in Nat : d = (p + l) - e
        BY <1>2, <3>1
      <4>2. e + d = p + l /\ i + d = k
        BY <1>2, <1>8, <2>1, <4>1
      <4>3. AlikeOver(s, u, e, i, d)
        <5>1. ASSUME NEW j \in 1..m, e < j, j <= i PROVE u[j + d].part = s[j].part
          <6>1. j + d > p + l /\ j + d <= z /\ j + d \in 1..z /\ (j + d) - p - l + e = j
            <7>1. PICK y \in Nat, w \in Nat : y = p + l /\ w = j - e
              BY <1>2, <5>1
            <7>2. w >= 1 /\ w <= m - e /\ j + d = w + y /\ z = (m - e) + y
              BY <1>2, <4>1, <5>1, <7>1
            <7>3. j + d > y /\ j + d <= z /\ j + d \in 1..z
              BY <1>2, <4>1, <7>1, <7>2
            <7>4. (j + d) - p - l + e = j
              BY <1>2, <5>1, <7>1, <7>2
            <7> QED BY <7>1, <7>3, <7>4
          <6>2. ~ (j + d <= p) /\ ~ (j + d <= p + l)
            BY <1>2, <4>1, <5>1, <6>1
          <6>3. u[j + d] = s[(j + d) - p - l + e]
            BY <1>3, <6>1, <6>2
          <6> QED BY <6>1, <6>3
        <5>2. e <= i /\ i <= m /\ i + d <= Len(u)
          <6>1. i + d <= z
            BY <2>1, <4>2
          <6>2. e <= i
            BY <1>2, <1>8, <2>1
          <6> QED BY <1>1, <2>1, <6>1, <6>2
        <5> QED BY <1>1, <5>1, <5>2 DEF AlikeOver
      <4>4. GrowAlike(S, U, e, i, d)
        BY <1>2, <1>4, <2>1, <4>3, HeadsGrow
      <4>5. Count(S, i) - Count(S, e) = Count(U, k) - Count(U, p + l)
        BY <4>2, <4>4 DEF GrowAlike
      <4> QED BY <4>5
    <3>2. CASE p + l < e
      <4>1. PICK d \in Nat : d = e - (p + l)
        BY <1>2, <3>2
      <4>2. (p + l) + d = e /\ k + d = i
        BY <1>2, <1>8, <2>1, <4>1
      <4>3. AlikeOver(u, s, p + l, k, d)
        <5>1. ASSUME NEW j \in 1..z, p + l < j, j <= k PROVE s[j + d].part = u[j].part
          <6>1. j + d = j - p - l + e /\ ~ (j <= p) /\ ~ (j <= p + l)
            BY <1>2, <4>1, <5>1
          <6>2. u[j] = s[j - p - l + e]
            BY <1>2, <1>3, <6>1
          <6> QED BY <6>1, <6>2
        <5>2. p + l <= k /\ k <= z /\ k + d <= m
          BY <1>2, <2>1, <4>2
        <5> QED BY <1>1, <5>1, <5>2 DEF AlikeOver
      <4>4. GrowAlike(U, S, p + l, k, d)
        <5>1. p + l \in Nat
          BY <1>2
        <5> QED BY <1>4, <2>1, <4>1, <4>3, <5>1, HeadsGrow
      <4> QED BY <4>2, <4>4 DEF GrowAlike
    <3> QED BY <1>2, <3>1, <3>2
  <2>6. /\ Count(U, k) \in Nat /\ Count(U, p + l) \in Nat /\ Count(S, i) \in Nat
        /\ Count(S, e) \in Nat /\ Count(U, p) \in Nat
    <3>1. p + l \in Nat
      BY <1>2
    <3> QED BY <1>2, <1>5, <2>1, <3>1
  <2>7. Count(U, k) = Count(S, i)
    BY <1>7, <2>4, <2>5, <2>6
  <2> QED BY <2>2, <2>3, <2>7
<1>9. ASSUME NEW k, NEW t, HeadIs(s, k, t) PROVE HeadIs(u, k, t)
  <2>1. PICK i \in S : Count(S, i) = k /\ s[i].track = t
    BY <1>4, <1>9 DEF HeadIs
  <2>2. i \in Nat /\ i \in 1..Len(s) /\ s[i].part = "Head"
    BY <1>1, <1>4, <1>5 DEF HeadRows
  <2>3. CASE i <= p
    BY <1>4, <1>6, <2>1, <2>3 DEF HeadIs
  <2>4. CASE i > p
    <3>1. i > e
      <4>1. ~ (i < c)
        BY <2>2, <2>4 DEF HeadFree
      <4> QED BY <1>1, <1>2, <2>2, <4>1
    <3>2. HeadFree(more, 0, l + 1)
      <4>1. ASSUME HeadFree(s, c - 1, Len(s) + 1) PROVE FALSE
        <5>1. c - 1 < i /\ i < Len(s) + 1
          BY <1>1, <1>2, <2>2, <3>1
        <5> QED BY <2>2, <4>1, <5>1 DEF HeadFree
      <4> QED BY <1>1, <4>1
    <3>3. PICK j : j = i - e + (p + l)
      OBVIOUS
    <3>4. j \in U /\ u[j] = s[i] /\ Count(U, j) = Count(S, i)
      BY <1>8, <3>1, <3>2, <3>3
    <3> QED BY <1>4, <2>1, <3>4 DEF HeadIs
  <2> QED BY <1>2, <2>2, <2>3, <2>4
<1> QED BY <1>9 DEF HeadStays

\* A list without a head track is free of them.
LEMMA NoneFree ==
  ASSUME NEW T, NEW es \in Seq(T), Heads(es) = 0
  PROVE  HeadFree(es, 0, Len(es) + 1)
<1>1. PICK n, H : n = Len(es) /\ H = HeadRows(es) /\ n \in Nat
  BY HeadsAre
<1>2. H \subseteq 1..n
  BY <1>1, HeadsAre
<1>3. IsFiniteSet(H) /\ Cardinality(H) = 0
  BY <1>1, <1>2, CountAll DEF Heads
<1>4. H = {}
  BY <1>3, FS_EmptySet
<1> QED BY <1>1, <1>4 DEF HeadRows, HeadFree

\* What comes behind the rest leaves the head where it is.
LEMMA JoinedStays ==
  ASSUME NEW T, NEW s \in Seq(T), NEW t \in Seq(T)
  PROVE  HeadStays(s, s \o t)
<1>1. PICK u, n : u = s \o t /\ n = Len(s)
  OBVIOUS
<1>2. n \in 0..Len(s) /\ n + 1 \in (n + 1)..(Len(s) + 1)
  BY <1>1
<1>3. u \in Seq(T) /\ Joined(s, t, u)
  BY <1>1, JoinedIs
<1>4. Spliced(s, n, t, n + 1, u)
  <2>1. Len(u) = n + Len(t) /\ Len(t) \in Nat /\ n \in Nat
    BY <1>1, <1>3 DEF Joined
  <2>2. \A i \in 1..Len(u) :
          \/ i <= n /\ u[i] = s[i]
          \/ i > n /\ i <= n + Len(t) /\ u[i] = t[i - n]
    BY <1>1, <1>3, <2>1 DEF Joined
  <2> QED BY <1>1, <2>1, <2>2 DEF Spliced
<1>5. HeadFree(s, n, n + 1) /\ HeadFree(s, (n + 1) - 1, Len(s) + 1)
  BY <1>1 DEF HeadFree
<1>6. HeadStays(s, u)
  BY <1>2, <1>3, <1>4, <1>5, SplicedStays
<1> QED BY <1>1, <1>6

\* Entries put into a list, none of them the head's or all behind it.
LEMMA InsertedStays ==
  ASSUME NEW T, NEW s \in Seq(T), NEW more \in Seq(T), NEW at \in 1..(Len(s) + 1),
         HeadFree(more, 0, Len(more) + 1) \/ HeadFree(s, at - 1, Len(s) + 1)
  PROVE  HeadStays(s, Inserted(s, at, more))
<1>1. PICK u, p : u = Inserted(s, at, more) /\ p = at - 1
  OBVIOUS
<1>2. p \in 0..Len(s) /\ at \in (p + 1)..(Len(s) + 1)
  BY <1>1
<1>3. u = SubSeq(s, 1, p) \o more \o SubSeq(s, at, Len(s))
  BY <1>1 DEF Inserted
<1>4. u \in Seq(T) /\ Spliced(s, p, more, at, u)
  BY <1>2, <1>3, SplicedIs
<1>5. HeadFree(s, p, at)
  BY <1>1 DEF HeadFree
<1>6. HeadStays(s, u)
  BY <1>2, <1>4, <1>5, SplicedStays
<1> QED BY <1>1, <1>6

-----------------------------------------------------------------------------
(* The navigator and the queue's marks *)

HeadSize(r) == Heads(r.entries)
KindOf(r) == IF ShuffleActive(r) THEN r.algorithm ELSE "sequential"
\* The marks, but for a start track that may be gone.
MarksNear(r) ==
  /\ r.headMark \in 0..HeadSize(r) /\ r.contMark \in Nat /\ r.headStart \in Nat
  /\ r.algorithm \in {"random", "shuffled"}
MarksFine(r) ==
  MarksNear(r) /\ r.headStart <= (IF HeadSize(r) = 0 THEN 1 ELSE HeadSize(r))
NavFine(r) == MarksFine(r) /\ NavOk(r.nav, HeadSize(r), r.headMark) /\ r.nav.kind = KindOf(r)
Lucky(r) == Draws(r.luck, HeadSize(r))

\* The head's size is what countOf() counts.
LEMMA HeadSizeIs ==
  ASSUME NEW q, QueueOk(q)
  PROVE  /\ HeadSize(q) = CountOf(q, "Head") /\ HeadSize(q) \in Nat
         /\ RowsOf(q, "Head") = HeadRows(q.entries) /\ HeadSize(q) <= Len(q.entries)
<1>1. RowsOf(q, "Head") = HeadRows(q.entries)
  BY DEF RowsOf, Rows, HeadRows
<1>2. q.entries \in Seq(EntryType)
  BY DEF QueueOk, Entries
<1> QED BY <1>1, <1>2, HeadsAre DEF HeadSize, CountOf, Heads

\* What the navigator and the marks are read from.
NavAlike(q, r) ==
  /\ r.headMark = q.headMark /\ r.headStart = q.headStart /\ r.contMark = q.contMark
  /\ r.algorithm = q.algorithm /\ r.own = q.own /\ r.shuffle = q.shuffle /\ r.nav = q.nav
  /\ r.luck = q.luck
  /\ HeadSize(r) = HeadSize(q)

\* What changes neither marks, modes nor the head leaves the navigator right.
LEMMA NavSame ==
  ASSUME NEW q, NEW r, NavAlike(q, r)
  PROVE  (NavFine(q) => NavFine(r)) /\ (Lucky(q) => Lucky(r)) /\ (MarksFine(q) => MarksFine(r))
         /\ (MarksNear(q) => MarksNear(r))
BY DEF NavAlike, NavFine, MarksFine, MarksNear, KindOf, ShuffleActive, Lucky

\* The modes choose one of the three orders.
LEMMA KindIs ==
  ASSUME NEW q, MarksFine(q)
  PROVE  KindOf(q) \in Kinds
BY DEF MarksFine, MarksNear, KindOf, Kinds

\* resetNavigator() puts the navigator on the mark, or before the start track.
LEMMA ResetNavigatorNav ==
  ASSUME NEW q, QueueOk(q), MarksFine(q), Lucky(q), NEW r, r = ResetNavigator(q)
  PROVE  NavFine(r) /\ HeadSize(r) = HeadSize(q) /\ r.luck = q.luck
<1>1. PICK n \in Nat : n = HeadSize(q) /\ n = CountOf(q, "Head")
  BY HeadSizeIs
<1>2. PICK nav : nav = IF q.headMark = 0 /\ q.headStart > 0
                         THEN NavResetBefore(KindOf(q), n, q.headStart, q.luck)
                         ELSE NavReset(KindOf(q), n, q.headMark, q.luck)
  OBVIOUS
<1>3. r = [q EXCEPT !.nav = nav]
  BY <1>1, <1>2, Zenon DEF ResetNavigator, KindOf
<1>4. KindOf(q) \in Kinds
  BY KindIs
<1>5. Draws(q.luck, n)
  BY <1>1 DEF Lucky
<1>6. NavOk(nav, n, q.headMark) /\ nav.kind = KindOf(q)
  <2>1. CASE q.headMark = 0 /\ q.headStart > 0
    <3>1. PICK first \in Nat : first = q.headStart
      BY DEF MarksFine, MarksNear
    <3>2. first > 0 /\ (n > 0 => first <= n) /\ (n = 0 => first = 1)
      BY <1>1, <2>1, <3>1 DEF MarksFine, MarksNear
    <3>3. nav = NavResetBefore(KindOf(q), n, first, q.luck)
      BY <1>2, <2>1, <3>1
    <3>4. NavOk(nav, n, 0) /\ nav.kind = KindOf(q)
      BY <1>4, <1>5, <3>2, <3>3, NavResetBeforeIs
    <3> QED BY <2>1, <3>4
  <2>2. CASE ~ (q.headMark = 0 /\ q.headStart > 0)
    <3>1. nav = NavReset(KindOf(q), n, q.headMark, q.luck) /\ q.headMark \in 0..n
      BY <1>1, <1>2, <2>2 DEF MarksFine, MarksNear
    <3> QED BY <1>4, <1>5, <3>1, NavResetIs
  <2> QED BY <2>1, <2>2
<1>7. /\ r.nav = nav /\ r.entries = q.entries /\ r.headMark = q.headMark
      /\ r.headStart = q.headStart /\ r.contMark = q.contMark /\ r.algorithm = q.algorithm
      /\ r.own = q.own /\ r.shuffle = q.shuffle /\ r.luck = q.luck
  BY <1>3 DEF QueueOk, QueueFields
<1>8. KindOf(r) = KindOf(q)
  BY <1>7 DEF KindOf, ShuffleActive
<1> QED BY <1>1, <1>6, <1>7, <1>8 DEF NavFine, MarksFine, MarksNear, HeadSize

\* markCurrent() moves the navigator along with the mark.
LEMMA MarkCurrentNav ==
  ASSUME NEW q, QueueOk(q), MarksNear(q), Lucky(q), NEW r, r = MarkCurrent(q)
  PROVE  /\ MarksNear(r) /\ (MarksFine(q) => MarksFine(r))
         /\ HeadSize(r) = HeadSize(q) /\ r.luck = q.luck
         /\ r.own = q.own /\ r.shuffle = q.shuffle
         /\ NavFine(q) => NavFine(r)
<1>1. CASE ~ HasCurrent(q)
  BY <1>1 DEF MarkCurrent
<1>2. CASE HasCurrent(q) /\ Current(q).part = "Head"
  <2>1. PICK ordinal : ordinal = OrdinalOf(q, q.playing)
    OBVIOUS
  <2>2. q.playing \in RowsOf(q, "Head")
    BY <1>2 DEF HasCurrent, Current, RowsOf
  <2>3. PICK n \in Nat : n = HeadSize(q) /\ n = CountOf(q, "Head")
    BY HeadSizeIs
  <2>4. ordinal \in 1..n
    BY <2>1, <2>2, <2>3, OrdinalTells
  <2>5. PICK nav : nav = NavSelect(q.nav, ordinal, q.luck)
    OBVIOUS
  <2>6. r = [q EXCEPT !.inHead = TRUE, !.headMark = ordinal, !.headStart = 0, !.nav = nav]
    BY <1>2, <2>1, <2>5 DEF MarkCurrent
  <2>7. /\ r.nav = nav /\ r.entries = q.entries /\ r.headMark = ordinal
        /\ r.headStart = 0 /\ r.contMark = q.contMark /\ r.algorithm = q.algorithm
        /\ r.own = q.own /\ r.shuffle = q.shuffle /\ r.luck = q.luck
    BY <2>6 DEF QueueOk, QueueFields
  <2>8. HeadSize(r) = n
    BY <2>3, <2>7 DEF HeadSize
  <2>9. MarksFine(r)
    BY <2>4, <2>7, <2>8 DEF MarksFine, MarksNear
  <2>10. ASSUME NavFine(q) PROVE NavFine(r)
    <3>1. q.nav \in Navigator /\ Covers(q.nav.order, n)
          /\ (q.nav.kind # "shuffled" => q.nav.order = InOrder(n)) /\ q.nav.kind = KindOf(q)
      BY <2>3, <2>10 DEF NavFine, NavOk
    <3>2. Draws(q.luck, n) /\ ordinal \in 0..n
      BY <2>3, <2>4 DEF Lucky
    <3>3. NavOk(nav, n, ordinal) /\ nav.kind = q.nav.kind
      BY <2>5, <3>1, <3>2, NavSelectIs
    <3>4. KindOf(r) = KindOf(q)
      BY <2>7 DEF KindOf, ShuffleActive
    <3> QED BY <2>7, <2>8, <2>9, <3>1, <3>3, <3>4 DEF NavFine
  <2>11. MarksNear(r)
    BY <2>9 DEF MarksFine
  <2> QED BY <2>3, <2>7, <2>8, <2>9, <2>10, <2>11
<1>3. CASE HasCurrent(q) /\ Current(q).part = "Continuation"
  <2>1. PICK ordinal : ordinal = OrdinalOf(q, q.playing)
    OBVIOUS
  <2>2. q.playing \in RowsOf(q, "Continuation")
    BY <1>3 DEF HasCurrent, Current, RowsOf
  <2>3. ordinal \in Nat
    <3>1. ordinal \in 1..CountOf(q, "Continuation")
      BY <2>1, <2>2, OrdinalTells
    <3> QED BY <3>1
  <2>4. r = [q EXCEPT !.inHead = FALSE, !.contMark = ordinal]
    BY <1>3, <2>1 DEF MarkCurrent
  <2>5. /\ r.nav = q.nav /\ r.entries = q.entries /\ r.headMark = q.headMark
        /\ r.headStart = q.headStart /\ r.contMark = ordinal /\ r.algorithm = q.algorithm
        /\ r.own = q.own /\ r.shuffle = q.shuffle /\ r.luck = q.luck
    BY <2>4 DEF QueueOk, QueueFields
  <2>6. KindOf(r) = KindOf(q) /\ HeadSize(r) = HeadSize(q)
    BY <2>5 DEF KindOf, ShuffleActive, HeadSize
  <2> QED BY <2>3, <2>5, <2>6 DEF NavFine, MarksFine, MarksNear
<1>4. CASE HasCurrent(q) /\ Current(q).part = "Item"
  <2>1. r = [q EXCEPT !.entries[q.playing].pending = FALSE]
    BY <1>4 DEF MarkCurrent
  <2>2. /\ r.nav = q.nav /\ r.headMark = q.headMark
        /\ r.headStart = q.headStart /\ r.contMark = q.contMark /\ r.algorithm = q.algorithm
        /\ r.own = q.own /\ r.shuffle = q.shuffle /\ r.luck = q.luck
    BY <2>1 DEF QueueOk, QueueFields
  <2>3. Len(r.entries) = Len(q.entries) /\ \A i \in Rows(q) : r.entries[i].part = q.entries[i].part
    BY MarkCurrentIs DEF Marks
  <2>4. HeadSize(r) = HeadSize(q)
    BY <2>3, AlikeHeads DEF HeadSize, Rows
  <2> QED BY <2>2, <2>4, NavSame DEF NavAlike
<1>5. CASE HasCurrent(q) /\ Current(q).part = "Other"
  BY <1>5 DEF MarkCurrent
<1>6. HasCurrent(q) => Current(q).part \in {"Head", "Continuation", "Item", "Other"}
  BY SomeRows DEF EntryType, Parts
<1> QED BY <1>1, <1>2, <1>3, <1>4, <1>5, <1>6

\* How many rows of a part go that a mark has behind it.
GoneOf(q, rows, part, mark) ==
  Cardinality({i \in rows \cap RowsOf(q, part) : OrdinalOf(q, i) <= mark})

\* No more rows go than there are, and behind a mark no more than it counts.
LEMMA GoneIs ==
  ASSUME NEW q, QueueOk(q), NEW part, NEW rows, rows \subseteq Rows(q), NEW mark \in Nat
  PROVE  /\ GoneOf(q, rows, part, mark) \in 0..mark
         /\ mark <= CountOf(q, part) =>
              mark - GoneOf(q, rows, part, mark)
                <= Cardinality((Rows(q) \ rows) \cap RowsOf(q, part))
         /\ rows \cap RowsOf(q, part) = {} => GoneOf(q, rows, part, mark) = 0
<1>1. PICK R, G, K : R = RowsOf(q, part) /\ G = rows \cap R /\ K = (Rows(q) \ rows) \cap R
  OBVIOUS
<1>2. PICK n \in Nat : n = Len(q.entries) /\ Rows(q) = 1..n
  BY SomeRows
<1>3. R \subseteq 1..n /\ G \subseteq 1..n /\ K \subseteq 1..n /\ R = K \cup G /\ K \cap G = {}
  BY <1>1, <1>2 DEF RowsOf
<1>4. /\ R \in RowSets /\ G \in RowSets /\ K \in RowSets
      /\ Cardinality(R) \in Nat /\ Cardinality(G) \in Nat /\ Cardinality(K) \in Nat
      /\ Count(R, n) = Cardinality(R) /\ Count(G, n) = Cardinality(G)
      /\ Count(K, n) = Cardinality(K)
      /\ \A k \in 0..n : Count(K, k) \in 0..Cardinality(K)
  BY <1>3, CountAll
<1>5. \A i \in R : OrdinalOf(q, i) = Count(R, i)
  <2>1. ASSUME NEW i \in R PROVE OrdinalOf(q, i) = Count(R, i)
    <3>1. q.entries[i].part = part
      BY <1>1 DEF RowsOf
    <3>2. {j \in RowsOf(q, part) : j <= i} = UpTo(R, i)
      BY <1>1 DEF UpTo
    <3> QED BY <3>1, <3>2 DEF OrdinalOf, Count
  <2> QED BY <2>1
<1>6. PICK U : U = {i \in G : Count(R, i) <= mark}
  OBVIOUS
<1>7. GoneOf(q, rows, part, mark) = Cardinality(U)
  <2>1. {i \in rows \cap RowsOf(q, part) : OrdinalOf(q, i) <= mark} = U
    BY <1>1, <1>3, <1>5, <1>6
  <2> QED BY <2>1 DEF GoneOf
<1>8. CASE mark = 0
  <2>1. \A i \in R : Count(R, i) > 0 /\ Count(R, i) \in Nat
    <3>1. ASSUME NEW i \in R PROVE Count(R, i) > 0 /\ Count(R, i) \in Nat
      <4>1. i \in Nat
        BY <1>3
      <4> QED BY <1>4, <4>1, CountBounds
    <3> QED BY <3>1
  <2>2. U = {}
    <3>1. ASSUME NEW i \in U PROVE FALSE
      <4>1. i \in R /\ Count(R, i) <= 0
        BY <1>3, <1>6, <1>8
      <4> QED BY <2>1, <4>1
    <3> QED BY <3>1
  <2>3. Cardinality(U) = 0
    BY <2>2, FS_EmptySet
  <2> QED BY <1>1, <1>4, <1>7, <1>8, <2>3
<1>9. CASE mark > 0 /\ mark <= Cardinality(R)
  <2>1. PICK x \in R : Count(R, x) = mark
    <3>1. mark \in 1..Cardinality(R)
      BY <1>4, <1>9
    <3>2. R \subseteq 1..n /\ n \in Nat
      BY <1>2, <1>3
    <3> QED BY <3>1, <3>2, CountHits
  <2>2. x \in Nat /\ x \in 0..n
    BY <1>3, <2>1
  <2>3. U = UpTo(G, x)
    <3>1. ASSUME NEW i \in G PROVE Count(R, i) <= mark <=> i <= x
      <4>1. i \in R
        BY <1>3
      <4> QED BY <1>4, <2>1, <2>2, <4>1, CountOrder
    <3> QED BY <1>6, <3>1 DEF UpTo
  <2>4. Cardinality(U) = Count(G, x)
    BY <2>3 DEF Count
  <2>5. Count(K, x) + Count(G, x) = mark
    <3>1. Count(K, x) + Count(G, x) = Count(R, x)
      <4>1. K \in RowSets /\ G \in RowSets /\ R = K \cup G /\ K \cap G = {}
        BY <1>3, <1>4
      <4>2. R \in RowSets /\ x \in Nat
        BY <1>4, <2>2
      <4> QED BY <4>1, <4>2, CountParts
    <3> QED BY <2>1, <3>1
  <2>6. Count(K, x) \in 0..Cardinality(K) /\ Count(G, x) \in Nat
    BY <1>4, <2>2, CountNext
  <2>7. G = {} => Count(G, x) = 0
    <3>1. G = {} => UpTo(G, x) = {}
      BY DEF UpTo
    <3> QED BY <3>1, FS_EmptySet DEF Count
  <2> QED BY <1>1, <1>4, <1>7, <2>4, <2>5, <2>6, <2>7
<1>10. CASE mark > Cardinality(R)
  <2>1. IsFiniteSet(R) /\ U \subseteq R /\ U \subseteq G
    <3>1. IsFiniteSet(1..n)
      BY FS_Interval
    <3> QED BY <1>3, <1>6, <3>1, FS_Subset
  <2>2. Cardinality(U) <= Cardinality(R) /\ Cardinality(U) \in Nat
    BY <2>1, FS_Subset, FS_CardinalityType
  <2>3. G = {} => Cardinality(U) = 0
    BY <2>1, FS_EmptySet
  <2>4. CountOf(q, part) = Cardinality(R)
    BY <1>1 DEF CountOf
  <2> QED BY <1>1, <1>4, <1>7, <1>10, <2>2, <2>3, <2>4
<1>11. mark = 0 \/ (mark > 0 /\ mark <= Cardinality(R)) \/ mark > Cardinality(R)
  BY <1>4
<1> QED BY <1>8, <1>9, <1>10, <1>11

\* Taking rows away lowers the marks by those that stood before them.
LEMMA WithoutNav ==
  ASSUME NEW q, QueueOk(q), MarksFine(q), NEW rows, rows \subseteq Rows(q),
         NEW r, r = WithoutRows(q, rows, EntriesAt(q, Rows(q) \ rows))
  PROVE  /\ MarksNear(r) /\ r.luck = q.luck /\ HeadSize(r) <= HeadSize(q) /\ HeadSize(r) \in Nat
         /\ KindOf(r) = KindOf(q)
         /\ r.headStart <= HeadSize(r) + 1
         /\ rows \cap RowsOf(q, "Head") = {} =>
              /\ HeadSize(r) = HeadSize(q) /\ r.nav = q.nav /\ r.headMark = q.headMark
              /\ r.headStart = q.headStart
<1>1. PICK K, R, n : K = Rows(q) \ rows /\ R = RowsOf(q, "Head") /\ n = HeadSize(q)
  OBVIOUS
<1>2. n \in Nat /\ n = CountOf(q, "Head") /\ R = HeadRows(q.entries) /\ Cardinality(R) = n
  BY <1>1, HeadSizeIs DEF CountOf
<1>3. /\ r.entries = EntriesAt(q, K) /\ r.nav = q.nav /\ r.luck = q.luck
      /\ r.algorithm = q.algorithm /\ r.own = q.own /\ r.shuffle = q.shuffle
      /\ r.headMark = MarkAfter(q, rows, "Head", q.headMark)
      /\ r.contMark = MarkAfter(q, rows, "Continuation", q.contMark)
      /\ r.headStart = StartAfter(q, rows)
  BY <1>1 DEF WithoutRows, QueueOk, QueueFields
<1>4. HeadSize(r) = Cardinality(K \cap R)
  BY <1>1, <1>2, <1>3, PickedHeads DEF HeadSize
<1>5. K \cap R \subseteq R /\ IsFiniteSet(R)
  <2>1. PICK m \in Nat : m = Len(q.entries) /\ Rows(q) = 1..m
    BY SomeRows
  <2>2. R \subseteq 1..m /\ IsFiniteSet(1..m)
    BY <1>1, <2>1, FS_Interval DEF RowsOf
  <2> QED BY <2>2, FS_Subset
<1>6. Cardinality(K \cap R) \in Nat /\ Cardinality(K \cap R) <= n
  BY <1>2, <1>5, FS_Subset, FS_CardinalityType
<1>7. r.headMark = q.headMark - GoneOf(q, rows, "Head", q.headMark)
      /\ r.contMark = q.contMark - GoneOf(q, rows, "Continuation", q.contMark)
  BY <1>3 DEF MarkAfter, GoneOf
<1>8. q.headMark \in Nat /\ q.headMark <= n /\ q.contMark \in Nat /\ q.headStart \in Nat
      /\ q.headStart <= (IF n = 0 THEN 1 ELSE n)
  BY <1>1, <1>2 DEF MarksFine, MarksNear
<1>9. /\ r.headMark \in 0..Cardinality(K \cap R)
      /\ R \cap rows = {} => r.headMark = q.headMark
  BY <1>1, <1>2, <1>6, <1>7, <1>8, GoneIs
<1>10. r.contMark \in Nat
  <2>1. PICK mark \in Nat : mark = q.contMark
    BY <1>8
  <2>2. GoneOf(q, rows, "Continuation", mark) \in 0..mark
    BY <2>1, GoneIs
  <2> QED BY <1>7, <2>1, <2>2
<1>11. /\ r.headStart \in Nat /\ r.headStart <= Cardinality(K \cap R) + 1
       /\ R \cap rows = {} => r.headStart = q.headStart
  <2>1. r.headStart = q.headStart
          - Cardinality({i \in rows \cap RowsOf(q, "Head") : OrdinalOf(q, i) < q.headStart})
    BY <1>3 DEF StartAfter
  <2>2. \A i \in rows \cap RowsOf(q, "Head") : OrdinalOf(q, i) \in Nat \ {0}
    <3>1. ASSUME NEW i \in rows \cap RowsOf(q, "Head") PROVE OrdinalOf(q, i) \in Nat \ {0}
      <4>1. OrdinalOf(q, i) \in 1..CountOf(q, "Head")
        BY OrdinalTells
      <4> QED BY <4>1
    <3> QED BY <3>1
  <2>3. CASE q.headStart = 0
    <3>1. {i \in rows \cap RowsOf(q, "Head") : OrdinalOf(q, i) < q.headStart} = {}
      BY <2>2, <2>3
    <3>2. r.headStart = 0
      BY <2>1, <2>3, <3>1, FS_EmptySet
    <3> QED BY <1>6, <2>3, <3>2
  <2>4. CASE q.headStart > 0
    <3>1. PICK mark \in Nat : mark = q.headStart - 1
      BY <1>8, <2>4
    <3>2. mark <= n
      BY <1>2, <1>8, <2>4, <3>1
    <3>3. {i \in rows \cap RowsOf(q, "Head") : OrdinalOf(q, i) < q.headStart}
            = {i \in rows \cap RowsOf(q, "Head") : OrdinalOf(q, i) <= mark}
      BY <1>8, <2>2, <3>1
    <3>4. r.headStart = (mark + 1) - GoneOf(q, rows, "Head", mark)
      <4>1. r.headStart = q.headStart - GoneOf(q, rows, "Head", mark)
        BY <2>1, <3>3 DEF GoneOf
      <4>2. q.headStart = mark + 1
        BY <1>8, <3>1
      <4> QED BY <4>1, <4>2
    <3>5. /\ GoneOf(q, rows, "Head", mark) \in 0..mark
          /\ mark - GoneOf(q, rows, "Head", mark) <= Cardinality(K \cap R)
          /\ R \cap rows = {} => GoneOf(q, rows, "Head", mark) = 0
      BY <1>1, <1>2, <3>2, GoneIs
    <3> QED BY <1>6, <1>8, <3>1, <3>4, <3>5
  <2> QED BY <1>8, <2>3, <2>4
<1>12. R \cap rows = {} => Cardinality(K \cap R) = n
  <2>1. R \cap rows = {} => K \cap R = R
    BY <1>1 DEF RowsOf
  <2> QED BY <1>2, <2>1
<1>13. KindOf(r) = KindOf(q)
  BY <1>3 DEF KindOf, ShuffleActive
<1>14. MarksNear(r)
  BY <1>3, <1>4, <1>9, <1>10, <1>11 DEF MarksNear, MarksFine
<1> QED BY <1>1, <1>3, <1>4, <1>6, <1>9, <1>11, <1>12, <1>13, <1>14

\* A start track beyond the head is forgotten.
LEMMA KnownStartNav ==
  ASSUME NEW q, QueueOk(q), MarksNear(q), q.headStart <= HeadSize(q) + 1,
         NEW r, r = KnownStart(q)
  PROVE  /\ MarksFine(r) /\ HeadSize(r) = HeadSize(q) /\ r.luck = q.luck
         /\ NavFine(q) => NavFine(r)
<1>1. PICK n \in Nat : n = HeadSize(q) /\ n = CountOf(q, "Head")
  BY HeadSizeIs
<1>2. PICK start : start = IF q.headStart > n THEN 0 ELSE q.headStart
  OBVIOUS
<1>3. r = [q EXCEPT !.headStart = start]
  BY <1>1, <1>2 DEF KnownStart
<1>4. /\ r.nav = q.nav /\ r.entries = q.entries /\ r.headMark = q.headMark
      /\ r.headStart = start /\ r.contMark = q.contMark /\ r.algorithm = q.algorithm
      /\ r.own = q.own /\ r.shuffle = q.shuffle /\ r.luck = q.luck
  BY <1>3 DEF QueueOk, QueueFields
<1>5. start \in Nat /\ start <= n
  BY <1>1, <1>2 DEF MarksNear
<1>6. HeadSize(r) = n /\ KindOf(r) = KindOf(q)
  BY <1>1, <1>4 DEF HeadSize, KindOf, ShuffleActive
<1>7. MarksFine(r)
  BY <1>1, <1>4, <1>5, <1>6 DEF MarksFine, MarksNear
<1> QED BY <1>1, <1>4, <1>6, <1>7 DEF NavFine

\* The marking moves the start to none, or leaves it.
LEMMA MarkedStart ==
  ASSUME NEW q, QueueOk(q), NEW r, r = MarkCurrent(q)
  PROVE  r.headStart = q.headStart \/ r.headStart = 0
<1>1. CASE ~ HasCurrent(q)
  BY <1>1 DEF MarkCurrent
<1>2. CASE HasCurrent(q)
  <2>1. Current(q).part \in {"Head", "Continuation", "Item", "Other"}
    BY <1>2, SomeRows DEF EntryType, Parts
  <2>2. CASE Current(q).part = "Head"
    <3>1. PICK ordinal, nav : /\ ordinal = OrdinalOf(q, q.playing)
                              /\ nav = NavSelect(q.nav, ordinal, q.luck)
      OBVIOUS
    <3>2. r = [q EXCEPT !.inHead = TRUE, !.headMark = ordinal, !.headStart = 0, !.nav = nav]
      BY <1>2, <2>2, <3>1 DEF MarkCurrent
    <3> QED BY <3>2 DEF QueueOk, QueueFields
  <2>3. CASE Current(q).part = "Continuation"
    <3>1. PICK ordinal : ordinal = OrdinalOf(q, q.playing)
      OBVIOUS
    <3>2. r = [q EXCEPT !.inHead = FALSE, !.contMark = ordinal]
      BY <1>2, <2>3, <3>1 DEF MarkCurrent
    <3> QED BY <3>2 DEF QueueOk, QueueFields
  <2>4. CASE Current(q).part = "Item"
    <3>1. r = [q EXCEPT !.entries[q.playing].pending = FALSE]
      BY <1>2, <2>4 DEF MarkCurrent
    <3> QED BY <3>1 DEF QueueOk, QueueFields
  <2>5. CASE Current(q).part = "Other"
    BY <1>2, <2>5 DEF MarkCurrent
  <2> QED BY <2>1, <2>2, <2>3, <2>4, <2>5
<1> QED BY <1>1, <1>2

\* The start track, which is one until a head track plays; then the navigator
\* stands before it.
StartIs(x, t) == HeadIs(x.entries, x.headStart, t)
StartOpen(x) == x.headStart > 0 => x.headMark = 0
StartReady(x) ==
  StartOpen(x) /\ (x.headStart > 0 /\ HeadSize(x) > 0 => StandsBefore(x.nav, x.headStart))

\* It stays the same one, unless a head track plays.
Started(x, t) == x.headMark > 0 \/ StartIs(x, t)
StartStays(x, r) == \A t : Started(x, t) => Started(r, t)
StartHolds(x, r) == StartReady(x) => StartStays(x, r) /\ StartReady(r)

\* What changes neither marks nor the head.
LEMMA StartSame ==
  ASSUME NEW x, NEW r, r.headMark = x.headMark, r.headStart = x.headStart, r.nav = x.nav,
         HeadSize(r) = HeadSize(x), HeadStays(x.entries, r.entries)
  PROVE  StartStays(x, r) /\ (StartReady(x) => StartReady(r))
<1>1. StartStays(x, r)
  BY DEF StartStays, Started, StartIs, HeadStays
<1>2. StartReady(x) => StartReady(r)
  BY DEF StartReady, StartOpen
<1> QED BY <1>1, <1>2

\* The head of the same entries stays.
LEMMA SameStays ==
  ASSUME NEW es
  PROVE  HeadStays(es, es)
BY DEF HeadStays

\* The marking of a head track ends the start, any other leaves it.
LEMMA MarkCurrentStart ==
  ASSUME NEW x, QueueOk(x), NEW r, r = MarkCurrent(x)
  PROVE  /\ StartStays(x, r) /\ (StartReady(x) => StartReady(r)) /\ (StartOpen(x) => StartOpen(r))
<1>1. CASE HasCurrent(x) /\ Current(x).part = "Head"
  <2>1. PICK ordinal, nav : /\ ordinal = OrdinalOf(x, x.playing)
                            /\ nav = NavSelect(x.nav, ordinal, x.luck)
    OBVIOUS
  <2>2. r = [x EXCEPT !.inHead = TRUE, !.headMark = ordinal, !.headStart = 0, !.nav = nav]
    BY <1>1, <2>1 DEF MarkCurrent
  <2>3. r.headMark = ordinal /\ r.headStart = 0
    BY <2>2 DEF QueueOk, QueueFields
  <2>4. ordinal > 0
    <3>1. x.playing \in RowsOf(x, "Head")
      BY <1>1 DEF HasCurrent, Current, RowsOf
    <3>2. ordinal \in 1..CountOf(x, "Head")
      BY <2>1, <3>1, OrdinalTells
    <3> QED BY <3>2
  <2>5. StartOpen(r) /\ StartReady(r)
    BY <2>3 DEF StartOpen, StartReady
  <2> QED BY <2>3, <2>4, <2>5 DEF StartStays, Started
<1>2. CASE ~ (HasCurrent(x) /\ Current(x).part = "Head")
  <2>1. Len(r.entries) = Len(x.entries)
        /\ \A i \in Rows(x) : /\ r.entries[i].track = x.entries[i].track
                              /\ r.entries[i].part = x.entries[i].part
    BY MarkCurrentIs DEF Marks
  <2>2. HeadStays(x.entries, r.entries) /\ HeadSize(r) = HeadSize(x)
    BY <2>1, HeadAlike, AlikeHeads DEF Rows, HeadSize
  <2>3. r.headMark = x.headMark /\ r.headStart = x.headStart /\ r.nav = x.nav
    <3>1. CASE ~ HasCurrent(x)
      BY <3>1 DEF MarkCurrent
    <3>2. CASE HasCurrent(x) /\ Current(x).part = "Continuation"
      <4>1. PICK ordinal : ordinal = OrdinalOf(x, x.playing)
        OBVIOUS
      <4>2. r = [x EXCEPT !.inHead = FALSE, !.contMark = ordinal]
        BY <3>2, <4>1 DEF MarkCurrent
      <4> QED BY <4>2 DEF QueueOk, QueueFields
    <3>3. CASE HasCurrent(x) /\ Current(x).part = "Item"
      <4>1. r = [x EXCEPT !.entries[x.playing].pending = FALSE]
        BY <3>3 DEF MarkCurrent
      <4> QED BY <4>1 DEF QueueOk, QueueFields
    <3>4. CASE HasCurrent(x) /\ Current(x).part = "Other"
      BY <3>4 DEF MarkCurrent
    <3>5. HasCurrent(x) => Current(x).part \in {"Head", "Continuation", "Item", "Other"}
      BY SomeRows DEF EntryType, Parts
    <3> QED BY <1>2, <3>1, <3>2, <3>3, <3>4, <3>5
  <2> QED BY <2>2, <2>3, StartSame DEF StartOpen
<1> QED BY <1>1, <1>2

\* Which of the rows that go stand before the start.
LEMMA StartAfterIs ==
  ASSUME NEW x, QueueOk(x), NEW rows, rows \subseteq Rows(x), NEW C, C = HeadRows(x.entries),
         NEW i \in C, Count(C, i) = x.headStart, i \notin rows
  PROVE  StartAfter(x, rows) = Count((Rows(x) \ rows) \cap C, i)
<1>1. PICK n \in Nat : n = Len(x.entries) /\ Rows(x) = 1..n
  BY SomeRows
<1>2. PICK G, K : G = rows \cap C /\ K = (Rows(x) \ rows) \cap C
  OBVIOUS
<1>3. C = RowsOf(x, "Head") /\ C \subseteq 1..n
  BY <1>1, HeadSizeIs DEF RowsOf
<1>4. C \in RowSets /\ G \in RowSets /\ K \in RowSets /\ C = K \cup G /\ K \cap G = {}
  BY <1>1, <1>2, <1>3 DEF RowSets
<1>5. i \in Nat /\ i \notin G
  BY <1>2, <1>3
<1>6. \A j \in C : OrdinalOf(x, j) = Count(C, j)
  <2>1. ASSUME NEW j \in C PROVE OrdinalOf(x, j) = Count(C, j)
    <3>1. x.entries[j].part = "Head"
      BY <1>3 DEF RowsOf
    <3>2. {m \in C : m <= j} = UpTo(C, j)
      BY DEF UpTo
    <3> QED BY <1>3, <3>1, <3>2 DEF OrdinalOf, Count
  <2> QED BY <2>1
<1>7. \A j \in G : Count(C, j) < Count(C, i) <=> j <= i
  <2>1. ASSUME NEW j \in G PROVE Count(C, j) < Count(C, i) <=> j <= i
    <3>1. j \in C /\ j \in Nat /\ j # i
      BY <1>2, <1>3, <1>5
    <3>2. Count(C, j) <= Count(C, i) <=> j <= i
      BY <1>4, <1>5, <3>1, CountOrder
    <3>3. Count(C, j) # Count(C, i)
      BY <1>4, <3>1, CountTells
    <3>4. Count(C, j) \in Nat /\ Count(C, i) \in Nat
      BY <1>4, <1>5, <3>1, CountNext
    <3> QED BY <3>2, <3>3, <3>4
  <2> QED BY <2>1
<1>8. {j \in G : OrdinalOf(x, j) < x.headStart} = UpTo(G, i)
  <2>1. \A j \in G : OrdinalOf(x, j) < x.headStart <=> j <= i
    BY <1>2, <1>6, <1>7
  <2> QED BY <2>1 DEF UpTo
<1>9. StartAfter(x, rows) = x.headStart - Count(G, i)
  BY <1>2, <1>3, <1>8 DEF StartAfter, Count
<1>10. Count(K, i) + Count(G, i) = Count(C, i)
  BY <1>4, <1>5, CountParts
<1>11. Count(K, i) \in Nat /\ Count(G, i) \in Nat /\ Count(C, i) \in Nat
  BY <1>4, <1>5, CountNext
<1>12. StartAfter(x, rows) = Count(K, i)
  BY <1>9, <1>10, <1>11
<1> QED BY <1>2, <1>12

\* Rows that go lower the start, at most to none.
LEMMA StartLower ==
  ASSUME NEW x, QueueOk(x), MarksFine(x), StartOpen(x), NEW rows, rows \subseteq Rows(x),
         NEW r, r = WithoutRows(x, rows, EntriesAt(x, Rows(x) \ rows))
  PROVE  /\ StartOpen(r) /\ (x.headMark = 0 => r.headMark = 0)
<1>1. /\ r.headMark = MarkAfter(x, rows, "Head", x.headMark)
      /\ r.headStart = StartAfter(x, rows)
  BY DEF WithoutRows, QueueOk, QueueFields
<1>2. x.headMark \in Nat /\ x.headStart \in Nat
  BY HeadSizeIs DEF MarksFine, MarksNear
<1>3. x.headMark = 0 => r.headMark = 0
  <2>1. ASSUME x.headMark = 0 PROVE r.headMark = 0
    <3>1. r.headMark = x.headMark - GoneOf(x, rows, "Head", x.headMark)
      BY <1>1 DEF MarkAfter, GoneOf
    <3>2. GoneOf(x, rows, "Head", x.headMark) \in 0..x.headMark
      BY <1>2, GoneIs
    <3> QED BY <2>1, <3>1, <3>2
  <2> QED BY <2>1
<1>4. x.headStart = 0 => r.headStart = 0
  <2>1. ASSUME x.headStart = 0 PROVE r.headStart = 0
    <3>1. ASSUME NEW i \in rows \cap RowsOf(x, "Head") PROVE ~ (OrdinalOf(x, i) < x.headStart)
      <4>1. OrdinalOf(x, i) \in 1..CountOf(x, "Head")
        BY OrdinalTells
      <4> QED BY <2>1, <4>1
    <3>2. {i \in rows \cap RowsOf(x, "Head") : OrdinalOf(x, i) < x.headStart} = {}
      BY <3>1
    <3>3. r.headStart = x.headStart - 0
      BY <1>1, <3>2, FS_EmptySet DEF StartAfter
    <3> QED BY <2>1, <3>3
  <2> QED BY <2>1
<1>5. StartOpen(r)
  BY <1>2, <1>3, <1>4 DEF StartOpen
<1> QED BY <1>3, <1>5

\* The start track is the same one, where it stays itself.
LEMMA StartOnward ==
  ASSUME NEW x, QueueOk(x), NEW rows, rows \subseteq Rows(x),
         NEW r, r = WithoutRows(x, rows, EntriesAt(x, Rows(x) \ rows)),
         NEW C, C = HeadRows(x.entries), NEW i \in C, Count(C, i) = x.headStart, i \notin rows
  PROVE  StartIs(r, x.entries[i].track)
<1>1. PICK kept : kept = Rows(x) \ rows
  OBVIOUS
<1>2. r.entries = EntriesAt(x, kept) /\ r.headStart = StartAfter(x, rows)
  BY <1>1 DEF WithoutRows, QueueOk, QueueFields
<1>3. kept \subseteq Rows(x) /\ i \in kept
  BY <1>1 DEF HeadRows, Rows
<1>4. r.headStart = Count(kept \cap C, i)
  BY <1>1, <1>2, StartAfterIs
<1>5. HeadIs(EntriesAt(x, kept), Count(kept \cap C, i), x.entries[i].track)
  BY <1>3, PickedTrack
<1> QED BY <1>2, <1>4, <1>5 DEF StartIs

\* A start track there is stays known.
LEMMA KnownStartStart ==
  ASSUME NEW x, QueueOk(x), x.headStart \in Nat, NEW r, r = KnownStart(x)
  PROVE  StartStays(x, r) /\ (StartReady(x) => StartReady(r)) /\ (StartOpen(x) => StartOpen(r))
<1>1. PICK n \in Nat : n = HeadSize(x) /\ n = CountOf(x, "Head")
  BY HeadSizeIs
<1>2. PICK start : start = IF x.headStart > n THEN 0 ELSE x.headStart
  OBVIOUS
<1>3. r = [x EXCEPT !.headStart = start]
  BY <1>1, <1>2 DEF KnownStart
<1>4. r.nav = x.nav /\ r.entries = x.entries /\ r.headMark = x.headMark /\ r.headStart = start
  BY <1>3 DEF QueueOk, QueueFields
<1>5. start = x.headStart \/ start = 0
  BY <1>2
<1>6. HeadSize(r) = HeadSize(x)
  BY <1>4 DEF HeadSize
<1>7. StartStays(x, r)
  <2>1. ASSUME NEW t, StartIs(x, t) PROVE StartIs(r, t)
    <3>1. x.entries \in Seq(EntryType)
      BY DEF QueueOk, Entries
    <3>2. x.headStart \in 1..Heads(x.entries)
      BY <2>1, <3>1, HeadTells DEF StartIs
    <3>3. start = x.headStart
      BY <1>1, <1>2, <3>2 DEF HeadSize
    <3> QED BY <1>4, <2>1, <3>3 DEF StartIs
  <2> QED BY <1>4, <2>1 DEF StartStays, Started
<1> QED BY <1>4, <1>5, <1>6, <1>7 DEF StartReady, StartOpen

\* resetNavigator() puts the navigator before it.
LEMMA ResetNavigatorStart ==
  ASSUME NEW x, QueueOk(x), MarksFine(x), Lucky(x), StartOpen(x), NEW r, r = ResetNavigator(x)
  PROVE  StartStays(x, r) /\ StartReady(r)
<1>1. PICK n \in Nat : n = HeadSize(x) /\ n = CountOf(x, "Head")
  BY HeadSizeIs
<1>2. PICK nav : nav = IF x.headMark = 0 /\ x.headStart > 0
                         THEN NavResetBefore(KindOf(x), n, x.headStart, x.luck)
                         ELSE NavReset(KindOf(x), n, x.headMark, x.luck)
  OBVIOUS
<1>3. r = [x EXCEPT !.nav = nav]
  BY <1>1, <1>2, Zenon DEF ResetNavigator, KindOf
<1>4. /\ r.nav = nav /\ r.entries = x.entries /\ r.headMark = x.headMark
      /\ r.headStart = x.headStart
  BY <1>3 DEF QueueOk, QueueFields
<1>5. StartStays(x, r)
  BY <1>4 DEF StartStays, Started, StartIs
<1>6. StartOpen(r) /\ HeadSize(r) = n
  BY <1>1, <1>4 DEF StartOpen, HeadSize
<1>7. ASSUME x.headStart > 0, n > 0 PROVE StandsBefore(nav, x.headStart)
  <2>1. PICK first \in 1..n : first = x.headStart
    BY <1>1, <1>7 DEF MarksFine, MarksNear
  <2>2. x.headMark = 0
    BY <1>7 DEF StartOpen
  <2>3. nav = NavResetBefore(KindOf(x), n, first, x.luck)
    BY <1>2, <1>7, <2>1, <2>2
  <2>4. KindOf(x) \in Kinds /\ Draws(x.luck, n)
    BY <1>1, KindIs DEF Lucky
  <2>5. StandsBefore(nav, first)
    BY <2>3, <2>4, ResetBeforeStands
  <2> QED BY <2>1, <2>5
<1> QED BY <1>4, <1>5, <1>6, <1>7 DEF StartReady

\* The steps of remove(), before the navigator is drawn anew.
Removal(q, rows, m, n, k) ==
  /\ m = WithoutRows(q, rows, EntriesAt(q, Rows(q) \ rows)) /\ QueueOk(m) /\ MarksNear(m)
  /\ n = When(q.playing \in rows, MarkCurrent(m), m) /\ QueueOk(n) /\ MarksNear(n)
  /\ k = KnownStart(n) /\ QueueOk(k) /\ MarksFine(k) /\ Lucky(k) /\ k.luck = q.luck
  /\ HeadSize(k) = HeadSize(m) /\ HeadSize(n) = HeadSize(m) /\ HeadSize(m) <= HeadSize(q)
  /\ NavFine(m) => NavFine(k)
  /\ rows \cap RowsOf(q, "Head") = {} =>
       /\ HeadSize(m) = HeadSize(q) /\ m.nav = q.nav /\ m.headMark = q.headMark
       /\ m.headStart = q.headStart /\ KindOf(m) = KindOf(q)

LEMMA RemovalIs ==
  ASSUME NEW q, QueueOk(q), MarksFine(q), Lucky(q), NEW given, NEW rows, rows = given \cap Rows(q)
  PROVE  \E m, n, k :
           /\ Removal(q, rows, m, n, k)
           /\ RemoveRows(q, given)
                = When(rows \cap RowsOf(q, "Head") # {}, ResetNavigator(k), k)
<1>1. PICK kept : kept = Rows(q) \ rows
  OBVIOUS
<1>2. rows \subseteq Rows(q)
  OBVIOUS
<1>3. PICK m : m = WithoutRows(q, rows, EntriesAt(q, kept))
  OBVIOUS
<1>4. QueueOk(m)
  BY <1>1, <1>2, <1>3, WithoutIs
<1>5. /\ MarksNear(m) /\ m.luck = q.luck /\ HeadSize(m) <= HeadSize(q) /\ HeadSize(m) \in Nat
      /\ KindOf(m) = KindOf(q) /\ m.headStart <= HeadSize(m) + 1
      /\ rows \cap RowsOf(q, "Head") = {} =>
           /\ HeadSize(m) = HeadSize(q) /\ m.nav = q.nav /\ m.headMark = q.headMark
           /\ m.headStart = q.headStart
  BY <1>1, <1>2, <1>3, WithoutNav
<1>6. Lucky(m)
  <2>1. PICK a \in Nat, b \in Nat : a = HeadSize(q) /\ b = HeadSize(m)
    BY <1>5, HeadSizeIs
  <2>2. Draws(q.luck, a) /\ b \in 0..a
    BY <1>5, <2>1 DEF Lucky
  <2>3. Draws(q.luck, b)
    BY <2>1, <2>2, DrawsFewer
  <2> QED BY <1>5, <2>1, <2>3 DEF Lucky
<1>7. PICK n : n = When(q.playing \in rows, MarkCurrent(m), m)
  OBVIOUS
<1>8. /\ QueueOk(n) /\ MarksNear(n) /\ (NavFine(m) => NavFine(n))
      /\ HeadSize(n) = HeadSize(m) /\ n.luck = m.luck /\ n.headStart <= HeadSize(n) + 1
  <2>1. CASE q.playing \in rows
    <3>1. n = MarkCurrent(m)
      BY <1>7, <2>1 DEF When
    <3>2. QueueOk(n)
      BY <1>4, <3>1, MarkCurrentIs DEF Marks
    <3>3. /\ MarksNear(n) /\ (NavFine(m) => NavFine(n))
          /\ HeadSize(n) = HeadSize(m) /\ n.luck = m.luck
      BY <1>4, <1>5, <1>6, <3>1, MarkCurrentNav
    <3>4. n.headStart = m.headStart \/ n.headStart = 0
      BY <1>4, <3>1, MarkedStart
    <3> QED BY <1>5, <3>2, <3>3, <3>4
  <2>2. CASE q.playing \notin rows
    <3>1. n = m
      BY <1>7, <2>2 DEF When
    <3> QED BY <1>4, <1>5, <3>1
  <2> QED BY <2>1, <2>2
<1>9. PICK k : k = KnownStart(n)
  OBVIOUS
<1>10. QueueOk(k)
  BY <1>8, <1>9, KnownStartIs, SameRowsOk
<1>11. MarksFine(k) /\ HeadSize(k) = HeadSize(n) /\ k.luck = n.luck /\ (NavFine(n) => NavFine(k))
  BY <1>8, <1>9, KnownStartNav
<1>12. Lucky(k)
  BY <1>6, <1>8, <1>11 DEF Lucky
<1>13. RemoveRows(q, given) = When(rows \cap RowsOf(q, "Head") # {}, ResetNavigator(k), k)
  BY <1>1, <1>3, <1>7, <1>9 DEF RemoveRows
<1>14. Removal(q, rows, m, n, k)
  BY <1>1, <1>3, <1>4, <1>5, <1>7, <1>8, <1>9, <1>10, <1>11, <1>12 DEF Removal
<1> QED BY <1>13, <1>14

\* The head's tracks go with the marks, and what remains is drawn anew.
LEMMA RemoveRowsNav ==
  ASSUME NEW q, QueueOk(q), NavFine(q), Lucky(q), NEW given, NEW r, r = RemoveRows(q, given)
  PROVE  NavFine(r) /\ HeadSize(r) <= HeadSize(q) /\ r.luck = q.luck
<1>1. PICK rows : rows = given \cap Rows(q)
  OBVIOUS
<1>2. PICK m, n, k : /\ Removal(q, rows, m, n, k)
                     /\ r = When(rows \cap RowsOf(q, "Head") # {}, ResetNavigator(k), k)
  BY <1>1, RemovalIs DEF NavFine
<1>3. CASE rows \cap RowsOf(q, "Head") # {}
  <2>1. r = ResetNavigator(k)
    BY <1>2, <1>3 DEF When
  <2>2. NavFine(r) /\ HeadSize(r) = HeadSize(k) /\ r.luck = k.luck
    BY <1>2, <2>1, ResetNavigatorNav DEF Removal
  <2> QED BY <1>2, <2>2 DEF Removal
<1>4. CASE rows \cap RowsOf(q, "Head") = {}
  <2>1. r = k
    BY <1>2, <1>4 DEF When
  <2>2. NavFine(m)
    BY <1>2, <1>4 DEF Removal, NavFine, MarksFine
  <2> QED BY <1>2, <2>1, <2>2 DEF Removal
<1> QED BY <1>3, <1>4

\* remove() leaves the start the same track unless that goes itself.
LEMMA RemoveRowsStart ==
  ASSUME NEW x, QueueOk(x), NavFine(x), Lucky(x), StartReady(x), NEW given,
         NEW r, r = RemoveRows(x, given), NEW C, C = HeadRows(x.entries)
  PROVE  /\ StartReady(r)
         /\ \A i \in C : Count(C, i) = x.headStart /\ i \notin given
                           => Started(r, x.entries[i].track)
         /\ given \cap C = {} => StartStays(x, r)
<1>1. PICK rows : rows = given \cap Rows(x)
  OBVIOUS
<1>2. PICK m, n, k : /\ Removal(x, rows, m, n, k)
                     /\ r = When(rows \cap RowsOf(x, "Head") # {}, ResetNavigator(k), k)
  BY <1>1, RemovalIs DEF NavFine
<1>3. MarksFine(x) /\ StartOpen(x) /\ rows \subseteq Rows(x) /\ C = RowsOf(x, "Head")
  BY <1>1, HeadSizeIs DEF NavFine, StartReady
<1>4. m = WithoutRows(x, rows, EntriesAt(x, Rows(x) \ rows)) /\ QueueOk(m) /\ MarksNear(m)
  BY <1>2 DEF Removal
<1>5. StartOpen(m)
  BY <1>3, <1>4, StartLower
<1>6. StartStays(m, n) /\ (StartReady(m) => StartReady(n)) /\ StartOpen(n)
  <2>1. CASE x.playing \in rows
    <3>1. n = MarkCurrent(m)
      BY <1>2, <2>1 DEF Removal, When
    <3> QED BY <1>4, <1>5, <3>1, MarkCurrentStart
  <2>2. CASE x.playing \notin rows
    <3>1. n = m
      BY <1>2, <2>2 DEF Removal, When
    <3> QED BY <1>5, <3>1 DEF StartStays
  <2> QED BY <2>1, <2>2
<1>7. StartStays(n, k) /\ (StartReady(n) => StartReady(k)) /\ StartOpen(k)
  <2>1. QueueOk(n) /\ k = KnownStart(n) /\ n.headStart \in Nat
    BY <1>2 DEF Removal, MarksNear
  <2> QED BY <1>6, <2>1, KnownStartStart
<1>8. StartStays(k, r) /\ StartReady(r)
  <2>1. CASE rows \cap RowsOf(x, "Head") # {}
    <3>1. r = ResetNavigator(k)
      BY <1>2, <2>1 DEF When
    <3> QED BY <1>2, <1>7, <3>1, ResetNavigatorStart DEF Removal
  <2>2. CASE rows \cap RowsOf(x, "Head") = {}
    <3>1. r = k
      BY <1>2, <2>2 DEF When
    <3>2. StartReady(m)
      BY <1>2, <1>5, <2>2 DEF Removal, StartReady
    <3> QED BY <1>6, <1>7, <3>1, <3>2 DEF StartStays
  <2> QED BY <2>1, <2>2
<1>9. \A t : Started(m, t) => Started(r, t)
  BY <1>6, <1>7, <1>8 DEF StartStays
<1>10. ASSUME NEW i \in C, Count(C, i) = x.headStart, i \notin given
       PROVE  Started(r, x.entries[i].track)
  <2>1. i \notin rows
    BY <1>1, <1>10
  <2>2. StartIs(m, x.entries[i].track)
    BY <1>3, <1>4, <1>10, <2>1, StartOnward
  <2> QED BY <1>9, <2>2 DEF Started
<1>11. ASSUME given \cap C = {} PROVE StartStays(x, r)
  <2>1. ASSUME NEW t, Started(x, t) PROVE Started(r, t)
    <3>1. CASE x.headMark > 0
      <4>1. rows \cap RowsOf(x, "Head") = {}
        BY <1>1, <1>3, <1>11
      <4>2. m.headMark = x.headMark
        BY <1>2, <4>1 DEF Removal
      <4> QED BY <1>9, <3>1, <4>2 DEF Started
    <3>2. CASE StartIs(x, t)
      <4>1. PICK i \in C : Count(C, i) = x.headStart /\ x.entries[i].track = t
        BY <3>2 DEF StartIs, HeadIs
      <4>2. i \notin given
        BY <1>11
      <4> QED BY <1>10, <4>1, <4>2
    <3> QED BY <2>1, <3>1, <3>2 DEF Started
  <2> QED BY <2>1 DEF StartStays
<1> QED BY <1>8, <1>10, <1>11

\* Dropping what the seeds outdated touches no head track.
LEMMA DropStaleWaveNav ==
  ASSUME NEW q, QueueOk(q), NavFine(q), Lucky(q), NEW r, r = DropStaleWave(q)
  PROVE  NavFine(r) /\ HeadSize(r) <= HeadSize(q) /\ r.luck = q.luck /\ StartHolds(q, r)
<1>1. CASE r = q
  <2>1. HeadSize(q) \in Nat
    BY HeadSizeIs
  <2> QED BY <1>1, <2>1 DEF StartHolds, StartStays
<1>2. CASE r # q
  <2>1. PICK stale : stale \subseteq RowsOf(q, "Continuation") /\ r = RemoveRows(q, stale)
    <3>1. PICK stale : stale = {i \in RowsOf(q, "Continuation") :
                                  /\ q.entries[i].giver = "history" /\ FollowsSeeds
                                  /\ q.entries[i].seeds # q.hint.version
                                  /\ OrdinalOf(q, i) > q.contMark}
      OBVIOUS
    <3>2. stale \subseteq RowsOf(q, "Continuation")
      BY <3>1
    <3>3. r = RemoveRows(q, stale)
      BY <1>2, <3>1 DEF DropStaleWave
    <3> QED BY <3>2, <3>3
  <2>2. stale \cap HeadRows(q.entries) = {}
    BY <2>1 DEF RowsOf, HeadRows
  <2>3. NavFine(r) /\ HeadSize(r) <= HeadSize(q) /\ r.luck = q.luck
    BY <2>1, RemoveRowsNav
  <2>4. StartHolds(q, r)
    BY <2>1, <2>2, RemoveRowsStart DEF StartHolds
  <2> QED BY <2>3, <2>4
<1> QED BY <1>1, <1>2

\* endLayer(): the items behind the current entry go, the head stays.
LEMMA EndLayerNav ==
  ASSUME NEW q, QueueOk(q), NavFine(q), Lucky(q), NEW r, r = EndLayer(q)
  PROVE  NavFine(r) /\ HeadSize(r) <= HeadSize(q) /\ r.luck = q.luck /\ StartHolds(q, r)
<1>1. PICK stale, es : /\ es = [i \in Rows(q) |-> [q.entries[i] EXCEPT !.item = NoItem]]
                       /\ stale = {i \in RowsOf(q, "Continuation") :
                                    q.entries[i].seeds # 0 /\ OrdinalOf(q, i) > q.contMark}
  OBVIOUS
<1>2. PICK m : m = [q EXCEPT !.hint = NoHint, !.entries = es, !.changed = TRUE]
  OBVIOUS
<1>3. r = RemoveRows(m, stale)
  BY <1>1, <1>2 DEF EndLayer
<1>4. PICK n \in Nat : n = Len(q.entries) /\ Rows(q) = 1..n
  BY SomeRows
<1>5. \A i \in 1..n : q.entries[i] \in EntryType
  BY <1>4, SomeRows
<1>6. \A i \in 1..n : /\ es[i] \in EntryType /\ es[i].part = q.entries[i].part
                      /\ es[i].track = q.entries[i].track
  <2>1. \A i \in 1..n : es[i] = [q.entries[i] EXCEPT !.item = NoItem]
    BY <1>1, <1>4
  <2>2. ASSUME NEW i \in 1..n, NEW e, e = [q.entries[i] EXCEPT !.item = NoItem]
        PROVE  e \in EntryType /\ e.part = q.entries[i].part /\ e.track = q.entries[i].track
    BY <1>5, <2>2 DEF EntryType
  <2> QED BY <2>1, <2>2
<1>7. es \in Seq(EntryType) /\ Len(es) = n
  <2>1. es \in [1..n -> EntryType]
    <3>1. es = [i \in 1..n |-> es[i]]
      BY <1>1, <1>4
    <3> QED BY <1>6, <3>1
  <2> QED BY <1>4, <2>1
<1>8. /\ m.entries = es /\ m.playing = q.playing /\ m.contMark = q.contMark /\ m.hint = NoHint
      /\ m.changed = TRUE /\ DOMAIN m = DOMAIN q /\ m.headMark = q.headMark
      /\ m.headStart = q.headStart /\ m.algorithm = q.algorithm /\ m.own = q.own
      /\ m.shuffle = q.shuffle /\ m.nav = q.nav /\ m.luck = q.luck
  BY <1>2 DEF QueueOk, QueueFields
<1>9. QueueOk(m)
  <2>1. m.changed \in BOOLEAN
    BY <1>8, Zenon
  <2>2. NoHint \in Hint
    BY DEF NoHint, Hint
  <2>3. m.entries \in Entries /\ m.playing \in 0..Len(m.entries) /\ m.contMark \in Int
        /\ QueueFields \subseteq DOMAIN m
    BY <1>4, <1>7, <1>8 DEF Entries, QueueOk
  <2> QED BY <1>8, <2>1, <2>2, <2>3 DEF QueueOk
<1>10. HeadSize(m) = HeadSize(q)
  <2>1. Len(es) = Len(q.entries) /\ \A i \in 1..Len(q.entries) : es[i].part = q.entries[i].part
    BY <1>4, <1>6, <1>7
  <2>2. Heads(es) = Heads(q.entries)
    BY <2>1, AlikeHeads
  <2> QED BY <1>8, <2>2 DEF HeadSize
<1>11. NavFine(m) /\ Lucky(m)
  BY <1>8, <1>10, NavSame DEF NavAlike
<1>12. NavFine(r) /\ HeadSize(r) <= HeadSize(m) /\ r.luck = m.luck
  BY <1>3, <1>9, <1>11, RemoveRowsNav
<1>13. StartHolds(q, m)
  <2>1. HeadStays(q.entries, m.entries)
    <3>1. Len(es) = Len(q.entries) /\ \A i \in 1..Len(q.entries) :
            es[i].part = q.entries[i].part /\ es[i].track = q.entries[i].track
      BY <1>4, <1>6, <1>7
    <3> QED BY <1>8, <3>1, HeadAlike
  <2> QED BY <1>8, <1>10, <2>1, StartSame DEF StartHolds
<1>14. StartHolds(m, r)
  <2>1. stale \cap HeadRows(m.entries) = {}
    BY <1>1, <1>4, <1>6, <1>8 DEF RowsOf, HeadRows
  <2> QED BY <1>3, <1>9, <1>11, <2>1, RemoveRowsStart DEF StartHolds
<1> QED BY <1>8, <1>10, <1>12, <1>13, <1>14 DEF StartHolds, StartStays

\* The items that come and go are no head tracks.
LEMMA CutNav ==
  ASSUME NEW q, QueueOk(q), NEW m, NEW start \in Nat \ {0}, NEW b \in Nat, NEW p \in Nat,
         NEW c \in Nat, NEW added, Cut(q, m, start, b, p, c, added)
  PROVE  HeadSize(m) = HeadSize(q) /\ HeadStays(q.entries, m.entries)
<1>1. PICK s, u, n : s = q.entries /\ u = m.entries /\ n = Len(s)
  OBVIOUS
<1>2. /\ Pending(q) = start..b /\ b <= n /\ start <= p + 1 /\ p < c /\ c <= b + 1
      /\ u \in Seq(EntryType) /\ Spliced(s, p, added, c, u)
      /\ added \in Seq(EntryType) /\ \A i \in 1..Len(added) : IsPending(added[i])
  BY <1>1 DEF Cut
<1>3. s \in Seq(EntryType) /\ n \in Nat
  BY <1>1, SomeRows DEF QueueOk, Entries
<1>4. p \in 0..n /\ c \in (p + 1)..(n + 1)
  BY <1>2, <1>3
<1>5. \A i \in 1..n : p < i /\ i < c => s[i].part # "Head"
  <2>1. ASSUME NEW i \in 1..n, p < i, i < c PROVE s[i].part # "Head"
    <3>1. i \in start..b
      BY <1>2, <1>3, <2>1
    <3>2. IsPending(q.entries[i])
      BY <1>2, <3>1 DEF Pending
    <3> QED BY <1>1, <3>2 DEF IsPending
  <2> QED BY <2>1
<1>6. Heads(added) = 0
  <2>1. \A i \in 1..Len(added) : added[i].part # "Head"
    BY <1>2 DEF IsPending
  <2> QED BY <2>1, NoHeads
<1>7. Heads(u) = Heads(s) + Heads(added)
  <2>1. /\ s \in Seq(EntryType) /\ added \in Seq(EntryType) /\ u \in Seq(EntryType)
        /\ Spliced(s, p, added, c, u)
    BY <1>2, <1>3
  <2>2. /\ p \in 0..Len(s) /\ c \in (p + 1)..(Len(s) + 1)
        /\ \A i \in 1..Len(s) : p < i /\ i < c => s[i].part # "Head"
    BY <1>1, <1>4, <1>5
  <2> QED BY <2>1, <2>2, SplicedHeads, SMTT(30)
<1>8. Heads(s) \in Nat
  BY <1>3, HeadsAre
<1>9. HeadStays(s, u)
  <2>1. HeadFree(s, p, c) /\ HeadFree(added, 0, Len(added) + 1)
    BY <1>1, <1>2, <1>5 DEF HeadFree, IsPending
  <2> QED BY <1>1, <1>2, <1>3, <1>4, <2>1, SplicedStays
<1> QED BY <1>1, <1>6, <1>7, <1>8, <1>9 DEF HeadSize

\* setItems() neither brings nor takes a head track.
LEMMA SetItemsNav ==
  ASSUME NEW q, QueueOk(q), Together(q), NavFine(q), Lucky(q), NEW items \in ItemList,
         NEW hint \in Hint, NEW r, r = SetItems(q, items, hint)
  PROVE  NavFine(r) /\ HeadSize(r) <= HeadSize(q) /\ r.luck = q.luck /\ StartHolds(q, r)
<1>1. PICK m, added : \E start \in Nat \ {0}, b \in Nat, p \in Nat, c \in Nat :
        /\ Cut(q, m, start, b, p, c, added) /\ ItemsCut(q, m, hint)
        /\ r = DropStaleWave(m)
  BY SetItemsCut
<1>2. QueueOk(m)
  BY <1>1, CutKeeps DEF Keeps
<1>3. HeadSize(m) = HeadSize(q) /\ HeadStays(q.entries, m.entries)
  BY <1>1, CutNav
<1>4. NavFine(m) /\ Lucky(m) /\ m.luck = q.luck
  BY <1>1, <1>3, NavSame DEF NavAlike, ItemsCut
<1>5. NavFine(r) /\ HeadSize(r) <= HeadSize(m) /\ r.luck = m.luck /\ StartHolds(m, r)
  BY <1>1, <1>2, <1>4, DropStaleWaveNav
<1>6. StartHolds(q, m)
  BY <1>1, <1>3, StartSame DEF ItemsCut, StartHolds
<1> QED BY <1>3, <1>4, <1>5, <1>6 DEF StartHolds, StartStays

\* Inserted rows grow the head by the head tracks among them.
LEMMA InsertRowsNav ==
  ASSUME NEW q, QueueOk(q), NEW more \in Seq(EntryType), NEW at \in 1..(Len(q.entries) + 1),
         NEW r, r = InsertRows(q, at, more)
  PROVE  /\ HeadSize(r) = HeadSize(q) + Heads(more) /\ r.nav = q.nav
         /\ Heads(more) = 0 => NavAlike(q, r) /\ HeadStays(q.entries, r.entries)
<1>1. PICK es : es = Inserted(q.entries, at, more)
  OBVIOUS
<1>2. q.entries \in Seq(EntryType)
  BY DEF QueueOk, Entries
<1>3. Heads(es) = Heads(q.entries) + Heads(more) /\ Heads(q.entries) \in Nat
  BY <1>1, <1>2, InsertedHeads, HeadsAre
<1>4. PICK playing : playing = IF at <= q.playing THEN q.playing + Len(more) ELSE q.playing
  OBVIOUS
<1>5. r = [q EXCEPT !.entries = es, !.playing = playing, !.changed = TRUE]
  BY <1>1, <1>4 DEF InsertRows
<1>6. /\ r.entries = es /\ r.contMark = q.contMark /\ r.headMark = q.headMark
      /\ r.headStart = q.headStart /\ r.algorithm = q.algorithm /\ r.own = q.own
      /\ r.shuffle = q.shuffle /\ r.nav = q.nav /\ r.luck = q.luck
  BY <1>5 DEF QueueOk, QueueFields
<1>7. HeadSize(r) = HeadSize(q) + Heads(more) /\ HeadSize(q) \in Nat
  BY <1>3, <1>6 DEF HeadSize
<1>8. Heads(more) = 0 => HeadStays(q.entries, r.entries)
  BY <1>1, <1>2, <1>6, NoneFree, InsertedStays
<1> QED BY <1>6, <1>7, <1>8 DEF NavAlike

\* The cursor among the rows that do not wait.
LEMMA GatheredCursor ==
  ASSUME NEW q, QueueOk(q), HasCurrent(q), ~ IsPending(Current(q)),
         NEW kept, kept = Rows(q) \ Pending(q)
  PROVE  /\ q.playing - Cardinality({i \in Pending(q) : i < q.playing}) \in 1..Cardinality(kept)
         /\ kept \subseteq Rows(q) /\ Cardinality(kept) \in Nat
<1>1. PICK n, P, y : n = Len(q.entries) /\ P = Pending(q) /\ y = q.playing
  OBVIOUS
<1>2. n \in Nat /\ Rows(q) = 1..n /\ y \in 1..n /\ P \subseteq 1..n /\ y \notin P
  BY <1>1, SomeRows, SomePending DEF HasCurrent, Current, Pending
<1>3. kept = (1..n) \ P /\ y \in kept /\ kept \subseteq 1..n
  BY <1>1, <1>2
<1>4. kept \in RowSets /\ P \in RowSets /\ Cardinality(kept) \in Nat
      /\ \A k \in 0..n : Count(kept, k) \in 0..Cardinality(kept)
  BY <1>2, <1>3, CountAll
<1>5. {i \in P : i < y} = UpTo(P, y)
  <2>1. \A i \in P : i < y <=> i <= y
    BY <1>2
  <2> QED BY <2>1 DEF UpTo
<1>6. Count(P, y) + Count(kept, y) = y
  <2>1. y \in 0..n
    BY <1>2
  <2> QED BY <1>2, <1>3, <2>1, CountOthers
<1>7. Count(P, y) \in Nat /\ Count(kept, y) \in 0..Cardinality(kept) /\ Count(kept, y) > 0
  <2>1. y \in Nat /\ y \in 0..n
    BY <1>2
  <2>2. Count(P, y) \in Nat
    BY <1>4, <2>1, CountNext
  <2>3. Count(kept, y) > 0
    BY <1>3, <1>4, <2>1, CountBounds
  <2> QED BY <1>4, <2>1, <2>2, <2>3
<1>8. y - Cardinality({i \in P : i < y}) = Count(kept, y)
  <2>1. Cardinality({i \in P : i < y}) = Count(P, y)
    BY <1>5 DEF Count
  <2>2. y \in Nat
    BY <1>2
  <2> QED BY <1>6, <1>7, <2>1, <2>2
<1>9. Count(kept, y) \in 1..Cardinality(kept)
  BY <1>4, <1>7
<1> QED BY <1>1, <1>2, <1>3, <1>4, <1>8, <1>9

\* What waits is no head track, so that the head stays what it was.
LEMMA GatherPendingNav ==
  ASSUME NEW q, QueueOk(q), HasCurrent(q), ~ IsPending(Current(q)),
         NEW r, r = GatherPending(q)
  PROVE  NavAlike(q, r) /\ HeadStays(q.entries, r.entries)
<1>1. CASE r = q
  BY <1>1, SameStays DEF NavAlike
<1>2. CASE r # q
  <2>1. PICK kept, y, m, more, P :
          /\ P = Pending(q) /\ kept = Rows(q) \ P
          /\ y = q.playing - Cardinality({i \in P : i < q.playing})
          /\ m = [q EXCEPT !.entries = EntriesAt(q, kept), !.playing = y]
          /\ more = EntriesAt(q, P)
    OBVIOUS
  <2>2. r = InsertRows(m, y + 1, more)
    BY <1>2, <2>1 DEF GatherPending
  <2>3. /\ m.entries = EntriesAt(q, kept) /\ m.playing = y /\ m.contMark = q.contMark
        /\ m.hint = q.hint /\ m.changed = q.changed /\ DOMAIN m = DOMAIN q
        /\ m.headMark = q.headMark /\ m.headStart = q.headStart /\ m.algorithm = q.algorithm
        /\ m.own = q.own /\ m.shuffle = q.shuffle /\ m.nav = q.nav /\ m.luck = q.luck
    BY <2>1 DEF QueueOk, QueueFields
  <2>4. y \in 1..Cardinality(kept) /\ kept \subseteq Rows(q) /\ Cardinality(kept) \in Nat
    BY <2>1, GatheredCursor
  <2>5. P \subseteq Rows(q)
    BY <2>1, SomePending
  <2>6. /\ m.entries \in Seq(EntryType) /\ Len(m.entries) = Cardinality(kept)
        /\ more \in Seq(EntryType)
    BY <2>1, <2>3, <2>4, <2>5, EntriesAtIs
  <2>7. QueueOk(m)
    <3>1. m.playing \in 0..Len(m.entries)
      BY <2>3, <2>4, <2>6
    <3> QED BY <2>3, <2>6, <3>1 DEF QueueOk, Entries
  <2>8. Heads(more) = 0 /\ HeadSize(m) = HeadSize(q) /\ HeadStays(q.entries, m.entries)
    <3>1. PICK C : C = HeadRows(q.entries)
      OBVIOUS
    <3>2. P \cap C = {} /\ kept \cap C = C
      <4>1. \A i \in P : i \notin C
        BY <2>1, <3>1 DEF Pending, IsPending, HeadRows
      <4>2. C \subseteq Rows(q)
        BY <3>1 DEF HeadRows, Rows
      <4> QED BY <2>1, <4>1, <4>2
    <3>3. Heads(more) = Cardinality(P \cap C) /\ Heads(m.entries) = Cardinality(kept \cap C)
      BY <2>1, <2>3, <2>4, <2>5, <3>1, PickedHeads
    <3>4. HeadStays(q.entries, m.entries)
      <4>1. HeadRows(q.entries) \subseteq kept
        BY <3>1, <3>2
      <4> QED BY <2>3, <2>4, <4>1, PickedStays
    <3> QED BY <3>1, <3>2, <3>3, <3>4, FS_EmptySet DEF HeadSize, Heads
  <2>9. NavAlike(q, m)
    BY <2>3, <2>8 DEF NavAlike
  <2>10. NavAlike(m, r) /\ HeadStays(m.entries, r.entries)
    <3>1. y + 1 \in 1..(Len(m.entries) + 1)
      BY <2>4, <2>6
    <3> QED BY <2>2, <2>6, <2>7, <2>8, <3>1, InsertRowsNav
  <2>11. HeadStays(q.entries, r.entries)
    BY <2>8, <2>10 DEF HeadStays
  <2> QED BY <2>9, <2>10, <2>11 DEF NavAlike
<1> QED BY <1>1, <1>2

\* select() puts the mark and the navigator on the row chosen.
LEMMA SelectNav ==
  ASSUME NEW q, QueueOk(q), NavFine(q), Lucky(q), NEW row, NEW r, r = Select(q, row)
  PROVE  NavFine(r) /\ HeadSize(r) <= HeadSize(q) /\ r.luck = q.luck /\ StartHolds(q, r)
<1>1. HeadSize(q) \in Nat
  BY HeadSizeIs
<1>2. CASE row \notin Rows(q)
  BY <1>1, <1>2 DEF Select, StartHolds, StartStays
<1>3. CASE row \in Rows(q)
  <2>1. PICK changed : changed = (q.changed \/ IsPending(q.entries[row]))
    OBVIOUS
  <2>2. PICK m : m = [q EXCEPT !.playing = row, !.changed = changed]
    OBVIOUS
  <2>3. /\ m.entries = q.entries /\ m.playing = row /\ m.contMark = q.contMark /\ m.hint = q.hint
        /\ m.changed = changed /\ DOMAIN m = DOMAIN q
        /\ m.headMark = q.headMark /\ m.headStart = q.headStart /\ m.algorithm = q.algorithm
        /\ m.own = q.own /\ m.shuffle = q.shuffle /\ m.nav = q.nav /\ m.luck = q.luck
    BY <2>2 DEF QueueOk, QueueFields
  <2>4. row \in 0..Len(q.entries) /\ row # 0
    BY <1>3, SomeRows
  <2>5. changed \in BOOLEAN
    BY <2>1, Zenon
  <2>6. QueueOk(m)
    BY <2>3, <2>4, <2>5 DEF QueueOk
  <2>7. NavFine(m) /\ Lucky(m) /\ HeadSize(m) = HeadSize(q)
    <3>1. NavAlike(q, m)
      BY <2>3 DEF NavAlike, HeadSize
    <3> QED BY <3>1, NavSame DEF NavAlike
  <2>8. PICK n, k : n = MarkCurrent(m) /\ k = GatherPending(n)
    OBVIOUS
  <2>9. MarksNear(m)
    BY <2>7 DEF NavFine, MarksFine
  <2>10. NavFine(n) /\ HeadSize(n) = HeadSize(m) /\ n.luck = m.luck
    BY <2>6, <2>7, <2>8, <2>9, MarkCurrentNav
  <2>11. Marks(m, n)
    BY <2>6, <2>8, MarkCurrentIs
  <2>12. HasCurrent(m)
    BY <2>3, <2>4, <2>6, SomeRows
  <2>13. QueueOk(n) /\ HasCurrent(n) /\ ~ IsPending(Current(n))
    BY <2>6, <2>11, <2>12, MarksKeep DEF Marks
  <2>14. NavAlike(n, k) /\ QueueOk(k) /\ HeadStays(n.entries, k.entries)
    BY <2>8, <2>13, GatherPendingNav, GatherPendingIs
  <2>15. Lucky(n)
    BY <2>7, <2>10 DEF Lucky
  <2>16. NavFine(k) /\ Lucky(k) /\ HeadSize(k) = HeadSize(n) /\ k.luck = n.luck
    BY <2>10, <2>14, <2>15, NavSame DEF NavAlike
  <2>17. r = DropStaleWave(k)
    BY <1>3, <2>1, <2>2, <2>8 DEF Select
  <2>18. NavFine(r) /\ HeadSize(r) <= HeadSize(k) /\ r.luck = k.luck /\ StartHolds(k, r)
    BY <2>14, <2>16, <2>17, DropStaleWaveNav
  <2>19. StartHolds(q, m)
    BY <2>3, <2>7, SameStays, StartSame DEF StartHolds
  <2>20. StartHolds(m, n)
    BY <2>6, <2>8, MarkCurrentStart DEF StartHolds
  <2>21. StartHolds(n, k)
    BY <2>14, StartSame DEF StartHolds, NavAlike
  <2>22. StartHolds(q, r)
    BY <2>18, <2>19, <2>20, <2>21 DEF StartHolds, StartStays
  <2> QED BY <2>3, <2>7, <2>10, <2>16, <2>18, <2>22
<1> QED BY <1>2, <1>3

\* Stepping back leaves the navigator where it is until the row is selected.
LEMMA StepBackNav ==
  ASSUME NEW q, QueueOk(q), NavFine(q), NEW r, r = StepBack(q)
  PROVE  NavFine(r) /\ HeadSize(r) = HeadSize(q) /\ r.luck = q.luck /\ StartHolds(q, r)
<1>1. CASE r = q
  BY <1>1 DEF StartHolds, StartStays
<1>2. CASE r # q
  <2>1. PICK mark : mark = OrdinalOf(q, q.playing) - 1
    OBVIOUS
  <2>2. r = [q EXCEPT !.contMark = mark] /\ HasCurrent(q)
    BY <1>2, <2>1 DEF StepBack
  <2>3. mark \in Nat
    <3>1. q.playing \in RowsOf(q, Current(q).part)
      BY <2>2 DEF HasCurrent, Current, RowsOf
    <3>2. OrdinalOf(q, q.playing) \in 1..CountOf(q, Current(q).part)
      BY <3>1, OrdinalTells
    <3> QED BY <2>1, <3>2
  <2>4. /\ r.entries = q.entries /\ r.contMark = mark
        /\ r.headMark = q.headMark /\ r.headStart = q.headStart /\ r.algorithm = q.algorithm
        /\ r.own = q.own /\ r.shuffle = q.shuffle /\ r.nav = q.nav /\ r.luck = q.luck
    BY <2>2 DEF QueueOk, QueueFields
  <2>5. HeadSize(r) = HeadSize(q) /\ KindOf(r) = KindOf(q)
    BY <2>4 DEF HeadSize, KindOf, ShuffleActive
  <2>6. StartHolds(q, r)
    BY <2>4, <2>5, SameStays, StartSame DEF StartHolds
  <2> QED BY <2>3, <2>4, <2>5, <2>6 DEF NavFine, MarksFine, MarksNear
<1> QED BY <1>1, <1>2

\* The tracks that can be played are no more than those given.
LEMMA EntriesCount ==
  ASSUME NEW tracks \in Seq(Tracks), NEW part, NEW giver, NEW seeds, NEW pending,
         NEW es, es = EntriesOf(tracks, part, giver, seeds, pending),
         NEW S, S = {i \in DOMAIN tracks : tracks[i] \notin Unavailable}
  PROVE  /\ Len(es) = Cardinality(S) /\ Len(es) \in Nat /\ Len(es) <= Len(tracks)
         /\ S \subseteq 1..Len(tracks) /\ IsFiniteSet(S)
<1>1. PICK n \in Nat : n = Len(tracks)
  OBVIOUS
<1>2. S \subseteq 1..n /\ IsFiniteSet(S)
  <2>1. S \subseteq 1..n
    BY <1>1
  <2> QED BY <2>1, FS_Interval, FS_Subset
<1>3. PICK some : some = Picked(tracks, S)
  OBVIOUS
<1>4. Len(some) = Cardinality(S) /\ some \in Seq(Tracks)
  BY <1>1, <1>2, <1>3, PickedIs
<1>5. es = [i \in 1..Len(some) |-> Entry(some[i], part, giver, seeds, NoItem, pending)]
  BY <1>3 DEF EntriesOf
<1>6. Cardinality(S) \in Nat /\ Cardinality(S) <= n
  <2>1. Cardinality(S) \in Nat /\ Count(S, n) = Cardinality(S) /\ S \in RowSets
    BY <1>2, CountAll
  <2>2. Count(S, n) \in 0..n
    BY <2>1, CountBounds
  <2> QED BY <2>1, <2>2
<1>7. Len(es) = Len(some)
  BY <1>4, <1>5, <1>6
<1> QED BY <1>1, <1>2, <1>4, <1>6, <1>7

\* appendContinuation() adds nothing to the head.
LEMMA AppendNav ==
  ASSUME NEW q, QueueOk(q), NavFine(q), Lucky(q), NEW tracks \in Seq(Tracks),
         NEW giver \in Givers, NEW seeds \in Nat,
         NEW r, r = AppendContinuation(q, tracks, giver, seeds)
  PROVE  NavFine(r) /\ HeadSize(r) = HeadSize(q) /\ r.luck = q.luck /\ StartHolds(q, r)
<1>1. PICK no, part : no = FALSE /\ part = "Continuation"
  OBVIOUS
<1>2. no \in BOOLEAN /\ part \in Parts
  <2>1. no \in BOOLEAN
    BY <1>1, Zenon
  <2> QED BY <1>1, <2>1 DEF Parts
<1>3. PICK added : added = EntriesOf(tracks, part, giver, seeds, no)
  OBVIOUS
<1>4. OfKind(added, part, no)
  BY <1>2, <1>3, EntriesAre
<1>5. added \in Seq(EntryType) /\ \A i \in 1..Len(added) : added[i].part # "Head"
  BY <1>1, <1>4 DEF OfKind
<1>6. Heads(added) = 0
  BY <1>5, NoHeads
<1>7. PICK es, gave : es = q.entries \o added /\ gave = (q.historyGave \/ giver = "history")
  OBVIOUS
<1>8. PICK m : m = [q EXCEPT !.entries = es, !.changed = TRUE, !.historyGave = gave]
  OBVIOUS
<1>9. r = IF added = <<>> THEN q
          ELSE IF q.playing = 0 /\ q.entries = <<>> THEN MarkCurrent([m EXCEPT !.playing = 1])
          ELSE m
  BY <1>1, <1>3, <1>7, <1>8 DEF AppendContinuation
<1>10. /\ m.entries = es /\ m.playing = q.playing /\ m.contMark = q.contMark
       /\ m.hint = q.hint /\ m.changed = TRUE /\ DOMAIN m = DOMAIN q
       /\ m.headMark = q.headMark /\ m.headStart = q.headStart /\ m.algorithm = q.algorithm
       /\ m.own = q.own /\ m.shuffle = q.shuffle /\ m.nav = q.nav /\ m.luck = q.luck
  BY <1>8 DEF QueueOk, QueueFields
<1>11. /\ es \in Seq(EntryType) /\ Len(es) = Len(q.entries) + Len(added)
       /\ Len(q.entries) \in Nat /\ Len(added) \in Nat /\ Heads(es) = Heads(q.entries)
  <2>1. q.entries \in Seq(EntryType)
    BY DEF QueueOk, Entries
  <2>2. Heads(es) = Heads(q.entries) + Heads(added)
    BY <1>5, <1>7, <2>1, JoinedHeads
  <2>3. Heads(q.entries) \in Nat
    BY <2>1, HeadsAre
  <2>4. es \in Seq(EntryType) /\ Len(es) = Len(q.entries) + Len(added)
    BY <1>5, <1>7, <2>1, JoinedAre
  <2>5. Len(q.entries) \in Nat /\ Len(added) \in Nat
    BY <1>5, <2>1
  <2> QED BY <1>6, <2>2, <2>3, <2>4, <2>5
<1>12. NavAlike(q, m)
  BY <1>10, <1>11 DEF NavAlike, HeadSize
<1>13. NavFine(m) /\ Lucky(m) /\ HeadSize(m) = HeadSize(q) /\ StartHolds(q, m)
  <2>1. HeadStays(q.entries, m.entries)
    <3>1. q.entries \in Seq(EntryType)
      BY DEF QueueOk, Entries
    <3> QED BY <1>5, <1>6, <1>7, <1>10, <3>1, JoinedStays
  <2>2. NavFine(m) /\ Lucky(m) /\ HeadSize(m) = HeadSize(q)
    BY <1>12, NavSame DEF NavAlike
  <2> QED BY <1>12, <2>1, <2>2, StartSame DEF NavAlike, StartHolds
<1>14. m.changed \in BOOLEAN
  BY <1>10, Zenon
<1>15. CASE added = <<>>
  BY <1>9, <1>15 DEF StartHolds, StartStays
<1>16. CASE added # <<>> /\ ~ (q.playing = 0 /\ q.entries = <<>>)
  BY <1>9, <1>10, <1>13, <1>16
<1>17. CASE added # <<>> /\ q.playing = 0 /\ q.entries = <<>>
  <2>1. PICK n, one : one = 1 /\ n = [m EXCEPT !.playing = one]
    OBVIOUS
  <2>2. /\ n.entries = m.entries /\ n.playing = 1 /\ n.contMark = m.contMark /\ n.hint = m.hint
        /\ n.changed = m.changed /\ DOMAIN n = DOMAIN m
        /\ n.headMark = m.headMark /\ n.headStart = m.headStart /\ n.algorithm = m.algorithm
        /\ n.own = m.own /\ n.shuffle = m.shuffle /\ n.nav = m.nav /\ n.luck = m.luck
    BY <1>10, <2>1 DEF QueueOk, QueueFields
  <2>3. 1 \in 0..Len(es)
    <3>1. Len(added) # 0
      BY <1>5, <1>17, EmptySeq
    <3> QED BY <1>11, <3>1
  <2>4. QueueOk(n)
    BY <1>10, <1>11, <1>14, <2>2, <2>3 DEF QueueOk, Entries
  <2>5. NavFine(n) /\ Lucky(n) /\ HeadSize(n) = HeadSize(m) /\ StartHolds(m, n)
    <3>1. NavAlike(m, n)
      BY <2>2 DEF NavAlike, HeadSize
    <3>2. StartHolds(m, n)
      BY <2>2, <3>1, SameStays, StartSame DEF NavAlike, StartHolds
    <3> QED BY <1>13, <3>1, <3>2, NavSame DEF NavAlike
  <2>6. r = MarkCurrent(n)
    BY <1>9, <1>17, <2>1
  <2>7. MarksNear(n)
    BY <2>5 DEF NavFine, MarksFine
  <2>8. NavFine(r) /\ HeadSize(r) = HeadSize(n) /\ r.luck = n.luck
    BY <2>4, <2>5, <2>6, <2>7, MarkCurrentNav
  <2>9. StartHolds(n, r)
    BY <2>4, <2>6, MarkCurrentStart DEF StartHolds
  <2>10. StartHolds(q, r)
    BY <1>13, <2>5, <2>9 DEF StartHolds, StartStays
  <2> QED BY <1>10, <1>13, <2>2, <2>5, <2>8, <2>10
<1> QED BY <1>15, <1>16, <1>17

\* Where add() puts what goes into the head.
LEMMA HeadEndIs ==
  ASSUME NEW q, QueueOk(q), CountOf(q, "Head") > 0,
         NEW last, last = Greatest(RowsOf(q, "Head")),
         NEW behind, behind = {i \in (last + 1)..(Len(q.entries) + 1) : i \notin Pending(q)}
  PROVE  /\ Least(behind) \in 1..(Len(q.entries) + 1) /\ Least(behind) \notin Pending(q)
         /\ HeadFree(q.entries, Least(behind) - 1, Len(q.entries) + 1)
<1>1. PICK n \in Nat : n = Len(q.entries) /\ Rows(q) = 1..n
  BY SomeRows
<1>2. PICK heads : heads = RowsOf(q, "Head")
  OBVIOUS
<1>3. heads \subseteq 1..n /\ heads # {}
  <2>1. heads = {} => CountOf(q, "Head") = 0
    BY <1>2, FS_EmptySet DEF CountOf
  <2> QED BY <1>1, <1>2, <2>1 DEF RowsOf
<1>4. last \in 1..n /\ \A y \in heads : last >= y
  BY <1>1, <1>2, <1>3, GreatestIs
<1>5. n + 1 \notin Pending(q)
  BY <1>1, SomePending
<1>6. n + 1 \in behind /\ behind \subseteq Nat
  BY <1>1, <1>4, <1>5
<1>7. Least(behind) \in behind
  BY <1>6, LeastIs
<1>8. PICK place : place = Least(behind)
  OBVIOUS
<1>9. place \in Nat /\ place > last
  BY <1>1, <1>4, <1>7, <1>8
<1>10. HeadFree(q.entries, place - 1, n + 1)
  <2>1. ASSUME NEW i \in 1..n, place - 1 < i PROVE q.entries[i].part # "Head"
    <3>1. i \notin heads
      BY <1>4, <1>9, <2>1
    <3> QED BY <1>1, <1>2, <3>1 DEF RowsOf
  <2> QED BY <1>1, <2>1 DEF HeadFree
<1> QED BY <1>1, <1>4, <1>7, <1>8, <1>10

\* add() into the head tells the navigator of as many tracks as came in.
LEMMA AddNav ==
  ASSUME NEW q, QueueOk(q), NavFine(q), NEW tracks \in Seq(Tracks),
         Draws(q.luck, HeadSize(q) + Len(tracks)), NEW placement \in {"Next", "End"},
         NEW r, r = Add(q, tracks, placement)
  PROVE  /\ NavFine(r) /\ HeadSize(r) <= HeadSize(q) + Len(tracks) /\ r.luck = q.luck
         /\ StartHolds(q, r)
<1> DEFINE toHead == placement = "End" /\ q.inHead /\ CountOf(q, "Head") > 0
<1>1. PICK part, waits : part = (IF toHead THEN "Head" ELSE "Item") /\ waits = ~ toHead
  OBVIOUS
<1>2. PICK es, S : /\ es = EntriesOf(tracks, part, "none", 0, waits)
                   /\ S = {i \in DOMAIN tracks : tracks[i] \notin Unavailable}
  OBVIOUS
<1>3. part \in Parts /\ "none" \in Givers /\ 0 \in Nat
  BY <1>1 DEF Parts, Givers
<1>4. waits \in BOOLEAN
  BY <1>1, Zenon
<1>5. OfKind(es, part, waits)
  BY <1>2, <1>3, <1>4, EntriesAre
<1>6. es \in Seq(EntryType) /\ Len(es) \in Nat /\ Len(es) <= Len(tracks)
  BY <1>2, <1>5, EntriesCount DEF OfKind
<1>7. PICK at : at = IF Pending(q) = {} THEN q.playing + 1
                     ELSE IF placement = "Next" THEN Least(Pending(q)) ELSE Greatest(Pending(q)) + 1
  OBVIOUS
<1>8. r = IF es = <<>> THEN q ELSE IF toHead THEN AddToHead(q, es) ELSE InsertRows(q, at, es)
  BY <1>1, <1>2, <1>7 DEF Add
<1>9. Rows(q) = 1..Len(q.entries) /\ Len(q.entries) \in Nat /\ q.playing \in 0..Len(q.entries)
  BY SomeRows DEF QueueOk
<1>10. HeadSize(q) \in Nat /\ HeadSize(q) = CountOf(q, "Head") /\ Len(tracks) \in Nat
  BY HeadSizeIs
<1>11. Lucky(q)
  <2>1. PICK a \in Nat, b \in Nat : a = HeadSize(q) + Len(tracks) /\ b = HeadSize(q)
    BY <1>10
  <2>2. b \in 0..a
    BY <1>10, <2>1
  <2> QED BY <2>1, <2>2, DrawsFewer DEF Lucky
<1>12. CASE es = <<>>
  BY <1>8, <1>10, <1>12 DEF StartHolds, StartStays
<1>13. CASE es # <<>> /\ ~ toHead
  <2>1. r = InsertRows(q, at, es)
    BY <1>8, <1>13
  <2>2. at \in 1..(Len(q.entries) + 1)
    <3>1. CASE Pending(q) = {}
      BY <1>7, <1>9, <3>1
    <3>2. CASE Pending(q) # {}
      <4>1. Least(Pending(q)) \in 1..Len(q.entries) /\ Greatest(Pending(q)) \in 1..Len(q.entries)
        BY <1>9, <3>2, SomePending
      <4> QED BY <1>7, <1>9, <3>2, <4>1
    <3> QED BY <3>1, <3>2
  <2>3. Heads(es) = 0
    <3>1. \A i \in 1..Len(es) : es[i].part # "Head"
      BY <1>1, <1>5, <1>13 DEF OfKind
    <3> QED BY <3>1, NoHeads
  <2>4. NavAlike(q, r) /\ HeadStays(q.entries, r.entries)
    BY <1>6, <2>1, <2>2, <2>3, InsertRowsNav
  <2>5. StartHolds(q, r)
    BY <2>4, StartSame DEF NavAlike, StartHolds
  <2> QED BY <1>10, <1>11, <2>4, <2>5, NavSame DEF NavAlike
<1>14. CASE es # <<>> /\ toHead
  <2>1. PICK last : last = Greatest(RowsOf(q, "Head"))
    OBVIOUS
  <2>2. PICK behind : behind = {i \in (last + 1)..(Len(q.entries) + 1) : i \notin Pending(q)}
    OBVIOUS
  <2>3. PICK place, m : place = Least(behind) /\ m = InsertRows(q, place, es)
    OBVIOUS
  <2>4. place \in 1..(Len(q.entries) + 1) /\ HeadFree(q.entries, place - 1, Len(q.entries) + 1)
    BY <1>14, <2>1, <2>2, <2>3, HeadEndIs
  <2>5. QueueOk(m)
    BY <1>6, <2>3, <2>4, InsertRowsIs DEF Grown
  <2>6. PICK n \in Nat, count \in Nat : n = HeadSize(q) /\ count = Len(es)
    BY <1>6, <1>10
  <2>7. Heads(es) = count
    <3>1. \A i \in 1..Len(es) : es[i].part = "Head"
      BY <1>1, <1>5, <1>14 DEF OfKind
    <3> QED BY <1>6, <2>6, <3>1, AllHeads
  <2>8. HeadSize(m) = n + count
    BY <1>6, <2>3, <2>4, <2>6, <2>7, InsertRowsNav
  <2>9. /\ m.nav = q.nav /\ m.contMark = q.contMark /\ m.headMark = q.headMark
        /\ m.headStart = q.headStart /\ m.algorithm = q.algorithm /\ m.own = q.own
        /\ m.shuffle = q.shuffle /\ m.luck = q.luck
        /\ m.entries = Inserted(q.entries, place, es)
    <3>1. PICK ins, playing : /\ ins = Inserted(q.entries, place, es)
                              /\ playing = IF place <= q.playing THEN q.playing + Len(es)
                                                                 ELSE q.playing
      OBVIOUS
    <3>2. m = [q EXCEPT !.entries = ins, !.playing = playing, !.changed = TRUE]
      BY <2>3, <3>1 DEF InsertRows
    <3> QED BY <3>1, <3>2 DEF QueueOk, QueueFields
  <2>10. PICK nav : nav = NavAppend(q.nav, count, q.luck)
    OBVIOUS
  <2>11. r = [m EXCEPT !.nav = nav]
    <3>1. r = [m EXCEPT !.nav = NavAppend(@, Len(es), q.luck)]
      BY <1>8, <1>14, <2>1, <2>2, <2>3 DEF AddToHead
    <3> QED BY <2>6, <2>9, <2>10, <3>1
  <2>12. /\ r.entries = m.entries /\ r.nav = nav /\ r.contMark = q.contMark
         /\ r.headMark = q.headMark
         /\ r.headStart = q.headStart /\ r.algorithm = q.algorithm /\ r.own = q.own
         /\ r.shuffle = q.shuffle /\ r.luck = q.luck
    BY <2>5, <2>9, <2>11 DEF QueueOk, QueueFields
  <2>13. PICK mark \in 0..n : mark = q.headMark
    BY <2>6 DEF NavFine, MarksFine, MarksNear
  <2>14. NavOk(q.nav, n, mark) /\ n > 0
    BY <1>10, <1>14, <2>6, <2>13 DEF NavFine
  <2>15. Draws(q.luck, n + count)
    <3>1. PICK a \in Nat, b \in Nat : a = HeadSize(q) + Len(tracks) /\ b = n + count
      BY <1>10
    <3>2. b \in 0..a
      BY <1>6, <1>10, <2>6, <3>1
    <3>3. Draws(q.luck, a)
      BY <3>1
    <3> QED BY <3>1, <3>2, <3>3, DrawsFewer
  <2>16. NavOk(nav, n + count, mark) /\ nav.kind = q.nav.kind
    BY <2>10, <2>14, <2>15, NavAppendIs
  <2>17. HeadSize(r) = n + count /\ KindOf(r) = KindOf(q)
    BY <2>8, <2>12 DEF HeadSize, KindOf, ShuffleActive
  <2>18. MarksFine(r)
    <3>1. MarksFine(q)
      BY DEF NavFine
    <3>2. /\ q.headMark \in 0..n /\ q.contMark \in Nat /\ q.headStart \in Nat
          /\ q.algorithm \in {"random", "shuffled"} /\ q.headStart <= n
      BY <2>6, <2>14, <3>1 DEF MarksFine, MarksNear
    <3>3. n + count \in Nat /\ n <= n + count /\ n + count # 0
      BY <2>14
    <3> QED BY <2>12, <2>17, <3>2, <3>3 DEF MarksFine, MarksNear
  <2>19. NavFine(r)
    BY <2>12, <2>13, <2>16, <2>17, <2>18 DEF NavFine
  <2>20. StartStays(q, r)
    <3>1. q.entries \in Seq(EntryType)
      BY DEF QueueOk, Entries
    <3>2. HeadStays(q.entries, m.entries)
      BY <1>6, <2>4, <2>9, <3>1, InsertedStays
    <3> QED BY <2>12, <3>2 DEF StartStays, Started, StartIs, HeadStays
  <2>21. ASSUME StartReady(q) PROVE StartReady(r)
    <3>1. StartOpen(r)
      BY <2>12, <2>21 DEF StartReady, StartOpen
    <3>2. ASSUME q.headStart > 0 PROVE StandsBefore(nav, q.headStart)
      <4>1. PICK first \in 1..n : first = q.headStart
        BY <2>6, <2>14, <3>2 DEF NavFine, MarksFine, MarksNear
      <4>2. StandsBefore(q.nav, first) /\ mark = 0
        BY <2>6, <2>13, <2>14, <2>21, <3>2, <4>1 DEF StartReady, StartOpen
      <4>3. StandsBefore(nav, first)
        BY <2>10, <2>14, <4>2, AppendStands
      <4> QED BY <4>1, <4>3
    <3> QED BY <2>12, <3>1, <3>2 DEF StartReady
  <2> QED BY <1>6, <1>10, <2>6, <2>12, <2>17, <2>19, <2>20, <2>21 DEF StartHolds
<1> QED BY <1>12, <1>13, <1>14

\* The head of a source is its tracks that can be played, and the start track
\* is one of them.
LEMMA SourceHeads ==
  ASSUME NEW source \in Source, NEW es, es = SourceEntries(source)
  PROVE  /\ Heads(es) \in Nat /\ Heads(es) <= Len(source.head) /\ Len(source.head) \in Nat
         /\ StartOf(source) \in Nat /\ StartOf(source) > 0
         /\ StartOf(source) <= (IF Heads(es) = 0 THEN 1 ELSE Heads(es))
<1>1. PICK giver : giver = IF source.own THEN "own" ELSE "none"
  OBVIOUS
<1>2. PICK h \in Seq(Tracks), l \in Seq(Tracks) : h = source.head /\ l = source.given
  BY DEF Source
<1>3. PICK no, none, head, given, zero :
        no = FALSE /\ none = "none" /\ head = "Head" /\ given = "Continuation" /\ zero = 0
  OBVIOUS
<1>4. /\ giver \in Givers /\ none \in Givers /\ head \in Parts /\ given \in Parts
      /\ no \in BOOLEAN /\ zero \in Nat
  <2>1. no \in BOOLEAN
    BY <1>3, Zenon
  <2> QED BY <1>1, <1>3, <2>1 DEF Givers, Parts
<1>5. PICK a, b : a = EntriesOf(h, head, none, zero, no) /\ b = EntriesOf(l, given, giver, zero, no)
  OBVIOUS
<1>6. es = a \o b
  BY <1>1, <1>2, <1>3, <1>5 DEF SourceEntries
<1>7. OfKind(a, head, no) /\ OfKind(b, given, no)
  BY <1>4, <1>5, EntriesAre
<1>8. a \in Seq(EntryType) /\ b \in Seq(EntryType)
  BY <1>7 DEF OfKind
<1>9. Heads(a) = Len(a)
  <2>1. \A i \in 1..Len(a) : a[i].part = "Head"
    BY <1>3, <1>7 DEF OfKind
  <2> QED BY <1>8, <2>1, AllHeads
<1>10. Heads(b) = 0
  <2>1. \A i \in 1..Len(b) : b[i].part # "Head"
    BY <1>3, <1>7 DEF OfKind
  <2> QED BY <2>1, NoHeads
<1>11. Heads(es) = Heads(a) + Heads(b)
  BY <1>6, <1>8, JoinedHeads
<1>12. PICK S : S = {i \in DOMAIN h : h[i] \notin Unavailable}
  OBVIOUS
<1>13. /\ Len(a) = Cardinality(S) /\ Len(a) \in Nat /\ Len(a) <= Len(h)
       /\ S \subseteq 1..Len(h)
  BY <1>2, <1>5, <1>12, EntriesCount
<1>14. PICK n \in Nat : n = Len(h)
  BY <1>2
<1>15. Heads(es) = Cardinality(S) /\ Cardinality(S) \in Nat /\ Cardinality(S) <= n
  BY <1>9, <1>10, <1>11, <1>13, <1>14
<1>16. CASE source.start \in 1..Len(h) /\ h[source.start] \notin Unavailable
  <2>1. PICK s \in 1..n : s = source.start
    BY <1>14, <1>16
  <2>2. s \in S /\ s \in Nat /\ s \in 0..n
    BY <1>2, <1>12, <1>14, <1>16, <2>1
  <2>3. {i \in 1..s : h[i] \notin Unavailable} = UpTo(S, s)
    <3>1. \A i : i \in 1..s /\ h[i] \notin Unavailable <=> i \in S /\ i <= s
      BY <1>2, <1>12, <1>14, <2>1
    <3> QED BY <3>1 DEF UpTo
  <2>4. StartOf(source) = Count(S, s)
    BY <1>2, <1>16, <2>1, <2>3 DEF StartOf, Count
  <2>5. S \in RowSets /\ Count(S, s) \in 0..Cardinality(S)
    <3>1. S \subseteq 1..n
      BY <1>13, <1>14
    <3> QED BY <2>2, <3>1, CountAll
  <2>6. Count(S, s) > 0
    BY <2>2, <2>5, CountBounds
  <2> QED BY <1>2, <1>14, <1>15, <2>4, <2>5, <2>6
<1>17. CASE ~ (source.start \in 1..Len(h) /\ h[source.start] \notin Unavailable)
  <2>1. StartOf(source) = 1
    BY <1>2, <1>17 DEF StartOf
  <2> QED BY <1>2, <1>14, <1>15, <2>1
<1> QED BY <1>16, <1>17

\* setSource() draws the navigator for the new head.
LEMMA ReplaceNav ==
  ASSUME NEW q, QueueOk(q), NavFine(q), NEW source \in Source, Draws(q.luck, Len(source.head)),
         NEW r, r = Replace(q, source)
  PROVE  NavFine(r) /\ HeadSize(r) <= Len(source.head) /\ r.luck = q.luck /\ StartReady(r)
<1>1. PICK es : es = SourceEntries(source)
  OBVIOUS
<1>2. es \in Seq(EntryType) /\ (es # <<>> => StartOf(source) \in 1..Len(es))
  BY <1>1, SourceEntriesAre
<1>3. PICK playing : playing = IF es = <<>> THEN 0 ELSE StartOf(source)
  OBVIOUS
<1>4. PICK m : m = [q EXCEPT !.own = source.own, !.historyAllowed = source.historyAllowed,
                             !.entries = es, !.playing = playing, !.changed = TRUE]
  OBVIOUS
<1>5. PICK n : n = [NewBase(m) EXCEPT !.history = source.history]
  OBVIOUS
<1>6. r = ResetNavigator(MarkCurrent(n))
  BY <1>1, <1>3, <1>4, <1>5 DEF Replace
<1>7. /\ m.entries = es /\ m.playing = playing /\ m.hint = q.hint /\ m.changed = TRUE
      /\ DOMAIN m = DOMAIN q /\ m.algorithm = q.algorithm /\ m.luck = q.luck
  BY <1>4 DEF QueueOk, QueueFields
<1>8. /\ n.entries = es /\ n.playing = playing /\ n.hint = q.hint /\ n.changed = TRUE
      /\ n.contMark = 0 /\ n.headMark = 0 /\ n.headStart = 0 /\ DOMAIN n = DOMAIN q
      /\ n.algorithm = q.algorithm /\ n.luck = q.luck
  BY <1>5, <1>7 DEF NewBase, QueueOk, QueueFields
<1>9. playing \in 0..Len(es)
  BY <1>2, <1>3
<1>10. QueueOk(n)
  <2>1. n.changed \in BOOLEAN
    BY <1>8, Zenon
  <2>2. n.hint \in Hint /\ QueueFields \subseteq DOMAIN n
    BY <1>8 DEF QueueOk
  <2> QED BY <1>2, <1>8, <1>9, <2>1, <2>2 DEF QueueOk, Entries
<1>11. HeadSize(n) = Heads(es) /\ HeadSize(n) \in Nat /\ HeadSize(n) <= Len(source.head)
       /\ Len(source.head) \in Nat
  BY <1>1, <1>8, SourceHeads DEF HeadSize
<1>12. MarksFine(n)
  <2>1. q.algorithm \in {"random", "shuffled"}
    BY DEF NavFine, MarksFine, MarksNear
  <2> QED BY <1>8, <1>11, <2>1 DEF MarksFine, MarksNear
<1>13. Lucky(n)
  <2>1. PICK a \in Nat, b \in Nat : a = Len(source.head) /\ b = HeadSize(n)
    BY <1>11
  <2>2. Draws(q.luck, a) /\ b \in 0..a
    BY <1>11, <2>1
  <2>3. Draws(q.luck, b)
    BY <2>2, DrawsFewer
  <2> QED BY <1>8, <2>1, <2>3 DEF Lucky
<1>14. PICK k : k = MarkCurrent(n)
  OBVIOUS
<1>15. MarksFine(k) /\ HeadSize(k) = HeadSize(n) /\ k.luck = n.luck
  <2>1. MarksNear(n)
    BY <1>12 DEF MarksFine
  <2> QED BY <1>10, <1>12, <1>13, <1>14, <2>1, MarkCurrentNav
<1>16. QueueOk(k)
  BY <1>10, <1>14, MarkCurrentIs DEF Marks
<1>17. Lucky(k)
  BY <1>13, <1>15 DEF Lucky
<1>18. NavFine(r) /\ HeadSize(r) = HeadSize(k) /\ r.luck = k.luck
  BY <1>6, <1>14, <1>15, <1>16, <1>17, ResetNavigatorNav
<1>19. StartReady(r)
  <2>1. StartOpen(n)
    BY <1>8 DEF StartOpen
  <2>2. StartOpen(k)
    BY <1>10, <1>14, <2>1, MarkCurrentStart
  <2> QED BY <1>6, <1>14, <1>15, <1>16, <1>17, <2>2, ResetNavigatorStart
<1> QED BY <1>8, <1>11, <1>15, <1>18, <1>19

\* What stays under a layer is no head track, so that the head is the source's.
LEMMA ReplaceBaseNav ==
  ASSUME NEW q, QueueOk(q), NavFine(q), NEW source \in Source, Draws(q.luck, Len(source.head)),
         NEW r, r = ReplaceBase(q, source)
  PROVE  NavFine(r) /\ HeadSize(r) <= Len(source.head) /\ r.luck = q.luck /\ StartReady(r)
<1> DEFINE one == [Current(q) EXCEPT !.part = IF @ = "Item" THEN @ ELSE "Other"]
           items == {i \in Rows(q) : IsWaitingItem(q.entries[i])}
<1>1. PICK base : base = SourceEntries(source)
  OBVIOUS
<1>2. base \in Seq(EntryType)
  BY <1>1, SourceEntriesAre
<1>3. PICK current, waiting : /\ current = IF ~ HasCurrent(q) THEN <<>> ELSE <<one>>
                              /\ waiting = EntriesAt(q, items)
  OBVIOUS
<1>4. PICK start : start = IF source.start > 0 THEN StartOf(source) ELSE 0
  OBVIOUS
<1>5. PICK m : m = [q EXCEPT !.own = source.own, !.historyAllowed = source.historyAllowed,
                             !.entries = (current \o waiting) \o base,
                             !.playing = IF HasCurrent(q) THEN 1 ELSE 0, !.changed = TRUE]
  OBVIOUS
<1>6. PICK n : n = [NewBase(m) EXCEPT !.headStart = start, !.history = source.history]
  OBVIOUS
<1>7. r = ResetNavigator(n)
  BY <1>1, <1>3, <1>4, <1>5, <1>6 DEF ReplaceBase
<1>8. PICK front, es : front = current \o waiting /\ es = front \o base
  OBVIOUS
<1>9. /\ m.entries = es /\ m.playing = (IF HasCurrent(q) THEN 1 ELSE 0) /\ m.hint = q.hint
      /\ m.changed = TRUE /\ DOMAIN m = DOMAIN q /\ m.algorithm = q.algorithm /\ m.luck = q.luck
  BY <1>5, <1>8 DEF QueueOk, QueueFields
<1>10. /\ n.entries = es /\ n.playing = (IF HasCurrent(q) THEN 1 ELSE 0) /\ n.hint = q.hint
       /\ n.changed = TRUE /\ n.contMark = 0 /\ n.headMark = 0 /\ n.headStart = start
       /\ DOMAIN n = DOMAIN q /\ n.algorithm = q.algorithm /\ n.luck = q.luck
  BY <1>6, <1>9 DEF NewBase, QueueOk, QueueFields
<1>11. HasCurrent(q) => one \in EntryType /\ one.part # "Head"
  BY SomeRows DEF EntryType, Parts
<1> HIDE DEF one
<1>12. PICK c \in Nat : c = IF HasCurrent(q) THEN 1 ELSE 0
  OBVIOUS
<1>13. current \in Seq(EntryType) /\ Len(current) = c /\ (HasCurrent(q) => current[1] = one)
  BY <1>3, <1>11, <1>12
<1>14. Heads(current) = 0
  <2>1. ASSUME NEW i \in 1..Len(current) PROVE current[i].part # "Head"
    <3>1. HasCurrent(q) /\ i = 1
      BY <1>12, <1>13, <2>1
    <3> QED BY <1>11, <1>13, <3>1
  <2> QED BY <2>1, NoHeads
<1>15. waiting \in Seq(EntryType) /\ Heads(waiting) = 0
  <2>1. PICK S, C : S = items /\ C = HeadRows(q.entries)
    OBVIOUS
  <2>2. S \subseteq Rows(q) /\ S \cap C = {}
    <3>1. ASSUME NEW i \in S PROVE i \in Rows(q) /\ i \notin C
      <4>1. i \in Rows(q) /\ q.entries[i].part = "Item"
        BY <2>1, <3>1 DEF IsWaitingItem, IsPending
      <4> QED BY <2>1, <4>1 DEF HeadRows
    <3> QED BY <3>1
  <2>3. EntriesAt(q, S) \in Seq(EntryType) /\ Heads(EntriesAt(q, S)) = Cardinality(S \cap C)
    BY <2>1, <2>2, PickedHeads
  <2>4. waiting = EntriesAt(q, S)
    BY <1>3, <2>1
  <2> QED BY <2>2, <2>3, <2>4, FS_EmptySet
<1>16. front \in Seq(EntryType) /\ Heads(front) = 0 /\ Len(front) = Len(current) + Len(waiting)
  <2>1. Heads(front) = Heads(current) + Heads(waiting)
    <3>1. current \in Seq(EntryType) /\ waiting \in Seq(EntryType)
      BY <1>13, <1>15
    <3>2. front = current \o waiting
      BY <1>8
    <3>3. Heads(current \o waiting) = Heads(current) + Heads(waiting)
      BY <3>1, JoinedHeads
    <3> QED BY <3>2, <3>3, Zenon
  <2>2. front \in Seq(EntryType) /\ Joined(current, waiting, front)
    <3>1. current \in Seq(EntryType) /\ waiting \in Seq(EntryType)
      BY <1>13, <1>15
    <3>2. front = current \o waiting
      BY <1>8
    <3> QED BY <3>1, <3>2, JoinedIs
  <2> QED BY <1>14, <1>15, <2>1, <2>2 DEF Joined
<1>17. es \in Seq(EntryType) /\ Heads(es) = Heads(base) /\ Len(es) = Len(front) + Len(base)
  <2>1. Heads(es) = Heads(front) + Heads(base)
    BY <1>2, <1>8, <1>16, JoinedHeads
  <2>2. es \in Seq(EntryType) /\ Len(es) = Len(front) + Len(base)
    BY <1>2, <1>8, <1>16, JoinedAre
  <2>3. Heads(base) \in Nat
    BY <1>1, SourceHeads
  <2> QED BY <1>16, <2>1, <2>2, <2>3
<1>18. Len(es) \in Nat /\ Len(es) >= c
  <2>1. Len(waiting) \in Nat /\ Len(base) \in Nat
    BY <1>2, <1>15
  <2> QED BY <1>12, <1>13, <1>16, <1>17, <2>1
<1>19. QueueOk(n)
  <2>1. n.changed \in BOOLEAN
    BY <1>10, Zenon
  <2>2. n.playing \in 0..Len(n.entries) /\ n.contMark \in Int
    BY <1>10, <1>12, <1>18
  <2>3. n.entries \in Entries /\ n.hint \in Hint /\ QueueFields \subseteq DOMAIN n
    BY <1>10, <1>17 DEF Entries, QueueOk
  <2> QED BY <2>1, <2>2, <2>3 DEF QueueOk
<1>20. /\ HeadSize(n) = Heads(base) /\ HeadSize(n) \in Nat /\ HeadSize(n) <= Len(source.head)
       /\ Len(source.head) \in Nat
       /\ start \in Nat /\ start <= (IF HeadSize(n) = 0 THEN 1 ELSE HeadSize(n))
  BY <1>1, <1>4, <1>10, <1>17, SourceHeads DEF HeadSize
<1>21. MarksFine(n)
  <2>1. q.algorithm \in {"random", "shuffled"}
    BY DEF NavFine, MarksFine, MarksNear
  <2> QED BY <1>10, <1>20, <2>1 DEF MarksFine, MarksNear
<1>22. Lucky(n)
  <2>1. PICK a \in Nat, b \in Nat : a = Len(source.head) /\ b = HeadSize(n)
    BY <1>20
  <2>2. Draws(q.luck, a) /\ b \in 0..a
    BY <1>20, <2>1
  <2>3. Draws(q.luck, b)
    BY <2>2, DrawsFewer
  <2> QED BY <1>10, <2>1, <2>3 DEF Lucky
<1>23. NavFine(r) /\ HeadSize(r) = HeadSize(n) /\ r.luck = n.luck
  BY <1>7, <1>19, <1>21, <1>22, ResetNavigatorNav
<1>24. StartReady(r)
  <2>1. StartOpen(n)
    BY <1>10 DEF StartOpen
  <2> QED BY <1>7, <1>19, <1>21, <1>22, <2>1, ResetNavigatorStart
<1> QED BY <1>10, <1>20, <1>23, <1>24

\* Each change of a mode rebuilds the navigator at the mark.
LEMMA ModesNav ==
  ASSUME NEW q, QueueOk(q), NavFine(q), Lucky(q), NEW r,
         \/ \E on : r = SetShuffle(q, on)
         \/ \E on : r = SetRepeat(q, on)
         \/ \E a \in {"random", "shuffled"} : r = SetShuffleAlgorithm(q, a)
  PROVE  NavFine(r) /\ HeadSize(r) = HeadSize(q) /\ StartHolds(q, r)
<1>1. CASE \E on : r = SetShuffle(q, on)
  <2>1. PICK on, m : m = [q EXCEPT !.shuffle = on] /\ r = ResetNavigator(m)
    BY <1>1 DEF SetShuffle
  <2>2. /\ SameRows(q, m) /\ m.headMark = q.headMark /\ m.headStart = q.headStart
        /\ m.algorithm = q.algorithm /\ m.luck = q.luck
    BY <2>1 DEF SameRows, QueueOk, QueueFields
  <2>3. QueueOk(m) /\ HeadSize(m) = HeadSize(q)
    BY <2>2, SameRowsOk DEF SameRows, HeadSize
  <2>4. MarksFine(m) /\ Lucky(m)
    BY <2>2, <2>3 DEF SameRows, NavFine, MarksFine, MarksNear, Lucky
  <2>5. NavFine(r) /\ HeadSize(r) = HeadSize(m)
    BY <2>1, <2>3, <2>4, ResetNavigatorNav
  <2>6. ASSUME StartReady(q) PROVE StartStays(q, r) /\ StartReady(r)
    <3>1. StartOpen(m)
      BY <2>2, <2>6 DEF StartReady, StartOpen
    <3>2. StartStays(m, r) /\ StartReady(r)
      BY <2>1, <2>3, <2>4, <3>1, ResetNavigatorStart
    <3> QED BY <2>2, <3>2 DEF SameRows, StartStays, Started, StartIs
  <2> QED BY <2>3, <2>5, <2>6 DEF StartHolds
<1>2. CASE \E on : r = SetRepeat(q, on)
  <2>1. PICK on : r = SetRepeat(q, on)
    BY <1>2
  <2>2. NavAlike(q, r) /\ r.entries = q.entries
    BY <2>1 DEF SetRepeat, NavAlike, HeadSize, QueueOk, QueueFields
  <2>3. StartHolds(q, r)
    BY <2>2, SameStays, StartSame DEF NavAlike, StartHolds
  <2> QED BY <2>2, <2>3, NavSame DEF NavAlike
<1>3. CASE \E a \in {"random", "shuffled"} : r = SetShuffleAlgorithm(q, a)
  <2> PICK a \in {"random", "shuffled"} : r = SetShuffleAlgorithm(q, a)
    BY <1>3
  <2>1. PICK m : m = [q EXCEPT !.algorithm = a]
    OBVIOUS
  <2>2. /\ SameRows(q, m) /\ m.headMark = q.headMark /\ m.headStart = q.headStart
        /\ m.algorithm = a /\ m.luck = q.luck /\ m.nav = q.nav /\ m.shuffle = q.shuffle
        /\ m.own = q.own
    BY <2>1 DEF SameRows, QueueOk, QueueFields
  <2>3. QueueOk(m) /\ HeadSize(m) = HeadSize(q)
    BY <2>2, SameRowsOk DEF SameRows, HeadSize
  <2>4. MarksFine(m) /\ Lucky(m)
    BY <2>2, <2>3 DEF SameRows, NavFine, MarksFine, MarksNear, Lucky
  <2>5. r = IF ShuffleActive(q) THEN ResetNavigator(m) ELSE m
    BY <2>1 DEF SetShuffleAlgorithm
  <2>6. StartHolds(q, m)
    BY <2>2, <2>3, SameStays, StartSame DEF SameRows, StartHolds
  <2>7. CASE ShuffleActive(q)
    <3>1. NavFine(r) /\ HeadSize(r) = HeadSize(m)
      BY <2>3, <2>4, <2>5, <2>7, ResetNavigatorNav
    <3>2. StartOpen(m) => StartStays(m, r) /\ StartReady(r)
      BY <2>3, <2>4, <2>5, <2>7, ResetNavigatorStart
    <3> QED BY <2>3, <2>6, <3>1, <3>2 DEF StartHolds, StartReady, StartStays
  <2>8. CASE ~ ShuffleActive(q)
    <3>1. r = m /\ KindOf(m) = KindOf(q)
      BY <2>2, <2>5, <2>8 DEF KindOf, ShuffleActive
    <3> QED BY <2>2, <2>3, <2>4, <2>6, <3>1 DEF NavFine
  <2> QED BY <2>7, <2>8
<1> QED BY <1>1, <1>2, <1>3
=============================================================================
