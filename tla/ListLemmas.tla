------------------------------ MODULE ListLemmas ------------------------------
(***************************************************************************)
(* Facts about numbers and lists that the proofs of several components     *)
(* use: the least element of a set of numbers, the rank of an element in   *)
(* it, and what is left of a list after erase().                           *)
(***************************************************************************)
EXTENDS Integers, Sequences, SequencesExt, TLAPS, NaturalsInduction, WellFoundedInduction,
        SequenceTheorems, FiniteSetTheorems

\* A set of numbers that is not empty has a least one.
LEMMA LeastNat ==
  ASSUME NEW S \in SUBSET Nat, S # {}
  PROVE  \E x \in S : \A y \in S : x <= y
<1> DEFINE R == OpToRel(<, Nat)
<1>1. IsWellFoundedOn(R, Nat)
  BY NatLessThanWellFounded
<1>2. ASSUME NEW a \in Nat, NEW b \in Nat, a < b
      PROVE  <<a, b>> \in R
  BY <1>2 DEF OpToRel
<1> HIDE DEF R
<1>3. PICK x \in S : \A y \in S : <<y, x>> \notin R
  BY <1>1, WFMin
<1>4. ASSUME NEW y \in S PROVE x <= y
  <2>1. ~ (y < x)
    BY <1>2, <1>3
  <2> QED
    BY <2>1
<1> QED
  BY <1>4

\* Min of FiniteSetsExt is one of the set.
LEMMA MinIsLeast ==
  ASSUME NEW S \in SUBSET Nat, S # {}
  PROVE  Min(S) \in S /\ \A y \in S : Min(S) <= y
BY LeastNat DEF Min

\* erase() of one position keeps the others in their order.
LEMMA RemoveAtProperties ==
  ASSUME NEW S, NEW s \in Seq(S), NEW k \in 1 .. Len(s)
  PROVE  /\ RemoveAt(s, k) \in Seq(S)
         /\ Len(RemoveAt(s, k)) = Len(s) - 1
         /\ \A i \in 1 .. Len(s) - 1 : RemoveAt(s, k)[i] = IF i < k THEN s[i] ELSE s[i + 1]
<1> DEFINE a == SubSeq(s, 1, k - 1)
           b == SubSeq(s, k + 1, Len(s))
<1>1. a \in Seq(S) /\ Len(a) = k - 1 /\ \A i \in 1 .. k - 1 : a[i] = s[i]
  OBVIOUS
<1>2. b \in Seq(S) /\ Len(b) = Len(s) - k /\ \A i \in 1 .. Len(s) - k : b[i] = s[k + i]
  OBVIOUS
<1>3. RemoveAt(s, k) = a \o b
  BY DEF RemoveAt
<1> HIDE DEF a, b
<1>4. Len(s) \in Nat /\ k \in Nat /\ k >= 1 /\ k <= Len(s)
  OBVIOUS
<1>5. RemoveAt(s, k) \in Seq(S) /\ Len(RemoveAt(s, k)) = Len(s) - 1
  <2>1. a \o b \in Seq(S)
    BY <1>1, <1>2
  <2>2. Len(a \o b) = Len(a) + Len(b)
    BY <1>1, <1>2, ConcatProperties
  <2>3. k - 1 + (Len(s) - k) = Len(s) - 1
    BY <1>4
  <2> QED
    BY <1>1, <1>2, <1>3, <2>1, <2>2, <2>3
<1>6. ASSUME NEW i \in 1 .. Len(s) - 1
      PROVE  RemoveAt(s, k)[i] = IF i < k THEN s[i] ELSE s[i + 1]
  <2>1. CASE i < k
    BY <1>1, <1>2, <1>3, <1>4, <2>1
  <2>2. CASE ~ (i < k)
    <3>1. (a \o b)[i] = b[i - Len(a)]
      BY <1>1, <1>2, <1>4, <2>2
    <3>2. i - (k - 1) \in 1 .. Len(s) - k /\ k + (i - (k - 1)) = i + 1
      BY <1>4, <2>2
    <3> QED
      BY <1>1, <1>2, <1>3, <2>2, <3>1, <3>2
  <2> QED
    BY <2>1, <2>2
<1> QED
  BY <1>5, <1>6
\* In a finite set of numbers there is, for each i below its size, one number
\* with i numbers of the set below it.
LEMMA RankIsBijection ==
  ASSUME NEW S \in SUBSET Nat, IsFiniteSet(S)
  PROVE  [x \in S |-> Cardinality({y \in S : y < x})] \in Bijection(S, 0 .. Cardinality(S) - 1)
<1> DEFINE n == Cardinality(S)
           Below(x) == {y \in S : y < x}
           r == [x \in S |-> Cardinality(Below(x))]
           T == 0 .. n - 1
<1>1. n \in Nat
  BY FS_CardinalityType
<1>2. \A x \in S : Below(x) \subseteq S /\ IsFiniteSet(Below(x)) /\ Cardinality(Below(x)) \in Nat
  BY FS_Subset, FS_CardinalityType
<1>3. \A x \in S : Cardinality(Below(x)) < n
  <2> TAKE x \in S
  <2>1. Cardinality(Below(x)) <= n /\ (n = Cardinality(Below(x)) => S = Below(x))
    BY <1>2, FS_Subset
  <2>2. x \notin Below(x)
    OBVIOUS
  <2> QED
    BY <1>1, <1>2, <2>1, <2>2
<1>4. r \in [S -> T]
  BY <1>1, <1>2, <1>3
<1>5. \A x, y \in S : x < y => Cardinality(Below(x)) < Cardinality(Below(y))
  <2> SUFFICES ASSUME NEW x \in S, NEW y \in S, x < y
               PROVE  Cardinality(Below(x)) < Cardinality(Below(y))
    OBVIOUS
  <2>0. \A z \in S : z \in Nat
    OBVIOUS
  <2>1. Below(x) \subseteq Below(y) /\ x \in Below(y) /\ x \notin Below(x)
    <3>1. \A z \in S : z < x => z < y
      BY <2>0
    <3>2. ~(x < x)
      BY <2>0
    <3> QED
      BY <3>1, <3>2
  <2>2. /\ Cardinality(Below(x)) <= Cardinality(Below(y))
        /\ Cardinality(Below(y)) = Cardinality(Below(x)) => Below(y) = Below(x)
    BY <1>2, <2>1, FS_Subset
  <2> QED
    BY <1>2, <2>1, <2>2
<1> HIDE DEF Below
<1>6. \A x, y \in S : r[x] = r[y] => x = y
  <2> SUFFICES ASSUME NEW x \in S, NEW y \in S, r[x] = r[y], x # y
               PROVE  FALSE
    OBVIOUS
  <2>1. x < y \/ y < x
    OBVIOUS
  <2>2. Cardinality(Below(x)) \in Nat /\ Cardinality(Below(y)) \in Nat
    BY <1>2
  <2> QED
    BY <1>5, <2>1, <2>2
<1>7. IsFiniteSet(T) /\ Cardinality(T) = n
  <2>1. 0 \in Int /\ n - 1 \in Int /\ (IF 0 > n - 1 THEN 0 ELSE n - 1 - 0 + 1) = n
    BY <1>1
  <2> QED
    BY <2>1, FS_Interval
<1>8. r \in Injection(S, T)
  BY <1>4, <1>6 DEF Injection, IsInjective
<1>9. r \in Surjection(S, T)
  BY <1>7, <1>8, FS_Injection
<1> QED
  BY <1>8, <1>9 DEF Bijection, Below

\* The first n of a set of numbers are n.
LEMMA FirstOnes ==
  ASSUME NEW S \in SUBSET Nat, IsFiniteSet(S), NEW n \in Nat, n <= Cardinality(S)
  PROVE  Cardinality({x \in S : Cardinality({y \in S : y < x}) < n}) = n
<1> DEFINE r == [x \in S |-> Cardinality({y \in S : y < x})]
           T == 0 .. Cardinality(S) - 1
           First == {x \in S : r[x] < n}
           f == [x \in First |-> r[x]]
<1>1. Cardinality(S) \in Nat
  BY FS_CardinalityType
<1>2. r \in Bijection(S, T)
  BY RankIsBijection
<1>3. r \in [S -> T] /\ \A x, y \in S : r[x] = r[y] => x = y
  BY <1>2 DEF Bijection, Injection, IsInjective
<1>4. \A i \in T : \E x \in S : r[x] = i
  BY <1>2 DEF Bijection, Surjection
<1>9. First = {x \in S : Cardinality({y \in S : y < x}) < n}
  OBVIOUS
<1> HIDE DEF r
<1>5. f \in [First -> 0 .. n - 1] /\ \A x, y \in First : f[x] = f[y] => x = y
  <2>1. \A x \in First : r[x] \in 0 .. n - 1
    BY <1>1, <1>3
  <2> QED
    BY <1>3, <2>1
<1>6. \A i \in 0 .. n - 1 : \E x \in First : f[x] = i
  <2> TAKE i \in 0 .. n - 1
  <2>1. i \in T /\ i < n
    BY <1>1
  <2>2. PICK x \in S : r[x] = i
    BY <1>4, <2>1
  <2> QED
    BY <2>1, <2>2
<1>7. f \in Injection(First, 0 .. n - 1) /\ f \in Surjection(First, 0 .. n - 1)
  BY <1>5, <1>6 DEF Injection, IsInjective, Surjection
<1>8. IsFiniteSet(0 .. n - 1) /\ Cardinality(0 .. n - 1) = n
  <2>1. 0 \in Int /\ n - 1 \in Int /\ (IF 0 > n - 1 THEN 0 ELSE n - 1 - 0 + 1) = n
    OBVIOUS
  <2> QED
    BY <2>1, FS_Interval
<1>10. Cardinality(First) = n
  BY <1>7, <1>8, FS_Injection
<1> QED
  BY <1>9, <1>10
=============================================================================
