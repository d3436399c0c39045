----------------------------- MODULE DataLemmas -----------------------------
(***************************************************************************)
(* Facts about numbers, sequences and their operators that the proofs of   *)
(* several modules need.                                                   *)
(***************************************************************************)
EXTENDS Integers, Sequences, SequencesExt, FiniteSetTheorems, WellFoundedInduction, TLAPS

-----------------------------------------------------------------------------
(* Every nonempty set of natural numbers has a least element: induction,   *)
(* as a fact about sets.                                                   *)
LEMMA SmallestOf ==
    ASSUME NEW S \in SUBSET Nat, S # {}
    PROVE  \E x \in S : \A y \in S : x <= y
<1>1. \E x \in S : \A y \in S : ~(<<y, x>> \in OpToRel(<, Nat))
  BY NatLessThanWellFounded, WFMin
<1>2. PICK x \in S : \A y \in S : ~(<<y, x>> \in OpToRel(<, Nat))
  BY <1>1
<1>3. \A y \in S : ~(y < x)
  BY <1>2 DEF OpToRel
<1>4. QED BY <1>3

(* Every nonempty subset of 1..n has the largest element Max names.        *)
LEMMA LargestOf ==
    ASSUME NEW n \in Nat, NEW S \in SUBSET (1..n), S # {}
    PROVE  Max(S) \in S /\ \A y \in S : y <= Max(S)
<1> DEFINE T == {n - y : y \in S}
<1>1. T \in SUBSET Nat /\ T # {}
  <2>1. \A y \in S : n - y \in Nat
    OBVIOUS
  <2>2. T # {}
    <3>1. PICK y \in S : TRUE
      OBVIOUS
    <3>2. n - y \in T
      BY <3>1
    <3>3. QED BY <3>2
  <2>3. QED BY <2>1, <2>2
<1>2. PICK t \in T : \A u \in T : t <= u
  BY <1>1, SmallestOf
<1>3. PICK x \in S : t = n - x
  BY <1>2
<1>4. \A y \in S : x >= y
  <2> TAKE y \in S
  <2>1. n - y \in T
    OBVIOUS
  <2>2. QED BY <1>2, <1>3, <2>1
<1>5. Max(S) \in S /\ \A y \in S : Max(S) >= y
  BY <1>3, <1>4 DEF Max
<1>6. QED BY <1>5

-----------------------------------------------------------------------------
(* Appending to a sequence, and its prefixes.                              *)

LEMMA AppendFacts ==
    ASSUME NEW S, NEW s \in Seq(S), NEW e \in S
    PROVE  /\ Append(s, e) \in Seq(S) /\ Len(s) \in Nat /\ Len(Append(s, e)) = Len(s) + 1
           /\ DOMAIN s = 1..Len(s) /\ DOMAIN Append(s, e) = 1..(Len(s) + 1)
           /\ \A i \in 1..Len(s) : Append(s, e)[i] = s[i]
           /\ Append(s, e)[Len(s) + 1] = e
           /\ s \o <<e>> = Append(s, e) /\ s \o <<>> = s
OBVIOUS

LEMMA AppendSet ==
    ASSUME NEW S, NEW s \in Seq(S), NEW e \in S
    PROVE  ToSet(Append(s, e)) = ToSet(s) \union {e}
<1>1. ASSUME NEW x \in ToSet(Append(s, e)) PROVE x \in ToSet(s) \union {e}
  BY AppendFacts DEF ToSet
<1>2. ASSUME NEW x \in ToSet(s) \union {e} PROVE x \in ToSet(Append(s, e))
  <2>1. CASE x \in ToSet(s)
    <3>1. PICK i \in 1..Len(s) : x = s[i]
      BY <2>1, AppendFacts DEF ToSet
    <3>2. i \in DOMAIN Append(s, e) /\ x = Append(s, e)[i]
      BY <3>1, AppendFacts
    <3>3. QED BY <3>2 DEF ToSet
  <2>2. CASE x = e
    <3>1. Len(s) + 1 \in DOMAIN Append(s, e) /\ x = Append(s, e)[Len(s) + 1]
      BY <2>2, AppendFacts
    <3>2. QED BY <3>1 DEF ToSet
  <2>3. QED BY <1>2, <2>1, <2>2
<1>3. QED BY <1>1, <1>2

LEMMA AppendStaysInjective ==
    ASSUME NEW S, NEW s \in Seq(S), NEW e \in S, IsInjective(s), e \notin ToSet(s)
    PROVE  IsInjective(Append(s, e))
<1>1. \A i \in 1..Len(s) : s[i] # e
  BY AppendFacts DEF ToSet
<1>2. DOMAIN Append(s, e) = 1..(Len(s) + 1)
  BY AppendFacts
<1>3. \A a, b \in 1..Len(s) : s[a] = s[b] => a = b
  BY AppendFacts DEF IsInjective
<1>4. ASSUME NEW i \in 1..(Len(s) + 1), NEW j \in 1..(Len(s) + 1),
             Append(s, e)[i] = Append(s, e)[j]
      PROVE  i = j
  <2>1. \A k \in 1..(Len(s) + 1) :
            /\ k \in 1..Len(s) => Append(s, e)[k] = s[k] /\ s[k] # e
            /\ k \notin 1..Len(s) => k = Len(s) + 1 /\ Append(s, e)[k] = e
    BY <1>1, AppendFacts
  <2>2. QED BY <1>3, <1>4, <2>1
<1>5. QED BY <1>2, <1>4 DEF IsInjective

LEMMA PrefixFacts ==
    ASSUME NEW S, NEW s \in Seq(S), NEW e \in S
    PROVE  /\ SubSeq(s, 1, Len(s)) = s /\ SubSeq(s, 1, 0) = <<>>
           /\ \A n \in 0..Len(s) : /\ Len(SubSeq(s, 1, n)) = n
                                    /\ SubSeq(Append(s, e), 1, n) = SubSeq(s, 1, n)
           /\ \A n \in 1..Len(s) : Append(SubSeq(s, 1, n - 1), s[n]) = SubSeq(s, 1, n)
<1>1. SubSeq(s, 1, Len(s)) = s
  OBVIOUS
<1>2. SubSeq(s, 1, 0) = <<>>
  OBVIOUS
<1>3. ASSUME NEW n \in 0..Len(s)
      PROVE  Len(SubSeq(s, 1, n)) = n /\ SubSeq(Append(s, e), 1, n) = SubSeq(s, 1, n)
  OBVIOUS
<1>4. ASSUME NEW n \in 1..Len(s) PROVE Append(SubSeq(s, 1, n - 1), s[n]) = SubSeq(s, 1, n)
  OBVIOUS
<1>5. QED BY <1>1, <1>2, <1>3, <1>4

-----------------------------------------------------------------------------
(* The elements of a finite set ordered by a number each of them has.      *)

(* How many there are up to k grows with k and never exceeds them all.     *)
LEMMA UpToGrows ==
    ASSUME NEW S, IsFiniteSet(S), NEW f \in [S -> Nat], NEW j \in Nat, NEW k \in Nat, j <= k
    PROVE  /\ Cardinality({s \in S : f[s] <= j}) \in Nat
           /\ Cardinality({s \in S : f[s] <= j}) <= Cardinality({s \in S : f[s] <= k})
           /\ Cardinality({s \in S : f[s] <= k}) <= Cardinality(S)
<1> DEFINE UpTo(n) == {s \in S : f[s] <= n}
<1>1. UpTo(j) \subseteq UpTo(k) /\ UpTo(k) \subseteq S
  OBVIOUS
<1>2. IsFiniteSet(UpTo(k)) /\ IsFiniteSet(UpTo(j))
  BY <1>1, FS_Subset
<1>3. Cardinality(UpTo(j)) \in Nat
  BY <1>2, FS_CardinalityType
<1>4. Cardinality(UpTo(j)) <= Cardinality(UpTo(k)) /\ Cardinality(UpTo(k)) <= Cardinality(S)
  BY <1>1, <1>2, FS_Subset
<1>5. QED BY <1>3, <1>4

LEMMA BoundOf ==
    ASSUME NEW S, IsFiniteSet(S), NEW f \in [S -> Nat]
    PROVE  \E k \in Nat : \A s \in S : f[s] <= k
<1> DEFINE UpTo(n) == {s \in S : f[s] <= n}
           N == Cardinality(S)
           Missing == {N - Cardinality(UpTo(n)) : n \in Nat}
<1>1. N \in Nat /\ \A n \in Nat : IsFiniteSet(UpTo(n)) /\ Cardinality(UpTo(n)) \in Nat
                                    /\ Cardinality(UpTo(n)) <= N
  BY UpToGrows, FS_CardinalityType, FS_Subset
<1> HIDE DEF N, UpTo
<1>2. Missing \in SUBSET Nat /\ N - Cardinality(UpTo(0)) \in Missing
  BY <1>1
<1>3. PICK m \in Missing : \A n \in Missing : m <= n
  BY <1>2, SmallestOf
<1>4. PICK k \in Nat : m = N - Cardinality(UpTo(k))
  BY <1>3
<1>5. \A n \in Nat : Cardinality(UpTo(n)) <= Cardinality(UpTo(k))
  <2> TAKE n \in Nat
  <2>1. N - Cardinality(UpTo(k)) <= N - Cardinality(UpTo(n))
    BY <1>3, <1>4
  <2>2. QED BY <1>1, <2>1
<1>6. \A s \in S : f[s] <= k
  <2> SUFFICES ASSUME NEW s \in S, ~(f[s] <= k) PROVE FALSE
    OBVIOUS
  <2>1. f[s] \in Nat /\ UpTo(k) \subseteq UpTo(f[s]) /\ s \in UpTo(f[s]) /\ s \notin UpTo(k)
    BY DEF UpTo
  <2>2. Cardinality(UpTo(k)) < Cardinality(UpTo(f[s]))
    <3>1. IsFiniteSet(UpTo(f[s])) /\ UpTo(k) \in SUBSET UpTo(f[s]) /\ UpTo(k) # UpTo(f[s])
      BY <1>1, <2>1
    <3>2. /\ Cardinality(UpTo(k)) <= Cardinality(UpTo(f[s]))
          /\ Cardinality(UpTo(k)) # Cardinality(UpTo(f[s]))
      BY <3>1, FS_Subset
    <3>3. QED BY <1>1, <2>1, <3>2
  <2>3. QED BY <1>1, <1>5, <2>1, <2>2
<1>7. QED BY <1>6

CountBelow(S, f, n) == Cardinality({s \in S : f[s] < n})
CountUpTo(S, f, n) == Cardinality({s \in S : f[s] <= n})

(* The one in place i, counted from 0, when they are sorted.               *)
LEMMA OrderStatistic ==
    ASSUME NEW S, IsFiniteSet(S), NEW f \in [S -> Nat], NEW i \in 0..(Cardinality(S) - 1)
    PROVE  \E s \in S : CountBelow(S, f, f[s]) <= i /\ CountUpTo(S, f, f[s]) > i
<1> DEFINE UpTo(n) == {s \in S : f[s] <= n}
           Below(n) == {s \in S : f[s] < n}
           W == {n \in Nat : Cardinality(UpTo(n)) > i}
<1>1. Cardinality(S) \in Nat /\ i < Cardinality(S) /\ i \in Nat
  BY FS_CardinalityType
<1>n. \A n \in Nat : Cardinality(UpTo(n)) \in Nat
  <2> TAKE n \in Nat
  <2>1. n <= n
    OBVIOUS
  <2>2. QED BY <2>1, UpToGrows
<1>2. PICK k \in Nat : \A s \in S : f[s] <= k
  BY BoundOf
<1>3. UpTo(k) = S
  BY <1>2
<1>4. W \in SUBSET Nat /\ k \in W
  BY <1>1, <1>3
<1>5. PICK x \in W : \A n \in W : x <= n
  BY <1>4, SmallestOf
<1>6. x \in Nat /\ Cardinality(UpTo(x)) > i
  BY <1>5
<1>7. Cardinality(Below(x)) <= i
  <2>1. CASE x = 0
    <3>1. Below(x) = {}
      BY <2>1
    <3>2. QED BY <1>1, <3>1, FS_EmptySet
  <2>2. CASE x # 0
    <3>1. x - 1 \in Nat /\ ~(x <= x - 1)
      BY <1>6, <2>2
    <3>2. Below(x) = UpTo(x - 1)
      BY <1>6
    <3>3. x - 1 \notin W
      BY <1>5, <3>1
    <3>4. Cardinality(UpTo(x - 1)) \in Nat
      BY <3>1, <1>n
    <3>5. ~(Cardinality(UpTo(x - 1)) > i)
      BY <3>1, <3>3
    <3> HIDE DEF UpTo, Below
    <3>6. QED BY <1>1, <3>2, <3>4, <3>5
  <2>3. QED BY <2>1, <2>2
<1>8. \E s \in S : f[s] = x
  <2> SUFFICES ASSUME \A s \in S : f[s] # x PROVE FALSE
    OBVIOUS
  <2>1. Below(x) = UpTo(x)
    BY <1>6
  <2>2. Cardinality(UpTo(x)) \in Nat
    BY <1>6, <1>n
  <2>3. QED BY <1>1, <1>6, <1>7, <2>1, <2>2
<1>9. CountBelow(S, f, x) <= i /\ CountUpTo(S, f, x) > i
  BY <1>6, <1>7 DEF CountBelow, CountUpTo
<1>10. QED BY <1>8, <1>9

=============================================================================
