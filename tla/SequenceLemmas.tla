--------------------------- MODULE SequenceLemmas ---------------------------
(***************************************************************************)
(* Facts about sequences, sums, induction and recursive functions that the *)
(* proofs about the components share.  The principles of induction and     *)
(* recursion are stated with a set and a function where one would usually  *)
(* have an operator, so that they can be applied by naming that set or     *)
(* function.                                                               *)
(***************************************************************************)
EXTENDS Integers, SequencesExt, SequenceTheorems, FiniteSetTheorems, NaturalsInduction,
        WellFoundedInduction, TLAPS

-----------------------------------------------------------------------------
(***************************************************************************)
(* Induction.                                                              *)
(***************************************************************************)

\* A set of natural numbers has a least one.
LEMMA LeastNumber ==
    ASSUME NEW T, T \subseteq Nat, T /= {}
    PROVE  \E m \in T : \A k \in T : m <= k
<1> DEFINE R == {ss \in Nat \X Nat : ss[1] < ss[2]}
<1>1. IsWellFoundedOn(R, Nat)
  BY NatLessThanWellFounded DEF OpToRel
<1>2. PICK m \in T : \A k \in T : <<k, m>> \notin R
  <2> HIDE DEF R
  <2> QED
    BY <1>1, WFMin
<1>3. ASSUME NEW k \in T PROVE m <= k
  <2>1. ~(k < m)
    BY <1>2
  <2> QED
    BY <2>1
<1> QED
  BY <1>3

\* A set of numbers with an upper bound has a largest one, which is its Max.
LEMMA LargestIndex ==
    ASSUME NEW k \in Nat, NEW s \in SUBSET (1..k), s /= {}
    PROVE  Max(s) \in s /\ \A x \in s : x <= Max(s)
<1>1. \E x \in s : \A y \in s : y <= x
  <2> DEFINE D == {d \in Nat : d <= k /\ k - d \in s}
  <2>1. D \subseteq Nat /\ D /= {}
    <3>1. PICK x \in s : TRUE
      OBVIOUS
    <3>2. x \in 1..k /\ k - x \in D
      OBVIOUS
    <3> QED
      BY <3>2
  <2>2. PICK d \in D : \A e \in D : d <= e
    <3> HIDE DEF D
    <3> QED
      BY <2>1, LeastNumber
  <2>3. ASSUME NEW y \in s PROVE y <= k - d
    <3>1. y \in 1..k /\ k - y \in D
      OBVIOUS
    <3>2. d <= k - y /\ d \in Nat
      BY <2>2, <3>1
    <3> QED
      BY <3>1, <3>2
  <2> QED
    BY <2>3
<1> QED
  BY <1>1 DEF Max

\* Induction up to n, for a property that is given by the set T of the numbers
\* that have it: the loops of the code that count up to n keep their invariant.
LEMMA Induction ==
    ASSUME NEW n \in Nat, NEW T,
           0 \in T,
           \A k \in 0..n : k \in T /\ k < n => k + 1 \in T
    PROVE  0..n \subseteq T
<1> SUFFICES ASSUME NEW j \in 0..n, j \notin T PROVE FALSE
  OBVIOUS
<1> DEFINE U == {k \in 0..n : k \notin T}
<1>1. PICK m \in U : \A k \in U : m <= k
  <2>1. U \subseteq Nat /\ U /= {}
    OBVIOUS
  <2> HIDE DEF U
  <2> QED
    BY <2>1, LeastNumber
<1>2. m - 1 \in 0..n /\ m - 1 \in T
  BY <1>1
<1> QED
  BY <1>1, <1>2

\* A loop that starts with a and makes f[i] of f[i - 1] in its i-th round has a
\* result: the recursive functions of the modules are well-defined.
LEMMA Recursion ==
    ASSUME NEW S, NEW a \in S, NEW n \in Nat, NEW step \in [1..n -> [S -> S]]
    PROVE  \E f \in [0..n -> S] : f[0] = a /\ \A i \in 1..n : f[i] = step[i][f[i - 1]]
<1> DEFINE OK(k, f) == f[0] = a /\ \A i \in 1..k : f[i] = step[i][f[i - 1]]
           T == {k \in 0..n : \E f \in [0..k -> S] : OK(k, f)}
<1>1. 0 \in T
  <2> DEFINE f == [i \in 0..0 |-> a]
  <2>1. f \in [0..0 -> S] /\ OK(0, f)
    OBVIOUS
  <2> HIDE DEF f, OK
  <2> QED
    BY <2>1
<1>2. ASSUME NEW k \in 0..n, k \in T, k < n PROVE k + 1 \in T
  <2>1. PICK f \in [0..k -> S] : OK(k, f)
    BY <1>2
  <2> DEFINE v == step[k + 1][f[k]]
             g == [i \in 0..(k + 1) |-> IF i = k + 1 THEN v ELSE f[i]]
  <2>2. v \in S
    BY <1>2
  <2>3. g \in [0..(k + 1) -> S]
    <3> HIDE DEF v
    <3> QED
      BY <2>2
  <2>4. g[0] = a
    BY <2>1
  <2>5. ASSUME NEW i \in 1..(k + 1) PROVE g[i] = step[i][g[i - 1]]
    <3>1. CASE i = k + 1
      <4>1. g[i] = v /\ g[i - 1] = f[k]
        BY <3>1
      <4> QED
        BY <3>1, <4>1
    <3>2. CASE i \in 1..k
      <4>1. g[i] = f[i] /\ g[i - 1] = f[i - 1]
        BY <3>2
      <4> QED
        BY <3>2, <4>1, <2>1
    <3> QED
      BY <3>1, <3>2
  <2>6. OK(k + 1, g)
    <3> HIDE DEF g
    <3> QED
      BY <2>4, <2>5
  <2> HIDE DEF g, OK
  <2> QED
    BY <2>3, <2>6, <1>2
<1> HIDE DEF T
<1>3. n \in T
  <2>1. \A k \in 0..n : k \in T /\ k < n => k + 1 \in T
    BY <1>2
  <2>2. 0..n \subseteq T
    BY <1>1, <2>1, Induction
  <2> QED
    BY <2>2
<1> QED
  BY <1>3 DEF T

-----------------------------------------------------------------------------
(***************************************************************************)
(* Lists.                                                                  *)
(***************************************************************************)

\* Leaving entry k out of a sequence without repetitions.
LEMMA SkipEntry ==
    ASSUME NEW S, NEW q \in Seq(S), NEW r \in Seq(S), NEW k \in 1..Len(q),
           IsInjective(q),
           Len(r) = Len(q) - 1,
           \A i \in 1..Len(r) : r[i] = IF i < k THEN q[i] ELSE q[i + 1]
    PROVE  Range(r) = Range(q) \ {q[k]} /\ IsInjective(r)
<1>0. DOMAIN q = 1..Len(q) /\ DOMAIN r = 1..Len(r) /\ Len(q) \in Nat /\ Len(r) \in Nat
  OBVIOUS
<1>1. ASSUME NEW i \in 1..Len(r)
      PROVE  \E j \in 1..Len(q) : j /= k /\ r[i] = q[j]
  <2>1. CASE i < k
    BY <2>1, <1>0
  <2>2. CASE ~(i < k)
    <3>1. i + 1 \in 1..Len(q) /\ i + 1 /= k /\ r[i] = q[i + 1]
      BY <2>2, <1>0
    <3> QED
      BY <3>1
  <2> QED
    BY <2>1, <2>2
<1>2. ASSUME NEW j \in 1..Len(q), j /= k
      PROVE  \E i \in 1..Len(r) : r[i] = q[j]
  <2>1. CASE j < k
    <3>1. j \in 1..Len(r) /\ r[j] = q[j]
      BY <2>1, <1>0
    <3> QED
      BY <3>1
  <2>2. CASE j > k
    <3>1. j - 1 \in 1..Len(r) /\ r[j - 1] = q[j]
      BY <2>2, <1>0
    <3> QED
      BY <3>1
  <2> QED
    BY <2>1, <2>2, <1>2
<1>3. Range(r) = Range(q) \ {q[k]}
  <2>1. ASSUME NEW x \in Range(r) PROVE x \in Range(q) \ {q[k]}
    <3>1. PICK i \in 1..Len(r) : x = r[i]
      BY <1>0 DEF Range
    <3>2. PICK j \in 1..Len(q) : j /= k /\ r[i] = q[j]
      BY <1>1
    <3>3. q[j] /= q[k]
      BY <3>2, <1>0 DEF IsInjective
    <3> QED
      BY <3>1, <3>2, <3>3, <1>0 DEF Range
  <2>2. ASSUME NEW x \in Range(q), x /= q[k] PROVE x \in Range(r)
    BY <2>2, <1>0, <1>2 DEF Range
  <2> QED
    BY <2>1, <2>2
<1>4. IsInjective(r)
  <2> SUFFICES ASSUME NEW i \in 1..Len(r), NEW j \in 1..Len(r), r[i] = r[j] PROVE i = j
    BY <1>0 DEF IsInjective
  <2> DEFINE at(n) == IF n < k THEN n ELSE n + 1
  <2>1. at(i) \in 1..Len(q) /\ at(j) \in 1..Len(q) /\ q[at(i)] = q[at(j)]
    BY <1>0
  <2>2. at(i) = at(j)
    BY <2>1, <1>0 DEF IsInjective
  <2> QED
    BY <2>2, <1>0
<1> QED
  BY <1>3, <1>4

\* RemoveFirst, the loop of Entity.remove and of server.unregister, takes an
\* element out of a list that names nothing twice, and keeps the rest of it.
LEMMA RemoveFirstProperties ==
    ASSUME NEW S, NEW q \in Seq(S), NEW e, IsInjective(q)
    PROVE  /\ RemoveFirst(q, e) \in Seq(S)
           /\ Range(RemoveFirst(q, e)) = Range(q) \ {e}
           /\ IsInjective(RemoveFirst(q, e))
<1>1. CASE ~ \E i \in 1..Len(q) : q[i] = e
  BY <1>1 DEF RemoveFirst, Range
<1>2. CASE \E i \in 1..Len(q) : q[i] = e
  <2> DEFINE I == {i \in 1..Len(q) : q[i] = e}
  <2>1. PICK k \in 1..Len(q) : q[k] = e
    BY <1>2
  <2>2. I = {k}
    BY <2>1 DEF IsInjective
  <2>3. Min(I) = k
    BY <2>2 DEF Min
  <2>4. RemoveFirst(q, e) = SubSeq(q, 1, k - 1) \o SubSeq(q, k + 1, Len(q))
    BY <1>2, <2>2, <2>3 DEF RemoveFirst, RemoveAt, SelectInSeq
  <2> DEFINE a == SubSeq(q, 1, k - 1)
             b == SubSeq(q, k + 1, Len(q))
             r == a \o b
  <2>5. a \in Seq(S) /\ Len(a) = k - 1 /\ \A i \in 1..(k - 1) : a[i] = q[i]
    BY <2>1
  <2>6. b \in Seq(S) /\ Len(b) = Len(q) - k /\ \A i \in 1..(Len(q) - k) : b[i] = q[i + k]
    BY <2>1
  <2> HIDE DEF a, b
  <2>7. r \in Seq(S) /\ Len(r) = Len(q) - 1
    <3>1. r \in Seq(S) /\ Len(r) = Len(a) + Len(b)
      BY <2>5, <2>6, ConcatProperties
    <3>2. Len(q) \in Nat
      OBVIOUS
    <3> QED
      BY <3>1, <3>2, <2>1, <2>5, <2>6
  <2>8. ASSUME NEW i \in 1..Len(r) PROVE r[i] = IF i < k THEN q[i] ELSE q[i + 1]
    <3>1. CASE i < k
      BY <3>1, <2>1, <2>5, <2>6, <2>7
    <3>2. CASE ~(i < k)
      <4>1. i - (k - 1) \in 1..(Len(q) - k) /\ (i - (k - 1)) + k = i + 1
        BY <3>2, <2>1, <2>7
      <4>2. r[i] = b[i - (k - 1)]
        BY <3>2, <2>1, <2>5, <2>6, <2>7
      <4> QED
        BY <3>2, <4>1, <4>2, <2>6
    <3> QED
      BY <3>1, <3>2
  <2>9. Range(r) = Range(q) \ {q[k]} /\ IsInjective(r)
    <3> HIDE DEF r
    <3> QED
      BY <2>7, <2>8, SkipEntry
  <2> QED
    BY <2>1, <2>4, <2>7, <2>9 DEF a, b
<1> QED
  BY <1>1, <1>2

\* Appending what is not in the list, as table.insert does.
LEMMA AppendNewProperties ==
    ASSUME NEW S, NEW q \in Seq(S), NEW e \in S, IsInjective(q), e \notin Range(q)
    PROVE  /\ Append(q, e) \in Seq(S)
           /\ Range(Append(q, e)) = Range(q) \cup {e}
           /\ IsInjective(Append(q, e))
<1> DEFINE r == Append(q, e)
<1>1. r \in Seq(S) /\ Len(r) = Len(q) + 1 /\ r[Len(q) + 1] = e
      /\ \A i \in 1..Len(q) : r[i] = q[i]
  OBVIOUS
<1>2. IsInjective(r)
  BY <1>1 DEF IsInjective, Range
<1>3. Range(r) = Range(q) \cup {e}
  <2>1. \A x \in Range(r) : x \in Range(q) \cup {e}
    BY <1>1 DEF Range
  <2>2. \A x \in Range(q) \cup {e} : \E i \in DOMAIN r : r[i] = x
    BY <1>1 DEF Range
  <2> QED
    BY <2>1, <2>2 DEF Range
<1> QED
  BY <1>1, <1>2, <1>3

-----------------------------------------------------------------------------
(***************************************************************************)
(* Sums.                                                                   *)
(***************************************************************************)

\* Induction over the subsets of a finite set.
LEMMA SetInduction ==
    ASSUME NEW S, IsFiniteSet(S), NEW T, {} \in T,
           \A s \in SUBSET S : s /= {} /\ (\A x \in s : s \ {x} \in T) => s \in T
    PROVE  SUBSET S \subseteq T
<1> DEFINE n == Cardinality(S)
           A == {k \in 0..n : \A s \in SUBSET S : Cardinality(s) = k => s \in T}
<1>1. n \in Nat /\ \A s \in SUBSET S :
                      IsFiniteSet(s) /\ Cardinality(s) \in Nat /\ Cardinality(s) <= n
  BY FS_CardinalityType, FS_Subset
<1> HIDE DEF n
<1>2. 0 \in A
  <2>1. \A s \in SUBSET S : Cardinality(s) = 0 => s = {}
    BY <1>1, FS_EmptySet
  <2>2. \A s \in SUBSET S : Cardinality(s) = 0 => s \in T
    BY <2>1
  <2> QED
    BY <1>1, <2>2
<1>3. ASSUME NEW k \in 0..n, k \in A, k < n PROVE k + 1 \in A
  <2>1. ASSUME NEW s \in SUBSET S, Cardinality(s) = k + 1 PROVE s \in T
    <3>1. s /= {}
      BY <1>1, <2>1, FS_EmptySet
    <3>2. ASSUME NEW x \in s PROVE s \ {x} \in T
      <4>1. Cardinality(s \ {x}) = Cardinality(s) - 1
        BY <1>1, FS_RemoveElement
      <4>2. Cardinality(s \ {x}) = k
        BY <2>1, <4>1
      <4> QED
        BY <1>3, <4>2
    <3> QED
      BY <3>1, <3>2
  <2> QED
    BY <1>1, <1>3, <2>1
<1> HIDE DEF A
<1>4. 0..n \subseteq A
  <2>1. \A k \in 0..n : k \in A /\ k < n => k + 1 \in A
    BY <1>3
  <2> QED
    BY <1>1, <1>2, <2>1, Induction
<1>5. ASSUME NEW s \in SUBSET S PROVE s \in T
  <2>1. Cardinality(s) \in A
    BY <1>1, <1>4
  <2> QED
    BY <2>1 DEF A
<1> QED
  BY <1>5

\* The sum of b and of f[x] for every x of S.
Total(b, f, S) == FoldFunctionOnSet(+, b, f, S)

Some(s) == CHOOSE x \in s : TRUE

\* g[s] is the sum for the subset s of S.
Sums(g, b, f, S) ==
    \A s \in SUBSET S :
        g[s] \in Int /\ g[s] = IF s = {} THEN b ELSE f[Some(s)] + g[s \ {Some(s)}]

\* So it is for the subsets with at most n elements.
SumsUpTo(g, b, f, S, n) ==
    \A s \in SUBSET S : Cardinality(s) <= n =>
        g[s] \in Int /\ g[s] = IF s = {} THEN b ELSE f[Some(s)] + g[s \ {Some(s)}]

\* There is such a function for these.
LEMMA PartialSums ==
    ASSUME NEW S, IsFiniteSet(S), NEW f, \A x \in S : f[x] \in Int, NEW b \in Int,
           NEW n \in Nat
    PROVE  \E g : SumsUpTo(g, b, f, S, n)
<1> DEFINE P(g, k) == \A s \in SUBSET S : Cardinality(s) <= k =>
              g[s] \in Int /\ g[s] = IF s = {} THEN b ELSE f[Some(s)] + g[s \ {Some(s)}]
           A == {k \in 0..n : \E g : P(g, k)}
<1>1. \A s \in SUBSET S : IsFiniteSet(s) /\ Cardinality(s) \in Nat
  BY FS_CardinalityType, FS_Subset
<1>2. \A s \in SUBSET S : s /= {} =>
          /\ Some(s) \in s /\ s \ {Some(s)} \in SUBSET S /\ Cardinality(s) /= 0
          /\ Cardinality(s \ {Some(s)}) = Cardinality(s) - 1
  <2> SUFFICES ASSUME NEW s \in SUBSET S, s /= {}
               PROVE  /\ Some(s) \in s /\ s \ {Some(s)} \in SUBSET S /\ Cardinality(s) /= 0
                      /\ Cardinality(s \ {Some(s)}) = Cardinality(s) - 1
    OBVIOUS
  <2>1. Some(s) \in s
    BY DEF Some
  <2>2. Cardinality(s) /= 0
    BY <1>1, FS_EmptySet
  <2>3. Cardinality(s \ {Some(s)}) = Cardinality(s) - 1
    BY <1>1, <2>1, FS_RemoveElement
  <2> QED
    BY <2>1, <2>2, <2>3
<1>3. 0 \in A
  <2> DEFINE g == [s \in SUBSET S |-> b]
  <2>1. P(g, 0)
    <3>1. \A s \in SUBSET S : Cardinality(s) <= 0 => s = {}
      <4>1. \A s \in SUBSET S : Cardinality(s) <= 0 => Cardinality(s) = 0
        BY <1>1
      <4> HIDE DEF g, P
      <4> QED
        BY <1>2, <4>1
    <3> QED
      BY <3>1
  <2> HIDE DEF g, P
  <2> QED
    BY <2>1
<1>4. ASSUME NEW k \in 0..n, k \in A, k < n PROVE k + 1 \in A
  <2>1. PICK g : P(g, k)
    BY <1>4
  <2> DEFINE v(s) == IF s = {} THEN b ELSE f[Some(s)] + g[s \ {Some(s)}]
             h == [s \in SUBSET S |-> v(s)]
  <2>2. ASSUME NEW s \in SUBSET S, Cardinality(s) <= k PROVE h[s] = g[s]
    BY <2>1, <2>2
  <2>3. ASSUME NEW s \in SUBSET S, Cardinality(s) <= k + 1
        PROVE  h[s] \in Int /\ h[s] = IF s = {} THEN b ELSE f[Some(s)] + h[s \ {Some(s)}]
    <3>1. CASE s = {}
      <4>1. h[s] = b
        BY <3>1
      <4> HIDE DEF h
      <4> QED
        BY <3>1, <4>1
    <3>2. CASE s /= {}
      <4> DEFINE r == s \ {Some(s)}
      <4>1. r \in SUBSET S /\ Cardinality(r) <= k /\ Some(s) \in S
        BY <1>1, <1>2, <2>3, <3>2
      <4>2. h[s] = f[Some(s)] + g[r]
        BY <3>2
      <4> HIDE DEF h, r
      <4>3. g[r] \in Int /\ h[r] = g[r]
        BY <2>1, <2>2, <4>1
      <4>4. f[Some(s)] \in Int
        BY <4>1
      <4> QED
        BY <3>2, <4>2, <4>3, <4>4 DEF r
    <3> QED
      BY <3>1, <3>2
  <2>4. P(h, k + 1)
    <3> HIDE DEF h
    <3> QED
      BY <2>3
  <2> HIDE DEF h, P
  <2> QED
    BY <1>4, <2>4
<1> HIDE DEF A
<1>5. 0..n \subseteq A
  <2>1. \A k \in 0..n : k \in A /\ k < n => k + 1 \in A
    BY <1>4
  <2> HIDE DEF P
  <2> QED
    BY <1>3, <2>1, Induction
<1>6. n \in A
  BY <1>5
<1> QED
  BY <1>6 DEF A, SumsUpTo

\* The sum is well-defined.
LEMMA TotalRecursion ==
    ASSUME NEW S, IsFiniteSet(S), NEW f, \A x \in S : f[x] \in Int, NEW b \in Int
    PROVE  \E g : Sums(g, b, f, S) /\ Total(b, f, S) = g[S]
<1> DEFINE v(g, s) == IF s = {} THEN b ELSE f[Some(s)] + g[s \ {Some(s)}]
           g == CHOOSE h : h = [s \in SUBSET S |-> v(h, s)]
<1>1. Total(b, f, S) = g[S]
  BY DEF Total, FoldFunctionOnSet, MapThenFoldSet, Some
<1> HIDE DEF g
<1>2. PICK h : \A s \in SUBSET S : h[s] \in Int /\ h[s] = v(h, s)
  <2>1. Cardinality(S) \in Nat /\ \A s \in SUBSET S : Cardinality(s) <= Cardinality(S)
    BY FS_CardinalityType, FS_Subset
  <2> DEFINE n == Cardinality(S)
  <2>2. n \in Nat
    BY <2>1
  <2> HIDE DEF n
  <2>3. PICK h : SumsUpTo(h, b, f, S, n)
    BY <2>2, PartialSums
  <2>4. \A s \in SUBSET S : h[s] \in Int /\ h[s] = v(h, s)
    BY <2>1, <2>3 DEF n, SumsUpTo
  <2> QED
    BY <2>4
<1> DEFINE k == [s \in SUBSET S |-> h[s]]
<1>3. \A s \in SUBSET S : k[s] = h[s]
  OBVIOUS
<1>4. \A s \in SUBSET S : v(k, s) = v(h, s)
  <2> TAKE s \in SUBSET S
  <2>1. s \ {Some(s)} \in SUBSET S
    OBVIOUS
  <2>2. k[s \ {Some(s)}] = h[s \ {Some(s)}]
    <3> HIDE DEF k
    <3> QED
      BY <1>3, <2>1
  <2> HIDE DEF k
  <2> QED
    BY <2>2
<1>5. k = [s \in SUBSET S |-> v(k, s)]
  <2> HIDE DEF v
  <2>1. \A s \in SUBSET S : h[s] = v(k, s)
    <3> HIDE DEF k
    <3> QED
      BY <1>2, <1>4
  <2>2. [s \in SUBSET S |-> h[s]] = [s \in SUBSET S |-> v(k, s)]
    <3> HIDE DEF k
    <3> QED
      BY <2>1
  <2> QED
    BY <2>2
<1> HIDE DEF k
<1>6. g = [s \in SUBSET S |-> v(g, s)]
  <2> HIDE DEF v
  <2> QED
    BY <1>5 DEF g
<1>7. \A s \in SUBSET S : g[s] = v(g, s)
  <2> HIDE DEF v
  <2> QED
    BY <1>6
<1>8. \A s \in SUBSET S : g[s] = h[s]
  <2> DEFINE T == {s \in SUBSET S : g[s] = h[s]}
  <2>1. {} \in T
    BY <1>2, <1>7
  <2>2. ASSUME NEW s \in SUBSET S, s /= {}, \A x \in s : s \ {x} \in T PROVE s \in T
    <3>1. Some(s) \in s
      BY <2>2 DEF Some
    <3>2. g[s \ {Some(s)}] = h[s \ {Some(s)}]
      BY <2>2, <3>1
    <3>3. v(g, s) = v(h, s)
      BY <3>2
    <3> HIDE DEF v
    <3> QED
      BY <1>2, <1>7, <3>3
  <2>3. SUBSET S \subseteq T
    <3> HIDE DEF T
    <3> QED
      BY <2>1, <2>2, SetInduction
  <2> QED
    BY <2>3
<1>9. Sums(g, b, f, S)
  BY <1>2, <1>7, <1>8 DEF Sums
<1> QED
  BY <1>1, <1>9

\* Any element may be taken first.
LEMMA SumsTake ==
    ASSUME NEW S, IsFiniteSet(S), NEW f, \A x \in S : f[x] \in Int, NEW b \in Int,
           NEW g, Sums(g, b, f, S), NEW e \in S
    PROVE  g[S] = f[e] + g[S \ {e}]
<1> DEFINE T == {r \in SUBSET S : \A z \in r : g[r] = f[z] + g[r \ {z}]}
<1>1. {} \in T
  OBVIOUS
<1>2. ASSUME NEW r \in SUBSET S, r /= {}, \A z \in r : r \ {z} \in T PROVE r \in T
  <2> SUFFICES ASSUME NEW z \in r PROVE g[r] = f[z] + g[r \ {z}]
    OBVIOUS
  <2> DEFINE y == Some(r)
             a == r \ {y}
             c == r \ {z}
             d == r \ {y, z}
  <2>1. y \in r /\ a \in T /\ a \in SUBSET S /\ c \in SUBSET S /\ d \in SUBSET S /\ c \in T
    BY <1>2 DEF Some
  <2>2. g[r] = f[y] + g[a] /\ g[r] \in Int
    BY <1>2 DEF Sums
  <2>3. CASE z = y
    BY <2>2, <2>3
  <2>4. CASE z /= y
    <3>1. z \in a /\ a \ {z} = d /\ y \in c /\ c \ {y} = d
      BY <2>1, <2>4
    <3>2. \A w \in a : g[a] = f[w] + g[a \ {w}]
      <4> HIDE DEF a, c, d, y
      <4> QED
        BY <2>1
    <3>3. \A w \in c : g[c] = f[w] + g[c \ {w}]
      <4> HIDE DEF a, c, d, y
      <4> QED
        BY <2>1
    <3>4. f[y] \in Int /\ f[z] \in Int /\ g[d] \in Int
      BY <2>1 DEF Sums
    <3> HIDE DEF T, a, c, d, y
    <3>5. g[a] = f[z] + g[d] /\ g[c] = f[y] + g[d]
      BY <3>1, <3>2, <3>3
    <3>6. g[r] = f[z] + g[c]
      BY <2>2, <3>4, <3>5
    <3> QED
      BY <3>6 DEF c
  <2> QED
    BY <2>3, <2>4
<1>3. SUBSET S \subseteq T
  <2> HIDE DEF T
  <2> QED
    BY <1>1, <1>2, SetInduction
<1>4. S \in T
  BY <1>3
<1> QED
  BY <1>4

\* Two sums of the same numbers are the same up to their bases.
LEMMA SumsDiffer ==
    ASSUME NEW S, IsFiniteSet(S), NEW f, NEW h, \A x \in S : f[x] \in Int /\ h[x] = f[x],
           NEW b \in Int, NEW c \in Int,
           NEW g, Sums(g, b, f, S), NEW R, S \subseteq R, NEW k, Sums(k, c, h, R)
    PROVE  k[S] - g[S] = c - b /\ k[S] \in Int /\ g[S] \in Int
<1> DEFINE T == {s \in SUBSET S : k[s] - g[s] = c - b}
<1>0. \A s \in SUBSET S : g[s] \in Int /\ k[s] \in Int
  BY DEF Sums
<1>1. {} \in T
  <2>1. {} \in SUBSET S /\ {} \in SUBSET R
    OBVIOUS
  <2>2. g[{}] = b /\ k[{}] = c
    BY <2>1 DEF Sums
  <2> QED
    BY <2>1, <2>2
<1>2. ASSUME NEW s \in SUBSET S, s /= {}, \A z \in s : s \ {z} \in T PROVE s \in T
  <2> DEFINE y == Some(s)
             a == s \ {y}
  <2>1. y \in s /\ a \in T /\ a \in SUBSET S /\ s \in SUBSET R
    BY <1>2 DEF Some
  <2>2. g[s] = f[y] + g[a] /\ k[s] = h[y] + k[a]
    BY <1>2, <2>1 DEF Sums
  <2>3. f[y] \in Int /\ h[y] = f[y]
    BY <2>1
  <2>4. k[a] - g[a] = c - b /\ k[a] \in Int /\ g[a] \in Int
    BY <1>0, <2>1
  <2> HIDE DEF y, a
  <2>5. k[s] - g[s] = c - b
    BY <2>2, <2>3, <2>4
  <2> QED
    BY <2>5
<1>3. SUBSET S \subseteq T
  <2> HIDE DEF T
  <2> QED
    BY <1>1, <1>2, SetInduction
<1>4. S \in T
  BY <1>3
<1> QED
  BY <1>0, <1>4

\* The sum of the same numbers from another base.
LEMMA TotalSame ==
    ASSUME NEW S, IsFiniteSet(S), NEW f, NEW h, \A x \in S : f[x] \in Int /\ h[x] = f[x],
           NEW b \in Int, NEW c \in Int
    PROVE  /\ Total(b, f, S) \in Int /\ Total(c, h, S) \in Int
           /\ Total(c, h, S) - Total(b, f, S) = c - b
<1>1. PICK g : Sums(g, b, f, S) /\ Total(b, f, S) = g[S]
  BY TotalRecursion
<1>2. PICK k : Sums(k, c, h, S) /\ Total(c, h, S) = k[S]
  <2>1. \A x \in S : h[x] \in Int
    OBVIOUS
  <2> QED
    BY <2>1, TotalRecursion
<1>3. k[S] - g[S] = c - b /\ k[S] \in Int /\ g[S] \in Int
  BY <1>1, <1>2, SumsDiffer
<1> QED
  BY <1>1, <1>2, <1>3

\* The sum of no numbers.
LEMMA TotalEmpty ==
    ASSUME NEW f, NEW b \in Int
    PROVE  Total(b, f, {}) = b
<1>1. PICK g : Sums(g, b, f, {}) /\ Total(b, f, {}) = g[{}]
  BY FS_EmptySet, TotalRecursion
<1> QED
  BY <1>1 DEF Sums

\* One of the numbers taken apart.
LEMMA TotalTake ==
    ASSUME NEW S, IsFiniteSet(S), NEW f, \A x \in S : f[x] \in Int, NEW b \in Int, NEW e \in S
    PROVE  Total(b, f, S) = f[e] + Total(b, f, S \ {e}) /\ Total(b, f, S \ {e}) \in Int
<1> DEFINE R == S \ {e}
<1>1. IsFiniteSet(R) /\ R \subseteq S /\ \A z \in R : f[z] \in Int /\ f[z] = f[z]
  BY FS_RemoveElement
<1>2. PICK g : Sums(g, b, f, S) /\ Total(b, f, S) = g[S]
  BY TotalRecursion
<1> HIDE DEF R
<1>3. PICK k : Sums(k, b, f, R) /\ Total(b, f, R) = k[R]
  BY <1>1, TotalRecursion
<1>4. g[R] - k[R] = b - b /\ g[R] \in Int /\ k[R] \in Int
  BY <1>1, <1>2, <1>3, SumsDiffer
<1>5. g[S] = f[e] + g[S \ {e}]
  <2>1. Sums(g, b, f, S)
    BY <1>2
  <2> QED
    BY <2>1, SumsTake
<1> QED
  BY <1>2, <1>3, <1>4, <1>5 DEF R

\* The numbers of f and h are the same but for e's.
SameBut(f, h, S, e) ==
    \A x \in S : f[x] \in Int /\ h[x] \in Int /\ (x /= e => h[x] = f[x])

\* One of the numbers, and the base, are other ones.
LEMMA TotalChange ==
    ASSUME NEW S, IsFiniteSet(S), NEW f, NEW h, NEW e \in S, SameBut(f, h, S, e),
           NEW b \in Int, NEW c \in Int
    PROVE  Total(c, h, S) = Total(b, f, S) + (c - b) + (h[e] - f[e])
<1> DEFINE R == S \ {e}
<1>1. IsFiniteSet(R) /\ \A x \in R : f[x] \in Int /\ h[x] = f[x]
  BY FS_RemoveElement DEF SameBut
<1>a. (\A x \in S : f[x] \in Int) /\ \A x \in S : h[x] \in Int
  BY DEF SameBut
<1>2. Total(b, f, S) = f[e] + Total(b, f, R)
  BY <1>a, TotalTake
<1>3. Total(c, h, S) = h[e] + Total(c, h, R)
  BY <1>a, TotalTake
<1> HIDE DEF R
<1>4. Total(b, f, R) \in Int /\ Total(c, h, R) \in Int /\ Total(c, h, R) - Total(b, f, R) = c - b
  BY <1>1, TotalSame
<1>5. f[e] \in Int /\ h[e] \in Int
  BY <1>a
<1> QED
  BY <1>2, <1>3, <1>4, <1>5

\* More numbers, all of them the same.
LEMMA TotalMore ==
    ASSUME NEW S, IsFiniteSet(S), NEW N, IsFiniteSet(N), S \cap N = {},
           NEW f, \A x \in S : f[x] \in Int, NEW v \in Int, \A x \in N : f[x] = v, NEW b \in Int
    PROVE  Total(b, f, S \cup N) = Total(b, f, S) + v * Cardinality(N)
<1> DEFINE t == Total(b, f, S)
           T == {r \in SUBSET N : Total(b, f, S \cup r) = t + v * Cardinality(r)}
<1>0. t \in Int
  BY TotalSame
<1> HIDE DEF t
<1>a. \A r \in SUBSET N : IsFiniteSet(r) /\ Cardinality(r) \in Nat
  BY FS_Subset, FS_CardinalityType
<1>1. {} \in T
  <2>1. S \cup {} = S /\ Cardinality({}) = 0
    BY FS_EmptySet
  <2> QED
    BY <1>0, <2>1 DEF t
<1>2. ASSUME NEW r \in SUBSET N, r /= {}, \A z \in r : r \ {z} \in T PROVE r \in T
  <2>1. PICK z \in r : TRUE
    BY <1>2
  <2> DEFINE a == r \ {z}
             R == S \cup r
  <2>2. IsFiniteSet(R) /\ z \in R /\ R \ {z} = S \cup a /\ f[z] = v
    BY <1>a, FS_Union
  <2>3. \A x \in R : f[x] \in Int
    OBVIOUS
  <2>4. a \in T /\ Cardinality(a) = Cardinality(r) - 1
    <3>1. Cardinality(r \ {z}) = Cardinality(r) - 1
      BY <1>a, FS_RemoveElement
    <3> QED
      BY <1>2, <3>1
  <2>5. Total(b, f, S \cup a) = t + v * Cardinality(a) /\ a \in SUBSET N
    <3> HIDE DEF a
    <3> QED
      BY <2>4
  <2> HIDE DEF R, a
  <2>6. Total(b, f, R) = v + Total(b, f, S \cup a)
    <3>1. Total(b, f, R) = f[z] + Total(b, f, R \ {z})
      BY <2>2, <2>3, TotalTake
    <3> QED
      BY <2>2, <3>1
  <2>7. v * Cardinality(r) = v * Cardinality(a) + v
    <3>1. PICK m \in Nat : m = Cardinality(a)
      BY <1>a, <2>5
    <3>2. Cardinality(r) = m + 1
      BY <1>a, <2>4, <3>1
    <3>3. v * (m + 1) = v * m + v
      OBVIOUS
    <3> QED
      BY <3>1, <3>2, <3>3
  <2>8. v * Cardinality(a) \in Int
    BY <1>a, <2>5
  <2>9. Total(b, f, R) = t + v * Cardinality(r)
    BY <1>0, <2>5, <2>6, <2>7, <2>8
  <2> QED
    BY <2>9 DEF R
<1>3. SUBSET N \subseteq T
  <2> HIDE DEF T
  <2> QED
    BY <1>1, <1>2, SetInduction
<1>4. N \in T
  BY <1>3
<1> QED
  BY <1>4 DEF t
=============================================================================
