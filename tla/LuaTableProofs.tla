--------------------------- MODULE LuaTableProofs ---------------------------
(***************************************************************************)
(* Proofs about LuaTable: the table keeps its shape, its assertions hold,  *)
(* # is a border, and it implements TableMap.                              *)
(*                                                                         *)
(* The code follows the next fields of the nodes; what it relies on is     *)
(* about whole chains, some of them with keys that are dead or have lost   *)
(* their value.  Shape says it with two functions that only the proof      *)
(* knows: the chain of each node, and its distance from the end of that    *)
(* chain.  A walk then finds the member of a set that is furthest from the *)
(* end, and no induction over chains is needed.  Rehash works because the  *)
(* table it makes has no fewer nodes than there are keys to go into them   *)
(* (RoomIs), so that re-insertion never rehashes.                          *)
(***************************************************************************)
EXTENDS LuaTable, SequenceLemmas

-----------------------------------------------------------------------------
(***************************************************************************)
(* Powers of two.                                                          *)
(***************************************************************************)

\* f has the first n + 1 powers of two.
PowersUpTo(f, n) == f \in [0..n -> Nat] /\ f[0] = 1 /\ \A i \in 1..n : f[i] = 2 * f[i - 1]

LEMMA PowersAgree ==
    ASSUME NEW n \in Nat, NEW m \in Nat, n <= m, NEW f, PowersUpTo(f, n),
           NEW g, PowersUpTo(g, m)
    PROVE  \A i \in 0..n : f[i] = g[i]
<1> DEFINE T == {i \in 0..n : f[i] = g[i]}
<1>1. 0 \in T
  BY DEF PowersUpTo
<1>2. \A k \in 0..n : k \in T /\ k < n => k + 1 \in T
  <2> SUFFICES ASSUME NEW k \in 0..n, k \in T, k < n PROVE k + 1 \in T
    OBVIOUS
  <2>1. k + 1 \in 1..n /\ k + 1 \in 1..m /\ (k + 1) - 1 = k
    OBVIOUS
  <2>2. f[k + 1] = 2 * f[k] /\ g[k + 1] = 2 * g[k]
    BY <2>1 DEF PowersUpTo
  <2> QED
    BY <2>1, <2>2
<1>3. 0..n \subseteq T
  <2> HIDE DEF T
  <2> QED
    BY <1>1, <1>2, Induction
<1> QED
  BY <1>3

LEMMA Twoto ==
    /\ twoto \in [Nat -> Nat]
    /\ twoto[0] = 1
    /\ \A i \in Nat : twoto[i + 1] = 2 * twoto[i]
<1> DEFINE power(i) == CHOOSE f : PowersUpTo(f, i)
           g == [i \in Nat |-> power(i)[i]]
           Eq(h) == h = [i \in Nat |-> IF i = 0 THEN 1 ELSE 2 * h[i - 1]]
<1>1. \A n \in Nat : PowersUpTo(power(n), n)
  <2> TAKE n \in Nat
  <2> DEFINE step == [i \in 1..n |-> [x \in Nat |-> 2 * x]]
  <2>1. step \in [1..n -> [Nat -> Nat]] /\ 1 \in Nat
    OBVIOUS
  <2>2. PICK f \in [0..n -> Nat] : f[0] = 1 /\ \A i \in 1..n : f[i] = step[i][f[i - 1]]
    <3> DEFINE U == Nat
               a == 1
    <3>1. n \in Nat /\ a \in U /\ step \in [1..n -> [U -> U]]
      BY <2>1
    <3> HIDE DEF step, U, a
    <3>2. \E f \in [0..n -> U] : f[0] = a /\ \A i \in 1..n : f[i] = step[i][f[i - 1]]
      BY <3>1, Recursion
    <3> QED
      BY <3>2 DEF U, a
  <2>3. \A i \in 1..n : f[i] = 2 * f[i - 1]
    <3> TAKE i \in 1..n
    <3>1. i - 1 \in 0..n
      OBVIOUS
    <3> QED
      BY <2>2, <3>1
  <2>4. PowersUpTo(f, n)
    BY <2>2, <2>3 DEF PowersUpTo
  <2> QED
    BY <2>4
<1>2. g \in [Nat -> Nat]
  <2> SUFFICES ASSUME NEW i \in Nat PROVE power(i)[i] \in Nat
    OBVIOUS
  <2> HIDE DEF power
  <2>1. power(i) \in [0..i -> Nat] /\ i \in 0..i
    BY <1>1 DEF PowersUpTo
  <2> QED
    BY <2>1
<1>3. g[0] = 1
  BY <1>1 DEF PowersUpTo
<1>4. \A i \in Nat : g[i + 1] = 2 * g[i]
  <2> TAKE i \in Nat
  <2> HIDE DEF power
  <2>1. i + 1 \in Nat /\ i <= i + 1 /\ i + 1 \in 1..(i + 1) /\ (i + 1) - 1 = i /\ i \in 0..i
    OBVIOUS
  <2>2. PowersUpTo(power(i), i) /\ PowersUpTo(power(i + 1), i + 1)
    BY <1>1, <2>1
  <2>3. power(i)[i] = power(i + 1)[i]
    BY <2>1, <2>2, PowersAgree
  <2>4. power(i + 1)[i + 1] = 2 * power(i + 1)[i]
    BY <2>1, <2>2 DEF PowersUpTo
  <2> QED
    BY <2>1, <2>3, <2>4
<1>5. Eq(g)
  <2> HIDE DEF g
  <2>1. \A i \in Nat : g[i] = IF i = 0 THEN 1 ELSE 2 * g[i - 1]
    <3> TAKE i \in Nat
    <3>1. CASE i = 0
      BY <1>3, <3>1
    <3>2. CASE i /= 0
      <4>1. i - 1 \in Nat /\ (i - 1) + 1 = i
        BY <3>2
      <4> QED
        BY <1>4, <3>2, <4>1
    <3> QED
      BY <3>1, <3>2
  <2> QED
    BY <1>2, <2>1
<1>6. Eq(twoto)
  <2>1. twoto = CHOOSE h : Eq(h)
    BY DEF twoto
  <2> HIDE DEF Eq, g
  <2> QED
    BY <1>5, <2>1
<1>7. \A h : Eq(h) => \A i \in Nat : h[i] = g[i]
  <2> SUFFICES ASSUME NEW h, Eq(h), NEW n \in Nat PROVE h[n] = g[n]
    OBVIOUS
  <2>0. \A i \in Nat : h[i] = IF i = 0 THEN 1 ELSE 2 * h[i - 1]
    <3> DEFINE b == [i \in Nat |-> IF i = 0 THEN 1 ELSE 2 * h[i - 1]]
    <3>1. \A i \in Nat : b[i] = IF i = 0 THEN 1 ELSE 2 * h[i - 1]
      OBVIOUS
    <3>2. h = b
      OBVIOUS
    <3> QED
      BY ONLY <3>1, <3>2
  <2> DEFINE T == {i \in 0..n : h[i] = g[i]}
  <2> HIDE DEF g, Eq
  <2>1. 0 \in T
    BY <2>0, <1>3
  <2>2. \A k \in 0..n : k \in T /\ k < n => k + 1 \in T
    <3> SUFFICES ASSUME NEW k \in 0..n, k \in T, k < n PROVE k + 1 \in T
      OBVIOUS
    <3>1. k \in Nat /\ k + 1 \in Nat /\ k + 1 /= 0 /\ (k + 1) - 1 = k /\ k + 1 \in 0..n
      OBVIOUS
    <3>2. h[k + 1] = 2 * h[k]
      BY <2>0, <3>1
    <3> QED
      BY <1>4, <3>1, <3>2
  <2>3. 0..n \subseteq T
    <3> HIDE DEF T
    <3> QED
      BY <2>1, <2>2, Induction
  <2>4. n \in 0..n
    OBVIOUS
  <2> QED
    BY <2>3, <2>4
<1>8. \A i \in Nat : twoto[i] = g[i]
  <2> HIDE DEF g, Eq
  <2> QED
    BY <1>6, <1>7
<1>9. twoto \in [Nat -> Nat]
  <2> HIDE DEF g
  <2>0. \A h : Eq(h) => h = [i \in Nat |-> h[i]]
    OBVIOUS
  <2>1. twoto = [i \in Nat |-> twoto[i]]
    <3> HIDE DEF Eq
    <3> QED
      BY <1>6, <2>0
  <2>2. \A i \in Nat : twoto[i] \in Nat
    BY <1>2, <1>8
  <2> QED
    BY <2>1, <2>2
<1> QED
  <2> HIDE DEF g
  <2> QED
    BY <1>3, <1>4, <1>8, <1>9

LEMMA TwotoGrows == \A i \in Nat : twoto[i] >= i + 1
<1> SUFFICES ASSUME NEW n \in Nat PROVE twoto[n] >= n + 1
  OBVIOUS
<1> DEFINE T == {i \in 0..n : twoto[i] >= i + 1}
<1>1. 0 \in T
  BY Twoto
<1>2. \A k \in 0..n : k \in T /\ k < n => k + 1 \in T
  <2> SUFFICES ASSUME NEW k \in 0..n, k \in T, k < n PROVE k + 1 \in T
    OBVIOUS
  <2>1. twoto[k + 1] = 2 * twoto[k] /\ twoto[k] \in Nat
    BY Twoto
  <2> QED
    BY <2>1
<1>3. 0..n \subseteq T
  <2> HIDE DEF T
  <2> QED
    BY <1>1, <1>2, Induction
<1> QED
  BY <1>3

\* The power of two for a number of nodes is large enough.
LEMMA CeilLog2Large ==
    ASSUME NEW x \in Nat
    PROVE  CeilLog2(x) \in 0..x /\ twoto[CeilLog2(x)] >= x
<1> DEFINE T == {i \in 0..x : twoto[i] >= x}
<1>1. x \in T
  BY TwotoGrows, Twoto
<1>2. PICK m \in T : \A k \in T : m <= k
  <2> HIDE DEF T
  <2>1. T \subseteq Nat
    BY DEF T
  <2> QED
    BY <1>1, <2>1, LeastNumber
<1>3. m \in 0..x /\ twoto[m] >= x /\ \A j \in 0..(m - 1) : twoto[j] < x
  <2>1. \A j \in 0..(m - 1) : j \in 0..x /\ j < m /\ twoto[j] \in Nat
    BY Twoto
  <2> QED
    BY <1>2, <2>1
<1> QED
  BY <1>3 DEF CeilLog2
-----------------------------------------------------------------------------
(***************************************************************************)
(* Chains.  The number c[i] names the chain of node i, and p[i] is the     *)
(* distance from i to its end.  They exist only in the proof.              *)
(***************************************************************************)

Linked(L, node, c, p) ==
    /\ c \in [1..L -> 1..L] /\ p \in [1..L -> Nat]
    /\ \A i \in 1..L : node[i].next \in 0..L
    /\ \A i \in 1..L : node[i].next = 0 => p[i] = 0
    /\ \A i \in 1..L : node[i].next /= 0 =>
          c[node[i].next] = c[i] /\ p[i] = p[node[i].next] + 1
    /\ \A i, j \in 1..L : c[i] = c[j] /\ p[i] = p[j] => i = j

\* The members of S that a walk from node i passes.
Passed(c, p, i, S) == {j \in S : c[j] = c[i] /\ p[j] <= p[i]}

\* The first of them, 0 if there is none.
First(c, p, i, S) ==
    IF Passed(c, p, i, S) = {} THEN 0
    ELSE CHOOSE j \in Passed(c, p, i, S) : \A x \in Passed(c, p, i, S) : p[x] <= p[j]

LEMMA FirstIs ==
    ASSUME NEW L \in Nat, NEW node, NEW c, NEW p, Linked(L, node, c, p),
           NEW i \in 1..L, NEW S \in SUBSET (1..L), Passed(c, p, i, S) /= {}
    PROVE  /\ First(c, p, i, S) \in Passed(c, p, i, S)
           /\ \A x \in Passed(c, p, i, S) : p[x] <= p[First(c, p, i, S)]
<1> DEFINE R == Passed(c, p, i, S)
           T == {p[i] - p[x] : x \in R}
<1>1. R \subseteq 1..L /\ \A x \in R : p[x] \in Nat /\ p[x] <= p[i]
  BY DEF Passed, Linked
<1>2. p[i] \in Nat
  BY DEF Linked
<1>3. T \subseteq Nat /\ T /= {}
  <2> HIDE DEF R
  <2>1. \A x \in R : p[i] - p[x] \in Nat
    BY <1>1, <1>2
  <2> QED
    BY <2>1 DEF R
<1>4. PICK m \in T : \A k \in T : m <= k
  <2> HIDE DEF T
  <2> QED
    BY <1>3, LeastNumber
<1>5. PICK j \in R : m = p[i] - p[j]
  BY <1>4
<1>6. \A x \in R : p[x] <= p[j]
  <2> TAKE x \in R
  <2>1. p[i] - p[x] \in T
    OBVIOUS
  <2> HIDE DEF R, T
  <2> QED
    BY <1>1, <1>2, <1>4, <1>5, <2>1
<1> QED
  BY <1>5, <1>6 DEF First

\* One step of a walk.
LEMMA FirstStep ==
    ASSUME NEW L \in Nat, NEW node, NEW c, NEW p, Linked(L, node, c, p),
           NEW i \in 1..L, NEW S \in SUBSET (1..L)
    PROVE  /\ i \in S => First(c, p, i, S) = i
           /\ i \notin S /\ node[i].next = 0 => First(c, p, i, S) = 0
           /\ i \notin S /\ node[i].next /= 0 =>
                 First(c, p, i, S) = First(c, p, node[i].next, S)
<1>a. /\ \A j \in S : j \in 1..L /\ p[j] \in Nat
      /\ i \in 1..L /\ p[i] \in Nat
      /\ \A x, y \in 1..L : c[x] = c[y] /\ p[x] = p[y] => x = y
  BY DEF Linked
<1>b. i \notin S => \A j \in S : c[j] = c[i] => p[j] /= p[i]
  BY ONLY <1>a
<1>c. PICK n : n = node[i].next
  OBVIOUS
<1>d. /\ n \in 0..L
      /\ n = 0 => p[i] = 0
      /\ n /= 0 => n \in 1..L /\ c[n] = c[i] /\ p[i] = p[n] + 1 /\ p[n] \in Nat
  <2>1. node[i].next \in 0..L
    BY DEF Linked
  <2>2. node[i].next = 0 => p[i] = 0
    BY DEF Linked
  <2>3. node[i].next /= 0 => c[node[i].next] = c[i] /\ p[i] = p[node[i].next] + 1
    BY DEF Linked
  <2>4. \A j \in 1..L : p[j] \in Nat
    BY DEF Linked
  <2> QED
    BY ONLY <1>c, <2>1, <2>2, <2>3, <2>4, L \in Nat
<1>1. CASE i \in S
  <2>1. i \in Passed(c, p, i, S)
    BY <1>1 DEF Passed, Linked
  <2> DEFINE f == First(c, p, i, S)
  <2>2. f \in Passed(c, p, i, S) /\ p[i] <= p[f]
    BY <2>1, FirstIs
  <2>3. f \in 1..L /\ c[f] = c[i] /\ p[f] <= p[i] /\ p[f] \in Nat /\ p[i] \in Nat
    BY <2>2 DEF Passed, Linked
  <2>4. p[f] = p[i]
    BY <2>2, <2>3
  <2>5. f = i
    BY <2>3, <2>4 DEF Linked
  <2> QED
    BY <1>1, <2>5
<1>2. CASE i \notin S /\ node[i].next = 0
  <2>1. p[i] = 0
    BY <1>2, <1>c, <1>d
  <2>2. Passed(c, p, i, S) = {}
    <3> SUFFICES ASSUME NEW j \in S, c[j] = c[i], p[j] <= p[i] PROVE FALSE
      BY DEF Passed
    <3>1. p[j] \in Nat /\ p[j] /= p[i]
      BY <1>2, <1>a, <1>b
    <3> QED
      BY <2>1, <3>1
  <2> QED
    BY <1>2, <2>2 DEF First
<1>3. CASE i \notin S /\ node[i].next /= 0
  <2>1. c[n] = c[i] /\ p[i] = p[n] + 1 /\ p[n] \in Nat
    BY <1>3, <1>c, <1>d
  <2>3. \A j \in S : (c[j] = c[i] /\ p[j] <= p[i]) <=> (c[j] = c[n] /\ p[j] <= p[n])
    <3> TAKE j \in S
    <3>1. p[j] \in Nat /\ (c[j] = c[i] => p[j] /= p[i])
      BY <1>3, <1>a, <1>b
    <3> QED
      BY <2>1, <3>1
  <2>4. Passed(c, p, i, S) = Passed(c, p, n, S)
    BY ONLY <2>3 DEF Passed
  <2> QED
    BY <1>3, <1>c, <2>4 DEF First
<1> QED
  BY <1>1, <1>2, <1>3

\* What the loop over a chain finds.
LEMMA WalkIs ==
    ASSUME NEW L \in Nat \ {0}, NEW s, Len(s.node) = L, s.node /= <<>>,
           NEW c, NEW p, Linked(L, s.node, c, p),
           NEW k, MainPosition(s, k) \in 1..L, NEW S \in SUBSET (1..L)
    PROVE  Walk(s, k, S) = First(c, p, MainPosition(s, k), S)
<1> DEFINE node == s.node
           F(i) == IF i = 0 THEN 0 ELSE First(c, p, i, S)
           Body(h, i) == IF i = 0 \/ i \in S THEN i ELSE h[node[i].next]
           Eq(h) == h = [i \in 0..L |-> Body(h, i)]
           g == [i \in 0..L |-> F(i)]
           walk == CHOOSE h : Eq(h)
<1>1. Linked(L, node, c, p) /\ L \in Nat
  OBVIOUS
<1>2. \A i \in 1..L : /\ node[i].next \in 0..L
                      /\ F(i) = IF i \in S THEN i ELSE F(node[i].next)
  <2> TAKE i \in 1..L
  <2>1. node[i].next \in 0..L
    BY <1>1 DEF Linked
  <2>2. /\ i \in S => First(c, p, i, S) = i
        /\ i \notin S /\ node[i].next = 0 => First(c, p, i, S) = 0
        /\ i \notin S /\ node[i].next /= 0 =>
              First(c, p, i, S) = First(c, p, node[i].next, S)
    <3> PICK nd : nd = node
      OBVIOUS
    <3>1. L \in Nat /\ Linked(L, nd, c, p) /\ i \in 1..L /\ S \in SUBSET (1..L)
      BY <1>1
    <3>2. /\ i \in S => First(c, p, i, S) = i
          /\ i \notin S /\ nd[i].next = 0 => First(c, p, i, S) = 0
          /\ i \notin S /\ nd[i].next /= 0 =>
                First(c, p, i, S) = First(c, p, nd[i].next, S)
      BY ONLY <3>1, FirstStep
    <3> QED
      BY <3>2
  <2> QED
    BY <2>1, <2>2
<1>3. Eq(g)
  <2> HIDE DEF F, node
  <2>1. \A i \in 0..L : g[i] = F(i)
    OBVIOUS
  <2>2. F(0) = 0
    BY DEF F
  <2>3. \A i \in 0..L : F(i) = Body(g, i)
    <3> TAKE i \in 0..L
    <3>1. CASE i = 0
      BY <2>2, <3>1
    <3>2. CASE i /= 0
      BY <1>2, <2>1, <3>2
    <3> QED
      BY <3>1, <3>2
  <2> QED
    BY <2>3
<1>4. Eq(walk)
  <2> HIDE DEF Eq, g
  <2> QED
    BY <1>3
<1>5. \A i \in 0..L : walk[i] = Body(walk, i)
  <2>1. \A h : Eq(h) => \A i \in 0..L : h[i] = Body(h, i)
    <3> SUFFICES ASSUME NEW h, Eq(h) PROVE \A i \in 0..L : h[i] = Body(h, i)
      OBVIOUS
    <3> DEFINE b == [i \in 0..L |-> Body(h, i)]
    <3>1. \A i \in 0..L : b[i] = Body(h, i)
      OBVIOUS
    <3>2. h = b
      OBVIOUS
    <3> QED
      BY ONLY <3>1, <3>2
  <2> HIDE DEF Eq, Body, walk
  <2> QED
    BY <1>4, <2>1
<1>6. \A i \in 1..L : walk[i] = F(i)
  <2> SUFFICES ASSUME NEW q \in 1..L PROVE walk[q] = F(q)
    OBVIOUS
  <2> HIDE DEF walk, F, node
  <2> DEFINE n == p[q]
             T == {d \in 0..n : \A i \in 1..L : p[i] <= d => walk[i] = F(i)}
  <2>0. p \in [1..L -> Nat] /\ n \in Nat
    BY <1>1 DEF Linked
  <2>1. walk[0] = 0 /\ F(0) = 0
    BY <1>5 DEF F
  <2>2. \A i \in 1..L : node[i].next = 0 => walk[i] = F(i)
    BY <1>2, <1>5, <2>1
  <2>3. \A i \in 1..L : node[i].next /= 0 =>
           /\ node[i].next \in 1..L /\ p[i] = p[node[i].next] + 1
           /\ (walk[node[i].next] = F(node[i].next) => walk[i] = F(i))
    <3> TAKE i \in 1..L
    <3> PICK x : x = node[i].next
      OBVIOUS
    <3>1. x \in 0..L /\ (x /= 0 => p[i] = p[x] + 1)
      BY <1>1 DEF Linked
    <3>2. F(i) = IF i \in S THEN i ELSE F(x)
      BY <1>2
    <3>3. walk[i] = IF i \in S THEN i ELSE walk[x]
      BY <1>5
    <3> QED
      BY <3>1, <3>2, <3>3
  <2>4. 0 \in T
    <3> SUFFICES ASSUME NEW i \in 1..L, p[i] <= 0 PROVE walk[i] = F(i)
      BY <2>0
    <3>1. node[i].next = 0
      BY <2>0, <2>3
    <3> QED
      BY <2>2, <3>1
  <2>5. \A d \in 0..n : d \in T /\ d < n => d + 1 \in T
    <3> SUFFICES ASSUME NEW d \in 0..n, d \in T, d < n PROVE d + 1 \in T
      OBVIOUS
    <3>1. d + 1 \in 0..n
      BY <2>0
    <3>2. ASSUME NEW i \in 1..L, p[i] <= d + 1 PROVE walk[i] = F(i)
      <4>1. CASE node[i].next = 0
        BY <2>2, <4>1
      <4>2. CASE node[i].next /= 0
        <5>1. node[i].next \in 1..L /\ p[i] = p[node[i].next] + 1
          BY <2>3, <4>2
        <5>2. p[node[i].next] <= d /\ node[i].next \in 1..L
          BY <2>0, <3>2, <5>1
        <5>3. walk[node[i].next] = F(node[i].next)
          BY <5>2
        <5> QED
          BY <2>3, <4>2, <5>3
      <4> QED
        BY <4>1, <4>2
    <3> QED
      BY <3>1, <3>2
  <2>6. 0..n \subseteq T
    <3> HIDE DEF T, n
    <3> QED
      BY <2>0, <2>4, <2>5, Induction
  <2>7. n \in T
    <3> HIDE DEF T
    <3> QED
      BY <2>0, <2>6
  <2> QED
    BY <2>0, <2>7
<1>7. Walk(s, k, S) = walk[MainPosition(s, k)]
  BY DEF Walk
<1> QED
  <2> HIDE DEF walk
  <2>1. MainPosition(s, k) /= 0
    OBVIOUS
  <2> QED
    BY <1>6, <1>7, <2>1
-----------------------------------------------------------------------------
(***************************************************************************)
(* The shape of a hash part.                                               *)
(***************************************************************************)

NodeRec == [key : Key \cup {nil}, dead : BOOLEAN, val : Value \cup {nil}, next : Nat]

\* The main position of k among L nodes.
Main(L, k) == (Hash[k] % (IF k \in Str \/ L = 1 THEN L ELSE L - 1)) + 1

\* A node without a key is a chain of its own.
FreeAlone(L, node, c) ==
    \A i \in 1..L : node[i].key = nil =>
        node[i].val = nil /\ node[i].next = 0 /\ \A j \in 1..L : c[j] = c[i] => j = i

\* The main position of a key holds a key that is at home there, and its chain
\* leads to the key.  Two chains may run together, when a node without a value
\* is used again.
Home(L, node, c, p) ==
    \A i \in 1..L : node[i].key /= nil =>
        /\ node[Main(L, node[i].key)].key /= nil
        /\ Main(L, node[Main(L, node[i].key)].key) = Main(L, node[i].key)
        /\ c[Main(L, node[i].key)] = c[i] /\ p[i] <= p[Main(L, node[i].key)]

\* A dead key has no value, and comes after a live one that is equal to it.
DeadBehind(L, node, p) ==
    /\ \A i \in 1..L : node[i].dead => node[i].val = nil
    /\ \A i, j \in 1..L :
          node[i].key = node[j].key /\ node[i].key /= nil /\ ~node[i].dead => p[j] <= p[i]

Shape(L, node, c, p) ==
    /\ L \in Nat /\ node \in [1..L -> NodeRec]
    /\ Linked(L, node, c, p)
    /\ FreeAlone(L, node, c)
    /\ Home(L, node, c, p)
    /\ DeadBehind(L, node, p)

LEMMA MainRange ==
    ASSUME NEW L \in Nat \ {0}, NEW k \in Key
    PROVE  Main(L, k) \in 1..L
<1> PICK h : h = Hash[k]
  OBVIOUS
<1>1. h \in Nat
  BY TableAssumption
<1> PICK m : m = IF k \in Str \/ L = 1 THEN L ELSE L - 1
  OBVIOUS
<1>2. m \in Nat \ {0} /\ m <= L
  OBVIOUS
<1>3. h % m \in 0..(m - 1)
  BY <1>1, <1>2
<1>4. Main(L, k) = (h % m) + 1
  BY DEF Main
<1> QED
  BY <1>2, <1>3, <1>4

\* The nodes that a walk from the main position of a key passes.
LEMMA KeyPassed ==
    ASSUME NEW L \in Nat \ {0}, NEW s, s.node \in Seq(NodeRec), Len(s.node) = L,
           NEW c, NEW p, Shape(L, s.node, c, p),
           NEW q \in Key, NEW S \in SUBSET (1..L), \A i \in S : s.node[i].key = q
    PROVE  /\ S = {} => Walk(s, q, S) = 0
           /\ S /= {} => Walk(s, q, S) \in S
           /\ \A i \in S : p[i] <= p[Walk(s, q, S)]
<1> PICK node : node = s.node
  OBVIOUS
<1> PICK m : m = Main(L, q)
  OBVIOUS
<1>1. m \in 1..L
  BY MainRange
<1>2. MainPosition(s, q) = m
  BY DEF MainPosition, Main
<1>3. Linked(L, node, c, p) /\ s.node /= <<>> /\ L \in Nat
  BY DEF Shape
<1>4. Walk(s, q, S) = First(c, p, m, S)
  <2>1. L \in Nat \ {0} /\ Len(s.node) = L /\ s.node /= <<>> /\ Linked(L, s.node, c, p)
        /\ MainPosition(s, q) \in 1..L /\ S \in SUBSET (1..L)
    BY <1>1, <1>2, <1>3
  <2>2. Walk(s, q, S) = First(c, p, MainPosition(s, q), S)
    BY ONLY <2>1, WalkIs
  <2> QED
    BY <1>2, <2>2
<1>5. \A i \in S : c[i] = c[m] /\ p[i] <= p[m]
  <2> TAKE i \in S
  <2>1. i \in 1..L /\ node[i].key = q /\ q /= nil
    BY TableAssumption
  <2>2. Home(L, node, c, p)
    BY DEF Shape
  <2>3. c[Main(L, q)] = c[i] /\ p[i] <= p[Main(L, q)]
    BY ONLY <2>1, <2>2 DEF Home
  <2> QED
    BY <2>3
<1>6. Passed(c, p, m, S) = S
  BY <1>5 DEF Passed
<1>7. CASE S = {}
  BY <1>4, <1>6, <1>7 DEF First
<1>8. CASE S /= {}
  <2>1. L \in Nat /\ Linked(L, node, c, p) /\ m \in 1..L /\ S \in SUBSET (1..L)
        /\ Passed(c, p, m, S) /= {}
    BY <1>1, <1>3, <1>6, <1>8
  <2>2. /\ First(c, p, m, S) \in Passed(c, p, m, S)
        /\ \A x \in Passed(c, p, m, S) : p[x] <= p[First(c, p, m, S)]
    BY ONLY <2>1, FirstIs
  <2> QED
    BY <1>4, <1>6, <1>8, <2>2
<1> QED
  BY <1>7, <1>8

\* Node i is the one for key q.
Live(node, i, q) == node[i].key = q /\ ~node[i].dead

LEMMA OneLive ==
    ASSUME NEW L, NEW node, NEW c, NEW p, Shape(L, node, c, p),
           NEW i \in 1..L, NEW j \in 1..L, NEW q \in Key, Live(node, i, q), Live(node, j, q)
    PROVE  i = j
<1>1. node[i].key = node[j].key /\ node[i].key /= nil /\ ~node[i].dead /\ ~node[j].dead
  BY TableAssumption DEF Live
<1>2. p[j] <= p[i] /\ p[i] <= p[j]
  BY <1>1 DEF Shape, DeadBehind
<1>3. p[i] \in Nat /\ p[j] \in Nat
  BY DEF Shape, Linked
<1>4. c[i] = c[j]
  <2>1. c[Main(L, node[i].key)] = c[i] /\ c[Main(L, node[j].key)] = c[j]
    BY <1>1 DEF Shape, Home
  <2> QED
    BY <1>1, <2>1
<1>5. p[i] = p[j]
  BY <1>2, <1>3
<1> QED
  BY <1>4, <1>5 DEF Shape, Linked

\* luaH_get finds the live node of a key.
LEMMA FindIs ==
    ASSUME NEW s, s.node \in Seq(NodeRec), NEW c, NEW p, Shape(Len(s.node), s.node, c, p),
           NEW q \in Key
    PROVE  /\ Find(s, q) \in 0..Len(s.node)
           /\ Find(s, q) /= 0 => Live(s.node, Find(s, q), q)
           /\ \A i \in 1..Len(s.node) : Live(s.node, i, q) => Find(s, q) = i
<1> DEFINE L == Len(s.node)
           S == {i \in DOMAIN s.node : s.node[i].key = q /\ ~s.node[i].dead}
<1>1. Find(s, q) = Walk(s, q, S) /\ DOMAIN s.node = 1..L /\ L \in Nat
  BY DEF Find
<1>2. CASE s.node = <<>>
  <2>1. Find(s, q) = 0
    BY <1>2 DEF Find, Walk
  <2> QED
    BY <1>2, <2>1
<1>3. CASE s.node /= <<>>
  <2>1. L \in Nat \ {0} /\ s.node \in Seq(NodeRec) /\ Len(s.node) = L /\ Shape(L, s.node, c, p)
        /\ q \in Key /\ S \in SUBSET (1..L) /\ \A i \in S : s.node[i].key = q
    BY <1>1, <1>3
  <2>2. /\ S = {} => Walk(s, q, S) = 0
        /\ S /= {} => Walk(s, q, S) \in S
    <3> HIDE DEF L, S
    <3> QED
      BY ONLY <2>1, KeyPassed
  <2>3. Find(s, q) \in 0..L /\ (Find(s, q) /= 0 => Live(s.node, Find(s, q), q))
    BY <1>1, <2>1, <2>2 DEF Live
  <2>4. ASSUME NEW i \in 1..L, Live(s.node, i, q) PROVE Find(s, q) = i
    <3>1. i \in S
      BY <1>1, <2>4 DEF Live
    <3>2. Find(s, q) \in 1..L /\ Live(s.node, Find(s, q), q)
      BY <1>1, <2>1, <2>2, <2>3, <3>1
    <3> PICK f : f = Find(s, q)
      OBVIOUS
    <3>3. Shape(L, s.node, c, p) /\ i \in 1..L /\ f \in 1..L /\ Live(s.node, i, q)
          /\ Live(s.node, f, q) /\ q \in Key
      BY <2>1, <2>4, <3>2
    <3> HIDE DEF L
    <3> QED
      BY <3>3, OneLive
  <2> QED
    BY <2>3, <2>4
<1> QED
  BY <1>2, <1>3
-----------------------------------------------------------------------------
(***************************************************************************)
(* The inductive invariant.                                                *)
(***************************************************************************)

TableRec ==
    [array : Seq(Value \cup {nil}), node : Seq(NodeRec), lastfree : Nat, failed : BOOLEAN]

\* The parts of a table fit: a key of the array is in no node, and the nodes
\* from lastfree on all have a key.
Parts(s) ==
    /\ s \in TableRec
    /\ \A i \in 1..Len(s.array) : s.array[i] /= nil => i \in Key
    /\ \A i \in 1..Len(s.node) : s.node[i].key /= nil => s.node[i].key \notin 1..Len(s.array)
    /\ s.lastfree <= Len(s.node) + 1
    /\ \A i \in 1..Len(s.node) : i >= s.lastfree => s.node[i].key /= nil
    /\ s.node = <<>> \/ \E i \in Nat : Len(s.node) = twoto[i]

Shaped(s) == \E c, p : Shape(Len(s.node), s.node, c, p)

Good(s) == Parts(s) /\ Shaped(s)

\* The indices of a traversal
Indices(s) == 1..(Len(s.array) + Len(s.node))

\* The keys of the fields up to index n
Behind(s, n) == {FieldAt(s, i).key : i \in {j \in Indices(s) : j <= n /\ FieldAt(s, j).val /= nil}}

\* The loop has visited the fields up to that of its last key.
LoopAt ==
    /\ on \in BOOLEAN /\ last \in Key \cup {nil} /\ used \in SUBSET Key
    /\ ~on => last = nil /\ seen = {}
    /\ on => FindIndex(t, last) >= 0 /\ seen = Behind(t, FindIndex(t, last))

IInv == Good(t) /\ ~t.failed /\ LoopAt
-----------------------------------------------------------------------------
(***************************************************************************)
(* luaH_get, findindex and getfreepos.                                     *)
(***************************************************************************)

LEMMA GetIs ==
    ASSUME NEW s, Good(s), NEW q \in Key
    PROVE  /\ Get(s, q) \in Value \cup {nil}
           /\ InArray(s, q) => Get(s, q) = s.array[q]
           /\ ~InArray(s, q) =>
                 /\ \A i \in 1..Len(s.node) : Live(s.node, i, q) => Get(s, q) = s.node[i].val
                 /\ (\A i \in 1..Len(s.node) : ~Live(s.node, i, q)) => Get(s, q) = nil
<1>1. s.array \in Seq(Value \cup {nil}) /\ s.node \in Seq(NodeRec)
  BY DEF Good, Parts, TableRec
<1>2. PICK c, p : Shape(Len(s.node), s.node, c, p)
  BY DEF Good, Shaped
<1>3. /\ Find(s, q) \in 0..Len(s.node)
      /\ Find(s, q) /= 0 => Live(s.node, Find(s, q), q)
      /\ \A i \in 1..Len(s.node) : Live(s.node, i, q) => Find(s, q) = i
  BY <1>1, <1>2, FindIs
<1>4. CASE InArray(s, q)
  <2>1. q \in 1..Len(s.array)
    BY <1>4 DEF InArray
  <2> QED
    BY <1>1, <1>4, <2>1 DEF Get
<1>5. CASE ~InArray(s, q) /\ Find(s, q) = 0
  BY <1>3, <1>5 DEF Get
<1>6. CASE ~InArray(s, q) /\ Find(s, q) /= 0
  <2>1. PICK f : f = Find(s, q)
    OBVIOUS
  <2>2. f \in 1..Len(s.node) /\ Live(s.node, f, q) /\ Get(s, q) = s.node[f].val
    BY <1>3, <1>6, <2>1 DEF Get
  <2>3. s.node[f] \in NodeRec
    BY <1>1, <2>2
  <2>4. s.node[f].val \in Value \cup {nil}
    BY <2>3 DEF NodeRec
  <2> QED
    BY <1>3, <1>6, <2>1, <2>2, <2>4
<1> QED
  BY <1>4, <1>5, <1>6

LEMMA FreePosIs ==
    ASSUME NEW s, Parts(s)
    PROVE  /\ FreePos(s) = 0 => \A i \in 1..Len(s.node) : s.node[i].key /= nil
           /\ FreePos(s) /= 0 =>
                 /\ FreePos(s) \in 1..Len(s.node) /\ s.node[FreePos(s)].key = nil
                 /\ \A i \in 1..Len(s.node) : i >= FreePos(s) /\ i /= FreePos(s) => s.node[i].key /= nil
<1> DEFINE free == {i \in 1..(s.lastfree - 1) : s.node[i].key = nil}
           L == Len(s.node)
<1>1. s.lastfree \in Nat /\ L \in Nat /\ s.lastfree <= L + 1
      /\ \A i \in 1..L : i >= s.lastfree => s.node[i].key /= nil
  BY DEF Parts, TableRec
<1>2. \A i \in 1..L : s.node[i].key = nil => i \in free
  BY <1>1
<1>3. free \in SUBSET (1..L)
  BY <1>1
<1>4. FreePos(s) = IF free = {} THEN 0 ELSE Max(free)
  BY DEF FreePos
<1>5. CASE free = {}
  BY <1>2, <1>4, <1>5
<1>6. CASE free /= {}
  <2>1. Max(free) \in free /\ \A x \in free : x <= Max(free)
    <3> HIDE DEF free, L
    <3> QED
      BY <1>1, <1>3, <1>6, LargestIndex
  <2> PICK n : n = Max(free)
    OBVIOUS
  <2>2. n \in 1..L /\ s.node[n].key = nil /\ FreePos(s) = n /\ n < s.lastfree
    BY <1>1, <1>3, <1>4, <1>6, <2>1
  <2>3. ASSUME NEW i \in 1..L, i >= n, i /= n PROVE s.node[i].key /= nil
    <3>1. ~(i <= n)
      BY <1>1, <2>2, <2>3
    <3>2. i \notin free
      BY <2>1, <3>1
    <3> QED
      BY <1>2, <3>2
  <2> QED
    BY <2>2, <2>3
<1> QED
  BY <1>5, <1>6
-----------------------------------------------------------------------------
(***************************************************************************)
(* newkey keeps the shape.                                                 *)
(***************************************************************************)

\* The facts of a shape, one by one.
LEMMA ShapeFacts ==
    ASSUME NEW L, NEW node, NEW c, NEW p, Shape(L, node, c, p)
    PROVE  /\ L \in Nat
           /\ \A i \in 1..L : c[i] \in 1..L
           /\ \A i \in 1..L : p[i] \in Nat
           /\ \A i \in 1..L : node[i].next \in 0..L
           /\ \A i \in 1..L : node[i].next = 0 => p[i] = 0
           /\ \A i \in 1..L : node[i].next /= 0 => c[node[i].next] = c[i]
           /\ \A i \in 1..L : node[i].next /= 0 => p[i] = p[node[i].next] + 1
           /\ \A i, j \in 1..L : c[i] = c[j] /\ p[i] = p[j] => i = j
<1>1. L \in Nat /\ Linked(L, node, c, p)
  BY DEF Shape
<1> QED
  BY <1>1 DEF Linked

LEMMA HomeFacts ==
    ASSUME NEW L, NEW node, NEW c, NEW p, Shape(L, node, c, p),
           NEW i \in 1..L, node[i].key /= nil
    PROVE  /\ node[i].key \in Key
           /\ Main(L, node[i].key) \in 1..L
           /\ node[Main(L, node[i].key)].key /= nil
           /\ Main(L, node[Main(L, node[i].key)].key) = Main(L, node[i].key)
           /\ c[Main(L, node[i].key)] = c[i]
           /\ p[i] <= p[Main(L, node[i].key)]
<1>1. node[i] \in NodeRec /\ L \in Nat /\ Home(L, node, c, p)
  BY DEF Shape
<1>2. node[i].key \in Key
  BY <1>1 DEF NodeRec
<1>3. L \in Nat \ {0}
  BY <1>1
<1>4. Main(L, node[i].key) \in 1..L
  BY <1>2, <1>3, MainRange
<1> QED
  BY <1>1, <1>2, <1>4 DEF Home

\* A node without a value takes the key whose main position it is.
LEMMA ReuseShape ==
    ASSUME NEW L, NEW node, NEW c, NEW p, Shape(L, node, c, p),
           NEW k \in Key, NEW v \in Value \cup {nil}, NEW m \in 1..L, m = Main(L, k),
           \A i \in 1..L : ~Live(node, i, k),
           NEW new, new \in [1..L -> NodeRec],
           \A i \in 1..L : i /= m => new[i] = node[i],
           new[m] = Node(k, v, node[m].next)
    PROVE  Shape(L, new, c, p)
<1>0. k /= nil
  BY TableAssumption
<1>1. new[m].key = k /\ new[m].next = node[m].next /\ new[m].dead = FALSE
  BY DEF Node
<1>2. \A i \in 1..L : new[i].next = node[i].next
  BY <1>1
<1>3. Linked(L, new, c, p)
  BY <1>2 DEF Shape, Linked
<1>4. FreeAlone(L, new, c)
  BY <1>0, <1>1 DEF Shape, FreeAlone
<1>5. Home(L, new, c, p)
  <2> SUFFICES ASSUME NEW i \in 1..L, new[i].key /= nil
               PROVE  LET h == Main(L, new[i].key)
                      IN  new[h].key /= nil /\ Main(L, new[h].key) = h /\ c[h] = c[i] /\ p[i] <= p[h]
    BY DEF Home
  <2>1. CASE i = m
    <3>1. p[m] \in Nat
      BY DEF Shape, Linked
    <3> QED
      BY <1>0, <1>1, <2>1, <3>1
  <2>2. CASE i /= m
    <3>1. new[i] = node[i] /\ node[i].key /= nil
      BY <2>2
    <3> PICK h : h = Main(L, node[i].key)
      OBVIOUS
    <3>2. h \in 1..L /\ node[h].key /= nil /\ Main(L, node[h].key) = h /\ c[h] = c[i] /\ p[i] <= p[h]
      BY <3>1, HomeFacts
    <3>3. new[h].key /= nil /\ Main(L, new[h].key) = h
      BY <1>0, <1>1, <3>2
    <3> QED
      BY <3>1, <3>2, <3>3
  <2> QED
    BY <2>1, <2>2
<1>6. DeadBehind(L, new, p)
  <2>1. \A i \in 1..L : new[i].dead => new[i].val = nil
    BY <1>1 DEF Shape, DeadBehind
  <2>2. ASSUME NEW i \in 1..L, NEW j \in 1..L, new[i].key = new[j].key, new[i].key /= nil, ~new[i].dead
        PROVE  p[j] <= p[i]
    <3>0. p[m] \in Nat
      BY DEF Shape, Linked
    <3>1. CASE i = m /\ j = m
      BY <3>0, <3>1
    <3>2. CASE i = m /\ j /= m
      <4>1. node[j].key = k
        BY <1>1, <2>2, <3>2
      <4>2. p[j] <= p[Main(L, node[j].key)]
        BY <1>0, <4>1, HomeFacts
      <4> QED
        BY <3>2, <4>1, <4>2
    <3>3. CASE i /= m /\ j = m
      BY <1>1, <2>2, <3>3 DEF Live
    <3>4. CASE i /= m /\ j /= m
      BY <2>2, <3>4 DEF Shape, DeadBehind
    <3> QED
      BY <3>1, <3>2, <3>3, <3>4
  <2> QED
    BY <2>1, <2>2 DEF DeadBehind
<1> QED
  BY <1>3, <1>4, <1>5, <1>6 DEF Shape

\* The colliding node is at home: the free node n is chained behind it.
\* The node r with another next
Linking(r, n) == [r EXCEPT !.next = n]

\* The key k comes into the free node n, behind its main position m.
Inserted(L, node, k, v, m, n, new) ==
    /\ k \in Key /\ v \in Value \cup {nil} /\ m \in 1..L /\ m = Main(L, k)
    /\ \A i \in 1..L : ~Live(node, i, k)
    /\ node[m].val /= nil /\ Main(L, node[m].key) = m
    /\ n \in 1..L /\ node[n].key = nil
    /\ new \in [1..L -> NodeRec]
    /\ \A i \in 1..L : i /= m /\ i /= n => new[i] = node[i]
    /\ new[n] = Node(k, v, node[m].next)
    /\ new[m] = Linking(node[m], n)

LEMMA InsertShape ==
    ASSUME NEW L, NEW node, NEW c, NEW p, Shape(L, node, c, p),
           NEW k, NEW v, NEW m, NEW n, NEW new, Inserted(L, node, k, v, m, n, new)
    PROVE  \E d, q : Shape(L, new, d, q)
<1> /\ k \in Key /\ v \in Value \cup {nil} /\ m \in 1..L /\ m = Main(L, k)
    /\ \A i \in 1..L : ~Live(node, i, k)
    /\ node[m].val /= nil /\ Main(L, node[m].key) = m
    /\ n \in 1..L /\ node[n].key = nil
    /\ new \in [1..L -> NodeRec]
    /\ \A i \in 1..L : i /= m /\ i /= n => new[i] = node[i]
    /\ new[n] = Node(k, v, node[m].next)
    /\ new[m] = Linking(node[m], n)
  BY DEF Inserted
<1> DEFINE d == [i \in 1..L |-> IF i = n THEN c[m] ELSE c[i]]
           q == [i \in 1..L |-> IF i = n THEN p[m]
                                ELSE IF c[i] = c[m] /\ p[i] >= p[m] THEN p[i] + 1 ELSE p[i]]
<1>0. k /= nil
  BY TableAssumption
<1>1. new[n].key = k /\ new[n].next = node[m].next /\ new[n].dead = FALSE
  BY DEF Node
<1>2. node[m] \in NodeRec /\ node[m].dead = FALSE /\ node[m].key /= nil /\ m /= n
  BY DEF Shape, NodeRec, DeadBehind, FreeAlone
<1>3. new[m].key = node[m].key /\ new[m].next = n /\ new[m].dead = FALSE /\ new[m].val = node[m].val
  BY <1>2 DEF NodeRec, Linking
<1>4. /\ L \in Nat
      /\ \A i \in 1..L : c[i] \in 1..L
      /\ \A i \in 1..L : p[i] \in Nat
      /\ \A i \in 1..L : node[i].next \in 0..L
      /\ \A i \in 1..L : node[i].next = 0 => p[i] = 0
      /\ \A i \in 1..L : node[i].next /= 0 => c[node[i].next] = c[i]
      /\ \A i \in 1..L : node[i].next /= 0 => p[i] = p[node[i].next] + 1
      /\ \A i, j \in 1..L : c[i] = c[j] /\ p[i] = p[j] => i = j
  <2>1. Shape(L, node, c, p)
    OBVIOUS
  <2> QED
    BY ONLY <2>1, ShapeFacts
<1>5. node[n].next = 0 /\ \A j \in 1..L : c[j] = c[n] => j = n
  BY DEF Shape, FreeAlone
<1>6. /\ d \in [1..L -> 1..L] /\ q \in [1..L -> Nat]
      /\ \A i \in 1..L : i /= n => d[i] = c[i]
      /\ d[n] = c[m] /\ q[n] = p[m]
      /\ \A i \in 1..L : i /= n /\ c[i] = c[m] /\ p[i] >= p[m] => q[i] = p[i] + 1
      /\ \A i \in 1..L : i /= n /\ ~(c[i] = c[m] /\ p[i] >= p[m]) => q[i] = p[i]
  BY <1>4
<1> HIDE DEF d, q

\* Within a chain the order stays.
<1>7. \A i, j \in 1..L : i /= n /\ j /= n /\ c[i] = c[j] /\ p[i] <= p[j] => q[i] <= q[j]
  <2> TAKE i, j \in 1..L
  <2>1. p[i] \in Nat /\ p[j] \in Nat /\ p[m] \in Nat
    BY <1>4
  <2> QED
    BY <1>6, <2>1
<1>8. Linked(L, new, d, q)
  <2>1. ASSUME NEW i \in 1..L
        PROVE  /\ new[i].next \in 0..L
               /\ new[i].next = 0 => q[i] = 0
               /\ new[i].next /= 0 => d[new[i].next] = d[i] /\ q[i] = q[new[i].next] + 1
    <3>1. CASE i = n
      <4> PICK x : x = node[m].next
        OBVIOUS
      <4>1. x \in 0..L /\ (x = 0 => p[m] = 0) /\ (x /= 0 => c[x] = c[m] /\ p[m] = p[x] + 1)
        BY <1>4
      <4>2. x /= 0 => x /= n
        BY <1>2, <1>5, <4>1
      <4>3. x /= 0 => d[x] = c[m] /\ q[x] = p[x]
        <5> HAVE x /= 0
        <5>1. p[x] \in Nat /\ p[m] \in Nat
          BY <1>4, <4>1
        <5>2. x \in 1..L /\ c[x] = c[m] /\ ~(p[x] >= p[m])
          BY <1>4, <4>1, <5>1
        <5>3. d[x] = c[x]
          BY <1>6, <4>2, <5>2
        <5>4. q[x] = p[x]
          BY <1>6, <4>2, <5>2
        <5> QED
          BY <5>2, <5>3, <5>4
      <4>4. new[i].next = x
        BY <1>1, <3>1
      <4>5. d[i] = c[m] /\ q[i] = p[m]
        BY <1>6, <3>1
      <4> QED
        BY ONLY <4>1, <4>3, <4>4, <4>5
    <3>2. CASE i = m
      <4>1. p[m] \in Nat
        BY <1>4
      <4>2. q[m] = p[m] + 1 /\ d[m] = c[m]
        BY <1>2, <1>6, <4>1
      <4>3. new[i].next = n /\ n \in 0..L /\ n /= 0 /\ q[n] = p[m] /\ d[n] = c[m]
        <5>1. new[i].next = n
          BY <1>3, <3>2
        <5>2. n \in 0..L /\ n /= 0
          BY <1>4
        <5>3. q[n] = p[m] /\ d[n] = c[m]
          BY <1>6
        <5> QED
          BY <5>1, <5>2, <5>3
      <4>4. d[i] = d[n] /\ q[i] = q[n] + 1
        BY ONLY <3>2, <4>2, <4>3
      <4> QED
        BY <4>3, <4>4
    <3>3. CASE i /= m /\ i /= n
      <4> PICK x : x = node[i].next
        OBVIOUS
      <4>0. new[i].next = x
        BY <3>3
      <4>1. x \in 0..L /\ (x = 0 => p[i] = 0) /\ (x /= 0 => c[x] = c[i] /\ p[i] = p[x] + 1)
            /\ p[i] \in Nat /\ p[m] \in Nat
        BY <1>4
      <4>2. c[i] = c[m] => p[i] /= p[m]
        BY <1>4, <3>3
      <4>3. x = 0 => q[i] = 0
        BY <1>6, <3>3, <4>1, <4>2
      <4>4. x /= 0 => d[x] = d[i] /\ q[i] = q[x] + 1
        <5> HAVE x /= 0
        <5>1. x \in 1..L /\ x /= n /\ p[x] \in Nat
          BY <1>4, <1>5, <3>3, <4>1
        <5>2. d[x] = c[x] /\ d[i] = c[i] /\ c[x] = c[i] /\ p[i] = p[x] + 1
          BY <1>6, <3>3, <4>1, <5>1
        <5>3. CASE c[i] = c[m] /\ p[i] >= p[m]
          <6>1. p[x] >= p[m]
            BY <4>1, <4>2, <5>1, <5>3
          <6>2. q[i] = p[i] + 1 /\ q[x] = p[x] + 1
            BY <1>6, <3>3, <5>1, <5>2, <5>3, <6>1
          <6> QED
            BY <5>2, <6>2
        <5>4. CASE ~(c[i] = c[m] /\ p[i] >= p[m])
          <6>1. ~(c[x] = c[m] /\ p[x] >= p[m])
            BY <4>1, <5>1, <5>2, <5>4
          <6>2. q[i] = p[i] /\ q[x] = p[x]
            BY <1>6, <3>3, <5>1, <5>4, <6>1
          <6> QED
            BY <5>2, <6>2
        <5> QED
          BY <5>3, <5>4
      <4> QED
        BY <4>0, <4>1, <4>3, <4>4
    <3> QED
      BY <3>1, <3>2, <3>3
  <2>2. ASSUME NEW i \in 1..L, NEW j \in 1..L, d[i] = d[j], q[i] = q[j]
        PROVE  i = j
    <3>1. p[i] \in Nat /\ p[j] \in Nat /\ p[m] \in Nat
      BY <1>4
    <3>2. CASE i = n /\ j /= n
      BY <1>6, <2>2, <3>1, <3>2
    <3>3. CASE i /= n /\ j = n
      BY <1>6, <2>2, <3>1, <3>3
    <3>4. CASE i /= n /\ j /= n
      <4>1. c[i] = c[j]
        BY <1>6, <2>2, <3>4
      <4>2. p[i] = p[j]
        <5>1. q[i] = IF c[i] = c[m] /\ p[i] >= p[m] THEN p[i] + 1 ELSE p[i]
          BY <1>6, <3>4
        <5>2. q[j] = IF c[j] = c[m] /\ p[j] >= p[m] THEN p[j] + 1 ELSE p[j]
          BY <1>6, <3>4
        <5>3. PICK x, y, z, b : x = p[i] /\ y = p[j] /\ z = p[m] /\ b = (c[i] = c[m])
          OBVIOUS
        <5>4. (IF b /\ x >= z THEN x + 1 ELSE x) = (IF b /\ y >= z THEN y + 1 ELSE y)
          BY <2>2, <4>1, <5>1, <5>2, <5>3
        <5>5. x \in Nat /\ y \in Nat /\ z \in Nat /\ b \in BOOLEAN
          BY <3>1, <5>3
        <5>6. x = y
          BY ONLY <5>4, <5>5
        <5> QED
          BY <5>3, <5>6
      <4> QED
        BY <1>4, <4>1, <4>2
    <3> QED
      BY <3>2, <3>3, <3>4
  <2> QED
    BY <1>6, <2>1, <2>2 DEF Linked
<1>9. FreeAlone(L, new, d)
  <2> SUFFICES ASSUME NEW i \in 1..L, new[i].key = nil
               PROVE  /\ new[i].val = nil /\ new[i].next = 0
                      /\ \A j \in 1..L : d[j] = d[i] => j = i
    BY DEF FreeAlone
  <2>1. i /= n /\ i /= m /\ new[i] = node[i]
    BY <1>0, <1>1, <1>2, <1>3
  <2>2. node[i].val = nil /\ node[i].next = 0 /\ \A j \in 1..L : c[j] = c[i] => j = i
    BY <2>1 DEF Shape, FreeAlone
  <2>3. \A j \in 1..L : d[j] = d[i] => j = i
    BY <1>6, <2>1, <2>2
  <2> QED
    BY <2>1, <2>2, <2>3
<1>10. \A i \in 1..L : i /= n => new[i].key = node[i].key /\ new[i].dead = node[i].dead
  BY <1>2, <1>3
<1>11. Home(L, new, d, q)
  <2> SUFFICES ASSUME NEW i \in 1..L, new[i].key /= nil
               PROVE  LET h == Main(L, new[i].key)
                      IN  new[h].key /= nil /\ Main(L, new[h].key) = h /\ d[h] = d[i] /\ q[i] <= q[h]
    BY DEF Home
  <2>1. CASE i = n
    <3>1. p[m] \in Nat
      BY <1>4
    <3>2. q[m] = p[m] + 1 /\ d[m] = c[m] /\ q[n] = p[m] /\ d[n] = c[m]
      BY <1>2, <1>6, <3>1
    <3>3. Main(L, new[i].key) = m /\ new[m].key /= nil /\ Main(L, new[m].key) = m
      BY <1>1, <1>2, <1>3, <2>1
    <3>4. q[n] <= q[m]
      BY ONLY <3>1, <3>2
    <3> QED
      BY ONLY <2>1, <3>2, <3>3, <3>4
  <2>2. CASE i /= n
    <3>1. new[i].key = node[i].key /\ node[i].key /= nil
      BY <1>10, <2>2
    <3> PICK h : h = Main(L, node[i].key)
      OBVIOUS
    <3>2. h \in 1..L /\ node[h].key /= nil /\ Main(L, node[h].key) = h /\ c[h] = c[i] /\ p[i] <= p[h]
      BY <3>1, HomeFacts
    <3>3. h /= n /\ new[h].key = node[h].key /\ d[h] = c[h] /\ d[i] = c[i]
      BY <1>6, <1>10, <2>2, <3>2
    <3>4. q[i] <= q[h]
      BY <1>7, <2>2, <3>2, <3>3
    <3> QED
      BY <3>1, <3>2, <3>3, <3>4
  <2> QED
    BY <2>1, <2>2
<1>12. DeadBehind(L, new, q)
  <2>1. \A i \in 1..L : new[i].dead => new[i].val = nil
    <3> TAKE i \in 1..L
    <3>1. CASE i = n \/ i = m
      BY <1>1, <1>3, <3>1
    <3>2. CASE i /= n /\ i /= m
      BY <3>2 DEF Shape, DeadBehind
    <3> QED
      BY <3>1, <3>2
  <2>2. ASSUME NEW i \in 1..L, NEW j \in 1..L, new[i].key = new[j].key, new[i].key /= nil, ~new[i].dead
        PROVE  q[j] <= q[i]
    <3>1. CASE i = n /\ j = n
      BY <1>6, <3>1
    <3>2. CASE i = n /\ j /= n
      <4>1. node[j].key = k
        BY <1>1, <1>10, <2>2, <3>2
      <4>2. c[m] = c[j] /\ p[j] <= p[m]
        BY <1>0, <4>1, HomeFacts
      <4>3. j /= m
        BY <1>2, <4>1 DEF Live
      <4>4. p[j] \in Nat /\ p[m] \in Nat /\ p[j] /= p[m]
        BY <1>4, <4>2, <4>3
      <4>5. q[j] = p[j]
        BY <1>6, <3>2, <4>2, <4>4
      <4> QED
        BY <1>6, <3>2, <4>2, <4>5
    <3>3. CASE i /= n /\ j = n
      BY <1>1, <1>10, <2>2, <3>3 DEF Live
    <3>4. CASE i /= n /\ j /= n
      <4>1. node[i].key = node[j].key /\ node[i].key /= nil /\ ~node[i].dead
        BY <1>10, <2>2, <3>4
      <4>2. p[j] <= p[i]
        BY <4>1 DEF Shape, DeadBehind
      <4>3. c[Main(L, node[i].key)] = c[i] /\ c[Main(L, node[j].key)] = c[j]
        BY <4>1 DEF Shape, Home
      <4> QED
        BY <1>7, <3>4, <4>1, <4>2, <4>3
    <3> QED
      BY <3>1, <3>2, <3>3, <3>4
  <2> QED
    BY <2>1, <2>2 DEF DeadBehind
<1>13. Shape(L, new, d, q)
  BY <1>4, <1>8, <1>9, <1>11, <1>12 DEF Shape
<1> QED
  BY <1>13

\* The colliding node is not at home: it moves to the free node n.
\* The node in m goes to the free node n; w is the one before it.
Moved(L, node, k, v, m, n, w, new) ==
    /\ k \in Key /\ v \in Value \cup {nil} /\ m \in 1..L /\ m = Main(L, k)
    /\ \A i \in 1..L : ~Live(node, i, k)
    /\ node[m].val /= nil /\ Main(L, node[m].key) /= m
    /\ n \in 1..L /\ node[n].key = nil
    /\ w \in 1..L /\ node[w].next = m
    /\ new \in [1..L -> NodeRec]
    /\ \A i \in 1..L : i /= m /\ i /= n /\ i /= w => new[i] = node[i]
    /\ new[w] = Linking(node[w], n)
    /\ new[n] = node[m]
    /\ new[m] = Node(k, v, 0)

LEMMA MoveShape ==
    ASSUME NEW L, NEW node, NEW c, NEW p, Shape(L, node, c, p),
           NEW k, NEW v, NEW m, NEW n, NEW w, NEW new, Moved(L, node, k, v, m, n, w, new)
    PROVE  \E d, q : Shape(L, new, d, q)
<1> /\ k \in Key /\ v \in Value \cup {nil} /\ m \in 1..L /\ m = Main(L, k)
    /\ \A i \in 1..L : ~Live(node, i, k)
    /\ node[m].val /= nil /\ Main(L, node[m].key) /= m
    /\ n \in 1..L /\ node[n].key = nil
    /\ w \in 1..L /\ node[w].next = m
    /\ new \in [1..L -> NodeRec]
    /\ \A i \in 1..L : i /= m /\ i /= n /\ i /= w => new[i] = node[i]
    /\ new[w] = Linking(node[w], n)
    /\ new[n] = node[m]
    /\ new[m] = Node(k, v, 0)
  BY DEF Moved
<1> DEFINE d == [i \in 1..L |-> IF i = n THEN c[m] ELSE IF i = m THEN c[n] ELSE c[i]]
           q == [i \in 1..L |-> IF i = n THEN p[m] ELSE IF i = m THEN p[n] ELSE p[i]]
<1>0. k /= nil
  BY TableAssumption
<1>1. new[m].key = k /\ new[m].next = 0 /\ new[m].dead = FALSE
  BY DEF Node
<1>2. node[m].key /= nil /\ m /= n
  BY DEF Shape, NodeRec, DeadBehind, FreeAlone
<1>4. /\ L \in Nat
      /\ \A i \in 1..L : c[i] \in 1..L
      /\ \A i \in 1..L : p[i] \in Nat
      /\ \A i \in 1..L : node[i].next \in 0..L
      /\ \A i \in 1..L : node[i].next = 0 => p[i] = 0
      /\ \A i \in 1..L : node[i].next /= 0 => c[node[i].next] = c[i]
      /\ \A i \in 1..L : node[i].next /= 0 => p[i] = p[node[i].next] + 1
      /\ \A i, j \in 1..L : c[i] = c[j] /\ p[i] = p[j] => i = j
  <2>1. Shape(L, node, c, p)
    OBVIOUS
  <2> QED
    BY ONLY <2>1, ShapeFacts
<1>5. node[n].next = 0 /\ \A j \in 1..L : c[j] = c[n] => j = n
  BY DEF Shape, FreeAlone
<1>a. p[n] = 0 /\ m /= 0 /\ n /= 0 /\ w /= n
  BY <1>4, <1>5
<1>b. c[w] = c[m] /\ p[w] = p[m] + 1 /\ w /= m
  <2>1. c[w] = c[m] /\ p[w] = p[m] + 1 /\ p[m] \in Nat
    BY <1>4, <1>a
  <2> QED
    BY <2>1
<1>3. node[w] \in NodeRec /\ new[w].key = node[w].key /\ new[w].next = n /\ new[w].dead = node[w].dead
      /\ new[w].val = node[w].val
  <2>1. node[w] \in NodeRec
    BY DEF Shape
  <2> QED
    BY <2>1 DEF NodeRec, Linking
<1>6t. d \in [1..L -> 1..L] /\ q \in [1..L -> Nat]
  BY <1>4
<1>6. /\ \A i \in 1..L : i /= n /\ i /= m => d[i] = c[i]
      /\ \A i \in 1..L : i /= n /\ i /= m => q[i] = p[i]
      /\ d[n] = c[m] /\ q[n] = p[m]
      /\ d[m] = c[n] /\ q[m] = p[n]
  BY <1>2
<1> HIDE DEF d, q
<1>7. \A i \in 1..L : i /= m /\ i /= n => new[i].key = node[i].key /\ new[i].dead = node[i].dead
                                          /\ new[i].val = node[i].val
  BY <1>3
<1>8. Linked(L, new, d, q)
  <2>1. ASSUME NEW i \in 1..L
        PROVE  /\ new[i].next \in 0..L
               /\ new[i].next = 0 => q[i] = 0
               /\ new[i].next /= 0 => d[new[i].next] = d[i] /\ q[i] = q[new[i].next] + 1
    <3>1. CASE i = n
      <4> PICK x : x = node[m].next
        OBVIOUS
      <4>1. x \in 0..L /\ (x = 0 => p[m] = 0) /\ (x /= 0 => c[x] = c[m] /\ p[m] = p[x] + 1)
        BY <1>4
      <4>2. x /= 0 => x /= n /\ x /= m
        <5> HAVE x /= 0
        <5>1. p[x] \in Nat /\ c[m] /= c[n]
          BY <1>2, <1>4, <1>5, <4>1
        <5> QED
          BY <4>1, <5>1
      <4>3. x /= 0 => d[x] = c[m] /\ q[x] = p[x]
        BY <1>6, <4>1, <4>2
      <4>4. new[i].next = x
        BY <3>1
      <4>5. q[i] = p[m] /\ d[i] = c[m]
        BY <1>6, <3>1
      <4> QED
        BY <4>1, <4>3, <4>4, <4>5
    <3>2. CASE i = m
      <4>1. new[i].next = 0 /\ q[i] = 0
        BY <1>1, <1>6, <1>a, <3>2
      <4> QED
        BY <1>4, <4>1
    <3>3. CASE i = w
      <4>1. new[i].next = n
        BY <1>3, <3>3
      <4>2. d[i] = c[m] /\ q[i] = p[m] + 1
        BY <1>6, <1>a, <1>b, <3>3
      <4>3. d[n] = c[m] /\ q[n] = p[m] /\ n \in 0..L /\ n /= 0
        BY <1>6, <1>a, <1>4
      <4> QED
        BY <4>1, <4>2, <4>3
    <3>4. CASE i /= m /\ i /= n /\ i /= w
      <4> PICK x : x = node[i].next
        OBVIOUS
      <4>0. new[i].next = x
        BY <3>4
      <4>1. x \in 0..L /\ (x = 0 => p[i] = 0) /\ (x /= 0 => c[x] = c[i] /\ p[i] = p[x] + 1)
        BY <1>4
      <4>2. x /= 0 => x /= n
        BY <1>5, <3>4, <4>1
      <4>3. x /= m
        <5> SUFFICES ASSUME x = m PROVE FALSE
          OBVIOUS
        <5>1. c[i] = c[w] /\ p[i] = p[w]
          BY <1>a, <1>b, <4>1
        <5> QED
          BY <1>4, <3>4, <5>1
      <4>4. q[i] = p[i] /\ d[i] = c[i]
        BY <1>6, <3>4
      <4>5. x /= 0 => q[x] = p[x] /\ d[x] = c[x]
        BY <1>6, <4>1, <4>2, <4>3
      <4> QED
        BY <4>0, <4>1, <4>4, <4>5
    <3> QED
      BY <3>1, <3>2, <3>3, <3>4
  <2>2. ASSUME NEW i \in 1..L, NEW j \in 1..L, d[i] = d[j], q[i] = q[j]
        PROVE  i = j
    <3> DEFINE swap(x) == IF x = n THEN m ELSE IF x = m THEN n ELSE x
    <3>1. \A x \in 1..L : swap(x) \in 1..L /\ d[x] = c[swap(x)] /\ q[x] = p[swap(x)]
      BY <1>2, <1>6
    <3>2. swap(i) = swap(j)
      <4> HIDE DEF swap
      <4>1. c[swap(i)] = c[swap(j)] /\ p[swap(i)] = p[swap(j)]
        BY <2>2, <3>1
      <4> QED
        BY <1>4, <3>1, <4>1
    <3> QED
      BY <1>2, <3>2
  <2> QED
    BY <1>6t, <2>1, <2>2 DEF Linked
<1>9. FreeAlone(L, new, d)
  <2> SUFFICES ASSUME NEW i \in 1..L, new[i].key = nil
               PROVE  /\ new[i].val = nil /\ new[i].next = 0
                      /\ \A j \in 1..L : d[j] = d[i] => j = i
    BY DEF FreeAlone
  <2>1. i /= n /\ i /= m
    BY <1>0, <1>1, <1>2
  <2>2. i /= w
    <3>1. node[i].key = nil
      BY <1>7, <2>1
    <3>2. node[i].next = 0
      BY <3>1 DEF Shape, FreeAlone
    <3> QED
      BY <1>a, <3>2
  <2>3. node[i].val = nil /\ node[i].next = 0 /\ \A j \in 1..L : c[j] = c[i] => j = i
    BY <2>1, <2>2 DEF Shape, FreeAlone
  <2>4. \A j \in 1..L : d[j] = d[i] => j = i
    <3> TAKE j \in 1..L
    <3> HAVE d[j] = d[i]
    <3>1. d[i] = c[i]
      BY <1>6, <2>1
    <3>2. CASE j = n
      BY <1>6, <2>1, <2>3, <3>1, <3>2
    <3>3. CASE j = m
      BY <1>6, <2>1, <2>3, <3>1, <3>3
    <3>4. CASE j /= n /\ j /= m
      BY <1>6, <2>3, <3>1, <3>4
    <3> QED
      BY <3>2, <3>3, <3>4
  <2> QED
    BY <2>1, <2>2, <2>3, <2>4

\* Nobody is at home in m, so that no key has its main position there.
<1>10. ASSUME NEW i \in 1..L, node[i].key /= nil
       PROVE  LET h == Main(L, node[i].key)
              IN  /\ h \in 1..L /\ h /= n /\ h /= m
                  /\ new[h].key /= nil /\ Main(L, new[h].key) = h
                  /\ d[h] = c[h] /\ q[h] = p[h]
                  /\ c[h] = c[i] /\ p[i] <= p[h]
  <2> PICK h : h = Main(L, node[i].key)
    OBVIOUS
  <2>1. h \in 1..L /\ node[h].key /= nil /\ Main(L, node[h].key) = h /\ c[h] = c[i] /\ p[i] <= p[h]
    BY <1>10, HomeFacts
  <2>2. h /= n /\ h /= m
    BY <2>1
  <2>3. new[h].key = node[h].key /\ d[h] = c[h] /\ q[h] = p[h]
    BY <1>6, <1>7, <2>1, <2>2
  <2> QED
    BY <2>1, <2>2, <2>3
<1>11. Home(L, new, d, q)
  <2> SUFFICES ASSUME NEW i \in 1..L, new[i].key /= nil
               PROVE  LET h == Main(L, new[i].key)
                      IN  new[h].key /= nil /\ Main(L, new[h].key) = h /\ d[h] = d[i] /\ q[i] <= q[h]
    BY DEF Home
  <2>1. CASE i = n
    <3>1. new[i].key = node[m].key /\ d[i] = c[m] /\ q[i] = p[m]
      BY <1>6, <2>1
    <3> PICK h : h = Main(L, node[m].key)
      OBVIOUS
    <3>2. /\ new[h].key /= nil /\ Main(L, new[h].key) = h
          /\ d[h] = c[h] /\ q[h] = p[h] /\ c[h] = c[m] /\ p[m] <= p[h]
      BY <1>2, <1>10
    <3> QED
      BY ONLY <3>1, <3>2, h = Main(L, node[m].key)
  <2>2. CASE i = m
    <3>1. p[n] \in Nat
      BY <1>4
    <3> QED
      BY <1>0, <1>1, <1>6, <2>2, <3>1
  <2>3. CASE i /= n /\ i /= m
    <3>1. new[i].key = node[i].key /\ d[i] = c[i] /\ q[i] = p[i] /\ node[i].key /= nil
      BY <1>6, <1>7, <2>3
    <3> PICK h : h = Main(L, node[i].key)
      OBVIOUS
    <3>2. /\ new[h].key /= nil /\ Main(L, new[h].key) = h
          /\ d[h] = c[h] /\ q[h] = p[h] /\ c[h] = c[i] /\ p[i] <= p[h]
      BY <1>10, <3>1
    <3> QED
      BY ONLY <3>1, <3>2, h = Main(L, node[i].key)
  <2> QED
    BY <2>1, <2>2, <2>3
<1>12. DeadBehind(L, new, q)
  <2>1. \A i \in 1..L : new[i].dead => new[i].val = nil
    <3> TAKE i \in 1..L
    <3>1. CASE i = m
      BY <1>1, <3>1
    <3>2. CASE i = n
      BY <3>2 DEF Shape, DeadBehind
    <3>3. CASE i /= n /\ i /= m
      BY <1>7, <3>3 DEF Shape, DeadBehind
    <3> QED
      BY <3>1, <3>2, <3>3
  <2>2. ASSUME NEW i \in 1..L, NEW j \in 1..L, new[i].key = new[j].key, new[i].key /= nil, ~new[i].dead
        PROVE  q[j] <= q[i]
    <3> DEFINE swap(x) == IF x = n THEN m ELSE x
    <3>0. \A x \in 1..L : x /= m => /\ swap(x) \in 1..L /\ q[x] = p[swap(x)]
                                    /\ new[x].key = node[swap(x)].key
                                    /\ new[x].dead = node[swap(x)].dead
      BY <1>6, <1>7
    <3> HIDE DEF swap
    <3>1. CASE i = m /\ j = m
      BY <1>4, <1>6, <3>1
    <3>2. CASE i = m /\ j /= m
      <4>1. node[swap(j)].key = k /\ swap(j) \in 1..L
        BY <1>1, <2>2, <3>0, <3>2
      <4> QED
        BY <1>0, <1>10, <4>1
    <3>3. CASE i /= m /\ j = m
      <4>1. node[swap(i)].key = k /\ swap(i) \in 1..L
        BY <1>1, <2>2, <3>0, <3>3
      <4> QED
        BY <1>0, <1>10, <4>1
    <3>4. CASE i /= m /\ j /= m
      <4>1. PICK x \in 1..L, y \in 1..L : x = swap(i) /\ y = swap(j)
        BY <3>0, <3>4
      <4>2. node[x].key = node[y].key /\ node[x].key /= nil /\ ~node[x].dead
        BY <2>2, <3>0, <3>4, <4>1
      <4>3. p[y] <= p[x]
        BY <4>2 DEF Shape, DeadBehind
      <4> QED
        BY <3>0, <3>4, <4>1, <4>3
    <3> QED
      BY <3>1, <3>2, <3>3, <3>4
  <2> QED
    BY <2>1, <2>2 DEF DeadBehind
<1>13. Shape(L, new, d, q)
  BY <1>4, <1>8, <1>9, <1>11, <1>12 DEF Shape
<1> QED
  BY <1>13
-----------------------------------------------------------------------------
(***************************************************************************)
(* What an assignment does to a table that has room for the key.           *)
(***************************************************************************)

Keys(s) == {s.node[i].key : i \in 1..Len(s.node)} \ {nil}

\* No key has died yet.
Fresh(s) == \A i \in 1..Len(s.node) : s.node[i].key /= nil => ~s.node[i].dead

Room(s, k) == InArray(s, k) \/ Find(s, k) /= 0 \/ ~Occupied(s, k) \/ FreePos(s) /= 0

\* u is s with v for k.
Stored(s, u, k, v) ==
    /\ Good(u)
    /\ u.failed = s.failed /\ Len(u.array) = Len(s.array) /\ Len(u.node) = Len(s.node)
    /\ \A q \in Key : Get(u, q) = IF q = k THEN v ELSE Get(s, q)
    /\ Keys(u) \subseteq Keys(s) \cup {k}
    /\ Fresh(s) => Fresh(u)

\* The live nodes of other keys are those of s, but for some without a value.
SameOthers(s, u, k) ==
    \A q \in Key \ {k} :
        /\ \A i \in 1..Len(u.node) : Live(u.node, i, q) =>
              \E j \in 1..Len(s.node) : Live(s.node, j, q) /\ s.node[j].val = u.node[i].val
        /\ \A j \in 1..Len(s.node) : Live(s.node, j, q) =>
              s.node[j].val = nil \/ \E i \in 1..Len(u.node) : Live(u.node, i, q)

LEMMA GetOthers ==
    ASSUME NEW s, Good(s), NEW u, Good(u), u.array = s.array, NEW k, SameOthers(s, u, k),
           NEW q \in Key, q /= k
    PROVE  Get(u, q) = Get(s, q)
<1>1. /\ Get(s, q) \in Value \cup {nil}
      /\ InArray(s, q) => Get(s, q) = s.array[q]
      /\ ~InArray(s, q) =>
            /\ \A i \in 1..Len(s.node) : Live(s.node, i, q) => Get(s, q) = s.node[i].val
            /\ (\A i \in 1..Len(s.node) : ~Live(s.node, i, q)) => Get(s, q) = nil
  BY GetIs
<1>2. /\ Get(u, q) \in Value \cup {nil}
      /\ InArray(u, q) => Get(u, q) = u.array[q]
      /\ ~InArray(u, q) =>
            /\ \A i \in 1..Len(u.node) : Live(u.node, i, q) => Get(u, q) = u.node[i].val
            /\ (\A i \in 1..Len(u.node) : ~Live(u.node, i, q)) => Get(u, q) = nil
  BY GetIs
<1>3. InArray(u, q) <=> InArray(s, q)
  BY DEF InArray
<1>4. CASE InArray(s, q)
  BY <1>1, <1>2, <1>3, <1>4
<1>5. CASE ~InArray(s, q) /\ \E i \in 1..Len(u.node) : Live(u.node, i, q)
  <2>1. PICK i \in 1..Len(u.node) : Live(u.node, i, q)
    BY <1>5
  <2>2. PICK j \in 1..Len(s.node) : Live(s.node, j, q) /\ s.node[j].val = u.node[i].val
    BY <2>1 DEF SameOthers
  <2> QED
    BY <1>1, <1>2, <1>3, <1>5, <2>1, <2>2
<1>6. CASE ~InArray(s, q) /\ \A i \in 1..Len(u.node) : ~Live(u.node, i, q)
  <2>1. Get(u, q) = nil
    BY <1>2, <1>3, <1>6
  <2>2. \A j \in 1..Len(s.node) : Live(s.node, j, q) => s.node[j].val = nil
    BY <1>6 DEF SameOthers
  <2>3. Get(s, q) = nil
    <3>1. CASE \E j \in 1..Len(s.node) : Live(s.node, j, q)
      BY <1>1, <1>6, <2>2, <3>1
    <3>2. CASE \A j \in 1..Len(s.node) : ~Live(s.node, j, q)
      BY <1>1, <1>6, <3>2
    <3> QED
      BY <3>1, <3>2
  <2> QED
    BY <2>1, <2>3
<1> QED
  BY <1>4, <1>5, <1>6

LEMMA GetLive ==
    ASSUME NEW u, Good(u), NEW k \in Key, ~InArray(u, k),
           NEW i \in 1..Len(u.node), Live(u.node, i, k)
    PROVE  Get(u, k) = u.node[i].val
BY GetIs

LEMMA PutArray ==
    ASSUME NEW s, Good(s), NEW k \in Key, NEW v \in Value \cup {nil}, InArray(s, k)
    PROVE  Stored(s, Put(s, k, v), k, v)
<1> PICK u : u = [s EXCEPT !.array[k] = v]
  OBVIOUS
<1>1. Put(s, k, v) = u
  BY DEF Put
<1>2. s \in TableRec /\ k \in 1..Len(s.array)
  BY DEF Good, Parts, InArray
<1>3. /\ u.node = s.node /\ u.lastfree = s.lastfree /\ u.failed = s.failed
      /\ u.array = [s.array EXCEPT ![k] = v]
      /\ u = [array |-> u.array, node |-> s.node, lastfree |-> s.lastfree, failed |-> s.failed]
  BY <1>2 DEF TableRec
<1>4. s.array \in Seq(Value \cup {nil}) /\ s.node \in Seq(NodeRec) /\ s.lastfree \in Nat
      /\ s.failed \in BOOLEAN
  BY <1>2 DEF TableRec
<1>5. u.array \in Seq(Value \cup {nil}) /\ Len(u.array) = Len(s.array)
      /\ \A i \in 1..Len(s.array) : u.array[i] = IF i = k THEN v ELSE s.array[i]
  BY <1>2, <1>3, <1>4
<1>6. u \in TableRec
  BY <1>3, <1>4, <1>5 DEF TableRec
<1>7. Good(u)
  <2>1. Parts(u)
    BY <1>3, <1>5, <1>6 DEF Good, Parts
  <2>2. Shaped(u)
    BY <1>3 DEF Good, Shaped
  <2> QED
    BY <2>1, <2>2 DEF Good
<1>8. ASSUME NEW q \in Key PROVE Get(u, q) = IF q = k THEN v ELSE Get(s, q)
  <2>1. InArray(u, q) <=> InArray(s, q)
    BY <1>5 DEF InArray
  <2>2. CASE InArray(s, q)
    <3>1. Get(u, q) = u.array[q] /\ Get(s, q) = s.array[q] /\ q \in 1..Len(s.array)
      BY <1>7, <2>1, <2>2, GetIs DEF InArray
    <3> QED
      BY <1>5, <3>1
  <2>3. CASE ~InArray(s, q)
    <3>1. q /= k
      BY <2>3
    <3>2. Find(u, q) = Find(s, q)
      BY <1>3 DEF Find, Walk, MainPosition
    <3>3. Get(u, q) = Get(s, q)
      BY <1>3, <2>1, <2>3, <3>2 DEF Get
    <3> QED
      BY <3>1, <3>3
  <2> QED
    BY <2>2, <2>3
<1>9. Keys(u) = Keys(s) /\ (Fresh(s) => Fresh(u))
  BY <1>3 DEF Keys, Fresh
<1> QED
  BY <1>1, <1>3, <1>5, <1>7, <1>8, <1>9 DEF Stored

\* A changed hash part, with the same array.
LEMMA NewNodes ==
    ASSUME NEW s, Good(s), NEW k \in Key, k \notin 1..Len(s.array), NEW v \in Value \cup {nil},
           NEW new, new \in [1..Len(s.node) -> NodeRec],
           \E c, p : Shape(Len(s.node), new, c, p),
           NEW free \in Nat, free <= Len(s.node) + 1,
           \A i \in 1..Len(s.node) : i >= free => new[i].key /= nil,
           \A i \in 1..Len(s.node) : new[i].key = nil \/ new[i].key = k
                                     \/ \E j \in 1..Len(s.node) : new[i].key = s.node[j].key,
           Fresh(s) => \A i \in 1..Len(s.node) : new[i].key /= nil => ~new[i].dead,
           \E i \in 1..Len(s.node) : Live(new, i, k) /\ new[i].val = v,
           NEW u, u = [s EXCEPT !.node = new, !.lastfree = free],
           SameOthers(s, u, k)
    PROVE  Stored(s, u, k, v)
<1> PICK L : L = Len(s.node)
  OBVIOUS
<1>1. s \in TableRec
  BY DEF Good, Parts
<1>2. s.array \in Seq(Value \cup {nil}) /\ s.node \in Seq(NodeRec) /\ s.lastfree \in Nat
      /\ s.failed \in BOOLEAN /\ L \in Nat
  BY <1>1 DEF TableRec
<1>3. /\ u.node = new /\ u.lastfree = free /\ u.failed = s.failed /\ u.array = s.array
      /\ u = [array |-> s.array, node |-> new, lastfree |-> free, failed |-> s.failed]
  <2>1. PICK a, b, d, e : s = [array |-> a, node |-> b, lastfree |-> d, failed |-> e]
    <3>1. s = [array |-> s.array, node |-> s.node, lastfree |-> s.lastfree, failed |-> s.failed]
      BY <1>1 DEF TableRec
    <3> QED
      BY <3>1
  <2>2. u = [array |-> a, node |-> new, lastfree |-> free, failed |-> e]
    BY <2>1
  <2> QED
    BY ONLY <2>1, <2>2
<1>4. new \in Seq(NodeRec) /\ Len(new) = L
  <2> PICK N : N = NodeRec
    OBVIOUS
  <2>1. L \in Nat /\ new \in [1..L -> N]
    BY <1>2
  <2>2. new = [i \in 1..L |-> new[i]] /\ \A i \in 1..L : new[i] \in N
    BY ONLY <2>1
  <2>3. new \in Seq(N) /\ Len(new) = L
    BY ONLY <2>1, <2>2
  <2> QED
    BY <2>3
<1>5. u \in TableRec
  BY <1>2, <1>3, <1>4 DEF TableRec
<1>6. Good(u)
  <2>1. \A i \in 1..L : new[i].key /= nil => new[i].key \notin 1..Len(s.array)
    BY DEF Good, Parts
  <2>2. new = <<>> \/ \E i \in Nat : L = twoto[i]
    <3>1. CASE L = 0
      BY <1>4, <3>1
    <3>2. CASE L /= 0
      BY <1>2, <3>2 DEF Good, Parts
    <3> QED
      BY <3>1, <3>2
  <2>3. \A i \in 1..Len(s.array) : s.array[i] /= nil => i \in Key
    BY DEF Good, Parts
  <2>4. Parts(u)
    BY <1>3, <1>4, <1>5, <2>1, <2>2, <2>3 DEF Parts
  <2>5. Shaped(u)
    BY <1>3, <1>4 DEF Shaped
  <2> QED
    BY <2>4, <2>5 DEF Good
<1>7. ~InArray(u, k)
  BY <1>3 DEF InArray
<1>8. Get(u, k) = v
  <2>1. PICK i \in 1..L : Live(new, i, k) /\ new[i].val = v
    OBVIOUS
  <2>2. i \in 1..Len(u.node) /\ Live(u.node, i, k)
    BY <1>3, <1>4, <2>1
  <2>3. Get(u, k) = u.node[i].val
    BY <1>6, <1>7, <2>2, GetLive
  <2> QED
    BY <1>3, <2>1, <2>3
<1>9. ASSUME NEW q \in Key, q /= k PROVE Get(u, q) = Get(s, q)
  <2>1. Good(s) /\ Good(u) /\ u.array = s.array /\ SameOthers(s, u, k) /\ q \in Key /\ q /= k
    BY <1>3, <1>6, <1>9
  <2> QED
    BY ONLY <2>1, GetOthers
<1>10. Keys(u) \subseteq Keys(s) \cup {k}
  BY <1>3, <1>4 DEF Keys
<1>11. Fresh(s) => Fresh(u)
  BY <1>3, <1>4 DEF Fresh
<1> QED
  BY <1>3, <1>4, <1>6, <1>8, <1>9, <1>10, <1>11 DEF Stored

\* A change of values keeps the shape.
LEMMA ValueShape ==
    ASSUME NEW L, NEW node, NEW c, NEW p, Shape(L, node, c, p),
           NEW new, new \in [1..L -> NodeRec],
           \A i \in 1..L : new[i].key = node[i].key /\ new[i].next = node[i].next,
           \A i \in 1..L : node[i].dead \/ node[i].key = nil => new[i].val = node[i].val,
           \A i \in 1..L : new[i].dead /= node[i].dead => new[i].dead /\ new[i].val = nil
    PROVE  Shape(L, new, c, p)
<1>1. Linked(L, new, c, p)
  BY DEF Shape, Linked
<1>2. FreeAlone(L, new, c)
  BY DEF Shape, FreeAlone
<1>3. Home(L, new, c, p)
  <2> SUFFICES ASSUME NEW i \in 1..L, new[i].key /= nil
               PROVE  LET h == Main(L, new[i].key)
                      IN  new[h].key /= nil /\ Main(L, new[h].key) = h /\ c[h] = c[i] /\ p[i] <= p[h]
    BY DEF Home
  <2> PICK h : h = Main(L, node[i].key)
    OBVIOUS
  <2>1. h \in 1..L /\ node[h].key /= nil /\ Main(L, node[h].key) = h /\ c[h] = c[i] /\ p[i] <= p[h]
    BY HomeFacts
  <2> QED
    BY <2>1
<1>4. DeadBehind(L, new, p)
  <2>1. \A i \in 1..L : new[i].dead => new[i].val = nil
    BY DEF Shape, DeadBehind
  <2>2. \A i \in 1..L : ~new[i].dead => ~node[i].dead
    <3> TAKE i \in 1..L
    <3>1. node[i] \in NodeRec /\ new[i] \in NodeRec
      BY DEF Shape
    <3>2. node[i].dead \in BOOLEAN /\ new[i].dead \in BOOLEAN
      BY <3>1 DEF NodeRec
    <3> QED
      BY <3>2
  <2>3. \A i, j \in 1..L :
          new[i].key = new[j].key /\ new[i].key /= nil /\ ~new[i].dead => p[j] <= p[i]
    BY <2>2 DEF Shape, DeadBehind
  <2> QED
    BY <2>1, <2>3 DEF DeadBehind
<1> QED
  BY <1>1, <1>2, <1>3, <1>4 DEF Shape

\* The parts of a good table.
LEMMA GoodParts ==
    ASSUME NEW s, Good(s)
    PROVE  /\ s \in TableRec
           /\ s.array \in Seq(Value \cup {nil}) /\ s.node \in Seq(NodeRec) /\ s.lastfree \in Nat
           /\ Len(s.node) \in Nat /\ Len(s.array) \in Nat
           /\ s.lastfree <= Len(s.node) + 1
           /\ \A i \in 1..Len(s.node) : i >= s.lastfree => s.node[i].key /= nil
           /\ \A i \in 1..Len(s.node) : s.node[i] \in NodeRec
           /\ s = [array |-> s.array, node |-> s.node, lastfree |-> s.lastfree, failed |-> s.failed]
BY DEF Good, Parts, TableRec

LEMMA PutFound ==
    ASSUME NEW s, Good(s), NEW k \in Key, NEW v \in Value \cup {nil},
           ~InArray(s, k), Find(s, k) /= 0
    PROVE  Stored(s, Put(s, k, v), k, v)
<1> PICK f, L : f = Find(s, k) /\ L = Len(s.node)
  OBVIOUS
<1> DEFINE new == [s.node EXCEPT ![f] = [s.node[f] EXCEPT !.val = v]]
           u == [s EXCEPT !.node[f].val = v]
<1>0. Put(s, k, v) = u
  BY DEF Put
<1>1. /\ s \in TableRec
      /\ s.node \in Seq(NodeRec) /\ s.lastfree \in Nat /\ L \in Nat /\ s.lastfree <= L + 1
      /\ \A i \in 1..L : i >= s.lastfree => s.node[i].key /= nil
      /\ \A i \in 1..L : s.node[i] \in NodeRec
      /\ s = [array |-> s.array, node |-> s.node, lastfree |-> s.lastfree, failed |-> s.failed]
  BY GoodParts
<1>2. PICK c, p : Shape(L, s.node, c, p)
  BY DEF Good, Shaped
<1>3. f \in 1..L /\ Live(s.node, f, k)
  <2>1. s.node \in Seq(NodeRec) /\ Shape(Len(s.node), s.node, c, p) /\ k \in Key
    BY <1>1, <1>2
  <2>2. Find(s, k) \in 0..Len(s.node) /\ (Find(s, k) /= 0 => Live(s.node, Find(s, k), k))
    BY ONLY <2>1, FindIs
  <2> QED
    BY <1>1, <2>2
<1>4. u = [s EXCEPT !.node = new, !.lastfree = s.lastfree]
  BY <1>1, <1>3
<1>5. /\ new \in [1..L -> NodeRec]
      /\ \A i \in 1..L : i /= f => new[i] = s.node[i]
      /\ new[f] = [s.node[f] EXCEPT !.val = v]
  <2>1. [s.node[f] EXCEPT !.val = v] \in NodeRec
    BY <1>1, <1>3 DEF NodeRec
  <2> QED
    BY <1>1, <1>3, <2>1
<1>6. /\ new[f].key = s.node[f].key /\ new[f].next = s.node[f].next
      /\ new[f].dead = s.node[f].dead /\ new[f].val = v
  BY <1>1, <1>3, <1>5 DEF NodeRec
<1> HIDE DEF new
<1>7. k /= nil /\ s.node[f].key = k /\ ~s.node[f].dead
  BY <1>3, TableAssumption DEF Live
<1>8. \A i \in 1..L : /\ new[i].key = s.node[i].key /\ new[i].next = s.node[i].next
                      /\ new[i].dead = s.node[i].dead
                      /\ i /= f => new[i].val = s.node[i].val
  BY <1>5, <1>6
<1>9. Shape(L, new, c, p)
  <2>1. \A i \in 1..L : s.node[i].dead \/ s.node[i].key = nil => new[i].val = s.node[i].val
    BY <1>7, <1>8
  <2>2. \A i \in 1..L : new[i].dead /= s.node[i].dead => new[i].dead /\ new[i].val = nil
    BY <1>8
  <2>3. \A i \in 1..L : new[i].key = s.node[i].key /\ new[i].next = s.node[i].next
    BY <1>8
  <2> QED
    BY <1>2, <1>5, <2>1, <2>2, <2>3, ValueShape
<1>10. u.node = new /\ u.array = s.array
  BY <1>1, <1>4
<1>11. SameOthers(s, u, k)
  <2>1. Len(new) = L
    BY <1>1, <1>5
  <2>2. \A q \in Key \ {k}, i \in 1..L : Live(new, i, q) <=> Live(s.node, i, q)
    BY <1>8 DEF Live
  <2>3. \A q \in Key \ {k}, i \in 1..L : Live(new, i, q) => new[i].val = s.node[i].val
    BY <1>7, <1>8 DEF Live
  <2> HIDE DEF u
  <2> QED
    BY <1>10, <2>1, <2>2, <2>3 DEF SameOthers
<1>12. Live(new, f, k) /\ new[f].val = v
  BY <1>3, <1>6 DEF Live
<1>13. /\ Good(s) /\ k \in Key /\ k \notin 1..Len(s.array) /\ v \in Value \cup {nil}
       /\ new \in [1..Len(s.node) -> NodeRec]
       /\ \E d, q : Shape(Len(s.node), new, d, q)
       /\ s.lastfree \in Nat /\ s.lastfree <= Len(s.node) + 1
       /\ \A i \in 1..Len(s.node) : i >= s.lastfree => new[i].key /= nil
       /\ \A i \in 1..Len(s.node) : new[i].key = nil \/ new[i].key = k
                                    \/ \E j \in 1..Len(s.node) : new[i].key = s.node[j].key
       /\ Fresh(s) => \A i \in 1..Len(s.node) : new[i].key /= nil => ~new[i].dead
       /\ \E i \in 1..Len(s.node) : Live(new, i, k) /\ new[i].val = v
       /\ u = [s EXCEPT !.node = new, !.lastfree = s.lastfree]
       /\ SameOthers(s, u, k)
  <2>1. k \notin 1..Len(s.array)
    BY DEF InArray
  <2>2. \A i \in 1..L : i >= s.lastfree => new[i].key /= nil
    BY <1>1, <1>8
  <2>3. Fresh(s) => \A i \in 1..L : new[i].key /= nil => ~new[i].dead
    BY <1>8 DEF Fresh
  <2> HIDE DEF u
  <2> QED
    BY <1>1, <1>3, <1>4, <1>5, <1>8, <1>9, <1>11, <1>12, <2>1, <2>2, <2>3
<1> HIDE DEF u
<1>14. Stored(s, u, k, v)
  BY ONLY <1>13, NewNodes
<1> QED
  BY <1>0, <1>14

\* A node further from the end of its chain than m comes after a predecessor of m.
LEMMA Predecessor ==
    ASSUME NEW L, NEW node, NEW c, NEW p, Shape(L, node, c, p),
           NEW m \in 1..L, NEW o \in 1..L, c[o] = c[m], p[m] <= p[o], o /= m
    PROVE  \E j \in 1..L : node[j].next = m /\ c[j] = c[o] /\ p[j] <= p[o]
<1>1. /\ L \in Nat
      /\ \A i \in 1..L : c[i] \in 1..L
      /\ \A i \in 1..L : p[i] \in Nat
      /\ \A i \in 1..L : node[i].next \in 0..L
      /\ \A i \in 1..L : node[i].next = 0 => p[i] = 0
      /\ \A i \in 1..L : node[i].next /= 0 => c[node[i].next] = c[i]
      /\ \A i \in 1..L : node[i].next /= 0 => p[i] = p[node[i].next] + 1
      /\ \A i, j \in 1..L : c[i] = c[j] /\ p[i] = p[j] => i = j
  <2>1. Shape(L, node, c, p)
    OBVIOUS
  <2> QED
    BY ONLY <2>1, ShapeFacts
<1> DEFINE P(i) == \E j \in 1..L : node[j].next = m /\ c[j] = c[m] /\ p[j] <= p[i]
           n == p[o]
           T == {d \in 0..n : \A i \in 1..L : c[i] = c[m] /\ i /= m /\ p[m] <= p[i] /\ p[i] <= d => P(i)}
<1>2. 0 \in T
  <2> SUFFICES ASSUME NEW i \in 1..L, c[i] = c[m], i /= m, p[m] <= p[i], p[i] <= 0 PROVE FALSE
    BY <1>1
  <2>1. p[i] = p[m]
    BY <1>1
  <2> QED
    BY <1>1, <2>1
<1>3. \A d \in 0..n : d \in T /\ d < n => d + 1 \in T
  <2> SUFFICES ASSUME NEW d \in 0..n, d \in T, d < n PROVE d + 1 \in T
    OBVIOUS
  <2>1. d + 1 \in 0..n
    BY <1>1
  <2>2. ASSUME NEW i \in 1..L, c[i] = c[m], i /= m, p[m] <= p[i], p[i] <= d + 1
        PROVE  P(i)
    <3> PICK x : x = node[i].next
      OBVIOUS
    <3>1. p[i] /= p[m] /\ p[i] \in Nat /\ p[m] \in Nat
      BY <1>1, <2>2
    <3>2. x \in 1..L /\ c[x] = c[m] /\ p[i] = p[x] + 1 /\ p[x] \in Nat
      <4>1. x /= 0
        BY <1>1, <2>2, <3>1
      <4> QED
        BY <1>1, <2>2, <4>1
    <3>3. CASE x = m
      <4>1. node[i].next = m /\ c[i] = c[m] /\ p[i] <= p[i]
        BY <2>2, <3>1, <3>3
      <4> QED
        BY <4>1
    <3>4. CASE x /= m
      <4>1. p[m] <= p[x] /\ p[x] <= d
        BY <2>2, <3>1, <3>2
      <4>2. P(x)
        BY <3>2, <3>4, <4>1
      <4>3. PICK j \in 1..L : node[j].next = m /\ c[j] = c[m] /\ p[j] <= p[x]
        BY <4>2
      <4>4. p[j] <= p[i]
        BY <1>1, <3>2, <4>3
      <4> QED
        BY <4>3, <4>4
    <3> QED
      BY <3>3, <3>4
  <2> QED
    BY <2>1, <2>2
<1>4. n \in Nat /\ n \in 0..n
  BY <1>1
<1>5. 0..n \subseteq T
  <2> HIDE DEF T, n
  <2> QED
    BY <1>2, <1>3, <1>4, Induction
<1>6. n \in T
  BY <1>4, <1>5
<1>7. P(o)
  BY <1>1, <1>6
<1> QED
  BY <1>7

\* The collision that newkey finds.
LEMMA Absent ==
    ASSUME NEW s, Good(s), NEW k \in Key, Find(s, k) = 0
    PROVE  \A i \in 1..Len(s.node) : ~Live(s.node, i, k)
<1> PICK c, p : Shape(Len(s.node), s.node, c, p)
  BY DEF Good, Shaped
<1>1. s.node \in Seq(NodeRec) /\ Shape(Len(s.node), s.node, c, p) /\ k \in Key
  BY GoodParts
<1>2. \A i \in 1..Len(s.node) : Live(s.node, i, k) => Find(s, k) = i
  BY ONLY <1>1, FindIs
<1>3. Len(s.node) \in Nat
  BY GoodParts
<1> QED
  BY <1>2, <1>3

LEMMA PutReuse ==
    ASSUME NEW s, Good(s), NEW k \in Key, NEW v \in Value \cup {nil},
           ~InArray(s, k), Find(s, k) = 0, ~Occupied(s, k)
    PROVE  Stored(s, Put(s, k, v), k, v)
<1> PICK m, L : m = MainPosition(s, k) /\ L = Len(s.node)
  OBVIOUS
<1> DEFINE new == [s.node EXCEPT ![m] = Node(k, v, s.node[m].next)]
           u == [s EXCEPT !.node[m] = Node(k, v, @.next)]
<1>0. Put(s, k, v) = u
  BY DEF Put, NewKey
<1>1. /\ s.node \in Seq(NodeRec) /\ s.lastfree \in Nat /\ L \in Nat /\ s.lastfree <= L + 1
      /\ \A i \in 1..L : i >= s.lastfree => s.node[i].key /= nil
      /\ \A i \in 1..L : s.node[i] \in NodeRec
      /\ s = [array |-> s.array, node |-> s.node, lastfree |-> s.lastfree, failed |-> s.failed]
  BY GoodParts
<1>2. PICK c, p : Shape(L, s.node, c, p)
  BY DEF Good, Shaped
<1>3. s.node /= <<>> /\ L /= 0 /\ s.node[m].val = nil
  BY <1>1 DEF Occupied
<1>4. m = Main(L, k) /\ m \in 1..L
  <2>1. m = Main(L, k)
    BY DEF MainPosition, Main
  <2> QED
    BY <1>1, <1>3, <2>1, MainRange
<1>5. u = [s EXCEPT !.node = new, !.lastfree = s.lastfree]
  BY <1>1, <1>4
<1>6. Node(k, v, s.node[m].next) \in NodeRec
  BY <1>1, <1>4 DEF NodeRec, Node
<1>7. /\ new \in [1..L -> NodeRec]
      /\ \A i \in 1..L : i /= m => new[i] = s.node[i]
      /\ new[m] = Node(k, v, s.node[m].next)
  BY <1>1, <1>4, <1>6
<1>8. new[m].key = k /\ new[m].val = v /\ new[m].dead = FALSE
  BY <1>7 DEF Node
<1> HIDE DEF new
<1>9. \A i \in 1..L : ~Live(s.node, i, k)
  BY Absent
<1>10. k /= nil
  BY TableAssumption
<1>11. Shape(L, new, c, p)
  <2>1. /\ Shape(L, s.node, c, p) /\ k \in Key /\ v \in Value \cup {nil} /\ m \in 1..L /\ m = Main(L, k)
        /\ \A i \in 1..L : ~Live(s.node, i, k)
        /\ new \in [1..L -> NodeRec]
        /\ \A i \in 1..L : i /= m => new[i] = s.node[i]
        /\ new[m] = Node(k, v, s.node[m].next)
    BY <1>2, <1>4, <1>7, <1>9
  <2> QED
    BY ONLY <2>1, ReuseShape
<1>12. u.node = new /\ u.array = s.array
  BY <1>1, <1>5
<1>13. SameOthers(s, u, k)
  <2>1. Len(new) = L
    BY <1>1, <1>7
  <2>2. \A q \in Key \ {k}, i \in 1..L : Live(new, i, q) => i /= m
    BY <1>8 DEF Live
  <2>3. \A q \in Key, i \in 1..L : i /= m => (Live(new, i, q) <=> Live(s.node, i, q)) /\ new[i].val = s.node[i].val
    BY <1>7 DEF Live
  <2> HIDE DEF u
  <2> QED
    BY <1>3, <1>12, <2>1, <2>2, <2>3 DEF SameOthers
<1>14. /\ Good(s) /\ k \in Key /\ k \notin 1..Len(s.array) /\ v \in Value \cup {nil}
       /\ new \in [1..Len(s.node) -> NodeRec]
       /\ \E d, q : Shape(Len(s.node), new, d, q)
       /\ s.lastfree \in Nat /\ s.lastfree <= Len(s.node) + 1
       /\ \A i \in 1..Len(s.node) : i >= s.lastfree => new[i].key /= nil
       /\ \A i \in 1..Len(s.node) : new[i].key = nil \/ new[i].key = k
                                    \/ \E j \in 1..Len(s.node) : new[i].key = s.node[j].key
       /\ Fresh(s) => \A i \in 1..Len(s.node) : new[i].key /= nil => ~new[i].dead
       /\ \E i \in 1..Len(s.node) : Live(new, i, k) /\ new[i].val = v
       /\ u = [s EXCEPT !.node = new, !.lastfree = s.lastfree]
       /\ SameOthers(s, u, k)
  <2>1. k \notin 1..Len(s.array)
    BY DEF InArray
  <2>2. \A i \in 1..L : i >= s.lastfree => new[i].key /= nil
    BY <1>1, <1>7, <1>8, <1>10
  <2>3. Fresh(s) => \A i \in 1..L : new[i].key /= nil => ~new[i].dead
    BY <1>7, <1>8 DEF Fresh
  <2>4. Live(new, m, k) /\ new[m].val = v
    BY <1>8 DEF Live
  <2>5. \A i \in 1..L : new[i].key = k \/ new[i].key = s.node[i].key
    BY <1>7, <1>8
  <2> HIDE DEF u
  <2> QED
    BY <1>1, <1>4, <1>5, <1>7, <1>11, <1>13, <2>1, <2>2, <2>3, <2>4, <2>5
<1> HIDE DEF u
<1>15. Stored(s, u, k, v)
  BY ONLY <1>14, NewNodes
<1> QED
  BY <1>0, <1>15

\* The main position m of k is taken, and n is free.
Collides(s, k, m, n, L) ==
    /\ s.node /= <<>> /\ L \in Nat \ {0}
    /\ m \in 1..L /\ m = Main(L, k) /\ n \in 1..L /\ m /= n
    /\ s.node[m].val /= nil /\ s.node[m].key \in Key /\ s.node[m].dead = FALSE
    /\ s.node[n].key = nil /\ s.node[n].val = nil
    /\ n <= L + 1 /\ \A i \in 1..L : i >= n /\ i /= n => s.node[i].key /= nil

LEMMA Collision ==
    ASSUME NEW s, Good(s), NEW k \in Key, Find(s, k) = 0, Occupied(s, k), FreePos(s) /= 0
    PROVE  Collides(s, k, MainPosition(s, k), FreePos(s), Len(s.node))
<1> PICK m, n, L : m = MainPosition(s, k) /\ n = FreePos(s) /\ L = Len(s.node)
  OBVIOUS
<1>1. s.node \in Seq(NodeRec) /\ L \in Nat /\ \A i \in 1..L : s.node[i] \in NodeRec
  BY GoodParts
<1>2. PICK c, p : Shape(L, s.node, c, p)
  BY DEF Good, Shaped
<1>3. /\ n \in 1..L /\ s.node[n].key = nil
      /\ \A i \in 1..L : i >= n /\ i /= n => s.node[i].key /= nil
  <2>1. Parts(s)
    BY DEF Good
  <2> QED
    BY <2>1, FreePosIs
<1>4. s.node /= <<>> /\ L \in Nat \ {0}
  BY <1>1, <1>3
<1>5. m = Main(L, k) /\ m \in 1..L
  <2>1. m = Main(L, k)
    BY DEF MainPosition, Main
  <2> QED
    BY <1>4, <2>1, MainRange
<1>6. s.node[m].val /= nil
  BY <1>4 DEF Occupied
<1>7. s.node[m].dead = FALSE /\ s.node[m].key /= nil /\ s.node[n].val = nil
  BY <1>1, <1>2, <1>3, <1>5, <1>6 DEF Shape, DeadBehind, FreeAlone, NodeRec
<1>8. s.node[m].key \in Key
  BY <1>1, <1>5, <1>7 DEF NodeRec
<1> QED
  BY <1>1, <1>3, <1>4, <1>5, <1>6, <1>7, <1>8 DEF Collides

LEMMA PutInsert ==
    ASSUME NEW s, Good(s), NEW k \in Key, NEW v \in Value \cup {nil},
           ~InArray(s, k), Find(s, k) = 0, Occupied(s, k), FreePos(s) /= 0,
           MainPosition(s, s.node[MainPosition(s, k)].key) = MainPosition(s, k)
    PROVE  Stored(s, Put(s, k, v), k, v)
<1> PICK m, n, L : m = MainPosition(s, k) /\ n = FreePos(s) /\ L = Len(s.node)
  OBVIOUS
<1> DEFINE new == [s.node EXCEPT ![n] = Node(k, v, s.node[m].next), ![m].next = n]
           moved == [s EXCEPT !.lastfree = n]
           u == [moved EXCEPT !.node[n] = Node(k, v, s.node[m].next), !.node[m].next = n]
<1>0. Put(s, k, v) = u
  BY DEF Put, NewKey
<1>1. /\ s.node \in Seq(NodeRec)
      /\ \A i \in 1..L : s.node[i] \in NodeRec
      /\ s = [array |-> s.array, node |-> s.node, lastfree |-> s.lastfree, failed |-> s.failed]
  BY GoodParts
<1>2. PICK c, p : Shape(L, s.node, c, p)
  BY DEF Good, Shaped
<1>3. /\ s.node /= <<>> /\ L \in Nat \ {0}
      /\ m \in 1..L /\ m = Main(L, k) /\ n \in 1..L /\ m /= n
      /\ s.node[m].val /= nil /\ s.node[m].key \in Key /\ s.node[m].dead = FALSE
      /\ s.node[n].key = nil /\ s.node[n].val = nil
      /\ n <= L + 1 /\ \A i \in 1..L : i >= n /\ i /= n => s.node[i].key /= nil
  <2>1. Good(s) /\ k \in Key /\ Find(s, k) = 0 /\ Occupied(s, k) /\ FreePos(s) /= 0
    OBVIOUS
  <2>2. Collides(s, k, MainPosition(s, k), FreePos(s), Len(s.node))
    BY ONLY <2>1, Collision
  <2> QED
    BY <2>2 DEF Collides
<1>4. Main(L, s.node[m].key) = m
  BY DEF MainPosition, Main
<1>5. u = [s EXCEPT !.node = new, !.lastfree = n]
  BY <1>1, <1>3
<1>6. Node(k, v, s.node[m].next) \in NodeRec /\ Linking(s.node[m], n) \in NodeRec
  BY <1>1, <1>3 DEF NodeRec, Node, Linking
<1>7. /\ new \in [1..L -> NodeRec]
      /\ \A i \in 1..L : i /= m /\ i /= n => new[i] = s.node[i]
      /\ new[n] = Node(k, v, s.node[m].next)
      /\ new[m] = Linking(s.node[m], n)
  <2>1. PICK nd, a, b, N : nd = s.node /\ a = Node(k, v, s.node[m].next)
                           /\ b = Linking(s.node[m], n) /\ N = NodeRec
    OBVIOUS
  <2>2. nd \in [1..L -> N] /\ a \in N /\ b \in N
    BY <1>1, <1>6, <2>1
  <2>3. [nd EXCEPT ![n] = a][m] = nd[m]
    BY <1>3, <2>2
  <2>4. new = [[nd EXCEPT ![n] = a] EXCEPT ![m] = b]
    BY <2>1, <2>3 DEF Linking
  <2> HIDE DEF new
  <2>5. /\ new \in [1..L -> N]
        /\ \A i \in 1..L : i /= m /\ i /= n => new[i] = nd[i]
        /\ new[n] = a /\ new[m] = b
    BY ONLY <1>3, <2>2, <2>4
  <2> QED
    BY <2>1, <2>5
<1>8. new[n].key = k /\ new[n].val = v /\ new[n].dead = FALSE
  BY <1>7 DEF Node
<1>8m. new[m].key = s.node[m].key /\ new[m].val = s.node[m].val /\ new[m].dead = s.node[m].dead
  BY <1>1, <1>3, <1>7 DEF NodeRec, Linking
<1> HIDE DEF new
<1>9. \A i \in 1..L : ~Live(s.node, i, k)
  BY Absent
<1>10. k /= nil
  BY TableAssumption
<1>11. \E d, q : Shape(L, new, d, q)
  <2>1. Shape(L, s.node, c, p) /\ Inserted(L, s.node, k, v, m, n, new)
    BY <1>2, <1>3, <1>4, <1>7, <1>9 DEF Inserted
  <2> QED
    BY ONLY <2>1, InsertShape
<1>12. u.node = new /\ u.array = s.array
  BY <1>1, <1>5
<1>i. \A i \in 1..L : i /= n => /\ new[i].key = s.node[i].key /\ new[i].val = s.node[i].val
                                /\ new[i].dead = s.node[i].dead
  BY <1>7, <1>8m
<1>13. SameOthers(s, u, k)
  <2>1. Len(new) = L
    BY <1>1, <1>7
  <2>2. \A q \in Key \ {k}, i \in 1..L : Live(new, i, q) \/ Live(s.node, i, q) => i /= n
    BY <1>3, <1>8, TableAssumption DEF Live
  <2>3. \A q \in Key, i \in 1..L : i /= n => (Live(new, i, q) <=> Live(s.node, i, q)) /\ new[i].val = s.node[i].val
    BY <1>i DEF Live
  <2> HIDE DEF u
  <2> QED
    BY <1>12, <2>1, <2>2, <2>3 DEF SameOthers
<1>14. /\ Good(s) /\ k \in Key /\ k \notin 1..Len(s.array) /\ v \in Value \cup {nil}
       /\ new \in [1..Len(s.node) -> NodeRec]
       /\ \E d, q : Shape(Len(s.node), new, d, q)
       /\ n \in Nat /\ n <= Len(s.node) + 1
       /\ \A i \in 1..Len(s.node) : i >= n => new[i].key /= nil
       /\ \A i \in 1..Len(s.node) : new[i].key = nil \/ new[i].key = k
                                    \/ \E j \in 1..Len(s.node) : new[i].key = s.node[j].key
       /\ Fresh(s) => \A i \in 1..Len(s.node) : new[i].key /= nil => ~new[i].dead
       /\ \E i \in 1..Len(s.node) : Live(new, i, k) /\ new[i].val = v
       /\ u = [s EXCEPT !.node = new, !.lastfree = n]
       /\ SameOthers(s, u, k)
  <2>1. k \notin 1..Len(s.array)
    BY DEF InArray
  <2>2. \A i \in 1..L : i >= n => new[i].key /= nil
    BY <1>3, <1>8, <1>10, <1>i
  <2>3. Fresh(s) => \A i \in 1..L : new[i].key /= nil => ~new[i].dead
    BY <1>8, <1>i DEF Fresh
  <2>4. Live(new, n, k) /\ new[n].val = v
    BY <1>8 DEF Live
  <2>5. \A i \in 1..L : new[i].key = k \/ new[i].key = s.node[i].key
    BY <1>8, <1>i
  <2> HIDE DEF u
  <2> QED
    BY <1>3, <1>5, <1>7, <1>11, <1>13, <2>1, <2>2, <2>3, <2>4, <2>5
<1> HIDE DEF u
<1>15. Stored(s, u, k, v)
  BY ONLY <1>14, NewNodes
<1> QED
  BY <1>0, <1>15

LEMMA PutMove ==
    ASSUME NEW s, Good(s), NEW k \in Key, NEW v \in Value \cup {nil},
           ~InArray(s, k), Find(s, k) = 0, Occupied(s, k), FreePos(s) /= 0,
           MainPosition(s, s.node[MainPosition(s, k)].key) /= MainPosition(s, k)
    PROVE  Stored(s, Put(s, k, v), k, v)
<1> PICK m, n, L : m = MainPosition(s, k) /\ n = FreePos(s) /\ L = Len(s.node)
  OBVIOUS
<1> PICK x, o : x = s.node[m].key /\ o = MainPosition(s, x)
  OBVIOUS
<1> PICK S : S = {i \in DOMAIN s.node : s.node[i].next = m}
  OBVIOUS
<1> PICK w : w = Walk(s, x, S)
  OBVIOUS
<1> DEFINE new == [s.node EXCEPT ![w].next = n, ![n] = s.node[m], ![m] = Node(k, v, 0)]
           moved == [s EXCEPT !.lastfree = n]
           u == [moved EXCEPT !.node[w].next = n, !.node[n] = s.node[m], !.node[m] = Node(k, v, 0)]
<1>0. Put(s, k, v) = u
  BY DEF Put, NewKey
<1>1. /\ s.node \in Seq(NodeRec)
      /\ \A i \in 1..L : s.node[i] \in NodeRec
      /\ s = [array |-> s.array, node |-> s.node, lastfree |-> s.lastfree, failed |-> s.failed]
  BY GoodParts
<1>2. PICK c, p : Shape(L, s.node, c, p)
  BY DEF Good, Shaped
<1>3. /\ s.node /= <<>> /\ L \in Nat \ {0}
      /\ m \in 1..L /\ m = Main(L, k) /\ n \in 1..L /\ m /= n
      /\ s.node[m].val /= nil /\ s.node[m].key \in Key /\ s.node[m].dead = FALSE
      /\ s.node[n].key = nil /\ s.node[n].val = nil
      /\ n <= L + 1 /\ \A i \in 1..L : i >= n /\ i /= n => s.node[i].key /= nil
  <2>1. Good(s) /\ k \in Key /\ Find(s, k) = 0 /\ Occupied(s, k) /\ FreePos(s) /= 0
    OBVIOUS
  <2>2. Collides(s, k, MainPosition(s, k), FreePos(s), Len(s.node))
    BY ONLY <2>1, Collision
  <2> QED
    BY <2>2 DEF Collides
<1>4. o = Main(L, s.node[m].key) /\ o /= m
  BY DEF MainPosition, Main
<1>w. w \in 1..L /\ s.node[w].next = m
  <2>1. x \in Key /\ x /= nil
    BY <1>3, TableAssumption
  <2>2. o \in 1..L /\ c[o] = c[m] /\ p[m] <= p[o]
    <3>1. Shape(L, s.node, c, p) /\ m \in 1..L /\ s.node[m].key /= nil
      BY <1>2, <1>3, <2>1
    <3>2. Main(L, s.node[m].key) \in 1..L /\ c[Main(L, s.node[m].key)] = c[m]
          /\ p[m] <= p[Main(L, s.node[m].key)]
      BY ONLY <3>1, HomeFacts
    <3> QED
      BY <1>4, <3>2
  <2>3. \E j \in 1..L : s.node[j].next = m /\ c[j] = c[o] /\ p[j] <= p[o]
    <3>1. Shape(L, s.node, c, p) /\ m \in 1..L /\ o \in 1..L /\ c[o] = c[m] /\ p[m] <= p[o] /\ o /= m
      BY <1>2, <1>3, <1>4, <2>2
    <3> QED
      BY ONLY <3>1, Predecessor
  <2>4. S \in SUBSET (1..L) /\ \A j \in 1..L : s.node[j].next = m => j \in S
    BY <1>1
  <2>5. Passed(c, p, o, S) /= {}
    BY <2>3, <2>4 DEF Passed
  <2>6. w = First(c, p, o, S)
    <3>1. /\ L \in Nat \ {0} /\ Len(s.node) = L /\ s.node /= <<>> /\ Linked(L, s.node, c, p)
          /\ MainPosition(s, x) \in 1..L /\ S \in SUBSET (1..L)
      BY <1>2, <1>3, <2>2, <2>4 DEF Shape
    <3>2. Walk(s, x, S) = First(c, p, MainPosition(s, x), S)
      BY ONLY <3>1, WalkIs
    <3> QED
      BY <3>2
  <2>7. First(c, p, o, S) \in Passed(c, p, o, S)
    <3>1. L \in Nat /\ Linked(L, s.node, c, p) /\ o \in 1..L /\ S \in SUBSET (1..L)
          /\ Passed(c, p, o, S) /= {}
      BY <1>2, <2>2, <2>4, <2>5 DEF Shape
    <3> QED
      BY ONLY <3>1, FirstIs
  <2>8. w \in S
    BY <2>6, <2>7 DEF Passed
  <2> QED
    BY <2>4, <2>8
<1>d. w /= n /\ w /= m
  <2>1. s.node[n].next = 0 /\ m /= 0
    BY <1>2, <1>3 DEF Shape, FreeAlone
  <2>2. s.node[m].next /= m
    <3>1. Shape(L, s.node, c, p)
      BY <1>2
    <3>2. p[m] \in Nat /\ (s.node[m].next /= 0 => p[m] = p[s.node[m].next] + 1)
      BY ONLY <3>1, <1>3, ShapeFacts
    <3> QED
      BY <2>1, <3>2
  <2> QED
    BY <1>w, <2>1, <2>2
<1>5. u = [s EXCEPT !.node = new, !.lastfree = n]
  BY <1>1, <1>3
<1>6. Node(k, v, 0) \in NodeRec /\ Linking(s.node[w], n) \in NodeRec
  <2>1. Node(k, v, 0) \in NodeRec
    BY DEF NodeRec, Node
  <2>2. s.node[w] \in NodeRec /\ n \in Nat
    BY <1>1, <1>3, <1>w
  <2>3. Linking(s.node[w], n) \in NodeRec
    BY ONLY <2>2 DEF NodeRec, Linking
  <2> QED
    BY <2>1, <2>3
<1>7. /\ new \in [1..L -> NodeRec]
      /\ \A i \in 1..L : i /= m /\ i /= n /\ i /= w => new[i] = s.node[i]
      /\ new[w] = Linking(s.node[w], n)
      /\ new[n] = s.node[m]
      /\ new[m] = Node(k, v, 0)
  <2>1. PICK nd, a, b, e, N : nd = s.node /\ a = Node(k, v, 0) /\ b = Linking(s.node[w], n)
                              /\ e = s.node[m] /\ N = NodeRec
    OBVIOUS
  <2>2. nd \in [1..L -> N] /\ a \in N /\ b \in N /\ e \in N
    <3>1. s.node \in [1..L -> NodeRec]
      BY <1>1
    <3>2. s.node[m] \in NodeRec
      BY <1>1, <1>3
    <3> QED
      BY ONLY <1>6, <2>1, <3>1, <3>2
  <2>3. new = [nd EXCEPT ![w] = b, ![n] = e, ![m] = a]
    BY <2>1 DEF Linking
  <2>4. m \in 1..L /\ n \in 1..L /\ w \in 1..L /\ m /= n /\ w /= n /\ w /= m
    BY <1>3, <1>w, <1>d
  <2> HIDE DEF new
  <2>5. /\ new \in [1..L -> N]
        /\ \A i \in 1..L : i /= m /\ i /= n /\ i /= w => new[i] = nd[i]
        /\ new[w] = b /\ new[n] = e /\ new[m] = a
    BY ONLY <2>2, <2>3, <2>4
  <2> QED
    BY <2>1, <2>5
<1> HIDE DEF new
<1>8. new[m].key = k /\ new[m].val = v /\ new[m].dead = FALSE
  BY <1>7 DEF Node
<1>8w. new[w].key = s.node[w].key /\ new[w].val = s.node[w].val /\ new[w].dead = s.node[w].dead
  <2>1. s.node[w] \in NodeRec /\ new[w] = Linking(s.node[w], n)
    BY <1>1, <1>7, <1>w
  <2> QED
    BY ONLY <2>1 DEF NodeRec, Linking
<1> HIDE DEF new
<1>9. \A i \in 1..L : ~Live(s.node, i, k)
  BY Absent
<1>10. k /= nil
  BY TableAssumption
<1>11. \E d, q : Shape(L, new, d, q)
  <2>1. Shape(L, s.node, c, p) /\ Moved(L, s.node, k, v, m, n, w, new)
    BY <1>2, <1>3, <1>4, <1>7, <1>9, <1>w DEF Moved
  <2> QED
    BY ONLY <2>1, MoveShape
<1>12. u.node = new /\ u.array = s.array
  BY <1>1, <1>5
<1>i. \A i \in 1..L : i /= n /\ i /= m =>
         /\ new[i].key = s.node[i].key /\ new[i].val = s.node[i].val
         /\ new[i].dead = s.node[i].dead
  BY <1>7, <1>8w
<1>13. SameOthers(s, u, k)
  <2>1. Len(new) = L
    BY <1>1, <1>7
  <2>2. \A q \in Key \ {k} : ~Live(new, m, q) /\ ~Live(s.node, n, q)
    BY <1>3, <1>8, TableAssumption DEF Live
  <2>3. \A q \in Key, i \in 1..L : i /= n /\ i /= m =>
           (Live(new, i, q) <=> Live(s.node, i, q)) /\ new[i].val = s.node[i].val
    BY <1>i DEF Live
  <2>4. \A q \in Key : (Live(new, n, q) <=> Live(s.node, m, q)) /\ new[n].val = s.node[m].val
    BY <1>7 DEF Live
  <2> SUFFICES ASSUME NEW q \in Key \ {k}
               PROVE  /\ \A i \in 1..L : Live(new, i, q) =>
                            \E j \in 1..L : Live(s.node, j, q) /\ s.node[j].val = new[i].val
                      /\ \A j \in 1..L : Live(s.node, j, q) => \E i \in 1..L : Live(new, i, q)
    <3> HIDE DEF u
    <3> QED
      BY <1>12, <2>1 DEF SameOthers
  <2>5. ASSUME NEW i \in 1..L, Live(new, i, q)
        PROVE  \E j \in 1..L : Live(s.node, j, q) /\ s.node[j].val = new[i].val
    <3>1. CASE i = n
      BY <1>3, <2>4, <2>5, <3>1
    <3>2. CASE i /= n
      BY <2>2, <2>3, <2>5, <3>2
    <3> QED
      BY <3>1, <3>2
  <2>6. ASSUME NEW j \in 1..L, Live(s.node, j, q) PROVE \E i \in 1..L : Live(new, i, q)
    <3>1. CASE j = m
      BY <1>3, <2>4, <2>6, <3>1
    <3>2. CASE j /= m
      BY <2>2, <2>3, <2>6, <3>2
    <3> QED
      BY <3>1, <3>2
  <2> QED
    BY <2>5, <2>6
<1>14. /\ Good(s) /\ k \in Key /\ k \notin 1..Len(s.array) /\ v \in Value \cup {nil}
       /\ new \in [1..Len(s.node) -> NodeRec]
       /\ \E d, q : Shape(Len(s.node), new, d, q)
       /\ n \in Nat /\ n <= Len(s.node) + 1
       /\ \A i \in 1..Len(s.node) : i >= n => new[i].key /= nil
       /\ \A i \in 1..Len(s.node) : new[i].key = nil \/ new[i].key = k
                                    \/ \E j \in 1..Len(s.node) : new[i].key = s.node[j].key
       /\ Fresh(s) => \A i \in 1..Len(s.node) : new[i].key /= nil => ~new[i].dead
       /\ \E i \in 1..Len(s.node) : Live(new, i, k) /\ new[i].val = v
       /\ u = [s EXCEPT !.node = new, !.lastfree = n]
       /\ SameOthers(s, u, k)
  <2>0. new[n].key = s.node[m].key /\ new[n].dead = FALSE /\ new[n].key /= nil
    BY <1>3, <1>7, TableAssumption
  <2>1. k \notin 1..Len(s.array)
    BY DEF InArray
  <2>2. \A i \in 1..L : i >= n => new[i].key /= nil
    BY <1>3, <1>8, <1>10, <1>i, <2>0
  <2>3. Fresh(s) => \A i \in 1..L : new[i].key /= nil => ~new[i].dead
    BY <1>8, <1>i, <2>0 DEF Fresh
  <2>4. Live(new, m, k) /\ new[m].val = v
    BY <1>8 DEF Live
  <2>5. \A i \in 1..L : new[i].key = k \/ \E j \in 1..L : new[i].key = s.node[j].key
    BY <1>3, <1>8, <1>i, <2>0
  <2> HIDE DEF u
  <2> QED
    BY <1>3, <1>5, <1>7, <1>11, <1>13, <2>1, <2>2, <2>3, <2>4, <2>5
<1> HIDE DEF u
<1>15. Stored(s, u, k, v)
  BY ONLY <1>14, NewNodes
<1> QED
  BY <1>0, <1>15

LEMMA PutIs ==
    ASSUME NEW s, Good(s), NEW k \in Key, NEW v \in Value \cup {nil}, Room(s, k)
    PROVE  Stored(s, Put(s, k, v), k, v)
<1>1. CASE InArray(s, k)
  BY <1>1, PutArray
<1>2. CASE ~InArray(s, k) /\ Find(s, k) /= 0
  BY <1>2, PutFound
<1>3. CASE ~InArray(s, k) /\ Find(s, k) = 0 /\ ~Occupied(s, k)
  BY <1>3, PutReuse
<1>4. CASE ~InArray(s, k) /\ Find(s, k) = 0 /\ Occupied(s, k)
  <2>1. FreePos(s) /= 0
    BY <1>4 DEF Room
  <2> QED
    BY <1>4, <2>1, PutInsert, PutMove
<1> QED
  BY <1>1, <1>2, <1>3, <1>4
-----------------------------------------------------------------------------
(***************************************************************************)
(* Re-insertion.                                                           *)
(***************************************************************************)

\* One field
Refill(u, x) == IF x.val = nil THEN u ELSE Put(u, x.key, x.val)

\* g gives the table after the fields of each set of indices.
Refills(g, s, fields, I) ==
    \A r \in SUBSET I : g[r] = IF r = {} THEN s ELSE Refill(g[r \ {Max(r)}], fields[Max(r)])

LEMMA RefillsExist ==
    ASSUME NEW s, NEW fields, NEW n \in Nat
    PROVE  \E g : Refills(g, s, fields, 1..n)
<1> DEFINE T == {k \in 0..n : \E g : Refills(g, s, fields, 1..k)}
<1>1. 0 \in T
  <2> DEFINE g == [r \in SUBSET (1..0) |-> s]
  <2>1. \A r \in SUBSET (1..0) : r = {} /\ g[r] = s
    OBVIOUS
  <2> HIDE DEF g
  <2>2. Refills(g, s, fields, 1..0)
    BY <2>1 DEF Refills
  <2> QED
    BY <2>2
<1>2. \A k \in 0..n : k \in T /\ k < n => k + 1 \in T
  <2> SUFFICES ASSUME NEW k \in 0..n, k \in T, k < n PROVE k + 1 \in T
    OBVIOUS
  <2> PICK f : Refills(f, s, fields, 1..k)
    OBVIOUS
  <2> DEFINE v(r) == IF k + 1 \in r THEN Refill(f[r \ {k + 1}], fields[k + 1]) ELSE f[r]
             g == [r \in SUBSET (1..(k + 1)) |-> v(r)]
  <2>0. \A r \in SUBSET (1..(k + 1)) : g[r] = v(r)
    OBVIOUS
  <2>1. \A r \in SUBSET (1..k) : g[r] = f[r]
    <3> TAKE r \in SUBSET (1..k)
    <3>1. r \in SUBSET (1..(k + 1)) /\ k + 1 \notin r
      OBVIOUS
    <3> HIDE DEF g
    <3> QED
      BY <2>0, <3>1
  <2> HIDE DEF g
  <2>2. ASSUME NEW r \in SUBSET (1..(k + 1))
        PROVE  g[r] = IF r = {} THEN s ELSE Refill(g[r \ {Max(r)}], fields[Max(r)])
    <3>1. CASE k + 1 \in r
      <4>1. k + 1 \in Nat /\ r \in SUBSET (1..(k + 1)) /\ r /= {}
        BY <3>1
      <4> PICK m : m = Max(r)
        OBVIOUS
      <4>2. m \in r /\ \A x \in r : x <= m
        <5>1. Max(r) \in r /\ \A x \in r : x <= Max(r)
          BY ONLY <4>1, LargestIndex
        <5> QED
          BY <5>1
      <4>3. m = k + 1
        BY <3>1, <4>2
      <4>4. r \ {k + 1} \in SUBSET (1..k)
        OBVIOUS
      <4>5. g[r \ {k + 1}] = f[r \ {k + 1}]
        BY <2>1, <4>4
      <4>6. g[r] = Refill(f[r \ {k + 1}], fields[k + 1])
        BY <2>0, <3>1
      <4> QED
        BY <4>1, <4>3, <4>5, <4>6
    <3>2. CASE k + 1 \notin r
      <4>1. r \in SUBSET (1..k)
        BY <3>2
      <4>2. f[r] = IF r = {} THEN s ELSE Refill(f[r \ {Max(r)}], fields[Max(r)])
        BY <4>1 DEF Refills
      <4>3. g[r] = f[r] /\ g[r \ {Max(r)}] = f[r \ {Max(r)}]
        BY <2>1, <4>1
      <4> QED
        BY <4>2, <4>3
    <3> QED
      BY <3>1, <3>2
  <2>3. Refills(g, s, fields, 1..(k + 1))
    BY <2>2 DEF Refills
  <2> QED
    BY <2>3
<1>3. 0..n \subseteq T
  <2> HIDE DEF T
  <2> QED
    BY <1>1, <1>2, Induction
<1> QED
  BY <1>3

\* f[i] is the table after the first i fields.
Steps(f, s, fields, n) ==
    /\ f[0] = s /\ Fill(s, fields) = f[n]
    /\ \A i \in 1..n : f[i] = Refill(f[i - 1], fields[i])

\* The fields are re-inserted one after the other.
LEMMA FillSteps ==
    ASSUME NEW s, NEW n \in Nat, NEW fields, DOMAIN fields = 1..n
    PROVE  \E f : Steps(f, s, fields, n)
<1> DEFINE v(g, r) == IF r = {} THEN s ELSE Refill(g[r \ {Max(r)}], fields[Max(r)])
           g == CHOOSE h : h = [r \in SUBSET (1..n) |-> v(h, r)]
<1>1. Fill(s, fields) = g[1..n]
  BY DEF Fill, FoldLeft, MapThenFoldSet, Refill
<1> HIDE DEF g
<1>2. PICK h : \A r \in SUBSET (1..n) : h[r] = v(h, r)
  <2>1. PICK h : Refills(h, s, fields, 1..n)
    BY RefillsExist
  <2>2. \A r \in SUBSET (1..n) : h[r] = v(h, r)
    BY <2>1 DEF Refills
  <2> QED
    BY <2>2
<1> DEFINE k == [r \in SUBSET (1..n) |-> h[r]]
<1>3. \A r \in SUBSET (1..n) : k[r] = h[r]
  OBVIOUS
<1>4. \A r \in SUBSET (1..n) : v(k, r) = v(h, r)
  <2> TAKE r \in SUBSET (1..n)
  <2>1. r \ {Max(r)} \in SUBSET (1..n)
    OBVIOUS
  <2>2. k[r \ {Max(r)}] = h[r \ {Max(r)}]
    <3> HIDE DEF k
    <3> QED
      BY <1>3, <2>1
  <2> HIDE DEF k
  <2> QED
    BY <2>2
<1>5. k = [r \in SUBSET (1..n) |-> v(k, r)]
  <2> HIDE DEF v
  <2>1. \A r \in SUBSET (1..n) : h[r] = v(k, r)
    <3> HIDE DEF k
    <3> QED
      BY <1>2, <1>4
  <2>2. [r \in SUBSET (1..n) |-> h[r]] = [r \in SUBSET (1..n) |-> v(k, r)]
    <3> HIDE DEF k
    <3> QED
      BY <2>1
  <2> QED
    BY <2>2
<1> HIDE DEF k
<1>6. g = [r \in SUBSET (1..n) |-> v(g, r)]
  <2> HIDE DEF v
  <2> QED
    BY <1>5 DEF g
<1>7. \A r \in SUBSET (1..n) : g[r] = v(g, r)
  <2> HIDE DEF v
  <2> QED
    BY <1>6
<1> DEFINE f == [i \in 0..n |-> g[1..i]]
<1>8. \A i \in 0..n : f[i] = g[1..i]
  OBVIOUS
<1> HIDE DEF f
<1>9. f[0] = s /\ f[n] = g[1..n]
  <2>1. 0 \in 0..n /\ n \in 0..n /\ 1..0 \in SUBSET (1..n) /\ 1..0 = {}
    OBVIOUS
  <2> QED
    BY <1>7, <1>8, <2>1
<1>10. \A i \in 1..n : f[i] = Refill(f[i - 1], fields[i])
  <2> TAKE i \in 1..n
  <2>1. i \in Nat /\ 1..i \in SUBSET (1..i) /\ 1..i /= {} /\ i \in 1..i
    <3>1. i \in Nat /\ i \in 1..i
      OBVIOUS
    <3>2. 1..i /= {}
      BY ONLY <3>1
    <3> QED
      BY ONLY <3>1, <3>2
  <2>2. Max(1..i) \in 1..i /\ \A x \in 1..i : x <= Max(1..i)
    BY ONLY <2>1, LargestIndex
  <2> PICK m : m = Max(1..i)
    OBVIOUS
  <2>3. m = i
    BY <2>1, <2>2
  <2>4. (1..i) \ {i} = 1..(i - 1) /\ 1..i \in SUBSET (1..n) /\ i - 1 \in 0..n /\ i \in 0..n
    OBVIOUS
  <2>5. g[1..i] = Refill(g[(1..i) \ {i}], fields[i])
    BY <1>7, <2>1, <2>3, <2>4
  <2> QED
    BY <1>8, <2>4, <2>5
<1> QED
  BY <1>1, <1>9, <1>10 DEF Steps

\* As long as there are fewer keys than nodes, a node is free.
LEMMA RoomIs ==
    ASSUME NEW s, Good(s), Fresh(s), NEW T, IsFiniteSet(T), Keys(s) \subseteq T,
           Cardinality(T) <= Len(s.node),
           NEW k \in Key, k \in T \/ k \in 1..Len(s.array)
    PROVE  Room(s, k)
<1> SUFFICES ASSUME ~InArray(s, k), Find(s, k) = 0, Occupied(s, k), FreePos(s) = 0
             PROVE  FALSE
  BY DEF Room
<1> PICK L : L = Len(s.node)
  OBVIOUS
<1>1. L \in Nat /\ k \in T
  BY GoodParts DEF InArray
<1>2. \A i \in 1..L : s.node[i].key /= nil
  <2>1. Parts(s)
    BY DEF Good
  <2> QED
    BY <2>1, FreePosIs
<1>3. \A i \in 1..L : Live(s.node, i, s.node[i].key)
  BY <1>2 DEF Fresh, Live
<1>4. \A i \in 1..L : s.node[i].key \in T \ {k}
  <2> TAKE i \in 1..L
  <2>1. s.node[i].key \in Keys(s)
    BY <1>2 DEF Keys
  <2>2. ~Live(s.node, i, k)
    BY Absent
  <2> QED
    BY <1>3, <2>1, <2>2
<1>5. \A i \in 1..L : s.node[i].key \in Key
  BY <1>2, GoodParts DEF NodeRec
<1>6. PICK c, p : Shape(L, s.node, c, p)
  BY DEF Good, Shaped
<1>7. \A i, j \in 1..L : s.node[i].key = s.node[j].key => i = j
  <2> TAKE i, j \in 1..L
  <2> HAVE s.node[i].key = s.node[j].key
  <2>1. /\ Shape(L, s.node, c, p) /\ i \in 1..L /\ j \in 1..L /\ s.node[i].key \in Key
        /\ Live(s.node, i, s.node[i].key) /\ Live(s.node, j, s.node[i].key)
    BY <1>3, <1>5, <1>6
  <2> QED
    BY ONLY <2>1, OneLive
<1> DEFINE f == [i \in 1..L |-> s.node[i].key]
<1>8. f \in Injection(1..L, T \ {k})
  BY <1>4, <1>7 DEF Injection, IsInjective
<1>9. IsFiniteSet(T \ {k}) /\ Cardinality(T \ {k}) = Cardinality(T) - 1 /\ Cardinality(T) \in Nat
  BY <1>1, FS_RemoveElement, FS_CardinalityType
<1>10. Cardinality(1..L) = L
  <2>1. 1 \in Int /\ L \in Int
    BY <1>1
  <2>2. Cardinality(1..L) = IF 1 > L THEN 0 ELSE L - 1 + 1
    BY ONLY <2>1, FS_Interval
  <2> QED
    BY <1>1, <2>2
<1>11. Cardinality(1..L) <= Cardinality(T \ {k})
  <2> HIDE DEF f
  <2> QED
    BY ONLY <1>8, <1>9, FS_Injection
<1> QED
  BY <1>1, <1>9, <1>10, <1>11

\* The values that the first i fields give to q
Given(fields, i, q) == {fields[j].val : j \in {x \in 1..i : fields[x].key = q}} \ {nil}

\* u is s with these fields.
Filled(s, u, fields, i) ==
    /\ Good(u) /\ Fresh(u)
    /\ u.failed = s.failed /\ Len(u.array) = Len(s.array) /\ Len(u.node) = Len(s.node)
    /\ \A q \in Key : /\ Given(fields, i, q) = {} => Get(u, q) = Get(s, q)
                      /\ Given(fields, i, q) /= {} => Get(u, q) \in Given(fields, i, q)

Fits(u, x) == x.val /= nil => x.key \in Key /\ x.val \in Value /\ Room(u, x.key)

KeysWith(u, w, x) == Keys(w) \subseteq Keys(u) \cup (IF x.val = nil THEN {} ELSE {x.key})

LEMMA FillStep ==
    ASSUME NEW s, NEW fields, NEW i \in Nat, NEW u, Filled(s, u, fields, i),
           Fits(u, fields[i + 1])
    PROVE  Filled(s, Refill(u, fields[i + 1]), fields, i + 1)
           /\ KeysWith(u, Refill(u, fields[i + 1]), fields[i + 1])
<1> PICK k, v : k = fields[i + 1].key /\ v = fields[i + 1].val
  OBVIOUS
<1>0. v /= nil => k \in Key /\ v \in Value /\ Room(u, k)
  BY DEF Fits
<1>1. \A q : Given(fields, i + 1, q) = Given(fields, i, q) \cup (IF k = q /\ v /= nil THEN {v} ELSE {})
  <2> TAKE q
  <2>1. 1..(i + 1) = (1..i) \cup {i + 1}
    OBVIOUS
  <2> QED
    BY <2>1 DEF Given
<1>2. CASE v = nil
  <2>1. Refill(u, fields[i + 1]) = u
    BY <1>2 DEF Refill
  <2>2. \A q : Given(fields, i + 1, q) = Given(fields, i, q)
    BY <1>1, <1>2
  <2> QED
    BY <1>2, <2>1, <2>2 DEF Filled, KeysWith
<1>3. CASE v /= nil
  <2> PICK w : w = Put(u, k, v)
    OBVIOUS
  <2>1. Refill(u, fields[i + 1]) = w
    BY <1>3 DEF Refill
  <2>2. k \in Key /\ v \in Value /\ v \in Value \cup {nil} /\ Room(u, k) /\ Good(u)
    BY <1>0, <1>3 DEF Filled
  <2>3. Stored(u, w, k, v)
    BY <2>2, PutIs
  <2>4. /\ Good(w) /\ Fresh(w) /\ w.failed = s.failed /\ Len(w.array) = Len(s.array)
        /\ Len(w.node) = Len(s.node)
    BY <2>3 DEF Stored, Filled
  <2>5. ASSUME NEW q \in Key
        PROVE  /\ Given(fields, i + 1, q) = {} => Get(w, q) = Get(s, q)
               /\ Given(fields, i + 1, q) /= {} => Get(w, q) \in Given(fields, i + 1, q)
    <3>1. CASE q = k
      <4>1. Get(w, q) = v
        BY <2>3, <3>1 DEF Stored
      <4>2. v \in Given(fields, i + 1, q)
        BY <1>1, <1>3, <3>1
      <4> QED
        BY <4>1, <4>2
    <3>2. CASE q /= k
      <4>1. Get(w, q) = Get(u, q)
        BY <2>3, <3>2 DEF Stored
      <4>2. Given(fields, i + 1, q) = Given(fields, i, q)
        BY <1>1, <3>2
      <4> QED
        BY <4>1, <4>2 DEF Filled
    <3> QED
      BY <3>1, <3>2
  <2>6. Filled(s, w, fields, i + 1)
    BY <2>4, <2>5 DEF Filled
  <2>7. Keys(w) \subseteq Keys(u) \cup {k}
    BY <2>3 DEF Stored
  <2> QED
    BY <1>3, <2>1, <2>6, <2>7 DEF KeysWith
<1> QED
  BY <1>2, <1>3

\* Re-insertion never needs another rehash, when the nodes are enough.
LEMMA FillIs ==
    ASSUME NEW s, Good(s), Fresh(s), NEW n \in Nat, NEW fields, DOMAIN fields = 1..n,
           \A i \in 1..n : fields[i].val /= nil => fields[i].key \in Key /\ fields[i].val \in Value,
           NEW T, IsFiniteSet(T), Keys(s) \subseteq T, Cardinality(T) <= Len(s.node),
           \A i \in 1..n : fields[i].val /= nil => fields[i].key \in T \cup (1..Len(s.array))
    PROVE  Filled(s, Fill(s, fields), fields, n) /\ Keys(Fill(s, fields)) \subseteq T
<1> PICK f : Steps(f, s, fields, n)
  BY FillSteps
<1>0. /\ f[0] = s /\ Fill(s, fields) = f[n]
      /\ \A i \in 1..n : f[i] = Refill(f[i - 1], fields[i])
  BY DEF Steps
<1>a. \A u : Good(u) => \A q \in Keys(u) : q \notin 1..Len(u.array)
  BY DEF Good, Parts, Keys
<1> DEFINE D == {i \in 0..n : Filled(s, f[i], fields, i) /\ Keys(f[i]) \subseteq T}
<1>1. 0 \in D
  <2>1. \A q : Given(fields, 0, q) = {}
    <3>1. 1..0 = {}
      OBVIOUS
    <3> QED
      BY <3>1 DEF Given
  <2>2. Filled(s, s, fields, 0)
    BY <2>1 DEF Filled
  <2> QED
    BY <1>0, <2>2
<1>2. \A i \in 0..n : i \in D /\ i < n => i + 1 \in D
  <2> SUFFICES ASSUME NEW i \in 0..n, i \in D, i < n PROVE i + 1 \in D
    OBVIOUS
  <2> PICK u, k, v : u = f[i] /\ k = fields[i + 1].key /\ v = fields[i + 1].val
    OBVIOUS
  <2>1. i \in Nat /\ i + 1 \in 1..n /\ (i + 1) - 1 = i /\ i + 1 \in 0..n
    OBVIOUS
  <2>2. f[i + 1] = Refill(u, fields[i + 1])
    BY <1>0, <2>1
  <2>3. Filled(s, u, fields, i) /\ Keys(u) \subseteq T
    OBVIOUS
  <2>4. v /= nil => k \in Key /\ v \in Value /\ (k \in T \/ k \in 1..Len(s.array))
    BY <2>1
  <2>5. v /= nil => Room(u, k)
    <3> HAVE v /= nil
    <3>1. /\ Good(u) /\ Fresh(u) /\ IsFiniteSet(T) /\ Keys(u) \subseteq T
          /\ Cardinality(T) <= Len(u.node) /\ k \in Key /\ (k \in T \/ k \in 1..Len(u.array))
      BY <2>3, <2>4 DEF Filled
    <3> QED
      BY ONLY <3>1, RoomIs
  <2> PICK w : w = Refill(u, fields[i + 1])
    OBVIOUS
  <2>6. Filled(s, w, fields, i + 1) /\ Keys(w) \subseteq Keys(u) \cup (IF v = nil THEN {} ELSE {k})
    <3>1. i \in Nat /\ Filled(s, u, fields, i) /\ Fits(u, fields[i + 1])
      BY <2>1, <2>3, <2>4, <2>5 DEF Fits
    <3>2. Filled(s, Refill(u, fields[i + 1]), fields, i + 1)
          /\ KeysWith(u, Refill(u, fields[i + 1]), fields[i + 1])
      BY ONLY <3>1, FillStep
    <3> QED
      BY <3>2 DEF KeysWith
  <2>7. Keys(w) \subseteq T
    <3> SUFFICES ASSUME NEW q \in Keys(w) PROVE q \in T
      OBVIOUS
    <3>1. q \notin 1..Len(s.array)
      BY <1>a, <2>6 DEF Filled
    <3> QED
      BY <2>3, <2>4, <2>6, <3>1
  <2> QED
    BY <2>1, <2>2, <2>6, <2>7
<1>3. 0..n \subseteq D
  <2> HIDE DEF D
  <2> QED
    BY <1>1, <1>2, Induction
<1>4. n \in D
  BY <1>3
<1> QED
  BY <1>0, <1>4
-----------------------------------------------------------------------------
(***************************************************************************)
(* New nodes, and a table with other sizes.                                *)
(***************************************************************************)

LEMMA SetNodeVectorIs ==
    ASSUME NEW size \in Nat
    PROVE  /\ Len(SetNodeVector(size)) \in Nat /\ Len(SetNodeVector(size)) >= size
           /\ SetNodeVector(size) = [i \in 1..Len(SetNodeVector(size)) |-> FreeNode]
           /\ SetNodeVector(size) = <<>> \/ \E i \in Nat : Len(SetNodeVector(size)) = twoto[i]
<1>1. CASE size = 0
  <2>1. SetNodeVector(size) = <<>> /\ Len(<<>>) = 0 /\ 1..0 = {}
    BY <1>1 DEF SetNodeVector
  <2>2. <<>> = [i \in 1..0 |-> FreeNode]
    <3> DEFINE empty == [i \in 1..0 |-> FreeNode]
    <3>1. empty \in Seq({FreeNode}) /\ Len(empty) = 0
      OBVIOUS
    <3> HIDE DEF empty
    <3>2. empty = <<>>
      BY ONLY <3>1
    <3> QED
      BY <3>2 DEF empty
  <2>3. Len(SetNodeVector(size)) = 0
    BY <2>1
  <2>4. SetNodeVector(size) = [i \in 1..Len(SetNodeVector(size)) |-> FreeNode]
    BY ONLY <2>1, <2>2, <2>3
  <2> QED
    BY <1>1, <2>1, <2>3, <2>4
<1>2. CASE size /= 0
  <2> PICK e, L : e = CeilLog2(size) /\ L = twoto[e]
    OBVIOUS
  <2>1. e \in Nat /\ L \in Nat /\ L >= size
    BY CeilLog2Large, Twoto
  <2>2. SetNodeVector(size) = [i \in 1..L |-> FreeNode]
    BY <1>2 DEF SetNodeVector
  <2>3. Len(SetNodeVector(size)) = L
    BY <2>1, <2>2
  <2> QED
    BY <2>1, <2>2, <2>3
<1> QED
  BY <1>1, <1>2

\* s has these vectors and no key in its nodes.
Bare(s, a, size) ==
    /\ s \in TableRec /\ s.array = a /\ s.node = SetNodeVector(size)
    /\ s.lastfree = Len(SetNodeVector(size)) + 1
    /\ \A i \in 1..Len(a) : a[i] /= nil => i \in Key

LEMMA BareIs ==
    ASSUME NEW s, NEW a, NEW size \in Nat, Bare(s, a, size)
    PROVE  /\ Good(s) /\ Fresh(s) /\ Keys(s) = {}
           /\ \A q \in Key : Get(s, q) = IF InArray(s, q) THEN a[q] ELSE nil
<1> PICK L, node : L = Len(SetNodeVector(size)) /\ node = SetNodeVector(size)
  OBVIOUS
<1>1. L \in Nat /\ node = [i \in 1..L |-> FreeNode] /\ (node = <<>> \/ \E i \in Nat : L = twoto[i])
      /\ Len(node) = L
  BY SetNodeVectorIs
<1>2. s.node = node /\ s.array = a /\ s.lastfree = L + 1
  BY DEF Bare
<1>3. FreeNode.key = nil /\ FreeNode.dead = FALSE /\ FreeNode.val = nil /\ FreeNode.next = 0
  BY DEF FreeNode
<1>4. FreeNode \in NodeRec
  BY DEF FreeNode, NodeRec
<1>5. \A i \in 1..L : node[i] = FreeNode
  BY <1>1
<1>6. node \in [1..L -> NodeRec]
  BY <1>1, <1>4
<1> DEFINE c == [i \in 1..L |-> i]
           p == [i \in 1..L |-> 0]
<1>7. Shape(L, node, c, p)
  <2>1. Linked(L, node, c, p)
    BY <1>1, <1>3, <1>5 DEF Linked
  <2>2. FreeAlone(L, node, c)
    BY <1>3, <1>5 DEF FreeAlone
  <2>3. Home(L, node, c, p)
    BY <1>3, <1>5 DEF Home
  <2>4. DeadBehind(L, node, p)
    BY <1>3, <1>5 DEF DeadBehind
  <2> HIDE DEF c, p
  <2> QED
    BY <1>1, <1>6, <2>1, <2>2, <2>3, <2>4 DEF Shape
<1>8. Good(s)
  <2>1. Parts(s)
    <3>1. s \in TableRec /\ \A i \in 1..Len(a) : a[i] /= nil => i \in Key
      BY DEF Bare
    <3>2. \A i \in 1..L : node[i].key = nil
      BY <1>3, <1>5
    <3>3. s.lastfree <= L + 1 /\ \A i \in 1..L : ~(i >= s.lastfree)
      BY <1>1, <1>2
    <3> QED
      BY <1>1, <1>2, <3>1, <3>2, <3>3 DEF Parts
  <2>2. Shaped(s)
    <3> HIDE DEF c, p
    <3> QED
      BY <1>1, <1>2, <1>7 DEF Shaped
  <2> QED
    BY <2>1, <2>2 DEF Good
<1>9. Fresh(s) /\ Keys(s) = {}
  BY <1>1, <1>2, <1>3, <1>5 DEF Fresh, Keys
<1>10. \A q \in Key : Get(s, q) = IF InArray(s, q) THEN a[q] ELSE nil
  <2> TAKE q \in Key
  <2>1. \A i \in 1..Len(s.node) : ~Live(s.node, i, q)
    BY <1>1, <1>2, <1>3, <1>5, TableAssumption DEF Live
  <2> QED
    BY <1>2, <1>8, <2>1, GetIs
<1> QED
  BY <1>8, <1>9, <1>10

\* e is s without the fields that are to be re-inserted.
Emptying(s, e, nasize, L) ==
    /\ Good(e) /\ Fresh(e) /\ Keys(e) = {} /\ e.failed = s.failed
    /\ Len(e.array) = nasize /\ Len(e.node) = L
    /\ \A q \in Key : Get(e, q) = IF q \in 1..nasize /\ q \in 1..Len(s.array)
                                  THEN s.array[q] ELSE nil

LEMMA EmptiedIs ==
    ASSUME NEW s, Good(s), NEW nasize \in Nat, NEW nhsize \in Nat
    PROVE  Emptying(s, Emptied(s, nasize, nhsize), nasize, Len(SetNodeVector(nhsize)))
<1> PICK e : e = Emptied(s, nasize, nhsize)
  OBVIOUS
<1> DEFINE a == [i \in 1..nasize |-> IF i <= Len(s.array) THEN s.array[i] ELSE nil]
<1> PICK node, L : node = SetNodeVector(nhsize) /\ L = Len(node)
  OBVIOUS
<1>1. s.array \in Seq(Value \cup {nil}) /\ Len(s.array) \in Nat
  BY GoodParts
<1>2. a \in Seq(Value \cup {nil}) /\ Len(a) = nasize
  BY <1>1
<1>3. \A i \in 1..nasize : a[i] = IF i \in 1..Len(s.array) THEN s.array[i] ELSE nil
  BY <1>1
<1>4. e = [array |-> a, node |-> node, lastfree |-> L + 1, failed |-> s.failed]
  BY DEF Emptied
<1> HIDE DEF a
<1>5. L \in Nat /\ node \in Seq(NodeRec)
  <2>1. L \in Nat /\ node = [i \in 1..L |-> FreeNode]
    BY SetNodeVectorIs
  <2>2. FreeNode \in NodeRec
    BY DEF FreeNode, NodeRec
  <2> QED
    BY <2>1, <2>2
<1>6. s.failed \in BOOLEAN
  BY GoodParts DEF TableRec
<1>7. e \in TableRec /\ e.array = a /\ e.node = node /\ e.lastfree = L + 1 /\ e.failed = s.failed
  BY <1>2, <1>4, <1>5, <1>6 DEF TableRec
<1>8. \A i \in 1..Len(a) : a[i] /= nil => i \in Key
  BY <1>2, <1>3 DEF Good, Parts
<1>9. Bare(e, a, nhsize)
  BY <1>7, <1>8 DEF Bare
<1>10. Good(e) /\ Fresh(e) /\ Keys(e) = {}
       /\ \A q \in Key : Get(e, q) = IF InArray(e, q) THEN a[q] ELSE nil
  BY <1>9, BareIs
<1>11. \A q \in Key : InArray(e, q) <=> q \in 1..nasize
  BY <1>2, <1>7 DEF InArray
<1> QED
  BY <1>2, <1>3, <1>7, <1>10, <1>11 DEF Emptying

\* T has the keys that do not go into an array of nasize elements.
Hashed(s, nasize, T) ==
    /\ IsFiniteSet(T)
    /\ \A q \in Key : Get(s, q) /= nil /\ q \notin 1..nasize => q \in T

\* u has the fields of s, and other sizes.
Resized(s, u, nasize, nhsize, T) ==
    /\ Good(u) /\ Fresh(u)
    /\ u.failed = s.failed /\ Len(u.array) = nasize /\ Len(u.node) >= nhsize
    /\ Keys(u) \subseteq T
    /\ \A q \in Key : Get(u, q) = Get(s, q)

LEMMA NodeFields ==
    ASSUME NEW s, Good(s), NEW i \in 1..Len(s.node), s.node[i].val /= nil
    PROVE  /\ s.node[i].key \in Key /\ s.node[i].val \in Value
           /\ Live(s.node, i, s.node[i].key)
           /\ s.node[i].key \notin 1..Len(s.array)
           /\ Get(s, s.node[i].key) = s.node[i].val
<1> PICK c, p : Shape(Len(s.node), s.node, c, p)
  BY DEF Good, Shaped
<1>1. s.node[i] \in NodeRec
  BY GoodParts
<1>2. s.node[i].key /= nil
  BY DEF Shape, FreeAlone
<1>3. ~s.node[i].dead
  BY <1>1 DEF Shape, DeadBehind
<1>4. s.node[i].key \in Key /\ s.node[i].val \in Value
  BY <1>1, <1>2 DEF NodeRec
<1>5. Live(s.node, i, s.node[i].key)
  BY <1>3 DEF Live
<1>6. s.node[i].key \notin 1..Len(s.array)
  BY <1>2 DEF Good, Parts
<1>7. ~InArray(s, s.node[i].key)
  BY <1>6 DEF InArray
<1>8. Get(s, s.node[i].key) = s.node[i].val
  BY <1>4, <1>5, <1>7, GetLive
<1> QED
  BY <1>4, <1>5, <1>6, <1>8

LEMMA ResizeIs ==
    ASSUME NEW s, Good(s), NEW nasize \in Nat, NEW nhsize \in Nat,
           NEW T, Hashed(s, nasize, T), Cardinality(T) <= nhsize
    PROVE  Resized(s, Resize(s, nasize, nhsize), nasize, nhsize, T)
<1> DEFINE cut == [i \in 1..(Len(s.array) - nasize) |->
                      [key |-> nasize + i, val |-> s.array[nasize + i]]]
<1> PICK la, L, N : la = Len(s.array) /\ L = Len(s.node) /\ N = Len(SetNodeVector(nhsize))
  OBVIOUS
<1> PICK e : e = Emptied(s, nasize, nhsize)
  OBVIOUS
<1> PICK w : w = Fill(e, cut)
  OBVIOUS
<1> PICK u : u = Fill(w, Reverse(s.node))
  OBVIOUS
<1>1. Resize(s, nasize, nhsize) = u
  BY DEF Resize
<1>2. la \in Nat /\ L \in Nat /\ s.array \in Seq(Value \cup {nil}) /\ s.node \in Seq(NodeRec)
  BY GoodParts
<1>3. N \in Nat /\ N >= nhsize
  BY SetNodeVectorIs
<1>4. /\ Good(e) /\ Fresh(e) /\ Keys(e) = {} /\ e.failed = s.failed
      /\ Len(e.array) = nasize /\ Len(e.node) = N
      /\ \A q \in Key : Get(e, q) = IF q \in 1..nasize /\ q \in 1..la THEN s.array[q] ELSE nil
  <2>1. Emptying(s, Emptied(s, nasize, nhsize), nasize, Len(SetNodeVector(nhsize)))
    BY EmptiedIs
  <2> QED
    BY <2>1 DEF Emptying
<1>5. IsFiniteSet(T) /\ Cardinality(T) \in Nat /\ Cardinality(T) <= N
      /\ \A q \in Key : Get(s, q) /= nil /\ q \notin 1..nasize => q \in T
  <2>1. IsFiniteSet(T) /\ \A q \in Key : Get(s, q) /= nil /\ q \notin 1..nasize => q \in T
    BY DEF Hashed
  <2>2. Cardinality(T) \in Nat
    BY <2>1, FS_CardinalityType
  <2> QED
    BY <1>3, <2>1, <2>2
<1>6. \A q \in Key : q \in 1..la => Get(s, q) = s.array[q]
  BY GetIs DEF InArray
<1>7. \A i \in 1..la : s.array[i] /= nil => i \in Key /\ s.array[i] \in Value
  BY <1>2 DEF Good, Parts
<1> PICK m : m = IF la >= nasize THEN la - nasize ELSE 0
  OBVIOUS
<1>8. m \in Nat /\ DOMAIN cut = 1..m /\ (m = 0 \/ m = la - nasize)
      /\ \A q \in 1..la : q > nasize => q - nasize \in 1..m
  <2>1. m \in Nat /\ (m = 0 \/ m = la - nasize)
        /\ \A q \in 1..la : q > nasize => q - nasize \in 1..m
    BY <1>2
  <2>2. 1..(la - nasize) = 1..m
    BY <1>2
  <2> QED
    BY <2>1, <2>2
<1>9. \A i \in 1..m : /\ cut[i].key = nasize + i /\ cut[i].val = s.array[nasize + i]
                      /\ nasize + i \in 1..la
  BY <1>2, <1>8
<1> HIDE DEF cut
<1>10. Filled(e, w, cut, m) /\ Keys(w) \subseteq T
  <2>1. ASSUME NEW i \in 1..m, cut[i].val /= nil
        PROVE  cut[i].key \in Key /\ cut[i].val \in Value /\ cut[i].key \in T
    <3> PICK x : x = nasize + i
      OBVIOUS
    <3>1. x \in 1..la /\ cut[i].key = x /\ cut[i].val = s.array[x] /\ x \notin 1..nasize
      BY <1>9
    <3>2. x \in Key /\ s.array[x] \in Value /\ s.array[x] /= nil
      BY <1>7, <2>1, <3>1
    <3>3. x \in T
      BY <1>5, <1>6, <3>1, <3>2
    <3> QED
      BY <3>1, <3>2, <3>3
  <2>2. /\ Good(e) /\ Fresh(e) /\ m \in Nat /\ DOMAIN cut = 1..m
        /\ \A i \in 1..m : cut[i].val /= nil => cut[i].key \in Key /\ cut[i].val \in Value
        /\ IsFiniteSet(T) /\ Keys(e) \subseteq T /\ Cardinality(T) <= Len(e.node)
        /\ \A i \in 1..m : cut[i].val /= nil => cut[i].key \in T \cup (1..Len(e.array))
    BY <1>4, <1>5, <1>8, <2>1
  <2>3. Filled(e, Fill(e, cut), cut, m) /\ Keys(Fill(e, cut)) \subseteq T
    BY ONLY <2>2, FillIs
  <2> QED
    BY <2>3
<1>11. ASSUME NEW q \in Key PROVE Get(w, q) = IF q \in 1..la THEN s.array[q] ELSE nil
  <2>1. CASE q \in 1..la /\ q \notin 1..nasize
    <3>1. q - nasize \in 1..m /\ nasize + (q - nasize) = q
      BY <1>2, <1>8, <2>1
    <3>2. \A i \in 1..m : cut[i].key = q => cut[i].val = s.array[q]
      BY <1>9
    <3>3. cut[q - nasize].key = q /\ cut[q - nasize].val = s.array[q]
      BY <1>9, <3>1
    <3>4. Given(cut, m, q) = {s.array[q]} \ {nil}
      BY <3>1, <3>2, <3>3 DEF Given
    <3>5. Get(e, q) = nil
      BY <1>4, <2>1
    <3> QED
      BY <1>10, <2>1, <3>4, <3>5 DEF Filled
  <2>2. CASE ~(q \in 1..la /\ q \notin 1..nasize)
    <3>1. \A i \in 1..m : cut[i].key /= q
      <4> TAKE i \in 1..m
      <4>1. nasize + i \in 1..la /\ nasize + i \notin 1..nasize /\ cut[i].key = nasize + i
        BY <1>9
      <4> QED
        BY <2>2, <4>1
    <3>2. Given(cut, m, q) = {}
      BY <3>1 DEF Given
    <3>3. Get(w, q) = Get(e, q)
      BY <1>10, <3>2 DEF Filled
    <3> QED
      BY <1>4, <2>2, <3>3
  <2> QED
    BY <2>1, <2>2
<1> PICK rev : rev = Reverse(s.node)
  OBVIOUS
<1>12. DOMAIN rev = 1..L /\ \A i \in 1..L : (L - i) + 1 \in 1..L /\ rev[i] = s.node[(L - i) + 1]
  BY <1>2 DEF Reverse
<1>13. \A i \in 1..L : \E j \in 1..L : rev[i] = s.node[j]
  BY <1>12
<1>14. \A j \in 1..L : \E i \in 1..L : rev[i] = s.node[j]
  <2> TAKE j \in 1..L
  <2>1. (L - j) + 1 \in 1..L /\ (L - ((L - j) + 1)) + 1 = j
    BY <1>2
  <2> QED
    BY <1>12, <2>1
<1>15. Filled(w, u, rev, L) /\ Keys(u) \subseteq T
  <2>1. ASSUME NEW i \in 1..L, rev[i].val /= nil
        PROVE  rev[i].key \in Key /\ rev[i].val \in Value /\ rev[i].key \in T \cup (1..Len(w.array))
    <3>1. PICK j \in 1..L : rev[i] = s.node[j]
      BY <1>13
    <3>2. s.node[j].key \in Key /\ s.node[j].val \in Value /\ Get(s, s.node[j].key) = s.node[j].val
      BY <2>1, <3>1, NodeFields
    <3>3. s.node[j].key \in T \cup (1..nasize)
      BY <1>5, <2>1, <3>1, <3>2
    <3>4. Len(w.array) = nasize
      BY <1>4, <1>10 DEF Filled
    <3> QED
      BY <3>1, <3>2, <3>3, <3>4
  <2>2. /\ Good(w) /\ Fresh(w) /\ L \in Nat /\ DOMAIN rev = 1..L
        /\ \A i \in 1..L : rev[i].val /= nil => rev[i].key \in Key /\ rev[i].val \in Value
        /\ IsFiniteSet(T) /\ Keys(w) \subseteq T /\ Cardinality(T) <= Len(w.node)
        /\ \A i \in 1..L : rev[i].val /= nil => rev[i].key \in T \cup (1..Len(w.array))
    BY <1>2, <1>4, <1>5, <1>10, <1>12, <2>1 DEF Filled
  <2>3. Filled(w, Fill(w, rev), rev, L) /\ Keys(Fill(w, rev)) \subseteq T
    BY ONLY <2>2, FillIs
  <2> QED
    BY <2>3
<1>16. ASSUME NEW q \in Key PROVE Get(u, q) = Get(s, q)
  <2>1. CASE \E j \in 1..L : s.node[j].key = q /\ s.node[j].val /= nil
    <3>1. PICK j \in 1..L : s.node[j].key = q /\ s.node[j].val /= nil
      BY <2>1
    <3>2. Get(s, q) = s.node[j].val
      BY <3>1, NodeFields
    <3>3. \A i \in 1..L : rev[i].key = q /\ rev[i].val /= nil => rev[i].val = Get(s, q)
      <4> TAKE i \in 1..L
      <4> HAVE rev[i].key = q /\ rev[i].val /= nil
      <4>1. PICK x \in 1..L : rev[i] = s.node[x]
        BY <1>13
      <4>2. Get(s, s.node[x].key) = s.node[x].val
        BY <4>1, NodeFields
      <4> QED
        BY <4>1, <4>2
    <3>4. \E i \in 1..L : rev[i].key = q /\ rev[i].val = Get(s, q)
      BY <1>14, <3>1, <3>2
    <3>5. Given(rev, L, q) = {Get(s, q)}
      <4> PICK x : x = Get(s, q)
        OBVIOUS
      <4>1. x /= nil /\ (\A i \in 1..L : rev[i].key = q /\ rev[i].val /= nil => rev[i].val = x)
            /\ \E i \in 1..L : rev[i].key = q /\ rev[i].val = x
        BY <3>1, <3>2, <3>3, <3>4
      <4>2. Given(rev, L, q) = {x}
        BY ONLY <4>1 DEF Given
      <4> QED
        BY <4>2
    <3>6. Given(rev, L, q) /= {} => Get(u, q) \in Given(rev, L, q)
      BY <1>15 DEF Filled
    <3> QED
      BY ONLY <3>5, <3>6
  <2>2. CASE ~\E j \in 1..L : s.node[j].key = q /\ s.node[j].val /= nil
    <3>0. \A i \in 1..L : rev[i].key = q => rev[i].val = nil
      <4> TAKE i \in 1..L
      <4>1. PICK x \in 1..L : rev[i] = s.node[x]
        BY <1>13
      <4> QED
        BY <2>2, <4>1
    <3>1. Given(rev, L, q) = {}
      BY ONLY <3>0 DEF Given
    <3>2. Get(u, q) = Get(w, q)
      BY <1>15, <3>1 DEF Filled
    <3>3. q \notin 1..la => Get(s, q) = nil
      <4> HAVE q \notin 1..la
      <4>1. ~InArray(s, q)
        BY DEF InArray
      <4>2. \A j \in 1..L : Live(s.node, j, q) => s.node[j].val = nil
        BY <2>2 DEF Live
      <4> QED
        BY <4>1, <4>2, GetIs
    <3> QED
      BY <1>6, <1>11, <3>2, <3>3
  <2> QED
    BY <2>1, <2>2
<1>17. /\ Good(u) /\ Fresh(u) /\ u.failed = s.failed /\ Len(u.array) = nasize /\ Len(u.node) = N
  BY <1>4, <1>10, <1>15 DEF Filled
<1> QED
  BY <1>1, <1>3, <1>15, <1>16, <1>17 DEF Resized
-----------------------------------------------------------------------------
(***************************************************************************)
(* Rehash.                                                                 *)
(***************************************************************************)

LEMMA TwotoMonotone ==
    ASSUME NEW n \in Nat
    PROVE  \A i \in 0..n : twoto[i] <= twoto[n]
<1> DEFINE T == {m \in 0..n : \A i \in 0..m : twoto[i] <= twoto[m]}
<1>0. \A i \in Nat : twoto[i] \in Nat /\ twoto[i + 1] = 2 * twoto[i]
  BY Twoto
<1>1. 0 \in T
  BY <1>0
<1>2. \A m \in 0..n : m \in T /\ m < n => m + 1 \in T
  <2> SUFFICES ASSUME NEW m \in 0..n, m \in T, m < n PROVE m + 1 \in T
    OBVIOUS
  <2>1. twoto[m + 1] = 2 * twoto[m] /\ twoto[m] \in Nat
    BY <1>0
  <2>2. \A i \in 0..(m + 1) : twoto[i] <= twoto[m + 1]
    <3> TAKE i \in 0..(m + 1)
    <3>1. CASE i = m + 1
      BY <2>1, <3>1
    <3>2. CASE i /= m + 1
      <4>1. twoto[i] <= twoto[m] /\ twoto[i] \in Nat
        BY <1>0, <3>2
      <4> QED
        BY <2>1, <4>1
    <3> QED
      BY <3>1, <3>2
  <2> QED
    BY <2>2
<1>3. 0..n \subseteq T
  <2> HIDE DEF T
  <2> QED
    BY <1>1, <1>2, Induction
<1> QED
  BY <1>3

LEMMA LargestBit ==
    ASSUME NEW k \in Nat, NEW s \in SUBSET (0..k), s /= {}
    PROVE  Max(s) \in s
<1> DEFINE T == {k - x : x \in s}
<1>1. T \subseteq Nat /\ T /= {}
  <2>1. \A x \in s : k - x \in Nat
    OBVIOUS
  <2> QED
    BY <2>1
<1>2. PICK m \in T : \A y \in T : m <= y
  <2> HIDE DEF T
  <2> QED
    BY <1>1, LeastNumber
<1>3. PICK x \in s : m = k - x
  BY <1>2
<1>4. \A y \in s : x >= y
  <2> TAKE y \in s
  <2>1. k - y \in T
    OBVIOUS
  <2>2. k - x <= k - y /\ x \in Nat /\ y \in Nat
    BY <1>2, <1>3, <2>1
  <2> QED
    BY <2>2
<1> QED
  BY <1>3, <1>4 DEF Max

\* What computesizes returns for these integer keys
Sized(keys, n, na) ==
    /\ n \in Nat /\ n <= twoto[MaxBits]
    /\ na = Cardinality(keys \cap (1..n)) /\ na \in Nat
    /\ n \div 2 <= na /\ na <= n

LEMMA ComputeSizesIs ==
    ASSUME NEW keys \in SUBSET (1..twoto[MaxBits])
    PROVE  Sized(keys, ComputeSizes(keys).n, ComputeSizes(keys).na)
<1> DEFINE below(i) == Cardinality({k \in keys : k <= twoto[i]})
           slice(i) == {k \in keys : CeilLog2(k) = i}
           fit == {i \in 0..MaxBits : slice(i) /= {} /\ 2 * below(i) > twoto[i]}
<1>0. MaxBits \in Nat /\ twoto[MaxBits] \in Nat
  BY TableAssumption, Twoto
<1>1. CASE fit = {}
  <2>1. ComputeSizes(keys).n = 0 /\ ComputeSizes(keys).na = 0
    BY <1>1 DEF ComputeSizes
  <2>2. keys \cap (1..0) = {}
    OBVIOUS
  <2>3. Cardinality(keys \cap (1..0)) = 0
    BY <2>2, FS_EmptySet
  <2> QED
    BY <1>0, <2>1, <2>3 DEF Sized
<1>2. CASE fit /= {}
  <2> PICK m : m = Max(fit)
    OBVIOUS
  <2>1. m \in fit
    <3>1. MaxBits \in Nat /\ fit \in SUBSET (0..MaxBits) /\ fit /= {}
      BY <1>0, <1>2
    <3> HIDE DEF fit
    <3>2. Max(fit) \in fit
      BY ONLY <3>1, LargestBit
    <3> QED
      BY <3>2
  <2> PICK n, S : n = twoto[m] /\ S = {k \in keys : k <= n}
    OBVIOUS
  <2>2. ComputeSizes(keys).n = n /\ ComputeSizes(keys).na = Cardinality(S)
    BY <1>2 DEF ComputeSizes
  <2>3. m \in 0..MaxBits /\ 2 * Cardinality(S) > n
    BY <2>1
  <2>4. n \in Nat /\ n <= twoto[MaxBits]
    BY <1>0, <2>3, Twoto, TwotoMonotone
  <2>5. S = keys \cap (1..n) /\ S \in SUBSET (1..n)
    <3>1. \A x \in keys : x \in Nat /\ 1 <= x
      BY <1>0
    <3>2. \A x \in keys : x <= n <=> x \in 1..n
      BY <2>4, <3>1
    <3>3. S = keys \cap (1..n)
      BY <3>2
    <3> QED
      BY <3>3
  <2>6. IsFiniteSet(1..n) /\ Cardinality(1..n) = n
    <3>1. 1 \in Int /\ n \in Int
      BY <2>4
    <3>2. IsFiniteSet(1..n) /\ Cardinality(1..n) = IF 1 > n THEN 0 ELSE n - 1 + 1
      BY ONLY <3>1, FS_Interval
    <3> QED
      BY <2>4, <3>2
  <2>7. IsFiniteSet(S) /\ Cardinality(S) <= n
    <3>1. IsFiniteSet(1..n) /\ S \in SUBSET (1..n)
      BY <2>5, <2>6
    <3>2. IsFiniteSet(S) /\ Cardinality(S) <= Cardinality(1..n)
      BY ONLY <3>1, FS_Subset
    <3> QED
      BY ONLY <2>6, <3>2
  <2> PICK na : na = Cardinality(S)
    OBVIOUS
  <2>8. na \in Nat
    BY <2>7, FS_CardinalityType
  <2>9. n \div 2 <= na /\ na <= n
    BY ONLY <2>3, <2>4, <2>7, <2>8, na = Cardinality(S)
  <2> QED
    BY <2>2, <2>4, <2>5, <2>8, <2>9 DEF Sized
<1> QED
  BY <1>1, <1>2

\* The keys that have a value
Fields(s) == {q \in Key : Get(s, q) /= nil}

LEMMA CountFields ==
    ASSUME NEW s, Good(s)
    PROVE  /\ Fields(s) = UsedArray(s) \cup {s.node[i].key : i \in UsedNodes(s)}
           /\ IsFiniteSet(Fields(s))
           /\ Cardinality(UsedArray(s)) \in Nat /\ Cardinality(UsedNodes(s)) \in Nat
           /\ Cardinality(Fields(s)) <= Cardinality(UsedArray(s)) + Cardinality(UsedNodes(s))
<1> PICK la, L, A, N : la = Len(s.array) /\ L = Len(s.node) /\ A = UsedArray(s) /\ N = UsedNodes(s)
  OBVIOUS
<1> DEFINE K == {s.node[i].key : i \in N}
           f == [i \in N |-> s.node[i].key]
<1>1. la \in Nat /\ L \in Nat /\ s.array \in Seq(Value \cup {nil}) /\ s.node \in Seq(NodeRec)
  BY GoodParts
<1>2. A \in SUBSET (1..la) /\ A = {i \in 1..la : s.array[i] /= nil}
      /\ N \in SUBSET (1..L) /\ N = {i \in 1..L : s.node[i].val /= nil}
  BY <1>1 DEF UsedArray, UsedNodes
<1>3. Fields(s) = A \cup K
  <2>1. ASSUME NEW q \in Fields(s) PROVE q \in A \cup K
    <3>0. q \in Key /\ Get(s, q) /= nil
      BY <2>1 DEF Fields
    <3>1. CASE InArray(s, q)
      <4>1. Get(s, q) = s.array[q]
        BY <3>0, <3>1, GetIs
      <4> QED
        BY <1>2, <3>0, <3>1, <4>1 DEF InArray
    <3>2. CASE ~InArray(s, q)
      <4>1. /\ \A i \in 1..L : Live(s.node, i, q) => Get(s, q) = s.node[i].val
            /\ (\A i \in 1..L : ~Live(s.node, i, q)) => Get(s, q) = nil
        BY <3>0, <3>2, GetIs
      <4>2. PICK i \in 1..L : Live(s.node, i, q) /\ s.node[i].val /= nil
        BY <3>0, <4>1
      <4>3. i \in N /\ s.node[i].key = q
        BY <1>2, <4>2 DEF Live
      <4> QED
        BY <4>3
    <3> QED
      BY <3>1, <3>2
  <2>2. ASSUME NEW i \in A PROVE i \in Fields(s)
    <3>1. i \in Key /\ i \in 1..la /\ s.array[i] /= nil
      BY <1>2 DEF Good, Parts
    <3>2. Get(s, i) = s.array[i]
      BY <3>1, GetIs DEF InArray
    <3> QED
      BY <3>1, <3>2 DEF Fields
  <2>3. ASSUME NEW i \in N PROVE s.node[i].key \in Fields(s)
    <3>1. i \in 1..L /\ s.node[i].val /= nil
      BY <1>2
    <3>2. s.node[i].key \in Key /\ Get(s, s.node[i].key) = s.node[i].val
      BY <3>1, NodeFields
    <3> QED
      BY <3>1, <3>2 DEF Fields
  <2> QED
    BY <2>1, <2>2, <2>3
<1>4. IsFiniteSet(1..la) /\ IsFiniteSet(1..L)
  <2>1. 1 \in Int /\ la \in Int /\ L \in Int
    BY <1>1
  <2> QED
    BY ONLY <2>1, FS_Interval
<1>5. IsFiniteSet(A) /\ IsFiniteSet(N) /\ Cardinality(A) \in Nat /\ Cardinality(N) \in Nat
  BY <1>2, <1>4, FS_Subset, FS_CardinalityType
<1>6. f \in Surjection(N, K)
  BY DEF Surjection
<1>7. IsFiniteSet(K) /\ Cardinality(K) <= Cardinality(N)
  <2> HIDE DEF f, K
  <2> QED
    BY ONLY <1>5, <1>6, FS_Surjection
<1> HIDE DEF K
<1>8. /\ IsFiniteSet(A \cup K) /\ Cardinality(K) \in Nat /\ Cardinality(A \cap K) \in Nat
      /\ Cardinality(A \cup K) = Cardinality(A) + Cardinality(K) - Cardinality(A \cap K)
  <2>1. IsFiniteSet(A \cap K)
    <3>1. A \cap K \in SUBSET A
      OBVIOUS
    <3> QED
      BY <1>5, <3>1, FS_Subset
  <2> QED
    BY <1>5, <1>7, <2>1, FS_Union, FS_CardinalityType
<1>9. Cardinality(A \cup K) <= Cardinality(A) + Cardinality(N)
  BY ONLY <1>5, <1>7, <1>8
<1> QED
  BY <1>3, <1>5, <1>8, <1>9 DEF K

LEMMA RehashIs ==
    ASSUME NEW s, Good(s), NEW k \in Key, Get(s, k) = nil
    PROVE  \E n, m \in Nat : \E T : /\ Resized(s, Rehash(s, k), n, m, T)
                                    /\ IsFiniteSet(T) /\ Cardinality(T) <= m
                                    /\ k \in T \cup (1..n)
<1> PICK keys, n, na, total :
        /\ keys = ArrayKeys(s, k) /\ n = ComputeSizes(keys).n /\ na = ComputeSizes(keys).na
        /\ total = Cardinality(UsedArray(s)) + Cardinality(UsedNodes(s)) + 1
  OBVIOUS
<1> PICK F, b : F = Fields(s) /\ b = twoto[MaxBits]
  OBVIOUS
<1> DEFINE G == F \cup {k}
           T == G \ (1..n)
<1>1. /\ F = UsedArray(s) \cup {s.node[i].key : i \in UsedNodes(s)} /\ IsFiniteSet(F)
      /\ Cardinality(F) + 1 <= total /\ total \in Nat
  <2>1. /\ F = UsedArray(s) \cup {s.node[i].key : i \in UsedNodes(s)} /\ IsFiniteSet(F)
        /\ Cardinality(UsedArray(s)) \in Nat /\ Cardinality(UsedNodes(s)) \in Nat
        /\ Cardinality(F) <= Cardinality(UsedArray(s)) + Cardinality(UsedNodes(s))
    BY CountFields
  <2>2. Cardinality(F) \in Nat
    BY <2>1, FS_CardinalityType
  <2> QED
    BY <2>1, <2>2
<1>2. k \notin F
  BY DEF Fields
<1>3. keys = G \cap (1..b) /\ keys \in SUBSET (1..b)
  BY <1>1 DEF ArrayKeys
<1>4. /\ n \in Nat /\ n <= b /\ na = Cardinality(keys \cap (1..n)) /\ na \in Nat
      /\ n \div 2 <= na /\ na <= n
  <2>1. keys \in SUBSET (1..twoto[MaxBits])
    BY <1>3
  <2>2. Sized(keys, ComputeSizes(keys).n, ComputeSizes(keys).na)
    BY ONLY <2>1, ComputeSizesIs
  <2> QED
    BY <2>2 DEF Sized
<1>5. b \in Nat
  BY TableAssumption, Twoto
<1>6. keys \cap (1..n) = G \cap (1..n)
  BY <1>3, <1>4, <1>5
<1>7. IsFiniteSet(G) /\ Cardinality(G) = Cardinality(F) + 1 /\ Cardinality(F) \in Nat
  BY <1>1, <1>2, FS_AddElement, FS_CardinalityType
<1> HIDE DEF G
<1>8. IsFiniteSet(T) /\ Cardinality(T) \in Nat /\ Cardinality(G) = Cardinality(T) + na
  <2>1. T \in SUBSET G /\ G \cap (1..n) \in SUBSET G
    OBVIOUS
  <2>2. IsFiniteSet(T) /\ IsFiniteSet(G \cap (1..n)) /\ Cardinality(T) \in Nat
    BY <1>7, <2>1, FS_Subset, FS_CardinalityType
  <2>3. T \cup (G \cap (1..n)) = G /\ T \cap (G \cap (1..n)) = {}
    OBVIOUS
  <2> PICK R : R = G \cap (1..n)
    OBVIOUS
  <2> HIDE DEF T
  <2>4. Cardinality(T \cup R) = Cardinality(T) + Cardinality(R) - Cardinality(T \cap R)
    BY <2>2, FS_Union
  <2>5. Cardinality(T \cap R) = 0
    BY <2>3, FS_EmptySet
  <2>6. Cardinality(R) = na /\ T \cup R = G
    BY <1>4, <1>6, <2>3
  <2>7. Cardinality(T \cup R) = Cardinality(G)
    BY ONLY <2>6
  <2>8. Cardinality(T) \in Nat /\ na \in Nat
    BY <1>4, <2>2
  <2>9. Cardinality(G) = Cardinality(T) + na
    BY ONLY <2>4, <2>5, <2>6, <2>7, <2>8
  <2> QED
    BY <2>2, <2>9
<1>9. total - na \in Nat /\ Cardinality(T) <= total - na
  <2> HIDE DEF T
  <2> QED
    BY <1>1, <1>4, <1>7, <1>8
<1>10. Rehash(s, k) = Resize(s, n, total - na)
  <2>1. Rehash(s, k) = Resize(LuaAssert(s, n \div 2 <= na /\ na <= n), n, total - na)
    BY DEF Rehash
  <2>2. LuaAssert(s, n \div 2 <= na /\ na <= n) = s
    BY <1>4 DEF LuaAssert
  <2> QED
    BY <2>1, <2>2
<1>11. Hashed(s, n, T)
  <2>1. \A q \in Key : Get(s, q) /= nil /\ q \notin 1..n => q \in T
    BY DEF Fields, G
  <2> HIDE DEF T
  <2> QED
    BY <1>8, <2>1 DEF Hashed
<1>12. k \in T \cup (1..n)
  BY DEF G
<1> HIDE DEF T
<1> PICK m : m = total - na
  OBVIOUS
<1>13. Resized(s, Resize(s, n, m), n, m, T)
  <2>1. Good(s) /\ n \in Nat /\ m \in Nat /\ Hashed(s, n, T) /\ Cardinality(T) <= m
    BY <1>4, <1>9, <1>11
  <2> QED
    BY ONLY <2>1, ResizeIs
<1>14. n \in Nat /\ m \in Nat /\ IsFiniteSet(T) /\ Cardinality(T) <= m
       /\ Resized(s, Rehash(s, k), n, m, T)
  BY <1>4, <1>8, <1>9, <1>10, <1>13
<1> QED
  BY <1>12, <1>14

\* luaH_set stores the value, whatever it takes.
Assigned(s, u, k, v) ==
    /\ Good(u) /\ u.failed = s.failed
    /\ \A q \in Key : Get(u, q) = IF q = k THEN v ELSE Get(s, q)

LEMMA SetFieldIs ==
    ASSUME NEW s, Good(s), NEW k \in Key, NEW v \in Value \cup {nil}
    PROVE  Assigned(s, SetField(s, k, v), k, v)
<1>1. CASE ~InArray(s, k) /\ Find(s, k) = 0 /\ Occupied(s, k) /\ FreePos(s) = 0
  <2>1. Get(s, k) = nil
    BY <1>1 DEF Get
  <2> PICK r : r = Rehash(s, k)
    OBVIOUS
  <2>2. PICK n \in Nat, m \in Nat : \E T : /\ Resized(s, r, n, m, T)
                                           /\ IsFiniteSet(T) /\ Cardinality(T) <= m
                                           /\ k \in T \cup (1..n)
    BY <2>1, RehashIs
  <2>3. PICK T : /\ Resized(s, r, n, m, T)
                 /\ IsFiniteSet(T) /\ Cardinality(T) <= m
                 /\ k \in T \cup (1..n)
    BY <2>2
  <2>4. /\ Good(r) /\ Fresh(r) /\ IsFiniteSet(T) /\ Keys(r) \subseteq T
        /\ Cardinality(T) <= Len(r.node)
        /\ k \in Key /\ (k \in T \/ k \in 1..Len(r.array))
    <3>1. Good(r) /\ Fresh(r) /\ Keys(r) \subseteq T /\ Len(r.node) >= m /\ Len(r.array) = n
      BY <2>3 DEF Resized
    <3>2. Cardinality(T) \in Nat /\ Len(r.node) \in Nat
      BY <2>3, <3>1, FS_CardinalityType, GoodParts
    <3>3. Cardinality(T) <= Len(r.node)
      BY <2>3, <3>1, <3>2
    <3> QED
      BY <2>3, <3>1, <3>3
  <2>5. Room(r, k)
    BY ONLY <2>4, RoomIs
  <2>6. Stored(r, Put(r, k, v), k, v)
    BY <2>4, <2>5, PutIs
  <2>7. SetField(s, k, v) = Put(r, k, v)
    BY <1>1 DEF SetField
  <2>8. r.failed = s.failed /\ \A q \in Key : Get(r, q) = Get(s, q)
    BY <2>3 DEF Resized
  <2> QED
    BY <2>6, <2>7, <2>8 DEF Stored, Assigned
<1>2. CASE ~(~InArray(s, k) /\ Find(s, k) = 0 /\ Occupied(s, k) /\ FreePos(s) = 0)
  <2>1. Room(s, k)
    BY <1>2 DEF Room
  <2>2. Stored(s, Put(s, k, v), k, v)
    BY <2>1, PutIs
  <2>3. SetField(s, k, v) = Put(s, k, v)
    BY <1>2 DEF SetField
  <2> QED
    BY <2>2, <2>3 DEF Stored, Assigned
<1> QED
  BY <1>1, <1>2
-----------------------------------------------------------------------------
(***************************************************************************)
(* The length operator.                                                    *)
(***************************************************************************)

\* The half of the pair x where the binary search goes on
Half(s, x) ==
    LET m == (x[1] + x[2]) \div 2
    IN  IF GetNum(s, m) = nil THEN <<x[1], m>> ELSE <<m, x[2]>>

Halve(s, f, x) == IF x[2] - x[1] <= 1 THEN x[1] ELSE f[Half(s, x)]

LEMMA HalfIs ==
    ASSUME NEW s, NEW j \in Nat, NEW a \in 0..j, NEW b \in 0..j, b - a > 1
    PROVE  \E m \in 0..j : /\ a < m /\ m < b
                          /\ \/ GetNum(s, m) = nil /\ Half(s, <<a, b>>) = <<a, m>>
                             \/ GetNum(s, m) /= nil /\ Half(s, <<a, b>>) = <<m, b>>
<1> PICK m : m = (a + b) \div 2
  OBVIOUS
<1>1. m \in 0..j /\ a < m /\ m < b
  OBVIOUS
<1>2. Half(s, <<a, b>>) = IF GetNum(s, m) = nil THEN <<a, m>> ELSE <<m, b>>
  BY DEF Half
<1> QED
  BY <1>1, <1>2

\* f is the binary search for the pairs at most n apart.
Searches(s, f, j, n) ==
    \A a, b \in 0..j : b - a <= n => f[<<a, b>>] = Halve(s, f, <<a, b>>)

Agree(f, g, j, n) == \A a, b \in 0..j : b - a <= n => g[<<a, b>>] = f[<<a, b>>]

\* The search goes on where f and g agree.
LEMMA HalveSame ==
    ASSUME NEW s, NEW j \in Nat, NEW n \in Nat, NEW f, NEW g, Agree(f, g, j, n),
           NEW a \in 0..j, NEW b \in 0..j, b - a <= n + 1
    PROVE  Halve(s, g, <<a, b>>) = Halve(s, f, <<a, b>>)
<1>1. CASE b - a <= 1
  BY <1>1 DEF Halve
<1>2. CASE b - a > 1
  <2>1. PICK m \in 0..j : /\ a < m /\ m < b
                          /\ \/ GetNum(s, m) = nil /\ Half(s, <<a, b>>) = <<a, m>>
                             \/ GetNum(s, m) /= nil /\ Half(s, <<a, b>>) = <<m, b>>
    BY <1>2, HalfIs
  <2>2. m - a <= n /\ b - m <= n
    BY <2>1
  <2>3. g[<<a, m>>] = f[<<a, m>>] /\ g[<<m, b>>] = f[<<m, b>>]
    BY <2>2 DEF Agree
  <2>4. g[Half(s, <<a, b>>)] = f[Half(s, <<a, b>>)]
    BY <2>1, <2>3
  <2> QED
    BY <1>2, <2>4 DEF Halve
<1> QED
  BY <1>1, <1>2

LEMMA SearchExists ==
    ASSUME NEW s, NEW j \in Nat, NEW n \in Nat
    PROVE  \E f : Searches(s, f, j, n)
<1> DEFINE T == {i \in 0..n : \E f : Searches(s, f, j, i)}
<1>1. 0 \in T
  <2> DEFINE f == [x \in (0..j) \X (0..j) |-> x[1]]
  <2>1. \A a, b \in 0..j : f[<<a, b>>] = a
    OBVIOUS
  <2> HIDE DEF f
  <2>2. Searches(s, f, j, 0)
    BY <2>1 DEF Searches, Halve
  <2> QED
    BY <2>2
<1>2. \A i \in 0..n : i \in T /\ i < n => i + 1 \in T
  <2> SUFFICES ASSUME NEW i \in 0..n, i \in T, i < n PROVE i + 1 \in T
    OBVIOUS
  <2> PICK f : Searches(s, f, j, i)
    OBVIOUS
  <2> DEFINE g == [x \in (0..j) \X (0..j) |-> Halve(s, f, x)]
  <2>1. \A a, b \in 0..j : g[<<a, b>>] = Halve(s, f, <<a, b>>)
    OBVIOUS
  <2> HIDE DEF g
  <2>2. \A a, b \in 0..j : b - a <= i => g[<<a, b>>] = f[<<a, b>>]
    BY <2>1 DEF Searches
  <2>3. i \in Nat
    OBVIOUS
  <2>4. \A a, b \in 0..j : b - a <= i + 1 => Halve(s, g, <<a, b>>) = Halve(s, f, <<a, b>>)
    <3> TAKE a \in 0..j, b \in 0..j
    <3> HAVE b - a <= i + 1
    <3>1. /\ j \in Nat /\ i \in Nat /\ a \in 0..j /\ b \in 0..j /\ b - a <= i + 1
          /\ Agree(f, g, j, i)
      BY <2>2, <2>3 DEF Agree
    <3> QED
      BY ONLY <3>1, HalveSame
  <2>5. Searches(s, g, j, i + 1)
    BY <2>1, <2>4 DEF Searches
  <2> QED
    BY <2>5
<1>3. 0..n \subseteq T
  <2> HIDE DEF T
  <2> QED
    BY <1>1, <1>2, Induction
<1> QED
  BY <1>3

\* n is a border of the sequence in s.
Border(s, n) == n \in Nat /\ (n = 0 \/ GetNum(s, n) /= nil) /\ GetNum(s, n + 1) = nil

LEMMA SearchIs ==
    ASSUME NEW s, NEW i \in Nat, NEW j \in Nat, i < j,
           i = 0 \/ GetNum(s, i) /= nil, GetNum(s, j) = nil
    PROVE  Border(s, Search(s, i, j))
<1> DEFINE P == (0..j) \X (0..j)
           g == CHOOSE h : h = [x \in P |-> Halve(s, h, x)]
<1>1. Search(s, i, j) = g[<<i, j>>]
  BY DEF Search, Halve, Half
<1> HIDE DEF g
<1>2. \E h : h = [x \in P |-> Halve(s, h, x)]
  <2>1. PICK f : Searches(s, f, j, j)
    BY SearchExists
  <2> DEFINE h == [x \in P |-> Halve(s, f, x)]
  <2>2. \A a, b \in 0..j : h[<<a, b>>] = Halve(s, f, <<a, b>>)
    OBVIOUS
  <2> HIDE DEF h
  <2>3. \A a, b \in 0..j : b - a <= j => h[<<a, b>>] = f[<<a, b>>]
    BY <2>1, <2>2 DEF Searches
  <2>4. \A a, b \in 0..j : Halve(s, h, <<a, b>>) = Halve(s, f, <<a, b>>)
    <3> TAKE a \in 0..j, b \in 0..j
    <3>1. b - a <= j + 1 /\ Agree(f, h, j, j)
      BY <2>3 DEF Agree
    <3> QED
      BY <3>1, HalveSame
  <2>5. \A x \in P : Halve(s, f, x) = Halve(s, h, x)
    <3> TAKE x \in P
    <3>1. PICK a \in 0..j, b \in 0..j : x = <<a, b>>
      OBVIOUS
    <3> QED
      BY <2>4, <3>1
  <2>6. [x \in P |-> Halve(s, f, x)] = [x \in P |-> Halve(s, h, x)]
    BY <2>5
  <2>7. h = [x \in P |-> Halve(s, h, x)]
    BY <2>6 DEF h
  <2> QED
    BY <2>7
<1>3. g = [x \in P |-> Halve(s, g, x)]
  BY <1>2 DEF g
<1>4. \A a, b \in 0..j : g[<<a, b>>] = Halve(s, g, <<a, b>>)
  <2> DEFINE e == [x \in P |-> Halve(s, g, x)]
  <2>1. \A a, b \in 0..j : e[<<a, b>>] = Halve(s, g, <<a, b>>)
    OBVIOUS
  <2>2. g = e
    BY <1>3
  <2> HIDE DEF e
  <2> QED
    BY ONLY <2>1, <2>2
<1> DEFINE In(a, b) == a < b /\ (a = 0 \/ GetNum(s, a) /= nil) /\ GetNum(s, b) = nil
           D == {n \in 0..j : \A a, b \in 0..j : b - a <= n + 1 /\ In(a, b) => Border(s, g[<<a, b>>])}
<1>5. \A a, b \in 0..j : b - a <= 1 /\ In(a, b) => Border(s, g[<<a, b>>])
  <2> TAKE a \in 0..j, b \in 0..j
  <2> HAVE b - a <= 1 /\ In(a, b)
  <2>1. b = a + 1 /\ a \in Nat
    OBVIOUS
  <2>2. g[<<a, b>>] = a
    BY <1>4 DEF Halve
  <2> QED
    BY <2>1, <2>2 DEF Border
<1>6. 0 \in D
  BY <1>5
<1>7. \A n \in 0..j : n \in D /\ n < j => n + 1 \in D
  <2> SUFFICES ASSUME NEW n \in 0..j, n \in D, n < j,
                      NEW a \in 0..j, NEW b \in 0..j, b - a <= n + 2, In(a, b)
               PROVE  Border(s, g[<<a, b>>])
    OBVIOUS
  <2>1. CASE b - a <= 1
    BY <1>5, <2>1
  <2>2. CASE b - a > 1
    <3>1. PICK m \in 0..j : /\ a < m /\ m < b
                            /\ \/ GetNum(s, m) = nil /\ Half(s, <<a, b>>) = <<a, m>>
                               \/ GetNum(s, m) /= nil /\ Half(s, <<a, b>>) = <<m, b>>
      BY <2>2, HalfIs
    <3>2. m - a <= n + 1 /\ b - m <= n + 1
      BY <3>1
    <3>3. g[<<a, b>>] = g[Half(s, <<a, b>>)]
      BY <1>4, <2>2 DEF Halve
    <3>4. CASE GetNum(s, m) = nil
      <4>1. In(a, m) /\ Half(s, <<a, b>>) = <<a, m>>
        BY <3>1, <3>4
      <4>2. Border(s, g[<<a, m>>])
        BY <3>2, <4>1
      <4> QED
        BY <3>3, <4>1, <4>2
    <3>5. CASE GetNum(s, m) /= nil
      <4>1. In(m, b) /\ Half(s, <<a, b>>) = <<m, b>>
        BY <3>1, <3>5
      <4>2. Border(s, g[<<m, b>>])
        BY <3>2, <4>1
      <4> QED
        BY <3>3, <4>1, <4>2
    <3> QED
      BY <3>4, <3>5
  <2> QED
    BY <2>1, <2>2
<1>8. 0..j \subseteq D
  <2> HIDE DEF D
  <2> QED
    BY <1>6, <1>7, Induction
<1>9. j \in D /\ i \in 0..j /\ j \in 0..j /\ j - i <= j + 1
  BY <1>8
<1> QED
  BY <1>1, <1>9

LEMMA GetNumAbove ==
    ASSUME NEW s, NEW i \in Nat, i > MaxKey
    PROVE  GetNum(s, i) = nil
<1>1. i \notin Key
  BY TableAssumption DEF Key
<1> QED
  BY <1>1 DEF GetNum

LEMMA LinearIs ==
    ASSUME NEW s
    PROVE  Border(s, Linear(s))
<1>0. MaxKey \in Nat
  BY TableAssumption
<1> DEFINE T == {n \in Nat : GetNum(s, n + 1) = nil}
<1>1. MaxKey \in T
  <2>1. MaxKey + 1 \in Nat /\ MaxKey + 1 > MaxKey
    BY <1>0
  <2> QED
    BY <1>0, <2>1, GetNumAbove
<1>2. PICK n \in T : \A k \in T : n <= k
  <2>1. T \subseteq Nat /\ T /= {}
    BY <1>1
  <2> HIDE DEF T
  <2> QED
    BY <2>1, LeastNumber
<1>3. n \in 0..MaxKey /\ GetNum(s, n + 1) = nil
  BY <1>0, <1>1, <1>2
<1>4. \A m \in 1..n : GetNum(s, m) /= nil
  <2> SUFFICES ASSUME NEW m \in 1..n, GetNum(s, m) = nil PROVE FALSE
    OBVIOUS
  <2>1. m - 1 \in Nat /\ (m - 1) + 1 = m
    OBVIOUS
  <2>2. m - 1 \in T
    BY <2>1
  <2> HIDE DEF T
  <2> QED
    BY <1>2, <1>3, <2>2
<1> DEFINE l == Linear(s)
<1>5. l \in 0..MaxKey /\ GetNum(s, l + 1) = nil /\ \A m \in 1..l : GetNum(s, m) /= nil
  BY <1>3, <1>4 DEF Linear
<1> HIDE DEF l
<1>6. l \in Nat /\ (l = 0 \/ l \in 1..l)
  BY <1>0, <1>5
<1>7. Border(s, l)
  BY <1>5, <1>6 DEF Border
<1> QED
  BY <1>7 DEF l

LEMMA LeastIndex ==
    ASSUME NEW T, T \subseteq Nat, T /= {}
    PROVE  Min(T) \in T /\ \A k \in T : Min(T) <= k
<1>1. PICK m \in T : \A k \in T : m <= k
  BY LeastNumber
<1> QED
  BY <1>1 DEF Min

LEMMA Doubled ==
    ASSUME NEW first \in Nat, NEW x \in Nat
    PROVE  /\ (first + 1) * x \in Nat /\ (first + 1) * x >= x
           /\ (first + 1) * (2 * x) = 2 * ((first + 1) * x)
<1>1. (first + 1) * x = first * x + x
  OBVIOUS
<1>2. first * x \in Nat
  OBVIOUS
<1>3. (first + 1) * (2 * x) = 2 * ((first + 1) * x)
  OBVIOUS
<1> QED
  BY <1>1, <1>2, <1>3

LEMMA UnboundSearchIs ==
    ASSUME NEW s, NEW first \in Nat, first = 0 \/ GetNum(s, first) /= nil
    PROVE  Border(s, UnboundSearch(s, first))
<1> DEFINE double(e) == (first + 1) * twoto[e]
           large == {e \in 1..MaxKey : double(e) > MaxInt}
           T == {e \in 0..MaxKey : GetNum(s, double(e)) = nil} \cup large
           stop == Min(T)
<1>0. MaxKey \in Nat /\ \A e \in Nat : twoto[e] \in Nat /\ twoto[e] >= e + 1 /\ twoto[e + 1] = 2 * twoto[e]
  BY TableAssumption, Twoto, TwotoGrows
<1>1. ASSUME NEW e \in Nat
      PROVE  double(e) \in Nat /\ double(e) >= e + 1 /\ double(e + 1) = 2 * double(e)
  <2> PICK x : x = twoto[e]
    OBVIOUS
  <2>1. x \in Nat /\ x >= e + 1 /\ twoto[e + 1] = 2 * x
    BY <1>0
  <2>2. /\ (first + 1) * x \in Nat /\ (first + 1) * x >= x
        /\ (first + 1) * (2 * x) = 2 * ((first + 1) * x)
    BY <2>1, Doubled
  <2> PICK y : y = (first + 1) * x
    OBVIOUS
  <2>3. double(e) = y /\ double(e + 1) = 2 * y
    BY <2>1, <2>2
  <2>4. y \in Nat /\ y >= e + 1
    BY ONLY <2>1, <2>2, e \in Nat, y = (first + 1) * x
  <2> HIDE DEF double
  <2> QED
    BY <2>3, <2>4
<1>2. double(0) = first + 1
  BY Twoto
<1> HIDE DEF double
<1>3. stop \in T /\ \A e \in T : stop <= e
  <2>1. MaxKey \in T
    <3>1. double(MaxKey) \in Nat /\ double(MaxKey) > MaxKey
      BY <1>0, <1>1
    <3>2. GetNum(s, double(MaxKey)) = nil
      BY <3>1, GetNumAbove
    <3> QED
      BY <1>0, <3>2
  <2>2. T \subseteq Nat /\ T /= {}
    BY <1>0, <2>1
  <2> HIDE DEF T
  <2> QED
    BY <2>2, LeastIndex
<1>4. UnboundSearch(s, first) =
         IF stop \in large THEN Linear(s)
         ELSE Search(s, IF stop = 0 THEN first ELSE double(stop - 1), double(stop))
  BY DEF UnboundSearch, double
<1> HIDE DEF stop
<1>5. CASE stop \in large
  BY <1>4, <1>5, LinearIs
<1>6. CASE stop \notin large
  <2>1. stop \in 0..MaxKey /\ GetNum(s, double(stop)) = nil
    BY <1>3, <1>6
  <2>2. stop \in Nat /\ double(stop) \in Nat
    BY <1>0, <1>1, <2>1
  <2>3. CASE stop = 0
    <3>1. UnboundSearch(s, first) = Search(s, first, first + 1)
      BY <1>2, <1>4, <1>6, <2>3
    <3>2. GetNum(s, first + 1) = nil
      BY <1>2, <2>1, <2>3
    <3>3. first + 1 \in Nat /\ first < first + 1
      OBVIOUS
    <3>4. Border(s, Search(s, first, first + 1))
      BY <3>2, <3>3, SearchIs
    <3> QED
      BY <3>1, <3>4
  <2>4. CASE stop /= 0
    <3> PICK e : e = stop - 1
      OBVIOUS
    <3>1. e \in Nat /\ e \in 0..MaxKey /\ e + 1 = stop /\ ~(stop <= e)
      BY <1>0, <2>1, <2>2, <2>4
    <3>2. GetNum(s, double(e)) /= nil
      BY <1>3, <3>1
    <3>3. double(e) \in Nat /\ double(e) < double(stop)
      <4>1. double(e) \in Nat /\ double(e) >= e + 1 /\ double(e + 1) = 2 * double(e)
        BY <1>1, <3>1
      <4> QED
        BY <3>1, <4>1
    <3>4. UnboundSearch(s, first) = Search(s, double(e), double(stop))
      BY <1>4, <1>6, <2>4
    <3>5. Border(s, Search(s, double(e), double(stop)))
      BY <2>1, <2>2, <3>2, <3>3, SearchIs
    <3> QED
      BY <3>4, <3>5
  <2> QED
    BY <2>3, <2>4
<1> QED
  BY <1>5, <1>6

\* luaH_getn finds a border of any table.
LEMMA GetNIs ==
    ASSUME NEW s, Good(s)
    PROVE  Border(s, GetN(s))
<1> PICK j : j = Len(s.array)
  OBVIOUS
<1>1. j \in Nat /\ s.array \in Seq(Value \cup {nil})
  BY GoodParts
<1>2. CASE j > 0 /\ s.array[j] = nil
  <2>1. GetNum(s, j) = nil
    <3>1. InArray(s, j)
      BY <1>1, <1>2 DEF InArray
    <3> QED
      BY <1>2, <3>1 DEF GetNum, Get
  <2>2. GetN(s) = Search(s, 0, j)
    BY <1>2 DEF GetN
  <2>3. 0 \in Nat /\ j \in Nat /\ 0 < j /\ (0 = 0 \/ GetNum(s, 0) /= nil)
    BY <1>1, <1>2
  <2>4. Border(s, Search(s, 0, j))
    BY <2>1, <2>3, SearchIs
  <2> QED
    BY <2>2, <2>4
<1>3. CASE ~(j > 0 /\ s.array[j] = nil)
  <2>1. j = 0 \/ GetNum(s, j) /= nil
    <3> SUFFICES ASSUME j /= 0 PROVE GetNum(s, j) /= nil
      OBVIOUS
    <3>1. j \in 1..Len(s.array) /\ s.array[j] /= nil
      BY <1>1, <1>3
    <3>2. j \in Key /\ InArray(s, j)
      BY <3>1 DEF Good, Parts, InArray
    <3> QED
      BY <3>1, <3>2 DEF GetNum, Get
  <2>2. CASE s.node = <<>>
    <3>1. GetN(s) = j
      BY <1>3, <2>2 DEF GetN
    <3>2. GetNum(s, j + 1) = nil
      <4>1. ~InArray(s, j + 1)
        BY <1>1 DEF InArray
      <4>2. Find(s, j + 1) = 0
        BY <2>2 DEF Find, Walk
      <4> QED
        BY <4>1, <4>2 DEF GetNum, Get
    <3> QED
      BY <1>1, <2>1, <3>1, <3>2 DEF Border
  <2>3. CASE s.node /= <<>>
    <3>1. GetN(s) = UnboundSearch(s, j)
      BY <1>3, <2>3 DEF GetN
    <3>2. Border(s, UnboundSearch(s, j))
      BY <1>1, <2>1, UnboundSearchIs
    <3> QED
      BY <3>1, <3>2
  <2> QED
    BY <2>2, <2>3
<1> QED
  BY <1>2, <1>3
-----------------------------------------------------------------------------
(***************************************************************************)
(* Traversal.                                                              *)
(***************************************************************************)

\* The nodes with key q, dead or alive
Named(s, q) == {i \in DOMAIN s.node : s.node[i].key = q}

LEMMA FindIndexIs ==
    ASSUME NEW s, NEW q
    PROVE  /\ q = nil => FindIndex(s, q) = 0
           /\ q /= nil /\ InArray(s, q) => FindIndex(s, q) = q
           /\ q /= nil /\ ~InArray(s, q) =>
                 FindIndex(s, q) = IF Walk(s, q, Named(s, q)) = 0 THEN -1
                                   ELSE Len(s.array) + Walk(s, q, Named(s, q))
  BY DEF FindIndex, Named

LEMMA FieldAtIs ==
    ASSUME NEW s, NEW i
    PROVE  /\ i <= Len(s.array) => FieldAt(s, i).key = i /\ FieldAt(s, i).val = s.array[i]
           /\ ~(i <= Len(s.array)) =>
                 /\ FieldAt(s, i).key = s.node[i - Len(s.array)].key
                 /\ FieldAt(s, i).val = s.node[i - Len(s.array)].val
  BY DEF FieldAt

LEMMA WalkLive ==
    ASSUME NEW s, Good(s), NEW q \in Key, NEW i \in 1..Len(s.node), Live(s.node, i, q)
    PROVE  Walk(s, q, Named(s, q)) = i
<1> PICK L, S, w : L = Len(s.node) /\ S = Named(s, q) /\ w = Walk(s, q, S)
  OBVIOUS
<1>1. s.node \in Seq(NodeRec) /\ L \in Nat \ {0}
  BY GoodParts
<1>2. PICK c, p : Shape(L, s.node, c, p)
  BY DEF Good, Shaped
<1>3. S \in SUBSET (1..L) /\ (\A x \in S : s.node[x].key = q) /\ i \in S
  BY <1>1 DEF Named, Live
<1>4. w \in S /\ p[i] <= p[w]
  <2>1. /\ L \in Nat \ {0} /\ s.node \in Seq(NodeRec) /\ Len(s.node) = L /\ Shape(L, s.node, c, p)
        /\ q \in Key /\ S \in SUBSET (1..L) /\ \A x \in S : s.node[x].key = q
    BY <1>1, <1>2, <1>3
  <2>2. (S /= {} => Walk(s, q, S) \in S) /\ \A x \in S : p[x] <= p[Walk(s, q, S)]
    BY ONLY <2>1, KeyPassed
  <2> QED
    BY <1>3, <2>2
<1>5. w \in 1..L /\ s.node[w].key = q /\ s.node[i].key = q /\ q /= nil /\ ~s.node[i].dead
  BY <1>3, <1>4, TableAssumption DEF Live
<1>6. p[w] <= p[i]
  BY <1>2, <1>5 DEF Shape, DeadBehind
<1>7. c[w] = c[i]
  <2>1. c[Main(L, q)] = c[w] /\ c[Main(L, q)] = c[i]
    BY <1>2, <1>5 DEF Shape, Home
  <2> QED
    BY <2>1
<1>8. p[w] \in Nat /\ p[i] \in Nat /\ \A x, y \in 1..L : c[x] = c[y] /\ p[x] = p[y] => x = y
  BY <1>2, <1>5 DEF Shape, Linked
<1>9. w = i
  BY <1>4, <1>5, <1>6, <1>7, <1>8
<1> QED
  BY <1>9

LEMMA FieldIs ==
    ASSUME NEW s, Good(s), NEW i \in Indices(s), FieldAt(s, i).val /= nil
    PROVE  /\ FieldAt(s, i).key \in Key
           /\ Get(s, FieldAt(s, i).key) = FieldAt(s, i).val
           /\ FindIndex(s, FieldAt(s, i).key) = i
<1> PICK la, L, q, v : /\ la = Len(s.array) /\ L = Len(s.node)
                       /\ q = FieldAt(s, i).key /\ v = FieldAt(s, i).val
  OBVIOUS
<1>1. la \in Nat /\ L \in Nat /\ i \in 1..(la + L)
  BY GoodParts DEF Indices
<1>2. CASE i <= la
  <2>1. q = i /\ v = s.array[i] /\ i \in 1..la
    BY <1>1, <1>2 DEF FieldAt
  <2>2. i \in Key /\ i /= nil
    BY <2>1, TableAssumption DEF Good, Parts
  <2>3. InArray(s, i)
    BY <2>1 DEF InArray
  <2>4. Get(s, i) = s.array[i]
    BY <2>3 DEF Get
  <2>5. FindIndex(s, i) = i
    BY <2>2, <2>3, FindIndexIs
  <2> QED
    BY <2>1, <2>2, <2>4, <2>5
<1>3. CASE i > la
  <2> PICK n : n = i - la
    OBVIOUS
  <2>1. n \in 1..L /\ i = la + n /\ q = s.node[n].key /\ v = s.node[n].val
    <3>1. n \in 1..L /\ i = la + n /\ ~(i <= la)
      <4>1. n = i - la
        OBVIOUS
      <4> QED
        BY ONLY <1>1, <1>3, <4>1
    <3> QED
      BY <3>1, FieldAtIs
  <2>2. /\ q \in Key /\ Live(s.node, n, q) /\ q \notin 1..la /\ Get(s, q) = v
    <3>1. n \in 1..Len(s.node) /\ s.node[n].val /= nil
      BY <2>1
    <3> QED
      BY <2>1, <3>1, NodeFields
  <2>3. Walk(s, q, Named(s, q)) = n
    BY <2>1, <2>2, WalkLive
  <2>4. q /= nil /\ ~InArray(s, q)
    BY <2>2, TableAssumption DEF InArray
  <2>5. FindIndex(s, q) = la + n
    BY <2>1, <2>3, <2>4, FindIndexIs
  <2> QED
    BY <2>1, <2>2, <2>5
<1> QED
  BY <1>1, <1>2, <1>3

LEMMA FoundAt ==
    ASSUME NEW s, Good(s), NEW q \in Key, Get(s, q) /= nil
    PROVE  /\ FindIndex(s, q) \in Indices(s)
           /\ FieldAt(s, FindIndex(s, q)).key = q
           /\ FieldAt(s, FindIndex(s, q)).val = Get(s, q)
<1> PICK la, L : la = Len(s.array) /\ L = Len(s.node)
  OBVIOUS
<1>1. la \in Nat /\ L \in Nat /\ q /= nil
  BY GoodParts, TableAssumption
<1>2. CASE InArray(s, q)
  <2>1. q \in 1..la /\ FindIndex(s, q) = q /\ Get(s, q) = s.array[q]
    <3>1. q \in 1..la
      BY <1>2 DEF InArray
    <3>2. Get(s, q) = s.array[q]
      BY <1>2 DEF Get
    <3> QED
      BY <1>1, <1>2, <3>1, <3>2, FindIndexIs
  <2>2. FieldAt(s, q).key = q /\ FieldAt(s, q).val = s.array[q]
    <3>1. q <= la
      BY <1>1, <2>1
    <3> QED
      BY <3>1, FieldAtIs
  <2>3. q \in Indices(s)
    <3>1. Indices(s) = 1..(la + L)
      BY DEF Indices
    <3> QED
      BY ONLY <1>1, <2>1, <3>1
  <2> QED
    BY <2>1, <2>2, <2>3
<1>3. CASE ~InArray(s, q)
  <2>1. /\ \A i \in 1..L : Live(s.node, i, q) => Get(s, q) = s.node[i].val
        /\ (\A i \in 1..L : ~Live(s.node, i, q)) => Get(s, q) = nil
    BY <1>3, GetIs
  <2>2. PICK n \in 1..L : Live(s.node, n, q) /\ Get(s, q) = s.node[n].val
    BY <2>1
  <2> PICK i : i = la + n
    OBVIOUS
  <2>3. FindIndex(s, q) = i
    <3>1. Walk(s, q, Named(s, q)) = n
      BY <2>2, WalkLive
    <3>2. n /= 0
      BY <1>1, <2>2
    <3> QED
      BY <1>1, <1>3, <3>1, <3>2, FindIndexIs
  <2>4. i \in Indices(s) /\ ~(i <= la) /\ i - la = n
    <3>1. Indices(s) = 1..(la + L)
      BY DEF Indices
    <3>2. i = la + n /\ n \in 1..L
      OBVIOUS
    <3> QED
      BY ONLY <1>1, <3>1, <3>2
  <2>5. FieldAt(s, i).key = s.node[n].key /\ FieldAt(s, i).val = s.node[n].val
    BY <2>4, FieldAtIs
  <2> QED
    BY <2>2, <2>3, <2>4, <2>5 DEF Live
<1> QED
  BY <1>2, <1>3

\* u has the keys of s in the same places.
SamePlaces(s, u) ==
    /\ Len(u.array) = Len(s.array) /\ Len(u.node) = Len(s.node)
    /\ \A i \in 1..Len(s.node) : u.node[i].key = s.node[i].key /\ u.node[i].next = s.node[i].next

LEMMA SameIndex ==
    ASSUME NEW s, Good(s), NEW u, Good(u), SamePlaces(s, u), NEW q \in Key \cup {nil}
    PROVE  FindIndex(u, q) = FindIndex(s, q)
<1> PICK L, S : L = Len(s.node) /\ S = Named(s, q)
  OBVIOUS
<1>1. /\ s.node \in Seq(NodeRec) /\ u.node \in Seq(NodeRec) /\ L \in Nat
      /\ Len(u.array) = Len(s.array) /\ Len(u.node) = L
      /\ \A i \in 1..L : u.node[i].key = s.node[i].key /\ u.node[i].next = s.node[i].next
  BY GoodParts DEF SamePlaces
<1>2. InArray(u, q) <=> InArray(s, q)
  BY <1>1 DEF InArray
<1>3. Named(u, q) = S /\ S \in SUBSET (1..L)
  BY <1>1 DEF Named
<1>4. q \in Key => Walk(u, q, S) = Walk(s, q, S)
  <2> SUFFICES ASSUME q \in Key PROVE Walk(u, q, S) = Walk(s, q, S)
    OBVIOUS
  <2>1. CASE L = 0
    <3>1. s.node = <<>>
      <4>1. s.node \in Seq(NodeRec) /\ Len(s.node) = 0
        BY <1>1, <2>1
      <4> QED
        BY ONLY <4>1
    <3>2. u.node = <<>>
      <4>1. u.node \in Seq(NodeRec) /\ Len(u.node) = 0
        BY <1>1, <2>1
      <4> QED
        BY ONLY <4>1
    <3> QED
      BY <3>1, <3>2 DEF Walk
  <2>2. CASE L /= 0
    <3> PICK m : m = Main(L, q)
      OBVIOUS
    <3>1. L \in Nat \ {0} /\ s.node /= <<>> /\ u.node /= <<>>
      BY <1>1, <2>2
    <3>2. m \in 1..L
      BY <3>1, MainRange
    <3>3. MainPosition(s, q) = m /\ MainPosition(u, q) = m
      BY <1>1 DEF MainPosition, Main
    <3>4. PICK c, p : Shape(L, s.node, c, p)
      BY DEF Good, Shaped
    <3>5. Linked(L, s.node, c, p)
      BY <3>4 DEF Shape
    <3>6. Linked(L, u.node, c, p)
      BY <1>1, <3>5 DEF Linked
    <3>7. Walk(s, q, S) = First(c, p, MainPosition(s, q), S)
      <4>1. /\ L \in Nat \ {0} /\ Len(s.node) = L /\ s.node /= <<>> /\ Linked(L, s.node, c, p)
            /\ MainPosition(s, q) \in 1..L /\ S \in SUBSET (1..L)
        BY <1>3, <3>1, <3>2, <3>3, <3>5
      <4> QED
        BY ONLY <4>1, WalkIs
    <3>8. Walk(u, q, S) = First(c, p, MainPosition(u, q), S)
      <4>1. /\ L \in Nat \ {0} /\ Len(u.node) = L /\ u.node /= <<>> /\ Linked(L, u.node, c, p)
            /\ MainPosition(u, q) \in 1..L /\ S \in SUBSET (1..L)
        BY <1>1, <1>3, <3>1, <3>2, <3>3, <3>6
      <4> QED
        BY ONLY <4>1, WalkIs
    <3> QED
      BY <3>3, <3>7, <3>8
  <2> QED
    BY <2>1, <2>2
<1>5. FindIndex(s, q) = IF q = nil THEN 0 ELSE IF InArray(s, q) THEN q
                        ELSE IF Walk(s, q, S) = 0 THEN -1 ELSE Len(s.array) + Walk(s, q, S)
  BY DEF FindIndex, Named
<1>6. FindIndex(u, q) = IF q = nil THEN 0 ELSE IF InArray(u, q) THEN q
                        ELSE IF Walk(u, q, S) = 0 THEN -1 ELSE Len(u.array) + Walk(u, q, S)
  BY <1>3 DEF FindIndex, Named
<1> QED
  BY <1>1, <1>2, <1>4, <1>5, <1>6

LEMMA FindIndexInt ==
    ASSUME NEW s, Good(s), NEW q \in Key \cup {nil}
    PROVE  FindIndex(s, q) \in Int
<1> PICK la, S, w : la = Len(s.array) /\ S = Named(s, q) /\ w = Walk(s, q, S)
  OBVIOUS
<1>1. la \in Nat /\ s.node \in Seq(NodeRec) /\ Len(s.node) \in Nat
  BY GoodParts
<1>2. q \in Key => w \in Int
  <2> SUFFICES ASSUME q \in Key PROVE w \in Int
    OBVIOUS
  <2>1. CASE s.node = <<>>
    <3>1. Walk(s, q, S) = 0
      BY <2>1 DEF Walk
    <3> QED
      BY <3>1
  <2>2. CASE s.node /= <<>>
    <3> PICK L : L = Len(s.node)
      OBVIOUS
    <3>1. L \in Nat \ {0}
      <4>1. s.node \in Seq(NodeRec) /\ s.node /= <<>>
        BY <1>1, <2>2
      <4>2. Len(s.node) \in Nat \ {0}
        BY ONLY <4>1
      <4> QED
        BY <4>2
    <3>2. PICK c, p : Shape(L, s.node, c, p)
      BY DEF Good, Shaped
    <3>3. S \in SUBSET (1..L) /\ \A x \in S : s.node[x].key = q
      BY <1>1 DEF Named
    <3>4. /\ L \in Nat \ {0} /\ s.node \in Seq(NodeRec) /\ Len(s.node) = L /\ Shape(L, s.node, c, p)
          /\ q \in Key /\ S \in SUBSET (1..L) /\ \A x \in S : s.node[x].key = q
      BY <1>1, <3>1, <3>2, <3>3
    <3>5. (S = {} => Walk(s, q, S) = 0) /\ (S /= {} => Walk(s, q, S) \in S)
      BY ONLY <3>4, KeyPassed
    <3> QED
      BY <3>3, <3>5
  <2> QED
    BY <2>1, <2>2
<1>3. InArray(s, q) => q \in Int
  BY DEF InArray
<1>4. CASE q = nil
  <2>1. FindIndex(s, q) = 0
    BY <1>4, FindIndexIs
  <2> QED
    BY <2>1
<1>5. CASE q /= nil /\ InArray(s, q)
  <2>1. FindIndex(s, q) = q
    BY <1>5, FindIndexIs
  <2> QED
    BY <1>3, <1>5, <2>1
<1>6. CASE q /= nil /\ ~InArray(s, q)
  <2>1. FindIndex(s, q) = IF w = 0 THEN -1 ELSE la + w
    BY <1>6, FindIndexIs
  <2>2. w \in Int
    BY <1>2, <1>6
  <2> QED
    BY ONLY <1>1, <2>1, <2>2
<1> QED
  BY <1>4, <1>5, <1>6

\* u has the fields of s in the same places, but for the value v at index f.
Kept(s, u, f, v) ==
    /\ SamePlaces(s, u)
    /\ \A i \in Indices(s) :
          /\ FieldAt(u, i).key = FieldAt(s, i).key
          /\ FieldAt(u, i).val = IF i = f THEN v ELSE FieldAt(s, i).val

LEMMA KeptIs ==
    ASSUME NEW s, Good(s), NEW u, SamePlaces(s, u), NEW f, NEW v,
           \A i \in 1..Len(s.array) : u.array[i] = IF i = f THEN v ELSE s.array[i],
           \A i \in 1..Len(s.node) :
              u.node[i].val = IF Len(s.array) + i = f THEN v ELSE s.node[i].val
    PROVE  Kept(s, u, f, v)
<1> PICK la, L : la = Len(s.array) /\ L = Len(s.node)
  OBVIOUS
<1>1. la \in Nat /\ L \in Nat /\ Len(u.array) = la /\ Indices(s) = 1..(la + L)
  BY GoodParts DEF SamePlaces, Indices
<1>2. ASSUME NEW i \in 1..(la + L)
      PROVE  /\ FieldAt(u, i).key = FieldAt(s, i).key
             /\ FieldAt(u, i).val = IF i = f THEN v ELSE FieldAt(s, i).val
  <2>1. CASE i <= la
    <3>1. i \in 1..Len(s.array) /\ i <= Len(u.array)
      <4>1. i \in 1..la
        BY ONLY <1>1, <1>2, <2>1
      <4> QED
        BY <1>1, <2>1, <4>1
    <3>2. /\ FieldAt(u, i).key = i /\ FieldAt(u, i).val = u.array[i]
          /\ FieldAt(s, i).key = i /\ FieldAt(s, i).val = s.array[i]
      BY <1>1, <2>1, FieldAtIs
    <3> QED
      BY <3>1, <3>2
  <2>2. CASE ~(i <= la)
    <3> PICK n : n = i - la
      OBVIOUS
    <3>1. n \in 1..L /\ la + n = i
      <4>1. n = i - la
        OBVIOUS
      <4> QED
        BY ONLY <1>1, <1>2, <2>2, <4>1
    <3>2. /\ FieldAt(u, i).key = u.node[n].key /\ FieldAt(u, i).val = u.node[n].val
          /\ FieldAt(s, i).key = s.node[n].key /\ FieldAt(s, i).val = s.node[n].val
      <4>1. /\ ~(i <= Len(u.array)) /\ i - Len(u.array) = n
            /\ ~(i <= Len(s.array)) /\ i - Len(s.array) = n
        BY <1>1, <2>2
      <4>2. FieldAt(u, i).key = u.node[n].key /\ FieldAt(u, i).val = u.node[n].val
        BY ONLY <4>1, FieldAtIs
      <4>3. FieldAt(s, i).key = s.node[n].key /\ FieldAt(s, i).val = s.node[n].val
        BY ONLY <4>1, FieldAtIs
      <4> QED
        BY <4>2, <4>3
    <3>3. /\ u.node[n].key = s.node[n].key
          /\ u.node[n].val = IF la + n = f THEN v ELSE s.node[n].val
      BY <3>1 DEF SamePlaces
    <3> QED
      BY <3>1, <3>2, <3>3
  <2> QED
    BY <2>1, <2>2
<1> QED
  BY <1>1, <1>2 DEF Kept

\* An assignment to a field that exists keeps all fields in their places.
LEMMA PutKeeps ==
    ASSUME NEW s, Good(s), NEW k \in Key, NEW v \in Value \cup {nil}, Get(s, k) /= nil
    PROVE  Kept(s, SetField(s, k, v), FindIndex(s, k), v)
<1>0. k /= nil
  BY TableAssumption
<1>1. /\ s \in TableRec /\ s.array \in Seq(Value \cup {nil}) /\ s.node \in Seq(NodeRec)
      /\ s.lastfree \in Nat /\ Len(s.node) \in Nat /\ Len(s.array) \in Nat
      /\ \A i \in 1..Len(s.node) : s.node[i] \in NodeRec
      /\ s = [array |-> s.array, node |-> s.node, lastfree |-> s.lastfree, failed |-> s.failed]
  BY GoodParts
<1>2. SetField(s, k, v) = Put(s, k, v)
  <2>1. InArray(s, k) \/ Find(s, k) /= 0
    BY DEF Get
  <2> QED
    BY <2>1 DEF SetField
<1>3. CASE InArray(s, k)
  <2> PICK u : u = [s EXCEPT !.array[k] = v]
    OBVIOUS
  <2>1. Put(s, k, v) = u
    BY <1>3 DEF Put
  <2>2. k \in 1..Len(s.array)
    BY <1>3 DEF InArray
  <2>3. u.node = s.node /\ u.array = [s.array EXCEPT ![k] = v]
    BY <1>1
  <2>4. Len(u.array) = Len(s.array)
        /\ \A i \in 1..Len(s.array) : u.array[i] = IF i = k THEN v ELSE s.array[i]
    BY <1>1, <2>2, <2>3
  <2>5. SamePlaces(s, u)
    BY <2>3, <2>4 DEF SamePlaces
  <2>6. \A i \in 1..Len(s.node) :
           u.node[i].val = IF Len(s.array) + i = k THEN v ELSE s.node[i].val
    BY <1>1, <2>2, <2>3
  <2>7. Kept(s, u, k, v)
    BY <2>4, <2>5, <2>6, KeptIs
  <2>8. FindIndex(s, k) = k
    BY <1>0, <1>3, FindIndexIs
  <2> QED
    BY <1>2, <2>1, <2>7, <2>8
<1>4. CASE ~InArray(s, k)
  <2> PICK f, L : f = Find(s, k) /\ L = Len(s.node)
    OBVIOUS
  <2> PICK u : u = [s EXCEPT !.node[f].val = v]
    OBVIOUS
  <2>1. f /= 0 /\ Put(s, k, v) = u
    BY <1>4 DEF Put, Get
  <2>2. f \in 1..L /\ Live(s.node, f, k)
    <3>1. PICK c, p : Shape(Len(s.node), s.node, c, p)
      BY DEF Good, Shaped
    <3>2. Find(s, k) \in 0..Len(s.node) /\ (Find(s, k) /= 0 => Live(s.node, Find(s, k), k))
      BY <1>1, <3>1, FindIs
    <3> QED
      BY <1>1, <2>1, <3>2
  <2>3. u.array = s.array /\ u.node = [s.node EXCEPT ![f] = [s.node[f] EXCEPT !.val = v]]
    BY <1>1
  <2>4. Len(u.node) = L /\ \A i \in 1..L : i /= f => u.node[i] = s.node[i]
    BY <1>1, <2>2, <2>3
  <2>5. u.node[f] = [s.node[f] EXCEPT !.val = v]
    BY <1>1, <2>2, <2>3
  <2>6. u.node[f].key = s.node[f].key /\ u.node[f].next = s.node[f].next /\ u.node[f].val = v
    BY <1>1, <2>2, <2>5 DEF NodeRec
  <2>7. \A i \in 1..L : /\ u.node[i].key = s.node[i].key /\ u.node[i].next = s.node[i].next
                        /\ u.node[i].val = IF i = f THEN v ELSE s.node[i].val
    BY <2>4, <2>6
  <2>8. SamePlaces(s, u)
    BY <2>3, <2>4, <2>7 DEF SamePlaces
  <2> PICK n, la : n = FindIndex(s, k) /\ la = Len(s.array)
    OBVIOUS
  <2>9. n = la + f
    <3>1. Walk(s, k, Named(s, k)) = f
      BY <2>2, WalkLive
    <3> QED
      BY <1>0, <1>4, <2>1, <3>1, FindIndexIs
  <2>10. la \in Nat /\ L \in Nat /\ f \in 1..L
    BY <1>1, <2>2
  <2>11. \A i \in 1..L : (la + i = n) <=> (i = f)
    BY ONLY <2>9, <2>10
  <2>12. \A i \in 1..la : i /= n
    BY ONLY <2>9, <2>10
  <2>13. \A i \in 1..Len(s.array) : u.array[i] = IF i = n THEN v ELSE s.array[i]
    BY <2>3, <2>12
  <2>14. \A i \in 1..Len(s.node) :
            u.node[i].val = IF Len(s.array) + i = n THEN v ELSE s.node[i].val
    BY <2>7, <2>11
  <2>15. Kept(s, u, n, v)
    BY <2>8, <2>13, <2>14, KeptIs
  <2> QED
    BY <1>2, <2>1, <2>15
<1> QED
  BY <1>3, <1>4

\* What is behind an index then
LEMMA KeptBehind ==
    ASSUME NEW s, Good(s), NEW k \in Key, Get(s, k) /= nil, NEW u, NEW v,
           Kept(s, u, FindIndex(s, k), v), NEW n
    PROVE  Behind(u, n) = IF v = nil THEN Behind(s, n) \ {k} ELSE Behind(s, n)
<1> PICK f : f = FindIndex(s, k)
  OBVIOUS
<1>1. f \in Indices(s) /\ FieldAt(s, f).key = k /\ FieldAt(s, f).val /= nil
  BY FoundAt
<1>2. Indices(u) = Indices(s)
  BY DEF Kept, SamePlaces, Indices
<1>3. \A i \in Indices(s) : /\ FieldAt(u, i).key = FieldAt(s, i).key
                            /\ FieldAt(u, i).val = IF i = f THEN v ELSE FieldAt(s, i).val
  BY DEF Kept
<1>4. ASSUME NEW i \in Indices(s), FieldAt(s, i).val /= nil, FieldAt(s, i).key = k
      PROVE  i = f
  BY <1>4, FieldIs
<1>5. CASE v = nil
  <2>1. ASSUME NEW q PROVE q \in Behind(u, n) <=> q \in Behind(s, n) /\ q /= k
    <3>1. q \in Behind(u, n) <=>
             \E i \in Indices(s) : i <= n /\ FieldAt(u, i).val /= nil /\ q = FieldAt(u, i).key
      BY <1>2 DEF Behind
    <3>2. q \in Behind(s, n) <=>
             \E i \in Indices(s) : i <= n /\ FieldAt(s, i).val /= nil /\ q = FieldAt(s, i).key
      BY DEF Behind
    <3>3. \A i \in Indices(s) : FieldAt(u, i).val /= nil /\ q = FieldAt(u, i).key <=>
             FieldAt(s, i).val /= nil /\ q = FieldAt(s, i).key /\ q /= k
      BY <1>1, <1>3, <1>4, <1>5
    <3> QED
      BY <3>1, <3>2, <3>3
  <2> QED
    BY <1>5, <2>1
<1>6. CASE v /= nil
  <2>1. \A i \in Indices(s) : /\ FieldAt(u, i).key = FieldAt(s, i).key
                              /\ FieldAt(u, i).val /= nil <=> FieldAt(s, i).val /= nil
    BY <1>1, <1>3, <1>6
  <2>2. Behind(u, n) = Behind(s, n)
    BY <1>2, <2>1 DEF Behind
  <2> QED
    BY <1>6, <2>2
<1> QED
  BY <1>5, <1>6

\* The next field with a value, and the visited ones after it
LEMMA NextKeyIs ==
    ASSUME NEW s, Good(s), NEW q \in Key \cup {nil}, FindIndex(s, q) >= 0
    PROVE  \/ /\ NextKey(s, q) = nil
              /\ \A k \in Key : Get(s, k) /= nil => k \in Behind(s, FindIndex(s, q))
           \/ /\ NextKey(s, q) \in Key /\ Get(s, NextKey(s, q)) /= nil
              /\ NextKey(s, q) \notin Behind(s, FindIndex(s, q))
              /\ FindIndex(s, NextKey(s, q)) >= 0
              /\ Behind(s, FindIndex(s, NextKey(s, q))) =
                    Behind(s, FindIndex(s, q)) \cup {NextKey(s, q)}
<1> PICK n, la, L : n = FindIndex(s, q) /\ la = Len(s.array) /\ L = Len(s.node)
  OBVIOUS
<1>1. la \in Nat /\ L \in Nat /\ n \in Nat /\ Indices(s) = 1..(la + L)
  <2>1. n \in Int /\ n >= 0
    BY FindIndexInt
  <2>2. n \in Nat
    BY ONLY <2>1
  <2> QED
    BY <2>2, GoodParts DEF Indices
<1> PICK rest : rest = {i \in (n + 1)..(la + L) : FieldAt(s, i).val /= nil}
  OBVIOUS
<1>2. NextKey(s, q) = IF rest = {} THEN nil ELSE FieldAt(s, Min(rest)).key
  BY DEF NextKey
<1>3. \A i : i \in rest <=> i \in Indices(s) /\ ~(i <= n) /\ FieldAt(s, i).val /= nil
  <2>1. \A i : i \in (n + 1)..(la + L) <=> i \in 1..(la + L) /\ ~(i <= n)
    BY ONLY <1>1
  <2> QED
    BY <1>1, <2>1
<1>4. CASE rest = {}
  <2>1. ASSUME NEW k \in Key, Get(s, k) /= nil PROVE k \in Behind(s, n)
    <3> PICK i : i = FindIndex(s, k)
      OBVIOUS
    <3>1. i \in Indices(s) /\ FieldAt(s, i).key = k /\ FieldAt(s, i).val /= nil
      BY <2>1, FoundAt
    <3>2. i <= n
      BY <1>3, <1>4, <3>1
    <3> QED
      BY <3>1, <3>2 DEF Behind
  <2> QED
    BY <1>2, <1>4, <2>1
<1>5. CASE rest /= {}
  <2> PICK m : m = Min(rest)
    OBVIOUS
  <2>0. \A i \in Indices(s) : i \in Nat
    BY ONLY <1>1
  <2>1. rest \subseteq Nat
    BY ONLY <1>3, <2>0
  <2>2. m \in rest /\ \A i \in rest : m <= i
    BY <1>5, <2>1, LeastIndex
  <2> PICK k : k = FieldAt(s, m).key
    OBVIOUS
  <2>3. NextKey(s, q) = k
    BY <1>2, <1>5
  <2>4. m \in Indices(s) /\ ~(m <= n) /\ FieldAt(s, m).val /= nil
    BY <1>3, <2>2
  <2>5. k \in Key /\ Get(s, k) /= nil /\ FindIndex(s, k) = m
    BY <2>4, FieldIs
  <2>6. k \notin Behind(s, n)
    <3> SUFFICES ASSUME k \in Behind(s, n) PROVE FALSE
      OBVIOUS
    <3>1. PICK i \in Indices(s) : i <= n /\ FieldAt(s, i).val /= nil /\ k = FieldAt(s, i).key
      BY DEF Behind
    <3>2. FindIndex(s, k) = i
      BY <3>1, FieldIs
    <3> QED
      BY <2>4, <2>5, <3>1, <3>2
  <2>7. m \in Nat /\ m > n
    BY ONLY <1>1, <2>4
  <2>8. \A i \in Indices(s) : FieldAt(s, i).val /= nil => (i <= m <=> i <= n \/ i = m)
    <3> TAKE i \in Indices(s)
    <3> HAVE FieldAt(s, i).val /= nil
    <3>1. i \in Nat /\ (~(i <= n) => m <= i)
      <4>1. ~(i <= n) => i \in rest
        BY <1>3
      <4> QED
        BY <2>0, <2>2, <4>1
    <3> QED
      BY ONLY <1>1, <2>7, <3>1
  <2>9. Behind(s, m) = Behind(s, n) \cup {k}
    <3>1. \A i \in Indices(s) : i <= m /\ FieldAt(s, i).val /= nil <=>
             (i <= n /\ FieldAt(s, i).val /= nil) \/ i = m
      BY <2>4, <2>8
    <3>2. ASSUME NEW x PROVE x \in Behind(s, m) <=> x \in Behind(s, n) \/ x = k
      <4>1. x \in Behind(s, m) <=>
               \E i \in Indices(s) : i <= m /\ FieldAt(s, i).val /= nil /\ x = FieldAt(s, i).key
        BY DEF Behind
      <4>2. x \in Behind(s, n) <=>
               \E i \in Indices(s) : i <= n /\ FieldAt(s, i).val /= nil /\ x = FieldAt(s, i).key
        BY DEF Behind
      <4>3. k = FieldAt(s, m).key /\ m \in Indices(s)
        BY <2>4
      <4> QED
        BY ONLY <3>1, <4>1, <4>2, <4>3
    <3> QED
      BY <3>2
  <2>10. m >= 0 /\ n = FindIndex(s, q)
    <3>1. m >= 0
      BY ONLY <2>7
    <3> QED
      BY <3>1
  <2> QED
    BY ONLY <2>3, <2>5, <2>6, <2>9, <2>10
<1> QED
  BY <1>4, <1>5

\* The collector marks keys without a value as dead, and changes nothing else.
LEMMA CollectIs ==
    ASSUME NEW s, Good(s), NEW u,
           u = [s EXCEPT !.node = [i \in DOMAIN @ |->
                   IF @[i].val = nil /\ @[i].key \in Pointer \cup Str
                   THEN [@[i] EXCEPT !.dead = TRUE] ELSE @[i]]]
    PROVE  /\ Good(u) /\ u.failed = s.failed
           /\ \A q \in Key : Get(u, q) = Get(s, q)
           /\ Kept(s, u, 0, nil)
<1> PICK L : L = Len(s.node)
  OBVIOUS
<1>1. /\ s \in TableRec /\ s.array \in Seq(Value \cup {nil}) /\ s.node \in Seq(NodeRec)
      /\ s.lastfree \in Nat /\ L \in Nat /\ Len(s.array) \in Nat
      /\ \A i \in 1..L : s.node[i] \in NodeRec
      /\ s = [array |-> s.array, node |-> s.node, lastfree |-> s.lastfree, failed |-> s.failed]
  BY GoodParts
<1>2. PICK c, p : Shape(L, s.node, c, p)
  BY DEF Good, Shaped
<1> DEFINE new == [i \in 1..L |-> IF s.node[i].val = nil /\ s.node[i].key \in Pointer \cup Str
                                  THEN [s.node[i] EXCEPT !.dead = TRUE] ELSE s.node[i]]
<1>3. /\ u.node = new /\ u.array = s.array /\ u.lastfree = s.lastfree /\ u.failed = s.failed
      /\ u = [array |-> s.array, node |-> new, lastfree |-> s.lastfree, failed |-> s.failed]
  <2>1. DOMAIN s.node = 1..L
    BY <1>1
  <2>2. u = [s EXCEPT !.node = new]
    BY <2>1
  <2> HIDE DEF new
  <2> QED
    BY ONLY <1>1, <2>2
<1>4. \A i \in 1..L :
         /\ new[i].key = s.node[i].key /\ new[i].next = s.node[i].next
         /\ new[i].val = s.node[i].val /\ new[i] \in NodeRec
         /\ new[i].dead = s.node[i].dead \/ (new[i].dead /\ new[i].val = nil)
  <2> TAKE i \in 1..L
  <2> PICK nd, x : nd = s.node[i] /\ x = new[i]
    OBVIOUS
  <2>1. nd \in NodeRec
    BY <1>1
  <2>2. CASE nd.val = nil /\ nd.key \in Pointer \cup Str
    <3>1. x = [nd EXCEPT !.dead = TRUE]
      BY <2>2
    <3>2. /\ x.key = nd.key /\ x.next = nd.next /\ x.val = nd.val /\ x.dead = TRUE
          /\ x \in NodeRec
      BY ONLY <2>1, <3>1 DEF NodeRec
    <3> QED
      BY <2>2, <3>2
  <2>3. CASE ~(nd.val = nil /\ nd.key \in Pointer \cup Str)
    <3>1. x = nd
      BY <2>3
    <3> QED
      BY <2>1, <3>1
  <2> QED
    BY <2>2, <2>3
<1>5. new \in [1..L -> NodeRec]
  BY <1>4
<1> HIDE DEF new
<1>6. Len(new) = L /\ new \in Seq(NodeRec)
  <2>1. new = [i \in 1..L |-> new[i]]
    BY <1>5
  <2> QED
    BY <1>1, <1>4, <2>1
<1>7. Shape(L, new, c, p)
  <2>1. \A i \in 1..L : new[i].key = s.node[i].key /\ new[i].next = s.node[i].next
    BY <1>4
  <2>2. \A i \in 1..L : s.node[i].dead \/ s.node[i].key = nil => new[i].val = s.node[i].val
    BY <1>4
  <2>3. \A i \in 1..L : new[i].dead /= s.node[i].dead => new[i].dead /\ new[i].val = nil
    BY <1>4
  <2> QED
    BY <1>2, <1>5, <2>1, <2>2, <2>3, ValueShape
<1>8. Good(u)
  <2>1. u \in TableRec
    BY <1>1, <1>3, <1>6 DEF TableRec
  <2>2. Parts(u)
    <3>1. \A i \in 1..L : u.node[i].key = s.node[i].key
      BY <1>3, <1>4
    <3>2. Len(u.node) = L /\ Len(u.array) = Len(s.array)
      BY <1>3, <1>6
    <3>3. u.node = <<>> \/ \E i \in Nat : Len(u.node) = twoto[i]
      <4>1. CASE L = 0
        <5>1. new \in Seq(NodeRec) /\ Len(new) = 0
          BY <1>6, <4>1
        <5>2. new = <<>>
          BY ONLY <5>1
        <5> QED
          BY <1>3, <5>2
      <4>2. CASE L /= 0
        <5>1. s.node /= <<>>
          BY <4>2
        <5> QED
          BY <3>2, <5>1 DEF Good, Parts
      <4> QED
        BY <4>1, <4>2
    <3>4. /\ \A i \in 1..Len(s.array) : s.array[i] /= nil => i \in Key
          /\ \A i \in 1..L : s.node[i].key /= nil => s.node[i].key \notin 1..Len(s.array)
          /\ s.lastfree <= L + 1
          /\ \A i \in 1..L : i >= s.lastfree => s.node[i].key /= nil
      BY DEF Good, Parts
    <3>5. /\ \A i \in 1..Len(u.array) : u.array[i] /= nil => i \in Key
          /\ u.lastfree <= Len(u.node) + 1
      BY <1>3, <3>2, <3>4
    <3>6. /\ \A i \in 1..Len(u.node) : u.node[i].key /= nil => u.node[i].key \notin 1..Len(u.array)
          /\ \A i \in 1..Len(u.node) : i >= u.lastfree => u.node[i].key /= nil
      BY <1>3, <3>1, <3>2, <3>4
    <3> QED
      BY ONLY <2>1, <3>3, <3>5, <3>6 DEF Parts
  <2>3. Shaped(u)
    <3>1. u.node = new /\ Len(u.node) = L
      BY <1>3, <1>6
    <3> QED
      BY <1>7, <3>1 DEF Shaped
  <2> QED
    BY <2>2, <2>3 DEF Good
<1>9. ASSUME NEW q \in Key PROVE Get(u, q) = Get(s, q)
  <2>1. InArray(u, q) <=> InArray(s, q)
    BY <1>3 DEF InArray
  <2>2. CASE InArray(s, q)
    BY <1>3, <2>1, <2>2 DEF Get
  <2>3. CASE ~InArray(s, q)
    <3>1. /\ \A i \in 1..L : Live(s.node, i, q) => Get(s, q) = s.node[i].val
          /\ (\A i \in 1..L : ~Live(s.node, i, q)) => Get(s, q) = nil
      BY <2>3, GetIs
    <3>2. /\ \A i \in 1..L : Live(new, i, q) => Get(u, q) = new[i].val
          /\ (\A i \in 1..L : ~Live(new, i, q)) => Get(u, q) = nil
      <4>1. ~InArray(u, q)
        BY <2>1, <2>3
      <4>2. /\ \A i \in 1..Len(u.node) : Live(u.node, i, q) => Get(u, q) = u.node[i].val
            /\ (\A i \in 1..Len(u.node) : ~Live(u.node, i, q)) => Get(u, q) = nil
        BY <1>8, <4>1, GetIs
      <4>3. u.node = new /\ Len(u.node) = L
        BY <1>3, <1>6
      <4> QED
        BY ONLY <4>2, <4>3
    <3>3. \A i \in 1..L : Live(new, i, q) => Live(s.node, i, q)
      <4> TAKE i \in 1..L
      <4>1. new[i].dead \in BOOLEAN /\ s.node[i].dead \in BOOLEAN
        BY <1>1, <1>4 DEF NodeRec
      <4> QED
        BY <1>4, <4>1 DEF Live
    <3>4. \A i \in 1..L : Live(s.node, i, q) => Live(new, i, q) \/ s.node[i].val = nil
      <4> SUFFICES ASSUME NEW i \in 1..L, Live(s.node, i, q), s.node[i].val /= nil
                   PROVE  Live(new, i, q)
        OBVIOUS
      <4>1. new[i].dead = s.node[i].dead /\ new[i].key = s.node[i].key
        BY <1>4
      <4>2. new[i].dead \in BOOLEAN /\ s.node[i].dead \in BOOLEAN
        BY <1>1, <1>4 DEF NodeRec
      <4>3. s.node[i].key = q /\ ~s.node[i].dead
        BY DEF Live
      <4>4. new[i].key = q /\ ~new[i].dead
        BY ONLY <4>1, <4>2, <4>3
      <4> QED
        BY <4>4 DEF Live
    <3>5. CASE \E i \in 1..L : Live(new, i, q)
      <4>1. PICK i \in 1..L : Live(new, i, q)
        BY <3>5
      <4>2. Get(u, q) = new[i].val /\ Get(s, q) = s.node[i].val
        BY <3>1, <3>2, <3>3, <4>1
      <4> QED
        BY <1>4, <4>2
    <3>6. CASE \A i \in 1..L : ~Live(new, i, q)
      BY <3>1, <3>2, <3>4, <3>6
    <3> QED
      BY <3>5, <3>6
  <2> QED
    BY <2>2, <2>3
<1>10. Kept(s, u, 0, nil)
  <2>1. SamePlaces(s, u)
    BY <1>3, <1>4, <1>6 DEF SamePlaces
  <2>2. \A i \in 1..Len(s.array) : u.array[i] = IF i = 0 THEN nil ELSE s.array[i]
    BY <1>1, <1>3
  <2>3. \A i \in 1..Len(s.node) :
           u.node[i].val = IF Len(s.array) + i = 0 THEN nil ELSE s.node[i].val
    <3>1. \A i \in 1..L : Len(s.array) + i /= 0
      BY <1>1
    <3> QED
      BY <1>3, <1>4, <3>1
  <2> QED
    BY <2>1, <2>2, <2>3, KeptIs
<1> QED
  BY <1>3, <1>8, <1>9, <1>10-----------------------------------------------------------------------------
(***************************************************************************)
(* The inductive invariant holds.                                          *)
(***************************************************************************)

\* The assignments of OP_SETLIST
Assigns(s, list) ==
    [s EXCEPT !.array = [i \in DOMAIN @ |-> IF i <= Len(list) THEN list[i] ELSE @[i]]]

LEMMA InitIs ==
    ASSUME Init
    PROVE  IInv
<1>0. PICK na \in ASizes, nh \in HSizes : \E list \in [1..na -> BOOLEAN] :
          t = SetList(New(na, nh), [i \in 1..na |-> IF list[i] /\ i \in used THEN i ELSE nil])
  BY DEF Init
<1>1. PICK list \in [1..na -> BOOLEAN] :
          t = SetList(New(na, nh), [i \in 1..na |-> IF list[i] /\ i \in used THEN i ELSE nil])
  BY <1>0
<1>2. na \in Nat /\ nh \in Nat /\ used \in SUBSET Key
  BY TableAssumption DEF Init
<1> PICK l : l = [i \in 1..na |-> IF list[i] /\ i \in used THEN i ELSE nil]
  OBVIOUS
<1> PICK new, node : new = New(na, nh) /\ node = SetNodeVector(nh)
  OBVIOUS
<1>3. \A i \in 1..na : l[i] \in Value \cup {nil} /\ (l[i] /= nil => i \in Key)
  BY <1>2 DEF Value
<1>4. l \in Seq(Value \cup {nil}) /\ Len(l) = na /\ DOMAIN l = 1..na
  BY <1>2, <1>3
<1>5. /\ new.array = [i \in 1..na |-> nil] /\ new.node = node /\ new.lastfree = Len(node) + 1
      /\ new.failed = FALSE
      /\ new = [array |-> new.array, node |-> node, lastfree |-> Len(node) + 1, failed |-> FALSE]
  BY DEF New
<1>6. Len(new.array) = na /\ DOMAIN new.array = 1..na
  BY <1>2, <1>5
<1>7. t = [new EXCEPT !.array = l]
  <2>1. ~(Len(l) > Len(new.array))
    BY <1>2, <1>4, <1>6
  <2>2. [i \in DOMAIN new.array |-> IF i <= Len(l) THEN l[i] ELSE new.array[i]] = l
    <3>1. \A i \in 1..na : i <= Len(l)
      BY <1>2, <1>4
    <3>2. [i \in 1..na |-> IF i <= Len(l) THEN l[i] ELSE new.array[i]] = [i \in 1..na |-> l[i]]
      BY <3>1
    <3>3. l = [i \in 1..na |-> l[i]]
      BY <1>4
    <3> QED
      BY <1>6, <3>2, <3>3
  <2>3. SetList(new, l) =
           [new EXCEPT !.array = [i \in DOMAIN new.array |-> IF i <= Len(l) THEN l[i] ELSE new.array[i]]]
    <3>1. (IF Len(l) > Len(new.array) THEN Resize(new, Len(l), Len(new.node)) ELSE new) = new
      BY <2>1
    <3>2. SetList(new, l) =
             Assigns(IF Len(l) > Len(new.array) THEN Resize(new, Len(l), Len(new.node)) ELSE new, l)
      BY DEF SetList, Assigns
    <3>3. SetList(new, l) = Assigns(new, l)
      BY <3>1, <3>2
    <3> QED
      BY <3>3 DEF Assigns
  <2> QED
    BY <1>1, <2>2, <2>3
<1>8. t = [array |-> l, node |-> node, lastfree |-> Len(node) + 1, failed |-> FALSE]
  BY ONLY <1>5, <1>7
<1>9. /\ Len(node) \in Nat /\ node \in Seq(NodeRec)
  <2>1. PICK L : L = Len(node)
    OBVIOUS
  <2>2. L \in Nat /\ node = [i \in 1..L |-> FreeNode]
    BY <1>2, <2>1, SetNodeVectorIs
  <2>3. FreeNode \in NodeRec
    BY DEF FreeNode, NodeRec
  <2> QED
    BY <2>1, <2>2, <2>3
<1>10. Bare(t, l, nh)
  <2>1. t \in TableRec
    BY <1>4, <1>8, <1>9 DEF TableRec
  <2>2. t.array = l /\ t.node = node /\ t.lastfree = Len(node) + 1
    BY <1>8
  <2> QED
    BY <1>3, <1>4, <2>1, <2>2 DEF Bare
<1>11. Good(t)
  BY <1>2, <1>10, BareIs
<1>12. ~t.failed
  BY <1>8
<1>13. LoopAt
  BY <1>2 DEF Init, LoopAt
<1> QED
  BY <1>11, <1>12, <1>13 DEF IInv

LEMMA SetStep ==
    ASSUME IInv, NEW k \in used, NEW v \in {k, nil}, Set(k, v), used' = used
    PROVE  IInv'
<1>1. k \in Key /\ v \in Value \cup {nil} /\ last \in Key \cup {nil}
  BY DEF IInv, LoopAt, Value
<1>2. Good(t) /\ ~t.failed /\ t' = SetField(t, k, v)
  BY DEF IInv, Set
<1>3. Assigned(t, t', k, v)
  BY <1>1, <1>2, SetFieldIs
<1>4. Good(t') /\ ~t'.failed
  BY <1>2, <1>3 DEF Assigned
<1>5. LoopAt'
  <2>1. on' \in BOOLEAN /\ last' \in Key \cup {nil} /\ used' \in SUBSET Key
    BY <1>1 DEF IInv, LoopAt, Set
  <2>2. CASE ~on'
    BY <2>1, <2>2 DEF Set, LoopAt
  <2>3. CASE on'
    <3>1. on /\ Get(t, k) /= nil /\ last' = last
          /\ seen' = IF v = nil THEN seen \ {k} ELSE seen
      BY <2>3 DEF Set, IInv, LoopAt
    <3>2. Kept(t, t', FindIndex(t, k), v)
      BY <1>1, <1>2, <3>1, PutKeeps
    <3> PICK n : n = FindIndex(t, last)
      OBVIOUS
    <3>3. FindIndex(t', last) = n
      <4>1. SamePlaces(t, t')
        BY <3>2 DEF Kept
      <4> QED
        BY <1>1, <1>2, <1>4, <4>1, SameIndex
    <3>4. n >= 0 /\ seen = Behind(t, n)
      BY <3>1 DEF IInv, LoopAt
    <3>5. Behind(t', n) = IF v = nil THEN Behind(t, n) \ {k} ELSE Behind(t, n)
      BY <1>1, <1>2, <3>1, <3>2, KeptBehind
    <3>6. FindIndex(t', last') >= 0 /\ seen' = Behind(t', FindIndex(t', last'))
      BY <3>1, <3>3, <3>4, <3>5
    <3> QED
      BY <2>1, <2>3, <3>6 DEF LoopAt
  <2> QED
    BY <2>2, <2>3
<1> QED
  BY <1>4, <1>5 DEF IInv

LEMMA PairsStep ==
    ASSUME IInv, Pairs, used' = used
    PROVE  IInv'
<1>1. t' = t /\ on' = TRUE /\ last' = nil /\ seen' = {}
  BY DEF IInv, LoopAt, Pairs
<1>2. FindIndex(t, nil) = 0
  BY FindIndexIs
<1>3. Behind(t, 0) = {}
  <2>1. \A i \in Indices(t) : ~(i <= 0)
    BY DEF Indices
  <2> QED
    BY <2>1 DEF Behind
<1>4. LoopAt'
  <2>1. used' \in SUBSET Key
    BY DEF IInv, LoopAt
  <2>2. FindIndex(t', last') >= 0 /\ seen' = Behind(t', FindIndex(t', last'))
    BY <1>1, <1>2, <1>3
  <2> QED
    BY <1>1, <2>1, <2>2 DEF LoopAt
<1> QED
  BY <1>1, <1>4 DEF IInv

\* What a step of the loop does
LEMMA IterateIs ==
    ASSUME IInv, Iterate
    PROVE  /\ on /\ t' = t /\ last' = NextKey(t, last)
           /\ Good(t) /\ last \in Key \cup {nil}
           /\ FindIndex(t, last) >= 0 /\ seen = Behind(t, FindIndex(t, last))
  BY DEF IInv, LoopAt, Iterate, LuaAssert

LEMMA IterateStep ==
    ASSUME IInv, Iterate, used' = used
    PROVE  IInv'
<1>1. /\ on /\ t' = t /\ last' = NextKey(t, last)
      /\ Good(t) /\ last \in Key \cup {nil}
      /\ FindIndex(t, last) >= 0 /\ seen = Behind(t, FindIndex(t, last))
  BY IterateIs
<1>2. on' = (last' /= nil) /\ seen' = IF on' THEN seen \cup {last'} ELSE {}
  BY DEF Iterate
<1>3. used' \in SUBSET Key /\ nil \notin Key
  BY TableAssumption DEF IInv, LoopAt
<1>4. LoopAt'
  <2>1. CASE last' = nil
    <3>1. on' = FALSE
      BY <1>2, <2>1
    <3>2. seen' = {}
      BY <1>2, <3>1
    <3> QED
      BY <1>3, <2>1, <3>1, <3>2 DEF LoopAt
  <2>2. CASE last' /= nil
    <3>1. on' = TRUE
      BY <1>2, <2>2
    <3>2. seen' = seen \cup {last'}
      BY <1>2, <3>1
    <3> PICK k : k = last'
      OBVIOUS
    <3>3. /\ k \in Key /\ FindIndex(t, k) >= 0
          /\ Behind(t, FindIndex(t, k)) = Behind(t, FindIndex(t, last)) \cup {k}
      BY <1>1, <2>2, NextKeyIs
    <3>4. FindIndex(t', last') >= 0 /\ seen' = Behind(t', FindIndex(t', last'))
      BY <1>1, <3>2, <3>3
    <3> QED
      BY <1>3, <3>1, <3>3, <3>4 DEF LoopAt
  <2> QED
    BY <2>1, <2>2
<1> QED
  BY <1>1, <1>4 DEF IInv

LEMMA CollectStep ==
    ASSUME IInv, Collect, used' = used
    PROVE  IInv' /\ \A q \in Key : Get(t', q) = Get(t, q)
<1>1. Good(t) /\ ~t.failed /\ last \in Key \cup {nil} /\ used' \in SUBSET Key /\ on \in BOOLEAN
  BY DEF IInv, LoopAt
<1>2. on' = on /\ last' = last /\ seen' = seen
  BY DEF Collect
<1>3. /\ Good(t') /\ t'.failed = t.failed
      /\ \A q \in Key : Get(t', q) = Get(t, q)
      /\ Kept(t, t', 0, nil)
  BY <1>1, CollectIs DEF Collect
<1>4. LoopAt'
  <2>1. CASE ~on
    BY <1>1, <1>2, <2>1 DEF IInv, LoopAt
  <2>2. CASE on
    <3> PICK n : n = FindIndex(t, last)
      OBVIOUS
    <3>1. n >= 0 /\ seen = Behind(t, n)
      BY <2>2 DEF IInv, LoopAt
    <3>2. FindIndex(t', last) = n
      BY <1>1, <1>3, SameIndex DEF Kept
    <3>3. Behind(t', n) = Behind(t, n)
      <4>1. Indices(t') = Indices(t)
        BY <1>3 DEF Kept, SamePlaces, Indices
      <4>2. \A i \in Indices(t) : i /= 0
        BY DEF Indices
      <4>3. \A i \in Indices(t) : /\ FieldAt(t', i).key = FieldAt(t, i).key
                                  /\ FieldAt(t', i).val = FieldAt(t, i).val
        BY <1>3, <4>2 DEF Kept
      <4> QED
        BY <4>1, <4>3 DEF Behind
    <3>4. FindIndex(t', last') >= 0 /\ seen' = Behind(t', FindIndex(t', last'))
      BY <1>2, <3>1, <3>2, <3>3
    <3> QED
      BY <1>1, <1>2, <2>2, <3>4 DEF LoopAt
  <2> QED
    BY <1>1, <2>1, <2>2
<1> QED
  BY <1>1, <1>3, <1>4 DEF IInv

LEMMA Inductive ==
    ASSUME IInv, [Next]_vars
    PROVE  IInv'
<1>1. CASE Next
  <2>1. used' = used
    BY <1>1 DEF Next
  <2>2. CASE \E k \in used : \E v \in {k, nil} : Set(k, v)
    BY <2>1, <2>2, SetStep
  <2>3. CASE Pairs
    BY <2>1, <2>3, PairsStep
  <2>4. CASE Iterate
    BY <2>1, <2>4, IterateStep
  <2>5. CASE Collect
    BY <2>1, <2>5, CollectStep
  <2> QED
    BY <1>1, <2>2, <2>3, <2>4, <2>5 DEF Next
<1>2. CASE UNCHANGED vars
  BY <1>2 DEF vars, IInv, LoopAt
<1> QED
  BY <1>1, <1>2-----------------------------------------------------------------------------
(***************************************************************************)
(* The theorems.                                                           *)
(***************************************************************************)

\* The inductive invariant holds in every reachable state.
THEOREM Invariant == Spec => []IInv
<1>1. Init => IInv
  BY InitIs
<1>2. IInv /\ [Next]_vars => IInv'
  BY Inductive
<1> QED
  BY <1>1, <1>2, PTL DEF Spec

\* Every reachable table has its shape: lastfree and the next fields stay within
\* the nodes, no node is its own next, the number of nodes is a power of two,
\* and no key has a value in two nodes.
THEOREM TypesAlwaysOK == Spec => []TypeOK
<1>1. IInv => TypeOK
  <2> SUFFICES ASSUME IInv PROVE TypeOK
    OBVIOUS
  <2>1. Good(t) /\ LoopAt
    BY DEF IInv
  <2> PICK L : L = Len(t.node)
    OBVIOUS
  <2>2. PICK c, p : Shape(L, t.node, c, p)
    BY <2>1 DEF Good, Shaped
  <2>3. /\ t.array \in Seq(Value \cup {nil}) /\ t.node \in Seq(NodeRec) /\ L \in Nat
        /\ t.lastfree \in Nat /\ t.lastfree <= L + 1
        /\ \A i \in 1..L : t.node[i] \in NodeRec
    BY <2>1, GoodParts
  <2>4. DOMAIN t.node = 1..L
    BY <2>3
  <2>5. t.lastfree \in 0..(L + 1)
    BY ONLY <2>3
  <2>6. t.node = <<>> \/ \E i \in 0..L : L = twoto[i]
    <3> SUFFICES ASSUME t.node /= <<>> PROVE \E i \in 0..L : L = twoto[i]
      OBVIOUS
    <3>1. PICK i \in Nat : L = twoto[i]
      BY <2>1 DEF Good, Parts
    <3>2. L >= i + 1
      BY <3>1, TwotoGrows
    <3>3. i \in 0..L
      BY ONLY <2>3, <3>1, <3>2
    <3> QED
      BY <3>1, <3>3
  <2>7. ASSUME NEW i \in 1..L
        PROVE  /\ t.node[i].key \in Key \cup {nil} /\ t.node[i].val \in Value \cup {nil}
               /\ t.node[i].next \in (0..L) \ {i}
    <3>1. t.node[i].key \in Key \cup {nil} /\ t.node[i].val \in Value \cup {nil}
      BY <2>3 DEF NodeRec
    <3> PICK n : n = t.node[i].next
      OBVIOUS
    <3>2. n \in 0..L /\ p[i] \in Nat /\ (n /= 0 => p[i] = p[n] + 1)
      BY <2>2, <2>7 DEF Shape, Linked
    <3>3. n /= i
      <4> SUFFICES ASSUME n = i PROVE FALSE
        OBVIOUS
      <4>1. n /= 0
        BY <2>3, <2>7
      <4>2. p[i] = p[i] + 1
        BY <3>2, <4>1
      <4> QED
        BY ONLY <3>2, <4>2
    <3> QED
      BY <3>1, <3>2, <3>3
  <2>8. on \in BOOLEAN /\ last \in Key \cup {nil} /\ seen \subseteq Key
    <3>1. \A n : Behind(t, n) \subseteq Key
      BY <2>1, FieldIs DEF Behind
    <3> QED
      BY <2>1, <3>1 DEF LoopAt
  <2>9. ASSUME NEW i \in UsedNodes(t), NEW j \in UsedNodes(t), t.node[i].key = t.node[j].key
        PROVE  i = j
    <3> PICK q : q = t.node[i].key
      OBVIOUS
    <3>1. i \in 1..L /\ j \in 1..L /\ t.node[i].val /= nil /\ t.node[j].val /= nil
      BY <2>4 DEF UsedNodes
    <3>2. q \in Key /\ Live(t.node, i, q) /\ Live(t.node, j, q)
      BY <2>1, <2>9, <3>1, NodeFields
    <3> QED
      BY <2>2, <3>1, <3>2, OneLive
  <2> QED
    BY <2>3, <2>4, <2>5, <2>6, <2>7, <2>8, <2>9 DEF TypeOK
<1> QED
  BY <1>1, Invariant, PTL

\* No assertion of ltable.c fails, and next never meets an unknown key, however
\* an assignment, a rehash or a collection has changed the table since a loop
\* got its last key: luaH_next's findindex accepts keys without a value and
\* dead ones, newkey finds a node in the table that rehash has made, and
\* computesizes' counts fit.
THEOREM AssertionsAlwaysHold == Spec => []AssertionsHold
<1>1. IInv => AssertionsHold
  BY DEF IInv, AssertionsHold
<1> QED
  BY <1>1, Invariant, PTL

\* luaH_getn returns a border of every reachable table, from the array part by
\* binary search, or beyond it by unbound_search.
THEOREM LengthIsAlwaysBorder == Spec => []LengthIsBorder
<1>1. IInv => LengthIsBorder
  <2> SUFFICES ASSUME IInv PROVE LengthIsBorder
    OBVIOUS
  <2>1. Border(t, GetN(t))
    BY GetNIs DEF IInv
  <2> QED
    BY <2>1 DEF Border, LengthIsBorder
<1> QED
  BY <1>1, Invariant, PTL

\* The map that t stands for
Map == [k \in Key |-> Get(t, k)]

LEMMA InitMaps ==
    ASSUME Init
    PROVE  M!MapInit
<1>1. Good(t)
  BY InitIs DEF IInv
<1>2. \A k \in Key : Get(t, k) \in Value \cup {nil}
  BY <1>1, GetIs
<1> QED
  BY <1>2 DEF Init, M!MapInit

LEMMA SetMaps ==
    ASSUME IInv, NEW k \in used, NEW v \in {k, nil}, Set(k, v)
    PROVE  M!MapNext
<1>1. k \in Key /\ v \in Value \cup {nil} /\ Good(t) /\ t' = SetField(t, k, v)
  BY DEF IInv, LoopAt, Value, Set
<1>2. \A q \in Key : Get(t', q) = IF q = k THEN v ELSE Get(t, q)
  BY <1>1, SetFieldIs DEF Assigned
<1>3. Map' = [Map EXCEPT ![k] = v] /\ Map[k] = Get(t, k)
  BY <1>1, <1>2 DEF Map
<1>4. /\ on' = (on /\ Map[k] /= nil)
      /\ seen' = IF ~on' THEN {} ELSE IF v = nil THEN seen \ {k} ELSE seen
  BY <1>3 DEF Set
<1>5. M!Assign(k, v)
  BY <1>3, <1>4 DEF M!Assign, Map
<1> QED
  BY <1>1, <1>5 DEF M!MapNext

LEMMA PairsMaps ==
    ASSUME IInv, Pairs
    PROVE  M!MapNext
<1>1. M!Begin
  BY DEF Pairs, M!Begin
<1> QED
  BY <1>1 DEF M!MapNext

LEMMA IterateMaps ==
    ASSUME IInv, Iterate
    PROVE  M!MapNext
<1>1. /\ on /\ t' = t /\ last' = NextKey(t, last)
      /\ Good(t) /\ last \in Key \cup {nil}
      /\ FindIndex(t, last) >= 0 /\ seen = Behind(t, FindIndex(t, last))
  BY IterateIs
<1>2. on' = (last' /= nil) /\ seen' = IF on' THEN seen \cup {last'} ELSE {}
  BY DEF Iterate
<1>3. \A k : k \in M!Present <=> k \in Key /\ Get(t, k) /= nil
  BY DEF M!Present
<1>4. CASE last' = nil
  <2>1. on' = FALSE
    BY <1>2, <1>4
  <2>2. seen' = {}
    BY <1>2, <2>1
  <2>3. last' \notin Key
    BY <1>4, TableAssumption
  <2>4. \A k \in Key : Get(t, k) /= nil => k \in seen
    BY <1>1, <2>3, NextKeyIs
  <2>5. M!End
    BY <1>1, <1>3, <2>1, <2>2, <2>4 DEF M!End
  <2> QED
    BY <2>5 DEF M!MapNext
<1>5. CASE last' /= nil
  <2>1. on' = TRUE
    BY <1>2, <1>5
  <2>2. seen' = seen \cup {last'}
    BY <1>2, <2>1
  <2>3. last' \in Key /\ Get(t, last') /= nil /\ last' \notin seen
    BY <1>1, <1>5, NextKeyIs
  <2>4. on' = on
    BY <1>1, <2>1 DEF IInv, LoopAt
  <2> PICK k : k = last'
    OBVIOUS
  <2>5. M!Visit(k)
    BY <1>1, <1>3, <2>2, <2>3, <2>4 DEF M!Visit
  <2> QED
    BY <2>3, <2>5 DEF M!MapNext
<1> QED
  BY <1>4, <1>5

LEMMA StepMaps ==
    ASSUME IInv, [Next]_vars
    PROVE  [M!MapNext]_(M!mapVars)
<1>1. CASE Next
  <2>1. used' = used
    BY <1>1 DEF Next
  <2>2. CASE \E k \in used : \E v \in {k, nil} : Set(k, v)
    BY <2>2, SetMaps
  <2>3. CASE Pairs
    BY <2>3, PairsMaps
  <2>4. CASE Iterate
    BY <2>4, IterateMaps
  <2>5. CASE Collect
    <3>1. \A q \in Key : Get(t', q) = Get(t, q)
      BY <2>1, <2>5, CollectStep
    <3>2. Map' = Map
      BY <3>1 DEF Map
    <3> QED
      BY <2>5, <3>2 DEF Collect, M!mapVars, Map
  <2> QED
    BY <1>1, <2>2, <2>3, <2>4, <2>5 DEF Next
<1>2. CASE UNCHANGED vars
  BY <1>2 DEF vars, M!mapVars
<1> QED
  BY <1>1, <1>2

\* A table implements the map and the traversal of TableMap: an assignment
\* changes the value of its own key only, through every collision, rehash and
\* resize, the collector changes none, and a loop with next gets every field
\* exactly once while existing fields are assigned to and cleared.
THEOREM TableImplementsMap == Spec => ImplementsMap
<1>1. Init => M!MapInit
  BY InitMaps
<1>2. IInv /\ [Next]_vars => [M!MapNext]_(M!mapVars)
  BY StepMaps
<1> QED
  BY <1>1, <1>2, Invariant, PTL DEF Spec, ImplementsMap, M!MapSpec
=============================================================================
