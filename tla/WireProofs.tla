----------------------------- MODULE WireProofs -----------------------------
(***************************************************************************)
(* Proofs about Wire, for every base, every size of messages and buffers   *)
(* and any number of messages.                                             *)
(*                                                                         *)
(* What either end writes is a stream, the frames of its messages one      *)
(* after the other.  Sending in pieces, timing out and reading in pieces   *)
(* only move bytes from the sender's buffer to the socket and from there   *)
(* to the reader, so that the bytes the reader has not taken yet are       *)
(* always those of the messages it has not read, less what it has of the   *)
(* one it is reading (Reads).  A reader in front of a frame reads its      *)
(* length (HeaderRead), and then its body and no more (ReadsAll).          *)
(*                                                                         *)
(* What is stated for each direction is inductive: UpInv from the client   *)
(* to the server, but for a goodbye within a request (BrokenOff), and      *)
(* DownInv from the server to the client, but for a read that times out    *)
(* within a header.                                                        *)
(***************************************************************************)
EXTENDS Wire, SequenceLemmas

-----------------------------------------------------------------------------
(***************************************************************************)
(* The header: what tostring writes, tonumber reads.                       *)
(***************************************************************************)

(***************************************************************************)
(* Number is a fold, which is defined by recursion on sets of indices, the *)
(* largest of which is taken last; f is such a recursive function for the  *)
(* subsets of 1..k.                                                        *)
(***************************************************************************)
Folding(f, line, k) ==
    \A s \in SUBSET (1..k) :
        f[s] = IF s = {} THEN 0 ELSE Base * f[s \ {Max(s)}] + line[Max(s)][2]

\* There is one for every k.
LEMMA FoldingExists ==
    ASSUME NEW n \in Nat, NEW line
    PROVE  \E f : Folding(f, line, n)
<1> DEFINE A == {k \in 0..n : \E f : Folding(f, line, k)}
<1>1. 0 \in A
  <2> DEFINE f == [s \in {{}} |-> 0]
  <2>1. \A s \in SUBSET (1..0) : s = {}
    OBVIOUS
  <2>2. f[{}] = 0
    OBVIOUS
  <2>3. Folding(f, line, 0)
    BY <2>1, <2>2 DEF Folding
  <2> QED
    BY <2>3
<1>2. ASSUME NEW k \in 0..n, k \in A, k < n PROVE k + 1 \in A
  <2>1. PICK f : Folding(f, line, k)
    BY <1>2
  <2> DEFINE S == SUBSET (1..(k + 1))
             g == [s \in S |-> IF k + 1 \in s THEN Base * f[s \ {k + 1}] + line[k + 1][2]
                               ELSE f[s]]
  <2>2. ASSUME NEW s \in S
        PROVE  /\ s \ {k + 1} \in SUBSET (1..k)
               /\ k + 1 \notin s => s \in SUBSET (1..k)
    <3>1. s \ {k + 1} \subseteq 1..k
      BY <1>2
    <3> QED
      BY <3>1
  <2>3. \A s \in S : g[s] = IF k + 1 \in s THEN Base * f[s \ {k + 1}] + line[k + 1][2] ELSE f[s]
    OBVIOUS
  <2> HIDE DEF g
  <2>5. ASSUME NEW s \in S
        PROVE  g[s] = IF s = {} THEN 0 ELSE Base * g[s \ {Max(s)}] + line[Max(s)][2]
    <3>1. CASE k + 1 \in s
      <4>0. k + 1 \in Nat /\ s \in SUBSET (1..(k + 1)) /\ s /= {}
        BY <3>1
      <4>1. Max(s) \in s /\ \A x \in s : x <= Max(s)
        BY <4>0, LargestIndex
      <4>2. Max(s) = k + 1
        <5>1. Max(s) \in 1..(k + 1) /\ k + 1 <= Max(s)
          BY <3>1, <4>0, <4>1
        <5> QED
          BY <5>1
      <4>3. s \ {k + 1} \in S /\ k + 1 \notin s \ {k + 1}
        OBVIOUS
      <4>4. g[s \ {k + 1}] = f[s \ {k + 1}]
        BY <2>3, <4>3
      <4> QED
        BY <2>3, <3>1, <4>2, <4>4
    <3>2. CASE k + 1 \notin s
      <4>1. s \in SUBSET (1..k)
        BY <2>2, <3>2
      <4>2. g[s] = f[s]
        BY <2>3, <3>2
      <4>3. s /= {} => g[s \ {Max(s)}] = f[s \ {Max(s)}]
        <5>1. s \ {Max(s)} \in S /\ k + 1 \notin s \ {Max(s)}
          BY <3>2
        <5> QED
          BY <2>3, <5>1
      <4> QED
        BY <2>1, <4>1, <4>2, <4>3 DEF Folding
    <3> QED
      BY <3>1, <3>2
  <2>6. Folding(g, line, k + 1)
    BY <2>5 DEF Folding
  <2> QED
    BY <1>2, <2>6
<1> HIDE DEF A
<1>3. 0..n \subseteq A
  BY <1>1, <1>2, Induction
<1> QED
  BY <1>3 DEF A

\* Number reads one digit after the other.
LEMMA NumberSteps ==
    ASSUME NEW S, NEW line \in Seq(S), NEW n, n = Len(line), \A i \in 1..n : line[i][2] \in Nat
    PROVE  \E N \in [0..n -> Nat] :
              /\ N[0] = 0
              /\ \A k \in 1..n : N[k] = Base * N[k - 1] + line[k][2]
              /\ Number(line) = N[n]
<1> DEFINE v(f, s) == IF s = {} THEN 0 ELSE Base * f[s \ {Max(s)}] + line[Max(s)][2]
           D == SUBSET (1..n)
           g == CHOOSE h : h = [s \in D |-> v(h, s)]
           N == [k \in 0..n |-> g[1..k]]
<1>0. n \in Nat /\ DOMAIN line = 1..n /\ Base \in Nat
  BY WireAssumption
<1>1. Number(line) = g[1..n]
  BY <1>0 DEF Number, FoldLeft, MapThenFoldSet
<1>2. PICK f : Folding(f, line, n)
  BY <1>0, FoldingExists
<1> DEFINE h == [s \in D |-> f[s]]
<1>3. h = [s \in D |-> v(h, s)]
  <2>1. \A s \in D : h[s] = f[s] /\ (s /= {} => h[s \ {Max(s)}] = f[s \ {Max(s)}])
    OBVIOUS
  <2>2. \A s \in D : f[s] = v(f, s)
    BY <1>2 DEF Folding
  <2> HIDE DEF h
  <2>3. \A s \in D : f[s] = v(h, s)
    BY <2>1, <2>2
  <2>4. [s \in D |-> f[s]] = [s \in D |-> v(h, s)]
    <3> HIDE DEF v
    <3> QED
      BY <2>3
  <2> QED
    BY <2>4 DEF h
<1> HIDE DEF h
<1>4. g = [s \in D |-> v(g, s)]
  <2> HIDE DEF v
  <2> QED
    BY <1>3 DEF g
<1> HIDE DEF g
<1>5. \A s \in D : g[s] = v(g, s)
  <2> HIDE DEF v, D
  <2> QED
    BY <1>4
<1>6. g[1..0] = 0
  <2>1. 1..0 = {} /\ {} \in D
    OBVIOUS
  <2> QED
    BY <1>5, <2>1
<1>7. ASSUME NEW k \in 1..n PROVE g[1..k] = Base * g[1..(k - 1)] + line[k][2]
  <2> DEFINE s == 1..k
  <2>1. s \in SUBSET (1..n) /\ s /= {} /\ k \in s /\ \A x \in s : x <= k
    BY <1>0
  <2>2. Max(s) = k
    <3>1. Max(s) \in s /\ \A x \in s : x <= Max(s)
      BY <1>0, <2>1, LargestIndex
    <3> QED
      BY <2>1, <3>1
  <2>3. s \ {k} = 1..(k - 1)
    OBVIOUS
  <2> HIDE DEF s
  <2>4. g[s] = Base * g[s \ {k}] + line[k][2]
    BY <1>5, <2>1, <2>2
  <2> QED
    BY <2>3, <2>4 DEF s
<1>8. 0..n \subseteq {k \in 0..n : g[1..k] \in Nat}
  <2> DEFINE A == {k \in 0..n : g[1..k] \in Nat}
  <2>1. 0 \in A
    BY <1>0, <1>6
  <2>2. ASSUME NEW k \in 0..n, k \in A, k < n PROVE k + 1 \in A
    <3>1. k + 1 \in 1..n /\ (k + 1) - 1 = k
      BY <1>0, <2>2
    <3>2. PICK m, d : m = g[1..k] /\ d = line[k + 1][2] /\ m \in Nat /\ d \in Nat
      BY <2>2, <3>1
    <3>3. g[1..(k + 1)] = Base * m + d
      BY <1>7, <3>1, <3>2
    <3>4. Base * m \in Nat
      <4>1. Base \in Nat /\ m \in Nat
        BY <1>0, <3>2
      <4> QED
        BY ONLY <4>1
    <3> QED
      BY <3>1, <3>2, <3>3, <3>4
  <2> HIDE DEF A
  <2>3. 0..n \subseteq A
    BY <1>0, <2>1, <2>2, Induction
  <2> QED
    BY <2>3 DEF A
<1>9. N \in [0..n -> Nat]
  BY <1>8
<1>10. \A k \in 0..n : N[k] = g[1..k]
  OBVIOUS
<1> HIDE DEF N
<1>11. /\ N[0] = 0 /\ Number(line) = N[n]
       /\ \A k \in 1..n : N[k] = Base * N[k - 1] + line[k][2]
  <2>1. 0 \in 0..n /\ n \in 0..n /\ \A k \in 1..n : k \in 0..n /\ k - 1 \in 0..n
    BY <1>0
  <2> QED
    BY <1>1, <1>6, <1>7, <1>10, <2>1
<1> QED
  BY <1>9, <1>11

Numerals == {Digit(d) : d \in 0..(Base - 1)}

\* A line with one more digit.
LEMMA NumberAppend ==
    ASSUME NEW line \in Seq(Numerals), NEW d \in 0..(Base - 1)
    PROVE  /\ Number(line) \in Nat
           /\ Number(Append(line, Digit(d))) = Base * Number(line) + d
<1>0. Base \in Nat
  BY WireAssumption
<1>1. PICK n, more : n = Len(line) /\ more = Append(line, Digit(d))
  OBVIOUS
<1>2. /\ n \in Nat /\ more \in Seq(Numerals) /\ Len(more) = n + 1
      /\ more[n + 1] = Digit(d) /\ \A i \in 1..n : more[i] = line[i]
  <2>1. Digit(d) \in Numerals
    BY DEF Numerals
  <2> QED
    BY <1>1, <2>1
<1>3. \A x \in Numerals : x[2] \in Nat
  BY <1>0 DEF Numerals, Digit
<1>4. \A i \in 1..n : line[i][2] \in Nat
  BY <1>1, <1>3
<1>5. \A i \in 1..(n + 1) : more[i][2] \in Nat
  <2>1. \A i \in 1..(n + 1) : more[i] \in Numerals
    BY <1>2
  <2> QED
    BY <1>3, <2>1
<1>6. PICK N \in [0..n -> Nat] :
          /\ N[0] = 0
          /\ \A k \in 1..n : N[k] = Base * N[k - 1] + line[k][2]
          /\ Number(line) = N[n]
  BY <1>1, <1>4, NumberSteps
<1>7. PICK M \in [0..(n + 1) -> Nat] :
          /\ M[0] = 0
          /\ \A k \in 1..(n + 1) : M[k] = Base * M[k - 1] + more[k][2]
          /\ Number(more) = M[n + 1]
  <2>1. PICK l : l = n + 1 /\ l = Len(more)
    BY <1>2
  <2>2. \A i \in 1..l : more[i][2] \in Nat
    BY <1>5, <2>1
  <2>3. more \in Seq(Numerals) /\ l = Len(more) /\ \A i \in 1..l : more[i][2] \in Nat
    BY <1>2, <2>1, <2>2
  <2>4. \E M \in [0..l -> Nat] :
          /\ M[0] = 0
          /\ \A k \in 1..l : M[k] = Base * M[k - 1] + more[k][2]
          /\ Number(more) = M[l]
    BY ONLY <2>3, NumberSteps
  <2> QED
    BY <2>1, <2>4
<1> DEFINE A == {k \in 0..n : M[k] = N[k]}
<1>8. 0 \in A
  BY <1>2, <1>6, <1>7
<1>9. ASSUME NEW k \in 0..n, k \in A, k < n PROVE k + 1 \in A
  <2>1. k + 1 \in 1..n /\ k + 1 \in 1..(n + 1) /\ (k + 1) - 1 = k
    BY <1>2, <1>9
  <2>2. M[k + 1] = Base * M[k] + line[k + 1][2] /\ N[k + 1] = Base * N[k] + line[k + 1][2]
    BY <1>2, <1>6, <1>7, <2>1
  <2> QED
    BY <1>9, <2>1, <2>2
<1> HIDE DEF A
<1>10. 0..n \subseteq A
  BY <1>2, <1>8, <1>9, Induction
<1>11. M[n] = N[n]
  BY <1>2, <1>10 DEF A
<1>12. n + 1 \in 1..(n + 1) /\ (n + 1) - 1 = n /\ n \in 0..n /\ Digit(d)[2] = d
  BY <1>2 DEF Digit
<1>13. M[n + 1] = Base * M[n] + d
  BY <1>2, <1>7, <1>12
<1>14. Number(line) \in Nat
  BY <1>6, <1>12
<1> QED
  BY <1>1, <1>6, <1>7, <1>11, <1>13, <1>14

(***************************************************************************)
(* Digits is defined by recursion on quotients; D is such a recursive      *)
(* function up to k.                                                       *)
(***************************************************************************)
Quotients(D, k) ==
    \A m \in 0..k : D[m] = IF m < Base THEN <<Digit(m)>>
                                       ELSE Append(D[m \div Base], Digit(m % Base))

\* Quotient and remainder of what has more than one digit.
LEMMA Quotient ==
    ASSUME NEW m \in Nat, m >= Base
    PROVE  /\ m \div Base \in 0..(m - 1) /\ m % Base \in 0..(Base - 1)
           /\ m = Base * (m \div Base) + (m % Base)
<1>0. Base \in Nat /\ Base > 1
  BY WireAssumption
<1>1. PICK q, r : q = m \div Base /\ r = m % Base
  OBVIOUS
<1>2. q \in Int /\ r \in 0..(Base - 1) /\ m = Base * q + r
  BY <1>0, <1>1
<1>3. q > 0
  <2> SUFFICES ASSUME q <= 0 PROVE FALSE
    BY <1>2
  <2>1. Base * q <= 0
    BY <1>0, <1>2
  <2> QED
    BY <1>0, <1>2, <2>1
<1>4. q < m
  <2>1. Base * q >= 2 * q
    BY <1>0, <1>2, <1>3
  <2>2. Base * q \in Int
    BY <1>0, <1>2
  <2> QED
    BY <1>0, <1>2, <1>3, <2>1, <2>2
<1> QED
  BY <1>1, <1>2, <1>3, <1>4

\* There is one for every n, and it gives Digits.
LEMMA DigitSteps ==
    ASSUME NEW n \in Nat
    PROVE  \E D : Quotients(D, n) /\ Digits(n) = D[n]
<1>0. Base \in Nat /\ Base > 1
  BY WireAssumption
<1> DEFINE A == {k \in 0..n : \E f : Quotients(f, k)}
<1>1. 0 \in A
  <2> DEFINE f == [m \in 0..0 |-> <<Digit(m)>>]
  <2>1. \A m \in 0..0 : m = 0 /\ f[m] = <<Digit(m)>>
    OBVIOUS
  <2> HIDE DEF f
  <2>2. Quotients(f, 0)
    BY <1>0, <2>1 DEF Quotients
  <2> QED
    BY <2>2
<1>2. ASSUME NEW k \in 0..n, k \in A, k < n PROVE k + 1 \in A
  <2>1. PICK f : Quotients(f, k)
    BY <1>2
  <2> DEFINE v == IF k + 1 < Base THEN <<Digit(k + 1)>>
                  ELSE Append(f[(k + 1) \div Base], Digit((k + 1) % Base))
             g == [m \in 0..(k + 1) |-> IF m = k + 1 THEN v ELSE f[m]]
  <2>2. g[k + 1] = v /\ \A m \in 0..k : g[m] = f[m]
    <3> HIDE DEF v
    <3> QED
      OBVIOUS
  <2> HIDE DEF g
  <2>3. ASSUME NEW m \in 0..(k + 1)
        PROVE  g[m] = IF m < Base THEN <<Digit(m)>>
                                  ELSE Append(g[m \div Base], Digit(m % Base))
    <3>1. m < Base \/ m \div Base \in 0..k
      <4> SUFFICES ASSUME m >= Base PROVE m \div Base \in 0..k
        BY <1>0
      <4>1. m \div Base \in 0..(m - 1)
        BY Quotient
      <4> QED
        BY <4>1
    <3>2. m >= Base => g[m \div Base] = f[m \div Base]
      BY <1>0, <2>2, <3>1
    <3>3. CASE m = k + 1
      <4>1. g[m] = IF m < Base THEN <<Digit(m)>>
                   ELSE Append(f[m \div Base], Digit(m % Base))
        BY <2>2, <3>3 DEF v
      <4> QED
        BY <1>0, <3>2, <4>1
    <3>4. CASE m /= k + 1
      <4>1. m \in 0..k
        BY <3>4
      <4>2. f[m] = IF m < Base THEN <<Digit(m)>>
                   ELSE Append(f[m \div Base], Digit(m % Base))
        BY <2>1, <4>1 DEF Quotients
      <4> QED
        BY <1>0, <2>2, <3>2, <4>1, <4>2
    <3> QED
      BY <3>3, <3>4
  <2>4. Quotients(g, k + 1)
    BY <2>3 DEF Quotients
  <2> QED
    BY <1>2, <2>4
<1> HIDE DEF A
<1>3. 0..n \subseteq A
  BY <1>1, <1>2, Induction
<1>4. PICK f : Quotients(f, n)
  BY <1>3 DEF A
<1> DEFINE w(F, m) == IF m < Base THEN <<Digit(m)>>
                      ELSE Append(F[m \div Base], Digit(m % Base))
           h == [m \in 0..n |-> f[m]]
           D == CHOOSE F : F = [m \in 0..n |-> w(F, m)]
<1>5. h = [m \in 0..n |-> w(h, m)]
  <2>1. \A m \in 0..n : h[m] = f[m]
    OBVIOUS
  <2> HIDE DEF h
  <2>2. ASSUME NEW m \in 0..n PROVE f[m] = w(h, m)
    <3>1. f[m] = w(f, m)
      BY <1>4 DEF Quotients
    <3>2. m >= Base => m \div Base \in 0..n
      <4> SUFFICES ASSUME m >= Base PROVE m \div Base \in 0..n
        OBVIOUS
      <4>1. m \div Base \in 0..(m - 1)
        BY Quotient
      <4> QED
        BY <4>1
    <3>3. m >= Base => h[m \div Base] = f[m \div Base]
      BY <2>1, <3>2
    <3> QED
      BY <1>0, <3>1, <3>3
  <2>3. [m \in 0..n |-> f[m]] = [m \in 0..n |-> w(h, m)]
    <3> HIDE DEF w
    <3> QED
      BY <2>2
  <2> QED
    BY <2>3 DEF h
<1>6. Digits(n) = D[n]
  BY DEF Digits
<1> HIDE DEF h
<1>7. D = [m \in 0..n |-> w(D, m)]
  <2> HIDE DEF w
  <2> QED
    BY <1>5 DEF D
<1> HIDE DEF D
<1>8. \A m \in 0..n : D[m] = w(D, m)
  <2> HIDE DEF w
  <2> QED
    BY <1>7
<1>9. Quotients(D, n)
  BY <1>8 DEF Quotients
<1> QED
  BY <1>6, <1>9

\* tostring writes digits, and tonumber gives back the number.
LEMMA DigitsFacts ==
    ASSUME NEW n \in Nat
    PROVE  Digits(n) \in Seq(Numerals) /\ Digits(n) /= <<>> /\ Number(Digits(n)) = n
<1>0. Base \in Nat /\ Base > 1
  BY WireAssumption
<1>1. ASSUME NEW d \in 0..(Base - 1)
      PROVE  /\ <<Digit(d)>> \in Seq(Numerals) /\ <<Digit(d)>> /= <<>>
             /\ Number(<<Digit(d)>>) = d
  <2> DEFINE line == <<Digit(d)>>
  <2>0. Digit(d) \in Numerals /\ Digit(d)[2] = d
    BY DEF Numerals, Digit
  <2>1. line \in Seq(Numerals) /\ line /= <<>> /\ Len(line) = 1 /\ line[1][2] = d
    BY <2>0
  <2> HIDE DEF line
  <2>2. \A i \in 1..1 : line[i][2] \in Nat
    BY <1>0, <2>1
  <2>3. PICK N \in [0..1 -> Nat] :
              /\ N[0] = 0
              /\ \A k \in 1..1 : N[k] = Base * N[k - 1] + line[k][2]
              /\ Number(line) = N[1]
    BY <2>1, <2>2, NumberSteps
  <2>4. N[1] = Base * N[0] + d
    BY <2>1, <2>3
  <2>5. N[1] = d
    BY <1>0, <2>3, <2>4
  <2> QED
    BY <2>1, <2>3, <2>5 DEF line
<1>2. PICK D : Quotients(D, n) /\ Digits(n) = D[n]
  BY DigitSteps
<1> DEFINE P(m) == D[m] \in Seq(Numerals) /\ D[m] /= <<>> /\ Number(D[m]) = m
           A == {k \in 0..n : \A m \in 0..k : P(m)}
<1>3. ASSUME NEW m \in 0..n, m < Base PROVE P(m)
  <2>1. m \in 0..(Base - 1)
    BY <1>0, <1>3
  <2>2. D[m] = <<Digit(m)>>
    BY <1>2, <1>3 DEF Quotients
  <2> QED
    BY <1>1, <2>1, <2>2
<1>4. ASSUME NEW m \in 0..n, ~(m < Base), P(m \div Base) PROVE P(m)
  <2>1. PICK q, r, l : q = m \div Base /\ r = m % Base /\ l = D[q]
    OBVIOUS
  <2>2. r \in 0..(Base - 1) /\ m = Base * q + r
    <3>1. m \in Nat /\ m >= Base
      BY <1>0, <1>4
    <3>2. m % Base \in 0..(Base - 1) /\ m = Base * (m \div Base) + (m % Base)
      BY <3>1, Quotient
    <3> QED
      BY <2>1, <3>2
  <2>3. D[m] = Append(l, Digit(r))
    BY <1>2, <1>4, <2>1 DEF Quotients
  <2>4. l \in Seq(Numerals) /\ Number(l) = q
    BY <1>4, <2>1
  <2>5. Number(Append(l, Digit(r))) = Base * q + r
    BY <2>2, <2>4, NumberAppend
  <2>6. Append(l, Digit(r)) \in Seq(Numerals) /\ Append(l, Digit(r)) /= <<>>
    <3>1. PICK x : x = Digit(r)
      OBVIOUS
    <3>2. x \in Numerals
      BY <2>2, <3>1 DEF Numerals
    <3>3. l \in Seq(Numerals)
      BY <2>4
    <3>4. Append(l, x) \in Seq(Numerals) /\ Append(l, x) /= <<>>
      BY ONLY <3>2, <3>3
    <3> QED
      BY <3>1, <3>4
  <2> QED
    BY <2>2, <2>3, <2>5, <2>6
<1>5. 0 \in A
  <2>1. P(0)
    BY <1>0, <1>3
  <2> HIDE DEF P
  <2> QED
    BY <2>1
<1>6. ASSUME NEW k \in 0..n, k \in A, k < n PROVE k + 1 \in A
  <2>1. k + 1 \in 0..n /\ \A m \in 0..k : P(m)
    BY <1>6
  <2>2. P(k + 1)
    <3>1. CASE k + 1 < Base
      BY <1>3, <2>1, <3>1
    <3>2. CASE ~(k + 1 < Base)
      <4>1. k + 1 \in Nat /\ k + 1 >= Base
        BY <1>0, <3>2
      <4>2. (k + 1) \div Base \in 0..((k + 1) - 1)
        BY <4>1, Quotient
      <4>3. (k + 1) \div Base \in 0..k
        BY <4>2
      <4>4. P((k + 1) \div Base)
        BY <2>1, <4>3
      <4> QED
        BY <1>4, <2>1, <3>2, <4>4
    <3> QED
      BY <3>1, <3>2
  <2>3. \A m \in 0..(k + 1) : m \in 0..k \/ m = k + 1
    OBVIOUS
  <2> HIDE DEF P
  <2> QED
    BY <2>1, <2>2, <2>3
<1> HIDE DEF A
<1>7. 0..n \subseteq A
  BY <1>5, <1>6, Induction
<1>8. n \in A /\ n \in 0..n
  BY <1>7
<1>9. P(n)
  <2> HIDE DEF P
  <2> QED
    BY <1>8 DEF A
<1> QED
  BY <1>2, <1>9

\* The line is a number.
LEMMA NumberOfDigits ==
    ASSUME NEW n \in Nat
    PROVE  IsNumber(Digits(n)) /\ Number(Digits(n)) = n
<1>1. PICK line : line = Digits(n)
  OBVIOUS
<1>2. line \in Seq(Numerals) /\ line /= <<>> /\ Number(line) = n
  BY <1>1, DigitsFacts
<1>3. \A x \in Numerals : x[1] = "digit"
  BY DEF Numerals, Digit
<1>4. \A i \in DOMAIN line : line[i] \in Numerals
  BY <1>2
<1> QED
  BY <1>1, <1>2, <1>3, <1>4 DEF IsNumber

\* No newline is among the digits.
LEMMA DigitsAreBytes ==
    ASSUME NEW n \in Nat
    PROVE  /\ Digits(n) \in Seq(Bytes)
           /\ \A i \in 1..Len(Digits(n)) : Digits(n)[i] /= Newline
<1>1. PICK line : line = Digits(n)
  OBVIOUS
<1>2. line \in Seq(Numerals)
  BY <1>1, DigitsFacts
<1>3. \A x \in Numerals : x \in Bytes /\ x /= Newline
  BY DEF Numerals, Bytes, Digit, Newline
<1>4. \A i \in 1..Len(line) : line[i] \in Numerals
  BY <1>2
<1>5. line \in Seq(Bytes)
  BY <1>2, <1>3, <1>4
<1> QED
  BY <1>1, <1>3, <1>4, <1>5


-----------------------------------------------------------------------------
(***************************************************************************)
(* Sequences of bytes.                                                     *)
(***************************************************************************)

\* What is read or sent first and what is left of a buffer make it up.
LEMMA CutInTwo ==
    ASSUME NEW b \in Seq(Bytes), NEW n \in 0..Len(b)
    PROVE  /\ First(n, b) \in Seq(Bytes) /\ Rest(n, b) \in Seq(Bytes)
           /\ First(n, b) \o Rest(n, b) = b
           /\ Len(First(n, b)) = n /\ Len(Rest(n, b)) = Len(b) - n
<1>1. Len(b) \in Nat /\ n \in Nat /\ n <= Len(b)
  OBVIOUS
<1>2. /\ SubSeq(b, 1, n) \in Seq(Bytes) /\ SubSeq(b, n + 1, Len(b)) \in Seq(Bytes)
      /\ Len(SubSeq(b, 1, n)) = n /\ Len(SubSeq(b, n + 1, Len(b))) = Len(b) - n
  OBVIOUS
<1>3. SubSeq(b, 1, n) \o SubSeq(b, n + 1, Len(b)) = SubSeq(b, 1, Len(b))
  <2>1. 1 \in 1..(Len(b) + 1) /\ n \in (1 - 1)..Len(b) /\ Len(b) \in n..Len(b)
    BY <1>1
  <2> QED
    BY <2>1, ConcatAdjacentSubSeq
<1>4. SubSeq(b, 1, Len(b)) = b
  BY SubSeqFull
<1> QED
  BY <1>2, <1>3, <1>4 DEF First, Rest

\* What begins with as many bytes begins with the same.
LEMMA SameBeginning ==
    ASSUME NEW a \in Seq(Bytes), NEW b \in Seq(Bytes),
           NEW x \in Seq(Bytes), NEW y \in Seq(Bytes),
           a \o x = b \o y, Len(a) = Len(b)
    PROVE  a = b /\ x = y
<1>1. ASSUME NEW i \in 1..Len(a) PROVE a[i] = b[i]
  <2>1. (a \o x)[i] = a[i] /\ (b \o y)[i] = b[i]
    OBVIOUS
  <2> QED
    BY <2>1
<1>2. a = b
  BY <1>1, SeqEqual
<1>3. a \o x = a \o y
  BY <1>2
<1> QED
  BY <1>2, <1>3, ConcatSimplifications

\* Concatenation of bytes.
LEMMA Joined ==
    \A a, b, c \in Seq(Bytes) :
        /\ a \o b \in Seq(Bytes)
        /\ (a \o b) \o c = a \o (b \o c)
        /\ a \o <<>> = a /\ <<>> \o a = a
<1> TAKE a, b, c \in Seq(Bytes)
<1>1. (a \o b) \o c = a \o (b \o c)
  BY ConcatAssociative
<1>2. a \o <<>> = a /\ <<>> \o a = a
  BY ConcatEmptySeq
<1> QED
  BY <1>1, <1>2

\* It is associative.
LEMMA Regrouped == \A a, b, c \in Seq(Bytes) : (a \o b) \o c = a \o (b \o c)
BY Joined

\* receive("*l") finds the first newline.
LEMMA LineEndFacts ==
    ASSUME NEW b \in Seq(Bytes)
    PROVE  /\ LineEnd(b) \in 0..Len(b)
           /\ LineEnd(b) > 0 => b[LineEnd(b)] = Newline
           /\ \A i \in 1..Len(b) : i < LineEnd(b) \/ LineEnd(b) = 0 => b[i] /= Newline
<1> DEFINE I == {i \in 1..Len(b) : b[i] = Newline}
<1>1. LineEnd(b) = IF I /= {} THEN Min(I) ELSE 0
  BY DEF LineEnd, SelectInSeq
<1>2. CASE I = {}
  BY <1>1, <1>2
<1>3. CASE I /= {}
  <2>1. I \subseteq Nat
    OBVIOUS
  <2>2. \E m \in I : \A k \in I : m <= k
    <3> HIDE DEF I
    <3> QED
      BY <1>3, <2>1, LeastNumber
  <2>3. Min(I) \in I /\ \A k \in I : Min(I) <= k
    BY <2>2 DEF Min
  <2> QED
    BY <1>1, <1>3, <2>3
<1> QED
  BY <1>2, <1>3

\* Whoever reads the line that a message begins with has its length.
LEMMA HeaderRead ==
    ASSUME NEW bytes \in Seq(Bytes), NEW more \in Seq(Bytes), NEW rest \in Seq(Bytes),
           NEW n \in Nat,
           bytes \o more = (Digits(n) \o <<Newline>>) \o rest,
           LineEnd(bytes) > 0
    PROVE  /\ IsNumber(First(LineEnd(bytes) - 1, bytes))
           /\ Number(First(LineEnd(bytes) - 1, bytes)) = n
           /\ Rest(LineEnd(bytes), bytes) \in Seq(Bytes)
           /\ Rest(LineEnd(bytes), bytes) \o more = rest
<1> DEFINE e == LineEnd(bytes)
           d == Digits(n)
           l == d \o <<Newline>>
<1>1. e \in 1..Len(bytes) /\ bytes[e] = Newline /\ \A i \in 1..(e - 1) : bytes[i] /= Newline
  <2>1. /\ e \in 0..Len(bytes) /\ bytes[e] = Newline
        /\ \A i \in 1..Len(bytes) : i < e => bytes[i] /= Newline
    BY LineEndFacts
  <2>2. Len(bytes) \in Nat /\ e > 0
    OBVIOUS
  <2> HIDE DEF e
  <2> QED
    BY <2>1, <2>2
<1>2. d \in Seq(Bytes) /\ \A i \in 1..Len(d) : d[i] /= Newline
  BY DigitsAreBytes
<1>3. <<Newline>> \in Seq(Bytes) /\ Len(<<Newline>>) = 1 /\ <<Newline>>[1] = Newline
  BY DEF Bytes
<1>4. /\ l \in Seq(Bytes) /\ Len(l) = Len(d) + 1 /\ l[Len(d) + 1] = Newline
      /\ \A i \in 1..Len(d) : l[i] /= Newline
  <2> HIDE DEF d
  <2> QED
    BY <1>2, <1>3, ConcatProperties
<1> HIDE DEF e, d, l
<1>5. \A i \in 1..Len(bytes) : (bytes \o more)[i] = bytes[i]
  OBVIOUS
<1>6. \A i \in 1..Len(l) : (bytes \o more)[i] = l[i]
  <2>1. bytes \o more = l \o rest
    BY DEF d, l
  <2>2. l \in Seq(Bytes) /\ rest \in Seq(Bytes)
    BY <1>4
  <2>3. \A i \in 1..Len(l) : (l \o rest)[i] = l[i]
    BY ONLY <2>2
  <2> QED
    BY <2>1, <2>3
<1>7. e = Len(d) + 1
  <2>1. Len(d) \in Nat /\ Len(bytes) \in Nat
    BY <1>2
  <2>2. e >= Len(d) + 1
    <3> SUFFICES ASSUME e <= Len(d) PROVE FALSE
      BY <1>1, <2>1
    <3>1. e \in 1..Len(d) /\ e \in 1..Len(bytes) /\ e \in 1..Len(l)
      BY <1>1, <1>4, <2>1
    <3> QED
      BY <1>1, <1>4, <1>5, <1>6, <3>1
  <2>3. e <= Len(d) + 1
    <3> SUFFICES ASSUME Len(d) + 1 < e PROVE FALSE
      BY <1>1, <2>1
    <3>1. Len(d) + 1 \in 1..(e - 1) /\ Len(d) + 1 \in 1..Len(bytes) /\ Len(d) + 1 \in 1..Len(l)
      BY <1>1, <1>4, <2>1
    <3> QED
      BY <1>1, <1>4, <1>5, <1>6, <3>1
  <2> QED
    BY <1>1, <2>1, <2>2, <2>3
<1>8. /\ First(e, bytes) \in Seq(Bytes) /\ Rest(e, bytes) \in Seq(Bytes)
      /\ First(e, bytes) \o Rest(e, bytes) = bytes /\ Len(First(e, bytes)) = e
  <2>1. e \in 0..Len(bytes)
    BY <1>1
  <2> QED
    BY <2>1, CutInTwo
<1> DEFINE a == First(e, bytes)
           z == Rest(e, bytes)
<1>9. a \in Seq(Bytes) /\ z \in Seq(Bytes) /\ a \o z = bytes /\ Len(a) = e
  BY <1>8
<1> HIDE DEF a, z
<1>10. z \o more \in Seq(Bytes) /\ a \o (z \o more) = l \o rest
  <2>0. a \in Seq(Bytes) /\ z \in Seq(Bytes) /\ more \in Seq(Bytes)
    BY <1>9
  <2>1. z \o more \in Seq(Bytes)
    BY ONLY <2>0, Joined
  <2>2. (a \o z) \o more = a \o (z \o more)
    BY ONLY <2>0, Regrouped
  <2> QED
    <3>1. bytes \o more = l \o rest
      BY DEF d, l
    <3>2. a \o z = bytes
      BY <1>9
    <3> QED
      BY ONLY <2>1, <2>2, <3>1, <3>2
<1>11. a = l /\ z \o more = rest
  <2>1. Len(a) = Len(l)
    BY <1>4, <1>7, <1>9
  <2>2. /\ a \in Seq(Bytes) /\ l \in Seq(Bytes)
        /\ z \o more \in Seq(Bytes) /\ rest \in Seq(Bytes)
    BY <1>4, <1>9, <1>10
  <2>3. a \o (z \o more) = l \o rest
    BY <1>10
  <2> QED
    BY ONLY <2>1, <2>2, <2>3, SameBeginning
<1>12. First(e - 1, bytes) = d
  <2>0. Len(d) \in Nat /\ Len(bytes) \in Nat
    BY <1>2
  <2>1. First(e - 1, bytes) \in Seq(Bytes) /\ Len(First(e - 1, bytes)) = Len(d)
    <3>1. e - 1 \in 0..Len(bytes) /\ e - 1 = Len(d)
      BY <1>1, <1>7, <2>0
    <3>2. PICK k : k = e - 1
      OBVIOUS
    <3>3. k \in 0..Len(bytes)
      BY <3>1, <3>2
    <3>4. First(k, bytes) \in Seq(Bytes) /\ Len(First(k, bytes)) = k
      BY <3>3, CutInTwo
    <3> QED
      BY <3>1, <3>2, <3>4
  <2>2. ASSUME NEW i \in 1..Len(d) PROVE First(e - 1, bytes)[i] = d[i]
    <3>1. i \in 1..(e - 1) /\ i \in 1..Len(bytes) /\ i \in 1..Len(l)
      BY <1>1, <1>4, <1>7, <2>0
    <3>2. First(e - 1, bytes)[i] = bytes[i]
      <4>1. e - 1 \in 0..Len(bytes)
        BY <1>1, <2>0
      <4> QED
        BY <3>1, <4>1 DEF First
    <3>3. l[i] = d[i]
      BY <1>2, <1>3 DEF l
    <3> QED
      BY <1>5, <1>6, <3>1, <3>2, <3>3
  <2> QED
    BY <1>2, <2>1, <2>2, SeqEqual
<1>13. IsNumber(d) /\ Number(d) = n
  BY NumberOfDigits DEF d
<1> QED
  BY <1>9, <1>11, <1>12, <1>13 DEF e, z

-----------------------------------------------------------------------------
(***************************************************************************)
(* Messages in a stream of bytes.  A message is told by its id and length. *)
(***************************************************************************)
Messages == Nat \X Nat

FrameOf(m) == Frame(m[1], m[2])
BodyOf(m) == Body(m[1], m[2])

\* A frame is a header and a body of the length the header says.
LEMMA FrameFacts ==
    ASSUME NEW m \in Messages
    PROVE  /\ FrameOf(m) \in Seq(Bytes) /\ BodyOf(m) \in Seq(Bytes)
           /\ FrameOf(m) = (Digits(m[2]) \o <<Newline>>) \o BodyOf(m)
           /\ Len(BodyOf(m)) = m[2]
<1>1. /\ Base \in Nat /\ Base > 1 /\ m[1] \in Nat /\ m[2] \in Nat
  BY WireAssumption DEF Messages
<1>2. \A k \in 1..m[2] : k \in Nat
  BY <1>1
<1>3. \A k \in 1..m[2] : <<"body", m[1], k>> \in Bytes
  <2>1. \A a, b \in Nat : <<"body", a, b>> \in {"body"} \X Nat \X Nat
    OBVIOUS
  <2> QED
    BY <1>1, <1>2, <2>1 DEF Bytes
<1>4. BodyOf(m) \in Seq(Bytes) /\ Len(BodyOf(m)) = m[2]
  <2>1. PICK id, n : id = m[1] /\ n = m[2]
    OBVIOUS
  <2>2. n \in Nat /\ \A k \in 1..n : <<"body", id, k>> \in Bytes
    BY <1>1, <1>3, <2>1
  <2>3. BodyOf(m) = [k \in 1..n |-> <<"body", id, k>>]
    BY <2>1 DEF BodyOf, Body
  <2> QED
    BY <2>1, <2>2, <2>3
<1>5. Digits(m[2]) \in Seq(Bytes) /\ <<Newline>> \in Seq(Bytes)
  <2>1. Digits(m[2]) \in Seq(Bytes)
    BY <1>1, DigitsAreBytes
  <2> QED
    BY <2>1 DEF Bytes
<1>6. Digits(m[2]) \o <<Newline>> \in Seq(Bytes)
  BY <1>5, Joined
<1>7. FrameOf(m) = (Digits(m[2]) \o <<Newline>>) \o BodyOf(m)
  BY <1>4, <1>5, Joined DEF FrameOf, BodyOf, Frame
<1>8. FrameOf(m) \in Seq(Bytes)
  BY <1>4, <1>6, <1>7, Joined
<1> QED
  BY <1>4, <1>7, <1>8

(***************************************************************************)
(* The bytes are those of all messages of ms but the first k: C[i] is what *)
(* comes after the i-th.                                                   *)
(***************************************************************************)
Parts(C, bytes, k, ms) ==
    /\ k \in 0..Len(ms)
    /\ C \in [k..Len(ms) -> Seq(Bytes)]
    /\ C[k] = bytes
    /\ C[Len(ms)] = <<>>
    /\ \A i \in (k + 1)..Len(ms) : C[i - 1] = FrameOf(ms[i]) \o C[i]

Holds(bytes, k, ms) == \E C : Parts(C, bytes, k, ms)

\* When all has been read, no bytes are left.
LEMMA HoldsNothing ==
    ASSUME NEW ms \in Seq(Messages)
    PROVE  Holds(<<>>, Len(ms), ms)
<1> DEFINE C == [i \in Len(ms)..Len(ms) |-> <<>>]
<1>1. Len(ms) \in Nat /\ <<>> \in Seq(Bytes) /\ (Len(ms) + 1)..Len(ms) = {}
  OBVIOUS
<1>2. C \in [Len(ms)..Len(ms) -> Seq(Bytes)] /\ C[Len(ms)] = <<>>
  BY <1>1
<1> HIDE DEF C
<1>3. PICK n : n = Len(ms)
  OBVIOUS
<1>4. n \in 0..n /\ C \in [n..n -> Seq(Bytes)] /\ C[n] = <<>> /\ (n + 1)..n = {}
  BY <1>1, <1>2, <1>3
<1>5. Parts(C, <<>>, n, ms)
  BY <1>3, <1>4 DEF Parts
<1> QED
  BY <1>3, <1>5 DEF Holds

\* The next message.
LEMMA HoldsNext ==
    ASSUME NEW ms \in Seq(Messages), NEW k, NEW bytes, Holds(bytes, k, ms), bytes /= <<>>
    PROVE  /\ k + 1 \in 1..Len(ms) /\ ms[k + 1] \in Messages
           /\ \E rest \in Seq(Bytes) :
                 bytes = FrameOf(ms[k + 1]) \o rest /\ Holds(rest, k + 1, ms)
<1>1. PICK C : Parts(C, bytes, k, ms)
  BY DEF Holds
<1>2. Len(ms) \in Nat /\ k \in 0..Len(ms) /\ k /= Len(ms)
  BY <1>1 DEF Parts
<1>3. /\ k + 1 \in 1..Len(ms) /\ k + 1 \in k..Len(ms) /\ k + 1 \in (k + 1)..Len(ms)
      /\ (k + 1) - 1 = k
  BY <1>2
<1>4. ms[k + 1] \in Messages
  BY <1>3
<1> DEFINE D == [i \in (k + 1)..Len(ms) |-> C[i]]
<1>5. D \in [(k + 1)..Len(ms) -> Seq(Bytes)]
  BY <1>1, <1>2 DEF Parts
<1>6. \A i \in (k + 1)..Len(ms) : D[i] = C[i]
  OBVIOUS
<1> HIDE DEF D
<1>7. Parts(D, C[k + 1], k + 1, ms)
  <2>1. k + 1 \in 0..Len(ms) /\ k + 1 \in (k + 1)..Len(ms) /\ Len(ms) \in (k + 1)..Len(ms)
    BY <1>2
  <2>2. D[k + 1] = C[k + 1] /\ D[Len(ms)] = <<>>
    BY <1>1, <1>6, <2>1 DEF Parts
  <2>3. ASSUME NEW i \in (k + 1 + 1)..Len(ms) PROVE D[i - 1] = FrameOf(ms[i]) \o D[i]
    <3>1. i \in (k + 1)..Len(ms) /\ i - 1 \in (k + 1)..Len(ms)
      BY <1>2
    <3> QED
      BY <1>1, <1>6, <3>1 DEF Parts
  <2> QED
    BY <1>5, <2>1, <2>2, <2>3 DEF Parts
<1>8. C[k + 1] \in Seq(Bytes) /\ bytes = FrameOf(ms[k + 1]) \o C[k + 1]
  BY <1>1, <1>3 DEF Parts
<1> QED
  BY <1>3, <1>4, <1>7, <1>8 DEF Holds

\* Another message is added.
LEMMA HoldsMore ==
    ASSUME NEW ms \in Seq(Messages), NEW k, NEW bytes, Holds(bytes, k, ms),
           NEW m \in Messages
    PROVE  Holds(bytes \o FrameOf(m), k, Append(ms, m))
<1>1. PICK C : Parts(C, bytes, k, ms)
  BY DEF Holds
<1> DEFINE n == Len(ms)
           f == FrameOf(m)
           D == [i \in k..(n + 1) |-> IF i = n + 1 THEN <<>> ELSE C[i] \o f]
           ns == Append(ms, m)
<1>2. n \in Nat /\ k \in 0..n /\ f \in Seq(Bytes) /\ <<>> \in Seq(Bytes)
  BY <1>1, FrameFacts DEF Parts
<1>3. /\ ns \in Seq(Messages) /\ Len(ns) = n + 1 /\ ns[n + 1] = m
      /\ \A i \in 1..n : ns[i] = ms[i]
  OBVIOUS
<1>5. /\ \A i \in k..n : C[i] \in Seq(Bytes)
      /\ C[k] = bytes /\ C[n] = <<>>
      /\ \A i \in (k + 1)..n : C[i - 1] = FrameOf(ms[i]) \o C[i]
  BY <1>1 DEF Parts
<1>6. /\ \A i \in k..n : D[i] = C[i] \o f
      /\ D[n + 1] = <<>>
  <2>1. n + 1 \in k..(n + 1) /\ \A i \in k..n : i \in k..(n + 1) /\ i /= n + 1
    BY <1>2
  <2> HIDE DEF n, f
  <2> QED
    BY <2>1
<1>7. D \in [k..(n + 1) -> Seq(Bytes)]
  <2> SUFFICES ASSUME NEW i \in k..(n + 1)
               PROVE  (IF i = n + 1 THEN <<>> ELSE C[i] \o f) \in Seq(Bytes)
    OBVIOUS
  <2>1. i /= n + 1 => C[i] \o f \in Seq(Bytes)
    <3>1. i /= n + 1 => i \in k..n
      BY <1>2
    <3> HIDE DEF f, n
    <3> QED
      BY <1>2, <1>5, <3>1, Joined
  <2> HIDE DEF f, n
  <2> QED
    BY <1>2, <2>1
<1> HIDE DEF D, f, n, ns
<1>8. ASSUME NEW i \in (k + 1)..(n + 1) PROVE D[i - 1] = FrameOf(ns[i]) \o D[i]
  <2>1. CASE i = n + 1
    <3>1. i - 1 = n /\ n \in k..n
      BY <1>2, <2>1
    <3>2. D[i - 1] = <<>> \o f /\ ns[i] = m /\ D[i] = <<>>
      BY <1>3, <1>5, <1>6, <2>1, <3>1
    <3> QED
      BY <1>2, <3>2, Joined DEF f
  <2>2. CASE i /= n + 1
    <3>1. i \in (k + 1)..n /\ i \in 1..n /\ i - 1 \in k..n /\ i \in k..n
      BY <1>2, <2>2
    <3>2. D[i - 1] = (FrameOf(ms[i]) \o C[i]) \o f
      BY <1>5, <1>6, <3>1
    <3>3. FrameOf(ms[i]) \in Seq(Bytes) /\ C[i] \in Seq(Bytes)
      <4>1. ms[i] \in Messages
        BY <3>1 DEF n
      <4> QED
        BY <1>5, <3>1, <4>1, FrameFacts
    <3> QED
      <4>1. (FrameOf(ms[i]) \o C[i]) \o f = FrameOf(ms[i]) \o (C[i] \o f)
        <5>1. PICK a, b, c : a = FrameOf(ms[i]) /\ b = C[i] /\ c = f
          OBVIOUS
        <5>2. a \in Seq(Bytes) /\ b \in Seq(Bytes) /\ c \in Seq(Bytes)
          BY <1>2, <3>3, <5>1
        <5>3. (a \o b) \o c = a \o (b \o c)
          BY ONLY <5>2, Regrouped
        <5> QED
          BY <5>1, <5>3
      <4>2. D[i] = C[i] \o f /\ ns[i] = ms[i]
        BY <1>3, <1>6, <3>1
      <4> QED
        BY <3>2, <4>1, <4>2
  <2> QED
    BY <2>1, <2>2
<1>9. D[k] = bytes \o f
  <2>1. k \in k..n
    BY <1>2
  <2> QED
    BY <1>5, <1>6, <2>1
<1>10. Parts(D, bytes \o f, k, ns)
  <2>1. k \in 0..(n + 1)
    BY <1>2
  <2> QED
    BY <1>3, <1>6, <1>7, <1>8, <1>9, <2>1 DEF Parts
<1> QED
  BY <1>10 DEF Holds, f, ns

-----------------------------------------------------------------------------
(***************************************************************************)
(* An end of the connection reading.                                       *)
(***************************************************************************)

(***************************************************************************)
(* Reader e has handed k messages to box.unpack, and bytes are yet to come *)
(* out of its socket: they are those of the other messages of ms, less     *)
(* what e has of the one it is reading.                                    *)
(***************************************************************************)
Reads(e, bytes, k, ms) ==
    IF e.pc = "body"
    THEN /\ k + 1 \in 1..Len(ms)
         /\ e.need = ms[k + 1][2]
         /\ Len(e.data) <= e.need
         /\ \E rest \in Seq(Bytes) :
               e.data \o bytes = BodyOf(ms[k + 1]) \o rest /\ Holds(rest, k + 1, ms)
    ELSE Holds(bytes, k, ms)

\* q is what was handed to box.unpack.
Understood(q, ms) ==
    Len(q) <= Len(ms) /\ \A i \in 1..Len(q) : q[i] = BodyOf(ms[i])

\* The header of the next message is no malformed one, and gives its length.
LEMMA ReadsHeader ==
    ASSUME NEW ms \in Seq(Messages), NEW bytes \in Seq(Bytes), NEW more \in Seq(Bytes),
           NEW all, all = bytes \o more, NEW k,
           NEW e, e.pc /= "body", Reads(e, all, k, ms), LineEnd(bytes) > 0
    PROVE  /\ IsNumber(First(LineEnd(bytes) - 1, bytes))
           /\ \A f : f.pc = "body" /\ f.need = Number(First(LineEnd(bytes) - 1, bytes))
                     /\ f.data = <<>> => Reads(f, Rest(LineEnd(bytes), bytes) \o more, k, ms)
<1>1. Holds(all, k, ms)
  BY DEF Reads
<1>2. all /= <<>>
  <2>1. bytes /= <<>>
    BY LineEndFacts
  <2> QED
    BY <2>1
<1>3. /\ k + 1 \in 1..Len(ms) /\ ms[k + 1] \in Messages
      /\ \E rest \in Seq(Bytes) : all = FrameOf(ms[k + 1]) \o rest /\ Holds(rest, k + 1, ms)
  BY <1>1, <1>2, HoldsNext
<1>4. PICK rest \in Seq(Bytes) : all = FrameOf(ms[k + 1]) \o rest /\ Holds(rest, k + 1, ms)
  BY <1>3
<1> DEFINE m == ms[k + 1]
           b == BodyOf(m)
           h == Digits(m[2]) \o <<Newline>>
<1>5. FrameOf(m) = h \o b /\ b \in Seq(Bytes) /\ Len(b) = m[2]
  BY <1>3, FrameFacts
<1>6. m[2] \in Nat
  BY <1>3, WireAssumption DEF Messages
<1>7. h \in Seq(Bytes)
  <2>1. Digits(m[2]) \in Seq(Bytes)
    BY <1>6, DigitsAreBytes
  <2>2. <<Newline>> \in Seq(Bytes)
    BY DEF Bytes
  <2> QED
    BY <2>1, <2>2, Joined
<1> HIDE DEF m, b, h
<1>8. bytes \o more = h \o (b \o rest) /\ b \o rest \in Seq(Bytes)
  <2>0. h \in Seq(Bytes) /\ b \in Seq(Bytes) /\ rest \in Seq(Bytes)
    BY <1>5, <1>7
  <2>1. (h \o b) \o rest = h \o (b \o rest)
    BY ONLY <2>0, Regrouped
  <2>4. b \o rest \in Seq(Bytes)
    BY ONLY <2>0, Joined
  <2>2. all = FrameOf(m) \o rest
    BY <1>4 DEF m
  <2>3. bytes \o more = (h \o b) \o rest
    BY ONLY <2>2, <1>5, all = bytes \o more
  <2> QED
    BY ONLY <2>1, <2>3, <2>4
<1>9. /\ IsNumber(First(LineEnd(bytes) - 1, bytes))
      /\ Number(First(LineEnd(bytes) - 1, bytes)) = m[2]
      /\ Rest(LineEnd(bytes), bytes) \in Seq(Bytes)
      /\ Rest(LineEnd(bytes), bytes) \o more = b \o rest
  <2>1. PICK n, r : n = m[2] /\ r = b \o rest
    OBVIOUS
  <2>2. /\ bytes \in Seq(Bytes) /\ more \in Seq(Bytes) /\ r \in Seq(Bytes)
        /\ n \in Nat
        /\ bytes \o more = (Digits(n) \o <<Newline>>) \o r
        /\ LineEnd(bytes) > 0
    BY <1>6, <1>8, <2>1 DEF h
  <2>3. /\ IsNumber(First(LineEnd(bytes) - 1, bytes))
        /\ Number(First(LineEnd(bytes) - 1, bytes)) = n
        /\ Rest(LineEnd(bytes), bytes) \in Seq(Bytes)
        /\ Rest(LineEnd(bytes), bytes) \o more = r
    BY ONLY <2>2, HeaderRead
  <2> QED
    BY <2>1, <2>3
<1>10. ASSUME NEW f, f.pc = "body", f.need = m[2], f.data = <<>>
       PROVE  Reads(f, b \o rest, k, ms)
  <2>1. <<>> \o (b \o rest) = b \o rest
    BY <1>8, Joined
  <2>2. Len(<<>>) <= m[2]
    BY <1>6
  <2> QED
    BY <1>3, <1>4, <1>10, <2>1, <2>2 DEF Reads, m, b
<1> QED
  BY <1>9, <1>10

\* Reading part of a body leaves the rest of it in front.
LEMMA ReadsBody ==
    ASSUME NEW ms \in Seq(Messages), NEW bytes \in Seq(Bytes), NEW more \in Seq(Bytes),
           NEW k, NEW e, e.pc = "body", e.data \in Seq(Bytes),
           Reads(e, bytes \o more, k, ms), NEW n \in 0..Len(bytes), Len(e.data) + n <= e.need,
           NEW f, f.pc = "body", f.need = e.need, f.data = e.data \o First(n, bytes)
    PROVE  Reads(f, Rest(n, bytes) \o more, k, ms)
<1> DEFINE a == First(n, bytes)
           z == Rest(n, bytes)
           d == e.data
<1>1. a \in Seq(Bytes) /\ z \in Seq(Bytes) /\ a \o z = bytes /\ Len(a) = n
  BY CutInTwo
<1>2. d \in Seq(Bytes) /\ f.data = d \o a
  OBVIOUS
<1> HIDE DEF a, z, d
<1>3. (d \o a) \o (z \o more) = d \o (bytes \o more)
  <2>1. /\ (d \o a) \o (z \o more) = d \o (a \o (z \o more))
        /\ (a \o z) \o more = a \o (z \o more)
    <3>1. z \o more \in Seq(Bytes)
      BY <1>1, Joined
    <3>2. (d \o a) \o (z \o more) = d \o (a \o (z \o more))
      <4>1. PICK c : c = z \o more
        OBVIOUS
      <4>2. c \in Seq(Bytes) /\ a \in Seq(Bytes) /\ d \in Seq(Bytes)
        BY <1>1, <1>2, <3>1, <4>1
      <4>3. (d \o a) \o c = d \o (a \o c)
        BY ONLY <4>2, Regrouped
      <4> QED
        BY <4>1, <4>3
    <3>3. (a \o z) \o more = a \o (z \o more)
      <4>1. a \in Seq(Bytes) /\ z \in Seq(Bytes) /\ more \in Seq(Bytes)
        BY <1>1
      <4> QED
        BY ONLY <4>1, Regrouped
    <3> QED
      BY ONLY <3>2, <3>3
  <2>2. a \o z = bytes
    BY <1>1
  <2> QED
    BY ONLY <2>1, <2>2
<1>4. Len(f.data) <= f.need
  <2>1. Len(d \o a) = Len(d) + Len(a)
    <3>1. d \in Seq(Bytes) /\ a \in Seq(Bytes)
      BY <1>1, <1>2
    <3> QED
      BY ONLY <3>1, ConcatProperties
  <2> QED
    <3>1. Len(d) + n <= e.need
      BY DEF d
    <3>2. Len(f.data) = Len(d) + n
      BY <1>1, <1>2, <2>1
    <3> QED
      BY <3>1, <3>2
<1> QED
  BY <1>2, <1>3, <1>4 DEF Reads, d, z

\* A body that is complete is that of the next message, and a frame is in front.
LEMMA ReadsAll ==
    ASSUME NEW ms \in Seq(Messages), NEW bytes \in Seq(Bytes), NEW k,
           NEW e, e.pc = "body", e.data \in Seq(Bytes), Len(e.data) = e.need,
           Reads(e, bytes, k, ms)
    PROVE  /\ k + 1 \in 1..Len(ms) /\ e.data = BodyOf(ms[k + 1])
           /\ Holds(bytes, k + 1, ms)
<1>1. PICK rest \in Seq(Bytes) :
          e.data \o bytes = BodyOf(ms[k + 1]) \o rest /\ Holds(rest, k + 1, ms)
  BY DEF Reads
<1>2. k + 1 \in 1..Len(ms) /\ e.need = ms[k + 1][2]
  BY DEF Reads
<1>3. ms[k + 1] \in Messages
  BY <1>2
<1>4. PICK b, d : b = BodyOf(ms[k + 1]) /\ d = e.data
  OBVIOUS
<1>5. b \in Seq(Bytes) /\ d \in Seq(Bytes) /\ Len(d) = Len(b) /\ d \o bytes = b \o rest
  BY <1>1, <1>2, <1>3, <1>4, FrameFacts
<1>6. d = b /\ bytes = rest
  BY ONLY <1>5, bytes \in Seq(Bytes), rest \in Seq(Bytes), SameBeginning
<1> QED
  BY <1>1, <1>2, <1>4, <1>6

\* Another frame is put behind what is yet to come.
LEMMA ReadsMore ==
    ASSUME NEW ms \in Seq(Messages), NEW m \in Messages, NEW bytes \in Seq(Bytes), NEW k,
           NEW e, e.pc = "body" => e.data \in Seq(Bytes), Reads(e, bytes, k, ms)
    PROVE  Reads(e, bytes \o FrameOf(m), k, Append(ms, m))
<1>1. CASE e.pc /= "body"
  BY <1>1, HoldsMore DEF Reads
<1>2. CASE e.pc = "body"
  <2>1. PICK rest \in Seq(Bytes) :
            e.data \o bytes = BodyOf(ms[k + 1]) \o rest /\ Holds(rest, k + 1, ms)
    BY <1>2 DEF Reads
  <2>2. /\ k + 1 \in 1..Len(ms) /\ e.need = ms[k + 1][2] /\ Len(e.data) <= e.need
    BY <1>2 DEF Reads
  <2>3. ms[k + 1] \in Messages
    BY <2>2
  <2>4. PICK b, d, f : b = BodyOf(ms[k + 1]) /\ d = e.data /\ f = FrameOf(m)
    OBVIOUS
  <2>5. b \in Seq(Bytes) /\ d \in Seq(Bytes) /\ f \in Seq(Bytes)
    BY <1>2, <2>3, <2>4, FrameFacts
  <2>6. d \o (bytes \o f) = b \o (rest \o f) /\ rest \o f \in Seq(Bytes)
    <3>1. /\ d \in Seq(Bytes) /\ b \in Seq(Bytes) /\ f \in Seq(Bytes)
          /\ bytes \in Seq(Bytes) /\ rest \in Seq(Bytes)
      BY <2>5
    <3>2. (d \o bytes) \o f = d \o (bytes \o f)
      BY ONLY <3>1, Regrouped
    <3>3. (b \o rest) \o f = b \o (rest \o f)
      BY ONLY <3>1, Regrouped
    <3>4. rest \o f \in Seq(Bytes)
      BY ONLY <3>1, Joined
    <3> QED
      BY <2>1, <2>4, <3>2, <3>3, <3>4
  <2>7. Holds(rest \o f, k + 1, Append(ms, m))
    BY <2>1, <2>4, HoldsMore
  <2>8. k + 1 \in 1..Len(Append(ms, m)) /\ Append(ms, m)[k + 1] = ms[k + 1]
    BY <2>2
  <2> QED
    BY <1>2, <2>2, <2>4, <2>6, <2>7, <2>8 DEF Reads
<1> QED
  BY <1>1, <1>2

\* Another message is sent.
LEMMA UnderstoodMore ==
    ASSUME NEW S, NEW q \in Seq(S), NEW ms \in Seq(Messages), Understood(q, ms), NEW m \in Messages
    PROVE  Understood(q, Append(ms, m))
<1>1. /\ Len(Append(ms, m)) = Len(ms) + 1
      /\ \A i \in 1..Len(ms) : Append(ms, m)[i] = ms[i]
  OBVIOUS
<1>2. Len(q) \in Nat /\ Len(ms) \in Nat
  OBVIOUS
<1> QED
  BY <1>1, <1>2 DEF Understood

\* Another message is read.
LEMMA UnderstoodNext ==
    ASSUME NEW S, NEW q \in Seq(S), NEW ms \in Seq(Messages), Understood(q, ms),
           Len(q) + 1 \in 1..Len(ms), NEW b, b = BodyOf(ms[Len(q) + 1])
    PROVE  Understood(Append(q, b), ms)
<1>1. /\ Len(Append(q, b)) = Len(q) + 1 /\ Append(q, b)[Len(q) + 1] = b
      /\ \A i \in 1..Len(q) : Append(q, b)[i] = q[i]
  OBVIOUS
<1>2. Len(q) \in Nat /\ Len(ms) \in Nat
  OBVIOUS
<1> QED
  BY <1>1, <1>2 DEF Understood

-----------------------------------------------------------------------------
(***************************************************************************)
(* The types.                                                              *)
(***************************************************************************)
Clients == [pc : {"read", "body", "write", "closed"}, blocking : BOOLEAN, taken : Nat,
            sendbuf : Seq(Bytes), need : Nat, data : Seq(Bytes)]
Servers == [pc : {"select", "read", "body", "others", "write", "closed"}, writable : BOOLEAN,
            taken : Nat, sendbuf : Seq(Bytes), need : Nat, data : Seq(Bytes)]

TypeInv ==
    /\ setting \in Settings
    /\ up \in Seq(Bytes) /\ Len(up) <= setting.up
    /\ down \in Seq(Bytes) /\ Len(down) <= setting.down
    /\ requests \in Seq(Sizes) /\ Len(requests) <= MaxUp
    /\ casts \in Seq(Sizes) /\ Len(casts) <= MaxDown
    /\ client \in Clients /\ client.taken <= Len(requests)
    /\ server \in Servers /\ server.taken <= Len(casts)
    /\ heard \in [client : Seq(Seq(Bytes)), server : Seq(Seq(Bytes))]

\* tonumber gives a number.
LEMMA NumberTyped ==
    ASSUME NEW line \in Seq(Bytes), IsNumber(line)
    PROVE  Number(line) \in Nat
<1>1. PICK n : n = Len(line)
  OBVIOUS
<1>2. n \in Nat /\ DOMAIN line = 1..n
  BY <1>1
<1>3. ASSUME NEW i \in 1..n PROVE line[i][2] \in Nat
  <2>1. line[i] \in Bytes /\ line[i][1] = "digit"
    BY <1>1, <1>2 DEF IsNumber
  <2>2. \A d \in 0..(Base - 1) : Digit(d)[2] \in Nat
    BY DEF Digit
  <2>3. Newline[1] = "newline" /\ \A a, c : <<"body", a, c>>[1] = "body"
    BY DEF Newline
  <2>4. \E d \in 0..(Base - 1) : line[i] = Digit(d)
    BY <2>1, <2>3 DEF Bytes
  <2> QED
    BY <2>2, <2>4
<1>4. \E N \in [0..n -> Nat] :
          /\ N[0] = 0
          /\ \A k \in 1..n : N[k] = Base * N[k - 1] + line[k][2]
          /\ Number(line) = N[n]
  BY <1>1, <1>3, NumberSteps
<1> QED
  BY <1>2, <1>4

\* Sending as much as there is room for only moves bytes.
LEMMA SendPieces ==
    ASSUME NEW b \in Seq(Bytes), NEW c \in Seq(Bytes), NEW cap \in Nat, Len(b) <= cap,
           NEW n, n = Least(Room(b, cap), Len(c))
    PROVE  /\ b \o First(n, c) \in Seq(Bytes) /\ Len(b \o First(n, c)) <= cap
           /\ Rest(n, c) \in Seq(Bytes)
           /\ (b \o First(n, c)) \o Rest(n, c) = b \o c
<1>1. Len(b) \in Nat /\ Len(c) \in Nat
  OBVIOUS
<1>2. n \in 0..Len(c) /\ Len(b) + n <= cap
  BY <1>1 DEF Least, Room
<1>3. PICK x, y : x = First(n, c) /\ y = Rest(n, c)
  OBVIOUS
<1>4. x \in Seq(Bytes) /\ y \in Seq(Bytes) /\ x \o y = c /\ Len(x) = n
  BY <1>2, <1>3, CutInTwo
<1>5. b \in Seq(Bytes) /\ x \in Seq(Bytes) /\ y \in Seq(Bytes)
  BY <1>4
<1>6. b \o x \in Seq(Bytes) /\ Len(b \o x) = Len(b) + Len(x)
  BY ONLY <1>5, ConcatProperties
<1>7. (b \o x) \o y = b \o (x \o y)
  BY ONLY <1>5, Regrouped
<1> QED
  BY <1>2, <1>3, <1>4, <1>6, <1>7

LEMMA InitTypes == Init => TypeInv
BY WireAssumption DEF Init, TypeInv, Clients, Servers

\* What may be sent are messages.
LEMMA Bounds ==
    ASSUME TypeInv
    PROVE  /\ setting.up \in Nat /\ setting.down \in Nat /\ setting.fails \in BOOLEAN
           /\ MaxUp \in Nat /\ MaxDown \in Nat
           /\ <<0, ByeSize>> \in Messages
           /\ \A i \in 1..Len(requests) : <<i, requests[i]>> \in Messages
           /\ \A i \in 1..Len(casts) : <<i, casts[i]>> \in Messages
<1>1. /\ setting \in [up : Nat \ 0..2, down : Nat \ 0..2, fails : BOOLEAN]
      /\ MaxUp \in Nat /\ MaxDown \in Nat
      /\ ByeSize \in Nat
  BY WireAssumption DEF TypeInv
<1>2. \A size \in Sizes : size \in Nat
  BY WireAssumption
<1>3. requests \in Seq(Sizes) /\ Len(requests) <= MaxUp /\ casts \in Seq(Sizes) /\ Len(casts) <= MaxDown
  BY DEF TypeInv
<1>4. <<0, ByeSize>> \in Messages
  BY <1>1 DEF Messages
<1>5. ASSUME NEW i \in 1..Len(requests) PROVE <<i, requests[i]>> \in Messages
  <2>1. i \in Nat
    OBVIOUS
  <2>2. requests[i] \in Nat
    BY <1>2, <1>3
  <2> QED
    BY <2>1, <2>2 DEF Messages
<1>6. ASSUME NEW i \in 1..Len(casts) PROVE <<i, casts[i]>> \in Messages
  <2>1. i \in Nat
    OBVIOUS
  <2>2. casts[i] \in Nat
    BY <1>2, <1>3
  <2> QED
    BY <2>1, <2>2 DEF Messages
<1> QED
  BY <1>1, <1>4, <1>5, <1>6

\* The goodbye is cut to what there is room for.
LEMMA DisconnectTypes ==
    ASSUME TypeInv, Disconnect
    PROVE  /\ up' \in Seq(Bytes) /\ Len(up') <= setting.up
           /\ client' \in Clients /\ client'.taken = client.taken
<1>1. Frame(0, ByeSize) \in Seq(Bytes)
  <2>1. <<0, ByeSize>> \in Messages
    BY Bounds
  <2>2. FrameOf(<<0, ByeSize>>) \in Seq(Bytes)
    BY <2>1, FrameFacts
  <2> QED
    BY <2>2 DEF FrameOf
<1>2. PICK f, n : f = Frame(0, ByeSize) /\ n = Least(Room(up, setting.up), Len(f))
  OBVIOUS
<1>3. up \in Seq(Bytes) /\ f \in Seq(Bytes) /\ setting.up \in Nat /\ Len(up) <= setting.up
  BY <1>1, <1>2, Bounds DEF TypeInv
<1>4. up \o First(n, f) \in Seq(Bytes) /\ Len(up \o First(n, f)) <= setting.up
  BY ONLY <1>2, <1>3, SendPieces
<1>5. up' = up \o First(n, f)
  BY <1>2 DEF Disconnect
<1>6. client' \in Clients /\ client'.taken = client.taken
  BY DEF Disconnect, TypeInv, Clients
<1> QED
  BY <1>4, <1>5, <1>6

\* What is left of a buffer.
LEMMA RestTypes ==
    ASSUME NEW b \in Seq(Bytes), NEW n \in 0..Len(b), NEW cap \in Nat, Len(b) <= cap
    PROVE  Rest(n, b) \in Seq(Bytes) /\ Len(Rest(n, b)) <= cap
<1>1. Rest(n, b) \in Seq(Bytes) /\ Len(Rest(n, b)) = Len(b) - n
  BY CutInTwo
<1> QED
  BY <1>1

\* The steps keep the types.
LEMMA ClientTypes == TypeInv /\ ClientStep => TypeInv'
<1> SUFFICES ASSUME TypeInv, ClientStep PROVE TypeInv'
  OBVIOUS
<1>0. /\ setting.up \in Nat /\ setting.down \in Nat
      /\ up \in Seq(Bytes) /\ Len(up) <= setting.up
      /\ down \in Seq(Bytes) /\ Len(down) <= setting.down
      /\ requests \in Seq(Sizes) /\ client \in Clients /\ client.taken <= Len(requests)
      /\ heard \in [client : Seq(Seq(Bytes)), server : Seq(Seq(Bytes))]
  BY Bounds DEF TypeInv
<1>1. CASE ReadTimesOut
  <2>1. PICK n \in 0..Len(down) : down' = Rest(n, down)
    <3>1. LineEnd(down) \in 0..Len(down) /\ Len(down) \in Nat
      BY <1>0, LineEndFacts
    <3>2. PICK part : /\ part = IF LineEnd(down) > 0 THEN LineEnd(down) - 1 ELSE Len(down)
                      /\ \E n \in 0..part : down' = Rest(n, down)
      BY <1>1 DEF ReadTimesOut
    <3> QED
      BY <3>1, <3>2
  <2>2. down' \in Seq(Bytes) /\ Len(down') <= setting.down
    BY <1>0, <2>1, RestTypes
  <2>3. client' \in Clients /\ client'.taken = client.taken
    BY <1>0, <1>1 DEF ReadTimesOut, Clients
  <2> QED
    BY <1>1, <2>2, <2>3 DEF ReadTimesOut, TypeInv
<1>2. CASE ReadHeader
  <2> DEFINE line == First(LineEnd(down) - 1, down)
  <2>1. LineEnd(down) \in 0..Len(down) /\ LineEnd(down) > 0 /\ Len(down) \in Nat
    BY <1>0, <1>2, LineEndFacts DEF ReadHeader
  <2>2. down' \in Seq(Bytes) /\ Len(down') <= setting.down
    <3>1. down' = Rest(LineEnd(down), down)
      BY <1>2 DEF ReadHeader
    <3> QED
      BY <1>0, <2>1, <3>1, RestTypes
  <2>3. line \in Seq(Bytes)
    <3>1. LineEnd(down) - 1 \in 0..Len(down)
      BY <2>1
    <3> QED
      BY <1>0, <3>1, CutInTwo
  <2>4. CASE IsNumber(line)
    <3>1. Number(line) \in Nat
      BY <2>3, <2>4, NumberTyped
    <3>2. client' = [client EXCEPT !.pc = "body", !.blocking = TRUE,
                                   !.need = Number(line), !.data = <<>>] /\ up' = up
      BY <1>2, <2>4 DEF ReadHeader
    <3>3. client' \in Clients /\ client'.taken = client.taken
      <4>1. PICK m : m = Number(line)
        OBVIOUS
      <4>2. m \in Nat /\ <<>> \in Seq(Bytes) /\ client \in Clients
        BY <1>0, <3>1, <4>1
      <4>3. client' = [client EXCEPT !.pc = "body", !.blocking = TRUE, !.need = m, !.data = <<>>]
        BY <3>2, <4>1
      <4> QED
        BY ONLY <4>2, <4>3 DEF Clients
    <3> QED
      BY <1>2, <2>2, <3>2, <3>3 DEF ReadHeader, TypeInv
  <2>5. CASE ~IsNumber(line)
    <3>1. Disconnect
      BY <1>2, <2>5 DEF ReadHeader
    <3>2. /\ up' \in Seq(Bytes) /\ Len(up') <= setting.up
          /\ client' \in Clients /\ client'.taken = client.taken
      BY <3>1, DisconnectTypes
    <3> QED
      BY <1>2, <2>2, <3>2 DEF ReadHeader, TypeInv
  <2> QED
    BY <2>4, <2>5
<1>3. CASE ReadBody
  <2> DEFINE n == Least(client.need - Len(client.data), Len(down))
  <2>1. client.need \in Nat /\ client.data \in Seq(Bytes)
    BY <1>0 DEF Clients
  <2>2. n \in 0..Len(down)
    <3>1. Len(client.data) \in Nat /\ Len(down) \in Nat /\ Len(client.data) < client.need
      BY <1>0, <1>3, <2>1 DEF ReadBody
    <3> QED
      BY <2>1, <3>1 DEF Least
  <2>3. /\ client' = [client EXCEPT !.data = @ \o First(n, down)]
        /\ down' = Rest(n, down)
    BY <1>3 DEF ReadBody
  <2> HIDE DEF n
  <2>4. down' \in Seq(Bytes) /\ Len(down') <= setting.down
    BY <1>0, <2>2, <2>3, RestTypes
  <2>5. client.data \o First(n, down) \in Seq(Bytes)
    <3>1. First(n, down) \in Seq(Bytes)
      BY <1>0, <2>2, CutInTwo
    <3> QED
      BY <2>1, <3>1, Joined
  <2>6. client' \in Clients /\ client'.taken = client.taken
    BY <1>0, <2>3, <2>5 DEF Clients
  <2> QED
    BY <1>3, <2>4, <2>6 DEF ReadBody, TypeInv
<1>4. CASE DispatchMessage
  <2>1. heard' \in [client : Seq(Seq(Bytes)), server : Seq(Seq(Bytes))]
    <3>1. client.data \in Seq(Bytes)
      BY <1>0 DEF Clients
    <3>2. Append(heard.client, client.data) \in Seq(Seq(Bytes))
      BY <1>0, <3>1
    <3> QED
      BY <1>0, <1>4, <3>2 DEF DispatchMessage
  <2>2. /\ up' \in Seq(Bytes) /\ Len(up') <= setting.up
        /\ client' \in Clients /\ client'.taken = client.taken
    <3>1. CASE Disconnect
      BY <3>1, DisconnectTypes
    <3>2. CASE client' = [client EXCEPT !.pc = "write"] /\ up' = up
      BY <1>0, <3>2 DEF Clients
    <3> QED
      BY <1>4, <3>1, <3>2 DEF DispatchMessage
  <2> QED
    BY <1>4, <2>1, <2>2 DEF DispatchMessage, TypeInv
<1>5. CASE TakeMessage
  <2>1. CASE client.taken = Len(requests)
    <3>1. client' = [client EXCEPT !.pc = "read"]
      BY <1>5, <2>1 DEF TakeMessage
    <3>2. client' \in Clients /\ client'.taken = client.taken
      BY <1>0, <3>1 DEF Clients
    <3> QED
      BY <1>5, <3>2 DEF TakeMessage, TypeInv
  <2>2. CASE client.taken /= Len(requests)
    <3>1. client' = [client EXCEPT !.sendbuf = Frame(client.taken + 1, requests[client.taken + 1]),
                                   !.taken = @ + 1]
      BY <1>5, <2>2 DEF TakeMessage
    <3>2. client.taken \in Nat /\ client.taken + 1 \in 1..Len(requests)
      BY <1>0, <2>2 DEF Clients
    <3>3. Frame(client.taken + 1, requests[client.taken + 1]) \in Seq(Bytes)
      <4>1. PICK m : m = <<client.taken + 1, requests[client.taken + 1]>>
        OBVIOUS
      <4>2. m \in Messages
        BY <3>2, <4>1, Bounds
      <4>3. FrameOf(m) \in Seq(Bytes)
        BY <4>2, FrameFacts
      <4> QED
        BY <4>1, <4>3 DEF FrameOf
    <3>4. client' \in Clients /\ client'.taken = client.taken + 1
      <4>1. PICK f, k : f = Frame(client.taken + 1, requests[client.taken + 1])
                        /\ k = client.taken + 1
        OBVIOUS
      <4>2. client' = [client EXCEPT !.sendbuf = f, !.taken = k]
        BY <3>1, <4>1
      <4>3. f \in Seq(Bytes) /\ k \in Nat /\ client \in Clients
        BY <1>0, <3>2, <3>3, <4>1
      <4>4. client' \in Clients /\ client'.taken = k
        BY ONLY <4>2, <4>3 DEF Clients
      <4> QED
        BY <4>1, <4>4
    <3> QED
      BY <1>5, <3>2, <3>4 DEF TakeMessage, TypeInv
  <2> QED
    BY <2>1, <2>2
<1>6. CASE SendBytes
  <2> DEFINE n == Least(Room(up, setting.up), Len(client.sendbuf))
             rest == Rest(n, client.sendbuf)
  <2>1. client.sendbuf \in Seq(Bytes)
    BY <1>0 DEF Clients
  <2>2. /\ up' = up \o First(n, client.sendbuf)
        /\ client' = [client EXCEPT !.sendbuf = rest,
                                    !.pc = IF rest = <<>> THEN "read" ELSE "write"]
    BY <1>6 DEF SendBytes
  <2>3. up' \in Seq(Bytes) /\ Len(up') <= setting.up /\ rest \in Seq(Bytes)
    <3>1. PICK b, c, cap, k : b = up /\ c = client.sendbuf /\ cap = setting.up /\ k = n
      OBVIOUS
    <3>2. /\ b \in Seq(Bytes) /\ c \in Seq(Bytes) /\ cap \in Nat /\ Len(b) <= cap
          /\ k = Least(Room(b, cap), Len(c))
      BY <1>0, <2>1, <3>1
    <3>3. b \o First(k, c) \in Seq(Bytes) /\ Len(b \o First(k, c)) <= cap
          /\ Rest(k, c) \in Seq(Bytes)
      BY ONLY <3>2, SendPieces
    <3> QED
      BY <2>2, <3>1, <3>3
  <2> HIDE DEF n, rest
  <2>4. client' \in Clients /\ client'.taken = client.taken
    BY <1>0, <2>2, <2>3 DEF Clients
  <2> QED
    BY <1>6, <2>3, <2>4 DEF SendBytes, TypeInv
<1>7. CASE SendTimesOut
  <2>1. client' \in Clients /\ client'.taken = client.taken
    BY <1>0, <1>7 DEF Clients, SendTimesOut
  <2> QED
    BY <1>7, <2>1 DEF SendTimesOut, TypeInv
<1> QED
  BY <1>1, <1>2, <1>3, <1>4, <1>5, <1>6, <1>7 DEF ClientStep

LEMMA ServerTypes == TypeInv /\ ServerStep => TypeInv'
<1> SUFFICES ASSUME TypeInv, ServerStep PROVE TypeInv'
  OBVIOUS
<1>0. /\ setting.up \in Nat /\ setting.down \in Nat
      /\ up \in Seq(Bytes) /\ Len(up) <= setting.up
      /\ down \in Seq(Bytes) /\ Len(down) <= setting.down
      /\ casts \in Seq(Sizes) /\ server \in Servers /\ server.taken <= Len(casts)
      /\ client \in Clients /\ client.taken <= Len(requests)
      /\ heard \in [client : Seq(Seq(Bytes)), server : Seq(Seq(Bytes))]
  BY Bounds DEF TypeInv
<1>1. CASE Select
  <2>1. PICK pc, w : /\ server' = [server EXCEPT !.pc = pc, !.writable = w]
                     /\ pc \in {"read", "others"} /\ w \in BOOLEAN
    <3>1. \E pc \in {"read", "others"} :
            server' = [server EXCEPT !.pc = pc, !.writable = Room(down, setting.down) > 0]
      BY <1>1 DEF Select
    <3>2. (Room(down, setting.down) > 0) \in BOOLEAN
      OBVIOUS
    <3> QED
      BY <3>1, <3>2
  <2>2. server' \in Servers /\ server'.taken = server.taken
    BY <1>0, <2>1 DEF Servers
  <2> QED
    BY <1>1, <2>2 DEF Select, TypeInv
<1>2. CASE ReceiveHeader
  <2> DEFINE line == First(LineEnd(up) - 1, up)
  <2>1. LineEnd(up) \in 0..Len(up) /\ LineEnd(up) > 0 /\ Len(up) \in Nat
    BY <1>0, <1>2, LineEndFacts DEF ReceiveHeader
  <2>2. up' \in Seq(Bytes) /\ Len(up') <= setting.up
    <3>1. up' = Rest(LineEnd(up), up)
      BY <1>2 DEF ReceiveHeader
    <3> QED
      BY <1>0, <2>1, <3>1, RestTypes
  <2>3. line \in Seq(Bytes)
    <3>1. LineEnd(up) - 1 \in 0..Len(up)
      BY <2>1
    <3> QED
      BY <1>0, <3>1, CutInTwo
  <2>4. CASE IsNumber(line)
    <3>1. PICK m : m = Number(line)
      OBVIOUS
    <3>2. m \in Nat /\ <<>> \in Seq(Bytes) /\ server \in Servers
      BY <1>0, <2>3, <2>4, <3>1, NumberTyped
    <3>3. server' = [server EXCEPT !.pc = "body", !.need = m, !.data = <<>>] /\ client' = client
      BY <1>2, <2>4, <3>1 DEF ReceiveHeader
    <3>4. server' \in Servers /\ server'.taken = server.taken
      BY ONLY <3>2, <3>3 DEF Servers
    <3> QED
      BY <1>2, <2>2, <3>3, <3>4 DEF ReceiveHeader, TypeInv
  <2>5. CASE ~IsNumber(line)
    <3>1. server' = [server EXCEPT !.pc = "closed"] /\ client' = [client EXCEPT !.pc = "closed"]
      BY <1>2, <2>5 DEF ReceiveHeader
    <3>2. server' \in Servers /\ server'.taken = server.taken
      BY <1>0, <3>1 DEF Servers
    <3>3. client' \in Clients /\ client'.taken = client.taken
      BY <1>0, <3>1 DEF Clients
    <3> QED
      BY <1>2, <2>2, <3>2, <3>3 DEF ReceiveHeader, TypeInv
  <2> QED
    BY <2>4, <2>5
<1>3. CASE ReceiveBody
  <2> DEFINE n == Least(server.need - Len(server.data), Len(up))
  <2>1. server.need \in Nat /\ server.data \in Seq(Bytes)
    BY <1>0 DEF Servers
  <2>2. n \in 0..Len(up)
    <3>1. Len(server.data) \in Nat /\ Len(up) \in Nat /\ Len(server.data) < server.need
      BY <1>0, <1>3, <2>1 DEF ReceiveBody
    <3> QED
      BY <2>1, <3>1 DEF Least
  <2>3. server' = [server EXCEPT !.data = @ \o First(n, up)] /\ up' = Rest(n, up)
    BY <1>3 DEF ReceiveBody
  <2> HIDE DEF n
  <2>4. up' \in Seq(Bytes) /\ Len(up') <= setting.up
    BY <1>0, <2>2, <2>3, RestTypes
  <2>5. server.data \o First(n, up) \in Seq(Bytes)
    <3>1. First(n, up) \in Seq(Bytes)
      BY <1>0, <2>2, CutInTwo
    <3> QED
      BY <2>1, <3>1, Joined
  <2>6. server' \in Servers /\ server'.taken = server.taken
    BY <1>0, <2>3, <2>5 DEF Servers
  <2> QED
    BY <1>3, <2>4, <2>6 DEF ReceiveBody, TypeInv
<1>4. CASE Dispatch
  <2>1. heard' \in [client : Seq(Seq(Bytes)), server : Seq(Seq(Bytes))]
    <3>1. server.data \in Seq(Bytes)
      BY <1>0 DEF Servers
    <3>2. Append(heard.server, server.data) \in Seq(Seq(Bytes))
      BY <1>0, <3>1
    <3> QED
      BY <1>0, <1>4, <3>2 DEF Dispatch
  <2>2. server' \in Servers /\ server'.taken = server.taken
    BY <1>0, <1>4 DEF Dispatch, Servers
  <2> QED
    BY <1>4, <2>1, <2>2 DEF Dispatch, TypeInv
<1>5. CASE SendOne
  <2>1. CASE server.writable /\ server.taken < Len(casts)
    <3>1. PICK f, k : f = Frame(server.taken + 1, casts[server.taken + 1])
                      /\ k = server.taken + 1
      OBVIOUS
    <3>2. server' = [server EXCEPT !.pc = "write", !.taken = k, !.sendbuf = f]
      BY <1>5, <2>1, <3>1 DEF SendOne
    <3>3. server.taken \in Nat /\ k \in Nat /\ k \in 1..Len(casts)
      BY <1>0, <2>1, <3>1 DEF Servers
    <3>4. f \in Seq(Bytes)
      <4>1. PICK m : m = <<k, casts[k]>>
        OBVIOUS
      <4>2. m \in Messages
        BY <3>3, <4>1, Bounds
      <4>3. FrameOf(m) \in Seq(Bytes)
        BY <4>2, FrameFacts
      <4> QED
        BY <3>1, <4>1, <4>3 DEF FrameOf
    <3>5. server' \in Servers /\ server'.taken = k
      <4>1. server \in Servers
        BY <1>0
      <4> QED
        BY ONLY <3>2, <3>3, <3>4, <4>1 DEF Servers
    <3> QED
      BY <1>5, <3>3, <3>5 DEF SendOne, TypeInv
  <2>2. CASE ~(server.writable /\ server.taken < Len(casts))
    <3>1. server' = [server EXCEPT !.pc = "select"]
      BY <1>5, <2>2 DEF SendOne
    <3>2. server' \in Servers /\ server'.taken = server.taken
      BY <1>0, <3>1 DEF Servers
    <3> QED
      BY <1>5, <3>2 DEF SendOne, TypeInv
  <2> QED
    BY <2>1, <2>2
<1>6. CASE Send
  <2> DEFINE n == Least(Room(down, setting.down), Len(server.sendbuf))
             rest == Rest(n, server.sendbuf)
  <2>1. server.sendbuf \in Seq(Bytes)
    BY <1>0 DEF Servers
  <2>2. /\ down' = down \o First(n, server.sendbuf)
        /\ server' = [server EXCEPT !.sendbuf = rest,
                                    !.pc = IF rest = <<>> THEN "select" ELSE "write"]
    BY <1>6 DEF Send
  <2>3. down' \in Seq(Bytes) /\ Len(down') <= setting.down /\ rest \in Seq(Bytes)
    <3>1. PICK b, c, cap, k : b = down /\ c = server.sendbuf /\ cap = setting.down /\ k = n
      OBVIOUS
    <3>2. /\ b \in Seq(Bytes) /\ c \in Seq(Bytes) /\ cap \in Nat /\ Len(b) <= cap
          /\ k = Least(Room(b, cap), Len(c))
      BY <1>0, <2>1, <3>1
    <3>3. b \o First(k, c) \in Seq(Bytes) /\ Len(b \o First(k, c)) <= cap
          /\ Rest(k, c) \in Seq(Bytes)
      BY ONLY <3>2, SendPieces
    <3> QED
      BY <2>2, <3>1, <3>3
  <2> HIDE DEF n, rest
  <2>4. server' \in Servers /\ server'.taken = server.taken
    BY <1>0, <2>2, <2>3 DEF Servers
  <2> QED
    BY <1>6, <2>3, <2>4 DEF Send, TypeInv
<1>7. CASE NoticeClosed
  <2>1. server' \in Servers /\ server'.taken = server.taken
    BY <1>0, <1>7 DEF NoticeClosed, Servers
  <2> QED
    BY <1>7, <2>1 DEF NoticeClosed, TypeInv
<1> QED
  BY <1>1, <1>2, <1>3, <1>4, <1>5, <1>6, <1>7 DEF ServerStep

LEMMA NextTypes == TypeInv /\ [Next]_vars => TypeInv'
<1> SUFFICES ASSUME TypeInv, [Next]_vars PROVE TypeInv'
  OBVIOUS
<1>1. CASE UNCHANGED vars
  BY <1>1 DEF vars, TypeInv
<1>2. ASSUME NEW size \in Sizes, Ask(size) PROVE TypeInv'
  <2>1. requests' \in Seq(Sizes) /\ Len(requests') = Len(requests) + 1 /\ Len(requests) < MaxUp
    BY <1>2 DEF Ask, TypeInv
  <2>2. Len(requests) \in Nat /\ MaxUp \in Nat /\ client.taken \in Nat
    BY WireAssumption DEF TypeInv, Clients
  <2> QED
    BY <1>2, <2>1, <2>2 DEF Ask, TypeInv
<1>3. ASSUME NEW size \in Sizes, Broadcast(size) PROVE TypeInv'
  <2>1. casts' \in Seq(Sizes) /\ Len(casts') = Len(casts) + 1 /\ Len(casts) < MaxDown
    BY <1>3 DEF Broadcast, TypeInv
  <2>2. Len(casts) \in Nat /\ MaxDown \in Nat /\ server.taken \in Nat
    BY WireAssumption DEF TypeInv, Servers
  <2> QED
    BY <1>3, <2>1, <2>2 DEF Broadcast, TypeInv
<1>4. CASE Over
  BY <1>1, <1>4 DEF Over
<1> QED
  BY <1>1, <1>2, <1>3, <1>4, ClientTypes, ServerTypes DEF Next

-----------------------------------------------------------------------------
(***************************************************************************)
(* From the client to the server.                                          *)
(***************************************************************************)

\* The first n messages that were queued.
Taken(n, sizes) == [i \in 1..n |-> <<i, sizes[i]>>]

\* The message client.disconnect sends.
Bye == <<0, ByeSize>>

\* What the client has begun to send, or would send if there were room.
Sent == IF client.pc = "closed" THEN Append(Taken(client.taken, requests), Bye)
                                ELSE Taken(client.taken, requests)

\* The client said goodbye in the middle of a request.
BrokenOff == client.pc = "closed" /\ client.sendbuf /= <<>>

\* What the server will read, if the client is still there or some time had
\* been there for the rest of its goodbye, are the messages it has not read.
ToCome ==
    \E more \in Seq(Bytes) :
        /\ client.pc /= "closed" => more = client.sendbuf
        /\ Reads(server, up \o more, Len(heard.server), Sent)

UpInv ==
    /\ server.pc = "closed" => client.pc = "closed"
    /\ \/ BrokenOff
       \/ /\ Understood(heard.server, Sent)
          /\ server.pc = "closed" \/ ToCome

\* The messages that were taken off a queue.
LEMMA TakenFacts ==
    ASSUME NEW sizes, NEW n \in Nat, \A i \in 1..n : <<i, sizes[i]>> \in Messages
    PROVE  /\ Taken(n, sizes) \in Seq(Messages) /\ Len(Taken(n, sizes)) = n
           /\ \A i \in 1..n : Taken(n, sizes)[i] = <<i, sizes[i]>>
BY DEF Taken

\* One more of them.
LEMMA TakenMore ==
    ASSUME NEW sizes, NEW n \in Nat, \A i \in 1..(n + 1) : <<i, sizes[i]>> \in Messages
    PROVE  Taken(n + 1, sizes) = Append(Taken(n, sizes), <<n + 1, sizes[n + 1]>>)
<1>1. PICK a, b, m : a = Taken(n, sizes) /\ b = Taken(n + 1, sizes) /\ m = <<n + 1, sizes[n + 1]>>
  OBVIOUS
<1>2. /\ a \in Seq(Messages) /\ Len(a) = n /\ \A i \in 1..n : a[i] = <<i, sizes[i]>>
  BY <1>1, TakenFacts
<1>3. /\ b \in Seq(Messages) /\ Len(b) = n + 1 /\ \A i \in 1..(n + 1) : b[i] = <<i, sizes[i]>>
  BY <1>1, TakenFacts
<1>4. m \in Messages
  BY <1>1
<1>5. /\ Append(a, m) \in Seq(Messages) /\ Len(Append(a, m)) = n + 1
      /\ \A i \in 1..n : Append(a, m)[i] = a[i]
      /\ Append(a, m)[n + 1] = m
  BY <1>2, <1>4
<1>6. ASSUME NEW i \in 1..(n + 1) PROVE b[i] = Append(a, m)[i]
  <2>1. CASE i = n + 1
    BY <1>1, <1>3, <1>5, <2>1
  <2>2. CASE i /= n + 1
    <3>1. i \in 1..n
      BY <2>2
    <3> QED
      BY <1>2, <1>3, <1>5, <3>1
  <2> QED
    BY <2>1, <2>2
<1>7. b = Append(a, m)
  BY <1>3, <1>5, <1>6, SeqEqual
<1> QED
  BY <1>1, <1>7

\* What was sent are messages.
LEMMA SentFacts ==
    ASSUME TypeInv
    PROVE  /\ Taken(client.taken, requests) \in Seq(Messages)
           /\ Sent \in Seq(Messages)
           /\ client.pc /= "closed" => Sent = Taken(client.taken, requests)
           /\ Bye \in Messages
<1>1. client.taken \in Nat /\ client.taken <= Len(requests) /\ Len(requests) \in Nat
  BY DEF TypeInv, Clients
<1>2. ASSUME NEW i \in 1..client.taken PROVE <<i, requests[i]>> \in Messages
  <2>1. i \in 1..Len(requests)
    BY <1>1
  <2> QED
    BY <2>1, Bounds
<1>3. Taken(client.taken, requests) \in Seq(Messages)
  BY <1>1, <1>2, TakenFacts
<1>4. Bye \in Messages
  BY Bounds DEF Bye
<1> QED
  BY <1>3, <1>4 DEF Sent

\* Once it has hung up, the client takes no step.
LEMMA BrokenOffStays == TypeInv /\ BrokenOff /\ [Next]_vars => BrokenOff'
<1> SUFFICES ASSUME TypeInv, BrokenOff, [Next]_vars PROVE BrokenOff'
  OBVIOUS
<1>1. client \in Clients
  BY DEF TypeInv
<1>2. ~ClientStep
  BY DEF BrokenOff, ClientStep, ReadTimesOut, ReadHeader, ReadBody, DispatchMessage,
         TakeMessage, SendBytes, SendTimesOut
<1>3. ServerStep => client' = client \/ client' = [client EXCEPT !.pc = "closed"]
  <2>1. ReceiveHeader => client' = client \/ client' = [client EXCEPT !.pc = "closed"]
    BY DEF ReceiveHeader
  <2> QED
    BY <2>1 DEF ServerStep, Select, ReceiveBody, Dispatch, SendOne, Send, NoticeClosed
<1>4. UNCHANGED vars \/ Over \/ (\E size \in Sizes : Ask(size) \/ Broadcast(size))
          => client' = client
  BY DEF vars, Over, Ask, Broadcast
<1>5. client' = client \/ client' = [client EXCEPT !.pc = "closed"]
  BY <1>2, <1>3, <1>4 DEF Next
<1> QED
  BY <1>1, <1>5 DEF BrokenOff, Clients

\* While the client is there.
LEMMA UpReads ==
    ASSUME TypeInv, UpInv, client.pc /= "closed"
    PROVE  /\ server.pc /= "closed"
           /\ Understood(heard.server, Taken(client.taken, requests))
           /\ Reads(server, up \o client.sendbuf, Len(heard.server),
                    Taken(client.taken, requests))
<1>1. server.pc /= "closed" /\ ~BrokenOff
  BY DEF UpInv, BrokenOff
<1>2. Sent = Taken(client.taken, requests)
  BY DEF Sent
<1>3. ToCome /\ Understood(heard.server, Sent)
  BY <1>1 DEF UpInv
<1>4. Reads(server, up \o client.sendbuf, Len(heard.server), Sent)
  BY <1>3 DEF ToCome
<1> QED
  BY <1>1, <1>2, <1>3, <1>4

\* The bytes between client and server stay where they are or move on.
LEMMA UpQuiet ==
    ASSUME TypeInv, UpInv, TypeInv', client.pc /= "closed", client'.pc /= "closed",
           up' \o client'.sendbuf = up \o client.sendbuf,
           client'.taken = client.taken, server' = server, heard'.server = heard.server,
           \A i \in 1..Len(requests) : requests'[i] = requests[i]
    PROVE  UpInv'
<1>1. /\ server.pc /= "closed"
      /\ Understood(heard.server, Taken(client.taken, requests))
      /\ Reads(server, up \o client.sendbuf, Len(heard.server), Taken(client.taken, requests))
  BY UpReads
<1>2. client.taken \in Nat /\ client.taken <= Len(requests) /\ Len(requests) \in Nat
  BY DEF TypeInv, Clients
<1>3. Sent' = Taken(client.taken, requests)
  <2>1. Sent' = Taken(client'.taken, requests')
    BY DEF Sent
  <2>2. \A i \in 1..client.taken : requests'[i] = requests[i]
    BY <1>2
  <2>3. Taken(client.taken, requests') = Taken(client.taken, requests)
    BY <2>2 DEF Taken
  <2> QED
    BY <2>1, <2>3
<1>4. client'.sendbuf \in Seq(Bytes)
  BY DEF TypeInv, Clients
<1>5. ToCome'
  <2>1. Reads(server', up' \o client'.sendbuf, Len(heard'.server), Sent')
    BY <1>1, <1>3
  <2> QED
    BY <1>4, <2>1 DEF ToCome
<1>6. Understood(heard'.server, Sent')
  BY <1>1, <1>3
<1> QED
  BY <1>1, <1>5, <1>6 DEF UpInv

\* The client says goodbye.
LEMMA UpGoodbye ==
    ASSUME TypeInv, UpInv, client.pc /= "closed", Disconnect,
           server' = server, heard'.server = heard.server, requests' = requests
    PROVE  UpInv'
<1>1. /\ server.pc /= "closed"
      /\ Understood(heard.server, Taken(client.taken, requests))
      /\ Reads(server, up \o client.sendbuf, Len(heard.server), Taken(client.taken, requests))
  BY UpReads
<1>2. client'.pc = "closed" /\ client'.taken = client.taken /\ client'.sendbuf = client.sendbuf
  BY DEF Disconnect, TypeInv, Clients
<1>3. CASE client.sendbuf /= <<>>
  BY <1>1, <1>2, <1>3 DEF UpInv, BrokenOff
<1>4. CASE client.sendbuf = <<>>
  <2>1. Sent' = Append(Taken(client.taken, requests), Bye)
    BY <1>2 DEF Sent
  <2>2. PICK ms, h, b, F, n, cap :
            /\ ms = Taken(client.taken, requests) /\ h = Len(heard.server) /\ b = up
            /\ F = FrameOf(Bye) /\ cap = setting.up /\ n = Least(Room(b, cap), Len(F))
    OBVIOUS
  <2>3. ms \in Seq(Messages) /\ Bye \in Messages
    BY <2>2, SentFacts
  <2>4. F \in Seq(Bytes) /\ b \in Seq(Bytes) /\ cap \in Nat /\ Len(b) <= cap
    BY <2>2, <2>3, FrameFacts, Bounds DEF TypeInv
  <2>5. Reads(server, b, h, ms)
    <3>1. up \o client.sendbuf = up
      BY <1>4, <2>2, <2>4, Joined
    <3> QED
      BY <1>1, <2>2, <3>1
  <2>6. Reads(server, b \o F, h, Append(ms, Bye))
    <3>1. server.data \in Seq(Bytes)
      BY DEF TypeInv, Servers
    <3> QED
      BY <2>2, <2>3, <2>4, <2>5, <3>1, ReadsMore
  <2>7. (b \o First(n, F)) \o Rest(n, F) = b \o F /\ Rest(n, F) \in Seq(Bytes)
    <3>1. n = Least(Room(b, cap), Len(F))
      BY <2>2
    <3>2. /\ b \o First(n, F) \in Seq(Bytes) /\ Len(b \o First(n, F)) <= cap
          /\ Rest(n, F) \in Seq(Bytes)
          /\ (b \o First(n, F)) \o Rest(n, F) = b \o F
      BY ONLY <2>4, <3>1, SendPieces
    <3> QED
      BY <3>2
  <2>8. up' = b \o First(n, F)
    BY <2>2 DEF Disconnect, FrameOf, Bye
  <2>9. ToCome'
    <3>1. Reads(server', up' \o Rest(n, F), Len(heard'.server), Sent')
      BY <2>1, <2>2, <2>6, <2>7, <2>8
    <3> QED
      BY <1>2, <2>7, <3>1 DEF ToCome
  <2>10. Understood(heard'.server, Sent')
    <3>1. heard.server \in Seq(Seq(Bytes))
      BY DEF TypeInv
    <3> QED
      BY <1>1, <2>1, <2>2, <2>3, <3>1, UnderstoodMore
  <2> QED
    BY <1>1, <2>9, <2>10 DEF UpInv
<1> QED
  BY <1>3, <1>4

\* Whatever the client does, what the server will read are its messages.
LEMMA UpClient ==
    ASSUME TypeInv, TypeInv', UpInv, ClientStep
    PROVE  UpInv'
<1>0. /\ setting.up \in Nat /\ up \in Seq(Bytes) /\ Len(up) <= setting.up
      /\ client \in Clients /\ client.sendbuf \in Seq(Bytes) /\ server \in Servers
      /\ heard \in [client : Seq(Seq(Bytes)), server : Seq(Seq(Bytes))]
  BY Bounds DEF TypeInv, Clients
<1>1. CASE ReadTimesOut
  <2>1. client.pc /= "closed" /\ up' = up /\ server' = server /\ heard' = heard /\ requests' = requests
    BY <1>1 DEF ReadTimesOut
  <2>2. client'.pc /= "closed" /\ client'.taken = client.taken /\ client'.sendbuf = client.sendbuf
    BY <1>0, <1>1 DEF ReadTimesOut, Clients
  <2> QED
    BY <2>1, <2>2, UpQuiet
<1>2. CASE ReadHeader
  <2>1. client.pc /= "closed" /\ server' = server /\ heard' = heard /\ requests' = requests
    BY <1>2 DEF ReadHeader
  <2>2. CASE Disconnect
    BY <2>1, <2>2, UpGoodbye
  <2>3. CASE ~Disconnect
    <3>1. PICK m : client' = [client EXCEPT !.pc = "body", !.blocking = TRUE, !.need = m,
                                            !.data = <<>>] /\ up' = up
      BY <1>2, <2>3 DEF ReadHeader
    <3>2. client'.pc /= "closed" /\ client'.taken = client.taken /\ client'.sendbuf = client.sendbuf
      BY <1>0, <3>1 DEF Clients
    <3> QED
      BY <2>1, <3>1, <3>2, UpQuiet
  <2> QED
    BY <2>2, <2>3
<1>3. CASE ReadBody
  <2>1. client.pc /= "closed" /\ up' = up /\ server' = server /\ heard' = heard /\ requests' = requests
    BY <1>3 DEF ReadBody
  <2>2. client'.pc /= "closed" /\ client'.taken = client.taken /\ client'.sendbuf = client.sendbuf
    BY <1>0, <1>3 DEF ReadBody, Clients
  <2> QED
    BY <2>1, <2>2, UpQuiet
<1>4. CASE DispatchMessage
  <2>1. client.pc /= "closed" /\ server' = server /\ requests' = requests
    BY <1>4 DEF DispatchMessage
  <2>2. heard'.server = heard.server
    BY <1>0, <1>4 DEF DispatchMessage
  <2>3. CASE Disconnect
    BY <2>1, <2>2, <2>3, UpGoodbye
  <2>4. CASE client' = [client EXCEPT !.pc = "write"] /\ up' = up
    <3>1. client'.pc /= "closed" /\ client'.taken = client.taken /\ client'.sendbuf = client.sendbuf
      BY <1>0, <2>4 DEF Clients
    <3> QED
      BY <2>1, <2>2, <2>4, <3>1, UpQuiet
  <2> QED
    BY <1>4, <2>3, <2>4 DEF DispatchMessage
<1>5. CASE TakeMessage
  <2>1. /\ client.pc /= "closed" /\ client.sendbuf = <<>> /\ up' = up /\ server' = server
        /\ heard' = heard /\ requests' = requests
    BY <1>5 DEF TakeMessage
  <2>2. CASE client.taken = Len(requests)
    <3>1. client' = [client EXCEPT !.pc = "read"]
      BY <1>5, <2>2 DEF TakeMessage
    <3>2. client'.pc /= "closed" /\ client'.taken = client.taken /\ client'.sendbuf = client.sendbuf
      BY <1>0, <3>1 DEF Clients
    <3> QED
      BY <2>1, <3>2, UpQuiet
  <2>3. CASE client.taken /= Len(requests)
    <3>1. PICK n, f : n = client.taken /\ f = Frame(n + 1, requests[n + 1])
      OBVIOUS
    <3>2. client' = [client EXCEPT !.sendbuf = f, !.taken = n + 1]
      BY <1>5, <2>3, <3>1 DEF TakeMessage
    <3>3. client'.pc = client.pc /\ client'.sendbuf = f /\ client'.taken = n + 1
      BY <1>0, <3>2 DEF Clients
    <3>4. n \in Nat /\ n + 1 \in 1..Len(requests)
      <4>1. requests \in Seq(Sizes) /\ client.taken <= Len(requests) /\ client.taken \in Nat
        BY <1>0 DEF TypeInv, Clients
      <4>2. Len(requests) \in Nat
        BY <4>1
      <4> QED
        BY <2>3, <3>1, <4>1, <4>2
    <3>5. PICK ms, m : ms = Taken(n, requests) /\ m = <<n + 1, requests[n + 1]>>
      OBVIOUS
    <3>6. m \in Messages /\ ms \in Seq(Messages)
      BY <3>1, <3>4, <3>5, Bounds, SentFacts
    <3>7. Sent' = Append(ms, m)
      <4>1. ASSUME NEW i \in 1..(n + 1) PROVE <<i, requests[i]>> \in Messages
        <5>1. i \in 1..Len(requests)
          BY <3>4
        <5> QED
          BY <5>1, Bounds
      <4>2. Taken(n + 1, requests) = Append(Taken(n, requests), <<n + 1, requests[n + 1]>>)
        BY <3>4, <4>1, TakenMore
      <4> QED
        BY <2>1, <3>3, <3>5, <4>2 DEF Sent
    <3>8. /\ server.pc /= "closed" /\ Understood(heard.server, ms)
          /\ Reads(server, up, Len(heard.server), ms)
      <4>1. up \o client.sendbuf = up
        BY <1>0, <2>1, Joined
      <4> QED
        BY <2>1, <3>1, <3>5, <4>1, UpReads
    <3>9. f = FrameOf(m) /\ f \in Seq(Bytes)
      <4>1. f = FrameOf(m)
        BY <3>1, <3>5 DEF FrameOf
      <4> QED
        BY <3>6, <4>1, FrameFacts
    <3>10. Reads(server, up \o f, Len(heard.server), Append(ms, m))
      <4>1. server.data \in Seq(Bytes)
        BY <1>0 DEF Servers
      <4> QED
        BY <1>0, <3>6, <3>8, <3>9, <4>1, ReadsMore
    <3>11. ToCome'
      BY <2>1, <3>3, <3>7, <3>9, <3>10 DEF ToCome
    <3>12. Understood(heard'.server, Sent')
      BY <1>0, <2>1, <3>6, <3>7, <3>8, UnderstoodMore
    <3> QED
      BY <2>1, <3>8, <3>11, <3>12 DEF UpInv
  <2> QED
    BY <2>2, <2>3
<1>6. CASE SendBytes
  <2>1. /\ client.pc /= "closed" /\ server' = server /\ heard' = heard /\ requests' = requests
    BY <1>6 DEF SendBytes
  <2>2. PICK b, c, cap, n : b = up /\ c = client.sendbuf /\ cap = setting.up
                            /\ n = Least(Room(up, setting.up), Len(client.sendbuf))
    OBVIOUS
  <2>3. up' = b \o First(n, c) /\ client'.sendbuf = Rest(n, c)
    BY <1>0, <1>6, <2>2 DEF SendBytes, Clients
  <2>4. client'.pc /= "closed" /\ client'.taken = client.taken
    BY <1>0, <1>6 DEF SendBytes, Clients
  <2>5. (b \o First(n, c)) \o Rest(n, c) = b \o c
    <3>1. /\ b \in Seq(Bytes) /\ c \in Seq(Bytes) /\ cap \in Nat /\ Len(b) <= cap
          /\ n = Least(Room(b, cap), Len(c))
      BY <1>0, <2>2
    <3>2. /\ b \o First(n, c) \in Seq(Bytes) /\ Len(b \o First(n, c)) <= cap
          /\ Rest(n, c) \in Seq(Bytes)
          /\ (b \o First(n, c)) \o Rest(n, c) = b \o c
      BY ONLY <3>1, SendPieces
    <3> QED
      BY <3>2
  <2>6. up' \o client'.sendbuf = up \o client.sendbuf
    BY <2>2, <2>3, <2>5
  <2> QED
    BY <2>1, <2>4, <2>6, UpQuiet
<1>7. CASE SendTimesOut
  <2>1. client.pc /= "closed" /\ up' = up /\ server' = server /\ heard' = heard /\ requests' = requests
    BY <1>7 DEF SendTimesOut
  <2>2. client'.pc /= "closed" /\ client'.taken = client.taken /\ client'.sendbuf = client.sendbuf
    BY <1>0, <1>7 DEF SendTimesOut, Clients
  <2> QED
    BY <2>1, <2>2, UpQuiet
<1> QED
  BY <1>1, <1>2, <1>3, <1>4, <1>5, <1>6, <1>7 DEF ClientStep

\* The server reads them.
LEMMA UpServer ==
    ASSUME TypeInv, TypeInv', UpInv, ~BrokenOff, ServerStep
    PROVE  UpInv'
<1>0. /\ up \in Seq(Bytes) /\ client \in Clients /\ server \in Servers
      /\ heard \in [client : Seq(Seq(Bytes)), server : Seq(Seq(Bytes))]
      /\ server.data \in Seq(Bytes) /\ server.need \in Nat
  BY DEF TypeInv, Servers
<1>1. Understood(heard.server, Sent) /\ (server.pc = "closed" \/ ToCome)
  BY DEF UpInv
<1>2. Sent \in Seq(Messages)
  BY SentFacts
<1>3. client' = client /\ requests' = requests => Sent' = Sent
  BY DEF Sent
<1>4. ASSUME client' = client, requests' = requests, up' = up, heard' = heard,
             server.pc \notin {"body", "closed"}, server'.pc \notin {"body", "closed"}
      PROVE  UpInv'
  <2>1. PICK more \in Seq(Bytes) : /\ client.pc /= "closed" => more = client.sendbuf
                                   /\ Reads(server, up \o more, Len(heard.server), Sent)
    BY <1>1, <1>4 DEF ToCome
  <2>2. Reads(server', up \o more, Len(heard.server), Sent)
    BY <1>4, <2>1 DEF Reads
  <2>3. ToCome'
    BY <1>3, <1>4, <2>1, <2>2 DEF ToCome
  <2> QED
    BY <1>1, <1>3, <1>4, <2>3 DEF UpInv
<1>5. CASE Select
  <2>1. /\ client' = client /\ requests' = requests /\ up' = up /\ heard' = heard
        /\ server.pc = "select" /\ server'.pc \in {"read", "others"}
    BY <1>0, <1>5 DEF Select, Servers
  <2> QED
    BY <1>4, <2>1
<1>6. CASE ReceiveHeader
  <2>0. /\ server.pc = "read" /\ LineEnd(up) > 0 /\ up' = Rest(LineEnd(up), up)
        /\ requests' = requests /\ heard' = heard
    BY <1>6 DEF ReceiveHeader
  <2>1. PICK more \in Seq(Bytes) : /\ client.pc /= "closed" => more = client.sendbuf
                                   /\ Reads(server, up \o more, Len(heard.server), Sent)
    BY <1>1, <2>0 DEF ToCome
  <2>2. PICK all, k, line : /\ all = up \o more /\ k = Len(heard.server)
                            /\ line = First(LineEnd(up) - 1, up)
    OBVIOUS
  <2>3. /\ Sent \in Seq(Messages) /\ up \in Seq(Bytes) /\ more \in Seq(Bytes)
        /\ all = up \o more /\ server.pc /= "body" /\ Reads(server, all, k, Sent)
        /\ LineEnd(up) > 0
    BY <1>0, <1>2, <2>0, <2>1, <2>2
  <2>4. /\ IsNumber(First(LineEnd(up) - 1, up))
        /\ \A f : f.pc = "body" /\ f.need = Number(First(LineEnd(up) - 1, up))
                  /\ f.data = <<>> => Reads(f, Rest(LineEnd(up), up) \o more, k, Sent)
    BY ONLY <2>3, ReadsHeader
  <2>5. /\ server' = [server EXCEPT !.pc = "body", !.need = Number(First(LineEnd(up) - 1, up)),
                                    !.data = <<>>]
        /\ client' = client
    BY <1>6, <2>4 DEF ReceiveHeader
  <2>6. /\ server'.pc = "body" /\ server'.need = Number(First(LineEnd(up) - 1, up))
        /\ server'.data = <<>>
    BY <1>0, <2>5 DEF Servers
  <2>7. Reads(server', up' \o more, k, Sent)
    BY <2>0, <2>4, <2>6
  <2>8. ToCome'
    BY <1>3, <2>0, <2>1, <2>2, <2>5, <2>7 DEF ToCome
  <2> QED
    BY <1>1, <1>3, <2>0, <2>5, <2>6, <2>8 DEF UpInv
<1>7. CASE ReceiveBody
  <2>0. /\ server.pc = "body" /\ Len(server.data) < server.need
        /\ client' = client /\ requests' = requests /\ heard' = heard
    BY <1>7 DEF ReceiveBody
  <2>1. PICK more \in Seq(Bytes) : /\ client.pc /= "closed" => more = client.sendbuf
                                   /\ Reads(server, up \o more, Len(heard.server), Sent)
    BY <1>1, <2>0 DEF ToCome
  <2>2. PICK n, k : n = Least(server.need - Len(server.data), Len(up)) /\ k = Len(heard.server)
    OBVIOUS
  <2>3. /\ server' = [server EXCEPT !.data = @ \o First(n, up)]
        /\ up' = Rest(n, up)
    BY <1>7, <2>2 DEF ReceiveBody
  <2>4. n \in 0..Len(up) /\ Len(server.data) + n <= server.need
    <3>1. Len(server.data) \in Nat /\ Len(up) \in Nat
      BY <1>0
    <3> QED
      BY <1>0, <2>0, <2>2, <3>1 DEF Least
  <2>5. /\ server'.pc = "body" /\ server'.need = server.need
        /\ server'.data = server.data \o First(n, up)
    BY <1>0, <2>0, <2>3 DEF Servers
  <2>6. Reads(server', Rest(n, up) \o more, k, Sent)
    <3>1. /\ Sent \in Seq(Messages) /\ up \in Seq(Bytes) /\ more \in Seq(Bytes)
          /\ server.pc = "body" /\ server.data \in Seq(Bytes)
          /\ Reads(server, up \o more, k, Sent)
      BY <1>0, <1>2, <2>0, <2>1, <2>2
    <3> QED
      BY ONLY <2>4, <2>5, <3>1, ReadsBody
  <2>7. ToCome'
    BY <1>3, <2>0, <2>1, <2>2, <2>3, <2>6 DEF ToCome
  <2> QED
    BY <1>1, <1>3, <2>0, <2>5, <2>7 DEF UpInv
<1>8. CASE Dispatch
  <2>0. /\ server.pc = "body" /\ Len(server.data) = server.need
        /\ client' = client /\ requests' = requests /\ up' = up
    BY <1>8 DEF Dispatch
  <2>1. PICK more \in Seq(Bytes) : /\ client.pc /= "closed" => more = client.sendbuf
                                   /\ Reads(server, up \o more, Len(heard.server), Sent)
    BY <1>1, <2>0 DEF ToCome
  <2>2. PICK q, all : q = heard.server /\ all = up \o more
    OBVIOUS
  <2>3. q \in Seq(Seq(Bytes)) /\ Len(q) \in Nat /\ all \in Seq(Bytes)
    <3>1. all \in Seq(Bytes)
      BY <1>0, <2>2, Joined
    <3> QED
      BY <1>0, <2>2, <3>1
  <2>4. /\ Len(q) + 1 \in 1..Len(Sent) /\ server.data = BodyOf(Sent[Len(q) + 1])
        /\ Holds(all, Len(q) + 1, Sent)
    <3>1. Reads(server, all, Len(q), Sent)
      BY <2>1, <2>2
    <3> QED
      BY <1>0, <1>2, <2>0, <2>3, <3>1, ReadsAll
  <2>5. heard'.server = Append(q, server.data) /\ server'.pc = "others"
    BY <1>0, <1>8, <2>2 DEF Dispatch, Servers
  <2>6. Len(heard'.server) = Len(q) + 1
    BY <1>0, <2>3, <2>5
  <2>7. Reads(server', up' \o more, Len(heard'.server), Sent)
    BY <2>0, <2>2, <2>4, <2>5, <2>6 DEF Reads
  <2>8. ToCome'
    BY <1>3, <2>0, <2>1, <2>7 DEF ToCome
  <2>9. Understood(heard'.server, Sent)
    <3>1. Understood(q, Sent)
      BY <1>1, <2>2
    <3> QED
      BY <1>2, <2>3, <2>4, <2>5, <3>1, UnderstoodNext
  <2> QED
    BY <1>3, <2>0, <2>5, <2>8, <2>9 DEF UpInv
<1>9. CASE SendOne
  <2>1. /\ client' = client /\ requests' = requests /\ up' = up /\ heard' = heard
        /\ server.pc = "others" /\ server'.pc \in {"write", "select"}
    BY <1>0, <1>9 DEF SendOne, Servers
  <2> QED
    BY <1>4, <2>1
<1>10. CASE Send
  <2>1. /\ client' = client /\ requests' = requests /\ up' = up /\ heard' = heard
        /\ server.pc = "write" /\ server'.pc \in {"write", "select"}
    BY <1>0, <1>10 DEF Send, Servers
  <2> QED
    BY <1>4, <2>1
<1>11. CASE NoticeClosed
  <2>1. /\ client' = client /\ requests' = requests /\ heard' = heard
        /\ client.pc = "closed" /\ server'.pc = "closed"
    BY <1>0, <1>11 DEF NoticeClosed, Servers
  <2> QED
    BY <1>1, <1>3, <2>1 DEF UpInv
<1> QED
  BY <1>5, <1>6, <1>7, <1>8, <1>9, <1>10, <1>11 DEF ServerStep

\* At the start there is nothing to read.
LEMMA UpStart == Init => UpInv
<1> SUFFICES ASSUME Init PROVE UpInv
  OBVIOUS
<1>1. /\ up = <<>> /\ requests = <<>> /\ heard.server = <<>> /\ server.pc = "select"
      /\ client.pc = "read" /\ client.taken = 0 /\ client.sendbuf = <<>>
  BY DEF Init
<1>2. PICK ms : ms = Taken(0, requests)
  OBVIOUS
<1>3. ms \in Seq(Messages) /\ Len(ms) = 0
  <2>1. 1..0 = {} /\ 0 \in Nat
    OBVIOUS
  <2> QED
    BY <1>2, <2>1, TakenFacts
<1>4. Sent = ms
  BY <1>1, <1>2 DEF Sent
<1>5. Holds(<<>>, 0, ms)
  BY <1>3, HoldsNothing
<1>6. Len(<<>>) = 0 /\ <<>> \in Seq(Bytes) /\ <<>> \o <<>> = <<>>
  OBVIOUS
<1>7. Reads(server, <<>>, 0, ms)
  BY <1>1, <1>5 DEF Reads
<1>8. ToCome
  BY <1>1, <1>4, <1>6, <1>7 DEF ToCome
<1>9. Understood(heard.server, Sent)
  BY <1>1, <1>3, <1>4, <1>6 DEF Understood
<1> QED
  BY <1>1, <1>8, <1>9 DEF UpInv

\* Every step keeps what the server will read, a goodbye within a request excepted.
LEMMA UpNext == TypeInv /\ TypeInv' /\ UpInv /\ [Next]_vars => UpInv'
<1> SUFFICES ASSUME TypeInv, TypeInv', UpInv, [Next]_vars PROVE UpInv'
  OBVIOUS
<1>1. CASE BrokenOff
  BY <1>1, BrokenOffStays DEF UpInv, BrokenOff
<1>2. ASSUME UNCHANGED <<up, requests, client, server, heard>> PROVE UpInv'
  BY <1>2 DEF UpInv, BrokenOff, ToCome, Sent, Understood, Reads
<1>3. CASE UNCHANGED vars \/ Over
  BY <1>2, <1>3 DEF vars, Over
<1>4. ASSUME NEW size \in Sizes, Broadcast(size) PROVE UpInv'
  BY <1>2, <1>4 DEF Broadcast
<1>5. ASSUME NEW size \in Sizes, Ask(size) PROVE UpInv'
  <2>1. /\ client.pc /= "closed" /\ client' = client /\ up' = up /\ server' = server
        /\ heard' = heard /\ requests' = Append(requests, size)
    BY <1>5 DEF Ask
  <2>2. \A i \in 1..Len(requests) : requests'[i] = requests[i]
    BY <2>1 DEF TypeInv
  <2> QED
    BY <2>1, <2>2, UpQuiet
<1>6. CASE ~BrokenOff /\ ServerStep
  BY <1>6, UpServer
<1>7. CASE ClientStep
  BY <1>7, UpClient
<1> QED
  BY <1>1, <1>3, <1>4, <1>5, <1>6, <1>7 DEF Next

-----------------------------------------------------------------------------
(***************************************************************************)
(* From the server to the client.                                          *)
(***************************************************************************)

\* What the server has begun to send.
Written == Taken(server.taken, casts)

\* What the client will read are the messages it has not read.
DownInv ==
    /\ server.pc = "closed" => client.pc = "closed"
    /\ server.pc \notin {"write", "closed"} => server.sendbuf = <<>>
    /\ Understood(heard.client, Written)
    /\ client.pc /= "closed"
          => Reads(client, down \o server.sendbuf, Len(heard.client), Written)

\* What was written are messages.
LEMMA WrittenFacts == TypeInv => Written \in Seq(Messages)
<1> SUFFICES ASSUME TypeInv PROVE Written \in Seq(Messages)
  OBVIOUS
<1>1. server.taken \in Nat /\ server.taken <= Len(casts) /\ Len(casts) \in Nat
  BY DEF TypeInv, Servers
<1>2. ASSUME NEW i \in 1..server.taken PROVE <<i, casts[i]>> \in Messages
  <2>1. i \in 1..Len(casts)
    BY <1>1
  <2> QED
    BY <2>1, Bounds
<1> QED
  BY <1>1, <1>2, TakenFacts DEF Written

\* At the start there is nothing to read.
LEMMA DownStart == Init => DownInv
<1> SUFFICES ASSUME Init PROVE DownInv
  OBVIOUS
<1>1. /\ down = <<>> /\ casts = <<>> /\ heard.client = <<>> /\ client.pc = "read"
      /\ server.pc = "select" /\ server.taken = 0 /\ server.sendbuf = <<>>
  BY DEF Init
<1>2. PICK ms : ms = Taken(0, casts)
  OBVIOUS
<1>3. ms \in Seq(Messages) /\ Len(ms) = 0
  <2>1. 1..0 = {} /\ 0 \in Nat
    OBVIOUS
  <2> QED
    BY <1>2, <2>1, TakenFacts
<1>4. Written = ms
  BY <1>1, <1>2 DEF Written
<1>5. Holds(<<>>, 0, ms)
  BY <1>3, HoldsNothing
<1>6. Len(<<>>) = 0 /\ <<>> \o <<>> = <<>>
  OBVIOUS
<1>7. Reads(client, <<>>, 0, ms)
  BY <1>1, <1>5 DEF Reads
<1> QED
  BY <1>1, <1>3, <1>4, <1>6, <1>7 DEF DownInv, Understood

\* The bytes between server and client stay where they are or move on.
LEMMA DownQuiet ==
    ASSUME TypeInv, DownInv, heard'.client = heard.client,
           down' \o server'.sendbuf = down \o server.sendbuf,
           server'.taken = server.taken,
           \A i \in 1..Len(casts) : casts'[i] = casts[i],
           \/ client'.pc = "closed"
           \/ /\ client.pc /= "closed"
              /\ client'.pc = "body" <=> client.pc = "body"
              /\ client'.need = client.need /\ client'.data = client.data
    PROVE  /\ Understood(heard'.client, Written')
           /\ client'.pc /= "closed"
                 => Reads(client', down' \o server'.sendbuf, Len(heard'.client), Written')
<1>1. server.taken \in Nat /\ server.taken <= Len(casts) /\ Len(casts) \in Nat
  BY DEF TypeInv, Servers
<1>2. Written' = Written
  <2>1. \A i \in 1..server.taken : casts'[i] = casts[i]
    BY <1>1
  <2>2. Taken(server.taken, casts') = Taken(server.taken, casts)
    BY <2>1 DEF Taken
  <2> QED
    BY <2>2 DEF Written
<1>3. Understood(heard'.client, Written')
  BY <1>2 DEF DownInv
<1>4. ASSUME client'.pc /= "closed"
      PROVE  Reads(client', down' \o server'.sendbuf, Len(heard'.client), Written')
  <2>1. Reads(client, down \o server.sendbuf, Len(heard.client), Written)
    BY <1>4 DEF DownInv
  <2>2. Reads(client', down \o server.sendbuf, Len(heard.client), Written)
    BY <1>4, <2>1 DEF Reads
  <2> QED
    BY <1>2, <2>2
<1> QED
  BY <1>3, <1>4

\* The client reads what was written.
LEMMA DownClient ==
    ASSUME TypeInv, TypeInv', DownInv, ClientStep, TimeoutInHeader = FALSE
    PROVE  DownInv'
<1>0. /\ down \in Seq(Bytes) /\ client \in Clients /\ server \in Servers
      /\ heard \in [client : Seq(Seq(Bytes)), server : Seq(Seq(Bytes))]
      /\ client.data \in Seq(Bytes) /\ client.need \in Nat /\ server.sendbuf \in Seq(Bytes)
  BY DEF TypeInv, Clients, Servers
<1>1. client.pc /= "closed" /\ server' = server /\ casts' = casts
  BY DEF ClientStep, ReadTimesOut, ReadHeader, ReadBody, DispatchMessage, TakeMessage,
         SendBytes, SendTimesOut
<1>2. Written \in Seq(Messages) /\ Written' = Written
  BY <1>1, WrittenFacts DEF Written
<1>3. /\ Understood(heard.client, Written)
      /\ Reads(client, down \o server.sendbuf, Len(heard.client), Written)
  BY <1>1 DEF DownInv
<1>4. SUFFICES /\ Understood(heard'.client, Written)
               /\ client'.pc /= "closed"
                     => Reads(client', down' \o server.sendbuf, Len(heard'.client), Written)
  BY <1>1, <1>2 DEF DownInv
<1>5. ASSUME heard' = heard, down' = down, client.pc /= "body", client'.pc /= "body"
      PROVE  /\ Understood(heard'.client, Written)
             /\ client'.pc /= "closed"
                   => Reads(client', down' \o server.sendbuf, Len(heard'.client), Written)
  <2>1. Reads(client', down \o server.sendbuf, Len(heard.client), Written)
    BY <1>3, <1>5 DEF Reads
  <2> QED
    BY <1>3, <1>5, <2>1
<1>6. CASE ReadTimesOut
  <2>1. PICK n \in 0..Len(down) : n = 0 /\ down' = Rest(n, down)
    <3>1. PICK part, end :
              /\ end = LineEnd(down)
              /\ part = IF end > 0 THEN end - 1 ELSE Len(down)
              /\ \E n \in 0..part : /\ TimeoutInHeader \/ (n = 0 /\ (end > 0 \/ down = <<>>))
                                    /\ down' = Rest(n, down)
      BY <1>6 DEF ReadTimesOut
    <3>2. down' = Rest(0, down)
      BY <3>1
    <3>3. 0 \in 0..Len(down)
      BY <1>0
    <3> QED
      BY <3>2, <3>3
  <2>2. down' = down
    BY <1>0, <2>1 DEF Rest
  <2>3. heard' = heard /\ client.pc = "read" /\ client'.pc = "write"
    BY <1>0, <1>6 DEF ReadTimesOut, Clients
  <2> QED
    BY <1>5, <2>2, <2>3
<1>7. CASE ReadHeader
  <2>0. /\ client.pc = "read" /\ LineEnd(down) > 0 /\ down' = Rest(LineEnd(down), down)
        /\ heard' = heard
    BY <1>7 DEF ReadHeader
  <2>1. PICK more, all, k : /\ more = server.sendbuf /\ all = down \o more
                            /\ k = Len(heard.client)
    OBVIOUS
  <2>2. /\ Written \in Seq(Messages) /\ down \in Seq(Bytes) /\ more \in Seq(Bytes)
        /\ all = down \o more /\ client.pc /= "body" /\ Reads(client, all, k, Written)
        /\ LineEnd(down) > 0
    BY <1>0, <1>2, <1>3, <2>0, <2>1
  <2>3. /\ IsNumber(First(LineEnd(down) - 1, down))
        /\ \A f : f.pc = "body" /\ f.need = Number(First(LineEnd(down) - 1, down))
                  /\ f.data = <<>> => Reads(f, Rest(LineEnd(down), down) \o more, k, Written)
    BY ONLY <2>2, ReadsHeader
  <2>4. client' = [client EXCEPT !.pc = "body", !.blocking = TRUE,
                                 !.need = Number(First(LineEnd(down) - 1, down)), !.data = <<>>]
    BY <1>7, <2>3 DEF ReadHeader
  <2>5. /\ client'.pc = "body" /\ client'.need = Number(First(LineEnd(down) - 1, down))
        /\ client'.data = <<>>
    BY <1>0, <2>4 DEF Clients
  <2>6. Reads(client', down' \o more, k, Written)
    BY <2>0, <2>3, <2>5
  <2> QED
    BY <1>3, <2>0, <2>1, <2>6
<1>8. CASE ReadBody
  <2>0. client.pc = "body" /\ Len(client.data) < client.need /\ heard' = heard
    BY <1>8 DEF ReadBody
  <2>1. PICK n, k, more : /\ n = Least(client.need - Len(client.data), Len(down))
                          /\ k = Len(heard.client) /\ more = server.sendbuf
    OBVIOUS
  <2>2. client' = [client EXCEPT !.data = @ \o First(n, down)] /\ down' = Rest(n, down)
    BY <1>8, <2>1 DEF ReadBody
  <2>3. n \in 0..Len(down) /\ Len(client.data) + n <= client.need
    <3>1. Len(client.data) \in Nat /\ Len(down) \in Nat
      BY <1>0
    <3> QED
      BY <1>0, <2>0, <2>1, <3>1 DEF Least
  <2>4. /\ client'.pc = "body" /\ client'.need = client.need
        /\ client'.data = client.data \o First(n, down)
    BY <1>0, <2>0, <2>2 DEF Clients
  <2>5. Reads(client', Rest(n, down) \o more, k, Written)
    <3>1. /\ Written \in Seq(Messages) /\ down \in Seq(Bytes) /\ more \in Seq(Bytes)
          /\ client.pc = "body" /\ client.data \in Seq(Bytes)
          /\ Reads(client, down \o more, k, Written)
      BY <1>0, <1>2, <1>3, <2>0, <2>1
    <3> QED
      BY ONLY <2>3, <2>4, <3>1, ReadsBody
  <2> QED
    BY <1>3, <2>0, <2>1, <2>2, <2>5
<1>9. CASE DispatchMessage
  <2>0. client.pc = "body" /\ Len(client.data) = client.need /\ down' = down
    BY <1>9 DEF DispatchMessage
  <2>1. PICK q, all : q = heard.client /\ all = down \o server.sendbuf
    OBVIOUS
  <2>2. q \in Seq(Seq(Bytes)) /\ Len(q) \in Nat /\ all \in Seq(Bytes)
    <3>1. all \in Seq(Bytes)
      BY <1>0, <2>1, Joined
    <3> QED
      BY <1>0, <2>1, <3>1
  <2>3. /\ Len(q) + 1 \in 1..Len(Written) /\ client.data = BodyOf(Written[Len(q) + 1])
        /\ Holds(all, Len(q) + 1, Written)
    <3>1. Reads(client, all, Len(q), Written)
      BY <1>3, <2>1
    <3> QED
      BY <1>0, <1>2, <2>0, <2>2, <3>1, ReadsAll
  <2>4. heard'.client = Append(q, client.data)
    BY <1>0, <1>9, <2>1 DEF DispatchMessage
  <2>5. client'.pc /= "body"
    BY <1>0, <1>9 DEF DispatchMessage, Disconnect, Clients
  <2>6. Len(heard'.client) = Len(q) + 1
    BY <1>0, <2>2, <2>4
  <2>7. Reads(client', down' \o server.sendbuf, Len(heard'.client), Written)
    BY <2>0, <2>1, <2>3, <2>5, <2>6 DEF Reads
  <2>8. Understood(heard'.client, Written)
    <3>1. Understood(q, Written)
      BY <1>3, <2>1
    <3> QED
      BY <1>2, <2>2, <2>3, <2>4, <3>1, UnderstoodNext
  <2> QED
    BY <2>7, <2>8
<1>10. CASE TakeMessage \/ SendBytes \/ SendTimesOut
  <2>1. heard' = heard /\ down' = down /\ client.pc = "write" /\ client'.pc \in {"read", "write"}
    BY <1>0, <1>10 DEF TakeMessage, SendBytes, SendTimesOut, Clients
  <2> QED
    BY <1>5, <2>1
<1> QED
  BY <1>6, <1>7, <1>8, <1>9, <1>10 DEF ClientStep

\* Whatever the server does, what the client will read are its messages.
LEMMA DownServer ==
    ASSUME TypeInv, TypeInv', DownInv, ServerStep
    PROVE  DownInv'
<1>0. /\ down \in Seq(Bytes) /\ Len(down) <= setting.down /\ setting.down \in Nat
      /\ client \in Clients /\ server \in Servers
      /\ server.sendbuf \in Seq(Bytes) /\ server.taken \in Nat
      /\ casts \in Seq(Sizes) /\ server.taken <= Len(casts) /\ Len(casts) \in Nat
      /\ heard \in [client : Seq(Seq(Bytes)), server : Seq(Seq(Bytes))]
  <2>1. /\ down \in Seq(Bytes) /\ Len(down) <= setting.down /\ client \in Clients
        /\ server \in Servers /\ casts \in Seq(Sizes) /\ server.taken <= Len(casts)
        /\ heard \in [client : Seq(Seq(Bytes)), server : Seq(Seq(Bytes))]
    BY DEF TypeInv
  <2>2. server.sendbuf \in Seq(Bytes) /\ server.taken \in Nat
    BY <2>1 DEF Servers
  <2>3. Len(casts) \in Nat
    BY <2>1
  <2>4. setting.down \in Nat
    BY Bounds
  <2> QED
    BY <2>1, <2>2, <2>3, <2>4
<1>1. casts' = casts /\ heard'.client = heard.client
  BY <1>0 DEF ServerStep, Select, ReceiveHeader, ReceiveBody, Dispatch, SendOne, Send, NoticeClosed
<1>2. \/ client' = client
      \/ client' = [client EXCEPT !.pc = "closed"]
  <2>1. ReceiveHeader => client' = client \/ client' = [client EXCEPT !.pc = "closed"]
    BY DEF ReceiveHeader
  <2> QED
    BY <2>1 DEF ServerStep, Select, ReceiveBody, Dispatch, SendOne, Send, NoticeClosed
<1>3. \/ client'.pc = "closed"
      \/ /\ client.pc /= "closed"
         /\ client'.pc = "body" <=> client.pc = "body"
         /\ client'.need = client.need /\ client'.data = client.data
  BY <1>0, <1>2 DEF Clients
<1>4. ASSUME down' = down, server'.sendbuf = server.sendbuf, server'.taken = server.taken
      PROVE  /\ Understood(heard'.client, Written')
             /\ client'.pc /= "closed"
                   => Reads(client', down' \o server'.sendbuf, Len(heard'.client), Written')
  BY <1>1, <1>3, <1>4, DownQuiet
<1>5. CASE Select \/ Dispatch
  <2>1. /\ down' = down /\ server'.sendbuf = server.sendbuf /\ server'.taken = server.taken
        /\ server.pc \in {"select", "body"} /\ server'.pc \in {"read", "others"}
    BY <1>0, <1>5 DEF Select, Dispatch, Servers
  <2> QED
    BY <1>4, <2>1 DEF DownInv
<1>6. CASE ReceiveHeader
  <2>1. PICK n : \/ server' = [server EXCEPT !.pc = "body", !.need = n, !.data = <<>>]
                 \/ /\ server' = [server EXCEPT !.pc = "closed"]
                    /\ client' = [client EXCEPT !.pc = "closed"]
    BY <1>6 DEF ReceiveHeader
  <2>2. /\ down' = down /\ server'.sendbuf = server.sendbuf /\ server'.taken = server.taken
        /\ server.pc = "read"
        /\ server'.pc = "body" \/ (server'.pc = "closed" /\ client'.pc = "closed")
    BY <1>0, <1>6, <2>1 DEF ReceiveHeader, Servers, Clients
  <2> QED
    BY <1>4, <2>2 DEF DownInv
<1>7. CASE ReceiveBody
  <2>1. /\ down' = down /\ server'.sendbuf = server.sendbuf /\ server'.taken = server.taken
        /\ server.pc = "body" /\ server'.pc = "body"
    BY <1>0, <1>7 DEF ReceiveBody, Servers
  <2> QED
    BY <1>4, <2>1 DEF DownInv
<1>8. CASE SendOne
  <2>0. client' = client /\ down' = down /\ server.pc = "others" /\ server.sendbuf = <<>>
    BY <1>8 DEF SendOne, DownInv
  <2>1. CASE server' = [server EXCEPT !.pc = "select"]
    <3>1. /\ server'.sendbuf = server.sendbuf /\ server'.taken = server.taken
          /\ server'.pc = "select"
      BY <1>0, <2>1 DEF Servers
    <3> QED
      BY <1>4, <2>0, <3>1 DEF DownInv
  <2>2. CASE server' /= [server EXCEPT !.pc = "select"]
    <3>1. PICK n, f, m, ms, k :
              /\ n = server.taken /\ f = Frame(n + 1, casts[n + 1]) /\ m = <<n + 1, casts[n + 1]>>
              /\ ms = Written /\ k = Len(heard.client)
      OBVIOUS
    <3>2. n < Len(casts) /\ server' = [server EXCEPT !.pc = "write", !.taken = n + 1, !.sendbuf = f]
      BY <1>8, <2>2, <3>1 DEF SendOne
    <3>3. server'.pc = "write" /\ server'.taken = n + 1 /\ server'.sendbuf = f
      BY <1>0, <3>2 DEF Servers
    <3>4. n \in Nat /\ n + 1 \in 1..Len(casts) /\ m \in Messages /\ ms \in Seq(Messages)
      <4>1. n \in Nat /\ n + 1 \in 1..Len(casts)
        BY <1>0, <3>1, <3>2
      <4>2. m \in Messages
        BY <3>1, <4>1, Bounds
      <4> QED
        BY <3>1, <4>1, <4>2, WrittenFacts
    <3>5. Written' = Append(ms, m)
      <4>1. ASSUME NEW i \in 1..(n + 1) PROVE <<i, casts[i]>> \in Messages
        <5>1. i \in 1..Len(casts)
          BY <1>0, <3>4
        <5> QED
          BY <5>1, Bounds
      <4>2. Taken(n + 1, casts) = Append(Taken(n, casts), <<n + 1, casts[n + 1]>>)
        BY <3>4, <4>1, TakenMore
      <4> QED
        BY <1>1, <3>1, <3>3, <4>2 DEF Written
    <3>6. f = FrameOf(m) /\ f \in Seq(Bytes)
      <4>1. f = FrameOf(m)
        BY <3>1 DEF FrameOf
      <4> QED
        BY <3>4, <4>1, FrameFacts
    <3>7. Understood(heard'.client, Written')
      <4>1. Understood(heard.client, ms) /\ heard.client \in Seq(Seq(Bytes))
        BY <1>0, <3>1 DEF DownInv
      <4> QED
        BY <1>1, <3>4, <3>5, <4>1, UnderstoodMore
    <3>8. ASSUME client'.pc /= "closed"
          PROVE  Reads(client', down' \o server'.sendbuf, Len(heard'.client), Written')
      <4>1. down \o server.sendbuf = down
        BY <1>0, <2>0, Joined
      <4>2. Reads(client, down, k, ms) /\ client.data \in Seq(Bytes)
        BY <1>0, <2>0, <3>1, <3>8, <4>1 DEF DownInv, Clients
      <4>3. Reads(client, down \o FrameOf(m), k, Append(ms, m))
        BY <1>0, <3>4, <4>2, ReadsMore
      <4> QED
        BY <1>1, <2>0, <3>1, <3>3, <3>5, <3>6, <4>3
    <3> QED
      BY <3>3, <3>7, <3>8 DEF DownInv
  <2> QED
    BY <2>1, <2>2
<1>9. CASE Send
  <2>1. PICK b, c, cap, n : b = down /\ c = server.sendbuf /\ cap = setting.down
                            /\ n = Least(Room(down, setting.down), Len(server.sendbuf))
    OBVIOUS
  <2>2. /\ server.pc = "write" /\ client' = client /\ down' = b \o First(n, c)
        /\ server' = [server EXCEPT !.sendbuf = Rest(n, c),
                                    !.pc = IF Rest(n, c) = <<>> THEN "select" ELSE "write"]
    BY <1>9, <2>1 DEF Send
  <2>3. /\ server'.sendbuf = Rest(n, c) /\ server'.taken = server.taken
        /\ server'.pc = IF Rest(n, c) = <<>> THEN "select" ELSE "write"
    BY <1>0, <2>2 DEF Servers
  <2>4. (b \o First(n, c)) \o Rest(n, c) = b \o c
    <3>1. /\ b \in Seq(Bytes) /\ c \in Seq(Bytes) /\ cap \in Nat /\ Len(b) <= cap
          /\ n = Least(Room(b, cap), Len(c))
      BY <1>0, <2>1
    <3>2. /\ b \o First(n, c) \in Seq(Bytes) /\ Len(b \o First(n, c)) <= cap
          /\ Rest(n, c) \in Seq(Bytes)
          /\ (b \o First(n, c)) \o Rest(n, c) = b \o c
      BY ONLY <3>1, SendPieces
    <3> QED
      BY <3>2
  <2>5. down' \o server'.sendbuf = down \o server.sendbuf
    BY <2>1, <2>2, <2>3, <2>4
  <2>6. /\ Understood(heard'.client, Written')
        /\ client'.pc /= "closed"
              => Reads(client', down' \o server'.sendbuf, Len(heard'.client), Written')
    BY <1>1, <1>3, <2>3, <2>5, DownQuiet
  <2>7. /\ server'.pc /= "closed"
        /\ server'.pc \notin {"write", "closed"} => server'.sendbuf = <<>>
    BY <2>3
  <2> QED
    BY <2>6, <2>7 DEF DownInv
<1>10. CASE NoticeClosed
  <2>1. /\ client' = client /\ down' = down /\ server'.sendbuf = server.sendbuf
        /\ server'.taken = server.taken /\ client.pc = "closed" /\ server'.pc = "closed"
    BY <1>0, <1>10 DEF NoticeClosed, Servers
  <2> QED
    BY <1>4, <2>1 DEF DownInv
<1> QED
  BY <1>5, <1>6, <1>7, <1>8, <1>9, <1>10 DEF ServerStep

\* Whatever else happens, too.
LEMMA DownNext ==
    ASSUME TypeInv, TypeInv', DownInv, [Next]_vars, TimeoutInHeader = FALSE
    PROVE  DownInv'
<1>1. ASSUME UNCHANGED <<down, casts, client, server, heard>> PROVE DownInv'
  BY <1>1 DEF DownInv, Written, Understood, Reads
<1>2. CASE UNCHANGED vars \/ Over
  BY <1>1, <1>2 DEF vars, Over
<1>3. ASSUME NEW size \in Sizes, Ask(size) PROVE DownInv'
  BY <1>1, <1>3 DEF Ask
<1>4. ASSUME NEW size \in Sizes, Broadcast(size) PROVE DownInv'
  <2>1. /\ client' = client /\ down' = down /\ server' = server /\ heard' = heard
        /\ casts' = Append(casts, size)
    BY <1>4 DEF Broadcast
  <2>2. \A i \in 1..Len(casts) : casts'[i] = casts[i]
    BY <2>1 DEF TypeInv
  <2>3. /\ Understood(heard'.client, Written')
        /\ client'.pc /= "closed"
              => Reads(client', down' \o server'.sendbuf, Len(heard'.client), Written')
    BY <2>1, <2>2, DownQuiet
  <2> QED
    BY <2>1, <2>3 DEF DownInv
<1> QED
  BY <1>2, <1>3, <1>4, DownClient, DownServer DEF Next

-----------------------------------------------------------------------------
(***************************************************************************)
(* The theorems.                                                           *)
(***************************************************************************)

(***************************************************************************)
(* The variables have their types: no buffer ever holds more than fits,    *)
(* whatever the pieces in which a message is sent and read.                *)
(***************************************************************************)
THEOREM TypeCorrect == Spec => []TypeOK
<1>1. Spec => []TypeInv
  BY InitTypes, NextTypes, PTL DEF Spec
<1>2. TypeInv => TypeOK
  BY DEF TypeInv, TypeOK, Clients, Servers
<1> QED
  BY <1>1, <1>2, PTL

\* It holds for ever.
LEMMA UpAlways == Spec => [](TypeInv /\ UpInv)
BY InitTypes, NextTypes, UpStart, UpNext, PTL DEF Spec

\* What the server has read so far.
LEMMA UpUnderstood == TypeInv /\ UpInv => ServerUnderstands \/ BrokenOff
<1> SUFFICES ASSUME TypeInv, UpInv, ~BrokenOff PROVE ServerUnderstands
  OBVIOUS
<1>1. /\ client.taken \in Nat /\ client.taken <= Len(requests) /\ Len(requests) \in Nat
      /\ heard.server \in Seq(Seq(Bytes)) /\ Len(heard.server) \in Nat
      /\ DOMAIN heard.server = 1..Len(heard.server)
  BY DEF TypeInv, Clients
<1>2. PICK n, q, ms : n = client.taken /\ q = heard.server /\ ms = Taken(n, requests)
  OBVIOUS
<1>3. /\ ms \in Seq(Messages) /\ Len(ms) = n /\ \A i \in 1..n : ms[i] = <<i, requests[i]>>
  <2>1. ASSUME NEW i \in 1..n PROVE <<i, requests[i]>> \in Messages
    <3>1. i \in 1..Len(requests)
      BY <1>1, <1>2
    <3> QED
      BY <3>1, Bounds
  <2> QED
    BY <1>1, <1>2, <2>1, TakenFacts
<1>4. Bye \in Messages /\ Sent \in Seq(Messages)
  BY SentFacts
<1>5. /\ Len(Sent) <= n + 1
      /\ \A i \in 1..n : Sent[i] = ms[i]
      /\ Len(Sent) = n + 1 => Sent[n + 1] = Bye
  <2>1. Sent = ms \/ Sent = Append(ms, Bye)
    BY <1>2 DEF Sent
  <2>2. CASE Sent = ms
    BY <1>1, <1>2, <1>3, <2>2
  <2>3. CASE Sent = Append(ms, Bye)
    BY <1>1, <1>2, <1>3, <1>4, <2>3
  <2> QED
    BY <2>1, <2>2, <2>3
<1>6. Len(q) <= Len(Sent) /\ \A i \in 1..Len(q) : q[i] = BodyOf(Sent[i])
  BY <1>2 DEF UpInv, Understood
<1>7. ASSUME NEW i \in 1..Len(q)
      PROVE  \/ i <= Len(requests) /\ q[i] = Body(i, requests[i])
             \/ i > client.taken /\ q[i] = Body(0, ByeSize)
  <2>1. i \in Nat /\ i <= Len(Sent) /\ Len(Sent) \in Nat
    BY <1>1, <1>2, <1>4, <1>6
  <2>2. CASE i <= n
    <3>1. i \in 1..n /\ i <= Len(requests)
      BY <1>1, <1>2, <2>1, <2>2
    <3>2. q[i] = BodyOf(<<i, requests[i]>>)
      BY <1>3, <1>5, <1>6, <3>1
    <3> QED
      BY <3>1, <3>2 DEF BodyOf
  <2>3. CASE i > n
    <3>1. i = n + 1 /\ Len(Sent) = n + 1
      BY <1>1, <1>2, <1>5, <2>1, <2>3
    <3>2. q[i] = BodyOf(Bye)
      BY <1>5, <1>6, <3>1
    <3> QED
      BY <1>2, <2>3, <3>2 DEF BodyOf, Bye
  <2> QED
    BY <1>1, <1>2, <2>1, <2>2, <2>3
<1> QED
  BY <1>1, <1>2, <1>7 DEF ServerUnderstands

(***************************************************************************)
(* Whatever the buffers hold and wherever a read or a send times out, what *)
(* the server's receiveOne hands to box.unpack are the client's messages,  *)
(* one by one and in order, unless the client has hung up with its goodbye *)
(* in the middle of a request.                                             *)
(***************************************************************************)
THEOREM ServerAlwaysUnderstands == Spec => [](ServerUnderstands \/ BrokenOff)
BY UpAlways, UpUnderstood, PTL

\* It holds for ever.
LEMMA DownAlways ==
    ASSUME TimeoutInHeader = FALSE
    PROVE  Spec => [](TypeInv /\ DownInv)
<1>1. Init => TypeInv /\ DownInv
  BY InitTypes, DownStart
<1>2. TypeInv /\ DownInv /\ [Next]_vars => TypeInv' /\ DownInv'
  BY NextTypes, DownNext
<1> QED
  BY <1>1, <1>2, PTL DEF Spec

\* What the client has read so far.
LEMMA DownUnderstood == TypeInv /\ DownInv => ClientUnderstands
<1> SUFFICES ASSUME TypeInv, DownInv PROVE ClientUnderstands
  OBVIOUS
<1>1. /\ server.taken \in Nat /\ server.taken <= Len(casts) /\ Len(casts) \in Nat
      /\ heard.client \in Seq(Seq(Bytes)) /\ Len(heard.client) \in Nat
      /\ DOMAIN heard.client = 1..Len(heard.client)
  BY DEF TypeInv, Servers
<1>2. PICK n, q, ms : n = server.taken /\ q = heard.client /\ ms = Taken(n, casts)
  OBVIOUS
<1>3. Len(ms) = n /\ \A i \in 1..n : ms[i] = <<i, casts[i]>>
  <2>1. ASSUME NEW i \in 1..n PROVE <<i, casts[i]>> \in Messages
    <3>1. i \in 1..Len(casts)
      BY <1>1, <1>2
    <3> QED
      BY <3>1, Bounds
  <2> QED
    BY <1>1, <1>2, <2>1, TakenFacts
<1>4. Len(q) <= Len(ms) /\ \A i \in 1..Len(q) : q[i] = BodyOf(ms[i])
  BY <1>2 DEF DownInv, Understood, Written
<1>5. ASSUME NEW i \in 1..Len(q) PROVE q[i] = Body(i, casts[i])
  <2>1. i \in 1..n
    BY <1>1, <1>2, <1>3, <1>4
  <2> QED
    BY <1>3, <1>4, <2>1 DEF BodyOf
<1> QED
  BY <1>1, <1>2, <1>3, <1>4, <1>5 DEF ClientUnderstands

(***************************************************************************)
(* Unless a read times out within a header, what the client's ServerReader *)
(* hands to box.unpack are the server's messages, one by one and in order, *)
(* and neither end ever takes bytes for another message than the one       *)
(* written but for the goodbye above.                                      *)
(***************************************************************************)
THEOREM BothAlwaysUnderstand ==
    ASSUME TimeoutInHeader = FALSE
    PROVE  Spec => []((BothUnderstand \/ BrokenOff) /\ ClientUnderstands)
<1>1. TypeInv /\ UpInv /\ DownInv
          => (BothUnderstand \/ BrokenOff) /\ ClientUnderstands
  BY UpUnderstood, DownUnderstood DEF BothUnderstand
<1>2. Spec => [](TypeInv /\ UpInv) /\ [](TypeInv /\ DownInv)
  BY UpAlways, DownAlways
<1> QED
  BY <1>1, <1>2, PTL

\* The client has not hung up, or had reason to.
Standing == setting.fails \/ client.pc /= "closed"

\* Without a failing message nobody begins to hang up.
LEMMA StandingNext ==
    ASSUME TypeInv, UpInv, DownInv, Standing, [Next]_vars
    PROVE  Standing'
<1>1. setting' = setting
  BY DEF Next, vars, Over, Ask, Broadcast, ClientStep, ReadTimesOut, ReadHeader, ReadBody,
         DispatchMessage, TakeMessage, SendBytes, SendTimesOut, ServerStep, Select,
         ReceiveHeader, ReceiveBody, Dispatch, SendOne, Send, NoticeClosed
<1>2. SUFFICES ASSUME ~setting.fails, client.pc /= "closed" PROVE client'.pc /= "closed"
  BY <1>1 DEF Standing
<1>3. /\ up \in Seq(Bytes) /\ down \in Seq(Bytes) /\ client \in Clients
      /\ client.sendbuf \in Seq(Bytes) /\ server.sendbuf \in Seq(Bytes)
  BY DEF TypeInv, Clients, Servers
<1>4. CASE ReadHeader
  <2>1. PICK more, all, k : /\ more = server.sendbuf /\ all = down \o more
                            /\ k = Len(heard.client)
    OBVIOUS
  <2>2. /\ Written \in Seq(Messages) /\ down \in Seq(Bytes) /\ more \in Seq(Bytes)
        /\ all = down \o more /\ client.pc /= "body" /\ Reads(client, all, k, Written)
        /\ LineEnd(down) > 0
    BY <1>2, <1>3, <1>4, <2>1, WrittenFacts DEF ReadHeader, DownInv
  <2>3. IsNumber(First(LineEnd(down) - 1, down))
    BY ONLY <2>2, ReadsHeader
  <2>4. client' = [client EXCEPT !.pc = "body", !.blocking = TRUE,
                                 !.need = Number(First(LineEnd(down) - 1, down)), !.data = <<>>]
    BY <1>4, <2>3 DEF ReadHeader
  <2> QED
    BY <1>3, <2>4 DEF Clients
<1>5. CASE DispatchMessage
  <2>1. client' = [client EXCEPT !.pc = "write"]
    BY <1>2, <1>5 DEF DispatchMessage
  <2> QED
    BY <1>3, <2>1 DEF Clients
<1>6. CASE ReadTimesOut \/ ReadBody \/ TakeMessage \/ SendBytes \/ SendTimesOut
  BY <1>2, <1>3, <1>6 DEF ReadTimesOut, ReadBody, TakeMessage, SendBytes, SendTimesOut, Clients
<1>7. CASE ReceiveHeader
  <2>0. Reads(server, up \o client.sendbuf, Len(heard.server), Taken(client.taken, requests))
    BY <1>2, UpReads
  <2>1. PICK more, all, k, ms : /\ more = client.sendbuf /\ all = up \o more
                                /\ k = Len(heard.server) /\ ms = Taken(client.taken, requests)
    OBVIOUS
  <2>2. /\ ms \in Seq(Messages) /\ up \in Seq(Bytes) /\ more \in Seq(Bytes)
        /\ all = up \o more /\ server.pc /= "body" /\ Reads(server, all, k, ms)
        /\ LineEnd(up) > 0
    BY <1>3, <1>7, <2>0, <2>1, SentFacts DEF ReceiveHeader
  <2>3. IsNumber(First(LineEnd(up) - 1, up))
    BY ONLY <2>2, ReadsHeader
  <2> QED
    BY <1>2, <1>7, <2>3 DEF ReceiveHeader
<1>8. CASE UNCHANGED vars \/ Over \/ (\E size \in Sizes : Ask(size) \/ Broadcast(size))
  BY <1>2, <1>8 DEF vars, Over, Ask, Broadcast
<1>9. CASE Select \/ ReceiveBody \/ Dispatch \/ SendOne \/ Send \/ NoticeClosed
  BY <1>2, <1>9 DEF Select, ReceiveBody, Dispatch, SendOne, Send, NoticeClosed
<1> QED
  BY <1>4, <1>5, <1>6, <1>7, <1>8, <1>9 DEF Next, ClientStep, ServerStep

(***************************************************************************)
(* Where the client does not fail on a message, and no read times out      *)
(* within a header, neither end ever takes bytes for another message than  *)
(* the one written, nor hangs up: no part of a message is ever taken for a *)
(* malformed header, in either direction, whatever the buffers hold.       *)
(***************************************************************************)
THEOREM NobodyHangsUp ==
    ASSUME TimeoutInHeader = FALSE
    PROVE  Spec => [](~setting.fails
                        => BothUnderstand /\ client.pc /= "closed" /\ server.pc /= "closed")
<1>1. Init => Standing
  BY DEF Init, Standing
<1>2. TypeInv /\ UpInv /\ DownInv /\ Standing /\ [Next]_vars => Standing'
  BY StandingNext
<1>3. TypeInv /\ UpInv /\ DownInv /\ Standing
          => (~setting.fails
                => BothUnderstand /\ client.pc /= "closed" /\ server.pc /= "closed")
  <2> SUFFICES ASSUME TypeInv, UpInv, DownInv, Standing, ~setting.fails
               PROVE  BothUnderstand /\ client.pc /= "closed" /\ server.pc /= "closed"
    OBVIOUS
  <2>1. client.pc /= "closed" /\ ~BrokenOff
    BY DEF Standing, BrokenOff
  <2> QED
    BY <2>1, UpUnderstood, DownUnderstood DEF BothUnderstand, UpInv
<1>4. Spec => [](TypeInv /\ UpInv) /\ [](TypeInv /\ DownInv)
  BY UpAlways, DownAlways
<1> QED
  BY <1>1, <1>2, <1>3, <1>4, PTL DEF Spec
=============================================================================
