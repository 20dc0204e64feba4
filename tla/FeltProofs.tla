----------------------------- MODULE FeltProofs ------------------------------
(***************************************************************************)
(* Proofs about Felt: every client understands every message that is on    *)
(* its way to it, and has the server's game once it has handled them all,  *)
(* for any number of players, whatever they click, with ids reused and     *)
(* clients coming and going.                                               *)
(*                                                                         *)
(* The argument follows one broadcast at a time.  A replica is in step     *)
(* with a state of the server's game (Sync) when it has handled everything *)
(* that was broadcast up to that state.  Every method of the game takes a  *)
(* replica that is in step through messages it understands to one that is  *)
(* in step again (Tells).  That carries over from the messages of one      *)
(* dispatch to all that an inbox holds.                                    *)
(*                                                                         *)
(* The last part shows that the server, with its clients around it, does   *)
(* what Table says, but for one request that a reused id can misdirect.    *)
(***************************************************************************)
EXTENDS Felt, GameProofs

-----------------------------------------------------------------------------
(***************************************************************************)
(* A client working through a list of messages.                            *)
(***************************************************************************)

\* A replica handles a message without an error, and finds in it the objects
\* the server meant.
Follows(r, m) ==
    /\ ~Fails(r, m)
    /\ m.method /= "game" =>
          \A ref \in {m.self, m.arg} :
              /\ Resolve(r, ref) = ref.obj
              /\ ref.tag = "C" => m.method = "addObject"

\* Of the ids in use, only those of stones are given to something else.
Keeps(s, t) ==
    \A i \in Id : s.objects[i] \in Entity \ Stones => t.objects[i] = s.objects[i]

Understands(r, m) == Follows(r, m) /\ Keeps(r, Apply(r, m))

\* R lists the replicas a client goes through from r while it handles q.
Run(r, q, R) ==
    /\ R \in [0..Len(q) -> Replica]
    /\ R[0] = r
    /\ \A i \in 1..Len(q) : Understands(R[i - 1], q[i]) /\ R[i] = Apply(R[i - 1], q[i])

\* Handling q takes the client from r to e.
Leads(r, q, e) == \E R : Run(r, q, R) /\ R[Len(q)] = e

LEMMA LeadsNowhere ==
    ASSUME NEW r \in Replica
    PROVE  Leads(r, <<>>, r)
<1> DEFINE R == [i \in 0..0 |-> r]
<1>1. R \in [0..Len(<<>>) -> Replica] /\ R[0] = r
  OBVIOUS
<1>2. \A i \in 1..Len(<<>>) : Understands(R[i - 1], <<>>[i]) /\ R[i] = Apply(R[i - 1], <<>>[i])
  OBVIOUS
<1>3. Run(r, <<>>, R)
  BY <1>1, <1>2 DEF Run
<1>4. Len(<<>>) = 0
  OBVIOUS
<1> QED
  BY <1>1, <1>3, <1>4 DEF Leads

\* One message more.
LEMMA LeadsOneMore ==
    ASSUME NEW S, NEW r, NEW q \in Seq(S), NEW m \in S, NEW e, Leads(r, q, e),
           Understands(e, m), Apply(e, m) \in Replica
    PROVE  Leads(r, Append(q, m), Apply(e, m))
<1>0. PICK R : Run(r, q, R) /\ R[Len(q)] = e
  BY DEF Leads
<1> DEFINE n == Len(q)
           r2 == Apply(e, m)
           Q == [i \in 0..(n + 1) |-> IF i = n + 1 THEN r2 ELSE R[i]]
           a == Append(q, m)
<1>1. n \in Nat /\ Len(a) = n + 1 /\ a[n + 1] = m /\ \A i \in 1..n : a[i] = q[i]
  OBVIOUS
<1>2. Q \in [0..Len(a) -> Replica] /\ Q[0] = r /\ Q[n + 1] = r2
  BY <1>0, <1>1 DEF Run
<1>3. \A i \in 0..n : Q[i] = R[i]
  BY <1>1
<1> HIDE DEF Q
<1>4. ASSUME NEW i \in 1..Len(a)
      PROVE  Understands(Q[i - 1], a[i]) /\ Q[i] = Apply(Q[i - 1], a[i])
  <2>1. CASE i = n + 1
    <3>1. Q[i - 1] = R[n]
      BY <1>1, <1>3, <2>1
    <3> QED
      BY <3>1, <2>1, <1>0, <1>1, <1>2
  <2>2. CASE i \in 1..n
    <3>1. Q[i - 1] = R[i - 1] /\ Q[i] = R[i] /\ a[i] = q[i]
      BY <1>1, <1>3, <2>2
    <3> QED
      BY <3>1, <2>2, <1>0 DEF Run
  <2> QED
    BY <1>1, <2>1, <2>2
<1>5. Run(r, a, Q)
  BY <1>2, <1>4 DEF Run
<1> QED
  BY <1>1, <1>2, <1>5 DEF Leads

\* One list of messages after another.
LEMMA LeadsBoth ==
    ASSUME NEW S, NEW r, NEW q1 \in Seq(S), NEW q2 \in Seq(S),
           NEW r1, Leads(r, q1, r1), NEW r2, Leads(r1, q2, r2)
    PROVE  Leads(r, q1 \o q2, r2)
<1>0. PICK n1, n2, R1, R2 : /\ n1 = Len(q1) /\ n2 = Len(q2)
                            /\ Run(r, q1, R1) /\ r1 = R1[n1]
                            /\ Run(r1, q2, R2) /\ r2 = R2[n2]
  BY DEF Leads
<1> DEFINE q == q1 \o q2
           Q == [i \in 0..(n1 + n2) |-> IF i <= n1 THEN R1[i] ELSE R2[i - n1]]
<1>1. /\ n1 \in Nat /\ n2 \in Nat /\ Len(q) = n1 + n2
      /\ \A i \in 1..n1 : q[i] = q1[i]
      /\ \A i \in 1..n2 : q[n1 + i] = q2[i]
  BY <1>0
<1>2. Q \in [0..Len(q) -> Replica]
  <2> SUFFICES ASSUME NEW i \in 0..(n1 + n2) PROVE Q[i] \in Replica
    BY <1>1
  <2>1. CASE i <= n1
    <3>1. i \in 0..n1
      BY <1>1, <2>1
    <3> QED
      BY <2>1, <3>1, <1>0 DEF Run
  <2>2. CASE ~(i <= n1)
    <3>1. i - n1 \in 0..n2
      BY <1>1, <2>2
    <3> QED
      BY <2>2, <3>1, <1>0 DEF Run
  <2> QED
    BY <2>1, <2>2
<1>3. \A i \in 0..n1 : Q[i] = R1[i]
  BY <1>1
<1>4. \A i \in 0..n2 : Q[n1 + i] = R2[i]
  <2> SUFFICES ASSUME NEW i \in 0..n2 PROVE Q[n1 + i] = R2[i]
    OBVIOUS
  <2>1. CASE i = 0
    BY <1>1, <2>1, <1>0 DEF Run
  <2>2. CASE i \in 1..n2
    BY <1>1, <2>2
  <2> QED
    BY <1>1, <2>1, <2>2
<1> HIDE DEF Q, q
<1>5. ASSUME NEW i \in 1..Len(q)
      PROVE  Understands(Q[i - 1], q[i]) /\ Q[i] = Apply(Q[i - 1], q[i])
  <2>1. CASE i \in 1..n1
    <3>1. Q[i - 1] = R1[i - 1] /\ Q[i] = R1[i] /\ q[i] = q1[i]
      BY <1>1, <1>3, <2>1
    <3> QED
      BY <3>1, <2>1, <1>0 DEF Run
  <2>2. CASE i \notin 1..n1
    <3>1. PICK j \in 1..n2 : i = n1 + j
      <4>1. i - n1 \in 1..n2 /\ i = n1 + (i - n1)
        BY <1>1, <2>2
      <4> QED
        BY <4>1
    <3>2. i - 1 = n1 + (j - 1) /\ j - 1 \in 0..n2 /\ j \in 0..n2
      BY <1>1, <3>1
    <3>3. Q[i - 1] = R2[j - 1] /\ Q[i] = R2[j] /\ q[i] = q2[j]
      BY <1>1, <1>4, <3>1, <3>2
    <3> QED
      BY <3>3, <1>0 DEF Run
  <2> QED
    BY <2>1, <2>2
<1>6. Q[0] = r
  BY <1>1, <1>3, <1>0 DEF Run
<1>7. Run(r, q, Q) /\ Q[Len(q)] = R2[n2]
  BY <1>1, <1>2, <1>4, <1>5, <1>6, <1>0 DEF Run
<1> QED
  BY <1>0, <1>7 DEF q, Leads

\* What remains after the first message.
LEMMA LeadsOn ==
    ASSUME NEW S, NEW r, NEW q \in Seq(S), q /= <<>>, NEW e, Leads(r, q, e)
    PROVE  /\ Understands(r, Head(q))
           /\ Apply(r, Head(q)) \in Replica
           /\ Leads(Apply(r, Head(q)), Tail(q), e)
<1>0. PICK R : Run(r, q, R) /\ R[Len(q)] = e
  BY DEF Leads
<1> DEFINE n == Len(q)
           a == Tail(q)
           Q == [i \in 0..(n - 1) |-> R[i + 1]]
<1>1. /\ n \in Nat \ {0} /\ Len(a) = n - 1 /\ Head(q) = q[1]
      /\ \A i \in 1..(n - 1) : a[i] = q[i + 1]
  OBVIOUS
<1>2. 1 \in 1..n /\ 1 - 1 = 0
  BY <1>1
<1>3. Understands(r, q[1]) /\ R[1] = Apply(r, q[1])
  BY <1>2, <1>0 DEF Run
<1>4. Q \in [0..Len(a) -> Replica] /\ Q[0] = R[1] /\ R[1] \in Replica
  <2>1. \A i \in 0..n : R[i] \in Replica
    BY <1>0 DEF Run
  <2>2. 0 \in 0..(n - 1) /\ 0 + 1 = 1 /\ 1 \in 0..n /\ \A i \in 0..(n - 1) : i + 1 \in 0..n
    BY <1>1
  <2> QED
    BY <1>1, <2>1, <2>2
<1>5. \A i \in 0..(n - 1) : Q[i] = R[i + 1]
  OBVIOUS
<1>6. ASSUME NEW i \in 1..Len(a)
      PROVE  Understands(Q[i - 1], a[i]) /\ Q[i] = Apply(Q[i - 1], a[i])
  <2>1. i + 1 \in 1..n /\ i - 1 \in 0..(n - 1) /\ i \in 0..(n - 1) /\ (i + 1) - 1 = i
        /\ (i - 1) + 1 = i
    BY <1>1
  <2>2. Q[i - 1] = R[i] /\ Q[i] = R[i + 1] /\ a[i] = q[i + 1]
    BY <1>1, <1>5, <2>1
  <2>3. Understands(R[(i + 1) - 1], q[i + 1]) /\ R[i + 1] = Apply(R[(i + 1) - 1], q[i + 1])
    BY <2>1, <1>0 DEF Run
  <2> QED
    BY <2>1, <2>2, <2>3
<1>7. Run(R[1], a, Q)
  BY <1>4, <1>6, <1>0 DEF Run
<1>8. Q[Len(a)] = R[n]
  BY <1>1
<1> HIDE DEF Q
<1> QED
  BY <1>0, <1>1, <1>3, <1>4, <1>7, <1>8 DEF Leads

\* The first n messages.
LEMMA RunPrefix ==
    ASSUME NEW S, NEW r, NEW q \in Seq(S), NEW R, Run(r, q, R), NEW n \in 0..Len(q)
    PROVE  /\ SubSeq(q, 1, n) \in Seq(S) /\ Len(SubSeq(q, 1, n)) = n
           /\ Leads(r, SubSeq(q, 1, n), R[n])
<1> DEFINE a == SubSeq(q, 1, n)
           Q == [i \in 0..n |-> R[i]]
<1>1. a \in Seq(S) /\ Len(a) = n /\ (\A i \in 1..n : a[i] = q[i]) /\ n \in Nat /\ Len(q) \in Nat
  OBVIOUS
<1>2. \A i \in 0..n : Q[i] = R[i]
  OBVIOUS
<1>3. Q \in [0..Len(a) -> Replica] /\ Q[0] = r
  BY <1>1 DEF Run
<1> HIDE DEF a, Q
<1>4. ASSUME NEW i \in 1..Len(a)
      PROVE  Understands(Q[i - 1], a[i]) /\ Q[i] = Apply(Q[i - 1], a[i])
  <2>1. i \in 1..Len(q) /\ i - 1 \in 0..n /\ i \in 0..n /\ i \in 1..n
    BY <1>1
  <2>2. Q[i - 1] = R[i - 1] /\ Q[i] = R[i] /\ a[i] = q[i]
    BY <1>1, <1>2, <2>1
  <2> QED
    BY <2>1, <2>2 DEF Run
<1>5. Run(r, a, Q) /\ Q[n] = R[n]
  BY <1>1, <1>2, <1>3, <1>4 DEF Run
<1> QED
  BY <1>1, <1>5 DEF a, Leads

(***************************************************************************)
(* FoldLeft goes through the same replicas.  It is defined by recursion on *)
(* sets of indices, the largest of which is handled last; f is such a      *)
(* recursive function for the subsets of 1..k.                             *)
(***************************************************************************)
Folded(f, r, q, k) ==
    \A s \in SUBSET (1..k) :
        f[s] = IF s = {} THEN r ELSE Apply(f[s \ {Max(s)}], q[Max(s)])

LEMMA FoldedExists ==
    ASSUME NEW r, NEW q, NEW n \in Nat
    PROVE  \E f : Folded(f, r, q, n)
<1> DEFINE A == {k \in 0..n : \E f : Folded(f, r, q, k)}
<1>1. 0 \in A
  <2> DEFINE f == [s \in {{}} |-> r]
  <2>1. \A s \in SUBSET (1..0) : s = {}
    OBVIOUS
  <2>2. f[{}] = r
    OBVIOUS
  <2>3. Folded(f, r, q, 0)
    BY <2>1, <2>2 DEF Folded
  <2> QED
    BY <2>3
<1>2. ASSUME NEW k \in 0..n, k \in A, k < n PROVE k + 1 \in A
  <2>1. PICK f : Folded(f, r, q, k)
    BY <1>2
  <2> DEFINE S == SUBSET (1..(k + 1))
             g == [s \in S |-> IF k + 1 \in s THEN Apply(f[s \ {k + 1}], q[k + 1]) ELSE f[s]]
  <2>2. \A s \in S : g[s] = IF k + 1 \in s THEN Apply(f[s \ {k + 1}], q[k + 1]) ELSE f[s]
    OBVIOUS
  <2> HIDE DEF g
  <2>3. ASSUME NEW s \in S
        PROVE  g[s] = IF s = {} THEN r ELSE Apply(g[s \ {Max(s)}], q[Max(s)])
    <3>1. CASE k + 1 \in s
      <4>0. k + 1 \in Nat /\ s \in SUBSET (1..(k + 1)) /\ s /= {}
        BY <3>1
      <4>1. Max(s) \in s /\ \A x \in s : x <= Max(s)
        BY <4>0, LargestIndex
      <4>2. Max(s) = k + 1
        <5>1. Max(s) \in 1..(k + 1) /\ k + 1 <= Max(s)
          BY <3>1, <4>0, <4>1
        <5> QED
          BY <5>1
      <4>3. s \ {k + 1} \in S /\ k + 1 \notin s \ {k + 1}
        OBVIOUS
      <4>4. g[s \ {k + 1}] = f[s \ {k + 1}]
        BY <2>2, <4>3
      <4> QED
        BY <2>2, <3>1, <4>2, <4>4
    <3>2. CASE k + 1 \notin s
      <4>1. s \in SUBSET (1..k)
        BY <3>2
      <4>2. g[s] = f[s]
        BY <2>2, <3>2
      <4>3. s /= {} => g[s \ {Max(s)}] = f[s \ {Max(s)}]
        <5>1. s \ {Max(s)} \in S /\ k + 1 \notin s \ {Max(s)}
          BY <3>2
        <5> QED
          BY <2>2, <5>1
      <4> QED
        BY <2>1, <4>1, <4>2, <4>3 DEF Folded
    <3> QED
      BY <3>1, <3>2
  <2>4. Folded(g, r, q, k + 1)
    BY <2>3 DEF Folded
  <2> QED
    BY <1>2, <2>4
<1> HIDE DEF A
<1>3. 0..n \subseteq A
  BY <1>1, <1>2, Induction
<1> QED
  BY <1>3 DEF A

LEMMA FoldLeftFolded ==
    ASSUME NEW S, NEW r, NEW q \in Seq(S), NEW n, n = Len(q)
    PROVE  \E f : Folded(f, r, q, n) /\ FoldLeft(Apply, r, q) = f[1..n]
<1> DEFINE v(f, s) == IF s = {} THEN r ELSE Apply(f[s \ {Max(s)}], q[Max(s)])
           D == SUBSET (1..n)
           g == CHOOSE h : h = [s \in D |-> v(h, s)]
<1>0. n \in Nat /\ DOMAIN q = 1..n
  OBVIOUS
<1>1. FoldLeft(Apply, r, q) = g[1..n]
  BY <1>0 DEF FoldLeft, MapThenFoldSet
<1> HIDE DEF g
<1>2. PICK h : \A s \in D : h[s] = v(h, s)
  <2>1. PICK h : Folded(h, r, q, n)
    BY <1>0, FoldedExists
  <2>2. \A s \in D : h[s] = v(h, s)
    BY <2>1 DEF Folded
  <2> QED
    BY <2>2
<1> DEFINE k == [s \in D |-> h[s]]
<1>3. \A s \in D : k[s] = h[s]
  OBVIOUS
<1>4. \A s \in D : v(k, s) = v(h, s)
  <2> TAKE s \in D
  <2>1. k[s \ {Max(s)}] = h[s \ {Max(s)}]
    <3> HIDE DEF k
    <3> QED
      BY <1>3
  <2> HIDE DEF k
  <2> QED
    BY <2>1
<1>5. k = [s \in D |-> v(k, s)]
  <2> HIDE DEF v
  <2>1. \A s \in D : h[s] = v(k, s)
    <3> HIDE DEF k
    <3> QED
      BY <1>2, <1>4
  <2>2. [s \in D |-> h[s]] = [s \in D |-> v(k, s)]
    <3> HIDE DEF k
    <3> QED
      BY <2>1
  <2> QED
    BY <2>2
<1> HIDE DEF k
<1>6. g = [s \in D |-> v(g, s)]
  <2> HIDE DEF v
  <2> QED
    BY <1>5 DEF g
<1>7. \A s \in D : g[s] = v(g, s)
  <2> HIDE DEF v
  <2> QED
    BY <1>6
<1> QED
  BY <1>1, <1>7 DEF Folded

LEMMA RunFolds ==
    ASSUME NEW S, NEW r, NEW q \in Seq(S), NEW R, Run(r, q, R), NEW n, n = Len(q)
    PROVE  FoldLeft(Apply, r, q) = R[n]
<1>1. PICK f : Folded(f, r, q, n) /\ FoldLeft(Apply, r, q) = f[1..n]
  BY FoldLeftFolded
<1> DEFINE A == {k \in 0..n : f[1..k] = R[k]}
<1>0. n \in Nat
  OBVIOUS
<1>2. 0 \in A
  <2>1. 1..0 = {} /\ {} \in SUBSET (1..n)
    OBVIOUS
  <2>2. f[{}] = r
    BY <1>1, <2>1 DEF Folded
  <2> QED
    BY <1>0, <2>1, <2>2 DEF Run
<1>3. ASSUME NEW k \in 0..n, k \in A, k < n PROVE k + 1 \in A
  <2> DEFINE s == 1..(k + 1)
  <2>1. s \in SUBSET (1..n) /\ s /= {} /\ k + 1 \in s /\ \A x \in s : x <= k + 1
    BY <1>0, <1>3
  <2>2. Max(s) = k + 1
    <3>1. Max(s) \in s /\ \A x \in s : x <= Max(s)
      BY <1>0, <2>1, LargestIndex
    <3> QED
      BY <2>1, <3>1
  <2>3. s \ {k + 1} = 1..k
    OBVIOUS
  <2>4. f[s] = Apply(f[1..k], q[k + 1])
    BY <1>1, <2>1, <2>2, <2>3 DEF Folded
  <2>5. k + 1 \in 1..Len(q) /\ (k + 1) - 1 = k
    BY <1>0, <1>3
  <2>6. R[k + 1] = Apply(R[k], q[k + 1])
    BY <2>5 DEF Run
  <2> QED
    BY <1>0, <1>3, <2>4, <2>6
<1> HIDE DEF A
<1>4. 0..n \subseteq A
  BY <1>0, <1>2, <1>3, Induction
<1> QED
  BY <1>0, <1>1, <1>4 DEF A

-----------------------------------------------------------------------------
(***************************************************************************)
(* Replicas in step with the game.                                         *)
(***************************************************************************)

Players(s) == {p \in Player : s.id[p] /= 0}

\* Replica r agrees with the game s, except that its players are P, and shows
\* what has a place.
Sync(r, s, P) ==
    /\ r \in Replica
    /\ r.joined
    /\ r.objects = s.objects
    /\ r.players = P
    /\ r.held = s.held
    /\ \A e \in Entity \ Boxes : r.parent[e] = s.parent[e]
    /\ \A e \in Entity \ Boxes : s.parent[e] /= nil => e \in r.scene
    /\ \A e \in Fields : s.r_objects[e] /= 0 => e \in r.scene

\* The broadcasts of the dispatch that led to s bring replica r in step with s.
Told(r, s, P) == \E e : Leads(r, s.out, e) /\ Sync(e, s, P)

\* What was broadcast between s and t brings every client from s to t.
Tells(s, t, P, Q) == \A r : Told(r, s, P) => Told(r, t, Q)

\* Message m does.
Carries(m, s, t, P, Q) ==
    \A r : Sync(r, s, P) => Follows(r, m) /\ Sync(Apply(r, m), t, Q)

LEMMA TellsTrans ==
    ASSUME NEW s, NEW t, NEW u, NEW P, NEW Q, NEW U, Tells(s, t, P, Q), Tells(t, u, Q, U)
    PROVE  Tells(s, u, P, U)
BY DEF Tells

LEMMA TellsOne ==
    ASSUME NEW s \in State, NEW t, Keeps(s, t), NEW P, NEW Q, NEW m \in Message,
           t.out = Append(s.out, m), Carries(m, s, t, P, Q)
    PROVE  Tells(s, t, P, Q)
<1> SUFFICES ASSUME NEW r, Told(r, s, P) PROVE Told(r, t, Q)
  BY DEF Tells
<1>1. s.out \in Seq(Message)
  BY DEF State
<1>2. PICK e : Leads(r, s.out, e) /\ Sync(e, s, P)
  BY DEF Told
<1>3. Follows(e, m) /\ Sync(Apply(e, m), t, Q)
  BY <1>2 DEF Carries
<1>4. Apply(e, m) \in Replica
  BY <1>3 DEF Sync
<1>6. Understands(e, m)
  <2>1. e.objects = s.objects /\ Apply(e, m).objects = t.objects
    BY <1>2, <1>3 DEF Sync
  <2> QED
    BY <1>3, <2>1 DEF Understands, Keeps
<1>5. Leads(r, Append(s.out, m), Apply(e, m))
  BY <1>1, <1>2, <1>4, <1>6, LeadsOneMore
<1> QED
  BY <1>3, <1>5 DEF Told

\* Nothing was broadcast, and nothing clients know of has changed.
LEMMA TellsSame ==
    ASSUME NEW s, NEW t, NEW P,
           t.out = s.out, t.objects = s.objects, t.held = s.held,
           \A e \in Entity \ Boxes : t.parent[e] = s.parent[e],
           \A e \in Fields : t.r_objects[e] = s.r_objects[e]
    PROVE  Tells(s, t, P, P)
<1> SUFFICES ASSUME NEW r, Told(r, s, P) PROVE Told(r, t, P)
  BY DEF Tells
<1>1. PICK e : Leads(r, s.out, e) /\ Sync(e, s, P)
  BY DEF Told
<1>2. Sync(e, t, P)
  BY <1>1 DEF Sync
<1> QED
  BY <1>1, <1>2 DEF Told

\* Clients know what the server knows under an id.
LEMMA Resolves ==
    ASSUME NEW s \in State, RegistryOK(s), NEW r, NEW P, Sync(r, s, P),
           NEW o \in Object \cup {nil}, NEW ref, ref = RefTo(s, o)
    PROVE  /\ Resolve(r, ref) = o /\ ref.obj = o
           /\ ref.tag = "O" => o /= nil
           /\ o \in Object /\ s.r_objects[o] /= 0 => ref.tag = "O" /\ ref.id = s.r_objects[o]
           /\ o = nil => ref.tag = "N"
<1>1. CASE o = nil
  BY <1>1, GameAssumption DEF RefTo, NilRef, Resolve
<1>2. CASE o /= nil /\ s.r_objects[o] /= 0
  <2>1. ref = [tag |-> "O", id |-> s.r_objects[o], obj |-> o]
    BY <1>2 DEF RefTo, Registered
  <2>2. o \in Object /\ s.r_objects[o] \in Id /\ s.objects[s.r_objects[o]] = o
    BY <1>2 DEF State, RegistryOK
  <2>3. Resolve(r, ref) = r.objects[ref.id]
    BY <2>1, <2>2, <1>2 DEF Resolve
  <2> QED
    BY <1>2, <2>1, <2>2, <2>3 DEF Sync
<1>3. CASE o /= nil /\ s.r_objects[o] = 0
  <2>1. ref = [tag |-> "C", id |-> s.id[o], obj |-> o]
    BY <1>3 DEF RefTo, Registered
  <2> QED
    BY <1>3, <2>1 DEF Resolve
<1> QED
  BY <1>1, <1>2, <1>3

LEMMA GameResolves ==
    ASSUME NEW r
    PROVE  /\ Resolve(r, GameRef) = GameObject /\ GameRef.obj = GameObject
           /\ GameRef.tag = "O" /\ GameObject /= nil
<1>1. GameRef.obj = GameObject /\ GameRef.tag = "O" /\ GameRef.id = 0
  BY DEF GameRef
<1>2. Resolve(r, GameRef) = GameObject
  BY <1>1 DEF Resolve, Id
<1>3. GameObject /= nil
  BY GameAssumption
<1> QED
  BY <1>1, <1>2, <1>3

MessageOf(self, method, arg) == [self |-> self, method |-> method, arg |-> arg]

LEMMA TellsSend ==
    ASSUME NEW s \in State, NEW u \in State, u.out = s.out,
           NEW self \in Ref, NEW method \in Method, NEW arg \in Ref,
           NEW v, v = Send(u, self, method, arg), NEW t, t.out = v.out, Keeps(s, t),
           NEW P, NEW Q, NEW m, m = MessageOf(self, method, arg), Carries(m, s, t, P, Q)
    PROVE  Tells(s, t, P, Q)
<1>1. m \in Message
  BY DEF MessageOf, Message
<1>2. t.out = Append(s.out, m)
  BY DEF Send, State, MessageOf
<1> QED
  BY <1>1, <1>2, TellsOne

(***************************************************************************)
(* The messages of the elementary methods.                                 *)
(***************************************************************************)

\* A reference that clients know: to nothing, or to a registered object.
Known(s, o) == o = nil \/ (o \in Object /\ s.r_objects[o] /= 0)

LEMMA SetHeldTells ==
    ASSUME NEW s \in State, RegistryOK(s), NEW p \in Player, Known(s, p),
           NEW e \in Object \cup {nil}, Known(s, e), NEW P, NEW t, t = SetHeld(s, p, e)
    PROVE  Tells(s, t, P, P)
<1> DEFINE u == [s EXCEPT !.held[p] = e]
<1>1. /\ u \in State /\ u.out = s.out
      /\ SameRegistry(u, s)
  BY DEF State, SameRegistry
<1>2. t = Send(u, RefTo(u, p), "set held", RefTo(u, e))
  BY DEF SetHeld
<1>3. /\ t \in State
      /\ SameRegistry(t, s) /\ SameTree(t, s)
      /\ t.held = [s.held EXCEPT ![p] = e]
  BY SetHeldFields
<1> HIDE DEF u
<1>4. p \in Object /\ p /= nil /\ p \in Object \cup {nil}
  BY GameAssumption DEF Object
<1>5. PICK a \in Ref, b \in Ref : a = RefTo(s, p) /\ b = RefTo(s, e)
  BY <1>4, RefToType
<1>6. RefTo(u, p) = a /\ RefTo(u, e) = b
  BY <1>1, <1>5 DEF RefTo, SameRegistry, Registered
<1>7. PICK m : m = MessageOf(a, "set held", b)
  OBVIOUS
<1>a. m.self = a /\ m.method = "set held" /\ m.arg = b
  BY <1>7 DEF MessageOf
<1>8. ASSUME NEW r, Sync(r, s, P) PROVE Follows(r, m) /\ Sync(Apply(r, m), t, P)
  <2>1. Resolve(r, a) = p /\ a.obj = p /\ a.tag = "O"
    BY <1>4, <1>5, <1>8, Resolves DEF Known
  <2>2. Resolve(r, b) = e /\ b.obj = e /\ (b.tag = "O" => e /= nil) /\ b.tag /= "C"
    BY <1>5, <1>8, Resolves DEF Known
  <2>3. Follows(r, m)
    BY <1>4, <1>a, <1>8, <2>1, <2>2 DEF Follows, Fails, Sync
  <2>4. Apply(r, m) = [r EXCEPT !.held[p] = e]
    BY <1>a, <2>1, <2>2 DEF Apply, ClientSet
  <2>5. Sync([r EXCEPT !.held[p] = e], t, P)
    BY <1>3, <1>8 DEF Sync, Replica, SameRegistry, SameTree
  <2> QED
    BY <2>3, <2>4, <2>5
<1>9. Carries(m, s, t, P, P)
  BY <1>8 DEF Carries
<1>10. t = Send(u, a, "set held", b) /\ "set held" \in Method
  BY <1>2, <1>6 DEF Method
<1>k. Keeps(s, t)
  BY <1>3 DEF Keeps, SameRegistry
<1> QED
  BY <1>1, <1>5, <1>7, <1>9, <1>10, <1>k, TellsSend

LEMMA SetHeldByTells ==
    ASSUME NEW s \in State, RegistryOK(s), NEW e \in Object, Known(s, e),
           NEW p \in Player \cup {nil}, Known(s, p), NEW P, NEW t, t = SetHeldBy(s, e, p)
    PROVE  Tells(s, t, P, P)
<1> DEFINE u == [s EXCEPT !.held_by[e] = p]
<1>1. /\ u \in State /\ u.out = s.out
      /\ SameRegistry(u, s)
  BY DEF State, SameRegistry
<1>2. t = Send(u, RefTo(u, e), "set held_by", RefTo(u, p))
  BY DEF SetHeldBy
<1>3. /\ t \in State
      /\ SameRegistry(t, s) /\ SameTree(t, s)
      /\ t.held = s.held /\ t.held_by = [s.held_by EXCEPT ![e] = p]
  BY SetHeldByFields
<1> HIDE DEF u
<1>4. e /= nil /\ p \in Object \cup {nil} /\ e \in Object \cup {nil}
  BY GameAssumption DEF Object
<1>5. PICK a \in Ref, b \in Ref : a = RefTo(s, e) /\ b = RefTo(s, p)
  BY <1>4, RefToType
<1>6. RefTo(u, e) = a /\ RefTo(u, p) = b
  BY <1>1, <1>5 DEF RefTo, SameRegistry, Registered
<1>7. PICK m : m = MessageOf(a, "set held_by", b)
  OBVIOUS
<1>a. m.self = a /\ m.method = "set held_by" /\ m.arg = b
  BY <1>7 DEF MessageOf
<1>8. ASSUME NEW r, Sync(r, s, P) PROVE Follows(r, m) /\ Sync(Apply(r, m), t, P)
  <2>1. Resolve(r, a) = e /\ a.obj = e /\ a.tag = "O"
    BY <1>4, <1>5, <1>8, Resolves DEF Known
  <2>2. Resolve(r, b) = p /\ b.obj = p /\ (b.tag = "O" => p /= nil) /\ b.tag /= "C"
    BY <1>4, <1>5, <1>8, Resolves DEF Known
  <2>3. Follows(r, m)
    BY <1>4, <1>a, <1>8, <2>1, <2>2 DEF Follows, Fails, Sync
  <2>4. Apply(r, m) = r
    BY <1>a, <2>1, <2>2 DEF Apply, ClientSet
  <2>5. Sync(r, t, P)
    BY <1>3, <1>8 DEF Sync, SameRegistry, SameTree
  <2> QED
    BY <2>3, <2>4, <2>5
<1>9. Carries(m, s, t, P, P)
  BY <1>8 DEF Carries
<1>10. t = Send(u, a, "set held_by", b) /\ "set held_by" \in Method
  BY <1>2, <1>6 DEF Method
<1>k. Keeps(s, t)
  BY <1>3 DEF Keeps, SameRegistry
<1> QED
  BY <1>1, <1>5, <1>7, <1>9, <1>10, <1>k, TellsSend

\* An entity can be moved to what is registered and has a place itself.
Target(s, to) ==
    \/ to = nil
    \/ to \in Fields /\ s.r_objects[to] /= 0
    \/ to \in Entity \ Boxes /\ s.r_objects[to] /= 0 /\ s.parent[to] /= nil

LEMMA MoveToOut ==
    ASSUME NEW s \in State, TreeOK(s), NEW e \in Entity, NEW to \in Entity \cup {nil},
           NEW t, t = MoveTo(s, e, to), NEW a, a = RefTo(s, e), NEW b, b = RefTo(s, to)
    PROVE  \E u \in State : u.out = s.out /\ t = Send(u, a, "moveto", b)
<1> DEFINE old == s.parent[e]
           u == IF old /= nil /\ old /= to THEN EntityRemove(s, old, e) ELSE s
           v == IF to /= nil /\ u.parent[e] /= to
                THEN [u EXCEPT !.children[to] = Append(@, e)] ELSE u
           w == [v EXCEPT !.parent[e] = to]
<1>1. old \in Entity \cup {nil} /\ nil \notin Entity
  BY GameAssumption DEF State, Object
<1>2. u \in State /\ u.out = s.out /\ SameRegistry(u, s)
  <2>1. CASE old /= nil /\ old /= to
    <3>1. u = EntityRemove(s, old, e)
      BY <2>1
    <3> HIDE DEF u
    <3>2. /\ u \in State
          /\ TreeOK(u)
          /\ SameRegistry(u, s) /\ SameHands(u, s) /\ SameRest(u, s)
          /\ u.out = s.out
          /\ u.parent = [s.parent EXCEPT ![e] = nil]
          /\ u.children = [s.children EXCEPT ![old] = RemoveFirst(s.children[old], e)]
      BY <2>1, <1>1, <3>1, EntityRemoveFields
    <3> QED
      BY <3>2
  <2>2. CASE ~(old /= nil /\ old /= to)
    BY <2>2 DEF SameRegistry
  <2> QED
    BY <2>1, <2>2
<1> HIDE DEF u
<1>3. v \in State /\ v.out = u.out /\ SameRegistry(v, u)
  <2>1. CASE to /= nil /\ u.parent[e] /= to
    <3>1. Append(u.children[to], e) \in Seq(Entity)
      BY <2>1, <1>2 DEF State
    <3>2. [u.children EXCEPT ![to] = Append(u.children[to], e)] \in [Entity -> Seq(Entity)]
      BY <3>1, <1>2 DEF State
    <3>3. v = [u EXCEPT !.children = [u.children EXCEPT ![to] = Append(u.children[to], e)]]
      BY <2>1, <1>2 DEF State
    <3> QED
      BY <3>2, <3>3, <1>2 DEF State, SameRegistry
  <2>2. CASE ~(to /= nil /\ u.parent[e] /= to)
    BY <2>2, <1>2 DEF SameRegistry
  <2> QED
    BY <2>1, <2>2
<1> HIDE DEF v
<1>4. w \in State /\ w.out = v.out /\ SameRegistry(w, v)
  BY <1>3 DEF State, SameRegistry
<1>5. t = Send(w, RefTo(w, e), "moveto", RefTo(w, to))
  BY DEF MoveTo, u, v
<1> HIDE DEF w
<1>6. RefTo(w, e) = a /\ RefTo(w, to) = b
  BY <1>2, <1>3, <1>4 DEF RefTo, SameRegistry, Registered
<1> QED
  BY <1>2, <1>3, <1>4, <1>5, <1>6

LEMMA MoveToTells ==
    ASSUME NEW s \in State, TreeOK(s), RegistryOK(s), NEW e \in Entity \ Boxes, Known(s, e),
           NEW to \in Entity \cup {nil}, Target(s, to), NEW P, NEW t, t = MoveTo(s, e, to)
    PROVE  Tells(s, t, P, P)
<1>0. /\ e \in Entity /\ e \in Object \cup {nil} /\ to \in Object \cup {nil} /\ e /= nil
      /\ nil \notin Entity
  BY GameAssumption DEF Object
<1>1. PICK a \in Ref, b \in Ref : a = RefTo(s, e) /\ b = RefTo(s, to)
  BY <1>0, RefToType
<1>2. PICK u \in State : u.out = s.out /\ t = Send(u, a, "moveto", b)
  BY <1>0, <1>1, MoveToOut
<1>3. /\ t \in State
      /\ TreeOK(t)
      /\ SameRegistry(t, s) /\ SameHands(t, s) /\ SameRest(t, s)
      /\ t.parent = [s.parent EXCEPT ![e] = to]
      /\ \A x \in Entity : x /= to /\ x /= s.parent[e] => t.children[x] = s.children[x]
      /\ to /= nil /\ to /= s.parent[e] => t.children[to] = Append(s.children[to], e)
  BY <1>0, MoveToFields
<1>4. PICK m : m = MessageOf(a, "moveto", b)
  OBVIOUS
<1>5. m.self = a /\ m.method = "moveto" /\ m.arg = b
  BY <1>4 DEF MessageOf
<1>6. ASSUME NEW r, Sync(r, s, P) PROVE Follows(r, m) /\ Sync(Apply(r, m), t, P)
  <2>1. Resolve(r, a) = e /\ a.obj = e /\ a.tag = "O"
    BY <1>0, <1>1, <1>6, Resolves DEF Known
  <2>2. Resolve(r, b) = to /\ b.obj = to /\ (b.tag = "O" => to /= nil) /\ b.tag /= "C"
    BY <1>0, <1>1, <1>6, Resolves DEF Target, Object, Fields
  <2>3. to /= nil => to \in r.scene
    BY <1>6 DEF Sync, Target
  <2>4. Follows(r, m)
    BY <1>0, <1>5, <1>6, <2>1, <2>2, <2>3 DEF Follows, Fails, Sync
  <2> DEFINE sc == IF to /= nil /\ r.parent[e] /= to THEN r.scene \cup {e} ELSE r.scene
             r2 == [r EXCEPT !.parent = [r.parent EXCEPT ![e] = to], !.scene = sc]
  <2>5. Apply(r, m) = r2
    BY <1>5, <1>6, <2>1, <2>2 DEF Apply, ClientMoveTo, Sync, Replica
  <2>6. sc \in SUBSET Entity /\ r.scene \subseteq sc /\ (to /= nil => e \in sc)
    <3>1. r.parent[e] = s.parent[e]
      BY <1>6 DEF Sync
    <3>2. r.scene \in SUBSET Entity /\ (s.parent[e] /= nil => e \in r.scene)
      BY <1>6 DEF Sync, Replica
    <3> QED
      BY <1>0, <3>1, <3>2
  <2> HIDE DEF sc
  <2>7. /\ r2 \in Replica /\ r2.joined = r.joined /\ r2.objects = r.objects
        /\ r2.players = r.players /\ r2.held = r.held
        /\ r2.parent = [r.parent EXCEPT ![e] = to] /\ r2.scene = sc
    <3>1. r \in Replica /\ [r.parent EXCEPT ![e] = to] \in [Entity -> Entity \cup {nil}]
      BY <1>0, <1>6 DEF Sync, Replica
    <3> QED
      BY <2>6, <3>1 DEF Replica
  <2> HIDE DEF r2
  <2>8. \A x \in Entity \ Boxes : r2.parent[x] = t.parent[x]
    <3> TAKE x \in Entity \ Boxes
    <3>1. r.parent \in [Entity -> Entity \cup {nil}] /\ s.parent \in [Entity -> Entity \cup {nil}]
      BY <1>6 DEF Sync, Replica, State
    <3>2. r.parent[x] = s.parent[x]
      BY <1>6 DEF Sync
    <3>3. t.parent[x] = (IF x = e THEN to ELSE s.parent[x])
      BY <1>0, <1>3, <3>1
    <3>4. r2.parent[x] = (IF x = e THEN to ELSE r.parent[x])
      BY <1>0, <2>7, <3>1
    <3> QED
      BY <3>2, <3>3, <3>4
  <2>9. \A x \in Entity \ Boxes : t.parent[x] /= nil => x \in r2.scene
    BY <1>0, <1>3, <1>6, <2>6, <2>7 DEF Sync, State
  <2>10. Sync(r2, t, P)
    BY <1>3, <1>6, <2>6, <2>7, <2>8, <2>9 DEF Sync, SameRegistry, SameHands
  <2> QED
    BY <2>4, <2>5, <2>10
<1>7. Carries(m, s, t, P, P)
  BY <1>6 DEF Carries
<1>k. Keeps(s, t)
  BY <1>3 DEF Keeps, SameRegistry
<1> QED
  BY <1>1, <1>2, <1>4, <1>7, <1>k, TellsSend DEF Method

\* Registering a player or a stone that has no place yet.
LEMMA AddObjectTells ==
    ASSUME NEW s \in State, RegistryOK(s), NEW o \in Player \cup Stones, s.r_objects[o] = 0,
           NEW i \in Id, s.objects[i] = nil, NEW P, NEW t, t = AddObject(s, o, i)
    PROVE  Tells(s, t, P, P)
<1> DEFINE u == [s EXCEPT !.id[o] = i]
           b == [tag |-> "C", id |-> i, obj |-> o]
           v == Send(u, GameRef, "addObject", b)
<1>0. o \in Object /\ o /= nil /\ o \notin Fields
  BY GameAssumption DEF Object, Stones, Fields
<1>1. u \in State /\ u.out = s.out /\ u.id[o] = i /\ u.r_objects = s.r_objects
  BY <1>0 DEF State
<1>2. RefTo(u, o) = b /\ b \in Ref
  BY <1>0, <1>1 DEF RefTo, Registered, Ref
<1>3. t = [v EXCEPT !.objects[i] = o, !.r_objects[o] = i]
  <2> HIDE DEF u, b
  <2> QED
    BY <1>2 DEF AddObject, u
<1> HIDE DEF u
<1>4. t.out = v.out
  <2>1. v.out = Append(u.out, [self |-> GameRef, method |-> "addObject", arg |-> b])
        /\ v \in [DOMAIN u -> {v[k] : k \in DOMAIN u}]
    BY <1>1 DEF Send, State
  <2> HIDE DEF v, b
  <2> QED
    BY <1>3
<1>5. /\ t \in State
      /\ SameTree(t, s) /\ SameHands(t, s) /\ SameRest(t, s)
      /\ \A x \in Object : t.id[x] = IF x = o THEN i ELSE s.id[x]
      /\ \A x \in Object : t.r_objects[x] = IF x = o THEN i ELSE s.r_objects[x]
      /\ \A j \in Id : t.objects[j] = IF j = i THEN o ELSE s.objects[j]
  BY <1>0, AddObjectFields
<1>6. PICK m : m = MessageOf(GameRef, "addObject", b)
  OBVIOUS
<1>7. m.self = GameRef /\ m.method = "addObject" /\ m.arg = b
  BY <1>6 DEF MessageOf
<1>8. ASSUME NEW r, Sync(r, s, P) PROVE Follows(r, m) /\ Sync(Apply(r, m), t, P)
  <2>1. /\ Resolve(r, GameRef) = GameObject /\ GameRef.obj = GameObject
        /\ GameRef.tag = "O" /\ GameObject /= nil
    BY GameResolves
  <2>2. Resolve(r, b) = o /\ b.obj = o /\ b.tag = "C" /\ b.id = i
    BY DEF Resolve
  <2> HIDE DEF b
  <2>3. Follows(r, m)
    BY <1>7, <1>8, <2>1, <2>2 DEF Follows, Fails, Sync
  <2> DEFINE r2 == [r EXCEPT !.objects = [r.objects EXCEPT ![i] = o]]
  <2>4. Apply(r, m) = r2
    BY <1>0, <1>7, <1>8, <2>1, <2>2 DEF Apply, ClientAddObject, Sync, Replica
  <2>5. /\ r2 \in Replica /\ r2.joined = r.joined /\ r2.objects = [r.objects EXCEPT ![i] = o]
        /\ r2.players = r.players /\ r2.held = r.held
        /\ r2.parent = r.parent /\ r2.scene = r.scene
    BY <1>0, <1>8 DEF Sync, Replica
  <2> HIDE DEF r2
  <2>6. r2.objects = t.objects
    BY <1>5, <1>8, <2>5 DEF Sync, State
  <2>7. \A x \in Fields : t.r_objects[x] = s.r_objects[x]
    BY <1>0, <1>5 DEF Fields, Object
  <2>8. Sync(r2, t, P)
    BY <1>5, <1>8, <2>5, <2>6, <2>7 DEF Sync, SameTree, SameHands
  <2> QED
    BY <2>3, <2>4, <2>8
<1>9. Carries(m, s, t, P, P)
  BY <1>8 DEF Carries
<1> HIDE DEF b, v
<1>10. v = Send(u, GameRef, "addObject", b) /\ "addObject" \in Method
  BY DEF v, Method
<1>k. Keeps(s, t)
  BY <1>5, GameAssumption DEF Keeps, Object
<1> QED
  BY <1>1, <1>2, <1>4, <1>6, <1>9, <1>10, <1>k, FixedRefs, TellsSend

\* Deleting a stone that has no place any more.
LEMMA DeleteObjectTells ==
    ASSUME NEW s \in State, RegistryOK(s), NEW o \in Stones, s.r_objects[o] /= 0,
           s.parent[o] = nil, NEW P, NEW t, t = DeleteObject(s, o)
    PROVE  Tells(s, t, P, P)
<1>0. o \in Object /\ o \in Object \cup {nil} /\ o /= nil /\ o \notin Fields /\ o \in Entity \ Boxes
  BY GameAssumption DEF Object, Stones, Fields, Boxes
<1>1. PICK b \in Ref : b = RefTo(s, o)
  BY <1>0, RefToType
<1>2. PICK v : v = Send(s, GameRef, "deleteObject", b)
  OBVIOUS
<1>3. t = [v EXCEPT !.objects[s.id[o]] = nil, !.r_objects[o] = 0]
  BY <1>1, <1>2 DEF DeleteObject
<1>4. t.out = v.out
  <2>1. v \in [DOMAIN s -> {v[k] : k \in DOMAIN s}]
    BY <1>2 DEF Send, State
  <2> QED
    BY <1>3
<1>5. /\ t \in State
      /\ SameTree(t, s) /\ SameHands(t, s) /\ SameRest(t, s)
      /\ t.id = s.id
      /\ t.objects = [s.objects EXCEPT ![s.id[o]] = nil]
      /\ t.r_objects = [s.r_objects EXCEPT ![o] = 0]
  BY <1>0, DeleteObjectFields
<1>6. PICK m : m = MessageOf(GameRef, "deleteObject", b)
  OBVIOUS
<1>7. m.self = GameRef /\ m.method = "deleteObject" /\ m.arg = b
  BY <1>6 DEF MessageOf
<1>8. ASSUME NEW r, Sync(r, s, P) PROVE Follows(r, m) /\ Sync(Apply(r, m), t, P)
  <2>1. /\ Resolve(r, GameRef) = GameObject /\ GameRef.obj = GameObject
        /\ GameRef.tag = "O" /\ GameObject /= nil
    BY GameResolves
  <2>2. Resolve(r, b) = o /\ b.obj = o /\ b.tag = "O" /\ b.id = s.r_objects[o]
    BY <1>0, <1>1, <1>8, Resolves
  <2>3. s.id[o] = s.r_objects[o] /\ s.id[o] \in Id
    BY <1>0 DEF RegistryOK, State
  <2>4. Follows(r, m)
    BY <1>0, <1>7, <1>8, <2>1, <2>2 DEF Follows, Fails, Sync
  <2> DEFINE r2 == [r EXCEPT !.objects = [r.objects EXCEPT ![s.id[o]] = nil],
                             !.scene = r.scene \ {o}]
  <2>5. Apply(r, m) = r2
    BY <1>7, <1>8, <2>1, <2>2, <2>3 DEF Apply, ClientDeleteObject, Sync, Replica
  <2>6. /\ r2 \in Replica /\ r2.joined = r.joined
        /\ r2.objects = [r.objects EXCEPT ![s.id[o]] = nil]
        /\ r2.players = r.players /\ r2.held = r.held
        /\ r2.parent = r.parent /\ r2.scene = r.scene \ {o}
    <3>1. r \in Replica /\ [r.objects EXCEPT ![s.id[o]] = nil] \in [Id -> Object \cup {nil}]
      BY <1>8 DEF Sync, Replica
    <3>2. r.scene \ {o} \in SUBSET Entity
      BY <3>1 DEF Replica
    <3> QED
      BY <3>1, <3>2 DEF Replica
  <2> HIDE DEF r2
  <2>7. \A x \in Fields : x \in Object /\ x /= o
    BY <1>0 DEF Fields, Object
  <2>8. \A x \in Fields : t.r_objects[x] /= 0 => x \in r2.scene
    BY <1>5, <1>8, <2>6, <2>7 DEF Sync, State
  <2>9. \A x \in Entity \ Boxes : t.parent[x] /= nil => x \in r2.scene
    BY <1>5, <1>8, <2>6 DEF Sync, SameTree
  <2>10. Sync(r2, t, P)
    BY <1>5, <1>8, <2>6, <2>8, <2>9 DEF Sync, SameTree, SameHands
  <2> QED
    BY <2>4, <2>5, <2>10
<1>9. Carries(m, s, t, P, P)
  BY <1>8 DEF Carries
<1>10. "deleteObject" \in Method
  BY DEF Method
<1>k. Keeps(s, t)
  <2>1. s.id[o] \in Id /\ s.objects[s.id[o]] = o
    BY <1>0 DEF RegistryOK, State
  <2> QED
    BY <1>5, <2>1 DEF Keeps, State
<1> QED
  BY <1>1, <1>2, <1>4, <1>6, <1>9, <1>10, <1>k, FixedRefs, TellsSend

\* Announcing that player p has joined.
LEMMA JoinTells ==
    ASSUME NEW s \in State, RegistryOK(s), NEW p \in Player, s.r_objects[p] /= 0,
           NEW P, P \subseteq Player, NEW t, t = Send(s, GameRef, "addPlayer", RefTo(s, p))
    PROVE  Tells(s, t, P, P \cup {p})
<1>0. p \in Object /\ p \in Object \cup {nil} /\ p /= nil
  BY GameAssumption DEF Object
<1>1. PICK b \in Ref : b = RefTo(s, p)
  BY <1>0, RefToType
<1>2. t = Send(s, GameRef, "addPlayer", b) /\ "addPlayer" \in Method
  BY <1>1 DEF Method
<1>3. /\ t \in State
      /\ SameRegistry(t, s) /\ SameTree(t, s) /\ SameHands(t, s) /\ SameRest(t, s)
  BY <1>1, <1>2, FixedRefs, SendFields
<1>4. PICK m : m = MessageOf(GameRef, "addPlayer", b)
  OBVIOUS
<1>5. m.self = GameRef /\ m.method = "addPlayer" /\ m.arg = b
  BY <1>4 DEF MessageOf
<1>6. ASSUME NEW r, Sync(r, s, P)
      PROVE  Follows(r, m) /\ Sync(Apply(r, m), t, P \cup {p})
  <2>1. /\ Resolve(r, GameRef) = GameObject /\ GameRef.obj = GameObject
        /\ GameRef.tag = "O" /\ GameObject /= nil
    BY GameResolves
  <2>2. Resolve(r, b) = p /\ b.obj = p /\ b.tag = "O"
    BY <1>0, <1>1, <1>6, Resolves
  <2>3. Follows(r, m)
    BY <1>0, <1>5, <1>6, <2>1, <2>2 DEF Follows, Fails, Sync
  <2>4. Apply(r, m) = [r EXCEPT !.players = P \cup {p}]
    BY <1>5, <1>6, <2>1, <2>2 DEF Apply, ClientAddPlayer, Sync, Replica
  <2>5. Sync([r EXCEPT !.players = P \cup {p}], t, P \cup {p})
    BY <1>3, <1>6 DEF Sync, Replica, SameRegistry, SameTree, SameHands
  <2> QED
    BY <2>3, <2>4, <2>5
<1>7. Carries(m, s, t, P, P \cup {p})
  BY <1>6 DEF Carries
<1>k. Keeps(s, t)
  BY <1>3 DEF Keeps, SameRegistry
<1> QED
  BY <1>1, <1>2, <1>4, <1>7, <1>k, FixedRefs, TellsSend

(***************************************************************************)
(* The messages of a box script.  Half way, a replica has the entities of  *)
(* B, and those of L have their places.                                    *)
(***************************************************************************)
Named(c, ids, i) == CHOOSE e \in Range(c) : ids[e] = i

Half(r, c, ids, B, L) ==
    [r EXCEPT !.objects = [i \in Id |-> IF \E e \in B : ids[e] = i THEN Named(c, ids, i)
                                        ELSE r.objects[i]],
              !.parent = [x \in Entity |-> IF x \in L THEN Home[x] ELSE r.parent[x]],
              !.scene = r.scene \cup (B \cap Fields) \cup {x \in L : Home[x] /= nil}]

\* What Half is, field by field.
IsHalf(h, r, ids, B, L) ==
    /\ h \in Replica /\ h.joined = r.joined /\ h.players = r.players /\ h.held = r.held
    /\ \A i \in Id : (\A e \in B : ids[e] /= i) => h.objects[i] = r.objects[i]
    /\ \A e \in B : h.objects[ids[e]] = e
    /\ \A x \in Entity : h.parent[x] = IF x \in L THEN Home[x] ELSE r.parent[x]
    /\ h.scene = r.scene \cup (B \cap Fields) \cup {x \in L : Home[x] /= nil}

\* The entities of a script get different ids.
Numbers(ids, c) ==
    /\ ids \in [Range(c) -> Id]
    /\ \A e \in Range(c), f \in Range(c) : ids[e] = ids[f] => e = f

LEMMA HalfFields ==
    ASSUME NEW r \in Replica, NEW c \in Scripts, NEW ids, Numbers(ids, c),
           NEW B \in SUBSET Range(c), NEW L \in SUBSET Range(c),
           NEW h, h = Half(r, c, ids, B, L)
    PROVE  IsHalf(h, r, ids, B, L)
<1>0. /\ ids \in [Range(c) -> Id]
      /\ \A e \in Range(c), f \in Range(c) : ids[e] = ids[f] => e = f
  BY DEF Numbers
<1> DEFINE ob == [i \in Id |-> IF \E e \in B : ids[e] = i THEN Named(c, ids, i)
                               ELSE r.objects[i]]
           pa == [x \in Entity |-> IF x \in L THEN Home[x] ELSE r.parent[x]]
           sc == r.scene \cup (B \cap Fields) \cup {x \in L : Home[x] /= nil}
<1>1. Range(c) \subseteq Entity /\ Range(c) \subseteq Object
  BY ScriptFacts DEF Object
<1>2. \A i \in Id : (\E e \in B : ids[e] = i) =>
          Named(c, ids, i) \in Range(c) /\ ids[Named(c, ids, i)] = i
  BY DEF Named
<1>3. ob \in [Id -> Object \cup {nil}]
  BY <1>0, <1>1, <1>2 DEF Replica
<1>4. pa \in [Entity -> Entity \cup {nil}]
  BY ScriptAssumption DEF Replica
<1>5. sc \in SUBSET Entity
  BY <1>1 DEF Replica
<1>6. \A i \in Id : (\A e \in B : ids[e] /= i) => ob[i] = r.objects[i]
  OBVIOUS
<1>7. ASSUME NEW e \in B PROVE ob[ids[e]] = e
  <2>1. ids[e] \in Id /\ e \in Range(c)
    BY <1>0
  <2>2. ob[ids[e]] = Named(c, ids, ids[e])
    BY <2>1
  <2>3. Named(c, ids, ids[e]) \in Range(c) /\ ids[Named(c, ids, ids[e])] = ids[e]
    BY <1>2, <2>1
  <2> QED
    BY <1>0, <2>1, <2>2, <2>3
<1>8. \A x \in Entity : pa[x] = IF x \in L THEN Home[x] ELSE r.parent[x]
  OBVIOUS
<1>9. h = [r EXCEPT !.objects = ob, !.parent = pa, !.scene = sc]
  BY DEF Half
<1> HIDE DEF ob, pa, sc
<1>10. /\ h \in Replica /\ h.joined = r.joined /\ h.players = r.players /\ h.held = r.held
       /\ h.objects = ob /\ h.parent = pa /\ h.scene = sc
  BY <1>3, <1>4, <1>5, <1>9 DEF Replica
<1> QED
  BY <1>6, <1>7, <1>8, <1>10 DEF sc, IsHalf

\* Two replicas are equal when their fields are.
Alike(r, q) ==
    /\ r.joined = q.joined /\ r.players = q.players /\ r.held = q.held /\ r.scene = q.scene
    /\ \A i \in Id : r.objects[i] = q.objects[i]
    /\ \A x \in Entity : r.parent[x] = q.parent[x]

LEMMA SameReplica ==
    ASSUME NEW r \in Replica, NEW q \in Replica, Alike(r, q)
    PROVE  r = q
<1>1. r.objects = q.objects
  BY DEF Replica, Alike
<1>2. r.parent = q.parent
  BY DEF Replica, Alike
<1> QED
  BY <1>1, <1>2 DEF Replica, Alike

IdRef(ids, x) == [tag |-> "O", id |-> ids[x], obj |-> x]
NewRef(ids, x) == [tag |-> "C", id |-> ids[x], obj |-> x]

LEMMA BirthStep ==
    ASSUME NEW r \in Replica, r.joined, NEW c \in Scripts, NEW ids, Numbers(ids, c),
           NEW B \in SUBSET Range(c), NEW L \in SUBSET Range(c), NEW e \in Range(c),
           NEW B2, B2 = B \cup {e},
           NEW h, IsHalf(h, r, ids, B, L), NEW g, IsHalf(g, r, ids, B2, L),
           NEW m, m = MessageOf(GameRef, "addObject", NewRef(ids, e))
    PROVE  Follows(h, m) /\ g = Apply(h, m)
<1> DEFINE i == ids[e]
           b == NewRef(ids, e)
<1>0. /\ e \in Entity /\ e \in Object /\ e /= nil /\ i \in Id /\ B2 \in SUBSET Range(c)
      /\ Range(c) \subseteq Entity
  BY ScriptFacts, GameAssumption DEF Object, Numbers
<1>1. /\ h \in Replica /\ h.joined = r.joined /\ h.players = r.players /\ h.held = r.held
      /\ \A j \in Id : (\A f \in B : ids[f] /= j) => h.objects[j] = r.objects[j]
      /\ \A f \in B : h.objects[ids[f]] = f
      /\ \A x \in Entity : h.parent[x] = IF x \in L THEN Home[x] ELSE r.parent[x]
      /\ h.scene = r.scene \cup (B \cap Fields) \cup {x \in L : Home[x] /= nil}
  BY DEF IsHalf
<1>2. /\ g \in Replica /\ g.joined = r.joined /\ g.players = r.players /\ g.held = r.held
      /\ \A j \in Id : (\A f \in B2 : ids[f] /= j) => g.objects[j] = r.objects[j]
      /\ \A f \in B2 : g.objects[ids[f]] = f
      /\ \A x \in Entity : g.parent[x] = IF x \in L THEN Home[x] ELSE r.parent[x]
      /\ g.scene = r.scene \cup (B2 \cap Fields) \cup {x \in L : Home[x] /= nil}
  BY DEF IsHalf
<1>3. m.self = GameRef /\ m.method = "addObject" /\ m.arg = b
  BY DEF MessageOf
<1>4. /\ Resolve(h, GameRef) = GameObject /\ GameRef.obj = GameObject
      /\ GameRef.tag = "O" /\ GameObject /= nil
  BY GameResolves
<1>5. Resolve(h, b) = e /\ b.obj = e /\ b.tag = "C" /\ b.id = i
  BY DEF Resolve, NewRef
<1> HIDE DEF b, i
<1>6. Follows(h, m)
  BY <1>1, <1>3, <1>4, <1>5 DEF Follows, Fails
<1> DEFINE sc == IF e \in Fields THEN h.scene \cup {e} ELSE h.scene
           a == [h EXCEPT !.objects = [h.objects EXCEPT ![i] = e], !.scene = sc]
<1>7. Apply(h, m) = a
  BY <1>1, <1>3, <1>4, <1>5 DEF Apply, ClientAddObject, Replica
<1>8. sc = g.scene
  BY <1>1, <1>2
<1> HIDE DEF sc
<1>9. /\ a \in Replica /\ a.joined = r.joined /\ a.players = r.players /\ a.held = r.held
      /\ a.scene = g.scene /\ a.parent = h.parent
      /\ a.objects = [h.objects EXCEPT ![i] = e]
  <2>1. h.objects \in [Id -> Object \cup {nil}] /\ g.scene \in SUBSET Entity
    BY <1>1, <1>2 DEF Replica
  <2>2. [h.objects EXCEPT ![i] = e] \in [Id -> Object \cup {nil}]
    BY <2>1, <1>0
  <2> QED
    BY <1>1, <1>8, <2>1, <2>2 DEF Replica
<1> HIDE DEF a
<1>10. ASSUME NEW j \in Id PROVE a.objects[j] = g.objects[j]
  <2>0. a.objects[j] = IF j = i THEN e ELSE h.objects[j]
    BY <1>1, <1>9 DEF Replica
  <2>1. CASE j = i
    BY <1>2, <2>0, <2>1 DEF i
  <2>2. CASE j /= i /\ \E f \in B : ids[f] = j
    <3>1. PICK f \in B : ids[f] = j
      BY <2>2
    <3> QED
      BY <1>1, <1>2, <2>0, <2>2, <3>1
  <2>3. CASE j /= i /\ ~ \E f \in B : ids[f] = j
    <3>1. \A f \in B2 : ids[f] /= j
      BY <2>3 DEF i
    <3> QED
      BY <1>1, <1>2, <2>0, <2>3, <3>1
  <2> QED
    BY <2>1, <2>2, <2>3
<1>11. \A x \in Entity : a.parent[x] = g.parent[x]
  BY <1>1, <1>2, <1>9
<1>12. a = g
  <2>1. Alike(a, g)
    BY <1>2, <1>9, <1>10, <1>11 DEF Alike
  <2> QED
    BY <1>2, <1>9, <2>1, SameReplica
<1> QED
  BY <1>6, <1>7, <1>12

\* Game.addField registers a field a second time.
LEMMA FieldStep ==
    ASSUME NEW r \in Replica, r.joined, NEW c \in Scripts, NEW ids, Numbers(ids, c),
           NEW B \in SUBSET Range(c), NEW L \in SUBSET Range(c), NEW e \in B,
           e \in Fields, Home[e] = nil, r.parent[e] = nil,
           NEW h, IsHalf(h, r, ids, B, L), NEW g, IsHalf(g, r, ids, B, L \cup {e}),
           NEW m, m = MessageOf(GameRef, "addObject", IdRef(ids, e))
    PROVE  Follows(h, m) /\ g = Apply(h, m)
<1> DEFINE i == ids[e]
           b == IdRef(ids, e)
           L2 == L \cup {e}
<1>0. /\ e \in Range(c) /\ e \in Entity /\ e \in Object /\ e /= nil /\ i \in Id
      /\ L2 \in SUBSET Range(c) /\ Range(c) \subseteq Entity /\ 0 \notin Id
  BY ScriptFacts, GameAssumption DEF Object, Id, Numbers
<1>1. /\ h \in Replica /\ h.joined = r.joined /\ h.players = r.players /\ h.held = r.held
      /\ \A j \in Id : (\A f \in B : ids[f] /= j) => h.objects[j] = r.objects[j]
      /\ \A f \in B : h.objects[ids[f]] = f
      /\ \A x \in Entity : h.parent[x] = IF x \in L THEN Home[x] ELSE r.parent[x]
      /\ h.scene = r.scene \cup (B \cap Fields) \cup {x \in L : Home[x] /= nil}
  BY DEF IsHalf
<1>2. /\ g \in Replica /\ g.joined = r.joined /\ g.players = r.players /\ g.held = r.held
      /\ \A j \in Id : (\A f \in B : ids[f] /= j) => g.objects[j] = r.objects[j]
      /\ \A f \in B : g.objects[ids[f]] = f
      /\ \A x \in Entity : g.parent[x] = IF x \in L2 THEN Home[x] ELSE r.parent[x]
      /\ g.scene = r.scene \cup (B \cap Fields) \cup {x \in L2 : Home[x] /= nil}
  BY DEF IsHalf
<1>3. m.self = GameRef /\ m.method = "addObject" /\ m.arg = b
  BY DEF MessageOf
<1>4. /\ Resolve(h, GameRef) = GameObject /\ GameRef.obj = GameObject
      /\ GameRef.tag = "O" /\ GameObject /= nil
  BY GameResolves
<1>5. Resolve(h, b) = e /\ b.obj = e /\ b.tag = "O" /\ b.id = i
  <2>1. b.obj = e /\ b.tag = "O" /\ b.id = i
    BY DEF IdRef
  <2>2. h.objects[i] = e
    BY <1>1
  <2> HIDE DEF b, i
  <2> QED
    BY <1>0, <2>1, <2>2 DEF Resolve
<1> HIDE DEF b, i
<1>6. Follows(h, m)
  BY <1>0, <1>1, <1>3, <1>4, <1>5 DEF Follows, Fails
<1> DEFINE a == [h EXCEPT !.objects = [h.objects EXCEPT ![i] = e],
                          !.scene = h.scene \cup {e}]
<1>7. Apply(h, m) = a
  <2>1. Apply(h, m) = ClientAddObject(h, e, i)
    BY <1>3, <1>4, <1>5 DEF Apply
  <2>2. ClientAddObject(h, e, i) = a
    BY <1>1 DEF ClientAddObject, Replica
  <2> QED
    BY <2>1, <2>2
<1>8. h.objects[i] = e /\ e \in h.scene
  BY <1>1 DEF i
<1>9. a = h
  <2>1. [h.objects EXCEPT ![i] = e] = h.objects
    BY <1>1, <1>8 DEF Replica
  <2>2. h.scene \cup {e} = h.scene
    BY <1>8
  <2> QED
    BY <1>1, <2>1, <2>2 DEF Replica
<1> HIDE DEF a
<1>10. h.scene = g.scene
  BY <1>1, <1>2
<1>11. \A x \in Entity : h.parent[x] = g.parent[x]
  BY <1>1, <1>2
<1>12. ASSUME NEW j \in Id PROVE h.objects[j] = g.objects[j]
  <2>1. CASE \E f \in B : ids[f] = j
    <3>1. PICK f \in B : ids[f] = j
      BY <2>1
    <3> QED
      BY <1>1, <1>2, <3>1
  <2>2. CASE ~ \E f \in B : ids[f] = j
    BY <1>1, <1>2, <2>2
  <2> QED
    BY <2>1, <2>2
<1>13. h = g
  <2>1. Alike(h, g)
    BY <1>1, <1>2, <1>10, <1>11, <1>12 DEF Alike
  <2> QED
    BY <1>1, <1>2, <2>1, SameReplica
<1> QED
  BY <1>6, <1>7, <1>9, <1>13

\* Entity.add moves an entity to one that was created before.
LEMMA MoveStep ==
    ASSUME NEW r \in Replica, r.joined, NEW c \in Scripts, NEW ids, Numbers(ids, c),
           NEW B \in SUBSET Range(c), NEW L \in SUBSET Range(c), NEW e \in B, e \notin L,
           NEW d \in B, Home[e] = d, d \in Fields \/ (d \in L /\ Home[d] /= nil),
           r.parent[e] = nil,
           NEW h, IsHalf(h, r, ids, B, L), NEW g, IsHalf(g, r, ids, B, L \cup {e}),
           NEW m, m = MessageOf(IdRef(ids, e), "moveto", IdRef(ids, d))
    PROVE  Follows(h, m) /\ g = Apply(h, m)
<1> DEFINE a == IdRef(ids, e)
           b == IdRef(ids, d)
           L2 == L \cup {e}
<1>0. /\ e \in Range(c) /\ e \in Entity /\ e /= nil /\ ids[e] \in Id
      /\ d \in Range(c) /\ d \in Entity /\ d /= nil /\ ids[d] \in Id
      /\ L2 \in SUBSET Range(c) /\ Range(c) \subseteq Entity /\ 0 \notin Id
  BY ScriptFacts, GameAssumption DEF Object, Id, Numbers
<1>1. /\ h \in Replica /\ h.joined = r.joined /\ h.players = r.players /\ h.held = r.held
      /\ \A j \in Id : (\A f \in B : ids[f] /= j) => h.objects[j] = r.objects[j]
      /\ \A f \in B : h.objects[ids[f]] = f
      /\ \A x \in Entity : h.parent[x] = IF x \in L THEN Home[x] ELSE r.parent[x]
      /\ h.scene = r.scene \cup (B \cap Fields) \cup {x \in L : Home[x] /= nil}
  BY DEF IsHalf
<1>2. /\ g \in Replica /\ g.joined = r.joined /\ g.players = r.players /\ g.held = r.held
      /\ \A j \in Id : (\A f \in B : ids[f] /= j) => g.objects[j] = r.objects[j]
      /\ \A f \in B : g.objects[ids[f]] = f
      /\ \A x \in Entity : g.parent[x] = IF x \in L2 THEN Home[x] ELSE r.parent[x]
      /\ g.scene = r.scene \cup (B \cap Fields) \cup {x \in L2 : Home[x] /= nil}
  BY DEF IsHalf
<1>3. m.self = a /\ m.method = "moveto" /\ m.arg = b
  BY DEF MessageOf
<1>4. Resolve(h, a) = e /\ a.obj = e /\ a.tag = "O"
  <2>1. a.obj = e /\ a.tag = "O" /\ a.id = ids[e]
    BY DEF IdRef
  <2>2. h.objects[ids[e]] = e
    BY <1>1
  <2> HIDE DEF a
  <2> QED
    BY <1>0, <2>1, <2>2 DEF Resolve
<1>5. Resolve(h, b) = d /\ b.obj = d /\ b.tag = "O"
  <2>1. b.obj = d /\ b.tag = "O" /\ b.id = ids[d]
    BY DEF IdRef
  <2>2. h.objects[ids[d]] = d
    BY <1>1
  <2> HIDE DEF b
  <2> QED
    BY <1>0, <2>1, <2>2 DEF Resolve
<1> HIDE DEF a, b
<1>6. h.parent[e] = nil /\ d \in h.scene
  BY <1>0, <1>1
<1>7. Follows(h, m)
  BY <1>0, <1>1, <1>3, <1>4, <1>5, <1>6 DEF Follows, Fails
<1> DEFINE k == [h EXCEPT !.parent = [h.parent EXCEPT ![e] = d],
                          !.scene = h.scene \cup {e}]
<1>8. Apply(h, m) = k
  <2>1. Apply(h, m) = ClientMoveTo(h, e, d)
    BY <1>3, <1>4, <1>5 DEF Apply
  <2>2. ClientMoveTo(h, e, d) = k
    BY <1>0, <1>1, <1>6 DEF ClientMoveTo, Replica
  <2> QED
    BY <2>1, <2>2
<1>9. /\ k \in Replica /\ k.joined = r.joined /\ k.players = r.players /\ k.held = r.held
      /\ k.scene = h.scene \cup {e} /\ k.parent = [h.parent EXCEPT ![e] = d]
      /\ k.objects = h.objects
  <2>1. h.parent \in [Entity -> Entity \cup {nil}] /\ h.scene \cup {e} \in SUBSET Entity
    BY <1>0, <1>1 DEF Replica
  <2>2. [h.parent EXCEPT ![e] = d] \in [Entity -> Entity \cup {nil}]
    BY <2>1, <1>0
  <2> QED
    BY <1>1, <2>1, <2>2 DEF Replica
<1> HIDE DEF k
<1>10. k.scene = g.scene
  BY <1>0, <1>1, <1>2, <1>9
<1>11. ASSUME NEW x \in Entity PROVE k.parent[x] = g.parent[x]
  <2>1. k.parent[x] = IF x = e THEN d ELSE h.parent[x]
    BY <1>1, <1>9 DEF Replica
  <2> QED
    BY <1>0, <1>1, <1>2, <2>1
<1>12. ASSUME NEW j \in Id PROVE k.objects[j] = g.objects[j]
  <2>1. CASE \E f \in B : ids[f] = j
    <3>1. PICK f \in B : ids[f] = j
      BY <2>1
    <3> QED
      BY <1>1, <1>2, <1>9, <3>1
  <2>2. CASE ~ \E f \in B : ids[f] = j
    BY <1>1, <1>2, <1>9, <2>2
  <2> QED
    BY <2>1, <2>2
<1>13. k = g
  <2>1. Alike(k, g)
    BY <1>2, <1>9, <1>10, <1>11, <1>12 DEF Alike
  <2> QED
    BY <1>2, <1>9, <2>1, SameReplica
<1> QED
  BY <1>7, <1>8, <1>13

\* The ids a script hands out are free.
Free(r, ids, c) == \A e \in Range(c) : r.objects[ids[e]] = nil

LEMMA HalfKeeps ==
    ASSUME NEW r, NEW c \in Scripts, NEW ids, Numbers(ids, c), Free(r, ids, c),
           NEW B2 \in SUBSET Range(c), NEW B \in SUBSET B2, NEW L, NEW L2,
           NEW h, IsHalf(h, r, ids, B, L), NEW g, IsHalf(g, r, ids, B2, L2)
    PROVE  Keeps(h, g)
<1> SUFFICES ASSUME NEW i \in Id, h.objects[i] \in Entity \ Stones
             PROVE  g.objects[i] = h.objects[i]
  BY DEF Keeps
<1>1. CASE \E e \in B : ids[e] = i
  <2>1. PICK e \in B : ids[e] = i
    BY <1>1
  <2>2. h.objects[i] = e /\ g.objects[i] = e
    BY <2>1 DEF IsHalf
  <2> QED
    BY <2>2
<1>2. CASE (~ \E e \in B : ids[e] = i) /\ \E e \in B2 : ids[e] = i
  <2>1. PICK e \in B2 : ids[e] = i
    BY <1>2
  <2>2. r.objects[i] = nil
    BY <2>1 DEF Free
  <2>3. h.objects[i] = nil
    BY <1>2, <2>2 DEF IsHalf
  <2> QED
    BY <2>3, GameAssumption DEF Object
<1>3. CASE ~ \E e \in B2 : ids[e] = i
  <2>1. g.objects[i] = r.objects[i]
    BY <1>3 DEF IsHalf
  <2>2. h.objects[i] = r.objects[i]
    BY <1>3 DEF IsHalf
  <2> QED
    BY <2>1, <2>2
<1> QED
  BY <1>1, <1>2, <1>3

\* What the first k messages of script c have created, and have put in place.
Born(c, k) == {c[j] : j \in {x \in 1..Len(c) : 2 * x - 1 <= k}}
Laid(c, k) == {c[j] : j \in {x \in 1..Len(c) : 2 * x <= k}}

LEMMA ScriptSets ==
    ASSUME NEW c \in Scripts, NEW n, n = Len(c)
    PROVE  /\ Born(c, 0) = {} /\ Laid(c, 0) = {}
           /\ Born(c, 2 * n) = Range(c) /\ Laid(c, 2 * n) = Range(c)
           /\ \A k \in Nat : Born(c, k) \subseteq Range(c) /\ Laid(c, k) \subseteq Range(c)
           /\ \A j \in 1..n :
                 /\ Born(c, 2 * j - 1) = Born(c, 2 * j - 2) \cup {c[j]}
                 /\ Laid(c, 2 * j - 1) = Laid(c, 2 * j - 2)
                 /\ Born(c, 2 * j) = Born(c, 2 * j - 1)
                 /\ Laid(c, 2 * j) = Laid(c, 2 * j - 1) \cup {c[j]}
                 /\ c[j] \notin Laid(c, 2 * j - 1)
                 /\ \A i \in 1..(j - 1) : c[i] \in Born(c, 2 * j - 1) /\ c[i] \in Laid(c, 2 * j - 1)
<1>0. /\ n \in Nat /\ DOMAIN c = 1..n /\ Range(c) = {c[j] : j \in 1..n}
      /\ \A i \in 1..n, j \in 1..n : c[i] = c[j] => i = j
  <2>1. n \in Nat /\ DOMAIN c = 1..n
    BY ScriptFacts
  <2>2. IsInjective(c)
    BY ScriptAssumption
  <2> QED
    BY <2>1, <2>2 DEF Range, IsInjective
<1>1. Born(c, 0) = {} /\ Laid(c, 0) = {}
  BY <1>0 DEF Born, Laid
<1>2. {x \in 1..n : 2 * x - 1 <= 2 * n} = 1..n /\ {x \in 1..n : 2 * x <= 2 * n} = 1..n
  BY <1>0
<1>3. Born(c, 2 * n) = Range(c) /\ Laid(c, 2 * n) = Range(c)
  BY <1>0, <1>2 DEF Born, Laid
<1>4. \A k \in Nat : Born(c, k) \subseteq Range(c) /\ Laid(c, k) \subseteq Range(c)
  BY <1>0 DEF Born, Laid
<1>5. ASSUME NEW j \in 1..n
      PROVE  /\ Born(c, 2 * j - 1) = Born(c, 2 * j - 2) \cup {c[j]}
             /\ Laid(c, 2 * j - 1) = Laid(c, 2 * j - 2)
             /\ Born(c, 2 * j) = Born(c, 2 * j - 1)
             /\ Laid(c, 2 * j) = Laid(c, 2 * j - 1) \cup {c[j]}
             /\ c[j] \notin Laid(c, 2 * j - 1)
             /\ \A i \in 1..(j - 1) : c[i] \in Born(c, 2 * j - 1) /\ c[i] \in Laid(c, 2 * j - 1)
  <2>1. /\ {x \in 1..n : 2 * x - 1 <= 2 * j - 1} = 1..j
        /\ {x \in 1..n : 2 * x - 1 <= 2 * j - 2} = 1..(j - 1)
        /\ {x \in 1..n : 2 * x - 1 <= 2 * j} = 1..j
        /\ {x \in 1..n : 2 * x <= 2 * j - 1} = 1..(j - 1)
        /\ {x \in 1..n : 2 * x <= 2 * j - 2} = 1..(j - 1)
        /\ {x \in 1..n : 2 * x <= 2 * j} = 1..j
    BY <1>0
  <2>2. 1..j = 1..(j - 1) \cup {j} /\ j \notin 1..(j - 1) /\ 1..(j - 1) \subseteq 1..n
    BY <1>0
  <2> DEFINE A == {c[x] : x \in 1..(j - 1)}
             Z == {c[x] : x \in 1..j}
  <2>3. /\ Born(c, 2 * j - 1) = Z /\ Born(c, 2 * j - 2) = A /\ Born(c, 2 * j) = Z
        /\ Laid(c, 2 * j - 1) = A /\ Laid(c, 2 * j - 2) = A /\ Laid(c, 2 * j) = Z
    BY <2>1 DEF Born, Laid
  <2>4. Z = A \cup {c[j]}
    BY <2>2
  <2>5. c[j] \notin A
    BY <1>0, <2>2
  <2>6. \A i \in 1..(j - 1) : c[i] \in A /\ c[i] \in Z
    BY <2>2
  <2> QED
    BY <2>3, <2>4, <2>5, <2>6
<1> QED
  BY <1>1, <1>3, <1>4, <1>5

\* The two messages about the j-th entity of a script.
LEMMA ScriptEntries ==
    ASSUME NEW c \in Scripts, NEW ids, NEW j \in 1..Len(c), NEW e, e = c[j],
           NEW q, q = ScriptMessages(c, ids)
    PROVE  /\ q[2 * j - 1] = MessageOf(GameRef, "addObject", NewRef(ids, e))
           /\ Home[e] = nil => q[2 * j] = MessageOf(GameRef, "addObject", IdRef(ids, e))
           /\ Home[e] /= nil => q[2 * j] = MessageOf(IdRef(ids, e), "moveto", IdRef(ids, Home[e]))
<1>0. Len(c) \in Nat
  BY ScriptFacts
<1>1. /\ 2 * j - 1 \in 1..(2 * Len(c)) /\ ((2 * j - 1) + 1) \div 2 = j /\ (2 * j - 1) % 2 = 1
      /\ 2 * j \in 1..(2 * Len(c)) /\ (2 * j + 1) \div 2 = j /\ (2 * j) % 2 = 0
  BY <1>0
<1> DEFINE new == [self |-> GameRef, method |-> "addObject",
                   arg |-> [[tag |-> "O", id |-> ids[e], obj |-> e] EXCEPT !.tag = "C"]]
           again == [self |-> GameRef, method |-> "addObject",
                     arg |-> [tag |-> "O", id |-> ids[e], obj |-> e]]
           move == [self |-> [tag |-> "O", id |-> ids[e], obj |-> e],
                    method |-> "moveto",
                    arg |-> [tag |-> "O", id |-> ids[Home[e]], obj |-> Home[e]]]
           both(k) == LET f == c[(k + 1) \div 2]
                          ref(x) == [tag |-> "O", id |-> ids[x], obj |-> x]
                      IN  CASE k % 2 = 1 -> [self |-> GameRef, method |-> "addObject",
                                             arg |-> [ref(f) EXCEPT !.tag = "C"]]
                            [] k % 2 = 0 /\ Home[f] = nil
                                         -> [self |-> GameRef, method |-> "addObject",
                                             arg |-> ref(f)]
                            [] OTHER     -> [self |-> ref(f), method |-> "moveto",
                                             arg |-> ref(Home[f])]
<1>6. q = [k \in 1..(2 * Len(c)) |-> both(k)]
  BY DEF ScriptMessages
<1>7. q[2 * j - 1] = both(2 * j - 1) /\ q[2 * j] = both(2 * j)
  <2> HIDE DEF both
  <2> QED
    BY <1>1, <1>6
<1>8. ASSUME NEW k, (k + 1) \div 2 = j
      PROVE  /\ k % 2 = 1 => both(k) = new
             /\ k % 2 = 0 /\ Home[e] = nil => both(k) = again
             /\ k % 2 = 0 /\ Home[e] /= nil => both(k) = move
  <2>1. c[(k + 1) \div 2] = e
    BY <1>8
  <2>2. CASE k % 2 = 1
    BY <2>1, <2>2
  <2>3. CASE k % 2 = 0 /\ Home[e] = nil
    BY <2>1, <2>3
  <2>4. CASE k % 2 = 0 /\ Home[e] /= nil
    BY <2>1, <2>4
  <2> QED
    BY <2>2, <2>3, <2>4
<1> HIDE DEF both
<1> HIDE DEF new, again, move
<1>2. q[2 * j - 1] = new
  <2>1. PICK k : k = 2 * j - 1
    OBVIOUS
  <2>2. (k + 1) \div 2 = j /\ k % 2 = 1
    BY <1>1, <2>1
  <2> QED
    BY <1>7, <1>8, <2>1, <2>2
<1>9. (Home[e] = nil => q[2 * j] = again) /\ (Home[e] /= nil => q[2 * j] = move)
  <2>1. PICK k : k = 2 * j
    OBVIOUS
  <2>2. (k + 1) \div 2 = j /\ k % 2 = 0
    BY <1>1, <2>1
  <2> QED
    BY <1>7, <1>8, <2>1, <2>2
<1>5. [[tag |-> "O", id |-> ids[e], obj |-> e] EXCEPT !.tag = "C"] = NewRef(ids, e)
  BY DEF NewRef
<1> QED
  BY <1>2, <1>5, <1>9 DEF MessageOf, IdRef, new, again, move

\* Handling them, from r with the entities before the j-th in place.
LEMMA EntitySteps ==
    ASSUME NEW r \in Replica, r.joined, NEW c \in Scripts, NEW ids, Numbers(ids, c),
           \A e \in Range(c) : r.parent[e] = nil,
           NEW q, q = ScriptMessages(c, ids), NEW j \in 1..Len(c),
           NEW f, f = Half(r, c, ids, Born(c, 2 * j - 2), Laid(c, 2 * j - 2)),
           NEW g, g = Half(r, c, ids, Born(c, 2 * j - 1), Laid(c, 2 * j - 1)),
           NEW h, h = Half(r, c, ids, Born(c, 2 * j), Laid(c, 2 * j))
    PROVE  /\ Follows(f, q[2 * j - 1]) /\ g = Apply(f, q[2 * j - 1])
           /\ Follows(g, q[2 * j]) /\ h = Apply(g, q[2 * j])
<1> DEFINE B0 == Born(c, 2 * j - 2)
           L0 == Laid(c, 2 * j - 2)
           B  == Born(c, 2 * j - 1)
           L  == Laid(c, 2 * j - 1)
           e  == c[j]
<1>0. /\ B0 \in SUBSET Range(c) /\ L0 \in SUBSET Range(c)
      /\ B \in SUBSET Range(c) /\ L \in SUBSET Range(c)
      /\ B = B0 \cup {e} /\ L = L0
      /\ Born(c, 2 * j) = B /\ Laid(c, 2 * j) = L \cup {e}
      /\ e \notin L /\ e \in Range(c) /\ e \in B
      /\ L \cup {e} \in SUBSET Range(c)
      /\ \A i \in 1..(j - 1) : c[i] \in B /\ c[i] \in L
  <2>1. 2 * j - 1 \in Nat /\ 2 * j - 2 \in Nat
    OBVIOUS
  <2>2. e \in Range(c)
    BY ScriptFacts
  <2> QED
    BY <2>1, <2>2, ScriptSets
<1>1. e \in Entity /\ e \notin Stones /\ r.parent[e] = nil
  BY <1>0, ScriptFacts
<1>2. /\ q[2 * j - 1] = MessageOf(GameRef, "addObject", NewRef(ids, e))
      /\ Home[e] = nil => q[2 * j] = MessageOf(GameRef, "addObject", IdRef(ids, e))
      /\ Home[e] /= nil => q[2 * j] = MessageOf(IdRef(ids, e), "moveto", IdRef(ids, Home[e]))
  BY ScriptEntries
<1>3. Home[e] /= nil => \E i \in 1..(j - 1) : c[i] = Home[e]
  <2>1. j \in DOMAIN c
    BY ScriptFacts
  <2> QED
    BY <2>1, ScriptAssumption
<1> HIDE DEF B0, L0, B, L, e
<1>4. IsHalf(f, r, ids, B0, L0)
  BY <1>0, HalfFields DEF B0, L0
<1>5. IsHalf(g, r, ids, B, L0)
  <2>1. B \in SUBSET Range(c) /\ L \in SUBSET Range(c) /\ g = Half(r, c, ids, B, L)
    BY <1>0 DEF B, L
  <2>2. IsHalf(g, r, ids, B, L)
    BY <2>1, HalfFields
  <2> QED
    BY <1>0, <2>2
<1>6. IsHalf(g, r, ids, B, L)
  BY <1>0, <1>5
<1>7. IsHalf(h, r, ids, B, L \cup {e})
  <2>1. PICK L2 \in SUBSET Range(c) : L2 = L \cup {e}
    BY <1>0
  <2>2. h = Half(r, c, ids, B, L2)
    BY <1>0, <2>1
  <2>3. IsHalf(h, r, ids, B, L2)
    BY <1>0, <2>2, HalfFields
  <2> QED
    BY <2>1, <2>3
<1>8. Follows(f, q[2 * j - 1]) /\ g = Apply(f, q[2 * j - 1])
  <2>1. PICK m : m = q[2 * j - 1]
    OBVIOUS
  <2>2. m = MessageOf(GameRef, "addObject", NewRef(ids, e))
    BY <1>2, <2>1
  <2>3. B0 \in SUBSET Range(c) /\ L0 \in SUBSET Range(c) /\ e \in Range(c) /\ B = B0 \cup {e}
    BY <1>0
  <2>4. Follows(f, m) /\ g = Apply(f, m)
    <3>1. \A x, y : IsHalf(x, r, ids, B0, L0) /\ IsHalf(y, r, ids, B, L0)
              => Follows(x, m) /\ y = Apply(x, m)
      BY <2>2, <2>3, BirthStep
    <3> QED
      BY <1>4, <1>5, <3>1
  <2> QED
    BY <2>1, <2>4
<1>9. Follows(g, q[2 * j]) /\ h = Apply(g, q[2 * j])
  <2>1. PICK m : m = q[2 * j]
    OBVIOUS
  <2>2. CASE Home[e] = nil
    <3>1. e \in Fields
      BY <1>1, <2>2, ScriptAssumption, GameAssumption
         DEF ClassName, Fields, Boards, Boxes, Piles, Pieces, Stones, Object
    <3>2. m = MessageOf(GameRef, "addObject", IdRef(ids, e))
      BY <1>2, <2>1, <2>2
    <3>3. B \in SUBSET Range(c) /\ L \in SUBSET Range(c) /\ e \in B /\ r.parent[e] = nil
      BY <1>0, <1>1
    <3>4. Follows(g, m) /\ h = Apply(g, m)
      BY <1>6, <1>7, <2>2, <3>1, <3>2, <3>3, FieldStep
    <3> QED
      BY <2>1, <3>4
  <2>3. CASE Home[e] /= nil
    <3>1. PICK d : d = Home[e]
      OBVIOUS
    <3>2. d \in B /\ d \in L
      BY <1>0, <1>3, <2>3, <3>1
    <3>3. d \in Fields \/ (d \in L /\ Home[d] /= nil)
      <4>1. d \in Fields \cup Boards
        <5>1. e \in Boxes \cup Boards \cup Piles \cup Pieces \cup Fields
          BY <1>1, GameAssumption
             DEF ClassName, Fields, Boards, Boxes, Piles, Pieces, Stones
        <5> QED
          BY <1>1, <2>3, <3>1, <5>1, ScriptAssumption
      <4>2. d \in Boards => Home[d] \in Fields
        <5>1. d \in Boards => d \in Entity
          BY DEF Boards
        <5> QED
          BY <5>1, ScriptAssumption
      <4> QED
        BY <3>2, <4>1, <4>2, GameAssumption DEF Fields, Object
    <3>4. m = MessageOf(IdRef(ids, e), "moveto", IdRef(ids, d))
      BY <1>2, <2>1, <2>3, <3>1
    <3>5. Follows(g, m) /\ h = Apply(g, m)
      BY <1>0, <1>1, <1>6, <1>7, <3>1, <3>2, <3>3, <3>4, MoveStep
    <3> QED
      BY <2>1, <3>5
  <2> QED
    BY <2>2, <2>3
<1> QED
  BY <1>8, <1>9

LEMMA ScriptLeads ==
    ASSUME NEW r \in Replica, r.joined, NEW c \in Scripts, NEW ids, Numbers(ids, c),
           Free(r, ids, c), \A e \in Range(c) : r.parent[e] = nil,
           NEW q, q = ScriptMessages(c, ids),
           NEW h, h = Half(r, c, ids, Range(c), Range(c))
    PROVE  Leads(r, q, h)
<1> DEFINE n == Len(c)
           R == [k \in 0..(2 * n) |-> Half(r, c, ids, Born(c, k), Laid(c, k))]
<1>0. n \in Nat /\ 2 * n \in Nat
  BY ScriptFacts
<1>1. Len(q) = 2 * n
  <2>1. q \in Seq(Message)
    BY ScriptMessagesType DEF Numbers
  <2>2. DOMAIN q = 1..(2 * n)
    BY DEF ScriptMessages
  <2> QED
    BY <1>0, <2>1, <2>2
<1>2. \A k \in 0..(2 * n) : R[k] = Half(r, c, ids, Born(c, k), Laid(c, k))
  OBVIOUS
<1>3. R \in [0..(2 * n) -> {R[k] : k \in 0..(2 * n)}]
  OBVIOUS
<1> HIDE DEF R
<1>4. ASSUME NEW k \in 0..(2 * n) PROVE IsHalf(R[k], r, ids, Born(c, k), Laid(c, k))
  <2>1. Born(c, k) \in SUBSET Range(c) /\ Laid(c, k) \in SUBSET Range(c)
    BY <1>0, ScriptSets
  <2> QED
    BY <1>2, <2>1, HalfFields
<1>5. R \in [0..Len(q) -> Replica]
  BY <1>1, <1>3, <1>4 DEF IsHalf
<1>6. R[0] = r
  <2>1. IsHalf(R[0], r, ids, Born(c, 0), Laid(c, 0))
    BY <1>0, <1>4
  <2>2. Born(c, 0) = {} /\ Laid(c, 0) = {}
    BY ScriptSets
  <2>3. IsHalf(R[0], r, ids, {}, {})
    BY <2>1, <2>2
  <2>4. R[0] \in Replica /\ Alike(R[0], r)
    BY <2>3 DEF IsHalf, Alike
  <2> QED
    BY <2>4, SameReplica
<1>7. ASSUME NEW j \in 1..n
      PROVE  /\ Follows(R[2 * j - 2], q[2 * j - 1]) /\ R[2 * j - 1] = Apply(R[2 * j - 2], q[2 * j - 1])
             /\ Follows(R[2 * j - 1], q[2 * j]) /\ R[2 * j] = Apply(R[2 * j - 1], q[2 * j])
  <2>1. 2 * j - 2 \in 0..(2 * n) /\ 2 * j - 1 \in 0..(2 * n) /\ 2 * j \in 0..(2 * n)
    BY <1>0
  <2>2. PICK f, g, k : f = R[2 * j - 2] /\ g = R[2 * j - 1] /\ k = R[2 * j]
    OBVIOUS
  <2>3. /\ f = Half(r, c, ids, Born(c, 2 * j - 2), Laid(c, 2 * j - 2))
        /\ g = Half(r, c, ids, Born(c, 2 * j - 1), Laid(c, 2 * j - 1))
        /\ k = Half(r, c, ids, Born(c, 2 * j), Laid(c, 2 * j))
    BY <1>2, <2>1, <2>2
  <2>4. /\ Follows(f, q[2 * j - 1]) /\ g = Apply(f, q[2 * j - 1])
        /\ Follows(g, q[2 * j]) /\ k = Apply(g, q[2 * j])
    BY <2>3, EntitySteps
  <2> QED
    BY <2>2, <2>4
<1>8. ASSUME NEW k \in 1..Len(q)
      PROVE  Follows(R[k - 1], q[k]) /\ R[k] = Apply(R[k - 1], q[k])
  <2>1. PICK j \in 1..n : k = 2 * j - 1 \/ k = 2 * j
    <3>1. (k + 1) \div 2 \in 1..n
      BY <1>0, <1>1
    <3>2. k = 2 * ((k + 1) \div 2) - 1 \/ k = 2 * ((k + 1) \div 2)
      BY <1>1
    <3> QED
      BY <3>1, <3>2
  <2>2. CASE k = 2 * j - 1
    <3>1. k - 1 = 2 * j - 2
      BY <2>2
    <3> QED
      BY <1>7, <2>2, <3>1
  <2>3. CASE k = 2 * j
    <3>1. k - 1 = 2 * j - 1
      BY <2>3
    <3> QED
      BY <1>7, <2>3, <3>1
  <2> QED
    BY <2>1, <2>2, <2>3
<1>9. ASSUME NEW k \in 1..Len(q) PROVE Keeps(R[k - 1], R[k])
  <2>1. k \in 0..(2 * n) /\ k - 1 \in 0..(2 * n) /\ k \in Nat
    BY <1>0, <1>1
  <2>2. Born(c, k - 1) \in SUBSET Born(c, k) /\ Born(c, k) \in SUBSET Range(c)
    BY <1>0, <2>1, ScriptSets DEF Born
  <2>3. /\ IsHalf(R[k - 1], r, ids, Born(c, k - 1), Laid(c, k - 1))
        /\ IsHalf(R[k], r, ids, Born(c, k), Laid(c, k))
    BY <1>4, <2>1
  <2> QED
    BY <2>2, <2>3, HalfKeeps
<1>10. Run(r, q, R)
  BY <1>5, <1>6, <1>8, <1>9 DEF Run, Understands
<1>11. R[Len(q)] = h
  <2>1. Born(c, 2 * n) = Range(c) /\ Laid(c, 2 * n) = Range(c)
    BY ScriptSets
  <2> QED
    BY <1>0, <1>1, <1>2, <2>1
<1> QED
  BY <1>10, <1>11 DEF Leads

\* The broadcasts of a script other than the one that creates the boxes.
LEMMA ScriptTells ==
    ASSUME NEW s \in State, TreeOK(s), RegistryOK(s), Rooted(s),
           NEW c \in Scripts, Range(c) \cap Boxes = {}, NEW ids \in ScriptIds(s, c),
           \A e \in Range(c) : s.id[e] = 0, NEW P, NEW t, t = RunScript(s, c, ids)
    PROVE  Tells(s, t, P, P)
<1>1. /\ t \in State
      /\ SameHands(t, s) /\ SameRest(t, s)
      /\ \A o \in Object : t.id[o] = IF o \in Range(c) THEN ids[o] ELSE s.id[o]
      /\ \A o \in Object :
            t.r_objects[o] = IF o \in Range(c) THEN ids[o] ELSE s.r_objects[o]
      /\ \A i \in Id : (\A e \in Range(c) : ids[e] /= i) => t.objects[i] = s.objects[i]
      /\ \A e \in Range(c) : t.objects[ids[e]] = e
      /\ \A e \in Entity : t.parent[e] = IF e \in Range(c) THEN Home[e] ELSE s.parent[e]
      /\ \A e \in Entity :
            t.children[e] = IF e \in Range(c) THEN Layout[e] ELSE s.children[e]
  BY RunScriptFields
<1>2. /\ TreeOK(t) /\ RegistryOK(t)
      /\ \A e \in Range(c) : s.r_objects[e] = 0 /\ s.parent[e] = nil /\ ids[e] /= 0
      /\ \A e \in Entity : s.parent[e] \notin Range(c)
  BY RunScriptTables
<1>3. /\ ids \in [Range(c) -> Id]
      /\ \A e \in Range(c) : s.objects[ids[e]] = nil
      /\ Numbers(ids, c)
  BY ScriptIdsFacts DEF Numbers
<1>4. Range(c) \subseteq Entity /\ Fields \subseteq Entity /\ Entity \subseteq Object
  BY ScriptFacts DEF Fields, Object
<1>5. t.out = s.out \o ScriptMessages(c, ids)
  BY DEF RunScript, State
<1>6. ScriptMessages(c, ids) \in Seq(Message) /\ s.out \in Seq(Message)
  BY <1>3, ScriptMessagesType DEF State
<1> SUFFICES ASSUME NEW r, Told(r, s, P) PROVE Told(r, t, P)
  BY DEF Tells
<1>7. PICK e : Leads(r, s.out, e) /\ Sync(e, s, P)
  BY DEF Told
<1>8. /\ e \in Replica /\ e.joined /\ Free(e, ids, c)
      /\ \A x \in Range(c) : e.parent[x] = nil
  BY <1>2, <1>3, <1>4, <1>7 DEF Sync, Free
<1>9. PICK h : h = Half(e, c, ids, Range(c), Range(c))
  OBVIOUS
<1>10. IsHalf(h, e, ids, Range(c), Range(c))
  BY <1>3, <1>8, <1>9, HalfFields
<1>11. PICK q \in Seq(Message) : q = ScriptMessages(c, ids)
  BY <1>6
<1>12. Leads(e, q, h)
  BY <1>3, <1>8, <1>9, <1>11, ScriptLeads
<1>13. Leads(r, s.out \o q, h)
  BY <1>6, <1>7, <1>11, <1>12, LeadsBoth
<1>14. h.objects = t.objects
  <2>1. ASSUME NEW i \in Id PROVE h.objects[i] = t.objects[i]
    <3>1. CASE \E x \in Range(c) : ids[x] = i
      BY <1>1, <1>10, <3>1 DEF IsHalf
    <3>2. CASE ~ \E x \in Range(c) : ids[x] = i
      <4>1. h.objects[i] = e.objects[i]
        BY <1>10, <3>2 DEF IsHalf
      <4>2. t.objects[i] = s.objects[i]
        BY <1>1, <3>2
      <4> QED
        BY <1>7, <4>1, <4>2 DEF Sync
    <3> QED
      BY <3>1, <3>2
  <2>2. h \in Replica
    BY <1>10 DEF IsHalf
  <2> QED
    BY <1>1, <2>1, <2>2 DEF State, Replica
<1>15. Sync(h, t, P)
  <2>1. /\ h \in Replica /\ h.joined = e.joined /\ h.players = e.players /\ h.held = e.held
        /\ \A x \in Entity : h.parent[x] = IF x \in Range(c) THEN Home[x] ELSE e.parent[x]
        /\ h.scene = e.scene \cup (Range(c) \cap Fields) \cup {x \in Range(c) : Home[x] /= nil}
    BY <1>10 DEF IsHalf
  <2>2. \A x \in Entity \ Boxes : h.parent[x] = t.parent[x]
    BY <1>1, <1>7, <2>1 DEF Sync
  <2>3. \A x \in Entity \ Boxes : t.parent[x] /= nil => x \in h.scene
    BY <1>1, <1>7, <2>1 DEF Sync
  <2>4. \A x \in Fields : t.r_objects[x] /= 0 => x \in h.scene
    BY <1>1, <1>4, <1>7, <2>1 DEF Sync
  <2> QED
    BY <1>1, <1>7, <1>14, <2>1, <2>2, <2>3, <2>4 DEF Sync, SameHands
<1> QED
  BY <1>5, <1>11, <1>13, <1>15 DEF Told

-----------------------------------------------------------------------------
(***************************************************************************)
(* The game while the system runs.  A request may reach an object that has *)
(* got the id of the one that was clicked, so hands hold stranger things   *)
(* than in Table: a player, or a second thing that then keeps its mark.    *)
(* What remains true is enough for clients to follow.                      *)
(***************************************************************************)

\* What a hand holds is registered, and an entity in a hand knows whose it is.
HeldOK(s) ==
    \A p \in Player : s.held[p] /= nil =>
        /\ s.r_objects[s.held[p]] /= 0
        /\ s.held[p] \in Entity => s.held[p] \in Tokens /\ s.held_by[s.held[p]] = p

\* Boards and piles that exist have a place, so clients show them.
StandsOK(s) == \A e \in Boards \cup Piles : s.r_objects[e] /= 0 => s.parent[e] /= nil

\* Players who have ever joined stay registered.
PlayersOK(s, on) ==
    \A p \in Player : /\ p \in on => s.id[p] /= 0
                      /\ s.id[p] /= 0 => s.r_objects[p] /= 0

Good(s, on) ==
    /\ s \in State
    /\ TreeOK(s)
    /\ RegistryOK(s)
    /\ PlacesOK(s)
    /\ BoxesOK(s)
    /\ HeldOK(s)
    /\ StandsOK(s)
    /\ PlayersOK(s, on)

\* The game has gone from s to t, and everybody was told.
Played(s, t, on) ==
    /\ Good(t, on)
    /\ Keeps(s, t)
    /\ Tells(s, t, Players(s), Players(t))

LEMMA PlayedTrans ==
    ASSUME NEW s, NEW t, NEW u, NEW on, NEW more, Played(s, t, on), Played(t, u, more)
    PROVE  Played(s, u, more)
<1>1. Keeps(s, u)
  BY DEF Played, Keeps
<1>2. Tells(s, u, Players(s), Players(u))
  BY DEF Played, Tells
<1> QED
  BY <1>1, <1>2 DEF Played

LEMMA PlayedNothing ==
    ASSUME NEW s, NEW on, Good(s, on)
    PROVE  Played(s, s, on)
BY DEF Played, Keeps, Tells

\* Only what clients do not see may have changed.
LEMMA PlayedSame ==
    ASSUME NEW s, NEW t \in State, NEW on, Good(s, on),
           SameRegistry(t, s), SameTree(t, s), SameHands(t, s), t.opened = s.opened,
           t.out = s.out
    PROVE  Played(s, t, on)
<1>1. Good(t, on)
  <2>1. TreeOK(t) /\ RegistryOK(t) /\ PlacesOK(t) /\ BoxesOK(t)
    BY DEF Good, TreeOK, RegistryOK, PlacesOK, BoxesOK, SameTree, SameRegistry
  <2>2. HeldOK(t) /\ StandsOK(t) /\ PlayersOK(t, on)
    BY DEF Good, HeldOK, StandsOK, PlayersOK, SameHands, SameTree, SameRegistry
  <2> QED
    BY <2>1, <2>2 DEF Good
<1>2. Keeps(s, t) /\ Players(t) = Players(s)
  BY DEF Keeps, Players, SameRegistry
<1>3. PICK P : P = Players(s)
  OBVIOUS
<1>4. Tells(s, t, P, P)
  BY TellsSame DEF SameRegistry, SameTree, SameHands
<1> QED
  BY <1>1, <1>2, <1>3, <1>4 DEF Played

LEMMA RaisePlayed ==
    ASSUME NEW s, NEW on, Good(s, on), NEW t, t = Raise(s)
    PROVE  Played(s, t, on)
<1>1. s \in State
  BY DEF Good
<1>2. /\ t \in State
      /\ SameRegistry(t, s) /\ SameTree(t, s) /\ SameHands(t, s)
      /\ t.count = s.count /\ t.opened = s.opened
  BY <1>1, RaiseFields
<1>3. t.out = s.out
  BY <1>1 DEF Raise, State
<1> QED
  BY <1>2, <1>3, PlayedSame

LEMMA PlayerPickupPlayed ==
    ASSUME NEW s, NEW on, Good(s, on), NEW p \in Player, s.r_objects[p] /= 0,
           NEW e \in Object, s.r_objects[e] /= 0,
           e \in Entity => e \in Tokens /\ s.held_by[e] = nil,
           NEW t, t = PlayerPickup(s, p, e)
    PROVE  Played(s, t, on)
<1>0. /\ s \in State /\ RegistryOK(s)
      /\ e \in Object \cup {nil} /\ e /= nil /\ p \in Object /\ nil \notin Player
      /\ p \in Player \cup {nil} /\ s.r_objects[p] /= 0
  BY GameAssumption DEF Good, Object, PlayersOK
<1>1. PICK P : P = Players(s)
  OBVIOUS
<1>2. PICK u : u = SetHeld(s, p, e)
  OBVIOUS
<1>3. t = SetHeldBy(u, e, p)
  BY <1>2 DEF PlayerPickup
<1>4. /\ u \in State
      /\ SameRegistry(u, s) /\ SameTree(u, s) /\ SameRest(u, s)
      /\ u.held = [s.held EXCEPT ![p] = e]
      /\ u.held_by = s.held_by
  BY <1>0, <1>2, SetHeldFields
<1>5. /\ t \in State
      /\ SameRegistry(t, u) /\ SameTree(t, u) /\ SameRest(t, u)
      /\ t.held = u.held
      /\ t.held_by = [u.held_by EXCEPT ![e] = p]
  BY <1>0, <1>3, <1>4, SetHeldByFields
<1>6. Known(s, p) /\ Known(s, e) /\ Known(u, p) /\ Known(u, e) /\ RegistryOK(u)
  BY <1>0, <1>4 DEF Known, RegistryOK, SameRegistry
<1>7. Tells(s, u, P, P)
  BY <1>0, <1>2, <1>6, SetHeldTells
<1>8. Tells(u, t, P, P)
  BY <1>0, <1>3, <1>4, <1>6, SetHeldByTells
<1>9. Tells(s, t, P, P)
  BY <1>7, <1>8, TellsTrans
<1>10. /\ SameRegistry(t, s) /\ SameTree(t, s) /\ t.opened = s.opened
       /\ t.held = [s.held EXCEPT ![p] = e]
       /\ t.held_by = [s.held_by EXCEPT ![e] = p]
  BY <1>4, <1>5 DEF SameRegistry, SameTree, SameRest
<1>11. TreeOK(t) /\ RegistryOK(t) /\ PlacesOK(t) /\ BoxesOK(t) /\ StandsOK(t) /\ PlayersOK(t, on)
  <2>1. TreeOK(t) /\ RegistryOK(t) /\ PlacesOK(t) /\ BoxesOK(t)
    BY <1>10 DEF Good, TreeOK, RegistryOK, PlacesOK, BoxesOK, SameTree, SameRegistry
  <2> QED
    BY <1>10, <2>1 DEF Good, StandsOK, PlayersOK, SameTree, SameRegistry
<1>12. HeldOK(t)
  <2> SUFFICES ASSUME NEW q \in Player, t.held[q] /= nil
               PROVE  /\ t.r_objects[t.held[q]] /= 0
                      /\ t.held[q] \in Entity => t.held[q] \in Tokens /\ t.held_by[t.held[q]] = q
    BY DEF HeldOK
  <2>1. CASE q = p
    BY <1>0, <1>10, <2>1 DEF SameRegistry, State
  <2>2. CASE q /= p
    <3>1. t.held[q] = s.held[q] /\ s.held[q] /= nil /\ s.held[q] \in Object
      BY <1>0, <1>10, <2>2 DEF State
    <3>2. /\ s.r_objects[s.held[q]] /= 0
          /\ s.held[q] \in Entity => s.held[q] \in Tokens /\ s.held_by[s.held[q]] = q
      BY <3>1 DEF Good, HeldOK
    <3>3. s.held[q] \in Entity => s.held[q] /= e
      BY <1>0, <3>2
    <3> QED
      BY <1>0, <1>10, <3>1, <3>2, <3>3 DEF SameRegistry, State
  <2> QED
    BY <2>1, <2>2
<1>13. Keeps(s, t) /\ Players(t) = Players(s)
  BY <1>10 DEF Keeps, Players, SameRegistry
<1> QED
  BY <1>1, <1>5, <1>9, <1>11, <1>12, <1>13 DEF Played, Good

LEMMA TokenPickupPlayed ==
    ASSUME NEW s, NEW on, Good(s, on), NEW p \in Player, p \in on,
           NEW e \in Tokens, s.r_objects[e] /= 0, NEW t, t = TokenPickup(s, e, p)
    PROVE  Played(s, t, on)
<1>1. CASE s.held_by[e] /= nil \/ s.held[p] /= nil
  <2>1. t = s
    BY <1>1 DEF TokenPickup
  <2> QED
    BY <2>1, PlayedNothing
<1>2. CASE s.held_by[e] = nil /\ s.held[p] = nil
  <2>1. t = PlayerPickup(s, p, e)
    BY <1>2 DEF TokenPickup
  <2>2. e \in Object
    BY DEF Tokens, Pieces, Stones, Piles, Object
  <2>3. s.r_objects[p] /= 0
    BY DEF Good, PlayersOK
  <2> QED
    BY <1>2, <2>1, <2>2, <2>3, PlayerPickupPlayed
<1> QED
  BY <1>1, <1>2

Unheld(s, e) == \A q \in Player : s.held[q] /= e

\* Emptying a hand.
LEMMA HandEmptied ==
    ASSUME NEW s \in State, HeldOK(s), NEW p \in Player, NEW e \in Object, s.held[p] = e,
           NEW t \in State, t.held = [s.held EXCEPT ![p] = nil],
           t.held_by = [s.held_by EXCEPT ![e] = nil],
           t.r_objects = s.r_objects
    PROVE  HeldOK(t) /\ (e \in Entity => Unheld(t, e))
<1>0. nil \notin Object /\ e \in Entity => s.held_by[e] = p
  BY GameAssumption DEF HeldOK
<1>1. ASSUME NEW q \in Player, t.held[q] /= nil
      PROVE  /\ t.r_objects[t.held[q]] /= 0
             /\ t.held[q] \in Entity => t.held[q] \in Tokens /\ t.held_by[t.held[q]] = q
             /\ t.held[q] \in Entity => t.held[q] /= e
  <2>1. q /= p /\ t.held[q] = s.held[q] /\ s.held[q] /= nil
    BY <1>1 DEF State
  <2>2. /\ s.r_objects[s.held[q]] /= 0
        /\ s.held[q] \in Entity => s.held[q] \in Tokens /\ s.held_by[s.held[q]] = q
    BY <2>1 DEF HeldOK
  <2>3. s.held[q] \in Entity => s.held[q] /= e
    BY <1>0, <2>1, <2>2, GameAssumption
  <2>4. s.held[q] \in Entity => t.held_by[s.held[q]] = s.held_by[s.held[q]]
    BY <2>3 DEF State, Object
  <2> QED
    BY <2>1, <2>2, <2>3, <2>4
<1>2. e \in Entity => Unheld(t, e)
  BY <1>1, GameAssumption DEF Object, Unheld
<1> QED
  BY <1>1, <1>2 DEF HeldOK

\* What Player.drop broadcasts.
LEMMA PlayerDropTells ==
    ASSUME NEW s, NEW on, Good(s, on), NEW p \in Player, p \in on,
           NEW e \in Entity, s.held[p] = e, NEW onto \in Entity, Target(s, onto),
           NEW P, NEW t, t = PlayerDrop(s, p, onto)
    PROVE  Tells(s, t, P, P)
<1>0. /\ s \in State /\ RegistryOK(s) /\ TreeOK(s)
      /\ e \in Object /\ e /= nil /\ p \in Object /\ nil \in Object \cup {nil}
      /\ nil \in Player \cup {nil}
      /\ s.r_objects[p] /= 0 /\ s.r_objects[e] /= 0 /\ e \in Tokens
  BY GameAssumption DEF Good, Object, PlayersOK, HeldOK
<1>1. PICK none : none = nil
  OBVIOUS
<1>2. PICK u : u = SetHeld(s, p, none)
  OBVIOUS
<1>3. PICK v : v = SetHeldBy(u, e, none)
  OBVIOUS
<1>4. t = MoveTo(v, e, onto)
  BY <1>0, <1>1, <1>2, <1>3 DEF PlayerDrop
<1>5. none \in Object \cup {nil} /\ none \in Player \cup {nil}
  BY <1>1
<1>6. /\ u \in State
      /\ SameRegistry(u, s) /\ SameTree(u, s) /\ SameRest(u, s)
      /\ u.held = [s.held EXCEPT ![p] = none]
      /\ u.held_by = s.held_by
  BY <1>0, <1>2, <1>5, SetHeldFields
<1>7. /\ v \in State
      /\ SameRegistry(v, u) /\ SameTree(v, u) /\ SameRest(v, u)
      /\ v.held = u.held
      /\ v.held_by = [u.held_by EXCEPT ![e] = none]
  <2>1. u \in State /\ e \in Object /\ none \in Player \cup {nil} /\ v = SetHeldBy(u, e, none)
    BY <1>0, <1>3, <1>5, <1>6
  <2> QED
    BY ONLY <2>1, SetHeldByFields
<1>8. Known(s, p) /\ Known(s, none) /\ Known(u, e) /\ Known(u, none) /\ Known(v, e)
      /\ RegistryOK(u) /\ RegistryOK(v) /\ TreeOK(v) /\ Target(v, onto)
  BY <1>0, <1>1, <1>6, <1>7 DEF Known, RegistryOK, SameRegistry, TreeOK, SameTree, Target
<1>9. Tells(s, u, P, P)
  BY <1>0, <1>2, <1>5, <1>8, SetHeldTells
<1>10. Tells(u, v, P, P)
  BY <1>0, <1>3, <1>5, <1>6, <1>8, SetHeldByTells
<1>11. Tells(v, t, P, P)
  <2>1. e \in Entity \ Boxes /\ onto \in Entity \cup {nil}
    BY <1>0 DEF Tokens, Pieces, Stones, Piles, Boxes
  <2> QED
    BY <1>4, <1>7, <1>8, <2>1, MoveToTells
<1>12. Tells(s, v, P, P)
  BY <1>9, <1>10, TellsTrans
<1> QED
  BY <1>11, <1>12, TellsTrans

LEMMA BoardDropPlayed ==
    ASSUME NEW s, NEW on, Good(s, on), NEW p \in Player, p \in on,
           NEW b \in Fields \cup Boards, s.r_objects[b] /= 0,
           NEW t, t = BoardDrop(s, b, p)
    PROVE  Played(s, t, on) /\ SameRegistry(t, s)
<1>0. s \in State /\ b \in Entity /\ b \notin Player /\ nil \notin Entity /\ nil \notin Player
  BY GameAssumption DEF Good, Fields, Boards, Object
<1>1. CASE s.held[p] = b \/ s.held[p] = nil
  <2>1. t = s
    BY <1>0, <1>1 DEF BoardDrop
  <2> QED
    BY <2>1, PlayedNothing DEF SameRegistry
<1>2. CASE s.held[p] /= b /\ s.held[p] \in Player
  <2>1. t = Raise(s)
    BY <1>0, <1>2 DEF BoardDrop
  <2>2. /\ t \in State
        /\ SameRegistry(t, s) /\ SameTree(t, s) /\ SameHands(t, s)
        /\ t.count = s.count /\ t.opened = s.opened
    BY <1>0, <2>1, RaiseFields
  <2> QED
    BY <2>1, <2>2, RaisePlayed
<1>3. CASE s.held[p] /= b /\ s.held[p] /= nil /\ s.held[p] \notin Player
  <2>1. PICK e \in Entity : e = s.held[p]
    BY <1>0, <1>3 DEF State, Object
  <2>2. t = PlayerDrop(s, p, b)
    BY <1>3 DEF BoardDrop
  <2>3. TreeOK(s) /\ e \in Tokens /\ s.r_objects[e] /= 0 /\ e \in Object /\ s.held[p] = e
    BY <1>3, <2>1 DEF Good, HeldOK, Object
  <2>4. /\ t \in State /\ TreeOK(t)
        /\ SameRegistry(t, s) /\ SameRest(t, s)
        /\ t.held = [s.held EXCEPT ![p] = nil]
        /\ t.held_by = [s.held_by EXCEPT ![e] = nil]
        /\ t.parent = [s.parent EXCEPT ![e] = b]
        /\ \A x \in Entity : x /= b /\ x /= s.parent[e] => t.children[x] = s.children[x]
        /\ b /= s.parent[e] => t.children[b] = Append(s.children[b], e)
    BY <1>0, <2>2, <2>3, PlayerDropFields
  <2>5. PICK P : P = Players(s)
    OBVIOUS
  <2>6. Tells(s, t, P, P)
    <3>1. Target(s, b)
      BY DEF Target, Good, StandsOK, Boards, Boxes
    <3> QED
      BY <1>0, <2>2, <2>3, <3>1, PlayerDropTells
  <2>7. HeldOK(t) /\ (e \in Entity => Unheld(t, e))
    <3>1. HeldOK(s) /\ t.r_objects = s.r_objects
      BY <2>4 DEF Good, SameRegistry
    <3> QED
      BY <1>0, <2>3, <2>4, <3>1, HandEmptied
  <2>8. PlacesOK(t) /\ StandsOK(t)
    <3>1. e \notin Fields /\ e \notin Boards /\ e \notin Boxes
      BY <2>3 DEF Tokens, Pieces, Stones, Piles, Fields, Boards, Boxes
    <3>2. PlacesOK(t)
      BY <1>0, <2>3, <2>4, <3>1 DEF Good, PlacesOK, SameRegistry, State
    <3>3. StandsOK(t)
      BY <1>0, <2>4 DEF Good, StandsOK, SameRegistry, State, Boards, Piles
    <3> QED
      BY <3>2, <3>3
  <2>9. BoxesOK(t)
    BY <1>0, <2>4 DEF Good, BoxesOK, SameRegistry, SameRest, State
  <2>10. RegistryOK(t) /\ PlayersOK(t, on) /\ Keeps(s, t) /\ Players(t) = Players(s)
    BY <2>4 DEF Good, RegistryOK, SameRegistry, PlayersOK, Keeps, Players
  <2>11. Played(s, t, on)
    BY <2>4, <2>5, <2>6, <2>7, <2>8, <2>9, <2>10 DEF Played, Good
  <2> QED
    BY <2>4, <2>11
<1> QED
  BY <1>1, <1>2, <1>3

LEMMA PieceDropPlayed ==
    ASSUME NEW s, NEW on, Good(s, on), NEW p \in Player, p \in on,
           NEW e \in Pieces, s.r_objects[e] /= 0, NEW t, t = PieceDrop(s, e, p)
    PROVE  Played(s, t, on)
<1>0. PICK b \in Fields \cup Boards : b = s.parent[e] /\ s.r_objects[b] /= 0
  BY DEF Good, PlacesOK, Pieces
<1>1. b /= nil /\ e \in Tokens
  BY GameAssumption DEF Fields, Boards, Object, Tokens
<1>2. CASE Class[b] /= "chess.Board"
  <2>1. t = s
    BY <1>0, <1>1, <1>2 DEF PieceDrop
  <2> QED
    BY <2>1, PlayedNothing
<1>3. CASE Class[b] = "chess.Board"
  <2>1. PICK u : u = BoardDrop(s, b, p)
    OBVIOUS
  <2>2. t = TokenPickup(u, e, p)
    BY <1>0, <1>1, <1>3, <2>1 DEF PieceDrop
  <2>3. Played(s, u, on) /\ SameRegistry(u, s)
    BY <1>0, <2>1, BoardDropPlayed
  <2>4. Good(u, on) /\ u.r_objects[e] /= 0
    BY <2>3 DEF Played, SameRegistry
  <2>5. Played(u, t, on)
    BY <1>1, <2>2, <2>4, TokenPickupPlayed
  <2> QED
    BY <2>3, <2>5, PlayedTrans
<1> QED
  BY <1>2, <1>3

LEMMA PileDropPlayed ==
    ASSUME NEW s, NEW on, Good(s, on), NEW p \in Player, p \in on,
           NEW e \in Piles, s.r_objects[e] /= 0, NEW t, t = PileDrop(s, e, p)
    PROVE  Played(s, t, on)
<1>0. /\ s \in State /\ TreeOK(s) /\ PlacesOK(s)
      /\ e \in Entity /\ nil \notin Entity /\ e \notin Stones
  BY GameAssumption DEF Good, Object, Piles, Stones
<1>1. s.children[e] = <<>>
  BY <1>0, PileEmpty
<1>2. CASE s.held[p] /= nil /\ s.held[p] \notin Stones
  <2>1. t = s
    BY <1>2 DEF PileDrop
  <2> QED
    BY <2>1, PlayedNothing
<1>3. CASE s.held[p] = nil
  <2>1. BoardDrop(s, e, p) = s
    <3>1. nil \notin Player
      BY GameAssumption DEF Object
    <3> QED
      BY <1>3, <3>1 DEF BoardDrop
  <2>2. t = Raise(s)
    BY <1>1, <1>3, <2>1 DEF PileDrop
  <2> QED
    BY <2>2, RaisePlayed
<1>4. CASE s.held[p] /= nil /\ s.held[p] \in Stones
  <2>0. PICK x \in Stones : x = s.held[p]
    BY <1>4
  <2>1. /\ x \in Entity /\ x \in Object /\ x \in Entity \ Boxes /\ s.held[p] = x /\ x /= e
        /\ x \notin Player /\ x /= nil /\ s.r_objects[x] /= 0
    BY <1>0, <1>4, <2>0, GameAssumption DEF Stones, Boxes, Object, Good, HeldOK
  <2>2. PICK u, none : u = PlayerDrop(s, p, e) /\ none = nil
    OBVIOUS
  <2>3. PICK v : v = MoveTo(u, x, none)
    OBVIOUS
  <2>4. PICK w : w = DeleteObject(v, x)
    OBVIOUS
  <2>5. /\ u \in State /\ TreeOK(u)
        /\ SameRegistry(u, s) /\ SameRest(u, s)
        /\ u.held = [s.held EXCEPT ![p] = nil]
        /\ u.held_by = [s.held_by EXCEPT ![x] = nil]
        /\ u.parent = [s.parent EXCEPT ![x] = e]
        /\ \A y \in Entity : y /= e /\ y /= s.parent[x] => u.children[y] = s.children[y]
        /\ e /= s.parent[x] => u.children[e] = Append(s.children[e], x)
    <3>1. /\ s \in State /\ TreeOK(s) /\ p \in Player /\ e \in Entity /\ x \in Entity
          /\ s.held[p] = x /\ u = PlayerDrop(s, p, e)
      BY <1>0, <2>1, <2>2
    <3> QED
      BY ONLY <3>1, PlayerDropFields
  <2>6. u.children[e] = <<x>>
    <3>1. e \notin Fields \cup Boards
      BY DEF Piles, Fields, Boards
    <3>2. e /= s.parent[x]
      BY <1>0, <2>1, <3>1 DEF PlacesOK
    <3> QED
      BY <1>1, <2>5, <3>2
  <2>7. t = [w EXCEPT !.count[e] = @ + 1]
    <3>1. BoardDrop(s, e, p) = u
      BY <2>1, <2>2 DEF BoardDrop
    <3>2. u.children[e] /= <<>> /\ u.children[e][1] = x
      BY <2>6
    <3>3. PileDrop(s, e, p) = [Delete(u, x) EXCEPT !.count[e] = @ + 1]
      BY <1>4, <3>1, <3>2 DEF PileDrop
    <3> QED
      BY <2>2, <2>3, <2>4, <3>3 DEF Delete
  <2>8. none \in Entity \cup {nil}
    BY <2>2
  <2>9. /\ v \in State
        /\ TreeOK(v)
        /\ SameRegistry(v, u) /\ SameHands(v, u) /\ SameRest(v, u)
        /\ v.parent = [u.parent EXCEPT ![x] = none]
    <3>1. /\ u \in State /\ TreeOK(u) /\ x \in Entity /\ none \in Entity \cup {nil}
          /\ v = MoveTo(u, x, none)
      BY <2>1, <2>3, <2>5, <2>8
    <3> QED
      BY ONLY <3>1, MoveToFields
  <2>10. /\ w \in State
         /\ SameTree(w, v) /\ SameHands(w, v) /\ SameRest(w, v)
         /\ w.id = v.id
         /\ w.objects = [v.objects EXCEPT ![v.id[x]] = nil]
         /\ w.r_objects = [v.r_objects EXCEPT ![x] = 0]
    BY <2>1, <2>4, <2>9, DeleteObjectFields
  <2>11. /\ t \in State /\ t.out = w.out
         /\ SameRegistry(t, w) /\ SameTree(t, w) /\ SameHands(t, w) /\ t.opened = w.opened
    <3>1. [w.count EXCEPT ![e] = w.count[e] + 1] \in [Piles -> Nat]
      BY <2>10 DEF State
    <3>2. t = [w EXCEPT !.count = [w.count EXCEPT ![e] = w.count[e] + 1]]
      BY <2>7, <2>10 DEF State
    <3> QED
      BY <3>1, <3>2, <2>10 DEF State, SameRegistry, SameTree, SameHands
  <2>12. /\ t.held = u.held /\ t.held_by = u.held_by /\ t.opened = s.opened
         /\ t.id = s.id
         /\ t.objects = [s.objects EXCEPT ![s.id[x]] = nil]
         /\ t.r_objects = [s.r_objects EXCEPT ![x] = 0]
         /\ t.parent = [s.parent EXCEPT ![x] = nil]
    <3>1. t.held = u.held /\ t.held_by = u.held_by
      BY <2>9, <2>10, <2>11 DEF SameHands
    <3>2. t.opened = s.opened
      BY <2>5, <2>9, <2>10, <2>11 DEF SameRest
    <3>3. v.id = s.id /\ v.objects = s.objects /\ v.r_objects = s.r_objects
      BY <2>5, <2>9 DEF SameRegistry
    <3>4. t.id = s.id /\ t.objects = [s.objects EXCEPT ![s.id[x]] = nil]
          /\ t.r_objects = [s.r_objects EXCEPT ![x] = 0]
      BY <2>10, <2>11, <3>3 DEF SameRegistry
    <3>5. t.parent = v.parent
      BY <2>10, <2>11 DEF SameTree
    <3>6. v.parent = [[s.parent EXCEPT ![x] = e] EXCEPT ![x] = none]
      BY <2>5, <2>9
    <3>7. [[s.parent EXCEPT ![x] = e] EXCEPT ![x] = none] = [s.parent EXCEPT ![x] = none]
      BY <1>0, <2>1 DEF State
    <3> QED
      BY <2>2, <3>1, <3>2, <3>4, <3>5, <3>6, <3>7
  <2>13. PICK P : P = Players(s)
    OBVIOUS
  <2>14. Tells(s, t, P, P)
    <3>1. RegistryOK(s) /\ RegistryOK(u) /\ RegistryOK(v)
      BY <2>5, <2>9 DEF Good, RegistryOK, SameRegistry
    <3>2. Target(s, e)
      BY DEF Target, Good, StandsOK, Piles, Boxes
    <3>3. Known(u, x) /\ Target(u, none)
      BY <2>1, <2>2, <2>5 DEF Known, Target, SameRegistry
    <3>4. v.r_objects[x] /= 0 /\ v.parent[x] = nil
      BY <2>1, <2>2, <2>5, <2>9 DEF SameRegistry, State
    <3>5. Tells(s, u, P, P)
      BY <1>0, <2>1, <2>2, <3>2, PlayerDropTells
    <3>6. Tells(u, v, P, P)
      BY <2>1, <2>3, <2>5, <2>8, <3>1, <3>3, MoveToTells
    <3>7. Tells(v, w, P, P)
      BY <2>4, <2>9, <3>1, <3>4, DeleteObjectTells
    <3>8. Tells(w, t, P, P)
      BY <2>11, TellsSame DEF SameRegistry, SameTree, SameHands
    <3>9. Tells(s, v, P, P)
      BY <3>5, <3>6, TellsTrans
    <3>10. Tells(s, w, P, P)
      BY <3>7, <3>9, TellsTrans
    <3> QED
      BY <3>8, <3>10, TellsTrans
  <2>15. TreeOK(t)
    BY <2>9, <2>10, <2>11 DEF TreeOK, SameTree
  <2>16. HeldOK(t)
    <3>1. HeldOK(u) /\ (x \in Entity => Unheld(u, x))
      <4>1. HeldOK(s) /\ u.r_objects = s.r_objects
        BY <2>5 DEF Good, SameRegistry
      <4>2. /\ s \in State /\ HeldOK(s) /\ p \in Player /\ x \in Object /\ s.held[p] = x
            /\ u \in State /\ u.r_objects = s.r_objects
            /\ u.held = [s.held EXCEPT ![p] = nil]
            /\ u.held_by = [s.held_by EXCEPT ![x] = nil]
        BY <1>0, <2>1, <2>5, <4>1
      <4> QED
        BY ONLY <4>2, HandEmptied
    <3>2. \A q \in Player : u.held[q] \in Object \cup {nil}
      BY <2>5 DEF State
    <3>3. \A y \in Object : y /= x => t.r_objects[y] = u.r_objects[y]
      BY <1>0, <2>5, <2>12 DEF State, SameRegistry
    <3> QED
      BY <2>1, <2>12, <3>1, <3>2, <3>3 DEF HeldOK, Unheld
  <2>17. RegistryOK(t)
    BY <1>0, <2>1, <2>12 DEF Good, RegistryOK, State
  <2>18. x \notin Fields \cup Boards \cup Boxes \cup Pieces \cup Piles
    BY DEF Stones, Fields, Boards, Boxes, Pieces, Piles
  <2>19. PlacesOK(t)
    BY <1>0, <2>1, <2>12, <2>18 DEF PlacesOK, State, Object, Fields, Boards
  <2>20. StandsOK(t) /\ PlayersOK(t, on)
    BY <1>0, <2>1, <2>12, <2>18 DEF Good, StandsOK, PlayersOK, State, Object, Boards, Piles
  <2>21. BoxesOK(t)
    BY <1>0, <2>1, <2>12, <2>18 DEF Good, BoxesOK, State, Object, Boxes
  <2>22. Keeps(s, t) /\ Players(t) = Players(s)
    <3>1. s.id[x] \in Id /\ s.objects[s.id[x]] = x
      BY <1>0, <2>1 DEF Good, RegistryOK, State
    <3> QED
      BY <1>0, <2>12, <3>1 DEF Keeps, Players, State
  <2> QED
    BY <2>11, <2>13, <2>14, <2>15, <2>16, <2>17, <2>19, <2>20, <2>21, <2>22 DEF Played, Good
<1> QED
  BY <1>2, <1>3, <1>4

\* The drop method of each class.
LEMMA DropPlayed ==
    ASSUME NEW s, NEW on, Good(s, on), NEW p \in Player, p \in on,
           NEW e \in Droppables, s.r_objects[e] /= 0, NEW t, t = Drop(s, e, p)
    PROVE  Played(s, t, on)
<1>1. CASE e \in Pieces
  <2>1. t = PieceDrop(s, e, p)
    BY <1>1 DEF Drop, Pieces, Piles
  <2> QED
    BY <1>1, <2>1, PieceDropPlayed
<1>2. CASE e \in Piles
  <2>1. t = PileDrop(s, e, p)
    BY <1>2 DEF Drop, Pieces, Piles
  <2> QED
    BY <1>2, <2>1, PileDropPlayed
<1>3. CASE e \in Fields \cup Boards
  <2>1. t = BoardDrop(s, e, p)
    BY <1>3 DEF Drop, Pieces, Piles, Fields, Boards
  <2>2. Played(s, t, on) /\ SameRegistry(t, s)
    BY <1>3, <2>1, BoardDropPlayed
  <2> QED
    BY <2>2
<1> QED
  BY <1>1, <1>2, <1>3 DEF Droppables

\* A player that leaves empties its hand.
LEMMA PlayerDisconnectPlayed ==
    ASSUME NEW s, NEW on, Good(s, on), NEW p \in Player, p \in on,
           NEW rest, rest \subseteq on, NEW t, t = PlayerDisconnect(s, p)
    PROVE  Played(s, t, rest)
<1>1. CASE s.held[p] = nil
  <2>1. t = s
    BY <1>1 DEF PlayerDisconnect
  <2>2. Good(s, rest)
    BY DEF Good, PlayersOK
  <2> QED
    BY <2>1, <2>2, PlayedNothing
<1>2. CASE s.held[p] /= nil
  <2>0. /\ s \in State /\ RegistryOK(s) /\ HeldOK(s) /\ p \in Object
        /\ s.r_objects[p] /= 0
    BY DEF Good, Object, PlayersOK
  <2>1. PICK e \in Object : e = s.held[p]
    BY <1>2, <2>0 DEF State
  <2>2. PICK none : none = nil /\ none \in Object \cup {nil} /\ none \in Player \cup {nil}
    OBVIOUS
  <2>3. PICK u : u = SetHeldBy(s, e, none)
    OBVIOUS
  <2>4. t = SetHeld(u, p, none)
    BY <1>2, <2>1, <2>2, <2>3 DEF PlayerDisconnect
  <2>5. s.r_objects[e] /= 0
    BY <1>2, <2>0, <2>1 DEF HeldOK
  <2>6. /\ u \in State
        /\ SameRegistry(u, s) /\ SameTree(u, s) /\ SameRest(u, s)
        /\ u.held = s.held
        /\ u.held_by = [s.held_by EXCEPT ![e] = none]
    BY <2>0, <2>2, <2>3, SetHeldByFields
  <2>7. /\ t \in State
        /\ SameRegistry(t, u) /\ SameTree(t, u) /\ SameRest(t, u)
        /\ t.held = [u.held EXCEPT ![p] = none]
        /\ t.held_by = u.held_by
    <3>1. u \in State /\ p \in Player /\ none \in Object \cup {nil} /\ t = SetHeld(u, p, none)
      BY <2>2, <2>4, <2>6
    <3> QED
      BY ONLY <3>1, SetHeldFields
  <2>8. Known(s, e) /\ Known(s, none) /\ Known(u, p) /\ Known(u, none) /\ RegistryOK(u)
    BY <2>0, <2>2, <2>5, <2>6 DEF Known, RegistryOK, SameRegistry
  <2>9. PICK P : P = Players(s)
    OBVIOUS
  <2>10. Tells(s, u, P, P)
    BY <2>0, <2>2, <2>3, <2>8, SetHeldByTells
  <2>11. Tells(u, t, P, P)
    BY <2>2, <2>4, <2>6, <2>8, SetHeldTells
  <2>12. Tells(s, t, P, P)
    BY <2>10, <2>11, TellsTrans
  <2>13. /\ SameRegistry(t, s) /\ SameTree(t, s) /\ t.opened = s.opened
         /\ t.held = [s.held EXCEPT ![p] = nil]
         /\ t.held_by = [s.held_by EXCEPT ![e] = nil]
    BY <2>2, <2>6, <2>7 DEF SameRegistry, SameTree, SameRest
  <2>14. HeldOK(t) /\ (e \in Entity => Unheld(t, e))
    <3>1. t.r_objects = s.r_objects /\ s.held[p] = e
      BY <2>1, <2>13 DEF SameRegistry
    <3> QED
      BY <2>0, <2>7, <2>13, <3>1, HandEmptied
  <2>15. TreeOK(t) /\ RegistryOK(t) /\ PlacesOK(t) /\ BoxesOK(t)
    BY <2>13 DEF Good, TreeOK, RegistryOK, PlacesOK, BoxesOK, SameTree, SameRegistry
  <2>16. StandsOK(t) /\ PlayersOK(t, rest) /\ Keeps(s, t) /\ Players(t) = Players(s)
    BY <2>13 DEF Good, StandsOK, PlayersOK, Keeps, Players, SameTree, SameRegistry
  <2> QED
    BY <2>7, <2>9, <2>12, <2>14, <2>15, <2>16 DEF Played, Good
<1> QED
  BY <1>1, <1>2

\* A player or a stone is constructed and registered.
LEMMA AddObjectPlayed ==
    ASSUME NEW s, NEW on, Good(s, on), NEW o \in Player \cup Stones, s.id[o] = 0,
           NEW i \in BordersNext(Occupied(s)), NEW t, t = AddObject(s, o, i)
    PROVE  /\ Good(t, on) /\ Keeps(s, t)
           /\ Tells(s, t, Players(s), Players(s))
           /\ Players(t) = Players(s) \cup ({o} \cap Player)
           /\ t.r_objects[o] /= 0
<1>0. /\ s \in State /\ TreeOK(s) /\ RegistryOK(s) /\ PlacesOK(s) /\ BoxesOK(s)
      /\ o \in Object /\ i \in Id /\ s.objects[i] = nil /\ i /= 0
  BY DEF Good, Object, Stones, BordersNext, Occupied, Id
<1>1. /\ t \in State
      /\ SameTree(t, s) /\ SameHands(t, s) /\ SameRest(t, s)
      /\ \A x \in Object : t.id[x] = IF x = o THEN i ELSE s.id[x]
      /\ \A x \in Object : t.r_objects[x] = IF x = o THEN i ELSE s.r_objects[x]
      /\ \A j \in Id : t.objects[j] = IF j = i THEN o ELSE s.objects[j]
  BY <1>0, AddObjectFields
<1>2. RegistryOK(t) /\ s.r_objects[o] = 0
  BY <1>0, AddObjectRegistry
<1>3. PlacesOK(t) /\ BoxesOK(t)
  BY <1>0, AddObjectPlaces
<1>4. PICK P : P = Players(s)
  OBVIOUS
<1>5. Tells(s, t, P, P)
  BY <1>0, <1>2, AddObjectTells
<1>6. TreeOK(t)
  BY <1>0, <1>1 DEF TreeOK, SameTree
<1>7. HeldOK(t)
  <2>1. HeldOK(s) /\ t.held = s.held /\ t.held_by = s.held_by
    BY <1>1 DEF Good, SameHands
  <2>2. \A p \in Player : s.held[p] \in Object \cup {nil}
    BY <1>0 DEF State
  <2> QED
    BY <1>0, <1>1, <2>1, <2>2 DEF HeldOK
<1>8. StandsOK(t)
  <2>1. \A e \in Boards \cup Piles : e \in Object /\ e /= o
    BY GameAssumption DEF Boards, Piles, Stones, Object
  <2> QED
    BY <1>1, <2>1 DEF Good, StandsOK, SameTree
<1>9. PlayersOK(t, on)
  BY <1>0, <1>1 DEF Good, PlayersOK, Object
<1>10. Keeps(s, t)
  <2>1. s.objects[i] \notin Entity
    BY <1>0, GameAssumption DEF Object
  <2> QED
    BY <1>1, <2>1 DEF Keeps
<1>11. Players(t) = Players(s) \cup ({o} \cap Player)
  BY <1>0, <1>1 DEF Players, Object
<1> QED
  BY <1>0, <1>1, <1>2, <1>3, <1>4, <1>5, <1>6, <1>7, <1>8, <1>9, <1>10, <1>11 DEF Good

LEMMA AddPlayerPlayed ==
    ASSUME NEW s, NEW on, Good(s, on), NEW p \in Player, NEW i \in PlayerIds(s, p),
           NEW t, t = AddPlayer(s, p, i)
    PROVE  Played(s, t, on \cup {p}) /\ p \in Players(t)
<1> DEFINE v == IF s.id[p] = 0 THEN AddObject(s, p, i) ELSE s
<1>1. PICK u : u = v
  OBVIOUS
<1>2. /\ Good(u, on) /\ Keeps(s, u) /\ Tells(s, u, Players(s), Players(s))
      /\ Players(u) = Players(s) \cup {p} /\ u.r_objects[p] /= 0
  <2>1. CASE s.id[p] = 0
    <3>1. i \in BordersNext(Occupied(s)) /\ u = AddObject(s, p, i)
      BY <1>1, <2>1 DEF PlayerIds
    <3>2. /\ Good(u, on) /\ Keeps(s, u)
          /\ Tells(s, u, Players(s), Players(s))
          /\ Players(u) = Players(s) \cup ({p} \cap Player)
          /\ u.r_objects[p] /= 0
      BY <2>1, <3>1, AddObjectPlayed
    <3> QED
      BY <3>2
  <2>2. CASE s.id[p] /= 0
    <3>1. u = s
      BY <1>1, <2>2
    <3> QED
      BY <2>2, <3>1 DEF Good, PlayersOK, Players, Keeps, Tells
  <2> QED
    BY <2>1, <2>2
<1>3. t = Send(u, GameRef, "addPlayer", RefTo(u, p))
  BY <1>1 DEF AddPlayer
<1>4. u \in State /\ RefTo(u, p) \in Ref /\ RegistryOK(u)
  BY <1>2, RefToType DEF Good, Object
<1>5. /\ t \in State
      /\ SameRegistry(t, u) /\ SameTree(t, u) /\ SameHands(t, u) /\ SameRest(t, u)
  BY <1>3, <1>4, FixedRefs, SendFields DEF Method
<1>6. PICK P, Q : P = Players(s) /\ Q = P \cup {p} /\ P \subseteq Player
  BY DEF Players
<1>7. Tells(u, t, P, Q)
  BY <1>2, <1>3, <1>4, <1>6, JoinTells
<1>8. Tells(s, t, P, Q)
  BY <1>2, <1>6, <1>7, TellsTrans
<1>9. Good(t, on \cup {p})
  <2>1. PlayersOK(t, on \cup {p})
    <3>1. u.id[p] /= 0
      BY <1>2 DEF Players
    <3> QED
      BY <1>2, <1>5, <3>1 DEF Good, PlayersOK, SameRegistry
  <2>2. TreeOK(t) /\ RegistryOK(t) /\ PlacesOK(t)
    BY <1>2, <1>5 DEF Good, TreeOK, RegistryOK, PlacesOK, SameTree, SameRegistry
  <2>3. BoxesOK(t) /\ HeldOK(t) /\ StandsOK(t)
    BY <1>2, <1>5 DEF Good, BoxesOK, HeldOK, StandsOK, SameTree, SameRegistry, SameHands,
                      SameRest
  <2> QED
    BY <1>5, <2>1, <2>2, <2>3 DEF Good
<1>10. Keeps(s, t) /\ Players(t) = Q
  BY <1>2, <1>5, <1>6 DEF Keeps, Players, SameRegistry
<1> QED
  BY <1>6, <1>8, <1>9, <1>10 DEF Played

LEMMA TakeItemPlayed ==
    ASSUME NEW s, NEW on, Good(s, on), NEW p \in Player, p \in on, NEW e \in Piles,
           NEW x \in Stones, s.id[x] = 0, NEW i \in BordersNext(Occupied(s)),
           NEW t, t = TakeItem(s, e, p, x, i)
    PROVE  Played(s, t, on)
<1>1. CASE ~(s.count[e] > 0)
  <2>1. t = s
    BY <1>1 DEF TakeItem
  <2> QED
    BY <2>1, PlayedNothing
<1>2. CASE s.count[e] > 0
  <2>1. PICK u : u = AddObject(s, x, i)
    OBVIOUS
  <2>2. PICK v : v = TokenPickup(u, x, p)
    OBVIOUS
  <2>3. t = [v EXCEPT !.count[e] = @ - 1]
    BY <1>2, <2>1, <2>2 DEF TakeItem
  <2>4. /\ Good(u, on) /\ Keeps(s, u)
        /\ Tells(s, u, Players(s), Players(s))
        /\ Players(u) = Players(s) \cup ({x} \cap Player)
        /\ u.r_objects[x] /= 0
    BY <2>1, AddObjectPlayed
  <2>5. Played(s, u, on)
    <3>1. {x} \cap Player = {}
      BY GameAssumption DEF Stones
    <3> QED
      BY <2>4, <3>1 DEF Played
  <2>6. Played(u, v, on)
    BY <2>2, <2>4, TokenPickupPlayed DEF Tokens
  <2>7. /\ t \in State
        /\ SameRegistry(t, v) /\ SameTree(t, v) /\ SameHands(t, v) /\ t.opened = v.opened
        /\ t.out = v.out
    <3>1. v.count = s.count
      <4>1. u \in State /\ u.count = s.count
        <5>1. s \in State /\ x \in Object /\ i \in Id
          BY DEF Good, Stones, Object, BordersNext
        <5>2. u \in State /\ SameRest(u, s)
          BY <2>1, <5>1, AddObjectFields
        <5> QED
          BY <5>2 DEF SameRest
      <4>2. v.count = u.count
        <5>1. CASE v = u
          BY <5>1
        <5>2. CASE v /= u
          <6>1. v = SetHeldBy(SetHeld(u, p, x), x, p)
            BY <2>2, <5>2 DEF TokenPickup, PlayerPickup
          <6>2. PICK w : w = SetHeld(u, p, x)
            OBVIOUS
          <6>3. x \in Object /\ p \in Object \cup {nil}
            BY DEF Stones, Object
          <6>4. w \in State /\ SameRest(w, u)
            BY <4>1, <6>2, <6>3, SetHeldFields
          <6>5. v = SetHeldBy(w, x, p) /\ p \in Player \cup {nil}
            BY <6>1, <6>2
          <6>6. SameRest(v, w)
            BY <6>3, <6>4, <6>5, SetHeldByFields
          <6> QED
            BY <6>4, <6>6 DEF SameRest
        <5> QED
          BY <5>1, <5>2
      <4> QED
        BY <4>1, <4>2
    <3>2. [v.count EXCEPT ![e] = v.count[e] - 1] \in [Piles -> Nat]
      <4>1. s.count \in [Piles -> Nat]
        BY DEF Good, State
      <4> QED
        BY <1>2, <3>1, <4>1
    <3>3. v \in State
      BY <2>6 DEF Played, Good
    <3>4. t = [v EXCEPT !.count = [v.count EXCEPT ![e] = v.count[e] - 1]]
      BY <2>3, <3>3 DEF State
    <3> QED
      BY <3>2, <3>3, <3>4 DEF State, SameRegistry, SameTree, SameHands
  <2>8. Played(v, t, on)
    <3>1. Good(v, on)
      BY <2>6 DEF Played
    <3> QED
      BY <2>7, <3>1, PlayedSame
  <2>9. Played(s, v, on)
    BY <2>5, <2>6, PlayedTrans
  <2> QED
    BY <2>8, <2>9, PlayedTrans
<1> QED
  BY <1>1, <1>2

LEMMA OpenBoxPlayed ==
    ASSUME NEW s, NEW on, Good(s, on), NEW b \in Boxes, NEW ids \in OpenIds(s, b),
           NEW t, t = OpenBox(s, b, ids)
    PROVE  Played(s, t, on)
<1>0. s \in State /\ TreeOK(s) /\ RegistryOK(s) /\ PlacesOK(s) /\ BoxesOK(s)
  BY DEF Good
<1>1. CASE b \in s.opened
  <2>1. t = s
    BY <1>1 DEF OpenBox
  <2> QED
    BY <2>1, PlayedNothing
<1>2. CASE b \notin s.opened
  <2>1. PICK c : c = Contents[b]
    OBVIOUS
  <2>2. PICK u : u = RunScript(s, c, ids)
    OBVIOUS
  <2>3. /\ c \in Scripts /\ ids \in ScriptIds(s, c)
        /\ \A e \in Range(c) : s.id[e] = 0
    BY <1>0, <1>2, <2>1 DEF OpenIds, Scripts, BoxesOK
  <2>4. /\ t \in State /\ TreeOK(t) /\ RegistryOK(t) /\ PlacesOK(t) /\ BoxesOK(t)
        /\ SameRegistry(t, u) /\ SameHands(t, u) /\ t.out = u.out
        /\ t.count = s.count /\ t.opened = s.opened \cup {b}
        /\ \A e \in Entity : t.parent[e] = IF e = b THEN nil ELSE u.parent[e]
    BY <1>0, <1>2, <2>1, <2>2, <2>3, OpenBoxTables
  <2>5. /\ u \in State
        /\ SameHands(u, s) /\ SameRest(u, s)
        /\ \A o \in Object : u.id[o] = IF o \in Range(c) THEN ids[o] ELSE s.id[o]
        /\ \A o \in Object :
              u.r_objects[o] = IF o \in Range(c) THEN ids[o] ELSE s.r_objects[o]
        /\ \A i \in Id : (\A e \in Range(c) : ids[e] /= i) => u.objects[i] = s.objects[i]
        /\ \A e \in Range(c) : u.objects[ids[e]] = e
        /\ \A e \in Entity : u.parent[e] = IF e \in Range(c) THEN Home[e] ELSE s.parent[e]
        /\ \A e \in Entity :
              u.children[e] = IF e \in Range(c) THEN Layout[e] ELSE s.children[e]
    BY ONLY <1>0, <2>2, <2>3, RunScriptFields
  <2>6. /\ ids \in [Range(c) -> Id]
        /\ \A e \in Range(c) : s.objects[ids[e]] = nil
        /\ \A e \in Range(c), f \in Range(c) : ids[e] = ids[f] => e = f
    BY <2>3, ScriptIdsFacts
  <2>7. Range(c) \subseteq Entity /\ Range(c) \cap Boxes = {}
    <3>1. Range(c) \subseteq Entity
      BY <2>3, ScriptFacts
    <3> QED
      BY <2>1, <3>1, ScriptAssumption
  <2>8. PICK P : P = Players(s)
    OBVIOUS
  <2>9. Tells(s, u, P, P)
    <3>1. Rooted(s)
      BY <1>0 DEF PlacesOK, Rooted
    <3> QED
      BY <1>0, <2>2, <2>3, <2>7, <3>1, ScriptTells
  <2>10. Tells(u, t, P, P)
    <3>1. t.objects = u.objects /\ t.r_objects = u.r_objects /\ t.held = u.held
      BY <2>4 DEF SameRegistry, SameHands
    <3>2. \A e \in Entity \ Boxes : t.parent[e] = u.parent[e]
      BY <2>4
    <3>3. \A e \in Fields : t.r_objects[e] = u.r_objects[e]
      BY <3>1
    <3> QED
      BY <2>4, <3>1, <3>2, <3>3, TellsSame
  <2>11. Tells(s, t, P, P)
    BY <2>9, <2>10, TellsTrans
  <2>12. HeldOK(t)
    <3>1. HeldOK(s) /\ t.held = s.held /\ t.held_by = s.held_by /\ t.r_objects = u.r_objects
      BY <2>4, <2>5 DEF Good, SameHands, SameRegistry
    <3>2. \A p \in Player : s.held[p] \in Object \cup {nil}
      BY <1>0 DEF State
    <3>3. \A o \in Object : s.r_objects[o] /= 0 => u.r_objects[o] /= 0
      <4>1. \A e \in Range(c) : ids[e] /= 0
        BY <2>6 DEF Id
      <4> QED
        BY <2>5, <4>1
    <3> QED
      BY <3>1, <3>2, <3>3 DEF HeldOK
  <2>13. StandsOK(t)
    <3> SUFFICES ASSUME NEW e \in Boards \cup Piles, t.r_objects[e] /= 0
                 PROVE  t.parent[e] /= nil
      BY DEF StandsOK
    <3>1. e \in Entity /\ e \in Object /\ e /= b
      BY DEF Boards, Piles, Boxes, Object
    <3>2. CASE e \in Range(c)
      <4>1. Home[e] \in Fields
        BY <3>1, ScriptAssumption
      <4>2. Home[e] /= nil
        BY <4>1, GameAssumption DEF Fields, Object
      <4> QED
        BY <2>4, <2>5, <3>1, <3>2, <4>2
    <3>3. CASE e \notin Range(c)
      <4>1. s.r_objects[e] /= 0
        BY <2>4, <2>5, <3>1, <3>3 DEF SameRegistry
      <4>2. s.parent[e] /= nil
        BY <4>1 DEF Good, StandsOK
      <4> QED
        BY <2>4, <2>5, <3>1, <3>3, <4>2
    <3> QED
      BY <3>2, <3>3
  <2>14. PlayersOK(t, on) /\ Players(t) = Players(s)
    <3>1. \A q \in Player : q \in Object /\ t.id[q] = s.id[q] /\ t.r_objects[q] = s.r_objects[q]
      <4>1. \A q \in Player : q \in Object /\ q \notin Range(c)
        BY <2>7, GameAssumption DEF Object
      <4> QED
        BY <2>4, <2>5, <4>1 DEF SameRegistry
    <3> QED
      BY <3>1 DEF Good, PlayersOK, Players
  <2>15. Keeps(s, t)
    <3> SUFFICES ASSUME NEW i \in Id, s.objects[i] \in Entity \ Stones
                 PROVE  t.objects[i] = s.objects[i]
      BY DEF Keeps
    <3>1. nil \notin Entity
      BY GameAssumption DEF Object
    <3>2. \A e \in Range(c) : ids[e] /= i
      BY <2>6, <3>1
    <3> QED
      BY <2>4, <2>5, <3>2 DEF SameRegistry
  <2> QED
    BY <2>4, <2>8, <2>11, <2>12, <2>13, <2>14, <2>15 DEF Played, Good
<1> QED
  BY <1>1, <1>2

-----------------------------------------------------------------------------
(***************************************************************************)
(* Requests.  A request names what was clicked by an id.  Unless that was  *)
(* a stone, the id still belongs to it when the server gets the request.   *)
(***************************************************************************)
RequestOK(r, s) ==
    /\ r \in Request
    /\ r.obj \notin Stones => s.objects[r.id] = r.obj
    /\ r.method = "drop" => r.obj \in Droppables
    /\ r.method = "takeItem" => r.obj \in Piles
    /\ r.method = "open" => r.obj \in Boxes

LEMMA RequestKept ==
    ASSUME NEW r, NEW s, NEW t, RequestOK(r, s), Keeps(s, t)
    PROVE  RequestOK(r, t)
<1>1. r.obj \notin Stones => t.objects[r.id] = s.objects[r.id]
  BY DEF RequestOK, Request, Keeps
<1> QED
  BY <1>1 DEF RequestOK

\* Whatever object a request reaches, its dispatch keeps the game good and
\* tells everybody.
LEMMA InvokePlayed ==
    ASSUME NEW s, NEW on, Good(s, on), NEW p \in Player, p \in on,
           NEW r, RequestOK(r, s), NEW o, o = s.objects[r.id], o /= nil,
           NEW t \in Invoke(s, o, r.method, p)
    PROVE  Played(s, t, on)
<1>0. /\ o \in Object /\ s.r_objects[o] /= 0 /\ s.r_objects[p] /= 0
      /\ r.obj \notin Stones => o = r.obj
  <2>1. r.id \in Id /\ s \in State /\ RegistryOK(s)
    BY DEF RequestOK, Request, Good
  <2>2. o \in Object
    BY <2>1 DEF State
  <2>3. s.r_objects[o] = r.id /\ r.id /= 0
    BY <2>1 DEF RegistryOK, Id
  <2>4. s.r_objects[p] /= 0
    BY DEF Good, PlayersOK
  <2> QED
    BY <2>2, <2>3, <2>4 DEF RequestOK
<1>1. CASE r.method = "pickup" /\ o \in Tokens
  <2>1. t = TokenPickup(s, o, p)
    <3>1. o \notin Player
      BY <1>1, GameAssumption DEF Tokens, Pieces, Stones, Piles
    <3> QED
      BY <1>1, <3>1 DEF Invoke
  <2>2. /\ Good(s, on) /\ p \in Player /\ p \in on /\ o \in Tokens /\ s.r_objects[o] /= 0
        /\ t = TokenPickup(s, o, p)
    BY <1>0, <1>1, <2>1
  <2> QED
    BY ONLY <2>2, TokenPickupPlayed
<1>2. CASE r.method = "pickup" /\ o \in Player
  <2>1. o \notin Tokens /\ o \notin Entity /\ p \in Object
    BY <1>2, GameAssumption DEF Tokens, Pieces, Stones, Piles, Object
  <2>2. t = PlayerPickup(s, o, p)
    BY <1>2, <2>1 DEF Invoke
  <2>3. p \notin Entity
    BY GameAssumption
  <2> QED
    BY <1>0, <1>2, <2>1, <2>2, <2>3, PlayerPickupPlayed
<1>3. CASE r.method = "pickup" /\ o \notin Tokens /\ o \notin Player
  <2>1. t = Raise(s)
    BY <1>3 DEF Invoke
  <2> QED
    BY <2>1, RaisePlayed
<1>4. CASE r.method = "drop"
  <2>1. t = Drop(s, o, p)
    BY <1>4 DEF Invoke
  <2>2. o \in Droppables
    <3>1. r.obj \in Droppables
      BY <1>4 DEF RequestOK
    <3>2. r.obj \notin Stones
      BY <3>1 DEF Droppables, Fields, Boards, Pieces, Piles, Stones
    <3> QED
      BY <1>0, <3>1, <3>2
  <2> QED
    BY <1>0, <2>1, <2>2, DropPlayed
<1>5. CASE r.method = "takeItem"
  <2>1. o \in Piles
    <3>1. r.obj \in Piles
      BY <1>5 DEF RequestOK
    <3>2. r.obj \notin Stones
      BY <3>1 DEF Piles, Stones
    <3> QED
      BY <1>0, <3>1, <3>2
  <2>2. t \in {TakeItem(s, o, p, x, i) : x \in {y \in Stones : s.id[y] = 0},
                                         i \in BordersNext(Occupied(s))}
    BY <1>5 DEF Invoke
  <2>3. PICK x \in Stones, i \in BordersNext(Occupied(s)) :
            s.id[x] = 0 /\ t = TakeItem(s, o, p, x, i)
    BY <2>2
  <2> QED
    BY <2>1, <2>3, TakeItemPlayed
<1>6. CASE r.method = "open"
  <2>1. o \in Boxes
    <3>1. r.obj \in Boxes
      BY <1>6 DEF RequestOK
    <3>2. r.obj \notin Stones
      BY <3>1 DEF Boxes, Stones
    <3> QED
      BY <1>0, <3>1, <3>2
  <2>2. t \in {OpenBox(s, o, ids) : ids \in OpenIds(s, o)}
    BY <1>6 DEF Invoke
  <2>3. PICK ids \in OpenIds(s, o) : t = OpenBox(s, o, ids)
    BY <2>2
  <2> QED
    BY <2>1, <2>3, OpenBoxPlayed
<1> QED
  <2>1. r.method \in RequestMethod
    BY DEF RequestOK, Request
  <2> QED
    BY <1>1, <1>2, <1>3, <1>4, <1>5, <1>6, <2>1 DEF RequestMethod

-----------------------------------------------------------------------------
(***************************************************************************)
(* A new client, and the end of a dispatch.                                *)
(***************************************************************************)

\* The boxed game is in step with the game it was made from.
LEMMA SnapshotSync ==
    ASSUME NEW s, NEW on, Good(s, on), NEW r, r = Snapshot(s), NEW P, P = Players(s)
    PROVE  Sync(r, s, P)
<1> DEFINE placed == {x \in Entity : \E e \in Entity : x \in Range(s.children[e])}
           up == [x \in Entity |-> IF x \in placed
                                   THEN CHOOSE e \in Entity : x \in Range(s.children[e])
                                   ELSE nil]
<1>0. s \in State /\ nil \notin Entity /\ P \subseteq Player
  BY GameAssumption DEF Good, Object, Players
<1>1. \A e \in Entity, x \in Entity : x \in Range(s.children[e]) <=> s.parent[x] = e
  BY DEF Good, TreeOK
<1>2. r = [joined |-> TRUE, objects |-> s.objects, players |-> P, parent |-> up,
           held |-> s.held, scene |-> Shown(s, placed)]
  BY DEF Snapshot, Players
<1>3. \A x \in Entity : x \in placed <=> s.parent[x] /= nil
  BY <1>0, <1>1 DEF State
<1>4. \A x \in Entity : up[x] = s.parent[x]
  <2> SUFFICES ASSUME NEW x \in Entity PROVE up[x] = s.parent[x]
    OBVIOUS
  <2>1. CASE s.parent[x] = nil
    <3>1. x \notin placed
      BY <1>3, <2>1
    <3> HIDE DEF placed
    <3> QED
      BY <2>1, <3>1
  <2>2. CASE s.parent[x] /= nil
    <3>1. x \in placed
      BY <1>3, <2>2
    <3>2. s.parent[x] \in Entity /\ x \in Range(s.children[s.parent[x]])
      BY <1>0, <1>1, <2>2 DEF State
    <3>3. (CHOOSE e \in Entity : x \in Range(s.children[e])) = s.parent[x]
      BY <1>1, <3>2
    <3> HIDE DEF placed
    <3> QED
      BY <3>1, <3>3
  <2> QED
    BY <2>1, <2>2
<1>5. up \in [Entity -> Entity \cup {nil}]
  <2>1. \A x \in Entity : up[x] \in Entity \cup {nil}
    <3> HIDE DEF up
    <3> QED
      BY <1>0, <1>4 DEF State
  <2> QED
    BY <2>1
<1>6. placed \subseteq Entity
  OBVIOUS
<1> HIDE DEF placed, up
<1>7. r \in Replica
  <2>1. s.objects \in [Id -> Object \cup {nil}] /\ s.held \in [Player -> Object \cup {nil}]
    BY <1>0 DEF State
  <2>2. Shown(s, placed) \subseteq Entity
    BY <1>6 DEF Shown, Fields
  <2> QED
    BY <1>0, <1>2, <1>5, <2>1, <2>2 DEF Replica
<1>8. \A e \in Entity \ Boxes : s.parent[e] /= nil => e \in r.scene
  BY <1>2, <1>3 DEF Shown
<1>9. \A e \in Fields : s.r_objects[e] /= 0 => e \in r.scene
  BY <1>2 DEF Shown, Registered
<1> QED
  BY <1>2, <1>4, <1>7, <1>8, <1>9 DEF Sync

\* Of the ids a client knows, only those of stones may be given to something
\* else by the messages on their way to it.
LEMMA LeadsKeeps ==
    ASSUME NEW S, NEW r, NEW q \in Seq(S), NEW e, Leads(r, q, e)
    PROVE  Keeps(r, e)
<1>0. PICK R : Run(r, q, R) /\ R[Len(q)] = e
  BY DEF Leads
<1> DEFINE A == {k \in 0..Len(q) : Keeps(r, R[k])}
<1>1. Len(q) \in Nat
  OBVIOUS
<1>2. 0 \in A
  BY <1>0, <1>1 DEF Run, Keeps
<1>3. ASSUME NEW k \in 0..Len(q), k \in A, k < Len(q) PROVE k + 1 \in A
  <2>1. k + 1 \in 1..Len(q) /\ (k + 1) - 1 = k /\ k + 1 \in 0..Len(q)
    BY <1>1, <1>3
  <2>2. Understands(R[k], q[k + 1]) /\ R[k + 1] = Apply(R[k], q[k + 1])
    BY <1>0, <2>1 DEF Run
  <2>3. Keeps(R[k], R[k + 1])
    BY <2>2 DEF Understands
  <2>4. Keeps(r, R[k])
    BY <1>3
  <2>5. Keeps(r, R[k + 1])
    BY <2>3, <2>4 DEF Keeps
  <2> QED
    BY <2>1, <2>5
<1> HIDE DEF A
<1>4. 0..Len(q) \subseteq A
  BY <1>1, <1>2, <1>3, Induction
<1>5. Len(q) \in A
  BY <1>1, <1>4
<1> QED
  BY <1>0, <1>5 DEF A

\* What travels to a client.
Mail == Message \cup [self : {NilRef}, method : {"game"}, arg : Replica]

\* Replica r is in step with game s once it has handled the mail in q.
CatchesUp(r, q, s) == \E e : Leads(r, q, e) /\ Sync(e, s, Players(s))

Flushed(s) == s.out = <<>> /\ s.raised = FALSE

LEMMA FlushGood ==
    ASSUME NEW s, NEW on, Good(s, on), NEW t, t = T!Flush(s)
    PROVE  /\ Good(t, on) /\ Flushed(t) /\ Keeps(s, t) /\ Players(t) = Players(s)
           /\ \A e, P : Sync(e, s, P) => Sync(e, t, P)
<1>1. /\ t \in State /\ t.out = <<>> /\ t.raised = FALSE
      /\ SameRegistry(t, s) /\ SameTree(t, s) /\ SameHands(t, s) /\ t.opened = s.opened
  <2>1. <<>> \in Seq(Message)
    OBVIOUS
  <2> QED
    BY <2>1 DEF Good, T!Flush, State, SameRegistry, SameTree, SameHands
<1>2. TreeOK(t) /\ RegistryOK(t) /\ PlacesOK(t) /\ BoxesOK(t)
  BY <1>1 DEF Good, TreeOK, RegistryOK, PlacesOK, BoxesOK, SameTree, SameRegistry
<1>3. HeldOK(t) /\ StandsOK(t) /\ PlayersOK(t, on)
  BY <1>1 DEF Good, HeldOK, StandsOK, PlayersOK, SameTree, SameRegistry, SameHands
<1>4. Keeps(s, t) /\ Players(t) = Players(s)
  BY <1>1 DEF Keeps, Players, SameRegistry
<1>5. \A e, P : Sync(e, s, P) => Sync(e, t, P)
  BY <1>1 DEF Sync, SameTree, SameRegistry, SameHands
<1> QED
  BY <1>1, <1>2, <1>3, <1>4, <1>5 DEF Good, Flushed

\* The broadcasts of a dispatch reach a client behind its other mail.
LEMMA BroadcastCatchesUp ==
    ASSUME NEW g, Flushed(g), NEW s, NEW on, Played(g, s, on), NEW t, t = T!Flush(s),
           NEW r, NEW q \in Seq(Mail), CatchesUp(r, q, g)
    PROVE  q \o s.out \in Seq(Mail) /\ CatchesUp(r, q \o s.out, t)
<1>0. PICK P, Q : P = Players(g) /\ Q = Players(s)
  OBVIOUS
<1>1. PICK e : Leads(r, q, e) /\ Sync(e, g, P)
  BY <1>0 DEF CatchesUp
<1>2. Told(e, g, P)
  <2>1. Leads(e, <<>>, e)
    BY <1>1, LeadsNowhere DEF Sync
  <2> QED
    BY <1>1, <2>1 DEF Told, Flushed
<1>3. Told(e, s, Q)
  BY <1>0, <1>2 DEF Played, Tells
<1>4. PICK f : Leads(e, s.out, f) /\ Sync(f, s, Q)
  BY <1>3 DEF Told
<1>5. s.out \in Seq(Mail)
  <2>1. s.out \in Seq(Message)
    BY DEF Played, Good, State
  <2>2. Seq(Message) \subseteq Seq(Mail)
    BY DEF Mail
  <2> QED
    BY <2>1, <2>2
<1>6. Leads(r, q \o s.out, f)
  BY <1>1, <1>4, <1>5, LeadsBoth
<1>7. Sync(f, t, Players(t))
  <2>1. Good(s, on)
    BY DEF Played
  <2>2. Players(t) = Players(s) /\ \A x, U : Sync(x, s, U) => Sync(x, t, U)
    BY <2>1, FlushGood
  <2> QED
    BY <1>0, <1>4, <2>2
<1> QED
  BY <1>5, <1>6, <1>7 DEF CatchesUp

\* The requests a client has on their way.
Asked(q, s) ==
    /\ q \in Seq(Request)
    /\ Len(q) <= MaxRequests
    /\ \A i \in 1..Len(q) : RequestOK(q[i], s)

LEMMA AskedNothing ==
    ASSUME NEW s
    PROVE  Asked(<<>>, s)
<1>1. <<>> \in Seq(Request) /\ Len(<<>>) = 0 /\ 0 <= MaxRequests /\ 1..0 = {}
  BY BoundsAssumption
<1> QED
  BY <1>1 DEF Asked

LEMMA AskedStill ==
    ASSUME NEW q, NEW s, NEW t, Asked(q, s), Keeps(s, t)
    PROVE  Asked(q, t)
<1>1. \A i \in 1..Len(q) : RequestOK(q[i], t)
  <2> TAKE i \in 1..Len(q)
  <2>1. RequestOK(q[i], s)
    BY DEF Asked
  <2> QED
    BY <2>1, RequestKept
<1> QED
  BY <1>1 DEF Asked

LEMMA AskedLess ==
    ASSUME NEW q, NEW s, Asked(q, s), NEW a \in Seq(Request), Len(a) <= Len(q),
           \A i \in 1..Len(a) : \E j \in 1..Len(q) : a[i] = q[j]
    PROVE  Asked(a, s)
<1>1. \A i \in 1..Len(a) : RequestOK(a[i], s)
  BY DEF Asked
<1>2. Len(a) <= MaxRequests
  <2>1. Len(a) \in Nat /\ Len(q) \in Nat /\ Len(q) <= MaxRequests
    BY DEF Asked
  <2> QED
    BY <2>1, BoundsAssumption
<1> QED
  BY <1>1, <1>2 DEF Asked

LEMMA AskedMore ==
    ASSUME NEW q, NEW s, Asked(q, s), Len(q) < MaxRequests, NEW r, RequestOK(r, s)
    PROVE  Asked(Append(q, r), s)
<1>0. q \in Seq(Request) /\ r \in Request /\ MaxRequests \in Nat
  BY BoundsAssumption DEF Asked, RequestOK
<1>1. Append(q, r) \in Seq(Request) /\ Len(Append(q, r)) = Len(q) + 1 /\ Len(q) \in Nat
  BY <1>0
<1>2. \A i \in 1..Len(Append(q, r)) : RequestOK(Append(q, r)[i], s)
  <2> TAKE i \in 1..Len(Append(q, r))
  <2>1. CASE i = Len(q) + 1
    <3>1. Append(q, r)[i] = r
      BY <1>0, <2>1
    <3> QED
      BY <3>1
  <2>2. CASE i /= Len(q) + 1
    <3>1. i \in 1..Len(q)
      BY <1>1, <2>2
    <3>2. Append(q, r)[i] = q[i]
      BY <1>0, <3>1
    <3> QED
      BY <3>1, <3>2 DEF Asked
  <2> QED
    BY <2>1, <2>2
<1> QED
  BY <1>0, <1>1, <1>2 DEF Asked

-----------------------------------------------------------------------------
(***************************************************************************)
(* Felt's copy of Game and the one Table brings (T!) are the same          *)
(* operators, because Felt gives T the same constants.                     *)
(***************************************************************************)
LEMMA SameMethods ==
    /\ \A s, o : T!Registered(s, o) = Registered(s, o)
    /\ \A s, e, p : T!TokenPickup(s, e, p) = TokenPickup(s, e, p)
    /\ \A s, p : T!PlayerDisconnect(s, p) = PlayerDisconnect(s, p)
    /\ \A s, e, p : T!Drop(s, e, p) = Drop(s, e, p)
    /\ \A s, e, p, x, i : T!TakeItem(s, e, p, x, i) = TakeItem(s, e, p, x, i)
    /\ \A s, p, i : T!AddPlayer(s, p, i) = AddPlayer(s, p, i)
    /\ \A s, p : T!PlayerIds(s, p) = PlayerIds(s, p)
    /\ \A s : T!BordersNext(T!Occupied(s)) = BordersNext(Occupied(s))
<1>1. /\ T!Id = Id /\ T!NilRef = NilRef /\ T!GameRef = GameRef
      /\ T!Pieces = Pieces /\ T!Piles = Piles /\ T!Stones = Stones
  BY DEF T!Id, Id, T!NilRef, NilRef, T!GameRef, GameRef, T!GameObject, GameObject,
         T!Pieces, Pieces, T!Piles, Piles, T!Stones, Stones
<1>2. \A s, o : T!Registered(s, o) = Registered(s, o)
  BY DEF T!Registered, Registered
<1>3. \A s, o : T!RefTo(s, o) = RefTo(s, o)
  BY <1>1, <1>2 DEF T!RefTo, RefTo
<1>4. \A s, self, m, arg : T!Send(s, self, m, arg) = Send(s, self, m, arg)
  BY DEF T!Send, Send
<1>5. \A s : T!Raise(s) = Raise(s)
  BY DEF T!Raise, Raise
<1>6. \A s, o, i : T!AddObject(s, o, i) = AddObject(s, o, i)
  <2> TAKE s, o, i
  <2> DEFINE t == [s EXCEPT !.id[o] = i]
             u == Send(t, GameRef, "addObject", RefTo(t, o))
             v == T!Send(t, T!GameRef, "addObject", T!RefTo(t, o))
  <2>1. u = v
    <3> HIDE DEF t
    <3> QED
      BY <1>1, <1>3, <1>4
  <2>2. /\ AddObject(s, o, i) = [u EXCEPT !.objects[i] = o, !.r_objects[o] = i]
        /\ T!AddObject(s, o, i) = [v EXCEPT !.objects[i] = o, !.r_objects[o] = i]
    BY DEF T!AddObject, AddObject
  <2> HIDE DEF u, v
  <2> QED
    BY <2>1, <2>2
<1>7. \A s, o : T!DeleteObject(s, o) = DeleteObject(s, o)
  BY <1>1, <1>3, <1>4 DEF T!DeleteObject, DeleteObject
<1>8. \A s, p, i : T!AddPlayer(s, p, i) = AddPlayer(s, p, i)
  BY <1>1, <1>3, <1>4, <1>6 DEF T!AddPlayer, AddPlayer
<1>9. \A s, p, e : T!SetHeld(s, p, e) = SetHeld(s, p, e)
  BY <1>3, <1>4 DEF T!SetHeld, SetHeld
<1>10. \A s, e, p : T!SetHeldBy(s, e, p) = SetHeldBy(s, e, p)
  BY <1>3, <1>4 DEF T!SetHeldBy, SetHeldBy
<1>11. \A s, from, e : T!EntityRemove(s, from, e) = EntityRemove(s, from, e)
  <2>1. \A q, e : T!RemoveFirst(q, e) = RemoveFirst(q, e)
    BY DEF T!RemoveFirst, RemoveFirst, T!RemoveAt, RemoveAt, T!SelectInSeq, SelectInSeq,
           T!Min, Min
  <2> QED
    BY <2>1 DEF T!EntityRemove, EntityRemove
<1>12. \A s, e, to : T!MoveTo(s, e, to) = MoveTo(s, e, to)
  <2> TAKE s, e, to
  <2> DEFINE old == s.parent[e]
             t == IF old /= nil /\ old /= to THEN EntityRemove(s, old, e) ELSE s
             t2 == IF old /= nil /\ old /= to THEN T!EntityRemove(s, old, e) ELSE s
             up(x) == IF to /= nil /\ x.parent[e] /= to
                      THEN [x EXCEPT !.children[to] = Append(@, e)] ELSE x
             put(x) == [x EXCEPT !.parent[e] = to]
  <2>1. t = t2
    BY <1>11
  <2>2. MoveTo(s, e, to) = Send(put(up(t)), RefTo(put(up(t)), e), "moveto", RefTo(put(up(t)), to))
    BY DEF MoveTo
  <2>3. T!MoveTo(s, e, to) =
            T!Send(put(up(t2)), T!RefTo(put(up(t2)), e), "moveto", T!RefTo(put(up(t2)), to))
    BY DEF T!MoveTo
  <2> HIDE DEF t, t2, up, put
  <2> QED
    BY <1>3, <1>4, <2>1, <2>2, <2>3
<1>13. \A s, e : T!Delete(s, e) = Delete(s, e)
  BY <1>7, <1>12 DEF T!Delete, Delete
<1>14. \A s, e, p : T!TokenPickup(s, e, p) = TokenPickup(s, e, p)
  BY <1>9, <1>10 DEF T!TokenPickup, TokenPickup, T!PlayerPickup, PlayerPickup
<1>15. \A s, p, onto : T!PlayerDrop(s, p, onto) = PlayerDrop(s, p, onto)
  BY <1>5, <1>9, <1>10, <1>12 DEF T!PlayerDrop, PlayerDrop
<1>16. \A s, p : T!PlayerDisconnect(s, p) = PlayerDisconnect(s, p)
  BY <1>9, <1>10 DEF T!PlayerDisconnect, PlayerDisconnect
<1>17. \A s, e, p : T!BoardDrop(s, e, p) = BoardDrop(s, e, p)
  BY <1>5, <1>15 DEF T!BoardDrop, BoardDrop
<1>18. \A s, e, p : T!PieceDrop(s, e, p) = PieceDrop(s, e, p)
  BY <1>5, <1>14, <1>17 DEF T!PieceDrop, PieceDrop
<1>19. \A s, e, p : T!PileDrop(s, e, p) = PileDrop(s, e, p)
  BY <1>1, <1>5, <1>13, <1>17 DEF T!PileDrop, PileDrop
<1>20. \A s, e, p : T!Drop(s, e, p) = Drop(s, e, p)
  BY <1>1, <1>17, <1>18, <1>19 DEF T!Drop, Drop
<1>21. \A s, e, p, x, i : T!TakeItem(s, e, p, x, i) = TakeItem(s, e, p, x, i)
  BY <1>6, <1>14 DEF T!TakeItem, TakeItem
<1>22. /\ \A used : T!BordersNext(used) = BordersNext(used)
       /\ \A s : T!Occupied(s) = Occupied(s)
  BY <1>1 DEF T!BordersNext, BordersNext, T!Occupied, Occupied
<1>23. \A s, p : T!PlayerIds(s, p) = PlayerIds(s, p)
  BY <1>22 DEF T!PlayerIds, PlayerIds
<1> QED
  BY <1>2, <1>8, <1>14, <1>16, <1>20, <1>21, <1>22, <1>23

LEMMA SameScripts ==
    /\ \A s, c : T!ScriptIds(s, c) = ScriptIds(s, c)
    /\ \A s, c, ids : T!RunScript(s, c, ids) = RunScript(s, c, ids)
    /\ \A s, b : T!OpenIds(s, b) = OpenIds(s, b)
    /\ \A s, b, ids : T!OpenBox(s, b, ids) = OpenBox(s, b, ids)
<1>1. /\ T!Id = Id /\ T!GameRef = GameRef /\ \A c : T!Range(c) = Range(c)
      /\ \A used : T!BordersNext(used) = BordersNext(used)
      /\ \A s : T!Occupied(s) = Occupied(s)
  BY DEF T!Id, Id, T!GameRef, GameRef, T!GameObject, GameObject, T!Range, Range,
         T!BordersNext, BordersNext, T!Occupied, Occupied
<1>2. \A s, c : T!ScriptIds(s, c) = ScriptIds(s, c)
  BY <1>1 DEF T!ScriptIds, ScriptIds
<1>3. \A c, ids : T!ScriptMessages(c, ids) = ScriptMessages(c, ids)
  BY <1>1 DEF T!ScriptMessages, ScriptMessages
<1>4. \A s, c, ids : T!RunScript(s, c, ids) = RunScript(s, c, ids)
  BY <1>3 DEF T!RunScript, RunScript, T!Object, Object, T!Range, Range, T!Id, Id
<1>5. \A s, b : T!OpenIds(s, b) = OpenIds(s, b)
  BY <1>2 DEF T!OpenIds, OpenIds
<1>6. \A s, from, e : T!EntityRemove(s, from, e) = EntityRemove(s, from, e)
  <2>1. \A q, e : T!RemoveFirst(q, e) = RemoveFirst(q, e)
    BY DEF T!RemoveFirst, RemoveFirst, T!RemoveAt, RemoveAt, T!SelectInSeq, SelectInSeq,
           T!Min, Min
  <2> QED
    BY <2>1 DEF T!EntityRemove, EntityRemove
<1>7. \A s, b, ids : T!OpenBox(s, b, ids) = OpenBox(s, b, ids)
  <2> TAKE s, b, ids
  <2> DEFINE t == RunScript(s, Contents[b], ids)
             t2 == T!RunScript(s, Contents[b], ids)
             mark(x) == [x EXCEPT !.opened = @ \cup {b}]
  <2>1. t = t2
    BY <1>4
  <2>2. OpenBox(s, b, ids) =
            IF b \in s.opened THEN s ELSE EntityRemove(mark(t), t.parent[b], b)
    BY DEF OpenBox
  <2>3. T!OpenBox(s, b, ids) =
            IF b \in s.opened THEN s ELSE T!EntityRemove(mark(t2), t2.parent[b], b)
    BY DEF T!OpenBox
  <2> HIDE DEF t, t2, mark
  <2> QED
    BY <1>6, <2>1, <2>2, <2>3
<1> QED
  BY <1>2, <1>4, <1>5, <1>7

\* Table starts as Felt does.
LEMMA SameStart ==
    T!Init => /\ online = {}
              /\ \E ids \in ScriptIds(NewGame, Start) :
                    game = T!Flush(RunScript(NewGame, Start, ids))
<1>1. T!NewGame = NewGame
  BY DEF T!NewGame, NewGame, T!Object, Object, T!Id, Id, T!Piles, Piles,
         T!GameObject, GameObject
<1> QED
  BY <1>1, SameScripts DEF T!Init

-----------------------------------------------------------------------------
(***************************************************************************)
(* The inductive invariant.                                                *)
(***************************************************************************)
ServerOK == Good(game, online) /\ Flushed(game) /\ online \subseteq Player

ClientsOK ==
    /\ clients \subseteq online
    /\ replica \in [Player -> Replica]
    /\ \A p \in Player \ clients : replica[p] = NoReplica

QueuesOK ==
    /\ inbox \in [Player -> Seq(Mail)]
    /\ outbox \in [Player -> Seq(Request)]
    /\ \A p \in Player : Asked(outbox[p], game)

AllCatchUp == \A p \in clients : CatchesUp(replica[p], inbox[p], game)

Inv == ServerOK /\ ClientsOK /\ QueuesOK /\ AllCatchUp

LEMMA InitInv == Init => Inv
<1> SUFFICES ASSUME Init PROVE Inv
  OBVIOUS
<1>1. PICK ids \in ScriptIds(NewGame, Start) : game = T!Flush(RunScript(NewGame, Start, ids))
  BY SameStart DEF Init
<1>2. PICK s : s = RunScript(NewGame, Start, ids)
  OBVIOUS
<1>3. GInv(s, {}) /\ \A e \in Entity : s.r_objects[e] /= 0 => e \in Range(Start)
  BY <1>2, StartInv
<1>4. online = {} /\ clients = {}
  BY SameStart DEF Init
<1>5. /\ \A o \in Object : s.id[o] = IF o \in Range(Start) THEN ids[o] ELSE NewGame.id[o]
      /\ \A e \in Entity :
            s.parent[e] = IF e \in Range(Start) THEN Home[e] ELSE NewGame.parent[e]
      /\ Range(Start) \subseteq Entity
  <2>1. Start \in Scripts /\ NewGame \in State
    BY NewGameInv DEF Scripts, GInvExceptBoxes
  <2>2. ids \in ScriptIds(NewGame, Start)
    OBVIOUS
  <2>3. /\ \A o \in Object : s.id[o] = IF o \in Range(Start) THEN ids[o] ELSE NewGame.id[o]
        /\ \A e \in Entity :
              s.parent[e] = IF e \in Range(Start) THEN Home[e] ELSE NewGame.parent[e]
    BY ONLY <1>2, <2>1, <2>2, RunScriptFields
  <2> QED
    BY <2>1, <2>3, ScriptFacts
<1>6. HeldOK(s)
  BY <1>3 DEF GInv, HandsOK, HeldOK
<1>7. StandsOK(s)
  <2> SUFFICES ASSUME NEW e \in Boards \cup Piles, s.r_objects[e] /= 0
               PROVE  s.parent[e] /= nil
    BY DEF StandsOK
  <2>1. e \in Entity /\ e \in Range(Start)
    BY <1>3 DEF Boards, Piles
  <2>2. Home[e] \in Fields
    BY <2>1, ScriptAssumption
  <2>3. Home[e] /= nil
    BY <2>2, GameAssumption DEF Fields, Object
  <2> QED
    BY <1>5, <2>1, <2>3
<1>8. PlayersOK(s, {})
  <2>1. \A p \in Player : s.id[p] = 0
    BY <1>5, GameAssumption DEF Object, NewGame
  <2> QED
    BY <2>1 DEF PlayersOK
<1>9. Good(s, {})
  BY <1>3, <1>6, <1>7, <1>8 DEF Good, GInv
<1>10. ServerOK
  BY <1>1, <1>2, <1>4, <1>9, FlushGood DEF ServerOK
<1>11. NoReplica \in Replica
  BY DEF NoReplica, Replica
<1>12. ClientsOK
  BY <1>4, <1>11 DEF ClientsOK, Init
<1>13. QueuesOK
  <2>1. <<>> \in Seq(Mail) /\ <<>> \in Seq(Request)
    OBVIOUS
  <2>2. Asked(<<>>, game)
    BY AskedNothing
  <2> QED
    BY <2>1, <2>2 DEF QueuesOK, Init
<1> QED
  BY <1>4, <1>10, <1>12, <1>13 DEF Inv, AllCatchUp

LEMMA UnregisterInv ==
    ASSUME Inv, NEW p \in Player, p \in online, NEW s, Played(game, s, online),
           Unregister(s, p)
    PROVE  Inv'
<1>1. PICK t : t = PlayerDisconnect(s, p)
  OBVIOUS
<1>2. PICK rest : rest = online \ {p}
  OBVIOUS
<1>3. Played(game, t, rest)
  <2>1. Played(s, t, rest)
    BY <1>1, <1>2, PlayerDisconnectPlayed DEF Played
  <2> QED
    BY <2>1, PlayedTrans
<1>4. /\ game' = T!Flush(t) /\ online' = rest
      /\ clients' = clients \ {p}
      /\ replica' = [replica EXCEPT ![p] = NoReplica]
      /\ outbox' = [outbox EXCEPT ![p] = <<>>]
      /\ inbox' = [q \in Player |-> IF q \in clients \ {p} THEN inbox[q] \o t.out ELSE <<>>]
  BY <1>1, <1>2 DEF Unregister, Broadcast, Queued
<1>5. /\ Good(game', rest) /\ Flushed(game') /\ Keeps(t, game')
  <2>1. Good(t, rest)
    BY <1>3 DEF Played
  <2> QED
    BY <1>4, <2>1, FlushGood
<1>6. Keeps(game, game')
  BY <1>3, <1>5 DEF Played, Keeps
<1>7. ASSUME NEW q \in clients \ {p}
      PROVE  /\ inbox[q] \o t.out \in Seq(Mail)
             /\ CatchesUp(replica[q], inbox[q] \o t.out, game')
  <2>1. Flushed(game) /\ inbox[q] \in Seq(Mail) /\ CatchesUp(replica[q], inbox[q], game)
    BY DEF Inv, ServerOK, ClientsOK, QueuesOK, AllCatchUp
  <2> QED
    BY <1>3, <1>4, <2>1, BroadcastCatchesUp
<1>8. ServerOK'
  BY <1>2, <1>4, <1>5 DEF Inv, ServerOK
<1>9. ClientsOK'
  <2>1. NoReplica \in Replica
    BY DEF NoReplica, Replica
  <2> QED
    BY <1>2, <1>4, <2>1 DEF Inv, ClientsOK
<1>10. QueuesOK'
  <2>1. inbox' \in [Player -> Seq(Mail)]
    BY <1>4, <1>7
  <2>2. outbox' \in [Player -> Seq(Request)]
    BY <1>4 DEF Inv, QueuesOK
  <2>3. ASSUME NEW q \in Player PROVE Asked(outbox'[q], game')
    <3>1. CASE q = p
      <4>1. outbox'[q] = <<>>
        BY <1>4, <3>1 DEF Inv, QueuesOK
      <4> QED
        BY <4>1, AskedNothing
    <3>2. CASE q /= p
      <4>1. outbox'[q] = outbox[q] /\ Asked(outbox[q], game)
        BY <1>4, <3>2 DEF Inv, QueuesOK
      <4> QED
        BY <1>6, <4>1, AskedStill
    <3> QED
      BY <3>1, <3>2
  <2> QED
    BY <2>1, <2>2, <2>3 DEF QueuesOK
<1>11. AllCatchUp'
  <2> SUFFICES ASSUME NEW q \in clients \ {p} PROVE CatchesUp(replica'[q], inbox'[q], game')
    BY <1>4 DEF AllCatchUp
  <2>1. q \in Player /\ q /= p
    BY DEF Inv, ClientsOK, ServerOK
  <2>2. replica'[q] = replica[q] /\ inbox'[q] = inbox[q] \o t.out
    BY <1>4, <2>1 DEF Inv, ClientsOK
  <2> QED
    BY <1>7, <2>2
<1> QED
  BY <1>8, <1>9, <1>10, <1>11 DEF Inv

LEMMA LoginInv ==
    ASSUME Inv, NEW p \in Player, Login(p)
    PROVE  Inv'
<1>1. PICK i \in PlayerIds(game, p) :
          LET s == AddPlayer(game, p, i)
          IN  /\ game' = T!Flush(s)
              /\ inbox' = [q \in Player |->
                    CASE q = p -> <<GameMessage(s)>>
                      [] q \in clients \ {p} -> Queued(s, q)
                      [] OTHER -> <<>>]
  BY DEF Login
<1>2. PICK s : s = AddPlayer(game, p, i)
  OBVIOUS
<1>3. PICK on : on = online \cup {p}
  OBVIOUS
<1>4. /\ game' = T!Flush(s) /\ online' = on /\ clients' = clients \cup {p}
      /\ replica' = replica /\ outbox' = outbox
      /\ p \notin online
  BY <1>1, <1>2, <1>3 DEF Login
<1>5. \A q \in Player : /\ q = p => inbox'[q] = <<GameMessage(s)>>
                        /\ q /= p /\ q \in clients => inbox'[q] = inbox[q] \o s.out
                        /\ q /= p /\ q \notin clients => inbox'[q] = <<>>
  BY <1>1, <1>2 DEF Queued
<1>6. DOMAIN inbox' = Player /\ inbox' = [q \in Player |-> inbox'[q]]
  BY <1>1
<1>7. Played(game, s, on)
  BY <1>2, <1>3, AddPlayerPlayed DEF Inv, ServerOK
<1>8. /\ Good(game', on) /\ Flushed(game') /\ Keeps(s, game') /\ Players(game') = Players(s)
      /\ \A e, P : Sync(e, s, P) => Sync(e, game', P)
  BY <1>4, <1>7, FlushGood DEF Played
<1>9. Keeps(game, game')
  BY <1>7, <1>8 DEF Played, Keeps
<1>10. <<GameMessage(s)>> \in Seq(Mail) /\ CatchesUp(replica[p], <<GameMessage(s)>>, game')
  <2>1. PICK P, r, m : P = Players(s) /\ r = Snapshot(s) /\ m = GameMessage(s)
    OBVIOUS
  <2>2. Sync(r, s, P)
    <3>1. Good(s, on)
      BY <1>7 DEF Played
    <3> QED
      BY <2>1, <3>1, SnapshotSync
  <2>3. r \in Replica
    BY <2>2 DEF Sync
  <2>4. m = [self |-> NilRef, method |-> "game", arg |-> r]
    BY <2>1 DEF GameMessage
  <2>5. m \in Mail /\ m.method = "game" /\ m.arg = r
    BY <2>3, <2>4 DEF Mail
  <2>6. replica[p] = NoReplica /\ NoReplica \in Replica
    BY <1>4 DEF Inv, ClientsOK, NoReplica, Replica
  <2>7. Leads(NoReplica, <<>>, NoReplica)
    BY <2>6, LeadsNowhere
  <2>8. Apply(NoReplica, m) = r
    BY <2>5 DEF Apply
  <2>9. Understands(NoReplica, m)
    <3>1. Follows(NoReplica, m)
      BY <2>5 DEF Follows, Fails
    <3>2. Keeps(NoReplica, r)
      BY GameAssumption DEF Keeps, NoReplica, Object
    <3> QED
      BY <2>8, <3>1, <3>2 DEF Understands
  <2>10. Leads(NoReplica, Append(<<>>, m), r)
    <3>1. <<>> \in Seq(Mail)
      OBVIOUS
    <3>2. Leads(NoReplica, Append(<<>>, m), Apply(NoReplica, m))
      BY <2>3, <2>5, <2>7, <2>8, <2>9, <3>1, LeadsOneMore
    <3> QED
      BY <2>8, <3>2
  <2>11. Append(<<>>, m) = <<m>>
    OBVIOUS
  <2>12. Sync(r, game', Players(game'))
    BY <1>8, <2>1, <2>2
  <2> QED
    BY <2>1, <2>5, <2>6, <2>10, <2>11, <2>12 DEF CatchesUp
<1>11. ASSUME NEW q \in clients
       PROVE  /\ inbox[q] \o s.out \in Seq(Mail)
              /\ CatchesUp(replica[q], inbox[q] \o s.out, game')
  <2>1. Flushed(game) /\ inbox[q] \in Seq(Mail) /\ CatchesUp(replica[q], inbox[q], game)
    BY DEF Inv, ServerOK, ClientsOK, QueuesOK, AllCatchUp
  <2> QED
    BY <1>4, <1>7, <2>1, BroadcastCatchesUp
<1>12. clients \subseteq Player /\ p \notin clients
  BY <1>4 DEF Inv, ServerOK, ClientsOK
<1>13. ServerOK'
  BY <1>3, <1>4, <1>8 DEF Inv, ServerOK
<1>14. ClientsOK'
  BY <1>3, <1>4 DEF Inv, ClientsOK
<1>15. QueuesOK'
  <2>1. ASSUME NEW q \in Player PROVE inbox'[q] \in Seq(Mail)
    <3>1. CASE q = p
      BY <1>5, <1>10, <3>1
    <3>2. CASE q /= p /\ q \in clients
      <4>1. inbox'[q] = inbox[q] \o s.out
        BY <1>5, <3>2
      <4> QED
        BY <1>11, <3>2, <4>1
    <3>3. CASE q /= p /\ q \notin clients
      <4>1. inbox'[q] = <<>>
        BY <1>5, <3>3
      <4> QED
        BY <4>1
    <3> QED
      BY <3>1, <3>2, <3>3
  <2>2. \A q \in Player : Asked(outbox[q], game')
    BY <1>9, AskedStill DEF Inv, QueuesOK
  <2> QED
    BY <1>4, <1>6, <2>1, <2>2 DEF Inv, QueuesOK
<1>16. AllCatchUp'
  BY <1>4, <1>5, <1>10, <1>11, <1>12 DEF AllCatchUp
<1> QED
  BY <1>13, <1>14, <1>15, <1>16 DEF Inv

\* The client's process ends: its replica and its mail are gone, and the rest
\* of its requests may be.
LEMMA GoneInv ==
    ASSUME Inv, NEW p \in Player, p \in clients, ClientGone(p)
    PROVE  Inv'
<1>1. PICK n \in 0..Len(outbox[p]) : outbox' = [outbox EXCEPT ![p] = SubSeq(@, 1, n)]
  BY DEF ClientGone
<1>2. /\ clients' = clients \ {p} /\ replica' = [replica EXCEPT ![p] = NoReplica]
      /\ inbox' = [inbox EXCEPT ![p] = <<>>] /\ game' = game /\ online' = online
  BY DEF ClientGone
<1>3. ServerOK' /\ ClientsOK'
  <2>1. NoReplica \in Replica
    BY DEF NoReplica, Replica
  <2> QED
    BY <1>2, <2>1 DEF Inv, ServerOK, ClientsOK
<1>4. outbox[p] \in Seq(Request) /\ Asked(outbox[p], game)
  BY DEF Inv, QueuesOK
<1>5. PICK a : a = SubSeq(outbox[p], 1, n)
  OBVIOUS
<1>6. /\ a \in Seq(Request) /\ Len(a) <= Len(outbox[p])
      /\ \A j \in 1..Len(a) : j \in 1..Len(outbox[p]) /\ a[j] = outbox[p][j]
  BY <1>4, <1>5
<1>7. Asked(a, game)
  <2>1. \A j \in 1..Len(a) : \E k \in 1..Len(outbox[p]) : a[j] = outbox[p][k]
    BY <1>6
  <2> QED
    BY <1>4, <1>6, <2>1, AskedLess
<1>8. outbox' = [outbox EXCEPT ![p] = a]
  BY <1>1, <1>5
<1>9. QueuesOK'
  <2>1. <<>> \in Seq(Mail)
    OBVIOUS
  <2> QED
    BY <1>2, <1>6, <1>7, <1>8, <2>1 DEF Inv, QueuesOK
<1>10. AllCatchUp'
  <2> SUFFICES ASSUME NEW q \in clients \ {p} PROVE CatchesUp(replica[q], inbox[q], game)
    BY <1>2 DEF Inv, AllCatchUp, ClientsOK, QueuesOK, ServerOK
  <2> QED
    BY DEF Inv, AllCatchUp
<1> QED
  BY <1>3, <1>9, <1>10 DEF Inv

LEMMA ReceiveInv ==
    ASSUME Inv, NEW p \in Player, Receive(p)
    PROVE  Inv'
<1>1. p \in clients /\ inbox[p] \in Seq(Mail) /\ inbox[p] /= <<>>
  BY DEF Receive, Inv, QueuesOK
<1>2. PICK r, q : r = replica[p] /\ q = inbox[p]
  OBVIOUS
<1>3. PICK e : Leads(r, q, e) /\ Sync(e, game, Players(game))
  BY <1>1, <1>2 DEF Inv, AllCatchUp, CatchesUp
<1>4. /\ Understands(r, Head(q))
      /\ Apply(r, Head(q)) \in Replica
      /\ Leads(Apply(r, Head(q)), Tail(q), e)
  BY <1>1, <1>2, <1>3, LeadsOn
<1>5. ~Fails(r, Head(q))
  BY <1>4 DEF Understands, Follows
<1>6. PICK r2 : r2 = Apply(r, Head(q))
  OBVIOUS
<1>7. PICK q2 : q2 = Tail(q)
  OBVIOUS
<1>8. /\ replica' = [replica EXCEPT ![p] = r2]
      /\ inbox' = [inbox EXCEPT ![p] = q2]
      /\ UNCHANGED <<game, online, clients, outbox>>
  BY <1>2, <1>5, <1>6, <1>7 DEF Receive
<1>9. q2 \in Seq(Mail)
  BY <1>1, <1>2, <1>7
<1>10. CatchesUp(r2, q2, game)
  BY <1>3, <1>4, <1>6, <1>7 DEF CatchesUp
<1>11. ServerOK' /\ ClientsOK'
  BY <1>1, <1>4, <1>6, <1>8 DEF Inv, ServerOK, ClientsOK
<1>12. QueuesOK'
  BY <1>8, <1>9 DEF Inv, QueuesOK
<1>13. AllCatchUp'
  <2> SUFFICES ASSUME NEW x \in clients PROVE CatchesUp(replica'[x], inbox'[x], game)
    BY <1>8 DEF AllCatchUp
  <2>1. x \in Player
    BY DEF Inv, ServerOK, ClientsOK
  <2>2. CASE x = p
    BY <1>8, <1>10, <2>1, <2>2 DEF Inv, ClientsOK, QueuesOK
  <2>3. CASE x /= p
    BY <1>8, <2>1, <2>3 DEF Inv, ClientsOK, QueuesOK, AllCatchUp
  <2> QED
    BY <2>2, <2>3
<1> QED
  BY <1>11, <1>12, <1>13 DEF Inv

\* What the user can ask of an entity, by its class.
LEMMA ClicksAllowed ==
    ASSUME NEW r, NEW p, NEW e \in Entity, NEW m \in Clicks(r, p, e)
    PROVE  /\ m \in RequestMethod
           /\ m = "drop" => e \in Droppables
           /\ m = "takeItem" => e \in Piles
           /\ m = "open" => e \in Boxes
<1>1. LeftClick(e) = MenuActions(e)
  BY DEF LeftClick, MenuActions
<1>2. CASE m \in LeftClick(e)
  <2>1. CASE e \in Pieces \cup Stones
    BY <1>2, <2>1 DEF LeftClick, RequestMethod, Pieces, Stones, Piles, Boxes
  <2>2. CASE e \in Piles
    BY <1>2, <2>2 DEF LeftClick, RequestMethod, Pieces, Stones, Piles, Boxes
  <2>3. CASE e \in Boxes
    BY <1>2, <2>3 DEF LeftClick, RequestMethod, Pieces, Stones, Piles, Boxes
  <2>4. CASE e \notin Pieces \cup Stones /\ e \notin Piles /\ e \notin Boxes
    BY <1>2, <2>4 DEF LeftClick
  <2> QED
    BY <2>1, <2>2, <2>3, <2>4
<1>3. CASE m \notin LeftClick(e)
  <2>1. m = "drop" /\ e \in Droppables
    BY <1>1, <1>3 DEF Clicks, MouseActions, FieldActions, Droppables
  <2> QED
    BY <2>1 DEF RequestMethod
<1> QED
  BY <1>2, <1>3

LEMMA ClickInv ==
    ASSUME Inv, NEW p \in Player, NEW e \in Entity, Click(p, e)
    PROVE  Inv'
<1>1. PICK m \in Clicks(replica[p], p, e), i \in Id :
          /\ replica[p].objects[i] = e
          /\ outbox' = [outbox EXCEPT ![p] = Append(@, [id |-> i, obj |-> e, method |-> m])]
  BY DEF Click
<1>2. /\ p \in clients /\ Len(outbox[p]) < MaxRequests
      /\ UNCHANGED <<game, online, clients, replica, inbox>>
  BY DEF Click
<1>3. PICK r : r = [id |-> i, obj |-> e, method |-> m]
  OBVIOUS
<1>4. /\ m \in RequestMethod
      /\ m = "drop" => e \in Droppables
      /\ m = "takeItem" => e \in Piles
      /\ m = "open" => e \in Boxes
  BY ClicksAllowed
<1>5. e \notin Stones => game.objects[i] = e
  <2>1. inbox[p] \in Seq(Mail)
    BY DEF Inv, QueuesOK
  <2>2. PICK f : Leads(replica[p], inbox[p], f) /\ Sync(f, game, Players(game))
    BY <1>2 DEF Inv, AllCatchUp, CatchesUp
  <2>3. Keeps(replica[p], f)
    BY <2>1, <2>2, LeadsKeeps
  <2>4. e \notin Stones => f.objects[i] = e
    BY <1>1, <2>3 DEF Keeps
  <2> QED
    BY <2>2, <2>4 DEF Sync
<1>6. RequestOK(r, game)
  BY <1>3, <1>4, <1>5 DEF RequestOK, Request
<1>7. PICK a : a = Append(outbox[p], r)
  OBVIOUS
<1>8. outbox[p] \in Seq(Request) /\ Asked(outbox[p], game)
  BY DEF Inv, QueuesOK
<1>9. Asked(a, game) /\ a \in Seq(Request)
  <2>1. Asked(Append(outbox[p], r), game)
    BY <1>2, <1>6, <1>8, AskedMore
  <2> QED
    BY <1>7, <2>1 DEF Asked
<1>10. outbox' = [outbox EXCEPT ![p] = a]
  BY <1>1, <1>3, <1>7
<1>11. QueuesOK'
  BY <1>2, <1>9, <1>10 DEF Inv, QueuesOK
<1>12. ServerOK' /\ ClientsOK' /\ AllCatchUp'
  BY <1>2 DEF Inv, ServerOK, ClientsOK, AllCatchUp
<1> QED
  BY <1>11, <1>12 DEF Inv

LEMMA ServeInv ==
    ASSUME Inv, NEW p \in Player, Serve(p)
    PROVE  Inv'
<1>1. PICK r : r = Head(outbox[p])
  OBVIOUS
<1>2. PICK o : o = game.objects[r.id]
  OBVIOUS
<1>3. /\ outbox[p] \in Seq(Request) /\ outbox[p] /= <<>> /\ Asked(outbox[p], game)
      /\ p \in online
  BY DEF Serve, Inv, QueuesOK
<1>4. RequestOK(r, game)
  <2>1. r = outbox[p][1] /\ 1 \in 1..Len(outbox[p])
    BY <1>1, <1>3
  <2> QED
    BY <1>3, <2>1 DEF Asked
<1>5. CASE o = nil
  <2>1. Unregister(game, p)
    BY <1>1, <1>2, <1>5 DEF Serve
  <2>2. Played(game, game, online)
    BY PlayedNothing DEF Inv, ServerOK
  <2> QED
    BY <1>3, <2>1, <2>2, UnregisterInv
<1>6. CASE o /= nil
  <2>1. PICK s \in Invoke(game, o, r.method, p) :
            IF s.raised THEN Unregister(s, p)
            ELSE /\ game' = T!Flush(s)
                 /\ Broadcast(s, clients)
                 /\ outbox' = [outbox EXCEPT ![p] = Tail(@)]
                 /\ UNCHANGED <<online, clients, replica>>
    BY <1>1, <1>2, <1>6 DEF Serve
  <2>2. Played(game, s, online)
    <3>1. /\ Good(game, online) /\ p \in Player /\ p \in online /\ RequestOK(r, game)
          /\ o = game.objects[r.id] /\ o /= nil /\ s \in Invoke(game, o, r.method, p)
      BY <1>2, <1>3, <1>4, <1>6 DEF Inv, ServerOK
    <3> QED
      BY ONLY <3>1, InvokePlayed
  <2>3. CASE s.raised
    <3>1. Unregister(s, p)
      BY <2>1, <2>3
    <3> QED
      BY <1>3, <2>2, <3>1, UnregisterInv
  <2>4. CASE ~s.raised
    <3>1. PICK a : a = Tail(outbox[p])
      OBVIOUS
    <3>2. /\ game' = T!Flush(s) /\ UNCHANGED <<online, clients, replica>>
          /\ outbox' = [outbox EXCEPT ![p] = a]
          /\ inbox' = [q \in Player |-> IF q \in clients THEN inbox[q] \o s.out ELSE <<>>]
      BY <2>1, <2>4, <3>1 DEF Broadcast, Queued
    <3>3. /\ Good(game', online) /\ Flushed(game') /\ Keeps(s, game')
      BY <2>2, <3>2, FlushGood DEF Played
    <3>4. Keeps(game, game')
      BY <2>2, <3>3 DEF Played, Keeps
    <3>5. ASSUME NEW q \in clients
          PROVE  /\ inbox[q] \o s.out \in Seq(Mail)
                 /\ CatchesUp(replica[q], inbox[q] \o s.out, game')
      <4>1. Flushed(game) /\ inbox[q] \in Seq(Mail) /\ CatchesUp(replica[q], inbox[q], game)
        BY DEF Inv, ServerOK, ClientsOK, QueuesOK, AllCatchUp
      <4> QED
        BY <2>2, <3>2, <4>1, BroadcastCatchesUp
    <3>6. ServerOK' /\ ClientsOK'
      BY <3>2, <3>3 DEF Inv, ServerOK, ClientsOK
    <3>7. Asked(a, game) /\ a \in Seq(Request)
      <4>1. /\ a \in Seq(Request) /\ Len(a) <= Len(outbox[p])
            /\ \A j \in 1..Len(a) : j + 1 \in 1..Len(outbox[p]) /\ a[j] = outbox[p][j + 1]
        BY <1>3, <3>1
      <4>2. \A j \in 1..Len(a) : \E k \in 1..Len(outbox[p]) : a[j] = outbox[p][k]
        BY <4>1
      <4> QED
        BY <1>3, <4>1, <4>2, AskedLess
    <3>8. QueuesOK'
      <4>1. inbox' \in [Player -> Seq(Mail)]
        BY <3>2, <3>5
      <4>2. outbox' \in [Player -> Seq(Request)]
        BY <3>2, <3>7 DEF Inv, QueuesOK
      <4>3. \A q \in Player : Asked(outbox'[q], game)
        BY <3>2, <3>7 DEF Inv, QueuesOK
      <4> QED
        BY <3>4, <4>1, <4>2, <4>3, AskedStill DEF QueuesOK
    <3>9. AllCatchUp'
      <4> SUFFICES ASSUME NEW q \in clients PROVE CatchesUp(replica[q], inbox'[q], game')
        BY <3>2 DEF AllCatchUp
      <4>1. inbox'[q] = inbox[q] \o s.out
        BY <3>2 DEF Inv, ServerOK, ClientsOK
      <4> QED
        BY <3>5, <4>1
    <3> QED
      BY <3>6, <3>8, <3>9 DEF Inv
  <2> QED
    BY <2>3, <2>4
<1> QED
  BY <1>5, <1>6

LEMMA NextInv == Inv /\ [Next]_vars => Inv'
<1> SUFFICES ASSUME Inv, [Next]_vars PROVE Inv'
  OBVIOUS
<1>1. CASE UNCHANGED vars
  <2>1. UNCHANGED <<game, online, clients, replica, inbox, outbox>>
    BY <1>1 DEF vars
  <2> QED
    BY <2>1 DEF Inv, ServerOK, ClientsOK, QueuesOK, AllCatchUp
<1>2. ASSUME NEW p \in Player, Login(p) PROVE Inv'
  BY <1>2, LoginInv
<1>3. ASSUME NEW p \in Player, Receive(p) PROVE Inv'
  BY <1>3, ReceiveInv
<1>4. ASSUME NEW p \in Player, NEW e \in Entity, Click(p, e) PROVE Inv'
  BY <1>4, ClickInv
<1>5. ASSUME NEW p \in Player, Serve(p) PROVE Inv'
  BY <1>5, ServeInv
<1>6. ASSUME NEW p \in Player, Quit(p) PROVE Inv'
  BY <1>6, GoneInv DEF Quit
<1>7. ASSUME NEW p \in Player, Cull(p) PROVE Inv'
  <2>1. p \in online /\ Unregister(game, p)
    BY <1>7 DEF Cull
  <2>2. Played(game, game, online)
    BY PlayedNothing DEF Inv, ServerOK
  <2> QED
    BY <2>1, <2>2, UnregisterInv
<1> QED
  BY <1>1, <1>2, <1>3, <1>4, <1>5, <1>6, <1>7 DEF Next

-----------------------------------------------------------------------------
(***************************************************************************)
(* The theorems.                                                           *)
(***************************************************************************)

\* Whatever the users click, whoever connects, quits or is culled, and
\* whichever ids are reused, every running client can handle the mail in its
\* inbox and is in step with the server's game when it has.
THEOREM Invariance == Spec => []Inv
<1>1. Init => Inv
  BY InitInv
<1>2. Inv /\ [Next]_vars => Inv'
  BY NextInv
<1> QED
  BY <1>1, <1>2, PTL DEF Spec

\* Replicas and requests keep their types, requests their bound, and no
\* running client is unknown to the server.
THEOREM TypeCorrect == Spec => []TypeOK
<1>1. Inv => TypeOK
  <2> SUFFICES ASSUME Inv PROVE TypeOK
    OBVIOUS
  <2>1. ASSUME NEW p \in Player
        PROVE  Len(outbox[p]) <= MaxRequests /\ Range(outbox[p]) \subseteq Request
    <3>1. Asked(outbox[p], game)
      BY DEF Inv, QueuesOK
    <3>2. outbox[p] \in Seq(Request)
      BY <3>1 DEF Asked
    <3> QED
      BY <3>1, <3>2 DEF Asked, Range
  <2> QED
    BY <2>1 DEF TypeOK, Inv, ServerOK, ClientsOK
<1> QED
  BY <1>1, Invariance, PTL

\* The replica after the first n messages of the inbox.
LEMMA AfterRuns ==
    ASSUME Inv, NEW p \in Player, NEW R, Run(replica[p], inbox[p], R), NEW n \in 0..Len(inbox[p])
    PROVE  After(p, n) = R[n]
<1>1. PICK r, q : r = replica[p] /\ q = inbox[p]
  OBVIOUS
<1>2. q \in Seq(Mail) /\ n \in 0..Len(q) /\ Run(r, q, R)
  BY <1>1 DEF Inv, QueuesOK
<1>3. PICK a : a = SubSeq(q, 1, n)
  OBVIOUS
<1>4. /\ SubSeq(q, 1, n) \in Seq(Mail) /\ Len(SubSeq(q, 1, n)) = n
      /\ Leads(r, SubSeq(q, 1, n), R[n])
  BY <1>2, RunPrefix
<1>5. PICK Q : Run(r, a, Q) /\ Q[n] = R[n]
  BY <1>3, <1>4 DEF Leads
<1>6. a \in Seq(Mail) /\ n = Len(a)
  BY <1>3, <1>4
<1>7. FoldLeft(Apply, r, a) = Q[n]
  BY ONLY <1>5, <1>6, RunFolds
<1> QED
  BY <1>1, <1>3, <1>5, <1>7 DEF After

\* No client fails on a message that is on its way to it, and every reference
\* in it resolves to the object the server meant, for any number of clients,
\* any scripts and any reuse of ids.
THEOREM MessagesAlwaysResolve == Spec => []MessagesResolve
<1>1. Inv => MessagesResolve
  <2> SUFFICES ASSUME Inv, NEW p \in clients, NEW n \in DOMAIN inbox[p]
               PROVE  Follows(After(p, n - 1), inbox[p][n])
    BY DEF MessagesResolve, Follows
  <2>1. p \in Player /\ inbox[p] \in Seq(Mail)
    BY DEF Inv, ServerOK, ClientsOK, QueuesOK
  <2>2. n \in 1..Len(inbox[p]) /\ n - 1 \in 0..Len(inbox[p])
    BY <2>1
  <2>3. PICK R : Run(replica[p], inbox[p], R)
    BY DEF Inv, AllCatchUp, CatchesUp, Leads
  <2>4. After(p, n - 1) = R[n - 1]
    BY <2>1, <2>2, <2>3, AfterRuns
  <2>5. Understands(R[n - 1], inbox[p][n])
    BY <2>2, <2>3 DEF Run
  <2> QED
    BY <2>4, <2>5 DEF Understands
<1> QED
  BY <1>1, Invariance, PTL

\* A client that has handled everything on its way to it has the server's
\* game, whenever it joined: what exists, who plays, who holds what, and
\* where everything but boxes is.
THEOREM ReplicasAlwaysConverge == Spec => []ReplicasConverge
<1>1. Inv => ReplicasConverge
  <2> SUFFICES ASSUME Inv, NEW p \in clients
               PROVE  Agree(After(p, Len(inbox[p])), game, Entity \ Boxes)
    BY DEF ReplicasConverge
  <2>1. p \in Player /\ inbox[p] \in Seq(Mail)
    BY DEF Inv, ServerOK, ClientsOK, QueuesOK
  <2>2. PICK e : Leads(replica[p], inbox[p], e) /\ Sync(e, game, Players(game))
    BY DEF Inv, AllCatchUp, CatchesUp
  <2>3. PICK R : Run(replica[p], inbox[p], R) /\ R[Len(inbox[p])] = e
    BY <2>2 DEF Leads
  <2>4. Len(inbox[p]) \in 0..Len(inbox[p])
    BY <2>1
  <2>5. After(p, Len(inbox[p])) = e
    BY <2>1, <2>3, <2>4, AfterRuns
  <2> QED
    BY <2>2, <2>5 DEF Agree, Sync, Players
<1> QED
  BY <1>1, Invariance, PTL

-----------------------------------------------------------------------------
(***************************************************************************)
(* The server's half of Felt as a behaviour of Table.                      *)
(***************************************************************************)

\* An error changes nothing for the disconnection that follows it.
LEMMA DisconnectRaised ==
    ASSUME NEW s \in State, NEW p \in Player, s.held[p] \in Object \cup {nil}
    PROVE  T!Flush(PlayerDisconnect(Raise(s), p)) = T!Flush(PlayerDisconnect(s, p))
<1>1. ASSUME NEW x \in State PROVE T!Flush(Raise(x)) = T!Flush(x)
  BY DEF T!Flush, Raise, State
<1>2. ASSUME NEW x \in State
      PROVE  /\ Raise(x) \in State /\ Raise(x).held = x.held
             /\ Raise(x).id = x.id /\ Raise(x).r_objects = x.r_objects
  BY DEF Raise, State
<1>3. ASSUME NEW x \in State, NEW o PROVE RefTo(Raise(x), o) = RefTo(x, o)
  BY <1>2 DEF RefTo, Registered
<1>4. ASSUME NEW x \in State, NEW a, NEW m, NEW b
      PROVE  Send(Raise(x), a, m, b) = Raise(Send(x, a, m, b))
  BY DEF Send, Raise, State
<1>5. ASSUME NEW x \in State, NEW e \in Object, NEW none, none = nil
      PROVE  /\ SetHeldBy(Raise(x), e, none) = Raise(SetHeldBy(x, e, none))
             /\ SetHeldBy(x, e, none) \in State
  <2> DEFINE y == [x EXCEPT !.held_by[e] = none]
             z == [Raise(x) EXCEPT !.held_by[e] = none]
  <2>1. z = Raise(y)
    BY DEF Raise, State
  <2>2. y \in State
    BY <1>5 DEF State
  <2>3. SetHeldBy(x, e, none) = Send(y, RefTo(y, e), "set held_by", RefTo(y, none))
    BY DEF SetHeldBy
  <2>4. SetHeldBy(Raise(x), e, none) = Send(z, RefTo(z, e), "set held_by", RefTo(z, none))
    BY DEF SetHeldBy
  <2>5. SetHeldBy(x, e, none) \in State
    BY <1>5, SetHeldByFields
  <2> HIDE DEF y, z
  <2>6. RefTo(z, e) = RefTo(y, e) /\ RefTo(z, none) = RefTo(y, none)
    BY <1>3, <2>1, <2>2
  <2>7. PICK a, b, m : a = RefTo(y, e) /\ b = RefTo(y, none) /\ m = "set held_by"
    OBVIOUS
  <2>8. Send(z, a, m, b) = Raise(Send(y, a, m, b))
    BY <1>4, <2>1, <2>2
  <2> QED
    BY <2>3, <2>4, <2>5, <2>6, <2>7, <2>8
<1>6. ASSUME NEW x \in State, NEW none, none = nil
      PROVE  /\ SetHeld(Raise(x), p, none) = Raise(SetHeld(x, p, none))
             /\ SetHeld(x, p, none) \in State
  <2> DEFINE y == [x EXCEPT !.held[p] = none]
             z == [Raise(x) EXCEPT !.held[p] = none]
  <2>1. z = Raise(y)
    BY DEF Raise, State
  <2>2. y \in State
    BY <1>6 DEF State
  <2>3. SetHeld(x, p, none) = Send(y, RefTo(y, p), "set held", RefTo(y, none))
    BY DEF SetHeld
  <2>4. SetHeld(Raise(x), p, none) = Send(z, RefTo(z, p), "set held", RefTo(z, none))
    BY DEF SetHeld
  <2>5. SetHeld(x, p, none) \in State
    BY <1>6, SetHeldFields
  <2> HIDE DEF y, z
  <2>6. RefTo(z, p) = RefTo(y, p) /\ RefTo(z, none) = RefTo(y, none)
    BY <1>3, <2>1, <2>2
  <2>7. PICK a, b, m : a = RefTo(y, p) /\ b = RefTo(y, none) /\ m = "set held"
    OBVIOUS
  <2>8. Send(z, a, m, b) = Raise(Send(y, a, m, b))
    BY <1>4, <2>1, <2>2
  <2> QED
    BY <2>3, <2>4, <2>5, <2>6, <2>7, <2>8
<1>7. CASE s.held[p] = nil
  <2>1. PlayerDisconnect(s, p) = s /\ PlayerDisconnect(Raise(s), p) = Raise(s)
    BY <1>2, <1>7 DEF PlayerDisconnect
  <2> QED
    BY <1>1, <2>1
<1>8. CASE s.held[p] /= nil
  <2>1. PICK none : none = nil
    OBVIOUS
  <2>2. PICK e \in Object : e = s.held[p]
    BY <1>8
  <2>3. /\ PlayerDisconnect(s, p) = SetHeld(SetHeldBy(s, e, none), p, none)
        /\ PlayerDisconnect(Raise(s), p) = SetHeld(SetHeldBy(Raise(s), e, none), p, none)
    BY <1>2, <1>8, <2>1, <2>2 DEF PlayerDisconnect
  <2>4. PICK x \in State : x = SetHeldBy(s, e, none) /\ SetHeldBy(Raise(s), e, none) = Raise(x)
    BY <1>5, <2>1
  <2>5. PICK y \in State : y = SetHeld(x, p, none) /\ SetHeld(Raise(x), p, none) = Raise(y)
    BY <1>6, <2>1
  <2> QED
    BY <1>1, <2>3, <2>4, <2>5
<1> QED
  BY <1>7, <1>8

(***************************************************************************)
(* Felt and Table.  The one thing Felt does that Table does not describe:  *)
(* a stone was deleted, its id went to a player, and a late pickup of the  *)
(* stone reaches that player, who then holds the player that asked.        *)
(***************************************************************************)
Misled ==
    /\ Stones /= {}
    /\ \E p \in online, q \in Player :
          /\ Registered(game, q)
          /\ game' = T!Flush(PlayerPickup(game, q, p))
    /\ UNCHANGED online

LEMMA FinishMaps ==
    ASSUME Inv, NEW p \in Player, NEW s,
           \/ s.raised /\ Unregister(s, p)
           \/ ~s.raised /\ game' = T!Flush(s) /\ UNCHANGED online
    PROVE  T!Finish(s, p)
BY SameMethods DEF T!Finish, Unregister

LEMMA LeaveMaps ==
    ASSUME Inv, NEW p \in Player, p \in online, Unregister(game, p)
    PROVE  T!Next
<1>1. T!Leave(p)
  BY SameMethods DEF T!Leave, Unregister
<1> QED
  BY <1>1 DEF T!Next

LEMMA ServeMaps ==
    ASSUME Inv, NEW p \in Player, Serve(p)
    PROVE  T!Next \/ Misled
<1>1. PICK r : r = Head(outbox[p])
  OBVIOUS
<1>2. PICK o : o = game.objects[r.id]
  OBVIOUS
<1>3. /\ outbox[p] \in Seq(Request) /\ outbox[p] /= <<>> /\ Asked(outbox[p], game)
      /\ p \in online /\ game \in State /\ RegistryOK(game)
  BY DEF Serve, Inv, QueuesOK, ServerOK, Good
<1>4. RequestOK(r, game)
  <2>1. r = outbox[p][1] /\ 1 \in 1..Len(outbox[p])
    BY <1>1, <1>3
  <2> QED
    BY <1>3, <2>1 DEF Asked
<1>5. CASE o = nil
  <2>1. Unregister(game, p)
    BY <1>1, <1>2, <1>5 DEF Serve
  <2> QED
    BY <1>3, <2>1, LeaveMaps
<1>6. CASE o /= nil
  <2>1. PICK s \in Invoke(game, o, r.method, p) :
            \/ s.raised /\ Unregister(s, p)
            \/ ~s.raised /\ game' = T!Flush(s) /\ UNCHANGED online
    BY <1>1, <1>2, <1>6 DEF Serve
  <2>2. T!Finish(s, p)
    BY <2>1, FinishMaps
  <2>3. /\ r.id \in Id /\ o \in Object /\ Registered(game, o)
        /\ r.method \in RequestMethod /\ r.obj \in Entity
    <3>1. r.id \in Id /\ r.method \in RequestMethod /\ r.obj \in Entity
      BY <1>4 DEF RequestOK, Request
    <3>2. o \in Object
      BY <1>2, <1>3, <1>6, <3>1 DEF State
    <3>3. game.r_objects[o] = r.id
      BY <1>2, <1>3, <1>6, <3>1 DEF RegistryOK
    <3> QED
      BY <3>1, <3>2, <3>3 DEF Registered, Id
  <2>4. r.obj \notin Stones => o = r.obj
    BY <1>2, <1>4 DEF RequestOK
  <2>5. T!Registered(game, o)
    BY <2>3, SameMethods
  <2>6. CASE r.method = "pickup" /\ o \in Tokens
    <3>1. o \in Entity /\ o \notin Player
      BY <2>6, GameAssumption DEF Tokens, Pieces, Stones, Piles
    <3>2. s = T!TokenPickup(game, o, p)
      BY <2>6, <3>1, SameMethods DEF Invoke
    <3>3. o \in T!Tokens
      BY <2>6 DEF T!Tokens, T!Pieces, T!Stones, T!Piles, Tokens, Pieces, Stones, Piles
    <3>4. T!RequestPickup(p, o)
      BY <1>3, <2>2, <2>5, <3>2, <3>3 DEF T!RequestPickup
    <3> QED
      BY <3>1, <3>4 DEF T!Next
  <2>7. CASE r.method = "pickup" /\ o \in Player
    <3>1. o \notin Entity /\ o \notin Tokens
      BY <2>7, GameAssumption DEF Tokens, Pieces, Stones, Piles
    <3>2. s = PlayerPickup(game, o, p)
      BY <2>7, <3>1 DEF Invoke
    <3>3. Stones /= {}
      BY <2>3, <2>4, <3>1
    <3>4. game.raised = FALSE
      BY DEF Inv, ServerOK, Flushed
    <3>5. s.raised = FALSE
      <4>1. PICK u : u = SetHeld(game, o, p)
        OBVIOUS
      <4>2. u.raised = game.raised
        BY <1>3, <4>1 DEF SetHeld, Send, State
      <4>3. s = SetHeldBy(u, p, o)
        BY <3>2, <4>1 DEF PlayerPickup
      <4>4. u \in State
        <5>1. p \in Object \cup {nil}
          BY DEF Object
        <5> QED
          BY <1>3, <2>7, <4>1, <5>1, SetHeldFields
      <4>5. s.raised = u.raised
        BY <4>3, <4>4 DEF SetHeldBy, Send, State
      <4> QED
        BY <3>4, <4>2, <4>5
    <3>6. game' = T!Flush(s) /\ UNCHANGED online
      BY <2>1, <3>5
    <3> QED
      BY <1>3, <2>3, <2>7, <3>2, <3>3, <3>6 DEF Misled
  <2>8. CASE r.method = "pickup" /\ o \notin Tokens /\ o \notin Player
    <3>1. s = Raise(game)
      BY <2>8 DEF Invoke
    <3>2. s.raised = TRUE
      BY <1>3, <3>1 DEF Raise, State
    <3>3. Unregister(s, p)
      BY <2>1, <3>2
    <3>4. game' = T!Flush(PlayerDisconnect(s, p)) /\ online' = online \ {p}
      BY <3>3 DEF Unregister
    <3>5. game.held[p] \in Object \cup {nil}
      BY <1>3 DEF State
    <3>6. game' = T!Flush(PlayerDisconnect(game, p))
      BY <1>3, <3>1, <3>4, <3>5, DisconnectRaised
    <3>7. T!Leave(p)
      BY <1>3, <3>4, <3>6, SameMethods DEF T!Leave
    <3> QED
      BY <3>7 DEF T!Next
  <2>9. CASE r.method = "drop"
    <3>1. s = T!Drop(game, o, p)
      BY <2>9, SameMethods DEF Invoke
    <3>2. r.obj \in Droppables
      BY <1>4, <2>9 DEF RequestOK
    <3>3. r.obj \notin Stones
      BY <3>2 DEF Droppables, Fields, Boards, Pieces, Piles, Stones
    <3>4. o \in T!Droppables /\ o \in Entity
      BY <2>3, <2>4, <3>2, <3>3 DEF T!Droppables, T!Fields, T!Boards, T!Pieces, T!Piles,
                             Droppables, Fields, Boards, Pieces, Piles
    <3>5. T!RequestDrop(p, o)
      BY <1>3, <2>2, <2>5, <3>1, <3>4 DEF T!RequestDrop
    <3> QED
      BY <3>4, <3>5 DEF T!Next
  <2>10. CASE r.method = "takeItem"
    <3>1. s \in {TakeItem(game, o, p, x, i) : x \in {y \in Stones : game.id[y] = 0},
                                              i \in BordersNext(Occupied(game))}
      BY <2>10 DEF Invoke
    <3>2. PICK x \in Stones, i \in BordersNext(Occupied(game)) :
              game.id[x] = 0 /\ s = TakeItem(game, o, p, x, i)
      BY <3>1
    <3>3. r.obj \in Piles
      BY <1>4, <2>10 DEF RequestOK
    <3>4. r.obj \notin Stones
      BY <3>3 DEF Piles, Stones
    <3>5. o \in T!Piles /\ o \in Entity
      BY <2>3, <2>4, <3>3, <3>4 DEF T!Piles, Piles
    <3>6. x \in T!Stones /\ i \in T!BordersNext(T!Occupied(game))
      BY <3>2, SameMethods DEF T!Stones, Stones
    <3>7. T!Finish(T!TakeItem(game, o, p, x, i), p)
      BY <2>2, <3>2, SameMethods
    <3>8. T!RequestTakeItem(p, o)
      BY <1>3, <2>5, <3>2, <3>5, <3>6, <3>7 DEF T!RequestTakeItem
    <3> QED
      BY <3>5, <3>8 DEF T!Next
  <2>11. CASE r.method = "open"
    <3>1. s \in {OpenBox(game, o, ids) : ids \in OpenIds(game, o)}
      BY <2>11 DEF Invoke
    <3>2. PICK ids \in OpenIds(game, o) : s = OpenBox(game, o, ids)
      BY <3>1
    <3>3. r.obj \in Boxes
      BY <1>4, <2>11 DEF RequestOK
    <3>4. r.obj \notin Stones
      BY <3>3 DEF Boxes, Stones
    <3>5. o \in T!Boxes /\ o \in Entity
      BY <2>3, <2>4, <3>3, <3>4 DEF T!Boxes, Boxes
    <3>6. ids \in T!OpenIds(game, o) /\ T!Finish(T!OpenBox(game, o, ids), p)
      BY <2>2, <3>2, SameScripts
    <3>7. T!RequestOpen(p, o)
      BY <1>3, <2>5, <3>5, <3>6 DEF T!RequestOpen
    <3> QED
      BY <3>5, <3>7 DEF T!Next
  <2> QED
    BY <2>3, <2>6, <2>7, <2>8, <2>9, <2>10, <2>11 DEF RequestMethod
<1> QED
  BY <1>5, <1>6

LEMMA StepMaps ==
    ASSUME Inv, [Next]_vars
    PROVE  [T!Next \/ Misled]_(T!vars)
<1>1. CASE UNCHANGED vars
  BY <1>1 DEF vars, T!vars
<1>2. ASSUME NEW p \in Player, Login(p) PROVE T!Next
  <2>1. T!Login(p)
    BY <1>2, SameMethods DEF Login, T!Login
  <2> QED
    BY <2>1 DEF T!Next
<1>3. ASSUME NEW p \in Player, ClientGone(p) PROVE UNCHANGED T!vars
  BY <1>3 DEF ClientGone, T!vars
<1>4. ASSUME NEW p \in Player, Receive(p) PROVE UNCHANGED T!vars
  BY <1>3, <1>4 DEF Receive, T!vars
<1>5. ASSUME NEW p \in Player, NEW e \in Entity, Click(p, e) PROVE UNCHANGED T!vars
  BY <1>5 DEF Click, T!vars
<1>6. ASSUME NEW p \in Player, Cull(p) PROVE T!Next
  BY <1>6, LeaveMaps DEF Cull
<1>7. ASSUME NEW p \in Player, Serve(p) PROVE T!Next \/ Misled
  BY <1>7, ServeMaps
<1>8. ASSUME NEW p \in Player, Quit(p) PROVE UNCHANGED T!vars
  BY <1>3, <1>8 DEF Quit
<1> QED
  BY <1>1, <1>2, <1>4, <1>5, <1>6, <1>7, <1>8 DEF Next

\* The server's half of every behaviour is one of Table's, but for pickups
\* that reach a player.
THEOREM AlmostImplementsTable == Spec => T!Init /\ [][T!Next \/ Misled]_(T!vars)
<1>1. Init => T!Init
  BY DEF Init
<1>2. Inv /\ [Next]_vars => [T!Next \/ Misled]_(T!vars)
  BY StepMaps
<1> QED
  BY <1>1, <1>2, Invariance, PTL DEF Spec

\* Where nothing is ever deleted, as in the chess box, the running system
\* implements Table, whatever the users click and whoever comes and goes.
THEOREM ImplementsTableWithoutStones ==
    ASSUME Stones = {}
    PROVE  Spec => ImplementsTable
<1>1. Init => T!Init
  BY DEF Init
<1>2. Inv /\ [Next]_vars => [T!Next]_(T!vars)
  <2> SUFFICES ASSUME Inv, [Next]_vars PROVE [T!Next]_(T!vars)
    OBVIOUS
  <2>1. [T!Next \/ Misled]_(T!vars)
    BY StepMaps
  <2>2. ~Misled
    BY DEF Misled
  <2> QED
    BY <2>1, <2>2
<1> QED
  BY <1>1, <1>2, Invariance, PTL DEF Spec, ImplementsTable, T!Spec
=============================================================================
