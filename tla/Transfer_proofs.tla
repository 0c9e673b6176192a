--------------------------- MODULE Transfer_proofs ---------------------------
(***************************************************************************)
(* Proofs about the two halves of a TCP connection.                        *)
(*                                                                         *)
(* The receiving half: for any window, segment size, threshold and stream, *)
(* and whatever the peer sends within the window and the user does in its  *)
(* callback, the user gets the stream in order, and the window is kept and *)
(* accounted for.  The stream is numbers, so a piece of it is a run of     *)
(* numbers; segments and queues of them are shown to stay pieces of it     *)
(* through every cut, and then each call to keep the invariant Good.       *)
(*                                                                         *)
(* The sending half: for any buffer, window and segment size, and whatever *)
(* is lost, repeated or late but the peer's FIN, the queues hold each byte *)
(* that is not acknowledged once, and what is sent fits in the window the  *)
(* peer told of.  The two queues are one line of segments; it is shown to  *)
(* stay one through every retransmission, and the acknowledgments on their *)
(* way never to tell of more room than there is (Sound, SendInv).          *)
(***************************************************************************)
EXTENDS TcpReceive, TcpSend, Lemmas

\* n numbers from a on.
Run(a, n) == [i \in 1 .. n |-> a + i - 1]

\* Two runs that follow each other are one: how pieces of the stream are put together.
LEMMA RunsJoin ==
  ASSUME NEW a \in Nat, NEW n \in Nat, NEW m \in Nat
  PROVE  /\ Run(a, n) \in Seq(Nat) /\ Len(Run(a, n)) = n
         /\ Run(a, n) \o Run(a + n, m) = Run(a, n + m)
         /\ a \in Nat \ {0} => Run(a, n) \in Seq(Nat \ {0})
  <1>1. \A k \in Nat, i \in 1 .. m + n : k + i - 1 \in Nat
    OBVIOUS
  <1>2. Run(a, n) \in Seq(Nat) /\ Len(Run(a, n)) = n /\ \A i \in 1 .. n : Run(a, n)[i] = a + i - 1
    BY <1>1 DEF Run
  <1>3. /\ Run(a + n, m) \in Seq(Nat) /\ Len(Run(a + n, m)) = m
        /\ \A i \in 1 .. m : Run(a + n, m)[i] = a + n + i - 1
    BY <1>1 DEF Run
  <1>4. Run(a, n + m) \in Seq(Nat) /\ Len(Run(a, n + m)) = n + m
    BY <1>1 DEF Run
  <1>5. \A i \in 1 .. n + m : Run(a, n + m)[i] = a + i - 1
    BY DEF Run
  <1> DEFINE r == Run(a, n)
             s == Run(a + n, m)
             t == Run(a, n + m)
             j == r \o s
  <1>6. /\ j \in Seq(Nat) /\ Len(j) = n + m
        /\ \A i \in 1 .. n + m : j[i] = IF i <= n THEN r[i] ELSE s[i - n]
    <2>1. r \in Seq(Nat) /\ s \in Seq(Nat) /\ Len(r) = n /\ Len(s) = m
      BY <1>2, <1>3
    <2> HIDE DEF r, s
    <2> QED  BY <2>1, Concatenation
  <1> HIDE DEF r, s, t, j
  <1>7. ASSUME NEW i \in 1 .. n + m PROVE j[i] = t[i]
    <2>0. t[i] = a + i - 1
      BY <1>5 DEF t
    <2>1. CASE i <= n
      <3>1. i \in 1 .. n
        BY <2>1
      <3> QED  BY <1>2, <1>6, <2>0, <2>1, <3>1 DEF r
    <2>2. CASE i > n
      <3>1. i - n \in 1 .. m /\ ~(i <= n) /\ a + n + (i - n) - 1 = a + i - 1
        BY <2>2
      <3>2. s[i - n] = a + n + (i - n) - 1
        BY <1>3, <3>1 DEF s
      <3> QED  BY <1>6, <2>0, <3>1, <3>2
    <2> QED  BY <2>1, <2>2
  <1>8. r \o s = t
    <2>1. t \in Seq(Nat) /\ Len(t) = n + m
      BY <1>4 DEF t
    <2>2. j = t
      BY <1>6, <1>7, <2>1, SameSequence
    <2> QED  BY <2>2 DEF j
  <1>9. a \in Nat \ {0} => Run(a, n) \in Seq(Nat \ {0})
    <2>1. a \in Nat \ {0} => \A i \in 1 .. n : a + i - 1 \in Nat \ {0}
      OBVIOUS
    <2> QED  BY <2>1 DEF Run
  <1> QED  BY <1>2, <1>8, <1>9 DEF r, s, t

\* Pieces that follow each other make one when they are put together.
Following(w, at) ==
    /\ w \in Seq(Seq(Nat)) /\ Len(w) > 0
    /\ at \in [1 .. Len(w) + 1 -> Nat]
    /\ \A i \in 1 .. Len(w) : at[i] <= at[i + 1] /\ w[i] = Run(at[i], at[i + 1] - at[i])

\* FlattenSeq puts pieces that follow each other together.
LEMMA FlattenRuns ==
  ASSUME NEW w, NEW at, Following(w, at)
  PROVE  FlattenSeq(w) = Run(at[1], at[Len(w) + 1] - at[1]) /\ at[1] <= at[Len(w) + 1]
  <1> DEFINE m == Len(w)
             Wanted(f) == f = [i \in 1 .. m |-> IF i = 1 THEN w[i] ELSE f[i - 1] \o w[i]]
             g == [i \in 1 .. m |-> Run(at[1], at[i + 1] - at[1])]
             T == {k \in Nat : k + 1 \in 1 .. m => at[1] <= at[k + 2]}
  <1>0. /\ w \in Seq(Seq(Nat)) /\ m \in Nat /\ m > 0 /\ at \in [1 .. m + 1 -> Nat] /\ DOMAIN w = 1 .. m
        /\ \A i \in 1 .. m : at[i] <= at[i + 1] /\ w[i] = Run(at[i], at[i + 1] - at[i])
    BY DEF Following
  <1> HIDE DEF m
  <1>1. \A i \in 1 .. m + 1 : at[i] \in Nat
    BY <1>0
  <1>2. Nat \subseteq T
    <2>1. 0 \in T
      <3>1. 1 \in 1 .. m => at[1] <= at[1 + 1]
        BY <1>0
      <3> QED  BY <3>1
    <2>2. ASSUME NEW k \in Nat, k \in T PROVE k + 1 \in T
      <3> SUFFICES ASSUME (k + 1) + 1 \in 1 .. m PROVE at[1] <= at[(k + 1) + 2]
        OBVIOUS
      <3>1. k + 1 \in 1 .. m /\ k + 2 \in 1 .. m /\ (k + 2) + 1 = (k + 1) + 2
        BY <1>0
      <3>2. at[1] <= at[k + 2]
        BY <2>2, <3>1
      <3>3. at[k + 2] <= at[(k + 1) + 2]
        BY <1>0, <3>1
      <3>4. at[1] \in Nat /\ at[k + 2] \in Nat /\ at[(k + 1) + 2] \in Nat
        <4>1. 1 \in 1 .. m + 1 /\ k + 2 \in 1 .. m + 1 /\ (k + 1) + 2 \in 1 .. m + 1
          BY <1>0, <3>1
        <4> QED  BY <1>1, <4>1
      <3> QED  BY <3>2, <3>3, <3>4
    <2> HIDE DEF T
    <2> QED  BY <2>1, <2>2, Induct
  <1>3. \A i \in 1 .. m : at[1] <= at[i + 1]
    <2> SUFFICES ASSUME NEW i \in 1 .. m PROVE at[1] <= at[i + 1]
      OBVIOUS
    <2>1. i - 1 \in T /\ (i - 1) + 1 \in 1 .. m /\ (i - 1) + 2 = i + 1
      BY <1>2
    <2> QED  BY <2>1
  <1> HIDE DEF T
  <1>4. \A i \in 2 .. m : Run(at[1], at[i] - at[1]) \o Run(at[i], at[i + 1] - at[i]) = Run(at[1], at[i + 1] - at[1])
    <2> SUFFICES ASSUME NEW i \in 2 .. m
                 PROVE  Run(at[1], at[i] - at[1]) \o Run(at[i], at[i + 1] - at[i]) = Run(at[1], at[i + 1] - at[1])
      OBVIOUS
    <2>1. i - 1 \in 1 .. m /\ i \in 1 .. m + 1 /\ i + 1 \in 1 .. m + 1 /\ 1 \in 1 .. m + 1 /\ (i - 1) + 1 = i /\ i \in 1 .. m
      BY <1>0
    <2>2. at[1] \in Nat /\ at[i] \in Nat /\ at[i + 1] \in Nat
      BY <1>1, <2>1
    <2>3. at[1] <= at[i] /\ at[i] <= at[i + 1]
      BY <1>0, <1>3, <2>1
    <2> DEFINE x == at[i] - at[1]
               y == at[i + 1] - at[i]
    <2>4. x \in Nat /\ y \in Nat /\ at[1] + x = at[i] /\ x + y = at[i + 1] - at[1]
      BY <2>2, <2>3
    <2> HIDE DEF x, y
    <2>5. Run(at[1], x) \o Run(at[1] + x, y) = Run(at[1], x + y)
      BY <2>2, <2>4, RunsJoin
    <2> QED  BY <2>4, <2>5 DEF x, y
  <1>5. Wanted(g)
    <2>1. \A i \in 1 .. m : g[i] = IF i = 1 THEN w[i] ELSE g[i - 1] \o w[i]
      <3> SUFFICES ASSUME NEW i \in 1 .. m PROVE g[i] = IF i = 1 THEN w[i] ELSE g[i - 1] \o w[i]
        OBVIOUS
      <3>1. CASE i = 1
        BY <1>0, <3>1
      <3>2. CASE i # 1
        <4>1. i \in 2 .. m /\ i - 1 \in 1 .. m /\ (i - 1) + 1 = i
          BY <1>0, <3>2
        <4>2. g[i - 1] = Run(at[1], at[i] - at[1])
          BY <4>1
        <4>3. w[i] = Run(at[i], at[i + 1] - at[i])
          BY <1>0
        <4> QED  BY <1>4, <3>2, <4>1, <4>2, <4>3
      <3> QED  BY <3>1, <3>2
    <2>2. g = [i \in 1 .. m |-> g[i]]
      OBVIOUS
    <2> HIDE DEF g
    <2> QED  BY <2>1, <2>2
  <1>6. \A f : Wanted(f) => \A i \in 1 .. m : f[i] = g[i]
    <2> SUFFICES ASSUME NEW f, Wanted(f) PROVE \A i \in 1 .. m : f[i] = g[i]
      OBVIOUS
    <2> DEFINE U == {k \in Nat : k + 1 \in 1 .. m => f[k + 1] = g[k + 1]}
    <2>1. \A i \in 1 .. m : f[i] = IF i = 1 THEN w[i] ELSE f[i - 1] \o w[i]
      OBVIOUS
    <2>2. \A i \in 1 .. m : g[i] = IF i = 1 THEN w[i] ELSE g[i - 1] \o w[i]
      BY <1>5
    <2> HIDE DEF g, Wanted
    <2>3. 0 \in U
      BY <2>1, <2>2
    <2>4. ASSUME NEW k \in Nat, k \in U PROVE k + 1 \in U
      <3> SUFFICES ASSUME (k + 1) + 1 \in 1 .. m PROVE f[(k + 1) + 1] = g[(k + 1) + 1]
        OBVIOUS
      <3>1. k + 1 \in 1 .. m /\ (k + 1) + 1 # 1 /\ ((k + 1) + 1) - 1 = k + 1
        BY <1>0
      <3> QED  BY <2>1, <2>2, <2>4, <3>1
    <2> HIDE DEF U
    <2>5. Nat \subseteq U
      BY <2>3, <2>4, Induct
    <2>6. ASSUME NEW i \in 1 .. m PROVE f[i] = g[i]
      <3>1. i - 1 \in U /\ (i - 1) + 1 = i
        BY <2>5
      <3> QED  BY <3>1 DEF U
    <2> QED  BY <2>6
  <1> DEFINE h == CHOOSE f : Wanted(f)
  <1>7. Wanted(h)
    <2> HIDE DEF g, Wanted
    <2> QED  BY <1>5
  <1>8. h[m] = g[m]
    <2>1. m \in 1 .. m
      BY <1>0
    <2> HIDE DEF h, g, Wanted
    <2> QED  BY <1>6, <1>7, <2>1
  <1>9. FlattenSeq(w) = h[m]
    BY <1>0 DEF FlattenSeq, m
  <1> HIDE DEF h, Wanted
  <1>10. m \in 1 .. m
    BY <1>0
  <1> QED  BY <1>3, <1>8, <1>9, <1>10 DEF m
-----------------------------------------------------------------------------
\* A segment of the peer's stream, where it ends, and a queue of them above low
\* and not beyond high.
Segment == [seq : Nat, from : Nat, len : Nat, fin : BOOLEAN]

Piece(s) ==
    /\ s \in Segment /\ s.from = s.seq /\ s.seq > 0
    /\ s.seq + s.len <= Total + 1 /\ (s.fin => s.seq + s.len = Total + 1)

EndOf(s) == s.seq + TcpLen(s)

QueueOK(q, low, high) ==
    /\ q \in Seq(Segment)
    /\ \A i \in DOMAIN q : Piece(q[i]) /\ q[i].seq > low /\ EndOf(q[i]) <= high
    /\ \A i, j \in DOMAIN q : i < j => EndOf(q[i]) <= q[j].seq

\* Where a piece of the stream ends; the FIN has the number Total + 1.
LEMMA Ends ==
  ASSUME NEW s, Piece(s)
  PROVE  /\ EndOf(s) \in Nat /\ s.seq \in Nat /\ s.len \in Nat /\ s.fin \in BOOLEAN
         /\ s.seq + s.len <= EndOf(s) /\ s.seq <= EndOf(s)
         /\ EndOf(s) = IF s.fin THEN Total + 2 ELSE s.seq + s.len
  BY ReceiveAssumption DEF Piece, Segment, EndOf, TcpLen

\* Only the last segment of a queue can have the FIN.
LEMMA FinIsLast ==
  ASSUME NEW q, NEW low \in Nat, NEW high \in Nat, QueueOK(q, low, high),
         NEW i \in DOMAIN q, NEW j \in DOMAIN q, i < j
  PROVE  ~q[i].fin
  <1>1. Piece(q[i]) /\ Piece(q[j]) /\ EndOf(q[i]) <= q[j].seq
    BY DEF QueueOK
  <1>2. q[j].seq + q[j].len <= Total + 1 /\ q[j].seq \in Nat /\ q[j].len \in Nat
    BY <1>1 DEF Piece, Segment
  <1>3. EndOf(q[i]) = IF q[i].fin THEN Total + 2 ELSE q[i].seq + q[i].len
    BY <1>1, Ends
  <1> QED  BY <1>1, <1>2, <1>3, ReceiveAssumption

\* A part of a queue is one.
LEMMA PartOfQueue ==
  ASSUME NEW q, NEW low \in Nat, NEW high \in Nat, QueueOK(q, low, high),
         NEW m \in 1 .. Len(q) + 1, NEW n \in 0 .. Len(q), NEW above \in Nat,
         \A i \in DOMAIN q : i >= m => q[i].seq > above
  PROVE  LET p == SubSeq(q, m, n)
         IN /\ QueueOK(p, above, high)
            /\ Len(p) = IF m <= n THEN n - m + 1 ELSE 0
            /\ \A i \in 1 .. Len(p) : i + m - 1 \in DOMAIN q /\ p[i] = q[i + m - 1]
  <1> DEFINE p == SubSeq(q, m, n)
  <1>1. q \in Seq(Segment) /\ Len(q) \in Nat /\ DOMAIN q = 1 .. Len(q)
    BY DEF QueueOK
  <1>2. p \in Seq(Segment) /\ Len(p) = (IF m <= n THEN n - m + 1 ELSE 0) /\ DOMAIN p = 1 .. Len(p)
    BY <1>1
  <1>3. ASSUME NEW i \in 1 .. Len(p) PROVE i + m - 1 \in DOMAIN q /\ i + m - 1 >= m /\ p[i] = q[i + m - 1]
    <2>1. i + m - 1 \in 1 .. Len(q) /\ i + m - 1 >= m /\ i \in 1 .. n - m + 1 /\ i + m - 1 = m + i - 1
      BY <1>1, <1>2
    <2>2. p[i] = q[m + i - 1]
      BY <1>1, <2>1
    <2> QED  BY <1>1, <2>1, <2>2
  <1> HIDE DEF p
  <1>4. QueueOK(p, above, high)
    <2>1. ASSUME NEW i \in DOMAIN p PROVE Piece(p[i]) /\ p[i].seq > above /\ EndOf(p[i]) <= high
      <3>1. i + m - 1 \in DOMAIN q /\ i + m - 1 >= m /\ p[i] = q[i + m - 1]
        BY <1>2, <1>3
      <3> QED  BY <3>1 DEF QueueOK
    <2>2. ASSUME NEW i \in DOMAIN p, NEW j \in DOMAIN p, i < j PROVE EndOf(p[i]) <= p[j].seq
      <3>1. /\ i + m - 1 \in DOMAIN q /\ p[i] = q[i + m - 1]
            /\ j + m - 1 \in DOMAIN q /\ p[j] = q[j + m - 1]
        BY <1>2, <1>3
      <3>2. i + m - 1 < j + m - 1
        BY <1>2, <2>2
      <3> QED  BY <3>1, <3>2 DEF QueueOK
    <2> QED  BY <1>2, <2>1, <2>2 DEF QueueOK
  <1> QED  BY <1>2, <1>3, <1>4 DEF p

\* Two queues, one of which is behind the other.
LEMMA QueuesJoin ==
  ASSUME NEW a, NEW b, NEW low \in Nat, NEW high \in Nat, QueueOK(a, low, high), QueueOK(b, low, high),
         \A i \in DOMAIN a, j \in DOMAIN b : EndOf(a[i]) <= b[j].seq
  PROVE  QueueOK(a \o b, low, high)
  <1> DEFINE c == a \o b
  <1>1. /\ a \in Seq(Segment) /\ Len(a) \in Nat /\ DOMAIN a = 1 .. Len(a)
        /\ b \in Seq(Segment) /\ Len(b) \in Nat /\ DOMAIN b = 1 .. Len(b)
    BY DEF QueueOK
  <1>2. /\ c \in Seq(Segment) /\ DOMAIN c = 1 .. Len(a) + Len(b)
        /\ \A i \in 1 .. Len(a) + Len(b) : c[i] = IF i <= Len(a) THEN a[i] ELSE b[i - Len(a)]
    <2>1. /\ c \in Seq(Segment) /\ Len(c) = Len(a) + Len(b)
          /\ \A i \in 1 .. Len(a) + Len(b) : c[i] = IF i <= Len(a) THEN a[i] ELSE b[i - Len(a)]
      BY <1>1, Concatenation
    <2> HIDE DEF c
    <2> QED  BY <2>1
  <1> HIDE DEF c
  <1>3. ASSUME NEW i \in DOMAIN c
        PROVE  \/ i \in DOMAIN a /\ c[i] = a[i]
               \/ i > Len(a) /\ i - Len(a) \in DOMAIN b /\ c[i] = b[i - Len(a)]
    <2>1. CASE i <= Len(a)
      BY <1>1, <1>2, <2>1
    <2>2. CASE i > Len(a)
      <3>1. ~(i <= Len(a)) /\ i - Len(a) \in 1 .. Len(b)
        BY <1>1, <1>2, <2>2
      <3> QED  BY <1>1, <1>2, <2>2, <3>1
    <2> QED  BY <1>1, <1>2, <2>1, <2>2
  <1>4. ASSUME NEW i \in DOMAIN c PROVE Piece(c[i]) /\ c[i].seq > low /\ EndOf(c[i]) <= high
    BY <1>3 DEF QueueOK
  <1>5. ASSUME NEW i \in DOMAIN c, NEW j \in DOMAIN c, i < j PROVE EndOf(c[i]) <= c[j].seq
    <2>1. CASE i \in DOMAIN a /\ c[i] = a[i] /\ j \in DOMAIN a /\ c[j] = a[j]
      BY <1>5, <2>1 DEF QueueOK
    <2>2. CASE i \in DOMAIN a /\ c[i] = a[i] /\ j - Len(a) \in DOMAIN b /\ c[j] = b[j - Len(a)]
      BY <2>2
    <2>3. CASE i > Len(a) /\ i - Len(a) \in DOMAIN b /\ c[i] = b[i - Len(a)]
      <3>1. j > Len(a) /\ j \notin DOMAIN a
        BY <1>1, <1>2, <1>5, <2>3
      <3>2. j - Len(a) \in DOMAIN b /\ c[j] = b[j - Len(a)]
        BY <1>3, <3>1
      <3>3. i - Len(a) < j - Len(a)
        BY <1>1, <1>2, <1>5
      <3> QED  BY <2>3, <3>2, <3>3 DEF QueueOK
    <2> QED  BY <1>3, <2>1, <2>2, <2>3
  <1>6. QueueOK(c, low, high)
    BY <1>2, <1>4, <1>5 DEF QueueOK
  <1> QED  BY <1>6 DEF c

\* One segment is a queue.
LEMMA QueueOfOne ==
  ASSUME NEW s, Piece(s), NEW low \in Nat, NEW high \in Nat, s.seq > low, EndOf(s) <= high
  PROVE  QueueOK(<<s>>, low, high)
  <1>1. s \in Segment
    BY DEF Piece
  <1>2. <<s>> \in Seq(Segment) /\ DOMAIN <<s>> = {1} /\ <<s>>[1] = s
    BY <1>1
  <1> QED  BY <1>2 DEF QueueOK
-----------------------------------------------------------------------------
\* The segments that a new one covers (tcp_in.c:1256-1273).
LEMMA CoveredIs ==
  ASSUME NEW s, NEW q \in Seq(Segment)
  PROVE  /\ Covered(s, q) \in 0 .. Len(q)
         /\ \A i \in 1 .. Covered(s, q) : s.seq + s.len >= q[i].seq + q[i].len
  <1> DEFINE K == {n \in DOMAIN q : \A i \in 1 .. n : s.seq + s.len >= q[i].seq + q[i].len}
             k == Max({0} \cup K)
  <1>1. Len(q) \in Nat /\ K \subseteq 1 .. Len(q)
    OBVIOUS
  <1>2. \A n \in K : \A i \in 1 .. n : s.seq + s.len >= q[i].seq + q[i].len
    OBVIOUS
  <1> HIDE DEF K
  <1>3. k \in {0} \cup K
    <2>1. {0} \cup K \subseteq 0 .. Len(q) /\ {0} \cup K # {}
      BY <1>1
    <2> QED  BY <1>1, <2>1, MaxOfBounded
  <1> HIDE DEF k
  <1>4. k \in 0 .. Len(q) /\ \A i \in 1 .. k : s.seq + s.len >= q[i].seq + q[i].len
    <2>1. CASE k = 0
      BY <1>1, <2>1
    <2>2. CASE k \in K
      BY <1>1, <1>2, <2>2
    <2> QED  BY <1>3, <2>1, <2>2
  <1>5. Covered(s, q) = k
    BY DEF Covered, k, K
  <1> QED  BY <1>4, <1>5

\* What is left of a segment and of the queue behind it: the segment ends where
\* the queue goes on (tcp_oos_insert_segment and tcp_receive).
Clipped(s, q) == CutBefore(WithFin(s, q), Uncovered(s, q))

\* A segment that was clipped is a piece that ends before the queue goes on.
LEMMA ClippedFits ==
  ASSUME NEW s, NEW q, NEW low \in Nat, NEW high \in Nat, Piece(s), ~s.fin, s.seq > low, EndOf(s) <= high,
         QueueOK(q, low, high), \A i \in DOMAIN q : q[i].seq >= s.seq
  PROVE  /\ Piece(Clipped(s, q)) /\ Clipped(s, q).seq = s.seq /\ EndOf(Clipped(s, q)) <= high
         /\ QueueOK(Uncovered(s, q), low, high)
         /\ \A i \in DOMAIN Uncovered(s, q) : EndOf(Clipped(s, q)) <= Uncovered(s, q)[i].seq
  <1> DEFINE k == Covered(s, q)
             u == Uncovered(s, q)
             t == WithFin(s, q)
             c == Clipped(s, q)
  <1>1. q \in Seq(Segment) /\ Len(q) \in Nat /\ DOMAIN q = 1 .. Len(q)
    BY DEF QueueOK
  <1>2. k \in 0 .. Len(q) /\ \A i \in 1 .. k : s.seq + s.len >= q[i].seq + q[i].len
    BY <1>1, CoveredIs
  <1> DEFINE l == Len(q)
  <1>a. k \in Nat /\ l \in Nat /\ k <= l /\ l = Len(q)
    BY <1>1, <1>2
  <1> HIDE DEF l
  <1>3. /\ QueueOK(u, low, high)
        /\ Len(u) = Len(q) - k /\ DOMAIN u = 1 .. Len(u)
        /\ \A i \in 1 .. Len(u) : i + k \in DOMAIN q /\ u[i] = q[i + k]
    <2> HIDE DEF k
    <2>1. k + 1 \in 1 .. Len(q) + 1 /\ Len(q) \in 0 .. Len(q)
      BY <1>1, <1>2
    <2>2. \A i \in DOMAIN q : i >= k + 1 => q[i].seq > low
      BY DEF QueueOK
    <2>3. LET p == SubSeq(q, k + 1, Len(q))
          IN /\ QueueOK(p, low, high)
             /\ Len(p) = IF k + 1 <= Len(q) THEN Len(q) - (k + 1) + 1 ELSE 0
             /\ \A i \in 1 .. Len(p) : i + (k + 1) - 1 \in DOMAIN q /\ p[i] = q[i + (k + 1) - 1]
      BY <2>1, <2>2, PartOfQueue
    <2>4. u = SubSeq(q, k + 1, Len(q))
      BY DEF Uncovered, k
    <2>5. (IF k + 1 <= l THEN l - (k + 1) + 1 ELSE 0) = l - k
      BY <1>a
    <2> HIDE DEF u
    <2>6. /\ QueueOK(u, low, high) /\ Len(u) = Len(q) - k
          /\ \A i \in 1 .. Len(u) : i + (k + 1) - 1 \in DOMAIN q /\ u[i] = q[i + (k + 1) - 1]
      BY <1>a, <2>3, <2>4, <2>5, Zenon
    <2>7. DOMAIN u = 1 .. Len(u)
      BY <2>6 DEF QueueOK
    <2>8. ASSUME NEW i \in 1 .. Len(u) PROVE i + k \in DOMAIN q /\ u[i] = q[i + k]
      <3>1. i + (k + 1) - 1 = i + k
        BY <1>2
      <3>2. i + (k + 1) - 1 \in DOMAIN q /\ u[i] = q[i + (k + 1) - 1]
        BY <2>6
      <3> QED  BY <3>1, <3>2, Zenon
    <2> QED  BY <2>6, <2>7, <2>8
  <1>4. /\ s \in Segment /\ s.from = s.seq /\ s.seq > 0 /\ s.seq \in Nat /\ s.len \in Nat /\ s.fin \in BOOLEAN
        /\ s.seq + s.len <= Total + 1 /\ EndOf(s) = s.seq + s.len
    <2>1. s \in Segment /\ s.from = s.seq /\ s.seq > 0 /\ s.seq + s.len <= Total + 1
      BY DEF Piece
    <2> QED  BY <2>1, Ends DEF Segment
  <1>5. t = [s EXCEPT !.fin = \E i \in 1 .. k : q[i].fin]
    <2>1. t = [s EXCEPT !.fin = s.fin \/ \E i \in 1 .. k : q[i].fin]
      BY <1>4, Zenon DEF WithFin, Segment
    <2>2. (s.fin \/ \E i \in 1 .. k : q[i].fin) = (\E i \in 1 .. k : q[i].fin)
      OBVIOUS
    <2> QED  BY <2>1, <2>2, Zenon
  <1>6. t.seq = s.seq /\ t.from = s.seq /\ t.len = s.len /\ t \in Segment /\ t.fin = \E i \in 1 .. k : q[i].fin
    <2>1. (\E i \in 1 .. k : q[i].fin) \in BOOLEAN
      BY Zenon
    <2> DEFINE b == \E i \in 1 .. k : q[i].fin
    <2>2. t = [s EXCEPT !.fin = b] /\ b \in BOOLEAN
      BY <1>5, <2>1
    <2> HIDE DEF b
    <2>3. t.seq = s.seq /\ t.from = s.seq /\ t.len = s.len /\ t \in Segment /\ t.fin = b
      BY <1>4, <2>2 DEF Segment
    <2> QED  BY <2>3 DEF b
  <1> HIDE DEF k, t, u
  <1>7. t.fin => u = <<>> /\ s.seq + s.len = Total + 1 /\ Total + 2 <= high
    <2> SUFFICES ASSUME t.fin PROVE u = <<>> /\ s.seq + s.len = Total + 1 /\ Total + 2 <= high
      OBVIOUS
    <2>1. PICK i \in 1 .. k : q[i].fin
      BY <1>6
    <2>2. i \in DOMAIN q /\ Piece(q[i]) /\ EndOf(q[i]) <= high
      BY <1>1, <1>2 DEF QueueOK
    <2>3. q[i].seq + q[i].len = Total + 1 /\ EndOf(q[i]) = Total + 2
      BY <2>1, <2>2, Ends DEF Piece
    <2>4. s.seq + s.len >= Total + 1
      BY <1>2, <2>3
    <2>5. ~(k + 1 \in DOMAIN q)
      <3>1. k + 1 \in DOMAIN q => i < k + 1
        BY <1>1, <1>2
      <3> QED  BY <2>1, <2>2, <3>1, FinIsLast
    <2>6. Len(u) = 0
      <3>1. ~(k + 1 <= l)
        BY <1>1, <1>a, <2>5
      <3>2. l - k = 0
        BY <1>a, <3>1
      <3> QED  BY <1>3, <1>a, <3>2
    <2>7. u = <<>>
      BY <1>3, <2>6 DEF QueueOK
    <2> QED  BY <1>4, <2>2, <2>3, <2>4, <2>7, ReceiveAssumption
  <1>8. c = IF u # <<>> /\ EndOf(t) > u[1].seq THEN [t EXCEPT !.len = u[1].seq - t.seq] ELSE t
    <2>1. c = CutBefore(t, u)
      BY DEF Clipped, c, t, u
    <2> HIDE DEF c
    <2> QED  BY <2>1 DEF CutBefore, EndOf
  <1>9. EndOf(t) = (IF t.fin THEN Total + 2 ELSE s.seq + s.len) /\ Piece(t)
    <2>1. Piece(t)
      BY <1>4, <1>6, <1>7 DEF Piece
    <2> QED  BY <1>6, <2>1, Ends
  <1> HIDE DEF c
  <1>10. CASE u = <<>>
    <2>1. c = t /\ EndOf(t) <= high
      <3>1. CASE t.fin
        BY <1>7, <1>8, <1>9, <1>10, <3>1
      <3>2. CASE ~t.fin
        BY <1>4, <1>8, <1>9, <1>10, <3>2
      <3> QED  BY <3>1, <3>2
    <2>2. \A i \in DOMAIN u : FALSE
      BY <1>10
    <2> QED  BY <1>3, <1>6, <1>9, <2>1, <2>2 DEF c, u
  <1>11. CASE u # <<>>
    <2>1. 1 \in DOMAIN u /\ ~t.fin
      <3>1. Len(u) # 0 /\ Len(u) \in Nat
        BY <1>3, <1>11 DEF QueueOK
      <3> QED  BY <1>3, <1>7, <1>11, <3>1
    <2>2. 1 + k \in DOMAIN q /\ u[1] = q[1 + k]
      BY <1>3, <2>1
    <2>3. u[1].seq >= s.seq /\ Piece(u[1]) /\ u[1].seq \in Nat
      BY <2>2, Ends DEF QueueOK
    <2>4. EndOf(t) = s.seq + s.len
      BY <1>9, <2>1
    <2>5. Piece(c) /\ c.seq = s.seq /\ EndOf(c) <= u[1].seq /\ EndOf(c) <= high
      <3>1. CASE s.seq + s.len > u[1].seq
        <4> DEFINE n == u[1].seq - s.seq
        <4>1. n \in Nat /\ s.seq + n = u[1].seq /\ s.seq + n <= s.seq + s.len
          BY <1>4, <2>3, <3>1
        <4>2. c = [t EXCEPT !.len = n]
          BY <1>6, <1>8, <1>11, <2>4, <3>1
        <4> HIDE DEF n
        <4>3. c \in Segment /\ c.seq = s.seq /\ c.from = s.seq /\ c.len = n /\ ~c.fin
          BY <1>6, <2>1, <4>1, <4>2 DEF Segment
        <4>4. Piece(c)
          BY <1>4, <4>1, <4>3, ReceiveAssumption DEF Piece
        <4>5. EndOf(c) = s.seq + n
          BY <4>3, <4>4, Ends
        <4> QED  BY <1>4, <2>3, <4>1, <4>3, <4>4, <4>5
      <3>2. CASE ~(s.seq + s.len > u[1].seq)
        <4>1. c = t
          BY <1>8, <2>4, <3>2
        <4> QED  BY <1>4, <1>6, <1>9, <2>3, <2>4, <3>2, <4>1
      <3> QED  BY <3>1, <3>2
    <2>6. ASSUME NEW i \in DOMAIN u PROVE EndOf(c) <= u[i].seq
      <3>1. CASE i = 1
        BY <2>5, <3>1
      <3>2. CASE i # 1
        <4>1. 1 < i
          BY <1>3, <3>2
        <4>2. EndOf(u[1]) <= u[i].seq /\ Piece(u[i])
          BY <1>3, <2>1, <4>1 DEF QueueOK
        <4>3. u[1].seq <= EndOf(u[1]) /\ EndOf(u[1]) \in Nat /\ u[i].seq \in Nat /\ EndOf(c) \in Nat
          BY <2>3, <2>5, <4>2, Ends
        <4> QED  BY <2>3, <2>5, <4>2, <4>3
      <3> QED  BY <3>1, <3>2
    <2> QED  BY <1>3, <2>5, <2>6 DEF c, u
  <1> QED  BY <1>10, <1>11
\* The segments that begin before a new one.
LEMMA EarlierIs ==
  ASSUME NEW s, NEW q, NEW low \in Nat, NEW high \in Nat, Piece(s), QueueOK(q, low, high)
  PROVE  /\ Earlier(s, q) \in 0 .. Len(q)
         /\ \A i \in DOMAIN q : i <= Earlier(s, q) => q[i].seq < s.seq
         /\ \A i \in DOMAIN q : i > Earlier(s, q) => q[i].seq >= s.seq
  <1> DEFINE K == {n \in DOMAIN q : q[n].seq < s.seq}
             n == Max({0} \cup K)
  <1>1. Len(q) \in Nat /\ DOMAIN q = 1 .. Len(q) /\ K \subseteq DOMAIN q
    BY DEF QueueOK
  <1>2. \A i \in DOMAIN q : i \in K <=> q[i].seq < s.seq
    OBVIOUS
  <1> HIDE DEF K
  <1>3. n \in {0} \cup K /\ \A i \in K : i <= n
    <2>1. {0} \cup K \subseteq 0 .. Len(q) /\ {0} \cup K # {}
      BY <1>1
    <2> QED  BY <1>1, <2>1, MaxOfBounded
  <1> HIDE DEF n
  <1>4. n \in 0 .. Len(q)
    BY <1>1, <1>3
  <1>5. ASSUME NEW i \in DOMAIN q, i <= n PROVE q[i].seq < s.seq
    <2>1. n \in K
      BY <1>1, <1>3, <1>5
    <2>2. n \in DOMAIN q /\ q[n].seq < s.seq
      BY <1>1, <1>2, <2>1
    <2>3. CASE i = n
      BY <2>2, <2>3
    <2>4. CASE i # n
      <3>1. i < n
        BY <1>1, <1>4, <1>5, <2>4
      <3>2. EndOf(q[i]) <= q[n].seq /\ Piece(q[i]) /\ Piece(q[n])
        BY <2>2, <3>1 DEF QueueOK
      <3>3. q[i].seq <= EndOf(q[i]) /\ EndOf(q[i]) \in Nat /\ q[i].seq \in Nat /\ q[n].seq \in Nat /\ s.seq \in Nat
        BY <3>2, Ends
      <3> QED  BY <2>2, <3>2, <3>3
    <2> QED  BY <2>3, <2>4
  <1>6. ASSUME NEW i \in DOMAIN q, i > n PROVE q[i].seq >= s.seq
    <2>1. i \notin K
      BY <1>1, <1>3, <1>4, <1>6
    <2>2. q[i].seq \in Nat /\ s.seq \in Nat
      BY Ends DEF QueueOK
    <2> QED  BY <1>2, <2>1, <2>2
  <1>7. Earlier(s, q) = n
    BY DEF Earlier, n, K
  <1> QED  BY <1>4, <1>5, <1>6, <1>7

\* A segment finds its place in the queue, which stays one.
LEMMA QueuedFits ==
  ASSUME NEW s, NEW q, NEW low \in Nat, NEW high \in Nat, Piece(s), s.seq > low, EndOf(s) <= high,
         QueueOK(q, low, high)
  PROVE  QueueOK(Queued(s, q), low, high)
  <1> DEFINE n == Earlier(s, q)
             cut == [i \in 1 .. n |-> IF i = n THEN CutAfter(q[i], s) ELSE q[i]]
             rest == SubSeq(q, n + 1, Len(q))
             ins == tcp_oos_insert_segment(s, rest)
  <1>1. q \in Seq(Segment) /\ Len(q) \in Nat /\ DOMAIN q = 1 .. Len(q)
    BY DEF QueueOK
  <1>2. /\ n \in 0 .. Len(q)
        /\ \A i \in DOMAIN q : i <= n => q[i].seq < s.seq
        /\ \A i \in DOMAIN q : i > n => q[i].seq >= s.seq
    BY EarlierIs
  <1>3. CASE Ditched(s, q)
    BY <1>3 DEF Queued
  <1>4. CASE ~Ditched(s, q)
    <2> HIDE DEF n
    <2>1. QueueOK(rest, low, high) /\ \A i \in DOMAIN rest : rest[i].seq >= s.seq
      <3>1. n + 1 \in 1 .. Len(q) + 1 /\ Len(q) \in 0 .. Len(q)
        BY <1>1, <1>2
      <3>2. \A i \in DOMAIN q : i >= n + 1 => q[i].seq > low
        BY DEF QueueOK
      <3>3. /\ QueueOK(rest, low, high)
            /\ \A i \in 1 .. Len(rest) : i + (n + 1) - 1 \in DOMAIN q /\ rest[i] = q[i + (n + 1) - 1]
        BY <3>1, <3>2, PartOfQueue, ZenonT(40)
      <3> HIDE DEF rest
      <3>4. DOMAIN rest = 1 .. Len(rest) /\ Len(rest) \in Nat
        BY <3>3 DEF QueueOK
      <3>5. ASSUME NEW i \in DOMAIN rest PROVE rest[i].seq >= s.seq
        <4>1. i + (n + 1) - 1 \in DOMAIN q /\ rest[i] = q[i + (n + 1) - 1]
          BY <3>3, <3>4
        <4>2. i + (n + 1) - 1 > n
          BY <1>2, <3>4
        <4> QED  BY <1>2, <4>1, <4>2
      <3> QED  BY <3>3, <3>5
    <2> HIDE DEF rest
    <2>2. Piece(s) /\ s.seq \in Nat
      BY Ends
    <2>3. QueueOK(ins, low, high) /\ \A i \in DOMAIN ins : s.seq <= ins[i].seq
      <3>1. CASE s.fin
        <4>1. ins = <<s>>
          BY <3>1 DEF tcp_oos_insert_segment
        <4> QED  BY <2>2, <4>1, QueueOfOne
      <3>2. CASE ~s.fin
        <4> DEFINE u == Uncovered(s, rest)
                   c == Clipped(s, rest)
        <4>1. ins = <<c>> \o u
          BY <3>2 DEF tcp_oos_insert_segment, Clipped
        <4>2. /\ Piece(c) /\ c.seq = s.seq /\ EndOf(c) <= high /\ QueueOK(u, low, high)
              /\ \A i \in DOMAIN u : EndOf(c) <= u[i].seq
          BY <2>1, <3>2, ClippedFits
        <4> HIDE DEF u, c
        <4>3. QueueOK(<<c>>, low, high)
          BY <4>2, QueueOfOne
        <4>4. QueueOK(ins, low, high)
          <5>1. \A i \in DOMAIN <<c>>, j \in DOMAIN u : EndOf(<<c>>[i]) <= u[j].seq
            BY <4>2
          <5> QED  BY <4>1, <4>2, <4>3, <5>1, QueuesJoin
        <4>5. ins \in Seq(Segment) /\ ins[1] = c /\ DOMAIN ins = 1 .. Len(ins)
          <5>1. u \in Seq(Segment) /\ c \in Segment
            BY <4>2 DEF QueueOK, Piece
          <5>2. (<<c>> \o u)[1] = c /\ <<c>> \o u \in Seq(Segment)
            BY <5>1
          <5> QED  BY <4>1, <5>2
        <4> HIDE DEF ins
        <4>6. ASSUME NEW i \in DOMAIN ins PROVE s.seq <= ins[i].seq
          <5>1. CASE i = 1
            BY <2>2, <4>2, <4>5, <5>1
          <5>2. CASE i # 1
            <6>1. 1 \in DOMAIN ins /\ 1 < i
              BY <4>5, <5>2
            <6>2. EndOf(c) <= ins[i].seq /\ Piece(ins[i])
              BY <4>4, <4>5, <6>1 DEF QueueOK
            <6>3. c.seq <= EndOf(c) /\ EndOf(c) \in Nat /\ ins[i].seq \in Nat
              BY <4>2, <6>2, Ends
            <6> QED  BY <2>2, <4>2, <6>2, <6>3
          <5> QED  BY <5>1, <5>2
        <4> QED  BY <4>4, <4>6
      <3> QED  BY <3>1, <3>2
    <2> HIDE DEF ins
    <2>4. ASSUME NEW i \in 1 .. n
          PROVE  /\ i \in DOMAIN q /\ Piece(cut[i]) /\ cut[i].seq = q[i].seq
                 /\ EndOf(cut[i]) <= EndOf(q[i]) /\ (i = n => EndOf(cut[i]) <= s.seq)
      <3>1. i \in DOMAIN q /\ i <= n /\ n \in DOMAIN q
        BY <1>1, <1>2
      <3>2. Piece(q[i]) /\ q[i].seq < s.seq
        BY <1>2, <3>1 DEF QueueOK
      <3>3. /\ q[i].seq \in Nat /\ q[i].len \in Nat /\ q[i].fin \in BOOLEAN /\ EndOf(q[i]) \in Nat
            /\ EndOf(q[i]) = (IF q[i].fin THEN Total + 2 ELSE q[i].seq + q[i].len)
            /\ q[i] \in Segment /\ q[i].from = q[i].seq /\ q[i].seq + q[i].len <= Total + 1 /\ q[i].seq > 0
        BY <3>2, Ends DEF Piece
      <3>4. CASE i # n
        <4>1. cut[i] = q[i]
          BY <3>4
        <4> QED  BY <3>1, <3>2, <3>3, <3>4, <4>1
      <3>5. CASE i = n
        <4>1. ~q[i].fin
          <5> SUFFICES ASSUME q[i].fin PROVE FALSE
            OBVIOUS
          <5> DEFINE l == Len(q)
          <5>0. l \in DOMAIN q /\ l \in Nat /\ i \in Nat /\ i <= l
            BY <1>1, <3>1
          <5>1. ~(i < l)
            BY <3>1, <5>0, FinIsLast
          <5> HIDE DEF l
          <5>a. i = l
            BY <5>0, <5>1
          <5>2. i = Len(q)
            BY <5>a DEF l
          <5>3. q # <<>> /\ LastOf(q).seq < s.seq /\ LastOf(q).fin
            BY <1>1, <3>1, <3>2, <5>2 DEF LastOf
          <5> QED  BY <1>4, <5>3 DEF Ditched
        <4>2. cut[i] = CutAfter(q[i], s)
          BY <3>5
        <4>3. CASE q[i].seq + q[i].len > s.seq
          <5> DEFINE m == s.seq - q[i].seq
          <5>1. m \in Nat /\ q[i].seq + m = s.seq /\ q[i].seq + m <= q[i].seq + q[i].len
            BY <2>2, <3>2, <3>3, <4>3
          <5>2. cut[i] = [q[i] EXCEPT !.len = m]
            BY <4>2, <4>3 DEF CutAfter
          <5> HIDE DEF m, cut
          <5>3. cut[i] \in Segment /\ cut[i].seq = q[i].seq /\ cut[i].from = q[i].seq /\ cut[i].len = m /\ ~cut[i].fin
            BY <3>3, <4>1, <5>1, <5>2 DEF Segment
          <5>4. Piece(cut[i])
            BY <3>3, <5>1, <5>3, ReceiveAssumption DEF Piece
          <5>5. EndOf(cut[i]) = q[i].seq + m
            BY <5>3, <5>4, Ends
          <5> QED  BY <2>2, <3>1, <3>3, <4>1, <5>1, <5>3, <5>4, <5>5
        <4>4. CASE ~(q[i].seq + q[i].len > s.seq)
          <5>1. cut[i] = q[i]
            BY <4>2, <4>4 DEF CutAfter
          <5> QED  BY <2>2, <3>1, <3>2, <3>3, <4>1, <4>4, <5>1
        <4> QED  BY <4>3, <4>4
      <3> QED  BY <3>4, <3>5
    <2>5. cut \in Seq(Segment) /\ DOMAIN cut = 1 .. n
      <3>1. n \in Nat /\ DOMAIN cut = 1 .. n
        BY <1>1, <1>2
      <3>2. \A i \in 1 .. n : cut[i] \in Segment
        BY <2>4 DEF Piece
      <3> HIDE DEF cut
      <3>3. cut = [i \in 1 .. n |-> cut[i]]
        BY DEF cut
      <3>4. [i \in 1 .. n |-> cut[i]] \in Seq(Segment)
        BY <3>1, <3>2
      <3> QED  BY <3>1, <3>3, <3>4
    <2> HIDE DEF cut
    <2>6. QueueOK(cut, low, high)
      <3>1. ASSUME NEW i \in DOMAIN cut PROVE Piece(cut[i]) /\ cut[i].seq > low /\ EndOf(cut[i]) <= high
        <4>1. /\ i \in DOMAIN q /\ Piece(cut[i]) /\ cut[i].seq = q[i].seq /\ EndOf(cut[i]) <= EndOf(q[i])
          BY <2>4, <2>5
        <4>2. q[i].seq > low /\ EndOf(q[i]) <= high /\ Piece(q[i])
          BY <4>1 DEF QueueOK
        <4>3. EndOf(q[i]) \in Nat /\ EndOf(cut[i]) \in Nat
          BY <4>1, <4>2, Ends
        <4> QED  BY <4>1, <4>2, <4>3
      <3>2. ASSUME NEW i \in DOMAIN cut, NEW j \in DOMAIN cut, i < j PROVE EndOf(cut[i]) <= cut[j].seq
        <4>1. /\ i \in DOMAIN q /\ Piece(cut[i]) /\ EndOf(cut[i]) <= EndOf(q[i])
              /\ j \in DOMAIN q /\ cut[j].seq = q[j].seq
          BY <2>4, <2>5
        <4>2. EndOf(q[i]) <= q[j].seq /\ Piece(q[i]) /\ Piece(q[j])
          BY <3>2, <4>1 DEF QueueOK
        <4>3. EndOf(q[i]) \in Nat /\ EndOf(cut[i]) \in Nat /\ q[j].seq \in Nat
          BY <4>1, <4>2, Ends
        <4> QED  BY <4>1, <4>2, <4>3
      <3> QED  BY <2>5, <3>1, <3>2 DEF QueueOK
    <2>7. ASSUME NEW i \in DOMAIN cut, NEW j \in DOMAIN ins PROVE EndOf(cut[i]) <= ins[j].seq
      <3>1. n \in 1 .. n /\ i \in 1 .. n
        BY <1>2, <2>5
      <3>2. Piece(cut[i]) /\ Piece(cut[n]) /\ EndOf(cut[n]) <= s.seq
        BY <2>4, <3>1
      <3>3. EndOf(cut[i]) <= s.seq
        <4>1. CASE i = n
          BY <3>2, <4>1
        <4>2. CASE i # n
          <5>1. i < n
            BY <1>1, <1>2, <3>1, <4>2
          <5>2. EndOf(cut[i]) <= cut[n].seq
            BY <2>5, <2>6, <3>1, <5>1 DEF QueueOK
          <5>3. cut[n].seq <= EndOf(cut[n]) /\ cut[n].seq \in Nat /\ EndOf(cut[n]) \in Nat /\ EndOf(cut[i]) \in Nat
            BY <3>2, Ends
          <5> QED  BY <2>2, <3>2, <5>2, <5>3
        <4> QED  BY <4>1, <4>2
      <3>4. s.seq <= ins[j].seq /\ ins[j].seq \in Nat /\ EndOf(cut[i]) \in Nat
        BY <2>3, <3>2, Ends DEF QueueOK
      <3> QED  BY <2>2, <3>3, <3>4
    <2>8. Queued(s, q) = cut \o ins
      BY <1>4 DEF Queued, cut, ins, rest, n
    <2> QED  BY <2>3, <2>6, <2>7, <2>8, QueuesJoin
  <1> QED  BY <1>3, <1>4
-----------------------------------------------------------------------------
\* The number at which the i-th segment of the queue would be in sequence.
Expected(q, nxt, i) == IF i = 1 THEN nxt ELSE EndOf(q[i - 1])

\* The segments at the head of the queue that are in sequence, and that the next is not.
LEMMA InSequenceIs ==
  ASSUME NEW q \in Seq(Segment), NEW nxt
  PROVE  /\ InSequence(q, nxt) \in 0 .. Len(q)
         /\ \A i \in 1 .. InSequence(q, nxt) : q[i].seq = Expected(q, nxt, i)
         /\ InSequence(q, nxt) < Len(q) =>
               q[InSequence(q, nxt) + 1].seq # Expected(q, nxt, InSequence(q, nxt) + 1)
  <1> DEFINE Fits(i) == q[i].seq = Expected(q, nxt, i)
             K == {n \in DOMAIN q : \A i \in 1 .. n : Fits(i)}
             n == Max({0} \cup K)
  <1>1. Len(q) \in Nat /\ DOMAIN q = 1 .. Len(q) /\ K \subseteq 1 .. Len(q)
    OBVIOUS
  <1>2. \A k \in DOMAIN q : k \in K <=> \A i \in 1 .. k : Fits(i)
    OBVIOUS
  <1>3. InSequence(q, nxt) = n
    BY DEF InSequence, Expected, EndOf
  <1> HIDE DEF K, Fits
  <1>4. n \in {0} \cup K /\ \A k \in K : k <= n
    <2>1. {0} \cup K \subseteq 0 .. Len(q) /\ {0} \cup K # {}
      BY <1>1
    <2> QED  BY <1>1, <2>1, MaxOfBounded
  <1> HIDE DEF n
  <1>5. n \in 0 .. Len(q) /\ \A i \in 1 .. n : Fits(i)
    <2>1. CASE n = 0
      BY <1>1, <2>1
    <2>2. CASE n \in K
      BY <1>1, <1>2, <2>2
    <2> QED  BY <1>4, <2>1, <2>2
  <1>6. n < Len(q) => ~Fits(n + 1)
    <2> SUFFICES ASSUME n < Len(q), Fits(n + 1) PROVE FALSE
      OBVIOUS
    <2>1. n + 1 \in DOMAIN q /\ \A i \in 1 .. n + 1 : i \in 1 .. n \/ i = n + 1
      BY <1>1, <1>5
    <2>2. n + 1 \in K
      BY <1>2, <1>5, <2>1
    <2>3. n + 1 <= n
      BY <1>4, <2>2
    <2> QED  BY <1>5, <2>3
  <1> QED  BY <1>3, <1>5, <1>6 DEF Fits

\* What a segment that is in sequence brings with what waited behind it.
Brings(c, u) ==
    LET n    == InSequence(u, EndOf(c))
        data == [i \in 1 .. n |-> Bytes(u[i])]
    IN [last |-> IF n = 0 THEN c ELSE u[n], rest |-> SubSeq(u, n + 1, Len(u)),
        data |-> FlattenSeq(<<Bytes(c)>> \o data)]

\* Their bytes are one run, and what is left waits for more.
LEMMA BroughtInOrder ==
  ASSUME NEW c, NEW u, NEW low \in Nat, NEW high \in Nat, Piece(c), EndOf(c) <= high, QueueOK(u, low, high),
         \A i \in DOMAIN u : EndOf(c) <= u[i].seq
  PROVE  LET b == Brings(c, u)
         IN /\ Piece(b.last) /\ EndOf(b.last) <= high /\ c.seq <= b.last.seq + b.last.len
            /\ b.data = Run(c.seq, (b.last.seq + b.last.len) - c.seq)
            /\ QueueOK(b.rest, EndOf(b.last), high)
  <1> DEFINE n == InSequence(u, EndOf(c))
             V(i) == IF i = 1 THEN c ELSE u[i - 1]
             data == [i \in 1 .. n |-> Bytes(u[i])]
             w == <<Bytes(c)>> \o data
             last == V(n + 1)
             at == [i \in 1 .. n + 2 |-> IF i <= n + 1 THEN V(i).seq ELSE last.seq + last.len]
             l == Len(u)
  <1>1. u \in Seq(Segment) /\ l \in Nat /\ DOMAIN u = 1 .. l /\ l = Len(u)
    BY DEF QueueOK
  <1>2. /\ n \in 0 .. l
        /\ \A i \in 1 .. n : u[i].seq = Expected(u, EndOf(c), i)
        /\ n < l => u[n + 1].seq # Expected(u, EndOf(c), n + 1)
    BY <1>1, InSequenceIs
  <1> HIDE DEF l
  <1>a. n \in Nat /\ n <= l
    BY <1>1, <1>2
  <1>b. Brings(c, u) = [last |-> last, rest |-> SubSeq(u, n + 1, Len(u)), data |-> FlattenSeq(w)]
    <2>1. last = IF n = 0 THEN c ELSE u[n]
      <3>1. CASE n = 0
        BY <3>1
      <3>2. CASE n # 0
        <4>1. n + 1 # 1 /\ (n + 1) - 1 = n
          BY <1>a, <3>2
        <4> HIDE DEF n
        <4> QED  BY <3>2, <4>1
      <3> QED  BY <3>1, <3>2
    <2> QED  BY <2>1, Zenon DEF Brings
  <1> HIDE DEF n
  <1>3. ASSUME NEW i \in 1 .. n + 1
        PROVE  /\ Piece(V(i)) /\ EndOf(V(i)) <= high /\ EndOf(V(i)) \in Nat /\ V(i).seq \in Nat /\ V(i).len \in Nat
               /\ EndOf(V(i)) = (IF V(i).fin THEN Total + 2 ELSE V(i).seq + V(i).len)
               /\ \A j \in DOMAIN u : i <= j => EndOf(V(i)) <= u[j].seq
    <2>1. CASE i = 1
      <3>1. V(i) = c
        BY <2>1
      <3> HIDE DEF V
      <3> QED  BY <3>1, Ends
    <2>2. CASE i # 1
      <3>1. V(i) = u[i - 1] /\ i - 1 \in DOMAIN u /\ \A j \in DOMAIN u : i <= j => i - 1 < j
        BY <1>1, <1>a, <2>2
      <3> HIDE DEF V
      <3>2. Piece(V(i)) /\ EndOf(V(i)) <= high /\ \A j \in DOMAIN u : i <= j => EndOf(V(i)) <= u[j].seq
        BY <3>1 DEF QueueOK
      <3> QED  BY <3>2, Ends
    <2> QED  BY <2>1, <2>2
  <1>4. ASSUME NEW i \in 1 .. n PROVE V(i + 1) = u[i] /\ u[i].seq = EndOf(V(i)) /\ ~V(i).fin
    <2>1. i \in DOMAIN u /\ i + 1 # 1 /\ (i + 1) - 1 = i /\ i \in 1 .. n + 1
      BY <1>1, <1>a
    <2>2. V(i + 1) = u[i]
      BY <2>1
    <2>3. Expected(u, EndOf(c), i) = EndOf(V(i))
      BY <2>1 DEF Expected
    <2> HIDE DEF V
    <2>4. u[i].seq = EndOf(V(i))
      BY <1>2, <2>3
    <2>5. Piece(u[i])
      BY <2>1 DEF QueueOK
    <2>6. u[i].seq <= Total + 1
      BY <2>5, Ends, ReceiveAssumption DEF Piece
    <2>7. ~V(i).fin
      BY <1>3, <2>1, <2>4, <2>6, ReceiveAssumption
    <2> QED  BY <2>2, <2>4, <2>7
  <1>5. Len(w) = n + 1 /\ w \in Seq(Seq(Nat)) /\ \A i \in 1 .. n + 1 : w[i] = Run(V(i).seq, V(i).len)
    <2>1. \A s : Piece(s) => Bytes(s) = Run(s.seq, s.len) /\ Bytes(s) \in Seq(Nat)
      <3> SUFFICES ASSUME NEW s, Piece(s) PROVE Bytes(s) = Run(s.seq, s.len) /\ Bytes(s) \in Seq(Nat)
        OBVIOUS
      <3>1. s.from = s.seq /\ s.seq \in Nat /\ s.len \in Nat
        BY Ends DEF Piece
      <3>2. Bytes(s) = Run(s.seq, s.len)
        BY <3>1, Zenon DEF Bytes, Run
      <3> QED  BY <3>1, <3>2, RunsJoin, ZenonT(40)
    <2>2. \A i \in 1 .. n : data[i] = Run(u[i].seq, u[i].len) /\ data[i] \in Seq(Nat)
      <3>1. \A i \in 1 .. n : i \in DOMAIN u
        BY <1>1, <1>a
      <3> QED  BY <2>1, <3>1 DEF QueueOK
    <2>3. Bytes(c) = Run(c.seq, c.len) /\ Bytes(c) \in Seq(Nat)
      BY <2>1
    <2>4. data \in Seq(Seq(Nat)) /\ Len(data) = n
      <3>1. data = [i \in 1 .. n |-> data[i]]
        OBVIOUS
      <3> HIDE DEF data
      <3>2. [i \in 1 .. n |-> data[i]] \in Seq(Seq(Nat)) /\ Len([i \in 1 .. n |-> data[i]]) = n
        BY <1>a, <2>2
      <3> QED  BY <3>1, <3>2
    <2> DEFINE b == Bytes(c)
    <2>5. b = Run(c.seq, c.len) /\ b \in Seq(Nat)
      BY <2>3
    <2> HIDE DEF b, data
    <2>6. /\ <<b>> \o data \in Seq(Seq(Nat)) /\ Len(<<b>> \o data) = n + 1
          /\ (<<b>> \o data)[1] = b /\ \A i \in 1 .. n : (<<b>> \o data)[i + 1] = data[i]
      BY <1>a, <2>4, <2>5
    <2>7. w = <<b>> \o data
      BY DEF b
    <2> HIDE DEF w
    <2>8. ASSUME NEW i \in 1 .. n + 1 PROVE w[i] = Run(V(i).seq, V(i).len)
      <3>1. CASE i = 1
        BY <2>5, <2>6, <2>7, <3>1
      <3>2. CASE i # 1
        <4>1. i - 1 \in 1 .. n /\ (i - 1) + 1 = i
          BY <1>a, <3>2
        <4>2. w[i] = data[i - 1]
          BY <2>6, <2>7, <4>1
        <4> QED  BY <2>2, <3>2, <4>1, <4>2
      <3> QED  BY <3>1, <3>2
    <2> QED  BY <2>6, <2>7, <2>8
  <1> HIDE DEF w, data
  <1>c. n + 1 \in 1 .. n + 1 /\ last = V(n + 1)
    BY <1>a
  <1>d. Piece(last) /\ last.seq \in Nat /\ last.len \in Nat /\ EndOf(last) <= high /\ EndOf(last) \in Nat
    BY <1>3, <1>c
  <1> HIDE DEF last
  <1>6. Following(w, at) /\ at[1] = c.seq /\ at[Len(w) + 1] = last.seq + last.len
    <2>1. at \in [1 .. Len(w) + 1 -> Nat]
      <3>1. Len(w) + 1 = n + 2
        BY <1>a, <1>5
      <3>2. \A i \in 1 .. n + 2 : i <= n + 1 => i \in 1 .. n + 1
        BY <1>a
      <3>3. \A i \in 1 .. n + 2 : (IF i <= n + 1 THEN V(i).seq ELSE last.seq + last.len) \in Nat
        BY <1>3, <1>d, <3>2
      <3> QED  BY <3>1, <3>3
    <2>2. ASSUME NEW i \in 1 .. n + 1
          PROVE  at[i] = V(i).seq /\ at[i + 1] = V(i).seq + V(i).len
      <3>1. i \in 1 .. n + 2 /\ i <= n + 1 /\ i + 1 \in 1 .. n + 2
        BY <1>a
      <3>2. at[i] = V(i).seq
        BY <3>1
      <3>3. CASE i = n + 1
        <4>1. ~(i + 1 <= n + 1)
          BY <1>a, <3>3
        <4>2. at[i + 1] = last.seq + last.len
          BY <3>1, <4>1
        <4>3. last = V(i)
          BY <3>3 DEF last
        <4> QED  BY <3>2, <4>2, <4>3
      <3>4. CASE i # n + 1
        <4>1. i \in 1 .. n /\ i + 1 <= n + 1
          BY <1>a, <3>4
        <4>2. at[i + 1] = V(i + 1).seq
          BY <3>1, <4>1
        <4> HIDE DEF V, at
        <4>3. V(i + 1).seq = EndOf(V(i)) /\ ~V(i).fin
          BY <1>4, <4>1
        <4>4. EndOf(V(i)) = IF V(i).fin THEN Total + 2 ELSE V(i).seq + V(i).len
          BY <1>3
        <4> QED  BY <3>2, <4>2, <4>3, <4>4
      <3> QED  BY <3>3, <3>4
    <2>3. ASSUME NEW i \in 1 .. n + 1
          PROVE  at[i] <= at[i + 1] /\ w[i] = Run(at[i], at[i + 1] - at[i])
      <3> HIDE DEF at, V
      <3>1. V(i).seq \in Nat /\ V(i).len \in Nat /\ w[i] = Run(V(i).seq, V(i).len)
        BY <1>3, <1>5
      <3>2. at[i] <= at[i + 1] /\ at[i + 1] - at[i] = V(i).len
        BY <2>2, <3>1
      <3> QED  BY <2>2, <3>1, <3>2
    <2>4. at[1] = c.seq
      <3>1. 1 \in 1 .. n + 2 /\ 1 <= n + 1
        BY <1>a
      <3> QED  BY <3>1
    <2>5. at[Len(w) + 1] = last.seq + last.len
      <3>1. n + 2 \in 1 .. n + 2 /\ ~(n + 2 <= n + 1) /\ Len(w) + 1 = n + 2
        BY <1>a, <1>5
      <3> QED  BY <3>1
    <2> HIDE DEF at
    <2>6. Following(w, at)
      <3>1. Len(w) > 0
        BY <1>a, <1>5
      <3> QED  BY <1>5, <2>1, <2>3, <3>1 DEF Following
    <2> QED  BY <2>4, <2>5, <2>6
  <1> HIDE DEF at
  <1>7. FlattenSeq(w) = Run(c.seq, (last.seq + last.len) - c.seq) /\ c.seq <= last.seq + last.len
    <2>1. FlattenSeq(w) = Run(at[1], at[Len(w) + 1] - at[1]) /\ at[1] <= at[Len(w) + 1]
      BY <1>6, FlattenRuns, Zenon
    <2> DEFINE x == at[1]
               y == at[Len(w) + 1]
    <2>2. x = c.seq /\ y = last.seq + last.len
      BY <1>6
    <2>3. FlattenSeq(w) = Run(x, y - x) /\ x <= y
      BY <2>1
    <2> HIDE DEF x, y
    <2> QED  BY <2>2, <2>3, Zenon
  <1>8. QueueOK(SubSeq(u, n + 1, Len(u)), EndOf(last), high)
    <2>1. n + 1 \in 1 .. Len(u) + 1 /\ Len(u) \in 0 .. Len(u)
      BY <1>1, <1>a
    <2>2. ASSUME NEW i \in DOMAIN u, i >= n + 1 PROVE u[i].seq > EndOf(last)
      <3>1. n + 1 \in DOMAIN u /\ n < l /\ n + 1 <= i /\ (n + 1) - 1 = n
        BY <1>1, <1>a, <2>2
      <3>2. Piece(u[n + 1]) /\ Piece(u[i])
        BY <3>1 DEF QueueOK
      <3>3. EndOf(last) <= u[n + 1].seq
        <4>1. \A j \in DOMAIN u : n + 1 <= j => EndOf(V(n + 1)) <= u[j].seq
          BY <1>3, <1>c
        <4> QED  BY <1>a, <1>c, <3>1, <4>1
      <3>4. u[n + 1].seq # EndOf(last)
        <4>1. Expected(u, EndOf(c), n + 1) = EndOf(last)
          BY <1>c, <3>1 DEF Expected
        <4> QED  BY <1>2, <3>1, <4>1
      <3>5. u[n + 1].seq \in Nat /\ u[i].seq \in Nat /\ EndOf(u[n + 1]) \in Nat /\ u[n + 1].seq <= EndOf(u[n + 1])
        BY <3>2, Ends
      <3>6. CASE i = n + 1
        BY <1>d, <3>3, <3>4, <3>5, <3>6
      <3>7. CASE i # n + 1
        <4>1. n + 1 < i
          BY <1>1, <1>a, <3>1, <3>7
        <4>2. EndOf(u[n + 1]) <= u[i].seq
          BY <3>1, <4>1 DEF QueueOK
        <4> QED  BY <1>d, <3>3, <3>4, <3>5, <4>2
      <3> QED  BY <3>6, <3>7
    <2> QED  BY <1>d, <2>1, <2>2, PartOfQueue
  <1> QED  BY <1>b, <1>d, <1>7, <1>8
-----------------------------------------------------------------------------
States == {"ESTABLISHED", "CLOSE_WAIT", "FIN_WAIT", "LAST_ACK", "TIME_WAIT", "GONE"}
Flags  == {"ACK_DELAY", "ACK_NOW", "RXCLOSED"}

PcbType ==
    [state : States, rcv_nxt : 1 .. Total + 2, rcv_wnd : 0 .. Wnd, rcv_ann_wnd : 0 .. Wnd,
     rcv_ann_right_edge : Nat, ooseq : Seq(Segment), refused : [data : Seq(Nat), fin : BOOLEAN],
     flags : SUBSET Flags]

UserType == [bytes : Seq(Nat), ended : BOOLEAN, unread : Nat]

Edge(p) == p.rcv_nxt + p.rcv_wnd

\* The window that was announced is there, and the next one will be.
Announced(p) ==
    p.rcv_ann_right_edge <= p.rcv_nxt + p.rcv_ann_wnd /\ p.rcv_ann_wnd <= p.rcv_wnd

\* Only flags and what is announced are different.
Same(p, q) ==
    /\ q \in PcbType
    /\ q.state = p.state /\ q.rcv_nxt = p.rcv_nxt /\ q.rcv_wnd = p.rcv_wnd
    /\ q.ooseq = p.ooseq /\ q.refused = p.refused
    /\ "RXCLOSED" \in q.flags <=> "RXCLOSED" \in p.flags

Larger(p, q) == Announced(q) /\ q.rcv_ann_right_edge >= p.rcv_ann_right_edge

\* The fields of a PCB.
LEMMA Fields ==
  ASSUME NEW p, p \in PcbType
  PROVE  /\ p.state \in States /\ p.rcv_nxt \in Nat /\ p.rcv_wnd \in Nat /\ p.rcv_ann_wnd \in Nat
         /\ p.rcv_nxt \in 1 .. Total + 2 /\ p.rcv_wnd <= Wnd /\ p.rcv_ann_wnd <= Wnd
         /\ p.rcv_ann_right_edge \in Nat /\ p.ooseq \in Seq(Segment)
         /\ p.refused \in [data : Seq(Nat), fin : BOOLEAN] /\ p.flags \subseteq Flags
         /\ Edge(p) \in Nat
  BY ReceiveAssumption DEF PcbType, Edge

\* A function of the flags and the announcement only.
LEMMA FlagsSame ==
  ASSUME NEW p, p \in PcbType, NEW F, F \subseteq Flags, "RXCLOSED" \in F <=> "RXCLOSED" \in p.flags
  PROVE  /\ Same(p, [p EXCEPT !.flags = F])
         /\ [p EXCEPT !.flags = F].rcv_ann_right_edge = p.rcv_ann_right_edge
         /\ [p EXCEPT !.flags = F].rcv_ann_wnd = p.rcv_ann_wnd
  BY DEF PcbType, Same

\* Acknowledging changes the flags and, when the ACK is sent, what was announced.
LEMMA AcksSame ==
  ASSUME NEW p, p \in PcbType, Announced(p)
  PROVE  /\ Same(p, tcp_ack(p)) /\ Larger(p, tcp_ack(p))
         /\ Same(p, AckNow(p)) /\ Larger(p, AckNow(p))
         /\ Same(p, SendAck(p)) /\ Larger(p, SendAck(p))
         /\ Same(p, Output(p)) /\ Larger(p, Output(p))
  <1>1. /\ p.flags \subseteq Flags /\ p.rcv_nxt + p.rcv_ann_wnd \in Nat
        /\ p.rcv_nxt \in Nat /\ p.rcv_wnd \in Nat /\ p.rcv_ann_wnd \in Nat /\ p.rcv_ann_right_edge \in Nat
    BY Fields
  <1>2. ASSUME NEW F, F \subseteq Flags, "RXCLOSED" \in F <=> "RXCLOSED" \in p.flags
        PROVE  Same(p, [p EXCEPT !.flags = F]) /\ Larger(p, [p EXCEPT !.flags = F])
    <2> DEFINE q == [p EXCEPT !.flags = F]
    <2>1. Same(p, q) /\ q.rcv_ann_right_edge = p.rcv_ann_right_edge /\ q.rcv_ann_wnd = p.rcv_ann_wnd
      BY <1>1, <1>2, FlagsSame
    <2> HIDE DEF q
    <2>2. Larger(p, q)
      BY <1>1, <2>1 DEF Same, Larger, Announced
    <2> QED  BY <2>1, <2>2 DEF q
  <1>3. Same(p, AckNow(p)) /\ Larger(p, AckNow(p))
    <2>1. p.flags \cup {"ACK_NOW"} \subseteq Flags
      BY <1>1 DEF Flags
    <2>2. "RXCLOSED" \in p.flags \cup {"ACK_NOW"} <=> "RXCLOSED" \in p.flags
      OBVIOUS
    <2> QED  BY <1>2, <2>1, <2>2 DEF AckNow
  <1>4. Same(p, tcp_ack(p)) /\ Larger(p, tcp_ack(p))
    <2> DEFINE F1 == (p.flags \ {"ACK_DELAY"}) \cup {"ACK_NOW"}
               F2 == p.flags \cup {"ACK_DELAY"}
    <2>1. F1 \subseteq Flags /\ F2 \subseteq Flags
      BY <1>1 DEF Flags
    <2>2. ("RXCLOSED" \in F1 <=> "RXCLOSED" \in p.flags) /\ ("RXCLOSED" \in F2 <=> "RXCLOSED" \in p.flags)
      OBVIOUS
    <2>3. tcp_ack(p) = [p EXCEPT !.flags = F1] \/ tcp_ack(p) = [p EXCEPT !.flags = F2]
      BY DEF tcp_ack
    <2> HIDE DEF F1, F2
    <2>4. /\ Same(p, [p EXCEPT !.flags = F1]) /\ Larger(p, [p EXCEPT !.flags = F1])
          /\ Same(p, [p EXCEPT !.flags = F2]) /\ Larger(p, [p EXCEPT !.flags = F2])
      BY <1>2, <2>1, <2>2
    <2> QED  BY <2>3, <2>4
  <1>5. Same(p, SendAck(p)) /\ Larger(p, SendAck(p))
    <2> DEFINE F == p.flags \ {"ACK_DELAY", "ACK_NOW"}
               e == p.rcv_nxt + p.rcv_ann_wnd
               q == [p EXCEPT !.flags = F, !.rcv_ann_right_edge = e]
    <2>1. F \subseteq Flags /\ ("RXCLOSED" \in F <=> "RXCLOSED" \in p.flags) /\ e \in Nat
      BY <1>1
    <2>2. SendAck(p) = q
      BY DEF SendAck
    <2> HIDE DEF F
    <2>3. Same(p, q) /\ q.rcv_ann_right_edge = e /\ q.rcv_ann_wnd = p.rcv_ann_wnd
      <3> HIDE DEF e
      <3> QED  BY <2>1 DEF PcbType, Same
    <2> HIDE DEF q
    <2>4. Larger(p, q)
      BY <1>1, <2>3 DEF Same, Larger, Announced
    <2> QED  BY <2>2, <2>3, <2>4
  <1>6. Same(p, p) /\ Larger(p, p)
    BY <1>1 DEF Same, Larger
  <1> QED  BY <1>3, <1>4, <1>5, <1>6 DEF Output

\* tcp_update_rcv_ann_wnd never takes back what was announced.
LEMMA UpdateSame ==
  ASSUME NEW p, p \in PcbType, p.rcv_ann_right_edge <= Edge(p)
  PROVE  Same(p, tcp_update_rcv_ann_wnd(p)) /\ Larger(p, tcp_update_rcv_ann_wnd(p))
  <1> DEFINE w == IF Inflation(p) > 0 THEN p.rcv_wnd
                  ELSE IF p.rcv_nxt > p.rcv_ann_right_edge THEN 0 ELSE p.rcv_ann_right_edge - p.rcv_nxt
             q == [p EXCEPT !.rcv_ann_wnd = w]
  <1>1. /\ p.rcv_nxt \in Nat /\ p.rcv_wnd \in Nat /\ p.rcv_ann_right_edge \in Nat /\ p.rcv_wnd <= Wnd
        /\ Wnd \in Nat
    BY Fields, ReceiveAssumption
  <1>2. w \in 0 .. p.rcv_wnd /\ p.rcv_ann_right_edge <= p.rcv_nxt + w
    BY <1>1 DEF Edge
  <1>3. tcp_update_rcv_ann_wnd(p) = q
    BY DEF tcp_update_rcv_ann_wnd
  <1> HIDE DEF w
  <1>4. w \in 0 .. Wnd
    BY <1>1, <1>2
  <1>5. Same(p, q) /\ q.rcv_ann_right_edge = p.rcv_ann_right_edge /\ q.rcv_ann_wnd = w
    BY <1>4 DEF PcbType, Same
  <1> HIDE DEF q
  <1>6. Larger(p, q)
    BY <1>1, <1>2, <1>5 DEF Same, Larger, Announced
  <1> QED  BY <1>3, <1>5, <1>6
-----------------------------------------------------------------------------
\* The inductive invariant of the PCB p and its user u.  Within a step data d,
\* and the end of the stream if f, have been received and are still to be given
\* to the user; between the steps there are none.
One(b) == IF b THEN 1 ELSE 0
AtEnd(p) == p.state \in {"CLOSE_WAIT", "LAST_ACK", "TIME_WAIT"}
Had(p, u, d) == Len(u.bytes) + Len(p.refused.data) + Len(d)

\* What the user has, what it refused and what is next are one piece.
Continues(p, u, d) ==
    /\ u.bytes = Run(1, Len(u.bytes))
    /\ p.refused.data = Run(Len(u.bytes) + 1, Len(p.refused.data))
    /\ d = Run(Len(u.bytes) + 1, Len(d))
    /\ d # <<>> => p.refused = None /\ ~u.ended
    /\ Had(p, u, d) <= Total

\* The numbers, as long as there is a connection.
Counts(p, u, d, f) ==
    /\ Had(p, u, d) + One(AtEnd(p)) = p.rcv_nxt - 1
    /\ AtEnd(p) => Had(p, u, d) = Total
    /\ p.rcv_wnd + u.unread + Len(p.refused.data) + Len(d) + One(p.refused.fin) + One(f) = Wnd

\* The end of the stream.
Ending(p, u, d, f) ==
    /\ u.ended => Len(u.bytes) = Total
    /\ f => ~u.ended /\ ~p.refused.fin /\ Had(p, u, d) = Total
    /\ p.refused.fin => p.refused.data # <<>>
    /\ p.state # "GONE" =>
        /\ f \/ p.refused.fin \/ u.ended => AtEnd(p)
        /\ u.ended => p.refused = None
        /\ "RXCLOSED" \in p.flags <=> p.state \in {"FIN_WAIT", "LAST_ACK", "TIME_WAIT"}
        /\ "RXCLOSED" \in p.flags => p.refused = None

Good(p, u, d, f) ==
    /\ p \in PcbType /\ u \in UserType /\ d \in Seq(Nat) /\ f \in BOOLEAN
    /\ Announced(p) /\ QueueOK(p.ooseq, p.rcv_nxt, Edge(p))
    /\ p.state = "GONE" => p.refused = None
    /\ Continues(p, u, d) /\ Ending(p, u, d, f)
    /\ p.state # "GONE" => Counts(p, u, d, f)

\* What a user was given stays, and nothing follows the end.
Extends(u, v) ==
    /\ Len(u.bytes) <= Len(v.bytes)
    /\ u.ended => v.ended /\ Len(v.bytes) = Len(u.bytes)

\* The window a segment may be in does not move to the left.
Wider(p, q) == q.state # "GONE" => q.rcv_nxt = p.rcv_nxt /\ q.rcv_wnd >= p.rcv_wnd

\* What the invariant says of types.
LEMMA GoodTypes ==
  ASSUME NEW p, NEW u, NEW d, NEW f, Good(p, u, d, f)
  PROVE  /\ p \in PcbType /\ u \in UserType /\ f \in BOOLEAN
         /\ u.bytes \in Seq(Nat) /\ u.ended \in BOOLEAN /\ u.unread \in Nat
         /\ p.refused.data \in Seq(Nat) /\ p.refused.fin \in BOOLEAN /\ p.refused \in [data : Seq(Nat), fin : BOOLEAN]
         /\ Len(u.bytes) \in Nat /\ Len(p.refused.data) \in Nat /\ Len(d) \in Nat
         /\ p.state \in States /\ p.rcv_nxt \in Nat /\ p.rcv_wnd \in Nat /\ p.rcv_wnd <= Wnd
         /\ Total \in Nat /\ Wnd \in Nat
  <1>1. p \in PcbType /\ u \in UserType /\ f \in BOOLEAN /\ d \in Seq(Nat)
    BY DEF Good
  <1>2. u.bytes \in Seq(Nat) /\ u.ended \in BOOLEAN /\ u.unread \in Nat
    BY <1>1 DEF UserType
  <1>3. p.refused \in [data : Seq(Nat), fin : BOOLEAN]
    BY <1>1, Fields
  <1>4. p.refused.data \in Seq(Nat) /\ p.refused.fin \in BOOLEAN
    BY <1>3
  <1>5. Len(u.bytes) \in Nat /\ Len(p.refused.data) \in Nat /\ Len(d) \in Nat
    BY <1>1, <1>2, <1>4
  <1> QED  BY <1>1, <1>2, <1>3, <1>4, <1>5, Fields, ReceiveAssumption

\* The invariant does not depend on the flags of the ACKs.
LEMMA SameGood ==
  ASSUME NEW p, NEW u, NEW d, NEW f, Good(p, u, d, f), NEW q, Same(p, q), Announced(q)
  PROVE  Good(q, u, d, f)
  <1>1. /\ q \in PcbType /\ q.state = p.state /\ q.rcv_nxt = p.rcv_nxt /\ q.rcv_wnd = p.rcv_wnd
        /\ q.ooseq = p.ooseq /\ q.refused = p.refused
        /\ "RXCLOSED" \in q.flags <=> "RXCLOSED" \in p.flags
    BY DEF Same
  <1>2. AtEnd(q) = AtEnd(p) /\ Had(q, u, d) = Had(p, u, d) /\ Edge(q) = Edge(p)
    BY <1>1 DEF AtEnd, Had, Edge
  <1>3. Continues(q, u, d)
    BY <1>1, <1>2 DEF Good, Continues
  <1>4. Ending(q, u, d, f)
    BY <1>1, <1>2 DEF Good, Ending
  <1>5. q.state # "GONE" => Counts(q, u, d, f)
    BY <1>1, <1>2 DEF Good, Counts
  <1> QED  BY <1>1, <1>2, <1>3, <1>4, <1>5 DEF Good

\* A queue that is good for a window is good for a larger one.
LEMMA QueueGrows ==
  ASSUME NEW q, NEW low \in Nat, NEW high \in Nat, NEW more \in Nat, QueueOK(q, low, high), high <= more
  PROVE  QueueOK(q, low, more)
  <1>1. ASSUME NEW i \in DOMAIN q PROVE EndOf(q[i]) <= more
    <2>1. EndOf(q[i]) <= high /\ EndOf(q[i]) \in Nat
      BY Ends DEF QueueOK
    <2> QED  BY <2>1
  <1> QED  BY <1>1 DEF QueueOK

\* Nothing is a run.
LEMMA RunOfNone == ASSUME NEW a \in Nat PROVE Run(a, 0) = <<>>
  BY DEF Run

\* The connection is given up, with what is to be given to the user.
LEMMA GoneGood ==
  ASSUME NEW p, NEW u, NEW d, NEW f, Good(p, u, d, f), NEW F, F \subseteq Flags,
         NEW g \in BOOLEAN, g => f /\ p.refused = None /\ d = <<>>
  PROVE  Good(Gone([p EXCEPT !.flags = F]), u, <<>>, g) /\ Gone([p EXCEPT !.flags = F]).state = "GONE"
  <1> DEFINE q == Gone([p EXCEPT !.flags = F])
  <1>1. <<>> \in Seq(Segment) /\ None \in [data : Seq(Nat), fin : BOOLEAN]
    BY DEF None
  <1>2. p \in PcbType /\ Len(u.bytes) \in Nat /\ Len(p.refused.data) \in Nat /\ Len(d) \in Nat
    BY GoodTypes
  <1>3. q = [p EXCEPT !.flags = F, !.state = "GONE", !.ooseq = <<>>, !.refused = None]
    BY <1>2 DEF Gone, PcbType
  <1>4. /\ q \in PcbType /\ q.state = "GONE" /\ q.rcv_nxt = p.rcv_nxt /\ q.rcv_wnd = p.rcv_wnd
        /\ q.ooseq = <<>> /\ q.refused = None /\ q.rcv_ann_wnd = p.rcv_ann_wnd
        /\ q.rcv_ann_right_edge = p.rcv_ann_right_edge
    BY <1>1, <1>2, <1>3, ZenonT(40) DEF PcbType, States
  <1> HIDE DEF q
  <1>5. Announced(q)
    BY <1>4 DEF Good, Announced
  <1>6. QueueOK(q.ooseq, q.rcv_nxt, Edge(q))
    BY <1>1, <1>4 DEF QueueOK
  <1>8. q.refused.data = <<>> /\ ~q.refused.fin /\ Len(q.refused.data) = 0
    BY <1>4 DEF None
  <1>7. Had(q, u, <<>>) = Len(u.bytes) /\ Len(u.bytes) <= Total
    <2>1. Had(q, u, <<>>) = Len(u.bytes)
      <3>1. Len(<<>>) = 0
        OBVIOUS
      <3> QED  BY <1>2, <1>8, <3>1 DEF Had
    <2>2. Len(u.bytes) <= Had(p, u, d) /\ Had(p, u, d) \in Nat
      <3> DEFINE x == Len(u.bytes)
                 y == Len(p.refused.data)
                 z == Len(d)
      <3>1. x \in Nat /\ y \in Nat /\ z \in Nat
        BY <1>2
      <3>2. Had(p, u, d) = x + y + z
        BY DEF Had
      <3>3. x + y + z \in Nat /\ x <= x + y + z
        <4> HIDE DEF x, y, z
        <4> QED  BY <3>1
      <3> QED  BY <3>2, <3>3
    <2>3. Had(p, u, d) <= Total
      BY DEF Good, Continues
    <2> QED  BY <1>2, <2>1, <2>2, <2>3, ReceiveAssumption
  <1>9. Continues(q, u, <<>>)
    <2>1. Run(Len(u.bytes) + 1, 0) = <<>>
      BY <1>2, RunOfNone
    <2>2. u.bytes = Run(1, Len(u.bytes))
      BY DEF Good, Continues
    <2>3. Had(q, u, <<>>) <= Total
      BY <1>7
    <2> QED  BY <1>8, <2>1, <2>2, <2>3 DEF Continues
  <1>10. Ending(q, u, <<>>, g)
    <2>1. g => ~u.ended /\ Len(u.bytes) = Total
      <3>1. f => ~u.ended /\ Had(p, u, d) = Total
        BY DEF Good, Ending
      <3>2. p.refused = None /\ d = <<>> => Had(p, u, d) = Len(u.bytes)
        BY <1>2 DEF Had, None
      <3> QED  BY <3>1, <3>2
    <2>2. u.ended => Len(u.bytes) = Total
      BY DEF Good, Ending
    <2> QED  BY <1>4, <1>7, <1>8, <2>1, <2>2 DEF Ending
  <1>11. Good(q, u, <<>>, g)
    <2>1. u \in UserType /\ <<>> \in Seq(Nat)
      BY DEF Good
    <2> QED  BY <1>4, <1>5, <1>6, <1>9, <1>10, <2>1 DEF Good
  <1> QED  BY <1>4, <1>11 DEF q

\* tcp_close, when the end is not waiting for refused data.
LEMMA CloseGood ==
  ASSUME NEW p, NEW u, NEW f, Good(p, u, <<>>, f), p.state \in {"ESTABLISHED", "CLOSE_WAIT"},
         f => p.refused = None
  PROVE  LET c == tcp_close(p, u)
         IN c.user = u /\ Good(c.pcb, u, <<>>, f) /\ Wider(p, c.pcb)
  <1> DEFINE F == p.flags \cup {"RXCLOSED"}
             S == IF p.state = "ESTABLISHED" THEN "FIN_WAIT" ELSE "LAST_ACK"
             q == [p EXCEPT !.flags = F]
             r == [q EXCEPT !.state = S]
             c == tcp_close(p, u)
  <1>1. p \in PcbType /\ p.flags \subseteq Flags /\ f \in BOOLEAN
    BY GoodTypes, Fields
  <1>2. F \subseteq Flags
    BY <1>1 DEF Flags
  <1>3. CASE AllRead(p)
    <2>1. c = [pcb |-> SendAck(r), user |-> u]
      BY <1>1, <1>3 DEF tcp_close, PcbType
    <2>2. p.refused = None /\ p.rcv_wnd = Wnd
      BY <1>3 DEF AllRead
    <2>3. r = [p EXCEPT !.flags = F, !.state = S]
      BY <1>1 DEF PcbType
    <2>4. /\ r \in PcbType /\ r.state = S /\ r.rcv_nxt = p.rcv_nxt /\ r.rcv_wnd = p.rcv_wnd
          /\ r.ooseq = p.ooseq /\ r.refused = p.refused /\ r.rcv_ann_wnd = p.rcv_ann_wnd
          /\ r.rcv_ann_right_edge = p.rcv_ann_right_edge /\ "RXCLOSED" \in r.flags
      BY <1>1, <1>2, <2>3 DEF PcbType, States
    <2> HIDE DEF r, c
    <2>5. r.state \in {"FIN_WAIT", "LAST_ACK"} /\ r.state # "GONE" /\ p.state # "GONE" /\ AtEnd(r) = AtEnd(p)
      BY <2>4 DEF AtEnd
    <2>6. Announced(r) /\ Had(r, u, <<>>) = Had(p, u, <<>>) /\ Edge(r) = Edge(p)
      BY <2>4 DEF Good, Announced, Had, Edge
    <2>7. Counts(r, u, <<>>, f)
      BY <2>4, <2>5, <2>6 DEF Good, Counts
    <2>8. Continues(r, u, <<>>)
      BY <2>4, <2>6 DEF Good, Continues
    <2>9. Ending(r, u, <<>>, f)
      BY <2>2, <2>4, <2>5, <2>6 DEF Good, Ending
    <2>10. Good(r, u, <<>>, f)
      BY <2>4, <2>5, <2>6, <2>7, <2>8, <2>9 DEF Good
    <2>11. Good(SendAck(r), u, <<>>, f) /\ Same(r, SendAck(r))
      BY <2>4, <2>6, <2>10, AcksSame, SameGood DEF Larger
    <2>12. Wider(p, SendAck(r))
      <3>1. p.rcv_wnd \in Nat
        BY GoodTypes
      <3> QED  BY <2>4, <2>11, <3>1 DEF Wider, Same
    <2> QED  BY <2>1, <2>11, <2>12 DEF c
  <1>4. CASE ~AllRead(p)
    <2>1. c = [pcb |-> Gone(q), user |-> u]
      BY <1>4 DEF tcp_close
    <2>2. Good(Gone(q), u, <<>>, f) /\ Gone(q).state = "GONE"
      <3> HIDE DEF F
      <3>1. f => f /\ p.refused = None /\ <<>> = <<>>
        OBVIOUS
      <3> QED  BY <1>1, <1>2, <3>1, GoneGood
    <2> QED  BY <2>1, <2>2 DEF Wider
  <1> QED  BY <1>3, <1>4

\* tcp_recved, of bytes that the user has.
LEMMA RecvedGood ==
  ASSUME NEW p, NEW u, NEW f, Good(p, u, <<>>, f), p.state # "GONE", NEW n \in Nat, n <= u.unread
  PROVE  LET q == tcp_recved(p, n)
             v == [u EXCEPT !.unread = @ - n]
         IN /\ Good(q, v, <<>>, f) /\ Wider(p, q)
            /\ q.state = p.state /\ q.refused = p.refused
            /\ q.rcv_nxt = p.rcv_nxt /\ q.rcv_wnd = p.rcv_wnd + n
            /\ "RXCLOSED" \in q.flags <=> "RXCLOSED" \in p.flags
  <1> DEFINE w == Min({Wnd, p.rcv_wnd + n})
             q == [p EXCEPT !.rcv_wnd = w]
             v == [u EXCEPT !.unread = u.unread - n]
             t == tcp_recved(p, n)
  <1>1. /\ p \in PcbType /\ p.rcv_wnd \in Nat /\ Wnd \in Nat /\ u.unread \in Nat /\ p.rcv_nxt \in Nat
        /\ Len(p.refused.data) \in Nat /\ u \in UserType /\ p.rcv_ann_right_edge \in Nat /\ p.rcv_ann_wnd \in Nat
    BY GoodTypes, Fields
  <1>2. w = p.rcv_wnd + n /\ w \in 0 .. Wnd
    <2>1. p.rcv_wnd + u.unread <= Wnd
      <3>1. p.rcv_wnd + u.unread + Len(p.refused.data) + Len(<<>>) + One(p.refused.fin) + One(f) = Wnd
        BY DEF Good, Counts
      <3>2. One(p.refused.fin) \in Nat /\ One(f) \in Nat /\ Len(<<>>) = 0
        BY DEF One
      <3> QED  BY <1>1, <3>1, <3>2, SMTT(30)
    <2>2. p.rcv_wnd + n <= Wnd
      BY <1>1, <2>1
    <2> QED  BY <1>1, <2>2, MinOfTwo, SMTT(30)
  <1> HIDE DEF w
  <1>3. /\ q \in PcbType /\ q.state = p.state /\ q.rcv_nxt = p.rcv_nxt /\ q.rcv_wnd = p.rcv_wnd + n
        /\ q.ooseq = p.ooseq /\ q.refused = p.refused /\ q.rcv_ann_wnd = p.rcv_ann_wnd
        /\ q.rcv_ann_right_edge = p.rcv_ann_right_edge /\ q.flags = p.flags
    BY <1>1, <1>2 DEF PcbType
  <1>4. v \in UserType /\ v.bytes = u.bytes /\ v.ended = u.ended /\ v.unread = u.unread - n
    BY <1>1, SMTT(30) DEF UserType
  <1>5. t = tcp_update_rcv_ann_wnd(q) \/ t = SendAck(tcp_update_rcv_ann_wnd(q))
    BY DEF tcp_recved, w, q, t
  <1> HIDE DEF q, v, t
  <1>6. Announced(q) /\ AtEnd(q) = AtEnd(p) /\ Had(q, v, <<>>) = Had(p, u, <<>>)
    <2>1. Announced(q)
      BY <1>1, <1>3 DEF Good, Announced
    <2> QED  BY <1>3, <1>4, <2>1 DEF AtEnd, Had
  <1>7. Counts(q, v, <<>>, f)
    <2>1. q.rcv_wnd + v.unread = p.rcv_wnd + u.unread
      BY <1>1, <1>3, <1>4
    <2> QED  BY <1>3, <1>6, <2>1 DEF Good, Counts
  <1>8. QueueOK(q.ooseq, q.rcv_nxt, Edge(q))
    <2>1. Edge(p) \in Nat /\ Edge(q) \in Nat /\ Edge(p) <= Edge(q)
      BY <1>1, <1>3 DEF Edge
    <2>2. QueueOK(p.ooseq, p.rcv_nxt, Edge(p))
      BY DEF Good
    <2> QED  BY <1>1, <1>3, <2>1, <2>2, QueueGrows
  <1>9. Good(q, v, <<>>, f)
    <2>1. Continues(q, v, <<>>)
      BY <1>3, <1>4, <1>6 DEF Good, Continues
    <2>2. Ending(q, v, <<>>, f)
      BY <1>3, <1>4, <1>6 DEF Good, Ending
    <2> QED  BY <1>3, <1>4, <1>6, <1>7, <1>8, <2>1, <2>2 DEF Good
  <1> DEFINE r == tcp_update_rcv_ann_wnd(q)
  <1>10. Same(q, r) /\ Announced(r)
    <2>1. q.rcv_ann_right_edge <= Edge(q)
      BY <1>1, <1>3, <1>6 DEF Announced, Edge
    <2> QED  BY <1>3, <2>1, UpdateSame DEF Larger
  <1> HIDE DEF r
  <1>11. Same(r, SendAck(r)) /\ Announced(SendAck(r))
    BY <1>10, AcksSame DEF Same, Larger
  <1>12. Good(r, v, <<>>, f) /\ Good(SendAck(r), v, <<>>, f)
    BY <1>9, <1>10, <1>11, SameGood
  <1>13. t = r \/ t = SendAck(r)
    BY <1>5 DEF r
  <1>14. /\ Good(t, v, <<>>, f) /\ t.state = p.state /\ t.refused = p.refused
         /\ t.rcv_nxt = p.rcv_nxt /\ t.rcv_wnd = p.rcv_wnd + n
         /\ "RXCLOSED" \in t.flags <=> "RXCLOSED" \in p.flags
    BY <1>3, <1>10, <1>11, <1>12, <1>13 DEF Same
  <1>15. Wider(p, t)
    BY <1>1, <1>14 DEF Wider
  <1>16. v = [u EXCEPT !.unread = @ - n]
    BY DEF v
  <1> QED  BY <1>14, <1>15, <1>16 DEF t

\* A field of the user's record is set.
LEMMA BytesSet ==
  ASSUME NEW u \in UserType, NEW b \in Seq(Nat)
  PROVE  /\ [u EXCEPT !.bytes = b] \in UserType
         /\ [u EXCEPT !.bytes = b].bytes = b /\ [u EXCEPT !.bytes = b].unread = u.unread
         /\ [u EXCEPT !.bytes = b].ended = u.ended
  BY DEF UserType

LEMMA UnreadSet ==
  ASSUME NEW u \in UserType, NEW n \in Nat
  PROVE  /\ [u EXCEPT !.unread = n] \in UserType
         /\ [u EXCEPT !.unread = n].bytes = u.bytes /\ [u EXCEPT !.unread = n].unread = n
         /\ [u EXCEPT !.unread = n].ended = u.ended
         /\ [[u EXCEPT !.unread = n] EXCEPT !.unread = u.unread] = u
  BY DEF UserType

\* The user with data that it keeps.
Keeping(u, d) == [[u EXCEPT !.bytes = u.bytes \o d] EXCEPT !.unread = u.unread + Len(d)]

Kept(u, v, d) == v.bytes = u.bytes \o d /\ v.unread = u.unread + Len(d) /\ v.ended = u.ended

\* Data that the user keeps moves from the window to unread.
LEMMA KeepGood ==
  ASSUME NEW p, NEW u, NEW d, NEW f, Good(p, u, d, f), d # <<>>, NEW v, v = Keeping(u, d)
  PROVE  /\ Good(p, v, <<>>, f) /\ Extends(u, v) /\ Kept(u, v, d)
  <1> DEFINE a == Len(u.bytes)
             n == Len(d)
             m == Len(p.refused.data)
             b == u.bytes \o d
             given == [u EXCEPT !.bytes = b]
  <1>1. /\ u \in UserType /\ u.bytes \in Seq(Nat) /\ d \in Seq(Nat) /\ u.unread \in Nat
        /\ a \in Nat /\ n \in Nat /\ f \in BOOLEAN /\ p \in PcbType /\ p.rcv_wnd \in Nat
    BY GoodTypes DEF Good
  <1>2. b \in Seq(Nat) /\ Len(b) = a + n
    BY <1>1
  <1>3. p.refused = None /\ ~u.ended
    BY DEF Good, Continues
  <1>4. m = 0 /\ p.refused.data = <<>> /\ ~p.refused.fin
    BY <1>3 DEF None
  <1> HIDE DEF a, n, b, m
  <1>5. v \in UserType /\ v.bytes = b /\ v.unread = u.unread + n /\ v.ended = u.ended
    <2>1. b \in Seq(Nat) /\ u.unread + n \in Nat
      BY <1>1, <1>2
    <2>2. given \in UserType /\ given.bytes = b /\ given.ended = u.ended
      BY <1>1, <2>1, BytesSet
    <2>3. v = [given EXCEPT !.unread = u.unread + n]
      BY DEF given, b, n, Keeping
    <2> DEFINE w == [given EXCEPT !.unread = u.unread + n]
    <2> HIDE DEF given
    <2>4. w \in UserType /\ w.bytes = b /\ w.unread = u.unread + n /\ w.ended = u.ended
      BY <2>1, <2>2, UnreadSet
    <2>5. v = w
      BY <2>3
    <2> HIDE DEF w
    <2> QED  BY <2>4, <2>5, Zenon
  <1>6. b = Run(1, a + n)
    <2>1. u.bytes = Run(1, a) /\ d = Run(a + 1, n)
      BY DEF Good, Continues, a, n
    <2>2. Run(1, a) \o Run(1 + a, n) = Run(1, a + n)
      BY <1>1, RunsJoin
    <2>3. 1 + a = a + 1
      BY <1>1
    <2> QED  BY <2>1, <2>2, <2>3 DEF b
  <1>7. Had(p, u, d) = (a + m) + n /\ Had(p, v, <<>>) = a + n /\ Had(p, u, d) = a + n
    <2>1. Len(v.bytes) = a + n /\ Len(<<>>) = 0
      BY <1>2, <1>5
    <2>2. Had(p, u, d) = (a + m) + n
      BY DEF Had, a, m, n
    <2>3. Had(p, v, <<>>) = (a + n) + m + 0
      BY <2>1 DEF Had, m
    <2> QED  BY <1>1, <1>4, <2>2, <2>3
  <1>8. Continues(p, v, <<>>)
    <2>1. Run(a + n + 1, 0) = <<>> /\ Len(<<>>) = 0
      BY <1>1, RunOfNone
    <2>2. Had(p, u, d) <= Total
      BY DEF Good, Continues
    <2> QED  BY <1>2, <1>4, <1>5, <1>6, <1>7, <2>1, <2>2 DEF Continues, m
  <1>9. Ending(p, v, <<>>, f)
    BY <1>3, <1>4, <1>5, <1>7 DEF Good, Ending
  <1>10. ASSUME p.state # "GONE" PROVE Counts(p, v, <<>>, f)
    <2>1. Counts(p, u, d, f)
      BY <1>10 DEF Good
    <2>2. p.rcv_wnd + u.unread + m + n + One(p.refused.fin) + One(f) = Wnd
      BY <2>1 DEF Counts, m, n
    <2>3. One(p.refused.fin) \in Nat /\ One(f) \in Nat /\ Len(<<>>) = 0
      BY DEF One
    <2>4. p.rcv_wnd + v.unread + m + 0 + One(p.refused.fin) + One(f) = Wnd
      BY <1>1, <1>4, <1>5, <2>2, <2>3
    <2> QED  BY <1>7, <2>1, <2>3, <2>4 DEF Counts, m
  <1>11. Good(p, v, <<>>, f)
    BY <1>5, <1>8, <1>9, <1>10 DEF Good
  <1>12. Extends(u, v)
    BY <1>1, <1>2, <1>3, <1>5 DEF Extends, a
  <1> QED  BY <1>5, <1>11, <1>12 DEF b, n, Kept

\* A user that was given nothing.
LEMMA SameUser == ASSUME NEW u, u.bytes \in Seq(Nat) PROVE Extends(u, u)
  BY DEF Extends

\* What was given twice in a step was given in order.
LEMMA ExtendsOn ==
  ASSUME NEW u \in UserType, NEW v \in UserType, NEW w \in UserType, Extends(u, v), Extends(v, w)
  PROVE  Extends(u, w)
  <1>1. /\ u.bytes \in Seq(Nat) /\ v.bytes \in Seq(Nat) /\ w.bytes \in Seq(Nat)
    BY DEF UserType
  <1>2. Len(u.bytes) \in Nat /\ Len(v.bytes) \in Nat /\ Len(w.bytes) \in Nat
    BY <1>1
  <1> QED  BY <1>2 DEF Extends

\* The recv callback.
LEMMA CallbackGood ==
  ASSUME NEW p, NEW u, NEW d, NEW f, Good(p, u, d, f), d # <<>>, p.state # "GONE",
         "RXCLOSED" \notin p.flags, NEW what \in Callbacks
  PROVE  LET c == Callback(p, u, d, what)
         IN Good(c.pcb, c.user, <<>>, f) /\ Extends(u, c.user) /\ Wider(p, c.pcb)
  <1> DEFINE n == Len(d)
             given == [u EXCEPT !.bytes = u.bytes \o d]
             v == [given EXCEPT !.unread = u.unread + n]
             q == tcp_recved(p, n)
             c == Callback(p, u, d, what)
  <1>1. /\ p \in PcbType /\ u \in UserType /\ d \in Seq(Nat) /\ f \in BOOLEAN /\ n \in Nat
        /\ u.bytes \in Seq(Nat) /\ u.unread \in Nat /\ u.ended \in BOOLEAN
        /\ p.rcv_nxt \in Nat /\ p.rcv_wnd \in Nat /\ p.state \in States
    BY GoodTypes DEF Good
  <1>2. p.refused = None /\ ~u.ended
    BY DEF Good, Continues
  <1>3. p.state \in {"ESTABLISHED", "CLOSE_WAIT"}
    BY <1>1 DEF Good, Ending, States
  <1>4. /\ Good(p, v, <<>>, f) /\ Extends(u, v)
        /\ v.bytes = u.bytes \o d /\ v.unread = u.unread + n /\ v.ended = u.ended
    <2>1. v = Keeping(u, d)
      BY DEF Keeping
    <2> HIDE DEF v
    <2>2. /\ Good(p, v, <<>>, f) /\ Extends(u, v) /\ Kept(u, v, d)
      BY <2>1, KeepGood
    <2> QED  BY <2>2 DEF Kept
  <1>5. what \in {"refuse", "keep", "read", "close"}
    BY ReceiveAssumption
  <1>6. given = [v EXCEPT !.unread = v.unread - n] /\ v \in UserType /\ given.unread = u.unread
    <2>1. u.bytes \o d \in Seq(Nat) /\ u.unread + n \in Nat
      BY <1>1
    <2>2. given \in UserType /\ given.unread = u.unread
      BY <1>1, <2>1, BytesSet
    <2> HIDE DEF n, given
    <2>3. v \in UserType /\ [v EXCEPT !.unread = given.unread] = given
      BY <2>1, <2>2, UnreadSet
    <2>4. v.unread - n = given.unread
      BY <1>1, <1>4, <2>2
    <2> QED  BY <2>2, <2>3, <2>4
  <1>7. Good(q, given, <<>>, f) /\ Wider(p, q) /\ q.state = p.state /\ q.refused = p.refused
    <2>1. n <= v.unread
      BY <1>1, <1>4
    <2> HIDE DEF n, given, v, q
    <2>2. LET t == tcp_recved(p, n)
              w == [v EXCEPT !.unread = @ - n]
          IN /\ Good(t, w, <<>>, f) /\ Wider(p, t) /\ t.state = p.state /\ t.refused = p.refused
      BY <1>1, <1>4, <2>1, RecvedGood
    <2> QED  BY <1>6, <2>2 DEF q
  <1>8. Extends(u, given)
    <2>1. given.bytes = v.bytes /\ given.ended = v.ended
      <3>1. u.bytes \o d \in Seq(Nat)
        BY <1>1
      <3>2. given.bytes = u.bytes \o d /\ given.ended = u.ended
        BY <1>1, <3>1, BytesSet
      <3> QED  BY <1>4, <3>2
    <2> QED  BY <1>4, <2>1 DEF Extends
  <1> HIDE DEF given, v, q
  <1>9. CASE what = "refuse"
    <2> DEFINE r == [data |-> d, fin |-> FALSE]
               t == [p EXCEPT !.refused = r]
    <2>1. c = [pcb |-> t, user |-> u]
      BY <1>9 DEF Callback
    <2>2. r \in [data : Seq(Nat), fin : BOOLEAN] /\ r.data = d /\ ~r.fin
      BY <1>1
    <2> HIDE DEF r
    <2>3. /\ t \in PcbType /\ t.state = p.state /\ t.rcv_nxt = p.rcv_nxt /\ t.rcv_wnd = p.rcv_wnd
          /\ t.ooseq = p.ooseq /\ t.refused = r /\ t.rcv_ann_wnd = p.rcv_ann_wnd
          /\ t.rcv_ann_right_edge = p.rcv_ann_right_edge /\ t.flags = p.flags
      BY <1>1, <2>2 DEF PcbType
    <2> HIDE DEF t
    <2> DEFINE a == Len(u.bytes)
    <2>4. a \in Nat /\ Len(<<>>) = 0 /\ Len(p.refused.data) = 0 /\ ~p.refused.fin
      BY <1>1, <1>2 DEF None
    <2>5. Had(t, u, <<>>) = Had(p, u, d) /\ AtEnd(t) = AtEnd(p) /\ Edge(t) = Edge(p)
      <3>1. Had(t, u, <<>>) = a + n + 0
        BY <2>2, <2>3, <2>4 DEF Had
      <3>2. Had(p, u, d) = a + 0 + n
        BY <2>4 DEF Had
      <3> HIDE DEF a, n
      <3> QED  BY <1>1, <2>3, <2>4, <3>1, <3>2 DEF AtEnd, Edge
    <2>6. Continues(t, u, <<>>)
      <3>1. Run(a + 1, 0) = <<>>
        BY <2>4, RunOfNone
      <3> QED  BY <2>2, <2>3, <2>4, <2>5, <3>1 DEF Good, Continues
    <2>7. Counts(t, u, <<>>, f)
      <3>1. Counts(p, u, d, f)
        BY DEF Good
      <3>2. p.rcv_wnd + u.unread + 0 + n + One(p.refused.fin) + One(f) = Wnd
        BY <2>4, <3>1 DEF Counts
      <3>3. One(p.refused.fin) = 0 /\ One(r.fin) = 0 /\ One(f) \in Nat
        BY <2>2, <2>4 DEF One
      <3> HIDE DEF n
      <3>4. p.rcv_wnd + u.unread + n + 0 + One(r.fin) + One(f) = Wnd
        BY <1>1, <3>2, <3>3
      <3> QED  BY <2>2, <2>3, <2>4, <2>5, <3>1, <3>4 DEF Counts, n
    <2>8. Ending(t, u, <<>>, f)
      BY <1>2, <1>3, <2>2, <2>3, <2>5 DEF Good, Ending
    <2>9. Announced(t) /\ QueueOK(t.ooseq, t.rcv_nxt, Edge(t))
      BY <2>3, <2>5 DEF Good, Announced
    <2>10. Good(t, u, <<>>, f)
      BY <1>1, <2>3, <2>6, <2>7, <2>8, <2>9 DEF Good
    <2> QED  BY <1>1, <2>1, <2>3, <2>10, SameUser DEF Wider
  <1>10. CASE what = "keep"
    <2>1. c = [pcb |-> p, user |-> v]
      <3>1. v = [given EXCEPT !.unread = given.unread + n]
        BY <1>6 DEF v
      <3>2. c = [pcb |-> p, user |-> [given EXCEPT !.unread = given.unread + n]]
        BY <1>10 DEF Callback, given
      <3> QED  BY <3>1, <3>2
    <2> QED  BY <1>1, <1>4, <2>1 DEF Wider
  <1>11. CASE what = "read"
    <2>1. c = [pcb |-> q, user |-> given]
      BY <1>11 DEF Callback, q, given
    <2> QED  BY <1>7, <1>8, <2>1
  <1>12. CASE what = "close"
    <2>1. c = tcp_close(q, given)
      BY <1>12 DEF Callback, q, given
    <2>2. q.state \in {"ESTABLISHED", "CLOSE_WAIT"} /\ (f => q.refused = None)
      BY <1>2, <1>3, <1>7
    <2> DEFINE t == tcp_close(q, given)
    <2>3. t.user = given /\ Good(t.pcb, given, <<>>, f) /\ Wider(q, t.pcb)
      BY <1>1, <1>7, <2>2, CloseGood
    <2>4. p.rcv_wnd \in Nat /\ q.rcv_wnd \in Nat /\ (t.pcb.state # "GONE" => t.pcb.rcv_wnd \in Nat)
      BY <1>7, <2>3, GoodTypes
    <2> HIDE DEF t
    <2>5. Wider(p, t.pcb)
      BY <1>3, <1>7, <2>3, <2>4 DEF Wider
    <2> QED  BY <1>8, <2>1, <2>3, <2>5 DEF t
  <1> QED  BY <1>5, <1>9, <1>10, <1>11, <1>12

\* The end of the stream.
LEMMA EndSeenGood ==
  ASSUME NEW p, NEW u, NEW f, Good(p, u, <<>>, f)
  PROVE  LET c == EndSeen([pcb |-> p, user |-> u], f)
         IN Good(c.pcb, c.user, <<>>, FALSE) /\ Extends(u, c.user) /\ Wider(p, c.pcb) /\ c.pcb.state = p.state
  <1> DEFINE c == EndSeen([pcb |-> p, user |-> u], f)
             a == Len(u.bytes)
             m == Len(p.refused.data)
  <1>1. /\ p \in PcbType /\ u \in UserType /\ f \in BOOLEAN
        /\ u.bytes \in Seq(Nat) /\ u.unread \in Nat /\ u.ended \in BOOLEAN
        /\ p.refused \in [data : Seq(Nat), fin : BOOLEAN] /\ p.refused.data \in Seq(Nat)
        /\ p.rcv_nxt \in Nat /\ p.rcv_wnd \in Nat /\ p.rcv_wnd <= Wnd /\ Wnd \in Nat /\ a \in Nat /\ m \in Nat
        /\ p.rcv_ann_wnd \in Nat
    BY GoodTypes, Fields
  <1>2. Extends(u, u) /\ Wider(p, p) /\ Len(<<>>) = 0
    BY <1>1, SameUser DEF Wider
  <1> SUFFICES Good(c.pcb, c.user, <<>>, FALSE) /\ Extends(u, c.user) /\ Wider(p, c.pcb) /\ c.pcb.state = p.state
    BY Zenon
  <1> HIDE DEF c
  <1>3. CASE ~f
    <2>1. c = [pcb |-> p, user |-> u] /\ f = FALSE
      BY <1>1, <1>3 DEF EndSeen, c
    <2> QED  BY <1>2, <2>1
  <1>4. CASE f /\ p.refused # None
    <2> DEFINE r == [data |-> p.refused.data, fin |-> TRUE]
               q == [p EXCEPT !.refused = r]
    <2>1. c = [pcb |-> q, user |-> u]
      BY <1>4 DEF EndSeen, c
    <2>2. r \in [data : Seq(Nat), fin : BOOLEAN] /\ r.data = p.refused.data /\ r.fin
      BY <1>1
    <2> HIDE DEF r
    <2>3. /\ q \in PcbType /\ q.state = p.state /\ q.rcv_nxt = p.rcv_nxt /\ q.rcv_wnd = p.rcv_wnd
          /\ q.ooseq = p.ooseq /\ q.refused = r /\ q.rcv_ann_wnd = p.rcv_ann_wnd
          /\ q.rcv_ann_right_edge = p.rcv_ann_right_edge /\ q.flags = p.flags
      BY <1>1, <2>2 DEF PcbType
    <2> HIDE DEF q
    <2>4. Had(q, u, <<>>) = Had(p, u, <<>>) /\ AtEnd(q) = AtEnd(p) /\ Edge(q) = Edge(p)
      BY <2>2, <2>3 DEF Had, AtEnd, Edge
    <2>5. ~u.ended /\ ~p.refused.fin /\ Had(p, u, <<>>) = Total /\ p.state # "GONE" /\ AtEnd(p)
      BY <1>4 DEF Good, Ending
    <2>6. p.refused.data # <<>>
      <3>1. SUFFICES ASSUME p.refused.data = <<>> PROVE p.refused = None
        BY <1>4
      <3>2. p.refused.fin = FALSE
        BY <1>1, <2>5
      <3>3. p.refused = [data |-> p.refused.data, fin |-> p.refused.fin]
        BY <1>1
      <3> QED  BY <3>1, <3>2, <3>3 DEF None
    <2>7. Continues(q, u, <<>>)
      BY <2>2, <2>3, <2>4 DEF Good, Continues
    <2>8. Counts(q, u, <<>>, FALSE)
      <3>1. Counts(p, u, <<>>, f)
        BY <2>5 DEF Good
      <3>2. One(f) = 1 /\ One(FALSE) = 0 /\ One(r.fin) = 1 /\ One(p.refused.fin) = 0
        BY <1>4, <2>2, <2>5 DEF One
      <3>3. p.rcv_wnd + u.unread + m + Len(<<>>) + One(p.refused.fin) + One(f) = Wnd
        BY <3>1 DEF Counts
      <3> DEFINE x == One(f)
                 y == One(FALSE)
                 z == One(p.refused.fin)
                 w == One(r.fin)
      <3>5. x = 1 /\ y = 0 /\ w = 1 /\ z = 0
        BY <3>2
      <3> HIDE DEF m, x, y, z, w
      <3>6. p.rcv_wnd + u.unread + m + Len(<<>>) + z + x = Wnd
        BY <3>3 DEF x, z
      <3>7. p.rcv_wnd + u.unread + m + Len(<<>>) + w + y = Wnd
        BY <1>1, <1>2, <3>5, <3>6
      <3>4. p.rcv_wnd + u.unread + m + Len(<<>>) + One(r.fin) + One(FALSE) = Wnd
        BY <3>7 DEF w, y
      <3> QED  BY <2>2, <2>3, <2>4, <3>1, <3>4 DEF Counts, m
    <2>9. Ending(q, u, <<>>, FALSE)
      BY <1>4, <2>2, <2>3, <2>4, <2>5, <2>6 DEF Good, Ending
    <2>10. Announced(q) /\ QueueOK(q.ooseq, q.rcv_nxt, Edge(q))
      BY <2>3, <2>4 DEF Good, Announced
    <2>11. Good(q, u, <<>>, FALSE)
      BY <1>1, <2>3, <2>5, <2>7, <2>8, <2>9, <2>10 DEF Good
    <2> QED  BY <1>1, <1>2, <2>1, <2>3, <2>11 DEF Wider
  <1>5. CASE f /\ p.refused = None
    <2> DEFINE w == IF p.rcv_wnd = Wnd \/ p.state = "GONE" THEN p.rcv_wnd ELSE p.rcv_wnd + 1
               q == [p EXCEPT !.rcv_wnd = w]
               v == [u EXCEPT !.ended = TRUE]
    <2>1. c = [pcb |-> q, user |-> v]
      BY <1>5 DEF EndSeen, c
    <2>2. w \in 0 .. Wnd /\ p.rcv_wnd <= w
      BY <1>1
    <2>3. p.state # "GONE" => w = p.rcv_wnd + 1
      <3> SUFFICES ASSUME p.state # "GONE" PROVE w = p.rcv_wnd + 1
        OBVIOUS
      <3>1. p.rcv_wnd + u.unread + m + Len(<<>>) + One(p.refused.fin) + One(f) = Wnd
        BY DEF Good, Counts
      <3>2. One(f) = 1 /\ One(p.refused.fin) \in Nat
        BY <1>5 DEF One
      <3> HIDE DEF m
      <3>3. p.rcv_wnd # Wnd
        BY <1>1, <1>2, <3>1, <3>2
      <3> QED  BY <3>3
    <2> HIDE DEF w
    <2>4. /\ q \in PcbType /\ q.state = p.state /\ q.rcv_nxt = p.rcv_nxt /\ q.rcv_wnd = w
          /\ q.ooseq = p.ooseq /\ q.refused = p.refused /\ q.rcv_ann_wnd = p.rcv_ann_wnd
          /\ q.rcv_ann_right_edge = p.rcv_ann_right_edge /\ q.flags = p.flags
      BY <1>1, <2>2 DEF PcbType
    <2>5. v \in UserType /\ v.bytes = u.bytes /\ v.unread = u.unread /\ v.ended
      BY <1>1 DEF UserType
    <2> HIDE DEF q, v
    <2>6. Had(q, v, <<>>) = Had(p, u, <<>>) /\ AtEnd(q) = AtEnd(p)
      BY <2>4, <2>5 DEF Had, AtEnd
    <2>7. ~u.ended /\ Had(p, u, <<>>) = Total /\ (p.state # "GONE" => AtEnd(p))
      BY <1>5 DEF Good, Ending
    <2>8. a = Total
      BY <1>1, <1>2, <1>5, <2>7 DEF Had, None
    <2>9. Continues(q, v, <<>>)
      BY <2>4, <2>5, <2>6 DEF Good, Continues
    <2>10. ASSUME p.state # "GONE" PROVE Counts(q, v, <<>>, FALSE)
      <3>1. Counts(p, u, <<>>, f)
        BY <2>10 DEF Good
      <3>2. One(f) = 1 /\ One(FALSE) = 0 /\ One(p.refused.fin) \in Nat
        BY <1>5 DEF One
      <3>3. p.rcv_wnd + u.unread + m + Len(<<>>) + One(p.refused.fin) + One(f) = Wnd
        BY <3>1 DEF Counts
      <3> DEFINE x == One(f)
                 y == One(FALSE)
                 z == One(p.refused.fin)
      <3>5. x = 1 /\ y = 0 /\ z \in Nat
        BY <3>2
      <3> HIDE DEF m, x, y, z
      <3>6. p.rcv_wnd + u.unread + m + Len(<<>>) + z + x = Wnd
        BY <3>3 DEF x, z
      <3>8. q.rcv_wnd = p.rcv_wnd + 1 /\ v.unread = u.unread
        BY <2>3, <2>4, <2>5, <2>10
      <3>7. q.rcv_wnd + v.unread + m + Len(<<>>) + z + y = Wnd
        <4> DEFINE k == p.rcv_wnd
                   n == u.unread
        <4>1. k \in Nat /\ n \in Nat /\ m \in Nat /\ Wnd \in Nat
          BY <1>1
        <4>2. k + n + m + 0 + z + 1 = Wnd
          BY <1>2, <3>5, <3>6
        <4> HIDE DEF k, n
        <4>3. (k + 1) + n + m + 0 + z + 0 = Wnd
          BY <3>5, <4>1, <4>2
        <4> QED  BY <1>2, <3>5, <3>8, <4>3 DEF k, n
      <3>4. q.rcv_wnd + v.unread + m + Len(<<>>) + One(p.refused.fin) + One(FALSE) = Wnd
        BY <3>7 DEF z, y
      <3> QED  BY <2>4, <2>5, <2>6, <3>1, <3>4 DEF Counts, m
    <2>11. Ending(q, v, <<>>, FALSE)
      <3>1. ~p.refused.fin
        BY <1>5 DEF None
      <3> QED  BY <1>5, <2>4, <2>5, <2>6, <2>7, <2>8, <3>1 DEF Good, Ending
    <2>12. Announced(q) /\ QueueOK(q.ooseq, q.rcv_nxt, Edge(q))
      <3>1. Announced(q)
        BY <1>1, <2>2, <2>4 DEF Good, Announced
      <3>2. Edge(p) \in Nat /\ Edge(q) \in Nat /\ Edge(p) <= Edge(q)
        BY <1>1, <2>2, <2>4 DEF Edge
      <3>3. QueueOK(p.ooseq, p.rcv_nxt, Edge(p))
        BY DEF Good
      <3> QED  BY <1>1, <2>4, <3>1, <3>2, <3>3, QueueGrows
    <2>13. Good(q, v, <<>>, FALSE)
      <3>1. <<>> \in Seq(Nat) /\ FALSE \in BOOLEAN
        OBVIOUS
      <3> QED  BY <1>5, <2>4, <2>5, <2>9, <2>10, <2>11, <2>12, <3>1 DEF Good
    <2>14. Extends(u, v)
      BY <1>1, <2>5, <2>7 DEF Extends
    <2>15. Wider(p, q)
      BY <2>2, <2>4 DEF Wider
    <2> QED  BY <2>1, <2>4, <2>13, <2>14, <2>15
  <1> QED  BY <1>1, <1>3, <1>4, <1>5

\* tcp_process_refused_data.
LEMMA RefusedGood ==
  ASSUME NEW p, NEW u, Good(p, u, <<>>, FALSE), p.refused # None, NEW what \in Callbacks
  PROVE  LET c == tcp_process_refused_data(p, u, what)
         IN Good(c.pcb, c.user, <<>>, FALSE) /\ Extends(u, c.user) /\ Wider(p, c.pcb)
  <1> DEFINE d == p.refused.data
             f == p.refused.fin
             q == [p EXCEPT !.refused = None]
             c == Callback(q, u, d, what)
             e == EndSeen(c, f)
  <1>1. /\ p \in PcbType /\ u \in UserType
        /\ u.bytes \in Seq(Nat) /\ u.unread \in Nat /\ u.ended \in BOOLEAN /\ Len(u.bytes) \in Nat
        /\ p.refused \in [data : Seq(Nat), fin : BOOLEAN] /\ d \in Seq(Nat) /\ f \in BOOLEAN
        /\ p.rcv_nxt \in Nat /\ p.rcv_wnd \in Nat /\ Len(d) \in Nat
    BY GoodTypes
  <1>2. p.state # "GONE" /\ ~u.ended /\ "RXCLOSED" \notin p.flags
    BY DEF Good, Ending
  <1>3. d # <<>>
    <2>1. SUFFICES ASSUME d = <<>> PROVE p.refused = None
      OBVIOUS
    <2>2. f = FALSE
      BY <1>1, <2>1 DEF Good, Ending
    <2>3. p.refused = [data |-> d, fin |-> f]
      BY <1>1
    <2> QED  BY <2>1, <2>2, <2>3 DEF None
  <1>4. /\ q \in PcbType /\ q.state = p.state /\ q.rcv_nxt = p.rcv_nxt /\ q.rcv_wnd = p.rcv_wnd
        /\ q.ooseq = p.ooseq /\ q.refused = None /\ q.rcv_ann_wnd = p.rcv_ann_wnd
        /\ q.rcv_ann_right_edge = p.rcv_ann_right_edge /\ q.flags = p.flags
    <2>1. None \in [data : Seq(Nat), fin : BOOLEAN]
      BY DEF None
    <2> QED  BY <1>1, <2>1 DEF PcbType
  <1> HIDE DEF q
  <1>5. Len(<<>>) = 0 /\ None.data = <<>> /\ ~None.fin
    BY DEF None
  <1>6. Had(q, u, d) = Had(p, u, <<>>) /\ AtEnd(q) = AtEnd(p) /\ Edge(q) = Edge(p)
    <2> DEFINE a == Len(u.bytes)
               n == Len(d)
    <2>1. Had(q, u, d) = a + 0 + n /\ Had(p, u, <<>>) = a + n + 0
      BY <1>4, <1>5 DEF Had
    <2> HIDE DEF a, n
    <2>2. a \in Nat /\ n \in Nat
      BY <1>1 DEF a, n
    <2> QED  BY <1>4, <2>1, <2>2 DEF AtEnd, Edge
  <1>7. Good(q, u, d, f)
    <2>1. Continues(q, u, d)
      <3>1. Run(Len(u.bytes) + 1, 0) = <<>>
        BY <1>1, RunOfNone
      <3>2. Continues(p, u, <<>>)
        BY DEF Good
      <3> QED  BY <1>2, <1>4, <1>5, <1>6, <3>1, <3>2 DEF Continues
    <2>2. Counts(q, u, d, f)
      <3>1. Counts(p, u, <<>>, FALSE)
        BY <1>2 DEF Good
      <3> DEFINE n == Len(d)
      <3>2. p.rcv_wnd + u.unread + n + 0 + One(f) + One(FALSE) = Wnd
        BY <1>5, <3>1 DEF Counts
      <3>3. One(None.fin) = 0 /\ One(FALSE) = 0 /\ One(f) \in Nat /\ n \in Nat
        BY <1>1, <1>5 DEF One
      <3> DEFINE x == One(f)
                 y == One(FALSE)
                 z == One(None.fin)
      <3>5. x \in Nat /\ y = 0 /\ z = 0
        BY <3>3
      <3> HIDE DEF n, f, d, x, y, z
      <3>6. p.rcv_wnd + u.unread + n + 0 + x + y = Wnd
        BY <3>2 DEF x, y
      <3>7. q.rcv_wnd + u.unread + 0 + n + z + x = Wnd
        BY <1>1, <1>4, <3>3, <3>5, <3>6
      <3>4. q.rcv_wnd + u.unread + 0 + n + One(None.fin) + One(f) = Wnd
        BY <3>7 DEF z, x
      <3> QED  BY <1>4, <1>5, <1>6, <3>1, <3>4 DEF Counts, n
    <2>3. Ending(q, u, d, f)
      <3>1. Ending(p, u, <<>>, FALSE) /\ Counts(p, u, <<>>, FALSE)
        BY <1>2 DEF Good
      <3>2. f => AtEnd(p) /\ Had(p, u, <<>>) = Total
        BY <1>2, <3>1 DEF Ending, Counts
      <3> QED  BY <1>2, <1>4, <1>5, <1>6, <3>1, <3>2 DEF Ending
    <2>4. Announced(q) /\ QueueOK(q.ooseq, q.rcv_nxt, Edge(q))
      BY <1>4, <1>6 DEF Good, Announced
    <2> QED  BY <1>1, <1>4, <2>1, <2>2, <2>3, <2>4 DEF Good
  <1> HIDE DEF d, f
  <1>8. Good(c.pcb, c.user, <<>>, f) /\ Extends(u, c.user) /\ Wider(q, c.pcb)
    BY <1>2, <1>3, <1>4, <1>7, CallbackGood
  <1> HIDE DEF c
  <1>9. c = [pcb |-> c.pcb, user |-> c.user]
    <2> DEFINE b == [u EXCEPT !.bytes = @ \o d]
    <2>1. what \in {"refuse", "keep", "read", "close"}
      BY ReceiveAssumption
    <2> HIDE DEF b
    <2> QED  BY <2>1 DEF c, Callback, tcp_close
  <1> DEFINE x == c.pcb
             y == c.user
  <1>10. e = EndSeen([pcb |-> x, user |-> y], f)
    BY <1>9 DEF e
  <1>11. Good(x, y, <<>>, f)
    BY <1>8
  <1> HIDE DEF x, y, e
  <1>12. Good(e.pcb, e.user, <<>>, FALSE) /\ Extends(y, e.user) /\ Wider(x, e.pcb) /\ e.pcb.state = x.state
    BY <1>10, <1>11, EndSeenGood, ZenonT(40)
  <1>13. Extends(u, e.user)
    <2>1. y \in UserType /\ e.user \in UserType
      BY <1>11, <1>12, GoodTypes
    <2> QED  BY <1>1, <1>8, <1>12, <2>1, ExtendsOn DEF y
  <1>14. Wider(p, e.pcb)
    <2>1. x.rcv_wnd \in Nat /\ e.pcb.rcv_wnd \in Nat
      BY <1>11, <1>12, GoodTypes
    <2> QED  BY <1>1, <1>4, <1>8, <1>12, <2>1 DEF Wider, x
  <1> QED  BY <1>12, <1>13, <1>14 DEF tcp_process_refused_data, c, d, f, q, e

\* A queue above a number is above a smaller one.
LEMMA QueueLower ==
  ASSUME NEW q, NEW low \in Nat, NEW high, NEW less \in Nat, QueueOK(q, low, high), less <= low
  PROVE  QueueOK(q, less, high)
  <1>1. ASSUME NEW i \in DOMAIN q PROVE q[i].seq > less
    <2>1. q[i].seq > low /\ q[i].seq \in Nat
      BY Ends DEF QueueOK
    <2> QED  BY <2>1
  <1> QED  BY <1>1 DEF QueueOK

\* The PCB after a segment that was in sequence; n numbers were taken from the window.
After(p, nxt, rest) ==
    [p EXCEPT !.rcv_nxt = nxt, !.rcv_wnd = @ - (nxt - p.rcv_nxt), !.ooseq = rest]

\* What a segment in sequence brings.
Joined(p, s) ==
    IF s.fin THEN Brings(s, <<>>) ELSE Brings(Clipped(s, p.ooseq), Uncovered(s, p.ooseq))

\* tcp_receive in terms of what is brought.
LEMMA NextIs ==
  ASSUME NEW p, NEW s, Fitted(p, s) = s, s.seq = p.rcv_nxt, ~s.fin => Clipped(s, p.ooseq).seq = s.seq
  PROVE  LET b == Joined(p, s)
         IN NextInSequence(p, s) =
              [pcb |-> tcp_ack(tcp_update_rcv_ann_wnd(After(p, EndOf(b.last), b.rest))),
               data |-> b.data, fin |-> b.last.fin]
  <1>1. CASE s.fin
    BY <1>1, ZenonT(40) DEF NextInSequence, Brings, EndOf, After, Joined
  <1>2. CASE ~s.fin
    BY <1>2, ZenonT(60) DEF NextInSequence, Brings, EndOf, Clipped, After, Joined
  <1> QED  BY <1>1, <1>2

\* What is brought: the bytes from rcv_nxt on, and perhaps the FIN.
LEMMA JoinedIs ==
  ASSUME NEW p, NEW u, Good(p, u, <<>>, FALSE), NEW s, Piece(s), s.seq = p.rcv_nxt, EndOf(s) <= Edge(p)
  PROVE  LET b == Joined(p, s)
         IN /\ EndOf(b.last) \in Nat /\ p.rcv_nxt <= EndOf(b.last) /\ EndOf(b.last) <= Edge(p) /\ EndOf(b.last) <= Total + 2
            /\ b.last.fin \in BOOLEAN /\ b.data \in Seq(Nat)
            /\ b.data = Run(p.rcv_nxt, Len(b.data))
            /\ Len(b.data) + One(b.last.fin) = EndOf(b.last) - p.rcv_nxt
            /\ b.last.fin <=> EndOf(b.last) = Total + 2
            /\ QueueOK(b.rest, EndOf(b.last), Edge(p))
            /\ ~s.fin => Clipped(s, p.ooseq).seq = s.seq
  <1> DEFINE low == p.rcv_nxt - 1
             c == IF s.fin THEN s ELSE Clipped(s, p.ooseq)
             q == IF s.fin THEN <<>> ELSE Uncovered(s, p.ooseq)
             b == Brings(c, q)
             high == Edge(p)
  <1>1. p \in PcbType /\ high \in Nat /\ low \in Nat /\ p.rcv_nxt \in Nat /\ low <= p.rcv_nxt /\ low < p.rcv_nxt
    <2>1. p.rcv_nxt \in 1 .. Total + 2
      BY GoodTypes, Fields
    <2>2. p \in PcbType /\ high \in Nat /\ Total \in Nat
      BY GoodTypes, Fields, ReceiveAssumption
    <2>3. low \in Nat /\ p.rcv_nxt \in Nat /\ low <= p.rcv_nxt /\ low < p.rcv_nxt
      BY <2>1, <2>2
    <2> QED  BY <2>2, <2>3
  <1>2. QueueOK(p.ooseq, p.rcv_nxt, high)
    BY DEF Good
  <1>3. QueueOK(p.ooseq, low, high)
    <2> HIDE DEF low, high
    <2> QED  BY <1>1, <1>2, QueueLower
  <1>4. ASSUME NEW i \in DOMAIN p.ooseq PROVE p.ooseq[i].seq >= s.seq
    <2>1. p.ooseq[i].seq > p.rcv_nxt /\ p.ooseq[i].seq \in Nat
      BY <1>2, Ends DEF QueueOK
    <2> QED  BY <1>1, <2>1
  <1>5. /\ Piece(c) /\ c.seq = s.seq /\ EndOf(c) <= high /\ QueueOK(q, low, high)
        /\ \A i \in DOMAIN q : EndOf(c) <= q[i].seq
    <2>1. CASE s.fin
      <3>1. c = s /\ q = <<>>
        BY <2>1
      <3>2. QueueOK(<<>>, low, high)
        BY DEF QueueOK
      <3> HIDE DEF c, q
      <3> QED  BY <3>1, <3>2
    <2>2. CASE ~s.fin
      <3>1. c = Clipped(s, p.ooseq) /\ q = Uncovered(s, p.ooseq)
        BY <2>2
      <3> HIDE DEF low, high, c, q
      <3>2. s.seq > low /\ EndOf(s) <= high
        BY <1>1 DEF high
      <3> QED  BY <1>1, <1>3, <1>4, <2>2, <3>1, <3>2, ClippedFits
    <2> QED  BY <2>1, <2>2
  <1>6. Joined(p, s) = b
    BY DEF Joined
  <1>7. ~s.fin => Clipped(s, p.ooseq).seq = s.seq
    BY <1>5
  <1> HIDE DEF c, q, low, high
  <1>8. /\ Piece(b.last) /\ EndOf(b.last) <= high /\ c.seq <= b.last.seq + b.last.len
        /\ b.data = Run(c.seq, (b.last.seq + b.last.len) - c.seq)
        /\ QueueOK(b.rest, EndOf(b.last), high)
    BY <1>1, <1>5, BroughtInOrder
  <1> HIDE DEF b
  <1> DEFINE k == (b.last.seq + b.last.len) - p.rcv_nxt
             e == EndOf(b.last)
             g == b.last.fin
  <1>9. /\ e \in Nat /\ g \in BOOLEAN /\ k \in Nat /\ p.rcv_nxt <= e
        /\ k + One(g) = e - p.rcv_nxt /\ e <= Total + 2 /\ (g <=> e = Total + 2)
    <2>1. /\ e \in Nat /\ b.last.seq \in Nat /\ b.last.len \in Nat /\ g \in BOOLEAN
          /\ b.last.seq + b.last.len <= e
          /\ e = IF g THEN Total + 2 ELSE b.last.seq + b.last.len
      BY <1>8, Ends
    <2>2. b.last.seq + b.last.len <= Total + 1 /\ (g => b.last.seq + b.last.len = Total + 1)
      BY <1>8 DEF Piece
    <2>3. p.rcv_nxt <= b.last.seq + b.last.len
      BY <1>5, <1>8
    <2>4. One(g) = IF g THEN 1 ELSE 0
      BY DEF One
    <2> HIDE DEF e, g
    <2>5. CASE g
      BY <1>1, <2>1, <2>2, <2>3, <2>4, <2>5, ReceiveAssumption, SMTT(30)
    <2>6. CASE ~g
      BY <1>1, <2>1, <2>2, <2>3, <2>4, <2>6, ReceiveAssumption
    <2> QED  BY <2>5, <2>6
  <1>10. b.data = Run(p.rcv_nxt, k)
    BY <1>5, <1>8
  <1> HIDE DEF k
  <1>11. b.data \in Seq(Nat) /\ Len(b.data) = k
    BY <1>1, <1>9, <1>10, RunsJoin, ZenonT(40)
  <1> QED  BY <1>6, <1>7, <1>8, <1>9, <1>10, <1>11 DEF high

\* tcp_receive and tcp_process for a segment in sequence.
LEMMA NextGood ==
  ASSUME NEW p, NEW u, Good(p, u, <<>>, FALSE), p.state \in {"ESTABLISHED", "FIN_WAIT"}, p.refused = None,
         NEW s, Piece(s), s.seq = p.rcv_nxt, EndOf(s) <= Edge(p)
  PROVE  LET r == NextInSequence(p, s)
         IN Good(AfterFin(r), u, r.data, r.fin) /\ AfterFin(r).state # "GONE"
  <1> DEFINE b == Joined(p, s)
             d == b.data
             f == b.last.fin
             nxt == EndOf(b.last)
             x == After(p, nxt, b.rest)
             y == tcp_ack(tcp_update_rcv_ann_wnd(x))
             S == IF f THEN (IF p.state = "FIN_WAIT" THEN "TIME_WAIT" ELSE "CLOSE_WAIT") ELSE p.state
             z == IF f THEN AckNow([y EXCEPT !.state = S]) ELSE y
             r == NextInSequence(p, s)
  <1>1. /\ p \in PcbType /\ u \in UserType /\ p.rcv_nxt \in Nat /\ p.rcv_wnd \in Nat /\ p.rcv_wnd <= Wnd
        /\ Wnd \in Nat /\ Total \in Nat /\ u.bytes \in Seq(Nat) /\ Len(u.bytes) \in Nat /\ u.unread \in Nat
        /\ p.rcv_nxt \in 1 .. Total + 2 /\ p.rcv_ann_right_edge \in Nat /\ p.rcv_ann_wnd \in Nat
        /\ p.flags \subseteq Flags /\ Edge(p) \in Nat
    BY GoodTypes, Fields
  <1>2. /\ nxt \in Nat /\ p.rcv_nxt <= nxt /\ nxt <= Edge(p) /\ nxt <= Total + 2
        /\ f \in BOOLEAN /\ d \in Seq(Nat) /\ d = Run(p.rcv_nxt, Len(d))
        /\ Len(d) + One(f) = nxt - p.rcv_nxt /\ (f <=> nxt = Total + 2)
        /\ QueueOK(b.rest, nxt, Edge(p))
        /\ ~s.fin => Clipped(s, p.ooseq).seq = s.seq
    BY JoinedIs
  <1>3. Fitted(p, s) = s
    <2>1. EndOf(s) = s.seq + TcpLen(s) /\ EndOf(s) \in Nat /\ s.seq \in Nat
      BY Ends DEF EndOf
    <2>2. TcpLen(s) \in Int
      <3>1. s.len \in Nat
        BY Ends
      <3> QED  BY <3>1 DEF TcpLen
    <2>3. ~(TcpLen(s) > p.rcv_wnd)
      BY <1>1, <2>1, <2>2 DEF Edge
    <2> QED  BY <2>3 DEF Fitted
  <1>4. r = [pcb |-> y, data |-> d, fin |-> f]
    BY <1>2, <1>3, NextIs
  <1> DEFINE n == Len(d)
  <1>5. n \in Nat /\ One(f) \in Nat /\ b.rest \in Seq(Segment)
    BY <1>2 DEF One, QueueOK
  <1> HIDE DEF b, d, f, nxt, n
  <1>6. /\ x \in PcbType /\ x.state = p.state /\ x.rcv_nxt = nxt
        /\ x.rcv_wnd = p.rcv_wnd - (nxt - p.rcv_nxt) /\ x.ooseq = b.rest /\ x.refused = p.refused
        /\ x.rcv_ann_right_edge = p.rcv_ann_right_edge /\ x.flags = p.flags
    <2> DEFINE w == p.rcv_wnd - (nxt - p.rcv_nxt)
    <2>1. w \in 0 .. Wnd /\ nxt \in 1 .. Total + 2
      <3> DEFINE k == p.rcv_nxt
                 m == p.rcv_wnd
      <3>1. k \in Nat /\ m \in Nat /\ m <= Wnd /\ Wnd \in Nat /\ Total \in Nat /\ 1 <= k
        BY <1>1
      <3>2. nxt \in Nat /\ k <= nxt /\ nxt <= k + m /\ nxt <= Total + 2
        BY <1>2 DEF Edge
      <3> HIDE DEF k, m
      <3>3. m - (nxt - k) \in 0 .. Wnd /\ nxt \in 1 .. Total + 2
        BY <3>1, <3>2
      <3> QED  BY <3>3 DEF k, m
    <2>2. x = [p EXCEPT !.rcv_nxt = nxt, !.rcv_wnd = w, !.ooseq = b.rest]
      BY <1>1 DEF After
    <2> HIDE DEF w, x
    <2>3. /\ x \in PcbType /\ x.state = p.state /\ x.rcv_nxt = nxt
          /\ x.rcv_wnd = w /\ x.ooseq = b.rest /\ x.refused = p.refused
          /\ x.rcv_ann_right_edge = p.rcv_ann_right_edge /\ x.flags = p.flags
      BY <1>1, <1>5, <2>1, <2>2 DEF PcbType
    <2> QED  BY <2>3 DEF w
  <1> HIDE DEF x
  <1>7. Edge(x) = Edge(p)
    BY <1>1, <1>2, <1>6 DEF Edge
  <1>8. x.rcv_ann_right_edge <= Edge(x)
    <2>1. p.rcv_ann_right_edge <= Edge(p)
      BY <1>1 DEF Good, Announced, Edge
    <2> QED  BY <1>6, <1>7, <2>1
  <1>9. Same(x, y) /\ Announced(y)
    <2> DEFINE t == tcp_update_rcv_ann_wnd(x)
    <2>1. Same(x, t) /\ Larger(x, t)
      BY <1>6, <1>8, UpdateSame
    <2> HIDE DEF t
    <2>2. Same(t, tcp_ack(t)) /\ Larger(t, tcp_ack(t))
      BY <2>1, AcksSame DEF Same, Larger
    <2>3. y = tcp_ack(t)
      BY DEF t
    <2> HIDE DEF y
    <2> QED  BY <2>1, <2>2, <2>3 DEF Same, Larger
  <1> HIDE DEF y
  <1>10. S \in States /\ S # "GONE"
    BY DEF States
  <1> HIDE DEF S
  <1>11. /\ z \in PcbType /\ z.state = S /\ z.rcv_nxt = nxt /\ z.rcv_wnd = x.rcv_wnd
         /\ z.ooseq = b.rest /\ z.refused = p.refused /\ Announced(z)
         /\ "RXCLOSED" \in z.flags <=> "RXCLOSED" \in p.flags
    <2>1. CASE ~f
      <3>1. z = y /\ S = p.state
        BY <2>1 DEF S
      <3> HIDE DEF z
      <3> QED  BY <1>6, <1>9, <3>1 DEF Same
    <2>2. CASE f
      <3> DEFINE t == [y EXCEPT !.state = S]
      <3>1. /\ t \in PcbType /\ t.state = S /\ t.rcv_nxt = y.rcv_nxt /\ t.rcv_wnd = y.rcv_wnd
            /\ t.ooseq = y.ooseq /\ t.refused = y.refused /\ t.flags = y.flags
            /\ t.rcv_ann_wnd = y.rcv_ann_wnd /\ t.rcv_ann_right_edge = y.rcv_ann_right_edge
        BY <1>9, <1>10 DEF Same, PcbType
      <3>2. z = AckNow(t)
        BY <2>2
      <3> HIDE DEF t, z
      <3>3. Announced(t)
        BY <1>9, <3>1 DEF Announced
      <3>4. Same(t, z) /\ Announced(z)
        BY <3>1, <3>2, <3>3, AcksSame DEF Larger
      <3> QED  BY <1>6, <1>9, <3>1, <3>4 DEF Same
    <2> QED  BY <2>1, <2>2
  <1>12. AfterFin(r) = z
    <2>1. CASE f
      <3>1. S = IF y.state = "FIN_WAIT" THEN "TIME_WAIT" ELSE "CLOSE_WAIT"
        BY <1>6, <1>9, <2>1 DEF Same, S
      <3> HIDE DEF r
      <3> QED  BY <1>4, <2>1, <3>1 DEF AfterFin
    <2>2. CASE ~f
      <3> HIDE DEF r
      <3> QED  BY <1>4, <2>2 DEF AfterFin
    <2> QED  BY <2>1, <2>2
  <1> HIDE DEF z, r
  <1>13. /\ ~u.ended /\ ~AtEnd(p) /\ Counts(p, u, <<>>, FALSE) /\ p.state # "GONE"
    BY DEF Good, Ending, AtEnd
  <1>14. Len(<<>>) = 0 /\ None.data = <<>> /\ ~None.fin
    BY DEF None
  <1> DEFINE a == Len(u.bytes)
  <1>15. a = p.rcv_nxt - 1 /\ a \in Nat
    <2>1. Had(p, u, <<>>) = a + 0 + 0 /\ One(AtEnd(p)) = 0
      BY <1>13, <1>14 DEF Had, One
    <2>2. Had(p, u, <<>>) + 0 = p.rcv_nxt - 1
      BY <1>13, <2>1 DEF Counts
    <2> QED  BY <1>1, <2>1, <2>2
  <1>16. Had(z, u, d) = a + n
    <2>1. Had(z, u, d) = a + 0 + n
      BY <1>11, <1>14 DEF Had, n
    <2> HIDE DEF a
    <2> QED  BY <1>5, <1>15, <2>1
  <1>17. (AtEnd(z) <=> f) /\ (f => a + n = Total) /\ a + n <= Total
    <2>1. AtEnd(z) <=> f
      <3>1. z.state = S
        BY <1>11
      <3> QED  BY <3>1 DEF AtEnd, S
    <2>2. n + One(f) = nxt - p.rcv_nxt
      BY <1>2 DEF n
    <2> DEFINE o == One(f)
               k == p.rcv_nxt
    <2>5. /\ k \in Nat /\ nxt \in Nat /\ nxt <= Total + 2 /\ Total \in Nat /\ n \in Nat /\ o \in Nat
          /\ a \in Nat /\ a = k - 1 /\ n + o = nxt - k
      BY <1>1, <1>2, <1>5, <1>15, <2>2
    <2>6. (f => o = 1 /\ nxt = Total + 2) /\ (~f => o = 0 /\ nxt # Total + 2)
      BY <1>2 DEF One
    <2> HIDE DEF a, o, k
    <2>3. CASE f
      <3>1. a + n = Total
        BY <2>3, <2>5, <2>6
      <3> QED  BY <2>1, <2>3, <2>5, <3>1
    <2>4. CASE ~f
      <3>1. a + n = nxt - 1 /\ nxt # Total + 2
        BY <2>4, <2>5, <2>6
      <3>2. a + n <= Total
        BY <2>5, <3>1
      <3> QED  BY <2>1, <2>4, <3>2
    <2> QED  BY <2>3, <2>4
  <1>18. Continues(z, u, d)
    <2>1. u.bytes = Run(1, a)
      BY DEF Good, Continues
    <2>2. Run(a + 1, 0) = <<>>
      BY <1>15, RunOfNone
    <2>3. d = Run(a + 1, Len(d))
      <3>1. a + 1 = p.rcv_nxt
        BY <1>1, <1>15
      <3> QED  BY <1>2, <3>1
    <2> QED  BY <1>11, <1>13, <1>14, <1>16, <1>17, <2>1, <2>2, <2>3 DEF Continues
  <1>19. Counts(z, u, d, f)
    <2>1. Had(z, u, d) + One(AtEnd(z)) = z.rcv_nxt - 1 /\ (AtEnd(z) => Had(z, u, d) = Total)
      <3>1. One(AtEnd(z)) = One(f)
        BY <1>17 DEF One
      <3>2. n + One(f) = nxt - p.rcv_nxt
        BY <1>2 DEF n
      <3> DEFINE o == One(f)
                 k == p.rcv_nxt
      <3>4. /\ k \in Nat /\ nxt \in Nat /\ n \in Nat /\ o \in Nat
            /\ a \in Nat /\ a = k - 1 /\ n + o = nxt - k
        BY <1>1, <1>2, <1>5, <1>15, <3>2
      <3> HIDE DEF a, o, k
      <3>5. a + n + o = nxt - 1
        BY <3>4
      <3>3. a + n + One(f) = nxt - 1
        BY <3>5 DEF o
      <3> QED  BY <1>11, <1>16, <1>17, <3>1, <3>3
    <2>2. z.rcv_wnd + u.unread + Len(z.refused.data) + Len(d) + One(z.refused.fin) + One(f) = Wnd
      <3>1. p.rcv_wnd + u.unread + 0 + 0 + One(p.refused.fin) + One(FALSE) = Wnd
        BY <1>13, <1>14 DEF Counts
      <3>2. One(p.refused.fin) = 0 /\ One(FALSE) = 0 /\ One(z.refused.fin) = 0
        BY <1>11, <1>14 DEF One
      <3>3. p.rcv_wnd + u.unread = Wnd
        <4> DEFINE o1 == One(p.refused.fin)
                   o2 == One(FALSE)
        <4>1. o1 = 0 /\ o2 = 0
          BY <3>2
        <4>2. p.rcv_wnd + u.unread + 0 + 0 + o1 + o2 = Wnd
          BY <3>1
        <4> HIDE DEF o1, o2
        <4> QED  BY <1>1, <4>1, <4>2
      <3>4. n + One(f) = nxt - p.rcv_nxt /\ z.rcv_wnd = p.rcv_wnd - (nxt - p.rcv_nxt)
        BY <1>2, <1>6, <1>11 DEF n
      <3> DEFINE o == One(f)
                 v == One(z.refused.fin)
      <3>5. o \in Nat /\ v = 0
        BY <1>5, <3>2
      <3>6. n + o = nxt - p.rcv_nxt
        BY <3>4
      <3> HIDE DEF o, v
      <3> DEFINE w == p.rcv_wnd
                 t == u.unread
                 k == nxt - p.rcv_nxt
      <3>8. w \in Nat /\ t \in Nat /\ k \in Int /\ n \in Nat /\ n + o = k /\ w + t = Wnd /\ z.rcv_wnd = w - k
        BY <1>1, <1>2, <1>5, <3>3, <3>4, <3>6
      <3> HIDE DEF w, t, k
      <3>9. (w - k) + t + 0 + n + v + o = Wnd
        BY <3>5, <3>8
      <3>7. z.rcv_wnd + u.unread + 0 + n + v + o = Wnd
        BY <3>8, <3>9 DEF t
      <3> QED  BY <1>11, <1>14, <3>7 DEF o, v, n
    <2> QED  BY <2>1, <2>2 DEF Counts
  <1>20. Ending(z, u, d, f)
    <2>1. "RXCLOSED" \in p.flags <=> p.state \in {"FIN_WAIT", "LAST_ACK", "TIME_WAIT"}
      BY <1>13 DEF Good, Ending
    <2>2. "RXCLOSED" \in p.flags <=> S \in {"FIN_WAIT", "LAST_ACK", "TIME_WAIT"}
      BY <2>1 DEF S
    <2>3. f => Had(z, u, d) = Total
      BY <1>16, <1>17
    <2> QED  BY <1>11, <1>13, <1>14, <1>17, <2>2, <2>3 DEF Ending
  <1>21. QueueOK(z.ooseq, z.rcv_nxt, Edge(z))
    <2>1. Edge(z) = Edge(x)
      BY <1>6, <1>11 DEF Edge
    <2> QED  BY <1>2, <1>7, <1>11, <2>1
  <1>22. Good(z, u, d, f)
    BY <1>1, <1>2, <1>10, <1>11, <1>18, <1>19, <1>20, <1>21 DEF Good
  <1>23. r.data = d /\ r.fin = f
    BY <1>4
  <1>24. Good(AfterFin(r), u, r.data, r.fin) /\ AfterFin(r).state # "GONE"
    BY <1>10, <1>11, <1>12, <1>22, <1>23, Zenon
  <1> QED  BY <1>24 DEF r

\* A segment is cut to what is new, and ends where it did.
LEMMA TrimmedIs ==
  ASSUME NEW p, p.rcv_nxt \in Nat \ {0}, NEW s, Piece(s)
  PROVE  LET t == Trimmed(p, s)
         IN Piece(t) /\ EndOf(t) = EndOf(s) /\ (t = s \/ (t.seq = p.rcv_nxt /\ s.seq < p.rcv_nxt))
  <1> DEFINE k == p.rcv_nxt
             n == k - s.seq
             t == [s EXCEPT !.seq = k, !.from = s.from + n, !.len = s.len - n]
  <1>1. CASE ~(s.seq < k /\ k < s.seq + TcpLen(s))
    <2>1. Trimmed(p, s) = s
      BY <1>1 DEF Trimmed
    <2> QED  BY <2>1
  <1>2. CASE s.seq < k /\ k < s.seq + TcpLen(s)
    <2>1. Trimmed(p, s) = t
      BY <1>2 DEF Trimmed
    <2>2. /\ s \in Segment /\ s.seq \in Nat /\ s.from = s.seq /\ s.len \in Nat /\ s.fin \in BOOLEAN
          /\ s.seq + s.len <= Total + 1 /\ (s.fin => s.seq + s.len = Total + 1) /\ k \in Nat /\ k > 0
      BY Ends DEF Piece
    <2>3. k <= s.seq + s.len /\ s.seq < k
      BY <1>2, <2>2 DEF TcpLen
    <2>4. /\ n \in Nat /\ n <= s.len /\ s.len - n \in Nat /\ s.from + n = k
          /\ k + (s.len - n) = s.seq + s.len
      BY <2>2, <2>3
    <2> HIDE DEF n
    <2>5. t \in Segment /\ t.seq = k /\ t.from = k /\ t.len = s.len - n /\ t.fin = s.fin
      BY <2>2, <2>4 DEF Segment
    <2> HIDE DEF t, k
    <2>6. t.seq + t.len = s.seq + s.len
      BY <2>4, <2>5
    <2>7. Piece(t)
      BY <2>2, <2>5, <2>6 DEF Piece
    <2>8. EndOf(t) = EndOf(s)
      BY <2>5, <2>6, <2>7, Ends
    <2>9. t.seq = p.rcv_nxt /\ s.seq < p.rcv_nxt
      BY <1>2, <2>5 DEF k
    <2> QED  BY <2>1, <2>7, <2>8, <2>9
  <1> QED  BY <1>1, <1>2

\* A segment that brings nothing.
LEMMA NothingGood ==
  ASSUME NEW p, NEW u, Good(p, u, <<>>, FALSE), p.state # "GONE"
  PROVE  LET r == Nothing(p)
         IN Good(AfterFin(r), u, r.data, r.fin) /\ AfterFin(r).state # "GONE"
  BY DEF Nothing, AfterFin

\* An ACK is due, or is sent.
LEMMA AcksGood ==
  ASSUME NEW p, NEW u, Good(p, u, <<>>, FALSE)
  PROVE  /\ Good(AckNow(p), u, <<>>, FALSE) /\ AckNow(p).state = p.state
         /\ Good(SendAck(p), u, <<>>, FALSE) /\ SendAck(p).state = p.state
         /\ Good(Output(p), u, <<>>, FALSE)
         /\ Same(p, AckNow(p)) /\ Same(p, SendAck(p)) /\ Same(p, Output(p))
  <1>1. p \in PcbType /\ Announced(p)
    BY DEF Good
  <1>2. /\ Same(p, AckNow(p)) /\ Larger(p, AckNow(p))
        /\ Same(p, SendAck(p)) /\ Larger(p, SendAck(p))
        /\ Same(p, Output(p)) /\ Larger(p, Output(p))
    BY <1>1, AcksSame
  <1>3. Good(AckNow(p), u, <<>>, FALSE) /\ Good(SendAck(p), u, <<>>, FALSE) /\ Good(Output(p), u, <<>>, FALSE)
    BY <1>2, SameGood DEF Larger
  <1> QED  BY <1>2, <1>3 DEF Same

\* tcp_receive and tcp_process, for a segment within the window or beyond it.
LEMMA TextGood ==
  ASSUME NEW p, NEW u, Good(p, u, <<>>, FALSE), p.state \in {"ESTABLISHED", "FIN_WAIT"}, p.refused = None,
         NEW s, Piece(s), EndOf(s) <= Edge(p) \/ s.seq >= Edge(p), NEW mem \in BOOLEAN
  PROVE  LET r == Text(p, s, mem)
         IN Good(AfterFin(r), u, r.data, r.fin) /\ AfterFin(r).state # "GONE"
  <1> DEFINE t == Trimmed(p, s)
             q == IF t.seq < p.rcv_nxt THEN AckNow(p) ELSE p
             a == SendAck(q)
             r == Text(p, s, mem)
             Fine == Good(AfterFin(r), u, r.data, r.fin) /\ AfterFin(r).state # "GONE"
  <1>1. p \in PcbType /\ p.rcv_nxt \in Nat \ {0} /\ p.rcv_nxt \in Nat /\ p.rcv_wnd \in Nat /\ Edge(p) \in Nat
    BY GoodTypes, Fields DEF Good
  <1>2. Piece(t) /\ EndOf(t) = EndOf(s) /\ (t = s \/ (t.seq = p.rcv_nxt /\ s.seq < p.rcv_nxt))
    BY <1>1, TrimmedIs
  <1>3. t.seq \in Nat /\ EndOf(t) \in Nat /\ s.seq \in Nat /\ t.seq <= EndOf(t)
    BY <1>2, Ends
  <1> HIDE DEF t
  <1>4. Good(q, u, <<>>, FALSE) /\ Same(p, q)
    <2>1. Good(AckNow(p), u, <<>>, FALSE) /\ Same(p, AckNow(p))
      BY AcksGood
    <2>2. Good(p, u, <<>>, FALSE) /\ Same(p, p)
      BY <1>1 DEF Same
    <2> QED  BY <2>1, <2>2
  <1> HIDE DEF q
  <1>5. Good(a, u, <<>>, FALSE) /\ Same(q, a)
    BY <1>4, AcksGood
  <1> HIDE DEF a
  <1>6. a.state = p.state /\ a.rcv_nxt = p.rcv_nxt /\ Edge(a) = Edge(p)
    BY <1>4, <1>5 DEF Same, Edge
  <1>7. InWindow(p, t.seq) => p.rcv_nxt <= t.seq /\ t.seq < Edge(p) /\ EndOf(t) <= Edge(p)
    <2> SUFFICES ASSUME InWindow(p, t.seq) PROVE p.rcv_nxt <= t.seq /\ t.seq < Edge(p) /\ EndOf(t) <= Edge(p)
      OBVIOUS
    <2>1. p.rcv_nxt <= t.seq /\ t.seq < Edge(p) /\ p.rcv_nxt <= Edge(p)
      BY <1>1, <1>3 DEF InWindow, Edge
    <2>2. s.seq < Edge(p)
      BY <1>1, <1>2, <1>3, <2>1
    <2>3. EndOf(s) <= Edge(p)
      BY <1>1, <1>3, <2>2
    <2> QED  BY <1>2, <2>1, <2>3
  <1>8. CASE ~InWindow(p, t.seq)
    <2>1. r = Nothing(a)
      BY <1>8 DEF Text, t, a, q
    <2> HIDE DEF r
    <2>2. Fine
      BY <1>5, <1>6, <2>1, NothingGood
    <2> QED  BY <2>2 DEF r
  <1>9. CASE InWindow(p, t.seq) /\ t.seq = p.rcv_nxt
    <2>1. r = NextInSequence(p, t)
      BY <1>9 DEF Text, t
    <2> HIDE DEF r
    <2>2. Fine
      BY <1>2, <1>7, <1>9, <2>1, NextGood
    <2> QED  BY <2>2 DEF r
  <1>10. CASE InWindow(p, t.seq) /\ t.seq # p.rcv_nxt
    <2> DEFINE o == IF mem THEN Queued(t, a.ooseq) ELSE a.ooseq
               b == [a EXCEPT !.ooseq = o]
    <2>1. r = Nothing(b)
      BY <1>10 DEF Text, t, a, q
    <2> HIDE DEF r
    <2>2. QueueOK(o, a.rcv_nxt, Edge(a))
      <3>1. QueueOK(a.ooseq, a.rcv_nxt, Edge(a)) /\ a.rcv_nxt \in Nat /\ Edge(a) \in Nat
        BY <1>1, <1>5, <1>6 DEF Good
      <3>2. t.seq > a.rcv_nxt /\ EndOf(t) <= Edge(a)
        BY <1>1, <1>3, <1>6, <1>7, <1>10
      <3>3. QueueOK(Queued(t, a.ooseq), a.rcv_nxt, Edge(a))
        BY <1>2, <3>1, <3>2, QueuedFits
      <3> QED  BY <3>1, <3>3
    <2> HIDE DEF o
    <2>3. /\ b \in PcbType /\ b.state = a.state /\ b.rcv_nxt = a.rcv_nxt /\ b.rcv_wnd = a.rcv_wnd
          /\ b.ooseq = o /\ b.refused = a.refused /\ b.flags = a.flags /\ b.rcv_ann_wnd = a.rcv_ann_wnd
          /\ b.rcv_ann_right_edge = a.rcv_ann_right_edge
      <3>1. a \in PcbType /\ o \in Seq(Segment)
        BY <1>5, <2>2 DEF Good, QueueOK
      <3> QED  BY <3>1 DEF PcbType
    <2> HIDE DEF b
    <2>4. AtEnd(b) = AtEnd(a) /\ Had(b, u, <<>>) = Had(a, u, <<>>) /\ Edge(b) = Edge(a) /\ Announced(b)
      BY <1>5, <2>3 DEF Good, Announced, AtEnd, Had, Edge
    <2>5. Continues(b, u, <<>>) /\ Counts(b, u, <<>>, FALSE)
      BY <1>5, <1>6, <2>3, <2>4 DEF Good, Continues, Counts
    <2>6. Ending(b, u, <<>>, FALSE)
      BY <1>5, <2>3, <2>4 DEF Good, Ending
    <2>7. Good(b, u, <<>>, FALSE)
      BY <1>5, <1>6, <2>2, <2>3, <2>4, <2>5, <2>6 DEF Good
    <2>8. Fine
      BY <1>6, <2>1, <2>3, <2>7, NothingGood
    <2> QED  BY <2>8 DEF r
  <1> QED  BY <1>8, <1>9, <1>10

\* tcp_receive and tcp_process, whatever the segment and the state.
LEMMA ReceiveGood ==
  ASSUME NEW p, NEW u, Good(p, u, <<>>, FALSE), p.state # "GONE", NEW s, Piece(s),
         p.refused = None \/ TcpLen(s) = 0, EndOf(s) <= Edge(p) \/ s.seq >= Edge(p), NEW mem \in BOOLEAN
  PROVE  LET r == tcp_receive(p, s, mem)
         IN Good(AfterFin(r), u, r.data, r.fin) /\ AfterFin(r).state # "GONE"
  <1> DEFINE r == tcp_receive(p, s, mem)
             Fine == Good(AfterFin(r), u, r.data, r.fin) /\ AfterFin(r).state # "GONE"
  <1>1. CASE TcpLen(s) > 0 /\ p.state \in {"ESTABLISHED", "FIN_WAIT"}
    <2>1. r = Text(p, s, mem) /\ p.refused = None
      BY <1>1 DEF tcp_receive
    <2> HIDE DEF r
    <2>2. Fine
      BY <1>1, <2>1, TextGood
    <2> QED  BY <2>2 DEF r
  <1>2. CASE ~(TcpLen(s) > 0 /\ p.state \in {"ESTABLISHED", "FIN_WAIT"})
    <2>1. r = Nothing(p) \/ r = Nothing(AckNow(p))
      BY <1>2 DEF tcp_receive
    <2> HIDE DEF r
    <2>2. Good(AckNow(p), u, <<>>, FALSE) /\ AckNow(p).state # "GONE"
      BY AcksGood
    <2>3. Fine
      BY <2>1, <2>2, NothingGood
    <2> QED  BY <2>3 DEF r
  <1> QED  BY <1>1, <1>2

\* Data for a user that has closed the connection aborts it; otherwise the user
\* gets it, and is told of the end.
LEMMA DeliveredGood ==
  ASSUME NEW r, NEW u, Good(AfterFin(r), u, r.data, r.fin), AfterFin(r).state # "GONE", NEW what \in Callbacks
  PROVE  LET c == Delivered(r, u, what)
         IN Good(c.pcb, c.user, <<>>, FALSE) /\ Extends(u, c.user)
  <1> DEFINE p == AfterFin(r)
             d == r.data
             f == r.fin
             c == Delivered(r, u, what)
             Fine == Good(c.pcb, c.user, <<>>, FALSE) /\ Extends(u, c.user)
  <1>1. p \in PcbType /\ u \in UserType /\ u.bytes \in Seq(Nat) /\ p.flags \subseteq Flags
    BY GoodTypes, Fields
  <1>2. Good(p, u, d, f) /\ p.state # "GONE"
    OBVIOUS
  <1>3. Extends(u, u)
    BY <1>1, SameUser
  <1>4. c = IF d # <<>> /\ "RXCLOSED" \in p.flags THEN [pcb |-> Gone(p), user |-> u]
            ELSE EndSeen(IF d = <<>> THEN [pcb |-> p, user |-> u] ELSE Callback(p, u, d, what), f)
    BY DEF Delivered
  <1> HIDE DEF p, d, f, c
  <1>5. CASE d # <<>> /\ "RXCLOSED" \in p.flags
    <2> DEFINE F == p.flags
    <2>1. [p EXCEPT !.flags = F] = p
      BY <1>1 DEF PcbType
    <2>2. Good(Gone([p EXCEPT !.flags = F]), u, <<>>, FALSE)
      <3>1. F \subseteq Flags /\ FALSE \in BOOLEAN
        BY <1>1
      <3>2. FALSE => f /\ p.refused = None /\ d = <<>>
        OBVIOUS
      <3> HIDE DEF F
      <3> QED  BY <1>2, <3>1, <3>2, GoneGood
    <2>3. c.pcb = Gone(p) /\ c.user = u
      BY <1>4, <1>5
    <2>4. Fine
      BY <1>3, <2>1, <2>2, <2>3
    <2> QED  BY <2>4 DEF c
  <1>6. CASE d = <<>>
    <2>1. c = EndSeen([pcb |-> p, user |-> u], f) /\ Good(p, u, <<>>, f)
      BY <1>2, <1>4, <1>6
    <2>2. Fine
      BY <2>1, EndSeenGood
    <2> QED  BY <2>2 DEF c
  <1>7. CASE d # <<>> /\ "RXCLOSED" \notin p.flags
    <2> DEFINE e == Callback(p, u, d, what)
               x == e.pcb
               y == e.user
    <2>1. Good(x, y, <<>>, f) /\ Extends(u, y)
      BY <1>2, <1>7, CallbackGood
    <2>2. e = [pcb |-> x, user |-> y]
      <3>1. what \in {"refuse", "keep", "read", "close"}
        BY ReceiveAssumption
      <3> QED  BY <3>1 DEF Callback, tcp_close
    <2>3. c = EndSeen(e, f)
      BY <1>4, <1>7
    <2> HIDE DEF e, x, y
    <2>4. c = EndSeen([pcb |-> x, user |-> y], f)
      BY <2>2, <2>3
    <2>5. Good(c.pcb, c.user, <<>>, FALSE) /\ Extends(y, c.user)
      BY <2>1, <2>4, EndSeenGood
    <2>6. Fine
      <3>1. y \in UserType /\ c.user \in UserType
        BY <2>1, <2>5, GoodTypes
      <3> QED  BY <1>1, <2>1, <2>5, <3>1, ExtendsOn
    <2> QED  BY <2>6 DEF c
  <1> QED  BY <1>5, <1>6, <1>7

\* The invariant, between the steps.
ReceiveInv == Good(pcb, user, <<>>, FALSE)

\* The handshake has announced the whole window.
LEMMA ReceiveStarts == ReceiveInit => ReceiveInv
  <1> SUFFICES ASSUME ReceiveInit PROVE ReceiveInv
    OBVIOUS
  <1>1. /\ pcb = [state |-> "ESTABLISHED", rcv_nxt |-> 1, rcv_wnd |-> Wnd, rcv_ann_wnd |-> Wnd,
                  rcv_ann_right_edge |-> 1 + Wnd, ooseq |-> <<>>, refused |-> None, flags |-> {}]
        /\ user = [bytes |-> <<>>, ended |-> FALSE, unread |-> 0]
    BY DEF ReceiveInit
  <1>2. Total \in Nat /\ Wnd \in Nat /\ 1 \in 1 .. Total + 2 /\ Wnd \in 0 .. Wnd /\ 1 + Wnd \in Nat
    BY ReceiveAssumption
  <1>3. <<>> \in Seq(Nat) /\ <<>> \in Seq(Segment) /\ None \in [data : Seq(Nat), fin : BOOLEAN]
    BY DEF None
  <1>4. pcb \in PcbType
    BY <1>1, <1>2, <1>3 DEF PcbType, States, Flags
  <1>5. user \in UserType
    BY <1>1, <1>3 DEF UserType
  <1>6. /\ pcb.state = "ESTABLISHED" /\ pcb.rcv_nxt = 1 /\ pcb.rcv_wnd = Wnd /\ pcb.rcv_ann_wnd = Wnd
        /\ pcb.rcv_ann_right_edge = 1 + Wnd /\ pcb.ooseq = <<>> /\ pcb.refused = None /\ pcb.flags = {}
        /\ user.bytes = <<>> /\ ~user.ended /\ user.unread = 0
    BY <1>1
  <1>7. Announced(pcb) /\ QueueOK(pcb.ooseq, pcb.rcv_nxt, Edge(pcb))
    BY <1>2, <1>3, <1>6 DEF Announced, QueueOK
  <1>8. None.data = <<>> /\ ~None.fin /\ Len(<<>>) = 0
    BY DEF None
  <1>9. Had(pcb, user, <<>>) = 0 /\ ~AtEnd(pcb)
    BY <1>6, <1>8 DEF Had, AtEnd
  <1>10. Continues(pcb, user, <<>>)
    <2>1. Run(1, 0) = <<>> /\ Run(0 + 1, 0) = <<>>
      BY RunOfNone
    <2> QED  BY <1>2, <1>6, <1>8, <1>9, <2>1 DEF Continues
  <1>11. Ending(pcb, user, <<>>, FALSE)
    BY <1>6, <1>8 DEF Ending
  <1>12. Counts(pcb, user, <<>>, FALSE)
    <2>1. One(pcb.refused.fin) = 0 /\ One(FALSE) = 0 /\ One(AtEnd(pcb)) = 0
      BY <1>6, <1>8, <1>9 DEF One
    <2>2. Had(pcb, user, <<>>) + One(AtEnd(pcb)) = pcb.rcv_nxt - 1
      BY <1>6, <1>9, <2>1
    <2>3. pcb.rcv_wnd + user.unread + Len(pcb.refused.data) + Len(<<>>) + One(pcb.refused.fin) + One(FALSE) = Wnd
      <3> DEFINE x == One(pcb.refused.fin)
                 y == One(FALSE)
      <3>1. x = 0 /\ y = 0
        BY <2>1
      <3> HIDE DEF x, y
      <3>2. Wnd + 0 + 0 + 0 + x + y = Wnd
        BY <1>2, <3>1
      <3> QED  BY <1>6, <1>8, <3>2 DEF x, y
    <2> QED  BY <1>9, <2>2, <2>3 DEF Counts
  <1> QED  BY <1>3, <1>4, <1>5, <1>6, <1>7, <1>10, <1>11, <1>12 DEF ReceiveInv, Good

\* tcp_input.
LEMMA ArriveGood ==
  ASSUME ReceiveInv, Arrive PROVE ReceiveInv' /\ Extends(user, user')
  <1>1. PICK seq \in 1 .. Total + 1, len \in 0 .. Mss, fin \in BOOLEAN, mem \in BOOLEAN,
             again \in Callbacks, what \in Callbacks :
          LET s == [seq |-> seq, from |-> seq, len |-> len, fin |-> fin]
          IN pcb.state \notin {"GONE", "TIME_WAIT"} /\ Sendable(s) /\ tcp_input(s, mem, again, what)
    BY DEF Arrive
  <1> DEFINE s == [seq |-> seq, from |-> seq, len |-> len, fin |-> fin]
             c == IF pcb.refused = None THEN [pcb |-> pcb, user |-> user]
                  ELSE tcp_process_refused_data(pcb, user, again)
             r == tcp_receive(c.pcb, s, mem)
             d == Delivered(r, c.user, what)
  <1>2. /\ s.seq = seq /\ s.from = seq /\ s.len = len /\ s.fin = fin /\ s \in Segment
        /\ seq \in Nat /\ len \in Nat /\ seq > 0
    BY ReceiveAssumption DEF Segment
  <1>3. /\ pcb.state # "GONE" /\ Sendable(s)
        /\ IF c.pcb.state = "GONE" \/ (c.pcb.refused # None /\ TcpLen(s) > 0)
           THEN pcb' = c.pcb /\ user' = c.user
           ELSE pcb' = Output(d.pcb) /\ user' = d.user
    BY <1>1 DEF tcp_input
  <1>4. Good(pcb, user, <<>>, FALSE)
    BY DEF ReceiveInv
  <1>5. pcb \in PcbType /\ user \in UserType /\ user.bytes \in Seq(Nat) /\ pcb.rcv_wnd \in Nat /\ pcb.rcv_nxt \in Nat
    BY <1>4, GoodTypes
  <1>6. Good(c.pcb, c.user, <<>>, FALSE) /\ Extends(user, c.user) /\ Wider(pcb, c.pcb)
    <2>1. CASE pcb.refused = None
      <3>1. c.pcb = pcb /\ c.user = user
        BY <2>1
      <3>2. Extends(user, user) /\ Wider(pcb, pcb)
        BY <1>5, SameUser DEF Wider
      <3> HIDE DEF c
      <3> QED  BY <1>4, <3>1, <3>2
    <2>2. CASE pcb.refused # None
      <3>1. c = tcp_process_refused_data(pcb, user, again)
        BY <2>2
      <3> HIDE DEF c
      <3> QED  BY <1>4, <2>2, <3>1, RefusedGood
    <2> QED  BY <2>1, <2>2
  <1> HIDE DEF s, c, r
  <1>7. CASE c.pcb.state = "GONE" \/ (c.pcb.refused # None /\ TcpLen(s) > 0)
    BY <1>3, <1>6, <1>7 DEF ReceiveInv
  <1>8. CASE ~(c.pcb.state = "GONE" \/ (c.pcb.refused # None /\ TcpLen(s) > 0))
    <2>1. Piece(s)
      BY <1>2, <1>3 DEF Sendable, Piece
    <2>2. /\ s.seq \in Nat /\ EndOf(s) \in Nat /\ TcpLen(s) \in Nat /\ EndOf(s) = s.seq + TcpLen(s)
      <3>1. s.len \in Nat
        BY <2>1, Ends
      <3> QED  BY <2>1, <3>1, Ends DEF TcpLen, EndOf
    <2>3. EndOf(s) <= Edge(c.pcb) \/ s.seq >= Edge(c.pcb)
      <3> DEFINE x == pcb.rcv_ann_right_edge
                 e == Edge(c.pcb)
      <3>1. x \in Nat /\ e \in Nat /\ x <= e
        <4>1. c.pcb.rcv_nxt = pcb.rcv_nxt /\ c.pcb.rcv_wnd >= pcb.rcv_wnd
          BY <1>6, <1>8 DEF Wider
        <4>2. /\ pcb.rcv_ann_right_edge <= pcb.rcv_nxt + pcb.rcv_ann_wnd /\ pcb.rcv_ann_wnd <= pcb.rcv_wnd
              /\ pcb.rcv_ann_right_edge \in Nat /\ pcb.rcv_ann_wnd \in Nat
          BY <1>4, <1>5, Fields DEF Good, Announced
        <4>3. c.pcb.rcv_wnd \in Nat
          BY <1>6, GoodTypes
        <4> QED  BY <1>5, <4>1, <4>2, <4>3 DEF Edge
      <3>2. EndOf(s) <= x \/ (s.seq = x /\ TcpLen(s) = 1)
        BY <1>3, <2>2 DEF Sendable
      <3> HIDE DEF x, e
      <3>3. EndOf(s) <= e \/ s.seq >= e
        BY <2>2, <3>1, <3>2
      <3> QED  BY <3>3 DEF e
    <2>4. c.pcb.state # "GONE" /\ (c.pcb.refused = None \/ TcpLen(s) = 0)
      BY <1>8, <2>2
    <2>5. Good(AfterFin(r), c.user, r.data, r.fin) /\ AfterFin(r).state # "GONE"
      <3> DEFINE p == c.pcb
                 u == c.user
                 t == tcp_receive(p, s, mem)
      <3>1. Good(p, u, <<>>, FALSE) /\ p.state # "GONE" /\ (p.refused = None \/ TcpLen(s) = 0)
        BY <1>6, <2>4
      <3>2. EndOf(s) <= Edge(p) \/ s.seq >= Edge(p)
        BY <2>3
      <3> HIDE DEF p, u
      <3>3. Good(AfterFin(t), u, t.data, t.fin) /\ AfterFin(t).state # "GONE"
        BY <1>1, <2>1, <3>1, <3>2, ReceiveGood
      <3>4. r = t
        BY DEF r, p
      <3> HIDE DEF t
      <3> QED  BY <3>3, <3>4 DEF u
    <2>6. Good(d.pcb, d.user, <<>>, FALSE) /\ Extends(c.user, d.user)
      BY <1>1, <2>5, DeliveredGood
    <2> HIDE DEF d
    <2>7. Good(Output(d.pcb), d.user, <<>>, FALSE)
      BY <2>6, AcksGood
    <2>8. Extends(user, d.user)
      <3>1. c.user \in UserType /\ d.user \in UserType
        BY <1>6, <2>6, GoodTypes
      <3> QED  BY <1>5, <1>6, <2>6, <3>1, ExtendsOn
    <2> QED  BY <1>3, <1>8, <2>7, <2>8 DEF ReceiveInv, d
  <1> QED  BY <1>7, <1>8

\* tcp_fasttmr.
LEMMA FastGood ==
  ASSUME ReceiveInv, NEW what \in Callbacks, tcp_fasttmr(what) PROVE ReceiveInv' /\ Extends(user, user')
  <1> DEFINE p == IF "ACK_DELAY" \in pcb.flags THEN SendAck(pcb) ELSE pcb
             c == tcp_process_refused_data(p, user, what)
  <1>1. IF p.refused = None THEN pcb' = p /\ user' = user ELSE pcb' = c.pcb /\ user' = c.user
    BY DEF tcp_fasttmr
  <1>2. Good(pcb, user, <<>>, FALSE)
    BY DEF ReceiveInv
  <1>3. Good(p, user, <<>>, FALSE)
    BY <1>2, AcksGood
  <1> HIDE DEF p
  <1>4. CASE p.refused = None
    <2>1. Extends(user, user)
      BY <1>2, GoodTypes, SameUser
    <2> QED  BY <1>1, <1>3, <1>4, <2>1 DEF ReceiveInv
  <1>5. CASE p.refused # None
    <2>1. Good(c.pcb, c.user, <<>>, FALSE) /\ Extends(user, c.user)
      BY <1>3, <1>5, RefusedGood
    <2> QED  BY <1>1, <1>5, <2>1 DEF ReceiveInv
  <1> QED  BY <1>4, <1>5

\* The queue of segments is dropped when pbufs are wanted: they are sent again.
LEMMA DropGood ==
  ASSUME ReceiveInv, pbuf_free_ooseq_queue PROVE ReceiveInv' /\ Extends(user, user')
  <1> DEFINE q == [pcb EXCEPT !.ooseq = <<>>]
  <1>1. pcb' = q /\ user' = user
    BY DEF pbuf_free_ooseq_queue
  <1>2. Good(pcb, user, <<>>, FALSE)
    BY DEF ReceiveInv
  <1>3. /\ q \in PcbType /\ q.state = pcb.state /\ q.rcv_nxt = pcb.rcv_nxt /\ q.rcv_wnd = pcb.rcv_wnd
        /\ q.ooseq = <<>> /\ q.refused = pcb.refused /\ q.flags = pcb.flags /\ q.rcv_ann_wnd = pcb.rcv_ann_wnd
        /\ q.rcv_ann_right_edge = pcb.rcv_ann_right_edge
    <2>1. pcb \in PcbType /\ <<>> \in Seq(Segment)
      BY <1>2 DEF Good
    <2> QED  BY <2>1 DEF PcbType
  <1> HIDE DEF q
  <1>4. AtEnd(q) = AtEnd(pcb) /\ Had(q, user, <<>>) = Had(pcb, user, <<>>) /\ Announced(q)
    BY <1>2, <1>3 DEF Good, Announced, AtEnd, Had
  <1>5. QueueOK(q.ooseq, q.rcv_nxt, Edge(q))
    <2>1. <<>> \in Seq(Segment)
      OBVIOUS
    <2> QED  BY <1>3, <2>1 DEF QueueOK
  <1>6. Continues(q, user, <<>>) /\ (q.state # "GONE" => Counts(q, user, <<>>, FALSE))
    BY <1>2, <1>3, <1>4 DEF Good, Continues, Counts
  <1>7. Ending(q, user, <<>>, FALSE)
    BY <1>2, <1>3, <1>4 DEF Good, Ending
  <1>8. Good(q, user, <<>>, FALSE)
    BY <1>2, <1>3, <1>4, <1>5, <1>6, <1>7 DEF Good
  <1>9. Extends(user, user)
    BY <1>2, GoodTypes, SameUser
  <1> QED  BY <1>1, <1>8, <1>9 DEF ReceiveInv

\* tcp_recved, called by the user for bytes it kept.
LEMMA ReadGood ==
  ASSUME ReceiveInv, NEW n \in 1 .. Wnd, Read(n) PROVE ReceiveInv' /\ Extends(user, user')
  <1> DEFINE v == [user EXCEPT !.unread = @ - n]
             q == tcp_recved(pcb, n)
  <1>1. pcb' = q /\ user' = v /\ n <= user.unread /\ pcb.state # "GONE"
    BY DEF Read
  <1>2. Good(pcb, user, <<>>, FALSE) /\ n \in Nat
    <2>1. n \in Nat
      BY ReceiveAssumption
    <2> QED  BY <2>1 DEF ReceiveInv
  <1>3. user \in UserType /\ user.unread \in Nat /\ user.bytes \in Seq(Nat)
    BY <1>2, GoodTypes
  <1>4. Good(q, v, <<>>, FALSE)
    BY <1>1, <1>2, RecvedGood
  <1>5. Extends(user, v)
    <2>1. user.unread - n \in Nat
      BY <1>1, <1>2, <1>3
    <2>2. v.bytes = user.bytes /\ v.ended = user.ended
      BY <1>3, <2>1, UnreadSet
    <2> QED  BY <1>3, <2>2 DEF Extends
  <1> QED  BY <1>1, <1>4, <1>5 DEF ReceiveInv

\* tcp_close, called by the user.
LEMMA ClosedGood ==
  ASSUME ReceiveInv, Close PROVE ReceiveInv' /\ Extends(user, user')
  <1> DEFINE c == tcp_close(pcb, user)
  <1>1. pcb' = c.pcb /\ user' = c.user /\ pcb.state \in {"ESTABLISHED", "CLOSE_WAIT"}
    BY DEF Close
  <1>2. Good(pcb, user, <<>>, FALSE)
    BY DEF ReceiveInv
  <1>3. c.user = user /\ Good(c.pcb, user, <<>>, FALSE)
    <2>1. FALSE => pcb.refused = None
      OBVIOUS
    <2> QED  BY <1>1, <1>2, <2>1, CloseGood
  <1> HIDE DEF c
  <1>4. Extends(user, user)
    BY <1>2, GoodTypes, SameUser
  <1> QED  BY <1>1, <1>3, <1>4 DEF ReceiveInv

\* Every step keeps the invariant, and what the user was given.
LEMMA ReceiveKeeps ==
  ASSUME ReceiveInv, [ReceiveNext]_receiveVars PROVE ReceiveInv' /\ Extends(user, user')
  <1>1. CASE Arrive
    BY <1>1, ArriveGood
  <1>2. ASSUME NEW what \in Callbacks, tcp_fasttmr(what) PROVE ReceiveInv' /\ Extends(user, user')
    BY <1>2, FastGood
  <1>3. CASE pbuf_free_ooseq_queue
    BY <1>3, DropGood
  <1>4. ASSUME NEW n \in 1 .. Wnd, Read(n) PROVE ReceiveInv' /\ Extends(user, user')
    BY <1>4, ReadGood
  <1>5. CASE Close
    BY <1>5, ClosedGood
  <1>6. CASE UNCHANGED receiveVars
    <2>1. pcb' = pcb /\ user' = user
      BY <1>6 DEF receiveVars
    <2>2. Extends(user, user)
      BY GoodTypes, SameUser DEF ReceiveInv
    <2> QED  BY <2>1, <2>2 DEF ReceiveInv
  <1> QED  BY <1>1, <1>2, <1>3, <1>4, <1>5, <1>6 DEF ReceiveNext

\* The inductive invariant: window, announcement, queue, refused data and what
\* the user was given fit together after every call of tcp_input, of a timer and
\* of the user's, for any window, segment size and stream.
THEOREM ReceiveInvariance == ReceiveSpec => []ReceiveInv
  <1>1. ReceiveInv /\ [ReceiveNext]_receiveVars => ReceiveInv'
    BY ReceiveKeeps
  <1> QED  BY <1>1, ReceiveStarts, PTL DEF ReceiveSpec

\* The invariant gives WindowSane.
LEMMA GoodIsSane == ReceiveInv => WindowSane
  <1> SUFFICES ASSUME ReceiveInv PROVE WindowSane
    OBVIOUS
  <1>1. Good(pcb, user, <<>>, FALSE)
    BY DEF ReceiveInv
  <1>2. /\ pcb \in PcbType /\ user \in UserType /\ pcb.rcv_nxt \in Nat /\ pcb.rcv_wnd \in Nat
        /\ pcb.rcv_ann_wnd \in Nat /\ pcb.rcv_ann_right_edge \in Nat /\ user.unread \in Nat
        /\ pcb.refused.fin \in BOOLEAN /\ Len(pcb.refused.data) \in Nat
    BY <1>1, GoodTypes, Fields
  <1>3. QueueOK(pcb.ooseq, pcb.rcv_nxt, Edge(pcb))
    BY <1>1 DEF Good
  <1>4. \A i \in DOMAIN pcb.ooseq : pcb.ooseq[i] \in Segment
    BY <1>3 DEF QueueOK, Piece
  <1>5. ReceiveTypeOK
    <2>1. pcb.rcv_nxt \in 1 .. Total + 2 /\ pcb.rcv_wnd \in 0 .. Wnd /\ pcb.rcv_ann_wnd \in 0 .. Wnd
      BY <1>2 DEF PcbType
    <2> QED  BY <1>2, <1>4, <2>1 DEF ReceiveTypeOK, Segment
  <1>6. WindowKept
    <2>1. pcb.rcv_ann_right_edge <= pcb.rcv_nxt + pcb.rcv_wnd
      <3>1. pcb.rcv_ann_right_edge <= pcb.rcv_nxt + pcb.rcv_ann_wnd /\ pcb.rcv_ann_wnd <= pcb.rcv_wnd
        BY <1>1 DEF Good, Announced
      <3> QED  BY <1>2, <3>1
    <2>2. ASSUME NEW i \in DOMAIN pcb.ooseq
          PROVE  /\ pcb.ooseq[i].seq > pcb.rcv_nxt
                 /\ i > 1 => pcb.ooseq[i - 1].seq + TcpLen(pcb.ooseq[i - 1]) <= pcb.ooseq[i].seq
      <3>1. pcb.ooseq[i].seq > pcb.rcv_nxt
        BY <1>3 DEF QueueOK
      <3>2. ASSUME i > 1 PROVE EndOf(pcb.ooseq[i - 1]) <= pcb.ooseq[i].seq
        <4> DEFINE q == pcb.ooseq
                   l == Len(q)
        <4>1. q \in Seq(Segment) /\ l \in Nat /\ DOMAIN q = 1 .. l
          BY <1>3 DEF QueueOK
        <4> HIDE DEF l
        <4>2. i - 1 \in DOMAIN q /\ i - 1 < i
          BY <3>2, <4>1
        <4> QED  BY <1>3, <4>2 DEF QueueOK
      <3> QED  BY <3>1, <3>2 DEF EndOf
    <2> QED  BY <2>1, <2>2 DEF WindowKept
  <1>7. Accounted
    <2> SUFFICES ASSUME pcb.state # "GONE"
                 PROVE  pcb.rcv_wnd + user.unread + Len(pcb.refused.data)
                          + (IF pcb.refused.fin THEN 1 ELSE 0) = Wnd
      BY DEF Accounted
    <2>1. pcb.rcv_wnd + user.unread + Len(pcb.refused.data) + Len(<<>>) + One(pcb.refused.fin) + One(FALSE) = Wnd
      BY <1>1 DEF Good, Counts
    <2> DEFINE x == One(pcb.refused.fin)
               y == One(FALSE)
               z == IF pcb.refused.fin THEN 1 ELSE 0
               m == Len(pcb.refused.data)
               e == Len(<<>>)
    <2>2. x = z /\ y = 0 /\ e = 0 /\ x \in Nat
      BY <1>2 DEF One
    <2>3. pcb.rcv_wnd + user.unread + m + e + x + y = Wnd /\ m \in Nat
      BY <1>2, <2>1
    <2> HIDE DEF x, y, z, m, e
    <2>4. pcb.rcv_wnd + user.unread + m + z = Wnd
      BY <1>2, <2>2, <2>3
    <2> QED  BY <2>4 DEF m, z
  <1> QED  BY <1>5, <1>6, <1>7 DEF WindowSane

\* tcp_update_rcv_ann_wnd never announces less than before, every byte of the
\* window is accounted for, and the queue of segments stays in order.
THEOREM WindowStaysSane == ReceiveSpec => []WindowSane
  BY ReceiveInvariance, GoodIsSane, PTL

\* A step of the receiver is one of ByteStream.
LEMMA StreamSteps ==
  ASSUME ReceiveInv, ReceiveInv', Extends(user, user')
  PROVE  [Stream!Next]_<<user.bytes, user.ended>>
  <1> DEFINE a == Len(user.bytes)
             b == Len(user'.bytes)
  <1>1. /\ user \in UserType /\ user.bytes \in Seq(Nat) /\ user.ended \in BOOLEAN /\ a \in Nat /\ Total \in Nat
    BY GoodTypes DEF ReceiveInv
  <1>2. /\ user'.bytes \in Seq(Nat) /\ user'.ended \in BOOLEAN /\ b \in Nat
    BY GoodTypes DEF ReceiveInv
  <1>3. user.bytes = Run(1, a) /\ (user.ended => a = Total)
    BY DEF ReceiveInv, Good, Continues, Ending
  <1>4. user'.bytes = Run(1, b) /\ (user'.ended => b = Total) /\ b <= Total
    <2>1. Continues(pcb', user', <<>>) /\ Ending(pcb', user', <<>>, FALSE)
      BY DEF ReceiveInv, Good
    <2>2. b <= Had(pcb', user', <<>>) /\ Had(pcb', user', <<>>) \in Int
      <3> DEFINE m == Len(pcb'.refused.data)
      <3>1. m \in Nat
        BY GoodTypes DEF ReceiveInv
      <3>2. Had(pcb', user', <<>>) = b + m + 0
        BY DEF Had
      <3> HIDE DEF b, m
      <3> QED  BY <1>2, <3>1, <3>2
    <2>3. Had(pcb', user', <<>>) <= Total
      BY <2>1 DEF Continues
    <2>4. b <= Total
      <3> HIDE DEF b
      <3> QED  BY <1>1, <1>2, <2>2, <2>3
    <2> QED  BY <2>1, <2>4 DEF Continues, Ending
  <1>5. a <= b /\ (user.ended => user'.ended /\ b = a)
    BY DEF Extends
  <1>6. CASE a < b
    <2> DEFINE n == b - a
    <2>1. n \in 1 .. Total /\ a + n = b /\ n \in Nat
      <3> HIDE DEF a, b
      <3> QED  BY <1>1, <1>2, <1>4, <1>6
    <2>2. ~user.ended
      <3> HIDE DEF a, b
      <3> QED  BY <1>1, <1>2, <1>5, <1>6
    <2> HIDE DEF n
    <2>3. user'.bytes = user.bytes \o Run(1 + a, n)
      <3>1. Run(1, a) \o Run(1 + a, n) = Run(1, a + n)
        <4> HIDE DEF a
        <4> QED  BY <1>1, <2>1, RunsJoin
      <3> QED  BY <1>3, <1>4, <2>1, <3>1
    <2>4. Run(1 + a, n) = [i \in 1 .. n |-> a + i]
      <3> HIDE DEF a
      <3>1. \A i \in 1 .. n : (1 + a) + i - 1 = a + i
        BY <1>1, <2>1
      <3> QED  BY <3>1 DEF Run
    <2>5. Stream!PassOn(n)
      <3>1. a + n <= Total
        BY <1>4, <2>1
      <3> QED  BY <2>2, <2>3, <2>4, <3>1 DEF Stream!PassOn
    <2>6. user'.ended => Len(user'.bytes) = Total
      BY <1>4
    <2> QED  BY <2>1, <2>5, <2>6 DEF Stream!Next
  <1>7. CASE ~(a < b)
    <2>1. a = b
      <3> HIDE DEF a, b
      <3> QED  BY <1>1, <1>2, <1>5, <1>7
    <2>2. user'.bytes = user.bytes
      BY <1>3, <1>4, <2>1
    <2>3. CASE user'.ended /\ ~user.ended
      <3>1. Len(user.bytes) = Total
        BY <1>4, <2>1, <2>3
      <3> QED  BY <2>2, <2>3, <3>1 DEF Stream!Next
    <2>4. CASE ~(user'.ended /\ ~user.ended)
      <3>1. user'.ended <=> user.ended
        BY <1>5, <2>4
      <3>2. user'.ended = user.ended
        BY <1>1, <1>2, <3>1
      <3> QED  BY <2>2, <3>2
    <2> QED  BY <2>3, <2>4
  <1> QED  BY <1>6, <1>7

\* tcp_receive and the callbacks implement ByteStream: the user gets the peer's
\* bytes in order, none twice and none left out, and the end after the last.
THEOREM StreamInOrder == ReceiveSpec => InOrder
  <1>1. ReceiveInit => Stream!Init
    BY DEF ReceiveInit, Stream!Init
  <1>2. ReceiveInv /\ [ReceiveNext]_receiveVars => [Stream!Next]_<<user.bytes, user.ended>>
    BY ReceiveKeeps, StreamSteps
  <1> QED  BY <1>1, <1>2, ReceiveInvariance, PTL DEF ReceiveSpec, InOrder, Stream!Spec
-----------------------------------------------------------------------------
(***************************************************************************)
(* The sending half: for any segment size, buffer, window of the peer and  *)
(* any number of faults, what is sent fits in the window the peer told of, *)
(* and the queues hold each byte that is not acknowledged once.            *)
(*                                                                         *)
(* The queues of an open connection together are a chain of segments from  *)
(* what is acknowledged to what was written (Line), also after the timer   *)
(* or the third duplicate has put segments back.  Of the acknowledgments   *)
(* on the way, and the window that counts, none contradicts another        *)
(* (Precedes), and none says more than what the peer has now (Told).       *)
(***************************************************************************)

\* Segments of the stream: a number, a length, with a FIN or without.
Segments == [seq : Nat, len : Nat, fin : BOOLEAN]

\* Where a segment ends, without its FIN.
Upper(s) == s.seq + s.len

\* The numbers of a segment.
LEMMA UpperIs == ASSUME NEW s \in Segments PROVE
    s.seq \in Nat /\ s.len \in Nat /\ s.fin \in BOOLEAN /\ Upper(s) \in Nat /\ SegLen(s) \in Nat
  <1>1. s.seq \in Nat /\ s.len \in Nat /\ s.fin \in BOOLEAN
    BY DEF Segments
  <1>2. Upper(s) \in Nat
    BY <1>1 DEF Upper
  <1>3. (IF s.fin THEN 1 ELSE 0) \in Nat
    OBVIOUS
  <1> QED  BY <1>1, <1>2, <1>3 DEF SegLen

\* The longest beginning of 1 .. m that lies in S.
Longest(m, S) == Max({0} \cup {k \in 1 .. m : \A i \in 1 .. k : i \in S})

\* It is as long as it can be: the next number is not in S.
LEMMA LongestPrefix ==
  ASSUME NEW m \in Nat, NEW S
  PROVE  /\ Longest(m, S) \in 0 .. m /\ (\A i \in 1 .. Longest(m, S) : i \in S)
         /\ Longest(m, S) < m => Longest(m, S) + 1 \notin S
  <1> DEFINE D == {0} \cup {k \in 1 .. m : \A i \in 1 .. k : i \in S}
             n == Longest(m, S)
  <1>1. D \subseteq 0 .. m /\ D # {}
    OBVIOUS
  <1>2. n \in D /\ \A x \in D : x <= n
    <2> HIDE DEF D
    <2>1. Max(D) \in D /\ \A x \in D : x <= Max(D)
      BY <1>1, MaxOfBounded
    <2> QED  BY <2>1 DEF D, Longest
  <1> HIDE DEF n
  <1>3. n < m => n + 1 \notin S
    <2> SUFFICES ASSUME n < m, n + 1 \in S PROVE FALSE
      OBVIOUS
    <2>1. \A i \in 1 .. n : i \in S
      BY <1>2
    <2>2. n + 1 \in 1 .. m /\ \A i \in 1 .. n + 1 : i \in 1 .. n \/ i = n + 1
      BY <1>1, <1>2
    <2>3. n + 1 \in D
      BY <2>1, <2>2
    <2> QED  BY <1>1, <1>2, <2>3
  <1>4. n \in 0 .. m
    <2> HIDE DEF D
    <2> QED  BY <1>1, <1>2
  <1>5. \A i \in 1 .. n : i \in S
    BY <1>2
  <1> QED  BY <1>3, <1>4, <1>5 DEF n

\* The segments that are acknowledged at the head of a queue.
LEMMA UpToIs ==
  ASSUME NEW q \in Seq(Segments), NEW ack \in Nat
  PROVE  /\ UpTo(q, ack) \in 0 .. Len(q)
         /\ \A i \in 1 .. UpTo(q, ack) : q[i].seq + SegLen(q[i]) <= ack
         /\ UpTo(q, ack) < Len(q) =>
              q[UpTo(q, ack) + 1].seq + SegLen(q[UpTo(q, ack) + 1]) > ack
  <1> DEFINE S == {i \in DOMAIN q : q[i].seq + SegLen(q[i]) <= ack}
             n == UpTo(q, ack)
  <1>0. DOMAIN q = 1 .. Len(q) /\ Len(q) \in Nat
    OBVIOUS
  <1>1. n = Longest(Len(q), S)
    <2>1. {k \in DOMAIN q : \A i \in 1 .. k : q[i].seq + SegLen(q[i]) <= ack}
            = {k \in 1 .. Len(q) : \A i \in 1 .. k : i \in S}
      <3>1. \A k \in 1 .. Len(q) : \A i \in 1 .. k : i \in DOMAIN q
        BY <1>0
      <3> QED  BY <1>0, <3>1
    <2> QED  BY <2>1 DEF UpTo, Longest
  <1> HIDE DEF n, S
  <1>2. n \in 0 .. Len(q) /\ (\A i \in 1 .. n : i \in S) /\ (n < Len(q) => n + 1 \notin S)
    BY <1>0, <1>1, LongestPrefix
  <1>3. \A i \in 1 .. n : q[i].seq + SegLen(q[i]) <= ack
    BY <1>2 DEF S
  <1>4. n < Len(q) => q[n + 1].seq + SegLen(q[n + 1]) > ack
    <2> SUFFICES ASSUME n < Len(q) PROVE q[n + 1].seq + SegLen(q[n + 1]) > ack
      OBVIOUS
    <2>1. n + 1 \in DOMAIN q
      BY <1>0, <1>2
    <2>2. ~(q[n + 1].seq + SegLen(q[n + 1]) <= ack)
      BY <1>2, <2>1 DEF S
    <2>3. q[n + 1] \in Segments
      BY <2>1
    <2>4. q[n + 1].seq \in Nat /\ SegLen(q[n + 1]) \in Nat
      BY <2>3, UpperIs
    <2> QED  BY <2>2, <2>4
  <1> QED  BY <1>2, <1>3, <1>4 DEF n

\* What is dropped is the head of the queue, and the rest is the same.
LEMMA AboveIs ==
  ASSUME NEW q \in Seq(Segments), NEW ack \in Nat
  PROVE  /\ Above(q, ack) \in Seq(Segments) /\ Len(Above(q, ack)) = Len(q) - UpTo(q, ack)
         /\ \A i \in 1 .. Len(q) - UpTo(q, ack) : Above(q, ack)[i] = q[UpTo(q, ack) + i]
  <1>1. UpTo(q, ack) \in 0 .. Len(q) /\ Len(q) \in Nat
    BY UpToIs
  <1> DEFINE n == UpTo(q, ack)
  <1> HIDE DEF n
  <1>2. n \in 0 .. Len(q) /\ Len(q) \in Nat
    BY <1>1 DEF n
  <1>3. SubSeq(q, n + 1, Len(q)) \in Seq(Segments) /\ Len(SubSeq(q, n + 1, Len(q))) = Len(q) - n
    BY <1>2
  <1>4. \A i \in 1 .. Len(q) - n : SubSeq(q, n + 1, Len(q))[i] = q[n + i]
    BY <1>2
  <1> QED  BY <1>3, <1>4 DEF Above, n

\* Where a segment goes in a queue that is in order.
LEMMA LowerIs ==
  ASSUME NEW q \in Seq(Segments), NEW s \in Segments
  PROVE  /\ Lower(q, s) \in 0 .. Len(q)
         /\ \A i \in 1 .. Lower(q, s) : q[i].seq < s.seq
         /\ Lower(q, s) < Len(q) => ~(q[Lower(q, s) + 1].seq < s.seq)
  <1> DEFINE S == {i \in DOMAIN q : q[i].seq < s.seq}
             n == Lower(q, s)
  <1>0. DOMAIN q = 1 .. Len(q) /\ Len(q) \in Nat
    OBVIOUS
  <1>1. n = Longest(Len(q), S)
    <2>1. {k \in DOMAIN q : \A i \in 1 .. k : q[i].seq < s.seq} = {k \in 1 .. Len(q) : \A i \in 1 .. k : i \in S}
      <3>1. \A k \in 1 .. Len(q) : \A i \in 1 .. k : i \in DOMAIN q
        BY <1>0
      <3> QED  BY <1>0, <3>1
    <2> QED  BY <2>1 DEF Lower, Longest
  <1> HIDE DEF n, S
  <1>2. n \in 0 .. Len(q) /\ (\A i \in 1 .. n : i \in S) /\ (n < Len(q) => n + 1 \notin S)
    BY <1>0, <1>1, LongestPrefix
  <1>3. \A i \in 1 .. n : q[i].seq < s.seq
    BY <1>2 DEF S
  <1>4. n < Len(q) => ~(q[n + 1].seq < s.seq)
    <2> SUFFICES ASSUME n < Len(q) PROVE ~(q[n + 1].seq < s.seq)
      OBVIOUS
    <2>1. n + 1 \in DOMAIN q
      BY <1>0, <1>2
    <2> QED  BY <1>2, <2>1 DEF S
  <1> QED  BY <1>2, <1>3, <1>4 DEF n

\* The elements of a queue of anything: two together, one more, the first and
\* the others.
LEMMA ElementsTogether ==
  ASSUME NEW T, NEW a \in Seq(T), NEW b \in Seq(T)
  PROVE  a \o b \in Seq(T) /\ ElementsOf(a \o b) = ElementsOf(a) \cup ElementsOf(b)
  <1> DEFINE c == a \o b
  <1>1. /\ c \in Seq(T) /\ Len(c) = Len(a) + Len(b)
        /\ \A i \in 1 .. Len(a) + Len(b) : c[i] = IF i <= Len(a) THEN a[i] ELSE b[i - Len(a)]
    BY Concatenation
  <1>2. Len(a) \in Nat /\ Len(b) \in Nat /\ DOMAIN a = 1 .. Len(a) /\ DOMAIN b = 1 .. Len(b)
    OBVIOUS
  <1> HIDE DEF c
  <1>3. DOMAIN c = 1 .. Len(a) + Len(b)
    BY <1>1
  <1>4. ASSUME NEW i \in 1 .. Len(a) PROVE i \in DOMAIN c /\ c[i] = a[i]
    BY <1>1, <1>2, <1>3
  <1>5. ASSUME NEW i \in 1 .. Len(b) PROVE Len(a) + i \in DOMAIN c /\ c[Len(a) + i] = b[i]
    <2>1. Len(a) + i \in 1 .. Len(a) + Len(b) /\ ~(Len(a) + i <= Len(a)) /\ (Len(a) + i) - Len(a) = i
      BY <1>2
    <2> QED  BY <1>1, <1>3, <2>1
  <1>6. ASSUME NEW i \in DOMAIN c PROVE c[i] \in ElementsOf(a) \cup ElementsOf(b)
    <2>1. CASE i <= Len(a)
      <3>1. i \in DOMAIN a /\ c[i] = a[i]
        BY <1>1, <1>2, <1>3, <2>1
      <3> QED  BY <3>1 DEF ElementsOf
    <2>2. CASE ~(i <= Len(a))
      <3>1. i - Len(a) \in DOMAIN b /\ c[i] = b[i - Len(a)]
        BY <1>1, <1>2, <1>3, <2>2
      <3> QED  BY <3>1 DEF ElementsOf
    <2> QED  BY <2>1, <2>2
  <1>7. ElementsOf(a) \subseteq ElementsOf(c)
    BY <1>2, <1>4 DEF ElementsOf
  <1>8. ElementsOf(b) \subseteq ElementsOf(c)
    BY <1>2, <1>5 DEF ElementsOf
  <1>9. ElementsOf(c) \subseteq ElementsOf(a) \cup ElementsOf(b)
    BY <1>6 DEF ElementsOf
  <1> QED  BY <1>1, <1>7, <1>8, <1>9 DEF c

\* A queue of one.
LEMMA ElementsOfOne ==
  ASSUME NEW T, NEW x \in T
  PROVE  <<x>> \in Seq(T) /\ ElementsOf(<<x>>) = {x}
  <1>1. <<x>> \in Seq(T) /\ DOMAIN <<x>> = {1} /\ <<x>>[1] = x
    OBVIOUS
  <1> QED  BY <1>1 DEF ElementsOf

\* One more at the end.
LEMMA OneMore ==
  ASSUME NEW T, NEW a \in Seq(T), NEW x \in T
  PROVE  Append(a, x) \in Seq(T) /\ ElementsOf(Append(a, x)) = ElementsOf(a) \cup {x}
  <1> DEFINE o == <<x>>
  <1>1. Append(a, x) = a \o o
    OBVIOUS
  <1>2. o \in Seq(T) /\ ElementsOf(o) = {x}
    BY ElementsOfOne
  <1> HIDE DEF o
  <1>3. a \o o \in Seq(T) /\ ElementsOf(a \o o) = ElementsOf(a) \cup ElementsOf(o)
    BY <1>2, ElementsTogether
  <1> QED  BY <1>1, <1>2, <1>3

\* The first, and the others.
LEMMA FirstAndOthers ==
  ASSUME NEW T, NEW a \in Seq(T), a # <<>>
  PROVE  Head(a) \in T /\ Tail(a) \in Seq(T) /\ ElementsOf(a) = {Head(a)} \cup ElementsOf(Tail(a))
  <1> DEFINE o == <<Head(a)>>
             t == Tail(a)
  <1>1. Head(a) \in T /\ t \in Seq(T)
    OBVIOUS
  <1>2. a = o \o t
    <2>1. o \in Seq(T) /\ Len(o) = 1 /\ o[1] = a[1]
      OBVIOUS
    <2>2. Len(t) = Len(a) - 1 /\ \A i \in 1 .. Len(a) - 1 : t[i] = a[i + 1]
      OBVIOUS
    <2> HIDE DEF o, t
    <2> DEFINE c == o \o t
    <2>3. /\ c \in Seq(T) /\ Len(c) = Len(o) + Len(t)
          /\ \A i \in 1 .. Len(o) + Len(t) : c[i] = IF i <= Len(o) THEN o[i] ELSE t[i - Len(o)]
      BY <1>1, <2>1, Concatenation
    <2> HIDE DEF c
    <2>4. Len(a) \in Nat \ {0}
      OBVIOUS
    <2>5. Len(c) = Len(a) /\ Len(o) + Len(t) = Len(a)
      BY <2>1, <2>2, <2>3, <2>4
    <2>6. ASSUME NEW i \in 1 .. Len(a) PROVE c[i] = a[i]
      <3>1. CASE i = 1
        BY <2>1, <2>3, <2>5, <3>1
      <3>2. CASE i # 1
        <4>1. ~(i <= 1) /\ i - 1 \in 1 .. Len(a) - 1 /\ (i - 1) + 1 = i
          BY <2>4, <3>2
        <4>2. c[i] = t[i - 1]
          BY <2>1, <2>3, <2>5, <4>1
        <4> QED  BY <2>2, <4>1, <4>2
      <3> QED  BY <3>1, <3>2
    <2>7. c = a
      BY <2>3, <2>5, <2>6, SameSequence
    <2> QED  BY <2>7 DEF c
  <1>3. o \in Seq(T) /\ ElementsOf(o) = {Head(a)}
    BY <1>1, ElementsOfOne
  <1> HIDE DEF o, t
  <1>4. ElementsOf(o \o t) = ElementsOf(o) \cup ElementsOf(t)
    BY <1>1, <1>3, ElementsTogether
  <1> QED  BY <1>1, <1>2, <1>3, <1>4 DEF t

\* What is in either sequence is in both together, and nothing else.
LEMMA TogetherHas ==
  ASSUME NEW a \in Seq(Segments), NEW b \in Seq(Segments)
  PROVE  ElementsOf(a \o b) = ElementsOf(a) \cup ElementsOf(b)
  BY ElementsTogether

\* Part of a sequence has part of its elements; the two parts are the whole.
LEMMA PartHas ==
  ASSUME NEW q \in Seq(Segments), NEW n \in 0 .. Len(q)
  PROVE  /\ SubSeq(q, 1, n) \in Seq(Segments) /\ SubSeq(q, n + 1, Len(q)) \in Seq(Segments)
         /\ Len(SubSeq(q, 1, n)) = n /\ Len(SubSeq(q, n + 1, Len(q))) = Len(q) - n
         /\ \A i \in 1 .. n : SubSeq(q, 1, n)[i] = q[i]
         /\ \A i \in 1 .. Len(q) - n : SubSeq(q, n + 1, Len(q))[i] = q[n + i]
         /\ SubSeq(q, 1, n) \o SubSeq(q, n + 1, Len(q)) = q
         /\ ElementsOf(q) = ElementsOf(SubSeq(q, 1, n)) \cup ElementsOf(SubSeq(q, n + 1, Len(q)))
  <1> DEFINE a == SubSeq(q, 1, n)
             b == SubSeq(q, n + 1, Len(q))
  <1>0. Len(q) \in Nat /\ DOMAIN q = 1 .. Len(q) /\ n \in Nat /\ n <= Len(q)
    OBVIOUS
  <1>1. a \in Seq(Segments) /\ Len(a) = n /\ \A i \in 1 .. n : a[i] = q[i]
    BY <1>0
  <1>2. b \in Seq(Segments) /\ Len(b) = Len(q) - n /\ \A i \in 1 .. Len(q) - n : b[i] = q[n + i]
    <2>. n \in Nat /\ Len(q) \in Nat /\ n <= Len(q)
      BY <1>0
    <2>1. SubSeq(q, n + 1, Len(q)) \in Seq(Segments) /\ Len(SubSeq(q, n + 1, Len(q))) = Len(q) - n
      OBVIOUS
    <2>2. \A i \in 1 .. Len(q) - n : SubSeq(q, n + 1, Len(q))[i] = q[n + i]
      BY <1>0
    <2> QED  BY <2>1, <2>2
  <1> HIDE DEF a, b
  <1>3. /\ a \o b \in Seq(Segments) /\ Len(a \o b) = Len(a) + Len(b)
        /\ \A i \in 1 .. Len(a) + Len(b) : (a \o b)[i] = IF i <= Len(a) THEN a[i] ELSE b[i - Len(a)]
    BY <1>1, <1>2, Concatenation
  <1>4. Len(a \o b) = Len(q)
    BY <1>0, <1>1, <1>2, <1>3
  <1>5. \A i \in 1 .. Len(q) : (a \o b)[i] = q[i]
    <2> SUFFICES ASSUME NEW i \in 1 .. Len(q) PROVE (a \o b)[i] = q[i]
      OBVIOUS
    <2>0. i \in 1 .. Len(a) + Len(b)
      BY <1>0, <1>1, <1>2
    <2>. i \in Nat /\ n \in Nat
      BY <1>0
    <2>1. CASE i <= n
      <3>1. i \in 1 .. n /\ i <= Len(a)
        BY <1>0, <1>1, <2>1
      <3> QED  BY <1>1, <1>3, <2>0, <3>1
    <2>2. CASE i > n
      <3>1. i - n \in 1 .. Len(q) - n /\ ~(i <= Len(a)) /\ i - Len(a) = i - n /\ n + (i - n) = i
        BY <1>0, <1>1, <2>2
      <3>2. (a \o b)[i] = b[i - n]
        BY <1>3, <2>0, <3>1
      <3> QED  BY <1>2, <3>1, <3>2
    <2>3. i <= n \/ i > n
      OBVIOUS
    <2> QED  BY <2>1, <2>2, <2>3, Zenon
  <1>6. a \o b = q
    BY <1>3, <1>4, <1>5, SameSequence
  <1>7. ElementsOf(q) = ElementsOf(a) \cup ElementsOf(b)
    BY <1>1, <1>2, <1>6, TogetherHas
  <1> QED  BY <1>1, <1>2, <1>6, <1>7 DEF a, b

-----------------------------------------------------------------------------
\* A segment is put into a queue: what is in it then, and the two cases in which
\* it comes first or last.
LEMMA InsertedIs ==
  ASSUME NEW q \in Seq(Segments), NEW s \in Segments
  PROVE  /\ Inserted(q, s) \in Seq(Segments) /\ ElementsOf(Inserted(q, s)) = ElementsOf(q) \cup {s}
         /\ (\A i \in 1 .. Len(q) : ~(q[i].seq < s.seq)) => Inserted(q, s) = <<s>> \o q
         /\ (\A i \in 1 .. Len(q) : q[i].seq < s.seq) => Inserted(q, s) = q \o <<s>>
  <1> DEFINE n == Lower(q, s)
             a == SubSeq(q, 1, n)
             b == SubSeq(q, n + 1, Len(q))
             o == <<s>>
  <1>1. /\ n \in 0 .. Len(q)
        /\ \A i \in 1 .. n : q[i].seq < s.seq
        /\ n < Len(q) => ~(q[n + 1].seq < s.seq)
    BY LowerIs
  <1>2. Inserted(q, s) = a \o o \o b
    BY DEF Inserted
  <1> HIDE DEF n
  <1>3. /\ a \in Seq(Segments) /\ b \in Seq(Segments) /\ Len(a) = n /\ Len(b) = Len(q) - n
        /\ a \o b = q /\ ElementsOf(q) = ElementsOf(a) \cup ElementsOf(b)
    BY <1>1, PartHas
  <1> HIDE DEF a, b
  <1>4. o \in Seq(Segments) /\ ElementsOf(o) = {s}
    BY DEF ElementsOf
  <1> HIDE DEF o
  <1>5. a \o o \in Seq(Segments) /\ ElementsOf(a \o o) = ElementsOf(a) \cup {s}
    <2>1. a \o o \in Seq(Segments)
      BY <1>3, <1>4
    <2> QED  BY <1>3, <1>4, <2>1, TogetherHas
  <1>6. (a \o o) \o b \in Seq(Segments) /\ ElementsOf((a \o o) \o b) = ElementsOf(a) \cup {s} \cup ElementsOf(b)
    <2>1. (a \o o) \o b \in Seq(Segments)
      BY <1>3, <1>5
    <2> QED  BY <1>3, <1>5, <2>1, TogetherHas
  <1>7. Len(q) \in Nat
    OBVIOUS
  <1>8. ASSUME \A i \in 1 .. Len(q) : ~(q[i].seq < s.seq) PROVE Inserted(q, s) = o \o q
    <2>1. n = 0
      <3> SUFFICES ASSUME n # 0 PROVE FALSE
        OBVIOUS
      <3>1. 1 \in 1 .. n /\ 1 \in 1 .. Len(q)
        BY <1>1, <1>7
      <3> QED  BY <1>1, <1>8, <3>1
    <2>2. a = <<>>
      BY <1>3, <2>1
    <2>3. b = q /\ a \o o = o
      BY <1>3, <1>4, <2>2
    <2> QED  BY <1>2, <2>3
  <1>9. ASSUME \A i \in 1 .. Len(q) : q[i].seq < s.seq PROVE Inserted(q, s) = q \o o
    <2>1. n = Len(q)
      <3> SUFFICES ASSUME n # Len(q) PROVE FALSE
        OBVIOUS
      <3>1. n < Len(q) /\ n + 1 \in 1 .. Len(q)
        BY <1>1, <1>7
      <3> QED  BY <1>1, <1>9, <3>1
    <2>2. b = <<>>
      <3>1. Len(b) = 0
        BY <1>3, <1>7, <2>1
      <3> QED  BY <1>3, <3>1
    <2>3. a = q /\ (a \o o) \o b = a \o o
      <3>1. a \o b = a
        BY <1>3, <2>2
      <3>2. (a \o o) \o b = a \o o
        BY <1>5, <2>2
      <3> QED  BY <1>3, <3>1, <3>2
    <2> QED  BY <1>2, <2>3
  <1> QED  BY <1>2, <1>3, <1>6, <1>8, <1>9 DEF o

\* The queue after each of the segments that are put into it.
Putting(put, q, sent) ==
    /\ put \in [0 .. Len(sent) -> Seq(Segments)] /\ put[0] = q
    /\ \A i \in 1 .. Len(sent) : put[i] = Inserted(put[i - 1], sent[i])

\* Placed is the last of such queues.
LEMMA PlacedIs ==
  ASSUME NEW q \in Seq(Segments), NEW sent \in Seq(Segments)
  PROVE  \E put : Putting(put, q, sent) /\ Placed(q, sent) = put[Len(sent)]
  <1> DEFINE n == Len(sent)
             Wanted(g) == g = [i \in 0 .. n |-> IF i = 0 THEN q ELSE Inserted(g[i - 1], sent[i])]
             step == [i \in 1 .. n |-> [x \in Seq(Segments) |-> Inserted(x, sent[i])]]
             h == CHOOSE g : Wanted(g)
  <1>1. n \in Nat /\ \A i \in 1 .. n : sent[i] \in Segments
    OBVIOUS
  <1>2. Placed(q, sent) = h[n]
    BY DEF Placed
  <1> HIDE DEF n
  <1>3. StepsOn(step, Seq(Segments), n)
    <2>1. \A i \in 1 .. n : \A x \in Seq(Segments) : Inserted(x, sent[i]) \in Seq(Segments)
      BY <1>1, InsertedIs
    <2> QED  BY <2>1 DEF StepsOn
  <1>4. PICK f : Makes(f, Seq(Segments), q, n, step)
    <2> HIDE DEF step
    <2> QED  BY <1>1, <1>3, Recursion
  <1>5. /\ f \in [0 .. n -> Seq(Segments)] /\ f[0] = q
        /\ \A i \in 1 .. n : f[i] = Inserted(f[i - 1], sent[i])
    <2>1. /\ f \in [0 .. n -> Seq(Segments)] /\ f[0] = q
          /\ \A i \in 1 .. n : f[i] = step[i][f[i - 1]]
      <3> HIDE DEF step
      <3> QED  BY <1>4 DEF Makes
    <2>2. \A i \in 1 .. n : i - 1 \in 0 .. n
      BY <1>1
    <2> QED  BY <2>1, <2>2
  <1> HIDE DEF step
  <1>6. Wanted(f)
    <2>1. \A i \in 0 .. n : f[i] = IF i = 0 THEN q ELSE Inserted(f[i - 1], sent[i])
      <3>1. \A i \in 0 .. n : i = 0 \/ i \in 1 .. n
        BY <1>1
      <3> QED  BY <1>5, <3>1
    <2>2. f = [i \in 0 .. n |-> f[i]]
      BY <1>5
    <2> QED  BY <2>1, <2>2
  <1>7. Wanted(h)
    <2> HIDE DEF Wanted
    <2> QED  BY <1>6
  <1> HIDE DEF h
  <1>8. \A i \in 0 .. n : h[i] = IF i = 0 THEN q ELSE Inserted(h[i - 1], sent[i])
    BY <1>7
  <1>9. h = [i \in 0 .. n |-> h[i]]
    BY <1>7
  <1> HIDE DEF Wanted
  <1>10. \A i \in 0 .. n : h[i] \in Seq(Segments)
    <2> DEFINE T == {i \in Nat : i <= n => h[i] \in Seq(Segments)}
    <2>1. 0 \in T
      BY <1>1, <1>8
    <2>2. ASSUME NEW k \in Nat, k \in T PROVE k + 1 \in T
      <3> SUFFICES ASSUME k + 1 <= n PROVE h[k + 1] \in Seq(Segments)
        OBVIOUS
      <3>1. k + 1 \in 0 .. n /\ k + 1 # 0 /\ (k + 1) - 1 = k /\ k <= n /\ k + 1 \in 1 .. n
        BY <1>1
      <3>2. h[k] \in Seq(Segments)
        BY <2>2, <3>1
      <3>3. h[k + 1] = Inserted(h[k], sent[k + 1])
        BY <1>8, <3>1
      <3> QED  BY <1>1, <3>1, <3>2, <3>3, InsertedIs
    <2> HIDE DEF T
    <2>3. Nat \subseteq T
      BY <2>1, <2>2, Induct
    <2> QED  BY <2>3 DEF T
  <1>11. Putting(h, q, sent)
    <2>1. h \in [0 .. n -> Seq(Segments)]
      BY <1>9, <1>10
    <2>2. h[0] = q
      BY <1>1, <1>8
    <2>3. \A i \in 1 .. n : h[i] = Inserted(h[i - 1], sent[i])
      <3>1. \A i \in 1 .. n : i \in 0 .. n /\ i # 0
        BY <1>1
      <3> QED  BY <1>8, <3>1
    <2> QED  BY <2>1, <2>2, <2>3 DEF Putting, n
  <1> QED  BY <1>2, <1>11 DEF n

\* Nothing is lost or comes from elsewhere when segments are put into a queue.
LEMMA PlacedHas ==
  ASSUME NEW q \in Seq(Segments), NEW sent \in Seq(Segments)
  PROVE  Placed(q, sent) \in Seq(Segments) /\ ElementsOf(Placed(q, sent)) = ElementsOf(q) \cup ElementsOf(sent)
  <1>1. PICK put : Putting(put, q, sent) /\ Placed(q, sent) = put[Len(sent)]
    BY PlacedIs
  <1> DEFINE n == Len(sent)
             T == {i \in Nat : i <= n => ElementsOf(put[i]) = ElementsOf(q) \cup {sent[j] : j \in 1 .. i}}
  <1>2. n \in Nat /\ DOMAIN sent = 1 .. n /\ \A i \in 1 .. n : sent[i] \in Segments
    OBVIOUS
  <1>3. /\ put \in [0 .. n -> Seq(Segments)] /\ put[0] = q
        /\ \A i \in 1 .. n : put[i] = Inserted(put[i - 1], sent[i])
    BY <1>1 DEF Putting
  <1> HIDE DEF n
  <1>4. 0 \in T
    BY <1>3
  <1>5. ASSUME NEW k \in Nat, k \in T PROVE k + 1 \in T
    <2> SUFFICES ASSUME k + 1 <= n PROVE ElementsOf(put[k + 1]) = ElementsOf(q) \cup {sent[j] : j \in 1 .. k + 1}
      OBVIOUS
    <2>1. k + 1 \in 1 .. n /\ (k + 1) - 1 = k /\ k <= n /\ k \in 0 .. n
      BY <1>2
    <2>2. put[k] \in Seq(Segments) /\ sent[k + 1] \in Segments /\ put[k + 1] = Inserted(put[k], sent[k + 1])
      BY <1>2, <1>3, <2>1
    <2>3. ElementsOf(put[k + 1]) = ElementsOf(put[k]) \cup {sent[k + 1]}
      BY <2>2, InsertedIs
    <2>4. ElementsOf(put[k]) = ElementsOf(q) \cup {sent[j] : j \in 1 .. k}
      BY <1>5, <2>1
    <2>5. {sent[j] : j \in 1 .. k + 1} = {sent[j] : j \in 1 .. k} \cup {sent[k + 1]}
      <3>1. \A j : j \in 1 .. k + 1 <=> j \in 1 .. k \/ j = k + 1
        OBVIOUS
      <3> QED  BY <3>1
    <2> QED  BY <2>3, <2>4, <2>5
  <1> HIDE DEF T
  <1>6. n \in T
    BY <1>2, <1>4, <1>5, Induct
  <1>7. ElementsOf(put[n]) = ElementsOf(q) \cup ElementsOf(sent)
    <2>1. ElementsOf(put[n]) = ElementsOf(q) \cup {sent[j] : j \in 1 .. n}
      BY <1>2, <1>6 DEF T
    <2>2. ElementsOf(sent) = {sent[j] : j \in 1 .. n}
      BY <1>2 DEF ElementsOf
    <2> QED  BY <2>1, <2>2
  <1>8. put[n] \in Seq(Segments)
    BY <1>2, <1>3
  <1> QED  BY <1>1, <1>7, <1>8 DEF n

\* Segments that all have higher numbers than those before them are appended; so
\* are they when the first was put in front of the queue.
Behind(front, sent, k) ==
    /\ \A i \in k + 1 .. Len(sent) : \A j \in 1 .. Len(front) : front[j].seq < sent[i].seq
    /\ \A i \in k + 1 .. Len(sent) : \A j \in k + 1 .. i - 1 : sent[j].seq < sent[i].seq

\* The first k are in, and make up front; the others come behind it.
HalfDone(put, q, sent, k, front) ==
    Putting(put, q, sent) /\ put[k] = front /\ Behind(front, sent, k)

\* What is not in yet.
Rest(sent, k) == SubSeq(sent, k + 1, Len(sent))

\* What is behind all that is there is put there in order.
LEMMA PlacedBehind ==
  ASSUME NEW q \in Seq(Segments), NEW sent \in Seq(Segments), NEW k \in 0 .. Len(sent),
         NEW front \in Seq(Segments), NEW put, HalfDone(put, q, sent, k, front)
  PROVE  put[Len(sent)] = front \o Rest(sent, k)
  <1> DEFINE n == Len(sent)
             More(i) == front \o SubSeq(sent, k + 1, k + i)
             T == {i \in Nat : k + i <= n => put[k + i] = More(i)}
  <1>1. n \in Nat /\ k \in Nat /\ k <= n /\ DOMAIN sent = 1 .. n /\ \A i \in 1 .. n : sent[i] \in Segments
    OBVIOUS
  <1>2. /\ put \in [0 .. n -> Seq(Segments)]
        /\ \A i \in 1 .. n : put[i] = Inserted(put[i - 1], sent[i])
    BY DEF Putting, HalfDone
  <1>h. /\ \A i \in k + 1 .. n : \A j \in 1 .. Len(front) : front[j].seq < sent[i].seq
        /\ \A i \in k + 1 .. n : \A j \in k + 1 .. i - 1 : sent[j].seq < sent[i].seq
    BY DEF Behind, HalfDone
  <1>p. ASSUME NEW i \in Nat, k + i <= n
        PROVE  /\ SubSeq(sent, k + 1, k + i) \in Seq(Segments) /\ Len(SubSeq(sent, k + 1, k + i)) = i
               /\ \A j \in 1 .. i : SubSeq(sent, k + 1, k + i)[j] = sent[k + j]
    <2>1. k + 1 \in 1 .. n + 1 /\ k + i \in 0 .. n /\ (k + i) - (k + 1) + 1 = i
      BY <1>1, <1>p
    <2> QED  BY <1>1, <1>p, <2>1
  <1> HIDE DEF n
  <1>f. put[k] = front
    BY DEF HalfDone
  <1>3. 0 \in T
    <2>1. SubSeq(sent, k + 1, k + 0) = <<>>
      <3>1. 0 \in Nat /\ k + 0 <= n
        BY <1>1
      <3>2. SubSeq(sent, k + 1, k + 0) \in Seq(Segments) /\ Len(SubSeq(sent, k + 1, k + 0)) = 0
        BY <1>p, <3>1
      <3> QED  BY <3>2
    <2>2. front \o <<>> = front /\ k + 0 = k
      BY <1>1
    <2> QED  BY <1>f, <2>1, <2>2
  <1> HIDE DEF More
  <1>4. ASSUME NEW i \in Nat, i \in T PROVE i + 1 \in T
    <2> SUFFICES ASSUME k + (i + 1) <= n PROVE put[k + (i + 1)] = More(i + 1)
      OBVIOUS
    <2> DEFINE b == SubSeq(sent, k + 1, k + i)
               c == SubSeq(sent, k + 1, k + (i + 1))
               s == sent[k + (i + 1)]
               t == front \o b
               m == Len(front)
    <2>1. k + i <= n /\ k + (i + 1) \in 1 .. n /\ k + (i + 1) - 1 = k + i /\ k + (i + 1) \in k + 1 .. n
      BY <1>1
    <2>2. b \in Seq(Segments) /\ Len(b) = i /\ \A j \in 1 .. i : b[j] = sent[k + j]
      BY <1>p, <2>1
    <2>3. c \in Seq(Segments) /\ Len(c) = i + 1 /\ \A j \in 1 .. i + 1 : c[j] = sent[k + j]
      <3>1. i + 1 \in Nat
        OBVIOUS
      <3> QED  BY <1>p, <3>1
    <2>4. put[k + (i + 1)] = Inserted(put[k + i], s) /\ put[k + i] = t
      <3>1. put[k + (i + 1)] = Inserted(put[k + (i + 1) - 1], s)
        BY <1>2, <2>1
      <3>2. put[k + i] = t
        BY <1>4, <2>1 DEF More
      <3> QED  BY <2>1, <3>1, <3>2
    <2>5. s \in Segments
      BY <1>1, <2>1
    <2> HIDE DEF b, c
    <2>6. /\ t \in Seq(Segments) /\ Len(t) = m + i
          /\ \A j \in 1 .. m + i : t[j] = IF j <= m THEN front[j] ELSE b[j - m]
      BY <2>2, Concatenation
    <2>m. m \in Nat
      OBVIOUS
    <2> HIDE DEF t
    <2>s. s.seq = sent[k + (i + 1)].seq
      OBVIOUS
    <2> HIDE DEF s, m
    <2>7. ASSUME NEW j \in 1 .. m + i PROVE t[j].seq < s.seq
      <3>1. CASE j <= m
        <4>1. j \in 1 .. Len(front)
          BY <2>m, <3>1 DEF m
        <4> QED  BY <1>h, <2>1, <2>6, <2>s, <3>1, <4>1
      <3>2. CASE ~(j <= m)
        <4>1. j - m \in 1 .. i /\ k + (j - m) \in k + 1 .. k + (i + 1) - 1
          BY <1>1, <2>m, <3>2
        <4>2. t[j] = sent[k + (j - m)]
          BY <2>2, <2>6, <3>2, <4>1
        <4> QED  BY <1>h, <2>1, <2>s, <4>1, <4>2
      <3> QED  BY <3>1, <3>2
    <2>8. Inserted(t, s) = t \o <<s>>
      <3>1. \A j \in 1 .. Len(t) : t[j].seq < s.seq
        BY <2>6, <2>7
      <3> QED  BY <2>5, <2>6, <3>1, InsertedIs
    <2>9. b \o <<s>> = c
      <3>1. <<s>> \in Seq(Segments) /\ Len(<<s>>) = 1 /\ <<s>>[1] = s
        BY <2>5
      <3>2. /\ b \o <<s>> \in Seq(Segments) /\ Len(b \o <<s>>) = i + 1
            /\ \A j \in 1 .. i + 1 : (b \o <<s>>)[j] = IF j <= i THEN b[j] ELSE <<s>>[j - i]
        BY <2>2, <3>1, Concatenation
      <3>3. ASSUME NEW j \in 1 .. i + 1 PROVE (b \o <<s>>)[j] = c[j]
        <4>0. c[j] = sent[k + j]
          BY <2>3
        <4>1. CASE j <= i
          <5>1. j \in 1 .. i
            BY <4>1
          <5> QED  BY <2>2, <3>2, <4>0, <4>1, <5>1
        <4>2. CASE ~(j <= i)
          <5>1. j = i + 1 /\ j - i = 1
            BY <4>2
          <5> QED  BY <3>1, <3>2, <4>0, <4>2, <5>1 DEF s
        <4> QED  BY <4>1, <4>2
      <3> QED  BY <2>3, <3>2, <3>3, SameSequence
    <2>10. t \o <<s>> = front \o c
      <3>1. (front \o b) \o <<s>> = front \o (b \o <<s>>)
        BY <2>2, <2>5
      <3> QED  BY <2>9, <3>1 DEF t
    <2> QED  BY <2>4, <2>8, <2>10 DEF c, More
  <1> HIDE DEF T
  <1>5. n - k \in T
    <2>1. n - k \in Nat
      BY <1>1
    <2> QED  BY <1>3, <1>4, <2>1, Induct
  <1>6. k + (n - k) = n
    BY <1>1
  <1>7. put[n] = More(n - k)
    BY <1>1, <1>5, <1>6 DEF T
  <1> QED  BY <1>6, <1>7 DEF More, n, Rest

-----------------------------------------------------------------------------
\* Numbers that go up along a sequence; putting segments into a queue in order,
\* and with one that goes in front of it.
GoesUp(a) == \A i, j \in 1 .. Len(a) : i < j => a[i].seq < a[j].seq

\* Three queues are put together either way.
LEMMA Associates ==
  ASSUME NEW a \in Seq(Segments), NEW b \in Seq(Segments), NEW c \in Seq(Segments)
  PROVE  (a \o b) \o c = a \o (b \o c)
  OBVIOUS

\* One segment in front of a queue.
LEMMA Leading ==
  ASSUME NEW o \in Seq(Segments), Len(o) = 1, NEW a \in Seq(Segments)
  PROVE  /\ o \o a \in Seq(Segments) /\ Len(o \o a) = 1 + Len(a)
         /\ \A i \in 1 .. 1 + Len(a) : (o \o a)[i] = IF i <= 1 THEN o[i] ELSE a[i - 1]
  <1>1. /\ o \o a \in Seq(Segments) /\ Len(o \o a) = Len(o) + Len(a)
        /\ \A i \in 1 .. Len(o) + Len(a) : (o \o a)[i] = IF i <= Len(o) THEN o[i] ELSE a[i - Len(o)]
    BY Concatenation
  <1> QED  BY <1>1

\* Of queues in order the first n unsent segments go to the end of the other.
LEMMA PlacedInOrder ==
  ASSUME NEW u \in Seq(Segments), NEW w \in Seq(Segments), GoesUp(u \o w), NEW n \in 0 .. Len(w)
  PROVE  Placed(u, SubSeq(w, 1, n)) \o SubSeq(w, n + 1, Len(w)) = u \o w
  <1> DEFINE sent == SubSeq(w, 1, n)
             rest == SubSeq(w, n + 1, Len(w))
  <1>1. /\ sent \in Seq(Segments) /\ rest \in Seq(Segments) /\ Len(sent) = n
        /\ sent \o rest = w /\ \A i \in 1 .. n : sent[i] = w[i]
    BY PartHas
  <1> HIDE DEF sent, rest
  <1>2. /\ u \o w \in Seq(Segments) /\ Len(u \o w) = Len(u) + Len(w)
        /\ \A i \in 1 .. Len(u) + Len(w) : (u \o w)[i] = IF i <= Len(u) THEN u[i] ELSE w[i - Len(u)]
    BY Concatenation
  <1>3. Len(u) \in Nat /\ Len(w) \in Nat /\ n \in Nat /\ n <= Len(w)
    OBVIOUS
  <1>4. ASSUME NEW i \in 1 .. n PROVE (u \o w)[Len(u) + i] = sent[i]
    <2>1. Len(u) + i \in 1 .. Len(u) + Len(w) /\ ~(Len(u) + i <= Len(u)) /\ Len(u) + i - Len(u) = i
      BY <1>3
    <2> QED  BY <1>1, <1>2, <2>1
  <1>5. ASSUME NEW i \in 1 .. n, NEW j \in 1 .. Len(u) PROVE u[j].seq < sent[i].seq
    <2>1. j \in 1 .. Len(u) + Len(w) /\ Len(u) + i \in 1 .. Len(u) + Len(w) /\ j < Len(u) + i /\ j <= Len(u)
      BY <1>3
    <2>2. (u \o w)[j].seq < (u \o w)[Len(u) + i].seq
      BY <1>2, <2>1 DEF GoesUp
    <2> QED  BY <1>2, <1>4, <2>1, <2>2
  <1>6. ASSUME NEW i \in 1 .. n, NEW j \in 1 .. i - 1 PROVE sent[j].seq < sent[i].seq
    <2>1. /\ Len(u) + j \in 1 .. Len(u) + Len(w) /\ Len(u) + i \in 1 .. Len(u) + Len(w)
          /\ Len(u) + j < Len(u) + i /\ j \in 1 .. n
      BY <1>3
    <2>2. (u \o w)[Len(u) + j].seq < (u \o w)[Len(u) + i].seq
      BY <1>2, <2>1 DEF GoesUp
    <2> QED  BY <1>4, <2>1, <2>2
  <1>7. PICK put : Putting(put, u, sent) /\ Placed(u, sent) = put[Len(sent)]
    BY <1>1, PlacedIs
  <1>8. put[Len(sent)] = u \o SubSeq(sent, 0 + 1, Len(sent))
    <2>1. 0 \in 0 .. Len(sent) /\ put[0] = u
      BY <1>1, <1>7 DEF Putting
    <2>2. \A i \in 0 + 1 .. Len(sent) : \A j \in 1 .. Len(u) : u[j].seq < sent[i].seq
      BY <1>1, <1>5
    <2>3. \A i \in 0 + 1 .. Len(sent) : \A j \in 0 + 1 .. i - 1 : sent[j].seq < sent[i].seq
      BY <1>1, <1>6
    <2>4. Behind(u, sent, 0)
      BY <2>2, <2>3 DEF Behind
    <2>5. sent \in Seq(Segments) /\ HalfDone(put, u, sent, 0, u)
      BY <1>1, <1>7, <2>1, <2>4 DEF HalfDone
    <2>6. put[Len(sent)] = u \o Rest(sent, 0)
      BY <2>1, <2>5, PlacedBehind
    <2> QED  BY <2>6 DEF Rest
  <1>9. SubSeq(sent, 0 + 1, Len(sent)) = sent
    BY <1>1
  <1>10. (u \o sent) \o rest = u \o (sent \o rest)
    BY <1>1, Associates, ZenonT(40)
  <1> QED  BY <1>1, <1>7, <1>8, <1>9, <1>10 DEF sent, rest

\* h is the first of queue v, and behind it go all of u and then the rest of v.
Around(h, u, w, v) == v = <<h>> \o w /\ GoesUp(<<h>> \o (u \o w))
\* Queue u with the first n of v, and then what is left of v.
Moved(u, v, n) == Placed(u, SubSeq(v, 1, n)) \o SubSeq(v, n + 1, Len(v))

\* When the first goes to the front, the next n - 1 go to the end.
LEMMA PlacedAround ==
  ASSUME NEW h \in Segments, NEW u \in Seq(Segments), NEW w \in Seq(Segments), NEW v \in Seq(Segments),
         Around(h, u, w, v), NEW n \in 1 .. Len(v)
  PROVE  Moved(u, v, n) = <<h>> \o (u \o w)
  <1> DEFINE sent == SubSeq(v, 1, n)
             rest == SubSeq(v, n + 1, Len(v))
             o == <<h>>
             front == o \o u
             all == front \o w
  <1>0. o \in Seq(Segments) /\ Len(o) = 1 /\ o[1] = h
    OBVIOUS
  <1>v. v = o \o w
    BY DEF Around
  <1>g. GoesUp(o \o (u \o w))
    BY DEF Around
  <1> HIDE DEF o
  <1>1. /\ v \in Seq(Segments) /\ Len(v) = 1 + Len(w)
        /\ \A i \in 1 .. 1 + Len(w) : v[i] = IF i <= 1 THEN o[i] ELSE w[i - 1]
    BY <1>0, <1>v, Leading
  <1>2. Len(u) \in Nat /\ Len(w) \in Nat /\ n \in Nat /\ n <= 1 + Len(w) /\ 1 <= n /\ n \in 0 .. Len(v)
    BY <1>1
  <1>3. /\ sent \in Seq(Segments) /\ rest \in Seq(Segments) /\ Len(sent) = n
        /\ sent \o rest = v /\ \A i \in 1 .. n : sent[i] = v[i]
    BY <1>1, <1>2, PartHas
  <1> HIDE DEF sent, rest
  <1>4. /\ front \in Seq(Segments) /\ Len(front) = 1 + Len(u)
        /\ \A i \in 1 .. 1 + Len(u) : front[i] = IF i <= 1 THEN o[i] ELSE u[i - 1]
    BY <1>0, Leading
  <1> HIDE DEF front
  <1>5. /\ all \in Seq(Segments) /\ Len(all) = Len(front) + Len(w)
        /\ \A i \in 1 .. Len(front) + Len(w) : all[i] = IF i <= Len(front) THEN front[i] ELSE w[i - Len(front)]
    BY <1>4, Concatenation
  <1>6. all = o \o (u \o w)
    BY <1>0, Associates DEF front
  <1> HIDE DEF all
  <1>7. \A i, j \in 1 .. Len(front) + Len(w) : i < j => all[i].seq < all[j].seq
    BY <1>5, <1>6, <1>g DEF GoesUp
  <1>8. ASSUME NEW i \in 2 .. n
        PROVE  /\ Len(front) + (i - 1) \in 1 .. Len(front) + Len(w) /\ i \in 1 .. n
               /\ all[Len(front) + (i - 1)] = sent[i]
    <2>1. /\ Len(front) + (i - 1) \in 1 .. Len(front) + Len(w) /\ ~(Len(front) + (i - 1) <= Len(front))
          /\ Len(front) + (i - 1) - Len(front) = i - 1 /\ i \in 1 .. n /\ ~(i <= 1) /\ i \in 1 .. 1 + Len(w)
      BY <1>2, <1>4
    <2>2. all[Len(front) + (i - 1)] = w[i - 1]
      <3> DEFINE j == Len(front) + (i - 1)
      <3>1. j \in 1 .. Len(front) + Len(w) /\ ~(j <= Len(front)) /\ j - Len(front) = i - 1
        BY <2>1
      <3> HIDE DEF j
      <3>2. all[j] = w[j - Len(front)]
        BY <1>5, <3>1
      <3> QED  BY <3>1, <3>2 DEF j
    <2>3. sent[i] = w[i - 1]
      BY <1>1, <1>3, <2>1
    <2> QED  BY <2>1, <2>2, <2>3
  <1>9. ASSUME NEW i \in 2 .. n, NEW j \in 1 .. Len(front) PROVE front[j].seq < sent[i].seq
    <2>1. j \in 1 .. Len(front) + Len(w) /\ j < Len(front) + (i - 1) /\ j <= Len(front)
      BY <1>2, <1>4
    <2>2. all[j].seq < all[Len(front) + (i - 1)].seq
      BY <1>7, <1>8, <2>1
    <2> QED  BY <1>5, <1>8, <2>1, <2>2
  <1>10. ASSUME NEW i \in 2 .. n, NEW j \in 2 .. i - 1 PROVE sent[j].seq < sent[i].seq
    <2>1. j \in 2 .. n /\ Len(front) + (j - 1) < Len(front) + (i - 1)
      BY <1>2, <1>4
    <2>2. all[Len(front) + (j - 1)].seq < all[Len(front) + (i - 1)].seq
      BY <1>7, <1>8, <2>1
    <2> QED  BY <1>8, <2>1, <2>2
  <1>11. PICK put : Putting(put, u, sent) /\ Placed(u, sent) = put[Len(sent)]
    BY <1>3, PlacedIs
  <1>12. put[1] = front
    <2>1. sent[1] = h /\ 1 \in 1 .. Len(sent)
      <3>1. 1 \in 1 .. n /\ 1 \in 1 .. 1 + Len(w)
        BY <1>2
      <3> QED  BY <1>0, <1>1, <1>3, <3>1
    <2>2. put[1] = Inserted(u, h)
      <3>1. put[1] = Inserted(put[1 - 1], sent[1]) /\ put[0] = u
        BY <1>11, <2>1 DEF Putting
      <3> QED  BY <2>1, <3>1
    <2>3. ASSUME NEW i \in 1 .. Len(u) PROVE ~(u[i].seq < h.seq)
      <3>1. /\ 1 \in 1 .. Len(front) + Len(w) /\ 1 + i \in 1 .. Len(front) + Len(w) /\ 1 < 1 + i
            /\ 1 <= Len(front) /\ 1 + i <= Len(front) /\ ~(1 + i <= 1) /\ (1 + i) - 1 = i
            /\ 1 \in 1 .. 1 + Len(u) /\ 1 + i \in 1 .. 1 + Len(u)
        BY <1>2, <1>4
      <3>2. all[1].seq < all[1 + i].seq
        BY <1>7, <3>1
      <3>3. all[1] = h
        BY <1>0, <1>4, <1>5, <3>1
      <3>4. all[1 + i] = u[i]
        BY <1>4, <1>5, <3>1
      <3>5. h.seq \in Nat /\ u[i].seq \in Nat
        BY UpperIs
      <3> QED  BY <3>2, <3>3, <3>4, <3>5
    <2>4. Inserted(u, h) = <<h>> \o u
      BY <2>3, InsertedIs
    <2> QED  BY <2>2, <2>4 DEF front, o
  <1>13. put[Len(sent)] = front \o SubSeq(sent, 1 + 1, Len(sent))
    <2>1. 1 \in 0 .. Len(sent)
      BY <1>2, <1>3
    <2>2. \A i \in 1 + 1 .. Len(sent) : \A j \in 1 .. Len(front) : front[j].seq < sent[i].seq
      BY <1>3, <1>9
    <2>3. \A i \in 1 + 1 .. Len(sent) : \A j \in 1 + 1 .. i - 1 : sent[j].seq < sent[i].seq
      BY <1>3, <1>10
    <2>4. Behind(front, sent, 1)
      BY <2>2, <2>3 DEF Behind
    <2>5. sent \in Seq(Segments) /\ HalfDone(put, u, sent, 1, front) /\ front \in Seq(Segments)
      BY <1>3, <1>4, <1>11, <1>12, <2>4 DEF HalfDone
    <2>6. put[Len(sent)] = front \o Rest(sent, 1)
      <3> DEFINE k == 1
      <3>1. k \in 0 .. Len(sent) /\ HalfDone(put, u, sent, k, front)
        BY <2>1, <2>5
      <3> HIDE DEF k
      <3>2. put[Len(sent)] = front \o Rest(sent, k)
        BY <2>5, <3>1, PlacedBehind
      <3> QED  BY <3>2 DEF k
    <2> QED  BY <2>6 DEF Rest
  <1> DEFINE more == SubSeq(sent, 1 + 1, Len(sent))
  <1>14. more \in Seq(Segments) /\ o \o more = sent
    <2>1. 1 \in 0 .. Len(sent)
      BY <1>2, <1>3
    <2>2. more \in Seq(Segments) /\ SubSeq(sent, 1, 1) \o more = sent
      BY <1>3, <2>1, PartHas
    <2>3. SubSeq(sent, 1, 1) = o
      <3>1. SubSeq(sent, 1, 1) \in Seq(Segments) /\ Len(SubSeq(sent, 1, 1)) = 1 /\ \A i \in 1 .. 1 : SubSeq(sent, 1, 1)[i] = sent[i]
        BY <1>3, <2>1, PartHas
      <3>2. sent[1] = o[1]
        <4>1. 1 \in 1 .. n /\ 1 \in 1 .. 1 + Len(w)
          BY <1>2
        <4> QED  BY <1>1, <1>3, <4>1
      <3>3. \A i \in 1 .. 1 : SubSeq(sent, 1, 1)[i] = o[i]
        BY <3>1, <3>2
      <3> QED  BY <1>0, <3>1, <3>3, SameSequence
    <2> QED  BY <2>2, <2>3
  <1> HIDE DEF more
  <1>15. more \o rest = w
    <2>1. o \o (more \o rest) = o \o w
      <3>1. (o \o more) \o rest = o \o (more \o rest)
        <4>1. o \in Seq(Segments) /\ more \in Seq(Segments) /\ rest \in Seq(Segments)
          BY <1>0, <1>3, <1>14
        <4> HIDE DEF o, rest
        <4> QED  BY <4>1, SMTT(40)
      <3> QED  BY <1>3, <1>14, <1>v, <3>1
    <2>2. more \o rest \in Seq(Segments)
      BY <1>3, <1>14
    <2> DEFINE x == more \o rest
    <2> HIDE DEF x
    <2>3. /\ x \in Seq(Segments) /\ o \o x = o \o w
      BY <2>1, <2>2 DEF x
    <2>4. /\ Len(o \o x) = 1 + Len(x)
          /\ \A i \in 1 .. 1 + Len(x) : (o \o x)[i] = IF i <= 1 THEN o[i] ELSE x[i - 1]
      BY <1>0, <2>3, Leading
    <2>5. /\ Len(o \o w) = 1 + Len(w)
          /\ \A i \in 1 .. 1 + Len(w) : (o \o w)[i] = IF i <= 1 THEN o[i] ELSE w[i - 1]
      BY <1>0, Leading
    <2>6. Len(x) = Len(w)
      BY <2>3, <2>4, <2>5
    <2>7. ASSUME NEW i \in 1 .. Len(x) PROVE x[i] = w[i]
      <3>1. i + 1 \in 1 .. 1 + Len(x) /\ ~(i + 1 <= 1) /\ (i + 1) - 1 = i
        BY <2>3
      <3> QED  BY <2>3, <2>4, <2>5, <2>6, <3>1
    <2>8. x = w
      BY <2>3, <2>6, <2>7, SameSequence
    <2> QED  BY <2>8 DEF x
  <1>16. (front \o more) \o rest = front \o (more \o rest)
    <2>1. front \in Seq(Segments) /\ more \in Seq(Segments) /\ rest \in Seq(Segments)
      BY <1>3, <1>4, <1>14
    <2> HIDE DEF front, rest, o
    <2> QED  BY <2>1, SMTT(40)
  <1>17. Placed(u, sent) \o rest = all
    BY <1>11, <1>13, <1>15, <1>16 DEF more, all
  <1> QED  BY <1>1, <1>6, <1>17 DEF sent, rest, o, Moved

\* A queue that holds each byte from x up to y once, in segments of up to m.
Chain(a, x, y, m) ==
    /\ \A i \in 1 .. Len(a) : a[i].len \in 1 .. m /\ ~a[i].fin /\ x <= a[i].seq /\ Upper(a[i]) <= y
    /\ \A i, j \in 1 .. Len(a) : i < j => Upper(a[i]) <= a[j].seq
    /\ \A i \in 1 .. Len(a) - 1 : Upper(a[i]) = a[i + 1].seq
    /\ a = <<>> => x = y
    /\ a # <<>> => a[1].seq = x /\ Upper(a[Len(a)]) = y

\* A chain does not go back, and its numbers go up.
LEMMA ChainUp ==
  ASSUME NEW a \in Seq(Segments), NEW x \in Nat, NEW y \in Nat, NEW m \in Nat, Chain(a, x, y, m)
  PROVE  x <= y /\ GoesUp(a) /\ (a # <<>> => x < Upper(a[1]) /\ 1 \in 1 .. Len(a) /\ Len(a) \in 1 .. Len(a))
  <1>1. Len(a) \in Nat /\ (a # <<>> => 1 \in 1 .. Len(a) /\ Len(a) \in 1 .. Len(a))
    OBVIOUS
  <1>2. ASSUME NEW i \in 1 .. Len(a)
        PROVE  a[i].seq \in Nat /\ a[i].len \in Nat /\ a[i].seq < Upper(a[i]) /\ Upper(a[i]) <= y /\ x <= a[i].seq
    <2>1. a[i].len \in 1 .. m /\ x <= a[i].seq /\ Upper(a[i]) <= y
      BY DEF Chain
    <2>2. a[i] \in Segments
      OBVIOUS
    <2>3. a[i].seq \in Nat /\ a[i].len \in Nat
      BY <2>2, UpperIs
    <2> QED  BY <2>1, <2>3 DEF Upper
  <1>3. a # <<>> => x < Upper(a[1]) /\ x <= y
    <2> SUFFICES ASSUME a # <<>> PROVE x < Upper(a[1]) /\ x <= y
      OBVIOUS
    <2>1. a[1].seq = x
      BY DEF Chain
    <2>2. Upper(a[1]) \in Nat
      BY <1>1, <1>2 DEF Upper
    <2> QED  BY <1>1, <1>2, <2>1, <2>2
  <1>4. a = <<>> => x <= y
    BY DEF Chain
  <1>5. ASSUME NEW i \in 1 .. Len(a), NEW j \in 1 .. Len(a), i < j PROVE a[i].seq < a[j].seq
    <2>1. Upper(a[i]) <= a[j].seq
      BY <1>5 DEF Chain
    <2>2. Upper(a[i]) \in Nat
      BY <1>2 DEF Upper
    <2> QED  BY <1>2, <2>1, <2>2
  <1> QED  BY <1>1, <1>3, <1>4, <1>5 DEF GoesUp

\* The queue of one segment.
LEMMA ChainOfOne ==
  ASSUME NEW s \in Segments, NEW m \in Nat, s.len \in 1 .. m, ~s.fin
  PROVE  <<s>> \in Seq(Segments) /\ Chain(<<s>>, s.seq, Upper(s), m)
  <1>1. <<s>> \in Seq(Segments) /\ Len(<<s>>) = 1 /\ <<s>>[1] = s /\ <<s>> # <<>>
    OBVIOUS
  <1>2. s.seq \in Nat /\ s.len \in Nat /\ Upper(s) \in Nat /\ Upper(s) = s.seq + s.len
    BY UpperIs DEF Upper
  <1>3. \A i \in 1 .. 1 : i = 1
    OBVIOUS
  <1> DEFINE a == <<s>>
  <1> HIDE DEF a
  <1>4. Len(a) = 1 /\ a[1] = s /\ a # <<>>
    BY <1>1 DEF a
  <1>5. Chain(a, s.seq, Upper(s), m)
    BY <1>2, <1>3, <1>4 DEF Chain
  <1> QED  BY <1>1, <1>5 DEF a

\* Two chains that meet are one.
LEMMA ChainsJoin ==
  ASSUME NEW a \in Seq(Segments), NEW b \in Seq(Segments), NEW x \in Nat, NEW y \in Nat, NEW z \in Nat,
         NEW m \in Nat, Chain(a, x, y, m), Chain(b, y, z, m)
  PROVE  a \o b \in Seq(Segments) /\ Chain(a \o b, x, z, m)
  <1> DEFINE c == a \o b
  <1>1. /\ c \in Seq(Segments) /\ Len(c) = Len(a) + Len(b)
        /\ \A i \in 1 .. Len(a) + Len(b) : c[i] = IF i <= Len(a) THEN a[i] ELSE b[i - Len(a)]
    BY Concatenation
  <1>2. Len(a) \in Nat /\ Len(b) \in Nat
    OBVIOUS
  <1>e. a = <<>> => c = b
    OBVIOUS
  <1>f. b = <<>> => c = a
    OBVIOUS
  <1> HIDE DEF c
  <1>3. x <= y /\ y <= z
    BY ChainUp
  <1>4. CASE a = <<>>
    BY <1>1, <1>4, <1>e DEF Chain, c
  <1>5. CASE b = <<>>
    BY <1>1, <1>5, <1>f DEF Chain, c
  <1>6. CASE a # <<>> /\ b # <<>>
    <2> DEFINE l == Len(a)
               k == Len(b)
    <2>1. l \in Nat \ {0} /\ k \in Nat \ {0}
      BY <1>2, <1>6
    <2>a. ASSUME NEW i \in 1 .. l PROVE c[i] = a[i] /\ i \in 1 .. l + k
      BY <1>1, <2>1
    <2>b. ASSUME NEW i \in 1 .. k PROVE c[l + i] = b[i] /\ l + i \in 1 .. l + k
      <3>1. l + i \in 1 .. l + k /\ ~(l + i <= l) /\ (l + i) - l = i
        BY <2>1
      <3> QED  BY <1>1, <3>1
    <2>c. ASSUME NEW i \in 1 .. l + k PROVE i \in 1 .. l \/ \E j \in 1 .. k : i = l + j
      <3>1. CASE i <= l
        BY <2>1, <3>1
      <3>2. CASE i > l
        <4>1. i - l \in 1 .. k /\ i = l + (i - l)
          BY <2>1, <3>2
        <4> QED  BY <4>1
      <3> QED  BY <2>1, <3>1, <3>2
    <2>3. ASSUME NEW i \in 1 .. l
          PROVE  /\ a[i].len \in 1 .. m /\ ~a[i].fin /\ x <= a[i].seq /\ Upper(a[i]) <= y /\ Upper(a[i]) <= z
                 /\ a[i].seq \in Nat /\ Upper(a[i]) \in Nat
      <3>1. a[i].len \in 1 .. m /\ ~a[i].fin /\ x <= a[i].seq /\ Upper(a[i]) <= y
        BY DEF Chain
      <3>2. a[i] \in Segments
        OBVIOUS
      <3>3. a[i].seq \in Nat /\ Upper(a[i]) \in Nat
        BY <3>2, UpperIs
      <3> QED  BY <1>3, <3>1, <3>3
    <2>4. ASSUME NEW i \in 1 .. k
          PROVE  /\ b[i].len \in 1 .. m /\ ~b[i].fin /\ x <= b[i].seq /\ y <= b[i].seq /\ Upper(b[i]) <= z
                 /\ b[i].seq \in Nat /\ Upper(b[i]) \in Nat
      <3>1. b[i].len \in 1 .. m /\ ~b[i].fin /\ y <= b[i].seq /\ Upper(b[i]) <= z
        BY DEF Chain
      <3>2. b[i] \in Segments
        OBVIOUS
      <3>3. b[i].seq \in Nat /\ Upper(b[i]) \in Nat
        BY <3>2, UpperIs
      <3> QED  BY <1>3, <3>1, <3>3
    <2>5. /\ a[1].seq = x /\ Upper(a[l]) = y /\ b[1].seq = y /\ Upper(b[k]) = z
      BY <1>6 DEF Chain
    <2>6. /\ \A i, j \in 1 .. l : i < j => Upper(a[i]) <= a[j].seq
          /\ \A i, j \in 1 .. k : i < j => Upper(b[i]) <= b[j].seq
          /\ \A i \in 1 .. l - 1 : Upper(a[i]) = a[i + 1].seq
          /\ \A i \in 1 .. k - 1 : Upper(b[i]) = b[i + 1].seq
      BY DEF Chain
    <2>d. Len(c) = l + k
      BY <1>1
    <2>g. 1 \in 1 .. l /\ l \in 1 .. l /\ 1 \in 1 .. k /\ k \in 1 .. k
      BY <2>1
    <2> HIDE DEF l, k
    <2>7. ASSUME NEW i \in 1 .. l + k
          PROVE  c[i].len \in 1 .. m /\ ~c[i].fin /\ x <= c[i].seq /\ Upper(c[i]) <= z
      <3>1. CASE i \in 1 .. l
        BY <2>a, <2>3, <3>1
      <3>2. CASE \E j \in 1 .. k : i = l + j
        <4>1. PICK j \in 1 .. k : i = l + j
          BY <3>2
        <4>2. c[i] = b[j]
          BY <2>b, <4>1
        <4> QED  BY <2>4, <4>2
      <3> QED  BY <2>c, <3>1, <3>2
    <2>8. ASSUME NEW i \in 1 .. l + k, NEW j \in 1 .. l + k, i < j
          PROVE  Upper(c[i]) <= c[j].seq
      <3>1. CASE j \in 1 .. l
        <4>1. i \in 1 .. l
          BY <2>1, <2>8, <3>1
        <4> QED  BY <2>a, <2>6, <2>8, <3>1, <4>1
      <3>2. CASE \E n \in 1 .. k : j = l + n
        <4>1. PICK n \in 1 .. k : j = l + n
          BY <3>2
        <4>2. c[j] = b[n]
          BY <2>b, <4>1
        <4>3. CASE i \in 1 .. l
          <5>1. Upper(a[i]) <= y /\ y <= b[n].seq /\ Upper(a[i]) \in Nat /\ b[n].seq \in Nat
            BY <2>3, <2>4, <4>3
          <5>2. c[i] = a[i]
            BY <2>a, <4>3
          <5> QED  BY <4>2, <5>1, <5>2
        <4>4. CASE \E o \in 1 .. k : i = l + o
          <5>1. PICK o \in 1 .. k : i = l + o
            BY <4>4
          <5>2. c[i] = b[o] /\ o < n
            BY <2>1, <2>b, <2>8, <4>1, <5>1
          <5> QED  BY <2>6, <4>2, <5>2
        <4> QED  BY <2>c, <4>3, <4>4
      <3> QED  BY <2>c, <3>1, <3>2
    <2>9. ASSUME NEW i \in 1 .. (l + k) - 1
          PROVE  Upper(c[i]) = c[i + 1].seq
      <3>1. CASE i < l
        <4>1. i \in 1 .. l - 1 /\ i \in 1 .. l /\ i + 1 \in 1 .. l
          BY <2>1, <3>1
        <4> QED  BY <2>a, <2>6, <4>1
      <3>2. CASE i = l
        <4>1. c[i] = a[l] /\ c[i + 1] = b[1]
          BY <2>a, <2>b, <2>g, <3>2
        <4> QED  BY <2>5, <4>1
      <3>3. CASE i > l
        <4> DEFINE n == i - l
        <4>1. n \in 1 .. k - 1 /\ n \in 1 .. k /\ n + 1 \in 1 .. k /\ i = l + n /\ i + 1 = l + (n + 1)
          BY <2>1, <3>3
        <4> HIDE DEF n
        <4>2. c[i] = b[n] /\ c[i + 1] = b[n + 1]
          BY <2>b, <4>1
        <4> QED  BY <2>6, <4>1, <4>2
      <3> QED  BY <2>1, <3>1, <3>2, <3>3
    <2>10. c[1].seq = x /\ Upper(c[l + k]) = z
      BY <2>a, <2>b, <2>g, <2>5
    <2>11. c # <<>>
      BY <1>1, <2>1, <2>d
    <2> QED  BY <1>1, <2>d, <2>7, <2>8, <2>9, <2>10, <2>11 DEF Chain, c
  <1> QED  BY <1>4, <1>5, <1>6

\* A chain cut in two is two chains that meet.
LEMMA ChainsPart ==
  ASSUME NEW a \in Seq(Segments), NEW b \in Seq(Segments), NEW x \in Nat, NEW z \in Nat,
         NEW m \in Nat, Chain(a \o b, x, z, m)
  PROVE  \E y \in Nat : Chain(a, x, y, m) /\ Chain(b, y, z, m)
  <1> DEFINE c == a \o b
  <1>1. /\ c \in Seq(Segments) /\ Len(c) = Len(a) + Len(b)
        /\ \A i \in 1 .. Len(a) + Len(b) : c[i] = IF i <= Len(a) THEN a[i] ELSE b[i - Len(a)]
    BY Concatenation
  <1>2. Len(a) \in Nat /\ Len(b) \in Nat
    OBVIOUS
  <1>e. a = <<>> => c = b
    OBVIOUS
  <1>f. b = <<>> => c = a
    OBVIOUS
  <1>g. Chain(c, x, z, m)
    OBVIOUS
  <1> HIDE DEF c
  <1>4. CASE a = <<>>
    <2>1. Len(a) = 0
      BY <1>4
    <2>2. Chain(a, x, x, m)
      BY <1>4, <2>1 DEF Chain
    <2>3. Chain(b, x, z, m)
      BY <1>4, <1>e, <1>g
    <2> QED  BY <2>2, <2>3
  <1>5. CASE b = <<>>
    <2>1. Len(b) = 0
      BY <1>5
    <2>2. Chain(b, z, z, m)
      BY <1>5, <2>1 DEF Chain
    <2>3. Chain(a, x, z, m)
      BY <1>5, <1>f, <1>g
    <2> QED  BY <2>2, <2>3
  <1>6. CASE a # <<>> /\ b # <<>>
    <2> DEFINE l == Len(a)
               k == Len(b)
               y == Upper(a[l])
    <2>1. l \in Nat \ {0} /\ k \in Nat \ {0}
      BY <1>2, <1>6
    <2>a. ASSUME NEW i \in 1 .. l PROVE c[i] = a[i] /\ i \in 1 .. l + k
      BY <1>1, <2>1
    <2>b. ASSUME NEW i \in 1 .. k PROVE c[l + i] = b[i] /\ l + i \in 1 .. l + k
      <3>1. l + i \in 1 .. l + k /\ ~(l + i <= l) /\ (l + i) - l = i
        BY <2>1
      <3> QED  BY <1>1, <3>1
    <2>c. Len(c) = l + k
      BY <1>1
    <2>d. 1 \in 1 .. l /\ l \in 1 .. l /\ 1 \in 1 .. k /\ k \in 1 .. k /\ l \in 1 .. (l + k) - 1
      BY <2>1
    <2>e. c # <<>>
      BY <2>1, <2>c
    <2>3. /\ \A i \in 1 .. l + k : c[i].len \in 1 .. m /\ ~c[i].fin /\ x <= c[i].seq /\ Upper(c[i]) <= z
          /\ \A i, j \in 1 .. l + k : i < j => Upper(c[i]) <= c[j].seq
          /\ \A i \in 1 .. (l + k) - 1 : Upper(c[i]) = c[i + 1].seq
          /\ c[1].seq = x /\ Upper(c[l + k]) = z
      BY <1>g, <2>c, <2>e DEF Chain
    <2>4. y \in Nat
      <3>1. a[l] \in Segments
        BY <2>d
      <3> QED  BY <3>1, UpperIs
    <2>f. \A i \in 1 .. l : Upper(a[i]) \in Nat /\ a[i].seq \in Nat
      BY UpperIs
    <2>g. \A i \in 1 .. k : Upper(b[i]) \in Nat /\ b[i].seq \in Nat
      BY UpperIs
    <2>h. c[l] = a[l] /\ c[l + 1] = b[1]
      BY <2>a, <2>b, <2>d
    <2>5. b[1].seq = y
      BY <2>3, <2>d, <2>h
    <2>i. a[1].seq = x
      BY <2>3, <2>a, <2>d
    <2>j. Upper(b[k]) = z
      BY <2>3, <2>b, <2>d
    <2> HIDE DEF l, k, y
    <2>k. \A i \in 1 .. l : \A j \in 1 .. l : i < j => Upper(a[i]) <= a[j].seq
      BY <2>3, <2>a
    <2>6. ASSUME NEW i \in 1 .. l
          PROVE  a[i].len \in 1 .. m /\ ~a[i].fin /\ x <= a[i].seq /\ Upper(a[i]) <= y
      <3>1. a[i].len \in 1 .. m /\ ~a[i].fin /\ x <= a[i].seq
        BY <2>3, <2>a
      <3>2. CASE i = l
        BY <2>4, <3>1, <3>2 DEF y
      <3>3. CASE i < l
        <4>1. Upper(a[i]) <= a[l].seq
          BY <2>k, <2>d, <3>3
        <4>2. a[l].seq <= Upper(a[l]) /\ a[l].seq \in Nat
          <5>1. a[l] \in Segments
            BY <2>d DEF l
          <5>2. a[l].seq \in Nat /\ a[l].len \in Nat
            BY <5>1, UpperIs
          <5> QED  BY <5>2 DEF Upper
        <4> QED  BY <2>4, <2>f, <3>1, <4>1, <4>2 DEF y
      <3> QED  BY <2>1, <3>2, <3>3
    <2>l. \A i \in 1 .. l - 1 : Upper(a[i]) = a[i + 1].seq
      <3> SUFFICES ASSUME NEW i \in 1 .. l - 1 PROVE Upper(a[i]) = a[i + 1].seq
        OBVIOUS
      <3>1. i \in 1 .. l /\ i + 1 \in 1 .. l /\ i \in 1 .. (l + k) - 1
        BY <2>1
      <3> QED  BY <2>3, <2>a, <3>1
    <2>7. Chain(a, x, y, m)
      <3>1. Len(a) = l /\ y = Upper(a[l])
        BY DEF l, y
      <3> QED  BY <1>6, <2>6, <2>k, <2>l, <2>i, <3>1 DEF Chain
    <2>m. \A i \in 1 .. k : \A j \in 1 .. k : i < j => Upper(b[i]) <= b[j].seq
      <3> SUFFICES ASSUME NEW i \in 1 .. k, NEW j \in 1 .. k, i < j PROVE Upper(b[i]) <= b[j].seq
        OBVIOUS
      <3>1. l + i < l + j
        BY <2>1
      <3> QED  BY <2>3, <2>b, <3>1
    <2>8. ASSUME NEW i \in 1 .. k
          PROVE  b[i].len \in 1 .. m /\ ~b[i].fin /\ y <= b[i].seq /\ Upper(b[i]) <= z
      <3>1. b[i].len \in 1 .. m /\ ~b[i].fin /\ Upper(b[i]) <= z
        BY <2>3, <2>b
      <3>2. y <= b[i].seq
        <4>1. l < l + i
          BY <2>1
        <4>2. Upper(c[l]) <= c[l + i].seq
          BY <2>3, <2>a, <2>b, <2>d, <4>1
        <4> QED  BY <2>b, <2>h, <4>2 DEF y
      <3> QED  BY <3>1, <3>2
    <2>n. \A i \in 1 .. k - 1 : Upper(b[i]) = b[i + 1].seq
      <3> SUFFICES ASSUME NEW i \in 1 .. k - 1 PROVE Upper(b[i]) = b[i + 1].seq
        OBVIOUS
      <3> DEFINE o == i + 1
      <3>1. i \in 1 .. k /\ o \in 1 .. k /\ l + i \in 1 .. (l + k) - 1 /\ (l + i) + 1 = l + o
        BY <2>1
      <3> HIDE DEF o
      <3>2. Upper(c[l + i]) = c[l + o].seq
        BY <2>3, <3>1
      <3>3. Upper(b[i]) = b[o].seq
        BY <2>b, <3>1, <3>2
      <3> QED  BY <3>3 DEF o
    <2>9. Chain(b, y, z, m)
      <3>1. Len(b) = k
        BY DEF k
      <3> QED  BY <1>6, <2>8, <2>m, <2>n, <2>5, <2>j, <3>1 DEF Chain
    <2> QED  BY <2>4, <2>7, <2>9
  <1> QED  BY <1>4, <1>5, <1>6

\* Nothing is dropped when the first segment is not acknowledged.
LEMMA AboveAll ==
  ASSUME NEW a \in Seq(Segments), NEW ack \in Nat, a # <<>> => ack < Upper(a[1])
  PROVE  Above(a, ack) = a
  <1>1. UpTo(a, ack) \in 0 .. Len(a) /\ Len(a) \in Nat
        /\ \A i \in 1 .. UpTo(a, ack) : a[i].seq + SegLen(a[i]) <= ack
    BY UpToIs
  <1>2. UpTo(a, ack) = 0
    <2> SUFFICES ASSUME UpTo(a, ack) # 0 PROVE FALSE
      OBVIOUS
    <2>1. 1 \in 1 .. UpTo(a, ack) /\ 1 \in 1 .. Len(a) /\ a # <<>>
      BY <1>1
    <2>2. a[1] \in Segments
      BY <2>1
    <2>3. a[1].seq \in Nat /\ a[1].len \in Nat /\ SegLen(a[1]) \in Nat /\ a[1].len <= SegLen(a[1])
      <3>1. a[1].seq \in Nat /\ a[1].len \in Nat /\ a[1].fin \in BOOLEAN
        BY <2>2, UpperIs
      <3> QED  BY <3>1 DEF SegLen
    <2>4. a[1].seq + SegLen(a[1]) <= ack /\ ack < Upper(a[1])
      BY <1>1, <2>1
    <2> QED  BY <2>3, <2>4 DEF Upper
  <1> QED  BY <1>2 DEF Above

\* What stays of a queue was in it.
LEMMA AboveHas ==
  ASSUME NEW a \in Seq(Segments), NEW ack \in Nat
  PROVE  Above(a, ack) \in Seq(Segments) /\ ElementsOf(Above(a, ack)) \subseteq ElementsOf(a)
  <1>1. UpTo(a, ack) \in 0 .. Len(a)
    BY UpToIs
  <1> QED  BY <1>1, PartHas DEF Above

\* The first of a queue is not acknowledged.
Lead(a, ack) == a # <<>> => ack < Upper(a[1])

\* A chain from x, or from what is acknowledged.
ChainFrom(a, x, y, m, ack) == \E w \in Nat : Chain(a, w, y, m) /\ (w = x \/ w <= ack)

\* A chain of which the head is acknowledged is a chain.
LEMMA ChainAbove ==
  ASSUME NEW a \in Seq(Segments), NEW x \in Nat, NEW y \in Nat, NEW m \in Nat, Chain(a, x, y, m),
         NEW ack \in Nat
  PROVE  Lead(Above(a, ack), ack) /\ ChainFrom(Above(a, ack), x, y, m, ack)
  <1> DEFINE k == UpTo(a, ack)
             f == SubSeq(a, 1, k)
             r == Above(a, ack)
  <1>1. /\ k \in 0 .. Len(a) /\ \A i \in 1 .. k : a[i].seq + SegLen(a[i]) <= ack
        /\ k < Len(a) => a[k + 1].seq + SegLen(a[k + 1]) > ack
    BY UpToIs
  <1>2. \A i \in 1 .. Len(a) : ~a[i].fin /\ a[i] \in Segments
    BY DEF Chain
  <1>3. \A i \in 1 .. Len(a) : a[i].seq + SegLen(a[i]) = Upper(a[i]) /\ Upper(a[i]) \in Nat
    <2> SUFFICES ASSUME NEW i \in 1 .. Len(a)
                 PROVE  a[i].seq + SegLen(a[i]) = Upper(a[i]) /\ Upper(a[i]) \in Nat
      OBVIOUS
    <2>1. ~a[i].fin /\ a[i].len \in Nat /\ Upper(a[i]) \in Nat
      BY <1>2, UpperIs
    <2> QED  BY <2>1 DEF SegLen, Upper
  <1>4. /\ f \in Seq(Segments) /\ r \in Seq(Segments) /\ Len(f) = k /\ Len(r) = Len(a) - k /\ f \o r = a
        /\ \A i \in 1 .. k : f[i] = a[i]
        /\ \A i \in 1 .. Len(a) - k : r[i] = a[k + i]
    <2> HIDE DEF k
    <2> QED  BY <1>1, PartHas DEF Above, k
  <1>5. r # <<>> => ack < Upper(r[1])
    <2> SUFFICES ASSUME r # <<>> PROVE ack < Upper(r[1])
      OBVIOUS
    <2>1. Len(r) \in Nat \ {0} /\ Len(a) \in Nat
      BY <1>4
    <2> DEFINE o == k + 1
    <2>2. k < Len(a) /\ 1 \in 1 .. Len(a) - k /\ o \in 1 .. Len(a)
      BY <1>1, <1>4, <2>1, SMTT(30)
    <2>3. a[o].seq + SegLen(a[o]) > ack /\ r[1] = a[o]
      BY <1>1, <1>4, <2>2
    <2> HIDE DEF o, k, r
    <2> QED  BY <1>3, <2>2, <2>3
  <1> HIDE DEF f, r
  <1>6. PICK w \in Nat : Chain(f, x, w, m) /\ Chain(r, w, y, m)
    <2>1. Chain(f \o r, x, y, m)
      BY <1>4
    <2> QED  BY <1>4, <2>1, ChainsPart
  <1>7. w = x \/ w <= ack
    <2>1. CASE f = <<>>
      BY <1>6, <2>1 DEF Chain
    <2>2. CASE f # <<>>
      <3>1. k \in 1 .. k /\ k \in 1 .. Len(a)
        BY <1>1, <1>4, <2>2
      <3>2. Upper(f[k]) = w
        BY <1>4, <1>6, <2>2 DEF Chain
      <3>3. f[k] = a[k] /\ a[k].seq + SegLen(a[k]) <= ack
        BY <1>1, <1>4, <3>1
      <3> QED  BY <1>3, <3>1, <3>2, <3>3
    <2> QED  BY <2>1, <2>2
  <1> QED  BY <1>5, <1>6, <1>7 DEF r, Lead, ChainFrom

\* A queue of all that is above k, up to z, in segments of up to m.
Line(a, k, z, m) ==
    k <= z /\ (a # <<>> => k < Upper(a[1])) /\ \E x \in Nat : x <= k /\ Chain(a, x, z, m)

\* What is acknowledged is dropped from both queues.
LEMMA LineDrops ==
  ASSUME NEW u \in Seq(Segments), NEW v \in Seq(Segments), NEW k \in Nat, NEW z \in Nat, NEW m \in Nat,
         Line(u \o v, k, z, m), NEW ack \in Nat, k <= ack, ack <= z
  PROVE  Line(Above(u, ack) \o Above(v, ack), ack, z, m)
  <1> DEFINE c == Above(u, ack)
             d == Above(v, ack)
  <1>1. c \in Seq(Segments) /\ d \in Seq(Segments)
    BY AboveHas
  <1>2. PICK x \in Nat : x <= k /\ Chain(u \o v, x, z, m)
    BY DEF Line
  <1>3. PICK y \in Nat : Chain(u, x, y, m) /\ Chain(v, y, z, m)
    BY <1>2, ChainsPart
  <1>a. Lead(c, ack) /\ ChainFrom(c, x, y, m, ack)
    BY <1>3, ChainAbove
  <1>b. Lead(d, ack) /\ ChainFrom(d, y, z, m, ack)
    BY <1>3, ChainAbove
  <1>4. (c # <<>> => ack < Upper(c[1])) /\ \E w \in Nat : Chain(c, w, y, m) /\ (w = x \/ w <= ack)
    BY <1>a DEF Lead, ChainFrom
  <1>5. (d # <<>> => ack < Upper(d[1])) /\ \E w \in Nat : Chain(d, w, z, m) /\ (w = y \/ w <= ack)
    BY <1>b DEF Lead, ChainFrom
  <1>6. PICK w \in Nat : Chain(c, w, y, m) /\ (w = x \/ w <= ack)
    BY <1>4
  <1>7. w <= ack
    BY <1>2, <1>6
  <1>8. CASE c = <<>>
    <2>1. w = y /\ c \o d = d
      BY <1>1, <1>6, <1>8 DEF Chain
    <2> HIDE DEF c, d
    <2>2. PICK o \in Nat : Chain(d, o, z, m) /\ (o = y \/ o <= ack)
      BY <1>5
    <2>3. Line(d, ack, z, m)
      BY <1>5, <1>7, <2>1, <2>2 DEF Line
    <2> QED  BY <2>1, <2>3 DEF c, d
  <1>9. CASE c # <<>>
    <2>1. Upper(c[1]) <= y /\ 1 \in 1 .. Len(c)
      BY <1>1, <1>6, <1>9 DEF Chain
    <2>2. ack < y
      <3>1. c[1] \in Segments
        BY <1>1, <2>1
      <3>2. Upper(c[1]) \in Nat
        BY <3>1, UpperIs
      <3> QED  BY <1>4, <1>9, <2>1, <3>2
    <2>3. v # <<>> => ack < Upper(v[1])
      <3> SUFFICES ASSUME v # <<>> PROVE ack < Upper(v[1])
        OBVIOUS
      <3>1. y < Upper(v[1]) /\ 1 \in 1 .. Len(v)
        BY <1>3, ChainUp
      <3>2. v[1] \in Segments
        BY <3>1
      <3>3. Upper(v[1]) \in Nat
        BY <3>2, UpperIs
      <3> QED  BY <2>2, <3>1, <3>3
    <2>4. d = v
      BY <2>3, AboveAll
    <2>5. Chain(c \o d, w, z, m)
      BY <1>1, <1>3, <1>6, <2>4, ChainsJoin
    <2>6. c \o d # <<>> /\ (c \o d)[1] = c[1]
      <3>1. Len(c \o d) = Len(c) + Len(d) /\ (\A i \in 1 .. Len(c) + Len(d) : (c \o d)[i] = IF i <= Len(c) THEN c[i] ELSE d[i - Len(c)])
        BY <1>1, Concatenation
      <3>2. Len(c) \in Nat \ {0} /\ Len(d) \in Nat
        BY <1>1, <1>9
      <3> HIDE DEF c, d
      <3> QED  BY <3>1, <3>2
    <2> HIDE DEF c, d
    <2>7. Line(c \o d, ack, z, m)
      BY <1>4, <1>7, <1>9, <2>5, <2>6 DEF Line
    <2> QED  BY <2>7 DEF c, d
  <1> QED  BY <1>8, <1>9

\* A late acknowledgment drops nothing.
LEMMA LineStays ==
  ASSUME NEW u \in Seq(Segments), NEW v \in Seq(Segments), NEW k \in Nat, NEW z \in Nat, NEW m \in Nat,
         Line(u \o v, k, z, m), NEW ack \in Nat, ack <= k
  PROVE  Above(v, ack) = v
  <1>1. PICK x \in Nat : x <= k /\ Chain(u \o v, x, z, m)
    BY DEF Line
  <1>2. PICK y \in Nat : Chain(u, x, y, m) /\ Chain(v, y, z, m)
    BY <1>1, ChainsPart
  <1>3. v # <<>> => ack < Upper(v[1])
    <2> SUFFICES ASSUME v # <<>> PROVE ack < Upper(v[1])
      OBVIOUS
    <2>1. y < Upper(v[1]) /\ 1 \in 1 .. Len(v)
      BY <1>2, ChainUp
    <2>2. v[1] \in Segments
      BY <2>1
    <2>3. Upper(v[1]) \in Nat
      BY <2>2, UpperIs
    <2>4. CASE u = <<>>
      <3>1. u \o v = v
        BY <2>4
      <3> QED  BY <2>3, <3>1 DEF Line
    <2>5. CASE u # <<>>
      <3>1. k < Upper((u \o v)[1]) /\ (u \o v)[1] = u[1] /\ 1 \in 1 .. Len(u)
        <4>1. Len(u \o v) = Len(u) + Len(v) /\ (\A i \in 1 .. Len(u) + Len(v) : (u \o v)[i] = IF i <= Len(u) THEN u[i] ELSE v[i - Len(u)])
          BY Concatenation
        <4>2. Len(u) \in Nat \ {0} /\ Len(v) \in Nat
          BY <2>5
        <4>3. u \o v # <<>>
          BY <4>1, <4>2
        <4>4. (u \o v)[1] = u[1] /\ 1 \in 1 .. Len(u)
          BY <4>1, <4>2
        <4> QED  BY <4>3, <4>4 DEF Line
      <3>2. Upper(u[1]) <= y
        BY <1>2, <3>1 DEF Chain
      <3>3. u[1] \in Segments
        BY <3>1
      <3>4. Upper(u[1]) \in Nat
        BY <3>3, UpperIs
      <3>5. k < Upper(u[1])
        BY <3>1
      <3> QED  BY <2>1, <2>3, <3>2, <3>4, <3>5
    <2> QED  BY <2>4, <2>5
  <1> QED  BY <1>3, AboveAll

\* Finitely many numbers have a highest one.
LEMMA Bounded ==
  ASSUME NEW n \in Nat, NEW f, \A i \in 1 .. n : f[i] \in Nat
  PROVE  \E b \in Nat : \A i \in 1 .. n : f[i] <= b
  <1> DEFINE T == {k \in Nat : k <= n => \E b \in Nat : \A i \in 1 .. k : f[i] <= b}
  <1>1. 0 \in T
    <2>1. \A i \in 1 .. 0 : f[i] <= 0
      OBVIOUS
    <2> QED  BY <2>1
  <1>2. ASSUME NEW k \in Nat, k \in T PROVE k + 1 \in T
    <2> SUFFICES ASSUME k + 1 <= n PROVE \E b \in Nat : \A i \in 1 .. k + 1 : f[i] <= b
      OBVIOUS
    <2>1. PICK b \in Nat : \A i \in 1 .. k : f[i] <= b
      BY <1>2
    <2> DEFINE o == k + 1
               d == IF f[o] <= b THEN b ELSE f[o]
    <2>2. o \in 1 .. n /\ f[o] \in Nat /\ 1 .. o = 1 .. k \cup {o}
      <3>1. o \in 1 .. n /\ \A i \in 1 .. o : i \in 1 .. k \/ i = o
        OBVIOUS
      <3>2. 1 .. k \subseteq 1 .. o /\ o \in 1 .. o
        OBVIOUS
      <3> QED  BY <3>1, <3>2
    <2>3. d \in Nat /\ b <= d /\ f[o] <= d
      BY <2>2
    <2>4. ASSUME NEW i \in 1 .. o PROVE f[i] <= d
      <3>1. CASE i = o
        BY <2>3, <3>1
      <3>2. CASE i \in 1 .. k
        <4>1. f[i] <= b /\ i \in 1 .. n
          BY <2>1, <3>2
        <4>2. f[i] \in Nat
          BY <4>1
        <4> HIDE DEF d
        <4> QED  BY <2>3, <4>1, <4>2
      <3> QED  BY <2>2, <3>1, <3>2
    <2> HIDE DEF d
    <2> QED  BY <2>3, <2>4
  <1> HIDE DEF T
  <1>3. Nat \subseteq T
    BY <1>1, <1>2, Induct
  <1>4. n \in T
    BY <1>3
  <1> QED  BY <1>4 DEF T

\* The highest of c and finitely many numbers.
LEMMA HighestOf ==
  ASSUME NEW c \in Nat, NEW n \in Nat, NEW f, \A i \in 1 .. n : f[i] \in Nat
  PROVE  LET S == {c} \cup {f[i] : i \in 1 .. n}
         IN Max(S) \in S /\ \A x \in S : x <= Max(S)
  <1> DEFINE S == {c} \cup {f[i] : i \in 1 .. n}
  <1>1. PICK b \in Nat : \A i \in 1 .. n : f[i] <= b
    BY Bounded
  <1>2. PICK d \in Nat : b <= d /\ c <= d
    <2>1. CASE b <= c
      BY <2>1
    <2>2. CASE c <= b
      BY <2>2
    <2> QED  BY <2>1, <2>2
  <1>3. S \subseteq 0 .. d /\ S # {}
    <2>1. c \in 0 .. d
      BY <1>2
    <2>2. ASSUME NEW i \in 1 .. n PROVE f[i] \in 0 .. d
      BY <1>1, <1>2
    <2> QED  BY <2>1, <2>2
  <1> HIDE DEF S
  <1>4. Max(S) \in S /\ \A x \in S : x <= Max(S)
    BY <1>3, MaxOfBounded
  <1> QED  BY <1>4 DEF S

\* The states of the sender, and its PCB.
SenderStates == {"ESTABLISHED", "CLOSE_WAIT", "FIN_WAIT_1", "FIN_WAIT_2", "CLOSING", "LAST_ACK",
           "TIME_WAIT", "GONE", "ABORTED"}
Octet   == 0 .. 255
Dupacks == 0 .. 4
FlagSet == SUBSET {"INFR", "NAGLEMEMERR", "FIN"}
Positive == Nat \ {0}
Pcb == [mss : MssValues, state : SenderStates, unsent : Seq(Segments), unacked : Seq(Segments), snd_nxt : Nat,
        snd_lbb : Nat, snd_buf : Nat, lastack : Nat, snd_wnd : Nat, snd_wl1 : Nat, snd_wl2 : Nat,
        cwnd : Nat, ssthresh : Positive, dupacks : Dupacks, rtime : BOOLEAN, nrtx : Octet,
        persist : BOOLEAN, flags : FlagSet]

\* How many segments tcp_output sends.
LEMMA SentNowIs ==
  ASSUME NEW p \in Pcb
  PROVE  /\ SentNow(p) \in 0 .. Len(p.unsent) /\ Len(p.unsent) \in Nat
         /\ \A i \in 1 .. SentNow(p) : InWindows(p, p.unsent[i])
         /\ SentNow(p) < Len(p.unsent) => ~(InWindows(p, p.unsent[SentNow(p) + 1])
                                            /\ tcp_do_output_nagle(p, SentNow(p) + 1))
  <1> DEFINE m == Len(p.unsent)
             S == {i \in 1 .. m : InWindows(p, p.unsent[i]) /\ tcp_do_output_nagle(p, i)}
             n == SentNow(p)
  <1>1. m \in Nat /\ DOMAIN p.unsent = 1 .. m
    <2>1. p.unsent \in Seq(Segments)
      BY DEF Pcb
    <2> QED  BY <2>1
  <1>2. {k \in DOMAIN p.unsent : \A i \in 1 .. k : InWindows(p, p.unsent[i]) /\ tcp_do_output_nagle(p, i)}
            = {k \in 1 .. m : \A i \in 1 .. k : i \in S}
    <2> DEFINE Ok(i) == InWindows(p, p.unsent[i]) /\ tcp_do_output_nagle(p, i)
    <2> HIDE DEF Ok, m
    <2>1. {k \in 1 .. m : \A i \in 1 .. k : Ok(i)} = {k \in 1 .. m : \A i \in 1 .. k : i \in {j \in 1 .. m : Ok(j)}}
      <3>1. ASSUME NEW k \in 1 .. m PROVE (\A i \in 1 .. k : Ok(i)) <=> (\A i \in 1 .. k : i \in {j \in 1 .. m : Ok(j)})
        <4>1. \A i \in 1 .. k : i \in 1 .. m
          BY <1>1
        <4> QED  BY <4>1
      <3> QED  BY <3>1
    <2> QED  BY <1>1, <2>1 DEF Ok, m
  <1>3. n = Longest(m, S)
    BY <1>2 DEF SentNow, Longest
  <1> HIDE DEF m, n, S
  <1>4. n \in 0 .. m /\ (\A i \in 1 .. n : i \in S) /\ (n < m => n + 1 \notin S)
    BY <1>1, <1>3, LongestPrefix
  <1>5. n < m => n + 1 \in 1 .. m
    BY <1>1, <1>4
  <1> QED  BY <1>1, <1>4, <1>5 DEF m, n, S

\* What tcp_output leaves as it is.
Untouched(q, p) ==
    /\ q.mss = p.mss /\ q.state = p.state /\ q.snd_lbb = p.snd_lbb /\ q.snd_buf = p.snd_buf
    /\ q.lastack = p.lastack /\ q.snd_wnd = p.snd_wnd /\ q.snd_wl1 = p.snd_wl1 /\ q.snd_wl2 = p.snd_wl2

\* tcp_output, field by field.
LEMMA OutputIs ==
  ASSUME NEW p \in Pcb
  PROVE  LET q == tcp_output(p)
             n == SentNow(p)
         IN /\ q \in Pcb /\ Untouched(q, p)
            /\ n \in 0 .. Len(p.unsent) /\ SegmentsOf(p) = SubSeq(p.unsent, 1, n)
            /\ q.unsent = SubSeq(p.unsent, n + 1, Len(p.unsent))
            /\ q.unacked = Placed(p.unacked, SegmentsOf(p))
            /\ p.snd_nxt <= q.snd_nxt
            /\ \A i \in 1 .. n : p.unsent[i].seq + SegLen(p.unsent[i]) <= q.snd_nxt
            /\ q.snd_nxt = p.snd_nxt \/ \E i \in 1 .. n : q.snd_nxt = p.unsent[i].seq + SegLen(p.unsent[i])
  <1> DEFINE n == SentNow(p)
             sent == SubSeq(p.unsent, 1, n)
             rest == SubSeq(p.unsent, n + 1, Len(p.unsent))
             put == Placed(p.unacked, sent)
             nxt == Max({p.snd_nxt} \cup {sent[i].seq + SegLen(sent[i]) : i \in 1 .. n})
             r == p.rtime \/ n > 0
             f == p.flags \ {"NAGLEMEMERR"}
             q == tcp_output(p)
  <1>1. p.unsent \in Seq(Segments) /\ p.unacked \in Seq(Segments) /\ p.snd_nxt \in Nat
    BY DEF Pcb
  <1>2. n \in 0 .. Len(p.unsent) /\ n \in Nat
    <2> HIDE DEF n
    <2>1. n \in 0 .. Len(p.unsent) /\ Len(p.unsent) \in Nat
      BY SentNowIs DEF n
    <2> QED  BY <2>1
  <1>3. /\ sent \in Seq(Segments) /\ rest \in Seq(Segments) /\ Len(sent) = n
        /\ \A i \in 1 .. n : sent[i] = p.unsent[i]
    <2> HIDE DEF n
    <2> QED  BY <1>1, <1>2, PartHas
  <1>4. put \in Seq(Segments)
    <2> HIDE DEF sent
    <2> QED  BY <1>1, <1>3, PlacedHas
  <1>5. \A i \in 1 .. n : sent[i] \in Segments
    <2> HIDE DEF sent, n
    <2> QED  BY <1>3
  <1> HIDE DEF sent, n, rest, put
  <1>6. \A i \in 1 .. n : sent[i].seq + SegLen(sent[i]) \in Nat
    <2> SUFFICES ASSUME NEW i \in 1 .. n PROVE sent[i].seq + SegLen(sent[i]) \in Nat
      OBVIOUS
    <2>1. sent[i].seq \in Nat /\ SegLen(sent[i]) \in Nat
      BY <1>5, UpperIs
    <2> QED  BY <2>1
  <1>7. nxt \in Nat /\ p.snd_nxt <= nxt /\ (\A i \in 1 .. n : sent[i].seq + SegLen(sent[i]) <= nxt)
        /\ (nxt = p.snd_nxt \/ \E i \in 1 .. n : nxt = sent[i].seq + SegLen(sent[i]))
    <2> DEFINE g == [i \in 1 .. n |-> sent[i].seq + SegLen(sent[i])]
               S == {p.snd_nxt} \cup {g[i] : i \in 1 .. n}
    <2>1. \A i \in 1 .. n : g[i] = sent[i].seq + SegLen(sent[i])
      OBVIOUS
    <2>2. S = {p.snd_nxt} \cup {sent[i].seq + SegLen(sent[i]) : i \in 1 .. n}
      BY <2>1
    <2> HIDE DEF g
    <2>3. \A i \in 1 .. n : g[i] \in Nat
      BY <1>6, <2>1
    <2>4. Max(S) \in S /\ \A x \in S : x <= Max(S)
      BY <1>1, <1>2, <2>3, HighestOf
    <2>5. nxt = Max(S)
      BY <2>2
    <2> HIDE DEF nxt
    <2>6. nxt \in S /\ (\A i \in 1 .. n : g[i] <= nxt) /\ p.snd_nxt <= nxt
      BY <2>4, <2>5
    <2> QED  BY <1>1, <2>1, <2>3, <2>6
  <1>8. q = [p EXCEPT !.unsent = rest, !.unacked = put, !.snd_nxt = nxt, !.rtime = r, !.flags = f]
    BY DEF tcp_output, n, sent, rest, put
  <1>9. SegmentsOf(p) = sent
    BY DEF SegmentsOf, sent, n
  <1> HIDE DEF nxt, q
  <1>10. r \in BOOLEAN /\ f \in FlagSet
    <2>1. p.rtime \in BOOLEAN /\ p.flags \in FlagSet
      BY DEF Pcb
    <2> QED  BY <2>1 DEF FlagSet
  <1> HIDE DEF r, f
  <1>11. q \in Pcb
    BY <1>3, <1>4, <1>7, <1>8, <1>10 DEF Pcb
  <1>12. Untouched(q, p)
    BY <1>8 DEF Pcb, Untouched
  <1>13. q.unsent = rest /\ q.unacked = put /\ q.snd_nxt = nxt
    BY <1>8 DEF Pcb
  <1> QED  BY <1>2, <1>3, <1>7, <1>9, <1>11, <1>12, <1>13 DEF rest, put, n, sent, q

\* The sizes of segments.
LEMMA LocalIs ==
  ASSUME NEW p \in Pcb
  PROVE  mss_local(p) \in Nat \ {0} /\ p.mss \in Nat \ {0} /\ mss_local(p) <= p.mss /\ 2 * mss_local(p) <= PeerBuf
  <1>1. p.mss \in Nat \ {0} /\ PeerBuf \in Nat /\ PeerBuf >= 2
    BY SendAssumption DEF Pcb
  <1>2. PeerBuf \div 2 \in Nat \ {0} /\ 2 * (PeerBuf \div 2) <= PeerBuf
    BY <1>1
  <1>3. Min({p.mss, PeerBuf \div 2}) = IF p.mss <= PeerBuf \div 2 THEN p.mss ELSE PeerBuf \div 2
    BY <1>1, <1>2, MinOfTwo
  <1> QED  BY <1>1, <1>2, <1>3 DEF mss_local

\* What is in a line of segments.
LEMMA LineHas ==
  ASSUME NEW a \in Seq(Segments), NEW k \in Nat, NEW z \in Nat, NEW m \in Nat, Line(a, k, z, m)
  PROVE  GoesUp(a) /\ \A s \in ElementsOf(a) : s \in Segments /\ s.len \in 1 .. m /\ ~s.fin /\ Upper(s) <= z
                                                /\ s.seq + SegLen(s) = Upper(s)
  <1>1. PICK x \in Nat : x <= k /\ Chain(a, x, z, m)
    BY DEF Line
  <1>2. ASSUME NEW s \in ElementsOf(a)
        PROVE  s \in Segments /\ s.len \in 1 .. m /\ ~s.fin /\ Upper(s) <= z
               /\ s.seq + SegLen(s) = Upper(s)
    <2>1. PICK i \in 1 .. Len(a) : s = a[i]
      BY DEF ElementsOf
    <2>2. s \in Segments
      BY <2>1
    <2>3. s.len \in 1 .. m /\ ~s.fin /\ Upper(s) <= z
      BY <1>1, <2>1 DEF Chain
    <2>4. s.len \in Nat /\ s.seq \in Nat
      BY <2>2, UpperIs
    <2> QED  BY <2>2, <2>3, <2>4 DEF SegLen, Upper
  <1> QED  BY <1>1, <1>2, ChainUp

\* tcp_output takes segments from one queue to the other.
LEMMA OutputMoves ==
  ASSUME NEW p \in Pcb
  PROVE  LET q == tcp_output(p)
             out == ElementsOf(SegmentsOf(p))
         IN /\ SegmentsOf(p) \in Seq(Segments) /\ out \subseteq ElementsOf(p.unsent)
            /\ ElementsOf(q.unacked) = ElementsOf(p.unacked) \cup out
            /\ ElementsOf(p.unsent) = ElementsOf(q.unsent) \cup out
            /\ \A s \in out : Upper(s) <= p.lastack + p.snd_wnd /\ s.seq + SegLen(s) <= q.snd_nxt
  <1> DEFINE q == tcp_output(p)
             n == SentNow(p)
             sent == SegmentsOf(p)
             out == ElementsOf(sent)
  <1>1. /\ n \in 0 .. Len(p.unsent) /\ sent = SubSeq(p.unsent, 1, n)
        /\ q.unsent = SubSeq(p.unsent, n + 1, Len(p.unsent)) /\ q.unacked = Placed(p.unacked, sent)
        /\ \A i \in 1 .. n : p.unsent[i].seq + SegLen(p.unsent[i]) <= q.snd_nxt
    BY OutputIs
  <1>2. p.unsent \in Seq(Segments) /\ p.unacked \in Seq(Segments) /\ {p.lastack, p.snd_wnd, p.cwnd} \subseteq Nat
    BY DEF Pcb
  <1>3. \A i \in 1 .. n : InWindows(p, p.unsent[i])
    BY SentNowIs
  <1> HIDE DEF n, sent, q
  <1>4. /\ sent \in Seq(Segments) /\ Len(sent) = n /\ \A i \in 1 .. n : sent[i] = p.unsent[i]
        /\ ElementsOf(p.unsent) = out \cup ElementsOf(q.unsent)
    <2> DEFINE b == SubSeq(p.unsent, 1, n)
               c == SubSeq(p.unsent, n + 1, Len(p.unsent))
    <2>1. /\ b \in Seq(Segments) /\ Len(b) = n /\ \A i \in 1 .. n : b[i] = p.unsent[i]
          /\ ElementsOf(p.unsent) = ElementsOf(b) \cup ElementsOf(c)
      BY <1>1, <1>2, PartHas
    <2>2. b = sent /\ c = q.unsent
      BY <1>1
    <2> HIDE DEF b, c
    <2> QED  BY <2>1, <2>2
  <1>5. ElementsOf(q.unacked) = ElementsOf(p.unacked) \cup out
    BY <1>1, <1>2, <1>4, PlacedHas
  <1>6. ASSUME NEW s \in out
        PROVE  Upper(s) <= p.lastack + p.snd_wnd /\ s.seq + SegLen(s) <= q.snd_nxt
    <2>1. PICK i \in 1 .. n : s = sent[i]
      BY <1>4 DEF ElementsOf
    <2>2. s = p.unsent[i] /\ s \in Segments
      BY <1>4, <2>1
    <2>3. InWindows(p, s) /\ s.seq + SegLen(s) <= q.snd_nxt
      BY <1>1, <1>3, <2>1, <2>2
    <2>4. s.seq \in Nat /\ s.len \in Nat
      BY <2>2, UpperIs
    <2>5. Min({p.snd_wnd, p.cwnd}) = IF p.snd_wnd <= p.cwnd THEN p.snd_wnd ELSE p.cwnd
      BY <1>2, MinOfTwo
    <2>6. Min({p.snd_wnd, p.cwnd}) <= p.snd_wnd /\ Min({p.snd_wnd, p.cwnd}) \in Nat
      BY <1>2, <2>5
    <2>7. s.seq - p.lastack + s.len <= Min({p.snd_wnd, p.cwnd})
      BY <2>3 DEF InWindows
    <2> QED  BY <1>2, <2>3, <2>4, <2>6, <2>7 DEF Upper
  <1> QED  BY <1>4, <1>5, <1>6 DEF sent, q

\* The queues in order.
InLine(p) == Line(p.unacked \o p.unsent, p.lastack, p.snd_lbb, mss_local(p))

\* tcp_rexmit_fast put the first segment back at the head of what is unsent.
FirstAgain(p, h, w) ==
    /\ h \in Segments /\ w \in Seq(Segments) /\ p.unsent = <<h>> \o w
    /\ Line(<<h>> \o (p.unacked \o w), p.lastack, p.snd_lbb, mss_local(p))
    /\ InWindows(p, h) /\ "INFR" \in p.flags
Retransmits(p) == \E h, w : FirstAgain(p, h, w)

\* What the numbers of the PCB have to do with each other.
Sums(p) ==
    /\ p.snd_buf = SndBuf - (p.snd_lbb - p.lastack) /\ p.snd_nxt <= p.snd_lbb
    /\ \A s \in ElementsOf(p.unacked) : Upper(s) <= p.snd_nxt /\ Upper(s) <= p.lastack + p.snd_wnd
OpenPcb(p) == InLine(p) /\ Sums(p)

\* tcp_output keeps them.
LEMMA OutputSums ==
  ASSUME NEW p \in Pcb, Sums(p), \A s \in ElementsOf(p.unsent) : Upper(s) <= p.snd_lbb /\ s.seq + SegLen(s) = Upper(s)
  PROVE  Sums(tcp_output(p))
  <1> DEFINE q == tcp_output(p)
             n == SentNow(p)
             out == ElementsOf(SegmentsOf(p))
  <1>1. /\ q \in Pcb /\ Untouched(q, p) /\ p.snd_nxt <= q.snd_nxt /\ n \in 0 .. Len(p.unsent)
        /\ q.snd_nxt = p.snd_nxt \/ \E i \in 1 .. n : q.snd_nxt = p.unsent[i].seq + SegLen(p.unsent[i])
    BY OutputIs
  <1>2. /\ out \subseteq ElementsOf(p.unsent) /\ ElementsOf(q.unacked) = ElementsOf(p.unacked) \cup out
        /\ \A s \in out : Upper(s) <= p.lastack + p.snd_wnd /\ s.seq + SegLen(s) <= q.snd_nxt
    BY OutputMoves
  <1>3. /\ {p.snd_nxt, p.snd_lbb, q.snd_nxt} \subseteq Nat
        /\ p.unacked \in Seq(Segments) /\ p.unsent \in Seq(Segments)
    BY <1>1 DEF Pcb
  <1> HIDE DEF q, n, out
  <1>4. q.snd_nxt <= p.snd_lbb
    <2>1. CASE q.snd_nxt = p.snd_nxt
      BY <2>1 DEF Sums
    <2>2. CASE \E i \in 1 .. n : q.snd_nxt = p.unsent[i].seq + SegLen(p.unsent[i])
      <3>1. PICK i \in 1 .. n : q.snd_nxt = p.unsent[i].seq + SegLen(p.unsent[i])
        BY <2>2
      <3>2. i \in DOMAIN p.unsent
        BY <1>1, <1>3, <3>1
      <3>3. p.unsent[i] \in ElementsOf(p.unsent)
        BY <3>2 DEF ElementsOf
      <3> QED  BY <3>1, <3>3
    <2> QED  BY <1>1, <2>1, <2>2
  <1>5. ASSUME NEW s \in ElementsOf(q.unacked)
        PROVE  Upper(s) <= q.snd_nxt /\ Upper(s) <= p.lastack + p.snd_wnd
    <2>1. CASE s \in out
      BY <1>2, <2>1
    <2>2. CASE s \in ElementsOf(p.unacked)
      <3>1. Upper(s) <= p.snd_nxt /\ Upper(s) <= p.lastack + p.snd_wnd
        BY <2>2 DEF Sums
      <3>2. s \in Segments
        BY <1>3, <2>2 DEF ElementsOf
      <3>3. Upper(s) \in Nat
        BY <3>2, UpperIs
      <3> QED  BY <1>1, <1>3, <3>1, <3>3
    <2> QED  BY <1>2, <2>1, <2>2
  <1>6. q.snd_buf = SndBuf - (q.snd_lbb - q.lastack)
    BY <1>1 DEF Sums, Untouched
  <1> QED  BY <1>1, <1>4, <1>5, <1>6 DEF Sums, Untouched, q

\* After tcp_output the queues are in order, also when a segment was put back before.
LEMMA OutputOpen ==
  ASSUME NEW p \in Pcb, Sums(p), InLine(p) \/ Retransmits(p)
  PROVE  OpenPcb(tcp_output(p))
  <1> DEFINE q == tcp_output(p)
             n == SentNow(p)
             u == p.unacked
             v == p.unsent
             m == mss_local(p)
             a == p.lastack
             z == p.snd_lbb
  <1>1. /\ n \in 0 .. Len(v) /\ SegmentsOf(p) = SubSeq(v, 1, n) /\ Untouched(q, p)
        /\ q.unsent = SubSeq(v, n + 1, Len(v)) /\ q.unacked = Placed(u, SegmentsOf(p))
    BY OutputIs
  <1>2. u \in Seq(Segments) /\ v \in Seq(Segments) /\ a \in Nat /\ z \in Nat /\ m \in Nat
    BY LocalIs DEF Pcb
  <1>3. mss_local(q) = m /\ q.lastack = a /\ q.snd_lbb = z
    BY <1>1 DEF mss_local, Untouched
  <1>s. /\ n \in 0 .. Len(v) /\ Len(v) \in Nat
        /\ n < Len(v) => ~(InWindows(p, v[n + 1]) /\ tcp_do_output_nagle(p, n + 1))
    BY SentNowIs
  <1> HIDE DEF q, n, m
  <1>4. CASE InLine(p)
    <2>1. Line(u \o v, a, z, m) /\ u \o v \in Seq(Segments)
      BY <1>2, <1>4 DEF InLine, m
    <2>2. GoesUp(u \o v) /\ \A s \in ElementsOf(u \o v) : Upper(s) <= z /\ s.seq + SegLen(s) = Upper(s)
      BY <1>2, <2>1, LineHas
    <2>a. GoesUp(u \o v) /\ n \in 0 .. Len(v)
      BY <1>1, <2>2
    <2>b. Placed(u, SubSeq(v, 1, n)) \o SubSeq(v, n + 1, Len(v)) = u \o v
      BY <1>2, <2>a, PlacedInOrder
    <2>3. q.unacked \o q.unsent = u \o v
      BY <1>1, <2>b
    <2>4. InLine(q)
      BY <1>3, <2>1, <2>3 DEF InLine
    <2>5. ElementsOf(v) \subseteq ElementsOf(u \o v)
      BY <1>2, TogetherHas
    <2>6. Sums(q)
      BY <2>2, <2>5, OutputSums DEF q
    <2> QED  BY <2>4, <2>6 DEF OpenPcb, q
  <1>5. CASE Retransmits(p)
    <2>1. PICK h, w : FirstAgain(p, h, w)
      BY <1>5 DEF Retransmits
    <2>2. /\ h \in Segments /\ w \in Seq(Segments) /\ v = <<h>> \o w
          /\ InWindows(p, h) /\ "INFR" \in p.flags
      BY <2>1 DEF FirstAgain
    <2> DEFINE all == <<h>> \o (u \o w)
    <2>3. Line(all, a, z, m)
      BY <2>1 DEF FirstAgain, m
    <2>4. u \o w \in Seq(Segments) /\ <<h>> \in Seq(Segments) /\ all \in Seq(Segments)
      BY <1>2, <2>2
    <2>5. GoesUp(all) /\ \A s \in ElementsOf(all) : Upper(s) <= z /\ s.seq + SegLen(s) = Upper(s)
      <3> HIDE DEF all
      <3> QED  BY <1>2, <2>3, <2>4, LineHas
    <2>6. n \in 1 .. Len(v)
      <3> SUFFICES ASSUME n = 0 PROVE FALSE
        BY <1>s
      <3>1. v[1] = h /\ Len(v) \in Nat \ {0}
        BY <2>2
      <3>2. ~(InWindows(p, v[1]) /\ tcp_do_output_nagle(p, 1))
        BY <1>s, <3>1
      <3>3. tcp_do_output_nagle(p, 1)
        BY <2>2 DEF tcp_do_output_nagle
      <3> QED  BY <2>2, <3>1, <3>2, <3>3
    <2>7. Placed(u, SubSeq(v, 1, n)) \o SubSeq(v, n + 1, Len(v)) = all
      <3>1. GoesUp(<<h>> \o (u \o w))
        BY <2>5
      <3>2. Placed(u, SubSeq(v, 1, n)) \o SubSeq(v, n + 1, Len(v)) = <<h>> \o (u \o w)
        <4>1. u \in Seq(Segments) /\ h \in Segments /\ w \in Seq(Segments) /\ v = <<h>> \o w
          BY <1>2, <2>2
        <4>2. v \in Seq(Segments)
          BY <1>2
        <4>3. Around(h, u, w, v)
          BY <3>1, <4>1 DEF Around
        <4>4. Moved(u, v, n) = <<h>> \o (u \o w)
          <5>1. u \in Seq(Segments) /\ h \in Segments /\ w \in Seq(Segments)
            BY <4>1
          <5> HIDE DEF all, u, v
          <5> QED  BY <2>6, <4>2, <4>3, <5>1, PlacedAround
        <4> QED  BY <4>4 DEF Moved
      <3> QED  BY <3>2
    <2>8. q.unacked \o q.unsent = all
      BY <1>1, <2>7
    <2>9. InLine(q)
      BY <1>3, <2>3, <2>8 DEF InLine
    <2>10. ElementsOf(v) \subseteq ElementsOf(all)
      <3>1. ElementsOf(v) = ElementsOf(<<h>>) \cup ElementsOf(w)
        BY <2>2, <2>4, TogetherHas
      <3>2. ElementsOf(all) = ElementsOf(<<h>>) \cup ElementsOf(u \o w)
        BY <2>4, TogetherHas
      <3>3. ElementsOf(u \o w) = ElementsOf(u) \cup ElementsOf(w)
        BY <1>2, <2>2, TogetherHas
      <3> QED  BY <3>1, <3>2, <3>3
    <2> HIDE DEF all
    <2>11. Sums(q)
      BY <2>5, <2>10, OutputSums DEF q
    <2> QED  BY <2>9, <2>11 DEF OpenPcb, q
  <1> QED  BY <1>4, <1>5

\* How many segments of up to m bytes r bytes fill.
LEMMA Filled ==
  ASSUME NEW r \in Nat, NEW m \in Nat \ {0}
  PROVE  LET c == (r + m - 1) \div m
         IN c \in Nat /\ r <= c * m /\ (c > 0 => (c - 1) * m < r) /\ (c = 0 <=> r = 0)
  <1> DEFINE s == r + m - 1
             c == s \div m
  <1>1. s \in Nat /\ s = r + m - 1
    OBVIOUS
  <1> HIDE DEF s
  <1>2. c \in Nat /\ s - m < c * m /\ c * m <= s
    BY <1>1
  <1> HIDE DEF c
  <1>3. r <= c * m
    <2>1. c * m \in Nat
      BY <1>2
    <2> QED  BY <1>1, <1>2, <2>1
  <1>4. c > 0 => (c - 1) * m < r
    <2>1. c * m \in Nat /\ (c - 1) * m = c * m - m
      BY <1>2
    <2> QED  BY <1>1, <1>2, <2>1
  <1>5. c = 0 => r = 0
    BY <1>3
  <1>6. r = 0 => c = 0
    <2> SUFFICES ASSUME r = 0, c >= 1 PROVE FALSE
      BY <1>2
    <2>1. m <= c * m
      BY <1>2
    <2>2. c * m \in Nat
      BY <1>2
    <2> QED  BY <1>1, <1>2, <2>1, <2>2
  <1> QED  BY <1>2, <1>3, <1>4, <1>5, <1>6 DEF c, s

\* Multiples of m.
LEMMA Times ==
  ASSUME NEW a \in Nat, NEW b \in Nat, NEW m \in Nat
  PROVE  a * m \in Nat /\ (a <= b => a * m <= b * m) /\ (a + 1) * m = a * m + m /\ (a < b => a * m + m <= b * m)
  <1>1. a * m \in Nat /\ b * m \in Nat /\ (a + 1) * m = a * m + m
    OBVIOUS
  <1>2. ASSUME a <= b PROVE a * m <= b * m
    <2> DEFINE d == b - a
    <2>1. d \in Nat /\ b = a + d
      BY <1>2
    <2> HIDE DEF d
    <2>2. b * m = a * m + d * m /\ d * m \in Nat
      BY <2>1
    <2> QED  BY <1>1, <2>2
  <1>3. ASSUME a < b PROVE a * m + m <= b * m
    <2> DEFINE d == b - a - 1
    <2>1. d \in Nat /\ b = a + 1 + d
      BY <1>3
    <2> HIDE DEF d
    <2>2. b * m = a * m + m + d * m /\ d * m \in Nat
      BY <2>1
    <2> QED  BY <1>1, <2>2
  <1> QED  BY <1>1, <1>2, <1>3

\* r bytes from number b on, in segments of m bytes and the rest.
Fresh(b, r, m) ==
    [i \in 1 .. (r + m - 1) \div m |->
       [seq |-> b + (i - 1) * m, len |-> Min({m, r - (i - 1) * m}), fin |-> FALSE]]

\* They are a chain of r bytes.
LEMMA FreshIs ==
  ASSUME NEW b \in Nat, NEW r \in Nat, NEW m \in Nat \ {0}
  PROVE  Fresh(b, r, m) \in Seq(Segments) /\ Chain(Fresh(b, r, m), b, b + r, m)
  <1> DEFINE c == (r + m - 1) \div m
             f == Fresh(b, r, m)
             at(i) == (i - 1) * m
             size(i) == Min({m, r - at(i)})
  <1>1. c \in Nat /\ r <= c * m /\ (c > 0 => (c - 1) * m < r) /\ (c = 0 <=> r = 0)
    BY Filled
  <1>2. f = [i \in 1 .. c |-> [seq |-> b + at(i), len |-> size(i), fin |-> FALSE]]
    BY DEF Fresh
  <1> HIDE DEF c, f
  <1>3. ASSUME NEW i \in 1 .. c
        PROVE  /\ at(i) \in Nat /\ at(i) < r /\ size(i) \in 1 .. m /\ at(i) + size(i) <= r
               /\ i < c => size(i) = m /\ at(i) + m = at(i + 1)
               /\ i = c => at(i) + size(i) = r
    <2>1. i - 1 \in Nat /\ i - 1 <= c - 1 /\ c - 1 \in Nat /\ c > 0
      BY <1>1
    <2> DEFINE j == i - 1
               d == c - 1
    <2>2. j \in Nat /\ d \in Nat /\ j <= d /\ d * m < r
      BY <1>1, <2>1
    <2>3. at(i) = j * m /\ (i < c => j < d)
      BY <1>1
    <2>a. at(i + 1) = (j + 1) * m
      <3>1. (i + 1) - 1 = j + 1
        BY <1>1
      <3> QED  BY <3>1
    <2>b. i = c => j = d
      OBVIOUS
    <2>c. c = d + 1
      BY <1>1
    <2> HIDE DEF j, d
    <2>4. j * m \in Nat /\ d * m \in Nat /\ j * m <= d * m /\ (j + 1) * m = j * m + m
          /\ (j < d => j * m + m <= d * m) /\ (d + 1) * m = d * m + m
      BY <2>2, Times
    <2>5. at(i) \in Nat /\ at(i) < r
      BY <2>2, <2>3, <2>4
    <2> HIDE DEF at
    <2>6. size(i) = IF m <= r - at(i) THEN m ELSE r - at(i)
      <3>1. m \in Int /\ r - at(i) \in Int
        BY <2>5
      <3> QED  BY <3>1, MinOfTwo
    <2>7. size(i) \in 1 .. m /\ at(i) + size(i) <= r
      BY <2>5, <2>6
    <2>8. i < c => size(i) = m /\ at(i) + m = at(i + 1)
      BY <2>2, <2>3, <2>4, <2>5, <2>6, <2>a
    <2>9. i = c => at(i) + size(i) = r
      <3> SUFFICES ASSUME i = c PROVE at(i) + size(i) = r
        OBVIOUS
      <3>1. r <= at(i) + m
        BY <1>1, <2>3, <2>4, <2>b, <2>c
      <3> QED  BY <2>5, <2>6, <3>1
    <2> QED  BY <2>5, <2>7, <2>8, <2>9
  <1>4. ASSUME NEW i \in 1 .. c, NEW j \in 1 .. c, i < j PROVE at(i) + m <= at(j)
    <2> DEFINE k == i - 1
               l == j - 1
    <2>1. k \in Nat /\ l \in Nat /\ k < l
      BY <1>1, <1>4
    <2>2. at(i) = k * m /\ at(j) = l * m
      OBVIOUS
    <2> HIDE DEF k, l, at
    <2>3. k * m + m <= l * m
      BY <2>1, Times
    <2> QED  BY <2>2, <2>3
  <1>5. c > 0 => at(1) = 0
    OBVIOUS
  <1> HIDE DEF at, size
  <1>6. \A i \in 1 .. c : f[i].seq = b + at(i) /\ f[i].len = size(i) /\ f[i].fin = FALSE /\ f[i] \in Segments
    <2> SUFFICES ASSUME NEW i \in 1 .. c
                 PROVE  f[i].seq = b + at(i) /\ f[i].len = size(i) /\ f[i].fin = FALSE /\ f[i] \in Segments
      OBVIOUS
    <2>1. f[i] = [seq |-> b + at(i), len |-> size(i), fin |-> FALSE]
      BY <1>2
    <2>2. b + at(i) \in Nat /\ size(i) \in Nat
      BY <1>3
    <2> QED  BY <2>1, <2>2 DEF Segments
  <1>7. f \in Seq(Segments) /\ Len(f) = c
    <2>1. f \in [1 .. c -> Segments]
      BY <1>2, <1>6
    <2> QED  BY <1>1, <2>1
  <1>8. \A i \in 1 .. c : Upper(f[i]) = b + at(i) + size(i)
    BY <1>6 DEF Upper
  <1>9. ASSUME NEW i \in 1 .. c
        PROVE  f[i].len \in 1 .. m /\ ~f[i].fin /\ b <= f[i].seq /\ Upper(f[i]) <= b + r
    BY <1>3, <1>6, <1>8
  <1>10. ASSUME NEW i \in 1 .. c, NEW j \in 1 .. c, i < j PROVE Upper(f[i]) <= f[j].seq
    BY <1>3, <1>4, <1>6, <1>8, <1>10
  <1>11. ASSUME NEW i \in 1 .. c - 1 PROVE Upper(f[i]) = f[i + 1].seq
    <2> DEFINE k == i + 1
    <2>1. i \in 1 .. c /\ k \in 1 .. c /\ i < c
      BY <1>1
    <2>2. at(i) + m = at(k) /\ size(i) = m /\ at(i) \in Nat
      BY <1>3, <2>1
    <2> HIDE DEF k
    <2>3. Upper(f[i]) = f[k].seq
      BY <1>6, <1>8, <2>1, <2>2
    <2> QED  BY <2>3 DEF k
  <1>12. f = <<>> => b = b + r
    BY <1>1, <1>7
  <1>13. f # <<>> => f[1].seq = b /\ Upper(f[c]) = b + r
    <2> SUFFICES ASSUME c # 0 PROVE f[1].seq = b /\ Upper(f[c]) = b + r
      BY <1>7
    <2>1. 1 \in 1 .. c /\ c \in 1 .. c
      BY <1>1
    <2>2. at(c) \in Nat /\ at(c) + size(c) = r /\ size(c) \in Nat
      BY <1>3, <2>1
    <2> QED  BY <1>1, <1>5, <1>6, <1>8, <2>1, <2>2
  <1>14. Chain(f, b, b + r, m)
    BY <1>7, <1>9, <1>10, <1>11, <1>12, <1>13 DEF Chain
  <1> QED  BY <1>7, <1>14 DEF f

\* The last segment of a chain takes more bytes.
Longer(a, add) == [a EXCEPT ![Len(a)].len = @ + add]

\* It stays a chain, that many bytes longer.
LEMMA LongerIs ==
  ASSUME NEW a \in Seq(Segments), NEW x \in Nat, NEW y \in Nat, NEW m \in Nat, Chain(a, x, y, m), a # <<>>,
         NEW add \in Nat, a[Len(a)].len + add <= m
  PROVE  /\ Longer(a, add) \in Seq(Segments) /\ Chain(Longer(a, add), x, y + add, m)
         /\ Longer(a, add) # <<>> /\ Longer(a, add)[1].seq = a[1].seq /\ Upper(a[1]) <= Upper(Longer(a, add)[1])
  <1> DEFINE n == Len(a)
             b == Longer(a, add)
             t == [a[n] EXCEPT !.len = a[n].len + add]
  <1>1. n \in Nat \ {0} /\ n \in 1 .. n /\ 1 \in 1 .. n
    OBVIOUS
  <1>2. b = [a EXCEPT ![n] = t]
    BY DEF Longer
  <1>3. a[n] \in Segments /\ \A i \in 1 .. n : a[i] \in Segments
    BY <1>1
  <1>4. t \in Segments /\ t.seq = a[n].seq /\ t.len = a[n].len + add /\ t.fin = a[n].fin
    <2>1. a[n].seq \in Nat /\ a[n].len \in Nat /\ a[n].fin \in BOOLEAN
      BY <1>3, UpperIs
    <2> QED  BY <1>3, <2>1, SMTT(30) DEF Segments
  <1>5. DOMAIN a = 1 .. n
    OBVIOUS
  <1> HIDE DEF b, t
  <1>6. b \in Seq(Segments) /\ Len(b) = n /\ \A i \in 1 .. n : b[i] = IF i = n THEN t ELSE a[i]
    <2>1. b \in [1 .. n -> Segments]
      BY <1>2, <1>3, <1>4, <1>5
    <2>2. \A i \in 1 .. n : b[i] = IF i = n THEN t ELSE a[i]
      BY <1>2, <1>5
    <2> QED  BY <1>1, <2>1, <2>2
  <1>7. \A i \in 1 .. n : a[i].seq \in Nat /\ a[i].len \in Nat /\ Upper(a[i]) \in Nat
    <2> SUFFICES ASSUME NEW i \in 1 .. n PROVE a[i].seq \in Nat /\ a[i].len \in Nat /\ Upper(a[i]) \in Nat
      OBVIOUS
    <2>1. a[i] \in Segments
      BY <1>3
    <2> QED  BY <2>1, UpperIs
  <1>8. /\ \A i \in 1 .. n : a[i].len \in 1 .. m /\ ~a[i].fin /\ x <= a[i].seq /\ Upper(a[i]) <= y
        /\ \A i, j \in 1 .. n : i < j => Upper(a[i]) <= a[j].seq
        /\ \A i \in 1 .. n - 1 : Upper(a[i]) = a[i + 1].seq
        /\ a[1].seq = x /\ Upper(a[n]) = y
    BY DEF Chain
  <1>9. a[n].len + add <= m
    OBVIOUS
  <1> HIDE DEF n
  <1>10. Upper(t) = y + add /\ t.len \in 1 .. m /\ ~t.fin /\ x <= t.seq
    <2>1. a[n].len \in 1 .. m /\ ~a[n].fin /\ x <= a[n].seq /\ a[n].seq + a[n].len = y
      BY <1>1, <1>8 DEF Upper
    <2>2. a[n].seq \in Nat /\ a[n].len \in Nat
      BY <1>1, <1>7
    <2>3. a[n].fin \in BOOLEAN /\ t.fin \in BOOLEAN
      <3>1. a[n] \in Segments
        BY <1>1, <1>3
      <3> QED  BY <1>4, <3>1 DEF Segments
    <2>4. ~t.fin
      BY <1>4, <2>1, <2>3
    <2>5. Upper(t) = y + add
      <3> DEFINE q == a[n].seq
                 l == a[n].len
      <3>1. t.seq = q /\ t.len = l + add
        BY <1>4
      <3>2. q + l = y /\ q \in Nat /\ l \in Nat
        BY <2>1, <2>2
      <3> HIDE DEF q, l
      <3>3. t.seq + t.len = y + add
        BY <3>1, <3>2
      <3> QED  BY <3>3 DEF Upper
    <2>6. t.len \in 1 .. m
      BY <1>4, <1>9, <2>1, <2>2
    <2> QED  BY <1>4, <2>1, <2>4, <2>5, <2>6
  <1>a. Upper(a[n]) \in Nat /\ Upper(t) \in Nat
    BY <1>1, <1>7, <1>10
  <1>b. \A i \in 1 .. n : b[i].seq = a[i].seq
    BY <1>4, <1>6
  <1>11. ASSUME NEW i \in 1 .. n
         PROVE  b[i].len \in 1 .. m /\ ~b[i].fin /\ x <= b[i].seq /\ Upper(b[i]) <= y + add
    <2>1. CASE i = n
      BY <1>6, <1>10, <1>a, <2>1
    <2>2. CASE i # n
      <3>1. b[i] = a[i]
        BY <1>6, <2>2
      <3>2. Upper(a[i]) <= y /\ Upper(a[i]) \in Nat
        BY <1>7, <1>8
      <3> QED  BY <1>8, <3>1, <3>2
    <2> QED  BY <2>1, <2>2
  <1>12. ASSUME NEW i \in 1 .. n, NEW j \in 1 .. n, i < j PROVE Upper(b[i]) <= b[j].seq
    <2>1. i # n
      BY <1>12
    <2> QED  BY <1>6, <1>8, <1>12, <1>b, <2>1
  <1>13. ASSUME NEW i \in 1 .. n - 1 PROVE Upper(b[i]) = b[i + 1].seq
    <2> DEFINE k == i + 1
    <2>1. i \in 1 .. n /\ k \in 1 .. n /\ i # n
      BY <1>1
    <2>2. Upper(a[i]) = a[k].seq
      BY <1>8
    <2> HIDE DEF k
    <2>3. Upper(b[i]) = b[k].seq
      BY <1>6, <1>b, <2>1, <2>2
    <2> QED  BY <2>3 DEF k
  <1>14. b # <<>> /\ b[1].seq = x /\ Upper(b[n]) = y + add
    BY <1>1, <1>6, <1>8, <1>10, <1>b
  <1>15. Chain(b, x, y + add, m)
    BY <1>6, <1>11, <1>12, <1>13, <1>14 DEF Chain
  <1>16. Upper(a[1]) <= Upper(b[1])
    <2>1. CASE n = 1
      <3>1. Upper(a[1]) = y /\ Upper(b[1]) = y + add
        BY <1>8, <1>14, <2>1
      <3> QED  BY <3>1
    <2>2. CASE n # 1
      <3>1. b[1] = a[1]
        BY <1>1, <1>6, <2>2
      <3> QED  BY <1>1, <1>7, <3>1
    <2> QED  BY <2>1, <2>2
  <1> QED  BY <1>6, <1>8, <1>14, <1>15, <1>16 DEF b

\* Queue b begins where queue a does, if there is an a.
Starts(b, a) == a # <<>> => b # <<>> /\ b[1].seq = a[1].seq /\ Upper(a[1]) <= Upper(b[1])

\* The first of two queues in one.
LEMMA FirstOf ==
  ASSUME NEW a \in Seq(Segments), NEW b \in Seq(Segments)
  PROVE  /\ a # <<>> => a \o b # <<>> /\ (a \o b)[1] = a[1] /\ a[1] \in Segments
         /\ a = <<>> => a \o b = b
         /\ b = <<>> => a \o b = a
  <1>1. Len(a \o b) = Len(a) + Len(b) /\ (\A i \in 1 .. Len(a) + Len(b) : (a \o b)[i] = IF i <= Len(a) THEN a[i] ELSE b[i - Len(a)])
    BY Concatenation
  <1>2. a # <<>> => Len(a) \in Nat \ {0} /\ Len(b) \in Nat
    OBVIOUS
  <1>3. a # <<>> => a \o b # <<>> /\ (a \o b)[1] = a[1] /\ a[1] \in Segments
    BY <1>1, <1>2
  <1>4. a = <<>> => a \o b = b
    OBVIOUS
  <1>5. b = <<>> => a \o b = a
    OBVIOUS
  <1> QED  BY <1>3, <1>4, <1>5

\* What tcp_write makes of the unsent queue.
LEMMA EnqueuedIs ==
  ASSUME NEW p \in Pcb, InLine(p), NEW n \in Nat \ {0}
  PROVE  /\ Enqueued(p, n) \in Seq(Segments) /\ Starts(Enqueued(p, n), p.unsent)
         /\ Line(p.unacked \o Enqueued(p, n), p.lastack, p.snd_lbb + n, mss_local(p))
  <1> DEFINE u == p.unacked
             v == p.unsent
             k == p.lastack
             z == p.snd_lbb
             m == mss_local(p)
             last == v[Len(v)]
             room == IF v = <<>> \/ last.len = 0 THEN 0 ELSE Max({0, m - last.len})
             add  == Min({room, n})
             grown == IF add = 0 THEN v ELSE Longer(v, add)
             new == Fresh(z + add, n - add, m)
             e == Enqueued(p, n)
  <1>1. /\ u \in Seq(Segments) /\ v \in Seq(Segments) /\ k \in Nat /\ z \in Nat
        /\ m \in Nat \ {0} /\ InLine(p)
    BY LocalIs DEF Pcb
  <1>2. e = grown \o new
    BY DEF Enqueued, Longer, Fresh
  <1>3. Line(u \o v, k, z, m) /\ u \o v \in Seq(Segments)
    BY <1>1 DEF InLine
  <1> HIDE DEF u, v, k, z, m, e
  <1>4. PICK x \in Nat : x <= k /\ Chain(u \o v, x, z, m)
    BY <1>3 DEF Line
  <1>5. PICK y \in Nat : Chain(u, x, y, m) /\ Chain(v, y, z, m)
    BY <1>1, <1>4, ChainsPart
  <1>6. v # <<>> => last \in Segments /\ last.len \in 1 .. m
    <2> SUFFICES ASSUME v # <<>> PROVE last \in Segments /\ last.len \in 1 .. m
      OBVIOUS
    <2>1. Len(v) \in 1 .. Len(v)
      BY <1>1
    <2> QED  BY <1>1, <1>5, <2>1 DEF Chain
  <1> HIDE DEF last
  <1>7. room \in Nat /\ (room > 0 => v # <<>> /\ last.len + room <= m)
    <2>1. CASE v = <<>> \/ last.len = 0
      BY <2>1
    <2>2. CASE ~(v = <<>> \/ last.len = 0)
      <3>1. last.len \in 1 .. m
        BY <1>6, <2>2
      <3>2. Max({0, m - last.len}) = IF 0 >= m - last.len THEN 0 ELSE m - last.len
        <4>1. m - last.len \in Int
          BY <1>1, <3>1
        <4> QED  BY <4>1, MaxOfTwo
      <3> QED  BY <1>1, <2>2, <3>1, <3>2
    <2> QED  BY <2>1, <2>2
  <1> HIDE DEF room
  <1>8. add \in Nat /\ add <= n /\ (add # 0 => v # <<>> /\ last.len + add <= m)
    <2>1. add = IF room <= n THEN room ELSE n
      BY <1>7, MinOfTwo
    <2> HIDE DEF add
    <2>2. add \in Nat /\ add <= n /\ add <= room
      BY <1>7, <2>1
    <2>3. ASSUME add # 0 PROVE v # <<>> /\ last.len + add <= m
      <3>1. room > 0 /\ last.len \in 1 .. m
        BY <1>6, <1>7, <2>2, <2>3
      <3> QED  BY <1>1, <1>7, <2>2, <3>1
    <2> QED  BY <2>2, <2>3
  <1> HIDE DEF add
  <1>9. grown \in Seq(Segments) /\ Chain(grown, y, z + add, m) /\ Starts(grown, v)
    <2>1. CASE add = 0
      <3>1. z + add = z /\ grown = v
        BY <1>1, <2>1
      <3>2. v # <<>> => Upper(v[1]) <= Upper(v[1])
        <4> SUFFICES ASSUME v # <<>> PROVE Upper(v[1]) <= Upper(v[1])
          OBVIOUS
        <4>1. v[1] \in Segments
          BY <1>1
        <4>2. Upper(v[1]) \in Nat
          BY <4>1, UpperIs
        <4> QED  BY <4>2
      <3> QED  BY <1>1, <1>5, <3>1, <3>2 DEF Starts
    <2>2. CASE add # 0
      <3>1. v # <<>> /\ v[Len(v)].len + add <= m
        BY <1>8, <2>2 DEF last
      <3>2. Chain(v, y, z, m)
        BY <1>5
      <3>3. /\ Longer(v, add) \in Seq(Segments) /\ Chain(Longer(v, add), y, z + add, m)
            /\ Longer(v, add) # <<>> /\ Longer(v, add)[1].seq = v[1].seq /\ Upper(v[1]) <= Upper(Longer(v, add)[1])
        <4>1. m \in Nat
          BY <1>1
        <4> QED  BY <1>1, <1>8, <3>1, <3>2, <4>1, LongerIs
      <3>4. grown = Longer(v, add)
        BY <2>2
      <3> QED  BY <3>3, <3>4 DEF Starts
    <2> QED  BY <2>1, <2>2
  <1> HIDE DEF grown
  <1>10. new \in Seq(Segments) /\ Chain(new, z + add, z + n, m)
    <2> DEFINE b == z + add
               r == n - add
    <2>1. b \in Nat /\ r \in Nat /\ b + r = z + n
      BY <1>1, <1>8
    <2> HIDE DEF b, r
    <2>2. Fresh(b, r, m) \in Seq(Segments) /\ Chain(Fresh(b, r, m), b, b + r, m)
      BY <1>1, <2>1, FreshIs
    <2> QED  BY <2>1, <2>2 DEF b, r
  <1> HIDE DEF new
  <1>a. z + add \in Nat /\ z + n \in Nat /\ m \in Nat
    BY <1>1, <1>8
  <1>11. e \in Seq(Segments) /\ Chain(e, y, z + n, m)
    <2>1. grown \o new \in Seq(Segments) /\ Chain(grown \o new, y, z + n, m)
      BY <1>9, <1>10, <1>a, ChainsJoin
    <2> QED  BY <1>2, <2>1
  <1>12. Starts(e, v)
    <2> SUFFICES ASSUME v # <<>> PROVE e # <<>> /\ e[1].seq = v[1].seq /\ Upper(v[1]) <= Upper(e[1])
      BY DEF Starts
    <2>1. grown # <<>> /\ grown[1].seq = v[1].seq /\ Upper(v[1]) <= Upper(grown[1])
      BY <1>9 DEF Starts
    <2>2. grown \o new # <<>> /\ (grown \o new)[1] = grown[1]
      BY <1>9, <1>10, <2>1, FirstOf
    <2> QED  BY <1>2, <2>1, <2>2
  <1>13. u \o e \in Seq(Segments) /\ Chain(u \o e, x, z + n, m)
    <2>1. Chain(u, x, y, m) /\ Chain(e, y, z + n, m)
      BY <1>5, <1>11
    <2> QED  BY <1>1, <1>11, <1>a, <2>1, ChainsJoin
  <1>14. k <= z + n
    BY <1>1, <1>3 DEF Line
  <1>15. u \o e # <<>> => k < Upper((u \o e)[1])
    <2> SUFFICES ASSUME u \o e # <<>> PROVE k < Upper((u \o e)[1])
      OBVIOUS
    <2>1. CASE u # <<>>
      <3>1. (u \o e)[1] = u[1] /\ u \o v # <<>> /\ (u \o v)[1] = u[1]
        BY <1>1, <1>11, <2>1, FirstOf
      <3> QED  BY <1>3, <3>1 DEF Line
    <2>2. CASE u = <<>> /\ v # <<>>
      <3>1. u \o e = e /\ u \o v = v /\ e # <<>>
        BY <1>1, <1>11, <2>2, FirstOf
      <3>2. k < Upper(v[1]) /\ Upper(v[1]) <= Upper(e[1])
        BY <1>3, <1>12, <2>2, <3>1 DEF Line, Starts
      <3>3. v[1] \in Segments /\ e[1] \in Segments
        BY <1>1, <1>11, <2>2, <3>1
      <3>4. Upper(v[1]) \in Nat /\ Upper(e[1]) \in Nat
        BY <3>3, UpperIs
      <3> QED  BY <1>1, <3>1, <3>2, <3>4
    <2>3. CASE u = <<>> /\ v = <<>>
      <3>1. u \o v = <<>> /\ u \o e = e
        BY <1>1, <1>11, <2>3, FirstOf
      <3>2. x = z /\ y = z
        BY <1>4, <1>5, <2>3, <3>1 DEF Chain
      <3>3. k = z
        BY <1>1, <1>3, <1>4, <3>2 DEF Line
      <3>4. z < Upper(e[1])
        BY <1>11, <1>a, <3>1, <3>2, ChainUp
      <3> QED  BY <3>1, <3>3, <3>4
    <2> QED  BY <2>1, <2>2, <2>3
  <1>16. Line(u \o e, k, z + n, m)
    BY <1>4, <1>13, <1>14, <1>15 DEF Line
  <1> QED  BY <1>11, <1>12, <1>16 DEF u, v, k, z, m, e

\* tcp_write keeps the queues in order and the sums right.
LEMMA WrittenIs ==
  ASSUME NEW p \in Pcb, NEW n \in Nat \ {0}, n <= p.snd_buf, InLine(p)
  PROVE  LET q == Written(p, n)
         IN /\ q \in Pcb /\ q.unacked = p.unacked /\ q.unsent = Enqueued(p, n) /\ q.snd_nxt = p.snd_nxt
            /\ q.mss = p.mss /\ q.state = p.state /\ q.snd_lbb = p.snd_lbb + n /\ q.snd_buf = p.snd_buf - n
            /\ q.lastack = p.lastack /\ q.snd_wnd = p.snd_wnd /\ q.snd_wl1 = p.snd_wl1 /\ q.snd_wl2 = p.snd_wl2
  <1> DEFINE e == Enqueued(p, n)
             l == p.snd_lbb + n
             b == p.snd_buf - n
             q == Written(p, n)
  <1>1. q = [p EXCEPT !.unsent = e, !.snd_lbb = l, !.snd_buf = b]
    BY DEF Written
  <1>2. e \in Seq(Segments)
    BY EnqueuedIs
  <1>3. l \in Nat /\ b \in Nat
    <2>1. p.snd_lbb \in Nat /\ p.snd_buf \in Nat
      BY DEF Pcb
    <2> QED  BY <2>1
  <1> HIDE DEF e, q, l, b
  <1>4. q \in Pcb
    BY <1>1, <1>2, <1>3 DEF Pcb
  <1>5. /\ q.unacked = p.unacked /\ q.unsent = e /\ q.snd_nxt = p.snd_nxt
        /\ q.mss = p.mss /\ q.state = p.state /\ q.snd_lbb = l /\ q.snd_buf = b
        /\ q.lastack = p.lastack /\ q.snd_wnd = p.snd_wnd /\ q.snd_wl1 = p.snd_wl1 /\ q.snd_wl2 = p.snd_wl2
    BY <1>1 DEF Pcb
  <1> QED  BY <1>4, <1>5 DEF e, q, l, b

\* tcp_write keeps the queues in order.
LEMMA WrittenOpen ==
  ASSUME NEW p \in Pcb, OpenPcb(p), NEW n \in Nat \ {0}, n <= p.snd_buf
  PROVE  OpenPcb(Written(p, n))
  <1> DEFINE q == Written(p, n)
  <1>1. InLine(p) /\ Sums(p)
    BY DEF OpenPcb
  <1>2. /\ q \in Pcb /\ q.unacked = p.unacked /\ q.unsent = Enqueued(p, n) /\ q.snd_nxt = p.snd_nxt
        /\ q.mss = p.mss /\ q.snd_lbb = p.snd_lbb + n /\ q.snd_buf = p.snd_buf - n
        /\ q.lastack = p.lastack /\ q.snd_wnd = p.snd_wnd
    BY <1>1, WrittenIs
  <1>3. Line(p.unacked \o Enqueued(p, n), p.lastack, p.snd_lbb + n, mss_local(p))
    BY <1>1, EnqueuedIs
  <1> HIDE DEF q
  <1>4. mss_local(q) = mss_local(p)
    BY <1>2 DEF mss_local
  <1>5. InLine(q)
    BY <1>2, <1>3, <1>4 DEF InLine
  <1>6. {p.snd_buf, p.snd_lbb, p.lastack, p.snd_nxt} \subseteq Nat /\ SndBuf \in Nat
    BY SendAssumption DEF Pcb
  <1>7. Sums(q)
    <2>1. p.snd_buf = SndBuf - (p.snd_lbb - p.lastack) /\ p.snd_nxt <= p.snd_lbb
      BY <1>1 DEF Sums
    <2>2. q.snd_buf = SndBuf - (q.snd_lbb - q.lastack) /\ q.snd_nxt <= q.snd_lbb
      BY <1>2, <1>6, <2>1
    <2> QED  BY <1>1, <1>2, <2>2 DEF Sums
  <1> QED  BY <1>5, <1>7 DEF OpenPcb, q

\* What the peer sends.
Ack == [kind : {"ack", "update", "fin"}, seq : {0, 1}, ack : Nat, wnd : Nat, len : {0}, fin : BOOLEAN]

\* What no acknowledgment changes; the windows; segments only move or go.
Base(q, p)    == q.mss = p.mss /\ q.snd_lbb = p.snd_lbb /\ q.snd_nxt = p.snd_nxt /\ q.state = p.state
Windows(q, p) == q.snd_wnd = p.snd_wnd /\ q.snd_wl1 = p.snd_wl1 /\ q.snd_wl2 = p.snd_wl2
Fewer(q, p) ==
    /\ ElementsOf(q.unacked) \subseteq ElementsOf(p.unacked)
    /\ ElementsOf(q.unsent) \subseteq ElementsOf(p.unacked) \cup ElementsOf(p.unsent)
SameQueues(q, p) == q.unacked = p.unacked /\ q.unsent = p.unsent

\* An acknowledgment that brings a new window.
BringsWindow(p, a) ==
    \/ p.snd_wl1 < a.seq \/ (p.snd_wl1 = a.seq /\ p.snd_wl2 < a.ack)
    \/ (p.snd_wl2 = a.ack /\ a.wnd > p.snd_wnd)

\* The window is taken from the acknowledgment or stays, and nothing else moves.
LEMMA NewWindowIs ==
  ASSUME NEW p \in Pcb, NEW a \in Ack
  PROVE  LET q == NewWindow(p, a)
         IN /\ q \in Pcb /\ Base(q, p) /\ SameQueues(q, p) /\ q.lastack = p.lastack /\ q.snd_buf = p.snd_buf
            /\ BringsWindow(p, a) => q.snd_wnd = a.wnd /\ q.snd_wl1 = a.seq /\ q.snd_wl2 = a.ack
            /\ ~BringsWindow(p, a) => Windows(q, p)
            /\ q.flags = p.flags
  <1> DEFINE q == NewWindow(p, a)
  <1>1. a.seq \in Nat /\ a.ack \in Nat /\ a.wnd \in Nat
    <2>1. a.seq \in {0, 1} /\ a.ack \in Nat /\ a.wnd \in Nat
      BY DEF Ack
    <2> QED  BY <2>1
  <1>2. CASE BringsWindow(p, a)
    <2> DEFINE w == a.wnd
               s == a.seq
               k == a.ack
               o == (a.wnd = 0)
    <2>1. q = [p EXCEPT !.snd_wnd = w, !.snd_wl1 = s, !.snd_wl2 = k, !.persist = o]
      BY <1>2 DEF NewWindow, BringsWindow
    <2>2. w \in Nat /\ s \in Nat /\ k \in Nat /\ o \in BOOLEAN
      BY <1>1
    <2> HIDE DEF q, w, s, k, o
    <2>3. q \in Pcb
      BY <2>1, <2>2 DEF Pcb
    <2>4. /\ Base(q, p) /\ SameQueues(q, p) /\ q.lastack = p.lastack /\ q.snd_buf = p.snd_buf
          /\ q.flags = p.flags
      BY <2>1 DEF Pcb, Base, SameQueues
    <2>5. q.snd_wnd = w /\ q.snd_wl1 = s /\ q.snd_wl2 = k
      BY <2>1 DEF Pcb
    <2> QED  BY <1>2, <2>3, <2>4, <2>5 DEF q, w, s, k
  <1>3. CASE ~BringsWindow(p, a)
    <2>1. q = p
      BY <1>3 DEF NewWindow, BringsWindow
    <2> HIDE DEF q
    <2> QED  BY <1>3, <2>1 DEF Base, SameQueues, Windows, q
  <1> QED  BY <1>2, <1>3

\* ssthresh is at least two segments.
LEMMA SsthreshIs ==
  ASSUME NEW p \in Pcb
  PROVE  Ssthresh(p) \in Positive /\ 2 * p.mss <= Ssthresh(p)
  <1>1. p.mss \in Nat \ {0} /\ p.cwnd \in Nat /\ p.snd_wnd \in Nat
    BY LocalIs DEF Pcb
  <1>2. Min({p.cwnd, p.snd_wnd}) \in Nat
    BY <1>1, MinOfTwo
  <1> DEFINE m == Min({p.cwnd, p.snd_wnd}) \div 2
             t == 2 * p.mss
  <1>3. m \in Nat /\ t \in Nat \ {0}
    BY <1>1, <1>2
  <1> HIDE DEF m, t
  <1>4. Max({m, t}) = IF m >= t THEN m ELSE t
    BY <1>3, MaxOfTwo
  <1>5. Max({m, t}) \in Nat \ {0} /\ t <= Max({m, t})
    BY <1>3, <1>4
  <1> QED  BY <1>5 DEF Ssthresh, m, t, Positive

\* The head of a queue and the rest.
LEMMA HeadAndTail ==
  ASSUME NEW q \in Seq(Segments), q # <<>>
  PROVE  /\ Head(q) \in Segments /\ Tail(q) \in Seq(Segments) /\ q = <<Head(q)>> \o Tail(q)
         /\ Head(q) = q[1] /\ ElementsOf(Tail(q)) \subseteq ElementsOf(q) /\ Head(q) \in ElementsOf(q)
  <1>1. Len(q) \in Nat \ {0} /\ Head(q) = q[1] /\ Head(q) \in Segments /\ Tail(q) \in Seq(Segments)
        /\ Len(Tail(q)) = Len(q) - 1 /\ \A i \in 1 .. Len(q) - 1 : Tail(q)[i] = q[i + 1]
    OBVIOUS
  <1> DEFINE t == Tail(q)
             o == <<Head(q)>>
  <1>o. o \in Seq(Segments) /\ Len(o) = 1 /\ o[1] = Head(q)
    BY <1>1
  <1> HIDE DEF t, o
  <1>2. /\ o \o t \in Seq(Segments) /\ Len(o \o t) = 1 + Len(t)
        /\ \A i \in 1 .. 1 + Len(t) : (o \o t)[i] = IF i <= 1 THEN o[i] ELSE t[i - 1]
    BY <1>1, <1>o, Leading DEF t
  <1> DEFINE c == o \o t
  <1> HIDE DEF c
  <1>3. Len(c) = Len(q) /\ c \in Seq(Segments)
    BY <1>1, <1>2 DEF c, t
  <1>4. ASSUME NEW i \in 1 .. Len(q) PROVE q[i] = c[i]
    <2>1. CASE i = 1
      BY <1>1, <1>2, <1>o, <2>1 DEF c, t
    <2>2. CASE i # 1
      <3> DEFINE j == i - 1
      <3>1. j \in 1 .. Len(q) - 1 /\ j + 1 = i /\ ~(i <= 1) /\ i \in 1 .. 1 + Len(t)
        BY <1>1, <2>2 DEF t
      <3>2. c[i] = t[j]
        BY <1>2, <3>1 DEF c
      <3> HIDE DEF j
      <3>3. t[j] = q[i]
        BY <1>1, <3>1 DEF t
      <3> QED  BY <3>2, <3>3
    <2> QED  BY <2>1, <2>2
  <1>5. q = c
    BY <1>3, <1>4, SameSequence
  <1>6. ElementsOf(t) \subseteq ElementsOf(q)
    <2> SUFFICES ASSUME NEW i \in DOMAIN t PROVE t[i] \in ElementsOf(q)
      BY DEF ElementsOf
    <2>1. i \in 1 .. Len(q) - 1
      BY <1>1 DEF t
    <2>2. i + 1 \in DOMAIN q /\ t[i] = q[i + 1]
      BY <1>1, <2>1 DEF t
    <2> QED  BY <2>2 DEF ElementsOf
  <1>7. Head(q) \in ElementsOf(q)
    <2>1. 1 \in DOMAIN q
      BY <1>1
    <2> QED  BY <1>1, <2>1 DEF ElementsOf
  <1> QED  BY <1>1, <1>5, <1>6, <1>7 DEF c, t, o

\* What the third duplicate does to the PCB.
Resent(q, p) ==
    /\ p.unacked # <<>> /\ q.unacked = Tail(p.unacked) /\ q.unsent = Inserted(p.unsent, Head(p.unacked))
    /\ "INFR" \in q.flags /\ q.cwnd = Min({CwndMax, Ssthresh(p) + 3 * p.mss})

\* tcp_rexmit_fast takes the first segment back, or does nothing.
LEMMA RexmitFastIs ==
  ASSUME NEW p \in Pcb
  PROVE  LET q == tcp_rexmit_fast(p)
         IN /\ q \in Pcb /\ Base(q, p) /\ Windows(q, p) /\ q.lastack = p.lastack /\ q.snd_buf = p.snd_buf
            /\ Fewer(q, p) /\ (SameQueues(q, p) \/ Resent(q, p))
  <1> DEFINE q == tcp_rexmit_fast(p)
  <1>1. CASE p.unacked = <<>> \/ "INFR" \in p.flags
    <2>1. q = p
      BY <1>1 DEF tcp_rexmit_fast
    <2> HIDE DEF q
    <2> QED  BY <2>1 DEF Base, Windows, Fewer, SameQueues, q
  <1>2. CASE ~(p.unacked = <<>> \/ "INFR" \in p.flags)
    <2> DEFINE v == Inserted(p.unsent, Head(p.unacked))
               u == Tail(p.unacked)
               n == Again(p.nrtx)
               t == Ssthresh(p)
               c == Min({CwndMax, Ssthresh(p) + 3 * p.mss})
               f == p.flags \cup {"INFR"}
    <2>1. q = [p EXCEPT !.unsent = v, !.unacked = u, !.nrtx = n, !.ssthresh = t, !.cwnd = c, !.flags = f]
      BY <1>2 DEF tcp_rexmit_fast
    <2>2. p.unsent \in Seq(Segments) /\ p.unacked \in Seq(Segments) /\ p.nrtx \in Octet /\ p.flags \in FlagSet
          /\ p.mss \in Nat \ {0} /\ PeerBuf \in Nat
      BY LocalIs, SendAssumption DEF Pcb
    <2>3. /\ Head(p.unacked) \in Segments /\ u \in Seq(Segments)
          /\ Head(p.unacked) \in ElementsOf(p.unacked) /\ ElementsOf(u) \subseteq ElementsOf(p.unacked)
      BY <1>2, <2>2, HeadAndTail
    <2>4. v \in Seq(Segments) /\ ElementsOf(v) = ElementsOf(p.unsent) \cup {Head(p.unacked)}
      BY <2>2, <2>3, InsertedIs
    <2>5. n \in Octet /\ f \in FlagSet /\ "INFR" \in f
      <3>1. f \in FlagSet /\ "INFR" \in f
        BY <2>2 DEF FlagSet
      <3> DEFINE k == p.nrtx
      <3>a. k \in Octet
        BY <2>2
      <3>b. Octet \subseteq Nat
        BY DEF Octet
      <3>2. k \in Nat
        BY <3>a, <3>b
      <3> HIDE DEF k
      <3>3. (k + 1) % 256 \in 0 .. 255
        BY <3>2
      <3> QED  BY <3>1, <3>3 DEF Again, Octet, k
    <2>6. t \in Positive
      BY SsthreshIs
    <2>7. c \in Nat
      <3>1. CwndMax \in Nat /\ Ssthresh(p) + 3 * p.mss \in Nat
        BY <2>2, <2>6 DEF CwndMax, Positive
      <3> QED  BY <3>1, MinOfTwo
    <2> HIDE DEF q, v, u, n, t, c, f
    <2>8. q \in Pcb
      BY <2>1, <2>3, <2>4, <2>5, <2>6, <2>7 DEF Pcb
    <2>9. Base(q, p) /\ Windows(q, p) /\ q.lastack = p.lastack /\ q.snd_buf = p.snd_buf
      BY <2>1 DEF Pcb, Base, Windows
    <2>10. q.unacked = u /\ q.unsent = v /\ q.flags = f /\ q.cwnd = c
      BY <2>1 DEF Pcb
    <2>11. Fewer(q, p)
      BY <2>3, <2>4, <2>10 DEF Fewer
    <2>12. Resent(q, p)
      BY <1>2, <2>5, <2>10 DEF Resent, u, v, c
    <2> QED  BY <2>8, <2>9, <2>11, <2>12 DEF q
  <1> QED  BY <1>1, <1>2

\* A duplicate acknowledgment.
LEMMA DupAckIs ==
  ASSUME NEW p \in Pcb
  PROVE  LET q == DupAck(p)
         IN /\ q \in Pcb /\ Base(q, p) /\ Windows(q, p) /\ q.lastack = p.lastack /\ q.snd_buf = p.snd_buf
            /\ Fewer(q, p) /\ (SameQueues(q, p) \/ Resent(q, p))
  <1> DEFINE n == p.dupacks + 1
             q == DupAck(p)
  <1>0. p.dupacks \in 0 .. 4 /\ p.cwnd \in Nat /\ p.mss \in Nat /\ CwndMax \in Nat
    BY LocalIs, SendAssumption DEF Pcb, Dupacks, CwndMax
  <1>1. CASE n > 3
    <2> DEFINE c == Min({CwndMax, p.cwnd + p.mss})
    <2>1. q = [p EXCEPT !.dupacks = 4, !.cwnd = c]
      BY <1>1 DEF DupAck
    <2>2. c \in Nat /\ 4 \in Dupacks
      BY <1>0, MinOfTwo DEF Dupacks
    <2> HIDE DEF q, c
    <2>3. q \in Pcb
      BY <2>1, <2>2 DEF Pcb
    <2>4. /\ Base(q, p) /\ Windows(q, p) /\ q.lastack = p.lastack /\ q.snd_buf = p.snd_buf /\ SameQueues(q, p)
      BY <2>1 DEF Pcb, Base, Windows, SameQueues
    <2>5. Fewer(q, p)
      BY <2>4 DEF SameQueues, Fewer
    <2> QED  BY <2>3, <2>4, <2>5 DEF q
  <1>2. CASE n = 3
    <2> DEFINE r == [p EXCEPT !.dupacks = 3]
    <2>1. q = tcp_rexmit_fast(r)
      BY <1>2 DEF DupAck
    <2>2. 3 \in Dupacks
      BY DEF Dupacks
    <2>3. r \in Pcb
      BY <2>2 DEF Pcb
    <2>4. /\ Base(r, p) /\ Windows(r, p) /\ r.lastack = p.lastack /\ r.snd_buf = p.snd_buf /\ SameQueues(r, p)
          /\ r.cwnd = p.cwnd
      BY DEF Pcb, Base, Windows, SameQueues
    <2> HIDE DEF r, q
    <2>5. /\ q \in Pcb /\ Base(q, r) /\ Windows(q, r) /\ q.lastack = r.lastack /\ q.snd_buf = r.snd_buf
          /\ Fewer(q, r) /\ (SameQueues(q, r) \/ Resent(q, r))
      BY <2>1, <2>3, RexmitFastIs
    <2>6. Base(q, p) /\ Windows(q, p) /\ q.lastack = p.lastack /\ q.snd_buf = p.snd_buf
      BY <2>4, <2>5 DEF Base, Windows
    <2>7. Fewer(q, p)
      BY <2>4, <2>5 DEF Fewer, SameQueues
    <2>8. SameQueues(q, p) \/ Resent(q, p)
      <3>1. SameQueues(q, r) => SameQueues(q, p)
        BY <2>4 DEF SameQueues
      <3>2. Resent(q, r) => Resent(q, p)
        <4>1. Ssthresh(r) = Ssthresh(p) /\ r.mss = p.mss
          BY <2>4 DEF Ssthresh, Windows, Base
        <4> QED  BY <2>4, <4>1 DEF Resent, SameQueues
      <3> QED  BY <2>5, <3>1, <3>2
    <2> QED  BY <2>5, <2>6, <2>7, <2>8 DEF q
  <1>3. CASE ~(n > 3) /\ n # 3
    <2>1. q = [p EXCEPT !.dupacks = n]
      BY <1>3 DEF DupAck
    <2>2. n \in Dupacks
      BY <1>0, <1>3 DEF Dupacks
    <2> HIDE DEF q, n
    <2>3. q \in Pcb
      BY <2>1, <2>2 DEF Pcb
    <2>4. /\ Base(q, p) /\ Windows(q, p) /\ q.lastack = p.lastack /\ q.snd_buf = p.snd_buf /\ SameQueues(q, p)
      BY <2>1 DEF Pcb, Base, Windows, SameQueues
    <2>5. Fewer(q, p)
      BY <2>4 DEF SameQueues, Fewer
    <2> QED  BY <2>3, <2>4, <2>5 DEF q
  <1> QED  BY <1>1, <1>2, <1>3

\* New data is acknowledged.
LEMMA NewAckIs ==
  ASSUME NEW p \in Pcb, NEW ack \in Nat, p.lastack < ack
  PROVE  LET q == NewAck(p, ack)
         IN /\ q \in Pcb /\ Base(q, p) /\ Windows(q, p) /\ q.lastack = ack
            /\ q.snd_buf = p.snd_buf + (ack - p.lastack)
            /\ q.unacked = Above(p.unacked, ack) /\ q.unsent = p.unsent
  <1> DEFINE w == IF "INFR" \in p.flags THEN p.ssthresh ELSE p.cwnd
             c == Grown(p, w)
             f == p.flags \ {"INFR"}
             b == p.snd_buf + (ack - p.lastack)
             u == Above(p.unacked, ack)
             t == (u # <<>>)
             q == NewAck(p, ack)
  <1>1. q = [p EXCEPT !.flags = f, !.nrtx = 0, !.dupacks = 0, !.snd_buf = b, !.lastack = ack, !.cwnd = c,
                      !.unacked = u, !.rtime = t]
    BY DEF NewAck
  <1>2. /\ p.flags \in FlagSet /\ p.snd_buf \in Nat /\ p.lastack \in Nat /\ p.unacked \in Seq(Segments)
        /\ p.cwnd \in Nat /\ p.ssthresh \in Nat \ {0} /\ p.mss \in Nat \ {0} /\ CwndMax \in Nat
    BY LocalIs, SendAssumption DEF Pcb, Positive, CwndMax
  <1>3. f \in FlagSet /\ b \in Nat /\ t \in BOOLEAN /\ 0 \in Octet /\ 0 \in Dupacks
    BY <1>2 DEF FlagSet, Octet, Dupacks
  <1>4. u \in Seq(Segments)
    BY <1>2, AboveHas
  <1>5. c \in Nat
    <2>1. w \in Nat
      BY <1>2
    <2> HIDE DEF w
    <2> DEFINE d == IF w < p.ssthresh THEN p.mss ELSE (p.mss * p.mss) \div w
    <2>2. d \in Nat
      <3>1. CASE w < p.ssthresh
        BY <1>2, <3>1
      <3>2. CASE ~(w < p.ssthresh)
        <4>1. w > 0 /\ p.mss * p.mss \in Nat
          BY <1>2, <2>1, <3>2
        <4> DEFINE s == p.mss * p.mss
        <4> HIDE DEF s
        <4>2. s \div w \in Nat
          BY <2>1, <4>1 DEF s
        <4> QED  BY <3>2, <4>2 DEF s
      <3> QED  BY <3>1, <3>2
    <2>3. c = Min({CwndMax, w + d})
      BY DEF Grown
    <2> HIDE DEF d, c
    <2>4. w + d \in Nat
      BY <2>1, <2>2
    <2> QED  BY <1>2, <2>3, <2>4, MinOfTwo
  <1> HIDE DEF q, w, c, f, b, t, u
  <1>6. q \in Pcb
    BY <1>1, <1>3, <1>4, <1>5 DEF Pcb
  <1>7. Base(q, p) /\ Windows(q, p) /\ q.unsent = p.unsent
    BY <1>1 DEF Pcb, Base, Windows
  <1>8. q.lastack = ack /\ q.snd_buf = b /\ q.unacked = u
    BY <1>1 DEF Pcb
  <1> QED  BY <1>6, <1>7, <1>8 DEF q, b, u

\* What is acknowledged goes from the unsent queue too.
LEMMA UnsentAckedIs ==
  ASSUME NEW p \in Pcb, NEW ack \in Nat
  PROVE  LET q == UnsentAcked(p, ack)
         IN /\ q \in Pcb /\ Base(q, p) /\ Windows(q, p) /\ q.lastack = p.lastack /\ q.snd_buf = p.snd_buf
            /\ q.unacked = p.unacked /\ q.flags = p.flags /\ q.cwnd = p.cwnd
            /\ q.unsent = IF ack > p.snd_nxt THEN p.unsent ELSE Above(p.unsent, ack)
  <1> DEFINE q == UnsentAcked(p, ack)
             v == Above(p.unsent, ack)
  <1>1. CASE ack > p.snd_nxt
    <2>1. q = p
      BY <1>1 DEF UnsentAcked
    <2> HIDE DEF q
    <2> QED  BY <1>1, <2>1 DEF Base, Windows, q
  <1>2. CASE ~(ack > p.snd_nxt)
    <2>1. q = [p EXCEPT !.unsent = v]
      BY <1>2 DEF UnsentAcked
    <2>2. v \in Seq(Segments)
      <3>1. p.unsent \in Seq(Segments)
        BY DEF Pcb
      <3> QED  BY <3>1, AboveHas
    <2> HIDE DEF q, v
    <2>3. q \in Pcb
      BY <2>1, <2>2 DEF Pcb
    <2>4. /\ Base(q, p) /\ Windows(q, p) /\ q.lastack = p.lastack /\ q.snd_buf = p.snd_buf
          /\ q.unacked = p.unacked /\ q.flags = p.flags /\ q.cwnd = p.cwnd /\ q.unsent = v
      BY <2>1 DEF Pcb, Base, Windows
    <2> QED  BY <1>2, <2>3, <2>4 DEF q, v
  <1> QED  BY <1>1, <1>2

\* How far the peer lets us send; the window that counts now; a segment or a
\* window x may come before y.
RightEdge(a) == a.ack + a.wnd
Now(p)  == [seq |-> p.snd_wl1, ack |-> p.snd_wl2, wnd |-> p.snd_wnd]
Precedes(x, y) ==
    /\ x.ack < y.ack => RightEdge(x) <= RightEdge(y)
    /\ x.seq < y.seq => x.ack <= y.ack /\ RightEdge(x) <= RightEdge(y)

\* A window that is taken is not older.
LEMMA BringsMore ==
  ASSUME NEW p \in Pcb, NEW a \in Ack, Precedes(a, Now(p)), Precedes(Now(p), a)
  PROVE  /\ BringsWindow(p, a) => p.snd_wl2 <= a.ack /\ p.snd_wl2 + p.snd_wnd <= a.ack + a.wnd
         /\ ~BringsWindow(p, a) => a.ack <= p.snd_wl2
  <1>1. Now(p).seq = p.snd_wl1 /\ Now(p).ack = p.snd_wl2 /\ Now(p).wnd = p.snd_wnd
    BY DEF Now
  <1>2. {p.snd_wl1, p.snd_wl2, p.snd_wnd} \subseteq Nat
    BY DEF Pcb
  <1>3. {a.seq, a.ack, a.wnd} \subseteq Nat
    <2>1. a.seq \in {0, 1} /\ a.ack \in Nat /\ a.wnd \in Nat
      BY DEF Ack
    <2> QED  BY <2>1
  <1>4. /\ a.ack < p.snd_wl2 => a.ack + a.wnd <= p.snd_wl2 + p.snd_wnd
        /\ a.seq < p.snd_wl1 => a.ack <= p.snd_wl2
        /\ p.snd_wl2 < a.ack => p.snd_wl2 + p.snd_wnd <= a.ack + a.wnd
        /\ p.snd_wl1 < a.seq => p.snd_wl2 <= a.ack /\ p.snd_wl2 + p.snd_wnd <= a.ack + a.wnd
    BY <1>1 DEF Precedes, RightEdge
  <1> QED  BY <1>2, <1>3, <1>4 DEF BringsWindow

\* tcp_receive: which acknowledgment it is.
Late(p, a) == a.ack <= p.lastack
NewData(p, a) == p.lastack < a.ack /\ a.ack <= p.snd_nxt
Far(p, a)  == p.lastack < a.ack /\ p.snd_nxt < a.ack

\* Acked is one of three things to do, and then drops what is acknowledged from unsent.
LEMMA AckedAs ==
  ASSUME NEW p \in Pcb, NEW a \in Ack
  PROVE  LET q == NewWindow(p, a)
             r == Acked(p, a)
         IN /\ Late(p, a) => \E o \in Pcb : /\ Base(o, q) /\ Windows(o, q) /\ o.lastack = q.lastack
                                            /\ o.snd_buf = q.snd_buf /\ Fewer(o, q)
                                            /\ SameQueues(o, q) \/ (a.ack = p.lastack /\ Resent(o, q))
                                            /\ r = UnsentAcked(o, a.ack)
            /\ NewData(p, a) => r = UnsentAcked(NewAck(q, a.ack), a.ack)
            /\ Far(p, a) => r = UnsentAcked(q, a.ack)
            /\ Late(p, a) \/ NewData(p, a) \/ Far(p, a)
  <1> DEFINE q == NewWindow(p, a)
             r == Acked(p, a)
             o == IF Duplicate(p, q, a) THEN DupAck(q) ELSE [q EXCEPT !.dupacks = 0]
  <1>1. a.ack \in Nat /\ p.lastack \in Nat /\ p.snd_nxt \in Nat
    BY DEF Ack, Pcb
  <1>2. q \in Pcb
    BY NewWindowIs
  <1>3. ASSUME Late(p, a)
        PROVE  /\ r = UnsentAcked(o, a.ack) /\ o \in Pcb /\ Base(o, q) /\ Windows(o, q) /\ o.lastack = q.lastack
               /\ o.snd_buf = q.snd_buf /\ Fewer(o, q) /\ (SameQueues(o, q) \/ (a.ack = p.lastack /\ Resent(o, q)))
    <2>1. r = UnsentAcked(o, a.ack)
      BY <1>3 DEF Acked, Late
    <2>2. CASE Duplicate(p, q, a)
      <3>1. o = DupAck(q) /\ a.ack = p.lastack
        BY <2>2 DEF Duplicate
      <3> HIDE DEF q, o
      <3>2. /\ o \in Pcb /\ Base(o, q) /\ Windows(o, q) /\ o.lastack = q.lastack
            /\ o.snd_buf = q.snd_buf /\ Fewer(o, q) /\ (SameQueues(o, q) \/ Resent(o, q))
        BY <1>2, <3>1, DupAckIs
      <3> QED  BY <2>1, <3>1, <3>2 DEF q, o
    <2>3. CASE ~Duplicate(p, q, a)
      <3>1. o = [q EXCEPT !.dupacks = 0]
        BY <2>3
      <3> HIDE DEF q, o
      <3>2. 0 \in Dupacks
        BY DEF Dupacks
      <3>3. o \in Pcb
        BY <1>2, <3>1, <3>2 DEF Pcb
      <3>4. /\ Base(o, q) /\ Windows(o, q) /\ o.lastack = q.lastack
            /\ o.snd_buf = q.snd_buf /\ SameQueues(o, q)
        BY <1>2, <3>1 DEF Pcb, Base, Windows, SameQueues
      <3>5. Fewer(o, q)
        BY <3>4 DEF Fewer, SameQueues
      <3> QED  BY <2>1, <3>3, <3>4, <3>5 DEF q, o
    <2> QED  BY <2>2, <2>3
  <1>4. NewData(p, a) => r = UnsentAcked(NewAck(q, a.ack), a.ack)
    BY <1>1 DEF Acked, NewData
  <1>5. Far(p, a) => r = UnsentAcked(q, a.ack)
    BY <1>1 DEF Acked, Far
  <1>6. Late(p, a) \/ NewData(p, a) \/ Far(p, a)
    BY <1>1 DEF Late, NewData, Far
  <1> HIDE DEF q, r, o
  <1> QED  BY <1>3, <1>4, <1>5, <1>6 DEF q, r

\* An acknowledgment in any state.
LEMMA AckedIs ==
  ASSUME NEW p \in Pcb, NEW a \in Ack, Precedes(a, Now(p)), Precedes(Now(p), a), p.lastack <= p.snd_wl2
  PROVE  LET r == Acked(p, a)
         IN /\ r \in Pcb /\ Base(r, p) /\ Fewer(r, p) /\ r.lastack <= r.snd_wl2
            /\ Windows(r, p) \/ (r.snd_wnd = a.wnd /\ r.snd_wl1 = a.seq /\ r.snd_wl2 = a.ack)
            /\ r.lastack = IF NewData(p, a) THEN a.ack ELSE p.lastack
            /\ r.snd_buf = p.snd_buf + (r.lastack - p.lastack)
            /\ Late(p, a) => p.lastack + p.snd_wnd <= r.lastack + r.snd_wnd
            /\ NewData(p, a) => p.lastack + p.snd_wnd <= r.lastack + r.snd_wnd
  <1> DEFINE q == NewWindow(p, a)
             r == Acked(p, a)
  <1>1. a.ack \in Nat /\ a.wnd \in Nat /\ p.lastack \in Nat /\ p.snd_nxt \in Nat /\ p.snd_wnd \in Nat /\ p.snd_wl2 \in Nat
        /\ p.snd_buf \in Nat
    BY DEF Ack, Pcb
  <1>2. /\ q \in Pcb /\ Base(q, p) /\ SameQueues(q, p) /\ q.lastack = p.lastack /\ q.snd_buf = p.snd_buf
        /\ BringsWindow(p, a) => q.snd_wnd = a.wnd /\ q.snd_wl1 = a.seq /\ q.snd_wl2 = a.ack
        /\ ~BringsWindow(p, a) => Windows(q, p)
    BY NewWindowIs
  <1>3. /\ BringsWindow(p, a) => p.snd_wl2 <= a.ack /\ p.snd_wl2 + p.snd_wnd <= a.ack + a.wnd
        /\ ~BringsWindow(p, a) => a.ack <= p.snd_wl2
    BY BringsMore
  <1>4. /\ Late(p, a) => \E o \in Pcb : /\ Base(o, q) /\ Windows(o, q) /\ o.lastack = q.lastack
                                        /\ o.snd_buf = q.snd_buf /\ Fewer(o, q)
                                        /\ SameQueues(o, q) \/ (a.ack = p.lastack /\ Resent(o, q))
                                        /\ r = UnsentAcked(o, a.ack)
        /\ NewData(p, a) => r = UnsentAcked(NewAck(q, a.ack), a.ack)
        /\ Far(p, a) => r = UnsentAcked(q, a.ack)
        /\ Late(p, a) \/ NewData(p, a) \/ Far(p, a)
    BY AckedAs
  <1> HIDE DEF q, r
  <1>5. /\ Windows(q, p) \/ (q.snd_wnd = a.wnd /\ q.snd_wl1 = a.seq /\ q.snd_wl2 = a.ack)
        /\ p.snd_wl2 <= q.snd_wl2 /\ a.ack <= q.snd_wl2
    BY <1>1, <1>2, <1>3 DEF Windows
  <1>6. /\ Late(p, a) => p.lastack + p.snd_wnd <= p.lastack + q.snd_wnd
        /\ NewData(p, a) => p.lastack + p.snd_wnd <= a.ack + q.snd_wnd
    <2>1. CASE BringsWindow(p, a)
      <3>1. q.snd_wnd = a.wnd /\ p.snd_wl2 <= a.ack /\ p.snd_wl2 + p.snd_wnd <= a.ack + a.wnd
        BY <1>2, <1>3, <2>1
      <3> QED  BY <1>1, <3>1 DEF Late, NewData
    <2>2. CASE ~BringsWindow(p, a)
      <3>1. q.snd_wnd = p.snd_wnd
        BY <1>2, <2>2 DEF Windows
      <3> QED  BY <1>1, <3>1 DEF Late, NewData
    <2> QED  BY <2>1, <2>2
  <1>7. Fewer(q, p)
    BY <1>2 DEF Fewer, SameQueues
  <1>u. ASSUME NEW o \in Pcb
        PROVE  LET s == UnsentAcked(o, a.ack)
               IN s \in Pcb /\ Base(s, o) /\ Windows(s, o) /\ s.lastack = o.lastack /\ s.snd_buf = o.snd_buf /\ Fewer(s, o)
    <2> DEFINE s == UnsentAcked(o, a.ack)
    <2>1. /\ s \in Pcb /\ Base(s, o) /\ Windows(s, o) /\ s.lastack = o.lastack /\ s.snd_buf = o.snd_buf
          /\ s.unacked = o.unacked
          /\ s.unsent = IF a.ack > o.snd_nxt THEN o.unsent ELSE Above(o.unsent, a.ack)
      BY <1>1, UnsentAckedIs
    <2>2. o.unsent \in Seq(Segments)
      BY DEF Pcb
    <2>3. ElementsOf(Above(o.unsent, a.ack)) \subseteq ElementsOf(o.unsent)
      BY <1>1, <2>2, AboveHas
    <2> HIDE DEF s
    <2>4. Fewer(s, o)
      BY <2>1, <2>3 DEF Fewer
    <2> QED  BY <2>1, <2>4 DEF s
  <1>8. CASE Late(p, a)
    <2>1. PICK o \in Pcb : /\ Base(o, q) /\ Windows(o, q) /\ o.lastack = q.lastack
                           /\ o.snd_buf = q.snd_buf /\ Fewer(o, q) /\ r = UnsentAcked(o, a.ack)
      BY <1>4, <1>8
    <2>2. r \in Pcb /\ Base(r, o) /\ Windows(r, o) /\ r.lastack = o.lastack /\ r.snd_buf = o.snd_buf /\ Fewer(r, o)
      BY <1>u, <2>1
    <2>3. Base(r, p) /\ Windows(r, q) /\ r.lastack = p.lastack /\ r.snd_buf = p.snd_buf
      BY <1>2, <2>1, <2>2 DEF Base, Windows
    <2>4. Fewer(r, p)
      BY <1>7, <2>1, <2>2 DEF Fewer
    <2>5. ~NewData(p, a)
      BY <1>1, <1>8 DEF Late, NewData
    <2>6. r.snd_wnd = q.snd_wnd /\ r.snd_wl1 = q.snd_wl1 /\ r.snd_wl2 = q.snd_wl2
      BY <2>3 DEF Windows
    <2>7. r.lastack <= r.snd_wl2
      <3>1. q.snd_wl2 \in Nat
        BY <1>2 DEF Pcb
      <3> QED  BY <1>1, <1>5, <2>3, <2>6, <3>1
    <2>8. Windows(r, p) \/ (r.snd_wnd = a.wnd /\ r.snd_wl1 = a.seq /\ r.snd_wl2 = a.ack)
      BY <1>5, <2>6 DEF Windows
    <2>9. r.snd_buf = p.snd_buf + (r.lastack - p.lastack)
      BY <1>1, <2>3
    <2>10. p.lastack + p.snd_wnd <= r.lastack + r.snd_wnd
      BY <1>6, <1>8, <2>3, <2>6
    <2> QED  BY <2>2, <2>3, <2>4, <2>5, <2>7, <2>8, <2>9, <2>10 DEF r
  <1>9. CASE NewData(p, a)
    <2> DEFINE o == NewAck(q, a.ack)
    <2>1. r = UnsentAcked(o, a.ack) /\ q.lastack < a.ack
      BY <1>2, <1>4, <1>9 DEF NewData
    <2>2. /\ o \in Pcb /\ Base(o, q) /\ Windows(o, q) /\ o.lastack = a.ack
          /\ o.snd_buf = q.snd_buf + (a.ack - q.lastack)
          /\ o.unacked = Above(q.unacked, a.ack) /\ o.unsent = q.unsent
      BY <1>1, <1>2, <2>1, NewAckIs
    <2> HIDE DEF o
    <2>3. r \in Pcb /\ Base(r, o) /\ Windows(r, o) /\ r.lastack = o.lastack /\ r.snd_buf = o.snd_buf /\ Fewer(r, o)
      BY <1>u, <2>1, <2>2
    <2>4. Fewer(o, q)
      <3>1. q.unacked \in Seq(Segments)
        BY <1>2 DEF Pcb
      <3>2. ElementsOf(Above(q.unacked, a.ack)) \subseteq ElementsOf(q.unacked)
        BY <1>1, <3>1, AboveHas
      <3> QED  BY <2>2, <3>2 DEF Fewer
    <2>5. Base(r, p) /\ Windows(r, q) /\ r.lastack = a.ack /\ r.snd_buf = p.snd_buf + (a.ack - p.lastack)
      BY <1>2, <2>2, <2>3 DEF Base, Windows
    <2>6. Fewer(r, p)
      BY <1>7, <2>3, <2>4 DEF Fewer
    <2>7. r.snd_wnd = q.snd_wnd /\ r.snd_wl1 = q.snd_wl1 /\ r.snd_wl2 = q.snd_wl2
      BY <2>5 DEF Windows
    <2>8. Windows(r, p) \/ (r.snd_wnd = a.wnd /\ r.snd_wl1 = a.seq /\ r.snd_wl2 = a.ack)
      BY <1>5, <2>7 DEF Windows
    <2>9. ~Late(p, a)
      BY <1>1, <1>9 DEF Late, NewData
    <2>10. p.lastack + p.snd_wnd <= r.lastack + r.snd_wnd
      BY <1>6, <1>9, <2>5, <2>7
    <2>11. r.lastack <= r.snd_wl2
      BY <1>5, <2>5, <2>7
    <2> QED  BY <1>9, <2>3, <2>5, <2>6, <2>8, <2>9, <2>10, <2>11 DEF r
  <1>10. CASE Far(p, a)
    <2>1. r = UnsentAcked(q, a.ack)
      BY <1>4, <1>10
    <2>2. r \in Pcb /\ Base(r, q) /\ Windows(r, q) /\ r.lastack = q.lastack /\ r.snd_buf = q.snd_buf /\ Fewer(r, q)
      BY <1>u, <1>2, <2>1
    <2>3. Base(r, p) /\ r.lastack = p.lastack /\ r.snd_buf = p.snd_buf
      BY <1>2, <2>2 DEF Base
    <2>4. Fewer(r, p)
      BY <1>7, <2>2 DEF Fewer
    <2>5. ~NewData(p, a) /\ ~Late(p, a)
      BY <1>1, <1>10 DEF Far, NewData, Late
    <2>6. r.snd_wnd = q.snd_wnd /\ r.snd_wl1 = q.snd_wl1 /\ r.snd_wl2 = q.snd_wl2
      BY <2>2 DEF Windows
    <2>7. r.lastack <= r.snd_wl2
      <3>1. q.snd_wl2 \in Nat
        BY <1>2 DEF Pcb
      <3> QED  BY <1>1, <1>5, <2>3, <2>6, <3>1
    <2>8. Windows(r, p) \/ (r.snd_wnd = a.wnd /\ r.snd_wl1 = a.seq /\ r.snd_wl2 = a.ack)
      BY <1>5, <2>6 DEF Windows
    <2>9. r.snd_buf = p.snd_buf + (r.lastack - p.lastack)
      BY <1>1, <2>3
    <2> QED  BY <2>2, <2>3, <2>4, <2>5, <2>7, <2>8, <2>9 DEF r
  <1> QED  BY <1>4, <1>8, <1>9, <1>10

\* A number the peer may have reached: what was sent, or a byte of a probe.
Heard(p, x) ==
    x <= p.snd_nxt \/ (p.unacked = <<>> /\ p.unsent # <<>> /\ x <= p.unsent[1].seq + 1)

\* The head of a line goes back to the unsent queue, and fits at once.
LEMMA ResentOpen ==
  ASSUME NEW q \in Pcb, NEW o \in Pcb, InLine(q), Sums(q), Base(o, q), Windows(o, q), o.lastack = q.lastack,
         Resent(o, q)
  PROVE  Retransmits(o)
  <1> DEFINE u == q.unacked
             v == q.unsent
             h == Head(u)
             t == Tail(u)
             k == q.lastack
             z == q.snd_lbb
             m == mss_local(q)
  <1>1. /\ u \in Seq(Segments) /\ v \in Seq(Segments) /\ k \in Nat /\ z \in Nat /\ m \in Nat \ {0}
        /\ u # <<>> /\ q.snd_wnd \in Nat
    BY LocalIs DEF Pcb, Resent
  <1>2. h \in Segments /\ t \in Seq(Segments) /\ u = <<h>> \o t /\ h = u[1] /\ h \in ElementsOf(u)
    BY <1>1, HeadAndTail
  <1>3. Line(u \o v, k, z, m)
    BY DEF InLine
  <1>4. /\ o.unacked = t /\ o.unsent = Inserted(v, h) /\ "INFR" \in o.flags
        /\ o.cwnd = Min({CwndMax, Ssthresh(q) + 3 * q.mss})
    BY DEF Resent
  <1>5. Upper(h) <= k + q.snd_wnd
    BY <1>2 DEF Sums
  <1>6. o.lastack = k /\ o.snd_lbb = z /\ mss_local(o) = m /\ o.snd_wnd = q.snd_wnd /\ q.mss \in Nat \ {0} /\ m <= q.mss
        /\ 2 * m <= PeerBuf
    BY LocalIs DEF Base, Windows, mss_local
  <1> HIDE DEF u, v, h, t, k, z, m
  <1> DEFINE g == <<h>>
  <1>7. g \in Seq(Segments) /\ u = g \o t
    BY <1>2
  <1>8. u \o v = g \o (t \o v)
    BY <1>1, <1>2, <1>7, Associates
  <1> DEFINE c == g \o (t \o v)
  <1>9. t \o v \in Seq(Segments) /\ c \in Seq(Segments)
    <2>1. t \o v \in Seq(Segments)
      BY <1>1, <1>2
    <2> QED  BY <1>7, <2>1
  <1>10. Line(c, k, z, m)
    BY <1>3, <1>8
  <1>11. GoesUp(c)
    <2> HIDE DEF c
    <2>1. m \in Nat
      BY <1>1
    <2> QED  BY <1>1, <1>9, <1>10, <2>1, LineHas
  <1>12. ASSUME NEW i \in 1 .. Len(v) PROVE ~(v[i].seq < h.seq)
    <2>1. /\ Len(c) = 1 + Len(t \o v)
          /\ \A j \in 1 .. 1 + Len(t \o v) : c[j] = IF j <= 1 THEN g[j] ELSE (t \o v)[j - 1]
      <3>1. Len(g) = 1
        OBVIOUS
      <3> HIDE DEF g
      <3> QED  BY <1>7, <1>9, <3>1, Leading
    <2>2. /\ Len(t \o v) = Len(t) + Len(v) /\ Len(t) \in Nat /\ Len(v) \in Nat
          /\ \A j \in 1 .. Len(t) + Len(v) : (t \o v)[j] = IF j <= Len(t) THEN t[j] ELSE v[j - Len(t)]
      BY <1>1, <1>2, Concatenation
    <2> DEFINE j == Len(t) + i
               n == 1 + Len(t \o v)
    <2>3. j \in 1 .. Len(t) + Len(v) /\ ~(j <= Len(t)) /\ j - Len(t) = i /\ j \in Nat /\ 1 <= j
      BY <2>2
    <2>4. j + 1 \in 1 .. n /\ ~(j + 1 <= 1) /\ (j + 1) - 1 = j /\ 1 \in 1 .. n /\ 1 < j + 1
      BY <2>2, <2>3
    <2>g. g[1] = h
      OBVIOUS
    <2>5. (t \o v)[j] = v[i]
      BY <2>2, <2>3
    <2> HIDE DEF j, c, g
    <2>6. c[1] = h /\ c[j + 1] = v[i]
      BY <2>1, <2>4, <2>5, <2>g, SMTT(30)
    <2>7. c[1].seq < c[j + 1].seq
      BY <1>11, <2>1, <2>4 DEF GoesUp
    <2>8. h.seq \in Nat /\ v[i].seq \in Nat
      <3>1. v[i] \in Segments
        BY <1>1
      <3> QED  BY <1>2, <3>1, UpperIs
    <2> QED  BY <2>6, <2>7, <2>8
  <1>13. Inserted(v, h) = <<h>> \o v
    <2> HIDE DEF g
    <2> QED  BY <1>1, <1>2, <1>12, InsertedIs
  <1>14. h.seq <= k /\ h.len <= m /\ h.seq \in Nat /\ h.len \in Nat
    <2>1. PICK x \in Nat : x <= k /\ Chain(c, x, z, m)
      BY <1>10 DEF Line
    <2>2. c # <<>> /\ c[1] = h /\ 1 \in 1 .. Len(c)
      <3>1. Len(c) = 1 + Len(t \o v) /\ (\A j \in 1 .. 1 + Len(t \o v) : c[j] = IF j <= 1 THEN g[j] ELSE (t \o v)[j - 1])
        <4>1. Len(g) = 1
          OBVIOUS
        <4> HIDE DEF g
        <4> QED  BY <1>7, <1>9, <4>1, Leading
      <3>2. g[1] = h /\ Len(t \o v) \in Nat
        BY <1>9
      <3>3. 1 \in 1 .. 1 + Len(t \o v)
        BY <3>2
      <3> HIDE DEF c, g
      <3>4. c[1] = h /\ Len(c) # 0 /\ 1 \in 1 .. Len(c)
        BY <3>1, <3>2, <3>3
      <3> QED  BY <3>4
    <2> HIDE DEF c
    <2>3. c[1].seq = x /\ c[1].len \in 1 .. m
      BY <2>1, <2>2 DEF Chain
    <2>4. h.seq \in Nat /\ h.len \in Nat
      BY <1>2, UpperIs
    <2> QED  BY <1>1, <2>1, <2>2, <2>3, <2>4
  <1>15. InWindows(o, h)
    <2>1. Ssthresh(q) \in Nat
      BY SsthreshIs DEF Positive
    <2>2. CwndMax = 2 * PeerBuf /\ PeerBuf \in Nat
      BY SendAssumption DEF CwndMax
    <2> DEFINE s == Ssthresh(q) + 3 * q.mss
    <2>3. s \in Nat /\ m <= s /\ CwndMax \in Nat /\ m <= CwndMax
      BY <1>1, <1>6, <2>1, <2>2
    <2> HIDE DEF s
    <2>4. o.cwnd = IF CwndMax <= s THEN CwndMax ELSE s
      BY <1>4, <2>3, MinOfTwo DEF s
    <2>5. o.cwnd \in Nat /\ m <= o.cwnd
      BY <2>3, <2>4
    <2>6. h.seq - o.lastack + h.len <= o.cwnd
      BY <1>1, <1>6, <1>14, <2>5
    <2>7. h.seq - o.lastack + h.len <= o.snd_wnd
      BY <1>1, <1>5, <1>6, <1>14 DEF Upper
    <2>8. Min({o.snd_wnd, o.cwnd}) = IF o.snd_wnd <= o.cwnd THEN o.snd_wnd ELSE o.cwnd
      BY <1>1, <1>6, <2>5, MinOfTwo
    <2> QED  BY <2>6, <2>7, <2>8 DEF InWindows
  <1>16. FirstAgain(o, h, v)
    BY <1>1, <1>2, <1>4, <1>6, <1>10, <1>13, <1>15 DEF FirstAgain
  <1> QED  BY <1>16 DEF Retransmits

\* The first of the unsent queue is above what is acknowledged.
LEMMA LineLead ==
  ASSUME NEW q \in Pcb, InLine(q)
  PROVE  q.unsent # <<>> => q.lastack < Upper(q.unsent[1]) /\ q.unsent[1] \in Segments
                            /\ q.unsent[1].seq + 1 <= Upper(q.unsent[1]) /\ q.unsent[1] \in ElementsOf(q.unsent)
                            /\ Upper(q.unsent[1]) = q.unsent[1].seq + SegLen(q.unsent[1])
  <1> DEFINE u == q.unacked
             v == q.unsent
             k == q.lastack
             z == q.snd_lbb
             m == mss_local(q)
  <1>1. /\ u \in Seq(Segments) /\ v \in Seq(Segments) /\ k \in Nat /\ z \in Nat /\ m \in Nat
    BY LocalIs DEF Pcb
  <1>2. Line(u \o v, k, z, m)
    BY DEF InLine
  <1> HIDE DEF u, v, k, z, m
  <1> SUFFICES ASSUME v # <<>>
               PROVE  k < Upper(v[1]) /\ v[1] \in Segments /\ v[1].seq + 1 <= Upper(v[1]) /\ v[1] \in ElementsOf(v)
                      /\ Upper(v[1]) = v[1].seq + SegLen(v[1])
    BY DEF v, k
  <1>3. PICK x \in Nat : x <= k /\ Chain(u \o v, x, z, m)
    BY <1>2 DEF Line
  <1>4. PICK y \in Nat : Chain(u, x, y, m) /\ Chain(v, y, z, m)
    BY <1>1, <1>3, ChainsPart
  <1>5. 1 \in 1 .. Len(v) /\ v[1] \in Segments /\ v[1] \in ElementsOf(v)
    BY <1>1 DEF ElementsOf
  <1>6. v[1].len \in 1 .. m /\ ~v[1].fin /\ v[1].seq = y
    BY <1>4, <1>5 DEF Chain
  <1>7. v[1].seq \in Nat /\ v[1].len \in Nat /\ Upper(v[1]) \in Nat
    BY <1>5, UpperIs
  <1>8. v[1].seq + 1 <= Upper(v[1]) /\ Upper(v[1]) = v[1].seq + SegLen(v[1])
    BY <1>1, <1>6, <1>7 DEF Upper, SegLen
  <1>9. k < Upper(v[1])
    <2>1. CASE u = <<>>
      <3>1. u \o v = v
        BY <1>1, <2>1, FirstOf
      <3> QED  BY <1>2, <3>1 DEF Line
    <2>2. CASE u # <<>>
      <3>1. u \o v # <<>> /\ (u \o v)[1] = u[1] /\ u[1] \in Segments
        BY <1>1, <2>2, FirstOf
      <3>2. k < Upper(u[1])
        BY <1>2, <3>1 DEF Line
      <3>3. Upper(u[1]) <= y
        <4>1. 1 \in 1 .. Len(u)
          BY <1>1, <2>2
        <4> QED  BY <1>4, <4>1 DEF Chain
      <3>4. Upper(u[1]) \in Nat
        BY <3>1, UpperIs
      <3> QED  BY <1>1, <1>6, <1>7, <1>8, <3>2, <3>3, <3>4
    <2> QED  BY <2>1, <2>2
  <1> QED  BY <1>5, <1>8, <1>9

\* An acknowledgment of an open connection.
LEMMA AckedOpen ==
  ASSUME NEW p \in Pcb, OpenPcb(p), NEW a \in Ack, Precedes(a, Now(p)), Precedes(Now(p), a), p.lastack <= p.snd_wl2,
         Heard(p, a.ack)
  PROVE  /\ Sums(Acked(p, a)) /\ (InLine(Acked(p, a)) \/ Retransmits(Acked(p, a)))
         /\ \A x \in Nat : Heard(p, x) => Heard(Acked(p, a), x)
  <1> DEFINE q == NewWindow(p, a)
             r == Acked(p, a)
  <1>1. a.ack \in Nat /\ a.wnd \in Nat /\ {p.lastack, p.snd_nxt, p.snd_wnd, p.snd_wl2, p.snd_buf, p.snd_lbb} \subseteq Nat
        /\ p.unacked \in Seq(Segments) /\ p.unsent \in Seq(Segments) /\ SndBuf \in Nat
    BY SendAssumption DEF Ack, Pcb
  <1>2. /\ q \in Pcb /\ Base(q, p) /\ SameQueues(q, p) /\ q.lastack = p.lastack /\ q.snd_buf = p.snd_buf
    BY NewWindowIs
  <1>4. /\ Late(p, a) => \E o \in Pcb : /\ Base(o, q) /\ Windows(o, q) /\ o.lastack = q.lastack
                                        /\ o.snd_buf = q.snd_buf /\ Fewer(o, q)
                                        /\ SameQueues(o, q) \/ (a.ack = p.lastack /\ Resent(o, q))
                                        /\ r = UnsentAcked(o, a.ack)
        /\ NewData(p, a) => r = UnsentAcked(NewAck(q, a.ack), a.ack)
        /\ Far(p, a) => r = UnsentAcked(q, a.ack)
        /\ Late(p, a) \/ NewData(p, a) \/ Far(p, a)
    BY AckedAs
  <1>5. /\ r \in Pcb /\ Base(r, p) /\ Fewer(r, p)
        /\ r.lastack = IF NewData(p, a) THEN a.ack ELSE p.lastack
        /\ r.snd_buf = p.snd_buf + (r.lastack - p.lastack)
        /\ Late(p, a) => p.lastack + p.snd_wnd <= r.lastack + r.snd_wnd
        /\ NewData(p, a) => p.lastack + p.snd_wnd <= r.lastack + r.snd_wnd
    BY AckedIs
  <1>6. InLine(p) /\ Sums(p) /\ mss_local(q) = mss_local(p) /\ mss_local(p) \in Nat
    BY <1>2, LocalIs DEF OpenPcb, mss_local, Base
  <1>7. q.unacked = p.unacked /\ q.unsent = p.unsent /\ q.snd_nxt = p.snd_nxt /\ q.snd_lbb = p.snd_lbb /\ q.mss = p.mss
    BY <1>2 DEF SameQueues, Base
  <1>r. r.snd_nxt = p.snd_nxt /\ r.snd_lbb = p.snd_lbb /\ r.mss = p.mss
    BY <1>5 DEF Base
  <1> HIDE DEF q, r
  <1>8. InLine(q) /\ Line(p.unacked \o p.unsent, p.lastack, p.snd_lbb, mss_local(p))
    BY <1>2, <1>6, <1>7 DEF InLine
  <1>9. r.snd_buf = SndBuf - (r.snd_lbb - r.lastack) /\ r.snd_nxt <= r.snd_lbb
    <2>1. p.snd_buf = SndBuf - (p.snd_lbb - p.lastack) /\ p.snd_nxt <= p.snd_lbb
      BY <1>6 DEF Sums
    <2>2. r.lastack \in Nat
      BY <1>5 DEF Pcb
    <2>3. r.snd_buf = p.snd_buf + (r.lastack - p.lastack)
      BY <1>5
    <2>4. {p.lastack, p.snd_nxt, p.snd_buf, p.snd_lbb} \subseteq Nat /\ SndBuf \in Nat
      BY <1>1
    <2> QED  BY <1>r, <2>1, <2>2, <2>3, <2>4
  <1>10. ASSUME NEW s \in ElementsOf(p.unacked)
         PROVE  Upper(s) \in Nat /\ Upper(s) <= p.snd_nxt /\ Upper(s) <= p.lastack + p.snd_wnd
    <2>1. s \in Segments
      BY <1>1, <1>10 DEF ElementsOf
    <2> QED  BY <1>6, <2>1, UpperIs DEF Sums
  <1>11. ASSUME Late(p, a) \/ NewData(p, a) PROVE Sums(r)
    <2>1. p.lastack + p.snd_wnd <= r.lastack + r.snd_wnd /\ r.lastack \in Nat /\ r.snd_wnd \in Nat
      BY <1>5, <1>11 DEF Pcb
    <2>2. ASSUME NEW s \in ElementsOf(r.unacked) PROVE Upper(s) <= r.snd_nxt /\ Upper(s) <= r.lastack + r.snd_wnd
      <3>1. s \in ElementsOf(p.unacked)
        BY <1>5 DEF Fewer
      <3> QED  BY <1>1, <1>10, <1>r, <2>1, <3>1, SMTT(30)
    <2> QED  BY <1>9, <2>2 DEF Sums
  <1>12. CASE Late(p, a)
    <2>1. PICK o \in Pcb : /\ Base(o, q) /\ Windows(o, q) /\ o.lastack = q.lastack
                           /\ o.snd_buf = q.snd_buf /\ Fewer(o, q)
                           /\ SameQueues(o, q) \/ (a.ack = p.lastack /\ Resent(o, q))
                           /\ r = UnsentAcked(o, a.ack)
      BY <1>4, <1>12
    <2>2. /\ Base(r, o) /\ Windows(r, o) /\ r.lastack = o.lastack
          /\ r.unacked = o.unacked /\ r.flags = o.flags /\ r.cwnd = o.cwnd
          /\ r.unsent = IF a.ack > o.snd_nxt THEN o.unsent ELSE Above(o.unsent, a.ack)
      BY <1>1, <2>1, UnsentAckedIs
    <2>3. CASE SameQueues(o, q)
      <3>1. Above(p.unsent, a.ack) = p.unsent
        BY <1>1, <1>6, <1>8, <1>12, LineStays DEF Late
      <3>2. r.unsent = p.unsent /\ r.unacked = p.unacked /\ r.lastack = p.lastack
        BY <1>2, <1>7, <2>1, <2>2, <2>3, <3>1 DEF SameQueues
      <3>3. InLine(r)
        BY <1>8, <1>r, <3>2 DEF InLine, mss_local
      <3>4. \A x \in Nat : Heard(p, x) => Heard(r, x)
        BY <1>r, <3>2 DEF Heard
      <3> QED  BY <1>11, <1>12, <3>3, <3>4 DEF r
    <2>4. CASE a.ack = p.lastack /\ Resent(o, q)
      <3>1. Sums(q)
        <4>a. q.lastack + q.snd_wnd >= p.lastack + p.snd_wnd /\ q.snd_wnd \in Nat
          <5>1. q.snd_wnd = r.snd_wnd /\ q.lastack = r.lastack
            BY <2>1, <2>2 DEF Windows
          <5> QED  BY <1>1, <1>2, <1>5, <1>12, <5>1 DEF Pcb
        <4>1. ASSUME NEW s \in ElementsOf(q.unacked) PROVE Upper(s) <= q.snd_nxt /\ Upper(s) <= q.lastack + q.snd_wnd
          <5>1. s \in ElementsOf(p.unacked)
            BY <1>7
          <5> QED  BY <1>1, <1>2, <1>7, <1>10, <4>a, <5>1
        <4>2. q.snd_buf = SndBuf - (q.snd_lbb - q.lastack) /\ q.snd_nxt <= q.snd_lbb
          BY <1>2, <1>6, <1>7 DEF Sums
        <4> QED  BY <4>1, <4>2 DEF Sums
      <3>2. Retransmits(o)
        BY <1>2, <1>8, <2>1, <2>4, <3>1, ResentOpen
      <3>3. PICK h, w : FirstAgain(o, h, w)
        BY <3>2 DEF Retransmits
      <3>4. /\ h \in Segments /\ w \in Seq(Segments) /\ o.unsent = <<h>> \o w
            /\ Line(<<h>> \o (o.unacked \o w), o.lastack, o.snd_lbb, mss_local(o))
            /\ InWindows(o, h) /\ "INFR" \in o.flags
        BY <3>3 DEF FirstAgain
      <3>5. o.unsent \in Seq(Segments) /\ o.unacked \in Seq(Segments)
        BY <2>1 DEF Pcb
      <3>6. o.unsent # <<>> => a.ack < Upper(o.unsent[1])
        <4>1. o.unsent # <<>> /\ o.unsent[1] = h
          BY <3>4
        <4>2. o.unacked \o w \in Seq(Segments)
          BY <3>4, <3>5
        <4>3. <<h>> \o (o.unacked \o w) # <<>> /\ (<<h>> \o (o.unacked \o w))[1] = h
          BY <3>4, <4>2
        <4>4. o.lastack < Upper(h)
          BY <3>4, <4>3 DEF Line
        <4> QED  BY <1>2, <2>1, <2>4, <4>1, <4>4
      <3>7. Above(o.unsent, a.ack) = o.unsent
        BY <1>1, <3>5, <3>6, AboveAll
      <3>8. r.unsent = o.unsent
        BY <2>2, <3>7
      <3>9. r.lastack = o.lastack /\ r.snd_lbb = o.snd_lbb /\ mss_local(r) = mss_local(o) /\ r.snd_wnd = o.snd_wnd
        BY <2>2 DEF Base, Windows, mss_local
      <3>10. InWindows(r, h)
        BY <2>2, <3>4, <3>9 DEF InWindows
      <3>11. FirstAgain(r, h, w)
        BY <2>2, <3>4, <3>8, <3>9, <3>10 DEF FirstAgain
      <3>12. \A x \in Nat : Heard(p, x) => Heard(r, x)
        <4>1. p.unacked # <<>>
          BY <1>7, <2>4 DEF Resent
        <4> QED  BY <1>r, <4>1 DEF Heard
      <3> QED  BY <1>11, <1>12, <3>11, <3>12 DEF Retransmits, r
    <2> QED  BY <2>1, <2>3, <2>4
  <1>13. CASE NewData(p, a)
    <2> DEFINE o == NewAck(q, a.ack)
    <2>1. r = UnsentAcked(o, a.ack) /\ q.lastack < a.ack
      BY <1>2, <1>4, <1>13 DEF NewData
    <2>2. /\ o \in Pcb /\ Base(o, q) /\ o.lastack = a.ack
          /\ o.unacked = Above(q.unacked, a.ack) /\ o.unsent = q.unsent
      BY <1>1, <1>2, <2>1, NewAckIs
    <2> HIDE DEF o
    <2>3. r.unacked = o.unacked /\ r.unsent = IF a.ack > o.snd_nxt THEN o.unsent ELSE Above(o.unsent, a.ack)
      BY <1>1, <2>1, <2>2, UnsentAckedIs
    <2>4. o.snd_nxt = p.snd_nxt /\ ~(a.ack > p.snd_nxt)
      BY <1>1, <1>7, <1>13, <2>2 DEF Base, NewData
    <2>5. r.unacked = Above(p.unacked, a.ack) /\ r.unsent = Above(p.unsent, a.ack) /\ r.lastack = a.ack
      BY <1>5, <1>7, <1>13, <2>2, <2>3, <2>4
    <2>6. p.lastack <= a.ack /\ a.ack <= p.snd_lbb
      <3>1. p.snd_nxt <= p.snd_lbb
        BY <1>6 DEF Sums
      <3> QED  BY <1>1, <1>13, <3>1 DEF NewData
    <2>7. Line(Above(p.unacked, a.ack) \o Above(p.unsent, a.ack), a.ack, p.snd_lbb, mss_local(p))
      BY <1>1, <1>6, <1>8, <2>6, LineDrops
    <2>8. InLine(r)
      BY <1>r, <2>5, <2>7 DEF InLine, mss_local
    <2>9. ASSUME NEW x \in Nat, Heard(p, x) PROVE Heard(r, x)
      <3>1. CASE x <= p.snd_nxt
        BY <1>r, <3>1 DEF Heard
      <3>2. CASE p.unacked = <<>> /\ p.unsent # <<>> /\ x <= p.unsent[1].seq + 1
        <4>1. /\ p.unsent[1] \in Segments /\ p.unsent[1].seq + 1 <= Upper(p.unsent[1])
              /\ p.unsent[1].seq \in Nat /\ Upper(p.unsent[1]) \in Nat
          BY <1>6, <3>2, LineLead, UpperIs
        <4>2. CASE Upper(p.unsent[1]) <= a.ack
          <5>1. x <= p.snd_nxt
            BY <1>1, <1>13, <3>2, <4>1, <4>2, SMTT(30) DEF NewData
          <5> QED  BY <1>r, <5>1 DEF Heard
        <4>3. CASE a.ack < Upper(p.unsent[1])
          <5>1. Above(p.unsent, a.ack) = p.unsent
            BY <1>1, <4>3, AboveAll
          <5>2. Above(p.unacked, a.ack) = p.unacked
            BY <1>1, <3>2, AboveAll
          <5> QED  BY <2>5, <3>2, <5>1, <5>2 DEF Heard
        <4> QED  BY <1>1, <4>1, <4>2, <4>3
      <3> QED  BY <2>9, <3>1, <3>2 DEF Heard
    <2> QED  BY <1>11, <1>13, <2>8, <2>9 DEF r
  <1>14. CASE Far(p, a)
    <2>1. r = UnsentAcked(q, a.ack)
      BY <1>4, <1>14
    <2>2. r.unacked = q.unacked /\ r.unsent = IF a.ack > q.snd_nxt THEN q.unsent ELSE Above(q.unsent, a.ack)
      BY <1>1, <1>2, <2>1, UnsentAckedIs
    <2>3. a.ack > q.snd_nxt /\ ~(a.ack <= p.snd_nxt) /\ ~NewData(p, a)
      BY <1>1, <1>7, <1>14 DEF Far, NewData
    <2>4. r.unacked = p.unacked /\ r.unsent = p.unsent /\ r.lastack = p.lastack
      BY <1>5, <1>7, <2>2, <2>3
    <2>5. InLine(r)
      BY <1>8, <1>r, <2>4 DEF InLine, mss_local
    <2>6. \A x \in Nat : Heard(p, x) => Heard(r, x)
      BY <1>r, <2>4 DEF Heard
    <2>7. r.unacked = <<>>
      BY <2>3, <2>4 DEF Heard
    <2>8. Sums(r)
      <3>1. ElementsOf(r.unacked) = {}
        BY <2>7 DEF ElementsOf
      <3> QED  BY <1>9, <3>1 DEF Sums
    <2> QED  BY <2>5, <2>6, <2>8 DEF r
  <1> QED  BY <1>4, <1>12, <1>13, <1>14

\* The states in which the FIN of the peer is awaited.
Waits == {"ESTABLISHED", "FIN_WAIT_1", "FIN_WAIT_2"}

\* What neither a change of state nor a purge changes.
Numbers(q, p) ==
    /\ q.mss = p.mss /\ q.snd_lbb = p.snd_lbb /\ q.snd_nxt = p.snd_nxt /\ q.snd_buf = p.snd_buf
    /\ q.lastack = p.lastack /\ Windows(q, p) /\ q.flags = p.flags /\ q.cwnd = p.cwnd

\* A change of state only.
LEMMA StateIs ==
  ASSUME NEW p \in Pcb, NEW st \in SenderStates
  PROVE  LET q == [p EXCEPT !.state = st]
         IN q \in Pcb /\ Numbers(q, p) /\ SameQueues(q, p) /\ q.state = st
  <1> DEFINE q == [p EXCEPT !.state = st]
  <1>1. q \in Pcb
    BY DEF Pcb
  <1>2. Numbers(q, p) /\ SameQueues(q, p) /\ q.state = st
    BY DEF Pcb, Numbers, SameQueues, Windows
  <1> QED  BY <1>1, <1>2

\* tcp_pcb_purge empties the queues.
LEMMA PurgedIs ==
  ASSUME NEW p \in Pcb, NEW st \in SenderStates
  PROVE  LET q == Purged(p, st)
         IN q \in Pcb /\ Numbers(q, p) /\ q.state = st /\ q.unsent = <<>> /\ q.unacked = <<>> /\ Fewer(q, p)
  <1> DEFINE q == Purged(p, st)
             e == << >>
  <1>1. q = [p EXCEPT !.state = st, !.unsent = e, !.unacked = e, !.rtime = FALSE, !.persist = FALSE]
    BY DEF Purged
  <1>2. e \in Seq(Segments) /\ FALSE \in BOOLEAN /\ ElementsOf(e) = {}
    BY DEF ElementsOf
  <1> HIDE DEF q, e
  <1>3. q \in Pcb
    BY <1>1, <1>2 DEF Pcb
  <1>4. Numbers(q, p) /\ q.state = st /\ q.unsent = e /\ q.unacked = e
    BY <1>1 DEF Pcb, Numbers, Windows
  <1>5. Fewer(q, p)
    BY <1>2, <1>4 DEF Fewer
  <1> QED  BY <1>3, <1>4, <1>5 DEF q, e

\* tcp_process changes the state, or purges a PCB that is closing.
LEMMA NextStateIs ==
  ASSUME NEW p \in Pcb, NEW a \in Ack
  PROVE  LET q == NextState(p, a)
         IN /\ q \in Pcb /\ Numbers(q, p) /\ Fewer(q, p)
            /\ p.state \in Open => q.state \in Open /\ SameQueues(q, p)
            /\ p.state \notin Open => q.state \notin Open
            /\ q.state \in Waits => p.state \in Waits /\ ~a.fin
  <1> DEFINE q == NextState(p, a)
             done == a.ack = p.snd_nxt
  <1>0. p.state \in SenderStates /\ a.fin \in BOOLEAN
    BY DEF Pcb, Ack
  <1>w. ASSUME NEW st \in SenderStates, q = [p EXCEPT !.state = st]
        PROVE  q \in Pcb /\ Numbers(q, p) /\ SameQueues(q, p) /\ q.state = st /\ Fewer(q, p)
    <2> HIDE DEF q
    <2>1. q \in Pcb /\ Numbers(q, p) /\ SameQueues(q, p) /\ q.state = st
      BY <1>w, StateIs
    <2> QED  BY <2>1 DEF Fewer, SameQueues
  <1>1. CASE a.fin /\ p.state = "ESTABLISHED"
    <2>1. q = [p EXCEPT !.state = "CLOSE_WAIT"]
      BY <1>1 DEF NextState
    <2> DEFINE st == "CLOSE_WAIT"
    <2>2. st \in SenderStates /\ st \in Open /\ st \notin Waits /\ p.state \in Open
      BY <1>1 DEF SenderStates, Open, Waits
    <2> HIDE DEF q
    <2>3. q \in Pcb /\ Numbers(q, p) /\ SameQueues(q, p) /\ q.state = st /\ Fewer(q, p)
      BY <1>w, <2>1, <2>2
    <2> QED  BY <2>2, <2>3 DEF q
  <1>2. CASE a.fin /\ p.state = "FIN_WAIT_1" /\ done
    <2>1. q = Purged(p, "TIME_WAIT")
      BY <1>2 DEF NextState
    <2> DEFINE st == "TIME_WAIT"
    <2>2. st \in SenderStates /\ st \notin Open /\ st \notin Waits /\ p.state \notin Open
      BY <1>2 DEF SenderStates, Open, Waits
    <2> HIDE DEF q
    <2>3. q \in Pcb /\ Numbers(q, p) /\ q.state = st /\ Fewer(q, p)
      BY <2>1, <2>2, PurgedIs
    <2> QED  BY <2>2, <2>3 DEF q
  <1>3. CASE a.fin /\ p.state = "FIN_WAIT_1" /\ ~done
    <2>1. q = [p EXCEPT !.state = "CLOSING"]
      BY <1>3 DEF NextState
    <2> DEFINE st == "CLOSING"
    <2>2. st \in SenderStates /\ st \notin Open /\ st \notin Waits /\ p.state \notin Open
      BY <1>3 DEF SenderStates, Open, Waits
    <2> HIDE DEF q
    <2>3. q \in Pcb /\ Numbers(q, p) /\ SameQueues(q, p) /\ q.state = st /\ Fewer(q, p)
      BY <1>w, <2>1, <2>2
    <2> QED  BY <2>2, <2>3 DEF q
  <1>4. CASE ~a.fin /\ p.state = "FIN_WAIT_1" /\ done
    <2>1. q = [p EXCEPT !.state = "FIN_WAIT_2"]
      BY <1>4 DEF NextState
    <2> DEFINE st == "FIN_WAIT_2"
    <2>2. st \in SenderStates /\ st \notin Open /\ p.state \in Waits /\ p.state \notin Open
      BY <1>4 DEF SenderStates, Open, Waits
    <2> HIDE DEF q
    <2>3. q \in Pcb /\ Numbers(q, p) /\ SameQueues(q, p) /\ q.state = st /\ Fewer(q, p)
      BY <1>w, <2>1, <2>2
    <2> QED  BY <1>4, <2>2, <2>3 DEF q
  <1>5. CASE a.fin /\ p.state = "FIN_WAIT_2"
    <2>1. q = Purged(p, "TIME_WAIT")
      BY <1>5 DEF NextState
    <2> DEFINE st == "TIME_WAIT"
    <2>2. st \in SenderStates /\ st \notin Open /\ st \notin Waits /\ p.state \notin Open
      BY <1>5 DEF SenderStates, Open, Waits
    <2> HIDE DEF q
    <2>3. q \in Pcb /\ Numbers(q, p) /\ q.state = st /\ Fewer(q, p)
      BY <2>1, <2>2, PurgedIs
    <2> QED  BY <2>2, <2>3 DEF q
  <1>6. CASE p.state = "CLOSING" /\ done
    <2>1. q = Purged(p, "TIME_WAIT")
      BY <1>6 DEF NextState
    <2> DEFINE st == "TIME_WAIT"
    <2>2. st \in SenderStates /\ st \notin Open /\ st \notin Waits /\ p.state \notin Open
      BY <1>6 DEF SenderStates, Open, Waits
    <2> HIDE DEF q
    <2>3. q \in Pcb /\ Numbers(q, p) /\ q.state = st /\ Fewer(q, p)
      BY <2>1, <2>2, PurgedIs
    <2> QED  BY <2>2, <2>3 DEF q
  <1>7. CASE p.state = "LAST_ACK" /\ done
    <2>1. q = Purged(p, "GONE")
      BY <1>7 DEF NextState
    <2> DEFINE st == "GONE"
    <2>2. st \in SenderStates /\ st \notin Open /\ st \notin Waits /\ p.state \notin Open
      BY <1>7 DEF SenderStates, Open, Waits
    <2> HIDE DEF q
    <2>3. q \in Pcb /\ Numbers(q, p) /\ q.state = st /\ Fewer(q, p)
      BY <2>1, <2>2, PurgedIs
    <2> QED  BY <2>2, <2>3 DEF q
  <1>8. CASE /\ ~(a.fin /\ p.state = "ESTABLISHED") /\ ~(a.fin /\ p.state = "FIN_WAIT_1")
             /\ ~(~a.fin /\ p.state = "FIN_WAIT_1" /\ done) /\ ~(a.fin /\ p.state = "FIN_WAIT_2")
             /\ ~(p.state = "CLOSING" /\ done) /\ ~(p.state = "LAST_ACK" /\ done)
    <2>1. q = p
      BY <1>8 DEF NextState
    <2>2. p.state \in Waits => ~a.fin
      BY <1>8 DEF Waits
    <2> HIDE DEF q
    <2> QED  BY <2>1, <2>2 DEF Numbers, Windows, SameQueues, Fewer, q
  <1> QED  BY <1>0, <1>1, <1>2, <1>3, <1>4, <1>5, <1>6, <1>7, <1>8

\* tcp_close: the FIN is the last of what was written.
LEMMA ClosedIs ==
  ASSUME NEW p \in Pcb, CanFin(p), p.state \in Open, InLine(p)
  PROVE  LET q == Closed(p)
         IN /\ q \in Pcb /\ q.unacked = p.unacked /\ q.lastack = p.lastack /\ Windows(q, p)
            /\ q.state \notin Open /\ (q.state \in Waits => p.state \in Waits)
            /\ \A s \in ElementsOf(q.unsent) : s \in Segments /\ SegLen(s) > 0 /\ Upper(s) <= p.snd_lbb
                                               /\ (s.fin => Upper(s) = p.snd_lbb)
  <1> DEFINE f == FinQueued(p)
             st == IF p.state = "ESTABLISHED" THEN "FIN_WAIT_1" ELSE "LAST_ACK"
             q == Closed(p)
             g == p.flags \cup {"FIN"}
  <1>1. /\ p.unsent \in Seq(Segments) /\ p.unacked \in Seq(Segments) /\ p.snd_lbb \in Nat /\ p.snd_buf \in Nat
        /\ p.flags \in FlagSet /\ p.lastack \in Nat /\ p.state \in SenderStates
    BY DEF Pcb
  <1>2. g \in FlagSet
    BY <1>1 DEF FlagSet
  <1>3. st \in SenderStates /\ st \notin Open /\ (st \in Waits => p.state \in Waits)
    BY DEF SenderStates, Open, Waits
  <1> DEFINE Good1(v) == \A s \in ElementsOf(v) : s \in Segments /\ SegLen(s) > 0 /\ Upper(s) <= p.snd_lbb
                                               /\ (s.fin => Upper(s) = p.snd_lbb)
  <1>4. f \in Pcb /\ f.unacked = p.unacked /\ f.lastack = p.lastack /\ Windows(f, p) /\ f.state = p.state
        /\ Good1(f.unsent)
    <2>1. CASE p.unsent # <<>>
      <3> DEFINE v == p.unsent
                 n == Len(v)
                 t == [v[n] EXCEPT !.fin = TRUE]
                 w == [v EXCEPT ![n] = t]
                 z == p.snd_lbb
      <3>1. f = [p EXCEPT !.unsent = w, !.flags = g]
        BY <2>1 DEF FinQueued
      <3>2. v \in Seq(Segments) /\ n \in Nat \ {0} /\ n \in 1 .. n /\ DOMAIN v = 1 .. n /\ v[n] \in Segments
        BY <1>1, <2>1
      <3>3. t \in Segments /\ t.seq = v[n].seq /\ t.len = v[n].len /\ t.fin = TRUE
        BY <3>2 DEF Segments
      <3>p. /\ p.unacked \in Seq(Segments) /\ p.lastack \in Nat /\ mss_local(p) \in Nat
            /\ Line(p.unacked \o v, p.lastack, z, mss_local(p)) /\ z \in Nat
        BY <1>1, LocalIs DEF InLine
      <3> HIDE DEF v, n, t, w, z, g, f
      <3>4. w \in Seq(Segments) /\ Len(w) = n /\ \A i \in 1 .. n : w[i] = IF i = n THEN t ELSE v[i]
        <4>1. w \in [1 .. n -> Segments]
          <5>1. \A i \in 1 .. n : v[i] \in Segments
            BY <3>2 DEF n
          <5> QED  BY <3>2, <3>3, <5>1 DEF w
        <4>2. \A i \in 1 .. n : w[i] = IF i = n THEN t ELSE v[i]
          BY <3>2 DEF w
        <4> QED  BY <3>2, <4>1, <4>2
      <3>5. f \in Pcb
        BY <1>2, <3>1, <3>4 DEF Pcb, g
      <3>6. f.unacked = p.unacked /\ f.lastack = p.lastack /\ Windows(f, p) /\ f.state = p.state /\ f.unsent = w
        BY <3>1 DEF Pcb, Windows
      <3>7. PICK x \in Nat : x <= p.lastack /\ Chain(p.unacked \o v, x, z, mss_local(p))
        BY <3>p DEF Line
      <3>8. PICK y \in Nat : Chain(v, y, z, mss_local(p))
        BY <3>2, <3>p, <3>7, ChainsPart
      <3>9. Upper(v[n]) = z
        BY <2>1, <3>8 DEF Chain, n, v
      <3>10. ASSUME NEW i \in 1 .. n PROVE v[i].len \in Nat /\ v[i].seq \in Nat /\ v[i].len > 0 /\ ~v[i].fin /\ Upper(v[i]) <= z
        <4>1. v[i].len \in 1 .. mss_local(p) /\ ~v[i].fin /\ Upper(v[i]) <= z
          BY <3>8 DEF Chain, n
        <4>2. v[i] \in Segments
          BY <3>2 DEF n
        <4>3. v[i].len \in Nat /\ v[i].seq \in Nat
          BY <4>2, UpperIs
        <4> QED  BY <3>p, <4>1, <4>3
      <3>11. ASSUME NEW s \in ElementsOf(w)
             PROVE  s \in Segments /\ SegLen(s) > 0 /\ Upper(s) <= z /\ (s.fin => Upper(s) = z)
        <4>1. PICK i \in 1 .. n : s = w[i]
          BY <3>4 DEF ElementsOf
        <4>2. CASE i = n
          <5>1. s = t
            BY <3>4, <4>1, <4>2
          <5>2. Upper(t) = z
            BY <3>3, <3>9 DEF Upper
          <5>3. SegLen(t) > 0
            <6>1. v[n].len \in Nat
              BY <3>2, <3>10
            <6>2. t.len \in Nat /\ t.fin
              BY <3>3, <6>1
            <6> QED  BY <6>2 DEF SegLen
          <5> QED  BY <3>3, <3>p, <5>1, <5>2, <5>3
        <4>3. CASE i # n
          <5>1. s = v[i]
            BY <3>4, <4>1, <4>3
          <5>2. v[i].len \in Nat /\ v[i].len > 0 /\ ~v[i].fin /\ Upper(v[i]) <= z
            BY <3>10
          <5>3. SegLen(v[i]) > 0
            BY <5>2 DEF SegLen
          <5>4. v[i] \in Segments
            BY <3>2 DEF n
          <5> QED  BY <5>1, <5>2, <5>3, <5>4
        <4> QED  BY <4>2, <4>3
      <3> QED  BY <3>5, <3>6, <3>11 DEF z
    <2>2. CASE p.unsent = <<>>
      <3> DEFINE z == p.snd_lbb
                 s1 == [seq |-> z, len |-> 0, fin |-> TRUE]
                 v == <<s1>>
                 l == z + 1
                 b == p.snd_buf - 1
      <3>1. f = [p EXCEPT !.unsent = v, !.snd_lbb = l, !.snd_buf = b, !.flags = g]
        BY <2>2 DEF FinQueued
      <3>2. l \in Nat /\ b \in Nat /\ z \in Nat
        BY <1>1, <2>2 DEF CanFin
      <3>3. s1 \in Segments /\ s1.seq = z /\ s1.len = 0 /\ s1.fin = TRUE
        BY <3>2 DEF Segments
      <3> HIDE DEF s1
      <3>4. v \in Seq(Segments) /\ ElementsOf(v) = {s1}
        <4>1. v \in Seq(Segments) /\ DOMAIN v = {1} /\ v[1] = s1
          BY <3>3
        <4> QED  BY <4>1 DEF ElementsOf
      <3> HIDE DEF v, l, b, g, f, z
      <3>5. f \in Pcb
        BY <1>2, <3>1, <3>2, <3>4 DEF Pcb, g
      <3>6. f.unacked = p.unacked /\ f.lastack = p.lastack /\ Windows(f, p) /\ f.state = p.state /\ f.unsent = v
        BY <3>1 DEF Pcb, Windows
      <3>7. SegLen(s1) > 0 /\ Upper(s1) = z
        BY <3>2, <3>3 DEF SegLen, Upper
      <3>8. Good1(v)
        BY <3>2, <3>3, <3>4, <3>7 DEF z
      <3> QED  BY <3>5, <3>6, <3>8
    <2> QED  BY <2>1, <2>2
  <1>5. q = [f EXCEPT !.state = st]
    <2>1. q = [f EXCEPT !.state = IF f.state = "ESTABLISHED" THEN "FIN_WAIT_1" ELSE "LAST_ACK"]
      BY DEF Closed
    <2> HIDE DEF f
    <2> QED  BY <1>4, <2>1
  <1> HIDE DEF f, st, q, Good1
  <1>6. q \in Pcb /\ Numbers(q, f) /\ SameQueues(q, f) /\ q.state = st
    BY <1>3, <1>4, <1>5, StateIs
  <1>7. q.unacked = p.unacked /\ q.lastack = p.lastack /\ Windows(q, p) /\ q.unsent = f.unsent
    BY <1>4, <1>6 DEF Numbers, SameQueues, Windows
  <1>8. Good1(q.unsent)
    BY <1>4, <1>7
  <1> QED  BY <1>3, <1>6, <1>7, <1>8 DEF q, Good1

\* The time-out: all that is not acknowledged is unsent again.
LEMMA RtoIs ==
  ASSUME NEW p \in Pcb
  PROVE  LET q == tcp_rexmit_rto(p)
         IN /\ q \in Pcb /\ Base(q, p) /\ Windows(q, p) /\ q.lastack = p.lastack /\ q.snd_buf = p.snd_buf
            /\ q.unacked = <<>> /\ q.unsent = p.unacked \o p.unsent
  <1> DEFINE q == tcp_rexmit_rto(p)
             t == Ssthresh(p)
             c == p.mss
             v == p.unacked \o p.unsent
             e == << >>
             n == Again(p.nrtx)
  <1>1. q = [p EXCEPT !.ssthresh = t, !.cwnd = c, !.unsent = v, !.unacked = e, !.nrtx = n]
    BY DEF tcp_rexmit_rto
  <1>2. t \in Positive /\ c \in Nat
    BY SsthreshIs, LocalIs
  <1>3. v \in Seq(Segments) /\ e \in Seq(Segments)
    <2>1. p.unsent \in Seq(Segments) /\ p.unacked \in Seq(Segments)
      BY DEF Pcb
    <2> QED  BY <2>1
  <1>4. n \in Octet
    <2> DEFINE k == p.nrtx
    <2>1. k \in Octet
      BY DEF Pcb
    <2>2. Octet \subseteq Nat
      BY DEF Octet
    <2>3. k \in Nat
      BY <2>1, <2>2
    <2> HIDE DEF k
    <2>4. (k + 1) % 256 \in 0 .. 255
      BY <2>3
    <2> QED  BY <2>4 DEF Again, Octet, k
  <1> HIDE DEF q, t, c, v, e, n
  <1>5. q \in Pcb
    BY <1>1, <1>2, <1>3, <1>4 DEF Pcb
  <1>6. /\ Base(q, p) /\ Windows(q, p) /\ q.lastack = p.lastack /\ q.snd_buf = p.snd_buf
        /\ q.unacked = e /\ q.unsent = v
    BY <1>1 DEF Pcb, Base, Windows
  <1> QED  BY <1>5, <1>6 DEF q, e, v

\* The queue that holds nothing.
LEMMA NoElements ==
  /\ ElementsOf(<< >>) = {}
  /\ \A a \in Seq(Segments) : ElementsOf(a) = {} => a = << >>
  <1>1. ElementsOf(<< >>) = {}
    BY DEF ElementsOf
  <1>2. ASSUME NEW a \in Seq(Segments), a # << >> PROVE ElementsOf(a) # {}
    <2>1. 1 \in DOMAIN a
      BY <1>2
    <2> QED  BY <2>1 DEF ElementsOf
  <1> QED  BY <1>1, <1>2

\* What was heard of stays so.
LEMMA HeardOutput ==
  ASSUME NEW p \in Pcb, \A s \in ElementsOf(p.unsent) : SegLen(s) > 0, NEW x \in Nat, Heard(p, x)
  PROVE  Heard(tcp_output(p), x)
  <1> DEFINE q == tcp_output(p)
             n == SentNow(p)
  <1>1. /\ n \in 0 .. Len(p.unsent) /\ SegmentsOf(p) = SubSeq(p.unsent, 1, n)
        /\ q.unsent = SubSeq(p.unsent, n + 1, Len(p.unsent))
        /\ q.unacked = Placed(p.unacked, SegmentsOf(p))
        /\ p.snd_nxt <= q.snd_nxt /\ q \in Pcb
        /\ \A i \in 1 .. n : p.unsent[i].seq + SegLen(p.unsent[i]) <= q.snd_nxt
    BY OutputIs
  <1>2. p.unsent \in Seq(Segments) /\ p.unacked \in Seq(Segments) /\ p.snd_nxt \in Nat /\ q.snd_nxt \in Nat
    BY <1>1 DEF Pcb
  <1> HIDE DEF q, n
  <1>3. CASE x <= p.snd_nxt
    BY <1>1, <1>2, <1>3 DEF Heard, q
  <1>4. CASE p.unacked = <<>> /\ p.unsent # <<>> /\ x <= p.unsent[1].seq + 1
    <2>1. 1 \in DOMAIN p.unsent /\ p.unsent[1] \in Segments /\ p.unsent[1] \in ElementsOf(p.unsent)
      <3>1. 1 \in DOMAIN p.unsent
        BY <1>2, <1>4
      <3> QED  BY <1>2, <3>1 DEF ElementsOf
    <2>2. p.unsent[1].seq \in Nat /\ SegLen(p.unsent[1]) \in Nat /\ SegLen(p.unsent[1]) > 0
      BY <2>1, UpperIs
    <2>3. CASE n = 0
      <3>1. q.unsent = p.unsent /\ SegmentsOf(p) = <<>>
        BY <1>1, <1>2, <2>3
      <3>2. q.unacked = <<>>
        <4>1. ElementsOf(q.unacked) = ElementsOf(p.unacked) \cup ElementsOf(SegmentsOf(p))
          BY OutputMoves DEF q
        <4>2. ElementsOf(p.unacked) = {} /\ ElementsOf(SegmentsOf(p)) = {}
          BY <1>4, <3>1, NoElements
        <4>3. ElementsOf(q.unacked) = {} /\ q.unacked \in Seq(Segments)
          BY <1>1, <4>1, <4>2 DEF Pcb
        <4> QED  BY <4>3, NoElements
      <3> QED  BY <1>4, <3>1, <3>2 DEF Heard, q
    <2>4. CASE n # 0
      <3>1. 1 \in 1 .. n
        BY <1>1, <1>2, <2>4
      <3>2. p.unsent[1].seq + SegLen(p.unsent[1]) <= q.snd_nxt
        BY <1>1, <3>1
      <3> QED  BY <1>2, <1>4, <2>2, <3>2 DEF Heard, q
    <2> QED  BY <2>3, <2>4
  <1> QED  BY <1>3, <1>4 DEF Heard

\* The peer.
PeerRec == [rcv : Nat, read : Nat, fin : BOOLEAN, closed : BOOLEAN]
PeerOK(pe) == pe \in PeerRec /\ pe.read <= pe.rcv /\ pe.rcv <= pe.read + PeerBuf

\* 1 for a FIN.
Bit(b) == IF b THEN 1 ELSE 0

\* An acknowledgment or a window x says no more than what the peer has now.
Told(x, pe) ==
    /\ x.seq <= Bit(pe.closed) /\ x.ack <= pe.rcv + Bit(pe.fin)
    /\ RightEdge(x) <= pe.read + PeerBuf + Bit(pe.fin)

\* The acknowledgments A on the way, the window that counts and what is acknowledged.
Ordered(A, p, pe) ==
    /\ \A x \in A : Told(x, pe) /\ Precedes(x, Now(p)) /\ Precedes(Now(p), x)
    /\ \A x, y \in A : Precedes(x, y)
    /\ Told(Now(p), pe) /\ p.lastack <= p.snd_wl2

\* The FIN of the peer is on the way until it is taken.
FinHeld(A, p, pe) ==
    /\ \A x \in A : x.fin <=> x.kind = "fin"
    /\ pe.closed /\ p.state \in Waits => \E x \in A : x.fin

\* Our FIN is behind all the others, and when the peer has it, it has them all.
Waiting(p) == ElementsOf(p.unacked) \cup ElementsOf(p.unsent)
LastFin(E, pe) ==
    /\ \A s \in E : SegLen(s) > 0
    /\ \A s, t \in E : s.fin => Upper(t) <= Upper(s)
    /\ pe.fin => \A t \in E : Upper(t) <= pe.rcv

\* What is unacknowledged fits in the window of the peer.
Within(p, pe) == \A s \in ElementsOf(p.unacked) : Upper(s) <= pe.read + PeerBuf

\* An open connection: what is on its way to the peer, and what the peer has.
OnTheWay(p, s) == s.len > 0 /\ ~s.fin /\ Upper(s) <= p.snd_lbb /\ Heard(p, Upper(s))
OpenSums(p, S, pe) ==
    /\ Sums(p) /\ (InLine(p) \/ Retransmits(p))
    /\ ~pe.fin /\ Heard(p, pe.rcv) /\ \A s \in S : OnTheWay(p, s)

\* The PCB before tcp_output, and at rest; S and A are on the way.
Ready(p, S, A, pe) ==
    /\ p \in Pcb /\ S \subseteq Segments /\ A \subseteq Ack /\ PeerOK(pe)
    /\ LastFin(Waiting(p) \cup S, pe)
    /\ Ordered(A, p, pe) /\ FinHeld(A, p, pe) /\ Within(p, pe)
    /\ p.state \in Open => OpenSums(p, S, pe)
Sound(p, S, A, pe) == Ready(p, S, A, pe) /\ (p.state \in Open => InLine(p))

\* What is queued are segments.
LEMMA QueuedIs ==
  ASSUME NEW p \in Pcb
  PROVE  Waiting(p) \subseteq Segments
  <1>1. p.unacked \in Seq(Segments) /\ p.unsent \in Seq(Segments)
    BY DEF Pcb
  <1>2. ASSUME NEW a \in Seq(Segments) PROVE ElementsOf(a) \subseteq Segments
    BY DEF ElementsOf
  <1> QED  BY <1>1, <1>2 DEF Waiting

\* With fewer segments about, LastFin stays.
LEMMA LastFinFewer ==
  ASSUME NEW E, NEW F, F \subseteq E, NEW pe, LastFin(E, pe)
  PROVE  LastFin(F, pe)
  BY DEF LastFin

\* What tcp_output makes of it.
LEMMA OutputSound ==
  ASSUME NEW p, NEW S, NEW A, NEW pe, Ready(p, S, A, pe)
  PROVE  Sound(tcp_output(p), S \cup ElementsOf(SegmentsOf(p)), A, pe)
  <1> DEFINE q == tcp_output(p)
             out == ElementsOf(SegmentsOf(p))
             T == S \cup out
  <1>1. /\ p \in Pcb /\ S \subseteq Segments /\ A \subseteq Ack /\ PeerOK(pe)
        /\ LastFin(Waiting(p) \cup S, pe)
        /\ Ordered(A, p, pe) /\ FinHeld(A, p, pe) /\ Within(p, pe)
        /\ p.state \in Open => OpenSums(p, S, pe)
    BY DEF Ready
  <1>2. q \in Pcb /\ Untouched(q, p)
    BY <1>1, OutputIs
  <1>3. /\ SegmentsOf(p) \in Seq(Segments) /\ out \subseteq ElementsOf(p.unsent)
        /\ ElementsOf(q.unacked) = ElementsOf(p.unacked) \cup out
        /\ ElementsOf(p.unsent) = ElementsOf(q.unsent) \cup out
        /\ \A s \in out : Upper(s) <= p.lastack + p.snd_wnd /\ s.seq + SegLen(s) <= q.snd_nxt
    BY <1>1, OutputMoves
  <1>4. /\ q.state = p.state /\ q.lastack = p.lastack /\ q.snd_lbb = p.snd_lbb /\ q.snd_wnd = p.snd_wnd
        /\ q.snd_wl1 = p.snd_wl1 /\ q.snd_wl2 = p.snd_wl2
    BY <1>2 DEF Untouched
  <1>5. Waiting(p) \subseteq Segments
    BY <1>1, QueuedIs
  <1> DEFINE E == Waiting(p) \cup S
  <1> HIDE DEF q, out
  <1>6. Waiting(q) \cup T \subseteq E /\ out \subseteq E /\ T \subseteq Segments /\ out \subseteq ElementsOf(p.unsent)
    BY <1>1, <1>3, <1>5 DEF Waiting
  <1> HIDE DEF E
  <1>7. LastFin(Waiting(q) \cup T, pe)
    <2>1. LastFin(E, pe)
      BY <1>1 DEF E
    <2> QED  BY <1>6, <2>1, LastFinFewer
  <1>8. Now(q) = Now(p)
    BY <1>4 DEF Now
  <1>9. Ordered(A, q, pe) /\ FinHeld(A, q, pe)
    BY <1>1, <1>4, <1>8 DEF Ordered, FinHeld
  <1>10. ASSUME NEW s \in out PROVE Upper(s) <= pe.read + PeerBuf
    <2>1. s \in Segments /\ s \in E
      BY <1>6, <1>10
    <2>2. Upper(s) \in Nat
      BY <2>1, UpperIs
    <2>3. {p.lastack, p.snd_wnd, p.snd_wl2} \subseteq Nat /\ PeerBuf \in Nat
      BY <1>1, SendAssumption DEF Pcb
    <2>4. pe.read \in Nat /\ pe.rcv \in Nat /\ pe.rcv <= pe.read + PeerBuf
      BY <1>1 DEF PeerOK, PeerRec
    <2>5. Upper(s) <= p.lastack + p.snd_wnd
      BY <1>3, <1>10
    <2>6. p.lastack <= p.snd_wl2 /\ p.snd_wl2 + p.snd_wnd <= pe.read + PeerBuf + Bit(pe.fin)
      BY <1>1 DEF Ordered, Told, Now, RightEdge
    <2>7. CASE pe.fin
      <3>1. Upper(s) <= pe.rcv
        BY <1>1, <2>1, <2>7 DEF LastFin, E
      <3> QED  BY <2>2, <2>3, <2>4, <3>1
    <2>8. CASE ~pe.fin
      <3>1. Bit(pe.fin) = 0
        BY <2>8 DEF Bit
      <3> QED  BY <2>2, <2>3, <2>4, <2>5, <2>6, <3>1
    <2> QED  BY <2>7, <2>8
  <1>11. Within(q, pe)
    BY <1>1, <1>3, <1>10 DEF Within
  <1>12. ASSUME q.state \in Open PROVE InLine(q) /\ OpenSums(q, T, pe)
    <2>1. /\ Sums(p) /\ (InLine(p) \/ Retransmits(p))
          /\ ~pe.fin /\ Heard(p, pe.rcv) /\ \A s \in S : OnTheWay(p, s)
      BY <1>1, <1>4, <1>12 DEF OpenSums
    <2>2. OpenPcb(q)
      BY <1>1, <2>1, OutputOpen DEF q
    <2>3. \A s \in ElementsOf(p.unsent) : SegLen(s) > 0
      BY <1>1 DEF LastFin, Waiting
    <2>4. \A x \in Nat : Heard(p, x) => Heard(q, x)
      BY <1>1, <2>3, HeardOutput DEF q
    <2>5. Heard(q, pe.rcv)
      <3>1. pe.rcv \in Nat
        BY <1>1 DEF PeerOK, PeerRec
      <3> QED  BY <2>1, <2>4, <3>1
    <2>6. ASSUME NEW s \in S PROVE OnTheWay(q, s)
      <3>1. s \in Segments
        BY <1>1
      <3>2. Upper(s) \in Nat
        BY <3>1, UpperIs
      <3> QED  BY <1>4, <2>1, <2>4, <3>2 DEF OnTheWay
    <2>7. ASSUME NEW s \in out PROVE OnTheWay(q, s)
      <3>1. s \in ElementsOf(q.unacked \o q.unsent)
        <4>1. q.unacked \in Seq(Segments) /\ q.unsent \in Seq(Segments)
          BY <1>2 DEF Pcb
        <4> QED  BY <1>3, <4>1, TogetherHas
      <3>2. /\ Line(q.unacked \o q.unsent, q.lastack, q.snd_lbb, mss_local(q)) /\ q.unacked \o q.unsent \in Seq(Segments)
            /\ q.lastack \in Nat /\ q.snd_lbb \in Nat /\ mss_local(q) \in Nat
        <4>1. q.unacked \in Seq(Segments) /\ q.unsent \in Seq(Segments) /\ q.lastack \in Nat /\ q.snd_lbb \in Nat
          BY <1>2 DEF Pcb
        <4> QED  BY <1>2, <2>2, <4>1, LocalIs DEF OpenPcb, InLine
      <3>3. s \in Segments /\ s.len \in 1 .. mss_local(q) /\ ~s.fin /\ Upper(s) <= q.snd_lbb /\ s.seq + SegLen(s) = Upper(s)
        BY <3>1, <3>2, LineHas
      <3>4. Upper(s) <= q.snd_nxt
        BY <1>3, <3>3
      <3>5. s.len > 0
        BY <3>2, <3>3
      <3> QED  BY <3>3, <3>4, <3>5 DEF OnTheWay, Heard
    <2> QED  BY <2>1, <2>2, <2>5, <2>6, <2>7 DEF OpenPcb, OpenSums
  <1> QED  BY <1>1, <1>2, <1>6, <1>7, <1>9, <1>11, <1>12 DEF Ready, Sound, q, out

\* An open connection has no FIN yet.
LEMMA OpenHasNoFin ==
  ASSUME NEW E, NEW pe, ~pe.fin, \A s \in E : SegLen(s) > 0 /\ ~s.fin
  PROVE  LastFin(E, pe)
  BY DEF LastFin

\* Segments in line hold bytes and no FIN.
LEMMA PlainSegments ==
  ASSUME NEW p \in Pcb, InLine(p)
  PROVE  \A s \in Waiting(p) : s \in Segments /\ SegLen(s) > 0 /\ ~s.fin /\ Upper(s) <= p.snd_lbb
  <1>1. /\ p.unacked \in Seq(Segments) /\ p.unsent \in Seq(Segments) /\ p.lastack \in Nat /\ p.snd_lbb \in Nat
        /\ mss_local(p) \in Nat
    BY LocalIs DEF Pcb
  <1>2. Line(p.unacked \o p.unsent, p.lastack, p.snd_lbb, mss_local(p)) /\ p.unacked \o p.unsent \in Seq(Segments)
        /\ Waiting(p) = ElementsOf(p.unacked \o p.unsent)
    BY <1>1, TogetherHas DEF InLine, Waiting
  <1>3. ASSUME NEW s \in Waiting(p)
        PROVE  s \in Segments /\ SegLen(s) > 0 /\ ~s.fin /\ Upper(s) <= p.snd_lbb
    <2>1. s \in Segments /\ s.len \in 1 .. mss_local(p) /\ ~s.fin /\ Upper(s) <= p.snd_lbb
      BY <1>1, <1>2, LineHas
    <2>2. SegLen(s) > 0
      BY <1>1, <2>1 DEF SegLen
    <2> QED  BY <2>1, <2>2
  <1> QED  BY <1>3

\* tcp_write.
LEMMA WriteReady ==
  ASSUME NEW p, NEW S, NEW A, NEW pe, Sound(p, S, A, pe), p.state \in Open, NEW n \in Nat \ {0}, n <= p.snd_buf
  PROVE  Sound(Written(p, n), S, A, pe)
  <1> DEFINE q == Written(p, n)
  <1>1. /\ p \in Pcb /\ S \subseteq Segments /\ A \subseteq Ack /\ PeerOK(pe)
        /\ LastFin(Waiting(p) \cup S, pe)
        /\ Ordered(A, p, pe) /\ FinHeld(A, p, pe) /\ Within(p, pe)
        /\ OpenSums(p, S, pe) /\ InLine(p)
    BY DEF Ready, Sound
  <1>2. OpenPcb(p)
    BY <1>1 DEF OpenPcb, OpenSums
  <1>3. /\ q \in Pcb /\ q.unacked = p.unacked /\ q.unsent = Enqueued(p, n) /\ q.snd_nxt = p.snd_nxt
        /\ q.mss = p.mss /\ q.state = p.state /\ q.snd_lbb = p.snd_lbb + n
        /\ q.lastack = p.lastack /\ q.snd_wnd = p.snd_wnd /\ q.snd_wl1 = p.snd_wl1 /\ q.snd_wl2 = p.snd_wl2
    BY <1>1, WrittenIs
  <1>4. OpenPcb(q)
    BY <1>1, <1>2, WrittenOpen
  <1>5. Enqueued(p, n) \in Seq(Segments) /\ Starts(Enqueued(p, n), p.unsent)
    BY <1>1, EnqueuedIs
  <1> HIDE DEF q
  <1>6. \A s \in Waiting(q) : s \in Segments /\ SegLen(s) > 0 /\ ~s.fin
    BY <1>3, <1>4, PlainSegments DEF OpenPcb
  <1>7. LastFin(Waiting(q) \cup S, pe)
    <2>1. \A s \in S : SegLen(s) > 0 /\ ~s.fin
      BY <1>1 DEF LastFin, OpenSums, OnTheWay
    <2>2. \A s \in Waiting(q) \cup S : SegLen(s) > 0 /\ ~s.fin
      BY <1>6, <2>1
    <2> QED  BY <1>1, <2>2, OpenHasNoFin DEF OpenSums
  <1>8. Now(q) = Now(p)
    BY <1>3 DEF Now
  <1>9. Ordered(A, q, pe) /\ FinHeld(A, q, pe) /\ Within(q, pe)
    BY <1>1, <1>3, <1>8 DEF Ordered, FinHeld, Within
  <1>10. ASSUME NEW x \in Nat, Heard(p, x) PROVE Heard(q, x)
    <2>1. CASE x <= p.snd_nxt
      BY <1>3, <2>1 DEF Heard
    <2>2. CASE p.unacked = <<>> /\ p.unsent # <<>> /\ x <= p.unsent[1].seq + 1
      <3>1. q.unsent # <<>> /\ q.unsent[1].seq = p.unsent[1].seq
        BY <1>3, <1>5, <2>2 DEF Starts
      <3> QED  BY <1>3, <2>2, <3>1 DEF Heard
    <2> QED  BY <1>10, <2>1, <2>2 DEF Heard
  <1>11. ASSUME NEW s \in S PROVE OnTheWay(q, s)
    <2>1. s \in Segments
      BY <1>1
    <2>2. Upper(s) \in Nat /\ p.snd_lbb \in Nat
      BY <1>1, <2>1, UpperIs DEF Pcb
    <2>3. OnTheWay(p, s)
      BY <1>1 DEF OpenSums
    <2> QED  BY <1>3, <1>10, <2>2, <2>3 DEF OnTheWay
  <1>12. OpenSums(q, S, pe)
    <2>1. pe.rcv \in Nat
      BY <1>1 DEF PeerOK, PeerRec
    <2> QED  BY <1>1, <1>4, <1>10, <1>11, <2>1 DEF OpenSums, OpenPcb
  <1> QED  BY <1>1, <1>3, <1>4, <1>7, <1>9, <1>12 DEF Ready, Sound, OpenPcb, q

\* tcp_close.
LEMMA CloseReady ==
  ASSUME NEW p, NEW S, NEW A, NEW pe, Sound(p, S, A, pe), p.state \in Open, CanFin(p)
  PROVE  Ready(Closed(p), S, A, pe)
  <1> DEFINE q == Closed(p)
  <1>1. /\ p \in Pcb /\ S \subseteq Segments /\ A \subseteq Ack /\ PeerOK(pe)
        /\ LastFin(Waiting(p) \cup S, pe)
        /\ Ordered(A, p, pe) /\ FinHeld(A, p, pe) /\ Within(p, pe)
        /\ OpenSums(p, S, pe) /\ InLine(p)
    BY DEF Ready, Sound
  <1>2. /\ q \in Pcb /\ q.unacked = p.unacked /\ q.lastack = p.lastack /\ Windows(q, p)
        /\ q.state \notin Open /\ (q.state \in Waits => p.state \in Waits)
        /\ \A s \in ElementsOf(q.unsent) : s \in Segments /\ SegLen(s) > 0 /\ Upper(s) <= p.snd_lbb
                                           /\ (s.fin => Upper(s) = p.snd_lbb)
    BY <1>1, ClosedIs
  <1>3. \A s \in Waiting(p) : s \in Segments /\ SegLen(s) > 0 /\ ~s.fin /\ Upper(s) <= p.snd_lbb
    BY <1>1, PlainSegments
  <1> HIDE DEF q
  <1>4. ASSUME NEW s \in Waiting(q) \cup S
        PROVE  SegLen(s) > 0 /\ Upper(s) <= p.snd_lbb /\ (s.fin => Upper(s) = p.snd_lbb)
    <2>1. CASE s \in S
      BY <1>1, <2>1 DEF LastFin, OpenSums, OnTheWay
    <2>2. CASE s \in ElementsOf(q.unsent)
      BY <1>2, <2>2
    <2>3. CASE s \in ElementsOf(p.unacked)
      BY <1>3, <2>3 DEF Waiting
    <2> QED  BY <1>2, <1>4, <2>1, <2>2, <2>3 DEF Waiting
  <1>5. LastFin(Waiting(q) \cup S, pe)
    <2>1. ~pe.fin
      BY <1>1 DEF OpenSums
    <2> QED  BY <1>4, <2>1 DEF LastFin
  <1>6. Now(q) = Now(p)
    BY <1>2 DEF Now, Windows
  <1>7. Ordered(A, q, pe) /\ FinHeld(A, q, pe) /\ Within(q, pe)
    BY <1>1, <1>2, <1>6 DEF Ordered, FinHeld, Within, Windows
  <1> QED  BY <1>1, <1>2, <1>5, <1>7 DEF Ready, q

\* tcp_slowtmr, when the time-out has come.
LEMMA RtoReady ==
  ASSUME NEW p, NEW S, NEW A, NEW pe, Sound(p, S, A, pe), p.unacked # <<>>
  PROVE  Ready(tcp_rexmit_rto(p), S, A, pe)
  <1> DEFINE q == tcp_rexmit_rto(p)
  <1>1. /\ p \in Pcb /\ S \subseteq Segments /\ A \subseteq Ack /\ PeerOK(pe)
        /\ LastFin(Waiting(p) \cup S, pe)
        /\ Ordered(A, p, pe) /\ FinHeld(A, p, pe) /\ Within(p, pe)
        /\ p.state \in Open => OpenSums(p, S, pe) /\ InLine(p)
    BY DEF Ready, Sound
  <1>2. /\ q \in Pcb /\ Base(q, p) /\ Windows(q, p) /\ q.lastack = p.lastack /\ q.snd_buf = p.snd_buf
        /\ q.unacked = <<>> /\ q.unsent = p.unacked \o p.unsent
    BY <1>1, RtoIs
  <1>3. p.unacked \in Seq(Segments) /\ p.unsent \in Seq(Segments)
    BY <1>1 DEF Pcb
  <1> HIDE DEF q
  <1>4. Waiting(q) = Waiting(p) /\ ElementsOf(q.unacked) = {}
    <2>1. ElementsOf(p.unacked \o p.unsent) = ElementsOf(p.unacked) \cup ElementsOf(p.unsent)
      BY <1>3, TogetherHas
    <2> QED  BY <1>2, <2>1, NoElements DEF Waiting
  <1>5. Now(q) = Now(p) /\ q.state = p.state
    BY <1>2 DEF Now, Windows, Base
  <1>6. Ordered(A, q, pe) /\ FinHeld(A, q, pe) /\ Within(q, pe)
    BY <1>1, <1>2, <1>4, <1>5 DEF Ordered, FinHeld, Within, Windows
  <1>7. ASSUME p.state \in Open PROVE OpenSums(q, S, pe)
    <2>1. OpenSums(p, S, pe) /\ InLine(p)
      BY <1>1, <1>7
    <2>2. q.unacked \o q.unsent = p.unacked \o p.unsent
      BY <1>2, <1>3
    <2>3. q.lastack = p.lastack /\ q.snd_lbb = p.snd_lbb /\ mss_local(q) = mss_local(p) /\ q.snd_nxt = p.snd_nxt
      BY <1>2 DEF Base, mss_local
    <2>4. InLine(q)
      BY <2>1, <2>2, <2>3 DEF InLine
    <2>5. Sums(q)
      BY <1>2, <1>4, <2>1, <2>3 DEF Sums, OpenSums
    <2>6. \A x \in Nat : Heard(p, x) => Heard(q, x)
      BY <2>3 DEF Heard
    <2>7. ASSUME NEW s \in S PROVE OnTheWay(q, s)
      <3>1. s \in Segments
        BY <1>1
      <3>2. Upper(s) \in Nat
        BY <3>1, UpperIs
      <3>3. OnTheWay(p, s)
        BY <2>1 DEF OpenSums
      <3> QED  BY <2>3, <2>6, <3>2, <3>3 DEF OnTheWay
    <2>8. pe.rcv \in Nat
      BY <1>1 DEF PeerOK, PeerRec
    <2> QED  BY <2>1, <2>4, <2>5, <2>6, <2>7, <2>8 DEF OpenSums
  <1> QED  BY <1>1, <1>2, <1>4, <1>5, <1>6, <1>7 DEF Ready, q

\* What lies below a number the peer may have reached, it may have reached too.
LEMMA HeardBelow ==
  ASSUME NEW p \in Pcb, NEW x \in Nat, NEW y \in Nat, y <= x, Heard(p, x)
  PROVE  Heard(p, y)
  <1>1. p.snd_nxt \in Nat /\ p.unsent \in Seq(Segments)
    BY DEF Pcb
  <1>2. CASE x <= p.snd_nxt
    BY <1>1, <1>2 DEF Heard
  <1>3. CASE p.unacked = <<>> /\ p.unsent # <<>> /\ x <= p.unsent[1].seq + 1
    <2>1. p.unsent[1] \in Segments
      BY <1>1, <1>3
    <2>2. p.unsent[1].seq \in Nat
      BY <2>1, UpperIs
    <2> QED  BY <1>3, <2>2 DEF Heard
  <1> QED  BY <1>2, <1>3 DEF Heard

\* An open connection stays one when only its state among its fields changes.
LEMMA SameOpen ==
  ASSUME NEW p \in Pcb, NEW q \in Pcb, Numbers(q, p), SameQueues(q, p), Sums(p), InLine(p) \/ Retransmits(p)
  PROVE  /\ Sums(q) /\ (InLine(q) \/ Retransmits(q))
         /\ \A x \in Nat : Heard(p, x) => Heard(q, x)
  <1>1. /\ q.mss = p.mss /\ q.snd_lbb = p.snd_lbb /\ q.snd_nxt = p.snd_nxt /\ q.snd_buf = p.snd_buf
        /\ q.lastack = p.lastack /\ q.snd_wnd = p.snd_wnd /\ q.flags = p.flags /\ q.cwnd = p.cwnd
        /\ q.unacked = p.unacked /\ q.unsent = p.unsent
    BY DEF Numbers, SameQueues, Windows
  <1>2. mss_local(q) = mss_local(p)
    BY <1>1 DEF mss_local
  <1>3. Sums(q)
    BY <1>1 DEF Sums
  <1>4. ASSUME InLine(p) PROVE InLine(q)
    BY <1>1, <1>2, <1>4 DEF InLine
  <1>5. ASSUME Retransmits(p) PROVE Retransmits(q)
    <2>1. PICK h, w : FirstAgain(p, h, w)
      BY <1>5 DEF Retransmits
    <2>2. InWindows(p, h) => InWindows(q, h)
      BY <1>1 DEF InWindows
    <2>3. FirstAgain(q, h, w)
      BY <1>1, <1>2, <2>1, <2>2 DEF FirstAgain
    <2> QED  BY <2>3 DEF Retransmits
  <1>6. \A x \in Nat : Heard(p, x) => Heard(q, x)
    BY <1>1 DEF Heard
  <1> QED  BY <1>3, <1>4, <1>5, <1>6

\* tcp_input for an acknowledgment, up to tcp_output.
LEMMA AckReady ==
  ASSUME NEW p, NEW S, NEW A, NEW pe, Sound(p, S, A, pe), NEW a \in A, NEW B, B \subseteq A,
         \A x \in A : x \in B \/ x = a
  PROVE  Ready(NextState(Acked(p, a), a), S, B, pe)
  <1> DEFINE q == Acked(p, a)
             r == NextState(q, a)
  <1>1. /\ p \in Pcb /\ S \subseteq Segments /\ A \subseteq Ack /\ PeerOK(pe) /\ a \in Ack
        /\ LastFin(Waiting(p) \cup S, pe)
        /\ Ordered(A, p, pe) /\ FinHeld(A, p, pe) /\ Within(p, pe)
        /\ p.state \in Open => OpenSums(p, S, pe) /\ InLine(p)
    BY DEF Ready, Sound
  <1>2. /\ \A x \in A : Told(x, pe) /\ Precedes(x, Now(p)) /\ Precedes(Now(p), x)
        /\ \A x, y \in A : Precedes(x, y)
        /\ Told(Now(p), pe) /\ p.lastack <= p.snd_wl2
    BY <1>1 DEF Ordered
  <1>3. /\ q \in Pcb /\ Base(q, p) /\ Fewer(q, p) /\ q.lastack <= q.snd_wl2
        /\ Windows(q, p) \/ (q.snd_wnd = a.wnd /\ q.snd_wl1 = a.seq /\ q.snd_wl2 = a.ack)
    BY <1>1, <1>2, AckedIs
  <1> HIDE DEF q
  <1>4. /\ r \in Pcb /\ Numbers(r, q) /\ Fewer(r, q)
        /\ q.state \in Open => r.state \in Open /\ SameQueues(r, q)
        /\ q.state \notin Open => r.state \notin Open
        /\ r.state \in Waits => q.state \in Waits /\ ~a.fin
    BY <1>1, <1>3, NextStateIs
  <1> HIDE DEF r
  <1>5. q.state = p.state /\ r.lastack = q.lastack /\ r.snd_wl2 = q.snd_wl2 /\ Now(r) = Now(q)
    BY <1>3, <1>4 DEF Base, Numbers, Windows, Now
  <1>6. Waiting(r) \subseteq Waiting(p) /\ ElementsOf(r.unacked) \subseteq ElementsOf(p.unacked)
    BY <1>3, <1>4 DEF Fewer, Waiting
  <1>7. LastFin(Waiting(r) \cup S, pe)
    <2>1. Waiting(r) \cup S \subseteq Waiting(p) \cup S
      BY <1>6
    <2> QED  BY <1>1, <2>1, LastFinFewer
  <1>8. Told(Now(q), pe) /\ \A x \in A : Precedes(x, Now(q)) /\ Precedes(Now(q), x)
    <2>1. CASE Windows(q, p)
      <3>1. Now(q) = Now(p)
        BY <2>1 DEF Windows, Now
      <3> QED  BY <1>2, <3>1
    <2>2. CASE q.snd_wnd = a.wnd /\ q.snd_wl1 = a.seq /\ q.snd_wl2 = a.ack
      <3>1. Now(q).seq = a.seq /\ Now(q).ack = a.ack /\ Now(q).wnd = a.wnd
        BY <2>2 DEF Now
      <3>2. Told(a, pe) /\ \A x \in A : Precedes(x, a) /\ Precedes(a, x)
        BY <1>2
      <3>3. Told(Now(q), pe)
        BY <3>1, <3>2 DEF Told, RightEdge
      <3>4. ASSUME NEW x \in A PROVE Precedes(x, Now(q)) /\ Precedes(Now(q), x)
        <4>1. Precedes(x, a) /\ Precedes(a, x)
          BY <3>2
        <4> QED  BY <3>1, <4>1 DEF Precedes, RightEdge
      <3> QED  BY <3>3, <3>4
    <2> QED  BY <1>3, <2>1, <2>2
  <1>9. Ordered(B, r, pe)
    BY <1>2, <1>3, <1>5, <1>8 DEF Ordered
  <1>10. FinHeld(B, r, pe)
    <2>1. \A x \in B : x.fin <=> x.kind = "fin"
      BY <1>1 DEF FinHeld
    <2>2. ASSUME pe.closed, r.state \in Waits PROVE \E x \in B : x.fin
      <3>1. PICK x \in A : x.fin
        BY <1>1, <1>4, <1>5, <2>2 DEF FinHeld
      <3>2. x # a
        BY <1>4, <2>2, <3>1
      <3> QED  BY <3>1, <3>2
    <2> QED  BY <2>1, <2>2 DEF FinHeld
  <1>11. Within(r, pe)
    BY <1>1, <1>6 DEF Within
  <1>12. ASSUME r.state \in Open PROVE OpenSums(r, S, pe)
    <2>1. q.state \in Open /\ SameQueues(r, q) /\ p.state \in Open
      BY <1>4, <1>5, <1>12
    <2>2. /\ Sums(p) /\ InLine(p) /\ ~pe.fin /\ Heard(p, pe.rcv) /\ \A s \in S : OnTheWay(p, s)
      BY <1>1, <2>1 DEF OpenSums
    <2>3. pe.rcv \in Nat /\ a.ack \in Nat /\ a.ack <= pe.rcv
      <3>1. pe.rcv \in Nat /\ a.ack \in Nat
        BY <1>1 DEF PeerOK, PeerRec, Ack
      <3>2. Bit(pe.fin) = 0
        BY <2>2 DEF Bit
      <3>3. a.ack <= pe.rcv + Bit(pe.fin)
        BY <1>2 DEF Told
      <3> QED  BY <3>1, <3>2, <3>3
    <2>4. Heard(p, a.ack)
      BY <1>1, <2>2, <2>3, HeardBelow
    <2>5. /\ Sums(q) /\ (InLine(q) \/ Retransmits(q))
          /\ \A x \in Nat : Heard(p, x) => Heard(q, x)
      BY <1>1, <1>2, <2>2, <2>4, AckedOpen DEF OpenPcb, q
    <2>6. /\ Sums(r) /\ (InLine(r) \/ Retransmits(r))
          /\ \A x \in Nat : Heard(q, x) => Heard(r, x)
      BY <1>3, <1>4, <2>1, <2>5, SameOpen
    <2>7. ASSUME NEW s \in S PROVE OnTheWay(r, s)
      <3>1. OnTheWay(p, s) /\ s \in Segments
        BY <1>1, <2>2
      <3>2. Upper(s) \in Nat
        BY <3>1, UpperIs
      <3>3. r.snd_lbb = p.snd_lbb
        BY <1>3, <1>4 DEF Base, Numbers
      <3> QED  BY <2>5, <2>6, <3>1, <3>2, <3>3 DEF OnTheWay
    <2> QED  BY <2>2, <2>3, <2>5, <2>6, <2>7 DEF OpenSums
  <1> QED  BY <1>1, <1>4, <1>7, <1>9, <1>10, <1>11, <1>12 DEF Ready, q, r

\* Segments and acknowledgments may be lost, only no FIN of the peer.
LEMMA LessOnTheWay ==
  ASSUME NEW p, NEW S, NEW A, NEW pe, Sound(p, S, A, pe), NEW T, T \subseteq S, NEW B, B \subseteq A,
         \A x \in A : x.fin => x \in B
  PROVE  Sound(p, T, B, pe)
  <1>1. /\ p \in Pcb /\ S \subseteq Segments /\ A \subseteq Ack /\ PeerOK(pe)
        /\ LastFin(Waiting(p) \cup S, pe)
        /\ Ordered(A, p, pe) /\ FinHeld(A, p, pe) /\ Within(p, pe)
        /\ p.state \in Open => OpenSums(p, S, pe) /\ InLine(p)
    BY DEF Ready, Sound
  <1>2. LastFin(Waiting(p) \cup T, pe)
    <2>1. Waiting(p) \cup T \subseteq Waiting(p) \cup S
      OBVIOUS
    <2> QED  BY <1>1, <2>1, LastFinFewer
  <1>3. Ordered(B, p, pe)
    BY <1>1 DEF Ordered
  <1>4. FinHeld(B, p, pe)
    BY <1>1 DEF FinHeld
  <1>5. p.state \in Open => OpenSums(p, T, pe)
    BY <1>1 DEF OpenSums
  <1> QED  BY <1>1, <1>2, <1>3, <1>4, <1>5 DEF Ready, Sound

\* A segment t that brings nothing the queues do not hold.
Part(t, p) ==
    \E s \in Waiting(p) : /\ SegLen(t) > 0 /\ Upper(t) <= Upper(s)
                          /\ t.fin => s.fin /\ Upper(t) = Upper(s)

\* Such segments may be on the way, too.
LEMMA MoreSegments ==
  ASSUME NEW p, NEW S, NEW A, NEW pe, Sound(p, S, A, pe), NEW T, T \subseteq Segments,
         \A t \in T : Part(t, p), p.state \in Open => \A t \in T : OnTheWay(p, t)
  PROVE  Sound(p, S \cup T, A, pe)
  <1> DEFINE E == Waiting(p) \cup S
  <1>1. /\ p \in Pcb /\ S \subseteq Segments /\ A \subseteq Ack /\ PeerOK(pe)
        /\ LastFin(E, pe)
        /\ Ordered(A, p, pe) /\ FinHeld(A, p, pe) /\ Within(p, pe)
        /\ p.state \in Open => OpenSums(p, S, pe) /\ InLine(p)
    BY DEF Ready, Sound
  <1>2. E \subseteq Segments
    BY <1>1, QueuedIs
  <1>3. ASSUME NEW t \in E \cup T
        PROVE  \E s \in E : SegLen(t) > 0 /\ Upper(t) <= Upper(s) /\ (t.fin => s.fin /\ Upper(t) = Upper(s))
    <2>1. CASE t \in E
      <3>1. Upper(t) \in Nat
        BY <1>2, <2>1, UpperIs
      <3>2. SegLen(t) > 0
        BY <1>1, <2>1 DEF LastFin
      <3> QED  BY <2>1, <3>1, <3>2
    <2>2. CASE t \in T
      BY <2>2 DEF Part
    <2> QED  BY <2>1, <2>2
  <1>u. \A t \in E \cup T : Upper(t) \in Nat
    BY <1>2, UpperIs
  <1> HIDE DEF E
  <1>4. LastFin(E \cup T, pe)
    <2>1. \A t \in E \cup T : SegLen(t) > 0
      BY <1>3
    <2>2. ASSUME NEW s \in E \cup T, NEW t \in E \cup T, s.fin PROVE Upper(t) <= Upper(s)
      <3>1. PICK x \in E : x.fin /\ Upper(s) = Upper(x)
        BY <1>3, <2>2
      <3>2. PICK y \in E : Upper(t) <= Upper(y)
        BY <1>3
      <3>3. Upper(y) <= Upper(x)
        BY <1>1, <3>1, <3>2 DEF LastFin
      <3>4. Upper(t) \in Nat /\ Upper(y) \in Nat /\ Upper(x) \in Nat
        BY <1>u, <3>1, <3>2
      <3> QED  BY <3>1, <3>2, <3>3, <3>4
    <2>3. ASSUME NEW t \in E \cup T, pe.fin PROVE Upper(t) <= pe.rcv
      <3>1. PICK y \in E : Upper(t) <= Upper(y)
        BY <1>3
      <3>2. Upper(y) <= pe.rcv
        BY <1>1, <2>3, <3>1 DEF LastFin
      <3>3. pe.rcv \in Nat
        BY <1>1 DEF PeerOK, PeerRec
      <3>4. Upper(t) \in Nat /\ Upper(y) \in Nat
        BY <1>u, <3>1
      <3> QED  BY <3>1, <3>2, <3>3, <3>4
    <2> QED  BY <2>1, <2>2, <2>3 DEF LastFin
  <1>5. E \cup T = Waiting(p) \cup (S \cup T)
    BY DEF E
  <1>6. p.state \in Open => OpenSums(p, S \cup T, pe)
    BY <1>1 DEF OpenSums
  <1> QED  BY <1>1, <1>4, <1>5, <1>6 DEF Ready, Sound

\* What tcp_output would send is on the unsent queue.
LEMMA SentPart ==
  ASSUME NEW p, NEW S, NEW A, NEW pe, Sound(p, S, A, pe), NEW t \in ElementsOf(SegmentsOf(p))
  PROVE  t \in Segments /\ Part(t, p)
  <1>1. p \in Pcb /\ LastFin(Waiting(p) \cup S, pe)
    BY DEF Ready, Sound
  <1>2. ElementsOf(SegmentsOf(p)) \subseteq ElementsOf(p.unsent)
    BY <1>1, OutputMoves
  <1>3. t \in Waiting(p) /\ t \in Segments
    BY <1>1, <1>2, QueuedIs DEF Waiting
  <1>4. Upper(t) \in Nat
    BY <1>3, UpperIs
  <1>5. SegLen(t) > 0
    BY <1>1, <1>3 DEF LastFin
  <1> QED  BY <1>3, <1>4, <1>5 DEF Part

\* The user, or the timers, give the connection up.
LEMMA PurgedSound ==
  ASSUME NEW p, NEW S, NEW A, NEW pe, Sound(p, S, A, pe)
  PROVE  Sound(Purged(p, "ABORTED"), S, A, pe)
  <1> DEFINE q == Purged(p, "ABORTED")
  <1>1. /\ p \in Pcb /\ S \subseteq Segments /\ A \subseteq Ack /\ PeerOK(pe)
        /\ LastFin(Waiting(p) \cup S, pe)
        /\ Ordered(A, p, pe) /\ FinHeld(A, p, pe) /\ Within(p, pe)
    BY DEF Ready, Sound
  <1>2. "ABORTED" \in SenderStates
    BY DEF SenderStates
  <1>3. q \in Pcb /\ Numbers(q, p) /\ q.state = "ABORTED" /\ Fewer(q, p)
    BY <1>1, <1>2, PurgedIs
  <1> HIDE DEF q
  <1>4. Waiting(q) \subseteq Waiting(p) /\ ElementsOf(q.unacked) \subseteq ElementsOf(p.unacked)
    BY <1>3 DEF Fewer, Waiting
  <1>5. LastFin(Waiting(q) \cup S, pe)
    <2>1. Waiting(q) \cup S \subseteq Waiting(p) \cup S
      BY <1>4
    <2> QED  BY <1>1, <2>1, LastFinFewer
  <1>6. Now(q) = Now(p) /\ q.lastack = p.lastack /\ q.snd_wl2 = p.snd_wl2
    BY <1>3 DEF Numbers, Windows, Now
  <1>7. Ordered(A, q, pe) /\ Within(q, pe)
    BY <1>1, <1>4, <1>6 DEF Ordered, Within
  <1>8. FinHeld(A, q, pe) /\ q.state \notin Open
    BY <1>1, <1>3 DEF FinHeld, Waits, Open
  <1> QED  BY <1>1, <1>3, <1>5, <1>7, <1>8 DEF Ready, Sound, q

\* tcp_write finds no room or no memory.
LEMMA FailSound ==
  ASSUME NEW p, NEW S, NEW A, NEW pe, Sound(p, S, A, pe)
  PROVE  Sound(NoMemory(p), S, A, pe)
  <1> DEFINE q == NoMemory(p)
             f == p.flags \cup {"NAGLEMEMERR"}
  <1>1. /\ p \in Pcb /\ S \subseteq Segments /\ A \subseteq Ack /\ PeerOK(pe)
        /\ LastFin(Waiting(p) \cup S, pe)
        /\ Ordered(A, p, pe) /\ FinHeld(A, p, pe) /\ Within(p, pe)
        /\ p.state \in Open => OpenSums(p, S, pe) /\ InLine(p)
    BY DEF Ready, Sound
  <1>2. q = [p EXCEPT !.flags = f] /\ f \in FlagSet
    <2>1. p.flags \in FlagSet
      BY <1>1 DEF Pcb
    <2> QED  BY <2>1 DEF NoMemory, FlagSet
  <1> HIDE DEF f, q
  <1>3. q \in Pcb
    BY <1>1, <1>2 DEF Pcb
  <1>4. /\ q.mss = p.mss /\ q.snd_lbb = p.snd_lbb /\ q.snd_nxt = p.snd_nxt /\ q.snd_buf = p.snd_buf
        /\ q.lastack = p.lastack /\ q.snd_wnd = p.snd_wnd /\ q.snd_wl1 = p.snd_wl1 /\ q.snd_wl2 = p.snd_wl2
        /\ q.unacked = p.unacked /\ q.unsent = p.unsent /\ q.state = p.state
    BY <1>1, <1>2 DEF Pcb
  <1>5. Waiting(q) = Waiting(p) /\ Now(q) = Now(p) /\ mss_local(q) = mss_local(p)
    BY <1>4 DEF Waiting, Now, mss_local
  <1>6. Ordered(A, q, pe) /\ FinHeld(A, q, pe) /\ Within(q, pe)
    BY <1>1, <1>4, <1>5 DEF Ordered, FinHeld, Within
  <1>7. ASSUME p.state \in Open PROVE OpenSums(q, S, pe) /\ InLine(q)
    <2>1. OpenSums(p, S, pe) /\ InLine(p)
      BY <1>1, <1>7
    <2>2. InLine(q)
      BY <1>4, <1>5, <2>1 DEF InLine
    <2>3. Sums(q)
      BY <1>4, <2>1 DEF Sums, OpenSums
    <2>4. \A x : Heard(p, x) => Heard(q, x)
      BY <1>4 DEF Heard
    <2>5. \A s \in S : OnTheWay(q, s)
      BY <1>4, <2>1, <2>4, SMTT(30) DEF OpenSums, OnTheWay
    <2> QED  BY <2>1, <2>2, <2>3, <2>4, <2>5 DEF OpenSums
  <1> QED  BY <1>1, <1>3, <1>4, <1>5, <1>6, <1>7 DEF Ready, Sound, q

\* tcp_zero_window_probe sends a byte of what is queued, or the FIN.
LEMMA ProbePart ==
  ASSUME NEW p, NEW S, NEW A, NEW pe, Sound(p, S, A, pe), p.unacked \o p.unsent # <<>>
  PROVE  LET s == Head(p.unacked \o p.unsent)
             t == Probe(s.seq, s.fin /\ s.len = 0)
         IN t \in Segments /\ Part(t, p) /\ (p.state \in Open => OnTheWay(p, t))
  <1> DEFINE u == p.unacked
             v == p.unsent
             c == u \o v
             s == Head(c)
             f == s.fin /\ s.len = 0
             t == Probe(s.seq, f)
  <1>1. /\ p \in Pcb /\ LastFin(Waiting(p) \cup S, pe)
        /\ p.state \in Open => Sums(p) /\ InLine(p)
    BY DEF Ready, Sound, OpenSums
  <1>2. u \in Seq(Segments) /\ v \in Seq(Segments) /\ p.snd_lbb \in Nat /\ p.snd_nxt \in Nat
    BY <1>1 DEF Pcb
  <1>3. c \in Seq(Segments) /\ s \in Segments /\ s = c[1] /\ s \in ElementsOf(c)
    <2>1. c \in Seq(Segments)
      BY <1>2
    <2>2. c # <<>>
      OBVIOUS
    <2> HIDE DEF c
    <2> QED  BY <2>1, <2>2, HeadAndTail
  <1>4. s \in Waiting(p)
    <2>1. ElementsOf(c) = ElementsOf(u) \cup ElementsOf(v)
      BY <1>2, TogetherHas
    <2> QED  BY <1>3, <2>1 DEF Waiting
  <1>5. (u # <<>> => s = u[1]) /\ (u = <<>> => v # <<>> /\ s = v[1])
    <2>1. CASE u = <<>>
      <3>1. c = v
        BY <1>2, <2>1
      <3> QED  BY <1>3, <2>1, <3>1
    <2>2. CASE u # <<>>
      <3>1. Len(u) \in Nat \ {0} /\ Len(v) \in Nat
        BY <1>2, <2>2
      <3>2. \A i \in 1 .. Len(u) + Len(v) : c[i] = IF i <= Len(u) THEN u[i] ELSE v[i - Len(u)]
        BY <1>2, Concatenation
      <3>3. 1 \in 1 .. Len(u) + Len(v) /\ 1 <= Len(u)
        <4>1. \A i \in Nat \ {0}, j \in Nat : 1 \in 1 .. i + j /\ 1 <= i
          OBVIOUS
        <4> QED  BY <3>1, <4>1
      <3>4. c[1] = u[1]
        BY <3>2, <3>3
      <3> QED  BY <1>3, <2>2, <3>4
    <2> QED  BY <2>1, <2>2
  <1> HIDE DEF c, s
  <1>6. s.seq \in Nat /\ s.len \in Nat /\ s.fin \in BOOLEAN /\ Upper(s) \in Nat /\ Upper(s) = s.seq + s.len
    BY <1>3, UpperIs DEF Upper
  <1>7. SegLen(s) > 0 /\ SegLen(s) = s.len + (IF s.fin THEN 1 ELSE 0)
    BY <1>1, <1>4 DEF LastFin, SegLen
  <1>8. t.seq = s.seq /\ t.len = (IF f THEN 0 ELSE 1) /\ t.fin = f /\ f \in BOOLEAN /\ t \in Segments
    BY <1>6 DEF Probe, Segments
  <1> HIDE DEF t
  <1>9. ~f => s.len >= 1
    BY <1>6, <1>7
  <1>f. f => s.fin /\ s.len = 0
    OBVIOUS
  <1>g. ~s.fin => ~f
    OBVIOUS
  <1> HIDE DEF f
  <1>10. Upper(t) = s.seq + t.len /\ SegLen(t) = t.len + (IF f THEN 1 ELSE 0)
    BY <1>8 DEF Upper, SegLen
  <1>11. SegLen(t) > 0 /\ Upper(t) <= Upper(s) /\ (t.fin => s.fin /\ Upper(t) = Upper(s))
    <2>1. CASE f
      BY <1>6, <1>8, <1>10, <1>f, <2>1
    <2>2. CASE ~f
      <3>0. t.len = 1 /\ ~t.fin
        BY <1>8, <2>2
      <3>1. SegLen(t) = 1 /\ Upper(t) = s.seq + 1
        BY <1>10, <2>2, <3>0
      <3>2. s.len >= 1
        BY <1>9, <2>2
      <3> QED  BY <1>6, <3>0, <3>1, <3>2
    <2> QED  BY <2>1, <2>2
  <1>12. ASSUME p.state \in Open PROVE OnTheWay(p, t)
    <2>1. ~s.fin /\ Upper(s) <= p.snd_lbb
      BY <1>1, <1>4, <1>12, PlainSegments
    <2>2. ~f /\ t.len = 1 /\ Upper(t) = s.seq + 1
      <3>1. ~f
        BY <1>g, <2>1
      <3> QED  BY <1>8, <1>10, <3>1
    <2>3. Upper(t) \in Nat
      BY <1>6, <2>2
    <2>4. Heard(p, Upper(t))
      <3>1. CASE u # <<>>
        <4>1. s \in ElementsOf(u)
          <5>1. 1 \in DOMAIN u
            BY <1>2, <3>1
          <5> QED  BY <1>5, <3>1, <5>1 DEF ElementsOf
        <4>2. Upper(s) <= p.snd_nxt
          BY <1>1, <1>12, <4>1 DEF Sums
        <4> QED  BY <1>2, <1>6, <1>11, <2>3, <4>2 DEF Heard
      <3>2. CASE u = <<>>
        BY <1>5, <2>2, <2>3, <3>2 DEF Heard
      <3> QED  BY <3>1, <3>2
    <2> QED  BY <1>2, <1>6, <1>8, <1>11, <2>1, <2>2, <2>3, <2>4 DEF OnTheWay
  <1> QED  BY <1>4, <1>8, <1>11, <1>12 DEF Part, t, s, c, f

\* What the peer says in each of its answers.
LEMMA AnswerIs ==
  ASSUME NEW pe, PeerOK(pe), NEW kind \in {"ack", "update", "fin"}
  PROVE  LET a == Answer(pe, kind)
         IN /\ a \in Ack /\ a.ack = pe.rcv + Bit(pe.fin) /\ RightEdge(a) = pe.read + PeerBuf + Bit(pe.fin)
            /\ a.seq = (IF kind = "fin" THEN 0 ELSE Bit(pe.closed))
            /\ (a.fin <=> kind = "fin") /\ a.kind = kind
  <1> DEFINE a == Answer(pe, kind)
             f == (kind = "fin")
             w == PeerBuf - (pe.rcv - pe.read)
             k == pe.rcv + Bit(pe.fin)
             s == IF f THEN 0 ELSE Bit(pe.closed)
  <1>1. /\ pe.rcv \in Nat /\ pe.read \in Nat /\ pe.fin \in BOOLEAN /\ pe.closed \in BOOLEAN /\ PeerBuf \in Nat
        /\ pe.read <= pe.rcv /\ pe.rcv <= pe.read + PeerBuf
    BY SendAssumption DEF PeerOK, PeerRec
  <1>2. Bit(pe.fin) \in {0, 1} /\ Bit(pe.closed) \in {0, 1}
    BY DEF Bit
  <1>3. w \in Nat /\ k \in Nat /\ s \in {0, 1} /\ f \in BOOLEAN
    BY <1>1, <1>2
  <1>4. a = [kind |-> kind, seq |-> s, ack |-> k, wnd |-> w, len |-> 0, fin |-> f]
    <2>1. (IF pe.closed /\ ~f THEN 1 ELSE 0) = s
      BY DEF Bit
    <2>2. pe.rcv + (IF pe.fin THEN 1 ELSE 0) = k
      BY DEF Bit
    <2> QED  BY <2>1, <2>2 DEF Answer
  <1>5. k + w = pe.read + PeerBuf + Bit(pe.fin)
    BY <1>1, <1>2
  <1> HIDE DEF k, w, s, f, a
  <1>6. a \in Ack
    BY <1>3, <1>4 DEF Ack
  <1>7. a.kind = kind /\ a.seq = s /\ a.ack = k /\ a.wnd = w /\ a.fin = f
    BY <1>4
  <1>8. RightEdge(a) = pe.read + PeerBuf + Bit(pe.fin)
    BY <1>5, <1>7 DEF RightEdge
  <1> QED  BY <1>6, <1>7, <1>8 DEF k, s, f, a

\* The peer got as far as pn from pe.
Onward(pn, pe) ==
    /\ pe.rcv <= pn.rcv /\ pe.read <= pn.read /\ (pe.fin => pn.fin) /\ (pe.closed => pn.closed)

\* What an earlier acknowledgment or window says is still so.
LEMMA ToldOn ==
  ASSUME NEW pe, PeerOK(pe), NEW pn, PeerOK(pn), Onward(pn, pe), NEW x, x.seq \in Nat, x.ack \in Nat, x.wnd \in Nat,
         Told(x, pe)
  PROVE  Told(x, pn)
  <1>1. /\ pe.rcv \in Nat /\ pe.read \in Nat /\ pn.rcv \in Nat /\ pn.read \in Nat /\ PeerBuf \in Nat
    BY SendAssumption DEF PeerOK, PeerRec
  <1>2. Bit(pe.fin) <= Bit(pn.fin) /\ Bit(pe.closed) <= Bit(pn.closed)
    BY DEF Bit, Onward
  <1>3. Bit(pe.fin) \in Nat /\ Bit(pe.closed) \in Nat /\ Bit(pn.fin) \in Nat /\ Bit(pn.closed) \in Nat
    BY DEF Bit
  <1>4. x.seq <= Bit(pe.closed) /\ x.ack <= pe.rcv + Bit(pe.fin) /\ x.ack + x.wnd <= pe.read + PeerBuf + Bit(pe.fin)
    BY DEF Told, RightEdge
  <1>5. x.seq <= Bit(pn.closed)
    BY <1>2, <1>3, <1>4
  <1>6. pe.rcv <= pn.rcv /\ pe.read <= pn.read
    BY DEF Onward
  <1>7. x.ack <= pn.rcv + Bit(pn.fin)
    BY <1>1, <1>2, <1>3, <1>4, <1>6
  <1>8. x.ack + x.wnd <= pn.read + PeerBuf + Bit(pn.fin)
    BY <1>1, <1>2, <1>3, <1>4, <1>6
  <1> QED  BY <1>5, <1>7, <1>8 DEF Told, RightEdge

\* The newest answer comes after all that were given.
LEMMA AnswerAfter ==
  ASSUME NEW pe, PeerOK(pe), NEW pn, PeerOK(pn), Onward(pn, pe), NEW x, x.seq \in Nat, x.ack \in Nat, x.wnd \in Nat,
         Told(x, pe), NEW a \in Ack, a.ack = pn.rcv + Bit(pn.fin), RightEdge(a) = pn.read + PeerBuf + Bit(pn.fin),
         x.seq <= a.seq
  PROVE  Precedes(x, a) /\ Precedes(a, x)
  <1>1. Told(x, pn)
    BY ToldOn
  <1>2. x.ack <= a.ack /\ RightEdge(x) <= RightEdge(a)
    BY <1>1 DEF Told
  <1>3. a.seq \in Nat /\ a.ack \in Nat
    BY DEF Ack
  <1> QED  BY <1>2, <1>3 DEF Precedes

\* The peer answers.
LEMMA PeerTells ==
  ASSUME NEW p, NEW S, NEW A, NEW pe, Sound(p, S, A, pe), NEW pn, PeerOK(pn), Onward(pn, pe),
         LastFin(Waiting(p) \cup S, pn), p.state \in Open => ~pn.fin /\ Heard(p, pn.rcv),
         NEW kind \in {"ack", "update", "fin"},
         kind = "fin" => pn.closed /\ ~pe.closed, kind # "fin" => pn.closed = pe.closed
  PROVE  Sound(p, S, A \cup {Answer(pn, kind)}, pn)
  <1> DEFINE a == Answer(pn, kind)
             B == A \cup {a}
  <1>1. /\ p \in Pcb /\ S \subseteq Segments /\ A \subseteq Ack /\ PeerOK(pe)
        /\ Ordered(A, p, pe) /\ FinHeld(A, p, pe) /\ Within(p, pe)
        /\ p.state \in Open => OpenSums(p, S, pe) /\ InLine(p)
    BY DEF Ready, Sound
  <1>2. /\ a \in Ack /\ a.ack = pn.rcv + Bit(pn.fin) /\ RightEdge(a) = pn.read + PeerBuf + Bit(pn.fin)
        /\ a.seq = (IF kind = "fin" THEN 0 ELSE Bit(pn.closed))
        /\ (a.fin <=> kind = "fin") /\ a.kind = kind
    BY AnswerIs
  <1> HIDE DEF a
  <1>3. a.seq = Bit(pe.closed) /\ Bit(pe.closed) <= Bit(pn.closed)
    BY <1>2 DEF Bit
  <1>4. ASSUME NEW x, x.seq \in Nat, x.ack \in Nat, x.wnd \in Nat, Told(x, pe)
        PROVE  Told(x, pn) /\ Precedes(x, a) /\ Precedes(a, x)
    <2>1. x.seq <= a.seq
      BY <1>3, <1>4 DEF Told
    <2>2. Told(x, pn)
      BY <1>1, <1>4, ToldOn
    <2> QED  BY <1>1, <1>2, <1>4, <2>1, <2>2, AnswerAfter
  <1>5. Told(a, pn) /\ Precedes(a, a)
    <2>1. a.ack \in Nat /\ a.wnd \in Nat /\ a.seq \in Nat /\ Bit(pn.closed) \in Nat
      BY <1>2 DEF Ack, Bit
    <2>2. RightEdge(a) \in Nat
      BY <2>1 DEF RightEdge
    <2>3. a.seq <= Bit(pn.closed)
      BY <1>3
    <2>4. a.ack <= pn.rcv + Bit(pn.fin) /\ RightEdge(a) <= pn.read + PeerBuf + Bit(pn.fin)
      BY <1>2, <2>1, <2>2
    <2>5. Precedes(a, a)
      BY <2>1, <2>2 DEF Precedes
    <2> QED  BY <2>3, <2>4, <2>5 DEF Told
  <1>6. ASSUME NEW x \in A PROVE Told(x, pn) /\ Precedes(x, a) /\ Precedes(a, x)
    <2>1. x.seq \in Nat /\ x.ack \in Nat /\ x.wnd \in Nat
      BY <1>1 DEF Ack
    <2>2. Told(x, pe)
      BY <1>1 DEF Ordered
    <2> QED  BY <1>4, <2>1, <2>2
  <1>7. Told(Now(p), pn) /\ Precedes(Now(p), a) /\ Precedes(a, Now(p))
    <2>1. Now(p).seq \in Nat /\ Now(p).ack \in Nat /\ Now(p).wnd \in Nat
      BY <1>1 DEF Now, Pcb
    <2>2. Told(Now(p), pe)
      BY <1>1 DEF Ordered
    <2> QED  BY <1>4, <2>1, <2>2
  <1>8. Ordered(B, p, pn)
    <2>1. /\ \A x \in A : Precedes(x, Now(p)) /\ Precedes(Now(p), x)
          /\ \A x, y \in A : Precedes(x, y)
          /\ p.lastack <= p.snd_wl2
      BY <1>1 DEF Ordered
    <2>2. \A x \in B : Told(x, pn) /\ Precedes(x, Now(p)) /\ Precedes(Now(p), x)
      BY <1>5, <1>6, <1>7, <2>1
    <2>3. \A x, y \in B : Precedes(x, y)
      BY <1>5, <1>6, <2>1
    <2> QED  BY <1>7, <2>1, <2>2, <2>3 DEF Ordered
  <1>9. FinHeld(B, p, pn)
    <2>1. \A x \in B : x.fin <=> x.kind = "fin"
      BY <1>1, <1>2 DEF FinHeld
    <2>2. ASSUME pn.closed, p.state \in Waits PROVE \E x \in B : x.fin
      <3>1. CASE kind = "fin"
        BY <1>2, <3>1
      <3>2. CASE kind # "fin"
        BY <1>1, <2>2, <3>2 DEF FinHeld
      <3> QED  BY <3>1, <3>2
    <2> QED  BY <2>1, <2>2 DEF FinHeld
  <1>10. Within(p, pn)
    <2> SUFFICES ASSUME NEW s \in ElementsOf(p.unacked) PROVE Upper(s) <= pn.read + PeerBuf
      BY DEF Within
    <2>1. Upper(s) <= pe.read + PeerBuf
      BY <1>1 DEF Within
    <2>2. Upper(s) \in Nat
      <3>1. s \in Segments
        BY <1>1, QueuedIs DEF Waiting
      <3> QED  BY <3>1, UpperIs
    <2>3. pe.read \in Nat /\ pn.read \in Nat /\ pe.read <= pn.read /\ PeerBuf \in Nat
      BY <1>1, SendAssumption DEF PeerOK, PeerRec, Onward
    <2> QED  BY <2>1, <2>2, <2>3
  <1>11. p.state \in Open => OpenSums(p, S, pn)
    BY <1>1 DEF OpenSums
  <1>12. B \subseteq Ack
    BY <1>1, <1>2
  <1> QED  BY <1>1, <1>8, <1>9, <1>10, <1>11, <1>12 DEF Ready, Sound, a

\* What the peer takes of a segment.
LEMMA TakenIs ==
  ASSUME NEW pe, PeerOK(pe), NEW s \in Segments
  PROVE  LET pn == Taken(pe, s)
         IN /\ PeerOK(pn) /\ Onward(pn, pe) /\ pn.closed = pe.closed /\ pn.read = pe.read
            /\ pn.rcv = pe.rcv \/ pn.rcv <= Upper(s)
            /\ pn.fin => pe.fin \/ (s.fin /\ pn.rcv = Upper(s))
  <1> DEFINE e == pe.read + PeerBuf
             upto == Min({Upper(s), e})
             rcv == IF s.seq <= pe.rcv THEN Max({pe.rcv, upto}) ELSE pe.rcv
             f == pe.fin \/ (s.fin /\ s.seq <= pe.rcv /\ rcv = Upper(s))
             pn == Taken(pe, s)
  <1>1. /\ pe \in PeerRec /\ pe.rcv \in Nat /\ pe.read \in Nat /\ pe.fin \in BOOLEAN /\ pe.closed \in BOOLEAN
        /\ PeerBuf \in Nat /\ pe.read <= pe.rcv /\ pe.rcv <= e
    BY SendAssumption DEF PeerOK, PeerRec
  <1>2. s.seq \in Nat /\ s.fin \in BOOLEAN /\ Upper(s) \in Nat
    BY UpperIs
  <1>3. e \in Nat
    BY <1>1
  <1>4. pn = [pe EXCEPT !.rcv = rcv, !.fin = f]
    BY DEF Taken, Upper
  <1> HIDE DEF pn, e
  <1>5. upto \in Nat /\ upto <= Upper(s) /\ upto <= e
    <2>1. upto = IF Upper(s) <= e THEN Upper(s) ELSE e
      BY <1>2, <1>3, MinOfTwo
    <2> QED  BY <1>2, <1>3, <2>1
  <1> HIDE DEF upto
  <1>6. Max({pe.rcv, upto}) = IF pe.rcv >= upto THEN pe.rcv ELSE upto
    BY <1>1, <1>5, MaxOfTwo
  <1>7. rcv \in Nat /\ pe.rcv <= rcv /\ rcv <= e /\ (rcv = pe.rcv \/ rcv <= Upper(s))
    BY <1>1, <1>2, <1>3, <1>5, <1>6
  <1>8. f \in BOOLEAN /\ (f => pe.fin \/ (s.fin /\ rcv = Upper(s))) /\ (pe.fin => f)
    BY <1>1, <1>2
  <1> HIDE DEF rcv, f
  <1>9. pn \in PeerRec
    BY <1>1, <1>4, <1>7, <1>8 DEF PeerRec
  <1>10. pn.rcv = rcv /\ pn.read = pe.read /\ pn.fin = f /\ pn.closed = pe.closed
    BY <1>1, <1>4 DEF PeerRec
  <1>11. PeerOK(pn)
    <2>1. pn.read <= pn.rcv
      BY <1>1, <1>7, <1>10
    <2>2. pn.rcv <= pn.read + PeerBuf
      BY <1>7, <1>10 DEF e
    <2> QED  BY <1>9, <2>1, <2>2 DEF PeerOK
  <1>12. Onward(pn, pe)
    BY <1>1, <1>7, <1>8, <1>10 DEF Onward
  <1> QED  BY <1>7, <1>8, <1>10, <1>11, <1>12 DEF pn

\* The peer takes a segment and answers.
LEMMA TakesSound ==
  ASSUME NEW p, NEW S, NEW A, NEW pe, Sound(p, S, A, pe), NEW s \in S
  PROVE  Sound(p, S, A \cup {Answer(Taken(pe, s), "ack")}, Taken(pe, s))
  <1> DEFINE pn == Taken(pe, s)
  <1>1. /\ p \in Pcb /\ S \subseteq Segments /\ PeerOK(pe) /\ LastFin(Waiting(p) \cup S, pe)
        /\ p.state \in Open => OpenSums(p, S, pe)
    BY DEF Ready, Sound
  <1>2. s \in Segments
    BY <1>1
  <1>3. /\ PeerOK(pn) /\ Onward(pn, pe) /\ pn.closed = pe.closed /\ pn.read = pe.read
        /\ pn.rcv = pe.rcv \/ pn.rcv <= Upper(s)
        /\ pn.fin => pe.fin \/ (s.fin /\ pn.rcv = Upper(s))
    BY <1>1, <1>2, TakenIs
  <1> HIDE DEF pn
  <1>4. Upper(s) \in Nat /\ pn.rcv \in Nat /\ pe.rcv \in Nat /\ pe.rcv <= pn.rcv
    BY <1>1, <1>2, <1>3, UpperIs DEF PeerOK, PeerRec, Onward
  <1>5. LastFin(Waiting(p) \cup S, pn)
    <2> DEFINE E == Waiting(p) \cup S
    <2>1. ASSUME NEW t \in E, pn.fin PROVE Upper(t) <= pn.rcv
      <3>1. Upper(t) \in Nat
        BY <1>1, QueuedIs, UpperIs
      <3>2. CASE pe.fin
        <4>1. Upper(t) <= pe.rcv
          BY <1>1, <3>2 DEF LastFin
        <4> QED  BY <1>4, <3>1, <4>1
      <3>3. CASE ~pe.fin
        <4>1. s.fin /\ pn.rcv = Upper(s)
          BY <1>3, <2>1, <3>3
        <4>2. Upper(t) <= Upper(s)
          BY <1>1, <4>1 DEF LastFin
        <4> QED  BY <4>1, <4>2
      <3> QED  BY <3>2, <3>3
    <2>2. LastFin(E, pe)
      BY <1>1
    <2> HIDE DEF E
    <2>3. LastFin(E, pn)
      BY <2>1, <2>2 DEF LastFin
    <2> QED  BY <2>3 DEF E
  <1>6. ASSUME p.state \in Open PROVE ~pn.fin /\ Heard(p, pn.rcv)
    <2>1. ~pe.fin /\ Heard(p, pe.rcv) /\ ~s.fin /\ Heard(p, Upper(s))
      BY <1>1, <1>6 DEF OpenSums, OnTheWay
    <2>2. ~pn.fin
      BY <1>3, <2>1
    <2>3. CASE pn.rcv = pe.rcv
      BY <2>1, <2>2, <2>3
    <2>4. CASE pn.rcv <= Upper(s)
      BY <1>1, <1>4, <2>1, <2>2, <2>4, HeardBelow
    <2> QED  BY <1>3, <2>3, <2>4
  <1>7. Sound(p, S, A \cup {Answer(pn, "ack")}, pn)
    BY <1>3, <1>5, <1>6, PeerTells
  <1> QED  BY <1>7 DEF pn

\* The user of the peer reads, and the peer tells of its window.
LEMMA ReadsSound ==
  ASSUME NEW p, NEW S, NEW A, NEW pe, Sound(p, S, A, pe), NEW pn, pn = [pe EXCEPT !.read = pe.rcv]
  PROVE  Sound(p, S, A \cup {Answer(pn, "update")}, pn)
  <1>1. /\ p \in Pcb /\ S \subseteq Segments /\ PeerOK(pe) /\ LastFin(Waiting(p) \cup S, pe)
        /\ p.state \in Open => OpenSums(p, S, pe)
    BY DEF Ready, Sound
  <1>2. pe \in PeerRec /\ pe.rcv \in Nat /\ pe.read \in Nat /\ pe.read <= pe.rcv /\ PeerBuf \in Nat
    BY <1>1, SendAssumption DEF PeerOK, PeerRec
  <1>3. pn \in PeerRec /\ pn.rcv = pe.rcv /\ pn.read = pe.rcv /\ pn.fin = pe.fin /\ pn.closed = pe.closed
    BY <1>2 DEF PeerRec
  <1>4. PeerOK(pn) /\ Onward(pn, pe)
    BY <1>2, <1>3 DEF PeerOK, Onward
  <1>5. LastFin(Waiting(p) \cup S, pn)
    BY <1>1, <1>3 DEF LastFin
  <1>6. p.state \in Open => ~pn.fin /\ Heard(p, pn.rcv)
    BY <1>1, <1>3 DEF OpenSums
  <1> QED  BY <1>3, <1>4, <1>5, <1>6, PeerTells

\* The peer closes.
LEMMA ClosesSound ==
  ASSUME NEW p, NEW S, NEW A, NEW pe, Sound(p, S, A, pe), p.state \in Waits, \A x \in A : ~x.fin,
         NEW pn, pn = [pe EXCEPT !.closed = TRUE]
  PROVE  Sound(p, S, A \cup {Answer(pn, "fin")}, pn)
  <1>1. /\ p \in Pcb /\ S \subseteq Segments /\ PeerOK(pe) /\ LastFin(Waiting(p) \cup S, pe)
        /\ FinHeld(A, p, pe)
    BY DEF Ready, Sound
  <1>2. pe \in PeerRec /\ pe.rcv \in Nat /\ pe.read \in Nat /\ pe.read <= pe.rcv /\ PeerBuf \in Nat
    BY <1>1, SendAssumption DEF PeerOK, PeerRec
  <1>3. pn \in PeerRec /\ pn.rcv = pe.rcv /\ pn.read = pe.read /\ pn.fin = pe.fin /\ pn.closed
    BY <1>2 DEF PeerRec
  <1>4. PeerOK(pn) /\ Onward(pn, pe)
    BY <1>1, <1>2, <1>3 DEF PeerOK, Onward
  <1>5. LastFin(Waiting(p) \cup S, pn)
    BY <1>1, <1>3 DEF LastFin
  <1>6. p.state \in Open => ~pn.fin /\ Heard(p, pn.rcv)
    <2>1. p.state \in Open => OpenSums(p, S, pe)
      BY DEF Ready, Sound
    <2> QED  BY <1>3, <2>1 DEF OpenSums
  <1>7. ~pe.closed
    <2> SUFFICES ASSUME pe.closed PROVE FALSE
      OBVIOUS
    <2>1. \E x \in A : x.fin
      BY <1>1 DEF FinHeld
    <2> QED  BY <2>1
  <1> QED  BY <1>3, <1>4, <1>5, <1>6, <1>7, PeerTells

\* What is left of a queue when its first was passed on, and perhaps kept.
Left(a, again) == Tail(a) \o IF again THEN <<Head(a)>> ELSE <<>>

\* Nothing new is in it, and only the first may be missing.
LEMMA LeftIs ==
  ASSUME NEW T, NEW a \in Seq(T), a # <<>>, NEW again \in BOOLEAN
  PROVE  /\ Left(a, again) \in Seq(T) /\ ElementsOf(Left(a, again)) \subseteq ElementsOf(a)
         /\ Head(a) \in ElementsOf(a) /\ \A x \in ElementsOf(a) : x \in ElementsOf(Left(a, again)) \/ x = Head(a)
  <1>1. Head(a) \in T /\ Tail(a) \in Seq(T) /\ ElementsOf(a) = {Head(a)} \cup ElementsOf(Tail(a))
    BY FirstAndOthers
  <1> DEFINE t == Tail(a)
             r == IF again THEN <<Head(a)>> ELSE <<>>
  <1>2. r \in Seq(T) /\ ElementsOf(r) \subseteq {Head(a)}
    <2>1. CASE again
      BY <1>1, <2>1, ElementsOfOne
    <2>2. CASE ~again
      BY <2>2, NoElements
    <2> QED  BY <2>1, <2>2
  <1>3. Left(a, again) = t \o r
    BY DEF Left
  <1>4. t \in Seq(T) /\ ElementsOf(a) = {Head(a)} \cup ElementsOf(t)
    BY <1>1
  <1> HIDE DEF r, t
  <1>5. /\ t \o r \in Seq(T)
        /\ ElementsOf(t \o r) = ElementsOf(t) \cup ElementsOf(r)
    BY <1>2, <1>4, ElementsTogether
  <1> QED  BY <1>2, <1>3, <1>4, <1>5

\* The queues of the network, and the invariant.
Traffic == [segs : Seq(Segments), acks : Seq(Ack), faults : Nat]
SendInv ==
    net \in Traffic /\ Sound(snd, ElementsOf(net.segs), ElementsOf(net.acks), peer)

\* The faults stay a number.
LEMMA CountIs ==
  ASSUME net \in Traffic, NEW fault \in BOOLEAN
  PROVE  Count(fault) \in Nat
  BY DEF Traffic, Count

\* The connection after the handshake.
LEMMA SendStarts == SendInit => SendInv
  <1> SUFFICES ASSUME SendInit PROVE SendInv
    OBVIOUS
  <1> DEFINE e == << >>
             p == snd
  <1>1. PICK mss \in MssValues :
         snd = [mss |-> mss, state |-> "ESTABLISHED", unsent |-> e, unacked |-> e, snd_nxt |-> 0,
                snd_lbb |-> 0, snd_buf |-> SndBuf, lastack |-> 0, snd_wnd |-> PeerBuf,
                snd_wl1 |-> 0, snd_wl2 |-> 0, cwnd |-> 2 * mss, ssthresh |-> PeerBuf,
                dupacks |-> 0, rtime |-> FALSE, nrtx |-> 0, persist |-> FALSE, flags |-> {}]
    BY DEF SendInit
  <1>2. net = [segs |-> e, acks |-> e, faults |-> 0] /\ peer = [rcv |-> 0, read |-> 0, fin |-> FALSE, closed |-> FALSE]
    BY DEF SendInit
  <1>3. e \in Seq(Segments) /\ e \in Seq(Ack) /\ ElementsOf(e) = {} /\ e \o e = e /\ Len(e) = 0
    BY NoElements
  <1>4. SndBuf \in Nat /\ PeerBuf \in Nat /\ PeerBuf \in Positive /\ 2 * mss \in Nat /\ 0 \in Octet /\ 0 \in Dupacks
        /\ {} \in FlagSet /\ "ESTABLISHED" \in SenderStates
    <2>1. mss \in Nat
      BY SendAssumption
    <2>2. 2 * mss \in Nat
      BY <2>1
    <2> QED  BY <2>2, SendAssumption DEF Positive, Octet, Dupacks, FlagSet, SenderStates
  <1> HIDE DEF e
  <1>5. p \in Pcb
    BY <1>1, <1>3, <1>4 DEF Pcb
  <1>6. /\ p.state = "ESTABLISHED" /\ p.unsent = e /\ p.unacked = e /\ p.snd_nxt = 0 /\ p.snd_lbb = 0
        /\ p.snd_buf = SndBuf /\ p.lastack = 0 /\ p.snd_wnd = PeerBuf /\ p.snd_wl1 = 0 /\ p.snd_wl2 = 0
    BY <1>1
  <1>7. net \in Traffic /\ net.segs = e /\ net.acks = e
    BY <1>2, <1>3 DEF Traffic
  <1>8. peer \in PeerRec /\ peer.rcv = 0 /\ peer.read = 0 /\ ~peer.fin /\ ~peer.closed
    BY <1>2 DEF PeerRec
  <1> HIDE DEF p
  <1>9. PeerOK(peer)
    BY <1>4, <1>8 DEF PeerOK
  <1>10. Waiting(p) = {}
    BY <1>3, <1>6 DEF Waiting
  <1>11. LastFin({}, peer)
    BY <1>8 DEF LastFin
  <1>12. Told(Now(p), peer)
    <2>1. Now(p).seq = 0 /\ Now(p).ack = 0 /\ Now(p).wnd = PeerBuf /\ Bit(peer.fin) = 0 /\ Bit(peer.closed) = 0
      BY <1>6, <1>8 DEF Now, Bit
    <2>2. RightEdge(Now(p)) = PeerBuf
      BY <1>4, <2>1 DEF RightEdge
    <2> QED  BY <1>4, <1>8, <2>1, <2>2 DEF Told
  <1>13. Ordered({}, p, peer)
    BY <1>6, <1>12 DEF Ordered
  <1>14. FinHeld({}, p, peer) /\ Within(p, peer)
    BY <1>3, <1>6, <1>8 DEF FinHeld, Within
  <1>15. InLine(p)
    <2>1. p.unacked \o p.unsent = e
      BY <1>3, <1>6
    <2>2. Chain(e, 0, 0, mss_local(p))
      BY <1>3 DEF Chain, e
    <2>3. Line(e, 0, 0, mss_local(p))
      BY <2>2 DEF Line, e
    <2> QED  BY <1>6, <2>1, <2>3 DEF InLine
  <1>16. OpenSums(p, {}, peer)
    <2>1. Sums(p)
      BY <1>3, <1>4, <1>6 DEF Sums
    <2>2. Heard(p, peer.rcv)
      BY <1>6, <1>8 DEF Heard
    <2> QED  BY <1>8, <1>15, <2>1, <2>2 DEF OpenSums
  <1>17. Ready(p, {}, {}, peer)
    BY <1>5, <1>9, <1>10, <1>11, <1>13, <1>14, <1>16 DEF Ready
  <1> QED  BY <1>3, <1>7, <1>15, <1>17 DEF SendInv, Sound, p

\* A handler that ends in tcp_output, when the PCB before that is Ready.
LEMMA OutputsKeep ==
  ASSUME net \in Traffic, NEW p, NEW B, B \subseteq Ack, Ready(p, ElementsOf(net.segs), B, peer)
  PROVE  /\ net.segs \o SegmentsOf(p) \in Seq(Segments)
         /\ Sound(tcp_output(p), ElementsOf(net.segs \o SegmentsOf(p)), B, peer)
  <1> DEFINE u == net.segs
             v == SegmentsOf(p)
  <1>1. u \in Seq(Segments) /\ p \in Pcb
    BY DEF Traffic, Ready
  <1>2. v \in Seq(Segments)
    BY <1>1, OutputMoves
  <1>3. Sound(tcp_output(p), ElementsOf(u) \cup ElementsOf(v), B, peer)
    BY OutputSound
  <1> HIDE DEF u, v
  <1>4. u \o v \in Seq(Segments) /\ ElementsOf(u \o v) = ElementsOf(u) \cup ElementsOf(v)
    BY <1>1, <1>2, ElementsTogether
  <1> QED  BY <1>3, <1>4 DEF u, v

\* Then the invariant holds after it.
LEMMA OutputsSound ==
  ASSUME net \in Traffic, NEW p, Ready(p, ElementsOf(net.segs), ElementsOf(net.acks), peer), Outputs(p),
         UNCHANGED peer
  PROVE  SendInv'
  <1> DEFINE u == net.segs \o SegmentsOf(p)
  <1>1. net.acks \in Seq(Ack) /\ ElementsOf(net.acks) \subseteq Ack
    BY DEF Traffic, Ready
  <1>2. u \in Seq(Segments) /\ Sound(tcp_output(p), ElementsOf(u), ElementsOf(net.acks), peer)
    BY <1>1, OutputsKeep
  <1>3. snd' = tcp_output(p) /\ net' = [net EXCEPT !.segs = u] /\ peer' = peer
    BY DEF Outputs
  <1> HIDE DEF u
  <1>4. net' \in Traffic /\ net'.segs = u /\ net'.acks = net.acks
    BY <1>2, <1>3 DEF Traffic
  <1> QED  BY <1>2, <1>3, <1>4 DEF SendInv

\* Each operation keeps the invariant.
LEMMA WriteKeeps ==
  ASSUME SendInv, NEW n \in Writes, NEW close \in BOOLEAN, Write(n, close)
  PROVE  SendInv'
  <1> DEFINE S == ElementsOf(net.segs)
             A == ElementsOf(net.acks)
             w == Written(snd, n)
  <1>1. net \in Traffic /\ Sound(snd, S, A, peer)
    BY DEF SendInv
  <1>2. /\ snd.state \in Open /\ n <= snd.snd_buf /\ (close => CanFin(w))
        /\ Outputs(IF close THEN Closed(w) ELSE w) /\ UNCHANGED peer
    BY DEF Write
  <1>3. n \in Nat \ {0}
    BY SendAssumption
  <1>4. Sound(w, S, A, peer)
    BY <1>1, <1>2, <1>3, WriteReady
  <1>5. w.state \in Open
    <2>1. snd \in Pcb /\ InLine(snd)
      BY <1>1, <1>2 DEF Sound, Ready
    <2>2. w.state = snd.state
      BY <1>2, <1>3, <2>1, WrittenIs
    <2> QED  BY <1>2, <2>2
  <1> HIDE DEF S, A, w
  <1>6. CASE close
    <2>1. Ready(Closed(w), S, A, peer)
      BY <1>2, <1>4, <1>5, <1>6, CloseReady
    <2>2. Outputs(Closed(w))
      BY <1>2, <1>6
    <2> QED  BY <1>1, <1>2, <2>1, <2>2, OutputsSound DEF S, A
  <1>7. CASE ~close
    <2>1. Ready(w, S, A, peer)
      BY <1>4 DEF Sound
    <2>2. Outputs(w)
      BY <1>2, <1>7
    <2> QED  BY <1>1, <1>2, <2>1, <2>2, OutputsSound DEF S, A
  <1> QED  BY <1>6, <1>7

\* tcp_input for an acknowledgment.
LEMMA AckKeeps ==
  ASSUME SendInv, NEW again \in BOOLEAN, tcp_input_ack(again)
  PROVE  SendInv'
  <1> DEFINE u == net.segs
             v == net.acks
             S == ElementsOf(u)
             A == ElementsOf(v)
             a == Head(v)
             p == NextState(Acked(snd, a), a)
             q == IF snd.state \in Over THEN snd ELSE p
             r == Left(v, again)
             B == ElementsOf(r)
             x == u \o SegmentsOf(q)
             c == Count(again)
  <1>1. net \in Traffic /\ Sound(snd, S, A, peer)
    BY DEF SendInv
  <1>2. /\ v # <<>> /\ peer' = peer /\ snd' = (IF snd.state \in Over THEN snd ELSE tcp_output(q))
        /\ net' = [segs |-> x, acks |-> r, faults |-> c]
    BY DEF tcp_input_ack, Left
  <1>3. u \in Seq(Segments) /\ v \in Seq(Ack) /\ c \in Nat
    BY <1>1, CountIs DEF Traffic
  <1>4. /\ r \in Seq(Ack) /\ B \subseteq A /\ a \in A
        /\ \A y \in A : y \in B \/ y = a
    BY <1>2, <1>3, LeftIs
  <1>5. A \subseteq Ack
    BY <1>1 DEF Sound, Ready
  <1> HIDE DEF S, A, B, a, r, c
  <1>6. Ready(p, S, B, peer)
    BY <1>1, <1>4, AckReady
  <1> HIDE DEF p
  <1>7. x \in Seq(Segments) /\ Sound(snd', ElementsOf(x), B, peer)
    <2>1. CASE snd.state \in Over
      <3>1. q = snd /\ snd' = snd
        BY <1>2, <2>1
      <3>2. Ready(snd, S, A, peer) /\ snd \in Pcb
        BY <1>1 DEF Sound, Ready
      <3>3. SegmentsOf(snd) \in Seq(Segments)
        BY <3>2, OutputMoves
      <3>4. \A t \in ElementsOf(SegmentsOf(snd)) : t \in Segments /\ Part(t, snd)
        BY <1>1, SentPart
      <3>5. snd.state \notin Open
        BY <2>1 DEF Over, Open
      <3> DEFINE T == ElementsOf(SegmentsOf(snd))
      <3>6. T \subseteq Segments /\ \A t \in T : Part(t, snd)
        BY <3>4
      <3> HIDE DEF T
      <3>7. Sound(snd, S \cup T, A, peer)
        BY <1>1, <3>5, <3>6, MoreSegments
      <3>8. x \in Seq(Segments) /\ ElementsOf(x) = S \cup T
        <4> DEFINE o == SegmentsOf(snd)
        <4>1. o \in Seq(Segments) /\ x = u \o o /\ T = ElementsOf(o)
          BY <3>1, <3>3 DEF T
        <4> HIDE DEF o, x, u
        <4>2. u \o o \in Seq(Segments) /\ ElementsOf(u \o o) = ElementsOf(u) \cup ElementsOf(o)
          BY <1>3, <4>1, ElementsTogether
        <4> QED  BY <4>1, <4>2 DEF S
      <3>9. FinHeld(B, snd, peer) /\ Ordered(B, snd, peer)
        <4>1. FinHeld(A, snd, peer) /\ Ordered(A, snd, peer)
          BY <3>2 DEF Ready
        <4>2. snd.state \notin Waits
          BY <2>1 DEF Over, Waits
        <4> QED  BY <1>4, <4>1, <4>2 DEF FinHeld, Ordered
      <3>10. Sound(snd, S \cup T, B, peer)
        BY <1>4, <1>5, <3>5, <3>7, <3>9 DEF Sound, Ready
      <3> QED  BY <3>1, <3>8, <3>10
    <2>2. CASE snd.state \notin Over
      <3>1. q = p /\ snd' = tcp_output(p) /\ x = net.segs \o SegmentsOf(p)
        BY <1>2, <2>2
      <3>2. net.segs \o SegmentsOf(p) \in Seq(Segments)
            /\ Sound(tcp_output(p), ElementsOf(net.segs \o SegmentsOf(p)), B, peer)
        BY <1>1, <1>4, <1>5, <1>6, OutputsKeep DEF S
      <3> QED  BY <3>1, <3>2
    <2> QED  BY <2>1, <2>2
  <1> HIDE DEF x
  <1>8. net' \in Traffic /\ net'.segs = x /\ net'.acks = r
    BY <1>2, <1>3, <1>4, <1>7 DEF Traffic
  <1> QED  BY <1>2, <1>7, <1>8 DEF SendInv, B

\* The peer gets a segment.
LEMMA PeerKeeps ==
  ASSUME SendInv, NEW again \in BOOLEAN, PeerReceives(again)
  PROVE  SendInv'
  <1> DEFINE u == net.segs
             v == net.acks
             S == ElementsOf(u)
             A == ElementsOf(v)
             s == Head(u)
             pn == Taken(peer, s)
             a == Answer(pn, "ack")
             r == Left(u, again)
             x == Append(v, a)
             c == Count(again)
  <1>1. net \in Traffic /\ Sound(snd, S, A, peer)
    BY DEF SendInv
  <1>2. /\ u # <<>> /\ snd' = snd /\ peer' = pn
        /\ net' = [segs |-> r, acks |-> x, faults |-> c]
    BY DEF PeerReceives, Left
  <1>3. u \in Seq(Segments) /\ v \in Seq(Ack) /\ c \in Nat
    BY <1>1, CountIs DEF Traffic
  <1>4. r \in Seq(Segments) /\ ElementsOf(r) \subseteq S /\ s \in S
    BY <1>2, <1>3, LeftIs
  <1> HIDE DEF S, A, s, r, c
  <1>5. Sound(snd, S, A \cup {a}, pn)
    BY <1>1, <1>4, TakesSound
  <1>6. a \in Ack
    <2>1. A \cup {a} \subseteq Ack
      BY <1>5 DEF Sound, Ready
    <2> QED  BY <2>1
  <1> HIDE DEF a, pn
  <1>7. x \in Seq(Ack) /\ ElementsOf(x) = A \cup {a}
    BY <1>3, <1>6, OneMore DEF A
  <1>8. Sound(snd, ElementsOf(r), A \cup {a}, pn)
    BY <1>4, <1>5, LessOnTheWay
  <1> HIDE DEF x
  <1>9. net' \in Traffic /\ net'.segs = r /\ net'.acks = x
    BY <1>2, <1>3, <1>4, <1>7 DEF Traffic
  <1> QED  BY <1>2, <1>7, <1>8, <1>9 DEF SendInv

\* The peer tells something without having got a segment.
LEMMA TellsKeeps ==
  ASSUME net \in Traffic, NEW a, UNCHANGED snd, net' = [net EXCEPT !.acks = Append(@, a)],
         Sound(snd, ElementsOf(net.segs), ElementsOf(net.acks) \cup {a}, peer')
  PROVE  SendInv'
  <1> DEFINE A == ElementsOf(net.acks)
             x == Append(net.acks, a)
  <1>1. A \cup {a} \subseteq Ack
    BY DEF Sound, Ready
  <1>2. net.acks \in Seq(Ack) /\ a \in Ack
    BY <1>1 DEF Traffic
  <1>3. x \in Seq(Ack) /\ ElementsOf(x) = A \cup {a}
    BY <1>2, OneMore
  <1>4. net' = [net EXCEPT !.acks = x]
    OBVIOUS
  <1> HIDE DEF x, A
  <1>5. net' \in Traffic /\ net'.acks = x /\ net'.segs = net.segs
    BY <1>3, <1>4 DEF Traffic
  <1>6. Sound(snd', ElementsOf(net'.segs), ElementsOf(net'.acks), peer')
    BY <1>3, <1>5 DEF A
  <1> QED  BY <1>5, <1>6 DEF SendInv

\* A segment is lost or overtaken.
LEMMA LoseSegmentKeeps ==
  ASSUME SendInv, LoseSegment
  PROVE  SendInv'
  <1> DEFINE u == net.segs
             A == ElementsOf(net.acks)
             S == ElementsOf(u)
             f == net.faults + 1
  <1>1. net \in Traffic /\ Sound(snd, S, A, peer)
    BY DEF SendInv
  <1>2. u \in Seq(Segments) /\ f \in Nat
    BY <1>1 DEF Traffic
  <1>3. u # <<>> /\ snd' = snd /\ peer' = peer
    BY DEF LoseSegment
  <1>4. Head(u) \in Segments /\ Tail(u) \in Seq(Segments) /\ S = {Head(u)} \cup ElementsOf(Tail(u))
    BY <1>2, <1>3, FirstAndOthers
  <1>5. Append(Tail(u), Head(u)) \in Seq(Segments) /\ ElementsOf(Append(Tail(u), Head(u))) = S
    <2> DEFINE h == Head(u)
               t == Tail(u)
    <2>1. h \in Segments /\ t \in Seq(Segments) /\ S = {h} \cup ElementsOf(t)
      BY <1>4
    <2> HIDE DEF h, t, S
    <2>2. Append(t, h) \in Seq(Segments) /\ ElementsOf(Append(t, h)) = ElementsOf(t) \cup {h}
      BY <2>1, OneMore
    <2> QED  BY <2>1, <2>2 DEF h, t
  <1>6. PICK w \in Seq(Segments) : ElementsOf(w) \subseteq S /\ net' = [net EXCEPT !.segs = w, !.faults = f]
    <2>1. CASE net' = [net EXCEPT !.segs = Tail(u), !.faults = f]
      BY <1>4, <2>1
    <2>2. CASE net' = [net EXCEPT !.segs = Append(Tail(u), Head(u)), !.faults = f]
      BY <1>5, <2>2
    <2> QED  BY <2>1, <2>2 DEF LoseSegment
  <1> HIDE DEF S, A, f
  <1>7. net' \in Traffic /\ net'.segs = w /\ net'.acks = net.acks
    BY <1>1, <1>2, <1>6 DEF Traffic
  <1>8. Sound(snd, ElementsOf(w), A, peer)
    BY <1>1, <1>6, LessOnTheWay
  <1> QED  BY <1>3, <1>7, <1>8 DEF SendInv, A

\* An acknowledgment or a window is lost, or any of them overtaken.
LEMMA LoseAckKeeps ==
  ASSUME "fin" \notin Lossy, SendInv, LoseAck
  PROVE  SendInv'
  <1> DEFINE v == net.acks
             A == ElementsOf(v)
             S == ElementsOf(net.segs)
             f == net.faults + 1
  <1>1. net \in Traffic /\ Sound(snd, S, A, peer)
    BY DEF SendInv
  <1>2. v \in Seq(Ack) /\ f \in Nat
    BY <1>1 DEF Traffic
  <1>3. v # <<>> /\ snd' = snd /\ peer' = peer
    BY DEF LoseAck
  <1>4. Head(v) \in Ack /\ Tail(v) \in Seq(Ack) /\ A = {Head(v)} \cup ElementsOf(Tail(v))
    BY <1>2, <1>3, FirstAndOthers
  <1>5. Append(Tail(v), Head(v)) \in Seq(Ack) /\ ElementsOf(Append(Tail(v), Head(v))) = A
    <2> DEFINE h == Head(v)
               t == Tail(v)
    <2>1. h \in Ack /\ t \in Seq(Ack) /\ A = {h} \cup ElementsOf(t)
      BY <1>4
    <2> HIDE DEF h, t, A
    <2>2. Append(t, h) \in Seq(Ack) /\ ElementsOf(Append(t, h)) = ElementsOf(t) \cup {h}
      BY <2>1, OneMore
    <2> QED  BY <2>1, <2>2 DEF h, t
  <1>f. FinHeld(A, snd, peer)
    BY <1>1 DEF Sound, Ready
  <1>6. PICK w \in Seq(Ack) : /\ ElementsOf(w) \subseteq A /\ net' = [net EXCEPT !.acks = w, !.faults = f]
                              /\ \A x \in A : x.fin => x \in ElementsOf(w)
    <2>1. CASE Head(v).kind \in Lossy /\ net' = [net EXCEPT !.acks = Tail(v), !.faults = f]
      <3>1. Head(v).kind # "fin"
        BY <2>1
      <3>2. ~Head(v).fin
        BY <1>4, <1>f, <3>1 DEF FinHeld
      <3>3. \A x \in A : x.fin => x \in ElementsOf(Tail(v))
        BY <1>4, <3>2
      <3> QED  BY <1>4, <2>1, <3>3
    <2>2. CASE net' = [net EXCEPT !.acks = Append(Tail(v), Head(v)), !.faults = f]
      BY <1>5, <2>2
    <2> QED  BY <2>1, <2>2 DEF LoseAck
  <1> HIDE DEF S, A, f
  <1>7. net' \in Traffic /\ net'.acks = w /\ net'.segs = net.segs
    BY <1>1, <1>2, <1>6 DEF Traffic
  <1>8. Sound(snd, S, ElementsOf(w), peer)
    BY <1>1, <1>6, LessOnTheWay
  <1> QED  BY <1>3, <1>7, <1>8 DEF SendInv, S

\* tcp_zero_window_probe.
LEMMA ProbeKeeps ==
  ASSUME SendInv, ProbeWindow
  PROVE  SendInv'
  <1> DEFINE u == net.segs
             A == ElementsOf(net.acks)
             S == ElementsOf(u)
             s == Head(snd.unacked \o snd.unsent)
             t == Probe(s.seq, s.fin /\ s.len = 0)
             o == <<t>>
             f == IF Quiet THEN net.faults ELSE net.faults + 1
             w == u \o o
  <1>1. net \in Traffic /\ Sound(snd, S, A, peer)
    BY DEF SendInv
  <1>2. snd.unacked \o snd.unsent # <<>> /\ snd' = snd /\ peer' = peer
        /\ net' = [net EXCEPT !.segs = w, !.faults = f]
    BY DEF ProbeWindow, TimesOut
  <1>3. u \in Seq(Segments) /\ f \in Nat
    BY <1>1 DEF Traffic
  <1>4. t \in Segments /\ Part(t, snd) /\ (snd.state \in Open => OnTheWay(snd, t))
    BY <1>1, <1>2, ProbePart
  <1> HIDE DEF t
  <1>5. o \in Seq(Segments) /\ ElementsOf(o) = {t}
    BY <1>4, ElementsOfOne
  <1> HIDE DEF o
  <1>6. w \in Seq(Segments) /\ ElementsOf(w) = S \cup {t}
    <2> HIDE DEF u
    <2>1. u \o o \in Seq(Segments) /\ ElementsOf(u \o o) = ElementsOf(u) \cup ElementsOf(o)
      BY <1>3, <1>5, ElementsTogether
    <2> QED  BY <1>5, <2>1
  <1> HIDE DEF S, A, f, w
  <1>7. Sound(snd, S \cup {t}, A, peer)
    <2>1. {t} \subseteq Segments /\ (\A y \in {t} : Part(y, snd)) /\ (snd.state \in Open => \A y \in {t} : OnTheWay(snd, y))
      BY <1>4
    <2> QED  BY <1>1, <2>1, MoreSegments
  <1>8. net' \in Traffic /\ net'.segs = w /\ net'.acks = net.acks
    BY <1>1, <1>2, <1>3, <1>6 DEF Traffic
  <1> QED  BY <1>2, <1>6, <1>7, <1>8 DEF SendInv, A

\* tcp_slowtmr sends all again.
LEMMA RexmitKeeps ==
  ASSUME SendInv, Rexmit
  PROVE  SendInv'
  <1> DEFINE u == net.segs
             A == ElementsOf(net.acks)
             p == tcp_rexmit_rto(snd)
             f == IF Quiet THEN net.faults ELSE net.faults + 1
             w == u \o SegmentsOf(p)
  <1>1. net \in Traffic /\ Sound(snd, ElementsOf(u), A, peer)
    BY DEF SendInv
  <1>2. snd.unacked # <<>> /\ snd' = tcp_output(p) /\ peer' = peer
        /\ net' = [net EXCEPT !.segs = w, !.faults = f]
    BY DEF Rexmit, TimesOut, CanRexmit
  <1>3. f \in Nat /\ A \subseteq Ack
    BY <1>1 DEF Traffic, Sound, Ready
  <1>4. Ready(p, ElementsOf(u), A, peer)
    BY <1>1, <1>2, RtoReady
  <1> HIDE DEF p, A
  <1>5. w \in Seq(Segments) /\ Sound(tcp_output(p), ElementsOf(w), A, peer)
    BY <1>1, <1>3, <1>4, OutputsKeep
  <1> HIDE DEF w, f
  <1>6. net' \in Traffic /\ net'.segs = w /\ net'.acks = net.acks
    BY <1>1, <1>2, <1>3, <1>5 DEF Traffic
  <1> QED  BY <1>2, <1>5, <1>6 DEF SendInv, A

\* The invariant is inductive.
LEMMA SendKeeps ==
  ASSUME "fin" \notin Lossy, SendInv, [SendNext]_sendVars
  PROVE  SendInv'
  <1> DEFINE S == ElementsOf(net.segs)
             A == ElementsOf(net.acks)
  <1>1. net \in Traffic /\ Sound(snd, S, A, peer)
    BY DEF SendInv
  <1>2. ASSUME NEW n \in Writes, NEW close \in BOOLEAN, Write(n, close) PROVE SendInv'
    BY <1>2, WriteKeeps
  <1>3. CASE WriteFails
    <2>1. snd' = NoMemory(snd) /\ net' = net /\ peer' = peer
      BY <1>3 DEF WriteFails
    <2>2. Sound(NoMemory(snd), S, A, peer)
      BY <1>1, FailSound
    <2> QED  BY <1>1, <2>1, <2>2 DEF SendInv
  <1>4. CASE CloseNow
    <2>1. snd.state \in Open /\ CanFin(snd) /\ Outputs(Closed(snd)) /\ UNCHANGED peer
      BY <1>4 DEF CloseNow
    <2>2. Ready(Closed(snd), S, A, peer)
      BY <1>1, <2>1, CloseReady
    <2> QED  BY <1>1, <2>1, <2>2, OutputsSound
  <1>5. ASSUME NEW again \in BOOLEAN, tcp_input_ack(again) PROVE SendInv'
    BY <1>5, AckKeeps
  <1>6. ASSUME NEW again \in BOOLEAN, PeerReceives(again) PROVE SendInv'
    BY <1>6, PeerKeeps
  <1>7. CASE Rexmit
    BY <1>7, RexmitKeeps
  <1>8. CASE ProbeWindow
    BY <1>8, ProbeKeeps
  <1>9. CASE Poll
    <2>1. Outputs(snd) /\ UNCHANGED peer
      BY <1>9 DEF Poll
    <2>2. Ready(snd, S, A, peer)
      BY <1>1 DEF Sound
    <2> QED  BY <1>1, <2>1, <2>2, OutputsSound
  <1>10. CASE RemoveTimedOut
    <2>1. snd' = Purged(snd, "ABORTED") /\ net' = net /\ peer' = peer
      BY <1>10 DEF RemoveTimedOut
    <2>2. Sound(Purged(snd, "ABORTED"), S, A, peer)
      BY <1>1, PurgedSound
    <2> QED  BY <1>1, <2>1, <2>2 DEF SendInv
  <1>11. CASE PeerReads
    <2>1. UNCHANGED snd /\ peer' = [peer EXCEPT !.read = peer.rcv]
          /\ net' = [net EXCEPT !.acks = Append(@, Answer(peer', "update"))]
      BY <1>11 DEF PeerReads
    <2>2. Sound(snd, S, A \cup {Answer(peer', "update")}, peer')
      BY <1>1, <2>1, ReadsSound
    <2> QED  BY <1>1, <2>1, <2>2, TellsKeeps
  <1>12. CASE PeerCloses
    <2>1. UNCHANGED snd /\ peer' = [peer EXCEPT !.closed = TRUE] /\ snd.state \in Waits
          /\ net' = [net EXCEPT !.acks = Append(@, Answer(peer', "fin"))]
          /\ \A i \in DOMAIN net.acks : ~net.acks[i].fin
      BY <1>12 DEF PeerCloses, Waits
    <2>2. \A x \in A : ~x.fin
      BY <2>1 DEF ElementsOf
    <2>3. Sound(snd, S, A \cup {Answer(peer', "fin")}, peer')
      BY <1>1, <2>1, <2>2, ClosesSound
    <2> QED  BY <1>1, <2>1, <2>3, TellsKeeps
  <1>13. CASE LoseSegment
    BY <1>13, LoseSegmentKeeps
  <1>14. CASE LoseAck
    BY <1>14, LoseAckKeeps
  <1>15. CASE UNCHANGED sendVars
    <2>1. snd' = snd /\ net' = net /\ peer' = peer
      BY <1>15 DEF sendVars
    <2> QED  BY <2>1 DEF SendInv
  <1> QED  BY <1>2, <1>3, <1>4, <1>5, <1>6, <1>7, <1>8, <1>9, <1>10, <1>11, <1>12, <1>13, <1>14, <1>15 DEF SendNext

\* What the invariant says of the queues and the window.
LEMMA InvWithin == SendInv => WithinWindow
  <1> SUFFICES ASSUME SendInv, NEW i \in DOMAIN snd.unacked
               PROVE  snd.unacked[i].seq + snd.unacked[i].len <= peer.read + PeerBuf
    BY DEF WithinWindow
  <1>1. Within(snd, peer)
    BY DEF SendInv, Sound, Ready
  <1>2. snd.unacked[i] \in ElementsOf(snd.unacked)
    BY DEF ElementsOf
  <1> QED  BY <1>1, <1>2 DEF Within, Upper

\* The queues hold each byte once, and snd_buf counts.
LEMMA InvQueues == SendInv => QueuesHold
  <1> SUFFICES ASSUME SendInv PROVE QueuesHold
    OBVIOUS
  <1> DEFINE p == snd
             c == p.unacked \o p.unsent
             k == p.lastack
             z == p.snd_lbb
             m == mss_local(p)
  <1>1. p \in Pcb /\ (p.state \in Open => Sums(p) /\ InLine(p))
    BY DEF SendInv, Sound, Ready, OpenSums
  <1>2. SendTypeOK
    BY <1>1 DEF SendTypeOK, Pcb, Octet, Dupacks
  <1>3. ASSUME p.state \in Open
        PROVE  /\ p.snd_buf = SndBuf - (p.snd_lbb - p.lastack)
               /\ \A i \in 1 .. Len(c) - 1 : c[i].seq + c[i].len = c[i + 1].seq
               /\ IF c = <<>> THEN k = z ELSE c[1].seq <= k /\ Span(c) = z
    <2>1. p.snd_buf = SndBuf - (p.snd_lbb - p.lastack)
      BY <1>1, <1>3 DEF Sums
    <2>2. Line(c, k, z, m) /\ k \in Nat /\ z \in Nat
      BY <1>1, <1>3 DEF InLine, Pcb
    <2> HIDE DEF c, k, z, m
    <2>3. PICK x \in Nat : x <= k /\ Chain(c, x, z, m) /\ k <= z
      BY <2>2 DEF Line
    <2>4. \A i \in 1 .. Len(c) - 1 : c[i].seq + c[i].len = c[i + 1].seq
      BY <2>3 DEF Chain, Upper
    <2>5. CASE c = <<>>
      <3>1. x = z
        BY <2>3, <2>5 DEF Chain
      <3>2. k = z
        BY <2>2, <2>3, <3>1
      <3> QED  BY <2>1, <2>4, <2>5, <3>2
    <2>6. CASE c # <<>>
      <3>1. c[1].seq = x /\ Upper(c[Len(c)]) = z
        BY <2>3, <2>6 DEF Chain
      <3>2. c[1].seq <= k /\ Span(c) = z
        BY <2>3, <2>6, <3>1 DEF Span, Upper
      <3> QED  BY <2>1, <2>4, <2>6, <3>2
    <2> QED  BY <2>5, <2>6
  <1> QED  BY <1>2, <1>3 DEF QueuesHold

\* The invariant holds in every state of the connection, when the FIN of the
\* peer is not lost.
THEOREM SenderIsSound ==
  ASSUME "fin" \notin Lossy
  PROVE  SendSpec => []SendInv
  <1>1. SendInit => SendInv
    BY SendStarts
  <1>2. SendInv /\ [SendNext]_sendVars => SendInv'
    BY SendKeeps
  <1> QED  BY <1>1, <1>2, PTL DEF SendSpec

\* What tcp_output sends fits in the window the peer told of, whatever ACKs
\* arrive late, twice or out of order (tcp_receive).
THEOREM SentWithinWindow ==
  ASSUME "fin" \notin Lossy
  PROVE  SendSpec => []WithinWindow
  <1>1. SendSpec => []SendInv
    BY SenderIsSound
  <1>2. SendInv => WithinWindow
    BY InvWithin
  <1> QED  BY <1>1, <1>2, PTL

\* The unacknowledged and the unsent segments hold each byte that is not
\* acknowledged once and in order, and snd_buf is what is left of the buffer.
THEOREM QueuesHoldEachByte ==
  ASSUME "fin" \notin Lossy
  PROVE  SendSpec => []QueuesHold
  <1>1. SendSpec => []SendInv
    BY SenderIsSound
  <1>2. SendInv => QueuesHold
    BY InvQueues
  <1> QED  BY <1>1, <1>2, PTL
=============================================================================
