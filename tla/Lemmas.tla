------------------------------- MODULE Lemmas -------------------------------
(***************************************************************************)
(* Facts that the proofs of several components rest on: least elements,    *)
(* induction over the natural numbers and recursion, and lists as the      *)
(* stack keeps them, on which nothing is twice.                            *)
(*                                                                         *)
(* Induction is stated for a set, the numbers with the property that is to *)
(* be shown, and so needs no operator as a parameter.                      *)
(***************************************************************************)
EXTENDS Integers, Sequences, FiniteSetsExt, WellFoundedInduction, TLAPS

\* A set of natural numbers has a least one.
LEMMA MinOfNats ==
  ASSUME NEW S, S \subseteq Nat, S # {}
  PROVE  Min(S) \in S /\ \A x \in S : Min(S) <= x
  <1>1. \E x \in S : \A y \in S : ~(<<y, x>> \in OpToRel(<, Nat))
    BY NatLessThanWellFounded, WFMin
  <1>2. \E x \in S : \A y \in S : ~(y < x)
    BY <1>1, Zenon DEF OpToRel
  <1>3. \E x \in S : \A y \in S : x <= y
    BY <1>2
  <1> QED  BY <1>3 DEF Min

\* The lesser and the greater of two numbers.
LEMMA MinOfTwo == ASSUME NEW a \in Int, NEW b \in Int PROVE Min({a, b}) = IF a <= b THEN a ELSE b
  <1>1. \E x \in {a, b} : \A y \in {a, b} : x =< y
    <2>1. CASE a <= b
      BY <2>1
    <2>2. CASE b <= a
      BY <2>2
    <2> QED
      BY <2>1, <2>2
  <1>2. Min({a, b}) \in {a, b} /\ \A y \in {a, b} : Min({a, b}) =< y
    BY <1>1 DEF Min
  <1> QED
    BY <1>2

LEMMA MaxOfTwo == ASSUME NEW a \in Int, NEW b \in Int PROVE Max({a, b}) = IF a >= b THEN a ELSE b
  <1>1. \E x \in {a, b} : \A y \in {a, b} : x >= y
    <2>1. CASE a >= b
      BY <2>1
    <2>2. CASE b >= a
      BY <2>2
    <2> QED
      BY <2>1, <2>2
  <1>2. Max({a, b}) \in {a, b} /\ \A y \in {a, b} : Max({a, b}) >= y
    BY <1>1 DEF Max
  <1> QED
    BY <1>2

\* The greatest of some numbers that are not beyond a bound.
LEMMA MaxOfBounded ==
  ASSUME NEW S, NEW b \in Nat, S \subseteq 0 .. b, S # {}
  PROVE  Max(S) \in S /\ \A x \in S : x <= Max(S)
  <1> DEFINE D == {b - x : x \in S}
  <1>1. D \subseteq Nat /\ D # {}
    <2>1. \A x \in S : b - x \in Nat
      OBVIOUS
    <2> QED  BY <2>1
  <1>2. Min(D) \in D /\ \A y \in D : Min(D) <= y
    BY <1>1, MinOfNats
  <1>3. PICK m \in S : Min(D) = b - m
    BY <1>2
  <1> HIDE DEF D
  <1>4. \A x \in S : b - x \in D
    BY DEF D
  <1>5. \A x \in S : m >= x
    BY <1>2, <1>3, <1>4
  <1> QED  BY <1>5 DEF Max

\* Induction: a set with 0 and the successors of its members has all numbers.
LEMMA Induct ==
  ASSUME NEW S, 0 \in S, \A n \in Nat : n \in S => n + 1 \in S
  PROVE  Nat \subseteq S
  <1> SUFFICES ASSUME Nat \ S # {} PROVE FALSE
    OBVIOUS
  <1>1. Min(Nat \ S) \in Nat \ S /\ \A x \in Nat \ S : Min(Nat \ S) <= x
    BY MinOfNats
  <1> DEFINE n == Min(Nat \ S)
  <1>2. n \in Nat /\ n \notin S /\ n # 0
    BY <1>1
  <1> HIDE DEF n
  <1>3. n - 1 \in Nat /\ (n - 1) + 1 = n
    BY <1>2
  <1>4. n - 1 \in S
    BY <1>1, <1>3 DEF n
  <1> QED
    BY <1>2, <1>3, <1>4

\* f makes n steps on S, from c; they can be made, whatever they are.
StepsOn(step, S, n) == step \in [1 .. n -> [S -> S]]
Makes(f, S, c, n, step) ==
    f \in [0 .. n -> S] /\ f[0] = c /\ \A i \in 1 .. n : f[i] = step[i][f[i - 1]]

LEMMA Recursion ==
  ASSUME NEW S, NEW c \in S, NEW n \in Nat, NEW step, StepsOn(step, S, n)
  PROVE  \E f : Makes(f, S, c, n, step)
  <1> USE DEF StepsOn
  <1> DEFINE To(k) == \E f \in [0 .. k -> S] : f[0] = c /\ \A i \in 1 .. k : f[i] = step[i][f[i - 1]]
             T == {k \in Nat : k <= n => To(k)}
  <1>1. 0 \in T
    <2> DEFINE f == [i \in 0 .. 0 |-> c]
    <2>1. f \in [0 .. 0 -> S] /\ f[0] = c /\ \A i \in 1 .. 0 : f[i] = step[i][f[i - 1]]
      OBVIOUS
    <2> HIDE DEF f
    <2> QED  BY <2>1
  <1>2. ASSUME NEW k \in Nat, k \in T PROVE k + 1 \in T
    <2> SUFFICES ASSUME k + 1 <= n PROVE To(k + 1)
      OBVIOUS
    <2>1. PICK f \in [0 .. k -> S] : f[0] = c /\ \A i \in 1 .. k : f[i] = step[i][f[i - 1]]
      BY <1>2
    <2> DEFINE g == [i \in 0 .. k + 1 |-> IF i <= k THEN f[i] ELSE step[k + 1][f[k]]]
    <2>2. k + 1 \in 1 .. n /\ k \in 0 .. k
      OBVIOUS
    <2>3. step[k + 1] \in [S -> S] /\ f[k] \in S
      BY <2>2
    <2>4. step[k + 1][f[k]] \in S
      BY <2>3
    <2>5. g \in [0 .. k + 1 -> S]
      BY <2>4
    <2>6. g[0] = c
      BY <2>1
    <2>7. ASSUME NEW i \in 1 .. k + 1 PROVE g[i] = step[i][g[i - 1]]
      <3>1. g[i - 1] = f[i - 1]
        OBVIOUS
      <3>2. CASE i \in 1 .. k
        BY <2>1, <3>1, <3>2
      <3>3. CASE i = k + 1
        BY <3>1, <3>3
      <3> QED  BY <3>2, <3>3
    <2> HIDE DEF g
    <2> QED  BY <2>5, <2>6, <2>7
  <1>3. n \in T
    <2> HIDE DEF T
    <2> QED  BY <1>1, <1>2, Induct
  <1> QED  BY <1>3 DEF Makes

-----------------------------------------------------------------------------
\* What a concatenation is made of.
LEMMA Concatenation ==
  ASSUME NEW S, NEW a \in Seq(S), NEW b \in Seq(S)
  PROVE  /\ a \o b \in Seq(S) /\ Len(a \o b) = Len(a) + Len(b)
         /\ \A i \in 1 .. Len(a) + Len(b) : (a \o b)[i] = IF i <= Len(a) THEN a[i] ELSE b[i - Len(a)]
  OBVIOUS

\* Two sequences that agree at every place are the same.
LEMMA SameSequence ==
  ASSUME NEW S, NEW s \in Seq(S), NEW t \in Seq(S), Len(s) = Len(t), \A i \in 1 .. Len(s) : s[i] = t[i]
  PROVE  s = t
  <1>1. DOMAIN s = DOMAIN t
    OBVIOUS
  <1> QED  BY <1>1

\* Nothing is twice on list s; what is on it.
OnceEach(s) == \A i, j \in DOMAIN s : i # j => s[i] # s[j]
ElementsOf(s) == {s[i] : i \in DOMAIN s}

\* An element is put in front of a list that does not have it.
LEMMA Prepended ==
  ASSUME NEW S, NEW s \in Seq(S), NEW p \in S, p \notin ElementsOf(s), OnceEach(s)
  PROVE  /\ <<p>> \o s \in Seq(S) /\ OnceEach(<<p>> \o s)
         /\ ElementsOf(<<p>> \o s) = ElementsOf(s) \cup {p}
         /\ (<<p>> \o s)[1] = p
  <1> DEFINE t == <<p>> \o s
  <1>1. t \in Seq(S) /\ Len(t) = Len(s) + 1 /\ t[1] = p /\ \A i \in 1 .. Len(s) : t[i + 1] = s[i]
    OBVIOUS
  <1>2. DOMAIN t = 1 .. Len(s) + 1 /\ DOMAIN s = 1 .. Len(s) /\ Len(s) \in Nat
    BY <1>1
  <1> HIDE DEF t
  <1>3. \A i \in DOMAIN t : i = 1 \/ (i - 1 \in DOMAIN s /\ t[i] = s[i - 1])
    <2> SUFFICES ASSUME NEW i \in 2 .. Len(s) + 1 PROVE i - 1 \in DOMAIN s /\ t[i] = s[i - 1]
      BY <1>2
    <2>1. i - 1 \in 1 .. Len(s) /\ (i - 1) + 1 = i
      BY <1>2
    <2> QED  BY <1>1, <1>2, <2>1
  <1>4. ElementsOf(t) = ElementsOf(s) \cup {p}
    <2>1. \A i \in DOMAIN s : i + 1 \in DOMAIN t /\ t[i + 1] = s[i]
      BY <1>1, <1>2
    <2>2. 1 \in DOMAIN t
      BY <1>2
    <2> QED  BY <1>1, <1>3, <2>1, <2>2 DEF ElementsOf
  <1>5. OnceEach(t)
    <2> SUFFICES ASSUME NEW i \in DOMAIN t, NEW j \in DOMAIN t, i # j PROVE t[i] # t[j]
      BY DEF OnceEach
    <2>1. \A k \in DOMAIN s : s[k] # p
      BY DEF ElementsOf
    <2>2. CASE i = 1
      BY <1>1, <1>3, <2>1, <2>2
    <2>3. CASE j = 1
      BY <1>1, <1>3, <2>1, <2>3
    <2>4. CASE i # 1 /\ j # 1
      <3>1. i - 1 # j - 1
        BY <1>2
      <3>. QED  BY <1>3, <2>4, <3>1 DEF OnceEach
    <2> QED  BY <2>2, <2>3, <2>4
  <1> QED  BY <1>1, <1>4, <1>5 DEF t

\* The list without the element at place k.
LEMMA CutAt ==
  ASSUME NEW S, NEW s \in Seq(S), NEW k \in DOMAIN s
  PROVE  LET t == SubSeq(s, 1, k - 1) \o SubSeq(s, k + 1, Len(s))
         IN /\ t \in Seq(S) /\ Len(t) = Len(s) - 1
            /\ \A i \in 1 .. Len(s) - 1 : t[i] = IF i < k THEN s[i] ELSE s[i + 1]
  <1> DEFINE a == SubSeq(s, 1, k - 1)
             b == SubSeq(s, k + 1, Len(s))
             t == a \o b
  <1>1. k \in 1 .. Len(s) /\ Len(s) \in Nat /\ DOMAIN s = 1 .. Len(s)
    OBVIOUS
  <1>2. a \in Seq(S) /\ Len(a) = k - 1 /\ \A i \in 1 .. k - 1 : a[i] = s[i]
    BY <1>1
  <1>3. b \in Seq(S) /\ Len(b) = Len(s) - k /\ \A i \in 1 .. Len(s) - k : b[i] = s[k + i]
    BY <1>1
  <1> HIDE DEF a, b
  <1>4. t \in Seq(S) /\ Len(t) = Len(s) - 1 /\ DOMAIN t = 1 .. Len(s) - 1
    <2>1. t \in Seq(S) /\ Len(t) = Len(a) + Len(b)
      BY <1>2, <1>3, Concatenation
    <2>2. Len(a) + Len(b) = Len(s) - 1
      BY <1>1, <1>2, <1>3
    <2> QED  BY <2>1, <2>2
  <1>a. \A i \in 1 .. Len(a) + Len(b) : t[i] = IF i <= Len(a) THEN a[i] ELSE b[i - Len(a)]
    BY <1>2, <1>3, Concatenation
  <1> HIDE DEF t
  <1>5. \A i \in 1 .. Len(s) - 1 : t[i] = IF i < k THEN s[i] ELSE s[i + 1]
    <2> SUFFICES ASSUME NEW i \in 1 .. Len(s) - 1 PROVE t[i] = IF i < k THEN s[i] ELSE s[i + 1]
      OBVIOUS
    <2>. i \in 1 .. Len(a) + Len(b) /\ k \in Nat
      BY <1>1, <1>2, <1>3
    <2>1. CASE i < k
      <3>1. i <= Len(a) /\ i \in 1 .. k - 1
        BY <1>1, <1>2, <2>1
      <3>. QED  BY <1>2, <1>a, <2>1, <3>1
    <2>2. CASE i >= k
      <3>1. t[i] = b[i - Len(a)]
        <4>1. ~(i <= Len(a))
          BY <1>1, <1>2, <2>2
        <4>. QED  BY <1>a, <4>1
      <3>2. i - Len(a) = i - k + 1 /\ i - k + 1 \in 1 .. Len(s) - k /\ k + (i - k + 1) = i + 1
        BY <1>1, <1>2, <2>2
      <3>3. b[i - k + 1] = s[k + (i - k + 1)]
        BY <1>3, <3>2
      <3>4. ~(i < k)
        BY <1>1, <2>2
      <3>. QED  BY <3>1, <3>2, <3>3, <3>4
    <2> QED  BY <1>1, <2>1, <2>2
  <1> QED  BY <1>4, <1>5 DEF t, a, b

\* The element at place k is taken off the list.
LEMMA CutOut ==
  ASSUME NEW S, NEW s \in Seq(S), NEW k \in DOMAIN s, OnceEach(s)
  PROVE  LET t == SubSeq(s, 1, k - 1) \o SubSeq(s, k + 1, Len(s))
         IN t \in Seq(S) /\ OnceEach(t) /\ ElementsOf(t) = ElementsOf(s) \ {s[k]}
  <1> DEFINE t == SubSeq(s, 1, k - 1) \o SubSeq(s, k + 1, Len(s))
  <1>1. k \in 1 .. Len(s) /\ Len(s) \in Nat /\ DOMAIN s = 1 .. Len(s)
    OBVIOUS
  <1>2. /\ t \in Seq(S) /\ Len(t) = Len(s) - 1
        /\ \A i \in 1 .. Len(s) - 1 : t[i] = IF i < k THEN s[i] ELSE s[i + 1]
    BY CutAt
  <1> HIDE DEF t
  <1>4. DOMAIN t = 1 .. Len(s) - 1
    BY <1>2
  <1>5. \A i \in DOMAIN t : t[i] = IF i < k THEN s[i] ELSE s[i + 1]
    BY <1>2, <1>4
  <1> DEFINE From(i) == IF i < k THEN i ELSE i + 1
  <1>6. \A i \in DOMAIN t : From(i) \in DOMAIN s /\ From(i) # k /\ t[i] = s[From(i)]
    BY <1>1, <1>4, <1>5
  <1>7. \A i, j \in DOMAIN t : i # j => From(i) # From(j)
    BY <1>1, <1>4
  <1>8. \A m \in DOMAIN s : m # k => \E i \in DOMAIN t : From(i) = m
    <2> SUFFICES ASSUME NEW m \in DOMAIN s, m # k PROVE \E i \in DOMAIN t : From(i) = m
      OBVIOUS
    <2>1. CASE m < k
      <3>1. m \in DOMAIN t /\ From(m) = m
        BY <1>1, <1>4, <2>1
      <3>. QED  BY <3>1
    <2>2. CASE m > k
      <3>1. m - 1 \in DOMAIN t /\ From(m - 1) = m
        BY <1>1, <1>4, <2>2
      <3>. QED  BY <3>1
    <2> QED  BY <1>1, <2>1, <2>2
  <1> HIDE DEF From
  <1>9. OnceEach(t)
    BY <1>6, <1>7 DEF OnceEach
  <1>10. ElementsOf(t) = ElementsOf(s) \ {s[k]}
    <2>1. ASSUME NEW i \in DOMAIN t PROVE t[i] \in ElementsOf(s) \ {s[k]}
      BY <1>6 DEF OnceEach, ElementsOf
    <2>2. ASSUME NEW m \in DOMAIN s, s[m] # s[k] PROVE s[m] \in ElementsOf(t)
      BY <1>6, <1>8, <2>2 DEF ElementsOf
    <2> QED  BY <2>1, <2>2 DEF ElementsOf
  <1> QED  BY <1>2, <1>9, <1>10 DEF t
=============================================================================
