--------------------------- MODULE SanitizeProofs ---------------------------
(***************************************************************************)
(* Theorems about Sanitize, for pages of any pieces and any labels.        *)
(***************************************************************************)
EXTENDS Sanitize, SequenceTheorems, WellFoundedInduction, TLAPS

-----------------------------------------------------------------------------
(* Recursive functions on sets whose elements have a measure.              *)

LEMMA LeastNumber ==
  ASSUME NEW Bad \in SUBSET Nat, Bad # {}
  PROVE  \E n \in Bad : \A m \in Bad : n <= m
<1>1. PICK n \in Bad : \A m \in Bad : <<m, n>> \notin OpToRel(<, Nat)
  BY NatLessThanWellFounded, WFMin
<1>2. \A m \in Bad : ~(m < n)
  BY <1>1 DEF OpToRel
<1> QED
  BY <1>2

(* What is so of an element because it is so of smaller ones is so of all. *)
Descends(I, m, Good) ==
  /\ m \in [I -> Nat]
  /\ Good \in SUBSET I
  /\ \A i \in I \ Good : \E j \in I \ Good : m[j] < m[i]

LEMMA Descent ==
  ASSUME NEW I, NEW m, NEW Good, Descends(I, m, Good)
  PROVE  Good = I
<1> SUFFICES ASSUME I \ Good # {}
             PROVE  FALSE
  BY DEF Descends
<1>0. m \in [I -> Nat] /\ \A i \in I \ Good : \E j \in I \ Good : m[j] < m[i]
  BY DEF Descends
<1> DEFINE Bad == {m[i] : i \in I \ Good}
<1>1. Bad \in SUBSET Nat /\ Bad # {}
  BY <1>0
<1>2. PICK n \in Bad : \A k \in Bad : n <= k
  <2> HIDE DEF Bad
  <2> QED
    BY <1>1, LeastNumber
<1>3. PICK i \in I \ Good : n = m[i]
  OBVIOUS
<1>4. PICK j \in I \ Good : m[j] < m[i]
  BY <1>0
<1>5. m[j] \in Bad /\ m[i] \in Nat /\ m[j] \in Nat
  BY <1>0
<1>6. n <= m[j]
  BY <1>2, <1>5
<1> QED
  BY <1>3, <1>4, <1>5, <1>6

(* A function that is given at some elements and taken from a smaller      *)
(* element elsewhere.                                                      *)
Recurs(I, m, V, ends, base, step, next) ==
  /\ m \in [I -> Nat]
  /\ \E bound \in Nat : \A i \in I : m[i] <= bound
  /\ ends \in SUBSET I
  /\ base \in [I -> V]
  /\ step \in [I \X V -> V]
  /\ next \in [I -> I]
  /\ \A i \in I \ ends : m[next[i]] < m[i]

Solution(f, I, V, ends, base, step, next) ==
  /\ f \in [I -> V]
  /\ f = [i \in I |-> IF i \in ends THEN base[i] ELSE step[<<i, f[next[i]]>>]]

LEMMA Recursion ==
  ASSUME NEW I, NEW m, NEW V, NEW ends, NEW base, NEW step, NEW next,
         Recurs(I, m, V, ends, base, step, next)
  PROVE  \E f : Solution(f, I, V, ends, base, step, next)
<1> USE DEF Recurs
<1>0. PICK bound \in Nat : \A i \in I : m[i] <= bound
  OBVIOUS
<1> DEFINE Below(k) == {i \in I : m[i] <= k}
           Solves(f, k) ==
             /\ f \in [Below(k) -> V]
             /\ \A i \in Below(k) :
                  f[i] = IF i \in ends THEN base[i] ELSE step[<<i, f[next[i]]>>]
           Bad == {k \in Nat : ~ \E f : Solves(f, k)}
<1>1. Bad = {}
  <2> SUFFICES ASSUME Bad # {}
               PROVE  FALSE
    OBVIOUS
  <2>1. PICK k \in Bad : \A n \in Bad : k <= n
    <3>1. Bad \in SUBSET Nat
      OBVIOUS
    <3> HIDE DEF Bad
    <3> QED
      BY <3>1, LeastNumber
  <2>2. PICK g : k # 0 => Solves(g, k - 1)
    <3>1. CASE k # 0
      <4>1. k \in Nat
        OBVIOUS
      <4> HIDE DEF Bad
      <4>2. k - 1 \in Nat /\ ~(k <= k - 1)
        BY <3>1, <4>1
      <4>3. k - 1 \notin Bad
        BY <2>1, <4>2
      <4> QED
        BY <4>2, <4>3 DEF Bad
    <3> QED
      BY <3>1
  <2> DEFINE v(i) == IF i \in ends THEN base[i] ELSE step[<<i, g[next[i]]>>]
             f == [i \in Below(k) |-> v(i)]
  <2>3. \A i \in Below(k) \ ends : k # 0 /\ next[i] \in Below(k - 1)
    OBVIOUS
  <2>4. \A i \in Below(k) : v(i) \in V
    <3> SUFFICES ASSUME NEW i \in Below(k)
                 PROVE  v(i) \in V
      OBVIOUS
    <3>1. CASE i \in ends
      BY <3>1
    <3>2. CASE i \notin ends
      <4>1. g[next[i]] \in V
        BY <2>2, <2>3, <3>2
      <4> QED
        BY <3>2, <4>1
    <3> QED
      BY <3>1, <3>2
  <2>5. \A i \in Below(k) \ ends : f[next[i]] = g[next[i]]
    <3> SUFFICES ASSUME NEW i \in Below(k) \ ends
                 PROVE  v(next[i]) = g[next[i]] /\ next[i] \in Below(k)
      OBVIOUS
    <3>1. k # 0 /\ next[i] \in Below(k - 1)
      BY <2>3
    <3>2. g[next[i]] = v(next[i])
      BY <2>2, <3>1
    <3> QED
      BY <3>1, <3>2
  <2>6. Solves(f, k)
    <3>1. f \in [Below(k) -> V]
      BY <2>4
    <3>2. ASSUME NEW i \in Below(k)
          PROVE  f[i] = IF i \in ends THEN base[i] ELSE step[<<i, f[next[i]]>>]
      BY <2>5
    <3> QED
      BY <3>1, <3>2
  <2> QED
    BY <2>1, <2>6
<1>2. PICK f : Solves(f, bound)
  BY <1>1
<1>3. Below(bound) = I
  BY <1>0
<1>4. f \in [I -> V]
  BY <1>2, <1>3
<1>5. \A i \in I : f[i] = IF i \in ends THEN base[i] ELSE step[<<i, f[next[i]]>>]
  BY <1>2, <1>3
<1>6. f = [i \in I |-> f[i]]
  BY <1>4
<1>7. f = [i \in I |-> IF i \in ends THEN base[i] ELSE step[<<i, f[next[i]]>>]]
  BY <1>5, <1>6
<1> QED
  BY <1>4, <1>7 DEF Solution

-----------------------------------------------------------------------------
(* Where a pattern occurs.                                                 *)

OccursAt(s, p, j) ==
  /\ j \in 1..(Len(s) - Len(p) + 1)
  /\ \A k \in 1..Len(p) : s[j + k - 1] = p[k]

LEMMA OccursIs ==
  ASSUME NEW S, NEW s \in Seq(S), NEW p \in Seq(S), NEW j
  PROVE  j \in Occurrences(s, p) <=> OccursAt(s, p, j)
<1>1. Len(s) \in Nat /\ Len(p) \in Nat
  BY LenProperties
<1>2. ASSUME j \in 1..(Len(s) - Len(p) + 1)
      PROVE  SubSeq(s, j, j + Len(p) - 1) = p <=> \A k \in 1..Len(p) : s[j + k - 1] = p[k]
  <2> DEFINE w == SubSeq(s, j, j + Len(p) - 1)
  <2>1. \A i \in j..(j + Len(p) - 1) : s[i] \in S
    BY <1>1, <1>2, ElementOfSeq
  <2>2. /\ w \in Seq(S) /\ Len(w) = Len(p)
        /\ \A k \in 1..Len(p) : w[k] = s[j + k - 1]
    <3>1. j \in Int /\ j + Len(p) - 1 \in Int /\ (j + Len(p) - 1) - j + 1 = Len(p)
      BY <1>1, <1>2
    <3> QED
      BY <1>1, <2>1, <3>1, SubSeqProperties
  <2> HIDE DEF w
  <2>3. w = p => \A k \in 1..Len(p) : w[k] = p[k]
    OBVIOUS
  <2>4. (\A k \in 1..Len(p) : w[k] = p[k]) => w = p
    BY <2>2, SeqEqual
  <2>5. w = p <=> \A k \in 1..Len(p) : s[j + k - 1] = p[k]
    BY <2>2, <2>3, <2>4
  <2> QED
    BY <2>5 DEF w
<1> QED
  BY <1>2 DEF Occurrences, OccursAt

(* Where two texts meet at a unit the pattern does not have, it occurs in  *)
(* one or the other.                                                       *)
Apart(a, b, p) ==
  Len(a) > 0 /\ Len(b) > 0 =>
    \/ \A k \in 1..Len(p) : a[Len(a)] # p[k]
    \/ \A k \in 1..Len(p) : b[1] # p[k]

LEMMA OccursInConcat ==
  ASSUME NEW S, NEW a \in Seq(S), NEW b \in Seq(S), NEW p \in Seq(S), Len(p) > 0, Apart(a, b, p)
  PROVE  Occurrences(a \o b, p) =
           Occurrences(a, p) \cup {Len(a) + j : j \in Occurrences(b, p)}
<1> DEFINE c == a \o b
<1>1. Len(a) \in Nat /\ Len(b) \in Nat /\ Len(p) \in Nat
  BY LenProperties
<1>2. /\ c \in Seq(S) /\ Len(c) = Len(a) + Len(b)
      /\ \A i \in 1..(Len(a) + Len(b)) : c[i] = IF i <= Len(a) THEN a[i] ELSE b[i - Len(a)]
  BY ConcatProperties
<1> HIDE DEF c
<1>3. ASSUME NEW j, OccursAt(c, p, j)
      PROVE  OccursAt(a, p, j) \/ (j - Len(a) \in Int /\ OccursAt(b, p, j - Len(a)))
  <2>1. /\ j \in 1..(Len(a) + Len(b) - Len(p) + 1)
        /\ \A k \in 1..Len(p) : j + k - 1 \in 1..(Len(a) + Len(b)) /\ c[j + k - 1] = p[k]
    BY <1>1, <1>2, <1>3 DEF OccursAt
  <2>2. CASE j + Len(p) - 1 <= Len(a)
    <3>1. \A k \in 1..Len(p) : c[j + k - 1] = a[j + k - 1]
      <4> SUFFICES ASSUME NEW k \in 1..Len(p)
                   PROVE  c[j + k - 1] = a[j + k - 1]
        OBVIOUS
      <4>1. j + k - 1 \in 1..(Len(a) + Len(b)) /\ j + k - 1 <= Len(a)
        BY <1>1, <2>1, <2>2
      <4> QED
        BY <1>2, <4>1
    <3>2. j \in 1..(Len(a) - Len(p) + 1)
      BY <1>1, <2>1, <2>2
    <3> QED
      BY <2>1, <3>1, <3>2 DEF OccursAt
  <2>3. CASE j > Len(a)
    <3>1. \A k \in 1..Len(p) : c[j + k - 1] = b[(j - Len(a)) + k - 1]
      <4> SUFFICES ASSUME NEW k \in 1..Len(p)
                   PROVE  c[j + k - 1] = b[(j - Len(a)) + k - 1]
        OBVIOUS
      <4>1. ~(j + k - 1 <= Len(a)) /\ (j + k - 1) - Len(a) = (j - Len(a)) + k - 1
        BY <1>1, <2>1, <2>3
      <4>2. c[j + k - 1] = b[(j + k - 1) - Len(a)]
        BY <1>2, <2>1, <4>1
      <4> QED
        BY <4>1, <4>2
    <3>2. j - Len(a) \in 1..(Len(b) - Len(p) + 1)
      BY <1>1, <2>1, <2>3
    <3> QED
      BY <2>1, <3>1, <3>2 DEF OccursAt
  <2>4. CASE j <= Len(a) /\ j + Len(p) - 1 > Len(a)
    <3>1. PICK k : k = Len(a) - j + 1
      OBVIOUS
    <3>2. k \in 1..Len(p) /\ k + 1 \in 1..Len(p) /\ j + k - 1 = Len(a) /\ j + (k + 1) - 1 = Len(a) + 1
      BY <1>1, <2>1, <2>4, <3>1
    <3>3. Len(a) > 0 /\ Len(b) > 0
      BY <1>1, <2>1, <2>4
    <3>4. c[Len(a)] = a[Len(a)]
      BY <1>1, <1>2, <3>3
    <3>5. c[Len(a) + 1] = b[1]
      <4>1. ~(Len(a) + 1 <= Len(a)) /\ (Len(a) + 1) - Len(a) = 1 /\ Len(a) + 1 \in 1..(Len(a) + Len(b))
        BY <1>1, <3>3
      <4> QED
        BY <1>2, <4>1
    <3>6. a[Len(a)] = p[k] /\ b[1] = p[k + 1]
      BY <2>1, <3>2, <3>4, <3>5
    <3> QED
      BY <3>2, <3>3, <3>6 DEF Apart
  <2> QED
    BY <1>1, <2>1, <2>2, <2>3, <2>4
<1>4. ASSUME NEW j, OccursAt(a, p, j)
      PROVE  OccursAt(c, p, j)
  <2>1. /\ j \in 1..(Len(a) - Len(p) + 1)
        /\ \A k \in 1..Len(p) : a[j + k - 1] = p[k]
    BY <1>4 DEF OccursAt
  <2>2. \A k \in 1..Len(p) : c[j + k - 1] = a[j + k - 1]
    <3> SUFFICES ASSUME NEW k \in 1..Len(p)
                 PROVE  c[j + k - 1] = a[j + k - 1]
      OBVIOUS
    <3>1. j + k - 1 \in 1..(Len(a) + Len(b)) /\ j + k - 1 <= Len(a)
      BY <1>1, <2>1
    <3> QED
      BY <1>2, <3>1
  <2>3. j \in 1..(Len(c) - Len(p) + 1)
    BY <1>1, <1>2, <2>1
  <2> QED
    BY <2>1, <2>2, <2>3 DEF OccursAt
<1>5. ASSUME NEW j, OccursAt(b, p, j)
      PROVE  OccursAt(c, p, Len(a) + j)
  <2>1. /\ j \in 1..(Len(b) - Len(p) + 1)
        /\ \A k \in 1..Len(p) : b[j + k - 1] = p[k]
    BY <1>5 DEF OccursAt
  <2>2. \A k \in 1..Len(p) : c[(Len(a) + j) + k - 1] = b[j + k - 1]
    <3> SUFFICES ASSUME NEW k \in 1..Len(p)
                 PROVE  c[(Len(a) + j) + k - 1] = b[j + k - 1]
      OBVIOUS
    <3>1. /\ (Len(a) + j) + k - 1 \in 1..(Len(a) + Len(b))
          /\ ~((Len(a) + j) + k - 1 <= Len(a))
          /\ ((Len(a) + j) + k - 1) - Len(a) = j + k - 1
      BY <1>1, <2>1
    <3> QED
      BY <1>2, <3>1
  <2>3. Len(a) + j \in 1..(Len(c) - Len(p) + 1)
    BY <1>1, <1>2, <2>1
  <2> QED
    BY <2>1, <2>2, <2>3 DEF OccursAt
<1>6. ASSUME NEW j
      PROVE  j \in Occurrences(c, p) <=>
               j \in Occurrences(a, p) \cup {Len(a) + i : i \in Occurrences(b, p)}
  <2>1. /\ j \in Occurrences(c, p) <=> OccursAt(c, p, j)
        /\ j \in Occurrences(a, p) <=> OccursAt(a, p, j)
    BY <1>2, OccursIs
  <2>2. \A i : i \in Occurrences(b, p) <=> OccursAt(b, p, i)
    BY OccursIs
  <2>3. ASSUME OccursAt(c, p, j), ~OccursAt(a, p, j)
        PROVE  j \in {Len(a) + i : i \in Occurrences(b, p)}
    <3>1. j - Len(a) \in Int /\ j - Len(a) \in Occurrences(b, p)
      BY <1>3, <2>2, <2>3
    <3>2. j \in Int
      BY <2>3 DEF OccursAt
    <3>3. j = Len(a) + (j - Len(a))
      BY <1>1, <3>2
    <3> QED
      BY <3>1, <3>3
  <2>4. ASSUME NEW i \in Occurrences(b, p), j = Len(a) + i
        PROVE  OccursAt(c, p, j)
    BY <1>5, <2>2, <2>4
  <2> QED
    BY <1>4, <2>1, <2>3, <2>4
<1> QED
  BY <1>6 DEF c

LEMMA OccursInPart ==
  ASSUME NEW S, NEW s \in Seq(S), NEW p \in Seq(S), Len(p) > 0,
         NEW i \in Int, NEW j \in Int, 1 <= i, j <= Len(s)
  PROVE  /\ SubSeq(s, i, j) \in Seq(S)
         /\ \A k \in Occurrences(SubSeq(s, i, j), p) :
              /\ k + i - 1 \in Occurrences(s, p)
              /\ k + i - 1 >= i
              /\ k + i - 1 + Len(p) <= j + 1
<1> DEFINE w == SubSeq(s, i, j)
<1>1. Len(s) \in Nat /\ Len(p) \in Nat
  BY LenProperties
<1>2. \A n \in i..j : s[n] \in S
  BY <1>1, ElementOfSeq
<1>3. /\ w \in Seq(S)
      /\ Len(w) = IF i <= j THEN j - i + 1 ELSE 0
      /\ \A n \in 1..(j - i + 1) : w[n] = s[i + n - 1]
  BY <1>2, SubSeqProperties
<1> HIDE DEF w
<1>4. ASSUME NEW k \in Occurrences(w, p)
      PROVE  /\ k + i - 1 \in Occurrences(s, p)
             /\ k + i - 1 >= i
             /\ k + i - 1 + Len(p) <= j + 1
  <2>1. OccursAt(w, p, k)
    BY <1>3, OccursIs
  <2>2. /\ k \in 1..(Len(w) - Len(p) + 1)
        /\ \A n \in 1..Len(p) : w[k + n - 1] = p[n]
    BY <2>1 DEF OccursAt
  <2>3. i <= j /\ k \in Nat /\ k >= 1 /\ k + Len(p) <= j - i + 2
    BY <1>1, <1>3, <2>2
  <2>4. k + i - 1 \in 1..(Len(s) - Len(p) + 1) /\ k + i - 1 + Len(p) <= j + 1
    BY <1>1, <2>3
  <2>5. ASSUME NEW n \in 1..Len(p)
        PROVE  s[(k + i - 1) + n - 1] = p[n]
    <3>1. k + n - 1 \in 1..(j - i + 1) /\ i + (k + n - 1) - 1 = (k + i - 1) + n - 1
      BY <1>1, <2>3
    <3>2. w[k + n - 1] = s[i + (k + n - 1) - 1]
      BY <1>3, <3>1
    <3> QED
      BY <2>2, <3>1, <3>2
  <2>6. OccursAt(s, p, k + i - 1)
    BY <2>4, <2>5 DEF OccursAt
  <2> QED
    BY <2>3, <2>4, <2>6, OccursIs
<1> QED
  BY <1>3, <1>4 DEF w

(* A text without the first unit of a pattern has no occurrence of it.     *)
LEMMA NoOccurrence ==
  ASSUME NEW S, NEW s \in Seq(S), NEW p \in Seq(S), Len(p) > 0,
         \A k \in 1..Len(s) : s[k] # p[1]
  PROVE  Occurrences(s, p) = {}
<1> SUFFICES ASSUME NEW j \in Occurrences(s, p)
             PROVE  FALSE
  OBVIOUS
<1>1. Len(s) \in Nat /\ Len(p) \in Nat
  BY LenProperties
<1>2. OccursAt(s, p, j)
  BY OccursIs
<1>3. j \in 1..(Len(s) - Len(p) + 1) /\ s[j + 1 - 1] = p[1]
  BY <1>1, <1>2 DEF OccursAt
<1>4. j \in 1..Len(s) /\ j + 1 - 1 = j
  BY <1>1, <1>3
<1> QED
  BY <1>3, <1>4

(* Find gives the first occurrence from a place on.                        *)
LEMMA FindIsFirst ==
  ASSUME NEW S, NEW s \in Seq(S), NEW p \in Seq(S), Len(p) > 0, NEW i \in Nat
  PROVE  /\ Find(s, p, i) \in Nat
         /\ Find(s, p, i) = 0 => \A j \in Occurrences(s, p) : j < i
         /\ Find(s, p, i) # 0 =>
              /\ Find(s, p, i) \in Occurrences(s, p)
              /\ Find(s, p, i) >= i
              /\ Find(s, p, i) >= 1
              /\ Find(s, p, i) + Len(p) <= Len(s) + 1
              /\ \A j \in Occurrences(s, p) : j >= i => Find(s, p, i) <= j
<1> DEFINE hits == {j \in Occurrences(s, p) : j >= i}
<1>1. Len(s) \in Nat /\ Len(p) \in Nat
  BY LenProperties
<1>2. /\ Occurrences(s, p) \in SUBSET Nat
      /\ \A j \in Occurrences(s, p) : j >= 1 /\ j + Len(p) <= Len(s) + 1
  BY <1>1 DEF Occurrences
<1>3. CASE hits = {}
  BY <1>2, <1>3 DEF Find
<1>4. CASE hits # {}
  <2>1. hits \in SUBSET Nat
    BY <1>2
  <2>2. \E n \in hits : \A j \in hits : n <= j
    <3> HIDE DEF hits
    <3> QED
      BY <1>4, <2>1, LeastNumber
  <2>3. Min(hits) \in hits /\ \A j \in hits : Min(hits) <= j
    <3> HIDE DEF hits
    <3> QED
      BY <2>2 DEF Min
  <2>4. Find(s, p, i) = Min(hits)
    BY <1>4 DEF Find
  <2> QED
    BY <1>2, <2>3, <2>4
<1> QED
  BY <1>3, <1>4

-----------------------------------------------------------------------------
(* A pass goes through a text from the left: at a place it ends, or it     *)
(* puts out a piece and goes on further right.                             *)

Pass(f, I, ends, base, piece, next) ==
  f = [i \in I |-> IF i \in ends THEN base[i] ELSE piece[i] \o f[next[i]]]

GoesOn(S, n, ends, base, piece, next) ==
  /\ n \in Nat
  /\ ends \in SUBSET (1..n)
  /\ base \in [1..n -> Seq(S)]
  /\ piece \in [1..n -> Seq(S)]
  /\ next \in [1..n -> 1..n]
  /\ \A i \in (1..n) \ ends : next[i] > i

LEMMA PassExists ==
  ASSUME NEW S, NEW n, NEW ends, NEW base, NEW piece, NEW next,
         GoesOn(S, n, ends, base, piece, next)
  PROVE  \E f : Pass(f, 1..n, ends, base, piece, next)
<1> USE DEF GoesOn
<1> DEFINE I == 1..n
           m == [i \in I |-> n - i]
           step == [x \in I \X Seq(S) |-> piece[x[1]] \o x[2]]
<1>1. m \in [I -> Nat] /\ \A i \in I : m[i] <= n
  OBVIOUS
<1>2. \A i \in I \ ends : m[next[i]] < m[i]
  <2> SUFFICES ASSUME NEW i \in I \ ends
               PROVE  n - next[i] < n - i
    OBVIOUS
  <2>1. next[i] \in 1..n /\ next[i] > i
    OBVIOUS
  <2> QED
    BY <2>1
<1>3. step \in [I \X Seq(S) -> Seq(S)]
  <2> SUFFICES ASSUME NEW i \in I, NEW t \in Seq(S)
               PROVE  piece[i] \o t \in Seq(S)
    OBVIOUS
  <2>1. piece[i] \in Seq(S)
    OBVIOUS
  <2> QED
    BY <2>1, ConcatProperties
<1>4. \E f : Solution(f, I, Seq(S), ends, base, step, next)
  <2>1. ends \in SUBSET I /\ base \in [I -> Seq(S)] /\ next \in [I -> I]
    OBVIOUS
  <2> HIDE DEF m, step, I
  <2>2. Recurs(I, m, Seq(S), ends, base, step, next)
    BY <1>1, <1>2, <1>3, <2>1 DEF Recurs
  <2> QED
    BY <2>2, Recursion
<1> QED
  <2>1. PICK f \in [I -> Seq(S)] :
          f = [i \in I |-> IF i \in ends THEN base[i] ELSE step[<<i, f[next[i]]>>]]
    BY <1>4 DEF Solution
  <2>2. \A i \in I : step[<<i, f[next[i]]>>] = piece[i] \o f[next[i]]
    OBVIOUS
  <2>3. [i \in I |-> IF i \in ends THEN base[i] ELSE step[<<i, f[next[i]]>>]] =
        [i \in I |-> IF i \in ends THEN base[i] ELSE piece[i] \o f[next[i]]]
    <3> HIDE DEF step
    <3> QED
      BY <2>2
  <2> QED
    BY <2>1, <2>3 DEF Pass

LEMMA PassIsText ==
  ASSUME NEW S, NEW n, NEW ends, NEW base, NEW piece, NEW next,
         GoesOn(S, n, ends, base, piece, next),
         NEW f, Pass(f, 1..n, ends, base, piece, next)
  PROVE  f \in [1..n -> Seq(S)]
<1> USE DEF GoesOn
<1> DEFINE I == 1..n
           m == [i \in I |-> n - i]
           Good == {i \in I : f[i] \in Seq(S)}
<1>1. m \in [I -> Nat]
  OBVIOUS
<1>2. \A i \in I \ ends : m[next[i]] < m[i]
  <2> SUFFICES ASSUME NEW i \in I \ ends
               PROVE  n - next[i] < n - i
    OBVIOUS
  <2>1. next[i] \in 1..n /\ next[i] > i
    OBVIOUS
  <2> QED
    BY <2>1
<1>3. f = [i \in I |-> IF i \in ends THEN base[i] ELSE piece[i] \o f[next[i]]]
  BY DEF Pass
<1>4. \A i \in I : f[i] = IF i \in ends THEN base[i] ELSE piece[i] \o f[next[i]]
  BY <1>3
<1>5. ASSUME NEW i \in I \ Good
      PROVE  \E j \in I \ Good : m[j] < m[i]
  <2>1. i \notin ends
    BY <1>4, <1>5
  <2>2. f[next[i]] \notin Seq(S)
    <3>1. piece[i] \in Seq(S) /\ f[i] = piece[i] \o f[next[i]] /\ f[i] \notin Seq(S)
      BY <1>4, <1>5, <2>1
    <3>2. f[next[i]] \in Seq(S) => piece[i] \o f[next[i]] \in Seq(S)
      <4> HIDE DEF Good, I
      <4> QED
        BY <3>1, ConcatProperties
    <3> QED
      BY <3>1, <3>2
  <2>3. next[i] \in I \ Good
    BY <2>2
  <2> QED
    BY <1>2, <2>1, <2>3
<1>6. Good = I
  <2> HIDE DEF Good, m, I
  <2>1. Good \in SUBSET I
    BY DEF Good
  <2>2. Descends(I, m, Good)
    BY <1>1, <1>5, <2>1 DEF Descends
  <2> QED
    BY <2>2, Descent
<1>7. \A i \in I : f[i] \in Seq(S)
  BY <1>6
<1>8. f = [i \in I |-> f[i]]
  BY <1>3
<1> QED
  BY <1>7, <1>8

-----------------------------------------------------------------------------
(* The texts that occur: of the units of the pages, of the claims and of   *)
(* the texts the passes themselves put in or look for.                     *)

Own ==
  {"<", ">", "/", "!", "--", "&", "lt;", "gt;", "script", "style", "meta",
   "endpoint:", "domain:", "label:", "question", " ", "\n", "[CONTENT TRUNCATED]", "UNTRUSTED_", "DATA"}

PageUnits == UNION {ToSet(b.text) : b \in Block}

ClaimUnits ==
  UNION {ToSet(c.endpoint) \cup ToSet(c.domain) \cup ToSet(c.label) : c \in Claims}

Unit == PageUnits \cup ClaimUnits \cup Own

Texts == Seq(Unit)

LEMMA OwnUnits ==
  /\ "<" \in Unit /\ ">" \in Unit /\ "/" \in Unit /\ "!" \in Unit /\ "--" \in Unit
  /\ "&" \in Unit /\ "lt;" \in Unit /\ "gt;" \in Unit
  /\ "script" \in Unit /\ "style" \in Unit /\ "meta" \in Unit
  /\ "endpoint:" \in Unit /\ "domain:" \in Unit /\ "label:" \in Unit /\ "question" \in Unit
  /\ " " \in Unit /\ "\n" \in Unit /\ "[CONTENT TRUNCATED]" \in Unit
  /\ "UNTRUSTED_" \in Unit /\ "DATA" \in Unit
<1>1. \A u \in Own : u \in Unit
  BY DEF Unit
<1> QED
  BY <1>1 DEF Own

LEMMA OneUnit ==
  ASSUME NEW u \in Unit
  PROVE  <<u>> \in Texts /\ Len(<<u>>) = 1 /\ <<u>>[1] = u
BY DEF Texts

LEMMA TwoUnits ==
  ASSUME NEW u \in Unit, NEW v \in Unit
  PROVE  <<u, v>> \in Texts /\ Len(<<u, v>>) = 2 /\ <<u, v>>[1] = u /\ <<u, v>>[2] = v
BY DEF Texts

LEMMA ThreeUnits ==
  ASSUME NEW u \in Unit, NEW v \in Unit, NEW w \in Unit
  PROVE  /\ <<u, v, w>> \in Texts
         /\ Len(<<u, v, w>>) = 3
         /\ <<u, v, w>>[1] = u /\ <<u, v, w>>[2] = v /\ <<u, v, w>>[3] = w
BY DEF Texts

LEMMA FourUnits ==
  ASSUME NEW u \in Unit, NEW v \in Unit, NEW w \in Unit, NEW x \in Unit
  PROVE  /\ <<u, v, w, x>> \in Texts
         /\ Len(<<u, v, w, x>>) = 4
         /\ <<u, v, w, x>>[1] = u /\ <<u, v, w, x>>[2] = v
         /\ <<u, v, w, x>>[3] = w /\ <<u, v, w, x>>[4] = x
BY DEF Texts

LEMMA FiveUnits ==
  ASSUME NEW u \in Unit, NEW v \in Unit, NEW w \in Unit, NEW x \in Unit, NEW y \in Unit
  PROVE  /\ <<u, v, w, x, y>> \in Texts
         /\ Len(<<u, v, w, x, y>>) = 5
         /\ <<u, v, w, x, y>>[1] = u /\ <<u, v, w, x, y>>[2] = v
         /\ <<u, v, w, x, y>>[3] = w /\ <<u, v, w, x, y>>[4] = x /\ <<u, v, w, x, y>>[5] = y
BY DEF Texts

LEMMA PartIsText ==
  ASSUME NEW s \in Texts, NEW i \in Nat, i >= 1, NEW j \in Int, j <= Len(s)
  PROVE  SubSeq(s, i, j) \in Texts
<1>1. Len(s) \in Nat
  BY LenProperties DEF Texts
<1>2. \A n \in i..j : s[n] \in Unit
  BY <1>1, ElementOfSeq DEF Texts
<1> QED
  BY <1>2, SubSeqProperties DEF Texts

LEMMA SliceIsText ==
  ASSUME NEW s \in Texts, NEW i \in Nat, i >= 1, NEW j \in Int, j <= Len(s) + 1
  PROVE  Slice(s, i, j) \in Texts
<1>1. Len(s) \in Nat
  BY LenProperties DEF Texts
<1>2. j - 1 \in Int /\ j - 1 <= Len(s)
  BY <1>1
<1> QED
  BY <1>2, PartIsText DEF Slice

LEMMA RestIsText ==
  ASSUME NEW s \in Texts, NEW i \in Nat, i >= 1
  PROVE  Rest(s, i) \in Texts
<1>1. Len(s) \in Int /\ Len(s) <= Len(s)
  BY LenProperties DEF Texts
<1> QED
  BY <1>1, PartIsText DEF Rest

LEMMA JoinIsText ==
  ASSUME NEW s \in Texts, NEW t \in Texts
  PROVE  s \o t \in Texts
BY ConcatProperties DEF Texts

-----------------------------------------------------------------------------
(* What the passes make is a text again.                                   *)

Replacing(f, s, p, by) ==
  f = [i \in 1..(Len(s) + 1) |->
         LET start == Find(s, p, i)
         IN  IF start = 0 THEN Rest(s, i)
             ELSE SubSeq(s, i, start - 1) \o by \o f[start + Len(p)]]

LEMMA ReplaceIsText ==
  ASSUME NEW s \in Texts, NEW p \in Texts, Len(p) > 0, NEW by \in Texts
  PROVE  \E f \in [1..(Len(s) + 1) -> Texts] :
           Replacing(f, s, p, by) /\ replace(s, p, by) = f[1]
<1> DEFINE n == Len(s) + 1
           start == [i \in 1..n |-> Find(s, p, i)]
           ends == {i \in 1..n : start[i] = 0}
           base == [i \in 1..n |-> Rest(s, i)]
           piece == [i \in 1..n |-> IF i \in ends THEN <<>> ELSE SubSeq(s, i, start[i] - 1) \o by]
           next == [i \in 1..n |-> IF i \in ends THEN i ELSE start[i] + Len(p)]
<1>1. Len(s) \in Nat /\ Len(p) \in Nat
  BY LenProperties DEF Texts
<1>2. \A i \in 1..n :
        \/ i \in ends
        \/ /\ start[i] \in Nat /\ start[i] >= i
           /\ start[i] + Len(p) <= n
  <2> SUFFICES ASSUME NEW i \in 1..n, start[i] # 0
               PROVE  start[i] \in Nat /\ start[i] >= i /\ start[i] + Len(p) <= n
    OBVIOUS
  <2>1. i \in Nat /\ start[i] = Find(s, p, i)
    BY <1>1
  <2> HIDE DEF start
  <2> QED
    BY <2>1, FindIsFirst DEF Texts
<1> HIDE DEF start
<1>3. base \in [1..n -> Texts]
  <2>1. \A i \in 1..n : i \in Nat /\ i >= 1
    BY <1>1
  <2> QED
    BY <2>1, RestIsText
<1>4. piece \in [1..n -> Texts]
  <2> SUFFICES ASSUME NEW i \in 1..n, i \notin ends
               PROVE  SubSeq(s, i, start[i] - 1) \o by \in Texts
    BY EmptySeq DEF Texts
  <2>1. i \in Nat /\ i >= 1 /\ start[i] - 1 \in Int /\ start[i] - 1 <= Len(s)
    BY <1>1, <1>2
  <2>2. SubSeq(s, i, start[i] - 1) \in Texts
    BY <2>1, PartIsText
  <2> QED
    BY <2>2, JoinIsText
<1>5. next \in [1..n -> 1..n] /\ \A i \in (1..n) \ ends : next[i] > i
  <2> SUFFICES ASSUME NEW i \in 1..n, i \notin ends
               PROVE  start[i] + Len(p) \in 1..n /\ start[i] + Len(p) > i
    OBVIOUS
  <2> QED
    BY <1>1, <1>2
<1>6. \A f : Pass(f, 1..n, ends, base, piece, next) <=> Replacing(f, s, p, by)
  <2> SUFFICES ASSUME NEW f, NEW i \in 1..n
               PROVE  (IF i \in ends THEN base[i] ELSE piece[i] \o f[next[i]]) =
                      (IF Find(s, p, i) = 0 THEN Rest(s, i)
                       ELSE SubSeq(s, i, Find(s, p, i) - 1) \o by \o f[Find(s, p, i) + Len(p)])
    BY DEF Pass, Replacing
  <2>1. start[i] = Find(s, p, i)
    BY DEF start
  <2> QED
    BY <2>1
<1>7. GoesOn(Unit, n, ends, base, piece, next)
  <2>1. ends \in SUBSET (1..n) /\ n \in Nat
    BY <1>1
  <2> HIDE DEF ends, base, piece, next
  <2> QED
    BY <1>1, <1>3, <1>4, <1>5, <2>1 DEF GoesOn, Texts
<1> HIDE DEF n, ends, base, piece, next
<1>8. PICK f : f = CHOOSE g : Replacing(g, s, p, by)
  OBVIOUS
<1>9. Replacing(f, s, p, by)
  BY <1>6, <1>7, <1>8, PassExists
<1>10. f \in [1..n -> Texts]
  BY <1>6, <1>7, <1>9, PassIsText DEF Texts
<1>11. replace(s, p, by) = f[1]
  BY <1>8 DEF replace, Replacing, Slice
<1> QED
  BY <1>9, <1>10, <1>11 DEF n

LEMMA CutIsText ==
  ASSUME NEW s \in Texts,
         NEW open \in Texts, Len(open) > 0, NEW close \in Texts, Len(close) > 0
  PROVE  Cut(s, open, close) \in Texts
<1> DEFINE Cutting(f) ==
             f = [i \in 1..(Len(s) + 1) |->
                    LET start == Find(s, open, i)
                        end == Find(s, close, start)
                    IN  CASE start = 0 -> Rest(s, i)
                          [] start # 0 /\ end = 0 -> Slice(s, i, start)
                          [] OTHER -> Slice(s, i, start) \o f[end + Len(close)]]
           n == Len(s) + 1
           start == [i \in 1..n |-> Find(s, open, i)]
           end == [i \in 1..n |-> Find(s, close, start[i])]
           ends == {i \in 1..n : start[i] = 0 \/ end[i] = 0}
           base == [i \in 1..n |-> IF start[i] = 0 THEN Rest(s, i) ELSE Slice(s, i, start[i])]
           piece == [i \in 1..n |-> Slice(s, i, start[i])]
           next == [i \in 1..n |-> IF i \in ends THEN i ELSE end[i] + Len(close)]
<1>1. Len(s) \in Nat /\ Len(open) \in Nat /\ Len(close) \in Nat
  BY LenProperties DEF Texts
<1>2. \A i \in 1..n : i \in Nat /\ i >= 1
  BY <1>1
<1>3. \A i \in 1..n : start[i] \in Nat /\ (start[i] # 0 => start[i] >= i) /\ start[i] <= n
  <2> SUFFICES ASSUME NEW i \in 1..n
               PROVE  start[i] \in Nat /\ (start[i] # 0 => start[i] >= i) /\ start[i] <= n
    OBVIOUS
  <2>1. i \in Nat /\ start[i] = Find(s, open, i)
    BY <1>2
  <2> HIDE DEF start
  <2>2. /\ start[i] \in Nat
        /\ start[i] # 0 => start[i] >= i /\ start[i] + Len(open) <= Len(s) + 1
    BY <2>1, FindIsFirst DEF Texts
  <2> QED
    BY <1>1, <2>2
<1> HIDE DEF start
<1>4. \A i \in 1..n :
        /\ end[i] \in Nat
        /\ end[i] # 0 => end[i] >= start[i] /\ end[i] + Len(close) <= n
  <2> SUFFICES ASSUME NEW i \in 1..n
               PROVE  /\ end[i] \in Nat
                      /\ end[i] # 0 => end[i] >= start[i] /\ end[i] + Len(close) <= n
    OBVIOUS
  <2>1. start[i] \in Nat /\ end[i] = Find(s, close, start[i])
    BY <1>3
  <2> HIDE DEF end
  <2> QED
    BY <2>1, FindIsFirst DEF Texts
<1> HIDE DEF end
<1>5. base \in [1..n -> Texts]
  <2> SUFFICES ASSUME NEW i \in 1..n
               PROVE  Rest(s, i) \in Texts /\ Slice(s, i, start[i]) \in Texts
    OBVIOUS
  <2>1. i \in Nat /\ i >= 1 /\ start[i] \in Int /\ start[i] <= Len(s) + 1
    BY <1>2, <1>3
  <2> HIDE DEF n
  <2>2. Rest(s, i) \in Texts
    BY <2>1, RestIsText
  <2>3. Slice(s, i, start[i]) \in Texts
    BY <2>1, SliceIsText
  <2> QED
    BY <2>2, <2>3
<1>6. piece \in [1..n -> Texts]
  BY <1>2, <1>3, SliceIsText
<1>7. next \in [1..n -> 1..n] /\ \A i \in (1..n) \ ends : next[i] > i
  <2> SUFFICES ASSUME NEW i \in 1..n, i \notin ends
               PROVE  end[i] + Len(close) \in 1..n /\ end[i] + Len(close) > i
    OBVIOUS
  <2>1. start[i] # 0 /\ end[i] # 0
    OBVIOUS
  <2> QED
    BY <1>1, <1>2, <1>3, <1>4, <2>1
<1>8. \A f : Pass(f, 1..n, ends, base, piece, next) <=> Cutting(f)
  <2> SUFFICES ASSUME NEW f, NEW i \in 1..n
               PROVE  (IF i \in ends THEN base[i] ELSE piece[i] \o f[next[i]]) =
                      (LET b == Find(s, open, i)
                           e == Find(s, close, b)
                       IN  CASE b = 0 -> Rest(s, i)
                             [] b # 0 /\ e = 0 -> Slice(s, i, b)
                             [] OTHER -> Slice(s, i, b) \o f[e + Len(close)])
    BY DEF Pass
  <2>1. start[i] = Find(s, open, i) /\ end[i] = Find(s, close, start[i])
    BY DEF start, end
  <2> QED
    BY <2>1
<1>9. GoesOn(Unit, n, ends, base, piece, next)
  <2>1. ends \in SUBSET (1..n) /\ n \in Nat
    BY <1>1
  <2> HIDE DEF ends, base, piece, next
  <2> QED
    BY <1>1, <1>5, <1>6, <1>7, <2>1 DEF GoesOn, Texts
<1>10. Cut(s, open, close) = (CHOOSE f : Cutting(f))[1]
  BY DEF Cut
<1>11. 1 \in 1..n
  BY <1>1
<1> HIDE DEF n, ends, base, piece, next, Cutting
<1>12. PICK f : f = CHOOSE g : Cutting(g)
  OBVIOUS
<1>13. Cutting(f)
  BY <1>8, <1>9, <1>12, PassExists
<1>14. f \in [1..n -> Texts]
  BY <1>8, <1>9, <1>13, PassIsText DEF Texts
<1> QED
  BY <1>10, <1>11, <1>12, <1>14

(* The pieces of a text one after the other: they are a text, with at      *)
(* least a unit for each piece that has one.                               *)
LEMMA FlattenIsText ==
  ASSUME NEW pieces \in Seq(Texts)
  PROVE  /\ FlattenSeq(pieces) \in Texts
         /\ (\A i \in 1..Len(pieces) : Len(pieces[i]) > 0) =>
              Len(FlattenSeq(pieces)) >= Len(pieces)
<1> DEFINE n == Len(pieces)
           I == 1..n
           Flattening(f) == f = [i \in I |-> IF i = 1 THEN pieces[i] ELSE f[i - 1] \o pieces[i]]
           m == [i \in I |-> i]
           base == [i \in I |-> pieces[i]]
           step == [x \in I \X Texts |-> x[2] \o pieces[x[1]]]
           next == [i \in I |-> IF i = 1 THEN i ELSE i - 1]
<1>1. n \in Nat /\ \A i \in I : pieces[i] \in Texts
  BY LenProperties, ElementOfSeq
<1>2. CASE n = 0
  <2>1. FlattenSeq(pieces) = pieces
    BY <1>2 DEF FlattenSeq
  <2>2. pieces = <<>>
    BY <1>2, EmptySeq
  <2> QED
    BY <1>2, <2>1, <2>2, EmptySeq DEF Texts
<1>3. CASE n # 0
  <2>1. FlattenSeq(pieces) = (CHOOSE f : Flattening(f))[n]
    BY <1>3 DEF FlattenSeq
  <2>2. \E f : Flattening(f)
    <3>1. Recurs(I, m, Texts, {1}, base, step, next)
      <4>1. m \in [I -> Nat] /\ n \in Nat /\ \A i \in I : m[i] <= n
        BY <1>1
      <4>2. {1} \in SUBSET I /\ next \in [I -> I] /\ \A i \in I \ {1} : m[next[i]] < m[i]
        BY <1>1, <1>3
      <4>3. base \in [I -> Texts]
        BY <1>1
      <4>4. step \in [I \X Texts -> Texts]
        BY <1>1, JoinIsText
      <4> HIDE DEF I, m, base, step, next
      <4> QED
        BY <4>1, <4>2, <4>3, <4>4 DEF Recurs
    <3>2. PICK f : Solution(f, I, Texts, {1}, base, step, next)
      BY <3>1, Recursion
    <3>3. /\ f \in [I -> Texts]
          /\ f = [i \in I |-> IF i \in {1} THEN base[i] ELSE step[<<i, f[next[i]]>>]]
      BY <3>2 DEF Solution
    <3>4. \A i \in I : f[i] = IF i = 1 THEN pieces[i] ELSE f[i - 1] \o pieces[i]
      <4> SUFFICES ASSUME NEW i \in I
                   PROVE  f[i] = IF i = 1 THEN pieces[i] ELSE f[i - 1] \o pieces[i]
        OBVIOUS
      <4>1. f[i] = IF i = 1 THEN base[i] ELSE step[<<i, f[next[i]]>>]
        BY <3>3
      <4>2. CASE i = 1
        BY <4>1, <4>2
      <4>3. CASE i # 1
        <5>1. next[i] = i - 1 /\ i - 1 \in I
          BY <1>1, <4>3
        <5>2. f[i - 1] \in Texts
          BY <3>3, <5>1
        <5> QED
          BY <4>1, <4>3, <5>1, <5>2
      <4> QED
        BY <4>2, <4>3
    <3>5. f = [i \in I |-> f[i]]
      BY <3>3
    <3> QED
      BY <3>4, <3>5
  <2>3. PICK f : f = CHOOSE g : Flattening(g)
    OBVIOUS
  <2>4. Flattening(f)
    <3> HIDE DEF Flattening
    <3> QED
      BY <2>2, <2>3
  <2>5. \A i \in I : f[i] = IF i = 1 THEN pieces[i] ELSE f[i - 1] \o pieces[i]
    BY <2>4
  <2> DEFINE Full == \A i \in I : Len(pieces[i]) > 0
             Good == {i \in I : f[i] \in Texts /\ (Full => Len(f[i]) >= i)}
  <2>6. ASSUME NEW i \in I \ Good
        PROVE  \E j \in I \ Good : m[j] < m[i]
    <3>1. i # 1
      BY <1>1, <2>5, <2>6
    <3>2. i - 1 \in I /\ m[i - 1] < m[i]
      BY <1>1, <3>1
    <3>3. i - 1 \notin Good
      <4> SUFFICES ASSUME f[i - 1] \in Texts, Full => Len(f[i - 1]) >= i - 1
                   PROVE  FALSE
        BY <3>2
      <4>1. pieces[i] \in Texts /\ f[i] = f[i - 1] \o pieces[i]
        BY <1>1, <2>5, <3>1
      <4>2. f[i] \in Texts /\ Len(f[i]) = Len(f[i - 1]) + Len(pieces[i])
        BY <4>1, ConcatProperties DEF Texts
      <4>3. Len(f[i - 1]) \in Nat /\ Len(pieces[i]) \in Nat
        BY <4>1, LenProperties DEF Texts
      <4>4. Full => Len(pieces[i]) > 0
        OBVIOUS
      <4>5. ASSUME Full
            PROVE  Len(f[i]) >= i
        <5>1. Len(f[i - 1]) >= i - 1 /\ Len(pieces[i]) > 0 /\ i \in Nat
          BY <1>1, <4>4, <4>5
        <5>2. \A a, b, k \in Nat : a >= k - 1 /\ b > 0 => a + b >= k
          OBVIOUS
        <5>3. Len(f[i - 1]) + Len(pieces[i]) >= i
          <6> HIDE DEF m, I, Full, Good
          <6> QED
            BY <4>3, <5>1, <5>2
        <5> QED
          BY <4>2, <5>3
      <4> QED
        BY <4>2, <4>5
    <3> QED
      BY <3>2, <3>3
  <2>7. Good = I
    <3>1. m \in [I -> Nat] /\ Good \in SUBSET I
      BY <1>1
    <3> HIDE DEF Good, I, m
    <3>2. Descends(I, m, Good)
      BY <2>6, <3>1 DEF Descends
    <3> QED
      BY <3>2, Descent
  <2>8. n \in I
    BY <1>1, <1>3
  <2> QED
    BY <2>1, <2>3, <2>7, <2>8
<1> QED
  BY <1>2, <1>3

LEMMA FunctionIsSeq ==
  ASSUME NEW S, NEW n, n \in Nat, NEW f, f \in [1..n -> S]
  PROVE  f \in Seq(S) /\ Len(f) = n
<1>1. f \in Seq(S)
  BY SeqDef
<1>2. DOMAIN f = 1..n /\ DOMAIN f = 1..Len(f) /\ Len(f) \in Nat
  BY <1>1, LenProperties
<1>3. 1..n = 1..Len(f)
  BY <1>2
<1>4. n = Len(f)
  <2>1. CASE n < Len(f)
    <3>1. Len(f) \in 1..n
      BY <1>2, <1>3, <2>1
    <3> QED
      BY <1>2, <2>1, <3>1
  <2>2. CASE n > Len(f)
    <3>1. n \in 1..Len(f)
      BY <1>2, <1>3, <2>2
    <3> QED
      BY <1>2, <2>2, <3>1
  <2> QED
    BY <1>2, <2>1, <2>2
<1> QED
  BY <1>1, <1>4

LEMMA InvisibleIsText ==
  ASSUME NEW s \in Texts
  PROVE  strip_invisible_text(s) \in Texts
<1> DEFINE pieces == [i \in 1..Len(s) |-> IF s[i] = "invisible" THEN <<>> ELSE <<s[i]>>]
<1>1. Len(s) \in Nat
  BY LenProperties DEF Texts
<1>2. ASSUME NEW i \in 1..Len(s)
      PROVE  <<>> \in Texts /\ <<s[i]>> \in Texts
  <2>1. s[i] \in Unit
    BY ElementOfSeq DEF Texts
  <2> QED
    BY <2>1, OneUnit, EmptySeq DEF Texts
<1>3. pieces \in [1..Len(s) -> Texts]
  BY <1>2
<1>4. strip_invisible_text(s) = FlattenSeq(pieces)
  BY DEF strip_invisible_text
<1> HIDE DEF pieces
<1> QED
  BY <1>1, <1>3, <1>4, FunctionIsSeq, FlattenIsText

LEMMA PageIsText ==
  ASSUME NEW blocks \in Seq(Block)
  PROVE  Text(blocks) \in Texts
<1> DEFINE pieces == [i \in 1..Len(blocks) |-> blocks[i].text]
<1>1. Len(blocks) \in Nat
  BY LenProperties
<1>2. ASSUME NEW i \in 1..Len(blocks)
      PROVE  blocks[i].text \in Texts
  <2>1. blocks[i] \in Block
    BY ElementOfSeq
  <2>2. blocks[i].text \in Seq(ToSet(blocks[i].text))
    BY <2>1, SanitizeAssumption
  <2>3. ToSet(blocks[i].text) \subseteq PageUnits
    BY <2>1 DEF PageUnits
  <2>4. PageUnits \subseteq Unit
    BY DEF Unit
  <2> QED
    BY <2>2, <2>3, <2>4, SeqMonotonic DEF Texts
<1>3. pieces \in [1..Len(blocks) -> Texts]
  BY <1>2
<1>4. Text(blocks) = FlattenSeq(pieces)
  BY DEF Text
<1> HIDE DEF pieces
<1> QED
  BY <1>1, <1>3, <1>4, FunctionIsSeq, FlattenIsText

LEMMA MetaIsText ==
  ASSUME NEW s \in Texts
  PROVE  strip_suspicious_meta_tags(s) \in Texts
<1> DEFINE open == <<"<", "meta">>
           close == <<">">>
           Kept(i, b, e) ==
             Slice(s, i, b)
             \o (IF Contains(SubSeq(s, b, e), "long") THEN <<>> ELSE Slice(s, b, e + 1))
           Stripping(f) ==
             f = [i \in 1..(Len(s) + 1) |->
                    LET start == Find(s, open, i)
                        end == Find(s, close, start)
                    IN  IF start = 0 \/ end = 0 THEN Rest(s, i)
                        ELSE Kept(i, start, end) \o f[end + 1]]
           n == Len(s) + 1
           start == [i \in 1..n |-> Find(s, open, i)]
           end == [i \in 1..n |-> Find(s, close, start[i])]
           ends == {i \in 1..n : start[i] = 0 \/ end[i] = 0}
           base == [i \in 1..n |-> Rest(s, i)]
           piece == [i \in 1..n |-> IF i \in ends THEN <<>> ELSE Kept(i, start[i], end[i])]
           next == [i \in 1..n |-> IF i \in ends THEN i ELSE end[i] + 1]
<1>1. strip_suspicious_meta_tags(s) = (CHOOSE f : Stripping(f))[1]
  BY DEF strip_suspicious_meta_tags
<1>2. /\ Len(s) \in Nat
      /\ open \in Texts /\ Len(open) = 2 /\ close \in Texts /\ Len(close) = 1
  <2> QED
    BY OwnUnits, OneUnit, TwoUnits, LenProperties DEF Texts
<1> HIDE DEF open, close
<1>a. Len(open) > 0 /\ Len(close) > 0
  BY <1>2
<1>3. \A i \in 1..n : i \in Nat /\ i >= 1
  BY <1>2
<1>4. \A i \in 1..n : start[i] \in Nat /\ (start[i] # 0 => start[i] >= i) /\ start[i] <= n
  <2> SUFFICES ASSUME NEW i \in 1..n
               PROVE  start[i] \in Nat /\ (start[i] # 0 => start[i] >= i) /\ start[i] <= n
    OBVIOUS
  <2>1. i \in Nat /\ start[i] = Find(s, open, i)
    BY <1>3
  <2> HIDE DEF start
  <2>2. /\ start[i] \in Nat
        /\ start[i] # 0 => start[i] >= i /\ start[i] + Len(open) <= Len(s) + 1
    BY <1>2, <1>a, <2>1, FindIsFirst DEF Texts
  <2> QED
    BY <1>2, <2>2
<1> HIDE DEF start
<1>5. \A i \in 1..n :
        /\ end[i] \in Nat
        /\ end[i] # 0 => end[i] >= start[i] /\ end[i] + 1 <= n
  <2> SUFFICES ASSUME NEW i \in 1..n
               PROVE  /\ end[i] \in Nat
                      /\ end[i] # 0 => end[i] >= start[i] /\ end[i] + 1 <= n
    OBVIOUS
  <2>1. start[i] \in Nat /\ end[i] = Find(s, close, start[i])
    BY <1>4
  <2> HIDE DEF end
  <2>2. /\ end[i] \in Nat
        /\ end[i] # 0 => end[i] >= start[i] /\ end[i] + Len(close) <= Len(s) + 1
    BY <1>2, <1>a, <2>1, FindIsFirst DEF Texts
  <2> QED
    BY <1>2, <2>2
<1> HIDE DEF end
<1>6. base \in [1..n -> Texts]
  BY <1>3, RestIsText
<1>7. piece \in [1..n -> Texts]
  <2> SUFFICES ASSUME NEW i \in 1..n, i \notin ends
               PROVE  Kept(i, start[i], end[i]) \in Texts
    BY EmptySeq DEF Texts
  <2>1. i \in Nat /\ i >= 1 /\ start[i] \in Nat /\ start[i] >= 1 /\ end[i] \in Nat
        /\ start[i] <= Len(s) + 1 /\ end[i] + 1 <= Len(s) + 1
    BY <1>3, <1>4, <1>5
  <2> HIDE DEF n
  <2>2. Slice(s, i, start[i]) \in Texts
    BY <2>1, SliceIsText
  <2>3. Slice(s, start[i], end[i] + 1) \in Texts
    <3>1. end[i] + 1 \in Int
      BY <2>1
    <3> QED
      BY <2>1, <3>1, SliceIsText
  <2>4. <<>> \in Texts
    BY EmptySeq DEF Texts
  <2> QED
    BY <2>2, <2>3, <2>4, JoinIsText
<1>8. next \in [1..n -> 1..n] /\ \A i \in (1..n) \ ends : next[i] > i
  <2> SUFFICES ASSUME NEW i \in 1..n, i \notin ends
               PROVE  end[i] + 1 \in 1..n /\ end[i] + 1 > i
    OBVIOUS
  <2>1. start[i] # 0 /\ end[i] # 0
    OBVIOUS
  <2> QED
    BY <1>2, <1>3, <1>4, <1>5, <2>1
<1>9. \A f : Pass(f, 1..n, ends, base, piece, next) <=> Stripping(f)
  <2> SUFFICES ASSUME NEW f, NEW i \in 1..n
               PROVE  (IF i \in ends THEN base[i] ELSE piece[i] \o f[next[i]]) =
                      (LET b == Find(s, open, i)
                           e == Find(s, close, b)
                       IN  IF b = 0 \/ e = 0 THEN Rest(s, i) ELSE Kept(i, b, e) \o f[e + 1])
    BY DEF Pass
  <2>1. start[i] = Find(s, open, i) /\ end[i] = Find(s, close, start[i])
    BY DEF start, end
  <2> HIDE DEF Kept
  <2> QED
    BY <2>1
<1>10. GoesOn(Unit, n, ends, base, piece, next)
  <2>1. ends \in SUBSET (1..n) /\ n \in Nat
    BY <1>2
  <2> HIDE DEF n, ends, base, piece, next
  <2> QED
    BY <1>6, <1>7, <1>8, <2>1 DEF GoesOn, Texts
<1>11. 1 \in 1..n
  BY <1>2
<1> HIDE DEF n, ends, base, piece, next, Stripping
<1>12. PICK f : f = CHOOSE g : Stripping(g)
  OBVIOUS
<1>13. Stripping(f)
  BY <1>9, <1>10, <1>12, PassExists
<1>14. f \in [1..n -> Texts]
  BY <1>9, <1>10, <1>13, PassIsText DEF Texts
<1> QED
  BY <1>1, <1>11, <1>12, <1>14

(* Where the pass goes on after an element that is hidden.                 *)
PastElement(s, i) ==
  LET end == Find(s, Closing(s, i), EndOfTag(s, i) + 1)
  IN  IF end # 0 THEN end + Len(Closing(s, i)) ELSE EndOfTag(s, i) + 1

LEMMA ElementsIs ==
  ASSUME NEW s \in Texts
  PROVE  \E f \in [1..(Len(s) + 1) -> Texts] :
           /\ strip_elements_with_style(s) = f[1]
           /\ \A i \in 1..(Len(s) + 1) :
                f[i] = CASE i > Len(s) -> <<>>
                         [] Hides(s, i) -> f[PastElement(s, i)]
                         [] OTHER -> <<s[i]>> \o f[i + 1]
<1> DEFINE TagEnd(i) == EndOfTag(s, i)
           NameEnds(i) == {j \in i..Len(s) : s[j] \in Blank \cup {">", "hidden", "long"}}
           Name(i) == IF NameEnds(i) = {} THEN <<>> ELSE SubSeq(s, i + 1, Min(NameEnds(i)) - 1)
           Close(i) == Closing(s, i)
           End(i) == Find(s, Close(i), TagEnd(i) + 1)
           Hidden(i) == Hides(s, i)
           After(i) == PastElement(s, i)
           Stripping(f) ==
             f = [i \in 1..(Len(s) + 1) |->
                    CASE i > Len(s) -> <<>>
                      [] Hidden(i) -> f[After(i)]
                      [] OTHER -> <<s[i]>> \o f[i + 1]]
<1>1. strip_elements_with_style(s) = (CHOOSE f : Stripping(f))[1]
  BY DEF strip_elements_with_style, PastElement
<1> DEFINE n == Len(s) + 1
<1>2. /\ Len(s) \in Nat
      /\ n \in Nat /\ \A i \in 1..n : i \in Nat /\ i >= 1
  <2> QED
    BY LenProperties DEF Texts
<1>3. ASSUME NEW i \in 1..n
      PROVE  /\ TagEnd(i) \in Nat
             /\ TagEnd(i) # 0 => TagEnd(i) >= i /\ TagEnd(i) + 1 <= n
  <2>1. i \in Nat
    BY <1>2
  <2>2. <<">">> \in Texts /\ Len(<<">">>) = 1
    BY OwnUnits, OneUnit
  <2>3. PICK close : close = <<">">>
    OBVIOUS
  <2>4. close \in Seq(Unit) /\ Len(close) = 1 /\ Len(close) > 0
    BY <2>2, <2>3 DEF Texts
  <2>5. /\ Find(s, close, i) \in Nat
        /\ Find(s, close, i) # 0 =>
             Find(s, close, i) >= i /\ Find(s, close, i) + Len(close) <= Len(s) + 1
    BY <2>1, <2>4, FindIsFirst DEF Texts
  <2>6. TagEnd(i) = Find(s, close, i)
    BY <2>3 DEF EndOfTag
  <2> HIDE DEF TagEnd
  <2> QED
    BY <1>2, <2>4, <2>5, <2>6
<1> HIDE DEF TagEnd
<1>4. ASSUME NEW i \in 1..n
      PROVE  Close(i) \in Texts /\ Len(Close(i)) > 0
  <2>1. Name(i) \in Texts
    <3>1. CASE NameEnds(i) = {}
      BY <3>1, EmptySeq DEF Texts
    <3>2. CASE NameEnds(i) # {}
      <4>1. NameEnds(i) \in SUBSET Nat /\ NameEnds(i) \in SUBSET (i..Len(s))
        BY <1>2
      <4> HIDE DEF NameEnds
      <4>2. \E k \in NameEnds(i) : \A j \in NameEnds(i) : k <= j
        BY <3>2, <4>1, LeastNumber
      <4>3. Min(NameEnds(i)) \in NameEnds(i)
        BY <4>2 DEF Min
      <4>4. i + 1 \in Nat /\ i + 1 >= 1 /\ Min(NameEnds(i)) - 1 \in Int /\ Min(NameEnds(i)) - 1 <= Len(s)
        BY <1>2, <4>1, <4>3
      <4>5. SubSeq(s, i + 1, Min(NameEnds(i)) - 1) \in Texts
        BY <1>2, <4>4, PartIsText
      <4> QED
        BY <3>2, <4>5
    <3> QED
      BY <3>1, <3>2
  <2> HIDE DEF Name
  <2>2. <<"<", "/">> \in Texts /\ Len(<<"<", "/">>) = 2 /\ <<">">> \in Texts
    BY OwnUnits, OneUnit, TwoUnits
  <2>3. PICK a, c : a = <<"<", "/">> /\ c = <<">">>
    OBVIOUS
  <2>4. a \o Name(i) \in Texts /\ Len(a \o Name(i)) = 2 + Len(Name(i))
    BY <2>1, <2>2, <2>3, ConcatProperties DEF Texts
  <2>5. (a \o Name(i)) \o c \in Texts /\ Len((a \o Name(i)) \o c) = 2 + Len(Name(i)) + Len(c)
    BY <2>2, <2>3, <2>4, ConcatProperties DEF Texts
  <2>6. Len(Name(i)) \in Nat /\ Len(c) \in Nat
    BY <2>1, <2>2, <2>3, LenProperties DEF Texts
  <2>7. Close(i) = (a \o Name(i)) \o c
    BY <2>3 DEF Closing, Name
  <2>8. Len((a \o Name(i)) \o c) > 0
    BY <2>5, <2>6
  <2> HIDE DEF Close
  <2> QED
    BY <2>5, <2>7, <2>8
<1> HIDE DEF Close
<1>5. ASSUME NEW i \in 1..n
      PROVE  /\ End(i) \in Nat
             /\ End(i) # 0 => End(i) >= TagEnd(i) + 1 /\ End(i) + Len(Close(i)) <= n
  <2>1. TagEnd(i) + 1 \in Nat
    BY <1>3
  <2>2. Close(i) \in Texts /\ Len(Close(i)) > 0
    BY <1>4
  <2> QED
    BY <1>2, <2>1, <2>2, FindIsFirst DEF Texts
<1> HIDE DEF End
<1>6. ASSUME NEW i \in 1..n, Hidden(i)
      PROVE  After(i) \in 1..n /\ After(i) > i
  <2>1. TagEnd(i) # 0 /\ TagEnd(i) \in Nat /\ TagEnd(i) >= i /\ TagEnd(i) + 1 <= n
    BY <1>3, <1>6 DEF Hides, TagEnd
  <2>2. End(i) \in Nat /\ (End(i) # 0 => End(i) >= TagEnd(i) + 1 /\ End(i) + Len(Close(i)) <= n)
    BY <1>5
  <2>3. Close(i) \in Texts /\ Len(Close(i)) > 0 /\ Len(Close(i)) \in Nat
    BY <1>4, LenProperties DEF Texts
  <2>4. i \in Nat /\ i >= 1 /\ n \in Nat
    BY <1>2
  <2> HIDE DEF n
  <2>5. CASE End(i) # 0
    <3>1. After(i) = End(i) + Len(Close(i))
      BY <2>5 DEF PastElement, End, Close, TagEnd
    <3> HIDE DEF After
    <3> QED
      BY <2>1, <2>2, <2>3, <2>4, <2>5, <3>1
  <2>6. CASE End(i) = 0
    <3>1. After(i) = TagEnd(i) + 1
      BY <2>6 DEF PastElement, End, Close, TagEnd
    <3> HIDE DEF After
    <3> QED
      BY <2>1, <2>4, <3>1
  <2> QED
    BY <2>5, <2>6
<1>7. \A i \in 1..n : Hidden(i) => ~(i > Len(s))
  BY <1>2 DEF Hides
<1>8. \A i \in 1..n : i > Len(s) \/ <<s[i]>> \in Texts
  <2> SUFFICES ASSUME NEW i \in 1..n, ~(i > Len(s))
               PROVE  <<s[i]>> \in Texts
    OBVIOUS
  <2>1. i \in 1..Len(s)
    BY <1>2
  <2>2. s[i] \in Unit
    BY <2>1, ElementOfSeq DEF Texts
  <2> QED
    BY <2>2, OneUnit
<1> DEFINE ends == {i \in 1..n : i > Len(s)}
           base == [i \in 1..n |-> <<>>]
           piece == [i \in 1..n |-> IF i \in ends \/ Hidden(i) THEN <<>> ELSE <<s[i]>>]
           next == [i \in 1..n |-> IF i \in ends THEN i ELSE IF Hidden(i) THEN After(i) ELSE i + 1]
<1> HIDE DEF Hidden, After
<1>9. /\ next \in [1..n -> 1..n]
      /\ \A i \in (1..n) \ ends : next[i] > i
  <2> SUFFICES ASSUME NEW i \in 1..n, i \notin ends
               PROVE  /\ Hidden(i) \/ (i + 1 \in 1..n /\ i + 1 > i)
                      /\ ~Hidden(i) \/ (After(i) \in 1..n /\ After(i) > i)
    OBVIOUS
  <2>1. ~(i > Len(s)) /\ i \in Nat /\ i >= 1
    BY <1>2
  <2>2. i + 1 \in 1..n /\ i + 1 > i
    BY <1>2, <2>1
  <2> QED
    BY <1>6, <2>2
<1>10. GoesOn(Unit, n, ends, base, piece, next)
  <2>1. ends \in SUBSET (1..n) /\ n \in Nat
    BY <1>2
  <2>2. <<>> \in Texts
    BY EmptySeq DEF Texts
  <2>3. base \in [1..n -> Texts]
    BY <2>2
  <2>4. piece \in [1..n -> Texts]
    BY <1>8, <2>2
  <2> HIDE DEF n, ends, base, piece, next
  <2> QED
    BY <1>9, <2>1, <2>3, <2>4 DEF GoesOn, Texts
<1>11. \E f : Stripping(f)
  <2>1. PICK f : Pass(f, 1..n, ends, base, piece, next)
    <3> HIDE DEF n, ends, base, piece, next
    <3> QED
      BY <1>10, PassExists
  <2>2. f \in [1..n -> Texts]
    <3> HIDE DEF n, ends, base, piece, next
    <3> QED
      BY <1>10, <2>1, PassIsText DEF Texts
  <2>3. f = [i \in 1..n |-> IF i \in ends THEN base[i] ELSE piece[i] \o f[next[i]]]
    BY <2>1 DEF Pass
  <2>4. ASSUME NEW i \in 1..n
        PROVE  f[i] = CASE i > Len(s) -> <<>>
                        [] Hidden(i) -> f[After(i)]
                        [] OTHER -> <<s[i]>> \o f[i + 1]
    <3>1. f[i] = IF i \in ends THEN base[i] ELSE piece[i] \o f[next[i]]
      BY <2>3
    <3>2. CASE i > Len(s)
      <4>1. f[i] = <<>>
        BY <3>1, <3>2
      <4> QED
        BY <1>7, <3>2, <4>1
    <3>3. CASE ~(i > Len(s)) /\ Hidden(i)
      <4>1. f[i] = <<>> \o f[After(i)]
        BY <3>1, <3>3
      <4>2. f[After(i)] \in Texts
        BY <1>6, <2>2, <3>3
      <4>3. <<>> \o f[After(i)] = f[After(i)]
        BY <4>2, ConcatEmptySeq DEF Texts
      <4> QED
        BY <3>3, <4>1, <4>3
    <3>4. CASE ~(i > Len(s)) /\ ~Hidden(i)
      <4>1. f[i] = <<s[i]>> \o f[i + 1]
        BY <3>1, <3>4
      <4> QED
        BY <3>4, <4>1
    <3> QED
      BY <3>2, <3>3, <3>4
  <2>5. f = [i \in 1..n |-> f[i]]
    BY <2>3
  <2> QED
    BY <2>4, <2>5
<1>12. PICK f : f = CHOOSE g : Stripping(g)
  OBVIOUS
<1>13. Stripping(f)
  <2> HIDE DEF Stripping
  <2> QED
    BY <1>11, <1>12
<1>14. \A i \in 1..n : f[i] = CASE i > Len(s) -> <<>>
                                [] Hidden(i) -> f[After(i)]
                                [] OTHER -> <<s[i]>> \o f[i + 1]
  BY <1>13
<1> DEFINE m == [i \in 1..n |-> n - i]
           Good == {i \in 1..n : f[i] \in Texts}
<1>15. ASSUME NEW i \in (1..n) \ Good
       PROVE  \E j \in (1..n) \ Good : m[j] < m[i]
  <2>1. i \in 1..n /\ f[i] \notin Texts /\ i \in Nat /\ i >= 1
    BY <1>2
  <2>2. ~(i > Len(s))
    BY <1>7, <1>14, <2>1, EmptySeq DEF Texts
  <2>3. CASE Hidden(i)
    <3>1. After(i) \in 1..n /\ After(i) > i /\ f[i] = f[After(i)]
      BY <1>6, <1>14, <2>1, <2>2, <2>3
    <3>2. After(i) \in (1..n) \ Good /\ m[After(i)] < m[i]
      BY <1>2, <2>1, <3>1
    <3> QED
      BY <3>2
  <2>4. CASE ~Hidden(i)
    <3>1. f[i] = <<s[i]>> \o f[i + 1] /\ <<s[i]>> \in Texts
      BY <1>8, <1>14, <2>1, <2>2, <2>4
    <3>2. f[i + 1] \notin Texts
      <4> SUFFICES ASSUME f[i + 1] \in Texts
                   PROVE  f[i] \in Texts
        BY <2>1
      <4> HIDE DEF Good
      <4> QED
        BY <3>1, JoinIsText
    <3>3. i + 1 \in (1..n) \ Good /\ m[i + 1] < m[i]
      BY <1>2, <2>1, <2>2, <3>2
    <3> QED
      BY <3>3
  <2> QED
    BY <2>3, <2>4
<1>16. Good = 1..n
  <2>1. m \in [1..n -> Nat] /\ Good \in SUBSET (1..n)
    BY <1>2
  <2> HIDE DEF Good, m, n
  <2>2. Descends(1..n, m, Good)
    BY <1>15, <2>1 DEF Descends
  <2> QED
    BY <2>2, Descent
<1>17. f \in [1..n -> Texts]
  <2>1. f = [i \in 1..n |-> f[i]]
    BY <1>13
  <2> HIDE DEF n, Stripping
  <2> QED
    BY <1>16, <2>1
<1> QED
  BY <1>1, <1>12, <1>14, <1>17 DEF Hidden, After

LEMMA ElementsIsText ==
  ASSUME NEW s \in Texts
  PROVE  strip_elements_with_style(s) \in Texts
<1>2. Len(s) \in Nat
  BY LenProperties DEF Texts
<1>3. 1 \in 1..(Len(s) + 1)
  BY <1>2
<1>4. \E f \in [1..(Len(s) + 1) -> Texts] : strip_elements_with_style(s) = f[1]
  BY ElementsIs
<1> QED
  BY <1>3, <1>4

LEMMA StrippedIsText ==
  ASSUME NEW s \in Texts
  PROVE  Stripped(s) \in Texts
<1>1. \A t \in Texts : strip_html_comments(t) \in Texts
  <2> SUFFICES ASSUME NEW t \in Texts
               PROVE  strip_html_comments(t) \in Texts
    OBVIOUS
  <2>1. PICK open, close : open = <<"<", "!", "--">> /\ close = <<"--", ">">>
    OBVIOUS
  <2>2. open \in Texts /\ Len(open) = 3 /\ close \in Texts /\ Len(close) = 2
    BY <2>1, OwnUnits, TwoUnits, ThreeUnits
  <2>3. Len(open) > 0 /\ Len(close) > 0
    BY <2>2
  <2>4. Cut(t, open, close) \in Texts
    BY <2>2, <2>3, CutIsText
  <2> QED
    BY <2>1, <2>4 DEF strip_html_comments
<1>2. ASSUME NEW t \in Texts, NEW name \in Unit
      PROVE  strip_tag_pair(t, name) \in Texts
  <2>1. PICK open, close : open = <<"<", name>> /\ close = <<"<", "/", name, ">">>
    OBVIOUS
  <2>2. open \in Texts /\ Len(open) = 2
    BY <2>1, OwnUnits, TwoUnits
  <2>3. close \in Texts /\ Len(close) = 4
    BY <2>1, OwnUnits, FourUnits
  <2>4. Len(open) > 0 /\ Len(close) > 0
    BY <2>2, <2>3
  <2>5. Cut(t, open, close) \in Texts
    BY <2>2, <2>3, <2>4, CutIsText
  <2> QED
    BY <2>1, <2>5 DEF strip_tag_pair
<1>3. strip_style_hidden_elements(strip_html_comments(s)) \in Texts
  BY <1>1, <1>2, OwnUnits, ElementsIsText DEF strip_style_hidden_elements
<1>4. strip_script_tags(strip_style_hidden_elements(strip_html_comments(s))) \in Texts
  BY <1>2, <1>3, OwnUnits DEF strip_script_tags
<1> QED
  BY <1>4, MetaIsText DEF Stripped

-----------------------------------------------------------------------------
(* Escaping the boundary tags leaves none.                                 *)

IsTag(t) ==
  /\ t \in Texts
  /\ Len(t) > 0
  /\ t[1] = "<"
  /\ \A k \in 1..Len(t) : t[k] \in {"<", "/", "UNTRUSTED_", "DATA", ">"}

IsEscape(e) ==
  /\ e \in Texts
  /\ Len(e) > 0
  /\ e[1] = "&"
  /\ e[Len(e)] = "gt;"
  /\ \A k \in 1..Len(e) : e[k] # "<"

Free(s, t) == Occurrences(s, t) = {}

(* Joined at a unit that no tag has, texts without the tag stay without it. *)
LEMMA JoinIsFree ==
  ASSUME NEW a \in Texts, NEW b \in Texts, NEW t, IsTag(t), Free(a, t), Free(b, t),
         \/ Len(a) = 0
         \/ Len(b) = 0
         \/ a[Len(a)] \notin {"<", "/", "UNTRUSTED_", "DATA", ">"}
         \/ b[1] \notin {"<", "/", "UNTRUSTED_", "DATA", ">"}
  PROVE  a \o b \in Texts /\ Free(a \o b, t)
<1>1. t \in Texts /\ Len(t) > 0
  BY DEF IsTag
<1>2. Apart(a, b, t)
  BY DEF Apart, IsTag
<1>3. Occurrences(a \o b, t) = Occurrences(a, t) \cup {Len(a) + j : j \in Occurrences(b, t)}
  BY <1>1, <1>2, OccursInConcat DEF Texts
<1>4. Occurrences(a \o b, t) = {}
  BY <1>3 DEF Free
<1> QED
  BY <1>4, JoinIsText DEF Free

LEMMA ReplaceFrees ==
  ASSUME NEW s \in Texts, NEW p, IsTag(p), NEW by, IsEscape(by), NEW t, IsTag(t),
         t = p \/ Free(s, t)
  PROVE  replace(s, p, by) \in Texts /\ Free(replace(s, p, by), t)
<1>1. /\ p \in Texts /\ Len(p) > 0 /\ t \in Texts /\ Len(t) > 0
      /\ by \in Texts /\ Len(by) > 0
      /\ Len(s) \in Nat /\ Len(p) \in Nat /\ Len(t) \in Nat /\ Len(by) \in Nat
  BY LenProperties DEF IsTag, IsEscape, Texts
<1>2. PICK f \in [1..(Len(s) + 1) -> Texts] : Replacing(f, s, p, by) /\ replace(s, p, by) = f[1]
  BY <1>1, ReplaceIsText
<1>3. \A i \in 1..(Len(s) + 1) :
        f[i] = IF Find(s, p, i) = 0 THEN Rest(s, i)
               ELSE SubSeq(s, i, Find(s, p, i) - 1) \o by \o f[Find(s, p, i) + Len(p)]
  BY <1>2 DEF Replacing
<1>4. Free(by, t)
  <2>1. \A k \in 1..Len(by) : by[k] # t[1]
    BY DEF IsTag, IsEscape
  <2> QED
    BY <1>1, <2>1, NoOccurrence DEF Free, Texts
<1> DEFINE I == 1..(Len(s) + 1)
           m == [i \in I |-> (Len(s) + 1) - i]
           Good == {i \in I : Free(f[i], t)}
<1>5. ASSUME NEW i \in I \ Good
      PROVE  \E j \in I \ Good : m[j] < m[i]
  <2>1. i \in Nat /\ i >= 1 /\ i <= Len(s) + 1 /\ i \in I
    BY <1>1
  <2> DEFINE b == Find(s, p, i)
  <2>2. /\ b \in Nat
        /\ b = 0 => \A j \in Occurrences(s, p) : j < i
        /\ b # 0 => /\ b >= i /\ b + Len(p) <= Len(s) + 1
                    /\ \A j \in Occurrences(s, p) : j >= i => b <= j
    BY <1>1, <2>1, FindIsFirst DEF Texts
  <2>3. f[i] = IF b = 0 THEN Rest(s, i) ELSE SubSeq(s, i, b - 1) \o by \o f[b + Len(p)]
    BY <1>3, <2>1
  <2> HIDE DEF b
  <2>4. ASSUME NEW e \in Int, e <= Len(s), b = 0 \/ e = b - 1
        PROVE  SubSeq(s, i, e) \in Texts /\ Free(SubSeq(s, i, e), t)
    <3>1. /\ SubSeq(s, i, e) \in Texts
          /\ \A k \in Occurrences(SubSeq(s, i, e), t) :
               k + i - 1 \in Occurrences(s, t) /\ k + i - 1 >= i /\ k + i - 1 + Len(t) <= e + 1
      <4>1. i \in Int /\ 1 <= i
        BY <2>1
      <4> HIDE DEF I, Good
      <4> QED
        BY <1>1, <2>4, <4>1, OccursInPart DEF Texts
    <3>2. ASSUME NEW k \in Occurrences(SubSeq(s, i, e), t)
          PROVE  FALSE
      <4>1. PICK j : j = k + i - 1
        OBVIOUS
      <4>2. j \in Occurrences(s, t) /\ j >= i /\ j + Len(t) <= e + 1
        BY <3>1, <3>2, <4>1
      <4>3. j \in Nat
        BY <1>1, <4>2 DEF Occurrences
      <4>4. t = p /\ j \in Occurrences(s, p)
        BY <4>2 DEF Free
      <4>5. b # 0 /\ b <= j
        BY <2>1, <2>2, <4>2, <4>3, <4>4
      <4> QED
        BY <1>1, <2>2, <2>4, <4>2, <4>3, <4>5
    <3> QED
      BY <3>1, <3>2 DEF Free
  <2>5. b # 0
    <3> SUFFICES ASSUME b = 0
                 PROVE  Free(f[i], t)
      OBVIOUS
    <3>1. f[i] = SubSeq(s, i, Len(s))
      BY <2>1, <2>3 DEF Rest
    <3>2. Len(s) \in Int /\ Len(s) <= Len(s)
      BY <1>1
    <3> QED
      BY <2>4, <3>1, <3>2
  <2>6. b + Len(p) \in I /\ m[b + Len(p)] < m[i]
    BY <1>1, <2>1, <2>2, <2>5
  <2>7. ~Free(f[b + Len(p)], t)
    <3> SUFFICES ASSUME Free(f[b + Len(p)], t)
                 PROVE  Free(f[i], t)
      OBVIOUS
    <3>1. b - 1 \in Int /\ b - 1 <= Len(s)
      BY <1>1, <2>2, <2>5
    <3> DEFINE a == SubSeq(s, i, b - 1)
               c == f[b + Len(p)]
    <3>2. a \in Texts /\ Free(a, t)
      BY <2>4, <3>1
    <3>3. c \in Texts
      BY <1>2, <2>6
    <3>4. f[i] = (a \o by) \o c
      BY <2>3, <2>5
    <3>5. Free(c, t)
      OBVIOUS
    <3> HIDE DEF a, c
    <3>6. by[1] \notin {"<", "/", "UNTRUSTED_", "DATA", ">"}
      BY DEF IsEscape
    <3>7. a \o by \in Texts /\ Free(a \o by, t)
      BY <1>1, <1>4, <3>2, <3>6, JoinIsFree
    <3>8. (a \o by)[Len(a \o by)] \notin {"<", "/", "UNTRUSTED_", "DATA", ">"}
      <4>1. /\ Len(a) \in Nat
            /\ Len(a \o by) = Len(a) + Len(by)
            /\ \A k \in 1..(Len(a) + Len(by)) :
                 (a \o by)[k] = IF k <= Len(a) THEN a[k] ELSE by[k - Len(a)]
        BY <1>1, <3>2, ConcatProperties, LenProperties DEF Texts
      <4>2. /\ Len(a) + Len(by) \in 1..(Len(a) + Len(by))
            /\ ~(Len(a) + Len(by) <= Len(a))
            /\ (Len(a) + Len(by)) - Len(a) = Len(by)
        BY <1>1, <4>1
      <4>3. (a \o by)[Len(a) + Len(by)] = by[Len(by)]
        BY <4>1, <4>2
      <4> QED
        BY <4>1, <4>3 DEF IsEscape
    <3>9. Free((a \o by) \o c, t)
      BY <3>3, <3>5, <3>7, <3>8, JoinIsFree
    <3> QED
      BY <3>4, <3>9
  <2>8. b + Len(p) \in I \ Good
    BY <2>6, <2>7
  <2> QED
    BY <2>6, <2>8
<1>6. Good = I
  <2>1. m \in [I -> Nat] /\ Good \in SUBSET I
    BY <1>1
  <2> HIDE DEF Good, m, I
  <2>2. Descends(I, m, Good)
    BY <1>5, <2>1 DEF Descends
  <2> QED
    BY <2>2, Descent
<1>7. 1 \in I
  BY <1>1
<1> QED
  BY <1>2, <1>6, <1>7

LEMMA EscapedIsEscape ==
  ASSUME NEW t, IsTag(t), \A k \in 2..Len(t) : t[k] # "<"
  PROVE  IsEscape(Escaped(t))
<1>1. PICK a, b, c : /\ a = <<"&", "lt;">> /\ c = <<"&", "gt;">>
                     /\ b = SubSeq(t, 2, Len(t) - 1)
  OBVIOUS
<1>2. /\ t \in Texts /\ Len(t) > 0 /\ Len(t) \in Nat
  BY LenProperties DEF IsTag, Texts
<1>3. /\ a \in Texts /\ Len(a) = 2 /\ a[1] = "&" /\ a[2] = "lt;"
      /\ c \in Texts /\ Len(c) = 2 /\ c[1] = "&" /\ c[2] = "gt;"
  BY <1>1, OwnUnits, TwoUnits
<1>4. /\ b \in Texts /\ Len(b) \in Nat
      /\ \A k \in 1..Len(b) : b[k] # "<"
  <2> DEFINE e == Len(t) - 1
  <2>1. e \in Int /\ e = Len(t) - 1
    BY <1>2
  <2>2. \A k \in 2..e : t[k] \in Unit
    BY <1>2, <2>1, ElementOfSeq DEF Texts
  <2>3. /\ b \in Texts
        /\ Len(b) = IF 2 <= e THEN e - 2 + 1 ELSE 0
        /\ \A k \in 1..(e - 2 + 1) : b[k] = t[2 + k - 1]
    <3>1. b = SubSeq(t, 2, e)
      BY <1>1
    <3> HIDE DEF e
    <3>2. 2 \in Int
      OBVIOUS
    <3> QED
      BY <2>1, <2>2, <3>1, <3>2, SubSeqProperties DEF Texts
  <2>4. ASSUME NEW k \in 1..Len(b)
        PROVE  b[k] # "<"
    <3>1. k \in 1..(e - 2 + 1) /\ 2 + k - 1 \in 2..Len(t)
      BY <1>2, <2>1, <2>3
    <3> QED
      BY <2>3, <3>1
  <2> QED
    BY <1>2, <2>1, <2>3, <2>4
<1>5. PICK d : d = a \o b
  OBVIOUS
<1>6. /\ d \in Texts /\ Len(d) = 2 + Len(b)
      /\ \A k \in 1..(2 + Len(b)) : d[k] = IF k <= 2 THEN a[k] ELSE b[k - 2]
  <2>1. /\ d \in Texts /\ Len(d) = Len(a) + Len(b)
        /\ \A k \in 1..(Len(a) + Len(b)) : d[k] = IF k <= Len(a) THEN a[k] ELSE b[k - Len(a)]
    BY <1>3, <1>4, <1>5, ConcatProperties DEF Texts
  <2> QED
    BY <1>3, <2>1
<1>7. PICK e : e = d \o c
  OBVIOUS
<1>8. /\ e \in Texts /\ Len(e) = Len(b) + 4
      /\ \A k \in 1..(Len(b) + 4) : e[k] = IF k <= 2 + Len(b) THEN d[k] ELSE c[k - (2 + Len(b))]
  <2>1. (2 + Len(b)) + 2 = Len(b) + 4
    BY <1>4
  <2>2. /\ e \in Texts /\ Len(e) = Len(d) + Len(c)
        /\ \A k \in 1..(Len(d) + Len(c)) : e[k] = IF k <= Len(d) THEN d[k] ELSE c[k - Len(d)]
    BY <1>3, <1>6, <1>7, ConcatProperties DEF Texts
  <2>3. Len(d) + Len(c) = Len(b) + 4 /\ Len(d) = 2 + Len(b)
    BY <1>3, <1>6, <2>1
  <2> QED
    BY <2>2, <2>3
<1>9. e[1] = "&"
  <2>1. 1 \in 1..(Len(b) + 4) /\ 1 <= 2 + Len(b) /\ 1 \in 1..(2 + Len(b))
    BY <1>4
  <2>2. e[1] = d[1]
    BY <1>8, <2>1
  <2>3. d[1] = a[1]
    BY <1>6, <2>1
  <2> QED
    BY <1>3, <2>2, <2>3
<1>10. e[Len(e)] = "gt;"
  <2>1. /\ Len(b) + 4 \in 1..(Len(b) + 4)
        /\ ~(Len(b) + 4 <= 2 + Len(b))
        /\ (Len(b) + 4) - (2 + Len(b)) = 2
    BY <1>4
  <2>2. e[Len(b) + 4] = c[2]
    BY <1>8, <2>1
  <2> QED
    BY <1>3, <1>8, <2>2
<1>11. ASSUME NEW k \in 1..Len(e)
       PROVE  e[k] # "<"
  <2>1. k \in Nat /\ k >= 1 /\ k <= Len(b) + 4 /\ k \in 1..(Len(b) + 4)
    BY <1>4, <1>8
  <2>2. CASE k <= 2
    <3>1. (k = 1 \/ k = 2) /\ k \in 1..(2 + Len(b)) /\ k <= 2 + Len(b)
      BY <1>4, <2>1, <2>2
    <3>2. e[k] = a[k]
      BY <1>6, <1>8, <2>1, <2>2, <3>1
    <3> QED
      BY <1>3, <3>1, <3>2
  <2>3. CASE k > 2 /\ k <= 2 + Len(b)
    <3>1. k - 2 \in 1..Len(b) /\ k \in 1..(2 + Len(b)) /\ ~(k <= 2)
      BY <1>4, <2>1, <2>3
    <3>2. e[k] = b[k - 2]
      BY <1>6, <1>8, <2>1, <2>3, <3>1
    <3> QED
      BY <1>4, <3>1, <3>2
  <2>4. CASE k > 2 + Len(b)
    <3>1. (k - (2 + Len(b)) = 1 \/ k - (2 + Len(b)) = 2) /\ ~(k <= 2 + Len(b))
      BY <1>4, <2>1, <2>4
    <3>2. e[k] = c[k - (2 + Len(b))]
      BY <1>8, <2>1, <3>1
    <3> QED
      BY <1>3, <3>1, <3>2
  <2> QED
    BY <1>4, <2>1, <2>2, <2>3, <2>4
<1>12. Escaped(t) = e
  BY <1>1, <1>5, <1>7 DEF Escaped
<1>13. Len(e) > 0
  BY <1>4, <1>8
<1> QED
  BY <1>8, <1>9, <1>10, <1>11, <1>12, <1>13 DEF IsEscape

LEMMA OpenIsTag ==
  /\ IsTag(OpenTag) /\ IsEscape(Escaped(OpenTag))
  /\ Len(OpenTag) = 4
  /\ OpenTag[1] = "<" /\ OpenTag[2] = "UNTRUSTED_" /\ OpenTag[3] = "DATA" /\ OpenTag[4] = ">"
<1>1. /\ OpenTag \in Texts /\ Len(OpenTag) = 4
      /\ OpenTag[1] = "<" /\ OpenTag[2] = "UNTRUSTED_"
      /\ OpenTag[3] = "DATA" /\ OpenTag[4] = ">"
  BY OwnUnits, FourUnits DEF OpenTag
<1>2. \A k \in 1..Len(OpenTag) : k = 1 \/ k = 2 \/ k = 3 \/ k = 4
  BY <1>1
<1>3. IsTag(OpenTag)
  BY <1>1, <1>2 DEF IsTag
<1>4. \A k \in 2..Len(OpenTag) : k = 2 \/ k = 3 \/ k = 4
  BY <1>1
<1>5. \A k \in 2..Len(OpenTag) : OpenTag[k] # "<"
  BY <1>1, <1>4
<1> QED
  BY <1>1, <1>3, <1>5, EscapedIsEscape

LEMMA CloseIsTag ==
  /\ IsTag(CloseTag) /\ IsEscape(Escaped(CloseTag))
  /\ Len(CloseTag) = 5
  /\ CloseTag[1] = "<" /\ CloseTag[2] = "/" /\ CloseTag[3] = "UNTRUSTED_"
  /\ CloseTag[4] = "DATA" /\ CloseTag[5] = ">"
<1>1. /\ CloseTag \in Texts /\ Len(CloseTag) = 5
      /\ CloseTag[1] = "<" /\ CloseTag[2] = "/" /\ CloseTag[3] = "UNTRUSTED_"
      /\ CloseTag[4] = "DATA" /\ CloseTag[5] = ">"
  BY OwnUnits, FiveUnits DEF CloseTag
<1>2. \A k \in 1..Len(CloseTag) : k = 1 \/ k = 2 \/ k = 3 \/ k = 4 \/ k = 5
  BY <1>1
<1>3. IsTag(CloseTag)
  BY <1>1, <1>2 DEF IsTag
<1>4. \A k \in 2..Len(CloseTag) : k = 2 \/ k = 3 \/ k = 4 \/ k = 5
  BY <1>1
<1>5. \A k \in 2..Len(CloseTag) : CloseTag[k] # "<"
  BY <1>1, <1>4
<1> QED
  BY <1>1, <1>3, <1>5, EscapedIsEscape

Untagged(s) == s \in Texts /\ Free(s, OpenTag) /\ Free(s, CloseTag)

LEMMA EscapedIsUntagged ==
  ASSUME NEW s \in Texts
  PROVE  Untagged(escape_data_boundary_tags(s))
<1>1. PICK t : t = replace(s, CloseTag, Escaped(CloseTag))
  OBVIOUS
<1>2. t \in Texts /\ Free(t, CloseTag)
  BY <1>1, CloseIsTag, ReplaceFrees
<1>3. PICK u : u = replace(t, OpenTag, Escaped(OpenTag))
  OBVIOUS
<1>4. u \in Texts /\ Free(u, OpenTag)
  BY <1>2, <1>3, OpenIsTag, ReplaceFrees
<1>5. Free(u, CloseTag)
  BY <1>2, <1>3, OpenIsTag, CloseIsTag, ReplaceFrees
<1> QED
  BY <1>1, <1>3, <1>4, <1>5 DEF escape_data_boundary_tags, Untagged

-----------------------------------------------------------------------------
(* What comes after escaping brings no tag back.                           *)

Outcome(v, u) ==
  IF u \notin Blank THEN Append(v, u)
  ELSE IF v # <<>> /\ Last(v) = " " THEN v ELSE Append(v, " ")

(* What collapse_whitespace has put out of the first i units of s: its     *)
(* units from the last blank on are the last of those i.                   *)
Follows(v, s, i) ==
  /\ v \in Texts
  /\ \A k \in 0..Len(v) :
       \/ \E n \in (Len(v) - k + 1)..Len(v) : v[n] \in Blank
       \/ /\ k <= i
          /\ \A n \in (Len(v) - k + 1)..Len(v) : v[n] = s[n + i - Len(v)]

LEMMA EmptyFollows ==
  ASSUME NEW s \in Texts
  PROVE  Follows(<<>>, s, 0)
<1>1. <<>> \in Texts /\ Len(<<>>) = 0
  BY EmptySeq DEF Texts
<1> QED
  BY <1>1 DEF Follows

LEMMA AppendFollows ==
  ASSUME NEW s \in Texts, NEW i \in Nat, i + 1 <= Len(s), NEW v, Follows(v, s, i)
  PROVE  Follows(Outcome(v, s[i + 1]), s, i + 1)
<1> DEFINE u == s[i + 1]
<1>1. v \in Texts /\ Len(v) \in Nat /\ Len(s) \in Nat /\ u \in Unit
  <2>1. v \in Texts /\ Len(v) \in Nat /\ Len(s) \in Nat
    BY LenProperties DEF Follows, Texts
  <2>2. i + 1 \in 1..Len(s)
    BY <2>1
  <2>3. u \in Unit
    BY <2>2, ElementOfSeq DEF Texts
  <2> QED
    BY <2>1, <2>3
<1> HIDE DEF u
<1>2. CASE u \notin Blank
  <2>1. PICK w : w = Append(v, u)
    OBVIOUS
  <2>2. /\ w \in Texts /\ Len(w) = Len(v) + 1
        /\ \A n \in 1..Len(v) : w[n] = v[n]
        /\ w[Len(v) + 1] = u
    BY <1>1, <2>1, AppendProperties DEF Texts
  <2>a. Len(w) \in Nat
    BY <1>1, <2>2
  <2>3. ASSUME NEW k \in 0..Len(w), \A n \in (Len(w) - k + 1)..Len(w) : w[n] \notin Blank
        PROVE  /\ k <= i + 1
               /\ \A n \in (Len(w) - k + 1)..Len(w) : w[n] = s[n + (i + 1) - Len(w)]
    <3>1. CASE k = 0
      <4>1. k <= i + 1 /\ (Len(w) - k + 1)..Len(w) = {}
        BY <2>a, <3>1
      <4> QED
        BY <4>1
    <3>2. CASE k # 0
      <4>1. /\ k - 1 \in 0..Len(v)
            /\ Len(v) - (k - 1) + 1 = Len(w) - k + 1
            /\ \A n \in (Len(v) - (k - 1) + 1)..Len(v) :
                 n \in (Len(w) - k + 1)..Len(w) /\ n \in 1..Len(v)
        BY <1>1, <2>2, <2>a, <3>2
      <4>2. \A n \in (Len(v) - (k - 1) + 1)..Len(v) : v[n] \notin Blank
        BY <2>2, <2>3, <4>1
      <4>3. /\ k - 1 <= i
            /\ \A n \in (Len(v) - (k - 1) + 1)..Len(v) : v[n] = s[n + i - Len(v)]
        BY <4>1, <4>2 DEF Follows
      <4>4. ASSUME NEW n \in (Len(w) - k + 1)..Len(w)
            PROVE  w[n] = s[n + (i + 1) - Len(w)]
        <5>1. CASE n = Len(v) + 1
          <6>1. n + (i + 1) - Len(w) = i + 1
            BY <1>1, <2>2, <2>a, <5>1
          <6> QED
            BY <2>2, <5>1, <6>1 DEF u
        <5>2. CASE n # Len(v) + 1
          <6>1. n \in (Len(v) - (k - 1) + 1)..Len(v) /\ n + (i + 1) - Len(w) = n + i - Len(v)
            BY <1>1, <2>2, <2>a, <4>1, <5>2
          <6>2. w[n] = v[n]
            BY <2>2, <4>1, <6>1
          <6> QED
            BY <4>3, <6>1, <6>2
        <5> QED
          BY <5>1, <5>2
      <4>5. k <= i + 1
        BY <4>3
      <4> QED
        BY <4>4, <4>5
    <3> QED
      BY <3>1, <3>2
  <2>4. Follows(w, s, i + 1)
    BY <2>2, <2>3 DEF Follows
  <2> QED
    BY <1>2, <2>1, <2>4 DEF Outcome, u
<1>3. ASSUME NEW w \in Texts, Len(w) > 0, w[Len(w)] \in Blank
      PROVE  Follows(w, s, i + 1)
  <2>1. Len(w) \in Nat
    BY LenProperties DEF Texts
  <2>2. ASSUME NEW k \in 0..Len(w), \A n \in (Len(w) - k + 1)..Len(w) : w[n] \notin Blank
        PROVE  k = 0
    <3> SUFFICES ASSUME k # 0
                 PROVE  FALSE
      OBVIOUS
    <3>1. Len(w) \in (Len(w) - k + 1)..Len(w)
      BY <2>1
    <3> QED
      BY <1>3, <2>2, <3>1
  <2>3. ASSUME NEW k \in 0..Len(w), \A n \in (Len(w) - k + 1)..Len(w) : w[n] \notin Blank
        PROVE  /\ k <= i + 1
               /\ \A n \in (Len(w) - k + 1)..Len(w) : w[n] = s[n + (i + 1) - Len(w)]
    BY <2>1, <2>2, <2>3
  <2> QED
    BY <2>3 DEF Follows
<1>4. CASE u \in Blank /\ v # <<>> /\ Last(v) = " "
  <2>1. Len(v) > 0 /\ v[Len(v)] \in Blank
    <3>1. v[Len(v)] \in Blank
      BY <1>4 DEF Last, Blank
    <3>2. v # <<>>
      BY <1>4
    <3>3. Len(v) > 0
      BY <1>1, <3>2, EmptySeq DEF Texts
    <3> QED
      BY <3>1, <3>3
  <2>2. Follows(v, s, i + 1)
    BY <1>1, <1>3, <2>1
  <2> QED
    BY <1>4, <2>2 DEF Outcome, u
<1>5. CASE u \in Blank /\ ~(v # <<>> /\ Last(v) = " ")
  <2>1. PICK space : space = " "
    OBVIOUS
  <2>2. space \in Unit /\ space \in Blank
    BY <2>1, OwnUnits DEF Blank
  <2>3. PICK w : w = Append(v, space)
    OBVIOUS
  <2>4. w \in Texts /\ Len(w) = Len(v) + 1 /\ w[Len(v) + 1] = space
    BY <1>1, <2>2, <2>3, AppendProperties DEF Texts
  <2>5. Len(w) > 0
    BY <1>1, <2>4
  <2>6. Follows(w, s, i + 1)
    BY <1>3, <2>2, <2>4, <2>5
  <2> QED
    BY <1>5, <2>1, <2>3, <2>6 DEF Outcome, u
<1> QED
  BY <1>2, <1>4, <1>5

LEMMA AppendIsFree ==
  ASSUME NEW s \in Texts, NEW i \in Nat, i + 1 <= Len(s), NEW v \in Texts, NEW u \in Unit,
         Follows(Append(v, u), s, i + 1), NEW t, IsTag(t), Free(v, t), Free(s, t)
  PROVE  Free(Append(v, u), t)
<1>1. PICK w : w = Append(v, u)
  OBVIOUS
<1>2. /\ w \in Texts /\ Len(w) = Len(v) + 1
      /\ \A n \in 1..Len(v) : w[n] = v[n]
  BY <1>1, AppendProperties DEF Texts
<1>3. /\ Len(v) \in Nat /\ Len(w) \in Nat /\ Len(s) \in Nat /\ t \in Texts /\ Len(t) \in Nat
      /\ Len(t) > 0
  BY <1>2, LenProperties DEF IsTag, Texts
<1> SUFFICES ASSUME NEW j \in Occurrences(w, t)
             PROVE  FALSE
  BY <1>1 DEF Free
<1>4. OccursAt(w, t, j)
  BY <1>2, <1>3, OccursIs DEF Texts
<1>5. /\ j \in 1..(Len(w) - Len(t) + 1)
      /\ \A k \in 1..Len(t) : w[j + k - 1] = t[k]
  BY <1>4 DEF OccursAt
<1>6. CASE j + Len(t) - 1 <= Len(v)
  <2>1. j \in 1..(Len(v) - Len(t) + 1)
    BY <1>3, <1>5, <1>6
  <2>2. ASSUME NEW k \in 1..Len(t)
        PROVE  v[j + k - 1] = t[k]
    <3>1. j + k - 1 \in 1..Len(v)
      BY <1>3, <1>5, <1>6
    <3> QED
      BY <1>2, <1>5, <3>1
  <2>3. OccursAt(v, t, j)
    BY <2>1, <2>2 DEF OccursAt
  <2> QED
    BY <1>3, <2>3, OccursIs DEF Free, Texts
<1>7. CASE j + Len(t) - 1 > Len(v)
  <2>1. /\ j + Len(t) - 1 = Len(w)
        /\ Len(w) - Len(t) + 1 = j
        /\ Len(t) \in 0..Len(w)
    <3>1. j \in Nat /\ j >= 1 /\ j + Len(t) - 1 <= Len(w)
      BY <1>3, <1>5
    <3>2. Len(w) = Len(v) + 1
      BY <1>2
    <3>3. \A a, b, c, d \in Nat :
            a >= 1 /\ a + b - 1 <= c /\ a + b - 1 > d /\ c = d + 1 =>
              a + b - 1 = c /\ c - b + 1 = a /\ b \in 0..c
      OBVIOUS
    <3> QED
      BY <1>3, <1>7, <3>1, <3>2, <3>3
  <2>2. ASSUME NEW n \in j..Len(w)
        PROVE  n - j + 1 \in 1..Len(t) /\ w[n] = t[n - j + 1]
    <3>1. n - j + 1 \in 1..Len(t) /\ j + (n - j + 1) - 1 = n
      BY <1>3, <1>5, <2>1
    <3> QED
      BY <1>5, <3>1
  <2>3. \A n \in j..Len(w) : w[n] \notin Blank
    BY <2>2 DEF IsTag, Blank
  <2>4. \/ \E n \in (Len(w) - Len(t) + 1)..Len(w) : w[n] \in Blank
        \/ /\ Len(t) <= i + 1
           /\ \A n \in (Len(w) - Len(t) + 1)..Len(w) : w[n] = s[n + (i + 1) - Len(w)]
    BY <1>1, <2>1 DEF Follows
  <2>5. Len(t) <= i + 1 /\ \A n \in j..Len(w) : w[n] = s[n + (i + 1) - Len(w)]
    BY <2>1, <2>3, <2>4
  <2>6. PICK p : p = j + (i + 1) - Len(w)
    OBVIOUS
  <2>7. p \in 1..(Len(s) - Len(t) + 1)
    BY <1>3, <1>5, <2>1, <2>5, <2>6
  <2>8. ASSUME NEW k \in 1..Len(t)
        PROVE  s[p + k - 1] = t[k]
    <3>1. j + k - 1 \in j..Len(w) /\ (j + k - 1) + (i + 1) - Len(w) = p + k - 1
      BY <1>3, <1>5, <2>1, <2>6
    <3> QED
      BY <1>5, <2>5, <3>1
  <2>9. OccursAt(s, t, p)
    BY <2>7, <2>8 DEF OccursAt
  <2> QED
    BY <1>3, <2>9, OccursIs DEF Free, Texts
<1> QED
  BY <1>3, <1>5, <1>6, <1>7

LEMMA OutcomeIsUntagged ==
  ASSUME NEW s, Untagged(s), NEW i \in Nat, i + 1 <= Len(s),
         NEW v, Follows(v, s, i), Untagged(v)
  PROVE  Untagged(Outcome(v, s[i + 1]))
<1>1. PICK u : u = s[i + 1]
  OBVIOUS
<1>2. s \in Texts /\ v \in Texts /\ u \in Unit
  <2>1. i + 1 \in 1..Len(s)
    BY LenProperties DEF Untagged, Texts
  <2> QED
    BY <1>1, <2>1, ElementOfSeq DEF Untagged, Texts
<1>3. Follows(Outcome(v, u), s, i + 1)
  BY <1>1, <1>2, AppendFollows
<1>4. PICK space : space = " "
  OBVIOUS
<1>5. space \in Unit
  BY <1>4, OwnUnits
<1>6. Outcome(v, u) = v \/ Outcome(v, u) = Append(v, u) \/ Outcome(v, u) = Append(v, space)
  BY <1>4 DEF Outcome
<1>7. ASSUME NEW c \in Unit, Outcome(v, u) = Append(v, c)
      PROVE  Untagged(Append(v, c))
  <2>1. Follows(Append(v, c), s, i + 1)
    BY <1>3, <1>7
  <2>2. Append(v, c) \in Texts
    BY <1>2, AppendProperties DEF Texts
  <2>3. Free(Append(v, c), OpenTag)
    BY <1>2, <2>1, OpenIsTag, AppendIsFree DEF Untagged
  <2>4. Free(Append(v, c), CloseTag)
    BY <1>2, <2>1, CloseIsTag, AppendIsFree DEF Untagged
  <2> QED
    BY <2>2, <2>3, <2>4 DEF Untagged
<1> QED
  BY <1>1, <1>2, <1>5, <1>6, <1>7

LEMMA OutcomeIsText ==
  ASSUME NEW v \in Texts, NEW u \in Unit
  PROVE  Outcome(v, u) \in Texts
<1>1. PICK space : space = " "
  OBVIOUS
<1>2. space \in Unit
  BY <1>1, OwnUnits
<1>3. Outcome(v, u) = v \/ Outcome(v, u) = Append(v, u) \/ Outcome(v, u) = Append(v, space)
  BY <1>1 DEF Outcome
<1> QED
  BY <1>2, <1>3, AppendProperties DEF Texts

LEMMA CollapsedIsUntagged ==
  ASSUME NEW s, Untagged(s)
  PROVE  Untagged(collapse_whitespace(s))
<1> DEFINE I == 0..Len(s)
           Collapsing(f) ==
             f = [i \in I |->
                    CASE i = 0 -> <<>>
                      [] i > 0 /\ s[i] \notin Blank -> Append(f[i - 1], s[i])
                      [] OTHER -> IF f[i - 1] # <<>> /\ Last(f[i - 1]) = " " THEN f[i - 1]
                                  ELSE Append(f[i - 1], " ")]
           m == [i \in I |-> i]
           base == [i \in I |-> <<>>]
           step == [x \in I \X Texts |-> IF x[1] = 0 THEN x[2] ELSE Outcome(x[2], s[x[1]])]
           next == [i \in I |-> IF i = 0 THEN i ELSE i - 1]
<1>1. collapse_whitespace(s) = (CHOOSE f : Collapsing(f))[Len(s)]
  BY DEF collapse_whitespace
<1>2. s \in Texts /\ Len(s) \in Nat
  BY LenProperties DEF Untagged, Texts
<1>3. \A i \in I : i = 0 \/ (s[i] \in Unit /\ i - 1 \in I /\ i - 1 \in Nat /\ i > 0)
  <2> SUFFICES ASSUME NEW i \in I, i # 0
               PROVE  s[i] \in Unit /\ i - 1 \in I /\ i - 1 \in Nat /\ i > 0
    OBVIOUS
  <2>1. i \in 1..Len(s) /\ i - 1 \in I /\ i - 1 \in Nat /\ i > 0
    BY <1>2
  <2> QED
    BY <1>2, <2>1, ElementOfSeq DEF Texts
<1>4. <<>> \in Texts
  BY EmptySeq DEF Texts
<1>5. Recurs(I, m, Texts, {0}, base, step, next)
  <2>1. m \in [I -> Nat] /\ Len(s) \in Nat /\ \A i \in I : m[i] <= Len(s)
    BY <1>2
  <2>2. {0} \in SUBSET I /\ next \in [I -> I] /\ \A i \in I \ {0} : m[next[i]] < m[i]
    BY <1>2
  <2>3. base \in [I -> Texts]
    BY <1>4
  <2>4. step \in [I \X Texts -> Texts]
    <3> HIDE DEF I
    <3> QED
      BY <1>3, OutcomeIsText
  <2> HIDE DEF I, m, base, step, next
  <2> QED
    BY <2>1, <2>2, <2>3, <2>4 DEF Recurs
<1>6. \E f : Collapsing(f)
  <2>1. PICK f : Solution(f, I, Texts, {0}, base, step, next)
    <3> HIDE DEF I, m, base, step, next
    <3> QED
      BY <1>5, Recursion
  <2>2. /\ f \in [I -> Texts]
        /\ f = [i \in I |-> IF i \in {0} THEN base[i] ELSE step[<<i, f[next[i]]>>]]
    BY <2>1 DEF Solution
  <2>3. ASSUME NEW i \in I
        PROVE  f[i] = CASE i = 0 -> <<>>
                        [] i > 0 /\ s[i] \notin Blank -> Append(f[i - 1], s[i])
                        [] OTHER -> IF f[i - 1] # <<>> /\ Last(f[i - 1]) = " " THEN f[i - 1]
                                    ELSE Append(f[i - 1], " ")
    <3>1. f[i] = IF i = 0 THEN base[i] ELSE step[<<i, f[next[i]]>>]
      BY <2>2
    <3>2. CASE i = 0
      BY <3>1, <3>2
    <3>3. CASE i # 0
      <4>1. next[i] = i - 1 /\ i - 1 \in I /\ f[i - 1] \in Texts /\ i > 0
        BY <1>3, <2>2, <3>3
      <4>2. f[i] = Outcome(f[i - 1], s[i])
        BY <3>1, <3>3, <4>1
      <4>3. CASE s[i] \notin Blank
        BY <3>3, <4>1, <4>2, <4>3 DEF Outcome
      <4>4. CASE s[i] \in Blank
        BY <3>3, <4>2, <4>4 DEF Outcome
      <4> QED
        BY <4>3, <4>4
    <3> QED
      BY <3>2, <3>3
  <2>4. f = [i \in I |-> f[i]]
    BY <2>2
  <2> QED
    BY <2>3, <2>4
<1>7. PICK f : f = CHOOSE g : Collapsing(g)
  OBVIOUS
<1>8. Collapsing(f)
  <2> HIDE DEF Collapsing
  <2> QED
    BY <1>6, <1>7
<1>9. \A i \in I : f[i] = IF i = 0 THEN <<>> ELSE Outcome(f[i - 1], s[i])
  <2> SUFFICES ASSUME NEW i \in I
               PROVE  f[i] = IF i = 0 THEN <<>> ELSE Outcome(f[i - 1], s[i])
    OBVIOUS
  <2>1. f[i] = CASE i = 0 -> <<>>
                 [] i > 0 /\ s[i] \notin Blank -> Append(f[i - 1], s[i])
                 [] OTHER -> IF f[i - 1] # <<>> /\ Last(f[i - 1]) = " " THEN f[i - 1]
                             ELSE Append(f[i - 1], " ")
    BY <1>8
  <2>2. i = 0 \/ i > 0
    BY <1>3
  <2> HIDE DEF I
  <2>3. CASE i = 0
    BY <2>1, <2>3
  <2>4. CASE i # 0 /\ s[i] \notin Blank
    BY <2>1, <2>2, <2>4 DEF Outcome
  <2>5. CASE i # 0 /\ s[i] \in Blank
    BY <2>1, <2>5 DEF Outcome
  <2> QED
    BY <2>3, <2>4, <2>5
<1> DEFINE Good == {i \in I : Follows(f[i], s, i) /\ Untagged(f[i])}
<1>10. ASSUME NEW i \in I \ Good
       PROVE  \E j \in I \ Good : m[j] < m[i]
  <2>1. i # 0
    <3> SUFFICES ASSUME i = 0
                 PROVE  Follows(f[i], s, i) /\ Untagged(f[i])
      OBVIOUS
    <3>1. f[i] = <<>>
      BY <1>9
    <3>2. PICK empty : empty = <<>>
      OBVIOUS
    <3>3. empty \in Texts /\ Len(empty) = 0
      BY <3>2, EmptySeq DEF Texts
    <3>4. \A t : IsTag(t) => Free(empty, t)
      <4> SUFFICES ASSUME NEW t, IsTag(t)
                   PROVE  Free(empty, t)
        OBVIOUS
      <4>1. t \in Seq(Unit) /\ Len(t) > 0 /\ empty \in Seq(Unit)
        BY <3>3 DEF IsTag, Texts
      <4>2. \A k \in 1..Len(empty) : empty[k] # t[1]
        BY <3>3
      <4> QED
        BY <4>1, <4>2, NoOccurrence DEF Free
    <3> QED
      BY <1>2, <3>1, <3>2, <3>3, <3>4, EmptyFollows, OpenIsTag, CloseIsTag DEF Untagged
  <2>2. i - 1 \in I /\ i - 1 \in Nat /\ (i - 1) + 1 = i /\ i <= Len(s) /\ m[i - 1] < m[i]
    BY <1>2, <2>1
  <2>3. i - 1 \notin Good
    <3> SUFFICES ASSUME Follows(f[i - 1], s, i - 1), Untagged(f[i - 1])
                 PROVE  Follows(f[i], s, i) /\ Untagged(f[i])
      BY <2>2
    <3>1. f[i] = Outcome(f[i - 1], s[(i - 1) + 1])
      BY <1>9, <2>1, <2>2
    <3>2. PICK k : k = i - 1
      OBVIOUS
    <3>3. k \in Nat /\ k + 1 = i /\ k + 1 <= Len(s) /\ Follows(f[k], s, k) /\ Untagged(f[k])
      BY <2>2, <3>2
    <3>4. f[i] = Outcome(f[k], s[k + 1])
      BY <3>1, <3>2
    <3> HIDE DEF Good, I, m
    <3>5. Follows(Outcome(f[k], s[k + 1]), s, k + 1)
      BY <1>2, <3>3, AppendFollows
    <3>6. Untagged(Outcome(f[k], s[k + 1]))
      BY <3>3, OutcomeIsUntagged
    <3> QED
      BY <3>3, <3>4, <3>5, <3>6
  <2> QED
    BY <2>2, <2>3
<1>11. Good = I
  <2>1. m \in [I -> Nat] /\ Good \in SUBSET I
    BY <1>2
  <2> HIDE DEF Good, m, I
  <2>2. Descends(I, m, Good)
    BY <1>10, <2>1 DEF Descends
  <2> QED
    BY <2>2, Descent
<1>12. Len(s) \in I
  BY <1>2
<1> QED
  BY <1>1, <1>7, <1>11, <1>12

LEMMA TruncatedIsUntagged ==
  ASSUME NEW s, Untagged(s)
  PROVE  Untagged(truncate_if_excessive(s, MaxChars))
<1>1. s \in Texts /\ Len(s) \in Nat /\ MaxChars \in Nat
  BY LenProperties, SanitizeAssumption DEF Untagged, Texts
<1>2. CASE Len(s) <= MaxChars
  BY <1>2 DEF truncate_if_excessive
<1>3. CASE ~(Len(s) <= MaxChars)
  <2>1. PICK a, b : a = SubSeq(s, 1, MaxChars) /\ b = Notice
    OBVIOUS
  <2>2. b \in Texts /\ b[1] = "\n" /\ b[2] = "[CONTENT TRUNCATED]"
    BY <2>1, OwnUnits, TwoUnits DEF Notice
  <2>3. \A k \in 1..Len(b) : b[k] # "<"
    <3>1. Len(b) = 2
      BY <2>1, OwnUnits, TwoUnits DEF Notice
    <3>2. \A k \in 1..Len(b) : k = 1 \/ k = 2
      BY <3>1
    <3> QED
      BY <2>2, <3>2
  <2>4. b[1] \notin {"<", "/", "UNTRUSTED_", "DATA", ">"}
    BY <2>2
  <2>5. ASSUME NEW t, IsTag(t), Free(s, t)
        PROVE  Free(a, t) /\ Free(b, t) /\ a \in Texts
    <3>1. t \in Texts /\ Len(t) > 0 /\ t[1] = "<"
      BY <2>5 DEF IsTag
    <3>2. Free(b, t)
      BY <2>2, <2>3, <3>1, NoOccurrence DEF Free, Texts
    <3>3. /\ a \in Texts
          /\ \A k \in Occurrences(a, t) : k + 1 - 1 \in Occurrences(s, t)
      <4>1. 1 \in Int /\ 1 <= 1 /\ MaxChars \in Int /\ MaxChars <= Len(s)
        BY <1>1, <1>3
      <4> QED
        BY <1>1, <2>1, <3>1, <4>1, OccursInPart DEF Texts
    <3>4. Free(a, t)
      BY <2>5, <3>3 DEF Free
    <3> QED
      BY <3>2, <3>3, <3>4
  <2>6. ASSUME NEW t, IsTag(t), Free(s, t)
        PROVE  a \o b \in Texts /\ Free(a \o b, t)
    BY <2>2, <2>4, <2>5, <2>6, JoinIsFree
  <2>7. Untagged(a \o b)
    BY <2>6, OpenIsTag, CloseIsTag DEF Untagged
  <2> QED
    BY <1>3, <2>1, <2>7 DEF truncate_if_excessive
<1> QED
  BY <1>2, <1>3

LEMMA SanitizedIsUntagged ==
  ASSUME NEW s \in Texts
  PROVE  Untagged(sanitize_content(s))
<1>1. strip_invisible_text(Stripped(s)) \in Texts
  BY StrippedIsText, InvisibleIsText
<1> QED
  BY <1>1, EscapedIsUntagged, CollapsedIsUntagged, TruncatedIsUntagged DEF sanitize_content

-----------------------------------------------------------------------------
(* The prompt has the tags that wrap the content and no other.             *)

LEMMA JoinIs ==
  ASSUME NEW a \in Texts, NEW b \in Texts
  PROVE  /\ a \o b \in Texts
         /\ Len(a) \in Nat /\ Len(b) \in Nat
         /\ Len(a \o b) = Len(a) + Len(b)
         /\ \A k \in 1..Len(a) : (a \o b)[k] = a[k]
         /\ \A k \in 1..Len(b) : (a \o b)[Len(a) + k] = b[k]
<1>1. PICK c : c = a \o b
  OBVIOUS
<1>2. Len(a) \in Nat /\ Len(b) \in Nat
  BY LenProperties DEF Texts
<1>3. /\ c \in Texts /\ Len(c) = Len(a) + Len(b)
      /\ \A k \in 1..(Len(a) + Len(b)) : c[k] = IF k <= Len(a) THEN a[k] ELSE b[k - Len(a)]
  BY <1>1, ConcatProperties DEF Texts
<1>4. ASSUME NEW k \in 1..Len(a)
      PROVE  c[k] = a[k]
  <2>1. k \in 1..(Len(a) + Len(b)) /\ k <= Len(a)
    BY <1>2
  <2> QED
    BY <1>3, <2>1
<1>5. ASSUME NEW k \in 1..Len(b)
      PROVE  c[Len(a) + k] = b[k]
  <2>1. /\ Len(a) + k \in 1..(Len(a) + Len(b))
        /\ ~(Len(a) + k <= Len(a))
        /\ (Len(a) + k) - Len(a) = k
    BY <1>2
  <2> QED
    BY <1>3, <2>1
<1> QED
  BY <1>1, <1>2, <1>3, <1>4, <1>5

(* A seam: one of the texts ends, or begins, with a unit that no tag has.  *)
Seam(a, b) ==
  /\ a \in Texts
  /\ b \in Texts
  /\ \/ a[Len(a)] \notin {"<", "/", "UNTRUSTED_", "DATA", ">"}
     \/ b[1] \notin {"<", "/", "UNTRUSTED_", "DATA", ">"}

LEMMA OccursInSeam ==
  ASSUME NEW a, NEW b, Seam(a, b), NEW t, IsTag(t)
  PROVE  Occurrences(a \o b, t) = Occurrences(a, t) \cup {Len(a) + j : j \in Occurrences(b, t)}
<1>1. t \in Texts /\ Len(t) > 0 /\ a \in Texts /\ b \in Texts
  BY DEF IsTag, Seam
<1>2. Apart(a, b, t)
  BY DEF Apart, IsTag, Seam
<1> QED
  BY <1>1, <1>2, OccursInConcat DEF Texts

LEMMA TooShort ==
  ASSUME NEW a \in Texts, NEW t \in Texts, Len(a) < Len(t)
  PROVE  Occurrences(a, t) = {}
<1>1. Len(a) \in Nat /\ Len(t) \in Nat
  BY LenProperties DEF Texts
<1>2. 1..(Len(a) - Len(t) + 1) = {}
  BY <1>1
<1> QED
  BY <1>2 DEF Occurrences

(* The tags occur in themselves once and not in one another.               *)
LEMMA TagsInTags ==
  /\ Occurrences(OpenTag, OpenTag) = {1} /\ Occurrences(OpenTag, CloseTag) = {}
  /\ Occurrences(CloseTag, CloseTag) = {1} /\ Occurrences(CloseTag, OpenTag) = {}
<1>1. OpenTag \in Texts /\ CloseTag \in Texts /\ Len(OpenTag) = 4 /\ Len(CloseTag) = 5
  BY OpenIsTag, CloseIsTag DEF IsTag
<1>2. Occurrences(OpenTag, CloseTag) = {}
  <2>1. Len(OpenTag) < Len(CloseTag)
    BY <1>1
  <2> QED
    BY <1>1, <2>1, TooShort
<1>3. ASSUME NEW t \in Texts, Len(t) > 0
      PROVE  Occurrences(t, t) = {1}
  <2>1. Len(t) \in Nat
    BY LenProperties DEF Texts
  <2>2. \A k \in 1..Len(t) : 1 + k - 1 = k
    BY <2>1
  <2>3. 1 \in 1..(Len(t) - Len(t) + 1) /\ \A j \in 1..(Len(t) - Len(t) + 1) : j = 1
    BY <2>1
  <2>4. OccursAt(t, t, 1)
    BY <2>2, <2>3 DEF OccursAt
  <2>5. \A j : OccursAt(t, t, j) => j = 1
    BY <2>3 DEF OccursAt
  <2> QED
    BY <2>4, <2>5, OccursIs DEF Texts
<1>4. ASSUME NEW j \in Occurrences(CloseTag, OpenTag)
      PROVE  FALSE
  <2>1. OccursAt(CloseTag, OpenTag, j)
    BY <1>1, OccursIs DEF Texts
  <2>2. /\ j \in 1..(5 - 4 + 1)
        /\ \A k \in 1..4 : CloseTag[j + k - 1] = OpenTag[k]
    BY <1>1, <2>1 DEF OccursAt
  <2>3. j = 1 \/ j = 2
    BY <2>2
  <2>4. CASE j = 1
    <3>1. CloseTag[1 + 2 - 1] = OpenTag[2]
      BY <2>2, <2>4
    <3>2. 1 + 2 - 1 = 2
      OBVIOUS
    <3>3. CloseTag[2] = OpenTag[2]
      BY <3>1, <3>2
    <3> QED
      BY <3>3, OpenIsTag, CloseIsTag
  <2>5. CASE j = 2
    <3>1. CloseTag[2 + 1 - 1] = OpenTag[1]
      BY <2>2, <2>5
    <3>2. 2 + 1 - 1 = 2
      OBVIOUS
    <3>3. CloseTag[2] = OpenTag[1]
      BY <3>1, <3>2
    <3> QED
      BY <3>3, OpenIsTag, CloseIsTag
  <2> QED
    BY <2>3, <2>4, <2>5
<1> QED
  BY <1>1, <1>2, <1>3, <1>4

(* What the prompt says of the card ends with a blank line.                *)
LEMMA PreambleIs ==
  ASSUME NEW claims \in Claims, NEW a, a = Preamble(claims)
  PROVE  a \in Texts /\ Len(a) \in Nat /\ a[Len(a)] = "\n"
<1>1. PICK e, d, l : e = claims.endpoint /\ d = claims.domain /\ l = claims.label
  OBVIOUS
<1>2. e \in Texts /\ d \in Texts /\ l \in Texts
  <2>1. ASSUME NEW text \in {e, d, l}
        PROVE  text \in Texts
    <3>1. text \in Seq(ToSet(text))
      BY <1>1, SanitizeAssumption
    <3>2. ToSet(text) \subseteq Unit
      <4>1. ToSet(text) \subseteq ClaimUnits
        BY <1>1 DEF ClaimUnits
      <4> QED
        BY <4>1 DEF Unit
    <3> QED
      BY <3>1, <3>2, SeqMonotonic DEF Texts
  <2> QED
    BY <2>1
<1>3. PICK x, y, z, w : x = <<"endpoint:">> /\ y = <<"\n", "domain:">>
                        /\ z = <<"\n", "label:">> /\ w = <<"\n", "\n">>
  OBVIOUS
<1>4. x \in Texts /\ y \in Texts /\ z \in Texts /\ w \in Texts /\ Len(w) = 2 /\ w[2] = "\n"
  BY <1>3, OwnUnits, OneUnit, TwoUnits
<1>5. PICK b : b = ((((x \o e) \o y) \o d) \o z) \o l
  OBVIOUS
<1>6. b \in Texts
  BY <1>2, <1>4, <1>5, JoinIsText
<1>7. a = b \o w
  BY <1>1, <1>3, <1>5 DEF Preamble
<1>8. /\ a \in Texts /\ Len(b) \in Nat /\ Len(a) = Len(b) + 2
      /\ \A k \in 1..2 : a[Len(b) + k] = w[k]
  <2>1. /\ b \o w \in Texts /\ Len(b) \in Nat /\ Len(b \o w) = Len(b) + Len(w)
        /\ \A k \in 1..Len(w) : (b \o w)[Len(b) + k] = w[k]
    <3>1. b \in Texts /\ w \in Texts
      BY <1>4, <1>6
    <3> QED
      BY <3>1, JoinIs
  <2> QED
    BY <1>4, <1>7, <2>1
<1>9. 2 \in 1..2
  OBVIOUS
<1> QED
  BY <1>4, <1>8, <1>9

LEMMA SectionIsolates ==
  ASSUME NEW c, Untagged(c), NEW p, p = Section(c)
  PROVE  /\ p \in Texts /\ Len(c) \in Nat /\ Len(p) = 13 + Len(c)
         /\ Occurrences(p, OpenTag) = {1}
         /\ Occurrences(p, CloseTag) = {7 + Len(c)}
         /\ \A k \in 1..Len(c) : p[5 + k] = c[k]
<1> DEFINE Inside == {"<", "/", "UNTRUSTED_", "DATA", ">"}
<1>1. PICK nl, q : nl = <<"\n">> /\ q = <<"\n", "question">>
  OBVIOUS
<1>2. /\ nl \in Texts /\ q \in Texts
      /\ nl[1] \notin Inside /\ q[1] \notin Inside
  <2>1. nl \in Texts /\ nl[1] = "\n"
    BY <1>1, OwnUnits, OneUnit
  <2>2. q \in Texts /\ q[1] = "\n"
    BY <1>1, OwnUnits, TwoUnits
  <2> QED
    BY <2>1, <2>2
<1>2a. nl \in Texts /\ q \in Texts
  BY <1>2
<1>3. Len(nl) = 1 /\ Len(q) = 2
  BY <1>1, OwnUnits, OneUnit, TwoUnits
<1>4. /\ OpenTag \in Texts /\ CloseTag \in Texts /\ c \in Texts
      /\ Len(OpenTag) = 4 /\ Len(CloseTag) = 5 /\ Len(c) \in Nat
      /\ IsTag(OpenTag) /\ IsTag(CloseTag)
  BY OpenIsTag, CloseIsTag, LenProperties DEF IsTag, Untagged, Texts
<1>5. PICK p1 : p1 = OpenTag
  OBVIOUS
<1>6. PICK p2 : p2 = p1 \o nl
  OBVIOUS
<1>7. PICK p3 : p3 = p2 \o c
  OBVIOUS
<1>8. PICK p4 : p4 = p3 \o nl
  OBVIOUS
<1>9. PICK p5 : p5 = p4 \o CloseTag
  OBVIOUS
<1>10. p = p5 \o q
  BY <1>1, <1>5, <1>6, <1>7, <1>8, <1>9 DEF Section
<1>11. p1 \in Texts /\ Len(p1) = 4
  BY <1>4, <1>5
<1>12. p2 \in Texts /\ Len(p2) = 5 /\ p2[5] \notin Inside
  <2>0. p2 \in Texts /\ Len(p2) = Len(p1) + Len(nl) /\ \A k \in 1..Len(nl) : p2[Len(p1) + k] = nl[k]
    BY <1>2a, <1>6, <1>11, JoinIs
  <2>1. p2 \in Texts /\ Len(p2) = 4 + 1 /\ \A k \in 1..1 : p2[4 + k] = nl[k]
    BY <1>3, <1>11, <2>0
  <2>2. 4 + 1 = 5 /\ 1 \in 1..1
    OBVIOUS
  <2>3. p2[5] = nl[1]
    BY <2>1, <2>2
  <2> QED
    BY <1>2, <2>1, <2>2, <2>3
<1>13. /\ p3 \in Texts /\ Len(p3) = 5 + Len(c)
       /\ \A k \in 1..Len(c) : p3[5 + k] = c[k]
  <2>0. /\ p3 \in Texts /\ Len(p3) = Len(p2) + Len(c)
        /\ \A k \in 1..Len(c) : p3[Len(p2) + k] = c[k]
    <3>1. p2 \in Texts /\ c \in Texts
      BY <1>4, <1>12
    <3> QED
      BY <1>7, <3>1, JoinIs
  <2>1. Len(p2) = 5
    BY <1>12
  <2> QED
    BY <2>0, <2>1
<1>14. /\ p4 \in Texts /\ Len(p4) = 6 + Len(c)
       /\ \A k \in 1..(5 + Len(c)) : p4[k] = p3[k]
       /\ p4[6 + Len(c)] = nl[1]
  <2>1. /\ p4 \in Texts /\ Len(p4) = (5 + Len(c)) + 1
        /\ \A k \in 1..(5 + Len(c)) : p4[k] = p3[k]
        /\ \A k \in 1..1 : p4[(5 + Len(c)) + k] = nl[k]
    <3>1. /\ p4 \in Texts /\ Len(p4) = Len(p3) + Len(nl)
          /\ \A k \in 1..Len(p3) : p4[k] = p3[k]
          /\ \A k \in 1..Len(nl) : p4[Len(p3) + k] = nl[k]
      BY <1>2a, <1>8, <1>13, JoinIs
    <3> QED
      BY <1>3, <1>13, <3>1
  <2>2. (5 + Len(c)) + 1 = 6 + Len(c) /\ 1 \in 1..1
    BY <1>4
  <2> QED
    BY <2>1, <2>2
<1>15. /\ p5 \in Texts /\ Len(p5) = 11 + Len(c)
       /\ \A k \in 1..(6 + Len(c)) : p5[k] = p4[k]
  <2>1. /\ p5 \in Texts /\ Len(p5) = (6 + Len(c)) + 5
        /\ \A k \in 1..(6 + Len(c)) : p5[k] = p4[k]
    <3>1. p4 \in Texts /\ Len(p4) = 6 + Len(c)
      BY <1>14
    <3>2. /\ p5 \in Texts /\ Len(p5) = Len(p4) + Len(CloseTag)
          /\ \A k \in 1..Len(p4) : p5[k] = p4[k]
      BY <1>4, <1>9, <3>1, JoinIs
    <3> QED
      BY <1>4, <3>1, <3>2
  <2> QED
    BY <1>4, <2>1
<1>16. /\ p \in Texts /\ Len(p) = 13 + Len(c)
       /\ \A k \in 1..(11 + Len(c)) : p[k] = p5[k]
  <2>1. /\ p \in Texts /\ Len(p) = (11 + Len(c)) + 2
        /\ \A k \in 1..(11 + Len(c)) : p[k] = p5[k]
    <3>1. p5 \in Texts /\ Len(p5) = 11 + Len(c)
      BY <1>15
    <3>2. /\ p \in Texts /\ Len(p) = Len(p5) + Len(q)
          /\ \A k \in 1..Len(p5) : p[k] = p5[k]
      <4>1. /\ p5 \o q \in Texts /\ Len(p5 \o q) = Len(p5) + Len(q)
            /\ \A k \in 1..Len(p5) : (p5 \o q)[k] = p5[k]
        BY <1>2a, <3>1, JoinIs
      <4> QED
        BY <1>10, <4>1
    <3> QED
      BY <1>3, <3>1, <3>2
  <2> QED
    BY <1>4, <2>1
<1>17. ASSUME NEW t, IsTag(t), Len(t) >= 4, Free(c, t)
       PROVE  Occurrences(p, t) = Occurrences(OpenTag, t)
                                  \cup {6 + Len(c) + j : j \in Occurrences(CloseTag, t)}
  <2>1. t \in Texts
    BY <1>17 DEF IsTag
  <2>2. Occurrences(nl, t) = {} /\ Occurrences(q, t) = {}
    <3>1. Len(nl) < Len(t) /\ Len(q) < Len(t)
      <4>1. Len(t) \in Nat
        BY <2>1, LenProperties DEF Texts
      <4> QED
        BY <1>3, <1>17, <4>1
    <3> QED
      BY <1>2, <2>1, <3>1, TooShort
  <2>4. Occurrences(p2, t) = Occurrences(p1, t)
    <3>1. Seam(p1, nl)
      BY <1>2, <1>11 DEF Seam
    <3>2. Occurrences(p2, t) = Occurrences(p1, t) \cup {Len(p1) + j : j \in Occurrences(nl, t)}
      BY <1>6, <1>17, <3>1, OccursInSeam
    <3> QED
      BY <2>2, <3>2
  <2>5. Occurrences(p3, t) = Occurrences(p2, t)
    <3>1. Seam(p2, c)
      BY <1>4, <1>12 DEF Seam
    <3>2. Occurrences(p3, t) = Occurrences(p2, t) \cup {Len(p2) + j : j \in Occurrences(c, t)}
      BY <1>7, <1>17, <3>1, OccursInSeam
    <3> QED
      BY <1>17, <3>2 DEF Free
  <2>6. Occurrences(p4, t) = Occurrences(p3, t)
    <3>1. Seam(p3, nl)
      BY <1>2, <1>13 DEF Seam
    <3>2. Occurrences(p4, t) = Occurrences(p3, t) \cup {Len(p3) + j : j \in Occurrences(nl, t)}
      BY <1>8, <1>17, <3>1, OccursInSeam
    <3> QED
      BY <2>2, <3>2
  <2>7. Occurrences(p5, t) =
          Occurrences(p4, t) \cup {6 + Len(c) + j : j \in Occurrences(CloseTag, t)}
    <3>1. p4[Len(p4)] \notin Inside
      BY <1>2, <1>14
    <3>2. Seam(p4, CloseTag)
      BY <1>4, <1>14, <3>1 DEF Seam
    <3>3. Occurrences(p5, t) =
            Occurrences(p4, t) \cup {Len(p4) + j : j \in Occurrences(CloseTag, t)}
      BY <1>9, <1>17, <3>2, OccursInSeam
    <3> QED
      BY <1>14, <3>3
  <2>8. Occurrences(p, t) = Occurrences(p5, t)
    <3>1. Seam(p5, q)
      BY <1>2, <1>15 DEF Seam
    <3>2. Occurrences(p, t) = Occurrences(p5, t) \cup {Len(p5) + j : j \in Occurrences(q, t)}
      BY <1>10, <1>17, <3>1, OccursInSeam
    <3> QED
      BY <2>2, <3>2
  <2> QED
    BY <1>5, <2>4, <2>5, <2>6, <2>7, <2>8
<1>18. Occurrences(p, OpenTag) = {1}
  <2>1. Len(OpenTag) >= 4 /\ Free(c, OpenTag)
    BY <1>4 DEF Untagged
  <2>2. Occurrences(p, OpenTag) = Occurrences(OpenTag, OpenTag)
          \cup {6 + Len(c) + j : j \in Occurrences(CloseTag, OpenTag)}
    BY <1>4, <1>17, <2>1
  <2> QED
    BY <2>2, TagsInTags
<1>19. Occurrences(p, CloseTag) = {7 + Len(c)}
  <2>1. Len(CloseTag) >= 4 /\ Free(c, CloseTag)
    BY <1>4 DEF Untagged
  <2>2. Occurrences(p, CloseTag) = Occurrences(OpenTag, CloseTag)
          \cup {6 + Len(c) + j : j \in Occurrences(CloseTag, CloseTag)}
    BY <1>4, <1>17, <2>1
  <2>3. Occurrences(p, CloseTag) = {6 + Len(c) + j : j \in {1}}
    BY <2>2, TagsInTags
  <2>4. 6 + Len(c) + 1 = 7 + Len(c)
    BY <1>4
  <2> QED
    BY <2>3, <2>4
<1>20. ASSUME NEW k \in 1..Len(c)
       PROVE  p[5 + k] = c[k]
  <2>1. /\ 5 + k \in 1..(5 + Len(c)) /\ 5 + k \in 1..(6 + Len(c))
        /\ 5 + k \in 1..(11 + Len(c))
    BY <1>4
  <2> QED
    BY <1>13, <1>14, <1>15, <1>16, <2>1
<1> QED
  BY <1>4, <1>16, <1>18, <1>19, <1>20

(* From at on the prompt p is a data section that holds c.                 *)
Wraps(p, c, at) ==
  /\ {i \in Occurrences(p, OpenTag) : i >= at} = {at}
  /\ {i \in Occurrences(p, CloseTag) : i >= at} = {at + Len(OpenTag) + Len(c) + 2}
  /\ SubSeq(p, at + Len(OpenTag) + 1, at + Len(OpenTag) + Len(c)) = c

(* What the preamble holds does not matter from the section on.            *)
LEMMA PromptIsolates ==
  ASSUME NEW claims \in Claims, NEW c, Untagged(c), NEW p, p = build_agent_prompt(claims, c),
         NEW at, at = Len(p) - Len(Section(c)) + 1
  PROVE  Wraps(p, c, at)
<1>1. PICK a, w : a = Preamble(claims) /\ w = Section(c)
  OBVIOUS
<1>2. a \in Texts /\ Len(a) \in Nat /\ a[Len(a)] = "\n"
  BY <1>1, PreambleIs
<1>3. /\ w \in Texts /\ Len(c) \in Nat /\ Len(w) = 13 + Len(c)
      /\ Occurrences(w, OpenTag) = {1} /\ Occurrences(w, CloseTag) = {7 + Len(c)}
      /\ \A k \in 1..Len(c) : w[5 + k] = c[k]
  BY <1>1, SectionIsolates
<1>4. p = a \o w
  BY <1>1 DEF build_agent_prompt
<1>5. /\ p \in Texts /\ Len(p) = Len(a) + Len(w)
      /\ \A k \in 1..Len(w) : p[Len(a) + k] = w[k]
  <2>1. /\ a \o w \in Texts /\ Len(a \o w) = Len(a) + Len(w)
        /\ \A k \in 1..Len(w) : (a \o w)[Len(a) + k] = w[k]
    <3>1. a \in Texts /\ w \in Texts
      BY <1>2, <1>3
    <3> QED
      BY <3>1, JoinIs
  <2> QED
    BY <1>4, <2>1
<1>6. PICK d, n : d = Len(a) /\ n = Len(c)
  OBVIOUS
<1>7. d \in Nat /\ n \in Nat /\ at = d + 1
  BY <1>1, <1>2, <1>3, <1>5, <1>6
<1>8. Seam(a, w)
  BY <1>2, <1>3 DEF Seam
<1>9. ASSUME NEW t, IsTag(t)
      PROVE  {i \in Occurrences(p, t) : i >= at} = {d + j : j \in Occurrences(w, t)}
  <2>1. Occurrences(p, t) = Occurrences(a, t) \cup {d + j : j \in Occurrences(w, t)}
    BY <1>4, <1>6, <1>8, <1>9, OccursInSeam
  <2>2. t \in Texts /\ Len(t) \in Nat /\ Len(t) > 0
    BY <1>9, LenProperties DEF IsTag, Texts
  <2>3. ASSUME NEW i \in Occurrences(a, t)
        PROVE  ~(i >= at)
    <3>1. i \in 1..(d - Len(t) + 1)
      BY <1>6 DEF Occurrences
    <3> QED
      BY <1>7, <2>2, <3>1
  <2>4. ASSUME NEW j \in Occurrences(w, t)
        PROVE  d + j >= at
    <3>1. j \in 1..(Len(w) - Len(t) + 1)
      BY DEF Occurrences
    <3>2. Len(w) \in Nat
      BY <1>3, LenProperties DEF Texts
    <3> QED
      BY <1>7, <2>2, <3>1, <3>2
  <2> QED
    BY <2>1, <2>3, <2>4
<1>10. IsTag(OpenTag) /\ IsTag(CloseTag) /\ Len(OpenTag) = 4
  BY OpenIsTag, CloseIsTag
<1>11. {i \in Occurrences(p, OpenTag) : i >= at} = {at}
  <2>1. {i \in Occurrences(p, OpenTag) : i >= at} = {d + j : j \in {1}}
    BY <1>3, <1>9, <1>10
  <2> QED
    BY <1>7, <2>1
<1>12. {i \in Occurrences(p, CloseTag) : i >= at} = {at + Len(OpenTag) + n + 2}
  <2>1. {i \in Occurrences(p, CloseTag) : i >= at} = {d + j : j \in {7 + n}}
    BY <1>3, <1>6, <1>9, <1>10
  <2>2. d + (7 + n) = at + 4 + n + 2
    BY <1>7
  <2> QED
    BY <1>10, <2>1, <2>2
<1>13. PICK v, b, e : v = SubSeq(p, b, e) /\ b = d + 6 /\ e = d + 5 + n
  OBVIOUS
<1>14. b \in Int /\ e \in Int /\ e - b + 1 = n /\ (b <= e \/ n = 0)
  BY <1>7, <1>13
<1>15. \A i \in b..e : p[i] \in Unit
  <2> SUFFICES ASSUME NEW i \in b..e
               PROVE  p[i] \in Unit
    OBVIOUS
  <2>1. i \in 1..Len(p)
    BY <1>3, <1>5, <1>6, <1>7, <1>13
  <2> QED
    BY <1>5, <2>1, ElementOfSeq DEF Texts
<1>16. /\ v \in Seq(Unit)
       /\ Len(v) = IF b <= e THEN e - b + 1 ELSE 0
       /\ \A k \in 1..(e - b + 1) : v[k] = p[b + k - 1]
  <2>1. b \in Int /\ e \in Int /\ v = SubSeq(p, b, e)
    BY <1>13, <1>14
  <2> QED
    BY <1>15, <2>1, SubSeqProperties
<1>17. ASSUME NEW k \in 1..n
       PROVE  v[k] = c[k]
  <2>1. k \in 1..(e - b + 1) /\ b + k - 1 = d + (5 + k) /\ 5 + k \in 1..Len(w)
    BY <1>3, <1>6, <1>7, <1>13, <1>14
  <2>2. v[k] = p[d + (5 + k)]
    BY <1>16, <2>1
  <2>3. p[d + (5 + k)] = w[5 + k]
    BY <1>5, <1>6, <2>1
  <2> QED
    BY <1>3, <1>6, <2>2, <2>3
<1>18. v = c
  <2>1. Len(v) = n /\ c \in Seq(Unit)
    BY <1>14, <1>16 DEF Untagged, Texts
  <2> QED
    BY <1>6, <1>16, <1>17, <2>1, SeqEqual
<1>19. b = at + Len(OpenTag) + 1 /\ e = at + Len(OpenTag) + n
  BY <1>7, <1>10, <1>13
<1> QED
  BY <1>6, <1>11, <1>12, <1>13, <1>18, <1>19 DEF Wraps

-----------------------------------------------------------------------------
(* Once sanitized the content has no boundary tag, and the prompt is made  *)
(* of that content.                                                        *)
IInv ==
  /\ content \in Texts
  /\ pc \in {"sanitized", "asked"} => Untagged(content)
  /\ pc = "asked" => \E claims \in Claims : prompt = build_agent_prompt(claims, content)

LEMMA InitIsolates ==
  Init => IInv
<1> SUFFICES ASSUME Init
             PROVE  IInv
  OBVIOUS
<1>1. pc = "raw" /\ content = Text(page) /\ page \in BoundedSeq(Block, MaxBlocks)
  BY DEF Init
<1>2. page \in Seq(Block)
  <2>1. PICK n \in 0..MaxBlocks : page \in [1..n -> Block]
    BY <1>1 DEF BoundedSeq, SeqOf
  <2>2. n \in Nat
    BY <2>1, SanitizeAssumption
  <2> QED
    BY <2>1, <2>2, FunctionIsSeq
<1>3. content \in Texts
  BY <1>1, <1>2, PageIsText
<1> QED
  BY <1>1, <1>3 DEF IInv

LEMMA StepIsolates ==
  IInv /\ [Next]_vars => IInv'
<1> SUFFICES ASSUME IInv, [Next]_vars
             PROVE  IInv'
  OBVIOUS
<1>1. CASE Sanitized
  <2>1. content' = sanitize_content(content) /\ pc' = "sanitized" /\ content \in Texts
    BY <1>1 DEF Sanitized, IInv
  <2>2. Untagged(content')
    BY <2>1, SanitizedIsUntagged
  <2> QED
    BY <2>1, <2>2 DEF IInv, Untagged, Free
<1>2. CASE Panicked
  <2>1. pc' = "panicked" /\ content' = <<>>
    BY <1>2 DEF Panicked
  <2>2. <<>> \in Texts
    BY EmptySeq DEF Texts
  <2> QED
    BY <2>1, <2>2 DEF IInv
<1>3. ASSUME NEW claims \in Claims, Assess(claims)
      PROVE  IInv'
  <2>1. /\ content' = content /\ pc' = "asked" /\ prompt' = build_agent_prompt(claims, content)
        /\ Untagged(content) /\ content \in Texts
    BY <1>3 DEF Assess, IInv
  <2> QED
    BY <2>1 DEF IInv
<1>4. CASE UNCHANGED vars
  BY <1>4 DEF IInv, vars
<1> QED
  BY <1>1, <1>2, <1>3, <1>4 DEF Next

(* Whatever a site serves and whatever the card claims, the data section   *)
(* that the prompt of agent.rs:34 ends with opens once and closes once,    *)
(* around the whole sanitized content: no text of a page survives the      *)
(* passes of sanitize_content as a boundary tag, and none arises where     *)
(* pieces meet.  Of the claims before it nothing is said.                  *)
THEOREM PromptIsolated == Spec => []Isolated
<1>1. IInv => Isolated
  <2> SUFFICES ASSUME IInv, pc = "asked",
                      NEW at, at = Len(prompt) - Len(Section(content)) + 1
               PROVE  Wraps(prompt, content, at)
    BY DEF Isolated, Wraps
  <2>1. PICK claims \in Claims : prompt = build_agent_prompt(claims, content)
    BY DEF IInv
  <2>2. Untagged(content)
    BY DEF IInv
  <2> QED
    BY <2>1, <2>2, PromptIsolates
<1> QED
  BY <1>1, InitIsolates, StepIsolates, PTL DEF Spec
=============================================================================
