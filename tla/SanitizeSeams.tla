--------------------------- MODULE SanitizeSeams ---------------------------
(***************************************************************************)
(* That the passes of Sanitize treat the pieces of a page one by one.      *)
(*                                                                         *)
(* A pass is a walk through a text.  Where two texts meet, the walk through*)
(* both is the walk through the first and then the one through the second, *)
(* if the first text ends no later than what it begins.  That is what      *)
(* Complete asks of a text before each pass, and it is so of two texts     *)
(* when it is so of each.                                                  *)
(***************************************************************************)
EXTENDS SanitizeProofs

-----------------------------------------------------------------------------
(* Searches in a text that two texts make.                                 *)

(* What occurs in a text occurs in one that goes on, and at the same place *)
(* from the end in one that has more before it.                            *)
LEMMA OccursOnLeft ==
  ASSUME NEW S, NEW a \in Seq(S), NEW b \in Seq(S), NEW p \in Seq(S), NEW j
  PROVE  j \in Occurrences(a, p) <=> j \in Occurrences(a \o b, p) /\ j + Len(p) <= Len(a) + 1
<1> DEFINE c == a \o b
<1>1. Len(a) \in Nat /\ Len(b) \in Nat /\ Len(p) \in Nat
  BY LenProperties
<1>2. /\ c \in Seq(S) /\ Len(c) = Len(a) + Len(b)
      /\ \A i \in 1..(Len(a) + Len(b)) : c[i] = IF i <= Len(a) THEN a[i] ELSE b[i - Len(a)]
  BY ConcatProperties
<1> HIDE DEF c
<1>3. ASSUME j \in 1..(Len(a) - Len(p) + 1), NEW k \in 1..Len(p)
      PROVE  c[j + k - 1] = a[j + k - 1]
  <2>1. j + k - 1 \in 1..(Len(a) + Len(b)) /\ j + k - 1 <= Len(a)
    BY <1>1, <1>3
  <2> QED
    BY <1>2, <2>1
<1>4. j \in 1..(Len(a) - Len(p) + 1) <=>
        j \in 1..(Len(c) - Len(p) + 1) /\ j + Len(p) <= Len(a) + 1
  BY <1>1, <1>2
<1>5. OccursAt(a, p, j) <=> OccursAt(c, p, j) /\ j + Len(p) <= Len(a) + 1
  BY <1>3, <1>4 DEF OccursAt
<1> QED
  BY <1>2, <1>5, OccursIs DEF c

LEMMA OccursOnRight ==
  ASSUME NEW S, NEW a \in Seq(S), NEW b \in Seq(S), NEW p \in Seq(S), NEW j \in Nat, j >= 1
  PROVE  j \in Occurrences(b, p) <=> Len(a) + j \in Occurrences(a \o b, p)
<1> DEFINE c == a \o b
<1>1. Len(a) \in Nat /\ Len(b) \in Nat /\ Len(p) \in Nat
  BY LenProperties
<1>2. /\ c \in Seq(S) /\ Len(c) = Len(a) + Len(b)
      /\ \A i \in 1..(Len(a) + Len(b)) : c[i] = IF i <= Len(a) THEN a[i] ELSE b[i - Len(a)]
  BY ConcatProperties
<1> HIDE DEF c
<1>3. ASSUME j \in 1..(Len(b) - Len(p) + 1), NEW k \in 1..Len(p)
      PROVE  c[(Len(a) + j) + k - 1] = b[j + k - 1]
  <2>1. /\ (Len(a) + j) + k - 1 \in 1..(Len(a) + Len(b))
        /\ ~((Len(a) + j) + k - 1 <= Len(a))
        /\ ((Len(a) + j) + k - 1) - Len(a) = j + k - 1
    BY <1>1, <1>3
  <2> QED
    BY <1>2, <2>1
<1>4. j \in 1..(Len(b) - Len(p) + 1) <=> Len(a) + j \in 1..(Len(c) - Len(p) + 1)
  BY <1>1, <1>2
<1>5. OccursAt(b, p, j) <=> OccursAt(c, p, Len(a) + j)
  BY <1>3, <1>4 DEF OccursAt
<1> QED
  BY <1>2, <1>5, OccursIs DEF c

(* So a search that has a hit in a text has the same one if the text goes  *)
(* on, and a search that begins in the second text only sees that one.     *)
LEMMA FindOnLeft ==
  ASSUME NEW S, NEW a \in Seq(S), NEW b \in Seq(S), NEW p \in Seq(S), Len(p) > 0,
         NEW i \in Nat, Find(a, p, i) # 0
  PROVE  Find(a \o b, p, i) = Find(a, p, i)
<1> DEFINE c == a \o b
<1>1. Len(a) \in Nat /\ Len(p) \in Nat /\ c \in Seq(S)
  BY LenProperties, ConcatProperties
<1> HIDE DEF c
<1>2. PICK e, f : e = Find(a, p, i) /\ f = Find(c, p, i)
  OBVIOUS
<1>3. /\ e \in Nat /\ e \in Occurrences(a, p) /\ e >= i /\ e + Len(p) <= Len(a) + 1
      /\ \A j \in Occurrences(a, p) : j >= i => e <= j
  BY <1>2, FindIsFirst
<1>4. e \in Occurrences(c, p)
  BY <1>3, OccursOnLeft DEF c
<1>5. /\ f \in Nat
      /\ f = 0 => \A j \in Occurrences(c, p) : j < i
      /\ f # 0 => /\ f \in Occurrences(c, p) /\ f >= i
                  /\ \A j \in Occurrences(c, p) : j >= i => f <= j
  BY <1>1, <1>2, FindIsFirst
<1>6. f # 0 /\ f <= e
  BY <1>3, <1>4, <1>5
<1>7. f + Len(p) <= Len(a) + 1
  BY <1>1, <1>3, <1>5, <1>6
<1>8. f \in Occurrences(a, p)
  BY <1>5, <1>6, <1>7, OccursOnLeft DEF c
<1> QED
  BY <1>2, <1>3, <1>5, <1>6, <1>8 DEF c

(* A place of the second text, in both; 0 is no place.                     *)
Shifted(d, i) == IF i = 0 THEN 0 ELSE d + i

LEMMA FindOnRight ==
  ASSUME NEW S, NEW a \in Seq(S), NEW b \in Seq(S), NEW p \in Seq(S), Len(p) > 0,
         NEW i \in Nat, i >= 1
  PROVE  Find(a \o b, p, Len(a) + i) = Shifted(Len(a), Find(b, p, i))
<1> DEFINE c == a \o b
<1>1. Len(a) \in Nat /\ Len(p) \in Nat /\ c \in Seq(S) /\ Len(a) + i \in Nat
  BY LenProperties, ConcatProperties
<1> HIDE DEF c
<1>2. PICK e, f : e = Find(b, p, i) /\ f = Find(c, p, Len(a) + i)
  OBVIOUS
<1>3. /\ e \in Nat
      /\ e = 0 => \A j \in Occurrences(b, p) : j < i
      /\ e # 0 => /\ e \in Occurrences(b, p) /\ e >= i
                  /\ \A j \in Occurrences(b, p) : j >= i => e <= j
  BY <1>2, FindIsFirst
<1>4. /\ f \in Nat
      /\ f = 0 => \A j \in Occurrences(c, p) : j < Len(a) + i
      /\ f # 0 => /\ f \in Occurrences(c, p) /\ f >= Len(a) + i
                  /\ \A j \in Occurrences(c, p) : j >= Len(a) + i => f <= j
  BY <1>1, <1>2, FindIsFirst
<1>5. e # 0 => Len(a) + e \in Occurrences(c, p)
  BY <1>3, OccursOnRight DEF c
<1>6. f # 0 => f - Len(a) \in Nat /\ f - Len(a) >= 1 /\ f - Len(a) \in Occurrences(b, p)
  <2> SUFFICES ASSUME f # 0
               PROVE  /\ f - Len(a) \in Nat /\ f - Len(a) >= 1
                      /\ f - Len(a) \in Occurrences(b, p)
    OBVIOUS
  <2>1. f - Len(a) \in Nat /\ f - Len(a) >= 1 /\ Len(a) + (f - Len(a)) = f
    BY <1>1, <1>4
  <2> QED
    BY <1>4, <2>1, OccursOnRight DEF c
<1>7. CASE e = 0
  <2>1. f = 0
    BY <1>1, <1>3, <1>4, <1>6, <1>7
  <2> QED
    BY <1>2, <1>7, <2>1 DEF c, Shifted
<1>8. CASE e # 0
  <2>1. f # 0 /\ f <= Len(a) + e
    BY <1>1, <1>3, <1>4, <1>5, <1>8
  <2>2. e <= f - Len(a)
    BY <1>1, <1>3, <1>4, <1>6, <1>8, <2>1
  <2>3. f = Len(a) + e
    BY <1>1, <1>3, <1>4, <2>1, <2>2
  <2> QED
    BY <1>2, <1>8, <2>3 DEF c, Shifted
<1> QED
  BY <1>7, <1>8

(* Where nothing is across the seam, a search without a hit in the first   *)
(* text goes on at the start of the second.                                *)
Seamless(a, b, p) ==
  Occurrences(a \o b, p) = Occurrences(a, p) \cup {Len(a) + j : j \in Occurrences(b, p)}

LEMMA FindAcross ==
  ASSUME NEW S, NEW a \in Seq(S), NEW b \in Seq(S), NEW p \in Seq(S), Len(p) > 0,
         Seamless(a, b, p), NEW i \in Nat, i <= Len(a) + 1, Find(a, p, i) = 0
  PROVE  Find(a \o b, p, i) = Shifted(Len(a), Find(b, p, 1))
<1> DEFINE c == a \o b
<1>1. Len(a) \in Nat /\ c \in Seq(S) /\ Len(b) \in Nat /\ Len(p) \in Nat
  BY LenProperties, ConcatProperties
<1>2. Occurrences(c, p) = Occurrences(a, p) \cup {Len(a) + j : j \in Occurrences(b, p)}
  BY DEF Seamless
<1> HIDE DEF c
<1>3. PICK e, f : e = Find(b, p, 1) /\ f = Find(c, p, i)
  OBVIOUS
<1>4. \A j \in Occurrences(a, p) : j < i
  BY FindIsFirst
<1>5. \A j \in Occurrences(b, p) : j \in Nat /\ j >= 1
  BY <1>1 DEF Occurrences
<1>6. /\ e \in Nat
      /\ e = 0 => \A j \in Occurrences(b, p) : j < 1
      /\ e # 0 => /\ e \in Occurrences(b, p)
                  /\ \A j \in Occurrences(b, p) : j >= 1 => e <= j
  BY <1>3, FindIsFirst
<1>7. /\ f \in Nat
      /\ f = 0 => \A j \in Occurrences(c, p) : j < i
      /\ f # 0 => /\ f \in Occurrences(c, p) /\ f >= i
                  /\ \A j \in Occurrences(c, p) : j >= i => f <= j
  BY <1>1, <1>3, FindIsFirst
<1>8. CASE e = 0
  <2>1. Occurrences(b, p) = {}
    BY <1>5, <1>6, <1>8
  <2>2. Occurrences(c, p) = Occurrences(a, p)
    BY <1>2, <2>1
  <2>3. f = 0
    BY <1>4, <1>7, <2>2
  <2> QED
    BY <1>3, <1>8, <2>3 DEF c, Shifted
<1>9. CASE e # 0
  <2>1. Len(a) + e \in Occurrences(c, p) /\ Len(a) + e >= i
    BY <1>1, <1>2, <1>5, <1>6, <1>9
  <2>2. f # 0 /\ f <= Len(a) + e
    BY <1>1, <1>6, <1>7, <2>1
  <2>3. PICK j \in Occurrences(b, p) : f = Len(a) + j
    BY <1>2, <1>4, <1>7, <2>2
  <2>4. e <= j
    BY <1>5, <1>6, <1>9, <2>3
  <2>5. Len(a) \in Nat /\ e \in Nat /\ j \in Nat
    BY <1>1, <1>5, <1>6
  <2>6. f = Len(a) + e
    BY <2>2, <2>3, <2>4, <2>5
  <2> QED
    BY <1>3, <1>9, <2>6 DEF c, Shifted
<1> QED
  BY <1>8, <1>9

-----------------------------------------------------------------------------
(* Parts of a text that two texts make.                                    *)

LEMMA PartOnLeft ==
  ASSUME NEW a \in Texts, NEW b \in Texts, NEW i \in Nat, i >= 1, NEW j \in Int, j <= Len(a)
  PROVE  SubSeq(a \o b, i, j) = SubSeq(a, i, j)
<1>1. Len(a) \in Nat /\ a \in Seq(Unit) /\ b \in Seq(Unit)
  BY LenProperties DEF Texts
<1>2. CASE j < i
  BY <1>2, SubSeqEmpty
<1>3. CASE ~(j < i)
  <2>1. i \in 1..Len(a) /\ j \in 1..Len(a)
    BY <1>1, <1>3
  <2> QED
    BY <1>1, <2>1, SubSeqOfConcat1
<1> QED
  BY <1>2, <1>3

LEMMA PartOnRight ==
  ASSUME NEW a \in Texts, NEW b \in Texts, NEW i \in Nat, i >= 1, NEW j \in Int, j <= Len(b)
  PROVE  SubSeq(a \o b, Len(a) + i, Len(a) + j) = SubSeq(b, i, j)
<1>1. Len(a) \in Nat /\ Len(b) \in Nat /\ a \in Seq(Unit) /\ b \in Seq(Unit)
  BY LenProperties DEF Texts
<1>2. PICK m, n : m = Len(a) + i /\ n = Len(a) + j
  OBVIOUS
<1>3. m \in Int /\ n \in Int /\ m - Len(a) = i /\ n - Len(a) = j
  BY <1>1, <1>2
<1>4. CASE j < i
  <2>1. n < m
    BY <1>1, <1>2, <1>4
  <2> QED
    BY <1>2, <1>3, <1>4, <2>1, SubSeqEmpty
<1>5. CASE ~(j < i)
  <2>1. m \in (Len(a) + 1)..(Len(a) + Len(b)) /\ n \in (Len(a) + 1)..(Len(a) + Len(b))
    BY <1>1, <1>2, <1>5
  <2>2. SubSeq(a \o b, m, n) = SubSeq(b, m - Len(a), n - Len(a))
    BY <1>1, <2>1, SubSeqOfConcat2
  <2> QED
    BY <1>2, <1>3, <2>2
<1> QED
  BY <1>4, <1>5

LEMMA PartAcross ==
  ASSUME NEW a \in Texts, NEW b \in Texts, NEW i \in Nat, i >= 1, i <= Len(a) + 1,
         NEW j \in Nat, j <= Len(b)
  PROVE  SubSeq(a \o b, i, Len(a) + j) = SubSeq(a, i, Len(a)) \o SubSeq(b, 1, j)
<1>1. Len(a) \in Nat /\ Len(b) \in Nat
  BY LenProperties DEF Texts
<1>2. PICK c, k, n : c = a \o b /\ k = Len(a) /\ n = Len(a) + j
  OBVIOUS
<1>3. c \in Seq(Unit) /\ Len(c) = Len(a) + Len(b)
  BY <1>2, JoinIs DEF Texts
<1>4. i \in 1..(Len(c) + 1) /\ k \in (i - 1)..Len(c) /\ n \in k..Len(c) /\ k + 1 = Len(a) + 1
  BY <1>1, <1>2, <1>3
<1>5. SubSeq(c, i, n) = SubSeq(c, i, k) \o SubSeq(c, k + 1, n)
  BY <1>3, <1>4, ConcatAdjacentSubSeq
<1>6. SubSeq(c, i, k) = SubSeq(a, i, Len(a))
  BY <1>1, <1>2, PartOnLeft
<1>7. SubSeq(c, k + 1, n) = SubSeq(b, 1, j)
  BY <1>1, <1>2, PartOnRight
<1> QED
  BY <1>2, <1>5, <1>6, <1>7

-----------------------------------------------------------------------------
(* A pass again, as a walk: at each place it puts out a text and goes on   *)
(* further right, or stops.                                                *)

Walk(f, n, put, next) ==
  f = [i \in 1..n |-> IF next[i] = 0 THEN put[i] ELSE put[i] \o f[next[i]]]

Walks(n, put, next) ==
  /\ n \in Nat
  /\ put \in [1..n -> Texts]
  /\ next \in [1..n -> 0..n]
  /\ \A i \in 1..n : next[i] = 0 \/ next[i] > i

(* There is such a walk, and what it puts out are texts.                   *)
LEMMA WalkExists ==
  ASSUME NEW n, NEW put, NEW next, Walks(n, put, next)
  PROVE  /\ \E f : Walk(f, n, put, next)
         /\ \A f : Walk(f, n, put, next) => f \in [1..n -> Texts]
<1> DEFINE ends == {i \in 1..n : next[i] = 0}
           onward == [i \in 1..n |-> IF next[i] = 0 THEN i ELSE next[i]]
<1>1. GoesOn(Unit, n, ends, put, put, onward)
  <2>1. /\ n \in Nat /\ put \in [1..n -> Texts] /\ next \in [1..n -> 0..n]
        /\ \A i \in 1..n : next[i] = 0 \/ next[i] > i
    BY DEF Walks
  <2>2. onward \in [1..n -> 1..n] /\ \A i \in (1..n) \ ends : onward[i] > i
    <3>1. ASSUME NEW i \in 1..n, next[i] # 0
          PROVE  next[i] \in 1..n /\ next[i] > i
      <4>1. next[i] \in 0..n /\ next[i] > i
        BY <2>1, <3>1
      <4> QED
        BY <2>1, <3>1, <4>1
    <3> QED
      BY <3>1
  <2>3. ends \in SUBSET (1..n)
    OBVIOUS
  <2> HIDE DEF ends, onward
  <2> QED
    BY <2>1, <2>2, <2>3 DEF GoesOn, Texts
<1>2. ASSUME NEW f
      PROVE  Walk(f, n, put, next) <=> Pass(f, 1..n, ends, put, put, onward)
  <2>1. \A i \in 1..n : (IF next[i] = 0 THEN put[i] ELSE put[i] \o f[next[i]]) =
                        (IF i \in ends THEN put[i] ELSE put[i] \o f[onward[i]])
    OBVIOUS
  <2> QED
    BY <2>1 DEF Walk, Pass
<1> HIDE DEF ends, onward
<1>3. \E f : Pass(f, 1..n, ends, put, put, onward)
  BY <1>1, PassExists
<1>4. ASSUME NEW f, Pass(f, 1..n, ends, put, put, onward)
      PROVE  f \in [1..n -> Texts]
  BY <1>1, <1>4, PassIsText DEF Texts
<1> QED
  BY <1>2, <1>3, <1>4

(* How a walk through two texts, of lengths m and n, has to go for it to   *)
(* be the walks through each: in the second it is the same further right,  *)
(* in the first it is the same where that does not stop, and where it does *)
(* the walk goes on as the second begins.                                  *)
Meets(m, n, putA, nextA, putB, nextB, putC, nextC) ==
  /\ \A j \in 1..(n + 1) : putC[m + j] = putB[j] /\ nextC[m + j] = Shifted(m, nextB[j])
  /\ \A i \in 1..(m + 1) :
       IF nextA[i] # 0 THEN putC[i] = putA[i] /\ nextC[i] = nextA[i]
       ELSE putC[i] = putA[i] \o putB[1] /\ nextC[i] = Shifted(m, nextB[1])

LEMMA Associative ==
  \A a, b, c \in Texts : (a \o b) \o c = a \o (b \o c)
BY ConcatAssociative DEF Texts

(* The walks f and g through two texts, and h through the two as one.      *)
Joined(m, n, f, putA, nextA, g, putB, nextB, h, putC, nextC) ==
  /\ m \in Nat /\ n \in Nat
  /\ Walks(m + 1, putA, nextA) /\ Walk(f, m + 1, putA, nextA)
  /\ Walks(n + 1, putB, nextB) /\ Walk(g, n + 1, putB, nextB)
  /\ Walks(m + n + 1, putC, nextC) /\ Walk(h, m + n + 1, putC, nextC)
  /\ Meets(m, n, putA, nextA, putB, nextB, putC, nextC)

(* What h comes to is what f comes to and then g.                          *)
Ends(h, f, g) == h[1] = f[1] \o g[1]

(* Said of the second text from right to left, then of the first.          *)
LEMMA WalksJoin ==
  ASSUME NEW m, NEW n, NEW f, NEW putA, NEW nextA, NEW g, NEW putB, NEW nextB,
         NEW h, NEW putC, NEW nextC,
         Joined(m, n, f, putA, nextA, g, putB, nextB, h, putC, nextC)
  PROVE  Ends(h, f, g)
<1> SUFFICES ASSUME m \in Nat, n \in Nat,
                    Walks(m + 1, putA, nextA), Walk(f, m + 1, putA, nextA),
                    Walks(n + 1, putB, nextB), Walk(g, n + 1, putB, nextB),
                    Walks(m + n + 1, putC, nextC), Walk(h, m + n + 1, putC, nextC),
                    Meets(m, n, putA, nextA, putB, nextB, putC, nextC)
             PROVE  h[1] = f[1] \o g[1]
  BY DEF Joined, Ends
<1>1. /\ f \in [1..(m + 1) -> Texts]
      /\ \A i \in 1..(m + 1) : /\ putA[i] \in Texts
                               /\ nextA[i] = 0 \/ (nextA[i] \in 1..(m + 1) /\ nextA[i] > i)
                               /\ f[i] = IF nextA[i] = 0 THEN putA[i] ELSE putA[i] \o f[nextA[i]]
  <2>1. f \in [1..(m + 1) -> Texts]
    BY WalkExists
  <2>2. \A i \in 1..(m + 1) :
          f[i] = IF nextA[i] = 0 THEN putA[i] ELSE putA[i] \o f[nextA[i]]
    BY DEF Walk
  <2>3. \A i \in 1..(m + 1) :
          putA[i] \in Texts /\ (nextA[i] = 0 \/ (nextA[i] \in 1..(m + 1) /\ nextA[i] > i))
    <3> SUFFICES ASSUME NEW i \in 1..(m + 1)
                 PROVE  /\ putA[i] \in Texts
                        /\ nextA[i] = 0 \/ (nextA[i] \in 1..(m + 1) /\ nextA[i] > i)
      OBVIOUS
    <3>1. /\ putA[i] \in Texts /\ nextA[i] \in 0..(m + 1)
          /\ nextA[i] = 0 \/ nextA[i] > i
      BY DEF Walks
    <3> QED
      BY <3>1
  <2> QED
    BY <2>1, <2>2, <2>3
<1>2. /\ g \in [1..(n + 1) -> Texts]
      /\ \A i \in 1..(n + 1) : /\ putB[i] \in Texts
                               /\ nextB[i] = 0 \/ (nextB[i] \in 1..(n + 1) /\ nextB[i] > i)
                               /\ g[i] = IF nextB[i] = 0 THEN putB[i] ELSE putB[i] \o g[nextB[i]]
  <2>1. g \in [1..(n + 1) -> Texts]
    BY WalkExists
  <2>2. \A i \in 1..(n + 1) :
          g[i] = IF nextB[i] = 0 THEN putB[i] ELSE putB[i] \o g[nextB[i]]
    BY DEF Walk
  <2>3. \A i \in 1..(n + 1) :
          putB[i] \in Texts /\ (nextB[i] = 0 \/ (nextB[i] \in 1..(n + 1) /\ nextB[i] > i))
    <3> SUFFICES ASSUME NEW i \in 1..(n + 1)
                 PROVE  /\ putB[i] \in Texts
                        /\ nextB[i] = 0 \/ (nextB[i] \in 1..(n + 1) /\ nextB[i] > i)
      OBVIOUS
    <3>1. /\ putB[i] \in Texts /\ nextB[i] \in 0..(n + 1)
          /\ nextB[i] = 0 \/ nextB[i] > i
      BY DEF Walks
    <3> QED
      BY <3>1
  <2> QED
    BY <2>1, <2>2, <2>3
<1>3. \A i \in 1..(m + n + 1) :
        h[i] = IF nextC[i] = 0 THEN putC[i] ELSE putC[i] \o h[nextC[i]]
  BY DEF Walk
<1>4. \A j \in 1..(n + 1) : h[m + j] = g[j]
  <2> DEFINE I == 1..(n + 1)
             d == [j \in I |-> n + 1 - j]
             Good == {j \in I : h[m + j] = g[j]}
  <2>1. ASSUME NEW j \in I \ Good
        PROVE  \E i \in I \ Good : d[i] < d[j]
    <3>1. j \in Nat /\ m + j \in 1..(m + n + 1) /\ m + j # 0 /\ h[m + j] # g[j]
      OBVIOUS
    <3>2. putC[m + j] = putB[j] /\ nextC[m + j] = Shifted(m, nextB[j])
      BY DEF Meets
    <3>3. h[m + j] = IF nextC[m + j] = 0 THEN putC[m + j] ELSE putC[m + j] \o h[nextC[m + j]]
      BY <1>3, <3>1
    <3>4. nextB[j] # 0
      BY <1>2, <3>1, <3>2, <3>3 DEF Shifted
    <3>5. nextB[j] \in I /\ nextB[j] > j
      BY <1>2, <3>4
    <3>6. nextC[m + j] = m + nextB[j] /\ nextC[m + j] # 0
      BY <3>2, <3>4, <3>5 DEF Shifted
    <3>7. h[m + nextB[j]] # g[nextB[j]]
      BY <1>2, <3>1, <3>2, <3>3, <3>4, <3>6
    <3> QED
      BY <3>1, <3>5, <3>7
  <2>2. Good = I
    <3>1. d \in [I -> Nat] /\ Good \in SUBSET I
      OBVIOUS
    <3> HIDE DEF Good, I, d
    <3>2. Descends(I, d, Good)
      BY <2>1, <3>1 DEF Descends
    <3> QED
      BY <3>2, Descent
  <2> QED
    BY <2>2
<1>5. ASSUME NEW i \in 1..(m + 1), h[i] # f[i] \o g[1]
      PROVE  /\ nextA[i] \in 1..(m + 1) /\ nextA[i] > i
             /\ h[nextA[i]] # f[nextA[i]] \o g[1]
  <2>0. 1 \in 1..(n + 1)
    OBVIOUS
  <2>1. i \in 1..(m + n + 1) /\ g[1] \in Texts
    BY <1>2, <2>0
  <2>2. h[i] = IF nextC[i] = 0 THEN putC[i] ELSE putC[i] \o h[nextC[i]]
    BY <1>3, <2>1
  <2>3. nextA[i] # 0
    <3> SUFFICES ASSUME nextA[i] = 0
                 PROVE  h[i] = f[i] \o g[1]
      BY <1>5
    <3>1. putC[i] = putA[i] \o putB[1] /\ nextC[i] = Shifted(m, nextB[1])
      BY DEF Meets
    <3>2. f[i] = putA[i] /\ putA[i] \in Texts /\ putB[1] \in Texts
      BY <1>1, <1>2, <2>0
    <3>3. CASE nextB[1] = 0
      <4>1. g[1] = putB[1] /\ nextC[i] = 0
        BY <1>2, <2>0, <3>1, <3>3 DEF Shifted
      <4> QED
        BY <2>2, <3>1, <3>2, <4>1
    <3>4. CASE nextB[1] # 0
      <4>1. nextB[1] \in 1..(n + 1) /\ g[1] = putB[1] \o g[nextB[1]] /\ g[nextB[1]] \in Texts
        BY <1>2, <2>0, <3>4
      <4>2. nextC[i] = m + nextB[1] /\ nextC[i] # 0
        BY <3>1, <3>4, <4>1 DEF Shifted
      <4>3. h[nextC[i]] = g[nextB[1]]
        BY <1>4, <4>1, <4>2
      <4>4. h[i] = (putA[i] \o putB[1]) \o g[nextB[1]]
        BY <2>2, <3>1, <4>2, <4>3
      <4>5. (putA[i] \o putB[1]) \o g[nextB[1]] = putA[i] \o (putB[1] \o g[nextB[1]])
        BY <3>2, <4>1, Associative
      <4> QED
        BY <3>2, <4>1, <4>4, <4>5
    <3> QED
      BY <3>3, <3>4
  <2>4. /\ nextA[i] \in 1..(m + 1) /\ nextA[i] > i
        /\ f[i] = putA[i] \o f[nextA[i]] /\ putA[i] \in Texts
    BY <1>1, <2>3
  <2>5. h[i] = putA[i] \o h[nextA[i]]
    BY <2>2, <2>3 DEF Meets
  <2>6. h[nextA[i]] # f[nextA[i]] \o g[1]
    <3> SUFFICES ASSUME h[nextA[i]] = f[nextA[i]] \o g[1]
                 PROVE  h[i] = f[i] \o g[1]
      BY <1>5
    <3>1. f[nextA[i]] \in Texts
      BY <1>1, <2>4
    <3>2. (putA[i] \o f[nextA[i]]) \o g[1] = putA[i] \o (f[nextA[i]] \o g[1])
      BY <2>1, <2>4, <3>1, Associative
    <3> QED
      BY <2>4, <2>5, <3>2
  <2> QED
    BY <2>4, <2>6
<1>6. h[1] = f[1] \o g[1]
  <2> DEFINE I == 1..(m + 1)
             d == [i \in I |-> m + 1 - i]
             Good == {i \in I : h[i] = f[i] \o g[1]}
  <2>1. d \in [I -> Nat]
    <3>1. \A i \in 1..(m + 1) : m + 1 - i \in Nat
      OBVIOUS
    <3> QED
      BY <3>1
  <2>2. \A i, j \in I : j > i => d[j] < d[i]
    OBVIOUS
  <2>3. Good \in SUBSET I
    OBVIOUS
  <2>4. ASSUME NEW i \in I \ Good
        PROVE  nextA[i] \in I \ Good /\ nextA[i] > i
    BY <1>5
  <2>5. 1 \in I
    OBVIOUS
  <2> HIDE DEF I, d
  <2>6. Good = I
    <3> HIDE DEF Good
    <3>1. Descends(I, d, Good)
      BY <2>1, <2>2, <2>3, <2>4 DEF Descends
    <3> QED
      BY <3>1, Descent
  <2> QED
    BY <2>5, <2>6
<1> QED
  BY <1>6

-----------------------------------------------------------------------------
(* Lists of pieces put together.                                           *)

Flattening(f, pieces) ==
  f = [i \in 1..Len(pieces) |-> IF i = 1 THEN pieces[i] ELSE f[i - 1] \o pieces[i]]

(* How FlattenSeq goes about it: from the first piece to the last.         *)
LEMMA FlattenIs ==
  ASSUME NEW pieces \in Seq(Texts), Len(pieces) # 0
  PROVE  \E f \in [1..Len(pieces) -> Texts] :
           /\ FlattenSeq(pieces) = f[Len(pieces)]
           /\ \A i \in 1..Len(pieces) :
                f[i] = IF i = 1 THEN pieces[i] ELSE f[i - 1] \o pieces[i]
<1> DEFINE n == Len(pieces)
           I == 1..n
           m == [i \in I |-> i]
           base == [i \in I |-> pieces[i]]
           step == [x \in I \X Texts |-> x[2] \o pieces[x[1]]]
           next == [i \in I |-> IF i = 1 THEN i ELSE i - 1]
<1>1. n \in Nat /\ \A i \in I : pieces[i] \in Texts
  BY LenProperties, ElementOfSeq
<1>2. FlattenSeq(pieces) = (CHOOSE f : Flattening(f, pieces))[n]
  BY DEF FlattenSeq, Flattening
<1>3. \E f : Flattening(f, pieces)
  <2>1. Recurs(I, m, Texts, {1}, base, step, next)
    <3>1. m \in [I -> Nat] /\ n \in Nat /\ \A i \in I : m[i] <= n
      BY <1>1
    <3>2. {1} \in SUBSET I /\ next \in [I -> I] /\ \A i \in I \ {1} : m[next[i]] < m[i]
      BY <1>1
    <3>3. base \in [I -> Texts]
      BY <1>1
    <3>4. step \in [I \X Texts -> Texts]
      BY <1>1, JoinIsText
    <3> HIDE DEF I, m, base, step, next
    <3> QED
      BY <3>1, <3>2, <3>3, <3>4 DEF Recurs
  <2>2. PICK f : Solution(f, I, Texts, {1}, base, step, next)
    <3> HIDE DEF I, m, base, step, next
    <3> QED
      BY <2>1, Recursion
  <2>3. /\ f \in [I -> Texts]
        /\ f = [i \in I |-> IF i \in {1} THEN base[i] ELSE step[<<i, f[next[i]]>>]]
    <3> HIDE DEF I, m, base, step, next
    <3> QED
      BY <2>2 DEF Solution
  <2>4. \A i \in I : f[i] = IF i = 1 THEN pieces[i] ELSE f[i - 1] \o pieces[i]
    <3> SUFFICES ASSUME NEW i \in I
                 PROVE  f[i] = IF i = 1 THEN pieces[i] ELSE f[i - 1] \o pieces[i]
      OBVIOUS
    <3>1. f[i] = IF i = 1 THEN base[i] ELSE step[<<i, f[next[i]]>>]
      <4> HIDE DEF I, m, base, step, next
      <4> QED
        BY <2>3
    <3>2. CASE i = 1
      BY <3>1, <3>2
    <3>3. CASE i # 1
      <4>1. next[i] = i - 1 /\ i - 1 \in I
        BY <1>1, <3>3
      <4>2. f[i - 1] \in Texts
        BY <2>3, <4>1
      <4> QED
        BY <3>1, <3>3, <4>1, <4>2
    <3> QED
      BY <3>2, <3>3
  <2>5. f = [i \in I |-> f[i]]
    <3> HIDE DEF I, m, base, step, next
    <3> QED
      BY <2>3
  <2> QED
    BY <2>4, <2>5 DEF Flattening
<1>4. PICK f : f = CHOOSE g : Flattening(g, pieces)
  OBVIOUS
<1>5. Flattening(f, pieces)
  BY <1>3, <1>4
<1>6. \A i \in I : f[i] = IF i = 1 THEN pieces[i] ELSE f[i - 1] \o pieces[i]
  BY <1>5 DEF Flattening
<1>7. f \in [I -> Texts]
  <2> DEFINE Good == {i \in I : f[i] \in Texts}
  <2>1. ASSUME NEW i \in I \ Good
        PROVE  \E j \in I \ Good : m[j] < m[i]
    <3>1. i # 1
      BY <1>1, <1>6
    <3>2. i - 1 \in I /\ m[i - 1] < m[i]
      BY <1>1, <3>1
    <3>3. f[i - 1] \notin Texts
      BY <1>1, <1>6, <3>1, JoinIsText
    <3> QED
      BY <3>2, <3>3
  <2>2. m \in [I -> Nat] /\ Good \in SUBSET I
    BY <1>1
  <2>3. Good = I
    <3> HIDE DEF Good, I, m
    <3>1. Descends(I, m, Good)
      BY <2>1, <2>2 DEF Descends
    <3> QED
      BY <3>1, Descent
  <2> QED
    BY <1>5, <2>3 DEF Flattening
<1> QED
  BY <1>2, <1>4, <1>6, <1>7

LEMMA FlattenNone ==
  ASSUME NEW pieces \in Seq(Texts), Len(pieces) = 0
  PROVE  FlattenSeq(pieces) = <<>>
BY EmptySeq DEF FlattenSeq

(* The pieces of two lists one after the other.                            *)
LEMMA FlattenJoins ==
  ASSUME NEW p \in Seq(Texts), NEW q \in Seq(Texts)
  PROVE  FlattenSeq(p \o q) = FlattenSeq(p) \o FlattenSeq(q)
<1>1. /\ Len(p) \in Nat /\ Len(q) \in Nat /\ p \o q \in Seq(Texts)
      /\ FlattenSeq(p) \in Texts /\ FlattenSeq(q) \in Texts
  BY LenProperties, ConcatProperties, FlattenIsText
<1>2. CASE Len(p) = 0
  <2>1. p = <<>> /\ FlattenSeq(p) = <<>>
    BY <1>2, FlattenNone, EmptySeq
  <2> QED
    BY <1>1, <2>1, ConcatEmptySeq DEF Texts
<1>3. CASE Len(q) = 0
  <2>1. q = <<>> /\ FlattenSeq(q) = <<>>
    BY <1>3, FlattenNone, EmptySeq
  <2> QED
    BY <1>1, <2>1, ConcatEmptySeq DEF Texts
<1>4. CASE Len(p) # 0 /\ Len(q) # 0
  <2>1. PICK c, m, n : c = p \o q /\ m = Len(p) /\ n = Len(q)
    OBVIOUS
  <2>2. /\ c \in Seq(Texts) /\ Len(c) = m + n
        /\ \A i \in 1..(m + n) : c[i] = IF i <= m THEN p[i] ELSE q[i - m]
    BY <2>1, ConcatProperties
  <2>3. m \in Nat /\ n \in Nat /\ m # 0 /\ n # 0
    BY <1>1, <1>4, <2>1
  <2>4. PICK f \in [1..m -> Texts] :
          /\ FlattenSeq(p) = f[m]
          /\ \A i \in 1..m : f[i] = IF i = 1 THEN p[i] ELSE f[i - 1] \o p[i]
    BY <2>1, <2>3, FlattenIs
  <2>5. PICK g \in [1..n -> Texts] :
          /\ FlattenSeq(q) = g[n]
          /\ \A i \in 1..n : g[i] = IF i = 1 THEN q[i] ELSE g[i - 1] \o q[i]
    BY <2>1, <2>3, FlattenIs
  <2>6. PICK h \in [1..(m + n) -> Texts] :
          /\ FlattenSeq(c) = h[m + n]
          /\ \A i \in 1..(m + n) : h[i] = IF i = 1 THEN c[i] ELSE h[i - 1] \o c[i]
    <3>1. PICK l : l = m + n
      OBVIOUS
    <3>2. c \in Seq(Texts) /\ Len(c) = l /\ Len(c) # 0
      BY <2>2, <2>3, <3>1
    <3>3. \E h \in [1..l -> Texts] :
            /\ FlattenSeq(c) = h[l]
            /\ \A i \in 1..l : h[i] = IF i = 1 THEN c[i] ELSE h[i - 1] \o c[i]
      BY <3>2, FlattenIs
    <3> QED
      BY <3>1, <3>3
  <2>7. \A i \in 1..m : h[i] = f[i]
    <3> DEFINE I == 1..m
               d == [i \in I |-> i]
               Good == {i \in I : h[i] = f[i]}
    <3>1. ASSUME NEW i \in I \ Good
          PROVE  \E j \in I \ Good : d[j] < d[i]
      <4>1. i \in 1..(m + n) /\ i <= m /\ h[i] # f[i]
        BY <2>3
      <4>2. c[i] = p[i]
        BY <2>2, <4>1
      <4>3. /\ h[i] = IF i = 1 THEN c[i] ELSE h[i - 1] \o c[i]
            /\ f[i] = IF i = 1 THEN p[i] ELSE f[i - 1] \o p[i]
        BY <2>4, <2>6, <4>1
      <4>4. i # 1 /\ h[i - 1] # f[i - 1]
        BY <4>1, <4>2, <4>3
      <4>5. i - 1 \in I /\ d[i - 1] < d[i]
        BY <2>3, <4>4
      <4> QED
        BY <4>4, <4>5
    <3>2. d \in [I -> Nat] /\ Good \in SUBSET I
      BY <2>3
    <3>3. Good = I
      <4> HIDE DEF Good, I, d
      <4>1. Descends(I, d, Good)
        BY <3>1, <3>2 DEF Descends
      <4> QED
        BY <4>1, Descent
    <3> QED
      BY <3>3
  <2>8. \A j \in 1..n : h[m + j] = f[m] \o g[j]
    <3> DEFINE I == 1..n
               d == [j \in I |-> j]
               Good == {j \in I : h[m + j] = f[m] \o g[j]}
    <3>0. f[m] \in Texts /\ \A j \in 1..n : g[j] \in Texts /\ q[j] \in Texts
      <4>1. \A j \in 1..n : q[j] \in Texts
        BY <2>1, ElementOfSeq
      <4>2. m \in 1..m
        BY <2>3
      <4> QED
        BY <2>4, <2>5, <4>1, <4>2
    <3>1. ASSUME NEW j \in I \ Good
          PROVE  \E k \in I \ Good : d[k] < d[j]
      <4>1. m + j \in 1..(m + n) /\ ~(m + j <= m) /\ (m + j) - m = j /\ m + j # 1
            /\ (m + j) - 1 = m + (j - 1) /\ h[m + j] # f[m] \o g[j]
        BY <2>3
      <4>2. c[m + j] = q[j]
        BY <2>2, <4>1
      <4>3. h[m + j] = h[m + (j - 1)] \o q[j]
        BY <2>6, <4>1, <4>2
      <4>4. j # 1
        <5> SUFFICES ASSUME j = 1
                     PROVE  FALSE
          OBVIOUS
        <5>1. m + (j - 1) = m /\ m \in 1..m
          BY <2>3
        <5>2. g[j] = q[j]
          BY <2>5
        <5> QED
          BY <2>7, <4>1, <4>3, <5>1, <5>2
      <4>5. j - 1 \in I /\ d[j - 1] < d[j]
        BY <2>3, <4>4
      <4>6. h[m + (j - 1)] # f[m] \o g[j - 1]
        <5> SUFFICES ASSUME h[m + (j - 1)] = f[m] \o g[j - 1]
                     PROVE  FALSE
          OBVIOUS
        <5>1. h[m + j] = (f[m] \o g[j - 1]) \o q[j]
          BY <4>3
        <5>2. g[j] = g[j - 1] \o q[j]
          BY <2>5, <4>4
        <5>3. (f[m] \o g[j - 1]) \o q[j] = f[m] \o (g[j - 1] \o q[j])
          BY <3>0, <4>5, Associative
        <5> QED
          BY <4>1, <5>1, <5>2, <5>3
      <4> QED
        BY <4>5, <4>6
    <3>2. d \in [I -> Nat] /\ Good \in SUBSET I
      BY <2>3
    <3>3. Good = I
      <4> HIDE DEF Good, I, d
      <4>1. Descends(I, d, Good)
        BY <3>1, <3>2 DEF Descends
      <4> QED
        BY <4>1, Descent
    <3> QED
      BY <3>3
  <2>9. n \in 1..n
    BY <2>3
  <2>10. FlattenSeq(c) = f[m] \o g[n]
    BY <2>6, <2>8, <2>9
  <2> QED
    BY <2>1, <2>4, <2>5, <2>10
<1> QED
  BY <1>1, <1>2, <1>3, <1>4

(* A text is its units one after the other.                                *)
LEMMA SinglesAreText ==
  ASSUME NEW s \in Texts
  PROVE  FlattenSeq([i \in 1..Len(s) |-> <<s[i]>>]) = s
<1> DEFINE n == Len(s)
           pieces == [i \in 1..n |-> <<s[i]>>]
<1>1. n \in Nat /\ \A i \in 1..n : s[i] \in Unit
  BY LenProperties, ElementOfSeq DEF Texts
<1>2. \A i \in 1..n : pieces[i] = <<s[i]>>
  OBVIOUS
<1>3. FlattenSeq([i \in 1..Len(s) |-> <<s[i]>>]) = FlattenSeq(pieces)
  OBVIOUS
<1>4. pieces \in [1..n -> Texts]
  <2>1. \A i \in 1..n : pieces[i] \in Texts
    BY <1>1, <1>2, OneUnit
  <2> QED
    BY <2>1
<1> HIDE DEF pieces
<1>5. pieces \in Seq(Texts) /\ Len(pieces) = n
  BY <1>1, <1>4, FunctionIsSeq
<1>6. CASE n = 0
  <2>1. s = <<>>
    BY <1>6, EmptySeq DEF Texts
  <2>2. FlattenSeq(pieces) = <<>>
    BY <1>5, <1>6, FlattenNone
  <2> QED
    BY <1>3, <2>1, <2>2
<1>7. CASE n # 0
  <2>0. PICK l : l = n
    OBVIOUS
  <2>1. PICK f \in [1..l -> Texts] :
          /\ FlattenSeq(pieces) = f[l]
          /\ \A i \in 1..l : f[i] = IF i = 1 THEN pieces[i] ELSE f[i - 1] \o pieces[i]
    <3>1. Len(pieces) = l /\ Len(pieces) # 0
      BY <1>5, <1>7, <2>0
    <3>2. \E f \in [1..Len(pieces) -> Texts] :
            /\ FlattenSeq(pieces) = f[Len(pieces)]
            /\ \A i \in 1..Len(pieces) :
                 f[i] = IF i = 1 THEN pieces[i] ELSE f[i - 1] \o pieces[i]
      BY <1>5, <3>1, FlattenIs
    <3> QED
      BY <3>1, <3>2
  <2>2. l \in Nat /\ l # 0 /\ l = Len(s)
    BY <1>1, <1>7, <2>0
  <2>3. \A i \in 1..l : SubSeq(s, 1, i) = SubSeq(s, 1, i - 1) \o <<s[i]>>
    BY <2>2, SubSeqRecursiveSecond DEF Texts
  <2> DEFINE I == 1..l
             d == [i \in I |-> i]
             Good == {i \in I : f[i] = SubSeq(s, 1, i)}
  <2>4. ASSUME NEW i \in I \ Good
        PROVE  \E j \in I \ Good : d[j] < d[i]
    <3>1. i \in 1..l /\ i \in Nat /\ f[i] # SubSeq(s, 1, i) /\ pieces[i] = <<s[i]>>
      BY <1>2, <2>0, <2>2
    <3>2. i # 1
      <4> SUFFICES ASSUME i = 1
                   PROVE  FALSE
        OBVIOUS
      <4>1. f[1] = <<s[1]>>
        BY <2>1, <3>1
      <4>2. SubSeq(s, 1, 1 - 1) = <<>>
        BY SubSeqEmpty
      <4>3. <<>> \o <<s[1]>> = <<s[1]>>
        <5>1. <<s[1]>> \in Seq(Unit)
          BY <1>1, <2>0, <3>1, OneUnit DEF Texts
        <5> QED
          BY <5>1, ConcatEmptySeq
      <4> QED
        BY <2>3, <3>1, <4>1, <4>2, <4>3
    <3>3. i - 1 \in I /\ d[i - 1] < d[i]
      BY <2>2, <3>1, <3>2
    <3>4. f[i] = f[i - 1] \o <<s[i]>>
      BY <2>1, <3>1, <3>2
    <3>5. i - 1 \notin Good
      BY <2>3, <3>1, <3>4
    <3> QED
      BY <3>3, <3>5
  <2>5. d \in [I -> Nat] /\ Good \in SUBSET I
    BY <2>2
  <2>6. Good = I
    <3> HIDE DEF Good, I, d
    <3>1. Descends(I, d, Good)
      BY <2>4, <2>5 DEF Descends
    <3> QED
      BY <3>1, Descent
  <2>7. l \in 1..l
    BY <2>2
  <2>8. f[l] = SubSeq(s, 1, l)
    BY <2>6, <2>7
  <2> QED
    BY <1>3, <2>1, <2>2, <2>8, SubSeqFull DEF Texts
<1> QED
  BY <1>6, <1>7

(* One pass looks at units only, so that seams do not matter to it.        *)
LEMMA InvisibleJoins ==
  ASSUME NEW a \in Texts, NEW b \in Texts
  PROVE  strip_invisible_text(a \o b) = strip_invisible_text(a) \o strip_invisible_text(b)
<1> DEFINE Pieces(s) == [i \in 1..Len(s) |-> IF s[i] = "invisible" THEN <<>> ELSE <<s[i]>>]
<1>1. ASSUME NEW s \in Texts
      PROVE  /\ Pieces(s) \in Seq(Texts) /\ Len(Pieces(s)) = Len(s)
             /\ strip_invisible_text(s) = FlattenSeq(Pieces(s))
  <2>1. Len(s) \in Nat
    BY LenProperties DEF Texts
  <2>2. ASSUME NEW i \in 1..Len(s)
        PROVE  <<>> \in Texts /\ <<s[i]>> \in Texts
    <3>1. s[i] \in Unit
      BY ElementOfSeq DEF Texts
    <3> QED
      BY <3>1, OneUnit, EmptySeq DEF Texts
  <2>3. Pieces(s) \in [1..Len(s) -> Texts]
    BY <2>2
  <2>4. strip_invisible_text(s) = FlattenSeq(Pieces(s))
    BY DEF strip_invisible_text
  <2> HIDE DEF Pieces
  <2> QED
    BY <2>1, <2>3, <2>4, FunctionIsSeq
<1>2. PICK c : c = a \o b
  OBVIOUS
<1>3. /\ c \in Texts /\ Len(a) \in Nat /\ Len(b) \in Nat /\ Len(c) = Len(a) + Len(b)
      /\ \A k \in 1..Len(a) : c[k] = a[k]
      /\ \A k \in 1..Len(b) : c[Len(a) + k] = b[k]
  BY <1>2, JoinIs
<1>4. ASSUME NEW s \in Texts, NEW i \in 1..Len(s)
      PROVE  Pieces(s)[i] = IF s[i] = "invisible" THEN <<>> ELSE <<s[i]>>
  OBVIOUS
<1> HIDE DEF Pieces
<1>5. PICK p, q, r : p = Pieces(a) /\ q = Pieces(b) /\ r = Pieces(c)
  OBVIOUS
<1>6. /\ p \in Seq(Texts) /\ q \in Seq(Texts) /\ r \in Seq(Texts)
      /\ Len(p) = Len(a) /\ Len(q) = Len(b) /\ Len(r) = Len(a) + Len(b)
  BY <1>1, <1>3, <1>5
<1>7. PICK pq : pq = p \o q
  OBVIOUS
<1>8. /\ pq \in Seq(Texts) /\ Len(pq) = Len(a) + Len(b)
      /\ \A i \in 1..(Len(a) + Len(b)) : pq[i] = IF i <= Len(a) THEN p[i] ELSE q[i - Len(a)]
  BY <1>6, <1>7, ConcatProperties
<1>9. ASSUME NEW i \in 1..(Len(a) + Len(b))
      PROVE  r[i] = pq[i]
  <2>1. i \in Nat /\ i \in 1..Len(c) /\ r[i] = IF c[i] = "invisible" THEN <<>> ELSE <<c[i]>>
    BY <1>3, <1>4, <1>5
  <2>2. CASE i <= Len(a)
    <3>1. i \in 1..Len(a)
      BY <1>3, <2>1, <2>2
    <3>2. c[i] = a[i] /\ p[i] = IF a[i] = "invisible" THEN <<>> ELSE <<a[i]>>
      BY <1>3, <1>4, <1>5, <3>1
    <3> QED
      BY <1>8, <2>1, <2>2, <3>2
  <2>3. CASE ~(i <= Len(a))
    <3>1. PICK k : k = i - Len(a)
      OBVIOUS
    <3>2. k \in 1..Len(b) /\ Len(a) + k = i
      BY <1>3, <2>1, <2>3, <3>1
    <3>3. c[i] = b[k] /\ q[k] = IF b[k] = "invisible" THEN <<>> ELSE <<b[k]>>
      BY <1>3, <1>4, <1>5, <3>2
    <3> QED
      BY <1>8, <2>1, <2>3, <3>1, <3>3
  <2> QED
    BY <2>2, <2>3
<1>10. r = pq
  BY <1>6, <1>8, <1>9, SeqEqual
<1>11. FlattenSeq(r) = FlattenSeq(p) \o FlattenSeq(q)
  BY <1>6, <1>7, <1>10, FlattenJoins
<1> QED
  BY <1>1, <1>2, <1>3, <1>5, <1>11

-----------------------------------------------------------------------------
(* Whitespace.                                                             *)

(* How collapse_whitespace goes through a text.                            *)
LEMMA CollapseIs ==
  ASSUME NEW s \in Texts
  PROVE  \E f : /\ collapse_whitespace(s) = f[Len(s)]
               /\ \A i \in 0..Len(s) :
                    f[i] \in Texts /\ f[i] = IF i = 0 THEN <<>> ELSE Outcome(f[i - 1], s[i])
<1> DEFINE I == 0..Len(s)
           Collapsing(f) ==
             f = [i \in I |->
                    CASE i = 0 -> <<>>
                      [] i > 0 /\ s[i] \notin Blank -> Append(f[i - 1], s[i])
                      [] OTHER -> IF f[i - 1] # <<>> /\ Last(f[i - 1]) = " " THEN f[i - 1]
                                  ELSE Append(f[i - 1], " ")]
           m == [i \in I |-> i]
           base == [i \in I |-> <<>>]
           step == [x \in I \X Texts |-> IF x[1] = 0 THEN x[2] ELSE Outcome(x[2], s[x[1]])]
           next == [i \in I |-> IF i = 0 THEN i ELSE i - 1]
<1>1. collapse_whitespace(s) = (CHOOSE f : Collapsing(f))[Len(s)]
  BY DEF collapse_whitespace
<1>2. Len(s) \in Nat
  BY LenProperties DEF Texts
<1>3. \A i \in I : i = 0 \/ (s[i] \in Unit /\ i - 1 \in I /\ i - 1 \in Nat /\ i > 0)
  <2> SUFFICES ASSUME NEW i \in I, i # 0
               PROVE  s[i] \in Unit /\ i - 1 \in I /\ i - 1 \in Nat /\ i > 0
    OBVIOUS
  <2>1. i \in 1..Len(s) /\ i - 1 \in I /\ i - 1 \in Nat /\ i > 0
    BY <1>2
  <2> QED
    BY <1>2, <2>1, ElementOfSeq DEF Texts
<1>4. <<>> \in Texts
  BY EmptySeq DEF Texts
<1>5. Recurs(I, m, Texts, {0}, base, step, next)
  <2>1. m \in [I -> Nat] /\ Len(s) \in Nat /\ \A i \in I : m[i] <= Len(s)
    BY <1>2
  <2>2. {0} \in SUBSET I /\ next \in [I -> I] /\ \A i \in I \ {0} : m[next[i]] < m[i]
    BY <1>2
  <2>3. base \in [I -> Texts]
    BY <1>4
  <2>4. step \in [I \X Texts -> Texts]
    <3> HIDE DEF I
    <3> QED
      BY <1>3, OutcomeIsText
  <2> HIDE DEF I, m, base, step, next
  <2> QED
    BY <2>1, <2>2, <2>3, <2>4 DEF Recurs
<1>6. \E f : Collapsing(f)
  <2>1. PICK f : Solution(f, I, Texts, {0}, base, step, next)
    <3> HIDE DEF I, m, base, step, next
    <3> QED
      BY <1>5, Recursion
  <2>2. /\ f \in [I -> Texts]
        /\ f = [i \in I |-> IF i \in {0} THEN base[i] ELSE step[<<i, f[next[i]]>>]]
    <3> HIDE DEF I, m, base, step, next
    <3> QED
      BY <2>1 DEF Solution
  <2>3. ASSUME NEW i \in I
        PROVE  f[i] = CASE i = 0 -> <<>>
                        [] i > 0 /\ s[i] \notin Blank -> Append(f[i - 1], s[i])
                        [] OTHER -> IF f[i - 1] # <<>> /\ Last(f[i - 1]) = " " THEN f[i - 1]
                                    ELSE Append(f[i - 1], " ")
    <3>1. f[i] = IF i = 0 THEN base[i] ELSE step[<<i, f[next[i]]>>]
      <4> HIDE DEF I, m, base, step, next
      <4> QED
        BY <2>2
    <3>2. CASE i = 0
      BY <3>1, <3>2
    <3>3. CASE i # 0
      <4>1. next[i] = i - 1 /\ i - 1 \in I /\ f[i - 1] \in Texts /\ i > 0
        BY <1>3, <2>2, <3>3
      <4>2. f[i] = Outcome(f[i - 1], s[i])
        BY <3>1, <3>3, <4>1
      <4>3. CASE s[i] \notin Blank
        BY <3>3, <4>1, <4>2, <4>3 DEF Outcome
      <4>4. CASE s[i] \in Blank
        BY <3>3, <4>2, <4>4 DEF Outcome
      <4> QED
        BY <4>3, <4>4
    <3> QED
      BY <3>2, <3>3
  <2>4. f = [i \in I |-> f[i]]
    <3> HIDE DEF I, m, base, step, next
    <3> QED
      BY <2>2
  <2> QED
    BY <2>3, <2>4
<1>7. PICK f : f = CHOOSE g : Collapsing(g)
  OBVIOUS
<1>8. Collapsing(f)
  <2> HIDE DEF Collapsing
  <2> QED
    BY <1>6, <1>7
<1>9. \A i \in I : f[i] = IF i = 0 THEN <<>> ELSE Outcome(f[i - 1], s[i])
  <2> SUFFICES ASSUME NEW i \in I
               PROVE  f[i] = IF i = 0 THEN <<>> ELSE Outcome(f[i - 1], s[i])
    OBVIOUS
  <2>1. f[i] = CASE i = 0 -> <<>>
                 [] i > 0 /\ s[i] \notin Blank -> Append(f[i - 1], s[i])
                 [] OTHER -> IF f[i - 1] # <<>> /\ Last(f[i - 1]) = " " THEN f[i - 1]
                             ELSE Append(f[i - 1], " ")
    BY <1>8
  <2>2. i = 0 \/ i > 0
    BY <1>3
  <2> HIDE DEF I
  <2>3. CASE i = 0
    BY <2>1, <2>3
  <2>4. CASE i # 0 /\ s[i] \notin Blank
    BY <2>1, <2>2, <2>4 DEF Outcome
  <2>5. CASE i # 0 /\ s[i] \in Blank
    BY <2>1, <2>5 DEF Outcome
  <2> QED
    BY <2>3, <2>4, <2>5
<1> HIDE DEF Collapsing
<1> DEFINE Good == {i \in I : f[i] \in Texts}
<1>10. ASSUME NEW i \in I \ Good
       PROVE  \E j \in I \ Good : m[j] < m[i]
  <2>1. i # 0
    BY <1>4, <1>9
  <2>2. i - 1 \in I /\ m[i - 1] < m[i] /\ s[i] \in Unit
    BY <1>2, <1>3, <2>1
  <2>3. f[i - 1] \notin Texts
    BY <1>9, <2>1, <2>2, OutcomeIsText
  <2> QED
    BY <2>2, <2>3
<1>11. Good = I
  <2>1. m \in [I -> Nat] /\ Good \in SUBSET I
    BY <1>2
  <2> HIDE DEF Good, m, I
  <2>2. Descends(I, m, Good)
    BY <1>10, <2>1 DEF Descends
  <2> QED
    BY <2>2, Descent
<1>12. \A i \in 0..Len(s) : f[i] \in Texts
  BY <1>11
<1>13. collapse_whitespace(s) = f[Len(s)]
  BY <1>1, <1>7
<1> QED
  BY <1>9, <1>12, <1>13

(* Each run of blanks becomes the space that its first blank is.           *)
LEMMA CollapsedIsTidy ==
  ASSUME NEW s \in Texts
  PROVE  collapse_whitespace(s) = Tidy(s)
<1> DEFINE pieces == [i \in 1..Len(s) |->
                        IF s[i] \notin Blank THEN <<s[i]>>
                        ELSE IF i > 1 /\ s[i - 1] \in Blank THEN <<>> ELSE <<" ">>]
<1>0. PICK n : n = Len(s)
  OBVIOUS
<1>1. n \in Nat /\ \A i \in 1..n : s[i] \in Unit
  BY <1>0, LenProperties, ElementOfSeq DEF Texts
<1>2. ASSUME NEW i \in 1..n
      PROVE  pieces[i] = IF s[i] \notin Blank THEN <<s[i]>>
                         ELSE IF i > 1 /\ s[i - 1] \in Blank THEN <<>> ELSE <<" ">>
  BY <1>0
<1>3. ASSUME NEW i \in 1..n
      PROVE  pieces[i] \in Texts
  <2>1. <<s[i]>> \in Texts /\ <<" ">> \in Texts /\ <<>> \in Texts
    BY <1>1, OwnUnits, OneUnit, EmptySeq DEF Texts
  <2> QED
    BY <1>2, <2>1
<1>4. Tidy(s) = FlattenSeq(pieces) /\ pieces = [i \in 1..n |-> pieces[i]]
  BY <1>0 DEF Tidy
<1> HIDE DEF pieces
<1>5. pieces \in Seq(Texts) /\ Len(pieces) = n
  <2>1. pieces \in [1..n -> Texts]
    BY <1>3, <1>4
  <2> QED
    BY <1>1, <2>1, FunctionIsSeq
<1>6. PICK u : /\ collapse_whitespace(s) = u[n]
               /\ \A i \in 0..n :
                    u[i] \in Texts /\ u[i] = IF i = 0 THEN <<>> ELSE Outcome(u[i - 1], s[i])
  BY <1>0, CollapseIs
<1>7. CASE n = 0
  <2>1. u[n] = <<>>
    BY <1>6, <1>7
  <2> QED
    BY <1>4, <1>5, <1>6, <1>7, <2>1, FlattenNone
<1>8. CASE n # 0
  <2>1. PICK f \in [1..n -> Texts] :
          /\ FlattenSeq(pieces) = f[n]
          /\ \A i \in 1..n : f[i] = IF i = 1 THEN pieces[i] ELSE f[i - 1] \o pieces[i]
    <3>1. \E f \in [1..Len(pieces) -> Texts] :
            /\ FlattenSeq(pieces) = f[Len(pieces)]
            /\ \A i \in 1..Len(pieces) :
                 f[i] = IF i = 1 THEN pieces[i] ELSE f[i - 1] \o pieces[i]
      BY <1>5, <1>8, FlattenIs
    <3> QED
      BY <1>5, <3>1
  <2>2. ASSUME NEW v \in Texts, NEW x \in Unit
        PROVE  /\ x \notin Blank => Outcome(v, x) = v \o <<x>>
               /\ x \in Blank => Outcome(v, x) = IF v # <<>> /\ Last(v) = " " THEN v
                                                 ELSE v \o <<" ">>
    <3>1. PICK space : space = " "
      OBVIOUS
    <3>2. space \in Unit
      BY <3>1, OwnUnits
    <3>3. Append(v, x) = v \o <<x>> /\ Append(v, space) = v \o <<space>>
      BY <3>2, AppendIsConcat DEF Texts
    <3> QED
      BY <3>1, <3>3 DEF Outcome
  <2>3. ASSUME NEW v \in Texts, NEW x \in Unit
        PROVE  /\ Outcome(v, x) # <<>>
               /\ Last(Outcome(v, x)) = " " <=> x \in Blank
    <3>1. PICK space : space = " "
      OBVIOUS
    <3>2. space \in Unit
      BY <3>1, OwnUnits
    <3>3. ASSUME NEW y \in Unit
          PROVE  Append(v, y) # <<>> /\ Last(Append(v, y)) = y
      <4>1. /\ Append(v, y) \in Seq(Unit) /\ Append(v, y) # <<>>
            /\ Len(Append(v, y)) = Len(v) + 1 /\ Append(v, y)[Len(v) + 1] = y
        BY AppendProperties DEF Texts
      <4> QED
        BY <4>1 DEF Last
    <3>4. CASE x \notin Blank
      <4>1. Outcome(v, x) = Append(v, x) /\ x # " "
        BY <3>4 DEF Outcome, Blank
      <4> QED
        BY <3>3, <3>4, <4>1
    <3>5. CASE x \in Blank
      <4>1. \/ Outcome(v, x) = v /\ v # <<>> /\ Last(v) = " "
            \/ Outcome(v, x) = Append(v, space)
        BY <3>1, <3>5 DEF Outcome
      <4> QED
        BY <3>1, <3>2, <3>3, <3>5, <4>1
    <3> QED
      BY <3>4, <3>5
  <2> DEFINE I == 1..n
             d == [i \in I |-> i]
             Good == {i \in I : u[i] = f[i]}
  <2>4. ASSUME NEW i \in I \ Good
        PROVE  \E j \in I \ Good : d[j] < d[i]
    <3>1. i \in 1..n /\ i \in 0..n /\ i # 0 /\ u[i] # f[i] /\ s[i] \in Unit
      BY <1>1
    <3>2. u[i] = Outcome(u[i - 1], s[i])
      BY <1>6, <3>1
    <3>3. <<s[i]>> \in Texts /\ <<" ">> \in Texts /\ <<>> \in Texts
      BY <3>1, OwnUnits, OneUnit, EmptySeq DEF Texts
    <3>4. i # 1
      <4> SUFFICES ASSUME i = 1
                   PROVE  FALSE
        OBVIOUS
      <4>1. f[i] = pieces[i]
        BY <2>1, <3>1
      <4>2. pieces[i] = IF s[i] \notin Blank THEN <<s[i]>> ELSE <<" ">>
        <5>1. ~(i > 1)
          OBVIOUS
        <5>2. pieces[i] = IF s[i] \notin Blank THEN <<s[i]>>
                          ELSE IF i > 1 /\ s[i - 1] \in Blank THEN <<>> ELSE <<" ">>
          BY <1>2, <3>1
        <5> QED
          BY <5>1, <5>2
      <4>3. u[i - 1] = <<>>
        <5>1. i - 1 = 0 /\ 0 \in 0..n
          BY <1>1
        <5> QED
          BY <1>6, <5>1
      <4>4. PICK e, a, b : e = <<>> /\ a = <<s[i]>> /\ b = <<" ">>
        OBVIOUS
      <4>5. e \in Texts /\ e \o a = a /\ e \o b = b
        BY <3>3, <4>4, ConcatEmptySeq DEF Texts
      <4>6. u[i] = IF s[i] \notin Blank THEN a ELSE b
        BY <2>2, <3>1, <3>2, <4>3, <4>4, <4>5
      <4> QED
        BY <3>1, <4>1, <4>2, <4>4, <4>6
    <3>5. i - 1 \in I /\ d[i - 1] < d[i]
      BY <1>1, <3>4
    <3>6. u[i - 1] # f[i - 1]
      <4> SUFFICES ASSUME u[i - 1] = f[i - 1]
                   PROVE  FALSE
        OBVIOUS
      <4>1. PICK v, j : v = f[i - 1] /\ j = i - 1
        OBVIOUS
      <4>2. /\ v \in Texts /\ u[i] = Outcome(v, s[i]) /\ f[i] = v \o pieces[i]
            /\ j \in 1..n /\ s[j] \in Unit
        BY <1>1, <2>1, <3>1, <3>2, <3>4, <3>5, <4>1
      <4>3. v # <<>> /\ (Last(v) = " " <=> s[j] \in Blank)
        <5>1. j \in 0..n /\ j # 0 /\ j - 1 \in 0..n
          BY <1>1, <4>2
        <5>2. v = Outcome(u[j - 1], s[j]) /\ u[j - 1] \in Texts
          BY <1>6, <4>1, <5>1
        <5> QED
          BY <2>3, <4>2, <5>2
      <4>4. pieces[i] = IF s[i] \notin Blank THEN <<s[i]>>
                        ELSE IF s[j] \in Blank THEN <<>> ELSE <<" ">>
        <5>1. i > 1
          BY <3>1, <3>4
        <5> QED
          BY <1>2, <3>1, <4>1, <5>1
      <4>5. v \o <<>> = v
        BY <4>2, ConcatEmptySeq DEF Texts
      <4>6. CASE s[i] \notin Blank
        BY <2>2, <3>1, <4>2, <4>4, <4>6
      <4>7. CASE s[i] \in Blank
        BY <2>2, <3>1, <4>2, <4>3, <4>4, <4>5, <4>7
      <4> QED
        BY <4>6, <4>7
    <3> QED
      BY <3>5, <3>6
  <2>5. d \in [I -> Nat] /\ Good \in SUBSET I
    BY <1>1
  <2>6. Good = I
    <3> HIDE DEF Good, I, d
    <3>1. Descends(I, d, Good)
      BY <2>4, <2>5 DEF Descends
    <3> QED
      BY <3>1, Descent
  <2>7. n \in I
    BY <1>1, <1>8
  <2> QED
    BY <1>4, <1>6, <2>1, <2>6, <2>7
<1> QED
  BY <1>7, <1>8

-----------------------------------------------------------------------------
(* Most passes look for one pattern.                                       *)

(* A walk from hit to hit: the text up to the next hit, what replaces the  *)
(* hit, and where to go on; the rest of the text after the last one.       *)
Scans(s, open, mid, after) ==
  /\ s \in Texts
  /\ open \in Texts /\ Len(open) > 0
  /\ mid \in [Occurrences(s, open) -> Texts]
  /\ after \in [Occurrences(s, open) -> 1..(Len(s) + 1)]
  /\ \A j \in Occurrences(s, open) : after[j] > j

(* f is what that puts out from each place on.                            *)
Scanning(f, s, open, mid, after) ==
  f = [i \in 1..(Len(s) + 1) |->
         LET start == Find(s, open, i)
         IN  IF start = 0 THEN SubSeq(s, i, Len(s))
             ELSE (SubSeq(s, i, start - 1) \o mid[start]) \o f[after[start]]]

(* The same as a walk.                                                     *)
ScanPut(s, open, mid) ==
  [i \in 1..(Len(s) + 1) |->
     LET start == Find(s, open, i)
     IN  IF start = 0 THEN SubSeq(s, i, Len(s)) ELSE SubSeq(s, i, start - 1) \o mid[start]]

ScanNext(s, open, after) ==
  [i \in 1..(Len(s) + 1) |->
     LET start == Find(s, open, i) IN IF start = 0 THEN 0 ELSE after[start]]

LEMMA ScanWalks ==
  ASSUME NEW s, NEW open, NEW mid, NEW after, Scans(s, open, mid, after)
  PROVE  /\ Walks(Len(s) + 1, ScanPut(s, open, mid), ScanNext(s, open, after))
         /\ \A f : Scanning(f, s, open, mid, after) <=>
                     Walk(f, Len(s) + 1, ScanPut(s, open, mid), ScanNext(s, open, after))
<1> DEFINE n == Len(s) + 1
           put == ScanPut(s, open, mid)
           next == ScanNext(s, open, after)
<1>1. /\ s \in Texts /\ open \in Texts /\ Len(open) > 0 /\ Len(s) \in Nat /\ Len(open) \in Nat
      /\ \A j \in Occurrences(s, open) : mid[j] \in Texts /\ after[j] \in 1..n /\ after[j] > j
  BY LenProperties DEF Scans, Texts
<1>2. \A i \in 1..n : i \in Nat /\ i >= 1
  BY <1>1
<1>3. \A i \in 1..n :
        LET start == Find(s, open, i)
        IN  /\ start \in Nat
            /\ start # 0 => start \in Occurrences(s, open) /\ start >= i /\ start <= Len(s)
  <2> SUFFICES ASSUME NEW i \in 1..n, NEW start, start = Find(s, open, i)
               PROVE  /\ start \in Nat
                      /\ start # 0 =>
                           start \in Occurrences(s, open) /\ start >= i /\ start <= Len(s)
    OBVIOUS
  <2>1. /\ start \in Nat
        /\ start # 0 => /\ start \in Occurrences(s, open) /\ start >= i
                        /\ start + Len(open) <= Len(s) + 1
    BY <1>1, <1>2, FindIsFirst DEF Texts
  <2> QED
    BY <1>1, <2>1
<1>4. \A i \in 1..n :
        LET start == Find(s, open, i)
        IN  /\ put[i] = IF start = 0 THEN SubSeq(s, i, Len(s))
                        ELSE SubSeq(s, i, start - 1) \o mid[start]
            /\ next[i] = IF start = 0 THEN 0 ELSE after[start]
  BY DEF ScanPut, ScanNext
<1>5. ASSUME NEW i \in 1..n
      PROVE  /\ put[i] \in Texts
             /\ next[i] \in 0..n
             /\ next[i] = 0 \/ next[i] > i
  <2>1. PICK start : start = Find(s, open, i)
    OBVIOUS
  <2>2. CASE start = 0
    <3>1. put[i] = SubSeq(s, i, Len(s)) /\ next[i] = 0
      BY <1>4, <2>1, <2>2
    <3> HIDE DEF put, next
    <3> QED
      BY <1>1, <1>2, <3>1, PartIsText
  <2>3. CASE start # 0
    <3>1. start \in Nat /\ start \in Occurrences(s, open) /\ start >= i /\ start <= Len(s)
      BY <1>3, <2>1, <2>3
    <3>2. put[i] = SubSeq(s, i, start - 1) \o mid[start] /\ next[i] = after[start]
      BY <1>4, <2>1, <2>3
    <3>3. start - 1 \in Int /\ start - 1 <= Len(s)
      BY <1>1, <3>1
    <3> HIDE DEF put, next
    <3>4. SubSeq(s, i, start - 1) \in Texts
      BY <1>1, <1>2, <3>3, PartIsText
    <3>5. put[i] \in Texts
      BY <1>1, <3>1, <3>2, <3>4, JoinIsText
    <3>6. next[i] \in 1..n /\ next[i] > i
      BY <1>1, <1>2, <3>1, <3>2
    <3> QED
      BY <1>1, <3>5, <3>6
  <2> QED
    BY <2>2, <2>3
<1>6. put = [i \in 1..n |-> put[i]] /\ next = [i \in 1..n |-> next[i]]
  BY DEF ScanPut, ScanNext
<1>7. Walks(n, put, next)
  <2>1. n \in Nat
    BY <1>1
  <2> HIDE DEF put, next, n
  <2> QED
    BY <1>5, <1>6, <2>1 DEF Walks
<1>8. ASSUME NEW f
      PROVE  Scanning(f, s, open, mid, after) <=> Walk(f, n, put, next)
  <2>1. ASSUME NEW i \in 1..n
        PROVE  (LET start == Find(s, open, i)
                IN  IF start = 0 THEN SubSeq(s, i, Len(s))
                    ELSE (SubSeq(s, i, start - 1) \o mid[start]) \o f[after[start]]) =
               (IF next[i] = 0 THEN put[i] ELSE put[i] \o f[next[i]])
    <3>1. PICK start : start = Find(s, open, i)
      OBVIOUS
    <3>2. CASE start = 0
      <4>1. put[i] = SubSeq(s, i, Len(s)) /\ next[i] = 0
        BY <1>4, <3>1, <3>2
      <4> HIDE DEF put, next, n
      <4> QED
        BY <3>1, <3>2, <4>1
    <3>3. CASE start # 0
      <4>1. put[i] = SubSeq(s, i, start - 1) \o mid[start] /\ next[i] = after[start]
        BY <1>4, <3>1, <3>3
      <4>2. next[i] # 0
        <5>1. start \in Occurrences(s, open)
          BY <1>3, <3>1, <3>3
        <5> QED
          BY <1>1, <4>1, <5>1
      <4> HIDE DEF put, next, n
      <4> QED
        BY <3>1, <3>3, <4>1, <4>2
    <3> QED
      BY <3>2, <3>3
  <2> HIDE DEF put, next
  <2> QED
    BY <2>1 DEF Scanning, Walk
<1> QED
  BY <1>7, <1>8

(* What replaces a hit, and where it goes on, is the same in a text that   *)
(* two texts make.                                                         *)
Agrees(a, b, open, midA, afterA, midB, afterB, midC, afterC) ==
  /\ \A j \in Occurrences(a, open) : midC[j] = midA[j] /\ afterC[j] = afterA[j]
  /\ \A j \in Occurrences(b, open) :
       midC[Len(a) + j] = midB[j] /\ afterC[Len(a) + j] = Len(a) + afterB[j]

(* So the scan of two texts is the scan of each.                           *)
LEMMA ScansJoin ==
  ASSUME NEW a \in Texts, NEW b \in Texts, NEW open, Seamless(a, b, open),
         NEW midA, NEW afterA, Scans(a, open, midA, afterA),
         NEW midB, NEW afterB, Scans(b, open, midB, afterB),
         NEW midC, NEW afterC, Scans(a \o b, open, midC, afterC),
         Agrees(a, b, open, midA, afterA, midB, afterB, midC, afterC),
         NEW f, Scanning(f, a, open, midA, afterA),
         NEW g, Scanning(g, b, open, midB, afterB),
         NEW h, Scanning(h, a \o b, open, midC, afterC)
  PROVE  Ends(h, f, g)
<1>1. PICK c, m, n : c = a \o b /\ m = Len(a) /\ n = Len(b)
  OBVIOUS
<1>2. c \in Texts /\ m \in Nat /\ n \in Nat /\ Len(c) = m + n /\ open \in Texts /\ Len(open) > 0
  BY <1>1, JoinIs DEF Scans
<1>3. PICK putA, nextA : putA = ScanPut(a, open, midA) /\ nextA = ScanNext(a, open, afterA)
  OBVIOUS
<1>4. PICK putB, nextB : putB = ScanPut(b, open, midB) /\ nextB = ScanNext(b, open, afterB)
  OBVIOUS
<1>5. PICK putC, nextC : putC = ScanPut(c, open, midC) /\ nextC = ScanNext(c, open, afterC)
  OBVIOUS
<1>6. Walks(m + 1, putA, nextA) /\ Walk(f, m + 1, putA, nextA)
  BY <1>1, <1>3, ScanWalks
<1>7. Walks(n + 1, putB, nextB) /\ Walk(g, n + 1, putB, nextB)
  BY <1>1, <1>4, ScanWalks
<1>8. Walks(m + n + 1, putC, nextC) /\ Walk(h, m + n + 1, putC, nextC)
  BY <1>1, <1>2, <1>5, ScanWalks
<1>9. ASSUME NEW i \in 1..(m + 1), NEW start, start = Find(a, open, i)
      PROVE  /\ putA[i] = IF start = 0 THEN SubSeq(a, i, m)
                          ELSE SubSeq(a, i, start - 1) \o midA[start]
             /\ nextA[i] = IF start = 0 THEN 0 ELSE afterA[start]
             /\ start \in Nat
             /\ start # 0 => start \in Occurrences(a, open) /\ start <= m
  <2>1. i \in Nat /\ i \in 1..(Len(a) + 1)
    BY <1>1, <1>2
  <2>2. /\ start \in Nat
        /\ start # 0 => /\ start \in Occurrences(a, open) /\ start >= i
                        /\ start + Len(open) <= Len(a) + 1
    BY <1>2, <1>9, <2>1, FindIsFirst DEF Texts
  <2>3. Len(open) \in Nat
    BY <1>2, LenProperties DEF Texts
  <2> QED
    BY <1>1, <1>2, <1>3, <1>9, <2>1, <2>2, <2>3 DEF ScanPut, ScanNext
<1>10. ASSUME NEW i \in 1..(n + 1), NEW start, start = Find(b, open, i)
       PROVE  /\ putB[i] = IF start = 0 THEN SubSeq(b, i, n)
                           ELSE SubSeq(b, i, start - 1) \o midB[start]
              /\ nextB[i] = IF start = 0 THEN 0 ELSE afterB[start]
              /\ start \in Nat
              /\ start # 0 => start \in Occurrences(b, open) /\ start <= n
  <2>1. i \in Nat /\ i \in 1..(Len(b) + 1)
    BY <1>1, <1>2
  <2>2. /\ start \in Nat
        /\ start # 0 => /\ start \in Occurrences(b, open) /\ start >= i
                        /\ start + Len(open) <= Len(b) + 1
    BY <1>2, <1>10, <2>1, FindIsFirst DEF Texts
  <2>3. Len(open) \in Nat
    BY <1>2, LenProperties DEF Texts
  <2> QED
    BY <1>1, <1>2, <1>4, <1>10, <2>1, <2>2, <2>3 DEF ScanPut, ScanNext
<1>11. ASSUME NEW i \in 1..(m + n + 1), NEW start, start = Find(c, open, i)
       PROVE  /\ putC[i] = IF start = 0 THEN SubSeq(c, i, m + n)
                           ELSE SubSeq(c, i, start - 1) \o midC[start]
              /\ nextC[i] = IF start = 0 THEN 0 ELSE afterC[start]
  BY <1>2, <1>5, <1>11 DEF ScanPut, ScanNext
<1>12. ASSUME NEW j \in Occurrences(b, open)
       PROVE  afterB[j] \in Nat /\ afterB[j] # 0
  BY <1>1, <1>2 DEF Scans
<1>13. ASSUME NEW j \in Occurrences(a, open)
       PROVE  afterA[j] \in Nat /\ afterA[j] # 0
  BY <1>1, <1>2 DEF Scans
<1>14. ASSUME NEW j \in 1..(n + 1)
       PROVE  putC[m + j] = putB[j] /\ nextC[m + j] = Shifted(m, nextB[j])
  <2>1. PICK e, i : e = Find(b, open, j) /\ i = m + j
    OBVIOUS
  <2>2. j \in Nat /\ j >= 1 /\ i \in 1..(m + n + 1)
    BY <1>2, <2>1
  <2>3. PICK start : start = Find(c, open, i)
    OBVIOUS
  <2>4. start = Shifted(m, e)
    BY <1>1, <1>2, <2>1, <2>2, <2>3, FindOnRight DEF Texts
  <2>5. CASE e = 0
    <3>1. start = 0 /\ nextC[i] = 0 /\ nextB[j] = 0
      BY <1>10, <1>11, <2>1, <2>2, <2>3, <2>4, <2>5 DEF Shifted
    <3>2. putC[i] = SubSeq(c, i, m + n) /\ putB[j] = SubSeq(b, j, n)
      BY <1>10, <1>11, <2>1, <2>2, <2>3, <2>5, <3>1
    <3>3. SubSeq(c, i, m + n) = SubSeq(b, j, n)
      <4>1. n \in Int /\ n <= Len(b)
        BY <1>1, <1>2
      <4> QED
        BY <1>1, <2>1, <2>2, <4>1, PartOnRight
    <3> QED
      BY <2>1, <3>1, <3>2, <3>3 DEF Shifted
  <2>6. CASE e # 0
    <3>1. /\ e \in Nat /\ e \in Occurrences(b, open) /\ e <= n
          /\ putB[j] = SubSeq(b, j, e - 1) \o midB[e] /\ nextB[j] = afterB[e]
      BY <1>10, <2>1, <2>6
    <3>2. start = m + e /\ start # 0
      BY <1>2, <2>4, <2>6, <3>1 DEF Shifted
    <3>3. putC[i] = SubSeq(c, i, start - 1) \o midC[start] /\ nextC[i] = afterC[start]
      BY <1>11, <2>2, <2>3, <3>2
    <3>4. midC[start] = midB[e] /\ afterC[start] = m + afterB[e]
      BY <1>1, <3>1, <3>2 DEF Agrees
    <3>5. SubSeq(c, i, start - 1) = SubSeq(b, j, e - 1)
      <4>1. PICK k : k = e - 1
        OBVIOUS
      <4>2. k \in Int /\ k <= n /\ start - 1 = m + k
        BY <1>2, <3>1, <3>2, <4>1
      <4>3. SubSeq(a \o b, Len(a) + j, Len(a) + k) = SubSeq(b, j, k)
        BY <1>1, <2>2, <4>2, PartOnRight
      <4> QED
        BY <1>1, <2>1, <4>1, <4>2, <4>3
    <3>6. afterB[e] # 0
      BY <1>12, <3>1
    <3> QED
      BY <2>1, <3>1, <3>3, <3>4, <3>5, <3>6 DEF Shifted
  <2> QED
    BY <2>5, <2>6
<1>15. ASSUME NEW i \in 1..(m + 1)
       PROVE  IF nextA[i] # 0 THEN putC[i] = putA[i] /\ nextC[i] = nextA[i]
              ELSE putC[i] = putA[i] \o putB[1] /\ nextC[i] = Shifted(m, nextB[1])
  <2>1. PICK e, start : e = Find(a, open, i) /\ start = Find(c, open, i)
    OBVIOUS
  <2>2. i \in Nat /\ i >= 1 /\ i \in 1..(m + n + 1) /\ i <= Len(a) + 1
    BY <1>1, <1>2
  <2>3. CASE e # 0
    <3>1. /\ e \in Nat /\ e \in Occurrences(a, open) /\ e <= m
          /\ putA[i] = SubSeq(a, i, e - 1) \o midA[e] /\ nextA[i] = afterA[e]
      BY <1>9, <2>1, <2>3
    <3>2. start = e
      BY <1>1, <1>2, <2>1, <2>2, <2>3, FindOnLeft DEF Texts
    <3>3. putC[i] = SubSeq(c, i, e - 1) \o midC[e] /\ nextC[i] = afterC[e]
      BY <1>11, <2>1, <2>2, <2>3, <3>2
    <3>4. midC[e] = midA[e] /\ afterC[e] = afterA[e]
      BY <3>1 DEF Agrees
    <3>5. SubSeq(c, i, e - 1) = SubSeq(a, i, e - 1)
      <4>1. e - 1 \in Int /\ e - 1 <= Len(a)
        BY <1>1, <1>2, <3>1
      <4> QED
        BY <1>1, <2>2, <4>1, PartOnLeft
    <3>6. afterA[e] # 0
      BY <1>13, <3>1
    <3> QED
      BY <3>1, <3>3, <3>4, <3>5, <3>6
  <2>4. CASE e = 0
    <3>1. putA[i] = SubSeq(a, i, m) /\ nextA[i] = 0
      BY <1>9, <2>1, <2>4
    <3>2. PICK d : d = Find(b, open, 1)
      OBVIOUS
    <3>3. start = Shifted(m, d)
      <4>1. a \in Seq(Unit) /\ b \in Seq(Unit) /\ open \in Seq(Unit) /\ Find(a, open, i) = 0
        BY <1>2, <2>1, <2>4 DEF Texts
      <4>2. Find(a \o b, open, i) = Shifted(Len(a), Find(b, open, 1))
        BY <1>2, <2>2, <4>1, FindAcross
      <4> QED
        BY <1>1, <2>1, <3>2, <4>2
    <3>4. 1 \in 1..(n + 1)
      BY <1>2
    <3>5. CASE d = 0
      <4>1. start = 0 /\ nextB[1] = 0 /\ putB[1] = SubSeq(b, 1, n)
        BY <1>10, <3>2, <3>3, <3>4, <3>5 DEF Shifted
      <4>2. putC[i] = SubSeq(c, i, m + n) /\ nextC[i] = 0
        BY <1>11, <2>1, <2>2, <4>1
      <4>3. SubSeq(c, i, m + n) = SubSeq(a, i, m) \o SubSeq(b, 1, n)
        <5>1. n \in Nat /\ n <= Len(b)
          BY <1>1, <1>2
        <5>2. SubSeq(a \o b, i, Len(a) + n) = SubSeq(a, i, Len(a)) \o SubSeq(b, 1, n)
          BY <2>2, <5>1, PartAcross
        <5> QED
          BY <1>1, <5>2
      <4> QED
        BY <3>1, <4>1, <4>2, <4>3 DEF Shifted
    <3>6. CASE d # 0
      <4>1. /\ d \in Nat /\ d \in Occurrences(b, open) /\ d <= n
            /\ putB[1] = SubSeq(b, 1, d - 1) \o midB[d] /\ nextB[1] = afterB[d]
        BY <1>10, <3>2, <3>4, <3>6
      <4>2. start = m + d /\ start # 0
        BY <1>2, <3>3, <3>6, <4>1 DEF Shifted
      <4>3. putC[i] = SubSeq(c, i, start - 1) \o midC[start] /\ nextC[i] = afterC[start]
        BY <1>11, <2>1, <2>2, <4>2
      <4>4. midC[start] = midB[d] /\ afterC[start] = m + afterB[d]
        BY <1>1, <4>1, <4>2 DEF Agrees
      <4>5. SubSeq(c, i, start - 1) = SubSeq(a, i, m) \o SubSeq(b, 1, d - 1)
        <5>1. PICK k : k = d - 1
          OBVIOUS
        <5>2. k \in Nat /\ k <= n /\ start - 1 = m + k
          <6>1. m \in Nat /\ n \in Nat
            BY <1>2
          <6>2. d \in Nat /\ d # 0 /\ d <= n /\ start = m + d
            BY <3>6, <4>1, <4>2
          <6> QED
            BY <5>1, <6>1, <6>2
        <5>3. SubSeq(a \o b, i, Len(a) + k) = SubSeq(a, i, Len(a)) \o SubSeq(b, 1, k)
          BY <1>1, <2>2, <5>2, PartAcross
        <5> QED
          BY <1>1, <5>1, <5>2, <5>3
      <4>6. /\ SubSeq(a, i, m) \in Texts /\ SubSeq(b, 1, d - 1) \in Texts /\ midB[d] \in Texts
        <5>1. /\ m \in Int /\ m <= Len(a) /\ d - 1 \in Int /\ d - 1 <= Len(b)
          BY <1>1, <1>2, <4>1
        <5>2. SubSeq(a, i, m) \in Texts /\ SubSeq(b, 1, d - 1) \in Texts
          BY <2>2, <5>1, PartIsText
        <5>3. midB \in [Occurrences(b, open) -> Texts]
          BY DEF Scans
        <5> QED
          BY <4>1, <5>2, <5>3
      <4>7. (SubSeq(a, i, m) \o SubSeq(b, 1, d - 1)) \o midB[d] =
              SubSeq(a, i, m) \o (SubSeq(b, 1, d - 1) \o midB[d])
        BY <4>6, Associative
      <4>8. afterB[d] # 0
        BY <1>12, <4>1
      <4>9. putA[i] \o putB[1] = SubSeq(a, i, m) \o (SubSeq(b, 1, d - 1) \o midB[d])
        BY <3>1, <4>1
      <4>10. putC[i] = (SubSeq(a, i, m) \o SubSeq(b, 1, d - 1)) \o midB[d]
        BY <4>3, <4>4, <4>5
      <4>11. putC[i] = putA[i] \o putB[1]
        BY <4>7, <4>9, <4>10
      <4>12. nextC[i] = Shifted(m, nextB[1])
        BY <4>1, <4>3, <4>4, <4>8 DEF Shifted
      <4> QED
        BY <3>1, <4>11, <4>12
    <3> QED
      BY <3>5, <3>6
  <2> QED
    BY <2>3, <2>4
<1>16. Meets(m, n, putA, nextA, putB, nextB, putC, nextC)
  BY <1>14, <1>15 DEF Meets
<1>17. Joined(m, n, f, putA, nextA, g, putB, nextB, h, putC, nextC)
  <2>1. m \in Nat /\ n \in Nat
    BY <1>2
  <2> QED
    BY <1>6, <1>7, <1>8, <1>16, <2>1 DEF Joined
<1> QED
  BY <1>17, WalksJoin

-----------------------------------------------------------------------------
(* What of two texts is also so of both together.                          *)

(* A pattern that begins a tag and ends with it, or before it does.        *)
IsOpening(p) ==
  /\ p \in Texts
  /\ Len(p) > 0
  /\ p[1] = "<"
  /\ \A k \in 1..(Len(p) - 1) : p[k] # ">"

(* Where each tag that is begun is also ended, no pattern is across the    *)
(* seam.                                                                   *)
LEMMA WholeIsSeamless ==
  ASSUME NEW a \in Texts, Whole(a), NEW b \in Texts, NEW p, IsOpening(p)
  PROVE  Seamless(a, b, p)
<1>1. PICK c, m, n : c = a \o b /\ m = Len(a) /\ n = Len(p)
  OBVIOUS
<1>2. /\ c \in Texts /\ m \in Nat /\ Len(b) \in Nat /\ Len(c) = m + Len(b)
      /\ \A k \in 1..m : c[k] = a[k]
  BY <1>1, JoinIs
<1>3. p \in Texts /\ n \in Nat /\ n > 0 /\ p[1] = "<" /\ \A k \in 1..(n - 1) : p[k] # ">"
  BY <1>1, LenProperties DEF IsOpening, Texts
<1>4. ASSUME NEW j \in Occurrences(c, p), j + n > m + 1, j <= m
      PROVE  FALSE
  <2>1. j \in 1..(Len(c) - n + 1) /\ \A k \in 1..n : c[j + k - 1] = p[k]
    <3>1. c \in Seq(Unit) /\ p \in Seq(Unit)
      BY <1>2, <1>3 DEF Texts
    <3>2. OccursAt(c, p, j)
      BY <1>4, <3>1, OccursIs
    <3> QED
      BY <1>1, <3>2 DEF OccursAt
  <2>2. j \in 1..m /\ 1 \in 1..n /\ j + 1 - 1 = j
    BY <1>2, <1>3, <1>4, <2>1
  <2>3. a[j] = "<"
    BY <1>2, <1>3, <2>1, <2>2
  <2>4. PICK k \in (j + 1)..m : a[k] = ">"
    BY <1>1, <2>2, <2>3 DEF Whole
  <2>5. PICK i : i = k - j + 1
    OBVIOUS
  <2>6. k \in 1..m /\ i \in 1..n /\ i \in 1..(n - 1) /\ j + i - 1 = k
    BY <1>2, <1>3, <1>4, <2>2, <2>5
  <2>7. c[k] = p[i]
    BY <2>1, <2>6
  <2> QED
    BY <1>2, <1>3, <2>4, <2>6, <2>7
<1>5. ASSUME NEW j \in Occurrences(c, p)
      PROVE  j \in Occurrences(a, p) \/ \E i \in Occurrences(b, p) : j = m + i
  <2>1. j \in Nat /\ j >= 1
    BY <1>1, <1>2, <1>3 DEF Occurrences
  <2>2. CASE j + n <= m + 1
    BY <1>1, <1>3, <2>2, OccursOnLeft DEF Texts
  <2>3. CASE j > m
    <3>1. PICK i : i = j - m
      OBVIOUS
    <3>2. i \in Nat /\ i >= 1 /\ m + i = j
      BY <1>2, <2>1, <2>3, <3>1
    <3>3. i \in Occurrences(b, p)
      <4>1. Len(a) + i \in Occurrences(a \o b, p)
        BY <1>1, <3>2
      <4>2. a \in Seq(Unit) /\ b \in Seq(Unit) /\ p \in Seq(Unit)
        BY <1>3 DEF Texts
      <4> QED
        BY <3>2, <4>1, <4>2, OccursOnRight
    <3> QED
      BY <3>2, <3>3
  <2> QED
    BY <1>2, <1>3, <1>4, <2>1, <2>2, <2>3
<1>6. ASSUME NEW j \in Occurrences(a, p)
      PROVE  j \in Occurrences(c, p)
  BY <1>1, <1>3, OccursOnLeft DEF Texts
<1>7. ASSUME NEW i \in Occurrences(b, p)
      PROVE  m + i \in Occurrences(c, p)
  <2>1. i \in Nat /\ i >= 1
    BY <1>1, <1>2, <1>3 DEF Occurrences
  <2>2. a \in Seq(Unit) /\ b \in Seq(Unit) /\ p \in Seq(Unit)
    BY <1>3 DEF Texts
  <2> QED
    BY <1>1, <2>1, <2>2, OccursOnRight
<1>8. Occurrences(c, p) = Occurrences(a, p) \cup {m + i : i \in Occurrences(b, p)}
  BY <1>5, <1>6, <1>7
<1> QED
  BY <1>1, <1>8 DEF Seamless

(* What no text has at a seam that both do not have.                       *)
LEMMA WholeJoins ==
  ASSUME NEW a \in Texts, Whole(a), NEW b \in Texts, Whole(b)
  PROVE  Whole(a \o b)
<1>1. PICK c, m, n : c = a \o b /\ m = Len(a) /\ n = Len(b)
  OBVIOUS
<1>2. /\ c \in Texts /\ m \in Nat /\ n \in Nat /\ Len(c) = m + n
      /\ \A k \in 1..m : c[k] = a[k]
      /\ \A k \in 1..n : c[m + k] = b[k]
  BY <1>1, JoinIs
<1>3. ASSUME NEW i \in 1..(m + n), c[i] = "<"
      PROVE  \E j \in (i + 1)..(m + n) : c[j] = ">"
  <2>1. CASE i <= m
    <3>1. i \in 1..m
      BY <1>2, <2>1
    <3>2. PICK j \in (i + 1)..m : a[j] = ">"
      BY <1>1, <1>2, <1>3, <3>1 DEF Whole
    <3>3. j \in 1..m /\ j \in (i + 1)..(m + n)
      BY <1>2, <3>1
    <3> QED
      BY <1>2, <3>2, <3>3
  <2>2. CASE i > m
    <3>1. PICK k : k = i - m
      OBVIOUS
    <3>2. k \in 1..n /\ m + k = i
      BY <1>2, <2>2, <3>1
    <3>3. b[k] = "<"
      BY <1>2, <1>3, <3>2
    <3>4. PICK j \in (k + 1)..n : b[j] = ">"
      BY <1>1, <3>2, <3>3 DEF Whole
    <3>5. j \in 1..n /\ m + j \in (i + 1)..(m + n)
      BY <1>2, <3>2
    <3> QED
      BY <1>2, <3>4, <3>5
  <2> QED
    BY <1>2, <2>1, <2>2
<1> QED
  BY <1>1, <1>2, <1>3 DEF Whole

LEMMA NarrowJoins ==
  ASSUME NEW a \in Texts, Narrow(a), NEW b \in Texts, Narrow(b)
  PROVE  Narrow(a \o b)
<1>1. PICK c, m, n : c = a \o b /\ m = Len(a) /\ n = Len(b)
  OBVIOUS
<1>2. /\ c \in Texts /\ m \in Nat /\ n \in Nat /\ Len(c) = m + n
      /\ \A k \in 1..m : c[k] = a[k]
      /\ \A k \in 1..n : c[m + k] = b[k]
  BY <1>1, JoinIs
<1>3. ASSUME NEW i \in 1..(m + n)
      PROVE  c[i] # "wide"
  <2>1. CASE i <= m
    <3>1. i \in 1..m
      BY <1>2, <2>1
    <3> QED
      BY <1>1, <1>2, <3>1 DEF Narrow
  <2>2. CASE i > m
    <3>1. PICK k : k = i - m
      OBVIOUS
    <3>2. k \in 1..n /\ m + k = i
      BY <1>2, <2>2, <3>1
    <3>3. b[k] # "wide" /\ c[m + k] = b[k]
      BY <1>1, <1>2, <3>2 DEF Narrow
    <3> QED
      BY <3>2, <3>3
  <2> QED
    BY <1>2, <2>1, <2>2
<1> QED
  BY <1>1, <1>2, <1>3 DEF Narrow

(* Each opening is closed in its own text.                                 *)
LEMMA ClosedJoins ==
  ASSUME NEW a \in Texts, NEW b \in Texts, NEW open \in Texts, Len(open) > 0,
         NEW close \in Texts, Len(close) > 0, Seamless(a, b, open),
         Closed(a, open, close), Closed(b, open, close)
  PROVE  Closed(a \o b, open, close)
<1>1. a \in Seq(Unit) /\ b \in Seq(Unit) /\ open \in Seq(Unit) /\ close \in Seq(Unit)
  BY DEF Texts
<1>2. Len(a) \in Nat /\ Len(b) \in Nat /\ Len(open) \in Nat
  BY <1>1, LenProperties
<1>3. ASSUME NEW j \in Occurrences(a \o b, open)
      PROVE  Find(a \o b, close, j) # 0
  <2>1. CASE j \in Occurrences(a, open)
    <3>1. j \in Nat
      BY <1>2, <2>1 DEF Occurrences
    <3>2. Find(a, close, j) # 0
      BY <2>1 DEF Closed
    <3> QED
      BY <1>1, <3>1, <3>2, FindOnLeft
  <2>2. ASSUME NEW i \in Occurrences(b, open), j = Len(a) + i
        PROVE  Find(a \o b, close, j) # 0
    <3>1. i \in Nat /\ i >= 1
      BY <1>2 DEF Occurrences
    <3>2. Find(b, close, i) # 0 /\ Find(b, close, i) \in Nat
      BY <1>1, <3>1, FindIsFirst DEF Closed
    <3>3. Find(a \o b, close, Len(a) + i) = Shifted(Len(a), Find(b, close, i))
      BY <1>1, <3>1, FindOnRight
    <3> QED
      BY <1>2, <2>2, <3>2, <3>3 DEF Shifted
  <2> QED
    BY <2>1, <2>2 DEF Seamless
<1> QED
  BY <1>3 DEF Closed

-----------------------------------------------------------------------------
(* What a scan does from a place on.                                       *)

LEMMA ScanExists ==
  ASSUME NEW s, NEW open, NEW mid, NEW after, Scans(s, open, mid, after)
  PROVE  \E f : Scanning(f, s, open, mid, after)
<1>1. PICK n, put, next : n = Len(s) + 1 /\ put = ScanPut(s, open, mid)
                          /\ next = ScanNext(s, open, after)
  OBVIOUS
<1>2. Walks(n, put, next)
  BY <1>1, ScanWalks
<1>3. \E f : Walk(f, n, put, next)
  BY <1>2, WalkExists
<1> QED
  BY <1>1, <1>3, ScanWalks

LEMMA HitIs ==
  ASSUME NEW s \in Texts, NEW open \in Texts, Len(open) > 0, NEW i \in 1..(Len(s) + 1),
         NEW start, start = Find(s, open, i)
  PROVE  /\ start \in Nat
         /\ start # 0 => start \in Occurrences(s, open) /\ start >= i /\ start <= Len(s)
         /\ Rest(s, i) = SubSeq(s, i, Len(s))
         /\ start # 0 => Slice(s, i, start) = SubSeq(s, i, start - 1)
<1>1. Len(s) \in Nat /\ Len(open) \in Nat /\ i \in Nat /\ i <= Len(s) + 1
  BY LenProperties DEF Texts
<1>2. /\ start \in Nat
      /\ start # 0 => /\ start \in Occurrences(s, open) /\ start >= i
                      /\ start + Len(open) <= Len(s) + 1
  BY <1>1, FindIsFirst DEF Texts
<1>3. start # 0 => start <= Len(s)
  BY <1>1, <1>2
<1> QED
  BY <1>1, <1>2, <1>3 DEF Rest, Slice

-----------------------------------------------------------------------------
(* The passes as scans: where every hit has its end.                       *)

Nothing(s, open) == [j \in Occurrences(s, open) |-> <<>>]

PastClose(s, open, close) ==
  [j \in Occurrences(s, open) |-> Find(s, close, j) + Len(close)]

LEMMA CutIsScan ==
  ASSUME NEW s \in Texts, NEW open \in Texts, Len(open) > 0, NEW close \in Texts, Len(close) > 0,
         Closed(s, open, close)
  PROVE  /\ Scans(s, open, Nothing(s, open), PastClose(s, open, close))
         /\ \E f : /\ Scanning(f, s, open, Nothing(s, open), PastClose(s, open, close))
                   /\ Cut(s, open, close) = f[1]
<1>1. PICK n, mid, after : n = Len(s) + 1 /\ mid = Nothing(s, open)
                           /\ after = PastClose(s, open, close)
  OBVIOUS
<1>2. Len(s) \in Nat /\ Len(open) \in Nat /\ Len(close) \in Nat
  BY LenProperties DEF Texts
<1>3. ASSUME NEW j \in Occurrences(s, open)
      PROVE  /\ mid[j] = <<>>
             /\ after[j] = Find(s, close, j) + Len(close)
             /\ after[j] \in 1..n /\ after[j] > j /\ Find(s, close, j) # 0
  <2>1. j \in Nat
    BY <1>2 DEF Occurrences
  <2>2. PICK end : end = Find(s, close, j)
    OBVIOUS
  <2>3. end # 0
    BY <2>2 DEF Closed
  <2>4. end \in Nat /\ end >= j /\ end + Len(close) <= Len(s) + 1
    BY <2>1, <2>2, <2>3, FindIsFirst DEF Texts
  <2>5. mid[j] = <<>> /\ after[j] = end + Len(close)
    BY <1>1, <2>2 DEF Nothing, PastClose
  <2>6. end + Len(close) \in 1..n /\ end + Len(close) > j
    BY <1>1, <1>2, <2>1, <2>4
  <2> QED
    BY <2>2, <2>3, <2>5, <2>6
<1>4. Scans(s, open, mid, after)
  <2>1. mid \in [Occurrences(s, open) -> Texts]
    BY <1>1, EmptySeq DEF Nothing, Texts
  <2>2. after \in [Occurrences(s, open) -> 1..(Len(s) + 1)]
    <3>1. after = [j \in Occurrences(s, open) |-> after[j]]
      BY <1>1 DEF PastClose
    <3> QED
      BY <1>1, <1>3, <3>1
  <2> QED
    BY <1>3, <2>1, <2>2 DEF Scans
<1> DEFINE Cutting(f) ==
             f = [i \in 1..(Len(s) + 1) |->
                    LET start == Find(s, open, i)
                        end == Find(s, close, start)
                    IN  CASE start = 0 -> Rest(s, i)
                          [] start # 0 /\ end = 0 -> Slice(s, i, start)
                          [] OTHER -> Slice(s, i, start) \o f[end + Len(close)]]
<1>5. Cut(s, open, close) = (CHOOSE f : Cutting(f))[1]
  BY DEF Cut
<1>6. ASSUME NEW f
      PROVE  Cutting(f) <=> Scanning(f, s, open, mid, after)
  <2>1. ASSUME NEW i \in 1..(Len(s) + 1)
        PROVE  (LET start == Find(s, open, i)
                    end == Find(s, close, start)
                IN  CASE start = 0 -> Rest(s, i)
                      [] start # 0 /\ end = 0 -> Slice(s, i, start)
                      [] OTHER -> Slice(s, i, start) \o f[end + Len(close)]) =
               (LET start == Find(s, open, i)
                IN  IF start = 0 THEN SubSeq(s, i, Len(s))
                    ELSE (SubSeq(s, i, start - 1) \o mid[start]) \o f[after[start]])
    <3>1. PICK start : start = Find(s, open, i)
      OBVIOUS
    <3>2. CASE start = 0
      <4>1. Rest(s, i) = SubSeq(s, i, Len(s))
        BY <3>1, HitIs
      <4> QED
        BY <3>1, <3>2, <4>1
    <3>3. CASE start # 0
      <4>1. PICK end, part : end = Find(s, close, start) /\ part = SubSeq(s, i, start - 1)
        OBVIOUS
      <4>2. /\ start \in Nat /\ start \in Occurrences(s, open) /\ start <= Len(s)
            /\ Slice(s, i, start) = part
        BY <3>1, <3>3, <4>1, HitIs
      <4>3. end # 0 /\ mid[start] = <<>> /\ after[start] = end + Len(close)
        BY <1>3, <4>1, <4>2
      <4>4. part \in Texts
        <5>1. i \in Nat /\ i >= 1 /\ start - 1 \in Int /\ start - 1 <= Len(s)
          BY <1>2, <4>2
        <5> QED
          BY <4>1, <5>1, PartIsText
      <4>5. part \o mid[start] = part
        BY <4>3, <4>4, ConcatEmptySeq DEF Texts
      <4> QED
        BY <3>1, <3>3, <4>1, <4>2, <4>3, <4>5
    <3> QED
      BY <3>2, <3>3
  <2> QED
    BY <2>1 DEF Scanning
<1> HIDE DEF Cutting
<1>7. PICK f : f = CHOOSE g : Cutting(g)
  OBVIOUS
<1>8. Cutting(f)
  BY <1>4, <1>6, <1>7, ScanExists
<1>9. Scanning(f, s, open, mid, after) /\ Cut(s, open, close) = f[1]
  BY <1>5, <1>6, <1>7, <1>8
<1> QED
  BY <1>1, <1>4, <1>9

(* Cutting out of two texts is cutting out of each.                        *)
LEMMA CutJoins ==
  ASSUME NEW a \in Texts, Whole(a), NEW b \in Texts,
         NEW open, IsOpening(open), NEW close \in Texts, Len(close) > 0,
         Closed(a, open, close), Closed(b, open, close)
  PROVE  /\ Cut(a \o b, open, close) = Cut(a, open, close) \o Cut(b, open, close)
         /\ Closed(a \o b, open, close)
<1>1. PICK c : c = a \o b
  OBVIOUS
<1>2. open \in Texts /\ Len(open) > 0 /\ Seamless(a, b, open) /\ c \in Texts
  BY <1>1, WholeIsSeamless, JoinIs DEF IsOpening
<1>3. Closed(c, open, close)
  BY <1>1, <1>2, ClosedJoins
<1>4. PICK midA, afterA, f :
        /\ midA = Nothing(a, open) /\ afterA = PastClose(a, open, close)
        /\ Scans(a, open, midA, afterA)
        /\ Scanning(f, a, open, midA, afterA) /\ Cut(a, open, close) = f[1]
  BY <1>2, CutIsScan
<1>5. PICK midB, afterB, g :
        /\ midB = Nothing(b, open) /\ afterB = PastClose(b, open, close)
        /\ Scans(b, open, midB, afterB)
        /\ Scanning(g, b, open, midB, afterB) /\ Cut(b, open, close) = g[1]
  BY <1>2, CutIsScan
<1>6. PICK midC, afterC, h :
        /\ midC = Nothing(c, open) /\ afterC = PastClose(c, open, close)
        /\ Scans(c, open, midC, afterC)
        /\ Scanning(h, c, open, midC, afterC) /\ Cut(c, open, close) = h[1]
  BY <1>2, <1>3, CutIsScan
<1>7. a \in Seq(Unit) /\ b \in Seq(Unit) /\ close \in Seq(Unit) /\ Len(a) \in Nat
      /\ Len(b) \in Nat /\ Len(open) \in Nat /\ Len(close) \in Nat
  BY <1>2, LenProperties DEF Texts
<1>8. ASSUME NEW j \in Occurrences(a, open)
      PROVE  midC[j] = midA[j] /\ afterC[j] = afterA[j]
  <2>1. j \in Occurrences(c, open) /\ j \in Nat
    BY <1>1, <1>2, <1>7 DEF Seamless, Occurrences
  <2>2. Find(a, close, j) # 0
    BY DEF Closed
  <2>3. Find(c, close, j) = Find(a, close, j)
    BY <1>1, <1>7, <2>1, <2>2, FindOnLeft
  <2> QED
    BY <1>4, <1>6, <2>1, <2>3 DEF Nothing, PastClose
<1>9. ASSUME NEW j \in Occurrences(b, open)
      PROVE  midC[Len(a) + j] = midB[j] /\ afterC[Len(a) + j] = Len(a) + afterB[j]
  <2>1. Len(a) + j \in Occurrences(c, open)
    BY <1>1, <1>2 DEF Seamless
  <2>2. j \in Nat /\ j >= 1
    BY <1>7 DEF Occurrences
  <2>3. PICK end : end = Find(b, close, j)
    OBVIOUS
  <2>4. end # 0 /\ end \in Nat
    BY <1>7, <2>2, <2>3, FindIsFirst DEF Closed
  <2>5. Find(a \o b, close, Len(a) + j) = Shifted(Len(a), Find(b, close, j))
    BY <1>7, <2>2, FindOnRight
  <2>6. Find(c, close, Len(a) + j) = Len(a) + end
    BY <1>1, <2>3, <2>4, <2>5 DEF Shifted
  <2>7. afterC[Len(a) + j] = (Len(a) + end) + Len(close) /\ afterB[j] = end + Len(close)
    BY <1>5, <1>6, <2>1, <2>3, <2>6 DEF PastClose
  <2>8. midC[Len(a) + j] = <<>> /\ midB[j] = <<>>
    BY <1>5, <1>6, <2>1 DEF Nothing
  <2> QED
    BY <1>7, <2>4, <2>7, <2>8
<1>10. Agrees(a, b, open, midA, afterA, midB, afterB, midC, afterC)
  BY <1>8, <1>9 DEF Agrees
<1>11. Ends(h, f, g)
  BY <1>1, <1>2, <1>4, <1>5, <1>6, <1>10, ScansJoin
<1> QED
  BY <1>1, <1>3, <1>4, <1>5, <1>6, <1>11 DEF Ends

-----------------------------------------------------------------------------
(* Replacing is a scan, too.                                               *)

(* What is put in for a hit, and the place after it.                       *)
Instead(s, open, by) == [j \in Occurrences(s, open) |-> by]

PastOpen(s, open) == [j \in Occurrences(s, open) |-> j + Len(open)]

LEMMA ReplaceIsScan ==
  ASSUME NEW s \in Texts, NEW p \in Texts, Len(p) > 0, NEW by \in Texts
  PROVE  /\ Scans(s, p, Instead(s, p, by), PastOpen(s, p))
         /\ \E f : /\ Scanning(f, s, p, Instead(s, p, by), PastOpen(s, p))
                   /\ replace(s, p, by) = f[1]
<1>1. PICK n, mid, after : n = Len(s) + 1 /\ mid = Instead(s, p, by) /\ after = PastOpen(s, p)
  OBVIOUS
<1>2. Len(s) \in Nat /\ Len(p) \in Nat
  BY LenProperties DEF Texts
<1>3. ASSUME NEW j \in Occurrences(s, p)
      PROVE  mid[j] = by /\ after[j] = j + Len(p) /\ after[j] \in 1..n /\ after[j] > j
  <2>1. j \in 1..(Len(s) - Len(p) + 1)
    BY DEF Occurrences
  <2>2. mid[j] = by /\ after[j] = j + Len(p)
    BY <1>1 DEF Instead, PastOpen
  <2> QED
    BY <1>1, <1>2, <2>1, <2>2
<1>4. Scans(s, p, mid, after)
  <2>1. mid \in [Occurrences(s, p) -> Texts]
    BY <1>1 DEF Instead
  <2>2. after \in [Occurrences(s, p) -> 1..(Len(s) + 1)]
    <3>1. after = [j \in Occurrences(s, p) |-> after[j]]
      BY <1>1 DEF PastOpen
    <3> QED
      BY <1>1, <1>3, <3>1
  <2> QED
    BY <1>3, <2>1, <2>2 DEF Scans
<1>5. PICK f : Replacing(f, s, p, by) /\ replace(s, p, by) = f[1]
  BY ReplaceIsText
<1>6. ASSUME NEW i \in 1..(Len(s) + 1)
      PROVE  (LET start == Find(s, p, i)
              IN  IF start = 0 THEN Rest(s, i)
                  ELSE SubSeq(s, i, start - 1) \o by \o f[start + Len(p)]) =
             (LET start == Find(s, p, i)
              IN  IF start = 0 THEN SubSeq(s, i, Len(s))
                  ELSE (SubSeq(s, i, start - 1) \o mid[start]) \o f[after[start]])
  <2>1. PICK start : start = Find(s, p, i)
    OBVIOUS
  <2>2. CASE start = 0
    BY <2>1, <2>2, HitIs
  <2>3. CASE start # 0
    <3>1. start \in Occurrences(s, p)
      BY <2>1, <2>3, HitIs
    <3>2. mid[start] = by /\ after[start] = start + Len(p)
      BY <1>3, <3>1
    <3> QED
      BY <2>1, <2>3, <3>2
  <2> QED
    BY <2>2, <2>3
<1>7. Scanning(f, s, p, mid, after)
  BY <1>5, <1>6 DEF Replacing, Scanning
<1> QED
  BY <1>1, <1>4, <1>5, <1>7

(* Two texts can be searched and replaced one by one.                      *)
Splits(a, b, p, by) == replace(a \o b, p, by) = replace(a, p, by) \o replace(b, p, by)

LEMMA ReplaceJoins ==
  ASSUME NEW a \in Texts, Whole(a), NEW b \in Texts, NEW p, IsOpening(p), NEW by \in Texts
  PROVE  Splits(a, b, p, by)
<1>1. PICK c : c = a \o b
  OBVIOUS
<1>2. p \in Texts /\ Len(p) > 0 /\ Seamless(a, b, p) /\ c \in Texts
  BY <1>1, WholeIsSeamless, JoinIs DEF IsOpening
<1>3. PICK midA, afterA, f :
        /\ midA = Instead(a, p, by) /\ afterA = PastOpen(a, p) /\ Scans(a, p, midA, afterA)
        /\ Scanning(f, a, p, midA, afterA) /\ replace(a, p, by) = f[1]
  BY <1>2, ReplaceIsScan
<1>4. PICK midB, afterB, g :
        /\ midB = Instead(b, p, by) /\ afterB = PastOpen(b, p) /\ Scans(b, p, midB, afterB)
        /\ Scanning(g, b, p, midB, afterB) /\ replace(b, p, by) = g[1]
  BY <1>2, ReplaceIsScan
<1>5. PICK midC, afterC, h :
        /\ midC = Instead(c, p, by) /\ afterC = PastOpen(c, p) /\ Scans(c, p, midC, afterC)
        /\ Scanning(h, c, p, midC, afterC) /\ replace(c, p, by) = h[1]
  BY <1>2, ReplaceIsScan
<1>6. Len(a) \in Nat /\ Len(b) \in Nat /\ Len(p) \in Nat
  BY <1>2, LenProperties DEF Texts
<1>7. ASSUME NEW j \in Occurrences(a, p)
      PROVE  midC[j] = midA[j] /\ afterC[j] = afterA[j]
  <2>1. j \in Occurrences(c, p)
    BY <1>1, <1>2 DEF Seamless
  <2> QED
    BY <1>3, <1>5, <2>1 DEF Instead, PastOpen
<1>8. ASSUME NEW j \in Occurrences(b, p)
      PROVE  midC[Len(a) + j] = midB[j] /\ afterC[Len(a) + j] = Len(a) + afterB[j]
  <2>1. Len(a) + j \in Occurrences(c, p)
    BY <1>1, <1>2 DEF Seamless
  <2>2. j \in Nat
    BY <1>6 DEF Occurrences
  <2>3. afterC[Len(a) + j] = (Len(a) + j) + Len(p) /\ afterB[j] = j + Len(p)
    BY <1>4, <1>5, <2>1 DEF PastOpen
  <2>4. midC[Len(a) + j] = by /\ midB[j] = by
    BY <1>4, <1>5, <2>1 DEF Instead
  <2> QED
    BY <1>6, <2>2, <2>3, <2>4
<1>9. Agrees(a, b, p, midA, afterA, midB, afterB, midC, afterC)
  BY <1>7, <1>8 DEF Agrees
<1>10. Ends(h, f, g)
  BY <1>1, <1>2, <1>3, <1>4, <1>5, <1>9, ScansJoin
<1> QED
  BY <1>1, <1>3, <1>4, <1>5, <1>10 DEF Ends, Splits

-----------------------------------------------------------------------------
(* A tag that is begun is ended, further right.                            *)
LEMMA TagEnds ==
  ASSUME NEW s \in Texts, Whole(s), NEW i \in 1..Len(s), s[i] = "<",
         NEW end, end = Find(s, <<">">>, i)
  PROVE  end \in Nat /\ end > i /\ end <= Len(s) /\ s[end] = ">"
<1>1. PICK p : p = <<">">>
  OBVIOUS
<1>2. p \in Texts /\ Len(p) = 1 /\ p[1] = ">"
  BY <1>1, OwnUnits, OneUnit
<1>3. Len(s) \in Nat /\ i \in Nat /\ i >= 1
  BY LenProperties DEF Texts
<1>4. PICK k \in (i + 1)..Len(s) : s[k] = ">"
  BY DEF Whole
<1>5. \A j : j \in Occurrences(s, p) <=> j \in 1..Len(s) /\ s[j] = ">"
  <2> SUFFICES ASSUME NEW j
               PROVE  j \in Occurrences(s, p) <=> j \in 1..Len(s) /\ s[j] = ">"
    OBVIOUS
  <2>1. j \in Occurrences(s, p) <=> OccursAt(s, p, j)
    BY <1>2, OccursIs DEF Texts
  <2>2. OccursAt(s, p, j) <=> /\ j \in 1..(Len(s) - 1 + 1)
                              /\ \A n \in 1..1 : s[j + n - 1] = p[n]
    BY <1>2 DEF OccursAt
  <2>3. 1..(Len(s) - 1 + 1) = 1..Len(s)
    BY <1>3
  <2>4. ASSUME j \in 1..Len(s)
        PROVE  (\A n \in 1..1 : s[j + n - 1] = p[n]) <=> s[j] = ">"
    <3>1. \A n \in 1..1 : n = 1 /\ j + n - 1 = j
      BY <1>3, <2>4
    <3>2. 1 \in 1..1
      OBVIOUS
    <3> QED
      BY <1>2, <3>1, <3>2
  <2> QED
    BY <2>1, <2>2, <2>3, <2>4
<1>6. k \in Occurrences(s, p) /\ k >= i
  BY <1>3, <1>4, <1>5
<1>7. /\ end \in Nat
      /\ end = 0 => \A j \in Occurrences(s, p) : j < i
      /\ end # 0 => end \in Occurrences(s, p) /\ end >= i
  <2>1. s \in Seq(Unit) /\ p \in Seq(Unit) /\ Len(p) > 0 /\ i \in Nat /\ end = Find(s, p, i)
    BY <1>1, <1>2, <1>3 DEF Texts
  <2> QED
    BY <2>1, FindIsFirst
<1>8. end # 0
  BY <1>3, <1>4, <1>6, <1>7
<1>9. end \in 1..Len(s) /\ s[end] = ">" /\ end >= i
  BY <1>5, <1>7, <1>8
<1>10. end # i
  BY <1>9
<1> QED
  BY <1>3, <1>7, <1>9, <1>10

(* What the pass over meta tags keeps, and where it goes on.               *)
Meta == <<"<", "meta">>

Kept(s) ==
  [j \in Occurrences(s, Meta) |->
     IF Contains(SubSeq(s, j, EndOfTag(s, j)), "long") THEN <<>>
     ELSE SubSeq(s, j, EndOfTag(s, j))]

PastTag(s) == [j \in Occurrences(s, Meta) |-> EndOfTag(s, j) + 1]

LEMMA MetaIs ==
  /\ Meta \in Texts /\ Len(Meta) = 2 /\ Meta[1] = "<" /\ Meta[2] = "meta"
  /\ IsOpening(Meta)
<1>1. Meta \in Texts /\ Len(Meta) = 2 /\ Meta[1] = "<" /\ Meta[2] = "meta"
  BY OwnUnits, TwoUnits DEF Meta
<1>2. \A k \in 1..(2 - 1) : k = 1
  OBVIOUS
<1> QED
  BY <1>1, <1>2 DEF IsOpening

LEMMA MetaIsScan ==
  ASSUME NEW s \in Texts, Whole(s)
  PROVE  /\ Scans(s, Meta, Kept(s), PastTag(s))
         /\ \E f : /\ Scanning(f, s, Meta, Kept(s), PastTag(s))
                   /\ strip_suspicious_meta_tags(s) = f[1]
<1>1. PICK n, mid, after, open : n = Len(s) + 1 /\ mid = Kept(s) /\ after = PastTag(s)
                                 /\ open = Meta
  OBVIOUS
<1>2. /\ Len(s) \in Nat /\ open \in Texts /\ Len(open) = 2 /\ open[1] = "<"
      /\ open = <<"<", "meta">>
  BY <1>1, LenProperties, MetaIs DEF Texts, Meta
<1>3. ASSUME NEW j \in Occurrences(s, open), NEW end, end = Find(s, <<">">>, j)
      PROVE  /\ j \in Nat /\ j >= 1
             /\ end \in Nat /\ end > j /\ end <= Len(s)
             /\ mid[j] = IF Contains(SubSeq(s, j, end), "long") THEN <<>> ELSE SubSeq(s, j, end)
             /\ after[j] = end + 1
             /\ Slice(s, j, end + 1) = SubSeq(s, j, end)
  <2>1. /\ j \in 1..(Len(s) - 2 + 1)
        /\ \A k \in 1..2 : s[j + k - 1] = open[k]
    <3>1. s \in Seq(Unit) /\ open \in Seq(Unit)
      BY <1>2 DEF Texts
    <3>2. OccursAt(s, open, j)
      BY <1>3, <3>1, OccursIs
    <3> QED
      BY <1>2, <3>2 DEF OccursAt
  <2>2. j \in 1..Len(s) /\ 1 \in 1..2 /\ j + 1 - 1 = j
    BY <1>2, <2>1
  <2>3. s[j] = "<"
    BY <1>2, <2>1, <2>2
  <2>4. end \in Nat /\ end > j /\ end <= Len(s)
    BY <1>3, <2>2, <2>3, TagEnds
  <2>5. mid[j] = (IF Contains(SubSeq(s, j, end), "long") THEN <<>> ELSE SubSeq(s, j, end))
        /\ after[j] = end + 1
    BY <1>1, <1>3 DEF Kept, PastTag, EndOfTag
  <2>6. end + 1 <= Len(s) + 1 /\ (end + 1) - 1 = end
    BY <1>2, <2>4
  <2>7. Slice(s, j, end + 1) = SubSeq(s, j, end)
    BY <2>6 DEF Slice
  <2> QED
    BY <2>2, <2>4, <2>5, <2>7
<1>4. Scans(s, open, mid, after)
  <2>1. ASSUME NEW j \in Occurrences(s, open)
        PROVE  mid[j] \in Texts /\ after[j] \in 1..n /\ after[j] > j
    <3>1. PICK end : end = Find(s, <<">">>, j)
      OBVIOUS
    <3>2. j \in Nat /\ j >= 1 /\ end \in Nat /\ end > j /\ end <= Len(s)
          /\ (mid[j] = <<>> \/ mid[j] = SubSeq(s, j, end)) /\ after[j] = end + 1
      BY <1>3, <3>1
    <3>3. SubSeq(s, j, end) \in Texts /\ <<>> \in Texts
      BY <3>2, PartIsText, EmptySeq DEF Texts
    <3>4. end + 1 \in 1..n /\ end + 1 > j
      BY <1>1, <1>2, <3>2
    <3> QED
      BY <3>2, <3>3, <3>4
  <2>2. /\ mid = [j \in Occurrences(s, open) |-> mid[j]]
        /\ after = [j \in Occurrences(s, open) |-> after[j]]
    BY <1>1 DEF Kept, PastTag
  <2>3. /\ mid \in [Occurrences(s, open) -> Texts]
        /\ after \in [Occurrences(s, open) -> 1..(Len(s) + 1)]
    BY <1>1, <2>1, <2>2
  <2> QED
    BY <1>2, <2>1, <2>3 DEF Scans
<1> DEFINE Stripping(f) ==
             f = [i \in 1..(Len(s) + 1) |->
                    LET start == Find(s, <<"<", "meta">>, i)
                        end == Find(s, <<">">>, start)
                    IN  IF start = 0 \/ end = 0 THEN Rest(s, i)
                        ELSE Slice(s, i, start)
                             \o (IF Contains(SubSeq(s, start, end), "long") THEN <<>>
                                 ELSE Slice(s, start, end + 1))
                             \o f[end + 1]]
<1>5. strip_suspicious_meta_tags(s) = (CHOOSE f : Stripping(f))[1]
  BY DEF strip_suspicious_meta_tags
<1>6. ASSUME NEW f
      PROVE  Stripping(f) <=> Scanning(f, s, open, mid, after)
  <2>1. ASSUME NEW i \in 1..(Len(s) + 1)
        PROVE  (LET start == Find(s, <<"<", "meta">>, i)
                    end == Find(s, <<">">>, start)
                IN  IF start = 0 \/ end = 0 THEN Rest(s, i)
                    ELSE Slice(s, i, start)
                         \o (IF Contains(SubSeq(s, start, end), "long") THEN <<>>
                             ELSE Slice(s, start, end + 1))
                         \o f[end + 1]) =
               (LET start == Find(s, open, i)
                IN  IF start = 0 THEN SubSeq(s, i, Len(s))
                    ELSE (SubSeq(s, i, start - 1) \o mid[start]) \o f[after[start]])
    <3>1. PICK start, end : start = Find(s, <<"<", "meta">>, i) /\ end = Find(s, <<">">>, start)
      OBVIOUS
    <3>2. start = Find(s, open, i)
      BY <1>2, <3>1
    <3>0. open \in Texts /\ Len(open) > 0
      BY <1>2
    <3>3. CASE start = 0
      <4>1. Rest(s, i) = SubSeq(s, i, Len(s))
        BY <3>0, <3>2, HitIs
      <4> QED
        BY <3>1, <3>2, <3>3, <4>1
    <3>4. CASE start # 0
      <4>1. start \in Occurrences(s, open) /\ Slice(s, i, start) = SubSeq(s, i, start - 1)
        BY <3>0, <3>2, <3>4, HitIs
      <4>2. /\ end \in Nat /\ end > start /\ start \in Nat
            /\ mid[start] = IF Contains(SubSeq(s, start, end), "long") THEN <<>>
                            ELSE SubSeq(s, start, end)
            /\ after[start] = end + 1
            /\ Slice(s, start, end + 1) = SubSeq(s, start, end)
        BY <1>3, <3>1, <4>1
      <4>3. end # 0
        BY <4>2
      <4>4. mid[start] = IF Contains(SubSeq(s, start, end), "long") THEN <<>>
                         ELSE Slice(s, start, end + 1)
        BY <4>2
      <4> QED
        BY <3>1, <3>2, <3>4, <4>1, <4>2, <4>3, <4>4
    <3> QED
      BY <3>3, <3>4
  <2> QED
    BY <2>1 DEF Scanning
<1> HIDE DEF Stripping
<1>7. PICK f : f = CHOOSE g : Stripping(g)
  OBVIOUS
<1>8. Stripping(f)
  BY <1>4, <1>6, <1>7, ScanExists
<1>9. Scanning(f, s, open, mid, after) /\ strip_suspicious_meta_tags(s) = f[1]
  BY <1>5, <1>6, <1>7, <1>8
<1> QED
  BY <1>1, <1>4, <1>9

-----------------------------------------------------------------------------
(* Tags of two texts, and the pass over meta tags.                         *)

(* A tag ends where it ended, as its own text.                             *)
LEMMA TagOnLeft ==
  ASSUME NEW a \in Texts, NEW b \in Texts, NEW i \in Nat, EndOfTag(a, i) # 0
  PROVE  EndOfTag(a \o b, i) = EndOfTag(a, i)
<1>1. PICK p : p = <<">">>
  OBVIOUS
<1>2. p \in Seq(Unit) /\ Len(p) > 0 /\ a \in Seq(Unit) /\ b \in Seq(Unit)
  <2>1. p \in Texts /\ Len(p) = 1
    BY <1>1, OwnUnits, OneUnit
  <2> QED
    BY <2>1 DEF Texts
<1>3. Find(a, p, i) # 0
  BY <1>1 DEF EndOfTag
<1>4. Find(a \o b, p, i) = Find(a, p, i)
  BY <1>2, <1>3, FindOnLeft
<1> QED
  BY <1>1, <1>4 DEF EndOfTag

LEMMA TagOnRight ==
  ASSUME NEW a \in Texts, NEW b \in Texts, NEW i \in Nat, i >= 1
  PROVE  EndOfTag(a \o b, Len(a) + i) = Shifted(Len(a), EndOfTag(b, i))
<1>1. PICK p : p = <<">">>
  OBVIOUS
<1>2. p \in Seq(Unit) /\ Len(p) > 0 /\ a \in Seq(Unit) /\ b \in Seq(Unit)
  <2>1. p \in Texts /\ Len(p) = 1
    BY <1>1, OwnUnits, OneUnit
  <2> QED
    BY <2>1 DEF Texts
<1>3. Find(a \o b, p, Len(a) + i) = Shifted(Len(a), Find(b, p, i))
  BY <1>2, FindOnRight
<1> QED
  BY <1>1, <1>3 DEF EndOfTag

LEMMA MetaTagEnds ==
  ASSUME NEW s \in Texts, Whole(s), NEW j \in Occurrences(s, Meta)
  PROVE  /\ j \in Nat /\ j >= 1
         /\ EndOfTag(s, j) \in Nat /\ EndOfTag(s, j) > j /\ EndOfTag(s, j) <= Len(s)
<1>1. PICK open : open = Meta
  OBVIOUS
<1>2. open \in Seq(Unit) /\ s \in Seq(Unit) /\ Len(open) = 2 /\ open[1] = "<" /\ Len(s) \in Nat
  BY <1>1, MetaIs, LenProperties DEF Texts
<1>3. OccursAt(s, open, j)
  BY <1>1, <1>2, OccursIs
<1>4. j \in 1..(Len(s) - 2 + 1) /\ \A k \in 1..2 : s[j + k - 1] = open[k]
  BY <1>2, <1>3 DEF OccursAt
<1>5. j \in 1..Len(s) /\ 1 \in 1..2 /\ j + 1 - 1 = j
  BY <1>2, <1>4
<1>6. s[j] = "<"
  BY <1>2, <1>4, <1>5
<1>7. PICK end : end = EndOfTag(s, j)
  OBVIOUS
<1>8. end \in Nat /\ end > j /\ end <= Len(s)
  BY <1>5, <1>6, <1>7, TagEnds DEF EndOfTag
<1> QED
  BY <1>5, <1>7, <1>8

(* So meta tags are kept or not as in their own text.                      *)
LEMMA MetaJoins ==
  ASSUME NEW a \in Texts, Whole(a), NEW b \in Texts, Whole(b)
  PROVE  strip_suspicious_meta_tags(a \o b)
           = strip_suspicious_meta_tags(a) \o strip_suspicious_meta_tags(b)
<1>1. PICK c, p : c = a \o b /\ p = Meta
  OBVIOUS
<1>2. /\ p \in Texts /\ Len(p) > 0 /\ Seamless(a, b, p)
      /\ c \in Texts /\ Whole(c)
  BY <1>1, MetaIs, WholeIsSeamless, JoinIs, WholeJoins
<1>3. PICK midA, afterA, f :
        /\ midA = Kept(a) /\ afterA = PastTag(a) /\ Scans(a, p, midA, afterA)
        /\ Scanning(f, a, p, midA, afterA) /\ strip_suspicious_meta_tags(a) = f[1]
  BY <1>1, MetaIsScan
<1>4. PICK midB, afterB, g :
        /\ midB = Kept(b) /\ afterB = PastTag(b) /\ Scans(b, p, midB, afterB)
        /\ Scanning(g, b, p, midB, afterB) /\ strip_suspicious_meta_tags(b) = g[1]
  BY <1>1, MetaIsScan
<1>5. PICK midC, afterC, h :
        /\ midC = Kept(c) /\ afterC = PastTag(c) /\ Scans(c, p, midC, afterC)
        /\ Scanning(h, c, p, midC, afterC) /\ strip_suspicious_meta_tags(c) = h[1]
  BY <1>1, <1>2, MetaIsScan
<1>6. Len(a) \in Nat /\ Len(b) \in Nat
  BY LenProperties DEF Texts
<1>7. ASSUME NEW j \in Occurrences(a, p)
      PROVE  midC[j] = midA[j] /\ afterC[j] = afterA[j]
  <2>1. j \in Occurrences(c, p)
    BY <1>1, <1>2 DEF Seamless
  <2>2. PICK end : end = EndOfTag(a, j)
    OBVIOUS
  <2>3. j \in Nat /\ j >= 1 /\ end \in Nat /\ end > j /\ end <= Len(a)
    BY <1>1, <2>2, MetaTagEnds
  <2>4. EndOfTag(c, j) = end
    BY <1>1, <2>2, <2>3, TagOnLeft
  <2>5. SubSeq(c, j, end) = SubSeq(a, j, end)
    BY <1>1, <2>3, PartOnLeft
  <2>6. midC[j] = (IF Contains(SubSeq(c, j, end), "long") THEN <<>> ELSE SubSeq(c, j, end))
        /\ afterC[j] = end + 1
    BY <1>1, <1>5, <2>1, <2>4 DEF Kept, PastTag
  <2>7. midA[j] = (IF Contains(SubSeq(a, j, end), "long") THEN <<>> ELSE SubSeq(a, j, end))
        /\ afterA[j] = end + 1
    BY <1>1, <1>3, <2>2 DEF Kept, PastTag
  <2> QED
    BY <2>5, <2>6, <2>7
<1>8. ASSUME NEW j \in Occurrences(b, p)
      PROVE  midC[Len(a) + j] = midB[j] /\ afterC[Len(a) + j] = Len(a) + afterB[j]
  <2>0. PICK i : i = Len(a) + j
    OBVIOUS
  <2>1. i \in Occurrences(c, p)
    BY <1>1, <1>2, <2>0 DEF Seamless
  <2>2. PICK end, last : end = EndOfTag(b, j) /\ last = Len(a) + end
    OBVIOUS
  <2>3. j \in Nat /\ j >= 1 /\ end \in Nat /\ end > j /\ end <= Len(b)
    BY <1>1, <2>2, MetaTagEnds
  <2>4. EndOfTag(c, i) = last
    <3>1. EndOfTag(a \o b, Len(a) + j) = Shifted(Len(a), EndOfTag(b, j))
      BY <2>3, TagOnRight
    <3> QED
      BY <1>1, <2>0, <2>2, <2>3, <3>1 DEF Shifted
  <2>5. SubSeq(c, i, last) = SubSeq(b, j, end)
    <3>1. SubSeq(a \o b, Len(a) + j, Len(a) + end) = SubSeq(b, j, end)
      BY <2>3, PartOnRight
    <3> QED
      BY <1>1, <2>0, <2>2, <3>1
  <2>6. midC[i] = (IF Contains(SubSeq(c, i, last), "long") THEN <<>> ELSE SubSeq(c, i, last))
        /\ afterC[i] = last + 1
    BY <1>1, <1>5, <2>1, <2>4 DEF Kept, PastTag
  <2>7. midB[j] = (IF Contains(SubSeq(b, j, end), "long") THEN <<>> ELSE SubSeq(b, j, end))
        /\ afterB[j] = end + 1
    BY <1>1, <1>4, <2>2 DEF Kept, PastTag
  <2>8. last + 1 = Len(a) + (end + 1)
    BY <1>6, <2>2, <2>3
  <2> QED
    BY <2>0, <2>5, <2>6, <2>7, <2>8
<1>9. Agrees(a, b, p, midA, afterA, midB, afterB, midC, afterC)
  BY <1>7, <1>8 DEF Agrees
<1>10. Ends(h, f, g)
  BY <1>1, <1>2, <1>3, <1>4, <1>5, <1>9, ScansJoin
<1> QED
  BY <1>1, <1>3, <1>4, <1>5, <1>10 DEF Ends

-----------------------------------------------------------------------------
(* Elements: their names, and whether they are hidden.                     *)

NameEnd == Blank \cup {">", "hidden", "long"}

(* The name of an element goes up to the first unit that ends it.          *)
LEMMA ClosingIs ==
  ASSUME NEW s \in Texts, NEW i \in 1..Len(s), NEW m \in i..Len(s), s[m] \in NameEnd,
         \A k \in i..(m - 1) : s[k] \notin NameEnd
  PROVE  Closing(s, i) = (<<"<", "/">> \o SubSeq(s, i + 1, m - 1)) \o <<">">>
<1> DEFINE ends == {j \in i..Len(s) : s[j] \in NameEnd}
<1>1. Len(s) \in Nat /\ i \in Nat /\ m \in Nat
  BY LenProperties DEF Texts
<1>2. m \in ends /\ \A j \in ends : m <= j
  BY <1>1
<1>3. ends # {} /\ ends \in SUBSET Nat
  BY <1>1, <1>2
<1>4. Closing(s, i) = (<<"<", "/">> \o SubSeq(s, i + 1, Min(ends) - 1)) \o <<">">>
  BY <1>3 DEF Closing, NameEnd
<1> HIDE DEF ends
<1>5. Min(ends) \in ends /\ \A j \in ends : Min(ends) <= j
  BY <1>2 DEF Min
<1>6. Min(ends) = m
  <2>1. PICK least : least = Min(ends)
    OBVIOUS
  <2>2. least \in Nat /\ m <= least /\ least <= m
    BY <1>2, <1>3, <1>5, <2>1
  <2> QED
    BY <1>1, <2>1, <2>2
<1> QED
  BY <1>4, <1>6

(* A tag that is ended has a name that is ended, before or there.          *)
LEMMA TagIs ==
  ASSUME NEW s \in Texts, NEW i \in 1..Len(s), EndOfTag(s, i) # 0
  PROVE  /\ EndOfTag(s, i) \in i..Len(s) /\ s[EndOfTag(s, i)] = ">"
         /\ \E m \in i..Len(s) : /\ s[m] \in NameEnd
                                 /\ \A k \in i..(m - 1) : s[k] \notin NameEnd
<1>1. PICK p, end : p = <<">">> /\ end = EndOfTag(s, i)
  OBVIOUS
<1>2. p \in Texts /\ Len(p) = 1 /\ p[1] = ">"
  BY <1>1, OwnUnits, OneUnit
<1>3. Len(s) \in Nat /\ i \in Nat /\ i >= 1 /\ s \in Seq(Unit) /\ p \in Seq(Unit)
  BY <1>2, LenProperties DEF Texts
<1>4. end \in Nat /\ end \in Occurrences(s, p) /\ end >= i
  <2>1. end = Find(s, p, i) /\ end # 0 /\ Len(p) > 0
    BY <1>1, <1>2 DEF EndOfTag
  <2> QED
    BY <1>3, <2>1, FindIsFirst
<1>5. end \in 1..(Len(s) - 1 + 1) /\ \A k \in 1..1 : s[end + k - 1] = p[k]
  <2>1. OccursAt(s, p, end)
    BY <1>3, <1>4, OccursIs
  <2> QED
    BY <1>2, <2>1 DEF OccursAt
<1>6. end \in i..Len(s)
  BY <1>3, <1>4, <1>5
<1>7. s[end] = ">"
  <2>1. 1 \in 1..1 /\ end + 1 - 1 = end
    BY <1>4
  <2> QED
    BY <1>2, <1>5, <2>1
<1>8. \E m \in i..Len(s) : s[m] \in NameEnd /\ \A k \in i..(m - 1) : s[k] \notin NameEnd
  <2> DEFINE ends == {j \in i..Len(s) : s[j] \in NameEnd}
  <2>1. end \in ends
    BY <1>6, <1>7 DEF NameEnd
  <2>2. ends \in SUBSET Nat /\ ends # {} /\ ends \in SUBSET (i..Len(s))
    BY <1>3, <2>1
  <2>3. PICK m \in ends : \A j \in ends : m <= j
    <3> HIDE DEF ends
    <3> QED
      BY <2>2, LeastNumber
  <2>4. m \in i..Len(s) /\ s[m] \in NameEnd /\ m \in Nat
    BY <2>2
  <2>5. ASSUME NEW k \in i..(m - 1)
        PROVE  s[k] \notin NameEnd
    <3>1. k \in i..Len(s) /\ ~(m <= k)
      BY <1>3, <2>4
    <3> QED
      BY <2>3, <3>1
  <2> QED
    BY <2>4, <2>5
<1> QED
  BY <1>1, <1>6, <1>7, <1>8

LEMMA ClosingIsText ==
  ASSUME NEW s \in Texts, NEW i \in 1..Len(s), EndOfTag(s, i) # 0
  PROVE  Closing(s, i) \in Texts /\ Len(Closing(s, i)) \in Nat /\ Len(Closing(s, i)) > 0
<1>1. PICK m \in i..Len(s) : /\ s[m] \in NameEnd
                             /\ \A k \in i..(m - 1) : s[k] \notin NameEnd
  BY TagIs
<1>2. Len(s) \in Nat /\ i \in Nat /\ i >= 1
  BY LenProperties DEF Texts
<1>3. PICK a, name, c : a = <<"<", "/">> /\ name = SubSeq(s, i + 1, m - 1) /\ c = <<">">>
  OBVIOUS
<1>4. Closing(s, i) = (a \o name) \o c
  BY <1>1, <1>3, ClosingIs
<1>5. a \in Texts /\ Len(a) = 2 /\ c \in Texts
  BY <1>3, OwnUnits, OneUnit, TwoUnits
<1>6. name \in Texts
  <2>1. i + 1 \in Nat /\ i + 1 >= 1 /\ m - 1 \in Int /\ m - 1 <= Len(s)
    BY <1>1, <1>2
  <2> QED
    BY <1>3, <2>1, PartIsText
<1>7. a \o name \in Texts /\ Len(a \o name) = 2 + Len(name) /\ Len(name) \in Nat /\ Len(c) \in Nat
  <2>1. a \in Seq(Unit) /\ name \in Seq(Unit) /\ c \in Seq(Unit)
    BY <1>5, <1>6 DEF Texts
  <2>2. Len(name) \in Nat /\ Len(c) \in Nat
    BY <2>1, LenProperties
  <2>3. a \o name \in Seq(Unit) /\ Len(a \o name) = Len(a) + Len(name)
    BY <2>1, ConcatProperties
  <2> QED
    BY <1>5, <2>2, <2>3 DEF Texts
<1>8. (a \o name) \o c \in Texts /\ Len((a \o name) \o c) = Len(a \o name) + Len(c)
  BY <1>5, <1>7, ConcatProperties DEF Texts
<1>9. Len((a \o name) \o c) \in Nat /\ Len((a \o name) \o c) > 0
  BY <1>7, <1>8
<1> QED
  BY <1>4, <1>8, <1>9

(* So it is the same in a text that goes on, and in one with more before.  *)
LEMMA ClosingOnLeft ==
  ASSUME NEW a \in Texts, NEW b \in Texts, NEW i \in 1..Len(a), EndOfTag(a, i) # 0
  PROVE  Closing(a \o b, i) = Closing(a, i)
<1>1. PICK c : c = a \o b
  OBVIOUS
<1>2. /\ c \in Texts /\ Len(a) \in Nat /\ Len(b) \in Nat /\ Len(c) = Len(a) + Len(b)
      /\ \A k \in 1..Len(a) : c[k] = a[k]
  BY <1>1, JoinIs
<1>3. PICK m \in i..Len(a) : /\ a[m] \in NameEnd
                             /\ \A k \in i..(m - 1) : a[k] \notin NameEnd
  BY TagIs
<1>4. i \in 1..Len(c) /\ m \in i..Len(c) /\ m \in 1..Len(a)
  BY <1>2
<1>5. c[m] \in NameEnd
  BY <1>2, <1>3, <1>4
<1>6. \A k \in i..(m - 1) : c[k] \notin NameEnd
  <2> SUFFICES ASSUME NEW k \in i..(m - 1)
               PROVE  c[k] \notin NameEnd
    OBVIOUS
  <2>1. k \in 1..Len(a)
    BY <1>2
  <2> QED
    BY <1>2, <1>3, <2>1
<1>7. SubSeq(c, i + 1, m - 1) = SubSeq(a, i + 1, m - 1)
  <2>1. i + 1 \in Nat /\ i + 1 >= 1 /\ m - 1 \in Int /\ m - 1 <= Len(a)
    BY <1>2
  <2> QED
    BY <1>1, <2>1, PartOnLeft
<1>8. Closing(c, i) = (<<"<", "/">> \o SubSeq(c, i + 1, m - 1)) \o <<">">>
  BY <1>2, <1>4, <1>5, <1>6, ClosingIs
<1>9. Closing(a, i) = (<<"<", "/">> \o SubSeq(a, i + 1, m - 1)) \o <<">">>
  BY <1>3, ClosingIs
<1> QED
  BY <1>1, <1>7, <1>8, <1>9

LEMMA ClosingOnRight ==
  ASSUME NEW a \in Texts, NEW b \in Texts, NEW i \in 1..Len(b), EndOfTag(b, i) # 0
  PROVE  Closing(a \o b, Len(a) + i) = Closing(b, i)
<1>1. PICK c, d : c = a \o b /\ d = Len(a)
  OBVIOUS
<1>2. /\ c \in Texts /\ d \in Nat /\ Len(b) \in Nat /\ Len(c) = d + Len(b)
      /\ \A k \in 1..Len(b) : c[d + k] = b[k]
  BY <1>1, JoinIs
<1>3. PICK m \in i..Len(b) : /\ b[m] \in NameEnd
                             /\ \A k \in i..(m - 1) : b[k] \notin NameEnd
  BY TagIs
<1>4. PICK j, n : j = d + i /\ n = d + m
  OBVIOUS
<1>5. j \in 1..Len(c) /\ n \in j..Len(c) /\ m \in 1..Len(b)
  BY <1>2, <1>4
<1>6. c[n] \in NameEnd
  BY <1>2, <1>3, <1>4, <1>5
<1>7. \A k \in j..(n - 1) : c[k] \notin NameEnd
  <2> SUFFICES ASSUME NEW k \in j..(n - 1)
               PROVE  c[k] \notin NameEnd
    OBVIOUS
  <2>1. PICK l : l = k - d
    OBVIOUS
  <2>2. l \in 1..Len(b) /\ l \in i..(m - 1) /\ d + l = k
    BY <1>2, <1>4, <2>1
  <2> QED
    BY <1>2, <1>3, <2>2
<1>8. SubSeq(c, j + 1, n - 1) = SubSeq(b, i + 1, m - 1)
  <2>1. /\ i + 1 \in Nat /\ i + 1 >= 1 /\ m - 1 \in Int /\ m - 1 <= Len(b)
        /\ d + (i + 1) = j + 1 /\ d + (m - 1) = n - 1
    BY <1>2, <1>4
  <2>2. SubSeq(a \o b, Len(a) + (i + 1), Len(a) + (m - 1)) = SubSeq(b, i + 1, m - 1)
    BY <2>1, PartOnRight
  <2> QED
    BY <1>1, <2>1, <2>2
<1>9. Closing(c, j) = (<<"<", "/">> \o SubSeq(c, j + 1, n - 1)) \o <<">">>
  BY <1>2, <1>5, <1>6, <1>7, ClosingIs
<1>10. Closing(b, i) = (<<"<", "/">> \o SubSeq(b, i + 1, m - 1)) \o <<">">>
  BY <1>3, ClosingIs
<1> QED
  BY <1>1, <1>4, <1>8, <1>9, <1>10

(* And it is hidden or not, as in its own text.                            *)
LEMMA HidesOnLeft ==
  ASSUME NEW a \in Texts, Whole(a), NEW b \in Texts, NEW i \in 1..Len(a)
  PROVE  Hides(a \o b, i) <=> Hides(a, i)
<1>1. PICK c : c = a \o b
  OBVIOUS
<1>2. /\ c \in Texts /\ Len(a) \in Nat /\ Len(b) \in Nat /\ Len(c) = Len(a) + Len(b)
      /\ \A k \in 1..Len(a) : c[k] = a[k]
  BY <1>1, JoinIs
<1>3. i <= Len(a) /\ i <= Len(c) /\ c[i] = a[i] /\ i \in Nat /\ i >= 1
  BY <1>2
<1>4. CASE a[i] # "<"
  BY <1>1, <1>3, <1>4 DEF Hides
<1>5. CASE a[i] = "<"
  <2>1. PICK end : end = EndOfTag(a, i)
    OBVIOUS
  <2>2. end \in Nat /\ end > i /\ end <= Len(a)
    BY <1>5, <2>1, TagEnds DEF EndOfTag
  <2>3. end # 0
    BY <1>3, <2>2
  <2>4. EndOfTag(c, i) = end
    BY <1>1, <1>3, <2>1, <2>3, TagOnLeft
  <2>5. SubSeq(c, i, end) = SubSeq(a, i, end)
    BY <1>1, <1>3, <2>2, PartOnLeft
  <2> QED
    BY <1>1, <1>3, <2>1, <2>4, <2>5 DEF Hides
<1> QED
  BY <1>4, <1>5

LEMMA HidesOnRight ==
  ASSUME NEW a \in Texts, NEW b \in Texts, Whole(b), NEW i \in 1..Len(b)
  PROVE  Hides(a \o b, Len(a) + i) <=> Hides(b, i)
<1>1. PICK c, j : c = a \o b /\ j = Len(a) + i
  OBVIOUS
<1>2. /\ c \in Texts /\ Len(a) \in Nat /\ Len(b) \in Nat /\ Len(c) = Len(a) + Len(b)
      /\ \A k \in 1..Len(b) : c[Len(a) + k] = b[k]
  BY <1>1, JoinIs
<1>3. i <= Len(b) /\ j <= Len(c) /\ c[j] = b[i] /\ i \in Nat /\ i >= 1
  BY <1>1, <1>2
<1>4. CASE b[i] # "<"
  BY <1>1, <1>3, <1>4 DEF Hides
<1>5. CASE b[i] = "<"
  <2>1. PICK end, last : end = EndOfTag(b, i) /\ last = Len(a) + end
    OBVIOUS
  <2>2. end \in Nat /\ end > i /\ end <= Len(b)
    BY <1>5, <2>1, TagEnds DEF EndOfTag
  <2>3. end # 0 /\ last # 0
    BY <1>2, <1>3, <2>1, <2>2
  <2>4. EndOfTag(c, j) = last
    <3>1. EndOfTag(a \o b, Len(a) + i) = Shifted(Len(a), EndOfTag(b, i))
      BY <1>3, TagOnRight
    <3> QED
      BY <1>1, <2>1, <2>3, <3>1 DEF Shifted
  <2>5. SubSeq(c, j, last) = SubSeq(b, i, end)
    <3>1. SubSeq(a \o b, Len(a) + i, Len(a) + end) = SubSeq(b, i, end)
      <4>1. i \in Nat /\ i >= 1 /\ end \in Int /\ end <= Len(b)
        BY <1>3, <2>2
      <4> QED
        BY <4>1, PartOnRight
    <3> QED
      BY <1>1, <2>1, <3>1
  <2> QED
    BY <1>1, <1>3, <2>1, <2>3, <2>4, <2>5 DEF Hides
<1> QED
  BY <1>4, <1>5

-----------------------------------------------------------------------------
(* Elements: where they end.                                               *)

(* Where the end of a hidden element is found.                             *)
ElementEnd(s, i) == Find(s, Closing(s, i), EndOfTag(s, i) + 1)

(* A hidden element that is closed has its end further right.              *)
LEMMA HiddenIs ==
  ASSUME NEW s \in Texts, HiddenClosed(s), NEW i \in 1..Len(s), Hides(s, i)
  PROVE  /\ EndOfTag(s, i) # 0 /\ EndOfTag(s, i) \in i..Len(s)
         /\ Closing(s, i) \in Texts /\ Len(Closing(s, i)) \in Nat /\ Len(Closing(s, i)) > 0
         /\ ElementEnd(s, i) \in Nat /\ ElementEnd(s, i) # 0 /\ ElementEnd(s, i) > i
         /\ ElementEnd(s, i) + Len(Closing(s, i)) <= Len(s) + 1
         /\ PastElement(s, i) = ElementEnd(s, i) + Len(Closing(s, i))
<1>1. PICK tag, close, end : tag = EndOfTag(s, i) /\ close = Closing(s, i) /\ end = ElementEnd(s, i)
  OBVIOUS
<1>2. tag # 0
  BY <1>1 DEF Hides
<1>3. tag \in i..Len(s) /\ close \in Texts /\ Len(close) \in Nat /\ Len(close) > 0
  BY <1>1, <1>2, TagIs, ClosingIsText
<1>4. Len(s) \in Nat /\ i \in Nat /\ i >= 1
  BY LenProperties DEF Texts
<1>5. end = Find(s, close, tag + 1) /\ end # 0
  BY <1>1 DEF ElementEnd, HiddenClosed
<1>6. end \in Nat /\ end >= tag + 1 /\ end + Len(close) <= Len(s) + 1
  <2>1. s \in Seq(Unit) /\ close \in Seq(Unit) /\ tag + 1 \in Nat
    BY <1>3, <1>4 DEF Texts
  <2> QED
    BY <1>3, <1>5, <2>1, FindIsFirst
<1>7. end > i
  BY <1>3, <1>4, <1>6
<1>8. PastElement(s, i) = end + Len(close)
  BY <1>1, <1>5 DEF PastElement
<1> QED
  BY <1>1, <1>2, <1>3, <1>5, <1>6, <1>7, <1>8

(* The element, and what comes after it, is the same if the text goes on,  *)
(* and further right if there is more before it.                          *)
HiddenOnLeft(a, b, i) ==
  /\ EndOfTag(a \o b, i) = EndOfTag(a, i) /\ Closing(a \o b, i) = Closing(a, i)
  /\ ElementEnd(a \o b, i) = ElementEnd(a, i)
  /\ PastElement(a \o b, i) = PastElement(a, i)

LEMMA EndOnLeft ==
  ASSUME NEW a \in Texts, Whole(a), HiddenClosed(a), NEW b \in Texts,
         NEW i \in 1..Len(a), Hides(a, i)
  PROVE  HiddenOnLeft(a, b, i)
<1>1. PICK tag, close, end : tag = EndOfTag(a, i) /\ close = Closing(a, i) /\ end = ElementEnd(a, i)
  OBVIOUS
<1>2. /\ tag # 0 /\ tag \in i..Len(a) /\ close \in Texts /\ Len(close) > 0 /\ end # 0
      /\ PastElement(a, i) = end + Len(close)
  BY <1>1, HiddenIs
<1>3. Len(a) \in Nat /\ i \in Nat /\ tag + 1 \in Nat
  BY <1>2, LenProperties DEF Texts
<1>4. EndOfTag(a \o b, i) = tag
  BY <1>1, <1>2, <1>3, TagOnLeft
<1>5. Closing(a \o b, i) = close
  BY <1>1, <1>2, ClosingOnLeft
<1>6. ElementEnd(a \o b, i) = Find(a \o b, close, tag + 1) /\ end = Find(a, close, tag + 1)
  BY <1>1, <1>4, <1>5 DEF ElementEnd
<1>7. Find(a \o b, close, tag + 1) = end
  <2>1. a \in Seq(Unit) /\ b \in Seq(Unit) /\ close \in Seq(Unit) /\ Find(a, close, tag + 1) # 0
    BY <1>2, <1>6 DEF Texts
  <2> QED
    BY <1>2, <1>3, <1>6, <2>1, FindOnLeft
<1>8. PastElement(a \o b, i) = end + Len(close)
  BY <1>2, <1>4, <1>5, <1>7 DEF PastElement
<1> QED
  BY <1>1, <1>2, <1>4, <1>5, <1>6, <1>7, <1>8 DEF HiddenOnLeft

HiddenOnRight(a, b, i) ==
  /\ EndOfTag(a \o b, Len(a) + i) = Len(a) + EndOfTag(b, i)
  /\ Closing(a \o b, Len(a) + i) = Closing(b, i)
  /\ ElementEnd(a \o b, Len(a) + i) = Len(a) + ElementEnd(b, i)
  /\ PastElement(a \o b, Len(a) + i) = Len(a) + PastElement(b, i)

LEMMA EndOnRight ==
  ASSUME NEW a \in Texts, NEW b \in Texts, Whole(b), HiddenClosed(b),
         NEW i \in 1..Len(b), Hides(b, i)
  PROVE  HiddenOnRight(a, b, i)
<1>1. PICK c, d, j : c = a \o b /\ d = Len(a) /\ j = d + i
  OBVIOUS
<1>2. PICK tag, close, end : tag = EndOfTag(b, i) /\ close = Closing(b, i) /\ end = ElementEnd(b, i)
  OBVIOUS
<1>3. /\ tag # 0 /\ tag \in i..Len(b) /\ close \in Texts /\ Len(close) > 0 /\ Len(close) \in Nat
      /\ end # 0 /\ end \in Nat
      /\ PastElement(b, i) = end + Len(close)
  BY <1>2, HiddenIs
<1>4. d \in Nat /\ Len(b) \in Nat /\ i \in Nat /\ i >= 1
  BY <1>1, LenProperties DEF Texts
<1>5. tag \in Nat /\ tag + 1 \in Nat /\ tag + 1 >= 1 /\ (d + tag) + 1 = d + (tag + 1)
  BY <1>3, <1>4
<1>6. EndOfTag(c, j) = d + tag
  <2>1. EndOfTag(a \o b, Len(a) + i) = Shifted(Len(a), EndOfTag(b, i))
    BY <1>4, TagOnRight
  <2> QED
    BY <1>1, <1>2, <1>3, <2>1 DEF Shifted
<1>7. Closing(c, j) = close
  <2>1. Closing(a \o b, Len(a) + i) = Closing(b, i)
    BY <1>2, <1>3, ClosingOnRight
  <2> QED
    BY <1>1, <1>2, <2>1
<1>8. ElementEnd(c, j) = Find(c, close, d + (tag + 1)) /\ end = Find(b, close, tag + 1)
  BY <1>2, <1>5, <1>6, <1>7 DEF ElementEnd
<1>9. Find(c, close, d + (tag + 1)) = d + end
  <2>1. a \in Seq(Unit) /\ b \in Seq(Unit) /\ close \in Seq(Unit)
    BY <1>3 DEF Texts
  <2>2. Find(a \o b, close, Len(a) + (tag + 1)) = Shifted(Len(a), Find(b, close, tag + 1))
    BY <1>3, <1>5, <2>1, FindOnRight
  <2> QED
    BY <1>1, <1>3, <1>8, <2>2 DEF Shifted
<1>10. d + end # 0 /\ (d + end) + Len(close) = d + (end + Len(close))
  BY <1>3, <1>4
<1>11. PastElement(c, j) = d + (end + Len(close))
  BY <1>5, <1>6, <1>7, <1>9, <1>10 DEF PastElement
<1> QED
  BY <1>1, <1>2, <1>3, <1>6, <1>7, <1>8, <1>9, <1>11 DEF HiddenOnRight

(* Each hidden element is closed in its own text.                          *)
LEMMA HiddenClosedJoins ==
  ASSUME NEW a \in Texts, Whole(a), HiddenClosed(a), NEW b \in Texts, Whole(b), HiddenClosed(b)
  PROVE  HiddenClosed(a \o b)
<1>1. PICK c : c = a \o b
  OBVIOUS
<1>2. c \in Texts /\ Len(a) \in Nat /\ Len(b) \in Nat /\ Len(c) = Len(a) + Len(b)
  BY <1>1, JoinIs
<1>3. ASSUME NEW i \in 1..Len(c), Hides(c, i)
      PROVE  ElementEnd(c, i) # 0
  <2>1. CASE i <= Len(a)
    <3>1. i \in 1..Len(a)
      BY <1>2, <2>1
    <3>2. Hides(a, i)
      BY <1>1, <1>3, <3>1, HidesOnLeft
    <3>3. ElementEnd(c, i) = ElementEnd(a, i) /\ ElementEnd(a, i) # 0
      BY <1>1, <3>1, <3>2, EndOnLeft, HiddenIs DEF HiddenOnLeft
    <3> QED
      BY <3>3
  <2>2. CASE i > Len(a)
    <3>1. PICK k : k = i - Len(a)
      OBVIOUS
    <3>2. k \in 1..Len(b) /\ i = Len(a) + k
      BY <1>2, <2>2, <3>1
    <3>3. Hides(a \o b, Len(a) + k)
      BY <1>1, <1>3, <3>2
    <3>4. Hides(b, k)
      BY <3>2, <3>3, HidesOnRight
    <3>5. HiddenOnRight(a, b, k)
      BY <3>2, <3>4, EndOnRight
    <3>6. ElementEnd(c, i) = Len(a) + ElementEnd(b, k)
      BY <1>1, <3>2, <3>5 DEF HiddenOnRight
    <3>7. ElementEnd(b, k) \in Nat /\ ElementEnd(b, k) # 0
      BY <3>2, <3>4, HiddenIs
    <3> QED
      BY <1>2, <3>6, <3>7
  <2> QED
    BY <1>2, <2>1, <2>2
<1> QED
  BY <1>1, <1>3 DEF HiddenClosed, ElementEnd

-----------------------------------------------------------------------------
(* Elements: the pass is a walk, as it looks at every place.               *)

(* What the pass puts out at a place, and where it goes on.                *)
Shows(s) ==
  [i \in 1..(Len(s) + 1) |-> IF i > Len(s) \/ Hides(s, i) THEN <<>> ELSE <<s[i]>>]

Onward(s) ==
  [i \in 1..(Len(s) + 1) |->
     IF i > Len(s) THEN 0 ELSE IF Hides(s, i) THEN PastElement(s, i) ELSE i + 1]

LEMMA ElementsIsWalk ==
  ASSUME NEW s \in Texts, HiddenClosed(s)
  PROVE  /\ Walks(Len(s) + 1, Shows(s), Onward(s))
         /\ \E f : /\ Walk(f, Len(s) + 1, Shows(s), Onward(s))
                   /\ strip_elements_with_style(s) = f[1]
<1>1. PICK n, put, next : n = Len(s) + 1 /\ put = Shows(s) /\ next = Onward(s)
  OBVIOUS
<1>2. Len(s) \in Nat /\ n \in Nat
  BY <1>1, LenProperties DEF Texts
<1>3. ASSUME NEW i \in 1..n
      PROVE  /\ put[i] = (IF i > Len(s) \/ Hides(s, i) THEN <<>> ELSE <<s[i]>>)
             /\ next[i] = (IF i > Len(s) THEN 0
                           ELSE IF Hides(s, i) THEN PastElement(s, i) ELSE i + 1)
  BY <1>1 DEF Shows, Onward
<1>4. ASSUME NEW i \in 1..n, ~(i > Len(s)), Hides(s, i)
      PROVE  PastElement(s, i) \in 1..n /\ PastElement(s, i) > i
  <2>1. i \in 1..Len(s) /\ i \in Nat
    BY <1>2, <1>4
  <2>2. PICK end, m : end = ElementEnd(s, i) /\ m = Len(Closing(s, i))
    OBVIOUS
  <2>3. end \in Nat /\ end > i /\ m \in Nat /\ m > 0 /\ end + m <= Len(s) + 1
        /\ PastElement(s, i) = end + m
    BY <1>4, <2>1, <2>2, HiddenIs
  <2> QED
    BY <1>1, <1>2, <2>1, <2>3
<1>5. ASSUME NEW i \in 1..n
      PROVE  put[i] \in Texts /\ next[i] \in 0..n /\ (next[i] = 0 \/ next[i] > i)
  <2>1. CASE i > Len(s)
    <3>1. put[i] = <<>> /\ next[i] = 0
      BY <1>3, <2>1
    <3>2. <<>> \in Texts
      BY EmptySeq DEF Texts
    <3>3. 0 \in 0..n
      BY <1>2
    <3> QED
      BY <3>1, <3>2, <3>3
  <2>2. CASE ~(i > Len(s)) /\ Hides(s, i)
    <3>1. put[i] = <<>> /\ next[i] = PastElement(s, i)
      BY <1>3, <2>2
    <3>2. PastElement(s, i) \in 1..n /\ PastElement(s, i) > i
      BY <1>4, <2>2
    <3>3. <<>> \in Texts
      BY EmptySeq DEF Texts
    <3>4. next[i] \in 0..n
      BY <1>2, <3>1, <3>2
    <3> QED
      BY <3>1, <3>2, <3>3, <3>4
  <2>3. CASE ~(i > Len(s)) /\ ~Hides(s, i)
    <3>1. put[i] = <<s[i]>> /\ next[i] = i + 1
      BY <1>3, <2>3
    <3>2. i \in 1..Len(s) /\ i + 1 \in 0..n /\ i + 1 > i
      BY <1>1, <1>2, <2>3
    <3>3. <<s[i]>> \in Texts
      <4>1. s[i] \in Unit
        BY <3>2, ElementOfSeq DEF Texts
      <4> QED
        BY <4>1, OneUnit
    <3> QED
      BY <3>1, <3>2, <3>3
  <2> QED
    BY <2>1, <2>2, <2>3
<1>6. Walks(n, put, next)
  <2>1. put = [i \in 1..n |-> put[i]] /\ next = [i \in 1..n |-> next[i]]
    BY <1>1 DEF Shows, Onward
  <2>2. put \in [1..n -> Texts] /\ next \in [1..n -> 0..n]
    BY <1>5, <2>1
  <2> QED
    BY <1>2, <1>5, <2>2 DEF Walks
<1>7. PICK f \in [1..n -> Texts] :
        /\ strip_elements_with_style(s) = f[1]
        /\ \A i \in 1..n : f[i] = CASE i > Len(s) -> <<>>
                                    [] Hides(s, i) -> f[PastElement(s, i)]
                                    [] OTHER -> <<s[i]>> \o f[i + 1]
  BY <1>1, ElementsIs
<1>8. ASSUME NEW i \in 1..n
      PROVE  f[i] = IF next[i] = 0 THEN put[i] ELSE put[i] \o f[next[i]]
  <2>1. CASE i > Len(s)
    <3>1. put[i] = <<>> /\ next[i] = 0
      BY <1>3, <2>1
    <3>2. ~Hides(s, i)
      BY <1>2, <2>1 DEF Hides
    <3> QED
      BY <1>7, <2>1, <3>1, <3>2
  <2>2. CASE ~(i > Len(s)) /\ Hides(s, i)
    <3>1. PICK j : j = PastElement(s, i)
      OBVIOUS
    <3>2. put[i] = <<>> /\ next[i] = j
      BY <1>3, <2>2, <3>1
    <3>3. j \in 1..n /\ j # 0
      BY <1>2, <1>4, <2>2, <3>1
    <3>4. f[i] = f[j] /\ f[j] \in Texts
      BY <1>7, <2>2, <3>1, <3>3
    <3>5. <<>> \o f[j] = f[j]
      BY <3>4, ConcatEmptySeq DEF Texts
    <3> QED
      BY <3>2, <3>3, <3>4, <3>5
  <2>3. CASE ~(i > Len(s)) /\ ~Hides(s, i)
    <3>1. put[i] = <<s[i]>> /\ next[i] = i + 1 /\ i + 1 # 0
      <4>1. put[i] = <<s[i]>> /\ next[i] = i + 1
        BY <1>3, <2>3
      <4>2. i + 1 # 0
        BY <1>2
      <4> QED
        BY <4>1, <4>2
    <3>2. f[i] = <<s[i]>> \o f[i + 1]
      BY <1>7, <2>3
    <3> QED
      BY <3>1, <3>2
  <2> QED
    BY <2>1, <2>2, <2>3
<1>9. Walk(f, n, put, next)
  <2>1. f = [i \in 1..n |-> f[i]]
    OBVIOUS
  <2> QED
    BY <1>8, <2>1 DEF Walk
<1> QED
  BY <1>1, <1>6, <1>7, <1>9

(* Hidden elements of two texts are those of each.                         *)
LEMMA ElementsJoin ==
  ASSUME NEW a \in Texts, Whole(a), HiddenClosed(a),
         NEW b \in Texts, Whole(b), HiddenClosed(b)
  PROVE  strip_elements_with_style(a \o b)
           = strip_elements_with_style(a) \o strip_elements_with_style(b)
<1>1. PICK c, m, n : c = a \o b /\ m = Len(a) /\ n = Len(b)
  OBVIOUS
<1>2. /\ c \in Texts /\ m \in Nat /\ n \in Nat /\ Len(c) = m + n
      /\ \A k \in 1..m : c[k] = a[k]
      /\ \A k \in 1..n : c[m + k] = b[k]
  BY <1>1, JoinIs
<1>3. Whole(c) /\ HiddenClosed(c)
  BY <1>1, WholeJoins, HiddenClosedJoins
<1>4. PICK putA, nextA, f :
        /\ putA = Shows(a) /\ nextA = Onward(a) /\ Walks(m + 1, putA, nextA)
        /\ Walk(f, m + 1, putA, nextA) /\ strip_elements_with_style(a) = f[1]
  BY <1>1, ElementsIsWalk
<1>5. PICK putB, nextB, g :
        /\ putB = Shows(b) /\ nextB = Onward(b) /\ Walks(n + 1, putB, nextB)
        /\ Walk(g, n + 1, putB, nextB) /\ strip_elements_with_style(b) = g[1]
  BY <1>1, ElementsIsWalk
<1>6. PICK putC, nextC, h :
        /\ putC = Shows(c) /\ nextC = Onward(c) /\ Walks(m + n + 1, putC, nextC)
        /\ Walk(h, m + n + 1, putC, nextC) /\ strip_elements_with_style(c) = h[1]
  BY <1>2, <1>3, ElementsIsWalk
<1>7. ASSUME NEW j \in 1..(n + 1)
      PROVE  putC[m + j] = putB[j] /\ nextC[m + j] = Shifted(m, nextB[j])
  <2>1. PICK i : i = m + j
    OBVIOUS
  <2>2. i \in 1..(m + n + 1) /\ i \in 1..(Len(c) + 1) /\ j \in 1..(Len(b) + 1)
        /\ (i > Len(c) <=> j > Len(b))
    BY <1>1, <1>2, <2>1
  <2>3. /\ putC[i] = (IF i > Len(c) \/ Hides(c, i) THEN <<>> ELSE <<c[i]>>)
        /\ nextC[i] = (IF i > Len(c) THEN 0
                       ELSE IF Hides(c, i) THEN PastElement(c, i) ELSE i + 1)
    BY <1>6, <2>2 DEF Shows, Onward
  <2>4. /\ putB[j] = (IF j > Len(b) \/ Hides(b, j) THEN <<>> ELSE <<b[j]>>)
        /\ nextB[j] = (IF j > Len(b) THEN 0
                       ELSE IF Hides(b, j) THEN PastElement(b, j) ELSE j + 1)
    BY <1>5, <2>2 DEF Shows, Onward
  <2>5. CASE j > Len(b)
    BY <2>1, <2>2, <2>3, <2>4, <2>5 DEF Shifted
  <2>6. CASE ~(j > Len(b))
    <3>1. j \in 1..n /\ j \in 1..Len(b) /\ c[i] = b[j] /\ j \in Nat /\ i = m + j
      BY <1>1, <1>2, <2>1, <2>6
    <3>2. Hides(c, i) <=> Hides(b, j)
      <4>1. Hides(a \o b, Len(a) + j) <=> Hides(b, j)
        BY <3>1, HidesOnRight
      <4> QED
        BY <1>1, <2>1, <4>1
    <3>3. CASE Hides(b, j)
      <4>1. HiddenOnRight(a, b, j)
        BY <3>1, <3>3, EndOnRight
      <4>2. PastElement(c, i) = m + PastElement(b, j)
        BY <1>1, <2>1, <4>1 DEF HiddenOnRight
      <4>3. PastElement(b, j) # 0
        <5>1. PICK end, k : end = ElementEnd(b, j) /\ k = Len(Closing(b, j))
          OBVIOUS
        <5>2. end \in Nat /\ k \in Nat /\ k > 0 /\ PastElement(b, j) = end + k
          BY <3>1, <3>3, <5>1, HiddenIs
        <5>3. end + k # 0
          BY <5>2
        <5> QED
          BY <5>2, <5>3
      <4> QED
        BY <2>1, <2>2, <2>3, <2>4, <2>6, <3>2, <3>3, <4>2, <4>3 DEF Shifted
    <3>4. CASE ~Hides(b, j)
      <4>1. i + 1 = m + (j + 1) /\ j + 1 # 0
        BY <1>2, <3>1
      <4> QED
        BY <2>1, <2>2, <2>3, <2>4, <2>6, <3>1, <3>2, <3>4, <4>1 DEF Shifted
    <3> QED
      BY <3>3, <3>4
  <2> QED
    BY <2>5, <2>6
<1>8. ASSUME NEW i \in 1..m
      PROVE  nextA[i] # 0 /\ putC[i] = putA[i] /\ nextC[i] = nextA[i]
  <2>1. /\ i \in 1..Len(a) /\ i \in 1..(Len(a) + 1) /\ i \in 1..(Len(c) + 1) /\ c[i] = a[i]
        /\ ~(i > Len(a)) /\ ~(i > Len(c)) /\ i \in Nat
    BY <1>1, <1>2
  <2>2. /\ putC[i] = (IF Hides(c, i) THEN <<>> ELSE <<c[i]>>)
        /\ nextC[i] = (IF Hides(c, i) THEN PastElement(c, i) ELSE i + 1)
    BY <1>6, <2>1 DEF Shows, Onward
  <2>3. /\ putA[i] = (IF Hides(a, i) THEN <<>> ELSE <<a[i]>>)
        /\ nextA[i] = (IF Hides(a, i) THEN PastElement(a, i) ELSE i + 1)
    BY <1>4, <2>1 DEF Shows, Onward
  <2>4. Hides(c, i) <=> Hides(a, i)
    BY <1>1, <2>1, HidesOnLeft
  <2>5. CASE Hides(a, i)
    <3>1. PastElement(c, i) = PastElement(a, i)
      BY <1>1, <2>1, <2>5, EndOnLeft DEF HiddenOnLeft
    <3>2. PastElement(a, i) # 0
      <4>1. PICK end, k : end = ElementEnd(a, i) /\ k = Len(Closing(a, i))
        OBVIOUS
      <4>2. end \in Nat /\ k \in Nat /\ k > 0 /\ PastElement(a, i) = end + k
        BY <2>1, <2>5, <4>1, HiddenIs
      <4>3. end + k # 0
        BY <4>2
      <4> QED
        BY <4>2, <4>3
    <3> QED
      BY <2>2, <2>3, <2>4, <2>5, <3>1, <3>2
  <2>6. CASE ~Hides(a, i)
    <3>1. i + 1 # 0
      BY <2>1
    <3> QED
      BY <2>1, <2>2, <2>3, <2>4, <2>6, <3>1
  <2> QED
    BY <2>5, <2>6
<1>9. /\ nextA[m + 1] = 0 /\ putC[m + 1] = putA[m + 1] \o putB[1]
      /\ nextC[m + 1] = Shifted(m, nextB[1])
  <2>1. m + 1 \in 1..(Len(a) + 1) /\ m + 1 > Len(a) /\ 1 \in 1..(n + 1)
    BY <1>1, <1>2
  <2>2. nextA[m + 1] = 0 /\ putA[m + 1] = <<>>
    BY <1>4, <2>1 DEF Shows, Onward
  <2>3. putB[1] \in Texts
    BY <1>5, <2>1 DEF Walks
  <2>4. <<>> \o putB[1] = putB[1]
    BY <2>3, ConcatEmptySeq DEF Texts
  <2> QED
    BY <1>7, <2>1, <2>2, <2>4
<1>10. Meets(m, n, putA, nextA, putB, nextB, putC, nextC)
  <2>1. ASSUME NEW i \in 1..(m + 1)
        PROVE  IF nextA[i] # 0 THEN putC[i] = putA[i] /\ nextC[i] = nextA[i]
               ELSE putC[i] = putA[i] \o putB[1] /\ nextC[i] = Shifted(m, nextB[1])
    <3>1. CASE i = m + 1
      BY <1>9, <3>1
    <3>2. CASE i # m + 1
      <4>1. i \in 1..m
        BY <1>2, <3>2
      <4> QED
        BY <1>8, <4>1
    <3> QED
      BY <3>1, <3>2
  <2> QED
    BY <1>7, <2>1 DEF Meets
<1>11. Joined(m, n, f, putA, nextA, g, putB, nextB, h, putC, nextC)
  BY <1>2, <1>4, <1>5, <1>6, <1>10 DEF Joined
<1>12. Ends(h, f, g)
  BY <1>11, WalksJoin
<1> QED
  BY <1>1, <1>4, <1>5, <1>6, <1>12 DEF Ends

-----------------------------------------------------------------------------
(* The passes one after the other.                                         *)

(* A text after each of the passes.                                        *)
Uncommented(t) == strip_html_comments(t)
Unstyled(t) == strip_tag_pair(Uncommented(t), "style")
Unhidden(t) == strip_elements_with_style(Unstyled(t))
Unscripted(t) == strip_script_tags(Unhidden(t))
Visible(t) == strip_invisible_text(strip_suspicious_meta_tags(Unscripted(t)))
Unclosing(t) == replace(Visible(t), CloseTag, Escaped(CloseTag))

(* What each pass needs of the texts it is given.                          *)
Plain(s) == s \in Texts /\ Whole(s)

CommentOpen == <<"<", "!", "--">>
CommentClose == <<"--", ">">>
PairOpen(name) == <<"<", name>>
PairClose(name) == <<"<", "/", name, ">">>

CompleteInSteps(t) ==
  /\ Plain(t) /\ Closed(t, CommentOpen, CommentClose)
  /\ Plain(Uncommented(t)) /\ Narrow(Uncommented(t))
  /\ Closed(Uncommented(t), PairOpen("style"), PairClose("style"))
  /\ Plain(Unstyled(t)) /\ HiddenClosed(Unstyled(t))
  /\ Plain(Unhidden(t)) /\ Closed(Unhidden(t), PairOpen("script"), PairClose("script"))
  /\ Plain(Unscripted(t)) /\ Plain(Visible(t)) /\ Plain(Unclosing(t))

(* The patterns of the passes begin tags.                                  *)
LEMMA CommentPatterns ==
  IsOpening(CommentOpen) /\ CommentClose \in Texts /\ Len(CommentClose) > 0
<1>1. PICK open, close : open = <<"<", "!", "--">> /\ close = <<"--", ">">>
  OBVIOUS
<1>2. open \in Texts /\ Len(open) = 3 /\ open[1] = "<" /\ open[2] = "!"
  BY <1>1, OwnUnits, ThreeUnits
<1>3. close \in Texts /\ Len(close) = 2
  BY <1>1, OwnUnits, TwoUnits
<1>4. open[2] # ">" /\ open[1] # ">"
  <2>1. "!" # ">" /\ "<" # ">"
    BY Zenon
  <2> QED
    BY <1>2, <2>1, Zenon
<1>5. \A k \in 1..(3 - 1) : k = 1 \/ k = 2
  OBVIOUS
<1>6. \A k \in 1..(Len(open) - 1) : open[k] # ">"
  <2>1. Len(open) = 3
    BY <1>2
  <2> QED
    BY <1>4, <1>5, <2>1
<1>7. Len(open) > 0 /\ Len(close) > 0
  <2>1. Len(open) = 3 /\ Len(close) = 2
    BY <1>2, <1>3
  <2> QED
    BY <2>1
<1>8. open = CommentOpen /\ close = CommentClose
  BY <1>1 DEF CommentOpen, CommentClose
<1>9. open \in Texts /\ open[1] = "<" /\ close \in Texts
  BY <1>2, <1>3, Zenon
<1> QED
  BY <1>6, <1>7, <1>8, <1>9 DEF IsOpening

LEMMA PairPatterns ==
  ASSUME NEW name \in Unit
  PROVE  IsOpening(PairOpen(name)) /\ PairClose(name) \in Texts /\ Len(PairClose(name)) > 0
<1>1. PICK open, close : open = <<"<", name>> /\ close = <<"<", "/", name, ">">>
  OBVIOUS
<1>2. open \in Texts /\ Len(open) = 2 /\ open[1] = "<"
  BY <1>1, OwnUnits, TwoUnits
<1>3. close \in Texts /\ Len(close) = 4
  BY <1>1, OwnUnits, FourUnits
<1>4. \A k \in 1..(2 - 1) : k = 1
  OBVIOUS
<1>5. Len(open) > 0 /\ Len(close) > 0 /\ \A k \in 1..(Len(open) - 1) : open[k] # ">"
  BY <1>2, <1>3, <1>4
<1>6. open = PairOpen(name) /\ close = PairClose(name)
  BY <1>1 DEF PairOpen, PairClose
<1> QED
  BY <1>2, <1>3, <1>5, <1>6 DEF IsOpening

LEMMA TagPatterns ==
  /\ IsOpening(OpenTag) /\ Escaped(OpenTag) \in Texts
  /\ IsOpening(CloseTag) /\ Escaped(CloseTag) \in Texts
<1>1. /\ OpenTag \in Texts /\ CloseTag \in Texts
      /\ Escaped(OpenTag) \in Texts /\ Escaped(CloseTag) \in Texts
  BY OpenIsTag, CloseIsTag DEF IsTag, IsEscape
<1>2. IsOpening(OpenTag)
  <2>1. \A k \in 1..(4 - 1) : k = 1 \/ k = 2 \/ k = 3
    OBVIOUS
  <2>2. \A k \in 1..(Len(OpenTag) - 1) : OpenTag[k] # ">"
    BY <2>1, OpenIsTag
  <2> QED
    BY <1>1, <2>2, OpenIsTag DEF IsOpening
<1>3. IsOpening(CloseTag)
  <2>1. \A k \in 1..(5 - 1) : k = 1 \/ k = 2 \/ k = 3 \/ k = 4
    OBVIOUS
  <2>2. \A k \in 1..(Len(CloseTag) - 1) : CloseTag[k] # ">"
    BY <2>1, CloseIsTag
  <2> QED
    BY <1>1, <2>2, CloseIsTag DEF IsOpening
<1> QED
  BY <1>1, <1>2, <1>3

(* The passes leave texts.                                                 *)
LEMMA CommentsIsText ==
  ASSUME NEW s \in Texts
  PROVE  strip_html_comments(s) \in Texts
<1>1. Cut(s, CommentOpen, CommentClose) \in Texts
  BY CommentPatterns, CutIsText DEF IsOpening
<1> QED
  BY <1>1 DEF strip_html_comments, CommentOpen, CommentClose

LEMMA PairIsText ==
  ASSUME NEW s \in Texts, NEW name \in Unit
  PROVE  strip_tag_pair(s, name) \in Texts
<1>1. Cut(s, PairOpen(name), PairClose(name)) \in Texts
  BY PairPatterns, CutIsText DEF IsOpening
<1> QED
  BY <1>1 DEF strip_tag_pair, PairOpen, PairClose

LEMMA EscapeIsText ==
  ASSUME NEW s \in Texts
  PROVE  /\ replace(s, CloseTag, Escaped(CloseTag)) \in Texts
         /\ replace(s, OpenTag, Escaped(OpenTag)) \in Texts
<1>1. ASSUME NEW p, IsOpening(p), NEW by \in Texts
      PROVE  replace(s, p, by) \in Texts
  <2>1. p \in Texts /\ Len(p) > 0 /\ Len(s) \in Nat
    <3>1. Len(s) \in Nat
      BY LenProperties DEF Texts
    <3> QED
      BY <1>1, <3>1 DEF IsOpening
  <2>2. \E f \in [1..(Len(s) + 1) -> Texts] : Replacing(f, s, p, by) /\ replace(s, p, by) = f[1]
    BY <2>1, ReplaceIsText
  <2>3. 1 \in 1..(Len(s) + 1)
    BY <2>1
  <2> QED
    BY <2>2, <2>3
<1> QED
  BY <1>1, TagPatterns

LEMMA StepsAreTexts ==
  ASSUME NEW t \in Texts
  PROVE  /\ Uncommented(t) \in Texts /\ Unstyled(t) \in Texts /\ Unhidden(t) \in Texts
         /\ Unscripted(t) \in Texts /\ strip_suspicious_meta_tags(Unscripted(t)) \in Texts
         /\ Visible(t) \in Texts /\ Unclosing(t) \in Texts
         /\ Cleaned(t) = replace(Unclosing(t), OpenTag, Escaped(OpenTag))
         /\ Cleaned(t) \in Texts
<1>1. "style" \in Unit /\ "script" \in Unit
  BY OwnUnits, Zenon
<1>2. Uncommented(t) \in Texts
  BY CommentsIsText DEF Uncommented
<1>3. Unstyled(t) \in Texts
  BY <1>1, <1>2, PairIsText DEF Unstyled
<1>4. Unhidden(t) \in Texts
  BY <1>3, ElementsIsText DEF Unhidden
<1>5. Unscripted(t) \in Texts
  BY <1>1, <1>4, PairIsText DEF Unscripted, strip_script_tags
<1>6. strip_suspicious_meta_tags(Unscripted(t)) \in Texts
  BY <1>5, MetaIsText
<1>7. Visible(t) \in Texts
  BY <1>6, InvisibleIsText DEF Visible
<1>8. Unclosing(t) \in Texts
  BY <1>7, EscapeIsText DEF Unclosing
<1>9. Cleaned(t) = replace(Unclosing(t), OpenTag, Escaped(OpenTag))
  BY DEF Cleaned, escape_data_boundary_tags, Unclosing, Visible, Stripped, Unscripted, Unhidden,
         strip_style_hidden_elements, Unstyled, Uncommented
<1> QED
  BY <1>2, <1>3, <1>4, <1>5, <1>6, <1>7, <1>8, <1>9, EscapeIsText

(* Complete says it of all of the steps at once.                           *)
LEMMA CompleteIs ==
  ASSUME NEW t \in Texts
  PROVE  Complete(t) <=> CompleteInSteps(t)
<1>1. Complete(t) <=>
        /\ \A s \in {t, Uncommented(t), Unstyled(t), Unhidden(t), Unscripted(t), Visible(t),
                     Unclosing(t)} : Whole(s)
        /\ Narrow(Uncommented(t))
        /\ Closed(t, CommentOpen, CommentClose)
        /\ Closed(Uncommented(t), PairOpen("style"), PairClose("style"))
        /\ HiddenClosed(Unstyled(t))
        /\ Closed(Unhidden(t), PairOpen("script"), PairClose("script"))
  BY Zenon DEF Complete, Unclosing, Visible, Unscripted, Unhidden, Unstyled, Uncommented,
         CommentOpen, CommentClose, PairOpen, PairClose
<1> QED
  BY <1>1, StepsAreTexts DEF CompleteInSteps, Plain

-----------------------------------------------------------------------------
(* Complete texts are cleaned one by one.                                  *)

(* The passes with what they look for.                                     *)
LEMMA CommentsJoin ==
  ASSUME NEW a, Plain(a), NEW b, Plain(b),
         Closed(a, CommentOpen, CommentClose), Closed(b, CommentOpen, CommentClose)
  PROVE  /\ strip_html_comments(a \o b) = strip_html_comments(a) \o strip_html_comments(b)
         /\ Closed(a \o b, CommentOpen, CommentClose)
<1>1. /\ Cut(a \o b, CommentOpen, CommentClose)
           = Cut(a, CommentOpen, CommentClose) \o Cut(b, CommentOpen, CommentClose)
      /\ Closed(a \o b, CommentOpen, CommentClose)
  BY CommentPatterns, CutJoins DEF Plain
<1> QED
  BY <1>1 DEF strip_html_comments, CommentOpen, CommentClose

LEMMA PlainJoins ==
  ASSUME NEW a, Plain(a), NEW b, Plain(b)
  PROVE  Plain(a \o b)
<1>1. a \o b \in Texts
  BY JoinIsText DEF Plain
<1> QED
  BY <1>1, WholeJoins DEF Plain

LEMMA PairsJoin ==
  ASSUME NEW a, Plain(a), NEW b, Plain(b), NEW name \in Unit,
         Closed(a, PairOpen(name), PairClose(name)), Closed(b, PairOpen(name), PairClose(name))
  PROVE  /\ strip_tag_pair(a \o b, name) = strip_tag_pair(a, name) \o strip_tag_pair(b, name)
         /\ Closed(a \o b, PairOpen(name), PairClose(name))
<1>1. PICK open, close : open = PairOpen(name) /\ close = PairClose(name)
  OBVIOUS
<1>2. /\ Cut(a \o b, open, close) = Cut(a, open, close) \o Cut(b, open, close)
      /\ Closed(a \o b, open, close)
  <2>1. IsOpening(open) /\ close \in Texts /\ Len(close) > 0
    BY <1>1, PairPatterns
  <2>2. a \in Texts /\ Whole(a) /\ b \in Texts /\ Closed(a, open, close) /\ Closed(b, open, close)
    BY <1>1 DEF Plain
  <2> QED
    BY <2>1, <2>2, CutJoins
<1>3. ASSUME NEW s, Plain(s)
      PROVE  strip_tag_pair(s, name) = Cut(s, open, close)
  BY <1>1 DEF strip_tag_pair, PairOpen, PairClose
<1>4. Plain(a \o b)
  BY PlainJoins
<1> QED
  BY <1>1, <1>2, <1>3, <1>4

(* Pass by pass: what one needs of two texts, the one before it left.      *)
LEMMA CompleteJoins ==
  ASSUME NEW a \in Texts, Complete(a), NEW b \in Texts, Complete(b)
  PROVE  Complete(a \o b) /\ Cleaned(a \o b) = Cleaned(a) \o Cleaned(b)
<1>1. PICK c : c = a \o b
  OBVIOUS
<1>2. c \in Texts /\ CompleteInSteps(a) /\ CompleteInSteps(b)
  BY <1>1, JoinIsText, CompleteIs
<1>3. Plain(c) /\ Closed(c, CommentOpen, CommentClose)
      /\ Uncommented(c) = Uncommented(a) \o Uncommented(b)
  BY <1>1, <1>2, PlainJoins, CommentsJoin DEF CompleteInSteps, Uncommented
<1>4. "style" \in Unit /\ "script" \in Unit
  BY OwnUnits, Zenon
<1>5. /\ Plain(Uncommented(c)) /\ Narrow(Uncommented(c))
      /\ Closed(Uncommented(c), PairOpen("style"), PairClose("style"))
      /\ Unstyled(c) = Unstyled(a) \o Unstyled(b)
  <2>1. PICK u, v : u = Uncommented(a) /\ v = Uncommented(b)
    OBVIOUS
  <2>2. /\ Plain(u) /\ Narrow(u) /\ Closed(u, PairOpen("style"), PairClose("style"))
        /\ Plain(v) /\ Narrow(v) /\ Closed(v, PairOpen("style"), PairClose("style"))
    BY <1>2, <2>1 DEF CompleteInSteps
  <2>2a. Narrow(u \o v)
    BY <2>2, NarrowJoins DEF Plain
  <2>3. /\ strip_tag_pair(u \o v, "style")
             = strip_tag_pair(u, "style") \o strip_tag_pair(v, "style")
        /\ Closed(u \o v, PairOpen("style"), PairClose("style")) /\ Plain(u \o v)
    <3>1. PICK name : name = "style"
      OBVIOUS
    <3>2. name \in Unit /\ Plain(u) /\ Closed(u, PairOpen(name), PairClose(name))
          /\ Plain(v) /\ Closed(v, PairOpen(name), PairClose(name))
      BY <1>4, <2>2, <3>1
    <3>3. /\ strip_tag_pair(u \o v, name) = strip_tag_pair(u, name) \o strip_tag_pair(v, name)
          /\ Closed(u \o v, PairOpen(name), PairClose(name))
      BY <3>2, PairsJoin
    <3> QED
      BY <2>2, <3>1, <3>3, PlainJoins
  <2> QED
    BY <1>3, <2>1, <2>2a, <2>3 DEF Unstyled
<1>6. /\ Plain(Unstyled(c)) /\ HiddenClosed(Unstyled(c))
      /\ Unhidden(c) = Unhidden(a) \o Unhidden(b)
  <2>1. PICK u, v : u = Unstyled(a) /\ v = Unstyled(b)
    OBVIOUS
  <2>2. Plain(u) /\ HiddenClosed(u) /\ Plain(v) /\ HiddenClosed(v)
    BY <1>2, <2>1 DEF CompleteInSteps
  <2>3. HiddenClosed(u \o v) /\ Plain(u \o v)
    BY <2>2, PlainJoins, HiddenClosedJoins DEF Plain
  <2>4. strip_elements_with_style(u \o v)
          = strip_elements_with_style(u) \o strip_elements_with_style(v)
    BY <2>2, ElementsJoin DEF Plain
  <2> QED
    BY <1>5, <2>1, <2>3, <2>4 DEF Unhidden
<1>7. /\ Plain(Unhidden(c))
      /\ Closed(Unhidden(c), PairOpen("script"), PairClose("script"))
      /\ Unscripted(c) = Unscripted(a) \o Unscripted(b)
  <2>1. PICK u, v : u = Unhidden(a) /\ v = Unhidden(b)
    OBVIOUS
  <2>2. /\ Plain(u) /\ Closed(u, PairOpen("script"), PairClose("script"))
        /\ Plain(v) /\ Closed(v, PairOpen("script"), PairClose("script"))
    BY <1>2, <2>1 DEF CompleteInSteps
  <2>3. /\ strip_tag_pair(u \o v, "script")
             = strip_tag_pair(u, "script") \o strip_tag_pair(v, "script")
        /\ Closed(u \o v, PairOpen("script"), PairClose("script")) /\ Plain(u \o v)
    <3>1. PICK name : name = "script"
      OBVIOUS
    <3>2. name \in Unit /\ Plain(u) /\ Closed(u, PairOpen(name), PairClose(name))
          /\ Plain(v) /\ Closed(v, PairOpen(name), PairClose(name))
      BY <1>4, <2>2, <3>1
    <3>3. /\ strip_tag_pair(u \o v, name) = strip_tag_pair(u, name) \o strip_tag_pair(v, name)
          /\ Closed(u \o v, PairOpen(name), PairClose(name))
      BY <3>2, PairsJoin
    <3> QED
      BY <2>2, <3>1, <3>3, PlainJoins
  <2> QED
    BY <1>6, <2>1, <2>3 DEF Unscripted, strip_script_tags
<1>8. Plain(Unscripted(c)) /\ Visible(c) = Visible(a) \o Visible(b)
  <2>1. PICK u, v : u = Unscripted(a) /\ v = Unscripted(b)
    OBVIOUS
  <2>2. Plain(u) /\ Plain(v)
    BY <1>2, <2>1 DEF CompleteInSteps
  <2>3. PICK x, y : x = strip_suspicious_meta_tags(u) /\ y = strip_suspicious_meta_tags(v)
    OBVIOUS
  <2>4. strip_suspicious_meta_tags(u \o v) = x \o y /\ Plain(u \o v)
    BY <2>2, <2>3, MetaJoins, PlainJoins DEF Plain
  <2>5. x \in Texts /\ y \in Texts
    BY <2>2, <2>3, MetaIsText DEF Plain
  <2>6. strip_invisible_text(x \o y) = strip_invisible_text(x) \o strip_invisible_text(y)
    BY <2>5, InvisibleJoins
  <2> QED
    BY <1>7, <2>1, <2>3, <2>4, <2>6 DEF Visible
<1>9. Plain(Visible(c)) /\ Unclosing(c) = Unclosing(a) \o Unclosing(b)
  <2>1. PICK u, v : u = Visible(a) /\ v = Visible(b)
    OBVIOUS
  <2>2. Plain(u) /\ Plain(v)
    BY <1>2, <2>1 DEF CompleteInSteps
  <2>3. replace(u \o v, CloseTag, Escaped(CloseTag))
          = replace(u, CloseTag, Escaped(CloseTag)) \o replace(v, CloseTag, Escaped(CloseTag))
    <3>1. PICK p, by : p = CloseTag /\ by = Escaped(CloseTag)
      OBVIOUS
    <3>2. u \in Texts /\ Whole(u) /\ v \in Texts
      BY <2>2 DEF Plain
    <3>3. IsOpening(p) /\ by \in Texts
      BY <3>1, TagPatterns
    <3>4. Splits(u, v, p, by)
      BY <3>2, <3>3, ReplaceJoins
    <3> QED
      BY <3>1, <3>4 DEF Splits
  <2> QED
    BY <1>8, <2>1, <2>2, <2>3, PlainJoins DEF Unclosing
<1>10. /\ Plain(Unclosing(c))
       /\ Cleaned(c) = Cleaned(a) \o Cleaned(b)
  <2>1. PICK u, v : u = Unclosing(a) /\ v = Unclosing(b)
    OBVIOUS
  <2>2. Plain(u) /\ Plain(v)
    BY <1>2, <2>1 DEF CompleteInSteps
  <2>3. replace(u \o v, OpenTag, Escaped(OpenTag))
          = replace(u, OpenTag, Escaped(OpenTag)) \o replace(v, OpenTag, Escaped(OpenTag))
    <3>1. PICK p, by : p = OpenTag /\ by = Escaped(OpenTag)
      OBVIOUS
    <3>2. u \in Texts /\ Whole(u) /\ v \in Texts
      BY <2>2 DEF Plain
    <3>3. IsOpening(p) /\ by \in Texts
      BY <3>1, TagPatterns
    <3>4. Splits(u, v, p, by)
      BY <3>2, <3>3, ReplaceJoins
    <3> QED
      BY <3>1, <3>4 DEF Splits
  <2>4. /\ Cleaned(a) = replace(u, OpenTag, Escaped(OpenTag))
        /\ Cleaned(b) = replace(v, OpenTag, Escaped(OpenTag))
        /\ Cleaned(c) = replace(u \o v, OpenTag, Escaped(OpenTag))
    BY <1>2, <1>9, <2>1, StepsAreTexts
  <2> QED
    BY <1>9, <2>1, <2>2, <2>3, <2>4, PlainJoins
<1>11. CompleteInSteps(c)
  BY <1>3, <1>5, <1>6, <1>7, <1>8, <1>9, <1>10 DEF CompleteInSteps
<1>12. Complete(c)
  BY <1>2, <1>11, CompleteIs
<1> QED
  BY <1>1, <1>10, <1>12

-----------------------------------------------------------------------------
(* Pages.                                                                  *)

(* A text without markup: no tag begins in it, nothing in it is invisible  *)
(* or longer in lower case.                                                *)
Unmarked(t) == \A i \in 1..Len(t) : t[i] \notin {"<", "wide", "invisible"}

(* No pattern of a pass occurs in it.                                      *)
LEMMA UnmarkedHasNone ==
  ASSUME NEW t \in Texts, Unmarked(t)
  PROVE  /\ Plain(t) /\ Narrow(t) /\ HiddenClosed(t)
         /\ \A open : IsOpening(open) => Occurrences(t, open) = {}
         /\ \A i \in 1..Len(t) : ~Hides(t, i)
<1>1. Whole(t) /\ Narrow(t)
  BY DEF Unmarked, Whole, Narrow
<1>2. \A i \in 1..Len(t) : ~Hides(t, i)
  BY DEF Unmarked, Hides
<1>3. HiddenClosed(t)
  BY <1>2 DEF HiddenClosed
<1>4. ASSUME NEW open, IsOpening(open), NEW j \in Occurrences(t, open)
      PROVE  FALSE
  <2>1. open \in Seq(Unit) /\ t \in Seq(Unit) /\ Len(open) > 0 /\ open[1] = "<"
    BY <1>4 DEF IsOpening, Texts
  <2>2. Len(open) \in Nat /\ Len(t) \in Nat
    BY <2>1, LenProperties
  <2>3. j \in 1..(Len(t) - Len(open) + 1) /\ \A k \in 1..Len(open) : t[j + k - 1] = open[k]
    BY <1>4, <2>1, OccursIs DEF OccursAt
  <2>4. 1 \in 1..Len(open) /\ j + 1 - 1 = j /\ j \in 1..Len(t)
    BY <2>1, <2>2, <2>3
  <2>5. t[j] = "<"
    BY <2>1, <2>3, <2>4
  <2> QED
    BY <2>4, <2>5 DEF Unmarked
<1> QED
  BY <1>1, <1>2, <1>3, <1>4 DEF Plain

(* A pass that finds nothing puts out the whole text.                      *)
LEMMA NothingFound ==
  ASSUME NEW t \in Texts, NEW open, Occurrences(t, open) = {}, NEW mid, NEW after,
         NEW f, Scanning(f, t, open, mid, after)
  PROVE  f[1] = t
<1>1. Len(t) \in Nat /\ 1 \in 1..(Len(t) + 1)
  <2>1. Len(t) \in Nat
    BY LenProperties DEF Texts
  <2> QED
    BY <2>1
<1>2. Find(t, open, 1) = 0
  BY DEF Find
<1>3. f[1] = SubSeq(t, 1, Len(t))
  BY <1>1, <1>2 DEF Scanning
<1> QED
  BY <1>3, SubSeqFull DEF Texts

(* The pass that looks at every place puts out each unit.                  *)
LEMMA NothingHidden ==
  ASSUME NEW t \in Texts, Unmarked(t)
  PROVE  strip_elements_with_style(t) = t
<1>1. PICK l, n : l = Len(t) /\ n = l + 1
  OBVIOUS
<1>2. l \in Nat /\ n \in Nat
  BY <1>1, LenProperties DEF Texts
<1>3. Plain(t) /\ HiddenClosed(t) /\ \A i \in 1..l : ~Hides(t, i)
  BY <1>1, UnmarkedHasNone
<1>4. PICK f : Walk(f, n, Shows(t), Onward(t)) /\ strip_elements_with_style(t) = f[1]
  BY <1>1, <1>3, ElementsIsWalk DEF Plain
<1>5. ASSUME NEW i \in 1..n
      PROVE  f[i] = IF i = n THEN <<>> ELSE <<t[i]>> \o f[i + 1]
  <2>1. f[i] = IF Onward(t)[i] = 0 THEN Shows(t)[i] ELSE Shows(t)[i] \o f[Onward(t)[i]]
    BY <1>4 DEF Walk
  <2>2. CASE i = n
    <3>1. i > l /\ i \in 1..(l + 1)
      BY <1>1, <1>2, <2>2
    <3>2. Onward(t)[i] = 0 /\ Shows(t)[i] = <<>>
      BY <1>1, <3>1 DEF Onward, Shows
    <3> QED
      BY <2>1, <2>2, <3>2
  <2>3. CASE i # n
    <3>1. ~(i > l) /\ i \in 1..l /\ i \in 1..(l + 1) /\ i + 1 # 0
      BY <1>1, <1>2, <2>3
    <3>2. Onward(t)[i] = i + 1 /\ Shows(t)[i] = <<t[i]>>
      BY <1>1, <1>3, <3>1 DEF Onward, Shows
    <3> QED
      BY <2>1, <2>3, <3>1, <3>2
  <2> QED
    BY <2>2, <2>3
<1> DEFINE I == 1..n
           m == [i \in I |-> n - i]
           Good == {i \in I : f[i] = SubSeq(t, i, l)}
<1>6. ASSUME NEW i \in I \ Good
      PROVE  i + 1 \in I \ Good /\ n - (i + 1) < n - i
  <2>1. i \in 1..n /\ i \in Nat /\ f[i] # SubSeq(t, i, l)
    BY <1>2
  <2>2. i # n
    <3> SUFFICES ASSUME i = n
                 PROVE  FALSE
      OBVIOUS
    <3>1. f[i] = <<>>
      BY <1>5, <2>1
    <3>2. SubSeq(t, l + 1, l) = <<>>
      BY <1>2, SubSeqEmpty
    <3> QED
      BY <1>1, <2>1, <3>1, <3>2
  <2>3. i + 1 \in I /\ n - (i + 1) < n - i /\ i \in 1..l /\ l \in i..l
    BY <1>1, <1>2, <2>1, <2>2
  <2>4. SubSeq(t, i, l) = <<t[i]>> \o SubSeq(t, i + 1, l)
    BY <1>1, <2>3, SubSeqRecursiveFirst DEF Texts
  <2>5. f[i] = <<t[i]>> \o f[i + 1]
    BY <1>5, <2>1, <2>2
  <2>6. i + 1 \notin Good
    BY <2>1, <2>4, <2>5
  <2> QED
    BY <2>3, <2>6
<1>7. Good = I
  <2>1. m \in [I -> Nat] /\ Good \in SUBSET I
    BY <1>2
  <2>2. \A i \in I \ Good : \E j \in I \ Good : m[j] < m[i]
    BY <1>6
  <2> HIDE DEF I, m, Good
  <2>3. Descends(I, m, Good)
    BY <2>1, <2>2 DEF Descends
  <2> QED
    BY <2>3, Descent
<1>8. 1 \in I
  BY <1>1, <1>2
<1>9. f[1] = SubSeq(t, 1, l)
  BY <1>7, <1>8
<1> QED
  BY <1>1, <1>4, <1>9, SubSeqFull DEF Texts

(* So no pass changes it.                                                  *)
LEMMA UnmarkedIsShown ==
  ASSUME NEW t \in Texts, Unmarked(t)
  PROVE  Complete(t) /\ Cleaned(t) = t
<1>1. /\ Plain(t) /\ Narrow(t) /\ HiddenClosed(t)
      /\ \A open : IsOpening(open) => Occurrences(t, open) = {}
  BY UnmarkedHasNone
<1>2. "style" \in Unit /\ "script" \in Unit
  BY OwnUnits, Zenon
<1>3. \A open, close : IsOpening(open) => Closed(t, open, close)
  BY <1>1 DEF Closed
<1>4. ASSUME NEW open, IsOpening(open), NEW close \in Texts, Len(close) > 0
      PROVE  Cut(t, open, close) = t
  <2>1. open \in Texts /\ Len(open) > 0 /\ Closed(t, open, close)
    BY <1>3, <1>4 DEF IsOpening
  <2>2. \E f : /\ Scanning(f, t, open, Nothing(t, open), PastClose(t, open, close))
               /\ Cut(t, open, close) = f[1]
    BY <1>4, <2>1, CutIsScan
  <2> QED
    BY <1>1, <1>4, <2>2, NothingFound
<1>5. strip_html_comments(t) = t
  <2>1. Cut(t, CommentOpen, CommentClose) = t
    BY <1>4, CommentPatterns
  <2> QED
    BY <2>1 DEF strip_html_comments, CommentOpen, CommentClose
<1>6. ASSUME NEW name \in Unit
      PROVE  strip_tag_pair(t, name) = t
  <2>1. Cut(t, PairOpen(name), PairClose(name)) = t
    BY <1>4, PairPatterns
  <2> QED
    BY <2>1 DEF strip_tag_pair, PairOpen, PairClose
<1>7. strip_suspicious_meta_tags(t) = t
  <2>1. PICK f : /\ Scanning(f, t, Meta, Kept(t), PastTag(t))
                 /\ strip_suspicious_meta_tags(t) = f[1]
    BY <1>1, MetaIsScan DEF Plain
  <2>2. IsOpening(Meta)
    BY OwnUnits, PairPatterns DEF Meta, PairOpen
  <2> QED
    BY <1>1, <2>1, <2>2, NothingFound
<1>8. strip_invisible_text(t) = t
  <2>1. [i \in 1..Len(t) |-> IF t[i] = "invisible" THEN <<>> ELSE <<t[i]>>]
          = [i \in 1..Len(t) |-> <<t[i]>>]
    BY DEF Unmarked
  <2> QED
    BY <2>1, SinglesAreText DEF strip_invisible_text
<1>9. ASSUME NEW p, IsOpening(p), NEW by \in Texts
      PROVE  replace(t, p, by) = t
  <2>1. p \in Texts /\ Len(p) > 0
    BY <1>9 DEF IsOpening
  <2>2. \E f : /\ Scanning(f, t, p, Instead(t, p, by), PastOpen(t, p))
               /\ replace(t, p, by) = f[1]
    BY <1>9, <2>1, ReplaceIsScan
  <2> QED
    BY <1>1, <1>9, <2>2, NothingFound
<1>10. /\ replace(t, CloseTag, Escaped(CloseTag)) = t
       /\ replace(t, OpenTag, Escaped(OpenTag)) = t
  BY <1>9, TagPatterns
<1>11. Uncommented(t) = t /\ Unstyled(t) = t /\ Unhidden(t) = t /\ Unscripted(t) = t
  BY <1>2, <1>5, <1>6, NothingHidden
     DEF Uncommented, Unstyled, Unhidden, Unscripted, strip_script_tags
<1>12. Visible(t) = t /\ Unclosing(t) = t
  BY <1>7, <1>8, <1>10, <1>11 DEF Visible, Unclosing
<1>13. Cleaned(t) = t
  BY <1>10, <1>12, StepsAreTexts
<1>14. CompleteInSteps(t)
  BY <1>1, <1>2, <1>3, <1>11, <1>12, CommentPatterns, PairPatterns DEF CompleteInSteps
<1> QED
  BY <1>13, <1>14, CompleteIs

LEMMA NothingIsCleaned == Complete(<<>>) /\ Cleaned(<<>>) = <<>>
<1>1. PICK e : e = <<>>
  OBVIOUS
<1>2. e \in Texts /\ Len(e) = 0
  BY <1>1, EmptySeq DEF Texts
<1>3. \A i \in 1..0 : FALSE
  OBVIOUS
<1>4. Unmarked(e)
  BY <1>2, <1>3 DEF Unmarked
<1> QED
  BY <1>1, <1>2, <1>4, UnmarkedIsShown

LEMMA PieceIsText ==
  ASSUME NEW b \in Block
  PROVE  b.text \in Texts
<1>1. b.text \in Seq(ToSet(b.text))
  BY SanitizeAssumption
<1>2. ToSet(b.text) \subseteq Unit
  BY DEF PageUnits, Unit
<1> QED
  BY <1>1, <1>2, SeqMonotonic DEF Texts

(* The places in a complete text and in its lower case agree.              *)
LEMMA CompleteIsSafe ==
  ASSUME NEW t \in Texts, Complete(t)
  PROVE  ~Panics(t)
<1>1. PICK u : u = Uncommented(t)
  OBVIOUS
<1>2. u \in Texts /\ Narrow(u)
  BY <1>1, CompleteIs, StepsAreTexts DEF CompleteInSteps
<1>3. Len(u) \in Nat
  BY <1>2, LenProperties DEF Texts
<1>4. \A i \in 1..(Len(u) - 1) : u[i] # "wide"
  BY <1>2, <1>3 DEF Narrow
<1> QED
  BY <1>1, <1>4 DEF Panics, Uncommented

(* Piece by piece, the page comes to what its pieces come to.              *)
LEMMA PageIsCleaned ==
  ASSUME WellMade(Block), NEW blocks \in Seq(Block)
  PROVE  /\ Text(blocks) \in Texts /\ Cleaned(Text(blocks)) \in Texts
         /\ Cleaned(Text(blocks)) = FlattenSeq([i \in 1..Len(blocks) |-> blocks[i].shown])
         /\ Complete(Text(blocks))
<1>1. PICK n, texts, shown : /\ n = Len(blocks)
                             /\ texts = [i \in 1..n |-> blocks[i].text]
                             /\ shown = [i \in 1..n |-> blocks[i].shown]
  OBVIOUS
<1>2. n \in Nat
  BY <1>1, LenProperties
<1>3. ASSUME NEW i \in 1..n
      PROVE  /\ texts[i] \in Texts /\ Complete(texts[i])
             /\ shown[i] = Cleaned(texts[i]) /\ shown[i] \in Texts
  <2>1. PICK b : b = blocks[i]
    OBVIOUS
  <2>2. b \in Block
    BY <1>1, <2>1, ElementOfSeq
  <2>3. b.text \in Texts
    BY <2>2, PieceIsText
  <2>4. Complete(b.text) /\ b.shown = Cleaned(b.text)
    BY <2>2 DEF WellMade
  <2>5. texts[i] = b.text /\ shown[i] = b.shown
    BY <1>1, <2>1
  <2> QED
    BY <2>3, <2>4, <2>5, StepsAreTexts
<1>4. /\ texts \in Seq(Texts) /\ Len(texts) = n
      /\ shown \in Seq(Texts) /\ Len(shown) = n
  <2>1. texts = [i \in 1..n |-> texts[i]] /\ shown = [i \in 1..n |-> shown[i]]
    BY <1>1
  <2>2. texts \in [1..n -> Texts] /\ shown \in [1..n -> Texts]
    BY <1>3, <2>1
  <2> QED
    BY <1>2, <2>2, FunctionIsSeq
<1>5. Text(blocks) = FlattenSeq(texts)
  BY <1>1 DEF Text
<1>6. Text(blocks) \in Texts
  BY PageIsText
<1>7. CASE n = 0
  <2>1. FlattenSeq(texts) = <<>> /\ FlattenSeq(shown) = <<>>
    BY <1>4, <1>7, FlattenNone
  <2> QED
    BY <1>1, <1>5, <1>6, <2>1, NothingIsCleaned
<1>8. CASE n # 0
  <2>1. PICK f \in [1..n -> Texts] :
          /\ FlattenSeq(texts) = f[n]
          /\ \A i \in 1..n : f[i] = IF i = 1 THEN texts[i] ELSE f[i - 1] \o texts[i]
    <3>1. \E k \in [1..Len(texts) -> Texts] :
            /\ FlattenSeq(texts) = k[Len(texts)]
            /\ \A i \in 1..Len(texts) : k[i] = IF i = 1 THEN texts[i] ELSE k[i - 1] \o texts[i]
      BY <1>4, <1>8, FlattenIs
    <3> QED
      BY <1>4, <3>1
  <2>2. PICK g \in [1..n -> Texts] :
          /\ FlattenSeq(shown) = g[n]
          /\ \A i \in 1..n : g[i] = IF i = 1 THEN shown[i] ELSE g[i - 1] \o shown[i]
    <3>1. \E k \in [1..Len(shown) -> Texts] :
            /\ FlattenSeq(shown) = k[Len(shown)]
            /\ \A i \in 1..Len(shown) : k[i] = IF i = 1 THEN shown[i] ELSE k[i - 1] \o shown[i]
      BY <1>4, <1>8, FlattenIs
    <3> QED
      BY <1>4, <3>1
  <2> DEFINE I == 1..n
             m == [i \in I |-> i]
             Good == {i \in I : Complete(f[i]) /\ Cleaned(f[i]) = g[i]}
  <2>3. ASSUME NEW i \in I \ Good
        PROVE  i - 1 \in I \ Good /\ i - 1 < i
    <3>1. i \in 1..n /\ i \in Nat /\ i >= 1
      BY <1>2
    <3>2. CASE i = 1
      <4>1. f[i] = texts[i] /\ g[i] = shown[i]
        BY <2>1, <2>2, <3>1, <3>2
      <4>2. Complete(f[i]) /\ Cleaned(f[i]) = g[i]
        BY <1>3, <3>1, <4>1
      <4> QED
        BY <4>2
    <3>3. CASE i # 1
      <4>1. i - 1 \in I /\ i - 1 < i
        BY <1>2, <3>1, <3>3
      <4>2. f[i] = f[i - 1] \o texts[i] /\ g[i] = g[i - 1] \o shown[i]
        BY <2>1, <2>2, <3>1, <3>3
      <4>3. ASSUME i - 1 \in Good
            PROVE  FALSE
        <5>1. PICK a, b : a = f[i - 1] /\ b = texts[i]
          OBVIOUS
        <5>2. a \in Texts /\ Complete(a) /\ b \in Texts /\ Complete(b)
          BY <1>3, <2>1, <3>1, <4>1, <4>3, <5>1
        <5>3. Complete(a \o b) /\ Cleaned(a \o b) = Cleaned(a) \o Cleaned(b)
          BY <5>2, CompleteJoins
        <5>4. Cleaned(a) = g[i - 1] /\ Cleaned(b) = shown[i]
          BY <1>3, <3>1, <4>3, <5>1
        <5> QED
          BY <3>1, <4>2, <5>1, <5>3, <5>4
      <4> QED
        BY <4>1, <4>3
    <3> QED
      BY <3>2, <3>3
  <2>4. Good = I
    <3>1. m \in [I -> Nat] /\ Good \in SUBSET I
      BY <1>2
    <3>2. \A i \in I \ Good : \E j \in I \ Good : m[j] < m[i]
      BY <2>3
    <3> HIDE DEF I, m, Good
    <3>3. Descends(I, m, Good)
      BY <3>1, <3>2 DEF Descends
    <3> QED
      BY <3>3, Descent
  <2>5. n \in I
    BY <1>2, <1>8
  <2>6. Complete(f[n]) /\ Cleaned(f[n]) = g[n] /\ g[n] \in Texts
    BY <2>2, <2>4, <2>5
  <2> QED
    BY <1>1, <1>5, <1>6, <2>1, <2>2, <2>6
<1> QED
  BY <1>7, <1>8

(* What is kept on the way: the content is the page's text, sanitized once *)
(* that was done.                                                          *)
SInv ==
  /\ page \in Seq(Block)
  /\ pc \in {"raw", "sanitized", "asked"}
  /\ content = IF pc = "raw" THEN Text(page) ELSE sanitize_content(Text(page))

(* The passes leave what is shown, whitespace and length are left to do.   *)
LEMMA SanitizedIsShown ==
  ASSUME WellMade(Block), SInv
  PROVE  OnlyShownRemains /\ EveryPageIsRead
<1> SUFFICES ASSUME pc # "raw",
                    NEW shown, shown = Tidy(FlattenSeq([i \in 1..Len(page) |-> page[i].shown]))
             PROVE  content = IF Len(shown) <= MaxChars THEN shown
                              ELSE SubSeq(shown, 1, MaxChars) \o Notice
  BY DEF OnlyShownRemains, EveryPageIsRead, Expected
<1>1. PICK s, clean : s = Text(page) /\ clean = Cleaned(s)
  OBVIOUS
<1>2. page \in Seq(Block) /\ content = sanitize_content(s)
  BY <1>1 DEF SInv
<1>3. clean \in Texts /\ clean = FlattenSeq([i \in 1..Len(page) |-> page[i].shown])
  BY <1>1, <1>2, PageIsCleaned
<1>4. collapse_whitespace(clean) = shown
  BY <1>3, CollapsedIsTidy
<1>5. content = truncate_if_excessive(shown, MaxChars)
  BY <1>1, <1>2, <1>4 DEF sanitize_content, Cleaned
<1> QED
  BY <1>5 DEF truncate_if_excessive

(* For any pieces of pages that are complete and of which a reader sees    *)
(* what the passes leave of each alone, and for pages of any number of     *)
(* them: sanitize_content comes back, with what a reader sees of the whole *)
(* page, tidied and truncated.  No pass takes from one piece what begins   *)
(* in another, none stops before the last piece, and nothing arises where  *)
(* two pieces meet.  A piece that leaves a character which is longer in    *)
(* lower case is not complete: for pages with one, the second of the two   *)
(* properties fails.                                                       *)
THEOREM ShownRemains ==
  ASSUME WellMade(Block)
  PROVE  Spec => [](OnlyShownRemains /\ EveryPageIsRead)
<1>1. Init => SInv
  <2> SUFFICES ASSUME Init
               PROVE  SInv
    OBVIOUS
  <2>1. pc = "raw" /\ content = Text(page) /\ page \in BoundedSeq(Block, MaxBlocks)
    BY DEF Init
  <2>2. page \in Seq(Block)
    <3>1. PICK n \in 0..MaxBlocks : page \in [1..n -> Block]
      BY <2>1 DEF BoundedSeq, SeqOf
    <3>2. n \in Nat
      BY <3>1, SanitizeAssumption
    <3> QED
      BY <3>1, <3>2, FunctionIsSeq
  <2> QED
    BY <2>1, <2>2 DEF SInv
<1>2. SInv /\ [Next]_vars => SInv'
  <2> SUFFICES ASSUME SInv, [Next]_vars
               PROVE  SInv'
    OBVIOUS
  <2>1. CASE Sanitized
    BY <2>1 DEF SInv, Sanitized
  <2>2. CASE Panicked
    <3>1. Complete(content) /\ content \in Texts
      BY <2>2, PageIsCleaned DEF SInv, Panicked
    <3> QED
      BY <2>2, <3>1, CompleteIsSafe DEF Panicked
  <2>3. ASSUME NEW claims \in Claims, Assess(claims)
        PROVE  SInv'
    BY <2>3 DEF SInv, Assess
  <2>4. CASE UNCHANGED vars
    BY <2>4 DEF SInv, vars
  <2> QED
    BY <2>1, <2>2, <2>3, <2>4 DEF Next
<1>3. SInv => OnlyShownRemains /\ EveryPageIsRead
  BY SanitizedIsShown
<1> QED
  BY <1>1, <1>2, <1>3, PTL DEF Spec

(* The simplest such pages, of text without markup and without characters  *)
(* that are invisible or longer in lower case (those that are shorter are  *)
(* not represented): whatever else it is, and wherever it is cut into      *)
(* pieces, it is read, and only tidied and truncated.                      *)
THEOREM PlainTextRemains ==
  ASSUME \A b \in Block : Unmarked(b.text) /\ b.shown = b.text
  PROVE  Spec => [](OnlyShownRemains /\ EveryPageIsRead)
<1>1. WellMade(Block)
  <2> SUFFICES ASSUME NEW b \in Block
               PROVE  Complete(b.text) /\ b.shown = Cleaned(b.text)
    BY DEF WellMade
  <2>1. b.text \in Texts /\ Unmarked(b.text) /\ b.shown = b.text
    BY PieceIsText
  <2> QED
    BY <2>1, UnmarkedIsShown
<1> QED
  BY <1>1, ShownRemains
=============================================================================
