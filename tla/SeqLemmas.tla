------------------------------ MODULE SeqLemmas ------------------------------
(***************************************************************************)
(* What the proofs of several components need of sequences and numbers:    *)
(* how a sequence is taken apart and put together at one place, and        *)
(* induction, of which the members of a set stand for the property.        *)
(***************************************************************************)
EXTENDS Integers, Sequences, SequencesExt, WellFoundedInduction, TLAPS

(* Sequences are taken apart and put together at one place: t is s without *)
(* its i-th element, or with e as the i-th.                                *)
Removed(t, s, i) ==
  /\ Len(t) = Len(s) - 1
  /\ \A j \in 1 .. Len(t) : t[j] = IF j < i THEN s[j] ELSE s[j + 1]
Inserted(t, s, i, e) ==
  /\ Len(t) = Len(s) + 1
  /\ \A j \in 1 .. Len(t) : t[j] = IF j < i THEN s[j] ELSE IF j = i THEN e ELSE s[j - 1]

(* What a part of a sequence holds.                                        *)
LEMMA SubSeqIs ==
  ASSUME NEW T, NEW s \in Seq(T), NEW a \in 1 .. (Len(s) + 1), NEW b \in (a - 1) .. Len(s)
  PROVE  /\ SubSeq(s, a, b) \in Seq(T) /\ Len(SubSeq(s, a, b)) = b - a + 1
         /\ \A k \in 1 .. (b - a + 1) : SubSeq(s, a, b)[k] = s[a + k - 1]
OBVIOUS

(* What two sequences, one behind the other, hold.                         *)
LEMMA ConcatIs ==
  ASSUME NEW T, NEW s \in Seq(T), NEW t \in Seq(T)
  PROVE  /\ s \o t \in Seq(T) /\ Len(s \o t) = Len(s) + Len(t)
         /\ \A k \in 1 .. (Len(s) + Len(t)) :
              (s \o t)[k] = IF k <= Len(s) THEN s[k] ELSE t[k - Len(s)]
OBVIOUS

(* RemoveAt takes out the one element.                                     *)
LEMMA RemoveAtIs ==
  ASSUME NEW T, NEW s \in Seq(T), NEW i \in 1 .. Len(s)
  PROVE  RemoveAt(s, i) \in Seq(T) /\ Removed(RemoveAt(s, i), s, i)
<1> DEFINE a == SubSeq(s, 1, i - 1)
           b == SubSeq(s, i + 1, Len(s))
<1>1. Len(s) \in Nat /\ 1 \in 1 .. (Len(s) + 1) /\ i + 1 \in 1 .. (Len(s) + 1)
      /\ i - 1 \in (1 - 1) .. Len(s) /\ Len(s) \in ((i + 1) - 1) .. Len(s)
  OBVIOUS
<1>2. /\ a \in Seq(T) /\ Len(a) = (i - 1) - 1 + 1
      /\ \A k \in 1 .. ((i - 1) - 1 + 1) : a[k] = s[1 + k - 1]
  BY <1>1, SubSeqIs
<1>3. /\ b \in Seq(T) /\ Len(b) = Len(s) - (i + 1) + 1
      /\ \A k \in 1 .. (Len(s) - (i + 1) + 1) : b[k] = s[(i + 1) + k - 1]
  BY <1>1, SubSeqIs
<1>4. RemoveAt(s, i) = a \o b
  BY DEF RemoveAt
<1> HIDE DEF a, b
<1>5. /\ a \o b \in Seq(T) /\ Len(a \o b) = Len(a) + Len(b)
      /\ \A k \in 1 .. (Len(a) + Len(b)) : (a \o b)[k] = IF k <= Len(a) THEN a[k] ELSE b[k - Len(a)]
  BY <1>2, <1>3, ConcatIs
<1>6. ASSUME NEW k \in 1 .. (Len(s) - 1)
      PROVE  (a \o b)[k] = IF k < i THEN s[k] ELSE s[k + 1]
  <2>1. CASE k < i
    BY <1>1, <1>2, <1>3, <1>5, <2>1
  <2>2. CASE ~(k < i)
    <3>1. PICK m \in 1 .. Len(b) : m = k - Len(a)
      <4>1. k - Len(a) \in 1 .. Len(b)
        BY <1>1, <1>2, <1>3, <2>2
      <4>2. QED
        BY <4>1
    <3>2. (a \o b)[k] = b[m] /\ (i + 1) + m - 1 = k + 1
      BY <1>1, <1>2, <1>3, <1>5, <2>2, <3>1
    <3>3. QED
      BY <1>3, <2>2, <3>2
  <2>3. QED
    BY <2>1, <2>2
<1>7. Len(a \o b) = Len(s) - 1
  <2>1. Len(a) = i - 1 /\ Len(b) = Len(s) - i
    BY <1>1, <1>2, <1>3
  <2>2. Len(a \o b) = Len(a) + Len(b)
    BY <1>5
  <2>3. QED
    BY <1>1, <2>1, <2>2
<1>8. QED
  BY <1>4, <1>5, <1>6, <1>7 DEF Removed

(* InsertAt puts in the one element.                                       *)
LEMMA InsertAtIs ==
  ASSUME NEW T, NEW s \in Seq(T), NEW i \in 1 .. (Len(s) + 1), NEW e \in T
  PROVE  InsertAt(s, i, e) \in Seq(T) /\ Inserted(InsertAt(s, i, e), s, i, e)
<1> DEFINE a == SubSeq(s, 1, i - 1)
           b == SubSeq(s, i, Len(s))
           c == a \o <<e>>
<1>1. Len(s) \in Nat /\ 1 \in 1 .. (Len(s) + 1)
      /\ i - 1 \in (1 - 1) .. Len(s) /\ Len(s) \in (i - 1) .. Len(s)
  OBVIOUS
<1>2. /\ a \in Seq(T) /\ Len(a) = (i - 1) - 1 + 1
      /\ \A k \in 1 .. ((i - 1) - 1 + 1) : a[k] = s[1 + k - 1]
  BY <1>1, SubSeqIs
<1>3. /\ b \in Seq(T) /\ Len(b) = Len(s) - i + 1
      /\ \A k \in 1 .. (Len(s) - i + 1) : b[k] = s[i + k - 1]
  BY <1>1, SubSeqIs
<1>4. InsertAt(s, i, e) = c \o b
  BY DEF InsertAt
<1> HIDE DEF a, b
<1>5. c \in Seq(T) /\ Len(c) = i /\ \A k \in 1 .. i : c[k] = IF k < i THEN s[k] ELSE e
  <2>1. c = Append(a, e)
    BY <1>2
  <2>2. QED
    BY <1>1, <1>2, <2>1
<1> HIDE DEF c
<1>6. /\ c \o b \in Seq(T) /\ Len(c \o b) = Len(c) + Len(b)
      /\ \A k \in 1 .. (Len(c) + Len(b)) : (c \o b)[k] = IF k <= Len(c) THEN c[k] ELSE b[k - Len(c)]
  BY <1>3, <1>5, ConcatIs
<1>7. ASSUME NEW k \in 1 .. (Len(s) + 1)
      PROVE  (c \o b)[k] = IF k < i THEN s[k] ELSE IF k = i THEN e ELSE s[k - 1]
  <2>1. CASE k <= i
    BY <1>1, <1>3, <1>5, <1>6, <2>1
  <2>2. CASE ~(k <= i)
    <3>1. PICK m \in 1 .. Len(b) : m = k - Len(c)
      <4>1. k - Len(c) \in 1 .. Len(b)
        BY <1>1, <1>3, <1>5, <2>2
      <4>2. QED
        BY <4>1
    <3>2. (c \o b)[k] = b[m] /\ i + m - 1 = k - 1
      BY <1>1, <1>3, <1>5, <1>6, <2>2, <3>1
    <3>3. QED
      BY <1>3, <2>2, <3>2
  <2>3. QED
    BY <2>1, <2>2
<1>8. QED
  BY <1>1, <1>3, <1>4, <1>5, <1>6, <1>7 DEF Inserted

(* So does what puts it at an end.                                         *)
LEMMA AppendIs ==
  ASSUME NEW T, NEW s \in Seq(T), NEW e \in T
  PROVE  /\ Append(s, e) \in Seq(T) /\ Inserted(Append(s, e), s, Len(s) + 1, e)
         /\ <<e>> \o s \in Seq(T) /\ Inserted(<<e>> \o s, s, 1, e)
BY DEF Inserted

(* A set of numbers has a least one.                                       *)
LEMMA Least ==
  ASSUME NEW T, T \subseteq Nat, T # {}
  PROVE  \E x \in T : \A y \in T : x <= y
<1> DEFINE R == OpToRel(<, Nat)
<1>1. IsWellFoundedOn(R, Nat)
  BY NatLessThanWellFounded DEF R
<1>2. PICK x \in T : \A y \in T : ~(<<y, x>> \in R)
  <2> HIDE DEF R
  <2>1. QED
    BY <1>1, WFMin
<1>3. \A y \in T : ~(y < x)
  BY <1>2 DEF OpToRel, R
<1>4. QED
  BY <1>3

(* Induction over 0..n.                                                    *)
LEMMA Climb ==
  ASSUME NEW n \in Nat, NEW T, 0 \in T, \A m \in 0..n : m \in T /\ m < n => m + 1 \in T
  PROVE  \A m \in 0..n : m \in T
<1>1. SUFFICES ASSUME NEW m \in 0..n, m \notin T PROVE FALSE
  OBVIOUS
<1>2. PICK x \in {k \in 0..n : k \notin T} : \A y \in {k \in 0..n : k \notin T} : x <= y
  <2>1. {k \in 0..n : k \notin T} \subseteq Nat /\ {k \in 0..n : k \notin T} # {}
    BY <1>1
  <2>2. QED
    BY <2>1, Least
<1>3. x # 0 /\ x - 1 \in 0..n /\ x - 1 < n /\ x - 1 \in T
  BY <1>2
<1>4. QED
  BY <1>2, <1>3

\* f has what n steps h make of x.
Iterated(f, x, h, n) == f[0] = x /\ \A k \in 1..n : f[k] = h[f[k - 1]]

(* A step can be taken n times from x.                                     *)
LEMMA Iterates ==
  ASSUME NEW S, NEW x \in S, NEW h \in [S -> S], NEW n \in Nat
  PROVE  \E f \in [0..n -> S] : Iterated(f, x, h, n)
<1> USE DEF Iterated
<1> DEFINE Upto(f, m) == Iterated(f, x, h, m)
           T == {m \in 0..n : \E f \in [0..m -> S] : Upto(f, m)}
<1>1. 0 \in T
  <2>1. [k \in 0..0 |-> x] \in [0..0 -> S] /\ Upto([k \in 0..0 |-> x], 0)
    OBVIOUS
  <2>2. \E f \in [0..0 -> S] : Upto(f, 0)
    BY <2>1
  <2>3. QED
    BY <2>2
<1>2. ASSUME NEW m \in 0..n, m \in T, m < n PROVE m + 1 \in T
  <2>1. PICK f \in [0..m -> S] : Upto(f, m)
    BY <1>2
  <2>2. PICK g : g = [k \in 0..(m + 1) |-> IF k = m + 1 THEN h[f[m]] ELSE f[k]]
    OBVIOUS
  <2>3. g \in [0..(m + 1) -> S]
    BY <2>2
  <2>4. g[0] = x
    BY <2>1, <2>2
  <2>5. ASSUME NEW k \in 1..(m + 1) PROVE g[k] = h[g[k - 1]]
    BY <2>1, <2>2
  <2>6. Upto(g, m + 1)
    BY <2>4, <2>5
  <2> HIDE DEF Upto
  <2>7. QED
    BY <1>2, <2>3, <2>6
<1>3. \A m \in 0..n : m \in T
  <2> HIDE DEF T
  <2>1. QED
    BY <1>1, <1>2, Climb
<1>4. QED
  BY <1>3

(* What a loop has after n rounds, the longest part of s it can have.      *)
Taken(s, n) == [i \in 1 .. (IF n < Len(s) THEN n ELSE Len(s)) |-> s[i]]

(* A loop that takes the elements of s one by one ends up with s.          *)
LEMMA TakenAll ==
  ASSUME NEW S, NEW s \in Seq(S), NEW n \in Nat, Len(s) <= n, NEW f, f[0] = <<>>,
         \A k \in 1..n : f[k - 1] = Taken(s, k - 1) => f[k] = Taken(s, k)
  PROVE  f[n] = s
<1> DEFINE T == {k \in 0..n : f[k] = Taken(s, k)}
<1>1. 0 \in T
  BY DEF Taken
<1>2. ASSUME NEW m \in 0..n, m \in T, m < n PROVE m + 1 \in T
  <2>1. m + 1 \in 1..n /\ (m + 1) - 1 = m
    BY <1>2
  <2>2. QED
    BY <1>2, <2>1
<1>3. \A m \in 0..n : m \in T
  <2> HIDE DEF T
  <2>1. QED
    BY <1>1, <1>2, Climb
<1>4. f[n] = Taken(s, n) /\ Taken(s, n) = s
  BY <1>3 DEF Taken
<1>5. QED
  BY <1>4

\* What r, taken before the n-th round, has to do with s and what is taken after.
TakesOn(s, n, r) ==
  /\ Taken(s, n) = IF n <= Len(s) THEN Append(r, s[n]) ELSE r
  /\ r = <<>> <=> n = 1 \/ s = <<>>
  /\ n <= Len(s) => Len(r) = n - 1
  /\ n > Len(s) => r = s
  /\ r # <<>> => Len(r) \in 1 .. Len(s) /\ r[Len(r)] = s[Len(r)]

(* It does if what it appends to them is the next one.                     *)
LEMMA TakesNext ==
  ASSUME NEW S, NEW s \in Seq(S), NEW n \in Nat \ {0}
  PROVE  TakesOn(s, n, Taken(s, n - 1))
<1> DEFINE r == Taken(s, n - 1)
<1>1. PICK l \in Nat : l = Len(s) /\ DOMAIN s = 1..l
  OBVIOUS
<1>2. PICK k \in 0..l : k = IF n - 1 < l THEN n - 1 ELSE l
  BY <1>1
<1>3. r = [i \in 1..k |-> s[i]]
  BY <1>1, <1>2 DEF Taken
<1>4. r \in Seq(S) /\ Len(r) = k /\ \A i \in 1..k : r[i] = s[i]
  BY <1>1, <1>3
<1> SUFFICES TakesOn(s, n, r)
  OBVIOUS
<1> HIDE DEF r
<1>5. CASE n <= l
  <2>1. k = n - 1 /\ s[n] \in S
    BY <1>1, <1>2, <1>5
  <2>2. Taken(s, n) = [i \in 1..n |-> s[i]]
    BY <1>1, <1>5 DEF Taken
  <2>3. Append(r, s[n]) = [i \in 1..n |-> s[i]]
    BY <1>3, <2>1
  <2>4. QED
    BY <1>1, <1>4, <1>5, <2>1, <2>2, <2>3, SMTT(20) DEF TakesOn
<1>6. CASE ~(n <= l)
  <2>1. k = l /\ r = s
    BY <1>1, <1>2, <1>3, <1>6
  <2>2. Taken(s, n) = [i \in 1..l |-> s[i]]
    BY <1>1, <1>6 DEF Taken
  <2>3. QED
    BY <1>1, <1>3, <1>4, <1>6, <2>1, <2>2 DEF TakesOn
<1>7. QED
  BY <1>1, <1>5, <1>6 DEF TakesOn
=============================================================================
