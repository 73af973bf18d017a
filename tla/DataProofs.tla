----------------------------- MODULE DataProofs -----------------------------
(***************************************************************************)
(* Proofs about List and the tail queue below it, for any number of items  *)
(* and any pointers, about Array, for any types, sizes and indexes, and    *)
(* about B64, for any bytes.                                               *)
(***************************************************************************)
EXTENDS ListArray, B64, SeqLemmas, FiniteSetTheorems, SequenceTheorems

\* What the links of a tail queue may hold.
Queue == [first : Elems \cup {Null}, last : Elems \cup {HEAD},
          next : [Elems -> Elems \cup {Null}], prev : [Elems -> Elems \cup {HEAD}]]

\* The element after, and the cell that points to, the i-th element of s.
Fore(s, i) == IF i < Len(s) THEN s[i + 1] ELSE Null
Back(s, i) == IF i > 1 THEN s[i - 1] ELSE HEAD

\* The links of q spell s, forwards and backwards.
Spells(q, s) ==
  /\ q \in Queue
  /\ s \in Seq(Elems)
  /\ \A i, j \in 1 .. Len(s) : s[i] = s[j] => i = j
  /\ q.first = Fore(s, 0) /\ q.last = Back(s, Len(s) + 1)
  /\ \A i \in 1 .. Len(s) : q.next[s[i]] = Fore(s, i) /\ q.prev[s[i]] = Back(s, i)

(* No element is in a queue twice, so a queue is not longer than there are *)
(* elements, and the rounds of the loops are enough.                       *)
LEMMA Short ==
  ASSUME TailQAssumption, NEW s \in Seq(Elems), \A i, j \in 1 .. Len(s) : s[i] = s[j] => i = j
  PROVE  MaxWalk \in Nat /\ Len(s) < MaxWalk
<1>1. IsFiniteSet(Elems) /\ Cardinality(Elems) \in Nat
  BY FS_CardinalityType DEF TailQAssumption
<1>2. IsFiniteSet(1 .. Len(s)) /\ Cardinality(1 .. Len(s)) = Len(s)
  <2>1. 1 \in Int /\ Len(s) \in Int /\ Len(s) \in Nat
    OBVIOUS
  <2>2. IsFiniteSet(1 .. Len(s)) /\ Cardinality(1 .. Len(s)) = IF 1 > Len(s) THEN 0 ELSE Len(s) - 1 + 1
    BY <2>1, FS_Interval
  <2>3. QED
    BY <2>1, <2>2
<1>3. s \in Injection(1 .. Len(s), Elems)
  BY DEF Injection, IsInjective
<1>4. Cardinality(1 .. Len(s)) <= Cardinality(Elems)
  BY <1>1, <1>2, <1>3, FS_Injection
<1>5. QED
  BY <1>1, <1>2, <1>4 DEF MaxWalk

-----------------------------------------------------------------------------
(* The loops.  A round of each, and what it has met, a function that       *)
(* refers to itself.                                                       *)
Round(q, r) ==
  LET e == IF r = <<>> THEN q.first ELSE q.next[r[Len(r)]]
  IN  IF e = Null THEN r ELSE Append(r, e)
IsMet(f, q) == f = [n \in 0..MaxWalk |-> IF n = 0 THEN <<>> ELSE Round(q, f[n - 1])]

RoundBack(q, r) ==
  LET e == IF r = <<>> THEN TAILQ_LAST(q) ELSE TAILQ_PREV(q, r[Len(r)])
  IN  IF e = Null THEN r ELSE Append(r, e)
IsMetBack(f, q) == f = [n \in 0..MaxWalk |-> IF n = 0 THEN <<>> ELSE RoundBack(q, f[n - 1])]

(* TAILQ_FOREACH is one of these.                                          *)
LEMMA ForeachChosen ==
  ASSUME NEW q
  PROVE  TAILQ_FOREACH(q) = (CHOOSE f : IsMet(f, q))[MaxWalk]
BY DEF TAILQ_FOREACH, IsMet, Round

(* So is TAILQ_FOREACH_REVERSE.                                            *)
LEMMA ReverseChosen ==
  ASSUME NEW q
  PROVE  TAILQ_FOREACH_REVERSE(q) = (CHOOSE f : IsMetBack(f, q))[MaxWalk]
BY DEF TAILQ_FOREACH_REVERSE, IsMetBack, RoundBack

(* The n-th round of TAILQ_FOREACH takes the n-th element.                 *)
LEMMA RoundTakes ==
  ASSUME TailQAssumption, NEW q, NEW s, Spells(q, s), NEW n \in Nat \ {0}, NEW r, r = Taken(s, n - 1)
  PROVE  Round(q, r) = Taken(s, n)
<1>1. /\ s \in Seq(Elems) /\ Len(s) \in Nat /\ Null \notin Elems /\ q.first = Fore(s, 0)
      /\ \A i \in 1 .. Len(s) : q.next[s[i]] = Fore(s, i) /\ s[i] \in Elems
  BY DEF Spells, TailQAssumption
<1>2. /\ Taken(s, n) = IF n <= Len(s) THEN Append(r, s[n]) ELSE r
      /\ r = <<>> <=> n = 1 \/ s = <<>>
      /\ n <= Len(s) => Len(r) = n - 1
      /\ n > Len(s) => r = s
      /\ r # <<>> => Len(r) \in 1 .. Len(s) /\ r[Len(r)] = s[Len(r)]
  <2>1. TakesOn(s, n, r)
    BY <1>1, TakesNext
  <2>2. QED
    BY <2>1 DEF TakesOn
<1>3. PICK e : e = IF r = <<>> THEN q.first ELSE q.next[r[Len(r)]]
  OBVIOUS
<1>4. e = IF n <= Len(s) THEN s[n] ELSE Null
  <2>1. CASE r = <<>>
    BY <1>1, <1>2, <1>3, <2>1 DEF Fore
  <2>2. CASE r # <<>>
    <3>1. e = Fore(s, Len(r))
      BY <1>1, <1>2, <1>3, <2>2
    <3>2. QED
      BY <1>1, <1>2, <2>2, <3>1 DEF Fore
  <2>3. QED
    BY <2>1, <2>2
<1>5. QED
  BY <1>1, <1>2, <1>3, <1>4 DEF Round

(* TAILQ_FOREACH meets the elements of the queue in order.                 *)
LEMMA ForeachIs ==
  ASSUME TailQAssumption, NEW q, NEW s, Spells(q, s)
  PROVE  TAILQ_FOREACH(q) = s
<1>1. s \in Seq(Elems) /\ MaxWalk \in Nat /\ Len(s) <= MaxWalk /\ Len(s) \in Nat
  <2>1. s \in Seq(Elems) /\ \A i, j \in 1 .. Len(s) : s[i] = s[j] => i = j
    BY DEF Spells
  <2>2. QED
    BY <2>1, Short
<1>2. \E f : IsMet(f, q)
  <2>1. PICK f : f = [n \in 0..MaxWalk |-> Taken(s, n)]
    OBVIOUS
  <2>2. ASSUME NEW n \in 0..MaxWalk PROVE f[n] = IF n = 0 THEN <<>> ELSE Round(q, f[n - 1])
    <3>1. CASE n = 0
      BY <1>1, <2>1, <3>1 DEF Taken
    <3>2. CASE n # 0
      <4>1. n \in Nat \ {0} /\ f[n - 1] = Taken(s, n - 1) /\ f[n] = Taken(s, n)
        BY <1>1, <2>1, <3>2
      <4>2. QED
        BY <3>2, <4>1, RoundTakes
    <3>3. QED
      BY <3>1, <3>2
  <2>3. f = [n \in 0..MaxWalk |-> IF n = 0 THEN <<>> ELSE Round(q, f[n - 1])]
    BY <2>1, <2>2
  <2>4. QED
    BY <2>3 DEF IsMet
<1>3. ASSUME NEW f, IsMet(f, q) PROVE f[MaxWalk] = s
  <2>1. f[0] = <<>>
    BY <1>1, <1>3 DEF IsMet
  <2>2. ASSUME NEW k \in 1..MaxWalk, f[k - 1] = Taken(s, k - 1) PROVE f[k] = Taken(s, k)
    <3>1. f[k] = Round(q, f[k - 1]) /\ k \in Nat \ {0}
      BY <1>1, <1>3 DEF IsMet
    <3>2. QED
      BY <2>2, <3>1, RoundTakes
  <2>3. QED
    BY <1>1, <2>1, <2>2, TakenAll
<1>4. QED
  BY <1>2, <1>3, ForeachChosen

(* The n-th round of TAILQ_FOREACH_REVERSE takes the n-th from the end.    *)
LEMMA RoundBackTakes ==
  ASSUME TailQAssumption, NEW q, NEW s, Spells(q, s), NEW n \in Nat \ {0}, NEW r,
         r = Taken(Reverse(s), n - 1)
  PROVE  RoundBack(q, r) = Taken(Reverse(s), n)
<1>1. PICK l \in Nat : l = Len(s) /\ DOMAIN s = 1..l
  BY DEF Spells
<1>2. /\ s \in Seq(Elems) /\ Null \notin Elems /\ HEAD \notin Elems /\ q.first = Fore(s, 0)
      /\ q.last = Back(s, l + 1)
      /\ \A i \in 1..l : q.next[s[i]] = Fore(s, i) /\ q.prev[s[i]] = Back(s, i) /\ s[i] \in Elems
  BY <1>1 DEF Spells, TailQAssumption
<1>3. PICK t : t = Reverse(s)
  OBVIOUS
<1>4. t \in Seq(Elems) /\ Len(t) = l /\ \A i \in 1..l : t[i] = s[l - i + 1]
  BY <1>1, <1>2, <1>3 DEF Reverse
<1>5. /\ Taken(t, n) = IF n <= l THEN Append(r, t[n]) ELSE r
      /\ r = <<>> <=> n = 1 \/ t = <<>>
      /\ n <= l => Len(r) = n - 1
      /\ n > l => r = t
      /\ r # <<>> => Len(r) \in 1..l /\ r[Len(r)] = t[Len(r)]
  <2>1. TakesOn(t, n, r)
    BY <1>3, <1>4, TakesNext
  <2>2. QED
    BY <1>4, <2>1 DEF TakesOn
\* The element whose cell is pointed to, by way of the cell's owner.
<1>6. ASSUME NEW i \in 1..(l + 1)
      PROVE  Deref(q, LastOf(q, Back(s, i))) = IF i = 1 THEN Null ELSE s[i - 1]
  <2>1. CASE i = 1 /\ l = 0
    BY <1>1, <1>2, <2>1 DEF Back, Fore, LastOf, Deref
  <2>2. CASE i = 1 /\ l # 0
    <3>1. Back(s, i) = HEAD /\ q.last = s[l] /\ l \in 1..l
      BY <1>2, <2>2 DEF Back
    <3>2. s[l] # HEAD /\ q.next[s[l]] = Null
      BY <1>1, <1>2, <3>1 DEF Fore
    <3>3. QED
      BY <2>2, <3>1, <3>2 DEF LastOf, Deref
  <2>3. CASE i = 2
    <3>1. Back(s, i) = s[1] /\ s[1] \in Elems /\ s[1] # HEAD /\ q.prev[s[1]] = HEAD
      BY <1>2, <2>3 DEF Back
    <3>2. q.first = s[1]
      BY <1>1, <1>2, <2>3 DEF Fore
    <3>3. QED
      BY <2>3, <3>1, <3>2 DEF LastOf, Deref
  <2>4. CASE i > 2
    <3>1. Back(s, i) = s[i - 1] /\ i - 1 \in 1..l /\ s[i - 1] # HEAD /\ q.prev[s[i - 1]] = Back(s, i - 1)
      <4>1. Back(s, i) = s[i - 1] /\ i - 1 \in 1..l
        BY <2>4 DEF Back
      <4>2. QED
        BY <1>2, <4>1
    <3>2. Back(s, i - 1) = s[i - 2] /\ i - 2 \in 1..l /\ s[i - 2] # HEAD
          /\ q.next[s[i - 2]] = Fore(s, i - 2)
      BY <1>2, <2>4 DEF Back
    <3>3. Fore(s, i - 2) = s[i - 1]
      BY <1>1, <2>4 DEF Fore
    <3>4. QED
      BY <2>4, <3>1, <3>2, <3>3 DEF LastOf, Deref
  <2>5. QED
    BY <2>1, <2>2, <2>3, <2>4
<1>7. PICK e : e = IF r = <<>> THEN TAILQ_LAST(q) ELSE TAILQ_PREV(q, r[Len(r)])
  OBVIOUS
<1>8. e = IF n <= l THEN t[n] ELSE Null
  <2>1. CASE r = <<>>
    <3>1. e = IF l = 0 THEN Null ELSE s[l]
      BY <1>2, <1>6, <1>7, <2>1 DEF TAILQ_LAST
    <3>2. n = 1 \/ l = 0
      BY <1>4, <1>5, <2>1
    <3>3. QED
      BY <1>4, <3>1, <3>2
  <2>2. CASE r # <<>>
    <3>1. PICK k \in 1..l : k = Len(r)
      BY <1>5, <2>2
    <3>2. PICK i \in 1..l : i = l - k + 1
      <4>1. l - k + 1 \in 1..l
        BY <3>1
      <4>2. QED
        BY <4>1
    <3>3. r[Len(r)] = s[i]
      BY <1>4, <1>5, <2>2, <3>1, <3>2
    <3>4. e = IF i = 1 THEN Null ELSE s[i - 1]
      BY <1>2, <1>6, <1>7, <2>2, <3>3 DEF TAILQ_PREV
    <3>5. k = IF n <= l THEN n - 1 ELSE l
      BY <1>4, <1>5, <3>1
    <3>6. QED
      BY <1>4, <3>2, <3>4, <3>5
  <2>3. QED
    BY <2>1, <2>2
<1>9. t[n] # Null \/ ~(n <= l)
  BY <1>2, <1>4
<1>10. QED
  BY <1>3, <1>5, <1>7, <1>8, <1>9 DEF RoundBack

(* TAILQ_FOREACH_REVERSE meets them in the opposite order.                 *)
LEMMA ReverseIs ==
  ASSUME TailQAssumption, NEW q, NEW s, Spells(q, s)
  PROVE  TAILQ_FOREACH_REVERSE(q) = Reverse(s)
<1>1. s \in Seq(Elems) /\ MaxWalk \in Nat /\ Len(s) <= MaxWalk /\ Len(s) \in Nat
  <2>1. s \in Seq(Elems) /\ \A i, j \in 1 .. Len(s) : s[i] = s[j] => i = j
    BY DEF Spells
  <2>2. QED
    BY <2>1, Short
<1>2. PICK t : t = Reverse(s)
  OBVIOUS
<1>3. t \in Seq(Elems) /\ Len(t) <= MaxWalk
  BY <1>1, <1>2 DEF Reverse
<1>4. \E f : IsMetBack(f, q)
  <2>1. PICK f : f = [n \in 0..MaxWalk |-> Taken(t, n)]
    OBVIOUS
  <2>2. ASSUME NEW n \in 0..MaxWalk PROVE f[n] = IF n = 0 THEN <<>> ELSE RoundBack(q, f[n - 1])
    <3>1. CASE n = 0
      BY <1>1, <1>3, <2>1, <3>1 DEF Taken
    <3>2. CASE n # 0
      <4>1. n \in Nat \ {0} /\ f[n - 1] = Taken(t, n - 1) /\ f[n] = Taken(t, n)
        BY <1>1, <2>1, <3>2
      <4>2. QED
        BY <1>2, <3>2, <4>1, RoundBackTakes
    <3>3. QED
      BY <3>1, <3>2
  <2>3. f = [n \in 0..MaxWalk |-> IF n = 0 THEN <<>> ELSE RoundBack(q, f[n - 1])]
    BY <2>1, <2>2
  <2>4. QED
    BY <2>3 DEF IsMetBack
<1>5. ASSUME NEW f, IsMetBack(f, q) PROVE f[MaxWalk] = t
  <2>1. f[0] = <<>>
    BY <1>1, <1>5 DEF IsMetBack
  <2>2. ASSUME NEW k \in 1..MaxWalk, f[k - 1] = Taken(t, k - 1) PROVE f[k] = Taken(t, k)
    <3>1. f[k] = RoundBack(q, f[k - 1]) /\ k \in Nat \ {0}
      BY <1>1, <1>5 DEF IsMetBack
    <3>2. QED
      BY <1>2, <2>2, <3>1, RoundBackTakes
  <2>3. QED
    BY <1>1, <1>3, <2>1, <2>2, TakenAll
<1>6. QED
  BY <1>2, <1>4, <1>5, ReverseChosen

-----------------------------------------------------------------------------
(* The macros that change a queue.                                         *)

\* r is q, which spells s, with e linked in as the i-th element.
IsPut(r, q, s, i, e) ==
  /\ r \in Queue
  /\ r.first = IF i = 1 THEN e ELSE q.first
  /\ r.last = IF i = Len(s) + 1 THEN e ELSE q.last
  /\ r.next[e] = Fore(s, i - 1) /\ r.prev[e] = Back(s, i)
  /\ \A j \in 1 .. Len(s) :
       /\ r.next[s[j]] = IF j = i - 1 THEN e ELSE Fore(s, j)
       /\ r.prev[s[j]] = IF j = i THEN e ELSE Back(s, j)

(* Then it spells the sequence with e inserted.                            *)
LEMMA PutSpells ==
  ASSUME NEW q, NEW s, Spells(q, s), NEW e \in Elems, \A j \in 1 .. Len(s) : s[j] # e,
         NEW i \in 1 .. (Len(s) + 1), NEW t \in Seq(Elems), Inserted(t, s, i, e), NEW r, IsPut(r, q, s, i, e)
  PROVE  Spells(r, t)
<1>1. PICK l \in Nat : l = Len(s) /\ DOMAIN s = 1..l /\ i \in 1..(l + 1)
  BY DEF Spells
<1>2. /\ \A j \in 1..l : s[j] \in Elems /\ s[j] # e
      /\ \A j, k \in 1..l : s[j] = s[k] => j = k
      /\ q.first = Fore(s, 0) /\ q.last = Back(s, l + 1)
  BY <1>1 DEF Spells
<1>3. /\ Len(t) = l + 1
      /\ \A j \in 1..(l + 1) : t[j] = IF j < i THEN s[j] ELSE IF j = i THEN e ELSE s[j - 1]
  BY <1>1 DEF Inserted
<1>4. ASSUME NEW j \in 1..(l + 1), NEW k \in 1..(l + 1), t[j] = t[k] PROVE j = k
  <2>1. \A m \in 1..(l + 1) : m = i <=> t[m] = e
    BY <1>1, <1>2, <1>3
  <2>2. CASE j = i \/ k = i
    BY <1>4, <2>1, <2>2
  <2>3. CASE j # i /\ k # i
    BY <1>1, <1>2, <1>3, <1>4, <2>3
  <2>4. QED
    BY <2>2, <2>3
<1>5. /\ r \in Queue
      /\ r.first = IF i = 1 THEN e ELSE q.first
      /\ r.last = IF i = l + 1 THEN e ELSE q.last
      /\ r.next[e] = Fore(s, i - 1) /\ r.prev[e] = Back(s, i)
      /\ \A j \in 1..l :
           /\ r.next[s[j]] = IF j = i - 1 THEN e ELSE Fore(s, j)
           /\ r.prev[s[j]] = IF j = i THEN e ELSE Back(s, j)
  BY <1>1 DEF IsPut
<1>6. r.first = Fore(t, 0)
  BY <1>1, <1>2, <1>3, <1>5 DEF Fore
<1>7. r.last = Back(t, l + 2)
  BY <1>1, <1>2, <1>3, <1>5 DEF Back
<1>8. ASSUME NEW j \in 1..(l + 1) PROVE r.next[t[j]] = Fore(t, j) /\ r.prev[t[j]] = Back(t, j)
  <2>1. CASE j = i
    <3>1. t[j] = e /\ Fore(t, j) = Fore(s, i - 1) /\ Back(t, j) = Back(s, i)
      BY <1>1, <1>3, <2>1 DEF Fore, Back
    <3>2. QED
      BY <1>5, <3>1
  <2>2. CASE j < i
    <3>1. j \in 1..l /\ t[j] = s[j] /\ Fore(t, j) = (IF j = i - 1 THEN e ELSE Fore(s, j))
      BY <1>1, <1>3, <2>2 DEF Fore
    <3>2. Back(t, j) = Back(s, j)
      BY <1>1, <1>3, <2>2 DEF Back
    <3>3. QED
      BY <1>1, <1>5, <2>2, <3>1, <3>2
  <2>3. CASE j > i
    <3>1. PICK k \in 1..l : k = j - 1 /\ k + 1 = j /\ k >= i
      <4>1. j - 1 \in 1..l
        BY <1>1, <2>3
      <4>2. QED
        BY <1>1, <2>3, <4>1
    <3>2. t[j] = s[k] /\ Fore(t, j) = Fore(s, k)
      BY <1>1, <1>3, <2>3, <3>1 DEF Fore
    <3>3. Back(t, j) = IF k = i THEN e ELSE Back(s, k)
      BY <1>1, <1>3, <2>3, <3>1 DEF Back
    <3>4. QED
      BY <1>1, <1>5, <2>3, <3>1, <3>2, <3>3
  <2>4. QED
    BY <1>1, <2>1, <2>2, <2>3
<1>9. Len(t) \in Nat /\ Len(t) + 1 = l + 2
  BY <1>3
<1>10. QED
  BY <1>3, <1>4, <1>5, <1>6, <1>7, <1>8, <1>9 DEF Spells

(* TAILQ_INSERT_TAIL puts the element behind the others.                   *)
LEMMA InsertTailIs ==
  ASSUME TailQAssumption, NEW q, NEW s, Spells(q, s), NEW e \in Elems, \A j \in 1 .. Len(s) : s[j] # e
  PROVE  IsPut(TAILQ_INSERT_TAIL(q, e), q, s, Len(s) + 1, e)
<1>1. PICK l \in Nat : l = Len(s) /\ DOMAIN s = 1..l
  BY DEF Spells
<1>2. /\ Null \notin Elems /\ HEAD \notin Elems /\ q \in Queue
      /\ q.first = Fore(s, 0) /\ q.last = Back(s, l + 1)
      /\ \A j \in 1..l : q.next[s[j]] = Fore(s, j) /\ q.prev[s[j]] = Back(s, j) /\ s[j] \in Elems /\ s[j] # e
      /\ \A j, k \in 1..l : s[j] = s[k] => j = k
  BY <1>1 DEF Spells, TailQAssumption
<1>3. PICK r : r = TAILQ_INSERT_TAIL(q, e)
  OBVIOUS
<1>4. Fore(s, l) = Null
  BY <1>1 DEF Fore
<1>5. CASE l = 0
  <2>1. q.last = HEAD
    BY <1>2, <1>5 DEF Back
  <2>2. /\ r \in Queue /\ r.first = e /\ r.last = e
        /\ r.next = [q.next EXCEPT ![e] = Null] /\ r.prev = [q.prev EXCEPT ![e] = HEAD]
    BY <1>2, <1>3, <2>1 DEF TAILQ_INSERT_TAIL, StoreAt, Queue
  <2>3. r.next[e] = Null /\ r.prev[e] = HEAD
    BY <1>2, <2>2 DEF Queue
  <2>4. Back(s, l + 1) = HEAD
    BY <1>5 DEF Back
  <2>5. QED
    BY <1>1, <1>3, <1>4, <1>5, <2>2, <2>3, <2>4 DEF IsPut
<1>6. CASE l # 0
  <2>1. l \in 1..l /\ s[l] \in Elems /\ s[l] # HEAD /\ s[l] # e /\ q.last = s[l]
    BY <1>2, <1>6 DEF Back
  <2>2. /\ r \in Queue /\ r.first = q.first /\ r.last = e
        /\ r.next = [q.next EXCEPT ![e] = Null, ![s[l]] = e] /\ r.prev = [q.prev EXCEPT ![e] = s[l]]
    BY <1>2, <1>3, <2>1 DEF TAILQ_INSERT_TAIL, StoreAt, Queue
  <2>3. r.next[e] = Null /\ r.prev[e] = s[l]
    BY <1>2, <2>1, <2>2 DEF Queue
  <2>4. ASSUME NEW j \in 1..l
        PROVE  r.next[s[j]] = (IF j = l THEN e ELSE Fore(s, j)) /\ r.prev[s[j]] = Back(s, j)
    <3>1. s[j] \in Elems /\ s[j] # e /\ (s[j] = s[l] <=> j = l)
      BY <1>2, <2>1
    <3>2. q.next[s[j]] = Fore(s, j) /\ q.prev[s[j]] = Back(s, j)
      BY <1>2
    <3>3. QED
      BY <1>2, <2>1, <2>2, <3>1, <3>2 DEF Queue
  <2>5. Back(s, l + 1) = s[l]
    BY <1>6 DEF Back
  <2>6. QED
    BY <1>1, <1>3, <1>4, <1>6, <2>2, <2>3, <2>4, <2>5 DEF IsPut
<1>7. QED
  BY <1>5, <1>6

(* TAILQ_INSERT_HEAD puts it in front of them.                             *)
LEMMA InsertHeadIs ==
  ASSUME TailQAssumption, NEW q, NEW s, Spells(q, s), NEW e \in Elems, \A j \in 1 .. Len(s) : s[j] # e
  PROVE  IsPut(TAILQ_INSERT_HEAD(q, e), q, s, 1, e)
<1>1. PICK l \in Nat : l = Len(s) /\ DOMAIN s = 1..l
  BY DEF Spells
<1>2. /\ Null \notin Elems /\ HEAD \notin Elems /\ q \in Queue
      /\ q.first = Fore(s, 0) /\ q.last = Back(s, l + 1)
      /\ \A j \in 1..l : q.next[s[j]] = Fore(s, j) /\ q.prev[s[j]] = Back(s, j) /\ s[j] \in Elems /\ s[j] # e
      /\ \A j, k \in 1..l : s[j] = s[k] => j = k
  BY <1>1 DEF Spells, TailQAssumption
<1>3. PICK r : r = TAILQ_INSERT_HEAD(q, e)
  OBVIOUS
<1>4. Back(s, 1) = HEAD
  BY DEF Back
<1>5. CASE l = 0
  <2>1. q.first = Null /\ Fore(s, 0) = Null
    BY <1>1, <1>2, <1>5 DEF Fore
  <2>2. /\ r \in Queue /\ r.first = e /\ r.last = e
        /\ r.next = [q.next EXCEPT ![e] = Null] /\ r.prev = [q.prev EXCEPT ![e] = HEAD]
    BY <1>2, <1>3, <2>1 DEF TAILQ_INSERT_HEAD, SetPrev, Queue
  <2>3. r.next[e] = Null /\ r.prev[e] = HEAD
    BY <1>2, <2>2 DEF Queue
  <2>4. QED
    BY <1>1, <1>3, <1>4, <1>5, <2>1, <2>2, <2>3 DEF IsPut
<1>6. CASE l # 0
  <2>1. 1 \in 1..l /\ s[1] \in Elems /\ s[1] # Null /\ s[1] # e /\ q.first = s[1]
    BY <1>1, <1>2, <1>6 DEF Fore
  <2>2. /\ r \in Queue /\ r.first = e /\ r.last = q.last
        /\ r.next = [q.next EXCEPT ![e] = s[1]] /\ r.prev = [q.prev EXCEPT ![s[1]] = e, ![e] = HEAD]
    BY <1>2, <1>3, <2>1 DEF TAILQ_INSERT_HEAD, SetPrev, Queue
  <2>3. r.next[e] = s[1] /\ r.prev[e] = HEAD
    BY <1>2, <2>1, <2>2 DEF Queue
  <2>4. ASSUME NEW j \in 1..l
        PROVE  r.next[s[j]] = Fore(s, j) /\ r.prev[s[j]] = IF j = 1 THEN e ELSE Back(s, j)
    <3>1. s[j] \in Elems /\ s[j] # e /\ (s[j] = s[1] <=> j = 1)
      BY <1>2, <2>1
    <3>2. q.next[s[j]] = Fore(s, j) /\ q.prev[s[j]] = Back(s, j)
      BY <1>2
    <3>3. QED
      BY <1>2, <2>1, <2>2, <3>1, <3>2 DEF Queue
  <2>5. Fore(s, 0) = s[1]
    BY <1>1, <1>6 DEF Fore
  <2>6. QED
    BY <1>1, <1>3, <1>4, <1>6, <2>2, <2>3, <2>4, <2>5 DEF IsPut
<1>7. QED
  BY <1>5, <1>6

(* TAILQ_INSERT_BEFORE puts it in the place of the i-th.                   *)
LEMMA InsertBeforeIs ==
  ASSUME TailQAssumption, NEW q, NEW s, Spells(q, s), NEW e \in Elems, \A j \in 1 .. Len(s) : s[j] # e,
         NEW i \in 1 .. Len(s)
  PROVE  IsPut(TAILQ_INSERT_BEFORE(q, s[i], e), q, s, i, e)
<1>1. PICK l \in Nat : l = Len(s) /\ DOMAIN s = 1..l /\ i \in 1..l
  BY DEF Spells
<1>2. /\ Null \notin Elems /\ HEAD \notin Elems /\ q \in Queue
      /\ q.first = Fore(s, 0) /\ q.last = Back(s, l + 1)
      /\ \A j \in 1..l : q.next[s[j]] = Fore(s, j) /\ q.prev[s[j]] = Back(s, j) /\ s[j] \in Elems /\ s[j] # e
      /\ \A j, k \in 1..l : s[j] = s[k] => j = k
  BY <1>1 DEF Spells, TailQAssumption
<1>3. PICK r : r = TAILQ_INSERT_BEFORE(q, s[i], e)
  OBVIOUS
<1>4. Fore(s, i - 1) = s[i] /\ s[i] \in Elems /\ s[i] # e /\ q.prev[s[i]] = Back(s, i)
  <2>1. Fore(s, i - 1) = s[i]
    BY <1>1 DEF Fore
  <2>2. QED
    BY <1>1, <1>2, <2>1
<1>5. CASE i = 1
  <2>1. Back(s, i) = HEAD
    BY <1>5 DEF Back
  <2>2. /\ r \in Queue /\ r.first = e /\ r.last = q.last
        /\ r.next = [q.next EXCEPT ![e] = s[i]] /\ r.prev = [q.prev EXCEPT ![e] = HEAD, ![s[i]] = e]
    BY <1>2, <1>3, <1>4, <2>1 DEF TAILQ_INSERT_BEFORE, StoreAt, Queue
  <2>3. r.next[e] = s[i] /\ r.prev[e] = HEAD
    BY <1>2, <1>4, <2>2 DEF Queue
  <2>4. ASSUME NEW j \in 1..l
        PROVE  r.next[s[j]] = Fore(s, j) /\ r.prev[s[j]] = IF j = i THEN e ELSE Back(s, j)
    <3>1. s[j] \in Elems /\ s[j] # e /\ (s[j] = s[i] <=> j = i)
      BY <1>1, <1>2
    <3>2. q.next[s[j]] = Fore(s, j) /\ q.prev[s[j]] = Back(s, j)
      BY <1>2
    <3>3. QED
      BY <1>2, <1>4, <2>2, <3>1, <3>2 DEF Queue
  <2>5. QED
    BY <1>1, <1>3, <1>4, <1>5, <2>1, <2>2, <2>3, <2>4 DEF IsPut
<1>6. CASE i # 1
  <2>1. PICK k \in 1..l : k = i - 1 /\ i # l + 1
    <3>1. i - 1 \in 1..l /\ i # l + 1
      BY <1>1, <1>6
    <3>2. QED
      BY <3>1
  <2>2. Back(s, i) = s[k] /\ s[k] \in Elems /\ s[k] # HEAD /\ s[k] # e
    <3>1. Back(s, i) = s[k]
      BY <1>1, <1>6, <2>1 DEF Back
    <3>2. QED
      BY <1>2, <2>1, <3>1
  <2>3. /\ r \in Queue /\ r.first = q.first /\ r.last = q.last
        /\ r.next = [q.next EXCEPT ![e] = s[i], ![s[k]] = e] /\ r.prev = [q.prev EXCEPT ![e] = s[k], ![s[i]] = e]
    BY <1>2, <1>3, <1>4, <2>2 DEF TAILQ_INSERT_BEFORE, StoreAt, Queue
  <2>4. r.next[e] = s[i] /\ r.prev[e] = s[k]
    BY <1>2, <1>4, <2>2, <2>3 DEF Queue
  <2>5. ASSUME NEW j \in 1..l
        PROVE  /\ r.next[s[j]] = IF j = i - 1 THEN e ELSE Fore(s, j)
               /\ r.prev[s[j]] = IF j = i THEN e ELSE Back(s, j)
    <3>1. s[j] \in Elems /\ s[j] # e /\ (s[j] = s[i] <=> j = i) /\ (s[j] = s[k] <=> j = i - 1)
      BY <1>1, <1>2, <2>1
    <3>2. q.next[s[j]] = Fore(s, j) /\ q.prev[s[j]] = Back(s, j)
      BY <1>2
    <3>3. QED
      BY <1>2, <1>4, <2>2, <2>3, <3>1, <3>2 DEF Queue
  <2>6. QED
    BY <1>1, <1>3, <1>4, <1>6, <2>1, <2>2, <2>3, <2>4, <2>5 DEF IsPut
<1>7. QED
  BY <1>5, <1>6

\* r is q, which spells s, with the i-th element taken out.
IsCut(r, q, s, i) ==
  /\ r \in Queue
  /\ r.first = IF i = 1 THEN Fore(s, 1) ELSE q.first
  /\ r.last = IF i = Len(s) THEN Back(s, i) ELSE q.last
  /\ \A j \in 1 .. Len(s) : j # i =>
       /\ r.next[s[j]] = IF j = i - 1 THEN Fore(s, i) ELSE Fore(s, j)
       /\ r.prev[s[j]] = IF j = i + 1 THEN Back(s, i) ELSE Back(s, j)

(* Then it spells the sequence without it.                                 *)
LEMMA CutSpells ==
  ASSUME NEW q, NEW s, Spells(q, s), NEW i \in 1 .. Len(s),
         NEW t \in Seq(Elems), Removed(t, s, i), NEW r, IsCut(r, q, s, i)
  PROVE  Spells(r, t)
<1>1. PICK l \in Nat : l = Len(s) /\ DOMAIN s = 1..l /\ i \in 1..l
  BY DEF Spells
<1>2. /\ \A j, k \in 1..l : s[j] = s[k] => j = k
      /\ q.first = Fore(s, 0) /\ q.last = Back(s, l + 1)
  BY <1>1 DEF Spells
<1>3. Len(t) = l - 1 /\ \A j \in 1..(l - 1) : t[j] = IF j < i THEN s[j] ELSE s[j + 1]
  BY <1>1 DEF Removed
<1>4. ASSUME NEW j \in 1..(l - 1), NEW k \in 1..(l - 1), t[j] = t[k] PROVE j = k
  <2>1. PICK a \in 1..l : a = (IF j < i THEN j ELSE j + 1) /\ t[j] = s[a]
    BY <1>1, <1>3
  <2>2. PICK b \in 1..l : b = (IF k < i THEN k ELSE k + 1) /\ t[k] = s[b]
    BY <1>1, <1>3
  <2>3. a = b
    BY <1>2, <1>4, <2>1, <2>2
  <2>4. QED
    BY <1>1, <2>1, <2>2, <2>3
<1>5. /\ r \in Queue
      /\ r.first = IF i = 1 THEN Fore(s, 1) ELSE q.first
      /\ r.last = IF i = l THEN Back(s, i) ELSE q.last
      /\ \A j \in 1..l : j # i =>
           /\ r.next[s[j]] = IF j = i - 1 THEN Fore(s, i) ELSE Fore(s, j)
           /\ r.prev[s[j]] = IF j = i + 1 THEN Back(s, i) ELSE Back(s, j)
  BY <1>1 DEF IsCut
<1>6. r.first = Fore(t, 0)
  <2>1. CASE i = 1
    <3>1. l > 1 => t[1] = s[2]
      BY <1>1, <1>3, <2>1
    <3>2. QED
      BY <1>1, <1>3, <1>5, <2>1, <3>1 DEF Fore
  <2>2. CASE i # 1
    <3>1. l > 1 /\ t[1] = s[1]
      BY <1>1, <1>3, <2>2
    <3>2. QED
      BY <1>1, <1>2, <1>3, <1>5, <2>2, <3>1 DEF Fore
  <2>3. QED
    BY <2>1, <2>2
<1>7. r.last = Back(t, l)
  BY <1>1, <1>2, <1>3, <1>5 DEF Back
<1>8. ASSUME NEW j \in 1..(l - 1) PROVE r.next[t[j]] = Fore(t, j) /\ r.prev[t[j]] = Back(t, j)
  <2>1. CASE j < i
    <3>1. j \in 1..l /\ j # i /\ j # i + 1 /\ t[j] = s[j]
      BY <1>1, <1>3, <2>1
    <3>2. Fore(t, j) = IF j = i - 1 THEN Fore(s, i) ELSE Fore(s, j)
      BY <1>1, <1>3, <2>1 DEF Fore
    <3>3. Back(t, j) = Back(s, j)
      BY <1>1, <1>3, <2>1 DEF Back
    <3>4. QED
      BY <1>5, <3>1, <3>2, <3>3
  <2>2. CASE j >= i
    <3>1. PICK k \in 1..l : k = j + 1 /\ k > i
      <4>1. j + 1 \in 1..l /\ j + 1 > i
        BY <1>1, <2>2
      <4>2. QED
        BY <4>1
    <3>2. t[j] = s[k] /\ k # i /\ k # i - 1 /\ Fore(t, j) = Fore(s, k)
      BY <1>1, <1>3, <2>2, <3>1 DEF Fore
    <3>3. Back(t, j) = IF k = i + 1 THEN Back(s, i) ELSE Back(s, k)
      BY <1>1, <1>3, <2>2, <3>1 DEF Back
    <3>4. QED
      BY <1>5, <3>1, <3>2, <3>3
  <2>3. QED
    BY <1>1, <2>1, <2>2
<1>9. Len(t) \in Nat /\ Len(t) + 1 = l
  BY <1>1, <1>3
<1>10. QED
  BY <1>3, <1>4, <1>5, <1>6, <1>7, <1>8, <1>9 DEF Spells

(* TAILQ_REMOVE and u_free take the i-th element out of a queue.           *)
LEMMA UnlinkIs ==
  ASSUME TailQAssumption, NEW q, NEW s, Spells(q, s), NEW i \in 1 .. Len(s)
  PROVE  IsCut(Unlink(q, s[i]), q, s, i)
<1>1. PICK l \in Nat : l = Len(s) /\ DOMAIN s = 1..l /\ i \in 1..l
  BY DEF Spells
<1>2. /\ Null \notin Elems /\ HEAD \notin Elems /\ q \in Queue
      /\ q.first = Fore(s, 0) /\ q.last = Back(s, l + 1)
      /\ \A j \in 1..l : q.next[s[j]] = Fore(s, j) /\ q.prev[s[j]] = Back(s, j) /\ s[j] \in Elems
      /\ \A j, k \in 1..l : s[j] = s[k] => j = k
  BY <1>1 DEF Spells, TailQAssumption
<1>3. PICK e \in Elems : e = s[i]
  BY <1>1, <1>2
<1>4. q.next[e] = Fore(s, i) /\ q.prev[e] = Back(s, i)
  BY <1>1, <1>2, <1>3
<1>5. PICK u : u = SetPrev(q, q.next[e], q.prev[e])
  OBVIOUS
<1>6. /\ u \in Queue /\ u.first = q.first /\ u.next = q.next
      /\ u.last = IF i = l THEN Back(s, i) ELSE q.last
      /\ \A j \in 1..l : u.prev[s[j]] = IF j = i + 1 THEN Back(s, i) ELSE Back(s, j)
  <2>1. Back(s, i) \in Elems \cup {HEAD}
    BY <1>1, <1>2 DEF Back
  <2>2. CASE i = l
    <3>1. q.next[e] = Null
      BY <1>1, <1>4, <2>2 DEF Fore
    <3>2. /\ u \in Queue /\ u.first = q.first /\ u.next = q.next /\ u.last = Back(s, i)
          /\ u.prev = q.prev
      BY <1>2, <1>4, <1>5, <2>1, <3>1 DEF SetPrev, Queue
    <3>3. QED
      BY <1>2, <2>2, <3>2
  <2>3. CASE i # l
    <3>1. PICK k \in 1..l : k = i + 1
      <4>1. i + 1 \in 1..l
        BY <1>1, <2>3
      <4>2. QED
        BY <4>1
    <3>2. q.next[e] = s[k] /\ s[k] \in Elems /\ s[k] # Null
      <4>1. Fore(s, i) = s[k]
        BY <1>1, <2>3, <3>1 DEF Fore
      <4>2. QED
        BY <1>2, <1>4, <4>1
    <3>3. /\ u \in Queue /\ u.first = q.first /\ u.next = q.next /\ u.last = q.last
          /\ u.prev = [q.prev EXCEPT ![s[k]] = Back(s, i)]
      BY <1>2, <1>4, <1>5, <2>1, <3>2 DEF SetPrev, Queue
    <3>4. ASSUME NEW j \in 1..l PROVE u.prev[s[j]] = IF j = k THEN Back(s, i) ELSE Back(s, j)
      BY <1>2, <3>1, <3>2, <3>3 DEF Queue
    <3>5. QED
      BY <1>1, <2>3, <3>1, <3>3, <3>4
  <2>4. QED
    BY <2>2, <2>3
<1>7. PICK v : v = StoreAt(u, q.prev[e], q.next[e])
  OBVIOUS
<1>8. /\ v \in Queue /\ v.last = u.last /\ v.prev = u.prev
      /\ v.first = IF i = 1 THEN Fore(s, i) ELSE q.first
      /\ \A j \in 1..l : v.next[s[j]] = IF j = i - 1 THEN Fore(s, i) ELSE Fore(s, j)
  <2>1. Fore(s, i) \in Elems \cup {Null}
    <3>1. i + 1 \in 1..l \/ ~(i < Len(s))
      BY <1>1
    <3>2. QED
      BY <1>2, <3>1 DEF Fore
  <2>2. CASE i = 1
    <3>1. q.prev[e] = HEAD
      BY <1>4, <2>2 DEF Back
    <3>2. v \in Queue /\ v.last = u.last /\ v.prev = u.prev /\ v.first = Fore(s, i) /\ v.next = u.next
      BY <1>4, <1>6, <1>7, <2>1, <3>1 DEF StoreAt, Queue
    <3>3. QED
      BY <1>2, <1>6, <2>2, <3>2
  <2>3. CASE i # 1
    <3>1. PICK k \in 1..l : k = i - 1
      <4>1. i - 1 \in 1..l
        BY <1>1, <2>3
      <4>2. QED
        BY <4>1
    <3>2. q.prev[e] = s[k] /\ s[k] \in Elems /\ s[k] # HEAD
      <4>1. Back(s, i) = s[k]
        BY <1>1, <2>3, <3>1 DEF Back
      <4>2. QED
        BY <1>2, <1>4, <4>1
    <3>3. /\ v \in Queue /\ v.last = u.last /\ v.prev = u.prev /\ v.first = u.first
          /\ v.next = [u.next EXCEPT ![s[k]] = Fore(s, i)]
      BY <1>4, <1>6, <1>7, <2>1, <3>2 DEF StoreAt, Queue
    <3>4. ASSUME NEW j \in 1..l PROVE v.next[s[j]] = IF j = k THEN Fore(s, i) ELSE Fore(s, j)
      BY <1>2, <1>6, <3>1, <3>2, <3>3 DEF Queue
    <3>5. QED
      BY <1>1, <1>6, <2>3, <3>1, <3>3, <3>4
  <2>4. QED
    BY <2>2, <2>3
<1>9. PICK r : r = Unlink(q, e)
  OBVIOUS
<1>10. /\ r \in Queue /\ r.first = v.first /\ r.last = v.last
       /\ r.next = [v.next EXCEPT ![e] = Null] /\ r.prev = [v.prev EXCEPT ![e] = HEAD]
  <2>1. r = [v EXCEPT !.next[e] = Null, !.prev[e] = HEAD]
    BY <1>5, <1>7, <1>9 DEF Unlink, TAILQ_REMOVE
  <2>2. QED
    BY <1>2, <1>8, <2>1 DEF Queue
<1>11. ASSUME NEW j \in 1..l, j # i
       PROVE  /\ r.next[s[j]] = IF j = i - 1 THEN Fore(s, i) ELSE Fore(s, j)
              /\ r.prev[s[j]] = IF j = i + 1 THEN Back(s, i) ELSE Back(s, j)
  <2>1. s[j] \in Elems /\ s[j] # e
    BY <1>1, <1>2, <1>3, <1>11
  <2>2. r.next[s[j]] = v.next[s[j]] /\ r.prev[s[j]] = v.prev[s[j]]
    BY <1>8, <1>10, <2>1 DEF Queue
  <2>3. QED
    BY <1>6, <1>8, <2>2
<1>12. r.first = (IF i = 1 THEN Fore(s, 1) ELSE q.first) /\ r.last = IF i = l THEN Back(s, i) ELSE q.last
  BY <1>6, <1>8, <1>10
<1>13. QED
  BY <1>1, <1>3, <1>9, <1>10, <1>11, <1>12 DEF IsCut

(* What a queue spells without one of its elements.                        *)
LEMMA Unlinked ==
  ASSUME TailQAssumption, NEW q, NEW s, Spells(q, s), NEW i \in 1 .. Len(s)
  PROVE  Spells(Unlink(q, s[i]), RemoveAt(s, i)) /\ Removed(RemoveAt(s, i), s, i)
<1>1. s \in Seq(Elems)
  BY DEF Spells
<1>2. RemoveAt(s, i) \in Seq(Elems) /\ Removed(RemoveAt(s, i), s, i)
  BY <1>1, RemoveAtIs
<1>3. QED
  BY <1>2, UnlinkIs, CutSpells

\* A round of the loop of u_list_clear.
Sweep(r) == IF r.first = Null THEN r ELSE Unlink(r, r.first)
IsLeft(f, q) == f = [n \in 0..MaxWalk |-> IF n = 0 THEN q ELSE Sweep(f[n - 1])]

(* Cleared is one of these.                                                *)
LEMMA ClearedChosen ==
  ASSUME NEW q
  PROVE  Cleared(q) = (CHOOSE f : IsLeft(f, q))[MaxWalk]
BY DEF Cleared, IsLeft, Sweep

(* A round takes the first element, if there is one.                       *)
LEMMA SweepIs ==
  ASSUME TailQAssumption, NEW q, NEW s, Spells(q, s)
  PROVE  \E t : Spells(Sweep(q), t) /\ (Len(t) = Len(s) - 1 \/ (Len(s) = 0 /\ Len(t) = 0))
<1>1. /\ s \in Seq(Elems) /\ Len(s) \in Nat /\ Null \notin Elems
      /\ q.first = IF 0 < Len(s) THEN s[1] ELSE Null
  BY DEF Spells, Fore, TailQAssumption
<1>2. CASE Len(s) = 0
  BY <1>1, <1>2 DEF Sweep
<1>3. CASE Len(s) # 0
  <2>1. 1 \in 1 .. Len(s) /\ s[1] \in Elems
    BY <1>1, <1>3
  <2>2. Sweep(q) = Unlink(q, s[1])
    BY <1>1, <1>3, <2>1 DEF Sweep
  <2>3. Spells(Unlink(q, s[1]), RemoveAt(s, 1)) /\ Removed(RemoveAt(s, 1), s, 1)
    BY <2>1, Unlinked
  <2>4. Len(RemoveAt(s, 1)) = Len(s) - 1
    BY <2>3 DEF Removed
  <2>5. QED
    BY <2>2, <2>3, <2>4
<1>4. QED
  BY <1>2, <1>3

(* u_list_clear leaves an empty queue.                                     *)
LEMMA ClearedIs ==
  ASSUME TailQAssumption, NEW q, NEW s, Spells(q, s)
  PROVE  \E t : Spells(Cleared(q), t) /\ t = <<>>
<1> DEFINE S == {r \in Queue : \E t : Spells(r, t)}
<1>1. s \in Seq(Elems) /\ MaxWalk \in Nat /\ Len(s) <= MaxWalk /\ Len(s) \in Nat
  <2>1. s \in Seq(Elems) /\ \A i, j \in 1 .. Len(s) : s[i] = s[j] => i = j
    BY DEF Spells
  <2>2. QED
    BY <2>1, Short
<1>2. \E f : IsLeft(f, q)
  <2>1. q \in S
    BY DEF Spells
  <2>2. PICK h : h = [r \in S |-> Sweep(r)]
    OBVIOUS
  <2>3. ASSUME NEW r \in S PROVE Sweep(r) \in S
    <3>1. PICK t : Spells(r, t)
      OBVIOUS
    <3>2. PICK w : Spells(Sweep(r), w)
      BY <3>1, SweepIs
    <3>3. Sweep(r) \in Queue
      BY <3>2 DEF Spells
    <3>4. QED
      BY <3>2, <3>3
  <2>4. h \in [S -> S]
    BY <2>2, <2>3
  <2>5. PICK f \in [0..MaxWalk -> S] : f[0] = q /\ \A k \in 1..MaxWalk : f[k] = h[f[k - 1]]
    <3> HIDE DEF S
    <3>1. PICK f \in [0..MaxWalk -> S] : Iterated(f, q, h, MaxWalk)
      BY <1>1, <2>1, <2>4, Iterates
    <3>2. QED
      BY <3>1 DEF Iterated
  <2>6. ASSUME NEW n \in 0..MaxWalk PROVE f[n] = IF n = 0 THEN q ELSE Sweep(f[n - 1])
    <3> HIDE DEF S
    <3>1. CASE n = 0
      BY <2>5, <3>1
    <3>2. CASE n # 0
      <4>1. n \in 1..MaxWalk /\ n - 1 \in 0..MaxWalk
        BY <1>1, <3>2
      <4>2. f[n - 1] \in S /\ f[n] = h[f[n - 1]]
        BY <2>5, <4>1
      <4>3. QED
        BY <2>2, <3>2, <4>2
    <3>3. QED
      BY <3>1, <3>2
  <2>7. f = [n \in 0..MaxWalk |-> IF n = 0 THEN q ELSE Sweep(f[n - 1])]
    <3> HIDE DEF S
    <3>1. QED
      BY <2>5, <2>6
  <2>8. QED
    BY <2>7 DEF IsLeft
<1>3. ASSUME NEW f, IsLeft(f, q) PROVE \E t : Spells(f[MaxWalk], t) /\ t = <<>>
  <2> DEFINE Left(n, t) == Spells(f[n], t) /\ (Len(t) + n <= Len(s) \/ Len(t) = 0)
             T == {n \in 0..MaxWalk : \E t : Left(n, t)}
  <2>1. f[0] = q /\ \A n \in 1..MaxWalk : f[n] = Sweep(f[n - 1])
    BY <1>1, <1>3 DEF IsLeft
  <2>2. 0 \in T
    <3>1. Left(0, s)
      BY <1>1, <2>1
    <3>2. QED
      BY <1>1, <3>1
  <2>3. ASSUME NEW m \in 0..MaxWalk, m \in T, m < MaxWalk PROVE m + 1 \in T
    <3>1. PICK t : Left(m, t)
      BY <2>3
    <3>2. Len(t) \in Nat
      BY <3>1 DEF Spells
    <3>3. PICK w : Spells(Sweep(f[m]), w) /\ (Len(w) = Len(t) - 1 \/ (Len(t) = 0 /\ Len(w) = 0))
      BY <3>1, SweepIs
    <3>4. f[m + 1] = Sweep(f[m])
      BY <1>1, <2>1, <2>3
    <3>5. Len(w) + (m + 1) <= Len(s) \/ Len(w) = 0
      BY <1>1, <3>1, <3>2, <3>3
    <3>6. Left(m + 1, w)
      BY <3>3, <3>4, <3>5
    <3>7. QED
      BY <1>1, <2>3, <3>6
  <2>4. MaxWalk \in T
    <3>1. \A m \in 0..MaxWalk : m \in T
      <4> HIDE DEF T
      <4>1. QED
        BY <1>1, <2>2, <2>3, Climb
    <3>2. QED
      BY <1>1, <3>1
  <2>5. PICK t : Left(MaxWalk, t)
    BY <2>4
  <2>6. t \in Seq(Elems) /\ Len(t) \in Nat /\ Len(s) < MaxWalk
    <3>1. \A i, j \in 1 .. Len(s) : s[i] = s[j] => i = j
      BY DEF Spells
    <3>2. QED
      BY <1>1, <2>5, <3>1, Short DEF Spells
  <2>7. Len(t) = 0
    BY <1>1, <2>5, <2>6
  <2>8. QED
    BY <2>5, <2>6, <2>7
<1>4. QED
  BY <1>2, <1>3, ClearedChosen

-----------------------------------------------------------------------------
(* The invariant of the list: what its links spell is what it should hold, *)
(* and a traversal has met, or has before it, what it should meet.         *)
Trip == [seen : Seq(Ptrs), at : Elems \cup {Null}, all : Seq(Ptrs)]

\* The traversal, its next item the j-th of s.
Ahead(s, j) ==
  /\ s[j] = it
  /\ Len(trip.all) <= Len(trip.seen) + (Len(s) - j + 1)
  /\ \A k \in 1 .. Len(trip.all) :
       trip.all[k] = IF k <= Len(trip.seen) THEN trip.seen[k] ELSE items[k - Len(trip.seen) + j - 1]
  /\ trip.at # Null => j > 1 /\ trip.at = s[j - 1]
Behind ==
  /\ Len(trip.all) <= Len(trip.seen)
  /\ \A k \in 1 .. Len(trip.all) : trip.all[k] = trip.seen[k]
OnWay(s) == trip # NoTrip => IF it = Null THEN Behind ELSE \E j \in 1 .. Len(s) : Ahead(s, j)

Holds(s) ==
  /\ Spells(head, s)
  /\ items \in Seq(Ptrs) /\ Len(items) = Len(s)
  /\ ptr \in [Elems -> Ptrs \cup {Null}]
  /\ \A k \in 1 .. Len(s) : items[k] = ptr[s[k]]
  /\ count \in Nat /\ count >= Len(s)
  /\ it \in Elems \cup {Null} /\ trip \in Trip
  /\ OnWay(s)
ListInv == \E s : Holds(s)

(* An empty queue spells nothing.                                          *)
LEMMA EmptySpells ==
  ASSUME TailQAssumption
  PROVE  Spells(TAILQ_INIT, <<>>)
BY DEF TailQAssumption, TAILQ_INIT, Spells, Queue, Fore, Back

(* The list starts so.                                                     *)
LEMMA InitListInv ==
  ASSUME TailQAssumption, ListInit
  PROVE  ListInv
<1>1. Spells(head, <<>>)
  BY EmptySpells DEF ListInit
<1>2. Holds(<<>>)
  BY <1>1 DEF Holds, OnWay, ListInit, Trip, NoTrip
<1>3. QED
  BY <1>2 DEF ListInv

(* u_list_insert and u_list_add.                                           *)
LEMMA InsertKeeps ==
  ASSUME TailQAssumption, NEW s, Holds(s), NEW p \in Ptrs, NEW n \in Nat, ListInsert(p, n)
  PROVE  ListInv'
<1>1. PICK l \in Nat : l = Len(s) /\ s \in Seq(Elems) /\ DOMAIN s = 1..l
  BY DEF Holds, Spells
<1>2. /\ Spells(head, s)
      /\ items \in Seq(Ptrs) /\ Len(items) = l
      /\ ptr \in [Elems -> Ptrs \cup {Null}]
      /\ \A k \in 1..l : items[k] = ptr[s[k]] /\ s[k] \in Elems
      /\ count \in Nat /\ count >= l
      /\ it \in Elems \cup {Null} /\ trip \in Trip /\ OnWay(s)
  BY <1>1 DEF Holds
<1>3. PICK e : e = NewItem /\ e \in Elems /\ \A j \in 1..l : s[j] # e
  <2>1. TAILQ_FOREACH(head) = s
    BY <1>2, ForeachIs
  <2>2. NewItem \in FreeItems
    BY DEF NewItem, ListInsert
  <2>3. QED
    BY <1>1, <2>1, <2>2 DEF FreeItems, Linked, ToSet
<1>4. PICK i \in 1..(l + 1) : i = IF n = count THEN l + 1 ELSE n + 1
  <2>1. n = count \/ (n < count /\ count = l)
    BY <1>2 DEF ListInsert, Exact
  <2>2. QED
    BY <1>2, <2>1
<1>5. IsPut(head', head, s, i, e)
  <2>1. CASE n = 0
    <3>1. i = 1 /\ head' = TAILQ_INSERT_HEAD(head, e)
      BY <1>2, <1>3, <1>4, <2>1 DEF ListInsert
    <3>2. QED
      BY <1>1, <1>2, <1>3, <3>1, InsertHeadIs
  <2>2. CASE n # 0 /\ n = count
    <3>1. i = Len(s) + 1 /\ head' = TAILQ_INSERT_TAIL(head, e)
      BY <1>1, <1>3, <1>4, <2>2 DEF ListInsert
    <3>2. QED
      BY <1>1, <1>2, <1>3, <3>1, InsertTailIs
  <2>3. CASE n # 0 /\ n # count
    <3>1. i = n + 1 /\ i \in 1..l
      BY <1>2, <1>4, <2>3 DEF ListInsert, Exact
    <3>2. NthItem(n) = s[i]
      <4>1. TAILQ_FOREACH(head) = s
        BY <1>2, ForeachIs
      <4>2. QED
        BY <1>1, <3>1, <4>1 DEF NthItem
    <3>3. head' = TAILQ_INSERT_BEFORE(head, s[i], e)
      BY <1>3, <2>3, <3>2 DEF ListInsert
    <3>4. QED
      BY <1>1, <1>2, <1>3, <3>1, <3>3, InsertBeforeIs
  <2>4. QED
    BY <2>1, <2>2, <2>3
<1>6. items' \in Seq(Ptrs) /\ Inserted(items', items, i, p)
  <2>1. CASE n = count
    <3>1. items' = Append(items, p) /\ i = Len(items) + 1
      BY <1>2, <1>4, <2>1 DEF ListInsert
    <3>2. QED
      BY <1>2, <3>1, AppendIs
  <2>2. CASE n # count
    <3>1. items' = InsertAt(items, i, p) /\ i \in 1 .. (Len(items) + 1)
      BY <1>2, <1>4, <2>2 DEF ListInsert
    <3>2. QED
      BY <1>2, <3>1, InsertAtIs
  <2>3. QED
    BY <2>1, <2>2
<1>7. PICK t : t \in Seq(Elems) /\ Inserted(t, s, i, e)
  BY <1>1, <1>3, InsertAtIs
<1>8. Spells(head', t)
  BY <1>1, <1>2, <1>3, <1>5, <1>7, PutSpells
<1>9. Len(t) = l + 1 /\ Len(items') = l + 1
      /\ (\A k \in 1..(l + 1) : t[k] = IF k < i THEN s[k] ELSE IF k = i THEN e ELSE s[k - 1])
      /\ (\A k \in 1..(l + 1) : items'[k] = IF k < i THEN items[k] ELSE IF k = i THEN p ELSE items[k - 1])
  BY <1>1, <1>2, <1>6, <1>7 DEF Inserted
<1>10. /\ ptr' = [ptr EXCEPT ![e] = p] /\ count' = count + 1 /\ it' = it /\ trip' = trip
       /\ trip # NoTrip => i = l + 1
  BY <1>3, <1>4 DEF ListInsert
<1>11. ASSUME NEW k \in 1..(l + 1) PROVE items'[k] = ptr'[t[k]]
  <2>1. CASE k < i
    BY <1>2, <1>3, <1>4, <1>9, <1>10, <2>1
  <2>2. CASE k = i
    BY <1>2, <1>3, <1>4, <1>9, <1>10, <2>2
  <2>3. CASE k > i
    <3>1. k - 1 \in 1..l /\ t[k] = s[k - 1] /\ items'[k] = items[k - 1]
      BY <1>4, <1>9, <2>3
    <3>2. QED
      BY <1>2, <1>3, <1>10, <3>1
  <2>4. QED
    BY <1>4, <2>1, <2>2, <2>3
<1>12. OnWay(t)'
  <2>1. CASE trip = NoTrip
    BY <1>10, <2>1 DEF OnWay
  <2>2. CASE trip # NoTrip /\ it = Null
    BY <1>2, <1>10, <2>2 DEF OnWay, Behind
  <2>3. CASE trip # NoTrip /\ it # Null
    <3>1. PICK j \in 1..l : Ahead(s, j)
      BY <1>1, <1>2, <2>3 DEF OnWay
    <3>2. i = l + 1
      BY <1>10, <2>3
    <3>3. t[j] = s[j] /\ \A k \in 1..l : items'[k] = items[k] /\ t[k] = s[k]
      BY <1>9, <3>1, <3>2
    <3>4. PICK a \in Nat, b \in Nat : a = Len(trip.all) /\ b = Len(trip.seen)
      BY <1>2 DEF Trip
    <3>5. a <= b + (l - j + 1)
      BY <1>1, <3>1, <3>4 DEF Ahead
    <3>6. \A k \in 1..a : trip.all[k] = IF k <= b THEN trip.seen[k] ELSE items[k - b + j - 1]
      BY <3>1, <3>4 DEF Ahead
    <3>7. t[j] = it /\ (trip.at # Null => j > 1 /\ trip.at = t[j - 1])
      <4>1. s[j] = it /\ (trip.at # Null => j > 1 /\ trip.at = s[j - 1])
        BY <3>1 DEF Ahead
      <4>2. j > 1 => j - 1 \in 1..l
        OBVIOUS
      <4>3. QED
        BY <3>3, <4>1, <4>2
    <3>8. Ahead(t, j)'
      <4>1. a <= b + (l + 1 - j + 1)
        BY <3>5
      <4>2. ASSUME NEW k \in 1..a
            PROVE  trip.all[k] = IF k <= b THEN trip.seen[k] ELSE items'[k - b + j - 1]
        <5>1. k <= b \/ k - b + j - 1 \in 1..l
          BY <3>5
        <5>2. QED
          BY <3>3, <3>6, <5>1
      <4>3. Len(t) = l + 1
        BY <1>9
      <4>4. Len(trip.all) <= Len(trip.seen) + (Len(t) - j + 1)
        <5>1. Len(t) - j + 1 = l + 1 - j + 1
          BY <4>3
        <5>2. QED
          BY <3>4, <4>1, <5>1
      <4>5. \A k \in 1 .. Len(trip.all) :
              trip.all[k] = IF k <= Len(trip.seen) THEN trip.seen[k]
                            ELSE items'[k - Len(trip.seen) + j - 1]
        BY <3>4, <4>2
      <4>6. trip' = trip /\ it' = it
        BY <1>10
      <4>7. QED
        BY <3>7, <4>4, <4>5, <4>6 DEF Ahead
    <3>9. j \in 1 .. Len(t)
      BY <1>9
    <3>10. QED
      BY <1>10, <2>3, <3>8, <3>9 DEF OnWay
  <2>4. QED
    BY <2>1, <2>2, <2>3
<1>13. ptr' \in [Elems -> Ptrs \cup {Null}]
  BY <1>2, <1>3, <1>10
<1>14. count' \in Nat /\ count' >= Len(t)
  BY <1>2, <1>9, <1>10
<1>15. Holds(t)'
  BY <1>2, <1>6, <1>8, <1>9, <1>10, <1>11, <1>12, <1>13, <1>14 DEF Holds
<1>16. QED
  BY <1>15 DEF ListInv

\* The removal of an element, before the next item of a traversal.
Removes(s, i) ==
  /\ head' = Unlink(head, s[i]) /\ items' = RemoveAt(items, i)
  /\ count' = count - 1 /\ ptr' = ptr /\ it' = it
  /\ trip' = IF trip # NoTrip THEN [trip EXCEPT !.at = Null] ELSE trip
  /\ trip # NoTrip => \A j \in 1 .. Len(s) : Ahead(s, j) => i < j

(* What u_list_del and u_list_del_n have in common.                        *)
LEMMA RemoveKeeps ==
  ASSUME TailQAssumption, NEW s, Holds(s), NEW i \in 1 .. Len(s), Removes(s, i)
  PROVE  ListInv'
<1>1. PICK l \in Nat : l = Len(s) /\ s \in Seq(Elems) /\ DOMAIN s = 1..l /\ i \in 1..l
  BY DEF Holds, Spells
<1>2. /\ Spells(head, s)
      /\ items \in Seq(Ptrs) /\ Len(items) = l
      /\ ptr \in [Elems -> Ptrs \cup {Null}]
      /\ \A k \in 1..l : items[k] = ptr[s[k]] /\ s[k] \in Elems
      /\ count \in Nat /\ count >= l
      /\ it \in Elems \cup {Null} /\ trip \in Trip /\ OnWay(s)
  BY <1>1 DEF Holds
<1>3. PICK t : t = RemoveAt(s, i)
  OBVIOUS
<1>4. Spells(head', t) /\ Removed(t, s, i) /\ t \in Seq(Elems)
  <2>1. Spells(head', t) /\ Removed(t, s, i)
    BY <1>2, <1>3, Unlinked DEF Removes
  <2>2. QED
    BY <2>1 DEF Spells
<1>5. items' \in Seq(Ptrs) /\ Removed(items', items, i)
  <2>1. i \in 1 .. Len(items)
    BY <1>1, <1>2
  <2>2. QED
    BY <1>2, <2>1, RemoveAtIs DEF Removes
<1>6. Len(t) = l - 1 /\ Len(items') = l - 1
  BY <1>1, <1>2, <1>4, <1>5 DEF Removed
<1>7. \A k \in 1..(l - 1) : t[k] = IF k < i THEN s[k] ELSE s[k + 1]
  BY <1>4, <1>6 DEF Removed
<1>8. \A k \in 1..(l - 1) : items'[k] = IF k < i THEN items[k] ELSE items[k + 1]
  BY <1>5, <1>6 DEF Removed
<1>9. ASSUME NEW k \in 1..(l - 1) PROVE items'[k] = ptr'[t[k]]
  <2>1. t[k] = (IF k < i THEN s[k] ELSE s[k + 1]) /\ items'[k] = IF k < i THEN items[k] ELSE items[k + 1]
    BY <1>7, <1>8
  <2>2. k \in 1..l /\ k + 1 \in 1..l
    OBVIOUS
  <2>3. ptr' = ptr
    BY DEF Removes
  <2>4. QED
    BY <1>2, <2>1, <2>2, <2>3
<1>10. trip' \in Trip
  BY <1>2 DEF Trip, Removes
<1>11. OnWay(t)'
  <2>1. CASE trip = NoTrip
    BY <2>1 DEF OnWay, Removes
  <2>2. CASE trip # NoTrip
    <3>1. /\ trip'.at = Null /\ trip'.all = trip.all /\ trip'.seen = trip.seen
          /\ trip.all \in Seq(Ptrs) /\ trip.seen \in Seq(Ptrs)
      BY <1>2, <2>2 DEF Trip, Removes
    <3>2. CASE it = Null
      <4>1. Behind
        BY <1>2, <2>2, <3>2 DEF OnWay
      <4>2. Behind'
        BY <3>1, <4>1 DEF Behind
      <4>3. QED
        BY <3>2, <4>2 DEF OnWay, Removes
    <3>3. CASE it # Null
      <4>1. PICK m \in 1..l : Ahead(s, m)
        BY <1>1, <1>2, <2>2, <3>3 DEF OnWay
      <4>2. i < m
        BY <1>1, <2>2, <4>1 DEF Removes
      <4>3. PICK j \in 1..(l - 1) : j = m - 1 /\ m = j + 1 /\ i <= j
        <5>1. m - 1 \in 1..(l - 1)
          BY <1>1, <4>2
        <5>2. QED
          BY <1>1, <4>2, <5>1
      <4>4. PICK a \in Nat, b \in Nat : a = Len(trip.all) /\ b = Len(trip.seen)
        BY <1>2 DEF Trip
      <4>5. a <= b + (l - m + 1)
        BY <1>1, <4>1, <4>4 DEF Ahead
      <4>6. \A k \in 1..a : trip.all[k] = IF k <= b THEN trip.seen[k] ELSE items[k - b + m - 1]
        BY <4>1, <4>4 DEF Ahead
      <4>7. t[j] = it
        <5>1. s[m] = it
          BY <4>1 DEF Ahead
        <5>2. QED
          BY <1>7, <4>3, <5>1
      <4>8. Ahead(t, j)'
        <5>1. a <= b + (l - 1 - j + 1)
          BY <4>3, <4>5
        <5>2. ASSUME NEW k \in 1..a
              PROVE  trip.all[k] = IF k <= b THEN trip.seen[k] ELSE items'[k - b + j - 1]
          <6>1. CASE k <= b
            BY <4>6, <6>1
          <6>2. CASE ~(k <= b)
            <7>1. PICK c \in 1..(l - 1) : c = k - b + j - 1 /\ c + 1 = k - b + m - 1 /\ c >= i
              <8>1. k - b + j - 1 \in 1..(l - 1)
                <9>1. j \in Nat /\ j >= 1 /\ k \in Nat /\ b \in Nat /\ a \in Nat /\ l \in Nat /\ k <= a /\ k > b
                  BY <6>2
                <9>2. QED
                  BY <5>1, <9>1
              <8>2. k - b + j - 1 + 1 = k - b + m - 1 /\ k - b + j - 1 >= i
                <9>1. i \in Nat /\ i <= j /\ m = j + 1 /\ k \in Nat /\ b \in Nat /\ k > b
                  BY <1>1, <4>3, <6>2
                <9>2. QED
                  BY <9>1
              <8>3. QED
                BY <8>1, <8>2
            <7>2. items'[c] = items[c + 1]
              BY <1>1, <1>8, <7>1
            <7>3. QED
              BY <4>6, <6>2, <7>1, <7>2
          <6>3. QED
            BY <6>1, <6>2
        <5>3. Len(t) - j + 1 = l - 1 - j + 1
          BY <1>6
        <5>4. Len(trip.all) <= Len(trip.seen) + (Len(t) - j + 1)
          BY <4>4, <5>1, <5>3
        <5>5. \A k \in 1 .. Len(trip.all) :
                trip.all[k] = IF k <= Len(trip.seen) THEN trip.seen[k]
                              ELSE items'[k - Len(trip.seen) + j - 1]
          BY <4>4, <5>2
        <5>6. QED
          BY <3>1, <4>7, <5>4, <5>5 DEF Ahead, Removes
      <4>9. j \in 1 .. Len(t)
        BY <1>6
      <4>10. QED
        BY <3>3, <4>8, <4>9 DEF OnWay, Removes
    <3>4. QED
      BY <3>2, <3>3
  <2>3. QED
    BY <2>1, <2>2
<1>12. count' \in Nat /\ count' >= Len(t)
  <2>1. count' = count - 1
    BY DEF Removes
  <2>2. QED
    BY <1>1, <1>2, <1>6, <2>1
<1>13. ptr' = ptr /\ it' = it
  BY DEF Removes
<1>14. Holds(t)'
  BY <1>2, <1>4, <1>5, <1>6, <1>9, <1>10, <1>11, <1>12, <1>13 DEF Holds
<1>15. QED
  BY <1>14 DEF ListInv

(* u_list_del.                                                             *)
LEMMA DelKeeps ==
  ASSUME TailQAssumption, NEW s, Holds(s), NEW p \in Ptrs, ListDel(p)
  PROVE  ListInv'
<1>1. /\ Spells(head, s) /\ s \in Seq(Elems) /\ Len(s) \in Nat
      /\ items \in Seq(Ptrs) /\ Len(items) = Len(s)
      /\ \A k \in 1 .. Len(s) : items[k] = ptr[s[k]]
  BY DEF Holds, Spells
<1>2. PICK i \in DOMAIN items :
        /\ items[i] = p /\ \A j \in 1..(i - 1) : items[j] # p
        /\ head' = Unlink(head, TAILQ_FOREACH(head)[i])
        /\ items' = RemoveAt(items, i)
        /\ trip' = IF trip # NoTrip THEN [trip EXCEPT !.at = Null] ELSE trip
  BY DEF ListDel
<1>3. i \in 1 .. Len(s) /\ head' = Unlink(head, s[i])
  BY <1>1, <1>2, ForeachIs
<1>4. ASSUME trip # NoTrip, NEW j \in 1 .. Len(s), Ahead(s, j) PROVE i < j
  <2>1. trip.at # Null /\ ptr[trip.at] = p
    BY <1>4 DEF ListDel
  <2>2. j > 1 /\ trip.at = s[j - 1]
    BY <1>4, <2>1 DEF Ahead
  <2>3. j - 1 \in 1 .. Len(s) /\ items[j - 1] = p
    BY <1>1, <2>1, <2>2
  <2>4. QED
    BY <1>1, <1>2, <1>3, <2>3
<1>5. count' = count - 1 /\ ptr' = ptr /\ it' = it
  BY DEF ListDel
<1>6. QED
  BY <1>2, <1>3, <1>4, <1>5, RemoveKeeps DEF Removes

(* u_list_del_n.                                                           *)
LEMMA DelNKeeps ==
  ASSUME TailQAssumption, NEW s, Holds(s), NEW n \in Nat, DelN(n)
  PROVE  ListInv'
<1>1. Spells(head, s) /\ s \in Seq(Elems) /\ Len(s) \in Nat /\ Len(items) = Len(s)
  BY DEF Holds, Spells
<1>2. n + 1 \in 1 .. Len(s)
  BY <1>1 DEF DelN, Exact
<1>3. NthItem(n) = s[n + 1]
  BY <1>1, <1>2, ForeachIs DEF NthItem
<1>4. /\ head' = Unlink(head, s[n + 1]) /\ items' = RemoveAt(items, n + 1)
      /\ count' = count - 1 /\ ptr' = ptr /\ it' = it /\ trip' = trip /\ trip = NoTrip
  BY <1>3 DEF DelN
<1>5. QED
  BY <1>2, <1>4, RemoveKeeps DEF Removes

(* u_list_clear and u_list_free.                                           *)
LEMMA EmptyKeeps ==
  ASSUME TailQAssumption, NEW s, Holds(s), ListClear \/ ListFree
  PROVE  ListInv'
<1>1. PICK t : Spells(head', t) /\ t = <<>>
  <2>1. CASE ListClear
    <3>1. Spells(head, s) /\ head' = Cleared(head)
      BY <2>1 DEF Holds, ListClear
    <3>2. QED
      BY <3>1, ClearedIs
  <2>2. CASE ListFree
    BY <2>2, EmptySpells DEF ListFree
  <2>3. QED
    BY <2>1, <2>2
<1>2. /\ items' = <<>> /\ ptr' = ptr /\ it' = it /\ trip' = trip /\ trip = NoTrip
      /\ count' = count \/ count' = 0
  BY DEF ListClear, ListFree
<1>3. Holds(t)'
  BY <1>1, <1>2 DEF Holds, OnWay
<1>4. QED
  BY <1>3 DEF ListInv

(* u_list_first.                                                           *)
LEMMA FirstKeeps ==
  ASSUME TailQAssumption, NEW s, Holds(s), ListFirst
  PROVE  ListInv'
<1>1. PICK l \in Nat : l = Len(s) /\ s \in Seq(Elems) /\ DOMAIN s = 1..l /\ l = Len(items)
  BY DEF Holds, Spells
<1>2. /\ items \in Seq(Ptrs) /\ Null \notin Elems
      /\ \A k \in 1..l : items[k] = ptr[s[k]] /\ s[k] \in Elems /\ head.next[s[k]] = Fore(s, k)
      /\ head.first = Fore(s, 0)
  BY <1>1 DEF Holds, Spells, TailQAssumption
<1>3. 1 \in 1..l
  BY <1>1, <1>2 DEF ListFirst
<1>4. head.first = s[1]
  BY <1>1, <1>2, <1>3 DEF Fore
<1>5. it' = IF 1 < l THEN s[2] ELSE Null
  BY <1>1, <1>2, <1>3, <1>4 DEF ListFirst, After, Fore
<1>6. /\ trip' = [seen |-> <<items[1]>>, at |-> s[1], all |-> items]
      /\ head' = head /\ ptr' = ptr /\ count' = count /\ items' = items
  BY <1>2, <1>3, <1>4 DEF ListFirst
<1>7. trip'.seen = <<items[1]>> /\ trip'.at = s[1] /\ trip'.all = items /\ items[1] \in Ptrs
  BY <1>1, <1>2, <1>3, <1>6
<1>8. Len(trip'.seen) = 1 /\ trip'.seen[1] = items[1] /\ Len(trip'.all) = l
  BY <1>1, <1>7
<1>9. it' \in Elems \cup {Null} /\ trip' \in Trip
  BY <1>1, <1>2, <1>3, <1>5, <1>6, <1>7 DEF Trip
<1>10. OnWay(s)'
  <2>1. CASE l = 1
    <3>1. it' = Null /\ Behind'
      BY <1>5, <1>7, <1>8, <2>1 DEF Behind
    <3>2. QED
      BY <3>1 DEF OnWay
  <2>2. CASE l # 1
    <3>1. 2 \in 1..l /\ it' = s[2]
      BY <1>3, <1>5, <2>2
    <3>2. \A k \in 1..l : items[k] = IF k <= 1 THEN <<items[1]>>[k] ELSE items[k - 1 + 2 - 1]
      OBVIOUS
    <3>3. Ahead(s, 2)'
      BY <1>1, <1>6, <1>7, <1>8, <3>1, <3>2 DEF Ahead
    <3>4. it' # Null
      BY <1>2, <3>1
    <3>5. QED
      BY <1>1, <3>1, <3>3, <3>4 DEF OnWay
  <2>3. QED
    BY <2>1, <2>2
<1>11. Holds(s)'
  BY <1>6, <1>9, <1>10 DEF Holds
<1>12. QED
  BY <1>11 DEF ListInv

(* u_list_next.                                                            *)
LEMMA NextItemKeeps ==
  ASSUME TailQAssumption, NEW s, Holds(s), NextItem
  PROVE  ListInv'
<1>1. PICK l \in Nat : l = Len(s) /\ s \in Seq(Elems) /\ DOMAIN s = 1..l /\ l = Len(items)
  BY DEF Holds, Spells
<1>2. /\ items \in Seq(Ptrs) /\ Null \notin Elems /\ trip \in Trip
      /\ \A k \in 1..l : items[k] = ptr[s[k]] /\ s[k] \in Elems /\ head.next[s[k]] = Fore(s, k)
  BY <1>1 DEF Holds, Spells, TailQAssumption
<1>3. head' = head /\ ptr' = ptr /\ count' = count /\ items' = items /\ trip # NoTrip
  BY DEF NextItem
<1>4. CASE it = Null
  <2>1. it' = Null /\ trip' = NoTrip
    BY <1>4 DEF NextItem, After
  <2>2. trip' \in Trip /\ OnWay(s)'
    BY <2>1 DEF Trip, NoTrip, OnWay
  <2>3. Holds(s)'
    BY <1>3, <2>1, <2>2 DEF Holds
  <2>4. QED
    BY <2>3 DEF ListInv
<1>5. CASE it # Null
  <2>1. PICK j \in 1..l : Ahead(s, j)
    BY <1>1, <1>3, <1>5 DEF Holds, OnWay
  <2>2. it = s[j] /\ it \in Elems /\ ptr[it] = items[j] /\ items[j] \in Ptrs
    BY <1>1, <1>2, <2>1 DEF Ahead
  <2>3. trip' = [trip EXCEPT !.seen = Append(@, items[j]), !.at = it]
    BY <1>5, <2>2 DEF NextItem
  <2>4. /\ trip.seen \in Seq(Ptrs) /\ trip.all \in Seq(Ptrs)
        /\ trip'.seen = Append(trip.seen, items[j]) /\ trip'.at = s[j] /\ trip'.all = trip.all
        /\ trip' \in Trip
    <3>1. trip.seen \in Seq(Ptrs) /\ trip.all \in Seq(Ptrs)
      BY <1>2 DEF Trip
    <3>2. PICK u : u = Append(trip.seen, items[j]) /\ u \in Seq(Ptrs)
      <4>1. Append(trip.seen, items[j]) \in Seq(Ptrs)
        BY <2>2, <3>1, AppendIs
      <4>2. QED
        BY <4>1
    <3>3. trip' = [trip EXCEPT !.seen = u, !.at = it]
      BY <2>3, <3>2
    <3>4. trip' = [seen |-> u, at |-> it, all |-> trip.all]
      BY <1>2, <3>3 DEF Trip
    <3>5. QED
      BY <2>2, <3>1, <3>2, <3>4 DEF Trip
  <2>5. it' = IF j < l THEN s[j + 1] ELSE Null
    BY <1>1, <1>2, <1>5, <2>2 DEF NextItem, After, Fore
  <2>6. PICK a \in Nat, b \in Nat : a = Len(trip.all) /\ b = Len(trip.seen)
    BY <2>4
  <2>7. Len(trip'.seen) = b + 1 /\ \A k \in 1..(b + 1) : trip'.seen[k] = IF k = b + 1 THEN items[j] ELSE trip.seen[k]
    BY <2>4, <2>6
  <2>8. a <= b + (l - j + 1)
    BY <1>1, <2>1, <2>6 DEF Ahead
  <2>9. \A k \in 1..a : trip.all[k] = IF k <= b THEN trip.seen[k] ELSE items[k - b + j - 1]
    BY <2>1, <2>6 DEF Ahead
  <2>10. \A k \in 1..a : trip.all[k] = IF k <= b + 1 THEN trip'.seen[k] ELSE items[k - b + j - 1]
    <3>1. TAKE k \in 1..a
    <3>2. CASE k <= b
      BY <2>7, <2>9, <3>2
    <3>3. CASE k = b + 1
      BY <2>7, <2>9, <3>3
    <3>4. CASE k > b + 1
      BY <2>9, <3>4
    <3>5. QED
      BY <3>2, <3>3, <3>4
  <2>11. OnWay(s)'
    <3>1. CASE j = l
      <4>1. a <= b + 1
        BY <2>8, <3>1
      <4>2. \A k \in 1..a : trip.all[k] = trip'.seen[k]
        BY <2>10, <4>1
      <4>3. Behind'
        BY <2>4, <2>6, <2>7, <4>1, <4>2 DEF Behind
      <4>4. it' = Null
        BY <2>5, <3>1
      <4>5. QED
        BY <4>3, <4>4 DEF OnWay
    <3>2. CASE j # l
      <4>1. PICK m \in 1..l : m = j + 1
        <5>1. j + 1 \in 1..l
          BY <3>2
        <5>2. QED
          BY <5>1
      <4>2. it' = s[m] /\ it' # Null
        BY <1>2, <2>5, <4>1
      <4>3. \A k \in 1..a : trip.all[k] = IF k <= b + 1 THEN trip'.seen[k] ELSE items[k - (b + 1) + m - 1]
        <5>1. TAKE k \in 1..a
        <5>2. k - (b + 1) + m - 1 = k - b + j - 1
          BY <4>1
        <5>3. QED
          BY <2>10, <5>2
      <4>4. a <= (b + 1) + (l - m + 1)
        BY <2>8, <4>1
      <4>5. s[m - 1] = s[j] /\ m > 1
        BY <4>1
      <4>6. Ahead(s, m)'
        <5>1. Len(trip'.all) = a /\ Len(trip'.seen) = b + 1 /\ trip'.all = trip.all
          BY <2>4, <2>6, <2>7
        <5>2. Len(trip'.all) <= Len(trip'.seen) + (Len(s) - m + 1)
          BY <1>1, <4>4, <5>1
        <5>3. \A k \in 1 .. Len(trip'.all) :
                trip'.all[k] = IF k <= Len(trip'.seen) THEN trip'.seen[k]
                               ELSE items'[k - Len(trip'.seen) + m - 1]
          BY <1>3, <4>3, <5>1
        <5>4. QED
          BY <2>4, <4>2, <4>5, <5>2, <5>3 DEF Ahead
      <4>7. QED
        BY <1>1, <4>2, <4>6 DEF OnWay
    <3>3. QED
      BY <3>1, <3>2
  <2>12. it' \in Elems \cup {Null}
    BY <1>2, <2>5
  <2>13. Holds(s)'
    BY <1>3, <2>4, <2>11, <2>12 DEF Holds
  <2>14. QED
    BY <2>13 DEF ListInv
<1>6. QED
  BY <1>4, <1>5

(* Every step of the list keeps the invariant.                             *)
LEMMA NextListInv ==
  ASSUME TailQAssumption, ListInv, ListNext
  PROVE  ListInv'
<1>1. PICK s : Holds(s)
  BY DEF ListInv
<1>2. 0..Cardinality(Elems) \subseteq Nat
  BY FS_CardinalityType DEF TailQAssumption
<1>3. CASE \E p \in Ptrs : Add(p) \/ ListDel(p) \/ \E n \in 0..Cardinality(Elems) : ListInsert(p, n)
  <2>1. count \in Nat
    BY <1>1 DEF Holds
  <2>2. QED
    BY <1>1, <1>2, <1>3, <2>1, InsertKeeps, DelKeeps DEF Add
<1>4. CASE \E n \in 0..Cardinality(Elems) : DelN(n)
  BY <1>1, <1>2, <1>4, DelNKeeps
<1>5. CASE ListClear \/ ListFree
  BY <1>1, <1>5, EmptyKeeps
<1>6. CASE ListFirst
  BY <1>1, <1>6, FirstKeeps
<1>7. CASE NextItem
  BY <1>1, <1>7, NextItemKeeps
<1>8. QED
  BY <1>3, <1>4, <1>5, <1>6, <1>7 DEF ListNext

(* What the invariant says of the sequence.                                *)
LEMMA InvListIsSequence ==
  ASSUME TailQAssumption, ListInv
  PROVE  ListIsSequence
<1>1. PICK s : Holds(s)
  BY DEF ListInv
<1>2. PICK l \in Nat : l = Len(s) /\ s \in Seq(Elems) /\ DOMAIN s = 1..l /\ l = Len(items)
  BY <1>1 DEF Holds, Spells
<1>3. /\ items \in Seq(Ptrs) /\ Null \notin Elems
      /\ \A k \in 1..l : items[k] = ptr[s[k]] /\ s[k] \in Elems
  BY <1>1, <1>2 DEF Holds, Spells, TailQAssumption
<1>4. TAILQ_FOREACH(head) = s /\ TAILQ_FOREACH_REVERSE(head) = Reverse(s)
  BY <1>1, ForeachIs, ReverseIs DEF Holds
<1>5. [i \in DOMAIN s |-> ptr[s[i]]] = items
  BY <1>2, <1>3
<1>6. ASSUME Exact, NEW n \in 0..count PROVE GetN(n) = IF n < count THEN items[n + 1] ELSE Null
  <2>1. count = l
    BY <1>2, <1>6 DEF Exact
  <2>2. NthItem(n) = IF n < l THEN s[n + 1] ELSE Null
    BY <1>2, <1>4 DEF NthItem
  <2>3. n < l => n + 1 \in 1..l
    BY <2>1
  <2>4. QED
    BY <1>3, <2>1, <2>2, <2>3 DEF GetN
<1>7. QED
  BY <1>4, <1>5, <1>6 DEF ListIsSequence

(* A sequence is the beginning of another if it agrees with it.            *)
LEMMA PrefixIs ==
  ASSUME NEW T, NEW s \in Seq(T), NEW t \in Seq(T), Len(s) <= Len(t), \A k \in 1 .. Len(s) : s[k] = t[k]
  PROVE  IsPrefix(s, t)
BY DEF IsPrefix

(* And of the traversal.                                                   *)
LEMMA InvTraversalSafe ==
  ASSUME TailQAssumption, ListInv
  PROVE  TraversalSafe
<1>1. PICK s : Holds(s)
  BY DEF ListInv
<1>2. SUFFICES ASSUME trip # NoTrip
               PROVE  /\ it # Null => it \in Linked
                      /\ IsPrefix(trip.seen, trip.all)
                         \/ (Len(trip.seen) > Len(trip.all) /\ IsPrefix(trip.all, trip.seen))
                      /\ it = Null => Len(trip.seen) >= Len(trip.all)
  BY DEF TraversalSafe
<1>3. trip.seen \in Seq(Ptrs) /\ trip.all \in Seq(Ptrs) /\ OnWay(s) /\ s \in Seq(Elems)
  BY <1>1 DEF Holds, Trip, Spells
<1>4. PICK a \in Nat, b \in Nat : a = Len(trip.all) /\ b = Len(trip.seen)
  BY <1>3
<1>5. CASE it = Null
  <2>1. Behind
    BY <1>2, <1>3, <1>5 DEF OnWay
  <2>2. a <= b /\ \A k \in 1..a : trip.all[k] = trip.seen[k]
    BY <1>4, <2>1 DEF Behind
  <2>3. IsPrefix(trip.all, trip.seen)
    BY <1>3, <1>4, <2>2, PrefixIs
  <2>4. CASE a = b
    <3>1. IsPrefix(trip.seen, trip.all)
      BY <1>3, <1>4, <2>2, <2>4, PrefixIs
    <3>2. QED
      BY <1>4, <1>5, <2>4, <3>1
  <2>5. CASE a # b
    BY <1>4, <1>5, <2>2, <2>3, <2>5
  <2>6. QED
    BY <2>4, <2>5
<1>6. CASE it # Null
  <2>1. PICK j \in 1 .. Len(s) : Ahead(s, j)
    BY <1>2, <1>3, <1>6 DEF OnWay
  <2>2. it \in Linked
    <3>1. TAILQ_FOREACH(head) = s
      BY <1>1, ForeachIs DEF Holds
    <3>2. s[j] = it
      BY <2>1 DEF Ahead
    <3>3. QED
      BY <1>3, <3>1, <3>2 DEF Linked, ToSet
  <2>3. \A k \in 1..a : k <= b => trip.all[k] = trip.seen[k]
    BY <1>4, <2>1 DEF Ahead
  <2>4. CASE b <= a
    <3>1. \A k \in 1..b : trip.seen[k] = trip.all[k]
      BY <2>3, <2>4
    <3>2. IsPrefix(trip.seen, trip.all)
      <4>1. Len(trip.seen) <= Len(trip.all) /\ \A k \in 1 .. Len(trip.seen) : trip.seen[k] = trip.all[k]
        BY <1>4, <2>4, <3>1
      <4>2. QED
        BY <1>3, <4>1, PrefixIs
    <3>3. QED
      BY <1>6, <2>2, <3>2
  <2>5. CASE b > a
    <3>1. \A k \in 1..a : trip.all[k] = trip.seen[k]
      BY <2>3, <2>5
    <3>2. IsPrefix(trip.all, trip.seen)
      <4>1. Len(trip.all) <= Len(trip.seen) /\ \A k \in 1 .. Len(trip.all) : trip.all[k] = trip.seen[k]
        BY <1>4, <2>5, <3>1
      <4>2. QED
        BY <1>3, <4>1, PrefixIs
    <3>3. QED
      BY <1>4, <1>6, <2>2, <2>5, <3>2
  <2>6. QED
    BY <2>4, <2>5
<1>7. QED
  BY <1>5, <1>6

-----------------------------------------------------------------------------
(* The invariant of the array: what was set is there, within the slots.    *)
Fits(n, t) == n \in Nat /\ n <= MaxNslots(t)
ArrayInv ==
  \/ da.type = "unset" /\ DOMAIN put = {}
  \/ /\ da = [type |-> da.type, nslots |-> da.nslots, base |-> da.base]
     /\ da.type \in DOMAIN SizeOf
     /\ Fits(da.nslots, da.type)
     /\ DOMAIN da.base = 0..(da.nslots - 1)
     /\ DOMAIN put \subseteq 0..(da.nslots - 1)
     /\ \A i \in DOMAIN put : put[i] = da.base[i]

(* n slots fit as long as n is at most the quotient.                       *)
LEMMA FitsIs ==
  ASSUME ArrayAssumption, NEW t \in DOMAIN SizeOf, NEW n \in Nat
  PROVE  MaxNslots(t) \in Nat /\ (n <= MaxNslots(t) <=> n * SizeOf[t] <= SizeMax)
<1>1. PICK d \in Nat \ {0} : d = SizeOf[t]
  BY DEF ArrayAssumption
<1>2. PICK m \in Nat : m = SizeMax
  BY DEF ArrayAssumption
<1>3. PICK c \in Nat : c = m \div d /\ c * d <= m /\ m < (c + 1) * d
  <2>1. m \div d \in Nat
    OBVIOUS
  <2>2. (m \div d) * d <= m /\ m < (m \div d + 1) * d
    OBVIOUS
  <2>3. QED
    BY <2>1, <2>2
<1>4. n <= c => n * d <= m
  <2>1. n <= c => n * d <= c * d
    OBVIOUS
  <2>2. QED
    BY <1>3, <2>1
<1>5. n > c => n * d > m
  <2>1. n >= c + 1 => n * d >= (c + 1) * d
    OBVIOUS
  <2>2. QED
    BY <1>3, <2>1
<1>6. MaxNslots(t) = c
  BY <1>1, <1>2, <1>3 DEF MaxNslots
<1>7. QED
  BY <1>1, <1>2, <1>4, <1>5, <1>6

(* The invariant of the array holds at the start.                          *)
LEMMA InitArrayInv ==
  ASSUME ArrayInit
  PROVE  ArrayInv
BY DEF ArrayInit, ArrayInv, Filled

(* The setters, the resizing they do included.                             *)
LEMMA SetKeeps ==
  ASSUME ArrayAssumption, ArrayInv, NEW t \in DOMAIN SizeOf, NEW idx \in Indexes, NEW v, Set(t, idx, v)
  PROVE  ArrayInv'
<1>1. idx \in Nat /\ ResizePad \in Nat /\ da.type = t /\ "unset" \notin DOMAIN SizeOf
  BY DEF ArrayAssumption, Set
<1>2. /\ da = [type |-> t, nslots |-> da.nslots, base |-> da.base]
      /\ DOMAIN da.base = 0..(da.nslots - 1)
      /\ DOMAIN put \subseteq 0..(da.nslots - 1)
      /\ \A i \in DOMAIN put : put[i] = da.base[i]
  BY <1>1 DEF ArrayInv
<1>3. PICK n \in Nat : n = da.nslots /\ n <= MaxNslots(t)
  BY <1>1 DEF ArrayInv, Fits
<1>4. PICK c \in Nat : c = MaxNslots(t)
  BY <1>3, FitsIs
<1>5. PICK m \in Nat : /\ m = IF idx < n THEN n ELSE NewNslots(da, idx)
                       /\ m <= c /\ n <= m /\ idx < m
  <2>1. idx < n \/ idx < c - 1
    BY <1>1, <1>3, <1>4 DEF Set, CanGrow
  <2>2. NewNslots(da, idx) = IF c - ResizePad - 1 >= idx THEN idx + ResizePad + 1 ELSE c
    BY <1>1, <1>4 DEF NewNslots
  <2>3. QED
    BY <1>1, <1>3, <1>4, <2>1, <2>2
<1>6. PICK a : a = ArrayResize(da, idx)
  OBVIOUS
<1>7. PICK b : /\ DOMAIN b = 0..(m - 1) /\ \A i \in 0..(n - 1) : b[i] = da.base[i]
               /\ a = [type |-> t, nslots |-> m, base |-> b]
  <2>1. CASE idx < n
    BY <1>2, <1>3, <1>5, <1>6, <2>1 DEF ArrayResize
  <2>2. CASE ~(idx < n)
    <3>1. PICK b : b = [i \in 0..(m - 1) |-> IF i < n THEN da.base[i] ELSE Unknown]
      OBVIOUS
    <3>2. a = [da EXCEPT !.nslots = m, !.base = b]
      BY <1>3, <1>5, <1>6, <2>2, <3>1 DEF ArrayResize
    <3>3. a = [type |-> t, nslots |-> m, base |-> b]
      <4>1. PICK g : da = [type |-> t, nslots |-> n, base |-> g]
        BY <1>2, <1>3
      <4>2. QED
        BY <3>2, <4>1
    <3>4. \A i \in 0..(n - 1) : b[i] = da.base[i]
      BY <1>5, <3>1
    <3>5. QED
      BY <3>1, <3>3, <3>4
  <2>3. QED
    BY <2>1, <2>2
<1>8. PICK w : w = [i \in DOMAIN b \cup {idx} |-> IF i = idx THEN v ELSE b[i]]
  OBVIOUS
<1>9. da' = [type |-> t, nslots |-> m, base |-> w]
  <2>1. da' = [a EXCEPT !.base = w]
    BY <1>6, <1>7, <1>8 DEF Set
  <2>2. QED
    BY <1>7, <2>1
<1>10. DOMAIN w = 0..(m - 1)
  BY <1>1, <1>5, <1>7, <1>8
<1>11. put' = [i \in DOMAIN put \cup {idx} |-> IF i = idx THEN v ELSE put[i]]
  BY DEF Set
<1>12. DOMAIN put' \subseteq 0..(m - 1)
  BY <1>1, <1>2, <1>3, <1>5, <1>11
<1>13. ASSUME NEW i \in DOMAIN put' PROVE put'[i] = w[i]
  <2>1. CASE i = idx
    BY <1>8, <1>11, <2>1
  <2>2. CASE i # idx
    <3>1. i \in DOMAIN put /\ put'[i] = put[i] /\ i \in 0..(n - 1)
      BY <1>2, <1>3, <1>11, <2>2
    <3>2. i \in DOMAIN b
      BY <1>10, <1>12, <1>7
    <3>3. QED
      BY <1>2, <1>7, <1>8, <2>2, <3>1, <3>2
  <2>3. QED
    BY <2>1, <2>2
<1>14. da'.type = t /\ da'.nslots = m /\ da'.base = w /\ Fits(m, t)
  BY <1>4, <1>5, <1>9 DEF Fits
<1>15. QED
  BY <1>9, <1>10, <1>12, <1>13, <1>14 DEF ArrayInv

(* u_array_create.                                                         *)
LEMMA CreateKeeps ==
  ASSUME ArrayAssumption, NEW t \in DOMAIN SizeOf, NEW n \in Nat, ArrayCreate(t, n)
  PROVE  ArrayInv'
<1>1. PICK m : m = IF n = 0 THEN NslotsDfl ELSE IF n > MaxNslots(t) THEN MaxNslots(t) ELSE n
  OBVIOUS
<1>2. NslotsDfl \in Nat /\ NslotsDfl <= MaxNslots(t) /\ MaxNslots(t) \in Nat
  <2>1. NslotsDfl \in Nat /\ NslotsDfl * SizeOf[t] <= SizeMax
    BY DEF ArrayAssumption
  <2>2. QED
    BY <2>1, FitsIs
<1>3. Fits(m, t)
  BY <1>1, <1>2 DEF Fits
<1>4. da' = [type |-> t, nslots |-> m, base |-> Filled(m, ZeroSlot)] /\ put' = Filled(0, ZeroSlot)
  BY <1>1 DEF ArrayCreate
<1>5. DOMAIN Filled(m, ZeroSlot) = 0..(m - 1) /\ DOMAIN Filled(0, ZeroSlot) = {}
  BY DEF Filled
<1>6. da'.type = t /\ da'.nslots = m /\ da'.base = Filled(m, ZeroSlot)
  BY <1>4
<1>7. QED
  BY <1>3, <1>4, <1>5, <1>6 DEF ArrayInv

(* Every step of the array keeps the invariant.                            *)
LEMMA NextArrayInv ==
  ASSUME ArrayAssumption, ArrayInv, ArrayNext
  PROVE  ArrayInv'
<1>1. CASE \E t \in DOMAIN SizeOf, n \in {0, 1} \cup Indexes : ArrayCreate(t, n)
  <2>1. Indexes \subseteq Nat
    BY DEF ArrayAssumption
  <2>2. QED
    BY <1>1, <2>1, CreateKeeps
<1>2. CASE \E t \in DOMAIN SizeOf, i \in Indexes, v \in SlotVals : Set(t, i, v)
  BY <1>2, SetKeeps
<1>3. CASE SetFails
  BY <1>3 DEF SetFails, ArrayInv, arrayVars
<1>4. QED
  BY <1>1, <1>2, <1>3 DEF ArrayNext

(* What the invariant says of the getters and the memory.                  *)
LEMMA InvArrayHolds ==
  ASSUME ArrayAssumption, ArrayInv
  PROVE  ArrayHolds
<1>1. SUFFICES ASSUME da.type # "unset"
               PROVE  /\ DOMAIN da.base = 0..(da.nslots - 1)
                      /\ da.nslots * SizeOf[da.type] <= SizeMax
                      /\ \A t \in DOMAIN SizeOf, i \in DOMAIN put :
                           Get(t, i) = IF t = da.type THEN put[i] ELSE "error"
  BY DEF ArrayHolds
<1>2. /\ da.type \in DOMAIN SizeOf
      /\ da.nslots \in Nat /\ da.nslots <= MaxNslots(da.type)
      /\ DOMAIN da.base = 0..(da.nslots - 1)
      /\ DOMAIN put \subseteq 0..(da.nslots - 1)
      /\ \A i \in DOMAIN put : put[i] = da.base[i]
  BY <1>1 DEF ArrayInv, Fits
<1>3. da.nslots * SizeOf[da.type] <= SizeMax
  BY <1>2, FitsIs
<1>4. ASSUME NEW t \in DOMAIN SizeOf, NEW i \in DOMAIN put
      PROVE  Get(t, i) = IF t = da.type THEN put[i] ELSE "error"
  <2>1. i \in 0..(da.nslots - 1) /\ i \in DOMAIN da.base /\ put[i] = da.base[i]
    BY <1>2
  <2>2. ~(i > da.nslots - 1)
    BY <1>2, <2>1
  <2>3. QED
    BY <2>1, <2>2 DEF Get
<1>5. QED
  BY <1>2, <1>3, <1>4

-----------------------------------------------------------------------------
(* Through any insertions, removals and traversals the links of a list     *)
(* spell, forwards and backwards, the sequence the calls asked for, a      *)
(* traversal meets what was there when it began, once each and in order;   *)
(* and every value set in an array is read back, within the allocated      *)
(* block (list.c, array.c).                                                *)
THEOREM ListArrayIsSound ==
  ASSUME TailQAssumption, ArrayAssumption
  PROVE  ListArraySpec => []ListSound
<1>1. ListArrayInit => ListInv /\ ArrayInv
  BY InitListInv, InitArrayInv DEF ListArrayInit
<1>2. ListInv /\ ArrayInv /\ [ListArrayNext]_<<listVars, arrayVars>> => (ListInv /\ ArrayInv)'
  <2>1. SUFFICES ASSUME ListInv, ArrayInv, [ListArrayNext]_<<listVars, arrayVars>>
                 PROVE  ListInv' /\ ArrayInv'
    OBVIOUS
  <2>2. listVars' = listVars => ListInv'
    <3>1. HAVE listVars' = listVars
    <3>2. PICK s : Holds(s)
      BY <2>1 DEF ListInv
    <3>3. Holds(s)'
      BY <3>1, <3>2 DEF Holds, OnWay, Ahead, Behind, listVars
    <3>4. QED
      BY <3>3 DEF ListInv
  <2>3. arrayVars' = arrayVars => ArrayInv'
    BY <2>1 DEF arrayVars, ArrayInv
  <2>4. QED
    BY <2>1, <2>2, <2>3, NextListInv, NextArrayInv DEF ListArrayNext
<1>3. ListInv /\ ArrayInv => ListSound
  BY InvListIsSequence, InvTraversalSafe, InvArrayHolds DEF ListSound
<1>4. QED
  BY <1>1, <1>2, <1>3, PTL DEF ListArraySpec

-----------------------------------------------------------------------------
(* A function on 1 .. n is a sequence of that length.                      *)
LEMMA IsSequence ==
  ASSUME NEW n \in Nat, NEW T, NEW f \in [1 .. n -> T]
  PROVE  f \in Seq(T) /\ Len(f) = n
OBVIOUS

\* t holds the m elements of s that come after the first p.
Part(t, T, s, p, m) ==
  /\ t \in Seq(T) /\ Len(t) = m
  /\ \A k \in 1 .. m : t[k] = s[p + k]

(* What SubSeq takes.                                                      *)
LEMMA PartIs ==
  ASSUME NEW T, NEW s \in Seq(T), NEW p \in Nat, NEW m \in Nat, p + m <= Len(s), NEW t, t = SubSeq(s, p + 1, p + m)
  PROVE  Part(t, T, s, p, m)
<1>1. p + 1 \in 1 .. (Len(s) + 1) /\ p + m \in (p + 1 - 1) .. Len(s) /\ p + m - (p + 1) + 1 = m
      /\ \A k \in 1 .. m : p + 1 + k - 1 = p + k
  OBVIOUS
<1>2. /\ t \in Seq(T) /\ Len(t) = p + m - (p + 1) + 1
      /\ \A k \in 1 .. (p + m - (p + 1) + 1) : t[k] = s[p + 1 + k - 1]
  BY <1>1, SubSeqIs
<1>3. QED
  BY <1>1, <1>2 DEF Part

(* The first elements, and all of them.                                    *)
LEMMA FrontIs ==
  ASSUME NEW T, NEW s \in Seq(T), NEW m \in 0 .. Len(s), NEW t, t = SubSeq(s, 1, m)
  PROVE  Part(t, T, s, 0, m) /\ (m = Len(s) => t = s)
<1>1. m \in Nat /\ 0 + m = m /\ 0 + 1 = 1 /\ m <= Len(s)
  OBVIOUS
<1>2. Part(t, T, s, 0, m)
  BY <1>1, PartIs
<1>3. ASSUME m = Len(s) PROVE t = s
  <2>1. t \in Seq(T) /\ Len(t) = Len(s) /\ \A k \in 1 .. Len(t) : t[k] = s[k]
    BY <1>1, <1>2, <1>3 DEF Part
  <2>2. QED
    BY <2>1, SeqEqual
<1>4. QED
  BY <1>2, <1>3

(* A part, and the one behind it.                                          *)
LEMMA PartsJoin ==
  ASSUME NEW T, NEW s \in Seq(T), NEW p \in Nat, NEW m \in Nat,
         NEW a, Part(a, T, s, 0, p), NEW b, Part(b, T, s, p, m), NEW t, Part(t, T, s, 0, p + m)
  PROVE  a \o b = t
<1>1. /\ a \in Seq(T) /\ Len(a) = p /\ \A k \in 1 .. p : a[k] = s[k]
      /\ b \in Seq(T) /\ Len(b) = m /\ \A k \in 1 .. m : b[k] = s[p + k]
      /\ t \in Seq(T) /\ Len(t) = p + m /\ \A k \in 1 .. (p + m) : t[k] = s[k]
  BY DEF Part
<1>2. /\ a \o b \in Seq(T) /\ Len(a \o b) = p + m
      /\ \A k \in 1 .. (p + m) : (a \o b)[k] = IF k <= p THEN a[k] ELSE b[k - p]
  BY <1>1, ConcatIs
<1>3. ASSUME NEW k \in 1 .. (p + m) PROVE (a \o b)[k] = t[k]
  <2>1. CASE k <= p
    <3>1. k \in 1 .. p
      BY <2>1
    <3>2. a[k] = s[k] /\ t[k] = s[k] /\ (a \o b)[k] = a[k]
      BY <1>1, <1>2, <2>1, <3>1, Zenon
    <3>3. QED
      BY <3>2, Zenon
  <2>2. CASE ~(k <= p)
    <3>1. k - p \in 1 .. m /\ p + (k - p) = k
      BY <2>2
    <3>2. QED
      BY <1>1, <1>2, <2>2, <3>1
  <2>3. QED
    BY <2>1, <2>2
<1>4. QED
  BY <1>1, <1>2, <1>3, SeqEqual

(* Base64.  Where x has no low bits and y only those, | is +.              *)
LEMMA OrIs ==
  ASSUME NEW x \in Nat, NEW y \in Nat
  PROVE  /\ x < 64 /\ y < 4 => Or(x * 4, y) = x * 4 + y
         /\ x < 16 /\ y < 16 => Or(x * 16, y) = x * 16 + y
         /\ x < 4 /\ y < 64 => Or(x * 64, y) = x * 64 + y
<1>1. ASSUME x < 64, y < 4 PROVE Or(x * 4, y) = x * 4 + y
  BY <1>1, Z3 DEF Or
<1>2. ASSUME x < 16, y < 16 PROVE Or(x * 16, y) = x * 16 + y
  BY <1>2, Z3 DEF Or
<1>3. ASSUME x < 4, y < 64 PROVE Or(x * 64, y) = x * 64 + y
  BY <1>3, Z3 DEF Or
<1>4. QED
  BY <1>1, <1>2, <1>3

\* The characters of a group, and where it ends.
Alphabet == 0 .. 65
IsGroup(in) == in \in Seq(0 .. 255) /\ Len(in) \in 1 .. 3

(* A byte that is missing is taken for 0.                                  *)
LEMMA AtIs ==
  ASSUME NEW in, IsGroup(in), NEW i \in 1 .. 3
  PROVE  At(in, i) \in 0 .. 255 /\ (i <= Len(in) => At(in, i) = in[i])
<1>1. in \in Seq(0 .. 255) /\ DOMAIN in = 1 .. Len(in) /\ Len(in) \in 1 .. 3
  BY DEF IsGroup
<1>2. CASE i <= Len(in)
  <2>1. i \in 1 .. Len(in)
    BY <1>1, <1>2
  <2>2. in[i] \in 0 .. 255
    BY <1>1, <2>1, ElementOfSeq, Zenon
  <2>3. At(in, i) = in[i]
    BY <1>1, <2>1, Zenon DEF At
  <2>4. QED
    BY <2>2, <2>3
<1>3. CASE ~(i <= Len(in))
  BY <1>1, <1>3 DEF At
<1>4. QED
  BY <1>2, <1>3

\* The text of a group of bytes.
GroupText(c, in) ==
  /\ c \in Seq(0 .. 64) /\ Len(c) = 4 /\ DOMAIN c = 1 .. 4
  /\ c[1] = At(in, 1) \div 4 /\ c[2] = (At(in, 1) % 4) * 16 + At(in, 2) \div 16
  /\ c[3] = IF Len(in) > 1 THEN (At(in, 2) % 16) * 4 + At(in, 3) \div 64 ELSE Pad
  /\ c[4] = IF Len(in) > 2 THEN At(in, 3) % 64 ELSE Pad
  /\ \A i \in 1 .. 4 : c[i] \in 0 .. 64 /\ (c[i] = Pad <=> i > Len(in) + 1)

(* A group is four characters, of which the missing bytes are padding.     *)
LEMMA ChunkEncoded ==
  ASSUME NEW in, IsGroup(in), NEW c, c = ChunkEncode(in)
  PROVE  GroupText(c, in)
<1>1. PICK a, b, d \in 0 .. 255 : a = At(in, 1) /\ b = At(in, 2) /\ d = At(in, 3)
  <2>1. At(in, 1) \in 0 .. 255 /\ At(in, 2) \in 0 .. 255 /\ At(in, 3) \in 0 .. 255
    BY AtIs
  <2>2. QED
    BY <2>1
<1>2. PICK c1, c2, c3, c4 \in 0 .. 63 :
        c1 = a \div 4 /\ c2 = (a % 4) * 16 + b \div 16 /\ c3 = (b % 16) * 4 + d \div 64 /\ c4 = d % 64
  <2>1. a \div 4 \in 0 .. 63 /\ (a % 4) * 16 + b \div 16 \in 0 .. 63
    BY Z3
  <2>2. (b % 16) * 4 + d \div 64 \in 0 .. 63 /\ d % 64 \in 0 .. 63
    BY Z3
  <2>3. QED
    BY <2>1, <2>2, Zenon
<1>3. ChunkEncode(in) = <<c1, c2, IF Len(in) > 1 THEN c3 ELSE Pad, IF Len(in) > 2 THEN c4 ELSE Pad>>
  BY <1>1, <1>2, Zenon DEF ChunkEncode
<1>4. PICK m \in 1 .. 3 : m = Len(in)
  BY DEF IsGroup
<1>5. PICK e, f \in 0 .. 64 : /\ e = IF m > 1 THEN c3 ELSE Pad
                              /\ f = IF m > 2 THEN c4 ELSE Pad
  <2>1. c3 \in 0 .. 64 /\ c4 \in 0 .. 64 /\ Pad \in 0 .. 64
    BY DEF Pad
  <2>2. PICK e : e = IF m > 1 THEN c3 ELSE Pad
    OBVIOUS
  <2>3. PICK f : f = IF m > 2 THEN c4 ELSE Pad
    OBVIOUS
  <2>4. e \in 0 .. 64 /\ f \in 0 .. 64
    BY <2>1, <2>2, <2>3, Zenon
  <2>5. QED
    BY <2>2, <2>3, <2>4, Zenon
<1>6. c = <<c1, c2, e, f>>
  BY <1>3, <1>4, <1>5
<1>7. c \in Seq(0 .. 64) /\ Len(c) = 4 /\ DOMAIN c = 1 .. 4 /\ c[1] = c1 /\ c[2] = c2 /\ c[3] = e /\ c[4] = f
  BY <1>6
<1>8. ASSUME NEW i \in 1 .. 4 PROVE c[i] \in 0 .. 64 /\ (c[i] = Pad <=> i > m + 1)
  <2>1. Pad = 64
    BY DEF Pad
  <2>2. e \in 0 .. 64 /\ (e = 64 <=> 3 > m + 1) /\ f \in 0 .. 64 /\ (f = 64 <=> 4 > m + 1)
    BY <1>5, <2>1
  <2>3. c1 \in 0 .. 63 /\ c2 \in 0 .. 63
    BY <1>2
  <2>4. \A x \in 0 .. 63 : x \in 0 .. 64 /\ x # 64
    OBVIOUS
  <2>5. c1 \in 0 .. 64 /\ c1 # 64 /\ c2 \in 0 .. 64 /\ c2 # 64
    BY <2>3, <2>4, Zenon
  <2>6. CASE i = 1
    <3>1. c[i] = c1 /\ ~(i > m + 1)
      BY <1>4, <1>7, <2>6
    <3>2. QED
      BY <2>1, <2>5, <3>1, Zenon
  <2>7. CASE i = 2
    <3>1. c[i] = c2 /\ ~(i > m + 1)
      <4>1. ~(2 > m + 1)
        BY <1>4
      <4>2. QED
        BY <1>7, <2>7, <4>1, Zenon
    <3>2. QED
      BY <2>1, <2>5, <3>1, Zenon
  <2>8. CASE i = 3
    BY <1>7, <2>1, <2>2, <2>8
  <2>9. CASE i = 4
    BY <1>7, <2>1, <2>2, <2>9
  <2>10. QED
    BY <2>6, <2>7, <2>8, <2>9
<1>9. QED
  BY <1>1, <1>2, <1>4, <1>5, <1>7, <1>8 DEF GroupText

(* Its characters are of the alphabet, its padding is counted, and it is   *)
(* decoded to the bytes.                                                   *)
LEMMA ChunkDecoded ==
  ASSUME NEW in, IsGroup(in), NEW c, c = ChunkEncode(in)
  PROVE  /\ Cardinality({i \in DOMAIN c : c[i] = Pad}) = 3 - Len(in)
         /\ ~ \E i \in DOMAIN c : c[i] # Pad /\ ~IsBase64(c[i])
         /\ SubSeq(ChunkDecode(c), 1, Len(in)) = in
<1>1. PICK m \in 1 .. 3 : m = Len(in)
  BY DEF IsGroup
<1>2. PICK a, b, d \in 0 .. 255 : a = At(in, 1) /\ b = At(in, 2) /\ d = At(in, 3)
  <2>1. At(in, 1) \in 0 .. 255 /\ At(in, 2) \in 0 .. 255 /\ At(in, 3) \in 0 .. 255
    BY AtIs
  <2>2. QED
    BY <2>1
<1>3. /\ c \in Seq(0 .. 64) /\ Len(c) = 4 /\ DOMAIN c = 1 .. 4
      /\ c[1] = a \div 4 /\ c[2] = (a % 4) * 16 + b \div 16
      /\ m > 1 => c[3] = (b % 16) * 4 + d \div 64
      /\ m > 2 => c[4] = d % 64
      /\ \A i \in 1 .. 4 : c[i] \in 0 .. 64 /\ (c[i] = Pad <=> i > m + 1)
  <2>1. GroupText(c, in)
    BY ChunkEncoded
  <2>2. QED
    BY <1>1, <1>2, <2>1, Zenon DEF GroupText
<1>4. Cardinality({i \in DOMAIN c : c[i] = Pad}) = 3 - m
  <2>1. {i \in DOMAIN c : c[i] = Pad} = (m + 2) .. 4
    BY <1>3
  <2>2. Cardinality((m + 2) .. 4) = IF m + 2 > 4 THEN 0 ELSE 4 - (m + 2) + 1
    <3>1. m + 2 \in Int /\ 4 \in Int
      OBVIOUS
    <3>2. QED
      BY <3>1, FS_Interval
  <2>3. (IF m + 2 > 4 THEN 0 ELSE 4 - (m + 2) + 1) = 3 - m
    OBVIOUS
  <2>4. QED
    BY <2>1, <2>2, <2>3, Zenon
<1>5. ASSUME NEW i \in DOMAIN c, c[i] # Pad PROVE IsBase64(c[i])
  <2>1. i \in 1 .. 4
    BY <1>3, <1>5
  <2>2. PICK x : x = c[i]
    OBVIOUS
  <2>3. x \in 0 .. 64 /\ x # 64
    BY <1>3, <1>5, <2>1, <2>2, Zenon DEF Pad
  <2>4. IsBase64(x)
    BY <2>3 DEF IsBase64, D
  <2>5. QED
    BY <2>2, <2>4, Zenon
<1>6. \A x \in 0 .. 63 : Val(x) = x
  BY Z3 DEF Val, D, Wide
<1>7. PICK v1, v2, v3, v4 : /\ v1 = Val(c[1]) /\ v2 = Val(c[2]) /\ v3 = Val(c[3]) /\ v4 = Val(c[4])
                            /\ v1 = a \div 4 /\ v2 = (a % 4) * 16 + b \div 16
                            /\ m > 1 => v3 = (b % 16) * 4 + d \div 64
                            /\ m > 2 => v4 = d % 64
  <2>1. a \div 4 \in 0 .. 63 /\ (a % 4) * 16 + b \div 16 \in 0 .. 63
        /\ (b % 16) * 4 + d \div 64 \in 0 .. 63 /\ d % 64 \in 0 .. 63
    BY Z3
  <2>2. PICK x1, x2, x3, x4 \in 0 .. 63 :
          x1 = a \div 4 /\ x2 = (a % 4) * 16 + b \div 16 /\ x3 = (b % 16) * 4 + d \div 64 /\ x4 = d % 64
    BY <2>1, Zenon
  <2>3. c[1] = x1 /\ c[2] = x2 /\ (m > 1 => c[3] = x3) /\ (m > 2 => c[4] = x4)
    BY <1>3, <2>2
  <2>4. Val(x1) = x1 /\ Val(x2) = x2 /\ Val(x3) = x3 /\ Val(x4) = x4
    BY <1>6
  <2>5. PICK y1, y2, y3, y4 : y1 = Val(c[1]) /\ y2 = Val(c[2]) /\ y3 = Val(c[3]) /\ y4 = Val(c[4])
    OBVIOUS
  <2>6. y1 = x1 /\ y2 = x2 /\ (m > 1 => y3 = x3) /\ (m > 2 => y4 = x4)
    BY <2>3, <2>4, <2>5, Zenon
  <2>7. QED
    BY <2>2, <2>5, <2>6, Zenon
<1>8. ChunkDecode(c) = <<Or(v1 * 4, v2 \div 16), Or((v2 % 16) * 16, v3 \div 4), Or((v3 % 4) * 64, v4)>>
  BY <1>3, <1>7 DEF ChunkDecode
<1>9. Or(v1 * 4, v2 \div 16) = a /\ v2 % 16 = b \div 16
  <2>1. v1 < 64 /\ v1 \in Nat /\ v2 \div 16 \in Nat /\ v2 \div 16 < 4 /\ v1 * 4 + v2 \div 16 = a /\ v2 % 16 = b \div 16
    BY <1>7, Z3
  <2>2. QED
    BY <2>1, OrIs
<1>10. ASSUME m > 1 PROVE Or((v2 % 16) * 16, v3 \div 4) = b /\ v3 % 4 = d \div 64
  <2>1. PICK x \in Nat : x = v2 % 16 /\ x = b \div 16 /\ x < 16
    <3>1. b \div 16 \in Nat /\ b \div 16 < 16
      BY Z3
    <3>2. QED
      BY <1>9, <3>1
  <2>2. v3 \div 4 \in Nat /\ v3 \div 4 < 16 /\ x * 16 + v3 \div 4 = b /\ v3 % 4 = d \div 64
    BY <1>7, <1>10, <2>1, Z3
  <2>3. QED
    BY <2>1, <2>2, OrIs
<1>11. ASSUME m > 2 PROVE Or((v3 % 4) * 64, v4) = d
  <2>1. PICK x \in Nat : x = v3 % 4 /\ x = d \div 64 /\ x < 4
    <3>1. d \div 64 \in Nat /\ d \div 64 < 4
      BY Z3
    <3>2. m > 1
      BY <1>11
    <3>3. QED
      BY <1>10, <3>1, <3>2
  <2>2. v4 \in Nat /\ v4 < 64 /\ x * 64 + v4 = d
    BY <1>7, <1>11, <2>1, Z3
  <2>3. QED
    BY <2>1, <2>2, OrIs
<1>12. PICK o : /\ o = ChunkDecode(c) /\ Len(o) = 3 /\ \E T : o \in Seq(T)
                /\ o[1] = a /\ (m > 1 => o[2] = b) /\ (m > 2 => o[3] = d)
  <2>1. PICK x, y, z : x = Or(v1 * 4, v2 \div 16) /\ y = Or((v2 % 16) * 16, v3 \div 4) /\ z = Or((v3 % 4) * 64, v4)
    OBVIOUS
  <2>2. ChunkDecode(c) = <<x, y, z>>
    BY <1>8, <2>1
  <2>3. x = a /\ (m > 1 => y = b) /\ (m > 2 => z = d)
    BY <1>9, <1>10, <1>11, <2>1
  <2>4. <<x, y, z>> \in Seq({x, y, z}) /\ Len(<<x, y, z>>) = 3
        /\ <<x, y, z>>[1] = x /\ <<x, y, z>>[2] = y /\ <<x, y, z>>[3] = z
    OBVIOUS
  <2>5. QED
    BY <2>2, <2>3, <2>4
<1>13. SubSeq(o, 1, m) = in
  <2>1. PICK r, T : /\ r = SubSeq(o, 1, m) /\ r \in Seq(T) /\ Len(r) = m
                    /\ \A k \in 1 .. m : r[k] = o[k]
    <3>1. PICK T : o \in Seq(T)
      BY <1>12
    <3>2. 1 \in 1 .. (Len(o) + 1) /\ m \in (1 - 1) .. Len(o)
      BY <1>12
    <3>3. /\ SubSeq(o, 1, m) \in Seq(T) /\ Len(SubSeq(o, 1, m)) = m - 1 + 1
          /\ \A k \in 1 .. (m - 1 + 1) : SubSeq(o, 1, m)[k] = o[1 + k - 1]
      BY <3>1, <3>2, SubSeqIs
    <3>4. m - 1 + 1 = m /\ \A k \in 1 .. m : 1 + k - 1 = k
      OBVIOUS
    <3>5. Len(SubSeq(o, 1, m)) = m /\ \A k \in 1 .. m : SubSeq(o, 1, m)[k] = o[k]
      BY <3>3, <3>4
    <3>6. QED
      BY <3>3, <3>5, Zenon
  <2>2. in \in Seq(0 .. 255) /\ Len(in) = m /\ in[1] = a /\ (m > 1 => in[2] = b) /\ (m > 2 => in[3] = d)
    <3>1. \A k \in 1 .. m : At(in, k) = in[k]
      BY <1>1, AtIs
    <3>2. QED
      BY <1>1, <1>2, <3>1 DEF IsGroup
  <2>3. ASSUME NEW k \in 1 .. m PROVE o[k] = in[k]
    <3>1. k = 1 \/ (k = 2 /\ m > 1) \/ (k = 3 /\ m > 2)
      OBVIOUS
    <3>2. QED
      BY <1>12, <2>2, <3>1
  <2>4. QED
    BY <2>1, <2>2, <2>3
<1>14. QED
  BY <1>1, <1>4, <1>5, <1>12, <1>13
-----------------------------------------------------------------------------
\* The groups of three bytes of s: g of them, full but for the last.
Cut(s, g) ==
  /\ g \in Nat /\ g >= 1 /\ 3 * (g - 1) < Len(s) /\ Len(s) <= 3 * g
  /\ Len(Groups(s, 3)) = g
  /\ \A k \in 1 .. g :
       LET in == Groups(s, 3)[k]
           q == IF k < g THEN 3 * k ELSE Len(s)
       IN  /\ IsGroup(in) /\ Len(in) = q - 3 * (k - 1)
           /\ in = SubSeq(s, 3 * (k - 1) + 1, q)

(* Groups cuts bytes in threes.                                            *)
LEMMA GroupsCut ==
  ASSUME NEW s \in Seq(0 .. 255), s # <<>>, NEW g, g = (Len(s) + 2) \div 3
  PROVE  Cut(s, g)
<1>1. PICK l \in Nat : l = Len(s) /\ l >= 1
  OBVIOUS
<1>2. g \in Nat /\ g >= 1 /\ 3 * (g - 1) < l /\ l <= 3 * g /\ g = (l + 3 - 1) \div 3
  <2>1. g = (l + 2) \div 3
    BY <1>1
  <2>2. g \in Nat /\ 3 * g <= l + 2 /\ l + 2 < 3 * g + 3
    BY <2>1, Z3
  <2>3. l + 3 - 1 = l + 2
    OBVIOUS
  <2>4. QED
    BY <1>1, <2>1, <2>2, <2>3
<1>3. Groups(s, 3) = [k \in 1 .. g |-> SubSeq(s, 3 * (k - 1) + 1, Min2(3 * k, l))]
  BY <1>1, <1>2 DEF Groups
<1>4. ASSUME NEW k \in 1 .. g, NEW q, q = IF k < g THEN 3 * k ELSE l, NEW in, in = Groups(s, 3)[k]
      PROVE  IsGroup(in) /\ Len(in) = q - 3 * (k - 1) /\ in = SubSeq(s, 3 * (k - 1) + 1, q)
  <2>1. q \in Nat /\ Min2(3 * k, l) = q /\ q - 3 * (k - 1) \in 1 .. 3 /\ q <= l
    <3>1. CASE k < g
      BY <1>2, <1>4, <3>1 DEF Min2
    <3>2. CASE ~(k < g)
      BY <1>2, <1>4, <3>2 DEF Min2
    <3>3. QED
      BY <3>1, <3>2
  <2>2. PICK p \in Nat : p = 3 * (k - 1)
    BY <1>2
  <2>3. PICK m \in 1 .. 3 : m = q - p /\ p + m = q /\ p + m <= Len(s)
    BY <1>1, <2>1, <2>2
  <2>4. in = SubSeq(s, p + 1, q)
    <3>1. in = SubSeq(s, 3 * (k - 1) + 1, Min2(3 * k, l))
      BY <1>3, <1>4
    <3>2. QED
      BY <2>1, <2>2, <3>1, Zenon
  <2>5. Part(in, 0 .. 255, s, p, m)
    <3>1. in = SubSeq(s, p + 1, p + m)
      BY <2>3, <2>4, Zenon
    <3>2. m \in Nat
      OBVIOUS
    <3>3. QED
      BY <2>3, <3>1, <3>2, PartIs
  <2>6. in \in Seq(0 .. 255) /\ Len(in) = m
    BY <2>5, Zenon DEF Part
  <2>7. IsGroup(in)
    BY <2>3, <2>6, Zenon DEF IsGroup
  <2>8. QED
    BY <2>2, <2>3, <2>4, <2>6, <2>7, Zenon
<1>5. Len(Groups(s, 3)) = g
  <2>1. PICK G : G = Groups(s, 3)
    OBVIOUS
  <2>2. ASSUME NEW k \in 1 .. g PROVE G[k] \in Seq(0 .. 255)
    <3>1. IsGroup(G[k])
      BY <1>4, <2>1
    <3>2. QED
      BY <3>1 DEF IsGroup
  <2>3. DOMAIN G = 1 .. g /\ G = [k \in 1 .. g |-> G[k]]
    BY <1>3, <2>1
  <2>4. G \in [1 .. g -> Seq(0 .. 255)]
    BY <2>2, <2>3
  <2>5. QED
    BY <1>2, <2>1, <2>4, IsSequence
<1>6. QED
  BY <1>1, <1>2, <1>4, <1>5 DEF Cut

\* The text of s, in g groups of four characters.
TextOf(s, g, text) ==
  /\ text \in Seq(0 .. 64) /\ Len(text) = 4 * g
  /\ \A k \in 1 .. g : \A j \in 1 .. 4 : text[4 * (k - 1) + j] = ChunkEncode(Groups(s, 3)[k])[j]

(* Encode puts the groups one behind the other, if there is room.          *)
LEMMA EncodeIs ==
  ASSUME NEW s \in Seq(0 .. 255), s # <<>>, NEW g, Cut(s, g)
  PROVE  TextOf(s, g, Encode(s, 4 * g)) /\ Encode(s, 4 * g - 1) = <<>>
<1> DEFINE G == Groups(s, 3)
           e(i) == ChunkEncode(G[(i - 1) \div 4 + 1])[((i - 1) % 4) + 1]
           out == [i \in 1 .. 4 * g |-> e(i)]
<1>1. g \in Nat /\ g >= 1 /\ Len(G) = g /\ \A k \in 1 .. g : IsGroup(G[k])
  BY DEF Cut
<1>2. \A k \in 1 .. g : \A j \in 1 .. 4 : ChunkEncode(G[k])[j] \in 0 .. 64
  BY <1>1, ChunkEncoded DEF GroupText
<1>3. ASSUME NEW i \in 1 .. 4 * g PROVE (i - 1) \div 4 + 1 \in 1 .. g /\ ((i - 1) % 4) + 1 \in 1 .. 4
  BY <1>1, Z3
<1>4. \A i \in 1 .. 4 * g : e(i) \in 0 .. 64
  BY <1>2, <1>3, Zenon
<1>5. out \in [1 .. 4 * g -> 0 .. 64]
  BY <1>4
<1>6. 4 * g \in Nat /\ 4 * g > 4 * g - 1 /\ ~(4 * g > 4 * g)
  BY <1>1
<1>7. out \in Seq(0 .. 64) /\ Len(out) = 4 * g
  <2> HIDE DEF out
  <2>1. QED
    BY <1>5, <1>6, IsSequence
<1>8. ASSUME NEW k \in 1 .. g, NEW j \in 1 .. 4 PROVE out[4 * (k - 1) + j] = ChunkEncode(G[k])[j]
  <2>1. PICK i \in 1 .. 4 * g : i = 4 * (k - 1) + j
    BY <1>1
  <2>2. (i - 1) \div 4 + 1 = k /\ ((i - 1) % 4) + 1 = j
    <3>1. PICK a \in Nat, b \in 0 .. 3 : a = k - 1 /\ b = j - 1 /\ i - 1 = 4 * a + b
      BY <1>1, <2>1
    <3>2. (4 * a + b) \div 4 = a /\ (4 * a + b) % 4 = b
      BY Z3
    <3>3. QED
      BY <3>1, <3>2
  <2>3. out[i] = e(i)
    OBVIOUS
  <2>4. QED
    BY <2>1, <2>2, <2>3
<1>9. Encode(s, 4 * g) = IF s = <<>> \/ Len(out) > 4 * g THEN <<>> ELSE out
  BY <1>1, Zenon DEF Encode
<1>10. Encode(s, 4 * g - 1) = IF s = <<>> \/ Len(out) > 4 * g - 1 THEN <<>> ELSE out
  BY <1>1, Zenon DEF Encode
<1>11. Encode(s, 4 * g) = out /\ Encode(s, 4 * g - 1) = <<>>
  <2> HIDE DEF out
  <2>1. QED
    BY <1>6, <1>7, <1>9, <1>10
<1>12. QED
  <2> HIDE DEF out, e
  <2>1. QED
    BY <1>7, <1>8, <1>11, Zenon DEF TextOf

\* The k-th four of a text over T.
FourAt(in, text, T, k) ==
  /\ in \in Seq(T) /\ Len(in) = 4 /\ DOMAIN in = 1 .. 4
  /\ \A j \in 1 .. 4 : in[j] = text[4 * (k - 1) + j]

(* The groups of four of a text of g groups.                               *)
LEMMA GroupsOfText ==
  ASSUME NEW g \in Nat, g >= 1, NEW T, NEW text \in Seq(T), Len(text) = 4 * g
  PROVE  /\ text # <<>> /\ Len(Groups(text, 4)) = g
         /\ \A k \in 1 .. g : FourAt(Groups(text, 4)[k], text, T, k)
<1>1. (4 * g + 4 - 1) \div 4 = g
  <2>1. (4 * g + 3) \div 4 = g
    BY Z3
  <2>2. 4 * g + 4 - 1 = 4 * g + 3
    OBVIOUS
  <2>3. QED
    BY <2>1, <2>2
<1>2. Groups(text, 4) = [k \in 1 .. g |-> SubSeq(text, 4 * (k - 1) + 1, Min2(4 * k, 4 * g))]
  BY <1>1 DEF Groups
<1>3. ASSUME NEW k \in 1 .. g, NEW in, in = SubSeq(text, 4 * (k - 1) + 1, Min2(4 * k, 4 * g))
      PROVE  /\ in \in Seq(T) /\ Len(in) = 4
             /\ \A j \in 1 .. 4 : in[j] = text[4 * (k - 1) + j]
  <2>1. Min2(4 * k, 4 * g) = 4 * k
    BY DEF Min2
  <2>2. PICK p \in Nat : p = 4 * (k - 1) /\ p + 4 = 4 * k /\ p + 4 <= Len(text)
    OBVIOUS
  <2>3. Part(in, T, text, p, 4)
    BY <1>3, <2>1, <2>2, PartIs
  <2>4. QED
    BY <2>2, <2>3 DEF Part
<1>4. Len(Groups(text, 4)) = g
  <2>1. \A k \in 1 .. g : SubSeq(text, 4 * (k - 1) + 1, Min2(4 * k, 4 * g)) \in Seq(T)
    BY <1>3
  <2>2. Groups(text, 4) \in [1 .. g -> Seq(T)]
    BY <1>2, <2>1
  <2>3. QED
    BY <2>2, IsSequence
<1>5. ASSUME NEW k \in 1 .. g
      PROVE  FourAt(Groups(text, 4)[k], text, T, k)
  <2>1. PICK in : in = SubSeq(text, 4 * (k - 1) + 1, Min2(4 * k, 4 * g))
    OBVIOUS
  <2>2. Groups(text, 4)[k] = in
    BY <1>2, <2>1
  <2>3. in \in Seq(T) /\ Len(in) = 4 /\ \A j \in 1 .. 4 : in[j] = text[4 * (k - 1) + j]
    BY <1>3, <2>1
  <2>4. DOMAIN in = 1 .. 4
    BY <2>3
  <2>5. QED
    BY <2>2, <2>3, <2>4, Zenon DEF FourAt
<1>6. text # <<>>
  OBVIOUS
<1>7. QED
  BY <1>4, <1>5, <1>6

-----------------------------------------------------------------------------
Start == [ok |-> TRUE, out |-> <<>>, span |-> 0]
\* The states of a decoder of n groups, one after the other.
Decoding(f, groups, room, n) ==
  f = [k \in 0 .. n |-> IF k = 0 THEN Start ELSE Decoded(f[k - 1], groups[k], room)]

(* There are such states, whatever the groups are.                         *)
LEMMA DecodingExists ==
  ASSUME NEW groups, NEW room, NEW n \in Nat
  PROVE  \E f : Decoding(f, groups, room, n)
<1> DEFINE step(d, k) == Decoded(d, groups[k], room)
           Up(f, m) == f = [k \in 0 .. m |-> IF k = 0 THEN Start ELSE step(f[k - 1], k)]
           T == {m \in 0 .. n : \E f : Up(f, m)}
<1> HIDE DEF step
<1>1. 0 \in T
  <2>1. PICK f : f = [k \in 0 .. 0 |-> Start]
    OBVIOUS
  <2>2. f = [k \in 0 .. 0 |-> IF k = 0 THEN Start ELSE step(f[k - 1], k)]
    BY <2>1
  <2>3. QED
    BY <2>2
<1>2. ASSUME NEW m \in 0 .. n, m \in T, m < n PROVE m + 1 \in T
  <2>1. PICK f : f = [k \in 0 .. m |-> IF k = 0 THEN Start ELSE step(f[k - 1], k)]
    BY <1>2
  <2>2. PICK e : e = [k \in 0 .. (m + 1) |-> IF k \in 0 .. m THEN f[k] ELSE step(f[m], k)]
    OBVIOUS
  <2>3. DOMAIN e = 0 .. (m + 1) /\ e = [k \in 0 .. (m + 1) |-> e[k]]
    BY <2>2
  <2>4. ASSUME NEW k \in 0 .. (m + 1) PROVE e[k] = IF k = 0 THEN Start ELSE step(e[k - 1], k)
    <3>1. CASE k = 0
      <4>1. e[0] = f[0] /\ f[0] = Start
        BY <2>1, <2>2
      <4>2. QED
        BY <3>1, <4>1
    <3>2. CASE k \in 1 .. m
      <4>1. e[k] = f[k] /\ e[k - 1] = f[k - 1] /\ f[k] = step(f[k - 1], k)
        BY <2>1, <2>2, <3>2
      <4>2. QED
        BY <3>2, <4>1
    <3>3. CASE k = m + 1
      <4>1. e[k] = step(f[m], k) /\ e[k - 1] = f[m]
        BY <2>2, <3>3
      <4>2. QED
        BY <3>3, <4>1
    <3>4. QED
      BY <3>1, <3>2, <3>3
  <2>5. Up(e, m + 1)
    BY <2>3, <2>4
  <2>6. m + 1 \in 0 .. n
    BY <1>2
  <2>7. QED
    BY <2>5, <2>6
<1>3. n \in T
  <2> HIDE DEF T
  <2>1. n \in 0 .. n
    OBVIOUS
  <2>2. QED
    BY <1>1, <1>2, <2>1, Climb
<1>4. QED
  BY <1>3 DEF step, Decoding

\* What Decode returns is the last of them.
DecodedBy(f, text, room, n) ==
  /\ Decode(text, room) = f[n] /\ f[0] = Start
  /\ \A k \in 1 .. n : f[k] = Decoded(f[k - 1], Groups(text, 4)[k], room)

(* Decode goes through these states.                                       *)
LEMMA DecodeIs ==
  ASSUME NEW text, text # <<>>, NEW room, NEW n \in Nat, n = Len(Groups(text, 4))
  PROVE  \E f : DecodedBy(f, text, room, n)
<1>1. PICK groups : groups = Groups(text, 4) /\ Len(groups) = n
  OBVIOUS
<1> DEFINE f == CHOOSE f : Decoding(f, groups, room, n)
<1>2. Decoding(f, groups, room, n)
  <2>1. \E h : Decoding(h, groups, room, n)
    BY DecodingExists
  <2>2. QED
    BY <2>1
<1>3. DecodeFrom(groups, room) = f[n]
  BY <1>1 DEF DecodeFrom, Decoding, Start
<1>4. Decode(text, room) = f[n]
  BY <1>1, <1>3, Zenon DEF Decode
<1>5. f[0] = Start /\ \A k \in 1 .. n : f[k] = Decoded(f[k - 1], groups[k], room)
  <2> HIDE DEF f
  <2>1. f = [k \in 0 .. n |-> IF k = 0 THEN Start ELSE Decoded(f[k - 1], groups[k], room)]
    BY <1>2 DEF Decoding
  <2>2. QED
    BY <2>1
<1>6. QED
  <2> HIDE DEF f
  <2>1. QED
    BY <1>1, <1>4, <1>5 DEF DecodedBy

\* A state of the decoder.
IsState(d) == \E a, b, c : d = [ok |-> a, out |-> b, span |-> c]

(* A state in which a group is refused.                                    *)
LEMMA Refused ==
  ASSUME NEW a, NEW b, NEW c, NEW d, d = [ok |-> a, out |-> b, span |-> c], NEW e, e = [d EXCEPT !.ok = FALSE]
  PROVE  e = [ok |-> FALSE, out |-> b, span |-> c]
OBVIOUS

(* A group that is refused stays refused.                                  *)
LEMMA RefusedStays ==
  ASSUME NEW n \in Nat, NEW f, NEW groups, NEW room, f[0] = Start,
         \A k \in 1 .. n : f[k] = Decoded(f[k - 1], groups[k], room)
  PROVE  /\ \A k \in 0 .. n : IsState(f[k])
         /\ \A k \in 0 .. n : ~f[k].ok => ~f[n].ok
<1>1. \A k \in 0 .. n : IsState(f[k])
  <2> DEFINE T == {k \in 0 .. n : IsState(f[k])}
  <2>1. 0 \in T
    <3>1. IsState(Start)
      BY DEF IsState, Start
    <3>2. QED
      BY <3>1
  <2>2. ASSUME NEW k \in 0 .. n, k \in T, k < n PROVE k + 1 \in T
    <3>1. k + 1 \in 1 .. n /\ k + 1 - 1 = k /\ k + 1 \in 0 .. n
      BY <2>2
    <3>2. f[k + 1] = Decoded(f[k], groups[k + 1], room)
      BY <3>1
    <3>3. PICK d : d = f[k]
      OBVIOUS
    <3>4. PICK a, b, c : d = [ok |-> a, out |-> b, span |-> c]
      BY <2>2, <3>3 DEF IsState
    <3>5. \A x, y, z : IsState([ok |-> x, out |-> y, span |-> z])
      BY DEF IsState
    <3>6. IsState(Decoded(d, groups[k + 1], room))
      <4>1. PICK e : e = [d EXCEPT !.ok = FALSE]
        OBVIOUS
      <4>2. e = [ok |-> FALSE, out |-> b, span |-> c]
        BY <3>4, <4>1, Refused
      <4>3. IsState(e)
        BY <3>5, <4>2, Zenon
      <4>4. QED
        BY <3>5, <4>1, <4>3, Zenon DEF Decoded
    <3>7. IsState(f[k + 1])
      BY <3>2, <3>3, <3>6, Zenon
    <3>8. QED
      BY <3>1, <3>7
  <2>3. \A k \in 0 .. n : k \in T
    <3> HIDE DEF T
    <3>1. QED
      BY <2>1, <2>2, Climb
  <2>4. QED
    BY <2>3
<1>2. ASSUME NEW k \in 0 .. n, ~f[k].ok PROVE ~f[n].ok
  <2> DEFINE T == {m \in 0 .. n : m < k \/ ~f[m].ok}
  <2>1. 0 \in T
    BY <1>2
  <2>2. ASSUME NEW m \in 0 .. n, m \in T, m < n PROVE m + 1 \in T
    <3>1. m + 1 \in 1 .. n /\ m + 1 - 1 = m /\ m + 1 \in 0 .. n
      BY <2>2
    <3>2. CASE m < k
      <4>1. m + 1 < k \/ m + 1 = k
        BY <3>2
      <4>2. QED
        BY <1>2, <3>1, <4>1
    <3>3. CASE ~f[m].ok
      <4>1. f[m + 1] = Decoded(f[m], groups[m + 1], room)
        BY <3>1
      <4>2. f[m + 1] = [f[m] EXCEPT !.ok = FALSE]
        BY <3>3, <4>1, Zenon DEF Decoded
      <4>3. PICK d, a, b, c : d = f[m] /\ d = [ok |-> a, out |-> b, span |-> c]
        BY <1>1 DEF IsState
      <4>4. ~f[m + 1].ok
        BY <4>2, <4>3
      <4>5. QED
        BY <3>1, <4>4
    <3>4. QED
      BY <2>2, <3>2, <3>3
  <2>3. n \in T
    <3> HIDE DEF T
    <3>1. n \in 0 .. n
      OBVIOUS
    <3>2. QED
      BY <2>1, <2>2, <3>1, Climb
  <2>4. QED
    BY <2>3
<1>3. QED
  BY <1>1, <1>2

(* What is taken from the front, and what is taken behind it.              *)
LEMMA FrontGrows ==
  ASSUME NEW T, NEW s \in Seq(T), NEW p \in Nat, NEW m \in Nat, p + m <= Len(s)
  PROVE  /\ Len(SubSeq(s, 1, p)) = p
         /\ SubSeq(s, 1, p) \o SubSeq(s, p + 1, p + m) = SubSeq(s, 1, p + m)
<1>1. PICK a : a = SubSeq(s, 1, p)
  OBVIOUS
<1>2. PICK b : b = SubSeq(s, p + 1, p + m)
  OBVIOUS
<1>3. PICK t : t = SubSeq(s, 1, p + m)
  OBVIOUS
<1>4. p \in 0 .. Len(s) /\ p + m \in 0 .. Len(s)
  OBVIOUS
<1>5. Part(a, T, s, 0, p) /\ Part(t, T, s, 0, p + m)
  <2>1. Part(a, T, s, 0, p)
    BY <1>1, <1>4, FrontIs
  <2>2. PICK n \in 0 .. Len(s) : n = p + m
    BY <1>4
  <2>3. t = SubSeq(s, 1, n)
    BY <1>3, <2>2, Zenon
  <2>4. Part(t, T, s, 0, n)
    BY <2>3, FrontIs
  <2>5. QED
    BY <2>1, <2>2, <2>4, Zenon
<1>6. Part(b, T, s, p, m)
  BY <1>2, PartIs
<1>7. a \o b = t
  BY <1>5, <1>6, PartsJoin
<1>8. QED
  BY <1>1, <1>2, <1>3, <1>5, <1>7 DEF Part

\* What is left of out and a group of bytes.
Added(r, out, in, p, room) ==
  IF room >= p + Len(in) THEN r = [ok |-> TRUE, out |-> out \o in, span |-> p + 3] ELSE ~r.ok

(* A group is decoded to the bytes it was made of, if there is room for    *)
(* these.                                                                  *)
LEMMA GroupDecoded ==
  ASSUME NEW in, IsGroup(in), NEW c, c = ChunkEncode(in), NEW out, NEW p \in Nat, Len(out) = p, NEW span,
         NEW d, d = [ok |-> TRUE, out |-> out, span |-> span], NEW room \in Nat
  PROVE  Added(Decoded(d, c, room), out, in, p, room)
<1>1. PICK m \in 1 .. 3 : m = Len(in)
  BY DEF IsGroup
<1>2. PICK pad \in Nat : pad = Cardinality({i \in DOMAIN c : c[i] = Pad}) /\ pad = 3 - m
  <2>1. PICK x : x = Cardinality({i \in DOMAIN c : c[i] = Pad})
    OBVIOUS
  <2>2. x = 3 - m
    BY <1>1, <2>1, ChunkDecoded, Zenon
  <2>3. 3 - m \in Nat
    OBVIOUS
  <2>4. QED
    BY <2>1, <2>2, <2>3, Zenon
<1>3. ~ \E i \in DOMAIN c : c[i] # Pad /\ ~IsBase64(c[i])
  BY ChunkDecoded, Zenon
<1>4. SubSeq(ChunkDecode(c), 1, m) = in
  BY <1>1, ChunkDecoded, Zenon
<1>5. (3 - pad) % Wide = m
  <2>1. 3 - pad = m
    BY <1>2
  <2>2. m % 65536 = m
    BY Z3
  <2>3. QED
    BY <2>1, <2>2 DEF Wide
<1>6. d.ok = TRUE /\ d.out = out /\ Len(d.out) = p
  OBVIOUS
<1>7. Decoded(d, c, room) = IF room - p < m THEN [d EXCEPT !.ok = FALSE]
                            ELSE [ok |-> TRUE, out |-> out \o in, span |-> p + 3]
  BY <1>2, <1>3, <1>4, <1>5, <1>6, Zenon DEF Decoded
<1>8. (room - p < m) <=> ~(room >= p + m)
  OBVIOUS
<1>9. ~[d EXCEPT !.ok = FALSE].ok
  OBVIOUS
<1>10. QED
  BY <1>1, <1>7, <1>8, <1>9, Zenon DEF Added

-----------------------------------------------------------------------------
\* What the decoder has after k of the groups of s.
AfterGroups(s, g, k) ==
  [ok |-> TRUE, out |-> SubSeq(s, 1, IF k < g THEN 3 * k ELSE Len(s)), span |-> 3 * k]

(* The text of bytes is decoded to them if there is room for them, and     *)
(* otherwise the last group is refused.                                    *)
LEMMA TextDecoded ==
  ASSUME NEW s \in Seq(0 .. 255), s # <<>>, NEW g, Cut(s, g), NEW text, TextOf(s, g, text),
         NEW room \in Nat, room >= Len(s) - 1
  PROVE  IF room >= Len(s) THEN Decode(text, room) = [ok |-> TRUE, out |-> s, span |-> 3 * g]
         ELSE ~Decode(text, room).ok
<1>1. PICK l \in Nat : l = Len(s) /\ l >= 1
  OBVIOUS
<1>2. g \in Nat /\ g >= 1 /\ 3 * (g - 1) < l /\ l <= 3 * g
  BY <1>1 DEF Cut
<1>3. text \in Seq(0 .. 64) /\ Len(text) = 4 * g
  BY DEF TextOf
<1>4. text # <<>> /\ Len(Groups(text, 4)) = g
  BY <1>2, <1>3, GroupsOfText
<1>5. PICK f : /\ Decode(text, room) = f[g] /\ f[0] = Start
               /\ \A k \in 1 .. g : f[k] = Decoded(f[k - 1], Groups(text, 4)[k], room)
  <2>1. PICK f : DecodedBy(f, text, room, g)
    BY <1>2, <1>4, DecodeIs
  <2>2. QED
    BY <2>1 DEF DecodedBy
<1>6. ASSUME NEW k \in 1 .. g PROVE Groups(text, 4)[k] = ChunkEncode(Groups(s, 3)[k])
  <2>1. PICK in : in = Groups(text, 4)[k]
    OBVIOUS
  <2>2. in \in Seq(0 .. 64) /\ Len(in) = 4 /\ \A j \in 1 .. 4 : in[j] = text[4 * (k - 1) + j]
    <3>1. FourAt(Groups(text, 4)[k], text, 0 .. 64, k)
      BY <1>2, <1>3, GroupsOfText
    <3>2. QED
      BY <2>1, <3>1, Zenon DEF FourAt
  <2>3. PICK c : c = ChunkEncode(Groups(s, 3)[k])
    OBVIOUS
  <2>4. IsGroup(Groups(s, 3)[k])
    BY DEF Cut
  <2>5. c \in Seq(0 .. 64) /\ Len(c) = 4
    BY <2>3, <2>4, ChunkEncoded DEF GroupText
  <2>6. \A j \in 1 .. 4 : in[j] = c[j]
    BY <2>2, <2>3 DEF TextOf
  <2>7. in = c
    BY <2>2, <2>5, <2>6, SeqEqual
  <2>8. QED
    BY <2>1, <2>3, <2>7
<1>7. ASSUME NEW k \in 0 .. (g - 1), NEW q, q = IF k + 1 < g THEN 3 * (k + 1) ELSE l, f[k] = AfterGroups(s, g, k)
      PROVE  IF room >= q THEN f[k + 1] = AfterGroups(s, g, k + 1) ELSE ~f[k + 1].ok
  <2>1. PICK in : in = Groups(s, 3)[k + 1]
    OBVIOUS
  <2>2. PICK p \in 0 .. l : p = 3 * k /\ q \in p .. l /\ q - p \in 1 .. 3 /\ k + 1 \in 1 .. g /\ k < g
    <3>1. CASE k + 1 < g
      BY <1>2, <1>7, <3>1
    <3>2. CASE ~(k + 1 < g)
      BY <1>2, <1>7, <3>2
    <3>3. QED
      BY <3>1, <3>2
  <2>3. k + 1 - 1 = k /\ p + (q - p) = q /\ 3 * k + 3 = 3 * (k + 1)
    BY <1>2, <2>2
  <2>4. IsGroup(in) /\ Len(in) = q - p /\ in = SubSeq(s, p + 1, q)
    <3>1. PICK r \in 1 .. g : r = k + 1 /\ 3 * (r - 1) = p
      BY <2>2, <2>3
    <3>2. in = Groups(s, 3)[r] /\ q = IF r < g THEN 3 * r ELSE Len(s)
      BY <1>1, <1>7, <2>1, <3>1, Zenon
    <3>3. QED
      BY <3>1, <3>2, Zenon DEF Cut
  <2>5. PICK a : a = SubSeq(s, 1, p)
    OBVIOUS
  <2>6. Len(a) = p /\ a \o in = SubSeq(s, 1, q)
    <3>1. PICK m \in Nat : m = q - p /\ p + m = q /\ p + m <= Len(s) /\ p \in Nat
      BY <1>1, <2>2
    <3>2. Len(SubSeq(s, 1, p)) = p /\ SubSeq(s, 1, p) \o SubSeq(s, p + 1, p + m) = SubSeq(s, 1, p + m)
      BY <3>1, FrontGrows
    <3>3. QED
      BY <2>4, <2>5, <3>1, <3>2
  <2>7. PICK c : c = ChunkEncode(in)
    OBVIOUS
  <2>8. f[k + 1] = Decoded(f[k], c, room)
    BY <1>5, <1>6, <2>1, <2>2, <2>3, <2>7
  <2>9. PICK d : d = f[k] /\ d = [ok |-> TRUE, out |-> a, span |-> 3 * k]
    BY <1>7, <2>2, <2>5 DEF AfterGroups
  <2>10. p + Len(in) = q /\ p \in Nat
    BY <2>2, <2>3, <2>4
  <2>11. Added(Decoded(d, c, room), a, in, p, room)
    BY <2>4, <2>6, <2>7, <2>9, <2>10, GroupDecoded
  <2>12. AfterGroups(s, g, k + 1) = [ok |-> TRUE, out |-> SubSeq(s, 1, q), span |-> 3 * (k + 1)]
    BY <1>1, <1>7, Zenon DEF AfterGroups
  <2>13. p + 3 = 3 * (k + 1)
    BY <2>2, <2>3
  <2>14. QED
    BY <2>6, <2>8, <2>9, <2>10, <2>11, <2>12, <2>13, Zenon DEF Added
<1>8. f[g - 1] = AfterGroups(s, g, g - 1)
  <2> DEFINE T == {k \in 0 .. (g - 1) : f[k] = AfterGroups(s, g, k)}
  <2>1. 0 \in T
    <3>1. AfterGroups(s, g, 0) = Start
      <4>1. 0 < g /\ 3 * 0 = 0
        BY <1>2
      <4>2. SubSeq(s, 1, 0) = <<>>
        OBVIOUS
      <4>3. QED
        BY <4>1, <4>2, Zenon DEF AfterGroups, Start
    <3>2. 0 \in 0 .. (g - 1)
      BY <1>2
    <3>3. QED
      BY <1>5, <3>1, <3>2
  <2>2. ASSUME NEW k \in 0 .. (g - 1), k \in T, k < g - 1 PROVE k + 1 \in T
    <3>1. PICK q \in Nat : q = 3 * (k + 1) /\ k + 1 < g /\ room >= q
      BY <1>1, <1>2, <2>2
    <3>2. q = IF k + 1 < g THEN 3 * (k + 1) ELSE l
      BY <3>1
    <3>3. f[k + 1] = AfterGroups(s, g, k + 1)
      BY <1>7, <2>2, <3>1, <3>2
    <3>4. k + 1 \in 0 .. (g - 1)
      BY <1>2, <2>2
    <3>5. QED
      BY <3>3, <3>4
  <2>3. g - 1 \in T
    <3> HIDE DEF T
    <3>1. g - 1 \in Nat /\ g - 1 \in 0 .. (g - 1)
      BY <1>2
    <3>2. QED
      BY <2>1, <2>2, <3>1, Climb
  <2>4. QED
    BY <2>3
<1>9. IF room >= l THEN f[g] = AfterGroups(s, g, g) ELSE ~f[g].ok
  <2>1. g - 1 \in 0 .. (g - 1) /\ g - 1 + 1 = g /\ ~(g < g)
    BY <1>2
  <2>2. l = IF g - 1 + 1 < g THEN 3 * (g - 1 + 1) ELSE l
    BY <2>1
  <2>3. QED
    BY <1>7, <1>8, <2>1, <2>2
<1>10. AfterGroups(s, g, g) = [ok |-> TRUE, out |-> s, span |-> 3 * g]
  <2>1. ~(g < g)
    BY <1>2
  <2>2. SubSeq(s, 1, Len(s)) = s
    <3>1. Len(s) \in 0 .. Len(s)
      BY <1>1
    <3>2. QED
      BY <3>1, FrontIs
  <2>3. QED
    BY <2>1, <2>2, Zenon DEF AfterGroups
<1>11. QED
  BY <1>1, <1>5, <1>9, <1>10, Zenon

(* A character outside of the alphabet is refused with its group, wherever *)
(* it is in a text.                                                        *)
LEMMA JunkRefused ==
  ASSUME NEW g \in Nat, g >= 1, NEW text \in Seq(Alphabet), Len(text) = 4 * g, NEW i \in 1 .. 4 * g, text[i] = Junk,
         NEW room
  PROVE  ~Decode(text, room).ok
<1>1. text # <<>> /\ Len(Groups(text, 4)) = g
  BY GroupsOfText
<1>2. PICK f : DecodedBy(f, text, room, g)
  BY <1>1, DecodeIs
<1>3. PICK k \in 1 .. g : \E j \in 1 .. 4 : i = 4 * (k - 1) + j
  <2>1. PICK k, j : k = (i - 1) \div 4 + 1 /\ j = ((i - 1) % 4) + 1
    OBVIOUS
  <2>2. k \in 1 .. g /\ j \in 1 .. 4 /\ i = 4 * (k - 1) + j
    BY <2>1, Z3
  <2>3. QED
    BY <2>2, Zenon
<1>4. PICK in : in = Groups(text, 4)[k]
  OBVIOUS
<1>5. DOMAIN in = 1 .. 4 /\ \A j \in 1 .. 4 : in[j] = text[4 * (k - 1) + j]
  <2>1. FourAt(Groups(text, 4)[k], text, Alphabet, k)
    BY GroupsOfText
  <2>2. QED
    BY <1>4, <2>1, Zenon DEF FourAt
<1>6. \E j \in DOMAIN in : in[j] # Pad /\ ~IsBase64(in[j])
  <2>1. PICK j \in 1 .. 4 : in[j] = Junk
    BY <1>3, <1>5
  <2>2. Junk # Pad /\ ~IsBase64(Junk)
    BY DEF Junk, High, Pad, IsBase64, D
  <2>3. QED
    BY <1>5, <2>1, <2>2, Zenon
<1>7. PICK d : d = f[k - 1] /\ IsState(d)
  <2>1. k - 1 \in 0 .. g
    OBVIOUS
  <2>2. IsState(f[k - 1])
    BY <1>2, <2>1, RefusedStays DEF DecodedBy
  <2>3. QED
    BY <2>2
<1>8. f[k] = Decoded(d, in, room)
  BY <1>2, <1>4, <1>7 DEF DecodedBy
<1>9. ~f[k].ok
  <2>1. PICK a, b, c : d = [ok |-> a, out |-> b, span |-> c]
    BY <1>7 DEF IsState
  <2>2. PICK e : e = [d EXCEPT !.ok = FALSE]
    OBVIOUS
  <2>3. e = [ok |-> FALSE, out |-> b, span |-> c]
    BY <2>1, <2>2, Refused
  <2>4. f[k] = e
    BY <1>6, <1>8, <2>2, Zenon DEF Decoded
  <2>5. QED
    BY <2>3, <2>4
<1>10. ~f[g].ok
  <2>1. k \in 0 .. g
    OBVIOUS
  <2>2. QED
    BY <1>2, <1>9, <2>1, RefusedStays DEF DecodedBy
<1>11. QED
  BY <1>2, <1>10 DEF DecodedBy

(* u_b64_encode and u_b64_decode on any bytes: what B64RoundTrip says of   *)
(* those that the specification reaches.                                   *)
LEMMA RoundTrip ==
  ASSUME B64Assumption, bytes \in Seq(Bytes)
  PROVE  B64RoundTrip
<1> SUFFICES ASSUME bytes # <<>>
             PROVE  LET n == 4 * ((Len(bytes) + 2) \div 3)
                        text == Encode(bytes, n)
                    IN  /\ Len(text) = n /\ Encode(bytes, n - 1) = <<>>
                        /\ \A room \in Len(bytes) .. n : Decode(text, room).ok /\ Decode(text, room).out = bytes
                        /\ Decode(text, n).span <= n
                        /\ ~Decode(text, Len(bytes) - 1).ok
                        /\ \A i \in DOMAIN text : ~Decode([text EXCEPT ![i] = Junk], n).ok
  BY Zenon DEF B64RoundTrip, TextLength
<1>1. bytes \in Seq(0 .. 255) /\ Len(bytes) \in Nat /\ Len(bytes) >= 1
  <2>1. PICK l \in Nat : l = Len(bytes)
    OBVIOUS
  <2>2. l >= 1 /\ bytes \in [1 .. l -> Bytes]
    BY <2>1
  <2>3. bytes \in [1 .. l -> 0 .. 255]
    BY <2>2 DEF B64Assumption
  <2>4. bytes \in Seq(0 .. 255)
    BY <2>3, IsSequence
  <2>5. QED
    BY <2>1, <2>2, <2>4
<1>2. PICK g : g = (Len(bytes) + 2) \div 3
  OBVIOUS
<1>3. Cut(bytes, g)
  BY <1>1, <1>2, GroupsCut
<1>4. g \in Nat /\ g >= 1 /\ Len(bytes) <= 3 * g
  BY <1>3 DEF Cut
<1>5. PICK n : n = 4 * g
  OBVIOUS
<1>6. PICK text : text = Encode(bytes, n)
  OBVIOUS
<1>7. TextOf(bytes, g, text) /\ Encode(bytes, n - 1) = <<>>
  BY <1>1, <1>3, <1>5, <1>6, EncodeIs
<1>8. text \in Seq(0 .. 64) /\ Len(text) = n /\ n \in Nat /\ DOMAIN text = 1 .. n
  BY <1>4, <1>5, <1>7 DEF TextOf
<1>9. ASSUME NEW room \in Nat, room >= Len(bytes)
      PROVE  Decode(text, room) = [ok |-> TRUE, out |-> bytes, span |-> 3 * g]
  <2>1. room >= Len(bytes) - 1
    BY <1>1, <1>9
  <2>2. QED
    BY <1>1, <1>3, <1>7, <1>9, <2>1, TextDecoded
<1>10. \A room \in Len(bytes) .. n : Decode(text, room).ok /\ Decode(text, room).out = bytes
  <2>1. TAKE room \in Len(bytes) .. n
  <2>2. room \in Nat /\ room >= Len(bytes)
    BY <1>1, <1>8
  <2>3. Decode(text, room) = [ok |-> TRUE, out |-> bytes, span |-> 3 * g]
    BY <1>9, <2>2
  <2>4. QED
    BY <2>3
<1>11. Decode(text, n).span <= n
  <2>1. n >= Len(bytes) /\ 3 * g <= n
    BY <1>4, <1>5
  <2>2. Decode(text, n) = [ok |-> TRUE, out |-> bytes, span |-> 3 * g]
    BY <1>8, <1>9, <2>1
  <2>3. QED
    BY <2>1, <2>2
<1>12. ~Decode(text, Len(bytes) - 1).ok
  <2>1. PICK room \in Nat : room = Len(bytes) - 1 /\ room >= Len(bytes) - 1 /\ ~(room >= Len(bytes))
    <3>1. PICK l \in Nat : l = Len(bytes) /\ l >= 1
      BY <1>1
    <3>2. l - 1 \in Nat /\ l - 1 >= l - 1 /\ ~(l - 1 >= l)
      BY <3>1
    <3>3. QED
      BY <3>1, <3>2, Zenon
  <2>2. QED
    BY <1>1, <1>3, <1>7, <2>1, TextDecoded
<1>13. ASSUME NEW i \in DOMAIN text PROVE ~Decode([text EXCEPT ![i] = Junk], n).ok
  <2>1. PICK t : t = [text EXCEPT ![i] = Junk]
    OBVIOUS
  <2>2. t \in Seq(Alphabet) /\ Len(t) = 4 * g /\ i \in 1 .. 4 * g /\ t[i] = Junk
    BY <1>5, <1>8, <2>1 DEF Alphabet, Junk
  <2>3. ~Decode(t, n).ok
    BY <1>4, <2>2, JunkRefused
  <2>4. QED
    BY <2>1, <2>3, Zenon
<1>14. QED
  BY <1>2, <1>5, <1>6, <1>7, <1>8, <1>10, <1>11, <1>12, <1>13, Zenon

(* Whatever bytes u_b64_encode is given, and however many, u_b64_decode    *)
(* returns them, the sizes that b64.c asks for are enough and needed, and  *)
(* an ASCII character outside of the alphabet is refused.                   *)
THEOREM BytesComeBack == ASSUME B64Assumption PROVE B64Spec => []B64RoundTrip
<1>1. B64Init => bytes \in Seq(Bytes)
  BY DEF B64Init
<1>2. bytes \in Seq(Bytes) /\ [B64Next]_b64Vars => (bytes \in Seq(Bytes))'
  BY DEF B64Next, b64Vars
<1>3. bytes \in Seq(Bytes) => B64RoundTrip
  BY RoundTrip
<1>4. QED
  BY <1>1, <1>2, <1>3, PTL DEF B64Spec
=============================================================================
