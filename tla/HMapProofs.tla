----------------------------- MODULE HMapProofs -----------------------------
(***************************************************************************)
(* Proofs about hmap.c: about its table (HMapTable), for any keys, values, *)
(* hash function, table of primes and clients: each element is in its      *)
(* place, found and counted, and the map is a dictionary; a client that    *)
(* deletes from a linearly probed map is left out (NoHoles): it loses      *)
(* elements.  About the discard policies of a cache (HMapCache), for any   *)
(* size, any objects and any client.  About the ownership of keys, values  *)
(* and objects (HMapOwner), for every combination of options, any number   *)
(* of objects and any discard.                                             *)
(***************************************************************************)
EXTENDS HMapTable, HMapOwner, HMapCache, SeqLemmas

-----------------------------------------------------------------------------
(* The table.  The lists put one behind the other, and the copy of a table *)
(* object by object, are functions that refer to themselves.               *)
IsRows(f, t, n) == f = [b \in 0..n |-> IF b = 0 THEN <<>> ELSE f[b - 1] \o t[b - 1]]
IsCopied(f, n, objs) ==
  f = [i \in 0..Len(objs) |-> IF i = 0 THEN EmptyTable(n) ELSE InsertNew(f[i - 1], n, objs[i])]

(* The objects of a table are what a function that refers to itself gives. *)
LEMMA RowsChosen ==
  ASSUME NEW t, NEW n
  PROVE  Objects(t, n) = (CHOOSE f : IsRows(f, t, n))[n]
BY DEF Objects, IsRows

(* And so is the copy of a table.                                          *)
LEMMA CopyChosen ==
  ASSUME NEW n
  PROVE  LET objs == Objects(hmap, size)
         IN TableCopy(n) = (CHOOSE f : IsCopied(f, n, objs))[Len(objs)]
BY DEF TableCopy, IsCopied

\* A table of n lists, and the objects in it; its lists up to the m-th, one
\* behind the other.
IsTable(t, n) == n \in Nat /\ t \in [0..(n - 1) -> Seq(Obj)]
Stored(t) == {o \in Obj : \E b \in DOMAIN t : \E i \in 1 .. Len(t[b]) : t[b][i] = o}
RowsTo(f, t, m) ==
  /\ f \in [0..m -> Seq(Obj)] /\ f[0] = <<>>
  /\ \A b \in 0..(m - 1) : f[b + 1] = f[b] \o t[b]

(* The lists up to one of them, and the next.                              *)
LEMMA RowsExtend ==
  ASSUME NEW t, NEW n, IsTable(t, n), NEW m \in 0..(n - 1), NEW f, RowsTo(f, t, m)
  PROVE  \E g : RowsTo(g, t, m + 1)
<1>1. PICK g : g = [b \in 0..(m + 1) |-> IF b = m + 1 THEN f[m] \o t[m] ELSE f[b]]
  OBVIOUS
<1>2. n \in Nat /\ t[m] \in Seq(Obj) /\ m \in Nat
  BY DEF IsTable
<1>3. f[m] \in Seq(Obj) /\ f[m] \o t[m] \in Seq(Obj)
  BY <1>2 DEF RowsTo
<1>4. \A b \in 0..m : g[b] = f[b] /\ f[b] \in Seq(Obj)
  BY <1>1, <1>2 DEF RowsTo
<1>5. g[m + 1] = f[m] \o t[m]
  BY <1>1, <1>2
<1>6. g \in [0..(m + 1) -> Seq(Obj)]
  <2>1. \A b \in 0..(m + 1) : b \in 0..m \/ b = m + 1
    BY <1>2
  <2>2. \A b \in 0..(m + 1) : g[b] \in Seq(Obj)
    BY <1>3, <1>4, <1>5, <2>1
  <2>3. QED
    BY <1>1, <2>2
<1>7. ASSUME NEW b \in 0..m PROVE g[b + 1] = g[b] \o t[b]
  <2>1. CASE b = m
    BY <1>2, <1>4, <1>5, <2>1
  <2>2. CASE b # m
    <3>1. b \in 0..(m - 1) /\ b + 1 \in 0..m
      BY <1>2, <2>2
    <3>2. QED
      BY <1>4, <3>1 DEF RowsTo
  <2>3. QED
    BY <2>1, <2>2
<1>8. g[0] = <<>>
  BY <1>2, <1>4 DEF RowsTo
<1>9. QED
  <2>1. (m + 1) - 1 = m
    BY <1>2
  <2>2. QED
    BY <1>6, <1>7, <1>8, <2>1 DEF RowsTo

(* The two ways to say so.                                                 *)
LEMMA RowsOnce ==
  ASSUME NEW t, NEW n, IsTable(t, n), NEW f
  PROVE  RowsTo(f, t, n) => IsRows(f, t, n)
<1>1. SUFFICES ASSUME RowsTo(f, t, n) PROVE IsRows(f, t, n)
  OBVIOUS
<1>2. n \in Nat
  BY DEF IsTable
<1>3. f = [b \in 0..n |-> f[b]]
  BY <1>1 DEF RowsTo
<1>4. ASSUME NEW b \in 0..n PROVE f[b] = IF b = 0 THEN <<>> ELSE f[b - 1] \o t[b - 1]
  <2>1. CASE b = 0
    BY <1>1, <2>1 DEF RowsTo
  <2>2. CASE b # 0
    <3>1. b - 1 \in 0..(n - 1) /\ (b - 1) + 1 = b
      BY <1>2, <2>2
    <3>2. QED
      BY <1>1, <2>2, <3>1 DEF RowsTo
  <2>3. QED
    BY <2>1, <2>2
<1>5. QED
  BY <1>3, <1>4 DEF IsRows

(* And back: the function that Objects chooses is typed.                   *)
LEMMA RowsTyped ==
  ASSUME NEW t, NEW n, IsTable(t, n), NEW f, IsRows(f, t, n)
  PROVE  RowsTo(f, t, n)
<1>1. n \in Nat /\ \A b \in 0..(n - 1) : t[b] \in Seq(Obj)
  BY DEF IsTable
<1>2. f[0] = <<>>
  BY <1>1 DEF IsRows
<1>3. ASSUME NEW b \in 0..(n - 1) PROVE f[b + 1] = f[b] \o t[b]
  <2>1. b + 1 \in 0..n /\ b + 1 # 0 /\ (b + 1) - 1 = b
    BY <1>1
  <2>2. QED
    BY <2>1 DEF IsRows
<1>4. \A m \in 0..n : m \in {k \in 0..n : f[k] \in Seq(Obj)}
  <2> DEFINE T == {k \in 0..n : f[k] \in Seq(Obj)}
  <2>1. 0 \in T
    <3>1. <<>> \in Seq(Obj) /\ 0 \in 0..n
      BY <1>1
    <3>2. QED
      BY <1>2, <3>1
  <2>2. ASSUME NEW m \in 0..n, m \in T, m < n PROVE m + 1 \in T
    <3>1. m \in 0..(n - 1) /\ m + 1 \in 0..n /\ f[m] \in Seq(Obj) /\ t[m] \in Seq(Obj)
      BY <1>1, <2>2
    <3>2. f[m] \o t[m] \in Seq(Obj)
      BY <3>1, ConcatIs
    <3>3. f[m + 1] = f[m] \o t[m]
      BY <1>3, <3>1
    <3>4. QED
      BY <3>1, <3>2, <3>3
  <2> HIDE DEF T
  <2>3. QED
    BY <1>1, <2>1, <2>2, Climb DEF T
<1>5. f \in [0..n -> Seq(Obj)]
  BY <1>4 DEF IsRows
<1>6. QED
  BY <1>2, <1>3, <1>5 DEF RowsTo

(* The objects of a table are its lists, one behind the other.             *)
LEMMA RowsAre ==
  ASSUME NEW t, NEW n, IsTable(t, n)
  PROVE  \E f : RowsTo(f, t, n) /\ Objects(t, n) = f[n]
<1> DEFINE T == {m \in 0..n : \E f : RowsTo(f, t, m)}
<1>1. n \in Nat
  BY DEF IsTable
<1>2. 0 \in T
  <2>1. RowsTo([b \in 0..0 |-> <<>>], t, 0)
    BY DEF RowsTo
  <2>2. QED
    BY <1>1, <2>1
<1>3. ASSUME NEW m \in 0..n, m \in T, m < n PROVE m + 1 \in T
  <2>1. m \in 0..(n - 1) /\ m + 1 \in 0..n
    BY <1>1, <1>3
  <2>2. QED
    BY <1>3, <2>1, RowsExtend
<1>4. n \in T
  <2> HIDE DEF T
  <2>1. \A m \in 0..n : m \in T
    BY <1>1, <1>2, <1>3, Climb
  <2>2. QED
    BY <1>1, <2>1
<1>5. \E f : IsRows(f, t, n)
  BY <1>4, RowsOnce
<1>6. IsRows(CHOOSE f : IsRows(f, t, n), t, n)
  BY <1>5
<1>7. QED
  BY <1>6, RowsChosen, RowsTyped

(* The objects of a table are a finite sequence of objects.                *)
LEMMA CountIs ==
  ASSUME NEW t, NEW n, IsTable(t, n)
  PROVE  Objects(t, n) \in Seq(Obj) /\ Len(Objects(t, n)) \in Nat
<1>1. PICK f : RowsTo(f, t, n) /\ Objects(t, n) = f[n]
  BY RowsAre
<1>2. n \in Nat
  BY DEF IsTable
<1>3. f[n] \in Seq(Obj)
  BY <1>1, <1>2 DEF RowsTo
<1>4. QED
  BY <1>1, <1>3

(* A list that grows or shrinks changes the number of objects by as much.  *)
SameRise(x, y, v, w) == x - y = v - w

(* The number of objects changes as the length of the one list that        *)
(* changes.                                                                *)
LEMMA CountChanges ==
  ASSUME NEW t, NEW u, NEW n, IsTable(t, n), IsTable(u, n), NEW b \in 0..(n - 1),
         \A c \in 0..(n - 1) : c # b => u[c] = t[c]
  PROVE  SameRise(Len(Objects(u, n)), Len(Objects(t, n)), Len(u[b]), Len(t[b]))
<1>1. PICK f : RowsTo(f, t, n) /\ Objects(t, n) = f[n]
  BY RowsAre
<1>2. PICK g : RowsTo(g, u, n) /\ Objects(u, n) = g[n]
  BY RowsAre
<1>3. n \in Nat /\ \A c \in 0..(n - 1) : t[c] \in Seq(Obj) /\ u[c] \in Seq(Obj)
  BY DEF IsTable
<1>4. \A c \in 0..n : f[c] \in Seq(Obj) /\ g[c] \in Seq(Obj)
  BY <1>1, <1>2 DEF RowsTo
<1>5. PICK lf \in [0..n -> Nat], lg \in [0..n -> Nat], d \in Int :
         /\ \A c \in 0..n : lf[c] = Len(f[c]) /\ lg[c] = Len(g[c])
         /\ d = Len(u[b]) - Len(t[b])
  <2>1. \A c \in 0..n : Len(f[c]) \in Nat /\ Len(g[c]) \in Nat
    BY <1>4
  <2>2. [c \in 0..n |-> Len(f[c])] \in [0..n -> Nat] /\ [c \in 0..n |-> Len(g[c])] \in [0..n -> Nat]
    BY <2>1
  <2>3. Len(u[b]) - Len(t[b]) \in Int
    BY <1>3
  <2>4. QED
    BY <2>2, <2>3
<1>6. ASSUME NEW c \in 0..(n - 1)
      PROVE  /\ c = b => lg[c + 1] - lf[c + 1] = (lg[c] - lf[c]) + d
             /\ c # b => lg[c + 1] - lf[c + 1] = lg[c] - lf[c]
  <2>1. c \in 0..n /\ c + 1 \in 0..n
    BY <1>3
  <2>2. f[c + 1] = f[c] \o t[c] /\ g[c + 1] = g[c] \o u[c]
    BY <1>1, <1>2 DEF RowsTo
  <2>3. t[c] \in Seq(Obj) /\ u[c] \in Seq(Obj) /\ f[c] \in Seq(Obj) /\ g[c] \in Seq(Obj)
    BY <1>3, <1>4, <2>1
  <2>4. Len(f[c + 1]) = Len(f[c]) + Len(t[c]) /\ Len(g[c + 1]) = Len(g[c]) + Len(u[c])
    BY <2>2, <2>3, ConcatIs
  <2>5. PICK i \in Nat, j \in Nat : i = Len(t[c]) /\ j = Len(u[c])
    BY <2>3
  <2>6. lf[c + 1] = lf[c] + i /\ lg[c + 1] = lg[c] + j
    BY <1>5, <2>1, <2>4, <2>5
  <2>7. c = b => d = j - i
    BY <1>5, <2>5
  <2>8. c # b => i = j
    BY <2>5
  <2>9. PICK x \in Nat, y \in Nat : x = lf[c] /\ y = lg[c]
    BY <2>1
  <2>10. lg[c + 1] - lf[c + 1] = (y + j) - (x + i)
    BY <2>6, <2>9
  <2>11. (y + j) - (x + i) = (y - x) + (j - i)
    OBVIOUS
  <2>12. c = b => lg[c + 1] - lf[c + 1] = (lg[c] - lf[c]) + d
    BY <2>7, <2>9, <2>10, <2>11
  <2>13. i = j => (y + j) - (x + i) = y - x
    OBVIOUS
  <2>14. c # b => lg[c + 1] - lf[c + 1] = lg[c] - lf[c]
    BY <2>8, <2>9, <2>10, <2>13
  <2>15. QED
    BY <2>12, <2>14
<1> DEFINE T == {m \in 0..n : lg[m] - lf[m] = IF m > b THEN d ELSE 0}
<1>7. 0 \in T
  <2>1. f[0] = <<>> /\ g[0] = <<>> /\ 0 \in 0..n
    BY <1>1, <1>2, <1>3 DEF RowsTo
  <2>2. lf[0] = 0 /\ lg[0] = 0
    BY <1>5, <2>1
  <2>3. QED
    BY <2>1, <2>2
<1>8. ASSUME NEW m \in 0..n, m \in T, m < n PROVE m + 1 \in T
  <2>1. m \in 0..(n - 1) /\ m + 1 \in 0..n
    BY <1>3, <1>8
  <2>2. lg[m] - lf[m] = IF m > b THEN d ELSE 0
    BY <1>8
  <2>3. /\ m = b => lg[m + 1] - lf[m + 1] = (lg[m] - lf[m]) + d
        /\ m # b => lg[m + 1] - lf[m + 1] = lg[m] - lf[m]
    BY <1>6, <2>1
  <2>4. lg[m + 1] - lf[m + 1] = IF m + 1 > b THEN d ELSE 0
    BY <2>1, <2>2, <2>3
  <2>5. QED
    BY <2>1, <2>4
<1>9. n \in T
  <2> HIDE DEF T
  <2>1. \A m \in 0..n : m \in T
    BY <1>3, <1>7, <1>8, Climb
  <2>2. QED
    BY <1>3, <2>1
<1>10. lg[n] - lf[n] = d /\ n \in 0..n
  BY <1>3, <1>9
<1>11. QED
  <2>1. lf[n] \in Nat /\ lg[n] \in Nat /\ lf[n] = Len(f[n]) /\ lg[n] = Len(g[n])
    BY <1>5, <1>10
  <2>2. PICK i \in Nat, j \in Nat : i = Len(t[b]) /\ j = Len(u[b])
    BY <1>3, SMTT(30)
  <2>3. d = j - i
    BY <1>5, <2>2
  <2>4. lg[n] - lf[n] = j - i
    BY <1>10, <2>1, <2>3
  <2>5. QED
    BY <1>1, <1>2, <2>1, <2>2, <2>4 DEF SameRise

(* A new table is empty.                                                   *)
LEMMA EmptyIs ==
  ASSUME NEW n \in Nat
  PROVE  /\ IsTable(EmptyTable(n), n) /\ \A b \in 0..(n - 1) : EmptyTable(n)[b] = <<>>
         /\ Objects(EmptyTable(n), n) = <<>> /\ Stored(EmptyTable(n)) = {}
<1>1. IsTable(EmptyTable(n), n) /\ \A b \in 0..(n - 1) : EmptyTable(n)[b] = <<>>
  <2>1. <<>> \in Seq(Obj)
    OBVIOUS
  <2>2. QED
    BY <2>1 DEF IsTable, EmptyTable
<1>2. Stored(EmptyTable(n)) = {}
  <2>1. \A b \in DOMAIN EmptyTable(n) : Len(EmptyTable(n)[b]) = 0
    BY DEF EmptyTable
  <2>2. QED
    BY <2>1 DEF Stored
<1>3. PICK f : RowsTo(f, EmptyTable(n), n) /\ Objects(EmptyTable(n), n) = f[n]
  BY <1>1, RowsAre
<1> DEFINE T == {m \in 0..n : f[m] = <<>>}
<1>4. 0 \in T
  BY <1>3 DEF RowsTo
<1>5. ASSUME NEW m \in 0..n, m \in T, m < n PROVE m + 1 \in T
  <2>1. m \in 0..(n - 1) /\ m + 1 \in 0..n /\ f[m] = <<>>
    BY <1>5
  <2>2. f[m + 1] = f[m] \o EmptyTable(n)[m]
    BY <1>3, <2>1 DEF RowsTo
  <2>3. f[m + 1] = <<>> \o <<>>
    BY <1>1, <2>1, <2>2
  <2>4. f[m + 1] = <<>>
    BY <2>3
  <2>5. QED
    BY <2>1, <2>4
<1>6. n \in T
  <2> HIDE DEF T
  <2>1. \A m \in 0..n : m \in T
    BY <1>4, <1>5, Climb
  <2>2. QED
    BY <2>1
<1>7. QED
  BY <1>1, <1>2, <1>3, <1>6

\* No key is stored twice.  The sequence s holds what is in the first m lists,
\* each key once.
KeyOnce(t) ==
  \A b, c \in DOMAIN t : \A i \in 1 .. Len(t[b]), j \in 1 .. Len(t[c]) :
    t[b][i].key = t[c][j].key => b = c /\ i = j
Spells(s, t, m) ==
  /\ s \in Seq(Obj)
  /\ \A x \in 1 .. Len(s) : \E b \in 0..(m - 1) : \E i \in 1 .. Len(t[b]) : s[x] = t[b][i]
  /\ \A b \in 0..(m - 1) : \A i \in 1 .. Len(t[b]) : \E x \in 1 .. Len(s) : s[x] = t[b][i]
  /\ \A x, y \in 1 .. Len(s) : s[x].key = s[y].key => x = y

(* From the first m lists to the next one.                                 *)
LEMMA SpellsOn ==
  ASSUME NEW t, NEW n, IsTable(t, n), KeyOnce(t), NEW m \in 0..(n - 1), NEW s, Spells(s, t, m)
  PROVE  Spells(s \o t[m], t, m + 1)
<1>1. n \in Nat /\ m \in Nat /\ t[m] \in Seq(Obj) /\ DOMAIN t = 0..(n - 1) /\ s \in Seq(Obj)
  BY DEF IsTable, Spells
<1>2. PICK l \in Nat, k \in Nat : l = Len(s) /\ k = Len(t[m])
  BY <1>1
<1>3. PICK u : u = s \o t[m]
  OBVIOUS
<1>4. /\ u \in Seq(Obj) /\ Len(u) = l + k
      /\ \A x \in 1 .. (l + k) : u[x] = IF x <= l THEN s[x] ELSE t[m][x - l]
  BY <1>1, <1>2, <1>3, ConcatIs
<1>5. /\ \A x \in 1 .. l : u[x] = s[x] /\ x \in 1 .. Len(u)
      /\ \A i \in 1 .. k : u[l + i] = t[m][i] /\ l + i \in 1 .. Len(u)
  <2>1. \A x \in 1 .. l : u[x] = s[x] /\ x \in 1 .. Len(u)
    BY <1>2, <1>4
  <2>2. ASSUME NEW i \in 1 .. k PROVE u[l + i] = t[m][i] /\ l + i \in 1 .. Len(u)
    <3>1. l + i \in 1 .. (l + k) /\ ~(l + i <= l) /\ (l + i) - l = i
      BY <1>2
    <3>2. QED
      BY <1>4, <3>1
  <2>3. QED
    BY <2>1, <2>2
<1>6. ASSUME NEW x \in 1 .. Len(u)
      PROVE  (x \in 1 .. l /\ u[x] = s[x]) \/ \E i \in 1 .. k : x = l + i /\ u[x] = t[m][i]
  <2>1. CASE x <= l
    BY <1>2, <1>4, <1>5, <2>1
  <2>2. CASE ~(x <= l)
    <3>1. x - l \in 1 .. k /\ x = l + (x - l)
      BY <1>2, <1>4, <2>2
    <3>2. QED
      BY <1>5, <3>1
  <2>3. QED
    BY <2>1, <2>2
<1>7. \A b \in 0..m : b \in 0..(m - 1) \/ b = m
  BY <1>1
<1>8. m \in 0..m /\ (m + 1) - 1 = m /\ \A b \in 0..(m - 1) : b \in 0..m /\ b \in DOMAIN t /\ b # m
  BY <1>1
<1>9. \A x \in 1 .. Len(u) : \E b \in 0..m : \E i \in 1 .. Len(t[b]) : u[x] = t[b][i]
  <2> TAKE x \in 1 .. Len(u)
  <2>1. CASE x \in 1 .. l /\ u[x] = s[x]
    <3>1. PICK b \in 0..(m - 1) : \E i \in 1 .. Len(t[b]) : s[x] = t[b][i]
      BY <1>2, <2>1 DEF Spells
    <3>2. QED
      BY <1>8, <2>1, <3>1
  <2>2. CASE \E i \in 1 .. k : x = l + i /\ u[x] = t[m][i]
    BY <1>2, <1>8, <2>2
  <2>3. QED
    BY <1>6, <2>1, <2>2
<1>10. \A b \in 0..m : \A i \in 1 .. Len(t[b]) : \E x \in 1 .. Len(u) : u[x] = t[b][i]
  <2>1. \A b \in 0..(m - 1) : \A i \in 1 .. Len(t[b]) : \E x \in 1 .. Len(u) : u[x] = t[b][i]
    BY <1>2, <1>5 DEF Spells
  <2>2. \A i \in 1 .. Len(t[m]) : \E x \in 1 .. Len(u) : u[x] = t[m][i]
    BY <1>2, <1>5
  <2>3. QED
    BY <1>7, <2>1, <2>2
<1>11. ASSUME NEW x \in 1 .. l, NEW i \in 1 .. k PROVE s[x].key # t[m][i].key
  <2>1. PICK b \in 0..(m - 1) : \E j \in 1 .. Len(t[b]) : s[x] = t[b][j]
    BY <1>2 DEF Spells
  <2>2. PICK j \in 1 .. Len(t[b]) : s[x] = t[b][j]
    BY <2>1
  <2>3. b \in DOMAIN t /\ b # m /\ m \in DOMAIN t
    BY <1>1, <1>8
  <2>4. QED
    BY <1>2, <2>2, <2>3 DEF KeyOnce
<1>12. ASSUME NEW i \in 1 .. k, NEW j \in 1 .. k, t[m][i].key = t[m][j].key PROVE i = j
  BY <1>1, <1>2, <1>12 DEF KeyOnce
<1>13. \A x, y \in 1 .. Len(u) : u[x].key = u[y].key => x = y
  <2> TAKE x, y \in 1 .. Len(u)
  <2> HAVE u[x].key = u[y].key
  <2>1. CASE x \in 1 .. l /\ u[x] = s[x]
    <3>1. CASE y \in 1 .. l /\ u[y] = s[y]
      BY <1>2, <2>1, <3>1 DEF Spells
    <3>2. CASE \E i \in 1 .. k : y = l + i /\ u[y] = t[m][i]
      BY <1>11, <2>1, <3>2
    <3>3. QED
      BY <1>6, <3>1, <3>2
  <2>2. CASE \E i \in 1 .. k : x = l + i /\ u[x] = t[m][i]
    <3>1. CASE y \in 1 .. l /\ u[y] = s[y]
      BY <1>11, <2>2, <3>1
    <3>2. CASE \E i \in 1 .. k : y = l + i /\ u[y] = t[m][i]
      BY <1>12, <2>2, <3>2
    <3>3. QED
      BY <1>6, <3>1, <3>2
  <2>3. QED
    BY <1>6, <2>1, <2>2
<1>14. 0..((m + 1) - 1) = 0..m
  BY <1>8
<1>15. Spells(u, t, m + 1)
  <2>1. \A x \in 1 .. Len(u) : \E b \in 0..((m + 1) - 1) : \E i \in 1 .. Len(t[b]) : u[x] = t[b][i]
    BY <1>9, <1>14
  <2>2. \A b \in 0..((m + 1) - 1) : \A i \in 1 .. Len(t[b]) : \E x \in 1 .. Len(u) : u[x] = t[b][i]
    BY <1>10, <1>14
  <2>3. QED
    BY <1>4, <1>13, <2>1, <2>2 DEF Spells
<1>16. QED
  BY <1>3, <1>15

(* The objects of a table, each key once.                                  *)
LEMMA ObjectsAre ==
  ASSUME NEW t, NEW n, IsTable(t, n), KeyOnce(t)
  PROVE  Spells(Objects(t, n), t, n)
<1>1. PICK f : RowsTo(f, t, n) /\ Objects(t, n) = f[n]
  BY RowsAre
<1>2. n \in Nat
  BY DEF IsTable
<1> DEFINE T == {m \in 0..n : Spells(f[m], t, m)}
<1>3. 0 \in T
  <2>1. Spells(<<>>, t, 0)
    BY DEF Spells
  <2>2. QED
    BY <1>1, <1>2, <2>1 DEF RowsTo
<1>4. ASSUME NEW m \in 0..n, m \in T, m < n PROVE m + 1 \in T
  <2>1. m \in 0..(n - 1) /\ m + 1 \in 0..n /\ Spells(f[m], t, m)
    BY <1>2, <1>4
  <2>2. f[m + 1] = f[m] \o t[m]
    BY <1>1, <2>1 DEF RowsTo
  <2>3. QED
    BY <2>1, <2>2, SpellsOn
<1>5. n \in T
  <2> HIDE DEF T
  <2>1. \A m \in 0..n : m \in T
    BY <1>2, <1>3, <1>4, Climb
  <2>2. QED
    BY <1>2, <2>1
<1>6. QED
  BY <1>1, <1>5

\* The sizes of tables; the element of a chain or of a slot is where the
\* search for its key goes by.
GoodSize(n) == n \in Nat /\ n > 4 /\ \A k \in Keys : Hash(k, n) \in 0..(n - 1)
Chained(t, n) ==
  \A b \in DOMAIN t :
    /\ \A i \in 1 .. Len(t[b]) : Hash(t[b][i].key, n) = b
    /\ \A i, j \in 1 .. Len(t[b]) : i < j => t[b][i].key < t[b][j].key
Reached(t, n, k, b) ==
  \E i \in 1 .. (n - 1) :
    /\ Probe(k, n)[i] = b
    /\ \A j \in 1 .. (i - 1) : t[Probe(k, n)[j]] # <<>> /\ t[Probe(k, n)[j]][1].key # k
Probed(t, n) ==
  \A b \in DOMAIN t : Len(t[b]) <= 1 /\ \A i \in 1 .. Len(t[b]) : Reached(t, n, t[b][i].key, b)
Placed(t, n) == IsTable(t, n) /\ IF Chain THEN Chained(t, n) ELSE Probed(t, n)

\* Where key k is.
At(t, k) == {f \in (DOMAIN t) \X Nat : f[2] \in 1 .. Len(t[f[1]]) /\ t[f[1]][f[2]].key = k}

(* The key and the value of an object.                                     *)
LEMMA ObjIs ==
  ASSUME TableAssumption, NEW o \in Obj
  PROVE  o.key \in Keys /\ o.val \in Vals /\ o.key \in Nat /\ o.val # None
<1>1. Keys \subseteq Nat /\ None \notin Vals
  BY DEF TableAssumption
<1>2. QED
  BY <1>1 DEF Obj

(* What the lists of a table hold.                                         *)
LEMMA TableIs ==
  ASSUME TableAssumption, NEW t, NEW n, IsTable(t, n)
  PROVE  /\ n \in Nat /\ DOMAIN t = 0..(n - 1)
         /\ \A b \in DOMAIN t : t[b] \in Seq(Obj) /\ DOMAIN t[b] = 1 .. Len(t[b]) /\ Len(t[b]) \in Nat
         /\ \A b \in DOMAIN t : \A i \in 1 .. Len(t[b]) :
              t[b][i] \in Obj /\ t[b][i].key \in Keys /\ t[b][i].key \in Nat
<1>1. n \in Nat /\ DOMAIN t = 0..(n - 1) /\ \A b \in DOMAIN t : t[b] \in Seq(Obj)
  BY DEF IsTable
<1>2. \A s \in Seq(Obj) : DOMAIN s = 1 .. Len(s) /\ Len(s) \in Nat /\ \A i \in 1 .. Len(s) : s[i] \in Obj
  OBVIOUS
<1>3. QED
  BY <1>1, <1>2, ObjIs

(* The places of a key.                                                    *)
LEMMA AtIs ==
  ASSUME NEW t, NEW k
  PROVE  /\ \A f \in At(t, k) : f[1] \in DOMAIN t /\ f[2] \in Nat /\ f = <<f[1], f[2]>>
                                /\ f[2] \in 1 .. Len(t[f[1]]) /\ t[f[1]][f[2]].key = k
         /\ \A b \in DOMAIN t : \A i \in 1 .. Len(t[b]) : i \in Nat => (t[b][i].key = k => <<b, i>> \in At(t, k))
<1>1. \A f \in (DOMAIN t) \X Nat : f[1] \in DOMAIN t /\ f[2] \in Nat /\ f = <<f[1], f[2]>>
  OBVIOUS
<1>2. ASSUME NEW b \in DOMAIN t, NEW i \in 1 .. Len(t[b]), i \in Nat, t[b][i].key = k
      PROVE  <<b, i>> \in At(t, k)
  <2>1. PICK f : f = <<b, i>>
    OBVIOUS
  <2>2. f \in (DOMAIN t) \X Nat /\ f[1] = b /\ f[2] = i
    BY <1>2, <2>1
  <2>3. f \in At(t, k)
    BY <1>2, <2>2 DEF At
  <2>4. QED
    BY <2>1, <2>3
<1>3. QED
  BY <1>1, <1>2 DEF At

(* A probe visits slots of the table, and all but one of them.             *)
LEMMA ProbeIs ==
  ASSUME NEW n, GoodSize(n), NEW k \in Keys
  PROVE  /\ DOMAIN Probe(k, n) = 1 .. (n - 1)
         /\ \A i \in 1 .. (n - 1) : Probe(k, n)[i] \in 0..(n - 1)
         /\ \E z \in 0..(n - 1) : \A b \in 0..(n - 1) : b # z => \E i \in 1 .. (n - 1) : Probe(k, n)[i] = b
<1>1. PICK h \in 0..(n - 1) : h = Hash(k, n)
  BY DEF GoodSize
<1>2. n \in Nat /\ n > 4
  BY DEF GoodSize
<1>3. DOMAIN Probe(k, n) = 1 .. (n - 1) /\ \A i \in 1 .. (n - 1) : Probe(k, n)[i] = (h + i - 1) % n
  BY <1>1 DEF Probe
<1>4. \A x \in Nat : x % n \in 0..(n - 1)
  BY <1>2
<1>5. \A x \in 0..(n - 1) : x % n = x /\ (n + x) % n = x
  BY <1>2
<1>6. \A i \in 1 .. (n - 1) : h + i - 1 \in Nat
  BY <1>1, <1>2
<1>7. PICK z \in 0..(n - 1) : z = IF h = 0 THEN n - 1 ELSE h - 1
  BY <1>1, <1>2
<1>8. ASSUME NEW b \in 0..(n - 1), b # z PROVE \E i \in 1 .. (n - 1) : Probe(k, n)[i] = b
  <2>1. CASE b >= h
    <3>1. b - h + 1 \in 1 .. (n - 1) /\ h + (b - h + 1) - 1 = b
      BY <1>1, <1>2, <1>7, <1>8, <2>1
    <3>2. QED
      BY <1>3, <1>5, <3>1
  <2>2. CASE ~(b >= h)
    <3>1. n - h + b + 1 \in 1 .. (n - 1) /\ h + (n - h + b + 1) - 1 = n + b
      BY <1>1, <1>2, <1>7, <1>8, <2>2
    <3>2. QED
      BY <1>3, <1>5, <3>1
  <2>3. QED
    BY <2>1, <2>2
<1>9. QED
  BY <1>3, <1>4, <1>6, <1>7, <1>8

(* When each element is where the search for its key goes by, no key is    *)
(* stored twice.                                                           *)
LEMMA PlacedOnce ==
  ASSUME TableAssumption, NEW t, NEW n, GoodSize(n), Placed(t, n)
  PROVE  KeyOnce(t)
<1>1. SUFFICES ASSUME NEW b \in DOMAIN t, NEW c \in DOMAIN t, NEW i \in 1 .. Len(t[b]),
                      NEW j \in 1 .. Len(t[c]), t[b][i].key = t[c][j].key
               PROVE  b = c /\ i = j
  BY DEF KeyOnce
<1>2. n \in Nat /\ DOMAIN t = 0..(n - 1) /\ t[b] \in Seq(Obj) /\ t[c] \in Seq(Obj)
  BY TableIs DEF Placed
<1>3. i \in Nat /\ j \in Nat /\ t[b][i].key \in Nat /\ t[c][j].key \in Nat
  BY TableIs DEF Placed
<1>4. CASE Chain
  <2>1. Chained(t, n)
    BY <1>4 DEF Placed
  <2>2. b = c
    BY <1>1, <2>1 DEF Chained
  <2>3. ~(i < j) /\ ~(j < i)
    BY <1>1, <1>3, <2>1, <2>2 DEF Chained
  <2>4. QED
    BY <1>3, <2>2, <2>3
<1>5. CASE ~Chain
  <2>1. Probed(t, n)
    BY <1>5 DEF Placed
  <2>2. Len(t[b]) <= 1 /\ Len(t[c]) <= 1 /\ Len(t[b]) \in Nat /\ Len(t[c]) \in Nat
    BY <1>2, <2>1 DEF Probed
  <2>3. i = 1 /\ j = 1 /\ t[b][1].key = t[c][1].key
    BY <1>1, <2>2
  <2>4. PICK k : k = t[b][1].key
    OBVIOUS
  <2>5. PICK x \in 1 .. (n - 1) :
          /\ Probe(k, n)[x] = b
          /\ \A y \in 1 .. (x - 1) : t[Probe(k, n)[y]] # <<>> /\ t[Probe(k, n)[y]][1].key # k
    BY <2>1, <2>3, <2>4 DEF Probed, Reached
  <2>6. PICK y \in 1 .. (n - 1) :
          /\ Probe(k, n)[y] = c
          /\ \A z \in 1 .. (y - 1) : t[Probe(k, n)[z]] # <<>> /\ t[Probe(k, n)[z]][1].key # k
    BY <2>1, <2>3, <2>4 DEF Probed, Reached
  <2>7. ~(x < y)
    <3>1. x < y => x \in 1 .. (y - 1)
      BY <1>2
    <3>2. QED
      BY <2>4, <2>5, <2>6, <3>1
  <2>8. ~(y < x)
    <3>1. y < x => y \in 1 .. (x - 1)
      BY <1>2
    <3>2. QED
      BY <2>3, <2>4, <2>5, <2>6, <3>1
  <2>9. x = y
    BY <1>2, <2>7, <2>8
  <2>10. QED
    BY <2>3, <2>5, <2>6, <2>9
<1>6. QED
  BY <1>4, <1>5

(* What put and get find is where the key is, in one place at most.        *)
LEMMA FoundIs ==
  ASSUME TableAssumption, NEW t, NEW n, GoodSize(n), Placed(t, n), NEW k \in Keys
  PROVE  /\ Found(t, n, k) = At(t, k) /\ Present(t, n, k) = At(t, k)
         /\ \A f, g \in At(t, k) : f = g
<1>1. /\ n \in Nat /\ DOMAIN t = 0..(n - 1) /\ k \in Nat /\ Hash(k, n) \in 0..(n - 1)
      /\ \A b \in DOMAIN t : t[b] \in Seq(Obj) /\ DOMAIN t[b] = 1 .. Len(t[b]) /\ Len(t[b]) \in Nat
      /\ \A b \in DOMAIN t : \A i \in 1 .. Len(t[b]) : t[b][i].key \in Nat
  <2>1. k \in Nat
    BY DEF TableAssumption
  <2>2. QED
    BY <2>1, TableIs DEF Placed, GoodSize
<1>2. ASSUME NEW f \in At(t, k), NEW g \in At(t, k) PROVE f = g
  <2>1. /\ f[1] \in DOMAIN t /\ f[2] \in 1 .. Len(t[f[1]]) /\ t[f[1]][f[2]].key = k /\ f = <<f[1], f[2]>>
        /\ g[1] \in DOMAIN t /\ g[2] \in 1 .. Len(t[g[1]]) /\ t[g[1]][g[2]].key = k /\ g = <<g[1], g[2]>>
    BY AtIs
  <2>2. f[1] = g[1] /\ f[2] = g[2]
    BY <2>1, PlacedOnce DEF KeyOnce
  <2>3. QED
    BY <2>1, <2>2
<1>3. CASE Chain
  <2>1. Chained(t, n)
    BY <1>3 DEF Placed
  <2> DEFINE h == Hash(k, n)
  <2>2. Found(t, n, k) = {<<h, i>> : i \in {j \in DOMAIN t[h] :
          t[h][j].key = k /\ \A l \in 1 .. (j - 1) : t[h][l].key < k}}
    BY <1>3 DEF Found
  <2>3. ASSUME NEW i \in 1 .. Len(t[h]), t[h][i].key = k, NEW l \in 1 .. (i - 1)
        PROVE  t[h][l].key < k
    <3>1. l \in 1 .. Len(t[h]) /\ l < i
      BY <1>1
    <3>2. QED
      BY <1>1, <2>1, <2>3, <3>1 DEF Chained
  <2>4. ASSUME NEW f \in Found(t, n, k) PROVE f \in At(t, k)
    <3>1. PICK i \in DOMAIN t[h] : f = <<h, i>> /\ t[h][i].key = k
      BY <2>2
    <3>2. QED
      BY <1>1, <3>1, AtIs
  <2>5. ASSUME NEW f \in At(t, k) PROVE f \in Found(t, n, k)
    <3>1. PICK b \in DOMAIN t, i \in Nat : f = <<b, i>> /\ i \in 1 .. Len(t[b]) /\ t[b][i].key = k
      BY AtIs
    <3>2. b = h
      BY <2>1, <3>1 DEF Chained
    <3>3. i \in DOMAIN t[h] /\ \A l \in 1 .. (i - 1) : t[h][l].key < k
      BY <1>1, <2>3, <3>1, <3>2
    <3>4. QED
      BY <2>2, <3>1, <3>2, <3>3
  <2>6. Found(t, n, k) = At(t, k)
    BY <2>4, <2>5
  <2>7. QED
    BY <1>2, <1>3, <2>6 DEF Present
<1>4. CASE ~Chain
  <2>1. Probed(t, n)
    BY <1>4 DEF Placed
  <2> DEFINE p == Probe(k, n)
  <2>2. Found(t, n, k) = {<<p[i], 1>> : i \in {j \in DOMAIN p :
          /\ t[p[j]] # <<>> /\ t[p[j]][1].key = k
          /\ \A l \in 1..(j - 1) : t[p[l]] = <<>> \/ t[p[l]][1].key # k}}
    BY <1>4 DEF Found
  <2>3. DOMAIN p = 1 .. (n - 1) /\ \A i \in 1 .. (n - 1) : p[i] \in DOMAIN t
    BY <1>1, ProbeIs
  <2>4. ASSUME NEW f \in Found(t, n, k) PROVE f \in At(t, k)
    <3>1. PICK i \in DOMAIN p : f = <<p[i], 1>> /\ t[p[i]] # <<>> /\ t[p[i]][1].key = k
      BY <2>2
    <3>2. p[i] \in DOMAIN t /\ t[p[i]] \in Seq(Obj) /\ Len(t[p[i]]) \in Nat
      BY <1>1, <2>3
    <3>3. 1 \in 1 .. Len(t[p[i]])
      BY <3>1, <3>2
    <3>4. QED
      BY <3>1, <3>2, <3>3, AtIs
  <2>5. ASSUME NEW f \in At(t, k)
        PROVE  \E i \in 1 .. (n - 1) :
                 /\ f = <<p[i], 1>> /\ t[p[i]] # <<>> /\ t[p[i]][1].key = k
                 /\ \A j \in 1 .. (i - 1) : t[p[j]] # <<>> /\ t[p[j]][1].key # k
    <3>1. PICK b \in DOMAIN t, i \in Nat : f = <<b, i>> /\ i \in 1 .. Len(t[b]) /\ t[b][i].key = k
      BY AtIs
    <3>2. i = 1 /\ t[b] # <<>>
      BY <1>1, <2>1, <3>1 DEF Probed
    <3>3. Reached(t, n, k, b)
      BY <2>1, <3>1 DEF Probed
    <3>4. QED
      BY <3>1, <3>2, <3>3 DEF Reached
  <2>6. \A f \in At(t, k) : f \in Found(t, n, k)
    BY <2>2, <2>3, <2>5
  <2>7. Found(t, n, k) = At(t, k)
    BY <2>4, <2>6
  <2>8. Present(t, n, k) = {f \in Found(t, n, k) :
          \A l \in DOMAIN p : (\A m \in 1..l : p[m] # f[1]) => t[p[l]] # <<>>}
    BY <1>4 DEF Present
  <2>9. ASSUME NEW f \in At(t, k), NEW l \in DOMAIN p, \A m \in 1..l : p[m] # f[1]
        PROVE  t[p[l]] # <<>>
    <3>1. PICK i \in 1 .. (n - 1) :
            f = <<p[i], 1>> /\ \A j \in 1 .. (i - 1) : t[p[j]] # <<>>
      BY <2>5
    <3>2. i \notin 1 .. l
      BY <2>9, <3>1
    <3>3. l \in 1 .. (i - 1)
      BY <1>1, <2>3, <3>2
    <3>4. QED
      BY <3>1, <3>3
  <2>10. Present(t, n, k) = At(t, k)
    BY <2>7, <2>8, <2>9
  <2>11. QED
    BY <1>2, <2>7, <2>10
<1>5. QED
  BY <1>3, <1>4

Changed(u, t, b, s) == u = [t EXCEPT ![b] = s]
OneMore(x, y) == x = y + 1
Loses(s, r, o) == \E i \in 1 .. Len(r) : Removed(s, r, i) /\ o = r[i]
Gains(s, r, o) == \E i \in 1 .. (Len(r) + 1) : Inserted(s, r, i, o)

(* What becomes of a table when one list gains an object.                  *)
LEMMA RowGains ==
  ASSUME TableAssumption, NEW t, NEW n, IsTable(t, n), NEW b \in 0..(n - 1), NEW s \in Seq(Obj),
         NEW o \in Obj, Gains(s, t[b], o),
         NEW u, Changed(u, t, b, s)
  PROVE  /\ IsTable(u, n) /\ Stored(u) = Stored(t) \cup {o}
         /\ OneMore(Len(Objects(u, n)), Len(Objects(t, n)))
<1>1. /\ n \in Nat /\ DOMAIN t = 0..(n - 1) /\ Len(t[b]) \in Nat
      /\ \A c \in DOMAIN t : t[c] \in Seq(Obj) /\ \A j \in 1 .. Len(t[c]) : t[c][j] \in Obj
  BY TableIs
<1>2. DOMAIN u = DOMAIN t /\ u[b] = s /\ \A c \in DOMAIN t : c # b => u[c] = t[c]
  BY <1>1 DEF Changed
<1>3. IsTable(u, n)
  BY <1>1, <1>2 DEF IsTable, Changed
<1>4. PICK l \in Nat : l = Len(t[b]) /\ Len(s) = l + 1
  BY <1>1 DEF Gains, Inserted
<1>5. PICK i \in 1 .. (l + 1) :
        \A j \in 1 .. (l + 1) : s[j] = IF j < i THEN t[b][j] ELSE IF j = i THEN o ELSE t[b][j - 1]
  BY <1>4 DEF Gains, Inserted
<1>6. \A j \in 1 .. (l + 1) : s[j] = o \/ \E k \in 1 .. l : s[j] = t[b][k]
  <2> TAKE j \in 1 .. (l + 1)
  <2>1. CASE j < i
    BY <1>5, <2>1
  <2>2. CASE j > i
    <3>1. j - 1 \in 1 .. l
      BY <1>5, <2>2
    <3>2. QED
      BY <1>5, <2>2, <3>1
  <2>3. QED
    BY <1>5, <2>1, <2>2
<1>7. \A k \in 1 .. l : \E j \in 1 .. (l + 1) : s[j] = t[b][k]
  <2> TAKE k \in 1 .. l
  <2>1. CASE k < i
    BY <1>5, <2>1
  <2>2. CASE ~(k < i)
    <3>1. k + 1 \in 1 .. (l + 1) /\ ~(k + 1 < i) /\ k + 1 # i /\ (k + 1) - 1 = k
      BY <1>5, <2>2
    <3>2. QED
      BY <1>5, <3>1
  <2>3. QED
    BY <2>1, <2>2
<1>8. s[i] = o
  BY <1>5
<1>9. ASSUME NEW x \in Obj PROVE x \in Stored(u) <=> x \in Stored(t) \/ x = o
  <2>1. ASSUME x \in Stored(u) PROVE x \in Stored(t) \/ x = o
    <3>1. PICK c \in DOMAIN u : \E j \in 1 .. Len(u[c]) : u[c][j] = x
      BY <2>1 DEF Stored
    <3>2. CASE c = b
      BY <1>1, <1>2, <1>4, <1>6, <3>1, <3>2, SMTT(30) DEF Stored
    <3>3. CASE c # b
      BY <1>2, <3>1, <3>3 DEF Stored
    <3>4. QED
      BY <3>2, <3>3
  <2>2. ASSUME x = o PROVE x \in Stored(u)
    BY <1>1, <1>2, <1>4, <1>5, <1>8, <2>2 DEF Stored
  <2>3. ASSUME x \in Stored(t) PROVE x \in Stored(u)
    <3>1. PICK c \in DOMAIN t : \E j \in 1 .. Len(t[c]) : t[c][j] = x
      BY <2>3 DEF Stored
    <3>2. CASE c = b
      BY <1>1, <1>2, <1>4, <1>7, <3>1, <3>2 DEF Stored
    <3>3. CASE c # b
      BY <1>2, <3>1, <3>3 DEF Stored
    <3>4. QED
      BY <3>2, <3>3
  <2>4. QED
    BY <2>1, <2>2, <2>3
<1>10. Stored(u) = Stored(t) \cup {o}
  BY <1>9 DEF Stored
<1>11. SameRise(Len(Objects(u, n)), Len(Objects(t, n)), Len(u[b]), Len(t[b]))
  <2>1. \A c \in 0..(n - 1) : c # b => u[c] = t[c]
    BY <1>1, <1>2
  <2>2. QED
    BY <1>3, <2>1, CountChanges
<1>12. PICK c \in Nat, d \in Nat : c = Len(Objects(t, n)) /\ d = Len(Objects(u, n))
  BY <1>3, CountIs
<1>13. d - c = (l + 1) - l
  BY <1>2, <1>4, <1>11, <1>12 DEF SameRise
<1>14. d = c + 1
  BY <1>13
<1>15. OneMore(Len(Objects(u, n)), Len(Objects(t, n)))
  BY <1>12, <1>14 DEF OneMore
<1>16. QED
  BY <1>3, <1>10, <1>15

(* When one list loses an object.                                          *)
LEMMA RowLoses ==
  ASSUME TableAssumption, NEW t, NEW n, IsTable(t, n), KeyOnce(t), NEW b \in 0..(n - 1),
         NEW o, NEW s \in Seq(Obj), Loses(s, t[b], o),
         NEW u, Changed(u, t, b, s)
  PROVE  /\ IsTable(u, n) /\ Stored(u) = Stored(t) \ {o}
         /\ OneMore(Len(Objects(t, n)), Len(Objects(u, n)))
<1>1. /\ n \in Nat /\ DOMAIN t = 0..(n - 1) /\ Len(t[b]) \in Nat
      /\ \A c \in DOMAIN t : t[c] \in Seq(Obj) /\ \A j \in 1 .. Len(t[c]) : t[c][j] \in Obj
  BY TableIs
<1>2. DOMAIN u = DOMAIN t /\ u[b] = s /\ \A c \in DOMAIN t : c # b => u[c] = t[c]
  BY <1>1 DEF Changed
<1>3. IsTable(u, n)
  BY <1>1, <1>2 DEF IsTable, Changed
<1>4. PICK l \in Nat : l = Len(t[b]) /\ Len(s) = l - 1
  BY <1>1 DEF Loses, Removed
<1>5. PICK i \in 1 .. l :
        /\ \A j \in 1 .. (l - 1) : s[j] = IF j < i THEN t[b][j] ELSE t[b][j + 1]
        /\ o = t[b][i]
  BY <1>4 DEF Loses, Removed
<1>6. \A j \in 1 .. (l - 1) : \E k \in 1 .. l : k # i /\ s[j] = t[b][k]
  <2> TAKE j \in 1 .. (l - 1)
  <2>1. CASE j < i
    BY <1>5, <2>1
  <2>2. CASE ~(j < i)
    <3>1. j + 1 \in 1 .. l /\ j + 1 # i
      BY <1>5, <2>2
    <3>2. QED
      BY <1>5, <2>2, <3>1
  <2>3. QED
    BY <2>1, <2>2
<1>7. \A k \in 1 .. l : k # i => \E j \in 1 .. (l - 1) : s[j] = t[b][k]
  <2> TAKE k \in 1 .. l
  <2>1. CASE k < i
    BY <1>5, <2>1
  <2>2. CASE k > i
    <3>1. k - 1 \in 1 .. (l - 1) /\ ~(k - 1 < i) /\ (k - 1) + 1 = k
      BY <1>5, <2>2
    <3>2. QED
      BY <1>5, <3>1
  <2>3. QED
    BY <1>5, <2>1, <2>2
<1>8. \A c \in DOMAIN t : \A j \in 1 .. Len(t[c]) : t[c][j] = o => c = b /\ j = i
  <2> TAKE c \in DOMAIN t
  <2> TAKE j \in 1 .. Len(t[c])
  <2> HAVE t[c][j] = o
  <2>1. b \in DOMAIN t /\ i \in 1 .. Len(t[b]) /\ t[c][j].key = t[b][i].key
    BY <1>1, <1>4, <1>5
  <2>2. QED
    BY <2>1 DEF KeyOnce
<1>9. ASSUME NEW x \in Obj PROVE x \in Stored(u) <=> x \in Stored(t) /\ x # o
  <2>1. ASSUME x \in Stored(u) PROVE x \in Stored(t) /\ x # o
    <3>1. PICK c \in DOMAIN u : \E j \in 1 .. Len(u[c]) : u[c][j] = x
      BY <2>1 DEF Stored
    <3>2. CASE c = b
      <4>1. PICK j \in 1 .. (l - 1) : s[j] = x
        BY <1>2, <1>4, <3>1, <3>2
      <4>2. PICK k \in 1 .. l : k # i /\ x = t[b][k]
        BY <1>6, <4>1
      <4>3. QED
        BY <1>1, <1>4, <1>8, <4>2 DEF Stored
    <3>3. CASE c # b
      BY <1>2, <1>8, <3>1, <3>3 DEF Stored
    <3>4. QED
      BY <3>2, <3>3
  <2>2. ASSUME x \in Stored(t), x # o PROVE x \in Stored(u)
    <3>1. PICK c \in DOMAIN t : \E j \in 1 .. Len(t[c]) : t[c][j] = x
      BY <2>2 DEF Stored
    <3>2. CASE c = b
      <4>1. PICK k \in 1 .. l : x = t[b][k] /\ k # i
        BY <1>4, <1>5, <2>2, <3>1, <3>2
      <4>2. PICK j \in 1 .. (l - 1) : s[j] = x
        BY <1>7, <4>1
      <4>3. QED
        BY <1>1, <1>2, <1>4, <4>2 DEF Stored
    <3>3. CASE c # b
      BY <1>2, <3>1, <3>3 DEF Stored
    <3>4. QED
      BY <3>2, <3>3
  <2>3. QED
    BY <2>1, <2>2
<1>10. Stored(u) = Stored(t) \ {o}
  BY <1>9 DEF Stored
<1>11. SameRise(Len(Objects(u, n)), Len(Objects(t, n)), Len(u[b]), Len(t[b]))
  <2>1. \A c \in 0..(n - 1) : c # b => u[c] = t[c]
    BY <1>1, <1>2
  <2>2. QED
    BY <1>3, <2>1, CountChanges
<1>12. PICK c \in Nat, d \in Nat : c = Len(Objects(t, n)) /\ d = Len(Objects(u, n))
  BY <1>3, CountIs
<1>13. d - c = (l - 1) - l
  BY <1>2, <1>4, <1>11, <1>12 DEF SameRise
<1>14. c = d + 1
  BY <1>13
<1>15. OneMore(Len(Objects(t, n)), Len(Objects(u, n)))
  BY <1>12, <1>14 DEF OneMore
<1>16. QED
  BY <1>3, <1>10, <1>15

(* The Min of the model is the least.                                      *)
LEMMA MinIs ==
  ASSUME NEW T, T \subseteq Nat, T # {}
  PROVE  Min(T) \in T /\ \A x \in T : Min(T) <= x
BY Least DEF Min

\* What put needs to find room: a chain always grows, a probe needs a slot.
Roomy(t, n) == ~Chain => Len(Objects(t, n)) <= n - 2

(* With that, the probe of every key meets an empty slot.                  *)
LEMMA RoomIs ==
  ASSUME TableAssumption, ~Chain, NEW t, NEW n, GoodSize(n), Placed(t, n), Roomy(t, n), NEW k \in Keys
  PROVE  \E i \in 1 .. (n - 1) : t[Probe(k, n)[i]] = <<>>
<1>1. PICK f : RowsTo(f, t, n) /\ Objects(t, n) = f[n]
  BY RowsAre DEF Placed
<1>2. /\ n \in Nat /\ DOMAIN t = 0..(n - 1) /\ \A b \in 0..(n - 1) : t[b] \in Seq(Obj) /\ Len(t[b]) \in Nat
  BY TableIs DEF Placed
<1>3. SUFFICES ASSUME \A i \in 1 .. (n - 1) : t[Probe(k, n)[i]] # <<>>
               PROVE  FALSE
  OBVIOUS
<1>4. PICK z \in 0..(n - 1) : \A b \in 0..(n - 1) : b # z => \E i \in 1 .. (n - 1) : Probe(k, n)[i] = b
  BY ProbeIs
<1>5. \A b \in 0..(n - 1) : b # z => Len(t[b]) >= 1
  <2>1. \A s \in Seq(Obj) : s # <<>> => Len(s) >= 1
    OBVIOUS
  <2>2. QED
    BY <1>2, <1>3, <1>4, <2>1
<1>6. PICK lf \in [0..n -> Nat] : \A m \in 0..n : lf[m] = Len(f[m])
  <2>1. \A m \in 0..n : f[m] \in Seq(Obj)
    BY <1>1 DEF RowsTo
  <2>2. [m \in 0..n |-> Len(f[m])] \in [0..n -> Nat]
    BY <2>1
  <2>3. QED
    BY <2>2
<1>7. ASSUME NEW m \in 0..(n - 1) PROVE lf[m + 1] >= lf[m] /\ (m # z => lf[m + 1] >= lf[m] + 1)
  <2>1. m \in 0..n /\ m + 1 \in 0..n
    BY <1>2
  <2>2. f[m + 1] = f[m] \o t[m] /\ f[m] \in Seq(Obj) /\ t[m] \in Seq(Obj)
    BY <1>1, <1>2, <2>1 DEF RowsTo
  <2>3. PICK i \in Nat : i = Len(t[m])
    BY <1>2
  <2>4. Len(f[m + 1]) = Len(f[m]) + Len(t[m])
    BY <2>2, ConcatIs
  <2>5. lf[m + 1] = lf[m] + i
    BY <1>6, <2>1, <2>3, <2>4
  <2>6. m # z => i >= 1
    BY <1>5, <2>3
  <2>7. lf[m] \in Nat
    BY <1>6, <2>1
  <2>8. QED
    BY <2>5, <2>6, <2>7
<1> DEFINE T == {m \in 0..n : lf[m] >= IF m > z THEN m - 1 ELSE m}
<1>8. 0 \in T
  BY <1>2, <1>6
<1>9. ASSUME NEW m \in 0..n, m \in T, m < n PROVE m + 1 \in T
  <2>1. m \in 0..(n - 1) /\ m + 1 \in 0..n /\ lf[m] \in Nat /\ lf[m + 1] \in Nat
    BY <1>2, <1>6, <1>9
  <2>2. lf[m] >= IF m > z THEN m - 1 ELSE m
    BY <1>9
  <2>3. lf[m + 1] >= lf[m] /\ (m # z => lf[m + 1] >= lf[m] + 1)
    BY <1>7, <2>1
  <2>4. lf[m + 1] >= IF m + 1 > z THEN (m + 1) - 1 ELSE m + 1
    BY <2>1, <2>2, <2>3
  <2>5. QED
    BY <2>1, <2>4
<1>10. n \in T
  <2> HIDE DEF T
  <2>1. \A m \in 0..n : m \in T
    BY <1>2, <1>8, <1>9, Climb
  <2>2. QED
    BY <1>2, <2>1
<1>11. n \in 0..n /\ lf[n] >= n - 1 /\ lf[n] \in Nat
  BY <1>2, <1>6, <1>10
<1>12. lf[n] <= n - 2
  <2>1. Len(f[n]) <= n - 2
    BY <1>1 DEF Roomy
  <2>2. QED
    BY <1>6, <1>11, <2>1
<1>13. QED
  BY <1>2, <1>11, <1>12

(* A new key in a chain.                                                   *)
LEMMA ChainGrows ==
  ASSUME TableAssumption, Chain, NEW t, NEW n, GoodSize(n), Placed(t, n), NEW o \in Obj, At(t, o.key) = {}
  PROVE  \E b \in 0..(n - 1), s \in Seq(Obj) :
           /\ Gains(s, t[b], o) /\ InsertNew(t, n, o) = [t EXCEPT ![b] = s]
           /\ Placed([t EXCEPT ![b] = s], n)
<1>1. PICK b : b = Hash(o.key, n)
  OBVIOUS
<1>2. o.key \in Keys /\ o.key \in Nat
  BY ObjIs
<1>3. /\ n \in Nat /\ DOMAIN t = 0..(n - 1) /\ b \in 0..(n - 1) /\ b \in DOMAIN t
      /\ \A c \in DOMAIN t : t[c] \in Seq(Obj) /\ Len(t[c]) \in Nat
      /\ \A c \in DOMAIN t : \A i \in 1 .. Len(t[c]) : t[c][i] \in Obj /\ t[c][i].key \in Nat
  BY <1>1, <1>2, TableIs DEF Placed, GoodSize
<1>4. PICK l \in Nat : l = Len(t[b])
  BY <1>3
<1> DEFINE after == {i \in 1 .. Len(t[b]) : t[b][i].key > o.key}
           top == after \cup {Len(t[b]) + 1}
<1>5. top \subseteq Nat /\ top # {} /\ top \subseteq 1 .. (l + 1)
  BY <1>4
<1>6. PICK i : i = Min(top)
  OBVIOUS
<1>7. i \in top /\ \A x \in top : i <= x
  BY <1>5, <1>6, MinIs
<1>8. i \in 1 .. (l + 1)
  BY <1>5, <1>7
<1>9. PICK s : s = InsertAt(t[b], i, o)
  OBVIOUS
<1>10. s \in Seq(Obj) /\ Inserted(s, t[b], i, o)
  BY <1>3, <1>4, <1>8, <1>9, InsertAtIs
<1>11. InsertNew(t, n, o) = [t EXCEPT ![b] = s]
  BY <1>1, <1>6, <1>9 DEF InsertNew
<1>12. Chained(t, n)
  BY DEF Placed
<1>13. /\ Len(s) = l + 1
       /\ \A j \in 1 .. (l + 1) : s[j] = IF j < i THEN t[b][j] ELSE IF j = i THEN o ELSE t[b][j - 1]
  BY <1>4, <1>10 DEF Inserted
<1>14. \A j \in 1 .. l : t[b][j].key # o.key
  <2>1. ASSUME NEW j \in 1 .. l, t[b][j].key = o.key PROVE FALSE
    <3>1. j \in 1 .. Len(t[b]) /\ j \in Nat
      BY <1>4
    <3>2. <<b, j>> \in At(t, o.key)
      BY <1>3, <2>1, <3>1, AtIs
    <3>3. QED
      BY <3>2
  <2>2. QED
    BY <2>1
<1>15. \A j \in 1 .. l : j < i => t[b][j].key < o.key
  <2> TAKE j \in 1 .. l
  <2> HAVE j < i
  <2>1. j \notin top
    BY <1>5, <1>7, <1>8
  <2>2. ~(t[b][j].key > o.key)
    BY <1>4, <2>1
  <2>3. t[b][j].key \in Nat
    BY <1>3, <1>4
  <2>4. QED
    BY <1>2, <1>14, <2>2, <2>3
<1>16. \A j \in 1 .. l : i <= j => t[b][j].key > o.key
  <2> TAKE j \in 1 .. l
  <2> HAVE i <= j
  <2>1. i \in 1 .. l /\ i # l + 1
    BY <1>8
  <2>2. i \in after
    BY <1>4, <1>7, <2>1
  <2>3. t[b][i].key > o.key /\ t[b][i].key \in Nat /\ t[b][j].key \in Nat
    BY <1>3, <1>4, <2>1, <2>2
  <2>4. i < j => t[b][i].key < t[b][j].key
    BY <1>3, <1>4, <1>12, <2>1 DEF Chained
  <2>5. CASE i = j
    BY <2>3, <2>5
  <2>6. CASE i < j
    <3>1. PICK x \in Nat, y \in Nat : x = t[b][i].key /\ y = t[b][j].key
      BY <2>3
    <3>2. x > o.key /\ x < y
      BY <2>3, <2>4, <2>6, <3>1
    <3>3. QED
      BY <1>2, <3>1, <3>2
  <2>7. QED
    BY <1>8, <2>5, <2>6
<1>17. ASSUME NEW x \in 1 .. (l + 1), NEW y \in 1 .. (l + 1), x < y PROVE s[x].key < s[y].key
  <2>1. CASE y < i
    BY <1>3, <1>4, <1>8, <1>12, <1>13, <1>17, <2>1, SMTT(30) DEF Chained
  <2>2. CASE y = i
    <3>1. x \in 1 .. l /\ x < i /\ s[x] = t[b][x] /\ s[y] = o
      BY <1>8, <1>13, <1>17, <2>2
    <3>2. QED
      BY <1>15, <3>1
  <2>3. CASE y > i
    <3>1. y - 1 \in 1 .. l /\ s[y] = t[b][y - 1]
      BY <1>8, <1>13, <1>17, <2>3
    <3>2. CASE x < i
      <4>1. x \in 1 .. l /\ s[x] = t[b][x] /\ x < y - 1
        BY <1>8, <1>13, <2>3, <3>2
      <4>2. QED
        BY <1>3, <1>4, <1>12, <3>1, <4>1 DEF Chained
    <3>3. CASE x = i
      <4>1. s[x] = o /\ i <= y - 1
        BY <1>8, <1>13, <2>3, <3>3
      <4>2. t[b][y - 1].key > o.key /\ t[b][y - 1].key \in Nat
        BY <1>3, <1>4, <1>16, <3>1, <4>1
      <4>3. QED
        BY <1>2, <3>1, <4>1, <4>2
    <3>4. CASE x > i
      <4>1. x - 1 \in 1 .. l /\ s[x] = t[b][x - 1] /\ x - 1 < y - 1
        BY <1>8, <1>13, <1>17, <3>4
      <4>2. QED
        BY <1>3, <1>4, <1>12, <3>1, <4>1 DEF Chained
    <3>5. QED
      BY <1>8, <3>2, <3>3, <3>4
  <2>4. QED
    BY <1>8, <2>1, <2>2, <2>3
<1>18. ASSUME NEW x \in 1 .. (l + 1) PROVE Hash(s[x].key, n) = b
  <2>1. s[x] = o \/ \E j \in 1 .. l : s[x] = t[b][j]
    <3>1. CASE x < i
      BY <1>8, <1>13, <3>1
    <3>2. CASE x = i
      BY <1>13, <3>2
    <3>3. CASE x > i
      <4>1. x - 1 \in 1 .. l
        BY <1>8, <3>3
      <4>2. QED
        BY <1>8, <1>13, <3>3, <4>1
    <3>4. QED
      BY <1>8, <3>1, <3>2, <3>3
  <2>2. QED
    BY <1>1, <1>3, <1>4, <1>12, <2>1 DEF Chained
<1>19. PICK u : u = [t EXCEPT ![b] = s]
  OBVIOUS
<1>20. DOMAIN u = DOMAIN t /\ u[b] = s /\ \A c \in DOMAIN t : c # b => u[c] = t[c]
  BY <1>3, <1>19
<1>21. Chained(u, n)
  <2>1. ASSUME NEW c \in DOMAIN u
        PROVE  /\ \A x \in 1 .. Len(u[c]) : Hash(u[c][x].key, n) = c
               /\ \A x, y \in 1 .. Len(u[c]) : x < y => u[c][x].key < u[c][y].key
    <3>1. CASE c = b
      BY <1>13, <1>17, <1>18, <1>20, <3>1
    <3>2. CASE c # b
      BY <1>12, <1>20, <3>2 DEF Chained
    <3>3. QED
      BY <3>1, <3>2
  <2>2. QED
    BY <2>1 DEF Chained
<1>22. IsTable(u, n)
  BY <1>3, <1>10, <1>20, <1>19 DEF IsTable
<1>23. Placed(u, n)
  BY <1>21, <1>22 DEF Placed
<1>24. QED
  BY <1>3, <1>4, <1>8, <1>10, <1>11, <1>19, <1>23 DEF Gains

(* A new key in the first empty slot of its probe.                         *)
LEMMA SlotFills ==
  ASSUME TableAssumption, ~Chain, NEW t, NEW n, GoodSize(n), Placed(t, n), Roomy(t, n),
         NEW o \in Obj, At(t, o.key) = {}
  PROVE  \E b \in 0..(n - 1), s \in Seq(Obj) :
           /\ Gains(s, t[b], o) /\ InsertNew(t, n, o) = [t EXCEPT ![b] = s]
           /\ Placed([t EXCEPT ![b] = s], n)
<1>1. PICK k \in Keys : k = o.key
  BY ObjIs
<1>2. PICK p : p = Probe(k, n)
  OBVIOUS
<1>3. /\ n \in Nat /\ DOMAIN t = 0..(n - 1) /\ DOMAIN p = 1 .. (n - 1)
      /\ \A c \in DOMAIN t : t[c] \in Seq(Obj) /\ Len(t[c]) \in Nat
      /\ \A i \in 1 .. (n - 1) : p[i] \in DOMAIN t
  BY <1>2, ProbeIs, TableIs DEF Placed
<1> DEFINE empty == {i \in DOMAIN p : t[p[i]] = <<>>}
<1>4. empty # {} /\ empty \subseteq Nat
  <2>1. \E i \in 1 .. (n - 1) : t[p[i]] = <<>>
    BY <1>2, RoomIs
  <2>2. empty \subseteq 1 .. (n - 1)
    BY <1>3
  <2>3. \A i \in 1 .. (n - 1) : i \in Nat
    BY <1>3
  <2>4. empty # {}
    BY <1>3, <2>1
  <2>5. QED
    BY <2>2, <2>3, <2>4
<1>5. PICK m : m = Min(empty)
  OBVIOUS
<1>6. m \in empty /\ \A x \in empty : m <= x
  BY <1>4, <1>5, MinIs
<1>7. PICK b : b = p[m]
  OBVIOUS
<1>8. PICK s : s = <<o>>
  OBVIOUS
<1>9. b \in 0..(n - 1) /\ t[b] = <<>> /\ m \in 1 .. (n - 1)
  BY <1>3, <1>6, <1>7
<1>10. s \in Seq(Obj) /\ Len(s) = 1 /\ s[1] = o /\ s # <<>>
  BY <1>8
<1>11. InsertNew(t, n, o) = [t EXCEPT ![b] = s]
  BY <1>1, <1>2, <1>4, <1>5, <1>7, <1>8 DEF InsertNew
<1>12. 1 \in 1 .. (Len(t[b]) + 1) /\ Inserted(s, t[b], 1, o)
  <2>1. Len(t[b]) = 0
    BY <1>9
  <2>2. QED
    BY <1>10, <2>1 DEF Inserted
<1>13. Probed(t, n)
  BY DEF Placed
<1>14. PICK u : u = [t EXCEPT ![b] = s]
  OBVIOUS
<1>15. DOMAIN u = DOMAIN t /\ u[b] = s /\ \A c \in DOMAIN t : c # b => u[c] = t[c]
  BY <1>3, <1>9, <1>14
<1>16. \A c \in DOMAIN t : t[c] # <<>> => u[c] = t[c]
  BY <1>9, <1>15
<1>17. Reached(u, n, k, b)
  <2>1. ASSUME NEW j \in 1 .. (m - 1) PROVE u[p[j]] # <<>> /\ u[p[j]][1].key # k
    <3>1. j \in 1 .. (n - 1) /\ ~(m <= j)
      BY <1>3, <1>9
    <3>2. t[p[j]] # <<>> /\ p[j] \in DOMAIN t
      BY <1>3, <1>6, <3>1
    <3>3. 1 \in 1 .. Len(t[p[j]])
      BY <1>3, <3>2
    <3>4. t[p[j]][1].key # k
      <4>1. SUFFICES ASSUME t[p[j]][1].key = k PROVE FALSE
        OBVIOUS
      <4>2. <<p[j], 1>> \in At(t, k)
        BY <3>2, <3>3, <4>1, AtIs
      <4>3. QED
        BY <1>1, <4>2
    <3>5. QED
      BY <1>16, <3>2, <3>4
  <2>2. QED
    BY <1>2, <1>7, <1>9, <2>1 DEF Reached
<1>18. ASSUME NEW c \in DOMAIN t, NEW q, Reached(t, n, q, c), q \in Keys PROVE Reached(u, n, q, c)
  <2>1. PICK i \in 1 .. (n - 1) :
          /\ Probe(q, n)[i] = c
          /\ \A j \in 1 .. (i - 1) : t[Probe(q, n)[j]] # <<>> /\ t[Probe(q, n)[j]][1].key # q
    BY <1>18 DEF Reached
  <2>2. \A j \in 1 .. (i - 1) : j \in 1 .. (n - 1)
    BY <1>3
  <2>3. \A j \in 1 .. (i - 1) : Probe(q, n)[j] \in DOMAIN t
    BY <1>3, <1>18, <2>2, ProbeIs
  <2>4. QED
    BY <1>16, <2>1, <2>3 DEF Reached
<1>19. Probed(u, n)
  <2>1. ASSUME NEW c \in DOMAIN u
        PROVE  Len(u[c]) <= 1 /\ \A i \in 1 .. Len(u[c]) : Reached(u, n, u[c][i].key, c)
    <3>1. CASE c = b
      <4>1. Len(u[c]) = 1 /\ u[c][1] = o /\ \A i \in 1 .. 1 : i = 1
        BY <1>10, <1>15, <3>1
      <4>2. QED
        BY <1>1, <1>17, <3>1, <4>1
    <3>2. CASE c # b
      <4>1. u[c] = t[c] /\ c \in DOMAIN t
        BY <1>15, <3>2
      <4>2. \A i \in 1 .. Len(t[c]) : t[c][i].key \in Keys
        BY <4>1, TableIs DEF Placed
      <4>3. QED
        BY <1>13, <1>18, <4>1, <4>2 DEF Probed
    <3>3. QED
      BY <3>1, <3>2
  <2>2. QED
    BY <2>1 DEF Probed
<1>20. IsTable(u, n)
  BY <1>3, <1>10, <1>14, <1>15 DEF IsTable
<1>21. Placed(u, n)
  BY <1>19, <1>20 DEF Placed
<1>22. QED
  BY <1>9, <1>10, <1>11, <1>12, <1>14, <1>21 DEF Gains

(* A key that is not in the table yet is put into its place.               *)
LEMMA InsertIs ==
  ASSUME TableAssumption, NEW t, NEW n, GoodSize(n), Placed(t, n), Roomy(t, n),
         NEW o \in Obj, At(t, o.key) = {}
  PROVE  /\ Placed(InsertNew(t, n, o), n) /\ Stored(InsertNew(t, n, o)) = Stored(t) \cup {o}
         /\ OneMore(Len(Objects(InsertNew(t, n, o), n)), Len(Objects(t, n)))
<1>1. PICK b \in 0..(n - 1), s \in Seq(Obj) :
           /\ Gains(s, t[b], o) /\ InsertNew(t, n, o) = [t EXCEPT ![b] = s]
           /\ Placed([t EXCEPT ![b] = s], n)
  BY ChainGrows, SlotFills
<1>2. IsTable(t, n)
  BY DEF Placed
<1>3. PICK u : u = [t EXCEPT ![b] = s]
  OBVIOUS
<1>4. IsTable(u, n) /\ Stored(u) = Stored(t) \cup {o} /\ OneMore(Len(Objects(u, n)), Len(Objects(t, n)))
  <2>1. Changed(u, t, b, s) /\ Gains(s, t[b], o)
    BY <1>1, <1>3 DEF Changed
  <2>2. QED
    BY <1>2, <2>1, RowGains
<1>5. InsertNew(t, n, o) = u /\ Placed(u, n)
  BY <1>1, <1>3
<1>6. QED
  BY <1>4, <1>5

(* A chain stays in order when an element is taken out of it.              *)
LEMMA RemoveIs ==
  ASSUME TableAssumption, Chain, NEW t, NEW n, GoodSize(n), Placed(t, n), NEW b \in DOMAIN t,
         NEW i \in 1 .. Len(t[b]), NEW u, Changed(u, t, b, RemoveAt(t[b], i))
  PROVE  /\ Placed(u, n) /\ Stored(u) = Stored(t) \ {t[b][i]}
         /\ OneMore(Len(Objects(t, n)), Len(Objects(u, n)))
<1>1. /\ n \in Nat /\ DOMAIN t = 0..(n - 1) /\ t[b] \in Seq(Obj) /\ IsTable(t, n) /\ Chained(t, n)
      /\ Len(t[b]) \in Nat /\ \A j \in 1 .. Len(t[b]) : t[b][j].key \in Nat
  BY TableIs DEF Placed
<1>2. PICK s : s = RemoveAt(t[b], i)
  OBVIOUS
<1>3. s \in Seq(Obj) /\ Removed(s, t[b], i)
  BY <1>1, <1>2, RemoveAtIs
<1>4. Changed(u, t, b, s)
  BY <1>2
<1>5. PICK o : o = t[b][i]
  OBVIOUS
<1>6. IsTable(u, n) /\ Stored(u) = Stored(t) \ {o} /\ OneMore(Len(Objects(t, n)), Len(Objects(u, n)))
  <2>1. KeyOnce(t) /\ b \in 0..(n - 1) /\ Loses(s, t[b], o)
    BY <1>1, <1>3, <1>5, PlacedOnce DEF Loses
  <2>2. QED
    BY <1>1, <1>3, <1>4, <2>1, RowLoses
<1>7. PICK l \in Nat : l = Len(t[b]) /\ Len(s) = l - 1
  BY <1>1, <1>3 DEF Removed
<1>8. /\ i \in 1 .. l
      /\ \A j \in 1 .. (l - 1) : s[j] = IF j < i THEN t[b][j] ELSE t[b][j + 1]
  BY <1>3, <1>7 DEF Removed
<1>9. ASSUME NEW x \in 1 .. (l - 1)
      PROVE  \E y \in 1 .. l : s[x] = t[b][y] /\ y = IF x < i THEN x ELSE x + 1
  <2>1. CASE x < i
    BY <1>8, <2>1
  <2>2. CASE ~(x < i)
    <3>1. x + 1 \in 1 .. l
      BY <1>8
    <3>2. QED
      BY <1>8, <2>2, <3>1
  <2>3. QED
    BY <2>1, <2>2
<1>10. ASSUME NEW x \in 1 .. (l - 1), NEW y \in 1 .. (l - 1), x < y PROVE s[x].key < s[y].key
  <2>1. PICK v \in 1 .. l : s[x] = t[b][v] /\ v = IF x < i THEN x ELSE x + 1
    BY <1>9
  <2>2. PICK w \in 1 .. l : s[y] = t[b][w] /\ w = IF y < i THEN y ELSE y + 1
    BY <1>9
  <2>3. v < w
    BY <1>8, <1>10, <2>1, <2>2
  <2>4. QED
    BY <1>1, <1>7, <2>1, <2>2, <2>3 DEF Chained
<1>11. DOMAIN u = DOMAIN t /\ u[b] = s /\ \A c \in DOMAIN t : c # b => u[c] = t[c]
  BY <1>1, <1>4 DEF Changed
<1>12. Chained(u, n)
  <2>1. ASSUME NEW c \in DOMAIN u
        PROVE  /\ \A x \in 1 .. Len(u[c]) : Hash(u[c][x].key, n) = c
               /\ \A x, y \in 1 .. Len(u[c]) : x < y => u[c][x].key < u[c][y].key
    <3>1. CASE c = b
      <4>1. \A x \in 1 .. (l - 1) : Hash(s[x].key, n) = b
        BY <1>1, <1>7, <1>9 DEF Chained
      <4>2. QED
        BY <1>7, <1>10, <1>11, <3>1, <4>1
    <3>2. CASE c # b
      BY <1>1, <1>11, <3>2 DEF Chained
    <3>3. QED
      BY <3>1, <3>2
  <2>2. QED
    BY <2>1 DEF Chained
<1>13. QED
  BY <1>5, <1>6, <1>12 DEF Placed

(* An element is replaced by another with its key.                         *)
Replaced(u, t, b, x, o) ==
  \E i \in 1 .. Len(t[b]) : t[b][i] = x /\ o.key = x.key /\ u = [t EXCEPT ![b][i] = o]

(* What is stored when an element is overwritten.                          *)
LEMMA ReplaceIs ==
  ASSUME TableAssumption, NEW t, NEW n, GoodSize(n), Placed(t, n), NEW b \in DOMAIN t,
         NEW o \in Obj, NEW gone, NEW u, Replaced(u, t, b, gone, o)
  PROVE  /\ Placed(u, n) /\ Stored(u) = (Stored(t) \ {gone}) \cup {o}
         /\ Len(Objects(u, n)) = Len(Objects(t, n))
<1>1. PICK i \in 1 .. Len(t[b]) : t[b][i] = gone /\ o.key = gone.key /\ u = [t EXCEPT ![b][i] = o]
  BY DEF Replaced
<1>2. /\ n \in Nat /\ DOMAIN t = 0..(n - 1) /\ IsTable(t, n)
      /\ \A c \in DOMAIN t : t[c] \in Seq(Obj) /\ DOMAIN t[c] = 1 .. Len(t[c]) /\ Len(t[c]) \in Nat
      /\ \A c \in DOMAIN t : \A j \in 1 .. Len(t[c]) : t[c][j] \in Obj
  BY TableIs DEF Placed
<1>3. PICK s : s = [t[b] EXCEPT ![i] = o]
  OBVIOUS
<1>4. u = [t EXCEPT ![b] = s]
  BY <1>3, <1>1
<1>5. s \in Seq(Obj) /\ Len(s) = Len(t[b])
  <2>1. t[b] \in Seq(Obj) /\ i \in 1 .. Len(t[b])
    BY <1>2
  <2>2. QED
    BY <1>3, <2>1
<1>6. \A j \in 1 .. Len(t[b]) : s[j] = IF j = i THEN o ELSE t[b][j]
  BY <1>2, <1>3
<1>7. /\ DOMAIN u = DOMAIN t /\ u[b] = s /\ \A c \in DOMAIN t : c # b => u[c] = t[c]
  BY <1>2, <1>4
<1>8. IsTable(u, n)
  BY <1>2, <1>4, <1>5 DEF IsTable
<1>9. \A c \in DOMAIN t : /\ u[c] \in Seq(Obj) /\ Len(u[c]) = Len(t[c])
                          /\ \A j \in 1 .. Len(t[c]) : u[c][j].key = t[c][j].key
  <2>1. \A j \in 1 .. Len(t[b]) : s[j].key = t[b][j].key
    BY <1>6, <1>1
  <2>2. QED
    BY <1>2, <1>5, <1>7, <2>1
<1>10. \A c \in DOMAIN t : \A j \in 1 .. Len(t[c]) :
        /\ (c = b /\ j = i) => u[c][j] = o
        /\ ~(c = b /\ j = i) => u[c][j] = t[c][j]
  BY <1>6, <1>7
<1>11. \A c \in DOMAIN t : \A j \in 1 .. Len(t[c]) : t[c][j] = t[b][i] => c = b /\ j = i
  BY PlacedOnce DEF KeyOnce
<1>12. ASSUME NEW x \in Obj PROVE x \in Stored(u) <=> x = o \/ (x \in Stored(t) /\ x # gone)
  <2>1. x \in Stored(u) <=> \E c \in DOMAIN t : \E j \in 1 .. Len(t[c]) : u[c][j] = x
    BY <1>7, <1>9 DEF Stored
  <2>2. x \in Stored(t) <=> \E c \in DOMAIN t : \E j \in 1 .. Len(t[c]) : t[c][j] = x
    BY DEF Stored
  <2>3. QED
    BY <1>10, <1>11, <1>1, <2>1, <2>2
<1>13. Stored(u) = (Stored(t) \ {gone}) \cup {o}
  BY <1>12 DEF Stored
<1>14. Len(Objects(u, n)) = Len(Objects(t, n))
  <2>1. b \in 0..(n - 1) /\ \A c \in 0..(n - 1) : c # b => u[c] = t[c]
    BY <1>2, <1>7
  <2>2. SameRise(Len(Objects(u, n)), Len(Objects(t, n)), Len(u[b]), Len(t[b]))
    BY <1>2, <1>8, <2>1, CountChanges
  <2>3. PICK x \in Nat, y \in Nat, z \in Nat :
          x = Len(Objects(u, n)) /\ y = Len(Objects(t, n)) /\ z = Len(u[b]) /\ z = Len(t[b])
    BY <1>2, <1>8, <1>9, CountIs
  <2>4. x - y = z - z
    BY <2>2, <2>3 DEF SameRise
  <2>5. x = y
    BY <2>4
  <2>6. QED
    BY <2>3, <2>5
<1>15. CASE Chain
  <2>1. Chained(t, n)
    BY <1>15 DEF Placed
  <2>2. Chained(u, n)
    BY <1>7, <1>9, <2>1 DEF Chained
  <2>3. QED
    BY <1>8, <1>13, <1>14, <1>15, <2>2 DEF Placed
<1>16. CASE ~Chain
  <2>1. Probed(t, n)
    BY <1>16 DEF Placed
  <2>2. \A c \in DOMAIN t : t[c] # <<>> => u[c] # <<>> /\ u[c][1].key = t[c][1].key
    <3>1. ASSUME NEW c \in DOMAIN t, t[c] # <<>> PROVE u[c] # <<>> /\ u[c][1].key = t[c][1].key
      <4>1. Len(t[c]) # 0 /\ 1 \in 1 .. Len(t[c])
        BY <1>2, <3>1
      <4>2. QED
        BY <1>9, <4>1
    <3>2. QED
      BY <3>1
  <2>3. ASSUME NEW c \in DOMAIN t, NEW q \in Keys, Reached(t, n, q, c) PROVE Reached(u, n, q, c)
    <3>1. PICK m \in 1 .. (n - 1) :
            /\ Probe(q, n)[m] = c
            /\ \A j \in 1 .. (m - 1) : t[Probe(q, n)[j]] # <<>> /\ t[Probe(q, n)[j]][1].key # q
      BY <2>3 DEF Reached
    <3>2. \A j \in 1 .. (m - 1) : j \in 1 .. (n - 1)
      BY <1>2
    <3>3. \A j \in 1 .. (m - 1) : Probe(q, n)[j] \in DOMAIN t
      BY <1>2, <3>2, ProbeIs
    <3>4. QED
      BY <2>2, <3>1, <3>3 DEF Reached
  <2>4. Probed(u, n)
    <3>1. ASSUME NEW c \in DOMAIN u
          PROVE  Len(u[c]) <= 1 /\ \A j \in 1 .. Len(u[c]) : Reached(u, n, u[c][j].key, c)
      <4>1. c \in DOMAIN t /\ Len(u[c]) = Len(t[c])
        BY <1>7, <1>9
      <4>2. \A j \in 1 .. Len(t[c]) : u[c][j].key = t[c][j].key /\ t[c][j].key \in Keys
        BY <1>2, <1>9, <4>1, ObjIs
      <4>3. QED
        BY <2>1, <2>3, <4>1, <4>2 DEF Probed
    <3>2. QED
      BY <3>1 DEF Probed
  <2>5. QED
    BY <1>8, <1>13, <1>14, <1>16, <2>4 DEF Placed
<1>17. QED
  BY <1>15, <1>16

\* What the steps of a copy make: the first m of objs, in a table of n lists.
HoldsFirst(t, n, objs, m) ==
  Placed(t, n) /\ Stored(t) = {objs[j] : j \in 1 .. m} /\ Len(Objects(t, n)) = m

(* A copy holds what was copied, and as much of it.                        *)
LEMMA CopyIs ==
  ASSUME TableAssumption, NEW n, GoodSize(n), IsTable(hmap, size), KeyOnce(hmap),
         ~Chain => Len(Objects(hmap, size)) < n - 1
  PROVE  /\ Placed(TableCopy(n), n) /\ Stored(TableCopy(n)) = Stored(hmap)
         /\ Len(Objects(TableCopy(n), n)) = Len(Objects(hmap, size))
<1>1. PICK objs : objs = Objects(hmap, size)
  OBVIOUS
<1>2. objs \in Seq(Obj) /\ Spells(objs, hmap, size)
  BY <1>1, CountIs, ObjectsAre
<1>3. PICK l \in Nat : l = Len(objs)
  BY <1>2
<1>4. n \in Nat
  BY DEF GoodSize
<1> DEFINE Up(f, m) == f = [i \in 0..m |-> IF i = 0 THEN EmptyTable(n) ELSE InsertNew(f[i - 1], n, objs[i])]
           T == {m \in 0..l : \E f : Up(f, m)}
<1>5. 0 \in T
  <2>1. Up([i \in 0..0 |-> EmptyTable(n)], 0)
    OBVIOUS
  <2>2. \E f : Up(f, 0)
    BY <2>1
  <2>3. QED
    BY <1>3, <2>2
<1>6. ASSUME NEW m \in 0..l, m \in T, m < l PROVE m + 1 \in T
  <2>1. PICK f : Up(f, m)
    BY <1>6
  <2>2. PICK g : g = [i \in 0..(m + 1) |-> IF i = m + 1 THEN InsertNew(f[m], n, objs[m + 1]) ELSE f[i]]
    OBVIOUS
  <2>3. m \in Nat
    OBVIOUS
  <2>4. \A i \in 0..m : g[i] = f[i]
    BY <2>2, <2>3
  <2>5. g[m + 1] = InsertNew(f[m], n, objs[m + 1]) /\ m \in 0..m
    BY <2>2, <2>3
  <2>6. ASSUME NEW i \in 0..(m + 1)
        PROVE  g[i] = IF i = 0 THEN EmptyTable(n) ELSE InsertNew(g[i - 1], n, objs[i])
    <3>1. CASE i = m + 1
      <4>1. i # 0 /\ i - 1 = m
        BY <2>3, <3>1
      <4>2. QED
        BY <2>4, <2>5, <3>1, <4>1
    <3>2. CASE i # m + 1
      <4>1. i \in 0..m /\ (i # 0 => i - 1 \in 0..m)
        BY <2>3, <3>2
      <4>2. f[i] = IF i = 0 THEN EmptyTable(n) ELSE InsertNew(f[i - 1], n, objs[i])
        BY <2>1, <4>1
      <4>3. QED
        BY <2>4, <4>1, <4>2
    <3>3. QED
      BY <3>1, <3>2
  <2>7. Up(g, m + 1)
    BY <2>2, <2>6
  <2>8. m + 1 \in 0..l
    BY <1>3, <1>6
  <2>9. QED
    BY <2>7, <2>8
<1>7. \E f : IsCopied(f, n, objs)
  <2>1. l \in T
    <3> HIDE DEF T
    <3>1. \A m \in 0..l : m \in T
      BY <1>3, <1>5, <1>6, Climb
    <3>2. QED
      BY <1>3, <3>1
  <2>2. QED
    BY <1>3, <2>1 DEF IsCopied
<1>8. PICK f : IsCopied(f, n, objs) /\ TableCopy(n) = f[l]
  BY <1>1, <1>3, <1>7, CopyChosen
<1> DEFINE S == {m \in 0..l : HoldsFirst(f[m], n, objs, m)}
<1>9. 0 \in S
  <2>1. f[0] = EmptyTable(n) /\ 0 \in 0..l
    BY <1>3, <1>8 DEF IsCopied
  <2>2. Placed(EmptyTable(n), n)
    <3>1. DOMAIN EmptyTable(n) = 0..(n - 1) /\ \A b \in 0..(n - 1) : Len(EmptyTable(n)[b]) = 0
      BY <1>4, EmptyIs DEF EmptyTable
    <3>2. QED
      BY <1>4, <3>1, EmptyIs DEF Placed, Chained, Probed
  <2>3. HoldsFirst(EmptyTable(n), n, objs, 0)
    BY <1>4, <2>2, EmptyIs DEF HoldsFirst
  <2>4. QED
    BY <2>1, <2>3
<1>10. ASSUME NEW m \in 0..l, m \in S, m < l PROVE m + 1 \in S
  <2>1. m + 1 \in 1 .. l /\ m + 1 \in 0..l /\ m + 1 # 0 /\ (m + 1) - 1 = m /\ m \in Nat
    BY <1>3, <1>10
  <2>2. PICK t : t = f[m]
    OBVIOUS
  <2>3. PICK o \in Obj : o = objs[m + 1]
    BY <1>2, <1>3, <2>1
  <2>4. f[m + 1] = InsertNew(t, n, o)
    BY <1>3, <1>8, <2>1, <2>2, <2>3 DEF IsCopied
  <2>5. Placed(t, n) /\ Stored(t) = {objs[j] : j \in 1 .. m} /\ Len(Objects(t, n)) = m
    BY <1>10, <2>2 DEF HoldsFirst
  <2>6. Roomy(t, n)
    <3>1. ~Chain => l < n - 1
      BY <1>1, <1>3
    <3>2. ~Chain => m <= n - 2
      BY <1>3, <1>4, <1>10, <2>1, <3>1
    <3>3. QED
      BY <2>5, <3>2 DEF Roomy
  <2>7. At(t, o.key) = {}
    <3>1. SUFFICES ASSUME NEW g \in At(t, o.key) PROVE FALSE
      OBVIOUS
    <3>2. g[1] \in DOMAIN t /\ g[2] \in 1 .. Len(t[g[1]]) /\ t[g[1]][g[2]].key = o.key
      BY AtIs
    <3>3. t[g[1]][g[2]] \in Stored(t)
      BY <2>5, <3>2, TableIs DEF Stored, Placed
    <3>4. PICK j \in 1 .. m : objs[j].key = objs[m + 1].key
      BY <2>3, <2>5, <3>2, <3>3
    <3>5. j \in 1 .. l /\ j # m + 1
      BY <1>3, <2>1
    <3>6. QED
      BY <1>2, <1>3, <2>1, <3>4, <3>5 DEF Spells
  <2>8. /\ Placed(f[m + 1], n) /\ Stored(f[m + 1]) = Stored(t) \cup {o}
        /\ OneMore(Len(Objects(f[m + 1], n)), Len(Objects(t, n)))
    BY <2>4, <2>5, <2>6, <2>7, InsertIs
  <2>9. Len(Objects(f[m + 1], n)) = m + 1
    BY <2>5, <2>8 DEF OneMore
  <2>10. Stored(f[m + 1]) = {objs[j] : j \in 1 .. (m + 1)}
    <3>1. \A j \in 1 .. (m + 1) : j \in 1 .. m \/ j = m + 1
      BY <2>1
    <3>2. (\A j \in 1 .. m : j \in 1 .. (m + 1)) /\ m + 1 \in 1 .. (m + 1)
      BY <2>1
    <3>3. QED
      BY <2>3, <2>5, <2>8, <3>1, <3>2
  <2>11. QED
    BY <2>1, <2>8, <2>9, <2>10 DEF HoldsFirst
<1>11. HoldsFirst(f[l], n, objs, l)
  <2> HIDE DEF S
  <2>1. \A m \in 0..l : m \in S
    BY <1>3, <1>9, <1>10, Climb
  <2>2. QED
    BY <1>3, <2>1 DEF S
<1>12. {objs[j] : j \in 1 .. l} = Stored(hmap)
  <2>1. DOMAIN hmap = 0..(size - 1) /\ \A b \in DOMAIN hmap : \A i \in 1 .. Len(hmap[b]) : hmap[b][i] \in Obj
    BY TableIs
  <2>2. \A x \in 1 .. l : \E b \in DOMAIN hmap : \E i \in 1 .. Len(hmap[b]) : objs[x] = hmap[b][i]
    <3> TAKE x \in 1 .. l
    <3>1. PICK b \in 0..(size - 1) : \E i \in 1 .. Len(hmap[b]) : objs[x] = hmap[b][i]
      BY <1>2, <1>3 DEF Spells
    <3>2. QED
      BY <2>1, <3>1
  <2>3. \A b \in DOMAIN hmap : \A i \in 1 .. Len(hmap[b]) : \E x \in 1 .. l : objs[x] = hmap[b][i]
    BY <1>2, <1>3, <2>1 DEF Spells
  <2>4. \A x \in 1 .. l : objs[x] \in Stored(hmap)
    BY <2>1, <2>2 DEF Stored
  <2>5. \A o \in Stored(hmap) : \E x \in 1 .. l : objs[x] = o
    BY <2>3 DEF Stored
  <2>6. QED
    BY <2>4, <2>5
<1>13. QED
  BY <1>1, <1>3, <1>8, <1>11, <1>12 DEF HoldsFirst

(* The table of primes is ascending: looking for a prime again from the    *)
(* start ends where the first search ended.                                *)
LEMMA PrimesAre ==
  ASSUME TableAssumption
  PROVE  /\ \A i \in DOMAIN Primes : Primes[i] \in Nat /\ Primes[i] > 4 /\ GoodSize(Primes[i]) /\ i \in Nat
         /\ \A i, j \in DOMAIN Primes : i <= j => Primes[i] <= Primes[j]
         /\ \A i, j \in DOMAIN Primes : Primes[i] <= Primes[j] => i <= j
<1>1. /\ Primes \in Seq(Nat) /\ \A i \in DOMAIN Primes : Primes[i] > 4
      /\ \A i, j \in DOMAIN Primes : i < j => Primes[i] < Primes[j]
      /\ \A k \in Keys, i \in DOMAIN Primes : Hash(k, Primes[i]) \in 0..(Primes[i] - 1)
  BY DEF TableAssumption
<1>2. \A i \in DOMAIN Primes : i \in Nat /\ Primes[i] \in Nat
  BY <1>1
<1>3. \A i \in DOMAIN Primes : GoodSize(Primes[i])
  BY <1>1, <1>2 DEF GoodSize
<1>4. ASSUME NEW i \in DOMAIN Primes, NEW j \in DOMAIN Primes
      PROVE  (i <= j => Primes[i] <= Primes[j]) /\ (Primes[i] <= Primes[j] => i <= j)
  <2>1. i \in Nat /\ j \in Nat /\ Primes[i] \in Nat /\ Primes[j] \in Nat
    BY <1>2
  <2>2. (i < j => Primes[i] < Primes[j]) /\ (j < i => Primes[j] < Primes[i])
    BY <1>1
  <2>3. QED
    BY <2>1, <2>2
<1>5. QED
  BY <1>1, <1>2, <1>3, <1>4

(* __next_prime finds the first prime that is large enough, if there is    *)
(* one.                                                                    *)
LEMMA PrimeFound ==
  ASSUME TableAssumption, NEW n \in Nat, NEW from \in DOMAIN Primes
  PROVE  /\ PrimeIndex(n, from) # 0 =>
              /\ PrimeIndex(n, from) \in DOMAIN Primes /\ from <= PrimeIndex(n, from)
              /\ Primes[PrimeIndex(n, from)] >= n
              /\ \A i \in DOMAIN Primes : from <= i /\ Primes[i] >= n => PrimeIndex(n, from) <= i
         /\ \A i \in DOMAIN Primes : from <= i /\ Primes[i] >= n => PrimeIndex(n, from) # 0
<1>1. Len(Primes) \in Nat /\ DOMAIN Primes = 1 .. Len(Primes)
  BY DEF TableAssumption
<1> DEFINE ok == {i \in from .. Len(Primes) : Primes[i] >= n}
<1>2. from \in Nat /\ from >= 1 /\ ok \subseteq DOMAIN Primes /\ ok \subseteq Nat /\ 0 \notin ok
  BY <1>1
<1>3. PrimeIndex(n, from) = IF ok = {} THEN 0 ELSE Min(ok)
  BY DEF PrimeIndex
<1>4. \A i \in DOMAIN Primes : from <= i /\ Primes[i] >= n => i \in ok
  BY <1>1
<1>5. \A i \in ok : i \in DOMAIN Primes /\ from <= i /\ Primes[i] >= n
  BY <1>1, <1>2
<1>6. ok # {} => Min(ok) \in ok /\ \A i \in ok : Min(ok) <= i
  BY <1>2, MinIs
<1> HIDE DEF ok
<1>7. QED
  BY <1>2, <1>3, <1>4, <1>5, <1>6

\* What is right in every state: the numbers of lists are primes, what is in
\* the lists is in its place and counted, and there is room for one more.
Elements == Len(Objects(hmap, size))
SizesKnown ==
  /\ tableClient \in Clients /\ px \in DOMAIN Primes /\ size = Primes[px] /\ osize \in Nat /\ osize <= size
  /\ tableRet \in {"ERR_NONE", "ERR_FAIL", "ERR_EXISTS"} \X (Vals \cup {None})
Filled ==
  /\ tableSz \in Nat /\ Elements <= tableSz
  /\ ~Calls("clear") => tableSz = Elements
  /\ tableSz <= Threshold(size) \/ (tableSz = Threshold(size) + 1 /\ osize = size)
TableInv == SizesKnown /\ Placed(hmap, size) /\ Filled

\* Nobody deletes from a linearly probed map.
NoHoles == \A c \in Clients : c.chain \/ "del" \notin c.ops

(* A map that has not reached its threshold has room for a probe, and a    *)
(* larger map has a larger threshold.                                      *)
LEMMA ThresholdIs ==
  ASSUME NEW n \in Nat, n > 4
  PROVE  /\ Threshold(n) \in Nat /\ Threshold(n) <= n - 2
         /\ \A m \in Nat : n <= m => Threshold(n) <= Threshold(m)
         /\ \A m \in Nat : 3 * n <= m => Threshold(n) + 1 <= Threshold(m)
BY DEF Threshold

(* What the invariant says of sizes and types.                             *)
LEMMA TableFacts ==
  ASSUME TableAssumption, TableInv
  PROVE  /\ GoodSize(size) /\ size \in Nat /\ size > 4 /\ IsTable(hmap, size) /\ KeyOnce(hmap)
         /\ Elements \in Nat /\ tableClient.chain \in BOOLEAN /\ tableClient.no_overwrite \in BOOLEAN
         /\ osize \in Nat /\ tableSz \in Nat
<1>1. GoodSize(size) /\ size \in Nat /\ size > 4
  BY PrimesAre DEF TableInv, SizesKnown
<1>2. Placed(hmap, size) /\ IsTable(hmap, size) /\ tableSz \in Nat /\ osize \in Nat
  BY DEF TableInv, Placed, Filled, SizesKnown
<1>3. KeyOnce(hmap)
  BY <1>1, <1>2, PlacedOnce
<1>4. Elements \in Nat
  BY <1>2, CountIs DEF Elements
<1>5. tableClient.chain \in BOOLEAN /\ tableClient.no_overwrite \in BOOLEAN
  <2>1. tableClient \in Clients
    BY DEF TableInv, SizesKnown
  <2>2. Clients \subseteq [chain : BOOLEAN, no_overwrite : BOOLEAN, ops : SUBSET {"put", "get", "del", "clear"}]
    BY DEF TableAssumption
  <2>3. QED
    BY <2>1, <2>2
<1>6. QED
  BY <1>1, <1>2, <1>3, <1>4, <1>5

(* With the map as it is, its type stays the same.                         *)
LEMMA SamePlace ==
  ASSUME tableClient' = tableClient
  PROVE  Placed(hmap, size)' <=> Placed(hmap', size')
BY DEF Placed, Chain, IsTable, Chained, Probed, Reached, Probe, Obj

\* What a put does to a table that holds the objects S.
Refuses(S, o) ==
  /\ \E x \in S : x.key = o.key
  /\ tableRet' = <<"ERR_EXISTS", None>> /\ Stored(hmap') = S /\ NoOverwrite
Overwrites(S, o) ==
  /\ \E x \in S : x.key = o.key /\ Stored(hmap') = (S \ {x}) \cup {o}
  /\ tableRet' = <<"ERR_NONE", None>> /\ ~NoOverwrite
Adds(S, o) ==
  /\ \A x \in S : x.key # o.key
  /\ tableRet' = <<"ERR_NONE", None>> /\ Stored(hmap') = S \cup {o}

(* An object is stored if and only if its key has a place.                 *)
LEMMA StoredAt ==
  ASSUME TableAssumption, NEW t, NEW n, IsTable(t, n), NEW k
  PROVE  /\ \A f \in At(t, k) : t[f[1]][f[2]] \in Stored(t) /\ t[f[1]][f[2]].key = k
         /\ \A x \in Stored(t) : x.key = k => At(t, k) # {}
<1>1. \A b \in DOMAIN t : \A i \in 1 .. Len(t[b]) : t[b][i] \in Obj /\ i \in Nat
  <2>1. \A b \in DOMAIN t : Len(t[b]) \in Nat
    BY TableIs
  <2>2. QED
    BY <2>1, TableIs
<1>2. \A f \in At(t, k) : t[f[1]][f[2]] \in Stored(t) /\ t[f[1]][f[2]].key = k
  BY <1>1, AtIs DEF Stored
<1>3. ASSUME NEW x \in Stored(t), x.key = k PROVE At(t, k) # {}
  <2>1. PICK b \in DOMAIN t : \E i \in 1 .. Len(t[b]) : t[b][i] = x
    BY DEF Stored
  <2>2. PICK i \in 1 .. Len(t[b]) : t[b][i] = x
    BY <2>1
  <2>3. <<b, i>> \in At(t, k)
    BY <1>1, <1>3, <2>2, AtIs
  <2>4. QED
    BY <2>3
<1>4. QED
  BY <1>2, <1>3

(* u_hmap_put on a table with room refuses, overwrites or adds, and counts *)
(* right.                                                                  *)
LEMMA PutIs ==
  ASSUME TableAssumption, NEW t, NEW n, GoodSize(n), Placed(t, n), Roomy(t, n), NEW o \in Obj,
         NEW count \in Nat, PutIn(t, n, count, o)
  PROVE  /\ Placed(hmap', n)
         /\ \/ (Refuses(Stored(t), o) \/ Overwrites(Stored(t), o)) /\ tableSz' = count
               /\ Len(Objects(hmap', n)) = Len(Objects(t, n))
            \/ Adds(Stored(t), o) /\ tableSz' = count + 1 /\ OneMore(Len(Objects(hmap', n)), Len(Objects(t, n)))
<1>1. IsTable(t, n) /\ o.key \in Keys
  BY ObjIs DEF Placed
<1>2. Present(t, n, o.key) = At(t, o.key)
  BY <1>1, FoundIs
<1>3. CASE At(t, o.key) # {} /\ NoOverwrite
  <2>1. tableRet' = <<"ERR_EXISTS", None>> /\ hmap' = t /\ tableSz' = count
    BY <1>2, <1>3 DEF PutIn
  <2>2. \E x \in Stored(t) : x.key = o.key
    BY <1>1, <1>3, StoredAt
  <2>3. QED
    BY <1>3, <2>1, <2>2 DEF Refuses
<1>4. CASE At(t, o.key) # {} /\ ~NoOverwrite
  <2>1. PICK p : p = CHOOSE x \in At(t, o.key) : TRUE
    OBVIOUS
  <2>2. p \in At(t, o.key)
    BY <1>4, <2>1
  <2>3. tableRet' = <<"ERR_NONE", None>> /\ hmap' = [t EXCEPT ![p[1]][p[2]] = o] /\ tableSz' = count
    BY <1>2, <1>4, <2>1 DEF PutIn
  <2>4. /\ p[1] \in DOMAIN t /\ p[2] \in 1 .. Len(t[p[1]]) /\ t[p[1]][p[2]].key = o.key
        /\ t[p[1]][p[2]] \in Stored(t)
    BY <1>1, <2>2, AtIs, StoredAt
  <2>5. PICK x : x = t[p[1]][p[2]] /\ Replaced(hmap', t, p[1], x, o)
    BY <2>3, <2>4 DEF Replaced
  <2>6. /\ Placed(hmap', n) /\ Stored(hmap') = (Stored(t) \ {x}) \cup {o}
        /\ Len(Objects(hmap', n)) = Len(Objects(t, n))
    BY <2>4, <2>5, ReplaceIs
  <2>7. Overwrites(Stored(t), o)
    BY <1>4, <2>3, <2>4, <2>5, <2>6 DEF Overwrites
  <2>8. QED
    BY <2>3, <2>6, <2>7
<1>5. CASE At(t, o.key) = {}
  <2>1. PICK u : u = InsertNew(t, n, o)
    OBVIOUS
  <2>2. /\ Placed(u, n) /\ Stored(u) = Stored(t) \cup {o}
        /\ OneMore(Len(Objects(u, n)), Len(Objects(t, n)))
    BY <1>5, <2>1, InsertIs
  <2>3. u # t
    <3>1. PICK c \in Nat : c = Len(Objects(t, n))
      BY <1>1, CountIs
    <3>2. u = t => c = c + 1
      BY <2>2, <3>1 DEF OneMore
    <3>3. QED
      BY <3>2
  <2>4. tableRet' = <<"ERR_NONE", None>> /\ hmap' = u /\ tableSz' = count + 1
    BY <1>2, <1>5, <2>1, <2>3 DEF PutIn
  <2>5. \A x \in Stored(t) : x.key # o.key
    BY <1>1, <1>5, StoredAt
  <2>6. QED
    BY <2>2, <2>4, <2>5 DEF Adds
<1>6. QED
  BY <1>3, <1>4, <1>5

\* The calls, as the dictionary sees them, on the objects S.
Putting(S, o) == Refuses(S, o) \/ Overwrites(S, o) \/ Adds(S, o)

(* The invariant, from what a put leaves.                                  *)
LEMMA FilledAfter ==
  ASSUME TableAssumption, TableInv, tableClient' = tableClient,
         NEW n \in Nat, n > 4, IsTable(hmap', n), size' = n, osize' \in Nat, NEW count \in Nat,
         NEW c \in Nat, c <= count, ~Calls("clear") => count = c,
         \/ tableSz' = count /\ Len(Objects(hmap', n)) = c
         \/ tableSz' = count + 1 /\ OneMore(Len(Objects(hmap', n)), c),
         count < Threshold(n) \/ (count <= Threshold(n) /\ osize' = n)
  PROVE  Filled'
<1>1. PICK d \in Nat : d = Len(Objects(hmap', n))
  BY CountIs
<1>2. (tableSz' = count /\ d = c) \/ (tableSz' = count + 1 /\ d = c + 1)
  BY <1>1 DEF OneMore
<1>3. Elements' = d
  BY <1>1 DEF Elements, Objects
<1>4. Calls("clear")' = Calls("clear")
  BY DEF Calls
<1>5. Threshold(size)' = Threshold(n) /\ Threshold(n) \in Nat
  BY ThresholdIs DEF Threshold
<1>6. tableSz' \in Nat /\ d <= tableSz' /\ (~Calls("clear") => tableSz' = d)
  BY <1>2
<1>7. tableSz' <= Threshold(n) \/ (tableSz' = Threshold(n) + 1 /\ osize' = n)
  BY <1>2, <1>5
<1>8. QED
  BY <1>3, <1>4, <1>5, <1>6, <1>7 DEF Filled

(* A put below the threshold.                                              *)
LEMMA PutPlain ==
  ASSUME TableAssumption, TableInv, NEW o \in Obj, ~Crowded, PutIn(hmap, size, tableSz, o),
         UNCHANGED <<tableClient, size, osize, px>>
  PROVE  TableInv' /\ Putting(Stored(hmap), o)
<1>1. /\ GoodSize(size) /\ size \in Nat /\ size > 4 /\ IsTable(hmap, size)
      /\ Elements \in Nat /\ osize \in Nat /\ tableSz \in Nat /\ Placed(hmap, size)
  BY TableFacts DEF TableInv
<1>2. Threshold(size) \in Nat /\ Threshold(size) <= size - 2
  BY <1>1, ThresholdIs
<1>3. tableSz < Threshold(size)
  BY <1>1, <1>2 DEF Crowded
<1>4. Elements <= tableSz /\ (~Calls("clear") => tableSz = Elements)
  BY DEF TableInv, Filled
<1>5. Roomy(hmap, size)
  <2>1. Elements <= size - 2
    BY <1>1, <1>2, <1>3, <1>4
  <2>2. QED
    BY <2>1 DEF Roomy, Elements
<1>6. /\ Placed(hmap', size)
      /\ \/ (Refuses(Stored(hmap), o) \/ Overwrites(Stored(hmap), o)) /\ tableSz' = tableSz
            /\ Len(Objects(hmap', size)) = Elements
         \/ Adds(Stored(hmap), o) /\ tableSz' = tableSz + 1 /\ OneMore(Len(Objects(hmap', size)), Elements)
  BY <1>1, <1>5, PutIs DEF Elements
<1>7. Filled'
  BY <1>1, <1>3, <1>4, <1>6, FilledAfter DEF Placed
<1>8. Placed(hmap, size)'
  BY <1>6, SamePlace
<1>9. SizesKnown'
  <2>1. tableRet' \in {<<"ERR_NONE", None>>, <<"ERR_EXISTS", None>>}
    BY <1>6 DEF Refuses, Overwrites, Adds
  <2>2. QED
    BY <2>1 DEF TableInv, SizesKnown
<1>10. QED
  BY <1>6, <1>7, <1>8, <1>9 DEF TableInv, Putting

(* The size of the new table: that of the old one if opts->size was less,  *)
(* else at least three times that.                                         *)
LEMMA ResizeIs ==
  ASSUME TableAssumption, TableInv, Resize
  PROVE  /\ px' \in DOMAIN Primes /\ size' = Primes[px'] /\ osize' = size' /\ size' \in Nat /\ size' > 4
         /\ size <= size' /\ 3 * osize <= size' /\ GoodSize(size')
<1>1. PICK i : i = PrimeIndex(3 * osize, px)
  OBVIOUS
<1>2. px \in DOMAIN Primes /\ size = Primes[px] /\ osize \in Nat /\ 3 * osize \in Nat
  BY DEF TableInv, SizesKnown
<1>3. i # 0 /\ osize' = Primes[i] /\ px' = PrimeIndex(Primes[i], 1) /\ size' = Primes[px']
  BY <1>1 DEF Resize, ResizeRate
<1>4. i \in DOMAIN Primes /\ px <= i /\ Primes[i] >= 3 * osize
  BY <1>1, <1>2, <1>3, PrimeFound
<1>5. Primes[i] \in Nat /\ 1 \in DOMAIN Primes /\ 1 <= i /\ i \in Nat
  <2>1. Len(Primes) \in Nat /\ DOMAIN Primes = 1 .. Len(Primes)
    BY DEF TableAssumption
  <2>2. QED
    BY <1>4, <2>1, PrimesAre
<1>6. px' \in DOMAIN Primes /\ Primes[px'] >= Primes[i] /\ px' <= i
  <2>1. Primes[i] >= Primes[i]
    BY <1>5
  <2>2. px' # 0
    BY <1>3, <1>4, <1>5, <2>1, PrimeFound
  <2>3. QED
    BY <1>3, <1>4, <1>5, <2>1, <2>2, PrimeFound
<1>7. px' = i
  BY <1>4, <1>5, <1>6, PrimesAre
<1>8. size <= size'
  BY <1>2, <1>3, <1>4, <1>7, PrimesAre
<1>9. QED
  BY <1>3, <1>4, <1>5, <1>6, <1>7, <1>8, PrimesAre

(* A put that copies the map to a larger table first.                      *)
LEMMA PutLarger ==
  ASSUME TableAssumption, TableInv, NEW o \in Obj, Resize, tableClient' = tableClient,
         PutIn(TableCopy(size'), size', CopiedCount, o)
  PROVE  TableInv' /\ Putting(Stored(hmap), o)
<1>1. /\ GoodSize(size) /\ size \in Nat /\ size > 4 /\ IsTable(hmap, size) /\ KeyOnce(hmap)
      /\ Elements \in Nat /\ osize \in Nat /\ tableSz \in Nat /\ Placed(hmap, size)
  BY TableFacts DEF TableInv
<1>2. PICK n : n = size'
  OBVIOUS
<1>3. /\ px' \in DOMAIN Primes /\ n = Primes[px'] /\ osize' = n /\ n \in Nat /\ n > 4
      /\ size <= n /\ 3 * osize <= n /\ GoodSize(n)
  BY <1>2, ResizeIs
<1>4. Elements < n - 1 /\ Elements <= Threshold(n) /\ Threshold(n) <= n - 2
  <2>1. Threshold(size) \in Nat /\ Threshold(n) \in Nat /\ Threshold(size) <= size - 2 /\ Threshold(n) <= n - 2
    BY <1>1, <1>3, ThresholdIs
  <2>2. Threshold(size) <= Threshold(n) /\ (osize = size => Threshold(size) + 1 <= Threshold(n))
    BY <1>1, <1>3, ThresholdIs
  <2>3. Elements <= tableSz /\ (tableSz <= Threshold(size) \/ (tableSz = Threshold(size) + 1 /\ osize = size))
    BY DEF TableInv, Filled
  <2>4. Elements <= Threshold(n)
    BY <1>1, <2>1, <2>2, <2>3
  <2>5. QED
    BY <1>1, <1>3, <2>1, <2>4
<1>5. PICK t : t = TableCopy(n)
  OBVIOUS
<1>6. Placed(t, n) /\ Stored(t) = Stored(hmap) /\ Len(Objects(t, n)) = Elements
  BY <1>1, <1>3, <1>4, <1>5, CopyIs DEF Elements
<1>7. Roomy(t, n)
  <2>1. Elements <= n - 2
    BY <1>1, <1>3, <1>4
  <2>2. QED
    BY <1>6, <2>1 DEF Roomy
<1>8. PutIn(t, n, Elements, o)
  BY <1>2, <1>5 DEF CopiedCount, Elements
<1>9. /\ Placed(hmap', n)
      /\ \/ (Refuses(Stored(hmap), o) \/ Overwrites(Stored(hmap), o)) /\ tableSz' = Elements
            /\ Len(Objects(hmap', n)) = Elements
         \/ Adds(Stored(hmap), o) /\ tableSz' = Elements + 1 /\ OneMore(Len(Objects(hmap', n)), Elements)
  BY <1>1, <1>3, <1>6, <1>7, <1>8, PutIs
<1>10. Filled'
  <2>1. IsTable(hmap', n) /\ Elements <= Elements
    BY <1>1, <1>9 DEF Placed
  <2>2. QED
    BY <1>1, <1>2, <1>3, <1>4, <1>9, <2>1, FilledAfter
<1>11. Placed(hmap, size)'
  BY <1>2, <1>9, SamePlace
<1>12. SizesKnown'
  <2>1. tableRet' \in {<<"ERR_NONE", None>>, <<"ERR_EXISTS", None>>}
    BY <1>9 DEF Refuses, Overwrites, Adds
  <2>2. osize' <= size' /\ osize' \in Nat /\ size' = Primes[px'] /\ px' \in DOMAIN Primes
    BY <1>2, <1>3
  <2>3. QED
    BY <2>1, <2>2 DEF TableInv, SizesKnown
<1>13. QED
  BY <1>9, <1>10, <1>11, <1>12 DEF TableInv, Putting

(* __get finds the object stored under the key, or there is none.          *)
LEMMA LookupIs ==
  ASSUME TableAssumption, TableInv, NEW k \in Keys
  PROVE  /\ Lookup(k) = At(hmap, k)
         /\ Lookup(k) = {} => \A x \in Stored(hmap) : x.key # k
         /\ Lookup(k) # {} => ObjUnder(k) \in Stored(hmap) /\ ObjUnder(k).key = k
<1>1. IsTable(hmap, size) /\ GoodSize(size) /\ Placed(hmap, size)
  BY TableFacts DEF TableInv
<1>2. Lookup(k) = At(hmap, k)
  BY <1>1, FoundIs DEF Lookup
<1>3. Lookup(k) = {} => \A x \in Stored(hmap) : x.key # k
  BY <1>1, <1>2, StoredAt
<1>4. ASSUME Lookup(k) # {}
      PROVE  ObjUnder(k) \in Stored(hmap) /\ ObjUnder(k).key = k
  <2>1. PICK f : f = CHOOSE x \in Lookup(k) : TRUE
    OBVIOUS
  <2>2. f \in At(hmap, k)
    BY <1>2, <1>4, <2>1
  <2>3. ObjUnder(k) = hmap[f[1]][f[2]]
    BY <2>1 DEF ObjUnder
  <2>4. QED
    BY <1>1, <2>2, <2>3, StoredAt
<1>5. QED
  BY <1>2, <1>3, <1>4

(* A new table is in order.                                                *)
LEMMA TableStarts ==
  ASSUME TableAssumption, TableInit
  PROVE  TableInv /\ Stored(hmap) = {}
<1>1. osize \in Nat /\ tableClient \in Clients
  BY DEF TableAssumption, TableInit
<1>2. PICK j \in DOMAIN Primes : osize <= Primes[j]
  BY DEF TableAssumption, TableInit
<1>3. j \in 1 .. Len(Primes) /\ Len(Primes) \in Nat /\ DOMAIN Primes = 1 .. Len(Primes)
  BY DEF TableAssumption
<1>4. 1 \in DOMAIN Primes /\ 1 <= j /\ Primes[j] >= osize
  BY <1>1, <1>2, <1>3, PrimesAre
<1>5. px # 0
  BY <1>1, <1>4, PrimeFound DEF TableInit
<1>6. px \in DOMAIN Primes /\ Primes[px] >= osize
  BY <1>1, <1>4, <1>5, PrimeFound DEF TableInit
<1>7. size = Primes[px] /\ size \in Nat /\ size > 4 /\ GoodSize(size) /\ osize <= size
  BY <1>1, <1>6, PrimesAre DEF TableInit
<1>8. hmap = EmptyTable(size) /\ tableSz = 0 /\ tableRet = <<"ERR_NONE", None>>
  BY DEF TableInit
<1>9. /\ IsTable(hmap, size) /\ \A b \in 0..(size - 1) : hmap[b] = <<>>
      /\ Objects(hmap, size) = <<>> /\ Stored(hmap) = {}
  BY <1>7, <1>8, EmptyIs
<1>10. DOMAIN hmap = 0..(size - 1)
  BY <1>9 DEF IsTable
<1>11. Placed(hmap, size)
  BY <1>9, <1>10 DEF Placed, Chained, Probed
<1>12. Elements = 0
  BY <1>9 DEF Elements
<1>13. Threshold(size) \in Nat
  BY <1>7, ThresholdIs
<1>14. Filled
  BY <1>8, <1>12, <1>13 DEF Filled
<1>15. SizesKnown
  BY <1>1, <1>6, <1>7, <1>8 DEF SizesKnown
<1>16. QED
  BY <1>9, <1>11, <1>14, <1>15 DEF TableInv

(* A call that only answers leaves the table in order.                     *)
LEMMA TableKept ==
  ASSUME TableInv, UNCHANGED <<tableClient, hmap, size, osize, px, tableSz>>,
         tableRet' \in {"ERR_NONE", "ERR_FAIL", "ERR_EXISTS"} \X (Vals \cup {None})
  PROVE  TableInv'
<1>1. Placed(hmap, size)'
  BY SamePlace DEF TableInv
<1>2. Elements' = Elements
  BY DEF Elements, Objects
<1>3. Filled'
  BY <1>2 DEF TableInv, Filled, Calls, Threshold
<1>4. SizesKnown'
  BY DEF TableInv, SizesKnown
<1>5. QED
  BY <1>1, <1>3, <1>4 DEF TableInv

\* What a deletion does to a table that holds the objects S.
TakesOut(S, k) ==
  \/ (\A x \in S : x.key # k) /\ tableRet' = <<"ERR_FAIL", None>> /\ Stored(hmap') = S
  \/ \E x \in S : x.key = k /\ tableRet' = <<"ERR_NONE", None>> /\ Stored(hmap') = S \ {x}

(* The invariant, from what a deletion leaves: the client that deletes has *)
(* a chained map.                                                          *)
LEMMA TableDelKeeps ==
  ASSUME TableAssumption, NoHoles, TableInv, NEW k \in Keys, TableDel(k)
  PROVE  TableInv' /\ TakesOut(Stored(hmap), k)
<1>1. /\ GoodSize(size) /\ size \in Nat /\ size > 4 /\ IsTable(hmap, size) /\ Placed(hmap, size)
      /\ Elements \in Nat /\ tableSz \in Nat
  BY TableFacts DEF TableInv
<1>2. tableClient \in Clients /\ Chain
  BY DEF NoHoles, TableInv, SizesKnown, TableDel, Calls, Chain
<1>3. UNCHANGED <<tableClient, size, osize, px>>
  BY DEF TableDel
<1>4. None \in Vals \cup {None}
  OBVIOUS
<1>5. CASE Lookup(k) = {}
  <2>1. tableRet' = <<"ERR_FAIL", None>> /\ UNCHANGED <<hmap, tableSz>>
    BY <1>5 DEF TableDel
  <2>2. TableInv'
    BY <1>3, <1>4, <2>1, TableKept
  <2>3. \A x \in Stored(hmap) : x.key # k
    BY <1>5, LookupIs
  <2>4. QED
    BY <2>1, <2>2, <2>3 DEF TakesOut
<1>6. CASE Lookup(k) # {}
  <2>1. PICK p : p = CHOOSE x \in Lookup(k) : TRUE
    OBVIOUS
  <2>2. p \in At(hmap, k)
    BY <1>6, <2>1, LookupIs
  <2>3. p[1] \in DOMAIN hmap /\ p[2] \in 1 .. Len(hmap[p[1]]) /\ hmap[p[1]][p[2]].key = k
    BY <2>2, AtIs
  <2>4. /\ tableRet' = <<"ERR_NONE", None>> /\ tableSz' = tableSz - 1
        /\ hmap' = [hmap EXCEPT ![p[1]] = RemoveAt(hmap[p[1]], p[2])]
    BY <1>6, <2>1 DEF TableDel
  <2>5. Changed(hmap', hmap, p[1], RemoveAt(hmap[p[1]], p[2]))
    BY <2>4 DEF Changed
  <2>6. /\ Placed(hmap', size) /\ Stored(hmap') = Stored(hmap) \ {hmap[p[1]][p[2]]}
        /\ OneMore(Len(Objects(hmap, size)), Len(Objects(hmap', size)))
    BY <1>1, <1>2, <2>3, <2>5, RemoveIs
  <2>7. hmap[p[1]][p[2]] \in Stored(hmap)
    BY <1>1, <2>2, StoredAt
  <2>8. TakesOut(Stored(hmap), k)
    BY <2>3, <2>4, <2>6, <2>7 DEF TakesOut
  <2>9. Placed(hmap, size)'
    BY <1>3, <2>6, SamePlace
  <2>10. Filled'
    <3>1. PICK d \in Nat : d = Len(Objects(hmap', size))
      BY <2>6, CountIs DEF Placed
    <3>2. Elements = d + 1
      BY <2>6, <3>1 DEF OneMore, Elements
    <3>3. Elements' = d
      BY <1>3, <3>1 DEF Elements, Objects
    <3>4. Threshold(size)' = Threshold(size) /\ Calls("clear")' = Calls("clear")
      BY <1>3 DEF Calls, Threshold
    <3>5. /\ Elements <= tableSz /\ (~Calls("clear") => tableSz = Elements)
          /\ tableSz <= Threshold(size) \/ (tableSz = Threshold(size) + 1 /\ osize = size)
      BY DEF TableInv, Filled
    <3>6. Threshold(size) \in Nat
      BY <1>1, ThresholdIs
    <3>7. tableSz - 1 \in Nat /\ d <= tableSz - 1 /\ (~Calls("clear") => tableSz - 1 = d)
      BY <1>1, <3>1, <3>2, <3>5
    <3>8. tableSz - 1 <= Threshold(size)
      BY <1>1, <3>5, <3>6
    <3>9. QED
      BY <2>4, <3>3, <3>4, <3>7, <3>8 DEF Filled
  <2>11. SizesKnown'
    BY <1>3, <1>4, <2>4 DEF TableInv, SizesKnown
  <2>12. QED
    BY <2>8, <2>9, <2>10, <2>11 DEF TableInv
<1>7. QED
  BY <1>5, <1>6

(* A cleared table is a new one of the same size, though still counted     *)
(* full.                                                                   *)
LEMMA TableClearKeeps ==
  ASSUME TableAssumption, TableInv, TableClear
  PROVE  TableInv' /\ Stored(hmap') = {}
<1>1. size \in Nat /\ tableSz \in Nat
  BY TableFacts
<1>2. /\ hmap' = EmptyTable(size) /\ tableRet' = <<"ERR_NONE", None>> /\ Calls("clear")
      /\ UNCHANGED <<tableClient, size, osize, px, tableSz>>
  BY DEF TableClear
<1>3. /\ IsTable(hmap', size) /\ \A b \in 0..(size - 1) : hmap'[b] = <<>>
      /\ Objects(hmap', size) = <<>> /\ Stored(hmap') = {}
  BY <1>1, <1>2, EmptyIs
<1>4. DOMAIN hmap' = 0..(size - 1)
  BY <1>3 DEF IsTable
<1>5. Placed(hmap', size)
  BY <1>3, <1>4 DEF Placed, Chained, Probed
<1>6. Placed(hmap, size)'
  BY <1>2, <1>5, SamePlace
<1>7. Elements' = 0
  BY <1>2, <1>3 DEF Elements, Objects
<1>8. Filled'
  BY <1>1, <1>2, <1>7 DEF TableInv, Filled, Calls, Threshold
<1>9. SizesKnown'
  BY <1>2 DEF TableInv, SizesKnown
<1>10. QED
  BY <1>3, <1>6, <1>8, <1>9 DEF TableInv

\* The object a put brings.
NewObj(k, v) == [key |-> k, val |-> v]

(* A put, with or without a resize.                                        *)
LEMMA TablePutKeeps ==
  ASSUME TableAssumption, TableInv, NEW k \in Keys, NEW v \in Vals, TablePut(k, v)
  PROVE  TableInv' /\ Putting(Stored(hmap), NewObj(k, v)) /\ tableClient' = tableClient
<1>1. PICK o \in Obj : o = NewObj(k, v)
  BY DEF NewObj, Obj
<1>2. CASE ~Crowded
  <2>1. PutIn(hmap, size, tableSz, o) /\ UNCHANGED <<tableClient, size, osize, px>>
    BY <1>1, <1>2 DEF TablePut, NewObj
  <2>2. QED
    BY <1>1, <1>2, <2>1, PutPlain
<1>3. CASE Crowded
  <2>1. Resize /\ tableClient' = tableClient /\ PutIn(TableCopy(size'), size', CopiedCount, o)
    BY <1>1, <1>3 DEF TablePut, NewObj
  <2>2. QED
    BY <1>1, <2>1, PutLarger
<1>4. QED
  BY <1>2, <1>3

(* What get answers.                                                       *)
LEMMA GetAnswers ==
  ASSUME TableAssumption, TableInv, NEW k \in Keys, TableGet(k)
  PROVE  TableInv'
<1>1. Lookup(k) # {} => ObjUnder(k).val \in Vals
  BY LookupIs, ObjIs DEF Stored
<1>2. tableRet' \in {"ERR_NONE", "ERR_FAIL", "ERR_EXISTS"} \X (Vals \cup {None})
  BY <1>1 DEF TableGet
<1>3. QED
  BY <1>2, TableKept DEF TableGet

(* Every call leaves the table in order.                                   *)
LEMMA TableStays ==
  ASSUME TableAssumption, NoHoles, TableInv, [TableNext]_tableVars
  PROVE  TableInv'
<1>1. CASE \E k \in Keys : TableGet(k)
  BY <1>1, GetAnswers
<1>2. CASE \E k \in Keys : TableDel(k)
  BY <1>2, TableDelKeeps
<1>3. CASE \E k \in Keys, v \in Vals : TablePut(k, v)
  BY <1>3, TablePutKeeps
<1>4. CASE PutLimit
  BY <1>4, TableKept DEF PutLimit
<1>5. CASE TableClear
  BY <1>5, TableClearKeeps
<1>6. CASE UNCHANGED tableVars
  <2>1. UNCHANGED <<tableClient, hmap, size, osize, px, tableSz, tableRet>>
    BY <1>6 DEF tableVars
  <2>2. QED
    BY <2>1, TableKept DEF TableInv, SizesKnown
<1>7. QED
  BY <1>1, <1>2, <1>3, <1>4, <1>5, <1>6 DEF TableNext

(* A table in order is what TableSound says.                               *)
LEMMA TableInvSays ==
  ASSUME TableAssumption, TableInv
  PROVE  TableSound
<1>1. /\ GoodSize(size) /\ size \in Nat /\ IsTable(hmap, size) /\ Placed(hmap, size)
      /\ tableClient.chain \in BOOLEAN /\ tableSz \in Nat
  BY TableFacts DEF TableInv
<1>2. /\ DOMAIN hmap = 0..(size - 1)
      /\ \A b \in DOMAIN hmap : hmap[b] \in Seq(Obj) /\ DOMAIN hmap[b] = 1 .. Len(hmap[b]) /\ Len(hmap[b]) \in Nat
      /\ \A b \in DOMAIN hmap : \A i \in 1 .. Len(hmap[b]) : hmap[b][i].key \in Keys
  BY <1>1, TableIs
<1>3. TableTypeOK
  BY <1>1 DEF TableTypeOK, TableInv, SizesKnown, IsTable
<1>4. WellPlaced
  BY <1>1, <1>2 DEF WellPlaced, Placed, Chained, Probed
<1>5. Findable
  <2>1. ASSUME NEW b \in DOMAIN hmap, NEW i \in 1 .. Len(hmap[b])
        PROVE  Lookup(hmap[b][i].key) = {<<b, i>>}
    <3>1. PICK k \in Keys : k = hmap[b][i].key
      BY <1>2
    <3>2. i \in Nat
      BY <1>2
    <3>3. <<b, i>> \in At(hmap, k)
      BY <3>1, <3>2, AtIs
    <3>4. Lookup(k) = At(hmap, k) /\ \A f, g \in At(hmap, k) : f = g
      BY <1>1, LookupIs, FoundIs
    <3>5. QED
      BY <3>1, <3>3, <3>4
  <2>2. QED
    BY <1>2, <2>1 DEF Findable
<1>6. CountRight
  BY DEF TableInv, Filled, CountRight, Elements
<1>7. QED
  BY <1>3, <1>4, <1>5, <1>6 DEF TableSound

(* Whatever is put, overwritten, deleted or copied to a larger table, each *)
(* element of the map is in its place, found by __get and counted: if      *)
(* nobody deletes from a linearly probed map.                              *)
THEOREM TableIsSound ==
  ASSUME TableAssumption, NoHoles
  PROVE  TableSpec => []TableSound
<1>1. TableInit => TableInv
  BY TableStarts
<1>2. TableInv /\ [TableNext]_tableVars => TableInv'
  BY TableStays
<1>3. TableInv => TableSound
  BY TableInvSays
<1>4. QED
  BY <1>1, <1>2, <1>3, PTL DEF TableSpec

\* No two of the objects S have one key; the dictionary that they make.
OneEach(S) == S \subseteq Obj /\ \A x, y \in S : x.key = y.key => x = y
DictFrom(S) ==
  [k \in Keys |-> IF \E x \in S : x.key = k THEN (CHOOSE x \in S : x.key = k).val ELSE None]

(* The value under the key of each object, and none under other keys.      *)
LEMMA DictFromIs ==
  ASSUME TableAssumption, NEW S, OneEach(S)
  PROVE  /\ \A x \in S : DictFrom(S)[x.key] = x.val /\ x.val # None /\ x.val \in Vals
         /\ \A k \in Keys : (\A x \in S : x.key # k) => DictFrom(S)[k] = None
<1>1. ASSUME NEW x \in S PROVE DictFrom(S)[x.key] = x.val /\ x.val # None /\ x.val \in Vals
  <2>1. x.key \in Keys /\ x.val # None /\ x.val \in Vals
    BY ObjIs DEF OneEach
  <2>2. PICK y : y = CHOOSE z \in S : z.key = x.key
    OBVIOUS
  <2>3. y \in S /\ y.key = x.key
    BY <2>2
  <2>4. y = x
    BY <2>3 DEF OneEach
  <2>5. DictFrom(S)[x.key] = y.val
    BY <2>1, <2>2 DEF DictFrom
  <2>6. QED
    BY <2>1, <2>4, <2>5
<1>2. ASSUME NEW k \in Keys, \A x \in S : x.key # k PROVE DictFrom(S)[k] = None
  BY <1>2 DEF DictFrom
<1>3. QED
  BY <1>1, <1>2

(* Objects with other keys leave the rest of the dictionary alone.         *)
LEMMA DictElsewhere ==
  ASSUME TableAssumption, NEW S, NEW T, OneEach(S), OneEach(T), NEW k,
         \A x \in Obj : x.key # k => (x \in S <=> x \in T)
  PROVE  \A j \in Keys : j # k => DictFrom(T)[j] = DictFrom(S)[j]
<1>1. SUFFICES ASSUME NEW j \in Keys, j # k PROVE DictFrom(T)[j] = DictFrom(S)[j]
  OBVIOUS
<1>2. CASE \E x \in S : x.key = j
  <2>1. PICK x \in S : x.key = j
    BY <1>2
  <2>2. x \in T
    BY <1>1, <2>1 DEF OneEach
  <2>3. QED
    BY <2>1, <2>2, DictFromIs
<1>3. CASE \A x \in S : x.key # j
  <2>1. \A x \in T : x.key # j
    BY <1>1, <1>3 DEF OneEach
  <2>2. QED
    BY <1>3, <2>1, DictFromIs
<1>4. QED
  BY <1>2, <1>3

(* So it differs under one key.                                            *)
LEMMA DictWith ==
  ASSUME TableAssumption, NEW S, NEW T, OneEach(S), OneEach(T), NEW k \in Keys, NEW v,
         \A x \in Obj : x.key # k => (x \in S <=> x \in T),
         DictFrom(T)[k] = v
  PROVE  DictFrom(T) = [DictFrom(S) EXCEPT ![k] = v]
<1>1. \A j \in Keys : j # k => DictFrom(T)[j] = DictFrom(S)[j]
  BY DictElsewhere
<1>2. PICK d, e : d = DictFrom(S) /\ e = DictFrom(T)
  OBVIOUS
<1>3. d = [j \in Keys |-> d[j]] /\ e = [j \in Keys |-> e[j]]
  BY <1>2 DEF DictFrom
<1>4. \A j \in Keys : e[j] = IF j = k THEN v ELSE d[j]
  BY <1>1, <1>2
<1>5. e = [d EXCEPT ![k] = v]
  BY <1>3, <1>4
<1>6. QED
  BY <1>2, <1>5

DictHolds == OneEach(Stored(hmap)) /\ DictOf = DictFrom(Stored(hmap))

(* What __get finds is the dictionary of the objects that are stored.      *)
LEMMA DictIs ==
  ASSUME TableAssumption
  PROVE  TableInv => DictHolds
<1>1. SUFFICES ASSUME TableInv PROVE DictHolds
  OBVIOUS
<1>2. OneEach(Stored(hmap))
  <2>1. Stored(hmap) \subseteq Obj
    BY DEF Stored
  <2>2. ASSUME NEW x \in Stored(hmap), NEW y \in Stored(hmap), x.key = y.key PROVE x = y
    <3>1. KeyOnce(hmap)
      BY <1>1, TableFacts
    <3>2. PICK b \in DOMAIN hmap : \E i \in 1 .. Len(hmap[b]) : hmap[b][i] = x
      BY DEF Stored
    <3>3. PICK i \in 1 .. Len(hmap[b]) : hmap[b][i] = x
      BY <3>2
    <3>4. PICK c \in DOMAIN hmap : \E j \in 1 .. Len(hmap[c]) : hmap[c][j] = y
      BY DEF Stored
    <3>5. PICK j \in 1 .. Len(hmap[c]) : hmap[c][j] = y
      BY <3>4
    <3>6. b = c /\ i = j
      BY <2>2, <3>1, <3>3, <3>5 DEF KeyOnce
    <3>7. QED
      BY <3>3, <3>5, <3>6
  <2>3. QED
    BY <2>1, <2>2 DEF OneEach
<1>3. PICK d : d = DictFrom(Stored(hmap))
  OBVIOUS
<1>4. d = [k \in Keys |-> d[k]]
  BY <1>3 DEF DictFrom
<1>5. ASSUME NEW k \in Keys PROVE d[k] = IF Lookup(k) = {} THEN None ELSE ObjUnder(k).val
  <2>1. CASE Lookup(k) = {}
    BY <1>1, <1>2, <1>3, <2>1, LookupIs, DictFromIs
  <2>2. CASE Lookup(k) # {}
    <3>1. ObjUnder(k) \in Stored(hmap) /\ ObjUnder(k).key = k
      BY <1>1, <2>2, LookupIs
    <3>2. d[k] = ObjUnder(k).val
      BY <1>2, <1>3, <3>1, DictFromIs
    <3>3. QED
      BY <2>2, <3>2
  <2>3. QED
    BY <2>1, <2>2
<1>6. DictOf = d
  BY <1>4, <1>5 DEF DictOf
<1>7. QED
  BY <1>2, <1>3, <1>6 DEF DictHolds

(* In the next state too.                                                  *)
LEMMA DictNext ==
  ASSUME TableAssumption
  PROVE  TableInv' => OneEach(Stored(hmap')) /\ DictOf' = DictFrom(Stored(hmap'))
<1>1. TableInv => DictHolds
  BY DictIs
<1>2. TableInv' => DictHolds'
  BY <1>1, PTL
<1>3. OneEach(Stored(hmap))' <=> OneEach(Stored(hmap'))
  BY DEF OneEach, Stored, Obj
<1>4. DictFrom(Stored(hmap))' = DictFrom(Stored(hmap'))
  BY DEF DictFrom, Stored, Obj
<1>5. QED
  BY <1>2, <1>3, <1>4 DEF DictHolds

(* Each call does to the dictionary what the dictionary does.              *)
LEMMA PutsInDict ==
  ASSUME TableAssumption, TableInv, TableInv', tableClient' = tableClient,
         NEW k \in Keys, NEW v \in Vals, Putting(Stored(hmap), NewObj(k, v))
  PROVE  Dict!Put(k, v)
<1>1. PICK S, T : S = Stored(hmap) /\ T = Stored(hmap')
  OBVIOUS
<1>2. OneEach(S) /\ OneEach(T) /\ DictOf = DictFrom(S) /\ DictOf' = DictFrom(T)
  BY <1>1, DictIs, DictNext DEF DictHolds
<1>3. PICK o \in Obj : o = NewObj(k, v) /\ o.key = k /\ o.val = v
  BY DEF NewObj, Obj
<1>4. CASE Refuses(S, o)
  <2>1. (\E x \in S : x.key = k) /\ NoOverwrite /\ tableRet' = <<"ERR_EXISTS", None>> /\ T = S
    BY <1>1, <1>3, <1>4 DEF Refuses
  <2>2. DictOf[k] # None
    BY <1>2, <2>1, DictFromIs
  <2>3. QED
    BY <1>2, <2>1, <2>2 DEF Dict!Put
<1>5. CASE Overwrites(S, o)
  <2>1. PICK x \in S : x.key = k /\ T = (S \ {x}) \cup {o}
    BY <1>1, <1>3, <1>5 DEF Overwrites
  <2>2. ~NoOverwrite /\ tableRet' = <<"ERR_NONE", None>>
    BY <1>5 DEF Overwrites
  <2>3. \A y \in Obj : y.key # k => (y \in S <=> y \in T)
    BY <1>3, <2>1
  <2>4. DictFrom(T)[k] = v
    BY <1>2, <1>3, <2>1, DictFromIs
  <2>5. DictFrom(T) = [DictFrom(S) EXCEPT ![k] = v]
    BY <1>2, <2>3, <2>4, DictWith
  <2>6. QED
    BY <1>2, <2>2, <2>5 DEF Dict!Put
<1>6. CASE Adds(S, o)
  <2>1. (\A x \in S : x.key # k) /\ tableRet' = <<"ERR_NONE", None>> /\ T = S \cup {o}
    BY <1>1, <1>3, <1>6 DEF Adds
  <2>2. DictOf[k] = None
    BY <1>2, <2>1, DictFromIs
  <2>3. \A y \in Obj : y.key # k => (y \in S <=> y \in T)
    BY <1>3, <2>1
  <2>4. DictFrom(T)[k] = v
    BY <1>2, <1>3, <2>1, DictFromIs
  <2>5. DictFrom(T) = [DictFrom(S) EXCEPT ![k] = v]
    BY <1>2, <2>3, <2>4, DictWith
  <2>6. QED
    BY <1>2, <2>1, <2>2, <2>5 DEF Dict!Put
<1>7. QED
  BY <1>1, <1>3, <1>4, <1>5, <1>6 DEF Putting

(* A deletion in the dictionary.                                           *)
LEMMA DelsInDict ==
  ASSUME TableAssumption, TableInv, TableInv', NEW k \in Keys, TakesOut(Stored(hmap), k)
  PROVE  Dict!Del(k)
<1>1. PICK S, T : S = Stored(hmap) /\ T = Stored(hmap')
  OBVIOUS
<1>2. OneEach(S) /\ OneEach(T) /\ DictOf = DictFrom(S) /\ DictOf' = DictFrom(T)
  BY <1>1, DictIs, DictNext DEF DictHolds
<1>3. CASE (\A x \in S : x.key # k) /\ tableRet' = <<"ERR_FAIL", None>> /\ T = S
  <2>1. DictFrom(T)[k] = None /\ DictOf[k] = None
    BY <1>2, <1>3, DictFromIs
  <2>2. DictFrom(T) = [DictFrom(S) EXCEPT ![k] = None]
    BY <1>2, <1>3, <2>1, DictWith
  <2>3. QED
    BY <1>2, <1>3, <2>1, <2>2 DEF Dict!Del
<1>4. CASE \E x \in S : x.key = k /\ tableRet' = <<"ERR_NONE", None>> /\ T = S \ {x}
  <2>1. PICK x \in S : x.key = k /\ tableRet' = <<"ERR_NONE", None>> /\ T = S \ {x}
    BY <1>4
  <2>2. DictOf[k] # None
    BY <1>2, <2>1, DictFromIs
  <2>3. \A y \in T : y.key # k
    BY <1>2, <2>1 DEF OneEach
  <2>4. DictFrom(T)[k] = None
    BY <1>2, <2>3, DictFromIs
  <2>5. \A y \in Obj : y.key # k => (y \in S <=> y \in T)
    BY <2>1
  <2>6. DictFrom(T) = [DictFrom(S) EXCEPT ![k] = None]
    BY <1>2, <2>4, <2>5, DictWith
  <2>7. QED
    BY <1>2, <2>1, <2>2, <2>6 DEF Dict!Del
<1>5. QED
  BY <1>1, <1>3, <1>4 DEF TakesOut

(* A lookup in the dictionary.                                             *)
LEMMA GetsFromDict ==
  ASSUME TableAssumption, TableInv, TableInv', NEW k \in Keys, TableGet(k)
  PROVE  Dict!Get(k)
<1>1. DictOf[k] = IF Lookup(k) = {} THEN None ELSE ObjUnder(k).val
  BY DEF DictOf
<1>2. Lookup(k) # {} => ObjUnder(k).val # None
  BY LookupIs, ObjIs DEF Stored
<1>3. /\ tableRet' = IF Lookup(k) = {} THEN <<"ERR_FAIL", None>> ELSE <<"ERR_NONE", ObjUnder(k).val>>
      /\ hmap' = hmap
  BY DEF TableGet
<1>4. DictOf' = DictOf
  <2>1. DictOf = DictFrom(Stored(hmap)) /\ DictOf' = DictFrom(Stored(hmap'))
    BY DictIs, DictNext DEF DictHolds
  <2>2. QED
    BY <1>3, <2>1
<1>5. QED
  BY <1>1, <1>2, <1>3, <1>4 DEF Dict!Get

(* A step of the table is one of the dictionary.                           *)
LEMMA DictSteps ==
  ASSUME TableAssumption, NoHoles, TableInv, TableInv', TableNext
  PROVE  Dict!Next
<1>1. DictOf = DictFrom(Stored(hmap)) /\ DictOf' = DictFrom(Stored(hmap'))
  BY DictIs, DictNext DEF DictHolds
<1>2. tableClient' = tableClient
  BY DEF TableNext, TableGet, TableDel, TablePut, PutLimit, TableClear
<1>3. NoOverwrite' = NoOverwrite
  BY <1>2 DEF NoOverwrite
<1>4. CASE \E k \in Keys : TableGet(k)
  BY <1>3, <1>4, GetsFromDict DEF Dict!Next
<1>5. CASE \E k \in Keys : TableDel(k)
  BY <1>3, <1>5, TableDelKeeps, DelsInDict DEF Dict!Next
<1>6. CASE \E k \in Keys, v \in Vals : TablePut(k, v)
  BY <1>2, <1>3, <1>6, TablePutKeeps, PutsInDict DEF Dict!Next
<1>7. CASE PutLimit
  <2>1. hmap' = hmap /\ tableRet' = <<"ERR_FAIL", None>>
    BY <1>7 DEF PutLimit
  <2>2. QED
    BY <1>1, <1>3, <2>1 DEF Dict!Next, Dict!PutFails
<1>8. CASE TableClear
  <2>1. Stored(hmap') = {} /\ tableRet' = <<"ERR_NONE", None>>
    BY <1>8, TableClearKeeps DEF TableClear
  <2>2. DictOf' = [k \in Keys |-> None]
    BY <1>1, <2>1 DEF DictFrom
  <2>3. QED
    BY <1>3, <2>1, <2>2 DEF Dict!Next, Dict!Clear
<1>9. QED
  BY <1>4, <1>5, <1>6, <1>7, <1>8 DEF TableNext

(* The hash map is a dictionary: each put, get, deletion and clearing,     *)
(* those that copy the map to a larger table included, does to what        *)
(* __get finds just what it does to a dictionary, if nobody deletes from a *)
(* linearly probed map.                                                    *)
THEOREM MapIsDictionary ==
  ASSUME TableAssumption, NoHoles
  PROVE  TableSpec => TableIsDict
<1>1. TableInit => TableInv
  BY TableStarts
<1>2. TableInv /\ [TableNext]_tableVars => TableInv'
  BY TableStays
<1>3. TableInit => Dict!Init
  <2>1. SUFFICES ASSUME TableInit PROVE Dict!Init
    OBVIOUS
  <2>2. TableInv /\ Stored(hmap) = {}
    BY <2>1, TableStarts
  <2>3. DictOf = DictFrom({})
    BY <2>2, DictIs DEF DictHolds
  <2>4. DictOf = [k \in Keys |-> None]
    BY <2>3 DEF DictFrom
  <2>5. NoOverwrite \in BOOLEAN
    BY <2>2, TableFacts DEF NoOverwrite
  <2>6. QED
    BY <2>1, <2>4, <2>5 DEF Dict!Init, TableInit
<1>4. TableInv /\ TableInv' /\ [TableNext]_tableVars => DictStep
  <2>1. SUFFICES ASSUME TableInv, TableInv', [TableNext]_tableVars PROVE DictStep
    OBVIOUS
  <2>2. CASE TableNext
    BY <2>1, <2>2, DictSteps DEF DictStep
  <2>3. CASE UNCHANGED tableVars
    BY <2>3 DEF DictStep
  <2>4. QED
    BY <2>1, <2>2, <2>3
<1>5. QED
  BY <1>1, <1>2, <1>3, <1>4, PTL DEF TableSpec, TableIsDict

-----------------------------------------------------------------------------
(* Who owns the blocks of the objects.                                     *)

\* The blocks of the n-th object, and those that are freed when it is let go
\* of: by the map if it owns them, else by the caller.
KeyBlock(n) == Internalise(map.opts.key_type, <<"key", n>>, <<"keycopy", n>>)
ValBlock(n) == Internalise(map.opts.val_type, <<"val", n>>, <<"valcopy", n>>)
Whole(n) == {<<"obj", n>>, KeyBlock(n), ValBlock(n)}
FreedWith(n) ==
  IF Owns(map.opts) THEN OFree([n |-> n, key |-> KeyBlock(n), val |-> ValBlock(n)])
  ELSE {<<"obj", n>>}
Inner(n) == {b \in Whole(n) : b[1] \notin {"key", "val"}}

\* The objects that somebody holds.
Held == map.objs \cup hands \cup failed

\* An object is known by its number and held by one party.
ObjectsKnown ==
  /\ puts \in Nat
  /\ map = [live |-> map.live, opts |-> map.opts, objs |-> map.objs]
  /\ \A obj \in Held :
       obj.n \in 1 .. puts /\ obj.key = KeyBlock(obj.n) /\ obj.val = ValBlock(obj.n)
  /\ \A a, b \in Held : a.n = b.n => a = b
  /\ map.objs \cap hands = {} /\ map.objs \cap failed = {} /\ hands \cap failed = {}
  /\ Owns(map.opts) => hands = {}

\* What is freed belonged to an object that nobody holds; and it was freed
\* with it, unless an easy map that owns nothing let go of it.
FreedKnown ==
  /\ ~twice
  /\ \A b \in freed : \E n \in 1 .. puts : n \notin Kept /\ b \in FreedWith(n)
  /\ Owns(map.opts) \/ ~map.opts.easy => \A n \in 1 .. puts : n \in Kept \/ FreedWith(n) \subseteq freed

MadeKnown == made = UNION {Inner(n) : n \in 1 .. puts}

OwnInv == ObjectsKnown /\ FreedKnown /\ MadeKnown

(* The blocks of an object bear its number.                                *)
LEMMA BlocksNumbered ==
  ASSUME NEW n
  PROVE  /\ FreedWith(n) \subseteq Whole(n) /\ \A b \in Whole(n) : b[2] = n
         /\ <<"obj", n>> \in FreedWith(n)
BY DEF FreedWith, Whole, OFree, KeyBlock, ValBlock, Internalise, Struct

(* What is freed with an object that the map owns: what was allocated for  *)
(* it, and a value of the caller if the map has a function for it.         *)
LEMMA OwnedFreed ==
  ASSUME NEW n, Owns(map.opts)
  PROVE  /\ Inner(n) \subseteq FreedWith(n)
         /\ <<"valcopy", n>> \notin Inner(n) => map.opts.val_type = "POINTER"
         /\ map.opts.val_type = "POINTER" =>
              (<<"val", n>> \in FreedWith(n) <=> map.opts.f_free # Unset \/ map.opts.f_val_free # Unset)
         /\ map.opts.val_type # "POINTER" => <<"val", n>> \notin FreedWith(n)
<1>1. \A b \in Inner(n) : b = <<"obj", n>> \/ (b = KeyBlock(n) /\ b[1] = "keycopy")
                            \/ (b = ValBlock(n) /\ b[1] = "valcopy")
  BY DEF Inner, Whole, KeyBlock, ValBlock, Internalise
<1>2. KeyBlock(n)[1] = "keycopy" => map.opts.key_type # "POINTER"
  BY DEF KeyBlock, Internalise
<1>3. ValBlock(n)[1] = "valcopy" => map.opts.val_type # "POINTER"
  BY DEF ValBlock, Internalise
<1>4. Inner(n) \subseteq FreedWith(n)
  BY <1>1, <1>2, <1>3 DEF FreedWith, OFree, Struct
<1>5. map.opts.val_type # "POINTER" => ValBlock(n) = <<"valcopy", n>>
  BY DEF ValBlock, Internalise
<1>6. map.opts.val_type = "POINTER" => ValBlock(n) = <<"val", n>>
  BY DEF ValBlock, Internalise
<1>7. KeyBlock(n) # <<"val", n>>
  BY DEF KeyBlock, Internalise
<1>8. map.opts.val_type # "POINTER" => <<"valcopy", n>> \in Inner(n)
  BY <1>5 DEF Inner, Whole
<1>9. map.opts.val_type = "POINTER" =>
        (<<"val", n>> \in FreedWith(n) <=> map.opts.f_free # Unset \/ map.opts.f_val_free # Unset)
  BY <1>6, <1>7 DEF FreedWith, OFree, Struct
<1>10. map.opts.val_type # "POINTER" => <<"val", n>> \notin FreedWith(n)
  BY <1>5, <1>7 DEF FreedWith, OFree, Struct
<1>11. QED
  BY <1>4, <1>8, <1>9, <1>10

(* With the options unchanged, so is what belongs to an object.            *)
LEMMA SameBlocks ==
  ASSUME map'.opts = map.opts, NEW n
  PROVE  /\ FreedWith(n)' = FreedWith(n) /\ Whole(n)' = Whole(n) /\ Inner(n)' = Inner(n)
         /\ KeyBlock(n)' = KeyBlock(n) /\ ValBlock(n)' = ValBlock(n)
BY DEF FreedWith, Whole, Inner, OFree, KeyBlock, ValBlock, Internalise, Struct

(* An object that somebody holds is made of its blocks.                    *)
LEMMA HeldBlocks ==
  ASSUME ObjectsKnown, NEW obj \in Held
  PROVE  /\ obj.n \in 1 .. puts /\ Blocks(obj) = Whole(obj.n)
         /\ Owns(map.opts) => OFree(obj) = FreedWith(obj.n)
         /\ Struct(obj) = <<"obj", obj.n>> /\ obj.n \in Kept
BY DEF ObjectsKnown, Blocks, Whole, FreedWith, OFree, Struct, Kept, Held

\* The object of a put, which nobody has seen yet.
Brings(brought) ==
  /\ puts' = puts + 1 /\ made' = made \cup Inner(puts + 1)
  /\ \E obj : /\ brought = {obj} /\ obj.n = puts + 1
              /\ obj.key = KeyBlock(puts + 1) /\ obj.val = ValBlock(puts + 1)

\* What every call does: it may bring an object that it just made, and some
\* objects are let go of for good, and what belongs to them is freed.
LetsGo(brought, gone, blocks) ==
  /\ map'.opts = map.opts
  /\ map' = [live |-> map'.live, opts |-> map'.opts, objs |-> map'.objs]
  /\ (brought = {} /\ puts' = puts /\ made' = made) \/ Brings(brought)
  /\ gone \subseteq Held \cup brought
  /\ Held' = (Held \cup brought) \ gone
  /\ map'.objs \cap hands' = {} /\ map'.objs \cap failed' = {} /\ hands' \cap failed' = {}
  /\ Owns(map.opts) => hands' = {}
  /\ freed' = freed \cup blocks
  /\ twice' => twice \/ blocks \cap freed # {}
  /\ blocks \subseteq UNION {FreedWith(obj.n) : obj \in gone}
  /\ Owns(map.opts) \/ ~map.opts.easy => blocks = UNION {FreedWith(obj.n) : obj \in gone}

(* Nothing is freed twice, or while somebody holds it, if every call lets  *)
(* go of objects in this way.                                              *)
LEMMA LettingGo ==
  ASSUME OwnInv, NEW brought, NEW gone, NEW blocks, LetsGo(brought, gone, blocks)
  PROVE  OwnInv'
<1> USE DEF LetsGo
<1>0. \/ brought = {} /\ puts' = puts
      \/ puts' = puts + 1 /\ \E obj : brought = {obj} /\ obj.n = puts + 1
  BY DEF Brings
<1>1. puts \in Nat /\ puts' \in Nat /\ puts <= puts' /\ \A n \in 1 .. puts : n \in 1 .. puts'
  BY <1>0 DEF OwnInv, ObjectsKnown
<1>2. \A obj \in brought : /\ obj.n = puts + 1 /\ puts' = puts + 1
                           /\ obj.key = KeyBlock(puts + 1) /\ obj.val = ValBlock(puts + 1)
  BY DEF Brings
<1>3. \A obj \in Held : obj.n \in 1 .. puts /\ obj.key = KeyBlock(obj.n) /\ obj.val = ValBlock(obj.n)
  BY DEF OwnInv, ObjectsKnown
<1>4. \A a, b \in Held \cup brought : a.n = b.n => a = b
  <2>1. \A a, b \in Held : a.n = b.n => a = b
    BY DEF OwnInv, ObjectsKnown
  <2>2. \A a, b \in brought : a = b
    BY <1>0
  <2>3. \A a \in Held, b \in brought : a.n # b.n
    BY <1>1, <1>2, <1>3
  <2>4. QED
    BY <2>1, <2>2, <2>3
<1>5. \A obj \in Held \cup brought :
        obj.n \in 1 .. puts' /\ obj.key = KeyBlock(obj.n) /\ obj.val = ValBlock(obj.n)
  BY <1>1, <1>2, <1>3
<1>6. ObjectsKnown'
  <2>1. \A obj \in Held' : obj.n \in 1 .. puts' /\ obj.key = KeyBlock(obj.n)' /\ obj.val = ValBlock(obj.n)'
    BY <1>5, SameBlocks
  <2>2. \A a, b \in Held' : a.n = b.n => a = b
    BY <1>4
  <2>3. Owns(map'.opts) => hands' = {}
    OBVIOUS
  <2>4. QED
    BY <1>1, <2>1, <2>2, <2>3 DEF ObjectsKnown
<1>7. \A n : n \in Kept' <=> \E obj \in (Held \cup brought) \ gone : obj.n = n
  BY DEF Kept, Held
<1>8. \A n : n \in Kept <=> \E obj \in Held : obj.n = n
  BY DEF Kept, Held
<1>9. \A obj \in gone : obj.n \in 1 .. puts' /\ obj.n \notin Kept'
  BY <1>4, <1>5, <1>7
<1>10. freed' = freed \cup blocks /\ (twice' => twice \/ blocks \cap freed # {})
  OBVIOUS
<1>11. ASSUME NEW n \in 1 .. puts, n \notin Kept
       PROVE  n \in 1 .. puts' /\ n \notin Kept'
  BY <1>1, <1>2, <1>7, <1>8, <1>11
<1>12. \A b \in freed : \E n \in 1 .. puts : n \notin Kept /\ b \in FreedWith(n) /\ b[2] = n
  BY BlocksNumbered DEF OwnInv, FreedKnown
<1>13. ASSUME NEW b \in blocks
       PROVE  \E obj \in gone : b \in FreedWith(obj.n) /\ b[2] = obj.n
  <2>1. PICK obj \in gone : b \in FreedWith(obj.n)
    OBVIOUS
  <2>2. b[2] = obj.n
    BY <2>1, BlocksNumbered
  <2>3. QED
    BY <2>1, <2>2
<1>14. blocks \cap freed = {}
  <2> SUFFICES ASSUME NEW b \in blocks, b \in freed
               PROVE  FALSE
    OBVIOUS
  <2>1. PICK n \in 1 .. puts : n \notin Kept /\ b[2] = n
    BY <1>12
  <2>2. PICK obj \in gone : b[2] = obj.n
    BY <1>13
  <2>3. obj \in Held \cup brought
    OBVIOUS
  <2>4. QED
    BY <1>1, <1>2, <1>8, <2>1, <2>2, <2>3
<1>15. ~twice'
  BY <1>10, <1>14 DEF OwnInv, FreedKnown
<1>16. ASSUME NEW b \in freed'
       PROVE  \E n \in 1 .. puts' : n \notin Kept' /\ b \in FreedWith(n)'
  <2>1. CASE b \in freed
    BY <1>11, <1>12, <2>1, SameBlocks
  <2>2. CASE b \in blocks
    BY <1>9, <1>13, <2>2, SameBlocks
  <2>3. QED
    BY <1>10, <2>1, <2>2
<1>17. ASSUME Owns(map.opts) \/ ~map.opts.easy, NEW n \in 1 .. puts', n \notin Kept'
       PROVE  FreedWith(n)' \subseteq freed'
  <2>1. CASE n \in Kept \/ n = puts + 1
    <3>1. \E obj \in Held \cup brought : obj.n = n
      BY <1>0, <1>1, <1>8, <2>1
    <3>2. PICK obj \in gone : obj.n = n
      BY <1>7, <1>17, <3>1
    <3>3. FreedWith(n) \subseteq blocks
      BY <1>17, <3>2
    <3>4. QED
      BY <1>10, <3>3, SameBlocks
  <2>2. CASE n \notin Kept /\ n # puts + 1
    <3>1. n \in 1 .. puts
      BY <1>0, <1>1, <2>2
    <3>2. FreedWith(n) \subseteq freed
      BY <1>17, <2>2, <3>1 DEF OwnInv, FreedKnown
    <3>3. QED
      BY <1>10, <3>2, SameBlocks
  <2>3. QED
    BY <2>1, <2>2
<1>18. FreedKnown'
  BY <1>15, <1>16, <1>17 DEF FreedKnown
<1>19. MadeKnown'
  <2>1. made = UNION {Inner(n) : n \in 1 .. puts}
    BY DEF OwnInv, MadeKnown
  <2>2. CASE puts' = puts /\ made' = made
    BY <2>1, <2>2, SameBlocks DEF MadeKnown
  <2>3. CASE puts' = puts + 1 /\ made' = made \cup Inner(puts + 1)
    <3>1. 1 .. puts' = (1 .. puts) \cup {puts + 1}
      BY <1>1, <2>3
    <3>2. made' = UNION {Inner(n) : n \in 1 .. puts'}
      BY <2>1, <2>3, <3>1
    <3>3. QED
      BY <3>2, SameBlocks DEF MadeKnown
  <2>4. QED
    BY <2>2, <2>3 DEF Brings
<1>20. QED
  BY <1>6, <1>18, <1>19 DEF OwnInv

(* The object that put creates has the next number and its own blocks.     *)
LEMMA Made ==
  ASSUME OwnInv, NEW name
  PROVE  /\ ONew(name).n = puts + 1
         /\ ONew(name).key = KeyBlock(puts + 1) /\ ONew(name).val = ValBlock(puts + 1)
         /\ Allocated(ONew(name)) = Inner(puts + 1)
         /\ ONew(name) \notin Held
<1>1. /\ ONew(name).n = puts + 1
      /\ ONew(name).key = KeyBlock(puts + 1) /\ ONew(name).val = ValBlock(puts + 1)
  BY DEF ONew, KeyBlock, ValBlock
<1>2. Allocated(ONew(name)) = Inner(puts + 1)
  BY <1>1 DEF Allocated, Blocks, Struct, Inner, Whole
<1>3. ONew(name) \notin Held
  BY <1>1 DEF OwnInv, ObjectsKnown
<1>4. QED
  BY <1>1, <1>2, <1>3

(* The map gives up some of its objects, or of what it was just offered:   *)
(* LetGo says who has them then.                                           *)
LEMMA MapLetsGo ==
  ASSUME OwnInv, NEW brought, NEW G \in SUBSET (map.objs \cup brought), LetGo(G),
         map' = [map EXCEPT !.objs = (map.objs \cup brought) \ G],
         brought \cap Held = {}, failed' = failed,
         (brought = {} /\ puts' = puts /\ made' = made) \/ Brings(brought)
  PROVE  OwnInv'
<1>1. /\ map'.opts = map.opts /\ map'.objs = (map.objs \cup brought) \ G
      /\ map' = [live |-> map'.live, opts |-> map'.opts, objs |-> map'.objs]
  BY DEF OwnInv, ObjectsKnown
<1>2. /\ map.objs \cap hands = {} /\ map.objs \cap failed = {} /\ hands \cap failed = {}
      /\ Owns(map.opts) => hands = {}
  BY DEF OwnInv, ObjectsKnown
<1>3. /\ G \subseteq Held \cup brought
      /\ brought \cap map.objs = {} /\ brought \cap hands = {} /\ brought \cap failed = {}
  BY DEF Held
<1>4. CASE Owns(map.opts)
  <2>1. Free(UNION {OFree(obj) : obj \in G}) /\ hands' = hands
    BY <1>4 DEF LetGo, OFreeAll
  <2>2. Held' = (Held \cup brought) \ G
    BY <1>1, <1>2, <1>3, <2>1 DEF Held
  <2>3. ASSUME NEW obj \in G
        PROVE  OFree(obj) = FreedWith(obj.n)
    <3>1. CASE obj \in brought
      BY <1>4, <3>1 DEF Brings, FreedWith, OFree, Struct
    <3>2. CASE obj \in Held
      BY <1>4, <3>2, HeldBlocks DEF OwnInv
    <3>3. QED
      BY <1>3, <3>1, <3>2
  <2>4. UNION {OFree(obj) : obj \in G} = UNION {FreedWith(obj.n) : obj \in G}
    BY <2>3
  <2>5. LetsGo(brought, G, UNION {FreedWith(obj.n) : obj \in G})
    BY <1>1, <1>2, <1>3, <2>1, <2>2, <2>4 DEF LetsGo, Free
  <2>6. QED
    BY <2>5, LettingGo
<1>5. CASE ~Owns(map.opts) /\ ~map.opts.easy
  <2>1. UNCHANGED <<freed, twice>> /\ hands' = hands \cup G
    BY <1>5 DEF LetGo
  <2>2. Held' = (Held \cup brought) \ {}
    BY <1>1, <1>2, <1>3, <2>1 DEF Held
  <2>3. {} = UNION {FreedWith(obj.n) : obj \in {}}
    OBVIOUS
  <2>4. LetsGo(brought, {}, {})
    BY <1>1, <1>2, <1>3, <1>5, <2>1, <2>2, <2>3 DEF LetsGo
  <2>5. QED
    BY <2>4, LettingGo
<1>6. CASE ~Owns(map.opts) /\ map.opts.easy
  <2>1. UNCHANGED <<freed, twice>> /\ hands' = hands
    BY <1>6 DEF LetGo
  <2>2. Held' = (Held \cup brought) \ G
    BY <1>1, <1>2, <1>3, <2>1 DEF Held
  <2>3. LetsGo(brought, G, {})
    BY <1>1, <1>2, <1>3, <1>6, <2>1, <2>2 DEF LetsGo
  <2>4. QED
    BY <2>3, LettingGo
<1>7. QED
  BY <1>4, <1>5, <1>6

(* u_hmap_put, in each of its outcomes.                                    *)
LEMMA PutKeeps ==
  ASSUME OwnInv, Put
  PROVE  OwnInv'
<1>1. PICK name : /\ made' = made \cup Allocated(ONew(name))
                  /\ \/ RefusePut(ONew(name)) \/ Overwrite(ONew(name))
                     \/ Insert(ONew(name)) \/ Fail(ONew(name))
  BY DEF Put
<1>2. PICK obj : obj = ONew(name)
  OBVIOUS
<1>3. /\ Brings({obj}) /\ {obj} \cap Held = {} /\ obj \notin map.objs
      /\ RefusePut(obj) \/ Overwrite(obj) \/ Insert(obj) \/ Fail(obj)
  BY <1>1, <1>2, Made DEF Put, Brings, Held
<1>4. map = [live |-> map.live, opts |-> map.opts, objs |-> map.objs]
  BY DEF OwnInv, ObjectsKnown
<1>5. CASE RefusePut(obj)
  <2>1. LetGo({obj}) /\ map' = map /\ failed' = failed
    BY <1>5 DEF RefusePut
  <2>2. (map.objs \cup {obj}) \ {obj} = map.objs
    BY <1>3
  <2>3. map' = [map EXCEPT !.objs = (map.objs \cup {obj}) \ {obj}]
    BY <1>4, <2>1, <2>2
  <2>4. QED
    BY <1>3, <2>1, <2>3, MapLetsGo
<1>6. CASE Overwrite(obj)
  <2>1. /\ LetGo(Same(obj)) /\ failed' = failed /\ Same(obj) \subseteq map.objs
        /\ map' = [map EXCEPT !.objs = (map.objs \ Same(obj)) \cup {obj}]
    BY <1>6 DEF Overwrite, Same
  <2>2. (map.objs \ Same(obj)) \cup {obj} = (map.objs \cup {obj}) \ Same(obj)
    BY <1>3, <2>1
  <2>3. QED
    BY <1>3, <2>1, <2>2, MapLetsGo
<1>7. CASE Insert(obj)
  <2>1. PICK victims \in SUBSET map.objs :
          /\ LetGo(victims) /\ failed' = failed
          /\ map' = [map EXCEPT !.objs = (map.objs \ victims) \cup {obj}]
    BY <1>7 DEF Insert
  <2>2. (map.objs \ victims) \cup {obj} = (map.objs \cup {obj}) \ victims
    BY <1>3
  <2>3. QED
    BY <1>3, <2>1, <2>2, MapLetsGo
<1>8. CASE Fail(obj)
  <2>1. failed' = failed \cup {obj} /\ UNCHANGED <<map, freed, twice, hands>>
    BY <1>8 DEF Fail
  <2>2. /\ map.objs \cap hands = {} /\ map.objs \cap failed = {} /\ hands \cap failed = {}
        /\ Owns(map.opts) => hands = {}
    BY DEF OwnInv, ObjectsKnown
  <2>3. Held' = (Held \cup {obj}) \ {} /\ {} = UNION {FreedWith(o.n) : o \in {}}
    BY <2>1 DEF Held
  <2>4. LetsGo({obj}, {}, {})
    BY <1>3, <1>4, <2>1, <2>2, <2>3 DEF LetsGo, Held
  <2>5. QED
    BY <2>4, LettingGo
<1>9. QED
  BY <1>3, <1>5, <1>6, <1>7, <1>8

(* The calls that empty the map, in part or wholly.                        *)
LEMMA DelKeeps ==
  ASSUME OwnInv, Del
  PROVE  OwnInv'
<1>1. PICK obj \in map.objs :
        /\ map' = [map EXCEPT !.objs = map.objs \ {obj}] /\ LetGo({obj})
        /\ UNCHANGED <<puts, made, failed>>
  BY DEF Del
<1>2. PICK gone : gone = {obj}
  OBVIOUS
<1>3. /\ gone \in SUBSET map.objs /\ LetGo(gone)
      /\ map.objs \ gone = (map.objs \cup {}) \ gone
      /\ map' = [map EXCEPT !.objs = map.objs \ gone]
      /\ failed' = failed /\ puts' = puts /\ made' = made
  BY <1>1, <1>2
<1>4. map' = [map EXCEPT !.objs = (map.objs \cup {}) \ gone]
  BY <1>3
<1>5. gone \in SUBSET (map.objs \cup {}) /\ {} \cap Held = {}
  BY <1>3
<1>6. QED
  BY <1>3, <1>4, <1>5, MapLetsGo

(* u_hmap_clear frees what the map owns, and hands over the rest.          *)
LEMMA ClearKeeps ==
  ASSUME OwnInv, HMapClear
  PROVE  OwnInv'
<1>1. /\ map' = [map EXCEPT !.objs = {}] /\ LetGo(map.objs)
      /\ UNCHANGED <<puts, made, failed>>
  BY DEF HMapClear, LetGo
<1>2. {} = (map.objs \cup {}) \ map.objs /\ map.objs \subseteq map.objs \cup {}
  OBVIOUS
<1>3. QED
  BY <1>1, <1>2, MapLetsGo

(* u_hmap_free does so too, and the map is gone.                           *)
LEMMA FreeKeeps ==
  ASSUME OwnInv, HMapFree
  PROVE  OwnInv'
<1>1. /\ map'.opts = map.opts /\ map'.objs = {}
      /\ map' = [live |-> map'.live, opts |-> map'.opts, objs |-> map'.objs]
      /\ UNCHANGED <<puts, made, failed>>
  BY DEF HMapFree, OwnInv, ObjectsKnown
<1>2. /\ map.objs \cap hands = {} /\ map.objs \cap failed = {} /\ hands \cap failed = {}
      /\ Owns(map.opts) => hands = {}
  BY DEF OwnInv, ObjectsKnown
<1>3. CASE Owns(map.opts)
  <2>1. Free(UNION {OFree(obj) : obj \in map.objs}) /\ hands' = hands
    BY <1>3 DEF HMapFree, OFreeAll
  <2>2. \A obj \in map.objs : OFree(obj) = FreedWith(obj.n)
    BY <1>3, HeldBlocks DEF OwnInv, Held
  <2>3. UNION {OFree(obj) : obj \in map.objs} = UNION {FreedWith(obj.n) : obj \in map.objs}
    BY <2>2
  <2>4. Held' = (Held \cup {}) \ map.objs /\ map.objs \subseteq Held \cup {}
    BY <1>1, <1>2, <2>1 DEF Held
  <2>5. LetsGo({}, map.objs, UNION {FreedWith(obj.n) : obj \in map.objs})
    BY <1>1, <1>2, <2>1, <2>3, <2>4 DEF LetsGo, Free
  <2>6. QED
    BY <2>5, LettingGo
<1>4. CASE ~Owns(map.opts)
  <2>1. hands' = hands \cup map.objs /\ UNCHANGED <<freed, twice>>
    BY <1>4 DEF HMapFree
  <2>2. Held' = (Held \cup {}) \ {} /\ {} = UNION {FreedWith(o.n) : o \in {}}
    BY <1>1, <2>1 DEF Held
  <2>3. LetsGo({}, {}, {})
    BY <1>1, <1>2, <1>4, <2>1, <2>2 DEF LetsGo
  <2>4. QED
    BY <2>3, LettingGo
<1>5. QED
  BY <1>3, <1>4

(* u_hmap_o_free of an object that the map gave back: only a map that does *)
(* not own its data gives one back.                                        *)
LEMMA UserKeeps ==
  ASSUME OwnInv, OFreeUser
  PROVE  OwnInv'
<1>1. PICK obj \in hands : /\ hands' = hands \ {obj} /\ Free({Struct(obj)})
                           /\ UNCHANGED <<map, puts, made, failed>>
  BY DEF OFreeUser
<1>2. /\ map.objs \cap hands = {} /\ map.objs \cap failed = {} /\ hands \cap failed = {}
      /\ Owns(map.opts) => hands = {}
      /\ map = [live |-> map.live, opts |-> map.opts, objs |-> map.objs]
  BY DEF OwnInv, ObjectsKnown
<1>3. ~Owns(map.opts)
  BY <1>1, <1>2
<1>4. {Struct(obj)} = UNION {FreedWith(o.n) : o \in {obj}}
  BY <1>3 DEF FreedWith, Struct
<1>5. Held' = (Held \cup {}) \ {obj} /\ {obj} \subseteq Held \cup {}
  BY <1>1, <1>2 DEF Held
<1>6. LetsGo({}, {obj}, {Struct(obj)})
  BY <1>1, <1>2, <1>3, <1>4, <1>5 DEF LetsGo, Free
<1>7. QED
  BY <1>6, LettingGo

(* Options are set, and a map is made of them, before there is an object.  *)
LEMMA NewKeeps ==
  ASSUME OwnInv, Setting \/ HMapNew \/ EasyNew \/ UNCHANGED ownVars
  PROVE  OwnInv'
<1>1. CASE HMapNew \/ EasyNew
  <2>1. PICK o : /\ map' = [live |-> TRUE, opts |-> o, objs |-> {}] /\ puts = 0
                 /\ UNCHANGED <<puts, made, freed, twice, hands, failed>>
    BY <1>1 DEF HMapNew, EasyNew, New
  <2>2. 1 .. puts = {} /\ hands = {} /\ failed = {} /\ freed = {} /\ made = {} /\ ~twice
    BY <2>1 DEF OwnInv, ObjectsKnown, FreedKnown, MadeKnown, Held
  <2>3. ObjectsKnown'
    BY <2>1, <2>2 DEF ObjectsKnown, Held
  <2>4. FreedKnown' /\ MadeKnown'
    BY <2>1, <2>2 DEF FreedKnown, MadeKnown
  <2>5. QED
    BY <2>3, <2>4 DEF OwnInv
<1>2. CASE Setting \/ UNCHANGED ownVars
  <2>1. UNCHANGED <<map, puts, made, freed, twice, hands, failed>>
    BY <1>2 DEF Setting, ownVars
  <2>2. map'.opts = map.opts /\ Held' = Held /\ Kept' = Kept
    BY <2>1 DEF Held, Kept
  <2>3. ObjectsKnown'
    BY <2>1, <2>2, SameBlocks DEF OwnInv, ObjectsKnown
  <2>4. FreedKnown' /\ MadeKnown'
    BY <2>1, <2>2, SameBlocks DEF OwnInv, FreedKnown, MadeKnown
  <2>5. QED
    BY <2>3, <2>4 DEF OwnInv
<1>3. QED
  BY <1>1, <1>2

(* Every call keeps the books of blocks and objects.                       *)
LEMMA OwnMovesOn ==
  ASSUME OwnInv, [OwnNext]_ownVars
  PROVE  OwnInv'
BY PutKeeps, DelKeeps, ClearKeeps, FreeKeeps, UserKeeps, NewKeeps DEF OwnNext

(* The books say what FreedByOwner says.                                   *)
LEMMA OwnedIsFreed ==
  ASSUME OwnInv
  PROVE  FreedByOwner
<1>1. ~twice /\ puts \in Nat
  BY DEF OwnInv, FreedKnown, ObjectsKnown
<1>2. ASSUME NEW obj \in Held
      PROVE  Blocks(obj) \cap freed = {}
  <2> SUFFICES ASSUME NEW b \in Blocks(obj), b \in freed
               PROVE  FALSE
    OBVIOUS
  <2>1. b[2] = obj.n /\ obj.n \in Kept
    BY HeldBlocks, BlocksNumbered DEF OwnInv
  <2>2. PICK n \in 1 .. puts : n \notin Kept /\ b \in FreedWith(n)
    BY DEF OwnInv, FreedKnown
  <2>3. b[2] = n
    BY <2>2, BlocksNumbered
  <2>4. QED
    BY <2>1, <2>2, <2>3
<1>3. ASSUME Owns(map.opts) \/ ~map.opts.easy, NEW b \in made
      PROVE  b[2] \in Kept \/ b \in freed
  <2>1. PICK n \in 1 .. puts : b \in Inner(n)
    BY DEF OwnInv, MadeKnown
  <2>2. b[2] = n
    BY <2>1, BlocksNumbered DEF Inner
  <2>3. n \in Kept \/ FreedWith(n) \subseteq freed
    BY <1>3 DEF OwnInv, FreedKnown
  <2>4. b \in FreedWith(n)
    <3>1. CASE Owns(map.opts)
      BY <2>1, <3>1, OwnedFreed
    <3>2. CASE ~Owns(map.opts)
      BY <2>1, <3>2 DEF Inner, Whole, KeyBlock, ValBlock, Internalise, FreedWith
    <3>3. QED
      BY <3>1, <3>2
  <2>5. QED
    BY <2>2, <2>3, <2>4
<1>4. ASSUME NEW n \in 1 .. puts
      PROVE  <<"val", n>> \in freed => <<"val", n>> \in FreedWith(n) /\ n \notin Kept
  <2> SUFFICES ASSUME <<"val", n>> \in freed
               PROVE  <<"val", n>> \in FreedWith(n) /\ n \notin Kept
    OBVIOUS
  <2>1. PICK m \in 1 .. puts : m \notin Kept /\ <<"val", n>> \in FreedWith(m)
    BY DEF OwnInv, FreedKnown
  <2>2. m = <<"val", n>>[2]
    BY <2>1, BlocksNumbered
  <2>3. QED
    BY <2>1, <2>2
<1>5. ASSUME NEW n \in 1 .. puts
      PROVE  <<"valcopy", n>> \notin made => <<"valcopy", n>> \notin Inner(n)
  BY DEF OwnInv, MadeKnown
<1>6. ASSUME NEW n \in 1 .. puts
      PROVE  <<"val", n>> \in FreedWith(n) <=>
               /\ Owns(map.opts) /\ map.opts.val_type = "POINTER"
               /\ map.opts.f_free # Unset \/ map.opts.f_val_free # Unset
  <2>1. ~Owns(map.opts) => <<"val", n>> \notin FreedWith(n)
    BY DEF FreedWith
  <2>2. QED
    BY <2>1, OwnedFreed
<1>7. ASSUME NEW n \in 1 .. puts, Owns(map.opts), n \notin Kept
      PROVE  FreedWith(n) \subseteq freed
  BY <1>7 DEF OwnInv, FreedKnown
<1>8. QED
  BY <1>1, <1>2, <1>3, <1>4, <1>5, <1>6, <1>7, OwnedFreed DEF FreedByOwner, Held

(* In the hash map, whatever the options say, keys, values and objects are *)
(* freed once and by their owner, and never while somebody holds them, in  *)
(* any sequence of u_hmap_put, u_hmap_del, u_hmap_clear and u_hmap_free.   *)
THEOREM OwnerFrees == OwnSpec => []FreedByOwner
<1>1. OwnInit => OwnInv
  BY DEF OwnInit, OwnInv, ObjectsKnown, FreedKnown, MadeKnown, Held, Kept
<1>2. OwnInv /\ [OwnNext]_ownVars => OwnInv'
  BY OwnMovesOn
<1>3. OwnInv => FreedByOwner
  BY OwnedIsFreed
<1>4. QED
  BY <1>1, <1>2, <1>3, PTL DEF OwnSpec

-----------------------------------------------------------------------------
(* The policy queue.                                                       *)
Members(s) == {s[i] : i \in 1 .. Len(s)}
Unique(s) == \A i, j \in 1 .. Len(s) : s[i] = s[j] => i = j

(* The members of a sequence from which one is taken out.                  *)
LEMMA MembersRemoved ==
  ASSUME NEW T, NEW s \in Seq(T), NEW t \in Seq(T), NEW i \in 1 .. Len(s), Removed(t, s, i), Unique(s)
  PROVE  Members(t) = Members(s) \ {s[i]} /\ Unique(t)
<1>1. Len(s) \in Nat /\ Len(t) = Len(s) - 1
  BY DEF Removed
<1>2. \A j \in 1 .. Len(t) : t[j] = s[IF j < i THEN j ELSE j + 1]
  BY DEF Removed
<1>3. Members(t) \subseteq Members(s) \ {s[i]}
  <2> SUFFICES ASSUME NEW j \in 1 .. Len(t)
               PROVE  t[j] \in Members(s) /\ t[j] # s[i]
    BY DEF Members
  <2>1. PICK m \in 1 .. Len(s) : m = (IF j < i THEN j ELSE j + 1) /\ m # i
    BY <1>1
  <2>2. t[j] = s[m]
    BY <1>2, <2>1
  <2>3. QED
    BY <2>1, <2>2 DEF Members, Unique
<1>4. ASSUME NEW j \in 1 .. Len(s), s[j] # s[i]
      PROVE  s[j] \in Members(t)
  <2>1. CASE j < i
    <3>1. j \in 1 .. Len(t) /\ t[j] = s[j]
      BY <1>1, <1>2, <2>1
    <3>2. QED
      BY <3>1 DEF Members
  <2>2. CASE j > i
    <3>1. PICK m \in 1 .. Len(t) : m = j - 1
      BY <1>1, <2>2
    <3>2. ~(m < i) /\ m + 1 = j
      BY <3>1, <2>2
    <3>3. t[m] = s[j]
      BY <1>2, <3>2
    <3>4. QED
      BY <3>3 DEF Members
  <2>3. QED
    BY <1>1, <1>4, <2>1, <2>2
<1>5. Unique(t)
  BY <1>1, <1>2 DEF Unique
<1>6. Members(s) \ {s[i]} \subseteq Members(t)
  BY <1>4 DEF Members
<1>7. QED
  BY <1>3, <1>5, <1>6

(* The members of a sequence into which one is put.                        *)
LEMMA MembersInserted ==
  ASSUME NEW T, NEW s \in Seq(T), NEW t \in Seq(T), NEW i \in 1 .. (Len(s) + 1), NEW e, Inserted(t, s, i, e)
  PROVE  Members(t) = Members(s) \cup {e} /\ (Unique(s) /\ e \notin Members(s) => Unique(t))
<1>1. Len(s) \in Nat /\ Len(t) = Len(s) + 1
  BY DEF Inserted
<1>2. /\ t[i] = e /\ i \in 1 .. Len(t)
      /\ \A j \in 1 .. Len(t) : j # i => t[j] = s[IF j < i THEN j ELSE j - 1]
  BY <1>1 DEF Inserted
<1>3. \A m \in 1 .. Len(t) : m # i => (IF m < i THEN m ELSE m - 1) \in 1 .. Len(s)
  BY <1>1
<1>4. Members(t) \subseteq Members(s) \cup {e}
  BY <1>2, <1>3 DEF Members
<1>5. ASSUME NEW j \in 1 .. Len(s)
      PROVE  s[j] \in Members(t)
  <2>1. CASE j < i
    <3>1. j \in 1 .. Len(t) /\ t[j] = s[j]
      BY <1>1, <1>2, <2>1
    <3>2. QED
      BY <3>1 DEF Members
  <2>2. CASE ~(j < i)
    <3>1. PICK m \in 1 .. Len(t) : m = j + 1
      BY <1>1
    <3>2. m # i /\ ~(m < i) /\ m - 1 = j
      BY <2>2, <3>1
    <3>3. t[m] = s[j]
      BY <1>2, <3>2
    <3>4. QED
      BY <3>3 DEF Members
  <2>3. QED
    BY <2>1, <2>2
<1>6. Members(s) \cup {e} \subseteq Members(t)
  BY <1>2, <1>5 DEF Members
<1>7. ASSUME Unique(s), e \notin Members(s), NEW j \in 1 .. Len(t), NEW l \in 1 .. Len(t), t[j] = t[l]
      PROVE  j = l
  <2>1. \A m \in 1 .. Len(t) : m # i => t[m] # e
    BY <1>2, <1>3, <1>7 DEF Members
  <2>2. CASE j = i \/ l = i
    BY <1>2, <1>7, <2>1, <2>2
  <2>3. CASE j # i /\ l # i
    <3>1. (IF j < i THEN j ELSE j - 1) = (IF l < i THEN l ELSE l - 1)
      BY <1>2, <1>3, <1>7, <2>3 DEF Unique
    <3>2. QED
      BY <1>1, <2>3, <3>1
  <2>4. QED
    BY <2>2, <2>3
<1>8. QED
  <2>1. Unique(s) /\ e \notin Members(s) => Unique(t)
    BY <1>7 DEF Unique
  <2>2. QED
    BY <1>4, <1>6, <2>1

(* Drop takes out the member, if it is one.                                *)
LEMMA DropIs ==
  ASSUME NEW T, NEW s \in Seq(T), NEW o
  PROVE  /\ o \in Members(s) => \E i \in 1 .. Len(s) :
              s[i] = o /\ Drop(s, o) \in Seq(T) /\ Removed(Drop(s, o), s, i)
         /\ o \notin Members(s) => Drop(s, o) = s
<1>1. DOMAIN s = 1 .. Len(s)
  OBVIOUS
<1>2. CASE o \in Members(s)
  <2>1. PICK i \in 1 .. Len(s) : i = CHOOSE m \in DOMAIN s : s[m] = o
    BY <1>1, <1>2 DEF Members
  <2>2. s[i] = o
    BY <1>1, <1>2, <2>1 DEF Members
  <2>3. Drop(s, o) = RemoveAt(s, i)
    BY <1>1, <2>1, <2>2 DEF Drop
  <2>4. QED
    BY <1>2, <2>2, <2>3, RemoveAtIs
<1>3. CASE o \notin Members(s)
  BY <1>1, <1>3 DEF Members, Drop
<1>4. QED
  BY <1>2, <1>3

-----------------------------------------------------------------------------
\* The objects of a policy queue, in its order.
Hos(q) == [i \in 1 .. Len(q) |-> q[i].ho]

(* What is taken from or put into the queue is taken from or put into the  *)
(* sequence of its objects.                                                *)
LEMMA HosIs ==
  ASSUME NEW q \in Seq(Entry)
  PROVE  /\ Hos(q) \in Seq(Objs) /\ Len(Hos(q)) = Len(q) /\ Len(q) \in Nat
         /\ \A i \in 1 .. Len(q) : Hos(q)[i] = q[i].ho /\ q[i] \in Entry
         /\ \A o : o \in Members(Hos(q)) <=> Queued(q, o)
<1>1. Len(q) \in Nat /\ \A i \in 1 .. Len(q) : q[i] \in Entry
  OBVIOUS
<1>2. Hos(q) \in [1 .. Len(q) -> Objs]
  BY <1>1 DEF Hos, Entry
<1>3. Hos(q) \in Seq(Objs) /\ Len(Hos(q)) = Len(q)
  BY <1>1, <1>2
<1>4. \A i \in 1 .. Len(q) : Hos(q)[i] = q[i].ho
  BY DEF Hos
<1>5. DOMAIN q = 1 .. Len(q)
  OBVIOUS
<1>6. QED
  BY <1>1, <1>3, <1>4, <1>5 DEF Members, Queued

(* The objects queued once an entry is taken out.                          *)
LEMMA HosRemoved ==
  ASSUME NEW q \in Seq(Entry), NEW r \in Seq(Entry), NEW i \in 1 .. Len(q), Removed(r, q, i),
         Unique(Hos(q))
  PROVE  Unique(Hos(r)) /\ Members(Hos(r)) = Members(Hos(q)) \ {q[i].ho}
<1>1. Len(q) \in Nat /\ Len(r) = Len(q) - 1
  BY DEF Removed
<1>2. Removed(Hos(r), Hos(q), i)
  <2>1. ASSUME NEW j \in 1 .. Len(r)
        PROVE  Hos(r)[j] = IF j < i THEN Hos(q)[j] ELSE Hos(q)[j + 1]
    <3>1. Hos(r)[j] = r[j].ho /\ r[j] = IF j < i THEN q[j] ELSE q[j + 1]
      BY HosIs DEF Removed
    <3>2. \A m \in 1 .. Len(q) : Hos(q)[m] = q[m].ho
      BY HosIs
    <3>3. j \in 1 .. Len(q) /\ j + 1 \in 1 .. Len(q)
      BY <1>1
    <3>4. QED
      BY <3>1, <3>2, <3>3
  <2>2. QED
    BY <1>1, <2>1, HosIs DEF Removed
<1>3. Hos(q) \in Seq(Objs) /\ Hos(r) \in Seq(Objs) /\ i \in 1 .. Len(Hos(q)) /\ Hos(q)[i] = q[i].ho
  BY HosIs
<1>4. QED
  BY <1>2, <1>3, MembersRemoved

(* The objects queued once an entry is put in.                             *)
LEMMA HosInserted ==
  ASSUME NEW q \in Seq(Entry), NEW r \in Seq(Entry), NEW i \in 1 .. (Len(q) + 1), NEW e \in Entry,
         Inserted(r, q, i, e), Unique(Hos(q)), ~Queued(q, e.ho)
  PROVE  Unique(Hos(r)) /\ Members(Hos(r)) = Members(Hos(q)) \cup {e.ho}
<1>1. Len(q) \in Nat /\ Len(r) = Len(q) + 1
  BY DEF Inserted
<1>2. Inserted(Hos(r), Hos(q), i, e.ho)
  <2>1. ASSUME NEW j \in 1 .. Len(r)
        PROVE  Hos(r)[j] = IF j < i THEN Hos(q)[j] ELSE IF j = i THEN e.ho ELSE Hos(q)[j - 1]
    <3>1. Hos(r)[j] = r[j].ho /\ r[j] = IF j < i THEN q[j] ELSE IF j = i THEN e ELSE q[j - 1]
      BY <1>1, HosIs DEF Inserted
    <3>2. \A m \in 1 .. Len(q) : Hos(q)[m] = q[m].ho
      BY HosIs
    <3>3. /\ j < i => j \in 1 .. Len(q)
          /\ ~(j < i) /\ j # i => j - 1 \in 1 .. Len(q)
      BY <1>1
    <3>4. QED
      BY <3>1, <3>2, <3>3
  <2>2. QED
    BY <1>1, <2>1, HosIs DEF Inserted
<1>3. Hos(q) \in Seq(Objs) /\ Hos(r) \in Seq(Objs) /\ i \in 1 .. (Len(Hos(q)) + 1)
      /\ e.ho \notin Members(Hos(q))
  BY HosIs
<1>4. QED
  BY <1>2, <1>3, MembersInserted

(* The entry that pcy.pop takes is the victim, at one end of the queue.    *)
LEMMA PoppedIs ==
  ASSUME NEW q \in Seq(Entry), q # <<>>
  PROVE  \E i \in 1 .. Len(q) :
           /\ i = IF Policy = "LFU" THEN 1 ELSE Len(q)
           /\ Victim(q) = q[i] /\ Popped(q) \in Seq(Entry) /\ Removed(Popped(q), q, i)
<1>1. Len(q) \in Nat /\ Len(q) # 0
  OBVIOUS
<1>2. CASE Policy = "LFU"
  BY <1>1, <1>2 DEF Victim, Popped, Removed
<1>3. CASE Policy # "LFU"
  <2>1. Len(q) - 1 \in (1 - 1) .. Len(q) /\ 1 \in 1 .. (Len(q) + 1)
    BY <1>1
  <2>2. /\ Front(q) \in Seq(Entry) /\ Len(Front(q)) = (Len(q) - 1) - 1 + 1
        /\ \A k \in 1 .. ((Len(q) - 1) - 1 + 1) : Front(q)[k] = q[1 + k - 1]
    BY <2>1, SubSeqIs DEF Front
  <2>3. Front(q) \in Seq(Entry) /\ Removed(Front(q), q, Len(q))
    BY <1>1, <2>2 DEF Removed
  <2>4. QED
    BY <1>1, <1>3, <2>3 DEF Victim, Popped
<1>4. QED
  BY <1>2, <1>3

(* __queue_del takes the entry of the object.                              *)
LEMMA WithoutIs ==
  ASSUME NEW q \in Seq(Entry), NEW o, Queued(q, o)
  PROVE  \E i \in 1 .. Len(q) :
           q[i].ho = o /\ Without(q, o) \in Seq(Entry) /\ Removed(Without(q, o), q, i)
<1>1. DOMAIN q = 1 .. Len(q)
  OBVIOUS
<1>2. PICK i \in 1 .. Len(q) : i = CHOOSE m \in DOMAIN q : q[m].ho = o
  BY <1>1 DEF Queued
<1>3. q[i].ho = o /\ Without(q, o) = RemoveAt(q, i)
  BY <1>1, <1>2 DEF Queued, Without
<1>4. QED
  BY <1>3, RemoveAtIs

(* The place that the loops of __queue_push look for is the first.         *)
LEMMA FirstIs ==
  ASSUME NEW q \in Seq(Entry), NEW l \in SUBSET (1 .. Len(q))
  PROVE  /\ First(q, l) \in l \cup {Len(q) + 1}
         /\ \A m \in l \cup {Len(q) + 1} : First(q, l) <= m
<1>1. Len(q) \in Nat
  OBVIOUS
<1>2. PICK n : n = l \cup {Len(q) + 1}
  OBVIOUS
<1>3. n \subseteq Nat /\ n # {}
  <2>1. \A m \in l : m \in Nat
    BY <1>1
  <2>2. Len(q) + 1 \in Nat
    BY <1>1
  <2>3. QED
    BY <1>2, <2>1, <2>2
<1>4. \E m \in n : \A k \in n : m <= k
  BY <1>3, Least
<1>5. QED
  BY <1>2, <1>4 DEF First, Min

(* pcy.push of a new entry.                                                *)
NewEntry(o) == [ho |-> o, count |-> 0]

(* Where __queue_push puts a new object: by its priority under a custom    *)
(* policy, else at the front.                                              *)
LEMMA PushNewIs ==
  ASSUME NEW q \in Seq(Entry), NEW o \in Objs
  PROVE  \E j \in 1 .. (Len(q) + 1) :
           /\ PushNew(q, o) \in Seq(Entry) /\ Inserted(PushNew(q, o), q, j, NewEntry(o))
           /\ Policy # "CUSTOM" => j = 1
           /\ Policy = "CUSTOM" =>
                /\ \A m \in 1 .. (j - 1) : ~(Prio[o] >= Prio[q[m].ho])
                /\ j <= Len(q) => Prio[o] >= Prio[q[j].ho]
<1>1. Len(q) \in Nat /\ NewEntry(o) \in Entry
  BY DEF NewEntry, Entry
<1>2. CASE Policy = "CUSTOM"
  <2> DEFINE l == {m \in 1 .. Len(q) : Prio[o] >= Prio[q[m].ho]}
  <2>1. PICK j : j = First(q, l)
    OBVIOUS
  <2>2. j \in l \cup {Len(q) + 1} /\ \A m \in l \cup {Len(q) + 1} : j <= m
    BY <2>1, FirstIs
  <2>3. j \in 1 .. (Len(q) + 1)
    BY <1>1, <2>2
  <2>4. PushNew(q, o) = InsertAt(q, j, NewEntry(o))
    BY <1>2, <2>1 DEF PushNew, NewEntry
  <2>5. PushNew(q, o) \in Seq(Entry) /\ Inserted(PushNew(q, o), q, j, NewEntry(o))
    BY <1>1, <2>3, <2>4, InsertAtIs
  <2>6. \A m \in 1 .. (j - 1) : ~(Prio[o] >= Prio[q[m].ho])
    BY <1>1, <2>2, <2>3
  <2>7. j <= Len(q) => Prio[o] >= Prio[q[j].ho]
    BY <1>1, <2>2
  <2>8. QED
    BY <1>2, <2>3, <2>5, <2>6, <2>7
<1>3. CASE Policy # "CUSTOM"
  <2>1. PushNew(q, o) = <<NewEntry(o)>> \o q
    BY <1>3 DEF PushNew, NewEntry
  <2>2. PushNew(q, o) \in Seq(Entry) /\ Inserted(PushNew(q, o), q, 1, NewEntry(o))
    BY <1>1, <2>1, AppendIs
  <2>3. 1 \in 1 .. (Len(q) + 1)
    BY <1>1
  <2>4. QED
    BY <1>3, <2>2, <2>3
<1>4. QED
  BY <1>2, <1>3

(* ... of an entry that is in the queue: it is taken out and put back,     *)
(* with its count incremented if the policy is LFU.                        *)
Again(e) == [ho |-> e.ho, count |-> IF Policy = "LFU" THEN e.count + 1 ELSE e.count]

(* An entry looked up again: only LFU counts it.                           *)
LEMMA AgainIs ==
  ASSUME NEW e \in Entry
  PROVE  /\ Again(e) \in Entry /\ Again(e).ho = e.ho
         /\ Policy = "LFU" => Again(e) = [e EXCEPT !.count = @ + 1] /\ Again(e).count = e.count + 1
         /\ Policy # "LFU" => Again(e) = e
BY DEF Again, Entry

(* Where an entry goes when it is looked up again: behind those that are   *)
(* used no more under LFU, else to the front.                              *)
LEMMA PushAgainIs ==
  ASSUME NEW q \in Seq(Entry), NEW i \in 1 .. Len(q)
  PROVE  \E r \in Seq(Entry) : Removed(r, q, i) /\ \E j \in 1 .. (Len(r) + 1) :
           /\ PushAgain(q, i) \in Seq(Entry) /\ Inserted(PushAgain(q, i), r, j, Again(q[i]))
           /\ Policy # "LFU" => j = 1
           /\ Policy = "LFU" =>
                /\ i <= j
                /\ \A m \in i .. (j - 1) : r[m].count <= q[i].count + 1
                /\ j <= Len(r) => q[i].count + 1 < r[j].count
<1>1. Len(q) \in Nat /\ q[i] \in Entry
  OBVIOUS
<1>2. PICK r \in Seq(Entry) : r = RemoveAt(q, i) /\ Removed(r, q, i)
  BY RemoveAtIs
<1>3. Len(r) = Len(q) - 1 /\ Len(r) \in Nat
  BY <1>2 DEF Removed
<1>4. CASE Policy = "LFU"
  <2> DEFINE e == [q[i] EXCEPT !.count = @ + 1]
             l == {m \in (i + 1) .. Len(q) : e.count < q[m].count}
  <2>1. e = Again(q[i]) /\ e \in Entry /\ e.count = q[i].count + 1
    BY <1>1, <1>4, AgainIs
  <2> HIDE DEF e
  <2>2. PICK n : n = First(q, l)
    OBVIOUS
  <2>3. n \in l \cup {Len(q) + 1} /\ \A m \in l \cup {Len(q) + 1} : n <= m
    BY <2>2, FirstIs
  <2>4. n \in (i + 1) .. (Len(q) + 1)
    BY <1>1, <2>3
  <2>5. PICK j \in 1 .. (Len(r) + 1) : j = n - 1
    BY <1>3, <2>4
  <2>6. PushAgain(q, i) = InsertAt(r, j, e)
    BY <1>2, <1>4, <2>2, <2>5 DEF PushAgain, e
  <2>7. PushAgain(q, i) \in Seq(Entry) /\ Inserted(PushAgain(q, i), r, j, e)
    BY <2>1, <2>6, InsertAtIs
  <2>8. \A m \in i .. Len(r) : r[m] = q[m + 1]
    BY <1>1, <1>2, <1>3 DEF Removed
  <2>9. ASSUME NEW m \in i .. (j - 1)
        PROVE  r[m].count <= q[i].count + 1
    <3>1. m + 1 \in (i + 1) .. Len(q) /\ m + 1 < n /\ m \in i .. Len(r)
      BY <1>1, <1>3, <2>4, <2>5
    <3>2. ~(e.count < q[m + 1].count)
      BY <2>3, <3>1
    <3>3. q[m + 1].count \in Nat /\ q[i].count \in Nat
      <4>1. q[m + 1] \in Entry
        BY <1>1, <3>1
      <4>2. QED
        BY <1>1, <4>1 DEF Entry
    <3>4. r[m] = q[m + 1] /\ e.count = q[i].count + 1
      BY <2>1, <2>8, <3>1
    <3>5. PICK x \in Nat, y \in Nat : x = q[m + 1].count /\ y = q[i].count
      BY <3>3
    <3>6. ~(y + 1 < x)
      BY <3>2, <3>4, <3>5
    <3>7. x <= y + 1
      BY <3>6
    <3>8. QED
      BY <3>4, <3>5, <3>7
  <2>10. j <= Len(r) => q[i].count + 1 < r[j].count
    BY <1>1, <1>3, <2>1, <2>3, <2>4, <2>5, <2>8
  <2>11. i <= j
    BY <1>1, <2>4, <2>5
  <2>12. QED
    BY <1>2, <1>4, <2>1, <2>5, <2>7, <2>9, <2>10, <2>11
<1>5. CASE Policy # "LFU"
  <2>1. Again(q[i]) = q[i] /\ PushAgain(q, i) = <<q[i]>> \o r
    BY <1>1, <1>2, <1>5, AgainIs DEF PushAgain
  <2>2. PushAgain(q, i) \in Seq(Entry) /\ Inserted(PushAgain(q, i), r, 1, q[i])
    BY <1>1, <2>1, AppendIs
  <2>3. 1 \in 1 .. (Len(r) + 1)
    BY <1>3
  <2>4. QED
    BY <1>2, <1>5, <2>1, <2>2, <2>3
<1>6. QED
  BY <1>4, <1>5

-----------------------------------------------------------------------------
\* The queue has the order in which the objects came, or were used, in
\* reverse: FIFO and LRU.
Mirror(q, s) == Len(q) = Len(s) /\ \A i \in 1 .. Len(q) : q[i].ho = s[Len(q) + 1 - i]

(* A queue that mirrors a history does so when an object leaves both.      *)
LEMMA MirrorRemoved ==
  ASSUME NEW q \in Seq(Entry), NEW s \in Seq(Objs), NEW r \in Seq(Entry), NEW t \in Seq(Objs),
         NEW i \in 1 .. Len(q), NEW j \in 1 .. Len(s), q[i].ho = s[j], Unique(s), Mirror(q, s),
         Removed(r, q, i), Removed(t, s, j)
  PROVE  Mirror(r, t)
<1>1. Len(q) \in Nat /\ Len(s) = Len(q) /\ Len(r) = Len(q) - 1 /\ Len(t) = Len(q) - 1
  BY DEF Mirror, Removed
<1>2. j = Len(q) + 1 - i
  <2>1. Len(q) + 1 - i \in 1 .. Len(s) /\ q[i].ho = s[Len(q) + 1 - i]
    BY <1>1 DEF Mirror
  <2>2. QED
    BY <2>1 DEF Unique
<1>3. ASSUME NEW k \in 1 .. Len(r)
      PROVE  r[k].ho = t[Len(r) + 1 - k]
  <2>1. PICK m \in 1 .. Len(t) : m = Len(r) + 1 - k
    <3>1. Len(r) + 1 - k \in 1 .. Len(t)
      BY <1>1
    <3>2. QED
      BY <3>1
  <2>2. t[m] = IF m < j THEN s[m] ELSE s[m + 1]
    BY DEF Removed
  <2>3. CASE k < i
    <3>1. k \in 1 .. Len(q) /\ Len(q) + 1 - k = m + 1 /\ ~(m < j)
      BY <1>1, <1>2, <2>1, <2>3
    <3>2. r[k] = q[k] /\ q[k].ho = s[m + 1]
      BY <2>3, <3>1 DEF Removed, Mirror
    <3>3. QED
      BY <2>1, <2>2, <3>1, <3>2
  <2>4. CASE ~(k < i)
    <3>1. k + 1 \in 1 .. Len(q) /\ Len(q) + 1 - (k + 1) = m /\ m < j
      BY <1>1, <1>2, <2>1, <2>4
    <3>2. r[k] = q[k + 1]
      BY <2>4 DEF Removed
    <3>3. q[k + 1].ho = s[m]
      BY <3>1 DEF Mirror
    <3>4. QED
      BY <2>1, <2>2, <3>1, <3>2, <3>3
  <2>5. QED
    BY <2>3, <2>4
<1>4. QED
  BY <1>1, <1>3 DEF Mirror

(* And when one is pushed to the front of the queue, and is the newest of  *)
(* the history.                                                            *)
LEMMA MirrorPushed ==
  ASSUME NEW q \in Seq(Entry), NEW s \in Seq(Objs), NEW r \in Seq(Entry), NEW e \in Entry,
         Mirror(q, s), Inserted(r, q, 1, e)
  PROVE  Mirror(r, Append(s, e.ho))
<1>1. /\ Len(q) \in Nat /\ Len(s) = Len(q) /\ Len(r) = Len(q) + 1
      /\ Len(Append(s, e.ho)) = Len(q) + 1 /\ Append(s, e.ho)[Len(q) + 1] = e.ho
      /\ \A m \in 1 .. Len(q) : Append(s, e.ho)[m] = s[m]
  BY DEF Mirror, Inserted
<1>2. ASSUME NEW k \in 1 .. Len(r)
      PROVE  r[k].ho = Append(s, e.ho)[Len(r) + 1 - k]
  <2>1. CASE k = 1
    BY <1>1, <2>1 DEF Inserted
  <2>2. CASE k # 1
    <3>1. k - 1 \in 1 .. Len(q) /\ ~(k < 1)
      BY <1>1, <2>2
    <3>2. PICK m \in 1 .. Len(q) : m = Len(q) + 1 - (k - 1)
      <4>1. Len(q) + 1 - (k - 1) \in 1 .. Len(q)
        BY <1>1, <3>1
      <4>2. QED
        BY <4>1
    <3>3. r[k] = q[k - 1] /\ q[k - 1].ho = s[m]
      BY <2>2, <3>1, <3>2 DEF Inserted, Mirror
    <3>4. m = Len(r) + 1 - k
      BY <1>1, <3>2
    <3>5. QED
      BY <1>1, <3>2, <3>3, <3>4
  <2>3. QED
    BY <2>1, <2>2
<1>3. QED
  BY <1>1, <1>2 DEF Mirror

\* The queue is sorted: by the number of uses, or against the priority.
Rank(e) == IF Policy = "LFU" THEN e.count ELSE -Prio[e.ho]
Sorted(q) == \A i, j \in 1 .. Len(q) : i < j => Rank(q[i]) <= Rank(q[j])

(* What a queue is ordered by is a number.                                 *)
LEMMA RankIs ==
  ASSUME CacheAssumption, NEW e \in Entry
  PROVE  Rank(e) \in Int
BY DEF CacheAssumption, Rank, Entry

(* An ordered queue stays so without an entry.                             *)
LEMMA SortedRemoved ==
  ASSUME NEW q \in Seq(Entry), NEW r \in Seq(Entry), NEW i \in 1 .. Len(q), Removed(r, q, i), Sorted(q)
  PROVE  Sorted(r)
<1>1. Len(q) \in Nat /\ Len(r) = Len(q) - 1
  BY DEF Removed
<1>2. SUFFICES ASSUME NEW m \in 1 .. Len(r), NEW n \in 1 .. Len(r), m < n
               PROVE  Rank(r[m]) <= Rank(r[n])
  BY DEF Sorted
<1>3. PICK a \in 1 .. Len(q) : a = IF m < i THEN m ELSE m + 1
  BY <1>1
<1>4. PICK b \in 1 .. Len(q) : b = IF n < i THEN n ELSE n + 1
  BY <1>1
<1>5. r[m] = q[a] /\ r[n] = q[b] /\ a < b
  BY <1>1, <1>2, <1>3, <1>4 DEF Removed
<1>6. QED
  BY <1>5 DEF Sorted

(* And with one more, between those it ranks between.                      *)
LEMMA SortedInserted ==
  ASSUME CacheAssumption,
         NEW q \in Seq(Entry), NEW r \in Seq(Entry), NEW i \in 1 .. (Len(q) + 1), NEW e \in Entry,
         Inserted(r, q, i, e), Sorted(q),
         \A m \in 1 .. (i - 1) : Rank(q[m]) <= Rank(e),
         i <= Len(q) => Rank(e) <= Rank(q[i])
  PROVE  Sorted(r)
<1>1. Len(q) \in Nat /\ Len(r) = Len(q) + 1
  BY DEF Inserted
<1>2. SUFFICES ASSUME NEW m \in 1 .. Len(r), NEW n \in 1 .. Len(r), m < n
               PROVE  Rank(r[m]) <= Rank(r[n])
  BY DEF Sorted
<1>3. CASE m # i /\ n # i
  <2>1. PICK a \in 1 .. Len(q) : a = IF m < i THEN m ELSE m - 1
    BY <1>1, <1>3
  <2>2. PICK b \in 1 .. Len(q) : b = IF n < i THEN n ELSE n - 1
    BY <1>1, <1>3
  <2>3. r[m] = q[a] /\ r[n] = q[b] /\ a < b
    BY <1>1, <1>2, <1>3, <2>1, <2>2 DEF Inserted
  <2>4. QED
    BY <2>3 DEF Sorted
<1>4. CASE n = i
  <2>1. r[n] = e /\ r[m] = q[m] /\ m \in 1 .. (i - 1)
    BY <1>1, <1>2, <1>4 DEF Inserted
  <2>2. QED
    BY <2>1
<1>5. CASE m = i
  <2>1. PICK b \in 1 .. Len(q) : b = n - 1
    BY <1>1, <1>2, <1>5
  <2>2. r[m] = e /\ r[n] = q[b] /\ i <= b /\ i \in 1 .. Len(q)
    BY <1>1, <1>2, <1>5, <2>1 DEF Inserted
  <2>3. Rank(e) <= Rank(q[i]) /\ Rank(q[i]) <= Rank(q[b])
    <3>1. q[i] \in Entry
      BY <2>2
    <3>2. Rank(q[i]) \in Int
      BY <3>1, RankIs
    <3>3. QED
      BY <2>2, <3>2 DEF Sorted
  <2>4. Rank(e) \in Int /\ Rank(q[i]) \in Int /\ Rank(q[b]) \in Int
    <3>1. q[i] \in Entry /\ q[b] \in Entry
      BY <2>2
    <3>2. QED
      BY <3>1, RankIs
  <2>5. QED
    BY <2>2, <2>3, <2>4
<1>6. QED
  BY <1>3, <1>4, <1>5

-----------------------------------------------------------------------------
\* A list of what the map holds, each object once.
Lists(s) == s \in Seq(Objs) /\ Unique(s) /\ Members(s) = held

\* The queue against the map: no entry without an object, unless the client
\* deletes, and no object without an entry, unless it clears.
QueueKnown ==
  /\ queue \in Seq(Entry) /\ Unique(Hos(queue))
  /\ Deletes \/ Members(Hos(queue)) \subseteq held
  /\ Clears \/ held \subseteq Members(Hos(queue))

\* The whole queue has the order of the policy, so that what is left of it
\* when the victim goes has it too.
InOrder(q, came, used, n) ==
  /\ Policy = "FIFO" => Mirror(q, came)
  /\ Policy = "LRU" => Mirror(q, used)
  /\ Policy = "LFU" => Sorted(q) /\ \A i \in 1 .. Len(q) : q[i].count = n[q[i].ho]
  /\ Policy = "CUSTOM" => Sorted(q)

QueueInOrder == ~Deletes /\ ~Clears => InOrder(queue, arrival, access, uses)

CacheInv ==
  /\ CacheTypeOK /\ Lists(arrival) /\ Lists(access)
  /\ QueueKnown /\ Bounded /\ QueueInOrder

(* A history that lists each object once, without one of them.             *)
LEMMA DropKeeps ==
  ASSUME NEW s \in Seq(Objs), Unique(s), NEW o
  PROVE  /\ Drop(s, o) \in Seq(Objs) /\ Unique(Drop(s, o))
         /\ Members(Drop(s, o)) = Members(s) \ {o}
         /\ o \in Members(s) => Len(Drop(s, o)) = Len(s) - 1
         /\ o \notin Members(s) => Drop(s, o) = s
<1>1. CASE o \in Members(s)
  <2>1. PICK i \in 1 .. Len(s) : s[i] = o /\ Drop(s, o) \in Seq(Objs) /\ Removed(Drop(s, o), s, i)
    BY <1>1, DropIs
  <2>2. Members(Drop(s, o)) = Members(s) \ {o} /\ Unique(Drop(s, o))
    BY <2>1, MembersRemoved
  <2>3. QED
    BY <1>1, <2>1, <2>2 DEF Removed
<1>2. CASE o \notin Members(s)
  BY <1>2, DropIs
<1>3. QED
  BY <1>1, <1>2

(* And with a new one.                                                     *)
LEMMA AppendKeeps ==
  ASSUME NEW s \in Seq(Objs), Unique(s), NEW o \in Objs, o \notin Members(s)
  PROVE  /\ Append(s, o) \in Seq(Objs) /\ Unique(Append(s, o))
         /\ Members(Append(s, o)) = Members(s) \cup {o} /\ Len(Append(s, o)) = Len(s) + 1
<1>1. ASSUME NEW t \in Seq(Objs), NEW i \in 1 .. (Len(s) + 1), Inserted(t, s, i, o)
      PROVE  Unique(t) /\ Members(t) = Members(s) \cup {o}
  BY <1>1, MembersInserted
<1>2. Append(s, o) \in Seq(Objs) /\ Inserted(Append(s, o), s, Len(s) + 1, o)
  BY AppendIs
<1>3. Len(s) + 1 \in 1 .. (Len(s) + 1)
  OBVIOUS
<1>4. Unique(Append(s, o)) /\ Members(Append(s, o)) = Members(s) \cup {o}
  BY <1>1, <1>2, <1>3, Zenon
<1>5. Len(Append(s, o)) = Len(s) + 1
  OBVIOUS
<1>6. QED
  BY <1>2, <1>4, <1>5

(* The order of the policy survives the loss of an object ...              *)
LEMMA OrderRemoved ==
  ASSUME NEW q \in Seq(Entry), NEW came \in Seq(Objs), NEW used \in Seq(Objs), NEW n,
         Unique(came), Unique(used), InOrder(q, came, used, n),
         NEW r \in Seq(Entry), NEW i \in 1 .. Len(q), Removed(r, q, i),
         q[i].ho \in Members(came), q[i].ho \in Members(used)
  PROVE  InOrder(r, Drop(came, q[i].ho), Drop(used, q[i].ho), n)
<1>1. ASSUME NEW s \in Seq(Objs), Unique(s), q[i].ho \in Members(s), Mirror(q, s)
      PROVE  Mirror(r, Drop(s, q[i].ho))
  <2>1. PICK j \in 1 .. Len(s) : s[j] = q[i].ho /\ Drop(s, q[i].ho) \in Seq(Objs)
                                 /\ Removed(Drop(s, q[i].ho), s, j)
    BY <1>1, DropIs
  <2>2. QED
    BY <1>1, <2>1, MirrorRemoved
<1>2. Sorted(q) => Sorted(r)
  BY SortedRemoved
<1>3. ASSUME \A k \in 1 .. Len(q) : q[k].count = n[q[k].ho], NEW k \in 1 .. Len(r)
      PROVE  r[k].count = n[r[k].ho]
  <2>1. Len(q) \in Nat /\ Len(r) = Len(q) - 1
    BY DEF Removed
  <2>2. PICK m \in 1 .. Len(q) : r[k] = q[m]
    <3>1. (IF k < i THEN k ELSE k + 1) \in 1 .. Len(q)
      BY <2>1
    <3>2. r[k] = q[IF k < i THEN k ELSE k + 1]
      BY DEF Removed
    <3>3. QED
      BY <3>1, <3>2
  <2>3. QED
    BY <1>3, <2>2
<1>4. QED
  BY <1>1, <1>2, <1>3 DEF InOrder

(* ... and the arrival of one.                                             *)
LEMMA OrderPushed ==
  ASSUME CacheAssumption, NEW q \in Seq(Entry), NEW came \in Seq(Objs), NEW used \in Seq(Objs),
         NEW n \in [Objs -> Nat], NEW o \in Objs, ~Queued(q, o), InOrder(q, came, used, n)
  PROVE  InOrder(PushNew(q, o), Append(came, o), Append(used, o), [n EXCEPT ![o] = 0])
<1> DEFINE r == PushNew(q, o)
<1>1. PICK j \in 1 .. (Len(q) + 1) :
        /\ r \in Seq(Entry) /\ Inserted(r, q, j, NewEntry(o))
        /\ Policy # "CUSTOM" => j = 1
        /\ Policy = "CUSTOM" =>
             /\ \A m \in 1 .. (j - 1) : ~(Prio[o] >= Prio[q[m].ho])
             /\ j <= Len(q) => Prio[o] >= Prio[q[j].ho]
  BY PushNewIs
<1> HIDE DEF r
<1>2. NewEntry(o) \in Entry /\ NewEntry(o).ho = o /\ NewEntry(o).count = 0 /\ Len(q) \in Nat
  BY DEF NewEntry, Entry
<1>3. \A m \in 1 .. Len(q) : q[m] \in Entry /\ q[m].ho \in Objs /\ q[m].count \in Nat /\ q[m].ho # o
  <2>1. \A m \in 1 .. Len(q) : q[m] \in Entry
    OBVIOUS
  <2>2. DOMAIN q = 1 .. Len(q)
    OBVIOUS
  <2>3. QED
    BY <2>1, <2>2 DEF Queued, Entry
<1>4. CASE Policy \in {"FIFO", "LRU"}
  <2>1. \A s \in Seq(Objs) : Mirror(q, s) => Mirror(r, Append(s, o))
    BY <1>1, <1>2, <1>4, MirrorPushed
  <2>2. QED
    BY <1>4, <2>1 DEF InOrder, r
<1>5. CASE Policy = "LFU"
  <2>1. Rank(NewEntry(o)) = 0 /\ \A m \in 1 .. Len(q) : Rank(q[m]) = q[m].count
    BY <1>2, <1>5 DEF Rank
  <2>2. j = 1 /\ (1 <= Len(q) => Rank(NewEntry(o)) <= Rank(q[1]))
    <3>1. j = 1
      BY <1>1, <1>5
    <3>2. 1 <= Len(q) => 1 \in 1 .. Len(q)
      BY <1>2
    <3>3. 1 <= Len(q) => Rank(q[1]) = q[1].count /\ q[1].count \in Nat
      BY <1>3, <2>1, <3>2
    <3>4. QED
      BY <2>1, <3>1, <3>3
  <2>3. Sorted(q)
    BY <1>5 DEF InOrder
  <2>4. Sorted(r)
    BY <1>1, <1>2, <2>2, <2>3, SortedInserted
  <2>5. ASSUME NEW k \in 1 .. Len(r)
        PROVE  r[k].count = [n EXCEPT ![o] = 0][r[k].ho]
    <3>1. CASE k = 1
      BY <1>1, <1>2, <2>2, <3>1 DEF Inserted
    <3>2. CASE k # 1
      <4>1. k - 1 \in 1 .. Len(q) /\ ~(k < 1)
        BY <1>1, <1>2, <3>2 DEF Inserted
      <4>2. r[k] = q[k - 1]
        BY <1>1, <2>2, <3>2, <4>1 DEF Inserted
      <4>3. q[k - 1].count = n[q[k - 1].ho] /\ q[k - 1].ho # o /\ q[k - 1].ho \in Objs
        BY <1>3, <1>5, <4>1 DEF InOrder
      <4>4. QED
        BY <4>2, <4>3
    <3>3. QED
      BY <3>1, <3>2
  <2>6. QED
    BY <1>5, <2>4, <2>5 DEF InOrder, r
<1>6. CASE Policy = "CUSTOM"
  <2>1. Rank(NewEntry(o)) = -Prio[o] /\ \A m \in 1 .. Len(q) : Rank(q[m]) = -Prio[q[m].ho]
    BY <1>2, <1>6 DEF Rank
  <2>2. Prio[o] \in Nat /\ \A m \in 1 .. Len(q) : Prio[q[m].ho] \in Nat
    BY <1>3 DEF CacheAssumption
  <2>3. ASSUME NEW m \in 1 .. (j - 1)
        PROVE  Rank(q[m]) <= Rank(NewEntry(o))
    <3>1. m \in 1 .. Len(q)
      BY <1>1, <1>2
    <3>2. ~(Prio[o] >= Prio[q[m].ho])
      BY <1>1, <1>6
    <3>3. QED
      BY <2>1, <2>2, <3>1, <3>2
  <2>4. j <= Len(q) => Rank(NewEntry(o)) <= Rank(q[j])
    BY <1>1, <1>2, <1>6, <2>1, <2>2
  <2>5. Sorted(q)
    BY <1>6 DEF InOrder
  <2>6. Sorted(r)
    BY <1>1, <1>2, <2>3, <2>4, <2>5, SortedInserted
  <2>7. QED
    BY <1>6, <2>6 DEF InOrder, r
<1>7. QED
  BY <1>4, <1>5, <1>6 DEF InOrder

-----------------------------------------------------------------------------
(* QueueInOrder of the next state, from its variables.                     *)
LEMMA OrderPrimed ==
  ASSUME cacheClient' = cacheClient,
         ~Deletes /\ ~Clears => InOrder(queue', arrival', access', uses')
  PROVE  QueueInOrder'
<1>1. Policy' = Policy /\ Deletes' = Deletes /\ Clears' = Clears
  BY DEF Policy, Deletes, Clears
<1>2. InOrder(queue, arrival, access, uses)' <=> InOrder(queue', arrival', access', uses')
  BY <1>1 DEF InOrder, Sorted, Rank, Mirror
<1>3. QED
  BY <1>1, <1>2 DEF QueueInOrder

(* A put that succeeds: r is the queue without the entry of the object     *)
(* gone, that was overwritten or discarded, or, when gone is the new       *)
(* object, the whole queue.                                                *)
LEMMA PutKeepsCache ==
  ASSUME CacheAssumption, CacheInv, NEW o \in Objs, Fresh(o), NEW gone \in Objs, NEW r \in Seq(Entry),
         queue' = PushNew(r, o), Remember(o, gone), held' = (held \ {gone}) \cup {o},
         UNCHANGED <<cacheClient, cacheFault>>,
         \/ gone = o /\ r = queue
         \/ gone \in held /\ \E i \in 1 .. Len(queue) : queue[i].ho = gone /\ Removed(r, queue, i),
         \A p \in held \ {gone} : KeyOf[p] # KeyOf[o],
         cacheSz' \in Int, cacheSz' <= MaxElems,
         ~Clears => cacheSz' = IF gone = o THEN Len(arrival) + 1 ELSE Len(arrival)
  PROVE  CacheInv'
<1> DEFINE came == Drop(arrival, gone)
           used == Drop(access, gone)
<1>0. /\ CacheTypeOK /\ Lists(arrival) /\ Lists(access) /\ QueueKnown /\ Bounded /\ QueueInOrder
      /\ o \notin held /\ ~Queued(queue, o)
      /\ Policy' = Policy /\ Deletes' = Deletes /\ Clears' = Clears
  BY DEF CacheInv, Fresh, Policy, Deletes, Clears
<1>1. /\ came \in Seq(Objs) /\ Unique(came) /\ Members(came) = held \ {gone}
      /\ used \in Seq(Objs) /\ Unique(used) /\ Members(used) = held \ {gone}
      /\ Len(came) = IF gone = o THEN Len(arrival) ELSE Len(arrival) - 1
      /\ gone = o => came = arrival /\ used = access
  BY <1>0, DropKeeps DEF Lists
<1>2. arrival' = Append(came, o) /\ access' = Append(used, o) /\ uses' = [uses EXCEPT ![o] = 0]
  BY DEF Remember
<1> HIDE DEF came, used
<1>3. /\ Lists(arrival)' /\ Lists(access)'
      /\ Len(arrival') = Len(came) + 1
  BY <1>0, <1>1, <1>2, AppendKeeps DEF Lists
<1>4. Unique(Hos(r)) /\ Members(Hos(r)) = Members(Hos(queue)) \ {gone}
  <2>1. CASE gone = o /\ r = queue
    BY <1>0, <2>1, HosIs DEF QueueKnown
  <2>2. ASSUME NEW i \in 1 .. Len(queue), queue[i].ho = gone, Removed(r, queue, i)
        PROVE  Unique(Hos(r)) /\ Members(Hos(r)) = Members(Hos(queue)) \ {gone}
    BY <1>0, <2>2, HosRemoved DEF QueueKnown
  <2>3. QED
    BY <2>1, <2>2
<1>5. ~Queued(r, o)
  BY <1>0, <1>4, HosIs DEF QueueKnown
<1>6. PICK j \in 1 .. (Len(r) + 1) : queue' \in Seq(Entry) /\ Inserted(queue', r, j, NewEntry(o))
  BY PushNewIs
<1>7. Unique(Hos(queue')) /\ Members(Hos(queue')) = (Members(Hos(queue)) \ {gone}) \cup {o}
  <2>1. NewEntry(o) \in Entry /\ NewEntry(o).ho = o
    BY DEF NewEntry, Entry
  <2>2. QED
    BY <1>4, <1>5, <1>6, <2>1, HosInserted
<1>8. QueueKnown'
  BY <1>0, <1>6, <1>7 DEF QueueKnown, Hos
<1>9. CacheTypeOK'
  <2>1. uses' \in [Objs -> Nat] /\ held' \subseteq Objs
    BY <1>0, <1>2 DEF CacheTypeOK
  <2>2. QED
    BY <1>0, <1>3, <1>6, <2>1 DEF CacheTypeOK, Lists
<1>10. Bounded'
  <2>1. \A p, w \in held' : KeyOf[p] = KeyOf[w] => p = w
    BY <1>0 DEF Bounded
  <2>2. Len(came) \in Nat /\ Len(arrival) \in Nat
    BY <1>0, <1>1 DEF Lists
  <2>3. Clears' \/ cacheSz' = Len(arrival')
    BY <1>0, <1>1, <1>3, <2>2
  <2>4. QED
    BY <2>1, <2>3 DEF Bounded
<1>11. QueueInOrder'
  <2>1. ASSUME ~Deletes /\ ~Clears
        PROVE  InOrder(queue', arrival', access', uses')
    <3>1. InOrder(queue, arrival, access, uses)
      BY <1>0, <2>1 DEF QueueInOrder
    <3>2. InOrder(r, came, used, uses)
      <4>1. CASE gone = o /\ r = queue
        BY <1>1, <3>1, <4>1
      <4>2. ASSUME gone \in held, NEW i \in 1 .. Len(queue), queue[i].ho = gone, Removed(r, queue, i)
            PROVE  InOrder(r, came, used, uses)
        BY <1>0, <3>1, <4>2, OrderRemoved DEF QueueKnown, Lists, came, used
      <4>3. QED
        BY <4>1, <4>2
    <3>3. uses \in [Objs -> Nat]
      BY <1>0 DEF CacheTypeOK
    <3>4. QED
      BY <1>1, <1>2, <1>5, <3>2, <3>3, OrderPushed
  <2>2. QED
    BY <2>1, OrderPrimed
<1>12. QED
  BY <1>3, <1>8, <1>9, <1>10, <1>11 DEF CacheInv

\* What a put needs to know of the state.
LEMMA CacheFacts ==
  ASSUME CacheInv
  PROVE  /\ cacheSz \in Int /\ cacheSz <= MaxElems /\ cacheClient \in CacheClients
         /\ held \subseteq Objs /\ queue \in Seq(Entry)
         /\ Len(arrival) \in Nat /\ (~Clears => cacheSz = Len(arrival))
         /\ \A p, w \in held : KeyOf[p] = KeyOf[w] => p = w
         /\ \A i \in 1 .. Len(queue) : Queued(queue, queue[i].ho) /\ queue[i] \in Entry
         /\ ~Deletes => \A i \in 1 .. Len(queue) : queue[i].ho \in held
         /\ ~Clears => \A p \in held : Queued(queue, p)
<1>1. queue \in Seq(Entry) /\ DOMAIN queue = 1 .. Len(queue)
  BY DEF CacheInv, QueueKnown
<1>2. /\ \A i \in 1 .. Len(queue) : queue[i].ho \in Members(Hos(queue)) /\ queue[i] \in Entry
      /\ \A p \in Members(Hos(queue)) : Queued(queue, p)
  BY <1>1, HosIs DEF Queued
<1>3. Len(arrival) \in Nat
  BY DEF CacheInv, Lists
<1>4. QED
  BY <1>1, <1>2, <1>3 DEF CacheInv, CacheTypeOK, QueueKnown, Bounded

(* A put that finds room.                                                  *)
LEMMA PutRoomKeeps ==
  ASSUME CacheAssumption, CacheInv, NEW o \in Objs, PutRoom(o)
  PROVE  CacheInv'
<1>1. /\ queue \in Seq(Entry) /\ cacheSz \in Int /\ MaxElems \in Nat /\ Len(arrival) \in Nat
      /\ ~Clears => cacheSz = Len(arrival)
  BY CacheFacts DEF CacheAssumption
<1>2. /\ Fresh(o) /\ SameKey(o) = {} /\ cacheSz < MaxElems /\ o \notin held
      /\ held' = held \cup {o} /\ queue' = PushNew(queue, o) /\ cacheSz' = cacheSz + 1
      /\ Remember(o, o) /\ UNCHANGED <<cacheClient, cacheFault>>
  BY DEF PutRoom, HasRoom, Fresh
<1>3. held' = (held \ {o}) \cup {o}
  BY <1>2
<1>4. \A p \in held \ {o} : KeyOf[p] # KeyOf[o]
  BY <1>2 DEF SameKey
<1>5. cacheSz' \in Int /\ cacheSz' <= MaxElems /\ (~Clears => cacheSz' = Len(arrival) + 1)
  BY <1>1, <1>2
<1>6. QED
  BY <1>1, <1>2, <1>3, <1>4, <1>5, PutKeepsCache

(* A full cache: the victim is the one object that goes.                   *)
LEMMA PutFullKeeps ==
  ASSUME CacheAssumption, CacheInv, NEW o \in Objs, PutFull(o)
  PROVE  /\ CacheInv'
         /\ held \ held' = {Victim(queue).ho} /\ queue # <<>> /\ cacheSz = MaxElems
<1> DEFINE v == Victim(queue).ho
<1>1. /\ queue \in Seq(Entry) /\ cacheSz \in Int /\ cacheSz <= MaxElems /\ MaxElems \in Nat
      /\ Len(arrival) \in Nat /\ held \subseteq Objs
      /\ ~Clears => cacheSz = Len(arrival)
      /\ \A p, w \in held : KeyOf[p] = KeyOf[w] => p = w
  BY CacheFacts DEF CacheAssumption
<1>2. /\ Fresh(o) /\ SameKey(o) = {} /\ ~(cacheSz < MaxElems) /\ queue # <<>> /\ o \notin held
      /\ v \in held /\ queue' = PushNew(Popped(queue), o) /\ cacheSz' = cacheSz
      /\ UNCHANGED <<cacheClient, cacheFault>>
  BY DEF PutFull, HasRoom, Fresh
<1>3. PICK p \in SameKey(v) : held' = (held \cup {o}) \ {p} /\ Remember(o, p)
  BY DEF PutFull
<1> HIDE DEF v
<1>4. p = v /\ p \in held /\ p \in Objs /\ p # o
  BY <1>1, <1>2, <1>3 DEF SameKey
<1>5. held' = (held \ {p}) \cup {o} /\ held \ held' = {v}
  BY <1>2, <1>3, <1>4
<1>6. PICK i \in 1 .. Len(queue) :
        queue[i].ho = p /\ Popped(queue) \in Seq(Entry) /\ Removed(Popped(queue), queue, i)
  BY <1>1, <1>2, <1>4, PoppedIs DEF v
<1>7. \A w \in held \ {p} : KeyOf[w] # KeyOf[o]
  BY <1>2 DEF SameKey
<1>8. /\ cacheSz' \in Int /\ cacheSz' <= MaxElems /\ cacheSz = MaxElems
      /\ ~Clears => cacheSz' = Len(arrival)
  BY <1>1, <1>2
<1>9. CacheInv'
  BY <1>2, <1>3, <1>4, <1>5, <1>6, <1>7, <1>8, PutKeepsCache
<1>10. QED
  BY <1>2, <1>5, <1>8, <1>9 DEF v

(* A put that overwrites: the new object takes the place of the old.       *)
LEMMA PutOverKeeps ==
  ASSUME CacheAssumption, CacheInv, NEW o \in Objs, PutOver(o)
  PROVE  /\ CacheInv'
         /\ \E p \in held : held' = (held \ {p}) \cup {o} /\ KeyOf[p] = KeyOf[o] /\ o \notin held
<1>1. /\ queue \in Seq(Entry) /\ cacheSz \in Int /\ cacheSz <= MaxElems
      /\ held \subseteq Objs
      /\ ~Clears => cacheSz = Len(arrival)
      /\ \A p, w \in held : KeyOf[p] = KeyOf[w] => p = w
  BY CacheFacts
<1>2. Fresh(o) /\ o \notin held /\ UNCHANGED <<cacheClient, cacheSz, cacheFault>>
  BY DEF PutOver, Fresh
<1>3. PICK p \in SameKey(o) :
        /\ Queued(queue, p) /\ held' = (held \ {p}) \cup {o}
        /\ queue' = PushNew(Without(queue, p), o) /\ Remember(o, p)
  BY DEF PutOver
<1>4. p \in held /\ KeyOf[p] = KeyOf[o] /\ p \in Objs /\ p # o
  BY <1>1, <1>2, <1>3 DEF SameKey
<1>5. PICK i \in 1 .. Len(queue) :
        queue[i].ho = p /\ Without(queue, p) \in Seq(Entry) /\ Removed(Without(queue, p), queue, i)
  BY <1>1, <1>3, WithoutIs
<1>6. \A w \in held \ {p} : KeyOf[w] # KeyOf[o]
  BY <1>1, <1>4
<1>7. cacheSz' \in Int /\ cacheSz' <= MaxElems /\ (~Clears => cacheSz' = Len(arrival))
  BY <1>1, <1>2
<1>8. CacheInv'
  BY <1>2, <1>3, <1>4, <1>5, <1>6, <1>7, PutKeepsCache
<1>9. QED
  BY <1>2, <1>3, <1>4, <1>8

(* A put into a cache that was cleared and whose count is at the limit:    *)
(* without a u_hmap_clear no object is held without an entry.              *)
LEMMA StrandedKeeps ==
  ASSUME CacheAssumption, CacheInv, NEW o \in Objs, PutStranded(o)
  PROVE  CacheInv' /\ held \subseteq held'
<1>1. /\ CacheTypeOK /\ Lists(arrival) /\ Lists(access) /\ QueueKnown /\ Bounded
      /\ SameKey(o) = {} /\ ~(cacheSz < MaxElems) /\ queue = <<>> /\ o \notin held
      /\ held' = held \cup {o} /\ Remember(o, o)
      /\ UNCHANGED <<cacheClient, queue, cacheSz, cacheFault>>
      /\ Policy' = Policy /\ Deletes' = Deletes /\ Clears' = Clears
  BY DEF PutStranded, HasRoom, Fresh, CacheInv, Policy, Deletes, Clears
<1>2. Clears
  <2>1. SUFFICES ASSUME ~Clears
                 PROVE  FALSE
    OBVIOUS
  <2>2. Len(arrival) >= 1 /\ Members(arrival) = held
    BY <1>1, <2>1, CacheFacts DEF CacheAssumption, Lists
  <2>3. arrival[1] \in held
    BY <2>2 DEF Members
  <2>4. Queued(queue, arrival[1])
    BY <2>1, <2>3, CacheFacts
  <2>5. QED
    BY <1>1, <2>4 DEF Queued
<1>3. Drop(arrival, o) = arrival /\ Drop(access, o) = access
  BY <1>1, DropKeeps DEF Lists
<1>4. arrival' = Append(arrival, o) /\ access' = Append(access, o) /\ uses' = [uses EXCEPT ![o] = 0]
  BY <1>1, <1>3 DEF Remember
<1>5. Lists(arrival)' /\ Lists(access)'
  BY <1>1, <1>4, AppendKeeps DEF Lists
<1>6. CacheTypeOK'
  BY <1>1, <1>4, <1>5 DEF CacheTypeOK, Lists
<1>7. QueueKnown'
  BY <1>1, <1>2 DEF QueueKnown
<1>8. Bounded'
  BY <1>1, <1>2 DEF Bounded, SameKey
<1>9. QueueInOrder'
  BY <1>1, <1>2 DEF QueueInOrder
<1>10. QED
  BY <1>1, <1>5, <1>6, <1>7, <1>8, <1>9 DEF CacheInv

(* A lookup: what it pushes again stays one entry, where the policy wants  *)
(* it.                                                                     *)
LEMMA OrderAgain ==
  ASSUME CacheAssumption, NEW q \in Seq(Entry), NEW came \in Seq(Objs), NEW used \in Seq(Objs),
         NEW n \in [Objs -> Nat], Unique(used), Unique(Hos(q)), InOrder(q, came, used, n),
         Policy \in {"LRU", "LFU"},
         NEW i \in 1 .. Len(q), q[i].ho \in Members(used)
  PROVE  InOrder(PushAgain(q, i), came, Append(Drop(used, q[i].ho), q[i].ho),
                 [n EXCEPT ![q[i].ho] = @ + 1])
<1> DEFINE o == q[i].ho
<1>1. PICK r \in Seq(Entry) : Removed(r, q, i) /\ \E j \in 1 .. (Len(r) + 1) :
           /\ PushAgain(q, i) \in Seq(Entry) /\ Inserted(PushAgain(q, i), r, j, Again(q[i]))
           /\ Policy # "LFU" => j = 1
           /\ Policy = "LFU" =>
                /\ i <= j
                /\ \A m \in i .. (j - 1) : r[m].count <= q[i].count + 1
                /\ j <= Len(r) => q[i].count + 1 < r[j].count
  BY PushAgainIs
<1>2. PICK j \in 1 .. (Len(r) + 1) :
           /\ PushAgain(q, i) \in Seq(Entry) /\ Inserted(PushAgain(q, i), r, j, Again(q[i]))
           /\ Policy # "LFU" => j = 1
           /\ Policy = "LFU" =>
                /\ i <= j
                /\ \A m \in i .. (j - 1) : r[m].count <= q[i].count + 1
                /\ j <= Len(r) => q[i].count + 1 < r[j].count
  BY <1>1
<1>3. q[i] \in Entry /\ o \in Objs /\ Len(q) \in Nat /\ Len(r) = Len(q) - 1
  <2>1. q[i] \in Entry
    OBVIOUS
  <2>2. Len(q) \in Nat /\ Len(r) = Len(q) - 1
    BY <1>1 DEF Removed
  <2>3. o \in Objs
    BY <2>1 DEF Entry
  <2>4. QED
    BY <2>1, <2>2, <2>3
<1>4. Again(q[i]) \in Entry /\ Again(q[i]).ho = o
  BY <1>3, AgainIs
<1>5. CASE Policy = "LRU"
  <2>1. PICK k \in 1 .. Len(used) : used[k] = o /\ Drop(used, o) \in Seq(Objs)
                                    /\ Removed(Drop(used, o), used, k)
    BY DropIs
  <2>2. Mirror(q, used)
    BY <1>5 DEF InOrder
  <2>3. Mirror(r, Drop(used, o))
    BY <1>1, <2>1, <2>2, MirrorRemoved
  <2>4. Mirror(PushAgain(q, i), Append(Drop(used, o), o))
    BY <1>2, <1>4, <1>5, <2>1, <2>3, MirrorPushed
  <2>5. QED
    BY <1>5, <2>4 DEF InOrder
<1>6. CASE Policy = "LFU"
  <2>1. Sorted(q) /\ \A k \in 1 .. Len(q) : q[k].count = n[q[k].ho]
    BY <1>6 DEF InOrder
  <2>2. Sorted(r)
    BY <1>1, <2>1, SortedRemoved
  <2>3. Again(q[i]).count = q[i].count + 1 /\ Rank(Again(q[i])) = q[i].count + 1
        /\ Rank(q[i]) = q[i].count /\ q[i].count \in Nat
    BY <1>3, <1>6 DEF Again, Rank, Entry
  <2>4. ASSUME NEW m \in 1 .. (j - 1)
        PROVE  Rank(r[m]) <= Rank(Again(q[i]))
    <3>1. m \in 1 .. Len(r) /\ m \in 1 .. Len(q)
      BY <1>3
    <3>2. CASE m < i
      <4>1. r[m] = q[m] /\ q[m] \in Entry
        BY <1>1, <3>1, <3>2 DEF Removed
      <4>2. Rank(q[m]) <= Rank(q[i]) /\ Rank(q[m]) \in Int
        BY <2>1, <3>1, <3>2, <4>1, RankIs DEF Sorted
      <4>3. QED
        BY <2>3, <4>1, <4>2
    <3>3. CASE ~(m < i)
      <4>1. m \in i .. (j - 1)
        BY <3>1, <3>3
      <4>2. r[m].count <= q[i].count + 1
        BY <1>2, <1>6, <4>1
      <4>3. QED
        BY <1>6, <2>3, <4>2 DEF Rank
    <3>4. QED
      BY <3>2, <3>3
  <2>5. ASSUME j <= Len(r)
        PROVE  Rank(Again(q[i])) <= Rank(r[j])
    <3>1. q[i].count + 1 < r[j].count /\ r[j] \in Entry
      BY <1>2, <1>3, <1>6, <2>5
    <3>2. r[j].count \in Nat
      BY <3>1 DEF Entry
    <3>3. QED
      BY <1>6, <2>3, <3>1, <3>2 DEF Rank
  <2>6. Sorted(PushAgain(q, i))
    BY <1>2, <1>4, <2>2, <2>4, <2>5, SortedInserted
  <2>7. ASSUME NEW k \in 1 .. Len(PushAgain(q, i))
        PROVE  PushAgain(q, i)[k].count = [n EXCEPT ![o] = @ + 1][PushAgain(q, i)[k].ho]
    <3>1. Len(PushAgain(q, i)) = Len(r) + 1
      BY <1>2 DEF Inserted
    <3>2. CASE k = j
      BY <1>2, <1>3, <1>4, <2>1, <2>3, <3>2 DEF Inserted
    <3>3. CASE k # j
      <4>1. PICK m \in 1 .. Len(r) : PushAgain(q, i)[k] = r[m]
        <5>1. (IF k < j THEN k ELSE k - 1) \in 1 .. Len(r)
          BY <1>3, <3>1, <3>3
        <5>2. PushAgain(q, i)[k] = r[IF k < j THEN k ELSE k - 1]
          BY <1>2, <3>3 DEF Inserted
        <5>3. QED
          BY <5>1, <5>2
      <4>2. PICK l \in 1 .. Len(q) : r[m] = q[l] /\ l # i
        <5>1. (IF m < i THEN m ELSE m + 1) \in (1 .. Len(q)) \ {i}
          BY <1>3
        <5>2. r[m] = q[IF m < i THEN m ELSE m + 1]
          BY <1>1 DEF Removed
        <5>3. QED
          BY <5>1, <5>2
      <4>3. q[l].ho # o /\ q[l].ho \in Objs
        <5>1. /\ Len(Hos(q)) = Len(q) /\ Hos(q)[l] = q[l].ho /\ Hos(q)[i] = q[i].ho
              /\ q[l] \in Entry
          BY HosIs
        <5>2. QED
          BY <4>2, <5>1 DEF Unique, Entry
      <4>4. QED
        BY <2>1, <4>1, <4>2, <4>3
    <3>4. QED
      BY <3>2, <3>3
  <2>8. QED
    BY <1>6, <2>6, <2>7 DEF InOrder
<1>7. QED
  BY <1>5, <1>6

(* A lookup.                                                               *)
LEMMA GetKeeps ==
  ASSUME CacheAssumption, CacheInv, NEW o \in Objs, CacheGet(o)
  PROVE  CacheInv' /\ held' = held
<1>1. /\ CacheTypeOK /\ Lists(arrival) /\ Lists(access) /\ QueueKnown /\ Bounded
      /\ o \in held /\ held' = held /\ arrival' = arrival
      /\ access' = Append(Drop(access, o), o) /\ uses' = [uses EXCEPT ![o] = @ + 1]
      /\ UNCHANGED <<cacheClient, cacheSz, cacheFault>>
      /\ Policy' = Policy /\ Deletes' = Deletes /\ Clears' = Clears
  BY DEF CacheGet, CacheInv, Policy, Deletes, Clears
<1>2. Lists(arrival)' /\ Lists(access)'
  <2>1. /\ Drop(access, o) \in Seq(Objs) /\ Unique(Drop(access, o))
        /\ Members(Drop(access, o)) = held \ {o}
    BY <1>1, DropKeeps DEF Lists
  <2>2. /\ access' \in Seq(Objs) /\ Unique(access')
        /\ Members(access') = (held \ {o}) \cup {o}
    BY <1>1, <2>1, AppendKeeps
  <2>3. QED
    BY <1>1, <2>2 DEF Lists
<1>3. uses \in [Objs -> Nat] /\ uses' \in [Objs -> Nat]
  BY <1>1 DEF CacheTypeOK
<1>4. Bounded'
  BY <1>1 DEF Bounded
<1>5. CASE Policy \notin {"LRU", "LFU"}
  <2>1. queue' = queue
    BY <1>5 DEF CacheGet
  <2>2. CacheTypeOK' /\ QueueKnown'
    BY <1>1, <1>2, <1>3, <2>1 DEF CacheTypeOK, QueueKnown, Lists
  <2>3. QueueInOrder'
    BY <1>1, <1>5, <2>1, OrderPrimed DEF CacheInv, QueueInOrder, InOrder
  <2>4. QED
    BY <1>1, <1>2, <1>4, <2>2, <2>3 DEF CacheInv
<1>6. CASE Policy \in {"LRU", "LFU"} /\ Queued(queue, o)
  <2>1. DOMAIN queue = 1 .. Len(queue)
    BY <1>1 DEF QueueKnown
  <2>2. PICK i \in 1 .. Len(queue) : i = CHOOSE m \in DOMAIN queue : queue[m].ho = o
    BY <1>6, <2>1 DEF Queued
  <2>3. queue[i].ho = o /\ queue' = PushAgain(queue, i)
    BY <1>6, <2>1, <2>2 DEF Queued, CacheGet
  <2>4. PICK r \in Seq(Entry) : Removed(r, queue, i) /\ \E j \in 1 .. (Len(r) + 1) :
           queue' \in Seq(Entry) /\ Inserted(queue', r, j, Again(queue[i]))
    BY <1>1, <2>3, PushAgainIs DEF QueueKnown
  <2>5. PICK j \in 1 .. (Len(r) + 1) : queue' \in Seq(Entry) /\ Inserted(queue', r, j, Again(queue[i]))
    BY <2>4
  <2>6. Unique(Hos(r)) /\ Members(Hos(r)) = Members(Hos(queue)) \ {o}
    BY <1>1, <2>3, <2>4, HosRemoved DEF QueueKnown
  <2>7. ~Queued(r, o)
    BY <2>6, HosIs
  <2>8. Again(queue[i]) \in Entry /\ Again(queue[i]).ho = o
    <3>1. queue[i] \in Entry
      BY <1>1 DEF QueueKnown
    <3>2. QED
      BY <2>3, <3>1, AgainIs
  <2>9. Unique(Hos(queue')) /\ Members(Hos(queue')) = (Members(Hos(queue)) \ {o}) \cup {o}
    BY <2>5, <2>6, <2>7, <2>8, HosInserted
  <2>10. QueueKnown'
    BY <1>1, <2>5, <2>9 DEF QueueKnown, Hos
  <2>11. CacheTypeOK'
    BY <1>1, <1>2, <1>3, <2>5 DEF CacheTypeOK, Lists
  <2>12. QueueInOrder'
    <3>1. ASSUME ~Deletes /\ ~Clears
          PROVE  InOrder(queue', arrival', access', uses')
      <4>1. InOrder(queue, arrival, access, uses)
        BY <3>1 DEF CacheInv, QueueInOrder
      <4>2. InOrder(PushAgain(queue, i), arrival, Append(Drop(access, queue[i].ho), queue[i].ho),
                    [uses EXCEPT ![queue[i].ho] = @ + 1])
        BY <1>1, <1>3, <1>6, <2>3, <4>1, OrderAgain DEF QueueKnown, Lists
      <4>3. QED
        BY <1>1, <2>3, <4>2
    <3>2. QED
      BY <1>1, <3>1, OrderPrimed
  <2>13. QED
    BY <1>1, <1>2, <1>4, <2>10, <2>11, <2>12 DEF CacheInv
<1>7. CASE Policy \in {"LRU", "LFU"} /\ ~Queued(queue, o)
  <2>1. queue' = PushNew(queue, o)
    BY <1>7 DEF CacheGet
  <2>2. Clears /\ o \in Objs
    BY <1>1, <1>7, CacheFacts
  <2>3. PICK j \in 1 .. (Len(queue) + 1) :
          queue' \in Seq(Entry) /\ Inserted(queue', queue, j, NewEntry(o))
    BY <1>1, <2>1, PushNewIs DEF QueueKnown
  <2>4. NewEntry(o) \in Entry /\ NewEntry(o).ho = o
    BY DEF NewEntry, Entry
  <2>5. Unique(Hos(queue')) /\ Members(Hos(queue')) = Members(Hos(queue)) \cup {o}
    BY <1>1, <1>7, <2>3, <2>4, HosInserted DEF QueueKnown
  <2>6. QueueKnown'
    BY <1>1, <2>2, <2>3, <2>5 DEF QueueKnown, Hos
  <2>7. CacheTypeOK'
    BY <1>1, <1>2, <1>3, <2>3 DEF CacheTypeOK, Lists
  <2>8. QueueInOrder'
    BY <1>1, <2>2 DEF QueueInOrder
  <2>9. QED
    BY <1>1, <1>2, <1>4, <2>6, <2>7, <2>8 DEF CacheInv
<1>8. QED
  BY <1>1, <1>5, <1>6, <1>7

(* The calls that take objects out leave a queue that matches no longer.   *)
LEMMA CacheDelKeeps ==
  ASSUME CacheAssumption, CacheInv, NEW o \in Objs, CacheDel(o)
  PROVE  CacheInv' /\ Deletes /\ cacheSz' < cacheSz
<1>1. /\ CacheTypeOK /\ Lists(arrival) /\ Lists(access) /\ QueueKnown /\ Bounded /\ Deletes
      /\ o \in held /\ held' = held \ {o} /\ cacheSz' = cacheSz - 1
      /\ arrival' = Drop(arrival, o) /\ access' = Drop(access, o)
      /\ UNCHANGED <<cacheClient, queue, cacheFault, uses>>
      /\ Policy' = Policy /\ Deletes' = Deletes /\ Clears' = Clears
  BY DEF CacheDel, CacheInv, Policy, Deletes, Clears
<1>2. Lists(arrival)' /\ Lists(access)' /\ Len(arrival') = Len(arrival) - 1
  BY <1>1, DropKeeps DEF Lists
<1>4. CacheTypeOK'
  BY <1>1, <1>2 DEF CacheTypeOK, Lists
<1>5. QueueKnown'
  BY <1>1 DEF QueueKnown
<1>6. cacheSz' <= MaxElems
  <2>1. cacheSz \in Int /\ cacheSz <= MaxElems /\ MaxElems \in Nat
    BY <1>1 DEF Bounded, CacheTypeOK, CacheAssumption
  <2>2. QED
    BY <1>1, <2>1
<1>7. Bounded'
  BY <1>1, <1>2, <1>6 DEF Bounded
<1>8. QueueInOrder'
  BY <1>1 DEF QueueInOrder
<1>9. cacheSz' < cacheSz
  BY <1>1 DEF CacheTypeOK
<1>10. QED
  BY <1>1, <1>2, <1>4, <1>5, <1>7, <1>8, <1>9 DEF CacheInv

(* A clearing.                                                             *)
LEMMA CacheClearKeeps ==
  ASSUME CacheInv, CacheClear
  PROVE  CacheInv' /\ Clears /\ held' = {}
<1>1. /\ CacheTypeOK /\ Bounded /\ Clears
      /\ held' = {} /\ queue' = <<>> /\ arrival' = <<>> /\ access' = <<>>
      /\ UNCHANGED <<cacheClient, cacheSz, cacheFault, uses>>
      /\ Policy' = Policy /\ Deletes' = Deletes /\ Clears' = Clears
  BY DEF CacheClear, CacheInv, Policy, Deletes, Clears
<1>2. Lists(arrival)' /\ Lists(access)'
  BY <1>1 DEF Lists, Unique, Members
<1>3. CacheTypeOK'
  BY <1>1 DEF CacheTypeOK
<1>4. QueueKnown'
  BY <1>1 DEF QueueKnown, Hos, Unique, Members
<1>5. Bounded' /\ QueueInOrder'
  BY <1>1 DEF Bounded, QueueInOrder
<1>6. QED
  BY <1>1, <1>2, <1>3, <1>4, <1>5 DEF CacheInv

(* After a fault nothing moves.                                            *)
LEMMA FaultKeeps ==
  ASSUME CacheInv, cacheFault' \in BOOLEAN, UNCHANGED <<cacheClient, held, queue, cacheSz, history>>
  PROVE  CacheInv'
<1>1. UNCHANGED <<cacheClient, held, queue, cacheSz, arrival, access, uses>>
  BY DEF history
<1>2. CacheTypeOK' /\ Lists(arrival)' /\ Lists(access)' /\ Bounded'
  BY <1>1 DEF CacheInv, CacheTypeOK, Lists, Bounded, Clears
<1>3. QueueKnown'
  BY <1>1 DEF CacheInv, QueueKnown, Deletes, Clears
<1>4. QueueInOrder'
  BY <1>1, OrderPrimed DEF CacheInv, QueueInOrder
<1>5. QED
  BY <1>2, <1>3, <1>4 DEF CacheInv

(* A new cache is in order.                                                *)
LEMMA CacheStarts ==
  ASSUME CacheAssumption, CacheInit
  PROVE  CacheInv
<1>1. /\ cacheClient \in CacheClients /\ held = {} /\ queue = <<>> /\ cacheSz = 0 /\ cacheFault = FALSE
      /\ arrival = <<>> /\ access = <<>> /\ uses \in [Objs -> Nat]
  BY DEF CacheInit
<1>2. CacheTypeOK
  <2>1. queue \in Seq(Entry) /\ arrival \in Seq(Objs) /\ access \in Seq(Objs)
    BY <1>1
  <2>2. held \subseteq Objs /\ cacheSz \in Int
    BY <1>1
  <2>3. cacheFault \in BOOLEAN
    BY <1>1, Zenon
  <2>4. QED
    BY <1>1, <2>1, <2>2, <2>3 DEF CacheTypeOK
<1>3. Bounded
  <2>1. Len(arrival) = 0 /\ MaxElems \in Nat
    BY <1>1 DEF CacheAssumption
  <2>2. QED
    BY <1>1, <2>1 DEF Bounded
<1>4. Lists(arrival) /\ Lists(access)
  BY <1>1 DEF Lists, Unique, Members
<1>5. QueueKnown
  BY <1>1 DEF QueueKnown, Hos, Unique, Members
<1>6. QueueInOrder
  BY <1>1 DEF QueueInOrder, InOrder, Mirror, Sorted
<1>7. QED
  BY <1>2, <1>3, <1>4, <1>5, <1>6 DEF CacheInv

(* What leaves the cache in one step, as DiscardsOne says.                 *)
Discards ==
  \A o \in held \ held' :
    \/ \E p \in held' \ held : KeyOf[p] = KeyOf[o]
    \/ queue # <<>> /\ o = Victim(queue).ho /\ cacheSz = MaxElems
    \/ Deletes /\ cacheSz' < cacheSz
    \/ Clears /\ held' = {}

(* Every call leaves the cache in order, and discards only the victim of   *)
(* its policy.                                                             *)
LEMMA CacheMovesOn ==
  ASSUME CacheAssumption, CacheInv, [CacheNext]_cacheVars
  PROVE  CacheInv' /\ Discards
<1>1. ASSUME NEW o \in Objs, PutRoom(o)
      PROVE  CacheInv' /\ Discards
  <2>1. held \ held' = {}
    BY <1>1 DEF PutRoom
  <2>2. QED
    BY <1>1, <2>1, PutRoomKeeps DEF Discards
<1>2. ASSUME NEW o \in Objs, PutFull(o)
      PROVE  CacheInv' /\ Discards
  BY <1>2, PutFullKeeps DEF Discards
<1>3. ASSUME NEW o \in Objs, PutStranded(o)
      PROVE  CacheInv' /\ Discards
  BY <1>3, StrandedKeeps DEF Discards
<1>4. ASSUME NEW o \in Objs, PutOver(o)
      PROVE  CacheInv' /\ Discards
  BY <1>4, PutOverKeeps DEF Discards
<1>5. ASSUME NEW o \in Objs, CacheGet(o)
      PROVE  CacheInv' /\ Discards
  BY <1>5, GetKeeps DEF Discards
<1>6. ASSUME NEW o \in Objs, CacheDel(o)
      PROVE  CacheInv' /\ Discards
  BY <1>6, CacheDelKeeps DEF Discards
<1>7. CASE CacheClear
  BY <1>7, CacheClearKeeps DEF Discards
<1>8. ASSUME NEW o \in Objs, PutFault(o) \/ PutOverFault(o)
      PROVE  CacheInv' /\ Discards
  BY <1>8, FaultKeeps DEF PutFault, PutOverFault, Discards
<1>9. CASE UNCHANGED cacheVars
  <2>1. cacheFault' \in BOOLEAN /\ UNCHANGED <<cacheClient, held, queue, cacheSz, history>>
    BY <1>9 DEF cacheVars, history, CacheInv, CacheTypeOK
  <2>2. QED
    BY <2>1, FaultKeeps DEF Discards
<1>10. QED
  BY <1>1, <1>2, <1>3, <1>4, <1>5, <1>6, <1>7, <1>8, <1>9 DEF CacheNext

(* The end of the queue that is popped, in each order.                     *)
LEMMA VictimIsRight ==
  ASSUME CacheAssumption, CacheInv
  PROVE  RightVictim
<1>1. SUFFICES ASSUME queue # <<>>, ~Deletes, ~Clears
               PROVE  LET v == Victim(queue).ho
                      IN /\ Policy = "FIFO" => v = arrival[1]
                         /\ Policy = "LRU" => v = access[1]
                         /\ Policy = "LFU" => \A o \in held : uses[v] <= uses[o]
                         /\ Policy = "CUSTOM" => \A o \in held : Prio[v] <= Prio[o]
  BY DEF RightVictim
<1> DEFINE v == Victim(queue).ho
<1>2. InOrder(queue, arrival, access, uses) /\ queue \in Seq(Entry) /\ Len(queue) \in Nat \ {0}
      /\ DOMAIN queue = 1 .. Len(queue)
  <2>1. InOrder(queue, arrival, access, uses) /\ queue \in Seq(Entry)
    BY <1>1 DEF CacheInv, QueueInOrder, QueueKnown
  <2>2. QED
    BY <1>1, <2>1
<1>3. \A o \in held : \E i \in 1 .. Len(queue) : queue[i].ho = o
  BY <1>1, <1>2, CacheFacts DEF Queued
<1>4. \A i \in 1 .. Len(queue) : queue[i] \in Entry /\ Rank(queue[i]) \in Int
  BY <1>2, RankIs
<1>5. CASE Policy \in {"FIFO", "LRU"}
  <2>1. ASSUME NEW s, Mirror(queue, s)
        PROVE  v = s[1]
    BY <1>2, <1>5, <2>1 DEF Victim, Mirror
  <2>2. QED
    BY <1>2, <1>5, <2>1 DEF InOrder
<1>6. CASE Policy = "LFU"
  <2>1. Sorted(queue) /\ \A i \in 1 .. Len(queue) : queue[i].count = uses[queue[i].ho]
    BY <1>2, <1>6 DEF InOrder
  <2>2. ASSUME NEW i \in 1 .. Len(queue)
        PROVE  uses[v] <= uses[queue[i].ho]
    <3>1. 1 \in 1 .. Len(queue) /\ v = queue[1].ho
      BY <1>2, <1>6 DEF Victim
    <3>2. Rank(queue[1]) <= Rank(queue[i])
      BY <1>2, <1>4, <2>1, <3>1 DEF Sorted
    <3>3. QED
      BY <1>6, <2>1, <3>1, <3>2 DEF Rank
  <2>3. QED
    BY <1>3, <1>6, <2>2
<1>7. CASE Policy = "CUSTOM"
  <2>1. Sorted(queue)
    BY <1>2, <1>7 DEF InOrder
  <2>2. ASSUME NEW i \in 1 .. Len(queue)
        PROVE  Prio[v] <= Prio[queue[i].ho]
    <3>1. Len(queue) \in 1 .. Len(queue) /\ v = queue[Len(queue)].ho
      BY <1>2, <1>7 DEF Victim
    <3>2. Rank(queue[i]) <= Rank(queue[Len(queue)])
      BY <1>2, <1>4, <2>1, <3>1 DEF Sorted
    <3>3. -Prio[queue[i].ho] <= -Prio[v]
      BY <1>7, <3>1, <3>2 DEF Rank
    <3>4. Prio[v] \in Nat /\ Prio[queue[i].ho] \in Nat
      BY <1>4, <3>1 DEF Entry, CacheAssumption
    <3>5. QED
      BY <3>3, <3>4
  <2>3. QED
    BY <1>3, <1>7, <2>2
<1>8. QED
  BY <1>5, <1>6, <1>7

(* So the cache always is.                                                 *)
LEMMA CacheStates ==
  ASSUME CacheAssumption
  PROVE  CacheSpec => []CacheInv
<1>1. CacheInit => CacheInv
  BY CacheStarts
<1>2. CacheInv /\ [CacheNext]_cacheVars => CacheInv'
  BY CacheMovesOn
<1>3. QED
  BY <1>1, <1>2, PTL DEF CacheSpec

(* Under each discard policy, the queue mirrors the table and names the    *)
(* right victim, and the cache stays within opts->max.                     *)
THEOREM CacheMirrored ==
  ASSUME CacheAssumption
  PROVE  CacheSpec => []CacheSound
<1>1. CacheInv => CacheSound
  <2>1. SUFFICES ASSUME CacheInv
                 PROVE  QueueMatches
    BY VictimIsRight DEF CacheInv, CacheSound
  <2>2. queue \in Seq(Entry) /\ Unique(Hos(queue)) /\ DOMAIN queue = 1 .. Len(queue)
    BY <2>1 DEF CacheInv, QueueKnown
  <2>3. \A i, j \in 1 .. Len(queue) : queue[i].ho = queue[j].ho => i = j
    BY <2>2, HosIs DEF Unique
  <2>4. QED
    BY <2>1, <2>2, <2>3, CacheFacts DEF QueueMatches
<1>2. QED
  BY <1>1, CacheStates, PTL

(* A put discards no more than the one object that the policy names, and   *)
(* only when the cache is full.                                            *)
THEOREM DiscardsTheVictim ==
  ASSUME CacheAssumption
  PROVE  CacheSpec => DiscardsOne
<1>1. CacheInv /\ [CacheNext]_cacheVars => [Discards]_cacheVars
  BY CacheMovesOn
<1>2. QED
  BY <1>1, CacheStates, PTL DEF CacheSpec, DiscardsOne, Discards

(* A client that neither deletes nor clears never makes the cache          *)
(* dereference an object that was freed, or an entry that is missing.      *)
THEOREM CacheNeverFaults ==
  ASSUME CacheAssumption
  PROVE  CacheSpec => [](~Deletes /\ ~Clears => NoUseAfterFree)
<1> DEFINE Safe == ~Deletes /\ ~Clears => NoUseAfterFree
<1>1. CacheInit => Safe
  BY DEF CacheInit, NoUseAfterFree
<1>2. CacheInv /\ Safe /\ [CacheNext]_cacheVars => Safe'
  <2> SUFFICES ASSUME CacheInv, Safe, [CacheNext]_cacheVars, ~Deletes', ~Clears'
               PROVE  ~cacheFault'
    BY DEF NoUseAfterFree
  <2>1. cacheClient' = cacheClient
    BY DEF CacheNext, PutRoom, PutFull, PutStranded, PutFault, PutOver, PutOverFault, CacheGet,
           CacheDel, CacheClear, cacheVars
  <2>2. ~Deletes /\ ~Clears /\ ~cacheFault
    BY <2>1 DEF Deletes, Clears, NoUseAfterFree
  <2>3. ASSUME NEW o \in Objs, PutFault(o)
        PROVE  FALSE
    <3>1. queue \in Seq(Entry) /\ queue # <<>> /\ Victim(queue).ho \notin held
      BY <2>3, CacheFacts DEF PutFault
    <3>2. PICK i \in 1 .. Len(queue) : Victim(queue) = queue[i]
      BY <3>1, PoppedIs
    <3>3. QED
      BY <2>2, <3>1, <3>2, CacheFacts
  <2>4. ASSUME NEW o \in Objs, PutOverFault(o)
        PROVE  FALSE
    BY <2>2, <2>4, CacheFacts DEF PutOverFault, SameKey
  <2>5. QED
    BY <2>2, <2>3, <2>4 DEF CacheNext, PutRoom, PutFull, PutStranded, PutOver, CacheGet,
                            CacheDel, CacheClear, cacheVars
<1> HIDE DEF Safe
<1>3. CacheSpec => []Safe
  BY <1>1, <1>2, CacheStates, PTL DEF CacheSpec
<1>4. QED
  BY <1>3 DEF Safe
=============================================================================
