---------------------------- MODULE QueueProofs ----------------------------
(***************************************************************************)
(* Proofs about Ring and PQueue.  The counters and the memory of rb.c are  *)
(* right for every size and every sequence of calls.  The priority queue   *)
(* of pqueue.c is a heap, and a bag from which the highest item goes       *)
(* first, for every capacity, every set of items and every assignment of   *)
(* keys.                                                                   *)
(***************************************************************************)
EXTENDS Ring, PQueue, SeqLemmas, SequenceTheorems, FiniteSetTheorems

-----------------------------------------------------------------------------
(* The ring buffer.                                                        *)

(* What % sz does to an offset that went at most once around the buffer.   *)
LEMMA ModOnce ==
  ASSUME NEW s \in Nat \ {0}, NEW x \in 0..(2 * s - 1)
  PROVE  x % s = IF x < s THEN x ELSE x - s
<1>1. x % s \in 0..(s - 1) /\ x = s * (x \div s) + (x % s) /\ x \div s \in Int
  BY Z3
<1>2. PICK z \in Int : z = x \div s
  BY <1>1
<1>3. PICK r \in Int : r = x % s
  BY <1>1
<1>4. r >= 0 /\ r < s /\ x = s * z + r
  BY <1>1, <1>2, <1>3
<1>5. z = 0 \/ z = 1
  <2>1. CASE z < 0
    BY <1>4, <2>1, Z3
  <2>2. CASE z > 1
    BY <1>4, <2>2, Z3
  <2>3. QED
    BY <2>1, <2>2
<1>6. QED
  BY <1>3, <1>4, <1>5

Cell == Byte \cup {Junk}

(* Neither part is inductive alone: a write stays inside the memory        *)
(* because the counters agree, and the counters agree because each call    *)
(* moves them by what it copied.                                           *)
RingInv == TypeOK /\ OffsetsAgree /\ Mirrored

-----------------------------------------------------------------------------
(* The data passed to u_rb_write is a sequence of bytes.                   *)
LEMMA RequestSeq ==
  ASSUME NEW b \in Requests
  PROVE  b \in Seq(Byte) /\ Len(b) \in Nat /\ \A i \in 1..Len(b) : b[i] \in Byte
<1>1. PICK n \in 0..MaxLen : b \in [1..n -> Byte]
  BY DEF Requests
<1>2. n \in Nat
  BY MaxLenAssumption
<1>3. b \in Seq(Byte)
  BY <1>1, <1>2
<1>4. QED
  BY <1>3

(* U_MIN never gives more than either argument.                            *)
LEMMA MinProps ==
  ASSUME NEW m \in Nat, NEW n \in Nat
  PROVE  Min2(m, n) \in Nat /\ Min2(m, n) <= m /\ Min2(m, n) <= n
BY DEF Min2

(* memcpy writes the n addresses from off on and no other.                 *)
LEMMA CopyProps ==
  ASSUME NEW m \in [Address -> Cell], NEW off \in Nat, NEW from \in Nat, NEW n \in Nat,
         NEW b \in Seq(Byte), from + n <= Len(b)
  PROVE  /\ Copy(m, off, b, from, n) \in [Address -> Cell]
         /\ \A i \in Address :
              IF off <= i /\ i < off + n
              THEN /\ Copy(m, off, b, from, n)[i] = b[i - off + from + 1]
                   /\ b[i - off + from + 1] \in Byte
              ELSE Copy(m, off, b, from, n)[i] = m[i]
<1>1. ASSUME NEW i \in Address, off <= i, i < off + n
      PROVE  b[i - off + from + 1] \in Byte
  <2>1. i \in Int
    BY SizeAssumption DEF Address
  <2>2. i - off + from + 1 \in 1..Len(b)
    BY <1>1, <2>1
  <2>3. QED
    BY <2>2
<1>2. QED
  BY <1>1 DEF Copy, Cell

(* What cell i, whose twin is j, holds once n bytes of b are written: the  *)
(* write offset may point into either half, and the bytes may cross into   *)
(* the other one.                                                          *)
Landed(i, j, b, n) ==
  IF wr_off <= i /\ i < wr_off + n THEN b[i - wr_off + 1]
  ELSE IF wr_off <= j /\ j < wr_off + n THEN b[j - wr_off + 1]
  ELSE mem[i]

(* A write through write_contiguous, either variant: the n bytes go where  *)
(* the write offset points and, at the same time, to the other half.       *)
LEMMA ContiguousMem ==
  ASSUME RingInv, Contiguous, NEW b \in Seq(Byte), NEW n \in Nat,
         n <= Len(b), n <= Size - ready, WriteContiguous(b, n)
  PROVE  /\ mem' \in [Address -> Cell]
         /\ \A i \in 0..(Size - 1) : /\ mem'[i] \in Byte /\ mem'[i + Size] = mem'[i]
                                     /\ mem'[i] = Landed(i, i + Size, b, n)
<1> DEFINE w == Copy(mem, wr_off, b, 0, n)
<1>1. /\ Size \in Nat /\ Size > 0 /\ wr_off \in Nat /\ rd_off \in Nat /\ ready \in Nat
      /\ mem \in [Address -> Cell]
      /\ wr_off = rd_off + ready /\ rd_off < Size /\ ready <= Size
  BY SizeAssumption DEF RingInv, TypeOK, OffsetsAgree, Cell
<1>2. wr_off + n < 2 * Size
  BY <1>1
<1>3. \A i \in 0..(Size - 1) : i \in Address /\ i + Size \in Address
  BY <1>1 DEF Address
<1>4. \A i \in 0..(Size - 1) : mem[i] \in Byte /\ mem[i + Size] = mem[i]
  BY DEF RingInv, Mirrored
<1>5. /\ w \in [Address -> Cell]
      /\ \A i \in Address :
           IF wr_off <= i /\ i < wr_off + n
           THEN w[i] = b[i - wr_off + 1] /\ b[i - wr_off + 1] \in Byte
           ELSE w[i] = mem[i]
  <2>1. /\ w \in [Address -> Cell]
        /\ \A i \in Address :
             IF wr_off <= i /\ i < wr_off + n
             THEN w[i] = b[i - wr_off + 0 + 1] /\ b[i - wr_off + 0 + 1] \in Byte
             ELSE w[i] = mem[i]
    BY <1>1, CopyProps
  <2>2. \A i \in Address : i - wr_off + 0 + 1 = i - wr_off + 1
    BY <1>1 DEF Address
  <2>3. QED
    BY <2>1, <2>2
<1> HIDE DEF w
<1>6. ASSUME NEW i \in 0..(Size - 1), NEW j \in Address, j = i + Size
      PROVE  /\ i \in Address /\ i \in Nat /\ i < Size /\ j \in Nat
             /\ mem[i] \in Byte
             /\ IF wr_off <= i /\ i < wr_off + n
                THEN w[i] = b[i - wr_off + 1] /\ w[i] \in Byte
                ELSE w[i] = mem[i]
             /\ IF wr_off <= j /\ j < wr_off + n
                THEN w[j] = b[j - wr_off + 1] /\ w[j] \in Byte
                ELSE w[j] = mem[i]
  <2>1. i \in Address /\ i \in Nat /\ i < Size /\ j \in Nat
    BY <1>1, <1>3, <1>6
  <2>2. mem[i] \in Byte /\ mem[j] = mem[i]
    BY <1>4, <1>6
  <2>3. QED
    BY <1>5, <2>1, <2>2
<1>7. SUFFICES /\ mem' \in [Address -> Cell]
               /\ \A i \in 0..(Size - 1) : \A j \in Address :
                    j = i + Size => /\ mem'[i] \in Byte /\ mem'[j] = mem'[i]
                                    /\ mem'[i] = Landed(i, j, b, n)
  <2>1. ASSUME NEW i \in 0..(Size - 1),
               \A j \in Address : j = i + Size => /\ mem'[i] \in Byte /\ mem'[j] = mem'[i]
                                                  /\ mem'[i] = Landed(i, j, b, n)
        PROVE  /\ mem'[i] \in Byte /\ mem'[i + Size] = mem'[i]
               /\ mem'[i] = Landed(i, i + Size, b, n)
    BY <1>3, <2>1
  <2>2. QED
    BY <2>1
<1>8. CASE "MALLOC" \in opts
  <2>1. mem' = Mirror(w, b, n)
    BY <1>8 DEF WriteContiguous, w
  <2>2. CASE wr_off + n <= Size
    <3>1. mem' = Copy(w, wr_off + Size, b, 0, n)
      BY <2>1, <2>2 DEF Mirror
    <3>2. /\ mem' \in [Address -> Cell]
          /\ \A i \in Address :
               IF wr_off + Size <= i /\ i < wr_off + Size + n
               THEN mem'[i] = b[i - (wr_off + Size) + 1]
               ELSE mem'[i] = w[i]
      BY <1>1, <1>5, <3>1, CopyProps DEF Address
    <3>3. ASSUME NEW i \in 0..(Size - 1), NEW j \in Address, j = i + Size
          PROVE  /\ mem'[i] \in Byte /\ mem'[j] = mem'[i]
                 /\ mem'[i] = Landed(i, j, b, n)
      <4>0. i \in Address /\ i \in Nat /\ i < Size /\ j \in Nat
        BY <1>6, <3>3
      <4>1. mem'[i] = w[i]
        <5>1. ~(wr_off + Size <= i)
          BY <1>1, <4>0
        <5>2. QED
          BY <3>2, <4>0, <5>1
      <4>2. /\ j - (wr_off + Size) + 1 = i - wr_off + 1
            /\ wr_off + Size <= j /\ j < wr_off + Size + n
                 <=> wr_off <= i /\ i < wr_off + n
            /\ ~(wr_off <= j /\ j < wr_off + n)
        BY <1>1, <2>2, <3>3, <4>0
      <4>3. mem'[j] = IF wr_off <= i /\ i < wr_off + n
                      THEN b[i - wr_off + 1] ELSE w[j]
        BY <3>2, <4>2
      <4>4. QED
        BY <1>6, <3>3, <4>1, <4>2, <4>3 DEF Landed
    <3>4. QED
      BY <3>2, <3>3
  <2>3. CASE ~(wr_off + n <= Size) /\ wr_off >= Size
    <3>1. mem' = Copy(w, wr_off - Size, b, 0, n)
      BY <2>1, <2>3 DEF Mirror
    <3>2. /\ mem' \in [Address -> Cell]
          /\ \A i \in Address :
               IF wr_off - Size <= i /\ i < wr_off - Size + n
               THEN mem'[i] = b[i - (wr_off - Size) + 1] /\ mem'[i] \in Byte
               ELSE mem'[i] = w[i]
      <4>1. PICK off \in Nat : off = wr_off - Size
        BY <1>1, <2>3
      <4>2. /\ Copy(w, off, b, 0, n) \in [Address -> Cell]
            /\ \A i \in Address :
                 IF off <= i /\ i < off + n
                 THEN /\ Copy(w, off, b, 0, n)[i] = b[i - off + 0 + 1]
                      /\ b[i - off + 0 + 1] \in Byte
                 ELSE Copy(w, off, b, 0, n)[i] = w[i]
        <5>1. w \in [Address -> Cell] /\ 0 \in Nat /\ 0 + n <= Len(b)
          BY <1>5
        <5>2. QED
          BY <5>1, CopyProps
      <4>3. \A i \in Address : i - off + 0 + 1 = i - off + 1
        BY <1>1 DEF Address
      <4>4. QED
        BY <3>1, <4>1, <4>2, <4>3
    <3>3. ASSUME NEW i \in 0..(Size - 1), NEW j \in Address, j = i + Size
          PROVE  /\ mem'[i] \in Byte /\ mem'[j] = mem'[i]
                 /\ mem'[i] = Landed(i, j, b, n)
      <4>0. i \in Address /\ i \in Nat /\ i < Size /\ j \in Nat
        BY <1>6, <3>3
      <4>1. /\ i - (wr_off - Size) + 1 = j - wr_off + 1
            /\ wr_off - Size <= i /\ i < wr_off - Size + n
                 <=> wr_off <= j /\ j < wr_off + n
            /\ ~(wr_off - Size <= j /\ j < wr_off - Size + n)
            /\ ~(wr_off <= i)
        BY <1>1, <1>2, <2>3, <3>3, <4>0
      <4>2. mem'[j] = w[j]
        BY <3>2, <4>1
      <4>3. IF wr_off <= j /\ j < wr_off + n
            THEN mem'[i] = b[j - wr_off + 1] /\ mem'[i] \in Byte
            ELSE mem'[i] = w[i]
        BY <1>6, <3>2, <3>3, <4>1
      <4>4. QED
        BY <1>6, <3>3, <4>1, <4>2, <4>3 DEF Landed
    <3>4. QED
      BY <3>2, <3>3
  <2>4. CASE ~(wr_off + n <= Size) /\ ~(wr_off >= Size)
    <3>1. PICK left \in Nat : left = Size - wr_off
      BY <1>1, <2>4
    <3>2. PICK right \in Nat : right = n - left
      BY <1>1, <2>4, <3>1
    <3>3. PICK w1 : w1 = Copy(w, wr_off + Size, b, 0, left)
      OBVIOUS
    <3>4. mem' = Copy(w1, 0, b, left, right)
      BY <2>1, <2>4, <3>1, <3>2, <3>3 DEF Mirror
    <3>5. left <= Len(b) /\ left + right <= Len(b) /\ right < Size
      BY <1>1, <2>4, <3>1, <3>2
    <3>6. /\ w1 \in [Address -> Cell]
          /\ \A i \in Address :
               IF wr_off + Size <= i /\ i < wr_off + Size + left
               THEN w1[i] = b[i - (wr_off + Size) + 1]
               ELSE w1[i] = w[i]
      <4>1. wr_off + Size \in Nat /\ 0 \in Nat /\ 0 + left <= Len(b)
        BY <1>1, <3>1, <3>5
      <4>2. /\ w1 \in [Address -> Cell]
            /\ \A i \in Address :
                 IF wr_off + Size <= i /\ i < wr_off + Size + left
                 THEN w1[i] = b[i - (wr_off + Size) + 0 + 1]
                 ELSE w1[i] = w[i]
        BY <1>5, <3>3, <4>1, CopyProps
      <4>3. QED
        BY <1>1, <4>2 DEF Address
    <3>7. /\ mem' \in [Address -> Cell]
          /\ \A i \in Address :
               IF i < right
               THEN mem'[i] = b[i + left + 1] /\ mem'[i] \in Byte
               ELSE mem'[i] = w1[i]
      <4>1. /\ mem' \in [Address -> Cell]
            /\ \A i \in Address :
                 IF 0 <= i /\ i < 0 + right
                 THEN /\ mem'[i] = b[i - 0 + left + 1]
                      /\ b[i - 0 + left + 1] \in Byte
                 ELSE mem'[i] = w1[i]
        <5>1. w1 \in [Address -> Cell] /\ 0 \in Nat /\ left + right <= Len(b)
          BY <3>5, <3>6
        <5>2. /\ Copy(w1, 0, b, left, right) \in [Address -> Cell]
              /\ \A i \in Address :
                   IF 0 <= i /\ i < 0 + right
                   THEN /\ Copy(w1, 0, b, left, right)[i] = b[i - 0 + left + 1]
                        /\ b[i - 0 + left + 1] \in Byte
                   ELSE Copy(w1, 0, b, left, right)[i] = w1[i]
          BY <5>1, CopyProps
        <5>3. QED
          BY <3>4, <5>2
      <4>2. QED
        BY <1>1, <4>1 DEF Address
    <3>8. ASSUME NEW i \in 0..(Size - 1), NEW j \in Address, j = i + Size
          PROVE  /\ mem'[i] \in Byte /\ mem'[j] = mem'[i]
                 /\ mem'[i] = Landed(i, j, b, n)
      <4>0. i \in Address /\ i \in Nat /\ i < Size /\ j \in Nat
        BY <1>6, <3>8
      <4>1. /\ j - (wr_off + Size) + 1 = i - wr_off + 1
            /\ j - wr_off + 1 = i + left + 1
            /\ wr_off + Size <= j /\ j < wr_off + Size + left <=> wr_off <= i
            /\ ~(wr_off + Size <= i) /\ ~(j < right)
            /\ wr_off <= j /\ j < wr_off + n <=> i < right
            /\ i < wr_off + n
            /\ i < right => ~(wr_off <= i)
        BY <1>1, <1>2, <2>4, <3>1, <3>2, <3>5, <3>8, <4>0
      <4>2. IF i < right
            THEN mem'[i] = b[i + left + 1] /\ mem'[i] \in Byte
            ELSE mem'[i] = w[i]
        BY <1>6, <3>6, <3>7, <3>8, <4>1
      <4>3. mem'[j] = IF wr_off <= i THEN b[i - wr_off + 1] ELSE w[j]
        BY <3>6, <3>7, <4>1
      <4>4. QED
        BY <1>6, <3>8, <4>1, <4>2, <4>3 DEF Landed
    <3>9. QED
      BY <3>7, <3>8
  <2>5. QED
    BY <2>2, <2>3, <2>4
<1>9. CASE "MALLOC" \notin opts
  <2>1. mem' = Twin(w, n)
    BY <1>9 DEF WriteContiguous, w
  <2>2. \A i \in Address : (IF i < Size THEN i + Size ELSE i - Size) \in Address
    BY <1>1 DEF Address
  <2>3. mem' \in [Address -> Cell]
    BY <1>5, <2>1, <2>2 DEF Twin
  <2>4. ASSUME NEW i \in 0..(Size - 1), NEW j \in Address, j = i + Size
        PROVE  /\ mem'[i] \in Byte /\ mem'[j] = mem'[i]
               /\ mem'[i] = Landed(i, j, b, n)
    <3>1. ~(j < Size) /\ j - Size = i /\ i < Size
      BY <1>1, <1>6, <2>4
    <3>2. mem'[i] = IF wr_off <= j /\ j < wr_off + n THEN w[j] ELSE w[i]
      BY <1>6, <2>1, <2>4, <3>1 DEF Twin
    <3>3. mem'[j] = IF wr_off <= i /\ i < wr_off + n THEN w[i] ELSE w[j]
      BY <1>6, <2>1, <3>1 DEF Twin
    <3>4. ~((wr_off <= i /\ i < wr_off + n) /\ (wr_off <= j /\ j < wr_off + n))
      BY <1>1, <1>6, <2>4
    <3>5. QED
      BY <1>6, <2>4, <3>2, <3>3, <3>4 DEF Landed
  <2>5. QED
    BY <2>3, <2>4
<1>10. QED
  BY <1>8, <1>9

(* The memory of a wrapped buffer: bytes, and nothing written beyond them. *)
Inside(m) ==
  /\ m \in [Address -> Cell]
  /\ \A a \in Address : IF a < Size THEN m[a] \in Byte ELSE m[a] = Junk

(* A memcpy that ends within the buffer leaves what lies beyond alone.     *)
LEMMA CopyInside ==
  ASSUME NEW m, Inside(m), NEW off \in Nat, NEW from \in Nat, NEW n \in Nat,
         NEW b \in Seq(Byte), from + n <= Len(b), off + n <= Size
  PROVE  Inside(Copy(m, off, b, from, n))
<1>1. PICK c : c = Copy(m, off, b, from, n)
  OBVIOUS
<1>2. /\ c \in [Address -> Cell]
      /\ \A a \in Address : IF off <= a /\ a < off + n THEN c[a] \in Byte
                                                       ELSE c[a] = m[a]
  <2>1. m \in [Address -> Cell]
    BY DEF Inside
  <2>2. /\ c \in [Address -> Cell]
        /\ \A a \in Address : IF off <= a /\ a < off + n
                              THEN /\ c[a] = b[a - off + from + 1]
                                   /\ b[a - off + from + 1] \in Byte
                              ELSE c[a] = m[a]
    BY <1>1, <2>1, CopyProps
  <2>3. QED
    BY <2>2
<1>3. ASSUME NEW a \in Address
      PROVE  IF a < Size THEN c[a] \in Byte ELSE c[a] = Junk
  <2>1. ~(a < Size) => ~(off <= a /\ a < off + n)
    BY SizeAssumption DEF Address
  <2>2. QED
    BY <1>2, <2>1 DEF Inside
<1>4. QED
  BY <1>1, <1>2, <1>3 DEF Inside

(* A write through write_wrapped, in one piece or in two, ends within the  *)
(* buffer: in one piece either because the tail is large enough or because *)
(* the free space lies between the write and the read offset.              *)
LEMMA WrappedMem ==
  ASSUME RingInv, ~Contiguous, NEW b \in Seq(Byte), NEW n \in Nat,
         n <= Len(b), n <= Size - ready, WriteWrapped(b, n)
  PROVE  /\ mem' \in [Address -> Cell]
         /\ \A i \in 0..(Size - 1) : /\ mem'[i] \in Byte /\ mem'[i + Size] = Junk
                                     /\ mem'[i] = Landed(i, i + Size, b, n)
<1>1. /\ Size \in Nat /\ Size > 0 /\ wr_off \in Nat /\ rd_off \in Nat /\ ready \in Nat
      /\ rd_off < Size /\ wr_off < Size /\ ready <= Size
      /\ wr_off = rd_off + ready \/ wr_off = rd_off + ready - Size
  <2>1. wr_off \in Nat /\ rd_off \in Nat /\ ready \in Nat
    BY DEF RingInv, TypeOK
  <2>2. /\ rd_off < Size /\ wr_off < Size /\ ready <= Size
        /\ wr_off \in {rd_off + ready, rd_off + ready - Size}
    BY DEF RingInv, OffsetsAgree
  <2>3. QED
    BY SizeAssumption, <2>1, <2>2
<1>2. Inside(mem)
  <2>1. mem \in [Address -> Cell]
    BY DEF RingInv, TypeOK, Cell
  <2>2. \A i \in 0..(Size - 1) : mem[i] \in Byte /\ mem[i + Size] = Junk
    BY DEF RingInv, Mirrored
  <2>3. ASSUME NEW a \in Address
        PROVE  IF a < Size THEN mem[a] \in Byte ELSE mem[a] = Junk
    <3>1. CASE a < Size
      BY <1>1, <2>2, <3>1 DEF Address
    <3>2. CASE ~(a < Size)
      <4>1. PICK i \in 0..(Size - 1) : i = a - Size
        BY <1>1, <3>2 DEF Address
      <4>2. i + Size = a
        BY <1>1, <4>1 DEF Address
      <4>3. QED
        BY <2>2, <3>2, <4>2
    <3>3. QED
      BY <3>1, <3>2
  <2>4. QED
    BY <2>1, <2>3 DEF Inside
<1>3. PICK rspace \in Nat : rspace = Size - wr_off
  BY <1>1
<1>4. Inside(mem')
  <2>1. CASE IsWrapped \/ rspace >= n
    <3>1. mem' = Copy(mem, wr_off, b, 0, n)
      BY <1>3, <2>1 DEF WriteWrapped, Store
    <3>2. wr_off + n <= Size /\ 0 + n <= Len(b)
      BY <1>1, <1>3, <2>1 DEF IsWrapped
    <3>3. QED
      BY <1>1, <1>2, <3>1, <3>2, CopyInside
  <2>2. CASE ~(IsWrapped \/ rspace >= n)
    <3>1. PICK rest \in Nat : rest = n - rspace
      BY <1>3, <2>2
    <3>2. PICK c : c = Copy(mem, wr_off, b, 0, rspace)
      OBVIOUS
    <3>3. mem' = Copy(c, 0, b, rspace, rest)
      BY <1>3, <2>2, <3>1, <3>2 DEF WriteWrapped, Store
    <3>4. /\ wr_off + rspace <= Size /\ 0 + rspace <= Len(b)
          /\ 0 + rest <= Size /\ rspace + rest <= Len(b)
      BY <1>1, <1>3, <2>2, <3>1
    <3>5. Inside(c)
      BY <1>1, <1>2, <3>2, <3>4, CopyInside
    <3>6. QED
      BY <3>3, <3>4, <3>5, CopyInside
  <2>3. QED
    BY <2>1, <2>2
<1>5. ASSUME NEW i \in 0..(Size - 1)
      PROVE  mem'[i] \in Byte /\ mem'[i + Size] = Junk
  <2>1. /\ i \in Address /\ i < Size
        /\ i + Size \in Address /\ ~(i + Size < Size)
    BY <1>1 DEF Address
  <2>2. QED
    BY <1>4, <2>1 DEF Inside
<1>6. ASSUME NEW i \in 0..(Size - 1)
      PROVE  mem'[i] = Landed(i, i + Size, b, n)
  <2>0. i \in Address /\ i \in Nat /\ i < Size /\ mem \in [Address -> Cell]
    BY <1>1, <1>2 DEF Address, Inside
  <2>1. CASE IsWrapped \/ rspace >= n
    <3>1. mem' = Copy(mem, wr_off, b, 0, n) /\ wr_off + n <= Size
      BY <1>1, <1>3, <2>1 DEF WriteWrapped, Store, IsWrapped
    <3>2. mem'[i] = IF wr_off <= i /\ i < wr_off + n THEN b[i - wr_off + 1] ELSE mem[i]
      BY <1>1, <2>0, <3>1 DEF Copy
    <3>3. ~(i + Size < wr_off + n)
      BY <1>1, <2>0, <3>1
    <3>4. ~(wr_off <= i + Size /\ i + Size < wr_off + n)
      BY <3>3
    <3>5. QED
      BY <3>2, <3>4 DEF Landed
  <2>2. CASE ~(IsWrapped \/ rspace >= n)
    <3>1. mem' = Copy(Copy(mem, wr_off, b, 0, rspace), 0, b, rspace, n - rspace)
      BY <1>3, <2>2 DEF WriteWrapped, Store
    <3>2. mem'[i] = IF i < n - rspace THEN b[i + rspace + 1]
                    ELSE IF wr_off <= i /\ i < wr_off + rspace THEN b[i - wr_off + 1] ELSE mem[i]
      BY <1>1, <1>3, <2>0, <3>1 DEF Copy
    <3>3. /\ i < n - rspace <=> wr_off <= i + Size /\ i + Size < wr_off + n
          /\ i + rspace + 1 = i + Size - wr_off + 1
          /\ i < n - rspace => ~(wr_off <= i)
          /\ i < wr_off + rspace /\ i < wr_off + n
      BY <1>1, <1>3, <2>0, <2>2
    <3>4. CASE i < n - rspace
      BY <1>1, <1>3, <2>0, <3>2, <3>3, <3>4 DEF Landed
    <3>5. CASE ~(i < n - rspace)
      BY <3>2, <3>3, <3>5 DEF Landed
    <3>6. QED
      BY <3>4, <3>5
  <2>3. QED
    BY <2>1, <2>2
<1>7. QED
  BY <1>4, <1>5, <1>6 DEF Inside

-----------------------------------------------------------------------------
(* What a read copies out are cells of the memory: it never goes past the  *)
(* second half.                                                            *)
LEMMA ReadCells ==
  ASSUME RingInv, NEW n \in Nat, n <= ready
  PROVE  Bytes(n) \in Seq(Cell) /\ Stored(n) \in Seq(Cell)
<1>1. /\ Size \in Nat /\ Size > 0 /\ rd_off \in Nat /\ ready \in Nat
      /\ mem \in [Address -> Cell] /\ rd_off < Size /\ ready <= Size
  BY SizeAssumption DEF RingInv, TypeOK, OffsetsAgree, Cell
<1>2. ASSUME NEW i \in 1..n
      PROVE  rd_off + i - 1 \in Address /\ (rd_off + i - 1) % Size \in Address
  <2>1. PICK x \in 0..(2 * Size - 1) : x = rd_off + i - 1
    BY <1>1
  <2>2. x % Size = IF x < Size THEN x ELSE x - Size
    BY <1>1, ModOnce
  <2>3. QED
    BY <1>1, <2>1, <2>2 DEF Address
<1>3. Bytes(n) \in [1..n -> Cell] /\ Stored(n) \in [1..n -> Cell]
  BY <1>1, <1>2 DEF Bytes, Stored
<1>4. QED
  BY <1>3

(* u_rb_create establishes the invariant.                                  *)
LEMMA InitRingInv == Init => RingInv
<1> SUFFICES ASSUME Init PROVE RingInv
  OBVIOUS
<1>1. Size \in Nat /\ Size > 0
  BY SizeAssumption
<1>2. mem \in [Address -> Cell]
  BY ByteAssumption DEF Init, Cell
<1>3. TypeOK
  BY <1>2 DEF Init, TypeOK, Cell
<1>4. OffsetsAgree
  BY <1>1 DEF Init, OffsetsAgree
<1>5. ASSUME NEW i \in 0..(Size - 1)
      PROVE  /\ mem[i] \in Byte
             /\ mem[i + Size] = IF Contiguous THEN mem[i] ELSE Junk
  <2>1. i \in Address /\ i + Size \in Address /\ i < Size /\ ~(i + Size < Size)
    BY <1>1 DEF Address
  <2>2. QED
    BY <2>1, ByteAssumption DEF Init
<1>6. QED
  BY <1>3, <1>4, <1>5 DEF RingInv, Mirrored

-----------------------------------------------------------------------------
(* u_rb_write, through whichever method the buffer has.                    *)
LEMMA WriteRingInv ==
  ASSUME RingInv, NEW b \in Requests, Write(b)
  PROVE  RingInv'
<1>1. /\ b \in Seq(Byte) /\ Len(b) \in Nat
  BY RequestSeq
<1>2. /\ Size \in Nat /\ Size > 0 /\ wr_off \in Nat /\ rd_off \in Nat /\ ready \in Nat
      /\ rd_off < Size /\ ready <= Size
  BY SizeAssumption DEF RingInv, TypeOK, OffsetsAgree
<1>3. PICK n \in Nat : n = Min2(Avail, Len(b)) /\ n <= Size - ready /\ n <= Len(b)
  <2>1. Avail \in Nat /\ Avail = Size - ready
    BY <1>2 DEF Avail
  <2>2. QED
    BY <1>1, <2>1, MinProps
<1>4. /\ IF Contiguous THEN WriteContiguous(b, n) ELSE WriteWrapped(b, n)
      /\ ready' = ready + n /\ ret' = n /\ out' = <<>> /\ expect' = <<>>
      /\ opts' = opts /\ rd_off' = rd_off /\ fault' = fault
  BY <1>3 DEF Write
<1>5. Contiguous' <=> Contiguous
  BY <1>4 DEF Contiguous
<1>6. /\ mem' \in [Address -> Cell]
      /\ \A i \in 0..(Size - 1) :
           mem'[i] \in Byte /\ mem'[i + Size] = IF Contiguous THEN mem'[i] ELSE Junk
  BY <1>1, <1>3, <1>4, ContiguousMem, WrappedMem
<1>7. wr_off' \in Nat /\ OffsetsAgree'
  <2>1. CASE Contiguous
    <3>1. wr_off = rd_off + ready
      BY <2>1 DEF RingInv, OffsetsAgree
    <3>2. wr_off' = wr_off + n
      BY <1>4, <2>1 DEF WriteContiguous
    <3>3. QED
      BY <1>2, <1>3, <1>4, <1>5, <2>1, <3>1, <3>2 DEF OffsetsAgree
  <2>2. CASE ~Contiguous
    <3>1. wr_off < Size /\ wr_off \in {rd_off + ready, rd_off + ready - Size}
      BY <2>2 DEF RingInv, OffsetsAgree
    <3>2. wr_off' = (wr_off + n) % Size
      BY <1>4, <2>2 DEF WriteWrapped
    <3>3. PICK x \in 0..(2 * Size - 1) : x = wr_off + n
      BY <1>2, <1>3, <3>1
    <3>4. wr_off' = IF x < Size THEN x ELSE x - Size
      BY <1>2, <3>2, <3>3, ModOnce
    <3>5. /\ wr_off' \in Nat /\ wr_off' < Size
          /\ wr_off' = rd_off + (ready + n) \/ wr_off' = rd_off + (ready + n) - Size
      <4>1. wr_off = rd_off + ready \/ wr_off = rd_off + ready - Size
        BY <3>1
      <4>2. CASE x < Size
        <5>1. wr_off' = wr_off + n /\ wr_off' < Size /\ wr_off' \in Nat
          BY <1>2, <3>3, <3>4, <4>2
        <5>2. QED
          BY <1>2, <4>1, <5>1
      <4>3. CASE ~(x < Size)
        <5>1. wr_off' = wr_off + n - Size /\ wr_off' < Size /\ wr_off' \in Nat
          BY <1>2, <3>3, <3>4, <4>3
        <5>2. wr_off = rd_off + ready
          BY <1>2, <1>3, <3>3, <4>1, <4>3
        <5>3. QED
          BY <1>2, <5>1, <5>2
      <4>4. QED
        BY <4>2, <4>3
    <3>6. QED
      BY <1>2, <1>3, <1>4, <1>5, <2>2, <3>5 DEF OffsetsAgree
  <2>3. QED
    BY <2>1, <2>2
<1>8. TypeOK'
  <2>1. opts' \in Options /\ fault' \in {"none", "overrun", "null_call"}
    BY <1>4 DEF RingInv, TypeOK
  <2>2. rd_off' \in Nat /\ ready' \in Nat /\ ret' \in Int
    BY <1>2, <1>3, <1>4
  <2>3. QED
    BY <1>4, <1>6, <1>7, <2>1, <2>2 DEF TypeOK, Cell
<1>9. Mirrored'
  BY <1>5, <1>6 DEF Mirrored
<1>10. QED
  BY <1>7, <1>8, <1>9 DEF RingInv

(* u_rb_read and u_rb_fast_read.                                           *)
LEMMA ReadRingInv ==
  ASSUME RingInv, NEW want \in Nat, Read(want)
  PROVE  RingInv'
<1>1. /\ Size \in Nat /\ Size > 0 /\ wr_off \in Nat /\ rd_off \in Nat /\ ready \in Nat
      /\ rd_off < Size /\ ready <= Size
  BY SizeAssumption DEF RingInv, TypeOK, OffsetsAgree
<1>2. PICK n \in Nat : n = Min2(ready, want) /\ n <= ready
  BY <1>1, MinProps
<1>3. /\ IF Contiguous THEN ReadIncr(n)
         ELSE rd_off' = (rd_off + n) % Size /\ wr_off' = wr_off
      /\ out' = Bytes(n) /\ expect' = Stored(n)
      /\ ready' = ready - n /\ ret' = n
      /\ opts' = opts /\ mem' = mem /\ fault' = fault
  BY <1>2 DEF Read
<1>4. Contiguous' <=> Contiguous
  BY <1>3 DEF Contiguous
<1>5. wr_off' \in Nat /\ rd_off' \in Nat /\ OffsetsAgree'
  <2>1. CASE Contiguous
    <3>1. wr_off = rd_off + ready
      BY <2>1 DEF RingInv, OffsetsAgree
    <3>2. ReadIncr(n)
      BY <1>3, <2>1
    <3>3. /\ wr_off' \in Nat /\ rd_off' \in Nat /\ rd_off' < Size
          /\ wr_off' = rd_off' + (ready - n)
      BY <1>1, <1>2, <3>1, <3>2 DEF ReadIncr
    <3>4. QED
      BY <1>1, <1>2, <1>3, <1>4, <2>1, <3>3 DEF OffsetsAgree
  <2>2. CASE ~Contiguous
    <3>1. wr_off < Size /\ wr_off \in {rd_off + ready, rd_off + ready - Size}
      BY <2>2 DEF RingInv, OffsetsAgree
    <3>2. rd_off' = (rd_off + n) % Size /\ wr_off' = wr_off
      BY <1>3, <2>2
    <3>3. PICK x \in 0..(2 * Size - 1) : x = rd_off + n
      BY <1>1, <1>2
    <3>4. rd_off' = IF x < Size THEN x ELSE x - Size
      BY <1>1, <3>2, <3>3, ModOnce
    <3>5. /\ rd_off' \in Nat /\ rd_off' < Size
          /\ wr_off' = rd_off' + (ready - n) \/ wr_off' = rd_off' + (ready - n) - Size
      <4>1. PICK r \in Nat : r = rd_off' /\ r < Size
        <5>1. CASE x < Size
          BY <1>1, <3>3, <3>4, <5>1
        <5>2. CASE ~(x < Size)
          <6>1. x - Size \in Nat /\ x - Size < Size
            BY <1>1, <3>3, <5>2
          <6>2. QED
            BY <3>4, <5>2, <6>1
        <5>3. QED
          BY <5>1, <5>2
      <4>2. wr_off = rd_off + ready \/ wr_off = rd_off + ready - Size
        BY <3>1
      <4>3. wr_off = r + (ready - n) \/ wr_off = r + (ready - n) - Size
        BY <1>1, <1>2, <3>1, <3>3, <3>4, <4>1, <4>2
      <4>4. QED
        BY <3>2, <4>1, <4>3
    <3>6. QED
      <4>1. wr_off' \in Nat /\ wr_off' < Size
        BY <1>1, <3>1, <3>2
      <4>2. ready' <= Size
        BY <1>1, <1>2, <1>3
      <4>3. wr_off' \in {rd_off' + ready', rd_off' + ready' - Size}
        BY <1>3, <3>5
      <4>4. QED
        BY <1>4, <2>2, <3>5, <4>1, <4>2, <4>3 DEF OffsetsAgree
  <2>3. QED
    BY <2>1, <2>2
<1>6. TypeOK'
  <2>1. /\ opts' \in Options /\ fault' \in {"none", "overrun", "null_call"}
        /\ mem' \in [Address -> Cell]
    BY <1>3 DEF RingInv, TypeOK, Cell
  <2>2. ready' \in Nat /\ ret' \in Int
    BY <1>1, <1>2, <1>3
  <2>3. out' \in Seq(Cell) /\ expect' \in Seq(Cell)
    BY <1>2, <1>3, ReadCells
  <2>4. QED
    BY <1>5, <2>1, <2>2, <2>3 DEF TypeOK, Cell
<1>7. Mirrored'
  BY <1>3, <1>4 DEF RingInv, Mirrored
<1>8. QED
  BY <1>5, <1>6, <1>7 DEF RingInv

(* The calls that copy nothing: they leave the memory alone, and the       *)
(* counters too unless they reset all three.                               *)
LEMMA QuietRingInv ==
  ASSUME RingInv, opts' = opts, mem' = mem,
         \/ UNCHANGED <<wr_off, rd_off, ready>>
         \/ wr_off' = 0 /\ rd_off' = 0 /\ ready' = 0,
         \/ UNCHANGED <<ret, out, expect>>
         \/ ret' \in Int /\ out' = <<>> /\ expect' = <<>>,
         fault' \in {"none", "overrun", "null_call"}
  PROVE  RingInv'
<1>1. Contiguous' <=> Contiguous
  BY DEF Contiguous
<1>2. TypeOK'
  <2>1. opts' \in Options /\ mem' \in [Address -> Cell]
    BY DEF RingInv, TypeOK, Cell
  <2>2. wr_off' \in Nat /\ rd_off' \in Nat /\ ready' \in Nat
    BY DEF RingInv, TypeOK
  <2>3. ret' \in Int /\ out' \in Seq(Cell) /\ expect' \in Seq(Cell)
    <3>1. ret \in Int /\ out \in Seq(Cell) /\ expect \in Seq(Cell)
      BY DEF RingInv, TypeOK, Cell
    <3>2. <<>> \in Seq(Cell)
      OBVIOUS
    <3>3. CASE UNCHANGED <<ret, out, expect>>
      BY <3>1, <3>3
    <3>4. CASE ret' \in Int /\ out' = <<>> /\ expect' = <<>>
      BY <3>2, <3>4
    <3>5. QED
      BY <3>3, <3>4
  <2>4. QED
    BY <2>1, <2>2, <2>3 DEF TypeOK, Cell
<1>3. OffsetsAgree'
  <2>1. CASE UNCHANGED <<wr_off, rd_off, ready>>
    BY <1>1, <2>1 DEF RingInv, OffsetsAgree
  <2>2. CASE wr_off' = 0 /\ rd_off' = 0 /\ ready' = 0
    BY <1>1, <2>2, SizeAssumption DEF OffsetsAgree
  <2>3. QED
    BY <2>1, <2>2
<1>4. Mirrored'
  BY <1>1 DEF RingInv, Mirrored
<1>5. QED
  BY <1>2, <1>3, <1>4 DEF RingInv

(* The invariant is inductive.                                             *)
LEMMA NextRingInv == RingInv /\ [Next]_vars => RingInv'
<1> SUFFICES ASSUME RingInv, [Next]_vars PROVE RingInv'
  OBVIOUS
<1>0. fault \in {"none", "overrun", "null_call"} /\ 0 \in Int /\ -1 \in Int
  BY DEF RingInv, TypeOK
<1>1. ASSUME NEW b \in Requests, Write(b) PROVE RingInv'
  BY <1>1, WriteRingInv
<1>2. ASSUME NEW want \in 0..MaxLen, Read(want) \/ FastRead(want) PROVE RingInv'
  <2>1. want \in Nat
    BY MaxLenAssumption
  <2>2. QED
    BY <1>2, <2>1, ReadRingInv DEF FastRead
<1>3. ASSUME NEW want \in 0..MaxLen, ReadOverrun(want) PROVE RingInv'
  BY <1>3, QuietRingInv DEF ReadOverrun
<1>4. ASSUME NEW want \in 0..MaxLen, FastReadNull(want) PROVE RingInv'
  BY <1>0, <1>4, QuietRingInv DEF FastReadNull
<1>5. ASSUME NEW want \in 0..MaxLen, Refuse(want) PROVE RingInv'
  BY <1>0, <1>5, QuietRingInv DEF Refuse
<1>6. CASE FastReadWrapped
  BY <1>6, QuietRingInv DEF FastReadWrapped
<1>7. CASE Clear
  BY <1>0, <1>7, QuietRingInv DEF Clear
<1>8. CASE UNCHANGED vars
  BY <1>0, <1>8, QuietRingInv DEF vars
<1>9. QED
  BY <1>1, <1>2, <1>3, <1>4, <1>5, <1>6, <1>7, <1>8 DEF Next

(* The invariant holds after every sequence of calls.                      *)
LEMMA SpecRingInv == Spec => []RingInv
BY InitRingInv, NextRingInv, PTL DEF Spec

(* Every variable keeps its type, whatever the calls.                      *)
THEOREM TypeCorrect == Spec => []TypeOK
<1>1. RingInv => TypeOK
  BY DEF RingInv
<1>2. QED
  BY <1>1, SpecRingInv, PTL

(* wr_off, rd_off and ready agree after every call, for every buffer size  *)
(* and all three variants, so that no size_t subtraction of rb.c wraps.    *)
THEOREM CountersAgree == Spec => []OffsetsAgree
<1>1. RingInv => OffsetsAgree
  BY DEF RingInv
<1>2. QED
  BY <1>1, SpecRingInv, PTL

(* The halves of a contiguous buffer show the same bytes after any number  *)
(* of wrap-arounds, by mapping or by mirror(), and write_wrapped never     *)
(* writes past the end of its allocation.                                  *)
THEOREM HalvesAgree == Spec => []Mirrored
<1>1. RingInv => Mirrored
  BY DEF RingInv
<1>2. QED
  BY <1>1, SpecRingInv, PTL

-----------------------------------------------------------------------------
(* The n bytes from cell o on, around the end of the buffer.               *)
Around(m, o, n) == [i \in 1..n |-> m[(o + i - 1) % Size]]
Wrap(x) == IF x < Size THEN x ELSE x - Size

(* What lies from one offset on, around the end of the buffer.             *)
LEMMA AroundIs ==
  ASSUME NEW m \in [Address -> Cell], NEW o \in Nat, o < Size, NEW n \in Nat, n <= Size
  PROVE  /\ Around(m, o, n) \in Seq(Cell) /\ Len(Around(m, o, n)) = n
         /\ \A i \in 1..n : Around(m, o, n)[i] = m[Wrap(o + i - 1)]
<1>1. Size \in Nat /\ Size > 0
  BY SizeAssumption
<1>2. ASSUME NEW i \in 1..n
      PROVE  (o + i - 1) % Size = Wrap(o + i - 1) /\ (o + i - 1) % Size \in Address
  <2>1. PICK x \in 0..(2 * Size - 1) : x = o + i - 1
    BY <1>1
  <2>2. x % Size = IF x < Size THEN x ELSE x - Size
    BY <1>1, ModOnce
  <2>3. QED
    BY <1>1, <2>1, <2>2 DEF Wrap, Address
<1>3. Around(m, o, n) \in [1..n -> Cell]
  BY <1>2 DEF Around
<1>4. Around(m, o, n) \in Seq(Cell) /\ Len(Around(m, o, n)) = n
  BY <1>3
<1>5. ASSUME NEW i \in 1..n
      PROVE  Around(m, o, n)[i] = m[Wrap(o + i - 1)]
  BY <1>2 DEF Around
<1>6. QED
  BY <1>4, <1>5

(* What is stored lies from the read offset on.                            *)
LEMMA StoredIs ==
  ASSUME RingInv
  PROVE  /\ Stored(ready) = Around(mem, rd_off, ready)
         /\ Stored(ready) \in Seq(Cell) /\ Len(Stored(ready)) = ready
         /\ \A i \in 1..ready : Stored(ready)[i] = mem[Wrap(rd_off + i - 1)]
<1>1. /\ rd_off \in Nat /\ ready \in Nat /\ rd_off < Size /\ ready <= Size
      /\ mem \in [Address -> Cell]
  BY DEF RingInv, TypeOK, OffsetsAgree, Cell
<1>2. Stored(ready) = Around(mem, rd_off, ready)
  BY DEF Stored, Around
<1>3. QED
  BY <1>1, <1>2, AroundIs

(* The bytes a read copies out of a contiguous buffer are the oldest.      *)
LEMMA BytesAreOldest ==
  ASSUME RingInv, Contiguous, NEW n \in Nat, n <= ready
  PROVE  /\ Bytes(n) \in Seq(Cell) /\ Len(Bytes(n)) = n
         /\ \A i \in 1..n : Bytes(n)[i] = Stored(ready)[i]
<1>1. /\ Size \in Nat /\ Size > 0 /\ rd_off \in Nat /\ ready \in Nat
      /\ rd_off < Size /\ ready <= Size
  BY SizeAssumption DEF RingInv, TypeOK, OffsetsAgree
<1>2. Bytes(n) \in Seq(Cell)
  BY ReadCells
<1>3. Len(Bytes(n)) = n /\ \A i \in 1..n : Bytes(n)[i] = mem[rd_off + i - 1]
  BY <1>2 DEF Bytes
<1>4. ASSUME NEW i \in 1..n
      PROVE  mem[rd_off + i - 1] = Stored(ready)[i]
  <2>1. CASE rd_off + i - 1 < Size
    BY <1>1, <2>1, StoredIs DEF Wrap
  <2>2. CASE ~(rd_off + i - 1 < Size)
    <3>1. PICK j \in 0..(Size - 1) : j = rd_off + i - 1 - Size
      BY <1>1, <2>2
    <3>2. mem[j + Size] = mem[j] /\ j + Size = rd_off + i - 1
      BY <1>1, <3>1 DEF RingInv, Mirrored
    <3>3. Stored(ready)[i] = mem[j]
      BY <1>1, <2>2, <3>1, StoredIs DEF Wrap
    <3>4. QED
      BY <3>2, <3>3
  <2>3. QED
    BY <2>1, <2>2
<1>5. QED
  BY <1>2, <1>3, <1>4

(* u_rb_write appends to what is stored, in all three variants.            *)
LEMMA WriteAppends ==
  ASSUME RingInv, NEW b \in Requests, Write(b)
  PROVE  Fifo!Write(b)
<1>1. b \in Seq(Byte) /\ Len(b) \in Nat /\ b \in Seq(Cell)
  BY RequestSeq DEF Cell
<1>2. /\ Size \in Nat /\ Size > 0 /\ wr_off \in Nat /\ rd_off \in Nat /\ ready \in Nat
      /\ rd_off < Size /\ ready <= Size
  BY SizeAssumption DEF RingInv, TypeOK, OffsetsAgree
<1>3. PICK n \in Nat : n = Min2(Avail, Len(b)) /\ n <= Size - ready /\ n <= Len(b)
  <2>1. Avail \in Nat /\ Avail = Size - ready
    BY <1>2 DEF Avail
  <2>2. QED
    BY <1>1, <2>1, MinProps
<1>4. /\ IF Contiguous THEN WriteContiguous(b, n) ELSE WriteWrapped(b, n)
      /\ ready' = ready + n /\ ret' = n /\ out' = <<>> /\ rd_off' = rd_off /\ Len(b) <= Size
  BY <1>3 DEF Write
<1>5. /\ mem' \in [Address -> Cell]
      /\ \A i \in 0..(Size - 1) : mem'[i] = Landed(i, i + Size, b, n)
  BY <1>1, <1>3, <1>4, ContiguousMem, WrappedMem
<1>6. wr_off = rd_off + ready \/ (wr_off < Size /\ wr_off = rd_off + ready - Size)
  BY DEF RingInv, OffsetsAgree
<1>7. PICK s \in Seq(Cell) : /\ s = Stored(ready) /\ Len(s) = ready
                             /\ \A i \in 1..ready : s[i] = mem[Wrap(rd_off + i - 1)]
  BY StoredIs
<1>8. PICK t \in Seq(Cell) : /\ t = Stored(ready)' /\ Len(t) = ready + n
                             /\ \A i \in 1..(ready + n) : t[i] = mem'[Wrap(rd_off + i - 1)]
  <2>1. Stored(ready)' = Around(mem', rd_off, ready + n)
    BY <1>4 DEF Stored, Around
  <2>2. ready + n \in Nat /\ ready + n <= Size
    BY <1>2, <1>3
  <2>3. /\ Around(mem', rd_off, ready + n) \in Seq(Cell)
        /\ Len(Around(mem', rd_off, ready + n)) = ready + n
        /\ \A i \in 1..(ready + n) :
             Around(mem', rd_off, ready + n)[i] = mem'[Wrap(rd_off + i - 1)]
    BY <1>2, <1>5, <2>2, AroundIs
  <2>4. QED
    BY <2>1, <2>3
<1>9. ASSUME NEW i \in 1..(ready + n)
      PROVE  t[i] = IF i <= ready THEN s[i] ELSE b[i - ready]
  <2>0. rd_off + i - 1 \in 0..(2 * Size - 1)
    BY <1>2, <1>3
  <2>1. PICK p \in 0..(Size - 1) : p = Wrap(rd_off + i - 1)
    <3>1. Wrap(rd_off + i - 1) \in 0..(Size - 1)
      BY <1>2, <2>0 DEF Wrap
    <3>2. QED
      BY <3>1
  <2>2. t[i] = Landed(p, p + Size, b, n)
    BY <1>5, <1>8, <2>1
  <2>3. CASE i <= ready
    <3>1. ~(wr_off <= p /\ p < wr_off + n) /\ ~(wr_off <= p + Size /\ p + Size < wr_off + n)
      BY <1>2, <1>3, <1>6, <2>1, <2>3 DEF Wrap
    <3>2. Landed(p, p + Size, b, n) = mem[p]
      BY <3>1, Zenon DEF Landed
    <3>3. i \in 1..ready
      BY <1>2, <2>3
    <3>4. s[i] = mem[p]
      BY <1>7, <2>1, <3>3
    <3>5. QED
      BY <2>2, <2>3, <3>2, <3>4
  <2>4. CASE ~(i <= ready)
    <3>1. \/ wr_off <= p /\ p < wr_off + n /\ p - wr_off + 1 = i - ready
          \/ /\ ~(wr_off <= p)
             /\ wr_off <= p + Size /\ p + Size < wr_off + n /\ p + Size - wr_off + 1 = i - ready
      BY <1>2, <1>3, <1>6, <2>1, <2>4 DEF Wrap
    <3>2. CASE wr_off <= p /\ p < wr_off + n /\ p - wr_off + 1 = i - ready
      BY <2>2, <2>4, <3>2 DEF Landed
    <3>3. CASE /\ ~(wr_off <= p)
               /\ wr_off <= p + Size /\ p + Size < wr_off + n /\ p + Size - wr_off + 1 = i - ready
      <4>1. Landed(p, p + Size, b, n) = b[p + Size - wr_off + 1]
        BY <1>2, <3>3 DEF Landed
      <4>2. b[p + Size - wr_off + 1] = b[i - ready]
        BY <3>3
      <4>3. QED
        BY <2>2, <2>4, <4>1, <4>2
    <3>4. QED
      BY <3>1, <3>2, <3>3
  <2>5. QED
    BY <2>3, <2>4
<1>10. PICK u \in Seq(Cell) : /\ u = SubSeq(b, 1, n) /\ Len(u) = n
                              /\ \A i \in 1..n : u[i] = b[i]
  <2>1. \A i \in 1..n : b[i] \in Cell
    BY <1>1, <1>3
  <2>2. /\ SubSeq(b, 1, n) \in Seq(Cell) /\ Len(SubSeq(b, 1, n)) = IF 1 <= n THEN n - 1 + 1 ELSE 0
        /\ \A i \in 1..(n - 1 + 1) : SubSeq(b, 1, n)[i] = b[1 + i - 1]
    BY <2>1, SubSeqProperties
  <2>3. Len(SubSeq(b, 1, n)) = n /\ \A i \in 1..n : SubSeq(b, 1, n)[i] = b[i]
    BY <2>2
  <2>4. QED
    BY <2>2, <2>3
<1>11. t = s \o u
  <2>1. /\ s \o u \in Seq(Cell) /\ Len(s \o u) = ready + n
        /\ \A i \in 1..(ready + n) : (s \o u)[i] = IF i <= ready THEN s[i] ELSE u[i - ready]
    <3>1. /\ s \o u \in Seq(Cell) /\ Len(s \o u) = Len(s) + Len(u)
          /\ \A i \in 1..Len(s) + Len(u) : (s \o u)[i] = IF i <= Len(s) THEN s[i] ELSE u[i - Len(s)]
      BY ConcatProperties
    <3>2. Len(s) = ready /\ Len(u) = n
      BY <1>7, <1>10
    <3>3. QED
      BY <3>1, <3>2
  <2>2. \A i \in 1..(ready + n) : t[i] = (s \o u)[i]
    BY <1>2, <1>9, <1>10, <2>1
  <2>3. QED
    BY <1>8, <2>1, <2>2, SeqEqual
<1>12. n = Fifo!Min2(Size - Len(Stored(ready)), Len(b))
  BY <1>3, <1>7 DEF Fifo!Min2, Min2, Avail
<1>13. QED
  BY <1>4, <1>7, <1>8, <1>10, <1>11, <1>12 DEF Fifo!Write

(* u_rb_read takes what it returns off the front, in a contiguous buffer.  *)
LEMMA ReadTakes ==
  ASSUME RingInv, Contiguous, NEW want \in Nat, Read(want)
  PROVE  Fifo!Read(want)
<1>1. /\ Size \in Nat /\ Size > 0 /\ rd_off \in Nat /\ ready \in Nat
      /\ rd_off < Size /\ ready <= Size /\ mem \in [Address -> Cell]
  BY SizeAssumption DEF RingInv, TypeOK, OffsetsAgree, Cell
<1>2. PICK n \in Nat : n = Min2(ready, want) /\ n <= ready
  BY <1>1, MinProps
<1>3. /\ rd_off' = Wrap(rd_off + n) /\ mem' = mem /\ ready' = ready - n
      /\ out' = Bytes(n) /\ ret' = n /\ want <= Size
  BY <1>1, <1>2 DEF Read, ReadIncr, Wrap
<1>4. PICK s \in Seq(Cell) : /\ s = Stored(ready) /\ Len(s) = ready
                             /\ \A i \in 1..ready : s[i] = mem[Wrap(rd_off + i - 1)]
  BY StoredIs
<1>5. PICK o \in Nat : o = Wrap(rd_off + n) /\ o < Size
  <2>1. rd_off + n \in Nat /\ rd_off + n < 2 * Size
    BY <1>1, <1>2
  <2>2. Wrap(rd_off + n) \in Nat /\ Wrap(rd_off + n) < Size
    BY <1>1, <2>1 DEF Wrap
  <2>3. QED
    BY <2>2
<1>6. PICK m \in Nat : m = ready - n /\ m <= Size
  BY <1>1, <1>2
<1>7. PICK t \in Seq(Cell) : /\ t = Stored(ready)' /\ Len(t) = m
                             /\ \A i \in 1..m : t[i] = mem[Wrap(o + i - 1)]
  <2>1. Stored(ready)' = Around(mem, o, m)
    BY <1>3, <1>5, <1>6 DEF Stored, Around
  <2>2. /\ Around(mem, o, m) \in Seq(Cell) /\ Len(Around(mem, o, m)) = m
        /\ \A i \in 1..m : Around(mem, o, m)[i] = mem[Wrap(o + i - 1)]
    <3>1. mem \in [Address -> Cell] /\ o < Size /\ m <= Size
      BY <1>1, <1>5, <1>6
    <3>2. QED
      BY <3>1, AroundIs
  <2>3. QED
    BY <2>1, <2>2
<1>8. t = SubSeq(s, n + 1, Len(s))
  <2>1. \A i \in (n + 1)..ready : s[i] \in Cell
    BY <1>2, <1>4
  <2>2. /\ SubSeq(s, n + 1, ready) \in Seq(Cell)
        /\ Len(SubSeq(s, n + 1, ready)) = IF n + 1 <= ready THEN ready - (n + 1) + 1 ELSE 0
        /\ \A i \in 1..(ready - (n + 1) + 1) : SubSeq(s, n + 1, ready)[i] = s[n + 1 + i - 1]
    <3>1. n + 1 \in Int /\ ready \in Int
      BY <1>1
    <3>2. QED
      BY <2>1, <3>1, SubSeqProperties
  <2>3. Len(SubSeq(s, n + 1, ready)) = m
    BY <1>1, <1>2, <1>6, <2>2
  <2>4. ASSUME NEW i \in 1..m
        PROVE  t[i] = SubSeq(s, n + 1, ready)[i]
    <3>1. PICK j \in 1..ready : j = n + 1 + i - 1
      BY <1>1, <1>2, <1>6
    <3>2. SubSeq(s, n + 1, ready)[i] = s[j]
      BY <1>1, <1>6, <2>2, <3>1
    <3>3. Wrap(o + i - 1) = Wrap(rd_off + j - 1)
      <4>0. /\ i \in Int /\ 1 <= i /\ i <= ready - n /\ j = n + i /\ rd_off + j - 1 \in Int
            /\ Size \in Int /\ n \in Int
        BY <1>1, <1>6, <3>1
      <4>1. CASE rd_off + n < Size
        <5>1. o = rd_off + n
          BY <1>5, <4>1 DEF Wrap
        <5>2. o + i - 1 = rd_off + j - 1
          BY <1>1, <4>0, <5>1
        <5>3. QED
          BY <5>2
      <4>2. CASE ~(rd_off + n < Size)
        <5>1. o = rd_off + n - Size
          BY <1>1, <1>2, <1>5, <4>0, <4>2 DEF Wrap
        <5>2. /\ o + i - 1 = rd_off + j - 1 - Size
              /\ o + i - 1 < Size /\ ~(rd_off + j - 1 < Size)
          BY <1>1, <4>0, <4>2, <5>1
        <5>3. Wrap(o + i - 1) = o + i - 1 /\ Wrap(rd_off + j - 1) = rd_off + j - 1 - Size
          BY <1>1, <4>0, <5>2 DEF Wrap
        <5>4. QED
          BY <5>2, <5>3
      <4>3. QED
        BY <4>1, <4>2
    <3>4. QED
      BY <1>4, <1>7, <3>2, <3>3
  <2>5. QED
    BY <1>4, <1>7, <2>2, <2>3, <2>4, SeqEqual
<1>9. out' = SubSeq(s, 1, n)
  <2>1. \A i \in 1..n : s[i] \in Cell
    BY <1>1, <1>2, <1>4
  <2>2. /\ SubSeq(s, 1, n) \in Seq(Cell) /\ Len(SubSeq(s, 1, n)) = IF 1 <= n THEN n - 1 + 1 ELSE 0
        /\ \A i \in 1..(n - 1 + 1) : SubSeq(s, 1, n)[i] = s[1 + i - 1]
    BY <2>1, SubSeqProperties
  <2>3. Len(SubSeq(s, 1, n)) = n /\ \A i \in 1..n : SubSeq(s, 1, n)[i] = s[i]
    BY <2>2
  <2>4. QED
    <3>1. /\ Bytes(n) \in Seq(Cell) /\ Len(Bytes(n)) = n
          /\ \A i \in 1..n : Bytes(n)[i] = Stored(ready)[i]
      BY <1>2, BytesAreOldest
    <3>2. /\ out' \in Seq(Cell) /\ Len(out') = n
          /\ \A i \in 1..n : out'[i] = SubSeq(s, 1, n)[i]
      BY <1>3, <1>4, <2>3, <3>1
    <3>3. QED
      BY <2>2, <2>3, <3>2, SeqEqual
<1>10. n = Fifo!Min2(Len(Stored(ready)), want)
  BY <1>2, <1>4 DEF Fifo!Min2, Min2
<1>11. QED
  BY <1>3, <1>4, <1>7, <1>8, <1>9, <1>10 DEF Fifo!Read

(* An empty buffer stores nothing.                                         *)
LEMMA NothingStored == Stored(0) = <<>> /\ \A m, o : Around(m, o, 0) = <<>>
BY DEF Stored, Around

(* Every write, in all three variants, and every call on a contiguous      *)
(* buffer does to the bytes stored what that call of a bounded FIFO does.  *)
THEOREM BufferIsFifo == Spec => RingIsFifo
<1>1. Init => Fifo!Init
  BY NothingStored DEF Init, Fifo!Init
<1>2. RingInv /\ [Next]_vars => [FifoStep]_vars
  <2> SUFFICES ASSUME RingInv
               PROVE  FifoStep
    OBVIOUS
  <2>1. \A b \in Requests : Write(b) => Fifo!Write(b)
    BY WriteAppends
  <2>2. ASSUME Contiguous, NEW want \in 0..MaxLen, Read(want)
        PROVE  Fifo!Read(want)
    <3>1. want \in Nat
      BY MaxLenAssumption
    <3>2. QED
      BY <2>2, <3>1, ReadTakes
  <2>3. ASSUME NEW want \in 0..MaxLen, Refuse(want) \/ FastReadNull(want)
        PROVE  Fifo!Refuse
    BY <2>3 DEF Refuse, FastReadNull, Fifo!Refuse, Stored
  <2>4. ASSUME Clear
        PROVE  Fifo!Clear
    <3>1. Stored(ready)' = Around(mem', 0, 0) /\ ret' = 0 /\ out' = <<>>
      BY <2>4 DEF Clear, Stored, Around
    <3>2. QED
      BY <3>1, NothingStored DEF Fifo!Clear
  <2>5. QED
    BY <2>1, <2>2, <2>3, <2>4 DEF FifoStep
<1>3. QED
  <2>1. RingInv /\ [Next]_vars => [~UNCHANGED vars => FifoStep]_vars
    BY <1>2
  <2>2. QED
    BY <1>1, <2>1, SpecRingInv, PTL DEF Spec, RingIsFifo

-----------------------------------------------------------------------------
(* The priority queue.                                                     *)

(* The tree in the array: slot i hangs from slot i \div 2, and slots 2i    *)
(* and 2i + 1 hang from slot i.                                            *)
LEMMA Parent ==
  ASSUME NEW i \in Nat
  PROVE  /\ i \div 2 \in Nat /\ 2 * (i \div 2) <= i /\ i <= 2 * (i \div 2) + 1
         /\ (2 * i) \div 2 = i /\ (2 * i + 1) \div 2 = i
BY Z3

(* The parent of an item has a smaller index.                              *)
LEMMA ParentBelow ==
  ASSUME NEW i \in Nat, i >= 2
  PROVE  i \div 2 \in Nat /\ i \div 2 >= 1 /\ i \div 2 < i
BY Parent

(* Between calls the heap of n items has its highest item at the top.      *)
LEMMA TopIsHighest ==
  ASSUME QueueAssumption, NEW n \in Nat, \A i \in 1..n : q[i] \in Items,
         \A i \in 2..n : Ordered(i)
  PROVE  \A i \in 1..n : Key[q[i]] <= Key[q[1]]
<1> DEFINE T == {i \in 1..n : ~(Key[q[i]] <= Key[q[1]])}
<1> SUFFICES ASSUME T # {}
             PROVE  FALSE
  OBVIOUS
<1>1. PICK m \in T : \A y \in T : m <= y
  <2>1. T \subseteq Nat
    OBVIOUS
  <2>2. QED
    BY <2>1, Least
<1>2. \A i \in 1..n : Key[q[i]] \in Int
  BY DEF QueueAssumption
<1>3. m \in 1..n /\ m # 1 /\ ~(Key[q[m]] <= Key[q[1]])
  BY <1>2
<1>4. m \div 2 \in 1..n /\ m \div 2 < m
  BY <1>3, ParentBelow
<1>5. Key[q[m \div 2]] <= Key[q[1]]
  BY <1>1, <1>4
<1>6. Key[q[m]] <= Key[q[m \div 2]]
  BY <1>3 DEF Ordered
<1>7. QED
  BY <1>2, <1>3, <1>4, <1>5, <1>6

-----------------------------------------------------------------------------
(* Where the sifted item may be; the item that u_pq_delmax evicts is in    *)
(* the last slot, and is no lower than any other.                          *)
Placed ==
  /\ pc \in {"up", "down"} => k \in 1..nelems
  /\ pc = "down" => \A i \in 1..nelems : Key[q[i]] <= Key[q[nelems]]

(* Neither loop keeps the array ordered without HeapBridge: the item that  *)
(* comes up, or down, must fit between what it leaves above and below.     *)
QueueInv == PQueueTypeOK /\ Placed /\ HeapOrder /\ HeapBridge

(* The heap of n items: its keys are comparable, and a slot above the      *)
(* first hangs from a slot before it.                                      *)
LEMMA Slots ==
  ASSUME QueueAssumption, PQueueTypeOK
  PROVE  /\ NItems \in Nat /\ nelems \in Nat /\ nelems <= NItems /\ k \in Nat
         /\ \A i \in 1..nelems : q[i] \in Items /\ Key[q[i]] \in Int
         /\ \A i \in 2..nelems : i \div 2 \in 1..nelems /\ i \div 2 < i
<1>1. NItems \in Nat /\ nelems \in Nat /\ nelems <= NItems /\ k \in Nat
  BY DEF QueueAssumption, PQueueTypeOK
<1>2. \A i \in 1..nelems : q[i] \in Items /\ Key[q[i]] \in Int
  BY DEF QueueAssumption, PQueueTypeOK
<1>3. \A i \in 2..nelems : i \div 2 \in 1..nelems /\ i \div 2 < i
  BY <1>1, ParentBelow
<1>4. QED
  BY <1>1, <1>2, <1>3

(* What swap_items changes.                                                *)
LEMMA Swapped ==
  ASSUME QueueAssumption, PQueueTypeOK, NEW i \in 1..nelems, NEW j \in 1..nelems, q' = Swap(i, j)
  PROVE  /\ q'[i] = q[j] /\ q'[j] = q[i]
         /\ \A m \in 1..nelems : m # i /\ m # j => q'[m] = q[m]
         /\ q' \in [1..NItems -> Items \cup {NULL}]
         /\ \A m \in 1..nelems : q'[m] \in Items
<1>1. i \in 1..NItems /\ j \in 1..NItems /\ \A m \in 1..nelems : m \in 1..NItems
  BY Slots
<1>2. q \in [1..NItems -> Items \cup {NULL}] /\ \A m \in 1..nelems : q[m] \in Items
  BY DEF PQueueTypeOK
<1>3. QED
  BY <1>1, <1>2 DEF Swap

-----------------------------------------------------------------------------
(* A new queue is a heap.                                                  *)
LEMMA InitQueueInv ==
  ASSUME QueueAssumption, PQueueInit
  PROVE  QueueInv
BY DEF QueueAssumption, PQueueInit, QueueInv, PQueueTypeOK, Placed, HeapOrder, HeapBridge

(* u_pq_push puts the new item in a slot that no other hangs from.         *)
LEMMA PushQueueInv ==
  ASSUME QueueAssumption, QueueInv, NEW e \in Items, Push(e)
  PROVE  QueueInv'
<1>0. nelems + 1 \in Nat /\ nelems + 1 <= NItems
  <2>1. ~(nelems = NItems)
    BY DEF Push, Full
  <2>2. NItems \in Nat /\ nelems \in Nat /\ nelems <= NItems
    BY Slots DEF QueueInv
  <2>3. QED
    BY <2>1, <2>2
<1>1. PICK n \in Nat : /\ n = nelems + 1 /\ n <= NItems /\ nelems' = n /\ k' = n /\ pc' = "up"
                       /\ pc = "idle" /\ q' = [q EXCEPT ![n] = e] /\ pqRet' = pqRet
  BY <1>0 DEF Push
<1>2. q'[n] = e /\ \A i \in 1..nelems : q'[i] = q[i]
  BY <1>1, Slots DEF QueueInv, PQueueTypeOK
<1>3. PQueueTypeOK'
  <2>1. q' \in [1..NItems -> Items \cup {NULL}] /\ n \in 1..NItems
    BY <1>1, Slots DEF QueueInv, PQueueTypeOK
  <2>2. \A i \in 1..n : q'[i] \in Items
    BY <1>1, <1>2, Slots DEF QueueInv
  <2>3. QED
    BY <1>1, <2>1, <2>2 DEF QueueInv, PQueueTypeOK
<1>4. Placed'
  BY <1>1, Slots DEF Placed, QueueInv
<1>5. ASSUME NEW i \in 2..n
      PROVE  i \div 2 \in 1..nelems
  BY <1>1, ParentBelow, Slots DEF QueueInv
<1>6. HeapOrder'
  <2> SUFFICES ASSUME NEW i \in 2..n, i # n
               PROVE  Ordered(i)'
    BY <1>1 DEF HeapOrder
  <2>1. Ordered(i) /\ i \in 1..nelems /\ i \div 2 \in 1..nelems
    BY <1>1, <1>5, Slots DEF QueueInv, HeapOrder
  <2>2. QED
    BY <1>2, <2>1 DEF Ordered
<1>7. HeapBridge'
  <2>1. \A i \in 2..n : i \div 2 # n
    BY <1>1, <1>5, Slots DEF QueueInv
  <2>2. QED
    BY <1>1, <2>1 DEF HeapBridge
<1>8. QED
  BY <1>3, <1>4, <1>6, <1>7 DEF QueueInv

(* One turn of bubble_up: the item takes the place of its parent h.        *)
LEMMA BubbleUpQueueInv ==
  ASSUME QueueAssumption, QueueInv, BubbleUp
  PROVE  QueueInv'
<1>1. PICK h \in 1..nelems :
        /\ h = k \div 2 /\ h < k /\ k \in 2..nelems /\ Key[q[h]] < Key[q[k]]
        /\ q' = Swap(k, h) /\ k' = h
        /\ pc = "up" /\ UNCHANGED <<nelems, pc, pqRet>>
  BY Slots DEF BubbleUp, Comp, QueueInv, Placed
<1>2. /\ q'[k] = q[h] /\ q'[h] = q[k]
      /\ \A m \in 1..nelems : m # k /\ m # h => q'[m] = q[m]
      /\ q' \in [1..NItems -> Items \cup {NULL}]
      /\ \A m \in 1..nelems : q'[m] \in Items
  BY <1>1, Swapped DEF QueueInv
<1>3. PQueueTypeOK' /\ Placed'
  BY <1>1, <1>2, Slots DEF QueueInv, PQueueTypeOK, Placed
<1>4. \A i \in 2..nelems : i # k => Key[q[i]] <= Key[q[i \div 2]]
  BY <1>1 DEF QueueInv, HeapOrder, Ordered
<1>5. \A i \in 2..nelems : i \div 2 = k => Key[q[i]] <= Key[q[h]]
  BY <1>1, Slots DEF QueueInv, HeapBridge
<1>6. HeapOrder'
  <2> SUFFICES ASSUME NEW i \in 2..nelems, i # h
               PROVE  Key[q'[i]] <= Key[q'[i \div 2]]
    BY <1>1 DEF HeapOrder, Ordered
  <2>1. PICK g \in 1..nelems : g = i \div 2 /\ g < i
    BY Slots DEF QueueInv
  <2>2. Key[q[i]] \in Int /\ Key[q[g]] \in Int /\ Key[q[h]] \in Int /\ Key[q[k]] \in Int
    BY <1>1, Slots DEF QueueInv
  <2>3. CASE i = k
    BY <1>1, <1>2, <2>1, <2>2, <2>3
  <2>4. CASE i # k /\ g = h
    BY <1>1, <1>2, <1>4, <2>1, <2>2, <2>4
  <2>5. CASE i # k /\ g = k
    BY <1>1, <1>2, <1>5, <2>1, <2>2, <2>5
  <2>6. CASE i # k /\ g # h /\ g # k
    BY <1>2, <1>4, <2>1, <2>6
  <2>7. QED
    BY <2>3, <2>4, <2>5, <2>6
<1>7. HeapBridge'
  <2> SUFFICES ASSUME h > 1, NEW i \in 2..nelems, i \div 2 = h
               PROVE  Key[q'[i]] <= Key[q'[h \div 2]]
    BY <1>1 DEF HeapBridge
  <2>1. PICK g \in 1..nelems : g = h \div 2 /\ g < h
    BY Slots DEF QueueInv
  <2>2. Key[q[i]] \in Int /\ Key[q[g]] \in Int /\ Key[q[h]] \in Int
    BY <1>1, <2>1, Slots DEF QueueInv
  <2>3. Key[q[h]] <= Key[q[g]] /\ q'[g] = q[g]
    BY <1>1, <1>2, <1>4, <2>1
  <2>4. CASE i = k
    BY <1>2, <2>1, <2>3, <2>4
  <2>5. CASE i # k
    <3>1. Key[q[i]] <= Key[q[h]] /\ i # h
      BY <1>1, <1>4, <2>5, Slots DEF QueueInv
    <3>2. q'[i] = q[i]
      BY <1>2, <2>5, <3>1
    <3>3. QED
      BY <2>1, <2>2, <2>3, <3>1, <3>2
  <2>6. QED
    BY <2>4, <2>5
<1>8. QED
  BY <1>3, <1>6, <1>7 DEF QueueInv

(* When bubble_up stops, the queue is a heap.                              *)
LEMMA BubbleUpEndQueueInv ==
  ASSUME QueueAssumption, QueueInv, BubbleUpEnd
  PROVE  QueueInv'
<1>1. /\ pc = "up" /\ ~(k > 1 /\ Key[q[k \div 2]] < Key[q[k]])
      /\ pc' = "idle" /\ k' = 0 /\ pqRet' = 0 /\ UNCHANGED <<q, nelems>>
  BY DEF BubbleUpEnd, Comp
<1>2. PQueueTypeOK' /\ Placed' /\ HeapBridge'
  BY <1>1, Slots DEF QueueInv, PQueueTypeOK, Placed, HeapBridge
<1>3. ASSUME NEW i \in 2..nelems
      PROVE  Key[q[i]] <= Key[q[i \div 2]]
  <2>1. CASE i = k
    <3>1. i \div 2 \in 1..nelems /\ k > 1
      BY <2>1, Slots DEF QueueInv
    <3>2. Key[q[i]] \in Int /\ Key[q[i \div 2]] \in Int
      BY <3>1, Slots DEF QueueInv
    <3>3. QED
      BY <1>1, <2>1, <3>1, <3>2
  <2>2. CASE i # k
    BY <1>1, <2>2 DEF QueueInv, HeapOrder, Ordered
  <2>3. QED
    BY <2>1, <2>2
<1>4. HeapOrder'
  BY <1>1, <1>3 DEF HeapOrder, Ordered
<1>5. QED
  BY <1>2, <1>4 DEF QueueInv

(* u_pq_delmax exchanges the highest item with the last one.               *)
LEMMA DelMaxQueueInv ==
  ASSUME QueueAssumption, QueueInv, DelMax
  PROVE  QueueInv'
<1>1. /\ pc = "idle" /\ nelems > 0 /\ q' = Swap(1, nelems)
      /\ pc' = "down" /\ k' = 1 /\ UNCHANGED <<nelems, pqRet>>
  BY DEF DelMax
<1>2. 1 \in 1..nelems /\ nelems \in 1..nelems
  BY <1>1, Slots DEF QueueInv
<1>3. /\ q'[1] = q[nelems] /\ q'[nelems] = q[1]
      /\ \A m \in 1..nelems : m # 1 /\ m # nelems => q'[m] = q[m]
      /\ q' \in [1..NItems -> Items \cup {NULL}]
      /\ \A m \in 1..nelems : q'[m] \in Items
  BY <1>1, <1>2, Swapped DEF QueueInv
<1>4. PQueueTypeOK'
  BY <1>1, <1>2, <1>3, Slots DEF QueueInv, PQueueTypeOK
<1>5. \A i \in 1..nelems : Key[q[i]] <= Key[q[1]]
  BY <1>1, Slots, TopIsHighest DEF QueueInv, HeapOrder
<1>6. Placed'
  <2>1. ASSUME NEW i \in 1..nelems
        PROVE  Key[q'[i]] <= Key[q'[nelems]]
    BY <1>2, <1>3, <1>5, <2>1
  <2>2. QED
    BY <1>1, <1>2, <2>1 DEF Placed
<1>7. HeapOrder'
  <2> SUFFICES ASSUME NEW i \in 2..(nelems - 1), i \div 2 # 1
               PROVE  Key[q'[i]] <= Key[q'[i \div 2]]
    BY <1>1 DEF HeapOrder, Ordered
  <2>1. /\ i \in 2..nelems /\ i # 1 /\ i # nelems
        /\ i \div 2 \in 1..nelems /\ i \div 2 # nelems
    BY Slots DEF QueueInv
  <2>2. QED
    BY <1>1, <1>3, <2>1 DEF QueueInv, HeapOrder, Ordered
<1>8. HeapBridge'
  BY <1>1 DEF HeapBridge
<1>9. QED
  BY <1>4, <1>6, <1>7, <1>8 DEF QueueInv

(* The child that bubble_down compares is the higher of the two.           *)
LEMMA ChildFacts ==
  ASSUME QueueAssumption, QueueInv, pc = "down", 2 * k <= nelems - 1
  PROVE  /\ Child \in 2..(nelems - 1) /\ Child \div 2 = k /\ k < Child
         /\ \A i \in 2..(nelems - 1) : i \div 2 = k => Key[q[i]] <= Key[q[Child]]
<1>1. k \in Nat /\ k >= 1 /\ nelems \in Nat
  BY Slots DEF QueueInv, Placed
<1>2. Child \in {2 * k, 2 * k + 1} /\ Child \in 2..(nelems - 1)
  BY <1>1 DEF Child
<1>3. Child \div 2 = k /\ k < Child
  BY <1>1, <1>2, Parent
<1>4. ASSUME NEW i \in 2..(nelems - 1), i \div 2 = k
      PROVE  Key[q[i]] <= Key[q[Child]]
  <2>1. i = 2 * k \/ i = 2 * k + 1
    BY <1>1, <1>4, Parent
  <2>2. 2 * k \in 1..nelems /\ Key[q[2 * k]] \in Int
    BY <1>1, Slots DEF QueueInv
  <2>3. 2 * k < nelems - 1 => Key[q[2 * k + 1]] \in Int
    BY <1>1, Slots DEF QueueInv
  <2>4. CASE 2 * k < nelems - 1
    BY <2>1, <2>2, <2>3, <2>4 DEF Child, Comp
  <2>5. CASE ~(2 * k < nelems - 1)
    BY <1>1, <2>1, <2>2, <2>5 DEF Child
  <2>6. QED
    BY <2>4, <2>5
<1>5. QED
  BY <1>2, <1>3, <1>4

(* One turn of bubble_down: the item takes the place of its higher child.  *)
LEMMA BubbleDownQueueInv ==
  ASSUME QueueAssumption, QueueInv, BubbleDown
  PROVE  QueueInv'
<1>1. PICK c \in 2..(nelems - 1) :
        /\ c = Child /\ c \div 2 = k /\ k < c /\ k \in 1..nelems
        /\ \A i \in 2..(nelems - 1) : i \div 2 = k => Key[q[i]] <= Key[q[c]]
        /\ Key[q[k]] < Key[q[c]]
        /\ q' = Swap(k, c) /\ k' = c
        /\ pc = "down" /\ UNCHANGED <<nelems, pc, pqRet>>
  BY ChildFacts DEF BubbleDown, Sinks, Comp, QueueInv, Placed
<1>2. nelems \in Nat /\ c \in 1..nelems /\ nelems \in 1..nelems /\ c < nelems /\ k < nelems
  BY <1>1, Slots DEF QueueInv
<1>3. /\ q'[k] = q[c] /\ q'[c] = q[k]
      /\ \A m \in 1..nelems : m # k /\ m # c => q'[m] = q[m]
      /\ q' \in [1..NItems -> Items \cup {NULL}]
      /\ \A m \in 1..nelems : q'[m] \in Items
  BY <1>1, <1>2, Swapped DEF QueueInv
<1>4. PQueueTypeOK'
  BY <1>1, <1>2, <1>3, Slots DEF QueueInv, PQueueTypeOK
<1>5. Placed'
  <2>1. q'[nelems] = q[nelems]
    BY <1>2, <1>3
  <2>2. \A i \in 1..nelems : Key[q[i]] <= Key[q[nelems]]
    BY <1>1 DEF QueueInv, Placed
  <2>3. ASSUME NEW i \in 1..nelems
        PROVE  Key[q'[i]] <= Key[q'[nelems]]
    BY <1>1, <1>2, <1>3, <2>1, <2>2
  <2>4. QED
    BY <1>1, <1>2, <2>3 DEF Placed
<1>6. \A i \in 2..(nelems - 1) : i \div 2 # k => Key[q[i]] <= Key[q[i \div 2]]
  BY <1>1 DEF QueueInv, HeapOrder, Ordered
<1>7. k > 1 => \A i \in 2..(nelems - 1) : i \div 2 = k => Key[q[i]] <= Key[q[k \div 2]]
  BY <1>1 DEF QueueInv, HeapBridge
<1>8. HeapOrder'
  <2> SUFFICES ASSUME NEW i \in 2..(nelems - 1), i \div 2 # c
               PROVE  Key[q'[i]] <= Key[q'[i \div 2]]
    BY <1>1 DEF HeapOrder, Ordered
  <2>1. i \in 1..nelems
    BY <1>2
  <2>2. PICK g \in 1..nelems : g = i \div 2 /\ g < i
    BY <1>2, Slots DEF QueueInv
  <2>3. Key[q[i]] \in Int /\ Key[q[g]] \in Int /\ Key[q[c]] \in Int /\ Key[q[k]] \in Int
    BY <1>1, <1>2, <2>1, Slots DEF QueueInv
  <2>4. CASE i = c
    BY <1>1, <1>3, <2>2, <2>3, <2>4
  <2>5. CASE i # c /\ g = k
    <3>1. Key[q[i]] <= Key[q[c]] /\ i # k
      BY <1>1, <2>2, <2>5
    <3>2. QED
      BY <1>3, <2>1, <2>2, <2>5, <3>1
  <2>6. CASE i = k
    <3>1. Key[q[c]] <= Key[q[g]]
      BY <1>1, <1>7, <2>2, <2>6
    <3>2. g # k /\ g # c
      BY <2>2, <2>6
    <3>3. QED
      BY <1>3, <2>2, <2>6, <3>1, <3>2
  <2>7. CASE i # c /\ i # k /\ g # k
    <3>1. Key[q[i]] <= Key[q[g]] /\ g # c
      BY <1>6, <2>2, <2>7
    <3>2. QED
      BY <1>3, <2>1, <2>2, <2>7, <3>1
  <2>8. QED
    BY <2>4, <2>5, <2>6, <2>7
<1>9. HeapBridge'
  <2> SUFFICES ASSUME NEW i \in 2..(nelems - 1), i \div 2 = c
               PROVE  Key[q'[i]] <= Key[q'[c \div 2]]
    BY <1>1 DEF HeapBridge
  <2>1. i \in 1..nelems /\ c < i /\ i # k /\ i # c
    BY <1>1, <1>2, Slots DEF QueueInv
  <2>2. Key[q[i]] <= Key[q[c]]
    BY <1>1, <1>6
  <2>3. QED
    BY <1>1, <1>3, <2>1, <2>2
<1>10. QED
  BY <1>4, <1>5, <1>8, <1>9 DEF QueueInv

(* bubble_down stops where no child is higher than the item.               *)
LEMMA BubbleDownEndQueueInv ==
  ASSUME QueueAssumption, QueueInv, BubbleDownEnd
  PROVE  QueueInv'
<1>1. /\ pc = "down" /\ ~Sinks /\ k \in 1..nelems /\ nelems' = nelems - 1
      /\ pqRet' = q[nelems] /\ pc' = "idle" /\ k' = 0 /\ q' = q
  BY DEF BubbleDownEnd, QueueInv, Placed
<1>2. nelems \in Nat /\ nelems >= 1 /\ NItems \in Nat /\ nelems <= NItems /\ k \in Nat
  BY <1>1, Slots DEF QueueInv
<1>3. PQueueTypeOK' /\ Placed' /\ HeapBridge'
  BY <1>1, <1>2 DEF QueueInv, PQueueTypeOK, Placed, HeapBridge
<1>4. ASSUME NEW i \in 2..(nelems - 1)
      PROVE  Key[q[i]] <= Key[q[i \div 2]]
  <2>1. CASE i \div 2 = k
    <3>1. 2 * k <= nelems - 1
      BY <1>2, <2>1, Parent
    <3>2. /\ Child \in 2..(nelems - 1)
          /\ Key[q[i]] <= Key[q[Child]]
      BY <1>1, <2>1, <3>1, ChildFacts
    <3>3. ~(Key[q[k]] < Key[q[Child]])
      BY <1>1, <3>1 DEF Sinks, Comp
    <3>4. PICK c \in 1..nelems : c = Child
      BY <1>2, <3>2
    <3>5. Key[q[i]] \in Int /\ Key[q[c]] \in Int /\ Key[q[k]] \in Int
      BY <1>1, <1>2, Slots DEF QueueInv
    <3>6. QED
      BY <2>1, <3>2, <3>3, <3>4, <3>5
  <2>2. CASE i \div 2 # k
    BY <1>1, <2>2 DEF QueueInv, HeapOrder, Ordered
  <2>3. QED
    BY <2>1, <2>2
<1>5. HeapOrder'
  BY <1>1, <1>4 DEF HeapOrder, Ordered
<1>6. QED
  BY <1>3, <1>5 DEF QueueInv

(* The calls that leave the array alone, and the steps that do nothing.    *)
LEMMA QuietQueueInv ==
  ASSUME QueueAssumption, QueueInv, PushFull \/ DelMaxEmpty \/ PeekMax \/ UNCHANGED pqVars
  PROVE  QueueInv'
<1>1. UNCHANGED <<q, nelems, pc, k>>
  BY DEF PushFull, DelMaxEmpty, PeekMax, pqVars
<1>2. pqRet' \in {0, -2, NULL} \cup Items
  <2>1. CASE PeekMax
    <3>1. 1 \in 1..nelems
      BY <2>1, Slots DEF PeekMax, QueueInv
    <3>2. QED
      BY <2>1, <3>1 DEF PeekMax, QueueInv, PQueueTypeOK
  <2>2. CASE PushFull \/ DelMaxEmpty \/ UNCHANGED pqVars
    BY <2>2 DEF PushFull, DelMaxEmpty, pqVars, QueueInv, PQueueTypeOK
  <2>3. QED
    BY <2>1, <2>2
<1>3. QED
  BY <1>1, <1>2 DEF QueueInv, PQueueTypeOK, Placed, HeapOrder, HeapBridge, Ordered

(* Every step keeps the invariant.                                         *)
LEMMA NextQueueInv ==
  ASSUME QueueAssumption, QueueInv, [PQueueNext]_pqVars
  PROVE  QueueInv'
BY PushQueueInv, BubbleUpQueueInv, BubbleUpEndQueueInv, DelMaxQueueInv, BubbleDownQueueInv, BubbleDownEndQueueInv,
   QuietQueueInv DEF PQueueNext, Sift

(* So it always holds.                                                     *)
LEMMA Inductive ==
  ASSUME QueueAssumption
  PROVE  PQueueSpec => []QueueInv
<1>1. PQueueInit => QueueInv
  BY InitQueueInv
<1>2. QueueInv /\ [PQueueNext]_pqVars => QueueInv'
  BY NextQueueInv
<1>3. QED
  BY <1>1, <1>2, PTL DEF PQueueSpec

(* Between calls the array of pqueue.c is a heap, and in the middle of     *)
(* bubble_up and bubble_down it is out of order in one place only: no item *)
(* or child is passed over by the sifting loops.                           *)
THEOREM HeapInOrder ==
  ASSUME QueueAssumption
  PROVE  PQueueSpec => []PQueueIsHeap
<1>1. QueueInv => PQueueIsHeap
  BY DEF QueueInv, PQueueIsHeap
<1>2. QED
  BY <1>1, Inductive, PTL

-----------------------------------------------------------------------------
(* The refinement: what the array holds, as a bag.                         *)
SlotsOf(e) == {i \in Held : q[i] = e}

(* The slot that the contents of slot m are in after an exchange of i, j.  *)
Exchange(i, j, m) == IF m = i THEN j ELSE IF m = j THEN i ELSE m

(* An exchange moves items and loses none.                                 *)
LEMMA SameCount ==
  ASSUME NEW n \in Nat, NEW i \in 1..n, NEW j \in 1..n,
         NEW S \in SUBSET (1..n), NEW T \in SUBSET (1..n),
         \A m \in S : Exchange(i, j, m) \in T, \A m \in T : Exchange(i, j, m) \in S
  PROVE  Cardinality(S) = Cardinality(T)
<1> DEFINE f == [m \in S |-> Exchange(i, j, m)]
<1>1. f \in Bijection(S, T)
  <2>1. f \in [S -> T]
    OBVIOUS
  <2>2. \A a, b \in S : f[a] = f[b] => a = b
    BY DEF Exchange
  <2>3. \A b \in T : Exchange(i, j, b) \in S /\ f[Exchange(i, j, b)] = b
    BY DEF Exchange
  <2>4. QED
    BY <2>1, <2>2, <2>3 DEF Bijection, Injection, Surjection, IsInjective
<1>2. ExistsBijection(S, T)
  BY <1>1 DEF ExistsBijection
<1>3. IsFiniteSet(S)
  <2>1. IsFiniteSet(1..n)
    BY FS_Interval
  <2>2. QED
    BY <2>1, FS_Subset
<1>4. QED
  BY <1>2, <1>3, FS_Bijection

(* The slots of each item are finitely many, so counting them is exact.    *)
LEMMA Counted ==
  ASSUME QueueAssumption, QueueInv, NEW e \in Items
  PROVE  /\ IsFiniteSet(SlotsOf(e)) /\ Cardinality(SlotsOf(e)) \in Nat
         /\ Contents[e] = Cardinality(SlotsOf(e))
         /\ Contents[e] > 0 <=> SlotsOf(e) # {}
<1>1. SlotsOf(e) \subseteq 1..nelems /\ nelems \in Nat
  BY Slots DEF SlotsOf, Held, QueueInv
<1>2. IsFiniteSet(SlotsOf(e))
  <2>1. IsFiniteSet(1..nelems)
    BY <1>1, FS_Interval
  <2>2. QED
    BY <1>1, <2>1, FS_Subset
<1>3. Cardinality(SlotsOf(e)) \in Nat /\ (Cardinality(SlotsOf(e)) = 0 <=> SlotsOf(e) = {})
  BY <1>2, FS_CardinalityType, FS_EmptySet
<1>4. Contents[e] = Cardinality(SlotsOf(e))
  BY DEF Contents, SlotsOf
<1>5. QED
  BY <1>2, <1>3, <1>4

(* A turn of a sifting loop, or the first step of u_pq_delmax, exchanges   *)
(* two items; the queue holds what it held.                                *)
LEMMA SwapKeepsContents ==
  ASSUME QueueAssumption, QueueInv, QueueInv', NEW i \in 1..nelems, NEW j \in 1..nelems,
         q' = Swap(i, j), nelems' = nelems,
         \A m \in 1..nelems : m \in Held <=> Exchange(i, j, m) \in Held'
  PROVE  Contents' = Contents
<1>1. /\ nelems \in Nat /\ Held \subseteq 1..nelems /\ Held' \subseteq 1..nelems
      /\ \A m \in 1..nelems : Exchange(i, j, m) \in 1..nelems
      /\ \A m \in 1..nelems : Exchange(i, j, Exchange(i, j, m)) = m
  BY Slots DEF Held, QueueInv, Exchange
<1>2. \A m \in 1..nelems : q'[Exchange(i, j, m)] = q[m]
  BY Swapped DEF QueueInv, Exchange
<1>3. ASSUME NEW e \in Items
      PROVE  Cardinality({m \in Held : q[m] = e}) = Cardinality({m \in Held' : q'[m] = e})
  <2>1. PICK S \in SUBSET (1..nelems) : S = {m \in Held : q[m] = e}
    BY <1>1
  <2>2. PICK T \in SUBSET (1..nelems) : T = {m \in Held' : q'[m] = e}
    BY <1>1
  <2>3. \A m \in S : Exchange(i, j, m) \in T
    BY <1>1, <1>2, <2>1, <2>2
  <2>4. \A m \in T : Exchange(i, j, m) \in S
    BY <1>1, <1>2, <2>1, <2>2
  <2>5. Cardinality(S) = Cardinality(T)
    BY <1>1, <2>3, <2>4, SameCount
  <2>6. QED
    BY <2>1, <2>2, <2>5
<1>4. QED
  BY <1>3 DEF Contents

(* Where the call is still sifting, the bag sees nothing happen.           *)
LEMMA SiftIsStutter ==
  ASSUME QueueAssumption, QueueInv, QueueInv', BubbleUp \/ DelMax \/ BubbleDown
  PROVE  UNCHANGED Bag!bagVars
<1>1. CASE BubbleUp
  <2>1. PICK h \in 1..nelems :
          /\ k \in 1..nelems /\ q' = Swap(k, h) /\ k' = h
          /\ pc = "up" /\ UNCHANGED <<nelems, pc, pqRet>>
    BY <1>1, Slots DEF BubbleUp, QueueInv, Placed
  <2>2. \A m \in 1..nelems : m \in Held <=> Exchange(k, h, m) \in Held'
    BY <2>1 DEF Held, Exchange
  <2>3. Contents' = Contents
    BY <2>1, <2>2, SwapKeepsContents
  <2>4. QED
    BY <2>1, <2>3 DEF Bag!bagVars, HeldTotal
<1>2. CASE DelMax
  <2>1. /\ 1 \in 1..nelems /\ nelems \in 1..nelems /\ q' = Swap(1, nelems)
        /\ pc = "idle" /\ pc' = "down" /\ UNCHANGED <<nelems, pqRet>>
    BY <1>2, Slots DEF DelMax, QueueInv
  <2>2. \A m \in 1..nelems : m \in Held <=> Exchange(1, nelems, m) \in Held'
    BY <2>1 DEF Held, Exchange
  <2>3. Contents' = Contents
    BY <2>1, <2>2, SwapKeepsContents
  <2>4. QED
    BY <2>1, <2>3 DEF Bag!bagVars, HeldTotal
<1>3. CASE BubbleDown
  <2>1. PICK c \in 1..nelems :
          /\ k \in 1..nelems /\ q' = Swap(k, c)
          /\ pc = "down" /\ UNCHANGED <<nelems, pc, pqRet>>
    BY <1>3, ChildFacts, Slots DEF BubbleDown, Sinks, QueueInv, Placed
  <2>2. \A m \in 1..nelems : m \in Held <=> Exchange(k, c, m) \in Held'
    BY <2>1 DEF Held, Exchange
  <2>3. Contents' = Contents
    BY <2>1, <2>2, SwapKeepsContents
  <2>4. QED
    BY <2>1, <2>3 DEF Bag!bagVars, HeldTotal
<1>4. QED
  BY <1>1, <1>2, <1>3

(* A pushed item is in the bag when bubble_up has placed it.               *)
LEMMA PushStutters ==
  ASSUME QueueAssumption, QueueInv, NEW e \in Items, Push(e)
  PROVE  UNCHANGED Bag!bagVars
<1>1. /\ pc = "idle" /\ pc' = "up" /\ nelems' = nelems + 1 /\ k' = nelems + 1 /\ pqRet' = pqRet
      /\ q' = [q EXCEPT ![nelems + 1] = e] /\ nelems \in Nat
  BY Slots DEF Push, QueueInv
<1>2. Held = 1..nelems /\ Held' = 1..nelems
  BY <1>1 DEF Held
<1>3. \A i \in 1..nelems : q'[i] = q[i]
  BY <1>1, Slots DEF QueueInv, PQueueTypeOK
<1>4. \A f \in Items : {i \in Held' : q'[i] = f} = {i \in Held : q[i] = f}
  BY <1>2, <1>3
<1>5. Contents' = Contents
  BY <1>4 DEF Contents
<1>6. QED
  BY <1>1, <1>5 DEF Bag!bagVars, HeldTotal

(* bubble_up ends: the sifted item is the one that is added.               *)
LEMMA BubbleUpEndIsPush ==
  ASSUME QueueAssumption, QueueInv, BubbleUpEnd
  PROVE  Bag!Push(q[k]) /\ q[k] \in Items
<1>1. /\ pc = "up" /\ pc' = "idle" /\ pqRet' = 0 /\ q' = q /\ nelems' = nelems
      /\ k \in 1..nelems /\ nelems \in Nat /\ nelems <= NItems /\ NItems \in Nat
      /\ q[k] \in Items
  BY Slots DEF BubbleUpEnd, QueueInv, Placed
<1>2. \A e \in Items : SlotsOf(e)' = IF e = q[k] THEN SlotsOf(e) \cup {k} ELSE SlotsOf(e)
  BY <1>1 DEF SlotsOf, Held
<1>3. \A e \in Items : k \notin SlotsOf(e)
  BY <1>1 DEF SlotsOf, Held
<1>4. \A e \in Items : Cardinality(SlotsOf(e)') =
                       IF e = q[k] THEN Cardinality(SlotsOf(e)) + 1 ELSE Cardinality(SlotsOf(e))
  BY <1>2, <1>3, Counted, FS_AddElement, SMTT(30)
<1>5. Contents' = [Contents EXCEPT ![q[k]] = @ + 1]
  BY <1>1, <1>4 DEF Contents, SlotsOf
<1>6. HeldTotal < NItems /\ HeldTotal' = HeldTotal + 1
  BY <1>1 DEF HeldTotal
<1>7. QED
  BY <1>1, <1>5, <1>6 DEF Bag!Push

(* bubble_down ends: the item in the last slot is the highest of the bag.  *)
LEMMA BubbleDownEndIsDelMax ==
  ASSUME QueueAssumption, QueueInv, BubbleDownEnd
  PROVE  Bag!DelMax
<1>1. /\ pc = "down" /\ pc' = "idle" /\ pqRet' = q[nelems] /\ q' = q /\ nelems' = nelems - 1
      /\ nelems \in Nat /\ nelems >= 1 /\ q[nelems] \in Items
      /\ \A i \in 1..nelems : Key[q[i]] <= Key[q[nelems]]
  BY Slots DEF BubbleDownEnd, QueueInv, Placed
<1>2. Bag!IsMax(q[nelems])
  <2>1. nelems \in SlotsOf(q[nelems])
    BY <1>1 DEF SlotsOf, Held
  <2>2. \A f \in Items : SlotsOf(f) # {} => Key[f] <= Key[q[nelems]]
    BY <1>1 DEF SlotsOf, Held
  <2>3. QED
    BY <1>1, <2>1, <2>2, Counted DEF Bag!IsMax
<1>3. \A e \in Items : SlotsOf(e)' = IF e = q[nelems] THEN SlotsOf(e) \ {nelems} ELSE SlotsOf(e)
  BY <1>1 DEF SlotsOf, Held
<1>4. nelems \in SlotsOf(q[nelems])
  BY <1>1 DEF SlotsOf, Held
<1>5. \A e \in Items : Cardinality(SlotsOf(e)') =
                       IF e = q[nelems] THEN Cardinality(SlotsOf(e)) - 1 ELSE Cardinality(SlotsOf(e))
  BY <1>3, <1>4, Counted, FS_RemoveElement
<1>6. Contents' = [Contents EXCEPT ![q[nelems]] = @ - 1]
  BY <1>1, <1>5 DEF Contents, SlotsOf
<1>7. HeldTotal' = HeldTotal - 1
  BY <1>1 DEF HeldTotal
<1>8. QED
  BY <1>1, <1>2, <1>6, <1>7 DEF Bag!DelMax

(* The calls that do not sift: a push on a full queue, an eviction from an *)
(* empty one, and a look at the top.                                       *)
LEMMA QuietIsBagStep ==
  ASSUME QueueAssumption, QueueInv, PushFull \/ DelMaxEmpty \/ PeekMax \/ UNCHANGED pqVars
  PROVE  BagStep
<1>1. UNCHANGED <<q, nelems, pc, k>>
  BY DEF PushFull, DelMaxEmpty, PeekMax, pqVars
<1>2. Contents' = Contents /\ HeldTotal' = HeldTotal
  BY <1>1 DEF Contents, HeldTotal, Held
<1>3. CASE PushFull
  <2>1. HeldTotal = NItems /\ pqRet' = -2
    BY <1>3 DEF PushFull, Full, HeldTotal
  <2>2. q[1] \in Items
    BY <1>3, Slots DEF PushFull, Full, QueueInv, QueueAssumption
  <2>3. QED
    BY <1>2, <2>1, <2>2 DEF BagStep, Bag!Next, Bag!Push
<1>4. CASE DelMaxEmpty
  <2>1. HeldTotal = 0 /\ pqRet' = NULL
    BY <1>4 DEF DelMaxEmpty, HeldTotal
  <2>2. QED
    BY <1>2, <2>1 DEF BagStep, Bag!Next, Bag!DelMax
<1>5. CASE PeekMax
  <2>1. /\ Held = 1..nelems /\ nelems \in Nat /\ nelems > 0 /\ pqRet' = q[1]
        /\ q[1] \in Items /\ 1 \in 1..nelems
    BY <1>5, Slots DEF PeekMax, Held, QueueInv
  <2>2. \A i \in 1..nelems : Key[q[i]] <= Key[q[1]]
    BY <1>5, Slots, TopIsHighest DEF PeekMax, QueueInv, HeapOrder
  <2>3. 1 \in SlotsOf(q[1])
    BY <2>1 DEF SlotsOf
  <2>4. \A f \in Items : SlotsOf(f) # {} => Key[f] <= Key[q[1]]
    BY <2>1, <2>2 DEF SlotsOf
  <2>5. Bag!IsMax(q[1])
    BY <2>1, <2>3, <2>4, Counted DEF Bag!IsMax
  <2>6. QED
    BY <1>2, <2>1, <2>5 DEF BagStep, Bag!Next, Bag!PeekMax
<1>6. CASE UNCHANGED pqVars
  BY <1>2, <1>6 DEF BagStep, Bag!bagVars, pqVars
<1>7. QED
  BY <1>3, <1>4, <1>5, <1>6

(* Every step is one of the bag, or none.                                  *)
LEMMA NextIsBagStep ==
  ASSUME QueueAssumption, QueueInv, [PQueueNext]_pqVars
  PROVE  BagStep
<1>0. QueueInv'
  BY NextQueueInv
<1>1. CASE \E e \in Items : Push(e)
  BY <1>1, PushStutters DEF BagStep
<1>2. CASE BubbleUp \/ DelMax \/ BubbleDown
  BY <1>0, <1>2, SiftIsStutter DEF BagStep
<1>3. CASE BubbleUpEnd
  BY <1>3, BubbleUpEndIsPush DEF BagStep, Bag!Next
<1>4. CASE BubbleDownEnd
  BY <1>4, BubbleDownEndIsDelMax DEF BagStep, Bag!Next
<1>5. CASE PushFull \/ DelMaxEmpty \/ PeekMax \/ UNCHANGED pqVars
  BY <1>5, QuietIsBagStep
<1>6. QED
  BY <1>1, <1>2, <1>3, <1>4, <1>5 DEF PQueueNext, Sift

(* The priority queue of pqueue.c is a bag of bounded size: u_pq_delmax    *)
(* and u_pq_peekmax return an item that no other exceeds, each item that   *)
(* was pushed is evicted as often as it was pushed, and the turns of the   *)
(* sifting loops lose and duplicate nothing.                               *)
THEOREM QueueIsBag ==
  ASSUME QueueAssumption
  PROVE  PQueueSpec => PQueueIsBag
<1>1. PQueueInit => Bag!Init
  <2> SUFFICES ASSUME PQueueInit
               PROVE  Bag!Init
    OBVIOUS
  <2>1. Held = {} /\ HeldTotal = 0 /\ pqRet = 0
    BY DEF PQueueInit, Held, HeldTotal
  <2>2. \A e \in Items : Cardinality({i \in Held : q[i] = e}) = 0
    BY <2>1, FS_EmptySet
  <2>3. QED
    BY <2>1, <2>2 DEF Bag!Init, Contents
<1>2. QueueInv /\ [PQueueNext]_pqVars => BagStep
  BY NextIsBagStep
<1>3. QED
  BY <1>1, <1>2, Inductive, PTL DEF PQueueSpec, PQueueIsBag
=============================================================================
