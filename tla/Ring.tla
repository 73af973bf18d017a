-------------------------------- MODULE Ring --------------------------------
(***************************************************************************)
(* The ring buffer of srcs/toolbox/rb.c in its three variants.  The        *)
(* contiguous ones own 2 * sz bytes of address space whose second half     *)
(* shows the first, either because both map the same file (mmap) or        *)
(* because mirror() repeats every write (malloc with                       *)
(* U_RB_OPT_USE_CONTIGUOUS_MEM); the wrapped one (malloc without it) owns  *)
(* sz bytes and splits its transfers at the end of the buffer.             *)
(***************************************************************************)
EXTENDS Integers, Sequences

CONSTANTS Byte,     \* values of a byte
          Zero,     \* the byte u_zalloc and ftruncate fill the memory with
          Junk,     \* what lies beyond the end of a wrapped buffer
          Size,     \* rb->sz
          Options,  \* values of opts that u_rb_create is called with
          MaxLen    \* bound: longest request

ASSUME SizeAssumption == Size \in Nat \ {0}
ASSUME ByteAssumption == Zero \in Byte /\ Junk \notin Byte
ASSUME OptionsAssumption == Options \subseteq SUBSET {"MALLOC", "CONTIGUOUS"}
ASSUME MaxLenAssumption == MaxLen \in Nat

VARIABLES opts,    \* rb->opts
          mem,     \* the bytes at rb->base
          wr_off, rd_off, ready,
          ret,     \* return value of the last call; 0 for a NULL fast_read
          out,     \* bytes copied, or pointed, to the caller
          expect,  \* history: the oldest bytes, as many as out should hold
          fault    \* an undefined step: none, overrun or null_call

vars == <<opts, mem, wr_off, rd_off, ready, ret, out, expect, fault>>

Address == 0..(2 * Size - 1)

(* Which methods create_mmap and create_malloc install.                    *)
Contiguous == "MALLOC" \notin opts \/ "CONTIGUOUS" \in opts

(* u_rb_create *)
Init ==
  /\ opts \in Options
  /\ mem = [i \in Address |-> IF i < Size \/ Contiguous THEN Zero ELSE Junk]
  /\ wr_off = 0 /\ rd_off = 0 /\ ready = 0
  /\ ret = 0 /\ out = <<>> /\ expect = <<>>
  /\ fault = "none"

(* u_rb_avail *)
Avail == Size - ready

Min2(m, n) == IF m <= n THEN m ELSE n

(* memcpy(base + off, b + from, n) *)
Copy(m, off, b, from, n) ==
  [i \in Address |-> IF off <= i /\ i < off + n THEN b[i - off + from + 1]
                                               ELSE m[i]]

-----------------------------------------------------------------------------

(* Two mappings of one file: a byte written shows up at both its addresses *)
Twin(m, n) ==
  [i \in Address |->
     LET j == IF i < Size THEN i + Size ELSE i - Size
     IN IF wr_off <= j /\ j < wr_off + n THEN m[j] ELSE m[i]]

(* Mutant: a write that crosses the middle only mirrors its left part.     *)
MirrorNoCross(m, b, n) ==
  IF wr_off >= Size THEN Copy(m, wr_off - Size, b, 0, n)
  ELSE Copy(m, wr_off + Size, b, 0, Min2(n, Size - wr_off))

(* mirror: the written bytes lie in the left half, in the right half, or   *)
(* cross the middle.                                                       *)
Mirror(m, b, n) ==
  IF wr_off + n <= Size THEN Copy(m, wr_off + Size, b, 0, n)
  ELSE IF wr_off >= Size THEN Copy(m, wr_off - Size, b, 0, n)
  ELSE LET left == Size - wr_off
       IN Copy(Copy(m, wr_off + Size, b, 0, left), 0, b, left, n - left)

(* write_contiguous *)
WriteContiguous(b, n) ==
  LET written == Copy(mem, wr_off, b, 0, n)
  IN /\ mem' = IF "MALLOC" \in opts THEN Mirror(written, b, n)
                                    ELSE Twin(written, n)
     /\ wr_off' = wr_off + n

(* is_wrapped *)
IsWrapped == rd_off > wr_off

(* Mutant: the head of the buffer is given the start of the data again.    *)
StoreFromStart(b, n) ==
  LET rspace == Size - wr_off
  IN IF IsWrapped \/ rspace >= n THEN Copy(mem, wr_off, b, 0, n)
     ELSE Copy(Copy(mem, wr_off, b, 0, rspace), 0, b, 0, n - rspace)

(* The body of write_wrapped: in one piece, or tail and head.              *)
Store(b, n) ==
  LET rspace == Size - wr_off
  IN IF IsWrapped \/ rspace >= n THEN Copy(mem, wr_off, b, 0, n)
     ELSE Copy(Copy(mem, wr_off, b, 0, rspace), 0, b, rspace, n - rspace)

(* write_wrapped *)
WriteWrapped(b, n) ==
  /\ mem' = Store(b, n)
  /\ wr_off' = (wr_off + n) % Size

(* u_rb_write *)
Write(b) ==
  LET n == Min2(Avail, Len(b))
  IN /\ fault = "none"
     /\ Len(b) <= Size
     /\ IF Contiguous THEN WriteContiguous(b, n) ELSE WriteWrapped(b, n)
     /\ ready' = ready + n
     /\ ret' = n /\ out' = <<>> /\ expect' = <<>>
     /\ UNCHANGED <<opts, rd_off, fault>>

(* dbg_return_if (b_sz > u_rb_size(rb), -1), in each of the methods        *)
Refuse(want) ==
  /\ fault = "none"
  /\ want > Size
  /\ ret' = -1 /\ out' = <<>> /\ expect' = <<>>
  /\ UNCHANGED <<opts, mem, wr_off, rd_off, ready, fault>>

-----------------------------------------------------------------------------
(* Mutant: the write offset is not brought back with the read offset.      *)
ReadIncrKeepsWrite(n) ==
  /\ rd_off' = IF rd_off + n >= Size THEN rd_off + n - Size ELSE rd_off + n
  /\ wr_off' = wr_off

(* read_incr_contiguous: both offsets come back when the read offset       *)
(* enters the second half.                                                 *)
ReadIncr(n) ==
  IF rd_off + n >= Size
  THEN rd_off' = rd_off + n - Size /\ wr_off' = wr_off - Size
  ELSE rd_off' = rd_off + n /\ wr_off' = wr_off

(* memcpy(b, read_addr(rb), n) *)
Bytes(n) == [i \in 1..n |-> mem[rd_off + i - 1]]

(* The bytes stored, oldest first.                                         *)
Stored(n) == [i \in 1..n |-> mem[(rd_off + i - 1) % Size]]

(* The one-piece branch of read_wrapped: nothing to read, not wrapped, or  *)
(* the tail holds no more than what is to be read.                         *)
ReadWhole(n) == n = 0 \/ ~IsWrapped \/ Size - rd_off <= n

(* u_rb_read through read_contiguous or the one-piece branch of            *)
(* read_wrapped.                                                           *)
Read(want) ==
  LET n == Min2(ready, want)
  IN /\ fault = "none"
     /\ want <= Size
     /\ IF Contiguous THEN ReadIncr(n)
        ELSE /\ ReadWhole(n)
             /\ rd_off' = (rd_off + n) % Size /\ wr_off' = wr_off
     /\ out' = Bytes(n) /\ expect' = Stored(n)
     /\ ready' = ready - n
     /\ ret' = n
     /\ UNCHANGED <<opts, mem, fault>>

(* The other branch of read_wrapped: rem = to_be_read - rspace is          *)
(* negative, as a size_t a copy without end.                               *)
ReadOverrun(want) ==
  /\ fault = "none"
  /\ want <= Size
  /\ ~Contiguous /\ ~ReadWhole(Min2(ready, want))
  /\ fault' = "overrun"
  /\ UNCHANGED <<opts, mem, wr_off, rd_off, ready, ret, out, expect>>

(* u_rb_fast_read through fast_read: a pointer to the same bytes.          *)
FastRead(want) ==
  /\ "CONTIGUOUS" \in opts
  /\ Read(want)

(* NULL, and nothing moves, without the option or for too large a request  *)
FastReadNull(want) ==
  /\ fault = "none"
  /\ Contiguous
  /\ "CONTIGUOUS" \notin opts \/ want > Size
  /\ ret' = 0 /\ out' = <<>> /\ expect' = <<>>
  /\ UNCHANGED <<opts, mem, wr_off, rd_off, ready, fault>>

(* u_rb_fast_read tests cb_write and calls cb_fast_read, which is NULL for *)
(* a wrapped buffer.                                                       *)
FastReadWrapped ==
  /\ fault = "none"
  /\ ~Contiguous
  /\ fault' = "null_call"
  /\ UNCHANGED <<opts, mem, wr_off, rd_off, ready, ret, out, expect>>

(* u_rb_clear *)
Clear ==
  /\ fault = "none"
  /\ wr_off' = 0 /\ rd_off' = 0 /\ ready' = 0
  /\ ret' = 0 /\ out' = <<>> /\ expect' = <<>>
  /\ UNCHANGED <<opts, mem, fault>>

Requests == UNION {[1..n -> Byte] : n \in 0..MaxLen}

Next == \/ \E b \in Requests : Write(b)
        \/ \E want \in 0..MaxLen :
             \/ Read(want) \/ ReadOverrun(want)
             \/ FastRead(want) \/ FastReadNull(want) \/ Refuse(want)
        \/ FastReadWrapped
        \/ Clear

Spec == Init /\ [][Next]_vars

-----------------------------------------------------------------------------
TypeOK ==
  /\ opts \in Options
  /\ mem \in [Address -> Byte \cup {Junk}]
  /\ wr_off \in Nat /\ rd_off \in Nat /\ ready \in Nat
  /\ ret \in Int
  /\ out \in Seq(Byte \cup {Junk}) /\ expect \in Seq(Byte \cup {Junk})
  /\ fault \in {"none", "overrun", "null_call"}

(* The three counters never disagree, so that the size_t subtractions of   *)
(* u_rb_avail and read_incr_contiguous cannot wrap around: the write       *)
(* offset is ready bytes after the read offset, which stays in the first   *)
(* half; in a wrapped buffer modulo the size, where ready tells apart the  *)
(* full and the empty buffer.                                              *)
OffsetsAgree ==
  /\ rd_off < Size
  /\ ready <= Size
  /\ IF Contiguous THEN wr_off = rd_off + ready
     ELSE wr_off < Size /\ wr_off \in {rd_off + ready, rd_off + ready - Size}

(* Across any number of wrap-arounds the two halves of a contiguous buffer *)
(* show the same bytes, and no write touches what lies beyond a wrapped    *)
(* one.                                                                    *)
Mirrored ==
  \A i \in 0..(Size - 1) : /\ mem[i] \in Byte
                           /\ mem[i + Size] = IF Contiguous THEN mem[i] ELSE Junk

(* The buffer is a FIFO of bytes: the bytes stored are the queue of        *)
(* RingFifo, and every call on a contiguous buffer, and every write to a   *)
(* wrapped one, does to them what that call of the FIFO does.              *)
Fifo == INSTANCE RingFifo WITH queue <- Stored(ready)

FifoStep ==
  /\ \A b \in Requests : Write(b) => Fifo!Write(b)
  /\ Contiguous => /\ \A want \in 0..MaxLen :
                        /\ Read(want) => Fifo!Read(want)
                        /\ Refuse(want) \/ FastReadNull(want) => Fifo!Refuse
                   /\ Clear => Fifo!Clear

RingIsFifo == Fifo!Init /\ [][~UNCHANGED vars => FifoStep]_vars

(* u_rb_read should "read b_sz bytes of data from the ring buffer rb and   *)
(* copy it to b" (rb.c:230): the bytes that were written first.            *)
ReadsOldest == out = expect /\ fault # "overrun"

(* u_rb_fast_read returns "the address to the start of read data, or NULL  *)
(* on error" (rb.c:272): it does not jump to nowhere.                      *)
NoNullCall == fault # "null_call"
=============================================================================
