--------------------------------- MODULE Buf ---------------------------------
(***************************************************************************)
(* The buffer of srcs/toolbox/buf.c and the string of srcs/toolbox/str.c.   *)
(* Both keep a malloc'd block of `size' + 1 cells (none while size is 0)    *)
(* and the length in use.  A cell holds a byte, NUL, or Unknown while       *)
(* nobody wrote it.  The histories say how much the object should hold.     *)
(***************************************************************************)
EXTENDS Integers, Sequences

CONSTANTS
  Byte,       \* the only byte value: positions are told apart by the length
  BlockSize,  \* BLOCK_SIZE of str.c
  PrintfGrow, \* the 128 of u_buf_printf
  MaxBufLen,  \* bound on the length of the content
  Outputs     \* lengths of the strings printed, appended or loaded

BufAssumption ==
  /\ BlockSize \in Nat \ {0} /\ PrintfGrow \in Nat \ {0} /\ MaxBufLen \in Nat
  /\ Outputs \subseteq Nat

VARIABLES
  ubuf,   \* the u_buf_t: cells, size, len
  bwant,  \* history: the length ubuf should have
  print,  \* the output u_buf_printf is at work on: its length, 0 when idle
  str,    \* the u_string_t: cells, size, len, shift_cnt
  swant   \* history: the length str should have

bufVars == <<ubuf, bwant, print, str, swant>>

NUL == "nul"
Unknown == "unknown"
NoCells == [i \in {} |-> NUL]
Put(cells, i, x) == [j \in DOMAIN cells \cup {i} |-> IF j = i THEN x ELSE cells[j]]
Copy(cells, at, n) ==
  [j \in DOMAIN cells \cup (at..(at + n - 1)) |->
     IF j \in at..(at + n - 1) THEN Byte ELSE cells[j]]
Realloc(cells, n) ==
  [j \in 0..(n - 1) |-> IF j \in DOMAIN cells THEN cells[j] ELSE Unknown]
Smaller(a, b) == IF a < b THEN a ELSE b

\* At most avail cells: the output, cut short, and a NUL.
vsnprintf(cells, at, avail, n) ==
  IF avail = 0 THEN cells
  ELSE LET k == Smaller(n, avail - 1) IN Put(Copy(cells, at, k), at + k, NUL)

\* u_buf_reserve, u_string_reserve
Reserve(b, n) ==
  IF n <= b.size THEN b
  ELSE [b EXCEPT !.cells = Put(Realloc(b.cells, n + 1), n, NUL), !.size = n]

BufCreate == [cells |-> NoCells, size |-> 0, len |-> 0]

BufAppend(b, n) ==
  LET r == IF b.size - b.len < n THEN Reserve(b, b.size + b.len + 2 * n) ELSE b
  IN  [r EXCEPT !.cells = Put(Copy(r.cells, r.len, n), r.len + n, NUL), !.len = @ + n]

BufClear(b) == [b EXCEPT !.len = 0]
BufSet(b, n) == BufAppend(BufClear(b), n)

\* The file holds n > 0 bytes; reading it may fail half way, after the old
\* content was dropped.
BufLoad(b, n, ok) ==
  LET r == Reserve(BufClear(b), n)
  IN  IF ok THEN [r EXCEPT !.cells = Copy(r.cells, 0, n), !.len = n] ELSE r

BufShrink(b, n) == [b EXCEPT !.len = n]
BufDetach == BufCreate
BufFree == BufCreate

PrintfDone(b, n) ==
  [b EXCEPT !.cells = vsnprintf(b.cells, b.len, b.size - b.len, n), !.len = @ + n]

\* The output did not fit: more room is asked for and the NUL put back.
PrintfAgain(b, n) ==
  LET w == [b EXCEPT !.cells = vsnprintf(b.cells, b.len, b.size - b.len, n)]
      r == Reserve(w, w.len + Smaller(PrintfGrow, n + 1))
  IN  [r EXCEPT !.cells = Put(r.cells, r.len, NUL)]

-----------------------------------------------------------------------------
StringCreate == [cells |-> NoCells, size |-> 0, len |-> 0, shift |-> 0]
StringFree == StringCreate

\* n << k
ShiftLeft(n, k) ==
  LET twice[i \in 0..k] == IF i = 0 THEN n ELSE 2 * twice[i - 1] IN twice[k]

\* The loop over nsz: the size it arrives at, the first one above min, and
\* the shift count it leaves.  Each round adds something.
Grow(s, min) ==
  LET nsz[i \in 0..(min + 1)] ==
        IF i = 0 THEN [size |-> s.size, shift |-> s.shift]
        ELSE LET g == nsz[i - 1]
             IN  IF g.size > min THEN g
                 ELSE [size |-> g.size + ShiftLeft(BlockSize, g.shift), shift |-> g.shift + 1]
  IN  nsz[min + 1]

\* Mutant: the room of the terminating NUL is forgotten.
NeedsRoomNoNul(s, n) == s.len + n > s.size + 1
NeedsRoom(s, n) == s.len + n + 1 > s.size

StringAppend(s, n) ==
  LET g == Grow(s, s.len + n + 1)
      r == IF NeedsRoom(s, n) THEN [Reserve(s, g.size) EXCEPT !.shift = g.shift] ELSE s
  IN  IF n = 0 THEN s
      ELSE [r EXCEPT !.cells = Put(Copy(r.cells, r.len, n), r.len + n, NUL), !.len = @ + n]

StringClear(s) ==
  IF s.size = 0 THEN s ELSE [s EXCEPT !.cells = Put(s.cells, 0, NUL), !.len = 0]
StringSet(s, n) == StringAppend(StringClear(s), n)
StringCopy(s, n) == StringAppend(StringClear(s), n)

\* u_trim leaves the first n bytes.
StringTrim(s, n) ==
  IF s.len = 0 THEN s ELSE [s EXCEPT !.cells = Put(s.cells, n, NUL), !.len = n]
StringSetLength(s, n) ==
  IF n < s.len THEN [s EXCEPT !.cells = Put(s.cells, n, NUL), !.len = n] ELSE s

\* The rounds after `again:': the second finds room, or StrHolds would fail.
Printed(s, n) ==
  LET w == [s EXCEPT !.cells = vsnprintf(s.cells, s.len, s.size - s.len, n)]
      r == Reserve(w, w.size + w.len + 2 * n + 1)
      t == [r EXCEPT !.cells = Put(r.cells, r.len, NUL)]
  IN  IF n < s.size - s.len THEN [w EXCEPT !.len = @ + n]
      ELSE [t EXCEPT !.cells = vsnprintf(t.cells, t.len, t.size - t.len, n), !.len = @ + n]

StringVprintf(s, clear, n) == Printed(IF clear THEN StringClear(s) ELSE s, n)

-----------------------------------------------------------------------------
BufInit ==
  ubuf = BufCreate /\ bwant = 0 /\ print = 0 /\ str = StringCreate /\ swant = 0

OnBuf(b, n) == ubuf' = b /\ bwant' = n /\ UNCHANGED <<print, str, swant>>
OnStr(s, n) == str' = s /\ swant' = n /\ UNCHANGED <<ubuf, bwant, print>>

BufCalls ==
  /\ print = 0
  /\ \/ \E n \in Outputs :
          \/ n > 0 /\ bwant + n <= MaxBufLen /\ OnBuf(BufAppend(ubuf, n), bwant + n)
          \/ n > 0 /\ OnBuf(BufSet(ubuf, n), n)
          \/ OnBuf(Reserve(ubuf, n), bwant)
          \/ n > 0 /\ OnBuf(BufLoad(ubuf, n, TRUE), n)
          \/ n > 0 /\ OnBuf(BufLoad(ubuf, n, FALSE), 0)
     \/ \E n \in 0..ubuf.len : OnBuf(BufShrink(ubuf, n), n)
     \/ OnBuf(BufClear(ubuf), 0)
     \/ OnBuf(BufDetach, 0) \/ OnBuf(BufFree, 0)

BufPrintf(n) ==
  /\ print = 0 /\ n > 0 /\ bwant + n <= MaxBufLen
  /\ print' = n
  /\ UNCHANGED <<ubuf, bwant, str, swant>>

BufPrintfRound ==
  /\ print > 0
  /\ IF print >= ubuf.size - ubuf.len
     THEN ubuf' = PrintfAgain(ubuf, print) /\ UNCHANGED <<bwant, print>>
     ELSE ubuf' = PrintfDone(ubuf, print) /\ bwant' = bwant + print /\ print' = 0
  /\ UNCHANGED <<str, swant>>

StrNext ==
  \/ \E n \in Outputs :
       \/ swant + n <= MaxBufLen /\ OnStr(StringAppend(str, n), swant + n)
       \/ swant + n <= MaxBufLen /\ OnStr(StringVprintf(str, FALSE, n), swant + n)
       \/ OnStr(StringVprintf(str, TRUE, n), n)
       \/ OnStr(StringSet(str, n), n) \/ OnStr(StringCopy(str, n), n)
       \/ OnStr(Reserve(str, n), swant) \/ OnStr(Reserve(str, MaxBufLen + n), swant)
  \/ \E n \in 0..str.len : OnStr(StringTrim(str, n), n) \/ OnStr(StringSetLength(str, n), n)
  \/ OnStr(StringClear(str), 0)
  \/ OnStr(StringFree, 0)

BufNext == BufCalls \/ (\E n \in Outputs : BufPrintf(n)) \/ BufPrintfRound

BufSpec == BufInit /\ [][BufNext \/ StrNext]_bufVars

\* The caller of u_buf_printf waits for its loop to end.
BufFair == WF_bufVars(BufPrintfRound)

-----------------------------------------------------------------------------
Holds(b, n) ==
  /\ b.len = n /\ n <= b.size
  /\ DOMAIN b.cells = IF b.size = 0 THEN {} ELSE 0..b.size
  /\ \A i \in 0..(n - 1) : b.cells[i] = Byte
  /\ b.size > 0 => b.cells[b.size] = NUL

(* However a buffer is appended to, printed to, reloaded, shrunk and       *)
(* enlarged, it holds what was asked for in a block that is large enough:  *)
(* no byte is written outside the block (u_buf_append, u_buf_printf), and  *)
(* the NUL that u_buf_reserve writes into its last cell stays there.       *)
BufHolds == Holds(ubuf, bwant)

(* The same of a string, which is moreover NUL-terminated at its length    *)
(* whatever the order of the calls and of the block growths                *)
(* (u_string_append, u_string_do_vprintf).  The exception is a string that *)
(* was reserved room and given nothing yet (str.c:319-339): its length is  *)
(* 0 and its cells are what realloc returned, up to the NUL in the last.   *)
ReservedOnly(s) == s.len = 0 /\ s.cells[0] = Unknown
StrHolds ==
  /\ Holds(str, swant)
  /\ str.size > 0 => str.cells[str.len] = NUL \/ ReservedOnly(str)

(* "Return the NUL-terminated C string handled by the given object"        *)
(* (str.c:165): what u_string_c hands out spells the string.               *)
StrTerminated == str.size > 0 => str.cells[str.len] = NUL

(* Buffers and strings hold what was asked for, in their block.            *)
TextHeld == BufHolds /\ StrHolds

(* A call of u_buf_printf returns, whatever was done to the buffer before: *)
(* each round that finds the block too small makes it larger.  This is     *)
(* said of the outputs for which it is so: those shorter than PrintfGrow   *)
(* (128 characters in the code), and longer ones that fit at once.  Of any *)
(* other the code asks for the same PrintfGrow again in each round         *)
(* (buf.c:368): see PrintfReturns.                                         *)
PrintfEnds ==
  (print > 0 /\ (print < PrintfGrow \/ print < ubuf.size - ubuf.len)) ~> (print = 0)

(* "enlarge the buffer (make it at least 128 bytes bigger) ... try again   *)
(* with a bigger buffer" (buf.c:367, 375): a call of any length returns.   *)
PrintfReturns == (print > 0) ~> (print = 0)
=============================================================================
