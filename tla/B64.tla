--------------------------------- MODULE B64 ---------------------------------
(***************************************************************************)
(* Base64 (srcs/toolbox/b64.c).  A character of the alphabet is its index  *)
(* 0 .. 63; Pad is "=", Junk any other of the 128 characters of ASCII, the *)
(* NUL among them, and High one above 127: the table of the characters is  *)
(* indexed with a char, which is negative for High on most machines, so    *)
(* that what is read is whatever the build put before the table.           *)
(***************************************************************************)
EXTENDS Integers, Sequences, FiniteSets

CONSTANTS
  Bytes,      \* byte values
  MaxBytes,   \* bytes in an input
  BeforeTable \* numbers that may lie before the table

B64Assumption == Bytes \subseteq 0 .. 255 /\ MaxBytes \in Nat /\ BeforeTable \subseteq Nat

VARIABLES
  bytes,      \* an input
  before      \* what lies before the table; 0 too where a char has no sign
b64Vars == <<bytes, before>>

Pad == 64
Junk == 65
High == 66
Wide == 65536     \* a size_t, wide enough for the shifts below
D(c) == IF c < 64 THEN c + 1 ELSE IF c = High THEN before ELSE 0
IsBase64(c) == D(c) # 0
Val(c) == (D(c) - 1) % Wide

\* The low byte of x | y.
Or(x, y) ==
  LET bit(p) == IF (x \div p) % 2 = 1 \/ (y \div p) % 2 = 1 THEN p ELSE 0
  IN  bit(1) + bit(2) + bit(4) + bit(8) + bit(16) + bit(32) + bit(64) + bit(128)

Min2(a, b) == IF a < b THEN a ELSE b
Groups(s, n) == [k \in 1 .. (Len(s) + n - 1) \div n |-> SubSeq(s, n * (k - 1) + 1, Min2(n * k, Len(s)))]
At(s, i) == IF i \in DOMAIN s THEN s[i] ELSE 0

ChunkEncode(in) ==
  LET a == At(in, 1)  b == At(in, 2)  c == At(in, 3)
  IN  << a \div 4, (a % 4) * 16 + b \div 16,
         IF Len(in) > 1 THEN (b % 16) * 4 + c \div 64 ELSE Pad,
         IF Len(in) > 2 THEN c % 64 ELSE Pad >>

\* Mutant: the third character is padded too early.
ChunkDecodeShort(in) ==
  LET v(i) == Val(IF i \in DOMAIN in THEN in[i] ELSE Junk)
  IN  <<Or(v(1) * 4, v(2) \div 16), Or((v(2) % 16) * 16, 0), Or((v(3) % 4) * 64, v(4))>>

\* Three bytes are always stored, the ones that padding stands for too.
ChunkDecode(in) ==
  LET v(i) == Val(IF i \in DOMAIN in THEN in[i] ELSE Junk)
  IN  <<Or(v(1) * 4, v(2) \div 16), Or((v(2) % 16) * 16, v(3) \div 4), Or((v(3) % 4) * 64, v(4))>>

\* <<>> when the text does not fit; a NUL is added if there is room for it.
Encode(in, room) ==
  LET groups == Groups(in, 3)
      out == [i \in 1 .. 4 * Len(groups) |-> ChunkEncode(groups[(i - 1) \div 4 + 1])[((i - 1) % 4) + 1]]
  IN  IF in = <<>> \/ Len(out) > room THEN <<>> ELSE out

\* A group of characters: "out" holds the bytes that count, "span" says how
\* far bytes were stored.
Decoded(d, in, room) ==
  LET pad == Cardinality({i \in DOMAIN in : in[i] = Pad})
      bad == \E i \in DOMAIN in : in[i] # Pad /\ ~IsBase64(in[i])
      n == (3 - pad) % Wide
  IN  IF ~d.ok \/ bad \/ room - Len(d.out) < n THEN [d EXCEPT !.ok = FALSE]
      ELSE [ok |-> TRUE, out |-> d.out \o SubSeq(ChunkDecode(in), 1, n), span |-> Len(d.out) + 3]

DecodeFrom(groups, room) ==
  LET after[k \in 0 .. Len(groups)] ==
        IF k = 0 THEN [ok |-> TRUE, out |-> <<>>, span |-> 0]
        ELSE Decoded(after[k - 1], groups[k], room)
  IN  after[Len(groups)]
Decode(in, room) ==
  IF in = <<>> THEN [ok |-> FALSE, out |-> <<>>, span |-> 0] ELSE DecodeFrom(Groups(in, 4), room)

-----------------------------------------------------------------------------
B64Init == bytes = <<>> /\ before \in BeforeTable \cup {0}
B64Next ==
  /\ Len(bytes) < MaxBytes
  /\ \E b \in Bytes : bytes' = Append(bytes, b)
  /\ UNCHANGED before

B64Spec == B64Init /\ [][B64Next]_b64Vars

\* U_B64_LENGTH
TextLength(n) == 4 * ((n + 2) \div 3)

(* Any n bytes are encoded in a buffer of U_B64_LENGTH(n) characters, but  *)
(* not in one that is one shorter; the text decodes to the same bytes, in  *)
(* a buffer as long as the text and in any other that has room for them,   *)
(* and nothing is stored past the end of the first; a buffer that is one   *)
(* short of the bytes, or an ASCII character outside of the alphabet,      *)
(* makes the decoding fail.  Of characters above 127, see OnlyBase64.      *)
B64RoundTrip ==
  bytes # <<>> =>
    LET n == TextLength(Len(bytes))
        text == Encode(bytes, n)
    IN  /\ Len(text) = n /\ Encode(bytes, n - 1) = <<>>
        /\ \A room \in Len(bytes) .. n : Decode(text, room).ok /\ Decode(text, room).out = bytes
        /\ Decode(text, n).span <= n
        /\ ~Decode(text, Len(bytes) - 1).ok
        /\ \A i \in DOMAIN text : ~Decode([text EXCEPT ![i] = Junk], n).ok

(* The table "also works as a truth table for is_base64()" (b64.c:16): no  *)
(* text with a character that is not in the alphabet is decoded.           *)
OnlyBase64 ==
  bytes # <<>> =>
    LET text == Encode(bytes, TextLength(Len(bytes)))
    IN  \A i \in DOMAIN text, c \in {Junk, High} :
          ~Decode([text EXCEPT ![i] = c], Len(text)).ok
=============================================================================
