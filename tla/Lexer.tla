-------------------------------- MODULE Lexer --------------------------------
(***************************************************************************)
(* The scanner of srcs/toolbox/lexer.c.  A text is a sequence of           *)
(* characters, the cursor a position in it (one past the end at the end of *)
(* the text, where the NUL is), and the position Err a failed call.        *)
(***************************************************************************)
EXTENDS Integers, Sequences

LOCAL INSTANCE FiniteSetsExt

CONSTANT TokenSz    \* U_TOKEN_SZ

Err == 0
Digit == {"0", "1", "2"}
HexDigit == Digit \cup {"a", "b", "f"}
Space == {" ", "TAB"}

Peek(t, p) == IF p \in DOMAIN t THEN t[p] ELSE "NUL"
Eot(t, p) == p > Len(t)
EatWs(t, p) ==
  IF Eot(t, p) THEN Err ELSE Min({q \in p .. Len(t) + 1 : Peek(t, q) \notin Space})
LexNext(t, p) == IF Eot(t, p) THEN Err ELSE p + 1
LexSkip(t, p) == IF Eot(t, p) THEN Err ELSE EatWs(t, p + 1)
ExpectChar(t, p, c) == IF Peek(t, p) = c THEN LexNext(t, p) ELSE Err

\* The characters from l to r, unless they do not fit: then the caller's
\* buffer is left as it was.
StrlenMatch(l, r) == r - l + 1
GetMatch(t, l, r) ==
  IF StrlenMatch(l, r) >= TokenSz THEN <<"garbage">> ELSE SubSeq(t, l, Min({r, Len(t)}))
=============================================================================
