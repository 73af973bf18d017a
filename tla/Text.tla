-------------------------------- MODULE Text --------------------------------
(***************************************************************************)
(* Strings and numbers: the helpers of srcs/toolbox/misc.c, the strsep,    *)
(* strtok_r, strlcpy and strlcat of srcs/missing, and the reading of       *)
(* variables of srcs/toolbox/env.c.  strtol and its kin are external.      *)
(***************************************************************************)
EXTENDS Integers, Sequences

LOCAL INSTANCE FiniteSetsExt
LOCAL INSTANCE SequencesExt

CONSTANTS
  TextChars,  \* characters of the strings
  MaxText,    \* their length
  SlotsDflt, SlotsIncr,   \* TV_NSLOTS_DFLT and TV_NSLOTS_INCR
  LineSz,     \* BUFSZ of u_env_init
  IntMax, LongMax, UMax   \* largest int, long and uintmax_t

VARIABLES
  str,        \* a string
  number      \* [value, errno]: what a string stands for, and a stale errno
textVars == <<str, number>>

Delims == {":", "/"}
Sep == "/"
Blank(c) == c = " "
NoNumber == UMax + 3    \* a string that does not begin with digits

-----------------------------------------------------------------------------
(* Tokens.                                                                 *)
FirstDelim(s) == Min({i \in DOMAIN s : s[i] \in Delims} \cup {Len(s) + 1})

\* strsep, called until it returns NULL: fields, the empty ones too.
RECURSIVE Strsep(_)
Strsep(s) ==
  LET e == FirstDelim(s)
  IN  <<SubSeq(s, 1, e - 1)>> \o (IF e > Len(s) THEN <<>> ELSE Strsep(SubSeq(s, e + 1, Len(s))))

\* strtok_r, called until it returns NULL: leading delimiters are skipped.
RECURSIVE StrtokR(_)
StrtokR(s) ==
  IF s = <<>> THEN <<>>
  ELSE IF s[1] \in Delims THEN StrtokR(Tail(s))
  ELSE LET e == FirstDelim(s) IN <<SubSeq(s, 1, e - 1)>> \o StrtokR(SubSeq(s, e + 1, Len(s)))

Strtok(s) == SelectSeq(Strsep(s), LAMBDA t : t # <<>>)

\* Mutant: slots are asked for one token too late.
SlotsLate(n) == Min({k \in {SlotsDflt + j * SlotsIncr : j \in 0 .. n} : n < k + 1})

\* Slots of the vector after n tokens: more are asked for as soon as the last
\* one is reached, and the duplicated string is put behind the tokens.
StrtokSlots(n) == Min({k \in {SlotsDflt + j * SlotsIncr : j \in 0 .. n} : n < k - 1})

\* u_tokenize: the tokens, and the last cell that is written.
Tokenize(s, cells) ==
  LET n == Min({Len(Strtok(s)), Max({cells - 1, 1})})
  IN  [toks |-> SubSeq(Strtok(s), 1, n), top |-> n]

-----------------------------------------------------------------------------
(* Copies.                                                                 *)
\* [dst, ret]; the destination is terminated unless its size is 0.
Strlcpy(src, size) == [dst |-> SubSeq(src, 1, Min({Len(src), Max({size - 1, 0})})), ret |-> Len(src)]
Strlcat(dst, src, size) ==
  LET d == Min({Len(dst), size})
      room == size - d
  IN  [dst |-> IF room = 0 THEN dst ELSE dst \o SubSeq(src, 1, Min({Len(src), room - 1})),
       ret |-> d + Len(src)]
\* u_strlcpy, u_strlcat and u_snprintf tell whether everything was copied.
UStrlcpy(src, size) == Strlcpy(src, size).ret < size
UStrlcat(dst, src, size) == Strlcat(dst, src, size).ret < size
Snprintf(s, size) == size > Len(s)
Strndup(s, n) == IF n > Len(s) THEN <<"NULL">> ELSE SubSeq(s, 1, n)

\* The first character is not looked at from the end.
Trim(s) ==
  LET e == Max({i \in DOMAIN s : ~Blank(s[i])} \cup {Min({1, Len(s)})})
      t == SubSeq(s, 1, e)
      b == Min({i \in DOMAIN t : ~Blank(t[i])} \cup {e + 1})
  IN  SubSeq(t, b, e)

\* u_path_snprintf, from the last character down.
RECURSIVE Collapse(_, _)
Collapse(s, i) ==
  IF i <= 1 THEN s
  ELSE Collapse(IF s[i] = Sep /\ s[i - 1] = Sep THEN RemoveAt(s, i) ELSE s, i - 1)
PathSnprintf(s, size) == IF size <= Len(s) THEN <<"error">> ELSE Collapse(s, Len(s))

-----------------------------------------------------------------------------
(* Variables, from the output of a shell.  A line is cut into pieces that  *)
(* fit the buffer, and each piece is taken for a line.                     *)
Pieces(s) ==
  LET n == LineSz - 2
  IN  [i \in 1 .. (Len(s) + n - 1) \div n |-> SubSeq(s, n * (i - 1) + 1, Min({n * i, Len(s)}))]
\* The last character of a piece goes, be it the newline or not; "a" is the
\* prefix, and ":" stands between name and value.
EnvInit(s) ==
  LET lines == SelectSeq(Pieces(Append(s, "NL")), LAMBDA p : p[1] = "a" /\ \E i \in 1 .. Len(p) - 1 : p[i] = ":")
  IN  [i \in DOMAIN lines |-> Front(lines[i])]

-----------------------------------------------------------------------------
(* Numbers: [rc, val, errno].                                              *)
Strtol(v, errno) ==   \* external: clamps, and leaves errno alone otherwise
  CASE v = NoNumber     -> [val |-> 0, errno |-> errno]
    [] v # NoNumber /\ v > LongMax      -> [val |-> LongMax, errno |-> "ERANGE"]
    [] v < -LongMax - 1 -> [val |-> -LongMax - 1, errno |-> "ERANGE"]
    [] OTHER            -> [val |-> v, errno |-> errno]
Strtoumax(v, errno) ==   \* external: a negative number wraps around
  CASE v = NoNumber -> [val |-> 0, errno |-> errno]
    [] v # NoNumber /\ (v > UMax \/ v < -UMax) -> [val |-> UMax, errno |-> "ERANGE"]
    [] OTHER -> [val |-> v % (UMax + 1), errno |-> errno]

Refused(errno) == [rc |-> -1, val |-> 0, errno |-> errno]
Accepted(val, errno) == [rc |-> 0, val |-> val, errno |-> errno]

\* errno is not reset before the call, so that a stale one is looked at.
Atol(v, errno) ==
  LET t == Strtol(v, errno)
  IN  IF \/ t.val = 0 /\ t.errno = "EINVAL"
         \/ t.val \in {-LongMax - 1, LongMax} /\ t.errno = "ERANGE"
         \/ v = NoNumber
      THEN Refused(errno) ELSE Accepted(t.val, errno)
Atoi(v, errno) ==
  LET t == Atol(v, errno)
  IN  IF t.rc # 0 \/ t.val > IntMax \/ t.val < -IntMax - 1 THEN Refused(errno) ELSE t
Atoumax(v, errno) ==
  LET t == Strtoumax(v, errno)
  IN  IF (t.val = 0 /\ t.errno = "EINVAL") \/ (t.val = UMax /\ t.errno = "ERANGE") THEN Refused(errno)
      ELSE Accepted(t.val, errno)
\* u_atof does reset it; a long stands for a double.
Atof(v, errno) ==
  LET t == Strtol(v, "0")
  IN  IF v = NoNumber \/ t.errno = "ERANGE" THEN Refused(errno) ELSE Accepted(t.val, errno)

-----------------------------------------------------------------------------
TextInit == str = <<>> /\ number \in [value : (-UMax - 2) .. NoNumber, errno : {"0", "EINVAL", "ERANGE"}]
TextNext ==
  /\ Len(str) < MaxText
  /\ number = [value |-> 0, errno |-> "0"]
  /\ \E c \in TextChars : str' = Append(str, c)
  /\ UNCHANGED number

-----------------------------------------------------------------------------
Plain(s) == \A i \in DOMAIN s : s[i] \notin Delims
\* The words of a string, said by where they begin and end.
IsWords(s, words) ==
  LET ends == {i \in DOMAIN s : s[i] \notin Delims /\ (i = Len(s) \/ s[i + 1] \in Delims)}
  IN  /\ Len(words) = Cardinality(ends)
      /\ \A w \in DOMAIN words : words[w] # <<>> /\ Plain(words[w])
      /\ FlattenSeq(words) = SelectSeq(s, LAMBDA c : c \notin Delims)

(* The three tokenizers agree on the words of a string, and none of them   *)
(* writes beyond its vector, if u_tokenize has at least two cells.         *)
TokensExact ==
  /\ IsWords(str, Strtok(str)) /\ StrtokR(str) = Strtok(str)
  /\ Len(Strtok(str)) < StrtokSlots(Len(Strtok(str)))
  /\ \A cells \in 2 .. MaxText + 2 :
       /\ Tokenize(str, cells).top < cells
       /\ Tokenize(str, cells).toks = SubSeq(Strtok(str), 1, Min({cells - 1, Len(Strtok(str))}))

(* A copy that reports no error is whole, and one that does has filled the *)
(* buffer and no more; trimming takes the blanks at both ends and nothing  *)
(* else; a path has no two separators in a row and is otherwise unchanged; *)
(* variables whose lines fit the buffer get their values.                  *)
CopiesExact ==
  /\ \A size \in 1 .. MaxText + 1, k \in 0 .. Len(str) :
       LET dst == SubSeq(str, 1, k)
           src == SubSeq(str, k + 1, Len(str))
       IN  /\ Len(Strlcpy(str, size).dst) < size
           /\ UStrlcpy(str, size) <=> Strlcpy(str, size).dst = str
           /\ k < size => Len(Strlcat(dst, src, size).dst) < size
           /\ k < size => (UStrlcat(dst, src, size) <=> Strlcat(dst, src, size).dst = str)
           /\ Snprintf(str, size) <=> UStrlcpy(str, size)
           /\ Strndup(str, k) \o src = str
           /\ LET p == PathSnprintf(str, size)
                  twin == {i \in DOMAIN str : i > 1 /\ str[i] = Sep /\ str[i - 1] = Sep}
              IN  p = IF Len(str) >= size THEN <<"error">>
                      ELSE [j \in 1 .. Len(str) - Cardinality(twin) |->
                              str[CHOOSE i \in DOMAIN str \ twin : Cardinality({h \in 1 .. i : h \notin twin}) = j]]
  /\ \E i, j \in 0 .. Len(str) :
       /\ Trim(str) = SubSeq(str, i + 1, j)
       /\ \A k \in DOMAIN str : k <= i \/ k > j => Blank(str[k])
       /\ i < j => ~Blank(str[i + 1]) /\ ~Blank(str[j])
  /\ Len(str) < LineSz - 2 =>
       EnvInit(str) = IF str # <<>> /\ str[1] = "a" /\ \E i \in DOMAIN str : str[i] = ":" THEN <<str>> ELSE <<>>

In(v, min, max) == v # NoNumber /\ min <= v /\ v <= max
InLong(v) == In(v, -LongMax - 1, LongMax)
InInt(v) == In(v, -IntMax - 1, IntMax)

(* A number that u_atol, u_atoi or u_atof accepts is the one the string    *)
(* stands for, and what is no number or out of range is refused; so does   *)
(* u_atoumax with a number of 0 or more.  A number in range is refused     *)
(* only by a function that does not reset errno, when the errno of an      *)
(* earlier call goes with the limit, or the 0, that the string stands for. *)
(* errno is left as it was.                                                *)
NumbersExact ==
  LET v == number.value  e == number.errno
      stale == (v = 0 /\ e = "EINVAL") \/ (v \in {LongMax, -LongMax - 1} /\ e = "ERANGE")
      staleU == (v = 0 /\ e = "EINVAL") \/ (v = UMax /\ e = "ERANGE")
      all == {Atol(v, e), Atoi(v, e), Atof(v, e)}
  IN  /\ \A r \in all \cup {Atoumax(v, e)} : r.errno = e
      /\ \A r \in all \cup (IF v < 0 \/ v = NoNumber THEN {} ELSE {Atoumax(v, e)}) : r.rc = 0 => r.val = v
      /\ Atof(v, e).rc = 0 <=> InLong(v)
      /\ Atol(v, e).rc = 0 <=> InLong(v) /\ ~stale
      /\ Atoi(v, e).rc = 0 <=> InInt(v) /\ ~stale
      /\ v >= 0 /\ v # NoNumber => (Atoumax(v, e).rc = 0 <=> v <= UMax /\ ~staleU)

(* "Handling all strtol(3) exceptions (overflow or underflow, invalid      *)
(* representation) in a simple go/no-go way" (misc.c:705): u_atol says go  *)
(* exactly when the string stands for a long.                              *)
LongGo == Atol(number.value, number.errno).rc = 0 <=> InLong(number.value)

(* "Handling all strtoumax(3) exceptions (overflow or underflow, invalid   *)
(* representation)" (misc.c:785): with no error behind it, u_atoumax says  *)
(* go exactly when the string stands for a uintmax_t.                      *)
UnsignedGo ==
  number.errno = "0" => (Atoumax(number.value, "0").rc = 0 <=> In(number.value, 0, UMax))
=============================================================================
