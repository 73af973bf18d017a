----------------------------- MODULE ConfigText -----------------------------
(***************************************************************************)
(* The lines that u_config_do_load_drv (srcs/toolbox/config.c) gets out of *)
(* a text: the gets callback, which fills a buffer at most, the joining of *)
(* what it returns, and the removal of comments.  Config begins with the   *)
(* lines that this module ends with.                                       *)
(***************************************************************************)
EXTENDS Integers, Sequences, FiniteSets

LOCAL INSTANCE FiniteSetsExt
LOCAL INSTANCE SequencesExt

CONSTANTS
  CfgChars,     \* characters of a text; "NL" ends a line
  MaxCfgText,   \* its length
  GetlineSz,    \* BUFSZ of cs_getline
  CommentSz     \* the buffer of u_config_remove_comment

VARIABLE cfgText
cfgTextVars == <<cfgText>>

-----------------------------------------------------------------------------
\* Up to the end of the line, of the text or of the buffer.
BufGets(data, size) == Min({size - 1, Len(data)} \cup {i \in DOMAIN data : data[i] = "NL"})

\* The last character of every piece goes: the end of the line, if the line
\* is not longer than the buffer and is ended at all.
RECURSIVE CsGetline(_, _)
CsGetline(data, ln) ==
  LET n == BufGets(data, GetlineSz)
      more == ln \o SubSeq(data, 1, n - 1)
      rest == SubSeq(data, n + 1, Len(data))
  IN  CASE data = <<>> -> [ok |-> FALSE, ln |-> ln, rest |-> <<>>]
        [] data # <<>> /\ data[n] = "NL" -> [ok |-> TRUE, ln |-> more, rest |-> rest]
        [] OTHER -> CsGetline(rest, more)

\* From p on, after the character "last".  An escaped "#" takes the place of
\* the backslash and everything after it moves up.
RECURSIVE Uncomment(_, _, _)
Uncomment(s, p, last) ==
  CASE p > Len(s)                              -> s
    [] p <= Len(s) /\ s[p] # "#"               -> Uncomment(s, p + 1, s[p])
    [] p <= Len(s) /\ s[p] = "#" /\ last # "\\" -> SubSeq(s, 1, p - 1)
    [] OTHER                                   -> Uncomment(RemoveAt(s, p - 1), p, "#")
RemoveComment(ln) == IF Len(ln) >= CommentSz THEN <<"error">> ELSE Uncomment(ln, 1, "NUL")

\* The loop of u_config_do_load_drv, without what it does with the lines.
RECURSIVE Lines(_)
Lines(data) ==
  LET g == CsGetline(data, <<>>) IN IF ~g.ok THEN <<>> ELSE <<RemoveComment(g.ln)>> \o Lines(g.rest)

-----------------------------------------------------------------------------
CfgTextInit == cfgText = <<>>
CfgTextNext == Len(cfgText) < MaxCfgText /\ \E c \in CfgChars : cfgText' = Append(cfgText, c)

-----------------------------------------------------------------------------
\* A comment begins at the first "#" that no backslash precedes; a backslash
\* before another "#" goes.
CutAt(s) == Min({i \in DOMAIN s : s[i] = "#" /\ (i = 1 \/ s[i - 1] # "\\")} \cup {Len(s) + 1}) - 1
Kept(s) == {i \in 1 .. CutAt(s) : ~(s[i] = "\\" /\ i < CutAt(s) /\ s[i + 1] = "#")}
Plain(s) == [j \in 1 .. Cardinality(Kept(s)) |-> s[CHOOSE i \in Kept(s) : Cardinality({h \in Kept(s) : h <= i}) = j]]

Ends == {i \in DOMAIN cfgText : cfgText[i] = "NL"}
StartOf(i) == Max({0} \cup {j \in Ends : j < i}) + 1
Whole(i) ==
  LET n == Cardinality({j \in Ends : j <= i})
  IN  n <= Len(Lines(cfgText)) /\ Lines(cfgText)[n] = Plain(SubSeq(cfgText, StartOf(i), i - 1))

(* If no line is longer than cs_getline's buffer, the lines of a text are  *)
(* those that a newline ends, each without its comment and with its        *)
(* escaped "#" restored.                                                   *)
LinesExact ==
  (\A i \in Ends : i - StartOf(i) < GetlineSz - 1) =>
    Len(Lines(cfgText)) = Cardinality(Ends) /\ \A i \in Ends : Whole(i)

(* "Line's longer the bufsz; get next line chunk" (config.c:1092): a line  *)
(* that is longer than cs_getline's buffer, and shorter than that of       *)
(* u_config_remove_comment, comes out as it is too.                        *)
LongLines == \A i \in Ends : i - StartOf(i) < CommentSz => Whole(i)
=============================================================================
