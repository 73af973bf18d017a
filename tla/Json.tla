-------------------------------- MODULE Json --------------------------------
(***************************************************************************)
(* The JSON texts of srcs/toolbox/json.c over the scanner of lexer.c: the  *)
(* recursive descent that u_json_decode and u_json_validate share, and     *)
(* u_json_encode.                                                          *)
(***************************************************************************)
EXTENDS Lexer

LOCAL INSTANCE FiniteSetsExt
LOCAL INSTANCE SequencesExt

CONSTANTS
  MaxDepth,   \* U_JSON_MAX_DEPTH
  Supplies    \* what texts are put together from: each a set of pieces, and
              \* how many of them a text has at most

VARIABLES text, supply
jsonVars == <<text, supply>>

Escaped == {"\"", "\\", "/", "b", "f", "n", "r", "t"}
Control == {"NUL", "TAB"}

\* The skip after a value, when white space follows it.
SkipSpace(t, p) == IF Peek(t, p) \in Space THEN LexSkip(t, p) ELSE p

-----------------------------------------------------------------------------
(* Terminals: the position after the match.                                *)
DigitsEnd(t, p) == Min({q \in p .. Len(t) + 1 : Peek(t, q) \notin Digit})

MatchInt(t, p) ==
  LET q == IF Peek(t, p) = "-" THEN p + 1 ELSE p
  IN  CASE Peek(t, q) = "0"                     -> q + 1
        [] Peek(t, q) \in Digit /\ t[q] # "0"   -> DigitsEnd(t, q + 1)
        [] OTHER                                -> Err

MatchFracFirst(c) == c = "."
MatchFrac(t, p) == IF Peek(t, p + 1) \in Digit THEN DigitsEnd(t, p + 1) ELSE Err

MatchExpFirst(c) == c \in {"e", "E"}
MatchExp(t, p) ==
  LET q == IF Peek(t, p + 1) \in {"+", "-"} THEN p + 2 ELSE p + 1
  IN  IF Peek(t, q) \in Digit THEN DigitsEnd(t, q) ELSE Err

WithFrac(t, p) == IF p # Err /\ MatchFracFirst(Peek(t, p)) THEN MatchFrac(t, p) ELSE p
WithExp(t, p) == IF p # Err /\ MatchExpFirst(Peek(t, p)) THEN MatchExp(t, p) ELSE p
NumberEnd(t, p) == WithExp(t, WithFrac(t, MatchInt(t, p)))

MatchEscapedUnicode(t, p) == \A i \in 1 .. 4 : Peek(t, p + i) \in HexDigit

\* The closing quote of a string whose first character is at p.
RECURSIVE StringEnd(_, _)
StringEnd(t, p) ==
  CASE Peek(t, p) = "\""                -> p
    [] Peek(t, p) = "\\"                ->
         CASE Peek(t, p + 1) = "u"      -> IF MatchEscapedUnicode(t, p + 1) THEN StringEnd(t, p + 6) ELSE Err
           [] Peek(t, p + 1) \in Escaped -> StringEnd(t, p + 2)
           [] OTHER                     -> Err
    [] Peek(t, p) \in Control           -> Err
    [] OTHER                            -> StringEnd(t, p + 1)

\* true, false and null: blanks are skipped after each letter.
RECURSIVE MatchSeq(_, _, _)
MatchSeq(t, p, rem) ==
  LET q == LexSkip(t, p)
  IN  IF q = Err \/ rem = <<>> THEN q
      ELSE IF t[q] # Head(rem) THEN Err ELSE MatchSeq(t, q, Tail(rem))

-----------------------------------------------------------------------------
(* Values: [at, node], where at is the position after it.                  *)
Node(type, val, kids) == [type |-> type, key |-> <<>>, val |-> val, kids |-> kids]
Fail == [at |-> Err, node |-> Node("unknown", <<>>, <<>>)]

\* What was matched, without the character under the cursor, if it fitted.
Chopped(m) == IF m = <<"garbage">> THEN m ELSE Front(m)
Leaf(t, l, r, type, after) ==
  IF r = Err THEN Fail ELSE [at |-> after, node |-> Node(type, Chopped(GetMatch(t, l, r)), <<>>)]
NumberUpTo(t, p, q) == Leaf(t, p, q, "number", q)
MatchNumber(t, p) == NumberUpTo(t, p, NumberEnd(t, p))
StringUpTo(t, p, q) == Leaf(t, p, q, "string", q + 1)
MatchString(t, p) == StringUpTo(t, p + 1, StringEnd(t, p + 1))

MatchTrue(t, p) == [at |-> MatchSeq(t, p, <<"r", "u", "e">>), node |-> Node("true", <<>>, <<>>)]
MatchNull(t, p) == [at |-> MatchSeq(t, p, <<"u", "l", "l">>), node |-> Node("null", <<>>, <<>>)]
MatchFalse(t, p) == [at |-> MatchSeq(t, p, <<"a", "l", "s", "e">>), node |-> Node("false", <<>>, <<>>)]

SetDepth(build, d) == ~build \/ d < MaxDepth

\* The closing bracket; the end of the text after it is seen to later.
Close(t, p, bracket, node) ==
  LET q == LexSkip(t, p)
  IN  IF p = Err \/ Peek(t, p) # bracket THEN Fail
      ELSE [at |-> IF q = Err THEN Len(t) + 1 ELSE q, node |-> node]

RECURSIVE MatchValue(_, _, _, _), MatchArray(_, _, _, _, _), MatchObject(_, _, _, _, _)
MatchValue(t, p, d, build) ==
  CASE Peek(t, p) = "\""              -> MatchString(t, p)
    [] Peek(t, p) \in Digit \cup {"-"} -> MatchNumber(t, p)
    [] Peek(t, p) = "{"               -> MatchObject(t, p, d, build, <<>>)
    [] Peek(t, p) = "["               -> MatchArray(t, p, d, build, <<>>)
    [] Peek(t, p) = "t"               -> MatchTrue(t, p)
    [] Peek(t, p) = "f"               -> MatchFalse(t, p)
    [] Peek(t, p) = "n"               -> MatchNull(t, p)
    [] OTHER                          -> Fail

\* The loop goes on at a comma, and else the bracket is due.
ArrayAfter(t, v, r, d, build, kids) ==
  CASE v.at = Err \/ r = Err                     -> Fail
    [] v.at # Err /\ r # Err /\ Peek(t, r) = "," -> MatchArray(t, r, d, build, kids)
    [] OTHER                                     -> Close(t, r, "]", Node("array", <<>>, kids))
ArrayElement(t, v, d, build, kids) ==
  ArrayAfter(t, v, SkipSpace(t, v.at), d, build, Append(kids, v.node))

\* One turn of the loop, with the bracket or the comma at p.
MatchArray(t, p, d, build, kids) ==
  LET q == LexSkip(t, p)
  IN  CASE q = Err                          -> Fail
        [] q # Err /\ Peek(t, q) = "]"      -> Close(t, q, "]", Node("array", <<>>, kids))
        [] OTHER                            ->
             IF ~SetDepth(build, d + 1) THEN Fail
             ELSE ArrayElement(t, MatchValue(t, q, d + 1, build), d, build, kids)

Keyed(v, key) == [at |-> v.at, node |-> [v.node EXCEPT !.key = key]]
ColonAndValue(t, k, c, d, build) ==
  IF k.at = Err \/ ~SetDepth(build, d) \/ Peek(t, c) # ":" \/ LexSkip(t, c) = Err THEN Fail
  ELSE Keyed(MatchValue(t, LexSkip(t, c), d, build), k.node.val)
KeyAndRest(t, k, d, build) == ColonAndValue(t, k, SkipSpace(t, k.at), d, build)
MatchPair(t, p, d, build) == KeyAndRest(t, MatchString(t, p), d, build)

ObjectAfter(t, v, r, d, build, kids) ==
  CASE v.at = Err \/ r = Err                     -> Fail
    [] v.at # Err /\ r # Err /\ Peek(t, r) = "," -> MatchObject(t, r, d, build, kids)
    [] OTHER                                     -> Close(t, r, "}", Node("object", <<>>, kids))
ObjectElement(t, v, d, build, kids) ==
  ObjectAfter(t, v, SkipSpace(t, v.at), d, build, Append(kids, v.node))

MatchObject(t, p, d, build, kids) ==
  LET q == LexSkip(t, p)
  IN  CASE q = Err                          -> Fail
        [] q # Err /\ Peek(t, q) = "}"      -> Close(t, q, "}", Node("object", <<>>, kids))
        [] OTHER                            ->
             IF Peek(t, q) # "\"" THEN Fail
             ELSE ObjectElement(t, MatchPair(t, q, d + 1, build), d, build, kids)

DoParse(t, build) ==
  LET p == EatWs(t, 1)
  IN  CASE p # Err /\ Peek(t, p) = "{" -> MatchObject(t, p, 0, build, <<>>)
        [] p # Err /\ Peek(t, p) = "[" -> MatchArray(t, p, 0, build, <<>>)
        [] OTHER                       -> Fail

JsonDecode(t) == DoParse(t, TRUE)
JsonValidate(t) == DoParse(t, FALSE).at # Err

\* The siblings of a node follow it, each after what separates them.
RECURSIVE EncodeWith(_, _)
EncodeWith(n, comma) ==
  LET key == IF n.key = <<>> THEN <<>> ELSE <<"\"">> \o n.key \o <<"\"", ":", " ">>
      children == FlattenSeq([i \in DOMAIN n.kids |->
                    EncodeWith(n.kids[i], comma) \o (IF i < Len(n.kids) THEN comma ELSE <<>>)])
  IN  key \o CASE n.type = "string" -> <<"\"">> \o n.val \o <<"\"">>
              [] n.type = "number" -> n.val
              [] n.type = "object" -> <<"{", " ">> \o children \o <<" ", "}">>
              [] n.type = "array"  -> <<"[", " ">> \o children \o <<" ", "]">>
              [] n.type = "true"   -> <<"t", "r", "u", "e">>
              [] n.type = "false"  -> <<"f", "a", "l", "s", "e">>
              [] n.type = "null"   -> <<"n", "u", "l", "l">>

\* Mutant: siblings follow each other after a blank.
DoEncodeNoComma(n) == EncodeWith(n, <<" ">>)
DoEncode(n) == EncodeWith(n, <<",", " ">>)

-----------------------------------------------------------------------------
(* Every text that can be put together from the pieces of a supply.        *)
JsonInit == text = <<>> /\ supply \in Supplies
JsonNext ==
  /\ supply.most > 0
  /\ \E c \in supply.pieces : text' = text \o c
  /\ supply' = [supply EXCEPT !.most = @ - 1]

-----------------------------------------------------------------------------
(* The grammar, said without a scanner.                                    *)
Blank(s) == \A i \in DOMAIN s : s[i] \in Space
Unspaced(s) == SelectSeq(s, LAMBDA c : c \notin Space)
Trimmed(s) == LET in == {i \in DOMAIN s : s[i] \notin Space}
              IN  IF in = {} THEN <<>> ELSE SubSeq(s, Min(in), Max(in))
Cut(s, i, j) == SubSeq(s, i + 1, j)

IsDigits(s) == s # <<>> /\ \A i \in DOMAIN s : s[i] \in Digit
IsInt(s) == LET u == IF s # <<>> /\ s[1] = "-" THEN Tail(s) ELSE s
            IN  IsDigits(u) /\ (u[1] = "0" => Len(u) = 1)
IsFrac(s) == s = <<>> \/ (s[1] = "." /\ IsDigits(Tail(s)))
IsExp(s) == \/ s = <<>>
            \/ /\ Len(s) > 1 /\ s[1] \in {"e", "E"}
               /\ IsDigits(Tail(s)) \/ (s[2] \in {"+", "-"} /\ IsDigits(Cut(s, 2, Len(s))))
IsNumber(s) == \E i \in 0 .. Len(s) : \E j \in i .. Len(s) :
                 IsInt(Cut(s, 0, i)) /\ IsFrac(Cut(s, i, j)) /\ IsExp(Cut(s, j, Len(s)))

\* The inside of a string is cut into plain characters and escapes.
RECURSIVE IsInside(_)
IsInside(s) ==
  \/ s = <<>>
  \/ s[1] \notin Control \cup {"\"", "\\"} /\ IsInside(Tail(s))
  \/ /\ Len(s) > 1 /\ s[1] = "\\" /\ s[2] \in Escaped /\ IsInside(Cut(s, 2, Len(s)))
  \/ /\ Len(s) > 5 /\ s[1] = "\\" /\ s[2] = "u"
     /\ \A i \in 3 .. 6 : s[i] \in HexDigit
     /\ IsInside(Cut(s, 6, Len(s)))
IsString(s) == Len(s) > 1 /\ s[1] = "\"" /\ s[Len(s)] = "\"" /\ IsInside(Cut(s, 1, Len(s) - 1))

\* Blanks between the letters of a literal, and a comma after the last
\* element, pass.
IsLiteral(s) ==
  s # <<>> /\ Unspaced(s) \in {<<"t","r","u","e">>, <<"n","u","l","l">>, <<"f","a","l","s","e">>}

RECURSIVE IsValue(_, _), IsElements(_, _, _), IsContainer(_, _)
IsPair(s, d) ==
  \E i \in DOMAIN s : s[i] = ":" /\ IsString(Trimmed(Cut(s, 0, i - 1))) /\ IsValue(Trimmed(Cut(s, i, Len(s))), d)
IsElements(s, d, pair) ==
  \/ Blank(s)
  \/ \E i \in 1 .. Len(s) :
       /\ i = Len(s) \/ s[i + 1] = ","
       /\ IF pair THEN IsPair(Cut(s, 0, i), d) ELSE IsValue(Trimmed(Cut(s, 0, i)), d)
       /\ IsElements(Cut(s, i + 1, Len(s)), d, pair)
\* A container whose elements are not deeper than they may be.
IsContainer(s, d) ==
  /\ Len(s) > 1
  /\ LET inside == Cut(s, 1, Len(s) - 1)
     IN  /\ Blank(inside) \/ d + 1 < MaxDepth
         /\ \/ s[1] = "[" /\ s[Len(s)] = "]" /\ IsElements(inside, d + 1, FALSE)
            \/ s[1] = "{" /\ s[Len(s)] = "}" /\ IsElements(inside, d + 1, TRUE)
IsValue(s, d) == IsNumber(s) \/ IsString(s) \/ IsLiteral(s) \/ IsContainer(s, d)

(* u_json_decode accepts a text exactly when it begins with an object or   *)
(* an array of the grammar nested less than U_JSON_MAX_DEPTH deep, and     *)
(* u_json_validate accepts it too.                                         *)
DecodedIff(r, valid) ==
  LET t == Trimmed(text)
  IN  /\ r.at # Err <=> \E n \in 0 .. Len(t) : IsContainer(Cut(t, 0, n), 0)
      /\ r.at # Err => valid
JsonAccepts == DecodedIff(JsonDecode(text), JsonValidate(text))

(* The tree of an accepted text, encoded and decoded again, is the same    *)
(* tree, as long as no token is too long for its buffer.                   *)
RECURSIVE Sane(_)
Sane(n) == n.val # <<"garbage">> /\ n.key # <<"garbage">> /\ \A i \in DOMAIN n.kids : Sane(n.kids[i])
EncodedFaithfully(r) == r.at # Err /\ Sane(r.node) => JsonDecode(DoEncode(r.node)).node = r.node
JsonRoundTrip == EncodedFaithfully(JsonDecode(text))
=============================================================================
