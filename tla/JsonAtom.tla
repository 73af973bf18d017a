------------------------------ MODULE JsonAtom ------------------------------
(***************************************************************************)
(* The values without children of srcs/toolbox/json.c: how they are made   *)
(* and changed, what their typed accessors give, and how they are encoded  *)
(* in the array or the object that holds them.  A value is a node of Json  *)
(* without kids.                                                           *)
(***************************************************************************)
EXTENDS Json

LOCAL INSTANCE FiniteSetsExt

CONSTANTS
  AtomVals, AtomKeys,  \* texts the client passes
  Ints,                \* integers the client passes
  Doubles,             \* floating point numbers as "%g" writes them
  MaxAtomCalls

VARIABLES
  atom,       \* the value
  checked,    \* history: the text of its value passed the check, or is libu's
  given,      \* history: the integer it was made of, or <<>>
  atomCalls
atomVars == <<atom, checked, given, atomCalls>>

AtomTypes == {"string", "number", "true", "false", "null"}
NotFinite == <<"i", "n", "f">>
DigitOf == <<"0", "1", "2">>

\* "%ld", and what strtol makes of a text.
RECURSIVE Decimal(_), Natural(_)
Decimal(i) ==
  CASE i < 0          -> <<"-">> \o Decimal(-i)
    [] i \in 0 .. 9   -> <<DigitOf[i + 1]>>
    [] OTHER          -> Append(Decimal(i \div 10), DigitOf[(i % 10) + 1])
Natural(s) ==
  IF s = <<>> \/ s[Len(s)] \notin Digit THEN 0
  ELSE 10 * Natural(SubSeq(s, 1, Len(s) - 1)) + (CHOOSE d \in 1 .. 3 : DigitOf[d] = s[Len(s)]) - 1
Strtol(s) ==
  LET sign == s # <<>> /\ s[1] = "-"
      u == SubSeq(s, IF sign THEN 2 ELSE 1, DigitsEnd(s, IF sign THEN 2 ELSE 1) - 1)
  IN  IF sign THEN -Natural(u) ELSE Natural(u)

-----------------------------------------------------------------------------
\* u_strlcpy fills the field and then says that the text did not fit.
Fits(s) == Len(s) < TokenSz
Filled(s) == SubSeq(s, 1, Min({Len(s), TokenSz - 1}))

SetType(n, type) == [n EXCEPT !.type = type]
SetKey(n, key) == [n EXCEPT !.key = Filled(key)]

\* Only the beginning of the text is matched; the quotes of a string are put
\* around it first.
Accepted(type, val, check) ==
  check => CASE type = "string" -> StringEnd(<<"\"">> \o val \o <<"\"">>, 2) # Err
             [] type = "number" -> NumberEnd(val, 1) # Err
             [] OTHER           -> TRUE
SetValEx(n, val, check) ==
  IF n.type \in {"string", "number"} /\ Accepted(n.type, val, check) THEN [n EXCEPT !.val = Filled(val)] ELSE n

\* The new value, or the old one if the constructor failed.
NewAtom(type, key, val, check) ==
  IF /\ Fits(key)
     /\ type \in {"string", "number"} => Accepted(type, val, check) /\ Fits(val)
  THEN SetValEx(SetKey(Node(type, <<>>, <<>>), key), val, check)
  ELSE atom

NewString(key, val) == NewAtom("string", key, val, TRUE)
NewNumber(key, val) == NewAtom("number", key, val, TRUE)
NewInt(key, i) == NewAtom("number", key, Decimal(i), FALSE)
NewReal(key, d) == IF d = NotFinite THEN atom ELSE NewAtom("number", key, d, FALSE)
NewNull(key) == NewAtom("null", key, <<>>, FALSE)
NewBool(key, b) == NewAtom(IF b THEN "true" ELSE "false", key, <<>>, FALSE)

GetVal(n) ==
  CASE n.type \in {"string", "number"} -> n.val
    [] n.type = "true"  -> <<"t", "r", "u", "e">>
    [] n.type = "false" -> <<"f", "a", "l", "s", "e">>
    [] n.type = "null"  -> <<"n", "u", "l", "l">>
GetInt(n) == IF n.type = "number" THEN <<Strtol(n.val)>> ELSE <<>>
GetReal(n) == IF n.type = "number" THEN n.val ELSE <<>>
GetBool(n) == IF n.type \in {"true", "false"} THEN <<n.type = "true">> ELSE <<>>

-----------------------------------------------------------------------------
AtomInit == atom = Node("null", <<>>, <<>>) /\ checked = TRUE /\ given = <<>> /\ atomCalls = 0

Make(new) == new # atom /\ atom' = new /\ checked' = TRUE

AtomNext ==
  /\ atomCalls < MaxAtomCalls
  /\ atomCalls' = atomCalls + 1
  /\ \/ /\ \E k \in AtomKeys :
             \/ \E v \in AtomVals : Make(NewString(k, v)) \/ Make(NewNumber(k, v))
             \/ \E d \in Doubles : Make(NewReal(k, d))
             \/ \E b \in BOOLEAN : Make(NewBool(k, b))
             \/ Make(NewNull(k))
        /\ given' = <<>>
     \/ \E k \in AtomKeys, i \in Ints : Make(NewInt(k, i)) /\ given' = <<i>>
     \/ \E t \in AtomTypes : atom' = SetType(atom, t) /\ checked' = FALSE /\ given' = <<>>
     \/ \E k \in AtomKeys : atom' = SetKey(atom, k) /\ UNCHANGED <<checked, given>>
     \/ \E v \in AtomVals, check \in BOOLEAN :
          /\ atom' = SetValEx(atom, v, check)
          /\ checked' = IF atom' = atom THEN checked ELSE check /\ Fits(v)
          /\ given' = IF atom' = atom THEN given ELSE <<>>

-----------------------------------------------------------------------------
WellFormed(n) ==
  /\ n.type = "string" => IsInside(n.val)
  /\ n.type = "number" => IsNumber(n.val)
  /\ IsInside(n.key) /\ \A s \in {n.val, n.key} : Len(s) < TokenSz - 1

\* What a check that stops early lets through.
Begins(n) ==
  \E k \in 0 .. Len(n.val) :
    LET s == Cut(n.val, 0, k)
    IN  IF n.type = "number" THEN IsNumber(s)
        ELSE IsInside(s) /\ (k < Len(n.val) => n.val[k + 1] = "\"")

Wrapped(n) == IF n.key = <<>> THEN <<"[">> \o DoEncode(n) \o <<"]">> ELSE <<"{">> \o DoEncode(n) \o <<"}">>
Same(n, m) ==
  /\ n.type = m.type /\ n.key = m.key /\ GetVal(n) = GetVal(m)
  /\ GetInt(n) = GetInt(m) /\ GetReal(n) = GetReal(m) /\ GetBool(n) = GetBool(m)
Holds(r, n) == r.at # Err /\ Len(r.node.kids) = 1 /\ Same(r.node.kids[1], n)

(* A checked value begins with a text of its type.  A value of which the   *)
(* whole text is well formed, and that leaves its buffer two characters,   *)
(* is encoded in an array, or under its key in an object, so that it is    *)
(* decoded to the same.  An integer is read back as the same integer, a    *)
(* truth value as the same truth value, and no other type passes for one.  *)
AtomExact ==
  /\ checked /\ atom.type \in {"string", "number"} => Begins(atom)
  /\ WellFormed(atom) => Holds(JsonDecode(Wrapped(atom)), atom)
  /\ given # <<>> => GetInt(atom) = given
=============================================================================
