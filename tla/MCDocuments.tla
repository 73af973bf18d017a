---------------------------- MODULE MCDocuments ----------------------------
(***************************************************************************)
(* Small instances of the parsers, the documents they build and their      *)
(* encoders, side by side: DocInit chooses the one that moves, the others  *)
(* stay in one initial state.  They share nothing but the lexer, so a      *)
(* behaviour of this module is a behaviour of one of them.                 *)
(***************************************************************************)
EXTENDS Integers, Sequences, B64

CONSTANTS
  MaxDepth, MaxCharacters, MaxWords, MaxAtomCalls,
  JNodes, Keys, FqnSz, MaxIndexed, RemoveAny,
  MaxOpen, MaxKeys, MaxCfgText, GetlineSz, CommentSz,
  UriMaxChunks,
  TextChars, MaxText, SlotsDflt, SlotsIncr, LineSz, IntMax, LongMax, UMax

VARIABLES
  which,                    \* the part that moves
  text, supply,             \* json.c: a text
  atom, checked, given, atomCalls,  \* json.c: a value
  jn, jmap, indexed,        \* json.c: trees
  cfg, loaded, cfgText,     \* config.c: a tree, a text
  uriText, uriPieces, uri,  \* uri.c
  str, number               \* misc.c, env.c

jsonVars == <<text, supply>>
atomVars == <<atom, checked, given, atomCalls>>
treeVars == <<jn, jmap, indexed>>
configVars == <<cfg, loaded>>
cfgTextVars == <<cfgText>>
uriVars == <<uriText, uriPieces, uri>>
textVars == <<str, number>>

\* Every character the lexer tells apart, and some runs of several.
JsonCharacters ==
  {<<c>> : c \in {"[", "]", "{", "}", ",", " ", ":", "1", "-", "0", ".", "e"}} \cup
  {<<"\"", "a", "\"">>, <<"t", " ", "r", "u", "e">>,
   <<"\"", "\\", "\"", "b", "\\", "u", "0", "a", "f", "1", "\"">>, <<"[", "{", "\"">>,
   <<"+", "1", "]">>, <<"}", "]">>}

\* What arrays and objects are made of: brackets, a key and its colon, two
\* numbers, a comma after a value.
JsonWords ==
  LET key == <<"\"", "a", "\"", ":">>
  IN  {<<"[">>, <<"[", "[">>, <<"]">>, <<"]", "]">>, <<"{">> \o key, key, <<"}">>,
       <<"1", ".", "2">>, <<"0", "e", "1">>, <<"2", ",">>}
JsonSupplies ==
  {[pieces |-> JsonCharacters, most |-> MaxCharacters], [pieces |-> JsonWords, most |-> MaxWords]}

\* Texts that fit a buffer of 12 bytes with room, just and not at all, and
\* some of which only the beginning is well formed.
Ones(n) == [i \in 1 .. n |-> "1"]
JsonVals ==
  {<<>>, <<"a">>, <<"1", ",">>, <<"-", "1", ".", "0">>, <<"1", "e", "-">>, <<"\\", "\"">>,
   <<"a", "\"">>, Ones(10), Ones(11), Ones(12)}

J == INSTANCE JsonAtom
       WITH TokenSz <- 12, Supplies <- JsonSupplies, AtomVals <- JsonVals,
            AtomKeys <- {<<>>, <<"a">>, [i \in 1 .. 12 |-> "a"]}, Ints <- {-1, 0, 12},
            Doubles <- {<<"1", ".", "2">>, <<"1", "e", "+", "2", "0">>, <<"i", "n", "f">>}
\* Keys of an object, and one with a dot in it.
OneKey == {<<"k">>}
DottedKeys == {<<"k">>, <<"k", ".", "k">>}
T == INSTANCE JsonTree

\* Files with sections, includes (of a file that is not there, of the file
\* itself, of itself from a section), variables of the section and its parents.
CfgNames == {<<"a">>, <<"b">>, <<"b", "a">>}
Lit(x) == [lit |-> x, var |-> <<>>]
Var(n) == [lit |-> "", var |-> n]
CfgValues ==
  {<<Lit("x")>>, <<Var(<<"a">>)>>, <<Lit("#")>>, <<Lit(" "), Lit("x")>>,
   <<Lit("x"), [lit |-> "${", var |-> <<>>]>>}
Ln(k, n, v) == [kind |-> k, key |-> n, val |-> v]
CfgFiles ==
  [f |-> <<Ln("set", <<"a">>, <<Lit("x")>>), Ln("name", <<"b">>, <<>>), [kind |-> "open"],
           Ln("set", <<"a">>, <<Var(<<"a">>), Lit("y")>>),
           Ln("include", <<"include">>, <<Lit("g")>>),
           [kind |-> "close"], Ln("set", <<"b", "a">>, <<Lit("z")>>)>>,
   g |-> <<Ln("name", <<"a">>, <<>>), [kind |-> "open"], Ln("set", <<"b">>, <<Var(<<"b">>), Lit("z")>>)>>,
   h |-> <<Ln("include", <<"-include">>, <<Lit("missing")>>), Ln("include", <<"include">>, <<Lit("h")>>)>>,
   s |-> <<Ln("name", <<"a">>, <<>>), [kind |-> "open"], Ln("include", <<"include">>, <<Lit("s")>>)>>]

L == INSTANCE ConfigText WITH CfgChars <- {"a", "#", "\\", "NL"}
C == INSTANCE Config WITH Names <- CfgNames, Values <- CfgValues, Files <- CfgFiles

UriPieceSet ==
  {<<c>> : c \in {"a", "1", ":", "/", "@", "?", "#", "[", "]", "%"}} \cup
  {<<"%", "a", "1">>, <<"a", ":", "/", "/">>}
UriSettings ==
  {[field |-> f, val |-> <<"a">>] : f \in {"scheme", "query", "fragment"}} \cup
  {[field |-> "user", val |-> <<"x">>], [field |-> "pwd", val |-> <<"1">>],
   [field |-> "userinfo", val |-> <<"x", ":", "b">>],
   [field |-> "host", val |-> <<"a">>], [field |-> "host", val |-> <<":", ":", "1">>],
   [field |-> "port", val |-> <<"1">>], [field |-> "path", val |-> <<>>],
   [field |-> "path", val |-> <<"/", "a">>]}

U == INSTANCE Uri WITH TokenSz <- 200, UriChunks <- UriPieceSet, Settings <- UriSettings
X == INSTANCE Text

ASSUME DocAssumption == B64Assumption

-----------------------------------------------------------------------------
DocInit ==
  /\ which \in {"json", "atom", "tree", "config", "lines", "uri", "b64", "text"}
  /\ J!JsonInit /\ (which # "json" => supply = CHOOSE s \in JsonSupplies : TRUE)
  /\ J!AtomInit /\ T!TreeInit /\ C!ConfigInit /\ L!CfgTextInit /\ U!UriInit /\ B64Init /\ (which # "b64" => before = 0)
  /\ X!TextInit /\ (which # "text" => number = [value |-> 0, errno |-> "0"])

Others ==
  /\ which # "json" => UNCHANGED jsonVars
  /\ which # "atom" => UNCHANGED atomVars
  /\ which # "tree" => UNCHANGED treeVars
  /\ which # "config" => UNCHANGED configVars
  /\ which # "lines" => UNCHANGED cfgTextVars
  /\ which # "uri" => UNCHANGED uriVars
  /\ which # "b64" => UNCHANGED b64Vars
  /\ which # "text" => UNCHANGED textVars

DocNext ==
  /\ \/ which = "json" /\ J!JsonNext
     \/ which = "atom" /\ J!AtomNext
     \/ which = "tree" /\ T!TreeNext
     \/ which = "config" /\ C!ConfigNext
     \/ which = "lines" /\ L!CfgTextNext
     \/ which = "uri" /\ U!UriNext
     \/ which = "b64" /\ B64Next
     \/ which = "text" /\ X!TextNext
  /\ UNCHANGED which
  /\ Others

DocVars == <<which, jsonVars, atomVars, treeVars, configVars, cfgTextVars, uriVars, b64Vars, textVars>>
DocSpec == DocInit /\ [][DocNext]_DocVars

-----------------------------------------------------------------------------
(* The properties of each part; that of B64 is stated there.               *)

(* u_json_decode takes the texts it should, and what it built, or the      *)
(* constructors did, is encoded and decoded unchanged (Json, JsonAtom).    *)
JsonSound ==
  /\ which = "json" => J!JsonAccepts /\ J!JsonRoundTrip
  /\ which = "atom" => J!AtomExact

(* Values are found by their place and no freed one is reachable           *)
(* (JsonTree).                                                             *)
TreeSound == which = "tree" => T!FoundByPlace /\ T!NoFreedChild

(* A configuration survives being saved and loaded (Config), and a text is *)
(* cut into its lines (ConfigText).                                        *)
ConfigSound ==
  /\ which = "config" => C!ConfigRoundTrip
  /\ which = "lines" => L!LinesExact


(* A URI is cut into the pieces of RFC 3986 and put together again (Uri).  *)
UriSound == which = "uri" => U!UriPieces /\ U!UriRoundTrip

(* Strings are split, copied and converted exactly (Text).                 *)
TextExact == which = "text" => X!TokensExact /\ X!CopiesExact /\ X!NumbersExact
-----------------------------------------------------------------------------
(* What the sources say and the code does not do; the statements are in    *)
(* the modules of the parts.  Each is refuted when it takes the place of   *)
(* the properties of a run: IndexNames under DottedKeys, with names of     *)
(* FqnSz = 20 and one indexing, RemovesOnly where any node is removed.     *)
RemovesOnly == which = "tree" => T!NoFreedChild
IndexAgain == which = "tree" => T!NamesByPosition
IndexDropped == which = "tree" => T!NthUnindexed
IndexNames == which = "tree" => T!NamesUnique
IndexRoot == which = "tree" => T!KeysFromRoot
HashSaved == which = "config" => C!ValuesSaved
OptionalSkipped == which = "config" => C!IncludesSkipped
CircularCaught == which = "config" => C!CircularFound
PathAbsorbed == which = "uri" => U!RootlessPaths
LongConverted == which = "text" => X!LongGo
UnsignedConverted == which = "text" => X!UnsignedGo
LongLinesWhole == which = "lines" => L!LongLines
=============================================================================
