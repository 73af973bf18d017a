--------------------------------- MODULE Uri ---------------------------------
(***************************************************************************)
(* The URIs of srcs/toolbox/uri.c over the scanner of lexer.c: the parser  *)
(* behind u_uri_crumble, the setters, and u_uri_knead, which puts the      *)
(* pieces together again.  Texts are shorter than U_TOKEN_SZ.              *)
(***************************************************************************)
EXTENDS Lexer

LOCAL INSTANCE FiniteSetsExt

CONSTANTS
  UriChunks,      \* pieces the texts are put together from
  UriMaxChunks,   \* pieces in a text
  Settings        \* [field, val] the setters are called with

VARIABLES
  uriText,   \* a text to crumble
  uriPieces, \* its pieces, or the number of setters called
  uri        \* a u_uri_t filled in with the setters
uriVars == <<uriText, uriPieces, uri>>

Alpha == {"a", "b", "f", "x"}
Alnum == Alpha \cup Digit
Unescaped == Alnum \cup {"-", ".", "_", "~", "!", "$", "&", "'", "(", ")", "*", "+", ",", ";", "="}
MinusAtSign == {":"}
Pchar == MinusAtSign \cup {"@"}

New == [scheme |-> <<>>, userinfo |-> <<>>, user |-> <<>>, pwd |-> <<>>, host |-> <<>>,
        port |-> <<>>, authority |-> <<>>, path |-> <<"/">>, query |-> <<>>, fragment |-> <<>>,
        literal |-> FALSE]
UriFail == [at |-> Err, u |-> New]

-----------------------------------------------------------------------------
(* Characters.  A match is [ok, at]: the cursor also moves when a          *)
(* percent-encoding is broken.                                             *)
ExpectPct(t, p) ==
  CASE Peek(t, p + 1) \notin HexDigit -> [ok |-> FALSE, at |-> p + 1]
    [] Peek(t, p + 1) \in HexDigit /\ Peek(t, p + 2) \notin HexDigit -> [ok |-> FALSE, at |-> p + 2]
    [] OTHER -> [ok |-> TRUE, at |-> p + 3]
MatchUps(t, p) ==
  IF Peek(t, p) = "%" THEN ExpectPct(t, p)
  ELSE LET ok == Peek(t, p) \in Unescaped IN [ok |-> ok, at |-> IF ok THEN p + 1 ELSE p]
MatchUpsOr(t, p, also) ==
  IF Peek(t, p) \in also THEN [ok |-> TRUE, at |-> p + 1] ELSE MatchUps(t, p)

\* Where the longest match from p ends.
RECURSIVE EndOf(_, _, _)
EndOf(t, p, also) ==
  LET m == MatchUpsOr(t, p, also) IN IF m.ok THEN EndOf(t, m.at, also) ELSE m.at

\* The first position from p on that holds none of a set of characters.
EndOfSet(t, p, set) == Min({q \in p .. Len(t) + 1 : Peek(t, q) \notin set})

\* The match includes the character under the cursor, and perhaps a "]".
AdjustGreedyMatch(t, l, r) ==
  LET m == SubSeq(t, l, Min({r, Len(t)}))
      n == IF Eot(t, r) THEN Len(m) ELSE Len(m) - 1
  IN  SubSeq(m, 1, IF n > 0 /\ m[n] = "]" THEN n - 1 ELSE n)

-----------------------------------------------------------------------------
(* The components, in the order in which they are read.  Each takes where  *)
(* the one before it ended and what it left: c = [at, u].                  *)
ParseScheme(t) ==
  LET e == EndOfSet(t, 2, Alnum \cup {"+", "-", "."})
  IN  IF Peek(t, 1) \notin Alpha THEN UriFail
      ELSE [at |-> e, u |-> [New EXCEPT !.scheme = SubSeq(t, 1, e - 1)]]

ExpectColon(t, c) == IF c.at = Err THEN c ELSE [c EXCEPT !.at = ExpectChar(t, c.at, ":")]

\* The first character is never taken for the ":".
CrumbleUserPassword(s, u) ==
  LET colons == {i \in 2 .. Len(s) : s[i] = ":"}
      e == Min(colons \cup {Len(s) + 1})
  IN  IF s = <<>> THEN u
      ELSE [u EXCEPT !.user = AdjustGreedyMatch(s, 1, e),
                     !.pwd = IF colons = {} THEN <<>> ELSE AdjustGreedyMatch(s, e + 1, Len(s) + 1)]

SetUserinfo(u, info, split) ==
  IF split THEN CrumbleUserPassword(info, [u EXCEPT !.userinfo = info]) ELSE [u EXCEPT !.userinfo = info]
UserinfoUpTo(t, p, e, u, split) ==
  IF Peek(t, e) # "@" THEN UriFail
  ELSE [at |-> e + 1, u |-> SetUserinfo(u, AdjustGreedyMatch(t, p, e), split)]
ParseUserinfo(t, p, u, split) ==
  IF \E q \in p .. Len(t) : t[q] = "@" THEN UserinfoUpTo(t, p, EndOf(t, p + 1, MinusAtSign), u, split)
  ELSE [at |-> p, u |-> u]

\* [l, r, literal]: the host is matched between l and r.
ParseIpliteral(t, p) ==
  LET e == EndOf(t, p + 1, Pchar)
  IN  [l |-> p + 1, r |-> IF Peek(t, e) = "]" THEN e + 1 ELSE Err, literal |-> TRUE]
ParseIpv4(t, p) == [l |-> p, r |-> EndOfSet(t, p, Digit \cup {"."}), literal |-> FALSE]
ParseRegname(t, p) == [l |-> p, r |-> EndOf(t, p, {}), literal |-> FALSE]
HostAt(t, p, m) ==
  CASE Peek(t, p) \in Digit                       -> ParseIpv4(t, p)
    [] Peek(t, p) \notin Digit /\ m.ok            -> ParseRegname(t, p)
    [] ~m.ok /\ Peek(t, m.at) = "["               -> ParseIpliteral(t, m.at)
    [] OTHER                                      -> [l |-> p, r |-> m.at, literal |-> FALSE]
SetHost(t, c, h) ==
  IF h.r = Err THEN UriFail
  ELSE [at |-> h.r, u |-> [c.u EXCEPT !.host = AdjustGreedyMatch(t, h.l, h.r), !.literal = h.literal]]
ParseHost(t, c) ==
  IF c.at = Err THEN c ELSE SetHost(t, c, HostAt(t, c.at, MatchUps(t, c.at)))

\* A delimiter, if it is there, and what follows it up to e.
PortUpTo(t, c, e) == [at |-> e, u |-> [c.u EXCEPT !.port = AdjustGreedyMatch(t, c.at + 1, e)]]
ParsePort(t, c) ==
  IF Peek(t, c.at) # ":" THEN c ELSE PortUpTo(t, c, EndOfSet(t, c.at + 1, Alnum \cup {"_", "-", "."}))

\* "/"-separated segments, which may be empty.
RECURSIVE ExpectPathAbempty(_, _)
ExpectPathAbempty(t, p) ==
  IF Peek(t, p) = "/" THEN ExpectPathAbempty(t, EndOf(t, p + 1, Pchar)) ELSE p
PathUpTo(t, c, e) == [at |-> e, u |-> [c.u EXCEPT !.path = AdjustGreedyMatch(t, c.at, e)]]
ParseAbempty(t, c) == IF c.at = Err THEN c ELSE PathUpTo(t, c, ExpectPathAbempty(t, c.at))

ParseAuthority(t, c, split) ==
  ParseAbempty(t, ParsePort(t, ParseHost(t, ParseUserinfo(t, c.at + 2, c.u, split))))

ExpectSegmentNz(t, p) == IF MatchUpsOr(t, p, Pchar).ok THEN EndOf(t, p, Pchar) ELSE Err
PathFrom(t, c, s) == IF s = Err THEN UriFail ELSE PathUpTo(t, c, ExpectPathAbempty(t, s))
ParsePath(t, c) == PathFrom(t, c, ExpectSegmentNz(t, IF Peek(t, c.at) = "/" THEN c.at + 1 ELSE c.at))

\* Looking at the first character of a path moves the cursor: to the second
\* digit of a percent-encoding, and the path begins there; or to where the
\* encoding is broken, and the path is empty.
PathOrNone(t, c, m) ==
  IF m.ok THEN ParsePath(t, [c EXCEPT !.at = m.at - 1]) ELSE [at |-> m.at, u |-> [c.u EXCEPT !.path = <<>>]]
ParseHierPart(t, c, split) ==
  CASE c.at = Err -> c
    [] c.at # Err /\ Peek(t, c.at) = "/" /\ Peek(t, c.at + 1) = "/" -> ParseAuthority(t, c, split)
    [] OTHER -> PathOrNone(t, c, MatchUpsOr(t, c.at, Pchar \cup {"/"}))

QueryUpTo(t, c, e) == [at |-> e, u |-> [c.u EXCEPT !.query = AdjustGreedyMatch(t, c.at + 1, e)]]
ParseQuery(t, c) ==
  IF Peek(t, c.at) # "?" THEN c ELSE QueryUpTo(t, c, EndOf(t, c.at + 1, Pchar \cup {"/", "?"}))

\* The match is not adjusted here: the character under the cursor stays.
FragmentUpTo(t, c, e) ==
  [at |-> e, u |-> [c.u EXCEPT !.fragment = SubSeq(t, c.at + 1, Min({e, Len(t)}))]]
ParseFragment(t, c) ==
  IF Peek(t, c.at) # "#" THEN c ELSE FragmentUpTo(t, c, EndOf(t, c.at + 1, Pchar \cup {"/", "?"}))

UriParser(t, split) ==
  ParseFragment(t, ParseQuery(t, ParseHierPart(t, ExpectColon(t, ParseScheme(t)), split)))
UriCrumble(t, split) == UriParser(t, split)
Absolute(c) == c.at # Err /\ c.u.scheme # <<>> /\ c.u.fragment = <<>>
IsAbsolute(t) == Absolute(UriCrumble(t, TRUE))

-----------------------------------------------------------------------------
(* The text of a u_uri_t.                                                  *)
After(c, s) == IF s = <<>> THEN <<>> ELSE <<c>> \o s

\* Mutant: the colons of a host are not looked at.
IpliteralFlagOnly(u) == u.literal
IsIpliteral(u) == u.literal \/ \E i \in DOMAIN u.host : u.host[i] = ":"

KneadAuthority(u) ==
  LET credentials ==
        CASE u.userinfo # <<>>                   -> u.userinfo \o <<"@">>
          [] u.userinfo = <<>> /\ u.user # <<>> -> u.user \o After(":", u.pwd) \o <<"@">>
          [] OTHER                              -> <<>>
      host == IF IsIpliteral(u) THEN <<"[">> \o u.host \o <<"]">> ELSE u.host
  IN  <<"/", "/">> \o credentials \o host \o After(":", u.port)

\* Without an authority and a host there is nothing to knead.
CanKnead(u) == u.authority # <<>> \/ u.host # <<>>
UriKnead(u) ==
  (IF u.scheme = <<>> THEN <<>> ELSE u.scheme \o <<":">>)
    \o (IF u.authority # <<>> THEN <<"/", "/">> \o u.authority ELSE KneadAuthority(u))
    \o u.path \o After("?", u.query) \o After("#", u.fragment)

-----------------------------------------------------------------------------
(* Every text of up to UriMaxChunks pieces, and every object made by as    *)
(* many calls of the setters.                                              *)
UriInit == uriText = <<>> /\ uriPieces = 0 /\ uri = New
Compose ==
  /\ uri = New
  /\ \E c \in UriChunks : uriText' = uriText \o c
  /\ UNCHANGED uri
SetField ==
  /\ uriText = <<>>
  /\ \E s \in Settings : uri' = [uri EXCEPT ![s.field] = s.val]
  /\ UNCHANGED uriText
UriNext ==
  /\ uriPieces < UriMaxChunks
  /\ uriPieces' = uriPieces + 1
  /\ Compose \/ SetField

-----------------------------------------------------------------------------
(* RFC 3986, without a scanner: appendix B cuts a reference at the first   *)
(* of its delimiters.                                                      *)
UpTo(t, p, stops) == Min({q \in p .. Len(t) : t[q] \in stops} \cup {Len(t) + 1})
Between(t, i, j) == SubSeq(t, i, j - 1)

\* The rule's parts: where the authority begins and ends, then the rest.
Auth(t, c) == Peek(t, c + 1) = "/" /\ Peek(t, c + 2) = "/"
AuthOf(t, c) == IF Auth(t, c) THEN Between(t, c + 3, UpTo(t, c + 3, {"/", "?", "#"})) ELSE <<>>
RestOf(t, c) == IF Auth(t, c) THEN UpTo(t, c + 3, {"/", "?", "#"}) ELSE c + 1
HostOf(a, at) == IF at > Len(a) THEN a ELSE Between(a, at + 1, Len(a) + 1)
HostEnd(h) == UpTo(h, IF Peek(h, 1) = "[" THEN UpTo(h, 1, {"]"}) ELSE 1, {":"})

\* c: the ":" after the scheme, a: the authority, p: the path on.
Pieces(t, c, auth, a, p) ==
  LET at == UpTo(a, 1, {"@"})
      h == HostOf(a, at)
      q == UpTo(p, 1, {"?", "#"})
      f == UpTo(p, q, {"#"})
  IN  [scheme |-> Between(t, 1, c), auth |-> auth, noinfo |-> at = 1,
       userinfo |-> IF at > Len(a) THEN <<>> ELSE Between(a, 1, at), rawhost |-> Between(h, 1, HostEnd(h)),
       port |-> Between(h, HostEnd(h) + 1, Len(h) + 1),
       path |-> Between(p, 1, q), query |-> Between(p, q + 1, f), fragment |-> Between(p, f + 1, Len(p) + 1),
       late |-> \E i \in DOMAIN p : p[i] = "@"]
CutsAt(t, c) == Pieces(t, c, Auth(t, c), AuthOf(t, c), Between(t, RestOf(t, c), Len(t) + 1))
Cuts(t) == CutsAt(t, UpTo(t, 1, {":", "/", "?", "#"}))

Of(s, also) ==
  /\ \A i \in DOMAIN s : s[i] \in Unescaped \cup {"%"} \cup also
  /\ \A i \in DOMAIN s : s[i] = "%" => Peek(s, i + 1) \in HexDigit /\ Peek(s, i + 2) \in HexDigit
IsLiteralHost(s) == Len(s) > 1 /\ s[1] = "[" /\ s[Len(s)] = "]"
Bare(s) == IF IsLiteralHost(s) THEN SubSeq(s, 2, Len(s) - 1) ELSE s

IsUri(t, r) ==
  /\ r.scheme # <<>> /\ r.scheme[1] \in Alpha /\ Peek(t, Len(r.scheme) + 1) = ":"
  /\ \A i \in DOMAIN r.scheme : r.scheme[i] \in Alnum \cup {"+", "-", "."}
  /\ r.auth => /\ Of(r.userinfo, {":"})
               /\ IF IsLiteralHost(r.rawhost) THEN Of(Bare(r.rawhost), {":"}) ELSE Of(r.rawhost, {})
               /\ \A i \in DOMAIN r.port : r.port[i] \in Digit
  /\ Of(r.path, Pchar \cup {"/"}) /\ Of(r.query, Pchar \cup {"/", "?"}) /\ Of(r.fragment, Pchar \cup {"/", "?"})

\* The URIs that the parser refuses or cuts otherwise: an "@" after the
\* authority or an empty user information, a path of a single "/" or one
\* that begins with a percent-encoding when there is no authority, a host
\* name that begins with a digit.
Unlike(r) ==
  \/ r.auth /\ r.userinfo = <<>> /\ (r.late \/ r.noinfo)
  \/ ~r.auth /\ (r.path = <<"/">> \/ Peek(r.path, 1) = "%")
  \/ r.auth /\ r.rawhost # <<>> /\ r.rawhost[1] \in Digit
     /\ \E i \in DOMAIN r.rawhost : r.rawhost[i] \notin Digit \cup {"."}

CutAlike(t, c, r) ==
  /\ c.at = Len(t) + 1
  /\ c.u.scheme = r.scheme /\ c.u.path = r.path /\ c.u.query = r.query /\ c.u.fragment = r.fragment
  /\ r.auth => c.u.userinfo = r.userinfo /\ c.u.host = Bare(r.rawhost) /\ c.u.port = r.port
CutRightly(t, r) ==
  IsUri(t, r) /\ ~Unlike(r) =>
    /\ \A split \in BOOLEAN : CutAlike(t, UriCrumble(t, split), r)
    /\ IsAbsolute(t) <=> r.fragment = <<>>

(* Any other URI of RFC 3986 is accepted, and cut into the same pieces as  *)
(* by the regular expression of the RFC's appendix B.                      *)
UriPieces == CutRightly(uriText, Cuts(uriText))

(* "Absorbs both rootless and absolute paths" (uri.c:697): what the parser *)
(* accepts with no authority has the path that it is written with.         *)
RootlessPaths ==
  LET r == Cuts(uriText)
      c == UriCrumble(uriText, TRUE)
  IN  IsUri(uriText, r) /\ ~r.auth /\ c.at # Err => c.u.path = r.path

Alike(c, u) ==
  /\ c.at # Err
  /\ \A f \in {"scheme", "host", "port", "path", "query", "fragment"} : c.u[f] = u[f]
  /\ IF u.userinfo # <<>> THEN c.u.userinfo = u.userinfo
     ELSE u.user # <<>> => c.u.user = u.user /\ c.u.pwd = u.pwd
Kneadable(u) ==
  u.scheme # <<>> /\ u.authority = <<>> /\ CanKnead(u) => Alike(UriCrumble(UriKnead(u), TRUE), u)

(* What was crumbled from a URI, or built with the setters, and can be     *)
(* kneaded is crumbled into the same pieces again.                         *)
UriRoundTrip ==
  /\ Kneadable(uri)
  /\ IsUri(uriText, Cuts(uriText)) => Kneadable(UriCrumble(uriText, TRUE).u)

(* u_uri_knead recomposes any URI that u_uri_crumble took apart.           *)
KneadsWhatItCrumbled ==
  UriCrumble(uriText, TRUE).at # Err => CanKnead(UriCrumble(uriText, TRUE).u)
=============================================================================
