------------------------------- MODULE Config -------------------------------
(***************************************************************************)
(* Configuration trees of srcs/toolbox/config.c: keys are set by qualified *)
(* name, values may refer to other keys, and a tree is loaded from the     *)
(* lines of a file and saved to lines.  A qualified name is a sequence of  *)
(* names; a value as written is a sequence of items, each a literal or a   *)
(* reference to a key, and a value as stored a sequence of literals, of    *)
(* which " " is a blank and "#" what begins a comment.  A place in a tree  *)
(* is the sequence of child numbers that leads to it.                      *)
(***************************************************************************)
EXTENDS Integers, Sequences, FiniteSets

LOCAL INSTANCE FiniteSetsExt
LOCAL INSTANCE SequencesExt

CONSTANTS
  Names,         \* qualified names the client uses
  Values,        \* values the client uses, as written
  Files,         \* name of a file to its lines
  MaxOpen,       \* files that can be open at a time
  MaxKeys        \* nodes in a tree

VARIABLES
  cfg,           \* the tree
  loaded         \* how the last load of a file ended
configVars == <<cfg, loaded>>

NoVal == <<"null">>
Lit(x) == [lit |-> x, var |-> <<>>]
Var(n) == [lit |-> "", var |-> n]
Unclosed == [lit |-> "${", var |-> <<>>]   \* a reference without its brace
Null == <<[lit |-> "", var |-> <<>>]>>      \* no value: a NULL pointer

Create(key) == [key |-> key, val |-> NoVal, kids |-> <<>>]
Root0 == Create(<<>>)
Nowhere == <<0>>

RECURSIVE At(_, _), Put(_, _, _)
At(t, ix) == IF ix = <<>> THEN t ELSE At(t.kids[Head(ix)], Tail(ix))
Put(t, ix, n) ==
  IF ix = <<>> THEN n ELSE [t EXCEPT !.kids = [@ EXCEPT ![Head(ix)] = Put(@, Tail(ix), n)]]

-----------------------------------------------------------------------------
(* Lookup.  GetChildN gives the number of the n-th child (from 0) called   *)
(* key, or 0; a qualified name follows the first child of each name.       *)
GetChildN(t, key, n) ==
  LET hits == SelectSeq([i \in DOMAIN t.kids |-> i], LAMBDA i : t.kids[i].key = key)
  IN  IF n < Len(hits) THEN hits[n + 1] ELSE 0
GetChild(t, key) == GetChildN(t, key, 0)

RECURSIVE GetSubkey(_, _)
GetSubkey(t, name) ==
  LET i == GetChild(t, <<Head(name)>>)
      rest == GetSubkey(t.kids[i], Tail(name))
  IN  IF i = 0 THEN Nowhere
      ELSE IF Len(name) = 1 THEN <<i>>
      ELSE IF rest = Nowhere THEN Nowhere ELSE <<i>> \o rest

GetValue(t, ix) == At(t, ix).val
GetSubkeyValue(t, name) ==
  LET ix == GetSubkey(t, name) IN IF ix = Nowhere THEN NoVal ELSE GetValue(t, ix)

-----------------------------------------------------------------------------
(* Update.                                                                 *)
\* The old value goes first, so a value that refers to its own key does not
\* see it.  A reference is looked up beside the key, then from the root; it
\* stands for nothing if neither has it.
SetValue(t, ix, val) ==
  LET clear == Put(t, ix, [At(t, ix) EXCEPT !.val = NoVal])
      scope(n) == IF GetSubkey(At(clear, Front(ix)), n) # Nowhere THEN At(clear, Front(ix)) ELSE clear
      text(i) == IF i.var = <<>> THEN <<i.lit>>
                 ELSE LET v == GetSubkeyValue(scope(i.var), i.var) IN IF v = NoVal THEN <<>> ELSE v
      bad == \E i \in DOMAIN val : val[i] = Unclosed
  IN  IF val = Null \/ bad THEN [ok |-> ~bad, tree |-> clear]
      ELSE [ok |-> TRUE,
            tree |-> Put(t, ix, [At(t, ix) EXCEPT !.val = FlattenSeq([i \in DOMAIN val |-> text(val[i])])])]

AddChild(t, ix, key) == Put(t, ix, [At(t, ix) EXCEPT !.kids = Append(@, Create(key))])
NewChild(t, ix) == Len(At(t, ix).kids) + 1

\* Mutant: a missing key in the middle of a name is added at its end.
RECURSIVE DoSetKeyFlat(_, _, _, _, _)
DoSetKeyFlat(t, ix, name, val, overwrite) ==
  LET i == GetChild(At(t, ix), <<Head(name)>>)
      new == AddChild(t, ix, <<Head(name)>>)
  IN  IF Len(name) = 1 \/ i = 0
      THEN IF i = 0 \/ ~overwrite THEN SetValue(new, Append(ix, NewChild(t, ix)), val)
           ELSE SetValue(t, Append(ix, i), val)
      ELSE DoSetKeyFlat(t, Append(ix, i), Tail(name), val, overwrite)

RECURSIVE DoSetKey(_, _, _, _, _)
DoSetKey(t, ix, name, val, overwrite) ==
  LET i == GetChild(At(t, ix), <<Head(name)>>)
      new == AddChild(t, ix, <<Head(name)>>)
      add == Append(ix, NewChild(t, ix))
  IN  IF Len(name) = 1
      THEN IF i = 0 \/ ~overwrite THEN SetValue(new, add, val) ELSE SetValue(t, Append(ix, i), val)
      ELSE IF i = 0 THEN DoSetKey(new, add, Tail(name), val, overwrite)
      ELSE DoSetKey(t, Append(ix, i), Tail(name), val, overwrite)

-----------------------------------------------------------------------------
(* Lines.  What the loader makes of "key val": the value ends where a      *)
(* comment begins and has no blank at either end.                          *)
Includes == {<<"include">>, <<"-include">>}
Uncommented(val) == SubSeq(val, 1, Min({i \in DOMAIN val : val[i] = "#"} \cup {Len(val) + 1}) - 1)
Trim(val) ==
  LET solid == {i \in DOMAIN val : val[i] # " "}
  IN  IF solid = {} THEN <<>> ELSE SubSeq(val, Min(solid), Max(solid))
ReadLine(key, val) ==
  LET v == Trim(Uncommented(val))
  IN  [kind |-> IF key \in Includes THEN "include" ELSE IF v = <<>> THEN "name" ELSE "set",
       key |-> key, val |-> [i \in DOMAIN v |-> Lit(v[i])]]

\* u_config_to_str and u_config_print_to_fp: an "include" is not written,
\* what it brought in is.  A value is written as it is.
OwnLine(t) ==
  IF t.key \in {<<>>, <<"include">>} THEN <<>>
  ELSE <<ReadLine(t.key, IF t.val = NoVal THEN <<>> ELSE t.val)>>

RECURSIVE ToStr(_), ToStrOpen(_)
\* Mutant: a section is not closed.
ToStrOpen(t) ==
  LET kids == FlattenSeq([i \in DOMAIN t.kids |-> ToStrOpen(t.kids[i])])
  IN  OwnLine(t) \o IF t.kids = <<>> \/ t.key = <<>> THEN kids ELSE <<[kind |-> "open"]>> \o kids

ToStr(t) ==
  LET kids == FlattenSeq([i \in DOMAIN t.kids |-> ToStr(t.kids[i])])
  IN  OwnLine(t) \o IF t.kids = <<>> \/ t.key = <<>> THEN kids
                    ELSE <<[kind |-> "open"]>> \o kids \o <<[kind |-> "close"]>>

-----------------------------------------------------------------------------
(* Loading.  The lines of a section are taken from those of the file, so a *)
(* result holds what is left.  lastkey is the last name without a value,   *)
(* left the number of files that can still be opened; a result is "limit"  *)
(* when it was the want of one that stopped the load.                      *)
Loaded(status, t, rest) == [status |-> status, tree |-> t, rest |-> rest]
Circular(t, ix, inc, path) ==
  \E i \in DOMAIN At(t, ix).kids :
    i # inc /\ At(t, ix).kids[i].key = <<"include">> /\ At(t, ix).kids[i].val = path

RECURSIVE LoadDrv(_, _, _, _, _, _), Include(_, _, _, _, _)
LoadDrv(t, ix, lines, lastkey, overwrite, left) ==
  IF lines = <<>> THEN Loaded("ok", t, <<>>)
  ELSE LET ln == Head(lines)
           old == IF overwrite THEN GetChild(At(t, ix), lastkey) ELSE 0
           sect == IF old = 0 THEN AddChild(t, ix, lastkey) ELSE t
           inside == LoadDrv(sect, Append(ix, IF old = 0 THEN NewChild(t, ix) ELSE old),
                             Tail(lines), <<>>, overwrite, left)
           named == DoSetKey(t, ix, ln.key, ln.val, FALSE)
           inc == Include(named.tree, ix, NewChild(t, ix), overwrite, left)
           Next(r, last) == IF r.ok THEN LoadDrv(r.tree, ix, Tail(lines), last, overwrite, left)
                            ELSE Loaded("error", r.tree, <<>>)
       IN  CASE ln.kind = "open" ->
                  CASE lastkey = <<>>       -> Loaded("error", t, <<>>)
                    [] lastkey # <<>> /\ inside.status # "ok" -> inside
                    [] OTHER -> LoadDrv(inside.tree, ix, inside.rest, <<>>, overwrite, left)
             [] ln.kind = "close" -> Loaded(IF ix # <<>> THEN "ok" ELSE "error", t, Tail(lines))
             [] ln.kind = "name"  -> LoadDrv(t, ix, Tail(lines), ln.key, overwrite, left)
             [] ln.kind = "set"   -> Next(DoSetKey(t, ix, ln.key, ln.val, overwrite), lastkey)
             [] ln.kind = "include" ->
                  CASE ln.val = <<>>            -> Loaded("error", t, <<>>)
                    [] ln.val # <<>> /\ ~named.ok -> Loaded("error", named.tree, <<>>)
                    [] ln.val # <<>> /\ named.ok /\ inc.status # "ok" /\ ln.key # <<"-include">> -> inc
                    [] OTHER -> Next(DoSetKey(inc.tree, ix, ln.key, ln.val, overwrite), lastkey)

\* inc is the number of the key that names the file.
Include(t, ix, inc, overwrite, left) ==
  LET path == At(t, ix).kids[inc].val
      r == LoadDrv(t, ix, Files[path[1]], <<>>, overwrite, left - 1)
  IN  CASE Circular(t, ix, inc, path) -> Loaded("error", t, <<>>)
        [] ~Circular(t, ix, inc, path) /\ left = 0 -> Loaded("limit", t, <<>>)
        [] ~Circular(t, ix, inc, path) /\ left > 0 /\ (Len(path) # 1 \/ path[1] \notin DOMAIN Files) ->
             Loaded("error", t, <<>>)
        [] OTHER -> r

\* The driver of a buffer opens no file.
LoadFromBuf(lines) == LoadDrv(Root0, <<>>, lines, <<>>, FALSE, 0)

-----------------------------------------------------------------------------
RECURSIVE Size(_)
Size(t) == 1 + FoldLeft(LAMBDA s, k : s + Size(k), 0, t.kids)

ConfigInit == cfg = Root0 /\ loaded = "ok"

AddKey(name, val) == cfg' = DoSetKey(cfg, <<>>, name, val, FALSE).tree /\ UNCHANGED loaded
SetKey(name, val) == cfg' = DoSetKey(cfg, <<>>, name, val, TRUE).tree /\ UNCHANGED loaded

DelChild(name) ==
  LET ix == GetSubkey(cfg, name) IN
  /\ ix # Nowhere
  /\ cfg' = Put(cfg, Front(ix), [At(cfg, Front(ix)) EXCEPT !.kids = RemoveAt(@, Last(ix))])
  /\ UNCHANGED loaded

\* u_config_load on the tree: what was read before an error stays.
LoadFile(f, overwrite) ==
  LET r == LoadDrv(cfg, <<>>, Files[f], <<>>, overwrite, MaxOpen - 1)
  IN  cfg' = r.tree /\ loaded' = r.status

ConfigNext ==
  /\ Size(cfg) < MaxKeys
  /\ \/ \E n \in Names : (\E v \in Values : AddKey(n, v) \/ SetKey(n, v)) \/ DelChild(n)
     \/ \E f \in DOMAIN Files, o \in BOOLEAN : LoadFile(f, o)

-----------------------------------------------------------------------------
\* Every node is a section or a key with a value, but not both, and no
\* optional include is among them.
RECURSIVE Regular(_), WithoutIncludes(_), ValuesOf(_)
Regular(t) ==
  \A i \in DOMAIN t.kids :
    LET k == t.kids[i]
    IN  /\ (k.kids = <<>>) <=> (k.val # NoVal)
        /\ k.val # <<>> /\ k.key # <<"-include">>
        /\ Regular(k)
WithoutIncludes(t) ==
  LET kids == SelectSeq(t.kids, LAMBDA k : k.key # <<"include">>)
  IN  [t EXCEPT !.kids = [i \in DOMAIN kids |-> WithoutIncludes(kids[i])]]

ValuesOf(t) == {t.val} \cup UNION {ValuesOf(t.kids[i]) : i \in DOMAIN t.kids}

Reloaded == LoadFromBuf(ToStr(cfg)) = Loaded("ok", WithoutIncludes(cfg), <<>>)

(* A tree of sections and valued keys, with what included files brought    *)
(* into it, is marshalled and unmarshalled unchanged but for the "include" *)
(* keys, as long as no value has a "#" or a blank at an end                *)
(* (u_config_save_to_buf, u_config_load_from_buf).                         *)
ConfigRoundTrip ==
  Regular(cfg) /\ (\A v \in ValuesOf(cfg) : Trim(Uncommented(v)) = v) => Reloaded

(* A "#" that was escaped "is treated as a normal name or value" and "an   *)
(* u_config_t object can be marshalled/unmarshalled" (config.c:78, 161):   *)
(* as ConfigRoundTrip, but a "#" may be in a value.                        *)
ValuesSaved == Regular(cfg) /\ (\A v \in ValuesOf(cfg) : Trim(v) = v) => Reloaded

(* "'include' directives are skipped since that wouldn't give semantical   *)
(* equivalence to the dumped object" (config.c:246): no line that is       *)
(* written makes the loader include a file.                                *)
IncludesSkipped == \A i \in DOMAIN ToStr(cfg) : ToStr(cfg)[i].kind # "include"

(* "circular dependency error" (config.c:1246): with more files to open at *)
(* a time than there are, no load ends for the want of one.                *)
CircularFound == MaxOpen > Cardinality(DOMAIN Files) => loaded # "limit"

Plain(v) == v # Null /\ \A i \in DOMAIN v : v[i].var = <<>> /\ v[i] # Unclosed
AsStored(v) == [i \in DOMAIN v |-> v[i].lit]

(* u_config_set_key gives its key the value and u_config_add_key only if   *)
(* the key did not exist; the value of every other name stays.             *)
SetStep ==
  \A n \in Names, v \in Values :
    /\ SetKey(n, v) /\ Plain(v) => GetSubkeyValue(cfg', n) = AsStored(v)
    /\ AddKey(n, v) /\ Plain(v) /\ GetSubkey(cfg, n) = Nowhere => GetSubkeyValue(cfg', n) = AsStored(v)
    /\ SetKey(n, v) \/ AddKey(n, v) =>
         \A o \in Names : o # n => GetSubkeyValue(cfg', o) = GetSubkeyValue(cfg, o)
SetIsLocal == [][SetStep]_configVars
=============================================================================
