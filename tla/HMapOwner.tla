------------------------------ MODULE HMapOwner ------------------------------
(***************************************************************************)
(* Who frees what in the hash map of srcs/toolbox/hmap.c: the options, the *)
(* objects that carry keys and values, and the advanced and the easy       *)
(* interface.  The table is the set of its objects (HMapTable shows that   *)
(* each is found under its key) and the policy discards any of them        *)
(* (HMapCache shows which).                                                *)
(***************************************************************************)
EXTENDS Integers, FiniteSets

CONSTANTS
  Names,        \* keys
  Slots,        \* lists in the array: a linear map takes Slots - 1 objects
  MaxSettings,  \* calls of u_hmap_opts_set_*
  MaxPuts

VARIABLES
  ownOpts,   \* the caller's u_hmap_opts_t
  settings,  \* setters called
  map,       \* [live, opts, objs]: the u_hmap_t
  puts,      \* objects created; the n-th has blocks <<_, n>>
  made,      \* blocks that u_hmap_o_new allocated
  freed,     \* blocks that were freed
  twice,     \* a block was freed again
  hands,     \* objects that u_hmap_put or u_hmap_del gave back to the caller
  failed     \* objects of which u_hmap_put said U_HMAP_ERR_FAIL
ownVars == <<ownOpts, settings, map, puts, made, freed, twice, hands, failed>>

Unset == "Unset"
Default == "default"  \* a function of hmap.c
Custom == "custom"    \* a function of the caller
Wrong == "wrong"      \* an enumerator past the last one
PtrSize == 4          \* sizeof(void *)

-----------------------------------------------------------------------------
\* f_pcy_cmp is not among the fields that u_hmap_opts_init sets.
OptsInit(o) ==
  [size |-> 512, max |-> 512, type |-> "CHAIN", policy |-> "NONE",
   options |-> {"NO_OVERWRITE", "OWNSDATA"},
   f_hash |-> Default, f_comp |-> Default, f_free |-> Unset, f_str |-> Unset,
   key_type |-> "STRING", val_type |-> "POINTER", f_key_free |-> Unset, f_val_free |-> Unset,
   val_free_set |-> FALSE, key_sz |-> PtrSize, val_sz |-> PtrSize,
   f_pcy_cmp |-> o.f_pcy_cmp, easy |-> FALSE]
OptsNew == OptsInit([f_pcy_cmp |-> Unset])
OptsCopy(to, from) == [f \in DOMAIN to |-> from[f]]

\* A setter that refuses its argument leaves the options alone.
SetSize(o, n) == IF n <= 0 THEN o ELSE [o EXCEPT !.size = n]
SetMax(o, n) == IF n <= 0 THEN o ELSE [o EXCEPT !.max = n]
SetType(o, t) == IF t = Wrong THEN o ELSE [o EXCEPT !.type = t]
SetOption(o, x) == IF o.easy /\ x = "OWNSDATA" THEN o ELSE [o EXCEPT !.options = @ \cup {x}]
UnsetOption(o, x) == IF o.easy /\ x = "OWNSDATA" THEN o ELSE [o EXCEPT !.options = @ \ {x}]
SetHashfunc(o, f) == IF f = Unset THEN o ELSE [o EXCEPT !.f_hash = f]
SetCompfunc(o, f) == IF f = Unset THEN o ELSE [o EXCEPT !.f_comp = f]
SetFreefunc(o, f) == IF o.easy THEN o ELSE [o EXCEPT !.f_free = f]
SetStrfunc(o, f) == [o EXCEPT !.f_str = f]
SetKeyType(o, t) == IF t = Wrong \/ o.easy THEN o ELSE [o EXCEPT !.key_type = t]
SetKeySz(o, n) == IF n = 0 \/ o.easy \/ o.key_type # "OPAQUE" THEN o ELSE [o EXCEPT !.key_sz = n]
SetKeyFreefunc(o, f) == IF o.easy THEN o ELSE [o EXCEPT !.f_key_free = f]
SetValType(o, t) == IF t = Wrong THEN o ELSE [o EXCEPT !.val_type = t]
SetValSz(o, n) == IF n = 0 \/ o.val_type # "OPAQUE" THEN o ELSE [o EXCEPT !.val_sz = n]
SetValFreefunc(o, f) == [o EXCEPT !.f_val_free = f, !.val_free_set = TRUE]
SetPolicy(o, p) == IF p = Wrong THEN o ELSE [o EXCEPT !.policy = p]
SetPolicyCmp(o, f) == IF f = Unset \/ o.policy # "CUSTOM" THEN o ELSE [o EXCEPT !.f_pcy_cmp = f]

OneSetting(o) ==
  {SetSize(o, n) : n \in {0, 3}} \cup {SetMax(o, n) : n \in {0, 1, 2}}
  \cup {SetType(o, t) : t \in {"LINEAR", Wrong}}
  \cup UNION {{SetOption(o, x), UnsetOption(o, x)} : x \in {"OWNSDATA", "NO_OVERWRITE"}}
  \cup UNION {{SetHashfunc(o, f), SetCompfunc(o, f), SetStrfunc(o, f), SetFreefunc(o, f),
               SetKeyFreefunc(o, f), SetValFreefunc(o, f), SetPolicyCmp(o, f)} : f \in {Unset, Custom}}
  \cup UNION {{SetKeyType(o, t), SetValType(o, t)} : t \in {"POINTER", "STRING", "OPAQUE", Wrong}}
  \cup UNION {{SetKeySz(o, n), SetValSz(o, n)} : n \in {0, 8}}
  \cup {SetPolicy(o, p) : p \in {"LRU", "CUSTOM", Wrong}}

OptsCheck(o) ==
  /\ o.size # 0 /\ o.max # 0 /\ o.f_hash # Unset /\ o.f_comp # Unset
  /\ o.easy /\ o.val_type = "POINTER" => o.val_free_set
  /\ o.policy = "CUSTOM" => o.f_pcy_cmp # Unset

Owns(o) == "OWNSDATA" \in o.options

\* The keys and values of an object are the caller's or copies of them.
Internalise(type, ptr, copy) == IF Owns(map.opts) /\ type # "POINTER" THEN copy ELSE ptr
ONew(name) ==
  LET n == puts + 1
  IN  [n |-> n, name |-> name,
       key |-> Internalise(map.opts.key_type, <<"key", n>>, <<"keycopy", n>>),
       val |-> Internalise(map.opts.val_type, <<"val", n>>, <<"valcopy", n>>)]
Struct(obj) == <<"obj", obj.n>>
Blocks(obj) == {Struct(obj), obj.key, obj.val}
Allocated(obj) == {b \in Blocks(obj) : b[1] \notin {"key", "val"}}

\* The blocks that __o_free frees; f_free frees what the object points to.
OFree(obj) ==
  LET o == map.opts
      Goes(type, f, ptr) == IF type = "POINTER" /\ f = Unset THEN {} ELSE {ptr}
  IN  {Struct(obj)} \cup
      IF o.f_free # Unset THEN {obj.key, obj.val}
      ELSE Goes(o.key_type, o.f_key_free, obj.key) \cup Goes(o.val_type, o.f_val_free, obj.val)

Free(blocks) ==
  /\ freed' = freed \cup blocks
  /\ twice' = (twice \/ blocks \cap freed # {})
OFreeAll(objs) == Free(UNION {OFree(obj) : obj \in objs})

-----------------------------------------------------------------------------
OwnInit ==
  /\ ownOpts = OptsNew /\ settings = 0
  /\ map = [live |-> FALSE, opts |-> OptsNew, objs |-> {}]
  /\ puts = 0 /\ made = {} /\ freed = {} /\ twice = FALSE /\ hands = {} /\ failed = {}

Setting ==
  /\ puts = 0 /\ ~map.live /\ settings < MaxSettings
  /\ settings' = settings + 1
  /\ ownOpts' \in OneSetting(ownOpts) \ {ownOpts}
  /\ UNCHANGED <<map, puts, made, freed, twice, hands, failed>>

New(o) ==
  /\ OptsCheck(o)
  /\ map' = [live |-> TRUE, opts |-> o, objs |-> {}]
  /\ UNCHANGED <<ownOpts, settings, puts, made, freed, twice, hands, failed>>

HMapNew == puts = 0 /\ ~map.live /\ New(OptsCopy(OptsNew, ownOpts))
EasyNew == puts = 0 /\ ~map.live /\ New([OptsCopy(OptsInit(OptsNew), ownOpts) EXCEPT !.easy = TRUE])

\* What the map no longer holds is freed if the map owns its data, and given
\* to the caller if it asked for it (u_hmap_easy_put and _del do not).
LetGo(objs) ==
  IF Owns(map.opts)
  THEN OFreeAll(objs) /\ hands' = hands
  ELSE /\ UNCHANGED <<freed, twice>>
       /\ hands' = IF map.opts.easy THEN hands ELSE hands \cup objs

Same(obj) == {o \in map.objs : o.name = obj.name}

\* Mutant: what is refused is let go of by nobody.
RefuseLosing(obj) ==
  /\ Same(obj) # {} /\ "NO_OVERWRITE" \in map.opts.options
  /\ UNCHANGED <<map, failed, freed, twice, hands>>
RefusePut(obj) ==
  /\ Same(obj) # {} /\ "NO_OVERWRITE" \in map.opts.options
  /\ UNCHANGED <<map, failed>>
  /\ LetGo({obj})
Overwrite(obj) ==
  /\ Same(obj) # {} /\ "NO_OVERWRITE" \notin map.opts.options
  /\ map' = [map EXCEPT !.objs = (@ \ Same(obj)) \cup {obj}]
  /\ UNCHANGED failed
  /\ LetGo(Same(obj))

AtMax == Cardinality(map.objs) >= map.opts.max /\ map.opts.policy # "NONE"
NoSlot ==
  /\ map.opts.type = "LINEAR" /\ map.opts.policy # "NONE"
  /\ Cardinality(map.objs) >= Slots - 1
Insert(obj) ==
  /\ Same(obj) = {} /\ ~NoSlot
  /\ \E victims \in IF AtMax THEN {{o} : o \in map.objs} ELSE {{}} :
       /\ map' = [map EXCEPT !.objs = (@ \ victims) \cup {obj}]
       /\ LetGo(victims)
  /\ UNCHANGED failed

\* "don't free 'obj' because hmap owns it": it does not.
Fail(obj) ==
  /\ Same(obj) = {} /\ NoSlot
  /\ failed' = failed \cup {obj}
  /\ UNCHANGED <<map, freed, twice, hands>>

Put ==
  /\ map.live /\ puts < MaxPuts
  /\ puts' = puts + 1
  /\ \E name \in Names :
       LET obj == ONew(name)
       IN  /\ made' = made \cup Allocated(obj)
           /\ RefusePut(obj) \/ Overwrite(obj) \/ Insert(obj) \/ Fail(obj)
  /\ UNCHANGED <<ownOpts, settings>>

\* Only maps that discard nothing: see HMapCache for the others.
Del ==
  /\ map.live /\ map.opts.policy = "NONE"
  /\ \E obj \in map.objs :
       /\ map' = [map EXCEPT !.objs = @ \ {obj}]
       /\ LetGo({obj})
  /\ UNCHANGED <<ownOpts, settings, puts, made, failed>>

\* u_hmap_clear gives nothing back.
HMapClear ==
  /\ map.live /\ map.objs # {} /\ Owns(map.opts)
  /\ map' = [map EXCEPT !.objs = {}]
  /\ OFreeAll(map.objs)
  /\ UNCHANGED <<ownOpts, settings, puts, made, hands, failed>>
HMapFree ==
  /\ map.live
  /\ map' = [map EXCEPT !.objs = {}, !.live = FALSE]
  /\ IF Owns(map.opts) THEN OFreeAll(map.objs) /\ hands' = hands
     ELSE hands' = hands \cup map.objs /\ UNCHANGED <<freed, twice>>
  /\ UNCHANGED <<ownOpts, settings, puts, made, failed>>

\* The caller is done with an object that is his.
OFreeUser ==
  /\ \E obj \in hands :
       /\ hands' = hands \ {obj}
       /\ Free({Struct(obj)})
  /\ UNCHANGED <<ownOpts, settings, map, puts, made, failed>>

OwnNext == Setting \/ HMapNew \/ EasyNew \/ Put \/ Del \/ HMapClear \/ HMapFree \/ OFreeUser

OwnSpec == OwnInit /\ [][OwnNext]_ownVars

-----------------------------------------------------------------------------
Kept == {obj.n : obj \in map.objs \cup hands \cup failed}

(* Whatever is put, refused, overwritten, discarded, deleted or cleared,   *)
(* an object that the map or the caller holds is alive, nothing is freed   *)
(* twice, and what u_hmap_o_new allocated is freed when the object is      *)
(* neither in the map nor given back: except in an easy map without        *)
(* U_HMAP_OPTS_OWNSDATA, and for an object whose u_hmap_put failed.  A     *)
(* pointer of the caller is freed by a map that owns it and has a function *)
(* for that, and never by another.                                         *)
FreedByOwner ==
  /\ ~twice
  /\ \A obj \in map.objs \cup hands \cup failed : Blocks(obj) \cap freed = {}
  /\ Owns(map.opts) \/ ~map.opts.easy => \A b \in made : b[2] \in Kept \/ b \in freed
  /\ LET o == map.opts
         Told(type, f) == Owns(o) /\ (o.f_free # Unset \/ (type = "POINTER" /\ f # Unset))
     IN  \A n \in 1 .. puts :
           /\ <<"val", n>> \in freed => Told(o.val_type, o.f_val_free)
           /\ Told(o.val_type, o.f_val_free) /\ n \notin Kept /\ <<"valcopy", n>> \notin made =>
                <<"val", n>> \in freed
=============================================================================
