------------------------------ MODULE HMapDict ------------------------------
(***************************************************************************)
(* What a hash map of srcs/toolbox/hmap.c without a discard policy         *)
(* promises: a dictionary, whose put either overwrites or refuses.         *)
(***************************************************************************)
CONSTANTS Keys, Vals, None

VARIABLES no_overwrite,  \* U_HMAP_OPTS_NO_OVERWRITE is set
          dict,          \* the value stored under each key, or None
          ret            \* return code and value of the last call

Init ==
  /\ no_overwrite \in BOOLEAN
  /\ dict = [k \in Keys |-> None]
  /\ ret = <<"ERR_NONE", None>>

Put(k, v) ==
  IF dict[k] # None /\ no_overwrite
  THEN ret' = <<"ERR_EXISTS", None>> /\ UNCHANGED dict
  ELSE ret' = <<"ERR_NONE", None>> /\ dict' = [dict EXCEPT ![k] = v]

(* A map that cannot grow refuses a put and keeps what it has.             *)
PutFails == ret' = <<"ERR_FAIL", None>> /\ UNCHANGED dict

Get(k) ==
  /\ ret' = IF dict[k] = None THEN <<"ERR_FAIL", None>> ELSE <<"ERR_NONE", dict[k]>>
  /\ UNCHANGED dict

Del(k) ==
  /\ ret' = IF dict[k] = None THEN <<"ERR_FAIL", None>> ELSE <<"ERR_NONE", None>>
  /\ dict' = [dict EXCEPT ![k] = None]

Clear == dict' = [k \in Keys |-> None] /\ ret' = <<"ERR_NONE", None>>

Next == /\ \/ \E k \in Keys : Get(k) \/ Del(k) \/ \E v \in Vals : Put(k, v)
           \/ PutFails \/ Clear
        /\ UNCHANGED no_overwrite

dictVars == <<no_overwrite, dict, ret>>
Spec == Init /\ [][Next]_dictVars
=============================================================================
