------------------------------- MODULE MCHMap -------------------------------
(* Small instances of the hash map.  The primes are scaled down from 13,   *)
(* 19, 29, ...; keys 4, 9 and 14 collide in the last list of the first.    *)
EXTENDS HMapTable

SmallPrimes == <<5, 7, 17>>
HashMod(k, n) == k % n

(* A linearly probed map from which the client deletes.                    *)
ProbeAndDelete ==
  {[chain |-> FALSE, no_overwrite |-> TRUE, ops |-> {"put", "del"}]}
=============================================================================
