-------------------------------- MODULE Array --------------------------------
(***************************************************************************)
(* The dynamic array of srcs/toolbox/array.c.  The typed setters and       *)
(* getters are one macro and are modelled once; u_array_set_ptr and        *)
(* u_array_get_ptr behave alike on pointers.  A slot that realloc added    *)
(* and nobody wrote holds an unknown value.  The copy of the old value a   *)
(* setter hands out is left out.                                           *)
(***************************************************************************)
EXTENDS Integers, FiniteSets, Functions

CONSTANTS
  SizeMax,     \* SIZE_MAX
  SizeOf,      \* sizeof_type: a function from the types to their sizes
  NslotsDfl,   \* U_ARRAY_NSLOTS_DFL
  ResizePad,   \* U_ARRAY_RESIZE_PAD
  Indexes,     \* indexes the client uses
  SlotVals

\* An array of the default size fits in memory.
ArrayAssumption ==
  /\ SizeMax \in Nat /\ NslotsDfl \in Nat /\ ResizePad \in Nat /\ Indexes \subseteq Nat
  /\ "unset" \notin DOMAIN SizeOf
  /\ \A t \in DOMAIN SizeOf : SizeOf[t] \in Nat \ {0} /\ NslotsDfl * SizeOf[t] <= SizeMax

VARIABLES
  da,     \* the array: type, number of slots, contents
  put     \* history: the values set and their indexes

arrayVars == <<da, put>>

Unknown == "unknown"
ZeroSlot == "zero"
Filled(n, v) == [i \in 0..(n - 1) |-> v]
MaxNslots(t) == SizeMax \div SizeOf[t]

ArrayInit ==
  /\ da = [type |-> "unset", nslots |-> 0, base |-> Filled(0, ZeroSlot)]
  /\ put = Filled(0, ZeroSlot)

\* Also the creation after u_array_free.
ArrayCreate(t, n) ==
  /\ LET m == IF n = 0 THEN NslotsDfl ELSE IF n > MaxNslots(t) THEN MaxNslots(t) ELSE n
     IN  da' = [type |-> t, nslots |-> m, base |-> Filled(m, ZeroSlot)]
  /\ put' = Filled(0, ZeroSlot)

NewNslots(a, idx) ==
  IF MaxNslots(a.type) - ResizePad - 1 >= idx
  THEN idx + ResizePad + 1 ELSE MaxNslots(a.type)

\* The array after u_array_resize, when it can grow: realloc keeps the
\* contents and may fail.
CanGrow(a, idx) == idx < MaxNslots(a.type) - 1
ArrayResize(a, idx) ==
  LET n == NewNslots(a, idx)
  IN  IF idx < a.nslots THEN a
      ELSE [a EXCEPT !.nslots = n,
                     !.base = [i \in 0..(n - 1) |-> IF i < a.nslots THEN a.base[i] ELSE Unknown]]

Set(t, idx, v) ==
  LET a == ArrayResize(da, idx)
  IN  /\ da.type = t
      /\ idx < da.nslots \/ CanGrow(da, idx)
      /\ da' = [a EXCEPT !.base = [i \in DOMAIN @ \cup {idx} |-> IF i = idx THEN v ELSE @[i]]]
      /\ put' = [i \in DOMAIN put \cup {idx} |-> IF i = idx THEN v ELSE put[i]]

\* Wrong type, an index that cannot be reached, or realloc failing.
SetFails == da.type # "unset" /\ UNCHANGED arrayVars

\* What a getter of type t returns, "error" when it fails.
Get(t, idx) ==
  IF da.type # t \/ idx > da.nslots - 1 THEN "error"
  ELSE IF idx \in DOMAIN da.base THEN da.base[idx] ELSE Unknown

ArrayNext ==
  \/ \E t \in DOMAIN SizeOf, n \in {0, 1} \cup Indexes : ArrayCreate(t, n)
  \/ \E t \in DOMAIN SizeOf, i \in Indexes, v \in SlotVals : Set(t, i, v)
  \/ SetFails

-----------------------------------------------------------------------------
(* Through any growth, up to the largest index the type allows, no write   *)
(* falls outside the allocated block, the block never exceeds SIZE_MAX     *)
(* bytes, every value set is read back until it is overwritten, and only   *)
(* by the getter of its own type (u_array_resize, the setters, getters).   *)
ArrayHolds ==
  da.type # "unset" =>
    /\ DOMAIN da.base = 0..(da.nslots - 1)
    /\ da.nslots * SizeOf[da.type] <= SizeMax
    /\ \A t \in DOMAIN SizeOf, i \in DOMAIN put :
         Get(t, i) = IF t = da.type THEN put[i] ELSE "error"
=============================================================================
