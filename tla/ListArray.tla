------------------------------ MODULE ListArray ------------------------------
(***************************************************************************)
(* The containers that keep what they are given in a line: the linked list *)
(* and the dynamic array.  They share nothing; each step is one of either. *)
(***************************************************************************)
EXTENDS List, Array

ListArrayInit == ListInit /\ ArrayInit
ListArrayNext ==
  \/ ListNext /\ UNCHANGED arrayVars
  \/ ArrayNext /\ UNCHANGED listVars
ListArraySpec == ListArrayInit /\ [][ListArrayNext]_<<listVars, arrayVars>>

(* The links of a list spell its sequence, and a traversal survives the    *)
(* deletions of its body (List); what is set in an array is read back,     *)
(* within the allocated block (Array).                                     *)
ListSound == ListIsSequence /\ TraversalSafe /\ ArrayHolds
=============================================================================
