------------------------------ MODULE RingFifo ------------------------------
(***************************************************************************)
(* What the ring buffer of srcs/toolbox/rb.c promises: a bounded FIFO of   *)
(* bytes.  A write takes as much as fits, a read gives as much as there    *)
(* is; a request larger than the whole buffer is refused.                  *)
(***************************************************************************)
EXTENDS Integers, Sequences

CONSTANTS Byte, Size,
          MaxLen  \* bound: longest request

VARIABLES queue,  \* the bytes written and not yet read, oldest first
          ret,    \* return value of the last call
          out     \* bytes handed to the reader by the last call

Min2(m, n) == IF m <= n THEN m ELSE n

Init == queue = <<>> /\ ret = 0 /\ out = <<>>

Write(b) ==
  LET n == Min2(Size - Len(queue), Len(b))
  IN /\ Len(b) <= Size
     /\ queue' = queue \o SubSeq(b, 1, n)
     /\ ret' = n
     /\ out' = <<>>

Read(want) ==
  LET n == Min2(Len(queue), want)
  IN /\ want <= Size
     /\ queue' = SubSeq(queue, n + 1, Len(queue))
     /\ ret' = n
     /\ out' = SubSeq(queue, 1, n)

(* -1, or a null pointer: nothing moves *)
Refuse == ret' \in {-1, 0} /\ out' = <<>> /\ UNCHANGED queue

Clear == queue' = <<>> /\ ret' = 0 /\ out' = <<>>

Requests == UNION {[1..n -> Byte] : n \in 0..MaxLen}

Next == \/ \E b \in Requests : Write(b)
        \/ \E want \in 0..MaxLen : Read(want)
        \/ Refuse
        \/ Clear

Spec == Init /\ [][Next]_<<queue, ret, out>>
=============================================================================
