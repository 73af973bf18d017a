------------------------------- MODULE IoLoop -------------------------------
(***************************************************************************)
(* The transfer loop of srcs/toolbox/misc.c: u_io and its callers u_read   *)
(* and u_write, over a driver that moves any part of what is asked, is     *)
(* interrupted, meets the end of the file or fails; and u_sleep.           *)
(***************************************************************************)
EXTENDS Integers, Sequences

CONSTANTS
  MaxIo,       \* bytes in a transfer, seconds in a sleep
  MaxSignals   \* signals delivered during a call

VARIABLES
  io,        \* "idle", "read", "write", "sleep", "done": the call in progress
  asked,     \* its size
  nleft,     \* bytes, or seconds, that are left
  place,     \* how far the pointer into the buffer has moved
  moved,     \* the places of the buffer that bytes came from or went to, in order
  slept,     \* seconds spent asleep
  eof,       \* *eof
  failed,    \* the driver failed
  signals,   \* signals delivered
  ioRet      \* what the caller gets
ioVars == <<io, asked, nleft, place, moved, slept, eof, failed, signals, ioRet>>

IoInit ==
  /\ io = "idle" /\ asked = 0 /\ nleft = 0 /\ place = 0 /\ moved = <<>> /\ slept = 0
  /\ eof = FALSE /\ failed = FALSE /\ signals = 0 /\ ioRet = <<"none", 0>>

IoCall(op, size) ==
  /\ io = "idle"
  /\ io' = op /\ asked' = size /\ nleft' = size
  /\ UNCHANGED <<place, moved, slept, eof, failed, signals, ioRet>>

\* u_read tells the end of the file from a failure, u_write does not.
ReadRet == IF nleft' = 0 \/ eof' THEN asked - nleft' ELSE -1
WriteRet == IF nleft' = 0 THEN asked ELSE -1
Leave ==
  /\ io' = "done"
  /\ ioRet' = <<io, IF io = "read" THEN ReadRet ELSE WriteRet>>

\* Mutant: the pointer stays where it was.
AdvanceNot(k) == place' = place
Advance(k) == place' = place + k

Transfer ==
  /\ io \in {"read", "write"} /\ nleft > 0
  /\ \E k \in 1 .. nleft :
       /\ moved' = moved \o [i \in 1 .. k |-> place + i]
       /\ nleft' = nleft - k
       /\ Advance(k)
  /\ UNCHANGED <<io, asked, slept, eof, failed, signals, ioRet>>

Interrupted ==
  /\ io \in {"read", "write"} /\ nleft > 0 /\ signals < MaxSignals
  /\ signals' = signals + 1
  /\ UNCHANGED <<io, asked, nleft, place, moved, slept, eof, failed, ioRet>>

EndOfFile ==
  /\ io \in {"read", "write"} /\ nleft > 0
  /\ eof' = TRUE
  /\ UNCHANGED <<asked, nleft, place, moved, slept, failed, signals>>
  /\ Leave

Failure ==
  /\ io \in {"read", "write"} /\ nleft > 0
  /\ failed' = TRUE
  /\ UNCHANGED <<asked, nleft, place, moved, slept, eof, signals>>
  /\ Leave

IoReturn ==
  /\ io \in {"read", "write"} /\ nleft = 0
  /\ UNCHANGED <<asked, nleft, place, moved, slept, eof, failed, signals>>
  /\ Leave

\* sleep(3) gives back the seconds that a signal cut off.
Sleep ==
  /\ io = "sleep" /\ nleft > 0
  /\ \E t \in 0 .. nleft :
       /\ t < nleft => signals < MaxSignals
       /\ signals' = IF t < nleft THEN signals + 1 ELSE signals
       /\ slept' = slept + t
       /\ nleft' = nleft - t
  /\ UNCHANGED <<io, asked, place, moved, eof, failed, ioRet>>
Awake ==
  /\ io = "sleep" /\ nleft = 0
  /\ io' = "done" /\ ioRet' = <<"sleep", 0>>
  /\ UNCHANGED <<asked, nleft, place, moved, slept, eof, failed, signals>>

IoForget ==
  /\ io = "done"
  /\ io' = "idle" /\ asked' = 0 /\ nleft' = 0 /\ place' = 0 /\ moved' = <<>> /\ slept' = 0
  /\ eof' = FALSE /\ failed' = FALSE /\ signals' = 0 /\ ioRet' = <<"none", 0>>

Resume == Transfer \/ Interrupted \/ EndOfFile \/ Failure \/ IoReturn \/ Sleep \/ Awake
IoNext ==
  \/ \E op \in {"read", "write", "sleep"}, size \in 0 .. MaxIo : IoCall(op, size)
  \/ Resume
  \/ IoForget
IoSpec == IoInit /\ [][IoNext]_ioVars
IoFair == WF_ioVars(Resume)

-----------------------------------------------------------------------------
(* Whatever cuts a transfer into pieces, the bytes move to or from         *)
(* consecutive places of the buffer, each once, and the caller is told how *)
(* many: all that was asked, less only at the end of the file, or -1 only  *)
(* when the driver failed or a write came to nothing.  u_sleep returns     *)
(* when the seconds asked for have passed.                                 *)
IoExact ==
  /\ moved = [i \in 1 .. Len(moved) |-> i]
  /\ io = "done" /\ ioRet[1] = "read" =>
       /\ ioRet[2] = -1 <=> failed
       /\ ioRet[2] # -1 => ioRet[2] = Len(moved) /\ (Len(moved) < asked <=> eof)
  /\ io = "done" /\ ioRet[1] = "write" =>
       /\ ioRet[2] = -1 <=> failed \/ eof
       /\ ioRet[2] # -1 => Len(moved) = asked
  /\ io = "done" /\ ioRet[1] = "sleep" => slept = asked

(* A call comes to an end, however often it is interrupted.                *)
IoEnds == io \in {"read", "write", "sleep"} ~> io = "done"
=============================================================================
