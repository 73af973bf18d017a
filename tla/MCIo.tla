-------------------------------- MODULE MCIo --------------------------------
(***************************************************************************)
(* Small instances of the parts that meet the operating system or the C    *)
(* library, side by side: KernelInit picks the one that moves, the others  *)
(* stay in one initial state.  They share nothing, so a behaviour of this  *)
(* module is a behaviour of one of them.                                   *)
(***************************************************************************)
EXTENDS Net, IoLoop, Pwd, Fs, Buf

VARIABLE which  \* the part that moves

\* A file in which comments come first or last, users are listed twice, with
\* two passwords or with one that is missing, and an empty one.
Line(u, p) == [user |-> u, pass |-> p]
PwdFiles == {<<Line("u", "p"), Comment>>, <<Comment, Line("u", "q"), Line("v", "p")>>,
             <<Line("u", NoPass), Line("u", "p")>>,
             <<Line("u", "p"), Line("u", "q")>>, <<>>}
Guesses == {Line("u", "p"), Line("u", "q"), Line("v", "p")}

\* Sources of up to two chunks.
TwoChunks == {<<>>} \cup {<<a>> : a \in Chunks} \cup {<<a, b>> : a, b \in Chunks}

ASSUME IoAssumption == FsAssumption /\ PwdAssumption /\ BufAssumption

-----------------------------------------------------------------------------
KernelInit ==
  /\ which \in {"net", "io", "pwd", "buf", "str", "fs"}
  /\ NetInit
  /\ IoInit
  /\ PwdInit /\ (which # "pwd" => pwFile.lines = <<>> /\ ~pwd.in_memory)
  /\ BufInit
  /\ FsInit /\ (which # "fs" => ~twoDevs /\ dir.src = None /\ dir.dst = None /\ data.i = <<>>)

Others ==
  /\ which # "net" => UNCHANGED netVars
  /\ which # "io" => UNCHANGED ioVars
  /\ which # "pwd" => UNCHANGED pwdVars
  /\ which \notin {"buf", "str"} => UNCHANGED bufVars
  /\ which # "fs" => UNCHANGED fsVars

KernelNext ==
  /\ \/ which = "net" /\ NetNext
     \/ which = "io" /\ IoNext
     \/ which = "pwd" /\ PwdNext
     \/ which = "buf" /\ BufNext
     \/ which = "str" /\ StrNext
     \/ which = "fs" /\ FsNext
  /\ UNCHANGED which
  /\ Others

KernelVars == <<which, netVars, ioVars, pwdVars, bufVars, fsVars>>
KernelSpec ==
  /\ KernelInit /\ [][KernelNext]_KernelVars
  /\ NetFair /\ IoFair /\ BufFair

\* The password database alone.
PwdAlone == (KernelInit /\ which = "pwd") /\ [][KernelNext]_KernelVars

-----------------------------------------------------------------------------
(* The properties of Net, IoLoop, Pwd, Fs and Buf are stated there.         *)

(* The calls that go round in a loop come to an end: a timed connect or    *)
(* accept, u_buf_printf of an output that its growth can make room for,    *)
(* and u_net_tryread and u_net_write (Net, Buf, IoLoop).                   *)
CallsEnd == TimedCallEnds /\ PrintfEnds /\ IoEnds

(* "on error keep on working with the old in-memory db" (pwd.c:588).       *)
PwdKeepsOldDb == which = "pwd" => KeepsOldDb
=============================================================================
