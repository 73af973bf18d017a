---------------------------------- MODULE Fs ----------------------------------
(***************************************************************************)
(* The file juggling of srcs/toolbox/fs.c (built with HAVE_LINK): u_copy,  *)
(* u_move and u_remove, one system call a step, over two names that lead   *)
(* to files on one device or on two.  A file is a sequence of chunks, what *)
(* fread returns at a time.                                                *)
(***************************************************************************)
EXTENDS Integers, Sequences

CONSTANTS
  Chunks,       \* what fread returns at a time
  FileContents, \* what the source may hold
  Old,          \* the chunk that was in the destination
  Torn,         \* a chunk of which only a part was written
  None          \* no file under this name

FsAssumption ==
  /\ FileContents \subseteq Seq(Chunks) /\ {Old, Torn} \cap Chunks = {}
  /\ None \notin {"i", "j"}

VARIABLES
  dir,       \* "src" and "dst": the inodes they lead to, or None
  data,      \* contents of the inodes "i" and "j"
  twoDevs,   \* the names are on different devices
  fsCall,    \* [op, pc, rc]: the call in progress
  offset,    \* chunks that u_copy has read
  pending,   \* chunks in the buffer of dfp
  original,  \* history: contents of the source when the call began
  aliased,   \* history: the two names led to one file then
  silent     \* history: fread failed, or fwrite wrote a part of a chunk, and
             \* u_copy did not see it
fsVars == <<dir, data, twoDevs, fsCall, offset, pending, original, aliased, silent>>

Absent == <<None>>

FsInit ==
  /\ twoDevs \in BOOLEAN
  /\ dir \in [src : {"i", None}, dst : {"i", "j", None}]
  /\ dir.dst = "i" => dir.src = "i" /\ ~twoDevs
  /\ data \in [i : FileContents, j : {<<Old>>}]
  /\ fsCall = [op |-> "none", pc |-> "idle", rc |-> 0]
  /\ offset = 0 /\ pending = <<>> /\ original = <<>> /\ aliased = FALSE /\ silent = FALSE

Goto(pc) == fsCall' = [fsCall EXCEPT !.pc = pc]
Done(rc) == fsCall' = [fsCall EXCEPT !.pc = "done", !.rc = rc]
At(pc) == fsCall.pc = pc

FsCall(op) ==
  /\ At("idle")
  /\ fsCall' = [op |-> op, rc |-> 0, pc |-> CASE op = "move" -> "link" [] op = "copy" -> "open" [] op = "remove" -> "unlink"]
  /\ original' = IF dir.src = None THEN Absent ELSE data[dir.src]
  /\ aliased' = (dir.src = dir.dst) /\ silent' = FALSE
  /\ UNCHANGED <<dir, data, twoDevs, offset, pending>>

\* link: EXDEV asks for a copy, every other error ends the call.
Link ==
  /\ At("link")
  /\ \/ /\ dir.src # None /\ dir.dst = None /\ ~twoDevs
        /\ dir' = [dir EXCEPT !.dst = dir.src]
        /\ Goto("unlink")
     \/ dir.src # None /\ twoDevs /\ dir' = dir /\ Goto("open")
     \/ dir' = dir /\ Done(-1)
  /\ UNCHANGED <<data, twoDevs, offset, pending, original, aliased, silent>>

OpenSrc ==
  /\ At("open")
  /\ \/ dir.src # None /\ Goto("open_dst")
     \/ Done(-1)
  /\ UNCHANGED <<dir, data, twoDevs, offset, pending, original, aliased, silent>>

\* "wb+" truncates the file, the source too if it is the same.
OpenDst ==
  /\ At("open_dst")
  /\ \/ /\ dir' = [dir EXCEPT !.dst = IF @ = None THEN "j" ELSE @]
        /\ data' = [data EXCEPT ![dir'.dst] = <<>>]
        /\ Goto("loop")
     \/ UNCHANGED <<dir, data>> /\ Done(-1)
  /\ UNCHANGED <<twoDevs, offset, pending, original, aliased, silent>>

\* fwrite is believed when it writes less than it was given, unless it is
\* nothing at all.
Eof == offset >= Len(data[dir.src])
Read ==
  /\ At("loop") /\ ~Eof
  /\ \/ \E chunk \in {data[dir.src][offset + 1], Torn} :
          /\ offset' = offset + 1 /\ pending' = Append(pending, chunk)
          /\ silent' = (silent \/ chunk = Torn)
          /\ UNCHANGED fsCall
     \/ Done(-1) /\ UNCHANGED <<offset, pending, silent>>
  /\ UNCHANGED <<dir, data, twoDevs, original, aliased>>

\* A failure of fread (a bad block, a directory under that name) looks like
\* the end of the file: ferror is not asked.
EndOfSource ==
  /\ At("loop")
  /\ silent' = (silent \/ ~Eof)
  /\ Goto("close")
  /\ UNCHANGED <<dir, data, twoDevs, offset, pending, original, aliased>>

\* The buffer of the stream reaches the file whenever the library likes; what
\* a failed copy still writes is of no interest.
Flush ==
  /\ At("loop") /\ pending # <<>>
  /\ data' = [data EXCEPT ![dir.dst] = Append(@, Head(pending))]
  /\ pending' = Tail(pending)
  /\ UNCHANGED <<dir, twoDevs, fsCall, offset, original, aliased, silent>>

AfterCopy == IF fsCall.op = "move" THEN Goto("unlink") ELSE Done(0)

\* Mutant: nobody looks at what the last fclose says.
CloseDstBlindly ==
  /\ \E n \in 0 .. Len(pending) :
       data' = [data EXCEPT ![dir.dst] = @ \o SubSeq(pending, 1, n)]
  /\ AfterCopy

CloseDst ==
  \/ data' = [data EXCEPT ![dir.dst] = @ \o pending] /\ AfterCopy
  \/ /\ \E n \in 0 .. Len(pending) :
          data' = [data EXCEPT ![dir.dst] = @ \o SubSeq(pending, 1, n)]
     /\ Done(-1)
CloseFiles ==
  /\ At("close")
  /\ \/ CloseDst
     \/ UNCHANGED data /\ Done(-1)
  /\ pending' = <<>>
  /\ UNCHANGED <<dir, twoDevs, offset, original, aliased, silent>>

\* u_move only logs that its source could not be removed.
Unlink ==
  /\ At("unlink")
  /\ \/ dir.src # None /\ dir' = [dir EXCEPT !.src = None] /\ Done(0)
     \/ dir' = dir /\ Done(IF fsCall.op = "move" THEN 0 ELSE -1)
  /\ UNCHANGED <<data, twoDevs, offset, pending, original, aliased, silent>>

FsForget ==
  /\ At("done")
  /\ fsCall' = [op |-> "none", pc |-> "idle", rc |-> 0]
  /\ offset' = 0 /\ pending' = <<>> /\ original' = <<>> /\ aliased' = FALSE /\ silent' = FALSE
  /\ UNCHANGED <<dir, data, twoDevs>>

FsNext ==
  \/ \E op \in {"copy", "move", "remove"} : FsCall(op)
  \/ Link \/ OpenSrc \/ OpenDst \/ Read \/ EndOfSource \/ Flush \/ CloseFiles \/ Unlink \/ FsForget

FsSpec == FsInit /\ [][FsNext]_fsVars

-----------------------------------------------------------------------------
Leads(name) == dir[name] # None /\ data[dir[name]] = original

(* At every moment the contents of a file that is moved are whole under    *)
(* its own name, until the move returns 0 and they are whole under the new *)
(* one, so that nothing is lost when the process is killed in between, or  *)
(* when a call fails that u_move sees failing.  What it does not see       *)
(* (fs.c:50-52) costs data only on the way to another device.  A copy      *)
(* leaves its source alone, and what it made is whole if it returns 0 and  *)
(* saw everything: except for a file that is copied to itself.             *)
MoveKeepsData ==
  /\ fsCall.op = "move" /\ original # Absent =>
       \/ Leads("src")
       \/ At("done") /\ fsCall.rc = 0 /\ (Leads("dst") \/ (silent /\ twoDevs))
  /\ fsCall.op = "move" /\ At("done") /\ fsCall.rc = 0 => Leads("dst") \/ (silent /\ twoDevs)
  /\ fsCall.op = "copy" /\ ~aliased =>
       /\ original # Absent => Leads("src")
       /\ At("done") /\ fsCall.rc = 0 /\ ~silent => Leads("dst")

(* "Copy the file whose path name is src to dst ... 0 on success, ~0 on    *)
(* failure" (fs.c:29-33): what a copy left is the file when it returned 0. *)
ZeroIsWhole ==
  fsCall.op = "copy" /\ ~aliased /\ At("done") /\ fsCall.rc = 0 => Leads("dst")
=============================================================================
