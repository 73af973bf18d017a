---------------------------- MODULE KernelProofs ----------------------------
(***************************************************************************)
(* Proofs about the calls that meet the operating system: IoLoop, for      *)
(* transfers and sleeps of any length and any number of signals; Fs, for   *)
(* files of any contents; Pwd, for any password files and any number of    *)
(* replacements and failures; Net, for any number of addresses, sockets    *)
(* and signals and any timeout: descriptors first, then the time spent in  *)
(* select; and Buf, in which printed and loaded text ends up, for blocks   *)
(* of any size.                                                            *)
(***************************************************************************)
EXTENDS IoLoop, Fs, Pwd, Net, Buf, SeqLemmas, SequenceTheorems

Active == {"read", "write", "sleep"}

\* What u_io, u_read, u_write and u_sleep keep between two calls of the driver.
IoTypes ==
  /\ io \in {"idle", "done"} \cup Active
  /\ asked \in Nat /\ nleft \in Nat /\ place \in Nat /\ slept \in Nat
  /\ eof \in BOOLEAN /\ failed \in BOOLEAN

\* The bytes moved and those left make up the request, and nothing has gone
\* wrong as long as the loop runs.
Underway ==
  /\ io = "idle" => place = 0 /\ slept = 0
  /\ io \in {"idle"} \cup Active => ~eof /\ ~failed
  /\ io \in {"read", "write"} => place + nleft = asked
  /\ io = "sleep" => slept + nleft = asked

\* IoExact's verdicts, in terms of the pointer.
Told ==
  io = "done" =>
    /\ ioRet[1] = "read" =>
         /\ ioRet[2] = -1 <=> failed
         /\ ioRet[2] # -1 => ioRet[2] = place /\ (place < asked <=> eof)
    /\ ioRet[1] = "write" =>
         /\ ioRet[2] = -1 <=> failed \/ eof
         /\ ioRet[2] # -1 => place = asked
    /\ ioRet[1] = "sleep" => slept = asked

InPlace == moved = [i \in 1 .. place |-> i]

IoInv == IoTypes /\ Underway /\ Told /\ InPlace

(* A run of consecutive places goes on with the next ones (the pointer of  *)
(* u_io after p += nret).                                                  *)
LEMMA RunGoesOn ==
  ASSUME NEW a \in Nat, NEW k \in Nat
  PROVE  [i \in 1 .. a |-> i] \o [i \in 1 .. k |-> a + i] = [i \in 1 .. a + k |-> i]
<1> DEFINE s == [i \in 1 .. a |-> i]
           t == [i \in 1 .. k |-> a + i]
<1>1. s \in Seq(Nat) /\ Len(s) = a /\ t \in Seq(Nat) /\ Len(t) = k
  OBVIOUS
<1>2. Len(s \o t) = a + k /\ s \o t \in Seq(Nat)
  BY <1>1
<1>3. ASSUME NEW i \in 1 .. a + k PROVE (s \o t)[i] = i
  <2>1. CASE i <= a
    BY <1>1, <2>1
  <2>2. CASE i > a
    BY <1>1, <2>2
  <2> QED BY <2>1, <2>2
<1> QED BY <1>2, <1>3

(* Leaving the loop tells the caller what was moved: of all the ways out   *)
(* of u_io, through u_read or u_write.                                     *)
LEMMA LeaveTells ==
  ASSUME IoInv, io \in {"read", "write"}, Leave,
         UNCHANGED <<asked, nleft, place, moved, slept>>,
         eof' \in BOOLEAN, failed' \in BOOLEAN,
         nleft = 0 <=> ~eof' /\ ~failed', ~(eof' /\ failed')
  PROVE  IoInv'
<1>1. IoTypes' /\ Underway' /\ InPlace'
  BY DEF IoInv, IoTypes, Underway, InPlace, Leave, Active
<1>2. io' = "done" /\ ioRet'[1] = io /\ ioRet'[2] = (IF io = "read" THEN ReadRet ELSE WriteRet)
  BY DEF Leave
<1>3. asked' = asked /\ nleft' = nleft /\ place' = place /\ place + nleft = asked
      /\ asked \in Nat /\ nleft \in Nat /\ place \in Nat
  BY DEF IoInv, IoTypes, Underway
<1>4. Told'
  <2>1. CASE io = "read"
    BY <1>2, <1>3, <2>1 DEF Told, ReadRet
  <2>2. CASE io = "write"
    BY <1>2, <1>3, <2>2 DEF Told, WriteRet
  <2> QED BY <2>1, <2>2
<1> QED BY <1>1, <1>4 DEF IoInv

(* One step per action.                                                    *)
LEMMA InvKept ==
  ASSUME MaxIo \in Nat, IoInv, [IoNext]_ioVars
  PROVE  IoInv'
<1>1. ASSUME NEW op \in Active, NEW size \in 0 .. MaxIo, IoCall(op, size) PROVE IoInv'
  BY <1>1 DEF IoCall, IoInv, IoTypes, Underway, Told, InPlace, Active
<1>2. CASE Transfer
  <2>1. PICK k \in 1 .. nleft :
          /\ moved' = moved \o [i \in 1 .. k |-> place + i]
          /\ nleft' = nleft - k
          /\ place' = place + k
    BY <1>2 DEF Transfer, Advance
  <2>2. k \in Nat /\ nleft' \in Nat /\ place' \in Nat /\ place' + nleft' = place + nleft
    BY <2>1 DEF IoInv, IoTypes
  <2>3. InPlace'
    BY <2>1, <2>2, RunGoesOn DEF IoInv, IoTypes, InPlace
  <2>4. IoTypes' /\ Underway' /\ Told'
    BY <1>2, <2>1, <2>2 DEF Transfer, IoInv, IoTypes, Underway, Told, Active
  <2> QED BY <2>3, <2>4 DEF IoInv
<1>3. CASE Interrupted
  BY <1>3 DEF Interrupted, IoInv, IoTypes, Underway, Told, InPlace, Active
<1>4. CASE EndOfFile
  <2>1. ~failed' /\ eof' /\ nleft # 0
    BY <1>4 DEF EndOfFile, IoInv, IoTypes, Underway, Active
  <2> QED BY <1>4, <2>1, LeaveTells DEF EndOfFile, IoInv, IoTypes
<1>5. CASE Failure
  <2>1. failed' /\ ~eof' /\ nleft # 0
    BY <1>5 DEF Failure, IoInv, IoTypes, Underway, Active
  <2> QED BY <1>5, <2>1, LeaveTells DEF Failure, IoInv, IoTypes
<1>6. CASE IoReturn
  <2>1. ~failed' /\ ~eof' /\ nleft = 0
    BY <1>6 DEF IoReturn, IoInv, IoTypes, Underway, Active
  <2> QED BY <1>6, <2>1, LeaveTells DEF IoReturn, IoInv, IoTypes
<1>7. CASE Sleep
  <2>1. PICK t \in 0 .. nleft : slept' = slept + t /\ nleft' = nleft - t
    BY <1>7 DEF Sleep
  <2> QED BY <1>7, <2>1 DEF Sleep, IoInv, IoTypes, Underway, Told, InPlace, Active
<1>8. CASE Awake
  BY <1>8 DEF Awake, IoInv, IoTypes, Underway, Told, InPlace, Active
<1>9. CASE IoForget
  <2>1. InPlace'
    BY <1>9 DEF IoForget, InPlace
  <2> QED BY <1>9, <2>1 DEF IoForget, IoInv, IoTypes, Underway, Told, Active
<1>10. CASE UNCHANGED ioVars
  BY <1>10 DEF ioVars, IoInv, IoTypes, Underway, Told, InPlace, Active
<1> QED
  BY <1>1, <1>2, <1>3, <1>4, <1>5, <1>6, <1>7, <1>8, <1>9, <1>10 DEF IoNext, Resume, Active

(* Whatever cuts a transfer of u_read or u_write into pieces, every byte   *)
(* goes to or comes from its own place and the caller is told how many;    *)
(* u_sleep lasts as long as it should.                                     *)
THEOREM TransfersExact ==
  ASSUME MaxIo \in Nat
  PROVE  IoSpec => []IoExact
<1>1. IoInit => IoInv
  <2>1. IoInit => InPlace
    BY DEF IoInit, InPlace
  <2>2. IoInit => IoTypes
    <3>1. IoInit => io \in {"idle", "done"} \cup Active /\ eof \in BOOLEAN /\ failed \in BOOLEAN
      BY Zenon DEF IoInit
    <3>2. 0 \in Nat
      OBVIOUS
    <3>3. IoInit => asked = 0 /\ nleft = 0 /\ place = 0 /\ slept = 0
      BY Zenon DEF IoInit
    <3> QED BY <3>1, <3>2, <3>3 DEF IoTypes
  <2>3. IoInit => Underway /\ Told
    BY DEF IoInit, Underway, Told, Active
  <2> QED BY <2>1, <2>2, <2>3 DEF IoInv
<1>2. IoInv /\ [IoNext]_ioVars => IoInv'
  BY InvKept
<1>3. IoInv => IoExact
  <2>1. IoInv => Len(moved) = place /\ moved = [i \in 1 .. Len(moved) |-> i]
    BY DEF IoInv, IoTypes, InPlace
  <2> QED BY <2>1 DEF IoInv, Told, IoExact
<1> QED BY <1>1, <1>2, <1>3, PTL DEF IoSpec

-----------------------------------------------------------------------------
(* u_move and u_copy.                                                      *)
FsLabels == {"idle", "link", "open", "open_dst", "loop", "close", "unlink", "done"}
Bytes == Chunks \cup {Old, Torn}

\* The two names lead to the two inodes, of which the second is of the device
\* of the destination.
FsTypes ==
  /\ dir \in [{"src", "dst"} -> {"i", "j", None}] /\ dir["src"] # "j"
  /\ data \in [{"i", "j"} -> Seq(Bytes)]
  /\ twoDevs \in BOOLEAN /\ aliased \in BOOLEAN /\ silent \in BOOLEAN
  /\ dir["dst"] = "i" => ~twoDevs
  /\ fsCall \in [op : {"none", "copy", "move", "remove"}, pc : FsLabels, rc : {0, -1}]
  /\ offset \in Nat /\ pending \in Seq(Bytes)
  /\ ~At("done") => (fsCall.op = "none" <=> At("idle"))
  /\ fsCall.op = "remove" => fsCall.pc \in {"unlink", "done"}
  /\ At("unlink") => fsCall.op # "copy"

\* While a call runs, the source is what it was: u_move goes on copying only
\* from one device to the other.
SourceKept ==
  /\ fsCall.pc \in {"idle", "link", "open", "open_dst"} => offset = 0 /\ pending = <<>> /\ ~silent
  /\ At("link") => fsCall.op = "move"
  /\ fsCall.pc \in {"link", "open"} =>
       /\ original = IF dir["src"] = None THEN Absent ELSE data[dir["src"]]
       /\ aliased = (dir["src"] = dir["dst"])
  /\ fsCall.pc \in {"open_dst", "loop", "close"} =>
       /\ dir["src"] # None /\ original \in Seq(Bytes)
       /\ ~aliased => dir["src"] # dir["dst"] /\ data[dir["src"]] = original
  /\ fsCall.pc \in {"open", "open_dst", "loop", "close"} /\ fsCall.op = "move" =>
       dir["src"] # None /\ ~aliased /\ twoDevs

\* What u_copy has read is in the destination, or on its way there.
Copied ==
  /\ fsCall.pc \in {"loop", "close"} =>
       /\ dir["dst"] # None
       /\ ~aliased =>
            /\ offset <= Len(original)
            /\ ~silent => data[dir["dst"]] \o pending = SubSeq(original, 1, offset)
  /\ At("close") /\ ~aliased /\ ~silent => offset = Len(original)

\* When u_move comes to remove the source, and when a call is over.
Moved ==
  /\ fsCall.op = "move" /\ silent => twoDevs
  /\ At("unlink") /\ fsCall.op = "move" =>
       Leads("src") /\ (~silent => Leads("dst"))
  /\ At("done") /\ fsCall.op = "move" =>
       IF fsCall.rc = 0 THEN ~silent => Leads("dst") ELSE original # Absent => Leads("src")
  /\ At("done") /\ fsCall.op = "copy" /\ ~aliased =>
       /\ original # Absent => Leads("src")
       /\ fsCall.rc = 0 /\ ~silent => Leads("dst")

FsInv == FsTypes /\ SourceKept /\ Copied /\ Moved

(* It holds before any call.                                               *)
LEMMA FsInvInit ==
  ASSUME FsAssumption, FsInit
  PROVE  FsInv
<1>1. dir \in [{"src", "dst"} -> {"i", "j", None}] /\ dir["src"] # "j"
  BY DEF FsInit, FsAssumption
<1>2. data \in [{"i", "j"} -> Seq(Bytes)]
  <2>1. data["i"] \in Seq(Chunks) /\ data["j"] = <<Old>> /\ DOMAIN data = {"i", "j"}
        /\ data = [x \in {"i", "j"} |-> data[x]]
    BY DEF FsInit, FsAssumption
  <2>2. <<Old>> \in Seq(Bytes) /\ Seq(Chunks) \subseteq Seq(Bytes)
    BY DEF Bytes
  <2>3. QED
    BY <2>1, <2>2
<1>3. /\ fsCall = [op |-> "none", pc |-> "idle", rc |-> 0]
      /\ offset = 0 /\ pending = <<>> /\ aliased = FALSE /\ silent = FALSE /\ twoDevs \in BOOLEAN
      /\ dir["dst"] = "i" => ~twoDevs
  BY DEF FsInit
<1>4. FsTypes
  <2>1. fsCall \in [op : {"none", "copy", "move", "remove"}, pc : FsLabels, rc : {0, -1}]
    BY <1>3 DEF FsLabels
  <2>2. offset \in Nat /\ pending \in Seq(Bytes) /\ fsCall.op = "none" /\ fsCall.pc = "idle"
    BY <1>3
  <2>3. twoDevs \in BOOLEAN /\ aliased \in BOOLEAN /\ silent \in BOOLEAN
    BY <1>3, Zenon
  <2>4. QED
    BY <1>1, <1>2, <1>3, <2>1, <2>2, <2>3 DEF FsTypes, At
<1>5. SourceKept /\ Copied /\ Moved
  BY <1>3 DEF SourceKept, Copied, Moved, At
<1>6. QED
  BY <1>4, <1>5 DEF FsInv

(* The invariant is kept by a call of u_move, u_copy or u_remove.          *)
LEMMA FsCallKeeps ==
  ASSUME FsAssumption, FsInv, NEW op \in {"copy", "move", "remove"}, FsCall(op)
  PROVE  FsInv'
<1>1. /\ At("idle") /\ fsCall' = [op |-> op, rc |-> 0,
            pc |-> CASE op = "move" -> "link" [] op = "copy" -> "open" [] op = "remove" -> "unlink"]
      /\ original' = IF dir["src"] = None THEN Absent ELSE data[dir["src"]]
      /\ aliased' = (dir["src"] = dir["dst"]) /\ silent' = FALSE
      /\ UNCHANGED <<dir, data, twoDevs, offset, pending>>
  BY DEF FsCall
<1>2. offset = 0 /\ pending = <<>>
  BY <1>1 DEF FsInv, SourceKept, At
<1>3. FsTypes'
  BY <1>1 DEF FsInv, FsTypes, FsLabels, At
<1>4. SourceKept' /\ Copied' /\ Moved'
  BY <1>1, <1>2 DEF SourceKept, Copied, Moved, At
<1>5. QED
  BY <1>3, <1>4 DEF FsInv

(* The call is a record; a step changes where it is, or ends it.           *)
LEMMA FsSteps ==
  ASSUME FsTypes
  PROVE  /\ \A l : Goto(l) => fsCall'.op = fsCall.op /\ fsCall'.pc = l /\ fsCall'.rc = fsCall.rc
         /\ \A rc : Done(rc) => fsCall'.op = fsCall.op /\ fsCall'.pc = "done" /\ fsCall'.rc = rc
         /\ \A l \in FsLabels : Goto(l) =>
              fsCall' \in [op : {"none", "copy", "move", "remove"}, pc : FsLabels, rc : {0, -1}]
         /\ \A rc \in {0, -1} : Done(rc) =>
              fsCall' \in [op : {"none", "copy", "move", "remove"}, pc : FsLabels, rc : {0, -1}]
BY DEF FsTypes, Goto, Done, FsLabels

(* The invariant is kept by link.                                          *)
LEMMA LinkKeeps ==
  ASSUME FsAssumption, FsInv, Link
  PROVE  FsInv'
<1>1. /\ fsCall.pc = "link" /\ fsCall.op = "move" /\ offset = 0 /\ pending = <<>> /\ ~silent
      /\ original = IF dir["src"] = None THEN Absent ELSE data[dir["src"]]
      /\ aliased = (dir["src"] = dir["dst"])
      /\ UNCHANGED <<data, twoDevs, offset, pending, original, aliased, silent>>
  BY DEF Link, FsInv, SourceKept, At
<1>2. CASE /\ dir["src"] # None /\ dir["dst"] = None /\ ~twoDevs
           /\ dir' = [dir EXCEPT !["dst"] = dir["src"]] /\ Goto("unlink")
  <2>1. dir'["src"] = dir["src"] /\ dir'["dst"] = dir["src"]
        /\ dir' \in [{"src", "dst"} -> {"i", "j", None}]
    BY <1>2 DEF FsInv, FsTypes
  <2>2. /\ fsCall'.op = "move" /\ fsCall'.pc = "unlink"
        /\ fsCall' \in [op : {"none", "copy", "move", "remove"}, pc : FsLabels, rc : {0, -1}]
    BY <1>1, <1>2, FsSteps DEF FsInv, FsLabels
  <2>3. FsTypes'
    BY <1>1, <1>2, <2>1, <2>2 DEF FsInv, FsTypes, At
  <2>4. SourceKept' /\ Copied' /\ Moved'
    BY <1>1, <1>2, <2>1, <2>2 DEF SourceKept, Copied, Moved, Leads, At
  <2>5. QED
    BY <2>3, <2>4 DEF FsInv
<1>3. CASE dir["src"] # None /\ twoDevs /\ dir' = dir /\ Goto("open")
  <2>1. /\ fsCall'.op = "move" /\ fsCall'.pc = "open"
        /\ fsCall' \in [op : {"none", "copy", "move", "remove"}, pc : FsLabels, rc : {0, -1}]
    BY <1>1, <1>3, FsSteps DEF FsInv, FsLabels
  <2>2. FsTypes'
    BY <1>1, <1>3, <2>1 DEF FsInv, FsTypes, At
  <2>3. ~aliased
    BY <1>1, <1>3 DEF FsInv, FsTypes
  <2>4. SourceKept' /\ Copied' /\ Moved'
    BY <1>1, <1>3, <2>1, <2>3 DEF SourceKept, Copied, Moved, At
  <2>5. QED
    BY <2>2, <2>4 DEF FsInv
<1>4. CASE dir' = dir /\ Done(-1)
  <2>1. /\ fsCall'.op = "move" /\ fsCall'.pc = "done" /\ fsCall'.rc = -1
        /\ fsCall' \in [op : {"none", "copy", "move", "remove"}, pc : FsLabels, rc : {0, -1}]
    BY <1>1, <1>4, FsSteps DEF FsInv
  <2>2. FsTypes'
    BY <1>1, <1>4, <2>1 DEF FsInv, FsTypes, At
  <2>3. SourceKept' /\ Copied' /\ Moved'
    BY <1>1, <1>4, <2>1 DEF SourceKept, Copied, Moved, Leads, At
  <2>4. QED
    BY <2>2, <2>3 DEF FsInv
<1>5. QED
  BY <1>2, <1>3, <1>4 DEF Link

(* The invariant is kept by the first fopen.                               *)
LEMMA OpenSrcKeeps ==
  ASSUME FsAssumption, FsInv, OpenSrc
  PROVE  FsInv'
<1>1. /\ fsCall.pc = "open" /\ offset = 0 /\ pending = <<>> /\ ~silent
      /\ original = IF dir["src"] = None THEN Absent ELSE data[dir["src"]]
      /\ aliased = (dir["src"] = dir["dst"])
      /\ fsCall.op = "move" => dir["src"] # None /\ ~aliased /\ twoDevs
      /\ UNCHANGED <<dir, data, twoDevs, offset, pending, original, aliased, silent>>
  BY DEF OpenSrc, FsInv, SourceKept, At
<1>2. CASE dir["src"] # None /\ Goto("open_dst")
  <2>1. /\ fsCall'.op = fsCall.op /\ fsCall'.pc = "open_dst"
        /\ fsCall' \in [op : {"none", "copy", "move", "remove"}, pc : FsLabels, rc : {0, -1}]
    BY <1>1, <1>2, FsSteps DEF FsInv, FsLabels
  <2>2. FsTypes'
    BY <1>1, <1>2, <2>1 DEF FsInv, FsTypes, At
  <2>3. original \in Seq(Bytes)
    BY <1>1, <1>2 DEF FsInv, FsTypes
  <2>4. SourceKept' /\ Copied' /\ Moved'
    BY <1>1, <1>2, <2>1, <2>3 DEF SourceKept, Copied, Moved, At
  <2>5. QED
    BY <2>2, <2>4 DEF FsInv
<1>3. CASE Done(-1)
  <2>1. /\ fsCall'.op = fsCall.op /\ fsCall'.pc = "done" /\ fsCall'.rc = -1
        /\ fsCall' \in [op : {"none", "copy", "move", "remove"}, pc : FsLabels, rc : {0, -1}]
    BY <1>1, <1>3, FsSteps DEF FsInv
  <2>2. FsTypes'
    BY <1>1, <1>3, <2>1 DEF FsInv, FsTypes, At
  <2>3. SourceKept' /\ Copied' /\ Moved'
    BY <1>1, <1>3, <2>1 DEF SourceKept, Copied, Moved, Leads, At
  <2>4. QED
    BY <2>2, <2>3 DEF FsInv
<1>4. QED
  BY <1>2, <1>3 DEF OpenSrc

(* The invariant is kept by the second fopen, which truncates.             *)
LEMMA OpenDstKeeps ==
  ASSUME FsAssumption, FsInv, OpenDst
  PROVE  FsInv'
<1>1. /\ fsCall.pc = "open_dst" /\ offset = 0 /\ pending = <<>> /\ ~silent
      /\ dir["src"] = "i" /\ original \in Seq(Bytes)
      /\ ~aliased => dir["src"] # dir["dst"] /\ data[dir["src"]] = original
      /\ fsCall.op = "move" => ~aliased /\ twoDevs
      /\ UNCHANGED <<twoDevs, offset, pending, original, aliased, silent>>
  BY DEF OpenDst, FsInv, FsTypes, SourceKept, At
<1>2. CASE /\ dir' = [dir EXCEPT !["dst"] = IF dir["dst"] = None THEN "j" ELSE dir["dst"]]
           /\ data' = [data EXCEPT ![dir'["dst"]] = <<>>]
           /\ Goto("loop")
  <2>1. PICK d \in {"i", "j"} : d = IF dir["dst"] = None THEN "j" ELSE dir["dst"]
    BY DEF FsInv, FsTypes
  <2>2. /\ dir'["src"] = "i" /\ dir'["dst"] = d /\ data'[d] = <<>>
        /\ dir' \in [{"src", "dst"} -> {"i", "j", None}]
        /\ d # "i" => data'["i"] = data["i"]
    BY <1>1, <1>2, <2>1 DEF FsInv, FsTypes
  <2>3. data' \in [{"i", "j"} -> Seq(Bytes)]
    BY <1>2, <2>1, <2>2 DEF FsInv, FsTypes
  <2>4. /\ fsCall'.op = fsCall.op /\ fsCall'.pc = "loop"
        /\ fsCall' \in [op : {"none", "copy", "move", "remove"}, pc : FsLabels, rc : {0, -1}]
    BY <1>1, <1>2, FsSteps DEF FsInv, FsLabels
  <2>5. d = "i" => ~twoDevs
    BY <2>1 DEF FsInv, FsTypes
  <2>6. FsTypes'
    BY <1>1, <2>2, <2>3, <2>4, <2>5 DEF FsInv, FsTypes, At
  <2>7. ~aliased => d # "i"
    BY <1>1, <2>1
  <2>8. <<>> \o <<>> = SubSeq(original, 1, 0) /\ 0 <= Len(original)
    BY <1>1, SubSeqEmpty
  <2>9. d # None /\ "i" # None
    BY DEF FsAssumption
  <2>10. SourceKept' /\ Copied' /\ Moved'
    BY <1>1, <2>2, <2>4, <2>7, <2>8, <2>9 DEF SourceKept, Copied, Moved, At
  <2>11. QED
    BY <2>6, <2>10 DEF FsInv
<1>3. CASE UNCHANGED <<dir, data>> /\ Done(-1)
  <2>1. /\ fsCall'.op = fsCall.op /\ fsCall'.pc = "done" /\ fsCall'.rc = -1
        /\ fsCall' \in [op : {"none", "copy", "move", "remove"}, pc : FsLabels, rc : {0, -1}]
    BY <1>1, <1>3, FsSteps DEF FsInv
  <2>2. FsTypes'
    BY <1>1, <1>3, <2>1 DEF FsInv, FsTypes, At
  <2>3. "i" # None
    BY DEF FsAssumption
  <2>4. SourceKept' /\ Copied' /\ Moved'
    BY <1>1, <1>3, <2>1, <2>3 DEF SourceKept, Copied, Moved, Leads, At
  <2>5. QED
    BY <2>2, <2>4 DEF FsInv
<1>4. QED
  BY <1>2, <1>3 DEF OpenDst

(* What the destination has and what is on its way make up what was read:  *)
(* one more chunk is read, or one chunk arrives.                           *)
LEMMA OneMoreRead ==
  ASSUME NEW S, NEW d \in Seq(S), NEW p \in Seq(S), NEW o \in Seq(S), NEW n \in Nat,
         d \o p = SubSeq(o, 1, n), n < Len(o)
  PROVE  d \o Append(p, o[n + 1]) = SubSeq(o, 1, n + 1) /\ Append(p, o[n + 1]) \in Seq(S)
<1>1. o[n + 1] \in S
  OBVIOUS
<1>2. d \o Append(p, o[n + 1]) = Append(d \o p, o[n + 1])
  <2>1. PICK e \in S : e = o[n + 1]
    BY <1>1
  <2>2. PICK q \in Seq(S), r \in Seq(S) : q = d \o Append(p, e) /\ r = Append(d \o p, e)
    <3>1. Append(p, e) \in Seq(S) /\ d \o p \in Seq(S)
      OBVIOUS
    <3>2. d \o Append(p, e) \in Seq(S) /\ Append(d \o p, e) \in Seq(S)
      BY <3>1
    <3>3. QED
      BY <3>2
  <2>3. Len(q) = Len(d) + Len(p) + 1 /\ Len(r) = Len(d) + Len(p) + 1
    <3>1. Len(Append(p, e)) = Len(p) + 1
      BY AppendProperties
    <3>2. Append(p, e) \in Seq(S) /\ d \o p \in Seq(S)
      OBVIOUS
    <3>3. QED
      BY <2>2, <3>1, <3>2
  <2>4. ASSUME NEW i \in 1 .. Len(q) PROVE q[i] = r[i]
    BY <2>2, <2>3, SMTT(30)
  <2>5. q = r
    BY <2>3, <2>4, SeqEqual
  <2>6. QED
    BY <2>1, <2>2, <2>5
<1>3. SubSeq(o, 1, n + 1) = Append(SubSeq(o, 1, n), o[n + 1])
  OBVIOUS
<1>4. QED
  BY <1>1, <1>2, <1>3

(* One chunk arrives.                                                      *)
LEMMA OneArrives ==
  ASSUME NEW S, NEW d \in Seq(S), NEW p \in Seq(S), p # <<>>
  PROVE  /\ Append(d, Head(p)) \o Tail(p) = d \o p
         /\ Append(d, Head(p)) \in Seq(S) /\ Tail(p) \in Seq(S)
<1>1. Head(p) \in S /\ Tail(p) \in Seq(S) /\ Len(Tail(p)) = Len(p) - 1
      /\ \A i \in 1 .. Len(Tail(p)) : Tail(p)[i] = p[i + 1]
      /\ Head(p) = p[1] /\ Len(p) >= 1
  BY HeadTailProperties
<1>2. PICK h \in S, t \in Seq(S) : h = Head(p) /\ t = Tail(p)
  BY <1>1
<1>3. Append(d, h) \in Seq(S) /\ Append(d, h) \o t \in Seq(S) /\ d \o p \in Seq(S)
      /\ Len(Append(d, h) \o t) = Len(d \o p)
  BY <1>1, <1>2
<1>4. ASSUME NEW i \in 1 .. Len(d) + Len(p)
      PROVE  (Append(d, h) \o t)[i] = (d \o p)[i]
  BY <1>1, <1>2
<1>5. Append(d, h) \o t = d \o p
  <2>1. PICK q \in Seq(S), r \in Seq(S) : q = Append(d, h) \o t /\ r = d \o p
    BY <1>3
  <2>2. Len(q) = Len(r) /\ Len(r) = Len(d) + Len(p)
    BY <1>3, <2>1
  <2>3. q = r
    BY <1>4, <2>1, <2>2, SeqEqual
  <2>4. QED
    BY <2>1, <2>3
<1>6. QED
  BY <1>1, <1>2, <1>3, <1>5

\* Where u_copy is in its loop, and what it may rely on.
InLoop(l) ==
  /\ fsCall.pc = l
  /\ dir["src"] = "i" /\ dir["dst"] \in {"i", "j"} /\ original \in Seq(Bytes)
  /\ data["i"] \in Seq(Bytes) /\ data["j"] \in Seq(Bytes)
  /\ offset \in Nat /\ pending \in Seq(Bytes)
  /\ fsCall.op = "move" => ~aliased /\ twoDevs
  /\ fsCall.op \in {"copy", "move"} /\ silent \in BOOLEAN
  /\ ~aliased =>
       /\ dir["dst"] = "j" /\ data["i"] = original /\ offset <= Len(original)
       /\ ~silent => data["j"] \o pending = SubSeq(original, 1, offset)

(* In the loop both files are there.                                       *)
LEMMA LoopKnows ==
  ASSUME FsAssumption, FsInv, NEW l \in {"loop", "close"}, fsCall.pc = l
  PROVE  InLoop(l)
<1>1. fsCall.op \in {"copy", "move"}
  BY DEF FsInv, FsTypes, At
<1>2. dir["src"] = "i" /\ dir["dst"] \in {"i", "j"}
  BY DEF FsInv, FsTypes, SourceKept, Copied
<1>3. QED
  BY <1>1, <1>2 DEF InLoop, FsInv, FsTypes, SourceKept, Copied

(* The invariant is kept by fread and fwrite: a chunk that was torn is     *)
(* remembered as silent.                                                   *)
LEMMA ReadKeeps ==
  ASSUME FsAssumption, FsInv, Read
  PROVE  FsInv'
<1>1. /\ InLoop("loop") /\ offset < Len(data["i"])
      /\ UNCHANGED <<dir, data, twoDevs, original, aliased>>
  BY LoopKnows DEF Read, Eof, At, InLoop
<1>2. ASSUME NEW chunk \in {data["i"][offset + 1], Torn},
             offset' = offset + 1, pending' = Append(pending, chunk),
             silent' = (silent \/ chunk = Torn), UNCHANGED fsCall
      PROVE  FsInv'
  <2>1. offset + 1 \in Nat /\ pending' \in Seq(Bytes) /\ silent' \in BOOLEAN
    <3>1. chunk \in Bytes
      BY <1>1 DEF InLoop, Bytes
    <3>2. pending' \in Seq(Bytes)
      BY <1>1, <1>2, <3>1 DEF InLoop
    <3>3. silent' \in BOOLEAN
      BY <1>2, Zenon
    <3>4. QED
      BY <1>1, <3>2, <3>3 DEF InLoop
  <2>2. ASSUME ~aliased, ~silent'
        PROVE  data["j"] \o pending' = SubSeq(original, 1, offset + 1)
    <3>1. /\ data["j"] \in Seq(Bytes) /\ pending \in Seq(Bytes) /\ original \in Seq(Bytes)
          /\ offset \in Nat /\ data["i"] = original /\ offset < Len(original)
          /\ ~silent => data["j"] \o pending = SubSeq(original, 1, offset)
      BY <1>1, <2>2 DEF InLoop
    <3>2. ~silent /\ chunk = original[offset + 1]
      BY <1>2, <2>2, <3>1
    <3>3. PICK d \in Seq(Bytes), p \in Seq(Bytes), o \in Seq(Bytes), n \in Nat :
            d = data["j"] /\ p = pending /\ o = original /\ n = offset
      BY <3>1
    <3>4. d \o p = SubSeq(o, 1, n) /\ n < Len(o)
      BY <3>1, <3>2, <3>3
    <3>5. d \o Append(p, o[n + 1]) = SubSeq(o, 1, n + 1)
      BY <3>4, OneMoreRead
    <3>6. QED
      BY <1>2, <3>2, <3>3, <3>5
  <2>3. FsTypes'
    BY <1>1, <1>2, <2>1 DEF FsInv, FsTypes, At
  <2>4. SourceKept' /\ Moved'
    BY <1>1, <1>2 DEF FsInv, SourceKept, Moved, InLoop, At
  <2>5. Copied'
    <3>1. ~aliased => offset + 1 <= Len(original)
      BY <1>1 DEF InLoop
    <3>2. fsCall'.pc = "loop" /\ dir'["dst"] # None
      BY <1>1, <1>2 DEF FsInv, Copied, InLoop
    <3>3. ~aliased /\ ~silent' => data'[dir'["dst"]] \o pending' = SubSeq(original, 1, offset + 1)
      BY <1>1, <2>2 DEF InLoop
    <3>4. QED
      BY <1>1, <1>2, <3>1, <3>2, <3>3 DEF Copied, At
  <2>6. QED
    BY <2>3, <2>4, <2>5 DEF FsInv
<1>3. CASE Done(-1) /\ UNCHANGED <<offset, pending, silent>>
  <2>1. /\ fsCall'.op = fsCall.op /\ fsCall'.pc = "done" /\ fsCall'.rc = -1
        /\ fsCall' \in [op : {"none", "copy", "move", "remove"}, pc : FsLabels, rc : {0, -1}]
    BY <1>1, <1>3, FsSteps DEF FsInv
  <2>2. FsTypes'
    BY <1>1, <1>3, <2>1 DEF FsInv, FsTypes, At, InLoop
  <2>3. "i" # None
    BY DEF FsAssumption
  <2>4. SourceKept' /\ Copied' /\ Moved'
    BY <1>1, <1>3, <2>1, <2>3 DEF SourceKept, Copied, Moved, Leads, InLoop, At
  <2>5. QED
    BY <2>2, <2>4 DEF FsInv
<1>4. QED
  BY <1>1, <1>2, <1>3 DEF Read, InLoop

(* The invariant is kept by the end of the source, or by what looks like   *)
(* it.                                                                     *)
LEMMA EndOfSourceKeeps ==
  ASSUME FsAssumption, FsInv, EndOfSource
  PROVE  FsInv'
<1>1. /\ InLoop("loop") /\ Goto("close") /\ silent' = (silent \/ offset < Len(data["i"]))
      /\ UNCHANGED <<dir, data, twoDevs, offset, pending, original, aliased>>
  BY LoopKnows DEF EndOfSource, Eof, At, InLoop
<1>2. /\ fsCall'.op = fsCall.op /\ fsCall'.pc = "close"
      /\ fsCall' \in [op : {"none", "copy", "move", "remove"}, pc : FsLabels, rc : {0, -1}]
  BY <1>1, FsSteps DEF FsInv, FsLabels
<1>3. silent' \in BOOLEAN /\ (~silent' => ~silent /\ ~(offset < Len(data["i"])))
  BY <1>1, Zenon
<1>4. FsTypes'
  BY <1>1, <1>2, <1>3 DEF FsInv, FsTypes, At, InLoop
<1>5. ~aliased /\ ~silent' => offset = Len(original)
  BY <1>1, <1>3 DEF InLoop
<1>6. SourceKept' /\ Copied' /\ Moved'
  BY <1>1, <1>2, <1>3, <1>5 DEF FsInv, SourceKept, Copied, Moved, InLoop, At
<1>7. QED
  BY <1>4, <1>6 DEF FsInv

(* The invariant is kept by a chunk that reaches the destination.          *)
LEMMA FlushKeeps ==
  ASSUME FsAssumption, FsInv, Flush
  PROVE  FsInv'
<1>1. /\ InLoop("loop") /\ pending # <<>>
      /\ UNCHANGED <<dir, twoDevs, fsCall, offset, original, aliased, silent>>
  BY LoopKnows DEF Flush, At
<1>2. PICK d \in {"i", "j"} : /\ d = dir["dst"] /\ pending' = Tail(pending)
                              /\ data' = [data EXCEPT ![d] = Append(data[d], Head(pending))]
  BY <1>1 DEF Flush, InLoop
<1>3. /\ Append(data[d], Head(pending)) \o Tail(pending) = data[d] \o pending
      /\ Append(data[d], Head(pending)) \in Seq(Bytes) /\ Tail(pending) \in Seq(Bytes)
  BY <1>1, <1>2, OneArrives DEF InLoop
<1>4. /\ data' \in [{"i", "j"} -> Seq(Bytes)] /\ pending' \in Seq(Bytes)
      /\ data'[d] = Append(data[d], Head(pending)) /\ (d # "i" => data'["i"] = data["i"])
  BY <1>2, <1>3 DEF FsInv, FsTypes
<1>5. FsTypes'
  BY <1>1, <1>4 DEF FsInv, FsTypes, At
<1>6. ~aliased => /\ d = "j" /\ data'["i"] = data["i"]
                  /\ ~silent => data'["j"] \o pending' = SubSeq(original, 1, offset)
  BY <1>1, <1>2, <1>3, <1>4 DEF InLoop
<1>7. SourceKept' /\ Copied' /\ Moved'
  BY <1>1, <1>2, <1>6 DEF FsInv, SourceKept, Copied, Moved, InLoop, At
<1>8. QED
  BY <1>5, <1>7 DEF FsInv

(* Nothing is lost in the buffer of the destination, or fclose says so.    *)
LEMMA CloseKeeps ==
  ASSUME FsAssumption, FsInv, CloseFiles
  PROVE  FsInv'
<1>1. /\ InLoop("close") /\ pending' = <<>> /\ (~aliased /\ ~silent => offset = Len(original))
      /\ UNCHANGED <<dir, twoDevs, offset, original, aliased, silent>>
  BY LoopKnows DEF CloseFiles, At, FsInv, Copied
<1>2. PICK d \in {"i", "j"} : d = dir["dst"]
  BY <1>1 DEF InLoop
<1>3. pending' \in Seq(Bytes) /\ d # None /\ "i" # None
  BY <1>1, <1>2 DEF FsAssumption
<1>4. CASE /\ data' = [data EXCEPT ![d] = data[d] \o pending] /\ AfterCopy
  <2>1. /\ data[d] \in Seq(Bytes) /\ pending \in Seq(Bytes) /\ data[d] \o pending \in Seq(Bytes)
    BY <1>1, <1>2 DEF InLoop
  <2>2. /\ data' \in [{"i", "j"} -> Seq(Bytes)]
        /\ data'[d] = data[d] \o pending /\ (d # "i" => data'["i"] = data["i"])
    BY <1>2, <1>4, <2>1 DEF FsInv, FsTypes
  <2>3. ASSUME ~aliased
        PROVE  /\ d = "j" /\ data'["i"] = original
               /\ ~silent => data'["j"] = original
    <3>1. /\ d = "j" /\ data["i"] = original /\ original \in Seq(Bytes)
          /\ ~silent => data["j"] \o pending = SubSeq(original, 1, Len(original))
      BY <1>1, <1>2, <2>3 DEF InLoop
    <3>2. SubSeq(original, 1, Len(original)) = original
      BY <3>1, SubSeqFull
    <3>3. QED
      BY <2>2, <3>1, <3>2
  <2>4. CASE fsCall.op = "move"
    <3>1. /\ ~aliased /\ fsCall'.op = "move" /\ fsCall'.pc = "unlink"
          /\ fsCall' \in [op : {"none", "copy", "move", "remove"}, pc : FsLabels, rc : {0, -1}]
      BY <1>1, <1>4, <2>4, FsSteps DEF FsInv, FsLabels, AfterCopy, InLoop
    <3>2. FsTypes'
      BY <1>1, <1>3, <2>2, <3>1 DEF FsInv, FsTypes, At
    <3>3. SourceKept' /\ Copied' /\ Moved'
      BY <1>1, <1>2, <1>3, <2>3, <2>4, <3>1 DEF SourceKept, Copied, Moved, Leads, InLoop, At
    <3>4. QED
      BY <3>2, <3>3 DEF FsInv
  <2>5. CASE fsCall.op = "copy"
    <3>1. /\ fsCall'.op = "copy" /\ fsCall'.pc = "done" /\ fsCall'.rc = 0
          /\ fsCall' \in [op : {"none", "copy", "move", "remove"}, pc : FsLabels, rc : {0, -1}]
      BY <1>1, <1>4, <2>5, FsSteps DEF FsInv, AfterCopy
    <3>2. FsTypes'
      BY <1>1, <1>3, <2>2, <3>1 DEF FsInv, FsTypes, At
    <3>3. SourceKept' /\ Copied' /\ Moved'
      BY <1>1, <1>2, <1>3, <2>3, <3>1 DEF SourceKept, Copied, Moved, Leads, InLoop, At
    <3>4. QED
      BY <3>2, <3>3 DEF FsInv
  <2>6. QED
    BY <1>1, <2>4, <2>5 DEF InLoop
<1>5. ASSUME data' \in [{"i", "j"} -> Seq(Bytes)], d # "i" => data'["i"] = data["i"], Done(-1)
      PROVE  FsInv'
  <2>1. /\ fsCall'.op = fsCall.op /\ fsCall'.pc = "done" /\ fsCall'.rc = -1
        /\ fsCall' \in [op : {"none", "copy", "move", "remove"}, pc : FsLabels, rc : {0, -1}]
    BY <1>5, FsSteps DEF FsInv
  <2>2. FsTypes'
    BY <1>1, <1>3, <1>5, <2>1 DEF FsInv, FsTypes, At, InLoop
  <2>3. ~aliased => data'[dir'["src"]] = original'
    BY <1>1, <1>2, <1>5 DEF InLoop
  <2>4. SourceKept' /\ Copied' /\ Moved'
    BY <1>1, <1>3, <2>1, <2>3 DEF SourceKept, Copied, Moved, Leads, InLoop, At
  <2>5. QED
    BY <2>2, <2>4 DEF FsInv
<1>6. CASE /\ \E n \in 0 .. Len(pending) :
                data' = [data EXCEPT ![d] = data[d] \o SubSeq(pending, 1, n)]
           /\ Done(-1)
  <2>1. PICK n \in 0 .. Len(pending) :
          data' = [data EXCEPT ![d] = data[d] \o SubSeq(pending, 1, n)]
    BY <1>6
  <2>2. data[d] \in Seq(Bytes) /\ pending \in Seq(Bytes)
    BY <1>1, <1>2 DEF InLoop
  <2>3. data[d] \o SubSeq(pending, 1, n) \in Seq(Bytes)
    <3>1. n \in Int /\ 1 \in Int /\ \A i \in 1 .. n : pending[i] \in Bytes
      BY <2>2
    <3>2. SubSeq(pending, 1, n) \in Seq(Bytes)
      BY <3>1, SubSeqProperties, Zenon
    <3>3. QED
      BY <2>2, <3>2, ConcatProperties
  <2>4. QED
    BY <1>5, <1>6, <2>1, <2>3 DEF FsInv, FsTypes
<1>7. CASE UNCHANGED data /\ Done(-1)
  BY <1>5, <1>7 DEF FsInv, FsTypes
<1>8. QED
  BY <1>2, <1>4, <1>6, <1>7 DEF CloseFiles, CloseDst

(* The invariant is kept by unlink.                                        *)
LEMMA UnlinkKeeps ==
  ASSUME FsAssumption, FsInv, Unlink
  PROVE  FsInv'
<1>1. /\ fsCall.pc = "unlink" /\ UNCHANGED <<data, twoDevs, offset, pending, original, aliased, silent>>
      /\ fsCall.op \in {"move", "remove", "copy"}
      /\ fsCall.op = "move" =>
           Leads("src") /\ (~silent => Leads("dst")) /\ (silent => twoDevs)
  BY DEF Unlink, At, FsInv, FsTypes, Moved
<1>2. PICK rc \in {0, -1} : Done(rc) /\ (fsCall.op = "move" => rc = 0)
  BY DEF Unlink
<1>3. /\ fsCall'.op = fsCall.op /\ fsCall'.pc = "done" /\ fsCall'.rc = rc
      /\ fsCall' \in [op : {"none", "copy", "move", "remove"}, pc : FsLabels, rc : {0, -1}]
  BY <1>2, FsSteps DEF FsInv
<1>4. /\ dir' \in [{"src", "dst"} -> {"i", "j", None}] /\ dir'["src"] # "j"
      /\ dir'["dst"] = dir["dst"]
  BY DEF Unlink, FsInv, FsTypes, FsAssumption
<1>5. FsTypes'
  BY <1>1, <1>3, <1>4 DEF FsInv, FsTypes, At
<1>6. fsCall.op # "copy"
  BY <1>1 DEF FsInv, FsTypes, At
<1>7. SourceKept' /\ Copied' /\ Moved'
  BY <1>1, <1>2, <1>3, <1>4, <1>6 DEF SourceKept, Copied, Moved, Leads, At
<1>8. QED
  BY <1>5, <1>7 DEF FsInv

(* The invariant is kept by the return of the call.                        *)
LEMMA FsForgetKeeps ==
  ASSUME FsAssumption, FsInv, FsForget
  PROVE  FsInv'
<1>1. /\ fsCall' = [op |-> "none", pc |-> "idle", rc |-> 0]
      /\ offset' = 0 /\ pending' = <<>> /\ aliased' = FALSE /\ silent' = FALSE
      /\ UNCHANGED <<dir, data, twoDevs>>
  BY DEF FsForget
<1>2. /\ fsCall' \in [op : {"none", "copy", "move", "remove"}, pc : FsLabels, rc : {0, -1}]
      /\ fsCall'.op = "none" /\ fsCall'.pc = "idle" /\ pending' \in Seq(Bytes)
  BY <1>1 DEF FsLabels
<1>3. aliased' \in BOOLEAN /\ silent' \in BOOLEAN
  BY <1>1, Zenon
<1>4. FsTypes'
  BY <1>1, <1>2, <1>3 DEF FsInv, FsTypes, At
<1>5. SourceKept' /\ Copied' /\ Moved'
  BY <1>1, <1>2 DEF SourceKept, Copied, Moved, At
<1>6. QED
  BY <1>4, <1>5 DEF FsInv

(* The invariant is kept by everything else.                               *)
LEMMA FsStutter ==
  ASSUME FsInv, UNCHANGED fsVars
  PROVE  FsInv'
BY DEF fsVars, FsInv, FsTypes, SourceKept, Copied, Moved, Leads, At

(* So every step keeps it.                                                 *)
LEMMA FsMovesOn ==
  ASSUME FsAssumption, FsInv, [FsNext]_fsVars
  PROVE  FsInv'
BY FsCallKeeps, LinkKeeps, OpenSrcKeeps, OpenDstKeeps, ReadKeeps, EndOfSourceKeeps, FlushKeeps,
   CloseKeeps, UnlinkKeeps, FsForgetKeeps, FsStutter DEF FsNext

(* u_move and u_copy keep a file whatever system call fails: at every      *)
(* moment the contents are whole under one of the names, and under the     *)
(* right one when the call returns; what fread and fwrite hide from u_copy *)
(* can spoil the file that was made, and the move to another device that   *)
(* relies on it, and nothing else.                                         *)
THEOREM NothingLost ==
  ASSUME FsAssumption
  PROVE  FsSpec => []MoveKeepsData
<1>1. FsInit => FsInv
  BY FsInvInit
<1>2. FsInv /\ [FsNext]_fsVars => FsInv'
  BY FsMovesOn
<1>3. FsInv => MoveKeepsData
  <2> SUFFICES ASSUME FsInv
               PROVE  MoveKeepsData
    OBVIOUS
  <2>1. /\ fsCall.op \in {"none", "remove"} \/ fsCall.pc \in
             {"link", "open", "open_dst", "loop", "close", "unlink", "done"}
        /\ fsCall.op \in {"none", "copy", "move", "remove"} /\ fsCall.rc \in {0, -1}
    BY DEF FsInv, FsTypes, FsLabels, At
  <2>2. CASE fsCall.pc \in {"link", "open"}
    BY <2>2 DEF FsInv, SourceKept, MoveKeepsData, Leads, At
  <2>3. CASE fsCall.pc \in {"open_dst", "loop", "close"}
    BY <2>3 DEF FsInv, SourceKept, MoveKeepsData, Leads, At
  <2>4. CASE fsCall.pc \in {"unlink", "done"}
    BY <2>1, <2>4 DEF FsInv, FsTypes, Moved, MoveKeepsData, At
  <2>5. CASE fsCall.op \in {"none", "remove"}
    BY <2>5 DEF MoveKeepsData
  <2>6. QED
    BY <2>1, <2>2, <2>3, <2>4, <2>5
<1>4. QED
  BY <1>1, <1>2, <1>3, PTL DEF FsSpec

-----------------------------------------------------------------------------
(* The password database.                                                  *)

(* The first line with some property is one of the lines that have it.     *)
LEMMA FirstIsOne ==
  ASSUME NEW T, T \subseteq Nat, T # {}
  PROVE  Min(T) \in T
<1> DEFINE R == OpToRel(<, Nat)
<1>1. IsWellFoundedOn(R, Nat)
  BY NatLessThanWellFounded DEF R
<1>2. PICK x \in T : \A y \in T : ~(<<y, x>> \in R)
  <2> HIDE DEF R
  <2>1. QED
    BY <1>1, WFMin
<1>3. \A y \in T : ~(y < x)
  BY <1>2 DEF OpToRel, R
<1>4. \A y \in T : x <= y
  BY <1>3
<1>5. QED
  BY <1>4 DEF Min

(* What the records in memory say of a user, the file says itself, unless  *)
(* a line of it has no password.                                           *)
LEMMA FileSaysTheSame ==
  ASSUME PwdAssumption, NEW c \in Contents, NEW w \in Candidates, WellFormed(c)
  PROVE  (RetrRes(c, w.user) # NoRecord /\ RetrRes(c, w.user) = w.pass)
           <=> RetrMem(DbLoad(c), w.user) = w.pass
<1> DEFINE rows == LinesOf(c, w.user)
<1>1. rows \subseteq DOMAIN c /\ DOMAIN c \subseteq Nat
  BY DEF LinesOf, PwdAssumption
<1>2. \A i \in rows : IsRecord(c[i]) /\ c[i].pass # NoPass /\ c[i].user = w.user /\ c[i] # Comment
  BY DEF LinesOf, WellFormed, IsRecord
<1>3. rows = {i \in LinesOf(c, w.user) : IsRecord(c[i])}
  BY <1>2
<1>4. w.pass \in Passwords /\ w.pass # NoRecord
  BY DEF PwdAssumption
<1>5. CASE rows = {}
  <2>1. w.user \notin DOMAIN DbLoad(c)
    BY <1>5 DEF DbLoad, LinesOf, IsRecord
  <2>2. QED
    BY <1>4, <1>5, <2>1 DEF RetrRes, RetrMem
<1>6. CASE rows # {}
  <2>1. Min(rows) \in rows
    BY <1>1, <1>6, FirstIsOne
  <2>2. w.user \in {c[i].user : i \in {j \in DOMAIN c : IsRecord(c[j])}}
    BY <1>1, <1>2, <2>1
  <2>3. RetrMem(DbLoad(c), w.user) = c[Min(rows)].pass
    BY <1>3, <2>2 DEF RetrMem, DbLoad
  <2>4. RetrRes(c, w.user) = c[Min(rows)].pass
    BY <1>2, <1>6, <2>1 DEF RetrRes
  <2>5. QED
    BY <1>4, <2>3, <2>4
<1>7. QED
  BY <1>5, <1>6

PwdLabels == {"idle", "notify", "open", "load", "lookup", "done"}
Pending == pwCall.pc \in {"notify", "open", "load", "lookup"}

PwdTypes ==
  /\ pwFile.lines \in Contents /\ pwFile.ctime \in Nat
  /\ pwFile = [lines |-> pwFile.lines, ctime |-> pwFile.ctime]
  /\ pwd = [in_memory |-> pwd.in_memory, db |-> pwd.db, last_mod |-> pwd.last_mod]
  /\ pwd.in_memory \in BOOLEAN /\ pwd.last_mod \in Nat
  /\ pwCall = [pc |-> pwCall.pc, who |-> pwCall.who, rc |-> pwCall.rc, sure |-> pwCall.sure, blind |-> pwCall.blind]
  /\ pwCall.pc \in PwdLabels
  /\ pwCall.pc # "idle" => pwCall.who \in Candidates
  /\ pwCall.pc \in {"notify", "lookup"} => pwd.in_memory
  /\ pwCall.blind => pwd.in_memory
  /\ pwCall.pc \in {"notify", "open", "load"} => ~pwCall.blind
  /\ during \subseteq Contents

\* The file that is in place is among those that were during the call, and so
\* is the one that is open.
InPlaceDuring ==
  /\ Pending => pwFile.lines \in during
  /\ pwCall.pc = "load" => handle \in during

\* If the time of the file is the one that was kept, and tells it from the
\* file before, memory holds the records of the file, or is about to.
UpToDate ==
  /\ pwd.last_mod <= pwFile.ctime
  /\ pwd.in_memory /\ pwd.last_mod = pwFile.ctime /\ ~dull /\ ~broken =>
       /\ pwCall.pc \notin {"open", "load"} => pwd.db = DbLoad(pwFile.lines)
       /\ pwCall.pc = "load" => handle = pwFile.lines

\* What is looked up was in a file that was in place, or is what was loaded
\* last.
LooksUp ==
  pwd.in_memory /\ ~broken =>
    /\ pwCall.pc = "lookup" /\ pwCall.sure /\ ~pwCall.blind => \E c \in during : pwd.db = DbLoad(c)
    /\ pwCall.pc \notin {"open", "load"} => pwd.db = loaded

PwdInv == PwdTypes /\ InPlaceDuring /\ UpToDate /\ LooksUp /\ PwdAnswers

(* It holds before any call.                                               *)
LEMMA PwdInvInit ==
  ASSUME PwdAssumption, PwdInit
  PROVE  PwdInv
<1>1. /\ pwFile.lines \in Contents /\ pwFile.ctime = 1
      /\ pwFile = [lines |-> pwFile.lines, ctime |-> pwFile.ctime]
      /\ pwd = [in_memory |-> pwd.in_memory, db |-> pwd.db, last_mod |-> pwd.last_mod]
      /\ pwd.in_memory \in BOOLEAN /\ pwd.last_mod = 0
      /\ pwCall = [pc |-> "idle", who |-> Nobody, rc |-> 0, sure |-> TRUE, blind |-> FALSE]
      /\ during = {} /\ pwd.db = <<>> /\ loaded = <<>>
  BY DEF PwdInit
<1>2. PwdTypes
  BY <1>1 DEF PwdTypes, PwdLabels
<1>3. InPlaceDuring /\ UpToDate /\ LooksUp /\ PwdAnswers
  BY <1>1 DEF InPlaceDuring, UpToDate, LooksUp, PwdAnswers, Pending
<1>4. QED
  BY <1>2, <1>3 DEF PwdInv

(* Another program replaces the file.                                      *)
LEMMA ReplaceKeeps ==
  ASSUME PwdAssumption, PwdInv, Replace
  PROVE  PwdInv'
<1>1. PICK c \in Contents, t \in {pwFile.ctime, pwFile.ctime + 1} :
        /\ pwFile' = [lines |-> c, ctime |-> t]
        /\ during' = IF pwCall.pc \in {"idle", "done"} THEN during ELSE during \cup {c}
        /\ dull' = (t = pwFile.ctime)
        /\ UNCHANGED <<pwd, handle, pwCall, loaded, broken, twice>>
  BY DEF Replace
<1>2. /\ pwFile.ctime \in Nat /\ t \in Nat /\ t >= pwFile.ctime
      /\ pwFile'.lines = c /\ pwFile'.ctime = t
      /\ pwd.last_mod \in Nat /\ pwd.last_mod <= pwFile.ctime
  BY <1>1 DEF PwdInv, PwdTypes, UpToDate
<1>3. PwdTypes'
  BY <1>1, <1>2 DEF PwdInv, PwdTypes
<1>4. InPlaceDuring'
  BY <1>1, <1>2 DEF PwdInv, InPlaceDuring, Pending
<1>5. UpToDate'
  <2>1. ~dull' => t = pwFile.ctime + 1
    BY <1>1
  <2>2. QED
    BY <1>1, <1>2, <2>1 DEF UpToDate
<1>6. during \subseteq during'
  BY <1>1
<1>7. LooksUp'
  BY <1>1, <1>6 DEF PwdInv, LooksUp
<1>8. PwdAnswers'
  BY <1>1, <1>6 DEF PwdInv, PwdAnswers
<1>9. QED
  BY <1>3, <1>4, <1>5, <1>7, <1>8 DEF PwdInv

(* u_pwd_auth_user, and the question whether memory is out of date.        *)
LEMMA AuthUserKeeps ==
  ASSUME PwdAssumption, PwdInv, PwdAuthUser
  PROVE  PwdInv'
<1>1. PICK w \in Candidates :
        /\ pwCall.pc = "idle"
        /\ pwCall' = [pc |-> IF pwd.in_memory THEN "notify" ELSE "open", who |-> w, rc |-> 0, sure |-> TRUE, blind |-> FALSE]
        /\ during' = {pwFile.lines}
        /\ UNCHANGED <<pwFile, pwd, handle, dull, loaded, broken, twice, pwSpent>>
  BY DEF PwdAuthUser
<1>2. /\ pwCall'.pc = IF pwd.in_memory THEN "notify" ELSE "open"
      /\ pwCall'.who = w
      /\ pwCall' = [pc |-> pwCall'.pc, who |-> pwCall'.who, rc |-> pwCall'.rc, sure |-> pwCall'.sure, blind |-> pwCall'.blind]
  BY <1>1
<1>3. PwdTypes'
  BY <1>1, <1>2 DEF PwdInv, PwdTypes, PwdLabels
<1>4. InPlaceDuring' /\ UpToDate' /\ LooksUp' /\ PwdAnswers'
  BY <1>1, <1>2 DEF PwdInv, InPlaceDuring, UpToDate, LooksUp, PwdAnswers, Pending
<1>5. QED
  BY <1>3, <1>4 DEF PwdInv

(* The invariant is kept by the look at the time of the file.              *)
LEMMA NeedReloadKeeps ==
  ASSUME PwdAssumption, PwdInv, NeedReload
  PROVE  PwdInv'
<1>1. /\ pwCall.pc = "notify" /\ pwd.in_memory /\ pwCall.who \in Candidates
      /\ UNCHANGED <<pwFile, handle, during, dull, loaded, broken, twice, pwSpent>>
      /\ pwFile.lines \in during
  BY DEF NeedReload, PwdInv, PwdTypes, InPlaceDuring, Pending
<1>2. CASE pwFile.ctime # pwd.last_mod
  <2>1. /\ pwd' = [pwd EXCEPT !.last_mod = pwFile.ctime, !.db = <<>>]
        /\ pwCall' = [pwCall EXCEPT !.pc = "open", !.sure = ~dull]
    BY <1>2 DEF NeedReload
  <2>2. /\ pwd'.last_mod = pwFile.ctime /\ pwd'.in_memory
        /\ pwd' = [in_memory |-> pwd'.in_memory, db |-> pwd'.db, last_mod |-> pwd'.last_mod]
        /\ pwCall'.pc = "open" /\ pwCall'.who = pwCall.who /\ ~pwCall'.blind
        /\ pwCall' = [pc |-> pwCall'.pc, who |-> pwCall'.who, rc |-> pwCall'.rc, sure |-> pwCall'.sure, blind |-> pwCall'.blind]
    BY <1>1, <2>1 DEF PwdInv, PwdTypes
  <2>3. PwdTypes'
    BY <1>1, <2>2 DEF PwdInv, PwdTypes, PwdLabels
  <2>4. InPlaceDuring' /\ UpToDate' /\ LooksUp' /\ PwdAnswers'
    BY <1>1, <2>2 DEF PwdInv, PwdTypes, InPlaceDuring, UpToDate, LooksUp, PwdAnswers, Pending
  <2>5. QED
    BY <2>3, <2>4 DEF PwdInv
<1>3. CASE pwFile.ctime = pwd.last_mod
  <2>1. /\ pwd' = pwd
        /\ pwCall' = [pwCall EXCEPT !.pc = "lookup", !.sure = ~dull]
    BY <1>3 DEF NeedReload
  <2>2. /\ pwCall'.pc = "lookup" /\ pwCall'.who = pwCall.who /\ pwCall'.sure = ~dull
        /\ pwCall'.blind = pwCall.blind
        /\ pwCall' = [pc |-> pwCall'.pc, who |-> pwCall'.who, rc |-> pwCall'.rc, sure |-> pwCall'.sure, blind |-> pwCall'.blind]
    BY <1>1, <2>1 DEF PwdInv, PwdTypes
  <2>3. PwdTypes'
    BY <1>1, <2>1, <2>2 DEF PwdInv, PwdTypes, PwdLabels
  <2>4. ~dull /\ ~broken => pwd.db = DbLoad(pwFile.lines)
    BY <1>1, <1>3 DEF PwdInv, UpToDate
  <2>5. InPlaceDuring' /\ UpToDate' /\ LooksUp' /\ PwdAnswers'
    BY <1>1, <2>1, <2>2, <2>4 DEF PwdInv, InPlaceDuring, UpToDate, LooksUp, PwdAnswers, Pending
  <2>6. QED
    BY <2>3, <2>5 DEF PwdInv
<1>4. QED
  BY <1>2, <1>3

(* The invariant is kept by a look at the time that fails.                 *)
LEMMA NotifyFailsKeeps ==
  ASSUME PwdAssumption, PwdInv, NotifyFails
  PROVE  PwdInv'
<1>1. /\ pwCall.pc = "notify" /\ pwd.in_memory /\ pwCall.who \in Candidates
      /\ pwCall' = [pwCall EXCEPT !.pc = "lookup", !.blind = TRUE]
      /\ UNCHANGED <<pwFile, pwd, handle, during, dull, loaded, broken, twice>>
  BY DEF NotifyFails, PwdInv, PwdTypes
<1>2. /\ pwCall'.pc = "lookup" /\ pwCall'.who = pwCall.who /\ pwCall'.blind
      /\ pwCall' = [pc |-> pwCall'.pc, who |-> pwCall'.who, rc |-> pwCall'.rc, sure |-> pwCall'.sure, blind |-> pwCall'.blind]
  BY <1>1 DEF PwdInv, PwdTypes
<1>3. PwdTypes'
  BY <1>1, <1>2 DEF PwdInv, PwdTypes, PwdLabels
<1>4. InPlaceDuring' /\ UpToDate' /\ LooksUp' /\ PwdAnswers'
  BY <1>1, <1>2 DEF PwdInv, PwdTypes, InPlaceDuring, UpToDate, LooksUp, PwdAnswers, Pending
<1>5. QED
  BY <1>3, <1>4 DEF PwdInv

(* The file is opened, or cannot be; it is read; its records are kept.     *)
LEMMA ResOpenKeeps ==
  ASSUME PwdAssumption, PwdInv, ResOpen
  PROVE  PwdInv'
<1>1. /\ pwCall.pc = "open" /\ pwCall.who \in Candidates /\ handle' = pwFile.lines
      /\ pwCall' = [pwCall EXCEPT !.pc = "load"]
      /\ UNCHANGED <<pwFile, pwd, during, dull, loaded, twice, pwSpent>>
      /\ pwFile.lines \in during
  BY DEF ResOpen, PwdInv, PwdTypes, InPlaceDuring, Pending
<1>2. /\ pwCall'.pc = "load" /\ pwCall'.who = pwCall.who /\ pwCall'.blind = pwCall.blind
      /\ pwCall' = [pc |-> pwCall'.pc, who |-> pwCall'.who, rc |-> pwCall'.rc, sure |-> pwCall'.sure, blind |-> pwCall'.blind]
  BY <1>1 DEF PwdInv, PwdTypes
<1>3. PwdTypes'
  BY <1>1, <1>2 DEF PwdInv, PwdTypes, PwdLabels
<1>4. InPlaceDuring' /\ UpToDate' /\ LooksUp' /\ PwdAnswers'
  BY <1>1, <1>2 DEF PwdInv, InPlaceDuring, UpToDate, LooksUp, PwdAnswers, Pending
<1>5. QED
  BY <1>3, <1>4 DEF PwdInv

(* The invariant is kept by the loading of the file.                       *)
LEMMA LoadKeeps ==
  ASSUME PwdAssumption, PwdInv, PwdLoad
  PROVE  PwdInv'
<1>1. /\ pwCall.pc = "load" /\ pwd.in_memory /\ pwCall.who \in Candidates /\ handle \in during
      /\ pwd' = [pwd EXCEPT !.db = DbLoad(handle)]
      /\ pwCall' = [pwCall EXCEPT !.pc = "lookup"]
      /\ loaded' = pwd'.db
      /\ UNCHANGED <<pwFile, during, dull, broken, pwSpent>>
  BY DEF PwdLoad, PwdInv, PwdTypes, InPlaceDuring
<1>2. /\ pwd'.last_mod = pwd.last_mod /\ pwd'.in_memory /\ pwd'.db = DbLoad(handle)
      /\ pwd' = [in_memory |-> pwd'.in_memory, db |-> pwd'.db, last_mod |-> pwd'.last_mod]
      /\ pwCall'.pc = "lookup" /\ pwCall'.who = pwCall.who /\ pwCall'.blind = pwCall.blind
      /\ pwCall' = [pc |-> pwCall'.pc, who |-> pwCall'.who, rc |-> pwCall'.rc, sure |-> pwCall'.sure, blind |-> pwCall'.blind]
  BY <1>1 DEF PwdInv, PwdTypes
<1>3. PwdTypes'
  BY <1>1, <1>2 DEF PwdInv, PwdTypes, PwdLabels
<1>4. InPlaceDuring' /\ UpToDate' /\ LooksUp' /\ PwdAnswers'
  BY <1>1, <1>2 DEF PwdInv, InPlaceDuring, UpToDate, LooksUp, PwdAnswers, Pending
<1>5. QED
  BY <1>3, <1>4 DEF PwdInv

\* What decides whether a verdict on a password is an answer.
Answers(pass) ==
  \/ /\ ~pwCall.blind
     /\ \E c \in during : (pass # NoRecord /\ pass = pwCall.who.pass)
                             <=> RetrMem(DbLoad(c), pwCall.who.user) = pwCall.who.pass
  \/ /\ pwCall.blind
     /\ (pass # NoRecord /\ pass = pwCall.who.pass)
          <=> RetrMem(loaded, pwCall.who.user) = pwCall.who.pass
  \/ ~pwd.in_memory /\ \E c \in during : ~WellFormed(c)

(* A verdict ends the call.                                                *)
LEMMA VerdictKeeps ==
  ASSUME PwdAssumption, PwdInv, Pending, NEW pass, pwCall' = Verdict(pass),
         UNCHANGED <<pwFile, pwd, during, dull, loaded, twice>>,
         pwd.in_memory => pwCall.pc = "lookup" /\ UNCHANGED broken,
         pwCall.sure /\ ~broken' /\ (pwd.in_memory => ~twice) => Answers(pass)
  PROVE  PwdInv'
<1>1. /\ pwCall'.pc = "done" /\ pwCall'.who = pwCall.who /\ pwCall'.sure = pwCall.sure
      /\ pwCall'.blind = pwCall.blind
      /\ pwCall'.rc = IF pass # NoRecord /\ pass = pwCall.who.pass THEN 0 ELSE -1
      /\ pwCall' = [pc |-> pwCall'.pc, who |-> pwCall'.who, rc |-> pwCall'.rc, sure |-> pwCall'.sure, blind |-> pwCall'.blind]
  BY DEF Verdict, PwdInv, PwdTypes
<1>2. pwCall.who \in Candidates
  BY DEF PwdInv, PwdTypes, Pending
<1>3. PwdTypes'
  BY <1>1, <1>2 DEF PwdInv, PwdTypes, PwdLabels
<1>4. InPlaceDuring' /\ LooksUp'
  BY <1>1 DEF InPlaceDuring, LooksUp, Pending, PwdInv
<1>5. PwdAnswers'
  <2> SUFFICES ASSUME pwCall.sure, ~broken', pwd.in_memory => ~twice
               PROVE  \/ ~pwCall.blind /\ \E c \in during : pwCall'.rc = Says(c, pwCall.who)
                      \/ pwCall.blind /\ pwCall'.rc = SaysMem(loaded, pwCall.who)
                      \/ ~pwd.in_memory /\ \E c \in during : ~WellFormed(c)
    BY <1>1 DEF PwdAnswers
  <2>1. Answers(pass)
    OBVIOUS
  <2>2. QED
    BY <1>1, <2>1 DEF Answers, Says, SaysMem
<1>6. UpToDate'
  BY <1>1 DEF PwdInv, UpToDate
<1>7. QED
  BY <1>3, <1>4, <1>5, <1>6 DEF PwdInv

(* The invariant is kept by the failure to open it.                        *)
LEMMA ResOpenFailsKeeps ==
  ASSUME PwdAssumption, PwdInv, ResOpenFails
  PROVE  PwdInv'
<1>1. /\ pwCall.pc = "open" /\ pwCall.who \in Candidates /\ broken'
      /\ UNCHANGED <<pwFile, pwd, handle, during, dull, loaded, twice>>
      /\ pwCall' = IF pwd.in_memory THEN [pwCall EXCEPT !.pc = "lookup"] ELSE Verdict(NoRecord)
      /\ Pending
  BY DEF ResOpenFails, PwdInv, PwdTypes, Pending
<1>2. CASE pwd.in_memory
  <2>1. /\ pwCall'.pc = "lookup" /\ pwCall'.who = pwCall.who /\ pwCall'.blind = pwCall.blind
        /\ pwCall' = [pc |-> pwCall'.pc, who |-> pwCall'.who, rc |-> pwCall'.rc, sure |-> pwCall'.sure, blind |-> pwCall'.blind]
    BY <1>1, <1>2 DEF PwdInv, PwdTypes
  <2>2. PwdTypes'
    BY <1>1, <1>2, <2>1 DEF PwdInv, PwdTypes, PwdLabels
  <2>3. InPlaceDuring' /\ UpToDate' /\ LooksUp' /\ PwdAnswers'
    BY <1>1, <2>1 DEF PwdInv, InPlaceDuring, UpToDate, LooksUp, PwdAnswers, Pending
  <2>4. QED
    BY <2>2, <2>3 DEF PwdInv
<1>3. CASE ~pwd.in_memory
  BY <1>1, <1>3, VerdictKeeps
<1>4. QED
  BY <1>2, <1>3

(* The invariant is kept by a lookup in the file.                          *)
LEMMA RetrResKeeps ==
  ASSUME PwdAssumption, PwdInv, PwdRetrRes
  PROVE  PwdInv'
<1>1. /\ pwCall.pc = "load" /\ ~pwd.in_memory /\ pwCall.who \in Candidates /\ Pending
      /\ handle \in during /\ handle \in Contents
      /\ pwCall' = Verdict(RetrRes(handle, pwCall.who.user))
      /\ UNCHANGED <<pwFile, pwd, during, dull, loaded, broken, twice>> /\ ~pwCall.blind
  BY DEF PwdRetrRes, PwdInv, PwdTypes, InPlaceDuring, Pending
<1>2. \/ (RetrRes(handle, pwCall.who.user) # NoRecord
            /\ RetrRes(handle, pwCall.who.user) = pwCall.who.pass)
           <=> RetrMem(DbLoad(handle), pwCall.who.user) = pwCall.who.pass
      \/ ~WellFormed(handle)
  BY <1>1, FileSaysTheSame
<1>3. Answers(RetrRes(handle, pwCall.who.user))
  BY <1>1, <1>2 DEF Answers
<1>4. QED
  BY <1>1, <1>3, VerdictKeeps

(* The invariant is kept by a lookup in memory.                            *)
LEMMA RetrMemKeeps ==
  ASSUME PwdAssumption, PwdInv, PwdRetrMem
  PROVE  PwdInv'
<1>1. /\ pwCall.pc = "lookup" /\ pwd.in_memory /\ pwCall.who \in Candidates /\ Pending
      /\ UNCHANGED <<pwFile, pwd, during, dull, loaded, broken, twice>>
  BY DEF PwdRetrMem, PwdInv, PwdTypes, Pending
<1>2. PICK pass : /\ pwCall' = Verdict(pass)
                  /\ pass = RetrMem(pwd.db, pwCall.who.user) \/ twice
  BY DEF PwdRetrMem
<1>3. ASSUME pwCall.sure, ~broken, ~twice
      PROVE  Answers(pass)
  <2>1. pwCall.who.pass # NoRecord
    BY <1>1 DEF PwdAssumption
  <2>2. /\ pwd.db = loaded
        /\ ~pwCall.blind => \E c \in during : pwd.db = DbLoad(c)
    BY <1>1, <1>3 DEF PwdInv, LooksUp
  <2>3. pass = RetrMem(pwd.db, pwCall.who.user)
    BY <1>2, <1>3
  <2>4. QED
    BY <2>1, <2>2, <2>3 DEF Answers
<1>4. QED
  BY <1>1, <1>2, <1>3, VerdictKeeps

(* The invariant is kept by the return of the call.                        *)
LEMMA PwdForgetKeeps ==
  ASSUME PwdAssumption, PwdInv, PwdForget
  PROVE  PwdInv'
<1>1. /\ pwCall.pc = "done" /\ during' = {}
      /\ pwCall' = [pc |-> "idle", who |-> Nobody, rc |-> 0, sure |-> TRUE, blind |-> FALSE]
      /\ UNCHANGED <<pwFile, pwd, handle, dull, loaded, broken>>
  BY DEF PwdForget
<1>2. /\ pwCall'.pc = "idle" /\ ~pwCall'.blind
      /\ pwCall' = [pc |-> pwCall'.pc, who |-> pwCall'.who, rc |-> pwCall'.rc, sure |-> pwCall'.sure, blind |-> pwCall'.blind]
  BY <1>1
<1>3. PwdTypes'
  BY <1>1, <1>2 DEF PwdInv, PwdTypes, PwdLabels
<1>4. InPlaceDuring' /\ UpToDate' /\ LooksUp' /\ PwdAnswers'
  BY <1>1, <1>2 DEF PwdInv, InPlaceDuring, UpToDate, LooksUp, PwdAnswers, Pending
<1>5. QED
  BY <1>3, <1>4 DEF PwdInv

(* The invariant is kept by everything else.                               *)
LEMMA PwdStutter ==
  ASSUME PwdInv, UNCHANGED pwdVars
  PROVE  PwdInv'
BY DEF pwdVars, PwdInv, PwdTypes, InPlaceDuring, UpToDate, LooksUp, PwdAnswers, Pending

(* So every step keeps it.                                                 *)
LEMMA PwdMovesOn ==
  ASSUME PwdAssumption, PwdInv, [PwdNext]_pwdVars
  PROVE  PwdInv'
BY ReplaceKeeps, AuthUserKeeps, NeedReloadKeeps, NotifyFailsKeeps, ResOpenKeeps, ResOpenFailsKeeps, LoadKeeps,
   RetrResKeeps, RetrMemKeeps, PwdForgetKeeps, PwdStutter DEF PwdNext

(* u_pwd_auth_user lets a user in, or keeps him out, by a file that was in *)
(* place during the call, whenever the file is replaced: the time that     *)
(* u_pwd_need_reload keeps before it opens the file never makes it take    *)
(* the records of an earlier file for those of a later one.                *)
THEOREM AnswersFromAFile ==
  ASSUME PwdAssumption
  PROVE  PwdSpec => []PwdAnswers
<1>1. PwdInit => PwdInv
  BY PwdInvInit
<1>2. PwdInv /\ [PwdNext]_pwdVars => PwdInv'
  BY PwdMovesOn
<1>3. PwdInv => PwdAnswers
  BY DEF PwdInv
<1>4. QED
  BY <1>1, <1>2, <1>3, PTL DEF PwdSpec

-----------------------------------------------------------------------------
(* Net.                                                                    *)
Labels ==
  {"idle", "socket", "options", "bind", "listen", "connect", "select0", "select",
   "handler", "failed", "return", "close"}
Addresses ==
  [family : {"unix", "inet", "inet6"}, type : {"stream", "dgram"}, proto : {"sctp", "other"}]
Sockets ==
  [st : {"new", "connecting", "connected", "bound", "listening", "accepted"},
   type : {"stream", "dgram", "seqpacket"}, nonblock : BOOLEAN, now : BOOLEAN]

AddressObjects ==
  [mode : {"none", "csock", "ssock"}, opts : OptSets \cup {{}}, addrs : Seq(Addresses), cur : Nat]

\* The call walks along the addresses with at most one socket in hand.
NetTypes ==
  /\ pc \in Labels
  /\ na \in AddressObjects
  /\ na # NoAddr => Len(na.addrs) >= 1
  /\ pc # "idle" => at \in 1 .. Len(na.addrs)
  /\ held \in Seq(Sockets)
  /\ pc \in {"idle", "socket"} => sk = NoSocket
  /\ pc \notin {"idle", "socket"} => sk \in Sockets

\* How far the socket in hand has come.
Progress ==
  /\ pc \in {"options", "bind", "connect"} => sk.st = "new" /\ ~sk.nonblock
  /\ pc = "listen" => sk.st = "bound" /\ ~sk.nonblock
  /\ pc = "return" => IsUp(sk)

SocketInv == NetTypes /\ Progress /\ open \in Int /\ NoDescriptorLeak /\ SocketsAreUp

(* A socket in hand is told from none by its state.                        *)
LEMMA InHand == NoSocket \notin Sockets
  BY DEF NoSocket, Sockets

(* What do_resolv gives for a URI: at least one address.                   *)
LEMMA Resolved ==
  ASSUME NEW s, NEW n \in Nat \ {0}
  PROVE  DoResolv(SchemeMapper(s), n) \in Seq(Addresses) /\ Len(DoResolv(SchemeMapper(s), n)) >= 1
<1> DEFINE m == SchemeMapper(s)
<1>1. m \in Addresses
  BY DEF SchemeMapper, Addresses
<1> HIDE DEF m
<1>2. <<m>> \in Seq(Addresses) /\ Len(<<m>>) = 1
  BY <1>1
<1>3. [i \in 1 .. n |-> m] \in Seq(Addresses) /\ Len([i \in 1 .. n |-> m]) = n
  BY <1>1
<1> QED BY <1>2, <1>3 DEF DoResolv, ResolvSun, AiResolv, m

(* The client closes one of its sockets: the others stay.                  *)
LEMMA OneLess ==
  ASSUME NEW S, NEW q \in Seq(S), NEW i \in DOMAIN q
  PROVE  /\ RemoveAt(q, i) \in Seq(S) /\ Len(RemoveAt(q, i)) = Len(q) - 1
         /\ \A j \in DOMAIN RemoveAt(q, i) : \E k \in DOMAIN q : RemoveAt(q, i)[j] = q[k]
<1> DEFINE a == SubSeq(q, 1, i - 1)
           b == SubSeq(q, i + 1, Len(q))
<1>1. a \in Seq(S) /\ Len(a) = i - 1 /\ \A j \in 1 .. i - 1 : a[j] = q[j]
  OBVIOUS
<1>2. b \in Seq(S) /\ Len(b) = Len(q) - i /\ \A j \in 1 .. Len(q) - i : b[j] = q[i + j]
  OBVIOUS
<1> HIDE DEF a, b
<1>3. i \in 1 .. Len(q)
  OBVIOUS
<1>4. /\ a \o b \in Seq(S) /\ Len(a \o b) = Len(q) - 1
      /\ \A j \in 1 .. Len(q) - 1 : (a \o b)[j] = IF j <= i - 1 THEN a[j] ELSE b[j - (i - 1)]
  <2>1. /\ a \o b \in Seq(S) /\ Len(a \o b) = Len(a) + Len(b)
        /\ \A j \in 1 .. Len(a) + Len(b) : (a \o b)[j] = IF j <= Len(a) THEN a[j] ELSE b[j - Len(a)]
    BY <1>1, <1>2, ConcatProperties, Zenon
  <2>2. Len(a) + Len(b) = Len(q) - 1
    BY <1>1, <1>2, <1>3
  <2> QED BY <1>1, <2>1, <2>2
<1>5. ASSUME NEW j \in 1 .. Len(q) - 1 PROVE \E k \in DOMAIN q : (a \o b)[j] = q[k]
  <2>1. CASE j < i
    <3>1. (a \o b)[j] = q[j] /\ j \in DOMAIN q
      BY <1>1, <1>4, <1>3, <2>1
    <3> QED BY <3>1
  <2>2. CASE j >= i
    <3>1. j - (i - 1) \in 1 .. Len(q) - i
      BY <1>3, <2>2
    <3>2. (a \o b)[j] = b[j - (i - 1)]
      BY <1>4, <1>3, <2>2
    <3>3. b[j - (i - 1)] = q[i + (j - (i - 1))]
      BY <1>2, <3>1
    <3>4. i + (j - (i - 1)) = j + 1 /\ j + 1 \in DOMAIN q
      BY <1>3, <2>2
    <3>5. (a \o b)[j] = q[j + 1]
      BY <3>2, <3>3, <3>4
    <3> QED BY <3>4, <3>5
  <2>3. j < i \/ j >= i
    BY <1>3
  <2> QED BY <2>1, <2>2, <2>3, Zenon
<1>6. RemoveAt(q, i) = a \o b
  BY DEF RemoveAt, a, b
<1>7. DOMAIN (a \o b) = 1 .. Len(q) - 1
  BY <1>4
<1> QED BY <1>4, <1>5, <1>6, <1>7

(* The exits of a call: the next address, or none.                         *)
LEMMA NextKeepsSockets ==
  ASSUME NetTypes, open \in Int, NoDescriptorLeak, SocketsAreUp, pc # "idle",
         TryNext, sk' = NoSocket, UNCHANGED <<na, held>>, open' = Len(held)
  PROVE  SocketInv'
<1>1. pc' \in {"socket", "idle"} /\ (pc' = "socket" => at' = at + 1 /\ at < Len(na.addrs))
  BY DEF TryNext
<1>2. Len(na.addrs) \in Nat /\ at \in 1 .. Len(na.addrs) /\ Len(held) \in Nat
  BY DEF NetTypes, AddressObjects
<1>3. NetTypes'
  BY <1>1, <1>2 DEF NetTypes, Labels
<1>4. Progress' /\ NoDescriptorLeak' /\ SocketsAreUp' /\ open' \in Int
  BY <1>1, <1>2 DEF Progress, NoDescriptorLeak, SocketsAreUp
<1> QED BY <1>3, <1>4 DEF SocketInv

(* The steps that stay with one socket: it changes its state, and may      *)
(* become ready to be returned, or be closed.                              *)
LEMMA StepKeepsSockets ==
  ASSUME SocketInv, pc \notin {"idle", "socket"}, pc' \in Labels \ {"idle", "socket"},
         sk' \in Sockets, Progress', UNCHANGED <<na, at, held, open>>
  PROVE  SocketInv'
<1>1. NetTypes'
  BY DEF SocketInv, NetTypes
<1>2. sk # NoSocket /\ sk' # NoSocket
  BY InHand DEF SocketInv, NetTypes
<1> QED BY <1>1, <1>2 DEF SocketInv, NoDescriptorLeak, SocketsAreUp

(* One step per action of the client.                                      *)
LEMMA ClientKeepsSockets ==
  ASSUME MaxAddrs \in Nat, SocketInv, pc = "idle",
         \/ \E s \in Schemes, m \in {"csock", "ssock"}, n \in 1..MaxAddrs : Uri2Addr(s, m, n)
         \/ \E o \in OptSets : SetOpts(o)
         \/ AddrFree
         \/ \E t \in {NoTimeout} \cup 0..MaxTimeout : SdByAddr(t)
         \/ Accept \/ ClientClose
  PROVE  SocketInv'
<1> USE DEF SocketInv
<1>0. sk = NoSocket /\ open = Len(held) /\ Len(held) \in Nat
  BY DEF NetTypes, NoDescriptorLeak
<1>1. ASSUME NEW s \in Schemes, NEW m \in {"csock", "ssock"}, NEW n \in 1..MaxAddrs, Uri2Addr(s, m, n)
      PROVE  SocketInv'
  <2>1. DoResolv(SchemeMapper(s), n) \in Seq(Addresses) /\ Len(DoResolv(SchemeMapper(s), n)) >= 1
    BY Resolved
  <2>2. na'.addrs = DoResolv(SchemeMapper(s), n)
        /\ na' \in AddressObjects
    BY <1>1, <2>1 DEF Uri2Addr, NaNew, NoAddr, AddressObjects
  <2>3. NetTypes'
    BY <1>0, <1>1, <2>1, <2>2 DEF Uri2Addr, NetTypes
  <2> QED BY <1>0, <1>1, <2>3 DEF Uri2Addr, Progress, NoDescriptorLeak, SocketsAreUp
<1>2. ASSUME NEW o \in OptSets, SetOpts(o) PROVE SocketInv'
  <2>1. NetTypes'
    BY <1>0, <1>2 DEF SetOpts, NetTypes, AddressObjects
  <2> QED BY <1>0, <1>2, <2>1 DEF SetOpts, Progress, NoDescriptorLeak, SocketsAreUp
<1>3. CASE AddrFree
  <2>1. NetTypes'
    BY <1>0, <1>3 DEF AddrFree, NetTypes, NoAddr, AddressObjects
  <2> QED BY <1>0, <1>3, <2>1 DEF AddrFree, Progress, NoDescriptorLeak, SocketsAreUp
<1>4. ASSUME NEW t \in {NoTimeout} \cup 0..MaxTimeout, SdByAddr(t) PROVE SocketInv'
  <2>1. NetTypes'
    BY <1>0, <1>4 DEF SdByAddr, NetTypes, Labels
  <2> QED BY <1>0, <1>4, <2>1 DEF SdByAddr, Progress, NoDescriptorLeak, SocketsAreUp
<1>5. CASE Accept
  <2>1. PICK i \in DOMAIN held :
          held[i].st = "listening" /\ held' = Append(held, [held[i] EXCEPT !.st = "accepted"])
    BY <1>5 DEF Accept
  <2> DEFINE s == [held[i] EXCEPT !.st = "accepted"]
  <2>2. s \in Sockets /\ IsUp(s)
    <3>1. held[i] \in Sockets /\ IsUp(held[i]) /\ held[i].st = "listening"
      BY <2>1 DEF NetTypes, SocketsAreUp
    <3>2. s \in Sockets /\ s.st = "accepted" /\ s.nonblock = held[i].nonblock /\ s.now = held[i].now
      BY <3>1 DEF Sockets
    <3> HIDE DEF s
    <3> QED BY <3>1, <3>2 DEF IsUp
  <2> HIDE DEF s
  <2>3. held' \in Seq(Sockets) /\ Len(held') = Len(held) + 1 /\ \A j \in DOMAIN held' : IsUp(held'[j])
    <3>1. held' = Append(held, s)
      BY <2>1 DEF s
    <3> QED BY <2>2, <3>1 DEF NetTypes, SocketsAreUp
  <2> QED BY <1>0, <1>5, <2>3 DEF Accept, NetTypes, Progress, NoDescriptorLeak, SocketsAreUp
<1>6. CASE ClientClose
  <2>1. PICK i \in DOMAIN held : held' = RemoveAt(held, i)
    BY <1>6 DEF ClientClose
  <2>2. /\ held' \in Seq(Sockets) /\ Len(held') = Len(held) - 1
        /\ \A j \in DOMAIN held' : \E k \in DOMAIN held : held'[j] = held[k]
    BY <2>1, OneLess DEF NetTypes
  <2>3. SocketsAreUp'
    BY <2>2 DEF SocketsAreUp
  <2> QED BY <1>0, <1>6, <2>2, <2>3 DEF ClientClose, NetTypes, Progress, NoDescriptorLeak
<1> QED BY <1>1, <1>2, <1>3, <1>4, <1>5, <1>6

(* One step per action of the call.                                        *)
LEMMA CallKeepsSockets ==
  ASSUME SocketInv,
         \/ Socket \/ SocketFails \/ Options \/ OptionsFail \/ Return \/ Close \/ Bind \/ Listen
         \/ Connect \/ ConnectSetupFails \/ SelectEnter \/ SelectReady \/ SelectTimesOut
         \/ SelectInterrupted \/ SelectFails \/ UpdateTimeout \/ ConnectFailed \/ Tick
  PROVE  SocketInv'
<1> USE DEF SocketInv
<1>0. Len(held) \in Nat
  BY DEF NetTypes
<1>1. CASE Socket
  <2>1. SockType \in {"stream", "dgram", "seqpacket"}
    <3>1. na.addrs[at] \in Addresses
      BY <1>1 DEF Socket, NetTypes, AddressObjects
    <3> QED BY <3>1 DEF SockType, Addr, Addresses
  <2>2. sk' \in Sockets /\ sk'.st = "new" /\ ~sk'.nonblock
    BY <1>1, <2>1 DEF Socket, Sockets
  <2>3. sk = NoSocket /\ sk' # NoSocket
    BY <1>1, <2>2, InHand DEF Socket, NetTypes
  <2>4. NetTypes' /\ Progress'
    BY <1>1, <2>2 DEF Socket, NetTypes, Labels, Progress
  <2> QED BY <1>0, <1>1, <2>3, <2>4 DEF Socket, NoDescriptorLeak, SocketsAreUp
<1>2. CASE SocketFails
  BY <1>2, NextKeepsSockets DEF SocketFails, NetTypes, NoDescriptorLeak
<1>3. CASE Options \/ OptionsFail
  <2>1. Progress'
    BY <1>3 DEF Options, OptionsFail, Progress, IsUp
  <2>2. sk' \in Sockets
    BY <1>3 DEF Options, OptionsFail, NetTypes
  <2> QED BY <1>3, <2>1, <2>2, StepKeepsSockets DEF Options, OptionsFail, Labels
<1>4. CASE Return
  <2>1. sk \in Sockets /\ IsUp(sk) /\ sk # NoSocket /\ at \in Nat
    BY <1>4, InHand DEF Return, NetTypes, Progress
  <2>2. held' \in Seq(Sockets) /\ Len(held') = Len(held) + 1 /\ \A j \in DOMAIN held' : IsUp(held'[j])
    BY <1>4, <2>1 DEF Return, NetTypes, SocketsAreUp
  <2>3. NetTypes'
    <3>1. na'.addrs = na.addrs /\ Len(na.addrs) >= 1
          /\ na' \in AddressObjects
      <4>1. at \in 1 .. Len(na.addrs) /\ na' = [na EXCEPT !.cur = at]
        BY <1>4 DEF Return, NetTypes
      <4>2. na \in AddressObjects
        BY DEF NetTypes
      <4>3. na'.addrs = na.addrs
            /\ na' \in AddressObjects
        BY <2>1, <4>1, <4>2 DEF AddressObjects
      <4> QED BY <4>1, <4>2, <4>3 DEF AddressObjects
    <3> QED BY <1>4, <2>2, <3>1 DEF Return, NetTypes, Labels
  <2> QED BY <1>0, <1>4, <2>1, <2>2, <2>3 DEF Return, Progress, NoDescriptorLeak, SocketsAreUp
<1>5. CASE Close
  <2>1. open' = Len(held)
    BY <1>0, <1>5, InHand DEF Close, NetTypes, NoDescriptorLeak
  <2> QED BY <1>5, <2>1, NextKeepsSockets DEF Close
<1>6. CASE Bind \/ Listen
  <2>1. sk \in Sockets /\ sk' \in Sockets
    BY <1>6 DEF Bind, Listen, NetTypes, Sockets
  <2>2. Progress'
    BY <1>6, <2>1 DEF Bind, Listen, Progress, IsUp, Sockets
  <2> QED BY <1>6, <2>1, <2>2, StepKeepsSockets DEF Bind, Listen, Labels
<1>7. CASE Connect
  <2> DEFINE s == IF Timed THEN SetNonblocking(sk) ELSE sk
  <2>1. s \in Sockets
    BY <1>7 DEF Connect, NetTypes, SetNonblocking, Sockets
  <2>2. sk' \in Sockets /\ pc' \in {"return", "select0", "failed"}
        /\ (pc' = "return" => sk'.st = "connected" /\ sk'.now)
    BY <1>7, <2>1 DEF Connect, Sockets
  <2>3. Progress'
    BY <2>2 DEF Progress, IsUp
  <2> QED BY <1>7, <2>2, <2>3, StepKeepsSockets DEF Connect, Labels
<1>8. CASE SelectReady
  <2>1. sk' \in Sockets /\ (pc' = "return" => sk'.st = "connected" /\ ~sk'.nonblock)
    BY <1>8 DEF SelectReady, NetTypes, UnsetNonblocking, Sockets
  <2>2. Progress'
    BY <1>8, <2>1 DEF SelectReady, Progress, IsUp
  <2> QED BY <1>8, <2>1, <2>2, StepKeepsSockets DEF SelectReady, Labels
<1>9. CASE ConnectFailed
  <2>1. sk' \in Sockets
    BY <1>9 DEF ConnectFailed, NetTypes, UnsetNonblocking, Sockets
  <2> QED BY <1>9, <2>1, StepKeepsSockets DEF ConnectFailed, Labels, Progress
<1>10. CASE \/ ConnectSetupFails \/ SelectEnter \/ SelectTimesOut
            \/ SelectInterrupted \/ SelectFails \/ UpdateTimeout
  <2>1. pc' \in {"failed", "select", "handler", "select0"} /\ pc \in Labels \ {"idle", "socket"}
        /\ UNCHANGED <<na, at, sk, held, open>>
    BY <1>10 DEF ConnectSetupFails, SelectEnter, SelectTimesOut, SelectInterrupted, SelectFails, UpdateTimeout, Labels
  <2>2. sk' \in Sockets /\ Progress'
    BY <2>1 DEF NetTypes, Progress
  <2> QED BY <2>1, <2>2, StepKeepsSockets DEF Labels
<1>11. CASE Tick
  BY <1>11 DEF Tick, NetTypes, Progress, NoDescriptorLeak, SocketsAreUp, IsUp
<1> QED BY <1>1, <1>2, <1>3, <1>4, <1>5, <1>6, <1>7, <1>8, <1>9, <1>10, <1>11

(* Whatever fails, at whatever address, u_net_sd_by_addr_ex leaves open    *)
(* only what it returns, and what it returns is connected, bound or        *)
(* listening and, unless it connected at once, in blocking mode.           *)
THEOREM SocketsAreSound ==
  ASSUME MaxAddrs \in Nat
  PROVE  NetSpec => []SocketsSound
<1>1. NetInit => SocketInv
  <2>1. NetInit => NetTypes
    BY DEF NetInit, NetTypes, Labels, NoAddr, AddressObjects
  <2> QED BY <2>1 DEF NetInit, SocketInv, Progress, NoDescriptorLeak, SocketsAreUp
<1>2. SocketInv /\ [NetNext]_netVars => SocketInv'
  <2> SUFFICES ASSUME SocketInv, [NetNext]_netVars PROVE SocketInv'
    OBVIOUS
  <2>1. CASE \/ \E s \in Schemes, m \in {"csock", "ssock"}, n \in 1..MaxAddrs : Uri2Addr(s, m, n)
             \/ \E o \in OptSets : SetOpts(o)
             \/ AddrFree
             \/ \E t \in {NoTimeout} \cup 0..MaxTimeout : SdByAddr(t)
             \/ Accept \/ ClientClose
    <3>1. pc = "idle"
      BY <2>1 DEF Uri2Addr, SetOpts, AddrFree, SdByAddr, Accept, ClientClose
    <3> QED BY <2>1, <3>1, ClientKeepsSockets
  <2>2. CASE UNCHANGED netVars
    BY <2>2 DEF netVars, SocketInv, NetTypes, Progress, NoDescriptorLeak, SocketsAreUp
  <2> QED BY <2>1, <2>2, CallKeepsSockets DEF NetNext
<1>3. SocketInv => SocketsSound
  BY DEF SocketInv, SocketsSound
<1> QED BY <1>1, <1>2, <1>3, PTL DEF NetSpec

-----------------------------------------------------------------------------
ClockTypes ==
  /\ clk \in [now : Int, tstart : Int, began : Int, copy : Int, handler : Int]
  /\ waited \in [here : Nat, all : Int, allowed : Int \cup {NoTimeout}, asked : Int \cup {NoTimeout}]
  /\ tmo \in Int \cup {NoTimeout}

\* What has been waited and what is left make up no more than was allowed;
\* select counts from a time that is not before tstart.
Ahead ==
  /\ pc \in {"select0", "select", "handler"} =>
       waited.allowed \in Int /\ (tmo >= 0 \/ waited.here = 0) /\ clk.tstart <= clk.now
  /\ pc = "select0" => waited.here + tmo <= waited.allowed
  /\ pc \in {"select", "handler"} =>
       /\ clk.tstart <= clk.began /\ clk.began <= clk.now
       /\ waited.here + tmo <= waited.allowed + (clk.now - clk.began)
  /\ pc = "select" => clk.copy = tmo /\ (clk.now - clk.began <= tmo \/ waited.here = 0)
  /\ pc = "handler" => waited.here <= waited.allowed \/ waited.here = 0

ClockInv == ClockTypes /\ (Timed => Ahead)

(* Steps that leave the clock alone and do not enter the wait.             *)
LEMMA OutsideWait ==
  ASSUME ClockInv, pc' \notin {"select0", "select", "handler"}, UNCHANGED <<tmo, clk, waited>>
  PROVE  ClockInv'
  BY DEF ClockInv, ClockTypes, Timed, Ahead

(* The end of one address is the start of the next, or of nothing.         *)
LEMMA NextKeepsClock ==
  ASSUME ClockInv, TryNext
  PROVE  ClockInv'
<1>1. CASE at < Len(na.addrs)
  BY <1>1, OutsideWait DEF TryNext
<1>2. CASE ~(at < Len(na.addrs))
  <2>1. Waited0 \in [here : Nat, all : Int, allowed : Int \cup {NoTimeout}, asked : Int \cup {NoTimeout}]
        /\ Clock0 \in [now : Int, tstart : Int, began : Int, copy : Int, handler : Int]
    BY DEF Waited0, Clock0
  <2> QED BY <1>2, <2>1 DEF TryNext, EndCall, ClockInv, ClockTypes, Timed
<1> QED BY <1>1, <1>2

(* One step per action that touches the clock, the rest together.          *)
LEMMA ClockKept ==
  ASSUME NoTimeout \notin Int, MaxTimeout \in Nat, ClockInv, [NetNext]_netVars
  PROVE  ClockInv'
<1> DEFINE Clocks == [now : Int, tstart : Int, began : Int, copy : Int, handler : Int]
           Waits == [here : Nat, all : Int, allowed : Int \cup {NoTimeout}, asked : Int \cup {NoTimeout}]
<1>0. /\ Timed => Ahead /\ tmo \in Int
      /\ clk \in Clocks /\ waited \in Waits /\ tmo \in Int \cup {NoTimeout}
  BY DEF ClockInv, ClockTypes, Timed
<1>1. ASSUME NEW t \in {NoTimeout} \cup 0..MaxTimeout, SdByAddr(t) PROVE ClockInv'
  <2>1. clk' \in Clocks /\ waited' \in Waits /\ tmo' \in Int \cup {NoTimeout}
    BY <1>1 DEF SdByAddr, Clock0, Waited0
  <2> QED BY <1>1, <2>1 DEF SdByAddr, ClockInv, ClockTypes, Ahead
<1>2. CASE SocketFails \/ Close
  BY <1>2, NextKeepsClock DEF SocketFails, Close
<1>3. CASE Return
  <2>1. clk' \in Clocks /\ waited' \in Waits /\ tmo' = NoTimeout
    BY <1>3 DEF Return, EndCall, Clock0, Waited0
  <2> QED BY <2>1 DEF ClockInv, ClockTypes, Timed
<1>4. CASE Connect
  <2>1. clk' \in Clocks /\ waited' \in Waits /\ tmo' = tmo
        /\ clk'.now = clk.now /\ clk'.tstart = clk.now /\ waited'.here = 0 /\ waited'.allowed = tmo
    BY <1>0, <1>4 DEF Connect
  <2>2. pc' \notin {"select", "handler"}
    BY <1>4 DEF Connect
  <2>3. ClockTypes'
    BY <1>0, <2>1 DEF ClockTypes
  <2>4. Timed' => Ahead'
    BY <1>0, <2>1, <2>2 DEF Timed, Ahead
  <2> QED BY <2>3, <2>4 DEF ClockInv
<1>5. CASE SelectEnter
  <2>1. /\ clk' \in Clocks /\ waited' = waited /\ tmo' = tmo /\ pc = "select0" /\ pc' = "select"
        /\ clk'.now = clk.now /\ clk'.tstart = clk.tstart /\ clk'.began = clk.now
        /\ (Timed => clk'.copy = tmo)
    <3> DEFINE c == IF Timed THEN tmo ELSE 0
    <3>1. clk' = [clk EXCEPT !.began = clk.now, !.copy = c]
      BY <1>5 DEF SelectEnter
    <3>4. c \in Int /\ (Timed => c = tmo)
      BY <1>0
    <3> HIDE DEF c
    <3>2. clk.now \in Int
      BY <1>0
    <3>3. waited' = waited /\ tmo' = tmo /\ pc = "select0" /\ pc' = "select"
      BY <1>5 DEF SelectEnter
    <3> QED BY <1>0, <3>1, <3>2, <3>3, <3>4
  <2>2. ClockTypes'
    BY <1>0, <2>1 DEF ClockTypes
  <2>3. Timed' => Ahead'
    BY <1>0, <2>1 DEF Timed, Ahead
  <2> QED BY <2>2, <2>3 DEF ClockInv
<1>6. CASE SelectInterrupted
  <2>1. /\ clk' \in Clocks /\ waited' = waited /\ tmo' = tmo /\ pc = "select" /\ pc' = "handler"
        /\ clk'.now = clk.now /\ clk'.tstart = clk.tstart /\ clk'.began = clk.began
    <3>1. clk' = [clk EXCEPT !.handler = 0]
      BY <1>6 DEF SelectInterrupted
    <3>2. clk' \in Clocks /\ clk'.now = clk.now /\ clk'.tstart = clk.tstart /\ clk'.began = clk.began
      BY <1>0, <3>1
    <3>3. waited' = waited /\ tmo' = tmo /\ pc = "select" /\ pc' = "handler"
      BY <1>6 DEF SelectInterrupted
    <3> QED BY <3>2, <3>3
  <2>2. ClockTypes'
    BY <1>0, <2>1 DEF ClockTypes
  <2>3. Timed' => Ahead'
    BY <1>0, <2>1 DEF Timed, Ahead
  <2> QED BY <2>2, <2>3 DEF ClockInv
<1>7. CASE UpdateTimeout
  <2>1. CASE Timed
    <3>1. /\ tmo' = tmo - (clk.now - clk.tstart) /\ waited' = waited /\ pc = "handler"
          /\ pc' = IF tmo' < 0 THEN "failed" ELSE "select0"
          /\ clk' \in Clocks /\ clk'.now = clk.now /\ clk'.tstart = clk.now
      BY <1>0, <1>7, <2>1 DEF UpdateTimeout
    <3>2. tmo' \in Int /\ clk.now \in Int /\ clk.tstart \in Int /\ clk.began \in Int /\ waited.here \in Nat
      BY <1>0, <2>1, <3>1
    <3>3. ClockTypes'
      BY <1>0, <3>1, <3>2 DEF ClockTypes
    <3>4. Ahead'
      BY <1>0, <2>1, <3>1, <3>2 DEF Ahead
    <3> QED BY <3>3, <3>4 DEF ClockInv
  <2>2. CASE ~Timed
    BY <1>7, <2>2 DEF UpdateTimeout, ClockInv, ClockTypes, Timed
  <2> QED BY <2>1, <2>2
<1>8. CASE Tick
  <2>0. Timed /\ tmo' = tmo /\ pc' = pc /\ tmo \in Int
    BY <1>0, <1>8 DEF Tick
  <2>1. CASE /\ pc = "select" /\ ~Expired
             /\ waited' = [waited EXCEPT !.here = @ + 1, !.all = @ + 1]
             /\ clk' = [clk EXCEPT !.now = @ + 1]
    <3>1. /\ clk' \in Clocks /\ clk'.now = clk.now + 1 /\ clk'.tstart = clk.tstart
          /\ clk'.began = clk.began /\ clk'.copy = clk.copy
      <4>1. clk' = [clk EXCEPT !.now = clk.now + 1]
        BY <2>1
      <4> QED BY <1>0, <4>1
    <3>2. waited' \in Waits /\ waited'.here = waited.here + 1 /\ waited'.allowed = waited.allowed
      <4>1. /\ waited' = [waited EXCEPT !.here = waited.here + 1, !.all = waited.all + 1]
            /\ waited.here + 1 \in Nat /\ waited.all + 1 \in Int
        BY <1>0, <2>1
      <4> QED BY <1>0, <4>1
    <3>3. clk.now - clk.began < clk.copy
      BY <1>0, <2>0, <2>1 DEF Expired
    <3>4. ClockTypes'
      BY <1>0, <2>0, <3>1, <3>2 DEF ClockTypes
    <3>5. clk.now \in Int /\ clk.began \in Int /\ clk.tstart \in Int /\ waited.here \in Nat
      BY <1>0
    <3>6. Ahead'
      BY <1>0, <2>0, <2>1, <3>1, <3>2, <3>3, <3>5 DEF Ahead
    <3> QED BY <3>4, <3>6 DEF ClockInv
  <2>2. CASE /\ pc = "handler"
             /\ clk' = [clk EXCEPT !.now = @ + 1, !.handler = @ + 1]
             /\ waited' = waited
    <3>1. /\ clk' \in Clocks /\ clk'.now = clk.now + 1 /\ clk'.tstart = clk.tstart
          /\ clk'.began = clk.began
      <4>1. /\ clk' = [clk EXCEPT !.now = clk.now + 1, !.handler = clk.handler + 1]
            /\ clk.now + 1 \in Int /\ clk.handler + 1 \in Int
        BY <1>0, <2>2
      <4> QED BY <1>0, <4>1
    <3>2. ClockTypes'
      BY <1>0, <2>0, <2>2, <3>1 DEF ClockTypes
    <3>3. clk.now \in Int /\ clk.began \in Int /\ clk.tstart \in Int /\ waited.here \in Nat
      BY <1>0
    <3>4. Ahead'
      BY <1>0, <2>0, <2>2, <3>1, <3>3 DEF Ahead
    <3> QED BY <3>2, <3>4 DEF ClockInv
  <2> QED BY <1>8, <2>1, <2>2 DEF Tick
<1>9. CASE \/ Socket \/ Options \/ OptionsFail \/ Bind \/ Listen \/ ConnectSetupFails
           \/ SelectReady \/ SelectTimesOut \/ SelectFails \/ ConnectFailed
  <2>1. pc' \notin {"select0", "select", "handler"} /\ UNCHANGED <<tmo, clk, waited>>
    BY <1>9 DEF Socket, Options, OptionsFail, Bind, Listen, ConnectSetupFails,
                SelectReady, SelectTimesOut, SelectFails, ConnectFailed
  <2> QED BY <2>1, OutsideWait
<1>10. CASE \/ \E s \in Schemes, m \in {"csock", "ssock"}, n \in 1..MaxAddrs : Uri2Addr(s, m, n)
            \/ \E o \in OptSets : SetOpts(o)
            \/ AddrFree \/ Accept \/ ClientClose
  <2>1. pc' = "idle" /\ UNCHANGED <<tmo, clk, waited>>
    BY <1>10 DEF Uri2Addr, SetOpts, AddrFree, Accept, ClientClose
  <2> QED BY <2>1, OutsideWait
<1>11. CASE UNCHANGED netVars
  BY <1>11 DEF netVars, ClockInv, ClockTypes, Timed, Ahead
<1> QED
  BY <1>1, <1>2, <1>3, <1>4, <1>5, <1>6, <1>7, <1>8, <1>9, <1>10, <1>11 DEF NetNext

(* However many signals interrupt select and however long their handlers   *)
(* run, u_connect_ex waits in select no longer than the timeout it was     *)
(* given (update_timeout).                                                 *)
THEOREM TimeoutKept ==
  ASSUME NoTimeout \notin Int, MaxTimeout \in Nat
  PROVE  NetSpec => []TimeoutPerAddress
<1>1. NetInit => ClockInv
  BY DEF NetInit, ClockInv, ClockTypes, Timed, Clock0, Waited0
<1>2. ClockInv /\ [NetNext]_netVars => ClockInv'
  BY ClockKept
<1>3. ClockInv => TimeoutPerAddress
  <2> SUFFICES ASSUME ClockInv, pc \in {"select", "handler"}, Timed
               PROVE  waited.here \in 0 .. waited.allowed \/ waited.here = 0
    BY DEF TimeoutPerAddress
  <2>1. tmo \in Int /\ waited.here \in Nat /\ waited.allowed \in Int /\ clk.now \in Int /\ clk.began \in Int
    BY DEF ClockInv, ClockTypes, Ahead, Timed
  <2>2. waited.here <= waited.allowed \/ waited.here = 0
    BY <2>1 DEF ClockInv, Ahead
  <2> QED BY <2>1, <2>2
<1> QED BY <1>1, <1>2, <1>3, PTL DEF NetSpec
-----------------------------------------------------------------------------
(* Buffers and strings.  The loops of u_string_append are functions that   *)
(* refer to themselves.                                                    *)
IsTwice(f, n, k) == f = [i \in 0..k |-> IF i = 0 THEN n ELSE 2 * f[i - 1]]
Enlarge(g, min) ==
  IF g.size > min THEN g
  ELSE [size |-> g.size + ShiftLeft(BlockSize, g.shift), shift |-> g.shift + 1]
IsNsz(f, s, min) ==
  f = [i \in 0..(min + 1) |-> IF i = 0 THEN [size |-> s.size, shift |-> s.shift] ELSE Enlarge(f[i - 1], min)]

(* ShiftLeft is one of these.                                              *)
LEMMA ShiftChosen ==
  ASSUME NEW n, NEW k
  PROVE  ShiftLeft(n, k) = (CHOOSE f : IsTwice(f, n, k))[k]
BY DEF ShiftLeft, IsTwice

(* So is Grow.                                                             *)
LEMMA GrowChosen ==
  ASSUME NEW s, NEW min
  PROVE  Grow(s, min) = (CHOOSE f : IsNsz(f, s, min))[min + 1]
BY DEF Grow, IsNsz, Enlarge

(* A number other than 0 stays so when it is shifted.                      *)
LEMMA ShiftIs ==
  ASSUME NEW n \in Nat \ {0}, NEW k \in Nat
  PROVE  ShiftLeft(n, k) \in Nat \ {0}
<1> DEFINE S == Nat \ {0}
<1>1. \E f : IsTwice(f, n, k)
  <2>1. PICK h : h = [x \in S |-> 2 * x]
    OBVIOUS
  <2>2. h \in [S -> S] /\ n \in S
    BY <2>1
  <2>3. PICK f \in [0..k -> S] : Iterated(f, n, h, k)
    <3> HIDE DEF S
    <3>1. QED
      BY <2>2, Iterates
  <2>4. ASSUME NEW i \in 0..k PROVE f[i] = IF i = 0 THEN n ELSE 2 * f[i - 1]
    <3>1. CASE i = 0
      BY <2>3, <3>1 DEF Iterated
    <3>2. CASE i # 0
      <4>1. i \in 1..k /\ i - 1 \in 0..k
        BY <3>2
      <4>2. f[i] = h[f[i - 1]] /\ f[i - 1] \in S
        BY <2>3, <4>1 DEF Iterated
      <4>3. QED
        BY <2>1, <3>2, <4>2
    <3>3. QED
      BY <3>1, <3>2
  <2>5. f = [i \in 0..k |-> IF i = 0 THEN n ELSE 2 * f[i - 1]]
    BY <2>3, <2>4
  <2>6. QED
    BY <2>5 DEF IsTwice
<1>2. ASSUME NEW f, IsTwice(f, n, k) PROVE f[k] \in S
  <2> DEFINE T == {i \in 0..k : f[i] \in S}
  <2>1. f[0] = n /\ \A i \in 1..k : f[i] = 2 * f[i - 1]
    BY <1>2 DEF IsTwice
  <2>2. 0 \in T
    BY <2>1
  <2>3. ASSUME NEW m \in 0..k, m \in T, m < k PROVE m + 1 \in T
    <3>1. m + 1 \in 1..k /\ (m + 1) - 1 = m
      BY <2>3
    <3>2. f[m + 1] = 2 * f[m]
      BY <2>1, <3>1
    <3>3. QED
      BY <2>3, <3>1, <3>2
  <2>4. \A m \in 0..k : m \in T
    <3> HIDE DEF T
    <3>1. QED
      BY <2>2, <2>3, Climb
  <2>5. QED
    BY <2>4
<1>3. QED
  BY <1>1, <1>2, ShiftChosen

(* The loop ends with a size above min.                                    *)
LEMMA GrowIs ==
  ASSUME BufAssumption, NEW s, s.size \in Nat, s.shift \in Nat, NEW min \in Nat
  PROVE  Grow(s, min).size \in Nat /\ Grow(s, min).size > min /\ Grow(s, min).shift \in Nat
<1> DEFINE S == [size : Nat, shift : Nat]
<1>1. ASSUME NEW g \in S
      PROVE  /\ Enlarge(g, min) \in S
             /\ Enlarge(g, min).size > min \/ Enlarge(g, min).size > g.size
  <2>1. ShiftLeft(BlockSize, g.shift) \in Nat \ {0}
    BY ShiftIs DEF BufAssumption
  <2>2. QED
    BY <2>1 DEF Enlarge
<1>2. PICK x \in S : x = [size |-> s.size, shift |-> s.shift]
  OBVIOUS
<1>3. min + 1 \in Nat
  OBVIOUS
<1>4. \E f : IsNsz(f, s, min)
  <2>1. PICK h : h = [g \in S |-> Enlarge(g, min)]
    OBVIOUS
  <2>2. h \in [S -> S]
    BY <1>1, <2>1
  <2>3. PICK f \in [0..(min + 1) -> S] : Iterated(f, x, h, min + 1)
    <3> HIDE DEF S
    <3>1. QED
      BY <1>2, <1>3, <2>2, Iterates
  <2> HIDE DEF S
  <2>4. ASSUME NEW i \in 0..(min + 1) PROVE f[i] = IF i = 0 THEN x ELSE Enlarge(f[i - 1], min)
    BY <2>1, <2>3 DEF Iterated
  <2>5. f = [i \in 0..(min + 1) |-> IF i = 0 THEN x ELSE Enlarge(f[i - 1], min)]
    BY <2>3, <2>4
  <2>6. QED
    BY <1>2, <2>5 DEF IsNsz
<1>5. ASSUME NEW f, IsNsz(f, s, min) PROVE f[min + 1] \in S /\ f[min + 1].size > min
  <2> DEFINE T == {i \in 0..(min + 1) : f[i] \in S /\ (f[i].size > min \/ f[i].size >= i)}
  <2>1. f[0] = x /\ \A i \in 1..(min + 1) : f[i] = Enlarge(f[i - 1], min)
    <3>1. f = [i \in 0..(min + 1) |-> IF i = 0 THEN x ELSE Enlarge(f[i - 1], min)]
      BY <1>2, <1>5, Zenon DEF IsNsz
    <3>2. \A i \in 0..(min + 1) : f[i] = IF i = 0 THEN x ELSE Enlarge(f[i - 1], min)
      BY <3>1, Zenon
    <3>3. 0 \in 0..(min + 1) /\ \A i \in 1..(min + 1) : i \in 0..(min + 1) /\ i # 0
      OBVIOUS
    <3>4. QED
      BY <3>2, <3>3, Zenon
  <2>2. 0 \in T
    BY <2>1
  <2>3. ASSUME NEW m \in 0..(min + 1), m \in T, m < min + 1 PROVE m + 1 \in T
    <3>1. m + 1 \in 1..(min + 1) /\ (m + 1) - 1 = m
      BY <2>3
    <3>2. PICK g \in S : g = f[m] /\ (g.size > min \/ g.size >= m)
      BY <2>3
    <3>3. f[m + 1] = Enlarge(g, min)
      BY <2>1, <3>1, <3>2
    <3>4. PICK e \in S : e = Enlarge(g, min) /\ (e.size > min \/ e.size > g.size)
      BY <1>1
    <3>5. e.size > min \/ e.size >= m + 1
      <4>1. CASE g.size > min
        BY <3>4, <4>1 DEF Enlarge
      <4>2. CASE g.size >= m
        BY <3>4, <4>2
      <4>3. QED
        BY <3>2, <4>1, <4>2
    <3>6. QED
      BY <3>1, <3>3, <3>4, <3>5
  <2>4. \A m \in 0..(min + 1) : m \in T
    <3> HIDE DEF T
    <3>1. QED
      BY <1>3, <2>2, <2>3, Climb
  <2>5. min + 1 \in T
    BY <2>4
  <2>6. QED
    BY <2>5
<1>6. Grow(s, min) \in S /\ Grow(s, min).size > min
  BY <1>4, <1>5, GrowChosen
<1>7. QED
  BY <1>6

\* A block of cells: how many there are, and what the first len of them hold.
Block(c, size, len) ==
  /\ size \in Nat /\ len \in Nat /\ len <= size
  /\ DOMAIN c = IF size = 0 THEN {} ELSE 0..size
  /\ \A i \in 0..(len - 1) : c[i] = Byte
  /\ size > 0 => c[size] = NUL

(* realloc to a larger block, terminated.                                  *)
LEMMA BlockReserved ==
  ASSUME NEW c, NEW size, NEW len, Block(c, size, len), NEW n \in Nat, n > size
  PROVE  LET r == Put(Realloc(c, n + 1), n, NUL)
         IN  Block(r, n, len) /\ r[len] = IF size > 0 THEN c[len] ELSE Unknown
<1>1. PICK r : r = Put(Realloc(c, n + 1), n, NUL)
  OBVIOUS
<1>2. size \in Nat /\ len \in Nat /\ len <= size /\ DOMAIN c = (IF size = 0 THEN {} ELSE 0..size)
      /\ \A i \in 0..(len - 1) : c[i] = Byte
  BY DEF Block
<1>3. PICK d : d = Realloc(c, n + 1)
  OBVIOUS
<1>4. DOMAIN d = 0..n /\ \A i \in 0..n : i \in DOMAIN c => d[i] = c[i]
  BY <1>3 DEF Realloc
<1>5. DOMAIN r = 0..n /\ r[n] = NUL /\ \A i \in 0..n : i # n => r[i] = d[i]
  BY <1>1, <1>3, <1>4 DEF Put
<1>6. ASSUME NEW i \in 0..(len - 1) PROVE r[i] = Byte
  BY <1>2, <1>4, <1>5
<1>7. r[len] = IF size > 0 THEN c[len] ELSE Unknown
  <2>1. CASE size > 0
    BY <1>2, <1>4, <1>5, <2>1
  <2>2. CASE ~(size > 0)
    <3>1. size = 0 /\ len = 0 /\ 0 \in 0..n /\ 0 # n /\ 0 \notin DOMAIN c
      BY <1>2, <2>2
    <3>2. d[0] = Unknown
      BY <1>3, <3>1 DEF Realloc
    <3>3. QED
      BY <1>5, <3>1, <3>2
  <2>3. QED
    BY <2>1, <2>2
<1>8. QED
  BY <1>1, <1>2, <1>5, <1>6, <1>7 DEF Block

(* n bytes copied behind the first len, or in their place, and a NUL.      *)
LEMMA BlockCopied ==
  ASSUME NEW c, NEW size, NEW len, Block(c, size, len), NEW n \in Nat, n > 0, len + n <= size
  PROVE  Block(Copy(c, len, n), size, len + n)
<1>1. PICK r : r = Copy(c, len, n)
  OBVIOUS
<1>2. size \in Nat /\ len \in Nat /\ size > 0 /\ DOMAIN c = 0..size
      /\ c[size] = NUL /\ \A i \in 0..(len - 1) : c[i] = Byte
  BY DEF Block
<1>3. DOMAIN r = 0..size /\ r[size] = NUL
  BY <1>1, <1>2 DEF Copy
<1>4. ASSUME NEW i \in 0..(len + n - 1) PROVE r[i] = Byte
  <2>1. i \in 0..size
    BY <1>2
  <2>2. CASE i < len
    BY <1>1, <1>2, <1>3, <2>1, <2>2 DEF Copy
  <2>3. CASE ~(i < len)
    BY <1>1, <1>2, <1>3, <2>1, <2>3 DEF Copy
  <2>4. QED
    BY <2>2, <2>3
<1>5. QED
  BY <1>1, <1>2, <1>3, <1>4 DEF Block

(* A NUL at k, not behind the first len.                                   *)
LEMMA BlockEnded ==
  ASSUME NEW c, NEW size, NEW len, Block(c, size, len), size > 0, NEW k \in 0..len
  PROVE  Block(Put(c, k, NUL), size, k) /\ Put(c, k, NUL)[k] = NUL
<1>1. PICK r : r = Put(c, k, NUL)
  OBVIOUS
<1>2. size \in Nat /\ len \in Nat /\ len <= size /\ DOMAIN c = 0..size
      /\ c[size] = NUL /\ \A i \in 0..(len - 1) : c[i] = Byte
  BY DEF Block
<1>3. DOMAIN r = 0..size /\ r[k] = NUL /\ \A i \in 0..size : i # k => r[i] = c[i]
  BY <1>1, <1>2 DEF Put
<1>4. ASSUME NEW i \in 0..(k - 1) PROVE r[i] = Byte
  BY <1>2, <1>3
<1>5. QED
  BY <1>1, <1>2, <1>3, <1>4 DEF Block

(* Less of it.                                                             *)
LEMMA BlockShrunk ==
  ASSUME NEW c, NEW size, NEW len, Block(c, size, len), NEW k \in Nat, k <= len
  PROVE  Block(c, size, k)
BY DEF Block

(* vsnprintf stays in the block, and if there is room the output is        *)
(* complete and terminated.                                                *)
LEMMA BlockPrinted ==
  ASSUME NEW c, NEW size, NEW len, Block(c, size, len), NEW n \in Nat
  PROVE  LET r == vsnprintf(c, len, size - len, n)
         IN  Block(r, size, len) /\ (n < size - len => Block(r, size, len + n) /\ r[len + n] = NUL)
<1>1. PICK r : r = vsnprintf(c, len, size - len, n)
  OBVIOUS
<1>2. size \in Nat /\ len \in Nat /\ len <= size
  BY DEF Block
<1>3. CASE size = len
  BY <1>1, <1>2, <1>3 DEF vsnprintf
<1>4. CASE size # len
  <2>1. PICK k \in Nat : k = Smaller(n, size - len - 1) /\ k <= n /\ len + k < size /\ (n < size - len => k = n)
    <3>1. PICK a \in Nat : a = size - len - 1 /\ len + a < size
      <4>1. size - len - 1 \in Nat /\ len + (size - len - 1) < size
        BY <1>2, <1>4
      <4>2. QED
        BY <4>1
    <3>2. n < size - len <=> n <= a
      BY <1>2, <3>1
    <3>3. CASE n < a
      BY <1>2, <3>1, <3>2, <3>3 DEF Smaller
    <3>4. CASE ~(n < a)
      BY <1>2, <3>1, <3>2, <3>4 DEF Smaller
    <3>5. QED
      BY <3>3, <3>4
  <2>2. r = Put(Copy(c, len, k), len + k, NUL)
    BY <1>1, <1>2, <1>4, <2>1 DEF vsnprintf
  <2>3. Block(Copy(c, len, k), size, len + k)
    <3>1. CASE k > 0
      BY <1>2, <2>1, <3>1, BlockCopied
    <3>2. CASE k = 0
      <4>1. DOMAIN c = 0..size /\ c[size] = NUL /\ \A i \in 0..(len - 1) : c[i] = Byte
        BY <1>2, <1>4 DEF Block
      <4>2. Copy(c, len, k) = [i \in 0..size |-> c[i]]
        <5>1. len..(len + k - 1) = {}
          BY <1>2, <3>2
        <5>2. QED
          BY <4>1, <5>1 DEF Copy
      <4>3. len + k = len
        BY <1>2, <3>2
      <4>4. QED
        BY <1>2, <1>4, <4>1, <4>2, <4>3 DEF Block
    <3>3. QED
      BY <2>1, <3>1, <3>2
  <2>4. Block(r, size, len + k) /\ r[len + k] = NUL
    <3>1. size > 0 /\ len + k \in 0..(len + k)
      BY <1>2, <2>1
    <3>2. QED
      BY <2>2, <2>3, <3>1, BlockEnded
  <2>5. Block(r, size, len)
    BY <1>2, <2>1, <2>4, BlockShrunk
  <2>6. QED
    BY <1>1, <2>1, <2>4, <2>5
<1>5. QED
  BY <1>3, <1>4

\* A buffer, or a string, that holds n bytes.
IsBuf(b, n) ==
  /\ b = [cells |-> b.cells, size |-> b.size, len |-> b.len]
  /\ b.len = n /\ Block(b.cells, b.size, n)
Terminated(c, n) == c[n] = NUL \/ (n = 0 /\ c[0] = Unknown)
IsStr(s, n) ==
  /\ s = [cells |-> s.cells, size |-> s.size, len |-> s.len, shift |-> s.shift]
  /\ s.len = n /\ Block(s.cells, s.size, n) /\ s.shift \in Nat
  /\ s.size > 0 => Terminated(s.cells, n)

(* A record of such a block is a buffer.                                   *)
LEMMA BufIs ==
  ASSUME NEW c, NEW z, NEW k, Block(c, z, k)
  PROVE  IsBuf([cells |-> c, size |-> z, len |-> k], k)
BY DEF IsBuf

(* With a shift count, and ended at its length, it is a string.            *)
LEMMA StrIs ==
  ASSUME NEW c, NEW z, NEW k, NEW h \in Nat, Block(c, z, k), z > 0 => Terminated(c, k)
  PROVE  IsStr([cells |-> c, size |-> z, len |-> k, shift |-> h], k)
BY DEF IsStr

(* u_buf_reserve.                                                          *)
LEMMA ReserveBuf ==
  ASSUME NEW b, NEW k, IsBuf(b, k), NEW n \in Nat
  PROVE  IsBuf(Reserve(b, n), k) /\ Reserve(b, n).size = IF n <= b.size THEN b.size ELSE n
<1>1. PICK c, z : z \in Nat /\ b = [cells |-> c, size |-> z, len |-> k] /\ Block(c, z, k)
  BY DEF IsBuf, Block
<1>2. CASE n <= z
  BY <1>1, <1>2 DEF Reserve
<1>3. CASE ~(n <= z)
  <2>1. PICK d : d = Put(Realloc(c, n + 1), n, NUL) /\ Block(d, n, k)
    BY <1>1, <1>3, BlockReserved
  <2>2. Reserve(b, n) = [cells |-> d, size |-> n, len |-> k]
    BY <1>1, <1>3, <2>1 DEF Reserve
  <2>3. QED
    BY <1>1, <1>3, <2>1, <2>2, BufIs
<1>4. QED
  BY <1>2, <1>3

(* u_string_reserve.                                                       *)
LEMMA ReserveStr ==
  ASSUME NEW s, NEW k, IsStr(s, k), NEW n \in Nat
  PROVE  IsStr(Reserve(s, n), k)
<1>1. PICK c, z, h : /\ z \in Nat /\ h \in Nat /\ s = [cells |-> c, size |-> z, len |-> k, shift |-> h]
                     /\ Block(c, z, k) /\ (z > 0 => Terminated(c, k))
  BY DEF IsStr, Block
<1>2. CASE n <= z
  BY <1>1, <1>2 DEF Reserve
<1>3. CASE ~(n <= z)
  <2>1. PICK d : /\ d = Put(Realloc(c, n + 1), n, NUL) /\ Block(d, n, k)
                 /\ d[k] = IF z > 0 THEN c[k] ELSE Unknown
    BY <1>1, <1>3, BlockReserved
  <2>2. Terminated(d, k)
    <3>1. CASE z > 0
      BY <1>1, <2>1, <3>1 DEF Terminated
    <3>2. CASE ~(z > 0)
      <4>1. k = 0
        BY <1>1, <3>2 DEF Block
      <4>2. QED
        BY <2>1, <3>2, <4>1 DEF Terminated
    <3>3. QED
      BY <3>1, <3>2
  <2>3. Reserve(s, n) = [cells |-> d, size |-> n, len |-> k, shift |-> h]
    BY <1>1, <1>3, <2>1 DEF Reserve
  <2>4. QED
    BY <1>1, <1>3, <2>1, <2>2, <2>3, StrIs
<1>4. QED
  BY <1>2, <1>3

(* u_buf_append.                                                           *)
LEMMA AppendBuf ==
  ASSUME NEW b, NEW k, IsBuf(b, k), NEW n \in Nat, n > 0
  PROVE  IsBuf(BufAppend(b, n), k + n)
<1>1. k \in Nat /\ b.size \in Nat /\ k <= b.size /\ b.len = k
  BY DEF IsBuf, Block
<1>2. PICK r : r = IF b.size - b.len < n THEN Reserve(b, b.size + b.len + 2 * n) ELSE b
  OBVIOUS
<1>3. IsBuf(r, k) /\ k + n <= r.size
  <2>1. b.size + b.len + 2 * n \in Nat
    BY <1>1
  <2>2. CASE b.size - b.len < n
    <3>1. IsBuf(r, k) /\ r.size = b.size + b.len + 2 * n
      <4>1. ~(b.size + b.len + 2 * n <= b.size)
        BY <1>1
      <4>2. QED
        BY <1>2, <2>1, <2>2, <4>1, ReserveBuf
    <3>2. QED
      BY <1>1, <3>1
  <2>3. CASE ~(b.size - b.len < n)
    BY <1>1, <1>2, <2>3
  <2>4. QED
    BY <2>2, <2>3
<1>4. PICK c, z : z \in Nat /\ r = [cells |-> c, size |-> z, len |-> k] /\ Block(c, z, k) /\ k + n <= z
  BY <1>3 DEF IsBuf, Block
<1>5. PICK d : d = Put(Copy(c, k, n), k + n, NUL) /\ Block(d, z, k + n)
  <2>1. Block(Copy(c, k, n), z, k + n) /\ z > 0 /\ k + n \in 0..(k + n)
    BY <1>1, <1>4, BlockCopied
  <2>2. QED
    BY <2>1, BlockEnded
<1>6. BufAppend(b, n) = [r EXCEPT !.cells = Put(Copy(r.cells, r.len, n), r.len + n, NUL), !.len = @ + n]
  BY <1>2 DEF BufAppend
<1>7. BufAppend(b, n) = [cells |-> d, size |-> z, len |-> k + n]
  BY <1>4, <1>5, <1>6
<1>8. QED
  BY <1>5, <1>7, BufIs

(* u_buf_clear and u_buf_shrink.                                           *)
LEMMA ShrinkBuf ==
  ASSUME NEW b, NEW k, IsBuf(b, k), NEW n \in Nat, n <= k
  PROVE  IsBuf(BufShrink(b, n), n)
<1>1. PICK c, z : z \in Nat /\ b = [cells |-> c, size |-> z, len |-> k] /\ Block(c, z, k)
  BY DEF IsBuf, Block
<1>2. Block(c, z, n)
  BY <1>1, BlockShrunk
<1>3. BufShrink(b, n) = [cells |-> c, size |-> z, len |-> n]
  BY <1>1 DEF BufShrink
<1>4. QED
  BY <1>2, <1>3, BufIs

(* u_buf_load.                                                             *)
LEMMA LoadBuf ==
  ASSUME NEW b, NEW k, IsBuf(b, k), NEW n \in Nat, n > 0
  PROVE  IsBuf(BufLoad(b, n, TRUE), n) /\ IsBuf(BufLoad(b, n, FALSE), 0)
<1>1. k \in Nat /\ b.size \in Nat
  BY DEF IsBuf, Block
<1>2. BufClear(b) = BufShrink(b, 0)
  BY DEF BufClear, BufShrink
<1>3. IsBuf(BufClear(b), 0)
  BY <1>1, <1>2, ShrinkBuf
<1>4. PICK r : r = Reserve(BufClear(b), n)
  OBVIOUS
<1>5. IsBuf(r, 0) /\ r.size >= n
  <2>1. PICK y \in Nat : y = BufClear(b).size
    BY <1>3 DEF IsBuf, Block
  <2>2. IsBuf(r, 0) /\ r.size = IF n <= y THEN y ELSE n
    BY <1>3, <1>4, <2>1, ReserveBuf
  <2>3. (IF n <= y THEN y ELSE n) >= n
    OBVIOUS
  <2>4. QED
    BY <2>2, <2>3
<1>6. PICK c, z : z \in Nat /\ r = [cells |-> c, size |-> z, len |-> 0] /\ Block(c, z, 0) /\ n <= z
  BY <1>5 DEF IsBuf, Block
<1>7. Block(Copy(c, 0, n), z, n)
  <2>1. Block(Copy(c, 0, n), z, 0 + n)
    BY <1>6, BlockCopied
  <2>2. QED
    BY <2>1
<1>8. BufLoad(b, n, TRUE) = [cells |-> Copy(c, 0, n), size |-> z, len |-> n]
  <2>1. BufLoad(b, n, TRUE) = [r EXCEPT !.cells = Copy(r.cells, 0, n), !.len = n]
    BY <1>4 DEF BufLoad
  <2>2. QED
    BY <1>6, <2>1
<1>9. BufLoad(b, n, FALSE) = r
  BY <1>4 DEF BufLoad
<1>10. QED
  BY <1>5, <1>7, <1>8, <1>9, BufIs

(* A round of the loop of u_buf_printf.                                    *)
LEMMA PrintBuf ==
  ASSUME BufAssumption, NEW b, NEW k, IsBuf(b, k), NEW n \in Nat, n > 0
  PROVE  /\ n >= b.size - b.len => IsBuf(PrintfAgain(b, n), k)
         /\ ~(n >= b.size - b.len) => IsBuf(PrintfDone(b, n), k + n)
<1>1. PICK c, z : z \in Nat /\ b = [cells |-> c, size |-> z, len |-> k] /\ Block(c, z, k)
  BY DEF IsBuf, Block
<1>2. k \in Nat /\ k <= z
  BY <1>1 DEF Block
<1>3. PICK d : d = vsnprintf(c, k, z - k, n)
  OBVIOUS
<1>4. Block(d, z, k) /\ (n < z - k => Block(d, z, k + n) /\ d[k + n] = NUL)
  BY <1>1, <1>3, BlockPrinted
<1>5. ASSUME n >= z - k PROVE IsBuf(PrintfAgain(b, n), k)
  <2>1. PICK w : w = [cells |-> d, size |-> z, len |-> k] /\ IsBuf(w, k)
    BY <1>4, BufIs
  <2>2. PICK m \in Nat : m = w.len + Smaller(PrintfGrow, n + 1) /\ m > k
    <3>1. Smaller(PrintfGrow, n + 1) \in Nat \ {0}
      BY DEF BufAssumption, Smaller
    <3>2. QED
      BY <1>2, <2>1, <3>1
  <2>3. PICK r : r = Reserve(w, m) /\ IsBuf(r, k) /\ r.size > 0
    <3>1. IsBuf(Reserve(w, m), k) /\ Reserve(w, m).size = IF m <= w.size THEN w.size ELSE m
      BY <2>1, ReserveBuf
    <3>2. w.size = z /\ (IF m <= z THEN z ELSE m) > 0
      BY <1>1, <1>2, <2>1, <2>2
    <3>3. QED
      BY <3>1, <3>2
  <2>4. PICK e, y : y \in Nat /\ r = [cells |-> e, size |-> y, len |-> k] /\ Block(e, y, k) /\ y > 0
    BY <2>3 DEF IsBuf, Block
  <2>5. Block(Put(e, k, NUL), y, k)
    <3>1. k \in 0..k
      BY <1>2
    <3>2. QED
      BY <2>4, <3>1, BlockEnded
  <2>6. w = [b EXCEPT !.cells = vsnprintf(b.cells, b.len, b.size - b.len, n)]
    BY <1>1, <1>3, <2>1
  <2>7. PrintfAgain(b, n) = [r EXCEPT !.cells = Put(r.cells, r.len, NUL)]
    BY <2>2, <2>3, <2>6 DEF PrintfAgain
  <2>8. PrintfAgain(b, n) = [cells |-> Put(e, k, NUL), size |-> y, len |-> k]
    BY <2>4, <2>7
  <2>9. QED
    BY <2>5, <2>8, BufIs
<1>6. ASSUME ~(n >= z - k) PROVE IsBuf(PrintfDone(b, n), k + n)
  <2>1. Block(d, z, k + n)
    <3>1. n < z - k
      BY <1>1, <1>2, <1>6
    <3>2. QED
      BY <1>4, <3>1
  <2>2. PrintfDone(b, n) = [cells |-> d, size |-> z, len |-> k + n]
    <3>1. d = vsnprintf(b.cells, b.len, b.size - b.len, n)
      BY <1>1, <1>3
    <3>2. PrintfDone(b, n) = [b EXCEPT !.cells = d, !.len = @ + n]
      BY <3>1, Zenon DEF PrintfDone
    <3>3. QED
      BY <1>1, <3>2
  <2>3. QED
    BY <2>1, <2>2, BufIs
<1>7. QED
  BY <1>1, <1>5, <1>6

(* u_string_append of something.                                           *)
LEMMA AppendStr ==
  ASSUME BufAssumption, NEW s, NEW k, IsStr(s, k), NEW n \in Nat
  PROVE  IsStr(StringAppend(s, n), k + n)
<1>1. PICK c, z, h : /\ z \in Nat /\ h \in Nat /\ s = [cells |-> c, size |-> z, len |-> k, shift |-> h]
                     /\ Block(c, z, k)
  BY DEF IsStr, Block
<1>2. k \in Nat /\ k <= z
  BY <1>1 DEF Block
<1>3. CASE n = 0
  BY <1>2, <1>3 DEF StringAppend
<1>4. CASE n # 0
  <2>1. PICK g : g = Grow(s, k + n + 1) /\ g.size \in Nat /\ g.size > k + n + 1 /\ g.shift \in Nat
    <3>1. s.size \in Nat /\ s.shift \in Nat /\ k + n + 1 \in Nat
      BY <1>1, <1>2
    <3>2. QED
      BY <3>1, GrowIs
  <2>2. PICK r : r = IF NeedsRoom(s, n) THEN [Reserve(s, g.size) EXCEPT !.shift = g.shift] ELSE s
    OBVIOUS
  <2>3. PICK d, y, m : /\ y \in Nat /\ m \in Nat /\ r = [cells |-> d, size |-> y, len |-> k, shift |-> m]
                       /\ Block(d, y, k) /\ k + n + 1 <= y
    <3>1. CASE NeedsRoom(s, n)
      <4>1. z < g.size
        BY <1>1, <1>2, <2>1, <3>1 DEF NeedsRoom
      <4>2. PICK e : e = Put(Realloc(c, g.size + 1), g.size, NUL) /\ Block(e, g.size, k)
        BY <1>1, <2>1, <4>1, BlockReserved
      <4>3. PICK x \in Nat : x = g.size
        BY <2>1
      <4>4. Reserve(s, x) = [cells |-> e, size |-> x, len |-> k, shift |-> h]
        <5>1. ~(x <= s.size)
          BY <1>1, <4>1, <4>3
        <5>2. Reserve(s, x) = [s EXCEPT !.cells = Put(Realloc(s.cells, x + 1), x, NUL), !.size = x]
          BY <5>1, Zenon DEF Reserve
        <5>3. e = Put(Realloc(s.cells, x + 1), x, NUL)
          BY <1>1, <4>2, <4>3
        <5>4. QED
          BY <1>1, <5>2, <5>3
      <4>5. r = [cells |-> e, size |-> x, len |-> k, shift |-> g.shift]
        <5>1. r = [Reserve(s, x) EXCEPT !.shift = g.shift]
          BY <2>2, <3>1, <4>3
        <5>2. QED
          BY <4>4, <5>1
      <4>6. k + n + 1 <= x
        BY <1>2, <2>1, <4>3
      <4>7. QED
        BY <2>1, <4>2, <4>3, <4>5, <4>6
    <3>2. CASE ~NeedsRoom(s, n)
      <4>1. k + n + 1 <= z
        BY <1>1, <1>2, <3>2 DEF NeedsRoom
      <4>2. QED
        BY <1>1, <2>2, <3>2, <4>1
    <3>3. QED
      BY <3>1, <3>2
  <2>4. PICK f : f = Put(Copy(d, k, n), k + n, NUL) /\ Block(f, y, k + n) /\ f[k + n] = NUL
    <3>1. Block(Copy(d, k, n), y, k + n)
      BY <1>2, <1>4, <2>3, BlockCopied
    <3>2. y > 0 /\ k + n \in 0..(k + n)
      BY <1>2, <2>3
    <3>3. QED
      BY <3>1, <3>2, BlockEnded
  <2>5. s.len = k
    BY <1>1
  <2>6. StringAppend(s, n) = [r EXCEPT !.cells = Put(Copy(r.cells, r.len, n), r.len + n, NUL), !.len = @ + n]
    BY <1>4, <2>1, <2>2, <2>5 DEF StringAppend
  <2>7. StringAppend(s, n) = [cells |-> f, size |-> y, len |-> k + n, shift |-> m]
    BY <2>3, <2>4, <2>6
  <2>8. QED
    BY <2>3, <2>4, <2>7, StrIs DEF Terminated
<1>5. QED
  BY <1>3, <1>4

\* A string that ends at n: what u_trim, u_string_clear and
\* u_string_set_length leave.
Ended(s, n) == [s EXCEPT !.cells = Put(s.cells, n, NUL), !.len = n]

(* It is a string if it was one that is not shorter.                       *)
LEMMA EndStr ==
  ASSUME NEW s, NEW k, IsStr(s, k), NEW n \in Nat, n <= k, s.size > 0
  PROVE  IsStr(Ended(s, n), n)
<1>1. PICK c, z, h : /\ z \in Nat /\ h \in Nat /\ s = [cells |-> c, size |-> z, len |-> k, shift |-> h]
                     /\ Block(c, z, k) /\ z > 0
  BY DEF IsStr, Block
<1>2. Block(Put(c, n, NUL), z, n) /\ Put(c, n, NUL)[n] = NUL
  <2>1. n \in 0..k
    BY <1>1 DEF Block
  <2>2. QED
    BY <1>1, <2>1, BlockEnded
<1>3. Ended(s, n) = [cells |-> Put(c, n, NUL), size |-> z, len |-> n, shift |-> h]
  <2>1. PICK x : x = Put(c, n, NUL)
    OBVIOUS
  <2>2. Ended(s, n) = [s EXCEPT !.cells = x, !.len = n]
    BY <1>1, <2>1 DEF Ended
  <2>3. QED
    BY <1>1, <2>1, <2>2
<1>4. QED
  BY <1>1, <1>2, <1>3, StrIs DEF Terminated

(* u_string_clear.                                                         *)
LEMMA ClearStr ==
  ASSUME NEW s, NEW k, IsStr(s, k)
  PROVE  IsStr(StringClear(s), 0)
<1>1. k \in Nat /\ s.size \in Nat /\ k <= s.size
  BY DEF IsStr, Block
<1>2. CASE s.size = 0
  <2>1. k = 0 /\ StringClear(s) = s
    BY <1>1, <1>2 DEF StringClear
  <2>2. QED
    BY <2>1
<1>3. CASE s.size # 0
  <2>1. StringClear(s) = Ended(s, 0) /\ s.size > 0
    BY <1>1, <1>3 DEF StringClear, Ended
  <2>2. QED
    BY <1>1, <2>1, EndStr
<1>4. QED
  BY <1>2, <1>3

(* u_trim and u_string_set_length.                                         *)
LEMMA CutStr ==
  ASSUME NEW s, NEW k, IsStr(s, k), NEW n \in Nat, n <= k
  PROVE  IsStr(StringTrim(s, n), n) /\ IsStr(StringSetLength(s, n), n)
<1>1. k \in Nat /\ s.size \in Nat /\ k <= s.size /\ s.len = k
  BY DEF IsStr, Block
<1>2. IsStr(StringTrim(s, n), n)
  <2>1. CASE k = 0
    <3>1. n = 0 /\ StringTrim(s, n) = s
      BY <1>1, <2>1 DEF StringTrim
    <3>2. QED
      BY <2>1, <3>1
  <2>2. CASE k # 0
    <3>1. StringTrim(s, n) = Ended(s, n) /\ s.size > 0
      BY <1>1, <2>2 DEF StringTrim, Ended
    <3>2. QED
      BY <3>1, EndStr
  <2>3. QED
    BY <2>1, <2>2
<1>3. IsStr(StringSetLength(s, n), n)
  <2>1. CASE n < k
    <3>1. StringSetLength(s, n) = Ended(s, n) /\ s.size > 0
      BY <1>1, <2>1 DEF StringSetLength, Ended
    <3>2. QED
      BY <3>1, EndStr
  <2>2. CASE ~(n < k)
    <3>1. n = k /\ StringSetLength(s, n) = s
      BY <1>1, <2>2 DEF StringSetLength
    <3>2. QED
      BY <3>1
  <2>3. QED
    BY <2>1, <2>2
<1>4. QED
  BY <1>2, <1>3

(* u_string_do_vprintf behind what the string holds.                       *)
LEMMA PrintStr ==
  ASSUME NEW s, NEW k, IsStr(s, k), NEW n \in Nat
  PROVE  IsStr(Printed(s, n), k + n)
<1>1. PICK c, z, h : /\ z \in Nat /\ h \in Nat /\ s = [cells |-> c, size |-> z, len |-> k, shift |-> h]
                     /\ Block(c, z, k)
  BY DEF IsStr, Block
<1>2. k \in Nat /\ k <= z
  BY <1>1 DEF Block
<1>3. PICK d : d = vsnprintf(c, k, z - k, n)
  OBVIOUS
<1>4. Block(d, z, k) /\ (n < z - k => Block(d, z, k + n) /\ d[k + n] = NUL)
  BY <1>1, <1>3, BlockPrinted
<1>5. PICK w : w = [s EXCEPT !.cells = vsnprintf(s.cells, s.len, s.size - s.len, n)]
  OBVIOUS
<1>6. w = [cells |-> d, size |-> z, len |-> k, shift |-> h]
  BY <1>1, <1>3, <1>5
<1>7. CASE n < z - k
  <2>1. Printed(s, n) = [w EXCEPT !.len = @ + n]
    <3>1. n < s.size - s.len
      BY <1>1, <1>7
    <3>2. QED
      BY <1>5, <3>1, Zenon DEF Printed
  <2>2. Printed(s, n) = [cells |-> d, size |-> z, len |-> k + n, shift |-> h]
    BY <1>6, <2>1
  <2>3. QED
    BY <1>1, <1>4, <1>7, <2>2, StrIs DEF Terminated
<1>8. CASE ~(n < z - k)
  <2>1. PICK y \in Nat : y = z + k + 2 * n + 1 /\ y > z /\ n < y - k
    <3>1. z + k + 2 * n + 1 \in Nat /\ z + k + 2 * n + 1 > z /\ n < (z + k + 2 * n + 1) - k
      BY <1>1, <1>2
    <3>2. QED
      BY <3>1
  <2>2. PICK e : e = Put(Realloc(d, y + 1), y, NUL) /\ Block(e, y, k)
    BY <1>1, <1>4, <2>1, BlockReserved
  <2>3. PICK r : r = Reserve(w, w.size + w.len + 2 * n + 1)
    OBVIOUS
  <2>4. r = [cells |-> e, size |-> y, len |-> k, shift |-> h]
    <3>1. w.size + w.len + 2 * n + 1 = y /\ ~(y <= w.size)
      BY <1>1, <1>2, <1>6, <2>1
    <3>2. r = [w EXCEPT !.cells = Put(Realloc(w.cells, y + 1), y, NUL), !.size = y]
      BY <2>3, <3>1 DEF Reserve
    <3>3. QED
      BY <1>6, <2>2, <3>2
  <2>5. PICK a : a = Put(e, k, NUL) /\ Block(a, y, k)
    <3>1. y > 0 /\ k \in 0..k
      BY <1>2, <2>1
    <3>2. QED
      BY <2>2, <3>1, BlockEnded
  <2>6. PICK t : t = [r EXCEPT !.cells = Put(r.cells, r.len, NUL)]
    OBVIOUS
  <2>7. t = [cells |-> a, size |-> y, len |-> k, shift |-> h]
    BY <2>4, <2>5, <2>6
  <2>8. PICK f : f = vsnprintf(a, k, y - k, n) /\ Block(f, y, k + n) /\ f[k + n] = NUL
    BY <2>1, <2>5, BlockPrinted
  <2>9. Printed(s, n) = [t EXCEPT !.cells = vsnprintf(t.cells, t.len, t.size - t.len, n), !.len = @ + n]
    <3>1. ~(n < s.size - s.len)
      BY <1>1, <1>8
    <3>2. QED
      BY <1>5, <2>3, <2>6, <3>1, Zenon DEF Printed
  <2>10. Printed(s, n) = [cells |-> f, size |-> y, len |-> k + n, shift |-> h]
    BY <2>7, <2>8, <2>9
  <2>11. QED
    BY <1>1, <2>8, <2>10, StrIs DEF Terminated
<1>9. QED
  BY <1>7, <1>8

-----------------------------------------------------------------------------
\* The inductive invariant: both are blocks that hold what they should.
TextInv == IsBuf(ubuf, bwant) /\ print \in Nat /\ IsStr(str, swant)

(* Nothing is allocated at the start, or once released.                    *)
LEMMA NothingHeld == IsBuf(BufCreate, 0) /\ IsStr(StringCreate, 0)
<1>1. Block(NoCells, 0, 0)
  BY DEF Block, NoCells
<1>2. QED
  BY <1>1, BufIs, StrIs DEF BufCreate, StringCreate

(* u_buf_set, _reserve, _append, _load, _shrink, _clear, _detach, _free.   *)
LEMMA BufCallsKeep ==
  ASSUME BufAssumption, TextInv, BufCalls
  PROVE  TextInv'
<1>1. IsBuf(ubuf, bwant) /\ ubuf.len = bwant /\ bwant \in Nat /\ Outputs \subseteq Nat
  BY DEF TextInv, IsBuf, Block, BufAssumption
<1> DEFINE Does(b, n) == OnBuf(b, n) /\ IsBuf(b, n)
<1>2. ASSUME NEW b, NEW n, Does(b, n) PROVE TextInv'
  BY <1>2 DEF OnBuf, TextInv
<1>3. \A b : BufClear(b) = BufShrink(b, 0)
  BY DEF BufClear, BufShrink
<1>4. IsBuf(BufClear(ubuf), 0)
  BY <1>1, <1>3, ShrinkBuf
<1>5. ASSUME NEW n \in Outputs, n > 0, OnBuf(BufAppend(ubuf, n), bwant + n)
      PROVE  \E b, k : Does(b, k)
  BY <1>1, <1>5, AppendBuf
<1>6. ASSUME NEW n \in Outputs, n > 0, OnBuf(BufSet(ubuf, n), n)
      PROVE  \E b, k : Does(b, k)
  <2>1. IsBuf(BufSet(ubuf, n), 0 + n)
    BY <1>1, <1>4, <1>6, AppendBuf DEF BufSet
  <2>2. 0 + n = n
    BY <1>1
  <2>3. QED
    BY <1>6, <2>1, <2>2
<1>7. ASSUME NEW n \in Outputs, OnBuf(Reserve(ubuf, n), bwant)
      PROVE  \E b, k : Does(b, k)
  BY <1>1, <1>7, ReserveBuf
<1>8. ASSUME NEW n \in Outputs, n > 0,
             OnBuf(BufLoad(ubuf, n, TRUE), n) \/ OnBuf(BufLoad(ubuf, n, FALSE), 0)
      PROVE  \E b, k : Does(b, k)
  BY <1>1, <1>8, LoadBuf
<1>9. ASSUME NEW n \in 0..ubuf.len, OnBuf(BufShrink(ubuf, n), n)
      PROVE  \E b, k : Does(b, k)
  BY <1>1, <1>9, ShrinkBuf
<1>10. ASSUME OnBuf(BufClear(ubuf), 0) PROVE \E b, k : Does(b, k)
  BY <1>4, <1>10
<1>11. ASSUME OnBuf(BufDetach, 0) \/ OnBuf(BufFree, 0) PROVE \E b, k : Does(b, k)
  BY <1>11, NothingHeld DEF BufDetach, BufFree
<1>12. \E b, k : Does(b, k)
  <2> HIDE DEF Does
  <2>1. QED
    BY <1>5, <1>6, <1>7, <1>8, <1>9, <1>10, <1>11 DEF BufCalls
<1>13. QED
  <2> HIDE DEF Does
  <2>1. QED
    BY <1>2, <1>12

(* u_buf_printf: a call, and a round of its loop.                          *)
LEMMA BufPrintfKeeps ==
  ASSUME BufAssumption, TextInv, NEW n \in Outputs, BufPrintf(n)
  PROVE  TextInv'
BY DEF BufPrintf, TextInv, BufAssumption

LEMMA BufPrintfRoundKeeps ==
  ASSUME BufAssumption, TextInv, BufPrintfRound
  PROVE  TextInv'
<1>1. IsBuf(ubuf, bwant) /\ print \in Nat /\ print > 0 /\ IsStr(str, swant)' /\ bwant + 0 = bwant
  BY DEF TextInv, BufPrintfRound, IsBuf, Block
<1>2. CASE print >= ubuf.size - ubuf.len
  <2>1. ubuf' = PrintfAgain(ubuf, print) /\ bwant' = bwant /\ print' = print
    BY <1>2 DEF BufPrintfRound
  <2>2. IsBuf(ubuf', bwant')
    BY <1>1, <1>2, <2>1, PrintBuf
  <2>3. QED
    BY <1>1, <2>1, <2>2 DEF TextInv
<1>3. CASE ~(print >= ubuf.size - ubuf.len)
  <2>1. ubuf' = PrintfDone(ubuf, print) /\ bwant' = bwant + print /\ print' = 0
    BY <1>3 DEF BufPrintfRound
  <2>2. IsBuf(ubuf', bwant')
    BY <1>1, <1>3, <2>1, PrintBuf
  <2>3. QED
    BY <1>1, <2>1, <2>2 DEF TextInv
<1>4. QED
  BY <1>2, <1>3

(* The calls on the string.                                                *)
LEMMA StrNextKeeps ==
  ASSUME BufAssumption, TextInv, StrNext
  PROVE  TextInv'
<1>1. /\ IsStr(str, swant) /\ str.len = swant /\ swant \in Nat
      /\ Outputs \subseteq Nat /\ MaxBufLen \in Nat
  BY DEF TextInv, IsStr, Block, BufAssumption
<1> DEFINE Does(s, n) == OnStr(s, n) /\ IsStr(s, n)
<1>2. ASSUME NEW s, NEW n, Does(s, n) PROVE TextInv'
  BY <1>2 DEF OnStr, TextInv
<1>3. IsStr(StringClear(str), 0)
  BY <1>1, ClearStr
<1>4. ASSUME NEW n \in Outputs PROVE 0 + n = n /\ n \in Nat /\ MaxBufLen + n \in Nat
  BY <1>1
<1>5. ASSUME NEW n \in Outputs,
             \/ OnStr(StringAppend(str, n), swant + n)
             \/ OnStr(StringVprintf(str, FALSE, n), swant + n)
      PROVE  \E s, k : Does(s, k)
  <2>1. IsStr(StringAppend(str, n), swant + n)
    BY <1>1, <1>4, AppendStr
  <2>2. StringVprintf(str, FALSE, n) = Printed(str, n)
    BY DEF StringVprintf
  <2>3. IsStr(StringVprintf(str, FALSE, n), swant + n)
    BY <1>1, <1>4, <2>2, PrintStr
  <2>4. QED
    BY <1>5, <2>1, <2>3
<1>6. ASSUME NEW n \in Outputs, OnStr(StringVprintf(str, TRUE, n), n)
      PROVE  \E s, k : Does(s, k)
  <2>1. StringVprintf(str, TRUE, n) = Printed(StringClear(str), n)
    BY DEF StringVprintf
  <2>2. IsStr(StringVprintf(str, TRUE, n), 0 + n)
    BY <1>3, <1>4, <2>1, PrintStr
  <2>3. QED
    BY <1>4, <1>6, <2>2
<1>7. ASSUME NEW n \in Outputs, OnStr(StringSet(str, n), n) \/ OnStr(StringCopy(str, n), n)
      PROVE  \E s, k : Does(s, k)
  <2>1. IsStr(StringAppend(StringClear(str), n), 0 + n)
    BY <1>3, <1>4, AppendStr
  <2>2. QED
    BY <1>4, <1>7, <2>1 DEF StringSet, StringCopy
<1>8. ASSUME NEW n \in Outputs,
             OnStr(Reserve(str, n), swant) \/ OnStr(Reserve(str, MaxBufLen + n), swant)
      PROVE  \E s, k : Does(s, k)
  BY <1>1, <1>4, <1>8, ReserveStr
<1>9. ASSUME NEW n \in 0..str.len, OnStr(StringTrim(str, n), n) \/ OnStr(StringSetLength(str, n), n)
      PROVE  \E s, k : Does(s, k)
  BY <1>1, <1>9, CutStr
<1>10. ASSUME OnStr(StringClear(str), 0) \/ OnStr(StringFree, 0)
       PROVE  \E s, k : Does(s, k)
  BY <1>3, <1>10, NothingHeld DEF StringFree
<1>11. \E s, k : Does(s, k)
  <2> HIDE DEF Does
  <2>1. QED
    BY <1>5, <1>6, <1>7, <1>8, <1>9, <1>10 DEF StrNext
<1>12. QED
  <2> HIDE DEF Does
  <2>1. QED
    BY <1>2, <1>11

(* The invariant is what TextHeld asks for.                                *)
LEMMA InvHolds ==
  ASSUME TextInv
  PROVE  TextHeld
BY DEF TextInv, TextHeld, BufHolds, StrHolds, ReservedOnly, Holds, IsBuf, IsStr, Terminated, Block

(* Whatever is appended, printed, loaded, reserved and cut, a u_buf_t and  *)
(* a u_string_t hold what was asked for in a block that is large enough    *)
(* and ends with a NUL, and a string that was given anything is terminated *)
(* at its length: u_buf_append, u_buf_printf, u_string_append and          *)
(* u_string_do_vprintf never write past the end.                           *)
THEOREM TextIsHeld ==
  ASSUME BufAssumption
  PROVE  BufSpec => []TextHeld
<1>1. BufInit => TextInv
  BY NothingHeld DEF BufInit, TextInv
<1>2. TextInv /\ [BufNext \/ StrNext]_bufVars => TextInv'
  <2> SUFFICES ASSUME TextInv, [BufNext \/ StrNext]_bufVars PROVE TextInv'
    OBVIOUS
  <2>1. CASE UNCHANGED bufVars
    BY <2>1 DEF bufVars, TextInv
  <2>2. QED
    BY <2>1, BufCallsKeep, BufPrintfKeeps, BufPrintfRoundKeeps, StrNextKeeps DEF BufNext
<1>3. TextInv => TextHeld
  BY InvHolds
<1>4. QED
  BY <1>1, <1>2, <1>3, PTL DEF BufSpec
=============================================================================
