--------------------------------- MODULE Pwd ---------------------------------
(***************************************************************************)
(* The password database of srcs/toolbox/pwd.c over a file that other      *)
(* programs replace: u_pwd_auth_user with the records in the file or in    *)
(* memory, and the reloading of the latter.  A line is [user, pass], where *)
(* the password may be missing, or Comment.                                *)
(***************************************************************************)
EXTENDS Integers, Sequences, FiniteSetsExt

CONSTANTS
  Users, Passwords,
  Contents,    \* what the file may hold, as sequences of lines
  Candidates,  \* [user, pass] presented to u_pwd_auth_user
  Comment, NoPass, NoRecord,
  MaxChanges,  \* replacements of the file
  MaxFailures  \* calls of fopen and stat that fail

PwdAssumption ==
  /\ Contents \subseteq Seq([user : Users, pass : Passwords \cup {NoPass}] \cup {Comment})
  /\ Candidates \subseteq [user : Users, pass : Passwords]
  /\ NoPass \notin Passwords /\ NoRecord \notin Passwords

VARIABLES
  pwFile,     \* [lines, ctime]; the lines are never the same twice running
  pwd,        \* [in_memory, db, last_mod]: the u_pwd_t
  handle,     \* res_handler: the lines that remain in the file that is open
  pwCall,     \* [pc, who, rc, sure, blind]: the call in progress; not sure if
              \* two files of the same second came before it looked at the
              \* time, blind if it could not look
  during,     \* what the file held since the call began
  dull,       \* the file has the ctime of the one before
  loaded,     \* what the last load that was completed put into memory
  broken,     \* the last opening failed
  twice,      \* a record was freed twice
  pwSpent     \* [changes, failures] so far
pwdVars == <<pwFile, pwd, handle, pwCall, during, dull, loaded, broken, twice, pwSpent>>

Nobody == [user |-> NoRecord, pass |-> NoRecord]
IsRecord(l) == l # Comment /\ l.pass # NoPass
LinesOf(lines, user) == {i \in DOMAIN lines : lines[i] # Comment /\ lines[i].user = user}

\* u_pwd_db_load passes over comments and over lines of one field, and the
\* map keeps the first record of a user.
DbLoad(lines) ==
  [u \in {lines[i].user : i \in {j \in DOMAIN lines : IsRecord(lines[j])}} |->
     lines[Min({i \in LinesOf(lines, u) : IsRecord(lines[i])})].pass]

\* u_pwd_retr_res stops at the first line of the user, whatever is on it.
RetrRes(lines, user) ==
  LET at == LinesOf(lines, user)
  IN  IF at = {} \/ lines[Min(at)].pass = NoPass THEN NoRecord ELSE lines[Min(at)].pass

\* The map frees the second record of a user and says that there is one; the
\* caller of u_pwd_db_push frees it again.
DbPushTwice(lines) ==
  \E i, j \in DOMAIN lines : i < j /\ IsRecord(lines[i]) /\ IsRecord(lines[j]) /\ lines[i].user = lines[j].user

RetrMem(db, user) == IF user \in DOMAIN db THEN db[user] ELSE NoRecord

-----------------------------------------------------------------------------
PwdInit ==
  /\ pwFile \in [lines : Contents, ctime : {1}]
  /\ pwd \in [in_memory : BOOLEAN, db : {<<>>}, last_mod : {0}]
  /\ handle = <<>>
  /\ pwCall = [pc |-> "idle", who |-> Nobody, rc |-> 0, sure |-> TRUE, blind |-> FALSE]
  /\ during = {} /\ dull = FALSE /\ loaded = <<>> /\ broken = FALSE /\ twice = FALSE
  /\ pwSpent = [changes |-> 0, failures |-> 0]

\* Another program puts a new file in the place of the old one.
Replace ==
  /\ pwSpent.changes < MaxChanges
  /\ pwSpent' = [pwSpent EXCEPT !.changes = @ + 1]
  /\ \E c \in Contents \ {pwFile.lines}, t \in {pwFile.ctime, pwFile.ctime + 1} :
       /\ pwFile' = [lines |-> c, ctime |-> t]
       /\ during' = IF pwCall.pc \in {"idle", "done"} THEN during ELSE during \cup {c}
       /\ dull' = (t = pwFile.ctime)
  /\ UNCHANGED <<pwd, handle, pwCall, loaded, broken, twice>>

Verdict(pass) == [pwCall EXCEPT !.pc = "done", !.rc = IF pass # NoRecord /\ pass = pwCall.who.pass THEN 0 ELSE -1]

PwdAuthUser ==
  /\ pwCall.pc = "idle"
  /\ \E w \in Candidates :
       pwCall' = [pc |-> IF pwd.in_memory THEN "notify" ELSE "open", who |-> w, rc |-> 0, sure |-> TRUE, blind |-> FALSE]
  /\ during' = {pwFile.lines}
  /\ UNCHANGED <<pwFile, pwd, handle, dull, loaded, broken, twice, pwSpent>>

\* Mutant: the time of the file is not looked at again.
NeedReloadOnce ==
  /\ pwCall.pc = "notify"
  /\ pwCall' = [pwCall EXCEPT !.pc = IF pwd.last_mod = 0 THEN "open" ELSE "lookup", !.sure = ~dull]
  /\ pwd' = [pwd EXCEPT !.last_mod = 1]
  /\ UNCHANGED <<pwFile, handle, during, dull, loaded, broken, twice, pwSpent>>

\* The time of the file is kept and the old records go before the file is
\* opened.
NeedReload ==
  /\ pwCall.pc = "notify"
  /\ LET reload == pwFile.ctime # pwd.last_mod
     IN  /\ pwd' = IF reload THEN [pwd EXCEPT !.last_mod = pwFile.ctime, !.db = <<>>] ELSE pwd
         /\ pwCall' = [pwCall EXCEPT !.pc = IF reload THEN "open" ELSE "lookup", !.sure = ~dull]
  /\ UNCHANGED <<pwFile, handle, during, dull, loaded, broken, twice, pwSpent>>

\* "In case no update has been notified return": a stat that fails is no
\* update either (pwd.c:772, 780-782).
NotifyFails ==
  /\ pwCall.pc = "notify"
  /\ pwSpent.failures < MaxFailures
  /\ pwSpent' = [pwSpent EXCEPT !.failures = @ + 1]
  /\ pwCall' = [pwCall EXCEPT !.pc = "lookup", !.blind = TRUE]
  /\ UNCHANGED <<pwFile, pwd, handle, during, dull, loaded, broken, twice>>

ResOpen ==
  /\ pwCall.pc = "open"
  /\ handle' = pwFile.lines
  /\ pwCall' = [pwCall EXCEPT !.pc = "load"]
  /\ broken' = FALSE
  /\ UNCHANGED <<pwFile, pwd, during, dull, loaded, twice, pwSpent>>

ResOpenFails ==
  /\ pwCall.pc = "open"
  /\ pwSpent.failures < MaxFailures
  /\ pwSpent' = [pwSpent EXCEPT !.failures = @ + 1]
  /\ pwCall' = IF pwd.in_memory THEN [pwCall EXCEPT !.pc = "lookup"] ELSE Verdict(NoRecord)
  /\ broken' = TRUE
  /\ UNCHANGED <<pwFile, pwd, handle, during, dull, loaded, twice>>

PwdLoad ==
  /\ pwCall.pc = "load" /\ pwd.in_memory
  /\ pwd' = [pwd EXCEPT !.db = DbLoad(handle)]
  /\ loaded' = pwd'.db
  /\ twice' = (twice \/ DbPushTwice(handle))
  /\ handle' = <<>>
  /\ pwCall' = [pwCall EXCEPT !.pc = "lookup"]
  /\ UNCHANGED <<pwFile, during, dull, broken, pwSpent>>

PwdRetrRes ==
  /\ pwCall.pc = "load" /\ ~pwd.in_memory
  /\ pwCall' = Verdict(RetrRes(handle, pwCall.who.user))
  /\ handle' = <<>>
  /\ UNCHANGED <<pwFile, pwd, during, dull, loaded, broken, twice, pwSpent>>

\* After a record was freed twice the heap is what it is, and so is an answer
\* that comes from it.
PwdRetrMem ==
  /\ pwCall.pc = "lookup"
  /\ \/ pwCall' = Verdict(RetrMem(pwd.db, pwCall.who.user))
     \/ twice /\ \E pass \in Passwords \cup {NoRecord} : pwCall' = Verdict(pass)
  /\ UNCHANGED <<pwFile, pwd, handle, during, dull, loaded, broken, twice, pwSpent>>

PwdForget ==
  /\ pwCall.pc = "done"
  /\ pwCall' = [pc |-> "idle", who |-> Nobody, rc |-> 0, sure |-> TRUE, blind |-> FALSE]
  /\ during' = {}
  /\ UNCHANGED <<pwFile, pwd, handle, dull, loaded, broken, twice, pwSpent>>

PwdNext ==
  \/ Replace \/ PwdAuthUser \/ NeedReload \/ NotifyFails \/ ResOpen \/ ResOpenFails
  \/ PwdLoad \/ PwdRetrRes \/ PwdRetrMem \/ PwdForget

PwdSpec == PwdInit /\ [][PwdNext]_pwdVars

-----------------------------------------------------------------------------
\* What a file says of a candidate: the first record of the user counts.
Says(lines, w) == IF RetrMem(DbLoad(lines), w.user) = w.pass THEN 0 ELSE -1
WellFormed(lines) == \A i \in DOMAIN lines : lines[i] # Comment => IsRecord(lines[i])

SaysMem(db, w) == IF RetrMem(db, w.user) = w.pass THEN 0 ELSE -1

(* A user is let in, and kept out, by a file that was in place during the  *)
(* call, whether the records are in memory or not and however often the    *)
(* user is listed: unless the opening failed, or a second file came in the *)
(* second of the one before, or (for the file itself) a line of the user   *)
(* has no password.  A call that cannot look at the time of the file       *)
(* answers by the records that were loaded last, and by no others.  All    *)
(* this as long as no user is listed twice in a file that is loaded: the   *)
(* second record is freed twice then (pwd.c:701).                          *)
PwdAnswers ==
  pwCall.pc = "done" /\ pwCall.sure /\ ~broken /\ (pwd.in_memory => ~twice) =>
    \/ ~pwCall.blind /\ \E c \in during : pwCall.rc = Says(c, pwCall.who)
    \/ pwCall.blind /\ pwCall.rc = SaysMem(loaded, pwCall.who)
    \/ ~pwd.in_memory /\ \E c \in during : ~WellFormed(c)

(* "on error keep on working with the old in-memory db" (pwd.c:588).       *)
KeepsOldDb ==
  pwCall.pc = "done" /\ pwd.in_memory /\ broken /\ ~twice =>
    pwCall.rc = SaysMem(loaded, pwCall.who)

(* A record of the cache is freed by the map that owns it, once            *)
(* (hmap.c:363), however often its user is listed.                         *)
FreedOnce == ~twice
=============================================================================
