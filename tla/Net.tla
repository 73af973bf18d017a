--------------------------------- MODULE Net ---------------------------------
(***************************************************************************)
(* Socket creation of srcs/toolbox/net.c: an address object is resolved    *)
(* from a URI, then u_net_sd_by_addr_ex tries its addresses in turn with   *)
(* do_csock or do_ssock.  One action per system call that may fail or      *)
(* block.  The kernel decides the outcome of each call; time passes while  *)
(* select waits and while a signal handler runs.                           *)
(***************************************************************************)
EXTENDS Integers, Sequences, SequencesExt

CONSTANTS
  Schemes,     \* URI schemes the client uses
  OptSets,     \* sets of U_NET_OPT_* bits the client uses
  MaxAddrs,    \* addresses getaddrinfo returns for a name
  NoTimeout,   \* a NULL timeout
  MaxTimeout,  \* largest timeout, in ticks of the clock
  MaxHandler,  \* ticks a signal handler may take
  MaxHeld      \* sockets the client keeps open

VARIABLES
  na,       \* the u_net_addr_t: mode, opts, addr list, cur (0: none); or NoAddr
  pc,       \* where the call of u_net_sd_by_addr_ex is
  at,       \* do_sock: the address being tried
  sk,       \* the socket being made, or NoSocket
  tmo,      \* *timeout, or NoTimeout
  clk,      \* now, tstart, when select began, and the copy of *timeout it got
  held,     \* sockets returned and not yet closed by the client
  open,     \* descriptors open in the process
  waited    \* history: ticks spent in select, for this address and in all,
            \* and what *timeout allowed for each

netVars == <<na, pc, at, sk, tmo, clk, held, open, waited>>

NoAddr == [mode |-> "none", opts |-> {}, addrs |-> <<>>, cur |-> 0]
NoSocket == [st |-> "none"]

Timed == tmo # NoTimeout

Clock0 == [now |-> 0, tstart |-> 0, began |-> 0, copy |-> 0, handler |-> 0]
Waited0 == [here |-> 0, all |-> 0, allowed |-> 0, asked |-> 0]

-----------------------------------------------------------------------------
(* Addresses.                                                              *)
SchemeMapper(s) ==
  [family |-> IF s = "unix" THEN "unix" ELSE IF s \in {"tcp6", "udp6", "sctp6"} THEN "inet6" ELSE "inet",
   type   |-> IF s \in {"udp", "udp6"} THEN "dgram" ELSE "stream",
   proto  |-> IF s \in {"sctp", "sctp6"} THEN "sctp" ELSE "other"]

\* A path gives one UNIX address, a host what getaddrinfo finds.
ResolvSun(m) == <<m>>
AiResolv(m, n) == [i \in 1..n |-> m]
DoResolv(m, n) == IF m.family = "unix" THEN ResolvSun(m) ELSE AiResolv(m, n)

NaNew(mode) == [NoAddr EXCEPT !.mode = mode]

NetInit ==
  /\ na = NoAddr /\ pc = "idle" /\ at = 0 /\ sk = NoSocket /\ tmo = NoTimeout
  /\ clk = Clock0 /\ held = <<>> /\ open = 0 /\ waited = Waited0

\* The URI is parsed, its scheme known and the name resolved.  When one of
\* them fails there is no address.
Uri2Addr(s, mode, n) ==
  /\ pc = "idle" /\ na = NoAddr
  /\ na' = [NaNew(mode) EXCEPT !.addrs = DoResolv(SchemeMapper(s), n)]
  /\ UNCHANGED <<pc, at, sk, tmo, clk, held, open, waited>>

SetOpts(o) ==
  /\ pc = "idle" /\ na # NoAddr
  /\ na' = [na EXCEPT !.opts = o]
  /\ UNCHANGED <<pc, at, sk, tmo, clk, held, open, waited>>

AddrFree ==
  /\ pc = "idle" /\ na # NoAddr
  /\ na' = NoAddr
  /\ UNCHANGED <<pc, at, sk, tmo, clk, held, open, waited>>

-----------------------------------------------------------------------------
(* do_sock: the addresses are tried until one gives a socket.              *)
SdByAddr(t) ==
  /\ pc = "idle" /\ na # NoAddr /\ Len(held) < MaxHeld
  /\ pc' = "socket" /\ at' = 1 /\ tmo' = t /\ clk' = Clock0
  /\ waited' = [Waited0 EXCEPT !.asked = t]
  /\ UNCHANGED <<na, sk, held, open>>

Addr == na.addrs[at]
SockType == IF Addr.proto = "sctp" /\ "onetomany" \in na.opts THEN "seqpacket" ELSE Addr.type

EndCall == at' = 0 /\ tmo' = NoTimeout /\ clk' = Clock0 /\ waited' = Waited0

\* Mutant: after the last address the first is tried again.
TryNextFirst ==
  /\ pc' = "socket" /\ at' = IF at < Len(na.addrs) THEN at + 1 ELSE 1
  /\ UNCHANGED <<tmo, clk, waited>>

\* The next address, or the end of the list.
TryNext ==
  IF at < Len(na.addrs)
  THEN pc' = "socket" /\ at' = at + 1 /\ UNCHANGED <<tmo, clk, waited>>
  ELSE pc' = "idle" /\ EndCall

Socket ==
  /\ pc = "socket"
  /\ pc' = "options" /\ open' = open + 1
  /\ sk' = [st |-> "new", type |-> SockType, nonblock |-> FALSE, now |-> FALSE]
  /\ UNCHANGED <<na, at, tmo, clk, held, waited>>

SocketFails ==
  /\ pc = "socket"
  /\ TryNext
  /\ UNCHANGED <<na, sk, held, open>>

\* SO_REUSEADDR, SO_BROADCAST and the SCTP events, as the options and the
\* kind of socket ask.
BindReuseAddr == Addr.family # "unix" /\ "noreuse" \notin na.opts
SctpEnableEvents == "onetomany" \in na.opts
Broadcast == sk.type = "dgram" /\ "broadcast" \in na.opts

Options ==
  /\ pc = "options"
  /\ pc' = IF na.mode = "ssock" THEN "bind"
           ELSE IF "noconnect" \in na.opts THEN "return" ELSE "connect"
  /\ UNCHANGED <<na, at, sk, tmo, clk, held, open, waited>>

OptionsFail ==
  /\ pc = "options"
  /\ \/ na.mode = "ssock" /\ BindReuseAddr
     \/ na.mode = "csock" /\ Broadcast
     \/ SctpEnableEvents
  /\ pc' = "close"
  /\ UNCHANGED <<na, at, sk, tmo, clk, held, open, waited>>

\* A socket that is up is handed to the caller, and its address noted.
Return ==
  /\ pc = "return"
  /\ na' = [na EXCEPT !.cur = at]
  /\ held' = Append(held, sk)
  /\ sk' = NoSocket /\ pc' = "idle" /\ EndCall
  /\ UNCHANGED open

\* Mutant: the descriptor of a failed attempt is left open.
CloseForgotten ==
  /\ pc = "close"
  /\ sk' = NoSocket
  /\ TryNext
  /\ UNCHANGED <<na, held, open>>

Close ==
  /\ pc = "close"
  /\ sk' = NoSocket /\ open' = open - 1
  /\ TryNext
  /\ UNCHANGED <<na, held>>

-----------------------------------------------------------------------------
(* do_ssock.                                                               *)
Bind ==
  /\ pc = "bind"
  /\ \/ pc' = "close" /\ UNCHANGED sk
     \/ /\ sk' = [sk EXCEPT !.st = "bound"]
        /\ pc' = IF sk.type \in {"stream", "seqpacket"} THEN "listen" ELSE "return"
  /\ UNCHANGED <<na, at, tmo, clk, held, open, waited>>

Listen ==
  /\ pc = "listen"
  /\ \/ pc' = "close" /\ UNCHANGED sk
     \/ sk' = [sk EXCEPT !.st = "listening"] /\ pc' = "return"
  /\ UNCHANGED <<na, at, tmo, clk, held, open, waited>>

\* u_accept goes again when interrupted.
Accept ==
  /\ pc = "idle" /\ Len(held) < MaxHeld
  /\ \E i \in DOMAIN held :
       /\ held[i].st = "listening"
       /\ held' = Append(held, [held[i] EXCEPT !.st = "accepted"])
  /\ open' = open + 1
  /\ UNCHANGED <<na, pc, at, sk, tmo, clk, waited>>

ClientClose ==
  /\ pc = "idle"
  /\ \E i \in DOMAIN held : held' = RemoveAt(held, i)
  /\ open' = open - 1
  /\ UNCHANGED <<na, pc, at, sk, tmo, clk, waited>>

-----------------------------------------------------------------------------
(* u_connect_ex.                                                           *)
SetNonblocking(s) == [s EXCEPT !.nonblock = TRUE]
UnsetNonblocking(s) == [s EXCEPT !.nonblock = FALSE]

\* connect succeeds at once and the function returns; or goes on in the
\* background (EINPROGRESS, or EINTR); or fails.
Connect ==
  /\ pc = "connect"
  /\ clk' = [clk EXCEPT !.tstart = clk.now]
  /\ waited' = [waited EXCEPT !.here = 0, !.allowed = tmo]
  /\ LET s == IF Timed THEN SetNonblocking(sk) ELSE sk
     IN  \/ pc' = "return"  /\ sk' = [s EXCEPT !.st = "connected", !.now = TRUE]
         \/ pc' = "select0" /\ sk' = [s EXCEPT !.st = "connecting"]
         \/ pc' = "failed"  /\ sk' = s
  /\ UNCHANGED <<na, at, tmo, held, open>>

\* u_net_set_nonblocking or gettimeofday fails.
ConnectSetupFails ==
  /\ pc = "connect" /\ Timed
  /\ pc' = "failed"
  /\ UNCHANGED <<na, at, sk, tmo, clk, held, open, waited>>

\* The loop: select is entered with a copy of the timeout.
SelectEnter ==
  /\ pc = "select0"
  /\ pc' = "select"
  /\ clk' = [clk EXCEPT !.began = clk.now, !.copy = IF Timed THEN tmo ELSE 0]
  /\ UNCHANGED <<na, at, sk, tmo, held, open, waited>>

Expired == Timed /\ clk.now - clk.began >= clk.copy

\* The socket is writable: SO_ERROR tells whether the connection is up.
SelectReady ==
  /\ pc = "select" /\ clk.copy >= 0
  /\ \/ pc' = "return" /\ sk' = UnsetNonblocking([sk EXCEPT !.st = "connected"])
     \/ pc' = "failed" /\ UNCHANGED sk
  /\ UNCHANGED <<na, at, tmo, clk, held, open, waited>>

SelectTimesOut ==
  /\ pc = "select" /\ clk.copy >= 0 /\ Expired
  /\ pc' = "failed"
  /\ UNCHANGED <<na, at, sk, tmo, clk, held, open, waited>>

\* A signal interrupts select, and its handler runs.
SelectInterrupted ==
  /\ pc = "select" /\ ~Expired
  /\ pc' = "handler" /\ clk' = [clk EXCEPT !.handler = 0]
  /\ UNCHANGED <<na, at, sk, tmo, held, open, waited>>

\* Any other error of select; a timeout left negative by an earlier address is one.
SelectFails ==
  /\ pc = "select"
  /\ pc' = "failed"
  /\ UNCHANGED <<na, at, sk, tmo, clk, held, open, waited>>

\* Mutant: select starts again with the whole timeout.
UpdateNothing ==
  /\ pc = "handler"
  /\ pc' = "select0"
  /\ UNCHANGED <<na, at, sk, tmo, clk, held, open, waited>>

\* The timeout is reduced by the time since tstart, and may get negative.
UpdateTimeout ==
  /\ pc = "handler"
  /\ IF Timed
     THEN LET left == tmo - (clk.now - clk.tstart)
          IN  /\ tmo' = left
              /\ clk' = [clk EXCEPT !.tstart = clk.now]
              /\ pc' = IF left < 0 THEN "failed" ELSE "select0"
     ELSE pc' = "select0" /\ UNCHANGED <<tmo, clk>>
  /\ UNCHANGED <<na, at, sk, held, open, waited>>

\* The error exit: the socket is made blocking again, then closed.
ConnectFailed ==
  /\ pc = "failed"
  /\ pc' = "close" /\ sk' = UnsetNonblocking(sk)
  /\ UNCHANGED <<na, at, tmo, clk, held, open, waited>>

\* select without a timeout waits as long as it takes: its time is not kept.
Tick ==
  /\ Timed
  /\ \/ pc = "select" /\ ~Expired
        /\ waited' = [waited EXCEPT !.here = @ + 1, !.all = @ + 1]
        /\ clk' = [clk EXCEPT !.now = @ + 1]
     \/ pc = "handler" /\ clk.handler < MaxHandler
        /\ clk' = [clk EXCEPT !.now = @ + 1, !.handler = @ + 1]
        /\ UNCHANGED waited
  /\ UNCHANGED <<na, pc, at, sk, tmo, held, open>>

NetNext ==
  \/ \E s \in Schemes, m \in {"csock", "ssock"}, n \in 1..MaxAddrs : Uri2Addr(s, m, n)
  \/ \E o \in OptSets : SetOpts(o)
  \/ AddrFree
  \/ \E t \in {NoTimeout} \cup 0..MaxTimeout : SdByAddr(t)
  \/ Socket \/ SocketFails \/ Options \/ OptionsFail \/ Return \/ Close
  \/ Bind \/ Listen \/ Accept \/ ClientClose
  \/ Connect \/ ConnectSetupFails \/ SelectEnter \/ SelectReady \/ SelectTimesOut
  \/ SelectInterrupted \/ SelectFails \/ UpdateTimeout \/ ConnectFailed \/ Tick

NetSpec == NetInit /\ [][NetNext]_netVars

\* The steps of the call that do not wait for the network or a signal: a
\* negative timeout is refused at once.
CallStep ==
  Socket \/ Options \/ Return \/ Close \/ Bind \/ Listen \/ Connect \/ SelectEnter
    \/ SelectTimesOut \/ UpdateTimeout \/ ConnectFailed \/ (clk.copy < 0 /\ SelectFails)

(* The process runs, and time passes in select: signals may come for ever  *)
(* but not in no time.  Nothing is assumed of the peer.                    *)
NetFair == WF_netVars(CallStep) /\ SF_netVars(pc = "select" /\ Tick)

-----------------------------------------------------------------------------
(* Every descriptor open in the process is the one being set up or one the *)
(* client was given: whatever call fails on whatever address, u_socket's   *)
(* descriptor is closed (do_csock, do_ssock, do_sock).                     *)
NoDescriptorLeak ==
  open = Len(held) + (IF sk = NoSocket THEN 0 ELSE 1)

(* A socket that was returned is what its mode and options promise:        *)
(* connected, or bound and, if of a connection type, listening, and in     *)
(* blocking mode unless connect succeeded at once under a timeout.         *)
IsUp(s) ==
  /\ s.st \in {"connected", "bound", "listening", "accepted"} \/ (s.st = "new" /\ ~s.nonblock)
  /\ s.st = "bound" => s.type = "dgram"
  /\ s.nonblock => s.now
SocketsAreUp == \A i \in DOMAIN held : IsUp(held[i])

(* What the client holds and what is open, after any failure.              *)
SocketsSound == NoDescriptorLeak /\ SocketsAreUp

(* However often signals interrupt it, select waits no longer in all for   *)
(* one address than *timeout allowed when u_connect_ex was called.         *)
TimeoutPerAddress == pc \in {"select", "handler"} /\ Timed => waited.here \in 0 .. waited.allowed \/ waited.here = 0

(* A call with a timeout ends, even if the peer never answers and signals  *)
(* keep coming.                                                            *)
TimedCallEnds == (pc # "idle" /\ Timed) ~> (pc = "idle" \/ ~Timed)

(* u_net_sd_by_addr_ex waits for a connection at most the time it is       *)
(* given, over all the addresses it tries.                                 *)
TimeoutOverall == Timed /\ pc # "idle" => waited.all <= waited.asked
=============================================================================
