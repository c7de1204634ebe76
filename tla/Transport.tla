----------------------------- MODULE Transport -----------------------------
(***************************************************************************)
(* lib/transport: the blocking calls with a context.  A carrier hands out  *)
(* what the peer starts, streams on a Conn and connections on a Listener,  *)
(* to calls of AcceptStream or Accept, and starts its own in OpenStream or *)
(* Dial.                                                                   *)
(*                                                                         *)
(* On QUIC such a call is a library call that takes the context.  On TCP   *)
(* it is made in a goroutine that leaves the result in a channel of        *)
(* capacity one; when the context ends the call returns and the goroutine  *)
(* goes on.  Accept of the TCP listener also performs the TLS handshake    *)
(* there, and closes the listener when its context ends.                   *)
(***************************************************************************)
EXTENDS Naturals, Sequences, FiniteSets

CONSTANTS
  Accept,     \* calls of AcceptStream, or of Listener.Accept
  Open,       \* calls of OpenStream, or of Dial
  MaxItems    \* bound on the streams or connections the peer starts

ASSUME TransportAssumption == Accept \cap Open = {} /\ MaxItems \in Nat

VARIABLES
  kind,       \* which carrier this is
  backlog,    \* streams or connections of the peer not handed out yet
  started,    \* number of those the peer has started
  closed,     \* the carrier is closed
  cancelled,  \* the calls whose context has ended
  worker,     \* worker[c]: the goroutine of call c
  ch,         \* ch[c]: its result channel
  caller,     \* caller[c]: the call itself
  dead,       \* connections of the peer that this side has closed
  sock        \* sock[c]: the socket of a DialTCP call

vars == <<kind, backlog, started, closed, cancelled, worker, ch, caller, dead, sock>>

Call == Accept \cup Open

Kind == {"tcpConn", "quicConn", "tcpListener", "quicListener", "shared"}
Quic == kind \in {"quicConn", "quicListener", "shared"}

Err == [st |-> "err"]
Got(k) == [st |-> "ok", item |-> k]
Own == 0  \* what Open calls return

Init ==
  /\ kind \in Kind
  /\ backlog = << >>
  /\ started = 0
  /\ closed = FALSE
  /\ cancelled = {}
  /\ worker = [c \in Call |-> [st |-> "none"]]
  /\ ch = [c \in Call |-> << >>]
  /\ caller = [c \in Call |-> [st |-> "idle"]]
  /\ dead = {}
  /\ sock = [c \in Open |-> "none"]

(* External: the peer opens a stream, or connects.                         *)
PeerStarts ==
  /\ ~closed /\ started < MaxItems
  /\ started' = started + 1
  /\ backlog' = Append(backlog, started')
  /\ UNCHANGED <<kind, closed, cancelled, worker, ch, caller, dead, sock>>

(* External: the context of a call ends.                                   *)
Cancel(c) ==
  /\ c \notin cancelled
  /\ cancelled' = cancelled \cup {c}
  /\ UNCHANGED <<kind, backlog, started, closed, worker, ch, caller, dead, sock>>

(* The calls made in a goroutine.                                          *)
InGoroutine(c) == kind = "tcpConn" \/ (kind = "tcpListener" /\ c \in Accept)

Start(c) ==
  /\ caller[c].st = "idle"
  /\ caller' = [caller EXCEPT ![c] = [st |-> "waiting"]]
  /\ worker' = [worker EXCEPT ![c] = [st |-> IF InGoroutine(c) THEN "calling" ELSE "none"]]
  /\ UNCHANGED <<kind, backlog, started, closed, cancelled, ch, dead, sock>>

Waiting(c) == caller[c].st = "waiting"

(* The carrier is closed: what it has not handed out is reset.             *)
Shut ==
  /\ closed' = TRUE
  /\ dead' = dead \cup {backlog[i] : i \in DOMAIN backlog}
  /\ backlog' = << >>

Close ==
  /\ ~closed
  /\ Shut
  /\ UNCHANGED <<kind, started, cancelled, worker, ch, caller, sock>>

-----------------------------------------------------------------------------
(* The goroutines of the TCP calls                                         *)

(* A worker on an unbuffered channel waits for its caller.                 *)
SendUnbuffered(c, r) ==
  /\ Waiting(c)
  /\ ch' = [ch EXCEPT ![c] = <<r>>]
  /\ worker' = [worker EXCEPT ![c] = [st |-> "ended"]]

(* The worker leaves its result in the channel and ends.                   *)
Send(c, r) ==
  /\ ch' = [ch EXCEPT ![c] = <<r>>]
  /\ worker' = [worker EXCEPT ![c] = [st |-> "ended"]]

(* yamux AcceptStream returns a stream.                                    *)
AcceptWorker(c) ==
  /\ kind = "tcpConn" /\ c \in Accept
  /\ worker[c].st = "calling" /\ backlog # << >>
  /\ Send(c, Got(Head(backlog)))
  /\ backlog' = Tail(backlog)
  /\ UNCHANGED <<kind, started, closed, cancelled, caller, dead, sock>>

OpenWorker(c) ==
  /\ kind = "tcpConn" /\ c \in Open
  /\ worker[c].st = "calling" /\ ~closed
  /\ Send(c, Got(Own))
  /\ UNCHANGED <<kind, backlog, started, closed, cancelled, caller, dead, sock>>

(* ln.Accept returns a connection; the TLS handshake begins.               *)
ListenWorker(c) ==
  /\ kind = "tcpListener"
  /\ worker[c].st = "calling" /\ backlog # << >>
  /\ worker' = [worker EXCEPT ![c] = [st |-> "handshake", item |-> Head(backlog)]]
  /\ backlog' = Tail(backlog)
  /\ UNCHANGED <<kind, started, closed, cancelled, ch, caller, dead, sock>>

HandshakeOk(c) ==
  /\ worker[c].st = "handshake"
  /\ Send(c, Got(worker[c].item))
  /\ UNCHANGED <<kind, backlog, started, closed, cancelled, caller, dead, sock>>

(* The failed connection left open.                                        *)
ForgetConn(c) ==
  /\ worker[c].st = "handshake"
  /\ Send(c, Err)
  /\ UNCHANGED <<kind, backlog, started, closed, cancelled, caller, dead, sock>>

HandshakeErr(c) ==
  /\ worker[c].st = "handshake"
  /\ dead' = dead \cup {worker[c].item}
  /\ Send(c, Err)
  /\ UNCHANGED <<kind, backlog, started, closed, cancelled, caller, sock>>

(* HandshakeContext gives up with the context of the call.                 *)
HandshakeCtx(c) == c \in cancelled /\ HandshakeErr(c)

(* AcceptStream, OpenStream or ln.Accept returns an error.                 *)
WorkerErr(c) ==
  /\ worker[c].st = "calling"
  /\ Send(c, Err)
  /\ UNCHANGED <<kind, backlog, started, closed, cancelled, caller, dead, sock>>

(* A closed session or listener fails the calls that wait on it.           *)
WorkerClosed(c) == closed /\ WorkerErr(c)

(* The select of the caller; it may take either branch when both are ready.*)
Result(c) ==
  /\ InGoroutine(c) /\ Waiting(c) /\ ch[c] # << >>
  /\ caller' = [caller EXCEPT ![c] = ch[c][1]]
  /\ ch' = [ch EXCEPT ![c] = << >>]
  /\ UNCHANGED <<kind, backlog, started, closed, cancelled, worker, dead, sock>>

(* The listener left open.                                                 *)
CtxDoneOpen(c) ==
  /\ InGoroutine(c) /\ Waiting(c) /\ c \in cancelled
  /\ caller' = [caller EXCEPT ![c] = [st |-> "ctxErr"]]
  /\ UNCHANGED <<kind, backlog, started, closed, cancelled, worker, ch, dead, sock>>

CtxDone(c) ==
  /\ InGoroutine(c) /\ Waiting(c) /\ c \in cancelled
  /\ caller' = [caller EXCEPT ![c] = [st |-> "ctxErr"]]
  /\ IF kind = "tcpListener" THEN Shut ELSE UNCHANGED <<closed, dead, backlog>>
  /\ UNCHANGED <<kind, started, cancelled, worker, ch, sock>>

-----------------------------------------------------------------------------
(* The QUIC calls, and DialTCP                                             *)

Ends(c, r) ==
  /\ caller' = [caller EXCEPT ![c] = r]
  /\ UNCHANGED <<kind, started, closed, cancelled, worker, ch, dead>>

QuicAccept(c) ==
  /\ Quic /\ c \in Accept /\ Waiting(c) /\ backlog # << >>
  /\ Ends(c, Got(Head(backlog)))
  /\ backlog' = Tail(backlog)
  /\ UNCHANGED sock

(* OpenStreamSync, DialAddr, Transport.Dial.  DialQUIC has a socket of its *)
(* own; a SharedTransport dials on the socket it listens on.               *)
QuicOpen(c) ==
  /\ Quic /\ c \in Open /\ Waiting(c)
  /\ closed => kind = "quicListener"
  /\ Ends(c, Got(Own))
  /\ UNCHANGED <<backlog, sock>>

(* The peer or the network fails a dial, or there is no TLS configuration; *)
(* a call on a carrier that is closed fails.                               *)
QuicErr(c) ==
  /\ Quic /\ Waiting(c)
  /\ closed \/ (c \in Open /\ kind # "quicConn")
  /\ Ends(c, Err)
  /\ UNCHANGED <<backlog, sock>>

QuicClosed(c) == closed /\ (c \in Open => kind # "quicListener") /\ QuicErr(c)

QuicCtx(c) ==
  /\ Quic /\ Waiting(c) /\ c \in cancelled
  /\ Ends(c, [st |-> "ctxErr"])
  /\ UNCHANGED <<backlog, sock>>

Dialling(c) == kind = "tcpListener" /\ c \in Open /\ Waiting(c)

DialConnect(c) ==
  /\ Dialling(c) /\ sock[c] = "none"
  /\ sock' = [sock EXCEPT ![c] = "open"]
  /\ UNCHANGED <<kind, backlog, started, closed, cancelled, worker, ch, caller, dead>>

DialOk(c) == Dialling(c) /\ sock[c] = "open" /\ Ends(c, Got(Own)) /\ UNCHANGED <<backlog, sock>>

(* There is no TLS configuration, the connection is refused, or the        *)
(* handshake fails: an open socket is closed.                              *)
DialErr(c) ==
  /\ Dialling(c)
  /\ sock' = [sock EXCEPT ![c] = IF @ = "open" THEN "closed" ELSE @]
  /\ Ends(c, Err)
  /\ UNCHANGED backlog

DialCtx(c) == c \in cancelled /\ DialErr(c)

-----------------------------------------------------------------------------
(* What goes on by itself once it can.                                     *)
Step(c) ==
  \/ AcceptWorker(c) \/ OpenWorker(c) \/ ListenWorker(c) \/ HandshakeCtx(c) \/ WorkerClosed(c)
  \/ Result(c) \/ CtxDone(c)
  \/ QuicAccept(c) \/ QuicClosed(c) \/ QuicCtx(c)
  \/ DialCtx(c)

(* What depends on the peer.                                               *)
PeerStep(c) ==
  \/ HandshakeOk(c) \/ HandshakeErr(c) \/ WorkerErr(c) \/ QuicOpen(c) \/ QuicErr(c)
  \/ DialConnect(c) \/ DialOk(c) \/ DialErr(c)

Next ==
  \/ PeerStarts \/ Close
  \/ \E c \in Call : Start(c) \/ Cancel(c) \/ Step(c) \/ PeerStep(c)

Spec == Init /\ [][Next]_vars

FairSpec == Spec /\ \A c \in Call : WF_vars(Step(c))

-----------------------------------------------------------------------------
(* Accept calls that hold an item: as their return value, in the channel,  *)
(* or in the handshake.                                                    *)
Returned == {c \in Accept : caller[c].st = "ok"}
InChannel == {c \in Accept : ch[c] # << >> /\ ch[c][1].st = "ok"}
InHandshake == {c \in Accept : worker[c].st = "handshake"}

(* What a goroutine got for a call that had returned: nobody will use or   *)
(* close it.                                                               *)
Swallowed == {c \in InChannel : caller[c].st = "ctxErr"}

(* Every stream or connection of the peer is in exactly one place: not yet *)
(* handed out, in a handshake, on its way to a caller, with one caller, or *)
(* closed.  Only on TCP, and only for a call whose context ended, is one   *)
(* swallowed.  A DialTCP that fails leaves no socket open.                 *)
Accounted ==
  LET held == {caller[c].item : c \in Returned} \cup {ch[c][1].item : c \in InChannel}
              \cup {worker[c].item : c \in InHandshake}
              \cup {backlog[i] : i \in DOMAIN backlog} \cup dead
  IN  /\ held = 1 .. started
      /\ Cardinality(Returned) + Cardinality(InChannel) + Cardinality(InHandshake)
           + Len(backlog) + Cardinality(dead) = started
      /\ Swallowed # {} => ~Quic /\ Swallowed \subseteq cancelled
      /\ \A c \in Open : sock[c] = "open" => caller[c].st \in {"waiting", "ok"}

(* Close ends every goroutine and every call of the carrier, also those    *)
(* whose caller left long ago.  What may go on is a handshake with a       *)
(* silent peer whose own context lasts, and a dial on another socket.      *)
CloseFreesAll ==
  closed ~> \A c \in Call :
    /\ worker[c].st # "calling"
    /\ Waiting(c) => worker[c].st = "handshake" \/ (c \in Open /\ kind \in {"tcpListener", "quicListener"})

(* A call returns once its context has ended, whatever the peer does, and  *)
(* on the TCP listener its goroutine ends with it.                         *)
CancelEnds ==
  \A c \in Call : (c \in cancelled /\ caller[c].st # "idle") ~>
    (~Waiting(c) /\ (kind = "tcpListener" => worker[c].st \in {"none", "ended"}))
=============================================================================
