----------------------------- MODULE OrpStream -----------------------------
(***************************************************************************)
(* The lifecycle of one stream between two agents.  Each end keeps a       *)
(* StreamFSM (lib/orp/stream.go) and applies to it the events of the       *)
(* frames it writes and parses.  The frames to the responder go over the   *)
(* wire of FrameWire, among others; those to the initiator over a second   *)
(* one, Back.  The relay that pairs the two, and the agents that decide    *)
(* when to accept, finish or abort, are external: an agent writes a frame  *)
(* only if its own FSM allows the event, and takes a broken stream as a    *)
(* reset.                                                                  *)
(***************************************************************************)
EXTENDS FrameWire, StreamFSM, FiniteSets

CONSTANTS
  Other,    \* frames that have nothing to do with this stream
  BackCut   \* how many bytes may be lost when Back ends

VARIABLES
  bwire, bended, bres, bsent, bgot, bcut,  \* the wire to the initiator
  fsm                                      \* the StreamFSM of each end

back == <<bwire, bended, bres, bsent, bgot, bcut>>
all == <<vars, back, fsm>>

Back == INSTANCE FrameWire WITH
  wire <- bwire, ended <- bended, res <- bres, sent <- bsent, got <- bgot, cut <- bcut

(* The type codes of frame.go that concern the lifecycle.                  *)
OpenStream == 16
StreamAccept == 18
StreamReject == 19
StreamFin == 258
StreamReset == 259
StreamReady == 338

(* The event a frame stands for at the end that writes or parses it.       *)
EventOf(type) ==
  CASE type = OpenStream -> "Open" [] type = StreamAccept -> "Accept"
    [] type = StreamReady -> "Splice" [] type = StreamFin -> "Fin"
    [] type \in {StreamReject, StreamReset} -> "Reset" [] OTHER -> "none"

MarshalProto(type) == [version |-> 1, type |-> type, flags |-> 0, payload |-> << >>]

Lifecycle == {MarshalProto(t) : t \in {OpenStream, StreamAccept, StreamReject, StreamFin, StreamReset, StreamReady}}

ASSUME OrpAssumption ==
  /\ Frame = Other \cup Lifecycle
  /\ \A f \in Other : EventOf(f.type) = "none"

OrpInit == Init /\ Back!Init /\ fsm = [x \in {"initiator", "responder"} |-> "Init"]

(* An end observes a frame it has written or parsed.                       *)
Observe(x, f) ==
  fsm' = IF EventOf(f.type) = "none" THEN fsm ELSE [fsm EXCEPT ![x] = Apply(@, EventOf(f.type))]

(* A frame is offered at most once by one end.                             *)
Fresh(f, frames) == \A i \in DOMAIN frames : frames[i] # f

InitiatorSends(type) ==
  LET f == MarshalProto(type) IN
  /\ Allowed(fsm["initiator"], EventOf(type)) /\ fsm["initiator"] # "Closed" /\ Fresh(f, sent)
  /\ WriteFrame(f) /\ Observe("initiator", f)
  /\ UNCHANGED back

ResponderSends(type) ==
  LET f == MarshalProto(type) IN
  /\ Allowed(fsm["responder"], EventOf(type)) /\ fsm["responder"] # "Closed" /\ Fresh(f, bsent)
  /\ fsm["responder"] # "Init"
  /\ Back!WriteFrame(f) /\ Observe("responder", f)
  /\ UNCHANGED vars

(* Other traffic to the responder.                                         *)
OtherSent(f) == f \in Other /\ Fresh(f, sent) /\ WriteFrame(f) /\ UNCHANGED <<back, fsm>>

(* External: the relay has seen the accept and tells both ends.            *)
RelayReady ==
  LET f == MarshalProto(StreamReady) IN
  /\ ~Fresh(MarshalProto(StreamAccept), bsent) /\ Fresh(f, bsent) /\ Fresh(f, sent)
  /\ WriteFrame(f) /\ Back!WriteFrame(f)
  /\ UNCHANGED fsm

(* ParseFrame in the reader of each end.                                   *)
ResponderReads ==
  \/ ParseFrame /\ Observe("responder", Last(got')) /\ UNCHANGED back
  \/ ParseErr /\ fsm' = [fsm EXCEPT !["responder"] = Apply(@, "Reset")] /\ UNCHANGED back

InitiatorReads ==
  \/ Back!ParseFrame /\ Observe("initiator", Last(bgot')) /\ UNCHANGED vars
  \/ Back!ParseErr /\ fsm' = [fsm EXCEPT !["initiator"] = Apply(@, "Reset")] /\ UNCHANGED vars

OrpNext ==
  \/ \E t \in {OpenStream, StreamFin, StreamReset} : InitiatorSends(t)
  \/ \E t \in {StreamAccept, StreamReject, StreamFin, StreamReset} : ResponderSends(t)
  \/ \E f \in Other : OtherSent(f)
  \/ RelayReady
  \/ ResponderReads \/ InitiatorReads
  \/ \E n \in 0 .. Len(wire) : End(n) /\ UNCHANGED <<back, fsm>>
  \/ \E n \in BackCut \cap (0 .. Len(bwire)) : Back!End(n) /\ UNCHANGED <<vars, fsm>>

OrpSpec == OrpInit /\ [][OrpNext]_all

(* Both readers call ParseFrame in a loop.                                 *)
OrpFairSpec == OrpSpec /\ WF_all(ResponderReads) /\ WF_all(InitiatorReads)

-----------------------------------------------------------------------------
Has(frames, type) == ~Fresh(MarshalProto(type), frames)

(* An end is Closed exactly when its stream is over: it has written and    *)
(* parsed a FIN, or has written or parsed a reset or a reject, or has lost *)
(* the connection.  Whatever else arrives, and in whatever order the two   *)
(* ends act, does not close a stream half-way or keep it open.             *)
Over(out, in, err) ==
  \/ Has(out, StreamFin) /\ Has(in, StreamFin)
  \/ \E t \in {StreamReset, StreamReject} : Has(out, t) \/ Has(in, t)
  \/ err # "none"

ClosedMeansOver ==
  /\ fsm["initiator"] = "Closed" <=> Over(sent, bgot, bres)
  /\ fsm["responder"] = "Closed" <=> Over(bsent, got, res)

(* With nothing in flight the two ends agree on whether the stream is over,*)
(* unless the connection broke.                                            *)
EndsAgree ==
  wire = << >> /\ bwire = << >> /\ ~ended /\ ~bended =>
    (fsm["initiator"] = "Closed" <=> fsm["responder"] = "Closed")
=============================================================================
