------------------------------ MODULE FrameWire ------------------------------
(***************************************************************************)
(* lib/orp/frame.go and codec.go: one side writes frames on a stream, the  *)
(* other parses them.  The stream keeps bytes in order and may end with an *)
(* EOF after any byte.  A payload is a sequence of bytes; the protobuf     *)
(* encoding inside it is left out.                                         *)
(***************************************************************************)
EXTENDS Integers, Sequences, SequencesExt

CONSTANTS
  Frame,       \* the frames callers build, invalid ones included
  MaxPayload,  \* 2^24 in the code
  MaxFrames    \* bound on the frames written

ASSUME FrameAssumption ==
  /\ Frame \subseteq [version : 0 .. 255, type : 0 .. 65535, flags : 0 .. 65535, payload : Seq(0 .. 255)]
  /\ MaxPayload \in 0 .. 2^24
  /\ MaxFrames \in Nat

VARIABLES
  wire,   \* bytes written and not yet read
  ended,  \* no byte will be added
  res,    \* the last result of ParseFrame
  sent,   \* the frames written (history)
  got,    \* the frames parsed
  cut     \* number of bytes lost when the stream ended (history)

vars == <<wire, ended, res, sent, got, cut>>

HeaderSize == 8

(* binary.BigEndian: v in n bytes, and back.                               *)
PutUint(v, n) == [i \in 1 .. n |-> (v \div 256^(n - i)) % 256]

Uint(bytes) == FoldLeft(LAMBDA v, b : 256 * v + b, 0, bytes)

Marshalable(f) == f.version <= 7 /\ f.type <= 2047 /\ Len(f.payload) <= MaxPayload

(* Version one bit too low.                                                *)
MarshalLowVersion(f) ==
  PutUint(f.version * 2^12 + f.type, 2) \o PutUint(f.flags, 2) \o PutUint(Len(f.payload), 4) \o f.payload

MarshalBinary(f) ==
  PutUint(f.version * 2^13 + f.type, 2) \o PutUint(f.flags, 2) \o PutUint(Len(f.payload), 4) \o f.payload

Init ==
  /\ wire = << >>
  /\ ended = FALSE
  /\ res = "none"
  /\ sent = << >>
  /\ got = << >>
  /\ cut = 0

(* A frame MarshalBinary refuses is not written.                           *)
WriteFrame(f) ==
  /\ ~ended /\ Len(sent) < MaxFrames
  /\ Marshalable(f)
  /\ wire' = wire \o MarshalBinary(f)
  /\ sent' = Append(sent, f)
  /\ UNCHANGED <<ended, res, got, cut>>

(* External: the stream ends with its last n bytes undelivered.            *)
End(n) ==
  /\ ~ended
  /\ ended' = TRUE
  /\ wire' = SubSeq(wire, 1, Len(wire) - n)
  /\ cut' = n
  /\ UNCHANGED <<res, sent, got>>

Length == Uint(SubSeq(wire, 5, 8))

TooLarge == Len(wire) >= HeaderSize /\ Length > MaxPayload

(* The bytes there are do not make up a frame.                             *)
Short == Len(wire) < HeaderSize + IF Len(wire) < HeaderSize THEN 0 ELSE Length


(* io.ReadFull reports EOF when nothing came before the end.  ParseFrame   *)
(* returns that as it is for the header and wraps it for the payload.      *)
ReadErr ==
  IF Len(wire) < HeaderSize
  THEN IF wire = << >> THEN "EOF" ELSE "unexpectedEOF"
  ELSE IF Len(wire) = HeaderSize THEN "payload: EOF" ELSE "payload: unexpectedEOF"

(* Outcome that waits for a payload that was cut off.                      *)
PatientOutcome ==
  IF TooLarge THEN "tooLarge"
  ELSE IF ~Short THEN "frame"
  ELSE IF ended /\ Len(wire) < HeaderSize THEN ReadErr
  ELSE "wait"

(* What a call of ParseFrame comes to; it waits for more bytes otherwise.  *)
Outcome ==
  IF TooLarge THEN "tooLarge"
  ELSE IF ~Short THEN "frame"
  ELSE IF ended THEN ReadErr
  ELSE "wait"

ParseErr ==
  /\ res = "none"
  /\ Outcome \notin {"frame", "wait"}
  /\ res' = Outcome
  /\ UNCHANGED <<wire, ended, sent, got, cut>>

ParseFrame ==
  LET word0 == Uint(SubSeq(wire, 1, 2)) IN
  /\ res = "none"
  /\ Outcome = "frame"
  /\ got' = Append(got, [version |-> word0 \div 2^13, type |-> word0 % 2^11, flags |-> Uint(SubSeq(wire, 3, 4)),
                         payload |-> SubSeq(wire, HeaderSize + 1, HeaderSize + Length)])
  /\ wire' = SubSeq(wire, HeaderSize + Length + 1, Len(wire))
  /\ UNCHANGED <<ended, res, sent, cut>>

-----------------------------------------------------------------------------
Bytes(frames) == FoldSeq(LAMBDA f, n : n + HeaderSize + Len(f.payload), 0, frames)

(* The reader sees the frames that were written, field for field and in    *)
(* order, never loses its place between two frames, and never refuses as   *)
(* ErrPayloadTooLarge what MarshalBinary accepted.                         *)
FramesExact ==
  /\ IsPrefix(got, sent) /\ res # "tooLarge"
  /\ ~ended => Bytes(sent) = Bytes(got) + Len(wire)


(* However the stream ends, the reader is told after the frames that came  *)
(* through whole.                                                          *)
EndIsReported == ended ~> (res # "none" /\ Bytes(sent) - cut = Bytes(got) + Len(wire))
=============================================================================
