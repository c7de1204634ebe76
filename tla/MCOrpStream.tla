---------------------------- MODULE MCOrpStream ----------------------------
(* OrpStream for TLC: the other frames have the corners of every field of  *)
(* the header, payloads from one byte to MaxPayload, and one frame too     *)
(* large in each field.                                                    *)
EXTENDS OrpStream

F(v, t, g, p) == [version |-> v, type |-> t, flags |-> g, payload |-> p]

MCOther == {F(7, 2047, 65535, <<9>>), F(0, 256, 255, <<0, 8>>),
            F(8, 1, 0, << >>), F(1, 2048, 0, << >>), F(1, 1, 0, <<1, 2, 3>>)}

MCFrame == MCOther \cup Lifecycle
=============================================================================
