------------------------------ MODULE FrameTrip ------------------------------
(* The way of one frame: encode_frame makes its bytes, they arrive in pieces *)
(* with the bytes of the next frame behind them, and parse_frame looks at    *)
(* what has arrived.                                                         *)
EXTENDS WsFrame

CONSTANTS
    Frames,    \* the frames that are sent
    Behind,    \* the bytes that follow
    Cuts(_)    \* of so many bytes, where a read may end

ASSUME FrameTripAssumption ==
    /\ \A f \in Frames :
          /\ f \in [opcode : 0 .. 15, payload : Seq(Byte), key : Seq(Byte)]
          /\ Len(f.payload) <= MaxLength /\ Len(f.key) \in {0, 4}
    /\ Behind \in Seq(Byte)

VARIABLE trip

Encoded == EncodeFrame(trip.frame.opcode, trip.frame.payload, trip.frame.key)

Arriving == Encoded \o Behind

TripInit == trip \in [frame : Frames, cut : {0}]

TripNext ==
    LET size == Len(Arriving)
    IN  \E n \in Cuts(size) \cap (trip.cut + 1 .. size) : trip' = [trip EXCEPT !.cut = n]

TripSpec == TripInit /\ [][TripNext]_trip

\* ws.rs: encode_frame and parse_frame agree at every form of the length,
\* masked or not: a strict prefix is incomplete, the whole frame gives back
\* what was encoded and leaves the bytes after it alone, and a frame above the
\* limit is refused as soon as its length is known.
RoundTrip ==
    LET size == Len(trip.frame.payload)
        parsed == ParseFrame(SubSeq(Arriving, 1, trip.cut))
        known == Len(Encoded) - size - Len(trip.frame.key)
    IN  IF size > MaxPayload
        THEN parsed = IF trip.cut < known THEN Incomplete ELSE Refused
        ELSE parsed = IF trip.cut < Len(Encoded) THEN Incomplete
                      ELSE [kind |-> "frame", fin |-> TRUE, opcode |-> trip.frame.opcode,
                            payload |-> trip.frame.payload, used |-> Len(Encoded)]

=============================================================================
