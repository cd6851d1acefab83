------------------------------- MODULE WsClient -------------------------------
(***************************************************************************)
(* The websocket client of src/ws.rs on one connection: the handshake, and *)
(* try_read_message called again and again by the session loop of getwork. *)
(* The daemon is the environment.  It answers the handshake and then sends *)
(* whole or fragmented messages with control frames anywhere between the   *)
(* fragments, as RFC 6455 allows; it may end with a close frame or with a  *)
(* frame that is not legal.  The stream cuts all this into chunks anywhere.*)
(*                                                                         *)
(* wpc   head     reading the response head    session   between two calls *)
(*       parse    the while let over frames    read      the socket read   *)
(*       gone     an error or a close: getwork drops the connection        *)
(***************************************************************************)
EXTENDS WsFrame

CONSTANTS
    Payloads,    \* the payloads of the daemon's frames
    HeadLen,     \* bytes of the daemon's response head
    Chunk,       \* most bytes one read returns (8192 in the code)
    MaxFrames    \* bound: frames the daemon sends

ASSUME WsClientAssumption ==
    /\ HeadLen \in Nat \ {0}
    /\ Chunk \in Nat \ {0}
    /\ MaxFrames \in Nat
    /\ \A p \in Payloads : p \in Seq(Byte) /\ Len(p) <= MaxLength

VARIABLES
    wpc,         \* control state of the client
    wire,        \* bytes on their way to the client
    buf,         \* bytes read and not yet consumed
    frag,        \* the fragmented message in flight
    sent_close,  \* the close frame has been echoed
    accepts,     \* the response head is a 101 with the right accept key
    partial,     \* the message the daemon is in the middle of
    frames,      \* frames the daemon has sent
    over,        \* the daemon sends nothing more
    events,      \* history: pings, messages and close, as the daemon sent them
    done         \* history: pings answered, messages and close returned

clientVars == <<wpc, buf, frag, sent_close, done>>
daemonVars == <<accepts, partial, frames, over, events>>
wsVars == <<clientVars, wire, daemonVars>>

NoMessage == [opcode |-> Continuation, payload |-> <<>>]

\* Bytes of the response head; the last one stands for the empty line.
HeadByte == -1
HeadEnd == -2
Head101 == [j \in 1 .. HeadLen |-> IF j = HeadLen THEN HeadEnd ELSE HeadByte]

WsInit ==
    /\ wpc = "head"
    /\ wire = Head101
    /\ buf = <<>>
    /\ frag = NoMessage
    /\ sent_close = FALSE
    /\ accepts \in BOOLEAN
    /\ partial = NoMessage
    /\ frames = 0
    /\ over = FALSE
    /\ events = <<>>
    /\ done = <<>>

Message == [opcode : {Continuation, Text, Binary, Close, Ping}, payload : Seq(Byte)]

-----------------------------------------------------------------------------
(* The daemon *)

\* One more frame on the wire.
Emit(fin, opcode, payload) ==
    /\ ~over
    /\ frames < MaxFrames
    /\ frames' = frames + 1
    /\ wire' = wire \o Wire(fin, opcode, payload, <<>>)
    /\ UNCHANGED <<clientVars, accepts>>

\* A frame of a message: its first frame or a continuation of it.
SendPart(opcode, payload, fin) ==
    LET first == partial = NoMessage
        whole == IF first THEN [opcode |-> opcode, payload |-> payload]
                 ELSE [partial EXCEPT !.payload = @ \o payload]
    IN  /\ first \/ opcode = partial.opcode
        /\ Emit(fin, IF first THEN opcode ELSE Continuation, payload)
        /\ events' = IF fin THEN Append(events, whole) ELSE events
        /\ partial' = IF fin THEN NoMessage ELSE whole
        /\ UNCHANGED over

SendPing(payload) ==
    /\ Emit(TRUE, Ping, payload)
    /\ events' = Append(events, [opcode |-> Ping, payload |-> payload])
    /\ UNCHANGED <<partial, over>>

SendPong(payload) ==
    /\ Emit(TRUE, Pong, payload)
    /\ UNCHANGED <<events, partial, over>>

SendClose ==
    /\ Emit(TRUE, Close, <<>>)
    /\ events' = Append(events, [opcode |-> Close, payload |-> <<>>])
    /\ over' = TRUE
    /\ UNCHANGED partial

\* An opcode nobody knows, a reserved bit, or a continuation of nothing.
SendIllegal ==
    /\ \/ Emit(TRUE, 3, <<>>)
       \/ Emit(TRUE, 16 + Text, <<>>)
       \/ partial = NoMessage /\ Emit(TRUE, Continuation, <<>>)
    /\ over' = TRUE
    /\ UNCHANGED <<events, partial>>

Daemon ==
    \/ \E p \in Payloads, fin \in BOOLEAN :
          SendPart(Text, p, fin) \/ SendPart(Binary, p, fin)
    \/ \E p \in Payloads : SendPing(p) \/ SendPong(p)
    \/ SendClose \/ SendIllegal

-----------------------------------------------------------------------------
(* The client *)

\* A read returns some of the bytes that have arrived.
Reads(n) ==
    /\ n \in 1 .. Chunk
    /\ n <= Len(wire)
    /\ wire' = SubSeq(wire, n + 1, Len(wire))

Received(n) == buf \o SubSeq(wire, 1, n)

\* Mutant: the last byte of the head is taken for the first of the frames.
EndOfHeadShort(bytes) ==
    IF \E j \in 1 .. Len(bytes) : bytes[j] = HeadEnd
    THEN (CHOOSE j \in 1 .. Len(bytes) : bytes[j] = HeadEnd) - 1
    ELSE 0

\* Where the head ends in what has been read: 0 if it does not yet.
EndOfHead(bytes) ==
    IF \E j \in 1 .. Len(bytes) : bytes[j] = HeadEnd
    THEN CHOOSE j \in 1 .. Len(bytes) : bytes[j] = HeadEnd
    ELSE 0

\* Mutant: bytes that came with the head are dropped.
ReadHeadOnly(n) ==
    /\ wpc = "head"
    /\ Reads(n)
    /\ LET end == EndOfHead(Received(n))
       IN  IF end = 0
           THEN buf' = Received(n) /\ UNCHANGED wpc
           ELSE buf' = <<>> /\ wpc' = IF accepts THEN "session" ELSE "gone"
    /\ UNCHANGED <<frag, sent_close, done, daemonVars>>

\* The handshake reads up to the empty line and judges the head; what was read
\* beyond it is the start of the frames.
ReadHead(n) ==
    /\ wpc = "head"
    /\ Reads(n)
    /\ LET bytes == Received(n)
           end == EndOfHead(bytes)
       IN  IF end = 0
           THEN buf' = bytes /\ UNCHANGED wpc
           ELSE /\ buf' = SubSeq(bytes, end + 1, Len(bytes))
                /\ wpc' = IF accepts THEN "session" ELSE "gone"
    /\ UNCHANGED <<frag, sent_close, done, daemonVars>>

\* A write, a read or the size of the head fails the handshake.
HeadFails ==
    /\ wpc = "head"
    /\ wpc' = "gone"
    /\ UNCHANGED <<buf, frag, sent_close, done, wire, daemonVars>>

\* getwork calls try_read_message.
Call ==
    /\ wpc = "session"
    /\ wpc' = "parse"
    /\ UNCHANGED <<buf, frag, sent_close, done, wire, daemonVars>>

\* A job that is not JSON, or a share that cannot be written: getwork drops the
\* connection between two calls.
SessionFails ==
    /\ wpc = "session"
    /\ wpc' = "gone"
    /\ UNCHANGED <<buf, frag, sent_close, done, wire, daemonVars>>

\* parse_frame has no frame: read more, or give up on an illegal one.
NoFrame ==
    /\ wpc = "parse"
    /\ LET r == ParseFrame(buf)
       IN  /\ r.kind # "frame"
           /\ wpc' = IF r = Incomplete THEN "read" ELSE "gone"
    /\ UNCHANGED <<buf, frag, sent_close, done, wire, daemonVars>>

\* A message is complete and returned.
Deliver(opcode, payload) ==
    /\ done' = Append(done, [opcode |-> opcode, payload |-> payload])
    /\ wpc' = "session"

\* Ping, pong, close: a ping is answered before the next frame is looked at, a
\* close is echoed once and returned.  The pong may fail to be written; a
\* failure of the echo is ignored.
Control(frame) ==
    \/ /\ frame.opcode = Ping
       /\ \/ /\ done' = Append(done, [opcode |-> Ping, payload |-> frame.payload])
             /\ UNCHANGED wpc
          \/ wpc' = "gone" /\ UNCHANGED done
       /\ UNCHANGED sent_close
    \/ /\ frame.opcode = Pong
       /\ UNCHANGED <<wpc, done, sent_close>>
    \/ /\ frame.opcode = Close
       /\ sent_close' = TRUE
       /\ done' = Append(done, [opcode |-> Close, payload |-> frame.payload])
       /\ wpc' = "gone"

\* Mutant: the last fragment is returned without the ones before it.
DataLastOnly(frame) ==
    /\ frame.opcode \in {Text, Binary, Continuation}
    /\ IF frame.opcode = Continuation /\ frag = NoMessage
       THEN wpc' = "gone" /\ UNCHANGED <<done, frag>>
       ELSE LET opcode == IF frame.opcode = Continuation THEN frag.opcode ELSE frame.opcode
            IN  IF frame.fin
                THEN Deliver(opcode, frame.payload) /\ frag' = NoMessage
                ELSE /\ frag' = [opcode |-> opcode, payload |-> frame.payload]
                     /\ UNCHANGED <<wpc, done>>

\* Text, binary and continuation: returned when final, kept in frag until then.
Data(frame) ==
    \/ /\ frame.opcode \in {Text, Binary}
       /\ \/ frame.fin /\ Deliver(frame.opcode, frame.payload) /\ UNCHANGED frag
          \/ /\ ~frame.fin
             /\ frag' = [opcode |-> frame.opcode, payload |-> frame.payload]
             /\ UNCHANGED <<wpc, done>>
    \/ /\ frame.opcode = Continuation
       /\ frag # NoMessage
       /\ LET payload == frag.payload \o frame.payload
          IN  \/ frame.fin /\ Deliver(frag.opcode, payload) /\ frag' = NoMessage
              \/ /\ ~frame.fin
                 /\ frag' = [frag EXCEPT !.payload = payload]
                 /\ UNCHANGED <<wpc, done>>
    \/ /\ frame.opcode = Continuation
       /\ frag = NoMessage
       /\ wpc' = "gone"
       /\ UNCHANGED <<done, frag>>

\* One frame of the while let.
OneFrame ==
    /\ wpc = "parse"
    /\ LET r == ParseFrame(buf)
       IN  /\ r.kind = "frame"
           /\ buf' = SubSeq(buf, r.used + 1, Len(buf))
           /\ \/ Control(r) /\ UNCHANGED frag
              \/ Data(r) /\ UNCHANGED sent_close
              \/ /\ r.opcode \notin {Continuation, Text, Binary, Close, Ping, Pong}
                 /\ wpc' = "gone"
                 /\ UNCHANGED <<frag, sent_close, done>>
    /\ UNCHANGED <<wire, daemonVars>>

ReadSome(n) ==
    /\ wpc = "read"
    /\ Reads(n)
    /\ buf' = Received(n)
    /\ wpc' = "parse"
    /\ UNCHANGED <<frag, sent_close, done, daemonVars>>

\* Mutant: a timeout in the middle of a frame forgets what was read of it.
ReadTimeoutForgets ==
    /\ wpc = "read"
    /\ wpc' = "session"
    /\ buf' = <<>>
    /\ UNCHANGED <<frag, sent_close, done, wire, daemonVars>>

\* WouldBlock or TimedOut: Ok(None), also in the middle of a frame or message.
ReadTimeout ==
    /\ wpc = "read"
    /\ wpc' = "session"
    /\ UNCHANGED <<buf, frag, sent_close, done, wire, daemonVars>>

ReadInterrupted ==
    /\ wpc = "read"
    /\ wpc' = "parse"
    /\ UNCHANGED <<buf, frag, sent_close, done, wire, daemonVars>>

\* End of file, or an error.
ReadFails ==
    /\ wpc = "read"
    /\ wpc' = "gone"
    /\ UNCHANGED <<buf, frag, sent_close, done, wire, daemonVars>>

Client ==
    \/ \E n \in 1 .. Chunk : ReadHead(n) \/ ReadSome(n)
    \/ HeadFails \/ Call \/ SessionFails \/ NoFrame \/ OneFrame
    \/ ReadTimeout \/ ReadInterrupted \/ ReadFails

WsNext == Daemon \/ Client

WsSpec == WsInit /\ [][WsNext]_wsVars

-----------------------------------------------------------------------------

\* Every variable has its type.
WsTypeOK ==
    /\ wpc \in {"head", "session", "parse", "read", "gone"}
    /\ buf \in Seq(Byte \cup {HeadByte, HeadEnd})
    /\ wpc \in {"session", "parse", "read"} => buf \in Seq(Byte)
    /\ frag \in Message
    /\ sent_close \in BOOLEAN
    /\ done \in Seq(Message)

\* However the stream is cut, whatever reads time out and wherever control
\* frames fall, try_read_message answers the pings and returns the messages of
\* the daemon unaltered, in the order of the wire, none twice and none skipped.
StreamOrder == IsPrefix(done, events)

\* Nothing is held back: a client that has no byte left to look at and none on
\* the wire has returned every complete message and answered every ping.
NothingHeldBack ==
    wpc \in {"session", "read"} /\ buf = <<>> /\ wire = <<>> => done = events

\* Every complete message is returned in the end, or the connection is dropped.
EverythingArrives ==
    \A n \in 1 .. MaxFrames :
        Len(events) >= n ~> Len(done) >= n \/ wpc = "gone"

=============================================================================
