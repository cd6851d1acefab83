------------------------------- MODULE WsFrame -------------------------------
(***************************************************************************)
(* The websocket frame codec: encode_frame and parse_frame of src/ws.rs,   *)
(* on bytes.  A frame is [fin, opcode, payload]; a masking key is a        *)
(* sequence of four bytes, or the empty sequence for no mask.              *)
(***************************************************************************)
EXTENDS Integers, Sequences, SequencesExt

CONSTANTS
    MaxPayload,   \* MAX_FRAME_PAYLOAD, 2^24 in the code
    BitXor(_, _)  \* the ^ of two bytes

\* 2^31 - 1: the lengths that are told apart.
MaxLength == 2147483647

Byte == 0 .. 255

\* Xor with the same byte twice gives the first one back.
ASSUME WsFrameAssumption ==
    /\ MaxPayload \in Nat /\ MaxPayload < MaxLength
    /\ \A a, b \in Byte : BitXor(a, b) \in Byte /\ BitXor(BitXor(a, b), b) = a

\* The opcodes of ws.rs.
Continuation == 0
Text == 1
Binary == 2
Close == 8
Ping == 9
Pong == 10

\* Ok(None), and Err, of parse_frame.
Incomplete == [kind |-> "incomplete"]
Refused == [kind |-> "refused"]

\* to_be_bytes of a u16, and of a u64 below 2^32.
ToBe16(x) == <<(x \div 256) % 256, x % 256>>
ToBe64(x) ==
    <<0, 0, 0, 0, (x \div 16777216) % 256, (x \div 65536) % 256, (x \div 256) % 256, x % 256>>

\* from_be_bytes of the u16 that starts after the first at bytes.
FromBe16(bytes, at) == 256 * bytes[at + 1] + bytes[at + 2]

\* from_be_bytes of the u64 there: of those above MaxLength it is enough to know that
\* they are above the limit.
FromBe64(bytes, at) ==
    IF (\A j \in 1 .. 4 : bytes[at + j] = 0) /\ bytes[at + 5] < 128
    THEN 65536 * FromBe16(bytes, at + 4) + FromBe16(bytes, at + 6)
    ELSE MaxPayload + 1

Masked(payload, key) ==
    IF key = <<>> THEN payload
    ELSE [j \in 1 .. Len(payload) |-> BitXor(payload[j], key[((j - 1) % 4) + 1])]

\* Mutant: a payload of 126 bytes still gets the one-byte length.
LengthBytesOff(n, maskBit) ==
    IF n <= 126 THEN <<maskBit + n>>
    ELSE IF n <= 65535 THEN <<maskBit + 126>> \o ToBe16(n)
    ELSE <<maskBit + 127>> \o ToBe64(n)

\* The second byte and the extended length.
LengthBytes(n, maskBit) ==
    IF n < 126 THEN <<maskBit + n>>
    ELSE IF n <= 65535 THEN <<maskBit + 126>> \o ToBe16(n)
    ELSE <<maskBit + 127>> \o ToBe64(n)

\* A frame on the wire.  The client's own frames always have fin set and a key;
\* the daemon's have no key and may be fragments.
Wire(fin, opcode, payload, key) ==
    <<(IF fin THEN 128 ELSE 0) + opcode>>
        \o LengthBytes(Len(payload), IF key = <<>> THEN 0 ELSE 128)
        \o key \o Masked(payload, key)

EncodeFrame(opcode, payload, key) == Wire(TRUE, opcode, payload, key)

\* Bytes of extended length announced by the 7-bit length.
Extended(short) == CASE short = 126 -> 2 [] short = 127 -> 8 [] OTHER -> 0

\* parse_frame: one frame from the front of buf, or Incomplete, or Refused.
ParseFrame(buf) ==
    IF Len(buf) < 2 THEN Incomplete
    ELSE IF (buf[1] \div 16) % 8 # 0 THEN Refused
    ELSE LET short == buf[2] % 128
             head == 2 + Extended(short)
             keyLen == IF buf[2] >= 128 THEN 4 ELSE 0
             off == head + keyLen
         IN  IF Len(buf) < head THEN Incomplete
             ELSE LET len == CASE short = 126 -> FromBe16(buf, 2)
                               [] short = 127 -> FromBe64(buf, 2)
                               [] OTHER -> short
                  IN  IF len > MaxPayload THEN Refused
                      ELSE IF Len(buf) < off + len THEN Incomplete
                      ELSE [kind |-> "frame",
                            fin |-> buf[1] >= 128,
                            opcode |-> buf[1] % 16,
                            payload |-> Masked(SubSeq(buf, off + 1, off + len),
                                               SubSeq(buf, head + 1, off)),
                            used |-> off + len]

=============================================================================
