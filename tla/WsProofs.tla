------------------------------ MODULE WsProofs ------------------------------
(***************************************************************************)
(* Theorems about the websocket client, for every response head, every     *)
(* size of read, every cut of the stream and any number of frames with     *)
(* payloads of any bytes.                                                  *)
(***************************************************************************)
EXTENDS WsClient, FrameTrip, TLAPS

-----------------------------------------------------------------------------
(* Sequences *)

\* Concatenation is associative.
LEMMA ConcatAssoc ==
    ASSUME NEW T, NEW a \in Seq(T), NEW b \in Seq(T), NEW c \in Seq(T)
    PROVE  (a \o b) \o c = a \o (b \o c) /\ a \o b \in Seq(T) /\ b \o c \in Seq(T)
           /\ Len(a \o b) = Len(a) + Len(b)
    OBVIOUS

\* What a concatenation holds.
LEMMA ConcatAt ==
    ASSUME NEW T, NEW a \in Seq(T), NEW b \in Seq(T)
    PROVE  /\ Len(a \o b) = Len(a) + Len(b)
           /\ \A j \in 1 .. Len(a) : (a \o b)[j] = a[j]
           /\ \A j \in 1 .. Len(b) : (a \o b)[Len(a) + j] = b[j]
    OBVIOUS

\* Two sequences that agree in every place are equal.
LEMMA SeqEqual ==
    ASSUME NEW T, NEW a \in Seq(T), NEW b \in Seq(T), Len(a) = Len(b),
           \A j \in 1 .. Len(a) : a[j] = b[j]
    PROVE  a = b
    OBVIOUS

\* The front of a sequence and the rest of it.
LEMMA FrontAndRest ==
    ASSUME NEW T, NEW b \in Seq(T), NEW n \in 0 .. Len(b)
    PROVE  /\ SubSeq(b, 1, n) \in Seq(T) /\ Len(SubSeq(b, 1, n)) = n
           /\ \A j \in 1 .. n : SubSeq(b, 1, n)[j] = b[j]
           /\ SubSeq(b, n + 1, Len(b)) \in Seq(T) /\ Len(SubSeq(b, n + 1, Len(b))) = Len(b) - n
           /\ \A j \in 1 .. Len(b) - n : SubSeq(b, n + 1, Len(b))[j] = b[n + j]
    <1>1. /\ SubSeq(b, 1, n) \in Seq(T) /\ Len(SubSeq(b, 1, n)) = n
          /\ \A j \in 1 .. n : SubSeq(b, 1, n)[j] = b[j]
        OBVIOUS
    <1>2. SubSeq(b, n + 1, Len(b)) \in Seq(T) /\ Len(SubSeq(b, n + 1, Len(b))) = Len(b) - n
        OBVIOUS
    <1>3. \A j \in 1 .. Len(b) - n : SubSeq(b, n + 1, Len(b))[j] = b[n + j]
        OBVIOUS
    <1>. QED  BY <1>1, <1>2, <1>3

\* Together they are the sequence.
LEMMA Rejoined ==
    ASSUME NEW T, NEW b \in Seq(T), NEW n \in 0 .. Len(b)
    PROVE  SubSeq(b, 1, n) \o SubSeq(b, n + 1, Len(b)) = b
    <1> DEFINE f == SubSeq(b, 1, n)
               t == SubSeq(b, n + 1, Len(b))
    <1>1. /\ f \in Seq(T) /\ Len(f) = n /\ \A j \in 1 .. n : f[j] = b[j]
          /\ t \in Seq(T) /\ Len(t) = Len(b) - n /\ \A j \in 1 .. Len(b) - n : t[j] = b[n + j]
        BY FrontAndRest
    <1> HIDE DEF f, t
    <1>2. f \o t \in Seq(T) /\ Len(f \o t) = Len(b)
        <2>1. f \in Seq(T) /\ t \in Seq(T) /\ Len(f) + Len(t) = Len(b)
            BY <1>1
        <2>. QED  BY <2>1, ConcatAssoc
    <1>3. ASSUME NEW j \in 1 .. Len(f \o t)  PROVE (f \o t)[j] = b[j]
        <2>1. CASE j <= n
            BY <1>1, <1>2, <2>1
        <2>2. CASE ~(j <= n)
            <3>1. j - n \in 1 .. Len(b) - n /\ n + (j - n) = j
                BY <1>2, <2>2
            <3>2. (f \o t)[j] = t[j - n]
                BY <1>1, <1>2, <2>2, <3>1
            <3>. QED  BY <1>1, <3>1, <3>2
        <2>. QED  BY <2>1, <2>2
    <1>4. f \o t = b
        BY <1>2, <1>3, SeqEqual
    <1>. QED  BY <1>4 DEF f, t

\* The stream a \o b is w and then r, and w has arrived whole with a.
Arrived(a, b, w, r) == a \o b = w \o r /\ Len(w) <= Len(a)

\* Dropping what a concatenation begins with.
LEMMA DropFront ==
    ASSUME NEW T, NEW a \in Seq(T), NEW b \in Seq(T), NEW w \in Seq(T), NEW r \in Seq(T),
           Arrived(a, b, w, r)
    PROVE  /\ SubSeq(a, Len(w) + 1, Len(a)) \in Seq(T)
           /\ SubSeq(a, Len(w) + 1, Len(a)) \o b = r
    <1> DEFINE n == Len(w)
               t == SubSeq(a, n + 1, Len(a))
    <1>0. a \o b = w \o r /\ Len(w) <= Len(a)
        BY DEF Arrived
    <1>1. n \in Nat /\ n <= Len(a)
        BY <1>0
    <1>2. t \in Seq(T) /\ Len(t) = Len(a) - n
        BY <1>0
    <1>3. \A j \in 1 .. Len(a) - n : t[j] = a[n + j]
        BY <1>1
    <1> HIDE DEF n, t
    <1>4. Len(a) + Len(b) = n + Len(r)
        <2>1. Len(a \o b) = Len(a) + Len(b) /\ Len(w \o r) = Len(w) + Len(r)
            OBVIOUS
        <2>. QED  BY <1>0, <2>1 DEF n
    <1>5. \A j \in 1 .. Len(b) : (a \o b)[Len(a) + j] = b[j]
        BY ConcatAt
    <1>b. \A j \in 1 .. Len(b) : (t \o b)[Len(t) + j] = b[j]
        BY <1>2
    <1>6. t \o b \in Seq(T) /\ Len(t \o b) = Len(r)
        BY <1>1, <1>2, <1>4
    <1>7. ASSUME NEW j \in 1 .. Len(t \o b)  PROVE (t \o b)[j] = r[j]
        <2>1. (w \o r)[n + j] = r[j]
            BY <1>6, ConcatAt DEF n
        <2>2. CASE j <= Len(a) - n
            <3>1. j \in 1 .. Len(t) /\ j \in 1 .. Len(a) - n /\ n + j \in 1 .. Len(a)
                BY <1>1, <1>2, <1>6, <2>2
            <3>2. (t \o b)[j] = t[j]
                BY <1>2, <3>1, ConcatAt
            <3>3. (a \o b)[n + j] = a[n + j]
                BY <3>1, ConcatAt
            <3>. QED  BY <1>0, <1>3, <2>1, <3>1, <3>2, <3>3
        <2>3. CASE ~(j <= Len(a) - n)
            <3> DEFINE i == j - (Len(a) - n)
            <3>1. i \in 1 .. Len(b) /\ Len(t) + i = j /\ Len(a) + i = n + j
                BY <1>1, <1>2, <1>4, <1>6, <2>3
            <3> HIDE DEF i
            <3>2. (t \o b)[Len(t) + i] = b[i]
                BY <1>b, <3>1
            <3>3. (a \o b)[Len(a) + i] = b[i]
                BY <3>1, <1>5
            <3>. QED  BY <1>0, <2>1, <3>1, <3>2, <3>3
        <2>. QED  BY <2>2, <2>3
    <1>8. t \o b = r
        BY <1>6, <1>7, SeqEqual
    <1>. QED  BY <1>2, <1>8 DEF n, t

\* A prefix of a sequence stays one when the sequence grows.
LEMMA PrefixGrows ==
    ASSUME NEW T, NEW s \in Seq(T), NEW t \in Seq(T), NEW x \in T
    PROVE  /\ IsPrefix(s, s) /\ IsPrefix(<<>>, s)
           /\ IsPrefix(s, t) => IsPrefix(s, Append(t, x))
    BY DEF IsPrefix
-----------------------------------------------------------------------------
(* Frames *)

\* The frames a daemon may put on the wire, with or without a reserved bit.
Frame == [fin : BOOLEAN, opcode : 0 .. 31, payload : {p \in Seq(Byte) : Len(p) <= MaxLength}]

OnWire(f) == Wire(f.fin, f.opcode, f.payload, <<>>)

\* Bytes of the header of a frame with n bytes of payload.
HeaderLen(n) == IF n < 126 THEN 2 ELSE IF n <= 65535 THEN 4 ELSE 10

\* A length is made of its base-256 digits.
LEMMA Digits ==
    ASSUME NEW n \in Nat, n <= MaxLength
    PROVE  /\ ToBe64(n) \in Seq(Byte) /\ Len(ToBe64(n)) = 8
           /\ \A j \in 1 .. 4 : ToBe64(n)[j] = 0
           /\ ToBe64(n)[5] < 128
           /\ 65536 * (256 * ToBe64(n)[5] + ToBe64(n)[6]) + (256 * ToBe64(n)[7] + ToBe64(n)[8]) = n
    <1> DEFINE u == (n \div 16777216) % 256
               v == (n \div 65536) % 256
               x == (n \div 256) % 256
               y == n % 256
    <1>1. u \in Byte /\ v \in Byte /\ x \in Byte /\ y \in Byte /\ 0 \in Byte
        BY SMT DEF Byte
    <1>2. u < 128 /\ 65536 * (256 * u + v) + (256 * x + y) = n
        BY SMT DEF MaxLength
    <1>3. ToBe64(n) = <<0, 0, 0, 0, u, v, x, y>>
        BY SMT DEF ToBe64
    <1> HIDE DEF u, v, x, y
    <1>4. <<0, 0, 0, 0, u, v, x, y>> \in Seq(Byte)
        BY <1>1, SMT
    <1>. QED  BY <1>2, <1>3, <1>4, SMT

\* A byte in front of others.
LEMMA Led ==
    ASSUME NEW b \in Byte, NEW d \in Seq(Byte)
    PROVE  /\ <<b>> \o d \in Seq(Byte) /\ Len(<<b>> \o d) = 1 + Len(d) /\ (<<b>> \o d)[1] = b
           /\ \A j \in 1 .. Len(d) : (<<b>> \o d)[1 + j] = d[j]
    <1> DEFINE s == <<b>>
    <1>1. s \in Seq(Byte) /\ Len(s) = 1 /\ s[1] = b
        OBVIOUS
    <1> HIDE DEF s
    <1>2. /\ Len(s \o d) = Len(s) + Len(d) /\ s \o d \in Seq(Byte)
          /\ \A j \in 1 .. Len(s) : (s \o d)[j] = s[j]
          /\ \A j \in 1 .. Len(d) : (s \o d)[Len(s) + j] = d[j]
        BY <1>1, ConcatAt
    <1>3. /\ s \o d \in Seq(Byte) /\ Len(s \o d) = 1 + Len(d) /\ (s \o d)[1] = b
          /\ \A j \in 1 .. Len(d) : (s \o d)[1 + j] = d[j]
        BY <1>1, <1>2
    <1>. QED  BY <1>3 DEF s

\* The length field in each of its three forms.
LEMMA LengthShape ==
    ASSUME NEW n \in Nat, n <= MaxLength
    PROVE  /\ LengthBytes(n, 0) \in Seq(Byte)
           /\ Len(LengthBytes(n, 0)) = HeaderLen(n) - 1
           /\ n < 126 => LengthBytes(n, 0)[1] = n
           /\ n >= 126 /\ n <= 65535 =>
                LengthBytes(n, 0)[1] = 126 /\ FromBe16(LengthBytes(n, 0), 1) = n
           /\ n > 65535 =>
                LengthBytes(n, 0)[1] = 127 /\ FromBe64(LengthBytes(n, 0), 1) = n
    <1> DEFINE e == LengthBytes(n, 0)
    <1>1. CASE n < 126
        <2>1. e = <<n>>
            BY <1>1 DEF LengthBytes
        <2>2. HeaderLen(n) = 2
            BY <1>1 DEF HeaderLen
        <2> HIDE DEF e
        <2>3. e \in Seq(Byte) /\ Len(e) = HeaderLen(n) - 1 /\ e[1] = n
            BY <1>1, <2>1, <2>2 DEF Byte
        <2>. QED  BY <1>1, <2>3 DEF e
    <1>2. CASE n >= 126 /\ n <= 65535
        <2> DEFINE d == ToBe16(n)
        <2>1. d \in Seq(Byte) /\ Len(d) = 2 /\ 256 * d[1] + d[2] = n /\ 126 \in Byte
            BY <1>2, SMT DEF Byte, ToBe16
        <2>2. e = <<126>> \o d
            BY <1>2, SMT DEF LengthBytes
        <2>3. HeaderLen(n) = 4
            BY <1>2, SMT DEF HeaderLen
        <2> HIDE DEF d, e
        <2>4. e \in Seq(Byte) /\ Len(e) = 3 /\ e[1] = 126 /\ \A j \in 1 .. 2 : e[1 + j] = d[j]
            <3>0. d \in Seq(Byte) /\ 126 \in Byte
                BY <2>1
            <3>1. /\ <<126>> \o d \in Seq(Byte) /\ Len(<<126>> \o d) = 1 + Len(d)
                  /\ (<<126>> \o d)[1] = 126
                  /\ \A j \in 1 .. Len(d) : (<<126>> \o d)[1 + j] = d[j]
                BY <3>0, Led
            <3>2. /\ e \in Seq(Byte) /\ Len(e) = 1 + Len(d) /\ e[1] = 126
                  /\ \A j \in 1 .. Len(d) : e[1 + j] = d[j]
                BY <2>2, <3>1, Zenon
            <3>. QED  BY <2>1, <3>2
        <2>5. FromBe16(e, 1) = n
            BY <2>1, <2>4 DEF FromBe16
        <2>. QED  BY <1>2, <2>3, <2>4, <2>5, SMT DEF e
    <1>3. CASE n > 65535
        <2> DEFINE d == ToBe64(n)
        <2>1. /\ d \in Seq(Byte) /\ Len(d) = 8 /\ (\A j \in 1 .. 4 : d[j] = 0) /\ d[5] < 128
              /\ 65536 * (256 * d[5] + d[6]) + (256 * d[7] + d[8]) = n
            BY Digits, SMT
        <2>2. e = <<127>> \o d /\ 127 \in Byte
            BY <1>3, SMT DEF LengthBytes, Byte
        <2>3. HeaderLen(n) = 10
            BY <1>3, SMT DEF HeaderLen
        <2> HIDE DEF d, e
        <2>4. e \in Seq(Byte) /\ Len(e) = 9 /\ e[1] = 127 /\ \A j \in 1 .. 8 : e[1 + j] = d[j]
            <3>1. d \in Seq(Byte) /\ Len(d) = 8 /\ 127 \in Byte
                BY <2>1, <2>2, SMT
            <3>2. /\ <<127>> \o d \in Seq(Byte) /\ Len(<<127>> \o d) = 1 + Len(d) /\ (<<127>> \o d)[1] = 127
                  /\ \A j \in 1 .. Len(d) : (<<127>> \o d)[1 + j] = d[j]
                BY <3>1, Led, Zenon
            <3>3. Len(e) = 9
                BY <2>2, <3>1, <3>2
            <3>4. e \in Seq(Byte) /\ e[1] = 127
                BY <2>2, <3>2, Zenon
            <3>5. \A j \in 1 .. 8 : e[1 + j] = d[j]
                BY <2>2, <3>1, <3>2, Zenon
            <3>. QED  BY <3>3, <3>4, <3>5
        <2>5. FromBe64(e, 1) = 65536 * FromBe16(e, 5) + FromBe16(e, 7)
            BY <2>1, <2>4, SMT DEF FromBe64
        <2>6. FromBe16(e, 5) = 256 * d[5] + d[6] /\ FromBe16(e, 7) = 256 * d[7] + d[8]
            BY <2>4, SMT DEF FromBe16
        <2>. QED  BY <1>3, <2>1, <2>3, <2>4, <2>5, <2>6, SMT DEF e
    <1>. QED  BY <1>1, <1>2, <1>3, SMT

\* A frame of the daemon, byte by byte.
LEMMA WireShape ==
    ASSUME NEW f \in Frame
    PROVE  LET n == Len(f.payload)
               w == OnWire(f)
           IN  /\ w \in Seq(Byte) /\ Len(w) = HeaderLen(n) + n /\ n \in Nat
               /\ w[1] = (IF f.fin THEN 128 ELSE 0) + f.opcode
               /\ \A j \in 1 .. HeaderLen(n) - 1 : w[1 + j] = LengthBytes(n, 0)[j]
               /\ \A j \in 1 .. n : w[HeaderLen(n) + j] = f.payload[j]
    <1> DEFINE n == Len(f.payload)
               b == (IF f.fin THEN 128 ELSE 0) + f.opcode
               e == LengthBytes(n, 0)
               h == <<b>> \o e
               w == OnWire(f)
    <1>1. f.fin \in BOOLEAN /\ f.opcode \in 0 .. 31 /\ f.payload \in Seq(Byte) /\ n \in Nat /\ n <= MaxLength
        BY DEF Frame
    <1>2. b \in Byte
        <2>1. CASE f.fin
            <3>1. b = 128 + f.opcode
                BY <2>1, Zenon
            <3>2. f.opcode \in 0 .. 31
                BY <1>1
            <3> HIDE DEF b
            <3>. QED  BY <3>1, <3>2 DEF Byte
        <2>2. CASE ~f.fin
            <3>1. b = 0 + f.opcode
                BY <2>2, Zenon
            <3>2. f.opcode \in 0 .. 31
                BY <1>1
            <3> HIDE DEF b
            <3>. QED  BY <3>1, <3>2 DEF Byte
        <2>. QED  BY <2>1, <2>2
    <1>3. e \in Seq(Byte) /\ Len(e) = HeaderLen(n) - 1
        BY <1>1, LengthShape
    <1>4. w = ((<<b>> \o e) \o <<>>) \o f.payload
        BY DEF OnWire, Wire, Masked
    <1> HIDE DEF b, e, w, n
    <1>5. HeaderLen(n) \in {2, 4, 10}
        BY DEF HeaderLen
    <1>6. h \in Seq(Byte) /\ Len(h) = HeaderLen(n) /\ h[1] = b /\ \A j \in 1 .. HeaderLen(n) - 1 : h[1 + j] = e[j]
        BY <1>2, <1>3, <1>5, Led
    <1>7. w = h \o f.payload
        <2> HIDE DEF h
        <2>1. h \o <<>> = h
            BY <1>6
        <2>. QED  BY <1>4, <2>1 DEF h
    <1> HIDE DEF h
    <1>8. /\ Len(w) = HeaderLen(n) + n /\ w \in Seq(Byte)
          /\ \A j \in 1 .. HeaderLen(n) : w[j] = h[j]
          /\ \A j \in 1 .. n : w[HeaderLen(n) + j] = f.payload[j]
        <2> DEFINE p == f.payload
        <2>1. p \in Seq(Byte) /\ h \in Seq(Byte) /\ w = h \o p /\ n = Len(p) /\ Len(h) = HeaderLen(n)
            BY <1>1, <1>6, <1>7 DEF n
        <2> HIDE DEF p
        <2>2. /\ Len(h \o p) = Len(h) + Len(p) /\ h \o p \in Seq(Byte)
              /\ \A j \in 1 .. Len(h) : (h \o p)[j] = h[j]
              /\ \A j \in 1 .. Len(p) : (h \o p)[Len(h) + j] = p[j]
            <3>1. p \in Seq(Byte) /\ h \in Seq(Byte)
                BY <2>1
            <3>. QED  BY <3>1, ConcatAt
        <2>3. /\ Len(w) = HeaderLen(n) + n /\ w \in Seq(Byte)
              /\ \A j \in 1 .. HeaderLen(n) : w[j] = h[j]
              /\ \A j \in 1 .. n : w[HeaderLen(n) + j] = p[j]
            BY <2>1, <2>2
        <2>. QED  BY <2>3 DEF p
    <1>9. w[1] = b /\ \A j \in 1 .. HeaderLen(n) - 1 : w[1 + j] = e[j]
        BY <1>5, <1>6, <1>8
    <1>10. /\ w \in Seq(Byte) /\ Len(w) = HeaderLen(n) + n /\ n \in Nat
           /\ w[1] = b
           /\ \A j \in 1 .. HeaderLen(n) - 1 : w[1 + j] = e[j]
           /\ \A j \in 1 .. n : w[HeaderLen(n) + j] = f.payload[j]
        BY <1>1, <1>8, <1>9
    <1>. QED  BY <1>10 DEF b, e, w, n

\* The length fields of two byte sequences that agree there are the same.
LEMMA SameLength ==
    ASSUME NEW b, NEW e, NEW k \in {2, 8}, \A j \in 1 .. k : b[2 + j] = e[1 + j]
    PROVE  FromBe16(b, 2) = FromBe16(e, 1) /\ (k = 8 => FromBe64(b, 2) = FromBe64(e, 1))
    <1>1. \A j \in 1 .. 2 : b[2 + j] = e[1 + j]
        OBVIOUS
    <1>2. FromBe16(b, 2) = FromBe16(e, 1)
        BY <1>1, SMT DEF FromBe16
    <1>3. ASSUME k = 8  PROVE FromBe64(b, 2) = FromBe64(e, 1)
        <2>1. \A j \in 1 .. 8 : b[2 + j] = e[1 + j]
            BY <1>3
        <2>2. b[7] = e[6] /\ b[8] = e[7] /\ b[9] = e[8] /\ b[10] = e[9]
            BY <2>1, SMT
        <2>3. (\A j \in 1 .. 4 : b[2 + j] = 0) <=> (\A j \in 1 .. 4 : e[1 + j] = 0)
            BY <2>1, SMT
        <2>4. FromBe16(b, 6) = FromBe16(e, 5) /\ FromBe16(b, 8) = FromBe16(e, 7)
            BY <2>2, SMT DEF FromBe16
        <2>. QED  BY <2>2, <2>3, <2>4, SMT DEF FromBe64
    <1>. QED  BY <1>2, <1>3

\* The first byte of a frame without reserved bits.
LEMMA FirstByte ==
    ASSUME NEW o \in 0 .. 31, NEW z \in {0, 128}, ((z + o) \div 16) % 8 = 0
    PROVE  o < 16 /\ (z + o) % 16 = o /\ (z + o >= 128 <=> z = 128)
    OBVIOUS

\* What parse_frame returns for an unmasked frame with a header of h bytes.
Unmasked(b, h, n) ==
    [kind |-> "frame", fin |-> b[1] >= 128, opcode |-> b[1] % 16,
     payload |-> Masked(SubSeq(b, h + 1, h + n), SubSeq(b, h + 1, h)), used |-> h + n]

\* The low seven bits of a byte without the mask bit.
LEMMA SevenBits ==
    ASSUME NEW n \in Nat, n < 128
    PROVE  n % 128 = n /\ ~(n >= 128)
    OBVIOUS

\* The payload length that a header announces.
FieldLen(b) ==
    CASE b[2] % 128 = 126 -> FromBe16(b, 2) [] b[2] % 128 = 127 -> FromBe64(b, 2) [] OTHER -> b[2] % 128

\* parse_frame on a header without reserved bits and without a mask.
LEMMA ParseUnmasked ==
    ASSUME NEW b \in Seq(Byte), Len(b) >= 2, (b[1] \div 16) % 8 = 0, b[2] < 128,
           NEW h \in {2, 4, 10}, NEW n \in Nat, Extended(b[2]) = h - 2, h <= Len(b) => FieldLen(b) = n,
           ParseFrame(b).kind = "frame"
    PROVE  ParseFrame(b) = Unmasked(b, h, n) /\ h + n <= Len(b)
    <1>1. Incomplete.kind # "frame" /\ Refused.kind # "frame"
        BY DEF Incomplete, Refused
    <1>2. b[2] % 128 = b[2] /\ ~(b[2] >= 128) /\ 2 + Extended(b[2]) = h
        <2>1. b[2] \in Nat
            <3>1. b[2] \in Byte
                OBVIOUS
            <3>2. Byte \subseteq Nat
                BY DEF Byte
            <3>. QED  BY <3>1, <3>2
        <2>2. 2 + Extended(b[2]) = h
            OBVIOUS
        <2>. QED  BY <2>1, <2>2, SevenBits
    <1> DEFINE head == 2 + Extended(b[2] % 128)
               off == head + (IF b[2] >= 128 THEN 4 ELSE 0)
               len == FieldLen(b)
               frame == [kind |-> "frame", fin |-> b[1] >= 128, opcode |-> b[1] % 16,
                         payload |-> Masked(SubSeq(b, off + 1, off + len), SubSeq(b, head + 1, off)),
                         used |-> off + len]
    <1>3. ParseFrame(b) = IF Len(b) < 2 THEN Incomplete
                          ELSE IF (b[1] \div 16) % 8 # 0 THEN Refused
                          ELSE IF Len(b) < head THEN Incomplete
                          ELSE IF len > MaxPayload THEN Refused
                          ELSE IF Len(b) < off + len THEN Incomplete ELSE frame
        BY Zenon DEF ParseFrame, FieldLen
    <1>4. head = h /\ off = h
        BY <1>2
    <1> HIDE DEF head, off, len, frame
    <1>5. ~(Len(b) < head) /\ ~(Len(b) < off + len) /\ ParseFrame(b) = frame
        BY <1>1, <1>3
    <1>6. len = n
        BY <1>4, <1>5 DEF len
    <1>7. frame = Unmasked(b, h, n)
        BY <1>4, <1>6 DEF frame, Unmasked
    <1>. QED  BY <1>4, <1>5, <1>6, <1>7

\* A frame that parse_frame finds at the front of a stream is the first frame
\* of the stream, wherever the bytes read so far end.
LEMMA ParseWire ==
    ASSUME NEW f \in Frame, NEW r \in Seq(Byte), NEW b \in Seq(Byte), NEW q \in Seq(Byte),
           b \o q = OnWire(f) \o r, ParseFrame(b).kind = "frame"
    PROVE  /\ f.opcode < 16
           /\ ParseFrame(b).fin = f.fin /\ ParseFrame(b).opcode = f.opcode
           /\ ParseFrame(b).payload = f.payload
           /\ ParseFrame(b).used = Len(OnWire(f)) /\ Len(OnWire(f)) <= Len(b)
    <1> DEFINE w == OnWire(f)
               n == Len(f.payload)
               h == HeaderLen(n)
               e == LengthBytes(n, 0)
    <1>1. /\ f.fin \in BOOLEAN /\ f.opcode \in 0 .. 31 /\ f.payload \in Seq(Byte)
          /\ n \in Nat /\ n <= MaxLength
        BY DEF Frame
    <1>2. /\ w \in Seq(Byte) /\ Len(w) = h + n
          /\ w[1] = (IF f.fin THEN 128 ELSE 0) + f.opcode
          /\ \A j \in 1 .. h - 1 : w[1 + j] = e[j]
          /\ \A j \in 1 .. n : w[h + j] = f.payload[j]
        BY WireShape
    <1>3. h \in {2, 4, 10}
        BY DEF HeaderLen
    <1>4. \A j \in 1 .. Len(b) : j <= Len(w) => b[j] = w[j]
        <2> SUFFICES ASSUME NEW j \in 1 .. Len(b), j <= Len(w)  PROVE b[j] = w[j]
            OBVIOUS
        <2> HIDE DEF w
        <2>1. w \in Seq(Byte) /\ j \in 1 .. Len(w)
            BY <1>2
        <2>2. (b \o q)[j] = b[j]
            BY ConcatAt
        <2>3. (w \o r)[j] = w[j]
            BY <2>1, ConcatAt
        <2>. QED  BY <2>2, <2>3 DEF w
    <1> HIDE DEF w, n, h, e
    <1>5. Incomplete.kind # "frame" /\ Refused.kind # "frame"
        BY DEF Incomplete, Refused
    <1>6. Len(b) >= 2
        BY <1>5 DEF ParseFrame
    <1>7. b[1] = w[1] /\ b[2] = e[1]
        <2>1. 1 \in 1 .. Len(b) /\ 2 \in 1 .. Len(b) /\ 1 <= Len(w) /\ 2 <= Len(w) /\ 1 \in 1 .. h - 1
            BY <1>1, <1>2, <1>3, <1>6
        <2>2. b[1] = w[1] /\ b[2] = w[2]
            BY <1>4, <2>1, Zenon
        <2>3. w[1 + 1] = e[1]
            BY <1>2, <2>1, Zenon
        <2>. QED  BY <2>2, <2>3
    <1>8. (b[1] \div 16) % 8 = 0
        BY <1>5, <1>6 DEF ParseFrame
    <1>9. f.opcode < 16 /\ b[1] % 16 = f.opcode /\ (b[1] >= 128) = f.fin
        <2>1. CASE f.fin
            <3>1. b[1] = 128 + f.opcode
                BY <1>2, <1>7, <2>1, Zenon
            <3>2. f.opcode < 16 /\ b[1] % 16 = f.opcode /\ b[1] >= 128
                <4>1. f.opcode \in 0 .. 31 /\ ((128 + f.opcode) \div 16) % 8 = 0
                    BY <1>1, <1>8, <3>1
                <4>2. /\ f.opcode < 16 /\ (128 + f.opcode) % 16 = f.opcode
                      /\ (128 + f.opcode >= 128 <=> 128 = 128)
                    BY <4>1, FirstByte
                <4>. QED  BY <3>1, <4>2
            <3>. QED  BY <1>1, <2>1, <3>2
        <2>2. CASE ~f.fin
            <3>1. b[1] = 0 + f.opcode
                BY <1>2, <1>7, <2>2, Zenon
            <3>2. f.opcode < 16 /\ b[1] % 16 = f.opcode /\ ~(b[1] >= 128)
                <4>1. f.opcode \in 0 .. 31 /\ ((0 + f.opcode) \div 16) % 8 = 0
                    BY <1>1, <1>8, <3>1
                <4>2. /\ f.opcode < 16 /\ (0 + f.opcode) % 16 = f.opcode
                      /\ (0 + f.opcode >= 128 <=> 0 = 128)
                    BY <4>1, FirstByte
                <4>. QED  BY <3>1, <4>2
            <3>. QED  BY <1>1, <2>2, <3>2
        <2>. QED  BY <2>1, <2>2
    <1>10. /\ e \in Seq(Byte) /\ Len(e) = h - 1
           /\ n < 126 => e[1] = n
           /\ n >= 126 /\ n <= 65535 => e[1] = 126 /\ FromBe16(e, 1) = n
           /\ n > 65535 => e[1] = 127 /\ FromBe64(e, 1) = n
        BY <1>1, LengthShape, SMT DEF e, h
    <1>11. \A j \in 1 .. h - 2 : h <= Len(b) => b[2 + j] = e[1 + j]
        <2> SUFFICES ASSUME NEW j \in 1 .. h - 2, h <= Len(b)  PROVE b[2 + j] = e[1 + j]
            OBVIOUS
        <2>1. 1 + j \in 1 .. h - 1 /\ 2 + j \in 1 .. Len(b) /\ 2 + j <= Len(w) /\ 1 + (1 + j) = 2 + j
            BY <1>1, <1>2, <1>3
        <2>. QED  BY <1>2, <1>4, <2>1
    <1>12. ParseFrame(b) = Unmasked(b, h, n) /\ h + n <= Len(b)
        <2>1. b[2] < 128 /\ Extended(b[2]) = h - 2 /\ (h <= Len(b) => FieldLen(b) = n)
            <3>1. CASE n < 126
                <4>1. h = 2 /\ b[2] = n
                    BY <1>7, <1>10, <3>1 DEF h, HeaderLen
                <4>2. n < 128 /\ n % 128 = n /\ Extended(n) = 0
                    <5>1. n < 128 /\ n # 126 /\ n # 127
                        BY <1>1, <3>1
                    <5>2. n % 128 = n
                        BY <1>1, <5>1, SevenBits
                    <5>. QED  BY <5>1, <5>2 DEF Extended
                <4>3. FieldLen(b) = n
                    BY <1>1, <3>1, <4>1, <4>2 DEF FieldLen
                <4>. QED  BY <4>1, <4>2, <4>3
            <3>2. CASE n >= 126 /\ n <= 65535
                <4>1. h = 4 /\ b[2] = 126 /\ FromBe16(e, 1) = n
                    BY <1>1, <1>7, <1>10, <3>2, SMT DEF h, HeaderLen
                <4>2. b[2] < 128 /\ b[2] % 128 = 126 /\ Extended(b[2]) = 2
                    BY <4>1 DEF Extended
                <4>3. ASSUME h <= Len(b)  PROVE FieldLen(b) = n
                    <5>1. \A j \in 1 .. 2 : b[2 + j] = e[1 + j]
                        BY <1>11, <4>1, <4>3
                    <5>2. FromBe16(b, 2) = n
                        BY <4>1, <5>1, SameLength
                    <5>. QED  BY <4>2, <5>2 DEF FieldLen
                <4>. QED  BY <4>1, <4>2, <4>3
            <3>3. CASE n > 65535
                <4>1. h = 10 /\ b[2] = 127 /\ FromBe64(e, 1) = n
                    BY <1>1, <1>7, <1>10, <3>3, SMT DEF h, HeaderLen
                <4>2. b[2] < 128 /\ b[2] % 128 = 127 /\ Extended(b[2]) = 8
                    BY <4>1 DEF Extended
                <4>3. ASSUME h <= Len(b)  PROVE FieldLen(b) = n
                    <5>0. h - 2 = 8
                        BY <4>1
                    <5>1. \A j \in 1 .. 8 : b[2 + j] = e[1 + j]
                        BY <1>11, <4>3, <5>0, Zenon
                    <5>2. FromBe64(b, 2) = n
                        BY <4>1, <5>1, SameLength
                    <5>. QED  BY <4>2, <5>2 DEF FieldLen
                <4>. QED  BY <4>1, <4>2, <4>3
            <3>. QED  BY <1>1, <3>1, <3>2, <3>3, SMT
        <2>. QED  BY <1>1, <1>3, <1>6, <1>8, <2>1, ParseUnmasked
    <1>13. Masked(SubSeq(b, h + 1, h + n), SubSeq(b, h + 1, h)) = f.payload
        <2>1. SubSeq(b, h + 1, h) = <<>>
            BY <1>3
        <2>2. /\ SubSeq(b, h + 1, h + n) \in Seq(Byte) /\ Len(SubSeq(b, h + 1, h + n)) = n
              /\ \A j \in 1 .. n : SubSeq(b, h + 1, h + n)[j] = b[h + j]
            BY <1>1, <1>3, <1>12
        <2>3. \A j \in 1 .. n : b[h + j] = f.payload[j]
            <3> SUFFICES ASSUME NEW j \in 1 .. n  PROVE b[h + j] = f.payload[j]
                OBVIOUS
            <3>1. h + j \in 1 .. Len(b) /\ h + j \in 1 .. Len(w)
                BY <1>1, <1>2, <1>3, <1>12
            <3>2. b[h + j] = w[h + j]
                BY <1>4, <3>1
            <3>. QED  BY <1>2, <3>2
        <2>4. SubSeq(b, h + 1, h + n) = f.payload
            <3> DEFINE s == SubSeq(b, h + 1, h + n)
                       p == f.payload
            <3>1. s \in Seq(Byte) /\ p \in Seq(Byte) /\ Len(s) = Len(p) /\ \A j \in 1 .. Len(s) : s[j] = p[j]
                BY <1>1, <2>2, <2>3 DEF n
            <3> HIDE DEF s, p
            <3>2. s = p
                BY <3>1, SeqEqual
            <3>. QED  BY <3>2 DEF s, p
        <2>. QED  BY <2>1, <2>4 DEF Masked
    <1>14. /\ ParseFrame(b).fin = f.fin /\ ParseFrame(b).opcode = f.opcode
           /\ ParseFrame(b).payload = f.payload /\ ParseFrame(b).used = h + n
        BY <1>9, <1>12, <1>13 DEF Unmasked
    <1>. QED  BY <1>2, <1>9, <1>12, <1>14 DEF w
-----------------------------------------------------------------------------
(* What the bytes on their way mean *)

\* A client that still has the bytes rest before it, a message in assembly and
\* what it has delivered.
Stage == [rest : Seq(Byte), frag : Message, done : Seq(Message)]

At(r, x, y) == [rest |-> r, frag |-> x, done |-> y]

\* The frames that may follow a message in assembly, and those that end it all.
Legal(f, x) ==
    \/ f.opcode \in {Ping, Pong, Close}
    \/ f.opcode \in {Text, Binary} /\ x = NoMessage
    \/ f.opcode = Continuation /\ x # NoMessage

Illegal(f, x) ==
    \/ f.opcode \in {3, 16 + Text}
    \/ f.opcode = Continuation /\ x = NoMessage

\* What a frame makes of the message in assembly and of what is delivered.
Joined(f, x) ==
    IF f.opcode = Continuation THEN [opcode |-> x.opcode, payload |-> x.payload \o f.payload]
    ELSE [opcode |-> f.opcode, payload |-> f.payload]

NextFrag(f, x) ==
    IF f.opcode \in {Ping, Pong, Close} THEN x ELSE IF f.fin THEN NoMessage ELSE Joined(f, x)

NextDone(f, x, y) ==
    IF f.opcode \in {Ping, Close} THEN Append(y, [opcode |-> f.opcode, payload |-> f.payload])
    ELSE IF f.opcode = Pong \/ ~f.fin THEN y ELSE Append(y, Joined(f, x))

\* A stage is the last one, or a legal frame leads from it to one of G, or the
\* daemon has ended with an illegal frame.
Follows(s, G, A, E, o) ==
    \/ s = At(<<>>, A, E)
    \/ \E f \in Frame : \E r \in Seq(Byte) :
          /\ s.rest = OnWire(f) \o r
          /\ Legal(f, s.frag)
          /\ At(r, NextFrag(f, s.frag), NextDone(f, s.frag, s.done)) \in G
    \/ o /\ \E f \in Frame : s.rest = OnWire(f) /\ Illegal(f, s.frag)

\* The stages from which the client gets to where the daemon is: A in assembly
\* and E sent.
Leads(G, A, E, o) ==
    /\ G \subseteq Stage
    /\ \A s \in G : Follows(s, G, A, E, o) /\ IsPrefix(s.done, E)

Explained(r, x, y, A, E, o) == \E G : Leads(G, A, E, o) /\ At(r, x, y) \in G

\* What a stage holds.
LEMMA AtFields ==
    ASSUME NEW r, NEW x, NEW y
    PROVE  At(r, x, y).rest = r /\ At(r, x, y).frag = x /\ At(r, x, y).done = y
    BY DEF At

\* Stages are what they hold.
LEMMA AtStage ==
    ASSUME NEW s \in Stage
    PROVE  /\ s.rest \in Seq(Byte) /\ s.frag \in Message /\ s.done \in Seq(Message)
           /\ s = At(s.rest, s.frag, s.done)
    BY DEF Stage, At

\* A stage made of typed parts.
LEMMA AtTyped ==
    ASSUME NEW r \in Seq(Byte), NEW x \in Message, NEW y \in Seq(Message)
    PROVE  At(r, x, y) \in Stage
    BY DEF Stage, At

\* A legal frame leaves messages.
LEMMA LegalTyped ==
    ASSUME NEW f \in Frame, NEW x \in Message, NEW y \in Seq(Message), Legal(f, x)
    PROVE  NextFrag(f, x) \in Message /\ NextDone(f, x, y) \in Seq(Message)
           /\ \A t \in Seq(Message) : IsPrefix(t, y) => IsPrefix(t, NextDone(f, x, y))
    <1> USE DEF Continuation, Text, Binary, Close, Ping, Pong
    <1>1. f.payload \in Seq(Byte) /\ x.opcode \in {0, 1, 2, 8, 9} /\ x.payload \in Seq(Byte)
        BY DEF Frame, Message
    <1>2. NoMessage \in Message
        BY DEF NoMessage, Message
    <1>3. f.opcode # Pong => [opcode |-> f.opcode, payload |-> f.payload] \in Message
        BY <1>1 DEF Message, Legal
    <1>4. f.opcode # Pong => Joined(f, x) \in Message
        <2>1. x.payload \o f.payload \in Seq(Byte)
            BY <1>1
        <2>. QED  BY <1>1, <1>3, <2>1 DEF Joined, Message
    <1>5. NextFrag(f, x) \in Message
        BY <1>2, <1>4 DEF NextFrag
    <1>6. NextDone(f, x, y) = y \/ \E m \in Message : NextDone(f, x, y) = Append(y, m)
        BY <1>3, <1>4 DEF NextDone
    <1>7. NextDone(f, x, y) \in Seq(Message)
        BY <1>6
    <1>8. ASSUME NEW t \in Seq(Message), IsPrefix(t, y)  PROVE IsPrefix(t, NextDone(f, x, y))
        BY <1>6, <1>8, PrefixGrows
    <1>. QED  BY <1>5, <1>7, <1>8

\* The halves of a sequence over T are sequences over T.
LEMMA HalvesTyped ==
    ASSUME NEW S, NEW T, T \subseteq S, NEW a \in Seq(S), NEW b \in Seq(S), a \o b \in Seq(T)
    PROVE  a \in Seq(T) /\ b \in Seq(T)
    <1> DEFINE w == a \o b
    <1>1. /\ Len(w) = Len(a) + Len(b)
          /\ \A j \in 1 .. Len(a) : w[j] = a[j]
          /\ \A j \in 1 .. Len(b) : w[Len(a) + j] = b[j]
        BY ConcatAt
    <1>2. w \in Seq(T)
        OBVIOUS
    <1> HIDE DEF w
    <1>3. \A j \in 1 .. Len(a) : a[j] \in T
        BY <1>1, <1>2
    <1>4. \A j \in 1 .. Len(b) : b[j] \in T
        <2>1. SUFFICES ASSUME NEW j \in 1 .. Len(b)  PROVE b[j] \in T
            OBVIOUS
        <2>2. Len(a) + j \in 1 .. Len(w)
            BY <1>1
        <2>. QED  BY <1>1, <1>2, <2>2
    <1>. QED  BY <1>3, <1>4

\* A sequence with nothing after it, and one with nothing before it.
LEMMA WithNothing ==
    ASSUME NEW T, NEW a \in Seq(T)
    PROVE  <<>> \o a = a /\ a \o <<>> = a /\ <<>> \in Seq(T)
    OBVIOUS

-----------------------------------------------------------------------------
(* What the daemon sends *)

\* The stages after one more frame on the wire.
Longer(G, f) == {At(s.rest \o OnWire(f), s.frag, s.done) : s \in G}

\* A frame is bytes, and never none.
LEMMA WireTyped ==
    ASSUME NEW f \in Frame
    PROVE  OnWire(f) \in Seq(Byte) /\ Len(OnWire(f)) >= 2
    <1>1. /\ OnWire(f) \in Seq(Byte) /\ Len(f.payload) \in Nat
          /\ Len(OnWire(f)) = HeaderLen(Len(f.payload)) + Len(f.payload)
        BY WireShape
    <1>2. HeaderLen(Len(f.payload)) \in {2, 4, 10}
        BY DEF HeaderLen
    <1>. QED  BY <1>1, <1>2

\* A stage that a frame led somewhere still leads there with more on the wire.
LEMMA StillFollows ==
    ASSUME NEW G, NEW A, NEW E, NEW A2, NEW E2, NEW o, NEW H, G \subseteq Stage,
           NEW f \in Frame, NEW s \in G, NEW g \in Frame, NEW r \in Seq(Byte),
           s.rest = OnWire(g) \o r, Legal(g, s.frag),
           At(r, NextFrag(g, s.frag), NextDone(g, s.frag, s.done)) \in G,
           Longer(G, f) \subseteq H
    PROVE  Follows(At(s.rest \o OnWire(f), s.frag, s.done), H, A2, E2, o)
    <1> DEFINE t == At(s.rest \o OnWire(f), s.frag, s.done)
               m == At(r, NextFrag(g, s.frag), NextDone(g, s.frag, s.done))
    <1>1. OnWire(g) \in Seq(Byte) /\ OnWire(f) \in Seq(Byte)
        BY WireTyped
    <1>2. /\ (OnWire(g) \o r) \o OnWire(f) = OnWire(g) \o (r \o OnWire(f))
          /\ r \o OnWire(f) \in Seq(Byte)
        BY <1>1, ConcatAssoc
    <1>3. t.rest = OnWire(g) \o (r \o OnWire(f)) /\ t.frag = s.frag /\ t.done = s.done
        BY <1>2 DEF At
    <1>4. m.rest = r /\ m.frag = NextFrag(g, s.frag) /\ m.done = NextDone(g, s.frag, s.done)
        BY AtFields
    <1>5. m \in G
        OBVIOUS
    <1> HIDE DEF m
    <1>6. At(m.rest \o OnWire(f), m.frag, m.done) \in H
        BY <1>5 DEF Longer
    <1>7. At(r \o OnWire(f), NextFrag(g, s.frag), NextDone(g, s.frag, s.done)) \in H
        BY <1>4, <1>6
    <1> HIDE DEF t
    <1>8. Follows(t, H, A2, E2, o)
        BY <1>2, <1>3, <1>7 DEF Follows
    <1>. QED  BY <1>8 DEF t

\* One more legal frame: the stages gain its bytes, and there is a new last one.
LEMMA LegalSent ==
    ASSUME NEW r, NEW x, NEW y, NEW A \in Message, NEW E \in Seq(Message), NEW o \in BOOLEAN,
           NEW f \in Frame, Legal(f, A), Explained(r, x, y, A, E, FALSE)
    PROVE  Explained(r \o OnWire(f), x, y, NextFrag(f, A), NextDone(f, A, E), o)
    <1> DEFINE w == OnWire(f)
               A2 == NextFrag(f, A)
               E2 == NextDone(f, A, E)
               last == At(<<>>, A2, E2)
    <1>1. PICK G : Leads(G, A, E, FALSE) /\ At(r, x, y) \in G
        BY DEF Explained
    <1> DEFINE H == Longer(G, f) \cup {last}
    <1>2. G \subseteq Stage
        BY <1>1 DEF Leads
    <1>3. w \in Seq(Byte) /\ <<>> \in Seq(Byte) /\ w \o <<>> = w /\ <<>> \o w = w
        BY WireTyped
    <1>4. A2 \in Message /\ E2 \in Seq(Message) /\ \A t \in Seq(Message) : IsPrefix(t, E) => IsPrefix(t, E2)
        BY LegalTyped
    <1>5. last \in Stage
        BY <1>3, <1>4, AtTyped
    <1>6. ASSUME NEW s \in G
          PROVE  LET t == At(s.rest \o w, s.frag, s.done)
                 IN  t \in Stage /\ Follows(t, H, A2, E2, o) /\ IsPrefix(t.done, E2)
        <2> DEFINE t == At(s.rest \o w, s.frag, s.done)
        <2>1. /\ s.rest \in Seq(Byte) /\ s.frag \in Message /\ s.done \in Seq(Message)
              /\ s = At(s.rest, s.frag, s.done)
            BY <1>2, AtStage
        <2>2. s.rest \o w \in Seq(Byte)
            BY <1>3, <2>1
        <2>3. t \in Stage
            BY <2>1, <2>2, AtTyped
        <2>4. t.rest = s.rest \o w /\ t.frag = s.frag /\ t.done = s.done
            BY DEF At
        <2>5. Follows(s, G, A, E, FALSE) /\ IsPrefix(s.done, E)
            BY <1>1 DEF Leads
        <2>6. IsPrefix(t.done, E2)
            BY <1>4, <2>1, <2>4, <2>5
        <2>7. ASSUME s = At(<<>>, A, E)  PROVE Follows(t, H, A2, E2, o)
            <3>1. s.rest = <<>> /\ s.frag = A /\ s.done = E
                BY <2>7, AtFields
            <3>2. t.rest = w \o <<>> /\ t.frag = A /\ t.done = E
                BY <1>3, <2>4, <3>1
            <3>3. At(<<>>, NextFrag(f, t.frag), NextDone(f, t.frag, t.done)) \in H
                BY <3>2
            <3>4. Legal(f, t.frag)
                BY <3>2
            <3> HIDE DEF t, H
            <3>. QED  BY <1>3, <3>2, <3>3, <3>4 DEF Follows, t
        <2>8. ASSUME NEW g \in Frame, NEW q \in Seq(Byte), s.rest = OnWire(g) \o q, Legal(g, s.frag),
                     At(q, NextFrag(g, s.frag), NextDone(g, s.frag, s.done)) \in G
              PROVE  Follows(t, H, A2, E2, o)
            <3>1. Longer(G, f) \subseteq H
                OBVIOUS
            <3> HIDE DEF H, A2, E2
            <3>2. Follows(At(s.rest \o OnWire(f), s.frag, s.done), H, A2, E2, o)
                BY <1>2, <2>8, <3>1, StillFollows
            <3>. QED  BY <3>2
        <2>9. Follows(t, H, A2, E2, o)
            <3> HIDE DEF t, H, A2, E2
            <3>. QED  BY <2>5, <2>7, <2>8 DEF Follows
        <2>. QED  BY <2>3, <2>6, <2>9
    <1>7. Follows(last, H, A2, E2, o) /\ IsPrefix(last.done, E2)
        <2>1. last.done = E2
            BY AtFields
        <2>2. IsPrefix(E2, E2)
            BY <1>4 DEF IsPrefix
        <2>. QED  BY <2>1, <2>2 DEF Follows
    <1>8. Leads(H, A2, E2, o)
        <2> HIDE DEF A2, E2, last
        <2>. QED  BY <1>5, <1>6, <1>7 DEF Leads, Longer
    <1>9. At(r \o w, x, y) \in H
        BY <1>1, AtFields DEF Longer
    <1>. QED  BY <1>8, <1>9 DEF Explained

\* An illegal frame at the end of everything leads nowhere.
LEMMA IllegalSent ==
    ASSUME NEW r, NEW x, NEW y, NEW A \in Message, NEW E \in Seq(Message),
           NEW f \in Frame, Illegal(f, A), Explained(r, x, y, A, E, FALSE)
    PROVE  Explained(r \o OnWire(f), x, y, A, E, TRUE)
    <1> DEFINE w == OnWire(f)
    <1>1. PICK G : Leads(G, A, E, FALSE) /\ At(r, x, y) \in G
        BY DEF Explained
    <1> DEFINE H == Longer(G, f)
    <1>2. G \subseteq Stage
        BY <1>1 DEF Leads
    <1>3. w \in Seq(Byte) /\ <<>> \o w = w
        BY WireTyped
    <1>4. ASSUME NEW s \in G
          PROVE  LET t == At(s.rest \o w, s.frag, s.done)
                 IN  t \in Stage /\ Follows(t, H, A, E, TRUE) /\ IsPrefix(t.done, E)
        <2> DEFINE t == At(s.rest \o w, s.frag, s.done)
        <2>1. s.rest \in Seq(Byte) /\ s.frag \in Message /\ s.done \in Seq(Message)
            BY <1>2, AtStage
        <2>2. s.rest \o w \in Seq(Byte)
            BY <1>3, <2>1
        <2>3. t \in Stage
            BY <2>1, <2>2, AtTyped
        <2>4. t.rest = s.rest \o w /\ t.frag = s.frag /\ t.done = s.done
            BY DEF At
        <2>5. Follows(s, G, A, E, FALSE) /\ IsPrefix(s.done, E)
            BY <1>1 DEF Leads
        <2>6. ASSUME s = At(<<>>, A, E)  PROVE Follows(t, H, A, E, TRUE)
            <3>1. s.rest = <<>> /\ s.frag = A
                BY <2>6, AtFields
            <3>2. t.rest = OnWire(f) /\ Illegal(f, t.frag)
                BY <1>3, <2>4, <3>1
            <3> HIDE DEF t, H
            <3>. QED  BY <3>2 DEF Follows, t
        <2>7. ASSUME NEW g \in Frame, NEW q \in Seq(Byte), s.rest = OnWire(g) \o q, Legal(g, s.frag),
                     At(q, NextFrag(g, s.frag), NextDone(g, s.frag, s.done)) \in G
              PROVE  Follows(t, H, A, E, TRUE)
            <3>1. Longer(G, f) \subseteq H
                OBVIOUS
            <3> HIDE DEF H
            <3>2. Follows(At(s.rest \o OnWire(f), s.frag, s.done), H, A, E, TRUE)
                BY <1>2, <2>7, <3>1, StillFollows
            <3>. QED  BY <3>2
        <2>8. Follows(t, H, A, E, TRUE)
            <3> HIDE DEF t, H
            <3>. QED  BY <2>5, <2>6, <2>7 DEF Follows
        <2>. QED  BY <2>3, <2>4, <2>5, <2>8
    <1>5. Leads(H, A, E, TRUE)
        BY <1>4 DEF Leads, Longer
    <1>6. At(r \o w, x, y) \in H
        BY <1>1, AtFields DEF Longer
    <1>. QED  BY <1>5, <1>6 DEF Explained

-----------------------------------------------------------------------------
(* What the client reads *)

\* What is returned is always a front of what was sent.
LEMMA ExplainedTyped ==
    ASSUME NEW r, NEW x, NEW y, NEW A, NEW E, NEW o, Explained(r, x, y, A, E, o)
    PROVE  /\ r \in Seq(Byte) /\ x \in Message /\ y \in Seq(Message) /\ IsPrefix(y, E)
           /\ r = <<>> => y = E
    <1>1. PICK G : Leads(G, A, E, o) /\ At(r, x, y) \in G
        BY DEF Explained
    <1> DEFINE s == At(r, x, y)
    <1>2. s.rest = r /\ s.frag = x /\ s.done = y
        BY AtFields
    <1>3. s \in Stage /\ Follows(s, G, A, E, o) /\ IsPrefix(s.done, E)
        BY <1>1 DEF Leads
    <1> HIDE DEF s
    <1>4. r \in Seq(Byte) /\ x \in Message /\ y \in Seq(Message) /\ IsPrefix(y, E)
        BY <1>2, <1>3, AtStage
    <1>5. ASSUME r = <<>>  PROVE y = E
        <2>1. ASSUME NEW f \in Frame, NEW q \in Seq(Byte)  PROVE <<>> # OnWire(f) \o q /\ <<>> # OnWire(f)
            BY WireTyped
        <2>2. \A f \in Frame : OnWire(f) # <<>>
            BY WireTyped
        <2>3. s = At(<<>>, A, E)
            BY <1>2, <1>3, <1>5, <2>1, <2>2 DEF Follows
        <2>4. s.done = E
            BY <2>3, AtFields
        <2>. QED  BY <1>2, <2>4
    <1>. QED  BY <1>4, <1>5

\* A frame that parse_frame finds is the next one the daemon sent.  It leads to
\* the stage after it, or it is the illegal one at the end.
LEMMA FrameRead ==
    ASSUME NEW b \in Seq(Byte), NEW q \in Seq(Byte), NEW x, NEW y, NEW A, NEW E, NEW o,
           Explained(b \o q, x, y, A, E, o), ParseFrame(b).kind = "frame"
    PROVE  LET p == ParseFrame(b)
               t == SubSeq(b, p.used + 1, Len(b))
           IN  \E f \in Frame :
                  /\ f.fin = p.fin /\ f.opcode = p.opcode /\ f.payload = p.payload
                  /\ f.opcode < 16
                  /\ t \in Seq(Byte)
                  /\ \/ Legal(f, x) /\ Explained(t \o q, NextFrag(f, x), NextDone(f, x, y), A, E, o)
                     \/ Illegal(f, x)
    <1> DEFINE p == ParseFrame(b)
               t == SubSeq(b, p.used + 1, Len(b))
               s == At(b \o q, x, y)
    <1>1. PICK G : Leads(G, A, E, o) /\ At(b \o q, x, y) \in G
        BY DEF Explained
    <1>2. s.rest = b \o q /\ s.frag = x /\ s.done = y
        BY DEF At
    <1>3. s \in Stage /\ Follows(s, G, A, E, o)
        BY <1>1 DEF Leads
    <1>4. p.kind = "frame"
        OBVIOUS
    <1>5. s # At(<<>>, A, E)
        <2>1. SUFFICES ASSUME s.rest = <<>>  PROVE FALSE
            BY AtFields
        <2>2. Len(b) = 0
            <3>1. Len(b \o q) = Len(b) + Len(q) /\ Len(b) \in Nat /\ Len(q) \in Nat
                BY ConcatAt
            <3>2. b \o q = <<>>
                BY <1>2, <2>1
            <3>3. Len(b \o q) = 0
                BY <3>2
            <3>. QED  BY <3>1, <3>3
        <2>3. ParseFrame(b) = Incomplete
            BY <2>2 DEF ParseFrame
        <2>. QED  BY <1>4, <2>3 DEF Incomplete
    <1>6. ASSUME NEW f \in Frame, NEW r \in Seq(Byte), b \o q = OnWire(f) \o r
          PROVE  /\ f.fin = p.fin /\ f.opcode = p.opcode /\ f.payload = p.payload /\ f.opcode < 16
                 /\ t \in Seq(Byte) /\ t \o q = r
        <2>1. /\ f.opcode < 16 /\ p.fin = f.fin /\ p.opcode = f.opcode /\ p.payload = f.payload
              /\ p.used = Len(OnWire(f)) /\ Len(OnWire(f)) <= Len(b)
            BY <1>4, <1>6, ParseWire
        <2>2. OnWire(f) \in Seq(Byte)
            BY WireTyped
        <2>3. /\ SubSeq(b, Len(OnWire(f)) + 1, Len(b)) \in Seq(Byte)
              /\ SubSeq(b, Len(OnWire(f)) + 1, Len(b)) \o q = r
            <3>1. Arrived(b, q, OnWire(f), r)
                BY <1>6, <2>1 DEF Arrived
            <3>. QED  BY <2>2, <3>1, DropFront, Zenon
        <2> HIDE DEF p
        <2>. QED  BY <2>1, <2>3
    <1> HIDE DEF p, t, s
    <1>7. ASSUME NEW f \in Frame, NEW r \in Seq(Byte), s.rest = OnWire(f) \o r, Legal(f, s.frag),
                 At(r, NextFrag(f, s.frag), NextDone(f, s.frag, s.done)) \in G
          PROVE  /\ f.fin = p.fin /\ f.opcode = p.opcode /\ f.payload = p.payload /\ f.opcode < 16
                 /\ t \in Seq(Byte)
                 /\ Legal(f, x) /\ Explained(t \o q, NextFrag(f, x), NextDone(f, x, y), A, E, o)
        <2>1. b \o q = OnWire(f) \o r
            BY <1>2, <1>7
        <2>2. /\ f.fin = p.fin /\ f.opcode = p.opcode /\ f.payload = p.payload /\ f.opcode < 16
              /\ t \in Seq(Byte) /\ t \o q = r
            BY <1>6, <2>1
        <2>3. At(t \o q, NextFrag(f, x), NextDone(f, x, y)) \in G
            BY <1>2, <1>7, <2>2
        <2>4. Explained(t \o q, NextFrag(f, x), NextDone(f, x, y), A, E, o)
            BY <1>1, <2>3 DEF Explained
        <2>. QED  BY <1>2, <1>7, <2>2, <2>4
    <1>8. ASSUME NEW f \in Frame, s.rest = OnWire(f), Illegal(f, s.frag)
          PROVE  /\ f.fin = p.fin /\ f.opcode = p.opcode /\ f.payload = p.payload /\ f.opcode < 16
                 /\ t \in Seq(Byte) /\ Illegal(f, x)
        <2>1. OnWire(f) \in Seq(Byte)
            BY WireTyped
        <2>2. OnWire(f) \o <<>> = OnWire(f) /\ <<>> \in Seq(Byte)
            BY <2>1, WithNothing
        <2>3. b \o q = OnWire(f) \o <<>>
            BY <1>2, <1>8, <2>2
        <2>. QED  BY <1>2, <1>6, <1>8, <2>2, <2>3
    <1>9. \E f \in Frame :
             /\ f.fin = p.fin /\ f.opcode = p.opcode /\ f.payload = p.payload
             /\ f.opcode < 16
             /\ t \in Seq(Byte)
             /\ \/ Legal(f, x) /\ Explained(t \o q, NextFrag(f, x), NextDone(f, x, y), A, E, o)
                \/ Illegal(f, x)
        <2>1. CASE \E f \in Frame : \E r \in Seq(Byte) :
                      /\ s.rest = OnWire(f) \o r
                      /\ Legal(f, s.frag)
                      /\ At(r, NextFrag(f, s.frag), NextDone(f, s.frag, s.done)) \in G
            BY <1>7, <2>1
        <2>2. CASE \E f \in Frame : s.rest = OnWire(f) /\ Illegal(f, s.frag)
            BY <1>8, <2>2
        <2>. QED  BY <1>3, <1>5, <2>1, <2>2 DEF Follows
    <1>. QED  BY <1>9 DEF p, t

\* The head ends where its last byte is, and not before that has been read.
LEMMA HeadEnds ==
    ASSUME NEW c \in Seq(Byte \cup {HeadByte, HeadEnd}), NEW q \in Seq(Byte \cup {HeadByte, HeadEnd}),
           NEW R \in Seq(Byte), c \o q = Head101 \o R
    PROVE  /\ Head101 \in Seq(Byte \cup {HeadByte, HeadEnd}) /\ Len(Head101) = HeadLen
           /\ Len(c) < HeadLen => EndOfHead(c) = 0
           /\ Len(c) >= HeadLen => EndOfHead(c) = HeadLen
    <1> DEFINE S == Byte \cup {HeadByte, HeadEnd}
    <1>1. HeadLen \in Nat /\ HeadLen # 0
        BY WsClientAssumption
    <1>2. /\ Head101 \in Seq(S) /\ Len(Head101) = HeadLen
          /\ \A j \in 1 .. HeadLen : Head101[j] = IF j = HeadLen THEN HeadEnd ELSE HeadByte
        BY <1>1 DEF Head101
    <1>3. HeadByte # HeadEnd /\ HeadEnd \notin Byte
        BY DEF HeadByte, HeadEnd, Byte
    <1>4. R \in Seq(S) /\ \A j \in 1 .. Len(R) : R[j] \in Byte
        OBVIOUS
    <1> HIDE DEF S
    <1>5. /\ Len(c \o q) = Len(c) + Len(q)
          /\ \A j \in 1 .. Len(c) : (c \o q)[j] = c[j]
        BY ConcatAt
    <1>6. /\ Len(Head101 \o R) = HeadLen + Len(R)
          /\ \A j \in 1 .. HeadLen : (Head101 \o R)[j] = Head101[j]
          /\ \A j \in 1 .. Len(R) : (Head101 \o R)[HeadLen + j] = R[j]
        <2>1. /\ Len(Head101 \o R) = Len(Head101) + Len(R)
              /\ \A j \in 1 .. Len(Head101) : (Head101 \o R)[j] = Head101[j]
              /\ \A j \in 1 .. Len(R) : (Head101 \o R)[Len(Head101) + j] = R[j]
            <3>1. Head101 \in Seq(S) /\ R \in Seq(S)
                BY <1>2, <1>4
            <3>2. ASSUME NEW a \in Seq(S), NEW b \in Seq(S)
                  PROVE  /\ Len(a \o b) = Len(a) + Len(b)
                         /\ \A j \in 1 .. Len(a) : (a \o b)[j] = a[j]
                         /\ \A j \in 1 .. Len(b) : (a \o b)[Len(a) + j] = b[j]
                BY <3>2
            <3>. QED  BY <3>1, <3>2, Zenon
        <2>. QED  BY <1>2, <2>1, Zenon
    <1>7. Len(c) \in Nat /\ Len(q) \in Nat /\ Len(R) \in Nat
        OBVIOUS
    <1>8. ASSUME NEW j \in 1 .. Len(c)  PROVE c[j] = HeadEnd <=> j = HeadLen
        <2>1. CASE j <= HeadLen
            <3>1. j \in 1 .. HeadLen
                BY <1>1, <1>7, <2>1
            <3>2. c[j] = Head101[j]
                BY <1>5, <1>6, <3>1
            <3>. QED  BY <1>2, <1>3, <3>1, <3>2
        <2>2. CASE ~(j <= HeadLen)
            <3>1. j - HeadLen \in 1 .. Len(R) /\ HeadLen + (j - HeadLen) = j
                BY <1>1, <1>5, <1>6, <1>7, <2>2
            <3>2. c[j] = R[j - HeadLen]
                BY <1>5, <1>6, <3>1
            <3>. QED  BY <1>3, <1>4, <2>2, <3>1, <3>2
        <2>. QED  BY <2>1, <2>2
    <1>9. ASSUME Len(c) < HeadLen  PROVE EndOfHead(c) = 0
        <2>1. ~ \E j \in 1 .. Len(c) : c[j] = HeadEnd
            BY <1>1, <1>7, <1>8, <1>9
        <2>. QED  BY <2>1 DEF EndOfHead
    <1>10. ASSUME Len(c) >= HeadLen  PROVE EndOfHead(c) = HeadLen
        <2>1. HeadLen \in 1 .. Len(c)
            BY <1>1, <1>7, <1>10
        <2>2. \E j \in 1 .. Len(c) : c[j] = HeadEnd
            BY <1>8, <2>1
        <2>3. (CHOOSE j \in 1 .. Len(c) : c[j] = HeadEnd) = HeadLen
            BY <1>8, <2>2
        <2>. QED  BY <2>2, <2>3 DEF EndOfHead
    <1>. QED  BY <1>2, <1>9, <1>10 DEF S

-----------------------------------------------------------------------------
(* The inductive invariant *)

StreamByte == Byte \cup {HeadByte, HeadEnd}

StreamTypes ==
    /\ wpc \in {"head", "session", "parse", "read", "gone"}
    /\ buf \in Seq(StreamByte) /\ wire \in Seq(StreamByte)
    /\ frag \in Message /\ partial \in Message
    /\ done \in Seq(Message) /\ events \in Seq(Message)
    /\ sent_close \in BOOLEAN /\ over \in BOOLEAN

\* Before the session: the head is on its way, with frames after it that explain
\* what the client is to return.
AfterHead(b, w, x, y, A, E, o) ==
    /\ Len(b) < HeadLen
    /\ \E R \in Seq(Byte) : b \o w = Head101 \o R /\ Explained(R, x, y, A, E, o)

\* In the session: what is read and what is on the wire explain it.
InSession(b, w, x, y, A, E, o) ==
    b \in Seq(Byte) /\ w \in Seq(Byte) /\ Explained(b \o w, x, y, A, E, o)

WsInv ==
    /\ StreamTypes
    /\ wpc = "head" => AfterHead(buf, wire, frag, done, partial, events, over)
    /\ wpc \in {"session", "parse", "read"} => InSession(buf, wire, frag, done, partial, events, over)
    /\ StreamOrder

\* The invariant holds at the start: nothing is sent and nothing returned.
LEMMA WsInvInit == WsInit => WsInv
    <1>. SUFFICES ASSUME WsInit  PROVE WsInv
        OBVIOUS
    <1>1. HeadLen \in Nat /\ HeadLen # 0
        BY WsClientAssumption
    <1>2. Head101 \in Seq(StreamByte) /\ Len(Head101) = HeadLen
        BY <1>1 DEF Head101, StreamByte
    <1>3. NoMessage \in Message
        BY DEF NoMessage, Message, Continuation
    <1>4. <<>> \in Seq(Byte) /\ <<>> \in Seq(Message) /\ <<>> \in Seq(StreamByte)
        OBVIOUS
    <1>5. IsPrefix(<<>>, <<>>)
        BY <1>4, PrefixGrows, <1>3
    <1>6. Explained(<<>>, NoMessage, <<>>, NoMessage, <<>>, FALSE)
        <2> DEFINE s == At(<<>>, NoMessage, <<>>)
        <2>1. s \in Stage
            BY <1>3, <1>4, AtTyped
        <2>2. s.done = <<>>
            BY AtFields
        <2>3. Leads({s}, NoMessage, <<>>, FALSE)
            BY <1>5, <2>1, <2>2 DEF Leads, Follows
        <2>. QED  BY <2>3 DEF Explained
    <1>7. <<>> \o Head101 = Head101 \o <<>> /\ Len(<<>>) = 0
        BY <1>2, WithNothing
    <1>8. AfterHead(<<>>, Head101, NoMessage, <<>>, NoMessage, <<>>, FALSE)
        <2>1. Len(<<>>) < HeadLen
            BY <1>1, <1>7
        <2>2. <<>> \o Head101 = Head101 \o <<>>
            BY <1>7
        <2>. QED  BY <1>4, <1>6, <2>1, <2>2, Zenon DEF AfterHead
    <1>9. StreamTypes
        BY <1>2, <1>3, <1>4 DEF WsInit, StreamTypes
    <1>. QED  BY <1>5, <1>8, <1>9 DEF WsInit, WsInv, StreamOrder

\* What one more frame does to what the client is to return.
Sent(f, A, E, A2, E2, o2) ==
    \/ Legal(f, A) /\ A2 = NextFrag(f, A) /\ E2 = NextDone(f, A, E)
    \/ Illegal(f, A) /\ A2 = A /\ E2 = E /\ o2

\* A frame of the daemon only adds to what the client is to return.
LEMMA SentTyped ==
    ASSUME NEW f \in Frame, NEW A \in Message, NEW E \in Seq(Message), NEW A2, NEW E2, NEW o2,
           Sent(f, A, E, A2, E2, o2)
    PROVE  /\ A2 \in Message /\ E2 \in Seq(Message)
           /\ \A t \in Seq(Message) : IsPrefix(t, E) => IsPrefix(t, E2)
    <1>1. CASE Legal(f, A) /\ A2 = NextFrag(f, A) /\ E2 = NextDone(f, A, E)
        <2>1. /\ NextFrag(f, A) \in Message /\ NextDone(f, A, E) \in Seq(Message)
              /\ \A t \in Seq(Message) : IsPrefix(t, E) => IsPrefix(t, NextDone(f, A, E))
            BY <1>1, LegalTyped
        <2>. QED  BY <1>1, <2>1
    <1>2. CASE Illegal(f, A) /\ A2 = A /\ E2 = E /\ o2
        BY <1>2
    <1>. QED  BY <1>1, <1>2 DEF Sent

\* With its bytes on the wire, the client still gets to where the daemon is.
LEMMA SentExplained ==
    ASSUME NEW f \in Frame, NEW A \in Message, NEW E \in Seq(Message), NEW A2, NEW E2,
           NEW o2 \in BOOLEAN, Sent(f, A, E, A2, E2, o2),
           NEW r, NEW x, NEW y, Explained(r, x, y, A, E, FALSE)
    PROVE  Explained(r \o OnWire(f), x, y, A2, E2, o2)
    <1>1. CASE Legal(f, A) /\ A2 = NextFrag(f, A) /\ E2 = NextDone(f, A, E)
        <2>1. Explained(r \o OnWire(f), x, y, NextFrag(f, A), NextDone(f, A, E), o2)
            BY <1>1, LegalSent
        <2>. QED  BY <1>1, <2>1
    <1>2. CASE Illegal(f, A) /\ A2 = A /\ E2 = E /\ o2
        <2>1. o2 = TRUE
            BY <1>2
        <2>. QED  BY <1>2, <2>1, IllegalSent
    <1>. QED  BY <1>1, <1>2 DEF Sent

\* Any frame the daemon sends keeps the invariant.
LEMMA EmitKeeps ==
    ASSUME NEW f \in Frame, WsInv, Emit(f.fin, f.opcode, f.payload), over' \in BOOLEAN,
           Sent(f, partial, events, partial', events', over')
    PROVE  WsInv'
    <1> DEFINE w == OnWire(f)
    <1>1. /\ wire' = wire \o w /\ wpc' = wpc /\ buf' = buf /\ frag' = frag /\ done' = done
          /\ sent_close' = sent_close /\ ~over
        BY DEF Emit, OnWire, clientVars
    <1>2. StreamTypes
        BY DEF WsInv
    <1>3. w \in Seq(Byte) /\ w \in Seq(StreamByte)
        BY WireTyped DEF StreamByte
    <1>4. partial \in Message /\ events \in Seq(Message) /\ over = FALSE
        BY <1>1, <1>2 DEF StreamTypes
    <1>5. /\ partial' \in Message /\ events' \in Seq(Message)
          /\ \A t \in Seq(Message) : IsPrefix(t, events) => IsPrefix(t, events')
          /\ \A r, x, y : Explained(r, x, y, partial, events, FALSE) =>
                Explained(r \o w, x, y, partial', events', over')
        <2>1. /\ partial' \in Message /\ events' \in Seq(Message)
              /\ \A t \in Seq(Message) : IsPrefix(t, events) => IsPrefix(t, events')
            BY <1>4, SentTyped
        <2>2. ASSUME NEW r, NEW x, NEW y, Explained(r, x, y, partial, events, FALSE)
              PROVE  Explained(r \o w, x, y, partial', events', over')
            BY <1>4, <2>2, SentExplained
        <2>. QED  BY <2>1, <2>2
    <1>6. wire \o w \in Seq(StreamByte)
        BY <1>2, <1>3 DEF StreamTypes
    <1>7. StreamTypes'
        BY <1>1, <1>2, <1>5, <1>6 DEF StreamTypes
    <1>8. StreamOrder'
        BY <1>1, <1>2, <1>5 DEF WsInv, StreamOrder, StreamTypes
    <1>9. ASSUME wpc = "head"  PROVE AfterHead(buf, wire \o w, frag, done, partial', events', over')
        <2>1. AfterHead(buf, wire, frag, done, partial, events, FALSE)
            BY <1>4, <1>9 DEF WsInv
        <2>2. PICK R \in Seq(Byte) : buf \o wire = Head101 \o R /\ Explained(R, frag, done, partial, events, FALSE)
            BY <2>1 DEF AfterHead
        <2>3. Explained(R \o w, frag, done, partial', events', over')
            BY <1>5, <2>2
        <2>4. Head101 \in Seq(StreamByte) /\ R \in Seq(StreamByte) /\ R \o w \in Seq(Byte)
            BY <1>3, WsClientAssumption DEF Head101, StreamByte
        <2>5. buf \in Seq(StreamByte) /\ wire \in Seq(StreamByte)
            BY <1>2 DEF StreamTypes
        <2>6. (buf \o wire) \o w = buf \o (wire \o w)
            BY <1>3, <2>5, ConcatAssoc
        <2>7. (Head101 \o R) \o w = Head101 \o (R \o w)
            BY <1>3, <2>4, ConcatAssoc
        <2>8. buf \o (wire \o w) = Head101 \o (R \o w)
            BY <2>2, <2>6, <2>7
        <2>. QED  BY <2>1, <2>3, <2>4, <2>8 DEF AfterHead
    <1>10. ASSUME wpc \in {"session", "parse", "read"}
           PROVE  InSession(buf, wire \o w, frag, done, partial', events', over')
        <2>1. buf \in Seq(Byte) /\ wire \in Seq(Byte) /\ Explained(buf \o wire, frag, done, partial, events, FALSE)
            BY <1>4, <1>10 DEF WsInv, InSession
        <2>2. Explained((buf \o wire) \o w, frag, done, partial', events', over')
            BY <1>5, <2>1
        <2>3. (buf \o wire) \o w = buf \o (wire \o w) /\ wire \o w \in Seq(Byte)
            <3>1. (buf \o wire) \o w = buf \o (wire \o w)
                BY <1>3, <2>1
            <3>2. wire \o w \in Seq(Byte)
                BY <1>3, <2>1
            <3>. QED  BY <3>1, <3>2
        <2>. QED  BY <2>1, <2>2, <2>3 DEF InSession
    <1> HIDE DEF w
    <1>. QED  BY <1>1, <1>7, <1>8, <1>9, <1>10 DEF WsInv

\* Whatever the daemon does keeps the invariant.
LEMMA DaemonKeeps ==
    ASSUME WsInv, Daemon
    PROVE  WsInv'
    <1> USE DEF Continuation, Text, Binary, Close, Ping, Pong
    <1>1. partial \in Message /\ over \in BOOLEAN
        BY DEF WsInv, StreamTypes
    <1>2. \A p \in Payloads : p \in Seq(Byte) /\ Len(p) <= MaxLength
        BY WsClientAssumption
    <1>3. <<>> \in Seq(Byte) /\ Len(<<>>) <= MaxLength
        BY SMT DEF MaxLength
    <1>4. ASSUME NEW opcode \in {Text, Binary}, NEW p \in Payloads, NEW fin \in BOOLEAN, SendPart(opcode, p, fin)
          PROVE  WsInv'
        <2> DEFINE op == IF partial = NoMessage THEN opcode ELSE Continuation
                   f == [fin |-> fin, opcode |-> op, payload |-> p]
        <2>1. f \in Frame /\ f.fin = fin /\ f.opcode = op /\ f.payload = p
            <3>1. op \in 0 .. 31
                OBVIOUS
            <3> HIDE DEF op
            <3>. QED  BY <1>2, <3>1 DEF Frame
        <2>2. Emit(f.fin, f.opcode, f.payload) /\ over' = over
            BY <1>4 DEF SendPart
        <2>3. CASE partial = NoMessage
            <3>1. /\ events' = IF fin THEN Append(events, [opcode |-> opcode, payload |-> p]) ELSE events
                  /\ partial' = IF fin THEN NoMessage ELSE [opcode |-> opcode, payload |-> p]
                BY <1>4, <2>3 DEF SendPart
            <3>2. op = opcode
                BY <2>3
            <3>3. Sent(f, partial, events, partial', events', over')
                BY <2>3, <3>1, <3>2 DEF Sent, Legal, NextFrag, NextDone, Joined
            <3>. QED  BY <1>1, <2>1, <2>2, <3>3, EmitKeeps
        <2>4. CASE partial # NoMessage
            <3> DEFINE whole == [partial EXCEPT !.payload = @ \o p]
            <3>1. /\ events' = IF fin THEN Append(events, whole) ELSE events
                  /\ partial' = IF fin THEN NoMessage ELSE whole
                BY <1>4, <2>4 DEF SendPart
            <3>2. op = Continuation
                BY <2>4
            <3>3. whole = [opcode |-> partial.opcode, payload |-> partial.payload \o p]
                <4> DEFINE pp == partial.payload \o p
                <4>1. whole = [partial EXCEPT !.payload = pp]
                    OBVIOUS
                <4> HIDE DEF pp, whole
                <4>2. whole = [opcode |-> partial.opcode, payload |-> pp]
                    BY <1>1, <4>1 DEF Message
                <4>. QED  BY <4>2 DEF pp
            <3>4. Sent(f, partial, events, partial', events', over')
                BY <2>4, <3>1, <3>2, <3>3 DEF Sent, Legal, NextFrag, NextDone, Joined
            <3>. QED  BY <1>1, <2>1, <2>2, <3>4, EmitKeeps
        <2>. QED  BY <2>3, <2>4
    <1>5. ASSUME NEW p \in Payloads, SendPing(p)  PROVE WsInv'
        <2> DEFINE f == [fin |-> TRUE, opcode |-> Ping, payload |-> p]
        <2>1. f \in Frame /\ f.fin = TRUE /\ f.opcode = Ping /\ f.payload = p
            BY <1>2 DEF Frame
        <2>2. Emit(f.fin, f.opcode, f.payload) /\ over' = over
            BY <1>5 DEF SendPing
        <2>3. Sent(f, partial, events, partial', events', over')
            BY <1>5 DEF SendPing, Sent, Legal, NextFrag, NextDone
        <2>. QED  BY <1>1, <2>1, <2>2, <2>3, EmitKeeps
    <1>6. ASSUME NEW p \in Payloads, SendPong(p)  PROVE WsInv'
        <2> DEFINE f == [fin |-> TRUE, opcode |-> Pong, payload |-> p]
        <2>1. f \in Frame /\ f.fin = TRUE /\ f.opcode = Pong /\ f.payload = p
            BY <1>2 DEF Frame
        <2>2. Emit(f.fin, f.opcode, f.payload) /\ over' = over
            BY <1>6 DEF SendPong
        <2>3. Sent(f, partial, events, partial', events', over')
            BY <1>6 DEF SendPong, Sent, Legal, NextFrag, NextDone
        <2>. QED  BY <1>1, <2>1, <2>2, <2>3, EmitKeeps
    <1>7. ASSUME SendClose  PROVE WsInv'
        <2> DEFINE f == [fin |-> TRUE, opcode |-> Close, payload |-> <<>>]
        <2>1. f \in Frame /\ f.fin = TRUE /\ f.opcode = Close /\ f.payload = <<>>
            BY <1>3 DEF Frame
        <2>2. Emit(f.fin, f.opcode, f.payload) /\ over' = TRUE
            BY <1>7 DEF SendClose
        <2>3. Sent(f, partial, events, partial', events', over')
            BY <1>7 DEF SendClose, Sent, Legal, NextFrag, NextDone
        <2>. QED  BY <2>1, <2>2, <2>3, EmitKeeps
    <1>8. ASSUME SendIllegal  PROVE WsInv'
        <2>1. \E op \in {3, 17, 0} : Emit(TRUE, op, <<>>) /\ (op = 0 => partial = NoMessage)
            <3>1. \/ Emit(TRUE, 3, <<>>)
                  \/ Emit(TRUE, 16 + Text, <<>>)
                  \/ partial = NoMessage /\ Emit(TRUE, 0, <<>>)
                BY <1>8 DEF SendIllegal
            <3>2. 16 + Text = 17 /\ 3 # 0 /\ 17 # 0
                OBVIOUS
            <3>. QED  BY <3>1, <3>2, Zenon
        <2>2. PICK op \in {3, 17, 0} : Emit(TRUE, op, <<>>) /\ (op = 0 => partial = NoMessage)
            BY <2>1
        <2> DEFINE f == [fin |-> TRUE, opcode |-> op, payload |-> <<>>]
        <2>3. f \in Frame /\ f.fin = TRUE /\ f.opcode = op /\ f.payload = <<>>
            BY <1>3 DEF Frame
        <2>4. Emit(f.fin, f.opcode, f.payload)
            BY <2>2
        <2>5. over' = TRUE /\ events' = events /\ partial' = partial
            BY <1>8 DEF SendIllegal
        <2>6. Sent(f, partial, events, partial', events', over')
            BY <2>2, <2>5 DEF Sent, Illegal
        <2>. QED  BY <2>3, <2>4, <2>5, <2>6, EmitKeeps
    <1>. QED  BY <1>4, <1>5, <1>6, <1>7, <1>8 DEF Daemon

\* What a read takes from the wire it adds to what is read.
LEMMA ReadMoves ==
    ASSUME StreamTypes, NEW n \in 1 .. Chunk, Reads(n)
    PROVE  /\ wire' = SubSeq(wire, n + 1, Len(wire))
           /\ Received(n) \in Seq(StreamByte) /\ wire' \in Seq(StreamByte)
           /\ Received(n) \o wire' = buf \o wire
    <1>1. n \in 0 .. Len(wire) /\ wire' = SubSeq(wire, n + 1, Len(wire))
        BY WsClientAssumption DEF Reads, StreamTypes
    <1>2. buf \in Seq(StreamByte) /\ wire \in Seq(StreamByte)
        BY DEF StreamTypes
    <1> DEFINE f == SubSeq(wire, 1, n)
               t == SubSeq(wire, n + 1, Len(wire))
    <1>3. f \in Seq(StreamByte) /\ t \in Seq(StreamByte) /\ f \o t = wire
        <2>1. n \in 0 .. Len(wire)
            BY <1>1
        <2>2. f \in Seq(StreamByte) /\ t \in Seq(StreamByte)
            BY <1>2, <2>1, FrontAndRest
        <2>3. f \o t = wire
            BY <1>2, <2>1, Rejoined, Zenon
        <2>. QED  BY <2>2, <2>3
    <1> HIDE DEF f, t
    <1>4. buf \o f \in Seq(StreamByte) /\ (buf \o f) \o t = buf \o wire
        <2>1. buf \in Seq(StreamByte) /\ f \in Seq(StreamByte) /\ t \in Seq(StreamByte)
            BY <1>2, <1>3
        <2>2. (buf \o f) \o t = buf \o (f \o t) /\ buf \o f \in Seq(StreamByte)
            <3>1. (buf \o f) \o t = buf \o (f \o t)
                BY <2>1
            <3>2. buf \o f \in Seq(StreamByte)
                BY <2>1
            <3>. QED  BY <3>1, <3>2
        <2>. QED  BY <1>3, <2>2
    <1>5. Received(n) = buf \o f /\ wire' = t
        BY <1>1 DEF Received, f, t
    <1>. QED  BY <1>1, <1>3, <1>4, <1>5

\* The handshake hands the session exactly the frames that follow the head.
LEMMA ReadHeadKeeps ==
    ASSUME WsInv, NEW n \in 1 .. Chunk, ReadHead(n)
    PROVE  WsInv'
    <1> DEFINE c == Received(n)
    <1>1. /\ wpc = "head" /\ Reads(n) /\ frag' = frag /\ done' = done /\ sent_close' = sent_close
          /\ partial' = partial /\ events' = events /\ over' = over
        BY DEF ReadHead, daemonVars
    <1>2. IF EndOfHead(c) = 0
          THEN buf' = c /\ wpc' = wpc
          ELSE /\ buf' = SubSeq(c, EndOfHead(c) + 1, Len(c))
               /\ wpc' = IF accepts THEN "session" ELSE "gone"
        BY DEF ReadHead
    <1>3. StreamTypes /\ StreamOrder
        BY DEF WsInv
    <1>4. AfterHead(buf, wire, frag, done, partial, events, over)
        BY <1>1 DEF WsInv
    <1>5. PICK R \in Seq(Byte) : buf \o wire = Head101 \o R /\ Explained(R, frag, done, partial, events, over)
        BY <1>4 DEF AfterHead
    <1>6. c \in Seq(StreamByte) /\ wire' \in Seq(StreamByte) /\ c \o wire' = Head101 \o R
        BY <1>1, <1>3, <1>5, ReadMoves
    <1> HIDE DEF c
    <1>7. /\ Head101 \in Seq(StreamByte) /\ Len(Head101) = HeadLen
          /\ Len(c) < HeadLen => EndOfHead(c) = 0
          /\ Len(c) >= HeadLen => EndOfHead(c) = HeadLen
        <2>1. /\ c \in Seq(Byte \cup {HeadByte, HeadEnd}) /\ wire' \in Seq(Byte \cup {HeadByte, HeadEnd})
              /\ c \o wire' = Head101 \o R
            BY <1>6 DEF StreamByte
        <2>2. /\ Head101 \in Seq(Byte \cup {HeadByte, HeadEnd}) /\ Len(Head101) = HeadLen
              /\ Len(c) < HeadLen => EndOfHead(c) = 0
              /\ Len(c) >= HeadLen => EndOfHead(c) = HeadLen
            BY <2>1, HeadEnds
        <2>. QED  BY <2>2 DEF StreamByte
    <1>8. HeadLen \in Nat /\ HeadLen # 0 /\ Len(c) \in Nat
        BY <1>6, WsClientAssumption
    <1>9. CASE Len(c) < HeadLen
        <2>1. buf' = c /\ wpc' = "head"
            BY <1>1, <1>2, <1>7, <1>9
        <2>2. AfterHead(c, wire', frag, done, partial, events, over)
            BY <1>5, <1>6, <1>9 DEF AfterHead
        <2>3. StreamTypes'
            BY <1>1, <1>3, <1>6, <2>1 DEF StreamTypes
        <2>. QED  BY <1>1, <1>3, <2>1, <2>2, <2>3 DEF WsInv, StreamOrder
    <1>10. CASE Len(c) >= HeadLen
        <2> DEFINE t == SubSeq(c, HeadLen + 1, Len(c))
        <2>1. buf' = t /\ wpc' \in {"session", "gone"}
            BY <1>2, <1>7, <1>8, <1>10
        <2>2. R \in Seq(StreamByte)
            BY DEF StreamByte
        <2>3. t \in Seq(StreamByte) /\ t \o wire' = R
            <3>1. /\ c \in Seq(StreamByte) /\ wire' \in Seq(StreamByte) /\ Head101 \in Seq(StreamByte)
                  /\ c \o wire' = Head101 \o R /\ Len(Head101) <= Len(c)
                BY <1>6, <1>7, <1>8, <1>10
            <3>2. /\ SubSeq(c, Len(Head101) + 1, Len(c)) \in Seq(StreamByte)
                  /\ SubSeq(c, Len(Head101) + 1, Len(c)) \o wire' = R
                <4>1. ASSUME NEW a \in Seq(StreamByte), NEW b \in Seq(StreamByte), NEW h \in Seq(StreamByte),
                             NEW r \in Seq(StreamByte), Arrived(a, b, h, r)
                      PROVE  /\ SubSeq(a, Len(h) + 1, Len(a)) \in Seq(StreamByte)
                             /\ SubSeq(a, Len(h) + 1, Len(a)) \o b = r
                    BY <4>1, DropFront, Zenon
                <4>2. Arrived(c, wire', Head101, R)
                    BY <3>1 DEF Arrived
                <4>. QED  BY <2>2, <3>1, <4>1, <4>2, Zenon
            <3>. QED  BY <1>7, <3>2
        <2> HIDE DEF t
        <2>4. t \in Seq(Byte) /\ wire' \in Seq(Byte)
            <3>1. Byte \subseteq StreamByte /\ t \o wire' \in Seq(Byte)
                BY <2>3 DEF StreamByte
            <3>. QED  BY <1>6, <2>3, <3>1, HalvesTyped
        <2>5. InSession(t, wire', frag, done, partial, events, over)
            BY <1>5, <2>3, <2>4 DEF InSession
        <2>6. StreamTypes'
            BY <1>1, <1>3, <1>6, <2>1, <2>3 DEF StreamTypes
        <2>. QED  BY <1>1, <1>3, <2>1, <2>5, <2>6 DEF WsInv, StreamOrder
    <1>. QED  BY <1>8, <1>9, <1>10

\* A read in the session moves bytes and changes nothing else.
LEMMA ReadSomeKeeps ==
    ASSUME WsInv, NEW n \in 1 .. Chunk, ReadSome(n)
    PROVE  WsInv'
    <1> DEFINE c == Received(n)
    <1>1. /\ wpc = "read" /\ wpc' = "parse" /\ Reads(n) /\ buf' = c
          /\ frag' = frag /\ done' = done /\ sent_close' = sent_close
          /\ partial' = partial /\ events' = events /\ over' = over
        BY DEF ReadSome, daemonVars
    <1>2. StreamTypes /\ StreamOrder
        BY DEF WsInv
    <1>3. /\ buf \in Seq(Byte) /\ wire \in Seq(Byte)
          /\ Explained(buf \o wire, frag, done, partial, events, over)
        BY <1>1 DEF WsInv, InSession
    <1>4. c \in Seq(StreamByte) /\ wire' \in Seq(StreamByte) /\ c \o wire' = buf \o wire
        BY <1>1, <1>2, ReadMoves
    <1> HIDE DEF c
    <1>5. c \in Seq(Byte) /\ wire' \in Seq(Byte)
        <2>1. buf \o wire \in Seq(Byte)
            BY <1>3
        <2>2. Byte \subseteq StreamByte /\ c \o wire' \in Seq(Byte)
            BY <1>4, <2>1 DEF StreamByte
        <2>. QED  BY <1>4, <2>2, HalvesTyped
    <1>6. InSession(c, wire', frag, done, partial, events, over)
        BY <1>3, <1>4, <1>5 DEF InSession
    <1>7. StreamTypes'
        BY <1>1, <1>2, <1>4 DEF StreamTypes
    <1>. QED  BY <1>1, <1>2, <1>6, <1>7 DEF WsInv, StreamOrder

\* One frame of the while let: the client moves on to the next stage, or is gone.
LEMMA OneFrameKeeps ==
    ASSUME WsInv, OneFrame
    PROVE  WsInv'
    <1> DEFINE p == ParseFrame(buf)
               t == SubSeq(buf, p.used + 1, Len(buf))
    <1>1. /\ wpc = "parse" /\ p.kind = "frame" /\ buf' = t /\ wire' = wire
          /\ partial' = partial /\ events' = events /\ over' = over
        BY DEF OneFrame, daemonVars
    <1>2. \/ Control(p) /\ frag' = frag
          \/ Data(p) /\ sent_close' = sent_close
          \/ /\ p.opcode \notin {Continuation, Text, Binary, Close, Ping, Pong}
             /\ wpc' = "gone"
             /\ frag' = frag /\ sent_close' = sent_close /\ done' = done
        BY DEF OneFrame
    <1>3. StreamTypes /\ StreamOrder
        BY DEF WsInv
    <1>4. /\ buf \in Seq(Byte) /\ wire \in Seq(Byte)
          /\ Explained(buf \o wire, frag, done, partial, events, over)
        BY <1>1 DEF WsInv, InSession
    <1>5. PICK f \in Frame :
             /\ f.fin = p.fin /\ f.opcode = p.opcode /\ f.payload = p.payload
             /\ f.opcode < 16
             /\ t \in Seq(Byte)
             /\ \/ /\ Legal(f, frag)
                   /\ Explained(t \o wire, NextFrag(f, frag), NextDone(f, frag, done), partial, events, over)
                \/ Illegal(f, frag)
        <2>1. p.kind = "frame"
            BY <1>1
        <2>. QED  BY <1>4, <2>1, FrameRead
    <1> HIDE DEF p, t
    <1>6. sent_close' \in BOOLEAN
        <2>1. ASSUME Control(p)  PROVE sent_close' \in {TRUE, sent_close}
            BY <2>1 DEF Control
        <2>. QED  BY <1>2, <1>3, <2>1 DEF StreamTypes
    <1>7. frag \in Message /\ frag = [opcode |-> frag.opcode, payload |-> frag.payload]
        BY <1>3 DEF StreamTypes, Message
    <1>8. \/ wpc' = "gone" /\ done' = done /\ frag' = frag
          \/ /\ wpc' \in {"parse", "session", "gone"} /\ Legal(f, frag)
             /\ frag' = NextFrag(f, frag) /\ done' = NextDone(f, frag, done)
        <2> USE DEF Continuation, Text, Binary, Close, Ping, Pong
        <2>1. CASE Control(p) /\ frag' = frag
            BY <1>1, <1>5, <2>1 DEF Control, Legal, NextFrag, NextDone
        <2>2. CASE Data(p)
            <3>1. CASE /\ p.opcode \in {Text, Binary}
                       /\ \/ p.fin /\ Deliver(p.opcode, p.payload) /\ UNCHANGED frag
                          \/ /\ ~p.fin
                             /\ frag' = [opcode |-> p.opcode, payload |-> p.payload]
                             /\ UNCHANGED <<wpc, done>>
                <4>1. frag = NoMessage /\ Legal(f, frag)
                    BY <1>5, <3>1 DEF Legal, Illegal
                <4>2. CASE p.fin /\ Deliver(p.opcode, p.payload) /\ UNCHANGED frag
                    BY <1>5, <3>1, <4>1, <4>2 DEF Deliver, NextFrag, NextDone, Joined
                <4>3. CASE /\ ~p.fin
                           /\ frag' = [opcode |-> p.opcode, payload |-> p.payload]
                           /\ UNCHANGED <<wpc, done>>
                    <5>1. f.opcode \in {Text, Binary} /\ f.fin = FALSE
                        BY <1>5, <3>1, <4>3 DEF Frame
                    <5>2. Joined(f, frag) = [opcode |-> p.opcode, payload |-> p.payload]
                        BY <1>5, <5>1 DEF Joined
                    <5>3. NextFrag(f, frag) = Joined(f, frag) /\ NextDone(f, frag, done) = done
                        BY <5>1 DEF NextFrag, NextDone
                    <5>. QED  BY <1>1, <4>1, <4>3, <5>2, <5>3
                <4>. QED  BY <3>1, <4>2, <4>3
            <3>2. CASE /\ p.opcode = Continuation
                       /\ frag # NoMessage
                       /\ \/ p.fin /\ Deliver(frag.opcode, frag.payload \o p.payload) /\ frag' = NoMessage
                          \/ /\ ~p.fin
                             /\ frag' = [frag EXCEPT !.payload = frag.payload \o p.payload]
                             /\ UNCHANGED <<wpc, done>>
                <4> DEFINE whole == frag.payload \o p.payload
                <4>1. Legal(f, frag) /\ Joined(f, frag) = [opcode |-> frag.opcode, payload |-> whole]
                    BY <1>5, <3>2 DEF Legal, Joined
                <4>2. \/ p.fin /\ Deliver(frag.opcode, whole) /\ frag' = NoMessage
                      \/ ~p.fin /\ frag' = [frag EXCEPT !.payload = whole] /\ UNCHANGED <<wpc, done>>
                    BY <3>2, Zenon
                <4> HIDE DEF whole
                <4>3. [frag EXCEPT !.payload = whole] = [opcode |-> frag.opcode, payload |-> whole]
                    BY <1>7 DEF Message
                <4>4. f.opcode = Continuation /\ f.fin = p.fin /\ f.fin \in BOOLEAN
                    BY <1>5, <3>2 DEF Frame
                <4>5. CASE p.fin /\ Deliver(frag.opcode, whole) /\ frag' = NoMessage
                    BY <4>1, <4>4, <4>5 DEF Deliver, NextFrag, NextDone
                <4>6. CASE ~p.fin /\ frag' = [frag EXCEPT !.payload = whole] /\ UNCHANGED <<wpc, done>>
                    <5>1. NextFrag(f, frag) = Joined(f, frag) /\ NextDone(f, frag, done) = done
                        BY <4>4, <4>6 DEF NextFrag, NextDone
                    <5>. QED  BY <1>1, <4>1, <4>3, <4>6, <5>1
                <4>. QED  BY <4>2, <4>5, <4>6
            <3>3. CASE p.opcode = Continuation /\ frag = NoMessage /\ wpc' = "gone" /\ UNCHANGED <<done, frag>>
                BY <3>3
            <3>. QED  BY <2>2, <3>1, <3>2, <3>3, Zenon DEF Data
        <2>. QED  BY <1>2, <2>1, <2>2
    <1>9. CASE wpc' = "gone" /\ done' = done /\ frag' = frag
        <2>1. t \in Seq(StreamByte)
            BY <1>5 DEF StreamByte
        <2>2. StreamTypes'
            BY <1>1, <1>3, <1>6, <1>9, <2>1 DEF StreamTypes
        <2>. QED  BY <1>1, <1>3, <1>9, <2>2 DEF WsInv, StreamOrder
    <1>10. CASE /\ wpc' \in {"parse", "session", "gone"} /\ Legal(f, frag)
                /\ frag' = NextFrag(f, frag) /\ done' = NextDone(f, frag, done)
        <2>1. Explained(t \o wire, frag', done', partial, events, over)
            <3>1. ~Illegal(f, frag)
                BY <1>5, <1>10 DEF Legal, Illegal, Continuation, Text, Binary, Close, Ping, Pong
            <3>. QED  BY <1>5, <1>10, <3>1
        <2>2. InSession(t, wire, frag', done', partial, events, over)
            BY <1>4, <1>5, <2>1 DEF InSession
        <2>3. frag' \in Message /\ done' \in Seq(Message) /\ IsPrefix(done', events)
            BY <2>1, ExplainedTyped
        <2>4. t \in Seq(StreamByte)
            BY <1>5 DEF StreamByte
        <2>5. StreamTypes'
            BY <1>1, <1>3, <1>6, <1>10, <2>3, <2>4 DEF StreamTypes
        <2>. QED  BY <1>1, <1>10, <2>2, <2>3, <2>5 DEF WsInv, StreamOrder
    <1>. QED  BY <1>8, <1>9, <1>10

\* The client's other steps touch nothing but its control state.
LEMMA ControlKeeps ==
    ASSUME WsInv, HeadFails \/ Call \/ SessionFails \/ NoFrame \/ ReadTimeout \/ ReadInterrupted \/ ReadFails \/ UNCHANGED wsVars
    PROVE  WsInv'
    <1>1. /\ buf' = buf /\ wire' = wire /\ frag' = frag /\ done' = done /\ sent_close' = sent_close
          /\ partial' = partial /\ events' = events /\ over' = over
        BY DEF HeadFails, Call, SessionFails, NoFrame, ReadTimeout, ReadInterrupted, ReadFails, wsVars, clientVars, daemonVars
    <1>2. \/ wpc' = wpc
          \/ wpc' = "gone"
          \/ wpc \in {"session", "parse", "read"} /\ wpc' \in {"session", "parse", "read"}
        BY DEF HeadFails, Call, SessionFails, NoFrame, ReadTimeout, ReadInterrupted, ReadFails, wsVars, clientVars
    <1>3. StreamTypes'
        BY <1>1, <1>2 DEF WsInv, StreamTypes
    <1>. QED  BY <1>1, <1>2, <1>3 DEF WsInv, StreamOrder

\* The invariant holds in every reachable state.
LEMMA WsInvariant == WsSpec => []WsInv
    <1>1. WsInit => WsInv
        BY WsInvInit
    <1>2. WsInv /\ [WsNext]_wsVars => WsInv'
        <2>. SUFFICES ASSUME WsInv, [WsNext]_wsVars  PROVE WsInv'
            OBVIOUS
        <2>1. CASE Daemon
            BY <2>1, DaemonKeeps
        <2>2. ASSUME NEW n \in 1 .. Chunk, ReadHead(n)  PROVE WsInv'
            BY <2>2, ReadHeadKeeps
        <2>3. ASSUME NEW n \in 1 .. Chunk, ReadSome(n)  PROVE WsInv'
            BY <2>3, ReadSomeKeeps
        <2>4. CASE OneFrame
            BY <2>4, OneFrameKeeps
        <2>5. CASE HeadFails \/ Call \/ SessionFails \/ NoFrame \/ ReadTimeout \/ ReadInterrupted \/ ReadFails \/ UNCHANGED wsVars
            BY <2>5, ControlKeeps
        <2>. QED  BY <2>1, <2>2, <2>3, <2>4, <2>5 DEF WsNext, Client
    <1>. QED  BY <1>1, <1>2, PTL DEF WsSpec

-----------------------------------------------------------------------------
(* The theorems *)

\* Every variable keeps its type: in the session nothing of the response head is
\* left in the buffer that parse_frame reads, whatever came with the head in one
\* read (connect of src/ws.rs).
THEOREM WsTypeCorrect == WsSpec => []WsTypeOK
    <1>1. WsInv => WsTypeOK
        BY DEF WsInv, StreamTypes, WsTypeOK, InSession, StreamByte
    <1>. QED  BY <1>1, WsInvariant, PTL

\* try_read_message returns the daemon's messages and answers its pings in the
\* order of the wire, none altered, twice or skipped, for frames of any length
\* and wherever the reads cut them.
THEOREM StreamInOrder == WsSpec => []StreamOrder
    <1>1. WsInv => StreamOrder
        BY DEF WsInv
    <1>. QED  BY <1>1, WsInvariant, PTL

\* A client with no byte left to look at and none on the wire has returned every
\* complete message: a timeout inside a frame or between fragments loses nothing.
THEOREM NothingIsHeldBack == WsSpec => []NothingHeldBack
    <1>1. ASSUME WsInv  PROVE NothingHeldBack
        <2>. SUFFICES ASSUME wpc \in {"session", "read"}, buf = <<>>, wire = <<>>  PROVE done = events
            BY DEF NothingHeldBack
        <2>1. Explained(buf \o wire, frag, done, partial, events, over)
            BY <1>1 DEF WsInv, InSession
        <2>2. buf \o wire = <<>>
            OBVIOUS
        <2>. QED  BY <2>1, <2>2, ExplainedTyped
    <1>. QED  BY <1>1, WsInvariant, PTL

-----------------------------------------------------------------------------
(* One frame on its way, masked or not *)

\* The mask bit is added to the first byte of the length and to no other.
LEMMA MaskedLength ==
    ASSUME NEW n \in Nat, n <= MaxLength, NEW z \in {0, 128}
    PROVE  /\ LengthBytes(n, z) \in Seq(Byte) /\ Len(LengthBytes(n, z)) = HeaderLen(n) - 1
           /\ LengthBytes(n, z)[1] = z + LengthBytes(n, 0)[1]
           /\ \A j \in 2 .. HeaderLen(n) - 1 : LengthBytes(n, z)[j] = LengthBytes(n, 0)[j]
    <1> DEFINE e == LengthBytes(n, z)
               c == LengthBytes(n, 0)
               Led1 == /\ e \in Seq(Byte) /\ Len(e) = HeaderLen(n) - 1 /\ e[1] = z + c[1]
                       /\ \A j \in 2 .. HeaderLen(n) - 1 : e[j] = c[j]
    <1>1. ASSUME n < 126  PROVE Led1
        <2>1. e = <<z + n>> /\ c = <<0 + n>> /\ HeaderLen(n) = 2
            BY <1>1 DEF LengthBytes, HeaderLen
        <2>2. z + n \in Byte
            BY <1>1 DEF Byte
        <2> HIDE DEF e, c
        <2>3. e \in Seq(Byte) /\ Len(e) = 1 /\ e[1] = z + n /\ c[1] = n /\ 2 .. 1 = {}
            BY <2>1, <2>2
        <2>. QED  BY <2>1, <2>3
    <1>2. ASSUME NEW d \in Seq(Byte), NEW x \in {126, 127}, e = <<z + x>> \o d, c = <<0 + x>> \o d,
                 HeaderLen(n) = 2 + Len(d)
          PROVE  Led1
        <2> DEFINE a == z + x
                   b == 0 + x
        <2>1. a \in Byte /\ b \in Byte /\ a = z + b
            BY DEF Byte
        <2> HIDE DEF e, c
        <2>2. e = <<a>> \o d /\ c = <<b>> \o d
            BY <1>2
        <2> HIDE DEF a, b
        <2>3. /\ e \in Seq(Byte) /\ Len(e) = 1 + Len(d) /\ e[1] = a
              /\ \A j \in 1 .. Len(d) : e[1 + j] = d[j]
            BY <2>1, <2>2, Led
        <2>4. /\ c[1] = b
              /\ \A j \in 1 .. Len(d) : c[1 + j] = d[j]
            BY <2>1, <2>2, Led
        <2>5. ASSUME NEW j \in 2 .. HeaderLen(n) - 1  PROVE e[j] = c[j]
            <3>1. j - 1 \in 1 .. Len(d) /\ 1 + (j - 1) = j
                BY <1>2
            <3>2. e[1 + (j - 1)] = d[j - 1] /\ c[1 + (j - 1)] = d[j - 1]
                BY <2>3, <2>4, <3>1, Zenon
            <3>. QED  BY <3>1, <3>2, Zenon
        <2>6. Len(e) = HeaderLen(n) - 1
            BY <1>2, <2>3
        <2>. QED  BY <2>1, <2>3, <2>4, <2>5, <2>6
    <1>3. ASSUME n >= 126, n <= 65535  PROVE Led1
        <2>1. e = <<z + 126>> \o ToBe16(n) /\ c = <<0 + 126>> \o ToBe16(n) /\ HeaderLen(n) = 4
            BY <1>3, SMT DEF LengthBytes, HeaderLen
        <2>2. ToBe16(n) \in Seq(Byte) /\ Len(ToBe16(n)) = 2
            BY SMT DEF ToBe16, Byte
        <2>3. HeaderLen(n) = 2 + Len(ToBe16(n)) /\ 126 \in {126, 127}
            BY <2>1, <2>2
        <2> HIDE DEF e, c, Led1
        <2>. QED  BY <1>2, <2>1, <2>2, <2>3, Zenon
    <1>4. ASSUME n > 65535  PROVE Led1
        <2>1. e = <<z + 127>> \o ToBe64(n) /\ c = <<0 + 127>> \o ToBe64(n) /\ HeaderLen(n) = 10
            BY <1>4, SMT DEF LengthBytes, HeaderLen
        <2>2. ToBe64(n) \in Seq(Byte) /\ Len(ToBe64(n)) = 8
            BY Digits
        <2>3. HeaderLen(n) = 2 + Len(ToBe64(n)) /\ 127 \in {126, 127}
            BY <2>1, <2>2
        <2> HIDE DEF e, c, Led1
        <2>. QED  BY <1>2, <2>1, <2>2, <2>3, Zenon
    <1>5. n < 126 \/ (n >= 126 /\ n <= 65535) \/ n > 65535
        OBVIOUS
    <1>6. Led1
        <2> HIDE DEF e, c, Led1
        <2>. QED  BY <1>1, <1>3, <1>4, <1>5
    <1>. QED  BY <1>6, Zenon

\* The header in b is h bytes, without reserved bits, and announces n bytes of
\* payload and a key of k bytes.
Announces(b, h, n, k) ==
    /\ Len(b) >= 2 => /\ (b[1] \div 16) % 8 = 0
                      /\ Extended(b[2] % 128) = h - 2
                      /\ b[2] >= 128 <=> k = 4
    /\ Len(b) >= h => FieldLen(b) = n

\* What parse_frame makes of such bytes.
LEMMA ParseIs ==
    ASSUME NEW b \in Seq(Byte), NEW h \in {2, 4, 10}, NEW n \in Nat, NEW k \in {0, 4}, Announces(b, h, n, k)
    PROVE  ParseFrame(b) =
               IF Len(b) < h THEN Incomplete
               ELSE IF n > MaxPayload THEN Refused
               ELSE IF Len(b) < h + k + n THEN Incomplete
               ELSE [kind |-> "frame", fin |-> b[1] >= 128, opcode |-> b[1] % 16,
                     payload |-> Masked(SubSeq(b, h + k + 1, h + k + n), SubSeq(b, h + 1, h + k)),
                     used |-> h + k + n]
    <1> DEFINE head == 2 + Extended(b[2] % 128)
               off == head + (IF b[2] >= 128 THEN 4 ELSE 0)
               len == FieldLen(b)
               frame == [kind |-> "frame", fin |-> b[1] >= 128, opcode |-> b[1] % 16,
                         payload |-> Masked(SubSeq(b, off + 1, off + len), SubSeq(b, head + 1, off)),
                         used |-> off + len]
    <1>1. ParseFrame(b) = IF Len(b) < 2 THEN Incomplete
                          ELSE IF (b[1] \div 16) % 8 # 0 THEN Refused
                          ELSE IF Len(b) < head THEN Incomplete
                          ELSE IF len > MaxPayload THEN Refused
                          ELSE IF Len(b) < off + len THEN Incomplete ELSE frame
        BY Zenon DEF ParseFrame, FieldLen
    <1>2. Len(b) >= 2 => head = h /\ off = h + k
        BY DEF Announces
    <1>3. Len(b) >= h => len = n
        BY DEF Announces
    <1>4. Len(b) \in Nat /\ h >= 2
        OBVIOUS
    <1> HIDE DEF head, off, len
    <1>5. CASE Len(b) < 2
        BY <1>1, <1>4, <1>5
    <1>6. CASE Len(b) >= 2 /\ Len(b) < h
        <2>1. (b[1] \div 16) % 8 = 0 /\ head = h
            BY <1>2, <1>6 DEF Announces
        <2> HIDE DEF frame
        <2>. QED  BY <1>1, <1>4, <1>6, <2>1
    <1>7. CASE Len(b) >= h
        <2>1. head = h /\ off = h + k /\ len = n /\ (b[1] \div 16) % 8 = 0
            BY <1>2, <1>3, <1>4, <1>7 DEF Announces
        <2>2. ParseFrame(b) = IF len > MaxPayload THEN Refused
                              ELSE IF Len(b) < off + len THEN Incomplete ELSE frame
            <3> HIDE DEF frame
            <3>. QED  BY <1>1, <1>4, <1>7, <2>1
        <2>3. frame = [kind |-> "frame", fin |-> b[1] >= 128, opcode |-> b[1] % 16,
                       payload |-> Masked(SubSeq(b, h + k + 1, h + k + n), SubSeq(b, h + 1, h + k)),
                       used |-> h + k + n]
            BY <2>1, Zenon
        <2> HIDE DEF frame
        <2>4. ~(Len(b) < h)
            BY <1>4, <1>7
        <2>. QED  BY <2>1, <2>2, <2>3, <2>4, Zenon
    <1>. QED  BY <1>4, <1>5, <1>6, <1>7

\* Masking twice with the same key gives the payload back.
LEMMA MaskedTwice ==
    ASSUME NEW p \in Seq(Byte), NEW key \in Seq(Byte), Len(key) \in {0, 4}
    PROVE  /\ Masked(p, key) \in Seq(Byte) /\ Len(Masked(p, key)) = Len(p)
           /\ Masked(Masked(p, key), key) = p
    <1>0. \A i \in 1 .. Len(key) : key[i] \in Byte
        OBVIOUS
    <1>1. CASE key = <<>>
        BY <1>1 DEF Masked
    <1>2. CASE key # <<>>
        <2> DEFINE L == Len(p)
                   K(j) == key[((j - 1) % 4) + 1]
                   m == [j \in 1 .. L |-> BitXor(p[j], K(j))]
        <2>1. Len(key) = 4 /\ L \in Nat
            BY <1>2
        <2>2. ASSUME NEW j \in 1 .. L  PROVE K(j) \in Byte /\ p[j] \in Byte
            <3>1. ((j - 1) % 4) + 1 \in 1 .. 4
                BY <2>1
            <3>2. \A i \in 1 .. 4 : key[i] \in Byte
                BY <1>0, <2>1, Zenon
            <3>3. p[j] \in Byte
                OBVIOUS
            <3>. QED  BY <3>1, <3>2, <3>3, Zenon
        <2> HIDE DEF K
        <2>3. \A j \in 1 .. L : BitXor(p[j], K(j)) \in Byte /\ BitXor(BitXor(p[j], K(j)), K(j)) = p[j]
            BY <2>2, WsFrameAssumption, Zenon
        <2>4. m \in [1 .. L -> Byte]
            BY <2>3
        <2>5. m \in Seq(Byte) /\ Len(m) = L /\ \A j \in 1 .. L : m[j] = BitXor(p[j], K(j))
            BY <2>1, <2>4
        <2>6. Masked(p, key) = m
            BY <1>2 DEF Masked, K
        <2> HIDE DEF m
        <2>7. Masked(m, key) = [j \in 1 .. L |-> BitXor(m[j], K(j))]
            BY <1>2, <2>5 DEF Masked, K
        <2>8. \A j \in 1 .. L : BitXor(m[j], K(j)) = p[j]
            BY <2>3, <2>5, Zenon
        <2>9. Masked(m, key) = [j \in 1 .. L |-> p[j]]
            BY <2>7, <2>8
        <2>10. [j \in 1 .. L |-> p[j]] = p
            OBVIOUS
        <2>. QED  BY <2>5, <2>6, <2>9, <2>10
    <1>. QED  BY <1>1, <1>2

\* w is a, c and d in a row.
Pieces(w, a, c, d) ==
    /\ w \in Seq(Byte) /\ Len(w) = Len(a) + Len(c) + Len(d)
    /\ \A j \in 1 .. Len(a) : w[j] = a[j]
    /\ \A j \in 1 .. Len(c) : w[Len(a) + j] = c[j]
    /\ \A j \in 1 .. Len(d) : w[Len(a) + Len(c) + j] = d[j]

\* What a concatenation of three is made of.
LEMMA ThreePieces ==
    ASSUME NEW a \in Seq(Byte), NEW c \in Seq(Byte), NEW d \in Seq(Byte)
    PROVE  Pieces((a \o c) \o d, a, c, d)
    <1> DEFINE s == a \o c
    <1>1. /\ s \in Seq(Byte) /\ Len(s) = Len(a) + Len(c)
          /\ \A j \in 1 .. Len(a) : s[j] = a[j]
          /\ \A j \in 1 .. Len(c) : s[Len(a) + j] = c[j]
        BY ConcatAt
    <1> HIDE DEF s
    <1>2. /\ s \o d \in Seq(Byte) /\ Len(s \o d) = Len(s) + Len(d)
          /\ \A j \in 1 .. Len(s) : (s \o d)[j] = s[j]
          /\ \A j \in 1 .. Len(d) : (s \o d)[Len(s) + j] = d[j]
        <2>1. s \in Seq(Byte)
            BY <1>1
        <2>. QED  BY <2>1, ConcatAt
    <1>3. \A j \in 1 .. Len(a) : j \in 1 .. Len(s)
        BY <1>1
    <1>4. \A j \in 1 .. Len(c) : Len(a) + j \in 1 .. Len(s)
        BY <1>1
    <1>5. \A j \in 1 .. Len(a) : (s \o d)[j] = a[j]
        BY <1>1, <1>2, <1>3, Zenon
    <1>6. \A j \in 1 .. Len(c) : (s \o d)[Len(a) + j] = c[j]
        BY <1>1, <1>2, <1>4, Zenon
    <1>7. \A j \in 1 .. Len(d) : (s \o d)[Len(a) + Len(c) + j] = d[j]
        BY <1>1, <1>2
    <1>. QED  BY <1>1, <1>2, <1>5, <1>6, <1>7 DEF s, Pieces

\* A piece of a sequence that holds p from its place i on.
LEMMA PieceIs ==
    ASSUME NEW b \in Seq(Byte), NEW p \in Seq(Byte), NEW i \in Nat, i + Len(p) <= Len(b),
           \A j \in 1 .. Len(p) : b[i + j] = p[j]
    PROVE  SubSeq(b, i + 1, i + Len(p)) = p
    <1> DEFINE L == Len(p)
               s == SubSeq(b, i + 1, i + L)
    <1>1. L \in Nat /\ i + L <= Len(b)
        OBVIOUS
    <1>2. s \in Seq(Byte) /\ Len(s) = L /\ \A j \in 1 .. L : s[j] = b[i + j]
        BY <1>1
    <1> HIDE DEF s
    <1>3. \A j \in 1 .. Len(s) : s[j] = p[j]
        BY <1>2
    <1>4. s = p
        BY <1>2, <1>3, SeqEqual
    <1>. QED  BY <1>4 DEF s

\* As far as b reaches it starts with the header of a final frame with opcode o,
\* n bytes of payload and the mask bit z.
Heads(b, o, n, z) ==
    /\ Len(b) >= 1 => b[1] = 128 + o
    /\ \A j \in 1 .. HeaderLen(n) - 1 : 1 + j <= Len(b) => b[1 + j] = LengthBytes(n, z)[j]

\* Two bytes that are there start a final frame with opcode o.
Opens(b, o) == Len(b) >= 2 => b[1] >= 128 /\ b[1] % 16 = o

KeyLen(z) == IF z = 128 THEN 4 ELSE 0

\* The header of a frame that is sent, as parse_frame sees it in the part of it
\* that has arrived.
LEMMA HeaderRead ==
    ASSUME NEW n \in Nat, n <= MaxLength, NEW o \in 0 .. 15, NEW z \in {0, 128}, NEW b \in Seq(Byte),
           Heads(b, o, n, z)
    PROVE  Opens(b, o) /\ Announces(b, HeaderLen(n), n, KeyLen(z))
    <1> DEFINE h == HeaderLen(n)
               e == LengthBytes(n, z)
               c == LengthBytes(n, 0)
    <1>1. h \in {2, 4, 10} /\ Len(b) \in Nat
        BY DEF HeaderLen
    <1>2. e[1] = z + c[1] /\ \A j \in 2 .. h - 1 : e[j] = c[j]
        BY MaskedLength
    <1>3. /\ n < 126 => c[1] = n
          /\ n >= 126 /\ n <= 65535 => c[1] = 126 /\ FromBe16(c, 1) = n
          /\ n > 65535 => c[1] = 127 /\ FromBe64(c, 1) = n
        BY LengthShape
    <1>4. \A j \in 1 .. h - 1 : 1 + j <= Len(b) => b[1 + j] = e[j]
        BY DEF Heads
    <1>5. Len(b) >= 1 => b[1] = 128 + o
        BY DEF Heads
    <1> HIDE DEF e, c
    <1>6. c[1] \in 0 .. 127
        <2> DEFINE x == c[1]
        <2>1. (x = n /\ n < 126) \/ x = 126 \/ x = 127
            BY <1>3
        <2> HIDE DEF x
        <2>2. CASE x = n /\ n < 126
            <3>1. n \in 0 .. 127
                BY <2>2
            <3>. QED  BY <2>2, <3>1 DEF x
        <2>3. CASE x = 126 \/ x = 127
            BY <2>3 DEF x
        <2>. QED  BY <2>1, <2>2, <2>3
    <1>7. Len(b) >= 2 => b[2] = z + c[1]
        BY <1>1, <1>2, <1>4
    <1>8. Len(b) >= 2 => b[2] % 128 = c[1] /\ (b[2] >= 128 <=> z = 128)
        <2> DEFINE x == c[1]
        <2>1. x \in 0 .. 127
            BY <1>6
        <2> HIDE DEF x
        <2>2. (z + x) % 128 = x /\ (z + x >= 128 <=> z = 128)
            BY <2>1
        <2>. QED  BY <1>7, <2>2 DEF x
    <1>9. Len(b) >= 2 => b[1] >= 128 /\ b[1] % 16 = o /\ (b[1] \div 16) % 8 = 0
        BY <1>1, <1>5
    <1>10. Extended(c[1]) = h - 2
        BY <1>3, SMT DEF Extended, HeaderLen
    <1>11. ASSUME Len(b) >= h  PROVE FieldLen(b) = n
        <2>1. b[2] % 128 = c[1]
            BY <1>1, <1>8, <1>11
        <2>2. ASSUME NEW j \in 1 .. h - 2  PROVE b[2 + j] = c[1 + j]
            <3>1. 1 + j \in 1 .. h - 1 /\ 1 + j \in 2 .. h - 1 /\ 1 + (1 + j) = 2 + j /\ 2 + j <= Len(b)
                BY <1>1, <1>11
            <3>2. b[1 + (1 + j)] = e[1 + j] /\ e[1 + j] = c[1 + j]
                BY <1>2, <1>4, <3>1
            <3>. QED  BY <3>1, <3>2
        <2>3. CASE n < 126
            BY <1>3, <2>1, <2>3 DEF FieldLen
        <2>4. CASE n >= 126 /\ n <= 65535
            <3>1. h - 2 = 2 /\ c[1] = 126 /\ FromBe16(c, 1) = n
                BY <1>3, <2>4, SMT DEF HeaderLen
            <3>2. \A j \in 1 .. 2 : b[2 + j] = c[1 + j]
                BY <2>2, <3>1, Zenon
            <3>3. FromBe16(b, 2) = n
                BY <3>1, <3>2, SameLength
            <3>. QED  BY <2>1, <3>1, <3>3 DEF FieldLen
        <2>5. CASE n > 65535
            <3>1. h - 2 = 8 /\ c[1] = 127 /\ FromBe64(c, 1) = n
                BY <1>3, <2>5, SMT DEF HeaderLen
            <3>2. \A j \in 1 .. 8 : b[2 + j] = c[1 + j]
                BY <2>2, <3>1, Zenon
            <3>3. FromBe64(b, 2) = n
                BY <3>1, <3>2, SameLength
            <3>. QED  BY <2>1, <3>1, <3>3 DEF FieldLen
        <2>. QED  BY <2>3, <2>4, <2>5, SMT
    <1>12. Announces(b, h, n, KeyLen(z))
        BY <1>8, <1>9, <1>10, <1>11 DEF Announces, KeyLen
    <1>. QED  BY <1>9, <1>12 DEF Opens

\* What parse_frame makes of the first cut bytes of the frame w and what follows:
\* the frame, once it is there.
Outcome(o, p, w, cut) ==
    IF cut < HeaderLen(Len(p)) THEN Incomplete
    ELSE IF Len(p) > MaxPayload THEN Refused
    ELSE IF cut < Len(w) THEN Incomplete
    ELSE [kind |-> "frame", fin |-> TRUE, opcode |-> o, payload |-> p, used |-> Len(w)]

MaskBit(key) == IF key = <<>> THEN 0 ELSE 128

\* w is a final frame: its first byte, the length, the key and the masked payload.
Framed(w, o, p, key) ==
    LET h == HeaderLen(Len(p))
        k == Len(key)
    IN  /\ w \in Seq(Byte) /\ Len(w) = h + k + Len(p) /\ w[1] = 128 + o
        /\ \A j \in 1 .. h - 1 : w[1 + j] = LengthBytes(Len(p), MaskBit(key))[j]
        /\ \A j \in 1 .. k : w[h + j] = key[j]
        /\ \A j \in 1 .. Len(p) : w[h + k + j] = Masked(p, key)[j]

\* A payload and a key as encode_frame takes them.
Sendable(p, key) == p \in Seq(Byte) /\ key \in Seq(Byte) /\ Len(p) <= MaxLength /\ Len(key) \in {0, 4}

LEMMA SendableFacts ==
    ASSUME NEW p, NEW key, Sendable(p, key)
    PROVE  /\ Len(p) \in Nat /\ HeaderLen(Len(p)) \in {2, 4, 10} /\ MaskBit(key) \in {0, 128}
           /\ Len(key) = 4 <=> MaskBit(key) = 128
    <1> DEFINE k == Len(key)
    <1>1. k \in {0, 4} /\ (key = <<>> <=> k = 0) /\ Len(p) \in Nat
        BY DEF Sendable
    <1>2. HeaderLen(Len(p)) \in {2, 4, 10}
        BY DEF HeaderLen
    <1> HIDE DEF k
    <1>3. MaskBit(key) \in {0, 128} /\ (k = 4 <=> MaskBit(key) = 128)
        BY <1>1 DEF MaskBit
    <1>. QED  BY <1>1, <1>2, <1>3 DEF k

\* What encode_frame makes.
LEMMA EncodedShape ==
    ASSUME NEW o \in 0 .. 15, NEW p, NEW key, Sendable(p, key)
    PROVE  Framed(EncodeFrame(o, p, key), o, p, key)
    <1> DEFINE n == Len(p)
               h == HeaderLen(n)
               z == MaskBit(key)
               e == LengthBytes(n, z)
               a == <<128 + o>> \o e
               m == Masked(p, key)
               w == EncodeFrame(o, p, key)
    <1>1. n \in Nat /\ n <= MaxLength /\ h \in {2, 4, 10} /\ z \in {0, 128} /\ key \in Seq(Byte)
        <2>1. n \in Nat /\ h \in {2, 4, 10} /\ z \in {0, 128}
            BY SendableFacts
        <2>. QED  BY <2>1 DEF Sendable
    <1>2. m \in Seq(Byte) /\ Len(m) = n
        BY MaskedTwice DEF Sendable
    <1>3. w = (a \o key) \o m
        BY DEF EncodeFrame, Wire, MaskBit
    <1> HIDE DEF n, h, z, m, w
    <1>4. e \in Seq(Byte) /\ Len(e) = h - 1
        BY <1>1, MaskedLength DEF h
    <1> HIDE DEF e
    <1>5. a \in Seq(Byte) /\ Len(a) = h /\ a[1] = 128 + o /\ \A j \in 1 .. h - 1 : a[1 + j] = e[j]
        <2>1. 128 + o \in Byte
            BY DEF Byte
        <2> DEFINE x == 128 + o
        <2> HIDE DEF x
        <2>2. /\ <<x>> \o e \in Seq(Byte) /\ Len(<<x>> \o e) = 1 + Len(e) /\ (<<x>> \o e)[1] = x
              /\ \A j \in 1 .. Len(e) : (<<x>> \o e)[1 + j] = e[j]
            BY <1>4, <2>1, Led DEF x
        <2>3. 1 + Len(e) = h
            BY <1>1, <1>4
        <2>. QED  BY <1>4, <2>2, <2>3, Zenon DEF x
    <1> HIDE DEF a
    <1>6. Pieces(w, a, key, m)
        BY <1>1, <1>2, <1>3, <1>5, ThreePieces
    <1>7. /\ w \in Seq(Byte) /\ Len(w) = h + Len(key) + n
          /\ \A j \in 1 .. h : w[j] = a[j]
          /\ \A j \in 1 .. Len(key) : w[h + j] = key[j]
          /\ \A j \in 1 .. n : w[h + Len(key) + j] = m[j]
        BY <1>2, <1>5, <1>6, Zenon DEF Pieces
    <1>8. 1 \in 1 .. h /\ \A j \in 1 .. h - 1 : 1 + j \in 1 .. h
        BY <1>1
    <1>9. w[1] = 128 + o /\ \A j \in 1 .. h - 1 : w[1 + j] = e[j]
        BY <1>5, <1>7, <1>8, Zenon
    <1>. QED  BY <1>7, <1>9, Zenon DEF Framed, n, h, z, e, m, w

\* What parse_frame makes of every beginning of the stream u that starts with
\* the frame w.
Parses(u, o, p, w) == \A x \in 0 .. Len(u) : ParseFrame(SubSeq(u, 1, x)) = Outcome(o, p, w, x)

\* A frame whose first cut bytes have arrived, with other bytes behind it.
LEMMA TripParsed ==
    ASSUME NEW o \in 0 .. 15, NEW p, NEW key, Sendable(p, key), NEW q \in Seq(Byte),
           NEW w, Framed(w, o, p, key)
    PROVE  Parses(w \o q, o, p, w)
    <1> SUFFICES ASSUME NEW cut \in 0 .. Len(w \o q)  PROVE ParseFrame(SubSeq(w \o q, 1, cut)) = Outcome(o, p, w, cut)
        BY DEF Parses
    <1> DEFINE n == Len(p)
               k == Len(key)
               h == HeaderLen(n)
               z == MaskBit(key)
               e == LengthBytes(n, z)
               m == Masked(p, key)
               b == SubSeq(w \o q, 1, cut)
    <1>1. /\ n \in Nat /\ n <= MaxLength /\ h \in {2, 4, 10} /\ z \in {0, 128}
          /\ k \in {0, 4} /\ (k = 4 <=> z = 128) /\ key \in Seq(Byte)
        BY SendableFacts DEF Sendable
    <1>2. m \in Seq(Byte) /\ Len(m) = n /\ Masked(m, key) = p
        BY MaskedTwice DEF Sendable
    <1>6. /\ w \in Seq(Byte) /\ Len(w) = h + k + n /\ w[1] = 128 + o
          /\ \A j \in 1 .. h - 1 : w[1 + j] = e[j]
          /\ \A j \in 1 .. k : w[h + j] = key[j]
          /\ \A j \in 1 .. n : w[h + k + j] = m[j]
        BY Zenon DEF Framed
    <1> HIDE DEF n, k, h, z, e, m
    <1>a. h \in Nat /\ k \in Nat
        BY <1>1
    <1>7. /\ b \in Seq(Byte) /\ Len(b) = cut /\ cut \in Nat
          /\ \A j \in 1 .. Len(w) : j <= cut => b[j] = w[j]
        <2>1. w \o q \in Seq(Byte) /\ \A j \in 1 .. Len(w) : (w \o q)[j] = w[j]
            <3>1. w \in Seq(Byte)
                BY <1>6
            <3>. QED  BY <3>1, ConcatAt
        <2> DEFINE v == w \o q
        <2>2. v \in Seq(Byte) /\ cut \in 0 .. Len(v)
            BY <2>1
        <2> HIDE DEF v
        <2>3. LET s == SubSeq(v, 1, cut) IN s \in Seq(Byte) /\ Len(s) = cut /\ \A j \in 1 .. cut : s[j] = v[j]
            BY <2>2
        <2>4. \A j \in 1 .. Len(w) : j <= cut => b[j] = v[j]
            BY <1>6, <2>3 DEF v
        <2>. QED  BY <2>1, <2>2, <2>3, <2>4 DEF v
    <1> HIDE DEF b
    <1>8. Len(w) \in Nat /\ h <= Len(w) /\ 1 \in 1 .. Len(w)
        BY <1>1, <1>6
    <1>9. Len(b) >= 1 => b[1] = 128 + o
        BY <1>6, <1>7, <1>8
    <1>10. ASSUME NEW j \in 1 .. h - 1, 1 + j <= Len(b)  PROVE b[1 + j] = e[j]
        <2>1. 1 + j \in 1 .. Len(w) /\ 1 + j <= cut
            BY <1>1, <1>6, <1>7, <1>10
        <2>2. b[1 + j] = w[1 + j] /\ w[1 + j] = e[j]
            BY <1>6, <1>7, <2>1, Zenon
        <2>. QED  BY <2>2
    <1>11. Opens(b, o) /\ Announces(b, h, n, k)
        <2>1. n \in Nat /\ n <= MaxLength /\ z \in {0, 128} /\ b \in Seq(Byte)
            BY <1>1, <1>7
        <2>2. Heads(b, o, n, z)
            BY <1>9, <1>10 DEF Heads, h, e
        <2>3. k = KeyLen(z)
            BY <1>1 DEF KeyLen
        <2>4. Opens(b, o) /\ Announces(b, HeaderLen(n), n, KeyLen(z))
            BY <2>1, <2>2, HeaderRead
        <2>. QED  BY <2>3, <2>4 DEF h
    <1> DEFINE frame == [kind |-> "frame", fin |-> b[1] >= 128, opcode |-> b[1] % 16,
                         payload |-> Masked(SubSeq(b, h + k + 1, h + k + n), SubSeq(b, h + 1, h + k)),
                         used |-> h + k + n]
    <1>12. ParseFrame(b) = IF Len(b) < h THEN Incomplete
                           ELSE IF n > MaxPayload THEN Refused
                           ELSE IF Len(b) < h + k + n THEN Incomplete ELSE frame
        <2>1. h \in {2, 4, 10} /\ n \in Nat /\ k \in {0, 4} /\ b \in Seq(Byte)
            BY <1>1, <1>7
        <2>. QED  BY <1>11, <2>1, ParseIs
    <1>13. ASSUME cut >= Len(w)
           PROVE  frame = [kind |-> "frame", fin |-> TRUE, opcode |-> o, payload |-> p, used |-> Len(w)]
        <2>1. b[1] >= 128 /\ b[1] % 16 = o
            BY <1>1, <1>7, <1>8, <1>11, <1>13 DEF Opens
        <2>2. ASSUME NEW j \in 1 .. Len(w)  PROVE b[j] = w[j]
            <3>1. j <= cut
                BY <1>7, <1>8, <1>13
            <3>. QED  BY <1>7, <3>1
        <2>3. SubSeq(b, h + 1, h + k) = key
            <3>1. \A j \in 1 .. k : h + j \in 1 .. Len(w)
                BY <1>1, <1>a, <1>6
            <3>2. \A j \in 1 .. Len(key) : b[h + j] = key[j]
                BY <1>6, <2>2, <3>1, Zenon DEF k
            <3>3. h \in Nat /\ h + Len(key) <= Len(b)
                BY <1>1, <1>6, <1>7, <1>13 DEF k
            <3>4. b \in Seq(Byte) /\ key \in Seq(Byte)
                BY <1>1, <1>7
            <3>5. SubSeq(b, h + 1, h + Len(key)) = key
                BY <3>2, <3>3, <3>4, PieceIs
            <3>. QED  BY <3>5 DEF k
        <2>4. SubSeq(b, h + k + 1, h + k + n) = m
            <3> DEFINE i == h + k
            <3>1. \A j \in 1 .. n : i + j \in 1 .. Len(w)
                BY <1>1, <1>6
            <3>2. \A j \in 1 .. n : b[i + j] = m[j]
                BY <1>6, <2>2, <3>1, Zenon
            <3>3. i \in Nat /\ i + n <= Len(b)
                BY <1>1, <1>6, <1>7, <1>13
            <3> HIDE DEF i
            <3>4. SubSeq(b, i + 1, i + n) = m
                BY <1>2, <1>7, <3>2, <3>3, PieceIs
            <3>. QED  BY <3>4 DEF i
        <2>. QED  BY <1>2, <1>6, <2>1, <2>3, <2>4
    <1> HIDE DEF frame
    <1>14. ParseFrame(b) =
               IF cut < h THEN Incomplete
               ELSE IF n > MaxPayload THEN Refused
               ELSE IF cut < Len(w) THEN Incomplete
               ELSE [kind |-> "frame", fin |-> TRUE, opcode |-> o, payload |-> p, used |-> Len(w)]
        <2>1. ~(cut < Len(w)) => cut >= Len(w)
            BY <1>7, <1>8
        <2>. QED  BY <1>6, <1>7, <1>12, <1>13, <2>1, Zenon
    <1>. QED  BY <1>14, Zenon DEF n, h, b, Outcome

\* The bytes of a frame on its way, and what parse_frame makes of x of them.
LEMMA TripOutcome ==
    ASSUME trip.frame \in Frames
    PROVE  /\ Encoded \in Seq(Byte) /\ Len(Arriving) \in Nat
           /\ Len(Encoded) - Len(trip.frame.payload) - Len(trip.frame.key) = HeaderLen(Len(trip.frame.payload))
           /\ \A x \in 0 .. Len(Arriving) :
                 ParseFrame(SubSeq(Arriving, 1, x))
                    = Outcome(trip.frame.opcode, trip.frame.payload, Encoded, x)
    <1> DEFINE o == trip.frame.opcode
               p == trip.frame.payload
               key == trip.frame.key
               w == Encoded
               v == w \o Behind
    <1>1. o \in 0 .. 15 /\ Sendable(p, key) /\ Behind \in Seq(Byte)
        BY FrameTripAssumption DEF Sendable
    <1>2. w = EncodeFrame(o, p, key) /\ Arriving = v
        BY DEF Encoded, Arriving
    <1> HIDE DEF o, p, key, w
    <1>a. Framed(w, o, p, key)
        BY <1>1, <1>2, EncodedShape
    <1>3. w \in Seq(Byte) /\ Len(w) - Len(p) - Len(key) = HeaderLen(Len(p))
        <2>1. w \in Seq(Byte) /\ Len(w) = HeaderLen(Len(p)) + Len(key) + Len(p)
            BY <1>a, Zenon DEF Framed
        <2>2. HeaderLen(Len(p)) \in Nat /\ Len(key) \in Nat /\ Len(p) \in Nat
            <3>1. HeaderLen(Len(p)) \in {2, 4, 10} /\ Len(p) \in Nat
                BY <1>1, SendableFacts
            <3>2. Len(key) \in {0, 4}
                BY <1>1 DEF Sendable
            <3>. QED  BY <3>1, <3>2
        <2>. QED  BY <2>1, <2>2
    <1>4. Len(v) \in Nat
        BY <1>1, <1>3
    <1>5. Parses(v, o, p, w)
        BY <1>1, <1>a, TripParsed
    <1> HIDE DEF v
    <1>. QED  BY <1>2, <1>3, <1>4, <1>5, Zenon DEF o, p, key, w, Parses

\* encode_frame and parse_frame agree for every opcode, every payload up to
\* 2^31 - 1 bytes, masked or not, and every cut of the stream: nothing short of
\* the frame is taken for it, the frame is returned as it was given, and one above
\* the limit is refused once its length is known.
THEOREM FramesRoundTrip == TripSpec => []RoundTrip
    <1> DEFINE TripOK == trip \in [frame : Frames, cut : Nat] /\ trip.cut <= Len(Arriving)
    <1>1. TripInit => TripOK
        <2> SUFFICES ASSUME TripInit  PROVE TripOK
            OBVIOUS
        <2>1. trip \in [frame : Frames, cut : {0}] /\ trip.frame \in Frames /\ trip.cut = 0
            BY DEF TripInit
        <2>2. Len(Arriving) \in Nat
            BY <2>1, TripOutcome
        <2>. QED  BY <2>1, <2>2
    <1>2. TripOK /\ [TripNext]_trip => TripOK'
        <2> SUFFICES ASSUME TripOK, [TripNext]_trip  PROVE TripOK'
            OBVIOUS
        <2>1. CASE TripNext
            <3>1. PICK x \in trip.cut + 1 .. Len(Arriving) : trip' = [trip EXCEPT !.cut = x]
                BY <2>1 DEF TripNext
            <3>2. trip.frame \in Frames /\ trip.cut \in Nat
                OBVIOUS
            <3>3. Len(Arriving) \in Nat
                BY <3>2, TripOutcome
            <3>4. trip'.frame = trip.frame /\ trip'.cut = x
                BY <3>1
            <3>5. Arriving' = Arriving
                BY <3>4 DEF Arriving, Encoded
            <3>6. x \in Nat /\ x <= Len(Arriving)
                BY <3>2, <3>3
            <3>. QED  BY <3>1, <3>4, <3>5, <3>6
        <2>2. CASE UNCHANGED trip
            <3>1. Arriving' = Arriving
                BY <2>2 DEF Arriving, Encoded
            <3>. QED  BY <2>2, <3>1
        <2>. QED  BY <2>1, <2>2
    <1>3. TripOK => RoundTrip
        <2> SUFFICES ASSUME TripOK  PROVE RoundTrip
            OBVIOUS
        <2> DEFINE o == trip.frame.opcode
                   p == trip.frame.payload
                   cut == trip.cut
                   w == Encoded
                   size == Len(p)
                   known == Len(w) - size - Len(trip.frame.key)
                   parsed == ParseFrame(SubSeq(Arriving, 1, cut))
        <2>1. trip.frame \in Frames /\ cut \in Nat
            OBVIOUS
        <2>2. Len(Arriving) \in Nat /\ known = HeaderLen(size) /\ w \in Seq(Byte)
            BY <2>1, TripOutcome
        <2>3. cut \in 0 .. Len(Arriving)
            BY <2>1, <2>2
        <2>4. parsed = Outcome(o, p, w, cut)
            BY <2>1, <2>3, TripOutcome
        <2>5. size \in Nat /\ Len(trip.frame.key) \in Nat /\ Len(w) \in Nat
            BY <2>1, <2>2, FrameTripAssumption
        <2>6. cut < known => cut < Len(w)
            <3> DEFINE y == Len(trip.frame.key)
                       l == Len(w)
            <3>1. cut \in Nat /\ size \in Nat /\ y \in Nat /\ l \in Nat
                BY <2>1, <2>5
            <3> HIDE DEF cut, l, size, y
            <3>2. cut < l - size - y => cut < l
                BY <3>1
            <3>. QED  BY <3>2 DEF l, y
        <2> HIDE DEF parsed, known, w, cut, size
        <2>7. IF size > MaxPayload
              THEN parsed = IF cut < known THEN Incomplete ELSE Refused
              ELSE parsed = IF cut < Len(w) THEN Incomplete
                            ELSE [kind |-> "frame", fin |-> TRUE, opcode |-> o, payload |-> p, used |-> Len(w)]
            BY <2>2, <2>4, <2>6, Zenon DEF Outcome, size
        <2>. QED  BY <2>7, Zenon DEF RoundTrip, parsed, known, w, cut, size
    <1>. QED  BY <1>1, <1>2, <1>3, PTL DEF TripSpec

=============================================================================
