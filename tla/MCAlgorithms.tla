---------------------------- MODULE MCAlgorithms ----------------------------
(* The algorithms of a hash, each on its own.  kind says which one a         *)
(* behaviour is about.  For a pure function a state is one input, arg, and a *)
(* step makes the next input; the other two kinds are machines that keep     *)
(* buffers from hash to hash: the descriptor sort and the op loop.           *)
EXTENDS ByteOps, Sais, Sha256x2, Pipeline

CONSTANTS
    Windows, Texts, MaxText,                   \* op loop, suffix arrays
    Lengths,                                   \* hashes
    GroupBytes, Radix, WordBytes, CopyWords, ArenaCap,     \* the descriptor sort
    ShortRunMax, LiteralMax, SinkWords, First, FirstCalls, Later

VARIABLES
    kind, arg,
    singletons, threadScratch, threadSa, threadCalls, last   \* the descriptor's thread

threadVars == <<singletons, threadScratch, threadSa, threadCalls, last>>
vars == <<kind, arg, threadVars, pvars>>

Thread == INSTANCE DescriptorThread WITH
    Group <- GroupBytes, scratch <- threadScratch, sa <- threadSa, calls <- threadCalls

ASSUME ThreadAssumption == Thread!DescriptorAssumption

-----------------------------------------------------------------------------
(* Inputs.                                                                   *)

InitOp == kind = "op" /\ arg \in [op : {0}, window : Windows]

NextOp == kind = "op" /\ arg.op < 255 /\ arg' = [arg EXCEPT !.op = @ + 1]

InitText == kind = "text" /\ arg = <<>>

NextText ==
    /\ kind = "text" /\ Len(arg) < MaxText
    /\ \/ \E letter \in Index(TextMax) : arg' = Append(arg, letter)
       \/ arg = <<>> /\ arg' \in Texts

InitLanes == kind = "lanes" /\ arg \in [a : Lengths, b : {0}]

NextLanes == kind = "lanes" /\ arg.b + 1 \in Lengths /\ arg' = [arg EXCEPT !.b = @ + 1]

InitFunction ==
    InitOp \/ InitText \/ InitLanes

NextFunction ==
    NextOp \/ NextText \/ NextLanes

\* A machine that the behaviour is not about stays in one of its initial states.
Idle ==
    /\ kind # "thread" => ~singletons
    /\ kind # "pipeline" => streaming

Init ==
    /\ InitFunction \/ (kind \in {"thread", "pipeline"} /\ arg = 0)
    /\ Thread!ThreadInit
    /\ PipelineInit
    /\ Idle

Next ==
    /\ \/ NextFunction /\ UNCHANGED <<threadVars, pvars>>
       \/ kind = "thread" /\ Thread!ThreadNext /\ UNCHANGED <<arg, pvars>>
       \/ kind = "pipeline" /\ PipelineNext /\ UNCHANGED <<arg, threadVars>>
    /\ UNCHANGED kind

Spec == Init /\ [][Next]_vars

-----------------------------------------------------------------------------
(* The op loop.                                                              *)

OpState ==
    [s |-> [i \in Block |-> (101 + 73 * i) % 256] @@ <<>>, lhash |-> 5, prevLhash |-> 9,
     rc4 |-> [s |-> <<>>, i |-> 0, j |-> 0]]

\* ops_avx2.rs: for every op the vector kernel leaves the block, the hash and the
\* cipher (re-keyed from the block as it was before the op) as the generated
\* scalar op does, and the bytes outside the window alone.  The windows are
\* short and full registers, at the start, in the middle and at the end of the
\* block, where the register is clamped.
VectorOpsAgree ==
    kind = "op" =>
        LET w == Window(arg.window[1], arg.window[2])
        IN  ApplyOpAvx2(arg.op, OpState, w[1], w[2]) = ApplyOp(arg.op, OpState, w[1], w[2])

-----------------------------------------------------------------------------
(* Suffix arrays.                                                            *)

TextOf(s) == Table([i \in Index(Len(s)) |-> s[i + 1]])

\* The suffix from i comes before the suffix from j.
SuffixLess(t, i, j) ==
    \E k \in 0 .. Size(t) - 1 :
        /\ i + k <= Size(t) /\ j + k < Size(t)
        /\ \A l \in 0 .. k - 1 : t[i + l] = t[j + l]
        /\ i + k = Size(t) \/ t[i + k] < t[j + k]

IsSuffixArray(t, array) ==
    /\ DOMAIN array = DOMAIN t
    /\ {array[i] : i \in DOMAIN array} = DOMAIN t
    /\ \A i \in Index(Size(t) - 1) : SuffixLess(t, array[i], array[i + 1])

\* sais32.rs, sais16.rs and suffixarray.rs: each returns the suffix array of
\* every text, also when it recurses into names it keeps in the array's own
\* tail, and when a scratch array is reused by the recursion.
SuffixArraysExact ==
    kind = "text" =>
        LET t == TextOf(arg)
        IN  /\ IsSuffixArray(t, Sais_8_32(t))
            /\ IsSuffixArray(t, Sais_8_16(t))
            /\ IsSuffixArray(t, PrefixDoubling(t))

\* v114.rs: what the descriptor returns, or streams into SHA-256, is the suffix
\* array of the text, for every placement of the group flags and whatever
\* earlier hashes left in the thread's scratch on either path; it refuses only
\* what it cannot represent ("Byte-identical to the canonical suffix array on
\* accepted inputs").
DescriptorExact == Thread!DescriptorExact

\* v114.rs: block copies move CopyWords positions whatever the run's length and
\* never leave the spare words of the buffer they write.
CopiesFit == Thread!CopiesFit

-----------------------------------------------------------------------------
(* Hashing.                                                                  *)

Message(n, tag) == [i \in 1 .. n |-> tag + i]

\* The padding of FIPS 180-4, cut into blocks.
PaddedBlocks(m) ==
    LET fill == (2 * ShaBlock - ShaLength - 1 - (Len(m) % ShaBlock)) % ShaBlock
        padded == m \o <<128>> \o ZeroBytes(fill) \o BeBytes(8 * Len(m), ShaLength)
    IN  [k \in 1 .. Len(padded) \div ShaBlock |-> InputBlock(padded, k - 1)]

\* sha256_x2.rs: whatever the two lengths, each lane compresses the blocks of
\* its own padded message, in order and no other, on both architectures.
LanesPadded ==
    kind = "lanes" =>
        LET a == Message(arg.a, 0)
            b == Message(arg.b, 100)
            blocks == <<PaddedBlocks(a), PaddedBlocks(b)>>
        IN  HashX86(a, b) = blocks /\ HashArm(a, b) = blocks

-----------------------------------------------------------------------------
(* Values of the constants.                                                  *)

MCXxh64(s) == (3 * s[1] + 5 * Last(s) + Len(s)) % 251
MCNoBlocks == <<>>
MCCompress(state, b) == Append(state, b)
MCWindows == {<<20, 5>>, <<10, 42>>, <<255, 210>>, <<250, 255>>, <<7, 8>>}
MCTexts ==
    {<<2,1,2,0,2,0,2,1,2,0,2>>, <<2,0,1,2,0,1,2,0,1,2>>, <<2,1,2,0,2,1,2,0,2,1,2,0,2,1,2>>}
MCLengths == 0 .. 25
\* Descriptor texts of up to four groups of four bytes.  The groups are chosen so
\* that neighbours agree in some columns and differ in others, and so that the
\* ragged tail cuts a suffix inside a key and leaves the hash sink with a block
\* it has not filled.
Chunks == {<<0, 0, 0, 0>>, <<0, 0, 1, 0>>, <<1, 0, 0, 0>>, <<1, 1, 1, 1>>}

GroupFlags(n, S) == [i \in 1 .. n |-> IF i - 1 \in S \cup {0} THEN 1 ELSE 0]

In(text, S, tail) == [text |-> text, flags |-> GroupFlags((Len(text) \div GroupBytes) + 1, S), tail |-> tail]

MCLater ==
    {In(a \o b \o c \o t, S, 3) : a, b, c \in Chunks, t \in {<<>>, <<1, 0, 1>>}, S \in SUBSET {1, 2}}
      \cup {In(a \o b \o a \o b, S, 3) : a, b \in Chunks, S \in {{}, {2}}}
      \cup {In(a \o <<1, 0>>, {}, 3) : a \in Chunks \cup {<<>>}}
      \cup {In(<<>>, {}, 3), In(<<1, 0, 1>>, {}, 2), In([i \in 1 .. ArenaCap + 1 |-> 0], {}, 3)}
      \cup {[text |-> <<1, 0, 1, 0, 0>>, flags |-> <<1>>, tail |-> 3]}

\* The hashes before: one run of three groups, which refills order, and a text of
\* single groups, which does not.
MCFirst ==
    {In(<<1, 0, 0, 0, 1, 0, 0, 0, 0, 0, 1, 0, 0, 1>>, {}, 3), In(<<1, 0, 1, 1, 0, 0, 0, 1, 0>>, {1}, 3)}

MCBitOr(a, b) == a | b

=============================================================================
