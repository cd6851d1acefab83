------------------------------- MODULE MCWire -------------------------------
(* What the miner, its node and the chain exchange: websocket frames,        *)
(* varints, mini-blocks, transactions and blocks, and the check of a proof   *)
(* of work.  kind says what a behaviour is about.  For a pure function a     *)
(* state is one input, arg, and a step makes the next input; a frame on its  *)
(* way, a mini-block that is ground, a block that grows and the check of a   *)
(* proof of work are machines.                                               *)
EXTENDS Difficulty, FrameTrip, WorkBytes, Bitwise

VARIABLES kind, arg

vars == <<kind, arg, trip, pow, grind, stream, block>>

-----------------------------------------------------------------------------
(* Inputs.                                                                   *)

InitTx == kind = "tx" /\ arg \in [tx : TxSamples, cut : {0}]

NextTx ==
    kind = "tx" /\ arg.cut < Len(TxSerialize(arg.tx).v) /\ arg' = [arg EXCEPT !.cut = @ + 1]

\* A machine that the behaviour is not about stays in one of its initial states.
Init ==
    /\ InitTx \/ (kind \in {"frame", "pow", "mini", "varint", "block"} /\ arg = 0)
    /\ TripInit
    /\ kind # "frame" => trip.frame = [opcode |-> Text, payload |-> <<>>, key |-> <<>>]
    /\ PowInit
    /\ kind # "pow" => pow.height = Hf2 /\ pow.work = CHOOSE work \in Works : TRUE
    /\ WorkInit
    /\ kind # "mini" => grind.mini = CHOOSE m \in Templates : TRUE
    /\ kind # "mini" => grind.tid = CHOOSE t \in Tids : TRUE
    /\ kind # "mini" => grind.i = CHOOSE c \in Counters : TRUE
    /\ VarintInit
    /\ BlockInit
    /\ kind # "block" => block.height = 0 /\ block.minerTx.type = Coinbase

Next ==
    /\ \/ NextTx /\ UNCHANGED <<trip, pow, grind, stream, block>>
       \/ kind = "frame" /\ TripNext /\ UNCHANGED <<arg, pow, grind, stream, block>>
       \/ kind = "pow" /\ PowNext /\ UNCHANGED <<arg, trip, grind, stream, block>>
       \/ kind = "mini" /\ Pass /\ UNCHANGED <<arg, trip, pow, stream, block>>
       \/ kind = "varint" /\ VarintNext /\ UNCHANGED <<arg, trip, pow, grind, block>>
       \/ kind = "block" /\ BlockNext /\ UNCHANGED <<arg, trip, pow, grind, stream>>
    /\ UNCHANGED kind

Spec == Init /\ [][Next]_vars

-----------------------------------------------------------------------------
(* The formats.                                                              *)

\* A transaction as it is after a read: of its keys the pointers are left.
AsRead(tx) ==
    [tx EXCEPT !.payloads =
       [k \in DOMAIN @ |-> [@[k] EXCEPT !.statement.pointers = Pointers(tx.payloads[k].statement),
                                        !.statement.keys = <<>>]]]

\* transaction.rs: every type of transaction, with fresh statements or with ones
\* that were read, is read back as written; no strict prefix of it is accepted;
\* and what was read can be written, as the same bytes, so that the txid of a
\* transaction that is passed on stays the same.  Arguments are in canonical form.
TransactionsExact ==
    kind = "tx" =>
        LET bytes == TxSerialize(arg.tx).v
            back == TxDeserialize(SubSeq(bytes, 1, arg.cut))
        IN  IF arg.cut < Len(bytes) THEN back = Err
            ELSE back = Got(AsRead(arg.tx), <<>>) /\ TxSerialize(back.v) = Put(bytes)

\* transaction.rs:183: the arguments of an SC transaction are "stored verbatim for
\* byte-exact round-trip".
ScdataVerbatim ==
    kind = "tx" =>
        LET back == TxDeserialize(SubSeq(TxSerialize(arg.tx).v, 1, arg.cut))
        IN  back.kind = "got" => back.v.scdata = arg.tx.scdata

-----------------------------------------------------------------------------
(* Values of the constants.                                                  *)

MCPow16(hash) == Reverse(hash)
MCAstroBwtV3(hash) == hash
MCWorks == Hashes
MCIsPoint(bytes) == bytes[1] # 99
MCGravitonSum(key) == <<key[1] + 40, key[1] + 80>>
MCSha3(bytes) == <<FoldLeft(LAMBDA a, b : (3 * a + b + 1) % 251, 0, bytes)>>

\* Arguments are bytes without repetition, canonical when in order.
MCUnmarshal(raw) ==
    IF raw = <<>> \/ Cardinality(Range(raw)) < Len(raw) THEN <<>>
    ELSE SortSeq(raw, LAMBDA a, b : a < b)

\* Lengths on both sides of every change of form and of the limit; the longest
\* payloads go without a mask.
MCFrame(opcode, n, key) ==
    [opcode |-> opcode, payload |-> [j \in 1 .. n |-> (7 * j) % 251] \o <<>>, key |-> key]
MCFrames ==
    {MCFrame(o, n, k) : o \in {Text, Close, Pong}, n \in {0, 1, 125, 126, 127},
                        k \in {<<>>, <<55, 250, 33, 61>>}}
      \cup {MCFrame(Text, n, <<>>) : n \in {65535, 65536, 65537}}
MCBehind == <<129, 126>>
\* The ends of the bytes arrive one by one, the middle in one step.
MCCuts(size) == (1 .. 16) \cup (size - 3 .. size)
MCVarintValues == {0, 1, 127, 128, 300, 16383, 16384, 32767}
MCVarintBytes == {0, 1, 2, 127, 128, 129, 255}

\* Versions, past counts, flags and heights at the edges of their bits.
MCTemplates ==
    [version : {0, 1, 2, 15, 16, 17}, pastCount : 0 .. 4, highDiff : BOOLEAN,
     final : BOOLEAN, timestamp : {200}, height : {0, 254, 255, 256},
     past : {<<0, 0>>, <<7, 9>>}, keyHash : {<<5>>}, flags : {6}, nonce : {<<1, 2, 3>>}]
MCRandoms == {<<11, 12, 13, 14, 15, 16>>}
MCTids == {0, 255}
\* The second pass carries into the high byte, or wraps.
MCCounters == {253, 65533}

\* A mini-block on the first tip of a block, <<9, 0>>.
MCMini(n, final, height) ==
    [version |-> 1, highDiff |-> final, final |-> final, pastCount |-> 1, timestamp |-> 200,
     height |-> height, past |-> <<9 * 256, 0>>, keyHash |-> <<n>>, flags |-> 6, nonce |-> <<n, 2, 3>>]
MCMinis ==
    {MCMini(1, FALSE, 2), MCMini(2, FALSE, 2), MCMini(3, TRUE, 2), MCMini(4, FALSE, 1)}

MCProof(m) == [k \in DOMAIN ProofShape(m) |-> <<k>>]
MCPayload(m) ==
    [burnValue |-> 130, scid |-> <<1, 2>>, rpcType |-> 1, rpcPayload |-> <<4, 5>>,
     statement |-> [bytesPer |-> 1, fees |-> 200, d |-> <<8>>,
                    pointers |-> [k \in 1 .. 2 ^ m |-> k], keys |-> <<>>,
                    c |-> [k \in 1 .. 2 ^ m |-> <<k>>], roothash |-> <<6, 7>>],
     proof |-> MCProof(m)]
\* The same for keys of a wallet's own choice.
MCFresh(m) ==
    [MCPayload(m) EXCEPT !.statement.pointers = <<>>, !.statement.keys = [k \in 1 .. 2 ^ m |-> <<k>>],
                         !.statement.bytesPer = 2]
MCScTx(args) ==
    [DefaultTx EXCEPT !.type = Sc, !.value = 9, !.height = 1, !.blid = <<1, 2>>,
                      !.payloads = <<MCPayload(0)>>, !.scdata = args]
MCTxSamples ==
    {[DefaultTx EXCEPT !.minerAddress = <<5>>],
     [DefaultTx EXCEPT !.type = Premine, !.value = 300, !.minerAddress = <<5>>],
     [DefaultTx EXCEPT !.type = Registration, !.minerAddress = <<5>>, !.c = <<1, 1>>, !.s = <<2, 2>>],
     [DefaultTx EXCEPT !.type = Normal, !.height = 129, !.blid = <<1, 2>>,
                       !.payloads = <<MCPayload(0), MCPayload(1)>>],
     [DefaultTx EXCEPT !.type = Burn, !.height = 1, !.blid = <<1, 2>>, !.payloads = <<MCFresh(1)>>],
     MCScTx(<<1, 2, 3>>)}
\* Arguments in another order than the canonical one.
MCLooseSamples == {[DefaultTx EXCEPT !.minerAddress = <<5>>], MCScTx(<<3, 1, 2>>)}
MCHeights == {0, 1, 2}

MCBitXor(a, b) == a ^^ b
MCBitAnd(a, b) == a & b
MCBitOr(a, b) == a | b

=============================================================================
