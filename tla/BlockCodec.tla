----------------------------- MODULE BlockCodec -----------------------------
(***************************************************************************)
(* Mini-blocks and blocks: miniblock.rs and block.rs, with the structural  *)
(* checks of a block's mini-blocks.  Fields keep their order and layout;   *)
(* their widths are parameters.                                            *)
(***************************************************************************)
EXTENDS TxCodec, Numbers

CONSTANTS
    TimeBytes, HeightBytes, IntBytes, KeyBytes,  \* 2, 5, 4 and 16 in the code
    StampBytes,                                  \* a block's timestamp: 8
    BlockTime, HighDiff, SoftForkHeight,         \* BLOCK_TIME and the rest
    AllocLimit,                                  \* most items a vector can be reserved for
    Sha3(_),                                     \* KeyBytes bytes of sha3_256
    OrByte(_, _), AndByte(_, _),                 \* | and & on u8
    Minis, MaxMinis, TxSamples, Heights          \* the blocks that are tried

Bytes == Seq(0 .. 255)

Mini ==
    [version : Nat, highDiff : BOOLEAN, final : BOOLEAN, pastCount : Nat, timestamp : Nat,
     height : Nat, past : Seq(Nat), keyHash : Bytes, flags : Nat, nonce : Seq(Nat)]

ASSUME BlockCodecAssumption ==
    /\ {TimeBytes, HeightBytes, IntBytes, KeyBytes, BlockTime, HighDiff} \subseteq Nat \ {0}
    /\ SoftForkHeight \in Nat /\ AllocLimit \in Nat /\ MaxMinis \in Nat /\ Heights \subseteq Nat
    /\ \A m \in Minis : m \in Mini

VARIABLE block

Be(x, n) == [k \in 1 .. n |-> (x \div Power(256)[n - k]) % 256]

FromBe(bytes) == FromDigits(256, bytes)

-----------------------------------------------------------------------------
(* Mini-blocks.                                                              *)

MiniblockSize == 1 + TimeBytes + HeightBytes + 6 * IntBytes + KeyBytes

SanityCheck(m) ==
    /\ m.version < 16
    /\ m.pastCount \in {1, 2}
    /\ m.height < Power(256)[HeightBytes] - 1
    /\ m.pastCount = 2 => m.past[1] # m.past[2]

Flag(condition, bit) == IF condition THEN bit ELSE 0

\* The height loses its high bytes, the past count all but two bits.
MiniSerialize(m) ==
    <<OrByte(OrByte(m.version, (m.pastCount * 64) % 256),
             OrByte(Flag(m.highDiff, 16), Flag(m.final, 32)))>>
        \o Be(m.timestamp, TimeBytes) \o Be(m.height, HeightBytes)
        \o Be(m.past[1], IntBytes) \o Be(m.past[2], IntBytes)
        \o m.keyHash \o Be(m.flags, IntBytes)
        \o Be(m.nonce[1], IntBytes) \o Be(m.nonce[2], IntBytes) \o Be(m.nonce[3], IntBytes)

\* The number in the n bytes after the first k.
Field(buf, k, n) == FromBe(SubSeq(buf, k + 1, k + n))

\* Mutant: the mask on the height leaves the byte before it.
HeightFieldWide(buf) == Field(buf, 0, 1 + TimeBytes + HeightBytes) % Power(256)[HeightBytes + 1]

\* The first bytes as one number, masked to the height.
HeightField(buf) == Field(buf, 0, 1 + TimeBytes + HeightBytes) % Power(256)[HeightBytes]

MiniDeserialize(buf) ==
    LET past == 1 + TimeBytes + HeightBytes
        key == past + 2 * IntBytes
        flags == key + KeyBytes
        m == [version |-> buf[1] % 16, pastCount |-> buf[1] \div 64,
              highDiff |-> AndByte(buf[1], 16) > 0, final |-> AndByte(buf[1], 32) > 0,
              timestamp |-> Field(buf, 1, TimeBytes), height |-> HeightField(buf),
              past |-> <<Field(buf, past, IntBytes), Field(buf, past + IntBytes, IntBytes)>>,
              keyHash |-> SubSeq(buf, key + 1, key + KeyBytes),
              flags |-> Field(buf, flags, IntBytes),
              nonce |-> [k \in 1 .. 3 |-> Field(buf, flags + k * IntBytes, IntBytes)]]
    IN  IF Len(buf) < MiniblockSize \/ m.version # 1 \/ ~ SanityCheck(m) THEN Err
        ELSE Got(m, Drop(buf, MiniblockSize))

\* MiniBlocksCollection: the mini-blocks held, under their keys.
GetKey(m) == <<m.height, m.past[1], m.past[2]>>

\* Mutant: a second copy of a held mini-block is counted.
InsertCopies(held, m) == IF m.final THEN held ELSE Append(held, m)

InsertMiniblock(held, m) ==
    IF m.final \/ \E k \in DOMAIN held : GetKey(held[k]) = GetKey(m) /\ held[k] = m
    THEN held ELSE Append(held, m)

-----------------------------------------------------------------------------
(* Blocks.                                                                   *)

Listed(items) == PutUvarint(Len(items)) \o FlattenSeq(items)

MinisWritten(minis, skipLast) ==
    IF minis = <<>> THEN <<0>>
    ELSE LET n == Len(minis) - (IF skipLast THEN 1 ELSE 0)
         IN  PutUvarint(n) \o FlattenSeq([k \in 1 .. n |-> MiniSerialize(minis[k])])

\* A miner transaction has no payloads, so that writing it does not panic.
SerializeInner(b, skipLast) ==
    PutUvarint(b.major) \o PutUvarint(b.minor) \o Be(b.timestamp, StampBytes)
        \o PutUvarint(b.height) \o TxSerialize(b.minerTx).v \o b.proof
        \o Listed(b.tips) \o MinisWritten(b.minis, skipLast) \o Listed(b.txHashes)

\* take_varint: at most max bytes, or any number when max is zero.
TakeVarint(rest, max) ==
    IF max # 0 /\ ReadUvarint(rest)[2] > max THEN Err ELSE Rv(rest)

\* The vector is reserved for as many items as the count says, before the first
\* is read: one that cannot be had ends the process.
ReadList(Read(_), max, rest) ==
    Then(TakeVarint(rest, max), LAMBDA count, after :
           IF count > AllocLimit THEN Panic ELSE ReadMany(Read, count, after))

TakeDigest(rest) == Take(rest, Digest)

BlockField(f, b, rest) ==
    CASE f \in {"major", "minor", "height"} -> TakeVarint(rest, 0)
      [] f = "timestamp" -> Then(Take(rest, StampBytes), LAMBDA v, after : Got(FromBe(v), after))
      [] f = "minerTx" -> TxDeserialize(rest)
      [] f = "proof" -> TakeDigest(rest)
      [] f = "tips" -> ReadList(TakeDigest, 1, rest)
      [] f = "minis" -> ReadList(MiniDeserialize, 2, rest)
      [] f = "txHashes" -> ReadList(TakeDigest, 0, rest)

BlockFields ==
    <<"major", "minor", "timestamp", "height", "minerTx", "proof", "tips", "minis", "txHashes">>

BlockDeserialize(buf) ==
    ReadFields(BlockField, BlockFields, [f \in Range(BlockFields) |-> 0], buf)

-----------------------------------------------------------------------------
(* The checks of a block's mini-blocks.                                      *)

\* What the collection holds after each mini-block of the block.
Held(minis) ==
    LET held[k \in 0 .. Len(minis)] ==
            IF k = 0 THEN <<>> ELSE InsertMiniblock(held[k - 1], minis[k])
    IN  held

Collected(minis) == Held(minis)[Len(minis)]

LinkedTo(b, m) ==
    /\ m.height = b.height
    /\ m.pastCount = Len(b.tips)
    /\ Len(b.tips) = 1
    /\ Field(b.tips[1], 0, IntBytes) = m.past[1]

VerifyMiniblocks(b) ==
    IF b.height = 0 THEN b.minis = <<>>
    ELSE /\ \E k \in DOMAIN b.minis : b.minis[k].final
         /\ Len(b.minis) = BlockTime - HighDiff + 1
         /\ \A k \in DOMAIN b.minis : LinkedTo(b, b.minis[k])
         /\ b.height >= SoftForkHeight => Len(Collected(b.minis)) = BlockTime - HighDiff

\* Mutant: the hash the last mini-block is bound to covers the mini-block.
HeaderHashWhole(b) == Sha3(SerializeInner(b, FALSE))

\* sha3_256 of serialize_without_last_miniblock.
HeaderHash(b) == Sha3(SerializeInner(b, TRUE))

VerifyHashcheck(b) ==
    /\ b.minis # <<>>
    /\ Last(b.minis).highDiff
    /\ Last(b.minis).final
    /\ Last(b.minis).keyHash = HeaderHash(b)

-----------------------------------------------------------------------------
(* A block grows as a template does: tips, mini-blocks, transactions.        *)

BlockInit ==
    \E h \in Heights, tx \in {t \in TxSamples : t.type \in {Premine, Coinbase}} :
        block = [major |-> 1, minor |-> 200, timestamp |-> 770, height |-> h, minerTx |-> tx,
                 proof |-> <<3, 3>>, tips |-> <<>>, minis |-> <<>>, txHashes |-> <<>>]

BlockNext ==
    \/ Len(block.tips) < 2 /\ block.minis = <<>>
       /\ block' = [block EXCEPT !.tips = Append(@, <<9, Len(@)>>)]
    \/ Len(block.minis) < MaxMinis /\ block.txHashes = <<>>
       /\ \E m \in Minis : block' = [block EXCEPT !.minis = Append(@, m)]
    \/ Len(block.txHashes) < 2
       /\ block' = [block EXCEPT !.txHashes = Append(@, <<Len(@), 61>>)]

BlockSpec == BlockInit /\ [][BlockNext]_block

\* The last mini-block bound to its block as a miner's template does.
Bind(b) ==
    [b EXCEPT !.minis[Len(b.minis)].keyHash = HeaderHash(b)]

\* block.rs: a block is read back as written, and the form without its last
\* mini-block as the block without it. Binding the last mini-block to that form
\* is stable (the hash does not cover what it changes), survives the wire, and
\* does not survive a change of a transaction hash.
BlocksExact ==
    LET minis == block.minis
    IN  /\ BlockDeserialize(SerializeInner(block, FALSE)) = Got(block, <<>>)
        /\ minis # <<>> =>
             /\ BlockDeserialize(SerializeInner(block, TRUE))
                   = Got([block EXCEPT !.minis = Front(minis)], <<>>)
             /\ Last(minis).highDiff /\ Last(minis).final =>
                   LET wire == BlockDeserialize(SerializeInner(Bind(block), FALSE)).v
                   IN  /\ VerifyHashcheck(wire)
                       /\ \A k \in DOMAIN block.txHashes :
                             ~ VerifyHashcheck([wire EXCEPT !.txHashes[k][1] = @ + 5])

\* block.rs: from the soft fork on, a block that verify_miniblocks and
\* verify_miniblocks_hashcheck both accept has exactly one final mini-block, in
\* last place, and no mini-block twice, so that no work is counted twice.
NoWorkCountedTwice ==
    (block.height >= SoftForkHeight /\ VerifyMiniblocks(block)) =>
        /\ \A j, k \in DOMAIN block.minis : block.minis[j] = block.minis[k] => j = k
        /\ VerifyHashcheck(Bind(block)) =>
             {k \in DOMAIN block.minis : block.minis[k].final} = {Len(block.minis)}

=============================================================================
