----------------------------- MODULE Difficulty -----------------------------
(* astrobwt/src/difficulty.rs: which proof of work a height uses, the target *)
(* of a difficulty, and the two ways of comparing a hash with it: the big    *)
(* integers of the verifier and the precomputed bytes of the mining loop.    *)
(* A hash has HashBytes digits of the given Radix, least significant first.  *)
EXTENDS Numbers, SequencesExt

CONSTANTS
    Radix, HashBytes,      \* 256 and 32 in the code
    HighDiffFactor,        \* MINIBLOCK_HIGHDIFF
    Hf2,                   \* the height from which AstroBWTv3 is used
    Pow16(_), AstroBwtV3(_),
    Works, MaxDifficulty   \* the serialized mini-blocks and difficulties tried

Hashes == [1 .. HashBytes -> 0 .. Radix - 1]

ASSUME DifficultyAssumption ==
    /\ Radix \in Nat \ {0, 1} /\ HashBytes \in Nat \ {0} /\ HighDiffFactor \in Nat \ {0}
    /\ Hf2 \in Nat /\ MaxDifficulty \in Nat
    /\ \A work \in Works : Pow16(work) \in Hashes /\ AstroBwtV3(work) \in Hashes

VARIABLE pow    \* a serialized mini-block, its height and the difficulty it is held to

-----------------------------------------------------------------------------
(* pow_hash_at_height, its scratch and its two-lane form.                    *)

PowHashAtHeight(serialized, height, hf2) ==
    IF height < hf2 THEN Pow16(serialized) ELSE AstroBwtV3(serialized)

PowHashAtHeightX2(workA, workB, height, hf2) ==
    IF height < hf2 THEN <<Pow16(workA), Pow16(workB)>>
                    ELSE <<AstroBwtV3(workA), AstroBwtV3(workB)>>

-----------------------------------------------------------------------------
(* Numbers and bytes.                                                        *)

FromBytesBe(bytes) == FromDigits(Radix, bytes)

HashToBig(hash) == FromBytesBe(Reverse(hash))

\* BigUint::to_bytes_le has no leading zeros, and one byte for zero.
ToBytesLe(n) ==
    LET width == CHOOSE w \in 1 .. HashBytes + 1 :
                     n < Power(Radix)[w] /\ (w > 1 => n >= Power(Radix)[w - 1])
    IN  [i \in 1 .. width |-> (n \div Power(Radix)[i - 1]) % Radix]

PowTargetOf(difficulty) == Power(Radix)[HashBytes] \div difficulty

-----------------------------------------------------------------------------
(* The precomputed target.                                                   *)

PrecomputePowTarget(difficulty) ==
    LET bytes == ToBytesLe(PowTargetOf(difficulty))
    IN  IF Len(bytes) > HashBytes
        THEN [targetLe |-> [i \in 1 .. HashBytes |-> Radix - 1], acceptsAll |-> TRUE]
        ELSE [targetLe |-> bytes \o [i \in 1 .. HashBytes - Len(bytes) |-> 0],
              acceptsAll |-> FALSE]

\* Mutant: the bytes are compared from the first one.
CheckFromFirst(hash, target) ==
    \/ target.acceptsAll
    \/ \A i \in 1 .. HashBytes :
          hash[i] > target.targetLe[i] =>
             \E j \in 1 .. i - 1 : hash[j] < target.targetLe[j]

\* From the most significant byte down: the first difference decides.
CheckPowHashPrecomputed(hash, target) ==
    \/ target.acceptsAll
    \/ \A i \in 1 .. HashBytes :
          hash[i] > target.targetLe[i] =>
             \E j \in i + 1 .. HashBytes : hash[j] < target.targetLe[j]

CheckPowHashBig(hash, difficulty) == HashToBig(hash) <= PowTargetOf(difficulty)

-----------------------------------------------------------------------------
(* The verifier.                                                             *)

Scaled(highDiff, difficulty) ==
    IF highDiff THEN difficulty * HighDiffFactor ELSE difficulty

VerifyMiniblockPow(serialized, highDiff, difficulty, height, hf2) ==
    CheckPowHashBig(PowHashAtHeight(serialized, height, hf2), Scaled(highDiff, difficulty))

VerifyMiniblockPowV3(serialized, highDiff, difficulty) ==
    CheckPowHashBig(AstroBwtV3(serialized), Scaled(highDiff, difficulty))

-----------------------------------------------------------------------------
(* Every mini-block at every difficulty, on both sides of the fork.          *)

PowInit == pow \in [difficulty : {1}, work : Works, height : {Hf2 - 1, Hf2}]

PowNext == pow.difficulty < MaxDifficulty /\ pow' = [pow EXCEPT !.difficulty = @ + 1]

PowSpec == PowInit /\ [][PowNext]_pow

\* difficulty.rs: the byte comparison of the mining loop accepts what the
\* verifier's big integers accept, at every height and up to a target that
\* does not fit in a hash; a high-difficulty mini-block is never accepted
\* where the plain one is not.
TargetsAgree ==
    LET mined(d) == CheckPowHashPrecomputed(PowHashAtHeight(pow.work, pow.height, Hf2),
                                            PrecomputePowTarget(d))
        verified(high) == VerifyMiniblockPow(pow.work, high, pow.difficulty, pow.height, Hf2)
    IN  /\ verified(FALSE) <=> mined(pow.difficulty)
        /\ verified(TRUE) <=> mined(HighDiffFactor * pow.difficulty)
        /\ verified(TRUE) => verified(FALSE)
        /\ pow.height >= Hf2 =>
             \A high \in BOOLEAN :
                VerifyMiniblockPowV3(pow.work, high, pow.difficulty) <=> verified(high)
        /\ \A side \in 1 .. 2 :
             PowHashAtHeightX2(pow.work, pow.work, pow.height, Hf2)[side]
                = PowHashAtHeight(pow.work, pow.height, Hf2)

=============================================================================
