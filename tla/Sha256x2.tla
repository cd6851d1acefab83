------------------------------ MODULE Sha256x2 ------------------------------
(* astrobwt/src/sha256_x2.rs: two SHA-256 streams hashed together. The       *)
(* compression function is a parameter (the hardware rounds are not          *)
(* modelled); the model is what each lane feeds it, and when.                *)
EXTENDS Integers, Sequences, SequencesExt

CONSTANTS
    ShaBlock, ShaLength,         \* 64 and 8 in the code
    ShaInitial,                  \* INITIAL
    Compress(_, _)               \* a chaining state and a block

ASSUME ShaAssumption ==
    ShaLength \in Nat \ {0} /\ ShaBlock \in Nat /\ ShaBlock > ShaLength

ZeroBytes(n) == [i \in 1 .. n |-> 0]

BeBytes(n, width) == [i \in 1 .. width |-> (n \div 256 ^ (width - i)) % 256]

FullBlocks(input) == Len(input) \div ShaBlock

\* Block i of the input, from zero.
InputBlock(input, i) == SubSeq(input, i * ShaBlock + 1, (i + 1) * ShaBlock)

TailBlocks(rem) == IF rem < ShaBlock - ShaLength THEN 1 ELSE 2

\* tail: two zeroed blocks, the remainder and 0x80 in the first, the length in
\* bits over the end of the last one used.
TailOf(input) ==
    LET rem == Len(input) % ShaBlock
        blocks == TailBlocks(rem)
        first == SubSeq(input, Len(input) - rem + 1, Len(input)) \o <<128>>
                    \o ZeroBytes(ShaBlock - rem - 1)
        WithLength(block) ==
            SubSeq(block, 1, ShaBlock - ShaLength) \o BeBytes(Len(input) * 8, ShaLength)
    IN  IF blocks = 1 THEN <<WithLength(first)>>
                      ELSE <<first, WithLength(ZeroBytes(ShaBlock))>>

-----------------------------------------------------------------------------
(* x86: the lanes go in lockstep to the end of the longer one.               *)

LaneBlock(input, tail, i) ==
    IF i < FullBlocks(input) THEN InputBlock(input, i)
    ELSE IF i < FullBlocks(input) + Len(tail) THEN tail[i - FullBlocks(input) + 1]
    ELSE ZeroBytes(ShaBlock)

\* Mutant: a lane that has ended keeps what the extra rounds made of it.
LaneStepUnmasked(state, input, tail, i) == Compress(state, LaneBlock(input, tail, i))

\* Both lanes run the rounds; an ended lane gets its saved state back.
LaneStep(state, input, tail, i) ==
    IF i < FullBlocks(input) + Len(tail)
    THEN Compress(state, LaneBlock(input, tail, i))
    ELSE state

HashX86(a, b) ==
    LET ta == TailOf(a)
        tb == TailOf(b)
        na == FullBlocks(a) + Len(ta)
        nb == FullBlocks(b) + Len(tb)
        blocks == IF na >= nb THEN na ELSE nb
    IN  FoldLeft(LAMBDA s, i : <<LaneStep(s[1], a, ta, i - 1), LaneStep(s[2], b, tb, i - 1)>>,
                 <<ShaInitial, ShaInitial>>, [i \in 1 .. blocks |-> i])

-----------------------------------------------------------------------------
(* aarch64: the full blocks both messages have are paired, then each lane    *)
(* finishes alone.                                                           *)

CompressRun(state, input, from, to) ==
    FoldLeft(LAMBDA s, i : Compress(s, InputBlock(input, from + i - 1)),
             state, [i \in 1 .. to - from |-> i])

HashArm(a, b) ==
    LET na == FullBlocks(a)
        nb == FullBlocks(b)
        paired == IF na <= nb THEN na ELSE nb
        common == FoldLeft(LAMBDA s, i : <<Compress(s[1], InputBlock(a, i - 1)),
                                           Compress(s[2], InputBlock(b, i - 1))>>,
                           <<ShaInitial, ShaInitial>>, [i \in 1 .. paired |-> i])
    IN  <<FoldLeft(Compress, CompressRun(common[1], a, paired, na), TailOf(a)),
          FoldLeft(Compress, CompressRun(common[2], b, paired, nb), TailOf(b))>>

=============================================================================
