------------------------------- MODULE Varint -------------------------------
(* varint.rs: unsigned LEB128, the numbers of blocks and transactions.       *)
EXTENDS Numbers, FiniteSetsExt

CONSTANTS
    WordSize, MaxGroups, LastGroup,    \* u64: 2^64, ten groups of seven bits, 1
    VarintValues, VarintBytes          \* the numbers and the bytes that are tried

Group == 128

\* The word is full groups of seven bits and, in the last group, the rest.
ASSUME VarintAssumption ==
    /\ MaxGroups \in Nat \ {0} /\ LastGroup \in 0 .. Group - 1
    /\ WordSize = (LastGroup + 1) * Power(Group)[MaxGroups - 1]
    /\ VarintValues \subseteq 0 .. WordSize - 1 /\ VarintBytes \subseteq 0 .. 255

VARIABLE stream    \* bytes to read a number from

-----------------------------------------------------------------------------

\* Seven bits at a time, the lowest first, as long as there are more.
PutUvarint(x) ==
    LET groups == Min({g \in 1 .. MaxGroups : x < Power(Group)[g]})
    IN  [k \in 1 .. groups |->
            ((x \div Power(Group)[k - 1]) % Group) + (IF k < groups THEN Group ELSE 0)]

\* The number of the first n groups.
Grouped(buf, n) == FromDigits(Group, [k \in 1 .. n |-> buf[n + 1 - k] % Group])

\* Mutant: the last group may carry bits above the word.
ReadUvarintWide(buf) ==
    LET ends == {k \in 1 .. Len(buf) : buf[k] < Group}
        n == Min(ends)
    IN  IF ends = {} \/ n > MaxGroups THEN <<0, 0>> ELSE <<Grouped(buf, n), n>>

\* The value and the bytes used, zero bytes when incomplete or too large.
ReadUvarint(buf) ==
    LET ends == {k \in 1 .. Len(buf) : buf[k] < Group}
        n == Min(ends)
    IN  IF ends = {} \/ n > MaxGroups \/ (n = MaxGroups /\ buf[n] > LastGroup)
        THEN <<0, 0>> ELSE <<Grouped(buf, n), n>>

\* Any bytes, up to more than a number has.
VarintInit == stream = <<>>

VarintNext ==
    /\ Len(stream) <= MaxGroups
    /\ \E b \in VarintBytes : stream' = Append(stream, b)

VarintSpec == VarintInit /\ [][VarintNext]_stream

-----------------------------------------------------------------------------

\* varint.rs: what put_uvarint writes is read back, whatever bytes follow it;
\* of any bytes, what is read fits the word and was written in no fewer bytes
\* than put_uvarint would use.
VarintsExact ==
    LET r == ReadUvarint(stream)
    IN  /\ r[2] > 0 => r[1] < WordSize /\ Len(PutUvarint(r[1])) <= r[2]
        /\ \A x \in VarintValues :
              ReadUvarint(PutUvarint(x) \o stream) = <<x, Len(PutUvarint(x))>>

=============================================================================
