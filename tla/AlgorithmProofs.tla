-------------------------- MODULE AlgorithmProofs --------------------------
(***************************************************************************)
(* Theorems about the pure algorithms, for inputs of any size.             *)
(***************************************************************************)
EXTENDS Difficulty, WorkBytes, NumberProofs

-----------------------------------------------------------------------------
(* The two comparisons of a hash with a target *)

\* A hash, or a target, is a sequence of digits, and so is its reverse.
LEMMA Reversed ==
    ASSUME NEW f \in Hashes
    PROVE  /\ f \in Seq(0 .. Radix - 1) /\ Len(f) = HashBytes
           /\ Reverse(f) \in Seq(0 .. Radix - 1) /\ Len(Reverse(f)) = HashBytes
           /\ \A i \in 1 .. HashBytes : Reverse(f)[i] = f[HashBytes + 1 - i]
    <1>1. f \in Seq(0 .. Radix - 1) /\ Len(f) = HashBytes
        BY DifficultyAssumption DEF Hashes
    <1>2. \A i \in 1 .. HashBytes : (HashBytes - i) + 1 \in 1 .. HashBytes /\ (HashBytes - i) + 1 = HashBytes + 1 - i
        BY DifficultyAssumption
    <1>3. Reverse(f) = [i \in 1 .. HashBytes |-> f[(HashBytes - i) + 1]]
        BY <1>1 DEF Reverse
    <1>4. Reverse(f) \in [1 .. HashBytes -> 0 .. Radix - 1]
        BY <1>2, <1>3 DEF Hashes
    <1>5. Reverse(f) \in Seq(0 .. Radix - 1) /\ Len(Reverse(f)) = HashBytes
        BY <1>4, DifficultyAssumption
    <1>. QED  BY <1>1, <1>2, <1>3, <1>5

\* The number a little-endian hash stands for is below the modulus.
LEMMA HashBound ==
    ASSUME NEW f \in Hashes
    PROVE  HashToBig(f) \in Nat /\ HashToBig(f) < Power(Radix)[HashBytes]
    <1> DEFINE x == Reverse(f)
    <1>1. x \in Seq(0 .. Radix - 1) /\ Len(x) = HashBytes
        BY Reversed
    <1> HIDE DEF x
    <1>2. x \in Seq(Nat) /\ Radix \in Nat /\ Radix \in Nat \ {0}
        BY <1>1, DifficultyAssumption
    <1>3. FromDigits(Radix, x) \in Nat
        BY <1>2, FromDigitsIs
    <1>4. FromDigits(Radix, x) < Power(Radix)[HashBytes]
        BY <1>1, <1>2, DigitsBound
    <1>. QED  BY <1>3, <1>4 DEF HashToBig, FromBytesBe, x

\* The loop over the bytes compares the numbers.
LEMMA BytesCompare ==
    ASSUME NEW f \in Hashes, NEW t \in Hashes
    PROVE  CheckPowHashPrecomputed(f, [targetLe |-> t, acceptsAll |-> FALSE])
              <=> HashToBig(f) <= HashToBig(t)
    <1> DEFINE x == Reverse(f)
               y == Reverse(t)
               H == HashBytes
    <1>1. /\ x \in Seq(0 .. Radix - 1) /\ Len(x) = H /\ (\A i \in 1 .. H : x[i] = f[H + 1 - i])
          /\ y \in Seq(0 .. Radix - 1) /\ Len(y) = H /\ (\A i \in 1 .. H : y[i] = t[H + 1 - i])
        BY Reversed
    <1>2. HashToBig(f) = FromDigits(Radix, x) /\ HashToBig(t) = FromDigits(Radix, y)
        BY DEF HashToBig, FromBytesBe
    <1> HIDE DEF x, y
    <1>3. AtMost(x, y, H) <=> HashToBig(f) <= HashToBig(t)
        <2>1. Radix \in Nat \ {0}
            BY DifficultyAssumption
        <2>2. AtMost(x, y, Len(x)) <=> FromDigits(Radix, x) <= FromDigits(Radix, y)
            BY <1>1, <2>1, CompareDigits
        <2>. QED  BY <1>1, <1>2, <2>2
    <1>4. H \in Nat /\ \A i \in 1 .. H : H + 1 - i \in 1 .. H /\ H + 1 - (H + 1 - i) = i
        BY DifficultyAssumption
    <1>5. AtMost(x, y, H) <=> \A i \in 1 .. H : f[i] > t[i] => \E j \in i + 1 .. H : f[j] < t[j]
        <2>1. ASSUME AtMost(x, y, H), NEW i \in 1 .. H, f[i] > t[i]
              PROVE  \E j \in i + 1 .. H : f[j] < t[j]
            <3> DEFINE m == H + 1 - i
            <3>1. m \in 1 .. H /\ x[m] = f[i] /\ y[m] = t[i]
                BY <1>1, <1>4
            <3>2. PICK l \in 1 .. m - 1 : x[l] < y[l]
                BY <2>1, <3>1 DEF AtMost
            <3>3. l \in 1 .. H /\ H + 1 - l \in i + 1 .. H
                BY <1>4, <3>1
            <3>4. f[H + 1 - l] < t[H + 1 - l]
                BY <1>1, <3>2, <3>3
            <3>. QED  BY <3>3, <3>4
        <2>2. ASSUME \A i \in 1 .. H : f[i] > t[i] => \E j \in i + 1 .. H : f[j] < t[j],
                     NEW m \in 1 .. H, x[m] > y[m]
              PROVE  \E l \in 1 .. m - 1 : x[l] < y[l]
            <3> DEFINE i == H + 1 - m
            <3>1. i \in 1 .. H /\ x[m] = f[i] /\ y[m] = t[i]
                BY <1>1, <1>4
            <3>2. PICK j \in i + 1 .. H : f[j] < t[j]
                BY <2>2, <3>1
            <3>3. j \in 1 .. H /\ H + 1 - j \in 1 .. m - 1 /\ H + 1 - j \in 1 .. H /\ H + 1 - (H + 1 - j) = j
                BY <1>4, <3>1
            <3>4. x[H + 1 - j] < y[H + 1 - j]
                BY <1>1, <3>2, <3>3
            <3>. QED  BY <3>3, <3>4
        <2>. QED  BY <2>1, <2>2 DEF AtMost
    <1>. QED  BY <1>3, <1>5 DEF CheckPowHashPrecomputed

\* Width(n): how many bytes to_bytes_le returns.
IsWidth(n, w) == n < Power(Radix)[w] /\ (w > 1 => n >= Power(Radix)[w - 1])

\* A number up to the modulus has a width, at most one more than a hash has.
LEMMA WidthExists ==
    ASSUME NEW n \in Nat, n <= Power(Radix)[HashBytes]
    PROVE  \E w \in 1 .. HashBytes + 1 : IsWidth(n, w)
    <1> DEFINE p == Power(Radix)
               H == HashBytes
               T == {w \in 1 .. H + 1 : n < p[w]}
    <1>0. Radix \in Nat /\ Radix >= 2 /\ H \in Nat \ {0} /\ Radix \in Nat \ {0}
        BY DifficultyAssumption
    <1>1. p \in [Nat -> Nat \ {0}] /\ \A k \in Nat : p[k + 1] = Radix * p[k]
        BY <1>0, PowerIs
    <1>a. n <= p[H]
        OBVIOUS
    <1> HIDE DEF p, H
    <1>2. H + 1 \in T
        <2>1. p[H] \in Nat \ {0} /\ p[H + 1] = Radix * p[H]
            BY <1>0, <1>1
        <2> DEFINE q == p[H]
        <2>2. 2 * q <= Radix * q /\ q \in Nat \ {0} /\ Radix * q \in Nat
            <3>1. 2 \in Nat /\ q \in Nat
                BY <2>1
            <3>. QED  BY <1>0, <2>1, <3>1, ProductGrows
        <2>3. n <= q
            BY <1>a
        <2> HIDE DEF q
        <2>4. n < Radix * q
            BY <2>2, <2>3
        <2>. QED  BY <1>0, <2>1, <2>4 DEF q
    <1>3. T \in SUBSET Nat /\ T # {}
        BY <1>0, <1>2
    <1>4. PICK w \in T : \A m \in T : w <= m
        <2> HIDE DEF T
        <2>. QED  BY <1>3, SmallestNat, Zenon
    <1>5. w \in 1 .. H + 1 /\ n < p[w] /\ w \in Nat
        BY <1>0
    <1>6. ASSUME w > 1  PROVE n >= p[w - 1]
        <2>1. w - 1 \in 1 .. H + 1 /\ ~(w <= w - 1) /\ w - 1 \in Nat
            BY <1>0, <1>5, <1>6
        <2>2. w - 1 \notin T
            BY <1>4, <2>1
        <2>3. ~(n < p[w - 1])
            BY <2>1, <2>2
        <2>4. p[w - 1] \in Nat
            BY <1>1, <2>1
        <2>. QED  BY <2>3, <2>4
    <1>7. IsWidth(n, w)
        BY <1>5, <1>6 DEF IsWidth, p
    <1>. QED  BY <1>5, <1>7 DEF H

\* What to_bytes_le returns.
LEMMA BytesLe ==
    ASSUME NEW n \in Nat, n <= Power(Radix)[HashBytes]
    PROVE  \E w \in 1 .. HashBytes + 1 :
              /\ IsWidth(n, w)
              /\ ToBytesLe(n) = [i \in 1 .. w |-> (n \div Power(Radix)[i - 1]) % Radix]
    <1> DEFINE w == CHOOSE v \in 1 .. HashBytes + 1 : IsWidth(n, v)
    <1>1. w \in 1 .. HashBytes + 1 /\ IsWidth(n, w)
        BY WidthExists, Zenon
    <1>2. ToBytesLe(n) = [i \in 1 .. w |-> (n \div Power(Radix)[i - 1]) % Radix]
        BY Zenon DEF ToBytesLe, IsWidth
    <1> HIDE DEF w
    <1>. QED  BY <1>1, <1>2

\* The quotient by a difficulty does not exceed the modulus.
LEMMA TargetBound ==
    ASSUME NEW d \in Nat \ {0}
    PROVE  PowTargetOf(d) \in Nat /\ PowTargetOf(d) <= Power(Radix)[HashBytes]
    <1> DEFINE M == Power(Radix)[HashBytes]
               n == M \div d
    <1>1. M \in Nat
        BY PowerIs, DifficultyAssumption
    <1> HIDE DEF M
    <1>2. n \in Nat /\ n * d <= M
        BY <1>1, QuotientBounds
    <1> HIDE DEF n
    <1>3. n * 1 <= n * d
        <2>1. 1 <= d /\ 1 \in Nat /\ d \in Nat
            OBVIOUS
        <2>2. 1 * n <= d * n
            BY <1>2, <2>1, ProductGrows
        <2>. QED  BY <1>2, <2>2
    <1>4. n <= M /\ n \in Nat
        <2> DEFINE e == n * d
        <2>1. n <= e /\ e <= M /\ e \in Int
            BY <1>1, <1>2, <1>3
        <2> HIDE DEF e
        <2>. QED  BY <1>1, <1>2, <2>1
    <1>. QED  BY <1>4 DEF PowTargetOf, n, M

\* The mining loop's check with a precomputed target is the verifier's check,
\* for every hash and every difficulty.
LEMMA ChecksAgree ==
    ASSUME NEW f \in Hashes, NEW d \in Nat \ {0}
    PROVE  CheckPowHashPrecomputed(f, PrecomputePowTarget(d)) <=> CheckPowHashBig(f, d)
    <1> DEFINE n == PowTargetOf(d)
               p == Power(Radix)
               H == HashBytes
               digit(i) == (n \div p[i - 1]) % Radix
               bytes == ToBytesLe(n)
               t == bytes \o [i \in 1 .. H - Len(bytes) |-> 0]
    <1>0. Radix \in Nat \ {0} /\ H \in Nat \ {0} /\ Radix \in Nat
        BY DifficultyAssumption
    <1>1. n \in Nat /\ n <= p[H]
        BY TargetBound
    <1>2. p \in [Nat -> Nat \ {0}]
        BY <1>0, PowerIs
    <1>3. PICK w \in 1 .. H + 1 : IsWidth(n, w) /\ bytes = [i \in 1 .. w |-> digit(i)]
        BY <1>1, BytesLe
    <1>4. Len(bytes) = w /\ w \in Nat
        BY <1>0, <1>3
    <1>5. n < p[w] /\ (w > 1 => n >= p[w - 1])
        BY <1>3 DEF IsWidth
    <1>6. HashToBig(f) \in Nat /\ HashToBig(f) < p[H]
        BY HashBound
    <1>a. \A i \in Nat \ {0} : digit(i) \in 0 .. Radix - 1
        <2> SUFFICES ASSUME NEW i \in Nat \ {0}  PROVE digit(i) \in 0 .. Radix - 1
            OBVIOUS
        <2>1. i - 1 \in Nat
            OBVIOUS
        <2>2. p[i - 1] \in Nat \ {0}
            BY <1>2, <2>1
        <2>3. n \div p[i - 1] \in Nat
            BY <1>1, <2>2, QuotientBounds
        <2> DEFINE q == n \div p[i - 1]
        <2> HIDE DEF q
        <2>4. q \in Nat => q % Radix \in 0 .. Radix - 1
            BY <1>0
        <2>. QED  BY <2>3, <2>4 DEF q
    <1>b. PrecomputePowTarget(d) =
            IF w > H THEN [targetLe |-> [i \in 1 .. H |-> Radix - 1], acceptsAll |-> TRUE]
            ELSE [targetLe |-> t, acceptsAll |-> FALSE]
        BY <1>4, Zenon DEF PrecomputePowTarget
    <1>c. CheckPowHashBig(f, d) <=> HashToBig(f) <= n
        BY DEF CheckPowHashBig
    <1>7. CASE w > H
        <2>1. w - 1 = H /\ w > 1
            BY <1>0, <1>3, <1>7
        <2>2. n >= p[H] /\ p[H] \in Nat
            BY <1>0, <1>2, <1>5, <2>1
        <2>3. HashToBig(f) <= n
            BY <1>1, <1>6, <2>2
        <2>4. CheckPowHashPrecomputed(f, PrecomputePowTarget(d))
            BY <1>7, <1>b DEF CheckPowHashPrecomputed
        <2>. QED  BY <1>c, <2>3, <2>4
    <1>8. CASE ~(w > H)
        <2>1. w <= H /\ w \in 1 .. H
            BY <1>0, <1>3, <1>4, <1>8
        <2>2. n < p[H]
            <3>1. p[w] <= p[H] /\ p[w] \in Nat /\ p[H] \in Nat
                BY <1>0, <1>2, <1>4, <2>1, PowerGrows
            <3>. QED  BY <1>1, <1>5, <3>1
        <2> DEFINE z == [i \in 1 .. H - w |-> 0]
        <2>a. H - w \in Nat
            BY <1>0, <1>4, <2>1
        <2>b. z \in Seq({0}) /\ Len(z) = H - w /\ \A i \in 1 .. H - w : z[i] = 0
            BY <2>a
        <2>c. t = bytes \o z
            BY <1>4
        <2>d. bytes \in Seq(0 .. Radix - 1) /\ \A i \in 1 .. w : bytes[i] = digit(i)
            <3>1. \A i \in 1 .. w : digit(i) \in 0 .. Radix - 1
                BY <1>4, <1>a
            <3> HIDE DEF digit, bytes
            <3>. QED  BY <1>3, <1>4, <3>1
        <2> HIDE DEF z, bytes, digit, t
        <2>3. Len(t) = H /\ t \in Seq(0 .. Radix - 1)
            <3>1. z \in Seq(0 .. Radix - 1)
                BY <1>0, <2>b
            <3>2. Len(t) = Len(bytes) + Len(z) /\ t \in Seq(0 .. Radix - 1)
                <4>1. ASSUME NEW S, NEW a \in Seq(S), NEW b \in Seq(S)
                      PROVE  Len(a \o b) = Len(a) + Len(b) /\ a \o b \in Seq(S)
                    OBVIOUS
                <4>. QED  BY <2>c, <2>d, <3>1, <4>1, Zenon
            <3>. QED  BY <1>0, <1>4, <2>b, <3>2
        <2>4. t \in Hashes
            <3>1. ASSUME NEW S, NEW a \in Seq(S)  PROVE a \in [1 .. Len(a) -> S]
                OBVIOUS
            <3>. QED  BY <2>3, <3>1, Zenon DEF Hashes
        <2>5. ASSUME NEW i \in 1 .. H  PROVE t[i] = digit(i)
            <3>1. CASE i <= w
                <4>1. i \in 1 .. Len(bytes) /\ i \in 1 .. w
                    BY <1>4, <3>1
                <4>2. t[i] = bytes[i]
                    BY <2>b, <2>c, <2>d, <4>1
                <4>. QED  BY <2>d, <4>1, <4>2
            <3>2. CASE ~(i <= w)
                <4>1. i - w \in 1 .. H - w /\ i - 1 \in Nat /\ w <= i - 1 /\ w + (i - w) = i
                    BY <1>0, <1>4, <3>2
                <4>2. t[i] = z[i - w]
                    <5>1. i - w \in 1 .. Len(z) /\ Len(bytes) + (i - w) = i
                        BY <1>4, <2>b, <4>1
                    <5>2. (bytes \o z)[Len(bytes) + (i - w)] = z[i - w]
                        BY <2>b, <2>d, <5>1
                    <5>. QED  BY <2>c, <5>1, <5>2
                <4>3. t[i] = 0
                    BY <2>b, <4>1, <4>2
                <4>4. n < p[i - 1] /\ p[i - 1] \in Nat \ {0}
                    <5>1. p[w] <= p[i - 1] /\ p[w] \in Nat /\ p[i - 1] \in Nat \ {0}
                        BY <1>0, <1>2, <1>4, <4>1, PowerGrows
                    <5>. QED  BY <1>1, <1>5, <5>1
                <4>5. n \div p[i - 1] = 0
                    <5> DEFINE q == p[i - 1]
                    <5>1. q \in Nat \ {0} /\ n < q
                        BY <4>4
                    <5> HIDE DEF q
                    <5>2. 0 * q <= n /\ n < 0 * q + q
                        BY <1>1, <5>1
                    <5>3. n \div q = 0
                        BY <1>1, <5>1, <5>2, QuotientUnique
                    <5>. QED  BY <5>3 DEF q
                <4>6. 0 % Radix = 0
                    BY <1>0
                <4>. QED  BY <4>3, <4>5, <4>6 DEF digit
            <3>. QED  BY <3>1, <3>2
        <2>6. HashToBig(t) = n
            <3> DEFINE x == Reverse(t)
            <3>1. /\ x \in Seq(0 .. Radix - 1) /\ Len(x) = H
                  /\ \A i \in 1 .. H : x[i] = t[H + 1 - i]
                BY <2>4, Reversed
            <3> HIDE DEF x
            <3>2. ASSUME NEW k \in 1 .. H  PROVE x[k] = (n \div p[H - k]) % Radix
                <4>1. H + 1 - k \in 1 .. H /\ (H + 1 - k) - 1 = H - k
                    BY <1>0
                <4>2. x[k] = digit(H + 1 - k)
                    BY <2>5, <3>1, <4>1
                <4>. QED  BY <4>1, <4>2 DEF digit
            <3>3. FromDigits(Radix, x) = n
                <4>1. \A k \in 1 .. H : x[k] = (n \div Power(Radix)[H - k]) % Radix
                    BY <3>2
                <4>2. n < Power(Radix)[H] /\ H \in Nat
                    BY <1>0, <2>2
                <4> HIDE DEF n, p, H
                <4>. QED  BY <1>0, <1>1, <3>1, <4>1, <4>2, DigitsRestore
            <3>. QED  BY <3>3 DEF HashToBig, FromBytesBe, x
        <2>7. CheckPowHashPrecomputed(f, [targetLe |-> t, acceptsAll |-> FALSE])
                 <=> HashToBig(f) <= HashToBig(t)
            BY <2>4, BytesCompare
        <2>. QED  BY <1>8, <1>b, <1>c, <2>6, <2>7
    <1>. QED  BY <1>7, <1>8

\* A harder target is met by fewer hashes.
LEMMA HarderTarget ==
    ASSUME NEW d \in Nat \ {0}, NEW e \in Nat \ {0}, d <= e
    PROVE  PowTargetOf(e) <= PowTargetOf(d)
    <1> DEFINE M == Power(Radix)[HashBytes]
               m == M \div d
               n == M \div e
    <1>1. M \in Nat
        BY PowerIs, DifficultyAssumption
    <1> HIDE DEF M
    <1>2. m \in Nat /\ M < m * d + d /\ n \in Nat /\ n * e <= M
        BY <1>1, QuotientBounds
    <1> HIDE DEF m, n
    <1>3. ASSUME m + 1 <= n  PROVE FALSE
        <2>1. (m + 1) * d <= n * d
            <3>1. m + 1 \in Nat
                BY <1>2
            <3>. QED  BY <1>2, <1>3, <3>1, ProductGrows
        <2>2. d * n <= e * n
            BY <1>2, ProductGrows
        <2>3. (m + 1) * d = m * d + d /\ d * n = n * d /\ e * n = n * e
            BY <1>2
        <2> DEFINE a == m * d
                   b == n * d
                   c == n * e
        <2>4. a + d <= b /\ b <= c /\ c <= M /\ M < a + d /\ a \in Int /\ b \in Int /\ c \in Int
            BY <1>2, <2>1, <2>2, <2>3
        <2> HIDE DEF a, b, c
        <2>. QED  BY <1>1, <2>4
    <1>4. n <= m
        BY <1>2, <1>3
    <1>. QED  BY <1>4 DEF PowTargetOf, m, n, M

\* The checks of every mini-block that is tried.
PowTypeOK ==
    pow \in [difficulty : Nat \ {0}, work : Works, height : Int]

\* difficulty.rs: for every width of a hash, every radix, every difficulty and
\* every mini-block, the comparison of bytes in the mining loop and the
\* verifier's comparison of big integers accept the same hashes.
THEOREM TargetsAlwaysAgree == PowSpec => []TargetsAgree
    <1>1. PowInit => PowTypeOK
        BY DifficultyAssumption DEF PowInit, PowTypeOK
    <1>2. PowTypeOK /\ [PowNext]_pow => PowTypeOK'
        BY DEF PowTypeOK, PowNext
    <1>3. PowTypeOK => TargetsAgree
        <2> SUFFICES ASSUME PowTypeOK  PROVE TargetsAgree
            OBVIOUS
        <2> DEFINE d == pow.difficulty
                   f == PowHashAtHeight(pow.work, pow.height, Hf2)
                   high == HighDiffFactor * d
        <2>1. d \in Nat \ {0} /\ pow.work \in Works /\ pow.height \in Int
            BY DEF PowTypeOK
        <2>2. f \in Hashes
            BY <2>1, DifficultyAssumption DEF PowHashAtHeight
        <2>3. high \in Nat \ {0} /\ d <= high /\ d * HighDiffFactor = high
            <3>1. 1 \in Nat /\ HighDiffFactor \in Nat /\ 1 <= HighDiffFactor /\ d \in Nat
                BY <2>1, DifficultyAssumption
            <3>2. 1 * d <= HighDiffFactor * d /\ HighDiffFactor * d \in Nat
                BY <3>1, ProductGrows
            <3>. QED  BY <2>1, <3>1, <3>2
        <2>4. /\ CheckPowHashPrecomputed(f, PrecomputePowTarget(d)) <=> CheckPowHashBig(f, d)
              /\ CheckPowHashPrecomputed(f, PrecomputePowTarget(high)) <=> CheckPowHashBig(f, high)
            BY <2>1, <2>2, <2>3, ChecksAgree
        <2>5. CheckPowHashBig(f, high) => CheckPowHashBig(f, d)
            <3>1. HashToBig(f) \in Nat /\ PowTargetOf(high) \in Nat /\ PowTargetOf(d) \in Nat
                BY <2>1, <2>2, <2>3, HashBound, TargetBound
            <3>2. PowTargetOf(high) <= PowTargetOf(d)
                BY <2>1, <2>3, HarderTarget
            <3>. QED  BY <3>1, <3>2 DEF CheckPowHashBig
        <2>6. /\ VerifyMiniblockPow(pow.work, FALSE, d, pow.height, Hf2) <=> CheckPowHashBig(f, d)
              /\ VerifyMiniblockPow(pow.work, TRUE, d, pow.height, Hf2) <=> CheckPowHashBig(f, high)
            BY <2>3 DEF VerifyMiniblockPow, Scaled
        <2>7. ASSUME pow.height >= Hf2, NEW h \in BOOLEAN
              PROVE  VerifyMiniblockPowV3(pow.work, h, d)
                        <=> VerifyMiniblockPow(pow.work, h, d, pow.height, Hf2)
            <3>1. ~(pow.height < Hf2)
                BY <2>1, <2>7, DifficultyAssumption
            <3>. QED  BY <3>1 DEF VerifyMiniblockPowV3, VerifyMiniblockPow, PowHashAtHeight
        <2>8. ASSUME NEW side \in 1 .. 2
              PROVE  PowHashAtHeightX2(pow.work, pow.work, pow.height, Hf2)[side] = f
            BY DEF PowHashAtHeightX2, PowHashAtHeight
        <2> HIDE DEF f, high
        <2>9. /\ VerifyMiniblockPow(pow.work, FALSE, d, pow.height, Hf2)
                     <=> CheckPowHashPrecomputed(f, PrecomputePowTarget(d))
              /\ VerifyMiniblockPow(pow.work, TRUE, d, pow.height, Hf2)
                     <=> CheckPowHashPrecomputed(f, PrecomputePowTarget(high))
              /\ VerifyMiniblockPow(pow.work, TRUE, d, pow.height, Hf2)
                     => VerifyMiniblockPow(pow.work, FALSE, d, pow.height, Hf2)
            BY <2>4, <2>5, <2>6, Zenon
        <2>. QED  BY <2>7, <2>8, <2>9, Zenon DEF TargetsAgree, f, high
    <1>. QED  BY <1>1, <1>2, <1>3, PTL DEF PowSpec

-----------------------------------------------------------------------------
(* The mini-blocks of a block *)

\* A mini-block is added unless it is the final one or held already.
LEMMA InsertIs ==
    ASSUME NEW held \in Seq(Mini), NEW m \in Mini
    PROVE  /\ InsertMiniblock(held, m) \in Seq(Mini)
           /\ m.final \/ (\E k \in 1 .. Len(held) : held[k] = m) => InsertMiniblock(held, m) = held
           /\ ~m.final /\ ~(\E k \in 1 .. Len(held) : held[k] = m) => InsertMiniblock(held, m) = Append(held, m)
    <1>1. DOMAIN held = 1 .. Len(held) /\ Append(held, m) \in Seq(Mini)
        OBVIOUS
    <1>2. (\E k \in DOMAIN held : GetKey(held[k]) = GetKey(m) /\ held[k] = m)
              <=> \E k \in 1 .. Len(held) : held[k] = m
        BY <1>1, Zenon
    <1>. QED  BY <1>1, <1>2 DEF InsertMiniblock

\* What the collection holds, mini-block by mini-block.
LEMMA HeldIs ==
    ASSUME NEW minis \in Seq(Mini)
    PROVE  /\ Held(minis) \in [0 .. Len(minis) -> Seq(Mini)] /\ Held(minis)[0] = <<>>
           /\ \A k \in 1 .. Len(minis) : Held(minis)[k] = InsertMiniblock(Held(minis)[k - 1], minis[k])
    <1> DEFINE L == Len(minis)
               V == Seq(Mini)
               g == [p \in Nat \X V |-> IF p[1] \in 1 .. L THEN InsertMiniblock(p[2], minis[p[1]]) ELSE <<>>]
    <1>0. L \in Nat /\ \A k \in 1 .. L : minis[k] \in Mini
        OBVIOUS
    <1>1. <<>> \in V
        OBVIOUS
    <1>2. ASSUME NEW k \in 1 .. L, NEW x \in V  PROVE InsertMiniblock(x, minis[k]) \in V
        <2>1. minis[k] \in Mini
            BY <1>0
        <2>. QED  BY <2>1, InsertIs
    <1> HIDE DEF L, V
    <1>3. g \in [Nat \X V -> V]
        <2> SUFFICES ASSUME NEW p \in Nat \X V
                     PROVE  (IF p[1] \in 1 .. L THEN InsertMiniblock(p[2], minis[p[1]]) ELSE <<>>) \in V
            OBVIOUS
        <2>1. p[2] \in V
            OBVIOUS
        <2>. QED  BY <1>1, <1>2, <2>1, Zenon
    <1>4. \A n \in 1 .. L, x \in V : g[<<n, x>>] = InsertMiniblock(x, minis[n])
        <2> SUFFICES ASSUME NEW n \in 1 .. L, NEW x \in V  PROVE g[<<n, x>>] = InsertMiniblock(x, minis[n])
            OBVIOUS
        <2>1. n \in Nat
            BY <1>0
        <2>. QED  BY <2>1
    <1> HIDE DEF g
    <1>5. PICK h : Defines(V, <<>>, g, h)
        BY <1>1, <1>3, Recursion, Zenon
    <1>6. h \in [Nat -> V] /\ h[0] = <<>> /\ \A n \in Nat \ {0} : h[n] = g[<<n, h[n - 1]>>]
        BY <1>5 DEF Defines
    <1>7. \A n \in 1 .. L : h[n] = InsertMiniblock(h[n - 1], minis[n])
        <2> SUFFICES ASSUME NEW n \in 1 .. L  PROVE h[n] = InsertMiniblock(h[n - 1], minis[n])
            OBVIOUS
        <2>1. n \in Nat \ {0} /\ n - 1 \in Nat
            BY <1>0
        <2>2. h[n - 1] \in V
            BY <1>6, <2>1
        <2>. QED  BY <1>4, <1>6, <2>1, <2>2
    <1> DEFINE r == [k \in 0 .. L |-> h[k]]
    <1>8. \A k \in 0 .. L : r[k] = h[k]
        OBVIOUS
    <1>9. r = [k \in 0 .. L |-> IF k = 0 THEN <<>> ELSE InsertMiniblock(r[k - 1], minis[k])]
        <2> SUFFICES ASSUME NEW k \in 0 .. L
                     PROVE  h[k] = IF k = 0 THEN <<>> ELSE InsertMiniblock(r[k - 1], minis[k])
            OBVIOUS
        <2>1. CASE k = 0
            BY <1>6, <2>1
        <2>2. CASE k # 0
            <3>1. k \in 1 .. L /\ k - 1 \in 0 .. L
                BY <1>0, <2>2
            <3> HIDE DEF r
            <3>2. r[k - 1] = h[k - 1]
                BY <1>8, <3>1
            <3>3. h[k] = InsertMiniblock(h[k - 1], minis[k])
                BY <1>7, <3>1
            <3>. QED  BY <2>2, <3>2, <3>3
        <2>. QED  BY <2>1, <2>2
    <1> DEFINE Is(v) == v = [k \in 0 .. L |-> IF k = 0 THEN <<>> ELSE InsertMiniblock(v[k - 1], minis[k])]
               v == Held(minis)
    <1>10. v = [k \in 0 .. L |-> IF k = 0 THEN <<>> ELSE InsertMiniblock(v[k - 1], minis[k])]
        <2>1. v = CHOOSE x : Is(x)
            BY DEF Held, L
        <2>2. Is(r)
            BY <1>9
        <2> HIDE DEF Is
        <2>3. Is(v)
            BY <2>1, <2>2, Zenon
        <2>. QED  BY <2>3 DEF Is
    <1> HIDE DEF v, Is, r
    <1>11. v[0] = <<>> /\ \A k \in 1 .. L : v[k] = InsertMiniblock(v[k - 1], minis[k])
        <2>1. v[0] = <<>>
            BY <1>0, <1>10
        <2>2. ASSUME NEW k \in 1 .. L  PROVE v[k] = InsertMiniblock(v[k - 1], minis[k])
            <3>1. k \in 0 .. L /\ k # 0
                BY <1>0
            <3>. QED  BY <1>10, <3>1, Zenon
        <2>. QED  BY <2>1, <2>2
    <1>12. \A k \in 0 .. L : v[k] \in V
        <2> DEFINE S == {k \in Nat : v[k] \in V}
        <2>1. 0 \in S
            BY <1>1, <1>11
        <2>2. ASSUME NEW n \in Nat, n < L, n \in S  PROVE n + 1 \in S
            <3>1. n + 1 \in 1 .. L /\ (n + 1) - 1 = n /\ v[n] \in V
                BY <1>0, <2>2
            <3>2. InsertMiniblock(v[n], minis[n + 1]) \in V
                BY <1>2, <3>1
            <3>. QED  BY <1>11, <3>1, <3>2
        <2> HIDE DEF S
        <2>3. \A n \in 0 .. L : n \in S
            BY <1>0, <2>1, <2>2, BoundedInduction, Zenon
        <2>. QED  BY <2>3 DEF S
    <1>13. v \in [0 .. L -> V]
        BY <1>10, <1>12
    <1>. QED  BY <1>11, <1>13 DEF v, L, V

\* The j-th mini-block is not added: it is the final one, or a copy.
Skipped(minis, j) ==
    minis[j].final \/ \E i \in 1 .. j - 1 : ~minis[i].final /\ minis[i] = minis[j]

Has(held, m) == \E p \in 1 .. Len(held) : held[p] = m

\* After k mini-blocks every one that is not final is held, and each one that
\* was skipped leaves the collection one shorter.
Accounted(minis, held, k) ==
    /\ held \in Seq(Mini) /\ Len(held) <= k
    /\ \A j \in 1 .. k : ~minis[j].final => Has(held, minis[j])
    /\ \A j \in 1 .. k : Skipped(minis, j) => Len(held) <= k - 1
    /\ \A i, j \in 1 .. k : i < j /\ Skipped(minis, i) /\ Skipped(minis, j) => Len(held) <= k - 2

\* Adding the next mini-block keeps the account.
LEMMA InsertAccounted ==
    ASSUME NEW minis \in Seq(Mini), NEW k \in Nat, k < Len(minis), NEW held, Accounted(minis, held, k)
    PROVE  Accounted(minis, InsertMiniblock(held, minis[k + 1]), k + 1)
    <1> DEFINE n == k + 1
               m == minis[n]
               new == InsertMiniblock(held, m)
    <1>0. /\ n \in Nat /\ m \in Mini /\ n - 1 = k
          /\ \A j \in 1 .. n : j \in 1 .. k \/ j = n
          /\ \A i \in 1 .. n : i < n => i \in 1 .. k
        OBVIOUS
    <1>1. /\ held \in Seq(Mini) /\ Len(held) <= k /\ Len(held) \in Nat
          /\ \A j \in 1 .. k : ~minis[j].final => Has(held, minis[j])
          /\ \A j \in 1 .. k : Skipped(minis, j) => Len(held) <= k - 1
          /\ \A i, j \in 1 .. k : i < j /\ Skipped(minis, i) /\ Skipped(minis, j) => Len(held) <= k - 2
        BY DEF Accounted
    <1>2. /\ new \in Seq(Mini)
          /\ m.final \/ Has(held, m) => new = held
          /\ ~m.final /\ ~Has(held, m) => new = Append(held, m)
        BY <1>0, <1>1, InsertIs DEF Has
    <1>3. new = held \/ new = Append(held, m)
        BY <1>2
    <1>4. Skipped(minis, n) => new = held
        <2>1. ASSUME NEW i \in 1 .. n - 1, ~minis[i].final, minis[i] = m  PROVE Has(held, m)
            <3>1. i \in 1 .. k
                BY <1>0
            <3>2. Has(held, minis[i])
                BY <1>1, <2>1, <3>1, Zenon
            <3>. QED  BY <2>1, <3>2
        <2>. QED  BY <1>2, <2>1 DEF Skipped
    <1>5. ~m.final => Has(new, m)
        <2>1. ASSUME ~m.final, ~Has(held, m)  PROVE Has(new, m)
            <3>1. new = Append(held, m)
                BY <1>2, <2>1
            <3>2. Len(new) = Len(held) + 1 /\ new[Len(held) + 1] = m /\ Len(held) + 1 \in 1 .. Len(new)
                BY <1>0, <1>1, <3>1
            <3>. QED  BY <3>2, Zenon DEF Has
        <2>. QED  BY <1>2, <2>1
    <1>6. ASSUME NEW x, Has(held, x)  PROVE Has(new, x)
        <2>1. CASE new = held
            BY <1>6, <2>1
        <2>2. CASE new = Append(held, m)
            <3>1. PICK p \in 1 .. Len(held) : held[p] = x
                BY <1>6 DEF Has
            <3>2. p \in 1 .. Len(new) /\ new[p] = x
                BY <1>0, <1>1, <2>2, <3>1
            <3>. QED  BY <3>2, Zenon DEF Has
        <2>. QED  BY <1>3, <2>1, <2>2
    <1>7. Len(new) \in Nat /\ Len(new) <= Len(held) + 1 /\ (Skipped(minis, n) => Len(new) = Len(held))
        <2>1. Len(Append(held, m)) = Len(held) + 1
            BY <1>0, <1>1
        <2>. QED  BY <1>1, <1>3, <1>4, <2>1
    <1> HIDE DEF n, m, new
    <1>8. ASSUME NEW j \in 1 .. n, ~minis[j].final  PROVE Has(new, minis[j])
        <2>1. CASE j = n
            BY <1>5, <1>8, <2>1 DEF m
        <2>2. CASE j \in 1 .. k
            <3>1. Has(held, minis[j])
                BY <1>1, <1>8, <2>2, Zenon
            <3>. QED  BY <1>6, <3>1
        <2>. QED  BY <1>0, <2>1, <2>2
    <1>9. ASSUME NEW j \in 1 .. n, Skipped(minis, j)  PROVE Len(new) <= n - 1
        <2>1. CASE j = n
            <3>1. Len(new) = Len(held)
                BY <1>7, <1>9, <2>1
            <3>. QED  BY <1>0, <1>1, <3>1
        <2>2. CASE j \in 1 .. k
            <3>1. Len(held) <= k - 1
                BY <1>1, <1>9, <2>2, Zenon
            <3>. QED  BY <1>0, <1>1, <1>7, <3>1
        <2>. QED  BY <1>0, <2>1, <2>2
    <1>10. ASSUME NEW i \in 1 .. n, NEW j \in 1 .. n, i < j, Skipped(minis, i), Skipped(minis, j)
           PROVE  Len(new) <= n - 2
        <2>1. CASE j = n
            <3>1. i \in 1 .. k
                BY <1>0, <1>10, <2>1
            <3>2. Len(held) <= k - 1
                BY <1>1, <1>10, <3>1, Zenon
            <3>3. Len(new) = Len(held)
                BY <1>7, <1>10, <2>1
            <3>. QED  BY <1>0, <1>1, <3>2, <3>3
        <2>2. CASE j \in 1 .. k
            <3>1. i \in 1 .. k
                BY <1>0, <1>10, <2>2
            <3>2. Len(held) <= k - 2
                BY <1>1, <1>10, <2>2, <3>1, Zenon
            <3>. QED  BY <1>0, <1>1, <1>7, <3>2
        <2>. QED  BY <1>0, <2>1, <2>2
    <1>11. Len(new) <= n
        BY <1>0, <1>1, <1>7
    <1>12. Accounted(minis, new, n)
        BY <1>2, <1>8, <1>9, <1>10, <1>11 DEF Accounted
    <1>. QED  BY <1>12 DEF new, m, n

\* The whole block is accounted for.
LEMMA CollectedAccounted ==
    ASSUME NEW minis \in Seq(Mini)
    PROVE  Accounted(minis, Collected(minis), Len(minis))
    <1> DEFINE L == Len(minis)
               h == Held(minis)
               S == {k \in Nat : Accounted(minis, h[k], k)}
    <1>0. L \in Nat
        OBVIOUS
    <1>1. h[0] = <<>> /\ \A k \in 1 .. L : h[k] = InsertMiniblock(h[k - 1], minis[k])
        BY HeldIs
    <1> HIDE DEF h
    <1>2. 0 \in S
        <2>1. h[0] \in Seq(Mini) /\ Len(h[0]) <= 0 /\ 1 .. 0 = {}
            BY <1>1
        <2>. QED  BY <2>1 DEF Accounted
    <1>3. ASSUME NEW k \in Nat, k < L, k \in S  PROVE k + 1 \in S
        <2>1. k + 1 \in 1 .. L /\ (k + 1) - 1 = k /\ k + 1 \in Nat
            BY <1>0, <1>3
        <2>2. h[k + 1] = InsertMiniblock(h[k], minis[k + 1])
            BY <1>1, <2>1
        <2>3. Accounted(minis, h[k], k) /\ k < Len(minis)
            BY <1>3
        <2>4. Accounted(minis, InsertMiniblock(h[k], minis[k + 1]), k + 1)
            BY <2>3, InsertAccounted
        <2>. QED  BY <2>1, <2>2, <2>4
    <1>4. \A k \in 0 .. L : k \in S
        <2> HIDE DEF S, L
        <2>. QED  BY <1>0, <1>2, <1>3, BoundedInduction, Zenon
    <1>5. L \in S
        BY <1>0, <1>4
    <1>. QED  BY <1>5 DEF Collected, h

\* Two of a block's mini-blocks are not skipped when the collection is one short.
LEMMA SkippedOnce ==
    ASSUME NEW minis \in Seq(Mini), Len(Collected(minis)) = Len(minis) - 1,
           NEW i \in 1 .. Len(minis), NEW j \in 1 .. Len(minis), Skipped(minis, i), Skipped(minis, j)
    PROVE  i = j
    <1> DEFINE L == Len(minis)
               c == Len(Collected(minis))
    <1>1. \A p, q \in 1 .. L : p < q /\ Skipped(minis, p) /\ Skipped(minis, q) => c <= L - 2
        BY CollectedAccounted DEF Accounted
    <1>2. L \in Nat /\ c = L - 1 /\ i \in 1 .. L /\ j \in 1 .. L
        OBVIOUS
    <1> HIDE DEF c, L
    <1>3. ~(i < j)
        <2>1. i < j => c <= L - 2
            BY <1>1, <1>2, Zenon
        <2>. QED  BY <1>2, <2>1
    <1>4. ~(j < i)
        <2>1. j < i => c <= L - 2
            BY <1>1, <1>2, Zenon
        <2>. QED  BY <1>2, <2>1
    <1>. QED  BY <1>2, <1>3, <1>4

\* The form of a block.
BlockTypeOK ==
    block \in [major : Nat, minor : Nat, timestamp : Nat, height : Nat, minerTx : TxSamples,
               proof : Seq(Nat), tips : Seq(Seq(Nat)), minis : Seq(Mini), txHashes : Seq(Seq(Nat))]

\* No step takes a block out of its form.
LEMMA BlockTyped == BlockSpec => []BlockTypeOK
    <1>1. BlockInit => BlockTypeOK
        <2> SUFFICES ASSUME NEW h \in Heights, NEW tx \in TxSamples,
                            block = [major |-> 1, minor |-> 200, timestamp |-> 770, height |-> h, minerTx |-> tx,
                                     proof |-> <<3, 3>>, tips |-> <<>>, minis |-> <<>>, txHashes |-> <<>>]
                     PROVE  BlockTypeOK
            BY DEF BlockInit
        <2>1. h \in Nat /\ <<3, 3>> \in Seq(Nat) /\ <<>> \in Seq(Seq(Nat)) /\ <<>> \in Seq(Mini)
            BY BlockCodecAssumption
        <2>. QED  BY <2>1 DEF BlockTypeOK
    <1>2. BlockTypeOK /\ [BlockNext]_block => BlockTypeOK'
        <2> SUFFICES ASSUME BlockTypeOK, [BlockNext]_block  PROVE BlockTypeOK'
            OBVIOUS
        <2>0. block.tips \in Seq(Seq(Nat)) /\ block.minis \in Seq(Mini) /\ block.txHashes \in Seq(Seq(Nat))
            BY DEF BlockTypeOK
        <2>1. CASE block' = [block EXCEPT !.tips = Append(@, <<9, Len(@)>>)]
            <3>1. Append(block.tips, <<9, Len(block.tips)>>) \in Seq(Seq(Nat))
                BY <2>0
            <3>. QED  BY <2>1, <3>1 DEF BlockTypeOK
        <2>2. CASE \E m \in Minis : block' = [block EXCEPT !.minis = Append(@, m)]
            <3>1. PICK m \in Minis : block' = [block EXCEPT !.minis = Append(@, m)]
                BY <2>2
            <3>2. Append(block.minis, m) \in Seq(Mini)
                <4>1. m \in Mini
                    BY BlockCodecAssumption
                <4>. QED  BY <2>0, <4>1
            <3>. QED  BY <3>1, <3>2 DEF BlockTypeOK
        <2>3. CASE block' = [block EXCEPT !.txHashes = Append(@, <<Len(@), 61>>)]
            <3>1. Append(block.txHashes, <<Len(block.txHashes), 61>>) \in Seq(Seq(Nat))
                BY <2>0
            <3>. QED  BY <2>3, <3>1 DEF BlockTypeOK
        <2>4. CASE block' = block
            BY <2>4 DEF BlockTypeOK
        <2>. QED  BY <2>1, <2>2, <2>3, <2>4 DEF BlockNext
    <1>. QED  BY <1>1, <1>2, PTL DEF BlockSpec

\* Binding a block changes the key hash of its last mini-block only, so the check
\* of the bound block says that the last mini-block is the final one.
LEMMA BoundLastFinal ==
    ASSUME BlockTypeOK, VerifyHashcheck(Bind(block))
    PROVE  block.minis # <<>> /\ block.minis[Len(block.minis)].final
    <1> DEFINE minis == block.minis
               L == Len(minis)
               hash == HeaderHash(block)
               bound == [minis EXCEPT ![L].keyHash = hash]
    <1>1. minis \in Seq(Mini) /\ L \in Nat
        BY DEF BlockTypeOK
    <1>2. Bind(block).minis = bound
        BY DEF Bind, BlockTypeOK
    <1> HIDE DEF minis, hash
    <1>3. bound # <<>> /\ Last(bound).final
        BY <1>2 DEF VerifyHashcheck
    <1>4. CASE L = 0
        <2>1. minis = <<>>
            BY <1>1, <1>4
        <2>2. bound = <<>>
            BY <2>1
        <2>. QED  BY <1>3, <2>2
    <1>5. CASE L # 0
        <2>1. L \in 1 .. L /\ minis # <<>> /\ minis[L] \in Mini
            BY <1>1, <1>5
        <2>2. Len(bound) = L /\ bound[L] = [minis[L] EXCEPT !.keyHash = hash]
            BY <1>1, <2>1
        <2>3. Last(bound) = [minis[L] EXCEPT !.keyHash = hash]
            BY <2>2 DEF Last
        <2>4. minis[L].final
            BY <1>3, <2>1, <2>3 DEF Mini
        <2>. QED  BY <2>1, <2>4 DEF minis
    <1>. QED  BY <1>4, <1>5

\* A block of any number of mini-blocks that passes both checks has its one final
\* mini-block in last place and no mini-block twice (block.rs verify_miniblocks,
\* verify_miniblocks_hashcheck and miniblock.rs insert_miniblock).
THEOREM WorkNeverCountedTwice == BlockSpec => []NoWorkCountedTwice
    <1>1. BlockTypeOK => NoWorkCountedTwice
        <2> DEFINE minis == block.minis
                   L == Len(minis)
        <2> SUFFICES ASSUME BlockTypeOK, VerifyMiniblocks(block), block.height >= SoftForkHeight
                     PROVE  /\ \A j, k \in DOMAIN minis : minis[j] = minis[k] => j = k
                            /\ VerifyHashcheck(Bind(block)) => {k \in DOMAIN minis : minis[k].final} = {L}
            BY DEF NoWorkCountedTwice
        <2>0. minis \in Seq(Mini) /\ L \in Nat /\ DOMAIN minis = 1 .. L
            BY DEF BlockTypeOK
        <2>a. VerifyHashcheck(Bind(block)) => minis # <<>> /\ minis[L].final
            BY BoundLastFinal
        <2>1. CASE block.height = 0
            <3>1. minis = <<>>
                BY <2>1 DEF VerifyMiniblocks
            <3>. QED  BY <2>a, <3>1
        <2>2. CASE block.height # 0
            <3>1. /\ \E k \in DOMAIN minis : minis[k].final
                  /\ L = BlockTime - HighDiff + 1
                  /\ Len(Collected(minis)) = BlockTime - HighDiff
                BY <2>2 DEF VerifyMiniblocks
            <3> HIDE DEF minis
            <3>2. Len(Collected(minis)) = L - 1
                BY <3>1, BlockCodecAssumption
            <3>3. \A i, j \in 1 .. L : Skipped(minis, i) /\ Skipped(minis, j) => i = j
                BY <2>0, <3>2, SkippedOnce
            <3>4. \A k \in 1 .. L : minis[k].final => Skipped(minis, k)
                BY DEF Skipped
            <3>5. PICK f \in 1 .. L : minis[f].final
                BY <2>0, <3>1
            <3>6. ASSUME NEW j \in 1 .. L, NEW k \in 1 .. L, minis[j] = minis[k], j < k  PROVE FALSE
                <4>1. CASE minis[j].final
                    <5>1. minis[k].final
                        BY <3>6, <4>1
                    <5>2. j = k
                        BY <3>3, <3>4, <4>1, <5>1, Zenon
                    <5>. QED  BY <2>0, <3>6, <5>2
                <4>2. CASE ~minis[j].final
                    <5>1. j \in 1 .. k - 1
                        BY <2>0, <3>6
                    <5>2. Skipped(minis, k)
                        BY <3>6, <4>2, <5>1, Zenon DEF Skipped
                    <5>3. f = k
                        BY <3>3, <3>4, <3>5, <5>2, Zenon
                    <5>. QED  BY <3>5, <3>6, <4>2, <5>3
                <4>. QED  BY <4>1, <4>2
            <3>7. ASSUME NEW j \in DOMAIN minis, NEW k \in DOMAIN minis, minis[j] = minis[k]  PROVE j = k
                <4>1. j \in 1 .. L /\ k \in 1 .. L
                    BY <2>0
                <4>2. ~(j < k)
                    BY <3>6, <3>7, <4>1
                <4>3. ~(k < j)
                    BY <3>6, <3>7, <4>1
                <4>. QED  BY <2>0, <4>1, <4>2, <4>3
            <3>8. ASSUME VerifyHashcheck(Bind(block))  PROVE {k \in DOMAIN minis : minis[k].final} = {L}
                <4>1. minis # <<>> /\ minis[L].final
                    BY <2>a, <3>8
                <4>2. L \in 1 .. L
                    BY <2>0, <4>1
                <4>3. \A k \in 1 .. L : minis[k].final => k = L
                    BY <3>3, <3>4, <4>1, <4>2, Zenon
                <4>. QED  BY <2>0, <4>1, <4>2, <4>3
            <3>. QED  BY <3>7, <3>8
        <2>. QED  BY <2>1, <2>2
    <1>. QED  BY <1>1, BlockTyped, PTL

-----------------------------------------------------------------------------
(* The bytes of a mini-block *)

\* Parts of sequences, of any elements.
LEMMA Part ==
    ASSUME NEW X, NEW s \in Seq(X), NEW i \in Nat, NEW n \in Nat, i + n <= Len(s)
    PROVE  /\ SubSeq(s, i + 1, i + n) \in Seq(X) /\ Len(SubSeq(s, i + 1, i + n)) = n
           /\ \A j \in 1 .. n : SubSeq(s, i + 1, i + n)[j] = s[i + j]
    OBVIOUS

LEMMA Cat ==
    ASSUME NEW X, NEW a \in Seq(X), NEW b \in Seq(X)
    PROVE  /\ a \o b \in Seq(X) /\ Len(a \o b) = Len(a) + Len(b)
           /\ \A j \in 1 .. Len(a) : (a \o b)[j] = a[j]
           /\ \A j \in 1 .. Len(b) : (a \o b)[Len(a) + j] = b[j]
    OBVIOUS

LEMMA SameSeq ==
    ASSUME NEW X, NEW a \in Seq(X), NEW b \in Seq(X), Len(a) = Len(b), \A j \in 1 .. Len(a) : a[j] = b[j]
    PROVE  a = b
    OBVIOUS

\* The bytes q are in s behind the first off.
At(s, off, q) == off + Len(q) <= Len(s) /\ \A j \in 1 .. Len(q) : s[off + j] = q[j]

\* w is the beginning of v.
Begins(w, v) == Len(w) <= Len(v) /\ \A j \in 1 .. Len(w) : v[j] = w[j]

\* What begins with w and q has q behind w.
LEMMA Grown ==
    ASSUME NEW w \in Bytes, NEW q \in Bytes, NEW v \in Bytes, Begins(w \o q, v)
    PROVE  Begins(w, v) /\ At(v, Len(w), q)
    <1> DEFINE u == w \o q
    <1>1. /\ Len(u) = Len(w) + Len(q) /\ Len(w) \in Nat /\ Len(q) \in Nat
          /\ \A j \in 1 .. Len(w) : u[j] = w[j]
          /\ \A j \in 1 .. Len(q) : u[Len(w) + j] = q[j]
        BY DEF Bytes
    <1>2. Len(u) <= Len(v) /\ \A j \in 1 .. Len(u) : v[j] = u[j]
        BY DEF Begins
    <1>3. Len(v) \in Nat
        BY DEF Bytes
    <1> HIDE DEF u
    <1>4. Begins(w, v)
        <2>1. \A j \in 1 .. Len(w) : j \in 1 .. Len(u)
            BY <1>1
        <2>2. Len(w) <= Len(v)
            BY <1>1, <1>2, <1>3
        <2>. QED  BY <1>1, <1>2, <2>1, <2>2, Zenon DEF Begins
    <1>5. At(v, Len(w), q)
        <2>1. \A j \in 1 .. Len(q) : Len(w) + j \in 1 .. Len(u)
            BY <1>1
        <2>2. Len(w) + Len(q) <= Len(v)
            BY <1>1, <1>2
        <2>. QED  BY <1>1, <1>2, <2>1, <2>2, Zenon DEF At
    <1>. QED  BY <1>4, <1>5

\* Bytes that are in s can be cut out of it.
LEMMA AtPiece ==
    ASSUME NEW s \in Bytes, NEW q \in Bytes, NEW off \in Nat, At(s, off, q)
    PROVE  SubSeq(s, off + 1, off + Len(q)) = q
    <1> DEFINE n == Len(q)
               z == SubSeq(s, off + 1, off + n)
               X == 0 .. 255
    <1>1. n \in Nat /\ off + n <= Len(s) /\ \A j \in 1 .. n : s[off + j] = q[j]
        BY DEF At, Bytes
    <1>2. s \in Seq(X) /\ q \in Seq(X)
        BY DEF Bytes
    <1> HIDE DEF X
    <1>3. z \in Seq(X) /\ Len(z) = n /\ \A j \in 1 .. n : z[j] = s[off + j]
        BY <1>1, <1>2, Part
    <1> HIDE DEF z
    <1>4. \A j \in 1 .. n : z[j] = q[j]
        BY <1>1, <1>3, Zenon
    <1>5. z = q
        BY <1>2, <1>3, <1>4, SameSeq
    <1>. QED  BY <1>5 DEF z

\* Two parts of s that meet are one part of it.
LEMMA Joined ==
    ASSUME NEW s \in Bytes, NEW i \in Nat, NEW n \in Nat, i + n <= Len(s)
    PROVE  SubSeq(s, 1, i) \o SubSeq(s, i + 1, i + n) = SubSeq(s, 1, i + n)
    <1> DEFINE a == SubSeq(s, 1, i)
               b == SubSeq(s, i + 1, i + n)
               c == SubSeq(s, 1, i + n)
               X == 0 .. 255
    <1>0. /\ Len(s) \in Nat /\ s \in Seq(X) /\ i + n \in Nat /\ i <= Len(s)
          /\ 0 + 1 = 1 /\ 0 + i = i /\ 0 + (i + n) = i + n /\ 0 \in Nat
        BY DEF Bytes
    <1> HIDE DEF X
    <1>1. a \in Seq(X) /\ Len(a) = i /\ \A j \in 1 .. i : a[j] = s[j]
        <2>1. \A j \in 1 .. i : 0 + j = j
            OBVIOUS
        <2>. QED  BY <1>0, <2>1, Part
    <1>2. b \in Seq(X) /\ Len(b) = n /\ \A j \in 1 .. n : b[j] = s[i + j]
        BY <1>0, Part
    <1>3. c \in Seq(X) /\ Len(c) = i + n /\ \A j \in 1 .. i + n : c[j] = s[j]
        <2>1. \A j \in 1 .. i + n : 0 + j = j
            OBVIOUS
        <2>. QED  BY <1>0, <2>1, Part
    <1> HIDE DEF a, b, c
    <1> DEFINE d == a \o b
    <1>4. /\ d \in Seq(X) /\ Len(d) = i + n
          /\ \A j \in 1 .. i : d[j] = a[j]
          /\ \A j \in 1 .. n : d[i + j] = b[j]
        <2>1. a \in Seq(X) /\ b \in Seq(X)
            BY <1>1, <1>2
        <2>2. /\ d \in Seq(X) /\ Len(d) = Len(a) + Len(b)
              /\ \A j \in 1 .. Len(a) : d[j] = a[j]
              /\ \A j \in 1 .. Len(b) : d[Len(a) + j] = b[j]
            BY <2>1, Cat DEF d
        <2>. QED  BY <1>1, <1>2, <2>2, Zenon
    <1> HIDE DEF d
    <1>5. ASSUME NEW j \in 1 .. i + n  PROVE d[j] = c[j]
        <2>1. CASE j <= i
            <3>1. j \in 1 .. i
                BY <2>1
            <3>. QED  BY <1>1, <1>3, <1>4, <3>1
        <2>2. CASE j > i
            <3>1. j - i \in 1 .. n /\ i + (j - i) = j
                BY <2>2
            <3>2. d[i + (j - i)] = b[j - i] /\ b[j - i] = s[i + (j - i)]
                BY <1>2, <1>4, <3>1, Zenon
            <3>. QED  BY <1>3, <3>1, <3>2
        <2>. QED  BY <2>1, <2>2
    <1>6. d = c
        BY <1>3, <1>4, <1>5, SameSeq
    <1>. QED  BY <1>6 DEF a, b, c, d

\* The big-endian bytes of a number, and the number of the bytes.
LEMMA BeIs ==
    ASSUME NEW x \in Nat, NEW n \in Nat
    PROVE  /\ Be(x, n) \in Bytes /\ Len(Be(x, n)) = n
           /\ x < Power(256)[n] => FromBe(Be(x, n)) = x
    <1> DEFINE p == Power(256)
               d == [k \in 1 .. n |-> (x \div p[n - k]) % 256]
    <1>1. p \in [Nat -> Nat \ {0}]
        BY PowerIs
    <1> HIDE DEF p
    <1>2. ASSUME NEW k \in 1 .. n  PROVE (x \div p[n - k]) % 256 \in 0 .. 255
        <2>1. n - k \in Nat
            OBVIOUS
        <2>2. p[n - k] \in Nat \ {0}
            BY <1>1, <2>1
        <2>3. x \div p[n - k] \in Nat
            BY <2>2, QuotientBounds
        <2>. QED  BY <2>3
    <1>3. d \in [1 .. n -> 0 .. 255]
        BY <1>2
    <1>4. d \in Seq(0 .. 255) /\ Len(d) = n /\ \A k \in 1 .. n : d[k] = (x \div p[n - k]) % 256
        BY <1>3
    <1>5. Be(x, n) = d
        BY DEF Be, p
    <1>6. ASSUME x < p[n]  PROVE FromDigits(256, d) = x
        <2> HIDE DEF d
        <2> DEFINE r == 256
        <2>1. d \in Seq(0 .. r - 1) /\ r \in Nat \ {0}
            <3>1. r - 1 = 255
                OBVIOUS
            <3>. QED  BY <1>4, <3>1
        <2>2. x < Power(r)[n] /\ \A k \in 1 .. n : d[k] = (x \div Power(r)[n - k]) % r
            BY <1>4, <1>6 DEF p
        <2> HIDE DEF r
        <2>3. FromDigits(r, d) = x
            BY <1>4, <2>1, <2>2, DigitsRestore
        <2>. QED  BY <2>3 DEF r
    <1> HIDE DEF d
    <1>7. d \in Bytes
        BY <1>4 DEF Bytes
    <1>8. x < Power(256)[n] => FromBe(d) = x
        BY <1>6 DEF FromBe, p
    <1>. QED  BY <1>4, <1>5, <1>7, <1>8

LEMMA BeOf ==
    ASSUME NEW s \in Bytes
    PROVE  FromBe(s) \in Nat /\ FromBe(s) < Power(256)[Len(s)] /\ Be(FromBe(s), Len(s)) = s
    <1> DEFINE r == 256
               x == FromDigits(r, s)
    <1>1. s \in Seq(0 .. r - 1) /\ r \in Nat \ {0} /\ r \in Nat /\ Len(s) \in Nat
        <2>1. r - 1 = 255
            OBVIOUS
        <2>. QED  BY <2>1 DEF Bytes
    <1> HIDE DEF r
    <1>a. s \in Seq(Nat)
        BY <1>1
    <1>2. x \in Nat
        BY <1>1, <1>a, FromDigitsIs
    <1>3. x < Power(r)[Len(s)]
        BY <1>1, DigitsBound
    <1>4. \A k \in 1 .. Len(s) : (x \div Power(r)[Len(s) - k]) % r = s[k]
        BY <1>1, DigitsOf
    <1>5. Be(x, Len(s)) = [k \in 1 .. Len(s) |-> s[k]]
        <2> HIDE DEF x
        <2>. QED  BY <1>4, Zenon DEF Be, r
    <1>6. [k \in 1 .. Len(s) |-> s[k]] = s
        BY <1>1
    <1>. QED  BY <1>2, <1>3, <1>5, <1>6, Zenon DEF FromBe, r

\* The bytes of a mini-block, each field at its place.
Laid(w, first, m) ==
    LET past == 1 + TimeBytes + HeightBytes
        key == past + 2 * IntBytes
        flags == key + KeyBytes
    IN  /\ w \in Bytes /\ Len(w) = MiniblockSize
        /\ At(w, 0, <<first>>)
        /\ At(w, 1, Be(m.timestamp, TimeBytes)) /\ At(w, 1 + TimeBytes, Be(m.height, HeightBytes))
        /\ At(w, past, Be(m.past[1], IntBytes)) /\ At(w, past + IntBytes, Be(m.past[2], IntBytes))
        /\ At(w, key, m.keyHash) /\ At(w, flags, Be(m.flags, IntBytes))
        /\ At(w, flags + IntBytes, Be(m.nonce[1], IntBytes))
        /\ At(w, flags + 2 * IntBytes, Be(m.nonce[2], IntBytes))
        /\ At(w, flags + 3 * IntBytes, Be(m.nonce[3], IntBytes))

\* The byte with the version, the past count and the two flags.
FirstByte(m) ==
    OrByte(OrByte(m.version, (m.pastCount * 64) % 256),
           OrByte(Flag(m.highDiff, 16), Flag(m.final, 32)))

LEMMA Appended ==
    ASSUME NEW w \in Bytes, NEW q \in Bytes
    PROVE  w \o q \in Bytes /\ Len(w \o q) = Len(w) + Len(q)
    <1> DEFINE X == 0 .. 255
    <1>1. w \in Seq(X) /\ q \in Seq(X)
        BY DEF Bytes
    <1> HIDE DEF X
    <1>2. w \o q \in Seq(X) /\ Len(w \o q) = Len(w) + Len(q)
        BY <1>1, Cat, Zenon
    <1>. QED  BY <1>2 DEF X, Bytes

\* What TypedMini says of a mini-block, field by field.
LEMMA TypedFields ==
    ASSUME NEW m \in TypedMini
    PROVE  /\ m \in Mini /\ m.version \in 0 .. 255 /\ m.pastCount \in 0 .. 255
           /\ m.timestamp \in Nat /\ m.timestamp < Power(256)[TimeBytes] /\ m.height \in Nat
           /\ m.past \in Seq(Nat) /\ Len(m.past) = 2 /\ \A k \in {1, 2} : m.past[k] \in Nat /\ m.past[k] < CounterMod
           /\ m.keyHash \in Bytes /\ Len(m.keyHash) = KeyBytes /\ m.flags \in Nat /\ m.flags < CounterMod
           /\ m.nonce \in Seq(Nat) /\ Len(m.nonce) = 3 /\ \A k \in {1, 2, 3} : m.nonce[k] \in Nat /\ m.nonce[k] < CounterMod
           /\ m.highDiff \in BOOLEAN /\ m.final \in BOOLEAN
    <1> DEFINE S == 0 .. CounterMod - 1
    <1>1. /\ m \in Mini /\ m.version < 256 /\ m.pastCount < 256
          /\ m.timestamp < Power(256)[TimeBytes]
          /\ m.past \in Seq(S) /\ Len(m.past) = 2
          /\ Len(m.keyHash) = KeyBytes /\ m.flags < CounterMod
          /\ m.nonce \in Seq(S) /\ Len(m.nonce) = 3
        BY Zenon DEF TypedMini
    <1>2. /\ m.version \in Nat /\ m.pastCount \in Nat /\ m.timestamp \in Nat /\ m.height \in Nat
          /\ m.past \in Seq(Nat) /\ m.keyHash \in Bytes /\ m.flags \in Nat /\ m.nonce \in Seq(Nat)
          /\ m.highDiff \in BOOLEAN /\ m.final \in BOOLEAN
        BY <1>1 DEF Mini
    <1>a. ASSUME NEW x \in Nat, x < 256  PROVE x \in 0 .. 255
        BY <1>a
    <1>3. m.version \in 0 .. 255 /\ m.pastCount \in 0 .. 255
        BY <1>1, <1>2, <1>a, Zenon
    <1>4. CounterMod \in Nat
        BY PowerIs, BlockCodecAssumption DEF CounterMod
    <1>5. ASSUME NEW x \in S  PROVE x \in Nat /\ x < CounterMod
        BY <1>4
    <1> HIDE DEF S
    <1>6. \A k \in {1, 2} : m.past[k] \in S
        BY <1>1
    <1>7. \A k \in {1, 2, 3} : m.nonce[k] \in S
        BY <1>1
    <1>. QED  BY <1>1, <1>2, <1>3, <1>5, <1>6, <1>7, Zenon

LEMMA Widths ==
    /\ TimeBytes \in Nat \ {0} /\ HeightBytes \in Nat \ {0} /\ IntBytes \in Nat \ {0} /\ KeyBytes \in Nat \ {0}
    /\ MiniblockSize \in Nat /\ MiniblockSize = 1 + TimeBytes + HeightBytes + 6 * IntBytes + KeyBytes
    BY BlockCodecAssumption DEF MiniblockSize

\* MiniSerialize lays them out so.
LEMMA MiniLaid ==
    ASSUME NEW m \in TypedMini, NEW first \in 0 .. 255, first = FirstByte(m)
    PROVE  Laid(MiniSerialize(m), first, m)
    <1> DEFINE p1 == <<first>>
               p2 == Be(m.timestamp, TimeBytes)
               p3 == Be(m.height, HeightBytes)
               p4 == Be(m.past[1], IntBytes)
               p5 == Be(m.past[2], IntBytes)
               p6 == m.keyHash
               p7 == Be(m.flags, IntBytes)
               p8 == Be(m.nonce[1], IntBytes)
               p9 == Be(m.nonce[2], IntBytes)
               p10 == Be(m.nonce[3], IntBytes)
               w2 == p1 \o p2
               w3 == w2 \o p3
               w4 == w3 \o p4
               w5 == w4 \o p5
               w6 == w5 \o p6
               w7 == w6 \o p7
               w8 == w7 \o p8
               w9 == w8 \o p9
               w == w9 \o p10
    <1>1. p1 \in Bytes /\ Len(p1) = 1
        BY DEF Bytes
    <1>2. p2 \in Bytes /\ Len(p2) = TimeBytes /\ p3 \in Bytes /\ Len(p3) = HeightBytes
        BY TypedFields, Widths, BeIs
    <1>0. /\ m.past[1] \in Nat /\ m.past[2] \in Nat /\ IntBytes \in Nat
          /\ m.nonce[1] \in Nat /\ m.nonce[2] \in Nat /\ m.nonce[3] \in Nat
        BY TypedFields, Widths
    <1>3. p4 \in Bytes /\ Len(p4) = IntBytes /\ p5 \in Bytes /\ Len(p5) = IntBytes
        BY <1>0, BeIs
    <1>4. p6 \in Bytes /\ Len(p6) = KeyBytes /\ p7 \in Bytes /\ Len(p7) = IntBytes
        BY TypedFields, Widths, BeIs
    <1>5. p8 \in Bytes /\ Len(p8) = IntBytes /\ p9 \in Bytes /\ Len(p9) = IntBytes
        BY <1>0, BeIs
    <1>6. p10 \in Bytes /\ Len(p10) = IntBytes
        BY <1>0, BeIs
    <1>7. MiniSerialize(m) = w
        BY DEF MiniSerialize, FirstByte
    <1> HIDE DEF p1, p2, p3, p4, p5, p6, p7, p8, p9, p10
    <1>a. w2 \in Bytes /\ Len(w2) = Len(p1) + Len(p2)
        BY <1>1, <1>2, Appended
    <1> HIDE DEF w2
    <1>b. w3 \in Bytes /\ Len(w3) = Len(w2) + Len(p3)
        BY <1>a, <1>2, Appended
    <1> HIDE DEF w3
    <1>c. w4 \in Bytes /\ Len(w4) = Len(w3) + Len(p4)
        BY <1>b, <1>3, Appended
    <1> HIDE DEF w4
    <1>d. w5 \in Bytes /\ Len(w5) = Len(w4) + Len(p5)
        BY <1>c, <1>3, Appended
    <1> HIDE DEF w5
    <1>e. w6 \in Bytes /\ Len(w6) = Len(w5) + Len(p6)
        BY <1>d, <1>4, Appended
    <1> HIDE DEF w6
    <1>f. w7 \in Bytes /\ Len(w7) = Len(w6) + Len(p7)
        BY <1>e, <1>4, Appended
    <1> HIDE DEF w7
    <1>g. w8 \in Bytes /\ Len(w8) = Len(w7) + Len(p8)
        BY <1>f, <1>5, Appended
    <1> HIDE DEF w8
    <1>h. w9 \in Bytes /\ Len(w9) = Len(w8) + Len(p9)
        BY <1>g, <1>5, Appended
    <1> HIDE DEF w9
    <1>i. w \in Bytes /\ Len(w) = Len(w9) + Len(p10)
        BY <1>h, <1>6, Appended
    <1> DEFINE past == 1 + TimeBytes + HeightBytes
               key == past + 2 * IntBytes
               flags == key + KeyBytes
    <1>8. /\ Len(p1) = 1 /\ Len(w2) = 1 + TimeBytes /\ Len(w3) = past /\ Len(w4) = past + IntBytes /\ Len(w5) = key
          /\ Len(w6) = flags /\ Len(w7) = flags + IntBytes /\ Len(w8) = flags + 2 * IntBytes
          /\ Len(w9) = flags + 3 * IntBytes /\ Len(w) = MiniblockSize
        <2> HIDE DEF w
        <2>. QED  BY <1>1, <1>2, <1>3, <1>4, <1>5, <1>6, <1>a, <1>b, <1>c, <1>d, <1>e, <1>f, <1>g, <1>h, <1>i, Widths
    <1>9. Begins(w, w)
        <2> HIDE DEF w
        <2>. QED  BY <1>8, Widths DEF Begins
    <1>10. Begins(w9, w) /\ At(w, Len(w9), p10)
        <2> DEFINE v == w
        <2>1. v = w9 \o p10 /\ v \in Bytes /\ Begins(v, v)
            BY <1>9, <1>i
        <2> HIDE DEF v
        <2>2. Begins(w9, v) /\ At(v, Len(w9), p10)
            BY <1>6, <1>h, <2>1, Grown
        <2>. QED  BY <2>2 DEF v
    <1> HIDE DEF w
    <1>11. Begins(w8, w) /\ At(w, Len(w8), p9)
        BY <1>5, <1>g, <1>i, <1>10, Grown DEF w9
    <1>12. Begins(w7, w) /\ At(w, Len(w7), p8)
        BY <1>5, <1>f, <1>i, <1>11, Grown DEF w8
    <1>13. Begins(w6, w) /\ At(w, Len(w6), p7)
        BY <1>4, <1>e, <1>i, <1>12, Grown DEF w7
    <1>14. Begins(w5, w) /\ At(w, Len(w5), p6)
        BY <1>4, <1>d, <1>i, <1>13, Grown DEF w6
    <1>15. Begins(w4, w) /\ At(w, Len(w4), p5)
        BY <1>3, <1>c, <1>i, <1>14, Grown DEF w5
    <1>16. Begins(w3, w) /\ At(w, Len(w3), p4)
        BY <1>3, <1>b, <1>i, <1>15, Grown DEF w4
    <1>17. Begins(w2, w) /\ At(w, Len(w2), p3)
        BY <1>2, <1>a, <1>i, <1>16, Grown DEF w3
    <1>18. Begins(p1, w) /\ At(w, Len(p1), p2)
        BY <1>1, <1>2, <1>i, <1>17, Grown DEF w2
    <1>19. At(w, 0, p1)
        <2>1. Len(p1) <= Len(w) /\ \A j \in 1 .. Len(p1) : w[j] = p1[j]
            BY <1>18 DEF Begins
        <2>2. 0 + Len(p1) = Len(p1) /\ \A j \in 1 .. Len(p1) : 0 + j = j
            BY <1>1
        <2>3. \A j \in 1 .. Len(p1) : w[0 + j] = p1[j]
            BY <2>1, <2>2, Zenon
        <2>4. 0 + Len(p1) <= Len(w)
            BY <2>1, <2>2
        <2>. QED  BY <2>3, <2>4, Zenon DEF At
    <1>20. /\ w \in Bytes /\ Len(w) = MiniblockSize /\ At(w, 0, p1) /\ At(w, 1, p2) /\ At(w, 1 + TimeBytes, p3)
           /\ At(w, past, p4) /\ At(w, past + IntBytes, p5) /\ At(w, key, p6) /\ At(w, flags, p7)
           /\ At(w, flags + IntBytes, p8) /\ At(w, flags + 2 * IntBytes, p9) /\ At(w, flags + 3 * IntBytes, p10)
        BY <1>8, <1>i, <1>10, <1>11, <1>12, <1>13, <1>14, <1>15, <1>16, <1>17, <1>18, <1>19, Zenon
    <1>21. Laid(w, first, m)
        BY <1>20, Zenon DEF Laid, p1, p2, p3, p4, p5, p6, p7, p8, p9, p10
    <1>22. MiniSerialize(m) = w
        BY <1>7 DEF w, w9, w8, w7, w6, w5, w4, w3, w2
    <1>. QED  BY <1>21, <1>22, Zenon

\* What deserialize reads of bytes of the right length.
Decoded(w) ==
    LET past == 1 + TimeBytes + HeightBytes
        key == past + 2 * IntBytes
        flags == key + KeyBytes
    IN  [version |-> w[1] % 16, pastCount |-> w[1] \div 64,
         highDiff |-> AndByte(w[1], 16) > 0, final |-> AndByte(w[1], 32) > 0,
         timestamp |-> Field(w, 1, TimeBytes), height |-> Field(w, 1 + TimeBytes, HeightBytes),
         past |-> <<Field(w, past, IntBytes), Field(w, past + IntBytes, IntBytes)>>,
         keyHash |-> SubSeq(w, key + 1, key + KeyBytes),
         flags |-> Field(w, flags, IntBytes),
         nonce |-> [k \in 1 .. 3 |-> Field(w, flags + k * IntBytes, IntBytes)]]

\* The mask leaves the bytes of the height of the first bytes.
LEMMA HeightIs ==
    ASSUME NEW w \in Bytes, 1 + TimeBytes + HeightBytes <= Len(w)
    PROVE  HeightField(w) = Field(w, 1 + TimeBytes, HeightBytes)
    <1> DEFINE r == 256
               k == 1 + TimeBytes
               h == HeightBytes
               d == SubSeq(w, 0 + 1, 0 + (k + h))
               e == SubSeq(w, k + 1, k + h)
    <1>1. w \in Seq(0 .. r - 1) /\ r \in Nat \ {0} /\ Len(w) \in Nat /\ k \in Nat /\ h \in Nat /\ k + h <= Len(w)
        <2>1. r - 1 = 255
            OBVIOUS
        <2>. QED  BY <2>1, Widths DEF Bytes
    <1>2. HeightField(w) = FromDigits(r, d) % Power(r)[h] /\ Field(w, k, h) = FromDigits(r, e)
        <2>1. k + h = 1 + TimeBytes + HeightBytes
            OBVIOUS
        <2>. QED  BY <2>1 DEF HeightField, Field, FromBe
    <1> HIDE DEF r, k, h
    <1> DEFINE X == 0 .. r - 1
    <1>3. d \in Seq(X) /\ Len(d) = k + h /\ \A j \in 1 .. k + h : d[j] = w[j]
        <2>1. 0 \in Nat /\ k + h \in Nat /\ 0 + (k + h) <= Len(w) /\ \A j \in 1 .. k + h : 0 + j = j
            BY <1>1
        <2>2. w \in Seq(X)
            BY <1>1
        <2> HIDE DEF X
        <2>. QED  BY <2>1, <2>2, Part
    <1>4. e \in Seq(X) /\ Len(e) = h /\ \A j \in 1 .. h : e[j] = w[k + j]
        <2>1. w \in Seq(X) /\ k \in Nat /\ h \in Nat /\ k + h <= Len(w)
            BY <1>1
        <2> HIDE DEF X
        <2>. QED  BY <2>1, Part
    <1> HIDE DEF d, e
    <1> DEFINE t == SubSeq(d, k + 1, k + h)
    <1>5. t \in Seq(X) /\ Len(t) = h /\ \A j \in 1 .. h : t[j] = d[k + j]
        <2> HIDE DEF X
        <2>1. d \in Seq(X) /\ k \in Nat /\ h \in Nat /\ k + h <= Len(d)
            BY <1>1, <1>3
        <2>. QED  BY <2>1, Part
    <1>6. t = e
        <2>1. \A j \in 1 .. h : k + j \in 1 .. k + h
            BY <1>1
        <2> HIDE DEF X, t
        <2>2. \A j \in 1 .. Len(t) : t[j] = e[j]
            BY <1>3, <1>4, <1>5, <2>1, Zenon
        <2>. QED  BY <1>4, <1>5, <2>2, SameSeq
    <1>7. FromDigits(r, d) % Power(r)[Len(d) - k] = FromDigits(r, SubSeq(d, k + 1, Len(d)))
        <2>1. k \in 0 .. Len(d)
            BY <1>1, <1>3
        <2>. QED  BY <1>1, <1>3, <2>1, DigitsCut
    <1>8. Len(d) - k = h
        BY <1>1, <1>3
    <1>9. FromDigits(r, d) % Power(r)[h] = FromDigits(r, e)
        BY <1>3, <1>6, <1>7, <1>8, Zenon DEF t
    <1>. QED  BY <1>2, <1>9, Zenon DEF k, h

LEMMA DeserializeIs ==
    ASSUME NEW w \in Bytes, Len(w) = MiniblockSize
    PROVE  MiniDeserialize(w) = IF Decoded(w).version # 1 \/ ~ SanityCheck(Decoded(w))
                                THEN Err ELSE Got(Decoded(w), <<>>)
    <1>1. HeightField(w) = Field(w, 1 + TimeBytes, HeightBytes)
        <2>1. 1 + TimeBytes + HeightBytes <= Len(w)
            BY Widths
        <2>. QED  BY <2>1, HeightIs
    <1>2. Drop(w, MiniblockSize) = <<>>
        <2>1. w \in Seq(0 .. 255)
            BY DEF Bytes
        <2>. QED  BY <2>1, Widths DEF Drop
    <1>3. ~(Len(w) < MiniblockSize)
        BY Widths
    <1>. QED  BY <1>1, <1>2, <1>3, Zenon DEF MiniDeserialize, Decoded

\* The two values without a common bit that | adds.
Apart(a, b) == \A bit \in {1, 2, 4, 8, 16, 32, 64, 128} : (a \div bit) % 2 = 0 \/ (b \div bit) % 2 = 0

LEMMA OrAdds ==
    ASSUME NEW a \in 0 .. 255, NEW b \in 0 .. 255
    PROVE  OrByte(a, b) \in 0 .. 255 /\ (Apart(a, b) => OrByte(a, b) = a + b)
    BY BitAssumption, Zenon DEF Apart

LEMMA FirstByteTyped ==
    ASSUME NEW m \in TypedMini
    PROVE  FirstByte(m) \in 0 .. 255
    <1>0. m.version \in 0 .. 255 /\ m.pastCount \in 0 .. 255
        BY TypedFields, Zenon
    <1>1. m.version \in 0 .. 255 /\ m.pastCount \in Nat
        BY <1>0
    <1> DEFINE a == (m.pastCount * 64) % 256
               f == Flag(m.highDiff, 16)
               g == Flag(m.final, 32)
    <1>2. a \in 0 .. 255
        BY <1>1
    <1>3. f \in 0 .. 255 /\ g \in 0 .. 255
        BY DEF Flag
    <1> HIDE DEF a, f, g
    <1>4. OrByte(m.version, a) \in 0 .. 255 /\ OrByte(f, g) \in 0 .. 255
        BY <1>1, <1>2, <1>3, OrAdds
    <1>5. OrByte(OrByte(m.version, a), OrByte(f, g)) \in 0 .. 255
        BY <1>4, OrAdds
    <1>. QED  BY <1>5 DEF a, f, g, FirstByte

\* A byte x made of a version, a past count and two flags that fit.
Parts(x, v, c, f, g) ==
    v \in 0 .. 15 /\ c \in 0 .. 3 /\ f \in {0, 16} /\ g \in {0, 32} /\ x = v + 64 * c + f + g

\* The four parts share no bit.
LEMMA FirstByteIs ==
    ASSUME NEW x0, NEW v, NEW c, NEW f, NEW g, Parts(x0, v, c, f, g)
    PROVE  OrByte(OrByte(v, (c * 64) % 256), OrByte(f, g)) = x0
    <1> DEFINE a == (c * 64) % 256
    <1>0. v \in 0 .. 15 /\ c \in 0 .. 3 /\ f \in {0, 16} /\ g \in {0, 32} /\ x0 = v + 64 * c + f + g
        BY DEF Parts
    <1>1. a \in {0, 64, 128, 192} /\ a = 64 * c
        <2>1. c = 0 \/ c = 1 \/ c = 2 \/ c = 3
            BY <1>0
        <2>. QED  BY <2>1
    <1> HIDE DEF a
    <1>2. Apart(v, a)
        <2>1. \A bit \in {1, 2, 4, 8, 16, 32} : (a \div bit) % 2 = 0
            BY <1>1
        <2>2. \A bit \in {64, 128} : (v \div bit) % 2 = 0
            BY <1>0
        <2>. QED  BY <2>1, <2>2 DEF Apart
    <1>3. Apart(f, g)
        BY <1>0 DEF Apart
    <1>4. OrByte(v, a) = v + a /\ OrByte(f, g) = f + g
        <2>1. v \in 0 .. 255 /\ a \in 0 .. 255 /\ f \in 0 .. 255 /\ g \in 0 .. 255
            BY <1>0, <1>1
        <2>2. OrByte(v, a) = v + a
            BY <1>2, <2>1, OrAdds, Zenon
        <2>3. OrByte(f, g) = f + g
            BY <1>3, <2>1, OrAdds, Zenon
        <2>. QED  BY <2>2, <2>3
    <1> DEFINE x == v + a
               y == f + g
    <1>5. Apart(x, y)
        <2>1. y \in {0, 16, 32, 48} /\ x \in Nat /\ x < 256
            BY <1>0, <1>1
        <2>2. \A bit \in {1, 2, 4, 8, 64, 128} : (y \div bit) % 2 = 0
            <3> HIDE DEF y
            <3>. QED  BY <2>1
        <2>3. \A bit \in {16, 32} : (x \div bit) % 2 = 0
            BY <1>0, <1>1
        <2> HIDE DEF x, y
        <2>. QED  BY <2>2, <2>3 DEF Apart
    <1>6. OrByte(x, y) = x + y
        <2>1. x \in 0 .. 255 /\ y \in 0 .. 255
            BY <1>0, <1>1
        <2> HIDE DEF x, y
        <2>. QED  BY <1>5, <2>1, OrAdds
    <1>7. x + y = x0
        BY <1>0, <1>1
    <1>. QED  BY <1>4, <1>6, <1>7, Zenon DEF a

\* The same byte read again.
LEMMA FirstByteRead ==
    ASSUME NEW x, NEW v, NEW c, NEW f, NEW g, Parts(x, v, c, f, g)
    PROVE  /\ x % 16 = v /\ x \div 64 = c
           /\ AndByte(x, 16) > 0 <=> f = 16
           /\ AndByte(x, 32) > 0 <=> g = 32
    <1>0. v \in 0 .. 15 /\ c \in 0 .. 3 /\ f \in {0, 16} /\ g \in {0, 32} /\ x = v + 64 * c + f + g
        BY DEF Parts
    <1>1. x \in 0 .. 255 /\ x % 16 = v /\ x \div 64 = c
        BY <1>0
    <1>2. (x \div 16) % 2 = 1 <=> f = 16
        BY <1>0
    <1>3. (x \div 32) % 2 = 1 <=> g = 32
        BY <1>0
    <1>4. /\ AndByte(x, 16) > 0 <=> (x \div 16) % 2 = 1
          /\ AndByte(x, 32) > 0 <=> (x \div 32) % 2 = 1
        BY <1>1, BitAssumption, Zenon
    <1>. QED  BY <1>1, <1>2, <1>3, <1>4, Zenon

LEMMA FirstByteParts ==
    ASSUME NEW x \in 0 .. 255
    PROVE  \E v, c, f, g : Parts(x, v, c, f, g)
    <1> DEFINE v == x % 16
               c == x \div 64
               f == 16 * ((x \div 16) % 2)
               g == 32 * ((x \div 32) % 2)
    <1>1. v \in 0 .. 15 /\ c \in 0 .. 3 /\ f \in {0, 16} /\ g \in {0, 32} /\ x = v + 64 * c + f + g
        OBVIOUS
    <1> HIDE DEF v, c, f, g
    <1>2. Parts(x, v, c, f, g)
        BY <1>1, Zenon DEF Parts
    <1>. QED  BY <1>2, Zenon

\* A field that was written is read.
LEMMA FieldIs ==
    ASSUME NEW w \in Bytes, NEW off \in Nat, NEW n \in Nat, NEW x \in Nat, x < Power(256)[n],
           At(w, off, Be(x, n))
    PROVE  Field(w, off, n) = x
    <1> DEFINE q == Be(x, n)
    <1>1. q \in Bytes /\ Len(q) = n /\ FromBe(q) = x
        BY BeIs
    <1> HIDE DEF q
    <1>2. SubSeq(w, off + 1, off + Len(q)) = q
        BY <1>1, AtPiece DEF q
    <1>. QED  BY <1>1, <1>2 DEF Field

\* A field that was read is written as the bytes it was read from.
LEMMA FieldOf ==
    ASSUME NEW w \in Bytes, NEW off \in Nat, NEW n \in Nat, off + n <= Len(w)
    PROVE  /\ Field(w, off, n) \in Nat /\ Field(w, off, n) < Power(256)[n]
           /\ Be(Field(w, off, n), n) = SubSeq(w, off + 1, off + n)
           /\ SubSeq(w, off + 1, off + n) \in Bytes /\ Len(SubSeq(w, off + 1, off + n)) = n
    <1> DEFINE q == SubSeq(w, off + 1, off + n)
               X == 0 .. 255
    <1>1. w \in Seq(X)
        BY DEF Bytes
    <1> HIDE DEF X
    <1>2. q \in Seq(X) /\ Len(q) = n
        BY <1>1, Part
    <1> HIDE DEF q
    <1>3. q \in Bytes
        BY <1>2 DEF X, Bytes
    <1>4. FromBe(q) \in Nat /\ FromBe(q) < Power(256)[Len(q)] /\ Be(FromBe(q), Len(q)) = q
        BY <1>3, BeOf
    <1>. QED  BY <1>2, <1>3, <1>4, Zenon DEF Field, q

\* deserialize reads the mini-block that serialize wrote.
LEMMA MiniRead ==
    ASSUME NEW m \in TypedMini, SanityCheck(m), m.version = 1
    PROVE  /\ MiniSerialize(m) \in Bytes /\ Len(MiniSerialize(m)) = MiniblockSize
           /\ Decoded(MiniSerialize(m)) = m
    <1> DEFINE w == MiniSerialize(m)
               b == FirstByte(m)
               past == 1 + TimeBytes + HeightBytes
               key == past + 2 * IntBytes
               flags == key + KeyBytes
               f == Flag(m.highDiff, 16)
               g == Flag(m.final, 32)
    <1>0. /\ past \in Nat /\ key \in Nat /\ flags \in Nat /\ past + IntBytes \in Nat /\ flags + IntBytes \in Nat
          /\ flags + 2 * IntBytes \in Nat /\ flags + 3 * IntBytes \in Nat /\ 1 + TimeBytes \in Nat /\ 1 \in Nat
          /\ IntBytes \in Nat /\ TimeBytes \in Nat /\ HeightBytes \in Nat
        BY Widths
    <1>1. Laid(w, b, m)
        BY FirstByteTyped, MiniLaid
    <1>2. f \in {0, 16} /\ g \in {0, 32} /\ (f = 16 <=> m.highDiff) /\ (g = 32 <=> m.final)
        BY DEF Flag
    <1>3. m.pastCount \in 0 .. 3 /\ 1 \in 0 .. 15
        BY DEF SanityCheck
    <1>4. Parts(b, 1, m.pastCount, f, g)
        <2> DEFINE c == m.pastCount
                   x == 1 + 64 * c + f + g
        <2>1. b = OrByte(OrByte(1, (c * 64) % 256), OrByte(f, g))
            BY DEF FirstByte
        <2>2. c \in 0 .. 3
            BY <1>3
        <2> HIDE DEF b, f, g, c
        <2>3. Parts(x, 1, c, f, g)
            BY <1>2, <1>3, <2>2 DEF Parts
        <2> HIDE DEF x
        <2>4. OrByte(OrByte(1, (c * 64) % 256), OrByte(f, g)) = x
            BY <2>3, FirstByteIs
        <2>. QED  BY <2>1, <2>3, <2>4 DEF c
    <1>5. /\ b % 16 = 1 /\ b \div 64 = m.pastCount
          /\ AndByte(b, 16) > 0 <=> m.highDiff
          /\ AndByte(b, 32) > 0 <=> m.final
        <2> HIDE DEF b, f, g
        <2>3. /\ b % 16 = 1 /\ b \div 64 = m.pastCount
              /\ AndByte(b, 16) > 0 <=> f = 16
              /\ AndByte(b, 32) > 0 <=> g = 32
            BY <1>4, FirstByteRead, Zenon
        <2>. QED  BY <1>2, <2>3, Zenon
    <1> HIDE DEF w, b, f, g
    <1>6. /\ w \in Bytes /\ Len(w) = MiniblockSize
          /\ At(w, 0, <<b>>)
          /\ At(w, 1, Be(m.timestamp, TimeBytes)) /\ At(w, 1 + TimeBytes, Be(m.height, HeightBytes))
          /\ At(w, past, Be(m.past[1], IntBytes)) /\ At(w, past + IntBytes, Be(m.past[2], IntBytes))
          /\ At(w, key, m.keyHash) /\ At(w, flags, Be(m.flags, IntBytes))
          /\ At(w, flags + IntBytes, Be(m.nonce[1], IntBytes))
          /\ At(w, flags + 2 * IntBytes, Be(m.nonce[2], IntBytes))
          /\ At(w, flags + 3 * IntBytes, Be(m.nonce[3], IntBytes))
        BY <1>1, Zenon DEF Laid
    <1> HIDE DEF past, key, flags
    <1>7. w[1] = b
        <2>1. \A j \in 1 .. Len(<<b>>) : w[0 + j] = <<b>>[j]
            BY <1>6, Zenon DEF At
        <2>. QED  BY <2>1
    <1>8. m.height < Power(256)[HeightBytes]
        <2>1. m.height < Power(256)[HeightBytes] - 1 /\ m.height \in Nat
            BY TypedFields DEF SanityCheck
        <2>2. Power(256)[HeightBytes] \in Nat
            BY <1>0, PowerIs
        <2>. QED  BY <2>1, <2>2
    <1>9. /\ m.timestamp \in Nat /\ m.timestamp < Power(256)[TimeBytes] /\ m.height \in Nat
          /\ m.past[1] \in Nat /\ m.past[1] < Power(256)[IntBytes] /\ m.past[2] \in Nat /\ m.past[2] < Power(256)[IntBytes]
          /\ m.flags \in Nat /\ m.flags < Power(256)[IntBytes]
          /\ m.nonce[1] \in Nat /\ m.nonce[1] < Power(256)[IntBytes] /\ m.nonce[2] \in Nat /\ m.nonce[2] < Power(256)[IntBytes]
          /\ m.nonce[3] \in Nat /\ m.nonce[3] < Power(256)[IntBytes]
        BY TypedFields DEF CounterMod
    <1>10. Field(w, 1, TimeBytes) = m.timestamp /\ Field(w, 1 + TimeBytes, HeightBytes) = m.height
        BY <1>0, <1>6, <1>8, <1>9, FieldIs
    <1>11. Field(w, past, IntBytes) = m.past[1] /\ Field(w, past + IntBytes, IntBytes) = m.past[2]
        BY <1>0, <1>6, <1>9, FieldIs
    <1>12. Field(w, flags, IntBytes) = m.flags
        BY <1>0, <1>6, <1>9, FieldIs
    <1>13. Field(w, flags + IntBytes, IntBytes) = m.nonce[1]
        BY <1>0, <1>6, <1>9, FieldIs
    <1>14. Field(w, flags + 2 * IntBytes, IntBytes) = m.nonce[2]
        BY <1>0, <1>6, <1>9, FieldIs
    <1>15. Field(w, flags + 3 * IntBytes, IntBytes) = m.nonce[3]
        BY <1>0, <1>6, <1>9, FieldIs
    <1>16. SubSeq(w, key + 1, key + KeyBytes) = m.keyHash
        <2>1. m.keyHash \in Bytes /\ Len(m.keyHash) = KeyBytes
            BY TypedFields
        <2>2. SubSeq(w, key + 1, key + Len(m.keyHash)) = m.keyHash
            BY <1>0, <1>6, <2>1, AtPiece
        <2>. QED  BY <2>1, <2>2, Zenon
    <1>17. <<m.past[1], m.past[2]>> = m.past
        <2>1. m.past \in Seq(Nat) /\ Len(m.past) = 2
            BY TypedFields
        <2>. QED  BY <2>1
    <1>18. [k \in 1 .. 3 |-> Field(w, flags + k * IntBytes, IntBytes)] = m.nonce
        <2>1. m.nonce \in Seq(Nat) /\ Len(m.nonce) = 3
            BY TypedFields
        <2>2. m.nonce = [k \in 1 .. 3 |-> m.nonce[k]]
            BY <2>1
        <2>3. ASSUME NEW k \in 1 .. 3  PROVE Field(w, flags + k * IntBytes, IntBytes) = m.nonce[k]
            <3>1. k = 1 \/ k = 2 \/ k = 3
                OBVIOUS
            <3>2. 1 * IntBytes = IntBytes
                BY <1>0
            <3>. QED  BY <1>13, <1>14, <1>15, <3>1, <3>2, Zenon
        <2>. QED  BY <2>2, <2>3, Zenon
    <1>19. Decoded(w) = [version |-> 1, pastCount |-> m.pastCount, highDiff |-> m.highDiff, final |-> m.final,
                         timestamp |-> m.timestamp, height |-> m.height, past |-> m.past, keyHash |-> m.keyHash,
                         flags |-> m.flags, nonce |-> m.nonce]
        <2>1. (AndByte(b, 16) > 0) = m.highDiff /\ (AndByte(b, 32) > 0) = m.final
            <3>1. ASSUME NEW x \in BOOLEAN, NEW n, n > 0 <=> x  PROVE (n > 0) = x
                BY <3>1
            <3>2. m.highDiff \in BOOLEAN /\ m.final \in BOOLEAN
                BY TypedFields, Zenon
            <3>. QED  BY <1>5, <3>1, <3>2, Zenon
        <2>2. Decoded(w) = [version |-> w[1] % 16, pastCount |-> w[1] \div 64,
                            highDiff |-> AndByte(w[1], 16) > 0, final |-> AndByte(w[1], 32) > 0,
                            timestamp |-> Field(w, 1, TimeBytes), height |-> Field(w, 1 + TimeBytes, HeightBytes),
                            past |-> <<Field(w, past, IntBytes), Field(w, past + IntBytes, IntBytes)>>,
                            keyHash |-> SubSeq(w, key + 1, key + KeyBytes),
                            flags |-> Field(w, flags, IntBytes),
                            nonce |-> [k \in 1 .. 3 |-> Field(w, flags + k * IntBytes, IntBytes)]]
            BY Zenon DEF Decoded, past, key, flags
        <2>. QED  BY <1>5, <1>7, <1>10, <1>11, <1>12, <1>16, <1>17, <1>18, <2>1, <2>2, Zenon
    <1>20. Decoded(w) = m
        <2>1. m \in Mini
            BY TypedFields, Zenon
        <2>. QED  BY <1>19, <2>1 DEF Mini
    <1>. QED  BY <1>6, <1>20 DEF w

LEMMA HeadPiece ==
    ASSUME NEW X, NEW s \in Seq(X), 0 + 1 <= Len(s)
    PROVE  s[1] \in X /\ SubSeq(s, 1, 1) = <<s[1]>>
    <1> DEFINE t == SubSeq(s, 0 + 1, 0 + 1)
    <1>1. s[1] \in X
        OBVIOUS
    <1>2. t \in Seq(X) /\ Len(t) = 1 /\ \A j \in 1 .. 1 : t[j] = s[0 + j]
        <2>. QED  BY Part
    <1> DEFINE u == <<s[1]>>
    <1>3. u \in Seq(X) /\ Len(u) = 1 /\ u[1] = s[1]
        BY <1>1
    <1>4. t[1] = s[1] /\ t = SubSeq(s, 1, 1)
        BY <1>2
    <1> HIDE DEF t, u
    <1>5. t = u
        <2>1. \A j \in 1 .. Len(t) : t[j] = u[j]
            BY <1>2, <1>3, <1>4
        <2>. QED  BY <1>2, <1>3, <2>1, SameSeq
    <1>. QED  BY <1>1, <1>4, <1>5, Zenon DEF u

LEMMA FlagIs ==
    ASSUME NEW n, NEW bit, bit # 0, NEW f \in {0, bit}, n > 0 <=> f = bit
    PROVE  Flag(n > 0, bit) = f
    BY Zenon DEF Flag

\* The byte of the version, the past count and the flags, put together again.
LEMMA FirstByteAgain ==
    ASSUME NEW x \in 0 .. 255
    PROVE  OrByte(OrByte(x % 16, ((x \div 64) * 64) % 256),
                  OrByte(Flag(AndByte(x, 16) > 0, 16), Flag(AndByte(x, 32) > 0, 32))) = x
    <1>1. PICK v, c, f, g : Parts(x, v, c, f, g)
        BY FirstByteParts, Zenon
    <1>2. /\ x % 16 = v /\ x \div 64 = c
          /\ AndByte(x, 16) > 0 <=> f = 16
          /\ AndByte(x, 32) > 0 <=> g = 32
        BY <1>1, FirstByteRead, Zenon
    <1>3. OrByte(OrByte(v, (c * 64) % 256), OrByte(f, g)) = x
        BY <1>1, FirstByteIs
    <1>4. 16 # 0 /\ 32 # 0 /\ f \in {0, 16} /\ g \in {0, 32}
        BY <1>1 DEF Parts
    <1>5. Flag(AndByte(x, 16) > 0, 16) = f
        BY <1>2, <1>4, FlagIs, Zenon
    <1>6. Flag(AndByte(x, 32) > 0, 32) = g
        BY <1>2, <1>4, FlagIs, Zenon
    <1>7. x % 16 = v /\ x \div 64 = c
        BY <1>2, Zenon
    <1> HIDE <1>1, <1>2, <1>4
    <1>. QED  BY <1>3, <1>5, <1>6, <1>7

LEMMA PieceAgain ==
    ASSUME NEW w \in Bytes, NEW off \in Nat, NEW n \in Nat, off + n <= Len(w)
    PROVE  Be(Field(w, off, n), n) = SubSeq(w, off + 1, off + n)
    BY FieldOf

\* The fields that were read, laid out again, are the bytes they were read from.
LEMMA MiniRewritten ==
    ASSUME NEW w \in Bytes, Len(w) = MiniblockSize
    PROVE  MiniSerialize(Decoded(w)) = w
    <1> DEFINE m == Decoded(w)
               past == 1 + TimeBytes + HeightBytes
               key == past + 2 * IntBytes
               flags == key + KeyBytes
    <1>0. /\ past \in Nat /\ key \in Nat /\ flags \in Nat /\ past + IntBytes \in Nat /\ flags + IntBytes \in Nat
          /\ flags + 2 * IntBytes \in Nat /\ flags + 3 * IntBytes \in Nat /\ 1 + TimeBytes \in Nat /\ 1 \in Nat
          /\ IntBytes \in Nat /\ TimeBytes \in Nat /\ HeightBytes \in Nat /\ KeyBytes \in Nat
          /\ Len(w) = flags + 4 * IntBytes /\ 1 + TimeBytes + HeightBytes = past /\ (past + IntBytes) + IntBytes = key
          /\ (flags + IntBytes) + IntBytes = flags + 2 * IntBytes
          /\ (flags + 2 * IntBytes) + IntBytes = flags + 3 * IntBytes
          /\ (flags + 3 * IntBytes) + IntBytes = flags + 4 * IntBytes
        BY Widths
    <1>r. m = [version |-> w[1] % 16, pastCount |-> w[1] \div 64,
               highDiff |-> AndByte(w[1], 16) > 0, final |-> AndByte(w[1], 32) > 0,
               timestamp |-> Field(w, 1, TimeBytes), height |-> Field(w, 1 + TimeBytes, HeightBytes),
               past |-> <<Field(w, past, IntBytes), Field(w, past + IntBytes, IntBytes)>>,
               keyHash |-> SubSeq(w, key + 1, key + KeyBytes),
               flags |-> Field(w, flags, IntBytes),
               nonce |-> [k \in 1 .. 3 |-> Field(w, flags + k * IntBytes, IntBytes)]]
        BY Zenon DEF Decoded
    <1> HIDE DEF m, past, key, flags
    <1>1. /\ m.timestamp = Field(w, 1, TimeBytes) /\ m.height = Field(w, 1 + TimeBytes, HeightBytes)
          /\ m.past = <<Field(w, past, IntBytes), Field(w, past + IntBytes, IntBytes)>>
          /\ m.keyHash = SubSeq(w, key + 1, key + KeyBytes) /\ m.flags = Field(w, flags, IntBytes)
          /\ m.nonce = [k \in 1 .. 3 |-> Field(w, flags + k * IntBytes, IntBytes)]
        BY <1>r, Zenon
    <1>b. /\ m.version = w[1] % 16 /\ m.pastCount = w[1] \div 64
          /\ m.highDiff = (AndByte(w[1], 16) > 0) /\ m.final = (AndByte(w[1], 32) > 0)
        BY <1>r, Zenon
    <1>c. /\ m.past[1] = Field(w, past, IntBytes) /\ m.past[2] = Field(w, past + IntBytes, IntBytes)
          /\ m.nonce[1] = Field(w, flags + IntBytes, IntBytes)
          /\ m.nonce[2] = Field(w, flags + 2 * IntBytes, IntBytes)
          /\ m.nonce[3] = Field(w, flags + 3 * IntBytes, IntBytes)
        <2>1. 1 * IntBytes = IntBytes
            BY Widths
        <2>2. m.past[1] = Field(w, past, IntBytes) /\ m.past[2] = Field(w, past + IntBytes, IntBytes)
            <3> DEFINE x == Field(w, past, IntBytes)
                       y == Field(w, past + IntBytes, IntBytes)
            <3> HIDE DEF x, y
            <3>1. m.past = <<x, y>>
                BY <1>1, Zenon DEF x, y
            <3>. QED  BY <3>1 DEF x, y
        <2>3. ASSUME NEW k \in 1 .. 3  PROVE m.nonce[k] = Field(w, flags + k * IntBytes, IntBytes)
            BY <1>1, Zenon
        <2>4. 1 \in 1 .. 3 /\ 2 \in 1 .. 3 /\ 3 \in 1 .. 3
            OBVIOUS
        <2>. QED  BY <2>1, <2>2, <2>3, <2>4, Zenon
    <1>a. Len(w) \in Nat
        BY Widths
    <1>2. <<FirstByte(m)>> = SubSeq(w, 1, 1)
        <2> DEFINE x == w[1]
        <2>1. w \in Seq(0 .. 255) /\ 0 + 1 <= Len(w)
            BY Widths DEF Bytes
        <2>2. x \in 0 .. 255 /\ SubSeq(w, 1, 1) = <<x>>
            <3>. QED  BY <2>1, HeadPiece, Zenon
        <2>4. m.version = x % 16 /\ m.pastCount = x \div 64 /\ m.highDiff = (AndByte(x, 16) > 0) /\ m.final = (AndByte(x, 32) > 0)
            BY <1>b, Zenon
        <2> HIDE DEF x
        <2>8. FirstByte(m) = x
            BY <2>2, <2>4, FirstByteAgain, Zenon DEF FirstByte
        <2>. QED  BY <2>2, <2>8, Zenon
    <1>3. /\ Be(m.timestamp, TimeBytes) = SubSeq(w, 1 + 1, 1 + TimeBytes)
          /\ Be(m.height, HeightBytes) = SubSeq(w, (1 + TimeBytes) + 1, (1 + TimeBytes) + HeightBytes)
        <2>1. 1 + TimeBytes <= Len(w) /\ (1 + TimeBytes) + HeightBytes <= Len(w)
            BY Widths
        <2>2. Be(Field(w, 1, TimeBytes), TimeBytes) = SubSeq(w, 1 + 1, 1 + TimeBytes)
            BY <1>0, <2>1, PieceAgain
        <2>3. Be(Field(w, 1 + TimeBytes, HeightBytes), HeightBytes)
                = SubSeq(w, (1 + TimeBytes) + 1, (1 + TimeBytes) + HeightBytes)
            BY <1>0, <2>1, PieceAgain
        <2>. QED  BY <1>1, <2>2, <2>3, Zenon
    <1>4. /\ Be(m.past[1], IntBytes) = SubSeq(w, past + 1, past + IntBytes)
          /\ Be(m.past[2], IntBytes) = SubSeq(w, (past + IntBytes) + 1, (past + IntBytes) + IntBytes)
        <2>1. past + IntBytes <= Len(w) /\ (past + IntBytes) + IntBytes <= Len(w)
            BY Widths DEF past
        <2>2. Be(Field(w, past, IntBytes), IntBytes) = SubSeq(w, past + 1, past + IntBytes)
            BY <1>0, <2>1, PieceAgain
        <2>3. Be(Field(w, past + IntBytes, IntBytes), IntBytes) = SubSeq(w, (past + IntBytes) + 1, (past + IntBytes) + IntBytes)
            BY <1>0, <2>1, PieceAgain
        <2>. QED  BY <1>c, <2>2, <2>3, Zenon
    <1>5. /\ Be(m.flags, IntBytes) = SubSeq(w, flags + 1, flags + IntBytes)
          /\ Be(m.nonce[1], IntBytes) = SubSeq(w, (flags + IntBytes) + 1, (flags + IntBytes) + IntBytes)
        <2>1. flags + IntBytes <= Len(w) /\ (flags + IntBytes) + IntBytes <= Len(w)
            BY <1>0
        <2>2. Be(Field(w, flags, IntBytes), IntBytes) = SubSeq(w, flags + 1, flags + IntBytes)
            BY <1>0, <2>1, PieceAgain
        <2>3. Be(Field(w, flags + IntBytes, IntBytes), IntBytes) = SubSeq(w, (flags + IntBytes) + 1, (flags + IntBytes) + IntBytes)
            BY <1>0, <2>1, PieceAgain
        <2>. QED  BY <1>1, <1>c, <2>2, <2>3, Zenon
    <1>6. /\ Be(m.nonce[2], IntBytes) = SubSeq(w, (flags + 2 * IntBytes) + 1, (flags + 2 * IntBytes) + IntBytes)
          /\ Be(m.nonce[3], IntBytes) = SubSeq(w, (flags + 3 * IntBytes) + 1, (flags + 3 * IntBytes) + IntBytes)
        <2>1. (flags + 2 * IntBytes) + IntBytes <= Len(w) /\ (flags + 3 * IntBytes) + IntBytes <= Len(w)
            BY <1>0
        <2>2. Be(Field(w, flags + 2 * IntBytes, IntBytes), IntBytes) = SubSeq(w, (flags + 2 * IntBytes) + 1, (flags + 2 * IntBytes) + IntBytes)
            BY <1>0, <2>1, PieceAgain
        <2>3. Be(Field(w, flags + 3 * IntBytes, IntBytes), IntBytes) = SubSeq(w, (flags + 3 * IntBytes) + 1, (flags + 3 * IntBytes) + IntBytes)
            BY <1>0, <2>1, PieceAgain
        <2>. QED  BY <1>c, <2>2, <2>3, Zenon
    <1> DEFINE s1 == SubSeq(w, 1, 1)
               s2 == SubSeq(w, 1, 1 + TimeBytes)
               s3 == SubSeq(w, 1, past)
               s4 == SubSeq(w, 1, past + IntBytes)
               s5 == SubSeq(w, 1, key)
               s6 == SubSeq(w, 1, flags)
               s7 == SubSeq(w, 1, flags + IntBytes)
               s8 == SubSeq(w, 1, flags + 2 * IntBytes)
               s9 == SubSeq(w, 1, flags + 3 * IntBytes)
    <1>7. s1 \o Be(m.timestamp, TimeBytes) = s2
        <2>1. 1 + TimeBytes <= Len(w)
            BY Widths
        <2>2. SubSeq(w, 1, 1) \o SubSeq(w, 1 + 1, 1 + TimeBytes) = SubSeq(w, 1, 1 + TimeBytes)
            BY <1>0, <2>1, Joined
        <2>. QED  BY <1>3, <2>2, Zenon
    <1>8. s2 \o Be(m.height, HeightBytes) = s3
        <2>1. (1 + TimeBytes) + HeightBytes <= Len(w) /\ (1 + TimeBytes) + HeightBytes = past
            BY Widths DEF past
        <2>2. SubSeq(w, 1, 1 + TimeBytes) \o SubSeq(w, (1 + TimeBytes) + 1, (1 + TimeBytes) + HeightBytes) = SubSeq(w, 1, (1 + TimeBytes) + HeightBytes)
            BY <1>0, <2>1, Joined
        <2>. QED  BY <1>3, <2>1, <2>2, Zenon
    <1>9. s3 \o Be(m.past[1], IntBytes) = s4
        <2>1. past + IntBytes <= Len(w)
            BY Widths DEF past
        <2>. QED  BY <1>0, <1>4, <2>1, Joined
    <1>10. s4 \o Be(m.past[2], IntBytes) = s5
        <2>1. (past + IntBytes) + IntBytes <= Len(w) /\ (past + IntBytes) + IntBytes = key
            BY Widths DEF past, key
        <2>2. SubSeq(w, 1, past + IntBytes) \o SubSeq(w, (past + IntBytes) + 1, (past + IntBytes) + IntBytes) = SubSeq(w, 1, (past + IntBytes) + IntBytes)
            BY <1>0, <2>1, Joined
        <2>. QED  BY <1>4, <2>1, <2>2, Zenon
    <1>11. s5 \o m.keyHash = s6
        <2>1. key + KeyBytes <= Len(w) /\ key + KeyBytes = flags
            BY <1>0 DEF flags
        <2>2. SubSeq(w, 1, key) \o SubSeq(w, key + 1, key + KeyBytes) = SubSeq(w, 1, key + KeyBytes)
            BY <1>0, <2>1, Joined
        <2>. QED  BY <1>1, <2>1, <2>2, Zenon
    <1>12. s6 \o Be(m.flags, IntBytes) = s7
        <2>1. flags + IntBytes <= Len(w)
            BY <1>0
        <2>. QED  BY <1>0, <1>5, <2>1, Joined
    <1>13. s7 \o Be(m.nonce[1], IntBytes) = s8
        <2>1. (flags + IntBytes) + IntBytes <= Len(w)
            BY <1>0
        <2>2. SubSeq(w, 1, flags + IntBytes) \o SubSeq(w, (flags + IntBytes) + 1, (flags + IntBytes) + IntBytes) = SubSeq(w, 1, (flags + IntBytes) + IntBytes)
            BY <1>0, <2>1, Joined
        <2>. QED  BY <1>0, <1>5, <2>2, Zenon
    <1>14. s8 \o Be(m.nonce[2], IntBytes) = s9
        <2>1. (flags + 2 * IntBytes) + IntBytes <= Len(w)
            BY <1>0
        <2>2. SubSeq(w, 1, flags + 2 * IntBytes) \o SubSeq(w, (flags + 2 * IntBytes) + 1, (flags + 2 * IntBytes) + IntBytes) = SubSeq(w, 1, (flags + 2 * IntBytes) + IntBytes)
            BY <1>0, <2>1, Joined
        <2>. QED  BY <1>0, <1>6, <2>2, Zenon
    <1>15. s9 \o Be(m.nonce[3], IntBytes) = SubSeq(w, 1, Len(w))
        <2>1. (flags + 3 * IntBytes) + IntBytes <= Len(w)
            BY <1>0
        <2>2. SubSeq(w, 1, flags + 3 * IntBytes) \o SubSeq(w, (flags + 3 * IntBytes) + 1, (flags + 3 * IntBytes) + IntBytes) = SubSeq(w, 1, (flags + 3 * IntBytes) + IntBytes)
            BY <1>0, <2>1, Joined
        <2>. QED  BY <1>0, <1>6, <2>2, Zenon
    <1>16. SubSeq(w, 1, Len(w)) = w
        <2>1. w \in Seq(0 .. 255)
            BY DEF Bytes
        <2>2. \A X : w \in Seq(X) => SubSeq(w, 1, Len(w)) = w
            OBVIOUS
        <2>. QED  BY <2>1, <2>2, Zenon
    <1> HIDE DEF s2, s3, s4, s5, s6, s7, s8, s9
    <1>17. MiniSerialize(m) = w
        <2>1. MiniSerialize(m) =
                <<FirstByte(m)>> \o Be(m.timestamp, TimeBytes) \o Be(m.height, HeightBytes)
                    \o Be(m.past[1], IntBytes) \o Be(m.past[2], IntBytes)
                    \o m.keyHash \o Be(m.flags, IntBytes)
                    \o Be(m.nonce[1], IntBytes) \o Be(m.nonce[2], IntBytes) \o Be(m.nonce[3], IntBytes)
            BY Zenon DEF MiniSerialize, FirstByte
        <2>. QED  BY <1>2, <1>7, <1>8, <1>9, <1>10, <1>11, <1>12, <1>13, <1>14, <1>15, <1>16, <2>1, Zenon
    <1>. QED  BY <1>17 DEF m

-----------------------------------------------------------------------------
(* The worker's bytes.                                                       *)

LEMMA MiniBytes ==
    ASSUME NEW m \in TypedMini
    PROVE  MiniSerialize(m) \in Bytes /\ Len(MiniSerialize(m)) = MiniblockSize
    <1>1. Laid(MiniSerialize(m), FirstByte(m), m)
        BY FirstByteTyped, MiniLaid, Zenon
    <1>. QED  BY <1>1, Zenon DEF Laid

LEMMA GotIs ==
    ASSUME NEW m
    PROVE  Got(m, <<>>).kind = "got" /\ Got(m, <<>>).v = m /\ Err.kind # "got"
    BY DEF Got, Err

\* The two sentences of MiniblocksExact.
LEMMA MiniExact ==
    ASSUME NEW m \in TypedMini
    PROVE  LET bytes == MiniSerialize(m)
               back == MiniDeserialize(bytes)
           IN  /\ SanityCheck(m) /\ m.version = 1 => back = Got(m, <<>>)
               /\ back.kind = "got" => MiniSerialize(back.v) = bytes
    <1> DEFINE w == MiniSerialize(m)
               back == MiniDeserialize(w)
    <1>1. w \in Bytes /\ Len(w) = MiniblockSize
        BY MiniBytes, Zenon
    <1>2. ASSUME SanityCheck(m), m.version = 1  PROVE Decoded(w) = m
        BY <1>2, MiniRead, Zenon
    <1> HIDE DEF w
    <1>3. back = IF Decoded(w).version # 1 \/ ~ SanityCheck(Decoded(w)) THEN Err ELSE Got(Decoded(w), <<>>)
        BY <1>1, DeserializeIs, Zenon
    <1>4. MiniSerialize(Decoded(w)) = w
        BY <1>1, MiniRewritten, Zenon
    <1> HIDE DEF back
    <1>5. SanityCheck(m) /\ m.version = 1 => back = Got(m, <<>>)
        BY <1>2, <1>3, Zenon
    <1>6. back.kind = "got" => MiniSerialize(back.v) = w
        <2>1. back.kind = "got" => back = Got(Decoded(w), <<>>)
            BY <1>3, GotIs, Zenon
        <2>. QED  BY <1>4, <2>1, GotIs, Zenon
    <1>. QED  BY <1>5, <1>6, Zenon DEF w, back

WorkBuffers == {w \in Bytes : Len(w) = MiniblockSize}

\* What a grind loop holds.
WorkTypeOK ==
    grind \in [mini : TypedMini, works : [1 .. Ways -> WorkBuffers], tid : 0 .. 255,
               i : 0 .. CounterMod - 1, passes : Nat]

\* The work begins as the job's mini-block does and ends with the thread number.
Stamped(work, m, tid) ==
    /\ \A k \in 1 .. NonceAt : work[k] = MiniSerialize(m)[k]
    /\ work[MiniblockSize] = tid

\* The bytes before the thread number are the counter n.
Counted(work, n) == At(work, MiniblockSize - 1 - IntBytes, Be(n, IntBytes))

\* The counter of a work after its pass.
CounterOf(i, way) == (i + CounterMod - Ways + way) % CounterMod

WorkInv ==
    /\ WorkTypeOK
    /\ \A way \in 1 .. Ways : Stamped(grind.works[way], grind.mini, grind.tid)
    /\ grind.passes > 0 => \A way \in 1 .. Ways : Counted(grind.works[way], CounterOf(grind.i, way))

LEMMA CounterModIs == CounterMod \in Nat /\ CounterMod >= 256
    <1>1. IntBytes \in Nat \ {0} /\ IntBytes - 1 \in Nat /\ (IntBytes - 1) + 1 = IntBytes
        BY Widths
    <1>2. Power(256)[IntBytes - 1] \in Nat \ {0} /\ Power(256)[(IntBytes - 1) + 1] = 256 * Power(256)[IntBytes - 1]
        BY <1>1, PowerIs
    <1> DEFINE q == Power(256)[IntBytes - 1]
    <1>3. q \in Nat \ {0} /\ CounterMod = 256 * q
        BY <1>1, <1>2 DEF CounterMod
    <1> HIDE DEF q
    <1>. QED  BY <1>3

\* A sequence of bytes given by its values.
LEMMA BytesMade ==
    ASSUME NEW n \in Nat, NEW e \in [1 .. n -> 0 .. 255]
    PROVE  e \in Bytes /\ Len(e) = n
    <1> DEFINE X == 0 .. 255
    <1>1. e \in [1 .. n -> X]
        OBVIOUS
    <1> HIDE DEF X
    <1>2. e \in Seq(X) /\ Len(e) = n
        BY <1>1
    <1>. QED  BY <1>2 DEF X, Bytes

\* A byte of a sequence of bytes.
LEMMA ByteOf ==
    ASSUME NEW w \in Bytes, NEW k \in 1 .. Len(w)
    PROVE  w[k] \in 0 .. 255
    <1> DEFINE X == 0 .. 255
    <1>1. w \in Seq(X)
        BY DEF Bytes
    <1> HIDE DEF X
    <1>2. w[k] \in X
        BY <1>1
    <1>. QED  BY <1>2 DEF X

Octet == 0 .. 255

\* stamp_job keeps what stands before the nonces and ends with the thread number.
LEMMA StampJobIs ==
    ASSUME NEW w \in WorkBuffers, NEW random \in Bytes, NEW tid \in Octet, Len(random) = 3 * IntBytes
    PROVE  /\ StampJob(w, random, tid) \in WorkBuffers
           /\ \A k \in 1 .. NonceAt : StampJob(w, random, tid)[k] = w[k]
           /\ StampJob(w, random, tid)[MiniblockSize] = tid
    <1> DEFINE e == StampJob(w, random, tid)
    <1>1. /\ MiniblockSize \in Nat /\ MiniblockSize > 0 /\ IntBytes \in Nat \ {0} /\ NonceAt \in Nat
          /\ MiniblockSize = NonceAt + 3 * IntBytes /\ NonceAt < MiniblockSize
        BY Widths DEF NonceAt
    <1>2. w \in Bytes /\ Len(w) = MiniblockSize
        BY DEF WorkBuffers
    <1>3. ASSUME NEW k \in 1 .. MiniblockSize
          PROVE  (IF k = MiniblockSize THEN tid ELSE IF k > NonceAt THEN random[k - NonceAt] ELSE w[k]) \in 0 .. 255
        <2>1. w[k] \in 0 .. 255
            BY <1>2, ByteOf
        <2>2. k > NonceAt => random[k - NonceAt] \in 0 .. 255
            <3>1. k > NonceAt => k - NonceAt \in 1 .. Len(random)
                BY <1>1
            <3>. QED  BY <3>1, ByteOf
        <2>3. tid \in 0 .. 255
            BY DEF Octet
        <2>. QED  BY <2>1, <2>2, <2>3, Zenon
    <1>4. e \in [1 .. MiniblockSize -> 0 .. 255]
        BY <1>3, Zenon DEF StampJob
    <1>5. e \in WorkBuffers
        <2>1. e \in Bytes /\ Len(e) = MiniblockSize
            BY <1>1, <1>4, BytesMade, Zenon
        <2>. QED  BY <2>1, Zenon DEF WorkBuffers
    <1>6. e[MiniblockSize] = tid
        BY <1>1 DEF StampJob
    <1>7. \A k \in 1 .. NonceAt : e[k] = w[k]
        BY <1>1 DEF StampJob
    <1>. QED  BY <1>5, <1>6, <1>7, Zenon DEF e

\* put_counter writes the counter and nothing else.
LEMMA PutCounterIs ==
    ASSUME NEW w \in WorkBuffers, NEW n \in Nat
    PROVE  /\ PutCounter(w, n) \in WorkBuffers
           /\ \A k \in 1 .. NonceAt : PutCounter(w, n)[k] = w[k]
           /\ PutCounter(w, n)[MiniblockSize] = w[MiniblockSize]
           /\ Counted(PutCounter(w, n), n)
    <1> DEFINE e == PutCounter(w, n)
               b == Be(n, IntBytes)
               at == MiniblockSize - 1 - IntBytes
    <1>1. /\ MiniblockSize \in Nat /\ MiniblockSize > 0 /\ IntBytes \in Nat \ {0} /\ NonceAt \in Nat
          /\ at \in Nat /\ MiniblockSize = at + IntBytes + 1 /\ NonceAt <= at
        BY Widths DEF NonceAt
    <1>2. w \in Bytes /\ Len(w) = MiniblockSize
        BY DEF WorkBuffers
    <1>3. b \in Bytes /\ Len(b) = IntBytes
        BY <1>1, BeIs
    <1>4. e = [k \in 1 .. MiniblockSize |-> IF k \in at + 1 .. at + IntBytes THEN b[k - at] ELSE w[k]]
        BY Zenon DEF PutCounter
    <1> HIDE DEF e, b, at
    <1>5. ASSUME NEW k \in 1 .. MiniblockSize
          PROVE  (IF k \in at + 1 .. at + IntBytes THEN b[k - at] ELSE w[k]) \in 0 .. 255
        <2>1. w[k] \in 0 .. 255
            BY <1>2, ByteOf
        <2>2. k \in at + 1 .. at + IntBytes => b[k - at] \in 0 .. 255
            <3>1. k \in at + 1 .. at + IntBytes => k - at \in 1 .. Len(b)
                BY <1>1, <1>3
            <3>. QED  BY <1>3, <3>1, ByteOf
        <2>. QED  BY <2>1, <2>2, Zenon
    <1>6. e \in [1 .. MiniblockSize -> 0 .. 255]
        BY <1>4, <1>5, Zenon
    <1>7. e \in Bytes /\ Len(e) = MiniblockSize
        BY <1>1, <1>6, BytesMade, Zenon
    <1>8. e \in WorkBuffers
        BY <1>7, Zenon DEF WorkBuffers
    <1>9. \A k \in 1 .. NonceAt : e[k] = w[k]
        BY <1>1, <1>4
    <1>10. e[MiniblockSize] = w[MiniblockSize]
        BY <1>1, <1>4
    <1>11. At(e, at, b)
        <2>1. at + Len(b) <= Len(e)
            BY <1>1, <1>3, <1>7
        <2>2. ASSUME NEW j \in 1 .. IntBytes  PROVE e[at + j] = b[j]
            <3>1. at + j \in 1 .. MiniblockSize /\ at + j \in at + 1 .. at + IntBytes /\ (at + j) - at = j
                BY <1>1
            <3>. QED  BY <1>4, <3>1
        <2>. QED  BY <1>3, <2>1, <2>2, Zenon DEF At
    <1>. QED  BY <1>8, <1>9, <1>10, <1>11, Zenon DEF Counted, e, b, at

\* The counter a pass gives a work is the one its next i tells.
LEMMA CounterStep ==
    ASSUME NEW i \in 0 .. CounterMod - 1, NEW way \in 1 .. Ways
    PROVE  /\ (i + Ways) % CounterMod \in 0 .. CounterMod - 1
           /\ (i + way) % CounterMod \in 0 .. CounterMod - 1
           /\ CounterOf((i + Ways) % CounterMod, way) = (i + way) % CounterMod
    <1> DEFINE M == CounterMod
    <1>1. M \in Nat /\ M >= 256 /\ Ways \in {1, 2}
        BY CounterModIs, WorkBytesAssumption
    <1>2. i \in Nat /\ i < M /\ way \in Nat /\ 1 <= way /\ way <= Ways /\ Ways \in Nat /\ Ways <= 2
        BY <1>1
    <1> HIDE DEF M
    <1>3. ASSUME NEW a \in Nat, a < M  PROVE a % M = a /\ (a + M) % M = a
        <2>1. a = 0 * M + a /\ a + M = 1 * M + a
            BY <1>1
        <2>. QED  BY <1>1, <1>3, <2>1, Divided
    <1>4. CASE i + Ways < M
        <2>1. (i + Ways) % M = i + Ways /\ (i + way) % M = i + way /\ ((i + way) + M) % M = i + way
            <3>1. i + Ways \in Nat /\ i + way \in Nat /\ i + way < M
                BY <1>1, <1>2, <1>4
            <3>. QED  BY <1>3, <1>4, <3>1
        <2>2. (i + Ways) + M - Ways + way = (i + way) + M
            BY <1>1, <1>2
        <2>3. i + Ways \in 0 .. M - 1 /\ i + way \in 0 .. M - 1
            BY <1>1, <1>2, <1>4
        <2>. QED  BY <2>1, <2>2, <2>3, Zenon DEF CounterOf, M
    <1>5. CASE ~ (i + Ways < M)
        <2>1. (i + Ways) % M = i + Ways - M
            <3>1. i + Ways - M \in Nat /\ i + Ways - M < M /\ i + Ways = (i + Ways - M) + M
                BY <1>1, <1>2, <1>5
            <3>. QED  BY <1>3, <3>1
        <2>2. (i + Ways - M) + M - Ways + way = i + way
            BY <1>1, <1>2
        <2>3. i + Ways - M \in 0 .. M - 1
            BY <1>1, <1>2, <1>5
        <2>4. (i + way) % M \in 0 .. M - 1
            <3>1. i + way < M => (i + way) % M = i + way /\ i + way \in 0 .. M - 1
                BY <1>1, <1>2, <1>3
            <3>2. i + way >= M => (i + way) % M = i + way - M /\ i + way - M \in 0 .. M - 1
                <4>1. i + way >= M => i + way - M \in Nat /\ i + way - M < M /\ i + way = (i + way - M) + M
                    BY <1>1, <1>2
                <4>2. i + way >= M => i + way - M \in 0 .. M - 1
                    BY <1>1, <1>2
                <4>. QED  BY <1>3, <4>1, <4>2
            <3>3. i + way < M \/ i + way >= M
                BY <1>1, <1>2
            <3>. QED  BY <3>1, <3>2, <3>3, Zenon
        <2>. QED  BY <2>1, <2>2, <2>3, <2>4, Zenon DEF CounterOf, M
    <1>. QED  BY <1>4, <1>5, Zenon

LEMMA WorkInvInit == WorkInit => WorkInv
    <1> SUFFICES ASSUME WorkInit  PROVE WorkInv
        OBVIOUS
    <1>1. PICK m \in Templates, random \in Randoms, tid \in Tids, i \in Counters :
            grind = [mini |-> m, tid |-> tid, i |-> i, passes |-> 0,
                     works |-> [way \in 1 .. Ways |-> StampJob(MiniSerialize(m), random, tid)]]
        BY Zenon DEF WorkInit
    <1>2. m \in TypedMini /\ random \in Bytes /\ Len(random) = 3 * IntBytes
          /\ tid \in 0 .. 255 /\ i \in 0 .. CounterMod - 1
        <2>1. m \in TypedMini /\ random \in Bytes /\ Len(random) = 3 * IntBytes
            BY WorkBytesAssumption
        <2>2. tid \in 0 .. 255
            BY WorkBytesAssumption
        <2>3. i \in 0 .. CounterMod - 1
            BY WorkBytesAssumption
        <2>. QED  BY <2>1, <2>2, <2>3
    <1> DEFINE w == MiniSerialize(m)
               e == StampJob(w, random, tid)
    <1>3. w \in WorkBuffers
        BY <1>2, MiniBytes, Zenon DEF WorkBuffers
    <1>4. e \in WorkBuffers /\ (\A k \in 1 .. NonceAt : e[k] = w[k]) /\ e[MiniblockSize] = tid
        <2>1. tid \in Octet
            BY <1>2 DEF Octet
        <2>2. random \in Bytes /\ Len(random) = 3 * IntBytes
            BY <1>2
        <2>. QED  BY <1>3, <2>1, <2>2, StampJobIs, Zenon
    <1> HIDE DEF e
    <1>5. /\ grind.mini = m /\ grind.tid = tid /\ grind.i = i /\ grind.passes = 0
          /\ grind.works = [way \in 1 .. Ways |-> e]
        BY <1>1, Zenon DEF e, w
    <1>6. WorkTypeOK
        <2>1. [way \in 1 .. Ways |-> e] \in [1 .. Ways -> WorkBuffers]
            BY <1>4, Zenon
        <2>2. grind = [mini |-> m, tid |-> tid, i |-> i, passes |-> 0, works |-> [way \in 1 .. Ways |-> e]]
            BY <1>1, Zenon DEF e, w
        <2> DEFINE ws == [way \in 1 .. Ways |-> e]
        <2> HIDE DEF ws
        <2>3. 0 \in Nat
            OBVIOUS
        <2>. QED  BY <1>2, <2>1, <2>2, <2>3 DEF WorkTypeOK, ws
    <1>7. \A way \in 1 .. Ways : Stamped(grind.works[way], grind.mini, grind.tid)
        BY <1>4, <1>5, Zenon DEF Stamped, w
    <1>8. ~ (grind.passes > 0)
        BY <1>5
    <1>. QED  BY <1>6, <1>7, <1>8, Zenon DEF WorkInv

LEMMA WorkInvPass ==
    ASSUME WorkInv, Pass
    PROVE  WorkInv'
    <1> DEFINE m == grind.mini
               tid == grind.tid
               i == grind.i
               next == [way \in 1 .. Ways |-> PutCounter(grind.works[way], (i + way) % CounterMod)]
    <1>1. /\ grind \in [mini : TypedMini, works : [1 .. Ways -> WorkBuffers], tid : 0 .. 255,
                        i : 0 .. CounterMod - 1, passes : Nat]
          /\ \A way \in 1 .. Ways : Stamped(grind.works[way], m, tid)
        BY Zenon DEF WorkInv, WorkTypeOK
    <1>2. grind' = [grind EXCEPT !.passes = @ + 1, !.i = (@ + Ways) % CounterMod, !.works = next]
        BY DEF Pass
    <1>3. /\ m \in TypedMini /\ grind.works \in [1 .. Ways -> WorkBuffers] /\ tid \in 0 .. 255
          /\ i \in 0 .. CounterMod - 1 /\ grind.passes \in Nat
        BY <1>1
    <1> HIDE DEF next
    <1>4. /\ grind'.mini = m /\ grind'.tid = tid /\ grind'.i = (i + Ways) % CounterMod
          /\ grind'.passes = grind.passes + 1 /\ grind'.works = next
        BY <1>1, <1>2
    <1>5. ASSUME NEW way \in 1 .. Ways
          PROVE  /\ next[way] \in WorkBuffers /\ Stamped(next[way], m, tid)
                 /\ Counted(next[way], CounterOf((i + Ways) % CounterMod, way))
        <2> DEFINE n == (i + way) % CounterMod
                   u == grind.works[way]
        <2>1. n \in Nat /\ CounterOf((i + Ways) % CounterMod, way) = n
            <3>1. n \in 0 .. CounterMod - 1 /\ CounterOf((i + Ways) % CounterMod, way) = n
                BY <1>3, CounterStep, Zenon
            <3>. QED  BY <3>1, CounterModIs
        <2>2. u \in WorkBuffers /\ Stamped(u, m, tid)
            BY <1>1, <1>3, Zenon
        <2>3. next[way] = PutCounter(u, n)
            BY Zenon DEF next
        <2> HIDE DEF n, u
        <2>4. /\ PutCounter(u, n) \in WorkBuffers
              /\ \A k \in 1 .. NonceAt : PutCounter(u, n)[k] = u[k]
              /\ PutCounter(u, n)[MiniblockSize] = u[MiniblockSize]
              /\ Counted(PutCounter(u, n), n)
            BY <2>1, <2>2, PutCounterIs, Zenon
        <2>5. Stamped(PutCounter(u, n), m, tid)
            BY <2>2, <2>4, Zenon DEF Stamped
        <2>. QED  BY <2>1, <2>3, <2>4, <2>5, Zenon
    <1>6. (i + Ways) % CounterMod \in 0 .. CounterMod - 1
        <2>1. 1 \in 1 .. Ways
            BY WorkBytesAssumption
        <2>. QED  BY <1>3, <2>1, CounterStep, Zenon
    <1>7. WorkTypeOK'
        <2>1. next \in [1 .. Ways -> WorkBuffers]
            BY <1>5, Zenon DEF next
        <2> DEFINE j == (i + Ways) % CounterMod
        <2> HIDE DEF j
        <2>2. grind' = [grind EXCEPT !.passes = grind.passes + 1, !.i = j, !.works = next]
            BY <1>1, <1>2 DEF j
        <2>3. j \in 0 .. CounterMod - 1 /\ grind.passes + 1 \in Nat
            BY <1>3, <1>6 DEF j
        <2>. QED  BY <1>1, <2>1, <2>2, <2>3 DEF WorkTypeOK
    <1>8. (\A way \in 1 .. Ways : Stamped(grind.works[way], grind.mini, grind.tid))'
        BY <1>4, <1>5, Zenon DEF Stamped
    <1>9. (\A way \in 1 .. Ways : Counted(grind.works[way], CounterOf(grind.i, way)))'
        BY <1>4, <1>5, Zenon DEF Counted, CounterOf
    <1>. QED  BY <1>7, <1>8, <1>9, Zenon DEF WorkInv

LEMMA WorkInvHolds == WorkSpec => []WorkInv
    <1>1. WorkInv /\ [Pass]_grind => WorkInv'
        <2>1. CASE Pass
            BY <2>1, WorkInvPass
        <2>2. CASE UNCHANGED grind
            BY <2>2 DEF WorkInv, WorkTypeOK, Stamped, Counted, CounterOf, At
        <2>. QED  BY <2>1, <2>2
    <1>. QED  BY <1>1, WorkInvInit, PTL DEF WorkSpec

\* miniblock.rs: serialize and deserialize are each other's inverse on sane
\* mini-blocks and on accepted bytes, whatever the widths of the fields.
THEOREM MiniblocksAlwaysExact == WorkSpec => []MiniblocksExact
    <1>1. WorkInv => MiniblocksExact
        <2> SUFFICES ASSUME WorkInv  PROVE MiniblocksExact
            OBVIOUS
        <2>1. grind.mini \in TypedMini
            BY DEF WorkInv, WorkTypeOK
        <2>. QED  BY <2>1, MiniExact, Zenon DEF MiniblocksExact
    <1>. QED  BY <1>1, WorkInvHolds, PTL

LEMMA SamePiece ==
    ASSUME NEW a \in Bytes, NEW b \in Bytes, NEW off \in Nat, NEW n \in Nat, Len(a) = Len(b), off + n <= Len(a),
           \A k \in 1 .. off + n : a[k] = b[k]
    PROVE  SubSeq(a, off + 1, off + n) = SubSeq(b, off + 1, off + n)
    <1> DEFINE X == 0 .. 255
               s == SubSeq(a, off + 1, off + n)
               t == SubSeq(b, off + 1, off + n)
    <1>1. a \in Seq(X) /\ b \in Seq(X)
        BY DEF Bytes
    <1> HIDE DEF X
    <1>2. s \in Seq(X) /\ Len(s) = n /\ \A j \in 1 .. n : s[j] = a[off + j]
        BY <1>1, Part
    <1>3. t \in Seq(X) /\ Len(t) = n /\ \A j \in 1 .. n : t[j] = b[off + j]
        BY <1>1, Part
    <1> HIDE DEF s, t
    <1>4. \A j \in 1 .. Len(s) : s[j] = t[j]
        <2>1. \A j \in 1 .. n : off + j \in 1 .. off + n
            OBVIOUS
        <2>. QED  BY <1>2, <1>3, <2>1, Zenon
    <1>5. s = t
        BY <1>2, <1>3, <1>4, SameSeq, Zenon
    <1>. QED  BY <1>5 DEF s, t

\* Bytes that agree up to the nonces are mini-blocks that differ in their nonces.
LEMMA DecodedSame ==
    ASSUME NEW a \in WorkBuffers, NEW b \in WorkBuffers, \A k \in 1 .. NonceAt : a[k] = b[k]
    PROVE  /\ Decoded(a) = [Decoded(b) EXCEPT !.nonce = Decoded(a).nonce]
           /\ Decoded(a).version = Decoded(b).version
           /\ SanityCheck(Decoded(a)) <=> SanityCheck(Decoded(b))
    <1> DEFINE past == 1 + TimeBytes + HeightBytes
               key == past + 2 * IntBytes
               flags == key + KeyBytes
               D(w) == [version |-> w[1] % 16, pastCount |-> w[1] \div 64,
                        highDiff |-> AndByte(w[1], 16) > 0, final |-> AndByte(w[1], 32) > 0,
                        timestamp |-> Field(w, 1, TimeBytes), height |-> Field(w, 1 + TimeBytes, HeightBytes),
                        past |-> <<Field(w, past, IntBytes), Field(w, past + IntBytes, IntBytes)>>,
                        keyHash |-> SubSeq(w, key + 1, key + KeyBytes),
                        flags |-> Field(w, flags, IntBytes),
                        nonce |-> [k \in 1 .. 3 |-> Field(w, flags + k * IntBytes, IntBytes)]]
    <1>1. Decoded(a) = D(a) /\ Decoded(b) = D(b)
        BY Zenon DEF Decoded
    <1>2. a \in Bytes /\ b \in Bytes /\ Len(a) = MiniblockSize /\ Len(b) = MiniblockSize /\ Len(a) = Len(b)
        BY DEF WorkBuffers
    <1>3. /\ past \in Nat /\ key \in Nat /\ flags \in Nat /\ past + IntBytes \in Nat /\ 1 + TimeBytes \in Nat /\ 1 \in Nat
          /\ IntBytes \in Nat /\ TimeBytes \in Nat /\ HeightBytes \in Nat /\ KeyBytes \in Nat
          /\ NonceAt = flags + IntBytes /\ NonceAt \in Nat /\ NonceAt <= Len(a) /\ 1 <= NonceAt
        BY <1>2, Widths DEF NonceAt
    <1>4. /\ 1 + TimeBytes <= NonceAt /\ (1 + TimeBytes) + HeightBytes <= NonceAt
          /\ past + IntBytes <= NonceAt /\ (past + IntBytes) + IntBytes <= NonceAt
          /\ key + KeyBytes <= NonceAt /\ flags + IntBytes <= NonceAt
        BY Widths DEF NonceAt
    <1> HIDE DEF past, key, flags
    <1>5. ASSUME NEW off \in Nat, NEW n \in Nat, off + n <= NonceAt
          PROVE  SubSeq(a, off + 1, off + n) = SubSeq(b, off + 1, off + n)
        <2>1. off + n <= Len(a) /\ \A k \in 1 .. off + n : k \in 1 .. NonceAt
            BY <1>2, <1>3, <1>5, Widths
        <2>2. \A k \in 1 .. off + n : a[k] = b[k]
            BY <2>1, Zenon
        <2>. QED  BY <1>2, <2>1, <2>2, SamePiece
    <1>6. ASSUME NEW off \in Nat, NEW n \in Nat, off + n <= NonceAt  PROVE Field(a, off, n) = Field(b, off, n)
        BY <1>5, <1>6, Zenon DEF Field
    <1>7. a[1] = b[1]
        BY <1>3
    <1>8. SubSeq(a, key + 1, key + KeyBytes) = SubSeq(b, key + 1, key + KeyBytes)
        BY <1>3, <1>4, <1>5
    <1>9. /\ Field(a, 1, TimeBytes) = Field(b, 1, TimeBytes)
          /\ Field(a, 1 + TimeBytes, HeightBytes) = Field(b, 1 + TimeBytes, HeightBytes)
        BY <1>3, <1>4, <1>6
    <1>10. /\ Field(a, past, IntBytes) = Field(b, past, IntBytes)
           /\ Field(a, past + IntBytes, IntBytes) = Field(b, past + IntBytes, IntBytes)
        BY <1>3, <1>4, <1>6
    <1>11. Field(a, flags, IntBytes) = Field(b, flags, IntBytes)
        BY <1>3, <1>4, <1>6
    <1> DEFINE na == [k \in 1 .. 3 |-> Field(a, flags + k * IntBytes, IntBytes)]
               nb == [k \in 1 .. 3 |-> Field(b, flags + k * IntBytes, IntBytes)]
               R(n) == [version |-> b[1] % 16, pastCount |-> b[1] \div 64,
                        highDiff |-> AndByte(b[1], 16) > 0, final |-> AndByte(b[1], 32) > 0,
                        timestamp |-> Field(b, 1, TimeBytes), height |-> Field(b, 1 + TimeBytes, HeightBytes),
                        past |-> <<Field(b, past, IntBytes), Field(b, past + IntBytes, IntBytes)>>,
                        keyHash |-> SubSeq(b, key + 1, key + KeyBytes),
                        flags |-> Field(b, flags, IntBytes), nonce |-> n]
    <1>12. D(a) = R(na)
        BY <1>7, <1>8, <1>9, <1>10, <1>11, Zenon
    <1>13. D(b) = R(nb)
        BY Zenon
    <1> HIDE DEF na, nb, D
    <1>14. R(na) = [R(nb) EXCEPT !.nonce = na] /\ R(na).nonce = na
        <2> DEFINE ha == AndByte(b[1], 16) > 0
                   fa == AndByte(b[1], 32) > 0
                   ta == Field(b, 1, TimeBytes)
                   ga == Field(b, 1 + TimeBytes, HeightBytes)
                   pa == <<Field(b, past, IntBytes), Field(b, past + IntBytes, IntBytes)>>
                   ka == SubSeq(b, key + 1, key + KeyBytes)
                   la == Field(b, flags, IntBytes)
                   va == b[1] % 16
                   ca == b[1] \div 64
                   T(n) == [version |-> va, pastCount |-> ca, highDiff |-> ha, final |-> fa, timestamp |-> ta,
                            height |-> ga, past |-> pa, keyHash |-> ka, flags |-> la, nonce |-> n]
        <2>1. R(na) = T(na) /\ R(nb) = T(nb)
            BY Zenon
        <2> HIDE DEF R, ha, fa, ta, ga, pa, ka, la, va, ca
        <2>2. T(na) = [T(nb) EXCEPT !.nonce = na] /\ T(na).nonce = na
            OBVIOUS
        <2>. QED  BY <2>1, <2>2, Zenon
    <1>15. /\ R(na).version = R(nb).version /\ R(na).pastCount = R(nb).pastCount
           /\ R(na).height = R(nb).height /\ R(na).past = R(nb).past
        BY Zenon
    <1> HIDE DEF R
    <1>16. Decoded(a) = R(na) /\ Decoded(b) = R(nb)
        BY <1>1, <1>12, <1>13, Zenon
    <1>17. SanityCheck(R(na)) <=> SanityCheck(R(nb))
        BY <1>15, Zenon DEF SanityCheck
    <1>. QED  BY <1>14, <1>15, <1>16, <1>17, Zenon

LEMMA BytesNat ==
    ASSUME NEW q \in Bytes
    PROVE  q \in Seq(Nat)
    <1> DEFINE X == 0 .. 255
    <1>1. q \in Seq(X) /\ X \subseteq Nat
        BY DEF Bytes
    <1> HIDE DEF X
    <1>2. Len(q) \in Nat /\ q \in [1 .. Len(q) -> X]
        BY <1>1
    <1>3. q \in [1 .. Len(q) -> Nat]
        BY <1>1, <1>2, Zenon
    <1>. QED  BY <1>2, <1>3

LEMMA ByteNat ==
    ASSUME NEW w \in Bytes, NEW k \in 1 .. Len(w)
    PROVE  w[k] \in Nat
    <1>1. w \in Seq(Nat)
        BY BytesNat, Zenon
    <1>. QED  BY <1>1

\* The first byte and the rest of a number.
LEMMA FirstAndRest ==
    ASSUME NEW d \in Bytes, Len(d) > 0
    PROVE  /\ SubSeq(d, 2, Len(d)) \in Bytes /\ Len(SubSeq(d, 2, Len(d))) = Len(d) - 1
           /\ \A j \in 1 .. Len(d) - 1 : SubSeq(d, 2, Len(d))[j] = d[j + 1]
           /\ FromBe(d) = d[1] * Power(256)[Len(d) - 1] + FromBe(SubSeq(d, 2, Len(d)))
    <1> DEFINE X == 0 .. 255
               L == Len(d)
    <1>1. d \in Seq(X) /\ L \in Nat \ {0}
        BY DEF Bytes
    <1>2. d \in Seq(0 .. 256 - 1) /\ 256 \in Nat \ {0}
        BY DEF Bytes
    <1>3. FromDigits(256, d) = Leading(256, d)[1] * Power(256)[L - 1] + FromDigits(256, SubSeq(d, 1 + 1, L))
        <2> DEFINE r == 256
                   k == 1
        <2>1. k \in 0 .. Len(d) /\ d \in Seq(0 .. r - 1) /\ r \in Nat \ {0}
            BY <1>1, <1>2
        <2> HIDE DEF r, k
        <2>2. FromDigits(r, d) = Leading(r, d)[k] * Power(r)[Len(d) - k] + FromDigits(r, SubSeq(d, k + 1, Len(d)))
            BY <2>1, DigitsSplit, Zenon
        <2>. QED  BY <2>2, Zenon DEF r, k, L
    <1>4. d \in Seq(Nat)
        BY BytesNat, Zenon
    <1>5. Leading(256, d)[1] = d[1]
        <2>1. Leading(256, d)[0] = 0 /\ Leading(256, d)[1] = Leading(256, d)[1 - 1] * 256 + d[1]
            BY <1>1, <1>4, LeadingIs
        <2>2. d[1] \in Nat
            BY <1>1, <1>4
        <2>. QED  BY <2>1, <2>2
    <1> HIDE DEF X
    <1>6. /\ SubSeq(d, 1 + 1, 1 + (L - 1)) \in Seq(X) /\ Len(SubSeq(d, 1 + 1, 1 + (L - 1))) = L - 1
          /\ \A j \in 1 .. L - 1 : SubSeq(d, 1 + 1, 1 + (L - 1))[j] = d[1 + j]
        <2>1. L - 1 \in Nat /\ 1 + (L - 1) <= Len(d) /\ 1 \in Nat
            BY <1>1
        <2> DEFINE k == 1
                   n == L - 1
        <2> HIDE DEF k, n
        <2>2. k \in Nat /\ n \in Nat /\ k + n <= Len(d)
            BY <2>1, Zenon DEF k, n
        <2>3. /\ SubSeq(d, k + 1, k + n) \in Seq(X) /\ Len(SubSeq(d, k + 1, k + n)) = n
              /\ \A j \in 1 .. n : SubSeq(d, k + 1, k + n)[j] = d[k + j]
            BY <1>1, <2>2, Part
        <2>. QED  BY <2>3, Zenon DEF k, n
    <1>7. 1 + (L - 1) = L /\ 1 + 1 = 2 /\ \A j \in 1 .. L - 1 : 1 + j = j + 1
        BY <1>1
    <1> HIDE DEF L
    <1>8. /\ SubSeq(d, 2, L) \in Seq(X) /\ Len(SubSeq(d, 2, L)) = L - 1
          /\ \A j \in 1 .. L - 1 : SubSeq(d, 2, L)[j] = d[j + 1]
        BY <1>6, <1>7, Zenon
    <1>. QED  BY <1>3, <1>5, <1>7, <1>8, Zenon DEF X, L, Bytes, FromBe

Low(x) == x % 256
High(x) == x \div 256
LeadingByte(b, x) == b * Power(256)[IntBytes - 1] + x

\* The counter that the last two nonces hold.
CounterIn(nonce) == LeadingByte(Low(nonce[2]), High(nonce[3]))

\* The nonces of a work end with the thread number, behind the counter.
LEMMA NonceEnds ==
    ASSUME NEW w \in WorkBuffers
    PROVE  /\ Low(Decoded(w).nonce[3]) = w[MiniblockSize]
           /\ \A n \in 0 .. CounterMod - 1 : Counted(w, n) => CounterIn(Decoded(w).nonce) = n
    <1> DEFINE at == MiniblockSize - IntBytes
               before == at - IntBytes
               p2 == SubSeq(w, before + 1, before + IntBytes)
               p3 == SubSeq(w, at + 1, at + IntBytes)
    <1>1. /\ IntBytes \in Nat \ {0} /\ at \in Nat /\ before \in Nat /\ at = before + IntBytes
          /\ MiniblockSize = at + IntBytes /\ MiniblockSize \in Nat
          /\ MiniblockSize - 1 - IntBytes = at - 1 /\ at - 1 \in Nat
        BY Widths
    <1>2. w \in Bytes /\ Len(w) = MiniblockSize
        BY DEF WorkBuffers
    <1>3. Decoded(w).nonce[2] = FromBe(p2) /\ Decoded(w).nonce[3] = FromBe(p3)
        <2> DEFINE flags == 1 + TimeBytes + HeightBytes + 2 * IntBytes + KeyBytes
        <2>1. flags + 2 * IntBytes = before /\ flags + 3 * IntBytes = at
            BY Widths
        <2>2. Decoded(w).nonce = [k \in 1 .. 3 |-> Field(w, flags + k * IntBytes, IntBytes)]
            BY Zenon DEF Decoded
        <2> HIDE DEF flags, at, before
        <2>3. Decoded(w).nonce[2] = Field(w, flags + 2 * IntBytes, IntBytes)
              /\ Decoded(w).nonce[3] = Field(w, flags + 3 * IntBytes, IntBytes)
            <3>1. 2 \in 1 .. 3 /\ 3 \in 1 .. 3
                OBVIOUS
            <3>. QED  BY <2>2, <3>1, Zenon
        <2>. QED  BY <2>1, <2>3, Zenon DEF Field
    <1>4. /\ p2 \in Bytes /\ Len(p2) = IntBytes /\ \A j \in 1 .. IntBytes : p2[j] = w[before + j]
          /\ p3 \in Bytes /\ Len(p3) = IntBytes /\ \A j \in 1 .. IntBytes : p3[j] = w[at + j]
        <2> DEFINE X == 0 .. 255
        <2>1. w \in Seq(X)
            BY DEF WorkBuffers, Bytes
        <2> HIDE DEF X
        <2>2. /\ before + IntBytes <= Len(w) /\ at + IntBytes <= Len(w)
              /\ before \in Nat /\ at \in Nat /\ IntBytes \in Nat
            BY <1>1, <1>2
        <2> HIDE DEF at, before
        <2>3. p2 \in Seq(X) /\ Len(p2) = IntBytes /\ \A j \in 1 .. IntBytes : p2[j] = w[before + j]
            BY <2>1, <2>2, Part
        <2>4. p3 \in Seq(X) /\ Len(p3) = IntBytes /\ \A j \in 1 .. IntBytes : p3[j] = w[at + j]
            BY <2>1, <2>2, Part
        <2>. QED  BY <2>3, <2>4, Zenon DEF X, Bytes
    <1> HIDE DEF p2, p3, at, before
    <1>5. ASSUME NEW p \in Bytes, Len(p) = IntBytes
          PROVE  Low(FromBe(p)) = p[IntBytes] /\ High(FromBe(p)) = Leading(256, p)[IntBytes - 1]
        <2> DEFINE r == 256
        <2>1. p \in Seq(0 .. r - 1) /\ Len(p) > 0 /\ r \in Nat \ {0}
            BY <1>1, <1>5 DEF Bytes
        <2> HIDE DEF r
        <2>2. FromDigits(r, p) % r = p[Len(p)] /\ FromDigits(r, p) \div r = Leading(r, p)[Len(p) - 1]
            BY <2>1, LastDigit
        <2>3. FromBe(p) % r = p[IntBytes] /\ FromBe(p) \div r = Leading(r, p)[IntBytes - 1]
            BY <1>5, <2>2, Zenon DEF FromBe, r
        <2>. QED  BY <2>3 DEF r, Low, High
    <1> DEFINE led == Leading(256, p3)[IntBytes - 1]
    <1> HIDE DEF led
    <1>6. Low(FromBe(p2)) = w[at] /\ Low(FromBe(p3)) = w[MiniblockSize] /\ High(FromBe(p3)) = led
        <2>1. IntBytes \in 1 .. IntBytes
            BY <1>1
        <2>2. p2[IntBytes] = w[at] /\ p3[IntBytes] = w[MiniblockSize]
            BY <1>1, <1>4, <2>1, Zenon
        <2>3. Low(FromBe(p2)) = p2[IntBytes]
            BY <1>4, <1>5, Zenon
        <2>4. Low(FromBe(p3)) = p3[IntBytes] /\ High(FromBe(p3)) = led
            BY <1>4, <1>5 DEF led
        <2>. QED  BY <2>2, <2>3, <2>4, Zenon
    <1>7. ASSUME NEW n \in 0 .. CounterMod - 1, Counted(w, n)
          PROVE  LeadingByte(w[at], led) = n
        <2> DEFINE d == Be(n, IntBytes)
                   t == SubSeq(d, 2, Len(d))
        <2>1. n \in Nat /\ n < Power(256)[IntBytes]
            BY CounterModIs DEF CounterMod
        <2>2. d \in Bytes /\ Len(d) = IntBytes /\ FromBe(d) = n
            BY <1>1, <2>1, BeIs
        <2>3. At(w, at - 1, d)
            BY <1>1, <1>7, Zenon DEF Counted
        <2> HIDE DEF d
        <2>4. \A j \in 1 .. IntBytes : w[(at - 1) + j] = d[j]
            BY <2>2, <2>3, Zenon DEF At
        <2>5. /\ t \in Bytes /\ Len(t) = IntBytes - 1
              /\ \A j \in 1 .. IntBytes - 1 : t[j] = d[j + 1]
              /\ n = d[1] * Power(256)[IntBytes - 1] + FromBe(t)
            <3>1. Len(d) > 0
                BY <1>1, <2>2
            <3>2. /\ t \in Bytes /\ Len(t) = Len(d) - 1
                  /\ \A j \in 1 .. Len(d) - 1 : t[j] = d[j + 1]
                  /\ FromBe(d) = d[1] * Power(256)[Len(d) - 1] + FromBe(t)
                BY <2>2, <3>1, FirstAndRest, Zenon
            <3>. QED  BY <2>2, <3>2, Zenon
        <2> HIDE DEF t
        <2>6. d[1] = w[at]
            <3>1. 1 \in 1 .. IntBytes /\ (at - 1) + 1 = at
                BY <1>1
            <3>. QED  BY <2>4, <3>1, Zenon
        <2>7. \A j \in 1 .. IntBytes - 1 : t[j] = p3[j]
            <3> SUFFICES ASSUME NEW j \in 1 .. IntBytes - 1  PROVE t[j] = p3[j]
                OBVIOUS
            <3>1. j \in 1 .. IntBytes /\ j + 1 \in 1 .. IntBytes /\ (at - 1) + (j + 1) = at + j
                BY <1>1
            <3>2. t[j] = d[j + 1] /\ p3[j] = w[at + j] /\ w[(at - 1) + (j + 1)] = d[j + 1]
                BY <1>4, <2>4, <2>5, <3>1, Zenon
            <3>. QED  BY <3>1, <3>2, Zenon
        <2>8. Leading(256, t)[IntBytes - 1] = Leading(256, p3)[IntBytes - 1]
            <3>1. t \in Seq(Nat) /\ p3 \in Seq(Nat)
                BY <1>4, <2>5, BytesNat, Zenon
            <3>2. IntBytes - 1 \in Nat /\ IntBytes - 1 <= Len(t) /\ IntBytes - 1 <= Len(p3)
                BY <1>1, <1>4, <2>5
            <3> DEFINE r == 256
            <3>3. r \in Nat
                OBVIOUS
            <3> HIDE DEF r
            <3>4. Leading(r, t)[IntBytes - 1] = Leading(r, p3)[IntBytes - 1]
                BY <2>7, <3>1, <3>2, <3>3, LeadingAgree, Zenon
            <3>. QED  BY <3>4 DEF r
        <2>9. FromBe(t) = Leading(256, t)[IntBytes - 1]
            BY <2>5, Zenon DEF FromBe, FromDigits
        <2>. QED  BY <2>5, <2>6, <2>8, <2>9 DEF LeadingByte, led
    <1>. QED  BY <1>3, <1>6, <1>7, Zenon DEF CounterIn

\* worker.rs: stamp_job and put_counter leave the job's mini-block but for its
\* nonces, and these give back the thread number and the counter, whatever the
\* widths, the templates and the random bytes, and also where the counter wraps.
THEOREM WorksAreTemplates == WorkSpec => []WorkIsTemplate
    <1>1. WorkInv => WorkIsTemplate
        <2> SUFFICES ASSUME WorkInv, NEW way \in 1 .. Ways
                     PROVE  LET work == grind.works[way]
                                job == MiniDeserialize(MiniSerialize(grind.mini))
                                back == MiniDeserialize(work)
                            IN  /\ back.kind = job.kind
                                /\ back.kind = "got" =>
                                     /\ back = Got([job.v EXCEPT !.nonce = back.v.nonce], <<>>)
                                     /\ WorkHeight(work) = job.v.height
                                     /\ Low(back.v.nonce[3]) = grind.tid
                                     /\ grind.passes > 0 => CounterIn(back.v.nonce) = CounterOf(grind.i, way)
            BY Zenon DEF WorkIsTemplate, CounterOf, CounterIn, LeadingByte, Low, High
        <2> DEFINE work == grind.works[way]
                   s == MiniSerialize(grind.mini)
                   a == Decoded(work)
                   b == Decoded(s)
                   job == MiniDeserialize(s)
                   back == MiniDeserialize(work)
        <2>1. grind.mini \in TypedMini /\ work \in WorkBuffers /\ grind.i \in 0 .. CounterMod - 1
            BY DEF WorkInv, WorkTypeOK
        <2>2. Stamped(work, grind.mini, grind.tid) /\ (grind.passes > 0 => Counted(work, CounterOf(grind.i, way)))
            BY Zenon DEF WorkInv
        <2>3. s \in WorkBuffers
            BY <2>1, MiniBytes, Zenon DEF WorkBuffers
        <2>4. (\A k \in 1 .. NonceAt : work[k] = s[k]) /\ work[MiniblockSize] = grind.tid
            BY <2>2, Zenon DEF Stamped
        <2>5. CounterOf(grind.i, way) \in 0 .. CounterMod - 1
            <3> DEFINE x == grind.i + CounterMod - Ways + way
            <3>1. x \in Nat /\ CounterMod \in Nat \ {0}
                BY <2>1, CounterModIs, WorkBytesAssumption
            <3> HIDE DEF x
            <3>2. x % CounterMod \in 0 .. CounterMod - 1
                BY <3>1
            <3>. QED  BY <3>2 DEF CounterOf, x
        <2> HIDE DEF work, s
        <2>6. /\ a = [b EXCEPT !.nonce = a.nonce] /\ a.version = b.version
              /\ SanityCheck(a) <=> SanityCheck(b)
            BY <2>1, <2>3, <2>4, DecodedSame, Zenon
        <2>7. /\ Low(a.nonce[3]) = grind.tid
              /\ grind.passes > 0 => CounterIn(a.nonce) = CounterOf(grind.i, way)
            BY <2>1, <2>2, <2>4, <2>5, NonceEnds, Zenon
        <2>8. work \in Bytes /\ Len(work) = MiniblockSize /\ s \in Bytes /\ Len(s) = MiniblockSize
            BY <2>1, <2>3, Zenon DEF WorkBuffers
        <2>9. WorkHeight(work) = b.height
            <3>1. 1 + TimeBytes + HeightBytes <= Len(work)
                BY <2>8, Widths
            <3>2. WorkHeight(work) = Field(work, 1 + TimeBytes, HeightBytes)
                BY <2>8, <3>1, HeightIs, Zenon DEF WorkHeight, HeightField
            <3>3. a.height = Field(work, 1 + TimeBytes, HeightBytes)
                BY Zenon DEF Decoded
            <3>4. a.height = b.height
                <4>1. \A x : [b EXCEPT !.nonce = x].height = b.height
                    <5>1. "height" \in DOMAIN b
                        BY DEF Decoded
                    <5> HIDE DEF b
                    <5>. QED  BY <5>1
                <4> HIDE DEF a, b
                <4>. QED  BY <2>6, <4>1, Zenon
            <3> HIDE DEF a, b
            <3>. QED  BY <3>2, <3>3, <3>4, Zenon
        <2>10. /\ back = IF a.version # 1 \/ ~ SanityCheck(a) THEN Err ELSE Got(a, <<>>)
               /\ job = IF b.version # 1 \/ ~ SanityCheck(b) THEN Err ELSE Got(b, <<>>)
            BY <2>8, DeserializeIs, Zenon
        <2> HIDE DEF a, b, back, job
        <2>11. back.kind = job.kind /\ (back.kind = "got" => back = Got(a, <<>>) /\ job = Got(b, <<>>))
            BY <2>6, <2>10, GotIs, Zenon
        <2>12. back.kind = "got" => back.v = a /\ job.v = b
            BY <2>11, GotIs, Zenon
        <2>13. back.kind = "got" => back = Got([job.v EXCEPT !.nonce = back.v.nonce], <<>>)
            BY <2>6, <2>11, <2>12, Zenon
        <2>14. back.kind = "got" =>
                 /\ WorkHeight(work) = job.v.height
                 /\ Low(back.v.nonce[3]) = grind.tid
                 /\ grind.passes > 0 => CounterIn(back.v.nonce) = CounterOf(grind.i, way)
            BY <2>7, <2>9, <2>12, Zenon
        <2>. QED  BY <2>11, <2>13, <2>14, Zenon DEF work, s, back, job
    <1>. QED  BY <1>1, WorkInvHolds, PTL

-----------------------------------------------------------------------------
(* Varints.                                                                  *)

LEMMA LeastIs ==
    ASSUME NEW S \in SUBSET Nat, NEW n \in S, \A m \in S : n <= m
    PROVE  Min(S) = n
    <1>1. \A x \in S : (\A y \in S : x <= y) => x = n
        OBVIOUS
    <1>. QED  BY <1>1, Zenon DEF Min

LEMMA LeastOf ==
    ASSUME NEW S \in SUBSET Nat, S # {}
    PROVE  Min(S) \in S /\ \A m \in S : Min(S) <= m
    BY SmallestNat, Zenon DEF Min

LEMMA Groups ==
    /\ Group \in Nat \ {0} /\ MaxGroups \in Nat \ {0} /\ LastGroup \in Nat /\ LastGroup < Group
    /\ Power(Group) \in [Nat -> Nat \ {0}] /\ WordSize \in Nat /\ WordSize <= Power(Group)[MaxGroups]
    /\ WordSize = (LastGroup + 1) * Power(Group)[MaxGroups - 1]
    <1>1. /\ Group \in Nat \ {0} /\ MaxGroups \in Nat \ {0} /\ LastGroup \in Nat /\ LastGroup < Group
          /\ WordSize = (LastGroup + 1) * Power(Group)[MaxGroups - 1]
        BY VarintAssumption DEF Group
    <1>2. MaxGroups - 1 \in Nat /\ (MaxGroups - 1) + 1 = MaxGroups
        BY <1>1
    <1>3. /\ Power(Group) \in [Nat -> Nat \ {0}]
          /\ Power(Group)[(MaxGroups - 1) + 1] = Group * Power(Group)[MaxGroups - 1]
        BY <1>1, <1>2, PowerIs
    <1> DEFINE p == Power(Group)[MaxGroups - 1]
    <1>4. p \in Nat
        BY <1>2, <1>3
    <1>5. Power(Group)[MaxGroups] = Group * p
        BY <1>2, <1>3
    <1> HIDE DEF p
    <1>6. LastGroup + 1 \in Nat /\ LastGroup + 1 <= Group /\ Group \in Nat
        BY <1>1
    <1>7. (LastGroup + 1) * p \in Nat /\ (LastGroup + 1) * p <= Group * p
        BY <1>4, <1>6, ProductGrows
    <1>. QED  BY <1>1, <1>3, <1>5, <1>7 DEF p

\* The bytes of a number x in g groups.
Written(x, g, s) ==
    /\ s \in Bytes /\ Len(s) = g /\ g \in 1 .. MaxGroups /\ x < Power(Group)[g]
    /\ \A k \in 1 .. g : s[k] = ((x \div Power(Group)[k - 1]) % Group) + (IF k < g THEN Group ELSE 0)

LEMMA PutIs ==
    ASSUME NEW x \in Nat, x < WordSize
    PROVE  /\ Written(x, Len(PutUvarint(x)), PutUvarint(x))
           /\ \A h \in 1 .. MaxGroups : x < Power(Group)[h] => Len(PutUvarint(x)) <= h
    <1> DEFINE p == Power(Group)
               S == {h \in 1 .. MaxGroups : x < p[h]}
               g == Min(S)
               s == PutUvarint(x)
               e(k) == ((x \div p[k - 1]) % Group) + (IF k < g THEN Group ELSE 0)
    <1>1. S \in SUBSET Nat /\ S # {}
        <2>1. MaxGroups \in S
            BY Groups
        <2>. QED  BY <2>1
    <1>2. g \in S /\ \A h \in S : g <= h
        BY <1>1, LeastOf, Zenon
    <1> HIDE DEF g, p
    <1>3. g \in 1 .. MaxGroups /\ x < p[g] /\ \A h \in 1 .. MaxGroups : x < p[h] => g <= h
        BY <1>2
    <1>4. s = [k \in 1 .. g |-> e(k)]
        BY Zenon DEF PutUvarint, g, p
    <1>5. ASSUME NEW k \in 1 .. g  PROVE e(k) \in 0 .. 255
        <2> DEFINE q == x \div p[k - 1]
        <2>1. k - 1 \in Nat
            BY <1>3
        <2>2. p[k - 1] \in Nat \ {0}
            BY <2>1, Groups DEF p
        <2>3. q \in Nat
            BY <2>2, QuotientBounds
        <2> HIDE DEF q
        <2>4. Group = 128
            BY DEF Group
        <2>5. q % Group \in 0 .. 127
            BY <2>3, <2>4
        <2>6. (q % Group) + (IF k < g THEN Group ELSE 0) \in 0 .. 255
            BY <2>4, <2>5
        <2>. QED  BY <2>6 DEF q
    <1> HIDE DEF s, e
    <1>6. g \in Nat /\ s \in [1 .. g -> 0 .. 255]
        <2>1. g \in Nat
            BY <1>3, Groups
        <2>. QED  BY <1>4, <1>5, <2>1, Zenon
    <1>7. s \in Bytes /\ Len(s) = g
        BY <1>6, BytesMade
    <1>8. \A k \in 1 .. g : s[k] = e(k)
        BY <1>4, Zenon
    <1>9. Written(x, g, s)
        BY <1>3, <1>7, <1>8, Zenon DEF Written, e, p
    <1>. QED  BY <1>3, <1>7, <1>9, Zenon DEF s, p

\* The first byte without a continuation bit ends a number.
Ends(buf, n) == n \in 1 .. Len(buf) /\ buf[n] < Group /\ \A k \in 1 .. n - 1 : ~ (buf[k] < Group)

LEMMA ReadIs ==
    ASSUME NEW buf \in Bytes, NEW n, Ends(buf, n)
    PROVE  ReadUvarint(buf) = IF n > MaxGroups \/ (n = MaxGroups /\ buf[n] > LastGroup)
                              THEN <<0, 0>> ELSE <<Grouped(buf, n), n>>
    <1> DEFINE S == {k \in 1 .. Len(buf) : buf[k] < Group}
    <1>1. Len(buf) \in Nat
        BY DEF Bytes
    <1>2. n \in 1 .. Len(buf) /\ buf[n] < Group /\ \A k \in 1 .. n - 1 : ~ (buf[k] < Group)
        BY DEF Ends
    <1>3. S \in SUBSET Nat /\ n \in S /\ S # {}
        BY <1>1, <1>2
    <1>4. ASSUME NEW m \in S  PROVE n <= m
        <2>1. m \in 1 .. Len(buf) /\ buf[m] < Group
            OBVIOUS
        <2>2. m \in Nat /\ n \in Nat /\ (m < n => m \in 1 .. n - 1)
            BY <1>1, <1>2, <2>1
        <2>. QED  BY <1>2, <2>1, <2>2
    <1>5. Min(S) = n
        BY <1>3, <1>4, LeastIs, Zenon
    <1>. QED  BY <1>3, <1>5, Zenon DEF ReadUvarint

\* Bytes that hold no end, or hold one.
LEMMA EndsOrNot ==
    ASSUME NEW buf \in Bytes
    PROVE  ReadUvarint(buf) = <<0, 0>> \/ \E n \in Nat : Ends(buf, n)
    <1> DEFINE S == {k \in 1 .. Len(buf) : buf[k] < Group}
    <1>1. Len(buf) \in Nat
        BY DEF Bytes
    <1>2. CASE S = {}
        BY <1>2, Zenon DEF ReadUvarint
    <1>3. CASE S # {}
        <2>1. S \in SUBSET Nat
            BY <1>1
        <2> DEFINE n == Min(S)
        <2>2. n \in S /\ \A m \in S : n <= m
            BY <1>3, <2>1, LeastOf, Zenon
        <2> HIDE DEF n
        <2>3. n \in 1 .. Len(buf) /\ buf[n] < Group /\ n \in Nat
            BY <1>1, <2>2
        <2>4. ASSUME NEW k \in 1 .. n - 1  PROVE ~ (buf[k] < Group)
            <3>1. k \in 1 .. Len(buf) /\ ~ (n <= k)
                BY <1>1, <2>3
            <3>. QED  BY <2>2, <3>1, Zenon
        <2>5. Ends(buf, n)
            BY <2>3, <2>4, Zenon DEF Ends
        <2>. QED  BY <2>3, <2>5, Zenon
    <1>. QED  BY <1>2, <1>3, Zenon

\* The groups of a buffer as digits, the highest first.
Digits(buf, n) == [k \in 1 .. n |-> buf[n + 1 - k] % Group]

LEMMA DigitsTyped ==
    ASSUME NEW buf \in Bytes, NEW n \in Nat, n <= Len(buf)
    PROVE  /\ Digits(buf, n) \in Seq(0 .. Group - 1) /\ Len(Digits(buf, n)) = n
           /\ \A k \in 1 .. n : Digits(buf, n)[k] = buf[n + 1 - k] % Group
    <1>1. Len(buf) \in Nat /\ Group \in Nat \ {0}
        BY Groups DEF Bytes
    <1>2. ASSUME NEW k \in 1 .. n  PROVE buf[n + 1 - k] % Group \in 0 .. Group - 1
        <2>1. n + 1 - k \in 1 .. Len(buf)
            BY <1>1
        <2> DEFINE b == buf[n + 1 - k]
        <2>3. b \in Nat
            BY <2>1, ByteNat, Zenon
        <2> HIDE DEF b
        <2>4. b % Group \in 0 .. Group - 1
            BY <1>1, <2>3
        <2>. QED  BY <2>4 DEF b
    <1> DEFINE X == 0 .. Group - 1
               d == Digits(buf, n)
    <1>3. d \in [1 .. n -> X]
        BY <1>2, Zenon DEF Digits
    <1>4. \A k \in 1 .. n : d[k] = buf[n + 1 - k] % Group
        BY Zenon DEF Digits
    <1> HIDE DEF X, d
    <1>5. d \in Seq(X) /\ Len(d) = n
        BY <1>3
    <1>. QED  BY <1>4, <1>5, Zenon DEF X, d

\* What is read fits its groups, and the word.
LEMMA GroupedFits ==
    ASSUME NEW buf \in Bytes, NEW n \in Nat, n # 0, n <= Len(buf)
    PROVE  /\ Grouped(buf, n) \in Nat /\ Grouped(buf, n) < Power(Group)[n]
           /\ n = MaxGroups /\ buf[n] <= LastGroup => Grouped(buf, n) < WordSize
    <1> DEFINE d == Digits(buf, n)
               v == FromDigits(Group, d)
    <1>1. d \in Seq(0 .. Group - 1) /\ Len(d) = n /\ \A k \in 1 .. n : d[k] = buf[n + 1 - k] % Group
        BY DigitsTyped
    <1>2. Grouped(buf, n) = v
        BY Zenon DEF Grouped, Digits
    <1> HIDE DEF d
    <1>3. d \in Seq(Nat) /\ d[1] \in Nat
        <2> DEFINE X == 0 .. Group - 1
        <2>1. d \in Seq(X) /\ X \subseteq Nat
            BY <1>1, Groups
        <2> HIDE DEF X
        <2>2. d \in [1 .. n -> X] /\ 1 \in 1 .. n
            BY <1>1, <2>1
        <2>3. d \in [1 .. n -> Nat]
            BY <2>1, <2>2, Zenon
        <2>. QED  BY <2>2, <2>3
    <1>4. v \in Nat
        BY <1>3, Groups, FromDigitsIs
    <1>5. v < Power(Group)[n]
        <2>1. v < Power(Group)[Len(d)]
            BY <1>1, Groups, DigitsBound
        <2>. QED  BY <1>1, <2>1
    <1>6. ASSUME n = MaxGroups, buf[n] <= LastGroup  PROVE v < WordSize
        <2> DEFINE p == Power(Group)[n - 1]
                   k == 1
                   b == buf[n]
        <2>1. p \in Nat \ {0}
            <3>1. n - 1 \in Nat
                OBVIOUS
            <3>. QED  BY <3>1, Groups
        <2>2. v \div p = d[1]
            <3>1. Leading(Group, d)[1] = d[1]
                <4> DEFINE u == Leading(Group, d)
                <4>1. 1 \in 1 .. Len(d) /\ 1 - 1 = 0
                    BY <1>1
                <4>2. Group \in Nat
                    BY Groups
                <4>3. u[0] = 0 /\ \A j \in 1 .. Len(d) : u[j] = u[j - 1] * Group + d[j]
                    BY <1>3, <4>2, LeadingIs, Zenon
                <4> HIDE DEF u
                <4>4. u[1] = 0 * Group + d[1]
                    BY <4>1, <4>3
                <4>5. 0 * Group + d[1] = d[1]
                    BY <1>3, <4>2
                <4>. QED  BY <4>4, <4>5 DEF u
            <3>2. k \in 0 .. Len(d)
                BY <1>1
            <3> HIDE DEF k
            <3>3. FromDigits(Group, d) \div Power(Group)[Len(d) - k] = Leading(Group, d)[k]
                BY <1>1, <3>2, Groups, DigitsCut
            <3>. QED  BY <1>1, <3>1, <3>3 DEF k
        <2>3. d[1] = b % Group
            <3>1. 1 \in 1 .. n /\ n + 1 - 1 = n
                OBVIOUS
            <3>. QED  BY <1>1, <3>1
        <2>4. b \in Nat
            <3>1. n \in 1 .. Len(buf)
                BY DEF Bytes
            <3>. QED  BY <3>1, ByteNat, Zenon
        <2>a. b <= LastGroup
            BY <1>6
        <2> HIDE DEF p, b, v
        <2>b. Group \in Nat \ {0} /\ LastGroup \in Nat /\ LastGroup < Group
            BY Groups
        <2>c. b < Group
            BY <2>4, <2>a, <2>b
        <2>d. b % Group = b
            BY <2>4, <2>b, <2>c
        <2>5. d[1] = b /\ b + 1 \in Nat /\ LastGroup + 1 \in Nat /\ b + 1 <= LastGroup + 1
            BY <2>3, <2>4, <2>a, <2>b, <2>d
        <2>6. v < p * b + p
            BY <1>4, <2>1, <2>2, <2>5, QuotientBounds
        <2>7. (b + 1) * p <= (LastGroup + 1) * p /\ (b + 1) * p \in Nat /\ (LastGroup + 1) * p \in Nat
            BY <2>1, <2>5, ProductGrows
        <2>8. p * b + p = (b + 1) * p
            BY <2>1, <2>4
        <2>9. WordSize = (LastGroup + 1) * p
            BY <1>6, Groups DEF p
        <2>. QED  BY <1>4, <2>6, <2>7, <2>8, <2>9
    <1>. QED  BY <1>2, <1>4, <1>5, <1>6, Zenon

\* What was written is read, whatever follows it.
LEMMA VarintRead ==
    ASSUME NEW x \in Nat, x < WordSize, NEW s, NEW g, Written(x, g, s), NEW rest \in Bytes
    PROVE  ReadUvarint(s \o rest) = <<x, g>>
    <1> DEFINE p == Power(Group)
               buf == s \o rest
               q(k) == (x \div p[k - 1]) % Group
               G == Group
    <1>1. /\ s \in Bytes /\ Len(s) = g /\ g \in 1 .. MaxGroups /\ x < p[g]
          /\ \A k \in 1 .. g : s[k] = q(k) + (IF k < g THEN G ELSE 0)
        BY Zenon DEF Written
    <1>2. /\ G \in Nat \ {0} /\ MaxGroups \in Nat \ {0} /\ LastGroup \in Nat /\ LastGroup < G
          /\ p \in [Nat -> Nat \ {0}] /\ WordSize = (LastGroup + 1) * p[MaxGroups - 1]
        BY Groups
    <1> HIDE DEF G
    <1>3. g \in Nat /\ g # 0 /\ g <= MaxGroups
        BY <1>1, <1>2
    <1> HIDE DEF p
    <1>4. buf \in Bytes /\ g <= Len(buf) /\ \A k \in 1 .. g : buf[k] = s[k]
        <2> DEFINE X == 0 .. 255
        <2>1. s \in Seq(X) /\ rest \in Seq(X)
            BY <1>1 DEF Bytes
        <2> HIDE DEF X
        <2>2. buf \in Seq(X) /\ Len(buf) = Len(s) + Len(rest) /\ \A j \in 1 .. Len(s) : buf[j] = s[j]
            BY <2>1, Cat
        <2>3. Len(rest) \in Nat
            BY <2>1
        <2> HIDE DEF buf
        <2>4. g <= Len(buf)
            BY <1>1, <1>3, <2>2, <2>3
        <2>. QED  BY <1>1, <2>2, <2>4, Zenon DEF X, Bytes
    <1> HIDE DEF buf
    <1>5. ASSUME NEW k \in 1 .. g  PROVE k - 1 \in Nat /\ x \div p[k - 1] \in Nat /\ q(k) \in Nat /\ q(k) < G
        <2>1. k - 1 \in Nat /\ p[k - 1] \in Nat \ {0}
            BY <1>2, <1>3
        <2> DEFINE y == x \div p[k - 1]
        <2>2. y \in Nat
            BY <2>1, QuotientBounds
        <2> HIDE DEF y
        <2>3. y % G \in Nat /\ y % G < G
            BY <1>2, <2>2
        <2>. QED  BY <2>1, <2>2, <2>3 DEF y, G
    <1>6. \A k \in 1 .. g : buf[k] = q(k) + (IF k < g THEN G ELSE 0)
        BY <1>1, <1>4, Zenon
    <1>7. g \in 1 .. g /\ buf[g] = q(g)
        <2>1. g \in 1 .. g /\ ~ (g < g)
            BY <1>3
        <2>2. buf[g] = q(g) + 0 /\ q(g) \in Nat
            BY <1>5, <1>6, <2>1, Zenon
        <2> HIDE DEF q
        <2>. QED  BY <2>1, <2>2
    <1>8. Ends(buf, g)
        <2>1. g \in 1 .. Len(buf)
            <3>1. Len(buf) \in Nat
                BY <1>4 DEF Bytes
            <3>. QED  BY <1>3, <1>4, <3>1
        <2>2. buf[g] < Group
            BY <1>5, <1>7 DEF G
        <2>3. ASSUME NEW k \in 1 .. g - 1  PROVE ~ (buf[k] < Group)
            <3>1. k \in 1 .. g /\ k < g
                BY <1>3
            <3>2. buf[k] = q(k) + G /\ q(k) \in Nat
                BY <1>5, <1>6, <3>1, Zenon
            <3> HIDE DEF q
            <3>3. ~ (buf[k] < G)
                BY <1>2, <3>2
            <3>. QED  BY <3>3 DEF G
        <2>. QED  BY <2>1, <2>2, <2>3, Zenon DEF Ends
    <1>9. ASSUME g = MaxGroups  PROVE ~ (buf[g] > LastGroup)
        <2> DEFINE r == p[g - 1]
                   y == x \div r
        <2>1. r \in Nat \ {0} /\ WordSize = (LastGroup + 1) * r
            BY <1>2, <1>3, <1>9
        <2> HIDE DEF r
        <2>2. y \in Nat /\ r * y <= x
            BY <2>1, QuotientBounds
        <2> HIDE DEF y
        <2>3. y <= LastGroup
            <3> SUFFICES ASSUME LastGroup + 1 <= y  PROVE FALSE
                BY <1>2, <2>2
            <3>1. (LastGroup + 1) * r <= y * r /\ (LastGroup + 1) * r \in Nat /\ y * r \in Nat
                <4>1. LastGroup + 1 \in Nat /\ r \in Nat
                    BY <1>2, <2>1
                <4>. QED  BY <2>2, <4>1, ProductGrows
            <3>2. y * r = r * y
                BY <2>1, <2>2
            <3>. QED  BY <2>1, <2>2, <3>1, <3>2
        <2>4. y % G = y
            BY <1>2, <2>2, <2>3
        <2>5. buf[g] = y % G
            BY <1>7, Zenon DEF y, r, G
        <2>. QED  BY <1>2, <2>2, <2>3, <2>4, <2>5
    <1>10. Grouped(buf, g) = x
        <2> DEFINE d == Digits(buf, g)
        <2>1. d \in Seq(0 .. Group - 1) /\ Len(d) = g /\ \A k \in 1 .. g : d[k] = buf[g + 1 - k] % Group
            BY <1>3, <1>4, DigitsTyped
        <2>2. Grouped(buf, g) = FromDigits(Group, d)
            BY Zenon DEF Grouped, Digits
        <2> HIDE DEF d
        <2>3. ASSUME NEW k \in 1 .. g  PROVE d[k] = (x \div p[g - k]) % Group
            <3> DEFINE j == g + 1 - k
            <3>1. j \in 1 .. g /\ j - 1 = g - k
                BY <1>3
            <3> HIDE DEF j
            <3>2. q(j) \in Nat /\ q(j) < G /\ buf[j] = q(j) + (IF j < g THEN G ELSE 0)
                BY <1>5, <1>6, <3>1, Zenon
            <3>3. q(j) = (x \div p[g - k]) % Group
                BY <3>1, Zenon
            <3> HIDE DEF q
            <3>4. (q(j) + G) % G = q(j) /\ (q(j) + 0) % G = q(j)
                <4>1. q(j) + G = 1 * G + q(j) /\ q(j) + 0 = 0 * G + q(j)
                    BY <1>2, <3>2
                <4> DEFINE m == q(j)
                <4>3. m \in Nat /\ m < G /\ 0 \in Nat /\ 1 \in Nat
                    BY <3>2
                <4> HIDE DEF m
                <4>4. (1 * G + m) % G = m
                    BY <1>2, <4>3, Divided, Zenon
                <4>5. (0 * G + m) % G = m
                    BY <1>2, <4>3, Divided, Zenon
                <4>2. (1 * G + q(j)) % G = q(j) /\ (0 * G + q(j)) % G = q(j)
                    BY <4>4, <4>5 DEF m
                <4>. QED  BY <4>1, <4>2
            <3>5. buf[j] % G = q(j)
                BY <3>2, <3>4, Zenon
            <3>. QED  BY <2>1, <3>3, <3>5 DEF G, j
        <2>4. FromDigits(Group, d) = x
            BY <1>1, <1>2, <1>3, <2>1, <2>3, DigitsRestore DEF p, G
        <2>. QED  BY <2>2, <2>4
    <1>11. ReadUvarint(buf) = IF g > MaxGroups \/ (g = MaxGroups /\ buf[g] > LastGroup)
                              THEN <<0, 0>> ELSE <<Grouped(buf, g), g>>
        BY <1>4, <1>8, ReadIs, Zenon
    <1>12. ~ (g > MaxGroups)
        BY <1>2, <1>3
    <1>. QED  BY <1>9, <1>10, <1>11, <1>12, Zenon DEF buf

StreamTypeOK == stream \in Bytes

\* varint.rs: put_uvarint and read_uvarint agree on every number of the word and
\* whatever follows, and read_uvarint makes no number of more than the word of
\* any bytes, for any number of groups.
THEOREM VarintsAlwaysExact == VarintSpec => []VarintsExact
    <1>1. VarintInit => StreamTypeOK
        BY DEF VarintInit, StreamTypeOK, Bytes
    <1>2. StreamTypeOK /\ [VarintNext]_stream => StreamTypeOK'
        <2> SUFFICES ASSUME stream \in Bytes, VarintNext  PROVE stream' \in Bytes
            BY Zenon DEF StreamTypeOK
        <2>1. PICK b \in VarintBytes : stream' = Append(stream, b)
            BY Zenon DEF VarintNext
        <2> DEFINE X == 0 .. 255
        <2>2. b \in X /\ stream \in Seq(X)
            BY VarintAssumption DEF Bytes
        <2> HIDE DEF X
        <2>3. Append(stream, b) \in Seq(X)
            BY <2>2
        <2>. QED  BY <2>1, <2>3, Zenon DEF X, Bytes
    <1>3. StreamTypeOK => VarintsExact
        <2> SUFFICES ASSUME stream \in Bytes  PROVE VarintsExact
            BY Zenon DEF StreamTypeOK
        <2> DEFINE r == ReadUvarint(stream)
        <2>1. ASSUME NEW x \in VarintValues  PROVE ReadUvarint(PutUvarint(x) \o stream) = <<x, Len(PutUvarint(x))>>
            <3>1. x \in Nat /\ x < WordSize
                BY VarintAssumption, Groups
            <3>2. Written(x, Len(PutUvarint(x)), PutUvarint(x))
                BY <3>1, PutIs, Zenon
            <3>. QED  BY <3>1, <3>2, VarintRead, Zenon
        <2>2. ASSUME r[2] > 0  PROVE r[1] < WordSize /\ Len(PutUvarint(r[1])) <= r[2]
            <3>1. r # <<0, 0>>
                BY <2>2
            <3>2. PICK n \in Nat : Ends(stream, n)
                BY <3>1, EndsOrNot, Zenon
            <3> DEFINE v == Grouped(stream, n)
            <3>3. r = <<v, n>> /\ ~ (n > MaxGroups) /\ ~ (n = MaxGroups /\ stream[n] > LastGroup)
                BY <3>1, <3>2, ReadIs, Zenon
            <3>4. n \in 1 .. Len(stream) /\ n # 0 /\ n <= Len(stream)
                <4>1. n \in 1 .. Len(stream)
                    BY <3>2, Zenon DEF Ends
                <4>2. Len(stream) \in Nat
                    BY DEF Bytes
                <4>. QED  BY <4>1, <4>2
            <3>5. stream[n] \in Nat /\ LastGroup \in Nat /\ MaxGroups \in Nat \ {0}
                BY <3>4, ByteNat, Groups
            <3>6. /\ v \in Nat /\ v < Power(Group)[n]
                  /\ n = MaxGroups /\ stream[n] <= LastGroup => v < WordSize
                BY <3>4, GroupedFits
            <3> HIDE DEF v, r
            <3>7. n \in 1 .. MaxGroups
                BY <3>3, <3>4, <3>5
            <3>8. v < WordSize
                <4>1. CASE n = MaxGroups
                    BY <3>3, <3>5, <3>6, <4>1
                <4>2. CASE n # MaxGroups
                    <5> DEFINE p == Power(Group)[MaxGroups - 1]
                               c == Power(Group)[n]
                    <5>1. n <= MaxGroups - 1 /\ MaxGroups - 1 \in Nat /\ n \in Nat
                        BY <3>5, <3>7, <4>2
                    <5>2. c <= p
                        BY <5>1, Groups, PowerGrows
                    <5>3. p \in Nat \ {0} /\ c \in Nat \ {0} /\ LastGroup + 1 \in Nat /\ 1 <= LastGroup + 1 /\ 1 \in Nat
                        BY <3>5, <5>1, Groups
                    <5>4. WordSize = (LastGroup + 1) * p
                        BY Groups
                    <5>a. v < c
                        BY <3>6
                    <5> HIDE DEF p, c
                    <5>5. 1 * p <= (LastGroup + 1) * p /\ (LastGroup + 1) * p \in Nat
                        BY <5>3, ProductGrows
                    <5>. QED  BY <3>6, <5>a, <5>2, <5>3, <5>4, <5>5
                <4>. QED  BY <4>1, <4>2
            <3>9. Len(PutUvarint(v)) <= n
                BY <3>6, <3>7, <3>8, PutIs, Zenon
            <3>10. r[1] = v /\ r[2] = n
                BY <3>3
            <3>. QED  BY <3>8, <3>9, <3>10, Zenon
        <2>. QED  BY <2>1, <2>2, Zenon DEF VarintsExact
    <1>. QED  BY <1>1, <1>2, <1>3, PTL DEF VarintSpec

=============================================================================
