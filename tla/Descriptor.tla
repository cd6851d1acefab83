----------------------------- MODULE Descriptor -----------------------------
(***************************************************************************)
(* The descriptor suffix array of v114.rs.  The text is cut into groups of *)
(* Group bytes; flags say where a run of similar groups begins.  Within a  *)
(* run the suffixes at one offset are sorted once and then carried from    *)
(* offset to offset, stored as runs of equal three-byte keys; the runs are *)
(* radix-sorted by key and the ones of equal key merged.                   *)
(*                                                                         *)
(* data is a function from 0 .. len + 2 (three tail bytes), sequences      *)
(* stand for vectors, and a read outside either is an error to TLC.        *)
(***************************************************************************)
EXTENDS Integers, Sequences, SequencesExt, FiniteSets, FiniteSetsExt

CONSTANTS
    Group,          \* 256 in the code: bytes of a group
    Radix,          \* 256: values of a byte
    WordBytes,      \* 8: bytes the comparators read at once
    CopyWords,      \* MATERIALIZED_SA_COPY_WORDS, 8: positions copied at once
    ArenaCap,       \* DESCRIPTOR_ARENA_INDEX_COUNT, 2^17
    ShortRunMax,    \* STAGE4_SHORT_RUN_MAX, 25
    LiteralMax,     \* MAX_STACK_LITERAL_GROUP, 32
    SinkWords       \* SINK_BUFFER_WORDS, 2048

\* What the constants must be.
DescriptorAssumption ==
    {Group, Radix, WordBytes, CopyWords, ArenaCap, SinkWords} \subseteq Nat \ {0}

\* Mutant: one spare word too few.
TailWordsShort == CopyWords - 2

TailWords == CopyWords - 1

MaxGroupCount == ArenaCap \div Group

Table(f) == f @@ <<>>
Upto(n) == [i \in 1 .. n |-> i - 1]
Downto(n) == [i \in 1 .. n |-> n - i]
Sign(x, y) == IF x < y THEN -1 ELSE IF x > y THEN 1 ELSE 0
Smaller(x, y) == IF x < y THEN x ELSE y

\* The order of the first pair that differs, or 0.
FirstOrder(n, L(_), R(_)) ==
    LET diff == {i \in 0 .. n - 1 : L(i) # R(i)}
    IN  IF diff = {} THEN 0 ELSE Sign(L(Min(diff)), R(Min(diff)))

-----------------------------------------------------------------------------
(* Key loads.                                                              *)

\* load24_fast: four bytes are read at pos, the key is the little-endian value of
\* the first three.
Load24(data, pos) ==
    LET word == <<data[pos], data[pos + 1], data[pos + 2], data[pos + 3]>>
    IN  word[1] + Radix * word[2] + Radix^2 * word[3]

\* stage5_radix_order_key: ascending integers in lexicographic byte order.
OrderKey(key) == Radix^2 * (key % Radix) + Radix * ((key \div Radix) % Radix) + (key \div Radix^2)

LoadWord(data, pos) == FoldLeft(LAMBDA w, i : Radix * w + data[pos + i], 0, Upto(WordBytes))

-----------------------------------------------------------------------------
(* Suffix comparators: negative, zero or positive.                         *)

\* compare_suffixes_s4
CompareS4(data, len, a, b) ==
    LET common == Smaller(len - a, len - b)
        first == FirstOrder(common, LAMBDA i : data[a + i], LAMBDA i : data[b + i])
    IN  IF first # 0 THEN first ELSE Sign(len - a, len - b)

\* compare_suffixes_full_8: whole words, then bytes, then the length.
CompareFull(data, len, a, b) ==
    LET common == Smaller(len - a, len - b)
        words == common \div WordBytes
        at == words * WordBytes
        byWord == FirstOrder(words, LAMBDA i : LoadWord(data, a + WordBytes * i),
                                    LAMBDA i : LoadWord(data, b + WordBytes * i))
        byByte == FirstOrder(common - at, LAMBDA i : data[a + at + i], LAMBDA i : data[b + at + i])
    IN  IF a = b THEN 0
        ELSE IF byWord # 0 THEN byWord
        ELSE IF byByte # 0 THEN byByte
        ELSE Sign(len - a, len - b)

\* compare_suffixes_after_key: the keys are known to be equal.
CompareAfterKey(data, len, a, b) ==
    LET common == Smaller(len - a, len - b) - 3
        word == IF common >= WordBytes THEN Sign(LoadWord(data, a + 3), LoadWord(data, b + 3)) ELSE 0
        skip == IF common > WordBytes THEN WordBytes ELSE 0
        rest == FirstOrder(common - skip, LAMBDA i : data[a + 3 + skip + i],
                                          LAMBDA i : data[b + 3 + skip + i])
    IN  IF a = b THEN 0
        ELSE IF common <= 0 THEN Sign(len - a, len - b)
        ELSE IF word # 0 THEN word
        ELSE IF rest # 0 THEN rest
        ELSE Sign(len - a, len - b)

\* suffix_prefix_after_key: the next word, padded with zeros past the end.
PrefixAfterKey(data, len, pos) ==
    FoldLeft(LAMBDA w, i : Radix * w + (IF pos + 3 + i < len THEN data[pos + 3 + i] ELSE 0),
             0, Upto(WordBytes))

\* suffix_less_after_key
LessAfterKey(data, len, a, b) ==
    LET c == CompareAfterKey(data, len, a, b) IN c < 0 \/ (c = 0 /\ a < b)

\* The insertion sorts: x goes behind the last element it is not less than.
InsertionSort(seq, Less(_, _)) ==
    FoldLeft(LAMBDA out, x :
               LET k == Max({0} \cup {i \in DOMAIN out : ~Less(x, out[i])})
               IN  SubSeq(out, 1, k) \o <<x>> \o SubSeq(out, k + 1, Len(out)),
             <<>>, seq)

\* sort_stage4_suffix_order_small
SortSmall(data, len, order) == InsertionSort(order, LAMBDA a, b : CompareS4(data, len, a, b) < 0)

\* reorder_by_leading_byte, on data[rel ..]: stable.
Reorder(data, order, rel) == InsertionSort(order, LAMBDA a, b : data[a + rel] < data[b + rel])

\* step_back_and_reorder
StepBack(data, order) == Reorder(data, [i \in DOMAIN order |-> order[i] - 1] \o <<>>, 0)

-----------------------------------------------------------------------------
(* Stage5Run: a key and a packed field, either a literal position or a     *)
(* count and an index of the arena.                                        *)

MakeRun(key, begin, count, literal) ==
    [key |-> key, packed |-> IF literal THEN begin ELSE count * ArenaCap + begin]

IsLiteral(run) == run.packed \div ArenaCap = 0
Begin(run) == run.packed % ArenaCap
RunCount(run) == IF IsLiteral(run) THEN 1 ELSE run.packed \div ArenaCap

\* fused_run_pos, for all rel.
Positions(arena, run) ==
    IF IsLiteral(run) THEN <<Begin(run)>> ELSE SubSeq(arena, Begin(run) + 1, Begin(run) + RunCount(run))

DefaultRun == [key |-> 0, packed |-> 0]

Resize(v, n, default) ==
    IF Len(v) >= n THEN SubSeq(v, 1, n) ELSE v \o [i \in 1 .. n - Len(v) |-> default]

Grow(v, n, default) == IF Len(v) < n THEN Resize(v, n, default) ELSE v

\* v with the words w written from index at (0-based) on.
Write(v, at, w) == [i \in DOMAIN v |-> IF i - at \in DOMAIN w THEN w[i - at] ELSE v[i]] \o <<>>

-----------------------------------------------------------------------------
(* Three-pass radix sort of the first n runs; what lies behind them in the *)
(* two buffers is left from earlier calls.  counts says, for each of the   *)
(* three digits of a key, how many runs have which value.                  *)

Digit(key, d) == (key \div Radix ^ d) % Radix

ZeroCounts == [d \in 1 .. 3 |-> [v \in 0 .. Radix - 1 |-> 0]]

\* count_radix_key
CountKey(counts, key) ==
    [d \in DOMAIN counts |-> [counts[d] EXCEPT ![Digit(key, d - 1)] = @ + 1]]

\* One pass from src[.. n] into dst by digit d: the counts become the first slot
\* of each value, and a slot moves up behind every run it takes.
Pass(src, dst, n, d, counts) ==
    LET first == [v \in DOMAIN counts[d] |-> FoldLeft(LAMBDA t, u : t + counts[d][u], 0, Upto(v))]
        place(st, i) ==
          LET v == Digit(src[i].key, d - 1)
          IN  [dst |-> [st.dst EXCEPT ![st.slot[v] + 1] = src[i]], slot |-> [st.slot EXCEPT ![v] = @ + 1]]
        done == FoldLeft(place, [dst |-> dst, slot |-> first], [i \in 1 .. n |-> i])
    IN  <<done.dst, [counts EXCEPT ![d] = done.slot]>>

\* radix_sort_runs_by_stored_key_prefix_counted: the new runs, tmp and counts.
RadixSort(runs, tmp, n, counts) ==
    IF n <= 1 THEN <<runs, tmp, counts>>
    ELSE LET p0 == Pass(runs, tmp, n, 1, counts)
             p1 == Pass(p0[1], runs, n, 2, p0[2])
             p2 == Pass(p1[1], p0[1], n, 3, p1[2])
         IN  <<p2[1], p1[1], p2[2]>>

-----------------------------------------------------------------------------
(* Merging runs of equal key.                                              *)

\* merge_sorted_suffix_positions_after_key
RECURSIVE Merge(_, _, _, _)
Merge(data, len, l, r) ==
    IF l = <<>> THEN r
    ELSE IF r = <<>> THEN l
    ELSE IF LessAfterKey(data, len, Head(l), Head(r))
         THEN <<Head(l)>> \o Merge(data, len, Tail(l), r)
         ELSE <<Head(r)>> \o Merge(data, len, l, Tail(r))

\* One round in pairs, an odd last segment copied through.
MergePairs(data, len, segments) ==
    [k \in 1 .. (Len(segments) + 1) \div 2 |->
       IF 2 * k > Len(segments) THEN segments[2 * k - 1]
       ELSE Merge(data, len, segments[2 * k - 1], segments[2 * k])] \o <<>>

\* The rounds go from one buffer to the other and back: the one that was
\* written last comes first.
RECURSIVE MergeRounds(_, _, _, _, _)
MergeRounds(data, len, src, dst, segments) ==
    IF Len(segments) <= 1 THEN <<src, dst>>
    ELSE LET next == MergePairs(data, len, segments)
         IN  MergeRounds(data, len, Write(dst, 0, FlattenSeq(next)), src, next)

\* merge_equal_key_runs_after_key: the new positions and merge_positions, which
\* are swapped when the number of rounds is odd.
MergeRuns(data, len, positions, merge, segments) ==
    IF Len(segments) <= 1 THEN <<positions, merge>>
    ELSE MergeRounds(data, len, positions, Resize(merge, Len(positions), 0), segments)

\* try_two_equal_key_runs: the merge with a cached prefix per side.
RECURSIVE MergeTwo(_, _, _, _)
MergeTwo(data, len, l, r) ==
    IF l = <<>> THEN r
    ELSE IF r = <<>> THEN l
    ELSE LET lp == PrefixAfterKey(data, len, Head(l))
             rp == PrefixAfterKey(data, len, Head(r))
         IN  IF lp < rp \/ (lp = rp /\ LessAfterKey(data, len, Head(l), Head(r)))
             THEN <<Head(l)>> \o MergeTwo(data, len, Tail(l), r)
             ELSE <<Head(r)>> \o MergeTwo(data, len, l, Tail(r))

\* The maximal stretches of equal keys: pairs <<first, count>>, 1-based.
Stretches(keys) ==
    LET starts == SelectSeq([i \in DOMAIN keys |-> i], LAMBDA i : i = 1 \/ keys[i] # keys[i - 1])
    IN  [k \in DOMAIN starts |->
           <<starts[k], (IF k = Len(starts) THEN Len(keys) + 1 ELSE starts[k + 1]) - starts[k]>>] \o <<>>

Keys(runs) == [i \in DOMAIN runs |-> runs[i].key] \o <<>>

=============================================================================
