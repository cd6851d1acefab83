-------------------------------- MODULE Sais --------------------------------
(***************************************************************************)
(* Suffix arrays by induced sorting: sais32.rs (the byte family _8_32 and  *)
(* the integer family _32 it recurses into), sais16.rs (the same two at 16 *)
(* bits) and the prefix-doubling oracle of suffixarray.rs.                 *)
(*                                                                         *)
(* A text of length n and its array sa are functions from 0 .. n - 1.  The *)
(* scratch tmp is [freq, bucket, have]: freq is the cached frequency       *)
(* table, <<>> while it is marked as not computed, and have says that tmp  *)
(* is large enough to keep one.  The four families are the same text up to *)
(* their types, so the functions of _8_32 are modelled one by one and the  *)
(* other families phase by phase.                                          *)
(***************************************************************************)
EXTENDS Integers, Sequences, SequencesExt, FiniteSets

CONSTANTS
    TextMax,      \* TEXT_MAX_8, 256 in the code: the alphabet of the byte families
    WideBytes,    \* bytes of a u32, 4 in the code: the letters length_8_32 packs
    NarrowBytes   \* bytes of a u16, 2 in the code: the letters length_8_16 packs

ASSUME SaisAssumption == {TextMax, WideBytes, NarrowBytes} \subseteq Nat \ {0}

\* f, evaluated (f @@ <<>> is f).
Table(f) == f @@ <<>>

Index(n) == 0 .. n - 1
Up(n) == [i \in 1 .. n |-> i - 1]
Down(n) == [i \in 1 .. n |-> n - i]
Size(text) == Cardinality(DOMAIN text)
Zeros(n) == Table([i \in Index(n) |-> 0])

-----------------------------------------------------------------------------
(* Frequencies and buckets.                                                *)

Count(text, K) == Table([c \in Index(K) |-> Cardinality({i \in DOMAIN text : text[i] = c})])

Freq(text, K, tmp) == IF tmp.have /\ tmp.freq # <<>> THEN tmp.freq ELSE Count(text, K)

\* The total of the frequencies below c.
RECURSIVE Below(_, _)
Below(freq, c) == IF c = 0 THEN 0 ELSE Below(freq, c - 1) + freq[c - 1]

Cached(tmp, freq, bucket) ==
    [tmp EXCEPT !.freq = IF tmp.have THEN freq ELSE <<>>, !.bucket = Table(bucket)]

BucketMin(text, K, tmp) ==
    LET freq == Freq(text, K, tmp) IN Cached(tmp, freq, [c \in Index(K) |-> Below(freq, c)])

BucketMax(text, K, tmp) ==
    LET freq == Freq(text, K, tmp) IN Cached(tmp, freq, [c \in Index(K) |-> Below(freq, c + 1)])

-----------------------------------------------------------------------------
(* The LMS-substring iterator: the starts of the LMS-substrings, from the  *)
(* last to the first.                                                      *)

LmsDown(text) ==
    FoldLeft(LAMBDA st, i :
               IF text[i] < st.c1 THEN [st EXCEPT !.s = TRUE, !.c1 = text[i]]
               ELSE IF text[i] > st.c1 /\ st.s
                    THEN [starts |-> Append(st.starts, i + 1), s |-> FALSE, c1 |-> text[i]]
                    ELSE [st EXCEPT !.c1 = text[i]],
             [starts |-> <<>>, s |-> FALSE, c1 |-> 0], Down(Size(text))).starts

PlaceLMS(text, K, tmp0) ==
    LET tmp == BucketMax(text, K, tmp0)
        lms == LmsDown(text)
        put == FoldLeft(LAMBDA st, j :
                          LET b == st.bucket[text[j]] - 1
                          IN  [bucket |-> [st.bucket EXCEPT ![text[j]] = b],
                               sa |-> [st.sa EXCEPT ![b] = j], last |-> b],
                        [bucket |-> tmp.bucket, sa |-> Zeros(Size(text)), last |-> -1], lms)
    IN  [sa |-> IF Len(lms) > 1 THEN [put.sa EXCEPT ![put.last] = 0] ELSE put.sa,
         tmp |-> [tmp EXCEPT !.bucket = put.bucket],
         num |-> Len(lms)]

\* The cached cursor (cB, b) over the buckets: st moved to letter c.
MoveTo(st, c) ==
    IF st.cB = c THEN st
    ELSE LET bucket == [st.bucket EXCEPT ![st.cB] = st.b]
         IN  [st EXCEPT !.bucket = bucket, !.cB = c, !.b = bucket[c]]

PutUp(st, c, v) ==
    LET m == MoveTo(st, c) IN [m EXCEPT !.sa = [@ EXCEPT ![m.b] = v], !.b = m.b + 1]

PutDown(st, c, v) ==
    LET m == MoveTo(st, c) IN [m EXCEPT !.sa = [@ EXCEPT ![m.b - 1] = v], !.b = m.b - 1]

Cursor(sa, tmp, c) == [sa |-> sa, bucket |-> tmp.bucket, cB |-> c, b |-> tmp.bucket[c]]

Done(st, tmp) == [sa |-> st.sa, tmp |-> [tmp EXCEPT !.bucket = st.bucket]]

\* k, negated when text[k - 1] belongs to the other type.
FlagL(text, k) == IF text[k - 1] < text[k] THEN -k ELSE k
FlagS(text, k) == IF text[k - 1] > text[k] THEN -k ELSE k

InduceSubL(text, K, sa, tmp0) ==
    LET tmp == BucketMin(text, K, tmp0)
        n == Size(text)
        first == PutUp(Cursor(sa, tmp, text[n - 1]), text[n - 1], FlagL(text, n - 1))
    IN  Done(FoldLeft(LAMBDA st, i :
                        LET j == st.sa[i]
                        IN  IF j = 0 THEN st
                            ELSE IF j < 0 THEN [st EXCEPT !.sa[i] = -j]
                            ELSE PutUp([st EXCEPT !.sa[i] = 0], text[j - 1], FlagL(text, j - 1)),
                      first, Up(Size(sa))), tmp)

InduceSubS(text, K, sa, tmp0) ==
    LET tmp == BucketMax(text, K, tmp0)
        n == Size(text)
        start == [top |-> n] @@ Cursor(sa, tmp, 0)
    IN  Done(FoldLeft(LAMBDA st, i :
                        LET j == st.sa[i]
                            clear == [st EXCEPT !.sa[i] = 0]
                        IN  IF j = 0 THEN st
                            ELSE IF j < 0
                                 THEN [clear EXCEPT !.sa[st.top - 1] = -j, !.top = st.top - 1]
                            ELSE PutDown(clear, text[j - 1], FlagS(text, j - 1)),
                      start, Down(Size(sa))), tmp)

-----------------------------------------------------------------------------
(* Naming the LMS-substrings.                                              *)

\* An unsigned value of that many letters, read as the signed sa entry.
Signed(v, bytes) == IF 2 * v >= TextMax ^ bytes THEN v - TextMax ^ bytes ELSE v
Unsigned(v, bytes) == v % TextMax ^ bytes

\* length_8_*: the length of each LMS-substring, or its letters themselves,
\* packed and inverted, when they fit in a word.  The last one has length 0.
Length8(text, sa, bytes) ==
    LET n == Size(text)
        word == TextMax ^ bytes
        plus(c) == (c + 1) % TextMax
        step(st, i) ==
          LET cx == (st.cx * TextMax + plus(st.c1)) % word
              c0 == text[i]
              j == i + 1
              len == st.end - j
              code == IF st.end = 0 THEN 0
                      ELSE IF len <= bytes /\ word - 1 - cx >= n
                      THEN Signed(word - 1 - cx, bytes) ELSE len
          IN  IF c0 < st.c1 THEN [st EXCEPT !.s = TRUE, !.c1 = c0, !.cx = cx]
              ELSE IF c0 > st.c1 /\ st.s
              THEN [sa |-> [st.sa EXCEPT ![j \div 2] = code], s |-> FALSE, c1 |-> c0,
                    cx |-> plus(st.c1), end |-> j + 1]
              ELSE [st EXCEPT !.c1 = c0, !.cx = cx]
    IN  FoldLeft(step, [sa |-> sa, s |-> FALSE, c1 |-> 0, cx |-> 0, end |-> 0], Down(Size(sa))).sa

\* length_16 and length_32 only record lengths.
Length(text, sa) ==
    FoldLeft(LAMBDA st, j : [sa |-> [st.sa EXCEPT ![j \div 2] = IF st.end = 0 THEN 0 ELSE st.end - j],
                             end |-> j + 1],
             [sa |-> sa, end |-> 0], LmsDown(text)).sa

\* Dense numbers for the sorted LMS-substrings: sa with them, and the largest.
AssignID(text, sa, num, bytes) ==
    LET n == Size(text)
        step(st, x) ==
          LET j == st.sa[n - num + x]
              len == st.sa[j \div 2]
              new == len # st.len \/
                     /\ Unsigned(len, bytes) < n
                     /\ \E i \in Index(len) : text[j + i] # text[st.pos + i]
              id == IF new THEN st.id + 1 ELSE st.id
          IN  [id |-> id, sa |-> [st.sa EXCEPT ![j \div 2] = id],
               len |-> IF new THEN len ELSE st.len, pos |-> IF new THEN j ELSE st.pos]
    IN  FoldLeft(step, [id |-> 0, sa |-> sa, len |-> -1, pos |-> 0], Up(num))

-----------------------------------------------------------------------------
(* The subproblem and the way back.                                        *)

\* map_*: the numbers, less one, packed at the top of sa.
MapIds(sa) ==
    LET n == Size(sa)
    IN  FoldLeft(LAMBDA st, i :
                   IF st.sa[i] > 0 THEN [w |-> st.w - 1, sa |-> [st.sa EXCEPT ![st.w - 1] = st.sa[i] - 1]]
                   ELSE st,
                 [w |-> n, sa |-> sa], Down((n \div 2) + 1)).sa

SubText(sa, num) == Table([i \in Index(num) |-> sa[Size(sa) - num + i]])

\* recurse_*: how long a tmp the subproblem gets.
TmpFor(n, tmpLen, num, maxId) ==
    LET middle == n - 2 * num
        chosen == IF tmpLen < middle THEN middle ELSE tmpLen
    IN  IF chosen >= num THEN chosen
        ELSE IF maxId < num \div 2 THEN num \div 2 ELSE maxId

\* recurse_* clears dst = sa[.. num] and leaves the subproblem's array there.
WithPrefix(sa, sub) == Table([i \in DOMAIN sa |-> IF i \in DOMAIN sub THEN sub[i] ELSE sa[i]])

\* unmap_*: positions in the subproblem to positions of LMS-substrings, through
\* the inverse map at the top of sa.
Unmap(text, sa, num) ==
    LET base == Size(sa) - num
        lms == Reverse(LmsDown(text))
        filled == Table([i \in DOMAIN sa |-> IF i >= base THEN lms[i - base + 1] ELSE sa[i]])
    IN  FoldLeft(LAMBDA v, i : [v EXCEPT ![i] = v[base + v[i]]], filled, Up(num))

\* copy_within(n - num .., 0): every LMS-substring is unique.
CopyDown(sa, num) ==
    Table([i \in DOMAIN sa |-> IF i < num THEN sa[Size(sa) - num + i] ELSE sa[i]])

\* expand_*: the sorted LMS suffixes of sa[.. num] to the tops of their buckets,
\* in place.
Expand(text, K, sa0, tmp0, num) ==
    LET tmp == BucketMax(text, K, tmp0)
        take(st, x) == LET c == text[st.sa[x]]
                           b == st.bucket[c] - 1
                       IN  [sa |-> st.sa, x |-> x, saX |-> st.sa[x], b |-> b,
                            bucket |-> [st.bucket EXCEPT ![c] = b]]
        step(st, i) == IF i # st.b THEN [st EXCEPT !.sa[i] = 0]
                       ELSE LET put == [st EXCEPT !.sa[i] = st.saX]
                            IN  IF st.x > 0 THEN take(put, st.x - 1) ELSE put
    IN  Done(FoldLeft(step, take([sa |-> sa0, bucket |-> tmp.bucket], num - 1),
                      Down(Size(sa0))), tmp)

InduceL(text, K, sa, tmp0) ==
    LET tmp == BucketMin(text, K, tmp0)
        n == Size(text)
        first == PutUp(Cursor(sa, tmp, text[n - 1]), text[n - 1], FlagL(text, n - 1))
    IN  Done(FoldLeft(LAMBDA st, i :
                        LET k == st.sa[i] - 1
                        IN  IF k < 0 THEN st
                            ELSE PutUp(st, text[k], IF k > 0 THEN FlagL(text, k) ELSE k),
                      first, Up(Size(sa))), tmp)

\* Mutant: text[k - 1] = text[k] is no longer counted as type S here.
InduceSStrict(text, K, sa, tmp0) ==
    LET tmp == BucketMax(text, K, tmp0)
        step(st, i) ==
          LET k == -st.sa[i] - 1
              v == IF k > 0 /\ text[k - 1] < text[k] THEN -k ELSE k
          IN  IF st.sa[i] >= 0 THEN st ELSE PutDown([st EXCEPT !.sa[i] = k + 1], text[k], v)
    IN  Done(FoldLeft(step, Cursor(sa, tmp, 0), Down(Size(sa))), tmp)

InduceS(text, K, sa, tmp0) ==
    LET tmp == BucketMax(text, K, tmp0)
        step(st, i) ==
          LET k == -st.sa[i] - 1
              v == IF k > 0 /\ text[k - 1] <= text[k] THEN -k ELSE k
          IN  IF st.sa[i] >= 0 THEN st ELSE PutDown([st EXCEPT !.sa[i] = k + 1], text[k], v)
    IN  Done(FoldLeft(step, Cursor(sa, tmp, 0), Down(Size(sa))), tmp)

-----------------------------------------------------------------------------
(* The families.  Every phase takes and returns [sa, tmp] with what it     *)
(* needs besides; Solve is the sequence of phases that all four share.     *)

\* tmp as it is marked at the entry: tmp[0] = -1 when there is room for freq.
Fresh(K, tmpLen) == [have |-> tmpLen >= 2 * K, freq |-> <<>>, bucket |-> <<>>]

\* recurse_*: map, solve the subproblem with F, and leave its array in sa[.. num].
Recurse(sa, tmpLen, num, maxId, F(_, _, _)) ==
    LET mapped == MapIds(sa)
    IN  WithPrefix(mapped, F(SubText(mapped, num), maxId, TmpFor(Size(sa), tmpLen, num, maxId)))

SortLms(text, K, st) == LET l == InduceSubL(text, K, st.sa, st.tmp) IN InduceSubS(text, K, l.sa, l.tmp)

Return(text, sa, num, maxId) == IF maxId < num THEN Unmap(text, sa, num) ELSE CopyDown(sa, num)

Induce(text, K, st) == LET l == InduceL(text, K, st.sa, st.tmp) IN InduceS(text, K, l.sa, l.tmp).sa

Solve(text, K, tmpLen, Place(_, _, _), Sort(_, _, _), Name(_, _, _), Back(_, _, _, _),
      Spread(_, _, _, _, _), Finish(_, _, _), F(_, _, _)) ==
    LET placed == Place(text, K, Fresh(K, tmpLen))
        num == placed.num
        sub == Sort(text, K, placed)
        named == Name(text, sub.sa, num)
        solved == IF named.id < num THEN Recurse(named.sa, tmpLen, num, named.id, F) ELSE named.sa
        ordered == Back(text, solved, num, named.id)
    IN  IF Size(text) = 0 THEN <<>>
        ELSE IF Size(text) = 1 THEN Zeros(1)
        ELSE Finish(text, K, IF num <= 1 THEN placed ELSE Spread(text, K, ordered, sub.tmp, num))

\* sais32.rs, integer texts.
Place_32(text, K, tmp) == PlaceLMS(text, K, tmp)
Sort_32(text, K, st) == SortLms(text, K, st)
Name_32(text, sa, num) == AssignID(text, Length(text, sa), num, WideBytes)
Back_32(text, sa, num, maxId) == Return(text, sa, num, maxId)
Spread_32(text, K, sa, tmp, num) == Expand(text, K, sa, tmp, num)
Finish_32(text, K, st) == Induce(text, K, st)

RECURSIVE Sais_32(_, _, _)
Sais_32(text, K, tmpLen) ==
    Solve(text, K, tmpLen, Place_32, Sort_32, Name_32, Back_32, Spread_32, Finish_32, Sais_32)

\* sais32.rs, the entry for bytes.
Sais_8_32(text) ==
    LET Name(t, sa, num) == AssignID(t, Length8(t, sa, WideBytes), num, WideBytes)
    IN  Solve(text, TextMax, 2 * TextMax, PlaceLMS, SortLms, Name, Return, Expand, Induce, Sais_32)

\* sais16.rs, integer texts.
Place_16(text, K, tmp) == PlaceLMS(text, K, tmp)
Sort_16(text, K, st) == SortLms(text, K, st)
Name_16(text, sa, num) == AssignID(text, Length(text, sa), num, NarrowBytes)
Back_16(text, sa, num, maxId) == Return(text, sa, num, maxId)
Spread_16(text, K, sa, tmp, num) == Expand(text, K, sa, tmp, num)
Finish_16(text, K, st) == Induce(text, K, st)

RECURSIVE Sais_16(_, _, _)
Sais_16(text, K, tmpLen) ==
    Solve(text, K, tmpLen, Place_16, Sort_16, Name_16, Back_16, Spread_16, Finish_16, Sais_16)

\* sais16.rs, the entry for bytes.
Place_8_16(text, K, tmp) == PlaceLMS(text, K, tmp)
Sort_8_16(text, K, st) == SortLms(text, K, st)
Name_8_16(text, sa, num) == AssignID(text, Length8(text, sa, NarrowBytes), num, NarrowBytes)
Back_8_16(text, sa, num, maxId) == Return(text, sa, num, maxId)
Spread_8_16(text, K, sa, tmp, num) == Expand(text, K, sa, tmp, num)
Finish_8_16(text, K, st) == Induce(text, K, st)

Sais_8_16(text) ==
    Solve(text, TextMax, 2 * TextMax, Place_8_16, Sort_8_16, Name_8_16, Back_8_16, Spread_8_16,
          Finish_8_16, Sais_16)

-----------------------------------------------------------------------------
(* suffixarray.rs: prefix doubling, the oracle the ports are tested with.  *)

\* The positions in the (stable) order of the pairs key[i].
SortByKey(key, order) ==
    SortSeq(order, LAMBDA a, b :
              key[a][1] < key[b][1] \/ (key[a][1] = key[b][1] /\ key[a][2] < key[b][2]))

RECURSIVE Double(_, _, _)
Double(sa, rank, k) ==
    LET n == Len(sa)
        key == Table([i \in DOMAIN rank |-> <<rank[i], IF i + k < n THEN rank[i + k] ELSE -1>>])
        order == SortByKey(key, sa)
        new == FoldLeft(LAMBDA r, w :
                          r @@ (order[w] :> r[order[w - 1]]
                                    + (IF key[order[w - 1]] = key[order[w]] THEN 0 ELSE 1)),
                        order[1] :> 0, [w \in 1 .. n - 1 |-> w + 1])
    IN  IF k >= n THEN sa
        ELSE IF new[order[n]] = n - 1 THEN order
        ELSE Double(order, new, 2 * k)

PrefixDoubling(text) ==
    LET order == Double([i \in 1 .. Size(text) |-> i - 1], text, 1)
    IN  IF Size(text) <= 1 THEN Zeros(Size(text))
        ELSE Table([i \in DOMAIN text |-> order[i + 1]])

=============================================================================
