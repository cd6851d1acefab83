------------------------------ MODULE Pipeline ------------------------------
(***************************************************************************)
(* One miner thread's hashes: the op loop of AstroBWTv3 that fills a       *)
(* scratch's data buffer and notes where RC4 re-keyed it, the zero tail,   *)
(* and the choice of suffix-array path, for one hash, for two at once and  *)
(* for the verification path that owns its buffers.                        *)
(*                                                                         *)
(* The bytes of a chunk are abstract: all that matters is that the op loop *)
(* may leave any byte nonzero.  What a turn of the loop decides from them  *)
(* (whether it re-keys, whether it may end) is chosen freely.  The         *)
(* descriptor build is the one of DescriptorThread: it accepts what it can *)
(* represent, and is exact, whatever groups the markers flag, when the     *)
(* bytes behind the text are zero.                                         *)
(***************************************************************************)
EXTENDS LpVec, FiniteSets

CONSTANTS
    Chunk,          \* 256: bytes per turn of the op loop, and per group
    MinTries,       \* 260: turns before the loop may end
    ExtraTries,     \* 16: turns more before it must
    Slack,          \* 4: chunks by which the text may fall short of the data
    TailZeros,      \* 16: zero bytes written behind the text
    Capacity,       \* ASTROBWT_DATA_CAPACITY, 280 * 256
    SaTail,         \* MATERIALIZED_SA_TAIL_WORDS, 7
    MarkerRadix,    \* 2^7: a marker's count lies below it
    MarkerSpace,    \* 2^16: markers are u16
    BitOr(_, _),    \* the | of two unsigned integers
    MaxCalls        \* bound on the hashes of one behaviour

MaxTries == MinTries + ExtraTries + 1

ASSUME PipelineAssumption ==
    /\ {Chunk, MarkerRadix, MarkerSpace} \subseteq Nat \ {0}
    /\ {MinTries, ExtraTries, Slack, TailZeros, Capacity, SaTail, MaxCalls} \subseteq Nat
    /\ MinTries >= Slack /\ TailZeros >= 3
    /\ Capacity >= MaxTries * Chunk + TailZeros /\ Capacity >= MaxTries * Chunk + SaTail
    /\ \A a, b \in 0 .. MaxTries + 1 : BitOr(a, b) \in Nat

VARIABLES
    little,      \* the target's byte order: the descriptor needs a little-endian one
    streaming,   \* hash_v114_fused_into is in use: the target is little-endian and
                 \* neither DERO_MATERIALIZE nor DERO_NO_FUSE is set
    pc,          \* "idle", "loop", "finish" or "sort"
    mode,        \* which function runs
    calls,       \* how many have run
    lane,        \* the scratch the loop fills; 0 is the vector astrobwtv3_full owns
    tries,       \* turns of the loop so far
    idx, first, count,   \* v114_template_idx, v114_first_chunk, v114_chunk_count
    data, sa, markers,   \* the fields of AstroBwtScratch, per lane
    dataLen,     \* data_len, per lane
    out          \* the words that went to the final SHA-256, per lane

loopVars == <<lane, tries, idx, first, count>>
buildVars == <<little, streaming>>
pvars == <<little, streaming, pc, mode, calls, lane, tries, idx, first, count,
           data, sa, markers, dataLen, out>>

Scratches == {0, 1, 2}
Modes == {"single", "x2", "profile", "full"}

\* What an op-loop byte may be at worst.
Real == 1
Written == [i \in 1 .. Chunk |-> Real]

\* The suffix array of the text this call hashes in lane l: each of its words.
Own(l) == <<calls, l>>

-----------------------------------------------------------------------------

PipelineInit ==
    /\ little \in BOOLEAN /\ streaming \in BOOLEAN /\ (streaming => little)
    /\ pc = "idle" /\ mode = "none" /\ calls = 0
    /\ lane = 1 /\ tries = 0 /\ idx = 0 /\ first = 0 /\ count = 1
    /\ data = [l \in Scratches |-> WithCapacity(Capacity, TRUE)]
    /\ sa = [l \in Scratches |-> WithCapacity(Capacity, TRUE)]
    /\ markers = [l \in Scratches |-> <<>>]
    /\ dataLen = [l \in Scratches |-> 0]
    /\ out = [l \in Scratches |-> <<>>]

\* The locals at the head of the loop.
Start(l) ==
    lane' = l /\ tries' = 0 /\ idx' = 0 /\ first' = 0 /\ count' = 1

\* Mutant: the data of the last hash stays in front.
Uncleared(vectors, l) == vectors

\* scratch.data.clear()
Cleared(vectors, l) == [vectors EXCEPT ![l] = Clear(@)]

Begin(m) ==
    LET l == IF m = "full" THEN 0 ELSE 1
    IN  /\ pc = "idle" /\ calls < MaxCalls
        /\ pc' = "loop" /\ mode' = m /\ calls' = calls + 1
        /\ Start(l)
        /\ data' = Cleared(data, l)
        /\ markers' = [markers EXCEPT ![l] = <<>>]
        /\ dataLen' = [k \in Scratches |-> 0]
        /\ out' = [k \in Scratches |-> <<>>]
        /\ UNCHANGED <<buildVars, sa>>

\* ((first << 7) | chunks) as u16, which runs into the first chunk's bits once
\* chunks needs more than seven of its own.
Marker(from, chunks) ==
    (MarkerRadix * BitOr(from, chunks \div MarkerRadix) + (chunks % MarkerRadix)) % MarkerSpace

\* write_v114_marker: at is an index, 0-based, and at most the length.
WriteMarker(seq, at, marker) ==
    IF at = Len(seq) THEN Append(seq, marker) ELSE [seq EXCEPT ![at + 1] = marker]

\* Mutant: the marker of the first turn is kept.
AdvanceAlways(turn) == idx + 1

\* A re-key on the very first turn leaves the index where it is.
AdvanceIdx(turn) == IF turn > 1 THEN idx + 1 ELSE idx

\* A turn of the op loop: rekey is diff <= 0x40, high is step_3[255] >= 0xf0.
\* astrobwtv3_full keeps no markers.
Try(rekey, high) ==
    LET turn == tries + 1
    IN  /\ pc = "loop"
        /\ tries' = turn
        /\ data' = [data EXCEPT ![lane] = ExtendFromSlice(@, Written)]
        /\ IF lane = 0 THEN UNCHANGED <<markers, idx, first, count>>
           ELSE IF rekey
           THEN /\ markers' = [markers EXCEPT ![lane] = WriteMarker(@, idx, Marker(first, count))]
                /\ idx' = AdvanceIdx(turn)
                /\ first' = turn - 1
                /\ count' = 1
           ELSE /\ count' = count + 1
                /\ UNCHANGED <<markers, idx, first>>
        /\ pc' = IF turn > MinTries + ExtraTries \/ (high /\ turn > MinTries) THEN "finish" ELSE "loop"
        /\ UNCHANGED <<buildVars, mode, calls, lane, sa, dataLen, out>>

\* data_len: up to Slack chunks less than the loop wrote.
DataLength(r) == (tries - Slack) * Chunk + r

\* Mutant: only the bytes that resize adds are zero, the op loop's stay.
ZeroTailAdded(v, len) ==
    IF Len(v.items) < len + TailZeros THEN Resize(v, len + TailZeros, 0)
    ELSE Overwrite(v, len, [i \in 1 .. TailZeros |-> 0])

\* The buffer is lengthened when it is too short, then the tail zeroed.
ZeroTail(v, len) ==
    Overwrite(IF Len(v.items) < len + TailZeros THEN Resize(v, len + TailZeros, 0) ELSE v,
              len, [i \in 1 .. TailZeros |-> 0])

\* The end of the loop: the last marker, the length (r is step_3[253 .. 254]
\* & 0x3ff) and the tail; astrobwtv3_full has neither markers nor tail.  The
\* two-way hash goes on with its second scratch.
Finish(r) ==
    /\ pc = "finish"
    /\ dataLen' = [dataLen EXCEPT ![lane] = DataLength(r)]
    /\ LET done == IF lane = 0 THEN data ELSE [data EXCEPT ![lane] = ZeroTail(@, DataLength(r))]
           last == IF lane = 0 THEN markers
                   ELSE [markers EXCEPT ![lane] =
                           SubSeq(WriteMarker(@, idx, Marker(first, count)), 1, idx + 1)]
       IN  IF mode = "x2" /\ lane = 1
           THEN /\ pc' = "loop"
                /\ Start(2)
                /\ data' = Cleared(done, 2)
                /\ markers' = [last EXCEPT ![2] = <<>>]
           ELSE /\ pc' = "sort"
                /\ data' = done
                /\ markers' = last
                /\ UNCHANGED loopVars
    /\ UNCHANGED <<buildVars, mode, calls, sa, out>>

-----------------------------------------------------------------------------
(* Suffix array and final hash.                                            *)

\* The refusals of hash_v114_fused_into and suffix_array_v114_into.
Accepted(l) == little /\ dataLen[l] > 0 /\ Len(data[l].items) >= dataLen[l] + 3

\* The array the descriptor makes: wrong, perhaps, unless the three bytes behind
\* the text are zero.
Words(l) ==
    [i \in 1 .. dataLen[l] |->
       IF \A k \in 1 .. 3 : data[l].items[dataLen[l] + k] = 0 THEN Own(l) ELSE <<0, 0>>]

\* sais32::suffix_array on the text alone.
SaisWords(l) == [i \in 1 .. dataLen[l] |-> Own(l)]

\* suffix_array_v114_into: sa only ever grows.
Materialized(l) ==
    LET padded == dataLen[l] + SaTail
        room == IF Len(sa[l].items) < padded THEN Resize(sa[l], padded, <<0, 0>>) ELSE sa[l]
    IN  IF Accepted(l) THEN Overwrite(room, 0, Words(l)) ELSE sa[l]

\* Mutant: the whole buffer is hashed, what an earlier array left at its end too.
HashedWhole(l, array) == IF Accepted(l) THEN array.items ELSE SaisWords(l)

\* sha256_sa_i32_le of the materialized array's logical prefix, or the fallback.
Hashed(l, array) ==
    IF Accepted(l) THEN SubSeq(array.items, 1, dataLen[l]) ELSE SaisWords(l)

\* astrobwtv3_with_scratch, astrobwtv3_x2, astrobwtv3_stage_cycles and
\* astrobwtv3_full from the suffix array on; the vector the last one owns goes.
Sort ==
    LET built == IF mode = "x2" THEN {1, 2}
                 ELSE IF mode = "full" \/ (mode = "single" /\ streaming /\ Accepted(1)) THEN {} ELSE {1}
    IN  /\ pc = "sort"
        /\ pc' = "idle"
        /\ sa' = [l \in Scratches |-> IF l \in built THEN Materialized(l) ELSE sa[l]]
        /\ out' = [l \in Scratches |->
                     IF l \in built THEN Hashed(l, sa'[l])
                     ELSE IF mode = "full" /\ l = 0 THEN SaisWords(0)
                     ELSE IF mode = "single" /\ l = 1 THEN Words(1)
                     ELSE <<>>]
        /\ data' = [data EXCEPT ![0] = WithCapacity(Capacity, TRUE)]
        /\ UNCHANGED <<buildVars, mode, calls, loopVars, markers, dataLen>>

PipelineNext ==
    \/ \E m \in Modes : Begin(m)
    \/ \E rekey, high \in BOOLEAN : Try(rekey, high)
    \/ \E r \in 0 .. Slack * Chunk - 1 : Finish(r)
    \/ Sort

PipelineSpec == PipelineInit /\ [][PipelineNext]_pvars

-----------------------------------------------------------------------------

\* The lanes that this call has prepared.
Prepared ==
    IF pc # "sort" THEN {} ELSE IF mode = "x2" THEN {1, 2} ELSE IF mode = "full" THEN {0} ELSE {1}

\* Types, and with them that the text never reaches beyond what the loop wrote
\* (the slice data[.. data_len] is in bounds), and that a marker is written over
\* one that is there or behind the last (markers[index] is in bounds).
PipelineTypeOK ==
    /\ little \in BOOLEAN /\ streaming \in BOOLEAN
    /\ pc \in {"idle", "loop", "finish", "sort"}
    /\ mode \in Modes \cup {"none"}
    /\ calls \in 0 .. MaxCalls
    /\ lane \in Scratches
    /\ tries \in 0 .. MaxTries
    /\ idx \in 0 .. MaxTries - 1
    /\ first \in 0 .. MaxTries - 1
    /\ count \in 1 .. MaxTries + 1
    /\ \A l \in Scratches : Len(markers[l]) <= MaxTries /\ markers[l] \in Seq(0 .. MarkerSpace - 1)
    /\ pc \in {"loop", "finish"} => idx <= Len(markers[lane])
    /\ \A l \in Prepared : dataLen[l] + 1 <= Len(data[l].items)

\* Every byte the descriptor reads behind a prepared text is there and is zero,
\* whatever the loop left in the buffer (lib.rs: "Those bytes MUST be zero or
\* the descriptor builds a SA that diverges").
TailIsZero ==
    \A l \in Prepared \ {0} :
      /\ Len(data[l].items) >= dataLen[l] + 3
      /\ \A k \in 1 .. 3 : data[l].items[dataLen[l] + k] = 0

\* Every function hashes exactly the suffix array of its own text, in full and
\* with nothing of an earlier, longer hash behind it: whichever path it took,
\* and in the two-way hash each scratch its own.
OutputCanonical ==
    pc = "idle" /\ calls > 0 =>
      \A l \in Scratches :
        out[l] = IF l \in (IF mode = "x2" THEN {1, 2} ELSE IF mode = "full" THEN {0} ELSE {1})
                 THEN SaisWords(l) ELSE <<>>

\* The buffers never leave the block they were given, so they keep their large
\* pages for as long as the thread lives (lpbuf.rs: "The hot path sizes capacity
\* above the algorithm's hard max so this never runs in practice").
BuffersStay ==
    \A l \in Scratches :
      /\ data[l].large /\ Len(data[l].items) <= data[l].cap
      /\ sa[l].large /\ Len(sa[l].items) <= sa[l].cap

=============================================================================
