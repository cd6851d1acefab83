--------------------------- MODULE DescriptorPaths ---------------------------
(***************************************************************************)
(* The two builds of v114.rs on the thread's scratch: the streaming one    *)
(* that feeds SHA-256 (hash_compact_fused) and the one that materializes   *)
(* the array (sa_build_compact_fused).  Both reuse the same buffers, which *)
(* only grow and keep what earlier hashes left in them.                    *)
(*                                                                         *)
(* A scratch is [order, arena, group, merge, runs, tmp, counts]: what both *)
(* paths leave for the next call.  (The keys and run lengths it also holds *)
(* are written from the start by every use.)  A build returns              *)
(* [ok, scratch, ...]; fit says that every fixed-width copy stayed inside  *)
(* its buffers, which the code asserts in debug builds only.               *)
(***************************************************************************)
EXTENDS Descriptor

EmptyScratch ==
    [order |-> <<>>, arena |-> <<>>, group |-> <<>>, merge |-> <<>>, runs |-> <<>>, tmp |-> <<>>,
     counts |-> ZeroCounts]

Refusal(scratch) == [ok |-> FALSE, fit |-> TRUE, scratch |-> scratch, out |-> <<>>]

\* The runs of groups: pairs <<start, end>>, cut at the flags and at the last group.
GroupRuns(len, flags) ==
    LET full == len \div Group
        ends == SelectSeq([g \in 1 .. full |-> g], LAMBDA g : flags[g + 1] # 0 \/ g = full)
    IN  [k \in DOMAIN ends |-> <<IF k = 1 THEN 0 ELSE ends[k - 1], ends[k]>>] \o <<>>

\* The offset-(Group - 1) suffixes of a run of groups.
Anchors(base, n) == [k \in 1 .. n |-> base + (k - 1) * Group + Group - 1] \o <<>>

-----------------------------------------------------------------------------
(* The streaming build.  An emission is [runs, arena, order, ok].          *)

\* append_fused_order_group
AppendGroup(e, key, order, singletons) ==
    IF ~e.ok \/ order = <<>> THEN [e EXCEPT !.ok = FALSE]
    ELSE IF Len(order) = 1 /\ ~singletons
    THEN [e EXCEPT !.runs = Append(@, MakeRun(OrderKey(key), order[1], 1, TRUE))]
    ELSE IF Len(order) > ArenaCap - Len(e.arena) THEN [e EXCEPT !.ok = FALSE]
    ELSE [e EXCEPT !.arena = @ \o order,
                   !.runs = Append(@, MakeRun(OrderKey(key), Len(e.arena), Len(order), FALSE))]

\* emit_fused_literal_records
EmitRecords(data, start, count, e, singletons) ==
    FoldLeft(LAMBDA v, rel : AppendGroup(v, Load24(data, start + rel), <<start + rel>>, singletons),
             e, Upto(count))

\* emit_fused_two
EmitTwo(data, len, base, e, singletons) ==
    LET pair == Anchors(base, 2)
        swapIf(c, o) == IF c THEN <<o[2], o[1]>> ELSE o
        step(st, rel) ==
          LET o == st.order
              k1 == Load24(data, o[1])
              k2 == Load24(data, o[2])
              put == IF k1 = k2 THEN AppendGroup(st.e, k1, o, singletons)
                     ELSE AppendGroup(AppendGroup(st.e, k1, <<o[1]>>, singletons), k2, <<o[2]>>, singletons)
              back == <<o[1] - 1, o[2] - 1>>
          IN  [e |-> put,
               order |-> IF rel > 0 THEN swapIf(data[back[1]] > data[back[2]], back) ELSE o]
    IN  FoldLeft(step, [e |-> e, order |-> swapIf(CompareS4(data, len, pair[2], pair[1]) < 0, pair)],
                 Downto(Group)).e

\* emit_fused_group_scan, on the sorted anchors in order: they are stepped back
\* in place.
GroupScan(data, e, singletons) ==
    LET step(v, rel) ==
          LET keys == [i \in DOMAIN v.order |-> Load24(data, v.order[i])] \o <<>>
              put == FoldLeft(LAMBDA w, x : AppendGroup(w, keys[x[1]], SubSeq(v.order, x[1], x[1] + x[2] - 1),
                                                        singletons),
                              v, Stretches(keys))
          IN  IF ~v.ok THEN v
              ELSE IF put.ok /\ rel > 0 THEN [put EXCEPT !.order = StepBack(data, @)]
              ELSE put
    IN  FoldLeft(step, e, Downto(Group))

\* The general path's sort; seed_order has cleared and refilled order.
SortAnchors(data, len, order) ==
    IF Len(order) <= ShortRunMax THEN SortSmall(data, len, order)
    ELSE SortSeq(order, LAMBDA a, b : CompareS4(data, len, a, b) < 0)

\* emit_fused_full_group_run and emit_fused_short; one and two groups leave
\* order alone.
EmitRun(data, len, run, e, singletons) ==
    LET n == run[2] - run[1]
        base == run[1] * Group
    IN  IF ~e.ok \/ n > MaxGroupCount THEN [e EXCEPT !.ok = FALSE]
        ELSE IF n = 1 THEN EmitRecords(data, base, Group, e, singletons)
        ELSE IF n = 2 THEN EmitTwo(data, len, base, e, singletons)
        ELSE GroupScan(data, [e EXCEPT !.order = SortAnchors(data, len, Anchors(base, n))], singletons)

\* The ragged tail past the last full group.
EmitTail(data, len, e, singletons) ==
    IF e.ok THEN EmitRecords(data, (len \div Group) * Group, len % Group, e, singletons) ELSE e

\* run_fused_emit, after its refusals.
RunFusedEmit(data, len, flags, singletons, order) ==
    EmitTail(data, len,
             FoldLeft(LAMBDA v, r : EmitRun(data, len, r, v, singletons),
                      [runs |-> <<>>, arena |-> <<>>, order |-> order, ok |-> TRUE], GroupRuns(len, flags)),
             singletons)

\* FusedHashSink: words go to SHA-256 in blocks of SinkWords; hashed is the
\* stream it has seen.
EmptySink == [buffer |-> <<>>, hashed |-> <<>>, positions |-> 0]

\* write_pos
WritePos(sink, word) ==
    IF Len(sink.buffer) + 1 = SinkWords
    THEN [sink EXCEPT !.buffer = <<>>, !.hashed = @ \o Append(sink.buffer, word), !.positions = @ + 1]
    ELSE [sink EXCEPT !.buffer = Append(@, word), !.positions = @ + 1]

\* write_positions: a buffer in use is topped up; whole blocks then go past it.
WritePositions(sink, words) ==
    LET room == IF sink.buffer = <<>> THEN 0 ELSE Smaller(SinkWords - Len(sink.buffer), Len(words))
        upto == Len(words) - ((Len(words) - room) % SinkWords)
        topped == FoldLeft(WritePos, sink, SubSeq(words, 1, room))
    IN  FoldLeft(WritePos,
                 [topped EXCEPT !.hashed = @ \o SubSeq(words, room + 1, upto), !.positions = @ + (upto - room)],
                 SubSeq(words, upto + 1, Len(words)))

Finalize(sink) == sink.hashed \o sink.buffer

AllLiteral(runs) == Len(runs) <= LiteralMax /\ \A i \in DOMAIN runs : IsLiteral(runs[i])

\* sorted_literal_group
SortLiterals(data, len, runs) ==
    InsertionSort([i \in DOMAIN runs |-> Begin(runs[i])] \o <<>>, LAMBDA a, b : LessAfterKey(data, len, a, b))

\* merge_equal_key_group leaves the stretch in group_positions.
WriteMerged(st, merged) ==
    [sink |-> WritePositions(st.sink, merged[1]), group |-> merged[1], merge |-> merged[2]]

MergeGroup(data, len, st, segments) ==
    WriteMerged(st, MergeRuns(data, len, FlattenSeq(segments), st.merge, segments))

\* One stretch of runs of equal key, into st, which is
\* [sink, group, merge].
WriteStretch(data, len, arena, runs, st) ==
    IF Len(runs) = 1 /\ ~IsLiteral(runs[1])
    THEN [st EXCEPT !.sink = WritePositions(@, Positions(arena, runs[1]))]
    ELSE IF AllLiteral(runs) THEN [st EXCEPT !.sink = FoldLeft(WritePos, @, SortLiterals(data, len, runs))]
    ELSE IF Len(runs) = 2
    THEN [st EXCEPT !.sink = FoldLeft(WritePos, @, MergeTwo(data, len, Positions(arena, runs[1]),
                                                                       Positions(arena, runs[2])))]
    ELSE MergeGroup(data, len, st, [i \in DOMAIN runs |-> Positions(arena, runs[i])] \o <<>>)

\* write_fused_runs_to_hash, on sorted runs.
WriteToHash(data, len, runs, arena) ==
    FoldLeft(LAMBDA st, x : WriteStretch(data, len, arena, SubSeq(runs, x[1], x[1] + x[2] - 1), st),
             [sink |-> EmptySink, group |-> <<>>, merge |-> <<>>], Stretches(Keys(runs)))

\* The refusals that the two builds share.
Refused(data, len, flags) ==
    len = 0 \/ len > ArenaCap \/ Cardinality(DOMAIN data) < len + 3 \/ Len(flags) <= len \div Group

\* What hash_compact_fused leaves and returns; out is the word stream that is
\* hashed.  The materialized path's counts are left alone.
Streamed(len, e, sorted, st, scratch) ==
    [ok |-> st.sink.positions = len,
     fit |-> TRUE,
     scratch |-> [order |-> e.order, arena |-> e.arena, group |-> st.group, merge |-> st.merge,
                  runs |-> sorted[1], tmp |-> sorted[2], counts |-> scratch.counts],
     out |-> Finalize(st.sink)]

StreamSorted(data, len, e, sorted, scratch) ==
    Streamed(len, e, sorted, WriteToHash(data, len, sorted[1], e.arena), scratch)

FirstRuns(n, sorted) == <<SubSeq(sorted[1], 1, n), sorted[2]>>

\* radix_sort_runs_by_stored_key: tmp grows only when there is something to sort,
\* and the runs are counted here.
SortRuns(runs, tmp) ==
    IF Len(runs) <= 1 THEN <<runs, tmp>>
    ELSE FirstRuns(Len(runs),
                   RadixSort(runs, Grow(tmp, Len(runs), DefaultRun), Len(runs),
                             FoldLeft(LAMBDA c, r : CountKey(c, r.key), ZeroCounts, runs)))

\* An emission that gave up leaves what it had got to.
StreamRuns(data, len, e, scratch) ==
    IF e.ok THEN StreamSorted(data, len, e, SortRuns(e.runs, scratch.tmp), scratch)
    ELSE Refusal([scratch EXCEPT !.order = e.order, !.arena = e.arena, !.runs = e.runs,
                                 !.group = <<>>, !.merge = <<>>])

\* hash_compact_fused
HashFused(data, len, flags, singletons, scratch) ==
    IF Refused(data, len, flags) THEN Refusal(scratch)
    ELSE StreamRuns(data, len, RunFusedEmit(data, len, flags, singletons, scratch.order), scratch)

-----------------------------------------------------------------------------
(* The materialized build.  A builder is [order, arena, runs, counts,      *)
(* arenaLen, runsLen, cap, fit]; its buffers are longer than what is in    *)
(* use, and the arena may be written below cap.                            *)

\* append_run: whole blocks of CopyWords are copied, count words count.
AppendRun(b, data, first, count, rel) ==
    LET stored == CopyWords * ((count + CopyWords - 1) \div CopyWords)
        words == [i \in 1 .. stored |-> b.order[first + i - 1] + rel] \o <<>>
        key == OrderKey(Load24(data, b.order[first] + rel))
    IN  IF b.arenaLen + stored > b.cap \/ first + stored - 1 > Len(b.order)
        THEN [b EXCEPT !.fit = FALSE]
        ELSE [b EXCEPT !.arena = Write(@, b.arenaLen, words),
                       !.runs[b.runsLen + 1] = MakeRun(key, b.arenaLen, count, FALSE),
                       !.counts = CountKey(@, key),
                       !.arenaLen = @ + count, !.runsLen = @ + 1]

\* emit_literals
EmitLiterals(b, data, start, count) ==
    LET keys == [i \in 1 .. count |-> OrderKey(Load24(data, start + i - 1))] \o <<>>
    IN  [b EXCEPT !.arena = Write(@, b.arenaLen, [i \in 1 .. count |-> start + i - 1]),
                  !.runs = Write(@, b.runsLen,
                                 [i \in 1 .. count |-> MakeRun(keys[i], b.arenaLen + i - 1, 1, FALSE)]),
                  !.counts = FoldLeft(CountKey, @, keys),
                  !.arenaLen = @ + count, !.runsLen = @ + count]

\* The offsets at which all groups of the run hold the same byte.
EqualColumns(data, base, n) ==
    {rel \in 0 .. Group - 1 : \A g \in 1 .. n - 1 : data[base + g * Group + rel] = data[base + rel]}

\* The order for offset rel - 1; an equal column leaves it alone.
NextOrder(data, order, rel, n, equal) ==
    IF rel = 0 \/ rel - 1 \in equal THEN order
    ELSE Reorder(data, SubSeq(order, 1, n), rel - 1) \o SubSeq(order, n + 1, Len(order))

\* emit_group_run
EmitGroupRun(b, data, len, run) ==
    LET n == run[2] - run[1]
        base == run[1] * Group
        equal == EqualColumns(data, base, n)
        sorted == SortSeq(Anchors(base, n), LAMBDA x, y : CompareFull(data, len, x, y) < 0)
        origins == [i \in 1 .. n |-> sorted[i] - (Group - 1)] \o <<>>
        step(v, rel) ==
          LET keys == [i \in 1 .. n |-> Load24(data, v.order[i] + rel)] \o <<>>
              parts == IF rel <= Group - 3 /\ {rel, rel + 1, rel + 2} \subseteq equal
                       THEN <<<<1, n>>>> ELSE Stretches(keys)
              put == FoldLeft(LAMBDA w, x : AppendRun(w, data, x[1], x[2], rel), v, parts)
          IN  [put EXCEPT !.order = NextOrder(data, @, rel, n, equal)]
    IN  IF n = 1 THEN EmitLiterals(b, data, base, Group)
        ELSE FoldLeft(step, [b EXCEPT !.order = Write(@, 0, origins)], Downto(Group))

\* Mutant: the counts of the last build are not cleared.
CountsKept(scratch) == scratch.counts

FreshCounts(scratch) == ZeroCounts

\* build_materialized_group_runs, after its refusals: the buffers grow, then
\* every run of groups and the ragged tail are emitted.
BuildGroupRuns(data, len, flags, scratch) ==
    LET start == [order |-> Grow(scratch.order, MaxGroupCount + TailWords, 0),
                  arena |-> Grow(scratch.arena, len + TailWords, 0),
                  runs |-> Grow(scratch.runs, len, DefaultRun),
                  counts |-> FreshCounts(scratch),
                  arenaLen |-> 0, runsLen |-> 0, cap |-> len + TailWords, fit |-> TRUE]
        b == FoldLeft(LAMBDA v, r : EmitGroupRun(v, data, len, r), start, GroupRuns(len, flags))
    IN  EmitLiterals(b, data, (len \div Group) * Group, len % Group)

\* copy_materialized_run into [buf, at, fit]
CopyRun(dst, arena, run) ==
    LET count == RunCount(run)
        moved == IF count <= CopyWords THEN CopyWords ELSE count
        words == SubSeq(arena, Begin(run) + 1, Begin(run) + moved)
    IN  IF Begin(run) + moved > Len(arena) \/ dst.at + moved > Len(dst.buf)
        THEN [dst EXCEPT !.fit = FALSE]
        ELSE [dst EXCEPT !.buf = Write(@, dst.at, words), !.at = @ + count]

\* The next four runs have keys of their own.
FourAlone(runs, i) ==
    /\ i + 3 <= Len(runs)
    /\ \A j \in i .. i + 3 : j = Len(runs) \/ runs[j].key # runs[j + 1].key

\* Where the stretch of keys equal to the one at i ends.
StretchEnd(runs, i) == Min({j \in i + 1 .. Len(runs) + 1 : j = Len(runs) + 1 \/ runs[j].key # runs[i].key})

\* The segments the gather buffer holds, one per run.
Segments(buf, runs) ==
    [k \in DOMAIN runs |->
       SubSeq(buf, 1 + FoldLeft(LAMBDA t, r : t + RunCount(r), 0, SubSeq(runs, 1, k - 1)),
              FoldLeft(LAMBDA t, r : t + RunCount(r), 0, SubSeq(runs, 1, k)))] \o <<>>

CopyRuns(dst, arena, runs) == FoldLeft(LAMBDA d, r : CopyRun(d, arena, r), dst, runs)

Put(dst, words) == [dst EXCEPT !.buf = Write(@, dst.at, words), !.at = @ + Len(words)]

\* A merged stretch goes to the array, and stays in the gather buffer.
PutMerged(st, gathered, merged) ==
    [out |-> [Put(st.out, SubSeq(merged[1], 1, gathered.at)) EXCEPT !.fit = @ /\ gathered.fit],
     group |-> merged[1], merge |-> merged[2]]

MergeGathered(data, len, st, gathered, runs) ==
    PutMerged(st, gathered, MergeRuns(data, len, gathered.buf, st.merge, Segments(gathered.buf, runs)))

\* One stretch of runs of equal key, into st, which is
\* [out, group, merge].
PutStretch(data, len, arena, runs, st) ==
    IF Len(runs) = 1 THEN [st EXCEPT !.out = CopyRun(@, arena, runs[1])]
    ELSE IF Len(runs) = 2
    THEN [st EXCEPT !.out = Put(@, MergeTwo(data, len, Positions(arena, runs[1]), Positions(arena, runs[2])))]
    ELSE MergeGathered(data, len, st, CopyRuns([buf |-> st.group, at |-> 0, fit |-> TRUE], arena, runs), runs)

\* materialize_group_runs_to_sa from run i on.
RECURSIVE Materialize(_, _, _, _, _, _)
Materialize(data, len, runs, arena, i, st) ==
    IF i > Len(runs) THEN st
    ELSE LET end == IF FourAlone(runs, i) THEN i + 4 ELSE StretchEnd(runs, i)
         IN  Materialize(data, len, runs, arena, end,
               IF FourAlone(runs, i)
               THEN [st EXCEPT !.out = CopyRuns(@, arena, SubSeq(runs, i, i + 3))]
               ELSE PutStretch(data, len, arena, SubSeq(runs, i, end - 1), st))

\* What sa_build_compact_fused leaves and returns; out is the padded buffer.
Built(len, b, sorted, done) ==
    [ok |-> done.out.at = len,
     fit |-> done.out.fit,
     scratch |-> [order |-> b.order, arena |-> b.arena, group |-> done.group, merge |-> done.merge,
                  runs |-> sorted[1], tmp |-> sorted[2], counts |-> sorted[3]],
     out |-> done.out.buf]

BuildSorted(data, len, sa, b, sorted, group, merge) ==
    Built(len, b, sorted,
          Materialize(data, len, SubSeq(sorted[1], 1, b.runsLen), SubSeq(b.arena, 1, len + TailWords), 1,
                      [out |-> [buf |-> SubSeq(sa, 1, len + TailWords), at |-> 0, fit |-> b.fit],
                       group |-> group, merge |-> merge]))

\* The sort and the copy, unless the builder has not placed every suffix.
BuildRuns(data, len, sa, b, tmp, group, merge) ==
    IF b.arenaLen = len
    THEN BuildSorted(data, len, sa, b, RadixSort(b.runs, tmp, b.runsLen, b.counts), group, merge)
    ELSE [ok |-> FALSE, fit |-> b.fit, out |-> <<>>,
          scratch |-> [order |-> b.order, arena |-> b.arena, group |-> group, merge |-> merge,
                       runs |-> b.runs, tmp |-> tmp, counts |-> b.counts]]

\* sa_build_compact_fused into sa.
BuildFused(data, len, flags, sa, scratch) ==
    IF Refused(data, len, flags) \/ Len(sa) < len + TailWords THEN Refusal(scratch)
    ELSE BuildRuns(data, len, sa, BuildGroupRuns(data, len, flags, scratch),
                   Grow(scratch.tmp, len, DefaultRun), Grow(scratch.group, len + TailWords, 0),
                   scratch.merge)

=============================================================================
