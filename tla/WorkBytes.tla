------------------------------ MODULE WorkBytes ------------------------------
(***************************************************************************)
(* The bytes a worker hashes.  The daemon serializes a mini-block; the     *)
(* worker never decodes it, but writes random bytes, its thread number and *)
(* its counter over the end of it, and submits the result, which the       *)
(* daemon decodes as a mini-block again.  Worker names a work by its job,  *)
(* its thread and its nonce; here are the bytes behind these names.        *)
(***************************************************************************)
EXTENDS BlockCodec

CONSTANTS
    Templates,    \* the mini-blocks the daemon hands out
    Randoms,      \* random bytes, as many as the three nonces have
    Tids,         \* thread numbers
    Counters,     \* what earlier jobs may have left in i
    Ways,         \* works hashed at a time: 1 or 2
    MaxPasses     \* bound: passes over one job

CounterMod == Power(256)[IntBytes]

\* A field as wide as the code's type for it. The height is a u64, of which the
\* bytes hold less.
TypedMini ==
    {m \in Mini : /\ m.version < 256 /\ m.pastCount < 256
                  /\ m.timestamp < Power(256)[TimeBytes]
                  /\ m.past \in Seq(0 .. CounterMod - 1) /\ Len(m.past) = 2
                  /\ Len(m.keyHash) = KeyBytes /\ m.flags < CounterMod
                  /\ m.nonce \in Seq(0 .. CounterMod - 1) /\ Len(m.nonce) = 3}

ASSUME WorkBytesAssumption ==
    /\ \A m \in Templates : m \in TypedMini
    /\ \A r \in Randoms : r \in Bytes /\ Len(r) = 3 * IntBytes
    /\ Tids \subseteq 0 .. 255
    /\ Counters \subseteq 0 .. CounterMod - 1
    /\ Ways \in {1, 2} /\ MaxPasses \in Nat

\* | of bytes without a common bit adds them, & with one bit tests it.
ASSUME BitAssumption ==
    /\ \A a, b \in 0 .. 255 :
          /\ OrByte(a, b) \in 0 .. 255
          /\ (\A bit \in {1, 2, 4, 8, 16, 32, 64, 128} : (a \div bit) % 2 = 0 \/ (b \div bit) % 2 = 0)
                => OrByte(a, b) = a + b
    /\ \A a \in 0 .. 255, bit \in {16, 32} : AndByte(a, bit) > 0 <=> (a \div bit) % 2 = 1

VARIABLE grind    \* the job's mini-block, the works made of it, tid, i and the passes

-----------------------------------------------------------------------------

\* Where the three nonces begin.
NonceAt == MiniblockSize - 3 * IntBytes

WorkHeight(work) == Field(work, 0, 1 + TimeBytes + HeightBytes) % Power(256)[HeightBytes]

StampJob(work, random, tid) ==
    [k \in 1 .. MiniblockSize |->
        IF k = MiniblockSize THEN tid ELSE IF k > NonceAt THEN random[k - NonceAt] ELSE work[k]]

\* Mutant: the counter is written up to the last byte, over the thread number.
PutCounterLast(work, i) ==
    LET at == MiniblockSize - IntBytes
    IN  [k \in 1 .. MiniblockSize |-> IF k > at THEN Be(i, IntBytes)[k - at] ELSE work[k]]

\* The byte after the counter, the thread number, is left alone.
PutCounter(work, i) ==
    LET at == MiniblockSize - 1 - IntBytes
    IN  [k \in 1 .. MiniblockSize |->
            IF k \in at + 1 .. at + IntBytes THEN Be(i, IntBytes)[k - at] ELSE work[k]]

\* The prologue of a grind loop; i is what the thread's earlier jobs left in it.
WorkInit ==
    \E m \in Templates, random \in Randoms, tid \in Tids, i \in Counters :
        grind = [mini |-> m, tid |-> tid, i |-> i, passes |-> 0,
                 works |-> [way \in 1 .. Ways |-> StampJob(MiniSerialize(m), random, tid)]]

\* One pass of a grind loop: a nonce for each work. A blob of another version is
\* refused before the first.
Pass ==
    /\ grind.passes < MaxPasses
    /\ \A way \in 1 .. Ways : grind.works[way][1] % 16 = 1
    /\ grind' = [grind EXCEPT
                    !.passes = @ + 1,
                    !.i = (@ + Ways) % CounterMod,
                    !.works = [way \in 1 .. Ways |->
                                 PutCounter(@[way], (grind.i + way) % CounterMod)]]

WorkSpec == WorkInit /\ [][Pass]_grind

-----------------------------------------------------------------------------

\* miniblock.rs: a sane mini-block of version 1 survives its serialization, and
\* bytes that are accepted at all serialize to themselves, so that no two
\* encodings share one proof of work.
MiniblocksExact ==
    LET bytes == MiniSerialize(grind.mini)
        back == MiniDeserialize(bytes)
    IN  /\ SanityCheck(grind.mini) /\ grind.mini.version = 1 => back = Got(grind.mini, <<>>)
        /\ back.kind = "got" => MiniSerialize(back.v) = bytes

\* worker.rs: every work is still the job's mini-block, but for its nonces, and
\* is accepted if and only if the job's was; the height that chooses the proof
\* of work is the mini-block's. Its nonces give back the thread and the counter,
\* whatever the random bytes, so that works of different names are different
\* bytes; the works of one pass carry consecutive counters.
WorkIsTemplate ==
    \A way \in 1 .. Ways :
        LET work == grind.works[way]
            job == MiniDeserialize(MiniSerialize(grind.mini))
            back == MiniDeserialize(work)
        IN  /\ back.kind = job.kind
            /\ back.kind = "got" =>
                 /\ back = Got([job.v EXCEPT !.nonce = back.v.nonce], <<>>)
                 /\ WorkHeight(work) = job.v.height
                 /\ back.v.nonce[3] % 256 = grind.tid
                 /\ grind.passes > 0 =>
                      (back.v.nonce[2] % 256) * Power(256)[IntBytes - 1] + back.v.nonce[3] \div 256
                         = (grind.i + CounterMod - Ways + way) % CounterMod

=============================================================================
