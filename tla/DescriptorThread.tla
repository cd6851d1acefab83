-------------------------- MODULE DescriptorThread --------------------------
(***************************************************************************)
(* A miner thread that hashes one input after another: the thread-local    *)
(* SCRATCH of v114.rs and the sa buffer of its AstroBwtScratch live on     *)
(* from call to call, whichever path each call takes.                      *)
(***************************************************************************)
EXTENDS DescriptorPaths

CONSTANTS
    First,       \* the inputs of the first hashes
    FirstCalls,  \* how many these are
    Later        \* the inputs of the hash after them, the last of a behaviour

VARIABLES
    singletons,   \* DLUNA_STAGE5_COUNT1_SINGLETONS, read once per process
    scratch,      \* SCRATCH
    sa,           \* AstroBwtScratch::sa
    calls,        \* how many hashes so far
    last          \* the last call: its input, its path and what it returned

tvars == <<singletons, scratch, sa, calls, last>>

\* An input is [text, flags, tail]: the bytes, the stage-5 flags, and how many
\* zero bytes follow in the data buffer.
LogicalLen(in) == Len(in.text)

Data(in) == Table([i \in 0 .. LogicalLen(in) + in.tail - 1 |->
                     IF i < LogicalLen(in) THEN in.text[i + 1] ELSE 0])

Exposed(in) == Table([i \in 0 .. Smaller(LogicalLen(in) + in.tail, LogicalLen(in) + 3) - 1 |-> Data(in)[i]])

Idle == [path |-> "none", in |-> <<>>, ok |-> FALSE, fit |-> TRUE, out |-> <<>>]

ThreadInit ==
    /\ singletons \in BOOLEAN
    /\ scratch = EmptyScratch
    /\ sa = <<>>
    /\ calls = 0
    /\ last = Idle

Inputs == IF calls < FirstCalls THEN First ELSE Later

\* The call's result r is kept, and what it left in the scratch.
Keep(path, in, r, result) ==
    /\ scratch' = r.scratch
    /\ last' = [path |-> path, in |-> in, ok |-> r.ok, fit |-> r.fit, out |-> result]

Streams(in, r) == Keep("hash", in, r, r.out) /\ UNCHANGED sa

\* hash_compact_fused on the thread's scratch.
Hash(in) == Streams(in, HashFused(Exposed(in), LogicalLen(in), in.flags, singletons, scratch))

Materializes(in, room, r) ==
    /\ Keep("build", in, r, IF r.ok THEN SubSeq(r.out, 1, LogicalLen(in)) ELSE <<>>)
    /\ sa' = Write(room, 0, r.out)

BuildInto(in, room) ==
    Materializes(in, room, BuildFused(Exposed(in), LogicalLen(in), in.flags, room, scratch))

\* suffix_array_v114_into from the resize of sa on: sa keeps its high-water length.
Build(in) == BuildInto(in, Grow(sa, LogicalLen(in) + TailWords, 0))

ThreadNext ==
    /\ calls <= FirstCalls
    /\ calls' = calls + 1
    /\ \E in \in Inputs : Hash(in) \/ Build(in)
    /\ UNCHANGED singletons

ThreadSpec == ThreadInit /\ [][ThreadNext]_tvars

-----------------------------------------------------------------------------

\* The suffix at a comes before the one at b, the shorter first.
SuffixBefore(text, a, b) ==
    \E k \in 0 .. Len(text) :
      /\ \A i \in 1 .. k : a + i <= Len(text) /\ b + i <= Len(text) /\ text[a + i] = text[b + i]
      /\ b + k < Len(text)
      /\ a + k = Len(text) \/ text[a + k + 1] < text[b + k + 1]

IsSuffixArray(text, order) ==
    /\ Len(order) = Len(text)
    /\ {order[i] : i \in DOMAIN order} = 0 .. Len(text) - 1
    /\ \A i \in 1 .. Len(order) - 1 : SuffixBefore(text, order[i], order[i + 1])

\* The descriptor accepts exactly what it can represent, and what it then
\* returns, or streams into SHA-256, is the suffix array of the text: for every
\* text and every placement of the group flags, whatever the scratch was left
\* with by earlier hashes on either path (v114.rs: "Byte-identical to the
\* canonical suffix array on accepted inputs").
DescriptorExact ==
    last.path # "none" =>
      LET in == last.in
      IN  IF last.ok THEN IsSuffixArray(in.text, last.out)
          ELSE in.text = <<>> \/ Len(in.text) > ArenaCap \/ in.tail < 3
                 \/ Len(in.flags) <= Len(in.text) \div Group

\* The block copies of append_run and copy_materialized_run move CopyWords
\* positions whatever the run's length; they never leave the seven spare words
\* of the arena, the order, the gather buffer or the array.
CopiesFit == last.fit

=============================================================================
