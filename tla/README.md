# A TLA+ development of the Dirtybird Rust miner

The miner connects to a DERO daemon over TLS and a websocket, receives jobs,
searches nonces on many threads and sends back the works whose hash clears the
target. This directory holds TLA+ modules translated from its source, TLC runs
over small instances, and TLAPS proofs for every instance. Paths below are
relative to the repository root.

## The system

| part | source | state | operations |
|---|---|---|---|
| shared state | `src/worker.rs` `Shared` | job (RwLock), job counter, hash counter, five mirrored counters, exit, connected | atomic loads and stores |
| workers | `src/worker.rs` `mine_thread`, two grind loops | counter `i`, snapshot, pending hashes | snapshot, grind, verify, send |
| connection thread | `src/main.rs` `getwork` | the socket, the channel's receiver | dial, drain, submit, read, publish |
| status thread | `src/main.rs` `stats_loop` | ten-slot ring of samples | sample, gate, paint |
| command loop | `src/main.rs` `command_loop`, `src/term.rs` | stdin | quit, end of input, error |
| stats endpoint | `src/stats_api.rs` | published rate | serve one line |
| websocket client | `src/ws.rs` | byte buffer, fragment, close flag | handshake, parse, reassemble, reply |
| console | `src/term.rs` | the row the cursor rests on | log, restore |
| op loop | `astrobwt/src/lib.rs`, `ops_generated.rs`, `ops_avx2.rs`, `rc4.rs` | data buffer, markers, cipher, per scratch | prologue, turn, zero tail, choice of sort |
| suffix sorts | `astrobwt/src/sais32.rs`, `sais16.rs`, `v114.rs` | thread-local scratch of the descriptor sort | build, stream, materialize |
| buffers, hashes, targets | `lpbuf.rs`, `sha256_x2.rs`, `difficulty.rs` in `astrobwt/src/` | a buffer's block, length, capacity | grow, pad, compare |
| codecs | `block/src/` | none | varint, mini-block, block, transaction, both ways |
| cryptography | `cryptography/` | none | curve arithmetic, proofs; statements and proofs on the wire |

The threads are spawned by `main` and never joined. They meet in four places:

- **job and job_counter.** The connection thread stores a job under the lock and
  then increments the counter (Release). A worker loads the counter (Acquire)
  and then clones the job. The order on both sides is what keeps a worker from
  grinding an old job that it believes current.
- **the submit channel.** Unbounded; many workers send, the connection thread
  receives. It is drained at the start of a session.
- **counters.** Workers flush hashes in batches of 64; the connection thread
  stores five session counters one by one; the status thread reads all of them
  without a lock.
- **the terminal.** Log records and the status row are separate locked writes
  from several threads.

What is hard here: the interleavings of the two-step snapshot with the two-step
publication, outages at any point of a session, shares found during an outage or
during the drain, the counter's wrap in the two-way loop, hashes not flushed on
some way out of a loop, rows painted from a gate that has become stale, and
everything that must eventually happen (reconnecting, delivering jobs, sending
shares). Below the threads, the PoW keeps every buffer from hash to hash and
clears as little as it can: bytes of the op loop behind the text, the end of a
longer array, runs of an earlier text; vector kernels and two-lane hashes have
edges that scalar code has not; the codecs have fields that share bytes and
numbers at the limit of their width. `PROJECT.json` lists each hazard at its line.

## The modules

| module | models |
|---|---|
| `Shared` | `struct Shared`, the channel, `term::log`'s effect on the row |
| `Worker` | `mine_thread`, `grind_job_with_scratch` (Lanes = 1), `grind_job_x2_with_scratch` (Lanes = 2) |
| `GetWork` | `getwork` |
| `Command` | `command_loop`, `restore_on_exit`, the end of the process |
| `Miner` | the composition of the four, fairness, safety and liveness |
| `ShareFlow` | abstract: what the miner promises the daemon about shares |
| `History` | `Miner` with history variables, and the mapping to `ShareFlow` |
| `Stats` | `stats_loop`, `HashrateWindow`, `StatusFields::sample` |
| `Monitor` | `Stats` beside `GetWork` and `Command`: what an operator sees |
| `WsFrame` | `encode_frame`, `parse_frame`, on bytes |
| `FrameTrip` | one frame encoded, cut anywhere on its way, and parsed with bytes behind it |
| `WsClient` | `WsClient`: the handshake and `try_read_message`, against a daemon and a stream |
| `WsSession` | the session loop of `getwork` over `WsClient`, with time |
| `LpVec` | `LpVec` of `lpbuf.rs`: where a buffer lives, its length and capacity |
| `Pipeline` | `astrobwtv3_with_scratch`, `_x2`, `_stage_cycles` and `_full` on the scratches of one thread |
| `ByteOps` | the 256 ops of the op loop, scalar and AVX2, and RC4 |
| `Sais` | the induced sorts of `sais32.rs` and `sais16.rs`, prefix doubling of `suffixarray.rs` |
| `Descriptor` | `v114.rs`: keys, comparators, runs, radix sort, merges |
| `DescriptorPaths` | `v114.rs`: the streaming and the materializing build |
| `DescriptorThread` | the thread-local scratch over a sequence of builds |
| `Numbers` | powers and positional notation: what shifts, byte conversions and big integers compute |
| `Difficulty` | `difficulty.rs`: both target checks |
| `Sha256x2` | the two-lane SHA-256: blocks, padding, masks |
| `Varint` | `varint.rs`: groups of seven bits and the overflow of the last one |
| `TxCodec` | transactions, statements, proofs on the wire |
| `BlockCodec` | mini-blocks, blocks, the collection, the structural checks |
| `WorkBytes` | `stamp_job`, `put_counter`, `work_height` over the bytes of a mini-block while a worker grinds it |
| `ThreadProofs` | lemmas on the steps of the threads, shared by the proofs about `Miner`, `History` and `Monitor` |
| `NumberProofs` | lemmas on quotients, powers, digits and bytes |
| `MinerProofs` | theorems about `Miner` |
| `HistoryProofs` | theorems about `History`, and its refinement of `ShareFlow` |
| `MonitorProofs`, `PipelineProofs` | theorems about `Monitor`, `Pipeline` |
| `WsProofs` | theorems about `WsClient` and `FrameTrip` |
| `AlgorithmProofs` | theorems about `Difficulty`, `BlockCodec`, `WorkBytes` and `Varint` |
| `MCMiner`, `MCHistory`, `MCMonitor`, `MCWsSession` | constant values for TLC |
| `MCAlgorithms` | constant values, inputs and reference definitions for the PoW |
| `MCWire` | the same for frames, codecs and the target checks |

Each thread is a program counter and one action per step that another thread
can observe. `pc[w]`, `gpc`, `cpc` and `spc` are explained at the head of their
modules. Steps that touch only a thread's own data are merged with a neighbour;
the two loads of the snapshot, the store and the increment of a push, the five
stores and the five loads of the status counters stay apart.

Data is abstract. A job is a model value in one of three classes (`Post`, hashed
with AstroBWTv3; `Pre`, hashed with POW16; `Malformed`, refused by one of the
three gates) together with the number of its push. A work is job, tid and nonce.
`Winners` is the set of works whose canonical PoW clears the target. The fast
path may answer anything for a `Post` job, so what is shown holds for a faulty
suffix array too. The network is the environment: a dial, a write or a read ends
in any way the code tells apart. The counter `i` is a wrapping u32 of width
`NonceMod`; the flushed total is kept modulo the same number, which is the
residue that the u32 counters determine.

In the websocket modules a payload is a short sequence of real bytes and the
header is the real one, so that every cut of the stream is a cut of the code's
input. The response head is a number of opaque bytes; whether it is a 101 with
the right key is a choice of the environment. The daemon interleaves control
frames with fragments as RFC 6455 allows and may end with an illegal frame. One
that starts a message inside another is left out. `GetWork` uses none of this:
there a read ends in any way `try_read_message` can end.

In the PoW and codec modules the numbers are real and the sizes are parameters:
a chunk has 256 bytes in the code and four in the runs, a word of a comparator
eight and two, a hash 32 and two. `Pipeline` abstracts the bytes of a chunk to
"perhaps not zero" and lets every turn of the loop choose freely whether it
re-keys and whether it ends; the suffix array it obtains is named by the hash and
the scratch it belongs to, so that a stale word shows. `Descriptor` and
`DescriptorPaths` work on real bytes, and keep between two builds what the code's
thread-local scratch keeps: `order`, which the streaming path refills and the
materializing one lengthens, the arena, group and merge positions, both run
buffers and the radix counts. The buffer of keys and the two lists of run
lengths are filled before every use and left out. `Pipeline` takes from them that
the descriptor accepts what it can represent and is exact, whatever groups are
flagged, when three zero bytes follow the text, which is what `DescriptorExact`
checks. The flags are hints in the code too: decoded from the packed markers, the
first one comes a group late when turn 1 does not re-key, and a long run
overflows a marker's count. `Pipeline` keeps the markers as written and says
nothing of what they decode to. `ByteOps` keeps each op
as the list of its statements; the AVX2 form runs them on 32 lanes and blends.
The rounds of SHA-256, xxhash, curve points and the CBOR of arguments are
constant operators. The build modelled is the one with the `v114` feature;
`libsais` and the C++ backend are not. A read in the codecs returns a value and
the rest, an error or a panic: for a ring of no members, and for a count of tips,
mini-blocks or transactions above `AllocLimit`, for which the vector that the
code reserves cannot be had. A writer returns bytes or a panic: a missing proof,
a payload of the wrong length, a ring that is no power of two, too few
commitments. A statement is written from its public keys when it is fresh and
from its pointers when it was read. No property is about the panics: the inputs of
the runs are transactions and blocks that can be written, and prefixes of them. The points and scalars
of a proof are known by their order alone, which is the same in the writer and
in the reader.

Definitions marked *Mutant* are faulty variants of the definition that follows.
No specification uses them: each shows that some property notices that fault.

## The runs

| run | instance | checks |
|---|---|---|
| `miner` | 2 workers, one-way loop, 1 good and 1 malformed template, 2 pushes, batch 2, nonces mod 4 | `TypeOK`, `SnapshotFresh`, `HashesAccounted` |
| `history` | 1 worker, two-way loop, all kinds of template, 2 pushes, channel of 2, batch 4, nonces mod 12 | `SessionClean`, `SharesCanonical`, `StaleBound`, `HashesAccounted`, `KeepsSharePromise`, `NoWorkRepeated` |
| `liveness` | 1 worker, fair threads, reachable daemon | `JobReachesWorkers`, `Reconnects`, `SharesLeave` |
| `monitor` | ring of 2 slots, 3 ticks, 1 push, 2 flushed hashes | `MonitorTypeOK`, `RateExact`, `StaleRowErased` |
| `algorithms` | one algorithm per behaviour, see below | 9 properties, see below |
| `wire` | one format per behaviour, see below | 8 properties, see below |
| `ws_session` | 3 frames of 0 or 1 byte, a 2-byte head, reads of 1 to 3 bytes, a timeout of 1 tick | `WsTypeOK`, `StreamOrder`, `NothingHeldBack`, `EverythingArrives`, `ShareGoesOut` |
| `submit_latency` | as `ws_session`, waiting time counted | `SubmitLatency` is violated |
| `outage_hashing` | as `liveness` | `NoHashWhileDisconnected` is violated |
| `torn_status` | as `monitor` | `FieldsFromOneJob` is violated |
| `clean_exit` | as `monitor` | `CleanExit` is violated |
| `scdata` | as `wire`, with a contract call whose arguments are not in canonical order | `ScdataVerbatim` is violated |

- `SnapshotFresh`: a worker whose copy of the counter is current holds the
  announced push or the one about to be announced, never an older one.
- `HashesAccounted`: flushed plus pending hashes equal the nonces tried. Batch
  boundaries, job changes and exits at any point are covered.
- `SharesCanonical`: what is in the channel clears the target canonically and
  names the job whose work it is.
- `SessionClean`, `KeepsSharePromise`: nothing found before a session is sent in
  it; shares go out in order, for offered jobs, none twice before a counter has
  wrapped, though some may be lost. The pool of `ShareFlow` is the channel
  without the backlog of earlier sessions. What workers send while the drain runs
  belongs to the backlog: a drain that stops at the length it found is noticed.
- `StaleBound`, `NoWorkRepeated`: at most one batch on a superseded job; no work
  hashed twice before the worker has tried all its nonces. They are counted apart
  from `i`, so that a counter set back at a new job is noticed.
- `SharesLeave`: a share leaves the channel of a live session, if every read
  comes back and the workers stop finding more.
- `RateExact`: at every tick the published rate is exactly the window's.
- `StaleRowErased`: a row painted after a disconnect is erased by a record, or
  the connection comes back.
- `StreamOrder`, `NothingHeldBack`, `EverythingArrives`: `try_read_message`
  returns the daemon's messages and answers its pings in wire order, each once,
  and holds nothing back, however the bytes are cut and wherever reads time out.
- `ShareGoesOut`: a share found during a read is written once the daemon has
  nothing more to send.

Runs `algorithms` and `wire` have one kind of behaviour per algorithm or format.
For a pure function (`op`, `text`, `lanes`, `tx`) a state is one input and a step
makes the next; the other kinds are machines.

| kind of `algorithms` | inputs | property |
|---|---|---|
| `op` | every op, five windows of one block, two of them at its end, one of 32 bytes | `VectorOpsAgree` |
| `text` | every text of up to 8 letters of an alphabet of 3, and three longer ones that recurse | `SuffixArraysExact` |
| `lanes` | every pair of lengths from 0 to 25, blocks of 8 | `LanesPadded` |
| `thread` | three builds on one scratch, each by either path; texts of up to four groups of four, flags at any of three groups | `DescriptorExact`, `CopiesFit` |
| `pipeline` | two hashes of any entry point on one thread; two or three turns of four bytes, every re-key pattern and length | `PipelineTypeOK`, `TailIsZero`, `OutputCanonical`, `BuffersStay` |

| kind of `wire` | inputs | property |
|---|---|---|
| `pow` | every hash of two digits of base 4, difficulties 1 to 18, both heights | `TargetsAgree` |
| `frame` | lengths around 126 and 65536, masked or not, arriving in pieces | `RoundTrip` |
| `varint` | every sequence of up to 4 of 7 telling bytes, alone and behind a value at the edge of its groups | `VarintsExact` |
| `mini` | versions, past counts, flags and heights at their edges, ground two ways for two passes | `MiniblocksExact`, `WorkIsTemplate` |
| `tx` | one transaction of each type, statements fresh and read, cut at every byte | `TransactionsExact` |
| `block` | blocks of up to 2 tips, 3 mini-blocks and 2 transactions on three heights | `BlocksExact`, `NoWorkCountedTwice` |

- `VectorOpsAgree`: a vector kernel leaves block, hash and cipher as the scalar op
  does.
- `SuffixArraysExact`, `DescriptorExact`: each sort returns *the* suffix array,
  by a definition that compares suffixes letter by letter; the descriptor does so
  whatever earlier builds left in its scratch, and refuses only what it cannot
  represent. `CopiesFit`: its block copies stay in their buffers.
- `TailIsZero`, `OutputCanonical`: the bytes the descriptor reads behind the text
  are zero, and each hash is of its own suffix array, whole and nothing else.
- `BuffersStay`: no buffer outgrows its first block of large pages.
- `TargetsAgree`, `LanesPadded`: bytes and big integers accept the same hashes;
  each lane compresses its own padded message and no more.
- The codec properties: what can be written is read back and written again as the
  same bytes, a strict prefix is refused, the last mini-block is bound to all of
  the block but itself, and no mini-block counts twice from the soft fork on.
  `TransactionsExact` is about arguments in canonical order; what happens to others
  is the violation `scdata`.
- `WorkIsTemplate`: while a worker stamps and counts in the bytes of a work, the
  work stays the job's mini-block but for its nonces, its height is the job's, and
  the nonces give back the thread and the counter that was tried.

The five violations are places where a comment says more than the code does;
`PROJECT.json` quotes them. None affects which shares are sent: workers hash
through an outage, one status sample can mix two pushes, a row may be painted
just after the terminal was restored, a share may wait for more than one read
timeout while pings or parts of a frame arrive, and a contract call read with its
arguments in another order is kept and written in the canonical one.

**Bounds.** `MaxPushes` (two pushes give every race of a push with a snapshot
and with the previous push), `MaxQueue` (no new share is found while the channel
is that full; two shares show order), `MaxTicks` (more ticks than slots, so the
ring wraps), `MaxHashes`. `NonceMod` is small enough for the counter to wrap
within the two pushes; in `history` it is three batches, so that a job change, a
repeated push and a malformed job each fall before the wrap.
Workers are symmetric in the `miner` run. Three frames give a fragmented message
with a control frame inside it; every one of the legal cuts of up to `Chunk`
bytes is tried. `MaxPayload` is 65536 in `wire`, so that all three forms of
the length and the limit occur. Two hashes in a row are enough for a stale buffer,
since a buffer holds what its last user left; `thread` makes three builds, so that
a streaming one falls between two materializing ones. Its first `FirstCalls`
builds take two texts, one longer than most that follow, and the last takes
every text. `Radix` is 2, the bytes of those texts being bits: the three passes of
the radix sort then have two slots each. A turn more than `MinTries` gives the
loop two ways to end, four bytes of a chunk a tail that is inside the data and
one that is beyond it, and a `MarkerRadix` of 4 a count that overflows. Three
letters and length 8 reach names that repeat, and the longer texts a second
level of recursion. The counters of `mini` start so that the second pass
carries into the next byte, or wraps. Only the websocket runs, `algorithms` and
`wire` turn off the deadlock check: there the connection ends
when it is dropped, and the inputs end.

**Fairness.** Every worker and the connection thread are weakly fair: the
operating system schedules them, and their sleeps, dials, writes and reads carry
timeouts. Restoring the terminal and leaving the process after a quit are weakly
fair; typing a command is not. `Reconnects` also assumes the daemon does not
refuse every dial for ever (strong fairness of `DialOk`). Nothing makes a read
of the session come back, since `try_read_message` goes on while pings and parts of
messages arrive, so the connection thread is fair outside its reads only.
`SharesLeave` is conditional on reads that return (`ReadsReturn`), which is up to
the daemon, and on the workers ceasing to find shares, because the code empties the
channel before it reads. `JobReachesWorkers` and `Reconnects` start from a push
that was read, and from an outage. `WsSession` has the read itself: the thread and
the write of a share are weakly fair, reading what was sent is strongly fair (TCP
delivers, though reads may time out in between), and time passes although signals
may interrupt a read before it has blocked. There the daemon's frames are bounded:
without that bound a share can wait for ever; `submit_latency` shows how.

## The proofs

All are for every value of the constants that the named assumptions allow. These
are, for the threads: a finite set of at least one worker, disjoint template
classes, `Lanes` 1 or 2, a `Batch` that the lanes divide, more nonces than lanes,
and for `Monitor` fewer flushed hashes than the counter can hold. For `Pipeline`:
buffers with room for the longest hash and its tail, and at least three zero bytes
of tail. For `WsClient`: payloads are bytes,
shorter than 2^31, and the limit on a frame is below that; for `FrameTrip` also
that xor of bytes undoes itself and a mask has four bytes. For `Difficulty`: a
radix of at least 2 and hashes of at least one digit. For `WorkBytes`: templates
whose fields have the widths of their types, and what `|` and `&` do to bytes that
share no bit. For `Varint`: a word of `(LastGroup + 1) * 128^(MaxGroups - 1)`
values (a u64 has ten groups, the last of one bit).

The threads:

- `TypeCorrect`: `TypeOK` is inductive; one lemma per thread.
- `SnapshotIsFresh`: `SnapshotFresh` is not inductive. `FreshInv` adds that the
  stored job is one ahead of the counter exactly between store and increment,
  that no local copy is ahead of the counter, and that a grinding worker's
  snapshot is at least as new as its local copy.
- `SharesAreCanonical`: `ShareInv` adds that a lane waiting to be verified under
  POW16, which is not hashed again, already is a winner; `LaneNonce` shows that
  the nonce recomputed after the two increments is the one that was hashed.
- `EveryHashAccounted`: `AccountInv` states the sums without the modulus, up to a
  multiple of `NonceMod`. `SumChange` says what a sum over the workers becomes when
  one of them changes. The sum is a recursive function on the subsets of a finite
  set, and what it computes is shown by taking the smallest subset at which it is
  wrong, since induction itself cannot be used.
- `WorkIsNeverRepeated`: `MadeInv` says that the counter of an unlapped worker is
  the number of nonces it tried, `RepeatInv` that every nonce it hashed is at most
  that.
- `StaleWorkIsBounded`: `StaleInv` ties the stale hashes to the passes of the
  current batch.
- `SessionsStartClean`: `SessionInv` says that the backlog is a prefix of the
  channel and that the drain ends only when it is gone.
- `SharePromiseKept`: the refinement, step by step. `OfferInv` says that whatever
  is ground was offered; `OrderInv` that the shares of one unlapped worker and
  job, sent and then in the channel, have ascending nonces, all below those still to
  come. With `ShareInv` and `SessionInv`, each step of a worker or of the
  connection thread is a step of `ShareFlow` or changes nothing it sees.
- `MonitorTypeCorrect`, `RateIsExact`: `RingInv` says which tick each slot of the
  ring belongs to, by its distance behind `next`. The rate is then a difference
  of two samples of the counter, and these never decrease.

The PoW:

- `PipelineTypeCorrect`, `TailAlwaysZero`, `OutputAlwaysCanonical`,
  `BuffersNeverMove` follow from `PipelineInv`: the loop has written
  `tries * Chunk` bytes of the scratch it fills; a scratch that is complete lies
  in its buffer with zeros behind it, also while the second one of a two-way hash
  is filled; lengths and capacities stay below what the first sizing gave.

The websocket client:

- `WsTypeCorrect`, `StreamInOrder`, `NothingIsHeldBack`. `ParseWire` is the heart:
  if what was read, with what is still on the wire, begins with a frame, and
  `parse_frame` finds a frame in what was read, it is that one, whole, and it was
  all there. The three forms of the length, the limit and the reserved bits are all
  in it. `WsInv` then says that the bytes between client and daemon *explain* the
  difference between what was returned and what was sent. Since that is a
  statement about all the frames on the way, and induction over a sequence is not
  available, it is put as the existence of a set of stages (rest of the bytes,
  message in assembly, messages returned), closed under consuming the next frame,
  which holds the client's stage now. The daemon's step lengthens every stage
  and adds a last one; the client's step moves to another stage of the same set.
  `WsSession` is built from the client's steps, so all three hold of a session.
- `FramesRoundTrip`: a frame that arrives whole is parsed as it was encoded, mask
  undone and the bytes behind it untouched; before that, the parser waits; one
  above the limit is refused as soon as its length is known. The
  unmasked case is `ParseWire`; the masked one adds that xor undoes itself.

Numbers and bytes. `NumberProofs` says what `Power` and `Leading` compute. Both
are recursive functions; a lemma about all their arguments is proved on the
smallest number at which it fails, since induction cannot be used.

- `TargetsAlwaysAgree`: for every radix, width, hash and difficulty, the comparison
  of bytes accepts what the comparison of big integers accepts. The bytes of the
  target are the digits of the quotient, the first digits that differ decide, and
  a target too large for the width accepts every hash.
- `WorkNeverCountedTwice`: from the soft fork on, a block that `verify_miniblocks`
  accepts holds no mini-block twice, and one that the hash check accepts too has
  its single final mini-block in last place.
- `MiniblocksAlwaysExact`: the fields of a mini-block written into its bytes are
  read back, and bytes that are accepted are those that writing them gives
  (`MiniRead`, `MiniRewritten`), although version, flags and past count share one
  byte.
- `WorksAreTemplates`: `WorkInv` says that a work agrees with the serialized
  template outside the nonces, ends in its thread and has the counter before it.
  `DecodedSame` shows that such bytes decode to the template but for the nonces,
  `NonceEnds` that thread and counter can be read off.
- `VarintsAlwaysExact`: `ReadIs` says what the reader's loop finds in any bytes,
  `GroupedFits` which groups fit a word, `VarintRead` that what was written is
  read whatever follows it.

TLC has checked the inductive invariants on small instances as well, but for `WsInv`
and `AccountInv`, which quantify over all sets of stages and over the integers.

Only model-checked: the liveness properties and `StaleRowErased`, since fairness is
out of the prover's reach; `VectorOpsAgree`, `SuffixArraysExact`, `DescriptorExact`, `CopiesFit`, `TransactionsExact` and `BlocksExact`, whose modules
use folds or recursive operators over data of any length; and `LanesPadded`, whose
reference definition is a sequence of blocks of any length.

## Not modelled

- The stats listener and the argument checks of `main`: see the plan.
- Records written only with `--debug`, colours, widths and the layout ladder:
  formatting. Text printed by commands and echoed by the terminal does not count
  as leaving the status row.
- The prologue's hashes (SHA-256, Salsa20, FNV, xxhash, SipHash), the rounds of
  SHA-256, `libsais` and the C++ backend: fixed functions of bytes, checked by
  vectors, without control of their own.
- `arguments.rs` (CBOR), `address.rs`, `bech32.rs`: recursive text and value
  codecs over large alphabets that the mining loop does not call.
- Curves, fields and proofs under `cryptography/`, apart from their byte forms:
  pure functions over 254-bit numbers, out of a model checker's reach.
- TLS, affinity, benchmarks, the sustained harness, installer and farm scripts:
  configuration, measurement and shell.
- Panics of threads (a poisoned lock, a failed spawn) and a process killed from outside:
  nothing is persisted, so there is no recovery to model.

## Plan

1. Stats endpoint and startup: what a poll can observe, the thread cap against
   the one-byte tid.
2. An abstract specification of `WsClient` as a pair of queues, which the reads of
   `GetWork` use as well.
3. `LanesPadded` for every length, and the byte form of a block from that of its
   mini-blocks.
