------------------------------- MODULE Worker -------------------------------
(***************************************************************************)
(* A worker thread of src/worker.rs: mine_thread and the two grind loops   *)
(* it runs, grind_job_with_scratch (Lanes = 1) and                         *)
(* grind_job_x2_with_scratch (Lanes = 2).                                  *)
(*                                                                         *)
(* pc[w]      the next step of worker w                                    *)
(*   start    pin, random12, sleep 5 s          check   while !exit        *)
(*   load     local_job_counter = job_counter   snap    clone the job      *)
(*   prep     decode, stamp, target, version    head    the inner while    *)
(*   hash     one pass of the for loop          verify  the passing lanes  *)
(*   sleep    the 1 s pause after a GrindError  done    returned           *)
(***************************************************************************)
EXTENDS Shared

CONSTANTS
    Lanes,      \* nonces hashed per pass: 1, or 2 with the 2-way pipeline
    Batch,      \* HASH_COUNTER_FLUSH_INTERVAL, 64 in the code
    MaxQueue    \* bound: no new share is found while the channel holds this many

\* main starts between 1 and 255 workers.
ASSUME WorkerAssumption ==
    /\ Workers # {} /\ IsFiniteSet(Workers)
    /\ Lanes \in {1, 2}
    /\ Batch \in Nat \ {0}
    /\ Batch % Lanes = 0
    /\ Lanes < NonceMod
    /\ MaxQueue \in Nat

VARIABLES
    pc,       \* control state of each worker
    i,        \* the per-thread counter; persists across jobs
    local,    \* local_job_counter
    snap,     \* myjob, with the sequence number of its push
    k,        \* passes of the current for loop
    pending,  \* pending_hashes
    cand      \* lanes of this pass whose fast PoW cleared the target and that
              \* are not verified yet

workerVars == <<pc, i, local, snap, k, pending, cand>>

WorkerPC == {"start", "check", "load", "snap", "prep", "head", "hash",
             "verify", "sleep", "done"}

WorkerInit ==
    /\ pc = [w \in Workers |-> "start"]
    /\ i = [w \in Workers |-> 0]
    /\ local = [w \in Workers |-> 0]
    /\ snap = [w \in Workers |-> [tmpl |-> Default, seq |-> 0]]
    /\ k = [w \in Workers |-> 0]
    /\ pending = [w \in Workers |-> 0]
    /\ cand = [w \in Workers |-> {}]

WorkerTypeOK ==
    /\ pc \in [Workers -> WorkerPC]
    /\ i \in [Workers -> Nonce]
    /\ local \in [Workers -> Nat]
    /\ snap \in [Workers -> Push]
    /\ k \in [Workers -> Nat]
    /\ pending \in [Workers -> Nat]
    /\ cand \in [Workers -> SUBSET (1 .. Lanes)]

Goto(w, label) == pc' = [pc EXCEPT ![w] = label]

-----------------------------------------------------------------------------
(* mine_thread *)

Start(w) ==
    /\ pc[w] = "start"
    /\ Goto(w, "check")
    /\ UNCHANGED <<i, local, snap, k, pending, cand, sharedVars>>

CheckExit(w) ==
    /\ pc[w] = "check"
    /\ Goto(w, IF exit THEN "done" ELSE "load")
    /\ UNCHANGED <<i, local, snap, k, pending, cand, sharedVars>>

\* Mutant: the job is cloned before the counter is loaded.
SnapshotJobFirst(w) ==
    /\ \/ /\ pc[w] = "load"
          /\ snap' = [snap EXCEPT ![w] = job]
          /\ Goto(w, "snap")
          /\ UNCHANGED local
       \/ /\ pc[w] = "snap"
          /\ local' = [local EXCEPT ![w] = job_counter]
          /\ Goto(w, "prep")
          /\ UNCHANGED snap
    /\ UNCHANGED <<i, k, pending, cand, sharedVars>>

\* The counter is loaded first and the job cloned second: two loads, so a push
\* may land between them.
Snapshot(w) ==
    /\ \/ /\ pc[w] = "load"
          /\ local' = [local EXCEPT ![w] = job_counter]
          /\ Goto(w, "snap")
          /\ UNCHANGED snap
       \/ /\ pc[w] = "snap"
          /\ snap' = [snap EXCEPT ![w] = job]
          /\ Goto(w, "prep")
          /\ UNCHANGED local
    /\ UNCHANGED <<i, k, pending, cand, sharedVars>>

\* Mutant: the counter starts again with every job.
PrepareResets(w) ==
    /\ pc[w] = "prep"
    /\ Goto(w, IF snap[w].tmpl \in Malformed THEN "sleep" ELSE "head")
    /\ i' = [i EXCEPT ![w] = 0]
    /\ UNCHANGED <<local, snap, k, pending, cand, sharedVars>>

\* The prologue of both grind functions: the blob, difficulty and version gates,
\* then a fresh pending_hashes.
Prepare(w) ==
    /\ pc[w] = "prep"
    /\ Goto(w, IF snap[w].tmpl \in Malformed THEN "sleep" ELSE "head")
    /\ UNCHANGED <<i, local, snap, k, pending, cand, sharedVars>>

\* The Err arms: an unknown version is logged, the others are not; 1 s pause.
Sleep(w) ==
    /\ pc[w] = "sleep"
    /\ Goto(w, "check")
    /\ LogRecord \/ UNCHANGED row
    /\ UNCHANGED <<i, local, snap, k, pending, cand, jobVars, counter, mirror,
                   exit, connected, channelVars, alive>>

-----------------------------------------------------------------------------
(* The grind loop *)

\* Mutant: the inner while watches exit only.
KeepGrindingStale(w) == ~exit

\* The condition of the inner while.  exit only ever becomes TRUE and is read
\* after job_counter, so reading both in one step loses no behaviour.
KeepGrinding(w) == local[w] = job_counter /\ ~exit

Enter(w) ==
    /\ pc[w] = "head"
    /\ KeepGrinding(w)
    /\ Goto(w, "hash")
    /\ k' = [k EXCEPT ![w] = 0]
    /\ UNCHANGED <<i, local, snap, pending, cand, sharedVars>>

\* Mutant: the hashes pending at the end of a job are dropped.
LeaveUnflushed(w) ==
    /\ pc[w] = "head"
    /\ ~KeepGrinding(w)
    /\ pending' = [pending EXCEPT ![w] = 0]
    /\ Goto(w, "check")
    /\ UNCHANGED <<i, local, snap, k, cand, sharedVars>>

\* Leaving the while flushes what record_hash has not.
Leave(w) ==
    /\ pc[w] = "head"
    /\ ~KeepGrinding(w)
    /\ counter' = (counter + pending[w]) % NonceMod
    /\ pending' = [pending EXCEPT ![w] = 0]
    /\ Goto(w, "check")
    /\ UNCHANGED <<i, local, snap, k, cand, jobVars, mirror, exit, connected,
                   channelVars, row, alive>>

\* A worker's buffer with counter n: stamp_job's tid and put_counter's nonce.
WorkAt(w, n) == [job |-> snap[w].tmpl, tid |-> w, nonce |-> n]

\* Mutant: the counter does not wrap.
UnboundedAdd(x, d) == x + d

\* u32::wrapping_add for a step smaller than the modulus, and its inverse.
WrappingAdd(x, d) == IF x + d < NonceMod THEN x + d ELSE x + d - NonceMod
WrappingSub(x, d) == IF d <= x THEN x - d ELSE x + NonceMod - d

\* The lanes whose fast PoW clears the target; lane l carries counter i + l.
\* Above hf2_height the descriptor suffix array computes it, and a defect
\* there, or a hardware glitch, may give either answer; POW16 has one
\* implementation, which is the canonical one.
FastPass(w) ==
    IF snap[w].tmpl \in Post
    THEN SUBSET (1 .. Lanes)
    ELSE {{l \in 1 .. Lanes : WorkAt(w, WrappingAdd(i[w], l)) \in Winners}}

\* 0..HASH_COUNTER_FLUSH_INTERVAL, halved in the x2 loop.
Passes == Batch \div Lanes

\* Where a pass ends: the for loop goes round, or back to the while.
NextPass(passes) == IF passes < Passes THEN "hash" ELSE "head"

\* The counter after a pass: one wrapping_add per lane.
Advance(n) == WrappingAdd(n, Lanes)

\* Mutant: the two-way loop records one hash for its two nonces.
RecordOnce(w) == pending[w] + 1

\* record_hash, once per lane, before its flush.
Recorded(w) == pending[w] + Lanes

\* One pass of the for loop up to the target check: Lanes nonces are hashed and
\* record_hash is called once for each.  The x2 loop reads exit on every pass,
\* the one-way loop only after a passing hash.
Hash(w) ==
    /\ pc[w] = "hash"
    /\ \E pass \in FastPass(w) :
        /\ pass = {} \/ Len(queue) < MaxQueue
        /\ cand' = [cand EXCEPT ![w] = pass]
        /\ Goto(w, IF pass = {} /\ Lanes = 1 THEN NextPass(k[w] + 1) ELSE "verify")
    /\ i' = [i EXCEPT ![w] = Advance(@)]
    /\ k' = [k EXCEPT ![w] = @ + 1]
    /\ LET flush == IF Recorded(w) >= Batch THEN Batch ELSE 0
       IN  /\ counter' = (counter + flush) % NonceMod
           /\ pending' = [pending EXCEPT ![w] = Recorded(w) - flush]
    /\ UNCHANGED <<local, snap, jobVars, mirror, exit, connected, channelVars,
                   row, alive>>

\* The work of lane l once the pass has advanced i.
LaneWork(w, l) == WorkAt(w, WrappingSub(i[w], Lanes - l))

\* Mutant: the fast path is trusted.
CanonicalTrusted(w, work) == TRUE

\* verify-on-submit: the passing lane is hashed again by the canonical path
\* (above hf2_height) and handed to on_share only if that clears the target too.
CanonicalOk(w, work) == snap[w].tmpl \in Post => work \in Winners

\* Mutant: a share is labelled with the job current when it is found.
ShareForLatest(w, l) == [jobid |-> job.tmpl, work |-> LaneWork(w, l)]

\* on_share: the jobid cloned with the snapshot and the mutated work.
ShareFor(w, l) == [jobid |-> snap[w].tmpl, work |-> LaneWork(w, l)]

\* The passing lanes in order, a then b.
Verify(w) ==
    /\ pc[w] = "verify"
    /\ \E l \in cand[w] :
        /\ \A m \in cand[w] : l <= m
        /\ IF CanonicalOk(w, LaneWork(w, l))
           THEN Send(ShareFor(w, l))
           ELSE UNCHANGED queue
        /\ cand' = [cand EXCEPT ![w] = @ \ {l}]
    /\ UNCHANGED <<pc, i, local, snap, k, pending, jobVars, counter, mirror,
                   exit, connected, rx_open, row, alive>>

\* The exit check that ends a pass: break, or go round.
EndPass(w) ==
    /\ pc[w] = "verify"
    /\ cand[w] = {}
    /\ Goto(w, IF exit THEN "head" ELSE NextPass(k[w]))
    /\ UNCHANGED <<i, local, snap, k, pending, cand, sharedVars>>

WorkerStep(w) ==
    \/ Start(w) \/ CheckExit(w) \/ Snapshot(w) \/ Prepare(w) \/ Sleep(w)
    \/ Enter(w) \/ Leave(w) \/ Hash(w) \/ Verify(w) \/ EndPass(w)

=============================================================================
