----------------------------- MODULE MinerProofs -----------------------------
(***************************************************************************)
(* Theorems about the miner, for any set of workers, any jobs, any batch   *)
(* size and any number of pushes; the accounting of hashes for any finite  *)
(* set of workers.  The sum over the workers is a recursive function on    *)
(* the subsets of a finite set; what it computes is shown by taking a      *)
(* smallest counterexample.                                                *)
(***************************************************************************)
EXTENDS Miner, ThreadProofs, NumberProofs, FiniteSetTheorems

-----------------------------------------------------------------------------
(* Arithmetic of the wrapping counters *)

\* The wrapping u32 arithmetic of the counter stays in range.
LEMMA WrapTyped ==
    ASSUME NEW x \in Nonce, NEW d \in Nat, d < NonceMod
    PROVE  WrappingAdd(x, d) \in Nonce /\ WrappingSub(x, d) \in Nonce
    BY SharedAssumption DEF Nonce, WrappingAdd, WrappingSub

\* The flushed total stays in range.
LEMMA ModTyped ==
    ASSUME NEW x \in Nat
    PROVE  x % NonceMod \in Nonce
    BY SharedAssumption DEF Nonce

\* The distance from a lane's nonce to the advanced counter is a legal step.
LEMMA LaneTyped ==
    ASSUME NEW l \in 1 .. Lanes
    PROVE  /\ l \in Nat /\ l < NonceMod
           /\ Lanes - l \in Nat /\ Lanes - l < NonceMod
    BY SharedAssumption, WorkerAssumption

-----------------------------------------------------------------------------
(* Type correctness *)

\* A step that leaves the workers' state alone keeps it typed.
LEMMA WorkerSame ==
    ASSUME WorkerTypeOK, UNCHANGED workerVars
    PROVE  WorkerTypeOK'
    BY DEF WorkerTypeOK, workerVars

\* A step that only moves a worker's control keeps the worker typed.
LEMMA GotoTyped ==
    ASSUME WorkerTypeOK, NEW w \in Workers, NEW label \in WorkerPC, Goto(w, label),
           UNCHANGED <<i, local, snap, k, pending, cand>>
    PROVE  WorkerTypeOK'
    BY DEF WorkerTypeOK, Goto

\* Every step of mine_thread and of the grind loops keeps the types.
LEMMA WorkerTypes ==
    ASSUME SharedTypeOK, WorkerTypeOK, NEW w \in Workers, WorkerStep(w)
    PROVE  SharedTypeOK' /\ WorkerTypeOK'
    <1>1. CASE Start(w) \/ CheckExit(w) \/ Prepare(w) \/ EndPass(w)
        <2>1. PICK label \in WorkerPC : Goto(w, label)
            <3>1. CASE Start(w)
                BY <3>1 DEF Start, WorkerPC
            <3>2. CASE CheckExit(w)
                BY <3>2, Zenon DEF CheckExit, WorkerPC
            <3>3. CASE Prepare(w)
                BY <3>3, Zenon DEF Prepare, WorkerPC
            <3>4. CASE EndPass(w)
                BY <3>4, Zenon DEF EndPass, NextPass, WorkerPC
            <3>. QED  BY <1>1, <3>1, <3>2, <3>3, <3>4
        <2>2. UNCHANGED <<i, local, snap, k, pending, cand, sharedVars>>
            BY <1>1, Zenon DEF Start, CheckExit, Prepare, EndPass
        <2>. QED  BY <2>1, <2>2, GotoTyped, SharedSame
    <1>2. CASE Snapshot(w)
        <2>1. UNCHANGED sharedVars
            BY <1>2 DEF Snapshot
        <2>2. WorkerTypeOK'
            <3>0. UNCHANGED <<i, k, pending, cand>>
                BY <1>2, Zenon DEF Snapshot
            <3>1. CASE local' = [local EXCEPT ![w] = job_counter] /\ Goto(w, "snap") /\ UNCHANGED snap
                <4>1. pc' \in [Workers -> WorkerPC]
                    BY <3>1 DEF Goto, WorkerTypeOK, WorkerPC
                <4>2. local' \in [Workers -> Nat]
                    BY <3>1 DEF WorkerTypeOK, SharedTypeOK
                <4>. QED  BY <3>0, <3>1, <4>1, <4>2, Zenon DEF WorkerTypeOK
            <3>2. CASE snap' = [snap EXCEPT ![w] = job] /\ Goto(w, "prep") /\ UNCHANGED local
                <4>1. pc' \in [Workers -> WorkerPC]
                    BY <3>2 DEF Goto, WorkerTypeOK, WorkerPC
                <4>2. snap' \in [Workers -> Push]
                    BY <3>2 DEF WorkerTypeOK, SharedTypeOK
                <4>. QED  BY <3>0, <3>2, <4>1, <4>2, Zenon DEF WorkerTypeOK
            <3>. QED  BY <1>2, <3>1, <3>2, Zenon DEF Snapshot
        <2>. QED  BY <2>1, <2>2, SharedSame
    <1>3. CASE Sleep(w)
        <2>1. WorkerTypeOK'
            BY <1>3, GotoTyped DEF Sleep, WorkerPC
        <2>2. SharedTypeOK'
            BY <1>3 DEF Sleep, LogRecord, SharedTypeOK, jobVars, channelVars
        <2>. QED  BY <2>1, <2>2
    <1>4. CASE Enter(w)
        <2>1. UNCHANGED sharedVars
            BY <1>4 DEF Enter
        <2>2. WorkerTypeOK'
            <3>1. /\ Goto(w, "hash")
                  /\ k' = [k EXCEPT ![w] = 0]
                  /\ UNCHANGED <<i, local, snap, pending, cand>>
                BY <1>4 DEF Enter
            <3>. QED  BY <3>1 DEF WorkerTypeOK, Goto, WorkerPC
        <2>. QED  BY <2>1, <2>2, SharedSame
    <1>5. CASE Leave(w)
        <2>1. /\ counter' = (counter + pending[w]) % NonceMod
              /\ pending' = [pending EXCEPT ![w] = 0]
              /\ Goto(w, "check")
              /\ UNCHANGED <<i, local, snap, k, cand>>
              /\ UNCHANGED <<jobVars, mirror, exit, connected, channelVars, row, alive>>
            BY <1>5 DEF Leave
        <2>2. counter + pending[w] \in Nat
            BY SharedAssumption DEF SharedTypeOK, WorkerTypeOK, Nonce
        <2>3. counter' \in Nonce
            BY <2>1, <2>2, ModTyped
        <2>4. WorkerTypeOK'
            BY <2>1 DEF WorkerTypeOK, Goto, WorkerPC
        <2>5. SharedTypeOK'
            BY <2>1, <2>3 DEF SharedTypeOK, jobVars, channelVars
        <2>. QED  BY <2>4, <2>5
    <1>6. CASE Hash(w)
        <2> DEFINE recorded == pending[w] + Lanes
                   flush == IF recorded >= Batch THEN Batch ELSE 0
        <2>1. /\ i' = [i EXCEPT ![w] = WrappingAdd(@, Lanes)]
              /\ k' = [k EXCEPT ![w] = @ + 1]
              /\ counter' = (counter + flush) % NonceMod
              /\ pending' = [pending EXCEPT ![w] = recorded - flush]
              /\ UNCHANGED <<local, snap>>
              /\ UNCHANGED <<jobVars, mirror, exit, connected, channelVars, row, alive>>
            BY <1>6 DEF Hash, Advance, Recorded
        <2>2. PICK pass \in FastPass(w) :
                  /\ cand' = [cand EXCEPT ![w] = pass]
                  /\ Goto(w, IF pass = {} /\ Lanes = 1 THEN NextPass(k[w] + 1)
                             ELSE "verify")
            BY <1>6 DEF Hash, Advance, Recorded
        <2>3. pass \subseteq 1 .. Lanes
            BY DEF FastPass
        <2>4. PICK label \in WorkerPC : Goto(w, label)
            BY <2>2, Zenon DEF NextPass, WorkerPC
        <2>5. WrappingAdd(i[w], Lanes) \in Nonce
            BY WrapTyped, WorkerAssumption DEF WorkerTypeOK
        <2>6. recorded - flush \in Nat /\ counter + flush \in Nat
            <3>1. pending[w] \in Nat /\ counter \in Nat
                BY SharedAssumption DEF SharedTypeOK, WorkerTypeOK, Nonce
            <3>2. Lanes \in Nat /\ Batch \in Nat
                BY WorkerAssumption
            <3>3. recorded \in Nat
                BY <3>1, <3>2
            <3> HIDE DEF recorded
            <3>. QED  BY <3>1, <3>2, <3>3
        <2>7. counter' \in Nonce
            BY <2>1, <2>6, ModTyped
        <2> HIDE DEF recorded, flush
        <2>8. WorkerTypeOK'
            BY <2>1, <2>2, <2>3, <2>4, <2>5, <2>6 DEF WorkerTypeOK, Goto
        <2>9. SharedTypeOK'
            BY <2>1, <2>7 DEF SharedTypeOK, jobVars, channelVars
        <2>. QED  BY <2>8, <2>9
    <1>7. CASE Verify(w)
        <2>1. PICK l \in cand[w] :
                /\ \/ UNCHANGED queue
                   \/ Send([jobid |-> snap[w].tmpl, work |-> LaneWork(w, l)])
                /\ cand' = [cand EXCEPT ![w] = @ \ {l}]
            BY <1>7 DEF Verify, ShareFor
        <2> DEFINE share == [jobid |-> snap[w].tmpl, work |-> LaneWork(w, l)]
        <2>2. share \in Share
            <3>1. l \in 1 .. Lanes /\ i[w] \in Nonce /\ snap[w].tmpl \in Templates
                BY DEF WorkerTypeOK, Push
            <3>2. WrappingSub(i[w], Lanes - l) \in Nonce
                BY <3>1, LaneTyped, WrapTyped
            <3>. QED  BY <3>1, <3>2 DEF Share, Work, LaneWork, WorkAt
        <2>3. queue' \in {queue, Append(queue, share)}
            BY <2>1, Zenon DEF Send
        <2> HIDE DEF share
        <2>4. queue' \in Seq(Share)
            BY <2>2, <2>3 DEF SharedTypeOK
        <2>5. /\ UNCHANGED <<pc, i, local, snap, k, pending>>
              /\ UNCHANGED <<jobVars, counter, mirror, exit, connected, rx_open, row, alive>>
            BY <1>7 DEF Verify, ShareFor
        <2>6. WorkerTypeOK'
            BY <2>1, <2>5 DEF WorkerTypeOK
        <2>7. SharedTypeOK'
            BY <2>4, <2>5 DEF SharedTypeOK, jobVars
        <2>. QED  BY <2>6, <2>7
    <1>. QED  BY <1>1, <1>2, <1>3, <1>4, <1>5, <1>6, <1>7 DEF WorkerStep

\* Every reachable state of the miner has the types the specification gives
\* its variables: the atomics of struct Shared, the threads' locals and the
\* channel.
THEOREM TypeCorrect == Spec => []TypeOK
    <1>1. Init => TypeOK
        <2> SUFFICES ASSUME Init PROVE TypeOK
            OBVIOUS
        <2>1. job \in Push /\ counter \in Nonce
            BY SharedAssumption DEF Init, SharedInit, Push, Templates, Nonce
        <2>2. queue \in Seq(Share) /\ mirror \in [StatusField -> Nat] /\ job_counter \in Nat
            BY DEF Init, SharedInit
        <2>3. /\ exit \in BOOLEAN /\ connected \in BOOLEAN /\ rx_open \in BOOLEAN
              /\ row \in BOOLEAN /\ alive \in BOOLEAN
            BY DEF Init, SharedInit
        <2>4. WorkerTypeOK
            BY SharedAssumption
            DEF Init, WorkerInit, WorkerTypeOK, Push, Templates, Nonce, WorkerPC
        <2>5. GetWorkTypeOK /\ CommandTypeOK
            BY SharedAssumption
            DEF Init, GetWorkInit, GetWorkTypeOK, GetWorkPC, Templates, StatusOrder,
                CommandInit, CommandTypeOK, CommandPC
        <2>. QED  BY <2>1, <2>2, <2>3, <2>4, <2>5 DEF TypeOK, SharedTypeOK
    <1>2. TypeOK /\ [Next]_vars => TypeOK'
        <2> SUFFICES ASSUME TypeOK, [Next]_vars PROVE TypeOK'
            OBVIOUS
        <2>1. CASE \E w \in Workers : WorkerMoves(w)
            BY <2>1, WorkerTypes, GetWorkSame, CommandSame, Zenon DEF WorkerMoves, TypeOK
        <2>2. CASE GetWorkMoves
            BY <2>2, GetWorkTypes, WorkerSame, CommandSame, Zenon DEF GetWorkMoves, TypeOK
        <2>3. CASE CommandMoves
            BY <2>3, CommandTypes, WorkerSame, GetWorkSame, Zenon DEF CommandMoves, TypeOK
        <2>4. CASE UNCHANGED vars
            BY <2>4, SharedSame, WorkerSame, GetWorkSame, CommandSame DEF vars, TypeOK
        <2>. QED  BY <2>1, <2>2, <2>3, <2>4 DEF Next, Terminated
    <1>. QED  BY <1>1, <1>2, PTL DEF Spec

-----------------------------------------------------------------------------
(* The snapshot is fresh *)

\* The counter trails the stored job by at most the push being announced; a
\* worker's copy of the counter is never ahead; and because it is read before
\* the job is cloned, the clone is at least as new as it says.
FreshInv ==
    /\ job.seq = IF gpc = "announce" THEN job_counter + 1 ELSE job_counter
    /\ \A w \in Workers : local[w] <= job_counter
    /\ \A w \in Workers :
          Grinding(w) => local[w] <= snap[w].seq /\ snap[w].seq <= job.seq

\* A worker's step keeps every snapshot as fresh as its local counter says.
LEMMA FreshWorkerStep ==
    ASSUME TypeOK, FreshInv, NEW w \in Workers, WorkerStep(w), UNCHANGED <<getworkVars, cpc>>
    PROVE  FreshInv'
    <1>1. UNCHANGED <<job, job_counter, gpc>>
        BY DEF WorkerStep, Start, CheckExit, Snapshot, Prepare, Sleep, Enter, Leave, Hash,
               Verify, EndPass, sharedVars, jobVars, getworkVars
    <1>2. ASSUME NEW v \in Workers, v # w
          PROVE  UNCHANGED <<pc[v], local[v], snap[v]>>
        BY <1>2 DEF TypeOK, WorkerTypeOK, WorkerStep, Start, CheckExit, Snapshot, Prepare,
                    Sleep, Enter, Leave, Hash, Verify, EndPass, Goto
    <1>3. CASE Snapshot(w)
        <2>1. local'[w] <= job_counter
            BY <1>3 DEF Snapshot, FreshInv, TypeOK, WorkerTypeOK, SharedTypeOK
        <2>2. Grinding(w)' => local'[w] <= snap'[w].seq /\ snap'[w].seq <= job.seq
            BY <1>3 DEF Snapshot, FreshInv, Grinding, Goto, TypeOK, WorkerTypeOK,
                        SharedTypeOK, Push
        <2>. QED  BY <1>1, <1>2, <2>1, <2>2 DEF FreshInv, Grinding
    <1>4. CASE ~Snapshot(w)
        <2>1. UNCHANGED <<local, snap>>
            BY <1>4 DEF WorkerStep, Start, CheckExit, Prepare, Sleep, Enter, Leave, Hash,
                        Verify, EndPass
        <2>2. Grinding(w)' => Grinding(w)
            BY <1>4 DEF WorkerStep, Start, CheckExit, Prepare, Sleep, Enter, Leave, Hash,
                        Verify, EndPass, Grinding, Goto, TypeOK, WorkerTypeOK
        <2>. QED  BY <1>1, <1>2, <2>1, <2>2 DEF FreshInv, Grinding
    <1>. QED  BY <1>3, <1>4

\* Storing a push and announcing it keeps every snapshot fresh.
LEMMA FreshGetWorkStep ==
    ASSUME TypeOK, FreshInv, GetWorkStep, UNCHANGED <<workerVars, cpc>>
    PROVE  FreshInv'
    <1>1. UNCHANGED <<pc, local, snap>>
        BY DEF workerVars
    <1>2. CASE ApplyJob
        BY <1>1, <1>2 DEF ApplyJob, FreshInv, Grinding, TypeOK, SharedTypeOK, WorkerTypeOK,
                          Push
    <1>3. CASE ~ApplyJob
        <2>1. UNCHANGED <<job, job_counter>>
            BY <1>3 DEF GetWorkStep, Reconnect, DialOk, DialFail, RetrySleep, Connected,
                        Drain, SessionLoop, SubmitShare, SubmitDone, ReadNothing, ReadPush,
                        MirrorStatus, sharedVars, jobVars
        <2>2. gpc # "announce" /\ gpc' # "announce"
            BY <1>3 DEF GetWorkStep, Reconnect, DialOk, DialFail, RetrySleep, Connected,
                        Drain, SessionLoop, SubmitShare, SubmitDone, ReadNothing, ReadPush,
                        MirrorStatus, Return
        <2>. QED  BY <1>1, <2>1, <2>2 DEF FreshInv, Grinding
    <1>. QED  BY <1>2, <1>3

\* The command loop and stuttering do not touch jobs or snapshots.
LEMMA FreshElse ==
    ASSUME FreshInv, UNCHANGED <<job, job_counter, gpc, pc, local, snap>>
    PROVE  FreshInv'
    BY DEF FreshInv, Grinding

\* mine_thread reads job_counter before it clones the job, and getwork stores
\* the job before it moves the counter: whatever the interleaving, a worker
\* that believes its job current is not grinding an older one.
THEOREM SnapshotIsFresh == Spec => []SnapshotFresh
    <1>1. Init => FreshInv
        BY DEF Init, SharedInit, WorkerInit, GetWorkInit, FreshInv, Grinding
    <1>2. TypeOK /\ FreshInv /\ [Next]_vars => FreshInv'
        <2> SUFFICES ASSUME TypeOK, FreshInv, [Next]_vars PROVE FreshInv'
            OBVIOUS
        <2>1. CASE \E w \in Workers : WorkerMoves(w)
            BY <2>1, FreshWorkerStep, Zenon DEF WorkerMoves
        <2>2. CASE GetWorkMoves
            BY <2>2, FreshGetWorkStep, Zenon DEF GetWorkMoves
        <2>3. CASE CommandMoves
            <3>1. UNCHANGED <<job, job_counter, gpc, pc, local, snap>>
                BY <2>3 DEF CommandMoves, CommandStep, Quit, RestoreTerminal, ProcessExit,
                            StdinError, StdinEof, Parked, workerVars, getworkVars,
                            sharedVars, jobVars
            <3>. QED  BY <3>1, FreshElse
        <2>4. CASE UNCHANGED vars
            BY <2>4, FreshElse DEF vars, sharedVars, jobVars, workerVars, getworkVars
        <2>. QED  BY <2>1, <2>2, <2>3, <2>4 DEF Next, Terminated
    <1>3. TypeOK /\ FreshInv => SnapshotFresh
        BY DEF TypeOK, SharedTypeOK, WorkerTypeOK, Push, FreshInv, SnapshotFresh
    <1>. QED  BY <1>1, <1>2, <1>3, TypeCorrect, PTL DEF Spec

-----------------------------------------------------------------------------
(* Shares are canonical *)

\* A lane that waits for its verification at a POW16 job already passed the
\* canonical hash; at an AstroBWTv3 job nothing is known of it yet.
ShareInv ==
    /\ SharesCanonical
    /\ \A w \in Workers :
          pc[w] = "verify" /\ snap[w].tmpl \notin Post
              => \A l \in cand[w] : LaneWork(w, l) \in Winners

\* Advancing i by a whole pass and counting back from the lane names the same
\* nonce, wrap or no wrap.
LEMMA LaneNonce ==
    ASSUME NEW x \in Nonce, NEW l \in 1 .. Lanes
    PROVE  WrappingSub(WrappingAdd(x, Lanes), Lanes - l) = WrappingAdd(x, l)
    BY SharedAssumption, WorkerAssumption DEF Nonce, WrappingAdd, WrappingSub

\* A canonical share may join the channel.
LEMMA AppendCanonical ==
    ASSUME queue \in Seq(Share), SharesCanonical, NEW s \in Share,
           s.work \in Winners, s.jobid = s.work.job, queue' = Append(queue, s)
    PROVE  SharesCanonical'
    BY DEF SharesCanonical

\* Taking a share off the channel leaves canonical ones.
LEMMA TailCanonical ==
    ASSUME queue \in Seq(Share), SharesCanonical, queue # <<>>, queue' = Tail(queue)
    PROVE  SharesCanonical'
    BY DEF SharesCanonical

\* A worker only sends shares that clear the target canonically.
LEMMA ShareWorkerStep ==
    ASSUME TypeOK, ShareInv, NEW w \in Workers, WorkerStep(w)
    PROVE  ShareInv'
    <1> USE DEF TypeOK, WorkerTypeOK
    <1>1. ASSUME NEW v \in Workers, v # w
          PROVE  UNCHANGED <<pc[v], i[v], snap[v], cand[v]>>
        BY <1>1 DEF WorkerStep, Start, CheckExit, Snapshot, Prepare, Sleep, Enter, Leave,
                    Hash, Verify, EndPass, Goto
    <1>2. CASE Hash(w)
        <2>1. PICK pass \in FastPass(w) : cand' = [cand EXCEPT ![w] = pass]
            BY <1>2 DEF Hash
        <2>2. /\ i' = [i EXCEPT ![w] = WrappingAdd(@, Lanes)]
              /\ UNCHANGED <<snap, queue>>
            BY <1>2 DEF Hash, Advance, channelVars
        <2>3. ASSUME snap[w].tmpl \notin Post, NEW l \in pass
              PROVE  LaneWork(w, l)' \in Winners
            <3>1. l \in 1 .. Lanes /\ WorkAt(w, WrappingAdd(i[w], l)) \in Winners
                BY <2>3 DEF FastPass
            <3>2. i'[w] = WrappingAdd(i[w], Lanes)
                BY <2>2
            <3>3. LaneWork(w, l)' = WorkAt(w, WrappingSub(WrappingAdd(i[w], Lanes), Lanes - l))
                BY <2>2, <3>2 DEF LaneWork, WorkAt, WrappingSub
            <3>. QED  BY <3>1, <3>3, LaneNonce
        <2>4. \A v \in Workers : pc'[v] = "verify" /\ snap'[v].tmpl \notin Post
                  => \A l \in cand'[v] : LaneWork(v, l)' \in Winners
            <3> SUFFICES ASSUME NEW v \in Workers, pc'[v] = "verify",
                                snap'[v].tmpl \notin Post, NEW l \in cand'[v]
                         PROVE  LaneWork(v, l)' \in Winners
                OBVIOUS
            <3>1. CASE v = w
                BY <2>1, <2>2, <2>3, <3>1
            <3>2. CASE v # w
                BY <1>1, <3>2 DEF ShareInv, LaneWork, WorkAt, WrappingSub
            <3>. QED  BY <3>1, <3>2
        <2>. QED  BY <2>2, <2>4 DEF ShareInv, SharesCanonical
    <1>3. CASE Verify(w)
        <2>1. PICK l \in cand[w] :
                /\ IF CanonicalOk(w, LaneWork(w, l))
                   THEN Send([jobid |-> snap[w].tmpl, work |-> LaneWork(w, l)])
                   ELSE UNCHANGED queue
                /\ cand' = [cand EXCEPT ![w] = @ \ {l}]
            BY <1>3 DEF Verify, ShareFor
        <2>2. pc[w] = "verify" /\ UNCHANGED <<pc, i, snap>>
            BY <1>3 DEF Verify, ShareFor
        <2> DEFINE share == [jobid |-> snap[w].tmpl, work |-> LaneWork(w, l)]
        <2>3. share \in Share
            <3>1. l \in 1 .. Lanes /\ i[w] \in Nonce /\ snap[w].tmpl \in Templates
                BY DEF Push
            <3>2. WrappingSub(i[w], Lanes - l) \in Nonce
                BY <3>1, LaneTyped, WrapTyped
            <3>. QED  BY <3>1, <3>2 DEF Share, Work, LaneWork, WorkAt
        <2>4. share.jobid = share.work.job
            BY DEF LaneWork, WorkAt
        <2>5. CanonicalOk(w, LaneWork(w, l)) => share.work \in Winners
            BY <2>2 DEF CanonicalOk, ShareInv
        <2>6. UNCHANGED queue \/ (share.work \in Winners /\ queue' = Append(queue, share))
            BY <2>1, <2>5, Zenon DEF Send
        <2> HIDE DEF share
        <2>7. SharesCanonical'
            <3>1. CASE UNCHANGED queue
                BY <3>1 DEF ShareInv, SharesCanonical
            <3>2. CASE share.work \in Winners /\ queue' = Append(queue, share)
                BY <2>3, <2>4, <3>2, AppendCanonical DEF ShareInv, SharedTypeOK
            <3>. QED  BY <2>6, <3>1, <3>2
        <2>8. \A v \in Workers : pc'[v] = "verify" /\ snap'[v].tmpl \notin Post
                  => \A m \in cand'[v] : LaneWork(v, m)' \in Winners
            BY <2>1, <2>2 DEF ShareInv, LaneWork, WorkAt, WrappingSub
        <2>. QED  BY <2>7, <2>8 DEF ShareInv
    <1>4. CASE ~Hash(w) /\ ~Verify(w)
        <2>1. UNCHANGED <<i, cand, queue>>
            BY <1>4 DEF WorkerStep, Start, CheckExit, Snapshot, Prepare, Sleep, Enter, Leave,
                        EndPass, sharedVars, channelVars
        <2>2. pc'[w] # "verify"
            BY <1>4 DEF WorkerStep, Start, CheckExit, Snapshot, Prepare, Sleep, Enter, Leave,
                        EndPass, NextPass, Goto
        <2>3. \A v \in Workers : pc'[v] = "verify" => v # w /\ snap'[v] = snap[v] /\ pc[v] = "verify"
            BY <1>1, <2>2
        <2>. QED  BY <2>1, <2>3 DEF ShareInv, SharesCanonical, LaneWork, WorkAt, WrappingSub
    <1>. QED  BY <1>2, <1>3, <1>4

\* The connection thread only takes shares off the channel.
LEMMA ShareGetWorkStep ==
    ASSUME TypeOK, ShareInv, GetWorkStep, UNCHANGED workerVars
    PROVE  ShareInv'
    <1>1. \/ UNCHANGED queue
          \/ queue' = <<>>
          \/ queue # <<>> /\ queue' = Tail(queue)
        BY DEF GetWorkStep, Reconnect, DialOk, DialFail, RetrySleep, Connected, Drain,
               SessionLoop, SubmitShare, SubmitDone, ReadNothing, ReadPush, ApplyJob,
               MirrorStatus, Return, sharedVars, channelVars
    <1>2. SharesCanonical'
        <2>1. CASE UNCHANGED queue
            BY <2>1 DEF ShareInv, SharesCanonical
        <2>2. CASE queue' = <<>>
            BY <2>2 DEF SharesCanonical
        <2>3. CASE queue # <<>> /\ queue' = Tail(queue)
            BY <2>3, TailCanonical DEF ShareInv, TypeOK, SharedTypeOK
        <2>. QED  BY <1>1, <2>1, <2>2, <2>3
    <1>. QED  BY <1>2 DEF ShareInv, workerVars, LaneWork, WorkAt, WrappingSub

\* The command loop and stuttering do not touch the channel.
LEMMA ShareElse ==
    ASSUME ShareInv, UNCHANGED <<queue, workerVars>>
    PROVE  ShareInv'
    BY DEF ShareInv, SharesCanonical, workerVars, LaneWork, WorkAt, WrappingSub

\* So every share in the channel or on its way there stays canonical.
LEMMA ShareInvariant == Spec => []ShareInv
    <1>1. Init => ShareInv
        BY DEF Init, SharedInit, WorkerInit, ShareInv, SharesCanonical
    <1>2. TypeOK /\ ShareInv /\ [Next]_vars => ShareInv'
        <2> SUFFICES ASSUME TypeOK, ShareInv, [Next]_vars PROVE ShareInv'
            OBVIOUS
        <2>1. CASE \E w \in Workers : WorkerMoves(w)
            BY <2>1, ShareWorkerStep, Zenon DEF WorkerMoves
        <2>2. CASE GetWorkMoves
            <3>1. GetWorkStep /\ UNCHANGED workerVars
                BY <2>2 DEF GetWorkMoves
            <3>. QED  BY <3>1, ShareGetWorkStep
        <2>3. CASE CommandMoves
            <3>1. UNCHANGED <<queue, workerVars>>
                BY <2>3 DEF CommandMoves, CommandStep, Quit, RestoreTerminal, ProcessExit,
                            StdinError, StdinEof, Parked, sharedVars, channelVars
            <3>. QED  BY <3>1, ShareElse
        <2>4. CASE UNCHANGED vars
            BY <2>4, ShareElse DEF vars, sharedVars, channelVars
        <2>. QED  BY <2>1, <2>2, <2>3, <2>4 DEF Next, Terminated
    <1>. QED  BY <1>1, <1>2, TypeCorrect, PTL DEF Spec

\* verify-on-submit, for every answer the fast path may give: whatever reaches
\* the submit channel clears the target by the canonical PoW and names the job
\* it was ground for.
THEOREM SharesAreCanonical == Spec => []SharesCanonical
    <1>1. ShareInv => SharesCanonical
        BY DEF ShareInv
    <1>. QED  BY <1>1, ShareInvariant, PTL

-----------------------------------------------------------------------------
(* Sums over a finite set *)

Pick(s) == CHOOSE x \in s : TRUE

\* The subsets of S with at most n elements.
Upto(S, n) == {s \in SUBSET S : Cardinality(s) <= n}

\* g is the sum of f over each of the sets in D.
Sums(f, D, g) ==
    g = [s \in D |-> IF s = {} THEN 0 ELSE f[Pick(s)] + g[s \ {Pick(s)}]]

\* Total: the sum over all workers that HashesAccounted speaks of.
Sum(f, S) == MapThenSumSet(LAMBDA x : f[x], S)

\* The fold of the library is such a sum.
LEMMA SumIs ==
    ASSUME NEW f, NEW S
    PROVE  Sum(f, S) = (CHOOSE g : Sums(f, SUBSET S, g))[S]
    BY Zenon DEF Sum, MapThenSumSet, MapThenFoldSet, Sums, Pick

\* Removing the element that is summed next leaves a smaller subset.
LEMMA PickSmaller ==
    ASSUME NEW S, IsFiniteSet(S), NEW s \in SUBSET S, s # {}
    PROVE  /\ Pick(s) \in s /\ s \ {Pick(s)} \in SUBSET S
           /\ Cardinality(s) \in Nat \ {0} /\ Cardinality(s \ {Pick(s)}) = Cardinality(s) - 1
    <1>1. Pick(s) \in s
        BY Zenon DEF Pick
    <1>2. IsFiniteSet(s)
        BY FS_Subset
    <1>3. Cardinality(s) \in Nat /\ Cardinality(s) # 0
        BY <1>2, FS_CardinalityType, FS_EmptySet
    <1>4. Cardinality(s \ {Pick(s)}) = Cardinality(s) - 1
        BY <1>1, <1>2, FS_RemoveElement
    <1>. QED  BY <1>1, <1>3, <1>4

\* There is a sum over the subsets of any size.
LEMMA PartSums ==
    ASSUME NEW f, NEW S, IsFiniteSet(S), NEW n \in Nat
    PROVE  \E g : Sums(f, Upto(S, n), g)
    <1> DEFINE Bad == {m \in Nat : ~\E g : Sums(f, Upto(S, m), g)}
    <1>1. SUFFICES ASSUME Bad # {}  PROVE FALSE
        BY Zenon
    <1>2. PICK m \in Bad : \A k0 \in Bad : m <= k0
        <2>1. Bad \in SUBSET Nat
            OBVIOUS
        <2> HIDE DEF Bad
        <2>. QED  BY <1>1, <2>1, SmallestNat, Zenon
    <1>3. m \in Nat /\ ~\E g : Sums(f, Upto(S, m), g)
        OBVIOUS
    <1>4. CASE m = 0
        <2> DEFINE g == [s \in Upto(S, m) |-> 0]
        <2>1. \A s \in Upto(S, m) : s = {}
            <3> SUFFICES ASSUME NEW s \in Upto(S, m), s # {}  PROVE FALSE
                OBVIOUS
            <3>1. s \in SUBSET S /\ Cardinality(s) <= 0
                BY <1>4 DEF Upto
            <3>2. Cardinality(s) \in Nat \ {0}
                BY <3>1, PickSmaller, Zenon
            <3>. QED  BY <3>1, <3>2
        <2>2. Sums(f, Upto(S, m), g)
            BY <2>1 DEF Sums
        <2>. QED  BY <1>3, <2>2, Zenon
    <1>5. CASE m # 0
        <2>1. m - 1 \in Nat /\ ~(m <= m - 1)
            BY <1>3, <1>5
        <2>2. m - 1 \notin Bad
            BY <1>2, <2>1, Zenon
        <2>3. PICK h : Sums(f, Upto(S, m - 1), h)
            BY <2>1, <2>2, Zenon
        <2> HIDE DEF Bad
        <2> DEFINE val(g, s) == IF s = {} THEN 0 ELSE f[Pick(s)] + g[s \ {Pick(s)}]
                   g == [s \in Upto(S, m) |-> val(h, s)]
        <2>4. \A s \in Upto(S, m) : s # {} => s \ {Pick(s)} \in Upto(S, m - 1)
            <3> SUFFICES ASSUME NEW s \in Upto(S, m), s # {}
                         PROVE  s \ {Pick(s)} \in Upto(S, m - 1)
                OBVIOUS
            <3>1. s \in SUBSET S /\ Cardinality(s) <= m
                BY DEF Upto
            <3>2. /\ s \ {Pick(s)} \in SUBSET S /\ Cardinality(s) \in Nat
                  /\ Cardinality(s \ {Pick(s)}) = Cardinality(s) - 1
                BY <3>1, PickSmaller
            <3>3. Cardinality(s \ {Pick(s)}) <= m - 1
                BY <1>3, <3>1, <3>2
            <3>. QED  BY <3>2, <3>3 DEF Upto
        <2>5. Upto(S, m - 1) \subseteq Upto(S, m)
            <3> SUFFICES ASSUME NEW s \in Upto(S, m - 1)  PROVE s \in Upto(S, m)
                OBVIOUS
            <3>1. s \in SUBSET S /\ Cardinality(s) <= m - 1
                BY DEF Upto
            <3>2. Cardinality(s) \in Nat
                BY <3>1, FS_Subset, FS_CardinalityType
            <3>3. Cardinality(s) <= m
                BY <1>3, <3>1, <3>2
            <3>. QED  BY <3>1, <3>3 DEF Upto
        <2>6. \A t \in Upto(S, m - 1) : h[t] = val(h, t)
            BY <2>3 DEF Sums
        <2>7. \A t \in Upto(S, m) : g[t] = val(h, t)
            OBVIOUS
        <2>8. \A t \in Upto(S, m - 1) : g[t] = h[t]
            BY <2>5, <2>6, <2>7, Zenon
        <2>9. \A s \in Upto(S, m) : val(h, s) = val(g, s)
            <3> SUFFICES ASSUME NEW s \in Upto(S, m), s # {}
                         PROVE  h[s \ {Pick(s)}] = g[s \ {Pick(s)}]
                BY Zenon
            <3>. QED  BY <2>4, <2>8, Zenon
        <2>10. Sums(f, Upto(S, m), g)
            <3>1. g = [s \in Upto(S, m) |-> val(h, s)]
                OBVIOUS
            <3> HIDE DEF g
            <3>2. g = [s \in Upto(S, m) |-> val(g, s)]
                BY <2>9, <3>1, Zenon
            <3>. QED  BY <3>2, Zenon DEF Sums
        <2>. QED  BY <1>3, <2>10, Zenon
    <1>. QED  BY <1>4, <1>5

\* The sum over all the subsets of a finite set exists, so the fold computes it.
LEMMA SumExists ==
    ASSUME NEW f, NEW S, IsFiniteSet(S)
    PROVE  \E g : Sums(f, SUBSET S, g) /\ Sum(f, S) = g[S]
    <1>1. Cardinality(S) \in Nat
        BY FS_CardinalityType
    <1>2. Upto(S, Cardinality(S)) = SUBSET S
        BY FS_Subset DEF Upto
    <1>3. \E g : Sums(f, SUBSET S, g)
        <2>1. \E g : Sums(f, Upto(S, Cardinality(S)), g)
            BY <1>1, PartSums
        <2>. QED  BY <1>2, <2>1, Zenon
    <1>4. Sums(f, SUBSET S, CHOOSE g : Sums(f, SUBSET S, g))
        BY <1>3, Zenon
    <1>. QED  BY <1>4, SumIs, Zenon

\* Changing one term changes every sum that has it by as much.
LEMMA SumsChange ==
    ASSUME NEW S, IsFiniteSet(S), NEW D, D = SUBSET S, NEW f \in [S -> Int], NEW g,
           NEW w \in S, NEW d \in Int,
           NEW f2, f2[w] = f[w] + d, \A x \in S : x # w => f2[x] = f[x], NEW g2,
           Sums(f, D, g), Sums(f2, D, g2)
    PROVE  g[S] \in Int /\ g2[S] = g[S] + d
    <1> DEFINE P(s) == g[s] \in Int /\ g2[s] = g[s] + IF w \in s THEN d ELSE 0
               Bad == {n \in Nat : \E s \in D : Cardinality(s) = n /\ ~P(s)}
    <1>1. \A s \in D : Cardinality(s) \in Nat
        BY FS_Subset, FS_CardinalityType
    <1>2. CASE Bad = {}
        <2>1. \A s \in D : P(s)
            BY <1>1, <1>2, Zenon
        <2>2. S \in D
            OBVIOUS
        <2>3. P(S)
            BY <2>1, <2>2, Zenon
        <2>. QED  BY <2>3
    <1>3. CASE Bad # {}
        <2>1. Bad \in SUBSET Nat
            OBVIOUS
        <2>2. PICK n \in Bad : \A m \in Bad : n <= m
            <3> HIDE DEF Bad
            <3>. QED  BY <1>3, <2>1, SmallestNat, Zenon
        <2>3. PICK s \in D : Cardinality(s) = n /\ ~P(s)
            OBVIOUS
        <2>4. n \in Nat
            OBVIOUS
        <2>5. g[s] = IF s = {} THEN 0 ELSE f[Pick(s)] + g[s \ {Pick(s)}]
            BY Zenon DEF Sums
        <2>6. g2[s] = IF s = {} THEN 0 ELSE f2[Pick(s)] + g2[s \ {Pick(s)}]
            BY Zenon DEF Sums
        <2>7. CASE s = {}
            <3>1. g[s] = 0 /\ g2[s] = 0 /\ w \notin s
                BY <2>5, <2>6, <2>7
            <3>2. P(s)
                BY <3>1
            <3>. QED  BY <2>3, <3>2, Zenon
        <2>8. CASE s # {}
            <3> DEFINE x == Pick(s)
                       t == s \ {x}
            <3>1. x \in s /\ t \in D /\ Cardinality(t) = n - 1
                <4>1. s \in SUBSET S
                    OBVIOUS
                <4>. QED  BY <2>3, <2>8, <4>1, PickSmaller, Zenon
            <3>2. g[s] = f[x] + g[t] /\ g2[s] = f2[x] + g2[t]
                BY <2>5, <2>6, <2>8, Zenon
            <3>3. n - 1 \in Nat /\ ~(n <= n - 1)
                BY <1>1, <2>4, <3>1
            <3>4. P(t)
                <4>1. n - 1 \notin Bad
                    BY <2>2, <3>3, Zenon
                <4>. QED  BY <3>1, <3>3, <4>1, Zenon
            <3>5. w \in t <=> w \in s /\ w # x
                OBVIOUS
            <3>6. f[x] \in Int /\ f2[x] = IF w = x THEN f[x] + d ELSE f[x]
                BY <3>1
            <3> HIDE DEF x, t
            <3>7. g[t] \in Int /\ g2[t] = g[t] + IF w \in t THEN d ELSE 0
                BY <3>4, Zenon
            <3>8. g[s] \in Int /\ g2[s] = g[s] + IF w \in s THEN d ELSE 0
                BY <3>1, <3>2, <3>5, <3>6, <3>7
            <3>. QED  BY <2>3, <3>8, Zenon
        <2>. QED  BY <2>7, <2>8
    <1>. QED  BY <1>2, <1>3

\* The sum over a finite set follows a change of one term.
LEMMA SumChange ==
    ASSUME NEW S, IsFiniteSet(S), NEW f \in [S -> Int], NEW w \in S, NEW d \in Int
    PROVE  Sum(f, S) \in Int /\ Sum([f EXCEPT ![w] = f[w] + d], S) = Sum(f, S) + d
    <1> DEFINE f2 == [f EXCEPT ![w] = f[w] + d]
               D == SUBSET S
    <1>1. PICK g : Sums(f, D, g) /\ Sum(f, S) = g[S]
        BY SumExists, Zenon
    <1>2. PICK g2 : Sums(f2, D, g2) /\ Sum(f2, S) = g2[S]
        BY SumExists, Zenon
    <1>3. f2[w] = f[w] + d /\ (\A x \in S : x # w => f2[x] = f[x]) /\ D = SUBSET S
        OBVIOUS
    <1> HIDE DEF f2, D
    <1>4. g[S] \in Int /\ g2[S] = g[S] + d
        <2>1. Sums(f, D, g) /\ Sums(f2, D, g2)
            BY <1>1, <1>2
        <2>. QED  BY <1>3, <2>1, SumsChange
    <1>5. Sum(f, S) \in Int /\ Sum(f2, S) = Sum(f, S) + d
        BY <1>1, <1>2, <1>4, Zenon
    <1>. QED  BY <1>5 DEF f2

-----------------------------------------------------------------------------
(* Arithmetic modulo the counter's range *)

\* A remainder and its quotient.
LEMMA ModIs ==
    ASSUME NEW a \in Int
    PROVE  /\ a \div NonceMod \in Int /\ a % NonceMod \in 0 .. NonceMod - 1
           /\ a % NonceMod = a - (a \div NonceMod) * NonceMod
    BY SharedAssumption

\* Numbers a multiple of the range apart have the same remainder.
LEMMA SameMod ==
    ASSUME NEW a \in Int, NEW b \in Int, NEW q \in Int, a = b + q * NonceMod
    PROVE  a % NonceMod = b % NonceMod
    <1> DEFINE x == a % NonceMod
               y == b % NonceMod
               u == a \div NonceMod
               v == b \div NonceMod
    <1>1. NonceMod \in Nat \ {0} /\ x \in Int /\ y \in Int /\ u \in Int /\ v \in Int
          /\ 0 <= x /\ x < NonceMod /\ 0 <= y /\ y < NonceMod
        BY ModIs, SharedAssumption
    <1>2. a = u * NonceMod + x /\ b = v * NonceMod + y
        <2>1. x = a - u * NonceMod /\ y = b - v * NonceMod
            BY ModIs
        <2>2. u * NonceMod \in Int /\ v * NonceMod \in Int
            BY <1>1
        <2>. QED  BY <1>1, <2>1, <2>2
    <1> HIDE DEF x, y, u, v
    <1> DEFINE e == v + q - u
    <1>3. e \in Int /\ e * NonceMod = x - y
        <2>1. e * NonceMod = v * NonceMod + q * NonceMod - u * NonceMod
            BY <1>1
        <2>. QED  BY <1>1, <1>2, <2>1
    <1> HIDE DEF e
    <1>4. e = 0
        <2>1. CASE e >= 1
            <3>1. e * NonceMod >= NonceMod
                BY <1>1, <1>3, <2>1
            <3>. QED  BY <1>1, <1>3, <3>1
        <2>2. CASE e <= -1
            <3>1. e * NonceMod <= -NonceMod
                BY <1>1, <1>3, <2>2
            <3>. QED  BY <1>1, <1>3, <3>1
        <2>. QED  BY <1>3, <2>1, <2>2
    <1>5. x = y
        BY <1>1, <1>3, <1>4
    <1>. QED  BY <1>5 DEF x, y

\* Multiples of the range add up.
LEMMA AddMultiples ==
    ASSUME NEW p \in Int, NEW q \in Int
    PROVE  p * NonceMod + q * NonceMod = (p + q) * NonceMod /\ p * NonceMod \in Int /\ p + q \in Int
    BY SharedAssumption

-----------------------------------------------------------------------------
(* Every hash is accounted for *)

\* The flushed and the pending hashes exceed the workers' counters by a multiple
\* of the range: by what the total and the counters have wrapped.
AccountInv ==
    \E q \in Int : counter + Sum(pending, Workers) = Sum(i, Workers) + q * NonceMod

\* The sums are integers.
LEMMA SumsTyped ==
    ASSUME TypeOK
    PROVE  /\ Sum(pending, Workers) \in Int /\ Sum(i, Workers) \in Int
           /\ pending \in [Workers -> Int] /\ i \in [Workers -> Int]
    <1>1. PICK w \in Workers : TRUE
        BY WorkerAssumption
    <1>2. pending \in [Workers -> Int] /\ i \in [Workers -> Int]
        BY SharedAssumption DEF TypeOK, WorkerTypeOK, Nonce
    <1>3. IsFiniteSet(Workers) /\ 0 \in Int
        BY WorkerAssumption
    <1>4. Sum(pending, Workers) \in Int
        BY <1>1, <1>2, <1>3, SumChange
    <1>5. Sum(i, Workers) \in Int
        BY <1>1, <1>2, <1>3, SumChange
    <1>. QED  BY <1>2, <1>4, <1>5

\* The total moves by flush, a worker's pending hashes by dp and its counter by
\* di, which are the same but for c wraps.
Moved(w, flush, dp, di, c) ==
    /\ counter' = (counter + flush) % NonceMod
    /\ pending' = [pending EXCEPT ![w] = pending[w] + dp]
    /\ i' = [i EXCEPT ![w] = i[w] + di]
    /\ flush + dp = di + c * NonceMod

\* Such a step keeps the account.
LEMMA AccountMoves ==
    ASSUME TypeOK, AccountInv, NEW w \in Workers, NEW flush \in Int, NEW dp \in Int, NEW di \in Int,
           NEW c \in Int, Moved(w, flush, dp, di, c)
    PROVE  AccountInv'
    <1> USE DEF Moved
    <1> DEFINE P == Sum(pending, Workers)
               I == Sum(i, Workers)
    <1>1. P \in Int /\ I \in Int /\ pending \in [Workers -> Int] /\ i \in [Workers -> Int]
        BY SumsTyped
    <1>2. IsFiniteSet(Workers)
        BY WorkerAssumption
    <1>3. Sum(pending', Workers) = P + dp
        <2>1. Sum([pending EXCEPT ![w] = pending[w] + dp], Workers) = P + dp
            BY <1>1, <1>2, SumChange
        <2>. QED  BY <2>1
    <1>4. Sum(i', Workers) = I + di
        <2>1. Sum([i EXCEPT ![w] = i[w] + di], Workers) = I + di
            BY <1>1, <1>2, SumChange
        <2>. QED  BY <2>1
    <1>5. PICK q \in Int : counter + P = I + q * NonceMod
        BY DEF AccountInv
    <1> HIDE DEF P, I
    <1>6. counter \in Int
        BY SharedAssumption DEF TypeOK, SharedTypeOK, Nonce
    <1>7. PICK u \in Int : counter' = (counter + flush) - u * NonceMod
        BY <1>6, ModIs
    <1>8. counter' + (P + dp) = (I + di) + (q * NonceMod + c * NonceMod - u * NonceMod)
        <2>1. q * NonceMod \in Int /\ c * NonceMod \in Int /\ u * NonceMod \in Int
            BY AddMultiples
        <2> DEFINE qm == q * NonceMod
                   cm == c * NonceMod
                   um == u * NonceMod
        <2>2. /\ counter + P = I + qm /\ counter' = (counter + flush) - um
              /\ flush + dp = di + cm /\ qm \in Int /\ cm \in Int /\ um \in Int
            BY <1>5, <1>7, <2>1
        <2> HIDE DEF qm, cm, um
        <2>3. counter' + (P + dp) = (I + di) + (qm + cm - um)
            BY <1>1, <1>6, <2>2
        <2>. QED  BY <2>3 DEF qm, cm, um
    <1>9. q * NonceMod + c * NonceMod - u * NonceMod = (q + c - u) * NonceMod /\ q + c - u \in Int
        BY SharedAssumption
    <1>10. counter' + Sum(pending', Workers) = Sum(i', Workers) + (q + c - u) * NonceMod
        BY <1>3, <1>4, <1>8, <1>9
    <1>. QED  BY <1>9, <1>10 DEF AccountInv

\* A worker's step keeps the account.
LEMMA AccountWorkerStep ==
    ASSUME TypeOK, AccountInv, NEW w \in Workers, WorkerStep(w)
    PROVE  AccountInv'
    <1>1. /\ pending \in [Workers -> Int] /\ i \in [Workers -> Int]
          /\ pending[w] \in Int /\ i[w] \in Int
        BY SumsTyped
    <1>2. CASE Leave(w)
        <2>1. /\ counter' = (counter + pending[w]) % NonceMod
              /\ pending' = [pending EXCEPT ![w] = 0] /\ UNCHANGED i
            BY <1>2 DEF Leave
        <2> DEFINE d == 0 - pending[w]
        <2>2. d \in Int /\ pending[w] + d = 0 /\ 0 \in Int /\ 0 + 0 * NonceMod = 0
            BY <1>1, SharedAssumption
        <2>3. i[w] + 0 = i[w]
            BY <1>1
        <2> HIDE DEF d
        <2>4. pending' = [pending EXCEPT ![w] = pending[w] + d]
            BY <2>1, <2>2
        <2>5. i' = [i EXCEPT ![w] = i[w] + 0]
            BY <1>1, <2>1, <2>3
        <2>6. pending[w] + d = 0 + 0 * NonceMod
            BY <2>2
        <2>7. Moved(w, pending[w], d, 0, 0)
            BY <2>1, <2>4, <2>5, <2>6, Zenon DEF Moved
        <2>. QED  BY <1>1, <2>2, <2>7, AccountMoves, Zenon
    <1>3. CASE Hash(w)
        <2> DEFINE flush == IF Recorded(w) >= Batch THEN Batch ELSE 0
                   dp == Lanes - flush
                   di == WrappingAdd(i[w], Lanes) - i[w]
                   c == IF i[w] + Lanes < NonceMod THEN 0 ELSE 1
        <2>1. /\ counter' = (counter + flush) % NonceMod
              /\ pending' = [pending EXCEPT ![w] = Recorded(w) - flush]
              /\ i' = [i EXCEPT ![w] = WrappingAdd(i[w], Lanes)]
            BY <1>3 DEF Hash, Advance
        <2>2. Lanes \in Int /\ Batch \in Int /\ NonceMod \in Int
            BY WorkerAssumption, SharedAssumption
        <2>3. flush \in Int /\ dp \in Int /\ c \in Int /\ di \in Int
            BY <1>1, <2>2 DEF WrappingAdd
        <2>4. Recorded(w) - flush = pending[w] + dp
            <3>1. Recorded(w) = pending[w] + Lanes
                BY DEF Recorded
            <3> HIDE DEF flush
            <3>. QED  BY <1>1, <2>2, <2>3, <3>1
        <2>5. WrappingAdd(i[w], Lanes) = i[w] + di
            BY <1>1, <2>2 DEF WrappingAdd
        <2>6. flush + dp = di + c * NonceMod
            <3>1. flush + dp = Lanes
                <4> HIDE DEF flush
                <4>. QED  BY <2>2, <2>3
            <3>2. di + c * NonceMod = Lanes
                BY <1>1, <2>2 DEF WrappingAdd
            <3>. QED  BY <3>1, <3>2
        <2> HIDE DEF flush, dp, di, c
        <2>7. /\ pending' = [pending EXCEPT ![w] = pending[w] + dp]
              /\ i' = [i EXCEPT ![w] = i[w] + di]
            BY <2>1, <2>4, <2>5
        <2>8. Moved(w, flush, dp, di, c)
            BY <2>1, <2>6, <2>7, Zenon DEF Moved
        <2>. QED  BY <2>3, <2>8, AccountMoves, Zenon
    <1>4. CASE ~Leave(w) /\ ~Hash(w)
        <2>1. UNCHANGED <<counter, pending, i>>
            BY <1>4 DEF WorkerStep, Start, CheckExit, Snapshot, Prepare, Sleep, Enter, Verify,
                        EndPass, sharedVars
        <2>. QED  BY <2>1 DEF AccountInv
    <1>. QED  BY <1>2, <1>3, <1>4

\* The total that the hashrate is read from, plus what the workers still hold
\* back, is what they have computed, for any number of workers, through every
\* change of job, early exit from a batch and wrap of the counters.
THEOREM EveryHashAccounted == Spec => []HashesAccounted
    <1>1. Init => AccountInv
        <2> SUFFICES ASSUME Init  PROVE AccountInv
            OBVIOUS
        <2>1. pending = i /\ counter = 0
            BY DEF Init, SharedInit, WorkerInit
        <2>2. i \in [Workers -> Int] /\ IsFiniteSet(Workers)
            BY WorkerAssumption DEF Init, WorkerInit
        <2>3. Sum(i, Workers) \in Int
            <3>1. PICK w \in Workers : TRUE
                BY WorkerAssumption
            <3>2. 0 \in Int
                OBVIOUS
            <3>. QED  BY <2>2, <3>1, <3>2, SumChange
        <2>4. Sum(pending, Workers) = Sum(i, Workers)
            BY <2>1
        <2>5. counter + Sum(pending, Workers) = Sum(i, Workers) + 0 * NonceMod /\ 0 \in Int
            BY <2>1, <2>3, <2>4, SharedAssumption
        <2>. QED  BY <2>5 DEF AccountInv
    <1>2. TypeOK /\ AccountInv /\ [Next]_vars => AccountInv'
        <2> SUFFICES ASSUME TypeOK, AccountInv, [Next]_vars  PROVE AccountInv'
            OBVIOUS
        <2>1. CASE \E w \in Workers : WorkerMoves(w)
            <3>1. PICK w \in Workers : WorkerStep(w)
                BY <2>1 DEF WorkerMoves
            <3>. QED  BY <3>1, AccountWorkerStep
        <2>2. CASE GetWorkMoves \/ CommandMoves \/ UNCHANGED vars
            <3>1. UNCHANGED <<counter, pending, i>>
                BY <2>2 DEF GetWorkMoves, CommandMoves, GetWorkStep, Reconnect, DialOk, DialFail,
                            RetrySleep, Connected, Drain, SessionLoop, SubmitShare, SubmitDone,
                            ReadNothing, ReadPush, ApplyJob, MirrorStatus, CommandStep, Quit,
                            RestoreTerminal, ProcessExit, StdinError, StdinEof, Parked, vars,
                            sharedVars, workerVars
            <3>. QED  BY <3>1 DEF AccountInv
        <2>. QED  BY <2>1, <2>2 DEF Next, Terminated
    <1>3. TypeOK /\ AccountInv => HashesAccounted
        <2> SUFFICES ASSUME TypeOK, AccountInv  PROVE HashesAccounted
            OBVIOUS
        <2>1. PICK q \in Int : counter + Sum(pending, Workers) = Sum(i, Workers) + q * NonceMod
            BY DEF AccountInv
        <2>2. counter + Sum(pending, Workers) \in Int /\ Sum(i, Workers) \in Int
            BY SumsTyped, SharedAssumption DEF TypeOK, SharedTypeOK, Nonce
        <2>3. (counter + Sum(pending, Workers)) % NonceMod = Sum(i, Workers) % NonceMod
            BY <2>1, <2>2, SameMod
        <2>. QED  BY <2>3, Zenon DEF HashesAccounted, Sum
    <1>. QED  BY <1>1, <1>2, <1>3, TypeCorrect, PTL DEF Spec

=============================================================================
