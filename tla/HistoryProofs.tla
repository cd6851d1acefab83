---------------------------- MODULE HistoryProofs ----------------------------
(***************************************************************************)
(* Theorems about what the miner did, for any number of workers, either    *)
(* grind loop, any batch size and any modulus of the nonce counter; and    *)
(* that the miner implements ShareFlow: every step of the threads is a     *)
(* step of the promise, or none.                                           *)
(***************************************************************************)
EXTENDS History, MinerProofs

\* A behaviour with its history is a behaviour of the miner.
LEMMA HistoryIsMiner == HSpec => Spec
    <1>1. HInit => Init
        BY DEF HInit
    <1>2. [HNext]_hvars => [Next]_vars
        BY DEF HNext, hvars
    <1>. QED  BY <1>1, <1>2, PTL DEF HSpec, Spec

\* So the types of the miner hold beside the history.
LEMMA HistoryTyped == HSpec => []TypeOK
    BY HistoryIsMiner, TypeCorrect, PTL

-----------------------------------------------------------------------------
(* Who hashes *)

\* A step is a pass of the grind loop for a worker, or leaves its counter alone.
LEMMA HashOrStay ==
    ASSUME TypeOK, [Next]_vars, NEW w \in Workers
    PROVE  \/ /\ Hashes(w)
              /\ i'[w] = WrappingAdd(i[w], Lanes)
           \/ /\ ~Hashes(w)
              /\ i'[w] = i[w]
    <1> USE DEF TypeOK, WorkerTypeOK
    <1>1. CASE \E v \in Workers : WorkerMoves(v)
        <2>1. PICK v \in Workers : WorkerStep(v)
            BY <1>1 DEF WorkerMoves
        <2>2. CASE Hash(v)
            <3>1. /\ pc[v] = "hash"
                  /\ k' = [k EXCEPT ![v] = @ + 1]
                  /\ i' = [i EXCEPT ![v] = WrappingAdd(@, Lanes)]
                BY <2>2 DEF Hash, Advance
            <3>2. k[v] \in Nat /\ k[v] + 1 # k[v]
                OBVIOUS
            <3>. QED  BY <3>1, <3>2 DEF Hashes
        <2>3. CASE Enter(v)
            <3>1. pc[v] = "head" /\ k' = [k EXCEPT ![v] = 0] /\ UNCHANGED i
                BY <2>3 DEF Enter
            <3>. QED  BY <3>1 DEF Hashes
        <2>4. CASE ~Hash(v) /\ ~Enter(v)
            <3>1. UNCHANGED <<i, k>>
                BY <2>1, <2>4 DEF WorkerStep, Start, CheckExit, Snapshot, Prepare, Sleep, Leave,
                                  Verify, EndPass
            <3>. QED  BY <3>1 DEF Hashes
        <2>. QED  BY <2>2, <2>3, <2>4
    <1>2. CASE GetWorkMoves \/ CommandMoves \/ UNCHANGED vars
        <2>1. UNCHANGED <<i, k>>
            BY <1>2 DEF GetWorkMoves, CommandMoves, vars, workerVars
        <2>. QED  BY <2>1 DEF Hashes
    <1>. QED  BY <1>1, <1>2 DEF Next, Terminated

\* A pass that does not wrap uses the nonces just above the counter.
LEMMA PassNonces ==
    ASSUME NEW x \in Nonce, NEW l \in 1 .. Lanes, ~(WrappingAdd(x, Lanes) < x)
    PROVE  /\ WrappingAdd(x, l) \in Nonce
           /\ x < WrappingAdd(x, l)
           /\ WrappingAdd(x, l) <= WrappingAdd(x, Lanes)
    BY SharedAssumption, WorkerAssumption DEF Nonce, WrappingAdd

\* The works of a pass are works of the worker that hashes them.
LEMMA PassTyped ==
    ASSUME TypeOK, NEW w \in Workers, NEW x \in PassWorks(w)
    PROVE  x \in Work /\ x.tid = w
    <1>1. PICK l \in 1 .. Lanes : x = WorkAt(w, WrappingAdd(i[w], l))
        BY DEF PassWorks
    <1>2. WrappingAdd(i[w], l) \in Nonce
        BY LaneTyped, WrapTyped DEF TypeOK, WorkerTypeOK
    <1>. QED  BY <1>1, <1>2 DEF WorkAt, Work, TypeOK, WorkerTypeOK, Push

-----------------------------------------------------------------------------
(* Type correctness *)

\* The history has its types whatever the threads do: all that is hashed is the
\* work of some worker, and all that is sent is a share.
THEOREM HistoryTypeCorrect == HSpec => []HTypeOK
    <1>1. HInit => HTypeOK
        BY DEF HInit, HTypeOK
    <1>2. TypeOK /\ TypeOK' /\ HTypeOK /\ [HNext]_hvars => HTypeOK'
        <2> SUFFICES ASSUME TypeOK, TypeOK', HTypeOK, [HNext]_hvars  PROVE HTypeOK'
            OBVIOUS
        <2>1. CASE Record
            <3>1. hashed' \subseteq Work
                <4>1. ASSUME NEW w \in Workers  PROVE PassWorks(w) \subseteq Work
                    BY PassTyped
                <4>. QED  BY <2>1, <4>1 DEF HTypeOK, Record
            <3>2. /\ lapped' \subseteq Workers /\ stale' \in [Workers -> Nat]
                  /\ made' \in [Workers -> Nat]
                BY <2>1, WorkerAssumption DEF HTypeOK, Record
            <3>3. offered' \subseteq Templates
                BY <2>1 DEF HTypeOK, Record, TypeOK, SharedTypeOK, Push
            <3>4. queue \in Seq(Share) /\ Len(queue) \in Nat
                BY DEF TypeOK, SharedTypeOK
            <3>5. backlog' \in Nat
                BY <2>1, <3>4 DEF HTypeOK, Record
            <3>6. Writes => Head(queue) \in Share
                BY <3>4 DEF Writes, Pops
            <3>7. sent' \subseteq Share
                BY <2>1, <3>6 DEF HTypeOK, Record
            <3>. QED  BY <3>1, <3>2, <3>3, <3>5, <3>7 DEF HTypeOK
        <2>2. CASE UNCHANGED hvars
            BY <2>2 DEF HTypeOK, hvars, historyVars
        <2>. QED  BY <2>1, <2>2 DEF HNext
    <1>. QED  BY <1>1, <1>2, HistoryTyped, PTL DEF HSpec

-----------------------------------------------------------------------------
(* No work is hashed twice *)

\* Until a worker has gone through its nonces, its counter is the number of
\* nonces it tried: this is what makes the counter persist across jobs.
MadeInv == \A w \in Workers : w \notin lapped => i[w] = made[w]

\* A worker is lapped by the pass that wraps its counter, and by no other.
LEMMA LapsOnWrap ==
    ASSUME TypeOK, HTypeOK, MadeInv, [Next]_vars, Record, NEW w \in Workers, w \notin lapped'
    PROVE  /\ w \notin lapped
           /\ Hashes(w) => i'[w] = i[w] + Lanes /\ made'[w] = made[w] + Lanes
           /\ ~Hashes(w) => i'[w] = i[w] /\ made'[w] = made[w]
           /\ i[w] <= i'[w] /\ ~(i'[w] < i[w])
    <1>1. w \notin lapped /\ (Hashes(w) => ~(made[w] + Lanes >= NonceMod))
        BY DEF Record
    <1>2. made'[w] = IF Hashes(w) THEN made[w] + Lanes ELSE made[w]
        BY DEF Record
    <1>3. i[w] = made[w] /\ i[w] \in Nat /\ Lanes \in Nat /\ NonceMod \in Nat
        BY <1>1, WorkerAssumption, SharedAssumption DEF MadeInv, TypeOK, WorkerTypeOK, Nonce
    <1>4. CASE Hashes(w)
        <2>1. i'[w] = WrappingAdd(i[w], Lanes)
            BY <1>4, HashOrStay
        <2>2. i'[w] = i[w] + Lanes
            BY <1>1, <1>3, <1>4, <2>1 DEF WrappingAdd
        <2>. QED  BY <1>1, <1>2, <1>3, <1>4, <2>2
    <1>5. CASE ~Hashes(w)
        <2>1. i'[w] = i[w]
            BY <1>5, HashOrStay
        <2>. QED  BY <1>1, <1>2, <1>3, <1>5, <2>1
    <1>. QED  BY <1>4, <1>5

\* So the counter and the number of nonces tried agree in every behaviour.
LEMMA MadeInvariant == HSpec => []MadeInv
    <1>1. HInit => MadeInv
        BY DEF HInit, Init, WorkerInit, MadeInv
    <1>2. TypeOK /\ HTypeOK /\ MadeInv /\ [HNext]_hvars => MadeInv'
        <2> SUFFICES ASSUME TypeOK, HTypeOK, MadeInv, [HNext]_hvars  PROVE MadeInv'
            OBVIOUS
        <2>1. CASE HNext
            <3>1. ASSUME NEW w \in Workers, w \notin lapped'  PROVE i'[w] = made'[w]
                <4>1. i[w] = made[w]
                    BY <2>1, <3>1, LapsOnWrap DEF HNext, MadeInv
                <4>. QED  BY <2>1, <3>1, <4>1, LapsOnWrap DEF HNext
            <3>. QED  BY <3>1 DEF MadeInv
        <2>2. CASE UNCHANGED hvars
            BY <2>2 DEF MadeInv, hvars, historyVars, vars, workerVars
        <2>. QED  BY <2>1, <2>2
    <1>. QED  BY <1>1, <1>2, HistoryTyped, HistoryTypeCorrect, PTL DEF HSpec

\* Until then, everything a worker hashed lies at or below its counter.
RepeatInv ==
    /\ MadeInv
    /\ hashed \subseteq Work
    /\ \A x \in hashed : x.tid \notin lapped => x.nonce <= i[x.tid]

\* A step keeps every hashed nonce of an unlapped worker at or below its counter.
LEMMA RepeatStep ==
    ASSUME TypeOK, TypeOK', HTypeOK, RepeatInv, MadeInv', [Next]_vars, Record
    PROVE  RepeatInv'
    <1>1. ASSUME NEW x \in hashed'
          PROVE  x \in Work /\ (x.tid \notin lapped' => x.nonce <= i'[x.tid])
        <2>1. CASE x \in hashed
            <3>1. x \in Work /\ x.tid \in Workers
                BY <2>1 DEF RepeatInv, Work
            <3>2. CASE x.tid \notin lapped'
                <4>1. x.tid \notin lapped /\ i[x.tid] <= i'[x.tid]
                    BY <3>1, <3>2, LapsOnWrap DEF RepeatInv
                <4>. QED  BY <2>1, <3>1, <4>1
                          DEF RepeatInv, TypeOK, WorkerTypeOK, Nonce, Work
            <3>. QED  BY <3>1, <3>2
        <2>2. CASE x \notin hashed
            <3>1. PICK w \in Workers : Hashes(w) /\ x \in PassWorks(w)
                BY <1>1, <2>2 DEF Record
            <3>2. i'[w] = WrappingAdd(i[w], Lanes) /\ i[w] \in Nonce
                BY <3>1, HashOrStay DEF TypeOK, WorkerTypeOK
            <3>4. x \in Work /\ x.tid = w
                BY <3>1, PassTyped
            <3>5. ASSUME w \notin lapped'  PROVE  x.nonce <= i'[w]
                <4>1. ~(i'[w] < i[w])
                    BY <3>5, LapsOnWrap DEF RepeatInv
                <4>2. PICK l \in 1 .. Lanes : x = WorkAt(w, WrappingAdd(i[w], l))
                    BY <3>1 DEF PassWorks
                <4>3. WrappingAdd(i[w], l) <= WrappingAdd(i[w], Lanes)
                    BY <3>2, <4>1, PassNonces
                <4>. QED  BY <3>2, <4>2, <4>3 DEF WorkAt
            <3>. QED  BY <3>4, <3>5
        <2>. QED  BY <2>1, <2>2
    <1>. QED  BY <1>1 DEF RepeatInv

\* A stuttering step keeps it too.
LEMMA RepeatSame ==
    ASSUME RepeatInv, UNCHANGED hvars
    PROVE  RepeatInv'
    BY DEF RepeatInv, MadeInv, hvars, historyVars, vars, workerVars

\* The nonces of an unlapped pass are above every nonce hashed before.
LEMMA FreshNonces ==
    ASSUME TypeOK, HTypeOK, RepeatInv, [Next]_vars, Record, NEW w \in Workers, Hashes(w),
           w \notin lapped'
    PROVE  PassWorks(w) \cap hashed = {}
    <1> SUFFICES ASSUME NEW x \in PassWorks(w), x \in hashed  PROVE FALSE
        OBVIOUS
    <1>1. i'[w] = WrappingAdd(i[w], Lanes) /\ i[w] \in Nonce
        BY HashOrStay DEF TypeOK, WorkerTypeOK
    <1>2. ~(i'[w] < i[w]) /\ w \notin lapped
        BY LapsOnWrap DEF RepeatInv
    <1>3. PICK l \in 1 .. Lanes : x = WorkAt(w, WrappingAdd(i[w], l))
        BY DEF PassWorks
    <1>4. i[w] < WrappingAdd(i[w], l) /\ WrappingAdd(i[w], l) \in Nonce
        BY <1>1, <1>2, PassNonces
    <1>5. x.tid = w /\ x.nonce = WrappingAdd(i[w], l)
        BY <1>3 DEF WorkAt
    <1>6. x.nonce <= i[w]
        BY <1>2, <1>5 DEF RepeatInv
    <1>. QED  BY <1>1, <1>4, <1>5, <1>6 DEF Nonce

\* i persists across jobs and advances once per nonce in both grind loops:
\* until it has tried all 2^32 nonces, a worker never hashes the same work again,
\* no matter how jobs change, repeat or fail to parse.
THEOREM WorkIsNeverRepeated == HSpec => NoWorkRepeated
    <1>1. HInit => RepeatInv
        BY DEF HInit, Init, WorkerInit, RepeatInv, MadeInv
    <1>2. TypeOK /\ TypeOK' /\ HTypeOK /\ MadeInv' /\ RepeatInv /\ [HNext]_hvars => RepeatInv'
        BY RepeatStep, RepeatSame DEF HNext
    <1>3. TypeOK /\ HTypeOK /\ RepeatInv /\ [HNext]_hvars
            => [\A w \in Workers :
                  Hashes(w) /\ w \notin lapped' => PassWorks(w) \cap hashed = {}]_hvars
        BY FreshNonces DEF HNext
    <1>. QED  BY <1>1, <1>2, <1>3, HistoryTyped, HistoryTypeCorrect, MadeInvariant, PTL
              DEF HSpec, NoWorkRepeated

-----------------------------------------------------------------------------
(* Stale work is bounded *)

\* Stale hashes only exist once job_counter has moved on, and inside a batch
\* they are no more than the passes it has made.
StaleOf(w) ==
    /\ local[w] <= job_counter
    /\ stale[w] > 0 => local[w] < job_counter
    /\ pc[w] \in {"hash", "verify"} => stale[w] <= Lanes * k[w] /\ k[w] <= Passes
    /\ pc[w] = "hash" => k[w] < Passes
    /\ stale[w] <= Batch

StaleInv == stale \in [Workers -> Nat] /\ \A w \in Workers : StaleOf(w)

\* A batch is a whole number of passes, in both grind loops.
LEMMA PassCount == Passes \in Nat \ {0} /\ Lanes * Passes = Batch
    <1>1. CASE Lanes = 1
        BY <1>1, WorkerAssumption DEF Passes
    <1>2. CASE Lanes = 2
        BY <1>2, WorkerAssumption DEF Passes
    <1>. QED  BY <1>1, <1>2, WorkerAssumption

\* One more pass of a batch that is not over.
LEMMA OneMorePass ==
    ASSUME NEW n \in Nat, NEW m \in Nat, n < Passes, m <= Lanes * n
    PROVE  /\ m + Lanes <= Lanes * (n + 1)
           /\ m <= Lanes * (n + 1)
           /\ m + Lanes <= Batch
           /\ m <= Batch
           /\ n + 1 <= Passes
    <1>1. CASE Lanes = 1
        BY <1>1, PassCount
    <1>2. CASE Lanes = 2
        <2>1. Passes \in Nat /\ Batch = 2 * Passes
            BY <1>2, PassCount
        <2>. QED  BY <1>2, <2>1
    <1>. QED  BY <1>1, <1>2, WorkerAssumption

\* What one step makes of a worker's stale hashes.
LEMMA StaleRecorded ==
    ASSUME Record, NEW w \in Workers
    PROVE  stale'[w] = IF Hashes(w) /\ local[w] # job_counter THEN stale[w] + Lanes
                       ELSE IF pc[w] = "load" THEN 0 ELSE stale[w]
    BY DEF Record

\* A step that leaves the worker alone keeps it, even if the counter moves.
LEMMA StaleOther ==
    ASSUME TypeOK, TypeOK', stale \in [Workers -> Nat], Record, NEW w \in Workers,
           StaleOf(w), UNCHANGED <<pc[w], i[w], local[w], k[w]>>,
           job_counter <= job_counter'
    PROVE  StaleOf(w)'
    <1>1. stale'[w] = stale[w] \/ stale'[w] = 0
        BY StaleRecorded DEF Hashes
    <1>2. /\ job_counter \in Nat /\ job_counter' \in Nat /\ local[w] \in Nat
          /\ stale[w] \in Nat /\ k[w] \in Nat
        BY DEF TypeOK, SharedTypeOK, WorkerTypeOK
    <1>3. Lanes * k[w] \in Nat /\ Batch \in Nat
        BY <1>2, WorkerAssumption
    <1>. QED  BY <1>1, <1>2, <1>3 DEF StaleOf

\* A worker's own step keeps its stale hashes within the batch.
LEMMA StaleSelf ==
    ASSUME TypeOK, TypeOK', stale \in [Workers -> Nat], Record, NEW w \in Workers,
           StaleOf(w), WorkerStep(w)
    PROVE  StaleOf(w)'
    <1>0. /\ job_counter \in Nat /\ local[w] \in Nat /\ stale[w] \in Nat /\ k[w] \in Nat
        BY DEF TypeOK, SharedTypeOK, WorkerTypeOK
    <1>b. /\ pc \in [Workers -> WorkerPC] /\ k \in [Workers -> Nat]
          /\ local \in [Workers -> Nat]
        BY DEF TypeOK, WorkerTypeOK
    <1>c. Lanes \in Nat \ {0} /\ Batch \in Nat
        BY WorkerAssumption
    <1>a. UNCHANGED job_counter
        BY DEF WorkerStep, Start, CheckExit, Snapshot, Prepare, Sleep, Enter, Leave, Hash,
               Verify, EndPass, sharedVars, jobVars
    <1>1. CASE Hash(w)
        <2>1. /\ pc[w] = "hash" /\ UNCHANGED local
              /\ k'[w] = k[w] + 1
            BY <1>1, <1>b DEF Hash
        <2>2. pc'[w] = "verify" \/ pc'[w] = NextPass(k[w] + 1)
            BY <1>1, <1>b DEF Hash, Goto
        <2>3. /\ stale'[w] = stale[w] + Lanes => local[w] < job_counter
              /\ stale'[w] = stale[w] + Lanes \/ stale'[w] = stale[w]
            <3>1. stale'[w] = IF Hashes(w) /\ local[w] # job_counter THEN stale[w] + Lanes
                              ELSE stale[w]
                BY <2>1, StaleRecorded
            <3>2. local[w] <= job_counter
                BY DEF StaleOf
            <3>3. stale[w] + Lanes # stale[w]
                BY <1>0, <1>c
            <3>. QED  BY <1>0, <3>1, <3>2, <3>3
        <2>4. /\ stale'[w] <= Lanes * (k[w] + 1)
              /\ stale'[w] <= Batch
              /\ k[w] + 1 <= Passes
            <3>1. k[w] < Passes /\ stale[w] <= Lanes * k[w]
                BY <2>1 DEF StaleOf
            <3>. QED  BY <1>0, <1>a, <2>3, <3>1, OneMorePass
        <2>9. pc'[w] = "hash" => k'[w] < Passes
            BY <2>1, <2>2 DEF NextPass
        <2>10. stale'[w] > 0 => local[w] < job_counter
            BY <1>0, <2>3 DEF StaleOf
        <2>. QED  BY <1>0, <1>a, <2>1, <2>4, <2>9, <2>10 DEF StaleOf
    <1>2. CASE Snapshot(w)
        <2>1. pc'[w] \notin {"hash", "verify"}
            BY <1>2, <1>b DEF Snapshot, Goto
        <2>2. CASE pc[w] = "load"
            <3>1. stale'[w] = 0 /\ local'[w] = job_counter
                BY <1>2, <1>b, <2>2, StaleRecorded DEF Snapshot, Hashes
            <3>. QED  BY <1>0, <1>a, <1>c, <2>1, <3>1 DEF StaleOf
        <2>3. CASE pc[w] # "load"
            <3>1. stale'[w] = stale[w] /\ local'[w] = local[w]
                BY <1>2, <1>b, <2>3, StaleRecorded DEF Snapshot, Hashes
            <3>. QED  BY <1>0, <1>a, <2>1, <3>1 DEF StaleOf
        <2>. QED  BY <2>2, <2>3
    <1>3. CASE Enter(w)
        <2>1. /\ pc'[w] = "hash" /\ k'[w] = 0 /\ UNCHANGED <<local, i>>
              /\ local[w] = job_counter /\ pc[w] = "head"
            BY <1>3, <1>b DEF Enter, KeepGrinding, Goto
        <2>2. stale[w] = 0
            BY <1>0, <2>1 DEF StaleOf
        <2>3. stale'[w] = 0
            BY <2>1, <2>2, StaleRecorded DEF Hashes
        <2>4. 0 <= Lanes * 0 /\ 0 < Passes /\ 0 <= Batch
            BY <1>c, PassCount
        <2>5. 0 <= Passes
            BY PassCount
        <2>. QED  BY <1>0, <1>a, <2>1, <2>3, <2>4, <2>5 DEF StaleOf
    <1>4. CASE Verify(w)
        <2>1. UNCHANGED <<pc[w], i[w], local[w], k[w]>>
            BY <1>4 DEF Verify
        <2>2. job_counter <= job_counter'
            BY <1>0, <1>a
        <2>. QED  BY <2>1, <2>2, StaleOther
    <1>5. CASE EndPass(w)
        <2>1. /\ pc'[w] = "head" \/ pc'[w] = NextPass(k[w])
              /\ pc[w] = "verify" /\ UNCHANGED <<i, local, k>>
            BY <1>5, <1>b, Zenon DEF EndPass, Goto
        <2>2. stale'[w] = stale[w]
            BY <2>1, StaleRecorded DEF Hashes
        <2>3. pc'[w] = "hash" => k[w] < Passes
            BY <2>1 DEF NextPass
        <2>. QED  BY <1>0, <1>a, <2>1, <2>2, <2>3 DEF StaleOf
    <1>6. CASE Start(w) \/ CheckExit(w) \/ Prepare(w) \/ Sleep(w) \/ Leave(w)
        <2>1. pc'[w] \notin {"hash", "verify"} /\ UNCHANGED <<i, local, k>> /\ pc[w] # "load"
            BY <1>6, <1>b DEF Start, CheckExit, Prepare, Sleep, Leave, Goto
        <2>2. stale'[w] = stale[w]
            BY <2>1, StaleRecorded DEF Hashes
        <2>. QED  BY <1>0, <1>a, <2>1, <2>2 DEF StaleOf
    <1>. QED  BY <1>1, <1>2, <1>3, <1>4, <1>5, <1>6 DEF WorkerStep

\* Every step of the miner keeps every worker's stale hashes within the batch.
LEMMA StaleStep ==
    ASSUME TypeOK, TypeOK', StaleInv, Next, Record
    PROVE  StaleInv'
    <1>1. stale \in [Workers -> Nat] /\ \A w \in Workers : StaleOf(w)
        BY DEF StaleInv
    <1>2. stale' \in [Workers -> Nat]
        BY <1>1, WorkerAssumption DEF Record
    <1>3. ASSUME NEW w \in Workers  PROVE StaleOf(w)'
        <2>1. CASE \E v \in Workers : WorkerMoves(v)
            <3>1. PICK v \in Workers : WorkerStep(v)
                BY <2>1 DEF WorkerMoves
            <3>2. CASE v = w
                BY <1>1, <3>1, <3>2, StaleSelf
            <3>3. CASE v # w
                <4>1. UNCHANGED <<pc[w], i[w], local[w], k[w], job_counter>>
                    BY <3>1, <3>3
                    DEF TypeOK, WorkerTypeOK, WorkerStep, Start, CheckExit, Snapshot, Prepare,
                        Sleep, Enter, Leave, Hash, Verify, EndPass, Goto, sharedVars, jobVars
                <4>2. job_counter <= job_counter'
                    BY <4>1 DEF TypeOK, SharedTypeOK
                <4>. QED  BY <1>1, <4>1, <4>2, StaleOther
            <3>. QED  BY <3>2, <3>3
        <2>2. CASE GetWorkMoves
            <3>1. GetWorkStep /\ UNCHANGED workerVars
                BY <2>2 DEF GetWorkMoves
            <3>2. job_counter' = job_counter \/ job_counter' = job_counter + 1
                BY <3>1 DEF GetWorkStep, Reconnect, DialOk, DialFail, RetrySleep, Connected,
                            Drain, SessionLoop, SubmitShare, SubmitDone, ReadNothing, ReadPush,
                            ApplyJob, MirrorStatus, sharedVars, jobVars
            <3>3. job_counter <= job_counter'
                BY <3>2 DEF TypeOK, SharedTypeOK
            <3>. QED  BY <1>1, <3>1, <3>3, StaleOther DEF workerVars
        <2>3. CASE CommandMoves \/ Terminated
            <3>1. UNCHANGED <<workerVars, job_counter>>
                BY <2>3 DEF CommandMoves, CommandStep, Quit, RestoreTerminal, ProcessExit,
                            StdinError, StdinEof, Parked, Terminated, vars, sharedVars, jobVars
            <3>2. job_counter <= job_counter'
                BY <3>1 DEF TypeOK, SharedTypeOK
            <3>. QED  BY <1>1, <3>1, <3>2, StaleOther DEF workerVars
        <2>. QED  BY <2>1, <2>2, <2>3 DEF Next
    <1>. QED  BY <1>2, <1>3 DEF StaleInv

\* job_counter is looked at once per batch of HASH_COUNTER_FLUSH_INTERVAL: a
\* new job costs a worker at most one batch of hashes on the old one, in
\* either grind loop.
THEOREM StaleWorkIsBounded == HSpec => []StaleBound
    <1>1. HInit => StaleInv
        BY WorkerAssumption
        DEF HInit, Init, SharedInit, WorkerInit, StaleInv, StaleOf
    <1>2. TypeOK /\ TypeOK' /\ StaleInv /\ [HNext]_hvars => StaleInv'
        <2>1. ASSUME StaleInv, UNCHANGED hvars  PROVE StaleInv'
            BY <2>1 DEF StaleInv, StaleOf, hvars, historyVars, vars, sharedVars, jobVars, workerVars
        <2>. QED  BY <2>1, StaleStep DEF HNext
    <1>3. StaleInv => StaleBound
        BY DEF StaleInv, StaleOf, StaleBound
    <1>. QED  BY <1>1, <1>2, <1>3, HistoryTyped, PTL DEF HSpec

-----------------------------------------------------------------------------
(* A session starts clean *)

\* The backlog is a prefix of the channel, the whole of it until the drain is
\* over, and the drain leaves none of it.
\* The receiver lives until getwork returns.
SessionInv ==
    /\ backlog \in Nat
    /\ backlog <= Len(queue)
    /\ gpc = "drain" => backlog = Len(queue)
    /\ SessionClean
    /\ gpc # "done" => rx_open = TRUE

\* A worker adds behind the backlog, or to it while the drain runs.
LEMMA SessionWorkerStep ==
    ASSUME TypeOK, SessionInv, Record, NEW w \in Workers, WorkerStep(w),
           UNCHANGED <<getworkVars, cpc>>
    PROVE  SessionInv'
    <1>1. UNCHANGED <<gpc, rx_open>>
        BY DEF WorkerStep, Start, CheckExit, Snapshot, Prepare, Sleep, Enter, Leave, Hash,
               Verify, EndPass, sharedVars, channelVars, getworkVars
    <1>2. queue' = queue \/ \E s : queue' = Append(queue, s)
        <2>1. CASE Verify(w)
            <3>1. \E s : queue' = queue \/ Send(s)
                BY <2>1, Zenon DEF Verify
            <3>. QED  BY <3>1, Zenon DEF Send
        <2>2. CASE ~Verify(w)
            BY <2>2 DEF WorkerStep, Start, CheckExit, Snapshot, Prepare, Sleep, Enter, Leave,
                        Hash, EndPass, sharedVars, channelVars
        <2>. QED  BY <2>1, <2>2
    <1>3. queue \in Seq(Share)
        BY DEF TypeOK, SharedTypeOK
    <1>4. ~Pops
        BY <1>2, <1>3 DEF Pops
    <1>6. backlog' = IF gpc = "drain" THEN Len(queue') ELSE backlog
        BY <1>1, <1>4 DEF Record
    <1>7. Len(queue) <= Len(queue')
        BY <1>2, <1>3
    <1>8. Len(queue) \in Nat /\ Len(queue') \in Nat
        BY <1>2, <1>3
    <1>. QED  BY <1>1, <1>6, <1>7, <1>8 DEF SessionInv, SessionClean, InSession

\* The drain removes the whole backlog before a session begins.
LEMMA SessionGetWorkStep ==
    ASSUME TypeOK, SessionInv, Record, GetWorkStep
    PROVE  SessionInv'
    <1>0. queue \in Seq(Share) /\ Len(queue) \in Nat /\ backlog \in Nat /\ backlog <= Len(queue)
        BY DEF TypeOK, SharedTypeOK, SessionInv
    <1>1. CASE (Reconnect \/ SessionLoop) /\ exit
        <2>1. gpc # "done" /\ gpc' = "done" /\ rx_open' = FALSE /\ queue' = <<>>
            BY <1>1 DEF Reconnect, SessionLoop, Return
        <2>2. rx_open = TRUE
            BY <2>1 DEF SessionInv
        <2>3. backlog' = 0
            BY <2>1, <2>2 DEF Record
        <2>. QED  BY <2>1, <2>3 DEF SessionInv, SessionClean, InSession
    <1>2. CASE (Reconnect \/ SessionLoop) /\ ~exit
        <2>1. /\ UNCHANGED <<queue, rx_open>>
              /\ \/ gpc = "top" /\ gpc' = "dial"
                 \/ gpc = "loop" /\ gpc' = "submit"
            BY <1>2 DEF Reconnect, SessionLoop, channelVars
        <2>2. backlog' = backlog
            BY <1>0, <2>1 DEF Record, Pops
        <2>. QED  BY <2>1, <2>2 DEF SessionInv, SessionClean, InSession
    <1>3. CASE Connected
        <2>1. gpc = "up" /\ gpc' = "drain" /\ UNCHANGED <<queue, rx_open>>
            BY <1>3 DEF Connected, channelVars
        <2>2. backlog' = Len(queue)
            BY <2>1 DEF Record
        <2>. QED  BY <1>0, <2>1, <2>2 DEF SessionInv, SessionClean, InSession
    <1>4. CASE Drain \/ SubmitShare
        <2>1. gpc \in {"drain", "submit"} /\ UNCHANGED rx_open
            BY <1>4 DEF Drain, SubmitShare
        <2>2. CASE queue # <<>>
            <3>1. queue' = Tail(queue) /\ gpc' \in {gpc, "top", "submit"}
                BY <1>4, <2>2 DEF Drain, SubmitShare
            <3>2. Len(queue') = Len(queue) - 1
                BY <1>0, <2>2, <3>1
            <3>3. backlog' = IF gpc' = "drain" THEN Len(queue')
                             ELSE IF backlog > 0 THEN backlog - 1 ELSE backlog
                BY <2>1, <2>2, <3>1 DEF Record, Pops
            <3>4. backlog' \in Nat /\ backlog' <= Len(queue')
                <4>1. Len(queue) # 0 /\ Len(queue') \in Nat
                    BY <1>0, <2>2, <3>2
                <4>. QED  BY <1>0, <3>2, <3>3, <4>1
            <3>5. gpc = "submit" => gpc' # "drain" /\ backlog' = 0
                BY <3>1, <3>3 DEF SessionInv, SessionClean, InSession
            <3>6. gpc' = "submit" => gpc = "submit"
                BY <1>4, <2>1, <2>2 DEF Drain, SubmitShare
            <3>. QED  BY <2>1, <3>1, <3>3, <3>4, <3>5, <3>6 DEF SessionInv, SessionClean, InSession
        <2>3. CASE queue = <<>>
            <3>1. queue' = queue /\ gpc = "drain" /\ gpc' = "loop"
                BY <1>4, <2>3 DEF Drain, SubmitShare
            <3>2. backlog = 0
                BY <1>0, <2>3
            <3>3. backlog' = 0
                BY <2>1, <3>1, <3>2 DEF Record
            <3>. QED  BY <1>0, <2>1, <3>1, <3>3 DEF SessionInv, SessionClean, InSession
        <2>. QED  BY <2>2, <2>3
    <1>5. CASE \/ DialOk \/ DialFail \/ RetrySleep \/ SubmitDone \/ ReadNothing
               \/ \E t \in Templates : ReadPush(t)
               \/ ApplyJob \/ MirrorStatus
        <2>1. UNCHANGED <<queue, rx_open>>
            BY <1>5 DEF DialOk, DialFail, RetrySleep, SubmitDone, ReadNothing, ReadPush,
                        ApplyJob, MirrorStatus, sharedVars, channelVars
        <2>2. gpc # "done" /\ gpc' # "drain" /\ (InSession' => InSession)
            BY <1>5 DEF DialOk, DialFail, RetrySleep, SubmitDone, ReadNothing, ReadPush,
                        ApplyJob, MirrorStatus, InSession
        <2>3. backlog' = backlog
            BY <1>0, <2>1, <2>2 DEF Record, Pops
        <2>. QED  BY <2>1, <2>2, <2>3 DEF SessionInv, SessionClean
    <1>. QED  BY <1>1, <1>2, <1>3, <1>4, <1>5 DEF GetWorkStep

\* The command loop and stuttering do not touch the channel.
LEMMA SessionElse ==
    ASSUME TypeOK, SessionInv, Record, UNCHANGED <<queue, rx_open, gpc>>
    PROVE  SessionInv'
    <1>1. queue \in Seq(Share)
        BY DEF TypeOK, SharedTypeOK
    <1>2. backlog' = backlog
        BY <1>1 DEF Record, Pops, SessionInv
    <1>. QED  BY <1>2 DEF SessionInv, SessionClean, InSession

\* So every behaviour keeps the backlog a prefix of the channel.
LEMMA SessionInvariant == HSpec => []SessionInv
    <1>1. HInit => SessionInv
        BY DEF HInit, Init, SharedInit, GetWorkInit, SessionInv, SessionClean, InSession
    <1>2. TypeOK /\ SessionInv /\ [HNext]_hvars => SessionInv'
        <2> SUFFICES ASSUME TypeOK, SessionInv, [HNext]_hvars PROVE SessionInv'
            OBVIOUS
        <2>1. CASE Record /\ \E w \in Workers : WorkerMoves(w)
            BY <2>1, SessionWorkerStep, Zenon DEF WorkerMoves
        <2>2. CASE Record /\ GetWorkMoves
            BY <2>2, SessionGetWorkStep, Zenon DEF GetWorkMoves
        <2>3. CASE Record /\ (CommandMoves \/ Terminated)
            <3>1. UNCHANGED <<queue, rx_open, gpc>>
                BY <2>3 DEF CommandMoves, CommandStep, Quit, RestoreTerminal, ProcessExit,
                            StdinError, StdinEof, Parked, Terminated, vars, sharedVars,
                            channelVars, getworkVars
            <3>. QED  BY <2>3, <3>1, SessionElse
        <2>4. CASE UNCHANGED hvars
            BY <2>4 DEF SessionInv, SessionClean, InSession, hvars, historyVars, vars,
                        sharedVars, channelVars, getworkVars
        <2>. QED  BY <2>1, <2>2, <2>3, <2>4 DEF HNext, Next
    <1>. QED  BY <1>1, <1>2, HistoryTyped, PTL DEF HSpec

\* The drain after the upgrade runs until the channel is empty, so no share sent
\* before the session loop began, or while the drain ran, is ever written in it.
THEOREM SessionsStartClean == HSpec => []SessionClean
    <1>1. SessionInv => SessionClean
        BY DEF SessionInv
    <1>. QED  BY <1>1, SessionInvariant, PTL

-----------------------------------------------------------------------------
(* Shares name jobs that were offered *)

\* A job other than the empty one a miner starts with was pushed, and nobody
\* grinds the empty one.
OfferInv ==
    /\ job.tmpl \in offered \cup {Default}
    /\ \A w \in Workers : snap[w].tmpl \in offered \cup {Default}
    /\ \A w \in Workers : pc[w] \in {"head", "hash", "verify"} => snap[w].tmpl \notin Malformed

\* A step of the threads keeps it.
LEMMA OfferStep ==
    ASSUME TypeOK, TypeOK', OfferInv, Next, Record
    PROVE  OfferInv'
    <1> USE DEF TypeOK, SharedTypeOK, WorkerTypeOK
    <1>1. offered \subseteq offered' /\ (job' # job => job'.tmpl \in offered')
        BY DEF Record
    <1>2. job'.tmpl \in offered' \cup {Default}
        BY <1>1 DEF OfferInv
    <1>3. CASE \E w \in Workers : WorkerMoves(w)
        <2>1. PICK w \in Workers : WorkerStep(w)
            BY <1>3 DEF WorkerMoves
        <2>2. ASSUME NEW v \in Workers, v # w
              PROVE  UNCHANGED <<pc[v], snap[v]>>
            BY <2>1, <2>2 DEF WorkerStep, Start, CheckExit, Snapshot, Prepare, Sleep, Enter, Leave,
                              Hash, Verify, EndPass, Goto
        <2>3. snap'[w] = snap[w] \/ (snap'[w] = job /\ pc'[w] = "prep")
            BY <2>1 DEF WorkerStep, Start, CheckExit, Snapshot, Prepare, Sleep, Enter, Leave,
                        Hash, Verify, EndPass, Goto
        <2>4. pc'[w] \in {"head", "hash", "verify"} => snap'[w].tmpl \notin Malformed
            <3>1. CASE Prepare(w)
                BY <3>1, Zenon DEF Prepare, Goto
            <3>2. CASE Hash(w) \/ Verify(w) \/ EndPass(w) \/ Enter(w)
                BY <3>2 DEF OfferInv, Hash, Verify, EndPass, Enter
            <3>3. CASE Start(w) \/ CheckExit(w) \/ Snapshot(w) \/ Sleep(w) \/ Leave(w)
                BY <3>3 DEF Start, CheckExit, Snapshot, Sleep, Leave, Goto
            <3>. QED  BY <2>1, <3>1, <3>2, <3>3 DEF WorkerStep
        <2>. QED  BY <1>1, <1>2, <2>2, <2>3, <2>4 DEF OfferInv
    <1>4. CASE GetWorkMoves \/ CommandMoves \/ Terminated
        <2>1. UNCHANGED <<pc, snap>>
            BY <1>4 DEF GetWorkMoves, CommandMoves, Terminated, vars, workerVars
        <2>. QED  BY <1>1, <1>2, <2>1 DEF OfferInv
    <1>. QED  BY <1>3, <1>4 DEF Next

\* So does every behaviour.
LEMMA OfferInvariant == HSpec => []OfferInv
    <1>1. HInit => OfferInv
        BY DEF HInit, Init, SharedInit, WorkerInit, OfferInv
    <1>2. TypeOK /\ TypeOK' /\ OfferInv /\ [HNext]_hvars => OfferInv'
        <2>1. ASSUME OfferInv, UNCHANGED hvars  PROVE OfferInv'
            BY <2>1 DEF OfferInv, hvars, historyVars, vars, sharedVars, jobVars, workerVars
        <2>. QED  BY <2>1, OfferStep DEF HNext
    <1>. QED  BY <1>1, <1>2, HistoryTyped, PTL DEF HSpec

-----------------------------------------------------------------------------
(* No share is sent twice *)

\* Of worker t, nothing sent or queued lies above nonce n.
Behind(q, out, t, n) ==
    /\ \A s \in out : s.work.tid = t => s.work.nonce <= n
    /\ \A j \in 1 .. Len(q) : q[j].work.tid = t => q[j].work.nonce <= n

\* The shares of worker t were sent, and are queued, in the order of their nonces.
Ordered(q, out, t) ==
    /\ \A s \in out : \A j \in 1 .. Len(q) :
          s.work.tid = t /\ q[j].work.tid = t => s.work.nonce < q[j].work.nonce
    /\ \A j, m \in 1 .. Len(q) :
          j < m /\ q[j].work.tid = t /\ q[m].work.tid = t => q[j].work.nonce < q[m].work.nonce

\* Until a worker's counter wraps, its shares are in order at or below it, and a
\* lane that still waits for its verification comes after all of them.
OrderOf(t) ==
    t \notin lapped =>
      /\ Ordered(queue, sent, t)
      /\ Behind(queue, sent, t, i[t])
      /\ \A l \in cand[t] : Lanes - l <= i[t] /\ Behind(queue, sent, t, i[t] - (Lanes - l) - 1)

OrderInv == \A t \in Workers : OrderOf(t)

\* Taking the head off the channel, sent or lost, disturbs no order.
LEMMA PopOrder ==
    ASSUME NEW q \in Seq(Share), q # <<>>, NEW out \in SUBSET Share, NEW t \in Workers,
           NEW more \in SUBSET {Head(q)}, Ordered(q, out, t)
    PROVE  /\ Ordered(Tail(q), out \cup more, t)
           /\ \A n \in Int : Behind(q, out, t, n) => Behind(Tail(q), out \cup more, t, n)
    <1>1. Head(q) = q[1] /\ 1 \in 1 .. Len(q)
        OBVIOUS
    <1>2. /\ Len(Tail(q)) = Len(q) - 1
          /\ \A j \in 1 .. Len(Tail(q)) : j + 1 \in 1 .. Len(q) /\ Tail(q)[j] = q[j + 1] /\ 1 < j + 1
        OBVIOUS
    <1>3. \A s \in out \cup more : s \in out \/ s = q[1]
        BY <1>1
    <1>4. Len(Tail(q)) \in Nat /\ \A j \in 1 .. Len(Tail(q)) : j \in Nat
        OBVIOUS
    <1> DEFINE r == Tail(q)
               all == out \cup more
    <1> HIDE DEF r, all
    <1>5. \A s \in all : \A j \in 1 .. Len(r) :
              s.work.tid = t /\ r[j].work.tid = t => s.work.nonce < r[j].work.nonce
        BY <1>1, <1>2, <1>3 DEF Ordered, r, all
    <1>6. \A j, m \in 1 .. Len(r) :
              j < m /\ r[j].work.tid = t /\ r[m].work.tid = t => r[j].work.nonce < r[m].work.nonce
        <2> SUFFICES ASSUME NEW j \in 1 .. Len(r), NEW m \in 1 .. Len(r), j < m,
                            r[j].work.tid = t, r[m].work.tid = t
                     PROVE  r[j].work.nonce < r[m].work.nonce
            OBVIOUS
        <2>1. j + 1 \in 1 .. Len(q) /\ m + 1 \in 1 .. Len(q) /\ j + 1 < m + 1
              /\ r[j] = q[j + 1] /\ r[m] = q[m + 1]
            BY <1>2, <1>4 DEF r
        <2>. QED  BY <2>1, Zenon DEF Ordered
    <1>7. ASSUME NEW n \in Int, Behind(q, out, t, n)  PROVE Behind(r, all, t, n)
        BY <1>1, <1>2, <1>3, <1>7 DEF Behind, r, all
    <1>. QED  BY <1>5, <1>6, <1>7 DEF Ordered, r, all

\* A share above all that its worker sent and queued may join the channel.
LEMMA AppendOrder ==
    ASSUME NEW q \in Seq(Share), NEW out \in SUBSET Share, NEW t \in Workers, NEW x \in Share,
           Ordered(q, out, t), x.work.tid = t => Behind(q, out, t, x.work.nonce - 1)
    PROVE  /\ Ordered(Append(q, x), out, t)
           /\ \A n \in Int : Behind(q, out, t, n) /\ (x.work.tid = t => x.work.nonce <= n)
                 => Behind(Append(q, x), out, t, n)
    <1> DEFINE r == Append(q, x)
    <1>1. /\ Len(r) = Len(q) + 1 /\ Len(q) \in Nat /\ r[Len(q) + 1] = x
          /\ \A j \in 1 .. Len(q) : r[j] = q[j]
          /\ \A j \in 1 .. Len(r) : j \in 1 .. Len(q) \/ j = Len(q) + 1
        OBVIOUS
    <1>2. \A s \in Share : s.work.nonce \in Int
        BY SharedAssumption DEF Share, Work, Nonce
    <1>3. \A j \in 1 .. Len(q) : q[j] \in Share
        OBVIOUS
    <1> HIDE DEF r
    <1>4. x.work.tid = t => /\ \A s \in out : s.work.tid = t => s.work.nonce < x.work.nonce
                            /\ \A j \in 1 .. Len(q) : q[j].work.tid = t => q[j].work.nonce < x.work.nonce
        BY <1>2, <1>3 DEF Behind
    <1>5. \A s \in out : \A j \in 1 .. Len(r) :
              s.work.tid = t /\ r[j].work.tid = t => s.work.nonce < r[j].work.nonce
        BY <1>1, <1>4 DEF Ordered
    <1>6. \A j, m \in 1 .. Len(r) :
              j < m /\ r[j].work.tid = t /\ r[m].work.tid = t => r[j].work.nonce < r[m].work.nonce
        <2> SUFFICES ASSUME NEW j \in 1 .. Len(r), NEW m \in 1 .. Len(r), j < m,
                            r[j].work.tid = t, r[m].work.tid = t
                     PROVE  r[j].work.nonce < r[m].work.nonce
            OBVIOUS
        <2>1. j \in 1 .. Len(q)
            BY <1>1
        <2>2. CASE m \in 1 .. Len(q)
            BY <1>1, <2>1, <2>2 DEF Ordered
        <2>3. CASE m = Len(q) + 1
            BY <1>1, <1>4, <2>1, <2>3
        <2>. QED  BY <1>1, <2>2, <2>3
    <1>7. ASSUME NEW n \in Int, Behind(q, out, t, n), x.work.tid = t => x.work.nonce <= n
          PROVE  Behind(r, out, t, n)
        BY <1>1, <1>7 DEF Behind
    <1>. QED  BY <1>5, <1>6, <1>7 DEF Ordered, r

\* A higher bound is a bound.
LEMMA BehindMore ==
    ASSUME NEW q \in Seq(Share), NEW out \in SUBSET Share, NEW t \in Workers,
           NEW m \in Int, NEW n \in Int, m <= n, Behind(q, out, t, m)
    PROVE  Behind(q, out, t, n)
    <1>1. \A s \in Share : s.work.nonce \in Int
        BY SharedAssumption DEF Share, Work, Nonce
    <1>2. \A j \in 1 .. Len(q) : q[j] \in Share
        OBVIOUS
    <1>. QED  BY <1>1, <1>2 DEF Behind

\* Only a write to the websocket sends, and no worker takes from the channel.
LEMMA WorkerSendsNothing ==
    ASSUME TypeOK, Record, NEW w \in Workers, WorkerStep(w), UNCHANGED getworkVars
    PROVE  /\ UNCHANGED <<gpc, rx_open, job, sent, offered>>
           /\ backlog' = IF gpc = "drain" THEN Len(queue') ELSE backlog
           /\ ~Verify(w) => UNCHANGED queue
    <1>1. UNCHANGED <<gpc, rx_open, job>>
        BY DEF WorkerStep, Start, CheckExit, Snapshot, Prepare, Sleep, Enter, Leave, Hash,
               Verify, EndPass, sharedVars, jobVars, channelVars, getworkVars
    <1>2. CASE Verify(w)
        <2>1. \E s : queue' = queue \/ Send(s)
            BY <1>2, Zenon DEF Verify
        <2>2. queue' = queue \/ \E s : queue' = Append(queue, s)
            BY <2>1, Zenon DEF Send
        <2>3. queue \in Seq(Share)
            BY DEF TypeOK, SharedTypeOK
        <2>4. ~Pops
            BY <2>2, <2>3 DEF Pops
        <2>. QED  BY <1>1, <1>2, <2>4 DEF Record, Writes
    <1>3. CASE ~Verify(w)
        <2>1. UNCHANGED queue
            BY <1>3 DEF WorkerStep, Start, CheckExit, Snapshot, Prepare, Sleep, Enter, Leave,
                        Hash, EndPass, sharedVars, channelVars
        <2>2. queue \in Seq(Share)
            BY DEF TypeOK, SharedTypeOK
        <2>3. ~Pops
            BY <2>1, <2>2 DEF Pops
        <2>. QED  BY <1>1, <2>1, <2>3 DEF Record, Writes
    <1>. QED  BY <1>2, <1>3

\* What verification hands over: the work of the lowest waiting lane.
LEMMA VerifySends ==
    ASSUME TypeOK, ShareInv, NEW w \in Workers, Verify(w)
    PROVE  \E l \in cand[w] :
             /\ l \in 1 .. Lanes /\ \A m \in cand[w] : l <= m
             /\ ShareFor(w, l) \in Share
             /\ ShareFor(w, l).jobid = snap[w].tmpl
             /\ ShareFor(w, l).work = LaneWork(w, l)
             /\ ShareFor(w, l).work.tid = w
             /\ ShareFor(w, l).work.job = snap[w].tmpl
             /\ ShareFor(w, l).work.nonce = WrappingSub(i[w], Lanes - l)
             /\ \/ UNCHANGED queue
                \/ queue' = Append(queue, ShareFor(w, l)) /\ LaneWork(w, l) \in Winners
             /\ cand' = [cand EXCEPT ![w] = @ \ {l}]
    <1>1. PICK l \in cand[w] :
            /\ \A m \in cand[w] : l <= m
            /\ IF CanonicalOk(w, LaneWork(w, l)) THEN Send(ShareFor(w, l)) ELSE UNCHANGED queue
            /\ cand' = [cand EXCEPT ![w] = @ \ {l}]
        BY DEF Verify
    <1>2. l \in 1 .. Lanes /\ i[w] \in Nonce /\ snap[w].tmpl \in Templates /\ pc[w] = "verify"
        BY DEF TypeOK, WorkerTypeOK, Push, Verify
    <1>3. WrappingSub(i[w], Lanes - l) \in Nonce
        BY <1>2, LaneTyped, WrapTyped
    <1>4. /\ ShareFor(w, l) \in Share
          /\ ShareFor(w, l).jobid = snap[w].tmpl
          /\ ShareFor(w, l).work = LaneWork(w, l)
          /\ ShareFor(w, l).work.tid = w
          /\ ShareFor(w, l).work.job = snap[w].tmpl
          /\ ShareFor(w, l).work.nonce = WrappingSub(i[w], Lanes - l)
        BY <1>2, <1>3 DEF ShareFor, Share, Work, LaneWork, WorkAt
    <1>5. CanonicalOk(w, LaneWork(w, l)) => LaneWork(w, l) \in Winners
        BY <1>2 DEF CanonicalOk, ShareInv
    <1>6. UNCHANGED queue \/ (queue' = Append(queue, ShareFor(w, l)) /\ LaneWork(w, l) \in Winners)
        BY <1>1, <1>5, Zenon DEF Send
    <1>. QED  BY <1>1, <1>2, <1>4, <1>6, Zenon

\* A worker's step keeps the order of every worker's shares.
LEMMA OrderWorkerStep ==
    ASSUME TypeOK, TypeOK', HTypeOK, MadeInv, ShareInv, OrderInv, Next, Record, NEW w \in Workers,
           WorkerStep(w), UNCHANGED getworkVars, NEW t \in Workers
    PROVE  OrderOf(t)'
    <1> USE DEF TypeOK, WorkerTypeOK
    <1>1. sent' = sent /\ queue \in Seq(Share) /\ sent \in SUBSET Share
        BY WorkerSendsNothing DEF SharedTypeOK, HTypeOK
    <1>2. /\ i[t] \in Int /\ i'[t] \in Int /\ i[t] \in Nonce /\ Lanes \in Nat
          /\ cand[t] \subseteq 1 .. Lanes /\ cand'[t] \subseteq 1 .. Lanes
          /\ \A l \in 1 .. Lanes : l \in Int /\ Lanes - l \in Nat /\ Lanes - l < NonceMod
        BY SharedAssumption, WorkerAssumption DEF Nonce
    <1>3. lapped \subseteq lapped' /\ (t \notin lapped' => ~(i'[t] < i[t]))
        <2> HIDE DEF TypeOK, WorkerTypeOK
        <2>1. lapped \subseteq lapped'
            BY DEF Record
        <2>. QED  BY <2>1, LapsOnWrap
    <1> SUFFICES ASSUME t \notin lapped'
                 PROVE  /\ Ordered(queue', sent, t)
                        /\ Behind(queue', sent, t, i'[t])
                        /\ \A l \in cand'[t] : /\ Lanes - l <= i'[t]
                                               /\ Behind(queue', sent, t, i'[t] - (Lanes - l) - 1)
        BY <1>1 DEF OrderOf
    <1>4. /\ Ordered(queue, sent, t) /\ Behind(queue, sent, t, i[t])
          /\ \A l \in cand[t] : Lanes - l <= i[t] /\ Behind(queue, sent, t, i[t] - (Lanes - l) - 1)
        BY <1>3 DEF OrderInv, OrderOf
    <1>5. CASE Hash(w)
        <2>1. UNCHANGED queue /\ i' = [i EXCEPT ![w] = WrappingAdd(@, Lanes)]
            BY <1>5 DEF Hash, Advance, channelVars
        <2>2. CASE t # w
            <3>1. i'[t] = i[t] /\ cand'[t] = cand[t]
                BY <1>5, <2>2 DEF Hash, Advance
            <3>. QED  BY <1>4, <2>1, <3>1
        <2>3. CASE t = w
            <3>1. i'[t] = i[t] + Lanes
                BY <1>2, <1>3, <2>1, <2>3, SharedAssumption, WorkerAssumption DEF WrappingAdd, Nonce
            <3>2. i[t] <= i'[t] /\ i[t] \in Nat
                BY <1>2, <3>1 DEF Nonce
            <3>3. Behind(queue, sent, t, i'[t])
                BY <1>1, <1>2, <1>4, <3>2, BehindMore
            <3>4. ASSUME NEW l \in cand'[t]
                  PROVE  Lanes - l <= i'[t] /\ Behind(queue, sent, t, i'[t] - (Lanes - l) - 1)
                <4>1. l \in 1 .. Lanes
                    BY <1>2
                <4> DEFINE n == i'[t] - (Lanes - l) - 1
                <4>2. Lanes - l <= i'[t] /\ n \in Int /\ i[t] <= n
                    BY <1>2, <3>1, <3>2, <4>1
                <4> HIDE DEF n
                <4>3. Behind(queue, sent, t, n)
                    BY <1>1, <1>2, <1>4, <4>2, BehindMore
                <4>. QED  BY <4>2, <4>3 DEF n
            <3>. QED  BY <1>4, <2>1, <3>3, <3>4
        <2>. QED  BY <2>2, <2>3
    <1>6. CASE Verify(w)
        <2>1. PICK l \in cand[w] :
                 /\ l \in 1 .. Lanes /\ \A m \in cand[w] : l <= m
                 /\ ShareFor(w, l) \in Share
                 /\ ShareFor(w, l).work.tid = w
                 /\ ShareFor(w, l).work.nonce = WrappingSub(i[w], Lanes - l)
                 /\ UNCHANGED queue \/ queue' = Append(queue, ShareFor(w, l))
                 /\ cand' = [cand EXCEPT ![w] = @ \ {l}]
            BY <1>6, VerifySends, Zenon
        <2> DEFINE x == ShareFor(w, l)
        <2>2. UNCHANGED i /\ cand'[t] \subseteq cand[t] /\ (t = w => cand'[t] = cand[t] \ {l})
            BY <1>6, <2>1 DEF Verify
        <2>3. CASE UNCHANGED queue
            BY <1>4, <2>2, <2>3
        <2>4. CASE queue' = Append(queue, x)
            <3>1. x \in Share /\ x.work.tid = w /\ x.work.nonce = WrappingSub(i[w], Lanes - l)
                BY <2>1
            <3> HIDE DEF x
            <3>2. t = w => x.work.nonce = i[t] - (Lanes - l)
                BY <1>2, <1>4, <2>1, <3>1 DEF WrappingSub
            <3>3. x.work.tid = t => Behind(queue, sent, t, x.work.nonce - 1)
                BY <1>4, <2>1, <3>1, <3>2
            <3>4. /\ Ordered(queue', sent, t)
                  /\ \A n \in Int : Behind(queue, sent, t, n) /\ (x.work.tid = t => x.work.nonce <= n)
                        => Behind(queue', sent, t, n)
                BY <1>1, <1>4, <2>4, <3>1, <3>3, AppendOrder
            <3>5. Behind(queue', sent, t, i'[t])
                <4>1. x.work.tid = t => x.work.nonce <= i[t]
                    BY <1>2, <2>1, <3>1, <3>2
                <4>. QED  BY <1>2, <1>4, <2>2, <3>4, <4>1
            <3>6. ASSUME NEW m \in cand'[t]
                  PROVE  Lanes - m <= i'[t] /\ Behind(queue', sent, t, i'[t] - (Lanes - m) - 1)
                <4>1. m \in cand[t] /\ m \in 1 .. Lanes /\ (t = w => l < m)
                    <5>1. m \in cand[t] /\ (t = w => m # l)
                        BY <2>2
                    <5>2. m \in 1 .. Lanes
                        BY <1>2, <5>1
                    <5>3. t = w => l <= m
                        BY <2>1, <5>1
                    <5>4. l \in Nat /\ m \in Nat
                        BY <2>1, <5>2
                    <5> HIDE DEF TypeOK, WorkerTypeOK
                    <5>. QED  BY <5>1, <5>2, <5>3, <5>4
                <4> DEFINE n == i[t] - (Lanes - m) - 1
                <4>2. n \in Int /\ (x.work.tid = t => x.work.nonce <= n)
                    <5>1. l \in Int /\ m \in Int /\ Lanes \in Int /\ i[t] \in Int
                        BY <1>2, <2>1, <4>1
                    <5>2. t = w => i[t] - (Lanes - l) <= n
                        BY <4>1, <5>1
                    <5>. QED  BY <3>1, <3>2, <5>1, <5>2
                <4>3. Lanes - m <= i[t] /\ Behind(queue, sent, t, n)
                    BY <1>4, <4>1
                <4> HIDE DEF n
                <4>4. Behind(queue', sent, t, n)
                    BY <3>4, <4>2, <4>3
                <4>. QED  BY <2>2, <4>3, <4>4 DEF n
            <3>. QED  BY <3>4, <3>5, <3>6
        <2>. QED  BY <2>1, <2>3, <2>4
    <1>7. CASE ~Hash(w) /\ ~Verify(w)
        <2>1. UNCHANGED <<i, cand, queue>>
            BY <1>7 DEF WorkerStep, Start, CheckExit, Snapshot, Prepare, Sleep, Enter, Leave,
                        EndPass, sharedVars, channelVars
        <2>. QED  BY <1>4, <2>1
    <1>. QED  BY <1>5, <1>6, <1>7

\* The connection thread takes shares from the head, or all with the receiver.
LEMMA OrderGetWorkStep ==
    ASSUME TypeOK, HTypeOK, OrderInv, Record, GetWorkStep, UNCHANGED workerVars, NEW t \in Workers
    PROVE  OrderOf(t)'
    <1>1. UNCHANGED <<i, cand>> /\ lapped \subseteq lapped'
        BY DEF workerVars, Record
    <1>2. queue \in Seq(Share) /\ sent \in SUBSET Share
        BY DEF TypeOK, SharedTypeOK, HTypeOK
    <1>3. \/ UNCHANGED queue
          \/ queue' = <<>>
          \/ queue # <<>> /\ queue' = Tail(queue)
        BY DEF GetWorkStep, Reconnect, DialOk, DialFail, RetrySleep, Connected, Drain,
               SessionLoop, SubmitShare, SubmitDone, ReadNothing, ReadPush, ApplyJob,
               MirrorStatus, Return, sharedVars, channelVars
    <1> SUFFICES ASSUME t \notin lapped'
                 PROVE  /\ Ordered(queue', sent', t)
                        /\ Behind(queue', sent', t, i[t])
                        /\ \A l \in cand[t] : /\ Lanes - l <= i[t]
                                              /\ Behind(queue', sent', t, i[t] - (Lanes - l) - 1)
        BY <1>1 DEF OrderOf
    <1>4. /\ Ordered(queue, sent, t) /\ Behind(queue, sent, t, i[t])
          /\ \A l \in cand[t] : Lanes - l <= i[t] /\ Behind(queue, sent, t, i[t] - (Lanes - l) - 1)
        BY <1>1 DEF OrderInv, OrderOf
    <1>5. i[t] \in Int /\ \A l \in cand[t] : i[t] - (Lanes - l) - 1 \in Int
        BY WorkerAssumption, SharedAssumption DEF TypeOK, WorkerTypeOK, Nonce
    <1>6. CASE queue # <<>> /\ queue' = Tail(queue)
        <2>1. PICK more \in SUBSET {Head(queue)} : sent' = sent \cup more
            <3>1. sent' = sent \cup {} \/ sent' = sent \cup {Head(queue)}
                BY DEF Record
            <3>. QED  BY <3>1, Zenon
        <2>2. /\ Ordered(queue', sent', t)
              /\ \A n \in Int : Behind(queue, sent, t, n) => Behind(queue', sent', t, n)
            BY <1>2, <1>4, <1>6, <2>1, PopOrder
        <2>. QED  BY <1>4, <1>5, <2>2
    <1>7. CASE ~(queue # <<>> /\ queue' = Tail(queue)) /\ UNCHANGED queue
        <2>1. sent' = sent
            BY <1>7 DEF Record, Writes, Pops
        <2>. QED  BY <1>4, <1>7, <2>1
    <1>8. CASE ~(queue # <<>> /\ queue' = Tail(queue)) /\ queue' = <<>>
        <2>1. sent' = sent
            BY <1>8 DEF Record, Writes, Pops
        <2>2. Len(queue') = 0
            BY <1>8
        <2>. QED  BY <1>4, <2>1, <2>2 DEF Ordered, Behind
    <1>. QED  BY <1>3, <1>6, <1>7, <1>8

\* Every step keeps the shares of a worker that has not wrapped in order.
LEMMA OrderInvariant == HSpec => []OrderInv
    <1>1. HInit => OrderInv
        BY DEF HInit, Init, SharedInit, WorkerInit, OrderInv, OrderOf, Ordered, Behind
    <1>2. TypeOK /\ TypeOK' /\ HTypeOK /\ MadeInv /\ ShareInv /\ OrderInv /\ [HNext]_hvars => OrderInv'
        <2> SUFFICES ASSUME TypeOK, TypeOK', HTypeOK, MadeInv, ShareInv, OrderInv,
                            [HNext]_hvars, NEW t \in Workers
                     PROVE  OrderOf(t)'
            BY DEF OrderInv
        <2>1. CASE Record /\ \E w \in Workers : WorkerMoves(w)
            <3>1. PICK w \in Workers : WorkerStep(w) /\ UNCHANGED getworkVars
                BY <2>1 DEF WorkerMoves
            <3>2. Next
                BY <2>1 DEF Next
            <3>. QED  BY <2>1, <3>1, <3>2, OrderWorkerStep
        <2>2. CASE Record /\ GetWorkMoves
            <3>1. GetWorkStep /\ UNCHANGED workerVars
                BY <2>2 DEF GetWorkMoves
            <3>. QED  BY <2>2, <3>1, OrderGetWorkStep
        <2>3. CASE Record /\ (CommandMoves \/ Terminated)
            <3>1. UNCHANGED <<queue, i, cand>>
                BY <2>3 DEF CommandMoves, CommandStep, Quit, RestoreTerminal, ProcessExit,
                            StdinError, StdinEof, Parked, Terminated, vars, sharedVars,
                            channelVars, workerVars
            <3>2. queue \in Seq(Share)
                BY DEF TypeOK, SharedTypeOK
            <3>3. sent' = sent /\ lapped \subseteq lapped'
                BY <2>3, <3>1, <3>2 DEF Record, Writes, Pops
            <3>. QED  BY <3>1, <3>3 DEF OrderInv, OrderOf
        <2>4. CASE UNCHANGED hvars
            BY <2>4 DEF OrderInv, OrderOf, hvars, historyVars, vars, sharedVars, channelVars,
                        workerVars
        <2>. QED  BY <2>1, <2>2, <2>3, <2>4 DEF HNext, Next
    <1>3. HSpec => []ShareInv
        BY HistoryIsMiner, ShareInvariant, PTL
    <1>. QED  BY <1>1, <1>2, <1>3, HistoryTyped, HistoryTypeCorrect, MadeInvariant, PTL DEF HSpec

-----------------------------------------------------------------------------
(* The refinement *)

\* The channel behind its first b entries.
After(q, b) == SubSeq(q, b + 1, Len(q))

\* A share joins the end of what lies behind the backlog.
LEMMA AfterAppend ==
    ASSUME NEW T, NEW q \in Seq(T), NEW b \in Nat, b <= Len(q), NEW x \in T
    PROVE  After(Append(q, x), b) = Append(After(q, b), x)
    <1> DEFINE m == Len(q) - b
               u == After(Append(q, x), b)
               v == After(q, b)
    <1>1. m \in Nat /\ Len(q) \in Nat /\ Len(Append(q, x)) = Len(q) + 1
        OBVIOUS
    <1>2. u \in Seq(T) /\ Len(u) = m + 1 /\ \A j \in 1 .. m + 1 : u[j] = Append(q, x)[b + j]
        BY <1>1 DEF After
    <1>3. v \in Seq(T) /\ Len(v) = m /\ \A j \in 1 .. m : v[j] = q[b + j]
        BY <1>1 DEF After
    <1>4. \A j \in 1 .. m + 1 : Append(q, x)[b + j] = IF j = m + 1 THEN x ELSE q[b + j]
        BY <1>1
    <1> HIDE DEF u, v, m
    <1>5. /\ Append(v, x) \in Seq(T) /\ Len(Append(v, x)) = m + 1
          /\ \A j \in 1 .. m + 1 : Append(v, x)[j] = IF j = m + 1 THEN x ELSE v[j]
        BY <1>1, <1>3
    <1>6. \A j \in 1 .. m + 1 : u[j] = Append(v, x)[j]
        <2> SUFFICES ASSUME NEW j \in 1 .. m + 1  PROVE u[j] = Append(v, x)[j]
            OBVIOUS
        <2>1. u[j] = Append(q, x)[b + j] /\ Append(q, x)[b + j] = IF j = m + 1 THEN x ELSE q[b + j]
            BY <1>2, <1>4
        <2>2. j # m + 1 => v[j] = q[b + j]
            BY <1>1, <1>3
        <2>3. Append(v, x)[j] = IF j = m + 1 THEN x ELSE v[j]
            BY <1>5
        <2>. QED  BY <2>1, <2>2, <2>3, Zenon
    <1>7. u = Append(v, x)
        BY <1>1, <1>2, <1>5, <1>6
    <1>. QED  BY <1>7 DEF u, v

\* Dropping one of the backlog leaves what lies behind it.
LEMMA AfterTail ==
    ASSUME NEW T, NEW q \in Seq(T), q # <<>>, NEW b \in Nat, b > 0, b <= Len(q)
    PROVE  After(Tail(q), b - 1) = After(q, b)
    BY DEF After

\* Without a backlog the channel is the pool, and behind all of it is nothing.
LEMMA AfterEnds ==
    ASSUME NEW T, NEW q \in Seq(T)
    PROVE  After(q, 0) = q /\ After(q, Len(q)) = <<>>
    BY DEF After

\* The miner's promise at the first state.
LEMMA FlowInits == HInit => Flow!FlowInit
    BY DEF HInit, Init, SharedInit, Flow!FlowInit

\* Everything the refinement needs to know of a state.
FlowInv ==
    /\ TypeOK /\ HTypeOK /\ ShareInv /\ SessionInv /\ OfferInv /\ OrderInv

\* A worker finds a share, or wraps, or does nothing the daemon can see.
LEMMA FlowWorkerStep ==
    ASSUME FlowInv, Record, NEW w \in Workers, WorkerStep(w), UNCHANGED getworkVars
    PROVE  [Flow!FlowNext]_(Flow!flowVars)
    <1> USE DEF FlowInv
    <1>1. /\ UNCHANGED <<sent, offered>> /\ (~Verify(w) => UNCHANGED queue)
          /\ backlog' = IF gpc = "drain" THEN Len(queue') ELSE backlog
        BY WorkerSendsNothing
    <1>2. /\ queue \in Seq(Share) /\ backlog \in Nat /\ backlog <= Len(queue)
          /\ gpc = "drain" => backlog = Len(queue)
        BY DEF TypeOK, SharedTypeOK, SessionInv
    <1>a. UNCHANGED queue => UNCHANGED backlog
        BY <1>1, <1>2
    <1>3. CASE Verify(w)
        <2>1. PICK l \in cand[w] :
                 /\ ShareFor(w, l) \in Share
                 /\ ShareFor(w, l).jobid = snap[w].tmpl
                 /\ ShareFor(w, l).work = LaneWork(w, l)
                 /\ ShareFor(w, l).work.job = snap[w].tmpl
                 /\ \/ UNCHANGED queue
                    \/ queue' = Append(queue, ShareFor(w, l)) /\ LaneWork(w, l) \in Winners
            BY <1>3, VerifySends, Zenon
        <2> DEFINE x == ShareFor(w, l)
        <2> HIDE DEF x
        <2>2. lapped' = lapped
            <3>1. UNCHANGED k
                BY <1>3 DEF Verify
            <3>. QED  BY <3>1 DEF Record, Hashes
        <2>3. CASE UNCHANGED queue
            BY <1>1, <1>a, <2>2, <2>3 DEF Flow!flowVars
        <2>5. CASE gpc = "drain" /\ queue' = Append(queue, x) /\ x \in Share
            <3>1. queue' \in Seq(Share) /\ backlog' = Len(queue') /\ backlog = Len(queue)
                BY <1>1, <1>2, <2>5
            <3>2. /\ SubSeq(queue', backlog' + 1, Len(queue')) = <<>>
                  /\ SubSeq(queue, backlog + 1, Len(queue)) = <<>>
                BY <1>2, <3>1, AfterEnds DEF After
            <3>. QED  BY <1>1, <2>2, <3>2 DEF Flow!flowVars
        <2>4. CASE gpc # "drain" /\ queue' = Append(queue, x) /\ LaneWork(w, l) \in Winners
            <3>1. x \in Share /\ x.jobid = x.work.job /\ x.work \in Winners
                BY <2>1, <2>4 DEF x
            <3>2. x.jobid \in offered
                <4>1. pc[w] = "verify" /\ x.jobid = snap[w].tmpl
                    BY <1>3, <2>1 DEF Verify, x
                <4>. QED  BY <4>1, SharedAssumption DEF OfferInv
            <3>3. SubSeq(queue', backlog' + 1, Len(queue')) = Append(SubSeq(queue, backlog + 1, Len(queue)), x)
                <4>1. After(Append(queue, x), backlog) = Append(After(queue, backlog), x)
                    BY <1>2, <3>1, AfterAppend
                <4>. QED  BY <1>1, <2>4, <4>1 DEF After
            <3>4. Flow!Find(x)
                BY <1>1, <2>2, <3>1, <3>2, <3>3 DEF Flow!Find
            <3>. QED  BY <3>1, <3>4 DEF Flow!FlowNext
        <2>. QED  BY <2>1, <2>3, <2>4, <2>5 DEF x
    <1>4. CASE ~Verify(w)
        <2>1. \A v \in Workers : v # w => k'[v] = k[v]
            BY <1>4 DEF WorkerStep, Start, CheckExit, Snapshot, Prepare, Sleep, Enter, Leave,
                        Hash, EndPass, TypeOK, WorkerTypeOK
        <2>2. lapped' = lapped \/ lapped' = lapped \cup {w}
            <3>1. \A v \in Workers : v # w => ~Hashes(v)
                BY <2>1 DEF Hashes
            <3>. QED  BY <3>1 DEF Record
        <2>3. CASE lapped' = lapped
            BY <1>1, <1>a, <1>4, <2>3 DEF Flow!flowVars
        <2>4. CASE lapped' = lapped \cup {w}
            <3> DEFINE x == [jobid |-> Default, work |-> [job |-> Default, tid |-> w, nonce |-> 0]]
            <3>1. x \in Share /\ x.work.tid = w
                BY SharedAssumption DEF Share, Work, Templates, Nonce
            <3> HIDE DEF x
            <3>2. Flow!Lap(x.work.tid)
                BY <1>1, <1>a, <1>4, <2>4, <3>1 DEF Flow!Lap
            <3>. QED  BY <3>1, <3>2 DEF Flow!FlowNext
        <2>. QED  BY <2>2, <2>3, <2>4
    <1>. QED  BY <1>3, <1>4

\* The connection thread offers, submits, loses, starts a session, or does
\* nothing the promise speaks of.
LEMMA FlowGetWorkStep ==
    ASSUME FlowInv, Record, GetWorkStep, UNCHANGED workerVars
    PROVE  [Flow!FlowNext]_(Flow!flowVars)
    <1> USE DEF FlowInv
    <1>1. queue \in Seq(Share) /\ backlog \in Nat /\ backlog <= Len(queue) /\ Len(queue) \in Nat
        BY DEF TypeOK, SharedTypeOK, SessionInv
    <1>2. lapped' = lapped
        BY DEF workerVars, Record, Hashes
    <1> DEFINE pool == SubSeq(queue, backlog + 1, Len(queue))
    <1>3. (job' = job => offered' = offered) /\ (~Writes => sent' = sent)
        BY DEF Record
    <1>4. queue # <<>> => Tail(queue) # queue
        BY <1>1
    <1>5. CASE (Reconnect \/ SessionLoop) /\ exit
        <2>1. gpc # "done" /\ gpc' = "done" /\ rx_open' = FALSE /\ queue' = <<>> /\ UNCHANGED job
            BY <1>5 DEF Reconnect, SessionLoop, Return, jobVars
        <2>2. rx_open = TRUE
            BY <2>1 DEF SessionInv
        <2>3. backlog' = 0 /\ ~Writes
            BY <2>1, <2>2 DEF Record, Writes
        <2>4. SubSeq(queue', backlog' + 1, Len(queue')) = <<>>
            BY <2>1, <2>3
        <2>5. Flow!NewSession
            BY <1>2, <1>3, <2>1, <2>3, <2>4 DEF Flow!NewSession
        <2>. QED  BY <2>5 DEF Flow!FlowNext
    <1>6. CASE Connected
        <2>1. gpc = "up" /\ gpc' = "drain" /\ UNCHANGED <<job, queue>>
            BY <1>6 DEF Connected, channelVars, jobVars
        <2>2. backlog' = Len(queue) /\ ~Writes
            BY <2>1 DEF Record, Writes
        <2>3. SubSeq(queue', backlog' + 1, Len(queue')) = <<>>
            BY <1>1, <2>1, <2>2, AfterEnds DEF After
        <2>4. Flow!NewSession
            BY <1>2, <1>3, <2>1, <2>2, <2>3 DEF Flow!NewSession
        <2>. QED  BY <2>4 DEF Flow!FlowNext
    <1>7. CASE (Drain \/ SubmitShare) /\ queue # <<>>
        <2>1. gpc \in {"drain", "submit"} /\ UNCHANGED <<job, rx_open>> /\ queue' = Tail(queue)
            BY <1>7 DEF Drain, SubmitShare, jobVars
        <2>a. CASE gpc = "drain"
            <3>1. gpc' = "drain" /\ ~Writes
                BY <1>7, <2>a DEF Drain, SubmitShare, Writes
            <3>2. backlog' = Len(queue') /\ backlog = Len(queue) /\ queue' \in Seq(Share)
                BY <1>1, <1>7, <2>1, <2>a, <3>1 DEF Record, SessionInv
            <3>3. SubSeq(queue', backlog' + 1, Len(queue')) = <<>> /\ pool = <<>>
                BY <1>1, <3>2, AfterEnds DEF After
            <3>. QED  BY <1>2, <1>3, <2>1, <3>1, <3>3 DEF Flow!flowVars
        <2>b. gpc # "drain" => gpc = "submit" /\ gpc' # "drain"
            BY <1>7, <2>1 DEF Drain, SubmitShare
        <2>2. gpc # "drain" => backlog' = IF backlog > 0 THEN backlog - 1 ELSE backlog
            BY <1>7, <2>1, <2>b DEF Record, Pops
        <2>3. CASE gpc # "drain" /\ backlog > 0
            <3>1. gpc # "submit"
                BY <2>3 DEF SessionInv, SessionClean, InSession
            <3>2. ~Writes
                BY <3>1 DEF Writes
            <3>3. SubSeq(queue', backlog' + 1, Len(queue')) = pool
                BY <1>1, <1>7, <2>1, <2>2, <2>3, AfterTail DEF After
            <3>. QED  BY <1>2, <1>3, <2>1, <3>2, <3>3 DEF Flow!flowVars
        <2>4. CASE gpc # "drain" /\ ~(backlog > 0)
            <3>1. backlog = 0 /\ backlog' = 0
                BY <1>1, <2>2, <2>4
            <3>2. Tail(queue) \in Seq(Share)
                BY <1>1, <1>7
            <3>3. /\ pool = queue
                  /\ SubSeq(queue', backlog' + 1, Len(queue')) = Tail(queue)
                BY <1>1, <2>1, <3>1, <3>2, AfterEnds DEF After
            <3> HIDE DEF pool
            <3>4. CASE Writes
                <4>1. Head(queue) \notin sent \/ Head(queue).work.tid \in lapped
                    <5> SUFFICES ASSUME Head(queue) \in sent, Head(queue).work.tid \notin lapped
                                 PROVE  FALSE
                        OBVIOUS
                    <5> DEFINE h == Head(queue)
                    <5>1. h = queue[1] /\ 1 \in 1 .. Len(queue) /\ h \in Share
                        BY <1>1, <1>7
                    <5> HIDE DEF h
                    <5>2. h.work.tid \in Workers /\ h.work.nonce \in Int
                        BY <5>1, SharedAssumption DEF Share, Work, Nonce
                    <5>3. Ordered(queue, sent, h.work.tid)
                        BY <5>2 DEF OrderInv, OrderOf, h
                    <5>4. h.work.nonce < h.work.nonce
                        BY <5>1, <5>3, Zenon DEF Ordered, h
                    <5>. QED  BY <5>2, <5>4
                <4>2. sent' = sent \cup {Head(queue)}
                    BY <3>4 DEF Record
                <4>3. Flow!Submit
                    BY <1>2, <1>3, <1>7, <2>1, <3>3, <4>1, <4>2 DEF Flow!Submit, pool
                <4>. QED  BY <4>3 DEF Flow!FlowNext
            <3>5. CASE ~Writes
                <4>1. Flow!Lose
                    BY <1>2, <1>3, <1>7, <2>1, <3>3, <3>5 DEF Flow!Lose, pool
                <4>. QED  BY <4>1 DEF Flow!FlowNext
            <3>. QED  BY <3>4, <3>5
        <2>. QED  BY <2>a, <2>3, <2>4
    <1>8. CASE ApplyJob /\ job' # job
        <2>1. gpc = "write" /\ gpc' = "announce" /\ UNCHANGED <<queue, rx_open>> /\ job'.tmpl = result
            BY <1>8 DEF ApplyJob, channelVars
        <2>2. offered' = offered \cup {result}
            BY <1>8, <2>1 DEF Record
        <2>3. backlog' = backlog /\ ~Writes
            BY <1>4, <2>1 DEF Record, Pops, Writes
        <2>4. PICK w \in Workers : TRUE
            BY WorkerAssumption
        <2> DEFINE x == [jobid |-> result, work |-> [job |-> result, tid |-> w, nonce |-> 0]]
        <2>5. x \in Share /\ x.jobid = result
            <3>1. 0 \in Nonce /\ result \in Templates
                BY SharedAssumption DEF Nonce, TypeOK, GetWorkTypeOK
            <3>. QED  BY <3>1 DEF Share, Work
        <2> HIDE DEF x
        <2>6. Flow!Offer(x.jobid)
            BY <1>2, <1>3, <2>1, <2>2, <2>3, <2>5 DEF Flow!Offer
        <2>. QED  BY <2>5, <2>6 DEF Flow!FlowNext
    <1>9. CASE \/ (Reconnect \/ SessionLoop) /\ ~exit
               \/ Drain /\ queue = <<>>
               \/ ApplyJob /\ job' = job
               \/ DialOk \/ DialFail \/ RetrySleep \/ SubmitDone \/ ReadNothing
               \/ \E t \in Templates : ReadPush(t)
               \/ MirrorStatus
        <2>1. UNCHANGED <<queue, rx_open, job>>
            BY <1>9 DEF Reconnect, SessionLoop, Drain, ApplyJob, DialOk, DialFail, RetrySleep,
                        SubmitDone, ReadNothing, ReadPush, MirrorStatus, sharedVars, jobVars,
                        channelVars
        <2>2. gpc' # "drain"
            BY <1>9 DEF Reconnect, SessionLoop, Drain, ApplyJob, DialOk, DialFail, RetrySleep,
                        SubmitDone, ReadNothing, ReadPush, MirrorStatus
        <2>3. ~Pops
            BY <1>4, <2>1 DEF Pops
        <2>4. backlog' = backlog /\ ~Writes
            BY <2>1, <2>2, <2>3 DEF Record, Writes
        <2>. QED  BY <1>2, <1>3, <2>1, <2>4 DEF Flow!flowVars
    <1>. QED  BY <1>5, <1>6, <1>7, <1>8, <1>9 DEF GetWorkStep, SubmitShare

\* The command loop and the end of the process are no steps of the promise.
LEMMA FlowElse ==
    ASSUME FlowInv, Record, CommandMoves \/ Terminated
    PROVE  UNCHANGED Flow!flowVars
    <1> USE DEF FlowInv
    <1>1. UNCHANGED <<queue, rx_open, job, gpc, k>>
        BY DEF CommandMoves, CommandStep, Quit, RestoreTerminal, ProcessExit, StdinError,
               StdinEof, Parked, Terminated, vars, sharedVars, jobVars, channelVars,
               workerVars, getworkVars
    <1>2. queue \in Seq(Share)
        BY DEF TypeOK, SharedTypeOK
    <1>3. ~Pops
        BY <1>1, <1>2 DEF Pops
    <1>4. UNCHANGED <<backlog, sent, offered, lapped>>
        BY <1>1, <1>3 DEF Record, Writes, Hashes, SessionInv
    <1>. QED  BY <1>1, <1>4 DEF Flow!flowVars

\* The miner implements ShareFlow, whatever the threads, the daemon and the
\* network do: what is sent was offered, clears its target and goes out in the
\* order it was found, nothing goes out twice before a counter wraps, and
\* nothing found before a session is sent in it.
THEOREM SharePromiseKept == HSpec => KeepsSharePromise
    <1>1. FlowInv /\ [HNext]_hvars => [Flow!FlowNext]_(Flow!flowVars)
        <2> SUFFICES ASSUME FlowInv, [HNext]_hvars  PROVE [Flow!FlowNext]_(Flow!flowVars)
            OBVIOUS
        <2>1. CASE Record /\ \E w \in Workers : WorkerMoves(w)
            <3>1. PICK w \in Workers : WorkerStep(w) /\ UNCHANGED getworkVars
                BY <2>1 DEF WorkerMoves
            <3>. QED  BY <2>1, <3>1, FlowWorkerStep
        <2>2. CASE Record /\ GetWorkMoves
            <3>1. GetWorkStep /\ UNCHANGED workerVars
                BY <2>2 DEF GetWorkMoves
            <3>. QED  BY <2>2, <3>1, FlowGetWorkStep
        <2>3. CASE Record /\ (CommandMoves \/ Terminated)
            BY <2>3, FlowElse
        <2>4. CASE UNCHANGED hvars
            BY <2>4 DEF hvars, historyVars, vars, sharedVars, channelVars, Flow!flowVars
        <2>. QED  BY <2>1, <2>2, <2>3, <2>4 DEF HNext, Next
    <1>2. HSpec => []FlowInv
        <2>1. HSpec => []ShareInv
            BY HistoryIsMiner, ShareInvariant, PTL
        <2>. QED  BY <2>1, HistoryTyped, HistoryTypeCorrect, SessionInvariant, OfferInvariant,
                     OrderInvariant, PTL DEF FlowInv
    <1>. QED  BY <1>1, <1>2, FlowInits, PTL DEF HSpec, KeepsSharePromise, Flow!FlowSpec

=============================================================================
