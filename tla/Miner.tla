-------------------------------- MODULE Miner --------------------------------
(***************************************************************************)
(* The running miner: the worker threads, the connection thread and the    *)
(* command loop, over the state of module Shared.  main spawns them once   *)
(* and joins none; the process ends under them when the command loop says  *)
(* so.                                                                     *)
(*                                                                         *)
(* job and job_counter are published with a lock and a Release increment   *)
(* and read with an Acquire load and the lock, so interleaving the threads *)
(* step by step loses no behaviour of them.                                *)
(***************************************************************************)
EXTENDS Worker, GetWork, Command, FiniteSetsExt

vars == <<sharedVars, workerVars, getworkVars, cpc>>

Init == SharedInit /\ WorkerInit /\ GetWorkInit /\ CommandInit

WorkerMoves(w) == alive /\ WorkerStep(w) /\ UNCHANGED <<getworkVars, cpc>>

GetWorkMoves == alive /\ GetWorkStep /\ UNCHANGED <<workerVars, cpc>>

CommandMoves == alive /\ CommandStep /\ UNCHANGED <<workerVars, getworkVars>>

\* The process is gone.
Terminated == ~alive /\ UNCHANGED vars

Next ==
    \/ \E w \in Workers : WorkerMoves(w)
    \/ GetWorkMoves
    \/ CommandMoves
    \/ Terminated

Spec == Init /\ [][Next]_vars

\* The operating system schedules every thread, every sleep and every bounded
\* wait ends, and process::exit is carried out.  Nothing forces a command to be
\* typed.  A read of the session is not bounded: try_read_message goes on as
\* long as pings and parts of messages keep arriving.
ThreadFairness ==
    /\ \A w \in Workers : WF_vars(WorkerMoves(w))
    /\ WF_vars(GetWorkMoves /\ gpc # "read")
    /\ WF_vars((RestoreTerminal \/ ProcessExit) /\ CommandMoves)

\* The daemon is reachable: it does not refuse every dial for ever.
DaemonReachable == SF_vars(DialOk /\ GetWorkMoves)

FairSpec == Spec /\ ThreadFairness /\ DaemonReachable

-----------------------------------------------------------------------------
(* Safety *)

\* Every variable has its type.
TypeOK == SharedTypeOK /\ WorkerTypeOK /\ GetWorkTypeOK /\ CommandTypeOK

Grinding(w) == pc[w] \in {"prep", "head", "hash", "verify"}

\* The comment at the snapshot of mine_thread: the counter is read first, so a
\* push that lands between the two loads makes the worker leave its loop at
\* once.  A worker that believes its job is current is never grinding an older
\* one: it holds the announced push or one that is about to be announced.
SnapshotFresh ==
    \A w \in Workers :
        Grinding(w) /\ local[w] = job_counter
            => snap[w].seq \in {job_counter, job_counter + 1}

\* The accounting behind the hashrate line: the flushed counter plus what every
\* worker has not flushed yet is the number of hashes the workers computed, and
\* each worker's u32 counter is its own number of hashes.
HashesAccounted ==
    (counter + MapThenSumSet(LAMBDA w : pending[w], Workers)) % NonceMod
        = MapThenSumSet(LAMBDA w : i[w], Workers) % NonceMod

\* verify-on-submit: a share handed to the connection thread clears the target
\* by the canonical PoW whatever the fast path answered, and carries the jobid
\* of the job whose work it mutates.
SharesCanonical ==
    \A n \in 1 .. Len(queue) :
        /\ queue[n].work \in Winners
        /\ queue[n].jobid = queue[n].work.job

\* The comment on Shared::connected: workers cannot hash without a connection.
NoHashWhileDisconnected ==
    [][\A w \in Workers : i'[w] # i[w] => connected]_vars

-----------------------------------------------------------------------------
(* Liveness *)

\* Every push reaches every worker: once it is stored, each worker comes to
\* hold it or a later one, unless the miner is told to exit.
JobReachesWorkers ==
    \A w \in Workers : \A n \in 1 .. MaxPushes :
        (job.seq = n) ~> (snap[w].seq >= n \/ exit \/ ~alive)

\* Whatever ended a session, the connection thread comes back to a new one.
Reconnects == ~connected ~> (connected \/ exit \/ ~alive)

\* Every call of try_read_message comes back.  It is the daemon that makes this
\* so, not the code: module WsSession has the behaviours in which it does not.
ReadsReturn == []<>(gpc # "read")

\* Shares do not rot in the channel of a live session: if reads come back and
\* the workers stop finding new shares, the channel is emptied or the session
\* ends.
SharesLeave ==
    ReadsReturn /\ <>[][Len(queue') <= Len(queue)]_queue
        => (queue # <<>> /\ connected ~> queue = <<>> \/ ~connected \/ ~alive)

=============================================================================
