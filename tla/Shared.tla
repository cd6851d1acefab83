------------------------------- MODULE Shared -------------------------------
(***************************************************************************)
(* The state the threads of the miner share: struct Shared of              *)
(* src/worker.rs, the mpsc channel that carries found shares from the      *)
(* workers to the connection thread, and whether the process still runs.   *)
(*                                                                         *)
(* Data is abstracted to what the properties tell apart.  A job push is a  *)
(* template (a model value: blob, height, difficulty and jobid together)   *)
(* and its sequence number; a 48-byte work buffer is the template, the tid *)
(* stamped in byte 47 and the counter in bytes 43..46.  Whether a work's   *)
(* canonical PoW clears its job's target is the constant set Winners.      *)
(***************************************************************************)
EXTENDS Integers, Sequences, FiniteSets

CONSTANTS
    Workers,    \* the worker threads; a worker is named by its tid
    Post,       \* well-formed templates with height >= hf2_height (AstroBWTv3)
    Pre,        \* well-formed templates with height <  hf2_height (POW16)
    Malformed,  \* templates that fail BadBlob, BadDifficulty or BadVersion
    Default,    \* GetBlockTemplateResult::default(): the empty blob, malformed
    Winners,    \* the works whose canonical PoW clears the target of their job
    NonceMod    \* 2^32 in the code: the counter i is a wrapping u32

Templates == Post \cup Pre \cup Malformed

Nonce == 0 .. NonceMod - 1

Work == [job : Templates, tid : Workers, nonce : Nonce]

\* SubmitBlockParams: the jobid of the snapshot and the mutated work.
Share == [jobid : Templates, work : Work]

\* A received push; seq is a history field that numbers the pushes.
Push == [tmpl : Templates, seq : Nat]

\* The five session counters mirrored from a push, in the order getwork stores
\* them.
StatusOrder == <<"block_counter", "mini_block_counter", "rejected",
                 "difficulty", "our_height">>

StatusField == {"block_counter", "mini_block_counter", "rejected",
                "difficulty", "our_height"}

ASSUME SharedAssumption ==
    /\ Default \in Malformed
    /\ Post \cap Pre = {}
    /\ Post \cap Malformed = {}
    /\ Pre \cap Malformed = {}
    /\ NonceMod \in Nat \ {0}
    /\ Winners \subseteq Work

VARIABLES
    job,          \* the latest push, behind the RwLock
    job_counter,  \* incremented once per received push
    counter,      \* total hashes flushed by the workers, a u64 kept here
                  \* modulo NonceMod: the residue the u32 counters determine
    mirror,       \* StatusField -> seq of the push its value came from
    exit,         \* set by the command loop
    connected,    \* between a completed upgrade and the next redial
    queue,        \* the submit channel
    rx_open,      \* the channel's receiver is alive (getwork has not returned)
    row,          \* the cursor rests behind a status row on the terminal
    alive         \* the process has not exited

jobVars == <<job, job_counter>>
channelVars == <<queue, rx_open>>

sharedVars == <<jobVars, counter, mirror, exit, connected, channelVars, row, alive>>

SharedInit ==
    /\ job = [tmpl |-> Default, seq |-> 0]
    /\ job_counter = 0
    /\ counter = 0
    /\ mirror = [f \in StatusField |-> 0]
    /\ exit = FALSE
    /\ connected = FALSE
    /\ queue = <<>>
    /\ rx_open = TRUE
    /\ row = FALSE
    /\ alive = TRUE

SharedTypeOK ==
    /\ job \in Push
    /\ job_counter \in Nat
    /\ counter \in Nonce
    /\ mirror \in [StatusField -> Nat]
    /\ exit \in BOOLEAN
    /\ connected \in BOOLEAN
    /\ queue \in Seq(Share)
    /\ rx_open \in BOOLEAN
    /\ row \in BOOLEAN
    /\ alive \in BOOLEAN

\* mpsc::Sender::send: unbounded, and its error (receiver gone) is ignored.
Send(share) == queue' = IF rx_open THEN Append(queue, share) ELSE queue

\* Mutant: the record is written without the rewind and the erase.
LogRecordNoErase == UNCHANGED row

\* term::log on a terminal: rewind, erase, record, newline in one locked write.
\* Records that only --debug writes are left out.
LogRecord == row' = FALSE

=============================================================================
