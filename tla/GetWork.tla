------------------------------- MODULE GetWork -------------------------------
(***************************************************************************)
(* The connection thread: getwork of src/main.rs, which dials the daemon,  *)
(* writes found shares to the websocket and publishes the jobs it reads.   *)
(* The daemon and the network are environment: a dial, a write or a read   *)
(* ends in any way the code distinguishes.                                 *)
(*                                                                         *)
(* gpc        the next step                                                *)
(*   top      clear connected, check exit       dial    TCP, TLS, upgrade  *)
(*   retry    the 10 s pause                    up      set connected      *)
(*   drain    drop the backlog of shares        loop    the session loop   *)
(*   submit   while let Ok(share) = try_recv    read    try_read_message   *)
(*   write    store the job under the lock      announce   fetch_add       *)
(*   mirror   the five status stores            done    returned           *)
(***************************************************************************)
EXTENDS Shared

CONSTANT MaxPushes   \* bound: job pushes the daemon sends in a behaviour

ASSUME GetWorkAssumption == MaxPushes \in Nat

VARIABLES
    gpc,      \* control state of the connection thread
    result,   \* the template parsed from the last message
    stored    \* how many of the five status stores are done

getworkVars == <<gpc, result, stored>>

GetWorkPC == {"top", "dial", "retry", "up", "drain", "loop", "submit", "read",
              "write", "announce", "mirror", "done"}

GetWorkInit ==
    /\ gpc = "top"
    /\ result = Default
    /\ stored = 0

GetWorkTypeOK ==
    /\ gpc \in GetWorkPC
    /\ result \in Templates
    /\ stored \in 0 .. Len(StatusOrder) - 1

\* return: the receiver is dropped with everything still queued in it.
Return ==
    /\ gpc' = "done"
    /\ rx_open' = FALSE
    /\ queue' = <<>>

\* The top of 'reconnect: every path back to it is a disconnect.
Reconnect ==
    /\ gpc = "top"
    /\ connected' = FALSE
    /\ \/ exit /\ Return /\ UNCHANGED row
       \/ ~exit /\ gpc' = "dial" /\ LogRecord /\ UNCHANGED channelVars
    /\ UNCHANGED <<result, stored, jobVars, counter, mirror, exit, alive>>

\* connect_tls and the websocket handshake both succeed.
DialOk ==
    /\ gpc = "dial"
    /\ gpc' = "up"
    /\ LogRecord
    /\ UNCHANGED <<result, stored, jobVars, counter, mirror, exit, connected,
                   channelVars, alive>>

\* Mutant: a failed dial returns instead of retrying.
DialFailReturns ==
    /\ gpc = "dial"
    /\ LogRecord
    /\ Return
    /\ UNCHANGED <<result, stored, jobVars, counter, mirror, exit, connected, alive>>

\* Either of them fails.
DialFail ==
    /\ gpc = "dial"
    /\ gpc' = "retry"
    /\ LogRecord
    /\ UNCHANGED <<result, stored, jobVars, counter, mirror, exit, connected,
                   channelVars, alive>>

RetrySleep ==
    /\ gpc = "retry"
    /\ gpc' = "top"
    /\ UNCHANGED <<result, stored, sharedVars>>

Connected ==
    /\ gpc = "up"
    /\ connected' = TRUE
    /\ gpc' = "drain"
    /\ UNCHANGED <<result, stored, jobVars, counter, mirror, exit, channelVars,
                   row, alive>>

\* Mutant: an if in place of the while.
DrainOnce ==
    /\ gpc = "drain"
    /\ gpc' = "loop"
    /\ queue' = IF queue = <<>> THEN queue ELSE Tail(queue)
    /\ UNCHANGED <<result, stored, jobVars, counter, mirror, exit, connected,
                   rx_open, row, alive>>

\* while submit_rx.try_recv().is_ok() {}: workers may send while it runs.
Drain ==
    /\ gpc = "drain"
    /\ \/ queue # <<>> /\ queue' = Tail(queue) /\ UNCHANGED gpc
       \/ queue = <<>> /\ gpc' = "loop" /\ UNCHANGED queue
    /\ UNCHANGED <<result, stored, jobVars, counter, mirror, exit, connected,
                   rx_open, row, alive>>

\* Mutant: the session loop reads without looking for shares first.
SessionLoopReads ==
    /\ gpc = "loop"
    /\ \/ exit /\ Return
       \/ ~exit /\ gpc' = "read" /\ UNCHANGED channelVars
    /\ UNCHANGED <<result, stored, jobVars, counter, mirror, exit, connected,
                   row, alive>>

\* One turn of the session loop: leave on exit, else shares first, then a read.
SessionLoop ==
    /\ gpc = "loop"
    /\ \/ exit /\ Return
       \/ ~exit /\ gpc' = "submit" /\ UNCHANGED channelVars
    /\ UNCHANGED <<result, stored, jobVars, counter, mirror, exit, connected,
                   row, alive>>

\* A share is taken off the channel before it is written, so a failed write
\* loses it.
SubmitShare ==
    /\ gpc = "submit"
    /\ queue # <<>>
    /\ queue' = Tail(queue)
    /\ \/ gpc' = "submit" /\ UNCHANGED row
       \/ gpc' = "top" /\ LogRecord
    /\ UNCHANGED <<result, stored, jobVars, counter, mirror, exit, connected,
                   rx_open, alive>>

SubmitDone ==
    /\ gpc = "submit"
    /\ queue = <<>>
    /\ gpc' = "read"
    /\ UNCHANGED <<result, stored, sharedVars>>

\* Ok(None) after the read timeout polls again; a close frame, an error or a
\* message that is not a job ends the session.
ReadNothing ==
    /\ gpc = "read"
    /\ \/ gpc' = "loop" /\ UNCHANGED row
       \/ gpc' = "top" /\ LogRecord
    /\ UNCHANGED <<result, stored, jobVars, counter, mirror, exit, connected,
                   channelVars, alive>>

ReadPush(t) ==
    /\ gpc = "read"
    /\ job.seq < MaxPushes
    /\ result' = t
    /\ gpc' = "write"
    /\ UNCHANGED <<stored, sharedVars>>

\* Mutant: the job is replaced and not announced.
ApplyJobSilent ==
    /\ gpc = "write"
    /\ job' = [tmpl |-> result, seq |-> job.seq + 1]
    /\ gpc' = "mirror"
    /\ UNCHANGED <<result, stored, job_counter, counter, mirror, exit, connected,
                   channelVars, row, alive>>

\* The job is replaced under the write lock, then the counter moves (Release)
\* and a lasterror in the push is logged.
ApplyJob ==
    /\ \/ /\ gpc = "write"
          /\ job' = [tmpl |-> result, seq |-> job.seq + 1]
          /\ gpc' = "announce"
          /\ UNCHANGED <<job_counter, row>>
       \/ /\ gpc = "announce"
          /\ job_counter' = job_counter + 1
          /\ gpc' = "mirror"
          /\ LogRecord \/ UNCHANGED row
          /\ UNCHANGED job
    /\ UNCHANGED <<result, stored, counter, mirror, exit, connected, channelVars,
                   alive>>

\* The five Relaxed stores that mirror the push, one by one.
MirrorStatus ==
    /\ gpc = "mirror"
    /\ mirror' = [mirror EXCEPT ![StatusOrder[stored + 1]] = job.seq]
    /\ stored' = (stored + 1) % Len(StatusOrder)
    /\ gpc' = IF stored' = 0 THEN "loop" ELSE "mirror"
    /\ UNCHANGED <<result, jobVars, counter, exit, connected, channelVars, row,
                   alive>>

GetWorkStep ==
    \/ Reconnect \/ DialOk \/ DialFail \/ RetrySleep \/ Connected \/ Drain
    \/ SessionLoop \/ SubmitShare \/ SubmitDone \/ ReadNothing
    \/ \E t \in Templates : ReadPush(t)
    \/ ApplyJob \/ MirrorStatus

=============================================================================
