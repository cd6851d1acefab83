------------------------------ MODULE WsSession ------------------------------
(***************************************************************************)
(* The session loop of getwork over the websocket client, with time: a     *)
(* found share waits in the channel until the loop comes round to it.      *)
(* Only a blocked socket read takes time; it lasts at most Timeout ticks   *)
(* (100 ms in the code).                                                   *)
(***************************************************************************)
EXTENDS WsClient

CONSTANTS
    Timeout,        \* ticks of the socket's read timeout
    MaxWait         \* bound: waited is not counted beyond this

ASSUME WsSessionAssumption == Timeout \in Nat \ {0} /\ MaxWait \in Nat

VARIABLES
    waiting,   \* a share is in the channel
    waited,    \* ticks it has been there
    elapsed    \* ticks the current read has been blocked

sessionVars == <<wsVars, waiting, waited, elapsed>>

SessionInit == WsInit /\ waiting = FALSE /\ waited = 0 /\ elapsed = 0

\* A worker sends a share.
FindShare ==
    /\ ~waiting
    /\ waiting' = TRUE
    /\ UNCHANGED <<wsVars, waited, elapsed>>

\* while let Ok(share) = try_recv: written before the next read, or the
\* connection is dropped.
WriteShare ==
    /\ wpc = "session"
    /\ waiting
    /\ waiting' = FALSE
    /\ waited' = 0
    /\ wpc' \in {"session", "gone"}
    /\ UNCHANGED <<buf, frag, sent_close, done, wire, daemonVars, elapsed>>

Tick ==
    /\ wpc = "read"
    /\ elapsed < Timeout
    /\ elapsed' = elapsed + 1
    /\ waited' = IF waiting /\ waited < MaxWait THEN waited + 1 ELSE waited
    /\ UNCHANGED <<wsVars, waiting>>

\* Mutant: a read that times out is repeated inside try_read_message.
MayStepRetry ==
    /\ wpc = "session" /\ wpc' = "parse" => ~waiting
    /\ wpc = "read" => wpc' # "session"
    /\ wpc = "read" /\ wpc' = "parse" /\ wire' = wire => elapsed \in {0, Timeout}

\* The loop reads only when no share is waiting; a read returns with bytes, is
\* interrupted before it has taken any time, or gives up at its timeout.
MayStep ==
    /\ wpc = "session" /\ wpc' = "parse" => ~waiting
    /\ wpc = "read" /\ wpc' = "session" => elapsed = Timeout
    /\ wpc = "read" /\ wpc' = "parse" /\ wire' = wire => elapsed = 0

ClientStep ==
    /\ Client
    /\ MayStep
    /\ elapsed' = 0
    /\ UNCHANGED <<waiting, waited>>

DaemonStep == Daemon /\ UNCHANGED <<waiting, waited, elapsed>>

SessionNext == FindShare \/ WriteShare \/ Tick \/ ClientStep \/ DaemonStep

\* Time passes, whatever signals interrupt a read; the thread is scheduled; a
\* share that can be written is; the stream delivers what was sent even if
\* reads time out in between.
SessionSpec ==
    /\ SessionInit /\ [][SessionNext]_sessionVars
    /\ WF_sessionVars(WriteShare)
    /\ SF_sessionVars(Tick)
    /\ WF_sessionVars(ClientStep)
    /\ SF_sessionVars(ClientStep /\ wire' # wire)

-----------------------------------------------------------------------------

\* Once the daemon has no more to send, a found share is written or the
\* connection is dropped: a read that found nothing comes back.
ShareGoesOut == waiting /\ wpc # "head" ~> ~waiting \/ wpc = "gone"

\* The comment on getwork: the worst-case submit latency is one read timeout.
SubmitLatency == waited <= Timeout

=============================================================================
