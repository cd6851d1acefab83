---------------------------- MODULE ThreadProofs ----------------------------
(***************************************************************************)
(* Type correctness of the steps of the connection thread and of the       *)
(* command loop over the shared state: what the proofs about the miner and *)
(* about the status thread both need.                                      *)
(***************************************************************************)
EXTENDS GetWork, Command, TLAPS

\* A step that leaves the shared state alone keeps it typed.
LEMMA SharedSame ==
    ASSUME SharedTypeOK, UNCHANGED sharedVars
    PROVE  SharedTypeOK'
    BY DEF SharedTypeOK, sharedVars, jobVars, channelVars

\* A step that leaves the connection thread's state alone keeps it typed.
LEMMA GetWorkSame ==
    ASSUME GetWorkTypeOK, UNCHANGED getworkVars
    PROVE  GetWorkTypeOK'
    BY DEF GetWorkTypeOK, getworkVars

\* A step that leaves the command loop's state alone keeps it typed.
LEMMA CommandSame ==
    ASSUME CommandTypeOK, UNCHANGED cpc
    PROVE  CommandTypeOK'
    BY DEF CommandTypeOK

\* Every step of getwork keeps the types.
LEMMA GetWorkTypes ==
    ASSUME SharedTypeOK, GetWorkTypeOK, GetWorkStep
    PROVE  SharedTypeOK' /\ GetWorkTypeOK'
    <1> USE DEF LogRecord, GetWorkPC, jobVars, channelVars
    <1>1. CASE Reconnect \/ SessionLoop
        <2>1. gpc' \in {"done", "dial", "submit"}
            BY <1>1, Zenon DEF Reconnect, SessionLoop, Return
        <2>2. queue' = queue \/ queue' = <<>>
            BY <1>1, Zenon DEF Reconnect, SessionLoop, Return
        <2>3. /\ rx_open' = rx_open \/ rx_open' = FALSE
              /\ row' = row \/ row' = FALSE
              /\ connected' = connected \/ connected' = FALSE
            BY <1>1, Zenon DEF Reconnect, SessionLoop, Return
        <2>4. UNCHANGED <<result, stored, jobVars, counter, mirror, exit, alive>>
            BY <1>1, Zenon DEF Reconnect, SessionLoop
        <2>5. queue' \in Seq(Share)
            <3>1. queue \in Seq(Share)
                BY DEF SharedTypeOK
            <3>2. <<>> \in Seq(Share)
                OBVIOUS
            <3>. QED  BY <2>2, <3>1, <3>2, Zenon
        <2>6. SharedTypeOK'
            BY <2>3, <2>4, <2>5 DEF SharedTypeOK
        <2>7. GetWorkTypeOK'
            BY <2>1, <2>4 DEF GetWorkTypeOK
        <2>. QED  BY <2>6, <2>7
    <1>2. CASE DialOk \/ DialFail \/ RetrySleep \/ Connected \/ ReadNothing \/ SubmitDone
        <2>1. SharedTypeOK'
            BY <1>2 DEF DialOk, DialFail, RetrySleep, Connected, ReadNothing,
                        SubmitDone, SharedTypeOK, sharedVars
        <2>2. GetWorkTypeOK'
            BY <1>2 DEF DialOk, DialFail, RetrySleep, Connected, ReadNothing,
                        SubmitDone, GetWorkTypeOK
        <2>. QED  BY <2>1, <2>2
    <1>3. CASE Drain \/ SubmitShare
        <2>1. queue' = queue \/ (queue # <<>> /\ queue' = Tail(queue))
            BY <1>3 DEF Drain, SubmitShare
        <2>2. queue' \in Seq(Share)
            BY <2>1 DEF SharedTypeOK
        <2>3. /\ row' = row \/ row' = FALSE
              /\ UNCHANGED <<result, stored, jobVars, counter, mirror, exit,
                             connected, rx_open, alive>>
              /\ gpc' \in {gpc, "loop", "submit", "top"}
            BY <1>3 DEF Drain, SubmitShare
        <2>4. SharedTypeOK'
            BY <2>2, <2>3 DEF SharedTypeOK
        <2>5. GetWorkTypeOK'
            BY <2>3 DEF GetWorkTypeOK
        <2>. QED  BY <2>4, <2>5
    <1>4. CASE \E t \in Templates : ReadPush(t)
        <2>1. UNCHANGED sharedVars
            BY <1>4 DEF ReadPush
        <2>2. GetWorkTypeOK'
            BY <1>4 DEF ReadPush, GetWorkTypeOK
        <2>. QED  BY <2>1, <2>2, SharedSame
    <1>5. CASE ApplyJob
        <2>1. job' \in Push /\ job_counter' \in Nat
            BY <1>5 DEF ApplyJob, SharedTypeOK, GetWorkTypeOK, Push
        <2>2. SharedTypeOK'
            BY <1>5, <2>1 DEF ApplyJob, SharedTypeOK
        <2>3. GetWorkTypeOK'
            BY <1>5 DEF ApplyJob, GetWorkTypeOK
        <2>. QED  BY <2>2, <2>3
    <1>6. CASE MirrorStatus
        <2>1. mirror' \in [StatusField -> Nat]
            BY <1>6 DEF MirrorStatus, SharedTypeOK, Push
        <2>2. SharedTypeOK'
            BY <1>6, <2>1 DEF MirrorStatus, SharedTypeOK
        <2>3. stored' \in 0 .. Len(StatusOrder) - 1
            BY <1>6 DEF MirrorStatus, GetWorkTypeOK, StatusOrder
        <2>4. GetWorkTypeOK'
            BY <1>6, <2>3 DEF MirrorStatus, GetWorkTypeOK
        <2>. QED  BY <2>2, <2>4
    <1>. QED  BY <1>1, <1>2, <1>3, <1>4, <1>5, <1>6 DEF GetWorkStep

\* Every step of command_loop keeps the types.
LEMMA CommandTypes ==
    ASSUME SharedTypeOK, CommandTypeOK, CommandStep
    PROVE  SharedTypeOK' /\ CommandTypeOK'
    <1>1. SharedTypeOK'
        BY DEF CommandStep, Quit, RestoreTerminal, ProcessExit, StdinError, StdinEof,
               Parked, LogRecord, sharedVars, jobVars, channelVars, SharedTypeOK
    <1>2. CommandTypeOK'
        BY DEF CommandStep, Quit, RestoreTerminal, ProcessExit, StdinError, StdinEof,
               Parked, CommandPC, CommandTypeOK
    <1>. QED  BY <1>1, <1>2

=============================================================================
