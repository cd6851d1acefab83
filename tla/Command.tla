------------------------------- MODULE Command -------------------------------
(***************************************************************************)
(* The main thread after startup: command_loop of src/main.rs.  The lines  *)
(* that only print (help, say, version, anything unknown) change nothing   *)
(* and are left out; what remains is how the process ends.                 *)
(*                                                                         *)
(* cpc   read      blocked in read_line                                    *)
(*       parked    stdin is at EOF: re-check exit once an hour             *)
(*       leaving   exit is set      restored   the terminal is restored    *)
(***************************************************************************)
EXTENDS Shared

VARIABLE cpc

CommandPC == {"read", "parked", "leaving", "restored"}

CommandInit == cpc = "read"

CommandTypeOK == cpc \in CommandPC

\* bye, exit or quit: raise the flag; the other threads run on until the
\* process exits.
Quit ==
    /\ cpc = "read"
    /\ exit' = TRUE
    /\ cpc' = "leaving"
    /\ UNCHANGED <<jobVars, counter, mirror, connected, channelVars, row, alive>>

\* term::restore_on_exit: reset the colours and step off the status row.
RestoreTerminal ==
    /\ cpc = "leaving"
    /\ row' = FALSE
    /\ cpc' = "restored"
    /\ UNCHANGED <<jobVars, counter, mirror, exit, connected, channelVars, alive>>

\* std::process::exit(0): no thread is joined.
ProcessExit ==
    /\ cpc = "restored"
    /\ alive' = FALSE
    /\ UNCHANGED <<cpc, jobVars, counter, mirror, exit, connected, channelVars, row>>

\* A read error is logged and returns from command_loop and so from main.
StdinError ==
    /\ cpc = "read"
    /\ LogRecord
    /\ alive' = FALSE
    /\ UNCHANGED <<cpc, jobVars, counter, mirror, exit, connected, channelVars>>

StdinEof ==
    /\ cpc = "read"
    /\ cpc' = "parked"
    /\ UNCHANGED sharedVars

\* Only this thread sets exit, so a parked miner runs until it is killed.
Parked ==
    /\ cpc = "parked"
    /\ alive' = ~exit
    /\ UNCHANGED <<cpc, jobVars, counter, mirror, exit, connected, channelVars, row>>

CommandStep ==
    \/ Quit \/ RestoreTerminal \/ ProcessExit
    \/ StdinError \/ StdinEof \/ Parked

=============================================================================
