------------------------------- MODULE Monitor -------------------------------
(***************************************************************************)
(* What the operator sees: the status thread beside the connection thread  *)
(* and the command loop.  Of the workers only the hash counter they flush  *)
(* matters here, so they are one action that adds to it.                   *)
(***************************************************************************)
EXTENDS GetWork, Command, Stats

CONSTANT MaxHashes   \* bound: hashes flushed in a behaviour

ASSUME MonitorAssumption == MaxHashes \in Nat /\ MaxHashes < NonceMod

VARIABLE samples     \* history: the counter at every tick, from tick 0

monitorVars == <<sharedVars, getworkVars, cpc, statsVars, samples>>

MonitorInit ==
    /\ SharedInit /\ GetWorkInit /\ CommandInit /\ StatsInit
    /\ samples = <<counter>>

\* flush_hashes of some worker.
WorkersFlush ==
    /\ counter < MaxHashes
    /\ counter' = counter + 1
    /\ UNCHANGED <<jobVars, mirror, exit, connected, channelVars, row, alive,
                   getworkVars, cpc, statsVars>>

GetWorkShown == alive /\ GetWorkStep /\ UNCHANGED <<cpc, statsVars>>

CommandShown == alive /\ CommandStep /\ UNCHANGED <<getworkVars, statsVars>>

StatsShown == alive /\ StatsStep /\ UNCHANGED <<getworkVars, cpc>>

MonitorNext ==
    /\ \/ GetWorkShown
       \/ CommandShown
       \/ StatsShown
       \/ alive /\ WorkersFlush
       \/ ~alive /\ UNCHANGED <<sharedVars, getworkVars, cpc, statsVars>>
    /\ samples' = IF now' = now THEN samples ELSE Append(samples, counter)

MonitorSpec == MonitorInit /\ [][MonitorNext]_monitorVars

\* The connection thread is scheduled, its dials and sleeps end, and a quit is
\* carried through.
MonitorFairSpec ==
    /\ MonitorSpec
    /\ WF_monitorVars(GetWorkShown /\ UNCHANGED samples)
    /\ WF_monitorVars((RestoreTerminal \/ ProcessExit) /\ CommandShown
                        /\ UNCHANGED samples)

-----------------------------------------------------------------------------

\* Every variable has its type.
MonitorTypeOK == SharedTypeOK /\ GetWorkTypeOK /\ CommandTypeOK /\ StatsTypeOK

Oldest == IF now > Slots THEN now - Slots ELSE 0

\* The sliding window is exact at every tick, printed or not: the published
\* rate is the hashes flushed over the last Slots seconds, or since the start
\* while the miner is younger than that.  An outage must not let it go stale.
RateExact ==
    now > 0 => rate_hs = [hashes  |-> samples[now + 1] - samples[Oldest + 1],
                          elapsed |-> now - Oldest]

\* The status row is suppressed while disconnected; a row painted by a tick
\* that passed the gate just before is erased by the next log record.
StaleRowErased == (row /\ ~connected) ~> (~row \/ connected \/ ~alive)

\* The claim beside StatusFields: the fields of one painted row come from one
\* job push.
FieldsFromOneJob ==
    spc = "paint" => \A f, g \in StatusField : fields[f] = fields[g]

\* The claim of term::restore_on_exit: the miner leaves by quit with the
\* cursor off the status row.
CleanExit == cpc = "restored" /\ ~alive => ~row

=============================================================================
