------------------------------ MODULE ShareFlow ------------------------------
(***************************************************************************)
(* What the miner promises the daemon about the shares it sends, with no   *)
(* thread, lock, counter or connection in sight:                           *)
(*   - a share is for a job the daemon offered, carries that job's id and  *)
(*     clears its target;                                                  *)
(*   - shares go out in the order they were found, none twice, until the   *)
(*     worker that found it has gone through all its nonces;               *)
(*   - a share may be lost, but nothing found before a session began is    *)
(*     sent in it.                                                         *)
(***************************************************************************)
EXTENDS Integers, Sequences

CONSTANTS Shares,    \* the shares there are: records with fields jobid, work
          Valid      \* those that clear the target of the job they name

VARIABLES
    offered,   \* job ids the daemon has pushed
    pool,      \* found in this session and not sent yet, in order
    sent,      \* sent to the daemon so far
    lapped     \* workers that have exhausted their nonces

flowVars == <<offered, pool, sent, lapped>>

FlowInit ==
    /\ offered = {}
    /\ pool = <<>>
    /\ sent = {}
    /\ lapped = {}

Offer(t) ==
    /\ offered' = offered \cup {t}
    /\ UNCHANGED <<pool, sent, lapped>>

Find(s) ==
    /\ s \in Valid
    /\ s.jobid \in offered
    /\ pool' = Append(pool, s)
    /\ UNCHANGED <<offered, sent, lapped>>

Submit ==
    /\ pool # <<>>
    /\ Head(pool) \notin sent \/ Head(pool).work.tid \in lapped
    /\ sent' = sent \cup {Head(pool)}
    /\ pool' = Tail(pool)
    /\ UNCHANGED <<offered, lapped>>

Lose ==
    /\ pool # <<>>
    /\ pool' = Tail(pool)
    /\ UNCHANGED <<offered, sent, lapped>>

NewSession ==
    /\ pool' = <<>>
    /\ UNCHANGED <<offered, sent, lapped>>

Lap(tid) ==
    /\ lapped' = lapped \cup {tid}
    /\ UNCHANGED <<offered, pool, sent>>

FlowNext ==
    \/ \E s \in Shares : Offer(s.jobid) \/ Find(s) \/ Lap(s.work.tid)
    \/ Submit \/ Lose \/ NewSession

FlowSpec == FlowInit /\ [][FlowNext]_flowVars

=============================================================================
