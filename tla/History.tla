------------------------------- MODULE History -------------------------------
(***************************************************************************)
(* The miner with history variables.  They record what the threads did and *)
(* constrain nothing: every step of Miner is a step of this specification  *)
(* with the history brought up to date from the values before and after.   *)
(***************************************************************************)
EXTENDS Miner

VARIABLES
    hashed,    \* the works hashed so far, by any worker
    made,      \* nonces each worker tried before it had gone through all of them
    lapped,    \* the workers that have gone through all of their nonces
    stale,     \* hashes each worker made since job_counter left its local copy
    offered,   \* the templates stored in job so far
    backlog,   \* entries at the head of the channel sent before this session began
    sent       \* the shares written to the websocket

historyVars == <<hashed, made, lapped, stale, offered, backlog, sent>>

hvars == <<vars, historyVars>>

HInit ==
    /\ Init
    /\ hashed = {}
    /\ made = [w \in Workers |-> 0]
    /\ lapped = {}
    /\ stale = [w \in Workers |-> 0]
    /\ offered = {}
    /\ backlog = 0
    /\ sent = {}

\* What this step did, read off the variables it changed.  A pass is counted by
\* the for loop and not by i: what i should be is what NoWorkRepeated is about.
Hashes(w) == pc[w] = "hash" /\ k'[w] # k[w]

PassWorks(w) == {WorkAt(w, WrappingAdd(i[w], l)) : l \in 1 .. Lanes}

Pops == queue # <<>> /\ queue' = Tail(queue)

Writes == Pops /\ gpc = "submit" /\ gpc' = "submit"

Record ==
    /\ hashed' = hashed \cup UNION {PassWorks(w) : w \in {x \in Workers : Hashes(x)}}
    /\ lapped' = lapped \cup {w \in Workers : Hashes(w) /\ made[w] + Lanes >= NonceMod}
    /\ made' = [w \in Workers |->
                   IF Hashes(w) /\ w \notin lapped' THEN made[w] + Lanes ELSE made[w]]
    /\ stale' = [w \in Workers |->
                    IF Hashes(w) /\ local[w] # job_counter THEN stale[w] + Lanes
                    ELSE IF pc[w] = "load" THEN 0 ELSE stale[w]]
    /\ offered' = IF job' = job THEN offered ELSE offered \cup {job'.tmpl}
    /\ backlog' = IF gpc' = "drain" THEN Len(queue')
                  ELSE IF rx_open' # rx_open THEN 0
                  ELSE IF Pops /\ backlog > 0 THEN backlog - 1
                  ELSE backlog
    /\ sent' = IF Writes THEN sent \cup {Head(queue)} ELSE sent

HNext == Next /\ Record

HSpec == HInit /\ [][HNext]_hvars

-----------------------------------------------------------------------------
(* Properties *)

\* The history variables have their types.
HTypeOK ==
    /\ hashed \subseteq Work
    /\ made \in [Workers -> Nat]
    /\ lapped \subseteq Workers
    /\ stale \in [Workers -> Nat]
    /\ offered \subseteq Templates
    /\ backlog \in Nat
    /\ sent \subseteq Share

\* No work is hashed twice before the worker has tried NonceMod nonces, whatever
\* mixture of job changes, repeated pushes of one template, malformed jobs and
\* exits: i persists across jobs and advances once per nonce, in both grind
\* loops.  A counter reset or held back at a job change hashes some work again
\* while the number of nonces tried is still small.
NoWorkRepeated ==
    [][\A w \in Workers :
          Hashes(w) /\ w \notin lapped' => PassWorks(w) \cap hashed = {}]_hvars

\* A worker looks at job_counter between batches only, so a new job costs at
\* most one batch of hashes on the old one.
StaleBound == \A w \in Workers : stale[w] <= Batch

InSession == gpc \in {"loop", "submit", "read", "write", "announce", "mirror"}

\* The drain after an upgrade: in the session loop no share is left in the channel
\* that was sent before it began, those sent while the drain ran included.
SessionClean == InSession => backlog = 0

\* The miner keeps the promise of ShareFlow.  The pool is the channel without
\* the backlog of earlier sessions.
Flow == INSTANCE ShareFlow WITH
    Shares <- Share,
    Valid <- {s \in Share : s.jobid = s.work.job /\ s.work \in Winners},
    pool <- SubSeq(queue, backlog + 1, Len(queue))

KeepsSharePromise == Flow!FlowSpec

=============================================================================
