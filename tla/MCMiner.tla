------------------------------- MODULE MCMiner -------------------------------
(* Constant values for TLC: up to two workers, one job of each kind. *)
EXTENDS Miner, TLC

CONSTANTS w1, w2, a, b, none

MCOneWorker == {w1}
MCWorkers == {w1, w2}
MCPost == {a}
MCPre == {b}
MCMalformed == {none}
MCNoJobs == {}

\* One winning nonce per job and worker.
MCWinners == [job : Post \cup Pre, tid : Workers, nonce : {2}]

WorkerSymmetry == Permutations(MCWorkers)

=============================================================================
