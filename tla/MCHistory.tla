------------------------------ MODULE MCHistory ------------------------------
(* Constant values for TLC. *)
EXTENDS History, TLC

CONSTANTS w1, w2, a, b, none

MCOneWorker == {w1}
MCWorkers == {w1, w2}
MCPost == {a}
MCPre == {b}
MCMalformed == {none}
MCNoJobs == {}

\* Both works of one pass on a Pre job, and one on a Post job, where the fast path
\* may claim either.
MCWinners ==
    [job : Pre, tid : Workers, nonce : {1, 2}] \cup [job : Post, tid : Workers, nonce : {2}]

WorkerSymmetry == Permutations(MCWorkers)

=============================================================================
