------------------------------ MODULE MCMonitor ------------------------------
(* Constant values for TLC: one job, no worker: the channel stays empty. *)
EXTENDS Monitor

CONSTANTS a, none

MCPost == {a}
MCMalformed == {none}
MCNone == {}

=============================================================================
