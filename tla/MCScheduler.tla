---------------------------- MODULE MCScheduler ----------------------------
(* Scheduler for TLC. *)
EXTENDS Scheduler

CONSTANTS a, b

TwoSources == {a, b}

=============================================================================
