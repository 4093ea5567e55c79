----------------------------- MODULE MCScheduler -----------------------------
(* Values of the constants of Scheduler for TLC. *)
EXTENDS Scheduler

CONSTANTS t1, t2, t3

MCTimeoutID == {t1, t2, t3}
=============================================================================
