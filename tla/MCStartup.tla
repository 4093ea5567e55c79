------------------------------ MODULE MCStartup ------------------------------
(* Values of the constants of Startup for TLC. *)
EXTENDS Startup

CONSTANTS t1, t2, t3

MCTimeoutID == {t1, t2, t3}

\* With and without -s, with and without initstepslew.
MCStarts == [rtc : BOOLEAN, step : BOOLEAN]
=============================================================================
