---------------------------- MODULE Timekeeping ----------------------------
(***************************************************************************)
(* What keeps the time between two hosts: the packets that they exchange   *)
(* (NtpExchange), the local clock that is steered (LocalClock) and what    *)
(* the daemon says of its synchronisation (Reference).  Each of these      *)
(* modules has its own state and is checked on its own: part says which    *)
(* one runs, and the others rest in one of their first states.             *)
(***************************************************************************)
EXTENDS LocalClock, Reference, NtpExchange

CONSTANT Parts      \* of those below, the ones that run

ASSUME PartsAssumption == Parts \subseteq {"clock", "reference", "exchange"}

VARIABLE part

timeVars == <<part, clockVars, referenceVars, exchangeVars>>

TimeInit ==
  /\ part \in Parts
  /\ ClockInit /\ (part # "clock" => ~sys.have_nanopll)
  /\ ReferenceInit /\ (part # "reference" => conf = (CHOOSE c \in Configs : TRUE) /\ date = "other")
  /\ ExchangeInit /\ (part # "exchange" => mode = CHOOSE p \in Pairs : TRUE)

TimeNext ==
  /\ UNCHANGED part
  /\ IF part = "clock" THEN ClockNext ELSE UNCHANGED clockVars
  /\ IF part = "reference" THEN ReferenceNext ELSE UNCHANGED referenceVars
  /\ IF part = "exchange" THEN ExchangeNext ELSE UNCHANGED exchangeVars

TimeSpec == TimeInit /\ [][TimeNext]_timeVars
=============================================================================
