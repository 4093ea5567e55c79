-------------------------- MODULE MCNtpAssociation --------------------------
(* Values of the constants of NtpAssociation for TLC. *)
EXTENDS NtpAssociation, TLC

CONSTANTS t1, t2

Option(m, on, ib, auto, pre) ==
  [mode |-> m, online |-> on, iburst |-> ib, auto_offline |-> auto, presend_minpoll |-> pre]

MCTimeoutID == {t1, t2}

\* A dial-up server, a server with presend, and a symmetric peer.
MCParams ==
  {Option("MODE_CLIENT", FALSE, TRUE, TRUE, 0), Option("MODE_CLIENT", TRUE, FALSE, FALSE, 2),
   Option("MODE_ACTIVE", TRUE, TRUE, FALSE, 0)}

MCBursts == {<<1, 2>>, <<2, 3>>, <<1, 0>>}
MCIBurst == <<1, 2>>
=============================================================================
