----------------------------- MODULE MCServices -----------------------------
(* Values of the constants of Services for TLC. *)
EXTENDS Services, TLC

CONSTANTS c1, c2

MCClient == {c1, c2}
MCSymmetry == Permutations(MCClient)

\* The subnets of every length around three addresses.
MCSubnet ==
  LET covered(bits, k) == Max({0, Min({2, bits - 2 * (k - 1)})})
      cleared(ip, bits) == \A k \in 1 .. 2 : ip[k] % 2 ^ (2 - covered(bits, k)) = 0
  IN {s \in [ip : {<<0, 0>>, <<0, 2>>, <<0, 3>>}, bits : 0 .. 4] : cleared(s.ip, s.bits)}

MCLogClient == [1 .. 3 -> {0, 1}]
MCCorrections == {-1, 1}
=============================================================================
