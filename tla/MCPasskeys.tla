----------------------------- MODULE MCPasskeys -----------------------------
(* Three ceremonies of one authenticator, two requests of the verify route. *)
EXTENDS Passkeys, TLC

Symmetry == Permutations(Ceremonies) \cup Permutations(Requests)
=============================================================================
