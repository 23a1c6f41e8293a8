-------------------------- MODULE MCRecoveryCodes ---------------------------
(* Model-checking instance of RecoveryCodes: three issued codes, one that  *)
(* is not, and two requests, in turn or at once.                           *)
EXTENDS RecoveryCodes
=============================================================================
