----------------------------- MODULE MCBootstrap -----------------------------
(* Model-checking instance of Bootstrap: three visits, the same or         *)
(* different names, and two verify calls, in turn or at once.              *)
EXTENDS Bootstrap
=============================================================================
