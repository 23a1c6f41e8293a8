----------------------------- MODULE MCSessions -----------------------------
(* Model-checking instance of Sessions: one session, two concurrent        *)
(* requests, a right and a wrong peer, and a clock that passes the idle    *)
(* window as well as the hard cap.                                         *)
EXTENDS Sessions
=============================================================================
