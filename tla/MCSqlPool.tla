------------------------------ MODULE MCSqlPool ------------------------------
(* Model-checking instance of SqlPool: the agent's pool of one connection, *)
(* and larger ones, with every kind of call.                               *)
EXTENDS SqlPool
=============================================================================
