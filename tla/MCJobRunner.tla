---------------------------- MODULE MCJobRunner -----------------------------
(* Model-checking instance of JobRunner.  MCJobRunner.cfg lets Get read a  *)
(* NULL error column, so that jobs run at all: two of three jobs have a    *)
(* handler, the channel holds two ids, two workers, three processes, each  *)
(* of which may be stopped or killed.  MCJobRunner_AsWritten.cfg takes Get *)
(* as it is.                                                               *)
EXTENDS JobRunner
=============================================================================
