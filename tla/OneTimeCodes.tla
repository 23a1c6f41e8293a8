---------------------------- MODULE OneTimeCodes ----------------------------
(***************************************************************************)
(* What the recovery page promises: "Each successful sign-in burns one     *)
(* code permanently".  A burned code never comes back and admits at most   *)
(* one sign-in (none, if the sign-in fails after the code was burned); the *)
(* last code is never burned.  That holds until two sign-ins race; from    *)
(* then on only what the code still guarantees: sign-ins take issued       *)
(* codes, and some code is left.                                           *)
(***************************************************************************)
CONSTANTS Codes, Issued

VARIABLES
  live,    \* codes that can still be used
  spent,   \* codes a sign-in has succeeded with
  raced    \* have two sign-ins been in progress at once?

Init == live = Issued /\ spent = {} /\ raced = FALSE

Burn(c) ==
  /\ c \in live
  /\ live \ {c} # {}
  /\ live' = live \ {c}
  /\ UNCHANGED <<spent, raced>>

SignIn(c) ==
  /\ c \in Issued \ (live \cup spent)
  /\ spent' = spent \cup {c}
  /\ UNCHANGED <<live, raced>>

Race ==
  /\ raced' = TRUE
  /\ live' \in SUBSET Issued /\ live' # {}
  /\ spent \subseteq spent' /\ spent' \subseteq Issued
  /\ raced \/ UNCHANGED <<live, spent>>

Next == Race \/ \E c \in Codes : Burn(c) \/ SignIn(c)

Spec == Init /\ [][Next]_<<live, spent, raced>>
=============================================================================
