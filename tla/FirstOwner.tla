----------------------------- MODULE FirstOwner -----------------------------
(***************************************************************************)
(* What first-run setup promises: it is open until somebody owns the       *)
(* panel.  Whoever is let in while nobody does may become an owner, under  *)
(* a name and with a kit that no owner has, or give up; from then on       *)
(* nobody is let in, no owner is ever replaced, and only an owner's kit is *)
(* displayed.  Until two calls race one is let in at a time, so that there *)
(* is one owner; after a race those let in before may still follow.        *)
(***************************************************************************)
CONSTANTS Usernames, Kits, Claimants

VARIABLES
  owners,      \* who owns the panel: a name and a kit each
  entered,     \* who was let in and has not finished
  disclosed,   \* kits that have been displayed
  raced        \* have two calls been in progress at once?

Init == owners = {} /\ entered = {} /\ disclosed = {} /\ raced = FALSE

Enter(x) ==
  /\ owners = {}
  /\ raced \/ entered = {}
  /\ entered' = entered \cup {x}
  /\ UNCHANGED <<owners, disclosed, raced>>

Leave(x) ==
  /\ x \in entered
  /\ entered' = entered \ {x}
  /\ UNCHANGED <<owners, disclosed, raced>>

Claim(x, u, k) ==
  /\ x \in entered
  /\ \A owner \in owners : owner.username # u /\ owner.kit # k
  /\ owners' = owners \cup {[username |-> u, kit |-> k]}
  /\ entered' = entered \ {x}
  /\ UNCHANGED <<disclosed, raced>>

Disclose(owner) ==
  /\ owner \in owners
  /\ disclosed' = disclosed \cup {owner.kit}
  /\ UNCHANGED <<owners, entered, raced>>

Race == raced' = TRUE /\ UNCHANGED <<owners, entered, disclosed>>

Next ==
  \/ Race
  \/ \E x \in Claimants :
       Enter(x) \/ Leave(x) \/ \E u \in Usernames, k \in Kits : Claim(x, u, k)
  \/ \E owner \in owners : Disclose(owner)

Spec == Init /\ [][Next]_<<owners, entered, disclosed, raced>>
=============================================================================
