---------------------------- MODULE MCAuditChain ----------------------------
(* Model-checking instance of AuditChain: two callers, three ids and two   *)
(* outside edits.  Two pairs of texts run into each other over the bar,    *)
(* and a document can be absent, respelled or replaced by no JSON.         *)
EXTENDS AuditChain, TLC

Plain == <<"x">>
Barred == <<"x", "|", "x">>
EntryOf(actor, resource, spelling) ==
  [actor |-> actor, resource |-> resource,
   after |-> [spelling |-> spelling, document |-> <<"{}">>]]

MCEntries ==
  {EntryOf(Plain, Barred, "null"), EntryOf(Barred, Plain, "null"), EntryOf(Plain, Barred, "invalid"),
   EntryOf(Plain, Plain, "encoded"), EntryOf(Plain, Plain, "respelled")}

Perms == Permutations(Callers)
=============================================================================
