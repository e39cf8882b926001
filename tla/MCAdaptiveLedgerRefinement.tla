--------------------- MODULE MCAdaptiveLedgerRefinement ---------------------
(***************************************************************************)
(* The ledger against its promise, with the requests of MCAdaptiveLedger.  *)
(*                                                                         *)
(* Bound: in one behaviour clients write in one scope, or they write and   *)
(* recall in both with two records and two operation ids, or they write in *)
(* one with two records and list what was deleted.  All are behaviours of  *)
(* Spec; `extent` is which of them this one is.                            *)
(***************************************************************************)
EXTENDS MCAdaptiveLedger, AdaptiveLedgerRefinement

VARIABLE extent

Calling == {call[c] : c \in {d \in Clients : call[d] # NULL}}

Asked == {k.request.scope : k \in Calling}

Recalling == {k \in Calling : k.request.type = "recall"}

Named == Bound \cup {k.op : k \in Calling \ Recalling}

OneScope == Cardinality(Asked \cup {memories[m].scope : m \in Stored}) <= 1

Fits ==
  CASE extent = "chain" -> OneScope /\ Recalling = {}
    [] extent = "scopes" ->
         /\ Cardinality(Stored) <= 2 /\ Cardinality(Named) <= 2
         /\ \A k \in Recalling : k.request.value.status # "deleted"
    [] extent = "deleted" ->
         /\ OneScope /\ Cardinality(Stored) <= 2
         /\ \A k \in Recalling : k.request.value.status = "deleted"

MCNext ==
  /\ UNCHANGED extent
  /\ \/ Tick
     \/ \E c \in Clients : Client(c) /\ Fits'

MCInit == Init /\ extent \in {"chain", "scopes", "deleted"}

MCSpec == MCInit /\ [][MCNext]_<<vars, extent>>

=============================================================================
