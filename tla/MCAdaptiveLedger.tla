-------------------------- MODULE MCAdaptiveLedger --------------------------
(***************************************************************************)
(* Instances of the ledger for TLC: the requests that clients make, and    *)
(* the symmetries of the random tokens.                                    *)
(***************************************************************************)
EXTENDS AdaptiveLedger, TLC

CONSTANTS tea, milk

\* One memory that lasts and one that expires at time 1.
MCWrites ==
  {[content |-> tea, validFrom |-> NULL, validTo |-> NULL, expires |-> NULL],
   [content |-> milk, validFrom |-> NULL, validTo |-> NULL, expires |-> 1]}

\* One correction, which keeps the expiry of what it corrects.
MCCorrections ==
  {[content |-> milk, validFrom |-> NULL, validTo |-> Kept, expires |-> Kept]}

MCContents == {tea, milk}

\* get and list, a search for one content, and lists of what has expired, of
\* what was superseded and of what was deleted; the last is refused.
MCRecalls ==
  {Usual, [Usual EXCEPT !.content = tea], [Usual EXCEPT !.expired = TRUE],
   [Usual EXCEPT !.status = "superseded"], [Usual EXCEPT !.status = "deleted"],
   [Usual EXCEPT !.status = "deleted", !.expired = TRUE]}

\* Clients, memory tokens, operation ids and scopes are interchangeable.
Symmetry ==
  Permutations(Clients) \cup Permutations(MemIds) \cup Permutations(OpIds)
    \cup Permutations(Scopes)

=============================================================================
