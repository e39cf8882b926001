---------------------------- MODULE MCAuthoring ----------------------------
(***************************************************************************)
(* Instances of the authoring controller for TLC: a source of five units   *)
(* in three batches.                                                       *)
(***************************************************************************)
EXTENDS Authoring

CONSTANTS e1, e2, o1, o2, draft, better, best

First == <<1, 2>>
Second == <<3, 3>>

Says(text, ranges) == [text |-> text, cites |-> ranges]

\* e1 can be attributed to either of the first two batches.
MCDrafts ==
  {[entry |-> e1, content |-> Says(draft, {First, Second})],
   [entry |-> e2, content |-> Says(draft, {Second})]}

\* Batches with and without Entries, with a usage below and above the
\* estimate.
MCReports ==
  {[batch |-> 1, used |-> 3, entries |-> {e1}], [batch |-> 3, used |-> 0, entries |-> {}]}
    \cup {[batch |-> 2, used |-> 1, entries |-> es] : es \in {{e1}, {e2}}}

MCExtensions == {[op |-> o2, added |-> 2]}

Revision(op, old, new) ==
  [op |-> op, entry |-> e1,
   old |-> Says(old, {First, Second}), new |-> Says(new, {First, Second})]

\* Two revisions that follow one another, one that rivals the first, and one
\* that takes it back.
MCRivals ==
  {Revision(o1, draft, better), Revision(o2, better, best),
   Revision(o2, draft, best), Revision(o2, better, draft)}

=============================================================================
