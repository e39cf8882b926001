-------------------------- MODULE MCAdaptiveReview --------------------------
(***************************************************************************)
(* Instances of the review loop for TLC.                                   *)
(***************************************************************************)
EXTENDS AdaptiveReview

CONSTANTS tea, milk, c1, r1, r2, m1, m2, m3, o1, o2, o3, q1, q2, d1, d2,
          a1, a2, p1, p2, t1, t2, s1

\* A memory that lasts, and one with the same content that expires at 1.
MCWrites ==
  {[content |-> tea, validFrom |-> NULL, validTo |-> NULL, expires |-> NULL],
   [content |-> tea, validFrom |-> NULL, validTo |-> NULL, expires |-> 1]}

\* A correction to another content that lasts as long as the old one.
MCCorrections ==
  {[content |-> milk, validFrom |-> NULL, validTo |-> Kept, expires |-> Kept]}

MCContents == {tea, milk}

\* One principal proposes and approves, another applies.
MCEnrollments ==
  {[id |-> p1, token |-> t1,
    permissions |-> {"review_propose", "review_approve"}],
   [id |-> p2, token |-> t2, permissions |-> {"review_apply"}]}

MCOpIds == {o1, o2, o3} \cup {ApplyOp(a, m) : a \in ApplicationIds, m \in MemIds}

MCCredentials == {<<p1, t1>>, <<p2, t2>>}

(***************************************************************************)
(* Bound: in one behaviour either the clients run beside reviewers that    *)
(* take turns, or the reviewers race each other and no client runs.  Both  *)
(* are behaviours of ReviewSpec; `company` is which of them this one is.   *)
(***************************************************************************)
VARIABLE company

\* A ledger in which a client has remembered the same content twice, the
\* second time until 1.
MCInit ==
  LET lasting == CHOOSE w \in Writes : w.expires = NULL
      fading  == CHOOSE w \in Writes : w.expires # NULL
      Ask0(w) == [type |-> "remember", scope |-> s1, target |-> NULL, value |-> w]
  IN  /\ memories = [m \in MemIds |->
           CASE m = m1 -> NewRecord(Normalize(lasting, 0), s1, m1, 1, NULL, 0)
             [] m = m2 -> NewRecord(Normalize(fading, 0), s1, m2, 1, NULL, 0)
             [] OTHER  -> NULL]
      /\ operations = [o \in OpIds |->
           CASE o = o1 -> NewOperation(Ask0(lasting), m1, m1, NULL)
             [] o = o2 -> NewOperation(Ask0(fading), m2, m2, NULL)
             [] OTHER  -> NULL]
      /\ events = <<[type |-> "remember", memory |-> m1, lineage |-> m1],
                    [type |-> "remember", memory |-> m2, lineage |-> m2]>>
      /\ clock = 0
      /\ call = [c \in Clients |-> NULL]
      /\ principals = [p \in PrincipalIds |-> NULL]
      /\ proposals = [q \in ProposalIds |-> NULL]
      /\ decisions = [d \in DecisionIds |-> NULL]
      /\ applications = [a \in ApplicationIds |-> NULL]
      /\ review = [r \in Reviewers |-> NULL]
      /\ company \in {"clients", "race"}

InTurn(r) == \A other \in Reviewers \ {r} : review[other] = NULL

MCReviewNext ==
  /\ UNCHANGED company
  /\ \/ Tick /\ UNCHANGED reviewVars
     \/ /\ company = "clients"
        /\ \E c \in Clients : Client(c)
        /\ UNCHANGED reviewVars
     \/ \E e \in Enrollments : CreatePrincipal(e)
     \/ \E p \in PrincipalIds : RevokePrincipal(p)
     \/ \E r \in Reviewers : (company = "clients" => InTurn(r)) /\ Reviewer(r)

MCReviewSpec == MCInit /\ [][MCReviewNext]_<<allVars, company>>

Symmetry ==
  Permutations(Reviewers) \cup Permutations(ProposalIds)
    \cup Permutations(DecisionIds) \cup Permutations(ApplicationIds)

=============================================================================
