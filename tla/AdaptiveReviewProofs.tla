------------------------ MODULE AdaptiveReviewProofs ------------------------
(***************************************************************************)
(* Theorems about the review loop over the ledger, for any number of       *)
(* clients, reviewers, principals, proposals, decisions and applications.  *)
(***************************************************************************)
EXTENDS AdaptiveReview, AdaptiveLedgerProofs

-----------------------------------------------------------------------------
(* The inductive invariant.                                                *)

\* Clients bind ids of their own, never those that an application derives.
OwnIds == \A c \in Clients : call[c] # NULL => call[c].op \in Supplied \cup {NULL}

\* The tables of the trail and the calls in flight have their domains.
Tables ==
  /\ principals \in [PrincipalIds -> Principal \cup {NULL}]
  /\ proposals \in [ProposalIds -> Proposal \cup {NULL}]
  /\ decisions = [d \in DecisionIds |-> decisions[d]]
  /\ applications = [a \in ApplicationIds |-> applications[a]]
  /\ review = [r \in Reviewers |-> review[r]]

\* A principal was enrolled with the permission, revoked since or not.
Holds(p, permission) ==
  /\ p \in PrincipalIds
  /\ principals[p] # NULL
  /\ permission \in principals[p].permissions

\* The candidates of a proposal list what was scanned, each memory once.
ListsOnce(body) ==
  /\ \A c \in body.candidates : c.memories \subseteq body.scanned
  /\ \A b, c \in body.candidates : b # c => b.memories \cap c.memories = {}

ProposalsSound ==
  \A q \in ProposalIds : proposals[q] # NULL =>
    Holds(proposals[q].by, "review_propose") /\ ListsOnce(proposals[q].body)

\* A choice was made for a proposal that is there.
Chosen(q, choice) ==
  /\ q \in ProposalIds
  /\ proposals[q] # NULL
  /\ choice \in ValidChoices(proposals[q].body)

DecisionsSound ==
  \A d \in DecisionIds : decisions[d] # NULL =>
    /\ Holds(decisions[d].by, "review_approve")
    /\ Chosen(decisions[d].proposal, decisions[d].choice)

\* The memories to keep were named for a decision that is there.
Named(d, keep) ==
  /\ d \in DecisionIds
  /\ decisions[d] # NULL
  /\ keep \in Keeps(d)

ApplicationsSound ==
  \A a \in ApplicationIds : applications[a] # NULL =>
    /\ Holds(applications[a].by, "review_apply")
    /\ applications[a].decision \in DecisionIds
    /\ decisions[applications[a].decision] # NULL
    /\ applications[a].forgotten \subseteq Stored

\* A proposal is decided once, and a decision is applied once.
CarriedOutOnce ==
  /\ \A d, e \in DecisionIds :
       /\ decisions[d] # NULL /\ decisions[e] # NULL
       /\ decisions[d].proposal = decisions[e].proposal
       => d = e
  /\ \A a, b \in ApplicationIds :
       /\ applications[a] # NULL /\ applications[b] # NULL
       /\ applications[a].decision = applications[b].decision
       => a = b

\* What a reviewer's call carries is from the past, and still there.
CallSound(k) ==
  /\ k.now \in Nat /\ k.now <= clock
  /\ k.principal \in PrincipalIds /\ k.scope \in Scopes
  /\ k.kind = "decide" =>
       k.decision \in DecisionIds /\ Chosen(k.proposal, k.choice)
  /\ k.kind = "apply" =>
       k.application \in ApplicationIds /\ Named(k.decision, k.keep)

CallsSound == \A r \in Reviewers : review[r] # NULL => CallSound(review[r])

TrailInv ==
  /\ Tables
  /\ ProposalsSound /\ DecisionsSound /\ ApplicationsSound
  /\ CarriedOutOnce /\ CallsSound

ReviewInv == IInv /\ OwnIds /\ TrailInv /\ AppliedAsDecided

-----------------------------------------------------------------------------
(* What is in the trail stays there.                                       *)

\* No row is removed or rewritten, except that a principal may be revoked.
TrailGrows ==
  /\ \A p \in PrincipalIds : principals[p] # NULL =>
       /\ principals'[p] # NULL
       /\ principals'[p].permissions = principals[p].permissions
  /\ \A q \in ProposalIds : proposals[q] # NULL => proposals'[q] = proposals[q]
  /\ \A d \in DecisionIds : decisions[d] # NULL => decisions'[d] = decisions[d]
  /\ \A a \in ApplicationIds :
       applications[a] # NULL => applications'[a] = applications[a]

\* No step takes anything of the trail back.
LEMMA TrailStep == Tables /\ [ReviewNext]_allVars => TrailGrows
<1> SUFFICES ASSUME Tables, [ReviewNext]_allVars PROVE TrailGrows
  OBVIOUS
<1>1. CASE UNCHANGED <<principals, trailVars>>
  BY <1>1 DEF TrailGrows, trailVars
<1>2. CASE UNCHANGED reviewVars
  BY <1>1, <1>2 DEF reviewVars
<1>3. ASSUME NEW e \in Enrollments, CreatePrincipal(e)
      PROVE  TrailGrows
  BY <1>3, ReviewAssumption DEF CreatePrincipal, Tables, TrailGrows, trailVars
<1>4. ASSUME NEW p \in PrincipalIds, RevokePrincipal(p)
      PROVE  TrailGrows
  <2>1. principals[p] \in Principal
    BY <1>4 DEF RevokePrincipal, Tables
  <2>2. PICK row : row = [principals[p] EXCEPT !.status = "revoked"]
    OBVIOUS
  <2>3. row \in Principal /\ row.permissions = principals[p].permissions
    BY <2>1, <2>2 DEF Principal
  <2>4. principals' = [principals EXCEPT ![p] = row]
    BY <1>4, <2>2 DEF RevokePrincipal
  <2>5. \A o \in PrincipalIds : principals[o] # NULL =>
          /\ principals'[o] # NULL
          /\ principals'[o].permissions = principals[o].permissions
    BY <2>3, <2>4, ReviewAssumption DEF Tables
  <2> QED
    BY <1>4, <2>5 DEF RevokePrincipal, TrailGrows, trailVars
<1>5. ASSUME NEW r \in Reviewers,
             CallPropose(r) \/ CallDecide(r) \/ CallApply(r) \/ EndReview(r)
      PROVE  TrailGrows
  BY <1>1, <1>5 DEF CallPropose, CallDecide, CallApply, EndReview
<1>6. ASSUME NEW r \in Reviewers, Propose(r)
      PROVE  TrailGrows
  BY <1>6 DEF Propose, Tables, TrailGrows
<1>7. ASSUME NEW r \in Reviewers, Decide(r)
      PROVE  TrailGrows
  BY <1>7 DEF Decide, Tables, TrailGrows
<1>8. ASSUME NEW r \in Reviewers, Apply(r)
      PROVE  TrailGrows
  BY <1>8 DEF Apply, Tables, TrailGrows
<1>9. CASE UNCHANGED allVars
  BY <1>2, <1>9 DEF allVars
<1>10. CASE ReviewNext
  BY <1>2, <1>3, <1>4, <1>5, <1>6, <1>7, <1>8, <1>10, Zenon DEF ReviewNext, Reviewer
<1> QED
  BY <1>9, <1>10

\* What was there before a step is there after it.
LEMMA StillThere ==
  ASSUME TrailGrows
  PROVE  /\ \A p, permission : Holds(p, permission) => Holds(p, permission)'
         /\ \A q, choice : Chosen(q, choice) => Chosen(q, choice)'
         /\ \A d, keep : Named(d, keep) => Named(d, keep)'
<1>1. \A p, permission : Holds(p, permission) => Holds(p, permission)'
  BY DEF TrailGrows, Holds
<1>2. ASSUME NEW q, NEW choice, Chosen(q, choice)
      PROVE  Chosen(q, choice)'
  <2>1. q \in ProposalIds /\ proposals[q] # NULL /\ proposals'[q] = proposals[q]
    BY <1>2 DEF TrailGrows, Chosen
  <2> QED
    BY <1>2, <2>1 DEF Chosen
<1>3. ASSUME NEW d, NEW keep, Named(d, keep)
      PROVE  Named(d, keep)'
  <2>1. d \in DecisionIds /\ decisions[d] # NULL /\ decisions'[d] = decisions[d]
    BY <1>3 DEF TrailGrows, Named
  <2>2. Accepted(d)' = Accepted(d)
    BY <2>1 DEF Accepted
  <2> QED
    BY <1>3, <2>1, <2>2 DEF Named, Keeps
<1> QED
  BY <1>1, <1>2, <1>3

\* A call in flight stays sound while others go on.
LEMMA CallKept ==
  ASSUME TrailGrows, clock \in Nat, clock' \in Nat, clock <= clock',
         NEW k, CallSound(k)
  PROVE  CallSound(k)'
<1>1. k.now <= clock'
  BY DEF CallSound
<1>2. k.kind = "decide" => Chosen(k.proposal, k.choice)'
  BY StillThere DEF CallSound
<1>3. k.kind = "apply" => Named(k.decision, k.keep)'
  BY StillThere DEF CallSound
<1> QED
  BY <1>1, <1>2, <1>3 DEF CallSound

\* The steps of the composed system: the ledger's, those that write neither
\* the ledger nor the trail, and the three transactions of the trail.
LEMMA ReviewSteps ==
  ASSUME [ReviewNext]_allVars
  PROVE  \/ [Next]_vars /\ UNCHANGED reviewVars
         \/ /\ UNCHANGED <<vars, trailVars, review>>
            /\ \/ \E e \in Enrollments : CreatePrincipal(e)
               \/ \E p \in PrincipalIds : RevokePrincipal(p)
         \/ /\ UNCHANGED <<vars, principals, trailVars>>
            /\ \E r \in Reviewers : CallPropose(r) \/ CallDecide(r)
                                    \/ CallApply(r) \/ EndReview(r)
         \/ \E r \in Reviewers : Propose(r) \/ Decide(r) \/ Apply(r)
<1>1. CASE UNCHANGED allVars
  BY <1>1 DEF allVars
<1>2. CASE Next /\ UNCHANGED reviewVars
  BY <1>2
<1>3. ASSUME NEW e \in Enrollments, CreatePrincipal(e)
      PROVE  UNCHANGED <<vars, trailVars, review>>
  BY <1>3 DEF CreatePrincipal
<1>4. ASSUME NEW p \in PrincipalIds, RevokePrincipal(p)
      PROVE  UNCHANGED <<vars, trailVars, review>>
  BY <1>4 DEF RevokePrincipal
<1>5. ASSUME NEW r \in Reviewers,
             CallPropose(r) \/ CallDecide(r) \/ CallApply(r) \/ EndReview(r)
      PROVE  UNCHANGED <<vars, principals, trailVars>>
  BY <1>5 DEF CallPropose, CallDecide, CallApply, EndReview
<1>6. CASE ReviewNext
  BY <1>2, <1>3, <1>4, <1>5, <1>6, Zenon DEF ReviewNext, Reviewer
<1> QED
  BY <1>1, <1>6

\* Reviewers' calls are sound after every step.
LEMMA CallsStep ==
  ASSUME TypeOK, TypeOK', Tables, CallsSound, [ReviewNext]_allVars
  PROVE  CallsSound'
<1>1. TrailGrows
  BY TrailStep
<1>2. clock \in Nat /\ clock' \in Nat
  BY DEF TypeOK
<1>3. clock <= clock'
  <2>1. CASE UNCHANGED clock
    BY <1>2, <2>1
  <2>2. CASE Tick
    BY <1>2, <2>2 DEF Tick
  <2>3. CASE [Next]_vars
    BY <2>1, <2>2, <2>3 DEF Next, Client, vars, CallRemember, CallCorrect,
       CallForget, CallRecall, Remember, Correct, Forget, Replay, Refuse, Recall,
       Leave
  <2>4. ASSUME NEW r \in Reviewers, Propose(r) \/ Decide(r) \/ Apply(r)
        PROVE  UNCHANGED clock
    BY <2>4 DEF Propose, Decide, Apply, vars
  <2>5. CASE UNCHANGED vars
    BY <2>1, <2>5 DEF vars
  <2> QED
    BY <2>1, <2>3, <2>4, <2>5, ReviewSteps
<1>4. CASE UNCHANGED review
  <2> SUFFICES ASSUME NEW r \in Reviewers, review'[r] # NULL
               PROVE  CallSound(review[r])'
    BY DEF CallsSound
  <2>1. PICK k : k = review[r]
    OBVIOUS
  <2>2. CallSound(k)'
    BY <1>1, <1>2, <1>3, <1>4, <2>1, CallKept DEF CallsSound
  <2> QED
    BY <1>4, <2>1, <2>2
<1>5. ASSUME NEW r \in Reviewers, NEW k, k = NULL \/ CallSound(k)',
             review' = [review EXCEPT ![r] = k]
      PROVE  CallsSound'
  <2> SUFFICES ASSUME NEW other \in Reviewers, review'[other] # NULL
               PROVE  CallSound(review[other])'
    BY DEF CallsSound
  <2>1. PICK j : j = review'[other]
    OBVIOUS
  <2>2. CASE other = r
    BY <1>5, <2>1, <2>2 DEF Tables
  <2>3. CASE other # r
    <3>1. j = review[other] /\ j # NULL
      BY <1>5, <2>1, <2>3 DEF Tables
    <3>2. CallSound(j)'
      BY <1>1, <1>2, <1>3, <3>1, CallKept DEF CallsSound
    <3> QED
      BY <2>1, <3>2
  <2> QED
    BY <2>2, <2>3
<1>6. ASSUME NEW r \in Reviewers,
             Propose(r) \/ Decide(r) \/ Apply(r) \/ EndReview(r)
      PROVE  CallsSound'
  <2>1. review' = [review EXCEPT ![r] = NULL]
    BY <1>6 DEF Propose, Decide, Apply, EndReview, Done
  <2> QED
    BY <1>5, <2>1
<1>7. ASSUME NEW login \in Credentials
      PROVE  login[1] \in PrincipalIds
  BY <1>7, ReviewAssumption
<1>8. ASSUME NEW r \in Reviewers, CallPropose(r)
      PROVE  CallsSound'
  <2>1. PICK login \in Credentials, s \in Scopes :
          Ask(r, [kind |-> "propose", now |-> clock, principal |-> login[1],
                  token |-> login[2], scope |-> s])
    BY <1>8 DEF CallPropose
  <2>2. PICK k : k = [kind |-> "propose", now |-> clock, principal |-> login[1],
                      token |-> login[2], scope |-> s]
    OBVIOUS
  <2>3. CallSound(k)'
    BY <1>2, <1>3, <1>7, <2>2 DEF CallSound
  <2> QED
    BY <1>5, <2>1, <2>2, <2>3 DEF Ask
<1>9. ASSUME NEW r \in Reviewers, CallDecide(r)
      PROVE  CallsSound'
  <2>1. PICK login \in Credentials, s \in Scopes,
             q \in ProposalIds, d \in DecisionIds :
          /\ proposals[q] # NULL
          /\ \E choice \in ValidChoices(proposals[q].body) :
               Ask(r, [kind |-> "decide", now |-> clock, principal |-> login[1],
                       token |-> login[2], scope |-> s, proposal |-> q,
                       decision |-> d, choice |-> choice])
    BY <1>9 DEF CallDecide
  <2>2. PICK choice \in ValidChoices(proposals[q].body) :
          Ask(r, [kind |-> "decide", now |-> clock, principal |-> login[1],
                  token |-> login[2], scope |-> s, proposal |-> q,
                  decision |-> d, choice |-> choice])
    BY <2>1
  <2>3. PICK k : k = [kind |-> "decide", now |-> clock, principal |-> login[1],
                      token |-> login[2], scope |-> s, proposal |-> q,
                      decision |-> d, choice |-> choice]
    OBVIOUS
  <2>4. Chosen(q, choice)'
    BY <1>1, <2>1, <2>2, StillThere DEF Chosen
  <2>5. CallSound(k)'
    BY <1>2, <1>3, <1>7, <2>3, <2>4 DEF CallSound
  <2> QED
    BY <1>5, <2>2, <2>3, <2>5 DEF Ask
<1>10. ASSUME NEW r \in Reviewers, CallApply(r)
       PROVE  CallsSound'
  <2>1. PICK login \in Credentials, s \in Scopes,
             d \in DecisionIds, a \in ApplicationIds :
          /\ decisions[d] # NULL
          /\ \E keep \in Keeps(d) :
               Ask(r, [kind |-> "apply", now |-> clock, principal |-> login[1],
                       token |-> login[2], scope |-> s, decision |-> d,
                       application |-> a, keep |-> keep])
    BY <1>10 DEF CallApply
  <2>2. PICK keep \in Keeps(d) :
          Ask(r, [kind |-> "apply", now |-> clock, principal |-> login[1],
                  token |-> login[2], scope |-> s, decision |-> d,
                  application |-> a, keep |-> keep])
    BY <2>1
  <2>3. PICK k : k = [kind |-> "apply", now |-> clock, principal |-> login[1],
                      token |-> login[2], scope |-> s, decision |-> d,
                      application |-> a, keep |-> keep]
    OBVIOUS
  <2>4. Named(d, keep)'
    BY <1>1, <2>1, <2>2, StillThere DEF Named
  <2>5. CallSound(k)'
    BY <1>2, <1>3, <1>7, <2>3, <2>4 DEF CallSound
  <2> QED
    BY <1>5, <2>2, <2>3, <2>5 DEF Ask
<1>11. CASE UNCHANGED reviewVars \/ UNCHANGED <<vars, trailVars, review>>
  BY <1>4, <1>11 DEF reviewVars
<1> QED
  BY <1>6, <1>8, <1>9, <1>10, <1>11, ReviewSteps

-----------------------------------------------------------------------------
(* What a proposal lists.                                                  *)

\* Every candidate lists memories of the scan, and no memory is listed by two:
\* what has expired is not current, and a current memory has one content.
LEMMA CandidatesListOnce ==
  ASSUME TypeOK, NEW scanned, scanned \subseteq Stored, NEW now \in Nat
  PROVE  /\ Candidates(scanned, now) \subseteq Candidate
         /\ \A c \in Candidates(scanned, now) : c.memories \subseteq scanned
         /\ \A b, c \in Candidates(scanned, now) :
              b # c => b.memories \cap c.memories = {}
<1> DEFINE IsExpired(c, m) ==
             c = [reason |-> "expired", memories |-> {m}] /\ m \in Expired(scanned, now)
           IsDuplicate(c, m) ==
             c = [reason |-> "duplicate", memories |-> SameContent(m, scanned, now)]
<1>1. ASSUME NEW c \in Candidates(scanned, now)
      PROVE  \E m \in scanned : IsExpired(c, m) \/ IsDuplicate(c, m)
  <2>1. CASE \E m \in Expired(scanned, now) :
               c = [reason |-> "expired", memories |-> {m}]
    BY <2>1 DEF Expired
  <2>2. CASE \E group \in {SameContent(m, scanned, now) : m \in scanned} :
               c = [reason |-> "duplicate", memories |-> group]
    BY <2>2
  <2> QED
    BY <1>1, <2>1, <2>2 DEF Candidates
<1>2. ASSUME NEW c, NEW m \in scanned, IsExpired(c, m) \/ IsDuplicate(c, m)
      PROVE  c \in Candidate /\ c.memories \subseteq scanned
  <2>1. scanned \subseteq MemIds
    BY DEF Stored
  <2>2. SameContent(m, scanned, now) \subseteq scanned
    BY DEF SameContent
  <2> QED
    BY <1>2, <2>1, <2>2 DEF Candidate
<1>3. ASSUME NEW m \in Expired(scanned, now), NEW n \in scanned
      PROVE  m \notin SameContent(n, scanned, now)
  <2>1. m \in scanned /\ PastEnd(memories[m], now)
    BY DEF Expired
  <2>2. memories[m].validTo \in Time /\ memories[m].expires \in Time
    BY <2>1, StoredType DEF Record
  <2>3. ~Current(memories[m], now)
    BY <2>1, <2>2 DEF PastEnd, Current, InTime, Time
  <2> QED
    BY <2>3 DEF SameContent
<1>4. ASSUME NEW m, NEW n, NEW x, x \in SameContent(m, scanned, now),
             x \in SameContent(n, scanned, now)
      PROVE  SameContent(m, scanned, now) = SameContent(n, scanned, now)
  BY <1>4 DEF SameContent
<1>5. ASSUME NEW b \in Candidates(scanned, now), NEW c \in Candidates(scanned, now),
             NEW x, x \in b.memories, x \in c.memories
      PROVE  b = c
  <2>1. PICK m \in scanned : IsExpired(b, m) \/ IsDuplicate(b, m)
    BY <1>1
  <2>2. PICK n \in scanned : IsExpired(c, n) \/ IsDuplicate(c, n)
    BY <1>1
  <2>3. CASE IsExpired(b, m) /\ IsExpired(c, n)
    BY <1>5, <2>3
  <2>4. CASE IsExpired(b, m) /\ IsDuplicate(c, n)
    BY <1>3, <1>5, <2>4
  <2>5. CASE IsDuplicate(b, m) /\ IsExpired(c, n)
    BY <1>3, <1>5, <2>5
  <2>6. CASE IsDuplicate(b, m) /\ IsDuplicate(c, n)
    BY <1>4, <1>5, <2>6
  <2> QED
    BY <2>1, <2>2, <2>3, <2>4, <2>5, <2>6
<1> QED
  BY <1>1, <1>2, <1>5

\* A new proposal is well typed and lists every memory once.
LEMMA ProposeStep ==
  ASSUME TypeOK, Tables, CallsSound, NEW r \in Reviewers, Propose(r)
  PROVE  /\ Tables'
         /\ \A q \in ProposalIds : proposals'[q] # NULL =>
              \/ proposals[q] # NULL /\ proposals'[q] = proposals[q]
              \/ /\ Holds(proposals'[q].by, "review_propose")
                 /\ ListsOnce(proposals'[q].body)
<1> DEFINE k == review[r]
<1>1. /\ k.now \in Nat /\ k.scope \in Scopes /\ k.principal \in PrincipalIds
      /\ Holds(k.principal, "review_propose")
  BY DEF Propose, Reviewing, Authorized, Holds, CallsSound, CallSound
<1>2. PICK scanned \in Scans(k.scope), q \in ProposalIds :
        /\ proposals[q] = NULL
        /\ proposals' = [proposals EXCEPT ![q] =
             [body |-> Build(k.scope, scanned, k.now), by |-> k.principal]]
  BY DEF Propose
<1>3. PICK body : body = Build(k.scope, scanned, k.now)
  OBVIOUS
<1>4. scanned \subseteq Stored /\ scanned \subseteq MemIds
  BY DEF Scans, Stored
<1>5. /\ body.candidates = Candidates(scanned, k.now) /\ body.scanned = scanned
      /\ body.scope = k.scope /\ body.generated = k.now
      /\ body.truncated \in BOOLEAN
      /\ body = [scope |-> body.scope, generated |-> body.generated,
                 scanned |-> body.scanned, truncated |-> body.truncated,
                 candidates |-> body.candidates]
  BY <1>3 DEF Build
<1>6. Candidates(scanned, k.now) \subseteq Candidate /\ ListsOnce(body)
  BY <1>1, <1>4, <1>5, CandidatesListOnce DEF ListsOnce
<1>7. body \in Body
  BY <1>1, <1>4, <1>5, <1>6 DEF Body
<1>8. PICK row : row = [body |-> body, by |-> k.principal]
  OBVIOUS
<1>9. row \in Proposal /\ row.body = body /\ row.by = k.principal
  BY <1>1, <1>7, <1>8 DEF Proposal
<1>10. proposals' = [proposals EXCEPT ![q] = row]
  BY <1>2, <1>3, <1>8
<1>11. Tables'
  BY <1>9, <1>10 DEF Tables, Propose, Done
<1>12. \A other \in ProposalIds : proposals'[other] # NULL =>
         \/ proposals[other] # NULL /\ proposals'[other] = proposals[other]
         \/ /\ Holds(proposals'[other].by, "review_propose")
            /\ ListsOnce(proposals'[other].body)
  BY <1>1, <1>6, <1>9, <1>10 DEF Tables
<1> QED
  BY <1>11, <1>12

-----------------------------------------------------------------------------
(* What an application does to the ledger.                                 *)

\* The memories that a call to apply forgets.
ForgottenBy(k) == UNION {Targets(c, k.keep) : c \in Accepted(k.decision)}

\* What an application forgets are heads of the scope, listed by candidates
\* that were accepted for deletion and are what they were when they were seen.
LEMMA ApplyTargets ==
  ASSUME TypeOK, Tables, CallsSound, NEW r \in Reviewers, Apply(r)
  PROVE  /\ CallSound(review[r]) /\ review[r].kind = "apply"
         /\ Named(review[r].decision, review[r].keep)
         /\ \A c \in Accepted(review[r].decision) :
              /\ decisions[review[r].decision].choice[c] # "correct"
              /\ StillStands(c, review[r].scope, review[r].now)
              /\ Targets(c, review[r].keep) \subseteq c.memories
         /\ \A t \in ForgottenBy(review[r]) :
              t \in Stored /\ memories[t].status = "active"
<1> DEFINE k == review[r]
<1>1. CallSound(k) /\ k.kind = "apply"
  BY DEF Apply, Reviewing, CallsSound
<1>2. Named(k.decision, k.keep)
  BY <1>1 DEF CallSound
<1>3. Applicable(k.decision, k.keep, k.scope, k.now)
  BY DEF Apply
<1>4. \A c \in Accepted(k.decision) :
        /\ decisions[k.decision].choice[c] # "correct"
        /\ StillStands(c, k.scope, k.now)
        /\ Targets(c, k.keep) \subseteq c.memories
  BY <1>3 DEF Applicable, Targets
<1>5. ASSUME NEW t \in ForgottenBy(k)
      PROVE  t \in Stored /\ memories[t].status = "active"
  <2>1. PICK c \in Accepted(k.decision) : t \in Targets(c, k.keep)
    BY DEF ForgottenBy
  <2> QED
    BY <1>4, <2>1 DEF StillStands, InScope
<1> QED
  BY <1>1, <1>2, <1>4, <1>5

\* An application scrubs the lineages of what it forgets and binds, for each
\* of them, its own derived id; the journal gains events.
LEMMA ApplyLedger ==
  ASSUME TypeOK, Tables, CallsSound, NEW r \in Reviewers, Apply(r)
  PROVE  LET targets == ForgottenBy(review[r])
             Id(t) == ApplyOp(review[r].application, t)
         IN  /\ Scrubs(Lineages(targets)) /\ Erases(Lineages(targets))
             /\ Bound' = Bound \cup {Id(t) : t \in targets}
             /\ \A t \in targets :
                  /\ Id(t) \in OpIds \ Bound
                  /\ operations'[Id(t)].type = "forget"
                  /\ operations'[Id(t)].digest # NULL
                  /\ operations'[Id(t)].result = t
                  /\ operations'[Id(t)].lineage = memories[t].lineage
             /\ TypeOK'
<1> DEFINE k == review[r]
           a == k.application
           targets == ForgottenBy(k)
           ls == Lineages(targets)
           Forgets(m) == [type |-> "forget", scope |-> k.scope, target |-> m,
                          value |-> NULL]
           Row(m) == NewOperation(Forgets(m), m, memories[m].lineage,
                       Cardinality(LiveRevisions(memories[m].lineage)))
<1>1. /\ k.now \in Nat /\ k.scope \in Scopes /\ a \in ApplicationIds
      /\ targets \subseteq Stored
  BY ApplyTargets DEF CallSound
<1>2. ForgetTargets(a, targets, k.scope, k.now)
  BY DEF Apply, ForgottenBy
<1>3. /\ memories' = ScrubMemories(ls, k.now)
      /\ \A m \in targets : ApplyOp(a, m) \notin Bound
      /\ operations' = [o \in OpIds |->
           IF \E m \in targets : o = ApplyOp(a, m)
           THEN Row(o[2]) ELSE EraseBindings(ls)[o]]
      /\ \E order \in SetToSeqs(targets) :
           events' = events \o [i \in DOMAIN order |->
             [type |-> "forget", memory |-> order[i],
              lineage |-> memories[order[i]].lineage]]
  BY <1>2 DEF ForgetTargets
<1>4. Scrubs(ls)
  BY <1>1, <1>3, ScrubStep
<1>5. \A m \in targets : m \in MemIds /\ memories[m].lineage \in MemIds
  BY <1>1, StoredType DEF Record
<1>6. \A m \in targets : ApplyOp(a, m) \in OpIds
  BY <1>1, <1>5, ReviewAssumption
<1>7. \A p \in Bound : p \in OpIds /\ operations'[p] = EraseBindings(ls)[p]
  BY <1>3 DEF Bound
<1>8. Erases(ls)
  BY <1>7, EraseStep
<1>9. ASSUME NEW m \in targets
      PROVE  /\ operations'[ApplyOp(a, m)] = Row(m)
             /\ Row(m) \in Operation /\ Row(m) # NULL
             /\ Row(m).type = "forget" /\ Row(m).digest # NULL
             /\ Row(m).result = m /\ Row(m).lineage = memories[m].lineage
  <2>1. ApplyOp(a, m)[2] = m
    BY DEF ApplyOp
  <2>2. operations'[ApplyOp(a, m)] = Row(m)
    BY <1>3, <1>6, <2>1
  <2>3. PICK q : q = Forgets(m)
    OBVIOUS
  <2>4. q \in ForgetRequest /\ q.type = "forget"
    BY <1>1, <1>5, <2>3 DEF ForgetRequest
  <2>5. q \in WriteRequest /\ q # NULL
    BY <2>4, SentinelAssumption DEF WriteRequest
  <2>6. PICK n : n = Cardinality(LiveRevisions(memories[m].lineage))
    OBVIOUS
  <2>7. n \in Nat
    BY <2>6, CountType
  <2>8. NewOperation(q, m, memories[m].lineage, n) \in Operation
    BY <1>5, <2>5, <2>7, BindingType
  <2>9. Row(m) = NewOperation(q, m, memories[m].lineage, n)
    BY <2>3, <2>6
  <2>10. /\ Row(m).type = "forget" /\ Row(m).digest # NULL
         /\ Row(m).result = m /\ Row(m).lineage = memories[m].lineage
    BY <2>4, <2>5, <2>9 DEF NewOperation
  <2> QED
    BY <2>2, <2>8, <2>9, <2>10, SentinelAssumption
<1> HIDE DEF Row
<1>10. Bound' = Bound \cup {ApplyOp(a, t) : t \in targets}
  <2>1. Bound \subseteq Bound'
    BY <1>8 DEF Erases
  <2>2. \A t \in targets : ApplyOp(a, t) \in Bound'
    BY <1>6, <1>9 DEF Bound
  <2>3. ASSUME NEW o \in Bound', o \notin {ApplyOp(a, t) : t \in targets}
        PROVE  o \in Bound
    <3>1. o \in OpIds /\ operations'[o] = EraseBindings(ls)[o] /\ operations'[o] # NULL
      BY <1>3, <2>3 DEF Bound
    <3> QED
      BY <3>1 DEF EraseBindings, Bound
  <2> QED
    BY <2>1, <2>2, <2>3
<1>11. memories' \in [MemIds -> Record \cup {NULL}]
  BY <1>1, <1>3, ScrubType
<1>12. operations' \in [OpIds -> Operation \cup {NULL}]
  <2>1. ASSUME NEW o \in OpIds
        PROVE  operations'[o] \in Operation \cup {NULL}
    <3>1. CASE \E m \in targets : o = ApplyOp(a, m)
      BY <1>9, <3>1
    <3>2. CASE ~ \E m \in targets : o = ApplyOp(a, m)
      BY <1>3, <3>2, EraseType
    <3> QED
      BY <3>1, <3>2
  <2>2. operations' = [o \in OpIds |-> operations'[o]]
    BY <1>3
  <2> QED
    BY <2>1, <2>2
<1>13. events' \in Seq(Event)
  <2>1. PICK order \in SetToSeqs(targets) :
          events' = events \o [i \in DOMAIN order |->
            [type |-> "forget", memory |-> order[i],
             lineage |-> memories[order[i]].lineage]]
    BY <1>3
  <2>2. Cardinality(targets) \in Nat
    <3>1. targets \subseteq MemIds
      BY <1>5
    <3> QED
      BY <3>1, BoundAssumption, FS_Subset, FS_CardinalityType
  <2>3. order \in [1..Cardinality(targets) -> targets]
    BY <2>1 DEF SetToSeqs
  <2>4. \A i \in DOMAIN order :
          [type |-> "forget", memory |-> order[i],
           lineage |-> memories[order[i]].lineage] \in Event
    BY <1>5, <2>3 DEF Event
  <2>5. PICK tail : tail = [i \in DOMAIN order |->
          [type |-> "forget", memory |-> order[i],
           lineage |-> memories[order[i]].lineage]]
    OBVIOUS
  <2>6. tail \in [1..Cardinality(targets) -> Event]
    BY <2>3, <2>4, <2>5
  <2>7. tail \in Seq(Event)
    BY <2>2, <2>6
  <2> QED
    BY <2>1, <2>5, <2>7 DEF TypeOK
<1>14. clock' = clock /\ call' = call
  BY DEF Apply
<1>15. TypeOK'
  BY <1>11, <1>12, <1>13, <1>14 DEF TypeOK
<1>16. \A t \in targets :
         /\ ApplyOp(a, t) \in OpIds \ Bound
         /\ operations'[ApplyOp(a, t)].type = "forget"
         /\ operations'[ApplyOp(a, t)].digest # NULL
         /\ operations'[ApplyOp(a, t)].result = t
         /\ operations'[ApplyOp(a, t)].lineage = memories[t].lineage
  <2> SUFFICES ASSUME NEW t \in targets
               PROVE  /\ ApplyOp(a, t) \in OpIds \ Bound
                      /\ operations'[ApplyOp(a, t)].type = "forget"
                      /\ operations'[ApplyOp(a, t)].digest # NULL
                      /\ operations'[ApplyOp(a, t)].result = t
                      /\ operations'[ApplyOp(a, t)].lineage = memories[t].lineage
    OBVIOUS
  <2>1. ApplyOp(a, t) \in OpIds \ Bound
    BY <1>3, <1>6
  <2>2. operations'[ApplyOp(a, t)] = Row(t)
    BY <1>9
  <2> QED
    BY <1>9, <2>1, <2>2
<1> QED
  BY <1>4, <1>8, <1>10, <1>15, <1>16

-----------------------------------------------------------------------------
(* The steps keep the invariant.                                           *)

\* The ledger's own invariant survives the review loop's steps.
LEMMA LedgerKept ==
  ASSUME IInv, Tables, CallsSound, [ReviewNext]_allVars
  PROVE  IInv'
<1>1. CASE [Next]_vars
  BY <1>1, InvariantStep
<1>2. CASE UNCHANGED vars
  BY <1>2, InvariantStep
<1>3. ASSUME NEW r \in Reviewers, Propose(r) \/ Decide(r)
      PROVE  IInv'
  BY <1>2, <1>3 DEF Propose, Decide
<1>4. ASSUME NEW r \in Reviewers, Apply(r)
      PROVE  IInv'
  <2> DEFINE targets == ForgottenBy(review[r])
             new == {ApplyOp(review[r].application, t) : t \in targets}
  <2>1. TypeOK /\ MemoryInv /\ OperationInv
    BY DEF IInv
  <2>2. /\ Scrubs(Lineages(targets)) /\ Erases(Lineages(targets)) /\ TypeOK'
        /\ Bound' = Bound \cup new
        /\ \A t \in targets :
             /\ operations'[ApplyOp(review[r].application, t)].type = "forget"
             /\ operations'[ApplyOp(review[r].application, t)].digest # NULL
             /\ operations'[ApplyOp(review[r].application, t)].result = t
             /\ operations'[ApplyOp(review[r].application, t)].lineage =
                  memories[t].lineage
    BY <1>4, <2>1, ApplyLedger
  <2>3. \A t \in targets : t \in Stored /\ memories[t].lineage \in Lineages(targets)
    BY <1>4, <2>1, ApplyTargets DEF Lineages
  <2>4. MemoryInv'
    BY <2>1, <2>2, MemoryScrub
  <2>5. \A o \in new \ Bound :
          /\ operations'[o].type = "forget" /\ operations'[o].digest # NULL
          /\ operations'[o].result \in Stored
          /\ operations'[o].lineage = memories[operations'[o].result].lineage
          /\ operations'[o].lineage \in Lineages(targets)
    BY <2>2, <2>3
  <2> HIDE DEF new
  <2>6. OperationInv'
    BY <2>1, <2>2, <2>5, OperationScrub
  <2> QED
    BY <2>2, <2>4, <2>6 DEF IInv
<1> QED
  BY <1>1, <1>2, <1>3, <1>4, ReviewSteps

\* Nothing of the ledger is taken back, and what is deleted stays deleted.
LEMMA LedgerGrows ==
  ASSUME IInv, Tables, CallsSound, [ReviewNext]_allVars
  PROVE  /\ Stored \subseteq Stored' /\ Bound \subseteq Bound'
         /\ \A m \in Stored : memories[m].status = "deleted" =>
              /\ memories'[m] = memories[m]
              /\ \A n \in Stored' :
                   memories'[n].lineage = memories[m].lineage => n \in Stored
         /\ \A o \in Bound : operations[o].digest = NULL =>
              operations'[o] = operations[o]
<1>1. TypeOK /\ TypeOK'
  BY LedgerKept DEF IInv
<1>2. ASSUME [Next]_vars
      PROVE  /\ \A m \in Stored : memories[m].status = "deleted" =>
                  /\ memories'[m] = memories[m]
                  /\ \A n \in Stored' :
                       memories'[n].lineage = memories[m].lineage => n \in Stored
             /\ \A o \in Bound : operations[o].digest = NULL =>
                  operations'[o] = operations[o]
  BY <1>2, ForgetIsFinalStep
<1>3. ASSUME [Next]_vars
      PROVE  Stored \subseteq Stored' /\ Bound \subseteq Bound'
  <2>1. CASE UNCHANGED <<memories, operations>>
    BY <2>1 DEF Stored, Bound
  <2>2. ASSUME NEW c \in Clients, Remember(c)
        PROVE  Stored \subseteq Stored' /\ Bound \subseteq Bound'
    BY <1>1, <2>2, RememberStep DEF Binds
  <2>3. ASSUME NEW c \in Clients, Correct(c)
        PROVE  Stored \subseteq Stored' /\ Bound \subseteq Bound'
    BY <1>1, <2>3, CorrectStep DEF Binds
  <2>4. ASSUME NEW c \in Clients, Forget(c)
        PROVE  Stored \subseteq Stored' /\ Bound \subseteq Bound'
    BY <1>1, <2>4, ForgetStep DEF Scrubs
  <2>5. ASSUME NEW c \in Clients, Replay(c)
        PROVE  Stored \subseteq Stored' /\ Bound \subseteq Bound'
    BY <1>1, <2>1, <2>5, ReplayStep DEF Scrubs
  <2> QED
    BY <1>3, <2>1, <2>2, <2>3, <2>4, <2>5, LedgerSteps
<1>4. CASE UNCHANGED vars
  BY <1>2, <1>3, <1>4
<1>5. ASSUME NEW r \in Reviewers, Propose(r) \/ Decide(r)
      PROVE  UNCHANGED vars
  BY <1>5 DEF Propose, Decide
<1>6. ASSUME NEW r \in Reviewers, Apply(r)
      PROVE  /\ Stored' = Stored /\ Bound \subseteq Bound'
             /\ \A m \in Stored : memories[m].status = "deleted" =>
                  memories'[m] = memories[m]
             /\ \A o \in Bound : operations[o].digest = NULL =>
                  operations'[o] = operations[o]
  BY <1>1, <1>6, ApplyLedger DEF Scrubs, Erases
<1> QED
  BY <1>2, <1>3, <1>4, <1>5, <1>6, ReviewSteps

\* Clients keep to their own ids, and bind no other.
LEMMA OwnIdsStep ==
  ASSUME IInv, OwnIds, Tables, CallsSound, [ReviewNext]_allVars
  PROVE  /\ OwnIds'
         /\ [Next]_vars => \A o \in Bound' : o \in Bound \cup Supplied
<1>1. TypeOK
  BY DEF IInv
<1>2. ASSUME UNCHANGED call
      PROVE  OwnIds'
  BY <1>2 DEF OwnIds
<1>3. ASSUME NEW c \in Clients, NEW o \in Supplied \cup {NULL},
             NEW q, NEW phase, Start(c, o, q, phase)
      PROVE  OwnIds'
  <2>1. call' = [call EXCEPT ![c] = [phase |-> phase, op |-> o, request |-> q,
                                     now |-> clock, result |-> {}]]
    BY <1>3 DEF Start
  <2>2. PICK k : k = [phase |-> phase, op |-> o, request |-> q,
                      now |-> clock, result |-> {}]
    OBVIOUS
  <2>3. call' = [call EXCEPT ![c] = k] /\ k.op = o
    BY <2>1, <2>2
  <2> QED
    BY <1>1, <2>3 DEF OwnIds, TypeOK
<1>4. ASSUME NEW c \in Clients, call[c] # NULL, NEW phase, NEW result,
             Answer(c, phase, result)
      PROVE  OwnIds'
  <2>1. PICK k : k = [call[c] EXCEPT !.phase = phase, !.result = result]
    OBVIOUS
  <2>2. k.op = call[c].op
    <3>1. call[c] \in Call
      BY <1>1, <1>4 DEF TypeOK
    <3> QED
      BY <2>1, <3>1 DEF Call
  <2>3. call' = [call EXCEPT ![c] = k]
    BY <1>1, <1>4, <2>1 DEF Answer, TypeOK
  <2> QED
    BY <1>1, <1>4, <2>2, <2>3 DEF OwnIds, TypeOK
<1>5. ASSUME NEW c \in Clients, NEW type \in {"remember", "correct", "forget"},
             Running(c, type)
      PROVE  call[c].op \in Supplied
  <2>1. call[c] # NULL /\ call[c].op \in OpIds
    BY <1>1, <1>5, RunningType
  <2> QED
    BY <2>1, SentinelAssumption DEF OwnIds
<1>6. ASSUME NEW c \in Clients, Remember(c) \/ Correct(c) \/ Forget(c) \/ Replay(c)
      PROVE  OwnIds' /\ \A o \in Bound' : o \in Bound \cup Supplied
  <2>1. PICK type \in {"remember", "correct", "forget"} : Running(c, type)
    BY <1>6 DEF Remember, Correct, Forget, Replay
  <2>2. call[c] # NULL /\ call[c].op \in Supplied
    BY <1>5, <2>1 DEF Running
  <2>3. \E phase, result : Answer(c, phase, result)
    BY <1>6 DEF Remember, Correct, Forget, Replay
  <2>4. OwnIds'
    BY <1>4, <2>2, <2>3
  <2>5. \A o \in OpIds \ (Bound \cup Supplied) : operations'[o] = NULL
    <3>1. \A o \in OpIds \ Bound : operations[o] = NULL
      BY DEF Bound
    <3>2. CASE Remember(c) \/ Correct(c)
      BY <1>1, <2>2, <3>1, <3>2 DEF Remember, Correct, TypeOK
    <3>3. CASE Forget(c)
      BY <2>2, <3>1, <3>3 DEF Forget, EraseBindings
    <3>4. CASE Replay(c)
      BY <3>1, <3>4 DEF Replay, EraseBindings
    <3> QED
      BY <1>6, <3>2, <3>3, <3>4
  <2> QED
    BY <2>4, <2>5 DEF Bound
<1>7. ASSUME [Next]_vars
      PROVE  OwnIds' /\ \A o \in Bound' : o \in Bound \cup Supplied
  <2>1. CASE UNCHANGED <<operations, call>>
    BY <1>2, <2>1 DEF Bound
  <2>2. ASSUME NEW c \in Clients,
               \/ CallRemember(c) \/ CallCorrect(c) \/ CallForget(c)
               \/ CallRecall(c)
        PROVE  OwnIds' /\ UNCHANGED operations
    <3>1. \E o \in Supplied \cup {NULL} : \E q, phase : Start(c, o, q, phase)
      BY <2>2 DEF CallRemember, CallCorrect, CallForget, CallRecall
    <3> QED
      BY <1>3, <2>2, <3>1
         DEF CallRemember, CallCorrect, CallForget, CallRecall, ledgerVars
  <2>3. ASSUME NEW c \in Clients, Refuse(c) \/ Recall(c)
        PROVE  OwnIds' /\ UNCHANGED operations
    <3>1. call[c] # NULL /\ \E phase, result : Answer(c, phase, result)
      BY <2>3 DEF Refuse, Recall, Running
    <3> QED
      BY <1>4, <2>3, <3>1 DEF Refuse, Recall, ledgerVars
  <2>4. ASSUME NEW c \in Clients, Leave(c)
        PROVE  OwnIds' /\ UNCHANGED operations
    BY <1>1, <2>4 DEF Leave, OwnIds, ledgerVars, TypeOK
  <2>5. CASE UNCHANGED vars \/ Tick
    BY <2>1, <2>5 DEF vars, Tick, ledgerVars
  <2>6. UNCHANGED operations => \A o \in Bound' : o \in Bound \cup Supplied
    BY DEF Bound
  <2> QED
    BY <1>6, <1>7, <2>2, <2>3, <2>4, <2>5, <2>6 DEF Next, Client
<1>8. ASSUME NEW r \in Reviewers, Propose(r) \/ Decide(r) \/ Apply(r)
      PROVE  UNCHANGED call
  BY <1>8 DEF Propose, Decide, Apply, vars
<1>9. ASSUME UNCHANGED vars
      PROVE  UNCHANGED call
  BY <1>9 DEF vars
<1> QED
  BY <1>2, <1>7, <1>8, <1>9, ReviewSteps

\* The tables of the trail keep their invariant.
LEMMA TrailKept ==
  ASSUME IInv, TrailInv, [ReviewNext]_allVars
  PROVE  TrailInv'
<1>1. TypeOK /\ TypeOK' /\ Tables /\ CallsSound
  BY LedgerKept DEF IInv, TrailInv
<1>2. TrailGrows
  BY <1>1, TrailStep
<1>3. CallsSound'
  BY <1>1, CallsStep
<1>4. Stored \subseteq Stored'
  BY <1>1, LedgerGrows
<1>5. ASSUME NEW d \in DecisionIds, decisions[d] # NULL
      PROVE  /\ decisions'[d] = decisions[d]
             /\ Holds(decisions[d].by, "review_approve")'
             /\ Chosen(decisions[d].proposal, decisions[d].choice)'
  <2>1. PICK row : row = decisions[d]
    OBVIOUS
  <2>2. Holds(row.by, "review_approve") /\ Chosen(row.proposal, row.choice)
    BY <1>5, <2>1 DEF TrailInv, DecisionsSound
  <2>3. decisions'[d] = row
    BY <1>2, <1>5, <2>1 DEF TrailGrows
  <2>4. Holds(row.by, "review_approve")' /\ Chosen(row.proposal, row.choice)'
    BY <1>2, <2>2, StillThere
  <2> QED
    BY <2>1, <2>3, <2>4
<1>6. ASSUME NEW a \in ApplicationIds, applications[a] # NULL
      PROVE  /\ applications'[a] = applications[a]
             /\ Holds(applications[a].by, "review_apply")'
             /\ applications[a].decision \in DecisionIds
             /\ decisions'[applications[a].decision] # NULL
             /\ applications[a].forgotten \subseteq Stored'
  <2>1. PICK row : row = applications[a]
    OBVIOUS
  <2>2. /\ Holds(row.by, "review_apply") /\ row.decision \in DecisionIds
        /\ decisions[row.decision] # NULL /\ row.forgotten \subseteq Stored
    BY <1>6, <2>1 DEF TrailInv, ApplicationsSound
  <2>3. applications'[a] = row
    BY <1>2, <1>6, <2>1 DEF TrailGrows
  <2>4. Holds(row.by, "review_apply")' /\ decisions'[row.decision] # NULL
    BY <1>2, <2>2, StillThere DEF TrailGrows
  <2> QED
    BY <1>4, <2>1, <2>2, <2>3, <2>4
<1>7. ASSUME NEW q \in ProposalIds, proposals[q] # NULL
      PROVE  /\ proposals'[q] = proposals[q]
             /\ Holds(proposals[q].by, "review_propose")'
             /\ ListsOnce(proposals[q].body)
  <2>1. PICK row : row = proposals[q]
    OBVIOUS
  <2>2. Holds(row.by, "review_propose") /\ ListsOnce(row.body)
    BY <1>7, <2>1 DEF TrailInv, ProposalsSound
  <2>3. Holds(row.by, "review_propose")'
    BY <1>2, <2>2, StillThere
  <2> QED
    BY <1>2, <1>7, <2>1, <2>2, <2>3 DEF TrailGrows
<1>8. CASE UNCHANGED trailVars /\ Tables'
  <2>1. ProposalsSound'
    BY <1>7, <1>8 DEF ProposalsSound, trailVars, ListsOnce
  <2>2. DecisionsSound'
    BY <1>5, <1>8 DEF DecisionsSound, trailVars
  <2>3. ApplicationsSound'
    BY <1>6, <1>8 DEF ApplicationsSound, trailVars
  <2>4. CarriedOutOnce'
    BY <1>8 DEF CarriedOutOnce, TrailInv, trailVars
  <2> QED
    BY <1>3, <1>8, <2>1, <2>2, <2>3, <2>4 DEF TrailInv
<1>9. CASE UNCHANGED reviewVars
  <2>1. UNCHANGED trailVars /\ Tables'
    BY <1>1, <1>9 DEF reviewVars, trailVars, Tables
  <2> QED
    BY <1>8, <2>1
<1>10. ASSUME NEW e \in Enrollments, CreatePrincipal(e)
       PROVE  TrailInv'
  <2>1. PICK row : row = [token |-> e.token, permissions |-> e.permissions,
                          status |-> "active"]
    OBVIOUS
  <2>2. row \in Principal
    BY <2>1, ReviewAssumption DEF Principal, Enrollment
  <2>3. principals' = [principals EXCEPT ![e.id] = row]
    BY <1>10, <2>1 DEF CreatePrincipal
  <2>4. UNCHANGED <<trailVars, review>>
    BY <1>10 DEF CreatePrincipal
  <2>5. Tables'
    BY <1>1, <2>2, <2>3, <2>4 DEF Tables, trailVars
  <2> QED
    BY <1>8, <2>4, <2>5
<1>11. ASSUME NEW p \in PrincipalIds, RevokePrincipal(p)
       PROVE  TrailInv'
  <2>1. PICK row : row = [principals[p] EXCEPT !.status = "revoked"]
    OBVIOUS
  <2>2. principals[p] \in Principal
    BY <1>1, <1>11 DEF RevokePrincipal, Tables
  <2>3. row \in Principal
    BY <2>1, <2>2 DEF Principal
  <2>4. principals' = [principals EXCEPT ![p] = row]
    BY <1>11, <2>1 DEF RevokePrincipal
  <2>5. UNCHANGED <<trailVars, review>>
    BY <1>11 DEF RevokePrincipal
  <2>6. Tables'
    BY <1>1, <2>3, <2>4, <2>5 DEF Tables, trailVars
  <2> QED
    BY <1>8, <2>5, <2>6
<1>12. ASSUME NEW r \in Reviewers,
              CallPropose(r) \/ CallDecide(r) \/ CallApply(r) \/ EndReview(r)
       PROVE  TrailInv'
  <2>1. UNCHANGED <<principals, trailVars>>
    BY <1>12 DEF CallPropose, CallDecide, CallApply, EndReview
  <2>2. \E k : review' = [review EXCEPT ![r] = k]
    BY <1>12 DEF CallPropose, CallDecide, CallApply, EndReview, Ask, Done
  <2>3. Tables'
    BY <1>1, <2>1, <2>2 DEF Tables, trailVars
  <2> QED
    BY <1>8, <2>1, <2>3
<1>13. ASSUME NEW r \in Reviewers, Propose(r)
       PROVE  TrailInv'
  <2>1. /\ Tables' /\ UNCHANGED <<principals, decisions, applications>>
        /\ \A q \in ProposalIds : proposals'[q] # NULL =>
             \/ proposals[q] # NULL /\ proposals'[q] = proposals[q]
             \/ /\ Holds(proposals'[q].by, "review_propose")
                /\ ListsOnce(proposals'[q].body)
    BY <1>1, <1>13, ProposeStep DEF Propose
  <2>2. ProposalsSound'
    <3>1. ASSUME NEW q \in ProposalIds, proposals'[q] # NULL
          PROVE  /\ Holds(proposals[q].by, "review_propose")'
                 /\ ListsOnce(proposals[q].body)'
      <4>1. CASE proposals[q] # NULL
        BY <1>7, <4>1 DEF ListsOnce
      <4>2. CASE /\ Holds(proposals'[q].by, "review_propose")
                 /\ ListsOnce(proposals'[q].body)
        BY <2>1, <4>2 DEF Holds, ListsOnce
      <4> QED
        BY <2>1, <3>1, <4>1, <4>2
    <3> QED
      BY <3>1 DEF ProposalsSound
  <2>3. DecisionsSound'
    BY <1>5, <2>1 DEF DecisionsSound
  <2>4. ApplicationsSound'
    BY <1>6, <2>1 DEF ApplicationsSound
  <2>5. CarriedOutOnce'
    BY <2>1 DEF CarriedOutOnce, TrailInv
  <2> QED
    BY <1>3, <2>1, <2>2, <2>3, <2>4, <2>5 DEF TrailInv
<1>14. ASSUME NEW r \in Reviewers, Decide(r)
       PROVE  TrailInv'
  <2> DEFINE k == review[r]
  <2>1. /\ CallSound(k) /\ k.kind = "decide"
        /\ Holds(k.principal, "review_approve")
        /\ Undecided(k.proposal) /\ decisions[k.decision] = NULL
    BY <1>1, <1>14 DEF Decide, Reviewing, CallsSound, CallSound, Authorized, Holds
  <2>2. PICK row : row = [proposal |-> k.proposal, choice |-> k.choice,
                          by |-> k.principal, decided |-> k.now]
    OBVIOUS
  <2>3. PICK d \in DecisionIds : d = k.decision
    BY <2>1 DEF CallSound
  <2>4. /\ decisions' = [decisions EXCEPT ![d] = row]
        /\ UNCHANGED <<principals, proposals, applications>>
        /\ review' = [review EXCEPT ![r] = NULL]
    BY <1>14, <2>2, <2>3 DEF Decide, Done
  <2>5. /\ Holds(row.by, "review_approve")
        /\ Chosen(row.proposal, row.choice) /\ row.proposal = k.proposal
    BY <2>1, <2>2 DEF CallSound
  <2>6. Tables'
    BY <1>1, <2>4 DEF Tables
  <2>7. /\ decisions'[d] = row
        /\ \A e \in DecisionIds \ {d} : decisions'[e] = decisions[e]
    BY <1>1, <2>4 DEF Tables
  <2>8. DecisionsSound'
    <3>1. Holds(row.by, "review_approve")' /\ Chosen(row.proposal, row.choice)'
      BY <1>2, <2>5, StillThere
    <3>2. ASSUME NEW e \in DecisionIds, decisions'[e] # NULL
          PROVE  /\ Holds(decisions[e].by, "review_approve")'
                 /\ Chosen(decisions[e].proposal, decisions[e].choice)'
      BY <1>5, <2>7, <3>1, <3>2
    <3> QED
      BY <3>2 DEF DecisionsSound
  <2>9. ProposalsSound'
    BY <1>7, <2>4 DEF ProposalsSound, ListsOnce
  <2>10. ApplicationsSound'
    BY <1>6, <2>4 DEF ApplicationsSound
  <2>11. CarriedOutOnce'
    BY <2>1, <2>4, <2>5, <2>7 DEF CarriedOutOnce, TrailInv, Undecided
  <2> QED
    BY <1>3, <2>6, <2>8, <2>9, <2>10, <2>11 DEF TrailInv
<1>15. ASSUME NEW r \in Reviewers, Apply(r)
       PROVE  TrailInv'
  <2> DEFINE k == review[r]
  <2>1. /\ CallSound(k) /\ k.kind = "apply" /\ Named(k.decision, k.keep)
        /\ Holds(k.principal, "review_apply")
        /\ Unapplied(k.decision) /\ applications[k.application] = NULL
        /\ ForgottenBy(k) \subseteq Stored
    BY <1>1, <1>15, ApplyTargets DEF Apply, CallSound, Authorized, Holds
  <2>2. PICK row : row = [decision |-> k.decision, by |-> k.principal,
                          forgotten |-> ForgottenBy(k)]
    OBVIOUS
  <2>3. PICK a \in ApplicationIds : a = k.application
    BY <2>1 DEF CallSound
  <2>4. /\ applications' = [applications EXCEPT ![a] = row]
        /\ UNCHANGED <<principals, proposals, decisions>>
        /\ review' = [review EXCEPT ![r] = NULL]
    BY <1>15, <2>2, <2>3 DEF Apply, Done, ForgottenBy
  <2>5. /\ Holds(row.by, "review_apply") /\ row.decision = k.decision
        /\ row.decision \in DecisionIds /\ decisions[row.decision] # NULL
        /\ row.forgotten \subseteq Stored
    BY <2>1, <2>2 DEF Named
  <2>6. Tables'
    BY <1>1, <2>4 DEF Tables
  <2>7. /\ applications'[a] = row
        /\ \A b \in ApplicationIds \ {a} : applications'[b] = applications[b]
    BY <1>1, <2>4 DEF Tables
  <2>8. ApplicationsSound'
    <3>1. Holds(row.by, "review_apply")'
      BY <1>2, <2>5, StillThere
    <3>2. ASSUME NEW b \in ApplicationIds, applications'[b] # NULL
          PROVE  /\ Holds(applications[b].by, "review_apply")'
                 /\ applications'[b].decision \in DecisionIds
                 /\ decisions'[applications'[b].decision] # NULL
                 /\ applications'[b].forgotten \subseteq Stored'
      <4>1. CASE b = a
        BY <1>4, <2>4, <2>5, <2>7, <3>1, <4>1
      <4>2. CASE b # a
        BY <1>6, <2>7, <3>2, <4>2
      <4> QED
        BY <4>1, <4>2
    <3> QED
      BY <3>2 DEF ApplicationsSound
  <2>9. ProposalsSound'
    BY <1>7, <2>4 DEF ProposalsSound, ListsOnce
  <2>10. DecisionsSound'
    BY <1>5, <2>4 DEF DecisionsSound
  <2>11. CarriedOutOnce'
    BY <2>1, <2>4, <2>5, <2>7 DEF CarriedOutOnce, TrailInv, Unapplied
  <2> QED
    BY <1>3, <2>6, <2>8, <2>9, <2>10, <2>11 DEF TrailInv
<1> QED
  BY <1>9, <1>10, <1>11, <1>12, <1>13, <1>14, <1>15, ReviewSteps

\* What the trail says of an application, of one memory.
AppliedOne(a, m) ==
  IF applications[a] # NULL /\ m \in applications[a].forgotten
  THEN /\ ApplyOp(a, m) \in Bound
       /\ memories[m].status = "deleted"
       /\ \E c \in Accepted(applications[a].decision) :
            /\ m \in c.memories
            /\ decisions[applications[a].decision].choice[c] # "correct"
  ELSE ApplyOp(a, m) \notin Bound

\* Derived ids name one application and one memory.
LEMMA DerivedIds ==
  ASSUME NEW a, NEW b, NEW m, NEW n, ApplyOp(a, m) = ApplyOp(b, n)
  PROVE  a = b /\ m = n
BY DEF ApplyOp

\* No step makes the ledger and the trail disagree about a deletion.
LEMMA AppliedStep ==
  ASSUME ReviewInv, [ReviewNext]_allVars
  PROVE  AppliedAsDecided'
<1> SUFFICES ASSUME NEW a \in ApplicationIds, NEW m \in MemIds
             PROVE  AppliedOne(a, m)'
  BY DEF AppliedAsDecided, AppliedOne
<1>1. /\ IInv /\ OwnIds /\ TypeOK /\ Tables /\ CallsSound
      /\ ApplicationsSound /\ AppliedOne(a, m)
  BY DEF ReviewInv, TrailInv, IInv, AppliedAsDecided, AppliedOne
<1>2. TrailGrows
  BY <1>1, TrailStep
<1>3. /\ Bound \subseteq Bound'
      /\ \A n \in Stored : memories[n].status = "deleted" => memories'[n] = memories[n]
  BY <1>1, LedgerGrows
<1>4. ASSUME applications'[a] = applications[a],
             ApplyOp(a, m) \in Bound' => ApplyOp(a, m) \in Bound
      PROVE  AppliedOne(a, m)'
  <2>1. CASE applications[a] # NULL /\ m \in applications[a].forgotten
    <3> DEFINE d == applications[a].decision
    <3>1. /\ d \in DecisionIds /\ decisions[d] # NULL
          /\ m \in Stored
      BY <1>1, <2>1 DEF ApplicationsSound
    <3>2. decisions'[d] = decisions[d]
      BY <1>2, <3>1 DEF TrailGrows
    <3>3. Accepted(d)' = Accepted(d)
      BY <1>4, <3>2 DEF Accepted
    <3>4. /\ ApplyOp(a, m) \in Bound'
          /\ memories'[m].status = "deleted"
          /\ \E c \in Accepted(d)' :
               m \in c.memories /\ decisions'[d].choice[c] # "correct"
      BY <1>1, <1>3, <2>1, <3>1, <3>2, <3>3 DEF AppliedOne
    <3> QED
      BY <1>4, <2>1, <3>4 DEF AppliedOne
  <2>2. CASE ~(applications[a] # NULL /\ m \in applications[a].forgotten)
    BY <1>1, <1>4, <2>2 DEF AppliedOne
  <2> QED
    BY <2>1, <2>2
<1>5. CASE [Next]_vars /\ UNCHANGED reviewVars
  <2>1. \A o \in Bound' : o \in Bound \cup Supplied
    BY <1>1, <1>5, OwnIdsStep
  <2>2. ApplyOp(a, m) \notin Supplied
    BY ReviewAssumption
  <2>3. applications'[a] = applications[a]
    BY <1>5 DEF reviewVars, trailVars
  <2> QED
    BY <1>4, <2>1, <2>2, <2>3
<1>6. CASE UNCHANGED <<vars, applications>>
  BY <1>4, <1>6 DEF vars, Bound
<1>7. ASSUME NEW r \in Reviewers, Propose(r) \/ Decide(r)
      PROVE  UNCHANGED <<vars, applications>>
  BY <1>7 DEF Propose, Decide
<1>8. ASSUME NEW r \in Reviewers, Apply(r)
      PROVE  AppliedOne(a, m)'
  <2> DEFINE k == review[r]
             targets == ForgottenBy(k)
             row == [decision |-> k.decision, by |-> k.principal,
                     forgotten |-> targets]
  <2>1. /\ Scrubs(Lineages(targets))
        /\ Bound' = Bound \cup {ApplyOp(k.application, t) : t \in targets}
    BY <1>1, <1>8, ApplyLedger
  <2>2. /\ applications[k.application] = NULL
        /\ applications' = [applications EXCEPT ![k.application] = row]
        /\ UNCHANGED decisions
    BY <1>8 DEF Apply, ForgottenBy
  <2>3. /\ k.application \in ApplicationIds
        /\ Named(k.decision, k.keep)
        /\ \A c \in Accepted(k.decision) :
             /\ decisions[k.decision].choice[c] # "correct"
             /\ Targets(c, k.keep) \subseteq c.memories
        /\ targets \subseteq Stored /\ k.principal \in PrincipalIds
    BY <1>1, <1>8, ApplyTargets DEF CallSound
  <2>4. CASE a # k.application
    <3>1. applications'[a] = applications[a]
      BY <1>1, <2>2, <2>4 DEF Tables
    <3>2. ApplyOp(a, m) \in Bound' => ApplyOp(a, m) \in Bound
      BY <2>1, <2>4, DerivedIds
    <3> QED
      BY <1>4, <3>1, <3>2
  <2>5. CASE a = k.application
    <3> PICK done : done = row
      OBVIOUS
    <3>1. applications'[a] = done /\ done.forgotten = targets
      BY <1>1, <2>2, <2>5 DEF Tables
    <3>2. done \in Application
      <4>1. targets \subseteq MemIds /\ k.decision \in DecisionIds
        BY <2>3 DEF Named, Stored
      <4> QED
        BY <2>3, <4>1 DEF Application
    <3>3. done # NULL
      BY <3>2, ReviewAssumption
    <3>4. ApplyOp(a, m) \notin Bound
      BY <1>1, <2>2, <2>5 DEF AppliedOne
    <3>5. CASE m \in targets
      <4>1. ApplyOp(a, m) \in Bound'
        BY <2>1, <2>5, <3>5
      <4>2. memories'[m].status = "deleted"
        <5>1. m \in Stored /\ memories[m].lineage \in Lineages(targets)
          BY <2>3, <3>5 DEF Lineages
        <5> QED
          BY <2>1, <5>1 DEF Scrubs
      <4>3. PICK c \in Accepted(k.decision) : m \in Targets(c, k.keep)
        BY <3>5 DEF ForgottenBy
      <4>4. PICK d : d = k.decision
        OBVIOUS
      <4>5. c \in Accepted(d)' /\ m \in c.memories /\ done.decision = d
            /\ decisions'[d].choice[c] # "correct"
        BY <2>2, <2>3, <4>3, <4>4 DEF Accepted
      <4>6. applications'[a].decision = d
        BY <3>1, <4>5
      <4> QED
        BY <3>1, <3>3, <3>5, <4>1, <4>2, <4>5, <4>6 DEF AppliedOne, Accepted
    <3>6. CASE m \notin targets
      <4>1. ApplyOp(a, m) \notin Bound'
        BY <2>1, <3>4, <3>6, DerivedIds
      <4> QED
        BY <3>1, <3>6, <4>1 DEF AppliedOne
    <3> QED
      BY <3>5, <3>6
  <2> QED
    BY <2>4, <2>5
<1>9. CASE UNCHANGED <<vars, trailVars>>
  BY <1>6, <1>9 DEF trailVars
<1> QED
  BY <1>5, <1>6, <1>7, <1>8, <1>9, ReviewSteps

-----------------------------------------------------------------------------
(* The theorems.                                                           *)

\* Every step preserves the inductive invariant.
LEMMA ReviewStep == ReviewInv /\ [ReviewNext]_allVars => ReviewInv'
<1> SUFFICES ASSUME ReviewInv, [ReviewNext]_allVars PROVE ReviewInv'
  OBVIOUS
<1>1. IInv /\ OwnIds /\ TrailInv /\ Tables /\ CallsSound
  BY DEF ReviewInv, TrailInv
<1> QED
  BY <1>1, LedgerKept, OwnIdsStep, TrailKept, AppliedStep DEF ReviewInv

\* The empty ledger and the empty trail satisfy it.
LEMMA ReviewStart == ReviewInit => ReviewInv
<1> SUFFICES ASSUME ReviewInit PROVE ReviewInv
  OBVIOUS
<1>1. Init /\ IInv
  BY InvariantInit DEF ReviewInit
<1>2. OwnIds
  BY <1>1 DEF Init, OwnIds
<1>3. TrailInv
  BY DEF ReviewInit, TrailInv, Tables, ProposalsSound, DecisionsSound,
     ApplicationsSound, CarriedOutOnce, CallsSound
<1>4. AppliedAsDecided
  <2>1. Bound = {} /\ \A a \in ApplicationIds : applications[a] = NULL
    BY <1>1 DEF Init, Bound, ReviewInit
  <2> QED
    BY <2>1 DEF AppliedAsDecided
<1> QED
  BY <1>1, <1>2, <1>3, <1>4 DEF ReviewInv

\* The inductive invariant holds in every reachable state.
LEMMA ReviewInvariance == ReviewSpec => []ReviewInv
BY ReviewStart, ReviewStep, PTL DEF ReviewSpec

\* The trail's tables are well typed and decisions fit their proposals.
THEOREM ReviewTypeCorrect == ReviewSpec => []ReviewTypeOK
<1>1. ReviewInv => ReviewTypeOK
  <2> SUFFICES ASSUME ReviewInv PROVE ReviewTypeOK
    OBVIOUS
  <2>1. TypeOK /\ Tables /\ DecisionsSound
    BY DEF ReviewInv, IInv, TrailInv
  <2>2. ASSUME NEW d \in DecisionIds, decisions[d] # NULL
        PROVE  /\ proposals[decisions[d].proposal] # NULL
               /\ DOMAIN decisions[d].choice =
                    proposals[decisions[d].proposal].body.candidates
               /\ \A c \in Accepted(d) :
                    decisions[d].choice[c] \in Suggested(c.reason)
    <3>1. Chosen(decisions[d].proposal, decisions[d].choice)
      BY <2>1, <2>2 DEF DecisionsSound
    <3> QED
      BY <3>1 DEF Chosen, ValidChoices, Accepted
  <2> QED
    BY <2>1, <2>2 DEF ReviewTypeOK, Tables
<1> QED
  BY <1>1, ReviewInvariance, PTL

\* From a deletion by review the trail leads back to three enrolled people.
THEOREM TrailCompleteCorrect == ReviewSpec => []TrailComplete
<1>1. ReviewInv => TrailComplete
  BY DEF ReviewInv, TrailInv, TrailComplete, TrailUnforked, ProposalsSound,
     DecisionsSound, ApplicationsSound, CarriedOutOnce, Holds
<1> QED
  BY <1>1, ReviewInvariance, PTL

\* What the ledger guarantees to its clients it guarantees with reviewers, who
\* write the same tables in transactions of their own.
THEOREM LedgerUnderReview ==
  ReviewSpec => [](LineagesSound /\ BindingsFollowContent /\ ExactlyOnce)
<1>1. ReviewInv => LineagesSound /\ BindingsFollowContent /\ ExactlyOnce
  BY WholeInParts DEF ReviewInv, IInv, MemoryInv, OperationInv, LineagesSound
<1> QED
  BY <1>1, ReviewInvariance, PTL

\* No application and no reviewer brings back what was forgotten.
THEOREM ForgetIsFinalUnderReview == ReviewSpec => ForgetIsFinal
<1>1. ReviewInv /\ [ReviewNext]_allVars =>
        [/\ \A m \in Stored : memories[m].status = "deleted" =>
              /\ memories'[m] = memories[m]
              /\ \A n \in Stored' :
                   memories'[n].lineage = memories[m].lineage => n \in Stored
         /\ \A o \in Bound : operations[o].digest = NULL =>
              operations'[o] = operations[o]]_vars
  BY LedgerGrows DEF ReviewInv, TrailInv
<1> QED
  BY <1>1, ReviewInvariance, PTL DEF ReviewSpec, ForgetIsFinal

\* The history of the ledger survives the review loop's steps: an application
\* only scrubs, and binds no id of a client.
LEMMA HistoryUnderReview ==
  ASSUME ReviewInv, HistoryInv, ClientsSound, [ReviewNext]_allVars
  PROVE  HistoryInv' /\ ClientsSound'
<1>1. IInv /\ TypeOK /\ Tables /\ CallsSound
  BY DEF ReviewInv, IInv, TrailInv
<1>2. CASE [Next]_vars
  BY <1>1, <1>2, HistoryStep
<1>3. CASE UNCHANGED vars
  BY <1>2, <1>3
<1>4. ASSUME NEW r \in Reviewers, Propose(r) \/ Decide(r)
      PROVE  UNCHANGED vars
  BY <1>4 DEF Propose, Decide
<1>5. ASSUME NEW r \in Reviewers, Apply(r)
      PROVE  HistoryInv' /\ ClientsSound'
  <2> DEFINE k == review[r]
             targets == ForgottenBy(k)
             ls == Lineages(targets)
             Id(t) == ApplyOp(k.application, t)
  <2>1. /\ memories' = ScrubMemories(ls, k.now) /\ UNCHANGED <<clock, call>>
        /\ k # NULL
    BY <1>5 DEF Apply, ForgetTargets, ForgottenBy, Reviewing
  <2>2. /\ Erases(ls) /\ Bound' = Bound \cup {Id(t) : t \in targets}
        /\ targets \subseteq MemIds
    BY <1>1, <1>5, ApplyLedger, ApplyTargets DEF Stored
  <2>3. k.now \in Nat /\ (k.kind = "apply" => k.application \in ApplicationIds)
    BY <1>1, <2>1 DEF CallsSound, CallSound
  <2>4. k.application \in ApplicationIds
    BY <1>5, <2>3 DEF Apply, Reviewing
  <2>5. (Bound' \cap Supplied) \ Bound = {}
    BY <2>2, <2>4, ReviewAssumption
  <2>6. HistoryInv' /\ RowsKept
    <3> HIDE DEF ls
    <3> QED
      BY <1>1, <2>1, <2>2, <2>3, <2>5, HistoryScrub
  <2>7. clock \in Nat /\ clock' \in Nat /\ clock <= clock'
    BY <1>1, <2>1 DEF TypeOK
  <2>8. PICK c : c \notin Clients
    BY NoSetContainsEverything
  <2>9. ClientsSound'
    BY <1>1, <2>1, <2>6, <2>7, <2>8, ClientsKept
  <2> QED
    BY <2>6, <2>9
<1> QED
  BY <1>2, <1>3, <1>4, <1>5, ReviewSteps

\* The history is sound in every state of the composed system.
LEMMA ReviewedHistory == ReviewSpec => [](ReviewInv /\ HistoryInv /\ ClientsSound)
<1>1. ReviewInit => ReviewInv /\ HistoryInv /\ ClientsSound
  BY ReviewStart, HistoryInit DEF ReviewInit
<1>2. ReviewInv /\ HistoryInv /\ ClientsSound /\ [ReviewNext]_allVars =>
        (ReviewInv /\ HistoryInv /\ ClientsSound)'
  BY ReviewStep, HistoryUnderReview
<1> QED
  BY <1>1, <1>2, PTL DEF ReviewSpec

\* Records stay readable and answers stay true with reviewers at work, who
\* delete from the same tables at times they read earlier.
THEOREM AnswersUnderReview == ReviewSpec => [](AnswersHold /\ RecordsSound)
<1>1. HistoryInv /\ ClientsSound => AnswersHold /\ RecordsSound
  BY AnswersOfSound DEF HistoryInv
<1> QED
  BY <1>1, ReviewedHistory, PTL

\* A client's retry of a committed correct or forget is replayed even when an
\* application has deleted its result in the meantime.
THEOREM RetriesUnderReview == ReviewSpec => CorrectAndForgetRetriesReplay
<1> DEFINE Goal ==
  \A c \in Clients :
    IsRefused(c) /\ call'[c].request.type \in {"correct", "forget"} =>
      ~ExactRetry(call'[c])
<1>1. ReviewInv /\ HistoryInv /\ ClientsSound /\ [ReviewNext]_allVars => [Goal]_vars
  <2> SUFFICES ASSUME ReviewInv, HistoryInv, ClientsSound, [ReviewNext]_allVars
               PROVE  Goal
    OBVIOUS
  <2>1. CASE [Next]_vars
    BY <2>1, RetriesReplayStep DEF ReviewInv
  <2>2. CASE UNCHANGED call
    BY <2>2 DEF IsRefused
  <2>3. CASE UNCHANGED vars
    BY <2>2, <2>3 DEF vars
  <2>4. ASSUME NEW r \in Reviewers, Propose(r) \/ Decide(r) \/ Apply(r)
        PROVE  UNCHANGED call
    BY <2>4 DEF Propose, Decide, Apply, vars
  <2> QED
    BY <2>1, <2>2, <2>3, <2>4, ReviewSteps
<1> QED
  BY <1>1, ReviewedHistory, PTL DEF ReviewSpec, CorrectAndForgetRetriesReplay

\* Only the three transactions add to the trail, each authorised inside itself.
THEOREM RevokedNeverActsCorrect == ReviewSpec => RevokedNeverActs
<1> DEFINE Goal ==
  /\ \A q \in ProposalIds : proposals'[q] # proposals[q] => InForce(proposals'[q].by)
  /\ \A d \in DecisionIds : decisions'[d] # decisions[d] => InForce(decisions'[d].by)
  /\ \A a \in ApplicationIds :
       applications'[a] # applications[a] => InForce(applications'[a].by)
<1>1. ReviewInv /\ [ReviewNext]_allVars => [Goal]_allVars
  <2> SUFFICES ASSUME ReviewInv, [ReviewNext]_allVars PROVE Goal
    OBVIOUS
  <2>1. Tables
    BY DEF ReviewInv, TrailInv
  <2>2. CASE UNCHANGED trailVars
    BY <2>2 DEF trailVars
  <2>3. ASSUME NEW r \in Reviewers, Propose(r)
        PROVE  Goal
    BY <2>1, <2>3 DEF Propose, Authorized, InForce, Tables
  <2>4. ASSUME NEW r \in Reviewers, Decide(r)
        PROVE  Goal
    BY <2>1, <2>4 DEF Decide, Authorized, InForce, Tables
  <2>5. ASSUME NEW r \in Reviewers, Apply(r)
        PROVE  Goal
    <3> DEFINE k == review[r]
    <3>1. /\ InForce(k.principal) /\ UNCHANGED <<proposals, decisions>>
          /\ applications' = [applications EXCEPT ![k.application] =
               [decision |-> k.decision, by |-> k.principal,
                forgotten |-> ForgottenBy(k)]]
      BY <2>5 DEF Apply, Authorized, InForce, ForgottenBy
    <3> QED
      BY <2>1, <3>1 DEF Tables
  <2>6. CASE UNCHANGED reviewVars
    BY <2>2, <2>6 DEF reviewVars
  <2> HIDE DEF Goal
  <2> QED
    BY <2>2, <2>3, <2>4, <2>5, <2>6, ReviewSteps
<1> QED
  BY <1>1, ReviewInvariance, PTL DEF ReviewSpec, RevokedNeverActs

\* Every active memory that an application deletes is itself a target: a head
\* is the only active record of its lineage.
LEMMA DeletedAreTargets ==
  ASSUME ReviewInv, NEW r \in Reviewers, Apply(r), NEW m \in Stored,
         memories[m].status = "active", memories'[m].status = "deleted"
  PROVE  m \in ForgottenBy(review[r])
<1>1. TypeOK /\ OneHead /\ Tables /\ CallsSound
  BY DEF ReviewInv, IInv, MemoryInv, TrailInv
<1>2. memories[m].lineage \in Lineages(ForgottenBy(review[r]))
  <2>1. Scrubs(Lineages(ForgottenBy(review[r])))
    BY <1>1, ApplyLedger
  <2> QED
    BY <2>1 DEF Scrubs
<1>3. PICK t \in ForgottenBy(review[r]) : memories[t].lineage = memories[m].lineage
  BY <1>2 DEF Lineages
<1>4. t \in Stored /\ memories[t].status = "active"
  BY <1>1, <1>3, ApplyTargets
<1> QED
  BY <1>1, <1>3, <1>4 DEF OneHead

\* What a decision accepted are candidates of its proposal.
LEMMA AcceptedListed ==
  ASSUME ReviewInv, NEW d \in DecisionIds, decisions[d] # NULL
  PROVE  /\ decisions[d].proposal \in ProposalIds
         /\ proposals[decisions[d].proposal] # NULL
         /\ ListsOnce(proposals[decisions[d].proposal].body)
         /\ Accepted(d) \subseteq proposals[decisions[d].proposal].body.candidates
<1>1. Chosen(decisions[d].proposal, decisions[d].choice)
  BY DEF ReviewInv, TrailInv, DecisionsSound
<1>2. ListsOnce(proposals[decisions[d].proposal].body)
  BY <1>1 DEF Chosen, ReviewInv, TrailInv, ProposalsSound
<1> QED
  BY <1>1, <1>2 DEF Chosen, ValidChoices, Accepted

\* An application deletes only revisions that its proposal listed.
THEOREM NothingUnseenDeletedCorrect == ReviewSpec => NothingUnseenDeleted
<1> DEFINE Goal ==
  \A a \in ApplicationIds :
    applications[a] = NULL /\ applications'[a] # NULL =>
      LET d == decisions[applications'[a].decision]
      IN  \A m \in Stored :
            /\ memories[m].status = "active"
            /\ memories'[m].status = "deleted"
            => m \in proposals[d.proposal].body.scanned
<1>1. ReviewInv /\ [ReviewNext]_allVars => [Goal]_allVars
  <2> SUFFICES ASSUME ReviewInv, [ReviewNext]_allVars PROVE Goal
    OBVIOUS
  <2>1. Tables /\ TypeOK /\ CallsSound
    BY DEF ReviewInv, TrailInv, IInv
  <2>2. CASE UNCHANGED applications
    BY <2>2
  <2>3. ASSUME NEW r \in Reviewers, Apply(r)
        PROVE  Goal
    <3> DEFINE k == review[r]
    <3>1. /\ applications' = [applications EXCEPT ![k.application] =
               [decision |-> k.decision, by |-> k.principal,
                forgotten |-> ForgottenBy(k)]]
      BY <2>3 DEF Apply, ForgottenBy
    <3>2. \A a \in ApplicationIds :
            applications[a] = NULL /\ applications'[a] # NULL =>
              applications'[a].decision = k.decision
      BY <2>1, <3>1 DEF Tables
    <3>3. ASSUME NEW m \in Stored, memories[m].status = "active",
                 memories'[m].status = "deleted"
          PROVE  m \in proposals[decisions[k.decision].proposal].body.scanned
      <4>1. PICK c \in Accepted(k.decision) : m \in Targets(c, k.keep)
        BY <2>3, <3>3, DeletedAreTargets DEF ForgottenBy
      <4>2. m \in c.memories /\ k.decision \in DecisionIds /\ decisions[k.decision] # NULL
        BY <2>1, <2>3, <4>1, ApplyTargets DEF Named
      <4> QED
        BY <4>1, <4>2, AcceptedListed DEF ListsOnce
    <3> QED
      BY <3>2, <3>3
  <2>4. ASSUME NEW r \in Reviewers, Propose(r) \/ Decide(r)
        PROVE  UNCHANGED applications
    BY <2>4 DEF Propose, Decide
  <2>5. CASE UNCHANGED trailVars \/ UNCHANGED reviewVars
    BY <2>2, <2>5 DEF trailVars, reviewVars
  <2> HIDE DEF Goal
  <2> QED
    BY <2>2, <2>3, <2>4, <2>5, ReviewSteps
<1> QED
  BY <1>1, ReviewInvariance, PTL DEF ReviewSpec, NothingUnseenDeleted

\* What has ended by a time has ended at every later one.
LEMMA EndedStaysEnded ==
  ASSUME NEW row \in Record, NEW now \in Nat, NEW later \in Nat, now <= later,
         PastEnd(row, now)
  PROVE  PastEnd(row, later)
<1>1. row.validTo \in Nat \cup {NULL} /\ row.expires \in Nat \cup {NULL}
  BY DEF Record, Time
<1> QED
  BY <1>1 DEF PastEnd

\* The memory that a duplicate candidate keeps is active, has the content of
\* the others and is in their scope, and no accepted candidate deletes it.
LEMMA KeptSurvives ==
  ASSUME ReviewInv, NEW r \in Reviewers, Apply(r),
         NEW c \in Accepted(review[r].decision), c.reason # "expired",
         NEW m \in Targets(c, review[r].keep)
  PROVE  \E n \in Stored : /\ memories'[n] = memories[n]
                           /\ memories[n].status = "active"
                           /\ memories[n].content = memories[m].content
                           /\ memories[n].scope = memories[m].scope
<1> DEFINE k == review[r]
           d == k.decision
           n == k.keep[c]
<1>1. /\ TypeOK /\ OneHead /\ Tables /\ CallsSound
  BY DEF ReviewInv, IInv, MemoryInv, TrailInv
<1>2. /\ Named(d, k.keep)
      /\ \A b \in Accepted(d) : /\ StillStands(b, k.scope, k.now)
                                /\ Targets(b, k.keep) \subseteq b.memories
      /\ \A t \in ForgottenBy(k) : t \in Stored /\ memories[t].status = "active"
  BY <1>1, ApplyTargets
<1>3. n \in c.memories /\ m \in c.memories
  BY <1>2 DEF Named, Keeps
<1>4. /\ n \in Stored /\ memories[n].status = "active"
      /\ memories[n].content = memories[m].content
      /\ memories[n].scope = memories[m].scope
  BY <1>2, <1>3 DEF StillStands, InScope
<1>5. n \notin ForgottenBy(k)
  <2> SUFFICES ASSUME NEW b \in Accepted(d), n \in Targets(b, k.keep) PROVE FALSE
    BY DEF ForgottenBy
  <2>1. b # c
    BY DEF Targets
  <2>2. b.memories \cap c.memories = {}
    BY <1>2, <2>1, AcceptedListed DEF ListsOnce, Named
  <2> QED
    BY <1>2, <1>3, <2>2
<1>6. memories[n].lineage \notin Lineages(ForgottenBy(k))
  BY <1>1, <1>2, <1>4, <1>5 DEF Lineages, OneHead
<1>7. memories'[n] = memories[n]
  <2>1. Scrubs(Lineages(ForgottenBy(k)))
    BY <1>1, ApplyLedger
  <2> QED
    BY <1>4, <1>6, <2>1 DEF Scrubs
<1> QED
  BY <1>4, <1>7

\* An application never removes the last copy of what is in force.
THEOREM LastCopyKeptCorrect == ReviewSpec => LastCopyKept
<1> DEFINE Goal ==
  Applying =>
    \A m \in Stored :
      /\ memories[m].status = "active"
      /\ memories'[m].status = "deleted"
      => \/ PastEnd(memories[m], clock)
         \/ \E n \in Stored' : /\ memories'[n].status = "active"
                               /\ memories'[n].content = memories[m].content
                               /\ memories'[n].scope = memories[m].scope
<1>1. ReviewInv /\ [ReviewNext]_allVars => [Goal]_allVars
  <2> SUFFICES ASSUME ReviewInv, [ReviewNext]_allVars PROVE Goal
    OBVIOUS
  <2>1. Tables /\ TypeOK /\ CallsSound /\ IInv
    BY DEF ReviewInv, TrailInv, IInv
  <2>2. CASE UNCHANGED applications
    BY <2>2 DEF Applying
  <2>3. ASSUME NEW r \in Reviewers, Apply(r)
        PROVE  Goal
    <3> DEFINE k == review[r]
    <3>1. SUFFICES ASSUME NEW m \in Stored, memories[m].status = "active",
                          memories'[m].status = "deleted"
                   PROVE  \/ PastEnd(memories[m], clock)
                          \/ \E n \in Stored' :
                               /\ memories'[n].status = "active"
                               /\ memories'[n].content = memories[m].content
                               /\ memories'[n].scope = memories[m].scope
      OBVIOUS
    <3>2. PICK c \in Accepted(k.decision) : m \in Targets(c, k.keep)
      BY <2>3, <3>1, DeletedAreTargets DEF ForgottenBy
    <3>3. CASE c.reason = "expired"
      <4>1. StillStands(c, k.scope, k.now) /\ k.now \in Nat /\ k.now <= clock
        BY <2>1, <2>3, <3>2, ApplyTargets DEF CallSound
      <4>2. PastEnd(memories[m], k.now)
        BY <3>2, <3>3, <4>1 DEF StillStands, Targets
      <4>3. memories[m] \in Record /\ clock \in Nat
        BY <2>1, <3>1, StoredType DEF TypeOK
      <4> QED
        BY <4>1, <4>2, <4>3, EndedStaysEnded
    <3>4. CASE c.reason # "expired"
      <4>1. PICK n \in Stored : /\ memories'[n] = memories[n]
                                /\ memories[n].status = "active"
                                /\ memories[n].content = memories[m].content
                                /\ memories[n].scope = memories[m].scope
        BY <2>3, <3>2, <3>4, KeptSurvives
      <4>2. n \in Stored'
        BY <2>1, LedgerGrows
      <4> QED
        BY <4>1, <4>2
    <3> QED
      BY <3>3, <3>4
  <2>4. ASSUME NEW r \in Reviewers, Propose(r) \/ Decide(r)
        PROVE  UNCHANGED applications
    BY <2>4 DEF Propose, Decide
  <2>5. CASE UNCHANGED trailVars \/ UNCHANGED reviewVars
    BY <2>2, <2>5 DEF trailVars, reviewVars
  <2> HIDE DEF Goal
  <2> QED
    BY <2>2, <2>3, <2>4, <2>5, ReviewSteps
<1> QED
  BY <1>1, ReviewInvariance, PTL DEF ReviewSpec, LastCopyKept

=============================================================================
