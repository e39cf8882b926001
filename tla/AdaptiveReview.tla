--------------------------- MODULE AdaptiveReview ---------------------------
(***************************************************************************)
(* The review loop over the Adaptive ledger: local capabilities            *)
(* (adaptive_principals), deterministic review proposals, sealed decisions *)
(* and the application of a decision, with the ledger's own clients        *)
(* running beside it on the same tables.                                   *)
(*                                                                         *)
(* As in AdaptiveLedger a reviewer's call reads the clock first and runs   *)
(* its transaction later.  A call that is refused, that only replays what  *)
(* its identifier is bound to, that times out or that dies changes nothing *)
(* and all of these are EndReview.  A proposal_id is a digest of the body, *)
(* so a body is stored once.  "forget_redundant" is treated by the code    *)
(* exactly like "keep_one", a deferral exactly like a rejection; each pair *)
(* is one value here.                                                      *)
(***************************************************************************)
EXTENDS AdaptiveLedger, SequencesExt

CONSTANTS
  Reviewers,       \* processes that call the review operations
  PrincipalIds,
  Tokens,          \* capability tokens
  Credentials,     \* the principal ids and tokens that reviewers present
  Enrollments,     \* the principals the local owner creates
  ProposalIds,     \* identifiers; how many there are bounds the tables
  DecisionIds,
  ApplicationIds,
  ScanLimit,       \* the --limit of review-create
  Interval         \* the interval of review-due

Permissions == {"review_propose", "review_approve", "review_apply"}

\* A row of adaptive_principals, which stores the hash of the token.
Principal ==
  [token : Tokens, permissions : SUBSET Permissions,
   status : {"active", "revoked"}]

Enrollment ==
  [id : PrincipalIds, token : Tokens, permissions : SUBSET Permissions]

Candidate ==
  [reason : {"expired", "duplicate"}, memories : SUBSET MemIds]

\* What the digest of a proposal covers.
Body ==
  [scope : Scopes, generated : Nat, scanned : SUBSET MemIds,
   truncated : BOOLEAN, candidates : SUBSET Candidate]

Proposal == [body : Body, by : PrincipalIds]

\* A row of adaptive_review_applications, with the memories it forgot.
Application ==
  [decision : DecisionIds, by : PrincipalIds, forgotten : SUBSET MemIds]

Selections == {"declined", "forget", "correct", "keep_one"}

\* The operation_id that an application derives for each memory it forgets.
ApplyOp(application, m) == <<application, m>>

ASSUME ReviewAssumption ==
  /\ Enrollments \subseteq Enrollment
  /\ Credentials \subseteq PrincipalIds \X Tokens
  /\ ScanLimit \in Nat \ {0} /\ Interval \in Nat \ {0}
  /\ {ApplyOp(a, m) : a \in ApplicationIds, m \in MemIds}
       \subseteq OpIds \ Supplied
  /\ NULL \notin Principal \cup Application

VARIABLES
  principals,    \* adaptive_principals
  proposals,     \* adaptive_review_proposals
  decisions,     \* adaptive_review_decisions
  applications,  \* adaptive_review_applications
  review         \* per reviewer, the call it is making or NULL

trailVars == <<proposals, decisions, applications>>
reviewVars == <<principals, trailVars, review>>
allVars == <<vars, reviewVars>>

ReviewInit ==
  /\ Init
  /\ principals = [p \in PrincipalIds |-> NULL]
  /\ proposals = [q \in ProposalIds |-> NULL]
  /\ decisions = [d \in DecisionIds |-> NULL]
  /\ applications = [a \in ApplicationIds |-> NULL]
  /\ review = [r \in Reviewers |-> NULL]

-----------------------------------------------------------------------------
(* Capabilities.  They are read and written in one transaction each.       *)

\* A second creation under the same id replays or is refused.
CreatePrincipal(e) ==
  /\ principals[e.id] = NULL
  /\ \A p \in PrincipalIds :
       principals[p] # NULL => principals[p].token # e.token
  /\ principals' = [principals EXCEPT ![e.id] =
       [token |-> e.token, permissions |-> e.permissions, status |-> "active"]]
  /\ UNCHANGED <<vars, trailVars, review>>

RevokePrincipal(p) ==
  /\ principals[p] # NULL
  /\ principals[p].status = "active"
  /\ principals' = [principals EXCEPT ![p].status = "revoked"]
  /\ UNCHANGED <<vars, trailVars, review>>

\* Mutant: a revoked capability still opens the door.
AuthorizedOnce(p, token, permission) ==
  /\ principals[p] # NULL
  /\ principals[p].token = token
  /\ permission \in principals[p].permissions

\* _authorize_principal, inside the transaction that it protects.
Authorized(p, token, permission) ==
  /\ principals[p] # NULL
  /\ principals[p].status = "active"
  /\ principals[p].token = token
  /\ permission \in principals[p].permissions

-----------------------------------------------------------------------------
(* Proposals.                                                              *)

PastEnd(r, now) ==
  \/ r.validTo # NULL /\ r.validTo <= now
  \/ r.expires # NULL /\ r.expires <= now

\* The active rows of a scope, as many as the limit allows; which ones
\* depends on observed_at.
Scans(scope) ==
  LET active == {m \in Stored : InScope(m, scope)
                                /\ memories[m].status = "active"}
  IN  {scanned \in SUBSET active :
         \/ scanned = active /\ Cardinality(active) <= ScanLimit
         \/ Cardinality(scanned) = ScanLimit}

Expired(scanned, now) ==
  {m \in scanned : memories[m].validFrom <= now /\ PastEnd(memories[m], now)}

\* The current memories of the scan with the content of m.
SameContent(m, scanned, now) ==
  {n \in scanned : /\ Current(memories[n], now)
                   /\ memories[n].content = memories[m].content}

Lineages(ms) == {memories[m].lineage : m \in ms}

Candidates(scanned, now) ==
  {[reason |-> "expired", memories |-> {m}] : m \in Expired(scanned, now)}
    \cup {[reason |-> "duplicate", memories |-> group] :
            group \in {g \in {SameContent(m, scanned, now) :
                                m \in {n \in scanned : Current(memories[n], now)}} :
                         Cardinality(Lineages(g)) > 1}}

\* _build_review_proposal, of which the snapshot, the counts and the
\* candidates are all functions of the rows scanned and the time.
Build(scope, scanned, now) ==
  [scope |-> scope, generated |-> now, scanned |-> scanned,
   truncated |-> \E m \in Stored \ scanned :
                   InScope(m, scope) /\ memories[m].status = "active",
   candidates |-> Candidates(scanned, now)]

Suggested(reason) ==
  IF reason = "expired" THEN {"forget", "correct"} ELSE {"keep_one"}

\* Mutant: the selected action need not be one that was suggested.
AnyChoices(body) == [body.candidates -> Selections]

\* The decisions that cover every candidate with an action proposed for it.
ValidChoices(body) ==
  {choice \in [body.candidates -> Selections] :
     \A c \in body.candidates :
       choice[c] \in {"declined"} \cup Suggested(c.reason)}

Accepted(d) ==
  {c \in DOMAIN decisions[d].choice : decisions[d].choice[c] # "declined"}

-----------------------------------------------------------------------------
(* The first step of a reviewer's call.  It knows the identifiers that it  *)
(* names, and proposals and decisions never change, so what it supplies is *)
(* checked against them here.                                              *)

Ask(r, k) == review' = [review EXCEPT ![r] = k]

CallPropose(r) ==
  /\ review[r] = NULL
  /\ \E login \in Credentials, s \in Scopes :
       Ask(r, [kind |-> "propose", now |-> clock, principal |-> login[1],
               token |-> login[2], scope |-> s])
  /\ UNCHANGED <<vars, principals, trailVars>>

CallDecide(r) ==
  /\ review[r] = NULL
  /\ \E login \in Credentials, s \in Scopes,
        q \in ProposalIds, d \in DecisionIds :
       /\ proposals[q] # NULL
       /\ \E choice \in ValidChoices(proposals[q].body) :
            Ask(r, [kind |-> "decide", now |-> clock, principal |-> login[1],
                    token |-> login[2], scope |-> s, proposal |-> q, decision |-> d,
                    choice |-> choice])
  /\ UNCHANGED <<vars, principals, trailVars>>

\* For each accepted candidate the memory to keep, of those it lists.
Keeps(d) ==
  {keep \in [Accepted(d) -> MemIds] :
     \A c \in Accepted(d) : keep[c] \in c.memories}

CallApply(r) ==
  /\ review[r] = NULL
  /\ \E login \in Credentials, s \in Scopes,
        d \in DecisionIds, a \in ApplicationIds :
       /\ decisions[d] # NULL
       /\ \E keep \in Keeps(d) :
            Ask(r, [kind |-> "apply", now |-> clock, principal |-> login[1],
                    token |-> login[2], scope |-> s, decision |-> d, application |-> a,
                    keep |-> keep])
  /\ UNCHANGED <<vars, principals, trailVars>>

-----------------------------------------------------------------------------
(* The second step: the transaction.                                       *)

Reviewing(r, kind) == review[r] # NULL /\ review[r].kind = kind

Done(r) == review' = [review EXCEPT ![r] = NULL]

Propose(r) ==
  LET k == review[r]
  IN  /\ Reviewing(r, "propose")
      /\ Authorized(k.principal, k.token, "review_propose")
      /\ \E scanned \in Scans(k.scope), q \in ProposalIds :
           LET body == Build(k.scope, scanned, k.now)
           IN  /\ \A m \in scanned : ValidRecord(m, memories[m])
               /\ proposals[q] = NULL
               /\ \A other \in ProposalIds :
                    proposals[other] # NULL => proposals[other].body # body
               /\ proposals' = [proposals EXCEPT ![q] =
                    [body |-> body, by |-> k.principal]]
      /\ Done(r)
      /\ UNCHANGED <<vars, principals, decisions, applications>>

\* Mutant: a second decision on the same proposal is accepted.
UndecidedAny(q) == TRUE

Undecided(q) ==
  \A d \in DecisionIds : decisions[d] # NULL => decisions[d].proposal # q

Decide(r) ==
  LET k == review[r]
      body == proposals[k.proposal].body
  IN  /\ Reviewing(r, "decide")
      /\ Authorized(k.principal, k.token, "review_approve")
      /\ body.scope = k.scope
      /\ body.candidates # {}
      /\ decisions[k.decision] = NULL
      /\ Undecided(k.proposal)
      /\ decisions' = [decisions EXCEPT ![k.decision] =
           [proposal |-> k.proposal, choice |-> k.choice, by |-> k.principal,
            decided |-> k.now]]
      /\ Done(r)
      /\ UNCHANGED <<vars, principals, proposals, applications>>

Unapplied(d) ==
  \A a \in ApplicationIds :
    applications[a] # NULL => applications[a].decision # d

\* Mutant: the memory to keep is forgotten with the rest.
TargetsAll(c, keep) == c.memories

Targets(c, keep) ==
  IF c.reason = "expired" THEN c.memories ELSE c.memories \ {keep[c]}

\* Mutant: a record may have been corrected since the proposal.
StillStandsAnyHead(c, scope, now) ==
  /\ \A m \in c.memories : InScope(m, scope) /\ ValidRecord(m, memories[m])
  /\ c.reason = "expired" => \A m \in c.memories : PastEnd(memories[m], now)

\* The candidate is what the reviewer saw: every memory is still the active
\* record, expired ones are expired, duplicates are still current duplicates.
StillStands(c, scope, now) ==
  /\ \A m \in c.memories : /\ InScope(m, scope)
                           /\ ValidRecord(m, memories[m])
                           /\ memories[m].status = "active"
  /\ IF c.reason = "expired"
     THEN \A m \in c.memories : PastEnd(memories[m], now)
     ELSE /\ \A m \in c.memories : Current(memories[m], now)
          /\ \A m, n \in c.memories :
               /\ memories[m].content = memories[n].content
               /\ memories[m].lineage = memories[n].lineage => m = n

\* _review_application_plans: everything accepted can be applied, and no
\* lineage is a target twice.
Applicable(d, keep, scope, now) ==
  LET accepted == Accepted(d)
  IN  /\ accepted # {}
      /\ \A c \in accepted : /\ decisions[d].choice[c] # "correct"
                             /\ StillStands(c, scope, now)
      /\ \A b, c \in accepted : b # c =>
           Lineages(Targets(b, keep)) \cap Lineages(Targets(c, keep)) = {}
      /\ \A m \in Revisions(Lineages(UNION {Targets(c, keep) : c \in accepted})) :
           InScope(m, scope) /\ ValidRecord(m, memories[m])

\* Mutant: the rows are cleared directly, past the operations and the journal.
ForgetRows(a, targets, scope, now) ==
  /\ memories' = [m \in MemIds |->
       IF m \in targets THEN Scrubbed(memories[m], now) ELSE memories[m]]
  /\ UNCHANGED <<operations, events>>

\* The tables after application a has forgotten the targets: per target a
\* scrubbed lineage, a forget event and an operation under a derived id.
ForgetTargets(a, targets, scope, now) ==
  LET Forgets(m) == [type |-> "forget", scope |-> scope, target |-> m,
                     value |-> NULL]
      l(m) == memories[m].lineage
  IN  /\ \A m \in targets : ApplyOp(a, m) \notin Bound
      /\ memories' = ScrubMemories(Lineages(targets), now)
      /\ operations' = [o \in OpIds |->
           IF \E m \in targets : o = ApplyOp(a, m)
           THEN NewOperation(Forgets(o[2]), o[2], l(o[2]),
                             Cardinality(LiveRevisions(l(o[2]))))
           ELSE EraseBindings(Lineages(targets))[o]]
      /\ \E order \in SetToSeqs(targets) :
           events' = events \o [i \in DOMAIN order |->
             [type |-> "forget", memory |-> order[i], lineage |-> l(order[i])]]

Apply(r) ==
  LET k == review[r]
      d == decisions[k.decision]
      targets == UNION {Targets(c, k.keep) : c \in Accepted(k.decision)}
  IN  /\ Reviewing(r, "apply")
      /\ Authorized(k.principal, k.token, "review_apply")
      /\ proposals[d.proposal].body.scope = k.scope
      /\ applications[k.application] = NULL
      /\ Unapplied(k.decision)
      /\ Applicable(k.decision, k.keep, k.scope, k.now)
      /\ ForgetTargets(k.application, targets, k.scope, k.now)
      /\ applications' = [applications EXCEPT ![k.application] =
           [decision |-> k.decision, by |-> k.principal, forgotten |-> targets]]
      /\ Done(r)
      /\ UNCHANGED <<clock, call, principals, proposals, decisions>>

\* Refused, replayed, timed out or dead: nothing was written.
EndReview(r) ==
  /\ review[r] # NULL
  /\ Done(r)
  /\ UNCHANGED <<vars, principals, trailVars>>

Reviewer(r) ==
  \/ CallPropose(r) \/ CallDecide(r) \/ CallApply(r)
  \/ Propose(r) \/ Decide(r) \/ Apply(r) \/ EndReview(r)

ReviewNext ==
  \/ Next /\ UNCHANGED reviewVars
  \/ \E e \in Enrollments : CreatePrincipal(e)
  \/ \E p \in PrincipalIds : RevokePrincipal(p)
  \/ \E r \in Reviewers : Reviewer(r)

ReviewSpec == ReviewInit /\ [][ReviewNext]_allVars

-----------------------------------------------------------------------------
(* review-due: what a scheduler is told about the latest proposal.         *)

Latest(scope) ==
  LET mine == {q \in ProposalIds : proposals[q] # NULL
                                   /\ proposals[q].body.scope = scope}
  IN  {q \in mine : \A other \in mine :
         proposals[other].body.generated <= proposals[q].body.generated}

Supported(d) == {c \in Accepted(d) : decisions[d].choice[c] # "correct"}

\* The recommended_actions when q is the latest proposal.
Recommended(q, now) ==
  LET decided == {d \in DecisionIds : decisions[d] # NULL
                                      /\ decisions[d].proposal = q}
      For(d) ==
        {act \in {"apply_supported_actions", "correct_manually",
                  "create_proposal"} :
           CASE act = "apply_supported_actions" ->
                  Supported(d) # {} /\ Unapplied(d)
             [] act = "correct_manually" -> Accepted(d) # Supported(d)
             [] act = "create_proposal" -> now >= decisions[d].decided + Interval}
  IN  IF decided = {} THEN {"decide_existing"}
      ELSE UNION {IF For(d) = {} THEN {"wait"} ELSE For(d) : d \in decided}

-----------------------------------------------------------------------------
(* Properties.                                                             *)

\* The trail's tables hold rows of their types, and a decision chooses for
\* exactly the candidates of its proposal, each time an action its reason allows.
ReviewTypeOK ==
  /\ TypeOK
  /\ principals \in [PrincipalIds -> Principal \cup {NULL}]
  /\ proposals \in [ProposalIds -> Proposal \cup {NULL}]
  /\ \A d \in DecisionIds : decisions[d] # NULL =>
       /\ proposals[decisions[d].proposal] # NULL
       /\ DOMAIN decisions[d].choice =
            proposals[decisions[d].proposal].body.candidates
       /\ \A c \in Accepted(d) : decisions[d].choice[c] \in Suggested(c.reason)

\* The trail has no gaps and no forks: an application carries out one decision,
\* that decision is the only one on its proposal, and three enrolled principals
\* stand behind them, each with the permission for its own step.
TrailUnforked ==
  LET Held(p, permission) ==
        principals[p] # NULL /\ permission \in principals[p].permissions
  IN  /\ \A q \in ProposalIds : proposals[q] # NULL =>
           Held(proposals[q].by, "review_propose")
      /\ \A d \in DecisionIds : decisions[d] # NULL =>
           /\ Held(decisions[d].by, "review_approve")
           /\ \A e \in DecisionIds :
                /\ decisions[e] # NULL
                /\ decisions[e].proposal = decisions[d].proposal
                => d = e
      /\ \A a \in ApplicationIds : applications[a] # NULL =>
           /\ Held(applications[a].by, "review_apply")
           /\ decisions[applications[a].decision] # NULL
           /\ \A b \in ApplicationIds :
                /\ applications[b] # NULL
                /\ applications[b].decision = applications[a].decision
                => a = b

\* What an application forgot is exactly what its derived operations record,
\* and only memories that an accepted candidate of its decision lists.
AppliedAsDecided ==
  \A a \in ApplicationIds, m \in MemIds :
    IF applications[a] # NULL /\ m \in applications[a].forgotten
    THEN /\ ApplyOp(a, m) \in Bound
         /\ memories[m].status = "deleted"
         /\ \E c \in Accepted(applications[a].decision) :
              /\ m \in c.memories
              /\ decisions[applications[a].decision].choice[c] # "correct"
    ELSE ApplyOp(a, m) \notin Bound

\* Both: from a deletion by review the trail to the people who agreed to it is
\* complete, whichever decisions and applications raced.
TrailComplete == TrailUnforked /\ AppliedAsDecided

Applying == applications' # applications

\* An application never removes the last copy of a memory that is in force:
\* whatever it deletes has expired, or its content lives on in the same scope.
LastCopyKept ==
  [][Applying =>
       \A m \in Stored :
         /\ memories[m].status = "active"
         /\ memories'[m].status = "deleted"
         => \/ PastEnd(memories[m], clock)
            \/ \E n \in Stored' : /\ memories'[n].status = "active"
                                  /\ memories'[n].content = memories[m].content
                                  /\ memories'[n].scope = memories[m].scope]_allVars

\* An application never deletes a revision that the proposal it carries out
\* did not list: a correction made after the proposal survives.
NothingUnseenDeleted ==
  [][\A a \in ApplicationIds :
       applications[a] = NULL /\ applications'[a] # NULL =>
         LET d == decisions[applications'[a].decision]
         IN  \A m \in Stored :
               /\ memories[m].status = "active"
               /\ memories'[m].status = "deleted"
               => m \in proposals[d.proposal].body.scanned]_allVars

InForce(p) == principals[p] # NULL /\ principals[p].status = "active"

\* A capability revoked while a call is on its way no longer counts when the
\* call's transaction runs: whoever adds to the trail is active at that moment.
RevokedNeverActs ==
  [][/\ \A q \in ProposalIds :
          proposals'[q] # proposals[q] => InForce(proposals'[q].by)
     /\ \A d \in DecisionIds :
          decisions'[d] # decisions[d] => InForce(decisions'[d].by)
     /\ \A a \in ApplicationIds :
          applications'[a] # applications[a] => InForce(applications'[a].by)]_allVars

\* What review-due recommends can be done ("decide_existing"): a proposal
\* without candidates is pending for ever, because no decision on it passes.
DecideExistingPossible ==
  \A s \in Scopes : \A q \in Latest(s) :
    "decide_existing" \in Recommended(q, clock) => proposals[q].body.candidates # {}

=============================================================================
