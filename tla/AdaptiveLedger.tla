--------------------------- MODULE AdaptiveLedger ---------------------------
(***************************************************************************)
(* The Adaptive Memory ledger of src/agiwiki/adaptive.py: the tables       *)
(* adaptive_memories, adaptive_operations and adaptive_memory_events, the  *)
(* three writers remember, correct and forget, the readers get, list and   *)
(* search, and the client processes that call them.                        *)
(*                                                                         *)
(* A call has two steps.  The first checks the arguments and reads the     *)
(* clock; the second is the SQLite transaction, which BEGIN IMMEDIATE      *)
(* makes atomic and an exception rolls back.  Other processes run between  *)
(* the two, so a transaction works with a time read earlier.  A process    *)
(* may die, give up after the busy timeout, or lose the answer after the   *)
(* commit, and then call again with the same or another operation_id.      *)
(*                                                                         *)
(* memory_id and lineage_id are two independent random tokens; a lineage   *)
(* is named here after its first record.  A request digest stands for the  *)
(* request itself.  observed_at only orders listings and is left out, as   *)
(* are confidence, sensitivity, provenance and memory_class, which travel  *)
(* with the content.                                                       *)
(***************************************************************************)
EXTENDS Integers, Sequences, FiniteSets

CONSTANTS
  Clients,      \* processes that open the ledger
  MemIds,       \* memory_id tokens; how many there are bounds the table
  OpIds,        \* operation_id values that occur
  Supplied,     \* those that clients supply with a write
  Scopes,       \* (scope_type, scope_key) pairs
  Contents,     \* distinct memory contents
  Writes,       \* the adaptive-write requests that occur
  Corrections,  \* the adaptive-correction requests that occur
  Recalls,      \* what get, list and search filter by
  Limit,        \* the LIMIT of list and search
  MaxClock,     \* bound on the clock
  NULL,         \* SQL NULL, JSON null, an idle client
  Kept          \* a field that a correction omits

Statuses == {"active", "superseded", "deleted"}

Time == Nat \cup {NULL}

Write == [content : Contents, validFrom : Time, validTo : Time, expires : Time]

Correction ==
  [content : Contents, validFrom : Time,
   validTo : Time \cup {Kept}, expires : Time \cup {Kept}]

\* A row of adaptive_memories.
Record ==
  [lineage : MemIds, revision : Nat \ {0}, scope : Scopes,
   content : Contents \cup {NULL}, status : Statuses,
   supersedes : MemIds \cup {NULL}, validFrom : Nat, validTo : Time,
   expires : Time, created : Nat, updated : Nat]

RememberRequest ==
  [type : {"remember"}, scope : Scopes, target : {NULL}, value : Writes]
CorrectRequest ==
  [type : {"correct"}, scope : Scopes, target : MemIds, value : Corrections]
ForgetRequest ==
  [type : {"forget"}, scope : Scopes, target : MemIds, value : {NULL}]

\* What a recall may filter by: a search its content, a list the status and
\* whether what has expired is included.
Filter ==
  [content : Contents, status : {"active"}, expired : {FALSE}]
  \cup
  [content : {NULL}, status : Statuses, expired : BOOLEAN]

RecallRequest ==
  [type : {"recall"}, scope : Scopes, target : MemIds \cup {NULL},
   value : Recalls]

WriteRequest == RememberRequest \cup CorrectRequest \cup ForgetRequest

\* A row of adaptive_operations.
Operation ==
  [type : {"remember", "correct", "forget"}, scope : Scopes,
   target : MemIds \cup {NULL}, digest : WriteRequest \cup {NULL},
   result : MemIds, lineage : MemIds, count : Nat \cup {NULL}]

Event == [type : {"remember", "correct", "forget"},
          memory : MemIds, lineage : MemIds]

Phases == {"running", "done", "replayed", "refused"}

\* What a client process holds: the request, the time it read, its answer.
Call ==
  [phase : Phases, op : OpIds, request : WriteRequest, now : Nat,
   result : SUBSET MemIds]
  \cup
  [phase : Phases, op : {NULL}, request : RecallRequest, now : Nat,
   result : SUBSET MemIds]

ASSUME RequestAssumption ==
  /\ Writes \subseteq Write
  /\ Corrections \subseteq Correction
  /\ Recalls \subseteq Filter
  /\ Supplied \subseteq OpIds

ASSUME BoundAssumption ==
  MaxClock \in Nat /\ Limit \in Nat \ {0} /\ IsFiniteSet(MemIds)

\* NULL and Kept are values of no other kind.
ASSUME SentinelAssumption ==
  /\ NULL \notin MemIds \cup OpIds \cup Contents \cup Nat
  /\ NULL \notin Record \cup Operation \cup Call \cup WriteRequest
  /\ Kept \notin Nat \cup {NULL}

VARIABLES
  memories,    \* adaptive_memories: a record, or NULL for an unused token
  operations,  \* adaptive_operations: a row, or NULL for an unbound id
  events,      \* adaptive_memory_events, in AUTOINCREMENT order
  clock,       \* the wall clock the processes share
  call         \* per client, the call it is making or NULL

ledgerVars == <<memories, operations, events>>
vars == <<memories, operations, events, clock, call>>

\* The tables hold rows of their types and a client's call has its phase's
\* fields.
TypeOK ==
  /\ memories \in [MemIds -> Record \cup {NULL}]
  /\ operations \in [OpIds -> Operation \cup {NULL}]
  /\ events \in Seq(Event)
  /\ clock \in Nat
  /\ call \in [Clients -> Call \cup {NULL}]

Init ==
  /\ memories = [m \in MemIds |-> NULL]
  /\ operations = [o \in OpIds |-> NULL]
  /\ events = <<>>
  /\ clock = 0
  /\ call = [c \in Clients |-> NULL]

-----------------------------------------------------------------------------
(* Requests: defaults, merging and the time window.                        *)

Default(value, default) == IF value = NULL THEN default ELSE value

Normalize(write, now) ==
  [write EXCEPT !.validFrom = Default(write.validFrom, now)]

\* What a correction leaves out it inherits from the record it corrects.
Merge(correction, old, now) ==
  [content   |-> correction.content,
   validFrom |-> Default(correction.validFrom, now),
   validTo   |-> IF correction.validTo = Kept THEN old.validTo
                 ELSE correction.validTo,
   expires   |-> IF correction.expires = Kept THEN old.expires
                 ELSE correction.expires]

\* Mutant: the window of the retention is not checked.
InTimeWindowOfValidity(write, now) ==
  write.validTo # NULL => write.validTo > write.validFrom

InTimeWindow(write, now) ==
  /\ write.validTo # NULL => write.validTo > write.validFrom
  /\ write.expires # NULL => /\ write.expires > write.validFrom
                             /\ write.expires > now

\* The semantic checks that every record read or written must pass.
ValidRecord(m, r) ==
  /\ r.status = "deleted" <=> r.content = NULL
  /\ r.revision = 1 <=> r.supersedes = NULL
  /\ r.supersedes # m
  /\ r.validTo # NULL => r.validTo > r.validFrom
  /\ r.expires # NULL => r.expires > r.validFrom
  /\ r.updated >= r.created

\* Mutant: a revision is filed under the record it supersedes.
NewRecordUnderOld(write, scope, lineage, revision, supersedes, now) ==
  [lineage |-> supersedes, revision |-> revision, scope |-> scope,
   content |-> write.content, status |-> "active", supersedes |-> supersedes,
   validFrom |-> write.validFrom, validTo |-> write.validTo,
   expires |-> write.expires, created |-> now, updated |-> now]

NewRecord(write, scope, lineage, revision, supersedes, now) ==
  [lineage |-> lineage, revision |-> revision, scope |-> scope,
   content |-> write.content, status |-> "active", supersedes |-> supersedes,
   validFrom |-> write.validFrom, validTo |-> write.validTo,
   expires |-> write.expires, created |-> now, updated |-> now]

\* What has not expired.
InTime(r, now) ==
  /\ r.validTo # NULL => r.validTo > now
  /\ r.expires # NULL => r.expires > now

\* The _CURRENT filter.
Current(r, now) == r.status = "active" /\ r.validFrom <= now /\ InTime(r, now)

\* Mutant: a list of what has expired does not ask for the status.
PassesAnyStatus(r, filter, now) ==
  /\ filter.expired \/ r.status = filter.status
  /\ filter.content # NULL => r.content = filter.content
  /\ filter.status = "active" =>
       r.validFrom <= now /\ (filter.expired \/ InTime(r, now))

\* The clauses of a recall.  Only active memories are filtered by the time, and
\* a list may ask for those that have expired as well.
Passes(r, filter, now) ==
  /\ r.status = filter.status
  /\ filter.content # NULL => r.content = filter.content
  /\ filter.status = "active" =>
       r.validFrom <= now /\ (filter.expired \/ InTime(r, now))

-----------------------------------------------------------------------------
(* The tables.                                                             *)

Stored == {m \in MemIds : memories[m] # NULL}
Unused == MemIds \ Stored
Revisions(lineages) == {m \in Stored : memories[m].lineage \in lineages}
Lineage(l) == Revisions({l})
LiveRevisions(l) == {m \in Lineage(l) : memories[m].status # "deleted"}
Bound == {o \in OpIds : operations[o] # NULL}

\* SELECT ... WHERE memory_id=? AND scope_type=? AND scope_key=?
InScope(m, scope) == m \in Stored /\ memories[m].scope = scope

\* Mutant: the old head stays active.
SupersededNot(r, now) == [r EXCEPT !.updated = now]

\* The old head as the correction leaves it.
Superseded(r, now) == [r EXCEPT !.status = "superseded", !.updated = now]

Scrubbed(r, now) ==
  IF r.status = "deleted" THEN r
  ELSE [r EXCEPT !.status = "deleted", !.content = NULL, !.updated = now]

\* Mutant: only the heads of the lineages are scrubbed.
ScrubHeads(lineages, now) ==
  [m \in MemIds |-> IF /\ m \in Revisions(lineages)
                       /\ memories[m].status = "active"
                    THEN Scrubbed(memories[m], now) ELSE memories[m]]

\* The first UPDATE of _scrub_lineage, for each of some lineages.
ScrubMemories(lineages, now) ==
  [m \in MemIds |-> IF m \in Revisions(lineages)
                    THEN Scrubbed(memories[m], now) ELSE memories[m]]

\* Mutant: the bindings of corrections are kept.
EraseRemembered(lineages) ==
  [o \in OpIds |-> IF /\ o \in Bound
                      /\ operations[o].lineage \in lineages
                      /\ operations[o].type = "remember"
                   THEN [operations[o] EXCEPT !.digest = NULL]
                   ELSE operations[o]]

\* The second UPDATE of _scrub_lineage: bindings derived from the content go.
EraseBindings(lineages) ==
  [o \in OpIds |-> IF /\ o \in Bound
                      /\ operations[o].lineage \in lineages
                      /\ operations[o].type \in {"remember", "correct"}
                   THEN [operations[o] EXCEPT !.digest = NULL]
                   ELSE operations[o]]

\* Mutant: an operation is bound to the lineage instead of the record.
NewOperationOfLineage(q, m, l, count) ==
  [type |-> q.type, scope |-> q.scope, target |-> q.target, digest |-> q,
   result |-> l, lineage |-> l, count |-> count]

NewOperation(q, m, l, count) ==
  [type |-> q.type, scope |-> q.scope, target |-> q.target, digest |-> q,
   result |-> m, lineage |-> l, count |-> count]

\* The journal with one event more.
Journal(type, m, l) ==
  Append(events, [type |-> type, memory |-> m, lineage |-> l])

-----------------------------------------------------------------------------
(* The first step of a call: its arguments are checked, the clock is read. *)

Start(c, o, q, phase) ==
  call' = [call EXCEPT ![c] = [phase |-> phase, op |-> o, request |-> q,
                               now |-> clock, result |-> {}]]

\* remember normalises its value, and so checks the window, before it opens
\* the ledger: a value outside the window is refused here.
CallRemember(c) ==
  /\ call[c] = NULL
  /\ \E o \in Supplied, q \in RememberRequest :
       Start(c, o, q, IF InTimeWindow(Normalize(q.value, clock), clock)
                      THEN "running" ELSE "refused")
  /\ UNCHANGED <<ledgerVars, clock>>

\* Tokens are random, so a client only names a memory that exists already.
CallCorrect(c) ==
  /\ call[c] = NULL
  /\ \E o \in Supplied, q \in CorrectRequest :
       q.target \in Stored /\ Start(c, o, q, "running")
  /\ UNCHANGED <<ledgerVars, clock>>

CallForget(c) ==
  /\ call[c] = NULL
  /\ \E o \in Supplied, q \in ForgetRequest :
       q.target \in Stored /\ Start(c, o, q, "running")
  /\ UNCHANGED <<ledgerVars, clock>>

\* What a get filters by, and a list that is not told otherwise.
Usual == [content |-> NULL, status |-> "active", expired |-> FALSE]

\* get names a target, search a content, list neither; what has expired is
\* only included among active memories.
CallRecall(c) ==
  /\ call[c] = NULL
  /\ \E q \in RecallRequest :
       /\ q.target # NULL => q.target \in Stored /\ q.value = Usual
       /\ Start(c, NULL, q, IF q.value.expired => q.value.status = "active"
                            THEN "running" ELSE "refused")
  /\ UNCHANGED <<ledgerVars, clock>>

-----------------------------------------------------------------------------
(* The second step: the transaction.                                       *)

Running(c, type) ==
  call[c] # NULL /\ call[c].phase = "running" /\ call[c].request.type = type

Answer(c, phase, result) ==
  call' = [call EXCEPT ![c].phase = phase, ![c].result = result]

\* The conditions under which each writer commits a new operation.
MayRemember(k) == k.op \notin Bound

\* Mutant: the status read before the transaction is trusted.
MayCorrectAnyStatus(k) ==
  LET q == k.request
      old == memories[q.target]
  IN  /\ k.op \notin Bound
      /\ InScope(q.target, q.scope)
      /\ ValidRecord(q.target, old)
      /\ InTimeWindow(Merge(q.value, old, k.now), k.now)

MayCorrect(k) ==
  LET q == k.request
      old == memories[q.target]
  IN  /\ k.op \notin Bound
      /\ InScope(q.target, q.scope)
      /\ old.status = "active"
      /\ ValidRecord(q.target, old)
      /\ InTimeWindow(Merge(q.value, old, k.now), k.now)

MayForget(k) ==
  LET q == k.request
  IN  /\ k.op \notin Bound
      /\ InScope(q.target, q.scope)
      /\ \A m \in Lineage(memories[q.target].lineage) :
           ValidRecord(m, memories[m])

\* Mutant: an id is replayed whatever request comes with it.
MayReplayAnyRequest(k) ==
  /\ k.op \in Bound
  /\ operations[k.op].digest # NULL
  /\ operations[k.op].type = k.request.type

\* Mutant: only a result that is still active is replayed.
MayReplayActive(k) ==
  /\ k.op \in Bound
  /\ operations[k.op].digest = k.request
  /\ memories[operations[k.op].result].status = "active"

\* _replay_operation: the id is bound to exactly this request, the binding
\* was not erased, and the stored result still agrees with it.
MayReplay(k) ==
  LET op == operations[k.op]
      r == memories[op.result]
  IN  /\ k.op \in Bound
      /\ op.digest = k.request
      /\ op.result \in Stored
      /\ ValidRecord(op.result, r)
      /\ r.lineage = op.lineage /\ r.scope = k.request.scope
      /\ CASE op.type = "remember" -> r.revision = 1
           [] op.type = "correct"  -> r.supersedes = k.request.target
           [] op.type = "forget"   -> op.result = k.request.target

Remember(c) ==
  LET k == call[c]
      q == k.request
  IN  /\ Running(c, "remember")
      /\ MayRemember(k)
      /\ \E m \in Unused :
           /\ memories' = [memories EXCEPT ![m] =
                NewRecord(Normalize(q.value, k.now), q.scope, m, 1, NULL, k.now)]
           /\ operations' = [operations EXCEPT ![k.op] =
                NewOperation(q, m, m, NULL)]
           /\ events' = Journal("remember", m, m)
           /\ Answer(c, "done", {m})
      /\ UNCHANGED clock

Correct(c) ==
  LET k == call[c]
      q == k.request
      old == memories[q.target]
  IN  /\ Running(c, "correct")
      /\ MayCorrect(k)
      /\ \E m \in Unused :
           /\ memories' = [memories EXCEPT
                ![q.target] = Superseded(old, k.now),
                ![m] = NewRecord(Merge(q.value, old, k.now), old.scope,
                                 old.lineage, old.revision + 1, q.target, k.now)]
           /\ operations' = [operations EXCEPT ![k.op] =
                NewOperation(q, m, old.lineage, NULL)]
           /\ events' = Journal("correct", m, old.lineage)
           /\ Answer(c, "done", {m})
      /\ UNCHANGED clock

\* Any revision of the lineage may be named, whatever its status.
Forget(c) ==
  LET k == call[c]
      q == k.request
      l == memories[q.target].lineage
  IN  /\ Running(c, "forget")
      /\ MayForget(k)
      /\ memories' = ScrubMemories({l}, k.now)
      /\ operations' = [EraseBindings({l}) EXCEPT ![k.op] =
           NewOperation(q, q.target, l, Cardinality(LiveRevisions(l)))]
      /\ events' = Journal("forget", q.target, l)
      /\ Answer(c, "done", {q.target})
      /\ UNCHANGED clock

\* A replayed forget scrubs its lineage once more.
Replay(c) ==
  LET k == call[c]
      op == operations[k.op]
  IN  /\ \E type \in {"remember", "correct", "forget"} : Running(c, type)
      /\ MayReplay(k)
      /\ IF op.type = "forget"
         THEN /\ memories' = ScrubMemories({op.lineage}, k.now)
              /\ operations' = EraseBindings({op.lineage})
         ELSE UNCHANGED <<memories, operations>>
      /\ Answer(c, "replayed", {op.result})
      /\ UNCHANGED <<events, clock>>

\* Every other case raises, and the transaction is rolled back.
Refuse(c) ==
  LET k == call[c]
  IN  /\ \/ Running(c, "remember") /\ ~MayRemember(k)
         \/ Running(c, "correct") /\ ~MayCorrect(k)
         \/ Running(c, "forget") /\ ~MayForget(k)
      /\ ~MayReplay(k)
      /\ Answer(c, "refused", {})
      /\ UNCHANGED <<ledgerVars, clock>>

Matches(q, now) ==
  {m \in Stored : /\ InScope(m, q.scope)
                  /\ Passes(memories[m], q.value, now)
                  /\ q.target # NULL => m = q.target}

\* Which rows a full LIMIT leaves out depends on ordering fields that the
\* model leaves out: any Limit of them.  One that is not valid, and only a
\* tombstone may be so, fails the whole recall.
Recall(c) ==
  LET k == call[c]
      matches == Matches(k.request, k.now)
  IN  /\ Running(c, "recall")
      /\ \E found \in SUBSET matches :
           /\ \/ found = matches /\ Cardinality(found) <= Limit
              \/ Cardinality(found) = Limit
           /\ IF \A m \in found : ValidRecord(m, memories[m])
              THEN Answer(c, "done", found)
              ELSE Answer(c, "refused", {})
      /\ UNCHANGED <<ledgerVars, clock>>

-----------------------------------------------------------------------------
\* The busy timeout, a crash before the commit, an answer lost after it, or
\* an answer read: in each case the process is free to call again.
Leave(c) ==
  /\ call[c] # NULL
  /\ call' = [call EXCEPT ![c] = NULL]
  /\ UNCHANGED <<ledgerVars, clock>>

Tick ==
  /\ clock < MaxClock
  /\ clock' = clock + 1
  /\ UNCHANGED <<ledgerVars, call>>

Client(c) ==
  \/ CallRemember(c) \/ CallCorrect(c) \/ CallForget(c) \/ CallRecall(c)
  \/ Remember(c) \/ Correct(c) \/ Forget(c) \/ Replay(c) \/ Refuse(c)
  \/ Recall(c) \/ Leave(c)

Next == Tick \/ \E c \in Clients : Client(c)

Spec == Init /\ [][Next]_vars

-----------------------------------------------------------------------------
(* Properties.                                                             *)

\* The revisions of a lineage form one chain inside one scope: every revision
\* but the first supersedes the one before it, no record is superseded twice,
\* and no revision number repeats, so that two corrections racing on one head
\* can never fork a lineage (the UNIQUE constraints are never what stops them).
ChainsUnforked ==
  /\ \A m \in Stored : memories[m].supersedes # NULL =>
       LET old == memories[memories[m].supersedes]
       IN  /\ memories[m].supersedes \in Stored
           /\ old.lineage = memories[m].lineage
           /\ old.scope = memories[m].scope
           /\ memories[m].revision = old.revision + 1
           /\ old.status # "active"
  /\ \A m, n \in Stored :
       /\ memories[m].lineage = memories[n].lineage
       /\ memories[m].revision = memories[n].revision
       => m = n

\* A lineage is forgotten as a whole or not at all: either all its revisions
\* are tombstones, or none is and exactly one of them is active.
LineagesWhole ==
  \A m \in Stored :
    LET lineage == Lineage(memories[m].lineage)
    IN  \/ \A n \in lineage : memories[n].status = "deleted"
        \/ \E head \in lineage : \A n \in lineage :
             memories[n].status =
               IF n = head THEN "active" ELSE "superseded"

\* Forgetting removes what was derived from the content along with it: the
\* binding of a remember or correct is erased exactly when the lineage it
\* produced is a tombstone, and a confirmed forget keeps its own binding.
BindingsFollowContent ==
  \A o \in Bound :
    LET op == operations[o]
        gone == memories[op.result].status = "deleted"
    IN  IF op.type = "forget" THEN op.digest # NULL /\ gone
        ELSE (op.digest = NULL) <=> gone

\* Both: the history of a lineage is one chain that ends in one active record
\* or in its tombstones, whatever corrections and forgets race.
LineagesSound == ChainsUnforked /\ LineagesWhole

\* However often a call is retried, every record was produced by exactly one
\* operation, and no operation has a result that is not in the ledger.
ExactlyOnce ==
  /\ \A m \in Stored : \E o \in Bound : \A p \in Bound :
       operations[p].type # "forget" /\ operations[p].result = m <=> p = o
  /\ \A o \in Bound : operations[o].result \in Stored

\* What a client was told still holds: an acknowledged forget left only
\* tombstones, and an acknowledged remember or correct is in the ledger with
\* the content it asked for until a forget removes it.
AcknowledgedHolds(k) ==
  LET q == k.request IN
  \A m \in k.result :
    /\ InScope(m, q.scope)
    /\ memories[m].content \in
         (IF q.type = "forget" THEN {} ELSE {q.value.content}) \cup {NULL}
    /\ q.type = "correct" => memories[m].supersedes = q.target

\* A recall shows only records of the exact scope.  One of active memories
\* never mixes two revisions of a lineage, whatever was corrected between the
\* moment it read the clock and the moment it read the table, and shows only
\* what was valid at the time it read, or had expired if that was asked for.
\* One of superseded or deleted memories shows what never becomes active again.
RecallCoherent(k) ==
  LET filter == k.request.value IN
  \A m, n \in k.result :
    /\ memories[m].scope = k.request.scope
    /\ filter.status = "active" =>
         /\ memories[m].lineage = memories[n].lineage => m = n
         /\ memories[m].validFrom <= k.now
         /\ filter.expired \/ InTime(memories[m], k.now)
    /\ filter.status = "superseded" => memories[m].status # "active"
    /\ filter.status = "deleted" => memories[m].status = "deleted"

\* Every answer stays true: of a write, whatever other clients commit, retry
\* or forget afterwards; of a recall, of the moment it read the clock.
AnswersHold ==
  \A c \in Clients :
    call[c] # NULL /\ call[c].phase \in {"done", "replayed"} =>
      IF call[c].request.type = "recall" THEN RecallCoherent(call[c])
      ELSE AcknowledgedHolds(call[c])

\* Along a lineage time does not run backwards, although every transaction
\* stamps a time read before it started: a revision is not older than the one
\* it supersedes, which was last touched when it was superseded.
ChainTimes ==
  \A m \in Stored :
    LET r == memories[m]
        old == memories[r.supersedes]
    IN  r.supersedes # NULL =>
          /\ r.created >= old.created
          /\ old.status = "superseded" => old.updated = r.created

\* Every record that still has its content satisfies the checks made when it
\* is read, so that no read, correction or replay of live memory can raise.
LiveRecordsValid ==
  \A m \in Stored :
    memories[m].status # "deleted" => ValidRecord(m, memories[m])

\* Both: stale clocks leave no record that a later read, correction or replay
\* could not make sense of.
RecordsSound == ChainTimes /\ LiveRecordsValid

\* Forgetting is final: a tombstone never changes again, its lineage gains no
\* further revision, and an erased binding is never restored.
ForgetIsFinal ==
  [][/\ \A m \in Stored : memories[m].status = "deleted" =>
          /\ memories'[m] = memories[m]
          /\ \A n \in Stored' :
               memories'[n].lineage = memories[m].lineage => n \in Stored
     /\ \A o \in Bound : operations[o].digest = NULL =>
          operations'[o] = operations[o]]_vars

\* A client retries exactly the request that its operation id is bound to.
ExactRetry(k) ==
  k.op \in Bound /\ operations[k.op].digest = k.request

\* A client gets the answer that its call is refused.
IsRefused(c) ==
  call'[c] # call[c] /\ call'[c] # NULL /\ call'[c].phase = "refused"

\* Retrying a committed correct or forget under its id is never refused, even
\* when the record it named has been superseded or deleted in the meantime.
CorrectAndForgetRetriesReplay ==
  [][\A c \in Clients :
       IsRefused(c) /\ call'[c].request.type \in {"correct", "forget"} =>
         ~ExactRetry(call'[c])]_vars

\* The same of remember ("The same ID and exact request replay the prior
\* result", docs/contracts.md): a value that has expired since is refused
\* before its operation is looked up.
RememberRetriesReplay ==
  [][\A c \in Clients :
       IsRefused(c) /\ call'[c].request.type = "remember" =>
         ~ExactRetry(call'[c])]_vars

=============================================================================
