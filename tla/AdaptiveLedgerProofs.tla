------------------------ MODULE AdaptiveLedgerProofs ------------------------
(***************************************************************************)
(* Theorems about the Adaptive ledger, for any number of clients, tokens,  *)
(* operation ids, scopes, contents and requests.                           *)
(***************************************************************************)
EXTENDS AdaptiveLedger, FiniteSetTheorems, TLAPS

-----------------------------------------------------------------------------
(* Type correctness.                                                       *)

\* A client's request with a given type is a request of that kind.
LEMMA RequestKinds ==
  ASSUME NEW q \in WriteRequest \cup RecallRequest
  PROVE  /\ q.type = "remember" => q \in RememberRequest
         /\ q.type = "correct" => q \in CorrectRequest
         /\ q.type = "forget" => q \in ForgetRequest
         /\ q.type = "recall" => q \in RecallRequest
BY DEF WriteRequest, RememberRequest, CorrectRequest, ForgetRequest,
       RecallRequest

\* Starting a call gives the client a call of the right type.
LEMMA StartType ==
  ASSUME TypeOK, NEW c \in Clients, NEW o, NEW q, NEW phase \in Phases,
         \/ o \in OpIds /\ q \in WriteRequest
         \/ o = NULL /\ q \in RecallRequest,
         Start(c, o, q, phase)
  PROVE  call' \in [Clients -> Call \cup {NULL}]
<1>1. [phase |-> phase, op |-> o, request |-> q, now |-> clock,
       result |-> {}] \in Call
  BY DEF TypeOK, Call
<1> QED
  BY <1>1 DEF TypeOK, Start

\* Answering a call keeps it a call.
LEMMA AnswerType ==
  ASSUME TypeOK, NEW c \in Clients, call[c] # NULL, NEW phase \in Phases,
         NEW result \in SUBSET MemIds, Answer(c, phase, result)
  PROVE  call' \in [Clients -> Call \cup {NULL}]
<1>1. call[c] \in Call
  BY DEF TypeOK
<1>2. [call[c] EXCEPT !.phase = phase, !.result = result] \in Call
  BY <1>1 DEF Call
<1>3. call' = [call EXCEPT ![c] = [call[c] EXCEPT !.phase = phase,
                                                 !.result = result]]
  BY DEF TypeOK, Answer
<1> QED
  BY <1>2, <1>3 DEF TypeOK

\* What a client asked for, at the time it read, is of the right types.
LEMMA RunningType ==
  ASSUME TypeOK, NEW c \in Clients, NEW type, Running(c, type)
  PROVE  /\ call[c] # NULL /\ call[c] \in Call
         /\ call[c].now \in Nat
         /\ call[c].request.type = type
         /\ type \in {"remember", "correct", "forget"} =>
              call[c].op \in OpIds /\ call[c].request \in WriteRequest
         /\ type = "remember" => call[c].request \in RememberRequest
         /\ type = "correct" => call[c].request \in CorrectRequest
         /\ type = "forget" => call[c].request \in ForgetRequest
<1>1. call[c] # NULL /\ call[c] \in Call /\ call[c].request.type = type
  BY DEF TypeOK, Running
<1>2. /\ call[c].now \in Nat
      /\ \/ call[c].op \in OpIds /\ call[c].request \in WriteRequest
         \/ call[c].request \in RecallRequest
  BY <1>1 DEF Call
<1>3. type \in {"remember", "correct", "forget"} =>
        call[c].request \notin RecallRequest
  BY <1>1 DEF RecallRequest
<1> QED
  BY <1>1, <1>2, <1>3, RequestKinds

\* A remembered value becomes a row of the table.
LEMMA RememberedType ==
  ASSUME NEW write \in Write, NEW scope \in Scopes, NEW m \in MemIds,
         NEW now \in Nat
  PROVE  NewRecord(Normalize(write, now), scope, m, 1, NULL, now) \in Record
BY DEF NewRecord, Normalize, Default, Write, Record, Time, Statuses

\* A correction, merged with the row it corrects, becomes a row of the table.
LEMMA CorrectedType ==
  ASSUME NEW correction \in Correction, NEW old \in Record,
         NEW target \in MemIds, NEW now \in Nat
  PROVE  /\ NewRecord(Merge(correction, old, now), old.scope, old.lineage,
                      old.revision + 1, target, now) \in Record
         /\ Superseded(old, now) \in Record
<1>1. /\ Merge(correction, old, now).content \in Contents
      /\ Merge(correction, old, now).validFrom \in Nat
      /\ Merge(correction, old, now).validTo \in Time
      /\ Merge(correction, old, now).expires \in Time
  BY DEF Merge, Default, Correction, Record, Time
<1>2. /\ old.lineage \in MemIds /\ old.scope \in Scopes
      /\ old.revision + 1 \in Nat \ {0}
  BY DEF Record
<1> QED
  BY <1>1, <1>2 DEF NewRecord, Superseded, Record, Statuses

\* Scrubbing keeps the table a table.
LEMMA ScrubType ==
  ASSUME TypeOK, NEW lineages, NEW now \in Nat
  PROVE  ScrubMemories(lineages, now) \in [MemIds -> Record \cup {NULL}]
<1>1. ASSUME NEW m \in Revisions(lineages)
      PROVE  Scrubbed(memories[m], now) \in Record
  <2>1. memories[m] \in Record
    BY <1>1 DEF TypeOK, Revisions, Stored
  <2> QED
    BY <2>1 DEF Scrubbed, Record, Statuses
<1> QED
  BY <1>1 DEF TypeOK, ScrubMemories

\* Erasing bindings keeps the journal of operations a table.
LEMMA EraseType ==
  ASSUME TypeOK, NEW lineages
  PROVE  EraseBindings(lineages) \in [OpIds -> Operation \cup {NULL}]
<1>1. ASSUME NEW o \in Bound
      PROVE  [operations[o] EXCEPT !.digest = NULL] \in Operation
  BY <1>1 DEF TypeOK, Bound, Operation
<1> QED
  BY <1>1 DEF TypeOK, EraseBindings

\* The row of an operation is a row, and its event an event.
LEMMA BindingType ==
  ASSUME TypeOK, NEW q \in WriteRequest, NEW m \in MemIds, NEW l \in MemIds,
         NEW count \in Nat \cup {NULL}
  PROVE  /\ NewOperation(q, m, l, count) \in Operation
         /\ Journal(q.type, m, l) \in Seq(Event)
<1>1. /\ q.type \in {"remember", "correct", "forget"}
      /\ q.scope \in Scopes
      /\ q.target \in MemIds \cup {NULL}
  BY DEF WriteRequest, RememberRequest, CorrectRequest, ForgetRequest
<1> QED
  BY <1>1 DEF NewOperation, Operation, Journal, Event, TypeOK

\* The revisions that a forget counts are finitely many.
LEMMA CountType ==
  ASSUME NEW l
  PROVE  Cardinality(LiveRevisions(l)) \in Nat
<1>1. LiveRevisions(l) \subseteq MemIds
  BY DEF LiveRevisions, Lineage, Revisions, Stored
<1> QED
  BY <1>1, BoundAssumption, FS_Subset, FS_CardinalityType

\* A step keeps a well-typed state well typed.
LEMMA TypeStep == TypeOK /\ [Next]_vars => TypeOK'
<1> SUFFICES ASSUME TypeOK, [Next]_vars PROVE TypeOK'
  OBVIOUS
<1> USE RequestAssumption, BoundAssumption, SentinelAssumption
<1>1. CASE UNCHANGED vars
  BY <1>1 DEF TypeOK, vars
<1>2. CASE Tick
  BY <1>2 DEF TypeOK, Tick, ledgerVars
<1>3. ASSUME NEW c \in Clients,
             CallRemember(c) \/ CallCorrect(c) \/ CallForget(c) \/ CallRecall(c)
      PROVE  TypeOK'
  <2>1. UNCHANGED <<ledgerVars, clock>>
    BY <1>3 DEF CallRemember, CallCorrect, CallForget, CallRecall
  <2>2. CASE CallRecall(c)
    <3>1. PICK q \in RecallRequest, phase \in Phases : Start(c, NULL, q, phase)
      BY <2>2 DEF CallRecall, Phases
    <3> QED
      BY <2>1, <3>1, StartType DEF TypeOK, ledgerVars
  <2>3. CASE CallRemember(c) \/ CallCorrect(c) \/ CallForget(c)
    <3>1. PICK o \in OpIds, q \in WriteRequest, phase \in Phases :
            Start(c, o, q, phase)
      BY <2>3 DEF CallRemember, CallCorrect, CallForget, WriteRequest, Phases
    <3> QED
      BY <2>1, <3>1, StartType DEF TypeOK, ledgerVars
  <2> QED
    BY <1>3, <2>2, <2>3
<1>4. ASSUME NEW c \in Clients, Remember(c)
      PROVE  TypeOK'
  <2> DEFINE k == call[c]
             q == k.request
  <2>1. /\ k \in Call /\ k.now \in Nat /\ k.op \in OpIds
        /\ q \in RememberRequest /\ q.type = "remember"
    <3>1. Running(c, "remember")
      BY <1>4 DEF Remember
    <3> QED
      BY <3>1, RunningType
  <2>2. PICK m \in Unused :
          /\ memories' = [memories EXCEPT ![m] =
               NewRecord(Normalize(q.value, k.now), q.scope, m, 1, NULL, k.now)]
          /\ operations' = [operations EXCEPT ![k.op] =
               NewOperation(q, m, m, NULL)]
          /\ events' = Journal("remember", m, m)
          /\ Answer(c, "done", {m})
    BY <1>4 DEF Remember
  <2>3. m \in MemIds /\ q.value \in Write /\ q.scope \in Scopes
        /\ q \in WriteRequest /\ clock' = clock /\ k # NULL
    BY <1>4, <2>1 DEF Unused, RememberRequest, WriteRequest, Remember, Running
  <2>4. memories' \in [MemIds -> Record \cup {NULL}]
    BY <2>1, <2>2, <2>3, RememberedType DEF TypeOK
  <2>5. /\ operations' \in [OpIds -> Operation \cup {NULL}]
        /\ events' \in Seq(Event)
    BY <2>1, <2>2, <2>3, BindingType DEF TypeOK
  <2>6. call' \in [Clients -> Call \cup {NULL}]
    BY <2>2, <2>3, AnswerType DEF Phases
  <2> QED
    BY <2>3, <2>4, <2>5, <2>6 DEF TypeOK
<1>5. ASSUME NEW c \in Clients, Correct(c)
      PROVE  TypeOK'
  <2> DEFINE k == call[c]
             q == k.request
             old == memories[q.target]
  <2>1. /\ k \in Call /\ k.now \in Nat /\ k.op \in OpIds
        /\ q \in CorrectRequest /\ q.type = "correct"
    <3>1. Running(c, "correct")
      BY <1>5 DEF Correct
    <3> QED
      BY <3>1, RunningType
  <2>2. PICK m \in Unused :
          /\ memories' = [memories EXCEPT
               ![q.target] = Superseded(old, k.now),
               ![m] = NewRecord(Merge(q.value, old, k.now), old.scope,
                                old.lineage, old.revision + 1, q.target, k.now)]
          /\ operations' = [operations EXCEPT ![k.op] =
               NewOperation(q, m, old.lineage, NULL)]
          /\ events' = Journal("correct", m, old.lineage)
          /\ Answer(c, "done", {m})
    BY <1>5 DEF Correct
  <2>3. m \in MemIds /\ q.value \in Correction /\ q.target \in MemIds
        /\ q \in WriteRequest /\ clock' = clock /\ k # NULL
    BY <1>5, <2>1 DEF Unused, CorrectRequest, WriteRequest, Correct, Running
  <2>4. old \in Record /\ old.lineage \in MemIds
    BY <1>5, <2>3 DEF Correct, MayCorrect, InScope, Stored, TypeOK, Record
  <2>5. memories' \in [MemIds -> Record \cup {NULL}]
    <3>1. Superseded(old, k.now) \in Record
      BY <2>1, <2>3, <2>4, CorrectedType
    <3>2. NewRecord(Merge(q.value, old, k.now), old.scope, old.lineage,
                    old.revision + 1, q.target, k.now) \in Record
      BY <2>1, <2>3, <2>4, CorrectedType
    <3> QED
      BY <2>2, <3>1, <3>2 DEF TypeOK
  <2>6. /\ operations' \in [OpIds -> Operation \cup {NULL}]
        /\ events' \in Seq(Event)
    BY <2>1, <2>2, <2>3, <2>4, BindingType DEF TypeOK
  <2>7. call' \in [Clients -> Call \cup {NULL}]
    BY <2>2, <2>3, AnswerType DEF Phases
  <2> QED
    BY <2>3, <2>5, <2>6, <2>7 DEF TypeOK
<1>6. ASSUME NEW c \in Clients, Forget(c)
      PROVE  TypeOK'
  <2> DEFINE k == call[c]
             q == k.request
             l == memories[q.target].lineage
  <2>1. /\ k \in Call /\ k.now \in Nat /\ k.op \in OpIds
        /\ q \in ForgetRequest /\ q.type = "forget"
    <3>1. Running(c, "forget")
      BY <1>6 DEF Forget
    <3> QED
      BY <3>1, RunningType
  <2>2. q.target \in MemIds /\ q \in WriteRequest /\ k # NULL
    BY <1>6, <2>1 DEF ForgetRequest, WriteRequest, Forget, Running
  <2>3. l \in MemIds
    BY <1>6, <2>2 DEF Forget, MayForget, InScope, Stored, TypeOK, Record
  <2>4. memories' \in [MemIds -> Record \cup {NULL}]
    BY <1>6, <2>1, ScrubType DEF Forget
  <2>5. operations' \in [OpIds -> Operation \cup {NULL}]
    BY <1>6, <2>2, <2>3, BindingType, CountType, EraseType DEF Forget
  <2>6. events' \in Seq(Event)
    BY <1>6, <2>1, <2>2, <2>3, BindingType, CountType DEF Forget
  <2>7. call' \in [Clients -> Call \cup {NULL}] /\ clock' = clock
    <3>1. Answer(c, "done", {q.target}) /\ clock' = clock
      BY <1>6 DEF Forget
    <3>2. "done" \in Phases /\ {q.target} \in SUBSET MemIds
      BY <2>2 DEF Phases
    <3> QED BY <2>2, <3>1, <3>2, AnswerType
  <2> QED
    BY <2>4, <2>5, <2>6, <2>7 DEF TypeOK
<1>7. ASSUME NEW c \in Clients, Replay(c)
      PROVE  TypeOK'
  <2> DEFINE k == call[c]
             op == operations[k.op]
  <2>1. k \in Call /\ k.now \in Nat /\ k # NULL
    <3>1. k # NULL
      BY <1>7 DEF Replay, Running
    <3> QED
      BY <3>1 DEF TypeOK, Call
  <2>2. op.result \in MemIds
    BY <1>7 DEF Replay, MayReplay, Stored
  <2>3. memories' \in [MemIds -> Record \cup {NULL}]
    BY <1>7, <2>1, ScrubType DEF Replay, TypeOK
  <2>4. operations' \in [OpIds -> Operation \cup {NULL}]
    BY <1>7, EraseType DEF Replay, TypeOK
  <2>5. call' \in [Clients -> Call \cup {NULL}]
    BY <1>7, <2>1, <2>2, AnswerType DEF Replay, Phases
  <2> QED
    BY <1>7, <2>3, <2>4, <2>5 DEF Replay, TypeOK
<1>8. ASSUME NEW c \in Clients, Refuse(c) \/ Recall(c)
      PROVE  TypeOK'
  <2>1. call[c] # NULL /\ UNCHANGED <<ledgerVars, clock>>
    BY <1>8 DEF Refuse, Recall, Running
  <2>2. PICK phase \in Phases, result \in SUBSET MemIds :
          Answer(c, phase, result)
    BY <1>8 DEF Refuse, Recall, Matches, Stored, Phases
  <2>3. call' \in [Clients -> Call \cup {NULL}]
    BY <2>1, <2>2, AnswerType
  <2> QED
    BY <2>1, <2>3 DEF TypeOK, ledgerVars
<1>9. ASSUME NEW c \in Clients, Leave(c)
      PROVE  TypeOK'
  BY <1>9 DEF TypeOK, Leave, ledgerVars
<1> QED
  BY <1>1, <1>2, <1>3, <1>4, <1>5, <1>6, <1>7, <1>8, <1>9 DEF Next, Client

\* Every reachable state is well typed.
THEOREM TypeCorrect == Spec => []TypeOK
<1>1. Init => TypeOK
  BY DEF Init, TypeOK
<1> QED
  BY <1>1, TypeStep, PTL DEF Spec

-----------------------------------------------------------------------------
(* The inductive invariant.  LineagesWhole is split into three facts about *)
(* pairs of revisions, and four facts that no run checks are added because *)
(* the step of a correction or of a forget needs them.                     *)

\* A lineage is named after a record that is still there, so that a new token
\* always names a new lineage.
Rooted == \A m \in Stored : memories[m].lineage \in Stored

\* The active record of a lineage is its newest, so that the revision number
\* after it is free.
HeadsNewest ==
  \A m, n \in Stored :
    memories[m].lineage = memories[n].lineage /\ memories[m].status = "active" =>
      memories[n].revision <= memories[m].revision

\* LineagesWhole in three parts.
AllOrNone ==
  \A m, n \in Stored :
    memories[m].lineage = memories[n].lineage /\ memories[m].status = "deleted" =>
      memories[n].status = "deleted"
OneHead ==
  \A m, n \in Stored :
    /\ memories[m].lineage = memories[n].lineage
    /\ memories[m].status = "active" /\ memories[n].status = "active"
    => m = n
SomeHead ==
  \A m \in Stored : memories[m].status # "deleted" =>
    \E h \in Stored : /\ memories[h].lineage = memories[m].lineage
                      /\ memories[h].status = "active"

\* An operation is filed under the lineage of its result.
ResultsFiled ==
  \A o \in Bound : /\ operations[o].result \in Stored
                   /\ operations[o].lineage = memories[operations[o].result].lineage

MemoryInv ==
  /\ Rooted /\ HeadsNewest
  /\ AllOrNone /\ OneHead /\ SomeHead
  /\ ChainsUnforked

OperationInv == ResultsFiled /\ BindingsFollowContent /\ ExactlyOnce

IInv == TypeOK /\ MemoryInv /\ OperationInv

\* The three parts say what LineagesWhole says.
LEMMA WholeInParts ==
  ASSUME TypeOK, AllOrNone, OneHead, SomeHead
  PROVE  LineagesWhole
<1> SUFFICES ASSUME NEW m \in Stored
             PROVE  LET lineage == Lineage(memories[m].lineage)
                    IN  \/ \A n \in lineage : memories[n].status = "deleted"
                        \/ \E head \in lineage : \A n \in lineage :
                             memories[n].status =
                               IF n = head THEN "active" ELSE "superseded"
  BY DEF LineagesWhole
<1>1. \A n \in Lineage(memories[m].lineage) :
        n \in Stored /\ memories[n].lineage = memories[m].lineage
  BY DEF Lineage, Revisions
<1>2. CASE memories[m].status = "deleted"
  BY <1>1, <1>2 DEF AllOrNone
<1>3. CASE memories[m].status # "deleted"
  <2>1. PICK h \in Stored : /\ memories[h].lineage = memories[m].lineage
                            /\ memories[h].status = "active"
    BY <1>3 DEF SomeHead
  <2>2. h \in Lineage(memories[m].lineage)
    BY <2>1 DEF Lineage, Revisions
  <2>3. ASSUME NEW n \in Lineage(memories[m].lineage)
        PROVE  memories[n].status =
                 IF n = h THEN "active" ELSE "superseded"
    <3>1. memories[n].status \in Statuses
      BY <1>1 DEF TypeOK, Stored, Record
    <3>2. memories[n].status # "deleted"
      BY <1>1, <1>3, <2>3 DEF AllOrNone
    <3>3. n # h => memories[n].status # "active"
      BY <1>1, <2>1, <2>3 DEF OneHead
    <3> QED
      BY <2>1, <3>1, <3>2, <3>3 DEF Statuses
  <2> QED
    BY <2>2, <2>3
<1> QED
  BY <1>2, <1>3

-----------------------------------------------------------------------------
(* What each transaction does to the tables.                               *)

\* Operation o is bound to a new operation, and no other binding changes.
Binds(o, type, m, l) ==
  /\ o \in OpIds \ Bound
  /\ Bound' = Bound \cup {o}
  /\ \A p \in Bound : operations'[p] = operations[p]
  /\ operations'[o].type = type /\ operations'[o].result = m
  /\ operations'[o].lineage = l /\ operations'[o].digest # NULL

\* Binding a free operation id.
LEMMA BindStep ==
  ASSUME TypeOK, NEW o \in OpIds \ Bound, NEW q \in WriteRequest,
         NEW m \in MemIds, NEW l \in MemIds, NEW count \in Nat \cup {NULL},
         operations' = [operations EXCEPT ![o] = NewOperation(q, m, l, count)]
  PROVE  Binds(o, q.type, m, l)
<1>1. NewOperation(q, m, l, count) # NULL /\ q # NULL
  BY BindingType, SentinelAssumption
<1>2. /\ operations'[o] = NewOperation(q, m, l, count)
      /\ \A p \in OpIds \ {o} : operations'[p] = operations[p]
  BY DEF TypeOK
<1> QED
  BY <1>1, <1>2 DEF Binds, Bound, NewOperation

\* A remember adds the first revision of a new lineage.
LEMMA RememberStep ==
  ASSUME TypeOK, NEW c \in Clients, Remember(c)
  PROVE  \E m \in Unused, o \in OpIds :
           /\ Binds(o, "remember", m, m)
           /\ Stored' = Stored \cup {m}
           /\ \A n \in Stored : memories'[n] = memories[n]
           /\ memories'[m].lineage = m /\ memories'[m].revision = 1
           /\ memories'[m].supersedes = NULL /\ memories'[m].status = "active"
           /\ memories'[m].content \in Contents
<1> DEFINE k == call[c]
           q == k.request
<1>1. Running(c, "remember") /\ k.op \notin Bound
  BY DEF Remember, MayRemember
<1>2. /\ k.now \in Nat /\ k.op \in OpIds /\ q.type = "remember"
      /\ q \in RememberRequest /\ q \in WriteRequest
  BY <1>1, RunningType
<1>3. q.value \in Write /\ q.scope \in Scopes
  BY <1>2, RequestAssumption DEF RememberRequest
<1>4. PICK m \in Unused :
        /\ memories' = [memories EXCEPT ![m] =
             NewRecord(Normalize(q.value, k.now), q.scope, m, 1, NULL, k.now)]
        /\ operations' = [operations EXCEPT ![k.op] = NewOperation(q, m, m, NULL)]
  BY DEF Remember
<1>5. m \in MemIds /\ m \notin Stored
  BY DEF Unused
<1>6. Binds(k.op, "remember", m, m)
  BY <1>1, <1>2, <1>4, <1>5, BindStep
<1>7. NewRecord(Normalize(q.value, k.now), q.scope, m, 1, NULL, k.now) # NULL
  BY <1>2, <1>3, <1>5, RememberedType, SentinelAssumption
<1>8. /\ memories'[m] = NewRecord(Normalize(q.value, k.now), q.scope, m, 1, NULL, k.now)
      /\ \A n \in MemIds \ {m} : memories'[n] = memories[n]
  BY <1>4, <1>5 DEF TypeOK
<1>9. Stored' = Stored \cup {m} /\ \A n \in Stored : memories'[n] = memories[n]
  BY <1>5, <1>7, <1>8 DEF Stored
<1>10. Normalize(q.value, k.now).content \in Contents
  BY <1>3 DEF Normalize, Write
<1> QED
  BY <1>2, <1>6, <1>8, <1>9, <1>10 DEF NewRecord

\* A correction supersedes the active record t by a new revision m.
LEMMA CorrectStep ==
  ASSUME TypeOK, NEW c \in Clients, Correct(c)
  PROVE  \E t \in Stored, m \in Unused, o \in OpIds :
           /\ Binds(o, "correct", m, memories[t].lineage)
           /\ Stored' = Stored \cup {m}
           /\ \A n \in Stored \ {t} : memories'[n] = memories[n]
           /\ memories[t].status = "active"
           /\ \E now \in Nat : memories'[t] = Superseded(memories[t], now)
           /\ memories'[m].lineage = memories[t].lineage
           /\ memories'[m].scope = memories[t].scope
           /\ memories'[m].revision = memories[t].revision + 1
           /\ memories'[m].supersedes = t /\ memories'[m].status = "active"
           /\ memories[t].content \in Contents /\ memories'[m].content \in Contents
<1> DEFINE k == call[c]
           q == k.request
           old == memories[q.target]
           new == NewRecord(Merge(q.value, old, k.now), old.scope, old.lineage,
                            old.revision + 1, q.target, k.now)
<1>1. /\ Running(c, "correct") /\ k.op \notin Bound
      /\ q.target \in Stored /\ old.status = "active"
  BY DEF Correct, MayCorrect, InScope
<1>2. /\ k.now \in Nat /\ k.op \in OpIds /\ q.type = "correct"
      /\ q \in CorrectRequest /\ q \in WriteRequest
  BY <1>1, RunningType
<1>3. /\ q.value \in Correction /\ q.target \in MemIds
      /\ old \in Record /\ old.lineage \in MemIds
  BY <1>1, <1>2, RequestAssumption DEF CorrectRequest, Stored, TypeOK, Record
<1>4. PICK m \in Unused :
        /\ memories' = [memories EXCEPT ![q.target] = Superseded(old, k.now),
                                        ![m] = new]
        /\ operations' = [operations EXCEPT ![k.op] =
             NewOperation(q, m, old.lineage, NULL)]
  BY DEF Correct
<1>5. m \in MemIds /\ m \notin Stored /\ m # q.target
  BY <1>1 DEF Unused
<1>6. Binds(k.op, "correct", m, old.lineage)
  BY <1>1, <1>2, <1>3, <1>4, <1>5, BindStep
<1>7. new # NULL /\ Superseded(old, k.now) # NULL
  BY <1>2, <1>3, CorrectedType, SentinelAssumption
<1>8. /\ memories'[m] = new
      /\ memories'[q.target] = Superseded(old, k.now)
      /\ \A n \in MemIds \ {m, q.target} : memories'[n] = memories[n]
  BY <1>1, <1>3, <1>4, <1>5 DEF TypeOK
<1>9. /\ Stored' = Stored \cup {m}
      /\ \A n \in Stored \ {q.target} : memories'[n] = memories[n]
  BY <1>1, <1>5, <1>7, <1>8 DEF Stored
<1>10. Merge(q.value, old, k.now).content \in Contents
  BY <1>3 DEF Merge, Correction
<1>11. old.content \in Contents
  <2>1. ValidRecord(q.target, old)
    BY DEF Correct, MayCorrect
  <2> QED
    BY <1>1, <1>3, <2>1 DEF ValidRecord, Record
<1>12. /\ new.content = Merge(q.value, old, k.now).content
       /\ new.lineage = old.lineage /\ new.revision = old.revision + 1
       /\ new.supersedes = q.target /\ new.scope = old.scope
       /\ new.status = "active"
  BY DEF NewRecord
<1> HIDE DEF new
<1>13. /\ Binds(k.op, "correct", m, old.lineage)
       /\ Stored' = Stored \cup {m}
       /\ \A n \in Stored \ {q.target} : memories'[n] = memories[n]
       /\ old.status = "active"
       /\ memories'[q.target] = Superseded(old, k.now)
       /\ memories'[m].lineage = old.lineage
       /\ memories'[m].scope = old.scope
       /\ memories'[m].revision = old.revision + 1
       /\ memories'[m].supersedes = q.target /\ memories'[m].status = "active"
       /\ old.content \in Contents /\ memories'[m].content \in Contents
  BY <1>1, <1>6, <1>8, <1>9, <1>10, <1>11, <1>12, Zenon
<1> QED
  BY <1>1, <1>2, <1>13, ZenonT(40)

\* The lineages ls are scrubbed, and nothing else changes in the table of memories.
Scrubs(ls) ==
  /\ Stored' = Stored
  /\ \A n \in Stored :
       /\ memories'[n].lineage = memories[n].lineage
       /\ memories'[n].revision = memories[n].revision
       /\ memories'[n].scope = memories[n].scope
       /\ memories'[n].supersedes = memories[n].supersedes
       /\ IF memories[n].lineage \in ls THEN memories'[n].status = "deleted"
          ELSE memories'[n] = memories[n]
       /\ memories[n].status = "deleted" => memories'[n] = memories[n]

\* The bindings derived from the content of the lineages ls are erased, and nothing
\* else changes in the operations that are bound already.
Erases(ls) ==
  \A p \in Bound :
    /\ p \in Bound'
    /\ operations'[p].type = operations[p].type
    /\ operations'[p].result = operations[p].result
    /\ operations'[p].lineage = operations[p].lineage
    /\ IF operations[p].lineage \in ls /\ operations[p].type # "forget"
       THEN operations'[p].digest = NULL
       ELSE operations'[p] = operations[p]
    /\ operations[p].digest = NULL => operations'[p] = operations[p]

\* What scrubbing some lineages leaves of every row of the table of memories.
LEMMA ScrubStep ==
  ASSUME TypeOK, NEW ls, NEW now \in Nat,
         memories' = ScrubMemories(ls, now)
  PROVE  Scrubs(ls)
<1>1. ASSUME NEW n \in MemIds
      PROVE  memories'[n] = IF n \in Stored /\ memories[n].lineage \in ls
                            THEN Scrubbed(memories[n], now) ELSE memories[n]
  BY DEF ScrubMemories, Revisions
<1>2. ASSUME NEW r \in Record
      PROVE  /\ Scrubbed(r, now) # NULL
             /\ Scrubbed(r, now).lineage = r.lineage
             /\ Scrubbed(r, now).revision = r.revision
             /\ Scrubbed(r, now).scope = r.scope
             /\ Scrubbed(r, now).supersedes = r.supersedes
             /\ Scrubbed(r, now).status = "deleted"
             /\ r.status = "deleted" => Scrubbed(r, now) = r
  <2>1. Scrubbed(r, now) \in Record
    BY DEF Scrubbed, Record, Statuses
  <2> QED
    BY <2>1, SentinelAssumption DEF Scrubbed, Record
<1>3. \A n \in Stored : n \in MemIds /\ memories[n] \in Record
  BY DEF Stored, TypeOK
<1>4. Stored' = Stored
  BY <1>1, <1>2, <1>3 DEF Stored
<1> QED
  BY ZenonT(40), <1>1, <1>2, <1>3, <1>4 DEF Scrubs

\* What a forget leaves of the journal: the lineage's bindings without their
\* content, its own binding added, every other one as it was.
LEMMA EraseStep ==
  ASSUME TypeOK, NEW ls,
         \A p \in Bound : operations'[p] = EraseBindings(ls)[p]
  PROVE  Erases(ls)
<1> SUFFICES ASSUME NEW p \in Bound
             PROVE  /\ p \in Bound'
                    /\ operations'[p].type = operations[p].type
                    /\ operations'[p].result = operations[p].result
                    /\ operations'[p].lineage = operations[p].lineage
                    /\ IF operations[p].lineage \in ls /\ operations[p].type # "forget"
                       THEN operations'[p].digest = NULL
                       ELSE operations'[p] = operations[p]
                    /\ operations[p].digest = NULL =>
                         operations'[p] = operations[p]
  BY DEF Erases
<1> DEFINE op == operations[p]
           erased == [op EXCEPT !.digest = NULL]
<1>1. p \in OpIds /\ op \in Operation /\ op # NULL
  BY DEF Bound, TypeOK
<1>2. operations'[p] = IF op.lineage \in ls /\ op.type \in {"remember", "correct"}
                       THEN erased ELSE op
  BY <1>1 DEF EraseBindings
<1>3. op.type \in {"remember", "correct", "forget"}
  BY <1>1 DEF Operation
<1>4. /\ erased \in Operation /\ erased.type = op.type
      /\ erased.result = op.result /\ erased.lineage = op.lineage
      /\ erased.digest = NULL /\ op.digest = NULL => erased = op
  BY <1>1 DEF Operation
<1>5. operations'[p] # NULL
  BY <1>1, <1>2, <1>4, SentinelAssumption
<1> QED
  BY <1>1, <1>2, <1>3, <1>4, <1>5 DEF Bound

\* A forget scrubs the lineage of the record it names and binds its own id.
LEMMA ForgetStep ==
  ASSUME TypeOK, NEW c \in Clients, Forget(c)
  PROVE  \E t \in Stored, o \in OpIds \ Bound :
           /\ Scrubs({memories[t].lineage})
           /\ Erases({memories[t].lineage})
           /\ Bound' = Bound \cup {o}
           /\ operations'[o].type = "forget" /\ operations'[o].result = t
           /\ operations'[o].lineage = memories[t].lineage
           /\ operations'[o].digest # NULL
           /\ \A n \in Stored :
                /\ memories[n].lineage = memories[t].lineage
                /\ memories[n].status # "deleted"
                => memories[n].content \in Contents
<1> DEFINE k == call[c]
           q == k.request
           l == memories[q.target].lineage
           count == Cardinality(LiveRevisions(l))
<1>1. /\ Running(c, "forget") /\ k.op \notin Bound /\ q.target \in Stored
      /\ memories' = ScrubMemories({l}, k.now)
      /\ operations' = [EraseBindings({l}) EXCEPT ![k.op] =
           NewOperation(q, q.target, l, count)]
  BY DEF Forget, MayForget, InScope
<1>2. /\ k.now \in Nat /\ k.op \in OpIds \ Bound /\ q.type = "forget"
      /\ q \in WriteRequest
  BY <1>1, RunningType
<1>3. q.target \in MemIds /\ l \in MemIds
  BY <1>1 DEF Stored, TypeOK, Record
<1>4. NewOperation(q, q.target, l, count) # NULL /\ q # NULL
  BY <1>2, <1>3, BindingType, CountType, SentinelAssumption
<1>5. /\ operations'[k.op] = NewOperation(q, q.target, l, count)
      /\ \A p \in OpIds \ {k.op} : operations'[p] = EraseBindings({l})[p]
  BY <1>1, <1>2, EraseType
<1>6. \A p \in Bound : operations'[p] = EraseBindings({l})[p]
  BY <1>2, <1>5 DEF Bound
<1>7. Erases({l})
  BY <1>6, EraseStep
<1>8. Scrubs({l})
  BY <1>1, <1>2, ScrubStep
<1>9. Bound' = Bound \cup {k.op}
  <2>1. Bound \cup {k.op} \subseteq Bound'
    BY <1>2, <1>4, <1>5, <1>7 DEF Erases, Bound
  <2>2. \A p \in OpIds \ (Bound \cup {k.op}) : operations'[p] = NULL
    BY <1>5 DEF EraseBindings, Bound
  <2> QED
    BY <2>1, <2>2 DEF Bound
<1>10. /\ operations'[k.op].type = "forget"
       /\ operations'[k.op].result = q.target
       /\ operations'[k.op].lineage = l
       /\ operations'[k.op].digest # NULL
  BY <1>2, <1>4, <1>5 DEF NewOperation
<1>11. q.target \in Stored /\ k.op \in OpIds \ Bound
  BY <1>1, <1>2
<1>12. \A n \in Stored : memories[n].lineage = l /\ memories[n].status # "deleted" =>
         memories[n].content \in Contents
  <2> SUFFICES ASSUME NEW n \in Stored, memories[n].lineage = l,
                      memories[n].status # "deleted"
               PROVE  memories[n].content \in Contents
    OBVIOUS
  <2>1. ValidRecord(n, memories[n])
    BY DEF Forget, MayForget, Lineage, Revisions
  <2>2. memories[n] \in Record
    BY DEF Stored, TypeOK
  <2> QED
    BY <2>1, <2>2 DEF ValidRecord, Record
<1> QED
  BY <1>7, <1>8, <1>9, <1>10, <1>11, <1>12, Zenon

\* A replay changes nothing, or scrubs once more the lineage of a forget.
LEMMA ReplayStep ==
  ASSUME TypeOK, NEW c \in Clients, Replay(c)
  PROVE  \/ UNCHANGED <<memories, operations>>
         \/ \E o \in Bound : /\ operations[o].type = "forget"
                             /\ Scrubs({operations[o].lineage})
                             /\ Erases({operations[o].lineage})
                             /\ Bound' = Bound
<1> DEFINE o == call[c].op
           l == operations[o].lineage
<1>1. o \in Bound
  BY DEF Replay, MayReplay
<1>2. CASE operations[o].type # "forget"
  <2>1. UNCHANGED <<memories, operations>>
    BY <1>2 DEF Replay
  <2> QED
    BY <2>1
<1>3. CASE operations[o].type = "forget"
  <2>1. /\ memories' = ScrubMemories({l}, call[c].now)
        /\ operations' = EraseBindings({l})
    BY <1>3 DEF Replay
  <2>2. call[c].now \in Nat
    <3>1. PICK type : Running(c, type)
      BY DEF Replay
    <3> QED
      BY <3>1, RunningType
  <2>3. Scrubs({l}) /\ Erases({l})
    BY <2>1, <2>2, ScrubStep, EraseStep
  <2>4. Bound' \subseteq Bound
    BY <2>1 DEF Bound, EraseBindings
  <2>5. Bound' = Bound
    BY <2>3, <2>4 DEF Erases
  <2> QED
    BY <1>1, <1>3, <2>3, <2>5
<1> QED
  BY <1>2, <1>3

-----------------------------------------------------------------------------
(* The table of memories keeps its invariant.                              *)

\* The fields of the records that the table holds.
LEMMA StoredType ==
  ASSUME TypeOK
  PROVE  \A m \in Stored :
           /\ m \in MemIds /\ memories[m] \in Record
           /\ memories[m].revision \in Nat \ {0}
           /\ memories[m].status \in Statuses
           /\ memories[m].supersedes \in MemIds \cup {NULL}
BY DEF TypeOK, Stored, Record

\* A step that leaves the table of memories alone keeps its invariant.
LEMMA MemoryUnchanged ==
  ASSUME MemoryInv, UNCHANGED memories
  PROVE  MemoryInv'
<1>1. Stored' = Stored
  BY DEF Stored
<1> QED
  BY <1>1 DEF MemoryInv, Rooted, HeadsNewest, AllOrNone, OneHead, SomeHead,
              ChainsUnforked

\* A remember keeps the invariant: its new lineage is a chain of one.
LEMMA MemoryRemember ==
  ASSUME TypeOK, MemoryInv, NEW m \in Unused,
         Stored' = Stored \cup {m},
         \A n \in Stored : memories'[n] = memories[n],
         memories'[m].lineage = m, memories'[m].revision = 1,
         memories'[m].supersedes = NULL, memories'[m].status = "active"
  PROVE  MemoryInv'
<1>1. \A n \in Stored : memories[n].lineage # m
  BY DEF MemoryInv, Rooted, Unused
<1>2. m \notin Stored
  BY DEF Unused
<1>3. Rooted'
  BY DEF MemoryInv, Rooted
<1>4. HeadsNewest' /\ AllOrNone' /\ OneHead' /\ SomeHead'
  BY <1>1, <1>2 DEF MemoryInv, HeadsNewest, AllOrNone, OneHead, SomeHead
<1>5. ChainsUnforked'
  BY <1>1, <1>2 DEF MemoryInv, ChainsUnforked
<1> QED
  BY <1>3, <1>4, <1>5 DEF MemoryInv

\* A correction keeps the invariant: the new revision is the only head, and the
\* row it supersedes was the head until then.
LEMMA MemoryCorrect ==
  ASSUME TypeOK, MemoryInv, NEW t \in Stored, NEW m \in Unused, NEW now \in Nat,
         Stored' = Stored \cup {m},
         \A n \in Stored \ {t} : memories'[n] = memories[n],
         memories[t].status = "active",
         memories'[t] = Superseded(memories[t], now),
         memories'[m].lineage = memories[t].lineage,
         memories'[m].scope = memories[t].scope,
         memories'[m].revision = memories[t].revision + 1,
         memories'[m].supersedes = t, memories'[m].status = "active"
  PROVE  MemoryInv'
<1>1. /\ memories'[t].lineage = memories[t].lineage
      /\ memories'[t].revision = memories[t].revision
      /\ memories'[t].scope = memories[t].scope
      /\ memories'[t].supersedes = memories[t].supersedes
      /\ memories'[t].status = "superseded"
  BY StoredType DEF Superseded, Record
<1>2. m \notin Stored
  BY DEF Unused
<1>3. \A n \in Stored : /\ memories'[n].lineage = memories[n].lineage
                        /\ memories'[n].revision = memories[n].revision
                        /\ memories'[n].scope = memories[n].scope
                        /\ memories'[n].supersedes = memories[n].supersedes
  BY <1>1
<1>4. \A n \in Stored : memories[n].lineage = memories[t].lineage =>
        /\ memories[n].revision <= memories[t].revision
        /\ memories[n].status # "deleted"
  BY DEF MemoryInv, HeadsNewest, AllOrNone
<1>5. \A n \in Stored : memories[n].revision \in Nat
  BY StoredType
<1>6. Rooted'
  BY <1>3 DEF MemoryInv, Rooted
<1>7. \A n \in Stored : memories[n].lineage = memories[t].lineage =>
        memories'[n].status \notin {"deleted", "active"}
  <2> SUFFICES ASSUME NEW n \in Stored, memories[n].lineage = memories[t].lineage
               PROVE  memories'[n].status \notin {"deleted", "active"}
    OBVIOUS
  <2>1. CASE n = t
    BY <1>1, <2>1
  <2>2. CASE n # t
    BY <1>4, <2>2 DEF MemoryInv, OneHead
  <2> QED
    BY <2>1, <2>2
<1>8. HeadsNewest'
  <2> SUFFICES ASSUME NEW a \in Stored', NEW b \in Stored',
                      memories'[a].lineage = memories'[b].lineage,
                      memories'[a].status = "active"
               PROVE  memories'[b].revision <= memories'[a].revision
    BY DEF HeadsNewest
  <2>1. CASE a = m /\ b = m
    BY <1>5, <2>1
  <2>2. CASE a = m /\ b \in Stored
    BY <1>3, <1>4, <1>5, <2>2
  <2>3. CASE a \in Stored /\ b = m
    BY <1>3, <1>7, <2>3
  <2>4. CASE a \in Stored /\ b \in Stored
    BY <1>1, <1>3, <2>4 DEF MemoryInv, HeadsNewest
  <2> QED
    BY <2>1, <2>2, <2>3, <2>4
<1>9. AllOrNone' /\ OneHead'
  BY <1>2, <1>3, <1>7 DEF MemoryInv, AllOrNone, OneHead
<1>10. SomeHead'
  BY <1>1, <1>3 DEF MemoryInv, SomeHead
<1>11. ChainsUnforked'
  <2>1. ASSUME NEW a \in Stored', memories'[a].supersedes # NULL
        PROVE  LET old == memories'[memories'[a].supersedes]
               IN  /\ memories'[a].supersedes \in Stored'
                   /\ old.lineage = memories'[a].lineage
                   /\ old.scope = memories'[a].scope
                   /\ memories'[a].revision = old.revision + 1
                   /\ old.status # "active"
    <3>1. CASE a = m
      BY <1>1, <3>1
    <3>2. CASE a \in Stored
      BY <1>1, <1>3, <2>1, <3>2 DEF MemoryInv, ChainsUnforked
    <3> QED
      BY <3>1, <3>2
  <2>2. ASSUME NEW a \in Stored', NEW b \in Stored',
               memories'[a].lineage = memories'[b].lineage,
               memories'[a].revision = memories'[b].revision
        PROVE  a = b
    BY <1>3, <1>4, <1>5, <2>2 DEF MemoryInv, ChainsUnforked
  <2> QED
    BY <2>1, <2>2 DEF ChainsUnforked
<1> QED
  BY <1>6, <1>8, <1>9, <1>10, <1>11 DEF MemoryInv

\* A scrub keeps the invariant: it turns the rows of a lineage into tombstones
\* together.
LEMMA MemoryScrub ==
  ASSUME TypeOK, MemoryInv, NEW ls, Scrubs(ls)
  PROVE  MemoryInv'
<1>1. Rooted' /\ HeadsNewest' /\ AllOrNone' /\ OneHead'
  BY DEF Scrubs, MemoryInv, Rooted, HeadsNewest, AllOrNone, OneHead
<1>2. SomeHead'
  BY DEF Scrubs, MemoryInv, SomeHead
<1>3. ChainsUnforked'
  BY DEF Scrubs, MemoryInv, ChainsUnforked
<1> QED
  BY <1>1, <1>2, <1>3 DEF MemoryInv

-----------------------------------------------------------------------------
(* The table of operations keeps its invariant.                            *)

\* A step that leaves both tables alone keeps the journal's invariant.
LEMMA OperationUnchanged ==
  ASSUME OperationInv, UNCHANGED <<memories, operations>>
  PROVE  OperationInv'
<1>1. Stored' = Stored /\ Bound' = Bound
  BY DEF Stored, Bound
<1> QED
  BY <1>1 DEF OperationInv, ResultsFiled, BindingsFollowContent, ExactlyOnce

\* A new record is the result of the operation that is bound along with it.
LEMMA OperationWrite ==
  ASSUME OperationInv, NEW m \in Unused, NEW o, NEW type \in {"remember", "correct"},
         NEW l, Binds(o, type, m, l),
         Stored' = Stored \cup {m},
         memories'[m].lineage = l, memories'[m].status = "active",
         \A n \in Stored : /\ memories'[n].lineage = memories[n].lineage
                           /\ memories'[n].status = "deleted" <=>
                                memories[n].status = "deleted"
  PROVE  OperationInv'
<1>1. m \notin Stored /\ o \notin Bound /\ Bound' = Bound \cup {o}
  BY DEF Unused, Binds
<1>2. \A p \in Bound : /\ operations'[p] = operations[p]
                       /\ operations[p].result \in Stored
  BY DEF Binds, OperationInv, ResultsFiled
<1>3. ResultsFiled'
  BY <1>1, <1>2 DEF Binds, OperationInv, ResultsFiled
<1>4. BindingsFollowContent'
  <2> SUFFICES ASSUME NEW p \in Bound'
               PROVE  LET op == operations'[p]
                          gone == memories'[op.result].status = "deleted"
                      IN  IF op.type = "forget" THEN op.digest # NULL /\ gone
                          ELSE (op.digest = NULL) <=> gone
    BY DEF BindingsFollowContent
  <2>1. CASE p = o
    BY <2>1 DEF Binds
  <2>2. CASE p \in Bound
    BY <1>2, <2>2 DEF OperationInv, BindingsFollowContent
  <2> QED
    BY <1>1, <2>1, <2>2
<1>5. ExactlyOnce'
  <2>1. \A p \in Bound' : operations'[p].result \in Stored'
    BY <1>3 DEF ResultsFiled
  <2>2. ASSUME NEW n \in Stored'
        PROVE  \E w \in Bound' : \A p \in Bound' :
                 operations'[p].type # "forget" /\ operations'[p].result = n
                   <=> p = w
    <3>1. CASE n = m
      <4>1. \A p \in Bound' :
              operations'[p].type # "forget" /\ operations'[p].result = n <=> p = o
        BY <1>1, <1>2, <3>1 DEF Binds
      <4> QED
        BY <1>1, <4>1
    <3>2. CASE n \in Stored
      <4>1. PICK w \in Bound : \A p \in Bound :
              operations[p].type # "forget" /\ operations[p].result = n <=> p = w
        BY <3>2 DEF OperationInv, ExactlyOnce
      <4>2. \A p \in Bound' :
              operations'[p].type # "forget" /\ operations'[p].result = n <=> p = w
        BY <1>1, <1>2, <3>2, <4>1 DEF Binds
      <4> QED
        BY <1>1, <4>1, <4>2
    <3> QED
      BY <3>1, <3>2
  <2> QED
    BY <2>1, <2>2 DEF ExactlyOnce
<1> QED
  BY <1>3, <1>4, <1>5 DEF OperationInv

\* Scrubbing a lineage erases its bindings with it; every operation that is
\* bound along with it is a forget of the lineage.
LEMMA OperationScrub ==
  ASSUME OperationInv, NEW ls, NEW new, Scrubs(ls), Erases(ls),
         Bound' = Bound \cup new,
         \A o \in new \ Bound :
           /\ operations'[o].type = "forget" /\ operations'[o].digest # NULL
           /\ operations'[o].result \in Stored
           /\ operations'[o].lineage = memories[operations'[o].result].lineage
           /\ operations'[o].lineage \in ls
  PROVE  OperationInv'
<1>1. \A p \in Bound : /\ operations[p].result \in Stored
                       /\ operations[p].lineage = memories[operations[p].result].lineage
                       /\ operations'[p].type = operations[p].type
                       /\ operations'[p].result = operations[p].result
                       /\ operations'[p].lineage = operations[p].lineage
  BY DEF OperationInv, ResultsFiled, Erases
<1>2. /\ Stored' = Stored
      /\ \A n \in Stored : memories'[n].lineage = memories[n].lineage
  BY DEF Scrubs
<1>3. ResultsFiled'
  BY <1>1, <1>2 DEF ResultsFiled
<1>4. BindingsFollowContent'
  <2> SUFFICES ASSUME NEW p \in Bound'
               PROVE  LET op == operations'[p]
                          gone == memories'[op.result].status = "deleted"
                      IN  IF op.type = "forget" THEN op.digest # NULL /\ gone
                          ELSE (op.digest = NULL) <=> gone
    BY DEF BindingsFollowContent
  <2>1. CASE p \in new \ Bound
    BY <2>1 DEF Scrubs
  <2>2. CASE p \in Bound /\ operations[p].lineage \in ls
    BY <1>1, <2>2 DEF Scrubs, Erases, OperationInv, BindingsFollowContent
  <2>3. CASE p \in Bound /\ operations[p].lineage \notin ls
    <3>1. /\ operations'[p] = operations[p]
          /\ memories'[operations[p].result] = memories[operations[p].result]
      BY <1>1, <2>3 DEF Scrubs, Erases
    <3> QED
      BY <2>3, <3>1 DEF OperationInv, BindingsFollowContent
  <2> QED
    BY <2>1, <2>2, <2>3
<1>5. ExactlyOnce'
  <2>1. \A p \in Bound' : operations'[p].result \in Stored'
    BY <1>3 DEF ResultsFiled
  <2>2. ASSUME NEW n \in Stored'
        PROVE  \E w \in Bound' : \A p \in Bound' :
                 operations'[p].type # "forget" /\ operations'[p].result = n
                   <=> p = w
    <3>1. PICK w \in Bound : \A p \in Bound :
            operations[p].type # "forget" /\ operations[p].result = n <=> p = w
      BY <1>2 DEF OperationInv, ExactlyOnce
    <3>2. \A p \in Bound' :
            operations'[p].type # "forget" /\ operations'[p].result = n <=> p = w
      BY <1>1, <3>1
    <3> QED
      BY <3>1, <3>2
  <2> QED
    BY <2>1, <2>2 DEF ExactlyOnce
<1> QED
  BY <1>3, <1>4, <1>5 DEF OperationInv

-----------------------------------------------------------------------------
(* The theorems.                                                           *)

\* Only a transaction that commits changes memories or operations.
LEMMA LedgerSteps ==
  ASSUME [Next]_vars
  PROVE  \/ UNCHANGED <<memories, operations>>
         \/ \E c \in Clients :
              Remember(c) \/ Correct(c) \/ Forget(c) \/ Replay(c)
<1>1. CASE UNCHANGED vars \/ Tick
  BY <1>1 DEF vars, Tick, ledgerVars
<1>2. ASSUME NEW c \in Clients,
             \/ CallRemember(c) \/ CallCorrect(c) \/ CallForget(c)
             \/ CallRecall(c) \/ Refuse(c) \/ Recall(c) \/ Leave(c)
      PROVE  UNCHANGED <<memories, operations>>
  BY <1>2 DEF CallRemember, CallCorrect, CallForget, CallRecall, Refuse, Recall,
              Leave, ledgerVars
<1> QED
  BY <1>1, <1>2 DEF Next, Client

\* Every step preserves the inductive invariant.
LEMMA InvariantStep == IInv /\ [Next]_vars => IInv'
<1> SUFFICES ASSUME TypeOK, MemoryInv, OperationInv, [Next]_vars
             PROVE  MemoryInv' /\ OperationInv'
  BY TypeStep DEF IInv
<1>1. CASE UNCHANGED <<memories, operations>>
  BY <1>1, MemoryUnchanged, OperationUnchanged
<1>2. ASSUME NEW c \in Clients, Remember(c)
      PROVE  MemoryInv' /\ OperationInv'
  <2>1. PICK m \in Unused, o \in OpIds :
          /\ Binds(o, "remember", m, m)
          /\ Stored' = Stored \cup {m}
          /\ \A n \in Stored : memories'[n] = memories[n]
          /\ memories'[m].lineage = m /\ memories'[m].revision = 1
          /\ memories'[m].supersedes = NULL /\ memories'[m].status = "active"
    BY <1>2, RememberStep
  <2>2. MemoryInv'
    BY <2>1, MemoryRemember
  <2>3. OperationInv'
    BY <2>1, OperationWrite
  <2> QED
    BY <2>2, <2>3
<1>3. ASSUME NEW c \in Clients, Correct(c)
      PROVE  MemoryInv' /\ OperationInv'
  <2>1. PICK t \in Stored, m \in Unused, o \in OpIds :
          /\ Binds(o, "correct", m, memories[t].lineage)
          /\ Stored' = Stored \cup {m}
          /\ \A n \in Stored \ {t} : memories'[n] = memories[n]
          /\ memories[t].status = "active"
          /\ \E now \in Nat : memories'[t] = Superseded(memories[t], now)
          /\ memories'[m].lineage = memories[t].lineage
          /\ memories'[m].scope = memories[t].scope
          /\ memories'[m].revision = memories[t].revision + 1
          /\ memories'[m].supersedes = t /\ memories'[m].status = "active"
    BY <1>3, CorrectStep
  <2>2. PICK now \in Nat : memories'[t] = Superseded(memories[t], now)
    BY <2>1
  <2>3. MemoryInv'
    BY <2>1, <2>2, MemoryCorrect
  <2>4. /\ memories'[t].lineage = memories[t].lineage
        /\ memories'[t].status = "superseded"
    BY <2>2, StoredType DEF Superseded, Record
  <2>5. \A n \in Stored : /\ memories'[n].lineage = memories[n].lineage
                          /\ memories'[n].status = "deleted" <=>
                               memories[n].status = "deleted"
    BY <2>1, <2>4
  <2>6. OperationInv'
    BY <2>1, <2>5, OperationWrite
  <2> QED
    BY <2>3, <2>6
<1>4. ASSUME NEW c \in Clients, Forget(c)
      PROVE  MemoryInv' /\ OperationInv'
  <2>1. PICK t \in Stored, o \in OpIds \ Bound :
          /\ Scrubs({memories[t].lineage})
          /\ Erases({memories[t].lineage})
          /\ Bound' = Bound \cup {o}
          /\ operations'[o].type = "forget" /\ operations'[o].result = t
          /\ operations'[o].lineage = memories[t].lineage
          /\ operations'[o].digest # NULL
    BY <1>4, ForgetStep
  <2>2. MemoryInv'
    BY <2>1, MemoryScrub
  <2>3. OperationInv'
    BY <2>1, OperationScrub
  <2> QED
    BY <2>2, <2>3
<1>5. ASSUME NEW c \in Clients, Replay(c)
      PROVE  MemoryInv' /\ OperationInv'
  <2>1. CASE UNCHANGED <<memories, operations>>
    BY <2>1, <1>1
  <2>2. ASSUME NEW o \in Bound,
               Scrubs({operations[o].lineage}), Erases({operations[o].lineage}),
               Bound' = Bound
        PROVE  MemoryInv' /\ OperationInv'
    <3>1. MemoryInv'
      BY <2>2, MemoryScrub
    <3>2. OperationInv'
      <4>1. Bound' = Bound \cup {} /\ {} \ Bound = {}
        BY <2>2
      <4> QED
        BY <2>2, <4>1, OperationScrub
    <3> QED
      BY <3>1, <3>2
  <2> QED
    BY <1>5, <2>1, <2>2, ReplayStep
<1> QED
  BY <1>1, <1>2, <1>3, <1>4, <1>5, LedgerSteps

\* The empty ledger satisfies the invariant.
LEMMA InvariantInit == Init => IInv
<1> SUFFICES ASSUME Init PROVE IInv
  OBVIOUS
<1>1. Stored = {} /\ Bound = {}
  BY DEF Init, Stored, Bound
<1>2. TypeOK
  BY DEF Init, TypeOK
<1> QED
  BY <1>1, <1>2 DEF IInv, MemoryInv, OperationInv, Rooted, HeadsNewest, AllOrNone,
     OneHead, SomeHead, ChainsUnforked, ResultsFiled, BindingsFollowContent,
     ExactlyOnce

\* The inductive invariant holds in every reachable state.
LEMMA Invariance == Spec => []IInv
BY InvariantInit, InvariantStep, PTL DEF Spec

\* Whatever calls race, a lineage stays one chain of revisions in one scope.
THEOREM NoForks == Spec => []ChainsUnforked
<1>1. IInv => ChainsUnforked
  BY DEF IInv, MemoryInv
<1> QED
  BY <1>1, Invariance, PTL

\* A lineage is forgotten as a whole, and a live one has exactly one head.
THEOREM ForgottenWhole == Spec => []LineagesWhole
<1>1. IInv => LineagesWhole
  BY WholeInParts DEF IInv, MemoryInv
<1> QED
  BY <1>1, Invariance, PTL

\* The history of a lineage is one chain, live or forgotten as a whole.
THEOREM LineagesSoundCorrect == Spec => []LineagesSound
<1>1. ChainsUnforked /\ LineagesWhole => LineagesSound
  BY DEF LineagesSound
<1> QED
  BY <1>1, NoForks, ForgottenWhole, PTL

\* Bindings derived from content are erased exactly with the content.
THEOREM BindingsErased == Spec => []BindingsFollowContent
<1>1. IInv => BindingsFollowContent
  BY DEF IInv, OperationInv
<1> QED
  BY <1>1, Invariance, PTL

\* However often calls are retried, a record is the work of one operation.
THEOREM NoDoubleWrite == Spec => []ExactlyOnce
<1>1. IInv => ExactlyOnce
  BY DEF IInv, OperationInv
<1> QED
  BY <1>1, Invariance, PTL

\* A step leaves tombstones, forgotten lineages and erased bindings alone.
LEMMA ForgetIsFinalStep ==
  ASSUME IInv, [Next]_vars
  PROVE  /\ \A m \in Stored : memories[m].status = "deleted" =>
              /\ memories'[m] = memories[m]
              /\ \A n \in Stored' :
                   memories'[n].lineage = memories[m].lineage => n \in Stored
         /\ \A o \in Bound : operations[o].digest = NULL =>
              operations'[o] = operations[o]
<1> DEFINE Goal ==
  /\ \A m \in Stored : memories[m].status = "deleted" =>
       /\ memories'[m] = memories[m]
       /\ \A n \in Stored' :
            memories'[n].lineage = memories[m].lineage => n \in Stored
  /\ \A o \in Bound : operations[o].digest = NULL => operations'[o] = operations[o]
<1> USE DEF IInv
<1>1. CASE UNCHANGED <<memories, operations>>
  BY <1>1 DEF Stored
<1>2. ASSUME NEW c \in Clients, Remember(c)
      PROVE  Goal
  <2>1. PICK m \in Unused, o \in OpIds :
          /\ Binds(o, "remember", m, m)
          /\ Stored' = Stored \cup {m}
          /\ \A n \in Stored : memories'[n] = memories[n]
          /\ memories'[m].lineage = m
    BY <1>2, RememberStep
  <2>2. \A n \in Stored : memories[n].lineage # m
    BY DEF MemoryInv, Rooted, Unused
  <2> QED
    BY <2>1, <2>2 DEF Binds
<1>3. ASSUME NEW c \in Clients, Correct(c)
      PROVE  Goal
  <2>1. PICK t \in Stored, m \in Unused, o \in OpIds :
          /\ Binds(o, "correct", m, memories[t].lineage)
          /\ Stored' = Stored \cup {m}
          /\ \A n \in Stored \ {t} : memories'[n] = memories[n]
          /\ memories[t].status = "active"
          /\ memories'[m].lineage = memories[t].lineage
    BY <1>3, CorrectStep
  <2>2. \A n \in Stored : memories[n].status = "deleted" =>
          n # t /\ memories[n].lineage # memories[t].lineage
    BY <2>1 DEF MemoryInv, AllOrNone
  <2> QED
    BY <2>1, <2>2 DEF Binds
<1>4. ASSUME NEW c \in Clients, Forget(c)
      PROVE  Goal
  BY <1>4, ForgetStep DEF Scrubs, Erases
<1>5. ASSUME NEW c \in Clients, Replay(c)
      PROVE  Goal
  BY <1>1, <1>5, ReplayStep DEF Scrubs, Erases
<1> QED
  BY <1>1, <1>2, <1>3, <1>4, <1>5, LedgerSteps

\* Forgetting is final: no race and no retry brings anything back.
THEOREM NoResurrection == Spec => ForgetIsFinal
<1>1. IInv /\ [Next]_vars =>
        [/\ \A m \in Stored : memories[m].status = "deleted" =>
              /\ memories'[m] = memories[m]
              /\ \A n \in Stored' :
                   memories'[n].lineage = memories[m].lineage => n \in Stored
         /\ \A o \in Bound : operations[o].digest = NULL =>
              operations'[o] = operations[o]]_vars
  BY ForgetIsFinalStep
<1> QED
  BY <1>1, Invariance, PTL DEF Spec, ForgetIsFinal

-----------------------------------------------------------------------------
(* Histories: what records, bindings and answers say about one another     *)
(* although every transaction works with a time and a request read before  *)
(* it.  HistoryInv and ClientsSound are inductive relative to IInv.        *)

\* A tombstone keeps nothing of the content.
TombstonesEmpty ==
  \A m \in Stored : memories[m].status = "deleted" => memories[m].content = NULL

\* No record is from the future.
RecordsDated == \A m \in Stored : memories[m].created <= clock

\* What a binding that was not erased says of its result.
Fulfils(op, r) ==
  LET q == op.digest
  IN  /\ q.type = op.type
      /\ r.scope = q.scope
      /\ CASE op.type = "remember" -> /\ r.revision = 1
                                      /\ r.content \in {q.value.content, NULL}
           [] op.type = "correct"  -> /\ r.supersedes = q.target
                                      /\ r.content \in {q.value.content, NULL}
           [] op.type = "forget"   -> /\ op.result = q.target
                                      /\ ValidRecord(op.result, r)

\* Clients' bindings are fulfilled.
BindingsFulfilled ==
  \A o \in Bound \cap Supplied :
    operations[o].digest # NULL =>
      Fulfils(operations[o], memories[operations[o].result])

HistoryInv ==
  /\ TombstonesEmpty /\ RecordsDated /\ RecordsSound /\ BindingsFulfilled

\* What a client's write relies on since it read the clock: the record it names
\* is not younger than that.
WriteSound(k) ==
  LET q == k.request
  IN  /\ k.op \in Supplied
      /\ q.type = "remember" /\ k.phase = "running" =>
           InTimeWindow(Normalize(q.value, k.now), k.now)
      /\ q.type \in {"correct", "forget"} =>
           q.target \in Stored /\ memories[q.target].created <= k.now
      /\ k.phase \in {"done", "replayed"} => AcknowledgedHolds(k)

\* What a client's recall was answered.
RecallSound(k) ==
  k.phase \in {"done", "replayed"} => k.result \subseteq Stored /\ RecallCoherent(k)

\* A client's call is from the past, and what it was told still holds.
ClientSound(k) ==
  /\ k.now <= clock
  /\ IF k.request.type = "recall" THEN RecallSound(k) ELSE WriteSound(k)

ClientsSound == \A c \in Clients : call[c] # NULL => ClientSound(call[c])

\* What no step takes from a record; its content may only go, and its status
\* only advance.
RowKept(r, s) ==
  /\ s.lineage = r.lineage /\ s.revision = r.revision /\ s.scope = r.scope
  /\ s.supersedes = r.supersedes /\ s.created = r.created
  /\ s.validFrom = r.validFrom /\ s.validTo = r.validTo /\ s.expires = r.expires
  /\ s.content \in {r.content, NULL}
  /\ r.status # "active" => s.status # "active"
  /\ r.status = "deleted" => s.status = "deleted"

RowsKept ==
  /\ Stored \subseteq Stored'
  /\ \A m \in Stored : RowKept(memories[m], memories'[m])

\* The times of a record and of a call are numbers.
LEMMA RecordTimes ==
  ASSUME TypeOK
  PROVE  /\ \A m \in Stored :
              /\ memories[m].created \in Nat /\ memories[m].updated \in Nat
              /\ memories[m].validFrom \in Nat
              /\ memories[m].validTo \in Time /\ memories[m].expires \in Time
              /\ memories[m].content \in Contents \cup {NULL}
         /\ clock \in Nat
         /\ \A c \in Clients : call[c] # NULL => call[c].now \in Nat
<1>1. \A m \in Stored : memories[m] \in Record
  BY StoredType
<1>2. \A c \in Clients : call[c] # NULL => call[c].now \in Nat
  BY DEF TypeOK, Call
<1> QED
  BY <1>1, <1>2 DEF Record, TypeOK

\* What was fulfilled stays so while a record is kept, and a forget's result,
\* a tombstone already, is not touched.
LEMMA FulfilsKept ==
  ASSUME NEW op \in Operation, NEW r, NEW s, Fulfils(op, r), RowKept(r, s),
         op.type = "forget" => s = r
  PROVE  Fulfils(op, s)
<1>1. op.type \in {"remember", "correct", "forget"}
  BY DEF Operation
<1>2. CASE op.type = "remember"
  BY <1>2 DEF Fulfils, RowKept
<1>3. CASE op.type = "correct"
  BY <1>3 DEF Fulfils, RowKept
<1>4. CASE op.type = "forget"
  BY <1>4 DEF Fulfils
<1> QED
  BY <1>1, <1>2, <1>3, <1>4

-----------------------------------------------------------------------------
(* The tables keep HistoryInv.                                             *)

\* A step that leaves both tables alone keeps their history.
LEMMA HistoryUnchanged ==
  ASSUME TypeOK, HistoryInv, UNCHANGED <<memories, operations>>,
         clock' \in Nat, clock <= clock'
  PROVE  HistoryInv' /\ RowsKept
<1>1. Stored' = Stored /\ Bound' = Bound
  BY DEF Stored, Bound
<1>2. RecordsDated'
  BY <1>1, RecordTimes DEF HistoryInv, RecordsDated
<1>3. TombstonesEmpty' /\ RecordsSound'
  BY <1>1 DEF HistoryInv, TombstonesEmpty, RecordsSound, ChainTimes,
              LiveRecordsValid
<1>4. BindingsFulfilled'
  BY <1>1 DEF HistoryInv, BindingsFulfilled
<1> QED
  BY <1>1, <1>2, <1>3, <1>4 DEF HistoryInv, RowsKept, RowKept

\* What a scrub keeps of the records, beside what Scrubs says.
LEMMA ScrubRows ==
  ASSUME TypeOK, TombstonesEmpty, NEW ls, NEW now \in Nat,
         memories' = ScrubMemories(ls, now)
  PROVE  /\ RowsKept /\ Scrubs(ls)
         /\ \A n \in Stored :
              IF memories'[n].status = "deleted" THEN memories'[n].content = NULL
              ELSE memories'[n] = memories[n]
<1>1. Scrubs(ls)
  BY ScrubStep
<1>2. ASSUME NEW n \in Stored
      PROVE  /\ RowKept(memories[n], memories'[n])
             /\ IF memories'[n].status = "deleted" THEN memories'[n].content = NULL
                ELSE memories'[n] = memories[n]
  <2>1. memories[n] \in Record /\ n \in MemIds
    BY StoredType
  <2>2. memories'[n] = IF memories[n].lineage \in ls
                       THEN Scrubbed(memories[n], now) ELSE memories[n]
    BY <2>1 DEF ScrubMemories, Revisions
  <2>3. RowKept(memories[n], Scrubbed(memories[n], now))
    BY <2>1 DEF RowKept, Scrubbed, Record
  <2>4. /\ Scrubbed(memories[n], now).status = "deleted"
        /\ Scrubbed(memories[n], now).content = NULL
    BY <2>1 DEF Scrubbed, Record, TombstonesEmpty
  <2>5. RowKept(memories[n], memories[n])
    BY DEF RowKept
  <2> QED
    BY <2>2, <2>3, <2>4, <2>5 DEF TombstonesEmpty
<1> QED
  BY <1>1, <1>2 DEF RowsKept, Scrubs

\* A scrub keeps the history: it empties records and touches no tombstone, and
\* the bindings that come with it are fulfilled.
LEMMA HistoryScrub ==
  ASSUME IInv, HistoryInv, NEW ls, NEW now \in Nat,
         memories' = ScrubMemories(ls, now), Erases(ls), UNCHANGED clock,
         \A o \in (Bound' \cap Supplied) \ Bound : operations'[o].digest # NULL =>
           Fulfils(operations'[o], memories'[operations'[o].result])
  PROVE  HistoryInv' /\ RowsKept
<1>1. TypeOK /\ OperationInv /\ MemoryInv /\ TombstonesEmpty
  BY DEF IInv, HistoryInv
<1>2. /\ RowsKept /\ Scrubs(ls)
      /\ \A n \in Stored :
           IF memories'[n].status = "deleted" THEN memories'[n].content = NULL
           ELSE memories'[n] = memories[n]
  BY <1>1, ScrubRows
<1>3. Stored' = Stored
  BY <1>2 DEF Scrubs
<1>4. TombstonesEmpty' /\ RecordsDated'
  BY <1>2, <1>3 DEF TombstonesEmpty, RecordsDated, HistoryInv, RowsKept, RowKept
<1>5. LiveRecordsValid'
  <2> SUFFICES ASSUME NEW n \in Stored, memories'[n].status # "deleted"
               PROVE  ValidRecord(n, memories'[n])
    BY <1>3 DEF LiveRecordsValid
  <2>1. memories'[n] = memories[n]
    BY <1>2
  <2> QED
    BY <2>1 DEF HistoryInv, RecordsSound, LiveRecordsValid
<1>6. ChainTimes'
  <2> SUFFICES ASSUME NEW m \in Stored, memories'[m].supersedes # NULL
               PROVE  LET r == memories'[m]
                          old == memories'[r.supersedes]
                      IN  /\ r.created >= old.created
                          /\ old.status = "superseded" => old.updated = r.created
    BY <1>3 DEF ChainTimes
  <2> DEFINE s == memories[m].supersedes
  <2>1. /\ memories'[m].supersedes = s /\ memories'[m].created = memories[m].created
        /\ s # NULL
    BY <1>2 DEF RowsKept, RowKept
  <2>2. s \in Stored
    BY <1>1, <2>1 DEF MemoryInv, ChainsUnforked
  <2>3. /\ memories'[s].created = memories[s].created
        /\ memories'[s].status = "superseded" => memories'[s] = memories[s]
    BY <1>2, <2>2 DEF RowsKept, RowKept
  <2> QED
    BY <2>1, <2>3 DEF HistoryInv, RecordsSound, ChainTimes
<1>7. BindingsFulfilled'
  <2> SUFFICES ASSUME NEW o \in Bound' \cap Supplied, operations'[o].digest # NULL
               PROVE  Fulfils(operations'[o], memories'[operations'[o].result])
    BY DEF BindingsFulfilled
  <2>1. CASE o \in Bound
    <3> DEFINE op == operations[o]
    <3>1. operations'[o] = op
      BY <2>1 DEF Erases
    <3>2. op \in Operation /\ op.result \in Stored
      BY <1>1, <2>1 DEF TypeOK, Bound, OperationInv, ResultsFiled
    <3>3. Fulfils(op, memories[op.result])
      BY <2>1, <3>1 DEF HistoryInv, BindingsFulfilled
    <3>4. RowKept(memories[op.result], memories'[op.result])
      BY <1>2, <3>2 DEF RowsKept
    <3>5. op.type = "forget" => memories'[op.result] = memories[op.result]
      BY <1>1, <1>2, <2>1, <3>2 DEF OperationInv, BindingsFollowContent, Scrubs
    <3> QED
      BY <3>1, <3>2, <3>3, <3>4, <3>5, FulfilsKept
  <2> QED
    BY <2>1
<1> QED
  BY <1>2, <1>4, <1>5, <1>6, <1>7 DEF HistoryInv, RecordsSound

\* A new record keeps the history when it is made now, sound, and its binding
\* says so; a record that it supersedes keeps what RowKept says.
LEMMA HistoryWrite ==
  ASSUME IInv, HistoryInv, NEW m \in Unused, NEW o \in OpIds \ Bound,
         UNCHANGED clock, Stored' = Stored \cup {m}, Bound' = Bound \cup {o},
         \A p \in Bound : operations'[p] = operations[p],
         Fulfils(operations'[o], memories'[m]), operations'[o].result = m,
         \A n \in Stored :
           /\ RowKept(memories[n], memories'[n])
           /\ memories[n].status = "deleted" => memories'[n] = memories[n]
           /\ memories[n].status # "deleted" =>
                /\ memories'[n].status # "deleted"
                /\ ValidRecord(n, memories'[n])
           /\ memories[n].status = "superseded" => memories'[n] = memories[n],
         memories'[m].status # "deleted", ValidRecord(m, memories'[m]),
         memories'[m].created <= clock,
         memories'[m].supersedes # NULL =>
           /\ memories'[m].supersedes \in Stored
           /\ memories[memories'[m].supersedes].status = "active"
           /\ memories'[memories'[m].supersedes].updated = memories'[m].created
           /\ memories'[m].created >= memories[memories'[m].supersedes].created
  PROVE  HistoryInv' /\ RowsKept
<1>1. TypeOK /\ OperationInv /\ MemoryInv /\ m \notin Stored
  BY DEF IInv, Unused
<1>2. RowsKept
  BY DEF RowsKept
<1>3. TombstonesEmpty' /\ RecordsDated'
  BY <1>1 DEF TombstonesEmpty, RecordsDated, HistoryInv, RowKept
<1>4. LiveRecordsValid'
  BY DEF LiveRecordsValid
<1>5. ChainTimes'
  <2> SUFFICES ASSUME NEW a \in Stored', memories'[a].supersedes # NULL
               PROVE  LET r == memories'[a]
                          old == memories'[r.supersedes]
                      IN  /\ r.created >= old.created
                          /\ old.status = "superseded" => old.updated = r.created
    BY DEF ChainTimes
  <2>1. CASE a = m
    BY <2>1 DEF RowKept
  <2>2. CASE a \in Stored
    <3> DEFINE s == memories[a].supersedes
    <3>1. /\ memories'[a].supersedes = s /\ memories'[a].created = memories[a].created
          /\ s # NULL
      BY <2>2 DEF RowKept
    <3>2. s \in Stored /\ memories[s].status # "active"
      BY <1>1, <2>2, <3>1 DEF MemoryInv, ChainsUnforked
    <3>3. memories[s].status \in {"superseded", "deleted"}
      BY <1>1, <3>2, StoredType DEF Statuses
    <3>4. memories'[s] = memories[s]
      BY <3>2, <3>3
    <3> QED
      BY <2>2, <3>1, <3>4 DEF HistoryInv, RecordsSound, ChainTimes
  <2> QED
    BY <2>1, <2>2
<1>6. BindingsFulfilled'
  <2> SUFFICES ASSUME NEW p \in Bound' \cap Supplied, operations'[p].digest # NULL
               PROVE  Fulfils(operations'[p], memories'[operations'[p].result])
    BY DEF BindingsFulfilled
  <2>1. CASE p = o
    BY <2>1
  <2>2. CASE p \in Bound
    <3> DEFINE op == operations[p]
    <3>1. operations'[p] = op /\ op \in Operation /\ op.result \in Stored
      BY <1>1, <2>2 DEF TypeOK, Bound, OperationInv, ResultsFiled
    <3>2. Fulfils(op, memories[op.result])
      BY <2>2, <3>1 DEF HistoryInv, BindingsFulfilled
    <3>3. op.type = "forget" => memories'[op.result] = memories[op.result]
      BY <1>1, <2>2, <3>1 DEF OperationInv, BindingsFollowContent
    <3> QED
      BY <3>1, <3>2, <3>3, FulfilsKept
  <2> QED
    BY <2>1, <2>2
<1> QED
  BY <1>2, <1>3, <1>4, <1>5, <1>6 DEF HistoryInv, RecordsSound

-----------------------------------------------------------------------------
(* The transactions keep HistoryInv, and answer what holds.                *)

\* What a client holds once it was answered, and that no other client hears.
Answered(c, phase, result) ==
  /\ call'[c] # NULL
  /\ call'[c].phase = phase /\ call'[c].result = result
  /\ call'[c].op = call[c].op /\ call'[c].request = call[c].request
  /\ call'[c].now = call[c].now
  /\ \A d \in Clients \ {c} : call'[d] = call[d]

\* An answer goes to one client, which keeps what it asked.
LEMMA AnswerStep ==
  ASSUME TypeOK, NEW c \in Clients, call[c] # NULL, NEW phase \in Phases,
         NEW result \in SUBSET MemIds, Answer(c, phase, result)
  PROVE  Answered(c, phase, result)
<1>1. call[c] \in Call
  BY DEF TypeOK
<1> DEFINE k == [call[c] EXCEPT !.phase = phase, !.result = result]
<1>2. k \in Call /\ k.phase = phase /\ k.result = result /\ k.op = call[c].op
      /\ k.request = call[c].request /\ k.now = call[c].now
  BY <1>1 DEF Call
<1>3. call' = [call EXCEPT ![c] = k]
  BY DEF TypeOK, Answer
<1>4. call'[c] = k /\ \A d \in Clients \ {c} : call'[d] = call[d]
  BY <1>3 DEF TypeOK
<1>5. k # NULL
  BY <1>2, SentinelAssumption
<1> HIDE DEF k
<1> QED
  BY <1>2, <1>4, <1>5 DEF Answered

\* A remember keeps the history and gives an answer that holds.
LEMMA HistoryRemember ==
  ASSUME IInv, HistoryInv, ClientsSound, NEW c \in Clients, Remember(c)
  PROVE  /\ HistoryInv' /\ RowsKept
         /\ \E result : /\ Answered(c, "done", result)
                        /\ ClientSound(call[c])'
<1> DEFINE k == call[c]
           q == k.request
           row(m) == NewRecord(Normalize(q.value, k.now), q.scope, m, 1, NULL, k.now)
<1>1. TypeOK /\ Running(c, "remember") /\ k.op \notin Bound /\ clock' = clock
  BY DEF IInv, Remember, MayRemember
<1>2. /\ k.now \in Nat /\ k.op \in OpIds /\ q.type = "remember" /\ k # NULL
      /\ q \in RememberRequest /\ q \in WriteRequest /\ k.phase = "running"
  BY <1>1, RunningType DEF Running
<1>3. q.value \in Write /\ q.scope \in Scopes
  BY <1>2, RequestAssumption DEF RememberRequest
<1>4. PICK m \in Unused :
        /\ memories' = [memories EXCEPT ![m] = row(m)]
        /\ operations' = [operations EXCEPT ![k.op] = NewOperation(q, m, m, NULL)]
        /\ Answer(c, "done", {m})
  BY DEF Remember
<1>5. m \in MemIds /\ m \notin Stored
  BY DEF Unused
<1>6. row(m) \in Record /\ row(m) # NULL
  BY <1>2, <1>3, <1>5, RememberedType, SentinelAssumption
<1>7. memories'[m] = row(m) /\ \A n \in MemIds \ {m} : memories'[n] = memories[n]
  BY <1>1, <1>4, <1>5 DEF TypeOK
<1>8. Stored' = Stored \cup {m} /\ \A n \in Stored : memories'[n] = memories[n]
  BY <1>5, <1>6, <1>7 DEF Stored
<1>9. Binds(k.op, "remember", m, m)
  BY <1>1, <1>2, <1>4, <1>5, BindStep
<1>10. operations'[k.op] = NewOperation(q, m, m, NULL)
  BY <1>1, <1>2, <1>4 DEF TypeOK
<1>11. ClientSound(k)
  BY <1>2 DEF ClientsSound
<1>12. /\ InTimeWindow(Normalize(q.value, k.now), k.now)
       /\ k.now <= clock
  BY <1>2, <1>11 DEF ClientSound, WriteSound
<1>13. /\ row(m).content = q.value.content /\ row(m).content \in Contents
       /\ row(m).scope = q.scope /\ row(m).revision = 1 /\ row(m).supersedes = NULL
       /\ row(m).status = "active" /\ row(m).created = k.now
  BY <1>3 DEF NewRecord, Normalize, Write
<1>14. ValidRecord(m, row(m))
  <2>1. row(m).content # NULL /\ NULL # m
    BY <1>5, <1>13, SentinelAssumption
  <2>2. /\ row(m).validTo # NULL => row(m).validTo > row(m).validFrom
        /\ row(m).expires # NULL => row(m).expires > row(m).validFrom
    BY <1>12 DEF NewRecord, InTimeWindow
  <2>3. row(m).updated = k.now
    BY DEF NewRecord
  <2> QED
    BY <1>2, <1>13, <2>1, <2>2, <2>3 DEF ValidRecord
<1>15. Fulfils(operations'[k.op], memories'[m]) /\ operations'[k.op].result = m
  BY <1>2, <1>7, <1>10, <1>13 DEF Fulfils, NewOperation
<1>16. \A n \in Stored :
         /\ RowKept(memories[n], memories'[n])
         /\ memories[n].status # "deleted" => ValidRecord(n, memories'[n])
  BY <1>8 DEF RowKept, HistoryInv, RecordsSound, LiveRecordsValid
<1>17. HistoryInv' /\ RowsKept
  <2>1. memories'[m].status # "deleted" /\ memories'[m].supersedes = NULL
        /\ memories'[m].created <= clock
    BY <1>7, <1>12, <1>13
  <2>2. k.op \in OpIds \ Bound /\ Bound' = Bound \cup {k.op}
        /\ \A p \in Bound : operations'[p] = operations[p]
    BY <1>9 DEF Binds
  <2> HIDE DEF row
  <2> QED
    BY <1>1, <1>7, <1>8, <1>14, <1>15, <1>16, <2>1, <2>2, HistoryWrite
<1>18. Answered(c, "done", {m})
  BY <1>1, <1>2, <1>4, <1>5, AnswerStep DEF Phases
<1>19. ClientSound(call[c])'
  <2>1. \A n \in {m} : /\ n \in Stored' /\ memories'[n].scope = q.scope
                       /\ memories'[n].content = q.value.content
    BY <1>7, <1>8, <1>13
  <2>2. k.op \in Supplied
    BY <1>2, <1>11 DEF ClientSound, WriteSound
  <2> HIDE DEF row
  <2> QED
    BY <1>1, <1>2, <1>12, <1>18, <2>1, <2>2
    DEF Answered, ClientSound, WriteSound, AcknowledgedHolds, InScope
<1> QED
  BY <1>17, <1>18, <1>19

\* A correction keeps the history and gives an answer that holds: the record it
\* supersedes is not younger than the time it read.
LEMMA HistoryCorrect ==
  ASSUME IInv, HistoryInv, ClientsSound, NEW c \in Clients, Correct(c)
  PROVE  /\ HistoryInv' /\ RowsKept
         /\ \E result : /\ Answered(c, "done", result)
                        /\ ClientSound(call[c])'
<1> DEFINE k == call[c]
           q == k.request
           t == q.target
           old == memories[t]
           merged == Merge(q.value, old, k.now)
           row == NewRecord(merged, old.scope, old.lineage, old.revision + 1, t, k.now)
<1>1. /\ TypeOK /\ Running(c, "correct") /\ clock' = clock
      /\ k.op \notin Bound /\ t \in Stored /\ old.scope = q.scope
      /\ old.status = "active" /\ ValidRecord(t, old) /\ InTimeWindow(merged, k.now)
  BY DEF IInv, Correct, MayCorrect, InScope
<1>2. /\ k.now \in Nat /\ k.op \in OpIds /\ q.type = "correct" /\ k # NULL
      /\ q \in CorrectRequest /\ q \in WriteRequest
  BY <1>1, RunningType
<1>3. /\ q.value \in Correction /\ t \in MemIds /\ old \in Record
      /\ old.lineage \in MemIds /\ old.created \in Nat /\ old.revision \in Nat \ {0}
  BY <1>1, <1>2, RequestAssumption, StoredType DEF CorrectRequest, Record
<1>4. PICK m \in Unused :
        /\ memories' = [memories EXCEPT ![t] = Superseded(old, k.now), ![m] = row]
        /\ operations' = [operations EXCEPT ![k.op] =
             NewOperation(q, m, old.lineage, NULL)]
        /\ Answer(c, "done", {m})
  BY DEF Correct
<1>5. m \in MemIds /\ m \notin Stored /\ m # t
  BY <1>1 DEF Unused
<1>6. /\ row \in Record /\ row # NULL
      /\ Superseded(old, k.now) \in Record /\ Superseded(old, k.now) # NULL
  BY <1>2, <1>3, CorrectedType, SentinelAssumption, SMTT(30)
<1>7. /\ memories'[m] = row /\ memories'[t] = Superseded(old, k.now)
      /\ \A n \in MemIds \ {m, t} : memories'[n] = memories[n]
  BY <1>1, <1>3, <1>4, <1>5 DEF TypeOK
<1>8. /\ Stored' = Stored \cup {m}
      /\ \A n \in Stored \ {t} : memories'[n] = memories[n]
  BY <1>1, <1>5, <1>6, <1>7 DEF Stored
<1>9. Binds(k.op, "correct", m, old.lineage)
  BY <1>1, <1>2, <1>3, <1>4, <1>5, BindStep
<1>10. operations'[k.op] = NewOperation(q, m, old.lineage, NULL)
  BY <1>1, <1>2, <1>4 DEF TypeOK
<1>11. ClientSound(k)
  BY <1>2 DEF ClientsSound
<1>12. k.now <= clock /\ old.created <= k.now /\ k.op \in Supplied
  BY <1>2, <1>11 DEF ClientSound, WriteSound
<1>13. /\ row.content = q.value.content /\ row.content \in Contents
       /\ row.scope = q.scope /\ row.revision = old.revision + 1
       /\ row.supersedes = t /\ row.status = "active"
       /\ row.created = k.now /\ row.updated = k.now
  BY <1>1, <1>3 DEF NewRecord, Merge, Correction
<1>14. ValidRecord(m, row)
  <2>1. row.content # NULL /\ t # NULL /\ row.revision # 1
    <3> HIDE DEF row, t, old
    <3> QED
      BY <1>3, <1>13, SentinelAssumption
  <2>2. /\ row.validTo # NULL => row.validTo > row.validFrom
        /\ row.expires # NULL => row.expires > row.validFrom
    BY <1>1 DEF NewRecord, InTimeWindow
  <2> HIDE DEF row
  <2> QED
    BY <1>2, <1>5, <1>13, <2>1, <2>2 DEF ValidRecord
<1>15. Fulfils(operations'[k.op], memories'[m]) /\ operations'[k.op].result = m
  <2> DEFINE op == NewOperation(q, m, old.lineage, NULL)
  <2>1. op.type = "correct" /\ op.digest = q /\ op.result = m
    BY <1>2 DEF NewOperation
  <2> HIDE DEF op, row
  <2>2. Fulfils(op, row)
    BY <1>2, <1>13, <2>1 DEF Fulfils
  <2> QED
    BY <1>7, <1>10, <2>1, <2>2 DEF op
<1>16. /\ RowKept(old, memories'[t]) /\ memories'[t].status = "superseded"
       /\ memories'[t].updated = k.now
  <2> DEFINE s == [old EXCEPT !.status = "superseded", !.updated = k.now]
  <2>1. memories'[t] = s
    BY <1>7 DEF Superseded
  <2>2. /\ s.lineage = old.lineage /\ s.revision = old.revision
        /\ s.scope = old.scope /\ s.supersedes = old.supersedes
        /\ s.created = old.created /\ s.validFrom = old.validFrom
        /\ s.validTo = old.validTo /\ s.expires = old.expires
        /\ s.content = old.content
        /\ s.status = "superseded" /\ s.updated = k.now
    BY <1>3 DEF Record
  <2> HIDE DEF s
  <2> QED
    BY <1>1, <2>1, <2>2 DEF RowKept
<1>17. ValidRecord(t, memories'[t])
  <2>1. memories'[t].content = old.content
    BY <1>3, <1>7 DEF Superseded, Record
  <2> QED
    BY <1>1, <1>2, <1>3, <1>12, <1>16, <2>1 DEF ValidRecord, RowKept
<1>18. \A n \in Stored :
         /\ RowKept(memories[n], memories'[n])
         /\ memories[n].status = "deleted" => memories'[n] = memories[n]
         /\ memories[n].status # "deleted" =>
              memories'[n].status # "deleted" /\ ValidRecord(n, memories'[n])
         /\ memories[n].status = "superseded" => memories'[n] = memories[n]
  <2> SUFFICES ASSUME NEW n \in Stored
               PROVE  /\ RowKept(memories[n], memories'[n])
                      /\ memories[n].status = "deleted" => memories'[n] = memories[n]
                      /\ memories[n].status # "deleted" =>
                           /\ memories'[n].status # "deleted"
                           /\ ValidRecord(n, memories'[n])
                      /\ memories[n].status = "superseded" =>
                           memories'[n] = memories[n]
    OBVIOUS
  <2>1. CASE n = t
    BY <1>1, <1>16, <1>17, <2>1
  <2>2. CASE n # t
    BY <1>8, <2>2 DEF RowKept, HistoryInv, RecordsSound, LiveRecordsValid
  <2> QED
    BY <2>1, <2>2
<1>19. HistoryInv' /\ RowsKept
  <2>1. /\ memories'[m].status # "deleted" /\ memories'[m].created <= clock
        /\ memories'[m].supersedes = t /\ memories'[m].created = k.now
    BY <1>7, <1>12, <1>13
  <2>2. /\ k.op \in OpIds \ Bound /\ Bound' = Bound \cup {k.op}
        /\ \A p \in Bound : operations'[p] = operations[p]
    BY <1>9 DEF Binds
  <2>3. /\ t \in Stored /\ memories[t].status = "active"
        /\ memories'[t].updated = k.now /\ k.now >= memories[t].created
    BY <1>1, <1>2, <1>3, <1>12, <1>16
  <2>4. ValidRecord(m, memories'[m])
    BY <1>7, <1>14
  <2> HIDE DEF row, t
  <2> QED
    BY <1>1, <1>8, <1>15, <1>18, <2>1, <2>2, <2>3, <2>4, HistoryWrite
<1>20. Answered(c, "done", {m})
  BY <1>1, <1>2, <1>4, <1>5, AnswerStep DEF Phases
<1>21. ClientSound(call[c])'
  <2>1. \A n \in {m} : /\ n \in Stored' /\ memories'[n].scope = q.scope
                       /\ memories'[n].content = q.value.content
                       /\ memories'[n].supersedes = q.target
    BY <1>7, <1>8, <1>13
  <2>2. q.target \in Stored' /\ memories'[q.target].created <= k.now
    BY <1>1, <1>8, <1>12, <1>16 DEF RowKept
  <2> HIDE DEF row
  <2> QED
    BY <1>1, <1>2, <1>12, <1>20, <2>1, <2>2
    DEF Answered, ClientSound, WriteSound, AcknowledgedHolds, InScope
<1> QED
  BY <1>19, <1>20, <1>21

\* A forget keeps the history and gives an answer that holds: what it names is
\* a sound tombstone, because it is not younger than the time it read.
LEMMA HistoryForget ==
  ASSUME IInv, HistoryInv, ClientsSound, NEW c \in Clients, Forget(c)
  PROVE  /\ HistoryInv' /\ RowsKept
         /\ \E result : /\ Answered(c, "done", result)
                        /\ ClientSound(call[c])'
<1> DEFINE k == call[c]
           q == k.request
           t == q.target
           l == memories[t].lineage
           count == Cardinality(LiveRevisions(l))
<1>1. /\ TypeOK /\ Running(c, "forget") /\ clock' = clock
      /\ k.op \notin Bound /\ t \in Stored /\ memories[t].scope = q.scope
      /\ \A m \in Lineage(l) : ValidRecord(m, memories[m])
      /\ memories' = ScrubMemories({l}, k.now)
      /\ operations' = [EraseBindings({l}) EXCEPT ![k.op] =
           NewOperation(q, t, l, count)]
      /\ Answer(c, "done", {t})
  BY DEF IInv, Forget, MayForget, InScope
<1>2. /\ k.now \in Nat /\ k.op \in OpIds /\ q.type = "forget" /\ k # NULL
      /\ q \in ForgetRequest /\ q \in WriteRequest
  BY <1>1, RunningType
<1>3. t \in MemIds /\ l \in MemIds /\ memories[t] \in Record /\ TombstonesEmpty
  BY <1>1, StoredType DEF Record, HistoryInv
<1>4. /\ operations'[k.op] = NewOperation(q, t, l, count)
      /\ \A p \in OpIds \ {k.op} : operations'[p] = EraseBindings({l})[p]
  BY <1>1, <1>2, EraseType
<1>5. Erases({l})
  <2>1. \A p \in Bound : operations'[p] = EraseBindings({l})[p]
    BY <1>1, <1>4 DEF Bound
  <2> QED
    BY <1>1, <2>1, EraseStep
<1>6. \A o \in Bound' \ Bound : o = k.op
  BY <1>4 DEF EraseBindings, Bound
<1>7. ClientSound(k)
  BY <1>2 DEF ClientsSound
<1>8. k.now <= clock /\ memories[t].created <= k.now /\ k.op \in Supplied
  BY <1>2, <1>7 DEF ClientSound, WriteSound
<1>9. memories'[t] = Scrubbed(memories[t], k.now)
  BY <1>1, <1>3 DEF ScrubMemories, Revisions
<1>10. ValidRecord(t, memories[t])
  BY <1>1 DEF Lineage, Revisions
<1>11. /\ ValidRecord(t, memories'[t]) /\ memories'[t].content = NULL
       /\ memories'[t].scope = q.scope
  <2>1. CASE memories[t].status = "deleted"
    BY <1>1, <1>3, <1>9, <1>10, <2>1 DEF Scrubbed, TombstonesEmpty
  <2>2. CASE memories[t].status # "deleted"
    <3> DEFINE s == [memories[t] EXCEPT !.status = "deleted", !.content = NULL,
                                        !.updated = k.now]
    <3>1. memories'[t] = s
      BY <1>9, <2>2 DEF Scrubbed
    <3>2. /\ s.status = "deleted" /\ s.content = NULL /\ s.updated = k.now
          /\ s.created = memories[t].created /\ s.revision = memories[t].revision
          /\ s.supersedes = memories[t].supersedes /\ s.scope = memories[t].scope
          /\ s.validFrom = memories[t].validFrom /\ s.validTo = memories[t].validTo
          /\ s.expires = memories[t].expires
      BY <1>3 DEF Record
    <3>3. memories[t].created \in Nat
      BY <1>3 DEF Record
    <3> HIDE DEF s
    <3> QED
      BY <1>1, <1>2, <1>8, <1>10, <3>1, <3>2, <3>3 DEF ValidRecord
  <2> QED
    BY <2>1, <2>2
<1>12. Fulfils(operations'[k.op], memories'[t]) /\ operations'[k.op].result = t
  BY <1>2, <1>4, <1>11 DEF Fulfils, NewOperation
<1>13. HistoryInv' /\ RowsKept
  <2> HIDE DEF t, l
  <2> QED
    BY <1>1, <1>2, <1>5, <1>6, <1>12, HistoryScrub
<1>14. Answered(c, "done", {t})
  BY <1>1, <1>2, <1>3, AnswerStep DEF Phases
<1>15. ClientSound(call[c])'
  <2>1. t \in Stored' /\ memories'[t].created <= k.now
    BY <1>1, <1>8, <1>13 DEF RowsKept, RowKept
  <2>2. \A n \in {t} : /\ n \in Stored' /\ memories'[n].scope = q.scope
                       /\ memories'[n].content = NULL
    BY <1>11, <2>1
  <2> QED
    BY <1>1, <1>2, <1>8, <1>14, <2>1, <2>2
    DEF Answered, ClientSound, WriteSound, AcknowledgedHolds, InScope
<1> QED
  BY <1>13, <1>14, <1>15

\* A binding that is replayed still says what the client asked for.
LEMMA HistoryReplay ==
  ASSUME IInv, HistoryInv, ClientsSound, NEW c \in Clients, Replay(c)
  PROVE  /\ HistoryInv' /\ RowsKept
         /\ \E result : /\ Answered(c, "replayed", result)
                        /\ ClientSound(call[c])'
<1> DEFINE k == call[c]
           q == k.request
           op == operations[k.op]
           m == op.result
<1>1. /\ TypeOK /\ OperationInv /\ k # NULL /\ clock' = clock
      /\ k.op \in Bound /\ op.digest = q /\ m \in Stored /\ memories[m].scope = q.scope
      /\ q.type \in {"remember", "correct", "forget"}
      /\ Answer(c, "replayed", {m})
  BY DEF IInv, Replay, MayReplay, Running
<1>2. /\ k.now \in Nat /\ q \in WriteRequest
  <2>1. PICK type \in {"remember", "correct", "forget"} : Running(c, type)
    BY DEF Replay
  <2> QED
    BY <1>1, <2>1, RunningType
<1>3. op \in Operation /\ q # NULL /\ m \in MemIds
  BY <1>1, <1>2, StoredType, SentinelAssumption DEF TypeOK, Bound
<1>4. ClientSound(k)
  BY <1>1 DEF ClientsSound
<1>5. /\ k.now <= clock /\ k.op \in Supplied
      /\ q.type \in {"correct", "forget"} =>
           q.target \in Stored /\ memories[q.target].created <= k.now
  <2>1. q.type # "recall"
    BY <1>1
  <2> QED
    BY <1>4, <2>1 DEF ClientSound, WriteSound
<1>6. Fulfils(op, memories[m])
  BY <1>1, <1>3, <1>5 DEF HistoryInv, BindingsFulfilled
<1>7. /\ HistoryInv' /\ RowsKept
      /\ op.type = "forget" => memories'[m] = memories[m]
  <2>1. CASE op.type # "forget"
    <3>1. UNCHANGED <<memories, operations>>
      BY <2>1 DEF Replay
    <3> QED
      BY <1>1, <2>1, <3>1, HistoryUnchanged, RecordTimes
  <2>2. CASE op.type = "forget"
    <3>1. /\ memories' = ScrubMemories({op.lineage}, k.now)
          /\ operations' = EraseBindings({op.lineage})
      BY <2>2 DEF Replay
    <3>2. Erases({op.lineage}) /\ Scrubs({op.lineage})
      BY <1>1, <1>2, <3>1, EraseStep, ScrubStep
    <3>3. Bound' \ Bound = {}
      BY <3>1 DEF Bound, EraseBindings
    <3>4. HistoryInv' /\ RowsKept
      <4> HIDE DEF op
      <4> QED
        BY <1>1, <1>2, <3>1, <3>2, <3>3, HistoryScrub
    <3>5. memories'[m] = memories[m]
      BY <1>1, <2>2, <3>2 DEF OperationInv, BindingsFollowContent, Scrubs
    <3> QED
      BY <3>4, <3>5
  <2> QED
    BY <2>1, <2>2
<1>8. Answered(c, "replayed", {m})
  BY <1>1, <1>3, AnswerStep DEF Phases
<1>9. RowKept(memories[m], memories'[m]) /\ m \in Stored'
  BY <1>1, <1>7 DEF RowsKept
<1>10. Fulfils(op, memories'[m])
  BY <1>3, <1>6, <1>7, <1>9, FulfilsKept
<1>11. /\ m \in Stored' /\ memories'[m].scope = q.scope
       /\ q.type = "correct" => memories'[m].supersedes = q.target
       /\ memories'[m].content \in
            (IF q.type = "forget" THEN {} ELSE {q.value.content}) \cup {NULL}
  <2>1. op.type = q.type /\ memories'[m].scope = q.scope
    BY <1>1, <1>10 DEF Fulfils
  <2>2. CASE q.type = "remember"
    BY <1>1, <1>9, <1>10, <2>1, <2>2 DEF Fulfils
  <2>3. CASE q.type = "correct"
    BY <1>1, <1>9, <1>10, <2>1, <2>3 DEF Fulfils
  <2>4. CASE q.type = "forget"
    <3>1. memories[m].status = "deleted"
      BY <1>1, <2>1, <2>4 DEF OperationInv, BindingsFollowContent
    <3>2. memories'[m].content = NULL
      BY <1>1, <1>7, <2>1, <2>4, <3>1 DEF HistoryInv, TombstonesEmpty
    <3> QED
      BY <1>9, <2>1, <2>4, <3>2
  <2> QED
    BY <1>1, <2>2, <2>3, <2>4
<1>12. q.type \in {"correct", "forget"} =>
         q.target \in Stored' /\ memories'[q.target].created <= k.now
  BY <1>5, <1>7 DEF RowsKept, RowKept
<1>13. ClientSound(call[c])'
  <2>1. \A n \in {m} :
          /\ n \in Stored' /\ memories'[n].scope = q.scope
          /\ q.type = "correct" => memories'[n].supersedes = q.target
          /\ memories'[n].content \in
               (IF q.type = "forget" THEN {} ELSE {q.value.content}) \cup {NULL}
    BY <1>11
  <2>2. /\ call'[c].request = q /\ call'[c].result = {m} /\ call'[c].now = k.now
        /\ call'[c].op = k.op /\ call'[c].phase = "replayed"
    BY <1>8 DEF Answered
  <2>3. AcknowledgedHolds(call[c])'
    BY <2>1, <2>2 DEF AcknowledgedHolds, InScope
  <2>4. q.type # "recall" /\ k.now <= clock'
    BY <1>1, <1>5
  <2> QED
    BY <1>5, <1>12, <2>2, <2>3, <2>4 DEF ClientSound, WriteSound
<1> QED
  BY <1>7, <1>8, <1>13

\* What a client was told and relies on survives the steps of others.
LEMMA ClientKept ==
  ASSUME TypeOK, RowsKept, clock' \in Nat, clock <= clock',
         NEW k \in Call, ClientSound(k)
  PROVE  ClientSound(k)'
<1>1. k.now \in Nat /\ k.result \in SUBSET MemIds /\ k.now <= clock'
  BY RecordTimes DEF Call, ClientSound
<1>2. \A m \in Stored : m \in Stored' /\ RowKept(memories[m], memories'[m])
  BY DEF RowsKept
<1>3. ASSUME k.request.type = "recall"
      PROVE  RecallSound(k)'
  BY <1>2, <1>3 DEF ClientSound, RecallSound, RecallCoherent, RowKept, InTime
<1>4. ASSUME k.request.type # "recall"
      PROVE  WriteSound(k)'
  <2>1. WriteSound(k)
    BY <1>4 DEF ClientSound
  <2>2. AcknowledgedHolds(k) => AcknowledgedHolds(k)'
    BY <1>2 DEF AcknowledgedHolds, InScope, RowKept
  <2> QED
    BY <1>2, <2>1, <2>2 DEF WriteSound, RowKept
<1> QED
  BY <1>1, <1>3, <1>4 DEF ClientSound

\* Clients stay sound when the records and the times are kept and at most one
\* of them starts a call, leaves or is answered.
LEMMA ClientsKept ==
  ASSUME TypeOK, RowsKept, clock' \in Nat, clock <= clock', ClientsSound,
         NEW c, \A d \in Clients \ {c} : call'[d] = call[d],
         c \in Clients /\ call'[c] # NULL => ClientSound(call[c])'
  PROVE  ClientsSound'
<1> SUFFICES ASSUME NEW d \in Clients, call'[d] # NULL
             PROVE  ClientSound(call[d])'
  BY DEF ClientsSound
<1>1. CASE d = c
  BY <1>1
<1>2. CASE d # c
  <2>1. PICK k : k = call[d]
    OBVIOUS
  <2>2. k \in Call /\ ClientSound(k) /\ call'[d] = k
    BY <1>2, <2>1 DEF TypeOK, ClientsSound
  <2>3. ClientSound(k)'
    BY <2>2, ClientKept
  <2> QED
    BY <2>2, <2>3
<1> QED
  BY <1>1, <1>2

\* A call that starts is sound: what it names is there, and not younger than
\* the clock it has just read.
LEMMA ClientStarts ==
  ASSUME TypeOK, HistoryInv, NEW c \in Clients,
         \/ CallRemember(c) \/ CallCorrect(c) \/ CallForget(c) \/ CallRecall(c)
  PROVE  /\ \A d \in Clients \ {c} : call'[d] = call[d]
         /\ ClientSound(call[c])'
<1>1. UNCHANGED <<memories, operations, clock>> /\ clock \in Nat
  BY DEF CallRemember, CallCorrect, CallForget, CallRecall, ledgerVars, TypeOK
<1>2. Stored' = Stored
  BY <1>1 DEF Stored
<1>3. ASSUME NEW o, NEW q, NEW phase, Start(c, o, q, phase)
      PROVE  /\ \A d \in Clients \ {c} : call'[d] = call[d]
             /\ call'[c].op = o /\ call'[c].request = q
             /\ call'[c].phase = phase /\ call'[c].now = clock
  BY <1>3 DEF Start, TypeOK
<1>4. CASE CallRecall(c)
  <2>1. PICK q \in RecallRequest, phase \in {"running", "refused"} :
          Start(c, NULL, q, phase)
    BY <1>4 DEF CallRecall
  <2>2. q.type = "recall"
    BY DEF RecallRequest
  <2> QED
    BY <1>1, <1>3, <2>1, <2>2 DEF ClientSound, RecallSound
<1>5. CASE CallRemember(c)
  <2>1. PICK o \in Supplied, q \in RememberRequest :
          Start(c, o, q, IF InTimeWindow(Normalize(q.value, clock), clock)
                         THEN "running" ELSE "refused")
    BY <1>5 DEF CallRemember
  <2>2. q.type = "remember"
    BY DEF RememberRequest
  <2>3. /\ call'[c].op = o /\ call'[c].request = q /\ call'[c].now = clock
        /\ call'[c].phase = IF InTimeWindow(Normalize(q.value, clock), clock)
                            THEN "running" ELSE "refused"
        /\ \A d \in Clients \ {c} : call'[d] = call[d]
    BY <1>3, <2>1
  <2> QED
    BY <1>1, <2>2, <2>3 DEF ClientSound, WriteSound
<1>6. CASE CallCorrect(c) \/ CallForget(c)
  <2>1. PICK o \in Supplied, q \in CorrectRequest \cup ForgetRequest :
          q.target \in Stored /\ Start(c, o, q, "running")
    BY <1>6 DEF CallCorrect, CallForget
  <2>2. q.type \in {"correct", "forget"}
    BY DEF CorrectRequest, ForgetRequest
  <2>3. memories[q.target].created <= clock
    BY <2>1 DEF HistoryInv, RecordsDated
  <2>4. /\ call'[c].op = o /\ call'[c].request = q /\ call'[c].now = clock
        /\ call'[c].phase = "running"
        /\ \A d \in Clients \ {c} : call'[d] = call[d]
    BY <1>3, <2>1
  <2> QED
    BY <1>1, <1>2, <2>1, <2>2, <2>3, <2>4 DEF ClientSound, WriteSound
<1> QED
  BY <1>4, <1>5, <1>6

\* A recall of active memories finds at most one revision of a lineage, because
\* a lineage has at most one head when it is read.
LEMMA ClientRecalls ==
  ASSUME IInv, ClientsSound, NEW c \in Clients, Recall(c)
  PROVE  /\ \A d \in Clients \ {c} : call'[d] = call[d]
         /\ ClientSound(call[c])'
<1> DEFINE k == call[c]
           filter == k.request.value
           matches == Matches(k.request, k.now)
<1>1. /\ TypeOK /\ MemoryInv /\ Running(c, "recall")
      /\ UNCHANGED <<memories, operations, clock>>
  BY DEF IInv, Recall, ledgerVars
<1>2. k # NULL /\ k.request.type = "recall" /\ k.now <= clock
  BY <1>1 DEF Running, ClientsSound, ClientSound
<1>3. PICK found \in SUBSET matches, phase \in {"done", "refused"} :
        Answer(c, phase, IF phase = "done" THEN found ELSE {})
  BY DEF Recall
<1>4. found \in SUBSET MemIds
  BY <1>3 DEF Matches, Stored
<1>5. Answered(c, phase, IF phase = "done" THEN found ELSE {})
  BY <1>1, <1>2, <1>3, <1>4, AnswerStep DEF Phases
<1>6. \A m \in found : /\ m \in Stored /\ memories[m].scope = k.request.scope
                       /\ Passes(memories[m], filter, k.now)
  BY DEF Matches, InScope
<1>7. filter.status = "active" =>
        \A m, n \in found : memories[m].lineage = memories[n].lineage => m = n
  BY <1>1, <1>6 DEF MemoryInv, OneHead, Passes
<1>8. Stored' = Stored
  BY <1>1 DEF Stored
<1>9. RecallSound(call[c])'
  BY <1>1, <1>5, <1>6, <1>7, <1>8
  DEF Answered, RecallSound, RecallCoherent, Passes
<1> QED
  BY <1>1, <1>2, <1>5, <1>9 DEF Answered, ClientSound

\* Every step keeps the history, what it stored, and what clients were told.
LEMMA HistoryStep ==
  ASSUME IInv, HistoryInv, ClientsSound, [Next]_vars
  PROVE  HistoryInv' /\ RowsKept /\ ClientsSound'
<1>1. TypeOK /\ TypeOK'
  BY TypeStep DEF IInv
<1>2. clock \in Nat /\ clock' \in Nat
  BY <1>1 DEF TypeOK
<1>3. CASE UNCHANGED vars \/ Tick
  <2>1. UNCHANGED <<memories, operations, call>> /\ clock <= clock'
    BY <1>2, <1>3 DEF vars, Tick, ledgerVars
  <2>2. HistoryInv' /\ RowsKept
    BY <1>1, <1>2, <2>1, HistoryUnchanged
  <2>3. PICK c : c \notin Clients
    BY NoSetContainsEverything
  <2> QED
    BY <1>1, <1>2, <2>1, <2>2, <2>3, ClientsKept
<1>4. ASSUME NEW c \in Clients,
             \/ CallRemember(c) \/ CallCorrect(c) \/ CallForget(c)
             \/ CallRecall(c) \/ Recall(c) \/ Refuse(c) \/ Leave(c)
      PROVE  HistoryInv' /\ RowsKept /\ ClientsSound'
  <2>1. UNCHANGED <<memories, operations, clock>>
    BY <1>4 DEF CallRemember, CallCorrect, CallForget, CallRecall, Recall, Refuse,
                Leave, ledgerVars
  <2>2. HistoryInv' /\ RowsKept /\ clock <= clock'
    BY <1>1, <1>2, <2>1, HistoryUnchanged
  <2>3. /\ \A d \in Clients \ {c} : call'[d] = call[d]
        /\ call'[c] # NULL => ClientSound(call[c])'
    <3>1. CASE Leave(c)
      BY <1>1, <3>1 DEF Leave, TypeOK
    <3>2. CASE Refuse(c)
      <4>1. PICK type : Running(c, type)
        BY <3>2 DEF Refuse
      <4>2. Answered(c, "refused", {})
        BY <1>1, <3>2, <4>1, AnswerStep DEF Refuse, Running, Phases
      <4>3. ClientSound(call[c])
        BY <4>1 DEF Running, ClientsSound
      <4>4. Stored' = Stored
        BY <2>1 DEF Stored
      <4> QED
        BY <2>1, <4>2, <4>3, <4>4 DEF Answered, ClientSound, WriteSound, RecallSound
    <3> QED
      BY <1>1, <1>4, <3>1, <3>2, ClientStarts, ClientRecalls
  <2> QED
    BY <1>1, <1>2, <2>2, <2>3, ClientsKept
<1>5. ASSUME NEW c \in Clients,
             Remember(c) \/ Correct(c) \/ Forget(c) \/ Replay(c)
      PROVE  HistoryInv' /\ RowsKept /\ ClientsSound'
  <2>1. /\ HistoryInv' /\ RowsKept
        /\ \E phase, result : /\ Answered(c, phase, result)
                              /\ ClientSound(call[c])'
    BY <1>5, HistoryRemember, HistoryCorrect, HistoryForget, HistoryReplay
  <2>2. UNCHANGED clock
    BY <1>5 DEF Remember, Correct, Forget, Replay
  <2>3. clock <= clock'
    BY <1>2, <2>2
  <2> QED
    BY <1>1, <1>2, <2>1, <2>3, ClientsKept DEF Answered
<1> QED
  BY <1>3, <1>4, <1>5 DEF Next, Client

\* The empty ledger, with no client calling, has a sound history.
LEMMA HistoryInit == Init => HistoryInv /\ ClientsSound
<1> SUFFICES ASSUME Init PROVE HistoryInv /\ ClientsSound
  OBVIOUS
<1>1. Stored = {} /\ Bound = {} /\ \A c \in Clients : call[c] = NULL
  BY DEF Init, Stored, Bound
<1> QED
  BY <1>1 DEF HistoryInv, ClientsSound, TombstonesEmpty, RecordsDated, RecordsSound,
     ChainTimes, LiveRecordsValid, BindingsFulfilled

\* The history is sound in every reachable state.
LEMMA HistoryInvariance == Spec => [](IInv /\ HistoryInv /\ ClientsSound)
<1>1. Init => IInv /\ HistoryInv /\ ClientsSound
  BY InvariantInit, HistoryInit
<1>2. IInv /\ HistoryInv /\ ClientsSound /\ [Next]_vars =>
        (IInv /\ HistoryInv /\ ClientsSound)'
  BY InvariantStep, HistoryStep
<1> QED
  BY <1>1, <1>2, PTL DEF Spec

\* Stale clocks leave no record that a later call could not make sense of.
THEOREM RecordsSoundCorrect == Spec => []RecordsSound
<1>1. HistoryInv => RecordsSound
  BY DEF HistoryInv
<1> QED
  BY <1>1, HistoryInvariance, PTL

\* Sound clients hold answers that hold.
LEMMA AnswersOfSound ==
  ASSUME ClientsSound
  PROVE  AnswersHold
BY DEF ClientsSound, ClientSound, WriteSound, RecallSound, AnswersHold

\* Whatever clients were answered stays true, whatever the others do.
THEOREM AnswersHoldCorrect == Spec => []AnswersHold
<1>1. ClientsSound => AnswersHold
  BY AnswersOfSound
<1> QED
  BY <1>1, HistoryInvariance, PTL

\* A binding that a client repeats exactly can be replayed: it was not erased,
\* and its result still passes every check.
LEMMA ExactRetryReplays ==
  ASSUME IInv, HistoryInv, NEW k, k.request \in WriteRequest, k.op \in Supplied,
         ExactRetry(k)
  PROVE  MayReplay(k)
<1> DEFINE op == operations[k.op]
           m == op.result
           r == memories[m]
<1>1. /\ TypeOK /\ OperationInv /\ k.op \in Bound /\ op.digest = k.request
  BY DEF IInv, ExactRetry
<1>2. op \in Operation /\ op.digest # NULL
  BY <1>1, SentinelAssumption DEF TypeOK, Bound
<1>3. op.type \in {"remember", "correct", "forget"}
  BY <1>2 DEF Operation
<1>4. m \in Stored /\ op.lineage = r.lineage
  BY <1>1 DEF OperationInv, ResultsFiled
<1>5. Fulfils(op, r)
  BY <1>1, <1>2 DEF HistoryInv, BindingsFulfilled
<1>6. ValidRecord(m, r)
  <2>1. CASE op.type = "forget"
    BY <1>5, <2>1 DEF Fulfils
  <2>2. CASE op.type # "forget"
    <3>1. r.status # "deleted"
      BY <1>1, <1>2, <2>2 DEF OperationInv, BindingsFollowContent
    <3> QED
      BY <1>4, <3>1 DEF HistoryInv, RecordsSound, LiveRecordsValid
  <2> QED
    BY <2>1, <2>2
<1>7. /\ r.scope = k.request.scope
      /\ CASE op.type = "remember" -> r.revision = 1
           [] op.type = "correct"  -> r.supersedes = k.request.target
           [] op.type = "forget"   -> m = k.request.target
  <2>1. r.scope = k.request.scope
    BY <1>1, <1>5 DEF Fulfils
  <2>2. CASE op.type = "remember"
    BY <1>1, <1>5, <2>1, <2>2 DEF Fulfils
  <2>3. CASE op.type = "correct"
    BY <1>1, <1>5, <2>1, <2>3 DEF Fulfils
  <2>4. CASE op.type = "forget"
    BY <1>1, <1>5, <2>1, <2>4 DEF Fulfils
  <2> QED
    BY <1>3, <2>2, <2>3, <2>4
<1> QED
  BY <1>1, <1>4, <1>6, <1>7 DEF MayReplay

\* What a transaction refuses is no retry.
LEMMA RefusedNoRetry ==
  ASSUME IInv, HistoryInv, ClientsSound, NEW c \in Clients, Refuse(c)
  PROVE  ~ExactRetry(call[c])
<1> DEFINE k == call[c]
<1>1. PICK type \in {"remember", "correct", "forget"} : Running(c, type)
  BY DEF Refuse
<1>2. k # NULL /\ k.request \in WriteRequest /\ ~MayReplay(k)
  BY <1>1, RunningType DEF IInv, Refuse
<1>3. k.op \in Supplied
  BY <1>1, <1>2 DEF Running, ClientsSound, ClientSound, WriteSound
<1> QED
  BY <1>2, <1>3, ExactRetryReplays

\* A step that refuses a correct or a forget does not refuse a retry.
LEMMA RetriesReplayStep ==
  ASSUME IInv, HistoryInv, ClientsSound, [Next]_vars, NEW c \in Clients,
         IsRefused(c), call'[c].request.type \in {"correct", "forget"}
  PROVE  ~ExactRetry(call'[c])
<1>1. TypeOK
  BY DEF IInv
<1>2. Refuse(c)
  <2>1. ~UNCHANGED call
    BY DEF IsRefused
  <2>2. PICK d \in Clients : Client(d)
    BY <2>1 DEF Next, vars, Tick
  <2>3. ASSUME Leave(d)
        PROVE  FALSE
    BY <1>1, <2>3 DEF Leave, TypeOK, IsRefused
  <2>4. ASSUME CallRemember(d) \/ CallCorrect(d) \/ CallForget(d) \/ CallRecall(d)
        PROVE  FALSE
    <3>1. PICK o, q, phase :
            /\ Start(d, o, q, phase)
            /\ phase = "refused" => q \in RememberRequest \cup RecallRequest
      BY <2>4 DEF CallRemember, CallCorrect, CallForget, CallRecall
    <3>2. /\ \A e \in Clients \ {d} : call'[e] = call[e]
          /\ call'[d].request = q /\ call'[d].phase = phase
      BY <1>1, <3>1 DEF Start, TypeOK
    <3>3. c = d
      BY <3>2 DEF IsRefused
    <3> QED
      BY <3>1, <3>2, <3>3 DEF IsRefused, RememberRequest, RecallRequest
  <2>5. ASSUME Remember(d) \/ Correct(d) \/ Forget(d) \/ Replay(d)
        PROVE  FALSE
    <3>1. \E phase \in {"done", "replayed"} : \E result : Answer(d, phase, result)
      BY <2>5 DEF Remember, Correct, Forget, Replay
    <3>2. call[d] # NULL /\ call[d] \in Call
      BY <1>1, <2>5 DEF Remember, Correct, Forget, Replay, Running, TypeOK
    <3>3. /\ call'[d].phase \in {"done", "replayed"}
          /\ \A e \in Clients \ {d} : call'[e] = call[e]
      BY <1>1, <3>1, <3>2 DEF Answer, TypeOK, Call
    <3> QED
      BY <3>3 DEF IsRefused
  <2>6. ASSUME Recall(d)
        PROVE  FALSE
    <3>1. call[d] # NULL /\ call[d] \in Call /\ call[d].request.type = "recall"
      BY <1>1, <2>6 DEF Recall, Running, TypeOK
    <3>2. \E phase, result : Answer(d, phase, result)
      BY <2>6 DEF Recall
    <3>3. /\ call'[d].request = call[d].request
          /\ \A e \in Clients \ {d} : call'[e] = call[e]
      BY <1>1, <3>1, <3>2 DEF Answer, TypeOK, Call
    <3> QED
      BY <3>1, <3>3 DEF IsRefused
  <2>7. Refuse(d)
    BY <2>2, <2>3, <2>4, <2>5, <2>6 DEF Client
  <2>8. c = d
    BY <1>1, <2>7 DEF Refuse, Answer, TypeOK, IsRefused
  <2> QED
    BY <2>7, <2>8
<1>3. ~ExactRetry(call[c])
  BY <1>2, RefusedNoRetry
<1>4. call'[c].op = call[c].op /\ call'[c].request = call[c].request
  <2>1. PICK type : Running(c, type)
    BY <1>2 DEF Refuse
  <2> QED
    BY <1>1, <1>2, <2>1, AnswerStep DEF Refuse, Running, Answered, Phases
<1> QED
  BY <1>3, <1>4 DEF ExactRetry

\* Retrying a committed correct or forget is never refused.
THEOREM RetriesReplayCorrect == Spec => CorrectAndForgetRetriesReplay
<1>1. IInv /\ HistoryInv /\ ClientsSound /\ [Next]_vars =>
        [\A c \in Clients :
           IsRefused(c) /\ call'[c].request.type \in {"correct", "forget"} =>
             ~ExactRetry(call'[c])]_vars
  BY RetriesReplayStep
<1> QED
  BY <1>1, HistoryInvariance, PTL DEF Spec, CorrectAndForgetRetriesReplay

\* No transaction refuses a retry, not even of a remember: a retried remember
\* is refused only by the check that runs before it opens the ledger.
THEOREM TransactionsReplayRetries ==
  Spec => [][\A c \in Clients : Refuse(c) => ~ExactRetry(call[c])]_vars
<1>1. IInv /\ HistoryInv /\ ClientsSound /\ [Next]_vars =>
        [\A c \in Clients : Refuse(c) => ~ExactRetry(call[c])]_vars
  BY RefusedNoRetry
<1> QED
  BY <1>1, HistoryInvariance, PTL DEF Spec

=============================================================================
