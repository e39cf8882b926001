--------------------------- MODULE AuthoringProofs ---------------------------
(***************************************************************************)
(* Proofs that, for any number of authors, batches, operations and         *)
(* crashes, at most one claim is outstanding and every Entry is attributed *)
(* once, that a claim is covered by the budget when it appears, and that   *)
(* the Workspace keeps up with the receipts and nothing takes it back,     *)
(* although every call writes on the strength of files that it read        *)
(* earlier.                                                                *)
(***************************************************************************)
EXTENDS Authoring, FiniteSetTheorems, TLAPS

\* What call k is going to write is a document of its file's kind.
ResultFor(b, d) ==
  /\ d \in ResultDocument
  /\ \A e \in DOMAIN d.bindings : Cites(d.bindings[e], b)

Fitting(k) ==
  /\ \A b \in Batches :
       /\ k.file = Claim(b) => k.document = [batch |-> b]
       /\ k.file = Result(b) => ResultFor(b, k.document)
  /\ \A o \in Ops :
       /\ k.file = Budget(o) => k.document \in Nat \ {0}
       /\ k.file = Amendment(o) => k.document \in AmendmentDocument

Shaped(k) ==
  k = [phase |-> k.phase, file |-> k.file, document |-> k.document, seen |-> k.seen]

\* What call k saw when it decided, as far as it still holds.  The results
\* that a claim follows are never taken back.  Nothing is attributed while the
\* result that a call is to write is missing, since no batch but its own is
\* outstanding.
Founded(k) ==
  \A b \in Batches :
    /\ k.file = Claim(b) => \A c \in 1..(b - 1) : Written(Result(c))
    /\ k.file = Result(b) =>
         /\ files[Claim(b)] # NULL
         /\ ~Written(Result(b)) =>
              /\ DOMAIN k.document.bindings \cap Owned = {}
              /\ Cardinality(Owned) + Cardinality(DOMAIN k.document.bindings)
                   <= MaxEntries

CallSound(k) ==
  /\ Shaped(k) /\ k.phase \in Phases /\ k.file \in Files
  /\ k.phase \in {"decided", "created"} => Fitting(k) /\ Founded(k)
  /\ k.phase \in {"appended", "staged", "checked"} => k.document \in AmendmentDocument

\* A file is written by the process that created it.
Creators ==
  /\ \A a \in Authors : At(a, "created") => files[call[a].file] = Torn
  /\ \A a, b \in Authors :
       At(a, "created") /\ At(b, "created") /\ call[a].file = call[b].file => a = b

\* The batches are worked through in their order.
Ordered(n) ==
  /\ Claimed = 1..n
  /\ Recorded \subseteq Claimed
  /\ \A c \in 1..(n - 1) : Written(Result(c))

AuthoringInv ==
  /\ AuthoringTypeOK
  /\ DOMAIN entries = Entries /\ call = [a \in Authors |-> call[a]]
  /\ \A a \in Authors : call[a] # NULL => CallSound(call[a])
  /\ Creators
  /\ \E n \in Nat : Ordered(n)
  /\ AttributionSound

-----------------------------------------------------------------------------
(* File names.                                                             *)

\* A name tells its kind and whose it is.
LEMMA Names ==
  /\ \A b, c : Claim(b) = Claim(c) => b = c
  /\ \A b, c : Result(b) = Result(c) => b = c
  /\ \A o, q : Budget(o) = Budget(q) => o = q
  /\ \A o, q : Amendment(o) = Amendment(q) => o = q
  /\ \A b, c : Claim(b) # Result(c)
  /\ \A b, o : Claim(b) # Budget(o) /\ Claim(b) # Amendment(o)
  /\ \A b, o : Result(b) # Budget(o) /\ Result(b) # Amendment(o)
  /\ \A o, q : Budget(o) # Amendment(q)
  /\ \A b : PlanFile # Claim(b) /\ PlanFile # Result(b)
  /\ \A o : PlanFile # Budget(o) /\ PlanFile # Amendment(o)
  /\ \A b : SourceFile # Claim(b) /\ SourceFile # Result(b)
  /\ \A o : SourceFile # Budget(o) /\ SourceFile # Amendment(o)
BY DEF Claim, Result, Budget, Amendment, PlanFile, SourceFile

\* The names of the files, by kind.
LEMMA Kinds ==
  /\ SourceFile \in Files /\ PlanFile \in Files
  /\ \A b \in Batches : Claim(b) \in Files /\ Result(b) \in Files
  /\ \A o \in Ops : Budget(o) \in Files /\ Amendment(o) \in Files
  /\ \A f \in Files : f[1] = "amendment" => \E o \in Ops : f = Amendment(o)
BY DEF Files, Claim, Result, Budget, Amendment, PlanFile, SourceFile

\* Batches are counted from one.
LEMMA BatchesNat == Batches \subseteq Nat \ {0} /\ BatchCount \in Int
BY SizeAssumption DEF Batches, BatchCount

\* A result document by its fields.
LEMMA ResultFields ==
  ASSUME NEW d \in ResultDocument
  PROVE  /\ d.used \in Nat
         /\ DOMAIN d.bindings \subseteq Entries
         /\ \A e \in DOMAIN d.bindings : d.bindings[e] \in Content
         /\ d # NULL /\ d # Torn
<1>1. PICK es \in SUBSET Entries : d \in ResultOf(es)
  BY DEF ResultDocument
<1>2. d.bindings \in [es -> Content] /\ d.used \in Nat
  BY <1>1 DEF ResultOf
<1>3. d # NULL /\ d # Torn
  BY <1>1, SentinelAssumption
<1> QED BY <1>2, <1>3

\* A claim document is neither missing nor torn.
LEMMA ClaimFields ==
  ASSUME NEW b \in Batches
  PROVE  [batch |-> b] # NULL /\ [batch |-> b] # Torn
BY SentinelAssumption DEF ClaimDocument

\* Entries that are attributed are Entries, and finitely many.
LEMMA OwnedFinite ==
  ASSUME AuthoringTypeOK
  PROVE  /\ Owned \subseteq Entries /\ IsFiniteSet(Owned)
         /\ Cardinality(Owned) \in Nat
<1>1. Owned \subseteq Entries BY DEF AuthoringTypeOK, Owned
<1>2. IsFiniteSet(Owned) BY <1>1, SizeAssumption, FS_Subset
<1> QED BY <1>1, <1>2, FS_CardinalityType

-----------------------------------------------------------------------------
(* Frames.                                                                 *)

\* A step that changes no file: a new or continued call has to be sound.
LEMMA CallMoves ==
  ASSUME AuthoringInv, NEW a \in Authors, NEW k, UNCHANGED files,
         call' = [call EXCEPT ![a] = k],
         k # NULL => CallSound(k) /\ k.phase # "created",
         DOMAIN entries' = Entries,
         \A e \in Entries : entries'[e] # NULL => entries'[e] \in Content,
         litter' \in BOOLEAN, crashes' \in 0..MaxCrashes
  PROVE  AuthoringInv'
<1> USE DEF AuthoringInv
<1>1. /\ call' = [b \in Authors |-> call'[b]]
      /\ \A b \in Authors : call'[b] = IF b = a THEN k ELSE call[b]
  OBVIOUS
<1>2. /\ \A f : Written(f)' <=> Written(f)
      /\ Claimed' = Claimed /\ Recorded' = Recorded /\ Results' = Results
      /\ Amended' = Amended
  BY DEF Written, Claimed, Recorded, Results, Amended
<1>3. Owned' = Owned /\ \A b \in Results : Bound(b)' = Bound(b)
  BY <1>2 DEF Owned, Bound
<1>4. \A b \in Authors : call'[b] # NULL => CallSound(call[b])'
  <2> SUFFICES ASSUME NEW b \in Authors, call'[b] # NULL
               PROVE  CallSound(call[b])'
    OBVIOUS
  <2>1. CallSound(call'[b]) BY <1>1
  <2> DEFINE m == call'[b]
  <2>2. Founded(m) => Founded(call[b])'
    BY <1>2, <1>3 DEF Founded
  <2> QED BY <2>1, <2>2 DEF CallSound, Fitting, Shaped
<1>5. AuthoringTypeOK'
  <2>1. \A b \in Authors : call'[b] # NULL =>
          call'[b].phase \in Phases /\ call'[b].file \in Files
    BY <1>1 DEF CallSound
  <2>2. /\ DOMAIN files' = Files
        /\ \A o \in Ops : Written(Budget(o))' => files'[Budget(o)] \in Nat \ {0}
        /\ \A o \in Amended' : files'[Amendment(o)] \in AmendmentDocument
    BY <1>2 DEF AuthoringTypeOK
  <2>3. \A b \in Results' : /\ files'[Result(b)].used \in Nat
                            /\ Bound(b)' \subseteq Entries
                            /\ \A e \in Bound(b)' :
                                 files'[Result(b)].bindings[e] \in Content
    BY <1>2, <1>3 DEF AuthoringTypeOK
  <2> QED BY <2>1, <2>2, <2>3 DEF AuthoringTypeOK
<1>6. Creators'
  <2>1. \A b \in Authors : At(b, "created")' => b # a /\ At(b, "created")
    BY <1>1 DEF At
  <2> QED BY <1>1, <2>1 DEF Creators
<1>7. \E n \in Nat : Ordered(n)'
  BY <1>2 DEF Ordered
<1>8. AttributionSound'
  BY <1>2, <1>3 DEF AttributionSound, AttributedOnce
<1> QED BY <1>1, <1>4, <1>5, <1>6, <1>7, <1>8

\* What an author's own call is.
LEMMA OwnCall ==
  ASSUME AuthoringInv, NEW a \in Authors, call[a] # NULL
  PROVE  CallSound(call[a])
BY DEF AuthoringInv

\* A call that ends.
LEMMA EndKeeps ==
  ASSUME AuthoringInv, NEW a \in Authors, UNCHANGED <<files, entries>>, End(a),
         litter' \in BOOLEAN, crashes' \in 0..MaxCrashes
  PROVE  AuthoringInv'
<1>1. /\ DOMAIN entries' = Entries
      /\ \A e \in Entries : entries'[e] # NULL => entries'[e] \in Content
  BY DEF AuthoringInv, AuthoringTypeOK
<1>2. call' = [call EXCEPT ![a] = NULL] BY DEF End
<1> QED BY <1>1, <1>2, CallMoves

\* A call that starts or goes on.
LEMMA CallKeeps ==
  ASSUME AuthoringInv, NEW a \in Authors, NEW k,
         UNCHANGED <<files, entries, litter, crashes>>,
         call' = [call EXCEPT ![a] = k], CallSound(k), k.phase # "created"
  PROVE  AuthoringInv'
<1>1. /\ DOMAIN entries' = Entries
      /\ \A e \in Entries : entries'[e] # NULL => entries'[e] \in Content
      /\ litter' \in BOOLEAN /\ crashes' \in 0..MaxCrashes
  BY DEF AuthoringInv, AuthoringTypeOK
<1> QED BY <1>1, CallMoves

\* A decision, as a record.
LEMMA CallRecordOf ==
  ASSUME NEW a \in Authors, NEW phase \in Phases, NEW file \in Files,
         NEW document, NEW seen, Call(a, phase, file, document, seen)
  PROVE  \E k : /\ call' = [call EXCEPT ![a] = k] /\ Shaped(k)
                /\ k.phase = phase /\ k.file = file /\ k.document = document
<1> DEFINE k == [phase |-> phase, file |-> file, document |-> document, seen |-> seen]
<1>1. /\ k.phase = phase /\ k.file = file /\ k.document = document
      /\ Shaped(k)
  BY DEF Shaped
<1>2. call' = [call EXCEPT ![a] = k] BY DEF Call
<1> QED BY <1>1, <1>2

-----------------------------------------------------------------------------
(* The decisions.                                                          *)

\* Progress that can be read has no torn file.
LEMMA Whole ==
  ASSUME Readable, NEW f \in Files, files[f] # NULL
  PROVE  Written(f)
BY DEF Readable, Written

\* A call to plan.
LEMMA PlanKeeps ==
  ASSUME AuthoringInv, NEW a \in Authors, CallPlan(a) PROVE AuthoringInv'
<1>0. PICK file \in {SourceFile, PlanFile} : \E d : Call(a, "decided", file, d, NULL)
  BY DEF CallPlan
<1>1. PICK d : Call(a, "decided", file, d, NULL)
  BY <1>0
<1>2. file \in Files /\ "decided" \in Phases BY Kinds DEF Phases
<1>3. PICK k : /\ call' = [call EXCEPT ![a] = k] /\ Shaped(k)
               /\ k.phase = "decided" /\ k.file = file
  BY <1>1, <1>2, CallRecordOf
<1>4. Fitting(k) /\ Founded(k) BY <1>3, Names DEF Fitting, Founded
<1>5. CallSound(k) BY <1>2, <1>3, <1>4 DEF CallSound
<1> QED BY <1>3, <1>5, CallKeeps DEF CallPlan

\* The lowest pending batch follows recorded ones only.
LEMMA NextKeeps ==
  ASSUME AuthoringInv, NEW a \in Authors, CallNext(a) PROVE AuthoringInv'
<1>1. PICK b \in Pending :
        MayClaim(b) /\ Call(a, "decided", Claim(b), [batch |-> b], NULL)
  BY DEF CallNext
<1>2. b \in Batches /\ Claim(b) \in Files /\ "decided" \in Phases
  BY <1>1, Kinds DEF Pending, Phases
<1>3. PICK n \in Nat : Ordered(n) BY DEF AuthoringInv
<1>4. Claimed = 1..n /\ Recorded = 1..n
  BY <1>1, <1>3 DEF MayClaim, Outstanding, Ordered
<1>5. \A c \in Pending : b <= c
  <2>1. \A c : c \in Pending <=> c \in Batches /\ c > n
    <3>1. \A c \in Batches : c \in Nat \ {0} BY BatchesNat
    <3>2. \A c \in Batches : c \in 1..n <=> ~(c > n) BY <3>1
    <3> QED BY <1>4, <3>2 DEF Pending
  <2>2. n + 1 \in Pending /\ \A c \in Pending : n + 1 <= c
    BY <1>1, <2>1, BatchesNat DEF Batches
  <2>3. b = CHOOSE x \in Pending : \A y \in Pending : x <= y
    BY <1>1 DEF MayClaim, Min
  <2> QED BY <2>2, <2>3
<1>6. \A c \in 1..(b - 1) : Written(Result(c))
  <2> SUFFICES ASSUME NEW c \in 1..(b - 1) PROVE Written(Result(c))
    OBVIOUS
  <2>1. c \in Batches /\ ~(b <= c) BY <1>2, BatchesNat DEF Batches
  <2>2. files[Result(c)] # NULL
    BY <2>1, <1>5 DEF Pending, Recorded
  <2>3. Result(c) \in Files BY <2>1, Kinds
  <2> QED BY <1>1, <2>2, <2>3, Whole DEF MayClaim
<1>7. PICK k : /\ call' = [call EXCEPT ![a] = k] /\ Shaped(k)
               /\ k.phase = "decided" /\ k.file = Claim(b)
               /\ k.document = [batch |-> b]
  BY <1>1, <1>2, CallRecordOf
<1>8. Fitting(k) /\ Founded(k) BY <1>6, <1>7, Names DEF Fitting, Founded
<1>9. CallSound(k) BY <1>2, <1>7, <1>8 DEF CallSound
<1> QED BY <1>7, <1>9, CallKeeps DEF CallNext

\* A call to record: its batch is claimed, and owns what it reports.
LEMMA RecordKeeps ==
  ASSUME AuthoringInv, NEW a \in Authors, CallRecord(a) PROVE AuthoringInv'
<1>0. PICK r \in Reports :
        /\ MayRecord(r)
        /\ Call(a, "decided", Result(r.batch),
                [used |-> r.used, bindings |-> [e \in r.entries |-> entries[e]]],
                NULL)
  BY DEF CallRecord
<1>1. PICK d :
        /\ MayRecord(r)
        /\ d = [used |-> r.used, bindings |-> [e \in r.entries |-> entries[e]]]
        /\ Call(a, "decided", Result(r.batch), d, NULL)
  BY <1>0
<1>2. r.batch \in Batches /\ r.used \in Nat /\ r.entries \in SUBSET Entries
  BY RequestAssumption
<1>3. Result(r.batch) \in Files /\ "decided" \in Phases
  BY <1>2, Kinds DEF Phases
<1>4. \A e \in r.entries : entries[e] \in Content /\ Cites(entries[e], r.batch)
  BY <1>1, <1>2 DEF MayRecord, AuthoringInv, AuthoringTypeOK
<1>5. /\ d \in ResultOf(r.entries)
      /\ DOMAIN d.bindings = r.entries
      /\ \A e \in r.entries : d.bindings[e] = entries[e]
  BY <1>1, <1>2, <1>4 DEF ResultOf
<1>6. ResultFor(r.batch, d)
  BY <1>2, <1>4, <1>5 DEF ResultFor, ResultDocument
<1>7. PICK k : /\ call' = [call EXCEPT ![a] = k] /\ Shaped(k)
               /\ k.phase = "decided" /\ k.file = Result(r.batch)
               /\ k.document = d
  <2>1. Call(a, "decided", Result(r.batch), d, NULL) BY <1>1
  <2> QED BY <1>3, <2>1, CallRecordOf
<1>8. Fitting(k) BY <1>6, <1>7, Names DEF Fitting
<1>9. Founded(k)
  <2>1. /\ files[Claim(r.batch)] # NULL
        /\ r.entries \cap Owned = {}
        /\ Cardinality(Owned) + Cardinality(r.entries) <= MaxEntries
    BY <1>1 DEF MayRecord, Outstanding, Claimed
  <2> QED BY <1>5, <1>7, <2>1, Names DEF Founded
<1>10. CallSound(k) BY <1>3, <1>7, <1>8, <1>9 DEF CallSound
<1> QED BY <1>7, <1>10, CallKeeps DEF CallRecord

\* A call to add-budget.
LEMMA ExtendKeeps ==
  ASSUME AuthoringInv, NEW a \in Authors, CallExtend(a) PROVE AuthoringInv'
<1>1. PICK x \in Extensions : Call(a, "decided", Budget(x.op), x.added, NULL)
  BY DEF CallExtend
<1>2. x.op \in Ops /\ x.added \in Nat \ {0} BY RequestAssumption
<1>3. Budget(x.op) \in Files /\ "decided" \in Phases BY <1>2, Kinds DEF Phases
<1>4. PICK k : /\ call' = [call EXCEPT ![a] = k] /\ Shaped(k)
               /\ k.phase = "decided" /\ k.file = Budget(x.op)
               /\ k.document = x.added
  BY <1>1, <1>3, CallRecordOf
<1>5. Fitting(k) /\ Founded(k) BY <1>2, <1>4, Names DEF Fitting, Founded
<1>6. CallSound(k) BY <1>3, <1>4, <1>5 DEF CallSound
<1> QED BY <1>4, <1>6, CallKeeps DEF CallExtend

\* A chain that can be read has a last amendment.
LEMMA LastOfChain ==
  ASSUME NEW e \in Entries, Continuous(e), Chain(e) # {}
  PROVE  LastOf(e) \in Ops
<1>1. Chain(e) \subseteq Ops BY DEF Chain, Amended
<1>2. IsFiniteSet(Chain(e)) /\ Cardinality(Chain(e)) \in Nat
  BY <1>1, SizeAssumption, FS_Subset, FS_CardinalityType
<1>3. Cardinality(Chain(e)) # 0 BY <1>2, FS_EmptySet
<1>4. Cardinality(Chain(e)) \in 1..Cardinality(Chain(e)) BY <1>2, <1>3
<1>5. \E o \in Chain(e) : files[Amendment(o)].sequence = Cardinality(Chain(e))
  BY <1>4 DEF Continuous
<1>6. LastOf(e) \in Chain(e) BY <1>5 DEF LastOf
<1> QED BY <1>1, <1>6

\* A call to amend: what it read of the chain is there.
LEMMA AmendKeeps ==
  ASSUME AuthoringInv, NEW a \in Authors, NEW q \in Amends, CallAmend(a, q)
  PROVE  AuthoringInv'
<1>1. q.op \in Ops /\ q.entry \in Entries /\ q.old \in Content /\ q.new \in Content
  BY RequestAssumption
<1>2. Amendment(q.op) \in Files BY <1>1, Kinds
<1>3. CASE Written(Amendment(q.op))
  <2>1. /\ Call(a, "appended", Amendment(q.op), files[Amendment(q.op)], entries[q.entry])
        /\ UNCHANGED <<files, entries, litter, crashes>>
    BY <1>3 DEF CallAmend
  <2>2. files[Amendment(q.op)] \in AmendmentDocument
    BY <1>1, <1>3 DEF AuthoringInv, AuthoringTypeOK, Amended
  <2>3. "appended" \in Phases BY DEF Phases
  <2>4. PICK k : /\ call' = [call EXCEPT ![a] = k] /\ Shaped(k)
                 /\ k.phase = "appended" /\ k.file = Amendment(q.op)
                 /\ k.document = files[Amendment(q.op)]
    BY <1>2, <2>1, <2>3, CallRecordOf
  <2>5. CallSound(k) BY <1>2, <2>2, <2>3, <2>4 DEF CallSound
  <2> QED BY <2>1, <2>4, <2>5, CallKeeps
<1>4. CASE ~Written(Amendment(q.op))
  <2> DEFINE d == [entry |-> q.entry, old |-> q.old, new |-> q.new,
                   sequence |-> Cardinality(Chain(q.entry)) + 1,
                   previous |-> IF Chain(q.entry) = {} THEN NULL ELSE LastOf(q.entry)]
  <2>1. /\ Call(a, "decided", Amendment(q.op), d, entries[q.entry])
        /\ UNCHANGED <<files, entries, litter, crashes>>
        /\ Continuous(q.entry)
    BY <1>1, <1>4 DEF CallAmend, MayReplace, Readable
  <2>2. d \in AmendmentDocument
    <3>1. Chain(q.entry) \subseteq Ops BY DEF Chain, Amended
    <3>2. Cardinality(Chain(q.entry)) + 1 \in Nat \ {0}
      BY <3>1, SizeAssumption, FS_Subset, FS_CardinalityType
    <3>3. (IF Chain(q.entry) = {} THEN NULL ELSE LastOf(q.entry)) \in Ops \cup {NULL}
      BY <1>1, <2>1, LastOfChain
    <3> QED BY <1>1, <3>2, <3>3 DEF AmendmentDocument
  <2>3. "decided" \in Phases BY DEF Phases
  <2> HIDE DEF d
  <2>4. PICK k : /\ call' = [call EXCEPT ![a] = k] /\ Shaped(k)
                 /\ k.phase = "decided" /\ k.file = Amendment(q.op)
                 /\ k.document = d
    BY <1>2, <2>1, <2>3, CallRecordOf
  <2>5. Fitting(k) /\ Founded(k) BY <2>2, <2>4, Names DEF Fitting, Founded
  <2>6. CallSound(k) BY <1>2, <2>3, <2>4, <2>5 DEF CallSound
  <2> QED BY <2>1, <2>4, <2>6, CallKeeps
<1> QED BY <1>3, <1>4

-----------------------------------------------------------------------------
(* The steps that write no file.                                           *)

\* A call that continues with its document keeps it.
LEMMA Continued ==
  ASSUME NEW k, NEW phase \in Phases, CallSound(k)
  PROVE  LET m == [k EXCEPT !.phase = phase]
         IN  /\ Shaped(m) /\ m.phase = phase
             /\ m.file = k.file /\ m.document = k.document
             /\ m.file \in Files
BY DEF CallSound, Shaped

\* Where a call goes when its file holds its document.
LEMMA ProceedCall ==
  ASSUME AuthoringInv, NEW a \in Authors, call[a] # NULL,
         call[a].phase \in {"decided", "created"}, Proceed(a)
  PROVE  \E k : /\ call' = [call EXCEPT ![a] = k]
                /\ k # NULL =>
                     /\ Shaped(k) /\ k.file \in Files
                     /\ \/ /\ k.phase = "appended"
                           /\ k.document \in AmendmentDocument
                        \/ k.phase = "decided" /\ k.file = PlanFile
<1>1. CallSound(call[a]) BY OwnCall
<1>2. CASE call[a].file[1] = "amendment"
  <2>1. PICK o \in Ops : call[a].file = Amendment(o)
    BY <1>1, <1>2, Kinds DEF CallSound
  <2>2. call[a].document \in AmendmentDocument
    BY <1>1, <2>1 DEF CallSound, Fitting
  <2>3. "appended" \in Phases BY DEF Phases
  <2> DEFINE m == [call[a] EXCEPT !.phase = "appended"]
  <2>4. /\ Shaped(m) /\ m.phase = "appended"
        /\ m.file \in Files /\ m.document = call[a].document
    BY <1>1, <2>3, Continued
  <2>5. call' = [call EXCEPT ![a] = m] BY <1>2 DEF Proceed, SourceFile
  <2> QED BY <2>2, <2>4, <2>5
<1>3. CASE call[a].file[1] # "amendment" /\ call[a].file = SourceFile
  <2>1. Call(a, "decided", PlanFile, "plan", NULL) BY <1>3 DEF Proceed
  <2>2. PlanFile \in Files /\ "decided" \in Phases BY Kinds DEF Phases
  <2>3. PICK k : /\ call' = [call EXCEPT ![a] = k] /\ Shaped(k)
                 /\ k.phase = "decided" /\ k.file = PlanFile
    BY <2>1, <2>2, CallRecordOf
  <2> QED BY <2>2, <2>3
<1>4. CASE call[a].file[1] # "amendment" /\ call[a].file # SourceFile
  <2>1. End(a) BY <1>4 DEF Proceed
  <2> QED BY <2>1 DEF End
<1> QED BY <1>2, <1>3, <1>4

\* Such a call is sound, in whatever state: it is to write the plan, or
\* nothing more than an Entry.
LEMMA ProceedSound ==
  ASSUME NEW k, Shaped(k), k.file \in Files,
         \/ k.phase = "appended" /\ k.document \in AmendmentDocument
         \/ k.phase = "decided" /\ k.file = PlanFile
  PROVE  CallSound(k) /\ CallSound(k)' /\ k.phase # "created"
<1>1. CASE k.phase = "appended" /\ k.document \in AmendmentDocument
  BY <1>1 DEF CallSound, Phases, Fitting, Shaped
<1>2. CASE k.phase = "decided" /\ k.file = PlanFile
  <2>1. Fitting(k) BY <1>2, Names DEF Fitting
  <2>2. Founded(k) BY <1>2, Names DEF Founded
  <2>3. Founded(k)' BY <1>2, Names DEF Founded
  <2> QED BY <1>2, <2>1, <2>2, <2>3 DEF CallSound, Phases, Fitting, Shaped
<1> QED BY <1>1, <1>2

\* The file was created by another process in the meantime.
LEMMA CollideKeeps ==
  ASSUME AuthoringInv, NEW a \in Authors, Collide(a) PROVE AuthoringInv'
<1>1. call[a] # NULL /\ call[a].phase = "decided" BY DEF Collide, At
<1>2. CASE Proceed(a)
  <2>1. PICK k : /\ call' = [call EXCEPT ![a] = k]
                 /\ k # NULL =>
                      /\ Shaped(k) /\ k.file \in Files
                      /\ \/ /\ k.phase = "appended"
                            /\ k.document \in AmendmentDocument
                         \/ k.phase = "decided" /\ k.file = PlanFile
    BY <1>1, <1>2, ProceedCall
  <2>2. k # NULL => CallSound(k) /\ k.phase # "created"
    BY <2>1, ProceedSound
  <2>3. /\ DOMAIN entries' = Entries
        /\ \A e \in Entries : entries'[e] # NULL => entries'[e] \in Content
        /\ litter' \in BOOLEAN /\ crashes' \in 0..MaxCrashes
    BY DEF Collide, AuthoringInv, AuthoringTypeOK
  <2>4. UNCHANGED files BY DEF Collide
  <2> QED BY <2>1, <2>2, <2>3, <2>4, CallMoves
<1>3. CASE End(a)
  <2>1. litter' \in BOOLEAN /\ crashes' \in 0..MaxCrashes
    BY DEF Collide, AuthoringInv, AuthoringTypeOK
  <2> QED BY <1>3, <2>1, EndKeeps DEF Collide
<1> QED BY <1>2, <1>3 DEF Collide

\* From one step of a replacement to the next.
LEMMA PhaseKeeps ==
  ASSUME AuthoringInv, NEW a \in Authors, call[a] # NULL,
         call[a].phase \in {"appended", "staged"},
         NEW phase \in {"staged", "checked"},
         call' = [call EXCEPT ![a].phase = phase],
         UNCHANGED <<files, entries, litter, crashes>>
  PROVE  AuthoringInv'
<1> DEFINE m == [call[a] EXCEPT !.phase = phase]
<1>1. CallSound(call[a]) /\ phase \in Phases BY OwnCall DEF Phases
<1>2. /\ Shaped(m) /\ m.phase = phase /\ m.file \in Files
      /\ m.document = call[a].document
  BY <1>1, Continued
<1>3. call[a].document \in AmendmentDocument BY <1>1 DEF CallSound
<1>4. call' = [call EXCEPT ![a] = m] OBVIOUS
<1> HIDE DEF m
<1>5. CallSound(m) /\ m.phase # "created" BY <1>1, <1>2, <1>3 DEF CallSound
<1> QED BY <1>4, <1>5, CallKeeps

\* The temporary file is written.
LEMMA StageKeeps == ASSUME AuthoringInv, NEW a \in Authors, Stage(a) PROVE AuthoringInv'
BY PhaseKeeps DEF Stage, At

\* The parts of the type that most steps leave alone.
LEMMA TypesKept ==
  ASSUME AuthoringInv, UNCHANGED <<litter, crashes>>
  PROVE  litter' \in BOOLEAN /\ crashes' \in 0..MaxCrashes
BY DEF AuthoringInv, AuthoringTypeOK

\* The Entry is looked at once more.
LEMMA RecheckKeeps ==
  ASSUME AuthoringInv, NEW a \in Authors, Recheck(a) PROVE AuthoringInv'
<1>1. call[a] # NULL /\ call[a].phase = "staged" BY DEF Recheck, At
<1>2. CASE call' = [call EXCEPT ![a].phase = "checked"]
  BY <1>1, <1>2, PhaseKeeps DEF Recheck
<1>3. CASE End(a) BY <1>3, TypesKept, EndKeeps DEF Recheck
<1> QED BY <1>2, <1>3 DEF Recheck

\* An amendment whose Entry changed stops.
LEMMA GiveUpKeeps ==
  ASSUME AuthoringInv, NEW a \in Authors, GiveUp(a) PROVE AuthoringInv'
BY TypesKept, EndKeeps DEF GiveUp

\* The temporary file replaces the Entry.
LEMMA ReplaceKeeps ==
  ASSUME AuthoringInv, NEW a \in Authors, Replace(a) PROVE AuthoringInv'
<1>1. call[a].document \in AmendmentDocument
  BY OwnCall DEF Replace, At, CallSound
<1>2. call[a].document.new \in Content BY <1>1 DEF AmendmentDocument
<1>3. /\ DOMAIN entries' = Entries
      /\ \A e \in Entries : entries'[e] # NULL => entries'[e] \in Content
  BY <1>2 DEF Replace, AuthoringInv, AuthoringTypeOK
<1>4. call' = [call EXCEPT ![a] = NULL] /\ UNCHANGED <<files, litter, crashes>>
  BY DEF Replace, End
<1> QED BY <1>3, <1>4, TypesKept, CallMoves

\* An author writes an Entry.
LEMMA DraftKeeps ==
  ASSUME AuthoringInv, NEW a \in Authors, Draft(a) PROVE AuthoringInv'
<1>1. /\ DOMAIN entries' = Entries
      /\ \A e \in Entries : entries'[e] # NULL => entries'[e] \in Content
  BY RequestAssumption DEF Draft, AuthoringInv, AuthoringTypeOK
<1>2. /\ call[a] = NULL /\ call = [b \in Authors |-> call[b]]
      /\ UNCHANGED <<files, litter, crashes, call>>
  BY DEF Draft, AuthoringInv
<1>3. call' = [call EXCEPT ![a] = NULL] BY <1>2
<1> QED BY <1>1, <1>2, <1>3, TypesKept, CallMoves

\* A process dies.
LEMMA DieKeeps == ASSUME AuthoringInv, NEW a \in Authors, Die(a) PROVE AuthoringInv'
<1>1. litter' \in BOOLEAN /\ crashes' \in 0..MaxCrashes
  BY SizeAssumption DEF Die, AuthoringInv, AuthoringTypeOK
<1> QED BY <1>1, EndKeeps DEF Die

-----------------------------------------------------------------------------
(* The steps that write a file.                                            *)

\* Among the batches claimed only the last can lack its result.
LEMMA OneOpen ==
  ASSUME NEW n \in Nat, Ordered(n), NEW b \in Claimed, NEW c \in Claimed,
         ~Written(Result(b)), ~Written(Result(c))
  PROVE  b = c
<1>1. b \in 1..n /\ c \in 1..n /\ b \notin 1..(n - 1) /\ c \notin 1..(n - 1)
  BY DEF Ordered
<1> QED BY <1>1

\* A file that is created or filled was not written.
LEMMA WriteFrame ==
  ASSUME AuthoringInv, NEW f \in Files, NEW v,
         files' = [files EXCEPT ![f] = v], ~Written(f)
  PROVE  /\ DOMAIN files' = Files
         /\ \A g \in Files : files'[g] = IF g = f THEN v ELSE files[g]
         /\ \A g \in Files : Written(g) => Written(g)' /\ files'[g] = files[g]
<1>1. DOMAIN files = Files BY DEF AuthoringInv, AuthoringTypeOK
<1>2. DOMAIN files' = Files BY <1>1
<1>3. \A g \in Files : files'[g] = IF g = f THEN v ELSE files[g] BY <1>1
<1> QED BY <1>2, <1>3 DEF Written

\* Attributions depend on the results that are written.
LEMMA SameResults ==
  ASSUME Results' = Results,
         \A b \in Results : files'[Result(b)] = files[Result(b)]
  PROVE  /\ Owned' = Owned
         /\ \A b \in Results : Bound(b)' = Bound(b)
         /\ AttributionSound => AttributionSound'
<1>1. \A b \in Results : Bound(b)' = Bound(b) BY DEF Bound
<1>2. Owned' = Owned BY <1>1 DEF Owned
<1>3. AttributionSound => AttributionSound'
  BY <1>1, <1>2 DEF AttributionSound, AttributedOnce
<1> QED BY <1>1, <1>2, <1>3

\* What a call was founded on stands while only others write.
LEMMA FoundedKept ==
  ASSUME NEW k, Founded(k),
         \A b \in Batches :
           /\ Written(Result(b)) => Written(Result(b))'
           /\ files[Claim(b)] # NULL => files'[Claim(b)] # NULL,
         \A b \in Batches :
           k.file = Result(b) /\ ~Written(Result(b))' => Owned' = Owned
  PROVE  Founded(k)'
<1> SUFFICES ASSUME NEW b \in Batches
             PROVE  /\ k.file = Claim(b) => \A c \in 1..(b - 1) : Written(Result(c))'
                    /\ k.file = Result(b) =>
                         /\ files'[Claim(b)] # NULL
                         /\ ~Written(Result(b))' =>
                              /\ DOMAIN k.document.bindings \cap Owned' = {}
                              /\ Cardinality(Owned') + Cardinality(DOMAIN k.document.bindings)
                                   <= MaxEntries
  BY DEF Founded
<1>1. ASSUME k.file = Claim(b), NEW c \in 1..(b - 1) PROVE Written(Result(c))'
  <2>1. Written(Result(c)) BY <1>1 DEF Founded
  <2>2. c \in Batches BY BatchesNat DEF Batches
  <2> QED BY <2>1, <2>2
<1>2. ASSUME k.file = Result(b)
      PROVE  /\ files'[Claim(b)] # NULL
             /\ ~Written(Result(b))' =>
                  /\ DOMAIN k.document.bindings \cap Owned' = {}
                  /\ Cardinality(Owned') + Cardinality(DOMAIN k.document.bindings)
                       <= MaxEntries
  BY <1>2 DEF Founded
<1> QED BY <1>1, <1>2

\* A file is created: it is torn until it is filled.
LEMMA CreateKeeps ==
  ASSUME AuthoringInv, NEW a \in Authors, Create(a) PROVE AuthoringInv'
<1> DEFINE f == call[a].file
<1>0. PICK m : m = [call[a] EXCEPT !.phase = "created"] OBVIOUS
<1>1. /\ call[a] # NULL /\ call[a].phase = "decided" /\ CallSound(call[a])
      /\ f \in Files /\ files[f] = NULL /\ ~Written(f)
      /\ files' = [files EXCEPT ![f] = Torn]
      /\ UNCHANGED <<entries, litter, crashes>>
  BY OwnCall DEF Create, At, CallSound, Written
<1>2. "created" \in Phases BY DEF Phases
<1>3. /\ Shaped(m) /\ m.phase = "created" /\ m.file = f
      /\ m.document = call[a].document
  BY <1>0, <1>1, <1>2, Continued
<1>4. call' = [call EXCEPT ![a] = m] BY <1>0 DEF Create
<1>5. Fitting(m) /\ Founded(m)
  BY <1>1, <1>3 DEF CallSound, Fitting, Founded
<1> HIDE DEF f
<1>6. /\ call' = [b \in Authors |-> call'[b]]
      /\ \A b \in Authors : call'[b] = IF b = a THEN m ELSE call[b]
  BY <1>4 DEF AuthoringInv
<1>7. /\ DOMAIN files' = Files
      /\ \A g \in Files : files'[g] = IF g = f THEN Torn ELSE files[g]
      /\ \A g \in Files : Written(g) => Written(g)' /\ files'[g] = files[g]
  BY <1>1, WriteFrame
<1>8. \A g \in Files : Written(g)' <=> Written(g)
  BY <1>1, <1>7 DEF Written
<1>9. /\ Results' = Results /\ Amended' = Amended
      /\ \A b \in Results : files'[Result(b)] = files[Result(b)]
  BY <1>7, <1>8, Kinds DEF Results, Amended
<1>10. /\ Owned' = Owned /\ AttributionSound'
       /\ \A b \in Results : Bound(b)' = Bound(b)
  BY <1>9, SameResults DEF AuthoringInv
<1>11. \A b \in Batches :
         /\ Written(Result(b)) => Written(Result(b))'
         /\ files[Claim(b)] # NULL => files'[Claim(b)] # NULL
  BY <1>7, <1>8, Kinds, SentinelAssumption
<1>12. \A b \in Authors : call'[b] # NULL => CallSound(call[b])'
  <2> SUFFICES ASSUME NEW b \in Authors, call'[b] # NULL PROVE CallSound(call[b])'
    OBVIOUS
  <2>0. PICK k : k = call'[b] OBVIOUS
  <2>1. CallSound(k)'
    <3>1. CASE b = a
      <4>1. k = m BY <1>6, <2>0, <3>1
      <4>2. Founded(m)' BY <1>5, <1>10, <1>11, FoundedKept
      <4> QED BY <4>1, <4>2, <1>1, <1>2, <1>3, <1>5 DEF CallSound, Fitting, Shaped, f
    <3>2. CASE b # a
      <4>1. CallSound(k) BY <1>6, <2>0, <3>2 DEF AuthoringInv
      <4>2. Founded(k) => Founded(k)' BY <1>10, <1>11, FoundedKept
      <4> QED BY <4>1, <4>2 DEF CallSound, Fitting, Shaped
    <3> QED BY <3>1, <3>2
  <2> QED BY <2>0, <2>1 DEF CallSound, Fitting, Shaped, Founded
<1>13. AuthoringTypeOK'
  <2>1. \A b \in Authors : call'[b] # NULL =>
          call'[b].phase \in Phases /\ call'[b].file \in Files
    BY <1>12 DEF CallSound
  <2>2. /\ \A o \in Ops : Written(Budget(o))' => files'[Budget(o)] \in Nat \ {0}
        /\ \A o \in Amended' : files'[Amendment(o)] \in AmendmentDocument
    BY <1>7, <1>8, <1>9, Kinds DEF AuthoringInv, AuthoringTypeOK, Amended
  <2>3. \A b \in Results' : /\ files'[Result(b)].used \in Nat
                            /\ Bound(b)' \subseteq Entries
                            /\ \A e \in Bound(b)' :
                                 files'[Result(b)].bindings[e] \in Content
    BY <1>9, <1>10 DEF AuthoringInv, AuthoringTypeOK
  <2> QED BY <1>1, <1>7, <2>1, <2>2, <2>3 DEF AuthoringInv, AuthoringTypeOK
<1>14. Creators'
  <2>1. /\ \A b \in Authors \ {a} :
             At(b, "created")' => /\ At(b, "created") /\ call'[b].file = call[b].file
                                  /\ files[call[b].file] = Torn
        /\ call'[a].file = f
    BY <1>3, <1>6 DEF At, AuthoringInv, Creators
  <2>2. \A b \in Authors \ {a} : At(b, "created")' => call'[b].file # f
    BY <1>1, <2>1, SentinelAssumption DEF f
  <2>3. \A b \in Authors : At(b, "created")' => files'[call'[b].file] = Torn
    <3>1. files'[f] = Torn BY <1>1, <1>7
    <3>2. \A b \in Authors \ {a} : At(b, "created")' => call[b].file \in Files
      BY <2>1 DEF At, AuthoringInv, CallSound
    <3> QED BY <1>7, <2>1, <2>2, <3>1, <3>2
  <2> QED BY <2>1, <2>2, <2>3 DEF Creators, AuthoringInv
<1>15. \E n \in Nat : Ordered(n)'
  <2>1. PICK n \in Nat : Ordered(n) BY DEF AuthoringInv
  <2>2. CASE \E b \in Batches : f = Claim(b)
    <3>1. PICK b \in Batches : f = Claim(b) BY <2>2
    <3>2. \A c \in 1..(b - 1) : Written(Result(c))
      BY <1>3, <1>5, <3>1 DEF Founded
    <3>3. \A c \in 1..(b - 1) : c \in Claimed
      <4> SUFFICES ASSUME NEW c \in 1..(b - 1) PROVE c \in Claimed
        OBVIOUS
      <4>1. c \in Batches BY BatchesNat DEF Batches
      <4>2. c \in Recorded BY <3>2, <4>1 DEF Recorded, Written
      <4> QED BY <2>1, <4>2 DEF Ordered
    <3>4. b \notin Claimed BY <1>1, <3>1 DEF Claimed
    <3>5. b = n + 1
      <4>1. b \in Nat \ {0} /\ b \notin 1..n BY <3>4, <2>1, BatchesNat DEF Ordered
      <4>2. b - 1 \in 1..n \/ b = 1 BY <3>3, <4>1, <2>1 DEF Ordered
      <4> QED BY <4>1, <4>2
    <3>6. \A c \in Batches : c \in Claimed' <=> c \in Claimed \/ c = b
      BY <1>7, <3>1, Kinds, Names, SentinelAssumption DEF Claimed
    <3>7. Claimed' = 1..(n + 1)
      <4>1. Claimed' = Claimed \cup {b} BY <3>6 DEF Claimed
      <4> QED BY <4>1, <3>5, <2>1 DEF Ordered
    <3>8. Recorded' = Recorded
      BY <1>7, <3>1, Kinds, Names DEF Recorded
    <3>9. \A c \in 1..n : Written(Result(c))'
      <4>1. \A c \in 1..n : c \in Batches /\ Written(Result(c))
        BY <3>2, <3>5, BatchesNat DEF Batches
      <4> QED BY <4>1, <1>11
    <3>10. Ordered(n + 1)'
      BY <2>1, <3>7, <3>8, <3>9 DEF Ordered
    <3> QED BY <3>10
  <2>3. CASE ~\E b \in Batches : f = Claim(b)
    <3>1. Claimed' = Claimed BY <1>7, <2>3, Kinds DEF Claimed
    <3>2. Recorded' \subseteq Claimed
      <4> SUFFICES ASSUME NEW b \in Recorded' PROVE b \in Claimed
        OBVIOUS
      <4>1. b \in Batches BY DEF Recorded
      <4>2. CASE f = Result(b)
        BY <4>1, <4>2, <1>3, <1>5 DEF Founded, Claimed
      <4>3. CASE f # Result(b)
        BY <4>1, <4>3, <1>7, <2>1, Kinds DEF Recorded, Ordered
      <4> QED BY <4>2, <4>3
    <3>3. \A c \in 1..(n - 1) : Written(Result(c))'
      <4>1. \A c \in 1..(n - 1) : c \in Claimed BY <2>1 DEF Ordered
      <4> QED BY <4>1, <1>11, <2>1 DEF Ordered, Claimed
    <3> QED BY <2>1, <3>1, <3>2, <3>3 DEF Ordered
  <2> QED BY <2>2, <2>3
<1>16. DOMAIN entries' = Entries BY <1>1 DEF AuthoringInv
<1> QED BY <1>6, <1>10, <1>12, <1>13, <1>14, <1>15, <1>16 DEF AuthoringInv

\* A result that is written attributes its Entries to its batch, for the
\* first time.
LEMMA Attributed ==
  ASSUME AuthoringInv, NEW b \in Batches, NEW d,
         ~Written(Result(b)), ResultFor(b, d),
         files'[Result(b)] = d,
         \A c \in Batches \ {b} : files'[Result(c)] = files[Result(c)],
         DOMAIN d.bindings \cap Owned = {},
         Cardinality(Owned) + Cardinality(DOMAIN d.bindings) <= MaxEntries
  PROVE  /\ Results' = Results \cup {b}
         /\ AttributionSound'
         /\ \A c \in Results' : /\ files'[Result(c)].used \in Nat
                                /\ Bound(c)' \subseteq Entries
                                /\ \A e \in Bound(c)' :
                                     files'[Result(c)].bindings[e] \in Content
<1> DEFINE D == DOMAIN d.bindings
<1>1. /\ d.used \in Nat /\ D \subseteq Entries /\ d # NULL /\ d # Torn
      /\ \A e \in D : d.bindings[e] \in Content /\ Cites(d.bindings[e], b)
  BY ResultFields DEF ResultFor
<1>2. Results' = Results \cup {b} BY <1>1 DEF Results, Written
<1>3. /\ Bound(b)' = D
      /\ \A c \in Results \ {b} : Bound(c)' = Bound(c)
      /\ b \notin Results
  BY DEF Bound, Results
<1>4. Owned' = Owned \cup D
  <2>1. \A e : e \in Owned' <=> \E c \in Results' : e \in Bound(c)' BY DEF Owned
  <2>2. \A e : e \in Owned <=> \E c \in Results : e \in Bound(c) BY DEF Owned
  <2> HIDE DEF D
  <2>3. \A e : e \in Owned' <=> e \in Owned \/ e \in D
    BY <2>1, <2>2, <1>2, <1>3
  <2> QED BY <2>3
<1>5. Cardinality(Owned') <= MaxEntries
  <2>1. IsFiniteSet(Owned) /\ Cardinality(Owned) \in Nat
    BY OwnedFinite DEF AuthoringInv
  <2>2. IsFiniteSet(D) BY <1>1, SizeAssumption, FS_Subset
  <2>3. Cardinality(D) \in Nat BY <2>2, FS_CardinalityType
  <2> HIDE DEF D
  <2>4. Cardinality(Owned \cup D)
          = Cardinality(Owned) + Cardinality(D) - Cardinality(Owned \cap D)
    BY <2>1, <2>2, FS_Union
  <2>5. Owned \cap D = {} BY DEF D
  <2>6. Cardinality(Owned \cap D) = 0 BY <2>5, FS_EmptySet
  <2>7. Cardinality(Owned) + Cardinality(D) <= MaxEntries BY DEF D
  <2> QED BY <1>4, <2>1, <2>3, <2>4, <2>6, <2>7
<1>6. AttributedOnce'
  <2> SUFFICES ASSUME NEW p \in Results', NEW q \in Results', p # q
               PROVE  Bound(p)' \cap Bound(q)' = {}
    BY DEF AttributedOnce
  <2>1. \A c \in Results : Bound(c) \subseteq Owned BY DEF Owned
  <2>2. CASE p = b BY <2>1, <2>2, <1>2, <1>3
  <2>3. CASE q = b BY <2>1, <2>3, <1>2, <1>3
  <2>4. CASE p # b /\ q # b
    BY <2>4, <1>2, <1>3 DEF AuthoringInv, AttributionSound, AttributedOnce
  <2> QED BY <2>2, <2>3, <2>4
<1>7. \A c \in Results' : \A e \in Bound(c)' : Cites(files'[Result(c)].bindings[e], c)
  <2> SUFFICES ASSUME NEW c \in Results', NEW e \in Bound(c)'
               PROVE  Cites(files'[Result(c)].bindings[e], c)
    OBVIOUS
  <2>1. CASE c = b BY <2>1, <1>1, <1>3
  <2>2. CASE c # b
    <3>1. c \in Results /\ c \in Batches \ {b} /\ e \in Bound(c)
      BY <2>2, <1>2, <1>3 DEF Results
    <3>2. Cites(files[Result(c)].bindings[e], c)
      BY <3>1 DEF AuthoringInv, AttributionSound
    <3> QED BY <3>1, <3>2
  <2> QED BY <2>1, <2>2
<1>8. AttributionSound'
  BY <1>5, <1>6, <1>7 DEF AttributionSound, Cites, FirstUnit, LastUnit
<1>9. ASSUME NEW c \in Results'
      PROVE  /\ files'[Result(c)].used \in Nat
             /\ Bound(c)' \subseteq Entries
             /\ \A e \in Bound(c)' : files'[Result(c)].bindings[e] \in Content
  <2>1. CASE c = b BY <2>1, <1>1, <1>3
  <2>2. CASE c # b
    <3>1. c \in Results /\ c \in Batches \ {b} /\ Bound(c)' = Bound(c)
      BY <2>2, <1>2, <1>3, <1>9 DEF Results
    <3> QED BY <3>1 DEF AuthoringInv, AuthoringTypeOK
  <2> QED BY <2>1, <2>2
<1> QED BY <1>2, <1>8, <1>9

\* A file is filled: the claim or result that appears continues the order.
LEMMA FillKeeps ==
  ASSUME AuthoringInv, NEW a \in Authors, Fill(a) PROVE AuthoringInv'
<1> USE SentinelAssumption
<1>0. PICK f, d : f = call[a].file /\ d = call[a].document OBVIOUS
<1>1. /\ call[a] # NULL /\ call[a].phase = "created" /\ CallSound(call[a])
      /\ f \in Files /\ files[f] = Torn /\ ~Written(f)
      /\ files' = [files EXCEPT ![f] = d]
      /\ UNCHANGED <<entries, litter, crashes>>
      /\ Fitting(call[a]) /\ Founded(call[a])
  BY <1>0, OwnCall DEF Fill, At, CallSound, Written, AuthoringInv, Creators
<1>2. PICK m : /\ call' = [call EXCEPT ![a] = m]
               /\ m # NULL =>
                    /\ Shaped(m) /\ m.file \in Files
                    /\ \/ m.phase = "appended" /\ m.document \in AmendmentDocument
                       \/ m.phase = "decided" /\ m.file = PlanFile
  BY <1>1, ProceedCall DEF Fill
<1>3. m # NULL => CallSound(m)' /\ m.phase # "created"
  BY <1>2, ProceedSound
<1>4. /\ call' = [b \in Authors |-> call'[b]]
      /\ \A b \in Authors : call'[b] = IF b = a THEN m ELSE call[b]
  BY <1>2 DEF AuthoringInv
<1>5. /\ DOMAIN files' = Files
      /\ \A g \in Files : files'[g] = IF g = f THEN d ELSE files[g]
      /\ \A g \in Files : Written(g) => Written(g)' /\ files'[g] = files[g]
  BY <1>1, WriteFrame
\* What is there stays there.
<1>6. /\ \A b \in Batches : f = Claim(b) => d # NULL /\ d # Torn
      /\ \A b \in Batches : f = Result(b) => ResultFor(b, d) /\ d # NULL /\ d # Torn
  <2>1. ASSUME NEW b \in Batches, f = Claim(b) PROVE d # NULL /\ d # Torn
    BY <1>0, <1>1, <2>1, ClaimFields DEF Fitting
  <2>2. ASSUME NEW b \in Batches, f = Result(b)
        PROVE  ResultFor(b, d) /\ d # NULL /\ d # Torn
    <3>1. ResultFor(b, d) BY <1>0, <1>1, <2>2 DEF Fitting
    <3> QED BY <3>1, ResultFields DEF ResultFor
  <2> QED BY <2>1, <2>2
<1>7. /\ Claimed' = Claimed /\ Recorded' = Recorded
  BY <1>1, <1>5, <1>6, Kinds DEF Claimed, Recorded
<1>8. \A b \in Batches :
        /\ Written(Result(b)) => Written(Result(b))'
        /\ files[Claim(b)] # NULL => files'[Claim(b)] # NULL
  BY <1>5, <1>7, Kinds DEF Claimed
<1>9. PICK n \in Nat : Ordered(n) BY DEF AuthoringInv
<1>10. Ordered(n)'
  <2>1. \A c \in 1..(n - 1) : c \in Claimed BY <1>9 DEF Ordered
  <2>2. \A c \in 1..(n - 1) : Written(Result(c))'
    BY <2>1, <1>8, <1>9 DEF Ordered, Claimed
  <2> QED BY <1>7, <1>9, <2>2 DEF Ordered
\* The results and what they attribute.
<1> DEFINE Typed ==
      \A c \in Results' : /\ files'[Result(c)].used \in Nat
                          /\ Bound(c)' \subseteq Entries
                          /\ \A e \in Bound(c)' :
                               files'[Result(c)].bindings[e] \in Content
           Kept ==
      \A c \in Authors, b \in Batches :
        /\ call[c] # NULL /\ call[c].phase \in {"decided", "created"}
        /\ call[c].file = Result(b) /\ ~Written(Result(b))'
        => Owned' = Owned
<1>11. ASSUME \A b \in Batches : f # Result(b)
       PROVE  AttributionSound' /\ Typed /\ Kept
  <2>1. /\ Results' = Results
        /\ \A b \in Batches : files'[Result(b)] = files[Result(b)]
    BY <1>5, <1>11, Kinds DEF Results, Written
  <2>2. /\ Owned' = Owned /\ AttributionSound'
        /\ \A b \in Results : Bound(b)' = Bound(b)
    <3>1. Results \subseteq Batches BY DEF Results
    <3> QED BY <2>1, <3>1, SameResults DEF AuthoringInv
  <2>3. Typed
    BY <2>1, <2>2 DEF AuthoringInv, AuthoringTypeOK, Results
  <2> QED BY <2>2, <2>3
<1>12. ASSUME \E b \in Batches : f = Result(b)
       PROVE  AttributionSound' /\ Typed /\ Kept
  <2>1. PICK b \in Batches : f = Result(b) BY <1>12
  <2>2. /\ ResultFor(b, d) /\ d # NULL /\ d # Torn BY <1>6, <2>1
  <2>3. /\ files[Claim(b)] # NULL
        /\ DOMAIN d.bindings \cap Owned = {}
        /\ Cardinality(Owned) + Cardinality(DOMAIN d.bindings) <= MaxEntries
    BY <1>0, <1>1, <2>1 DEF Founded
  <2>4. /\ files'[Result(b)] = d
        /\ \A c \in Batches \ {b} : files'[Result(c)] = files[Result(c)]
    BY <1>5, <2>1, Kinds, Names
  <2>5. AttributionSound' /\ Typed
    BY <1>1, <2>1, <2>2, <2>3, <2>4, Attributed
  <2>6. Kept
    <3> SUFFICES ASSUME NEW c \in Authors, NEW p \in Batches,
                        call[c] # NULL, call[c].phase \in {"decided", "created"},
                        call[c].file = Result(p), ~Written(Result(p))'
                 PROVE  FALSE
      OBVIOUS
    <3>1. files[Claim(p)] # NULL BY DEF AuthoringInv, CallSound, Founded
    <3>2. ~Written(Result(p)) BY <1>8
    <3>3. p \in Claimed /\ b \in Claimed BY <2>3, <3>1 DEF Claimed
    <3>4. p = b BY <1>1, <1>9, <2>1, <3>2, <3>3, OneOpen
    <3>5. Written(Result(b))' BY <2>2, <2>4 DEF Written
    <3> QED BY <3>4, <3>5
  <2> QED BY <2>5, <2>6
<1>13. AttributionSound' /\ Typed /\ Kept BY <1>11, <1>12
<1>14. \A b \in Authors : call'[b] # NULL => CallSound(call[b])'
  <2> SUFFICES ASSUME NEW b \in Authors, call'[b] # NULL PROVE CallSound(call[b])'
    OBVIOUS
  <2>0. PICK k : k = call'[b] OBVIOUS
  <2>1. CallSound(k)'
    <3>1. CASE b = a BY <1>3, <1>4, <2>0, <3>1
    <3>2. CASE b # a
      <4>1. k = call[b] /\ CallSound(k) BY <1>4, <2>0, <3>2 DEF AuthoringInv
      <4>2. k.phase \in {"decided", "created"} => Founded(k)'
        <5> SUFFICES ASSUME k.phase \in {"decided", "created"} PROVE Founded(k)'
          OBVIOUS
        <5>1. Founded(k) BY <4>1 DEF CallSound
        <5>2. \A c \in Batches :
                k.file = Result(c) /\ ~Written(Result(c))' => Owned' = Owned
          BY <1>13, <2>0, <4>1
        <5> QED BY <1>8, <5>1, <5>2, FoundedKept
      <4> QED BY <4>1, <4>2 DEF CallSound, Fitting, Shaped
    <3> QED BY <3>1, <3>2
  <2> QED BY <2>0, <2>1 DEF CallSound, Fitting, Shaped, Founded
<1>15. AuthoringTypeOK'
  <2>1. \A b \in Authors : call'[b] # NULL =>
          call'[b].phase \in Phases /\ call'[b].file \in Files
    BY <1>14 DEF CallSound
  <2>2. \A o \in Ops : Written(Budget(o))' => files'[Budget(o)] \in Nat \ {0}
    <3> SUFFICES ASSUME NEW o \in Ops, Written(Budget(o))'
                 PROVE  files'[Budget(o)] \in Nat \ {0}
      OBVIOUS
    <3>1. CASE f = Budget(o) BY <1>0, <1>1, <1>5, <3>1 DEF Fitting
    <3>2. CASE f # Budget(o)
      BY <1>5, <3>2, Kinds DEF Written, AuthoringInv, AuthoringTypeOK
    <3> QED BY <3>1, <3>2
  <2>3. \A o \in Amended' : files'[Amendment(o)] \in AmendmentDocument
    <3> SUFFICES ASSUME NEW o \in Ops, Written(Amendment(o))'
                 PROVE  files'[Amendment(o)] \in AmendmentDocument
      BY DEF Amended
    <3>1. CASE f = Amendment(o) BY <1>0, <1>1, <1>5, <3>1 DEF Fitting
    <3>2. CASE f # Amendment(o)
      BY <1>5, <3>2, Kinds DEF Written, AuthoringInv, AuthoringTypeOK, Amended
    <3> QED BY <3>1, <3>2
  <2> QED BY <1>1, <1>5, <1>13, <2>1, <2>2, <2>3 DEF AuthoringInv, AuthoringTypeOK
<1>16. Creators'
  <2>1. \A b \in Authors : At(b, "created")' =>
          /\ b # a /\ At(b, "created") /\ call'[b].file = call[b].file
          /\ files[call[b].file] = Torn /\ call[b].file \in Files
    BY <1>3, <1>4 DEF At, AuthoringInv, Creators, CallSound
  <2>2. At(a, "created") BY <1>1 DEF At
  <2>3. \A b \in Authors : At(b, "created")' => call[b].file # f
    BY <1>0, <2>1, <2>2 DEF AuthoringInv, Creators
  <2>4. \A b \in Authors : At(b, "created")' => files'[call'[b].file] = Torn
    BY <1>5, <2>1, <2>3
  <2> QED BY <2>1, <2>4 DEF Creators, AuthoringInv
<1>17. DOMAIN entries' = Entries BY <1>1 DEF AuthoringInv
<1> QED BY <1>4, <1>10, <1>13, <1>14, <1>15, <1>16, <1>17 DEF AuthoringInv

-----------------------------------------------------------------------------
(* The theorems.                                                           *)

\* The empty plan directory.
LEMMA InitEstablishes == Init => AuthoringInv
<1> SUFFICES ASSUME Init PROVE AuthoringInv
  OBVIOUS
<1> USE DEF Init
<1>1. \A f \in Files : ~Written(f) /\ files[f] = NULL BY DEF Written
<1>2. /\ Claimed = {} /\ Recorded = {} /\ Results = {} /\ Amended = {}
      /\ Owned = {}
  BY <1>1, Kinds DEF Claimed, Recorded, Results, Amended, Owned
<1>3. AuthoringTypeOK
  <2>1. crashes \in 0..MaxCrashes BY SizeAssumption
  <2>2. litter \in BOOLEAN OBVIOUS
  <2>3. DOMAIN files = Files OBVIOUS
  <2>4. \A o \in Ops : ~Written(Budget(o)) BY <1>1, Kinds
  <2> QED BY <1>2, <2>1, <2>2, <2>3, <2>4 DEF AuthoringTypeOK
<1>4. Ordered(0) BY <1>2 DEF Ordered
<1>5. Cardinality(Owned) = 0 BY <1>2, FS_EmptySet
<1>6. AttributionSound
  BY <1>2, <1>5, SizeAssumption DEF AttributionSound, AttributedOnce
<1>7. Creators BY DEF Creators, At
<1> QED BY <1>3, <1>4, <1>6, <1>7 DEF AuthoringInv

\* A step that changes nothing.
LEMMA StutterKeeps == ASSUME AuthoringInv, UNCHANGED vars PROVE AuthoringInv'
<1> USE DEF vars
<1>1. AuthoringTypeOK'
  BY DEF AuthoringInv, AuthoringTypeOK, Results, Amended, Bound, Written
<1>2. AttributionSound'
  BY DEF AuthoringInv, AttributionSound, AttributedOnce, Owned, Results, Bound, Written
<1>3. \A n \in Nat : Ordered(n) => Ordered(n)'
  BY DEF Ordered, Claimed, Recorded, Written
<1>4. Creators' BY DEF AuthoringInv, Creators, At
<1>5. \A a \in Authors : call'[a] # NULL => CallSound(call[a])'
  <2> SUFFICES ASSUME NEW a \in Authors, call'[a] # NULL PROVE CallSound(call[a])'
    OBVIOUS
  <2>1. CallSound(call[a]) BY DEF AuthoringInv
  <2>2. Owned' = Owned /\ \A f : Written(f)' <=> Written(f)
    BY DEF Owned, Results, Bound, Written
  <2>3. Founded(call[a])' <=> Founded(call[a]) BY <2>2 DEF Founded
  <2> QED BY <2>1, <2>3 DEF CallSound, Fitting, Shaped
<1> QED BY <1>1, <1>2, <1>3, <1>4, <1>5 DEF AuthoringInv

\* Every step keeps the invariant.
LEMMA StepKeeps == AuthoringInv /\ [Next]_vars => AuthoringInv'
<1> SUFFICES ASSUME AuthoringInv, [Next]_vars PROVE AuthoringInv'
  OBVIOUS
<1>1. ASSUME NEW a \in Authors, Author(a) PROVE AuthoringInv'
  <2>1. CASE \E q \in Amends : CallAmend(a, q) BY <2>1, AmendKeeps
  <2>2. CASE Work(a)
    BY <2>2, CreateKeeps, CollideKeeps, FillKeeps, StageKeeps, RecheckKeeps,
       ReplaceKeeps, GiveUpKeeps DEF Work
  <2> QED BY <1>1, <2>1, <2>2, PlanKeeps, NextKeeps, RecordKeeps, ExtendKeeps,
             DraftKeeps, DieKeeps DEF Author
<1> QED BY <1>1, StutterKeeps DEF Next

\* The invariant holds in every behaviour.
LEMMA AuthoringInvCorrect == Spec => []AuthoringInv
BY InitEstablishes, StepKeeps, PTL DEF Spec

\* Type correctness: every file holds a document of its kind, whichever
\* process decided to write it and whenever.
THEOREM AuthoringTypeCorrect == Spec => []AuthoringTypeOK
<1>1. AuthoringInv => AuthoringTypeOK BY DEF AuthoringInv
<1> QED BY <1>1, AuthoringInvCorrect, PTL

\* Claims and results in order leave at most one batch outstanding.
LEMMA OrderedSound ==
  ASSUME NEW n \in Nat, Ordered(n) PROVE OneOutstanding
<1>1. Claimed = 1..n /\ Recorded \subseteq Claimed BY DEF Ordered
<1>2. IsFiniteSet(1..n) /\ Cardinality(1..n) = n BY FS_Interval
<1>3. Outstanding \subseteq {n}
  <2> SUFFICES ASSUME NEW b \in Outstanding PROVE b = n
    OBVIOUS
  <2>1. b \in 1..n /\ b \notin Recorded /\ b \in Batches
    BY <1>1 DEF Outstanding, Claimed
  <2>2. ~Written(Result(b)) BY <2>1 DEF Recorded, Written
  <2>3. b \notin 1..(n - 1) BY <2>2 DEF Ordered
  <2> QED BY <2>1, <2>3
<1>4. Cardinality(Outstanding) <= 1
  <2>1. IsFiniteSet({n}) /\ Cardinality({n}) = 1 BY FS_Singleton
  <2> QED BY <1>3, <2>1, FS_Subset
<1> QED BY <1>1, <1>2, <1>4 DEF OneOutstanding

\* "Only one claim can remain outstanding", however the processes that ask
\* for a batch and record one race and die.
THEOREM OneOutstandingCorrect == Spec => []OneOutstanding
<1>1. AuthoringInv => OneOutstanding BY OrderedSound DEF AuthoringInv
<1> QED BY <1>1, AuthoringInvCorrect, PTL

\* Whatever results race, an Entry is attributed to one batch, which its
\* sealed content cites, and the limit on Entries holds.
THEOREM AttributionSoundCorrect == Spec => []AttributionSound
<1>1. AuthoringInv => AttributionSound BY DEF AuthoringInv
<1> QED BY <1>1, AuthoringInvCorrect, PTL
-----------------------------------------------------------------------------
(* Amendments: what ties the Workspace to the receipts, in every process   *)
(* that is about to write.                                                 *)

Receipt(o) == files[Amendment(o)]

\* The content with which a result sealed Entry e.
Sealed(e) == files[Result(Owner(e))].bindings[e]

\* The chain of Entry e has no fork and never returns to what it replaced.
Linked(e) ==
  \A o, p \in Chain(e) : Receipt(o).sequence = Receipt(p).sequence => o = p
Straight(e) == Linked(e) /\ NeverReturns(e)

\* Document d continues amendments that were there when it was decided.
Rooted(d) ==
  /\ d.entry \in Owned
  /\ d.old # d.new
  /\ d.sequence = 1 => d.old = Sealed(d.entry)
  /\ \A i \in 1..(d.sequence - 1) : \E p \in Chain(d.entry) : Receipt(p).sequence = i
  /\ d.sequence > 1 =>
       \E p \in Chain(d.entry) :
         Receipt(p).sequence = d.sequence - 1 /\ d.old = Receipt(p).new

\* No amendment of its Entry has overtaken d.
Follows(d) == \A p \in Chain(d.entry) : Receipt(p).sequence < d.sequence

\* The stages of an amendment.
Amending(k) == k # NULL /\ \E o \in Ops : k.file = Amendment(o)
Planned(k) == Amending(k) /\ k.phase \in {"decided", "created"}
Applying(k) == k # NULL /\ k.phase \in {"appended", "staged", "checked"}
Poised(k) == k # NULL /\ k.phase \in {"staged", "checked"}

\* An Entry is what its last amendment left or found.
KeepsUp(e) ==
  Straight(e) =>
    /\ Chain(e) = {} => entries[e] = Sealed(e)
    /\ \A o \in Chain(e) :
         (\A p \in Chain(e) : Receipt(p).sequence <= Receipt(o).sequence)
           => entries[e] \in {Receipt(o).old, Receipt(o).new}

\* Until it is overtaken, an amendment replaces what it means to replace.
Promised(k) ==
  Planned(k) =>
    /\ Rooted(k.document)
    /\ Straight(k.document.entry) /\ Follows(k.document)
         => entries[k.document.entry] = k.document.old

\* A replacement that is under way has its receipt, and it is the last one.
Receipted(k) ==
  Applying(k) =>
    \E o \in Amended : k.file = Amendment(o) /\ k.document = Receipt(o)

Latest(k) ==
  Poised(k) =>
    (Straight(k.document.entry) =>
       \A o \in Chain(k.document.entry) : Receipt(o).sequence <= k.document.sequence)

\* What a result is about to seal is what the Workspace holds.
Observed(k) ==
  k # NULL /\ k.phase \in {"decided", "created"} =>
    \A b \in Batches :
      k.file = Result(b) /\ ~Written(Result(b)) =>
        \A e \in DOMAIN k.document.bindings :
          entries[e] # NULL /\ k.document.bindings[e] = entries[e]

\* A claim that is not there yet is affordable.
Covered(k) ==
  k # NULL /\ k.phase \in {"decided", "created"} =>
    \A b \in Batches :
      k.file = Claim(b) /\ files[Claim(b)] = NULL =>
        Estimate(b) <= Remaining /\ Cardinality(Owned) < MaxEntries

Sincere(k) ==
  /\ Promised(k) /\ Receipted(k) /\ Latest(k)
  /\ Observed(k) /\ Covered(k)

\* While k replaces an Entry, m is not about to append the next amendment.
Apart(k, m) ==
  Poised(k) /\ Planned(m) /\ k.document.entry = m.document.entry
    /\ Straight(k.document.entry)
    => m.document.sequence # k.document.sequence + 1

AmendmentsInv ==
  /\ \A o \in Amended : Rooted(Receipt(o))
  /\ \A e \in Owned : entries[e] # NULL /\ KeepsUp(e)
  /\ \A a \in Authors : \A k : call[a] = k => Sincere(k)
  /\ \A a, c \in Authors : \A k, m : call[a] = k /\ call[c] = m => Apart(k, m)

-----------------------------------------------------------------------------
(* Chains.                                                                 *)

\* A receipt by its fields.
LEMMA ReceiptFields ==
  ASSUME AuthoringTypeOK, NEW o \in Amended
  PROVE  /\ Receipt(o) \in AmendmentDocument /\ Receipt(o).sequence \in Nat \ {0}
         /\ Receipt(o).entry \in Entries /\ o \in Chain(Receipt(o).entry)
         /\ Receipt(o).old \in Content /\ Receipt(o).new \in Content
<1>1. Receipt(o) \in AmendmentDocument BY DEF AuthoringTypeOK, Receipt
<1>2. o \in Chain(Receipt(o).entry) BY DEF Chain, Receipt
<1> QED BY <1>1, <1>2 DEF AmendmentDocument

\* The amendments of an Entry are finitely many.
LEMMA ChainFinite ==
  ASSUME AuthoringTypeOK, NEW e
  PROVE  /\ Chain(e) \subseteq Amended /\ IsFiniteSet(Chain(e))
         /\ Cardinality(Chain(e)) \in Nat
         /\ \A o \in Chain(e) : Receipt(o).sequence \in Nat \ {0} /\ Receipt(o).entry = e
<1>1. Chain(e) \subseteq Amended /\ Chain(e) \subseteq Ops BY DEF Chain, Amended
<1>2. IsFiniteSet(Chain(e)) /\ Cardinality(Chain(e)) \in Nat
  BY <1>1, SizeAssumption, FS_Subset, FS_CardinalityType
<1>3. \A o \in Chain(e) : Receipt(o).sequence \in Nat \ {0} BY <1>1, ReceiptFields
<1>4. \A o \in Chain(e) : Receipt(o).entry = e BY DEF Chain, Receipt
<1> QED BY <1>1, <1>2, <1>3, <1>4

\* A finite set of positive numbers that has with each number the smaller ones
\* is an interval.
LEMMA ClosedIsInterval ==
  ASSUME NEW S, S \subseteq Nat \ {0}, IsFiniteSet(S),
         \A s \in S : \A i \in 1..(s - 1) : i \in S
  PROVE  Cardinality(S) \in Nat /\ S = 1..Cardinality(S)
<1>1. PICK n \in Nat : n = Cardinality(S) BY FS_CardinalityType
<1>2. \A s \in S : s <= n
  <2> SUFFICES ASSUME NEW s \in S PROVE s <= n
    OBVIOUS
  <2>1. s \in Nat \ {0} OBVIOUS
  <2>2. 1..s \subseteq S
    <3>1. \A i \in 1..s : i = s \/ i \in 1..(s - 1) BY <2>1
    <3> QED BY <3>1
  <2>3. Cardinality(1..s) = s BY <2>1, FS_Interval
  <2>4. Cardinality(1..s) <= Cardinality(S) BY <2>2, FS_Subset
  <2> QED BY <1>1, <2>3, <2>4
<1>3. S \subseteq 1..n BY <1>2
<1>4. IsFiniteSet(1..n) /\ Cardinality(1..n) = n BY FS_Interval
<1>5. S = 1..n BY <1>1, <1>3, <1>4, FS_Subset
<1> QED BY <1>1, <1>5

\* The sequence numbers of a chain, as a surjection.
LEMMA Numbers ==
  ASSUME AuthoringTypeOK, NEW e
  PROVE  LET S == {Receipt(o).sequence : o \in Chain(e)}
             f == [o \in Chain(e) |-> Receipt(o).sequence]
         IN  /\ f \in Surjection(Chain(e), S)
             /\ IsFiniteSet(S) /\ S \subseteq Nat \ {0}
             /\ Cardinality(S) = Cardinality(Chain(e)) => Linked(e)
<1> DEFINE S == {Receipt(o).sequence : o \in Chain(e)}
           f == [o \in Chain(e) |-> Receipt(o).sequence]
<1>1. f \in Surjection(Chain(e), S) BY DEF Surjection
<1>2. IsFiniteSet(Chain(e)) /\ \A o \in Chain(e) : Receipt(o).sequence \in Nat \ {0}
  BY ChainFinite
<1>3. S \subseteq Nat \ {0} BY <1>2
<1>4. /\ IsFiniteSet(S)
      /\ Cardinality(S) = Cardinality(Chain(e)) => f \in Injection(Chain(e), S)
  <2> HIDE DEF S, f
  <2> QED BY <1>1, <1>2, FS_Surjection
<1>5. f \in Injection(Chain(e), S) => Linked(e)
  BY DEF Injection, IsInjective, Linked
<1> QED BY <1>1, <1>3, <1>4, <1>5

\* A chain that can be read has no fork, and its last amendment is its highest.
LEMMA ContinuousChain ==
  ASSUME AuthoringTypeOK, NEW e, Continuous(e)
  PROVE  /\ Linked(e)
         /\ \A i \in 1..Cardinality(Chain(e)) : \E o \in Chain(e) : Receipt(o).sequence = i
         /\ \A o \in Chain(e) : Receipt(o).sequence \in 1..Cardinality(Chain(e))
         /\ Chain(e) = {} => Cardinality(Chain(e)) = 0 /\ Effective(e) = Sealed(e)
         /\ Chain(e) # {} =>
              /\ Cardinality(Chain(e)) > 0
              /\ LastOf(e) \in Chain(e)
              /\ Receipt(LastOf(e)).sequence = Cardinality(Chain(e))
              /\ Effective(e) = Receipt(LastOf(e)).new
<1> DEFINE S == {Receipt(o).sequence : o \in Chain(e)}
<1>1. S = 1..Cardinality(Chain(e)) BY DEF Continuous, Receipt
<1>2. IsFiniteSet(Chain(e)) /\ Cardinality(Chain(e)) \in Nat BY ChainFinite
<1>3. Cardinality(S) = Cardinality(Chain(e))
  <2> HIDE DEF S
  <2> QED BY <1>1, <1>2, FS_Interval
<1>4. Linked(e) BY <1>3, Numbers
<1>5. Chain(e) = {} => Cardinality(Chain(e)) = 0 /\ Effective(e) = Sealed(e)
  BY FS_EmptySet DEF Effective, Sealed
<1>6. ASSUME Chain(e) # {}
      PROVE  /\ Cardinality(Chain(e)) > 0
             /\ LastOf(e) \in Chain(e)
             /\ Receipt(LastOf(e)).sequence = Cardinality(Chain(e))
             /\ Effective(e) = Receipt(LastOf(e)).new
  <2>1. Cardinality(Chain(e)) > 0 BY <1>2, <1>6, FS_EmptySet
  <2>2. \E o \in Chain(e) : Receipt(o).sequence = Cardinality(Chain(e))
    BY <1>1, <1>2, <2>1
  <2>3. LastOf(e) \in Chain(e) /\ Receipt(LastOf(e)).sequence = Cardinality(Chain(e))
    BY <2>2 DEF LastOf, Receipt
  <2> QED BY <1>6, <2>1, <2>3 DEF Effective, Receipt
<1> QED BY <1>1, <1>4, <1>5, <1>6

\* A chain whose amendments are rooted has a highest one.
LEMMA HighestReceipt ==
  ASSUME AuthoringTypeOK, \A o \in Amended : Rooted(Receipt(o)),
         NEW e, Chain(e) # {}
  PROVE  \E o \in Chain(e) : \A p \in Chain(e) : Receipt(p).sequence <= Receipt(o).sequence
<1> DEFINE S == {Receipt(o).sequence : o \in Chain(e)}
<1>1. IsFiniteSet(S) /\ S \subseteq Nat \ {0} BY Numbers
<1>2. \A s \in S : \A i \in 1..(s - 1) : i \in S
  <2> SUFFICES ASSUME NEW o \in Chain(e), NEW i \in 1..(Receipt(o).sequence - 1)
               PROVE  i \in S
    OBVIOUS
  <2>1. o \in Amended /\ Receipt(o).entry = e BY ChainFinite
  <2>2. Rooted(Receipt(o)) BY <2>1
  <2>3. \E p \in Chain(e) : Receipt(p).sequence = i BY <2>1, <2>2 DEF Rooted
  <2> QED BY <2>3
<1>3. S # {} OBVIOUS
<1>4. Cardinality(S) \in Nat /\ S = 1..Cardinality(S)
  <2> HIDE DEF S
  <2> QED BY <1>1, <1>2, ClosedIsInterval
<1>5. Cardinality(S) \in S /\ \A s \in S : s <= Cardinality(S)
  <2> HIDE DEF S
  <2> QED BY <1>3, <1>4
<1>6. PICK o \in Chain(e) : Receipt(o).sequence = Cardinality(S) BY <1>5
<1> QED BY <1>5, <1>6

\* What no fork and no rival allows: an amendment that enters a chain which
\* stays straight comes last.
LEMMA EntersLast ==
  ASSUME AuthoringTypeOK, \A o \in Amended : Rooted(Receipt(o)),
         NEW d, d.sequence \in Nat \ {0},
         \A p \in Chain(d.entry) : Receipt(p).sequence # d.sequence
  PROVE  Follows(d)
<1> SUFFICES ASSUME NEW p \in Chain(d.entry) PROVE Receipt(p).sequence < d.sequence
  BY DEF Follows
<1>1. Receipt(p).sequence \in Nat \ {0} /\ p \in Amended /\ Receipt(p).entry = d.entry
  BY ChainFinite
<1>2. ASSUME Receipt(p).sequence > d.sequence PROVE FALSE
  <2>1. d.sequence \in 1..(Receipt(p).sequence - 1) BY <1>1, <1>2
  <2>2. Rooted(Receipt(p)) BY <1>1
  <2> QED BY <1>1, <2>1, <2>2 DEF Rooted
<1> QED BY <1>1, <1>2

\* The next amendment after one that is the last so far.
LEMMA NextAfter ==
  ASSUME AuthoringTypeOK, NEW d, Rooted(d), Follows(d), d.sequence \in Nat \ {0},
         NEW o \in Chain(d.entry),
         \A p \in Chain(d.entry) : Receipt(p).sequence <= Receipt(o).sequence
  PROVE  d.sequence = Receipt(o).sequence + 1
<1>1. Receipt(o).sequence \in Nat \ {0} /\ Receipt(o).sequence < d.sequence
  BY ChainFinite DEF Follows
<1>2. ASSUME d.sequence > Receipt(o).sequence + 1 PROVE FALSE
  <2>1. Receipt(o).sequence + 1 \in 1..(d.sequence - 1) BY <1>1, <1>2
  <2>2. PICK p \in Chain(d.entry) : Receipt(p).sequence = Receipt(o).sequence + 1
    BY <2>1 DEF Rooted
  <2> QED BY <1>1, <2>2
<1> QED BY <1>1, <1>2

-----------------------------------------------------------------------------
(* Files are written once, and what they say stays true.                   *)

Grows == \A f \in Files : Written(f) => Written(f)' /\ files'[f] = files[f]

\* The batch to which an Entry is attributed.
LEMMA OwnerIs ==
  AttributionSound =>
    \A b \in Results : \A e \in Bound(b) :
      e \in Owned /\ Sealed(e) = files[Result(b)].bindings[e]
<1> SUFFICES ASSUME AttributionSound, NEW b \in Results, NEW e \in Bound(b)
             PROVE  e \in Owned /\ Sealed(e) = files[Result(b)].bindings[e]
  OBVIOUS
<1>1. \A c \in Results : e \in Bound(c) => c = b
  BY DEF AttributionSound, AttributedOnce
<1>2. Owner(e) \in Results /\ e \in Bound(Owner(e)) BY DEF Owner
<1>3. Owner(e) = b BY <1>1, <1>2
<1> QED BY <1>3 DEF Owned, Sealed

\* It is the same after a step.
LEMMA OwnerStays ==
  ASSUME AuthoringInv'
  PROVE  \A b \in Results' : \A e \in Bound(b)' :
           e \in Owned' /\ Sealed(e)' = files'[Result(b)].bindings[e]
<1>1. (AttributionSound =>
        \A b \in Results : \A e \in Bound(b) :
          e \in Owned /\ Sealed(e) = files[Result(b)].bindings[e])'
  BY OwnerIs, PTL
<1> QED BY <1>1 DEF AuthoringInv

\* What was attributed stays attributed and sealed as it was.
LEMMA SealsStay ==
  ASSUME AuthoringInv, AuthoringInv', Grows
  PROVE  Owned \subseteq Owned' /\ \A e \in Owned : Sealed(e)' = Sealed(e)
<1> SUFFICES ASSUME NEW e \in Owned PROVE e \in Owned' /\ Sealed(e)' = Sealed(e)
  OBVIOUS
<1>1. PICK b \in Results : e \in Bound(b) BY DEF Owned
<1>2. b \in Batches /\ Written(Result(b)) /\ Result(b) \in Files
  BY <1>1, Kinds DEF Results
<1>3. Written(Result(b))' /\ files'[Result(b)] = files[Result(b)] BY <1>2 DEF Grows
<1>4. b \in Results' /\ e \in Bound(b)' BY <1>1, <1>2, <1>3 DEF Results, Bound
<1>5. Sealed(e) = files[Result(b)].bindings[e] BY <1>1, OwnerIs DEF AuthoringInv
<1>6. e \in Owned' /\ Sealed(e)' = files'[Result(b)].bindings[e] BY <1>4, OwnerStays
<1> QED BY <1>3, <1>5, <1>6

\* So do the receipts, and what depends on them.
LEMMA ReceiptsStay ==
  ASSUME AuthoringInv, AuthoringInv', Grows
  PROVE  /\ Amended \subseteq Amended'
         /\ \A o \in Amended : Receipt(o)' = Receipt(o)
         /\ \A e : Chain(e) \subseteq Chain(e)'
         /\ \A d : Rooted(d) => Rooted(d)'
         /\ \A e : Straight(e)' => Straight(e)
         /\ \A d : Follows(d)' => Follows(d)
<1>1. \A o \in Amended : o \in Amended' /\ Receipt(o)' = Receipt(o)
  BY Kinds DEF Grows, Amended, Receipt
<1>2. \A e : \A o \in Chain(e) : o \in Chain(e)' /\ Receipt(o)' = Receipt(o)
  BY <1>1 DEF Chain, Receipt
<1>3. Owned \subseteq Owned' /\ \A e \in Owned : Sealed(e)' = Sealed(e) BY SealsStay
<1>4. ASSUME NEW d, Rooted(d) PROVE Rooted(d)'
  <2>1. /\ d.entry \in Owned /\ d.old # d.new
        /\ d.sequence = 1 => d.old = Sealed(d.entry)
    BY <1>4 DEF Rooted
  <2>2. \A i \in 1..(d.sequence - 1) : \E p \in Chain(d.entry)' : Receipt(p)'.sequence = i
    BY <1>2, <1>4 DEF Rooted
  <2>3. d.sequence > 1 =>
          \E p \in Chain(d.entry)' :
            Receipt(p)'.sequence = d.sequence - 1 /\ d.old = Receipt(p)'.new
    BY <1>2, <1>4 DEF Rooted
  <2> QED BY <1>3, <2>1, <2>2, <2>3 DEF Rooted
<1>5. ASSUME NEW e, Straight(e)' PROVE Straight(e)
  <2>1. Linked(e) BY <1>2, <1>5 DEF Straight, Linked
  <2>2. NeverReturns(e) BY <1>2, <1>5 DEF Straight, NeverReturns, Receipt
  <2> QED BY <2>1, <2>2 DEF Straight
<1>6. \A d : Follows(d)' => Follows(d) BY <1>2 DEF Follows
<1> QED BY <1>1, <1>2, <1>4, <1>5, <1>6

\* The chain of an Entry that no file joins.
LEMMA ChainSame ==
  ASSUME AuthoringInv, AuthoringInv', Grows, Amended' = Amended
  PROVE  \A e : Chain(e)' = Chain(e)
<1>1. \A o \in Amended : Receipt(o)' = Receipt(o) BY ReceiptsStay
<1> QED BY <1>1 DEF Chain, Receipt

\* An Entry whose chain, content and attribution stay keeps up.
LEMMA KeepsUpStays ==
  ASSUME AuthoringInv, AuthoringInv', Grows, NEW e \in Owned, KeepsUp(e),
         Chain(e)' = Chain(e), entries'[e] = entries[e]
  PROVE  KeepsUp(e)'
<1>1. /\ \A o \in Chain(e) : Receipt(o)' = Receipt(o)
      /\ Straight(e)' => Straight(e)
      /\ Sealed(e)' = Sealed(e)
  BY ReceiptsStay, SealsStay DEF Chain
<1> QED BY <1>1 DEF KeepsUp

\* What a call relies on stands while others write, if they leave its Entry,
\* its chain and its budget alone.
LEMMA SincereStays ==
  ASSUME AuthoringInv, AuthoringInv', Grows, NEW k, Sincere(k),
         Planned(k) /\ Straight(k.document.entry)' /\ Follows(k.document)'
           => entries'[k.document.entry] = entries[k.document.entry],
         Poised(k) /\ Straight(k.document.entry)'
           => Chain(k.document.entry)' = Chain(k.document.entry),
         \A b \in Batches :
           k # NULL /\ k.phase \in {"decided", "created"} =>
             /\ k.file = Result(b) /\ ~Written(Result(b))' =>
                  \A e \in DOMAIN k.document.bindings : entries'[e] = entries[e]
             /\ k.file = Claim(b) /\ files'[Claim(b)] = NULL =>
                  /\ files[Claim(b)] = NULL
                  /\ Estimate(b) <= Remaining => Estimate(b) <= Remaining'
                  /\ Owned' = Owned
  PROVE  Sincere(k)'
<1>1. Promised(k)'
  <2> SUFFICES ASSUME Planned(k)
               PROVE  /\ Rooted(k.document)'
                      /\ Straight(k.document.entry)' /\ Follows(k.document)'
                           => entries'[k.document.entry] = k.document.old
    BY DEF Promised, Planned, Amending
  <2>1. /\ Rooted(k.document)
        /\ Straight(k.document.entry) /\ Follows(k.document)
             => entries[k.document.entry] = k.document.old
    BY DEF Sincere, Promised
  <2>2. Rooted(k.document)' BY <2>1, ReceiptsStay
  <2>3. /\ Straight(k.document.entry)' => Straight(k.document.entry)
        /\ Follows(k.document)' => Follows(k.document)
    BY ReceiptsStay
  <2> QED BY <2>1, <2>2, <2>3
<1>2. Receipted(k)'
  BY ReceiptsStay DEF Sincere, Receipted, Applying
<1>3. Latest(k)'
  <2> SUFFICES ASSUME Poised(k), Straight(k.document.entry)',
                      NEW o \in Chain(k.document.entry)'
               PROVE  Receipt(o)'.sequence <= k.document.sequence
    BY DEF Latest, Poised
  <2>1. o \in Chain(k.document.entry) /\ Straight(k.document.entry)
    BY ReceiptsStay
  <2>2. Receipt(o)' = Receipt(o) BY <2>1, ReceiptsStay DEF Chain
  <2> QED BY <2>1, <2>2 DEF Sincere, Latest
<1>4. Observed(k)'
  <2> SUFFICES ASSUME k # NULL, k.phase \in {"decided", "created"},
                      NEW b \in Batches, k.file = Result(b), ~Written(Result(b))',
                      NEW e \in DOMAIN k.document.bindings
               PROVE  entries'[e] # NULL /\ k.document.bindings[e] = entries'[e]
    BY DEF Observed
  <2>1. ~Written(Result(b)) BY Kinds DEF Grows
  <2> QED BY <2>1 DEF Sincere, Observed
<1>5. Covered(k)'
  <2> SUFFICES ASSUME k # NULL, k.phase \in {"decided", "created"},
                      NEW b \in Batches, k.file = Claim(b), files'[Claim(b)] = NULL
               PROVE  Estimate(b) <= Remaining' /\ Cardinality(Owned') < MaxEntries
    BY DEF Covered, Estimate, FirstUnit, LastUnit
  <2>1. Estimate(b) <= Remaining /\ Cardinality(Owned) < MaxEntries
    BY DEF Sincere, Covered
  <2> QED BY <2>1
<1> QED BY <1>1, <1>2, <1>3, <1>4, <1>5 DEF Sincere

\* Calls stay apart while chains only grow, if the document of neither changes.
LEMMA ApartStays ==
  ASSUME AuthoringInv, AuthoringInv', Grows, NEW k, NEW m, Apart(k, m)
  PROVE  Apart(k, m)'
BY ReceiptsStay DEF Apart, Poised, Planned, Amending

-----------------------------------------------------------------------------
(* The budget.                                                             *)

\* A union of intervals over finitely many names is finite.
LEMMA TokensFinite ==
  ASSUME NEW S, IsFiniteSet(S), NEW g, \A s \in S : g[s] \in Nat
  PROVE  IsFiniteSet(UNION {{s} \X (1..g[s]) : s \in S})
<1> DEFINE T == {{s} \X (1..g[s]) : s \in S}
           f == [s \in S |-> {s} \X (1..g[s])]
<1>1. f \in Surjection(S, T) BY DEF Surjection
<1>2. IsFiniteSet(T)
  <2> HIDE DEF f, T
  <2> QED BY <1>1, FS_Surjection
<1>3. \A s \in S : IsFiniteSet({s} \X (1..g[s]))
  <2> SUFFICES ASSUME NEW s \in S PROVE IsFiniteSet({s} \X (1..g[s]))
    OBVIOUS
  <2>1. g[s] \in Int /\ 1 \in Int OBVIOUS
  <2>2. IsFiniteSet(1..g[s]) BY <2>1, FS_Interval
  <2>3. IsFiniteSet({s}) BY FS_Singleton
  <2> QED BY <2>2, <2>3, FS_Product
<1>4. \A U \in T : IsFiniteSet(U) BY <1>3
<1>5. IsFiniteSet(UNION T)
  <2> HIDE DEF T
  <2> QED BY <1>2, <1>4, FS_UNION
<1> QED BY <1>5

\* What is granted is a number of tokens.
LEMMA TotalNat ==
  AuthoringTypeOK =>
    IsFiniteSet(Granted) /\ Cardinality(Granted) \in Nat /\ Total \in Nat
<1> SUFFICES ASSUME AuthoringTypeOK
             PROVE  IsFiniteSet(Granted) /\ Cardinality(Granted) \in Nat /\ Total \in Nat
  OBVIOUS
<1> DEFINE g == [o \in Extended |-> files[Budget(o)]]
<1>1. Extended \subseteq Ops BY DEF Extended
<1>2. IsFiniteSet(Extended) BY <1>1, SizeAssumption, FS_Subset
<1>3. \A o \in Extended : g[o] \in Nat /\ g[o] = files[Budget(o)]
  BY DEF AuthoringTypeOK, Extended
<1>4. Granted = UNION {{o} \X (1..g[o]) : o \in Extended}
  BY <1>3 DEF Granted
<1> HIDE DEF g
<1>5. IsFiniteSet(Granted) BY <1>2, <1>3, <1>4, TokensFinite
<1>6. Cardinality(Granted) \in Nat BY <1>5, FS_CardinalityType
<1> QED BY <1>5, <1>6, SizeAssumption DEF Total

\* What is used up is a number of tokens.
LEMMA UsedNat ==
  ASSUME AuthoringTypeOK PROVE Used \in Nat
<1> DEFINE g == [b \in Results |-> files[Result(b)].used]
<1>1. Results \subseteq Batches /\ IsFiniteSet(Batches)
  BY BatchesNat, FS_Interval DEF Results, Batches
<1>2. IsFiniteSet(Results) BY <1>1, FS_Subset
<1>3. \A b \in Results : g[b] \in Nat /\ g[b] = files[Result(b)].used
  BY DEF AuthoringTypeOK
<1>4. Spent = UNION {{b} \X (1..g[b]) : b \in Results}
  BY <1>3 DEF Spent
<1> HIDE DEF g
<1>5. IsFiniteSet(Spent) BY <1>2, <1>3, <1>4, TokensFinite
<1> QED BY <1>5, FS_CardinalityType DEF Used

\* An estimate is a number.
LEMMA EstimateInt == ASSUME NEW b \in Batches PROVE Estimate(b) \in Int
<1>1. b \in Nat /\ BatchSize \in Nat /\ UnitCount \in Nat /\ TokensPerUnit \in Nat
  BY BatchesNat, SizeAssumption
<1>2. b * BatchSize \in Int /\ (b - 1) * BatchSize \in Int BY <1>1
<1>3. FirstUnit(b) \in Int /\ LastUnit(b) \in Int BY <1>1, <1>2 DEF FirstUnit, LastUnit
<1>4. LastUnit(b) - FirstUnit(b) + 1 \in Int BY <1>3
<1> QED BY <1>1, <1>4 DEF Estimate

\* Until another result is there, what is left of the budget does not shrink.
LEMMA RemainingStays ==
  ASSUME AuthoringInv, AuthoringInv', Grows, Results' = Results, NEW b \in Batches,
         Estimate(b) <= Remaining
  PROVE  Estimate(b) <= Remaining'
<1>1. Spent' = Spent
  <2>1. \A c \in Results : files'[Result(c)] = files[Result(c)]
    BY Kinds DEF Results, Grows
  <2>2. \A x : x \in Spent <=> \E c \in Results : x \in {c} \X (1..files[Result(c)].used)
    BY DEF Spent
  <2>3. \A x : x \in Spent' <=> \E c \in Results' : x \in {c} \X (1..files'[Result(c)].used)
    BY DEF Spent
  <2>4. \A x : x \in Spent' <=> x \in Spent BY <2>1, <2>2, <2>3
  <2> QED BY <2>4
<1>2. Granted \subseteq Granted'
  <2>1. \A o \in Extended : o \in Extended' /\ files'[Budget(o)] = files[Budget(o)]
    BY Kinds DEF Extended, Grows
  <2>2. \A x : x \in Granted <=> \E o \in Extended : x \in {o} \X (1..files[Budget(o)])
    BY DEF Granted
  <2>3. \A x : x \in Granted' <=> \E o \in Extended' : x \in {o} \X (1..files'[Budget(o)])
    BY DEF Granted
  <2>4. \A x : x \in Granted => x \in Granted' BY <2>1, <2>2, <2>3
  <2> QED BY <2>4
<1>3. AuthoringTypeOK /\ AuthoringTypeOK' BY DEF AuthoringInv
<1>4. /\ IsFiniteSet(Granted) /\ Cardinality(Granted) \in Nat /\ Total \in Nat
      /\ Used \in Nat
  BY <1>3, TotalNat, UsedNat
<1>5. (IsFiniteSet(Granted) /\ Cardinality(Granted) \in Nat /\ Total \in Nat)'
  BY <1>3, TotalNat, PTL
<1>6. Cardinality(Granted) <= Cardinality(Granted') BY <1>2, <1>5, FS_Subset
<1>7. Total <= Total' BY <1>4, <1>5, <1>6, SizeAssumption DEF Total
<1>8. Used' = Used BY <1>1 DEF Used
<1>9. Remaining <= Remaining' /\ Remaining \in Int /\ Remaining' \in Int
  <2>1. /\ Remaining = IF Total > Used THEN Total - Used ELSE 0
        /\ Remaining' = IF Total' > Used THEN Total' - Used ELSE 0
    BY <1>8 DEF Remaining
  <2>2. ASSUME NEW t \in Int, NEW s \in Int, NEW u \in Int, t <= s
        PROVE  LET x == IF t > u THEN t - u ELSE 0
                   y == IF s > u THEN s - u ELSE 0
               IN  x <= y /\ x \in Int /\ y \in Int
    BY <2>2
  <2>3. Total \in Int /\ Total' \in Int /\ Used \in Int BY <1>4, <1>5
  <2> HIDE DEF Total, Used
  <2> QED BY <1>7, <2>1, <2>2, <2>3
<1> QED BY <1>9, EstimateInt

-----------------------------------------------------------------------------
(* The steps that write no file keep the invariant of the amendments.      *)

\* A call that is no amendment, or none any more.
LEMMA NoAmendment ==
  ASSUME NEW k, k = NULL \/ (~Amending(k) /\ k.phase \in {"decided", "created"})
  PROVE  /\ Promised(k) /\ Receipted(k) /\ Latest(k)
         /\ \A x : Apart(k, x) /\ Apart(x, k)
BY DEF Promised, Receipted, Latest, Apart, Planned, Amending, Poised, Applying

\* A call that has ended relies on nothing.
LEMMA EndedSincere ==
  Sincere(NULL) /\ \A x : Apart(NULL, x) /\ Apart(x, NULL)
BY NoAmendment DEF Sincere, Observed, Covered

\* A call that writes neither claim, result nor amendment.
LEMMA PlainSincere ==
  ASSUME NEW k, k.phase = "decided",
         k.file \in {SourceFile, PlanFile} \/ \E o \in Ops : k.file = Budget(o)
  PROVE  Sincere(k) /\ \A x : Apart(k, x) /\ Apart(x, k)
<1>1. ~Amending(k) BY Names DEF Amending
<1>2. Observed(k) /\ Covered(k) BY Names DEF Observed, Covered
<1> QED BY <1>1, <1>2, NoAmendment DEF Sincere

\* Files that do not change grow.
LEMMA SameGrows ==
  ASSUME AuthoringInv, UNCHANGED files
  PROVE  Grows /\ Amended' = Amended /\ Results' = Results /\ Owned' = Owned
<1>1. \A f : Written(f)' <=> Written(f) BY DEF Written
<1>2. Amended' = Amended /\ Results' = Results BY <1>1 DEF Amended, Results
<1>3. \A b \in Results : Bound(b)' = Bound(b) BY DEF Bound
<1> QED BY <1>1, <1>2, <1>3 DEF Grows, Owned

\* A step that changes no file: a new or continued call has to be sincere, and
\* what it does to the Entries must not concern the others.
LEMMA CallsMove ==
  ASSUME AuthoringInv, AuthoringInv', AmendmentsInv, UNCHANGED files,
         NEW a \in Authors, NEW m, call' = [call EXCEPT ![a] = m], Sincere(m),
         \A c \in Authors : \A k : call[c] = k => Apart(k, m) /\ Apart(m, k),
         \A e \in Owned : entries'[e] # NULL /\ KeepsUp(e)',
         \A k : k = m \/ (\E c \in Authors \ {a} : call[c] = k) =>
           /\ Planned(k) /\ Straight(k.document.entry) /\ Follows(k.document)
                => entries'[k.document.entry] = entries[k.document.entry]
           /\ \A b \in Batches :
                /\ k # NULL /\ k.phase \in {"decided", "created"}
                /\ k.file = Result(b) /\ ~Written(Result(b))
                => \A e \in DOMAIN k.document.bindings : entries'[e] = entries[e]
  PROVE  AmendmentsInv'
<1>1. Grows /\ Amended' = Amended /\ Results' = Results /\ Owned' = Owned
  BY SameGrows
<1>2. \A e : Chain(e)' = Chain(e) BY <1>1, ChainSame
<1>3. \A o \in Amended' : Rooted(Receipt(o))'
  <2> SUFFICES ASSUME NEW o \in Amended PROVE Rooted(Receipt(o))'
    BY <1>1
  <2> PICK d : d = Receipt(o) OBVIOUS
  <2>1. Rooted(d) BY DEF AmendmentsInv
  <2>2. Rooted(d)' BY <1>1, <2>1, ReceiptsStay
  <2>3. Receipt(o)' = d BY DEF Receipt
  <2> QED BY <2>2, <2>3 DEF Rooted
<1>4. \A k : k = m \/ (\E c \in Authors \ {a} : call[c] = k) => Sincere(k)'
  <2> SUFFICES ASSUME NEW k, k = m \/ \E c \in Authors \ {a} : call[c] = k
               PROVE  Sincere(k)'
    OBVIOUS
  <2>1. Sincere(k) BY DEF AmendmentsInv
  <2>2. Planned(k) /\ Straight(k.document.entry)' /\ Follows(k.document)'
          => entries'[k.document.entry] = entries[k.document.entry]
    BY <1>1, ReceiptsStay
  <2>3. \A b \in Batches : Written(Result(b))' <=> Written(Result(b)) BY DEF Written
  <2>4. \A b \in Batches : Estimate(b) <= Remaining => Estimate(b) <= Remaining'
    BY <1>1, RemainingStays
  <2>5. \A b \in Batches :
          k # NULL /\ k.phase \in {"decided", "created"} =>
             /\ k.file = Result(b) /\ ~Written(Result(b))' =>
                  \A e \in DOMAIN k.document.bindings : entries'[e] = entries[e]
             /\ k.file = Claim(b) /\ files'[Claim(b)] = NULL =>
                  /\ files[Claim(b)] = NULL
                  /\ Estimate(b) <= Remaining => Estimate(b) <= Remaining'
                  /\ Owned' = Owned
    BY <1>1, <2>3, <2>4
  <2> QED BY <1>1, <1>2, <2>1, <2>2, <2>5, SincereStays
<1>5. \A b \in Authors : call'[b] = IF b = a THEN m ELSE call[b]
  BY DEF AuthoringInv
<1>6. \A c \in Authors : \A k : call'[c] = k => Sincere(k)'
  BY <1>4, <1>5
<1>7. \A b, c \in Authors : \A k, l : call'[b] = k /\ call'[c] = l => Apart(k, l)'
  <2> SUFFICES ASSUME NEW b \in Authors, NEW c \in Authors, NEW k, NEW l,
                      call'[b] = k, call'[c] = l
               PROVE  Apart(k, l)'
    OBVIOUS
  <2>1. Apart(k, l)
    <3>1. CASE b = a /\ c = a
      BY <3>1, <1>5 DEF Apart, Poised, Planned
    <3>2. CASE b # a /\ c = a BY <3>2, <1>5
    <3>3. CASE b = a /\ c # a BY <3>3, <1>5
    <3>4. CASE b # a /\ c # a BY <3>4, <1>5 DEF AmendmentsInv
    <3> QED BY <3>1, <3>2, <3>3, <3>4
  <2> QED BY <1>1, <2>1, ApartStays
<1> QED BY <1>1, <1>3, <1>6, <1>7 DEF AmendmentsInv

\* If it leaves the Entries alone, too, nothing else is asked of it.
LEMMA CallsOnly ==
  ASSUME AuthoringInv, AuthoringInv', AmendmentsInv, UNCHANGED <<files, entries>>,
         NEW a \in Authors, NEW m, call' = [call EXCEPT ![a] = m], Sincere(m),
         \A c \in Authors : \A k : call[c] = k => Apart(k, m) /\ Apart(m, k)
  PROVE  AmendmentsInv'
<1>1. Grows /\ Amended' = Amended BY SameGrows
<1>2. \A e \in Owned : entries'[e] # NULL /\ KeepsUp(e)'
  <2> SUFFICES ASSUME NEW e \in Owned PROVE entries'[e] # NULL /\ KeepsUp(e)'
    OBVIOUS
  <2>1. entries[e] # NULL /\ KeepsUp(e) /\ entries'[e] = entries[e]
    BY DEF AmendmentsInv
  <2>2. Chain(e)' = Chain(e) BY <1>1, ChainSame
  <2> QED BY <1>1, <2>1, <2>2, KeepsUpStays
<1> QED BY <1>2, CallsMove

\* A call that ends, whoever's.
LEMMA EndSincere ==
  ASSUME AuthoringInv, AuthoringInv', AmendmentsInv, UNCHANGED <<files, entries>>,
         NEW a \in Authors, End(a)
  PROVE  AmendmentsInv'
BY EndedSincere, CallsOnly DEF End

\* plan touches nothing that amendments depend on.
LEMMA PlanSincere ==
  ASSUME AuthoringInv, AuthoringInv', AmendmentsInv, NEW a \in Authors, CallPlan(a)
  PROVE  AmendmentsInv'
<1>0. PICK file \in {SourceFile, PlanFile} : \E d : Call(a, "decided", file, d, NULL)
  BY DEF CallPlan
<1>1. PICK d : Call(a, "decided", file, d, NULL)
  BY <1>0
<1>2. file \in Files /\ "decided" \in Phases BY Kinds DEF Phases
<1>3. PICK k : /\ call' = [call EXCEPT ![a] = k] /\ Shaped(k)
               /\ k.phase = "decided" /\ k.file = file
  BY <1>1, <1>2, CallRecordOf
<1>4. Sincere(k) /\ \A x : Apart(k, x) /\ Apart(x, k) BY <1>3, PlainSincere
<1> QED BY <1>3, <1>4, CallsOnly DEF CallPlan

\* Nor does add-budget.
LEMMA ExtendSincere ==
  ASSUME AuthoringInv, AuthoringInv', AmendmentsInv, NEW a \in Authors, CallExtend(a)
  PROVE  AmendmentsInv'
<1>1. PICK x \in Extensions : Call(a, "decided", Budget(x.op), x.added, NULL)
  BY DEF CallExtend
<1>2. x.op \in Ops BY RequestAssumption
<1>3. Budget(x.op) \in Files /\ "decided" \in Phases BY <1>2, Kinds DEF Phases
<1>4. PICK k : /\ call' = [call EXCEPT ![a] = k] /\ Shaped(k)
               /\ k.phase = "decided" /\ k.file = Budget(x.op)
  BY <1>1, <1>3, CallRecordOf
<1>5. Sincere(k) /\ \A y : Apart(k, y) /\ Apart(y, k) BY <1>2, <1>4, PlainSincere
<1> QED BY <1>4, <1>5, CallsOnly DEF CallExtend

\* A claim that is decided is covered.
LEMMA NextSincere ==
  ASSUME AuthoringInv, AuthoringInv', AmendmentsInv, NEW a \in Authors, CallNext(a)
  PROVE  AmendmentsInv'
<1>1. PICK b \in Pending :
        MayClaim(b) /\ Call(a, "decided", Claim(b), [batch |-> b], NULL)
  BY DEF CallNext
<1>2. b \in Batches /\ Claim(b) \in Files /\ "decided" \in Phases
  BY <1>1, Kinds DEF Pending, Phases
<1>3. PICK k : /\ call' = [call EXCEPT ![a] = k] /\ Shaped(k)
               /\ k.phase = "decided" /\ k.file = Claim(b)
  BY <1>1, <1>2, CallRecordOf
<1>4. ~Amending(k) BY <1>3, Names DEF Amending
<1>5. Observed(k) BY <1>3, Names DEF Observed
<1>6. Covered(k) BY <1>1, <1>3, Names DEF Covered, MayClaim
<1>7. Sincere(k) /\ \A x : Apart(k, x) /\ Apart(x, k)
  BY <1>3, <1>4, <1>5, <1>6, NoAmendment DEF Sincere
<1> QED BY <1>3, <1>7, CallsOnly DEF CallNext

\* A result that is decided seals what the Workspace holds.
LEMMA RecordSincere ==
  ASSUME AuthoringInv, AuthoringInv', AmendmentsInv, NEW a \in Authors, CallRecord(a)
  PROVE  AmendmentsInv'
<1>0. PICK r \in Reports :
        /\ MayRecord(r)
        /\ Call(a, "decided", Result(r.batch),
                [used |-> r.used, bindings |-> [e \in r.entries |-> entries[e]]],
                NULL)
  BY DEF CallRecord
<1>1. PICK d :
        /\ d = [used |-> r.used, bindings |-> [e \in r.entries |-> entries[e]]]
        /\ Call(a, "decided", Result(r.batch), d, NULL)
  BY <1>0
<1>2. Result(r.batch) \in Files /\ "decided" \in Phases
  BY RequestAssumption, Kinds DEF Phases
<1>3. DOMAIN d.bindings = r.entries /\ \A e \in r.entries : d.bindings[e] = entries[e]
  BY <1>1
<1>4. PICK k : /\ call' = [call EXCEPT ![a] = k] /\ Shaped(k)
               /\ k.phase = "decided" /\ k.file = Result(r.batch)
               /\ k.document = d
  <2>1. Call(a, "decided", Result(r.batch), d, NULL) BY <1>1
  <2> QED BY <1>2, <2>1, CallRecordOf
<1>5. ~Amending(k) BY <1>4, Names DEF Amending
<1>6. Observed(k)
  <2>1. \A e \in r.entries : entries[e] # NULL BY <1>0 DEF MayRecord
  <2> QED BY <1>3, <1>4, <2>1 DEF Observed
<1>7. Covered(k)
  <2>1. \A b : k.file # Claim(b)
    <3>1. \A b : Claim(b) # Result(r.batch) BY Names, Zenon
    <3> QED BY <1>4, <3>1, Zenon
  <2> QED BY <2>1, Zenon DEF Covered
<1>8. Sincere(k) /\ \A x : Apart(k, x) /\ Apart(x, k)
  BY <1>4, <1>5, <1>6, <1>7, NoAmendment DEF Sincere
<1> QED BY <1>4, <1>8, CallsOnly DEF CallRecord

\* An amendment that is decided on an agreeing Workspace, while no replacement
\* is under way, or that takes up its own receipt.
LEMMA AmendSincere ==
  ASSUME AuthoringInv, AuthoringInv', AmendmentsInv, NEW a \in Authors,
         NEW q \in Amends, CallAmend(a, q)
  PROVE  AmendmentsInv'
<1>1. q.op \in Ops /\ q.entry \in Entries /\ q.old # q.new
  BY RequestAssumption
<1>2. Amendment(q.op) \in Files /\ AuthoringTypeOK BY <1>1, Kinds DEF AuthoringInv
<1>3. CASE Written(Amendment(q.op))
  <2>1. /\ Call(a, "appended", Amendment(q.op), files[Amendment(q.op)], entries[q.entry])
        /\ UNCHANGED <<files, entries, litter, crashes>>
    BY <1>3 DEF CallAmend
  <2>2. "appended" \in Phases BY DEF Phases
  <2>3. PICK k : /\ call' = [call EXCEPT ![a] = k] /\ Shaped(k)
                 /\ k.phase = "appended" /\ k.file = Amendment(q.op)
                 /\ k.document = files[Amendment(q.op)]
    BY <1>2, <2>1, <2>2, CallRecordOf
  <2>4. q.op \in Amended BY <1>1, <1>3 DEF Amended
  <2>5. Sincere(k) /\ \A x : Apart(k, x) /\ Apart(x, k)
    BY <2>3, <2>4 DEF Sincere, Promised, Planned, Receipted, Receipt, Latest, Poised,
                      Observed, Covered, Apart
  <2> QED BY <2>1, <2>3, <2>5, CallsOnly
<1>4. CASE ~Written(Amendment(q.op))
  <2> DEFINE d == [entry |-> q.entry, old |-> q.old, new |-> q.new,
                   sequence |-> Cardinality(Chain(q.entry)) + 1,
                   previous |-> IF Chain(q.entry) = {} THEN NULL ELSE LastOf(q.entry)]
  <2>1. /\ Call(a, "decided", Amendment(q.op), d, entries[q.entry])
        /\ UNCHANGED <<files, entries, litter, crashes>>
        /\ Continuous(q.entry) /\ q.entry \in Owned
        /\ ValidWorkspace /\ Effective(q.entry) = q.old /\ entries[q.entry] = q.old
    BY <1>1, <1>4 DEF CallAmend, MayReplace, Readable, MayAmend
  <2>2. /\ d.entry = q.entry /\ d.old = q.old /\ d.new = q.new
        /\ d.sequence = Cardinality(Chain(q.entry)) + 1
    OBVIOUS
  <2> HIDE DEF d
  <2>3. /\ \A i \in 1..Cardinality(Chain(q.entry)) :
             \E o \in Chain(q.entry) : Receipt(o).sequence = i
        /\ \A o \in Chain(q.entry) : Receipt(o).sequence \in 1..Cardinality(Chain(q.entry))
        /\ Chain(q.entry) = {} =>
             Cardinality(Chain(q.entry)) = 0 /\ Effective(q.entry) = Sealed(q.entry)
        /\ Chain(q.entry) # {} =>
             /\ Cardinality(Chain(q.entry)) > 0
             /\ LastOf(q.entry) \in Chain(q.entry)
             /\ Receipt(LastOf(q.entry)).sequence = Cardinality(Chain(q.entry))
             /\ Effective(q.entry) = Receipt(LastOf(q.entry)).new
    BY <1>2, <2>1, ContinuousChain
  <2>4. PICK n \in Nat : n = Cardinality(Chain(q.entry)) BY <1>2, ChainFinite
  <2>5. Rooted(d)
    <3>1. d.sequence = n + 1 /\ d.sequence - 1 = n BY <2>2, <2>4
    <3>2. d.sequence = 1 => d.old = Sealed(d.entry)
      <4>1. n > 0 \/ Chain(q.entry) = {} BY <2>3, <2>4
      <4> QED BY <2>1, <2>2, <2>3, <3>1, <4>1
    <3>3. d.sequence > 1 =>
            \E p \in Chain(d.entry) :
              Receipt(p).sequence = d.sequence - 1 /\ d.old = Receipt(p).new
      <4>1. d.sequence > 1 => Chain(q.entry) # {} BY <2>3, <2>4, <3>1
      <4> QED BY <2>1, <2>2, <2>3, <2>4, <3>1, <4>1
    <3>4. \A i \in 1..(d.sequence - 1) :
            \E p \in Chain(d.entry) : Receipt(p).sequence = i
      BY <2>2, <2>3, <2>4, <3>1
    <3>5. d.entry \in Owned /\ d.old # d.new BY <1>1, <2>1, <2>2
    <3> QED BY <3>2, <3>3, <3>4, <3>5 DEF Rooted
  <2>6. "decided" \in Phases BY DEF Phases
  <2>7. PICK k : /\ call' = [call EXCEPT ![a] = k] /\ Shaped(k)
                 /\ k.phase = "decided" /\ k.file = Amendment(q.op)
                 /\ k.document = d
    BY <1>2, <2>1, <2>6, CallRecordOf
  <2>8. Promised(k) BY <2>1, <2>2, <2>5, <2>7 DEF Promised
  <2>9. Sincere(k)
    BY <2>7, <2>8, Names
       DEF Sincere, Receipted, Applying, Latest, Poised, Observed, Covered
  <2>10. \A c \in Authors : \A x : call[c] = x => Apart(x, k) /\ Apart(k, x)
    BY <2>1, <2>7 DEF ValidWorkspace, Apart, Poised
  <2> QED BY <2>1, <2>7, <2>9, <2>10, CallsOnly
<1> QED BY <1>3, <1>4

\* Where a call goes when its file holds its document, with what it carries.
LEMMA ProceedTo ==
  ASSUME AuthoringInv, NEW a \in Authors, call[a] # NULL,
         call[a].phase \in {"decided", "created"}, Proceed(a)
  PROVE  \E k : /\ call' = [call EXCEPT ![a] = k]
                /\ \/ k = NULL
                   \/ /\ k.phase = "appended" /\ k.file = call[a].file
                      /\ k.document = call[a].document
                      /\ \E o \in Ops : k.file = Amendment(o)
                   \/ /\ k.phase = "decided" /\ k.file = PlanFile
                      /\ call[a].file = SourceFile
<1>1. CallSound(call[a]) BY OwnCall
<1>2. CASE call[a].file[1] = "amendment"
  <2>1. \E o \in Ops : call[a].file = Amendment(o)
    BY <1>1, <1>2, Kinds DEF CallSound
  <2>2. "appended" \in Phases BY DEF Phases
  <2> DEFINE m == [call[a] EXCEPT !.phase = "appended"]
  <2>3. m.phase = "appended" /\ m.file = call[a].file /\ m.document = call[a].document
    BY <1>1, <2>2, Continued
  <2>4. call' = [call EXCEPT ![a] = m] BY <1>2 DEF Proceed, SourceFile
  <2> QED BY <2>1, <2>3, <2>4
<1>3. CASE call[a].file[1] # "amendment" /\ call[a].file = SourceFile
  <2>1. Call(a, "decided", PlanFile, "plan", NULL) BY <1>3 DEF Proceed
  <2>2. PlanFile \in Files /\ "decided" \in Phases BY Kinds DEF Phases
  <2>3. PICK k : /\ call' = [call EXCEPT ![a] = k] /\ Shaped(k)
                 /\ k.phase = "decided" /\ k.file = PlanFile
    BY <2>1, <2>2, CallRecordOf
  <2> QED BY <1>3, <2>3
<1>4. CASE call[a].file[1] # "amendment" /\ call[a].file # SourceFile
  <2>1. End(a) BY <1>4 DEF Proceed
  <2> QED BY <2>1 DEF End
<1> QED BY <1>2, <1>3, <1>4

\* An amendment whose receipt is there goes on.
LEMMA AppendedSincere ==
  ASSUME NEW k, k.phase = "appended",
         \E o \in Amended : k.file = Amendment(o) /\ k.document = Receipt(o)
  PROVE  Sincere(k) /\ \A x : Apart(k, x) /\ Apart(x, k)
BY DEF Sincere, Promised, Planned, Receipted, Latest, Poised, Observed, Covered, Apart

\* A call that finds its file created by another process, and goes on only if
\* it holds the very same document.
LEMMA CollideSincere ==
  ASSUME AuthoringInv, AuthoringInv', AmendmentsInv, NEW a \in Authors, Collide(a)
  PROVE  AmendmentsInv'
<1>1. /\ call[a] # NULL /\ call[a].phase = "decided"
      /\ UNCHANGED <<files, entries, litter, crashes>>
  BY DEF Collide, At
<1>2. CASE files[call[a].file] = call[a].document /\ Proceed(a)
  <2>1. PICK k : /\ call' = [call EXCEPT ![a] = k]
                 /\ \/ k = NULL
                    \/ /\ k.phase = "appended" /\ k.file = call[a].file
                       /\ k.document = call[a].document
                       /\ \E o \in Ops : k.file = Amendment(o)
                    \/ k.phase = "decided" /\ k.file = PlanFile
    BY <1>1, <1>2, ProceedTo
  <2>2. Sincere(k) /\ \A x : Apart(k, x) /\ Apart(x, k)
    <3>1. CASE k = NULL BY <3>1, EndedSincere
    <3>2. CASE k.phase = "decided" /\ k.file = PlanFile BY <3>2, PlainSincere
    <3>3. CASE /\ k.phase = "appended" /\ k.file = call[a].file
               /\ k.document = call[a].document
               /\ \E o \in Ops : k.file = Amendment(o)
      <4>1. PICK o \in Ops : k.file = Amendment(o) BY <3>3
      <4>2. k.document \in AmendmentDocument
        <5>1. CallSound(call[a]) BY <1>1, OwnCall
        <5>2. Fitting(call[a]) BY <1>1, <5>1 DEF CallSound
        <5>3. call[a].file = Amendment(o) BY <3>3, <4>1
        <5>4. call[a].document \in AmendmentDocument
          BY <5>2, <5>3 DEF Fitting
        <5> QED BY <3>3, <5>4
      <4>3. Receipt(o) = k.document /\ o \in Amended
        BY <1>2, <3>3, <4>1, <4>2, SentinelAssumption DEF Receipt, Amended, Written
      <4> QED BY <3>3, <4>1, <4>3, AppendedSincere
    <3> QED BY <2>1, <3>1, <3>2, <3>3
  <2> QED BY <1>1, <2>1, <2>2, CallsOnly
<1>3. CASE End(a) BY <1>1, <1>3, EndSincere
<1> QED BY <1>2, <1>3 DEF Collide

\* When an Entry is still what an amendment replaces, the amendment is the last
\* one, and whoever decided on the next has not seen this Entry.
LEMMA StageAllowed ==
  ASSUME AuthoringInv, AmendmentsInv, NEW o \in Amended,
         Straight(Receipt(o).entry), entries[Receipt(o).entry] = Receipt(o).old
  PROVE  /\ \A p \in Chain(Receipt(o).entry) : Receipt(p).sequence <= Receipt(o).sequence
         /\ \A c \in Authors : \A k :
              call[c] = k /\ Planned(k) /\ k.document.entry = Receipt(o).entry
                => k.document.sequence # Receipt(o).sequence + 1
<1> DEFINE e == Receipt(o).entry
<1>0. AuthoringTypeOK BY DEF AuthoringInv
<1>1. /\ o \in Chain(e) /\ Receipt(o).sequence \in Nat \ {0}
      /\ Rooted(Receipt(o)) /\ Receipt(o).old # Receipt(o).new /\ e \in Owned
  BY <1>0, ReceiptFields DEF AmendmentsInv, Rooted
<1>2. /\ Linked(e) /\ KeepsUp(e)
      /\ \A p, r \in Chain(e) : Receipt(r).sequence <= Receipt(p).sequence
           => Receipt(r).old # Receipt(p).new
  BY <1>1 DEF Straight, NeverReturns, Receipt, AmendmentsInv
<1>3. PICK t \in Chain(e) : \A p \in Chain(e) : Receipt(p).sequence <= Receipt(t).sequence
  BY <1>0, <1>1, HighestReceipt DEF AmendmentsInv
<1>4. entries[e] \in {Receipt(t).old, Receipt(t).new} BY <1>2, <1>3 DEF KeepsUp
<1>5. /\ t \in Amended /\ Receipt(t).sequence \in Nat \ {0} /\ Receipt(t).entry = e
      /\ Rooted(Receipt(t))
  BY <1>0, <1>3, ChainFinite DEF AmendmentsInv
<1> HIDE DEF e
<1>6. Receipt(o).sequence = Receipt(t).sequence
  <2> SUFFICES ASSUME Receipt(o).sequence # Receipt(t).sequence PROVE FALSE
    OBVIOUS
  <2>1. Receipt(o).sequence < Receipt(t).sequence
    BY <1>1, <1>3, <1>5
  <2>2. Receipt(o).old # Receipt(t).new BY <1>1, <1>2, <1>3, <2>1
  <2>3. PICK p \in Chain(e) :
          Receipt(p).sequence = Receipt(t).sequence - 1 /\ Receipt(t).old = Receipt(p).new
    BY <1>1, <1>5, <2>1 DEF Rooted
  <2>4. Receipt(o).sequence <= Receipt(p).sequence BY <1>1, <1>5, <2>1, <2>3
  <2>5. Receipt(o).old # Receipt(p).new BY <1>1, <1>2, <2>4
  <2> QED BY <1>4, <2>2, <2>3, <2>5 DEF e
<1>7. \A p \in Chain(e) : Receipt(p).sequence <= Receipt(o).sequence BY <1>3, <1>6
<1>8. ASSUME NEW c \in Authors, NEW k, call[c] = k, Planned(k), k.document.entry = e,
             k.document.sequence = Receipt(o).sequence + 1
      PROVE  FALSE
  <2>1. Promised(k) BY <1>8 DEF AmendmentsInv, Sincere
  <2>2. Rooted(k.document) BY <1>8, <2>1 DEF Promised
  <2>3. Follows(k.document)
    <3>1. \A p \in Chain(e) : Receipt(p).sequence \in Nat BY <1>0, ChainFinite
    <3> QED BY <1>1, <1>7, <1>8, <3>1 DEF Follows
  <2>4. entries[e] = k.document.old BY <1>8, <2>1, <2>3 DEF Promised, e
  <2>5. PICK p \in Chain(e) :
          Receipt(p).sequence = k.document.sequence - 1 /\ k.document.old = Receipt(p).new
    BY <1>1, <1>8, <2>2 DEF Rooted
  <2>6. p = o BY <1>1, <1>2, <1>8, <2>5 DEF Linked
  <2> QED BY <1>1, <2>4, <2>5, <2>6 DEF e
<1> QED BY <1>7, <1>8 DEF e

\* The temporary file is written.
LEMMA StageSincere ==
  ASSUME AuthoringInv, AuthoringInv', AmendmentsInv, NEW a \in Authors, Stage(a)
  PROVE  AmendmentsInv'
<1>1. /\ call[a] # NULL /\ call[a].phase = "appended"
      /\ entries[call[a].document.entry] = call[a].document.old
      /\ call' = [call EXCEPT ![a].phase = "staged"]
      /\ UNCHANGED <<files, entries, litter, crashes>>
  BY DEF Stage, At, MayStage
<1>2. PICK o \in Amended : call[a].file = Amendment(o) /\ call[a].document = Receipt(o)
  BY <1>1 DEF AmendmentsInv, Sincere, Receipted, Applying
<1>3. PICK m : m = [call[a] EXCEPT !.phase = "staged"] OBVIOUS
<1>4. m.phase = "staged" /\ m.file = Amendment(o) /\ m.document = Receipt(o)
  BY <1>1, <1>2, <1>3, OwnCall, Continued DEF Phases
<1>5. Straight(Receipt(o).entry) =>
        /\ \A p \in Chain(Receipt(o).entry) : Receipt(p).sequence <= Receipt(o).sequence
        /\ \A c \in Authors : \A k :
             call[c] = k /\ Planned(k) /\ k.document.entry = Receipt(o).entry
               => k.document.sequence # Receipt(o).sequence + 1
  BY <1>1, <1>2, StageAllowed
<1>6. Sincere(m)
  <2>1. Promised(m) BY <1>4 DEF Promised, Planned
  <2>2. Receipted(m) BY <1>4 DEF Receipted
  <2>3. Latest(m) BY <1>4, <1>5 DEF Latest
  <2>4. Observed(m) /\ Covered(m) BY <1>4 DEF Observed, Covered
  <2> QED BY <2>1, <2>2, <2>3, <2>4 DEF Sincere
<1>7. \A c \in Authors : \A k : call[c] = k => Apart(k, m) /\ Apart(m, k)
  BY <1>4, <1>5 DEF Apart, Planned
<1>8. call' = [call EXCEPT ![a] = m] BY <1>1, <1>3
<1> QED BY <1>1, <1>6, <1>7, <1>8, CallsOnly

\* The Entry is looked at once more.
LEMMA RecheckSincere ==
  ASSUME AuthoringInv, AuthoringInv', AmendmentsInv, NEW a \in Authors, Recheck(a)
  PROVE  AmendmentsInv'
<1>1. /\ call[a] # NULL /\ call[a].phase = "staged"
      /\ UNCHANGED <<files, entries, litter, crashes>>
  BY DEF Recheck, At
<1>2. CASE call' = [call EXCEPT ![a].phase = "checked"]
  <2>1. PICK k : k = call[a] OBVIOUS
  <2>2. PICK m : m = [k EXCEPT !.phase = "checked"] OBVIOUS
  <2>3. /\ m.phase = "checked" /\ m.file = k.file /\ m.document = k.document
        /\ k # NULL /\ k.phase = "staged"
    BY <1>1, <2>1, <2>2, OwnCall, Continued DEF Phases
  <2>4. Sincere(k) BY <2>1 DEF AmendmentsInv
  <2>5. Sincere(m)
    <3>1. Promised(m) BY <2>3 DEF Promised, Planned
    <3>2. Receipted(m) BY <2>3, <2>4 DEF Sincere, Receipted, Applying
    <3>3. Latest(m) BY <2>3, <2>4 DEF Sincere, Latest, Poised
    <3>4. Observed(m) /\ Covered(m) BY <2>3 DEF Observed, Covered
    <3> QED BY <3>1, <3>2, <3>3, <3>4 DEF Sincere
  <2>6. \A c \in Authors : \A x : call[c] = x => Apart(x, m) /\ Apart(m, x)
    <3> SUFFICES ASSUME NEW c \in Authors, NEW x, call[c] = x
                 PROVE  Apart(x, m) /\ Apart(m, x)
      OBVIOUS
    <3>1. Apart(k, x) BY <2>1 DEF AmendmentsInv
    <3> QED BY <2>3, <3>1 DEF Apart, Planned, Poised
  <2>7. call' = [call EXCEPT ![a] = m] BY <1>2, <2>1, <2>2
  <2> QED BY <1>1, <2>5, <2>6, <2>7, CallsOnly
<1>3. CASE End(a) BY <1>1, <1>3, EndSincere
<1> QED BY <1>2, <1>3 DEF Recheck

\* What a replacement does: it applies the last amendment of its Entry, and
\* nobody is about to append the next.
LEMMA ReplaceApplies ==
  ASSUME AuthoringInv, AmendmentsInv, NEW a \in Authors, Replace(a)
  PROVE  \E o \in Amended :
           LET e == Receipt(o).entry
           IN  /\ e \in Owned
               /\ entries' = [entries EXCEPT ![e] = Receipt(o).new]
               /\ Straight(e) =>
                    /\ \A p \in Chain(e) : Receipt(p).sequence <= Receipt(o).sequence
                    /\ \A c \in Authors : \A k :
                         call[c] = k /\ Planned(k) /\ k.document.entry = e
                           => k.document.sequence # Receipt(o).sequence + 1
<1>1. PICK k : k = call[a] OBVIOUS
<1>2. /\ k # NULL /\ k.phase = "checked"
      /\ entries' = [entries EXCEPT ![k.document.entry] = k.document.new]
  BY <1>1 DEF Replace, At
<1>3. Sincere(k) /\ \A c \in Authors : \A x : call[c] = x => Apart(k, x)
  BY <1>1 DEF AmendmentsInv
<1>4. PICK o \in Amended : k.document = Receipt(o)
  BY <1>2, <1>3 DEF Sincere, Receipted, Applying
<1>5. Receipt(o).entry \in Owned BY DEF AmendmentsInv, Rooted
<1>6. Straight(Receipt(o).entry) =>
        \A p \in Chain(Receipt(o).entry) : Receipt(p).sequence <= Receipt(o).sequence
  BY <1>2, <1>3, <1>4 DEF Sincere, Latest, Poised
<1>7. Straight(Receipt(o).entry) =>
        \A c \in Authors : \A x :
          call[c] = x /\ Planned(x) /\ x.document.entry = Receipt(o).entry
            => x.document.sequence # Receipt(o).sequence + 1
  BY <1>2, <1>3, <1>4 DEF Apart, Poised
<1> QED BY <1>2, <1>4, <1>5, <1>6, <1>7

\* The temporary file replaces the Entry.
LEMMA ReplaceSincere ==
  ASSUME AuthoringInv, AuthoringInv', AmendmentsInv, NEW a \in Authors, Replace(a)
  PROVE  AmendmentsInv'
<1>0. AuthoringTypeOK /\ UNCHANGED files /\ call' = [call EXCEPT ![a] = NULL]
  BY DEF AuthoringInv, Replace, End
<1>1. PICK o \in Amended :
        LET e == Receipt(o).entry
        IN  /\ e \in Owned
            /\ entries' = [entries EXCEPT ![e] = Receipt(o).new]
            /\ Straight(e) =>
                 /\ \A p \in Chain(e) : Receipt(p).sequence <= Receipt(o).sequence
                 /\ \A c \in Authors : \A k :
                      call[c] = k /\ Planned(k) /\ k.document.entry = e
                        => k.document.sequence # Receipt(o).sequence + 1
  BY ReplaceApplies
<1>2. PICK e : e = Receipt(o).entry OBVIOUS
<1>3. /\ e \in Entries /\ o \in Chain(e) /\ Receipt(o).new \in Content
      /\ Receipt(o).sequence \in Nat \ {0}
  BY <1>0, <1>2, ReceiptFields
<1>4. /\ entries'[e] = Receipt(o).new
      /\ \A x : x # e => entries'[x] = entries[x]
  <2>1. DOMAIN entries = Entries /\ entries' = [entries EXCEPT ![e] = Receipt(o).new]
    BY <1>1, <1>2 DEF AuthoringInv
  <2> QED BY <1>3, <2>1
<1>5. Grows /\ Amended' = Amended BY <1>0, SameGrows
<1>6. \A x : Chain(x)' = Chain(x) BY <1>5, ChainSame
<1>7. \A x \in Owned : entries'[x] # NULL /\ KeepsUp(x)'
  <2> SUFFICES ASSUME NEW x \in Owned PROVE entries'[x] # NULL /\ KeepsUp(x)'
    OBVIOUS
  <2>1. CASE x # e
    BY <1>4, <1>5, <1>6, <2>1, KeepsUpStays DEF AmendmentsInv
  <2>2. CASE x = e
    <3>1. entries'[e] # NULL BY <1>3, <1>4, SentinelAssumption
    <3>2. KeepsUp(e)'
      <4> SUFFICES ASSUME Straight(e)', NEW t \in Chain(e)',
                          \A p \in Chain(e)' : Receipt(p)'.sequence <= Receipt(t)'.sequence
                   PROVE  entries'[e] \in {Receipt(t)'.old, Receipt(t)'.new}
        BY <1>3, <1>6 DEF KeepsUp
      <4>1. Straight(e) /\ t \in Chain(e) /\ \A p \in Chain(e) : Receipt(p)' = Receipt(p)
        BY <1>5, <1>6, ReceiptsStay DEF Chain
      <4>2. Receipt(t).sequence <= Receipt(o).sequence BY <1>1, <1>2, <4>1
      <4>3. Receipt(o).sequence <= Receipt(t).sequence BY <1>3, <1>6, <4>1
      <4>4. Receipt(t).sequence = Receipt(o).sequence
        BY <1>0, <1>3, <4>1, <4>2, <4>3, ChainFinite
      <4>5. t = o BY <1>3, <4>1, <4>4 DEF Straight, Linked
      <4> QED BY <1>4, <4>1, <4>5
    <3> QED BY <2>2, <3>1, <3>2
  <2> QED BY <2>1, <2>2
<1>8. ASSUME NEW k, NEW c \in Authors, call[c] = k
      PROVE  /\ Planned(k) /\ Straight(k.document.entry) /\ Follows(k.document)
                  => entries'[k.document.entry] = entries[k.document.entry]
             /\ \A b \in Batches :
                  /\ k # NULL /\ k.phase \in {"decided", "created"}
                  /\ k.file = Result(b) /\ ~Written(Result(b))
                  => \A x \in DOMAIN k.document.bindings : entries'[x] = entries[x]
  <2>1. ASSUME Planned(k), Straight(k.document.entry), Follows(k.document)
        PROVE  entries'[k.document.entry] = entries[k.document.entry]
    <3> SUFFICES ASSUME k.document.entry = e PROVE FALSE
      BY <1>4
    <3>1. Rooted(k.document) BY <1>8, <2>1 DEF AmendmentsInv, Sincere, Promised
    <3>2. k.document.sequence \in Nat \ {0}
      <4>1. CallSound(k) /\ k.phase \in {"decided", "created"}
        BY <1>8, <2>1, OwnCall DEF Planned, Amending
      <4>2. k.document \in AmendmentDocument
        BY <2>1, <4>1 DEF CallSound, Fitting, Planned, Amending
      <4> QED BY <4>2 DEF AmendmentDocument
    <3>3. \A p \in Chain(k.document.entry) : Receipt(p).sequence <= Receipt(o).sequence
      BY <1>1, <1>2, <2>1
    <3>4. k.document.sequence = Receipt(o).sequence + 1
      BY <1>0, <1>3, <2>1, <3>1, <3>2, <3>3, NextAfter
    <3> QED BY <1>1, <1>2, <1>8, <2>1, <3>4
  <2>2. ASSUME NEW b \in Batches, k # NULL, k.phase \in {"decided", "created"},
               k.file = Result(b), ~Written(Result(b)),
               NEW x \in DOMAIN k.document.bindings
        PROVE  entries'[x] = entries[x]
    <3>1. Founded(k) BY <1>8, <2>2, OwnCall DEF CallSound
    <3>2. x \notin Owned BY <2>2, <3>1 DEF Founded
    <3> QED BY <1>1, <1>2, <1>4, <3>2
  <2> QED BY <2>1, <2>2
<1>9. ~Planned(NULL) BY DEF Planned, Amending
<1> QED BY <1>0, <1>7, <1>8, <1>9, EndedSincere, CallsMove

\* An author writes an Entry that is not there.
LEMMA DraftSincere ==
  ASSUME AuthoringInv, AuthoringInv', AmendmentsInv, NEW a \in Authors, Draft(a)
  PROVE  AmendmentsInv'
<1>0. UNCHANGED files /\ call[a] = NULL /\ call' = [call EXCEPT ![a] = NULL]
  BY DEF AuthoringInv, Draft
<1>1. \A x : entries[x] # NULL => entries'[x] = entries[x]
  BY DEF Draft, AuthoringInv
<1>2. Grows /\ Amended' = Amended BY <1>0, SameGrows
<1>3. \A x : Chain(x)' = Chain(x) BY <1>2, ChainSame
<1>4. \A x \in Owned : entries'[x] # NULL /\ KeepsUp(x)'
  BY <1>1, <1>2, <1>3, KeepsUpStays DEF AmendmentsInv
<1>5. ASSUME NEW k, NEW c \in Authors, call[c] = k
      PROVE  /\ Planned(k) => entries'[k.document.entry] = entries[k.document.entry]
             /\ \A b \in Batches :
                  /\ k # NULL /\ k.phase \in {"decided", "created"}
                  /\ k.file = Result(b) /\ ~Written(Result(b))
                  => \A x \in DOMAIN k.document.bindings : entries'[x] = entries[x]
  <2>1. Sincere(k) BY <1>5 DEF AmendmentsInv
  <2>2. Planned(k) => entries[k.document.entry] # NULL
    BY <2>1 DEF AmendmentsInv, Sincere, Promised, Rooted
  <2> QED BY <1>1, <2>1, <2>2 DEF Sincere, Observed
<1>6. ~Planned(NULL) BY DEF Planned, Amending
<1> QED BY <1>0, <1>4, <1>5, <1>6, EndedSincere, CallsMove

-----------------------------------------------------------------------------
(* The steps that write a file keep the invariant of the amendments.       *)

\* A step that writes neither a result nor an amendment.
LEMMA OthersWrite ==
  ASSUME AuthoringInv, AuthoringInv', AmendmentsInv, Grows, UNCHANGED entries,
         Amended' = Amended, Results' = Results,
         \A b \in Batches : files'[Claim(b)] = NULL => files[Claim(b)] = NULL,
         NEW a \in Authors, NEW m, call' = [call EXCEPT ![a] = m], Sincere(m),
         \A c \in Authors \ {a} : \A k : call[c] = k => Apart(k, m) /\ Apart(m, k)
  PROVE  AmendmentsInv'
<1>1. \A e : Chain(e)' = Chain(e) BY ChainSame
<1>2. Owned' = Owned
  <2>1. \A b \in Results : files'[Result(b)] = files[Result(b)]
    BY Kinds DEF Results, Grows
  <2> QED BY <2>1, SameResults
<1>3. \A o \in Amended' : Rooted(Receipt(o))'
  <2> SUFFICES ASSUME NEW o \in Amended PROVE Rooted(Receipt(o))'
    OBVIOUS
  <2> PICK d : d = Receipt(o) OBVIOUS
  <2>1. Rooted(d) BY DEF AmendmentsInv
  <2>2. Rooted(d)' /\ Receipt(o)' = d BY <2>1, ReceiptsStay
  <2> QED BY <2>2 DEF Rooted
<1>4. \A e \in Owned : entries'[e] # NULL /\ KeepsUp(e)'
  BY <1>1, KeepsUpStays DEF AmendmentsInv
<1>5. ASSUME NEW k, Sincere(k) PROVE Sincere(k)'
  <2>1. \A b \in Batches :
          k # NULL /\ k.phase \in {"decided", "created"} =>
             /\ k.file = Result(b) /\ ~Written(Result(b))' =>
                  \A e \in DOMAIN k.document.bindings : entries'[e] = entries[e]
             /\ k.file = Claim(b) /\ files'[Claim(b)] = NULL =>
                  /\ files[Claim(b)] = NULL
                  /\ Estimate(b) <= Remaining => Estimate(b) <= Remaining'
                  /\ Owned' = Owned
    BY <1>2, RemainingStays
  <2> QED BY <1>1, <1>5, <2>1, SincereStays
<1>6. \A c \in Authors : call'[c] = IF c = a THEN m ELSE call[c]
  BY DEF AuthoringInv
<1>7. \A c \in Authors : \A k : call'[c] = k => Sincere(k)'
  BY <1>5, <1>6 DEF AmendmentsInv
<1>8. \A b, c \in Authors : \A k, l : call'[b] = k /\ call'[c] = l => Apart(k, l)'
  <2> SUFFICES ASSUME NEW b \in Authors, NEW c \in Authors, NEW k, NEW l,
                      call'[b] = k, call'[c] = l
               PROVE  Apart(k, l)'
    OBVIOUS
  <2>1. Apart(k, l)
    <3>1. CASE b = a /\ c = a
      BY <3>1, <1>6 DEF Apart, Poised, Planned
    <3>2. CASE b # a /\ c = a BY <3>2, <1>6
    <3>3. CASE b = a /\ c # a BY <3>3, <1>6
    <3>4. CASE b # a /\ c # a BY <3>4, <1>6 DEF AmendmentsInv
    <3> QED BY <3>1, <3>2, <3>3, <3>4
  <2> QED BY <2>1, ApartStays
<1> QED BY <1>2, <1>3, <1>4, <1>7, <1>8 DEF AmendmentsInv

\* A file is created: nothing that is written changes.
LEMMA CreateSincere ==
  ASSUME AuthoringInv, AuthoringInv', AmendmentsInv, NEW a \in Authors, Create(a)
  PROVE  AmendmentsInv'
<1>0. PICK k : k = call[a] OBVIOUS
<1>1. PICK m : m = [k EXCEPT !.phase = "created"] OBVIOUS
<1>2. /\ k # NULL /\ k.phase = "decided" /\ CallSound(k)
      /\ k.file \in Files /\ files[k.file] = NULL /\ ~Written(k.file)
      /\ files' = [files EXCEPT ![k.file] = Torn]
      /\ call' = [call EXCEPT ![a] = m]
      /\ UNCHANGED <<entries, litter, crashes>>
  BY <1>0, <1>1, OwnCall DEF Create, At, CallSound, Written
<1>3. m.phase = "created" /\ m.file = k.file /\ m.document = k.document
  BY <1>1, <1>2, Continued DEF Phases
<1>4. /\ \A g \in Files : files'[g] = IF g = k.file THEN Torn ELSE files[g]
      /\ Grows
  BY <1>2, WriteFrame DEF Grows
<1>5. \A g \in Files : Written(g)' <=> Written(g)
  BY <1>2, <1>4 DEF Written
<1>6. Amended' = Amended /\ Results' = Results
  BY <1>5, Kinds DEF Amended, Results
<1>7. \A b \in Batches : files'[Claim(b)] = NULL => files[Claim(b)] = NULL
  BY <1>4, Kinds, SentinelAssumption
<1>8. Sincere(k) /\ \A c \in Authors : \A x : call[c] = x => Apart(x, k)
  BY <1>0 DEF AmendmentsInv
<1>9. Sincere(m)
  <2>1. Promised(m)
    BY <1>2, <1>3, <1>8 DEF Sincere, Promised, Planned, Amending
  <2>2. Receipted(m) /\ Latest(m) BY <1>3 DEF Receipted, Applying, Latest, Poised
  <2>3. Observed(m) BY <1>2, <1>3, <1>8 DEF Sincere, Observed
  <2>4. Covered(m) BY <1>2, <1>3, <1>8 DEF Sincere, Covered
  <2> QED BY <2>1, <2>2, <2>3, <2>4 DEF Sincere
<1>10. \A c \in Authors : \A x : call[c] = x => Apart(x, m) /\ Apart(m, x)
  BY <1>2, <1>3, <1>8 DEF Apart, Poised, Planned, Amending
<1> QED BY <1>2, <1>4, <1>6, <1>7, <1>9, <1>10, OthersWrite

\* What a file that is filled adds.
LEMMA FillFrame ==
  ASSUME AuthoringInv, AuthoringInv', NEW a \in Authors, Fill(a),
         NEW k, k = call[a]
  PROVE  /\ k # NULL /\ k.phase = "created" /\ CallSound(k)
         /\ Fitting(k) /\ Founded(k)
         /\ k.file \in Files /\ files[k.file] = Torn /\ ~Written(k.file)
         /\ \A g \in Files : files'[g] = IF g = k.file THEN k.document ELSE files[g]
         /\ \A g \in Files \ {k.file} : Written(g)' <=> Written(g)
         /\ Grows /\ UNCHANGED entries /\ Proceed(a)
<1>1. /\ k # NULL /\ k.phase = "created" /\ CallSound(k)
      /\ k.file \in Files /\ files[k.file] = Torn /\ ~Written(k.file)
      /\ files' = [files EXCEPT ![k.file] = k.document]
      /\ UNCHANGED entries /\ Proceed(a)
      /\ Fitting(k) /\ Founded(k)
  BY OwnCall DEF Fill, At, CallSound, Written, AuthoringInv, Creators
<1>2. /\ \A g \in Files : files'[g] = IF g = k.file THEN k.document ELSE files[g]
      /\ Grows
  BY <1>1, WriteFrame DEF Grows
<1>3. \A g \in Files \ {k.file} : Written(g)' <=> Written(g) BY <1>2 DEF Written
<1> QED BY <1>1, <1>2, <1>3

\* A receipt is filled: either it is the next one, or the chain forks.
LEMMA ReceiptSincere ==
  ASSUME AuthoringInv, AuthoringInv', AmendmentsInv, NEW a \in Authors, Fill(a),
         NEW o \in Ops, call[a].file = Amendment(o)
  PROVE  AmendmentsInv'
<1>0. AuthoringTypeOK BY DEF AuthoringInv
<1>1. PICK k : k = call[a] OBVIOUS
<1>2. PICK d : d = k.document OBVIOUS
<1>3. /\ k # NULL /\ k.phase = "created" /\ Fitting(k)
      /\ k.file = Amendment(o) /\ ~Written(Amendment(o))
      /\ \A g \in Files : files'[g] = IF g = Amendment(o) THEN d ELSE files[g]
      /\ \A g \in Files \ {Amendment(o)} : Written(g)' <=> Written(g)
      /\ Grows /\ UNCHANGED entries /\ Proceed(a)
  BY <1>1, <1>2, FillFrame
<1>4. d \in AmendmentDocument /\ d.sequence \in Nat \ {0}
  BY <1>2, <1>3 DEF Fitting, AmendmentDocument
<1>5. o \notin Amended /\ Amended' = Amended \cup {o} /\ Receipt(o)' = d
  <2>1. Written(Amendment(o))'
    BY <1>3, <1>4, Kinds, SentinelAssumption DEF Written
  <2>2. \A p \in Ops : p # o => Amendment(p) \in Files \ {Amendment(o)}
    BY Kinds, Names
  <2> QED BY <1>3, <2>1, <2>2, Kinds DEF Amended, Receipt
<1>6. \A p \in Amended : Receipt(p)' = Receipt(p) BY <1>3, ReceiptsStay
<1>7. \A x : \A p : p \in Chain(x)' <=> p \in Chain(x) \/ (p = o /\ x = d.entry)
  BY <1>5, <1>6 DEF Chain, Receipt
<1>8. \A x : x # d.entry => Chain(x)' = Chain(x)
  <2> SUFFICES ASSUME NEW x, x # d.entry PROVE Chain(x)' = Chain(x)
    OBVIOUS
  <2>1. Chain(x)' \subseteq Ops /\ Chain(x) \subseteq Ops BY DEF Chain, Amended
  <2>2. \A p \in Ops : p \in Chain(x)' <=> p \in Chain(x) BY <1>7
  <2> HIDE DEF Chain
  <2> QED BY <2>1, <2>2
<1>9. Results' = Results /\ Owned' = Owned
  <2>1. \A b \in Batches : Result(b) \in Files \ {Amendment(o)} BY Kinds, Names
  <2>2. Results' = Results BY <1>3, <2>1 DEF Results
  <2>3. \A b \in Results : files'[Result(b)] = files[Result(b)]
    BY <1>3, <2>1 DEF Results
  <2> QED BY <2>2, <2>3, SameResults
<1>10. Sincere(k) /\ \A c \in Authors : \A x : call[c] = x => Apart(x, k)
  BY <1>1 DEF AmendmentsInv
<1>11. /\ Planned(k) /\ Rooted(d)
       /\ Straight(d.entry) /\ Follows(d) => entries[d.entry] = d.old
  BY <1>2, <1>3, <1>10 DEF Sincere, Promised, Planned, Amending
<1>12. ASSUME Straight(d.entry)'
       PROVE  Straight(d.entry) /\ Follows(d) /\ entries[d.entry] = d.old
  <2>1. Straight(d.entry) BY <1>3, <1>12, ReceiptsStay
  <2>2. \A p \in Chain(d.entry) : Receipt(p).sequence # d.sequence
    <3> SUFFICES ASSUME NEW p \in Chain(d.entry), Receipt(p).sequence = d.sequence
                 PROVE  FALSE
      OBVIOUS
    <3>1. p \in Amended BY DEF Chain
    <3>2. p \in Chain(d.entry)' /\ o \in Chain(d.entry)' BY <1>7
    <3>3. Receipt(p)'.sequence = Receipt(o)'.sequence BY <1>5, <1>6, <3>1
    <3>4. p = o BY <1>12, <3>2, <3>3 DEF Straight, Linked
    <3> QED BY <1>5, <3>1, <3>4
  <2>3. Follows(d) BY <1>0, <1>4, <2>2, EntersLast DEF AmendmentsInv
  <2> QED BY <1>11, <2>1, <2>3
<1>13. \A p \in Amended' : Rooted(Receipt(p))'
  <2> SUFFICES ASSUME NEW p \in Amended' PROVE Rooted(Receipt(p))'
    OBVIOUS
  <2> PICK r : r = IF p = o THEN d ELSE Receipt(p) OBVIOUS
  <2>1. Rooted(r) BY <1>5, <1>11 DEF AmendmentsInv
  <2>2. Rooted(r)' BY <1>3, <2>1, ReceiptsStay
  <2>3. Receipt(p)' = r BY <1>5, <1>6
  <2> QED BY <2>2, <2>3 DEF Rooted
<1>14. \A x \in Owned : entries'[x] # NULL /\ KeepsUp(x)'
  <2> SUFFICES ASSUME NEW x \in Owned PROVE entries'[x] # NULL /\ KeepsUp(x)'
    OBVIOUS
  <2>1. entries[x] # NULL /\ KeepsUp(x) /\ entries'[x] = entries[x]
    BY <1>3 DEF AmendmentsInv
  <2>2. CASE x # d.entry
    <3>1. Chain(x)' = Chain(x) BY <1>8, <2>2
    <3> QED BY <1>3, <2>1, <3>1, KeepsUpStays
  <2>3. CASE x = d.entry
    <3> SUFFICES ASSUME Straight(d.entry)', NEW t \in Chain(d.entry)',
                        \A p \in Chain(d.entry)' :
                          Receipt(p)'.sequence <= Receipt(t)'.sequence
                 PROVE  entries'[d.entry] \in {Receipt(t)'.old, Receipt(t)'.new}
      BY <1>7, <2>1, <2>3 DEF KeepsUp
    <3>1. Follows(d) /\ entries[d.entry] = d.old BY <1>12
    <3>2. t = o
      <4> SUFFICES ASSUME t # o PROVE FALSE
        OBVIOUS
      <4>1. t \in Chain(d.entry) /\ t \in Amended BY <1>7 DEF Chain
      <4>2. d.sequence <= Receipt(t).sequence BY <1>5, <1>6, <1>7, <4>1
      <4>3. Receipt(t).sequence < d.sequence BY <3>1, <4>1 DEF Follows
      <4>4. Receipt(t).sequence \in Nat BY <1>0, <4>1, ReceiptFields
      <4> QED BY <1>4, <4>2, <4>3, <4>4
    <3> QED BY <1>3, <1>5, <3>1, <3>2
  <2> QED BY <2>2, <2>3
<1>15. PICK m : /\ call' = [call EXCEPT ![a] = m]
                /\ \/ m = NULL
                   \/ m.phase = "appended" /\ m.file = Amendment(o) /\ m.document = d
  <2>1. call[a] # NULL /\ call[a].phase \in {"decided", "created"} BY <1>1, <1>3
  <2>2. call[a].file # SourceFile BY Names
  <2> QED BY <1>1, <1>2, <1>3, <2>1, <2>2, ProceedTo
<1>16. Sincere(m)' /\ \A x : Apart(m, x)' /\ Apart(x, m)'
  <2>1. CASE m = NULL
    BY <2>1 DEF Sincere, Promised, Planned, Amending, Receipted, Applying, Latest,
                Poised, Observed, Covered, Apart
  <2>2. CASE m.phase = "appended" /\ m.file = Amendment(o) /\ m.document = d
    BY <1>5, <2>2 DEF Sincere, Promised, Planned, Receipted, Latest, Poised, Observed,
                      Covered, Apart
  <2> QED BY <1>15, <2>1, <2>2
<1>17. \A c \in Authors : call'[c] = IF c = a THEN m ELSE call[c]
  BY <1>15 DEF AuthoringInv
<1>18. ASSUME NEW c \in Authors, NEW x, call[c] = x PROVE Sincere(x)'
  <2>1. Sincere(x) BY <1>18 DEF AmendmentsInv
  <2>2. Poised(x) /\ Straight(x.document.entry)'
          => Chain(x.document.entry)' = Chain(x.document.entry)
    <3> SUFFICES ASSUME Poised(x), Straight(x.document.entry)' 
                 PROVE  x.document.entry # d.entry
      BY <1>8
    <3> SUFFICES ASSUME x.document.entry = d.entry PROVE FALSE
      OBVIOUS
    <3>1. PICK r \in Amended : x.document = Receipt(r)
      BY <2>1 DEF Sincere, Receipted, Applying, Poised
    <3>2. r \in Chain(d.entry) BY <1>0, <3>1, ReceiptFields
    <3>3. Straight(d.entry) /\ Follows(d) BY <1>12
    <3>4. \A p \in Chain(d.entry) : Receipt(p).sequence <= Receipt(r).sequence
      BY <2>1, <3>1, <3>3 DEF Sincere, Latest
    <3>5. d.sequence = Receipt(r).sequence + 1
      BY <1>0, <1>4, <1>11, <3>2, <3>3, <3>4, NextAfter
    <3>6. Apart(x, k) BY <1>10, <1>18
    <3> QED BY <1>2, <1>11, <3>1, <3>3, <3>5, <3>6 DEF Apart
  <2>3. \A b \in Batches : files'[Claim(b)] = files[Claim(b)]
    BY <1>3, Kinds, Names
  <2>4. \A b \in Batches :
          x # NULL /\ x.phase \in {"decided", "created"} =>
             /\ x.file = Result(b) /\ ~Written(Result(b))' =>
                  \A e \in DOMAIN x.document.bindings : entries'[e] = entries[e]
             /\ x.file = Claim(b) /\ files'[Claim(b)] = NULL =>
                  /\ files[Claim(b)] = NULL
                  /\ Estimate(b) <= Remaining => Estimate(b) <= Remaining'
                  /\ Owned' = Owned
    BY <1>3, <1>9, <2>3, RemainingStays
  <2> QED BY <1>3, <2>1, <2>2, <2>4, SincereStays
<1>19. \A c \in Authors : \A x : call'[c] = x => Sincere(x)'
  BY <1>16, <1>17, <1>18
<1>20. \A b, c \in Authors : \A x, y : call'[b] = x /\ call'[c] = y => Apart(x, y)'
  <2> SUFFICES ASSUME NEW b \in Authors, NEW c \in Authors, NEW x, NEW y,
                      call'[b] = x, call'[c] = y
               PROVE  Apart(x, y)'
    OBVIOUS
  <2>1. CASE b = a \/ c = a BY <1>16, <1>17, <2>1
  <2>2. CASE b # a /\ c # a
    <3>1. Apart(x, y) BY <1>17, <2>2 DEF AmendmentsInv
    <3> QED BY <1>3, <3>1, ApartStays
  <2> QED BY <2>1, <2>2
<1> QED BY <1>9, <1>13, <1>14, <1>19, <1>20 DEF AmendmentsInv

\* A result is filled: it seals what the Workspace holds, of Entries that no
\* amendment has touched yet.
LEMMA ResultSincere ==
  ASSUME AuthoringInv, AuthoringInv', AmendmentsInv, NEW a \in Authors, Fill(a),
         NEW b \in Batches, call[a].file = Result(b)
  PROVE  AmendmentsInv'
<1>0. AuthoringTypeOK BY DEF AuthoringInv
<1>1. PICK k : k = call[a] OBVIOUS
<1>2. PICK d : d = k.document OBVIOUS
<1>3. /\ k # NULL /\ k.phase = "created" /\ Fitting(k) /\ Founded(k)
      /\ k.file = Result(b) /\ Result(b) \in Files /\ ~Written(Result(b))
      /\ \A g \in Files : files'[g] = IF g = Result(b) THEN d ELSE files[g]
      /\ \A g \in Files \ {Result(b)} : Written(g)' <=> Written(g)
      /\ Grows /\ UNCHANGED entries /\ Proceed(a)
  BY <1>1, <1>2, FillFrame
<1>4. /\ ResultFor(b, d) /\ DOMAIN d.bindings \cap Owned = {}
      /\ Cardinality(Owned) + Cardinality(DOMAIN d.bindings) <= MaxEntries
      /\ files[Claim(b)] # NULL
  BY <1>2, <1>3 DEF Fitting, Founded
<1>5. Results' = Results \cup {b}
  <2>1. /\ files'[Result(b)] = d
        /\ \A c \in Batches \ {b} : files'[Result(c)] = files[Result(c)]
    BY <1>3, Kinds, Names
  <2> QED BY <1>3, <1>4, <2>1, Attributed
<1>6. Amended' = Amended
  <2>1. \A p \in Ops : Amendment(p) \in Files \ {Result(b)} BY Kinds, Names
  <2> QED BY <1>3, <2>1 DEF Amended
<1>7. \A e : Chain(e)' = Chain(e) BY <1>3, <1>6, ChainSame
<1>8. \A x \in Owned' : x \in Owned \/ x \in DOMAIN d.bindings
  <2> SUFFICES ASSUME NEW x \in Owned' PROVE x \in Owned \/ x \in DOMAIN d.bindings
    OBVIOUS
  <2>1. PICK c \in Results' : x \in Bound(c)' BY DEF Owned
  <2>2. CASE c = b BY <1>3, <2>1, <2>2 DEF Bound
  <2>3. CASE c # b
    <3>1. c \in Results /\ Result(c) \in Files BY <1>5, <2>3, Kinds DEF Results
    <3>2. Bound(c)' = Bound(c) BY <1>3, <2>3, <3>1, Names DEF Bound
    <3> QED BY <2>1, <3>1, <3>2 DEF Owned
  <2> QED BY <2>2, <2>3
<1>9. \A o \in Amended' : Rooted(Receipt(o))'
  <2> SUFFICES ASSUME NEW o \in Amended PROVE Rooted(Receipt(o))'
    BY <1>6
  <2> PICK r : r = Receipt(o) OBVIOUS
  <2>1. Rooted(r) BY DEF AmendmentsInv
  <2>2. Rooted(r)' /\ Receipt(o)' = r BY <1>3, <2>1, ReceiptsStay
  <2> QED BY <2>2 DEF Rooted
<1>10. \A x \in Owned' : entries'[x] # NULL /\ KeepsUp(x)'
  <2> SUFFICES ASSUME NEW x \in Owned' PROVE entries'[x] # NULL /\ KeepsUp(x)'
    OBVIOUS
  <2>1. CASE x \in Owned
    <3>1. entries[x] # NULL /\ KeepsUp(x) /\ entries'[x] = entries[x]
      BY <1>3, <2>1 DEF AmendmentsInv
    <3> QED BY <1>3, <1>7, <2>1, <3>1, KeepsUpStays
  <2>2. CASE x \in DOMAIN d.bindings
    <3>1. x \notin Owned BY <1>4, <2>2
    <3>2. Chain(x) = {}
      <4> SUFFICES ASSUME NEW o \in Chain(x) PROVE FALSE
        OBVIOUS
      <4>1. o \in Amended /\ Receipt(o).entry = x BY <1>0, ChainFinite
      <4> QED BY <3>1, <4>1 DEF AmendmentsInv, Rooted
    <3>3. entries[x] # NULL /\ d.bindings[x] = entries[x]
      <4>1. Observed(k) BY <1>1 DEF AmendmentsInv, Sincere
      <4> QED BY <1>2, <1>3, <2>2, <4>1 DEF Observed
    <3>4. Sealed(x)' = d.bindings[x]
      <4>1. b \in Results' /\ x \in Bound(b)' /\ files'[Result(b)] = d
        BY <1>3, <1>5, <2>2 DEF Bound
      <4> QED BY <4>1, OwnerStays
    <3> QED BY <1>3, <1>7, <3>2, <3>3, <3>4 DEF KeepsUp
  <2> QED BY <1>8, <2>1, <2>2
<1>11. PICK m : call' = [call EXCEPT ![a] = m] /\ m = NULL
  <2>1. call[a] # NULL /\ call[a].phase \in {"decided", "created"} BY <1>1, <1>3
  <2>2. call[a].file # SourceFile /\ \A o \in Ops : call[a].file # Amendment(o)
    BY Names
  <2> QED BY <1>3, <2>1, <2>2, ProceedTo
<1>12. Sincere(m)' /\ \A x : Apart(m, x)' /\ Apart(x, m)'
  BY <1>11 DEF Sincere, Promised, Planned, Amending, Receipted, Applying, Latest,
               Poised, Observed, Covered, Apart
<1>13. \A c \in Authors : call'[c] = IF c = a THEN m ELSE call[c]
  BY <1>11 DEF AuthoringInv
\* A claim that is not there yet waits for this result.
<1>14. ASSUME NEW c \in Authors, NEW x, call[c] = x, x # NULL,
              x.phase \in {"decided", "created"},
              NEW g \in Batches, x.file = Claim(g)
       PROVE  files'[Claim(g)] # NULL
  <2> SUFFICES ASSUME files'[Claim(g)] = NULL PROVE FALSE
    OBVIOUS
  <2>1. files[Claim(g)] = NULL BY <1>3, Kinds, Names
  <2>2. \A h \in 1..(g - 1) : Written(Result(h))
    BY <1>14, OwnCall DEF CallSound, Founded
  <2>3. PICK n \in Nat : Ordered(n) BY DEF AuthoringInv
  <2>4. b \in 1..n /\ g \notin 1..n
    BY <1>4, <2>1, <2>3 DEF Ordered, Claimed
  <2>5. b \in 1..(g - 1) BY <2>4, BatchesNat
  <2> QED BY <1>3, <2>2, <2>5
<1>15. ASSUME NEW c \in Authors, NEW x, call[c] = x PROVE Sincere(x)'
  <2>1. Sincere(x) BY <1>15 DEF AmendmentsInv
  <2>2. \A g \in Batches :
          x # NULL /\ x.phase \in {"decided", "created"} =>
             /\ x.file = Result(g) /\ ~Written(Result(g))' =>
                  \A e \in DOMAIN x.document.bindings : entries'[e] = entries[e]
             /\ x.file = Claim(g) /\ files'[Claim(g)] = NULL =>
                  /\ files[Claim(g)] = NULL
                  /\ Estimate(g) <= Remaining => Estimate(g) <= Remaining'
                  /\ Owned' = Owned
    BY <1>3, <1>14, <1>15
  <2> QED BY <1>3, <1>7, <2>1, <2>2, SincereStays
<1>16. \A c \in Authors : \A x : call'[c] = x => Sincere(x)'
  BY <1>12, <1>13, <1>15
<1>17. \A c, e \in Authors : \A x, y : call'[c] = x /\ call'[e] = y => Apart(x, y)'
  <2> SUFFICES ASSUME NEW c \in Authors, NEW e \in Authors, NEW x, NEW y,
                      call'[c] = x, call'[e] = y
               PROVE  Apart(x, y)'
    OBVIOUS
  <2>1. CASE c = a \/ e = a BY <1>12, <1>13, <2>1
  <2>2. CASE c # a /\ e # a
    <3>1. Apart(x, y) BY <1>13, <2>2 DEF AmendmentsInv
    <3> QED BY <1>3, <3>1, ApartStays
  <2> QED BY <2>1, <2>2
<1> QED BY <1>9, <1>10, <1>16, <1>17 DEF AmendmentsInv

\* A file is filled, whichever it is.
LEMMA FillSincere ==
  ASSUME AuthoringInv, AuthoringInv', AmendmentsInv, NEW a \in Authors, Fill(a)
  PROVE  AmendmentsInv'
<1>1. PICK k : k = call[a] OBVIOUS
<1>2. /\ k # NULL /\ k.phase = "created" /\ k.file \in Files
      /\ files[k.file] = Torn /\ ~Written(k.file)
      /\ \A g \in Files : files'[g] = IF g = k.file THEN k.document ELSE files[g]
      /\ \A g \in Files \ {k.file} : Written(g)' <=> Written(g)
      /\ Fitting(k) /\ Grows /\ UNCHANGED entries /\ Proceed(a)
  BY <1>1, FillFrame
<1>3. CASE \E o \in Ops : k.file = Amendment(o) BY <1>1, <1>3, ReceiptSincere
<1>4. CASE \E b \in Batches : k.file = Result(b) BY <1>1, <1>4, ResultSincere
<1>5. CASE /\ \A o \in Ops : k.file # Amendment(o)
           /\ \A b \in Batches : k.file # Result(b)
  <2>1. Amended' = Amended /\ Results' = Results
    BY <1>2, <1>5, Kinds DEF Amended, Results
  <2>2. \A b \in Batches : files'[Claim(b)] = NULL => files[Claim(b)] = NULL
    <3> SUFFICES ASSUME NEW b \in Batches, files'[Claim(b)] = NULL
                 PROVE  files[Claim(b)] = NULL
      OBVIOUS
    <3>1. CASE k.file = Claim(b)
      BY <1>2, <3>1, ClaimFields DEF Fitting
    <3>2. CASE k.file # Claim(b) BY <1>2, <3>2, Kinds
    <3> QED BY <3>1, <3>2
  <2>3. PICK m : /\ call' = [call EXCEPT ![a] = m]
                 /\ m = NULL \/ (m.phase = "decided" /\ m.file = PlanFile)
    <3>1. call[a] # NULL /\ call[a].phase \in {"decided", "created"} BY <1>1, <1>2
    <3> QED BY <1>1, <1>2, <1>5, <3>1, ProceedTo
  <2>4. Sincere(m) /\ \A x : Apart(m, x) /\ Apart(x, m)
    BY <2>3, EndedSincere, PlainSincere
  <2> QED BY <1>2, <2>1, <2>2, <2>3, <2>4, OthersWrite
<1> QED BY <1>3, <1>4, <1>5

-----------------------------------------------------------------------------
(* The amendments.                                                         *)

\* Nothing is amended, attributed or under way at first.
LEMMA InitSincere == Init => AmendmentsInv
<1> SUFFICES ASSUME Init PROVE AmendmentsInv
  OBVIOUS
<1>1. Amended = {} /\ Results = {} BY Kinds DEF Init, Written, Amended, Results
<1>2. Owned = {} BY <1>1 DEF Owned
<1>3. \A a \in Authors : call[a] = NULL BY DEF Init
<1> QED BY <1>1, <1>2, <1>3, EndedSincere DEF AmendmentsInv

\* A step that changes nothing.
LEMMA StutterSincere ==
  ASSUME AuthoringInv, AuthoringInv', AmendmentsInv, UNCHANGED vars
  PROVE  AmendmentsInv'
<1>1. UNCHANGED <<files, entries, call>> BY DEF vars
<1>2. CASE Authors = {}
  <2>1. Grows /\ Amended' = Amended /\ Owned' = Owned BY <1>1, SameGrows
  <2>2. \A e : Chain(e)' = Chain(e) BY <2>1, ChainSame
  <2>3. \A e \in Owned : entries'[e] # NULL /\ KeepsUp(e)'
    BY <1>1, <2>1, <2>2, KeepsUpStays DEF AmendmentsInv
  <2>4. \A o \in Amended' : Rooted(Receipt(o))'
    <3> SUFFICES ASSUME NEW o \in Amended PROVE Rooted(Receipt(o))'
      BY <2>1
    <3> PICK d : d = Receipt(o) OBVIOUS
    <3>1. Rooted(d) BY DEF AmendmentsInv
    <3>2. Rooted(d)' /\ Receipt(o)' = d BY <2>1, <3>1, ReceiptsStay
    <3> QED BY <3>2 DEF Rooted
  <2> QED BY <1>2, <2>1, <2>3, <2>4 DEF AmendmentsInv
<1>3. CASE Authors # {}
  <2>1. PICK a \in Authors : TRUE BY <1>3
  <2>2. PICK m : m = call[a] OBVIOUS
  <2>3. call' = [call EXCEPT ![a] = m] BY <1>1, <2>2 DEF AuthoringInv
  <2>4. /\ Sincere(m)
        /\ \A c \in Authors : \A k : call[c] = k => Apart(k, m) /\ Apart(m, k)
    BY <2>1, <2>2 DEF AmendmentsInv
  <2> QED BY <1>1, <2>1, <2>3, <2>4, CallsOnly
<1> QED BY <1>2, <1>3

\* Every step keeps it.
LEMMA AmendmentsStep ==
  AuthoringInv /\ AmendmentsInv /\ [Next]_vars => AmendmentsInv'
<1> SUFFICES ASSUME AuthoringInv, AmendmentsInv, [Next]_vars PROVE AmendmentsInv'
  OBVIOUS
<1>1. AuthoringInv' BY StepKeeps
<1>2. ASSUME NEW a \in Authors, Author(a) PROVE AmendmentsInv'
  <2>1. CASE CallPlan(a) BY <1>1, <2>1, PlanSincere
  <2>2. CASE CallNext(a) BY <1>1, <2>2, NextSincere
  <2>3. CASE CallRecord(a) BY <1>1, <2>3, RecordSincere
  <2>4. CASE CallExtend(a) BY <1>1, <2>4, ExtendSincere
  <2>5. CASE \E q \in Amends : CallAmend(a, q) BY <1>1, <2>5, AmendSincere
  <2>6. CASE Work(a)
    <3>1. CASE Create(a) BY <1>1, <3>1, CreateSincere
    <3>2. CASE Collide(a) BY <1>1, <3>2, CollideSincere
    <3>3. CASE Fill(a) BY <1>1, <3>3, FillSincere
    <3>4. CASE Stage(a) BY <1>1, <3>4, StageSincere
    <3>5. CASE Recheck(a) BY <1>1, <3>5, RecheckSincere
    <3>6. CASE Replace(a) BY <1>1, <3>6, ReplaceSincere
    <3>7. CASE GiveUp(a) BY <1>1, <3>7, EndSincere DEF GiveUp
    <3> QED BY <2>6, <3>1, <3>2, <3>3, <3>4, <3>5, <3>6, <3>7 DEF Work
  <2>7. CASE Draft(a) BY <1>1, <2>7, DraftSincere
  <2>8. CASE Die(a) BY <1>1, <2>8, EndSincere DEF Die
  <2> QED BY <1>2, <2>1, <2>2, <2>3, <2>4, <2>5, <2>6, <2>7, <2>8 DEF Author
<1> QED BY <1>1, <1>2, StutterSincere DEF Next

\* Both invariants hold in every behaviour.
LEMMA AmendmentsInvCorrect == Spec => [](AuthoringInv /\ AmendmentsInv)
<1>1. Init => AuthoringInv /\ AmendmentsInv BY InitEstablishes, InitSincere
<1>2. AuthoringInv /\ AmendmentsInv /\ [Next]_vars => (AuthoringInv /\ AmendmentsInv)'
  BY StepKeeps, AmendmentsStep
<1> QED BY <1>1, <1>2, PTL DEF Spec

\* The Workspace is at most one amendment behind the receipts, whatever
\* processes race, die and take up each other's operations.
THEOREM EntryKeepsUpCorrect == Spec => []EntryKeepsUp
<1>1. AuthoringInv /\ AmendmentsInv => EntryKeepsUp
  <2> SUFFICES ASSUME AuthoringInv, AmendmentsInv, NEW e \in Owned,
                      Continuous(e), NeverReturns(e)
               PROVE  \/ entries[e] = Effective(e)
                      \/ Chain(e) # {} /\ entries[e] = Receipt(LastOf(e)).old
    BY DEF EntryKeepsUp, Receipt
  <2>1. AuthoringTypeOK BY DEF AuthoringInv
  <2>2. /\ Linked(e)
        /\ \A o \in Chain(e) : Receipt(o).sequence \in 1..Cardinality(Chain(e))
        /\ Chain(e) = {} => Effective(e) = Sealed(e)
        /\ Chain(e) # {} =>
             /\ LastOf(e) \in Chain(e)
             /\ Receipt(LastOf(e)).sequence = Cardinality(Chain(e))
             /\ Effective(e) = Receipt(LastOf(e)).new
    BY <2>1, ContinuousChain
  <2>3. KeepsUp(e) /\ Straight(e) BY <2>2 DEF AmendmentsInv, Straight
  <2>4. CASE Chain(e) = {} BY <2>2, <2>3, <2>4 DEF KeepsUp
  <2>5. CASE Chain(e) # {}
    <3>1. \A p \in Chain(e) : Receipt(p).sequence <= Receipt(LastOf(e)).sequence
      BY <2>2, <2>5
    <3>2. entries[e] \in {Receipt(LastOf(e)).old, Receipt(LastOf(e)).new}
      BY <2>2, <2>3, <2>5, <3>1 DEF KeepsUp
    <3> QED BY <2>2, <2>5, <3>2
  <2> QED BY <2>4, <2>5
<1> QED BY <1>1, AmendmentsInvCorrect, PTL

\* Which steps change an Entry that is there.
LEMMA OnlyReplace ==
  ASSUME AuthoringInv, [Next]_vars, NEW e, entries[e] # NULL, entries'[e] # entries[e]
  PROVE  \E a \in Authors : Replace(a)
<1>1. ASSUME NEW a \in Authors, Draft(a) PROVE FALSE
  BY <1>1 DEF Draft, AuthoringInv
<1>2. ASSUME NEW a \in Authors, Author(a), ~Replace(a), ~Draft(a)
      PROVE  UNCHANGED entries
  BY <1>2 DEF Author, Work, CallPlan, CallNext, CallRecord, CallExtend, CallAmend,
              Create, Collide, Fill, Stage, Recheck, GiveUp, Die
<1> QED BY <1>1, <1>2 DEF Next, vars

\* Once the Workspace agrees with an Entry's effective binding, no process that
\* lags behind takes it back.
THEOREM BindingNotUndoneCorrect == Spec => BindingNotUndone
<1> DEFINE A == \A e \in Owned :
                  /\ Continuous(e) /\ NeverReturns(e) /\ entries[e] = Effective(e)
                  /\ Chain(e)' = Chain(e)
                  => entries'[e] = entries[e]
<1>1. AuthoringInv /\ AmendmentsInv /\ [Next]_vars => A
  <2> SUFFICES ASSUME AuthoringInv, AmendmentsInv, [Next]_vars, NEW e \in Owned,
                      Continuous(e), NeverReturns(e), entries[e] = Effective(e),
                      entries'[e] # entries[e]
               PROVE  FALSE
    OBVIOUS
  <2>1. AuthoringTypeOK /\ entries[e] # NULL BY DEF AuthoringInv, AmendmentsInv
  <2>2. PICK a \in Authors : Replace(a) BY <2>1, OnlyReplace
  <2>3. PICK o \in Amended :
          /\ entries' = [entries EXCEPT ![Receipt(o).entry] = Receipt(o).new]
          /\ Straight(Receipt(o).entry) =>
               \A p \in Chain(Receipt(o).entry) : Receipt(p).sequence <= Receipt(o).sequence
    BY <2>2, ReplaceApplies
  <2>4. Receipt(o).entry = e BY <2>3 DEF AuthoringInv
  <2>5. o \in Chain(e) /\ Receipt(o).sequence \in Nat BY <2>1, <2>4, ReceiptFields
  <2>6. /\ Linked(e)
        /\ Receipt(o).sequence \in 1..Cardinality(Chain(e))
        /\ LastOf(e) \in Chain(e)
        /\ Receipt(LastOf(e)).sequence = Cardinality(Chain(e))
        /\ Effective(e) = Receipt(LastOf(e)).new
    BY <2>1, <2>5, ContinuousChain
  <2>7. Receipt(LastOf(e)).sequence <= Receipt(o).sequence
    BY <2>3, <2>4, <2>6 DEF Straight
  <2>8. Receipt(o).sequence = Receipt(LastOf(e)).sequence
    <3>1. PICK n \in Nat : n = Cardinality(Chain(e)) BY <2>1, ChainFinite
    <3> QED BY <2>6, <2>7, <3>1
  <2>9. o = LastOf(e) BY <2>5, <2>6, <2>8 DEF Linked
  <2>10. entries'[e] = Receipt(o).new
    <3>1. e \in DOMAIN entries BY <2>1, OwnedFinite DEF AuthoringInv
    <3> QED BY <2>3, <2>4, <3>1
  <2> QED BY <2>6, <2>9, <2>10
<1>2. AuthoringInv /\ AmendmentsInv /\ [Next]_vars => [A]_vars BY <1>1
<1> QED BY <1>2, AmendmentsInvCorrect, PTL DEF Spec, BindingNotUndone

\* A claim appears while the budget covers it and there is room for an Entry,
\* although the process that writes it looked at both earlier.
THEOREM ClaimsCoveredCorrect == Spec => ClaimsCovered
<1> DEFINE A == \A b \in Batches :
                  files[Claim(b)] = NULL /\ files'[Claim(b)] # NULL =>
                    /\ Estimate(b) <= Remaining
                    /\ Cardinality(Owned) < MaxEntries
<1>1. AuthoringInv /\ AmendmentsInv /\ [Next]_vars => A
  <2> SUFFICES ASSUME AuthoringInv, AmendmentsInv, [Next]_vars, NEW b \in Batches,
                      files[Claim(b)] = NULL, files'[Claim(b)] # NULL
               PROVE  Estimate(b) <= Remaining /\ Cardinality(Owned) < MaxEntries
    OBVIOUS
  <2>1. PICK a \in Authors : Create(a) \/ Fill(a)
    BY DEF Next, vars, Author, Work, CallPlan, CallNext, CallRecord, CallExtend,
           CallAmend, Collide, Stage, Recheck, Replace, GiveUp, Draft, Die
  <2>2. PICK k : k = call[a] OBVIOUS
  <2>3. /\ k # NULL /\ k.phase \in {"decided", "created"} /\ k.file = Claim(b)
    <3>1. k # NULL /\ k.phase \in {"decided", "created"} BY <2>1, <2>2 DEF Create, Fill, At
    <3>2. \E v : files' = [files EXCEPT ![k.file] = v] BY <2>1, <2>2 DEF Create, Fill
    <3>3. Claim(b) \in Files /\ DOMAIN files = Files
      BY Kinds DEF AuthoringInv, AuthoringTypeOK
    <3> QED BY <3>1, <3>2, <3>3
  <2>4. Covered(k) BY <2>2 DEF AmendmentsInv, Sincere
  <2> QED BY <2>3, <2>4 DEF Covered
<1>2. AuthoringInv /\ AmendmentsInv /\ [Next]_vars => [A]_vars BY <1>1
<1> QED BY <1>2, AmendmentsInvCorrect, PTL DEF Spec, ClaimsCovered
=============================================================================
