----------------------------- MODULE Authoring -----------------------------
(***************************************************************************)
(* The authoring controller of src/agiwiki/authoring.py: one author plan   *)
(* in one Workspace, the files that record its progress, and the processes *)
(* that run author plan, next, record, amend and add-budget.               *)
(*                                                                         *)
(* There is no lock and no index.  An operation reads every progress file, *)
(* decides, creates at most one new file with O_EXCL, and writes it; amend *)
(* then also replaces an Entry of the Workspace.  The reads of one call    *)
(* are one step here, every later access to a file is a step of its own,   *)
(* other processes run in between, and a process may die between any two.  *)
(* A call that is refused or that only reports what is stored changes      *)
(* nothing: it is a call that never starts, or it ends in GiveUp.          *)
(*                                                                         *)
(* A digest stands for what it digests.  The plan has a budget; its source *)
(* does not change and every result was recorded by this release.          *)
(***************************************************************************)
EXTENDS Integers, FiniteSets, FiniteSetsExt

CONSTANTS
  Authors,        \* processes
  Entries,        \* entry_id values
  Texts,          \* what an Entry says, apart from its citations
  Ops,            \* operation_id values
  UnitCount, BatchSize, TokensPerUnit,
  InitialBudget,  \* initial_budget_tokens
  MaxBudget,      \* the supported limit, 1000000000
  MaxEntries,
  Drafts,         \* the Entries that the agents write: entry, content
  Reports,        \* the results they ask to record: batch, used, entries
  Extensions,     \* the budget extensions they ask for: op, added
  Amends,         \* the amendments they ask for: op, entry, old, new
  Interrupts,     \* the phases of a call in which a process may die
  MaxCrashes,     \* bound on how often that happens
  NULL,           \* no file, no call
  Torn            \* a file that was created and not yet, or never, written

Phases == {"decided", "created", "appended", "staged", "checked"}

Content == [text : Texts, cites : SUBSET ((1..UnitCount) \X (1..UnitCount))]

ASSUME SizeAssumption ==
  /\ UnitCount \in Nat \ {0} /\ BatchSize \in Nat \ {0}
  /\ TokensPerUnit \in Nat \ {0}
  /\ InitialBudget \in Nat /\ MaxBudget \in Nat /\ InitialBudget <= MaxBudget
  /\ MaxEntries \in Nat \ {0} /\ MaxCrashes \in Nat
  /\ IsFiniteSet(Entries) /\ IsFiniteSet(Ops)

-----------------------------------------------------------------------------
(* The batches of the plan.                                                *)

BatchCount == (UnitCount + BatchSize - 1) \div BatchSize
Batches == 1..BatchCount
FirstUnit(b) == (b - 1) * BatchSize + 1
LastUnit(b) == IF b * BatchSize < UnitCount THEN b * BatchSize ELSE UnitCount
Estimate(b) == (LastUnit(b) - FirstUnit(b) + 1) * TokensPerUnit

\* _entry_cites_claimed_batch: a locator lies inside the batch.
Cites(content, b) ==
  \E range \in content.cites :
    FirstUnit(b) <= range[1] /\ range[1] <= range[2] /\ range[2] <= LastUnit(b)

ASSUME RequestAssumption ==
  /\ Drafts \subseteq [entry : Entries, content : Content]
  /\ Reports \subseteq [batch : Batches, used : Nat, entries : SUBSET Entries]
  /\ Extensions \subseteq [op : Ops, added : Nat \ {0}]
  /\ Amends \subseteq [op : Ops, entry : Entries, old : Content, new : Content]
  /\ \A q \in Amends : q.old # q.new
  /\ Interrupts \subseteq Phases

-----------------------------------------------------------------------------
(* The files.                                                              *)

SourceFile == <<"source", 0>>
PlanFile == <<"plan", 0>>
Claim(b) == <<"claim", b>>
Result(b) == <<"result", b>>
Budget(o) == <<"budget", o>>
Amendment(o) == <<"amendment", o>>

Files ==
  {SourceFile, PlanFile} \cup {Claim(b) : b \in Batches}
    \cup {Result(b) : b \in Batches} \cup {Budget(o) : o \in Ops}
    \cup {Amendment(o) : o \in Ops}

ClaimDocument == [batch : Batches]

ResultOf(es) == [used : Nat, bindings : [es -> Content]]
ResultDocument == UNION {ResultOf(es) : es \in SUBSET Entries}

AmendmentDocument ==
  [entry : Entries, old : Content, new : Content, sequence : Nat \ {0},
   previous : Ops \cup {NULL}]

ASSUME SentinelAssumption ==
  /\ NULL # Torn
  /\ {NULL, Torn} \cap (ClaimDocument \cup AmendmentDocument) = {}
  /\ NULL \notin Content
  /\ \A es \in SUBSET Entries : NULL \notin ResultOf(es) /\ Torn \notin ResultOf(es)

VARIABLES
  files,    \* per file name what it holds
  entries,  \* the Entries of the Workspace: a content, or NULL
  litter,   \* a dead process left its temporary file among the Entries
  crashes,  \* how many processes died
  call      \* per process, the call it is making or NULL

vars == <<files, entries, litter, crashes, call>>

Init ==
  /\ files = [f \in Files |-> NULL]
  /\ entries = [e \in Entries |-> NULL]
  /\ litter = FALSE
  /\ crashes = 0
  /\ call = [a \in Authors |-> NULL]

Written(f) == files[f] \notin {NULL, Torn}

Claimed == {b \in Batches : files[Claim(b)] # NULL}
Recorded == {b \in Batches : files[Result(b)] # NULL}
Amended == {o \in Ops : Written(Amendment(o))}

-----------------------------------------------------------------------------
(* _progress: what the files say, and when it refuses to say it.           *)

Outstanding == Claimed \ Recorded
Pending == Batches \ Recorded

Results == {b \in Batches : Written(Result(b))}
Bound(b) == DOMAIN files[Result(b)].bindings
Owned == UNION {Bound(b) : b \in Results}
Owner(e) == CHOOSE b \in Results : e \in Bound(b)

\* The tokens that the files grant and report: the sums count them.
Extended == {o \in Ops : Written(Budget(o))}
Granted == UNION {{o} \X (1..files[Budget(o)]) : o \in Extended}
Spent == UNION {{b} \X (1..files[Result(b)].used) : b \in Results}

Total == InitialBudget + Cardinality(Granted)
Used == Cardinality(Spent)

Remaining == IF Total > Used THEN Total - Used ELSE 0

Chain(e) == {o \in Amended : files[Amendment(o)].entry = e}

\* The checks of _load_amendments on one Entry's amendments.
Continuous(e) ==
  LET step(o) == files[Amendment(o)]
  IN  /\ {step(o).sequence : o \in Chain(e)} = 1..Cardinality(Chain(e))
      /\ \A o \in Chain(e) :
           IF step(o).sequence = 1
           THEN /\ step(o).previous = NULL
                /\ e \in Owned
                /\ step(o).old = files[Result(Owner(e))].bindings[e]
           ELSE \E p \in Chain(e) : /\ step(p).sequence = step(o).sequence - 1
                                    /\ step(o).previous = p
                                    /\ step(o).old = step(p).new

LastOf(e) ==
  CHOOSE o \in Chain(e) : files[Amendment(o)].sequence = Cardinality(Chain(e))

\* The effective binding of a recorded Entry.
Effective(e) ==
  IF Chain(e) = {} THEN files[Result(Owner(e))].bindings[e]
  ELSE files[Amendment(LastOf(e))].new

AttributedOnce ==
  \A b, c \in Results : b # c => Bound(b) \cap Bound(c) = {}

\* _load and _progress succeed.
Readable ==
  /\ Written(PlanFile)
  /\ \A f \in Files : files[f] # Torn
  /\ Recorded \subseteq Claimed
  /\ Cardinality(Outstanding) <= 1
  /\ Total <= MaxBudget
  /\ AttributedOnce
  /\ \A e \in Entries : Continuous(e)

\* Mutant: temporary files are ignored.
ValidWorkspaceLenient == TRUE

\* validate_workspace accepts nothing but .json files among the Entries, and
\* so no temporary file of a replacement that is under way.
ValidWorkspace ==
  /\ ~litter
  /\ \A a \in Authors : call[a] # NULL => call[a].phase \notin {"staged", "checked"}

\* _verify_recorded_entry_bindings.
Verified ==
  Owned # {} =>
    /\ ValidWorkspace
    /\ \A e \in Owned : /\ entries[e] # NULL
                        /\ Cites(entries[e], Owner(e))
                        /\ entries[e] = Effective(e)

-----------------------------------------------------------------------------
(* The first step of a call: read everything and decide what to write.     *)

Call(a, phase, file, document, seen) ==
  call' = [call EXCEPT ![a] = [phase |-> phase, file |-> file,
                               document |-> document, seen |-> seen]]

End(a) == call' = [call EXCEPT ![a] = NULL]

\* plan registers the Source before it writes the plan.
CallPlan(a) ==
  /\ call[a] = NULL
  /\ IF files[SourceFile] = NULL
     THEN Call(a, "decided", SourceFile, "source", NULL)
     ELSE Written(SourceFile) /\ Call(a, "decided", PlanFile, "plan", NULL)
  /\ UNCHANGED <<files, entries, litter, crashes>>

\* Mutant: an outstanding batch does not hold up the next one.
MayClaimAhead(b) ==
  /\ Readable /\ Verified
  /\ b = Min(Batches \ Claimed)
  /\ Cardinality(Owned) < MaxEntries
  /\ Estimate(b) <= Remaining

\* Mutant: anything that is left of the budget will do.
MayClaimOverBudget(b) ==
  /\ Readable /\ Verified
  /\ Outstanding = {}
  /\ b = Min(Pending)
  /\ Cardinality(Owned) < MaxEntries
  /\ Remaining > 0

MayClaim(b) ==
  /\ Readable /\ Verified
  /\ Outstanding = {}
  /\ b = Min(Pending)
  /\ Cardinality(Owned) < MaxEntries
  /\ Estimate(b) <= Remaining

\* next, when there is a batch to claim.
CallNext(a) ==
  /\ call[a] = NULL
  /\ \E b \in Pending :
       MayClaim(b) /\ Call(a, "decided", Claim(b), [batch |-> b], NULL)
  /\ UNCHANGED <<files, entries, litter, crashes>>

\* Mutant: an Entry may be attributed again.
MayRecordAgain(r) ==
  /\ files[Result(r.batch)] = NULL
  /\ Readable /\ Verified
  /\ Outstanding = {r.batch}
  /\ Cardinality(Owned) + Cardinality(r.entries) <= MaxEntries
  /\ r.entries # {} => ValidWorkspace
  /\ \A e \in r.entries : entries[e] # NULL /\ Cites(entries[e], r.batch)

\* Mutant: the Entries are not looked up in the Workspace.
MayRecordUnseen(r) ==
  /\ files[Result(r.batch)] = NULL
  /\ Readable /\ Verified
  /\ Outstanding = {r.batch}
  /\ r.entries \cap Owned = {}
  /\ Cardinality(Owned) + Cardinality(r.entries) <= MaxEntries

\* A batch without Entries was skipped.
MayRecord(r) ==
  /\ files[Result(r.batch)] = NULL
  /\ Readable /\ Verified
  /\ Outstanding = {r.batch}
  /\ r.entries \cap Owned = {}
  /\ Cardinality(Owned) + Cardinality(r.entries) <= MaxEntries
  /\ r.entries # {} => ValidWorkspace
  /\ \A e \in r.entries : entries[e] # NULL /\ Cites(entries[e], r.batch)

CallRecord(a) ==
  /\ call[a] = NULL
  /\ \E r \in Reports :
       /\ MayRecord(r)
       /\ Call(a, "decided", Result(r.batch),
               [used |-> r.used, bindings |-> [e \in r.entries |-> entries[e]]],
               NULL)
  /\ UNCHANGED <<files, entries, litter, crashes>>

MayExtend(x) == Readable /\ Total + x.added <= MaxBudget

CallExtend(a) ==
  /\ call[a] = NULL
  /\ \E x \in Extensions :
       MayExtend(x) /\ Call(a, "decided", Budget(x.op), x.added, NULL)
  /\ UNCHANGED <<files, entries, litter, crashes>>

\* What amend requires of every request, a replay or not.
MayReplace(q) ==
  /\ Readable /\ ValidWorkspace
  /\ q.entry \in Owned
  /\ entries[q.entry] # NULL
  /\ Cites(q.new, Owner(q.entry))

\* Mutant: the Workspace need not agree with the bindings first.
MayAmendDrifted(q) == Effective(q.entry) = q.old

MayAmend(q) ==
  /\ Verified
  /\ Effective(q.entry) = q.old
  /\ entries[q.entry] = q.old

\* Mutant: an interrupted operation is not taken up again.
MayResumeVerified(q) ==
  LET stored == files[Amendment(q.op)]
  IN  /\ Verified
      /\ stored.entry = q.entry /\ stored.old = q.old /\ stored.new = q.new

MayResume(q) ==
  LET stored == files[Amendment(q.op)]
  IN  stored.entry = q.entry /\ stored.old = q.old /\ stored.new = q.new

CallAmend(a, q) ==
  LET chain == Chain(q.entry)
      file == Amendment(q.op)
  IN  /\ call[a] = NULL
      /\ MayReplace(q)
      /\ IF Written(file)
         THEN /\ MayResume(q)
              /\ Call(a, "appended", file, files[file], entries[q.entry])
         ELSE /\ MayAmend(q)
              /\ Call(a, "decided", file,
                      [entry |-> q.entry, old |-> q.old, new |-> q.new,
                       sequence |-> Cardinality(chain) + 1,
                       previous |-> IF chain = {} THEN NULL ELSE LastOf(q.entry)],
                      entries[q.entry])
      /\ UNCHANGED <<files, entries, litter, crashes>>

-----------------------------------------------------------------------------
(* The steps that write.                                                   *)

At(a, phase) == call[a] # NULL /\ call[a].phase = phase

\* Where a call goes when its file holds its document.
Proceed(a) ==
  CASE call[a].file[1] = "amendment" -> call' = [call EXCEPT ![a].phase = "appended"]
    [] call[a].file = SourceFile -> Call(a, "decided", PlanFile, "plan", NULL)
    [] OTHER -> End(a)

\* os.open with O_CREAT and O_EXCL.
Create(a) ==
  /\ At(a, "decided")
  /\ files[call[a].file] = NULL
  /\ files' = [files EXCEPT ![call[a].file] = Torn]
  /\ call' = [call EXCEPT ![a].phase = "created"]
  /\ UNCHANGED <<entries, litter, crashes>>

\* The file exists already.  An exact copy is a replay; for a claim, a result
\* or a budget that is the end of the call, and so it is for any conflict.
Collide(a) ==
  /\ At(a, "decided")
  /\ files[call[a].file] # NULL
  /\ IF files[call[a].file] = call[a].document /\ call[a].file # SourceFile
     THEN Proceed(a) ELSE End(a)
  /\ UNCHANGED <<files, entries, litter, crashes>>

Fill(a) ==
  /\ At(a, "created")
  /\ files' = [files EXCEPT ![call[a].file] = call[a].document]
  /\ Proceed(a)
  /\ UNCHANGED <<entries, litter, crashes>>

MayStage(a) ==
  /\ call[a].seen = call[a].document.old
  /\ entries[call[a].document.entry] = call[a].document.old

\* _replace_entry_atomically checks the Entry, writes a temporary file beside
\* it, checks the Entry once more, and renames.
Stage(a) ==
  /\ At(a, "appended")
  /\ MayStage(a)
  /\ call' = [call EXCEPT ![a].phase = "staged"]
  /\ UNCHANGED <<files, entries, litter, crashes>>

Recheck(a) ==
  /\ At(a, "staged")
  /\ IF entries[call[a].document.entry] = call[a].document.old
     THEN call' = [call EXCEPT ![a].phase = "checked"] ELSE End(a)
  /\ UNCHANGED <<files, entries, litter, crashes>>

Replace(a) ==
  /\ At(a, "checked")
  /\ entries' = [entries EXCEPT ![call[a].document.entry] = call[a].document.new]
  /\ End(a)
  /\ UNCHANGED <<files, litter, crashes>>

\* The amendment was applied before, or the Entry is neither side of it.
GiveUp(a) ==
  /\ At(a, "appended")
  /\ ~MayStage(a)
  /\ End(a)
  /\ UNCHANGED <<files, entries, litter, crashes>>

-----------------------------------------------------------------------------
\* Between calls an agent writes a new Entry.
Draft(a) ==
  /\ call[a] = NULL
  /\ \E d \in Drafts : /\ entries[d.entry] = NULL
                       /\ entries' = [entries EXCEPT ![d.entry] = d.content]
  /\ UNCHANGED <<files, litter, crashes, call>>

\* Nothing that a dead process leaves behind is ever cleaned up.
Die(a) ==
  /\ call[a] # NULL
  /\ call[a].phase \in Interrupts
  /\ crashes < MaxCrashes
  /\ crashes' = crashes + 1
  /\ litter' = (litter \/ call[a].phase \in {"staged", "checked"})
  /\ End(a)
  /\ UNCHANGED <<files, entries>>

Work(a) ==
  \/ Create(a) \/ Collide(a) \/ Fill(a)
  \/ Stage(a) \/ Recheck(a) \/ Replace(a) \/ GiveUp(a)

Author(a) ==
  \/ CallPlan(a) \/ CallNext(a) \/ CallRecord(a) \/ CallExtend(a)
  \/ Work(a) \/ Draft(a) \/ Die(a)
  \/ \E q \in Amends : CallAmend(a, q)

Next == \E a \in Authors : Author(a)

Spec == Init /\ [][Next]_vars

\* A call that was started runs on, and an amendment that was interrupted is
\* asked for again, by whichever process.
Fairness ==
  /\ \A a \in Authors : WF_vars(Work(a))
  /\ \A q \in Amends : SF_vars(\E a \in Authors : CallAmend(a, q))

FairSpec == Spec /\ Fairness

-----------------------------------------------------------------------------
(* Properties.                                                             *)

\* Whatever file is there is a document of its kind (or torn), and the Workspace
\* holds Entries.
AuthoringTypeOK ==
  /\ DOMAIN files = Files
  /\ \A b \in Results : /\ files[Result(b)].used \in Nat
                        /\ Bound(b) \subseteq Entries
                        /\ \A e \in Bound(b) : files[Result(b)].bindings[e] \in Content
  /\ \A o \in Ops : Written(Budget(o)) => files[Budget(o)] \in Nat \ {0}
  /\ \A o \in Amended : files[Amendment(o)] \in AmendmentDocument
  /\ \A e \in Entries : entries[e] # NULL => entries[e] \in Content
  /\ litter \in BOOLEAN /\ crashes \in 0..MaxCrashes
  /\ \A a \in Authors : call[a] # NULL =>
       call[a].phase \in Phases /\ call[a].file \in Files

\* "Only one claim can remain outstanding" (docs/authoring-controller.md): the
\* batches are claimed in their order, and none before the result of the one
\* before it, however the processes that ask for the next batch race.
OneOutstanding ==
  /\ Claimed = 1..Cardinality(Claimed)
  /\ Recorded \subseteq Claimed
  /\ Cardinality(Outstanding) <= 1

\* Although next decides on progress that it read earlier, the plan's limits
\* are respected at the moment at which the claim appears: what is left of the
\* budget covers the estimate, and there is room for another Entry.
ClaimsCovered ==
  [][\A b \in Batches :
       files[Claim(b)] = NULL /\ files'[Claim(b)] # NULL =>
         /\ Estimate(b) <= Remaining
         /\ Cardinality(Owned) < MaxEntries]_vars

\* Whatever results race, an Entry is attributed to one batch, which its sealed
\* content cites, and the plan's Entry limit holds.
AttributionSound ==
  /\ AttributedOnce
  /\ Cardinality(Owned) <= MaxEntries
  /\ \A b \in Results : \A e \in Bound(b) : Cites(files[Result(b)].bindings[e], b)

\* No amendment of the Entry brings back what it or an earlier one replaced.
NeverReturns(e) ==
  \A o, p \in Chain(e) :
    files[Amendment(p)].sequence <= files[Amendment(o)].sequence =>
      files[Amendment(p)].old # files[Amendment(o)].new

\* The Workspace is at most one amendment behind the receipts: while an Entry's
\* chain can be read and never returns to what it replaced, the Entry is what
\* the last amendment made of it, or what that amendment is about to replace.
EntryKeepsUp ==
  \A e \in Owned :
    Continuous(e) /\ NeverReturns(e) =>
      \/ entries[e] = Effective(e)
      \/ Chain(e) # {} /\ entries[e] = files[Amendment(LastOf(e))].old

\* Once the Workspace agrees with an Entry's effective binding, only another
\* amendment makes it disagree ("A retry with the same operation and
\* replacement completes an interrupted [...] transition or reports an
\* already-applied replay", the authoring contract of the skill), as long as
\* the amendments never return to what they replaced.
BindingNotUndone ==
  [][\A e \in Owned :
       /\ Continuous(e) /\ NeverReturns(e) /\ entries[e] = Effective(e)
       /\ Chain(e)' = Chain(e)
       => entries'[e] = entries[e]]_vars

HasReceipt(q) ==
  /\ Written(Amendment(q.op))
  /\ LET stored == files[Amendment(q.op)]
     IN  stored.entry = q.entry /\ stored.old = q.old /\ stored.new = q.new

\* "Replaying the same operation after interruption converges"
\* (docs/authoring-controller.md): an operation that has its receipt, or one
\* that follows it in the chain, is in the Workspace sooner or later, whatever
\* raced with it.  What no operation of the controller gets past is excepted: a
\* temporary file among the Entries, and progress that cannot be read.
AmendConverges ==
  \A q \in Amends :
    HasReceipt(q) ~>
      \/ litter \/ ~Readable
      \/ \E o \in Chain(q.entry) :
           /\ Written(Amendment(q.op))
           /\ files[Amendment(o)].sequence >= files[Amendment(q.op)].sequence
           /\ entries[q.entry] = files[Amendment(o)].new

\* The amendments of an Entry form one chain without gaps and forks, as
\* _load_amendments asserts.
ChainsContinuous == \A e \in Entries : Continuous(e)

=============================================================================
