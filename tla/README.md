# AGIwiki in TLA+

A verification project for AGIwiki (`src/src/agiwiki`): TLA+ models of the parts of the
system where processes, crashes, retries and time meet, TLC runs over small instances, and
theorems with TLAPS proofs that hold for every instance. Paths below are relative to the
repository; line numbers are in `PROJECT.json`, which maps every definition to the code it
translates.

## 1. The system

AGIwiki is a local-first memory for agents. It has two halves that share a Home directory:

* **Curated knowledge.** An author works through a source in batches (*authoring controller*),
  writes Entries into a *Workspace*, builds it into an immutable, content-addressed *Pack*,
  installs Packs into a *Home*, activates them, pins them to projects, and agents read them
  through the *runtime* and its MCP server.
* **Adaptive Memory.** A SQLite *ledger* of small memories that agents remember, correct and
  forget, with a *review loop* in which people propose, decide and apply deletions.

There is no server and no long-lived process. Every operation is a process that opens files or
a SQLite database, so concurrency means several processes on one machine, and failure means a
process that dies, a file operation that fails, or an answer that is lost.

| Component | Source | State | Operations | Hard behaviours | What makes it correct |
|---|---|---|---|---|---|
| Adaptive ledger | `adaptive.py`, `adaptive_contracts.py` | memories, operations, events, clock | remember, correct, forget, get, list, search | racing writers, the clock read before the transaction, retries under one `operation_id`, lost answers, expiry | lineages never fork; forgotten wholly and for good; one effect per operation; what was answered stays true |
| Review loop, principals | `adaptive.py` | principals, proposals, decisions, applications, and the ledger's tables | create/revoke principal, propose, decide, apply, review_due | the ledger moves between proposal, decision and application; revocation races use; two decisions race | the trail is complete and unforked; only what was decided is deleted; the last copy survives; nobody acts after revocation |
| Ledger creation and migration | `adaptive.py` | the database file, its pages and journal, its tables and version | initialize, migrate, the opening by an ordinary command | two creators, two migrations, recognition without locks, death or failure between any two steps | a committed ledger is never lost, renamed or half migrated; what a call announces is committed; old ledgers are upgraded in the end |
| Authoring controller | `authoring.py`, `authoring_contracts.py`, `contracts.py` | plan, claims, results, budgets, amendments: one write-once file each; Entries | plan, next, record, add-budget, amend (status and preflight only read) | no lock at all: every call reads all files, then writes one; crash between create and write, between receipt and replacement | one outstanding claim; budget covers claims; Entries attributed once; amendments converge |
| Workspace | `workspace.py`, `quality.py` | the Entries directory | initialize, load, validate | sees temporary files of its writers | modelled as the controller uses it |
| Home | `home.py`, `registry.py` | Packs on disk, lock files, releases, activations, project pins, marker files | install, verify, quarantine, activate, deactivate, link, load marker | steps between lock, files and registry; quarantine racing activation; crash before unlock | active means registered healthy; installs exclude each other and clobber nothing; pins are installed |
| Memory runtime, MCP server | `runtime.py`, `mcp.py` | none of its own | find, get, catalog | reads of the registry, the marker and files at different moments; quarantine as a side effect | broken Packs leave the active set |
| Pack build and verification | `pack.py`, `codec.py` | a Pack directory, a build lock | build, verify | two builds of one target | `verify_pack` is modelled as a verdict; build *not modelled* (section 7) |
| Search index cache | `index.py`, `pack.py` | a disposable SQLite file per Pack | search, ensure, build, rebuild, verify | no lock: readers race to publish it and replace it under one another; the Pack is edited while rows are derived | a search that no edit touches is answered from the authenticated content; searches are answered; rebuilding ends |
| Paths, CLI, doctor, integration | `paths.py`, `cli.py`, `doctor.py`, `integration.py` | none | parse, check, print | none | *not modelled*: no state of their own |
| Development loop | `tools/agiwiki_devloop` | a LangGraph state, the snapshot of preflight; it watches a Git worktree and HEAD | preflight, planner, implementer, verify, reviewer, decide; the gate around each | the gate's reads are apart, agents and commands write, others write or move HEAD, commands hang, three budgets | READY names the one worktree that was verified and approved; rounds are paid for; the loop ends |

How they interact: the review loop writes the ledger's own tables in the same transactions
(`AdaptiveReview` therefore EXTENDS `AdaptiveLedger`); the controller reads and replaces the
Workspace's Entries (one module); the runtime's reads quarantine releases in the Home's
registry (one module). The runtime searches a Pack through its cache; `Home` takes a search as
one step whose outcome is the Pack's state, and `IndexCache` models its inside. The ledger and
the Home share a directory but no file, so nothing composes them. The ledger's creation
(`LedgerBirth`) ends where `AdaptiveLedger` begins: its `Holds` is that model's empty ledger, and
`LedgerKept` is what lets the other models take the file for granted. The development loop is a
maintainers' tool beside the program.

`PROJECT.json` lists under `hazards` where this code is hard to test, each at its line, with
the properties that would catch it going wrong.

## 2. Modules

| Module | What it models |
|---|---|
| `AdaptiveLedger` | The ledger's tables and its clients. |
| `MemoryPromise` | What the ledger promises, without tables, time or retries. |
| `AdaptiveLedgerRefinement` | The refinement mapping from the tables to the promise. |
| `AdaptiveReview` | Principals, proposals, decisions and applications over the ledger. |
| `Authoring` | The controller's files and the Workspace's Entries, file operation by file operation. |
| `Home` | Packs, locks, registry, markers, and the calls of operators and readers. |
| `IndexCache` | One Pack's search cache and the readers that build, check and replace it. |
| `LedgerBirth` | How the ledger's database file is created, recognised, migrated and opened. |
| `DevLoop` | The nodes, gates and budgets of the development loop, its agents and its outsiders. |
| `AdaptiveLedgerProofs`, `AdaptiveLedgerRefinementProofs`, `AdaptiveReviewProofs`, `LedgerBirthProofs`, `AuthoringProofs`, `HomeProofs`, `IndexCacheProofs`, `DevLoopProofs` | Theorems and proofs. |
| `MC...` | Values of the constants for TLC. |

Operators whose comment begins with "Mutant:" are plausible bugs of the operator that follows
them. No specification uses them; each is substituted for the right one to show that a property
can fail (`mutants` in `PROJECT.json`).

### AdaptiveLedger

`memories`, `operations` and `events` are the three tables, `clock` the wall clock, `call` the
call that each client is making. `CallRemember`, `CallCorrect`, `CallForget` and `CallRecall`
check the arguments and read the clock, which in the code happens before `_connect`. `Remember`,
`Correct`, `Forget` and `Replay` are the `BEGIN IMMEDIATE` transactions, `Refuse` one that
raises and rolls back, `Recall` the query of `get`, `list` and `search`, and `Leave` a client
that takes its answer, gives up, or dies at any moment. `Tick` moves the clock in between, and
only forward: the code reads the wall clock, which is assumed never to be set back (section 3 says
what fails when it is).

A recall filters as `get` and `search` do (active, begun, not expired) or as `list` may be told to
(`Filter`, `Passes`): superseded and deleted memories are listed without regard to the time, and
`include_expired` keeps what has ended among the active ones, and is refused with any other status.
So `RecallCoherent` promises one revision of a lineage, and nothing that has ended, only where the
filter asks for that; of a list of superseded memories it says that none becomes active again, of
deleted ones that they stay so. `_record` validates each row that it returns, and a list of deleted
memories raises when one of them is not valid.

A token is one model value where the code has two independent random ones: a lineage bears the
name of its first record. A request digest is the request itself, which assumes that digests do
not collide. `confidence`, `sensitivity`, provenance and class travel with the content and are
left out; `observed_at` only orders listings.

### AdaptiveReview

Adds the four tables of the trail and the reviewers' calls. `Propose`, `Decide` and `Apply` are
the transactions, each authorising the principal inside itself as the code does;
`CreatePrincipal` and `RevokePrincipal` are one transaction each; `EndReview` is every way in
which a call changes nothing. `Recommended` is what `review_due` computes. "Keep one" and
"forget redundant" are treated alike by the code, as are a deferral and a rejection.

### Authoring

`files` maps each file name to its document, to NULL, or to `Torn`: created with `O_EXCL` and
not, or never, written. A call is a sequence of phases: *decided* (everything was read and
checked), *created*, then for an amendment *appended*, *staged* (the temporary file exists) and
*checked* (the Entry was looked at once more). `Die` may end a call in any of the phases in
`Interrupts`; `litter` records a temporary file that it left.

The reads that a call decides on are one step. For the write-once files this loses nothing that we
know of: the code reads claims before results before budgets before amendments, so what a later read
sees is only ever newer, and a decision on such a mixture is one that the atomic read could have made
at the moment of the first read or after a call in between, because batches are claimed in order and a
result presupposes its claim. This is argued here and not checked.

The argument does not reach the Entries. They are replaced in place, and the code reads them at other
moments than the receipts: a call may see the receipts from before an amendment and the Entry from
after it. The model has the two later looks that `_replace_entry_atomically` takes, before it stages
and before it replaces, and every interleaving with them, but takes the first reading of an Entry to
be at the moment of the receipts. What such a first reading, torn between an amendment's receipt and its replacement,
could do is therefore outside `EntryKeepsUp` and `BindingNotUndone`, and so are Entries that an author
edits by hand after they were recorded.

Budgets are sums in the code and cardinalities here: `Granted` and `Spent` are sets with one element
for each token that an extension grants or a result spends. `EntryKeepsUp` and `BindingNotUndone`
speak of an Entry whose chain is `Continuous` and `NeverReturns`: no amendment has made it again what an
earlier one replaced. Without the second condition both are false of the code (section 3).

### Home

A call is a record that says where it is and what it carries from step to step (`todo`, the row
it read, the marker it loaded). Each registry transaction or query and each file operation is a
step. `disk` abstracts a Pack's bytes to what `verify_pack` makes of them: *good*, *damaged* (it
raises `PackError`) or *malformed* (its manifest's schema raises `ContractError`). `Edit` is the
local owner changing files; `MkdtempFails` and `CopyFails` are a full disk before and after the
`try` of `install_pack`; `Crash` is a process that dies, whose `finally` clauses do not run.

`catalog` changes the Home as `get` without a project does and is not repeated. A source Pack
that does not verify, the busy timeout of SQLite, and the filters by workspace and pack id are
left out: they end a call early or narrow `todo`. The marker's temporary file and its
`os.replace` are one step.

### IndexCache

A search is a sequence of tasks (`try`, `cached`, `build`, `replay`, `winner`, `rebuild`,
`find`), each of which verifies the Pack, loads an Entry, hashes its file, and then either
compares the rows with a snapshot of the cache or writes a new file, checks that in the same
way, and publishes it. `Raise` is the chain of `except` clauses: which error leads to
`ensure_index`, which to a rebuild, and which to the caller. A file is its identity, which
every write changes as `_same_file` sees it, and its rows: those of the authenticated Pack
(*good*), of an edited one (*edited*), or anything else (*other*). The published file gets its permissions by its name (`Chmod`), which may
have been deleted. A reader that dies is one that stops, since its temporary file is in nobody's way. One Entry stands for all, and
`verify_pack` is a verdict at one moment.

### LedgerBirth

`file` is `adaptive.sqlite3`: the committed image (tables, version, ledger id), the pages that a
reader without locks would see, whether they are torn, and whether the mode is private. `call`
says where a process is: in `initialize` (`look`, `create`, `script`, `inspect`, `migrate`), in a
write transaction (`write`, `written`, `synced`), or in an ordinary command (`stat`, `connect`).
`_SCHEMA` runs through `executescript`, whose statements commit one by one: `NextStatement` takes
the lock for the next of them, `WritePages`, `Sync` and `Commit` bring it into the file, and the
last one is the row of `ledger_meta`. `Inspect` is `_inspect_existing_database`, whose connection
is `mode=ro&immutable=1`: it asks for no lock, knows no journal, and may see any mixture of old
and new pages. `Migrate` is `_migrate_to_current`, which reads the version again in its
transaction. `Fail` is an operation of SQLite that raises, upon which a creator unlinks its file;
`Die` leaves a hot journal, and the next ordinary connection restores the file from it
(`Recovered`). What the transaction does to the rows of old tables is not repeated: versions are
told apart by their tables and columns, as `_verify_table_columns` tells them.

### DevLoop

`stage` is the node of the graph and `gate` the step inside it: the three reads of
`_repository_gate` (HEAD, the paths changed since preflight's snapshot, the digest of the diff),
before and after each callback and each command, are steps of their own, with what they have read
so far. `run` is `DevLoopState`, `base` the snapshot and commit of preflight, `tree` and `head`
the world. Agents answer anything their contract allows, or raise (`AgentReturns`); the
implementer writes to any path (`ImplementerWrites`), allowed or not. A command passes, fails,
times out, or closes its output and runs on (`CloseOutput`). `Scribble`, `PutBack` and `MoveHead`
are outsiders between any two reads. `GraphRaises` is an exception that `run_dev_loop` turns into
HUMAN_REVIEW. Two variables are history: `approved`, what the reviewer saw when it answered, and
`undone`, that a change was taken back between two reads of the implementer's gate. A receipt
also remembers on which worktree its command started.

What an outsider writes differs from what the implementer writes, and the implementer does not
write while it is not called. So interference that is undone before the next read is not in the
model as a deviation: no gate that compares two readings could see it (section 3).

## 3. Runs

| Run | Question | Distinct states |
|---|---|---|
| `ledger` | Do lineages, bindings and the journal survive two racing clients with retries, lost answers and stale clocks, in two scopes and with recalls by every filter of `list`, does what clients were told stay true, and does the ledger implement `MemoryPromise`? | 788,000 |
| `ledger_retry` (violation) | Is the retry of a committed `remember` replayed? | |
| `review` | Beside a client who corrects and forgets, or with two reviewers who race two decisions and two applications: one decision, one application, a complete trail, only deletions of what was seen, the last copy kept, revoked capabilities out? | 804,000 |
| `review_due_empty` (violation) | Can what `review_due` recommends be done? | |
| `authoring` | With two authors, rival amendments and two crashes over three batches: one outstanding claim, claims covered, Entries attributed once, the Workspace following its receipts, interrupted amendments converging? The amendments include a rival and a reversal. | 47,000 |
| `authoring_fork` (violation) | Do the amendments of an Entry form one chain? | |
| `home` | With two processes, edits, failures and deaths: active healthy, installs exclusive, registered means published, pinned means installed? | 3,226,000 |
| `home_live` | Does a broken Pack leave the active set that reads consult for good, beside a project's scope that no read consults, and is an interrupted install completed? | 25,000 |
| `home_malformed` (violation) | The first of these for a Pack whose manifest is malformed. | |
| `index` | With two readers, edits of the Pack and a damaged or deleted cache: is an untouched search answered from the authenticated content, is every search answered, does rebuilding end, is a damaged Pack reported? | 501,000 |
| `birth` | With two processes that initialize and an ordinary reader, on no ledger and on every old version, with two faults: is what is announced committed, is a committed ledger kept, is an old one upgraded in the end? | 59,000 |
| `devloop` | With agents that answer and write anything, commands that hang and an outsider: does READY name the one worktree that was verified and approved, are rounds paid for, does the loop end? | 1,097,000 |

### What the violations show

* **`ledger_retry`.** `remember` normalises its value against the present time before it looks
  up its `operation_id`. When the value expired since, an exact retry of a committed call is
  refused; `docs/contracts.md` says the same ID and request replay.
* **`review_due_empty`.** A proposal without candidates is reported as pending with the action
  `decide_existing`, which `decide_review` refuses. The schedule stays suppressed.
* **`authoring_fork`.** Two amendments of one Entry read the same chain and append the same
  sequence number. From then on `_load_amendments` raises on every operation.
* **`home_malformed`.** `find_memory` quarantines on `PackError` only. A manifest that its schema
  refuses raises `ContractError`, so the Pack stays active and every find fails.

### Further disagreements met while modelling

Each can be reproduced by adding the formula to the module and checking it with the constants
named. They are not kept as runs.

* *A tombstone may be older than itself* (`ledger`, two memories): `\A m \in Stored :
  memories[m].updated >= memories[m].created`. A forget stamps revisions with the time it read
  before its transaction; a correction that committed in between was created later.
  `adaptive_contracts.py` refuses such a record, so that `list` with `status="deleted"` raises in
  that scope.
* *A clock that is set back* (`ledger` with `clock' \in 0..MaxClock \ {clock}` in `Tick`):
  `LiveRecordsValid` and `CorrectAndForgetRetriesReplay`. A correction stamps the record it
  supersedes with a time before its creation, and a forget its tombstone; neither can be read any
  more, so the exact retry of the forget is refused.
* *A Pack broken in a project's scope stays active* (`home_live`): `QuarantineWins` with
  `\A s \in Scopes : p \notin ActiveIn(s)`. `_active` lists the global scope for `find_memory`,
  `get_memory` and `catalog`; a Pack that is active only in a project's scope is verified by none of
  them, and stays until somebody calls `verify_release` or activates it again.
* *A mixed decision cannot be applied* (`review`): `\A s \in Scopes : \A q \in Latest(s), d \in
  DecisionIds : decisions[d] # NULL /\ decisions[d].proposal = q /\ "apply_supported_actions"
  \in Recommended(q, clock) => Accepted(d) = Supported(d)`. An accepted correction makes the
  whole application impossible although it is recommended.
* *A torn claim stops the plan* (`authoring`): a process that dies between `O_EXCL` and the write
  leaves a file on which every later `next` raises. `AmendConverges` excepts this state
  (`~Readable`).
* *Litter stops amendments* (`authoring`): a temporary file that a dead process leaves in
  `entries/` is refused by `validate_workspace` on every retry. `AmendConverges` excepts this
  state (`litter`). The same refusal keeps a second amendment out while a first one is
  replacing its Entry, and `BindingNotUndone` depends on it: its mutant drops it.
* *Racing extensions exceed the limit* (`authoring` with a second extension):
  `Total <= MaxBudget`.
  Afterwards the plan cannot be read. An extension near the limit is also refused when it is
  asked for again, because it is counted twice.
* *A retry undoes a reversal* (`authoring`): `EntryKeepsUp` and `BindingNotUndone` without
  `NeverReturns(e)`. An amendment may make an Entry again what an earlier one had replaced. The
  earlier operation, retried, finds its old side in place, takes its own replacement for
  interrupted, and puts its new side back: the receipts end with the reversal and the Entry does not.
* *Three readers can rebuild a good cache for ever* (`index` with `Readers = {r1, r2, r3}`):
  `CacheSettles`. Each replacement disturbs the check of the next reader, which takes a cache
  that changed while it was read for a bad one. Every reader is still answered again and again
  (`ReadersAnswered` holds for three with `MaxEdits = 3`, 1.7 million states). Two readers stop,
  thanks to the first attempt that `pack.find_memory` makes before `ensure_index`: without it,
  which is the mutant, two are enough.
* *A cache of edited content is published* (`index`): `tampers = 0 /\ index # NULL =>
  index.rows = "good"`. The Entry is loaded before its file is hashed, and rows of an edit pass
  when both derivations of `_create_index` load during an edit and hash after its undoing: four
  edits, and with three the formula holds. No search is answered from such a cache, because every
  reader compares it with rows that it derives itself, and that is what `AnswerSound` says.
* *A lock without an install* (`home`): `\A p \in locks : \E c \in Clients : Installing(c, p)`.
  `mkdtemp` is called after the lock is taken and before the `try` that releases it.
* *A marker that does not load* (`home`): two links of one project that both succeed may leave
  the pins of one and the marker of the other.
* *An ordinary command creates a database file* (`birth`): `file # NULL => file.private`.
  `_connect` checks the file and then opens it with a connection that creates it when a failing
  creator has unlinked it in between. The file is empty and has the permissions of the umask, and
  every later call refuses it. docs/security-model.md says that ordinary reads do not create a
  ledger.
* *A dead creator's file stays* (`birth`): `file # NULL /\ file.image.version = 0 ~>
  file = NULL \/ file.image.version # 0`. A process that dies between `O_EXCL` and the row of
  `ledger_meta` leaves a file that every later `initialize` inspects and refuses.
* *Initialize alone does not recover a torn migration* (`birth` with `Readers = {}`):
  `OldUpgraded`. Recognition opens the file as immutable and plays no journal back, so
  `initialize` is refused for ever; an ordinary command recovers the file.
* *A recognition may run ahead of a commit that is taken back* (`birth`): `AnnouncedHolds` with
  the death of a process not excepted. It may see the pages of a transaction whose process then
  dies.
* *A silent command is waited for without end* (`devloop`): `<>(stage = "end")`. The timeout is
  that of the loop which reads the output; a command that closes its output and runs on is waited
  for by `process.wait()`. docs/development-loop.md says that a timeout terminates the process
  group.
* *READY without a change* (`devloop`): `run.decision = "READY_FOR_HUMAN" =>
  ChangedIn(run.digest.tree) # {}`. The implementer's gate reads the changed paths before the
  digest; work that is put back in between counts as a change although there is none.
* *Changes undone before the next read* are not seen by any gate of the development loop: a file
  written and restored while a command ran. And a command whose output was cut off counts as
  passed when it had already ended with status 0, since its group's kill comes too late.

## 4. Bounds, and why they are enough

* **Ledger.** Two clients are enough for every race of two transactions; a third call sees only
  what one of them committed. Three memory tokens allow a chain of three revisions, and a fork
  (one record, two successors). Three operation ids allow one per revision, or a retry after a
  forget. `MaxClock = 1` separates a time read before a commit from one read after, and lets a
  value expire. A behaviour of the run writes in one scope with all three tokens, or writes
  and recalls in two scopes with two tokens and two ids, or writes in one scope with two tokens and
  lists what was deleted (`extent` in `MCAdaptiveLedgerRefinement`): scopes meet in no transaction,
  a recall needs one correction, and a tombstone older than itself a correction and a forget. Recalls
  ask by each filter: `get`'s, a content, `include_expired`, each status, and a refused pair.
* **Review.** The instance starts in a state that the ledger reaches, with the same content
  remembered twice, once until time 1: both kinds of candidate (duplicate and expired) occur.
  In a behaviour either a client supplies a further write, correction or forget beside reviewers
  who take turns, or two reviewers race each other's calls (`company` in `MCAdaptiveReview`), with
  two decisions and two applications on one proposal. The proofs know no such split.
* **Authoring.** Three batches (a last one shorter than the others), a budget that covers two of
  them and an extension that covers the third, an Entry that may be attributed to either of two
  batches and amended four ways: a correction and one that follows it, a rival of the first, and a
  reversal. Two crashes allow the recovery from a crash to crash.
* **Home.** Two Packs of one workspace displace each other; one scope in the
  safety run, whose properties speak of one scope at a time, and a project's scope beside the global
  one in the liveness runs, where it matters which scope reads consult; one project and one directory. Two processes race any two calls. `Interrupts` names
  the steps before which a process may die: those where it leaves a lock, a Pack without a row,
  or pins without a marker. The liveness run has one Pack, since Packs only meet in activation.

* **Index cache.** Two readers; `MaxEdits = 4` allows two edits and their undoing, with which rows
  of an edited Pack reach the cache (section 3); `MaxTampers = 1` gives a bad or a missing cache at
  any moment. `Ids` has one identity more than can be in use.
* **Ledger creation.** Two processes that initialize and one that opens; two ledger ids tell a
  kept identity from a new one; every old version; two faults allow a death and the death or
  failure of whoever comes after it.
* **Development loop.** A path that is allowed and one that is not; two drafts, so that a second
  round can change the first one's work; two commands, so that one runs after another passed; two
  rounds, with calls for both (`<<2, 5>>`) or for one and a half (`<<2, 4>>`). `MaxMischief = 2`
  allows interference and one more deed of it, or a write and a moved HEAD. A worktree that the
  user had changed is tried with the smaller budget only.

`MaxClock`, `Limit`, `MaxCrashes`, `ScanLimit`, `MaxEdits`, `MaxTampers`, `MaxFaults`,
`MaxMischief` and the sizes of the token sets are the only bounds of the models; all are guards, and
the proofs hold for every value of them.
Symmetry is used only where no liveness property is checked. `CHECK_DEADLOCK FALSE`
is given where the system may stop: a plan that is complete, or that cannot be read, and a Home in
which every process has died while a lock is held.

## 5. Fairness

The ledger and the review loop are specified without fairness: SQLite promises no order of
transactions, and every property checked there is a safety property.

* **`Authoring!FairSpec`.** A call that runs goes on (weak fairness of `Work`, which excludes
  dying), and an amendment is asked for again whenever it can be (strong fairness of
  `CallAmend`): docs/authoring-controller.md makes the retry the operator's part.
* **`Home!FairSpec`.** A call that runs goes on; an agent keeps asking (strong fairness of a
  find); an operator retries installs (strong fairness of `Install`); and a process that is about
  to insert its row is not killed every single time (strong fairness of `InsertRelease`).
  Nothing is assumed of edits, verifications, activations or crashes.

* **`IndexCache!FairSpec`.** A reader that has asked goes on (weak fairness of `Work`). Nothing is
  assumed of asking: the properties are about readers that ask again and again, and about a
  Pack that stays as it is from some time on.
* **`LedgerBirth!FairBirthSpec`.** What a process has begun goes on (weak fairness of
  `Initializing` and `Using`), ordinary commands keep coming (the same `Using`), and somebody keeps
  calling `initialize` without a ledger id (strong fairness, since a process may be busy with
  another call). An operator's retries and an agent's commands are all the code relies on.
* **`DevLoop!FairDevLoopSpec`.** The loop runs on, callbacks return, and deadlines pass while the
  output is open. A command need never end, which is why `Terminates` has its second half.

## 6. Proofs

All proofs are checked by TLAPS from nothing, with no bound on the sets.

**`AdaptiveLedgerProofs`.** `TypeCorrect` is type correctness. `LineagesSoundCorrect`,
`BindingsErased` and `NoDoubleWrite` are proved from one inductive invariant,
`IInv == TypeOK /\ MemoryInv /\ OperationInv`. The properties are not inductive by themselves:
that a correction does not fork a lineage needs that the active record has the highest revision
(`HeadsNewest`), which needs that lineages begin with a first record (`Rooted`) and have at most
one head (`OneHead`); that a lineage is whole is split into `AllOrNone`, `OneHead` and `SomeHead`,
which different steps disturb; that erasing a binding is exact needs that every operation's result
lies in its lineage (`ResultsFiled`). Each writer has a lemma on what it does to the tables
(`RememberStep`, `CorrectStep`, ...) and the invariant's parts are proved from those. Forgetting is
described for a set of lineages (`Scrubs`, `Erases`), because a client's forget erases one and an
application of the review loop several at once. `NoResurrection` proves the action property
`ForgetIsFinal` from the same invariant.

That what clients were told stays true needs more. `HistoryInv` says what the tables remember of the
calls that wrote them: no record is dated after the clock (`RecordsDated`), a tombstone keeps
nothing (`TombstonesEmpty`), and an operation that a client supplied has its effect in the tables
(`BindingsFulfilled`); `RecordsSound`, a property of the runs, is another part and needs the first.
`ClientsSound` says what a call may still rely on since it read the clock, which it does before its
transaction: its target was stored by then, and its answer holds. Every step keeps rows as `RowKept`
says, with the times that recalls filter by and a status that only advances, which is why a recall of
any status stays true. Both are kept by every step of
every client (`RecordsSoundCorrect`, `AnswersHoldCorrect`). A retry is an operation that is already
bound, so `BindingsFulfilled` is what `RetriesReplayCorrect` needs; `TransactionsReplayRetries` adds
that no transaction refuses an exact retry of any kind. What `ledger_retry` shows is therefore the
one refusal there is: the window of a retried `remember` is checked before the ledger is opened.

**`AdaptiveLedgerRefinementProofs`.** `LedgerKeepsPromise` proves that every behaviour of the
ledger is one of `MemoryPromise`. `Shows` says how a lineage appears under the mapping without
its CHOOSE, `ShownFrame` that a step which leaves a lineage's statuses and contents alone leaves
its appearance alone; each writer then maps to `Learn`, `Revise` or `Erase`, and every other
step to a stutter.

**`AdaptiveReviewProofs`.** `LedgerUnderReview` and `ForgetIsFinalUnderReview` carry the ledger's
theorems over to the composed system: every step of a reviewer keeps `IInv`. That needs `OwnIds`,
that the operation ids which an application derives are never supplied by a client. So do
`AnswersUnderReview` and `RetriesUnderReview`: an application only erases, and binds no id of a
client, hence `HistoryInv` is about supplied ids and survives. The rest is
proved from `ReviewInv`, which adds what the tables say of one another. `TrailGrows`, that no row
of the trail is ever taken back, is why a call may act on what it read before its transaction.
`NothingUnseenDeletedCorrect` uses that a deleted active record is the head of its lineage and
therefore itself a target (`OneHead`): targets are named by revision, and a corrected memory's new
head is in no candidate. `LastCopyKeptCorrect` uses that the
transaction checks again that a candidate still stands, and `ListsOnce`: a proposal lists a memory
in one candidate, so what one candidate keeps no other one deletes; and what had expired by the
clock that the call carries, which is never ahead, has expired. `TrailCompleteCorrect` needs
`CarriedOutOnce`, and that an application's derived ids are unused until it runs. `RevokedNeverActsCorrect` is
that each transaction authorises its principal inside itself.

**`LedgerBirthProofs`.** `LedgerKeptCorrect` and `AnnouncedHoldsCorrect` rest on `BirthInv`: what
is committed or seen in the pages with a version is a whole ledger (`ImagesSound`), a file without
one has exactly the tables of the statements that its one creator has committed (`CreatorSound`,
`Alone`), and what a writer is about to commit was built on what is committed (`WriterSound`),
because every writer reads again under the lock. The file is unlinked by its creator only, and
only before the ledger exists. `PagesKnown` says that, as long as nobody failed or died, a version
in the pages is committed or pending: this is the part of `AnnouncedHolds` that is about
recognition.

**`AuthoringProofs`.** `OneOutstandingCorrect` and `AttributionSoundCorrect` hold although no call
takes a lock. `AuthoringInv` says what a decided call may still rely on (`Founded`): the results
that a claim follows, since results are never taken back; and of a result that is still missing,
that nothing was attributed since it was decided on, since only the outstanding batch's result
can appear and that is its own. `Creators` says that a torn file is written by the process that
created it, and `Ordered(n)` that the claims are the first n batches and all but the last of them
are recorded. Each makes the other inductive: one outstanding batch is why attribution needs no
lock.

`EntryKeepsUpCorrect` and `BindingNotUndoneCorrect` rest on `AmendmentsInv`. Every receipt continues
a chain that begins with what was attributed (`Rooted`); an Entry whose chain is straight is what the
last receipt replaces or what it puts there (`KeepsUp`). A call that has not written its receipt
replaces, unless it is overtaken, what the Entry is now (`Promised`); one that has, and has staged
its replacement, has the last receipt (`Latest`), and meanwhile nobody is about to append the next
one (`Apart`), because the replacement's temporary file is refused by every other call. `EntersLast`
and `NextAfter` order the amendments of an Entry by their sequence as `Ordered` orders the batches.
The proof failed on chains that return to an earlier content, which is how that disagreement was
found (section 3). `ClaimsCoveredCorrect` is from the same invariant: no result can appear while a
claim is about to be written and extensions are never taken back, so a claim that the budget covered
when it was decided on is covered when it appears (`Covered`), although nobody holds a lock.

**`HomeProofs`.** `HomeTypeCorrect` is type correctness, together with the fact that a call
carries what its next step uses. `ActiveHealthyCorrect`, `InstallsExclusiveCorrect` and
`NothingDanglingCorrect` are proved from `HomeInv`, which adds `HolderWorks` (who holds a lock is
at a step of the locked part) and `CallsSeen` (what a call saw before the step it is at: a Pack
that was published, a release that was registered, a project that was linked). `CallsSeen` survives
the steps of other processes because nothing of it is ever taken back (`NothingTakenBack`), which
is the reason why the code may act on it later without a lock. Health is not of that kind, and
`ActiveHealthy` holds because `activate_exact` reads it again in its transaction.
`NoClobberCorrect` proves the action property `NoClobber`, which no run repeats.

**`IndexCacheProofs`.** `AnswerSoundCorrect` holds for any number of readers, edits and damages
of the cache. `Knows` is what a reader knows of the content as long as its search is untouched:
between loading and hashing it holds what is there, after hashing what the manifest authenticates,
and past the comparison with the cache the rows are those it derived. Nothing is assumed of the
cache.

**`DevLoopProofs`.** `RoundsAffordableCorrect` is proved from `Affordable`, the calls that the
rest of a round owes at each step. `ReadySoundCorrect` compares readings at different times by
equality alone, and is true because worktrees do not come back: while the implementer is idle, a
path goes from a draft to something else and from that to an outsider's version, and never the
other way (`Fades`, `NeverBack`). So if the last digest equals the first one, every reading in
between was of the same worktree: the commands', the reviewer's, and that of the allowlist. HEAD
moves once in the same manner (`Leads`). `ReadyInv` says this stage by stage. `LoopAdvances` is the
safety half of `Terminates`: `StepsLeft` counts the steps that the loop may still take by its
rounds, commands and reads, every step of its own leaves fewer, and agents and outsiders add none.
It uses both invariants, that no round begins beyond the budget (`Affordable`) and that no more
commands ran than there are (`Commanded`). That the loop does take those steps is fairness.

Assumptions: those named in the modules. Requests are of their types and sets that are counted
are finite (`RequestAssumption`, `BoundAssumption`, `SizeAssumption`, `HomeAssumption`,
`CacheAssumption`, `BirthAssumption`, `DevLoopAssumption`, `ReviewAssumption`); NULL and the other
sentinels differ from ordinary values (`SentinelAssumption`, `PromiseAssumption`,
`AbsenceAssumption`, and parts of those above); an implementer's drafts can be told from the
user's and the outsiders' versions (`VersionsAssumption`); derived operation ids are not supplied
by clients (`ReviewAssumption`). TLC evaluates them in the runs.

Every safety property that a run checks is thus the statement of a theorem. Only model-checked are
the liveness properties (`AmendConverges`, `QuarantineWins`, `InstallRecovers`, `ReadersAnswered`,
`CacheSettles`, `DamageReported`, `OldUpgraded`, `Terminates`): liveness under fairness is out of the
prover's reach, as are ENABLED, induction over data and RECURSIVE operators. No module here declares
one of the last.

## 7. Not modelled, and why

* Ranking, token budgets, layouts, wording, hashing and schemas: pure functions of their input
  that no property here distinguishes.
* Paths, permissions and symlink checks: they refuse a call before it changes anything.
* Legacy v1 results, the unlimited budget and a source that is edited under a plan.
* SQLite itself: elsewhere than in `LedgerBirth`, `BEGIN IMMEDIATE` is taken to be atomic and
  durable.
* `build_pack`: between its lock file and its no-replace rename it has the steps of
  `install_pack`, with the same temporary directory and the same `finally`, which `Home` models
  and `InstallsExclusive` is about; instead of registering the result it compares content digests
  with a target that exists. A builder that dies leaves its lock file as an installer does.
* The prompts, receipts and JSON validation of the development loop: what fails them is an answer
  that raises.
* Command line, diagnostics, client configuration: they call one operation of a modelled
  component, or only read.

## 8. Plan

The order was: the ledger and its promise, since everything that an agent may write passes
through it; the review loop on top of it; the authoring controller, which has the most crash
points; the Home; the search cache under it; the ledger's creation and migration; the development
loop; and proofs of each of them. What is left, in order:

1. `PackBuild`: the build lock, the staging directory and the no-replace rename, composed with
   `Home` through the published Pack.
2. A refinement of `LedgerBirth` to a register that is written once and upgraded, so that
   `AnnouncedHolds` and `LedgerKept` become one statement.
3. The promise under review: an application erases several lineages in one step, so `MemoryPromise`
   would have to erase a set of them.
4. Ranks like `StepsLeft` for the other liveness properties, as far as they are safety.
