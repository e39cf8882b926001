----------------------------- MODULE LedgerBirth -----------------------------
(***************************************************************************)
(* How the database file of the Adaptive Memory ledger comes to be and is  *)
(* brought to the current schema (src/agiwiki/adaptive.py: initialize,     *)
(* _inspect_existing_database, _migrate_to_current, _connect), by          *)
(* processes that run at once, fail and die.                               *)
(*                                                                         *)
(* SQLite is external.  A transaction of its rollback journal is in three  *)
(* steps: it has taken the write lock, its pages are partly in the file,   *)
(* they all are; deleting the journal commits.  A process that dies in     *)
(* between leaves a hot journal, from which the next ordinary connection   *)
(* restores the file.  Recognition opens the file with mode=ro and         *)
(* immutable=1: it asks for no lock, knows no journal, and sees pages.     *)
(*                                                                         *)
(* executescript commits every statement of _SCHEMA by itself; statements  *)
(* that create one version's tables are one step here.  A process that     *)
(* waits for the write lock gives up after the busy timeout.               *)
(***************************************************************************)
EXTENDS Integers, Sequences

CONSTANTS
  Initializers,  \* processes that run initialize
  Readers,       \* processes that run an ordinary command
  Ledgers,       \* ledger_id values
  Old,           \* schema versions an old ledger may have at the start
  MaxFaults,     \* how many times a process dies or an operation fails
  NULL

ASSUME BirthAssumption ==
  /\ Old \subseteq 1..4
  /\ MaxFaults \in Nat
  /\ NULL \notin Ledgers

Current == 5

\* What the versions added: tables, and the principals' columns of review.
Script ==
  <<{"base"}, {"operations"}, {"principals"}, {"review", "attributed"},
    {"applications"}>>

Features ==
  {"base", "operations", "principals", "review", "attributed", "applications"}

\* The tables and columns that _verify_table_columns wants of a version.
SchemaOf(v) ==
  CASE v = 1 -> {"base"}
    [] v = 2 -> {"base", "operations"}
    [] v = 3 -> {"base", "operations", "review"}
    [] v = 4 -> Features \ {"applications"}
    [] OTHER -> Features

\* Mutant: the columns that version 4 added to review are forgotten.
AddedTables(v) ==
  {"applications"}
    \cup (IF v = 1 THEN {"operations"} ELSE {})
    \cup (IF v <= 3 THEN {"principals"} ELSE {})
    \cup (IF v <= 2 THEN {"review", "attributed"} ELSE {})

\* What a migration from a version adds.
Added(v) ==
  {"applications"}
    \cup (IF v = 1 THEN {"operations"} ELSE {})
    \cup (IF v <= 3 THEN {"principals"} ELSE {})
    \cup (IF v <= 2 THEN {"review", "attributed"} ELSE {})
    \cup (IF v = 3 THEN {"attributed"} ELSE {})

\* The contents of the database; version 0 is: no row in ledger_meta.
Image == [tables : SUBSET Features, version : 0..Current,
          ledger : Ledgers \cup {NULL}]

Empty == [tables |-> {}, version |-> 0, ledger |-> NULL]

\* The committed contents, and the pages in the file, which differ from them
\* only under a journal.
Database == [image : Image, pages : Image, torn : BOOLEAN, private : BOOLEAN]

\* The sentinel is no file.
ASSUME AbsenceAssumption == NULL \notin Database

Whole(image) ==
  image.version # 0 /\ image.tables = SchemaOf(image.version)

Places ==
  {"idle", "look", "create", "script", "inspect", "migrate", "write",
   "written", "synced", "stat", "connect"}

Call == [at : Places, wish : Ledgers \cup {NULL}, creates : BOOLEAN,
         step : 1..Len(Script) + 1, target : Image]

Answer == [by : {"created", "recognised", "migrated", "used"},
           ledger : Ledgers]

VARIABLES
  file,    \* adaptive.sqlite3, or NULL
  call,    \* [process -> what it is doing]
  answer,  \* [process -> what its last call returned, NULL after an error]
  faults   \* deaths and failures so far

vars == <<file, call, answer, faults>>

Procs == Initializers \cup Readers

BirthTypeOK ==
  /\ file \in Database \cup {NULL}
  /\ call \in [Procs -> Call]
  /\ answer \in [Procs -> Answer \cup {NULL}]
  /\ faults \in 0..MaxFaults

Idle == [at |-> "idle", wish |-> NULL, creates |-> FALSE, step |-> 1,
         target |-> Empty]

Clean(image) ==
  [image |-> image, pages |-> image, torn |-> FALSE, private |-> TRUE]

BirthInit ==
  /\ \/ file = NULL
     \/ \E v \in Old, l \in Ledgers :
          file = Clean([tables |-> SchemaOf(v), version |-> v, ledger |-> l])
  /\ call = [p \in Procs |-> Idle]
  /\ answer = [p \in Procs |-> NULL]
  /\ faults = 0

-----------------------------------------------------------------------------
(***************************************************************************)
(* Control and the database                                                *)
(***************************************************************************)

\* p goes on to another place of its call.
Goto(p, place) ==
  /\ call' = [call EXCEPT ![p].at = place]
  /\ UNCHANGED <<answer, faults>>

\* p's call ends with an answer, or with NULL for an error.
Return(p, a) ==
  /\ call' = [call EXCEPT ![p] = Idle]
  /\ answer' = [answer EXCEPT ![p] = a]
  /\ UNCHANGED faults

Refuse(p) == Return(p, NULL) /\ UNCHANGED file

\* q holds the write lock.
InTransaction(q) == call[q].at \in {"write", "written", "synced"}

\* q is writing pages, and lets nobody read.
Committing(q) == call[q].at \in {"written", "synced"}

\* The file after its hot journal, if it has one, is played back.
Recovered(db) == [db EXCEPT !.pages = db.image, !.torn = FALSE]

\* Mutant: whoever fails cleans up.
Unlinked(p) == IF InTransaction(p) THEN NULL ELSE Recovered(file)

\* The file that a failed transaction leaves: a creator unlinks it.
RolledBack(p) == IF call[p].creates THEN NULL ELSE Recovered(file)

\* What a reader without locks may find in the file.
Views ==
  CASE file = NULL -> {}
    [] file # NULL /\ file.torn -> {file.image, file.pages}
    [] OTHER -> {file.pages}

-----------------------------------------------------------------------------
(***************************************************************************)
(* initialize                                                              *)
(***************************************************************************)

\* An operator calls initialize, with or without a ledger_id.
Initialize(p, wish) ==
  /\ call[p].at = "idle"
  /\ call' = [call EXCEPT ![p] = [Idle EXCEPT !.at = "look", !.wish = wish]]
  /\ answer' = [answer EXCEPT ![p] = NULL]
  /\ UNCHANGED <<file, faults>>

\* database.exists()
Look(p) ==
  /\ call[p].at = "look"
  /\ Goto(p, IF file = NULL THEN "create" ELSE "inspect")
  /\ UNCHANGED file

\* os.open with O_CREAT | O_EXCL; the file may have appeared since.
Create(p) ==
  /\ call[p].at = "create"
  /\ IF file = NULL
     THEN /\ file' = Clean(Empty)
          /\ call' = [call EXCEPT ![p].at = "script", ![p].creates = TRUE]
          /\ UNCHANGED <<answer, faults>>
     ELSE Goto(p, "inspect") /\ UNCHANGED file

\* The next statements of _SCHEMA, each a transaction of its own, and after
\* the last the row of ledger_meta, with the wished or a random identity.
NextStatement(p) ==
  /\ call[p].at = "script"
  /\ ~\E q \in Procs : InTransaction(q)
  /\ \E l \in Ledgers :
       /\ call[p].wish \in {NULL, l}
       /\ LET step   == call[p].step
              target == IF step <= Len(Script)
                        THEN [file.image EXCEPT !.tables = @ \cup Script[step]]
                        ELSE [file.image EXCEPT !.version = Current,
                                                !.ledger = l]
          IN call' = [call EXCEPT ![p].at = "write", ![p].target = target]
  /\ file' = Recovered(file)
  /\ UNCHANGED <<answer, faults>>

\* Some of a transaction's pages are in the file.
WritePages(p) ==
  /\ call[p].at = "write"
  /\ file' = [file EXCEPT !.pages = call[p].target, !.torn = TRUE]
  /\ Goto(p, "written")

\* All of them are.
Sync(p) ==
  /\ call[p].at = "written"
  /\ file' = [file EXCEPT !.torn = FALSE]
  /\ Goto(p, "synced")

\* Mutant: the row of ledger_meta is taken for one more statement.
CommitOn(p) ==
  /\ call[p].at = "synced"
  /\ file' = [file EXCEPT !.image = call[p].target]
  /\ IF call[p].creates
     THEN /\ call' = [call EXCEPT ![p].at = "script", ![p].step = @ + 1]
          /\ UNCHANGED <<answer, faults>>
     ELSE Return(p, [by |-> "migrated", ledger |-> call[p].target.ledger])

\* The journal is deleted: the transaction is committed.
Commit(p) ==
  /\ call[p].at = "synced"
  /\ file' = [file EXCEPT !.image = call[p].target]
  /\ IF call[p].creates /\ call[p].step <= Len(Script)
     THEN /\ call' = [call EXCEPT ![p].at = "script", ![p].step = @ + 1]
          /\ UNCHANGED <<answer, faults>>
     ELSE Return(p, [by |-> IF call[p].creates THEN "created" ELSE "migrated",
                     ledger |-> call[p].target.ledger])

\* Mutant: what is recognised is not migrated.
Recognise(p) ==
  /\ call[p].at = "inspect"
  /\ file # NULL => file.private
  /\ \E seen \in Views :
       /\ Whole(seen)
       /\ Return(p, [by |-> "recognised", ledger |-> seen.ledger])
  /\ UNCHANGED file

\* _inspect_existing_database, and what initialize does with the result.  It
\* needs a private file and a whole image; the pages may change while it
\* reads them.
Inspect(p) ==
  /\ call[p].at = "inspect"
  /\ \/ /\ file # NULL => file.private
        /\ \E seen \in Views :
             /\ Whole(seen)
             /\ call[p].wish \in {NULL, seen.ledger}
             /\ IF seen.version = Current
                THEN Return(p, [by |-> "recognised", ledger |-> seen.ledger])
                ELSE Goto(p, "migrate")
        /\ UNCHANGED file
     \/ /\ \/ file = NULL
           \/ file # NULL /\ (file.torn \/ ~file.private)
           \/ \E q \in Procs : Committing(q)
           \/ \E seen \in Views :
                ~Whole(seen) \/ call[p].wish \notin {NULL, seen.ledger}
        /\ Refuse(p)

\* The image after the statements of _migrate_to_current.
Upgraded(image, v) ==
  [image EXCEPT !.tables = @ \cup Added(v), !.version = Current]

\* _migrate_to_current: BEGIN IMMEDIATE, then the version is read again.
Migrate(p) ==
  /\ call[p].at = "migrate"
  /\ ~\E q \in Procs : InTransaction(q)
  /\ IF file = NULL \/ ~file.private THEN Refuse(p)
     ELSE LET image  == file.image
              target == Upgraded(image, image.version)
          IN /\ file' = Recovered(file)
             /\ \/ /\ Whole(image) /\ image.version = Current
                   /\ Return(p, [by |-> "migrated", ledger |-> image.ledger])
                \/ /\ Whole(image) /\ image.version # Current /\ Whole(target)
                   /\ call' = [call EXCEPT ![p].at = "write",
                                           ![p].target = target]
                   /\ UNCHANGED <<answer, faults>>
                \/ /\ \/ ~Whole(image)
                      \/ image.version # Current /\ ~Whole(target)
                   /\ Return(p, NULL)

\* The write lock does not come within the busy timeout.
Busy(p) ==
  /\ call[p].at = "migrate"
  /\ \E q \in Procs : InTransaction(q)
  /\ Refuse(p)

-----------------------------------------------------------------------------
(***************************************************************************)
(* An ordinary command: require_private_regular_file, then sqlite3.connect *)
(***************************************************************************)

Use(p) ==
  /\ call[p].at = "idle"
  /\ call' = [call EXCEPT ![p] = [Idle EXCEPT !.at = "stat"]]
  /\ answer' = [answer EXCEPT ![p] = NULL]
  /\ UNCHANGED <<file, faults>>

Stat(p) ==
  /\ call[p].at = "stat"
  /\ IF file # NULL /\ file.private
     THEN Goto(p, "connect") /\ UNCHANGED file
     ELSE Refuse(p)

\* sqlite3.connect creates the file when it is gone, with the permissions of
\* the umask.
Connect(p) ==
  /\ call[p].at = "connect"
  /\ ~\E q \in Procs : Committing(q)
  /\ LET db == IF file = NULL THEN [Clean(Empty) EXCEPT !.private = FALSE]
               ELSE Recovered(file)
     IN /\ file' = db
        /\ Return(p, IF db.image.version = Current
                     THEN [by |-> "used", ledger |-> db.image.ledger]
                     ELSE NULL)

-----------------------------------------------------------------------------
(***************************************************************************)
(* Faults                                                                  *)
(***************************************************************************)

\* An operation of SQLite fails (the disk is full, an I/O error): the
\* transaction rolls back, and a creator unlinks its file.
Fail(p) ==
  /\ faults < MaxFaults
  /\ call[p].at = "script" \/ InTransaction(p)
  /\ file' = RolledBack(p)
  /\ call' = [call EXCEPT ![p] = Idle]
  /\ answer' = [answer EXCEPT ![p] = NULL]
  /\ faults' = faults + 1

\* The process dies; its locks go with it, its journal stays.
Die(p) ==
  /\ faults < MaxFaults
  /\ call[p].at # "idle"
  /\ call' = [call EXCEPT ![p] = Idle]
  /\ answer' = [answer EXCEPT ![p] = NULL]
  /\ faults' = faults + 1
  /\ UNCHANGED file

-----------------------------------------------------------------------------
Initializing(p) ==
  Look(p) \/ Create(p) \/ NextStatement(p) \/ WritePages(p) \/ Sync(p)
    \/ Commit(p) \/ Inspect(p) \/ Migrate(p) \/ Busy(p)

Using(p) == Use(p) \/ Stat(p) \/ Connect(p)

BirthNext ==
  \/ \E p \in Initializers :
       (\E wish \in Ledgers \cup {NULL} : Initialize(p, wish))
         \/ Initializing(p)
  \/ \E p \in Readers : Using(p)
  \/ \E p \in Procs : Fail(p) \/ Die(p)

BirthSpec == BirthInit /\ [][BirthNext]_vars

\* What processes have begun they go on with, somebody keeps calling
\* initialize without an identity, and ordinary commands keep coming.
FairBirthSpec ==
  /\ BirthSpec
  /\ \A p \in Initializers :
       WF_vars(Initializing(p)) /\ SF_vars(Initialize(p, NULL))
  /\ \A p \in Readers : WF_vars(Using(p))

-----------------------------------------------------------------------------
(***************************************************************************)
(* Properties                                                              *)
(***************************************************************************)

\* The database holds the ledger l, whole and at the current version.
Holds(l) ==
  /\ file # NULL
  /\ file.image = [tables |-> Features, version |-> Current, ledger |-> l]

\* The ledger l is about to be committed.
Pending(l) ==
  \E q \in Procs : /\ Committing(q)
                   /\ call[q].target.version = Current
                   /\ call[q].target.ledger = l

\* A call that returns a ledger it created, migrated or used speaks of what
\* is committed in the file, and goes on to be true whatever other processes
\* do, fail at or leave behind.  A call that recognised it has read the file
\* without locks: when nobody dies or fails, its ledger is committed or just
\* about to be (initialize, _connect, _inspect_existing_database).
AnnouncedHolds ==
  \A p \in Procs :
    answer[p] # NULL =>
      \/ Holds(answer[p].ledger)
      \/ /\ answer[p].by = "recognised"
         /\ faults > 0 \/ Pending(answer[p].ledger)

\* Once the row of ledger_meta is committed, no creation, migration, failure
\* or death removes the file, changes the ledger's identity, takes back its
\* version or commits tables that are not those of the version.
LedgerKept ==
  [][file # NULL /\ file.image.version # 0 =>
       /\ file' # NULL
       /\ file'.image.ledger = file.image.ledger
       /\ file'.image.version >= file.image.version
       /\ Whole(file'.image)]_vars

\* An old ledger is at the current version in the end, even if migrations
\* fail or die at any point: some later call migrates it.  This needs
\* ordinary commands beside initialize, since recognition plays no journal
\* back (initialize, _migrate_to_current).
OldUpgraded ==
  file # NULL /\ file.image.version \in 1..4
    ~> file # NULL /\ file.image.version = Current

=============================================================================
