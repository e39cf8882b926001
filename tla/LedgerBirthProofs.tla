-------------------------- MODULE LedgerBirthProofs --------------------------
(***************************************************************************)
(* Proofs that, for any processes, identities and number of faults, a      *)
(* ledger once committed is kept and what calls announce of it holds.      *)
(***************************************************************************)
EXTENDS LedgerBirth, TLAPS

\* An image that may be announced.
Sound(image) == Whole(image) /\ image.ledger \in Ledgers

\* The tables that the first statements of _SCHEMA make.
Built(n) ==
  CASE n = 1 -> {}
    [] n = 2 -> {"base"}
    [] n = 3 -> {"base", "operations"}
    [] n = 4 -> {"base", "operations", "principals"}
    [] n = 5 -> Features \ {"applications"}
    [] OTHER -> Features

\* Whatever is committed, or was to be when a journal was left, is announceable.
ImagesSound ==
  file # NULL =>
    /\ file.image.version # 0 => Sound(file.image)
    /\ file.pages.version # 0 => Sound(file.pages)

\* A creator's file has no identity yet and the tables made so far.
CreatorSound(p) ==
  /\ call[p].at = "script" => call[p].creates
  /\ ~call[p].creates => call[p].step = 1
  /\ call[p].creates =>
       /\ call[p].at = "script" \/ InTransaction(p)
       /\ file # NULL
       /\ file.image.version = 0
       /\ file.image.tables = Built(call[p].step)

\* What a writer is about to commit follows from what is committed.
WriterSound(p) ==
  InTransaction(p) =>
    /\ file # NULL
    /\ call[p].target.version # 0 => Sound(call[p].target)
    /\ call[p].creates =>
         IF call[p].step <= Len(Script)
         THEN /\ call[p].target.version = 0
              /\ call[p].target.tables = Built(call[p].step + 1)
         ELSE call[p].target.version = Current
    /\ ~call[p].creates =>
         /\ file.image.version # 0
         /\ call[p].target.version = Current
         /\ call[p].target.ledger = file.image.ledger

\* One process writes, and one creates.
Alone ==
  \A p, q \in Procs :
    \/ InTransaction(p) /\ InTransaction(q)
    \/ call[p].creates /\ call[q].creates
    => p = q

BirthInv ==
  /\ BirthTypeOK
  /\ ImagesSound
  /\ \A p \in Procs : CreatorSound(p) /\ WriterSound(p)
  /\ Alone

-----------------------------------------------------------------------------
(* Images.                                                                 *)

\* _SCHEMA in five steps.
LEMMA ScriptLength == Len(Script) = 5
BY DEF Script

\* Each adds its tables to those of the steps before it.
LEMMA BuiltStep ==
  ASSUME NEW n \in 1..Len(Script)
  PROVE  Built(n) \cup Script[n] = Built(n + 1)
<1>1. n \in {1, 2, 3, 4, 5} BY ScriptLength
<1>2. CASE n = 1 BY <1>2 DEF Built, Script, Features
<1>3. CASE n = 2 BY <1>3 DEF Built, Script, Features
<1>4. CASE n = 3 BY <1>4 DEF Built, Script, Features
<1>5. CASE n = 4 BY <1>5 DEF Built, Script, Features
<1>6. CASE n = 5 BY <1>6 DEF Built, Script, Features
<1> QED BY <1>1, <1>2, <1>3, <1>4, <1>5, <1>6

\* Together they make the current schema.
LEMMA BuiltAll == Built(Len(Script) + 1) = Features /\ Built(1) = {}
BY ScriptLength DEF Built

\* The tables of a script under way are known ones.
LEMMA BuiltType == \A n : Built(n) \subseteq Features
BY DEF Built, Features

\* The current schema has every table.
LEMMA SchemaCurrent == SchemaOf(Current) = Features
BY DEF SchemaOf, Current

\* Schemas and additions are made of the known tables.
LEMMA TablesType ==
  /\ \A v \in 1..5 : SchemaOf(v) \subseteq Features
  /\ \A v : Added(v) \subseteq Features
BY DEF SchemaOf, Added, Features

\* The image that a creator's last statement makes.
Born(i, l) == [i EXCEPT !.version = Current, !.ledger = l]

\* That image is the created one with its identity.
LEMMA BornImage ==
  ASSUME NEW i \in Image, NEW l \in Ledgers
  PROVE  /\ Born(i, l) \in Image
         /\ Born(i, l).tables = i.tables
         /\ Born(i, l).version = Current
         /\ Born(i, l).ledger = l
<1>1. Current \in 0..Current BY DEF Current
<1>2. /\ Born(i, l).tables = i.tables
      /\ Born(i, l).version = Current
      /\ Born(i, l).ledger = l
  BY DEF Born, Image
<1>3. Born(i, l) \in Image BY <1>1 DEF Born, Image
<1> QED BY <1>2, <1>3

\* The image that a migration makes.
LEMMA UpgradedImage ==
  ASSUME NEW i \in Image
  PROVE  /\ Upgraded(i, i.version) \in Image
         /\ Upgraded(i, i.version).version = Current
         /\ Upgraded(i, i.version).ledger = i.ledger
<1>1. Current \in 0..Current BY DEF Current
<1>2. /\ i.tables \cup Added(i.version) \in SUBSET Features
      /\ i.ledger \in Ledgers \cup {NULL}
  BY TablesType DEF Image
<1>3. Upgraded(i, i.version) \in Image BY <1>1, <1>2 DEF Upgraded, Image
<1>4. /\ Upgraded(i, i.version).version = Current
      /\ Upgraded(i, i.version).ledger = i.ledger
  BY <1>2 DEF Upgraded, Image
<1> QED BY <1>3, <1>4

\* An idle process claims nothing.
LEMMA IdleType ==
  Idle \in Call /\ Empty \in Image /\ Clean(Empty) \in Database
BY ScriptLength
   DEF Idle, Call, Empty, Image, Clean, Database, Places, Current, Script

-----------------------------------------------------------------------------
(* Frames.                                                                 *)

\* p's call becomes k, and no other.
Becomes(p, k) == call' = [call EXCEPT ![p] = k]

\* The calls after a step of p.
LEMMA CallsType ==
  ASSUME BirthTypeOK, NEW p \in Procs, NEW k \in Call, Becomes(p, k)
  PROVE  /\ call' \in [Procs -> Call]
         /\ call'[p] = k
         /\ \A q \in Procs : q # p => call'[q] = call[q]
BY DEF BirthTypeOK, Becomes

\* A step of p that leaves what is committed alone disturbs no other call.
LEMMA OthersKept ==
  ASSUME BirthInv, NEW p \in Procs,
         \A q \in Procs : q # p => call'[q] = call[q],
         file' # NULL <=> file # NULL,
         file # NULL => file'.image = file.image
  PROVE  \A q \in Procs : q # p => CreatorSound(q)' /\ WriterSound(q)'
BY DEF BirthInv, CreatorSound, WriterSound, InTransaction, Sound

\* When p ends its call, nobody's claim to be alone is disturbed, as when p
\* goes on to a place where it had the same claims or has none.
LEMMA AloneKept ==
  ASSUME BirthInv, NEW p \in Procs,
         \A q \in Procs : q # p => call'[q] = call[q],
         InTransaction(p)' =>
           InTransaction(p) \/ \A q \in Procs : q # p => ~InTransaction(q),
         call'[p].creates =>
           call[p].creates \/ \A q \in Procs : q # p => ~call[q].creates
  PROVE  Alone'
BY DEF BirthInv, Alone, InTransaction

\* Without a file nobody creates or writes.
LEMMA NobodyWithoutFile ==
  ASSUME BirthInv, file = NULL, NEW p \in Procs
  PROVE  ~InTransaction(p) /\ ~call[p].creates
BY DEF BirthInv, CreatorSound, WriterSound

\* A writer is alone with its file.
LEMMA NobodyBesideWriter ==
  ASSUME BirthInv, NEW p \in Procs, InTransaction(p)
  PROVE  \A q \in Procs : q # p => ~InTransaction(q) /\ ~call[q].creates
BY DEF BirthInv, Alone, CreatorSound, WriterSound

\* So is a creator.
LEMMA NobodyBesideCreator ==
  ASSUME BirthInv, NEW p \in Procs, call[p].creates
  PROVE  \A q \in Procs : q # p => ~InTransaction(q) /\ ~call[q].creates
BY DEF BirthInv, Alone, CreatorSound, WriterSound

-----------------------------------------------------------------------------
(* The invariant, action by action.                                        *)

\* An ordinary place of a call.
Claimless(k) ==
  /\ k.at \notin {"script", "write", "written", "synced"}
  /\ ~k.creates /\ k.step = 1

\* The file keeps its committed contents, or the pages are theirs again.
SameFile == file' = file \/ (file # NULL /\ file' = Recovered(file))

\* Such a step changes no committed contents.
LEMMA SameFileFacts ==
  ASSUME BirthInv, SameFile
  PROVE  /\ file' \in Database \cup {NULL}
         /\ file' # NULL <=> file # NULL
         /\ file # NULL => file'.image = file.image
         /\ ImagesSound'
<1>1. CASE file' = file BY <1>1 DEF BirthInv, BirthTypeOK, ImagesSound, Sound
<1>2. CASE file # NULL /\ file' = Recovered(file)
  <2>1. file \in Database BY <1>2 DEF BirthInv, BirthTypeOK
  <2>2. /\ file' \in Database
        /\ file'.image = file.image /\ file'.pages = file.image
    BY <1>2, <2>1 DEF Recovered, Database
  <2>3. file' # NULL BY <2>2, AbsenceAssumption
  <2> QED BY <1>2, <2>2, <2>3 DEF BirthInv, ImagesSound, Sound
<1> QED BY <1>1, <1>2 DEF SameFile

\* A step to or from an ordinary place that leaves the committed contents.
LEMMA QuietStep ==
  ASSUME BirthInv, SameFile, NEW p \in Procs, NEW k \in Call, Becomes(p, k),
         Claimless(k),
         answer' \in [Procs -> Answer \cup {NULL}], faults' \in 0..MaxFaults
  PROVE  BirthInv'
<1>1. /\ call' \in [Procs -> Call]
      /\ call'[p] = k
      /\ \A q \in Procs : q # p => call'[q] = call[q]
  BY CallsType DEF BirthInv
<1>2. BirthTypeOK' BY <1>1, SameFileFacts DEF BirthTypeOK
<1>3. /\ ~InTransaction(p)' /\ ~call'[p].creates
      /\ call'[p].at # "script" /\ call'[p].step = 1
  BY <1>1 DEF InTransaction, Claimless
<1>4. \A q \in Procs : q # p => CreatorSound(q)' /\ WriterSound(q)'
  BY <1>1, SameFileFacts, OthersKept
<1>5. CreatorSound(p)' /\ WriterSound(p)' BY <1>3 DEF CreatorSound, WriterSound
<1>6. Alone' BY <1>1, <1>3, AloneKept
<1> QED BY <1>2, <1>4, <1>5, <1>6, SameFileFacts DEF BirthInv

\* The same of a call that ends.
LEMMA ReturnStep ==
  ASSUME BirthInv, SameFile, NEW p \in Procs, NEW a \in Answer \cup {NULL},
         Return(p, a)
  PROVE  BirthInv'
<1>1. Becomes(p, Idle) /\ Idle \in Call /\ Claimless(Idle)
  BY IdleType DEF Return, Becomes, Idle, Claimless
<1>2. answer' \in [Procs -> Answer \cup {NULL}] /\ faults' \in 0..MaxFaults
  BY DEF Return, BirthInv, BirthTypeOK
<1> QED BY <1>1, <1>2, QuietStep

\* The same of a call that goes on to an ordinary place.
LEMMA GotoStep ==
  ASSUME BirthInv, UNCHANGED file, NEW p \in Procs, NEW place \in Places,
         Goto(p, place), ~call[p].creates,
         place \notin {"script", "write", "written", "synced"}
  PROVE  BirthInv'
<1>1. call \in [Procs -> Call] BY DEF BirthInv, BirthTypeOK
<1>2. /\ [call[p] EXCEPT !.at = place] \in Call
      /\ Claimless([call[p] EXCEPT !.at = place])
  BY <1>1 DEF Call, Claimless, BirthInv, CreatorSound
<1>3. Becomes(p, [call[p] EXCEPT !.at = place])
  BY <1>1 DEF Goto, Becomes
<1>4. answer' \in [Procs -> Answer \cup {NULL}] /\ faults' \in 0..MaxFaults
  BY DEF Goto, BirthInv, BirthTypeOK
<1> QED BY <1>2, <1>3, <1>4, QuietStep DEF SameFile

\* A new file appears where there was none, of which p may be the creator.
LEMMA NewFileStep ==
  ASSUME BirthInv, file = NULL, NEW p \in Procs, NEW k \in Call, Becomes(p, k),
         NEW db \in Database, file' = db, db.image = Empty, db.pages = Empty,
         \/ Claimless(k)
         \/ k.creates /\ k.at = "script" /\ k.step = 1,
         answer' \in [Procs -> Answer \cup {NULL}], faults' \in 0..MaxFaults
  PROVE  BirthInv'
<1>1. /\ call' \in [Procs -> Call]
      /\ call'[p] = k
      /\ \A q \in Procs : q # p => call'[q] = call[q]
  BY CallsType DEF BirthInv
<1>2. BirthTypeOK' BY <1>1 DEF BirthTypeOK
<1>3. file' # NULL BY AbsenceAssumption
<1>4. ImagesSound' BY DEF ImagesSound, Empty
<1>5. \A q \in Procs : /\ ~InTransaction(q) /\ ~call[q].creates
                       /\ call[q].at # "script" /\ call[q].step = 1
  BY NobodyWithoutFile DEF BirthInv, CreatorSound
<1>6. \A q \in Procs : q # p => CreatorSound(q)' /\ WriterSound(q)'
  BY <1>1, <1>5 DEF CreatorSound, WriterSound, InTransaction
<1>7. ~InTransaction(p)' BY <1>1 DEF InTransaction, Claimless
<1>8. CreatorSound(p)' /\ WriterSound(p)'
  BY <1>1, <1>3, <1>7, BuiltAll DEF CreatorSound, WriterSound, Claimless, Empty
<1>9. Alone' BY <1>1, <1>5, <1>7, AloneKept
<1> QED BY <1>2, <1>4, <1>6, <1>8, <1>9 DEF BirthInv

\* A call of initialize begins.
LEMMA InitializeStep ==
  ASSUME BirthInv, NEW p \in Procs, NEW wish \in Ledgers \cup {NULL},
         Initialize(p, wish)
  PROVE  BirthInv'
<1>1. /\ [Idle EXCEPT !.at = "look", !.wish = wish] \in Call
      /\ Claimless([Idle EXCEPT !.at = "look", !.wish = wish])
  BY IdleType DEF Idle, Call, Places, Claimless
<1>2. answer' \in [Procs -> Answer \cup {NULL}] /\ faults' \in 0..MaxFaults
  BY DEF Initialize, BirthInv, BirthTypeOK
<1> QED BY <1>1, <1>2, QuietStep DEF Initialize, Becomes, SameFile

\* Where a call that neither creates nor writes is.
LEMMA NotCreating ==
  ASSUME BirthInv, NEW p \in Procs,
         call[p].at \notin {"script", "write", "written", "synced"}
  PROVE  ~call[p].creates
BY DEF BirthInv, CreatorSound, InTransaction

\* It looks whether the file exists.
LEMMA LookStep ==
  ASSUME BirthInv, NEW p \in Procs, Look(p)
  PROVE  BirthInv'
<1>1. ~call[p].creates BY NotCreating DEF Look
<1>2. "create" \in Places /\ "inspect" \in Places BY DEF Places
<1> QED BY <1>1, <1>2, GotoStep DEF Look

\* It creates the file, and is its only creator.
LEMMA CreateStep ==
  ASSUME BirthInv, NEW p \in Procs, Create(p)
  PROVE  BirthInv'
<1>0. ~call[p].creates BY NotCreating DEF Create
<1>1. CASE file # NULL BY <1>0, <1>1, GotoStep DEF Create, Places
<1>2. CASE file = NULL
  <2> DEFINE k == [call[p] EXCEPT !.at = "script", !.creates = TRUE]
  <2>1. call \in [Procs -> Call] BY DEF BirthInv, BirthTypeOK
  <2>2. call[p].step = 1 BY <1>0 DEF BirthInv, CreatorSound
  <2>3. k \in Call /\ k.creates /\ k.at = "script" /\ k.step = 1
    BY <2>1, <2>2 DEF Call, Places
  <2>4. Becomes(p, k) BY <1>2, <2>1 DEF Create, Becomes
  <2>5. /\ Clean(Empty).image = Empty /\ Clean(Empty).pages = Empty
        /\ file' = Clean(Empty)
    BY <1>2 DEF Create, Clean
  <2>6. answer' \in [Procs -> Answer \cup {NULL}] /\ faults' \in 0..MaxFaults
    BY <1>2 DEF Create, BirthInv, BirthTypeOK
  <2> HIDE DEF k
  <2> QED BY <1>2, <2>3, <2>4, <2>5, <2>6, IdleType, NewFileStep
<1> QED BY <1>1, <1>2

\* The process p is about to write a target that its call allows.
LEMMA BeginStep ==
  ASSUME BirthInv, NEW p \in Procs, NEW k \in Call, Becomes(p, k),
         file # NULL, file' = Recovered(file),
         \A q \in Procs : ~InTransaction(q),
         k.at = "write", k.creates = call[p].creates, k.step = call[p].step,
         k.target.version # 0 => Sound(k.target),
         k.creates =>
           IF k.step <= Len(Script)
           THEN k.target.version = 0 /\ k.target.tables = Built(k.step + 1)
           ELSE k.target.version = Current,
         ~k.creates => /\ file.image.version # 0
                       /\ k.target.version = Current
                       /\ k.target.ledger = file.image.ledger,
         UNCHANGED <<answer, faults>>
  PROVE  BirthInv'
<1>1. /\ call' \in [Procs -> Call]
      /\ call'[p] = k
      /\ \A q \in Procs : q # p => call'[q] = call[q]
  BY CallsType DEF BirthInv
<1>2. /\ BirthTypeOK' /\ ImagesSound' /\ file' # NULL
      /\ file'.image = file.image
  BY <1>1, SameFileFacts DEF SameFile, BirthInv, BirthTypeOK
<1>3. \A q \in Procs : q # p => CreatorSound(q)' /\ WriterSound(q)'
  BY <1>1, <1>2, OthersKept
<1>4. InTransaction(p)' BY <1>1 DEF InTransaction
<1>5. CreatorSound(p)' BY <1>1, <1>2, <1>4 DEF BirthInv, CreatorSound
<1>6. WriterSound(p)' BY <1>1, <1>2 DEF WriterSound, Sound
<1>7. Alone' BY <1>1, AloneKept
<1> QED BY <1>2, <1>3, <1>5, <1>6, <1>7 DEF BirthInv

\* A creator's next statement takes the write lock.
LEMMA NextStatementStep ==
  ASSUME BirthInv, NEW p \in Procs, NextStatement(p)
  PROVE  BirthInv'
<1>1. PICK l \in Ledgers :
        call' = [call EXCEPT ![p].at = "write", ![p].target =
          IF call[p].step <= Len(Script)
          THEN [file.image EXCEPT !.tables = @ \cup Script[call[p].step]]
          ELSE [file.image EXCEPT !.version = Current, !.ledger = l]]
  BY DEF NextStatement
<1> DEFINE target ==
             IF call[p].step <= Len(Script)
             THEN [file.image EXCEPT !.tables = @ \cup Script[call[p].step]]
             ELSE [file.image EXCEPT !.version = Current, !.ledger = l]
           k == [call[p] EXCEPT !.at = "write", !.target = target]
<1>2. /\ call \in [Procs -> Call] /\ call[p].creates /\ file # NULL
      /\ file.image.version = 0 /\ file.image.tables = Built(call[p].step)
  BY DEF BirthInv, BirthTypeOK, CreatorSound, NextStatement
<1>3. file.image \in Image BY <1>2 DEF BirthInv, BirthTypeOK, Database
<1>4. call[p].step \in 1..Len(Script) + 1 BY <1>2 DEF Call
<1>5. /\ target \in Image
      /\ target.version # 0 => Sound(target)
      /\ IF call[p].step <= Len(Script)
         THEN target.version = 0 /\ target.tables = Built(call[p].step + 1)
         ELSE target.version = Current
  <2>1. CASE call[p].step <= Len(Script)
    <3>1. call[p].step \in 1..Len(Script) BY <1>4, <2>1, ScriptLength
    <3>2. target = [file.image EXCEPT !.tables = @ \cup Script[call[p].step]]
      BY <2>1
    <3>3. Built(call[p].step) \cup Script[call[p].step]
            = Built(call[p].step + 1)
      BY <3>1, BuiltStep
    <3>4. target.version = 0 /\ target.tables = Built(call[p].step + 1)
      BY <1>2, <1>3, <3>2, <3>3 DEF Image
    <3>5. target \in Image BY <1>3, <3>2, <3>4, BuiltType DEF Image
    <3> QED BY <2>1, <3>4, <3>5
  <2>2. CASE ~(call[p].step <= Len(Script))
    <3>1. target = Born(file.image, l)
      BY <2>2 DEF Born
    <3> HIDE DEF target
    <3>2. call[p].step = Len(Script) + 1 BY <1>4, <2>2, ScriptLength
    <3>3. file.image.tables = SchemaOf(Current)
      BY <1>2, <3>2, BuiltAll, SchemaCurrent
    <3>4. /\ target.version = Current /\ target.ledger = l
          /\ target.tables = SchemaOf(target.version) /\ target \in Image
      BY <1>3, <3>1, <3>3, BornImage
    <3>5. Sound(target)
      <4>1. target.version # 0 BY <3>4 DEF Current
      <4> QED BY <3>4, <4>1 DEF Sound, Whole
    <3> QED BY <2>2, <3>4, <3>5
  <2> QED BY <2>1, <2>2
<1>6. Becomes(p, k) BY <1>1, <1>2 DEF Becomes
<1> HIDE DEF target
<1>7. k \in Call BY <1>2, <1>5, ZenonT(40) DEF Call, Places
<1>8. /\ k.at = "write" /\ k.creates = call[p].creates /\ k.step = call[p].step
      /\ k.target = target
  BY <1>2 DEF Call
<1> HIDE DEF k
<1>9. /\ file' = Recovered(file) /\ UNCHANGED <<answer, faults>>
      /\ \A q \in Procs : ~InTransaction(q)
  BY DEF NextStatement
<1> QED BY <1>2, <1>5, <1>6, <1>7, <1>8, <1>9, BeginStep

\* What a writer's step starts from.
LEMMA WriterFacts ==
  ASSUME BirthInv, NEW p \in Procs, InTransaction(p)
  PROVE  /\ call \in [Procs -> Call] /\ call[p] \in Call
         /\ file \in Database /\ file # NULL
         /\ call[p].target.version # 0 => Sound(call[p].target)
         /\ call[p].target \in Image
BY DEF BirthInv, BirthTypeOK, WriterSound, Call

\* The pages of p go to the file, or are all there.
LEMMA PagesStep ==
  ASSUME BirthInv, NEW p \in Procs, InTransaction(p),
         NEW place \in {"written", "synced"}, Goto(p, place),
         file' \in Database, file'.image = file.image,
         file'.pages \in {file.pages, call[p].target}
  PROVE  BirthInv'
<1> DEFINE k == [call[p] EXCEPT !.at = place]
<1>1. k \in Call /\ Becomes(p, k)
  BY WriterFacts DEF Call, Places, Goto, Becomes
<1>2. /\ k.at = place /\ k.creates = call[p].creates /\ k.step = call[p].step
      /\ k.target = call[p].target
  BY WriterFacts DEF Call
<1> HIDE DEF k
<1>3. /\ call' \in [Procs -> Call]
      /\ call'[p] = k
      /\ \A q \in Procs : q # p => call'[q] = call[q]
  BY <1>1, CallsType DEF BirthInv
<1>4. file # NULL /\ file' # NULL BY WriterFacts, AbsenceAssumption
<1>5. BirthTypeOK' BY <1>3 DEF Goto, BirthInv, BirthTypeOK
<1>6. ImagesSound' BY <1>4, WriterFacts DEF BirthInv, ImagesSound, Sound
<1>7. \A q \in Procs : q # p => CreatorSound(q)' /\ WriterSound(q)'
  BY <1>3, <1>4, OthersKept
<1>8. InTransaction(p)' BY <1>2, <1>3 DEF InTransaction
<1>9. CreatorSound(p)' /\ WriterSound(p)'
  BY <1>2, <1>3, <1>4, <1>8 DEF BirthInv, CreatorSound, WriterSound, Sound
<1>10. Alone' BY <1>2, <1>3, AloneKept
<1> QED BY <1>5, <1>6, <1>7, <1>9, <1>10 DEF BirthInv

\* Pages reach the file under a journal.
LEMMA WritePagesStep ==
  ASSUME BirthInv, NEW p \in Procs, WritePages(p)
  PROVE  BirthInv'
<1>1. InTransaction(p) BY DEF WritePages, InTransaction
<1>2. /\ file' \in Database /\ file'.image = file.image
      /\ file'.pages = call[p].target
  BY <1>1, WriterFacts DEF WritePages, Database
<1> QED BY <1>1, <1>2, PagesStep DEF WritePages

\* All of them have.
LEMMA SyncStep ==
  ASSUME BirthInv, NEW p \in Procs, Sync(p)
  PROVE  BirthInv'
<1>1. InTransaction(p) BY DEF Sync, InTransaction
<1>2. /\ file' \in Database /\ file'.image = file.image
      /\ file'.pages = file.pages
  BY <1>1, WriterFacts DEF Sync, Database
<1> QED BY <1>1, <1>2, PagesStep DEF Sync

\* A commit makes the committed image what its writer built on it.
LEMMA CommitStep ==
  ASSUME BirthInv, NEW p \in Procs, Commit(p)
  PROVE  BirthInv'
<1>1. InTransaction(p) /\ call[p].at = "synced" BY DEF Commit, InTransaction
<1>2. /\ file' \in Database /\ file' # NULL
      /\ file'.image = call[p].target /\ file'.pages = file.pages
  BY <1>1, WriterFacts, AbsenceAssumption DEF Commit, Database
<1>3. ImagesSound'
  BY <1>1, <1>2, WriterFacts DEF BirthInv, ImagesSound, Sound
<1>4. \A q \in Procs : q # p =>
        ~InTransaction(q) /\ ~call[q].creates /\ call[q].at # "script"
  BY <1>1, NobodyBesideWriter DEF BirthInv, CreatorSound
<1>5. ASSUME NEW k \in Call, Becomes(p, k),
             \/ Claimless(k)
             \/ /\ k.at = "script" /\ k.creates /\ call[p].creates
                /\ call[p].step <= Len(Script) /\ k.step = call[p].step + 1,
             answer' \in [Procs -> Answer \cup {NULL}], faults' = faults
      PROVE  BirthInv'
  <2>1. /\ call' \in [Procs -> Call]
        /\ call'[p] = k
        /\ \A q \in Procs : q # p => call'[q] = call[q]
    BY <1>5, CallsType DEF BirthInv
  <2>2. BirthTypeOK' BY <1>2, <1>5, <2>1 DEF BirthInv, BirthTypeOK
  <2>3. \A q \in Procs : q # p => CreatorSound(q)' /\ WriterSound(q)'
    BY <1>4, <2>1 DEF BirthInv, CreatorSound, WriterSound, InTransaction
  <2>4. ~InTransaction(p)' BY <1>5, <2>1 DEF InTransaction, Claimless
  <2>5. CreatorSound(p)' /\ WriterSound(p)'
    BY <1>1, <1>2, <1>5, <2>1, <2>4
    DEF BirthInv, CreatorSound, WriterSound, Claimless
  <2>6. Alone' BY <1>4, <2>1, <2>4, AloneKept
  <2> QED BY <1>3, <2>2, <2>3, <2>5, <2>6 DEF BirthInv
<1>6. CASE call[p].creates /\ call[p].step <= Len(Script)
  <2> DEFINE k == [call[p] EXCEPT !.at = "script", !.step = @ + 1]
  <2>1. Becomes(p, k) BY <1>1, <1>6, WriterFacts DEF Commit, Becomes
  <2>2. k \in Call
    <3>1. call[p] \in Call BY <1>1, WriterFacts
    <3>2. call[p].step + 1 \in 1..Len(Script) + 1
      BY <1>6, <3>1, ScriptLength DEF Call
    <3>3. "script" \in Places BY DEF Places
    <3> QED BY <3>1, <3>2, <3>3 DEF Call
  <2>3. k.at = "script" /\ k.creates /\ k.step = call[p].step + 1
    BY <1>1, <1>6, WriterFacts DEF Call
  <2> HIDE DEF k
  <2>4. answer' \in [Procs -> Answer \cup {NULL}] /\ faults' = faults
    BY <1>6 DEF Commit, BirthInv, BirthTypeOK
  <2> QED BY <1>5, <1>6, <2>1, <2>2, <2>3, <2>4
<1>7. CASE ~(call[p].creates /\ call[p].step <= Len(Script))
  <2> DEFINE a == [by |-> IF call[p].creates THEN "created" ELSE "migrated",
                   ledger |-> call[p].target.ledger]
  <2>1. Return(p, a) BY <1>7 DEF Commit
  <2>2. call[p].target.version = Current
    BY <1>1, <1>7 DEF BirthInv, WriterSound
  <2>3. a \in Answer
    BY <1>1, <2>2, WriterFacts DEF Answer, Sound, Current
  <2> HIDE DEF a
  <2>4. Becomes(p, Idle) /\ Claimless(Idle)
    BY <2>1 DEF Return, Becomes, Idle, Claimless
  <2>5. answer' \in [Procs -> Answer \cup {NULL}] /\ faults' = faults
    BY <2>1, <2>3 DEF Return, BirthInv, BirthTypeOK
  <2> QED BY <1>5, <2>4, <2>5, IdleType
<1> QED BY <1>6, <1>7

\* What recognition may find is announceable if it is whole.
LEMMA ViewsSound ==
  ASSUME BirthInv, NEW seen \in Views, Whole(seen)
  PROVE  Sound(seen) /\ file # NULL
BY DEF BirthInv, ImagesSound, Views, Whole, Sound

\* A recognition changes nothing.
LEMMA InspectStep ==
  ASSUME BirthInv, NEW p \in Procs, Inspect(p)
  PROVE  BirthInv'
<1>1. ~call[p].creates BY NotCreating DEF Inspect
<1>2. CASE \E seen \in Views :
             /\ Whole(seen)
             /\ Return(p, [by |-> "recognised", ledger |-> seen.ledger])
             /\ UNCHANGED file
  <2>1. PICK seen \in Views :
          /\ Whole(seen)
          /\ Return(p, [by |-> "recognised", ledger |-> seen.ledger])
          /\ UNCHANGED file
    BY <1>2
  <2>2. [by |-> "recognised", ledger |-> seen.ledger] \in Answer
    BY <2>1, ViewsSound DEF Sound, Answer
  <2> QED BY <2>1, <2>2, ReturnStep DEF SameFile
<1>3. CASE Goto(p, "migrate") /\ UNCHANGED file
  BY <1>1, <1>3, GotoStep DEF Places
<1>4. CASE Refuse(p) BY <1>4, ReturnStep DEF Refuse, SameFile
<1> QED BY <1>2, <1>3, <1>4 DEF Inspect

\* A migration takes the write lock and reads the version again.
LEMMA MigrateStep ==
  ASSUME BirthInv, NEW p \in Procs, Migrate(p)
  PROVE  BirthInv'
<1>1. ~call[p].creates BY NotCreating DEF Migrate
<1>2. CASE file = NULL \/ ~file.private
  BY <1>2, ReturnStep DEF Migrate, Refuse, SameFile
<1>3. CASE ~(file = NULL \/ ~file.private)
  <2> DEFINE target == Upgraded(file.image, file.image.version)
  <2>1. file # NULL /\ file' = Recovered(file) BY <1>3 DEF Migrate
  <2>2. CASE Return(p, NULL) BY <2>1, <2>2, ReturnStep DEF SameFile
  <2>3. CASE /\ Whole(file.image) /\ file.image.version = Current
             /\ Return(p, [by |-> "migrated", ledger |-> file.image.ledger])
    <3>1. [by |-> "migrated", ledger |-> file.image.ledger] \in Answer
      BY <2>1, <2>3 DEF BirthInv, ImagesSound, Sound, Whole, Answer
    <3> QED BY <2>1, <2>3, <3>1, ReturnStep DEF SameFile
  <2>4. CASE /\ Whole(file.image) /\ Whole(target)
             /\ call' = [call EXCEPT ![p].at = "write", ![p].target = target]
             /\ UNCHANGED <<answer, faults>>
    <3> DEFINE k == [call[p] EXCEPT !.at = "write", !.target = target]
    <3>1. call \in [Procs -> Call] /\ file.image \in Image
      BY <2>1 DEF BirthInv, BirthTypeOK, Database
    <3>2. /\ target \in Image /\ target.version = Current
          /\ target.ledger = file.image.ledger
      BY <3>1, UpgradedImage
    <3>3. Sound(target)
      BY <2>1, <2>4, <3>2 DEF BirthInv, ImagesSound, Sound, Whole
    <3>4. file.image.version # 0 BY <2>4 DEF Whole
    <3>5. Becomes(p, k) BY <2>4, <3>1 DEF Becomes
    <3> HIDE DEF target
    <3>6. k \in Call BY <3>1, <3>2 DEF Call, Places
    <3>7. /\ k.at = "write" /\ k.creates = call[p].creates
          /\ k.step = call[p].step /\ k.target = target
      BY <3>1 DEF Call
    <3> HIDE DEF k
    <3>8. \A q \in Procs : ~InTransaction(q) BY DEF Migrate
    <3> QED BY <1>1, <2>1, <2>4, <3>2, <3>3, <3>4, <3>5, <3>6, <3>7, <3>8,
               BeginStep
  <2> QED BY <1>3, <2>2, <2>3, <2>4 DEF Migrate
<1> QED BY <1>2, <1>3

\* An ordinary command begins.
LEMMA UseStep ==
  ASSUME BirthInv, NEW p \in Procs, Use(p)
  PROVE  BirthInv'
<1>1. /\ [Idle EXCEPT !.at = "stat"] \in Call
      /\ Claimless([Idle EXCEPT !.at = "stat"])
  BY IdleType DEF Idle, Call, Places, Claimless
<1>2. answer' \in [Procs -> Answer \cup {NULL}] /\ faults' \in 0..MaxFaults
  BY DEF Use, BirthInv, BirthTypeOK
<1> QED BY <1>1, <1>2, QuietStep DEF Use, Becomes, SameFile

\* It looks at the file's kind and mode.
LEMMA StatStep ==
  ASSUME BirthInv, NEW p \in Procs, Stat(p)
  PROVE  BirthInv'
<1>1. ~call[p].creates BY NotCreating DEF Stat
<1>2. CASE Refuse(p) BY <1>2, ReturnStep DEF Refuse, SameFile
<1> QED BY <1>1, <1>2, GotoStep DEF Stat, Places

\* It opens the file, or creates one that is not private.
LEMMA ConnectStep ==
  ASSUME BirthInv, NEW p \in Procs, Connect(p)
  PROVE  BirthInv'
<1>1. CASE file = NULL
  <2> DEFINE db == [Clean(Empty) EXCEPT !.private = FALSE]
  <2>1. /\ db \in Database /\ db.image = Empty /\ db.pages = Empty
        /\ db.image.version # Current
    <3>1. /\ Clean(Empty) \in Database
          /\ Clean(Empty).image = Empty /\ Clean(Empty).pages = Empty
      BY IdleType DEF Clean
    <3>2. Empty.version # Current BY DEF Empty, Current
    <3> QED BY <3>1, <3>2 DEF Database
  <2>2. file' = db /\ Return(p, NULL) BY <1>1, <2>1 DEF Connect
  <2> HIDE DEF db
  <2>3. Becomes(p, Idle) /\ Claimless(Idle)
    BY <2>2 DEF Return, Becomes, Idle, Claimless
  <2>4. answer' \in [Procs -> Answer \cup {NULL}] /\ faults' \in 0..MaxFaults
    BY <2>2 DEF Return, BirthInv, BirthTypeOK
  <2> QED BY <1>1, <2>1, <2>2, <2>3, <2>4, IdleType, NewFileStep
<1>2. CASE file # NULL
  <2>1. file' = Recovered(file) BY <1>2 DEF Connect
  <2>2. file'.image = file.image
    BY <1>2, <2>1 DEF BirthInv, BirthTypeOK, Recovered, Database
  <2>3. CASE Return(p, NULL) BY <1>2, <2>1, <2>3, ReturnStep DEF SameFile
  <2>4. CASE /\ file'.image.version = Current
             /\ Return(p, [by |-> "used", ledger |-> file'.image.ledger])
    <3>1. [by |-> "used", ledger |-> file'.image.ledger] \in Answer
      BY <1>2, <2>2, <2>4 DEF BirthInv, ImagesSound, Sound, Answer, Current
    <3> QED BY <1>2, <2>1, <2>4, <3>1, ReturnStep DEF SameFile
  <2> QED BY <1>2, <2>1, <2>3, <2>4 DEF Connect
<1> QED BY <1>1, <1>2

\* A process dies: its journal keeps the committed image.
LEMMA DieStep ==
  ASSUME BirthInv, NEW p \in Procs, Die(p)
  PROVE  BirthInv'
<1>1. answer' \in [Procs -> Answer \cup {NULL}] /\ faults' \in 0..MaxFaults
  BY BirthAssumption DEF Die, BirthInv, BirthTypeOK
<1>2. Becomes(p, Idle) /\ Claimless(Idle)
  BY DEF Die, Becomes, Idle, Claimless
<1> QED BY <1>1, <1>2, IdleType, QuietStep DEF Die, SameFile

\* A failure rolls back; only a creator removes the file.
LEMMA FailStep ==
  ASSUME BirthInv, NEW p \in Procs, Fail(p)
  PROVE  BirthInv'
<1>1. answer' \in [Procs -> Answer \cup {NULL}] /\ faults' \in 0..MaxFaults
  BY BirthAssumption DEF Fail, BirthInv, BirthTypeOK
<1>2. Becomes(p, Idle) /\ Claimless(Idle)
  BY DEF Fail, Becomes, Idle, Claimless
<1>3. CASE ~call[p].creates
  <2>1. InTransaction(p) BY <1>3 DEF Fail, BirthInv, CreatorSound
  <2>2. SameFile BY <1>3, <2>1, WriterFacts DEF Fail, RolledBack, SameFile
  <2> QED BY <1>1, <1>2, <2>2, IdleType, QuietStep
<1>4. CASE call[p].creates
  <2>1. file' = NULL BY <1>4 DEF Fail, RolledBack
  <2>2. /\ call' \in [Procs -> Call]
        /\ call'[p] = Idle
        /\ \A q \in Procs : q # p => call'[q] = call[q]
    BY <1>2, IdleType, CallsType DEF BirthInv
  <2>3. \A q \in Procs : q # p =>
          ~InTransaction(q) /\ ~call[q].creates /\ call[q].at # "script"
    BY <1>4, NobodyBesideCreator DEF BirthInv, CreatorSound
  <2>4. ~InTransaction(p)' BY <2>2 DEF InTransaction, Idle
  <2>5. \A q \in Procs : CreatorSound(q)' /\ WriterSound(q)'
    BY <1>2, <2>2, <2>3, <2>4
    DEF BirthInv, CreatorSound, WriterSound, InTransaction, Claimless
  <2>6. Alone' BY <1>2, <2>2, <2>3, <2>4, AloneKept DEF Claimless
  <2>7. BirthTypeOK' /\ ImagesSound'
    BY <1>1, <2>1, <2>2 DEF BirthTypeOK, ImagesSound
  <2> QED BY <2>5, <2>6, <2>7 DEF BirthInv
<1> QED BY <1>3, <1>4

\* Every step keeps the invariant.
LEMMA InvStep ==
  ASSUME BirthInv, [BirthNext]_vars
  PROVE  BirthInv'
<1>1. CASE UNCHANGED vars
  BY <1>1 DEF vars, BirthInv, BirthTypeOK, ImagesSound, CreatorSound,
     WriterSound, Alone, InTransaction, Sound
<1>2. ASSUME NEW p \in Procs, Initializing(p) PROVE BirthInv'
  <2>1. CASE Busy(p) BY <2>1, ReturnStep DEF Busy, Refuse, SameFile
  <2> QED BY <1>2, <2>1, LookStep, CreateStep, NextStatementStep,
          WritePagesStep, SyncStep, CommitStep, InspectStep, MigrateStep
          DEF Initializing
<1>3. ASSUME NEW p \in Procs, Using(p) PROVE BirthInv'
  BY <1>3, UseStep, StatStep, ConnectStep DEF Using
<1>4. Initializers \subseteq Procs /\ Readers \subseteq Procs BY DEF Procs
<1> QED BY <1>1, <1>2, <1>3, <1>4, InitializeStep, FailStep, DieStep
        DEF BirthNext

\* The committed image is a ledger, whole, or what its one creator has built
\* so far, in every behaviour.
THEOREM BirthInvCorrect == BirthSpec => []BirthInv
<1>1. BirthInit => BirthInv
  <2> SUFFICES ASSUME BirthInit PROVE BirthInv
    OBVIOUS
  <2>1. \A p \in Procs : call[p] = Idle BY DEF BirthInit
  <2>2. \A p \in Procs : ~InTransaction(p) /\ Claimless(call[p])
    BY <2>1 DEF InTransaction, Idle, Claimless
  <2>3. CASE file = NULL
    <3>1. BirthTypeOK
      BY <2>3, IdleType, BirthAssumption DEF BirthInit, BirthTypeOK
    <3>2. ImagesSound BY <2>3 DEF ImagesSound
    <3> QED BY <2>2, <3>1, <3>2
            DEF BirthInv, CreatorSound, WriterSound, Alone, Claimless
  <2>4. ASSUME NEW v \in Old, NEW l \in Ledgers,
               file = Clean([tables |-> SchemaOf(v), version |-> v,
                             ledger |-> l])
        PROVE  BirthInv
    <3> DEFINE i == [tables |-> SchemaOf(v), version |-> v, ledger |-> l]
    <3>1. v \in 1..4 BY BirthAssumption
    <3>2. i \in Image /\ Sound(i)
      BY <3>1, TablesType DEF Image, Current, Sound, Whole
    <3> HIDE DEF i
    <3>3. file \in Database /\ file.image = i /\ file.pages = i
      BY <2>4, <3>2 DEF Clean, Database, i
    <3>4. BirthTypeOK
      BY <3>3, IdleType, BirthAssumption DEF BirthInit, BirthTypeOK
    <3>5. ImagesSound BY <3>2, <3>3 DEF ImagesSound
    <3> QED BY <2>2, <3>4, <3>5
            DEF BirthInv, CreatorSound, WriterSound, Alone, Claimless
  <2> QED BY <2>3, <2>4 DEF BirthInit
<1> QED BY <1>1, InvStep, PTL DEF BirthSpec

\* Every reachable state is well typed.
THEOREM BirthTypeCorrect == BirthSpec => []BirthTypeOK
<1>1. BirthInv => BirthTypeOK BY DEF BirthInv
<1> QED BY <1>1, BirthInvCorrect, PTL

-----------------------------------------------------------------------------
(* The committed ledger.                                                   *)

\* A committed ledger is not removed, renamed or taken back by any step.
LEMMA CommittedStep ==
  ASSUME BirthInv, [BirthNext]_vars, file # NULL, file.image.version # 0
  PROVE  /\ file' # NULL
         /\ file'.image.ledger = file.image.ledger
         /\ file'.image.version >= file.image.version
<1>1. file \in Database /\ file.image.version \in 0..Current
  BY DEF BirthInv, BirthTypeOK, Database, Image
<1>2. \A p \in Procs : ~call[p].creates /\ call[p].at # "script"
  BY DEF BirthInv, CreatorSound
<1>3. CASE file' = file BY <1>1, <1>3
<1>4. CASE file' = Recovered(file)
  BY <1>1, <1>4, SameFileFacts DEF SameFile
<1> DEFINE Kept ==
             /\ file' # NULL
             /\ file'.image.ledger = file.image.ledger
             /\ file'.image.version >= file.image.version
<1>5. ASSUME NEW p \in Procs, WritePages(p) \/ Sync(p) PROVE Kept
  <2>1. InTransaction(p) BY <1>5 DEF WritePages, Sync, InTransaction
  <2>2. call[p].target \in Image BY <2>1, WriterFacts
  <2>3. CASE WritePages(p)
    <3>1. file' = [file EXCEPT !.pages = call[p].target, !.torn = TRUE]
      BY <2>3 DEF WritePages
    <3>2. file' \in Database /\ file'.image = file.image
      BY <1>1, <2>2, <3>1 DEF Database
    <3> QED BY <1>1, <3>2, AbsenceAssumption DEF Current
  <2>4. CASE Sync(p)
    <3>1. file' = [file EXCEPT !.torn = FALSE] BY <2>4 DEF Sync
    <3>2. file' \in Database /\ file'.image = file.image
      BY <1>1, <3>1 DEF Database
    <3> QED BY <1>1, <3>2, AbsenceAssumption DEF Current
  <2> QED BY <1>5, <2>3, <2>4
<1>6. ASSUME NEW p \in Procs, Commit(p) PROVE Kept
  <2>1. InTransaction(p) BY <1>6 DEF Commit, InTransaction
  <2>2. /\ call[p].target.version = Current
        /\ call[p].target.ledger = file.image.ledger
    BY <1>2, <2>1 DEF BirthInv, WriterSound
  <2>3. file' \in Database /\ file'.image = call[p].target
    BY <1>6, <2>1, WriterFacts DEF Commit, Database
  <2> QED BY <1>1, <2>2, <2>3, AbsenceAssumption DEF Current
<1>7. ASSUME NEW p \in Procs, Fail(p) PROVE file' = Recovered(file)
  BY <1>2, <1>7 DEF Fail, RolledBack
<1>8. ASSUME NEW p \in Procs, Initializing(p)
      PROVE  \/ file' \in {file, Recovered(file)}
             \/ WritePages(p) \/ Sync(p) \/ Commit(p)
  BY <1>8 DEF Initializing, Look, Create, NextStatement, Inspect, Migrate,
     Busy, Refuse
<1>9. ASSUME NEW p \in Procs, Using(p) PROVE file' \in {file, Recovered(file)}
  BY <1>9 DEF Using, Use, Stat, Connect, Refuse
<1>10. Initializers \subseteq Procs /\ Readers \subseteq Procs BY DEF Procs
<1>11. \/ file' \in {file, Recovered(file)}
       \/ \E p \in Procs : Initializing(p) \/ Using(p) \/ Fail(p)
  BY <1>10 DEF BirthNext, Initialize, Die, vars
<1>12. Kept \/ file' \in {file, Recovered(file)}
  <2> HIDE DEF Kept
  <2> QED BY <1>5, <1>6, <1>7, <1>8, <1>9, <1>11
<1> QED BY <1>3, <1>4, <1>12

\* A committed ledger stays, whole, whatever creations, migrations, failures
\* and deaths there are.
THEOREM LedgerKeptCorrect == BirthSpec => LedgerKept
<1> DEFINE Keeps == file # NULL /\ file.image.version # 0 =>
                      /\ file' # NULL
                      /\ file'.image.ledger = file.image.ledger
                      /\ file'.image.version >= file.image.version
                      /\ Whole(file'.image)
<1>1. ASSUME BirthInv, BirthInv', [BirthNext]_vars PROVE Keeps
  <2> SUFFICES ASSUME file # NULL, file.image.version # 0
               PROVE  /\ file' # NULL
                      /\ file'.image.ledger = file.image.ledger
                      /\ file'.image.version >= file.image.version
                      /\ Whole(file'.image)
    OBVIOUS
  <2>1. /\ file' # NULL
        /\ file'.image.ledger = file.image.ledger
        /\ file'.image.version >= file.image.version
    BY <1>1, CommittedStep
  <2>2. file.image.version \in 0..Current /\ file'.image.version \in 0..Current
    BY <1>1, <2>1 DEF BirthInv, BirthTypeOK, Database, Image
  <2>3. file'.image.version # 0 BY <2>1, <2>2 DEF Current
  <2>4. Whole(file.image)' BY <1>1, <2>1, <2>3 DEF BirthInv, ImagesSound, Sound
  <2> QED BY <2>1, <2>4 DEF Whole
<1>2. ASSUME BirthInv, BirthInv', [BirthNext]_vars PROVE [Keeps]_vars
  BY <1>1, <1>2
<1> HIDE DEF Keeps
<1> QED BY <1>2, BirthInvCorrect, PTL DEF BirthSpec, LedgerKept, Keeps

-----------------------------------------------------------------------------
(* What calls announce.                                                    *)

\* The pages of the file are those of whoever is committing, and while there
\* were no faults otherwise the committed ones.
PagesKnown ==
  /\ \A q \in Procs : Committing(q) => file.pages = call[q].target
  /\ faults = 0 /\ file # NULL /\ (\A q \in Procs : ~Committing(q)) =>
       file.pages = file.image

\* A sound image of the current version is that of its ledger.
LEMMA SoundHolds ==
  ASSUME BirthInv, file # NULL, file.image.version = Current
  PROVE  Holds(file.image.ledger)
<1>1. file.image \in Image BY DEF BirthInv, BirthTypeOK, Database
<1>2. file.image.tables = Features
  BY SchemaCurrent DEF BirthInv, ImagesSound, Sound, Whole, Current
<1> QED BY <1>1, <1>2 DEF Holds, Image

\* A ledger that is held stays held.
LEMMA HoldsStep ==
  ASSUME BirthInv, BirthInv', [BirthNext]_vars, NEW l, Holds(l)
  PROVE  Holds(l)'
<1>1. /\ file # NULL /\ file.image.version = Current
      /\ file.image.ledger = l /\ Current # 0
  BY DEF Holds, Current
<1>2. /\ file' # NULL /\ file'.image.ledger = l
      /\ file'.image.version >= Current
  BY <1>1, CommittedStep
<1>3. file'.image.version = Current
  BY <1>2 DEF BirthInv, BirthTypeOK, Database, Image, Current
<1>4. (file # NULL /\ file.image.version = Current)' =>
         Holds(file.image.ledger)'
  BY SoundHolds, PTL
<1> QED BY <1>2, <1>3, <1>4

-----------------------------------------------------------------------------
(* The pages.                                                              *)

\* p's step leaves the file, and p does not commit or does so no longer.
LEMMA PagesStay ==
  ASSUME BirthInv, PagesKnown, NEW p \in Procs, NEW k \in Call, Becomes(p, k),
         k.at \notin {"written", "synced"}, file' = file,
         \/ ~Committing(p) /\ faults' = faults
         \/ faults' = faults + 1
  PROVE  PagesKnown'
<1>1. /\ call'[p] = k
      /\ \A q \in Procs : q # p => call'[q] = call[q]
  BY CallsType DEF BirthInv
<1>2. \A q \in Procs : Committing(q)' => q # p /\ Committing(q)
  BY <1>1 DEF Committing
<1>3. \A q \in Procs : Committing(q)' => file'.pages = call'[q].target
  BY <1>1, <1>2 DEF PagesKnown
<1>4. faults \in Nat /\ (faults' = 0 => faults' = faults /\ ~Committing(p))
  BY BirthAssumption DEF BirthInv, BirthTypeOK
<1>5. (\A q \in Procs : ~Committing(q)') /\ ~Committing(p) =>
         \A q \in Procs : ~Committing(q)
  BY <1>1 DEF Committing
<1> QED BY <1>3, <1>4, <1>5 DEF PagesKnown

\* After p's step nobody commits, and the pages are those committed.
LEMMA PagesSettle ==
  ASSUME BirthInv, NEW p \in Procs, NEW k \in Call, Becomes(p, k),
         k.at \notin {"written", "synced"},
         \A q \in Procs : q # p => ~Committing(q),
         faults' = 0 /\ file' # NULL => file'.pages = file'.image
  PROVE  PagesKnown'
<1>1. /\ call'[p] = k
      /\ \A q \in Procs : q # p => call'[q] = call[q]
  BY CallsType DEF BirthInv
<1>2. \A q \in Procs : ~Committing(q)' BY <1>1 DEF Committing
<1> QED BY <1>2 DEF PagesKnown

\* What p's call becomes when it ends, or goes on to a place.
LEMMA CallBecomes ==
  ASSUME BirthInv, NEW p \in Procs
  PROVE  /\ \A a : Return(p, a) =>
              Becomes(p, Idle) /\ Idle \in Call /\ faults' = faults
         /\ \A place \in Places : Goto(p, place) =>
              /\ Becomes(p, [call[p] EXCEPT !.at = place])
              /\ [call[p] EXCEPT !.at = place] \in Call
              /\ [call[p] EXCEPT !.at = place].at = place
              /\ faults' = faults
<1>1. call[p] \in Call /\ call \in [Procs -> Call]
  BY DEF BirthInv, BirthTypeOK
<1> QED BY <1>1, IdleType DEF Return, Goto, Becomes, Call

\* A call that ends without a commit leaves the pages explained.
LEMMA PagesReturn ==
  ASSUME BirthInv, PagesKnown, NEW p \in Procs, NEW a, Return(p, a),
         file' = file, ~Committing(p)
  PROVE  PagesKnown'
<1>1. Becomes(p, Idle) /\ Idle \in Call /\ faults' = faults
  BY CallBecomes
<1> QED BY <1>1, PagesStay DEF Idle

\* So does one that goes on without writing them.
LEMMA PagesGoto ==
  ASSUME BirthInv, PagesKnown, NEW p \in Procs, NEW place \in Places,
         Goto(p, place), place \notin {"written", "synced"},
         file' = file, ~Committing(p)
  PROVE  PagesKnown'
<1> DEFINE k == [call[p] EXCEPT !.at = place]
<1>1. Becomes(p, k) /\ k \in Call /\ k.at = place /\ faults' = faults
  BY CallBecomes
<1> HIDE DEF k
<1> QED BY <1>1, PagesStay

\* p begins to write.
LEMMA PagesBegin ==
  ASSUME BirthInv, PagesKnown, NEW p \in Procs, NextStatement(p) \/ Migrate(p)
  PROVE  PagesKnown'
<1>1. \A q \in Procs : ~Committing(q)
  BY DEF NextStatement, Migrate, Committing, InTransaction
<1>2. /\ BirthInv' /\ call' \in [Procs -> Call]
      /\ file # NULL => file \in Database
  BY NextStatementStep, MigrateStep DEF BirthInv, BirthTypeOK
<1>3. CASE file' = file /\ \E a : Return(p, a)
  BY <1>1, <1>3, PagesReturn
<1>4. CASE file # NULL /\ file' = Recovered(file) /\ \E a : Return(p, a)
  <2>1. Becomes(p, Idle) /\ Idle \in Call BY <1>4, CallBecomes
  <2>2. file'.pages = file'.image BY <1>2, <1>4 DEF Recovered, Database
  <2> QED BY <1>1, <2>1, <2>2, PagesSettle DEF Idle
<1>5. CASE /\ file # NULL /\ file' = Recovered(file)
           /\ \E image : call' = [call EXCEPT ![p].at = "write",
                                             ![p].target = image]
  <2>1. PICK image : call' = [call EXCEPT ![p].at = "write",
                                          ![p].target = image]
    BY <1>5
  <2>2. call \in [Procs -> Call] BY DEF BirthInv, BirthTypeOK
  <2>3. /\ Becomes(p, call'[p]) /\ call'[p].at = "write"
        /\ call'[p] \in Call
    BY <1>2, <2>1, <2>2 DEF Becomes, Call
  <2>4. file'.pages = file'.image BY <1>2, <1>5 DEF Recovered, Database
  <2> QED BY <1>1, <2>3, <2>4, PagesSettle
<1>6. CASE NextStatement(p)
  <2>1. file # NULL BY <1>6 DEF NextStatement, BirthInv, CreatorSound
  <2> QED BY <1>5, <1>6, <2>1 DEF NextStatement
<1>7. CASE Migrate(p)
  BY <1>3, <1>4, <1>5, <1>7 DEF Migrate, Refuse
<1> QED BY <1>6, <1>7

\* p goes through its transaction.
LEMMA PagesWritten ==
  ASSUME BirthInv, PagesKnown, NEW p \in Procs,
         WritePages(p) \/ Sync(p) \/ Commit(p)
  PROVE  PagesKnown'
<1>1. InTransaction(p) /\ (~WritePages(p) => Committing(p))
  BY DEF WritePages, Sync, Commit, InTransaction, Committing
<1>2. /\ call \in [Procs -> Call] /\ call[p] \in Call
      /\ file \in Database /\ file # NULL
      /\ call[p].target \in Image
  BY <1>1, WriterFacts
<1>3. \A q \in Procs : q # p => ~Committing(q)
  BY <1>1, NobodyBesideWriter DEF Committing, InTransaction
<1>4. CASE WritePages(p) \/ Sync(p)
  <2>1. PICK place \in {"written", "synced"} : Goto(p, place)
    BY <1>4 DEF WritePages, Sync
  <2>2. /\ call' = [call EXCEPT ![p].at = place]
        /\ call'[p].target = call[p].target
        /\ \A q \in Procs : q # p => call'[q] = call[q]
    BY <1>2, <2>1 DEF Goto, Call
  <2>3. Committing(p)' BY <1>2, <2>2 DEF Committing, Call
  <2>4. file'.pages = call[p].target
    <3>1. CASE WritePages(p) BY <1>2, <3>1 DEF WritePages, Database
    <3>2. CASE Sync(p)
      BY <1>1, <1>2, <3>2 DEF Sync, Database, PagesKnown, Committing
    <3> QED BY <1>4, <3>1, <3>2
  <2>5. \A q \in Procs : q # p => ~Committing(q)'
    BY <1>3, <2>2 DEF Committing
  <2> QED BY <2>2, <2>3, <2>4, <2>5 DEF PagesKnown
<1>5. CASE Commit(p)
  <2>1. file'.pages = file'.image
    BY <1>1, <1>2, <1>5 DEF Commit, Committing, Database, PagesKnown
  <2>2. /\ Becomes(p, call'[p]) /\ call'[p] \in Call
        /\ call'[p].at \notin {"written", "synced"}
    <3>1. BirthInv' BY <1>5, CommitStep
    <3>2. call' \in [Procs -> Call] BY <3>1 DEF BirthInv, BirthTypeOK
    <3>3. CASE \E a : Return(p, a)
      BY <1>2, <3>2, <3>3 DEF Return, Becomes, Idle
    <3>4. CASE call' = [call EXCEPT ![p].at = "script", ![p].step = @ + 1]
      BY <1>2, <3>2, <3>4 DEF Becomes, Call
    <3> QED BY <1>5, <3>3, <3>4 DEF Commit
  <2> QED BY <1>3, <2>1, <2>2, PagesSettle
<1> QED BY <1>4, <1>5

\* A new file, or one connected to, has the committed pages.
LEMMA PagesOpened ==
  ASSUME BirthInv, PagesKnown, NEW p \in Procs, Create(p) \/ Connect(p)
  PROVE  PagesKnown'
<1>1. call \in [Procs -> Call] /\ (file # NULL => file \in Database)
  BY DEF BirthInv, BirthTypeOK
<1>2. ~Committing(p) BY DEF Create, Connect, Committing
<1>3. /\ Clean(Empty) \in Database
      /\ Clean(Empty).image = Empty /\ Clean(Empty).pages = Empty
  BY IdleType DEF Clean
<1>4. CASE Create(p)
  <2>1. CASE file # NULL
    BY <1>2, <1>4, <2>1, PagesGoto DEF Create, Places
  <2>2. CASE file = NULL
    <3>1. \A q \in Procs : ~Committing(q)
      BY <2>2, NobodyWithoutFile DEF InTransaction, Committing
    <3>2. BirthInv' BY <1>4, CreateStep
    <3>3. /\ Becomes(p, call'[p]) /\ call'[p] \in Call
          /\ call'[p].at = "script"
      BY <1>1, <1>4, <2>2, <3>2 DEF Create, BirthInv, BirthTypeOK, Becomes, Call
    <3>4. file'.pages = file'.image BY <1>3, <1>4, <2>2 DEF Create
    <3> QED BY <3>1, <3>3, <3>4, PagesSettle
  <2> QED BY <2>1, <2>2
<1>5. CASE Connect(p)
  <2>1. \A q \in Procs : ~Committing(q) BY <1>5 DEF Connect
  <2>2. PICK a : Return(p, a) BY <1>5 DEF Connect
  <2>3. Becomes(p, Idle) /\ Idle \in Call BY <2>2, CallBecomes
  <2>4. file'.pages = file'.image
    <3>1. CASE file = NULL BY <1>3, <1>5, <3>1 DEF Connect, Database
    <3>2. CASE file # NULL BY <1>1, <1>5, <3>2 DEF Connect, Recovered, Database
    <3> QED BY <3>1, <3>2
  <2> QED BY <2>1, <2>3, <2>4, PagesSettle DEF Idle
<1> QED BY <1>4, <1>5

\* A fault is counted.
LEMMA PagesFault ==
  ASSUME BirthInv, PagesKnown, NEW p \in Procs, Fail(p) \/ Die(p)
  PROVE  PagesKnown'
<1>1. Becomes(p, Idle) /\ Idle \in Call /\ faults' = faults + 1
  BY IdleType DEF Fail, Die, Becomes
<1>2. faults \in Nat BY BirthAssumption DEF BirthInv, BirthTypeOK
<1>3. CASE Die(p) BY <1>1, <1>3, PagesStay DEF Die, Idle
<1>4. CASE Fail(p)
  <2>1. \A q \in Procs : q # p => ~Committing(q)
    BY <1>4, NobodyBesideWriter, NobodyBesideCreator
       DEF Fail, BirthInv, CreatorSound, Committing, InTransaction
  <2> QED BY <1>1, <1>2, <2>1, PagesSettle DEF Idle
<1> QED BY <1>3, <1>4

\* Every step leaves them explained.
LEMMA PagesKnownStep ==
  ASSUME BirthInv, PagesKnown, [BirthNext]_vars
  PROVE  PagesKnown'
<1>1. CASE UNCHANGED vars BY <1>1 DEF vars, PagesKnown, Committing
<1>2. ASSUME NEW p \in Procs, NEW wish \in Ledgers \cup {NULL},
             Initialize(p, wish) \/ Use(p)
      PROVE  PagesKnown'
  <2>1. PICK k \in Call : Becomes(p, k) /\ k.at \in {"look", "stat"}
    <3>1. /\ [Idle EXCEPT !.at = "look", !.wish = wish] \in Call
          /\ [Idle EXCEPT !.at = "stat"] \in Call
      BY IdleType DEF Idle, Call, Places
    <3> QED BY <1>2, <3>1 DEF Initialize, Use, Becomes, Idle
  <2>2. ~Committing(p) BY <1>2 DEF Initialize, Use, Committing
  <2> QED BY <1>2, <2>1, <2>2, PagesStay DEF Initialize, Use
<1>3. ASSUME NEW p \in Procs,
             Look(p) \/ Inspect(p) \/ Busy(p) \/ Stat(p)
      PROVE  PagesKnown'
  <2>1. ~Committing(p) /\ file' = file
    BY <1>3 DEF Look, Inspect, Busy, Stat, Committing, Refuse
  <2>2. \/ \E a : Return(p, a)
        \/ \E place \in {"create", "inspect", "migrate", "connect"} :
             Goto(p, place)
    BY <1>3 DEF Look, Inspect, Busy, Stat, Refuse
  <2> QED BY <2>1, <2>2, PagesReturn, PagesGoto DEF Places
<1>4. ASSUME NEW p \in Procs, Initializing(p) PROVE PagesKnown'
  BY <1>3, <1>4, PagesBegin, PagesWritten, PagesOpened DEF Initializing
<1>5. ASSUME NEW p \in Procs, Using(p) PROVE PagesKnown'
  BY <1>2, <1>3, <1>5, PagesOpened DEF Using
<1>6. Initializers \subseteq Procs /\ Readers \subseteq Procs BY DEF Procs
<1> QED BY <1>1, <1>2, <1>4, <1>5, <1>6, PagesFault DEF BirthNext

-----------------------------------------------------------------------------
(* Answers stay true.                                                      *)

\* Faults are only ever counted.
LEMMA FaultsStep ==
  ASSUME BirthInv, [BirthNext]_vars
  PROVE  /\ faults \in Nat /\ faults' \in {faults, faults + 1}
         /\ faults > 0 => faults' > 0
<1>1. faults \in Nat BY BirthAssumption DEF BirthInv, BirthTypeOK
<1>2. faults' \in {faults, faults + 1}
  BY DEF BirthNext, Initializing, Using, Initialize, Look, Create,
     NextStatement, WritePages, Sync, Commit, Inspect, Migrate, Busy, Use,
     Stat, Connect, Fail, Die, Goto, Return, Refuse, vars
<1> QED BY <1>1, <1>2

\* The call of a process that is committing changes by its own steps only.
LEMMA CommittingStep ==
  ASSUME BirthInv, [BirthNext]_vars, NEW q \in Procs, Committing(q)
  PROVE  \/ call'[q] = call[q]
         \/ Sync(q) \/ Commit(q) \/ Fail(q) \/ Die(q)
<1>1. call \in [Procs -> Call] BY DEF BirthInv, BirthTypeOK
<1>2. CASE UNCHANGED vars BY <1>2 DEF vars
<1>3. ASSUME NEW p \in Procs, p # q,
             \/ Initializing(p) \/ Using(p) \/ Fail(p) \/ Die(p)
             \/ \E wish \in Ledgers \cup {NULL} : Initialize(p, wish)
      PROVE  call'[q] = call[q]
  BY <1>1, <1>3
     DEF Initializing, Using, Initialize, Look, Create, NextStatement,
     WritePages, Sync, Commit, Inspect, Migrate, Busy, Use, Stat, Connect,
     Fail, Die, Goto, Return, Refuse
<1>4. ASSUME Initializing(q) PROVE Sync(q) \/ Commit(q)
  BY <1>4 DEF Initializing, Look, Create, NextStatement, WritePages, Inspect,
     Migrate, Busy, Committing
<1>5. ~Using(q) /\ \A wish \in Ledgers \cup {NULL} : ~Initialize(q, wish)
  BY DEF Using, Use, Stat, Connect, Initialize, Committing
<1>6. Initializers \subseteq Procs /\ Readers \subseteq Procs BY DEF Procs
<1> QED BY <1>2, <1>3, <1>4, <1>5, <1>6 DEF BirthNext

\* A ledger about to be committed is committed, or there is a fault.
LEMMA PendingStep ==
  ASSUME BirthInv, BirthInv', [BirthNext]_vars, NEW l, Pending(l)
  PROVE  Holds(l)' \/ Pending(l)' \/ faults' > 0
<1>1. PICK q \in Procs : /\ Committing(q)
                         /\ call[q].target.version = Current
                         /\ call[q].target.ledger = l
  BY DEF Pending
<1>2. /\ call \in [Procs -> Call] /\ call[q] \in Call
      /\ file \in Database /\ call[q].target \in Image
  BY <1>1, WriterFacts DEF Committing, InTransaction
<1>3. CASE call'[q] = call[q] BY <1>1, <1>3 DEF Pending, Committing
<1>4. CASE Sync(q)
  <2>1. call'[q] = [call[q] EXCEPT !.at = "synced"]
    BY <1>2, <1>4 DEF Sync, Goto
  <2>2. call'[q].at = "synced" /\ call'[q].target = call[q].target
    BY <1>2, <2>1 DEF Call
  <2> QED BY <1>1, <2>2 DEF Pending, Committing
<1>5. CASE Commit(q)
  <2>1. file' \in Database /\ file'.image = call[q].target
    BY <1>2, <1>5 DEF Commit, Database
  <2>2. /\ file' # NULL /\ file'.image.version = Current
        /\ file'.image.ledger = l
    BY <1>1, <2>1, AbsenceAssumption
  <2>3. (file # NULL /\ file.image.version = Current)' =>
           Holds(file.image.ledger)'
    BY SoundHolds, PTL
  <2> QED BY <2>2, <2>3
<1>6. CASE Fail(q) \/ Die(q)
  BY <1>6, FaultsStep DEF Fail, Die
<1> QED BY <1>1, <1>3, <1>4, <1>5, <1>6, CommittingStep

\* What a call answers that committed, migrated or connected.
LEMMA AnswerCommitted ==
  ASSUME BirthInv, BirthInv', NEW p \in Procs,
         Commit(p) \/ Migrate(p) \/ Connect(p),
         answer'[p] # NULL, answer'[p] # answer[p]
  PROVE  Holds(answer[p].ledger)'
<1>1. /\ answer \in [Procs -> Answer \cup {NULL}]
      /\ call \in [Procs -> Call]
      /\ file # NULL => file \in Database
  BY DEF BirthInv, BirthTypeOK
<1>2. (file # NULL /\ file.image.version = Current)' =>
         Holds(file.image.ledger)'
  BY SoundHolds, PTL
<1> SUFFICES /\ file' # NULL /\ file'.image.version = Current
             /\ answer'[p].ledger = file'.image.ledger
  BY <1>2
<1>3. CASE Commit(p)
  <2>1. InTransaction(p) BY <1>3 DEF Commit, InTransaction
  <2>2. /\ file \in Database /\ call[p].target \in Image
    BY <2>1, WriterFacts
  <2>3. file' \in Database /\ file'.image = call[p].target
    BY <1>3, <2>2 DEF Commit, Database
  <2>4. ~(call[p].creates /\ call[p].step <= Len(Script))
    BY <1>3 DEF Commit
  <2>5. call[p].target.version = Current
    BY <2>1, <2>4 DEF BirthInv, WriterSound
  <2>6. answer'[p] = [by |-> IF call[p].creates THEN "created" ELSE "migrated",
                      ledger |-> call[p].target.ledger]
    BY <1>1, <1>3, <2>4 DEF Commit, Return
  <2> QED BY <2>3, <2>5, <2>6, AbsenceAssumption
<1>4. CASE Migrate(p)
  <2>1. /\ file # NULL /\ file' = Recovered(file)
        /\ file.image.version = Current
        /\ answer'[p] = [by |-> "migrated", ledger |-> file.image.ledger]
    BY <1>1, <1>4 DEF Migrate, Refuse, Return
  <2>2. file' \in Database /\ file'.image = file.image
    BY <1>1, <2>1 DEF Recovered, Database
  <2> QED BY <2>1, <2>2, AbsenceAssumption
<1>5. CASE Connect(p)
  <2>1. /\ file'.image.version = Current
        /\ answer'[p] = [by |-> "used", ledger |-> file'.image.ledger]
    BY <1>1, <1>5 DEF Connect, Return
  <2>2. file' # NULL
    <3>1. CASE file = NULL
      <4>1. file' = [Clean(Empty) EXCEPT !.private = FALSE]
        BY <1>5, <3>1 DEF Connect
      <4>2. file' \in Database BY <4>1, IdleType DEF Database
      <4> QED BY <4>2, AbsenceAssumption
    <3>2. CASE file # NULL
      <4>1. file' \in Database
        BY <1>1, <1>5, <3>2 DEF Connect, Recovered, Database
      <4> QED BY <4>1, AbsenceAssumption
    <3> QED BY <3>1, <3>2
  <2> QED BY <2>1, <2>2
<1> QED BY <1>3, <1>4, <1>5

\* What a call answers that recognised the file.
LEMMA AnswerRecognised ==
  ASSUME BirthInv, PagesKnown, NEW p \in Procs, Inspect(p),
         answer'[p] # NULL, answer'[p] # answer[p]
  PROVE  /\ answer'[p].by = "recognised"
         /\ \/ Holds(answer[p].ledger)'
            \/ faults' > 0 \/ Pending(answer[p].ledger)'
<1>1. /\ answer \in [Procs -> Answer \cup {NULL}]
      /\ call \in [Procs -> Call] /\ faults \in Nat
  BY BirthAssumption DEF BirthInv, BirthTypeOK
<1>2. PICK seen \in Views :
        /\ Whole(seen) /\ seen.version = Current
        /\ Return(p, [by |-> "recognised", ledger |-> seen.ledger])
        /\ file' = file
  BY <1>1 DEF Inspect, Refuse, Return, Goto
<1>3. /\ answer'[p] = [by |-> "recognised", ledger |-> seen.ledger]
      /\ faults' = faults
      /\ \A q \in Procs : q # p => call'[q] = call[q]
  BY <1>1, <1>2 DEF Return
<1>4. file # NULL /\ seen \in {file.image, file.pages}
  BY <1>2 DEF Views
<1>5. CASE seen = file.image
  <2>1. Holds(seen.ledger) BY <1>2, <1>4, <1>5, SoundHolds
  <2>2. Holds(seen.ledger)' BY <1>2, <2>1 DEF Holds
  <2> QED BY <1>3, <2>2
<1>6. ASSUME seen = file.pages, NEW q \in Procs, Committing(q)
      PROVE  Pending(seen.ledger)'
  <2>1. q # p BY <1>6 DEF Inspect, Committing
  <2>2. file.pages = call[q].target BY <1>6 DEF PagesKnown
  <2> QED BY <1>2, <1>3, <1>6, <2>1, <2>2 DEF Pending, Committing
<1>7. CASE seen = file.pages /\ \A q \in Procs : ~Committing(q)
  <2>1. faults = 0 => seen = file.image BY <1>4, <1>7 DEF PagesKnown
  <2> QED BY <1>1, <1>3, <1>5, <2>1
<1> QED BY <1>3, <1>4, <1>5, <1>6, <1>7

\* An answer is new only by one of these steps.
LEMMA AnswerStep ==
  ASSUME BirthInv, [BirthNext]_vars, NEW p \in Procs,
         answer'[p] # NULL, answer'[p] # answer[p]
  PROVE  Commit(p) \/ Migrate(p) \/ Connect(p) \/ Inspect(p)
<1>1. answer \in [Procs -> Answer \cup {NULL}]
  BY DEF BirthInv, BirthTypeOK
<1>2. ASSUME NEW q \in Procs,
             \/ Initializing(q) \/ Using(q) \/ Fail(q) \/ Die(q)
             \/ \E wish \in Ledgers \cup {NULL} : Initialize(q, wish)
      PROVE  q = p /\ (Commit(q) \/ Migrate(q) \/ Connect(q) \/ Inspect(q))
  BY <1>1, <1>2
     DEF Initializing, Using, Initialize, Look, Create, NextStatement,
     WritePages, Sync, Commit, Inspect, Migrate, Busy, Use, Stat, Connect,
     Fail, Die, Goto, Return, Refuse
<1>3. ~UNCHANGED vars BY DEF vars
<1>4. Initializers \subseteq Procs /\ Readers \subseteq Procs BY DEF Procs
<1> QED BY <1>2, <1>3, <1>4 DEF BirthNext

\* What calls announce of the ledger is so, for any number of processes and
\* faults.
THEOREM AnnouncedHoldsCorrect == BirthSpec => []AnnouncedHolds
<1>1. BirthInit => PagesKnown /\ AnnouncedHolds
  BY DEF BirthInit, PagesKnown, AnnouncedHolds, Committing, Clean, Idle
<1>2. BirthInv /\ PagesKnown /\ [BirthNext]_vars => PagesKnown'
  BY PagesKnownStep
<1>3. /\ BirthInv /\ BirthInv' /\ PagesKnown /\ AnnouncedHolds
      /\ [BirthNext]_vars
      => AnnouncedHolds'
  <2> SUFFICES ASSUME BirthInv, BirthInv', PagesKnown, AnnouncedHolds,
                      [BirthNext]_vars,
                      NEW p \in Procs, answer'[p] # NULL
               PROVE  \/ Holds(answer[p].ledger)'
                      \/ /\ answer'[p].by = "recognised"
                         /\ faults' > 0 \/ Pending(answer[p].ledger)'
    BY DEF AnnouncedHolds
  <2>1. CASE answer'[p] = answer[p]
    <3>1. PICK l : l = answer[p].ledger OBVIOUS
    <3>2. \/ Holds(l)
          \/ answer[p].by = "recognised" /\ (faults > 0 \/ Pending(l))
      BY <2>1, <3>1 DEF AnnouncedHolds
    <3>3. \/ Holds(l)'
          \/ answer'[p].by = "recognised" /\ (faults' > 0 \/ Pending(l)')
      BY <2>1, <3>2, HoldsStep, PendingStep, FaultsStep
    <3>4. answer'[p].ledger = l BY <2>1, <3>1
    <3> QED BY <3>3, <3>4
  <2>2. CASE answer'[p] # answer[p]
    BY <2>2, AnswerStep, AnswerCommitted, AnswerRecognised
  <2> QED BY <2>1, <2>2
<1> QED BY <1>1, <1>2, <1>3, BirthInvCorrect, PTL DEF BirthSpec

=============================================================================
