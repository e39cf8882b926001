-------------------------------- MODULE Home --------------------------------
(***************************************************************************)
(* The personal Home (home.py, registry.py) and the reads over it          *)
(* (runtime.py): Packs are installed under a lock file, registered in one  *)
(* SQLite registry, activated per scope and workspace, pinned by projects, *)
(* and found broken by whoever verifies them.                              *)
(*                                                                         *)
(* Clients are processes: the operator's commands and the MCP servers'     *)
(* reads.  A registry transaction (BEGIN IMMEDIATE), a registry query and  *)
(* a file operation are one step each; anything may happen between two of  *)
(* them.  A Pack's bytes are abstracted to what verify_pack makes of them. *)
(***************************************************************************)
CONSTANTS
  Packs,        \* pack ids
  WorkspaceOf,  \* the workspace that each Pack was built from
  Scopes,       \* activation scopes: (scope_type, scope_key)
  Global,       \* the scope that reads consult
  Roots,        \* project directories
  Projects,     \* project ids
  Clients,      \* processes
  NULL,         \* the absent value
  Edits,        \* what an edit of an installed Pack's files may leave
  Interrupts,   \* the steps before which a process may die
  Faulty        \* whether file operations may fail (a full disk)

Pins == SUBSET Packs \ {{}}

States == {"good", "damaged", "malformed"}

ASSUME HomeAssumption ==
  /\ Global \in Scopes
  /\ DOMAIN WorkspaceOf = Packs
  /\ NULL \notin Packs \cup Projects \cup Roots \cup {"OK", "BROKEN"}
  /\ \A pins \in Pins : pins # NULL
  /\ Edits \subseteq States
  /\ Faulty \in BOOLEAN

Workspaces == {WorkspaceOf[p] : p \in Packs}
Healths == {"OK", "BROKEN"}

VARIABLES
  disk,         \* packs/<workspace>/<pack>: absent, or what verify_pack finds
  locks,        \* the install-<pack>.lock files that exist
  releases,     \* the health of each registered release
  activations,  \* the active Pack of a scope and a workspace
  projects,     \* the registered pins of each project
  markers,      \* .agiwiki/project.json of each project directory
  calls         \* what each process is doing

registry == <<releases, activations, projects>>
files == <<disk, locks, markers>>
vars == <<disk, locks, releases, activations, projects, markers, calls>>

Steps == {"idle", "look", "lock", "stage", "insert", "unlock",
          "verify", "check", "heal", "condemn", "activate",
          "pin", "mark", "list", "marker", "compare", "search"}
\* The steps that work on the Pack of the call.
PackSteps == {"look", "lock", "stage", "insert", "unlock",
              "verify", "check", "heal", "condemn", "activate"}

Ops == {"none", "install", "verify", "activate", "link", "find", "get"}

Marker == [project : Projects, pins : Pins]

Call == [op : Ops, at : Steps, pack : Packs \cup {NULL},
         scope : Scopes \cup {NULL}, root : Roots \cup {NULL},
         marker : Marker \cup {NULL}, health : Healths \cup {NULL},
         todo : SUBSET Packs, locked : BOOLEAN]

Idle == [op |-> "none", at |-> "idle", pack |-> NULL, scope |-> NULL,
         root |-> NULL, marker |-> NULL, health |-> NULL,
         todo |-> {}, locked |-> FALSE]

\* A call carries what its next step uses.
Carries(k) ==
  /\ k.at \in PackSteps => k.pack \in Packs
  /\ "activate" \in {k.op, k.at} => k.scope \in Scopes
  /\ k.at \in {"pin", "mark", "marker"} => k.root \in Roots
  /\ k.at \in {"pin", "mark", "compare"} => k.marker \in Marker

\* Every variable has its type, and a call carries what its next step uses.
HomeTypeOK ==
  /\ disk \in [Packs -> States \cup {"absent"}]
  /\ locks \subseteq Packs
  /\ releases \in [Packs -> Healths \cup {NULL}]
  /\ activations \in [Scopes \X Workspaces -> Packs \cup {NULL}]
  /\ projects \in [Projects -> Pins \cup {NULL}]
  /\ markers \in [Roots -> Marker \cup {NULL}]
  /\ calls \in [Clients -> Call]
  /\ \A c \in Clients : Carries(calls[c])

Init ==
  /\ disk = [p \in Packs |-> "absent"]
  /\ locks = {}
  /\ releases = [p \in Packs |-> NULL]
  /\ activations = [k \in Scopes \X Workspaces |-> NULL]
  /\ projects = [j \in Projects |-> NULL]
  /\ markers = [r \in Roots |-> NULL]
  /\ calls = [c \in Clients |-> Idle]

-----------------------------------------------------------------------------
At(c, step) == calls[c].at = step

Goto(c, step) == calls' = [calls EXCEPT ![c].at = step]

\* The call returns, or raises: nothing of it is left but what it wrote.
Done(c) == calls' = [calls EXCEPT ![c] = Idle]

Start(c, call) ==
  /\ At(c, "idle")
  /\ calls' = [calls EXCEPT ![c] = call]
  /\ UNCHANGED <<registry, files>>

\* The Packs that are active in a scope.
ActiveIn(s) == {p \in Packs : activations[s, WorkspaceOf[p]] = p}

-----------------------------------------------------------------------------
(* install_pack, from a source Pack that verifies.                         *)

Install(c, p) == Start(c, [Idle EXCEPT !.op = "install", !.at = "look",
                                       !.pack = p])

\* Mutant: the row is inserted before the Pack is looked up and published.
MayRegisterEarly(c) ==
  LET p == calls[c].pack IN
  /\ At(c, "look")
  /\ releases' = [releases EXCEPT ![p] = IF @ = NULL THEN "OK" ELSE @]
  /\ CASE disk[p] = "absent" -> Goto(c, "lock")
       [] disk[p] = "good"   -> Goto(c, "insert")
       [] OTHER              -> Done(c)
  /\ UNCHANGED <<activations, projects, files>>

\* Mutant: the replay of an installed Pack returns its receipt without registering it.
MayReplayUnregistered(c) ==
  LET p == calls[c].pack IN
  /\ At(c, "look")
  /\ IF disk[p] = "absent" THEN Goto(c, "lock") ELSE Done(c)
  /\ UNCHANGED <<registry, files>>

\* An installed Pack is verified and its registration replayed, without the
\* lock; damage to it fails the install.
Look(c) ==
  LET p == calls[c].pack IN
  /\ At(c, "look")
  /\ CASE disk[p] = "absent" -> Goto(c, "lock")
       [] disk[p] = "good"   -> Goto(c, "insert")
       [] OTHER              -> Done(c)
  /\ UNCHANGED <<registry, files>>

\* Mutant: the acquisition moves inside the try: a refused install unlinks the lock.
MayUnlinkForeign(c) ==
  LET p == calls[c].pack IN
  /\ At(c, "lock")
  /\ IF p \in locks
     THEN Done(c) /\ locks' = locks \ {p}
     ELSE /\ calls' = [calls EXCEPT ![c].at = "stage", ![c].locked = TRUE]
          /\ locks' = locks \cup {p}
  /\ UNCHANGED <<registry, disk, markers>>

\* O_CREAT | O_EXCL: the install fails while the lock file exists.
AcquireLock(c) ==
  LET p == calls[c].pack IN
  /\ At(c, "lock")
  /\ IF p \in locks
     THEN Done(c) /\ UNCHANGED locks
     ELSE /\ calls' = [calls EXCEPT ![c].at = "stage", ![c].locked = TRUE]
          /\ locks' = locks \cup {p}
  /\ UNCHANGED <<registry, disk, markers>>

\* mkdtemp fails: it is called before the try whose finally unlinks the lock.
MkdtempFails(c) ==
  /\ Faulty
  /\ At(c, "stage")
  /\ Done(c)
  /\ UNCHANGED <<registry, files>>

\* Copying into the staging directory fails, inside the try.
CopyFails(c) ==
  /\ Faulty
  /\ At(c, "stage")
  /\ Goto(c, "unlock")
  /\ UNCHANGED <<registry, files>>

\* The verified copy is renamed to the Pack's path, unless something is there.
Publish(c) ==
  LET p == calls[c].pack IN
  /\ At(c, "stage")
  /\ Goto(c, IF disk[p] \in {"absent", "good"} THEN "insert" ELSE "unlock")
  /\ disk' = [disk EXCEPT ![p] = IF @ = "absent" THEN "good" ELSE @]
  /\ UNCHANGED <<registry, locks, markers>>

\* insert_release: an exact row replays; a BROKEN one conflicts with the OK
\* row that is being inserted, and is left as it is.
InsertRelease(c) ==
  LET p == calls[c].pack IN
  /\ At(c, "insert")
  /\ releases' = [releases EXCEPT ![p] = IF @ = NULL THEN "OK" ELSE @]
  /\ IF calls[c].locked THEN Goto(c, "unlock") ELSE Done(c)
  /\ UNCHANGED <<activations, projects, files>>

\* The finally clause.
Unlock(c) ==
  /\ At(c, "unlock")
  /\ locks' = locks \ {calls[c].pack}
  /\ Done(c)
  /\ UNCHANGED <<registry, disk, markers>>

-----------------------------------------------------------------------------
(* verify_release, alone, for activate, and for each Pack of a get.        *)

Verify(c, p) == Start(c, [Idle EXCEPT !.op = "verify", !.at = "verify",
                                      !.pack = p])

Activate(c, p, s) == Start(c, [Idle EXCEPT !.op = "activate", !.at = "verify",
                                           !.pack = p, !.scope = s])

\* The row is read; a Pack that is not registered fails the call.
ReadRow(c) ==
  LET p == calls[c].pack IN
  /\ At(c, "verify")
  /\ IF releases[p] = NULL
     THEN Done(c)
     ELSE calls' = [calls EXCEPT ![c].at = "check", ![c].health = releases[p]]
  /\ UNCHANGED <<registry, files>>

\* Mutant: whatever verified is activated.
MayActivateAny(c) ==
  IF calls[c].op = "get"
  THEN calls' = [calls EXCEPT ![c].at = "search", ![c].pack = NULL,
                              ![c].health = NULL, ![c].todo = @ \ {calls[c].pack}]
  ELSE Goto(c, "activate")

\* What the call does with a Pack that verified: a get goes on to the next
\* active Pack, an activation to its transaction.
Verified(c) ==
  CASE calls[c].op = "get" ->
         calls' = [calls EXCEPT ![c].at = "search", ![c].pack = NULL,
                                ![c].health = NULL, ![c].todo = @ \ {calls[c].pack}]
    [] calls[c].op = "activate" -> Goto(c, "activate")
    [] OTHER -> Done(c)

\* verify_pack reads the files; the row was read before.
CheckFiles(c) ==
  /\ At(c, "check")
  /\ CASE disk[calls[c].pack] # "good" -> Goto(c, "condemn")
       [] calls[c].health # "OK"       -> Goto(c, "heal")
       [] OTHER                        -> Verified(c)
  /\ UNCHANGED <<registry, files>>

\* set_health(pack, OK).
Heal(c) ==
  /\ At(c, "heal")
  /\ releases' = [releases EXCEPT ![calls[c].pack] = "OK"]
  /\ Verified(c)
  /\ UNCHANGED <<activations, projects, files>>

\* set_health(pack, BROKEN) removes every activation with it; then the call
\* raises.  It is also quarantine_release.
Condemn(c) ==
  LET p == calls[c].pack IN
  /\ At(c, "condemn")
  /\ releases' = [releases EXCEPT ![p] = "BROKEN"]
  /\ activations' = [k \in DOMAIN activations |->
                       IF activations[k] = p THEN NULL ELSE activations[k]]
  /\ Done(c)
  /\ UNCHANGED <<projects, files>>

\* Mutant: activate trusts its own verification instead of the row.
MayActivateUnchecked(c) ==
  LET p == calls[c].pack
      k == <<calls[c].scope, WorkspaceOf[p]>> IN
  /\ At(c, "activate")
  /\ activations' = [activations EXCEPT ![k] = p]
  /\ Done(c)
  /\ UNCHANGED <<releases, projects, files>>

\* activate_exact: one Pack per scope and workspace, and only a healthy one.
ActivateExact(c) ==
  LET p == calls[c].pack
      k == <<calls[c].scope, WorkspaceOf[p]>> IN
  /\ At(c, "activate")
  /\ activations' = IF releases[p] = "OK" THEN [activations EXCEPT ![k] = p]
                    ELSE activations
  /\ Done(c)
  /\ UNCHANGED <<releases, projects, files>>

\* deactivate: a row of another Pack is left alone.
Deactivate(c, p, s) ==
  LET k == <<s, WorkspaceOf[p]>> IN
  /\ At(c, "idle")
  /\ releases[p] # NULL
  /\ activations[k] = p
  /\ activations' = [activations EXCEPT ![k] = NULL]
  /\ UNCHANGED <<releases, projects, calls, files>>

-----------------------------------------------------------------------------
(* link_project: the registry's pins first, the marker file after them.    *)

Link(c, r, m) == Start(c, [Idle EXCEPT !.op = "link", !.at = "pin",
                                       !.root = r, !.marker = m])

\* Mutant: the marker is written before the registry accepts its pins.
MayMarkFirst(c) ==
  LET m == calls[c].marker IN
  /\ At(c, "pin")
  /\ markers' = [markers EXCEPT ![calls[c].root] = m]
  /\ IF \A p \in m.pins : releases[p] = "OK"
     THEN projects' = [projects EXCEPT ![m.project] = m.pins] /\ Goto(c, "mark")
     ELSE Done(c) /\ UNCHANGED projects
  /\ UNCHANGED <<releases, activations, disk, locks>>

\* replace_project_pins requires healthy installed Packs.
ReplacePins(c) ==
  LET m == calls[c].marker IN
  /\ At(c, "pin")
  /\ IF \A p \in m.pins : releases[p] = "OK"
     THEN projects' = [projects EXCEPT ![m.project] = m.pins] /\ Goto(c, "mark")
     ELSE Done(c) /\ UNCHANGED projects
  /\ UNCHANGED <<releases, activations, files>>

\* The marker is written aside and moved over the old one.
ReplaceMarker(c) ==
  /\ At(c, "mark")
  /\ markers' = [markers EXCEPT ![calls[c].root] = calls[c].marker]
  /\ Done(c)
  /\ UNCHANGED <<registry, disk, locks>>

-----------------------------------------------------------------------------
(* The reads of the runtime.  A catalog changes the Home as a get without  *)
(* a project does.                                                         *)

Read(c, op, r) ==
  /\ op \in {"find", "get"}
  /\ Start(c, [Idle EXCEPT !.op = op, !.at = "list", !.root = r])

\* active_releases(verify=False).
ListActive(c) ==
  /\ At(c, "list")
  /\ calls' = [calls EXCEPT ![c].todo = ActiveIn(Global),
                            ![c].at = IF calls[c].root = NULL THEN "search" ELSE "marker"]
  /\ UNCHANGED <<registry, files>>

\* load_project_marker reads the file, and raises where there is none ...
ReadMarker(c) ==
  LET m == markers[calls[c].root] IN
  /\ At(c, "marker")
  /\ IF m = NULL THEN Done(c)
     ELSE calls' = [calls EXCEPT ![c].at = "compare", ![c].marker = m]
  /\ UNCHANGED <<registry, files>>

\* ... and then the registry, which must agree with it.
CompareMarker(c) ==
  LET m == calls[c].marker IN
  /\ At(c, "compare")
  /\ IF projects[m.project] = m.pins
     THEN calls' = [calls EXCEPT ![c].at = "search", ![c].todo = @ \cap m.pins]
     ELSE Done(c)
  /\ UNCHANGED <<registry, files>>

\* The next Pack of a get is verified by verify_release.
GetFrom(c, p) ==
  /\ At(c, "search")
  /\ calls[c].op = "get"
  /\ p \in calls[c].todo
  /\ calls' = [calls EXCEPT ![c].at = "verify", ![c].pack = p]
  /\ UNCHANGED <<registry, files>>

\* Mutant: a find that meets a PackError raises it and leaves the release alone.
MaySkipQuarantine(c, p) ==
  /\ At(c, "search")
  /\ calls[c].op = "find"
  /\ p \in calls[c].todo
  /\ IF disk[p] = "good" THEN calls' = [calls EXCEPT ![c].todo = @ \ {p}]
     ELSE Done(c)
  /\ UNCHANGED <<registry, files>>

\* A find searches the next Pack.  A PackError quarantines it; a manifest that
\* its schema refuses raises a ContractError, which is no PackError.
FindIn(c, p) ==
  /\ At(c, "search")
  /\ calls[c].op = "find"
  /\ p \in calls[c].todo
  /\ CASE disk[p] = "good"    -> calls' = [calls EXCEPT ![c].todo = @ \ {p}]
       [] disk[p] = "damaged" -> calls' = [calls EXCEPT ![c].at = "condemn",
                                                        ![c].pack = p]
       [] OTHER               -> Done(c)
  /\ UNCHANGED <<registry, files>>

\* Every Pack of the read was consulted.
Answer(c) ==
  /\ At(c, "search")
  /\ calls[c].todo = {}
  /\ Done(c)
  /\ UNCHANGED <<registry, files>>

-----------------------------------------------------------------------------
\* The local owner, or an accident, changes an installed Pack's files.
Edit(p, s) ==
  /\ s \in Edits
  /\ disk[p] \notin {"absent", s}
  /\ disk' = [disk EXCEPT ![p] = s]
  /\ UNCHANGED <<locks, registry, markers, calls>>

\* A process dies; the finally clauses do not run.
Crash(c) ==
  /\ calls[c].at \in Interrupts
  /\ Done(c)
  /\ UNCHANGED <<registry, files>>

Request(c) ==
  \/ \E p \in Packs : Install(c, p) \/ Verify(c, p)
  \/ \E p \in Packs, s \in Scopes : Activate(c, p, s) \/ Deactivate(c, p, s)
  \/ \E r \in Roots, m \in Marker : Link(c, r, m)
  \/ \E op \in {"find", "get"}, r \in Roots \cup {NULL} : Read(c, op, r)

\* The steps of a call that has started.
Work(c) ==
  \/ Look(c) \/ AcquireLock(c) \/ Publish(c) \/ InsertRelease(c) \/ Unlock(c)
  \/ ReadRow(c) \/ CheckFiles(c) \/ Heal(c) \/ Condemn(c) \/ ActivateExact(c)
  \/ ReplacePins(c) \/ ReplaceMarker(c)
  \/ ListActive(c) \/ ReadMarker(c) \/ CompareMarker(c) \/ Answer(c)
  \/ \E p \in Packs : GetFrom(c, p) \/ FindIn(c, p)

Fault(c) == MkdtempFails(c) \/ CopyFails(c) \/ Crash(c)

Next ==
  \/ \E c \in Clients : Request(c) \/ Work(c) \/ Fault(c)
  \/ \E p \in Packs, s \in Edits : Edit(p, s)

Spec == Init /\ [][Next]_vars

\* A process that runs finishes its call, and finds and installs keep being
\* asked for: an agent goes on asking, an operator retries, and a process that
\* is about to register a release is not killed every single time.
FairSpec ==
  /\ Spec
  /\ \A c \in Clients :
       /\ WF_vars(Work(c))
       /\ SF_vars(InsertRelease(c))
       /\ SF_vars(Read(c, "find", NULL))
       /\ \A p \in Packs : SF_vars(Install(c, p))

-----------------------------------------------------------------------------
(* Properties.                                                             *)

\* A Pack is active only while its release is registered as healthy, in the
\* workspace that it was built from: no activation in flight (activate verifies
\* first and writes later) survives or follows the quarantine of its Pack.
ActiveHealthy ==
  \A s \in Scopes, w \in Workspaces :
    activations[s, w] # NULL =>
      /\ releases[activations[s, w]] = "OK"
      /\ WorkspaceOf[activations[s, w]] = w

Installing(c, p) == calls[c].locked /\ calls[c].pack = p

\* At most one install works on a Pack under its lock file, and the file is
\* there as long as it does: an install that finds the lock taken leaves it.
InstallsExclusive ==
  \A c \in Clients, p \in Packs :
    Installing(c, p) =>
      /\ p \in locks
      /\ \A d \in Clients : Installing(d, p) => d = c

\* A release is registered only after its files were published: an interrupted
\* install leaves a Pack without a row, never a row without a Pack.
RegisteredPublished ==
  \A p \in Packs : releases[p] # NULL => disk[p] # "absent"

\* What a project pins, in the registry or in a marker file, is an installed
\* release: a link that is refused or interrupted leaves no marker that the
\* registry never accepted.
PinsInstalled ==
  /\ \A j \in Projects : projects[j] # NULL =>
       \A p \in projects[j] : releases[p] # NULL
  /\ \A r \in Roots : markers[r] # NULL =>
       /\ projects[markers[r].project] # NULL
       /\ \A p \in markers[r].pins : releases[p] # NULL

\* Both: nothing in the registry or a marker names what is not there, wherever
\* an install, a link or a verification stops.
NothingDangling == RegisteredPublished /\ PinsInstalled

\* The files of an installed Pack are never replaced by an install (the
\* no-clobber rule of docs/security-model.md): whatever an edit left there, and
\* whichever installs race for the path, stays.
NoClobber ==
  [][\A p \in Packs :
       disk'[p] # disk[p] /\ calls' # calls => disk[p] = "absent"]_vars

\* A Pack whose files stay damaged ends up out of the active set that find,
\* get and catalog read, the global one, for good: no activation or verification
\* under way when it broke brings it back.  These reads consult no other scope,
\* so a Pack that is active only in a project's scope stays there until an
\* operator verifies it.
QuarantineWins ==
  \A p \in Packs :
    <>[](disk[p] \in {"damaged", "malformed"}) => <>[](p \notin ActiveIn(Global))

\* A Pack that an interrupted install published, and whose files stay as they
\* are, becomes a registered release: the retry registers what it finds.
InstallRecovers ==
  \A p \in Packs : <>[](disk[p] = "good") => <>(releases[p] # NULL)

=============================================================================
