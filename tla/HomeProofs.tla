----------------------------- MODULE HomeProofs -----------------------------
(***************************************************************************)
(* Proofs that every reachable Home is well typed and that what it has     *)
(* active, registered and pinned is healthy, published and installed, for  *)
(* any Packs, workspaces, scopes, projects and processes.                  *)
(***************************************************************************)
EXTENDS Home, TLAPS

-----------------------------------------------------------------------------
(* Types.                                                                  *)

\* The call of c becomes k, and no other call changes.
Becomes(c, k) == calls' = [calls EXCEPT ![c] = k]

TablesOK ==
  /\ disk \in [Packs -> States \cup {"absent"}]
  /\ locks \subseteq Packs
  /\ releases \in [Packs -> Healths \cup {NULL}]
  /\ activations \in [Scopes \X Workspaces -> Packs \cup {NULL}]
  /\ projects \in [Projects -> Pins \cup {NULL}]
  /\ markers \in [Roots -> Marker \cup {NULL}]

\* No call is idle at the start and after its return.
LEMMA IdleType == Idle \in Call /\ Carries(Idle)
BY DEF Idle, Call, Steps, PackSteps, Ops, Carries

\* When the tables keep their types and one call becomes a well-typed call that
\* carries what it needs, the state stays well typed.
LEMMA CallType ==
  ASSUME HomeTypeOK, TablesOK', NEW c \in Clients, NEW k, Becomes(c, k),
         k \in Call, Carries(k)
  PROVE  /\ HomeTypeOK'
         /\ calls'[c] = k
         /\ \A d \in Clients : d # c => calls'[d] = calls[d]
<1>1. calls \in [Clients -> Call] BY DEF HomeTypeOK
<1>2. /\ calls' \in [Clients -> Call]
      /\ calls'[c] = k
      /\ \A d \in Clients : d # c => calls'[d] = calls[d]
  BY <1>1 DEF Becomes
<1>3. \A d \in Clients : Carries(calls[d]) BY DEF HomeTypeOK
<1>4. \A d \in Clients : Carries(calls'[d]) BY <1>2, <1>3
<1> QED BY <1>2, <1>4 DEF HomeTypeOK, TablesOK, Carries

\* The same of a call that moves to its next step.
LEMMA GotoType ==
  ASSUME HomeTypeOK, TablesOK', NEW c \in Clients, NEW step \in Steps,
         Goto(c, step), Carries([calls[c] EXCEPT !.at = step])
  PROVE  HomeTypeOK'
<1>1. calls \in [Clients -> Call] BY DEF HomeTypeOK
<1>2. [calls[c] EXCEPT !.at = step] \in Call BY <1>1 DEF Call
<1>3. Becomes(c, [calls[c] EXCEPT !.at = step]) BY <1>1 DEF Goto, Becomes
<1> QED BY <1>2, <1>3, CallType

\* The same of a call that returns or dies.
LEMMA DoneType ==
  ASSUME HomeTypeOK, TablesOK', NEW c \in Clients, Done(c)
  PROVE  HomeTypeOK'
BY IdleType, CallType DEF Done, Becomes

\* The same of a call that goes on with its Pack.
LEMMA PlainType ==
  ASSUME HomeTypeOK, TablesOK', NEW c \in Clients, calls[c].at \in PackSteps,
         NEW step \in PackSteps \ {"activate"}, Goto(c, step)
  PROVE  HomeTypeOK'
<1>1. calls[c] \in Call /\ Carries(calls[c]) BY DEF HomeTypeOK
<1>2. Carries([calls[c] EXCEPT !.at = step]) BY <1>1 DEF Carries, Call, PackSteps
<1>3. step \in Steps BY DEF PackSteps, Steps
<1> QED BY <1>2, <1>3, GotoType

\* The steps of an install keep the state well typed.
LEMMA InstallType ==
  ASSUME HomeTypeOK, NEW c \in Clients,
         \/ Look(c) \/ AcquireLock(c) \/ MkdtempFails(c) \/ CopyFails(c)
         \/ Publish(c) \/ InsertRelease(c) \/ Unlock(c)
  PROVE  HomeTypeOK'
<1> USE DEF PackSteps, At
<1>1. TablesOK BY DEF HomeTypeOK, TablesOK
<1>2. calls[c] \in Call /\ Carries(calls[c]) BY DEF HomeTypeOK
<1>3. CASE Look(c)
  <2>1. TablesOK' BY <1>1, <1>3 DEF Look, TablesOK, registry, files
  <2>2. Done(c) \/ Goto(c, "lock") \/ Goto(c, "insert") BY <1>3 DEF Look
  <2>3. calls[c].at \in PackSteps BY <1>3 DEF Look
  <2> QED BY <2>1, <2>2, <2>3, DoneType, PlainType
<1>4. CASE AcquireLock(c)
  <2>1. CASE Done(c) /\ UNCHANGED locks
    <3>1. TablesOK' BY <1>1, <1>4, <2>1 DEF AcquireLock, TablesOK, registry
    <3> QED BY <2>1, <3>1, DoneType
  <2>2. CASE /\ calls' = [calls EXCEPT ![c].at = "stage", ![c].locked = TRUE]
             /\ locks' = locks \cup {calls[c].pack}
    <3> DEFINE k == [calls[c] EXCEPT !.at = "stage", !.locked = TRUE]
    <3>1. calls[c].pack \in Packs
      BY <1>2, <1>4 DEF AcquireLock, Carries
    <3>2. TablesOK' BY <1>1, <1>4, <2>2, <3>1 DEF AcquireLock, TablesOK, registry
    <3>3. k \in Call BY <1>2 DEF Call, Steps
    <3>4. Carries(k) BY <1>2, <3>1 DEF Call, Carries
    <3>5. Becomes(c, k) BY <2>2 DEF HomeTypeOK, Becomes
    <3> QED BY <3>2, <3>3, <3>4, <3>5, CallType
  <2> QED BY <1>4, <2>1, <2>2 DEF AcquireLock
<1>5. CASE MkdtempFails(c)
  <2>1. TablesOK' BY <1>1, <1>5 DEF MkdtempFails, TablesOK, registry, files
  <2> QED BY <1>5, <2>1, DoneType DEF MkdtempFails
<1>6. CASE CopyFails(c)
  <2>1. TablesOK' BY <1>1, <1>6 DEF CopyFails, TablesOK, registry, files
  <2> QED BY <1>6, <2>1, PlainType DEF CopyFails
<1>7. CASE Publish(c)
  <2>1. TablesOK' BY <1>1, <1>7 DEF Publish, TablesOK, registry, States
  <2>2. Goto(c, "insert") \/ Goto(c, "unlock") BY <1>7 DEF Publish
  <2>3. calls[c].at \in PackSteps BY <1>7 DEF Publish
  <2> QED BY <2>1, <2>2, <2>3, PlainType
<1>8. CASE InsertRelease(c)
  <2>1. TablesOK' BY <1>1, <1>8 DEF InsertRelease, TablesOK, files, Healths
  <2>2. Done(c) \/ Goto(c, "unlock") BY <1>8 DEF InsertRelease
  <2>3. calls[c].at \in PackSteps BY <1>8 DEF InsertRelease
  <2> QED BY <2>1, <2>2, <2>3, DoneType, PlainType
<1>9. CASE Unlock(c)
  <2>1. TablesOK' BY <1>1, <1>9 DEF Unlock, TablesOK, registry
  <2> QED BY <1>9, <2>1, DoneType DEF Unlock
<1> QED BY <1>3, <1>4, <1>5, <1>6, <1>7, <1>8, <1>9

\* A request starts a well-typed call.
LEMMA StartType ==
  ASSUME HomeTypeOK, NEW c \in Clients, NEW k \in Call, Carries(k), Start(c, k)
  PROVE  HomeTypeOK'
<1>1. TablesOK' BY DEF HomeTypeOK, TablesOK, Start, registry, files
<1> QED BY <1>1, CallType DEF Start, Becomes

\* The requests keep the state well typed.
LEMMA RequestType ==
  ASSUME HomeTypeOK, NEW c \in Clients, Request(c)
  PROVE  HomeTypeOK'
<1> USE DEF Idle, Call, Steps, PackSteps, Ops, Carries
<1>1. CASE \E p \in Packs : Install(c, p)
  <2>1. PICK p \in Packs : Install(c, p) BY <1>1
  <2> DEFINE k == [Idle EXCEPT !.op = "install", !.at = "look", !.pack = p]
  <2>2. k \in Call /\ Carries(k) OBVIOUS
  <2>3. Start(c, k) BY <2>1 DEF Install
  <2> HIDE DEF k
  <2> QED BY <2>2, <2>3, StartType
<1>2. CASE \E p \in Packs : Verify(c, p)
  <2>1. PICK p \in Packs : Verify(c, p) BY <1>2
  <2> DEFINE k == [Idle EXCEPT !.op = "verify", !.at = "verify", !.pack = p]
  <2>2. k \in Call /\ Carries(k) OBVIOUS
  <2>3. Start(c, k) BY <2>1 DEF Verify
  <2> HIDE DEF k
  <2> QED BY <2>2, <2>3, StartType
<1>3. CASE \E p \in Packs, s \in Scopes : Activate(c, p, s)
  <2>1. PICK p \in Packs, s \in Scopes : Activate(c, p, s) BY <1>3
  <2> DEFINE k == [Idle EXCEPT !.op = "activate", !.at = "verify",
                               !.pack = p, !.scope = s]
  <2>2. k \in Call /\ Carries(k) OBVIOUS
  <2>3. Start(c, k) BY <2>1 DEF Activate
  <2> HIDE DEF k
  <2> QED BY <2>2, <2>3, StartType
<1>4. CASE \E p \in Packs, s \in Scopes : Deactivate(c, p, s)
  <2>1. PICK p \in Packs, s \in Scopes : Deactivate(c, p, s) BY <1>4
  <2> QED BY <2>1 DEF Deactivate, HomeTypeOK, files
<1>5. CASE \E r \in Roots, m \in Marker : Link(c, r, m)
  <2>1. PICK r \in Roots, m \in Marker : Link(c, r, m) BY <1>5
  <2> DEFINE k == [Idle EXCEPT !.op = "link", !.at = "pin", !.root = r, !.marker = m]
  <2>2. k \in Call /\ Carries(k) OBVIOUS
  <2>3. Start(c, k) BY <2>1 DEF Link
  <2> HIDE DEF k
  <2> QED BY <2>2, <2>3, StartType
<1>6. CASE \E op \in {"find", "get"}, r \in Roots \cup {NULL} : Read(c, op, r)
  <2>1. PICK op \in {"find", "get"}, r \in Roots \cup {NULL} : Read(c, op, r)
    BY <1>6
  <2> DEFINE k == [Idle EXCEPT !.op = op, !.at = "list", !.root = r]
  <2>2. k \in Call /\ Carries(k) OBVIOUS
  <2>3. Start(c, k) BY <2>1 DEF Read
  <2> HIDE DEF k
  <2> QED BY <2>2, <2>3, StartType
<1> QED BY <1>1, <1>2, <1>3, <1>4, <1>5, <1>6 DEF Request

\* What a call does with a Pack that verified keeps the state well typed.
LEMMA VerifiedType ==
  ASSUME HomeTypeOK, TablesOK', NEW c \in Clients,
         calls[c].at \in PackSteps, Verified(c)
  PROVE  HomeTypeOK'
<1>1. calls[c] \in Call /\ Carries(calls[c]) BY DEF HomeTypeOK
<1>2. CASE calls[c].op = "get"
  <2> DEFINE k == [calls[c] EXCEPT !.at = "search", !.pack = NULL,
                                   !.health = NULL, !.todo = @ \ {calls[c].pack}]
  <2>1. k \in Call /\ Carries(k) BY ZenonT(40), <1>1 DEF Call, Carries, Steps, PackSteps
  <2>2. Becomes(c, k) BY <1>2 DEF Verified, Becomes, HomeTypeOK
  <2> HIDE DEF k
  <2> QED BY <2>1, <2>2, CallType
<1>3. CASE calls[c].op = "activate"
  <2>1. Goto(c, "activate") BY <1>3 DEF Verified
  <2>2. Carries([calls[c] EXCEPT !.at = "activate"])
    BY <1>1, <1>3 DEF Call, Carries, PackSteps
  <2>3. "activate" \in Steps BY DEF Steps
  <2> QED BY <2>1, <2>2, <2>3, GotoType
<1>4. CASE calls[c].op \notin {"get", "activate"}
  BY <1>4, DoneType DEF Verified
<1> QED BY <1>2, <1>3, <1>4

\* The steps of a verification and of an activation keep the state well typed.
LEMMA VerifyType ==
  ASSUME HomeTypeOK, NEW c \in Clients,
         \/ ReadRow(c) \/ CheckFiles(c) \/ Heal(c) \/ Condemn(c)
         \/ ActivateExact(c)
  PROVE  HomeTypeOK'
<1> USE DEF At
<1>1. TablesOK BY DEF HomeTypeOK, TablesOK
<1>2. calls[c] \in Call /\ Carries(calls[c]) BY DEF HomeTypeOK
<1>3. CASE ReadRow(c)
  <2>1. TablesOK' BY <1>1, <1>3 DEF ReadRow, TablesOK, registry, files
  <2>2. CASE Done(c) BY <2>1, <2>2, DoneType
  <2>3. CASE ~ Done(c)
    <3> DEFINE k == [calls[c] EXCEPT !.at = "check",
                                     !.health = releases[calls[c].pack]]
    <3>1. calls[c].pack \in Packs BY <1>2, <1>3 DEF ReadRow, Carries, PackSteps
    <3>2. k \in Call /\ Carries(k)
      BY <1>1, <1>2, <3>1, ZenonT(40) DEF TablesOK, Call, Carries, Steps, PackSteps
    <3>3. Becomes(c, k) BY <1>3, <2>3 DEF ReadRow, Becomes, HomeTypeOK
    <3> HIDE DEF k
    <3> QED BY <2>1, <3>2, <3>3, CallType
  <2> QED BY <2>2, <2>3
<1>4. CASE CheckFiles(c)
  <2>1. TablesOK' BY <1>1, <1>4 DEF CheckFiles, TablesOK, registry, files
  <2>2. Goto(c, "condemn") \/ Goto(c, "heal") \/ Verified(c)
    BY <1>4 DEF CheckFiles
  <2>3. calls[c].at \in PackSteps BY <1>4 DEF CheckFiles, PackSteps
  <2>4. {"condemn", "heal"} \subseteq PackSteps \ {"activate"} BY DEF PackSteps
  <2> QED BY <2>1, <2>2, <2>3, <2>4, PlainType, VerifiedType
<1>5. CASE Heal(c)
  <2>1. TablesOK' BY <1>1, <1>5 DEF Heal, TablesOK, files, Healths
  <2>2. Verified(c) /\ calls[c].at \in PackSteps BY <1>5 DEF Heal, PackSteps
  <2> QED BY <2>1, <2>2, VerifiedType
<1>6. CASE Condemn(c)
  <2>1. TablesOK' BY <1>1, <1>6 DEF Condemn, TablesOK, files, Healths
  <2> QED BY <1>6, <2>1, DoneType DEF Condemn
<1>7. CASE ActivateExact(c)
  <2>1. calls[c].pack \in Packs /\ calls[c].scope \in Scopes
    BY <1>2, <1>7 DEF ActivateExact, Carries, PackSteps
  <2>2. WorkspaceOf[calls[c].pack] \in Workspaces BY <2>1 DEF Workspaces
  <2>3. TablesOK' BY <1>1, <1>7, <2>1, <2>2 DEF ActivateExact, TablesOK, files
  <2> QED BY <1>7, <2>3, DoneType DEF ActivateExact
<1> QED BY <1>3, <1>4, <1>5, <1>6, <1>7

\* The steps of a link keep the state well typed.
LEMMA LinkType ==
  ASSUME HomeTypeOK, NEW c \in Clients, ReplacePins(c) \/ ReplaceMarker(c)
  PROVE  HomeTypeOK'
<1> USE DEF At
<1>1. TablesOK BY DEF HomeTypeOK, TablesOK
<1>2. calls[c] \in Call /\ Carries(calls[c]) BY DEF HomeTypeOK
<1>3. CASE ReplacePins(c)
  <2>1. calls[c].marker \in Marker BY <1>2, <1>3 DEF ReplacePins, Carries
  <2>2. TablesOK' BY <1>1, <1>3, <2>1 DEF ReplacePins, TablesOK, files, Marker
  <2>3. CASE Done(c) BY <2>2, <2>3, DoneType
  <2>4. CASE Goto(c, "mark")
    <3>1. Carries([calls[c] EXCEPT !.at = "mark"])
      BY <1>2, <1>3 DEF ReplacePins, Call, Carries, PackSteps
    <3>2. "mark" \in Steps BY DEF Steps
    <3> QED BY <2>2, <2>4, <3>1, <3>2, GotoType
  <2> QED BY <1>3, <2>3, <2>4 DEF ReplacePins
<1>4. CASE ReplaceMarker(c)
  <2>1. calls[c].marker \in Marker BY <1>2, <1>4 DEF ReplaceMarker, Carries
  <2>2. TablesOK' BY <1>1, <1>4, <2>1 DEF ReplaceMarker, TablesOK, registry
  <2> QED BY <1>4, <2>2, DoneType DEF ReplaceMarker
<1> QED BY <1>3, <1>4

\* The steps of a read keep the state well typed.
LEMMA ReadType ==
  ASSUME HomeTypeOK, NEW c \in Clients,
         \/ ListActive(c) \/ ReadMarker(c) \/ CompareMarker(c) \/ Answer(c)
         \/ \E p \in Packs : GetFrom(c, p) \/ FindIn(c, p)
  PROVE  HomeTypeOK'
<1> USE DEF At
<1>1. TablesOK BY DEF HomeTypeOK, TablesOK
<1>2. calls[c] \in Call /\ Carries(calls[c]) BY DEF HomeTypeOK
<1>3. TablesOK'
  BY <1>1 DEF ListActive, ReadMarker, CompareMarker, Answer, GetFrom, FindIn,
              TablesOK, registry, files
<1>4. CASE ListActive(c)
  <2> DEFINE k == [calls[c] EXCEPT
                     !.todo = ActiveIn(Global),
                     !.at = IF calls[c].root = NULL THEN "search" ELSE "marker"]
  <2>1. ActiveIn(Global) \subseteq Packs BY DEF ActiveIn
  <2>2. k \in Call BY <1>2, <2>1, ZenonT(40) DEF Call, Steps
  <2>3. k.at \in {"search", "marker"} OBVIOUS
  <2>4. Carries(k)
    <3>1. k.op = calls[c].op /\ k.root = calls[c].root BY <1>2 DEF Call
    <3>2. k.pack = calls[c].pack /\ k.scope = calls[c].scope BY <1>2 DEF Call
    <3>3. k.at = "marker" => k.root \in Roots BY <1>2, <3>1 DEF Call
    <3>4. calls[c].op = "activate" => calls[c].scope \in Scopes
      BY <1>2 DEF Carries
    <3> HIDE DEF k
    <3> QED BY <2>3, <3>1, <3>2, <3>3, <3>4 DEF Carries, PackSteps
  <2>5. Becomes(c, k) BY <1>4 DEF ListActive, Becomes, HomeTypeOK
  <2> HIDE DEF k
  <2> QED BY <1>3, <2>2, <2>4, <2>5, CallType
<1>5. CASE ReadMarker(c)
  <2>1. CASE Done(c) BY <1>3, <2>1, DoneType
  <2>2. CASE ~ Done(c)
    <3> DEFINE k == [calls[c] EXCEPT !.at = "compare",
                                     !.marker = markers[calls[c].root]]
    <3>1. calls[c].root \in Roots BY <1>2, <1>5 DEF ReadMarker, Carries
    <3>2. markers[calls[c].root] \in Marker
      BY <1>1, <1>5, <2>2, <3>1 DEF ReadMarker, TablesOK
    <3>3. k \in Call /\ Carries(k)
      BY <1>2, <3>1, <3>2 DEF Call, Carries, Steps, PackSteps
    <3>4. Becomes(c, k) BY <1>5, <2>2 DEF ReadMarker, Becomes, HomeTypeOK
    <3> HIDE DEF k
    <3> QED BY <1>3, <3>3, <3>4, CallType
  <2> QED BY <2>1, <2>2
<1>6. CASE CompareMarker(c)
  <2>1. CASE Done(c) BY <1>3, <2>1, DoneType
  <2>2. CASE ~ Done(c)
    <3> DEFINE k == [calls[c] EXCEPT !.at = "search",
                                     !.todo = @ \cap calls[c].marker.pins]
    <3>1. k \in Call /\ Carries(k) BY ZenonT(40), <1>2 DEF Call, Carries, Steps, PackSteps
    <3>2. Becomes(c, k) BY <1>6, <2>2 DEF CompareMarker, Becomes, HomeTypeOK
    <3> HIDE DEF k
    <3> QED BY <1>3, <3>1, <3>2, CallType
  <2> QED BY <2>1, <2>2
<1>7. CASE Answer(c) BY <1>3, <1>7, DoneType DEF Answer
<1>8. CASE \E p \in Packs : GetFrom(c, p)
  <2>1. PICK p \in Packs : GetFrom(c, p) BY <1>8
  <2> DEFINE k == [calls[c] EXCEPT !.at = "verify", !.pack = p]
  <2>2. k \in Call /\ Carries(k) BY ZenonT(40), <1>2 DEF Call, Carries, Steps, PackSteps
  <2>3. Becomes(c, k) BY <2>1 DEF GetFrom, Becomes, HomeTypeOK
  <2> HIDE DEF k
  <2> QED BY <1>3, <2>2, <2>3, CallType
<1>9. CASE \E p \in Packs : FindIn(c, p)
  <2>1. PICK p \in Packs : FindIn(c, p) BY <1>9
  <2>2. CASE disk[p] = "good"
    <3> DEFINE k == [calls[c] EXCEPT !.todo = @ \ {p}]
    <3>1. k \in Call /\ Carries(k) BY <1>2 DEF Call, Carries
    <3>2. Becomes(c, k) BY <2>1, <2>2 DEF FindIn, Becomes, HomeTypeOK
    <3> HIDE DEF k
    <3> QED BY <1>3, <3>1, <3>2, CallType
  <2>3. CASE disk[p] = "damaged"
    <3> DEFINE k == [calls[c] EXCEPT !.at = "condemn", !.pack = p]
    <3>1. k \in Call /\ Carries(k) BY <1>2, ZenonT(40) DEF Call, Carries, Steps, PackSteps
    <3>2. Becomes(c, k) BY <2>1, <2>3 DEF FindIn, Becomes, HomeTypeOK
    <3> HIDE DEF k
    <3> QED BY <1>3, <3>1, <3>2, CallType
  <2>4. CASE disk[p] \notin {"good", "damaged"}
    BY <1>3, <2>1, <2>4, DoneType DEF FindIn
  <2> QED BY <2>2, <2>3, <2>4
<1> QED BY <1>4, <1>5, <1>6, <1>7, <1>8, <1>9

\* Every step keeps the state well typed.
LEMMA TypeStep ==
  ASSUME HomeTypeOK, [Next]_vars
  PROVE  HomeTypeOK'
<1>1. CASE UNCHANGED vars BY <1>1 DEF vars, HomeTypeOK
<1>2. ASSUME NEW c \in Clients, Request(c) PROVE HomeTypeOK'
  BY <1>2, RequestType
<1>3. ASSUME NEW c \in Clients, Work(c) PROVE HomeTypeOK'
  BY <1>3, InstallType, VerifyType, LinkType, ReadType DEF Work
<1>4. ASSUME NEW c \in Clients, Fault(c) PROVE HomeTypeOK'
  <2>1. CASE MkdtempFails(c) \/ CopyFails(c) BY <2>1, InstallType
  <2>2. CASE Crash(c)
    <3>1. TablesOK' BY <2>2 DEF HomeTypeOK, TablesOK, Crash, registry, files
    <3> QED BY <2>2, <3>1, DoneType DEF Crash
  <2> QED BY <1>4, <2>1, <2>2 DEF Fault
<1>5. ASSUME NEW p \in Packs, NEW s \in Edits, Edit(p, s) PROVE HomeTypeOK'
  <2>1. s \in States BY HomeAssumption
  <2> QED BY <1>5, <2>1 DEF Edit, HomeTypeOK, registry
<1> QED BY <1>1, <1>2, <1>3, <1>4, <1>5 DEF Next

\* Every reachable state is well typed, and every call has what its next step
\* uses.
THEOREM HomeTypeCorrect == Spec => []HomeTypeOK
<1>1. Init => HomeTypeOK
  BY IdleType DEF Init, HomeTypeOK
<1> QED BY <1>1, TypeStep, PTL DEF Spec

-----------------------------------------------------------------------------
(* The inductive invariant.  The properties of Home.tla are not inductive: *)
(* what a call does next is right because of what it, or another call, saw *)
(* before, and because nothing of that is ever taken back: a Pack that was *)
(* published stays, a release that was registered stays registered, and a  *)
(* linked project stays linked.                                            *)

\* A call holds the lock of its Pack from the acquisition to the finally clause.
HolderWorks ==
  \A c \in Clients :
    /\ calls[c].locked => calls[c].at \in {"stage", "insert", "unlock"}
    /\ calls[c].at \in {"stage", "unlock"} => calls[c].locked

\* What a call saw before the step it is at.
Seen(k) ==
  /\ k.at = "insert" => disk[k.pack] # "absent"
  /\ k.at \in {"check", "heal", "condemn", "activate"} => releases[k.pack] # NULL
  /\ \A p \in k.todo : releases[p] # NULL
  /\ k.at = "mark" => /\ projects[k.marker.project] # NULL
                      /\ \A p \in k.marker.pins : releases[p] # NULL

CallsSeen == \A c \in Clients : Seen(calls[c])

HomeInv ==
  /\ HomeTypeOK
  /\ HolderWorks
  /\ InstallsExclusive
  /\ CallsSeen
  /\ ActiveHealthy
  /\ RegisteredPublished
  /\ PinsInstalled

\* What is never taken back.
Grows ==
  /\ \A p \in Packs : disk[p] # "absent" => disk'[p] # "absent"
  /\ \A p \in Packs : releases[p] # NULL => releases'[p] # NULL
  /\ \A j \in Projects : projects[j] # NULL => projects'[j] # NULL

\* A process changes no call but its own.
LEMMA OwnCall ==
  ASSUME HomeTypeOK, NEW c \in Clients, Request(c) \/ Work(c) \/ Fault(c)
  PROVE  \A d \in Clients : d # c => calls'[d] = calls[d]
<1>1. calls \in [Clients -> Call] BY DEF HomeTypeOK
<1>2. CASE Request(c)
  BY <1>1, <1>2 DEF Request, Install, Verify, Activate, Deactivate, Link, Read, Start
<1>3. CASE Work(c)
  BY <1>1, <1>3 DEF Work, Look, AcquireLock, Publish, InsertRelease, Unlock,
     ReadRow, CheckFiles, Heal, Condemn, ActivateExact, ReplacePins,
     ReplaceMarker, ListActive, ReadMarker, CompareMarker, Answer, GetFrom,
     FindIn, Verified, Goto, Done
<1>4. CASE Fault(c)
  BY <1>1, <1>4 DEF Fault, MkdtempFails, CopyFails, Crash, Goto, Done
<1> QED BY <1>2, <1>3, <1>4

\* No step takes back a publication, a registration or a project.
LEMMA NothingTakenBack ==
  ASSUME HomeTypeOK, [Next]_vars
  PROVE  Grows
<1> USE HomeAssumption DEF HomeTypeOK, Grows
<1>1. CASE UNCHANGED vars BY <1>1 DEF vars
<1>2. ASSUME NEW c \in Clients, Request(c) PROVE Grows
  BY <1>2 DEF Request, Install, Verify, Activate, Deactivate, Link, Read, Start,
     registry, files
<1>3. ASSUME NEW c \in Clients, Fault(c) PROVE Grows
  BY <1>3 DEF Fault, MkdtempFails, CopyFails, Crash, registry, files
<1>4. ASSUME NEW p \in Packs, NEW s \in Edits, Edit(p, s) PROVE Grows
  BY <1>4 DEF Edit, registry, States
<1>5. ASSUME NEW c \in Clients, Work(c) PROVE Grows
  <2>1. Carries(calls[c]) OBVIOUS
  <2>2. CASE Look(c) \/ AcquireLock(c) \/ Unlock(c) \/ ReadRow(c) \/ CheckFiles(c)
    BY <2>2 DEF Look, AcquireLock, Unlock, ReadRow, CheckFiles, registry, files
  <2>3. CASE \/ ListActive(c) \/ ReadMarker(c) \/ CompareMarker(c) \/ Answer(c)
             \/ \E p \in Packs : GetFrom(c, p) \/ FindIn(c, p)
    BY <2>3 DEF ListActive, ReadMarker, CompareMarker, Answer, GetFrom, FindIn,
       registry, files
  <2>4. CASE Publish(c) BY <2>4 DEF Publish, registry
  <2>5. CASE InsertRelease(c) BY <2>5 DEF InsertRelease, files
  <2>6. CASE Heal(c) BY <2>6 DEF Heal, files
  <2>7. CASE Condemn(c) BY <2>7 DEF Condemn, files
  <2>8. CASE ActivateExact(c) BY <2>8 DEF ActivateExact, files
  <2>9. CASE ReplacePins(c)
    <3>1. calls[c].marker \in Marker BY <2>1, <2>9 DEF ReplacePins, Carries, At
    <3>2. calls[c].marker.pins # NULL BY <3>1 DEF Marker
    <3> QED BY <2>9, <3>2 DEF ReplacePins, files
  <2>10. CASE ReplaceMarker(c) BY <2>10 DEF ReplaceMarker, registry
  <2> QED BY <1>5, <2>2, <2>3, <2>4, <2>5, <2>6, <2>7, <2>8, <2>9, <2>10 DEF Work
<1> QED BY <1>1, <1>2, <1>3, <1>4, <1>5 DEF Next

-----------------------------------------------------------------------------
(* Each part of the invariant is kept by every step.                       *)

\* What a call saw stays true while the call itself does not move.
LEMMA SeenStays ==
  ASSUME HomeTypeOK, [Next]_vars, NEW d \in Clients, calls'[d] = calls[d],
         Seen(calls[d])
  PROVE  Seen(calls[d])'
<1>1. Grows BY NothingTakenBack
<1>2. calls[d] \in Call /\ Carries(calls[d]) BY DEF HomeTypeOK
<1>3. /\ calls[d].at \in PackSteps => calls[d].pack \in Packs
      /\ calls[d].todo \subseteq Packs
      /\ calls[d].at = "mark" => /\ calls[d].marker.project \in Projects
                                 /\ calls[d].marker.pins \subseteq Packs
  BY <1>2 DEF Call, Carries, Marker, Pins
<1> QED BY <1>1, <1>3 DEF Seen, Grows, PackSteps

\* A call that is idle again has seen nothing.
LEMMA SeenIdle ==
  ASSUME HomeTypeOK, NEW c \in Clients, Done(c)
  PROVE  Seen(calls[c])'
<1>1. calls'[c] = Idle BY DEF HomeTypeOK, Done
<1> QED BY <1>1 DEF Seen, Idle

\* The requests of a process rely on nothing.
LEMMA SeenRequest ==
  ASSUME HomeInv, [Next]_vars, NEW c \in Clients, Request(c)
  PROVE  Seen(calls[c])'
<1>1. CASE \E p \in Packs, s \in Scopes : Deactivate(c, p, s)
  BY <1>1, SeenStays DEF HomeInv, CallsSeen, Deactivate
<1>2. CASE ~ \E p \in Packs, s \in Scopes : Deactivate(c, p, s)
  <2>1. calls \in [Clients -> Call] BY DEF HomeInv, HomeTypeOK
  <2>2. CASE \E p \in Packs : Install(c, p)
    BY <2>1, <2>2 DEF Install, Start, Idle, Seen
  <2>3. CASE \E p \in Packs : Verify(c, p)
    BY <2>1, <2>3 DEF Verify, Start, Idle, Seen
  <2>4. CASE \E p \in Packs, s \in Scopes : Activate(c, p, s)
    BY <2>1, <2>4 DEF Activate, Start, Idle, Seen
  <2>5. CASE \E r \in Roots, m \in Marker : Link(c, r, m)
    BY <2>1, <2>5 DEF Link, Start, Idle, Seen
  <2>6. CASE \E op \in {"find", "get"}, r \in Roots \cup {NULL} : Read(c, op, r)
    BY <2>1, <2>6 DEF Read, Start, Idle, Seen
  <2> QED BY <1>2, <2>2, <2>3, <2>4, <2>5, <2>6 DEF Request
<1> QED BY <1>1, <1>2

\* A process goes on only from what it saw.
LEMMA SeenWork ==
  ASSUME HomeInv, [Next]_vars, NEW c \in Clients, Work(c)
  PROVE  Seen(calls[c])'
<1> USE DEF At, Seen
<1>1. /\ calls \in [Clients -> Call]
      /\ calls[c] \in Call
      /\ Carries(calls[c])
      /\ Seen(calls[c])
  BY DEF HomeInv, HomeTypeOK, CallsSeen
<1>2. Grows BY NothingTakenBack DEF HomeInv
<1>3. /\ calls[c].at \in PackSteps => calls[c].pack \in Packs
      /\ calls[c].todo \subseteq Packs
  BY <1>1 DEF Call, Carries
<1>4. Done(c) => Seen(calls[c])' BY SeenIdle DEF HomeInv
<1>5. \A p \in calls[c].todo : releases'[p] # NULL BY <1>1, <1>2, <1>3 DEF Grows
<1>6. HomeTypeOK BY DEF HomeInv
<1>7. CASE Look(c)
  BY <1>1, <1>4, <1>5, <1>7 DEF Look, Goto, files, Call
<1>8. CASE AcquireLock(c)
  BY <1>1, <1>4, <1>5, <1>8 DEF AcquireLock, Call
<1>9. CASE Publish(c)
  BY <1>1, <1>3, <1>5, <1>6, <1>9 DEF Publish, Goto, Call, PackSteps, HomeTypeOK
<1>10. CASE InsertRelease(c) \/ Unlock(c)
  BY <1>1, <1>4, <1>5, <1>10 DEF InsertRelease, Unlock, Goto, Call
<1>11. CASE ReadRow(c)
  BY <1>1, <1>4, <1>5, <1>11 DEF ReadRow, registry, Call
<1>12. ASSUME Verified(c), calls[c].at \in {"check", "heal"} PROVE Seen(calls[c])'
  <2>1. releases'[calls[c].pack] # NULL
    BY <1>1, <1>2, <1>3, <1>12 DEF Grows, PackSteps
  <2> QED BY <1>1, <1>4, <1>5, <1>12, <2>1 DEF Verified, Goto, Call
<1>13. CASE CheckFiles(c)
  BY <1>1, <1>5, <1>12, <1>13 DEF CheckFiles, Goto, registry, Call
<1>14. CASE Heal(c) BY <1>12, <1>14 DEF Heal
<1>15. CASE Condemn(c) BY <1>4, <1>15 DEF Condemn
<1>16. CASE ActivateExact(c) BY <1>4, <1>16 DEF ActivateExact
<1>17. CASE ReplacePins(c)
  <2>1. CASE Done(c) BY <1>4, <2>1
  <2>2. CASE ~ Done(c)
    <3>1. calls[c].marker \in Marker BY <1>1, <1>17 DEF ReplacePins, Carries
    <3>2. projects'[calls[c].marker.project] # NULL
      BY <1>6, <1>17, <2>2, <3>1, HomeAssumption DEF ReplacePins, HomeTypeOK, Marker
    <3>3. \A p \in calls[c].marker.pins : releases'[p] # NULL
      BY <1>17, <2>2, HomeAssumption DEF ReplacePins
    <3> QED BY <1>1, <1>5, <1>17, <2>2, <3>2, <3>3 DEF ReplacePins, Goto, Call
  <2> QED BY <2>1, <2>2
<1>18. CASE ReplaceMarker(c) BY <1>4, <1>18 DEF ReplaceMarker
<1>19. CASE ListActive(c)
  <2>1. ASSUME NEW p \in ActiveIn(Global) PROVE releases[p] # NULL
    <3>1. /\ p \in Packs
          /\ activations[Global, WorkspaceOf[p]] = p
      BY DEF ActiveIn
    <3>2. WorkspaceOf[p] \in Workspaces BY <3>1 DEF Workspaces
    <3>3. Global \in Scopes /\ p # NULL /\ "OK" # NULL BY <3>1, HomeAssumption
    <3>4. releases[p] = "OK"
      BY ZenonT(40), <3>1, <3>2, <3>3 DEF HomeInv, ActiveHealthy
    <3> QED BY <3>3, <3>4
  <2> QED BY <1>1, <1>19, <2>1 DEF ListActive, registry, Call
<1>20. CASE ReadMarker(c)
  BY <1>1, <1>4, <1>5, <1>20 DEF ReadMarker, Call
<1>21. CASE CompareMarker(c)
  BY <1>1, <1>4, <1>5, <1>21 DEF CompareMarker, Call
<1>22. CASE Answer(c) BY <1>4, <1>22 DEF Answer
<1>23. CASE \E p \in Packs : GetFrom(c, p)
  BY <1>1, <1>5, <1>23 DEF GetFrom, Call
<1>24. CASE \E p \in Packs : FindIn(c, p)
  BY <1>1, <1>4, <1>5, <1>24 DEF FindIn, Call
<1> QED BY <1>7, <1>8, <1>9, <1>10, <1>11, <1>13, <1>14, <1>15, <1>16, <1>17,
           <1>18, <1>19, <1>20, <1>21, <1>22, <1>23, <1>24 DEF Work

\* What every call saw stays true.
LEMMA SeenStep ==
  ASSUME HomeInv, [Next]_vars
  PROVE  CallsSeen'
<1>1. HomeTypeOK /\ CallsSeen BY DEF HomeInv
<1>2. CASE calls' = calls BY <1>1, <1>2, SeenStays DEF CallsSeen
<1>3. ASSUME NEW c \in Clients, Request(c) \/ Work(c) \/ Fault(c)
      PROVE  CallsSeen'
  <2>1. ASSUME NEW d \in Clients, d # c PROVE Seen(calls[d])'
    BY <1>1, <1>3, <2>1, OwnCall, SeenStays DEF CallsSeen
  <2>2. CASE Request(c) \/ Work(c)
    BY <2>1, <2>2, SeenRequest, SeenWork DEF CallsSeen
  <2>3. CASE MkdtempFails(c) \/ Crash(c)
    BY <1>1, <2>1, <2>3, SeenIdle DEF CallsSeen, MkdtempFails, Crash
  <2>4. CASE CopyFails(c)
    <3>1. Seen(calls[c])'
      BY <1>1, <2>4 DEF CopyFails, Goto, HomeTypeOK, CallsSeen, Seen, Call, registry
    <3> QED BY <2>1, <3>1 DEF CallsSeen
  <2> QED BY <1>3, <2>2, <2>3, <2>4 DEF Fault
<1> QED BY <1>2, <1>3 DEF Next, Edit, vars

\* A lock is held by one install, from its acquisition to its end.
LEMMA LockStep ==
  ASSUME HomeInv, [Next]_vars
  PROVE  HolderWorks' /\ InstallsExclusive'
<1> USE DEF At, Installing
<1>1. /\ HomeTypeOK /\ HolderWorks /\ InstallsExclusive
      /\ calls \in [Clients -> Call]
  BY DEF HomeInv, HomeTypeOK
<1>2. CASE calls' = calls /\ locks' = locks
  BY <1>1, <1>2 DEF HolderWorks, InstallsExclusive
<1>3. ASSUME NEW c \in Clients, Request(c) \/ Work(c) \/ Fault(c)
      PROVE  HolderWorks' /\ InstallsExclusive'
  <2>1. \A d \in Clients : d # c => calls'[d] = calls[d] BY <1>1, <1>3, OwnCall
  <2>2. /\ calls[c] \in Call
        /\ Carries(calls[c])
        /\ calls[c].locked => calls[c].at \in {"stage", "insert", "unlock"}
        /\ calls[c].at \in {"stage", "unlock"} => calls[c].locked
    BY <1>1 DEF HomeTypeOK, HolderWorks
  \* A call that stays without the lock changes nothing of it.
  <2>3. ASSUME locks' = locks, ~ calls'[c].locked,
               calls'[c].at \notin {"stage", "unlock"}
        PROVE  HolderWorks' /\ InstallsExclusive'
    BY <1>1, <2>1, <2>3 DEF HolderWorks, InstallsExclusive
  \* Neither does the holder while it works.
  <2>4. ASSUME locks' = locks, calls[c].locked, calls'[c].locked,
               calls'[c].pack = calls[c].pack,
               calls'[c].at \in {"stage", "insert", "unlock"}
        PROVE  HolderWorks' /\ InstallsExclusive'
    BY <1>1, <2>1, <2>4 DEF HolderWorks, InstallsExclusive
  <2>5. Done(c) => ~ calls'[c].locked /\ calls'[c].at = "idle"
    BY <1>1 DEF Done, Idle
  <2>6. CASE Request(c)
    <3>1. CASE \E p \in Packs, s \in Scopes : Deactivate(c, p, s)
      BY <1>1, <3>1 DEF Deactivate, files, HolderWorks, InstallsExclusive
    <3>2. CASE \E p \in Packs : Install(c, p) \/ Verify(c, p)
      BY <1>1, <2>3, <3>2, ZenonT(40) DEF Install, Verify, Start, Idle, files
    <3>3. CASE \E p \in Packs, s \in Scopes : Activate(c, p, s)
      BY <1>1, <2>3, <3>3 DEF Activate, Start, Idle, files
    <3>4. CASE \E r \in Roots, m \in Marker : Link(c, r, m)
      BY <1>1, <2>3, <3>4 DEF Link, Start, Idle, files
    <3>5. CASE \E op \in {"find", "get"}, r \in Roots \cup {NULL} : Read(c, op, r)
      BY <1>1, <2>3, <3>5 DEF Read, Start, Idle, files
    <3> QED BY <2>6, <3>1, <3>2, <3>3, <3>4, <3>5 DEF Request
  <2>7. CASE Look(c)
    BY <1>1, <2>2, <2>3, <2>5, <2>7 DEF Look, Goto, files, Call
  <2>8. CASE AcquireLock(c)
    <3> DEFINE p == calls[c].pack
    <3>1. CASE p \in locks
      BY <2>3, <2>5, <2>8, <3>1 DEF AcquireLock
    <3>2. CASE p \notin locks
      <4>1. /\ calls'[c].locked /\ calls'[c].at = "stage" /\ calls'[c].pack = p
            /\ locks' = locks \cup {p}
        BY <1>1, <2>2, <2>8, <3>2 DEF AcquireLock, Call
      <4>2. \A d \in Clients : ~ Installing(d, p)
        BY <1>1, <2>2, <2>8, <3>2 DEF InstallsExclusive, AcquireLock, Carries, PackSteps
      <4> QED BY <1>1, <2>1, <4>1, <4>2 DEF HolderWorks, InstallsExclusive
    <3> QED BY <3>1, <3>2
  <2>9. CASE MkdtempFails(c) \/ Crash(c)
    BY <2>3, <2>5, <2>9 DEF MkdtempFails, Crash, files
  <2>10. CASE CopyFails(c)
    BY <1>1, <2>2, <2>4, <2>10 DEF CopyFails, Goto, files, Call
  <2>11. CASE Publish(c)
    BY <1>1, <2>2, <2>4, <2>11 DEF Publish, Goto, Call
  <2>12. CASE InsertRelease(c)
    BY <1>1, <2>2, <2>3, <2>4, <2>5, <2>12 DEF InsertRelease, Goto, files, Call
  <2>13. CASE Unlock(c)
    <3> DEFINE p == calls[c].pack
    <3>1. p \in Packs /\ Installing(c, p)
      BY <2>2, <2>13 DEF Unlock, Carries, PackSteps
    <3>2. \A d \in Clients : d # c => ~ Installing(d, p)
      BY <1>1, <3>1 DEF InstallsExclusive
    <3>3. locks' = locks \ {p} /\ ~ calls'[c].locked /\ calls'[c].at = "idle"
      BY <2>5, <2>13 DEF Unlock
    <3> QED BY <1>1, <2>1, <3>2, <3>3 DEF HolderWorks, InstallsExclusive
  <2>14. ASSUME Verified(c), locks' = locks, ~ calls[c].locked
         PROVE  HolderWorks' /\ InstallsExclusive'
    BY <1>1, <2>2, <2>3, <2>5, <2>14 DEF Verified, Goto, Call
  <2>15. CASE ReadRow(c)
    BY <1>1, <2>2, <2>3, <2>5, <2>15 DEF ReadRow, files, Call
  <2>16. CASE CheckFiles(c)
    BY <1>1, <2>2, <2>3, <2>14, <2>16 DEF CheckFiles, Goto, files, Call
  <2>17. CASE Heal(c)
    BY <2>2, <2>14, <2>17 DEF Heal, files
  <2>18. CASE Condemn(c) \/ ActivateExact(c) \/ Answer(c)
    BY <2>3, <2>5, <2>18 DEF Condemn, ActivateExact, Answer, files
  <2>19. CASE ReplacePins(c)
    BY <1>1, <2>2, <2>3, <2>5, <2>19 DEF ReplacePins, Goto, files, Call
  <2>20. CASE ReplaceMarker(c)
    BY <2>3, <2>5, <2>20 DEF ReplaceMarker
  <2>21. CASE ListActive(c)
    BY <1>1, <2>2, <2>3, <2>21 DEF ListActive, files, Call
  <2>22. CASE ReadMarker(c)
    BY <1>1, <2>2, <2>3, <2>5, <2>22 DEF ReadMarker, files, Call
  <2>23. CASE CompareMarker(c)
    BY <1>1, <2>2, <2>3, <2>5, <2>23 DEF CompareMarker, files, Call
  <2>24. CASE \E p \in Packs : GetFrom(c, p)
    BY <1>1, <2>2, <2>3, <2>24 DEF GetFrom, files, Call
  <2>25. CASE \E p \in Packs : FindIn(c, p)
    BY <1>1, <2>2, <2>3, <2>5, <2>25 DEF FindIn, files, Call
  <2> QED BY <1>3, <2>6, <2>7, <2>8, <2>9, <2>10, <2>11, <2>12, <2>13, <2>15,
             <2>16, <2>17, <2>18, <2>19, <2>20, <2>21, <2>22, <2>23, <2>24,
             <2>25 DEF Work, Fault
<1> QED BY <1>2, <1>3 DEF Next, Edit, vars

\* The steps that touch the releases or the activations.
LEMMA RegistrySteps ==
  ASSUME [Next]_vars
  PROVE  \/ UNCHANGED <<releases, activations>>
         \/ \E c \in Clients :
              \/ InsertRelease(c) \/ Heal(c) \/ Condemn(c) \/ ActivateExact(c)
              \/ \E p \in Packs, s \in Scopes : Deactivate(c, p, s)
<1>1. CASE UNCHANGED vars BY <1>1 DEF vars
<1>2. CASE \E p \in Packs, s \in Edits : Edit(p, s) BY <1>2 DEF Edit, registry
<1>3. ASSUME NEW c \in Clients, Request(c)
      PROVE  \/ UNCHANGED <<releases, activations>>
             \/ \E p \in Packs, s \in Scopes : Deactivate(c, p, s)
  BY <1>3 DEF Request, Install, Verify, Activate, Link, Read, Start, registry
<1>4. ASSUME NEW c \in Clients, Fault(c) PROVE UNCHANGED <<releases, activations>>
  BY <1>4 DEF Fault, MkdtempFails, CopyFails, Crash, registry
<1>5. ASSUME NEW c \in Clients, Work(c)
      PROVE  \/ UNCHANGED <<releases, activations>>
             \/ InsertRelease(c) \/ Heal(c) \/ Condemn(c) \/ ActivateExact(c)
  BY <1>5 DEF Work, Look, AcquireLock, Publish, Unlock, ReadRow, CheckFiles,
     ReplacePins, ReplaceMarker, ListActive, ReadMarker, CompareMarker, Answer,
     GetFrom, FindIn, registry
<1> QED BY <1>1, <1>2, <1>3, <1>4, <1>5 DEF Next

\* What is active stays healthy.
LEMMA ActiveStep ==
  ASSUME HomeInv, [Next]_vars
  PROVE  ActiveHealthy'
<1> USE DEF HomeInv, ActiveHealthy, At
<1>1. /\ releases \in [Packs -> Healths \cup {NULL}]
      /\ activations \in [Scopes \X Workspaces -> Packs \cup {NULL}]
      /\ "OK" # NULL
  BY HomeAssumption DEF HomeTypeOK
<1>2. CASE UNCHANGED <<releases, activations>> BY <1>2
<1>3. ASSUME NEW c \in Clients, InsertRelease(c) \/ Heal(c) PROVE ActiveHealthy'
  <2>1. \A p \in Packs : releases[p] = "OK" => releases'[p] = "OK"
    BY <1>1, <1>3 DEF InsertRelease, Heal
  <2>2. activations' = activations BY <1>3 DEF InsertRelease, Heal
  <2>3. \A s \in Scopes, w \in Workspaces : activations[s, w] \in Packs \cup {NULL}
    BY <1>1
  <2> QED BY <2>1, <2>2, <2>3
<1>4. ASSUME NEW c \in Clients, Condemn(c) PROVE ActiveHealthy'
  <2>1. calls[c].pack \in Packs
    BY <1>4 DEF HomeTypeOK, Carries, Condemn, PackSteps
  <2>2. \A p \in Packs : p # calls[c].pack => releases'[p] = releases[p]
    BY <1>1, <1>4 DEF Condemn
  <2>3. ASSUME NEW s \in Scopes, NEW w \in Workspaces, activations'[s, w] # NULL
        PROVE  /\ releases'[activations'[s, w]] = "OK"
               /\ WorkspaceOf[activations'[s, w]] = w
    <3>1. <<s, w>> \in DOMAIN activations BY <1>1
    <3>2. activations[s, w] # calls[c].pack /\ activations'[s, w] = activations[s, w]
      BY <1>4, <2>3, <3>1 DEF Condemn
    <3>3. activations[s, w] \in Packs BY <1>1, <2>3, <3>2
    <3> QED BY <2>2, <2>3, <3>2, <3>3
  <2> QED BY <2>3
<1>5. ASSUME NEW c \in Clients, ActivateExact(c) PROVE ActiveHealthy'
  <2> DEFINE p == calls[c].pack
             k == <<calls[c].scope, WorkspaceOf[p]>>
  <2>1. p \in Packs /\ calls[c].scope \in Scopes
    BY <1>5 DEF HomeTypeOK, Carries, ActivateExact, PackSteps
  <2>2. k \in Scopes \X Workspaces BY <2>1 DEF Workspaces
  <2>3. CASE releases[p] = "OK"
    <3>1. ASSUME NEW s \in Scopes, NEW w \in Workspaces, activations'[s, w] # NULL
          PROVE  /\ releases[activations'[s, w]] = "OK"
                 /\ WorkspaceOf[activations'[s, w]] = w
      <4>1. CASE <<s, w>> = k
        <5>1. activations'[s, w] = p BY <1>1, <1>5, <2>2, <2>3, <4>1 DEF ActivateExact
        <5>2. w = WorkspaceOf[p] BY <4>1
        <5> QED BY <2>3, <5>1, <5>2
      <4>2. CASE <<s, w>> # k
        <5>1. activations'[s, w] = activations[s, w]
          BY <1>1, <1>5, <2>3, <4>2 DEF ActivateExact
        <5> QED BY ZenonT(40), <3>1, <5>1
      <4> QED BY <4>1, <4>2
    <3> QED BY ZenonT(40), <1>5, <3>1 DEF ActivateExact
  <2>4. CASE releases[p] # "OK" BY <1>5, <2>4 DEF ActivateExact
  <2> QED BY <2>3, <2>4
<1>6. ASSUME NEW c \in Clients, NEW p \in Packs, NEW t \in Scopes, Deactivate(c, p, t)
      PROVE  ActiveHealthy'
  <2>1. releases' = releases BY <1>6 DEF Deactivate
  <2>2. ASSUME NEW s \in Scopes, NEW w \in Workspaces, activations'[s, w] # NULL
        PROVE  /\ releases[activations'[s, w]] = "OK"
               /\ WorkspaceOf[activations'[s, w]] = w
    <3> DEFINE k == <<t, WorkspaceOf[p]>>
    <3>1. activations' = [activations EXCEPT ![k] = NULL] BY <1>6 DEF Deactivate
    <3>2. <<s, w>> \in DOMAIN activations BY <1>1
    <3>3. CASE <<s, w>> = k
      <4>1. activations'[s, w] = NULL BY <3>1, <3>2, <3>3
      <4> QED BY <2>2, <4>1
    <3>4. CASE <<s, w>> # k
      <4>1. activations'[s, w] = activations[s, w] BY <3>1, <3>2, <3>4
      <4> QED BY ZenonT(40), <2>2, <4>1
    <3> QED BY <3>3, <3>4
  <2> QED BY <2>1, <2>2
<1> QED BY <1>2, <1>3, <1>4, <1>5, <1>6, RegistrySteps

\* A release is registered after its files were published.
LEMMA RegisteredStep ==
  ASSUME HomeInv, [Next]_vars
  PROVE  RegisteredPublished'
<1> USE DEF HomeInv, RegisteredPublished
<1>1. releases \in [Packs -> Healths \cup {NULL}] BY DEF HomeTypeOK
<1>2. \A p \in Packs : disk[p] # "absent" => disk'[p] # "absent"
  BY NothingTakenBack DEF Grows
<1>3. ASSUME NEW p \in Packs, releases'[p] # NULL PROVE disk[p] # "absent"
  <2>1. CASE releases[p] # NULL BY <2>1
  <2>2. CASE releases[p] = NULL
    <3>1. PICK c \in Clients : InsertRelease(c) \/ Heal(c) \/ Condemn(c)
      BY <1>3, <2>2, RegistrySteps DEF ActivateExact, Deactivate
    <3>2. calls[c].pack = p
      BY <1>1, <1>3, <2>2, <3>1 DEF InsertRelease, Heal, Condemn
    <3>3. Seen(calls[c]) BY DEF CallsSeen
    <3> QED BY <2>2, <3>1, <3>2, <3>3 DEF InsertRelease, Heal, Condemn, Seen, At
  <2> QED BY <2>1, <2>2
<1> QED BY <1>2, <1>3

\* What projects and markers pin is registered.
LEMMA PinsStep ==
  ASSUME HomeInv, [Next]_vars
  PROVE  PinsInstalled'
<1> USE DEF HomeInv, PinsInstalled
<1>1. /\ projects \in [Projects -> Pins \cup {NULL}]
      /\ markers \in [Roots -> Marker \cup {NULL}]
  BY DEF HomeTypeOK
<1>2. Grows BY NothingTakenBack
<1>3. CASE UNCHANGED <<projects, markers>>
  <2>1. \A j \in Projects : projects[j] # NULL =>
          \A p \in projects[j] : releases'[p] # NULL
    BY <1>1, <1>2 DEF Grows, Pins
  <2>2. ASSUME NEW r \in Roots, markers[r] # NULL
        PROVE  /\ projects[markers[r].project] # NULL
               /\ \A p \in markers[r].pins : releases'[p] # NULL
    <3>1. markers[r].pins \subseteq Packs BY <1>1, <2>2 DEF Marker, Pins
    <3> QED BY <1>2, <2>2, <3>1 DEF Grows
  <2> QED BY <1>3, <2>1, <2>2
<1>4. ASSUME NEW c \in Clients, ReplacePins(c) PROVE PinsInstalled'
  <2> DEFINE m == calls[c].marker
  <2>1. m \in Marker BY <1>4 DEF HomeTypeOK, Carries, ReplacePins, At
  <2>2. releases' = releases /\ markers' = markers BY <1>4 DEF ReplacePins, files
  <2>3. ASSUME NEW j \in Projects, projects'[j] # NULL
        PROVE  \A p \in projects'[j] : releases[p] # NULL
    BY <1>1, <1>4, <2>1, <2>3, HomeAssumption DEF ReplacePins, Marker
  <2>4. ASSUME NEW r \in Roots, markers[r] # NULL
        PROVE  /\ projects'[markers[r].project] # NULL
               /\ \A p \in markers[r].pins : releases[p] # NULL
    <3>1. markers[r].project \in Projects BY <1>1, <2>4 DEF Marker
    <3> QED BY <1>2, <2>4, <3>1 DEF Grows
  <2> QED BY <2>2, <2>3, <2>4
<1>5. ASSUME NEW c \in Clients, ReplaceMarker(c) PROVE PinsInstalled'
  <2> DEFINE m == calls[c].marker
  <2>1. /\ projects[m.project] # NULL
        /\ \A p \in m.pins : releases[p] # NULL
    BY <1>5 DEF CallsSeen, Seen, ReplaceMarker, At
  <2>2. /\ releases' = releases /\ projects' = projects
        /\ \A r \in Roots : markers'[r] \in {markers[r], m}
    BY <1>1, <1>5 DEF ReplaceMarker, registry
  <2> QED BY <2>1, <2>2
<1>6. \/ UNCHANGED <<projects, markers>>
      \/ \E c \in Clients : ReplacePins(c) \/ ReplaceMarker(c)
  <2>1. CASE UNCHANGED vars BY <2>1 DEF vars
  <2>2. CASE \E p \in Packs, s \in Edits : Edit(p, s) BY <2>2 DEF Edit, registry
  <2>3. ASSUME NEW c \in Clients, Request(c) PROVE UNCHANGED <<projects, markers>>
    BY <2>3 DEF Request, Install, Verify, Activate, Deactivate, Link, Read, Start,
       registry, files
  <2>4. ASSUME NEW c \in Clients, Fault(c) PROVE UNCHANGED <<projects, markers>>
    BY <2>4 DEF Fault, MkdtempFails, CopyFails, Crash, registry, files
  <2>5. ASSUME NEW c \in Clients, Work(c)
        PROVE  \/ UNCHANGED <<projects, markers>>
               \/ ReplacePins(c) \/ ReplaceMarker(c)
    BY <2>5 DEF Work, Look, AcquireLock, Publish, InsertRelease, Unlock, ReadRow,
       CheckFiles, Heal, Condemn, ActivateExact, ListActive, ReadMarker,
       CompareMarker, Answer, GetFrom, FindIn, registry, files
  <2> QED BY <2>1, <2>2, <2>3, <2>4, <2>5 DEF Next
<1> QED BY <1>3, <1>4, <1>5, <1>6

-----------------------------------------------------------------------------
(* The theorems.                                                           *)

\* The invariant holds in every reachable state.
LEMMA HomeInvCorrect == Spec => []HomeInv
<1>1. Init => HomeInv
  <2> SUFFICES ASSUME Init PROVE HomeInv
    OBVIOUS
  <2>1. HomeTypeOK BY IdleType DEF Init, HomeTypeOK
  <2>2. \A c \in Clients : calls[c] = Idle BY DEF Init
  <2>3. HolderWorks /\ InstallsExclusive /\ CallsSeen
    BY <2>2 DEF Idle, HolderWorks, InstallsExclusive, Installing, CallsSeen, Seen
  <2>4. ActiveHealthy
    <3>1. ASSUME NEW s \in Scopes, NEW w \in Workspaces
          PROVE  activations[s, w] = NULL
      <4>1. <<s, w>> \in Scopes \X Workspaces OBVIOUS
      <4> QED BY <4>1 DEF Init
    <3> QED BY <3>1 DEF ActiveHealthy
  <2>5. RegisteredPublished /\ PinsInstalled
    BY DEF Init, RegisteredPublished, PinsInstalled
  <2> QED BY <2>1, <2>3, <2>4, <2>5 DEF HomeInv
<1>2. HomeInv /\ [Next]_vars => HomeInv'
  <2> SUFFICES ASSUME HomeInv, [Next]_vars PROVE HomeInv'
    OBVIOUS
  <2>1. HomeTypeOK' BY TypeStep DEF HomeInv
  <2> QED BY <2>1, LockStep, SeenStep, ActiveStep, RegisteredStep, PinsStep
          DEF HomeInv
<1> QED BY <1>1, <1>2, PTL DEF Spec

\* A Pack is active only while its release is registered as healthy.
THEOREM ActiveHealthyCorrect == Spec => []ActiveHealthy
<1>1. HomeInv => ActiveHealthy BY DEF HomeInv
<1> QED BY <1>1, HomeInvCorrect, PTL

\* Installs of a Pack exclude each other, and their lock file lasts as long as
\* they work.
THEOREM InstallsExclusiveCorrect == Spec => []InstallsExclusive
<1>1. HomeInv => InstallsExclusive BY DEF HomeInv
<1> QED BY <1>1, HomeInvCorrect, PTL

\* A registered release has files.
THEOREM RegisteredPublishedCorrect == Spec => []RegisteredPublished
<1>1. HomeInv => RegisteredPublished BY DEF HomeInv
<1> QED BY <1>1, HomeInvCorrect, PTL

\* Projects and markers pin installed releases.
THEOREM PinsInstalledCorrect == Spec => []PinsInstalled
<1>1. HomeInv => PinsInstalled BY DEF HomeInv
<1> QED BY <1>1, HomeInvCorrect, PTL

\* Nothing in the registry or a marker names what is not there.
THEOREM NothingDanglingCorrect == Spec => []NothingDangling
<1>1. RegisteredPublished /\ PinsInstalled => NothingDangling
  BY DEF NothingDangling
<1> QED BY <1>1, RegisteredPublishedCorrect, PinsInstalledCorrect, PTL

\* No install replaces the files of an installed Pack.
THEOREM NoClobberCorrect == Spec => NoClobber
<1> DEFINE Keeps == \A p \in Packs :
             disk'[p] # disk[p] /\ calls' # calls => disk[p] = "absent"
<1>1. ASSUME HomeTypeOK, [Next]_vars PROVE [Keeps]_vars
  <2> USE <1>1 DEF HomeTypeOK
  <2>1. CASE disk' = disk \/ calls' = calls BY <2>1
  <2>2. CASE \E c \in Clients : Publish(c) BY <2>2 DEF Publish
  <2>3. ASSUME NEW c \in Clients, Request(c) PROVE disk' = disk
    BY <2>3 DEF Request, Install, Verify, Activate, Deactivate, Link, Read, Start, files
  <2>4. ASSUME NEW c \in Clients, Fault(c) PROVE disk' = disk
    BY <2>4 DEF Fault, MkdtempFails, CopyFails, Crash, files
  <2>5. ASSUME NEW c \in Clients, Work(c) PROVE disk' = disk \/ Publish(c)
    BY <2>5 DEF Work, Look, AcquireLock, InsertRelease, Unlock, ReadRow, CheckFiles,
       Heal, Condemn, ActivateExact, ReplacePins, ReplaceMarker, ListActive,
       ReadMarker, CompareMarker, Answer, GetFrom, FindIn, files
  <2> QED BY <2>1, <2>2, <2>3, <2>4, <2>5 DEF Next, Edit, vars
<1> QED BY <1>1, HomeTypeCorrect, PTL DEF Spec, NoClobber
=============================================================================
