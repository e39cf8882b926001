-------------------------- MODULE IndexCacheProofs --------------------------
(***************************************************************************)
(* Proofs that, for any number of readers, edits and damaged caches, a     *)
(* search is answered from rows that the reader itself derived from the    *)
(* Pack, which nobody had edited unless it was edited during the search.   *)
(***************************************************************************)
EXTENDS IndexCache, FiniteSetTheorems, TLAPS

Replies == Contents \cup {"PackError", "IndexError", NULL}

\* IndexTypeOK's last conjunct, of one call.
Holding(k) ==
  /\ k.at \in {"idle", "look", "ensure"} <=> k.task = NULL
  /\ k.task \in Checks => (k.file # NULL <=> k.at = "close")
  /\ k.at \in {"hash", "populate", "open", "close", "publish"} => k.loaded # NULL
  /\ k.at = "publish" => k.file # NULL /\ k.file.rows = k.loaded

\* Which tasks come to which steps.
Placed(k) ==
  /\ k.at = "target" => k.task = "build"
  /\ k.at \in {"populate", "publish"} => k.task \in Creations
  /\ k.at \in {"open", "close"} => k.task \in Checks

\* What a reader with call k and reply e knows of the content c, unless the
\* Pack was edited during its search: between its reading and its hashing it
\* holds what is there, and past its hashing what the manifest authenticates.
Knows(k, e, c) ==
  /\ k.at = "hash" => k.loaded = c
  /\ k.at \in {"open", "close"} => k.loaded = "good"
  /\ e \notin {"edited", "other"}

IndexInv ==
  /\ IndexTypeOK
  /\ \A r \in Readers :
       /\ Placed(call[r])
       /\ ~touched[r] => Knows(call[r], reply[r], pack)

-----------------------------------------------------------------------------

\* There is always an unused identity, since a reader holds one file at most.
LEMMA FreshType == IndexTypeOK => Fresh \in Ids
<1> SUFFICES ASSUME IndexTypeOK PROVE Fresh \in Ids
  OBVIOUS
<1> USE CacheAssumption
<1> DEFINE f == [r \in Readers |-> call[r].file.id]
           T == {f[r] : r \in Readers}
           U == T \cup {index.id}
<1>1. f \in Surjection(Readers, T)
  BY DEF Surjection
<1>2. IsFiniteSet(T) /\ Cardinality(T) <= Cardinality(Readers)
  BY <1>1, FS_Surjection
<1>3. IsFiniteSet(U) /\ Cardinality(U) <= Cardinality(T) + 1
  <2>1. Cardinality(T) \in Nat BY <1>2, FS_CardinalityType
  <2>2. /\ IsFiniteSet(U)
        /\ Cardinality(U) = IF index.id \in T THEN Cardinality(T)
                                              ELSE Cardinality(T) + 1
    BY <1>2, FS_AddElement
  <2> QED BY <2>1, <2>2
<1>4. /\ Cardinality(T) \in Nat /\ Cardinality(U) \in Nat
      /\ Cardinality(Readers) \in Nat /\ Cardinality(Ids) \in Nat
  BY <1>2, <1>3, FS_CardinalityType
<1>5. ~(Ids \subseteq U)
  <2> SUFFICES ASSUME Ids \subseteq U PROVE FALSE
    OBVIOUS
  <2>1. Cardinality(Ids) <= Cardinality(U) BY <1>3, FS_Subset
  <2> HIDE DEF T, U
  <2> QED BY <2>1, <1>2, <1>3, <1>4
<1>6. PICK i \in Ids : i \notin U
  BY <1>5
<1>7. /\ index # NULL => i # index.id
      /\ \A r \in Readers : call[r].file # NULL => i # call[r].file.id
  BY <1>6
<1> HIDE DEF f, T, U
<1> QED BY <1>6, <1>7 DEF Fresh

\* NULL is none of the strings.
LEMMA NotNull ==
  NULL \notin Contents \cup {"PackError", "IndexError"} \cup Checks \cup Creations
BY CacheAssumption

\* A step of one reader keeps the invariant when its own part of it holds.
LEMMA MoveKeeps ==
  ASSUME IndexInv, NEW r \in Readers, NEW k \in Call, NEW e \in Replies,
         call' = [call EXCEPT ![r] = k],
         reply' = [reply EXCEPT ![r] = e],
         index' \in File \cup {NULL},
         UNCHANGED <<pack, touched, edits, tampers>>,
         Holding(k), Placed(k),
         ~touched[r] => Knows(k, e, pack)
  PROVE  IndexInv'
<1> USE DEF IndexInv
<1>1. call' \in [Readers -> Call] /\ reply' \in [Readers -> Replies]
  BY DEF IndexTypeOK, Replies
<1>2. \A q \in Readers :
        /\ call'[q] = IF q = r THEN k ELSE call[q]
        /\ reply'[q] = IF q = r THEN e ELSE reply[q]
  BY DEF IndexTypeOK
<1>3. \A q \in Readers : Holding(call[q])
  BY DEF IndexTypeOK, Holding
<1>4. \A q \in Readers : Holding(call'[q])
  BY <1>2, <1>3
<1>5. IndexTypeOK'
  BY <1>1, <1>4 DEF IndexTypeOK, Holding, Replies
<1>6. \A q \in Readers : Placed(call'[q])
  BY <1>2
<1>7. \A q \in Readers : ~touched[q] => Knows(call'[q], reply'[q], pack)
  BY <1>2
<1> QED BY <1>5, <1>6, <1>7

\* A reader that goes on, knowing what its next step presumes.
LEMMA GotoKeeps ==
  ASSUME IndexInv, NEW r \in Readers, NEW at \in Phases, Goto(r, at),
         UNCHANGED <<pack, index, touched, edits, tampers>>,
         Holding([call[r] EXCEPT !.at = at]), Placed([call[r] EXCEPT !.at = at]),
         ~touched[r] => Knows([call[r] EXCEPT !.at = at], reply[r], pack)
  PROVE  IndexInv'
<1> DEFINE k == [call[r] EXCEPT !.at = at]
<1>1. call[r] \in Call /\ reply[r] \in Replies /\ index \in File \cup {NULL}
  BY DEF IndexInv, IndexTypeOK, Replies
<1>2. k \in Call BY <1>1 DEF Call
<1>3. call' = [call EXCEPT ![r] = k] BY DEF Goto
<1>4. reply' = [reply EXCEPT ![r] = reply[r]] BY DEF Goto, IndexInv, IndexTypeOK
<1>5. index' \in File \cup {NULL} BY <1>1
<1> HIDE DEF k
<1>6. Holding(k) /\ Placed(k) /\ (~touched[r] => Knows(k, reply[r], pack)) BY DEF k
<1> QED BY <1>1, <1>2, <1>3, <1>4, <1>5, <1>6, MoveKeeps

\* A reader that begins a task knows nothing yet.
LEMMA BeginKeeps ==
  ASSUME IndexInv, NEW r \in Readers, NEW task \in Checks \cup Creations,
         Begin(r, task), index' \in File \cup {NULL},
         UNCHANGED <<pack, touched, edits, tampers>>
  PROVE  IndexInv'
<1> DEFINE k == [Idle EXCEPT !.task = task, !.at = "pack"]
<1>1. /\ k \in Call /\ k.task = task /\ k.at = "pack" /\ k.loaded = NULL
      /\ k.file = NULL
  BY DEF Idle, Call, Phases
<1>2. call' = [call EXCEPT ![r] = k] BY DEF Begin
<1>3. reply' = [reply EXCEPT ![r] = reply[r]] /\ reply[r] \in Replies
  BY DEF Begin, IndexInv, IndexTypeOK, Replies
<1> HIDE DEF k
<1>4. task # NULL
  BY NotNull
<1>5. Holding(k) /\ Placed(k) BY <1>1, <1>4 DEF Holding, Placed
<1>6. ~touched[r] => Knows(k, reply[r], pack)
  BY <1>1 DEF IndexInv, Knows
<1> QED BY <1>1, <1>2, <1>3, <1>5, <1>6, MoveKeeps

\* A reader without a task.
LEMMA IdleCall ==
  /\ Idle \in Call /\ Idle.at = "idle" /\ Idle.task = NULL
  /\ Idle.loaded = NULL /\ Idle.file = NULL
BY DEF Idle, Call, Phases

\* A search that ends is answered rightly, or an edit touched it.
LEMMA EndKeeps ==
  ASSUME IndexInv, NEW r \in Readers, NEW e \in Replies, End(r, e),
         index' \in File \cup {NULL}, UNCHANGED <<pack, touched, edits, tampers>>,
         ~touched[r] => e \notin {"edited", "other"}
  PROVE  IndexInv'
<1>1. call' = [call EXCEPT ![r] = Idle] /\ reply' = [reply EXCEPT ![r] = e]
  BY DEF End
<1>2. Holding(Idle) /\ Placed(Idle) BY IdleCall, NotNull DEF Holding, Placed
<1>3. ~touched[r] => Knows(Idle, e, pack) BY IdleCall DEF Knows
<1> QED BY <1>1, <1>2, <1>3, IdleCall, MoveKeeps

\* An error leads to the next attempt, or to the caller.
LEMMA RaiseKeeps ==
  ASSUME IndexInv, NEW r \in Readers, NEW e \in {"PackError", "IndexError"},
         Raise(r, e), UNCHANGED <<pack, index, touched, edits, tampers>>
  PROVE  IndexInv'
<1>1. index' \in File \cup {NULL} BY DEF IndexInv, IndexTypeOK
<1>2. CASE call[r].task = "try"
  <2> DEFINE k == [Idle EXCEPT !.at = "ensure"]
  <2>1. /\ k \in Call /\ k.at = "ensure" /\ k.task = NULL
        /\ k.loaded = NULL /\ k.file = NULL
    BY DEF Idle, Call, Phases
  <2>2. call' = [call EXCEPT ![r] = k] BY <1>2 DEF Raise
  <2>3. reply' = [reply EXCEPT ![r] = reply[r]] /\ reply[r] \in Replies
    BY <1>2 DEF Raise, IndexInv, IndexTypeOK, Replies
  <2> HIDE DEF k
  <2>4. Holding(k) /\ Placed(k) BY <2>1, NotNull DEF Holding, Placed
  <2>5. ~touched[r] => Knows(k, reply[r], pack) BY <2>1 DEF IndexInv, Knows
  <2> QED BY <1>1, <2>1, <2>2, <2>3, <2>4, <2>5, MoveKeeps
<1>3. CASE call[r].task = "cached"
  <2>1. Begin(r, "rebuild") BY <1>3 DEF Raise
  <2>2. "rebuild" \in Checks \cup Creations BY DEF Creations
  <2> QED BY <2>1, <2>2, <1>1, BeginKeeps
<1>4. CASE call[r].task \notin {"try", "cached"}
  <2>1. End(r, e) BY <1>4 DEF Raise
  <2>2. e \in Replies /\ e \notin {"edited", "other"} BY DEF Replies
  <2> QED BY <2>1, <2>2, <1>1, EndKeeps
<1> QED BY <1>2, <1>3, <1>4

\* The facts of a reader's own call.
LEMMA OwnCall ==
  ASSUME IndexInv, NEW r \in Readers
  PROVE  /\ call[r] \in Call
         /\ Holding(call[r]) /\ Placed(call[r])
         /\ ~touched[r] => Knows(call[r], reply[r], pack)
         /\ reply[r] \in Replies
         /\ index \in File \cup {NULL}
         /\ pack \in {"good", "edited"}
BY DEF IndexInv, IndexTypeOK, Holding, Replies

-----------------------------------------------------------------------------
(* The steps of a search.                                                  *)

\* A search begins: edits from now on touch it.
LEMMA AskKeeps == ASSUME IndexInv, NEW r \in Readers, Ask(r) PROVE IndexInv'
<1> DEFINE k == [call[r] EXCEPT !.at = "look"]
<1>0. call[r] \in Call /\ Holding(call[r]) BY OwnCall
<1>1. k \in Call BY <1>0 DEF Call, Phases
<1>2. k.at = "look" /\ k.task = NULL BY <1>0 DEF Ask, At, Holding, Call
<1>3. /\ call' = [call EXCEPT ![r] = k]
      /\ reply' = [reply EXCEPT ![r] = NULL]
      /\ touched' = [touched EXCEPT ![r] = FALSE]
      /\ UNCHANGED <<pack, index, edits, tampers>>
  BY DEF Ask
<1> HIDE DEF k
<1>4. Holding(k) /\ Placed(k) BY <1>2, NotNull DEF Holding, Placed
<1>5. Knows(k, NULL, pack) BY <1>2, NotNull DEF Knows, Contents
<1> USE DEF IndexInv
<1>6. \A q \in Readers :
        /\ call'[q] = IF q = r THEN k ELSE call[q]
        /\ reply'[q] = IF q = r THEN NULL ELSE reply[q]
        /\ touched'[q] = IF q = r THEN FALSE ELSE touched[q]
  BY <1>3 DEF IndexTypeOK
<1>7. \A q \in Readers : Holding(call'[q])
  BY <1>4, <1>6, ZenonT(40) DEF IndexTypeOK, Holding
<1>8. /\ call' \in [Readers -> Call]
      /\ reply' \in [Readers -> Contents \cup {"PackError", "IndexError", NULL}]
      /\ touched' \in [Readers -> BOOLEAN]
  BY <1>1, <1>3 DEF IndexTypeOK
<1>9. IndexTypeOK' BY <1>3, <1>7, <1>8 DEF IndexTypeOK, Holding
<1>10. \A q \in Readers :
         /\ Placed(call'[q])
         /\ ~touched'[q] => Knows(call'[q], reply'[q], pack')
  BY <1>3, <1>4, <1>5, <1>6
<1> QED BY <1>9, <1>10

\* find_memory looks whether there is a cache.
LEMMA LookKeeps == ASSUME IndexInv, NEW r \in Readers, Look(r) PROVE IndexInv'
<1> DEFINE k == [call[r] EXCEPT !.at = "ensure"]
<1>1. CASE Begin(r, "try")
  <2>1. "try" \in Checks \cup Creations BY DEF Checks
  <2> QED BY <1>1, <2>1, OwnCall, BeginKeeps DEF Look
<1>2. CASE Goto(r, "ensure")
  <2>1. /\ call[r] \in Call /\ Holding(call[r])
        /\ ~touched[r] => Knows(call[r], reply[r], pack)
    BY OwnCall
  <2>2. k.at = "ensure" /\ k.task = NULL
    BY <2>1 DEF Look, At, Holding, Call
  <2> HIDE DEF k
  <2>3. Holding(k) /\ Placed(k) BY <2>2, NotNull DEF Holding, Placed
  <2>4. ~touched[r] => Knows(k, reply[r], pack) BY <2>1, <2>2 DEF Knows
  <2>5. "ensure" \in Phases BY DEF Phases
  <2> QED BY <1>2, <2>3, <2>4, <2>5, GotoKeeps DEF Look, k
<1> QED BY <1>1, <1>2 DEF Look

\* ensure_index looks again.
LEMMA EnsureKeeps == ASSUME IndexInv, NEW r \in Readers, Ensure(r) PROVE IndexInv'
<1>1. {"build", "cached"} \subseteq Checks \cup Creations BY DEF Checks, Creations
<1>2. index' \in File \cup {NULL} BY OwnCall DEF Ensure
<1> QED BY <1>1, <1>2, BeginKeeps DEF Ensure

\* The Pack verifies: it is good at this moment.
LEMMA VerifyPackKeeps ==
  ASSUME IndexInv, NEW r \in Readers, VerifyPack(r) PROVE IndexInv'
<1>1. /\ call[r] \in Call /\ Holding(call[r]) /\ Placed(call[r])
      /\ ~touched[r] => Knows(call[r], reply[r], pack)
      /\ call[r].at = "pack"
  BY OwnCall DEF VerifyPack, At
<1>2. CASE pack = "good"
  <2>1. PICK at \in {"target", "load"} :
          Goto(r, at) /\ (at = "target" => call[r].task = "build")
    BY <1>2 DEF VerifyPack
  <2> DEFINE k == [call[r] EXCEPT !.at = at]
  <2>2. k.at = at /\ k.task = call[r].task /\ k.file = call[r].file
    BY <1>1 DEF Call
  <2> HIDE DEF k
  <2>3. Holding(k) BY <1>1, <2>1, <2>2 DEF Holding
  <2>4. Placed(k) BY <2>1, <2>2 DEF Placed
  <2>5. ~touched[r] => Knows(k, reply[r], pack) BY <1>1, <2>2 DEF Knows
  <2>6. at \in Phases BY DEF Phases
  <2> QED BY <2>1, <2>3, <2>4, <2>5, <2>6, GotoKeeps DEF VerifyPack, k
<1>3. CASE pack # "good"
  BY <1>3, RaiseKeeps DEF VerifyPack
<1> QED BY <1>2, <1>3

\* The target of a build is looked at.
LEMMA TargetKeeps == ASSUME IndexInv, NEW r \in Readers, Target(r) PROVE IndexInv'
<1> DEFINE k == [call[r] EXCEPT !.at = "load"]
<1>1. CASE Begin(r, "replay")
  <2>1. "replay" \in Checks \cup Creations BY DEF Checks
  <2> QED BY <1>1, <2>1, OwnCall, BeginKeeps DEF Target
<1>2. CASE Goto(r, "load")
  <2>1. /\ call[r] \in Call /\ Holding(call[r])
        /\ call[r].at = "target"
        /\ ~touched[r] => Knows(call[r], reply[r], pack)
    BY OwnCall DEF Target, At
  <2>2. k.at = "load" /\ k.task = call[r].task /\ k.file = call[r].file
    BY <2>1 DEF Call
  <2> HIDE DEF k
  <2>3. Holding(k) BY <2>1, <2>2 DEF Holding
  <2>4. Placed(k) BY <2>2 DEF Placed
  <2>5. ~touched[r] => Knows(k, reply[r], pack) BY <2>1, <2>2 DEF Knows
  <2>6. "load" \in Phases BY DEF Phases
  <2> QED BY <1>2, <2>3, <2>4, <2>5, <2>6, GotoKeeps DEF Target, k
<1> QED BY <1>1, <1>2 DEF Target

\* An Entry is loaded.
LEMMA LoadKeeps == ASSUME IndexInv, NEW r \in Readers, Load(r) PROVE IndexInv'
<1> DEFINE k == [call[r] EXCEPT !.loaded = pack, !.at = "hash"]
<1>1. /\ call[r] \in Call /\ Holding(call[r]) /\ call[r].at = "load"
      /\ ~touched[r] => Knows(call[r], reply[r], pack)
      /\ reply[r] \in Replies /\ index \in File \cup {NULL}
      /\ pack \in {"good", "edited"}
  BY OwnCall DEF Load, At
<1>2. k \in Call BY <1>1 DEF Call, Phases
<1>3. /\ k.at = "hash" /\ k.loaded = pack /\ k.task = call[r].task
      /\ k.file = call[r].file
  BY <1>1 DEF Call
<1>4. call' = [call EXCEPT ![r] = k] BY DEF Load
<1>5. reply' = [reply EXCEPT ![r] = reply[r]]
  BY DEF Load, IndexInv, IndexTypeOK
<1> HIDE DEF k
<1>6. Holding(k)
  BY <1>1, <1>3, NotNull DEF Holding, Contents
<1>7. Placed(k) BY <1>3 DEF Placed
<1>8. ~touched[r] => Knows(k, reply[r], pack) BY <1>1, <1>3 DEF Knows
<1> QED BY <1>1, <1>2, <1>4, <1>5, <1>6, <1>7, <1>8, MoveKeeps DEF Load

\* Its file is hashed, and has to be the authenticated one.
LEMMA HashKeeps == ASSUME IndexInv, NEW r \in Readers, Hash(r) PROVE IndexInv'
<1>1. /\ call[r] \in Call /\ Holding(call[r]) /\ Placed(call[r])
      /\ ~touched[r] => Knows(call[r], reply[r], pack)
      /\ call[r].at = "hash"
      /\ UNCHANGED <<pack, index, touched, edits, tampers>>
  BY OwnCall DEF Hash, At
<1>2. CASE \E e \in {"PackError", "IndexError"} : Raise(r, e)
  BY <1>1, <1>2, RaiseKeeps
<1>3. ASSUME NEW at \in {"open", "populate", "publish"},
             pack = "good", Goto(r, at),
             at = "open" => call[r].task \in Checks,
             at \in {"populate", "publish"} => call[r].task \in Creations,
             at = "publish" => call[r].file # NULL /\ call[r].file.rows = call[r].loaded
      PROVE  IndexInv'
  <2> DEFINE k == [call[r] EXCEPT !.at = at]
  <2>1. /\ k.at = at /\ k.task = call[r].task /\ k.file = call[r].file
        /\ k.loaded = call[r].loaded
    BY <1>1 DEF Call
  <2> HIDE DEF k
  <2>2. Checks \cap Creations = {} BY DEF Checks, Creations
  <2>3. Holding(k) BY <1>1, <1>3, <2>1, <2>2 DEF Holding
  <2>4. Placed(k) BY <1>3, <2>1 DEF Placed
  <2>5. ~touched[r] => Knows(k, reply[r], pack) BY <1>1, <1>3, <2>1 DEF Knows
  <2>6. at \in Phases BY DEF Phases
  <2> QED BY <1>1, <1>3, <2>3, <2>4, <2>5, <2>6, GotoKeeps DEF k
<1>4. CASE pack # "good" BY <1>2, <1>4 DEF Hash
<1>5. CASE pack = "good" /\ call[r].task \in Checks /\ Goto(r, "open")
  BY <1>3, <1>5
<1>6. CASE pack = "good" /\ call[r].task \in Creations /\ Goto(r, "populate")
  BY <1>3, <1>6
<1>7. CASE /\ pack = "good" /\ call[r].task \in Creations /\ call[r].file # NULL
           /\ IF call[r].file.rows = call[r].loaded
              THEN Goto(r, "publish") ELSE Raise(r, "IndexError")
  BY <1>2, <1>3, <1>7
<1> QED BY <1>4, <1>5, <1>6, <1>7 DEF Hash

\* The rows are written to a new file.
LEMMA PopulateKeeps ==
  ASSUME IndexInv, NEW r \in Readers, Populate(r) PROVE IndexInv'
<1> DEFINE file == [id |-> Fresh, rows |-> call[r].loaded]
           k == [call[r] EXCEPT !.file = file, !.at = "pack"]
<1>1. /\ call[r] \in Call /\ Holding(call[r]) /\ Placed(call[r])
      /\ call[r].at = "populate"
      /\ ~touched[r] => Knows(call[r], reply[r], pack)
      /\ reply[r] \in Replies /\ index \in File \cup {NULL}
  BY OwnCall DEF Populate, At
<1>2. call[r].task \in Creations /\ call[r].loaded \in {"good", "edited"}
  BY <1>1 DEF Holding, Placed, Call
<1>3. Fresh \in Ids BY FreshType DEF IndexInv
<1>4. file \in File BY <1>2, <1>3 DEF File, Contents
<1> HIDE DEF file
<1>5. k \in Call BY <1>1, <1>4 DEF Call, Phases
<1>6. k.at = "pack" /\ k.task = call[r].task /\ k.loaded = call[r].loaded
  BY <1>1 DEF Call
<1>7. call' = [call EXCEPT ![r] = k] BY DEF Populate, file
<1>8. reply' = [reply EXCEPT ![r] = reply[r]]
  BY DEF Populate, IndexInv, IndexTypeOK
<1> HIDE DEF k
<1>9. Checks \cap Creations = {} /\ NULL \notin Creations
  BY NotNull DEF Checks, Creations
<1>10. Holding(k) BY <1>2, <1>6, <1>9 DEF Holding
<1>11. Placed(k) BY <1>6 DEF Placed
<1>12. ~touched[r] => Knows(k, reply[r], pack) BY <1>1, <1>6 DEF Knows
<1> QED BY <1>1, <1>5, <1>7, <1>8, <1>10, <1>11, <1>12, MoveKeeps DEF Populate

\* A snapshot of the cache is compared with the derived rows.
LEMMA OpenKeeps == ASSUME IndexInv, NEW r \in Readers, Open(r) PROVE IndexInv'
<1>1. /\ call[r] \in Call /\ Holding(call[r]) /\ Placed(call[r])
      /\ call[r].at = "open"
      /\ ~touched[r] => Knows(call[r], reply[r], pack)
      /\ reply[r] \in Replies /\ index \in File \cup {NULL}
      /\ UNCHANGED <<pack, index, touched, edits, tampers>>
  BY OwnCall DEF Open, At
<1>2. CASE index = NULL
  BY <1>1, <1>2, RaiseKeeps DEF Open
<1>3. CASE index # NULL
  <2> DEFINE k == [call[r] EXCEPT !.file = index, !.at = "close"]
  <2>1. k \in Call BY <1>1 DEF Call, Phases
  <2>2. /\ k.at = "close" /\ k.task = call[r].task /\ k.file = index
        /\ k.loaded = call[r].loaded
    BY <1>1 DEF Call
  <2>3. call' = [call EXCEPT ![r] = k] BY <1>3 DEF Open
  <2>4. reply' = [reply EXCEPT ![r] = reply[r]]
    BY <1>3 DEF Open, IndexInv, IndexTypeOK
  <2> HIDE DEF k
  <2>5. Holding(k) BY <1>1, <1>3, <2>2 DEF Holding
  <2>6. Placed(k) BY <1>1, <2>2 DEF Placed
  <2>7. ~touched[r] => Knows(k, reply[r], pack) BY <1>1, <2>2 DEF Knows
  <2> QED BY <1>1, <2>1, <2>3, <2>4, <2>5, <2>6, <2>7, MoveKeeps
<1> QED BY <1>2, <1>3

\* The one step that answers: with rows that equal the reader's own.
LEMMA CloseKeeps == ASSUME IndexInv, NEW r \in Readers, Close(r) PROVE IndexInv'
<1>1. /\ call[r] \in Call /\ Holding(call[r]) /\ Placed(call[r])
      /\ call[r].at = "close"
      /\ ~touched[r] => Knows(call[r], reply[r], pack)
      /\ index \in File \cup {NULL}
      /\ UNCHANGED <<pack, index, touched, edits, tampers>>
  BY OwnCall DEF Close, At
<1>2. CASE index = call[r].file /\ call[r].file.rows = call[r].loaded
  <2>1. call[r].file.rows \in Replies
    BY <1>1, <1>2 DEF Holding, Placed, Call, File, Replies
  <2>2. ~touched[r] => call[r].file.rows = "good"
    BY <1>1, <1>2 DEF Knows
  <2>3. CASE End(r, call[r].file.rows)
    BY <1>1, <2>1, <2>2, <2>3, EndKeeps
  <2>4. CASE Begin(r, "find")
    <3>1. "find" \in Checks \cup Creations BY DEF Checks
    <3> QED BY <1>1, <2>4, <3>1, BeginKeeps
  <2> QED BY <1>2, <2>3, <2>4 DEF Close, Matched
<1>3. CASE ~(index = call[r].file /\ call[r].file.rows = call[r].loaded)
  BY <1>1, <1>3, RaiseKeeps DEF Close
<1> QED BY <1>2, <1>3

\* The new file is linked or put in the place of the old one.
LEMMA PublishKeeps == ASSUME IndexInv, NEW r \in Readers, Publish(r) PROVE IndexInv'
<1>1. /\ call[r] \in Call /\ Holding(call[r]) /\ Placed(call[r])
      /\ ~touched[r] => Knows(call[r], reply[r], pack)
      /\ call[r].at = "publish" /\ reply[r] \in Replies
  BY OwnCall DEF Publish, At
<1>2. index' \in File \cup {NULL}
  <2>1. call[r] \in Call /\ index \in File \cup {NULL} BY OwnCall
  <2> QED BY <2>1 DEF Publish, Call, Goto
<1>3. CASE Begin(r, "winner")
  <2>1. "winner" \in Checks \cup Creations BY DEF Checks
  <2> QED BY <1>2, <1>3, <2>1, BeginKeeps DEF Publish
<1>4. CASE Goto(r, "chmod")
  <2> DEFINE k == [call[r] EXCEPT !.at = "chmod"]
  <2>1. k \in Call BY <1>1 DEF Call, Phases
  <2>2. /\ k.at = "chmod" /\ k.task = call[r].task /\ k.file = call[r].file
        /\ k.task \in Creations
    BY <1>1 DEF Call, Placed
  <2>3. call' = [call EXCEPT ![r] = k] BY <1>4 DEF Goto
  <2>4. reply' = [reply EXCEPT ![r] = reply[r]]
    BY <1>4 DEF Goto, IndexInv, IndexTypeOK
  <2>5. Checks \cap Creations = {} /\ NULL \notin Creations
    BY NotNull DEF Checks, Creations
  <2> HIDE DEF k
  <2>6. Holding(k) BY <2>2, <2>5 DEF Holding
  <2>7. Placed(k) BY <2>2 DEF Placed
  <2>8. ~touched[r] => Knows(k, reply[r], pack) BY <1>1, <2>2 DEF Knows
  <2> QED BY <1>1, <1>2, <2>1, <2>3, <2>4, <2>6, <2>7, <2>8, MoveKeeps DEF Publish
<1> QED BY <1>3, <1>4 DEF Publish

\* The search follows, or the error of a file that is gone.
LEMMA ChmodKeeps == ASSUME IndexInv, NEW r \in Readers, Chmod(r) PROVE IndexInv'
<1>1. "find" \in Checks \cup Creations BY DEF Checks
<1>2. index \in File \cup {NULL} BY OwnCall
<1> QED BY <1>1, <1>2, BeginKeeps, RaiseKeeps DEF Chmod

-----------------------------------------------------------------------------
(* The owner of the files, and the theorems.                               *)

\* An edit touches every search under way.
LEMMA EditKeeps == ASSUME IndexInv, Edit PROVE IndexInv'
<1> USE DEF IndexInv
<1>1. edits' \in 0..MaxEdits
  BY CacheAssumption DEF Edit, IndexTypeOK
<1>2. \A q \in Readers : touched'[q]
  BY DEF Edit
<1>3. IndexTypeOK' BY <1>1 DEF Edit, IndexTypeOK
<1> QED BY <1>2, <1>3 DEF Edit

\* The cache is deleted or overwritten: no reader relies on it.
LEMMA TamperKeeps == ASSUME IndexInv, Tamper PROVE IndexInv'
<1> USE DEF IndexInv
<1>1. tampers' \in 0..MaxTampers
  BY CacheAssumption DEF Tamper, IndexTypeOK
<1>2. Fresh \in Ids BY FreshType
<1>3. index' \in File \cup {NULL} BY <1>2 DEF Tamper, File, Contents
<1>4. IndexTypeOK' BY <1>1, <1>3 DEF Tamper, IndexTypeOK
<1> QED BY <1>4 DEF Tamper

\* A step that changes nothing.
LEMMA StutterKeeps == ASSUME IndexInv, UNCHANGED vars PROVE IndexInv'
<1> USE DEF IndexInv, vars
<1>1. IndexTypeOK' BY DEF IndexTypeOK
<1> QED BY <1>1

\* No cache, and no search.
LEMMA InitEstablishes == Init => IndexInv
<1> SUFFICES ASSUME Init PROVE IndexInv
  OBVIOUS
<1> USE DEF Init
<1>1. \A r \in Readers : Holding(call[r]) /\ Placed(call[r])
  BY IdleCall, NotNull DEF Holding, Placed
<1>2. IndexTypeOK
  BY <1>1, IdleCall, CacheAssumption DEF IndexTypeOK, Holding
<1>3. \A r \in Readers : Knows(call[r], reply[r], pack)
  BY IdleCall, NotNull DEF Knows, Contents
<1> QED BY <1>1, <1>2, <1>3 DEF IndexInv

\* Every step keeps the invariant.
LEMMA StepKeeps == IndexInv /\ [Next]_vars => IndexInv'
<1> SUFFICES ASSUME IndexInv, [Next]_vars PROVE IndexInv'
  OBVIOUS
<1>1. ASSUME NEW r \in Readers, Ask(r) \/ Work(r) PROVE IndexInv'
  BY <1>1, AskKeeps, LookKeeps, EnsureKeeps, VerifyPackKeeps, TargetKeeps, LoadKeeps,
     HashKeeps, PopulateKeeps, OpenKeeps, CloseKeeps, PublishKeeps, ChmodKeeps DEF Work
<1> QED BY <1>1, EditKeeps, TamperKeeps, StutterKeeps DEF Next

\* The invariant holds in every behaviour.
LEMMA IndexInvCorrect == Spec => []IndexInv
BY InitEstablishes, StepKeeps, PTL DEF Spec

\* Type correctness: a call holds a file and an Entry at the steps that use
\* them, and what is published equals what its creator derived.
THEOREM IndexTypeCorrect == Spec => []IndexTypeOK
<1>1. IndexInv => IndexTypeOK BY DEF IndexInv
<1> QED BY <1>1, IndexInvCorrect, PTL

\* A search is answered with the rows that the Pack's manifest authenticates,
\* unless somebody edits the Pack while it lasts, whatever other readers
\* publish and whoever writes into the cache.
THEOREM AnswerSoundCorrect == Spec => []AnswerSound
<1>1. IndexInv => AnswerSound BY DEF IndexInv, AnswerSound, Knows
<1> QED BY <1>1, IndexInvCorrect, PTL

=============================================================================
