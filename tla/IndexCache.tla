----------------------------- MODULE IndexCache -----------------------------
(***************************************************************************)
(* The search cache of one Pack (src/agiwiki/index.py, as find_memory of   *)
(* src/agiwiki/pack.py uses it).  Readers verify the Pack, derive the rows *)
(* that they expect of it, and compare them with a snapshot of the cache   *)
(* file; a cache that is missing is built and linked into place, and one   *)
(* that does not match is rebuilt and replaced.  Nothing locks the file.   *)
(*                                                                         *)
(* One Entry stands for the Pack's content: it is what its manifest        *)
(* authenticates, or an edit of it.  A cache file is known by an identity, *)
(* which a write in place changes as a replacement does (_same_file        *)
(* compares inode, size and time), and by the rows in it.                  *)
(***************************************************************************)
EXTENDS Naturals, FiniteSets

CONSTANTS
  Readers,     \* processes that search the Pack
  Ids,         \* identities of cache files
  NULL,
  MaxEdits,    \* bound: edits of the Pack's files by their owner
  MaxTampers   \* bound: deletions and overwritings of the cache

Contents == {"good", "edited", "other"}

\* Calls of verify_index and of the indexed find_memory, by where they are
\* made: the first attempt of a search, ensure_index's check of a cache that
\* exists, build_index's replay, its lost race, and the search proper.
Checks == {"try", "cached", "replay", "winner", "find"}
Creations == {"build", "rebuild"}

ASSUME CacheAssumption ==
  /\ IsFiniteSet(Readers) /\ IsFiniteSet(Ids)
  /\ Cardinality(Ids) > Cardinality(Readers) + 1
  /\ MaxEdits \in Nat /\ MaxTampers \in Nat
  /\ NULL \notin Contents \cup {"PackError", "IndexError"} \cup Checks \cup Creations

File == [id : Ids, rows : Contents]

Phases == {"idle", "look", "ensure", "pack", "target", "load", "hash",
           "populate", "open", "close", "publish", "chmod"}

Call == [task : Checks \cup Creations \cup {NULL}, at : Phases,
         loaded : {"good", "edited", NULL},  \* the Entry as it was read
         file : File \cup {NULL}]            \* the snapshot, or the new file
Idle == [task |-> NULL, at |-> "idle", loaded |-> NULL, file |-> NULL]

VARIABLES
  pack,      \* the Pack's content
  index,     \* the cache file or NULL
  call,      \* per reader, where it is
  reply,     \* per reader, the rows it was answered from, an error or NULL
  touched,   \* per reader, the Pack was edited during its search (history)
  edits, tampers

vars == <<pack, index, call, reply, touched, edits, tampers>>

\* Files are held only between their creation or opening and their end.
IndexTypeOK ==
  /\ pack \in {"good", "edited"}
  /\ index \in File \cup {NULL}
  /\ call \in [Readers -> Call]
  /\ reply \in [Readers -> Contents \cup {"PackError", "IndexError", NULL}]
  /\ touched \in [Readers -> BOOLEAN]
  /\ edits \in 0..MaxEdits /\ tampers \in 0..MaxTampers
  /\ \A r \in Readers :
       LET k == call[r] IN
       /\ k.at \in {"idle", "look", "ensure"} <=> k.task = NULL
       /\ k.task \in Checks => (k.file # NULL <=> k.at = "close")
       /\ k.at \in {"hash", "populate", "open", "close", "publish"} => k.loaded # NULL
       /\ k.at = "publish" => k.file # NULL /\ k.file.rows = k.loaded

Init ==
  /\ pack = "good"
  /\ index = NULL
  /\ call = [r \in Readers |-> Idle]
  /\ reply = [r \in Readers |-> NULL]
  /\ touched = [r \in Readers |-> FALSE]
  /\ edits = 0 /\ tampers = 0

-----------------------------------------------------------------------------

At(r, at) == call[r].at = at
Goto(r, at) == call' = [call EXCEPT ![r].at = at] /\ UNCHANGED reply

\* A task starts with the verification of the Pack.
Begin(r, task) ==
  /\ call' = [call EXCEPT ![r] = [Idle EXCEPT !.task = task, !.at = "pack"]]
  /\ UNCHANGED reply

End(r, result) ==
  /\ call' = [call EXCEPT ![r] = Idle]
  /\ reply' = [reply EXCEPT ![r] = result]

\* Mutant: ensure_index passes the error of its check on.
RaiseAlways(r, error) ==
  IF call[r].task = "try"
  THEN call' = [call EXCEPT ![r] = [Idle EXCEPT !.at = "ensure"]] /\ UNCHANGED reply
  ELSE End(r, error)

\* An error: the first attempt of a search is followed by ensure_index,
\* whose failed check is followed by a rebuild; every other error is the
\* caller's.
Raise(r, error) ==
  CASE call[r].task = "try" ->
         call' = [call EXCEPT ![r] = [Idle EXCEPT !.at = "ensure"]] /\ UNCHANGED reply
    [] call[r].task = "cached" -> Begin(r, "rebuild")
    [] OTHER -> End(r, error)

\* An identity that no file has.
Fresh ==
  CHOOSE i \in Ids :
    /\ index # NULL => i # index.id
    /\ \A r \in Readers : call[r].file # NULL => i # call[r].file.id

-----------------------------------------------------------------------------
(* One search.                                                             *)

Ask(r) ==
  /\ At(r, "idle")
  /\ call' = [call EXCEPT ![r].at = "look"]
  /\ reply' = [reply EXCEPT ![r] = NULL]
  /\ touched' = [touched EXCEPT ![r] = FALSE]
  /\ UNCHANGED <<pack, index, edits, tampers>>

\* Mutant: every search goes through ensure_index.
LookEnsure(r) ==
  /\ At(r, "look")
  /\ Goto(r, "ensure")
  /\ UNCHANGED <<pack, index, touched, edits, tampers>>

Look(r) ==
  /\ At(r, "look")
  /\ \/ index # NULL /\ Begin(r, "try")
     \/ index = NULL /\ Goto(r, "ensure")
  /\ UNCHANGED <<pack, index, touched, edits, tampers>>

Ensure(r) ==
  /\ At(r, "ensure")
  /\ \/ index = NULL /\ Begin(r, "build")
     \/ index # NULL /\ Begin(r, "cached")
  /\ UNCHANGED <<pack, index, touched, edits, tampers>>

\* Mutant: rebuild_index wraps every error in its own.
VerifyPackWrapped(r) ==
  /\ At(r, "pack")
  /\ \/ /\ pack = "good"
        /\ Goto(r, IF call[r].task = "build" /\ call[r].file = NULL THEN "target" ELSE "load")
     \/ pack # "good" /\ Raise(r, IF call[r].task = "rebuild" THEN "IndexError" ELSE "PackError")
  /\ UNCHANGED <<pack, index, touched, edits, tampers>>

\* verify_pack.  In the check of a file that was just created its error is
\* wrapped.
VerifyPack(r) ==
  /\ At(r, "pack")
  /\ \/ /\ pack = "good"
        /\ Goto(r, IF call[r].task = "build" /\ call[r].file = NULL THEN "target" ELSE "load")
     \/ pack # "good" /\ Raise(r, IF call[r].file = NULL THEN "PackError" ELSE "IndexError")
  /\ UNCHANGED <<pack, index, touched, edits, tampers>>

\* build_index looks for the target again.
Target(r) ==
  /\ At(r, "target")
  /\ \/ index = NULL /\ Goto(r, "load")
     \/ index # NULL /\ Begin(r, "replay")
  /\ UNCHANGED <<pack, index, touched, edits, tampers>>

\* iter_entries loads an Entry, and then hashes its file.
Load(r) ==
  /\ At(r, "load")
  /\ call' = [call EXCEPT ![r].loaded = pack, ![r].at = "hash"]
  /\ UNCHANGED <<pack, index, reply, touched, edits, tampers>>

Hash(r) ==
  /\ At(r, "hash")
  /\ LET k == call[r] IN
     \/ pack # "good" /\ Raise(r, IF k.task \in Creations THEN "IndexError" ELSE "PackError")
     \/ pack = "good" /\ k.task \in Checks /\ Goto(r, "open")
     \/ pack = "good" /\ k.task \in Creations /\ k.file = NULL /\ Goto(r, "populate")
     \/ pack = "good" /\ k.task \in Creations /\ k.file # NULL
        /\ IF k.file.rows = k.loaded THEN Goto(r, "publish") ELSE Raise(r, "IndexError")
  /\ UNCHANGED <<pack, index, touched, edits, tampers>>

\* The new file is checked as an existing one would be, in private.
Populate(r) ==
  /\ At(r, "populate")
  /\ call' = [call EXCEPT ![r].file = [id |-> Fresh, rows |-> call[r].loaded],
                          ![r].at = "pack"]
  /\ UNCHANGED <<pack, index, reply, touched, edits, tampers>>

\* _database_snapshot opens and copies the cache, and then requires the path
\* to name the same, unchanged file; the copy is compared with the Pack.
Open(r) ==
  /\ At(r, "open")
  /\ \/ index = NULL /\ Raise(r, "IndexError")
     \/ /\ index # NULL
        /\ call' = [call EXCEPT ![r].file = index, ![r].at = "close"]
        /\ UNCHANGED reply
  /\ UNCHANGED <<pack, index, touched, edits, tampers>>

\* A check in ensure_index is followed by the search.
Matched(r) ==
  LET k == call[r] IN
  IF k.task \in {"try", "find"} THEN End(r, k.file.rows) ELSE Begin(r, "find")

\* Mutant: the rows are not compared.
CloseUnread(r) ==
  /\ At(r, "close")
  /\ IF index = call[r].file THEN Matched(r) ELSE Raise(r, "IndexError")
  /\ UNCHANGED <<pack, index, touched, edits, tampers>>

Close(r) ==
  /\ At(r, "close")
  /\ IF index = call[r].file /\ call[r].file.rows = call[r].loaded
     THEN Matched(r)
     ELSE Raise(r, "IndexError")
  /\ UNCHANGED <<pack, index, touched, edits, tampers>>

\* Mutant: the replaced file stays with its creator.
PublishKept(r) ==
  /\ At(r, "publish")
  /\ \/ /\ call[r].task = "build" /\ index # NULL
        /\ call' = [call EXCEPT ![r].task = "winner", ![r].at = "pack"]
        /\ UNCHANGED <<index, reply>>
     \/ /\ call[r].task = "rebuild" \/ index = NULL
        /\ index' = call[r].file
        /\ Goto(r, "chmod")
  /\ UNCHANGED <<pack, touched, edits, tampers>>

\* build_index links its file unless the path exists; rebuild_index replaces
\* what is there.
Publish(r) ==
  /\ At(r, "publish")
  /\ \/ /\ call[r].task = "build" /\ index # NULL
        /\ Begin(r, "winner")
        /\ UNCHANGED index
     \/ /\ call[r].task = "rebuild" \/ index = NULL
        /\ index' = call[r].file
        /\ Goto(r, "chmod")
  /\ UNCHANGED <<pack, touched, edits, tampers>>

\* Its permissions are set by name, and the name may be gone.
Chmod(r) ==
  /\ At(r, "chmod")
  /\ \/ index # NULL /\ Begin(r, "find")
     \/ index = NULL /\ Raise(r, "IndexError")
  /\ UNCHANGED <<pack, index, touched, edits, tampers>>

-----------------------------------------------------------------------------
(* The owner of the files.                                                 *)

Edit ==
  /\ edits < MaxEdits
  /\ edits' = edits + 1
  /\ pack' = IF pack = "good" THEN "edited" ELSE "good"
  /\ touched' = [r \in Readers |-> TRUE]
  /\ UNCHANGED <<index, call, reply, tampers>>

Tamper ==
  /\ tampers < MaxTampers
  /\ tampers' = tampers + 1
  /\ index' \in {NULL, [id |-> Fresh, rows |-> "other"]}
  /\ UNCHANGED <<pack, call, reply, touched, edits>>

Work(r) ==
  \/ Look(r) \/ Ensure(r) \/ VerifyPack(r) \/ Target(r) \/ Load(r) \/ Hash(r)
  \/ Populate(r) \/ Open(r) \/ Close(r) \/ Publish(r) \/ Chmod(r)

Next == (\E r \in Readers : Ask(r) \/ Work(r)) \/ Edit \/ Tamper

Spec == Init /\ [][Next]_vars

\* A reader that has asked goes on.
FairSpec == Spec /\ \A r \in Readers : WF_vars(Work(r))

-----------------------------------------------------------------------------
(* Properties.                                                             *)

\* A search during which nobody edits the Pack is answered from the rows that
\* its manifest authenticates, whatever the cache holds: rows that others
\* derived from a Pack edited and restored, or that were written into it.
AnswerSound ==
  \A r \in Readers : reply[r] \in {"edited", "other"} => touched[r]

\* When the Pack stays as it was published and the cache is no longer
\* tampered with, a reader that keeps searching is answered from that Pack: a
\* bad cache is rebuilt, and the rebuilding of others does not keep a reader from reading.
ReadersAnswered ==
  \A r \in Readers :
    <>[](pack = "good") /\ []<>At(r, "look") => []<>(reply[r] = "good")

\* Then two readers also stop rebuilding: one of them would have to find the
\* cache replaced in its attempt and again in ensure_index's check, and the
\* other replaces it at most once in between.
CacheSettles ==
  <>[](pack = "good") => <>[][\A r \in Readers : ~ Publish(r)]_vars

\* When the Pack stays damaged, its readers are told that it is the Pack, by
\* the error upon which the runtime quarantines it, and not the cache.
DamageReported ==
  \A r \in Readers :
    <>[](pack = "edited") /\ []<>At(r, "look") => <>[](reply[r] \in {"PackError", NULL})

=============================================================================
