---------------------------- MODULE MemoryPromise ----------------------------
(***************************************************************************)
(* What the ledger promises, with no table, clock or retry in sight.  A    *)
(* lineage is unborn, then has one current record, then may be forgotten   *)
(* for good.  Every operation id takes effect at most once, and every new  *)
(* current record has an id that was never used before.                    *)
(***************************************************************************)
CONSTANTS Lineages, MemIds, OpIds, Contents, Unborn, Forgotten

VARIABLES
  current,  \* per lineage, its current record, Unborn or Forgotten
  used,     \* the memory ids that have ever named a record
  spent     \* the operation ids that have taken effect

promiseVars == <<current, used, spent>>

PromiseInit ==
  /\ current = [l \in Lineages |-> Unborn]
  /\ used = {}
  /\ spent = {}

\* Some operation that was not used before takes effect.
Spend == \E o \in OpIds \ spent : spent' = spent \cup {o}

\* Lineage l gets a current record under an id that was not used before.
Put(l) ==
  \E id \in MemIds \ used :
    /\ used' = used \cup {id}
    /\ \E content \in Contents :
         current' = [current EXCEPT ![l] = [id |-> id, content |-> content]]

Learn(l) ==
  /\ Spend
  /\ current[l] = Unborn
  /\ Put(l)

Revise(l) ==
  /\ Spend
  /\ current[l] \notin {Unborn, Forgotten}
  /\ Put(l)

Erase(l) ==
  /\ Spend
  /\ current[l] # Unborn
  /\ current' = [current EXCEPT ![l] = Forgotten]
  /\ UNCHANGED used

PromiseNext == \E l \in Lineages : Learn(l) \/ Revise(l) \/ Erase(l)

PromiseSpec == PromiseInit /\ [][PromiseNext]_promiseVars

=============================================================================
