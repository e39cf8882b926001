-------------------- MODULE AdaptiveLedgerRefinementProofs --------------------
(***************************************************************************)
(* The ledger implements MemoryPromise, for any values of the constants.   *)
(***************************************************************************)
EXTENDS AdaptiveLedgerRefinement, AdaptiveLedgerProofs

\* What each lineage shows: nothing, its only active record, or a tombstone.
Shows(l) ==
  /\ (\A n \in Stored : memories[n].lineage # l) => CurrentRecord(l) = Unborn
  /\ \A h \in Stored :
       memories[h].lineage = l /\ memories[h].status = "active" =>
         CurrentRecord(l) = [id |-> h, content |-> memories[h].content]
  /\ /\ \E n \in Stored : memories[n].lineage = l
     /\ \A n \in Stored : memories[n].lineage = l => memories[n].status # "active"
     => CurrentRecord(l) = Forgotten

\* Every lineage has such an appearance.
LEMMA EachShows == IInv => \A l \in MemIds : Shows(l)
<1> SUFFICES ASSUME OneHead, NEW l \in MemIds
             PROVE  Shows(l)
  BY DEF IInv, MemoryInv
<1>1. \A n : n \in Lineage(l) <=> n \in Stored /\ memories[n].lineage = l
  BY DEF Lineage, Revisions
<1>2. ASSUME \A n \in Stored : memories[n].lineage # l
      PROVE  CurrentRecord(l) = Unborn
  BY <1>1, <1>2 DEF CurrentRecord
<1>3. ASSUME NEW h \in Stored, memories[h].lineage = l, memories[h].status = "active"
      PROVE  CurrentRecord(l) = [id |-> h, content |-> memories[h].content]
  <2>1. h \in Lineage(l)
    BY <1>1, <1>3
  <2>2. \A n \in Lineage(l) : memories[n].status = "active" => n = h
    BY <1>1, <1>3 DEF OneHead
  <2>3. HeadOf(l) = h
    BY <1>3, <2>1, <2>2 DEF HeadOf
  <2> QED
    BY <1>3, <2>1, <2>3 DEF CurrentRecord
<1>4. ASSUME NEW n \in Stored, memories[n].lineage = l,
             \A k \in Stored : memories[k].lineage = l => memories[k].status # "active"
      PROVE  CurrentRecord(l) = Forgotten
  BY <1>1, <1>4 DEF CurrentRecord
<1> QED
  BY <1>2, <1>3, <1>4 DEF Shows

\* The same of the next state.
LEMMA EachShowsNext == IInv' => \A l \in MemIds : Shows(l)'
<1>1. IInv' => (\A l \in MemIds : Shows(l))'
  BY EachShows, PTL
<1> QED
  BY <1>1

\* A lineage whose records do not change shows what it showed.
LEMMA ShownFrame ==
  ASSUME IInv, IInv', NEW l \in MemIds,
         \A n \in Stored : n \in Stored' /\ memories'[n].lineage = memories[n].lineage,
         \A n \in Stored : memories[n].lineage = l => memories'[n] = memories[n],
         \A n \in Stored' : memories'[n].lineage = l => n \in Stored
  PROVE  CurrentRecord(l)' = CurrentRecord(l)
<1>1. Shows(l) /\ Shows(l)'
  BY EachShows, EachShowsNext
<1>2. CASE \A n \in Stored : memories[n].lineage # l
  BY <1>1, <1>2 DEF Shows
<1>3. CASE \E h \in Stored : memories[h].lineage = l /\ memories[h].status = "active"
  BY <1>1, <1>3 DEF Shows
<1>4. CASE /\ \E n \in Stored : memories[n].lineage = l
           /\ \A n \in Stored : memories[n].lineage = l => memories[n].status # "active"
  BY <1>1, <1>4 DEF Shows
<1> QED
  BY <1>2, <1>3, <1>4

\* The state that the promise sees.
PromiseState == [l \in MemIds |-> CurrentRecord(l)]

\* If only lineage l changes what it shows, the promise sees just that.
LEMMA ShownExcept ==
  ASSUME NEW l \in MemIds, NEW value,
         CurrentRecord(l)' = value,
         \A k \in MemIds \ {l} : CurrentRecord(k)' = CurrentRecord(k)
  PROVE  PromiseState' = [PromiseState EXCEPT ![l] = value]
BY DEF PromiseState

\* A record of a lineage is neither of the two other things it may show.
LEMMA RecordShown ==
  ASSUME NEW id \in MemIds, NEW content \in Contents
  PROVE  [id |-> id, content |-> content] \notin {Unborn, Forgotten}
BY PromiseAssumption

\* An empty ledger promises nothing yet.
LEMMA PromiseStart == Init => Promise!PromiseInit
<1> SUFFICES ASSUME Init PROVE Promise!PromiseInit
  OBVIOUS
<1>1. Stored = {} /\ Bound = {}
  BY DEF Init, Stored, Bound
<1>2. \A l \in MemIds : Lineage(l) = {}
  BY <1>1 DEF Lineage, Revisions
<1> QED
  BY <1>1, <1>2 DEF Promise!PromiseInit, CurrentRecord

\* Every step of the ledger is a step of the promise or changes nothing in it.
LEMMA PromiseStep ==
  ASSUME IInv, IInv', [Next]_vars
  PROVE  [Promise!PromiseNext]_(Promise!promiseVars)
<1> USE DEF IInv
<1> DEFINE Kept0 == /\ PromiseState' = PromiseState
                    /\ Stored' = Stored /\ Bound' = Bound
<1>1. Kept0 => UNCHANGED Promise!promiseVars
  BY DEF Promise!promiseVars, PromiseState
<1>2. ASSUME UNCHANGED <<memories, operations>> PROVE Kept0
  <2>1. Stored' = Stored /\ Bound' = Bound
    BY <1>2 DEF Stored, Bound
  <2>2. \A l \in MemIds : CurrentRecord(l)' = CurrentRecord(l)
    BY <1>2, <2>1, ShownFrame
  <2> QED
    BY <2>1, <2>2 DEF PromiseState
<1>3. ASSUME NEW c \in Clients, Remember(c)
      PROVE  Promise!PromiseNext
  <2>1. PICK m \in Unused, o \in OpIds :
          /\ Binds(o, "remember", m, m)
          /\ Stored' = Stored \cup {m}
          /\ \A n \in Stored : memories'[n] = memories[n]
          /\ memories'[m].lineage = m /\ memories'[m].status = "active"
          /\ memories'[m].content \in Contents
    BY <1>3, RememberStep
  <2>2. /\ m \in MemIds \ Stored /\ \A n \in Stored : memories[n].lineage # m
        /\ o \in OpIds \ Bound /\ Bound' = Bound \cup {o}
    BY <2>1 DEF Unused, MemoryInv, Rooted, Binds
  <2>3. CurrentRecord(m) = Unborn
    BY <2>2, EachShows DEF Shows
  <2>4. CurrentRecord(m)' = [id |-> m, content |-> memories'[m].content]
    BY <2>1, <2>2, EachShowsNext DEF Shows
  <2>5. \A l \in MemIds \ {m} : CurrentRecord(l)' = CurrentRecord(l)
    BY <2>1, <2>2, ShownFrame
  <2>6. PromiseState' =
          [PromiseState EXCEPT ![m] = [id |-> m, content |-> memories'[m].content]]
    BY <2>2, <2>4, <2>5, ShownExcept
  <2>7. Promise!Learn(m)
    BY <2>1, <2>2, <2>3, <2>6
       DEF Promise!Learn, Promise!Spend, Promise!Put, PromiseState
  <2> QED
    BY <2>2, <2>7 DEF Promise!PromiseNext
<1>4. ASSUME NEW c \in Clients, Correct(c)
      PROVE  Promise!PromiseNext
  <2>1. PICK t \in Stored, m \in Unused, o \in OpIds :
          /\ Binds(o, "correct", m, memories[t].lineage)
          /\ Stored' = Stored \cup {m}
          /\ \A n \in Stored \ {t} : memories'[n] = memories[n]
          /\ memories[t].status = "active"
          /\ \E now \in Nat : memories'[t] = Superseded(memories[t], now)
          /\ memories'[m].lineage = memories[t].lineage
          /\ memories'[m].status = "active"
          /\ memories[t].content \in Contents /\ memories'[m].content \in Contents
    BY <1>4, CorrectStep
  <2>2. PICK l \in MemIds : l = memories[t].lineage
    BY StoredType DEF Record
  <2>3. /\ m \in MemIds \ Stored /\ t \in MemIds /\ memories'[t].lineage = l
        /\ o \in OpIds \ Bound /\ Bound' = Bound \cup {o}
    BY <2>1, <2>2, StoredType DEF Unused, Binds, Superseded, Record
  <2>4. CurrentRecord(l) = [id |-> t, content |-> memories[t].content]
    BY <2>1, <2>2, EachShows DEF Shows
  <2>5. CurrentRecord(l) \notin {Unborn, Forgotten}
    BY <2>1, <2>3, <2>4, RecordShown
  <2>6. CurrentRecord(l)' = [id |-> m, content |-> memories'[m].content]
    BY <2>1, <2>2, EachShowsNext DEF Shows
  <2>7. \A k \in MemIds \ {l} : CurrentRecord(k)' = CurrentRecord(k)
    BY <2>1, <2>2, <2>3, ShownFrame
  <2>8. PromiseState' =
          [PromiseState EXCEPT ![l] = [id |-> m, content |-> memories'[m].content]]
    BY <2>6, <2>7, ShownExcept
  <2>9. Promise!Revise(l)
    BY <2>1, <2>3, <2>5, <2>8
       DEF Promise!Revise, Promise!Spend, Promise!Put, PromiseState
  <2> QED
    BY <2>9 DEF Promise!PromiseNext
<1>5. ASSUME NEW c \in Clients, Forget(c)
      PROVE  Promise!PromiseNext
  <2>1. PICK t \in Stored, o \in OpIds \ Bound :
          /\ Scrubs({memories[t].lineage})
          /\ Bound' = Bound \cup {o}
          /\ \A n \in Stored :
               /\ memories[n].lineage = memories[t].lineage
               /\ memories[n].status # "deleted"
               => memories[n].content \in Contents
    BY <1>5, ForgetStep
  <2>2. PICK l \in MemIds : l = memories[t].lineage
    BY StoredType DEF Record
  <2>3. CurrentRecord(l) # Unborn
    <3>1. CASE \A n \in Stored : memories[n].lineage = l => memories[n].status # "active"
      BY <2>2, <3>1, EachShows, PromiseAssumption DEF Shows
    <3>2. CASE \E n \in Stored : memories[n].lineage = l /\ memories[n].status = "active"
      <4>1. PICK n \in Stored : memories[n].lineage = l /\ memories[n].status = "active"
        BY <3>2
      <4>2. CurrentRecord(l) = [id |-> n, content |-> memories[n].content]
        BY <2>2, <4>1, EachShows DEF Shows
      <4>3. n \in MemIds /\ memories[n].content \in Contents
        BY <2>1, <2>2, <4>1, StoredType
      <4> QED
        BY <4>2, <4>3, RecordShown
    <3> QED
      BY <3>1, <3>2
  <2>4. /\ Stored' = Stored
        /\ \A n \in Stored :
             /\ memories'[n].lineage = memories[n].lineage
             /\ memories[n].lineage = l => memories'[n].status = "deleted"
             /\ memories[n].lineage # l => memories'[n] = memories[n]
    BY <2>1, <2>2 DEF Scrubs
  <2>5. CurrentRecord(l)' = Forgotten
    BY <2>2, <2>4, EachShowsNext DEF Shows
  <2>6. \A k \in MemIds \ {l} : CurrentRecord(k)' = CurrentRecord(k)
    BY <2>4, ShownFrame
  <2>7. PromiseState' = [PromiseState EXCEPT ![l] = Forgotten]
    BY <2>5, <2>6, ShownExcept
  <2>8. Promise!Erase(l)
    BY <2>1, <2>2, <2>3, <2>4, <2>7 DEF Promise!Erase, Promise!Spend, PromiseState
  <2> QED
    BY <2>2, <2>8 DEF Promise!PromiseNext
<1>6. ASSUME NEW c \in Clients, Replay(c)
      PROVE  Kept0
  <2>1. ASSUME NEW o \in Bound, operations[o].type = "forget",
               Scrubs({operations[o].lineage}), Bound' = Bound
        PROVE  Kept0
    <3> DEFINE l == operations[o].lineage
               r == operations[o].result
    <3>1. r \in Stored /\ memories[r].lineage = l /\ memories[r].status = "deleted"
      BY <2>1 DEF OperationInv, ResultsFiled, BindingsFollowContent
    <3>2. \A n \in Stored : memories[n].lineage = l => memories[n].status = "deleted"
      BY <3>1 DEF MemoryInv, AllOrNone
    <3>3. Stored' = Stored /\ \A n \in Stored : memories'[n] = memories[n]
      BY <2>1, <3>2 DEF Scrubs
    <3>4. \A k \in MemIds : CurrentRecord(k)' = CurrentRecord(k)
      BY <3>3, ShownFrame
    <3> QED
      BY <2>1, <3>3, <3>4 DEF PromiseState
  <2> QED
    BY <1>2, <1>6, <2>1, ReplayStep
<1> QED
  BY <1>1, <1>2, <1>3, <1>4, <1>5, <1>6, LedgerSteps

\* The ledger keeps its promise.
THEOREM LedgerKeepsPromise == Spec => KeepsPromise
<1>1. IInv /\ IInv' /\ [Next]_vars => [Promise!PromiseNext]_(Promise!promiseVars)
  BY PromiseStep
<1> QED
  BY <1>1, PromiseStart, Invariance, PTL DEF Spec, KeepsPromise, Promise!PromiseSpec

=============================================================================
