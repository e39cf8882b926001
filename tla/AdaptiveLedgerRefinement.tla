---------------------- MODULE AdaptiveLedgerRefinement ----------------------
(***************************************************************************)
(* The ledger keeps MemoryPromise: what the tables say of each lineage     *)
(* changes as the promise allows, whatever calls race, die or are retried. *)
(***************************************************************************)
EXTENDS AdaptiveLedger

CONSTANTS Unborn, Forgotten

ASSUME PromiseAssumption ==
  /\ Unborn # Forgotten
  /\ {Unborn, Forgotten} \cap [id : MemIds, content : Contents] = {}

HeadOf(l) == CHOOSE m \in Lineage(l) : memories[m].status = "active"

\* A lineage's current record is its active one, if it has one.
CurrentRecord(l) ==
  IF Lineage(l) = {} THEN Unborn
  ELSE IF \A m \in Lineage(l) : memories[m].status # "active" THEN Forgotten
  ELSE [id |-> HeadOf(l), content |-> memories[HeadOf(l)].content]

Promise ==
  INSTANCE MemoryPromise WITH
    Lineages <- MemIds,
    current  <- [l \in MemIds |-> CurrentRecord(l)],
    used     <- Stored,
    spent    <- Bound

\* Every behaviour of the ledger is one that the promise allows: an operation
\* id never acts twice, a correction moves exactly one lineage to a new record,
\* and a forgotten lineage has no current record ever again.
KeepsPromise == Promise!PromiseSpec

=============================================================================
