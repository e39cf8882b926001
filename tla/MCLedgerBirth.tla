--------------------------- MODULE MCLedgerBirth ---------------------------
(***************************************************************************)
(* Instances of the ledger's creation and migration for TLC.               *)
(***************************************************************************)
EXTENDS LedgerBirth

CONSTANTS i1, i2, r1, a, b

\* Every version that a release has left behind.
EveryOld == 1..4
=============================================================================
