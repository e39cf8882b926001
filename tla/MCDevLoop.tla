------------------------------ MODULE MCDevLoop ------------------------------
(***************************************************************************)
(* Instances of the development loop for TLC.                              *)
(***************************************************************************)
EXTENDS DevLoop

CONSTANTS in, out, d1, d2

\* Two rounds, with calls for one and a half or for both.
MCBudgets == {<<2, 4>>, <<2, 5>>}

\* The worktree is clean, or the user had changed all of it; the changed
\* worktree is tried with the smaller budget only.
MCInit ==
  /\ DevLoopInit
  /\ \/ dirty_paths = {}
     \/ dirty_paths = Paths /\ budget = <<2, 4>>

MCFairSpec == MCInit /\ [][DevLoopNext]_vars /\ DevLoopFairness
=============================================================================
