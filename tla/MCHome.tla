------------------------------- MODULE MCHome -------------------------------
(***************************************************************************)
(* Instances of the Home for TLC: one Pack, or two of one workspace.       *)
(***************************************************************************)
EXTENDS Home, TLC

CONSTANTS p1, p2, w1

\* Two versions of one workspace, which take each other's place.
OneWorkspace == [p \in Packs |-> w1]

\* Packs of one workspace are interchangeable, and so are processes.
PackSymmetry == Permutations(Clients) \cup Permutations(Packs)
=============================================================================
