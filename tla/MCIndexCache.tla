---------------------------- MODULE MCIndexCache ----------------------------
(***************************************************************************)
(* An instance of the search cache for TLC.                                *)
(***************************************************************************)
EXTENDS IndexCache

MCIds == 1..(Cardinality(Readers) + 2)

=============================================================================
