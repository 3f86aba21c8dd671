------------------------------ MODULE MCBackfill ------------------------------
(***************************************************************************)
(* Instances of Backfill for TLC.                                          *)
(***************************************************************************)
EXTENDS Backfill, TLC

Workers == Permutations(Worker)
=============================================================================
