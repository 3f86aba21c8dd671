---------------------------- MODULE MCManualEntry ----------------------------
(***************************************************************************)
(* An instance of ManualEntry for TLC: a station with one channel, the     *)
(* least with two ancestors to lock.                                       *)
(***************************************************************************)
EXTENDS ManualEntry, TLC

CONSTANTS station, english

OneChannel == [n \in Node |-> IF n = station THEN NoNode ELSE station]
=============================================================================
