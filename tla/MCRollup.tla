------------------------------- MODULE MCRollup -------------------------------
(***************************************************************************)
(* Instances of Rollup for TLC: one station with two language channels.    *)
(***************************************************************************)
EXTENDS Rollup, TLC

CONSTANTS p1, p2, station, english, french

TwoChannels == [n \in Node |-> IF n = station THEN NoNode ELSE station]

\* One connector feeds the English channel, or two connectors one channel each.
OneChannel == p1 :> {english}
OneEach    == p1 :> {english} @@ p2 :> {french}
=============================================================================
