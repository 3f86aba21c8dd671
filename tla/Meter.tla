------------------------------- MODULE Meter -------------------------------
(***************************************************************************)
(* What the rate limiter of the ingestion promises its sources: a meter    *)
(* that gains Refill units with each tick of the clock, holds at most Full *)
(* of them, and never lets more be spent than it holds.  It may lose       *)
(* credit, it never invents any.                                           *)
(***************************************************************************)
EXTENDS Naturals

CONSTANTS
  Full,    \* units a full meter holds
  Refill   \* units gained by a tick

VARIABLES clock, level, spent

meter == <<clock, level, spent>>

Init ==
  /\ clock = 0
  /\ level = Full
  /\ spent = 0

\* A tick passes; what does not fit is lost, and so may be the rest.
Elapse ==
  /\ clock' = clock + 1
  /\ level' \in 0..Full
  /\ level' <= level + Refill
  /\ UNCHANGED spent

\* Somebody is granted some of what the meter holds.
Grant ==
  /\ spent' > spent
  /\ level' \in 0..Full
  /\ level' + (spent' - spent) <= level
  /\ UNCHANGED clock

\* Credit may be lost.
Lose ==
  /\ level' \in 0..Full
  /\ level' <= level
  /\ UNCHANGED <<clock, spent>>

Next == Elapse \/ Grant \/ Lose

Spec == Init /\ [][Next]_meter
=============================================================================
