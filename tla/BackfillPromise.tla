--------------------------- MODULE BackfillPromise ---------------------------
(***************************************************************************)
(* What a backfill promises the admin who started it, whatever the queue   *)
(* and the workers do: chunks are stored one by one and stay stored; the   *)
(* verdict is written once, and it is "completed" only over a full range.  *)
(***************************************************************************)
CONSTANT Chunk

VARIABLES status, stored

vars == <<status, stored>>

Init == status = "none" /\ stored = {}

Start == status = "none" /\ status' = "running" /\ UNCHANGED stored

Store(c) == status # "none" /\ stored' = stored \cup {c} /\ UNCHANGED status

Complete == /\ status = "running"
            /\ stored = Chunk
            /\ status' = "completed"
            /\ UNCHANGED stored

GiveUp == status = "running" /\ status' = "failed" /\ UNCHANGED stored

Next == Start \/ (\E c \in Chunk : Store(c)) \/ Complete \/ GiveUp

Spec == Init /\ [][Next]_vars

\* ... and the verdict is not put off for ever.
FairSpec == Spec /\ WF_vars(Complete \/ GiveUp)
=============================================================================
