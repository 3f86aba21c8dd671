------------------------------- MODULE MCPull -------------------------------
(***************************************************************************)
(* The scenes of Pull for TLC.                                             *)
(***************************************************************************)
EXTENDS Pull

CONSTANTS a1, a2

\* Fourteen months with a leap day, at midnight and in the afternoon.
Moments == {24 * d + h : d \in UTC(2024, 0, 1) .. UTC(2025, 2, 5), h \in {0, 13}}
SomeDay == 24 * UTC(2024, 2, 1) + 13

\* A scene in which nothing happens; the others differ from it.
Quiet ==
  [source |-> "ga4", now |-> SomeDay, jobs |-> <<>>, attempts |-> 1,
   sealed |-> "v1", shape |-> TRUE, accounts |-> {a1, a2}, foreign |-> {},
   asks |-> {}, tested |-> FALSE, faulty |-> FALSE]

Sources == {"ga4", "cloudflare_analytics"}
Scheduled(g) == <<[granularity |-> g, period |-> NoPeriod]>>

\* Every moment; a scheduled pull of one account in the days around the ends of
\* months, of one source at midnight and of the other in the afternoon.
MomentScenes == {[Quiet EXCEPT !.now = t, !.source = s] : t \in Moments, s \in Sources}
PullScenes ==
  {[Quiet EXCEPT !.now = t, !.jobs = Scheduled(g), !.accounts = {a1},
                 !.source = IF Hours(t) = 0 THEN "ga4" ELSE "cloudflare_analytics"] :
     t \in {m \in Moments : Date(m) \in {1, 2, 28, 29, 30, 31}}, g \in Granularity}

\* A pull that may go wrong: no credentials, a key the ingestion has not got,
\* credentials of the wrong shape, no accounts, an account of another tenant.
FaultScenes ==
  {[Quiet EXCEPT !.jobs = Scheduled("week"), !.source = s, !.attempts = 2, !.faulty = TRUE,
                 !.sealed = k, !.shape = ok, !.accounts = A, !.foreign = F] :
     s \in Sources, k \in {"none", "v1", "v2"}, ok \in BOOLEAN,
     A \in {{}, {a1, a2}}, F \in {{}, {a2}}}

\* A connector that is created, tested and pulled.
ConnectScenes ==
  {[Quiet EXCEPT !.jobs = Scheduled("day"), !.source = s, !.sealed = "not created",
                 !.shape = ok, !.tested = TRUE, !.faulty = TRUE] :
     s \in Sources, ok \in BOOLEAN}

\* A backfill in two chunks, of the second day a part; two workers at it.
Backfilled(A, source, faulty) ==
  [Quiet EXCEPT !.source = source, !.attempts = 3, !.accounts = A, !.faulty = faulty,
                !.jobs = LET cut == Chunks(SomeDay, SomeDay + 35, 1)
                         IN  [i \in DOMAIN cut |-> [granularity |-> "day",
                                                    period |-> cut[i]]]]
BackfillScenes == {Backfilled({a1}, "cloudflare_analytics", TRUE)}

\* Other callers of the rate limiter: who waits as long as it takes and who does
\* not, and who asks for more than the bucket will ever hold.
CallerScenes ==
  {[Quiet EXCEPT !.asks = A] :
     A \in {{[cost |-> 1, patience |-> NoDeadline], [cost |-> 2, patience |-> 2]},
            {[cost |-> 2, patience |-> NoDeadline], [cost |-> 3, patience |-> NoDeadline]}}}

AllScenes == MomentScenes \cup PullScenes \cup FaultScenes \cup ConnectScenes
               \cup BackfillScenes \cup CallerScenes
=============================================================================
