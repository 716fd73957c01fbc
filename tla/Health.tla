------------------------------- MODULE Health -------------------------------
(***************************************************************************)
(* The readiness probe of health/router.py over the checks that            *)
(* app/health_checks.py registers: they run concurrently, each against a   *)
(* service that comes and goes, and the answer is made of their results    *)
(* when the last one is in.  A check turns the errors of its own client    *)
(* into a result; any other exception is the first to leave the gather and *)
(* with it the route.  One probe is followed at a time.                    *)
(***************************************************************************)
EXTENDS Naturals, FiniteSets

CONSTANTS
    Procs,      \* processes that are probed
    NoProc,     \* no process
    Services,   \* "database" and the others get_health_registry registers
    MaxOutages  \* bound on the outages of services

ASSUME HealthAssumption == NoProc \notin Procs /\ "database" \in Services /\ MaxOutages \in Nat

VARIABLES
    up,         \* the services that can be reached
    outages,    \* how often one went down
    probe,      \* the probe under way: its process, the checks that have not
                \* come back, those that found their service unhealthy, and the
                \* services that could be reached at some time since it began
    answer      \* the status of the last probe, 0 if nobody answered it

health == <<up, outages, probe, answer>>

NoProbe == [process |-> NoProc, pending |-> {}, unhealthy |-> {}, seen |-> {}]

HealthTypeOK ==
    /\ up \subseteq Services /\ outages \in 0..MaxOutages
    /\ probe \in [process : Procs \cup {NoProc}, pending : SUBSET Services,
                  unhealthy : SUBSET Services, seen : SUBSET Services]
    /\ probe.process = NoProc <=> probe.pending = {}
    /\ answer \in {0, 200, 500, 503}

HealthInit ==
    /\ up = Services /\ outages = 0
    /\ probe = NoProbe /\ answer = 0

\* A service stops and comes back.
GoesDown(s) ==
    /\ s \in up /\ outages < MaxOutages
    /\ up' = up \ {s}
    /\ outages' = outages + 1
    /\ UNCHANGED <<probe, answer>>

ComesBack(s) ==
    /\ s \notin up
    /\ up' = up \cup {s}
    /\ probe' = IF probe = NoProbe THEN probe ELSE [probe EXCEPT !.seen = @ \cup {s}]
    /\ UNCHANGED <<outages, answer>>

\* GET /ready: run_all starts every check.
Probe(p) ==
    /\ probe = NoProbe
    /\ probe' = [process |-> p, pending |-> Services, unhealthy |-> {}, seen |-> up]
    /\ UNCHANGED <<up, outages, answer>>

\* Slip: a service that was well is not asked again.
CheckOfLastTime(s) ==
    /\ s \in probe.pending
    /\ LET bad == IF s \in up \/ answer = 200 THEN probe.unhealthy ELSE probe.unhealthy \cup {s} IN
       IF probe.pending = {s}
       THEN probe' = NoProbe /\ answer' = IF bad = {} THEN 200 ELSE 503
       ELSE /\ probe' = [probe EXCEPT !.pending = @ \ {s}, !.unhealthy = bad]
            /\ UNCHANGED answer
    /\ UNCHANGED <<up, outages>>

\* A check comes back, healthy or with the error of its client; the last one
\* of the gather makes the answer.
Check(s) ==
    /\ s \in probe.pending
    /\ LET bad == IF s \in up THEN probe.unhealthy ELSE probe.unhealthy \cup {s} IN
       IF probe.pending = {s}
       THEN probe' = NoProbe /\ answer' = IF bad = {} THEN 200 ELSE 503
       ELSE /\ probe' = [probe EXCEPT !.pending = @ \ {s}, !.unhealthy = bad]
            /\ UNCHANGED answer
    /\ UNCHANGED <<up, outages>>

\* The database check catches SQLAlchemyError alone, and connecting can raise
\* an OSError or the driver's own error.  Nobody waits for the other checks.
Raise ==
    /\ "database" \in probe.pending \ up
    /\ probe' = NoProbe /\ answer' = 500
    /\ UNCHANGED <<up, outages>>

\* The process ends in the middle of the probe.
Unanswered(p) ==
    /\ IF probe.process = p THEN probe' = NoProbe /\ answer' = 0
                            ELSE UNCHANGED <<probe, answer>>
    /\ UNCHANGED <<up, outages>>

=============================================================================
