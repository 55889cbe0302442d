----------------------------- MODULE DemoSlot -----------------------------
(***************************************************************************)
(* What the demo slot answers, and what the checks of a demo release make  *)
(* of an answer: scripts/smoke.py, demo/traffic.py, the event of           *)
(* scripts/evidence.py and the thresholds of scripts/incidents.py.         *)
(*                                                                         *)
(* The slot serves a build, which is a commit with its helper, under the   *)
(* run that its sticky settings name.  Version, schema revision and body   *)
(* shapes are those of every build: only the helper may change.            *)
(***************************************************************************)
EXTENDS Naturals, Migration

CONSTANTS
    NoRun, OurRun   \* the setting DEMO_RUN_ID: absent, or this demo run's

VARIABLE slot       \* slot.sha, slot.helper, slot.run

\* LoggingMiddleware puts the identity on every answer.
Answer(code) == [code |-> code, sha |-> slot.sha, run |-> slot.run]

\* liveness needs no database; health_check (/ready) needs the schema and
\* the runtime role.
Liveness == Answer(200)
Readiness == Answer(IF Usable THEN 200 ELSE 503)

\* ErrorHandlerMiddleware names the exception in the body of a 500.
KeyError == 500
OtherError == 501       \* a 500 with any other exception

\* list_tasks without a filter.
TaskList == Answer(IF Usable THEN 200 ELSE OtherError)

\* list_tasks with filter=broken: refused without the scenario's settings;
\* the regression fails before the database is asked.
BrokenFilter ==
    Answer(IF slot.run = NoRun THEN 403
           ELSE IF slot.helper = "regression" THEN KeyError
           ELSE IF slot.helper = "other" \/ ~Usable THEN OtherError
           ELSE 200)

\* check_identity of /live; check_readiness, and check_identity of /ready,
\* for this commit and our run.
AliveFor(sha) == Liveness = [code |-> 200, sha |-> sha, run |-> OurRun]
ReadyFor(sha) == Readiness = [code |-> 200, sha |-> sha, run |-> OurRun]

\* check_endpoint: the list, and the identity headers of its answer.
EndpointAccepted(answer, sha) == answer = [code |-> 200, sha |-> sha, run |-> OurRun]

\* EvidenceEvent.verify_recovery_claim, of the check in a recovery event.
RecoveryClaim(check, sha) ==
    check.code = 200 /\ check.sha = sha /\ check.run = OurRun

\* Mutant of TrafficAccepted: responses of another build are counted.
TrafficAcceptedFromAny(answer, sha, code) == answer.code = code

\* exercise.request: status, error type and deployment header of a control
\* or a scenario request; the run is checked by the identity requests only.
TrafficAccepted(answer, sha, code) == answer.code = code /\ answer.sha = sha

-----------------------------------------------------------------------------
(* Counts and thresholds.                                                  *)

\* Mutant of ValidRequests: a single request is enough.
ValidRequestsFrom(n) == n \in 1 .. 100

\* validate_config: the number of scenario requests.
ValidRequests(n) == n \in 21 .. 100

\* run_traffic, after n scenario requests that failed as intended: the two
\* control requests are eligible too.
TrafficCounts(n) == [eligible |-> n + 2, failed |-> n]

\* Telemetry.consistent_counts and Incident.validate_observation (http_5xx).
Observable(t) ==
    /\ t.eligible >= 20
    /\ t.failed <= t.eligible
    /\ t.failed * 100 > 5 * t.eligible
=============================================================================
