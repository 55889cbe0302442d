---------------------------- MODULE DemoRelease ----------------------------
(***************************************************************************)
(* The demo release of .github/workflows/demo.yml with                     *)
(* scripts/demo_release.py: preflight, gates, and the approved job that    *)
(* announces itself on the incident's issue, migrates the demo database,   *)
(* deploys to the demo slot, checks it and records what came out.  It      *)
(* composes the branch, the database, the slot and the issue's ledger.     *)
(*                                                                         *)
(* The workflow's concurrency group admits one attempt at a time.  Steps   *)
(* fail, jobs are killed, and a write whose client gave up may be executed *)
(* later.  Writes of another run's attempt may reach the slot the same     *)
(* way, and an operator may record evidence by hand.                       *)
(***************************************************************************)
EXTENDS DemoBranch, EvidenceLedger, DemoSlot, FiniteSets

CONSTANTS
    Inputs,         \* states and issues that a run is dispatched with
    Requests,       \* scenario requests of the traffic
    OtherSha, OtherRun, \* another demo run
    MaxAttempts, MaxFaults, MaxEnvironment  \* bounds

Attempt == 1 .. MaxAttempts
State == {"regression", "healthy"}

ASSUME DemoAssumption ==
    /\ {"job", "operator"} \subseteq Writer
    /\ Inputs \subseteq [state : State, issue : BOOLEAN]
    /\ Requests \in Nat /\ MaxAttempts \in Nat /\ MaxCommits \in Nat \ {0}
    /\ None \notin Nat /\ OtherSha \notin Nat

VARIABLES
    job,        \* the current, or the latest, attempt
    late,       \* writes that Azure or GitHub may still execute, once each
    artifacts,  \* evidence files of all attempts
    touched,    \* history: attempts that wrote to the database or the slot
    verified,   \* history: attempts whose checks their own build answered
    healed,     \* history: those whose healthy build answered the original endpoint
    issued,     \* history: attempts that belong to an issue
    faults, environment

history == <<touched, verified, healed, issued>>
bounds == <<faults, environment>>
vars == <<branchVars, ledgerVars, db, slot, job, late, artifacts, history, bounds>>

-----------------------------------------------------------------------------
(* One attempt.                                                            *)

NoJob == [pc |-> "none", run |-> 0, attempt |-> 0, target |-> None,
          state |-> "healthy", issue |-> FALSE, sent |-> 0, genuine |-> TRUE]

At(p) == job.pc = p
Goto(p) == job' = [job EXCEPT !.pc = p]
Ended == job.pc \in {"none", "succeeded", "failed", "killed"}
Mine(x) == x.sha = job.target

\* An answer of the slot is used as evidence; genuine remembers whether all
\* of them came from this attempt's build.
Use(p) == job' = [job EXCEPT !.pc = p, !.genuine = @ /\ Mine(slot)]

\* The steps of the deploy job: from its first one on, a failing step is
\* followed by "Record a failed attempt".
Recording == {"announce", "claim-deployment", "claim-recovery", "record-failed"}
Checking == {"ready", "list", "traffic", "recovery-ready", "recovery-list"}
Deploying == Recording \cup Checking
               \cup {"upgrade", "upgrading", "grant", "deploy", "settings"}
Failed == IF job.pc \in Deploying \ {"record-failed"} THEN "record-failed"
                                                       ELSE "failed"

\* Mutant of Event: attempts are counted from zero.
EventFromZero(kind, status) ==
    [kind |-> kind, status |-> status, run |-> job.run, attempt |-> job.attempt - 1,
     sha |-> job.target, at |-> job.attempt]

\* emit_evidence: GITHUB_RUN_ATTEMPT, and the time of the event.
Event(kind, status) ==
    [kind |-> kind, status |-> status, run |-> job.run, attempt |-> job.attempt,
     sha |-> job.target, at |-> job.attempt]

Current ==
    CASE At("announce")         -> Event("deployment", "pending")
      [] At("claim-deployment") -> Event("deployment", "succeeded")
      [] At("claim-recovery")   -> Event("recovery", "succeeded")
      [] OTHER                  -> Event("deployment", "failed")

Recorded ==
    CASE At("announce") -> "upgrade"
      [] At("claim-deployment") /\ job.state = "healthy" -> "claim-recovery"
      [] At("record-failed") -> "failed"
      [] OTHER -> "succeeded"

Init ==
    /\ BranchInit /\ LedgerInit /\ DbInit
    /\ slot = [sha |-> None, helper |-> "healthy", run |-> NoRun]
    /\ job = NoJob
    /\ late = {} /\ artifacts = {}
    /\ touched = {} /\ verified = {} /\ healed = {} /\ issued = {}
    /\ faults = 0 /\ environment = 0

-----------------------------------------------------------------------------
(* Dispatch, preflight and gates.                                          *)

\* The input issue_number decides whether the new attempt belongs to an issue.
Attach == issued' = IF job'.issue THEN issued \cup {job'.attempt} ELSE issued

\* workflow_dispatch, when the concurrency group is free.
Dispatch ==
    /\ Ended /\ job.attempt < MaxAttempts
    /\ \E i \in Inputs :
         job' = [NoJob EXCEPT !.pc = "preflight", !.run = job.attempt + 1,
                              !.attempt = job.attempt + 1, !.state = i.state,
                              !.issue = i.issue]
    /\ Attach
    /\ UNCHANGED <<branchVars, ledgerVars, db, slot, late, artifacts, touched,
                   verified, healed, bounds>>

\* "Re-run failed jobs": the inputs and the resolved commit stay.
Rerun ==
    /\ job.pc \in {"failed", "killed"} /\ job.target # None
    /\ job.attempt < MaxAttempts
    /\ job' = [NoJob EXCEPT !.pc = "gates", !.run = job.run,
                            !.attempt = job.attempt + 1, !.target = job.target,
                            !.state = job.state, !.issue = job.issue]
    /\ Attach
    /\ UNCHANGED <<branchVars, ledgerVars, db, slot, late, artifacts, touched,
                   verified, healed, bounds>>

\* prepare: the branch's head becomes the immutable target.
Preflight ==
    /\ At("preflight")
    /\ job' = IF head = None THEN [job EXCEPT !.pc = "failed"]
              ELSE [job EXCEPT !.pc = "gates", !.target = head]

\* validate_diff, and verify_regression_tests: both positive tests pass on
\* the healthy helper and both fail on the regression.
Gated(c, state) == ~commits[c].protected /\ commits[c].helper = state

Gates == /\ At("gates")
         /\ Goto(IF Gated(job.target, job.state) THEN "approval" ELSE "failed")

\* A reviewer of environment demo decides, or the approval expires.
Approve == /\ At("approval")
           /\ \/ job' = [job EXCEPT !.pc = "announce"]
              \/ Goto("failed")

-----------------------------------------------------------------------------
(* Writes to Azure, in the order of the steps.                             *)

Touch == touched' = touched \cup {job.attempt}

\* Each write of the job as the record that late keeps when it is lost.
\* Mutant of Deployment: the branch is deployed as it is by now.
DeploymentOfHead == [what |-> "deployment", sha |-> head,
                     helper |-> commits[head].helper]

Deployment == [what |-> "deployment", sha |-> job.target,
               helper |-> commits[job.target].helper]
Settings == [what |-> "settings", run |-> OurRun]

Apply(w) == slot' = CASE w.what = "deployment" ->
                           [slot EXCEPT !.sha = w.sha, !.helper = w.helper]
                      [] w.what = "settings" -> [slot EXCEPT !.run = w.run]

Upgrade ==
    \/ /\ At("upgrade") /\ BeginUpgrade(job.attempt)
       /\ Goto("upgrading") /\ Touch
       /\ UNCHANGED slot
    \/ /\ At("upgrade") /\ ~LockFree        \* lock_timeout
       /\ Goto("record-failed")
       /\ UNCHANGED <<db, slot, touched>>
    \/ /\ At("upgrading") /\ CommitUpgrade(job.attempt)
       /\ Goto("grant")
       /\ UNCHANGED <<slot, touched>>
    \/ /\ At("grant") /\ GrantRuntime
       /\ Goto("deploy")
       /\ UNCHANGED <<slot, touched>>

Deploy == /\ At("deploy") /\ Apply(Deployment)
          /\ Goto("settings")
          /\ UNCHANGED <<db, touched>>

BindScenario == /\ At("settings") /\ Apply(Settings)
                /\ Goto("ready")
                /\ UNCHANGED <<db, touched>>

Write == /\ Upgrade \/ Deploy \/ BindScenario
         /\ UNCHANGED <<branchVars, ledgerVars, late, artifacts, verified,
                        healed, issued, bounds>>

-----------------------------------------------------------------------------
(* Checks: each action is one request to the slot.  The CRUD check between *)
(* readiness and listing is SmokeCrud's; here it may only fail.            *)

\* wait_ready: repeated until it passes or the attempts are used up.
Ready == /\ At("ready") /\ ReadyFor(job.target)
         /\ Use("list")
RecoveryReady == /\ At("recovery-ready") /\ ReadyFor(job.target)
                 /\ Use("recovery-list")

\* check_endpoint of the first smoke check.
List == /\ At("list") /\ EndpointAccepted(TaskList, job.target)
        /\ Use(IF job.state = "healthy" THEN "recovery-ready" ELSE "traffic")

\* check_endpoint of the original endpoint, with the report's endpoint_check.
\* In the same step emit_evidence validates the recovery event and writes its
\* file, before anything is recorded of the deployment.
RecoveryList ==
    /\ At("recovery-list")
    /\ EndpointAccepted(BrokenFilter, job.target)
    /\ RecoveryClaim(BrokenFilter, job.target)
    /\ Use("claim-deployment")

\* exercise: identity, control, the scenario requests, control, identity.
Total == Requests + 6
Expected(n) ==
    \/ n \in {1, Total - 1} /\ AliveFor(job.target)
    \/ n \in {2, Total} /\ ReadyFor(job.target)
    \/ n \in {3, Total - 2} /\ TrafficAccepted(TaskList, job.target, 200)
    \/ n \in 4 .. Total - 3 /\ TrafficAccepted(BrokenFilter, job.target, KeyError)

Traffic ==
    /\ At("traffic") /\ Expected(job.sent + 1)
    /\ job' = [job EXCEPT !.sent = @ + 1,
                          !.pc = IF job.sent + 1 = Total
                                   THEN "claim-deployment" ELSE @,
                          !.genuine = @ /\ Mine(slot)]

Wanted ==
    \/ job.pc \in {"ready", "recovery-ready"} /\ ReadyFor(job.target)
    \/ At("list") /\ EndpointAccepted(TaskList, job.target)
    \/ At("recovery-list") /\ EndpointAccepted(BrokenFilter, job.target)
    \/ At("traffic") /\ Expected(job.sent + 1)

\* Mutant of Refuse: readiness is asked for until it is there.
RefusePolling == /\ job.pc \in Checking \ {"ready", "recovery-ready"}
                 /\ ~Wanted /\ Goto("record-failed")

\* An answer that is not the wanted one fails the step.
Refuse == job.pc \in Checking /\ ~Wanted /\ Goto("record-failed")

\* The last check has passed.
Passed == job'.pc = "claim-deployment"

Check ==
    /\ Ready \/ List \/ RecoveryReady \/ RecoveryList \/ Traffic \/ Refuse
    /\ verified' = IF Passed /\ job'.genuine
                     THEN verified \cup {job.attempt} ELSE verified
    /\ healed' = IF Passed /\ job'.genuine /\ At("recovery-list")
                   THEN healed \cup {job.attempt} ELSE healed
    /\ artifacts' = IF Passed /\ At("recovery-list")
                      THEN artifacts \cup {Event("recovery", "succeeded")}
                      ELSE artifacts
    /\ UNCHANGED <<branchVars, ledgerVars, db, slot, late, touched, issued, bounds>>

-----------------------------------------------------------------------------
(* Evidence.                                                               *)

\* emit_evidence writes the file, which for a recovery exists since its check;
\* without an issue nothing is recorded.
Emit ==
    /\ job.pc \in Recording /\ writers["job"] = Resting
    /\ artifacts' = artifacts \cup {Current}
    /\ IF job.issue THEN Record("job", Current) /\ UNCHANGED job
       ELSE UNCHANGED ledgerVars
              /\ Goto(IF At("claim-deployment") THEN "succeeded" ELSE Recorded)

List1 == ListComments("job") /\ UNCHANGED <<job, artifacts>>
Post == PostComment("job") /\ UNCHANGED <<job, artifacts>>

\* scripts.evidence record has ended.
Conclude ==
    /\ writers["job"].pc \in {"done", "refused"}
    /\ Goto(IF writers["job"].pc = "done" THEN Recorded ELSE Failed)
    /\ writers' = [writers EXCEPT !["job"] = Resting]
    /\ UNCHANGED <<comments, artifacts>>

Evidencing == /\ Emit \/ List1 \/ Post \/ Conclude
              /\ UNCHANGED <<branchVars, db, slot, late, history, bounds>>

-----------------------------------------------------------------------------
(* Failures.                                                               *)

\* The write of the current step, if it has one that may still happen.
InFlight ==
    CASE At("deploy") -> {Deployment}
      [] At("settings") -> {Settings}
      [] writers["job"].pc = "post" ->
           {[what |-> "comment", event |-> writers["job"].event]}
      [] OTHER -> {}

\* A step fails, or the job is killed, with its write executed later or
\* never.  At "upgrading" the transaction is left to the server.
Break ==
    /\ ~Ended /\ faults < MaxFaults
    /\ faults' = faults + 1
    /\ \/ Goto(Failed)
       \/ Goto("killed")
    /\ \/ late' = late \cup InFlight
       \/ InFlight # {} /\ late' = late
    /\ writers' = [writers EXCEPT !["job"] = Resting]
    /\ UNCHANGED <<branchVars, comments, db, slot, artifacts, history, environment>>

Deliver ==
    \E w \in late :
      /\ late' = late \ {w}
      /\ IF w.what = "comment"
           THEN comments' = Append(comments, Comment("job", w.event))
                  /\ UNCHANGED slot
           ELSE Apply(w) /\ UNCHANGED comments
      /\ UNCHANGED <<branchVars, writers, db, job, artifacts, history, bounds>>

\* The server ends the transaction of a client that is gone.
Orphan ==
    \E a \in Attempts :
      /\ ~(a = job.attempt /\ At("upgrading"))
      /\ CommitUpgrade(a) \/ AbortUpgrade(a)
      /\ UNCHANGED <<branchVars, ledgerVars, slot, job, late, artifacts, history,
                     bounds>>

-----------------------------------------------------------------------------
(* The environment.                                                        *)

Changes == environment < MaxEnvironment /\ environment' = environment + 1

\* A write of another run's attempt reaches the slot.
Interfere ==
    /\ Changes
    /\ \/ \E helper \in State : slot' = [slot EXCEPT !.sha = OtherSha,
                                                     !.helper = helper]
       \/ slot' = [slot EXCEPT !.run = OtherRun]
    /\ UNCHANGED <<branchVars, ledgerVars, db, job, late, artifacts, history, faults>>

\* An operator records an artifact by hand, of a deployment or a recovery and of
\* any attempt, as it is or emitted again with another time.  A job uploads its
\* artifacts at its end, also if it failed.
RecordByHand ==
    /\ Changes
    /\ \E e \in {x \in artifacts : x.attempt # job.attempt \/ Ended}, at \in {0, 1} :
         Record("operator", [e EXCEPT !.at = @ * at])
    /\ UNCHANGED <<branchVars, db, slot, job, late, artifacts, history, faults>>

HandDone ==
    /\ \/ ListComments("operator")
       \/ PostComment("operator")
       \/ /\ writers["operator"].pc \in {"done", "refused"}
          /\ writers' = [writers EXCEPT !["operator"] = Resting]
          /\ UNCHANGED comments
    /\ UNCHANGED <<branchVars, db, slot, job, late, artifacts, history, bounds>>

\* Bound: the operator works before and between attempts.  During an attempt
\* the branch moves by pull requests, which is all that it can see of it.
Branch ==
    /\ \/ (Command \/ Discard \/ Push \/ Pull)
            /\ Ended /\ job.attempt < MaxAttempts /\ UNCHANGED bounds
       \/ Interrupt /\ faults < MaxFaults /\ faults' = faults + 1
            /\ UNCHANGED environment
       \/ MergePullRequest /\ Changes /\ UNCHANGED faults
    /\ UNCHANGED <<ledgerVars, db, slot, job, late, artifacts, history>>

Decide == /\ Preflight \/ Gates \/ Approve
          /\ UNCHANGED <<branchVars, ledgerVars, db, slot, late, artifacts,
                         history, bounds>>

Step == Decide \/ Write \/ Check \/ Evidencing

Next == Dispatch \/ Rerun \/ Step \/ Break \/ Deliver \/ Orphan
          \/ Interfere \/ RecordByHand \/ HandDone \/ Branch

\* A started attempt runs: every step and the approval have a time limit,
\* and the server ends the transactions of clients that are gone.
Spec == Init /\ [][Next]_vars
FairSpec == Spec /\ WF_vars(Step) /\ WF_vars(Orphan)

-----------------------------------------------------------------------------
(* Properties.                                                             *)

TypeOK ==
    /\ \A c \in DOMAIN commits : commits[c].helper \in Helper
    /\ head \in Commit \cup {None}
    /\ db.schema \in {0, 1} /\ db.granted \in BOOLEAN
    /\ Attempts \subseteq Attempt
    /\ job.attempt \in 0 .. MaxAttempts /\ job.sent \in 0 .. Total
    /\ touched \cup verified \cup healed \cup issued \subseteq Attempt
    /\ \A i \in DOMAIN comments : comments[i].event.attempt \in Attempt

Claims(kind, status) ==
    {c.event.attempt : c \in {x \in Range(comments) :
                                 x.event.kind = kind /\ x.event.status = status}}

\* No upgrade works from a schema that another one has changed meanwhile,
\* although a killed client's transaction outlives its job (migrate, the
\* advisory lock of do_run_migrations).
UpgradesDoNotCollide == \A u \in db.upgrades : u.seen = db.schema

\* The slot never serves a commit of the branch that did not pass the gates
\* as what it is, however the branch moved between the gates and the
\* deployment, and whenever a lost deployment is executed (prepare,
\* "Demo branch did not resolve to an immutable commit").
DeployedWasGated ==
    slot.sha \in DOMAIN commits =>
        \E state \in State : Gated(slot.sha, state)

\* What a command of demo_branch reports is what the branch and the worktree
\* hold, also after an earlier command was interrupted (introduce, reset).
ReportedStateIsReal ==
    clone.result \in State /\ clone.pc = "idle" =>
        HelperOf(clone.branch) = clone.result /\ clone.tree = clone.result

EveryTrafficIsObservable ==
    \A n \in 1 .. 200 : ValidRequests(n) =>
        /\ Observable(TrafficCounts(n))
        /\ Observable([TrafficCounts(n) EXCEPT !.eligible = n])

\* The counts of fault traffic are those of the requests that were sent, and
\* the smallest fault traffic that a run may ask for already makes an
\* incident that the contract accepts, whether or not the query behind the
\* alert counts the two control requests (exercise, run_traffic,
\* validate_observation).
FaultTrafficIsObservable ==
    /\ At("claim-deployment") /\ job.state = "regression" =>
         TrafficCounts(Requests).eligible = job.sent - 4
    /\ EveryTrafficIsObservable

\* Every attempt ends, also one that meets the lock of an upgrade whose
\* client was killed, or a slot that serves another build (demo.yml).
AttemptEnds == ~Ended ~> Ended

\* An approved attempt to recover that nothing disturbs any more is recorded
\* as recovered, whatever earlier attempts of its run have left behind on
\* the issue, in the database and in the slot (demo.yml, record_event).
Undisturbed == /\ faults = MaxFaults /\ environment = MaxEnvironment
               /\ late = {} /\ db.upgrades = {} /\ writers["operator"] = Resting
Recovers ==
    /\ At("announce") /\ writers["job"] = Resting
    /\ job.state = "healthy" /\ job.issue /\ Undisturbed
    ~> job.attempt \in Claims("recovery", "succeeded")

\* The incident's issue is RecoveryLedger, whoever writes on it: an attempt that
\* belongs to it is announced there before its first write, and no record says
\* of any attempt that it succeeded, or recovered, before its own build has
\* answered every check, or its healthy build the original endpoint (demo.yml,
\* "before any Azure writes", "without claiming recovery").
Ledger == INSTANCE RecoveryLedger WITH
    announced <- Claims("deployment", "pending"),
    deployed <- Claims("deployment", "succeeded"),
    recovered <- Claims("recovery", "succeeded")
ImplementsRecoveryLedger == Ledger!Spec
=============================================================================
