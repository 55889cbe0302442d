# Verification of agentic-devops-sre-demo

The repository is a FastAPI task service together with the tooling that
delivers it and answers its incidents: GitHub Actions jobs that promote a
release through two App Service slots, a demo release that breaks on purpose,
an issue ledger that records what happened, and the handoff of an incident to
the Copilot coding agent. The task service is small; the logic that is hard to
get right is in `scripts/`, where short processes talk to services they do not
control (GitHub, Azure), may be killed at any line, and may be started again.

This directory holds TLA+ modules translated from that code, TLC configurations
that check them on small instances, and TLAPS proofs.

## 1. The system

| Component | State it keeps | Operations | Talks to | Hard behaviour | What makes it correct |
|---|---|---|---|---|---|
| **Handoff** `scripts/sre_handoff.py` | none of its own: two tags per launch on GitHub (`sre-handoff/<fingerprint>`, `sre-handoff-issues/<issue>`), the assignee, the labels | `handoff`, `reserve_launch`, `read_intent`, `publish_result` | GitHub REST; `record_event` | runs on the same or on different issues interleave between a read and the write it justifies; a request that timed out may still be executed; the job is cancelled and rerun | one launch per incident and per issue; launch only behind both tags; a retry never launches again |
| **Evidence ledger** `scripts/evidence.py` | one comment per event on an issue | `record_event`, `timeline`, `same_handoff`, `pull_request_rows` | GitHub comments, pulls, check runs | list-then-write with no lock, upgrade of a record by PATCH, conflicting records | one identity, one set of facts; accepted is final and proven; a conflict shows as unknown |
| **GitHub client** `scripts/github_api.py` | none | `request`, `object`, `optional_object`, `pages` | HTTPS | writes are never retried; an unknown outcome is an error; at most 20 pages | no answer is mistaken for a refusal |
| **Promotion** `scripts/promote.py`, `.github/workflows/cd.yml` | the two slots, the report file | `promote`, `swap`, rollback, staging restoration | `az webapp`, `migrate`, `run_checks` | a swap whose outcome is unknown; a failed verification; a rerun of one job of a workflow | production is verified or rolled back; never a blind reciprocal swap |
| **Release policy** `scripts/release_policy.py` | none | `validate_environment`, `verify_release` | GitHub branches and environments | the head moves between approval and promotion | only the current head of `main` is promoted |
| **Migration** `scripts/migrate.py`, `alembic/` | schema revision and grants | `validate_target`, `migrate`, `grant_runtime` | PostgreSQL | the client gives up and the upgrade goes on; two upgrades at a time | one upgrade at a time, grants after it |
| **Smoke verification** `scripts/smoke.py` | one task it creates | `wait_ready`, `check_endpoint`, `check_crud`, `run_checks` | the service | an uncertain create leaves a record; commit after the answer | a passing check means the build and the schema are the target's |
| **Task API** `src/routes/tasks.py`, `src/database.py` | the `tasks` table | list, create, get, update, delete | PostgreSQL | the count and the page are two statements; update and delete race; `get_db` commits after the handler | what was answered is stored |
| **Health** `src/routes/health.py`, `src/version.py`, `src/config.py` | none | `/live`, `/ready`, `/health` | PostgreSQL | readiness follows a schema other processes move | ready only on the expected schema and database |
| **Middleware and telemetry** `src/telemetry.py`, `src/main.py`, `src/middleware/` | request id of the request | logging, errors, export | - | - | - |
| **Demo release** `scripts/demo_release.py`, `.github/workflows/demo.yml` | demo slot, evidence comments | `prepare`, `verify_regression_tests`, `emit_evidence` | GitHub, Azure, ledger | reruns; a step that fails after success was recorded | the ledger's last word matches the slot |
| **Demo branch** `scripts/demo_branch.py` | one file's history on a branch | `introduce`, `reset` | git | a push that races another | the branch only moves forward |
| **Traffic** `demo/traffic.py` | counters | request loop | the service | the abort conditions | the budget is kept |
| **Incidents** `scripts/incidents.py` | none | `parse_incident`, `fingerprint`, `validate_observation` | - | boundaries of the thresholds | one incident, one fingerprint |
| **Packaging** `scripts/package.py` | an archive | build, verify | files | - | - |
| **Preflight** `scripts/preflight.py`, `scripts/oidc_subject.py` | none | a report of reads | `az`, GitHub | - | unknown is never reported as good |
| **Infrastructure** `infrastructure/` | Azure resources | deploy, teardown | Azure | - | - |

The interactions are requests over the network: a run of the handoff, of a
release or of a demo reads GitHub's or Azure's state, decides, and writes. There
is no shared memory and almost no lock. The exceptions are the create-only Git
reference, the `concurrency` groups of the workflows, and PostgreSQL's
transactions. `PROJECT.json` lists the hazards that follow from it, each at its
line.

## 2. The modules, in order of importance

1. **Handoff**: `LaunchLedger`, `Handoff`, `MCHandoff`, `HandoffTypes`,
   `HandoffLaunch`, `HandoffEvidence`. The only component whose failure starts
   work twice.
2. **Promotion**: `Promotion`, `MCPromotion`, `PromotionProofs`,
   `PromotionTested`. The component whose failure takes production down or puts
   an untested build there.
3. **Demo release**: `DemoBranch`, `Migration`, `EvidenceLedger` and `DemoSlot`,
   which `DemoRelease` composes into the workflow `demo.yml`; `RecoveryLedger`
   is what it promises; `MCDemo`, `DemoProofs`, `DemoLedgerProofs`.
4. **Task API**: `TaskApi`, the service; `SmokeCrud`, the smoke check that works
   with it; `MCTaskApi`, `TaskProofs`.

| Module | extends / instantiates |
|---|---|
| `Handoff` | instantiates `LaunchLedger` |
| `DemoRelease` | extends `DemoBranch`, `EvidenceLedger`, `DemoSlot` (which extends `Migration`); instantiates `RecoveryLedger` |
| `SmokeCrud` | extends `TaskApi` |

Every safety property that a passing run checks, invariant, action property or
refinement, is also a theorem for all values of the constants. Liveness is only
model-checked: the prover has no rules for fairness. Still to do: the
classification of answers in `scripts/preflight.py` as a pure module.

## 3. Handoff

### Modules

* `LaunchLedger` is what the handoff promises: a fingerprint is reserved by one
  issue, the issue is then claimed for that fingerprint, and the pair is
  launched once. Three actions, no processes and no failures.
* `Handoff` is the code. A member of `Run` is one process of the triage
  workflow. `runs[r]` holds its local variables under the source's names
  (`issue_intent` is `claim`, `new_reservation` is `new`), and `pc` says which
  request to GitHub comes next.
* `MCHandoff` gives the constants values for TLC.
* `HandoffTypes`, `HandoffLaunch` and `HandoffEvidence` hold the theorems.

### State and actions

| TLA+ | Code |
|---|---|
| `issues[n]` | the issue: `open` is everything `validate_issue` demands besides the body, `doc` the incident document in the body, `copilot` the assignee (and whether it ever was there), `labelled` the `copilot-assigned` label |
| `fpRef`, `issueRef` | the annotation of the two tags of `reserve_launch` |
| `comments` | trusted handoff-evidence comments |
| `late` | requests whose client gave up; GitHub may still execute each once |
| `launches`, `started`, `since` | history: requests sent, requests executed, bodies an issue had since its reservation |
| `Begin` ... `Reread` | `handoff` up to the second read of the reservation, with `read_intent` and `reserve_launch`; `Owned` is the branch on `intent.issue_number` |
| `Recheck`, `Decided` | the second read of the issue and the four outcomes that follow from it |
| `Assign`, `AssignWithoutEffect`, `LoseAssign` | the POST of the assignee: executed; answered without effect or refused; without an answer |
| `Poll`, `Polled` | the reads that decide acceptance |
| `Publish`, `ListStored`, `PostComment`, `PatchComment`, `Label` | `record_event` and the labels of `publish_result` |
| `LoseWrite`, `Fail`, `Deliver` | the client's error, a killed job, and the service executing a lost request |
| `EditIssue`, `Reopen`, `SetCopilot` | publisher and operators, at any moment |

One action is one request, because another run can act between any two of
them. What a process computes between two requests is in the same action. Tag
object and tag reference are one action: the object alone is unreachable.

Abstracted: the text of documents, comments and instructions (a document is a
model value with a fingerprint; two observations of one incident share it),
`observed_at` (where it only breaks a tie the model chooses), the URL and the
author checks on answers, the deterministic reason codes, and the permission
checks of `check_eligibility`, which only refuse: a refusal is a `Fail`.

### Runs

| Run | Instance | Question |
|---|---|---|
| `handoff_reservation` | 2 runs, 2 issues, 3 documents of 2 incidents | no double launch, launch behind both tags and on the incident that was reserved; `Handoff` implements `LaunchLedger` |
| `handoff_evidence` | 3 runs on 1 issue, 2 observations | the evidence tells the truth about the assignment and is not taken back |
| `handoff_live` | 2 runs, 2 issues, 1 incident | an undisturbed handoff ends accepted; a retry publishes what is there |

Bounds. `Polls` is 3 in the code and in the fair run. In the two safety runs it
is 2, so that there is still a first, a last and a repeated read.
`MaxFaults = 1` and `MaxEnvironment = 1` allow one failure and one edit per
behaviour, anywhere, and any number of interleavings around them; reruns come
from the other runs. Two runs are enough for a race on a tag, and three for a
race on comments that a later rerun meets. Two issues with three documents
cover the same incident on two issues, an edit to another observation, and an
edit to another incident. The theorems below have no such bound. Symmetry is
declared on the runs only, in the runs that check no liveness. Deadlock is not
checked: all runs may have ended, and the system then stops.

The workflow's `concurrency` group of one issue is not modelled, and no run
relies on it: an operator's command line is not in the group, so the runs of one
issue may interleave in every run, also in the liveness run. What holds without
the group holds with it.

Fairness (`FairSpec`): weak fairness of each run's own steps. A process that
was started is scheduled until it ends, every request has a time limit, and
the job has one too. Nothing is assumed of starting a run, of repairing an
issue, or of the execution of a lost request.

### Properties

`AtMostOneLaunch`, `LaunchIsReserved`, `LaunchSawReservedIncident` and
`ImplementsLedger` are about the launch. `NoDisagreement` says that the errors
about disagreeing or incomplete tags are never produced by the runs' own
races, so whoever sees one may conclude that somebody touched the tags.
`AcceptedIsProven`, `FailedNeverStarts`, `OutcomeIsRecorded` and
`NeverDowngraded` are about the evidence. `Converges` and `RetryPublishes` are
about progress. Each one is broken by a mutant of the code listed in
`PROJECT.json`; the mutants stand in the module before the operator they
change.

### Proofs

All theorems are about `Handoff!Spec` for every value of the constants that
satisfies `HandoffAssumption`.

* `HandoffTypes`: `TypeCorrectness`, `Spec => []TypeOK`. `TypeOK` alone is not
  inductive: the step that writes an annotation needs that an active run has an
  issue and a document, and that a run waiting for a tag holds an intent.
  `ITypeOK` adds that.
* `HandoffLaunch`: `InvHolds` proves the inductive invariant
  `Inv == ITypeOK /\ RefsOK /\ RunsOK /\ LaunchesOK`.
  `RefsOK`: the tag of an issue is only written after the tag of its
  fingerprint, with the same annotation, also by a late request.
  `RunsOK`: what a run has read of the tags is still true, because tags are
  never changed (lemma `Grows`), and a run with `new_reservation` wrote both.
  `LaunchesOK`: a launched pair is completely reserved, its writer is past its
  decision, and the launched document was in the body since the reservation.
  From it follow `OneLaunch`, `ReservedLaunch`, `Agreement`,
  `ReservedIncident`, and `Refinement`: every step of `Handoff` is a step of
  `LaunchLedger` under `LedgerOwner` and `LedgerClaimed`, or leaves it alone.
  The double launch is excluded because only the one run whose request created
  the issue's tag has `new` set, and the run leaves its deciding states with
  the request.

* `HandoffEvidence`: `EvidenceHolds` proves `EInv`, on top of `Inv`. None of the
  evidence properties is inductive: they speak of the records on GitHub, while
  the next record is written from what a run remembers, or from a request that
  its client has given up. `EInv` therefore says of all three alike what backs a
  status (`Backed`): behind "accepted" the pair is reserved and Copilot has been
  an assignee, behind "failed" a launch was requested, was not executed and is
  not on its way.
  `RecordsOK`: this holds of every record, and records of one author are of one
  event, because a run posts once and a PATCH only changes the status.
  `LateOK`: it holds of every late post; a late PATCH upgrades a record that is
  still there; a late label has its accepted record.
  `StartedOK`, `LabelsOK`: what was executed was requested; a label has its
  record.
  `InformedOK`: what a run knows of the assignee and of the records when it
  writes. Both kinds of backing are final. `BackingStays` has this step by step:
  tags are never moved, an issue that once had Copilot as assignee has had it
  for ever, and the pair of a refused launch is not launched again (from
  `LaunchesOK` above). From it follow `ProvenEvidence` (`AcceptedIsProven`),
  `FailureIsFinal` (`FailedNeverStarts`), `OutcomeEvidence`
  (`OutcomeIsRecorded`) and `AcceptedStays` (`NeverDowngraded`).

Only model-checked: `Converges` and `RetryPublishes`, which need fairness.

## 4. Promotion

### Module, state and actions

`Promotion` is one workflow run of `cd.yml` per commit, on the slots and
databases of one Azure application. The commits of the default branch are
numbered in the order they are pushed, and a commit stands for its artifact.

| TLA+ | Code |
|---|---|
| `head` | the default branch, which `verify_release` compares with the gated commit |
| `slots[s]` | the artifact that production or staging serves |
| `schema[s]` | the revision of the slot's database; `RevisionOf[c]` is `SCHEMA_REVISION` in commit `c`, and `/ready` demands equality |
| `swapping`, `deploying` | a swap, and the staging deployments, whose client gave up and that Azure may still execute |
| `jobs[c]` | the latest attempt of the run: `pc` is the next step, `previous` the identity `promote` read from production, `status` and `rollback` the fields of its report |
| `tested`, `approved` | history: commits whose staging verification passed, and whose production job was approved |
| `Push` | a push to the default branch |
| `Admitted`, `Start`, `RerunStaging`, `RerunProduction` | the `azure-release` concurrency group, the run's first attempt, and the reruns of a failed job that GitHub offers, which skip the jobs that succeeded |
| `Preflight`, `MigrateStaging`, `Deploy`, `Smoke` | the jobs `preflight` and `staging` |
| `Approve`, `Reject`, `Recheck` | the environment `production` and the policy check after its approval |
| `Identify`, `Migrate`, `Swap`, `Verify`, `Rollback`, `VerifyRollback`, `VerifyStaging` | `promote`, in its order |
| `Failed`, `Unidentified`, `Unverified` | the error branches of these steps: the status of the report, and whether a swap back follows |
| `Break`, `Kill`, `Unfinished` | a request that fails, a job that is cancelled or dies, and what becomes of the write it was at: executed, not executed, or, of a swap and a deployment, still to be executed |
| `Settle`, `Land` | Azure executes, or gives up, the swap, or a staging deployment, that nobody waits for |
| `Settled` | what operators wait for before they start an attempt |

Abstracted: `run_checks` is one step (it reads, besides the CRUD check, which
belongs to the task API); the text of reports; the validation of inputs; grants
after a migration; the demo workflow, which shares the concurrency group and
only keeps it busy (section 5 has it); which of several waiting runs the group admits. External
and assumed: Azure refuses a swap while another one is in progress, and a swap
exchanges the artifacts but not settings and databases. `PromotionAssumption`
has one fact about the repository's history: revisions grow along the branch,
because migrations are only added and CD runs no downgrade.

Two constants say what people do:

* `Reconciled`: the writes whose unknown result operators settle before they
  start the next attempt, `"swap"`, `"deployment"`, both or none. No code enforces
  either. For a swap the status
  `swap_state_unknown_operator_reconciliation_required` asks for it; for a staging
  deployment nothing does, although `azure/webapps-deploy` may be executed after
  its job has ended. What each property needs:
  * `VerifiedIsServing`: neither.
  * `SchemaCovers`, `IdentityHolds`, `RetryPromotes`: swaps. Deployments of earlier
    attempts may land in staging at any time.
  * `ProductionIsTested`, `RollbackRestores`: both. Without settled deployments
    `ProductionIsTested` is false: the first attempt of a commit dies while it
    deploys; the next commit is staged, verified, approved and checked again; now
    the first deployment lands, and the swap brings the untested commit into
    production. `promote` does not look at staging before it swaps. In the same
    way a deployment that lands between the swap and the swap back is what the
    rollback brings.
* `StaleReruns`: people rerun the failed staging job of a commit that the
  branch has left behind. Such a rerun skips the head check.

A migration whose job ended is executed at once or never. One that commits later
is not modelled: `do_run_migrations` takes an advisory lock, so it crosses no
other upgrade, and it only raises the schema.

### Runs

| Run | Instance | Question |
|---|---|---|
| `promotion_release` | 2 releases, one with a new revision, 5 attempts, 3 faults, swaps and deployments settled, no stale reruns, initial deployment allowed | production serves only what passed staging and was approved; a swap back restores |
| `promotion_recovery` | the same with stale reruns and late deployments, 4 attempts, 2 faults, fair | the schema, the identity a rollback rests on, progress of a retry |
| `promotion_unreconciled` | 5 attempts, 3 faults, nothing settled | a report `verified` is true |
| `promotion_migrating` | one release with a new revision, no fault | violation: such a release cannot end `verified` |
| `promotion_rerun` | one release, 2 attempts, 1 fault | violation: the rerun of an uncertain swap swaps back |
| `promotion_stale` | 2 releases, stale reruns, 4 attempts, 2 faults | violation: an untested artifact in production |

Bounds. Two releases after an artifact that is already there (or after none)
give the old, the superseded and the new one. Four attempts are two per release;
the fifth allows a rerun of both after a third one. Three faults cover a lost
answer, a second one in its recovery and a killed job. Deadlock is not checked:
a system without a push and without attempts left stops. There is no symmetry:
commits are ordered.

Fairness (`FairSpec`): weak fairness of an attempt's own steps. Every step of a
job has a time limit and the runner goes on to the next. Nobody has to push,
approve, reject or rerun, and an abandoned swap or deployment need not finish.

### Properties

`ProductionIsTested`, `SchemaCovers` and `RollbackRestores` relate the slots to
what was decided about them earlier; `IdentityHolds` says that the build which
`promote` captured, and by which it later decides whether to swap back, is still
the one in production when the swap is sent; `VerifiedIsServing` compares the report with the slots
at the moment it is written; `RetryPromotes` says that a retry of the last
release ends with it in production, in whatever state faults left the slots.

### Where the code and its documents disagree

1. `CleanReleaseVerifies` (`docs/azure-setup.md:248-249`): expand/contract
   migrations are meant to let old and new artifacts coexist, but readiness and
   the smoke check demand one exact revision. A release that brings a migration
   ends as `production_verified_staging_restore_failed`.
2. `NeverSwapsBack` (`docs/architecture.md:120-121`): "never blindly retried"
   holds inside one process. A rerun of the failed production job does not look
   whether the first swap happened, swaps the old artifact in, and only the
   rollback brings the new one back.
3. `ProductionIsTested` with stale reruns (`docs/architecture.md:114-115`):
   `promote` swaps what is in staging. The rerun of a superseded commit's
   staging job between two attempts of the head's production job puts another,
   untested artifact there.

### Proofs

For every number of commits, every assignment of revisions and any number of
attempts and faults. In `PromotionProofs`, `TypeCorrectness` needs no further
assumption; the others assume `"swap" \in Reconciled`, with staging deployments
that may land at any later time, and use the invariant
`IInv == TypeOK /\ AloneOK /\ HeadOK /\ InformedOK /\ SchemaCovers`.

* `AloneOK`: at most one attempt is active, and none while a swap is
  outstanding; executing that swap, even after a deployment that is still to
  land, would not outrun production's schema (`StagingCovered`).
* `HeadOK`: no artifact in a slot, or on its way to staging, is newer than the
  head, nor, once an attempt passed its second check, newer than the commit it
  promotes (`UpTo`). `SchemaCovers` needs this: the migration moves production
  to the revision of `c`, and whatever the swap finds in staging must not be
  ahead of it.
* `InformedOK`: what an attempt knows is still true: that the identified artifact
  is in production until the swap, and that production has its own revision since
  `Migrate`. Where that artifact is after the swap it only knows if deployments
  are settled too (`Quiet`).

`Invariance` proves it; the lemmas `Thinking` and `Writing` cover the steps that
only read and those that change the slots or a schema. From it follow `Covered`
(`SchemaCovers`) and `Identified` (`IdentityHolds`), and, if deployments are
settled as well, `Restores` (`RollbackRestores`).

`PromotionTested` has two theorems more.

* `VerifiedServes` (`VerifiedIsServing`) has no hypothesis, which is its point:
  a late swap or a late deployment of an earlier attempt may hit this one. Its invariant `StandInv` is that there is one attempt at a time, nothing
  is reported verified before the last step, no abandoned swap is left once
  Azure has accepted the attempt's own (it refuses a second one), and production
  was verified before staging is.
* `TestedProduction` (`ProductionIsTested`) assumes that swaps and
  deployments are settled and `~StaleReruns`. Without the last it is false, as the
  run `promotion_stale` shows; without settled swaps a late one brings what was in
  staging long ago, and without settled deployments one lands under the approval
  (above). Its
  invariant `TestedInv`, on top of `IInv`, ties staging to the future: production
  serves a tested and approved artifact, and so does staging whenever a swap may
  follow, which is while one is outstanding and from the second policy check on.
  That check is only good because from the head's first staging verification on
  nothing but the head is deployed to staging, nor still on its way there. This needs that no commit beyond
  the head was tested, and that while a superseded commit is still being staged
  the head has not been tested (`Earned`).

Only model-checked: `RetryPromotes`, which needs fairness.

## 5. Demo release

### Modules

* `DemoBranch`: the branch of a demo run on GitHub and an operator's clone of it.
  `introduce`, `reset` and `commit_change` are several Git processes each, and a
  command may stop between two of them.
* `Migration`: one database; the locked upgrade, and the grants after it.
* `EvidenceLedger`: `record_event` for deployment and recovery events as a list
  and a post without a lock, and what `timeline` and `pull_request_rows` make of
  the comments they read.
* `DemoSlot`: what the slot answers to each request, and what the checks, the
  traffic and the recovery event make of an answer; the counts and thresholds.
* `DemoRelease`: the workflow `demo.yml` over the four. It is one attempt at a
  time, because of the workflow's concurrency group, but several over time, and
  what a dead one has left behind meets the next.
* `RecoveryLedger`: what the incident's issue may claim of an attempt.
* `MCDemo` gives the constants values for TLC; `DemoProofs` and
  `DemoLedgerProofs` hold the theorems.

### State and actions

| TLA+ | Code |
|---|---|
| `commits`, `head` | the commits of the branch, each with its helper, its parent, and whether it touches what `validate_diff` protects; the branch on GitHub |
| `clone` | the operator's worktree, branch and remote-tracking branch, the command in progress and what it reported |
| `db` | the schema's revision, the grants of the runtime role, the upgrades that run, each with the revision it saw |
| `slot` | commit, helper and the setting `DEMO_RUN_ID` of the demo slot |
| `comments`, `writers` | the records on the issue in GitHub's order; each process that records, with its next request |
| `job` | the current attempt: its step, inputs, resolved commit, and how much traffic was sent |
| `late` | writes whose client gave up, each of which may still be executed once |
| `artifacts` | the evidence files that `emit_evidence` wrote; that of a recovery with its check, before the deployment's |
| `issued`, `touched`, `verified`, `healed`, `job.genuine` | history, for the refinement: who has an issue (`Attach`), who wrote, whose own build answered all checks, whose healthy build answered the original endpoint |
| `Introduce`, `Reset`, `WriteHelper`, `CommitChange`, `Interrupt`, `Discard`, `Push`, `Pull`, `MergePullRequest` | `demo_branch.py` with the Git commands around it |
| `Dispatch`, `Rerun`, `Preflight`, `Gates`, `Approve` | the jobs `preflight` and `gates` (`prepare`, `validate_diff`, `verify_regression_tests`) and the environment's approval |
| `Upgrade`, `Deploy`, `BindScenario` | the steps that migrate, grant, deploy and set the app settings |
| `Ready`, `List`, `RecoveryReady`, `RecoveryList`, `Traffic`, `Refuse` | `run_checks` and `exercise`, one request each |
| `Emit`, `ListComments`, `PostComment`, `Conclude` | `emit_evidence` and `scripts.evidence record`, also of the step "Record a failed attempt" |
| `Break`, `Deliver`, `Orphan` | a step that fails, a job that is killed; GitHub or Azure executing a lost write; PostgreSQL ending the transaction of a gone client |
| `Interfere`, `RecordByHand` | the late write of another run at the slot; an operator with `scripts.evidence record` and any evidence file that an attempt left |

Abstracted: packaging and the tests' report files are the one decision `Gated`;
the CRUD check of `run_checks` may fail but its requests are section 6's;
`observed_at` has two values, that of the attempt and another. External and
assumed: a write to Azure or GitHub is executed once, later, or never; the
server ends an abandoned transaction.

An operator may record every file that an attempt wrote, a deployment's or a
recovery's, of an attempt with or without an issue, unchanged or emitted again at
another time (`RecordByHand`; `docs/incident-response.md:312-319`). The job uploads
its files at its end, also if it failed. A recovery may therefore be recorded
whose deployment never was. An operator who makes up a file that no attempt wrote
is not modelled: `record_event` would accept it.

`Record` is followed by two steps, because another process can post between the
list and the post of `record_event`. `Trusted` says whose comments a command
reads (`--trusted-actor`): the workflow names its own bot only.

### Run

`demo`: two attempts, a branch of up to three commits, one fault, one intrusion
(a merged pull request, another run's write, or an evidence file recorded by
hand), one
scenario request of traffic. Two attempts are a failed one and its rerun, or a
regression and its recovery. Three commits are the approved base, the regression
and its reset or a merged fix; the fourth would be a second fix. One scenario
request keeps the order identity, control, scenario, control, identity in which
`exercise` sends them; that a run has at least 21 of them is in
`ValidRequests`, whose every value up to 200 `FaultTrafficIsObservable` checks.
The operator's commands run between attempts, since during an attempt only a
merge is visible to the job. No symmetry; deadlock is not checked, because
attempts are used up.

Fairness (`FairSpec`): weak fairness of the attempt's steps (each has
`timeout-minutes`, and an approval that nobody gives expires) and of `Orphan`
(the server's time limits). Nobody has to dispatch, push or merge, and a lost
write need not be executed.

### Properties

* `ImplementsRecoveryLedger` is the main one: an issue hears of an attempt that
  belongs to it before the attempt writes anything; it reads that a deployment
  succeeded only when the attempt's own build has answered every check, and that
  a recovery did only when its healthy build has answered the original endpoint,
  whoever else wrote to the slot meanwhile, and whoever makes the record. It does
  not say that a recovery's deployment was recorded before: that is false when
  the deployment's record is lost and the recovery's file is recorded by hand.
* `DeployedWasGated` holds across branch movements, reruns and late deployments,
  because the target is resolved once.
* `UpgradesDoNotCollide` is the advisory lock, with a client that is gone.
* `ReportedStateIsReal` is about the next command after an interrupted one.
* `TimelineTellsTheTruth` compares the rows of every listing that can arise with
  what its records agree on. Its conjuncts `EveryListing` and `EveryChecksRow`
  evaluate the same operators on all short listings of conflicting records, and
  on all small sets of check runs including a listing that is not complete.
* `FaultTrafficIsObservable` connects the counts to the requests sent, and every
  permitted size to the thresholds of an incident.
* `AttemptEnds`, and `Recovers`: an undisturbed healthy attempt ends recorded as
  recovered, whatever earlier attempts left. It is the reason that the event id
  has the attempt in it.

### Proofs

For every number of attempts, commits, faults, intrusions and scenario requests,
from `DemoAssumption` (the two writers exist; bounds are numbers).

* `DemoProofs`: `Invariance` proves `Inv`, the conjunction of one invariant per
  component: `DbOK` (at most one upgrade runs, and it saw the schema as it is),
  `BranchOK` (a command that is about to commit has its goal in the worktree),
  `JobOK` (past the gates the target is gated, every answer used so far came
  from the attempt's own build, and the number of requests sent belongs to the
  step), `EvidenceOK` (events name attempts that exist), `SlotOK`
  (slot and late writes hold gated commits only). None of `DeployedWasGated` and
  `FaultTrafficIsObservable` is inductive: the first needs that what is late was
  gated, and that commits are never changed (lemma `NewCommit`); the second
  needs the bound on the requests sent. From it follow `SerialUpgrades`,
  `OnlyGatedIsServed`, `ReportsAreReal` and `TrafficIsObserved`.
* `DemoLedgerProofs`: `LedgerInvariance` proves `LedgerOK`: a record on its way,
  in an artifact, in a process or among the late writes, is justified already
  (`RecordsOK`), whether it is a deployment's or a recovery's, and an attempt of an
  issue is announced before its first write (`AttemptOK`). Nothing is assumed of
  the order of records, nor of which files operators record. From it follow
  `TypeCorrectness` and `Refinement`, that every step is a step of
  `RecoveryLedger` or leaves the ledger alone. A comment that arrives late from
  an attempt that ended is covered because claims are never withdrawn.
* `DemoLedgerProofs` also has what `timeline` makes of a listing of any length
  (`RowsTell`), for deployments, recoveries and handoffs, and what
  `pull_request_rows` makes of any answers about checks (`ChecksTell`). The loop
  of `timeline` is a fold. The library's induction theorems take an operator as
  a parameter and cannot be applied, so the lemmas argue from the smallest
  counterexample instead (`SmallestNat`): `FoldExists` builds the recursive
  function behind the fold one index at a time, `Loop` reads the states of the
  loop off it, and `ListingTells` carries the loop's invariant `Tells` from one
  comment to the next (`ReadTells`). The hypothesis `OneKind` is that records of
  one event_id are all handoffs or none is; the id begins with the kind.
  `TimelineTruth` (`TimelineTellsTheTruth`) applies them to every state.

Only model-checked: `AttemptEnds` and `Recovers`, which need fairness.

## 6. Task API and smoke check

### Modules

* `TaskApi`: the handlers of `src/routes/tasks.py`, each request in a database
  session of its own. The point is `get_db`: FastAPI runs the end of a
  dependency with `yield` after the response is sent, so the commit follows the
  answer. Isolation is READ COMMITTED, PostgreSQL's default, which nothing in
  the repository changes.
* `SmokeCrud`: `check_crud` and the listing of `check_endpoint`, request by
  request, with other users of the same service.
* `MCTaskApi` gives the constants values; `TaskProofs` holds the theorems.

### State and actions

| TLA+ | Code |
|---|---|
| `rows` | the committed rows; a description names its author, as the smoke check's marker does |
| `sessions[s]` | a connection: its request, and the step its handler is at; `row` is what `update_task` selected, `total` what `list_tasks` counted |
| `inbox[c]` | a client's outstanding request and its answer |
| `Create`, `Get`, `Count`, `Page`, `Select`, `Flush` | the statements of the handlers, one step each |
| `Written`, `Changed` | SQLAlchemy's UPDATE: the columns that differ from the selected row |
| `Commit` | the end of `get_db`; the DELETE is sent here, and an update's row lock ends here |
| `Rollback`, `GiveUp` | a statement or a commit that fails; a client's time limit |
| `pc`, `task_id`, `failure` | the next request of `check_crud`, its sample, and the exception on its way through the finally block |
| `OnCreate` ... `OnList` | what each answer leads to |
| `foreign` | history: at the cleanup the sample was no longer the check's |
| `UserSends` | other users: create, change of a description or a status, delete |

Abstracted: titles, pages after the first, request validation, the exact text of
reports. External: the behaviour of FastAPI, SQLAlchemy and PostgreSQL is
modelled as far as the handlers use it.

### Runs

| Run | Instance | Question |
|---|---|---|
| `task_api` | 3 sessions, one check, 2 user requests, 1 fault | what a passing check proves, what an update writes, whether the check ends |
| `task_cleanup` | 2 sessions, one check alone, no fault | violation: a failed check leaves its sample behind |

Bounds. Three sessions let the check meet two users at once; two user requests
are an update racing a delete, or two updates. One fault is one lost answer, one
failed statement or one failed commit, anywhere. `PerPage = 1` lets the check
list a table that is longer than a page. `MaxId` is the number of creates there
can be.
Deadlock is not checked: the check ends and users stop.

Fairness: weak fairness of the check's steps and of each session's steps: the
check is one process that runs to its end, and every statement ends by itself or
by `statement_timeout`. Nothing is assumed of users and faults.

### Properties

* `PassedLeavesNothing` holds although create, update and delete are each
  answered before they are committed: the check reads its sample before it
  changes it, and reads again after the delete.
* `TakenOverIsKept`: the cleanup looks at the owner before it deletes. A user may
  still take the sample over between the look and the delete; that is a hazard
  of the code that the property does not hide, it speaks of the look.
* `UserEditSurvives`, `DeletedStaysDeleted`: what a concurrent update may not
  undo. `QuietListingAgrees`: the two statements of a listing agree if nothing
  is committed between them; otherwise they may not, and the model lets them. A
  page shorter than the table occurs in the run; the theorem `QuietListings` is
  for every table and page size.
* `CheckEnds`: the check waits for no lock and no connection for ever. Sessions
  that started go on (fairness); one that is stopped is ended by the client's and
  the statement's time limits, which are not modelled.

### Where the code and its tests disagree

`FailureCleansUp` (`tests/test_delivery.py:106` and `:149`): "cleans only its
record even after failure" holds against a mocked service. Against `get_db`, the
read that follows the create may come before its commit. The check then fails,
its cleanup reads 404 as well and has nothing to do, and the row appears
afterwards. `task_cleanup` shows it with no other client and no fault.

### Proofs

All in `TaskProofs`, for any number of sessions, rows, requests and faults, from
`SmokeAssumption` (the check and the user are two clients; `None` is none of the
values it stands beside), `TaskAssumption` (`PerPage` is positive, which the
query parameter's `ge=1` enforces) and `BoundAssumption` (`MaxId` has room for
the check's row and one per request of the user; it names a bound of the model,
and only `TypeCorrectness` needs it).

* `Transactions` proves `TaskInv`. Its part `LocksOK` is what the properties need:
  an uncommitted insert has an identifier of its own that no row has, and an
  uncommitted update has a row, because a delete waits for its lock. `SessionOK`
  says which operation a session at each step has. From it, with the lemma
  `CommitRows` on what a commit makes of the table, follow `NoResurrection`
  (`DeletedStaysDeleted`) and `NoLostEdit` (`UserEditSurvives`).
* `Knowledge` proves `CheckInv`: what the check knows at each of its steps is
  still true. An identifier is `Settled` when no session is about to insert it;
  the check knows that since its first successful read, and lemma `Stable` keeps
  it. `WaitOK` ties the answer in the inbox to the request that was sent, also
  after an earlier request was given up. From it follow `CleanPass`
  (`PassedLeavesNothing`) and `TakenOverKept` (`TakenOverIsKept`).

* `QuietListings` (`QuietListingAgrees`): until somebody commits, the count of a
  listing is the number of rows that its page statement selects from
  (`QuietOK`). Lemma `PageSize` then counts the page: the rows with fewer than
  `PerPage` matches above them are all of the matches, or exactly `PerPage`,
  since the number of matches above a row numbers the rows from 0.
* `TypeCorrectness` (`TypeOK`): the identifiers stay within `MaxId` because each
  row, each session about to insert one, and the create that the check has not
  sent yet stem from one request each (`BoundsOK`).

Only model-checked: `CheckEnds`, which needs fairness.

## 7. Not modelled, and why

* **Packaging** `scripts/package.py`: sequential file output of one process.
* **Preflight** `scripts/preflight.py`, `scripts/oidc_subject.py`: reads and a
  report; nothing is written and nothing depends on an order.
* **Infrastructure**: declarative templates and operator scripts, executed by
  Azure.
* Of **traffic**: the healthy mode, which `demo.yml` does not use, the time
  budget, and correlation identifiers.
* Of **incidents**: parsing and rendering. A document is a model value with its
  fingerprint; the thresholds are in `DemoSlot`.
* Of **middleware and telemetry**: log formats and export. The identity headers
  and the error answer are part of every modelled answer.
* Of **evidence**: an issue with more than 2000 comments, where `pages` gives up
  and every later command fails; URL validation; Markdown.
* Of **release policy**: reviewers and branch policies, which are reads that
  refuse; a refusal is a failed job.
* Of **migration**: the SQL of a revision; the time limits as numbers.
