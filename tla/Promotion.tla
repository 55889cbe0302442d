----------------------------- MODULE Promotion -----------------------------
(***************************************************************************)
(* The Azure release of .github/workflows/cd.yml: policy check, staging,   *)
(* approval and scripts/promote.py, which migrates production, swaps the   *)
(* slots, verifies and rolls back.                                         *)
(*                                                                         *)
(* Commits of the default branch are numbered in the order they are pushed *)
(* and each has one workflow run, which may be attempted several times.    *)
(* A commit stands for its artifact.  Requests that end without an answer, *)
(* failed checks and killed jobs are faults.                               *)
(***************************************************************************)
EXTENDS Naturals

CONSTANTS
    Last,           \* the last commit that is pushed
    RevisionOf,     \* RevisionOf[c]: SCHEMA_REVISION of commit c
    None,           \* no artifact in a slot, no previous identity
    AllowInitialDeployment, \* the repository variable of that name
    Reconciled,     \* the writes, "swap" or "deployment", that operators settle
                    \* when their result is unknown, before the next attempt
    StaleReruns,    \* failed staging jobs of superseded commits are rerun too
    MaxAttempts, MaxFaults  \* bounds

Commit == 0 .. Last     \* 0 is released already, or nothing is (see Init)
Release == 1 .. Last
Slot == {"production", "staging"}

ASSUME PromotionAssumption ==
    /\ Last \in Nat
    /\ RevisionOf \in [Commit -> Nat \ {0}]
    /\ \A b, c \in Commit : b <= c => RevisionOf[b] <= RevisionOf[c]
    /\ None \notin Commit
    /\ {AllowInitialDeployment, StaleReruns} \subseteq BOOLEAN
    /\ Reconciled \subseteq {"swap", "deployment"}
    /\ MaxAttempts \in Nat /\ MaxFaults \in Nat

VARIABLES
    head,       \* the head of the default branch
    slots,      \* slots[s]: the artifact that slot s serves
    schema,     \* schema[s]: the revision of slot s's database, 0 if empty
    swapping,   \* Azure may still execute a swap whose client gave up
    deploying,  \* artifacts whose deployment to staging Azure may still execute
    jobs,       \* jobs[c]: the latest attempt of commit c's workflow run
    tested,     \* commits whose staging verification passed
    approved,   \* commits whose production job was approved
    attempts, faults

azure == <<slots, schema, swapping, deploying>>
history == <<tested, approved>>
vars == <<head, azure, jobs, history, attempts, faults>>

-----------------------------------------------------------------------------
(* One attempt: its current step, and the report promote writes.           *)

StagingSteps == {"migrate-staging", "deploy", "smoke"}
ProductionSteps == {"approval", "recheck", "identify", "migrate", "swap",
                    "verify", "rollback", "verify-rollback", "verify-staging"}
Steps == {"preflight"} \cup StagingSteps \cup ProductionSteps

JobStatus == {"none", "preflight_failed", "staging_failed", "production_failed",
              "blocked_missing_previous_identity", "migration_failed_no_swap",
              "swap_state_unknown_operator_reconciliation_required",
              "verification_failed",
              "production_verified_staging_restore_failed", "verified"}
RollbackStatus == {"not_attempted", "unavailable_initial_deployment",
                   "blocked_unknown_or_incompatible_schema",
                   "failed_operator_intervention_required",
                   "verified_previous_application"}
Job == [pc : Steps \cup {"ended"}, previous : Commit \cup {None},
        status : JobStatus, rollback : RollbackStatus]

At(c, p) == jobs[c].pc = p
Active(c) == jobs[c].pc # "ended"
Become(c, j) == jobs' = [jobs EXCEPT ![c] = j]
Goto(c, p) == Become(c, [jobs[c] EXCEPT !.pc = p])
Ending(j, status) == [j EXCEPT !.pc = "ended", !.status = status]

\* A new attempt, or a rerun of one job and those that need it.
Attempt(p) == [pc |-> p, previous |-> None, status |-> "none",
               rollback |-> "not_attempted"]

\* /ready of a slot: the database has exactly the revision its artifact expects.
Ready(s) == slots[s] # None /\ schema[s] = RevisionOf[slots[s]]

\* run_checks of commit c's scripts accept artifact b in slot s.
Serves(s, b, c) == /\ Ready(s) /\ slots[s] = b
                   /\ RevisionOf[b] = RevisionOf[c]

\* Mutant of Unverified: a missing identity counts as a compatible one.
UnverifiedUnidentified(j, c) ==
    IF j.previous = None \/ RevisionOf[j.previous] = RevisionOf[c]
      THEN [j EXCEPT !.pc = "rollback", !.status = "verification_failed"]
      ELSE [Ending(j, "verification_failed") EXCEPT
              !.rollback = "blocked_unknown_or_incompatible_schema"]

\* Mutant of Unverified: the previous artifact's schema is not looked at.
UnverifiedAnySchema(j, c) ==
    IF j.previous # None
      THEN [j EXCEPT !.pc = "rollback", !.status = "verification_failed"]
      ELSE [Ending(j, "verification_failed") EXCEPT
              !.rollback = "blocked_unknown_or_incompatible_schema"]

\* A failed verification: swap back only if the schema is the previous one's.
Unverified(j, c) ==
    IF j.previous # None /\ RevisionOf[j.previous] = RevisionOf[c]
      THEN [j EXCEPT !.pc = "rollback", !.status = "verification_failed"]
      ELSE [Ending(j, "verification_failed") EXCEPT
              !.rollback = "blocked_unknown_or_incompatible_schema"]

\* Production's previous identity is missing.
Unidentified(j) ==
    IF AllowInitialDeployment
      THEN [j EXCEPT !.pc = "migrate",
                     !.rollback = "unavailable_initial_deployment"]
      ELSE Ending(j, "blocked_missing_previous_identity")

\* What follows when the current step of c's attempt fails.
Failed(c) ==
    LET j == jobs[c] IN
    CASE At(c, "preflight")      -> Ending(j, "preflight_failed")
      [] j.pc \in StagingSteps   -> Ending(j, "staging_failed")
      [] At(c, "approval") \/ At(c, "recheck") -> Ending(j, "production_failed")
      [] At(c, "identify")       -> Unidentified(j)
      [] At(c, "migrate")        -> Ending(j, "migration_failed_no_swap")
      [] At(c, "swap")           ->
           Ending(j, "swap_state_unknown_operator_reconciliation_required")
      [] At(c, "verify")         -> Unverified(j, c)
      [] At(c, "rollback") \/ At(c, "verify-rollback") ->
           [Ending(j, "verification_failed") EXCEPT
              !.rollback = "failed_operator_intervention_required"]
      [] At(c, "verify-staging") ->
           Ending(j, "production_verified_staging_restore_failed")

-----------------------------------------------------------------------------
(* Attempts: the concurrency group azure-release admits one at a time.     *)

Push ==
    /\ head < Last
    /\ head' = head + 1
    /\ UNCHANGED <<azure, jobs, history, attempts, faults>>

\* What operators have waited for.
Settled == /\ "swap" \in Reconciled => ~swapping
           /\ "deployment" \in Reconciled => deploying = {}

\* Mutant of Admitted: the workflow has no concurrency group.
AdmittedAnyway(c) ==
    /\ c <= head /\ ~Active(c)
    /\ Settled
    /\ attempts < MaxAttempts /\ attempts' = attempts + 1

Admitted(c) ==
    /\ c <= head /\ \A d \in Release : ~Active(d)
    /\ Settled
    /\ attempts < MaxAttempts /\ attempts' = attempts + 1

\* The push's own workflow run, or "re-run all jobs".
Start(c) ==
    /\ Admitted(c)
    /\ Become(c, Attempt("preflight"))
    /\ UNCHANGED <<head, azure, history, faults>>

\* "Re-run failed jobs" repeats the failed job only: the preflight, or the
\* staging job, that succeeded is not repeated.
RerunStaging(c) ==
    /\ jobs[c].status = "staging_failed"
    /\ StaleReruns \/ c = head
    /\ Admitted(c)
    /\ Become(c, Attempt("migrate-staging"))
    /\ UNCHANGED <<head, azure, history, faults>>

RerunProduction(c) ==
    /\ jobs[c].status \notin {"none", "preflight_failed", "staging_failed",
                              "verified"}
    /\ Admitted(c)
    /\ Become(c, Attempt("approval"))
    /\ UNCHANGED <<head, azure, history, faults>>

-----------------------------------------------------------------------------
(* The steps of an attempt                                                 *)

\* verify_release: the gated commit must be the head.
Preflight(c) ==
    /\ At(c, "preflight")
    /\ IF head = c THEN Goto(c, "migrate-staging") ELSE Become(c, Failed(c))
    /\ UNCHANGED <<head, azure, history, attempts, faults>>

\* alembic upgrade head: an older checkout does not know a newer revision.
Upgradable(s, c) == schema[s] <= RevisionOf[c]
Upgrade(s, c) == schema' = [schema EXCEPT ![s] = RevisionOf[c]]

MigrateStaging(c) ==
    /\ At(c, "migrate-staging")
    /\ IF Upgradable("staging", c)
         THEN Upgrade("staging", c) /\ Goto(c, "deploy")
         ELSE UNCHANGED schema /\ Become(c, Failed(c))
    /\ UNCHANGED <<head, slots, swapping, deploying, history, attempts, faults>>

DeployTo(c) == slots' = [slots EXCEPT !["staging"] = c]

Deploy(c) ==
    /\ At(c, "deploy")
    /\ DeployTo(c)
    /\ Goto(c, "smoke")
    /\ UNCHANGED <<head, schema, swapping, deploying, history, attempts, faults>>

Smoke(c) ==
    /\ At(c, "smoke")
    /\ IF Serves("staging", c, c)
         THEN Goto(c, "approval") /\ tested' = tested \cup {c}
         ELSE Become(c, Failed(c)) /\ UNCHANGED tested
    /\ UNCHANGED <<head, azure, approved, attempts, faults>>

\* The reviewers of environment production.
Approve(c) ==
    /\ At(c, "approval")
    /\ Goto(c, "recheck")
    /\ approved' = approved \cup {c}
    /\ UNCHANGED <<head, azure, tested, attempts, faults>>

Reject(c) ==
    /\ At(c, "approval")
    /\ Become(c, Failed(c))
    /\ UNCHANGED <<head, azure, history, attempts, faults>>

\* Mutant of Recheck: the approval is not followed by a second policy check.
RecheckNothing(c) ==
    /\ At(c, "recheck")
    /\ Goto(c, "identify")
    /\ UNCHANGED <<head, azure, history, attempts, faults>>

Recheck(c) ==
    /\ At(c, "recheck")
    /\ IF head = c THEN Goto(c, "identify") ELSE Become(c, Failed(c))
    /\ UNCHANGED <<head, azure, history, attempts, faults>>

\* GET /ready of production: the previous identity.
Identify(c) ==
    /\ At(c, "identify")
    /\ Become(c, IF Ready("production")
                   THEN [jobs[c] EXCEPT !.pc = "migrate",
                                        !.previous = slots["production"]]
                   ELSE Failed(c))
    /\ UNCHANGED <<head, azure, history, attempts, faults>>

\* Mutant of Migrate: production is swapped without its migration.
MigrateNothing(c) ==
    /\ At(c, "migrate")
    /\ Goto(c, "swap")
    /\ UNCHANGED <<head, azure, history, attempts, faults>>

Migrate(c) ==
    /\ At(c, "migrate")
    /\ IF Upgradable("production", c)
         THEN Upgrade("production", c) /\ Goto(c, "swap")
         ELSE UNCHANGED schema /\ Become(c, Failed(c))
    /\ UNCHANGED <<head, slots, swapping, deploying, history, attempts, faults>>

\* The slots exchange their artifacts; settings and databases stay.
Exchange == slots' = [s \in Slot |-> slots[CHOOSE t \in Slot : t # s]]

\* Azure refuses a swap while another one is in progress.
Swap(c) ==
    /\ At(c, "swap")
    /\ IF swapping THEN UNCHANGED slots /\ Become(c, Failed(c))
                   ELSE Exchange /\ Goto(c, "verify")
    /\ UNCHANGED <<head, schema, swapping, deploying, history, attempts, faults>>

\* Mutant of Verify: production alone makes a release verified.
VerifyAlone(c) ==
    /\ At(c, "verify")
    /\ Become(c, IF Serves("production", c, c) THEN Ending(jobs[c], "verified")
                                               ELSE Failed(c))
    /\ UNCHANGED <<head, azure, history, attempts, faults>>

\* Mutant of Verify: a failed verification is not followed by a rollback.
VerifyNoRollback(c) ==
    /\ At(c, "verify")
    /\ Become(c, IF Serves("production", c, c)
                   THEN [jobs[c] EXCEPT !.pc = "verify-staging"]
                   ELSE Ending(jobs[c], "verification_failed"))
    /\ UNCHANGED <<head, azure, history, attempts, faults>>

\* run_checks on production; an initial deployment ends here.
Verify(c) ==
    /\ At(c, "verify")
    /\ Become(c, IF ~Serves("production", c, c) THEN Failed(c)
                 ELSE IF jobs[c].previous = None
                   THEN Ending(jobs[c], "verified")
                 ELSE [jobs[c] EXCEPT !.pc = "verify-staging"])
    /\ UNCHANGED <<head, azure, history, attempts, faults>>

Rollback(c) ==
    /\ At(c, "rollback")
    /\ IF swapping THEN UNCHANGED slots /\ Become(c, Failed(c))
                   ELSE Exchange /\ Goto(c, "verify-rollback")
    /\ UNCHANGED <<head, schema, swapping, deploying, history, attempts, faults>>

VerifyRollback(c) ==
    /\ At(c, "verify-rollback")
    /\ Become(c, IF Serves("production", jobs[c].previous, c)
                   THEN [Ending(jobs[c], "verification_failed") EXCEPT
                           !.rollback = "verified_previous_application"]
                   ELSE Failed(c))
    /\ UNCHANGED <<head, azure, history, attempts, faults>>

\* run_checks on staging: the previous artifact must be back there.
VerifyStaging(c) ==
    /\ At(c, "verify-staging")
    /\ Become(c, IF Serves("staging", jobs[c].previous, c)
                   THEN Ending(jobs[c], "verified")
                   ELSE Failed(c))
    /\ UNCHANGED <<head, azure, history, attempts, faults>>

-----------------------------------------------------------------------------
(* Faults                                                                  *)

Fault == faults < MaxFaults /\ faults' = faults + 1

\* A write in progress is executed, or not; a swap or a deployment may also be
\* executed later.
Unfinished(c) ==
    CASE jobs[c].pc \in {"migrate-staging", "migrate"} ->
           LET s == IF At(c, "migrate") THEN "production" ELSE "staging" IN
             /\ (Upgradable(s, c) /\ Upgrade(s, c)) \/ UNCHANGED schema
             /\ UNCHANGED <<slots, swapping, deploying>>
      [] At(c, "deploy") ->
           /\ \/ DeployTo(c) /\ UNCHANGED deploying
              \/ UNCHANGED slots /\ deploying' \in {deploying, deploying \cup {c}}
           /\ UNCHANGED <<schema, swapping>>
      [] jobs[c].pc \in {"swap", "rollback"} ->
           /\ \/ ~swapping /\ Exchange /\ UNCHANGED swapping
              \/ UNCHANGED slots /\ swapping' \in {swapping, TRUE}
           /\ UNCHANGED <<schema, deploying>>
      [] OTHER -> UNCHANGED azure

\* A request fails, or a check fails for a reason the artifact is not to blame
\* for: the job observes it.
Break(c) ==
    /\ jobs[c].pc \in Steps \ {"approval"}
    /\ Fault
    /\ Unfinished(c)
    /\ Become(c, Failed(c))
    /\ UNCHANGED <<head, history, attempts>>

\* The job is cancelled, times out or loses its runner: no report is written.
Kill(c) ==
    /\ Active(c)
    /\ Fault
    /\ Unfinished(c)
    /\ Become(c, Ending(jobs[c],
                        IF At(c, "preflight") THEN "preflight_failed"
                        ELSE IF jobs[c].pc \in StagingSteps THEN "staging_failed"
                        ELSE "production_failed"))
    /\ UNCHANGED <<head, history, attempts>>

\* Azure finishes the swap nobody waits for any more, or gives it up.
Settle ==
    /\ swapping
    /\ swapping' = FALSE
    /\ Exchange \/ UNCHANGED slots
    /\ UNCHANGED <<head, schema, deploying, jobs, history, attempts, faults>>

\* The same for a deployment.
Land ==
    /\ \E c \in deploying : /\ deploying' = deploying \ {c}
                            /\ DeployTo(c) \/ UNCHANGED slots
    /\ UNCHANGED <<head, schema, swapping, jobs, history, attempts, faults>>

-----------------------------------------------------------------------------

\* Commit 0 is in production and behind it in staging, or Azure is empty.
Init ==
    /\ head = 0
    /\ \E b \in {0, None} :
         /\ slots = [s \in Slot |-> b]
         /\ schema = [s \in Slot |-> IF b = None THEN 0 ELSE RevisionOf[0]]
    /\ swapping = FALSE /\ deploying = {}
    /\ jobs = [c \in Release |-> Ending(Attempt("ended"), "none")]
    /\ tested = {0} /\ approved = {0}
    /\ attempts = 0 /\ faults = 0

\* What the attempt of commit c does by itself once it runs.
Step(c) ==
    \/ Preflight(c) \/ MigrateStaging(c) \/ Deploy(c) \/ Smoke(c)
    \/ Recheck(c) \/ Identify(c) \/ Migrate(c) \/ Swap(c) \/ Verify(c)
    \/ Rollback(c) \/ VerifyRollback(c) \/ VerifyStaging(c)

Next ==
    \/ Push \/ Settle \/ Land
    \/ \E c \in Release : \/ Start(c) \/ RerunStaging(c) \/ RerunProduction(c)
                          \/ Approve(c) \/ Reject(c)
                          \/ Step(c)
                          \/ Break(c) \/ Kill(c)

Spec == Init /\ [][Next]_vars

\* A job that runs is brought to its end.  Nobody has to push, to rerun, to
\* approve, and no abandoned swap or deployment has to finish.
FairSpec == Spec /\ \A c \in Release : WF_vars(Step(c))

-----------------------------------------------------------------------------
(* Properties                                                              *)

\* The shape of the state.  Only an attempt that identified a previous artifact
\* swaps back, or waits for that artifact in a slot.
TypeOK ==
    /\ head \in Commit
    /\ slots \in [Slot -> Commit \cup {None}]
    /\ schema \in [Slot -> Nat]
    /\ swapping \in BOOLEAN /\ deploying \subseteq Commit
    /\ jobs \in [Release -> Job]
    /\ \A c \in Release :
         jobs[c].pc \in {"rollback", "verify-rollback", "verify-staging"}
             => jobs[c].previous # None
    /\ tested \subseteq Commit /\ approved \subseteq Commit
    /\ attempts \in 0 .. MaxAttempts /\ faults \in 0 .. MaxFaults

\* "Production ... swaps the tested application" after its approval
\* (docs/architecture.md): whatever is rerun, killed or unanswered, production
\* only ever serves an artifact that passed staging and was approved.
ProductionIsTested ==
    slots["production"] \in {None} \cup (tested \cap approved)

\* "CD never runs" a downgrade, and migrates before it swaps
\* (docs/architecture.md): whichever artifact a swap, a rollback or a rerun
\* puts into production, its schema is there, even if it is not the newest.
SchemaCovers ==
    slots["production"] # None
        => RevisionOf[slots["production"]] <= schema["production"]

\* "A supported app failure swaps back and verifies the previous build"
\* (docs/architecture.md): after the swap back production serves the artifact
\* that was identified before the migration, and its schema is the one it
\* expects: the second verification can only fail by a fault.
RollbackRestores ==
    \A c \in Release :
        At(c, "verify-rollback") => Serves("production", jobs[c].previous, c)

\* "Production captures the previous healthy build, applies its database
\* migration, swaps" (docs/architecture.md), and what it captured decides on the
\* rollback long after: until the swap is sent, production serves that build,
\* whatever earlier attempts left behind and still lands in staging.
IdentityHolds ==
    \A c \in Release :
        jobs[c].pc \in {"migrate", "swap"} /\ jobs[c].previous # None
            => slots["production"] = jobs[c].previous

\* A release that reports "verified" has its artifact in production and the
\* identified one in staging at that moment, also if a swap of an earlier
\* attempt, which its client gave up, was executed in between.
VerifiedIsServing ==
    [][\A c \in Release :
          Active(c) /\ jobs'[c].status = "verified"
              => /\ Serves("production", c, c)
                 /\ jobs[c].previous # None
                      => slots["staging"] = jobs[c].previous]_jobs

\* Approved attempts of the last commit, after the last fault and behind an
\* identifiable production, with their artifact in one of the slots.
Promising(c) ==
    /\ At(c, "recheck") /\ c = Last /\ head = c
    /\ faults = MaxFaults /\ ~swapping /\ deploying = {} /\ Ready("production")
    /\ c \in {slots["staging"], slots["production"]}
    /\ schema["production"] <= RevisionOf[c]

\* Such an attempt leaves its artifact in production and ready, in whatever
\* state earlier attempts of the same commit left the slots, even when it has
\* to swap twice for it.
RetryPromotes ==
    \A c \in Release :
        Promising(c) ~> ~Active(c) /\ Serves("production", c, c)

\* "Use additive, backward-compatible expand/contract migrations while old and
\* new artifacts coexist" (docs/azure-setup.md): a release to which nothing
\* happened does not end with a failed restoration of staging.
CleanReleaseVerifies ==
    faults = 0 => \A c \in Release :
        jobs[c].status # "production_verified_staging_restore_failed"

\* "An uncertain control-plane swap result is never blindly retried with
\* another reciprocal swap" (docs/architecture.md): a promotion's swap does not
\* take its own artifact out of production again.
NeverSwapsBack ==
    [][\A c \in Release :
          At(c, "swap") /\ slots["production"] = c
              => slots'["production"] = c]_slots
=============================================================================
