-------------------------- MODULE PromotionTested --------------------------
(***************************************************************************)
(* Two more theorems about Promotion, for every value of its constants:    *)
(* what a verified release leaves behind, whoever reconciles, and what     *)
(* production may serve, if operators settle unknown swaps and staging     *)
(* deployments and do not rerun failed staging jobs of superseded commits. *)
(***************************************************************************)
EXTENDS PromotionProofs

\* The attempt's state after a step that succeeds: only its step changes.
LEMMA GoingStatus ==
    ASSUME NEW c \in Release, jobs[c] \in Job, NEW p \in Steps
    PROVE  LET j == [jobs[c] EXCEPT !.pc = p] IN
             j \in Job /\ j.pc = p /\ j.status = jobs[c].status
BY DEF Job

\* The attempt's state after it ends with some status.
LEMMA EndingStatus ==
    ASSUME NEW c \in Release, jobs[c] \in Job, NEW status \in JobStatus
    PROVE  /\ Ending(jobs[c], status) \in Job
           /\ Ending(jobs[c], status).pc = "ended"
           /\ Ending(jobs[c], status).status = status
           /\ \A rollback \in RollbackStatus :
                LET j == [Ending(jobs[c], status) EXCEPT !.rollback = rollback] IN
                  j \in Job /\ j.pc = "ended" /\ j.status = status
BY DEF Job, Ending

\* Statuses of attempts that did not get past the staging job.
Unstaged == {"none", "preflight_failed", "staging_failed"}

\* A failed step reports a failure, and one of the production job only if the
\* attempt was in that job.
LEMMA FailedStatus ==
    ASSUME NEW c \in Release, jobs[c] \in Job, Active(c)
    PROVE  /\ Failed(c).status = "verified" => jobs[c].status = "verified"
           /\ jobs[c].pc \notin ProductionSteps => Failed(c).status \in Unstaged
<1> USE DEF At, Active
<1>1. jobs[c].pc \in Steps
  BY DEF Job
<1>2. CASE At(c, "identify")
  <2>1. Failed(c) = Unidentified(jobs[c])
    BY <1>2 DEF Failed, StagingSteps
  <2>2. CASE AllowInitialDeployment
    <3>1. Failed(c) = [jobs[c] EXCEPT !.pc = "migrate",
                                      !.rollback = "unavailable_initial_deployment"]
      BY <2>1, <2>2 DEF Unidentified
    <3> QED
      BY <3>1, <1>2 DEF Job, ProductionSteps
  <2>3. CASE ~AllowInitialDeployment
    <3>1. Failed(c) = Ending(jobs[c], "blocked_missing_previous_identity")
      BY <2>1, <2>3 DEF Unidentified
    <3> QED
      BY <3>1, <1>2, EndingStatus DEF JobStatus, ProductionSteps
  <2> QED
    BY <2>2, <2>3
<1>3. CASE At(c, "verify")
  <2>1. Failed(c) = Unverified(jobs[c], c)
    BY <1>3 DEF Failed, StagingSteps
  <2>2. CASE /\ jobs[c].previous # None
             /\ RevisionOf[jobs[c].previous] = RevisionOf[c]
    <3>1. Failed(c) = [jobs[c] EXCEPT !.pc = "rollback",
                                      !.status = "verification_failed"]
      BY <2>1, <2>2 DEF Unverified
    <3> QED
      BY <3>1, <1>3 DEF Job, ProductionSteps
  <2>3. CASE ~(/\ jobs[c].previous # None
               /\ RevisionOf[jobs[c].previous] = RevisionOf[c])
    <3>1. Failed(c) = [Ending(jobs[c], "verification_failed") EXCEPT
                         !.rollback = "blocked_unknown_or_incompatible_schema"]
      BY <2>1, <2>3 DEF Unverified
    <3>2. /\ "verification_failed" \in JobStatus
          /\ "blocked_unknown_or_incompatible_schema" \in RollbackStatus
      BY DEF JobStatus, RollbackStatus
    <3> QED
      BY <3>1, <3>2, <1>3, EndingStatus DEF ProductionSteps
  <2> QED
    BY <2>2, <2>3
<1>4. CASE At(c, "rollback") \/ At(c, "verify-rollback")
  <2>1. Failed(c) = [Ending(jobs[c], "verification_failed") EXCEPT
                       !.rollback = "failed_operator_intervention_required"]
    BY <1>4 DEF Failed, StagingSteps
  <2>2. /\ "verification_failed" \in JobStatus
        /\ "failed_operator_intervention_required" \in RollbackStatus
    BY DEF JobStatus, RollbackStatus
  <2> QED
    BY <2>1, <2>2, <1>4, EndingStatus DEF ProductionSteps
<1>5. CASE At(c, "preflight")
  <2>1. Failed(c) = Ending(jobs[c], "preflight_failed")
    BY <1>5 DEF Failed, StagingSteps
  <2>2. "preflight_failed" \in JobStatus /\ "preflight_failed" \in Unstaged
    BY DEF JobStatus, Unstaged
  <2>3. Failed(c).status = "preflight_failed"
    BY <2>1, <2>2, EndingStatus
  <2> QED
    BY <2>2, <2>3
<1>6. CASE jobs[c].pc \in StagingSteps
  <2>1. Failed(c) = Ending(jobs[c], "staging_failed")
    BY <1>6 DEF Failed, StagingSteps
  <2>2. "staging_failed" \in JobStatus /\ "staging_failed" \in Unstaged
    BY DEF JobStatus, Unstaged
  <2>3. Failed(c).status = "staging_failed"
    BY <2>1, <2>2, EndingStatus
  <2> QED
    BY <2>2, <2>3
<1>7. CASE jobs[c].pc \in {"approval", "recheck", "migrate", "swap",
                           "verify-staging"}
  <2>1. \E status \in JobStatus \ {"verified"} :
          Failed(c) = Ending(jobs[c], status)
    <3>1. CASE At(c, "approval") \/ At(c, "recheck")
      BY <3>1 DEF Failed, JobStatus, StagingSteps
    <3>2. CASE At(c, "migrate")
      BY <3>2 DEF Failed, JobStatus, StagingSteps
    <3>3. CASE At(c, "swap")
      BY <3>3 DEF Failed, JobStatus, StagingSteps
    <3>4. CASE At(c, "verify-staging")
      BY <3>4 DEF Failed, JobStatus, StagingSteps
    <3> QED
      BY <1>7, <3>1, <3>2, <3>3, <3>4
  <2> QED
    BY <1>7, <2>1, EndingStatus DEF ProductionSteps
<1> QED
  BY <1>1, <1>2, <1>3, <1>4, <1>5, <1>6, <1>7
     DEF Steps, ProductionSteps, StagingSteps

-----------------------------------------------------------------------------
(* A verified release serves.                                              *)

\* Steps after the attempt's own swap.
Swapped == {"verify", "rollback", "verify-rollback", "verify-staging"}

\* Nothing is verified before its last step, no abandoned swap is left once
\* the attempt's own was accepted, and production was verified before staging.
Stands(j, c) ==
    /\ j.pc # "ended" => j.status # "verified"
    /\ j.pc \in Swapped => ~swapping
    /\ j.pc = "verify-staging" => Serves("production", c, c)

\* The concurrency group of azure-release.
OneAttempt == \A c, d \in Release : Active(c) /\ Active(d) => c = d

StandInv == TypeOK /\ OneAttempt /\ \A c \in Release : Stands(jobs[c], c)

\* The attempt of c moves to a state that stands, and no other is active.
LEMMA StandMoving ==
    ASSUME TypeOK, TypeOK', NEW c \in Release,
           \A d \in Release : Active(d) => d = c,
           NEW j \in Job, Become(c, j), Stands(j, c)'
    PROVE  StandInv'
<1>1. /\ jobs'[c] = j
      /\ \A d \in Release : d # c => jobs'[d] = jobs[d] /\ jobs[d].pc = "ended"
  BY DEF TypeOK, Become, Active
<1>2. OneAttempt'
  BY <1>1 DEF OneAttempt, Active
<1>3. ASSUME NEW d \in Release PROVE Stands(jobs[d], d)'
  <2>1. CASE d = c
    BY <1>1, <2>1 DEF Stands
  <2>2. CASE d # c
    BY <1>1, <2>2 DEF Stands, Swapped
  <2> QED
    BY <2>1, <2>2
<1> QED
  BY <1>2, <1>3 DEF StandInv

\* A failed step goes on, if at all, with the slots as they are.
LEMMA FailedStands ==
    ASSUME StandInv, NEW c \in Release, Active(c),
           At(c, "verify") => UNCHANGED swapping
    PROVE  \E j \in Job : j = Failed(c) /\ Stands(j, c)'
<1>1. jobs[c] \in Job /\ Stands(jobs[c], c)
  BY DEF StandInv, TypeOK
<1>2. PICK j \in Job : j = Failed(c)
  BY <1>1, FailedJob
<1>3. /\ j.pc \in Swapped => At(c, "verify")
      /\ j.pc # "verify-staging" /\ j.status # "verified"
  BY <1>1, <1>2, FailedJob, FailedStatus DEF Stands, Swapped, Active, At
<1>4. Stands(j, c)'
  BY <1>1, <1>3 DEF Stands, Swapped, At
<1> QED
  BY <1>2, <1>4

\* New attempts, and everything an attempt does without a fault.
LEMMA StandStart ==
    ASSUME StandInv, TypeOK', NEW c \in Release,
           Start(c) \/ RerunStaging(c) \/ RerunProduction(c)
    PROVE  StandInv'
<1>1. PICK p \in {"preflight", "migrate-staging", "approval"} :
        Become(c, Attempt(p))
  BY DEF Start, RerunStaging, RerunProduction
<1>2. \A d \in Release : ~Active(d)
  BY DEF Start, RerunStaging, RerunProduction, Admitted
<1>3. /\ Attempt(p) \in Job /\ Attempt(p).pc = p
      /\ Attempt(p).status = "none"
  <2>1. Attempt(p) \in Job /\ Attempt(p).pc = p
    BY AttemptJob DEF Steps, StagingSteps, ProductionSteps
  <2> QED
    BY <2>1 DEF Attempt
<1>4. Stands(Attempt(p), c)'
  BY <1>3 DEF Stands, Swapped
<1> HIDE DEF Attempt
<1> QED
  BY <1>1, <1>2, <1>3, <1>4, StandMoving DEF StandInv

LEMMA StandStep ==
    ASSUME StandInv, TypeOK', NEW c \in Release,
           Step(c) \/ Approve(c) \/ Reject(c)
    PROVE  StandInv'
<1> USE DEF At
<1>1. Active(c)
  BY DEF Active, Step, Preflight, MigrateStaging, Deploy, Smoke, Recheck,
         Identify, Migrate, Swap, Verify, Rollback, VerifyRollback,
         VerifyStaging, Approve, Reject
<1>2. /\ TypeOK /\ jobs[c] \in Job /\ Stands(jobs[c], c)
      /\ \A d \in Release : Active(d) => d = c
  BY <1>1 DEF StandInv, OneAttempt, TypeOK
<1>3. UNCHANGED swapping
  BY DEF Step, Preflight, MigrateStaging, Deploy, Smoke, Recheck,
         Identify, Migrate, Swap, Verify, Rollback, VerifyRollback,
         VerifyStaging, Approve, Reject, azure
<1>4. ASSUME NEW j \in Job, Become(c, j), Stands(j, c)' PROVE StandInv'
  BY <1>2, <1>4, StandMoving
<1>5. CASE Become(c, Failed(c))
  <2>1. PICK j \in Job : j = Failed(c) /\ Stands(j, c)'
    BY <1>1, <1>3, FailedStands
  <2> QED
    BY <1>4, <1>5, <2>1
<1>6. ASSUME NEW p \in Steps \ {"verify-staging"}, Goto(c, p),
             p \in Swapped => ~swapping
      PROVE  StandInv'
  <2>1. PICK j \in Job : /\ j = [jobs[c] EXCEPT !.pc = p]
                         /\ j.pc = p /\ j.status = jobs[c].status
    BY <1>2, <1>6, GoingStatus
  <2>2. Become(c, j)
    BY <1>6, <2>1 DEF Goto
  <2>3. Stands(j, c)'
    BY <1>1, <1>2, <1>3, <1>6, <2>1 DEF Stands, Active
  <2> QED
    BY <1>4, <2>1, <2>2, <2>3
<1>7. CASE \/ Preflight(c) \/ MigrateStaging(c) \/ Deploy(c) \/ Smoke(c)
           \/ Recheck(c) \/ Migrate(c) \/ Approve(c) \/ Reject(c)
  <2>1. \/ Become(c, Failed(c))
        \/ \E p \in {"migrate-staging", "deploy", "smoke", "approval",
                     "recheck", "identify", "swap"} : Goto(c, p)
    BY <1>7 DEF Preflight, MigrateStaging, Deploy, Smoke, Recheck, Migrate,
                Approve, Reject
  <2>2. ASSUME NEW p \in {"migrate-staging", "deploy", "smoke", "approval",
                          "recheck", "identify", "swap"}, Goto(c, p)
        PROVE  StandInv'
    <3>1. p \in Steps \ {"verify-staging"} /\ p \notin Swapped
      BY DEF Steps, StagingSteps, ProductionSteps, Swapped
    <3> QED
      BY <1>6, <2>2, <3>1
  <2> QED
    BY <1>5, <2>1, <2>2
<1>8. CASE Swap(c) \/ Rollback(c)
  <2>1. \/ Become(c, Failed(c))
        \/ ~swapping /\ Goto(c, "verify")
        \/ ~swapping /\ Goto(c, "verify-rollback")
    BY <1>8 DEF Swap, Rollback
  <2>2. {"verify", "verify-rollback"} \subseteq Steps \ {"verify-staging"}
    BY DEF Steps, ProductionSteps
  <2> QED
    BY <1>5, <1>6, <2>1, <2>2
<1>9. CASE Identify(c)
  <2>1. CASE Ready("production")
    <3>1. slots["production"] \in Commit
      BY <1>2, <2>1 DEF Ready, TypeOK, Slot
    <3> DEFINE known == [jobs[c] EXCEPT !.pc = "migrate",
                                        !.previous = slots["production"]]
    <3>2. /\ known \in Job
          /\ known.pc = "migrate" /\ known.status = jobs[c].status
      BY <1>2, <3>1 DEF Job, Steps, ProductionSteps
    <3>3. Become(c, known)
      BY <1>9, <2>1 DEF Identify
    <3> HIDE DEF known
    <3>5. PICK j \in Job : j = known
      BY <3>2
    <3>4. Stands(j, c)'
      BY <1>1, <1>2, <3>2, <3>5 DEF Stands, Swapped, Active
    <3> QED
      BY <1>4, <3>3, <3>4, <3>5
  <2> QED
    BY <1>5, <1>9, <2>1 DEF Identify
<1>10. ASSUME NEW status \in JobStatus, Become(c, Ending(jobs[c], status))
       PROVE  StandInv'
  <2>1. PICK j \in Job : j = Ending(jobs[c], status) /\ j.pc = "ended"
    BY <1>2, EndingStatus
  <2>2. Stands(j, c)'
    BY <2>1 DEF Stands, Swapped
  <2> QED
    BY <1>4, <1>10, <2>1, <2>2
<1>11. CASE Verify(c)
  <2>1. CASE /\ Serves("production", c, c)
             /\ Become(c, [jobs[c] EXCEPT !.pc = "verify-staging"])
    <3>1. PICK j \in Job : /\ j = [jobs[c] EXCEPT !.pc = "verify-staging"]
                           /\ j.pc = "verify-staging"
                           /\ j.status = jobs[c].status
      BY <1>2, GoingStatus DEF Steps, ProductionSteps
    <3>2. Become(c, j)
      BY <2>1, <3>1
    <3>3. UNCHANGED azure
      BY <1>11 DEF Verify
    <3>4. Serves("production", c, c)'
      BY <2>1, <3>3 DEF Serves, Ready, azure
    <3>5. Stands(j, c)'
      BY <1>1, <1>2, <1>3, <1>11, <3>1, <3>4
         DEF Stands, Active, Verify, Swapped
    <3> QED
      BY <1>4, <3>1, <3>2, <3>5
  <2>2. CASE Become(c, Ending(jobs[c], "verified"))
    BY <1>10, <2>2 DEF JobStatus
  <2> QED
    BY <1>5, <1>11, <2>1, <2>2 DEF Verify
<1>12. CASE VerifyStaging(c)
  <2>1. CASE Become(c, Ending(jobs[c], "verified"))
    BY <1>10, <2>1 DEF JobStatus
  <2> QED
    BY <1>5, <1>12, <2>1 DEF VerifyStaging
<1>13. CASE VerifyRollback(c)
  <2>1. CASE Serves("production", jobs[c].previous, c)
    <3>1. /\ "verification_failed" \in JobStatus
          /\ "verified_previous_application" \in RollbackStatus
      BY DEF JobStatus, RollbackStatus
    <3> DEFINE restored == [Ending(jobs[c], "verification_failed") EXCEPT
                              !.rollback = "verified_previous_application"]
    <3>2. restored \in Job /\ restored.pc = "ended"
      BY <1>2, <3>1, EndingStatus
    <3>3. Become(c, restored)
      BY <1>13, <2>1 DEF VerifyRollback
    <3> HIDE DEF restored
    <3>5. PICK j \in Job : j = restored
      BY <3>2
    <3>4. Stands(j, c)'
      BY <3>2, <3>5 DEF Stands, Swapped
    <3> QED
      BY <1>4, <3>3, <3>4, <3>5
  <2> QED
    BY <1>5, <1>13, <2>1 DEF VerifyRollback
<1> QED
  BY <1>7, <1>8, <1>9, <1>11, <1>12, <1>13 DEF Step

\* A fault ends the attempt, or the attempt goes on where it only read.
LEMMA StandFault ==
    ASSUME StandInv, TypeOK', NEW c \in Release, Break(c) \/ Kill(c)
    PROVE  StandInv'
<1>1. Active(c) /\ Unfinished(c)
  BY DEF Break, Kill, Active, Steps, StagingSteps, ProductionSteps
<1>2. /\ TypeOK /\ jobs[c] \in Job
      /\ \A d \in Release : Active(d) => d = c
  BY <1>1 DEF StandInv, OneAttempt, TypeOK
<1>3. ASSUME NEW j \in Job, Become(c, j), Stands(j, c)' PROVE StandInv'
  BY <1>2, <1>3, StandMoving
<1>4. CASE Break(c)
  <2>1. At(c, "verify") => UNCHANGED swapping
    BY <1>1 DEF Unfinished, At, azure
  <2>2. PICK j \in Job : j = Failed(c) /\ Stands(j, c)'
    BY <1>1, <2>1, FailedStands
  <2> QED
    BY <1>3, <1>4, <2>2 DEF Break
<1>5. CASE Kill(c)
  <2>1. PICK status \in JobStatus : Become(c, Ending(jobs[c], status))
    BY <1>5 DEF Kill, JobStatus
  <2>2. PICK j \in Job : j = Ending(jobs[c], status) /\ j.pc = "ended"
    BY <1>2, EndingStatus
  <2>3. Stands(j, c)'
    BY <2>2 DEF Stands, Swapped
  <2> QED
    BY <1>3, <2>1, <2>2, <2>3
<1> QED
  BY <1>4, <1>5

LEMMA StandNext == StandInv /\ [Next]_vars => StandInv'
<1> SUFFICES ASSUME StandInv, [Next]_vars PROVE StandInv'
  OBVIOUS
<1>1. TypeOK'
  BY TypeStep DEF StandInv
<1>2. CASE UNCHANGED vars
  BY <1>1, <1>2 DEF vars, azure, StandInv, OneAttempt, Stands, Active, Serves,
                    Ready
<1>3. CASE Push
  BY <1>1, <1>3 DEF Push, azure, StandInv, OneAttempt, Stands, Active, Serves,
                    Ready
<1>8. CASE Land
  \* Production keeps its artifact.
  <2>1. /\ slots'["production"] = slots["production"]
        /\ UNCHANGED <<schema, swapping, jobs>>
    BY <1>8 DEF Land, DeployTo, StandInv, TypeOK, Slot
  <2> QED
    BY <1>1, <2>1 DEF StandInv, OneAttempt, Stands, Active, Serves, Ready
<1>4. CASE Settle
  \* An attempt behind its own swap knows that no other one is left.
  BY <1>1, <1>4 DEF Settle, StandInv, OneAttempt, Stands, Active, Swapped
<1>5. ASSUME NEW c \in Release,
             Start(c) \/ RerunStaging(c) \/ RerunProduction(c)
      PROVE  StandInv'
  BY <1>1, <1>5, StandStart
<1>6. ASSUME NEW c \in Release, Step(c) \/ Approve(c) \/ Reject(c)
      PROVE  StandInv'
  BY <1>1, <1>6, StandStep
<1>7. ASSUME NEW c \in Release, Break(c) \/ Kill(c) PROVE StandInv'
  BY <1>1, <1>7, StandFault
<1> QED
  BY <1>2, <1>3, <1>4, <1>5, <1>6, <1>7, <1>8 DEF Next

LEMMA StandInit == Init => StandInv
<1> SUFFICES ASSUME Init PROVE StandInv
  OBVIOUS
<1>1. \A c \in Release : jobs[c].pc = "ended"
  BY DEF Init, Ending, Attempt
<1> QED
  BY <1>1, TypeInit DEF StandInv, OneAttempt, Active, Stands, Swapped

\* An attempt that ends verified took one of two last steps.
LEMMA LastStep ==
    ASSUME StandInv, [Next]_vars, NEW c \in Release, Active(c),
           jobs'[c].status = "verified"
    PROVE  Verify(c) \/ VerifyStaging(c)
<1> USE DEF At
<1>1. /\ jobs \in [Release -> Job] /\ jobs[c] \in Job
      /\ jobs[c].status # "verified"
      /\ \A d \in Release : Active(d) => d = c
  BY DEF StandInv, TypeOK, OneAttempt, Stands, Active
<1>2. jobs' # jobs
  BY <1>1
<1>3. ~Push /\ ~Settle /\ ~Land /\ ~UNCHANGED vars
  BY <1>2 DEF Push, Settle, Land, vars
<1>4. \A d \in Release : ~Start(d) /\ ~RerunStaging(d) /\ ~RerunProduction(d)
  BY DEF Start, RerunStaging, RerunProduction, Admitted
<1>5. \A d \in Release :
        \/ Approve(d) \/ Reject(d) \/ Step(d) \/ Break(d) \/ Kill(d)
          => Active(d)
  BY DEF Active, Step, Preflight, MigrateStaging, Deploy, Smoke, Recheck,
         Identify, Migrate, Swap, Verify, Rollback, VerifyRollback,
         VerifyStaging, Approve, Reject, Break, Kill, Steps, StagingSteps,
         ProductionSteps
<1>6. Approve(c) \/ Reject(c) \/ Step(c) \/ Break(c) \/ Kill(c)
  BY <1>1, <1>3, <1>4, <1>5 DEF Next
<1>7. ~Become(c, Failed(c))
  BY <1>1, FailedStatus DEF Become
<1>8. ASSUME NEW p \in Steps, Goto(c, p) PROVE FALSE
  <2>1. [jobs[c] EXCEPT !.pc = p].status = jobs[c].status
    BY <1>1, GoingStatus
  <2>2. jobs'[c] = [jobs[c] EXCEPT !.pc = p]
    BY <1>1, <1>8 DEF Goto, Become
  <2> QED
    BY <1>1, <2>1, <2>2
<1>9. ~(\/ Preflight(c) \/ MigrateStaging(c) \/ Deploy(c) \/ Smoke(c)
        \/ Recheck(c) \/ Migrate(c) \/ Swap(c) \/ Rollback(c)
        \/ Approve(c) \/ Reject(c) \/ Break(c))
  BY <1>7, <1>8
     DEF Preflight, MigrateStaging, Deploy, Smoke, Recheck, Migrate, Swap,
         Rollback, Approve, Reject, Break, Steps, StagingSteps, ProductionSteps
<1>10. ~Identify(c)
  <2>1. jobs'[c] # [jobs[c] EXCEPT !.pc = "migrate",
                                   !.previous = slots["production"]]
    BY <1>1 DEF Job
  <2> QED
    BY <1>1, <1>7, <2>1 DEF Identify, Become
<1>11. ~VerifyRollback(c)
  <2>1. /\ "verification_failed" \in JobStatus
        /\ "verified_previous_application" \in RollbackStatus
    BY DEF JobStatus, RollbackStatus
  <2> DEFINE restored == [Ending(jobs[c], "verification_failed") EXCEPT
                            !.rollback = "verified_previous_application"]
  <2>2. restored.status = "verification_failed"
    BY <1>1, <2>1, EndingStatus
  <2>3. VerifyRollback(c) =>
          Become(c, restored) \/ Become(c, Failed(c))
    BY DEF VerifyRollback
  <2> HIDE DEF restored
  <2>4. ~Become(c, restored)
    BY <1>1, <2>2 DEF Become
  <2> QED
    BY <1>7, <2>3, <2>4
<1>12. ~Kill(c)
  <2>1. ASSUME Kill(c) PROVE FALSE
    <3>1. PICK status \in {"preflight_failed", "staging_failed",
                           "production_failed"} :
            Become(c, Ending(jobs[c], status))
      BY <2>1 DEF Kill
    <3>2. status \in JobStatus /\ status # "verified"
      BY DEF JobStatus
    <3> QED
      BY <1>1, <3>1, <3>2, EndingStatus DEF Become
  <2> QED
    BY <2>1
<1> QED
  BY <1>6, <1>9, <1>10, <1>11, <1>12 DEF Step

\* A release that reports "verified" has its artifact in production and, if it
\* found one before, the previous artifact in staging: for every schedule of
\* pushes, attempts, faults, late swaps and late deployments, whether or not
\* operators settle them before they go on.
THEOREM VerifiedServes == Spec => VerifiedIsServing
<1> DEFINE Served(c) == /\ Serves("production", c, c)
                        /\ jobs[c].previous # None
                             => slots["staging"] = jobs[c].previous
           Kept == \A c \in Release :
                     Active(c) /\ jobs'[c].status = "verified" => Served(c)
<1>1. ASSUME StandInv, [Next]_vars, NEW c \in Release, Active(c),
             jobs'[c].status = "verified"
      PROVE  Served(c)
  <2>1. /\ jobs \in [Release -> Job] /\ jobs[c] \in Job
        /\ Stands(jobs[c], c)
        /\ jobs'[c] # Failed(c)
    <3>1. jobs \in [Release -> Job] /\ jobs[c] \in Job /\ Stands(jobs[c], c)
      BY <1>1 DEF StandInv, TypeOK
    <3> QED
      BY <1>1, <3>1, FailedStatus DEF Stands, Active
  <2>2. CASE Verify(c)
    <3>1. Serves("production", c, c)
      BY <2>1, <2>2 DEF Verify, Become
    <3>2. jobs[c].previous = None
      <4>1. jobs'[c] # [jobs[c] EXCEPT !.pc = "verify-staging"]
        <5>1. "verify-staging" \in Steps
          BY DEF Steps, ProductionSteps
        <5>2. [jobs[c] EXCEPT !.pc = "verify-staging"].status = jobs[c].status
          BY <2>1, <5>1, GoingStatus
        <5> QED
          BY <1>1, <2>1, <5>2 DEF Stands, Active
      <4> QED
        BY <2>1, <2>2, <3>1, <4>1 DEF Verify, Become
    <3> QED
      BY <3>1, <3>2
  <2>3. CASE VerifyStaging(c)
    <3>1. Serves("production", c, c)
      BY <2>1, <2>3 DEF VerifyStaging, At, Stands
    <3>2. Serves("staging", jobs[c].previous, c)
      BY <2>1, <2>3 DEF VerifyStaging, Become
    <3> QED
      BY <3>1, <3>2 DEF Serves
  <2> QED
    BY <1>1, <2>2, <2>3, LastStep
<1>2. StandInv /\ [Next]_vars => [Kept]_jobs
  BY <1>1
<1>3. VerifiedIsServing <=> [][Kept]_jobs
  BY DEF VerifiedIsServing
<1> QED
  BY <1>2, <1>3, StandInit, StandNext, PTL DEF Spec

-----------------------------------------------------------------------------
(* Production is tested.                                                   *)

\* What production may serve.
Good == {None} \cup (tested \cap approved)

\* What an attempt in state j has earned: the production job follows a staging
\* verification of the same commit, the second policy check an approval.  While
\* a superseded commit is still being staged, the head was not tested yet.
\* Once the head was checked again, both slots may go to production.
Earned(j, c) ==
    /\ j.pc \in ProductionSteps \/ j.status \notin Unstaged => c \in tested
    /\ j.pc \in ProductionSteps \ {"approval"} => c \in approved
    /\ j.pc \in StagingSteps /\ c # head => head \notin tested
    /\ j.pc \in Checked => slots["staging"] \in Good

\* From the head's first staging verification on, staging can only be given to
\* the head again, also by a deployment that lands late, and an abandoned swap
\* has nothing else to bring.
SlotsTested ==
    /\ \A c \in tested : c <= head
    /\ slots["production"] \in Good
    /\ head \in tested => {slots["staging"]} \cup deploying \subseteq Good \cup {head}
    /\ swapping => slots["staging"] \in Good /\ deploying = {}

Earners == \A c \in Release : Earned(jobs[c], c)
TestedInv == SlotsTested /\ Earners

\* The attempt of c moves, and no other is active.
LEMMA EarnMoving ==
    ASSUME TypeOK, Earners, NEW c \in Release,
           \A d \in Release : Active(d) => d = c,
           NEW j \in Job, Become(c, j), Earned(j, c)', tested \subseteq tested'
    PROVE  Earners'
<1>1. /\ jobs'[c] = j
      /\ \A d \in Release : d # c => jobs'[d] = jobs[d] /\ jobs[d].pc = "ended"
  BY DEF TypeOK, Become, Active
<1>2. ASSUME NEW d \in Release PROVE Earned(jobs[d], d)'
  <2>1. CASE d = c
    BY <1>1, <2>1 DEF Earned
  <2>2. CASE d # c
    BY <1>1, <2>2 DEF Earners, Earned, Steps, StagingSteps, ProductionSteps,
                      Checked
  <2> QED
    BY <2>1, <2>2
<1> QED
  BY <1>2 DEF Earners

\* A step that fails has earned what the attempt had, whatever it left in the
\* slots: it only goes on from steps that read.
LEMMA FailedEarns ==
    ASSUME TypeOK, TestedInv, NEW c \in Release, Active(c),
           UNCHANGED <<head, tested, approved>>,
           At(c, "identify") \/ At(c, "verify") => UNCHANGED slots
    PROVE  \E j \in Job : j = Failed(c) /\ Earned(j, c)'
<1>1. jobs[c] \in Job /\ Earned(jobs[c], c)
  BY DEF TypeOK, TestedInv, Earners
<1>2. PICK j \in Job : j = Failed(c)
  BY <1>1, FailedJob
<1>3. /\ j.pc \in {"ended", "migrate", "rollback"}
      /\ j.pc # "ended" => At(c, "identify") \/ At(c, "verify")
      /\ jobs[c].pc \notin ProductionSteps => j.status \in Unstaged
  BY <1>1, <1>2, FailedJob, FailedStatus
<1>4. CASE j.pc = "ended"
  <2>1. j.pc \notin ProductionSteps \cup StagingSteps \cup Checked
    BY <1>4 DEF StagingSteps, ProductionSteps, Checked
  <2>2. j.status \notin Unstaged => c \in tested'
    BY <1>1, <1>3 DEF Earned
  <2> QED
    BY <1>2, <2>1, <2>2 DEF Earned
<1>5. CASE j.pc # "ended"
  <2>1. /\ jobs[c].pc \in {"identify", "verify"} /\ UNCHANGED slots
        /\ j.pc \in {"migrate", "rollback"}
    BY <1>3, <1>5 DEF At
  <2>2. c \in tested /\ c \in approved /\ slots["staging"] \in Good
    BY <1>1, <2>1 DEF Earned, ProductionSteps, Checked
  <2> QED
    BY <1>2, <2>1, <2>2 DEF Earned, StagingSteps, Good
<1> QED
  BY <1>2, <1>4, <1>5

\* New attempts: staging is repeated only for the head.
LEMMA EarnStart ==
    ASSUME ~StaleReruns, TypeOK, TestedInv, NEW c \in Release,
           Start(c) \/ RerunStaging(c) \/ RerunProduction(c)
    PROVE  TestedInv'
<1>1. PICK p \in {"preflight", "migrate-staging", "approval"} :
        /\ Become(c, Attempt(p))
        /\ p = "migrate-staging" => c = head
        /\ p = "approval" => c \in tested
  <2>1. CASE Start(c)
    BY <2>1 DEF Start
  <2>2. CASE RerunStaging(c)
    BY <2>2 DEF RerunStaging
  <2>3. CASE RerunProduction(c)
    BY <2>3 DEF RerunProduction, TestedInv, Earners, Earned, Unstaged
  <2> QED
    BY <2>1, <2>2, <2>3
<1>2. /\ \A d \in Release : ~Active(d)
      /\ UNCHANGED <<head, slots, swapping, deploying, tested, approved>>
  BY DEF Start, RerunStaging, RerunProduction, Admitted, azure, history
<1>3. /\ Attempt(p) \in Job /\ Attempt(p).pc = p
      /\ Attempt(p).status = "none"
  <2>1. Attempt(p) \in Job /\ Attempt(p).pc = p
    BY AttemptJob DEF Steps, StagingSteps, ProductionSteps
  <2> QED
    BY <2>1 DEF Attempt
<1>4. Earned(Attempt(p), c)'
  BY <1>1, <1>2, <1>3 DEF Earned, Unstaged, StagingSteps, ProductionSteps, Checked
<1>5. SlotsTested'
  BY <1>2 DEF TestedInv, SlotsTested, Good
<1> HIDE DEF Attempt
<1> QED
  BY <1>1, <1>2, <1>3, <1>4, <1>5, EarnMoving DEF TestedInv

\* A step that succeeds takes the attempt to step p.
LEMMA EarnGoing ==
    ASSUME TypeOK, TestedInv, NEW c \in Release,
           \A d \in Release : Active(d) => d = c,
           NEW p \in Steps, Goto(c, p), UNCHANGED head, tested \subseteq tested',
           p \in ProductionSteps => c \in tested',
           p \in ProductionSteps \ {"approval"} => c \in approved',
           p \in StagingSteps /\ c # head => head \notin tested',
           p \in Checked => slots'["staging"] \in Good'
    PROVE  Earners'
<1>1. jobs[c] \in Job /\ Earned(jobs[c], c)
  BY DEF TypeOK, TestedInv, Earners
<1>2. PICK j \in Job : /\ j = [jobs[c] EXCEPT !.pc = p]
                       /\ j.pc = p /\ j.status = jobs[c].status
  BY <1>1, GoingStatus
<1>3. Become(c, j)
  BY <1>2 DEF Goto
<1>4. Earned(j, c)'
  BY <1>1, <1>2 DEF Earned
<1> QED
  BY <1>3, <1>4, EarnMoving DEF TestedInv

\* An attempt that ends with a status of the production job, in which it was.
LEMMA EarnEnding ==
    ASSUME TypeOK, TestedInv, NEW c \in Release, jobs[c].pc \in ProductionSteps,
           \A d \in Release : Active(d) => d = c,
           NEW j \in Job, j.pc = "ended", Become(c, j), UNCHANGED <<head, history>>
    PROVE  Earners'
<1>1. c \in tested' /\ tested \subseteq tested'
  BY DEF TestedInv, Earners, Earned, history
<1>2. Earned(j, c)'
  BY <1>1 DEF Earned, StagingSteps, ProductionSteps, Checked
<1> QED
  BY <1>1, <1>2, EarnMoving DEF TestedInv

\* A step that fails.
LEMMA EarnFailing ==
    ASSUME TypeOK, TestedInv, NEW c \in Release, Active(c),
           \A d \in Release : Active(d) => d = c,
           Become(c, Failed(c)), UNCHANGED <<head, tested, approved>>,
           At(c, "identify") \/ At(c, "verify") => UNCHANGED slots
    PROVE  Earners'
<1>1. PICK j \in Job : j = Failed(c) /\ Earned(j, c)'
  BY FailedEarns
<1> QED
  BY <1>1, EarnMoving DEF TestedInv

\* The slots stay, and commits can only be tested or approved in addition.
LEMMA SlotsStay ==
    ASSUME SlotsTested, UNCHANGED <<head, slots, swapping, deploying, tested>>,
           approved \subseteq approved'
    PROVE  SlotsTested'
BY DEF SlotsTested, Good

\* An attempt of the inductive invariant acts alone.
LEMMA ActingAlone ==
    ASSUME Quiet, TypeOK, RIInv, NEW c \in Release, Active(c)
    PROVE  /\ \A d \in Release : Active(d) => d = c
           /\ ~swapping /\ deploying = {} /\ c <= head
           /\ jobs[c] \in Job /\ slots \in [Slot -> Commit \cup {None}]
BY Acting

\* The steps that read and decide, except the staging verification.
LEMMA EarnRead ==
    ASSUME Quiet, TypeOK, RIInv, TestedInv, NEW c \in Release,
           \/ Preflight(c) \/ Approve(c) \/ Reject(c) \/ Recheck(c)
           \/ Identify(c) \/ Verify(c) \/ VerifyRollback(c) \/ VerifyStaging(c)
    PROVE  TestedInv'
<1> USE DEF At
<1>1. /\ Active(c)
      /\ UNCHANGED <<head, slots, swapping, deploying, tested>>
      /\ approved \subseteq approved'
  BY DEF Active, Preflight, Approve, Reject, Recheck, Identify, Verify,
         VerifyRollback, VerifyStaging, azure, history
<1>2. /\ \A d \in Release : Active(d) => d = c
      /\ jobs[c] \in Job /\ Earned(jobs[c], c)
  BY <1>1, ActingAlone DEF TestedInv, Earners
<1>3. SlotsTested'
  BY <1>1, SlotsStay DEF TestedInv
<1>4. CASE Become(c, Failed(c)) /\ UNCHANGED approved
  BY <1>1, <1>2, <1>3, <1>4, EarnFailing DEF TestedInv
<1>5. ASSUME NEW p \in Steps, Goto(c, p),
             p \in ProductionSteps => c \in tested',
             p \in ProductionSteps \ {"approval"} => c \in approved',
             p \in StagingSteps /\ c # head => head \notin tested',
             p \in Checked => slots'["staging"] \in Good'
      PROVE  TestedInv'
  BY <1>1, <1>2, <1>3, <1>5, EarnGoing DEF TestedInv
<1>6. ASSUME NEW j \in Job, j.pc = "ended", Become(c, j), UNCHANGED approved,
             jobs[c].pc \in ProductionSteps
      PROVE  TestedInv'
  BY <1>1, <1>2, <1>3, <1>6, EarnEnding DEF TestedInv, history
<1>7. CASE Preflight(c)
  <2>1. CASE head = c
    <3>1. Goto(c, "migrate-staging")
      BY <1>7, <2>1 DEF Preflight
    <3>2. /\ "migrate-staging" \in Steps
          /\ "migrate-staging" \notin ProductionSteps
          /\ "migrate-staging" \notin Checked
      BY DEF Steps, StagingSteps, ProductionSteps, Checked
    <3> QED
      BY <1>5, <2>1, <3>1, <3>2
  <2> QED
    BY <1>4, <1>7, <2>1 DEF Preflight, history
<1>8. CASE Approve(c)
  <2>1. Goto(c, "recheck") /\ c \in approved' /\ c \in tested'
    BY <1>1, <1>2, <1>8 DEF Approve, Earned, ProductionSteps
  <2>2. /\ "recheck" \in Steps
        /\ "recheck" \notin StagingSteps /\ "recheck" \notin Checked
    BY DEF Steps, StagingSteps, ProductionSteps, Checked
  <2> QED
    BY <1>5, <2>1, <2>2
<1>9. CASE Reject(c)
  BY <1>4, <1>9 DEF Reject, history
<1>10. CASE Recheck(c)
  <2>1. CASE head = c
    <3>1. Goto(c, "identify") /\ UNCHANGED approved
      BY <1>10, <2>1 DEF Recheck, history
    <3>2. c \in tested /\ c \in approved
      BY <1>2, <1>10 DEF Recheck, Earned, ProductionSteps
    <3>3. slots["staging"] \in Good
      \* The head was tested: nobody else's artifact came after its own.
      BY <2>1, <3>2 DEF TestedInv, SlotsTested, Good
    <3>4. "identify" \in Steps /\ "identify" \notin StagingSteps
      BY DEF Steps, StagingSteps, ProductionSteps
    <3> QED
      BY <1>1, <1>5, <3>1, <3>2, <3>3, <3>4 DEF Good
  <2> QED
    BY <1>4, <1>10, <2>1 DEF Recheck, history
<1>11. ASSUME jobs[c].pc \in Checked, UNCHANGED approved
       PROVE  /\ c \in tested' /\ c \in approved' /\ slots'["staging"] \in Good'
              /\ jobs[c].pc \in ProductionSteps
  BY <1>1, <1>2, <1>11 DEF Earned, Checked, ProductionSteps, Good
<1>12. CASE Identify(c)
  <2>1. CASE Ready("production")
    <3> DEFINE known == [jobs[c] EXCEPT !.pc = "migrate",
                                        !.previous = slots["production"]]
    <3>1. slots["production"] \in Commit
      BY <2>1 DEF Ready, TypeOK, Slot
    <3>2. /\ known \in Job
          /\ known.pc = "migrate" /\ known.status = jobs[c].status
      BY <1>2, <3>1 DEF Job, Steps, ProductionSteps
    <3>3. Become(c, known)
      BY <1>12, <2>1 DEF Identify
    <3> HIDE DEF known
    <3>4. PICK j \in Job : j = known
      BY <3>2
    <3>5. /\ c \in tested' /\ c \in approved' /\ slots'["staging"] \in Good'
      BY <1>11, <1>12 DEF Identify, history, Checked
    <3>6. Earned(j, c)'
      BY <3>2, <3>4, <3>5 DEF Earned, StagingSteps
    <3> QED
      BY <1>1, <1>2, <1>3, <3>3, <3>4, <3>6, EarnMoving DEF TestedInv
  <2> QED
    BY <1>4, <1>12, <2>1 DEF Identify, history
<1>13. CASE Verify(c)
  <2>1. CASE Become(c, [jobs[c] EXCEPT !.pc = "verify-staging"])
    <3>1. Goto(c, "verify-staging")
      BY <2>1 DEF Goto
    <3>2. c \in tested' /\ c \in approved' /\ slots'["staging"] \in Good'
      BY <1>11, <1>13 DEF Verify, history, Checked
    <3>3. "verify-staging" \in Steps /\ "verify-staging" \notin StagingSteps
      BY DEF Steps, StagingSteps, ProductionSteps
    <3> QED
      BY <1>5, <3>1, <3>2, <3>3
  <2>2. CASE Become(c, Ending(jobs[c], "verified"))
    <3>1. PICK j \in Job : j = Ending(jobs[c], "verified") /\ j.pc = "ended"
      BY <1>2, EndingStatus DEF JobStatus
    <3> QED
      BY <1>6, <1>11, <1>13, <2>2, <3>1 DEF Verify, history, Checked
  <2> QED
    BY <1>4, <1>13, <2>1, <2>2 DEF Verify, history
<1>14. CASE VerifyStaging(c)
  <2>1. CASE Become(c, Ending(jobs[c], "verified"))
    <3>1. PICK j \in Job : j = Ending(jobs[c], "verified") /\ j.pc = "ended"
      BY <1>2, EndingStatus DEF JobStatus
    <3> QED
      BY <1>6, <1>11, <1>14, <2>1, <3>1 DEF VerifyStaging, history, Checked
  <2> QED
    BY <1>4, <1>14, <2>1 DEF VerifyStaging, history
<1>15. CASE VerifyRollback(c)
  <2>1. CASE Serves("production", jobs[c].previous, c)
    <3>1. /\ "verification_failed" \in JobStatus
          /\ "verified_previous_application" \in RollbackStatus
      BY DEF JobStatus, RollbackStatus
    <3> DEFINE restored == [Ending(jobs[c], "verification_failed") EXCEPT
                              !.rollback = "verified_previous_application"]
    <3>2. restored \in Job /\ restored.pc = "ended"
      BY <1>2, <3>1, EndingStatus
    <3>3. Become(c, restored)
      BY <1>15, <2>1 DEF VerifyRollback
    <3> HIDE DEF restored
    <3> QED
      BY <1>6, <1>11, <1>15, <3>2, <3>3 DEF VerifyRollback, history, Checked
  <2> QED
    BY <1>4, <1>15, <2>1 DEF VerifyRollback, history
<1> QED
  BY <1>7, <1>8, <1>9, <1>10, <1>12, <1>13, <1>14, <1>15

\* An attempt that exchanges the slots has earned both artifacts.
LEMMA SlotsExchange ==
    ASSUME TestedInv, NEW c \in Release, jobs[c].pc \in {"swap", "rollback"},
           Exchange, deploying = {}, UNCHANGED <<head, deploying, tested, approved>>
    PROVE  SlotsTested' /\ slots'["staging"] \in Good'
<1>1. slots["production"] \in Good /\ slots["staging"] \in Good
  BY DEF TestedInv, Earners, Earned, SlotsTested, Checked
<1>2. /\ slots'["production"] = slots["staging"]
      /\ slots'["staging"] = slots["production"]
  BY Exchanged
<1> QED
  BY <1>1, <1>2 DEF TestedInv, SlotsTested, Good

\* Who deploys to staging after the head was tested there is the head.
LEMMA SlotsDeploy ==
    ASSUME TypeOK, TestedInv, NEW c \in Release, At(c, "deploy"), DeployTo(c),
           ~swapping, deploying = {},
           UNCHANGED <<head, swapping, deploying, tested, approved>>
    PROVE  SlotsTested'
<1>1. /\ slots'["production"] = slots["production"]
      /\ slots'["staging"] = c
  BY DEF DeployTo, TypeOK, Slot
<1>2. c # head => head \notin tested
  BY DEF At, TestedInv, Earners, Earned, StagingSteps
<1> QED
  BY <1>1, <1>2 DEF TestedInv, SlotsTested, Good

\* What is executed of an unfinished write.
LEMMA SlotsUnfinished ==
    ASSUME Quiet, TypeOK, RIInv, TestedInv, NEW c \in Release, Active(c),
           Unfinished(c), UNCHANGED <<head, tested, approved>>
    PROVE  /\ SlotsTested'
           /\ At(c, "identify") \/ At(c, "verify") => UNCHANGED slots
<1> USE DEF At
<1>1. ~swapping /\ deploying = {}
  BY ActingAlone
<1>2. CASE jobs[c].pc \in {"migrate-staging", "migrate"}
  <2>1. UNCHANGED <<slots, swapping, deploying>>
    BY <1>2 DEF Unfinished
  <2> QED
    BY <1>2, <2>1, SlotsStay DEF TestedInv
<1>3. CASE At(c, "deploy")
  <2>1. /\ \/ DeployTo(c) /\ UNCHANGED deploying
           \/ UNCHANGED slots /\ deploying' \in {deploying, deploying \cup {c}}
        /\ UNCHANGED swapping
    BY <1>3 DEF Unfinished
  <2>2. CASE DeployTo(c) /\ UNCHANGED deploying
    BY <1>1, <1>3, <2>1, <2>2, SlotsDeploy
  <2>3. CASE UNCHANGED slots /\ deploying' \in {deploying, deploying \cup {c}}
    \* Also the deployment that will land is the head's, or the head is new.
    <3>1. c # head => head \notin tested
      BY <1>3 DEF TestedInv, Earners, Earned, StagingSteps
    <3> QED
      BY <1>1, <2>1, <2>3, <3>1 DEF TestedInv, SlotsTested, Good
  <2> QED
    BY <1>3, <2>1, <2>2, <2>3
<1>4. CASE jobs[c].pc \in {"swap", "rollback"}
  <2>1. (Exchange \/ UNCHANGED slots) /\ UNCHANGED deploying
    BY <1>4 DEF Unfinished
  <2>2. slots["staging"] \in Good
    BY <1>4 DEF TestedInv, Earners, Earned, Checked
  <2>3. CASE Exchange
    BY <1>1, <1>4, <2>1, <2>3, SlotsExchange
  <2>4. CASE UNCHANGED slots
    BY <1>1, <1>4, <2>1, <2>2, <2>4 DEF TestedInv, SlotsTested, Good
  <2> QED
    BY <2>1, <2>3, <2>4
<1>5. CASE ~(jobs[c].pc \in {"migrate-staging", "migrate", "deploy", "swap",
                             "rollback"})
  <2>1. UNCHANGED azure
    BY <1>5 DEF Unfinished
  <2> QED
    BY <2>1, SlotsStay DEF azure, TestedInv
<1> QED
  BY <1>2, <1>3, <1>4, <1>5

\* The staging verification: the artifact that was checked is in staging.
LEMMA EarnSmoke ==
    ASSUME Quiet, TypeOK, RIInv, TestedInv, NEW c \in Release, Smoke(c)
    PROVE  TestedInv'
<1>1. /\ Active(c) /\ UNCHANGED <<head, slots, swapping, deploying, approved>>
  BY DEF Smoke, Active, At, azure
<1>2. /\ \A d \in Release : Active(d) => d = c
      /\ ~swapping /\ deploying = {} /\ c <= head
  BY <1>1, ActingAlone
<1>3. CASE Serves("staging", c, c)
  <2>1. /\ Goto(c, "approval") /\ tested' = tested \cup {c}
        /\ slots["staging"] = c
    BY <1>3 DEF Smoke, Serves
  <2>2. SlotsTested'
    BY <1>1, <1>2, <2>1 DEF TestedInv, SlotsTested, Good
  <2>3. /\ "approval" \in Steps
        /\ "approval" \notin StagingSteps /\ "approval" \notin Checked
    BY DEF Steps, StagingSteps, ProductionSteps, Checked
  <2> QED
    BY <1>1, <1>2, <2>1, <2>2, <2>3, EarnGoing DEF TestedInv
<1>4. CASE ~Serves("staging", c, c)
  <2>1. Become(c, Failed(c)) /\ UNCHANGED tested
    BY <1>4 DEF Smoke
  <2>2. SlotsTested' /\ Earners'
    BY <1>1, <1>2, <2>1, SlotsStay, EarnFailing DEF TestedInv
  <2> QED
    BY <2>2 DEF TestedInv
<1> QED
  BY <1>3, <1>4

\* The steps that write: migrations, the deployment and the swaps.
LEMMA EarnWrite ==
    ASSUME Quiet, TypeOK, RIInv, TestedInv, NEW c \in Release,
           \/ MigrateStaging(c) \/ Deploy(c) \/ Migrate(c) \/ Swap(c)
           \/ Rollback(c)
    PROVE  TestedInv'
<1> USE DEF At
<1>1. /\ Active(c)
      /\ UNCHANGED <<head, swapping, deploying, tested, approved>>
  BY DEF Active, MigrateStaging, Deploy, Migrate, Swap, Rollback, azure, history
<1>2. /\ \A d \in Release : Active(d) => d = c
      /\ ~swapping /\ deploying = {} /\ Earned(jobs[c], c)
  BY <1>1, ActingAlone DEF TestedInv, Earners
<1>3. CASE Become(c, Failed(c)) /\ UNCHANGED slots
  BY <1>1, <1>2, <1>3, SlotsStay, EarnFailing DEF TestedInv
<1>4. CASE MigrateStaging(c)
  <2>1. CASE Goto(c, "deploy")
    <3>1. /\ "deploy" \in Steps
          /\ "deploy" \notin ProductionSteps /\ "deploy" \notin Checked
      BY DEF Steps, StagingSteps, ProductionSteps, Checked
    <3>2. c # head => head \notin tested
      BY <1>2, <1>4 DEF MigrateStaging, Earned, StagingSteps
    <3> QED
      BY <1>1, <1>2, <1>4, <2>1, <3>1, <3>2, SlotsStay, EarnGoing
         DEF TestedInv, MigrateStaging
  <2> QED
    BY <1>3, <1>4, <2>1 DEF MigrateStaging
<1>5. CASE Deploy(c)
  <2>1. /\ "smoke" \in Steps
        /\ "smoke" \notin ProductionSteps /\ "smoke" \notin Checked
    BY DEF Steps, StagingSteps, ProductionSteps, Checked
  <2>2. Goto(c, "smoke") /\ DeployTo(c) /\ At(c, "deploy")
    BY <1>5 DEF Deploy
  <2>3. c # head => head \notin tested
    BY <1>2, <2>2 DEF Earned, StagingSteps
  <2> QED
    BY <1>1, <1>2, <2>1, <2>2, <2>3, SlotsDeploy, EarnGoing DEF TestedInv
<1>6. ASSUME jobs[c].pc \in Checked
      PROVE  c \in tested' /\ c \in approved' /\ slots["staging"] \in Good'
  BY <1>1, <1>2, <1>6 DEF Earned, Checked, ProductionSteps, Good
<1>7. CASE Migrate(c)
  <2>1. CASE Goto(c, "swap")
    <3>1. "swap" \in Steps /\ "swap" \notin StagingSteps
      BY DEF Steps, StagingSteps, ProductionSteps
    <3>2. /\ c \in tested' /\ c \in approved' /\ slots'["staging"] \in Good'
          /\ UNCHANGED slots
      BY <1>6, <1>7 DEF Migrate, Checked
    <3> QED
      BY <1>1, <1>2, <2>1, <3>1, <3>2, SlotsStay, EarnGoing DEF TestedInv
  <2> QED
    BY <1>3, <1>7, <2>1 DEF Migrate
<1>8. CASE Swap(c) \/ Rollback(c)
  <2>1. jobs[c].pc \in {"swap", "rollback"}
    BY <1>8 DEF Swap, Rollback
  <2>2. PICK p \in {"verify", "verify-rollback"} : Exchange /\ Goto(c, p)
    BY <1>2, <1>8 DEF Swap, Rollback
  <2>3. p \in Steps /\ p \notin StagingSteps
    BY DEF Steps, StagingSteps, ProductionSteps
  <2>4. SlotsTested' /\ slots'["staging"] \in Good'
    BY <1>1, <1>2, <2>1, <2>2, SlotsExchange
  <2>5. c \in tested' /\ c \in approved'
    BY <1>6, <2>1 DEF Checked
  <2> QED
    BY <1>1, <1>2, <2>2, <2>3, <2>4, <2>5, EarnGoing DEF TestedInv
<1> QED
  BY <1>4, <1>5, <1>7, <1>8

LEMMA EarnFault ==
    ASSUME Quiet, TypeOK, RIInv, TestedInv, NEW c \in Release, Break(c) \/ Kill(c)
    PROVE  TestedInv'
<1>1. /\ Active(c) /\ Unfinished(c)
      /\ UNCHANGED <<head, tested, approved>>
  BY DEF Break, Kill, Active, Steps, StagingSteps, ProductionSteps, history
<1>2. /\ SlotsTested'
      /\ At(c, "identify") \/ At(c, "verify") => UNCHANGED slots
  BY <1>1, SlotsUnfinished
<1>3. /\ \A d \in Release : Active(d) => d = c
      /\ jobs[c] \in Job
  BY <1>1, ActingAlone
<1>4. CASE Break(c)
  <2>1. Become(c, Failed(c))
    BY <1>4 DEF Break
  <2> QED
    BY <1>1, <1>2, <1>3, <2>1, EarnFailing DEF TestedInv
<1>5. CASE Kill(c)
  <2>1. PICK status \in JobStatus :
          /\ Become(c, Ending(jobs[c], status))
          /\ jobs[c].pc \in ProductionSteps \/ status \in Unstaged
    BY <1>3, <1>5
       DEF Kill, JobStatus, Unstaged, Job, Steps, Active, At
  <2>2. PICK j \in Job : /\ j = Ending(jobs[c], status)
                         /\ j.pc = "ended" /\ j.status = status
    BY <1>3, EndingStatus
  <2>3. j.status \notin Unstaged => c \in tested'
    BY <1>1, <2>1, <2>2 DEF TestedInv, Earners, Earned
  <2>4. Earned(j, c)'
    BY <2>2, <2>3 DEF Earned, StagingSteps, ProductionSteps, Checked
  <2> QED
    BY <1>1, <1>2, <1>3, <2>1, <2>2, <2>4, EarnMoving DEF TestedInv
<1> QED
  BY <1>4, <1>5

\* A late swap finds no attempt, and tested artifacts in both slots.
LEMMA EarnSettle ==
    ASSUME Quiet, TypeOK, RIInv, TestedInv, Settle
    PROVE  TestedInv'
<1>1. /\ UNCHANGED <<head, deploying, jobs, tested, approved>> /\ ~swapping'
      /\ Exchange \/ UNCHANGED slots
      /\ \A c \in Release : jobs[c].pc = "ended"
  BY DEF Settle, history, RIInv, AloneOK, Active
<1>2. /\ slots["production"] \in Good /\ slots["staging"] \in Good
      /\ deploying = {}
  BY DEF Settle, TestedInv, SlotsTested
<1>3. SlotsTested'
  BY <1>1, <1>2, Exchanged DEF TestedInv, SlotsTested, Good
<1>4. Earners'
  BY <1>1 DEF TestedInv, Earners, Earned, StagingSteps, ProductionSteps, Checked
<1> QED
  BY <1>3, <1>4 DEF TestedInv

\* A late deployment finds no attempt, and brings the head's artifact if the head
\* was tested already.
LEMMA EarnLand ==
    ASSUME Quiet, TypeOK, RIInv, TestedInv, Land
    PROVE  TestedInv'
<1>1. PICK b \in deploying : /\ deploying' = deploying \ {b}
                             /\ DeployTo(b) \/ UNCHANGED slots
  BY DEF Land
<1>2. /\ UNCHANGED <<head, swapping, jobs, tested, approved>>
      /\ slots'["production"] = slots["production"]
      /\ slots'["staging"] \in {b, slots["staging"]}
  BY <1>1 DEF Land, DeployTo, TypeOK, Slot, history
<1>3. ~swapping /\ \A c \in Release : jobs[c].pc = "ended"
  BY <1>1 DEF RIInv, AloneOK, Active, TestedInv, SlotsTested
<1>4. SlotsTested'
  BY <1>1, <1>2, <1>3 DEF TestedInv, SlotsTested, Good
<1>5. Earners'
  BY <1>2, <1>3
     DEF TestedInv, Earners, Earned, StagingSteps, ProductionSteps, Checked
<1> QED
  BY <1>4, <1>5 DEF TestedInv

\* A new head was not tested yet.
LEMMA EarnPush ==
    ASSUME TypeOK, TestedInv, Push
    PROVE  TestedInv'
<1>1. /\ head' = head + 1 /\ head \in Nat
      /\ UNCHANGED <<slots, swapping, deploying, jobs, tested, approved>>
      /\ tested \subseteq Nat
  BY ConstantFacts DEF Push, TypeOK, azure, history
<1>2. \A c \in tested : c <= head
  BY DEF TestedInv, SlotsTested
<1>3. head' \notin tested /\ \A c \in tested : c <= head'
  BY <1>1, <1>2
<1>4. SlotsTested'
  BY <1>1, <1>3 DEF TestedInv, SlotsTested, Good
<1>5. Earners'
  BY <1>1, <1>3 DEF TestedInv, Earners, Earned, Good
<1> QED
  BY <1>4, <1>5 DEF TestedInv

LEMMA TestedInit == Init => TestedInv
<1> SUFFICES ASSUME Init PROVE TestedInv
  OBVIOUS
<1>1. \A c \in Release : jobs[c].pc = "ended" /\ jobs[c].status = "none"
  BY DEF Init, Ending, Attempt
<1>2. Earners
  BY <1>1 DEF Earners, Earned, Unstaged, StagingSteps, ProductionSteps, Checked
<1>3. SlotsTested
  <2>1. \A s \in Slot : slots[s] \in {0, None}
    BY DEF Init
  <2> QED
    BY <2>1 DEF Init, SlotsTested, Good, Slot
<1> QED
  BY <1>2, <1>3 DEF TestedInv

LEMMA TestedStep ==
    ASSUME Quiet, ~StaleReruns, IInv, TestedInv, [Next]_vars
    PROVE  TestedInv'
<1>1. TypeOK /\ RIInv
  BY DEF IInv
<1>2. CASE UNCHANGED vars
  BY <1>2 DEF vars, azure, history, TestedInv, SlotsTested, Earners, Earned,
              Good
<1>3. CASE Push \/ Settle \/ Land
  BY <1>1, <1>3, EarnPush, EarnSettle, EarnLand
<1>4. ASSUME NEW c \in Release,
             Start(c) \/ RerunStaging(c) \/ RerunProduction(c)
      PROVE  TestedInv'
  BY <1>1, <1>4, EarnStart
<1>5. ASSUME NEW c \in Release, Approve(c) \/ Reject(c) \/ Step(c)
      PROVE  TestedInv'
  BY <1>1, <1>5, EarnRead, EarnSmoke, EarnWrite DEF Step
<1>6. ASSUME NEW c \in Release, Break(c) \/ Kill(c) PROVE TestedInv'
  BY <1>1, <1>6, EarnFault
<1> QED
  BY <1>2, <1>3, <1>4, <1>5, <1>6 DEF Next

\* If operators settle unknown swaps and staging deployments before they start
\* the next attempt, and failed staging jobs are rerun for the head only,
\* production never serves an artifact that did not pass staging or was not
\* approved, whatever is pushed, rerun, killed, rolled back or executed late.
\* The run promotion_stale shows what happens without the last hypothesis.
THEOREM TestedProduction ==
    ASSUME "swap" \in Reconciled, "deployment" \in Reconciled, ~StaleReruns
    PROVE  Spec => []ProductionIsTested
<1>1. Init => TestedInv
  BY TestedInit
<1>2. IInv /\ TestedInv /\ [Next]_vars => TestedInv'
  BY TestedStep DEF Quiet
<1>3. TestedInv => ProductionIsTested
  BY DEF TestedInv, SlotsTested, Good, ProductionIsTested
<1> QED
  BY <1>1, <1>2, <1>3, Invariance, PTL DEF Spec
=============================================================================
