-------------------------- MODULE PromotionProofs --------------------------
(***************************************************************************)
(* Theorems about Promotion, for every number of commits, every assignment *)
(* of schema revisions, and any number of attempts and faults.             *)
(***************************************************************************)
EXTENDS Promotion, TLAPS

\* What the assumption says, one fact at a time.
LEMMA ConstantFacts ==
    /\ Last \in Nat
    /\ RevisionOf \in [Commit -> Nat \ {0}]
    /\ \A b, c \in Commit : b <= c => RevisionOf[b] <= RevisionOf[c]
    /\ None \notin Commit
    /\ MaxAttempts \in Nat /\ MaxFaults \in Nat
    /\ Release \subseteq Commit
    /\ Commit \subseteq Nat
BY PromotionAssumption DEF Commit, Release

\* A swap exchanges the artifacts of the two slots.
LEMMA Exchanged ==
    ASSUME Exchange
    PROVE  /\ slots' = [s \in Slot |-> IF s = "production" THEN slots["staging"]
                                                           ELSE slots["production"]]
           /\ slots'["production"] = slots["staging"]
           /\ slots'["staging"] = slots["production"]
<1>1. \A s \in Slot : (CHOOSE t \in Slot : t # s)
                        = IF s = "production" THEN "staging" ELSE "production"
  BY DEF Slot
<1>2. slots' = [s \in Slot |-> slots[IF s = "production" THEN "staging"
                                                         ELSE "production"]]
  BY <1>1 DEF Exchange
<1> QED
  BY <1>2 DEF Slot

-----------------------------------------------------------------------------
(* Types                                                                   *)

\* Every way a step fails leaves a job of the right shape, and an attempt that
\* goes on to swap back has identified a previous artifact.
LEMMA FailedJob ==
    ASSUME NEW c \in Release, jobs[c] \in Job, Active(c)
    PROVE  /\ Failed(c) \in Job
           /\ Failed(c).previous = jobs[c].previous
           /\ Failed(c).pc \in {"ended", "migrate", "rollback"}
           /\ Failed(c).pc = "migrate" =>
                At(c, "identify") /\ Failed(c).previous = jobs[c].previous
           /\ Failed(c).pc = "rollback" =>
                /\ At(c, "verify")
                /\ jobs[c].previous # None
                /\ RevisionOf[jobs[c].previous] = RevisionOf[c]
<1> USE DEF At, Active
<1>1. jobs[c].pc \in Steps
  BY DEF Job
<1>2. \A status \in JobStatus :
        /\ Ending(jobs[c], status) \in Job
        /\ Ending(jobs[c], status).previous = jobs[c].previous
        /\ Ending(jobs[c], status).pc = "ended"
        /\ \A rollback \in RollbackStatus :
             LET j == [Ending(jobs[c], status) EXCEPT !.rollback = rollback] IN
               j \in Job /\ j.previous = jobs[c].previous /\ j.pc = "ended"
  BY DEF Ending, Job
<1>3. CASE At(c, "identify")
  <2>1. Failed(c) = Unidentified(jobs[c])
    BY <1>3 DEF Failed, StagingSteps
  <2>2. CASE AllowInitialDeployment
    <3>1. Failed(c) = [jobs[c] EXCEPT !.pc = "migrate",
                                      !.rollback = "unavailable_initial_deployment"]
      BY <2>1, <2>2 DEF Unidentified
    <3> QED
      BY <3>1, <1>3 DEF Job, RollbackStatus, Steps, ProductionSteps
  <2>3. CASE ~AllowInitialDeployment
    <3>1. Failed(c) = Ending(jobs[c], "blocked_missing_previous_identity")
      BY <2>1, <2>3 DEF Unidentified
    <3> QED
      BY <3>1, <1>2 DEF JobStatus
  <2> QED
    BY <2>2, <2>3
<1>4. CASE At(c, "verify")
  <2>1. Failed(c) = Unverified(jobs[c], c)
    BY <1>4 DEF Failed, StagingSteps
  <2>2. CASE /\ jobs[c].previous # None
             /\ RevisionOf[jobs[c].previous] = RevisionOf[c]
    <3>1. Failed(c) = [jobs[c] EXCEPT !.pc = "rollback",
                                      !.status = "verification_failed"]
      BY <2>1, <2>2 DEF Unverified
    <3> QED
      BY <3>1, <2>2, <1>4 DEF Job, JobStatus, Steps, ProductionSteps
  <2>3. CASE ~(/\ jobs[c].previous # None
               /\ RevisionOf[jobs[c].previous] = RevisionOf[c])
    <3>1. Failed(c) = [Ending(jobs[c], "verification_failed") EXCEPT
                         !.rollback = "blocked_unknown_or_incompatible_schema"]
      BY <2>1, <2>3 DEF Unverified
    <3> QED
      BY <3>1, <1>2 DEF JobStatus, RollbackStatus
  <2> QED
    BY <2>2, <2>3
<1>5. CASE At(c, "rollback") \/ At(c, "verify-rollback")
  <2>1. Failed(c) = [Ending(jobs[c], "verification_failed") EXCEPT
                       !.rollback = "failed_operator_intervention_required"]
    BY <1>5 DEF Failed, StagingSteps
  <2> QED
    BY <2>1, <1>2 DEF JobStatus, RollbackStatus
<1>6. CASE ~(At(c, "identify") \/ At(c, "verify") \/ At(c, "rollback")
             \/ At(c, "verify-rollback"))
  <2>1. \E status \in JobStatus : Failed(c) = Ending(jobs[c], status)
    <3>1. CASE At(c, "preflight")
      BY <3>1 DEF Failed, JobStatus
    <3>2. CASE jobs[c].pc \in StagingSteps
      BY <3>2 DEF Failed, JobStatus, StagingSteps
    <3>3. CASE At(c, "approval") \/ At(c, "recheck")
      BY <3>3 DEF Failed, JobStatus, StagingSteps
    <3>4. CASE At(c, "migrate")
      BY <3>4 DEF Failed, JobStatus, StagingSteps
    <3>5. CASE At(c, "swap")
      BY <3>5 DEF Failed, JobStatus, StagingSteps
    <3>6. CASE At(c, "verify-staging")
      BY <3>6 DEF Failed, JobStatus, StagingSteps
    <3> QED
      BY <1>1, <1>6, <3>1, <3>2, <3>3, <3>4, <3>5, <3>6
         DEF Steps, ProductionSteps, StagingSteps
  <2> QED
    BY <2>1, <1>2
<1> QED
  BY <1>3, <1>4, <1>5, <1>6

-----------------------------------------------------------------------------
(* TypeOK is inductive.                                                     *)

Restoring == {"rollback", "verify-rollback", "verify-staging"}
JobsOK == /\ jobs \in [Release -> Job]
          /\ \A c \in Release :
               jobs[c].pc \in Restoring => jobs[c].previous # None
RestOK == /\ head \in Commit
          /\ slots \in [Slot -> Commit \cup {None}]
          /\ schema \in [Slot -> Nat]
          /\ swapping \in BOOLEAN /\ deploying \subseteq Commit
          /\ tested \subseteq Commit /\ approved \subseteq Commit
          /\ attempts \in 0 .. MaxAttempts /\ faults \in 0 .. MaxFaults

LEMMA TypeParts == TypeOK <=> JobsOK /\ RestOK
BY DEF TypeOK, JobsOK, RestOK, Restoring

\* An attempt moves to another well-formed state.
LEMMA Becoming ==
    ASSUME NEW c \in Release, NEW j \in Job, JobsOK, Become(c, j),
           j.pc \in Restoring => j.previous # None
    PROVE  JobsOK'
BY DEF JobsOK, Become

\* A step of the attempt fails.
LEMMA BecomingFailed ==
    ASSUME NEW c \in Release, JobsOK, Active(c), Become(c, Failed(c))
    PROVE  JobsOK'
<1>1. /\ Failed(c) \in Job
      /\ Failed(c).pc \in Restoring => Failed(c).previous # None
  BY FailedJob DEF JobsOK, Restoring
<1> QED
  BY <1>1, Becoming

\* The attempt moves to another step.
LEMMA Going ==
    ASSUME NEW c \in Release, NEW p \in Steps, JobsOK, Goto(c, p),
           p \in Restoring => jobs[c].previous # None
    PROVE  JobsOK'
<1>1. /\ [jobs[c] EXCEPT !.pc = p] \in Job
      /\ [jobs[c] EXCEPT !.pc = p].pc = p
      /\ [jobs[c] EXCEPT !.pc = p].previous = jobs[c].previous
  BY DEF JobsOK, Job
<1> QED
  BY <1>1, Becoming DEF Goto

\* The attempt ends.
LEMMA EndingJob ==
    ASSUME NEW c \in Release, NEW status \in JobStatus, JobsOK
    PROVE  /\ Ending(jobs[c], status) \in Job
           /\ Ending(jobs[c], status).pc = "ended"
           /\ Ending(jobs[c], status).previous = jobs[c].previous
BY DEF JobsOK, Job, Ending

LEMMA AttemptJob ==
    ASSUME NEW p \in Steps \cup {"ended"}
    PROVE  /\ Attempt(p) \in Job
           /\ Attempt(p).pc = p /\ Attempt(p).previous = None
BY DEF Attempt, Job, JobStatus, RollbackStatus

\* What is executed of an unfinished write leaves a well-formed Azure.
LEMMA UnfinishedType ==
    ASSUME NEW c \in Release, RestOK, Unfinished(c), jobs[c].pc \in Steps
    PROVE  /\ slots' \in [Slot -> Commit \cup {None}]
           /\ schema' \in [Slot -> Nat]
           /\ swapping' \in BOOLEAN /\ deploying' \subseteq Commit
<1> USE ConstantFacts DEF RestOK, At
<1>1. CASE jobs[c].pc \in {"migrate-staging", "migrate"}
  <2>1. /\ (\E s \in Slot : Upgrade(s, c)) \/ UNCHANGED schema
        /\ UNCHANGED <<slots, swapping, deploying>>
    BY <1>1 DEF Unfinished, Slot
  <2> QED
    BY <2>1 DEF Upgrade
<1>2. CASE At(c, "deploy")
  BY <1>2 DEF Unfinished, DeployTo
<1>3. CASE jobs[c].pc \in {"swap", "rollback"}
  <2>1. /\ Exchange \/ UNCHANGED slots
        /\ swapping' \in {swapping, TRUE} \/ UNCHANGED swapping
        /\ UNCHANGED <<schema, deploying>>
    BY <1>3 DEF Unfinished
  <2>2. slots' \in [Slot -> Commit \cup {None}]
    BY <2>1, Exchanged DEF Slot
  <2> QED
    BY <2>1, <2>2
<1>4. CASE ~(jobs[c].pc \in {"migrate-staging", "migrate", "deploy", "swap",
                             "rollback"})
  BY <1>4 DEF Unfinished, azure
<1> QED
  BY <1>1, <1>2, <1>3, <1>4

LEMMA TypeInit == Init => TypeOK
<1> SUFFICES ASSUME Init PROVE TypeOK
  OBVIOUS
<1> USE ConstantFacts DEF Init
<1>1. JobsOK
  <2>1. Ending(Attempt("ended"), "none") \in Job
    BY DEF Ending, Attempt, Job, JobStatus, RollbackStatus
  <2>2. Ending(Attempt("ended"), "none").pc = "ended"
    BY DEF Ending, Attempt
  <2> QED
    BY <2>1, <2>2 DEF JobsOK, Restoring
<1>2. RestOK
  <2>1. 0 \in Commit /\ RevisionOf[0] \in Nat
    BY DEF Commit
  <2>2. /\ slots \in [Slot -> Commit \cup {None}]
        /\ schema \in [Slot -> Nat]
    BY <2>1
  <2>3. attempts \in 0 .. MaxAttempts /\ faults \in 0 .. MaxFaults
    OBVIOUS
  <2> QED
    BY <2>1, <2>2, <2>3 DEF RestOK
<1> QED
  BY <1>1, <1>2, TypeParts

LEMMA TypeStep == TypeOK /\ [Next]_vars => TypeOK'
<1> SUFFICES ASSUME TypeOK, [Next]_vars PROVE TypeOK'
  OBVIOUS
<1>1. JobsOK /\ RestOK
  BY TypeParts
<1> SUFFICES JobsOK' /\ RestOK'
  BY DEF TypeOK, JobsOK, RestOK, Restoring
<1> USE <1>1, ConstantFacts DEF At, azure, history
<1>2. CASE UNCHANGED vars
  BY <1>2 DEF vars, JobsOK, RestOK
<1>3. CASE Push
  BY <1>3 DEF Push, JobsOK, RestOK, Commit
<1>4. CASE Settle
  <2>1. slots' \in [Slot -> Commit \cup {None}]
    BY <1>4, Exchanged DEF Settle, RestOK, Slot
  <2> QED
    BY <1>4, <2>1 DEF Settle, RestOK, JobsOK
<1>22. CASE Land
  <2>1. PICK c \in deploying : /\ deploying' = deploying \ {c}
                               /\ DeployTo(c) \/ UNCHANGED slots
    BY <1>22 DEF Land
  <2>2. /\ slots' \in [Slot -> Commit \cup {None}]
        /\ deploying' \subseteq Commit
    BY <2>1 DEF RestOK, DeployTo
  <2> QED
    BY <1>22, <2>2 DEF Land, RestOK, JobsOK
<1>5. ASSUME NEW c \in Release, Start(c) \/ RerunStaging(c) \/ RerunProduction(c)
      PROVE  JobsOK' /\ RestOK'
  <2>1. PICK p \in {"preflight", "migrate-staging", "approval"} :
          Become(c, Attempt(p))
    BY <1>5 DEF Start, RerunStaging, RerunProduction
  <2>2. JobsOK'
    BY <2>1, AttemptJob, Becoming
       DEF Steps, StagingSteps, ProductionSteps, Restoring
  <2>3. /\ attempts' \in 0 .. MaxAttempts
        /\ UNCHANGED <<head, azure, history, faults>>
    BY <1>5 DEF Start, RerunStaging, RerunProduction, Admitted, RestOK
  <2> QED
    BY <2>2, <2>3 DEF RestOK
<1>6. ASSUME NEW c \in Release, Preflight(c) PROVE JobsOK' /\ RestOK'
  <2>1. Active(c) /\ (Goto(c, "migrate-staging") \/ Become(c, Failed(c)))
    BY <1>6 DEF Preflight, Active
  <2>2. JobsOK'
    BY <2>1, Going, BecomingFailed DEF Steps, StagingSteps, ProductionSteps, Restoring
  <2> QED
    BY <1>6, <2>2 DEF Preflight, RestOK
<1>7. ASSUME NEW c \in Release, MigrateStaging(c) PROVE JobsOK' /\ RestOK'
  <2>1. Active(c) /\ (Goto(c, "deploy") \/ Become(c, Failed(c)))
    BY <1>7 DEF MigrateStaging, Active
  <2>2. JobsOK'
    BY <2>1, Going, BecomingFailed DEF Steps, StagingSteps, ProductionSteps, Restoring
  <2>3. schema' \in [Slot -> Nat]
    BY <1>7 DEF MigrateStaging, Upgrade, RestOK
  <2> QED
    BY <1>7, <2>2, <2>3 DEF MigrateStaging, RestOK
<1>8. ASSUME NEW c \in Release, Deploy(c) PROVE JobsOK' /\ RestOK'
  <2>1. JobsOK'
    BY <1>8, Going DEF Deploy, Steps, StagingSteps, ProductionSteps, Restoring
  <2> QED
    BY <1>8, <2>1 DEF Deploy, DeployTo, RestOK
<1>9. ASSUME NEW c \in Release, Smoke(c) PROVE JobsOK' /\ RestOK'
  <2>1. Active(c) /\ (Goto(c, "approval") \/ Become(c, Failed(c)))
    BY <1>9 DEF Smoke, Active
  <2>2. JobsOK'
    BY <2>1, Going, BecomingFailed DEF Steps, StagingSteps, ProductionSteps, Restoring
  <2> QED
    BY <1>9, <2>2 DEF Smoke, RestOK
<1>10. ASSUME NEW c \in Release, Approve(c) PROVE JobsOK' /\ RestOK'
  <2>1. JobsOK'
    BY <1>10, Going DEF Approve, Steps, StagingSteps, ProductionSteps, Restoring
  <2> QED
    BY <1>10, <2>1 DEF Approve, RestOK
<1>11. ASSUME NEW c \in Release, Reject(c) PROVE JobsOK' /\ RestOK'
  <2>1. JobsOK'
    BY <1>11, BecomingFailed DEF Reject, Active
  <2> QED
    BY <1>11, <2>1 DEF Reject, RestOK
<1>12. ASSUME NEW c \in Release, Recheck(c) PROVE JobsOK' /\ RestOK'
  <2>1. Active(c) /\ (Goto(c, "identify") \/ Become(c, Failed(c)))
    BY <1>12 DEF Recheck, Active
  <2>2. JobsOK'
    BY <2>1, Going, BecomingFailed DEF Steps, StagingSteps, ProductionSteps, Restoring
  <2> QED
    BY <1>12, <2>2 DEF Recheck, RestOK
<1>13. ASSUME NEW c \in Release, Identify(c) PROVE JobsOK' /\ RestOK'
  <2>1. CASE Ready("production")
    <3>1. slots["production"] \in Commit
      BY <2>1 DEF Ready, RestOK, Slot
    <3>2. /\ [jobs[c] EXCEPT !.pc = "migrate", !.previous = slots["production"]]
                \in Job
          /\ [jobs[c] EXCEPT !.pc = "migrate",
                             !.previous = slots["production"]].pc = "migrate"
      BY <3>1 DEF JobsOK, Job, Steps, ProductionSteps
    <3> QED
      BY <1>13, <2>1, <3>2, Becoming DEF Identify, RestOK, Restoring
  <2>2. CASE ~Ready("production")
    <3>1. JobsOK'
      BY <1>13, <2>2, BecomingFailed DEF Identify, Active
    <3> QED
      BY <1>13, <3>1 DEF Identify, RestOK
  <2> QED
    BY <2>1, <2>2
<1>14. ASSUME NEW c \in Release, Migrate(c) PROVE JobsOK' /\ RestOK'
  <2>1. Active(c) /\ (Goto(c, "swap") \/ Become(c, Failed(c)))
    BY <1>14 DEF Migrate, Active
  <2>2. JobsOK'
    BY <2>1, Going, BecomingFailed DEF Steps, StagingSteps, ProductionSteps, Restoring
  <2>3. schema' \in [Slot -> Nat]
    BY <1>14 DEF Migrate, Upgrade, RestOK
  <2> QED
    BY <1>14, <2>2, <2>3 DEF Migrate, RestOK
<1>15. ASSUME NEW c \in Release, Swap(c) PROVE JobsOK' /\ RestOK'
  <2>1. Active(c) /\ (Goto(c, "verify") \/ Become(c, Failed(c)))
    BY <1>15 DEF Swap, Active
  <2>2. JobsOK'
    BY <1>15, <2>1, Going, BecomingFailed DEF Swap, JobsOK, Steps, StagingSteps, ProductionSteps, Restoring
  <2>3. slots' \in [Slot -> Commit \cup {None}]
    BY <1>15, Exchanged DEF Swap, RestOK, Slot
  <2> QED
    BY <1>15, <2>2, <2>3 DEF Swap, RestOK
<1>16. ASSUME NEW c \in Release, Verify(c) PROVE JobsOK' /\ RestOK'
  <2>1. \/ Become(c, Failed(c))
        \/ Become(c, Ending(jobs[c], "verified"))
        \/ Goto(c, "verify-staging") /\ jobs[c].previous # None
    BY <1>16 DEF Verify, Become, Goto
  <2>2. JobsOK'
    BY <1>16, <2>1, BecomingFailed, EndingJob, Becoming, Going
       DEF Verify, Active, JobStatus, Steps, StagingSteps, ProductionSteps, Restoring
  <2> QED
    BY <1>16, <2>2 DEF Verify, RestOK
<1>17. ASSUME NEW c \in Release, Rollback(c) PROVE JobsOK' /\ RestOK'
  <2>1. Active(c) /\ (Goto(c, "verify-rollback") \/ Become(c, Failed(c)))
    BY <1>17 DEF Rollback, Active
  <2>2. JobsOK'
    BY <1>17, <2>1, Going, BecomingFailed DEF Rollback, JobsOK, Steps, StagingSteps, ProductionSteps, Restoring
  <2>3. slots' \in [Slot -> Commit \cup {None}]
    BY <1>17, Exchanged DEF Rollback, RestOK, Slot
  <2> QED
    BY <1>17, <2>2, <2>3 DEF Rollback, RestOK
<1>18. ASSUME NEW c \in Release, VerifyRollback(c) PROVE JobsOK' /\ RestOK'
  <2>1. CASE Serves("production", jobs[c].previous, c)
    <3> DEFINE j == [Ending(jobs[c], "verification_failed") EXCEPT
                       !.rollback = "verified_previous_application"]
    <3>1. j \in Job /\ j.pc = "ended"
      BY EndingJob DEF Job, JobStatus, RollbackStatus
    <3>2. Become(c, j)
      BY <1>18, <2>1 DEF VerifyRollback
    <3> HIDE DEF j
    <3> QED
      BY <1>18, <3>1, <3>2, Becoming DEF VerifyRollback, RestOK, Restoring
  <2>2. CASE ~Serves("production", jobs[c].previous, c)
    <3>1. JobsOK'
      BY <1>18, <2>2, BecomingFailed DEF VerifyRollback, Active
    <3> QED
      BY <1>18, <3>1 DEF VerifyRollback, RestOK
  <2> QED
    BY <2>1, <2>2
<1>19. ASSUME NEW c \in Release, VerifyStaging(c) PROVE JobsOK' /\ RestOK'
  <2>1. \/ Become(c, Failed(c))
        \/ Become(c, Ending(jobs[c], "verified"))
    BY <1>19 DEF VerifyStaging
  <2>2. JobsOK'
    BY <1>19, <2>1, BecomingFailed, EndingJob, Becoming
       DEF VerifyStaging, Active, JobStatus, Restoring
  <2> QED
    BY <1>19, <2>2 DEF VerifyStaging, RestOK
<1>20. ASSUME NEW c \in Release, Break(c) PROVE JobsOK' /\ RestOK'
  <2>1. JobsOK'
    BY <1>20, BecomingFailed DEF Break, Active, Steps, StagingSteps, ProductionSteps, Restoring
  <2>2. jobs[c].pc \in Steps
    BY <1>20 DEF Break
  <2>3. faults' \in 0 .. MaxFaults
    BY <1>20 DEF Break, Fault, RestOK
  <2> QED
    BY <1>20, <2>1, <2>2, <2>3, UnfinishedType DEF Break, RestOK
<1>21. ASSUME NEW c \in Release, Kill(c) PROVE JobsOK' /\ RestOK'
  <2>1. PICK status \in JobStatus : Become(c, Ending(jobs[c], status))
    BY <1>21 DEF Kill, JobStatus
  <2>2. JobsOK'
    BY <2>1, EndingJob, Becoming DEF Restoring
  <2>3. jobs[c].pc \in Steps
    BY <1>21 DEF Kill, Active, JobsOK, Job
  <2>4. faults' \in 0 .. MaxFaults
    BY <1>21 DEF Kill, Fault, RestOK
  <2> QED
    BY <1>21, <2>2, <2>3, <2>4, UnfinishedType DEF Kill, RestOK
<1> QED
  BY <1>2, <1>3, <1>4, <1>5, <1>6, <1>7, <1>8, <1>9, <1>10, <1>11, <1>12, <1>13, <1>14, <1>15, <1>16, <1>17, <1>18, <1>19, <1>20, <1>21, <1>22
     DEF Next, Step

\* Every reachable state has the shape of TypeOK: in particular no attempt ever
\* swaps back, or expects an artifact in a slot, without a previous identity.
THEOREM TypeCorrectness == Spec => []TypeOK
BY TypeInit, TypeStep, PTL DEF Spec

-----------------------------------------------------------------------------
(* The inductive invariant of releases whose operators settle swaps.       *)

\* Operators also settle deployments.
Quiet == "deployment" \in Reconciled

\* The policy was checked again, and the head was this commit.
Checked == {"identify", "migrate", "swap", "verify", "rollback",
            "verify-rollback", "verify-staging"}

\* Production's migration was executed.
Migrated == {"swap", "verify", "rollback", "verify-rollback", "verify-staging"}

\* No artifact in a slot, or on its way to staging, is newer than commit n.
UpTo(n) == /\ \A s \in Slot : slots[s] # None => slots[s] <= n
           /\ \A d \in deploying : d <= n

\* What is in staging, or may still get there, could go into production: its
\* schema is there.
StagingCovered ==
    /\ slots["staging"] # None => RevisionOf[slots["staging"]] <= schema["production"]
    /\ \A d \in deploying : RevisionOf[d] <= schema["production"]

\* The concurrency group: one attempt at a time, and none while a swap that
\* was given up may still be executed, nor, where operators settle those too,
\* a deployment.  The swap would not bring an artifact into production whose
\* schema is not there.
AloneOK ==
    /\ \A c, d \in Release : Active(c) /\ Active(d) => c = d
    /\ swapping => StagingCovered /\ \A c \in Release : ~Active(c)
    /\ Quiet /\ deploying # {} => \A c \in Release : ~Active(c)

\* No artifact is newer than the head, nor, once the head was checked again,
\* than the commit that is promoted.
HeadOK ==
    /\ \A c \in Release : Active(c) => c <= head
    /\ UpTo(head)
    /\ \A c \in Release : jobs[c].pc \in Checked => UpTo(c)

\* What an attempt in state j knows of the slots and of production's schema.
\* What staging holds it only knows if no late deployment lands there.
Knows(j, c) ==
    /\ j.pc \in Steps \ Checked \/ j.pc = "identify" => j.previous = None
    /\ j.pc \in Migrated => schema["production"] = RevisionOf[c]
    /\ j.pc \in {"migrate", "swap"} /\ j.previous # None
         => slots["production"] = j.previous
    /\ Quiet /\ j.pc \in {"verify", "rollback"} /\ j.previous # None
         => slots["staging"] = j.previous
    /\ Quiet /\ j.pc = "verify-rollback" => slots["production"] = j.previous
    /\ j.pc \in {"rollback", "verify-rollback"}
         => RevisionOf[j.previous] = RevisionOf[c]
InformedOK == \A c \in Release : Knows(jobs[c], c)

RIInv == AloneOK /\ HeadOK /\ InformedOK /\ SchemaCovers
IInv == TypeOK /\ RIInv

\* An attempt that moves while no other is active keeps the invariant if what
\* it then knows is true and the slots are not ahead of the head.
LEMMA Moving ==
    ASSUME TypeOK, NEW c \in Release, \A d \in Release : Active(d) => d = c,
           NEW j \in Job, Become(c, j), Knows(j, c)', c <= head',
           swapping' => j.pc = "ended" /\ StagingCovered',
           Quiet /\ deploying' # {} => j.pc = "ended",
           UpTo(head)', j.pc \in Checked => UpTo(c)'
    PROVE  AloneOK' /\ HeadOK' /\ InformedOK'
<1>1. /\ jobs'[c] = j
      /\ \A d \in Release : d # c => jobs'[d] = jobs[d] /\ jobs[d].pc = "ended"
  BY DEF TypeOK, Become, Active
<1>2. AloneOK'
  BY <1>1 DEF AloneOK, Active
<1>3. HeadOK'
  BY <1>1 DEF HeadOK, Active, Checked
<1>4. ASSUME NEW d \in Release PROVE Knows(jobs[d], d)'
  <2>1. CASE d = c
    BY <1>1, <2>1 DEF Knows
  <2>2. CASE d # c
    BY <1>1, <2>2 DEF Knows, Steps, StagingSteps, ProductionSteps, Checked,
                      Migrated
  <2> QED
    BY <2>1, <2>2
<1> QED
  BY <1>2, <1>3, <1>4 DEF InformedOK

\* A step that changes nothing but its own attempt.
LEMMA Thinking ==
    ASSUME TypeOK, RIInv, NEW c \in Release, Active(c), NEW j \in Job,
           Become(c, j), Knows(j, c), UNCHANGED <<head, azure>>,
           j.pc \in Checked => jobs[c].pc \in Checked \/ head = c
    PROVE  RIInv'
<1> USE DEF azure
<1>1. /\ \A d \in Release : Active(d) => d = c
      /\ ~swapping /\ c <= head
      /\ Quiet => deploying = {}
      /\ UpTo(head)
      /\ j.pc \in Checked => UpTo(c)
  BY DEF RIInv, AloneOK, HeadOK
<1>2. Knows(j, c)'
  BY DEF Knows
<1>3. SchemaCovers'
  BY DEF RIInv, SchemaCovers
<1>4. UpTo(head)' /\ (j.pc \in Checked => UpTo(c)')
  BY <1>1 DEF UpTo
<1> QED
  BY <1>1, <1>2, <1>3, <1>4, Moving DEF RIInv

\* What a failed step goes on with is true.
LEMMA FailedKnows ==
    ASSUME TypeOK, RIInv, NEW c \in Release, Active(c)
    PROVE  /\ Failed(c) \in Job
           /\ Knows(Failed(c), c)
           /\ Failed(c).pc \in Checked => jobs[c].pc \in Checked
           /\ ~At(c, "identify") /\ ~At(c, "verify") => Failed(c).pc = "ended"
<1>1. jobs[c] \in Job
  BY DEF TypeOK
<1>2. Knows(jobs[c], c)
  BY DEF RIInv, InformedOK
<1> QED
  BY <1>1, <1>2, FailedJob
     DEF Knows, At, Checked, Migrated, Steps, StagingSteps, ProductionSteps

\* Writes that fail leave slots and schema behind that are in order.
LEMMA UnfinishedOK ==
    ASSUME TypeOK, RIInv, NEW c \in Release, Active(c), Unfinished(c)
    PROVE  /\ \A s \in Slot : slots'[s] # None => slots'[s] <= head
           /\ \A d \in deploying' : d <= head
           /\ SchemaCovers'
           /\ swapping' => StagingCovered'
           /\ jobs[c].pc \notin {"migrate-staging", "migrate", "deploy", "swap",
                                 "rollback"} => UNCHANGED azure
           /\ swapping' => jobs[c].pc \in {"swap", "rollback"}
<1> USE ConstantFacts DEF At, Active
<1>1. /\ slots \in [Slot -> Commit \cup {None}]
      /\ schema \in [Slot -> Nat]
      /\ deploying \subseteq Commit
      /\ RevisionOf[c] \in Nat
      /\ c \in Commit
  BY DEF TypeOK
<1>2. /\ ~swapping /\ c <= head
      /\ \A s \in Slot : slots[s] # None => slots[s] <= head
      /\ \A d \in deploying : d <= head
      /\ SchemaCovers
  BY DEF RIInv, AloneOK, HeadOK, UpTo
<1>3. CASE jobs[c].pc \in {"migrate-staging", "migrate"}
  <2>1. /\ \/ UNCHANGED schema
           \/ \E s \in Slot : Upgradable(s, c) /\ Upgrade(s, c)
        /\ UNCHANGED <<slots, swapping, deploying>>
    BY <1>3 DEF Unfinished, Slot
  <2>2. schema["production"] <= schema'["production"]
    BY <1>1, <2>1 DEF Upgradable, Upgrade, Slot
  <2>3. schema'["production"] \in Nat
    BY <1>1, <2>1 DEF Upgrade, Slot
  <2>4. SchemaCovers'
    <3>1. SUFFICES ASSUME slots["production"] # None
                   PROVE  RevisionOf[slots["production"]] <= schema'["production"]
      BY <2>1 DEF SchemaCovers
    <3>2. /\ RevisionOf[slots["production"]] <= schema["production"]
          /\ RevisionOf[slots["production"]] \in Nat
          /\ schema["production"] \in Nat
      BY <1>1, <1>2, <3>1 DEF SchemaCovers, Slot
    <3> QED
      BY <2>2, <2>3, <3>2
  <2> QED
    BY <1>2, <1>3, <2>1, <2>4
<1>4. CASE jobs[c].pc = "deploy"
  <2>1. /\ slots' = [slots EXCEPT !["staging"] = c] \/ slots' = slots
        /\ deploying' \subseteq deploying \cup {c}
        /\ UNCHANGED <<schema, swapping>>
    BY <1>4 DEF Unfinished, DeployTo
  <2>2. /\ slots'["production"] = slots["production"]
        /\ slots'["staging"] \in {c, slots["staging"]}
    BY <1>1, <2>1 DEF Slot
  <2>3. \A d \in deploying' : d <= head
    BY <1>2, <2>1
  <2> QED
    BY <1>2, <1>4, <2>1, <2>2, <2>3 DEF SchemaCovers, Slot
<1>5. CASE jobs[c].pc \in {"swap", "rollback"}
  <2>1. /\ schema["production"] = RevisionOf[c]
        /\ \A s \in Slot : slots[s] # None => slots[s] <= c
        /\ \A d \in deploying : d <= c
    BY <1>5 DEF RIInv, InformedOK, HeadOK, UpTo, Knows, Migrated, Checked
  <2>2. \A s \in Slot : slots[s] # None
          => RevisionOf[slots[s]] <= schema["production"]
    BY <1>1, <2>1
  <2>3. \A d \in deploying : RevisionOf[d] <= schema["production"]
    BY <1>1, <2>1
  <2>4. /\ Exchange \/ UNCHANGED slots
        /\ UNCHANGED <<schema, deploying>>
    BY <1>5 DEF Unfinished
  <2>5. /\ slots'["production"] \in {slots["production"], slots["staging"]}
        /\ slots'["staging"] \in {slots["production"], slots["staging"]}
    BY <2>4, Exchanged
  <2>6. StagingCovered' /\ SchemaCovers'
    BY <2>2, <2>3, <2>4, <2>5 DEF StagingCovered, SchemaCovers, Slot
  <2> QED
    BY <1>2, <1>5, <2>4, <2>5, <2>6 DEF Slot
<1>6. CASE jobs[c].pc \notin {"migrate-staging", "migrate", "deploy", "swap",
                              "rollback"}
  <2>1. UNCHANGED azure
    BY <1>6 DEF Unfinished
  <2> QED
    BY <1>2, <1>6, <2>1 DEF azure, SchemaCovers
<1> QED
  BY <1>3, <1>4, <1>5, <1>6

LEMMA RInit == Init => RIInv
<1> SUFFICES ASSUME Init PROVE RIInv
  OBVIOUS
<1>1. \A c \in Release : jobs[c].pc = "ended"
  BY DEF Init, Ending, Attempt
<1>2. AloneOK /\ InformedOK
  BY <1>1 DEF Init, AloneOK, InformedOK, Knows, Active, Checked, Migrated, Steps, StagingSteps, ProductionSteps
<1>3. HeadOK
  BY <1>1, ConstantFacts DEF Init, HeadOK, UpTo, Active, Checked
<1>4. SchemaCovers
  <2>1. RevisionOf[0] \in Nat /\ 0 \in Commit
    BY ConstantFacts DEF Commit
  <2> QED
    BY <2>1 DEF Init, SchemaCovers, Slot
<1> QED
  BY <1>2, <1>3, <1>4 DEF RIInv

\* A new attempt, or a rerun, finds no active attempt and no abandoned swap.
LEMMA StartKeeps ==
    ASSUME "swap" \in Reconciled, TypeOK, RIInv, NEW c \in Release,
           Start(c) \/ RerunStaging(c) \/ RerunProduction(c)
    PROVE  RIInv'
<1>1. PICK p \in {"preflight", "migrate-staging", "approval"} :
        Become(c, Attempt(p))
  BY DEF Start, RerunStaging, RerunProduction
<1>2. /\ \A d \in Release : ~Active(d)
      /\ ~swapping /\ (Quiet => deploying = {}) /\ c <= head
      /\ UNCHANGED <<head, azure>>
  BY DEF Start, RerunStaging, RerunProduction, Admitted, Settled, Quiet
<1>3. /\ Attempt(p) \in Job
      /\ Attempt(p).pc = p /\ Attempt(p).previous = None
  BY AttemptJob DEF Steps, StagingSteps, ProductionSteps
<1>4. Knows(Attempt(p), c)'
  BY <1>3 DEF Knows, Checked, Migrated, Steps, StagingSteps, ProductionSteps
<1>5. UpTo(head)'
  BY <1>2 DEF RIInv, HeadOK, UpTo, azure
<1>6. SchemaCovers'
  BY <1>2 DEF RIInv, SchemaCovers, azure
<1>7. /\ ~swapping' /\ (Quiet => deploying' = {})
      /\ c <= head' /\ Attempt(p).pc \notin Checked
  BY <1>2, <1>3 DEF azure, Checked
<1> HIDE DEF Attempt
<1> QED
  BY <1>1, <1>2, <1>3, <1>4, <1>5, <1>6, <1>7, Moving DEF RIInv

\* The steps that read, decide or wait.
LEMMA ReadKeeps ==
    ASSUME TypeOK, RIInv, NEW c \in Release,
           \/ Preflight(c) \/ Smoke(c) \/ Approve(c) \/ Reject(c) \/ Recheck(c)
           \/ Identify(c) \/ Verify(c) \/ VerifyRollback(c) \/ VerifyStaging(c)
    PROVE  RIInv'
<1> USE DEF At
<1>1. /\ Active(c)
      /\ UNCHANGED <<head, azure>>
  BY DEF Active, Preflight, Smoke, Approve, Reject, Recheck, Identify, Verify,
         VerifyRollback, VerifyStaging, azure, history
<1>2. /\ jobs[c] \in Job
      /\ Knows(jobs[c], c)
  BY DEF TypeOK, RIInv, InformedOK
<1>3. ASSUME NEW j \in Job, Become(c, j), Knows(j, c),
             j.pc \in Checked => jobs[c].pc \in Checked \/ head = c
      PROVE  RIInv'
  BY <1>1, <1>3, Thinking
<1>4. CASE Become(c, Failed(c))
  BY <1>1, <1>3, <1>4, FailedKnows
<1>5. \A status \in JobStatus :
        /\ Ending(jobs[c], status) \in Job
        /\ Ending(jobs[c], status).pc = "ended"
        /\ Knows(Ending(jobs[c], status), c)
  BY <1>2, EndingJob, TypeParts DEF Knows, Checked, Migrated, Steps, StagingSteps, ProductionSteps
<1>6. ASSUME NEW p \in Steps, Goto(c, p), jobs[c].previous = None,
             p \in {"migrate-staging", "approval", "recheck", "identify"},
             p = "identify" => head = c
      PROVE  RIInv'
  <2> DEFINE j == [jobs[c] EXCEPT !.pc = p]
  <2>1. j \in Job /\ j.pc = p /\ j.previous = None
    BY <1>2, <1>6 DEF Job
  <2>2. Become(c, j)
    BY <1>6 DEF Goto
  <2> HIDE DEF j
  <2>3. Knows(j, c)
    BY <1>6, <2>1 DEF Knows, Checked, Migrated, Steps, StagingSteps, ProductionSteps
  <2> QED
    BY <1>3, <1>6, <2>1, <2>2, <2>3 DEF Checked
<1>7. CASE Preflight(c) \/ Smoke(c) \/ Approve(c) \/ Recheck(c)
  <2>1. jobs[c].previous = None
    BY <1>2, <1>7 DEF Knows, Preflight, Smoke, Approve, Recheck, Steps,
                      StagingSteps, ProductionSteps, Checked
  <2>2. \/ Become(c, Failed(c))
        \/ \E p \in {"migrate-staging", "approval", "recheck"} : Goto(c, p)
        \/ Goto(c, "identify") /\ head = c
    BY <1>7 DEF Preflight, Smoke, Approve, Recheck
  <2>3. CASE Become(c, Failed(c))
    BY <1>4, <2>3
  <2>4. CASE \E p \in {"migrate-staging", "approval", "recheck"} : Goto(c, p)
    <3>1. PICK p \in {"migrate-staging", "approval", "recheck"} : Goto(c, p)
      BY <2>4
    <3>2. /\ p \in Steps
          /\ p \in {"migrate-staging", "approval", "recheck", "identify"}
          /\ p # "identify"
      BY DEF Steps, StagingSteps, ProductionSteps
    <3> QED
      BY <1>6, <2>1, <3>1, <3>2, Zenon
  <2>5. CASE Goto(c, "identify") /\ head = c
    <3>1. "identify" \in Steps
      BY DEF Steps, ProductionSteps
    <3> QED
      BY <1>6, <2>1, <2>5, <3>1 DEF Goto, Become
  <2> QED
    BY <2>2, <2>3, <2>4, <2>5
<1>8. CASE Reject(c)
  BY <1>4, <1>8 DEF Reject
<1>9. CASE Identify(c)
  <2>1. CASE Ready("production")
    <3> DEFINE j == [jobs[c] EXCEPT !.pc = "migrate",
                                    !.previous = slots["production"]]
    <3>1. slots["production"] \in Commit
      BY <2>1 DEF Ready, TypeOK, Slot
    <3>2. /\ j \in Job /\ j.pc = "migrate"
          /\ j.previous = slots["production"]
      BY <1>2, <3>1 DEF Job, Steps, ProductionSteps
    <3>3. Become(c, j) /\ jobs[c].pc \in Checked
      BY <1>9, <2>1 DEF Identify, Checked
    <3> HIDE DEF j
    <3>4. Knows(j, c)
      BY <3>2 DEF Knows, Checked, Migrated, Steps, StagingSteps, ProductionSteps
    <3> QED
      BY <1>3, <3>2, <3>3, <3>4
  <2>2. CASE ~Ready("production")
    BY <1>4, <1>9, <2>2 DEF Identify
  <2> QED
    BY <2>1, <2>2
<1>10. CASE Verify(c)
  <2>1. CASE Become(c, Ending(jobs[c], "verified"))
    BY <1>3, <1>5, <2>1 DEF Checked, JobStatus
  <2>2. CASE Become(c, [jobs[c] EXCEPT !.pc = "verify-staging"])
    <3> DEFINE j == [jobs[c] EXCEPT !.pc = "verify-staging"]
    <3>1. j \in Job /\ j.pc = "verify-staging"
      BY <1>2 DEF Job, Steps, ProductionSteps
    <3>2. jobs[c].pc \in Checked /\ jobs[c].pc \in Migrated
      BY <1>10 DEF Verify, Checked, Migrated
    <3>3. Become(c, j)
      BY <2>2
    <3> HIDE DEF j
    <3>4. Knows(j, c)
      BY <1>2, <3>1, <3>2 DEF Knows, Checked, Migrated, Steps, StagingSteps, ProductionSteps
    <3> QED
      BY <1>3, <3>1, <3>2, <3>3, <3>4
  <2> QED
    BY <1>4, <1>10, <2>1, <2>2 DEF Verify
<1>11. CASE VerifyRollback(c)
  <2>1. CASE Serves("production", jobs[c].previous, c)
    <3> DEFINE j == [Ending(jobs[c], "verification_failed") EXCEPT
                       !.rollback = "verified_previous_application"]
    <3>1. j \in Job /\ j.pc = "ended"
      BY <1>5 DEF Job, JobStatus, RollbackStatus
    <3>2. Become(c, j)
      BY <1>11, <2>1 DEF VerifyRollback
    <3> HIDE DEF j
    <3>3. Knows(j, c)
      BY <3>1 DEF Knows, Checked, Migrated, Steps, StagingSteps, ProductionSteps
    <3> QED
      BY <1>3, <3>1, <3>2, <3>3 DEF Checked
  <2>2. CASE ~Serves("production", jobs[c].previous, c)
    BY <1>4, <1>11, <2>2 DEF VerifyRollback
  <2> QED
    BY <2>1, <2>2
<1>12. CASE VerifyStaging(c)
  <2>1. CASE Become(c, Ending(jobs[c], "verified"))
    BY <1>3, <1>5, <2>1 DEF Checked, JobStatus
  <2> QED
    BY <1>4, <1>12, <2>1 DEF VerifyStaging
<1> QED
  BY <1>7, <1>8, <1>9, <1>10, <1>11, <1>12

\* What an attempt whose step succeeds goes on with.
LEMMA GoingOn ==
    ASSUME NEW c \in Release, jobs[c] \in Job, NEW p \in Steps, Goto(c, p)
    PROVE  \E j \in Job : /\ Become(c, j)
                          /\ j.pc = p /\ j.previous = jobs[c].previous
<1> DEFINE j == [jobs[c] EXCEPT !.pc = p]
<1>1. j \in Job /\ j.pc = p /\ j.previous = jobs[c].previous
  BY DEF Job
<1>2. Become(c, j)
  BY DEF Goto
<1> HIDE DEF j
<1> QED
  BY <1>1, <1>2

\* A step whose request is refused only thinks.
LEMMA RefusedKeeps ==
    ASSUME TypeOK, RIInv, NEW c \in Release, Active(c), Become(c, Failed(c)),
           UNCHANGED <<head, azure>>
    PROVE  RIInv'
<1> DEFINE j == Failed(c)
<1>1. /\ j \in Job /\ Knows(j, c)
      /\ j.pc \in Checked => jobs[c].pc \in Checked
  BY FailedKnows
<1>2. Become(c, j)
  OBVIOUS
<1> HIDE DEF j
<1> QED
  BY <1>1, <1>2, Thinking

\* The state in which an attempt acts.
LEMMA Acting ==
    ASSUME TypeOK, RIInv, NEW c \in Release, Active(c)
    PROVE  /\ \A d \in Release : Active(d) => d = c
           /\ ~swapping /\ (Quiet => deploying = {}) /\ c <= head
           /\ UpTo(head) /\ (jobs[c].pc \in Checked => UpTo(c))
           /\ \A s \in Slot : slots[s] # None => slots[s] <= head
           /\ jobs[c].pc \in Checked =>
                \A s \in Slot : slots[s] # None => slots[s] <= c
           /\ SchemaCovers
           /\ jobs[c] \in Job /\ Knows(jobs[c], c)
           /\ slots \in [Slot -> Commit \cup {None}]
           /\ schema \in [Slot -> Nat]
           /\ c \in Commit /\ RevisionOf[c] \in Nat
BY ConstantFacts DEF TypeOK, RIInv, AloneOK, HeadOK, UpTo, InformedOK

\* A step that changes slots or schemas.
LEMMA Writing ==
    ASSUME TypeOK, RIInv, NEW c \in Release, Active(c), NEW j \in Job,
           Become(c, j), Knows(j, c)', UNCHANGED <<head, swapping, deploying>>,
           \A s \in Slot : slots'[s] # None => slots'[s] <= head,
           j.pc \in Checked =>
             /\ jobs[c].pc \in Checked
             /\ \A s \in Slot : slots'[s] # None => slots'[s] <= c,
           SchemaCovers'
    PROVE  RIInv'
<1>1. /\ UpTo(head)'
      /\ j.pc \in Checked => UpTo(c)'
  BY Acting DEF UpTo
<1> QED
  BY <1>1, Acting, Moving DEF RIInv

\* The two migrations.
LEMMA MigrateStagingKeeps ==
    ASSUME TypeOK, RIInv, NEW c \in Release, MigrateStaging(c)
    PROVE  RIInv'
<1>1. Active(c) /\ At(c, "migrate-staging")
  BY DEF MigrateStaging, Active, At
<1>2. CASE ~Upgradable("staging", c)
  BY <1>1, <1>2, RefusedKeeps DEF MigrateStaging, azure
<1>3. CASE Upgradable("staging", c)
  <2>1. PICK j \in Job : /\ Become(c, j)
                         /\ j.pc = "deploy" /\ j.previous = jobs[c].previous
    BY <1>1, <1>3, Acting, GoingOn DEF MigrateStaging, Steps, StagingSteps
  <2>2. UNCHANGED <<head, slots, swapping, deploying>> /\ Upgrade("staging", c)
    BY <1>3 DEF MigrateStaging
  <2>3. schema'["production"] = schema["production"]
    BY <1>1, <2>2, Acting DEF Upgrade, Slot
  <2>4. SchemaCovers'
    BY <1>1, <2>2, <2>3, Acting DEF SchemaCovers
  <2>5. jobs[c].previous = None
    BY <1>1, Acting DEF Knows, At, Steps, StagingSteps, Checked
  <2>6. Knows(j, c)' /\ j.pc \notin Checked
    BY <2>1, <2>5 DEF Knows, Checked, Migrated
  <2>7. \A s \in Slot : slots'[s] # None => slots'[s] <= head
    BY <1>1, <2>2, Acting
  <2> QED
    BY <1>1, <2>1, <2>2, <2>4, <2>6, <2>7, Writing
<1> QED
  BY <1>2, <1>3

LEMMA MigrateKeeps ==
    ASSUME TypeOK, RIInv, NEW c \in Release, Migrate(c)
    PROVE  RIInv'
<1>1. Active(c) /\ At(c, "migrate") /\ jobs[c].pc \in Checked
  BY DEF Migrate, Active, At, Checked
<1>2. CASE ~Upgradable("production", c)
  BY <1>1, <1>2, RefusedKeeps DEF Migrate, azure
<1>3. CASE Upgradable("production", c)
  <2>1. PICK j \in Job : /\ Become(c, j)
                         /\ j.pc = "swap" /\ j.previous = jobs[c].previous
    BY <1>1, <1>3, Acting, GoingOn DEF Migrate, Steps, ProductionSteps
  <2>2. UNCHANGED <<head, slots, swapping, deploying>> /\ Upgrade("production", c)
    BY <1>3 DEF Migrate
  <2>3. schema'["production"] = RevisionOf[c]
    BY <1>1, <2>2, Acting DEF Upgrade, Slot
  <2>4. SchemaCovers'
    \* The head was checked: no artifact in a slot is newer than c.
    <3>1. SUFFICES ASSUME slots["production"] # None
                   PROVE  RevisionOf[slots["production"]] <= RevisionOf[c]
      BY <2>2, <2>3 DEF SchemaCovers
    <3>2. /\ slots["production"] \in Commit /\ slots["production"] <= c
          /\ c \in Commit
      BY <1>1, <3>1, Acting DEF Slot
    <3> QED
      BY <3>2, ConstantFacts
  <2>5. Knows(j, c)'
    BY <1>1, <2>1, <2>2, <2>3, Acting
       DEF Knows, At, Checked, Migrated, Steps, StagingSteps, ProductionSteps
  <2>6. \A s \in Slot : slots'[s] # None => slots'[s] <= head /\ slots'[s] <= c
    BY <1>1, <2>2, Acting
  <2> QED
    BY <1>1, <2>1, <2>2, <2>4, <2>5, <2>6, Writing
<1> QED
  BY <1>2, <1>3

\* The deployment to staging.
LEMMA DeployKeeps ==
    ASSUME TypeOK, RIInv, NEW c \in Release, Deploy(c)
    PROVE  RIInv'
<1>1. Active(c) /\ At(c, "deploy")
  BY DEF Deploy, Active, At
<1>2. PICK j \in Job : /\ Become(c, j)
                       /\ j.pc = "smoke" /\ j.previous = jobs[c].previous
  BY <1>1, Acting, GoingOn DEF Deploy, Steps, StagingSteps
<1>3. UNCHANGED <<head, schema, swapping, deploying>>
  BY DEF Deploy
<1>4. /\ slots'["production"] = slots["production"]
      /\ slots'["staging"] = c
  BY <1>1, Acting DEF Deploy, DeployTo, Slot
<1>5. SchemaCovers'
  BY <1>1, <1>3, <1>4, Acting DEF SchemaCovers
<1>6. jobs[c].previous = None
  BY <1>1, Acting DEF Knows, At, Steps, StagingSteps, Checked
<1>7. Knows(j, c)' /\ j.pc \notin Checked
  BY <1>2, <1>6 DEF Knows, Checked, Migrated
<1>8. \A s \in Slot : slots'[s] # None => slots'[s] <= head
  BY <1>1, <1>4, Acting DEF Slot
<1> QED
  BY <1>1, <1>2, <1>3, <1>5, <1>7, <1>8, Writing

\* The swap of a migrated production, and the swap back: neither slot holds an
\* artifact that is newer than the schema.
LEMMA ExchangeKeeps ==
    ASSUME TypeOK, RIInv, NEW c \in Release, Active(c),
           jobs[c].pc \in {"swap", "rollback"}, Exchange,
           UNCHANGED <<head, schema, swapping, deploying>>
    PROVE  /\ \A s \in Slot :
                slots'[s] # None => slots'[s] <= head /\ slots'[s] <= c
           /\ SchemaCovers'
<1>1. /\ schema["production"] = RevisionOf[c]
      /\ \A s \in Slot : slots[s] # None => slots[s] <= c /\ slots[s] <= head
  BY Acting DEF Knows, Migrated, Checked
<1>2. /\ slots'["production"] = slots["staging"]
      /\ slots'["staging"] = slots["production"]
  BY Exchanged
<1>3. slots["staging"] # None
        => RevisionOf[slots["staging"]] <= schema["production"]
  BY <1>1, Acting, ConstantFacts DEF Slot
<1> QED
  BY <1>1, <1>2, <1>3 DEF SchemaCovers, Slot

LEMMA SwapKeeps ==
    ASSUME TypeOK, RIInv, NEW c \in Release, Swap(c)
    PROVE  RIInv'
<1>1. Active(c) /\ At(c, "swap") /\ jobs[c].pc \in Checked /\ ~swapping
  <2>1. Active(c) /\ At(c, "swap") /\ jobs[c].pc \in Checked
    BY DEF Swap, Active, At, Checked
  <2> QED
    BY <2>1, Acting
<1>2. Exchange /\ UNCHANGED <<head, schema, swapping, deploying>>
  BY <1>1 DEF Swap
<1>3. PICK j \in Job : /\ Become(c, j)
                       /\ j.pc = "verify" /\ j.previous = jobs[c].previous
  BY <1>1, Acting, GoingOn DEF Swap, Steps, ProductionSteps
<1>4. slots'["staging"] = slots["production"]
  BY <1>2, Exchanged
<1>5. Knows(j, c)'
  BY <1>1, <1>2, <1>3, <1>4, Acting
     DEF Knows, At, Checked, Migrated, Steps, StagingSteps, ProductionSteps
<1> QED
  BY <1>1, <1>2, <1>3, <1>5, ExchangeKeeps, Writing DEF At

LEMMA RollbackKeeps ==
    ASSUME TypeOK, RIInv, NEW c \in Release, Rollback(c)
    PROVE  RIInv'
<1>1. Active(c) /\ At(c, "rollback") /\ jobs[c].pc \in Checked /\ ~swapping
  <2>1. Active(c) /\ At(c, "rollback") /\ jobs[c].pc \in Checked
    BY DEF Rollback, Active, At, Checked
  <2> QED
    BY <2>1, Acting
<1>2. Exchange /\ UNCHANGED <<head, schema, swapping, deploying>>
  BY <1>1 DEF Rollback
<1>3. PICK j \in Job : /\ Become(c, j) /\ j.pc = "verify-rollback"
                       /\ j.previous = jobs[c].previous
  BY <1>1, Acting, GoingOn DEF Rollback, Steps, ProductionSteps
<1>4. slots'["production"] = slots["staging"]
  BY <1>2, Exchanged
<1>5. jobs[c].previous # None
  BY <1>1 DEF TypeOK, At
<1>6. Knows(j, c)'
  BY <1>1, <1>2, <1>3, <1>4, <1>5, Acting
     DEF Knows, At, Checked, Migrated, Steps, StagingSteps, ProductionSteps
<1> QED
  BY <1>1, <1>2, <1>3, <1>6, ExchangeKeeps, Writing DEF At

-----------------------------------------------------------------------------
(* Faults, pushes and late swaps                                           *)

\* A fault ends the attempt, or the attempt takes it for an answer where it
\* only read.
LEMMA FaultKeeps ==
    ASSUME TypeOK, RIInv, NEW c \in Release, Break(c) \/ Kill(c)
    PROVE  RIInv'
<1>1. /\ Active(c) /\ Unfinished(c)
      /\ UNCHANGED head
  BY DEF Break, Kill, Active, Steps, StagingSteps, ProductionSteps
<1>2. PICK j \in Job :
        /\ Become(c, j)
        /\ Knows(j, c)
        /\ j.pc \in Checked => jobs[c].pc \in Checked
        /\ ~At(c, "identify") /\ ~At(c, "verify") => j.pc = "ended"
  <2>1. CASE Break(c)
    BY <1>1, <2>1, FailedKnows DEF Break
  <2>2. CASE Kill(c)
    <3>1. PICK status \in JobStatus : Become(c, Ending(jobs[c], status))
      BY <2>2 DEF Kill, JobStatus
    <3>2. /\ Ending(jobs[c], status) \in Job
          /\ Ending(jobs[c], status).pc = "ended"
      BY <1>1, Acting, EndingJob, TypeParts
    <3> QED
      BY <3>1, <3>2 DEF Knows, Checked, Migrated, Steps, StagingSteps,
                        ProductionSteps
  <2> QED
    BY <2>1, <2>2
<1>3. CASE At(c, "identify") \/ At(c, "verify")
  <2>1. UNCHANGED <<head, azure>>
    BY <1>1, <1>3, UnfinishedOK DEF At
  <2> QED
    BY <1>1, <1>2, <2>1, Thinking
<1>4. CASE ~At(c, "identify") /\ ~At(c, "verify")
  <2>1. j.pc = "ended"
    BY <1>2, <1>4
  <2>2. Knows(j, c)' /\ j.pc \notin Checked
    BY <2>1 DEF Knows, Checked, Migrated, Steps, StagingSteps, ProductionSteps
  <2>3. /\ UpTo(head)'
        /\ SchemaCovers'
        /\ swapping' => StagingCovered'
        /\ c <= head'
        /\ \A d \in Release : Active(d) => d = c
    BY <1>1, UnfinishedOK, Acting DEF UpTo
  <2> QED
    BY <1>2, <2>1, <2>2, <2>3, Moving DEF RIInv
<1> QED
  BY <1>3, <1>4

LEMMA PushKeeps ==
    ASSUME TypeOK, RIInv, Push
    PROVE  RIInv'
<1>1. /\ head' = head + 1 /\ head \in Nat
      /\ UNCHANGED <<slots, schema, swapping, deploying, jobs>>
  BY ConstantFacts DEF Push, TypeOK, azure
<1>2. slots \in [Slot -> Commit \cup {None}] /\ deploying \subseteq Commit
  BY DEF TypeOK
<1>3. AloneOK' /\ InformedOK' /\ SchemaCovers'
  BY <1>1 DEF RIInv, AloneOK, StagingCovered, Active, InformedOK, Knows, SchemaCovers
<1>4. HeadOK'
  <2>1. ASSUME NEW n \in Nat, n <= head PROVE n <= head'
    BY <1>1, <2>1
  <2>2. \A c \in Release : Active(c)' => c <= head'
    BY <1>1, <2>1, ConstantFacts DEF RIInv, HeadOK, Active
  <2>3. UpTo(head)'
    BY <1>1, <1>2, <2>1, ConstantFacts DEF RIInv, HeadOK, UpTo
  <2>4. \A c \in Release : jobs'[c].pc \in Checked => UpTo(c)'
    BY <1>1 DEF RIInv, HeadOK, UpTo
  <2> QED
    BY <2>2, <2>3, <2>4 DEF HeadOK, Active
<1> QED
  BY <1>3, <1>4 DEF RIInv

\* A swap that is executed late finds no active attempt to surprise.
LEMMA SettleKeeps ==
    ASSUME TypeOK, RIInv, Settle
    PROVE  RIInv'
<1>1. /\ UNCHANGED <<head, schema, deploying, jobs>> /\ ~swapping'
      /\ Exchange \/ UNCHANGED slots
  BY DEF Settle
<1>2. /\ \A c \in Release : jobs[c].pc = "ended"
      /\ slots["staging"] # None
           => RevisionOf[slots["staging"]] <= schema["production"]
  BY DEF Settle, RIInv, AloneOK, StagingCovered, Active
<1>3. /\ slots'["production"] \in {slots["production"], slots["staging"]}
      /\ slots'["staging"] \in {slots["production"], slots["staging"]}
  BY <1>1, Exchanged
<1>4. AloneOK'
  BY <1>1, <1>2 DEF AloneOK, Active
<1>5. HeadOK'
  BY <1>1, <1>2, <1>3 DEF RIInv, HeadOK, UpTo, Active, Checked, Slot
<1>6. InformedOK'
  BY <1>1, <1>2
     DEF InformedOK, Knows, Checked, Migrated, Steps, StagingSteps,
         ProductionSteps
<1>7. SchemaCovers'
  BY <1>1, <1>2, <1>3 DEF RIInv, SchemaCovers
<1> QED
  BY <1>4, <1>5, <1>6, <1>7 DEF RIInv

\* A deployment that lands late brings nothing into staging that is newer than
\* the commit that is promoted; no attempt relies on more, unless operators
\* settle deployments, and then none is active.
LEMMA LandKeeps ==
    ASSUME TypeOK, RIInv, Land
    PROVE  RIInv'
<1>1. PICK b \in deploying : /\ deploying' = deploying \ {b}
                             /\ DeployTo(b) \/ UNCHANGED slots
  BY DEF Land
<1>2. /\ UNCHANGED <<head, schema, swapping, jobs>>
      /\ slots'["production"] = slots["production"]
      /\ slots'["staging"] \in {b, slots["staging"]}
  BY <1>1 DEF Land, DeployTo, TypeOK, Slot
<1>3. ASSUME NEW n, UpTo(n) PROVE UpTo(n)'
  BY <1>1, <1>2, <1>3 DEF UpTo, Slot
<1>4. StagingCovered => StagingCovered'
  BY <1>1, <1>2 DEF StagingCovered
<1>5. Quiet => \A c \in Release : jobs[c].pc = "ended"
  BY <1>1 DEF RIInv, AloneOK, Active
<1>6. AloneOK'
  BY <1>1, <1>2, <1>4 DEF RIInv, AloneOK, Active
<1>7. HeadOK'
  <2>1. UpTo(head)'
    BY <1>1, <1>2 DEF RIInv, HeadOK, UpTo, Slot
  <2>2. \A c \in Release : jobs[c].pc \in Checked => UpTo(c)'
    BY <1>3 DEF RIInv, HeadOK
  <2> QED
    BY <1>2, <2>1, <2>2 DEF RIInv, HeadOK, Active
<1>8. InformedOK'
  <2>1. SUFFICES ASSUME NEW c \in Release PROVE Knows(jobs[c], c)'
    BY DEF InformedOK
  <2>2. Knows(jobs[c], c)
    BY DEF RIInv, InformedOK
  <2> QED
    BY <1>2, <1>5, <2>2 DEF Knows
<1>9. SchemaCovers'
  BY <1>2 DEF RIInv, SchemaCovers
<1> QED
  BY <1>6, <1>7, <1>8, <1>9 DEF RIInv

-----------------------------------------------------------------------------
(* The theorems                                                            *)

LEMMA RIStep ==
    ASSUME "swap" \in Reconciled, TypeOK, RIInv, [Next]_vars
    PROVE  RIInv'
<1>1. CASE UNCHANGED vars
  BY <1>1 DEF vars, azure, RIInv, AloneOK, StagingCovered, HeadOK, UpTo,
              InformedOK, SchemaCovers, Knows, Active
<1>2. CASE Push \/ Settle \/ Land
  BY <1>2, PushKeeps, SettleKeeps, LandKeeps
<1>3. ASSUME NEW c \in Release,
             Start(c) \/ RerunStaging(c) \/ RerunProduction(c)
      PROVE  RIInv'
  BY <1>3, StartKeeps
<1>4. ASSUME NEW c \in Release, Approve(c) \/ Reject(c) PROVE RIInv'
  BY <1>4, ReadKeeps
<1>5. ASSUME NEW c \in Release, Step(c) PROVE RIInv'
  BY <1>5, ReadKeeps, MigrateStagingKeeps, MigrateKeeps, DeployKeeps, SwapKeeps,
     RollbackKeeps DEF Step
<1>6. ASSUME NEW c \in Release, Break(c) \/ Kill(c) PROVE RIInv'
  BY <1>6, FaultKeeps
<1> QED
  BY <1>1, <1>2, <1>3, <1>4, <1>5, <1>6 DEF Next

\* If operators settle an unknown swap before they start the next attempt, no
\* schedule of pushes, attempts, faults and late deployments breaks the
\* inductive invariant.
THEOREM Invariance == ASSUME "swap" \in Reconciled PROVE Spec => []IInv
<1>1. Init => IInv
  BY TypeInit, RInit DEF IInv
<1>2. IInv /\ [Next]_vars => IInv'
  BY TypeStep, RIStep DEF IInv
<1> QED
  BY <1>1, <1>2, PTL DEF Spec

\* Whichever artifact a swap, a rollback, a rerun or a late swap puts into
\* production, also one whose deployment to staging landed late, production's
\* database has its schema.
THEOREM Covered == ASSUME "swap" \in Reconciled PROVE Spec => []SchemaCovers
<1>1. IInv => SchemaCovers
  BY DEF IInv, RIInv
<1> QED
  BY <1>1, Invariance, PTL

\* From the identification of the previous artifact to the swap nobody takes
\* it out of production: late deployments only change staging.
THEOREM Identified == ASSUME "swap" \in Reconciled PROVE Spec => []IdentityHolds
<1>1. IInv => IdentityHolds
  BY DEF IInv, RIInv, InformedOK, Knows, IdentityHolds
<1> QED
  BY <1>1, Invariance, PTL

\* If deployments are settled as well, production serves, after a swap back, the
\* artifact that was identified before the migration, with the schema it
\* expects.
THEOREM Restores ==
    ASSUME "swap" \in Reconciled, "deployment" \in Reconciled
    PROVE  Spec => []RollbackRestores
<1>1. IInv => RollbackRestores
  <2>1. SUFFICES ASSUME IInv, NEW c \in Release, At(c, "verify-rollback")
                 PROVE  Serves("production", jobs[c].previous, c)
    BY DEF RollbackRestores
  <2>2. /\ jobs[c].previous # None
        /\ slots["production"] = jobs[c].previous
        /\ RevisionOf[jobs[c].previous] = RevisionOf[c]
        /\ schema["production"] = RevisionOf[c]
    BY <2>1 DEF IInv, TypeOK, RIInv, InformedOK, Knows, Quiet, At, Migrated
  <2> QED
    BY <2>2 DEF Serves, Ready
<1> QED
  BY <1>1, Invariance, PTL
=============================================================================
