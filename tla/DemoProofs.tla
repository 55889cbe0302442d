---------------------------- MODULE DemoProofs ----------------------------
(***************************************************************************)
(* Theorems about DemoRelease, for any number of attempts, commits, faults *)
(* and intrusions.  Each part of the state has an invariant of its own,    *)
(* proved under the invariants of the parts that it depends on.            *)
(***************************************************************************)
EXTENDS DemoRelease, TLAPS

-----------------------------------------------------------------------------
(* The database.                                                           *)

\* The advisory lock: at most one upgrade is running, and it works from the
\* schema as it is.
DbOK ==
    /\ db \in [schema : {0, 1}, granted : BOOLEAN,
               upgrades : SUBSET [by : Attempt, seen : {0, 1}]]
    /\ \A u, v \in db.upgrades : u = v
    /\ \A u \in db.upgrades : u.seen = db.schema

\* The actions of Migration keep the lock.
LEMMA DbStep ==
    ASSUME DbOK, NEW a \in Attempt,
           \/ BeginUpgrade(a) \/ CommitUpgrade(a) \/ AbortUpgrade(a)
           \/ GrantRuntime \/ UNCHANGED db
    PROVE  DbOK'
<1> USE DEF DbOK
<1>1. CASE BeginUpgrade(a)
  <2>1. db.upgrades = {} /\ db' = [db EXCEPT !.upgrades = {[by |-> a, seen |-> db.schema]}]
    BY <1>1 DEF BeginUpgrade, LockFree
  <2> QED
    BY <2>1
<1>2. CASE CommitUpgrade(a)
  <2>1. /\ a \in {u.by : u \in db.upgrades}
        /\ db' = [db EXCEPT !.schema = 1, !.upgrades = {u \in db.upgrades : u.by # a}]
    BY <1>2 DEF CommitUpgrade, Attempts
  <2>2. {u \in db.upgrades : u.by # a} = {}
    BY <2>1
  <2> QED
    BY <2>1, <2>2
<1>3. CASE AbortUpgrade(a)
  BY <1>3 DEF AbortUpgrade
<1>4. CASE GrantRuntime
  BY <1>4 DEF GrantRuntime
<1>5. CASE UNCHANGED db
  BY <1>5
<1> QED
  BY <1>1, <1>2, <1>3, <1>4, <1>5

-----------------------------------------------------------------------------
(* The branch and the clone.                                               *)

Commits == [helper : Helper, parent : Commit \cup {None}, protected : BOOLEAN]

\* A command writes what it reports later, and nothing else is in the
\* worktree of a clone with a result.
BranchOK ==
    /\ commits \in Seq(Commits) /\ Len(commits) \in 1 .. MaxCommits
    /\ head \in DOMAIN commits \cup {None}
    /\ clone \in [pc : {"idle", "write", "commit"},
                  goal : {"none", "healthy", "regression"},
                  result : State \cup {"none", "refused"},
                  branch : DOMAIN commits \cup {None}, tracking : BOOLEAN,
                  tree : Helper]
    /\ clone.pc \in {"write", "commit"} => clone.goal \in State
    /\ clone.pc = "commit" => clone.tree = clone.goal
    /\ clone.result \in State /\ clone.pc = "idle" =>
         HelperOf(clone.branch) = clone.result /\ clone.tree = clone.result

\* Commits are never changed.
Grown == /\ DOMAIN commits \subseteq DOMAIN commits'
         /\ \A c \in DOMAIN commits : commits'[c] = commits[c]

LEMMA CommitsFacts ==
    ASSUME BranchOK
    PROVE  /\ DOMAIN commits = 1 .. Len(commits)
           /\ DOMAIN commits \subseteq Commit
           /\ \A c \in DOMAIN commits : commits[c] \in Commits
           /\ None \notin DOMAIN commits /\ OtherSha \notin DOMAIN commits
BY DemoAssumption DEF BranchOK, Commit

\* A new commit at the end.
LEMMA NewCommit ==
    ASSUME BranchOK, NEW helper \in Helper, NEW parent \in DOMAIN commits \cup {None},
           NEW protected \in BOOLEAN, Committed(helper, parent, protected),
           Len(commits) < MaxCommits
    PROVE  /\ commits' \in Seq(Commits)
           /\ Len(commits') = Len(commits) + 1
           /\ Len(commits') \in 1 .. MaxCommits
           /\ DOMAIN commits' = DOMAIN commits \cup {Len(commits) + 1}
           /\ Len(commits) + 1 \notin DOMAIN commits
           /\ commits'[Len(commits) + 1].helper = helper
           /\ Grown
<1> DEFINE c == [helper |-> helper, parent |-> parent, protected |-> protected]
<1>1. commits \in Seq(Commits) /\ Len(commits) \in Nat /\ MaxCommits \in Nat
  BY DemoAssumption DEF BranchOK
<1>2. c \in Commits
  BY CommitsFacts DEF Commits
<1>3. commits' = Append(commits, c)
  BY DEF Committed
<1>4. /\ commits' \in Seq(Commits) /\ Len(commits') = Len(commits) + 1
      /\ commits'[Len(commits) + 1] = c
      /\ \A i \in 1 .. Len(commits) : commits'[i] = commits[i]
  BY <1>1, <1>2, <1>3
<1>5. DOMAIN commits = 1 .. Len(commits) /\ DOMAIN commits' = 1 .. Len(commits) + 1
  BY <1>1, <1>4
<1>6. c.helper = helper
  OBVIOUS
<1> QED
  BY <1>1, <1>4, <1>5, <1>6 DEF Grown

BranchAction == \/ Command \/ Interrupt \/ Discard \/ Push \/ Pull
                \/ MergePullRequest \/ UNCHANGED branchVars

LEMMA BranchStep ==
    ASSUME BranchOK, BranchAction
    PROVE  BranchOK' /\ Grown
<1>1. CASE Introduce
  <2>1. PICK base \in DOMAIN commits :
          /\ commits[base].helper = "healthy"
          /\ clone' = [clone EXCEPT !.pc = "write", !.goal = "regression",
                                    !.result = "none", !.branch = base,
                                    !.tree = "healthy"]
          /\ UNCHANGED <<commits, head>>
    BY <1>1 DEF Introduce
  <2> QED
    BY <2>1 DEF BranchOK, Grown, State, Helper, HelperOf
<1>2. CASE Reset
  <2>1. HelperOf(clone.branch) = "healthy" => clone.tree = "healthy"
    BY <1>2 DEF Reset, CleanRepository
  <2>2. UNCHANGED <<commits, head>> /\ clone.pc = "idle"
    BY <1>2 DEF Reset, CleanRepository
  <2>3. \/ /\ HelperOf(clone.branch) = "healthy"
           /\ clone' = [clone EXCEPT !.result = "healthy"]
        \/ clone' = [clone EXCEPT !.pc = "write", !.goal = "healthy", !.result = "none"]
        \/ clone' = [clone EXCEPT !.result = "refused"]
    BY <1>2 DEF Reset
  <2> QED
    BY <2>1, <2>2, <2>3 DEF BranchOK, Grown, State, HelperOf
<1>3. CASE WriteHelper
  BY <1>3 DEF WriteHelper, BranchOK, Grown, State, Helper, HelperOf
<1>4. CASE CommitChange
  <2>1. /\ clone.pc = "commit" /\ Len(commits) < MaxCommits
        /\ Committed(clone.tree, clone.branch, FALSE)
        /\ clone.tree \in Helper /\ clone.branch \in DOMAIN commits \cup {None}
        /\ clone.tree = clone.goal /\ clone.goal \in State
    BY <1>4 DEF CommitChange, BranchOK
  <2>2. /\ clone' = [clone EXCEPT !.pc = "idle", !.branch = Len(commits) + 1,
                                  !.goal = "none", !.result = clone.goal]
        /\ UNCHANGED head
    BY <1>4 DEF CommitChange
  <2>3. /\ commits' \in Seq(Commits) /\ Len(commits') \in 1 .. MaxCommits
        /\ DOMAIN commits' = DOMAIN commits \cup {Len(commits) + 1}
        /\ commits'[Len(commits) + 1].helper = clone.tree
        /\ Grown
    BY <2>1, NewCommit
  <2>4. Len(commits) + 1 # None
    BY DemoAssumption DEF BranchOK
  <2> QED
    BY <2>1, <2>2, <2>3, <2>4 DEF BranchOK, HelperOf, State
<1>5. CASE Interrupt
  BY <1>5 DEF Interrupt, BranchOK, Grown, State
<1>6. CASE Discard
  <2>1. HelperOf(clone.branch) \in Helper
    BY CommitsFacts DEF HelperOf, BranchOK, Helper, Commits
  <2> QED
    BY <1>6, <2>1 DEF Discard, BranchOK, Grown, State
<1>7. CASE Push
  BY <1>7 DEF Push, BranchOK, Grown, State, HelperOf
<1>8. CASE Pull
  <2>1. HelperOf(head) \in Helper
    BY CommitsFacts DEF HelperOf, BranchOK, Helper, Commits
  <2> QED
    BY <1>8, <2>1 DEF Pull, CleanRepository, BranchOK, Grown, State
<1>9. CASE MergePullRequest
  <2>1. PICK helper \in {"healthy", "other"}, protected \in BOOLEAN :
          Committed(helper, head, protected)
    BY <1>9 DEF MergePullRequest
  <2>2. /\ commits' \in Seq(Commits) /\ Len(commits') \in 1 .. MaxCommits
        /\ DOMAIN commits' = DOMAIN commits \cup {Len(commits) + 1}
        /\ Grown
    BY <1>9, <2>1, NewCommit DEF MergePullRequest, BranchOK, Helper
  <2>3. /\ head' = Len(commits) + 1 /\ UNCHANGED clone
    BY <1>9 DEF MergePullRequest
  <2>4. clone.branch # None => HelperOf(clone.branch)' = HelperOf(clone.branch)
    BY <2>2, <2>3 DEF Grown, HelperOf, BranchOK
  <2>5. clone.branch = None => HelperOf(clone.branch)' = HelperOf(clone.branch)
    BY <2>3 DEF HelperOf
  <2> QED
    BY <2>2, <2>3, <2>4, <2>5 DEF BranchOK
<1>10. CASE UNCHANGED branchVars
  BY <1>10 DEF branchVars, BranchOK, Grown, HelperOf
<1> QED
  BY <1>1, <1>2, <1>3, <1>4, <1>5, <1>6, <1>7, <1>8, <1>9, <1>10
  DEF BranchAction, Command

-----------------------------------------------------------------------------
(* The attempt.                                                            *)

Pcs == {"none", "preflight", "gates", "approval", "succeeded", "failed",
        "killed"} \cup Deploying
Job == [pc : Pcs, run : Nat, attempt : 0 .. MaxAttempts,
        target : Commit \cup {None}, state : State, issue : BOOLEAN,
        sent : 0 .. Total, genuine : BOOLEAN]

\* The steps before the traffic.
Early == {"none", "preflight", "gates", "approval", "announce", "upgrade",
          "upgrading", "grant", "deploy", "settings", "ready", "list"}

\* What an attempt has behind it.  Every answer that it used was its own
\* build's, because each check compares the commit.
JobOK ==
    /\ job \in Job
    /\ job.pc # "none" => job.attempt \in Attempt
    /\ job.target # None => job.target \in DOMAIN commits
    /\ job.pc \in {"gates", "approval"} \cup Deploying => job.target # None
    /\ job.pc \in {"approval"} \cup Deploying => Gated(job.target, job.state)
    /\ job.genuine
    /\ job.pc \in {"recovery-ready", "recovery-list", "claim-recovery"} =>
         job.state = "healthy"
    /\ job.pc \in Early => job.sent = 0
    /\ At("traffic") => job.state = "regression" /\ job.sent < Total
    /\ At("claim-deployment") /\ job.state = "regression" => job.sent = Total

\* An answer that passes a check comes from the attempt's own build.
LEMMA AnswersAreMine ==
    ASSUME NEW n, NEW code, NEW answer
    PROVE  /\ ReadyFor(job.target) => Mine(slot)
           /\ EndpointAccepted(TaskList, job.target) => Mine(slot)
           /\ EndpointAccepted(BrokenFilter, job.target) => Mine(slot)
           /\ Expected(n) => Mine(slot)
<1>1. \A c : Answer(c).sha = slot.sha
  BY DEF Answer
<1>2. /\ Readiness.sha = slot.sha /\ Liveness.sha = slot.sha
      /\ TaskList.sha = slot.sha /\ BrokenFilter.sha = slot.sha
  BY <1>1 DEF Readiness, Liveness, TaskList, BrokenFilter
<1>3. /\ ReadyFor(job.target) => Mine(slot)
      /\ AliveFor(job.target) => Mine(slot)
  BY <1>2 DEF ReadyFor, AliveFor, Mine
<1>4. /\ EndpointAccepted(TaskList, job.target) => Mine(slot)
      /\ EndpointAccepted(BrokenFilter, job.target) => Mine(slot)
  BY <1>2 DEF EndpointAccepted, Mine
<1>5. /\ TrafficAccepted(TaskList, job.target, 200) => Mine(slot)
      /\ TrafficAccepted(BrokenFilter, job.target, KeyError) => Mine(slot)
  BY <1>2 DEF TrafficAccepted, Mine
<1>6. ASSUME Expected(n)
      PROVE  \/ AliveFor(job.target) \/ ReadyFor(job.target)
             \/ TrafficAccepted(TaskList, job.target, 200)
             \/ TrafficAccepted(BrokenFilter, job.target, KeyError)
  BY <1>6 DEF Expected
<1> QED
  BY <1>3, <1>4, <1>5, <1>6

\* A new attempt.
LEMMA NewAttempt ==
    ASSUME JobOK, BranchOK, Dispatch \/ Rerun
    PROVE  JobOK' /\ job'.attempt = job.attempt + 1
<1>0. /\ job.attempt \in Nat /\ MaxAttempts \in Nat /\ Total \in Nat
      /\ job.attempt < MaxAttempts => job.attempt + 1 \in Attempt
  BY DemoAssumption DEF JobOK, Job, Total, Attempt
<1>1. CASE Dispatch
  <2>1. PICK i \in Inputs :
          job' = [NoJob EXCEPT !.pc = "preflight", !.run = job.attempt + 1,
                               !.attempt = job.attempt + 1, !.state = i.state,
                               !.issue = i.issue]
    BY <1>1 DEF Dispatch
  <2>2. i.state \in State /\ i.issue \in BOOLEAN
    BY DemoAssumption
  <2>3. /\ job.attempt < MaxAttempts /\ UNCHANGED commits
    BY <1>1 DEF Dispatch, branchVars
  <2>4. job' = [pc |-> "preflight", run |-> job.attempt + 1,
                attempt |-> job.attempt + 1, target |-> None, state |-> i.state,
                issue |-> i.issue, sent |-> 0, genuine |-> TRUE]
    BY <2>1 DEF NoJob
  <2>5. job' \in Job
    BY <1>0, <2>2, <2>3, <2>4 DEF Job, Pcs, Attempt
  <2> QED
    BY <1>0, <2>3, <2>4, <2>5 DEF JobOK, Deploying, Recording, Checking, At
<1>2. CASE Rerun
  <2>1. /\ job.target # None
        /\ job.attempt < MaxAttempts /\ UNCHANGED commits
        /\ job' = [NoJob EXCEPT !.pc = "gates", !.run = job.run,
                            !.attempt = job.attempt + 1, !.target = job.target,
                            !.state = job.state, !.issue = job.issue]
    BY <1>2 DEF Rerun, branchVars
  <2>4. job' = [pc |-> "gates", run |-> job.run,
                attempt |-> job.attempt + 1, target |-> job.target,
                state |-> job.state, issue |-> job.issue, sent |-> 0,
                genuine |-> TRUE]
    BY <2>1 DEF NoJob
  <2>2. /\ job.run \in Nat /\ job.state \in State /\ job.issue \in BOOLEAN
        /\ job.target \in Commit /\ job.target \in DOMAIN commits
        /\ job.attempt < MaxAttempts /\ job.target # None /\ UNCHANGED commits
    BY <2>1 DEF JobOK, Job
  <2>5. job' \in Job
    BY <1>0, <2>2, <2>4 DEF Job, Pcs, Attempt
  <2> QED
    BY <1>0, <2>2, <2>4, <2>5 DEF JobOK, Deploying, Recording, Checking, At
<1> QED
  BY <1>1, <1>2

\* An attempt goes on: everything but its next step stays.
LEMMA GoesOn ==
    ASSUME JobOK, BranchOK, NEW p \in Pcs, Goto(p), Grown,
           job.pc # "none",
           p \in {"gates", "approval"} \cup Deploying => job.target # None,
           p \in {"approval"} \cup Deploying => Gated(job.target, job.state),
           p \in {"recovery-ready", "recovery-list", "claim-recovery"} =>
             job.state = "healthy",
           p \in Early => job.sent = 0,
           p = "traffic" => job.state = "regression" /\ job.sent < Total,
           p = "claim-deployment" /\ job.state = "regression" => job.sent = Total
    PROVE  JobOK'
<1>1. job' = [job EXCEPT !.pc = p]
  BY DEF Goto
<1>2. job.target # None => Gated(job.target, job.state)' = Gated(job.target, job.state)
  BY <1>1 DEF Gated, Grown, JobOK, Job
<1> QED
  BY <1>1, <1>2 DEF JobOK, Job, At, Grown

\* The failing step of a running attempt.
LEMMA StepsFacts ==
    ASSUME JobOK
    PROVE  /\ ~Ended => job.pc # "none"
           /\ Failed \in Pcs
           /\ Failed \in {"record-failed", "failed"}
           /\ Failed = "record-failed" => job.pc \in Deploying
BY DEF JobOK, Ended, Failed, Pcs, Deploying, Recording, Checking

\* A step fails.
LEMMA StepFails ==
    ASSUME JobOK, BranchOK, Grown, ~Ended, Goto(Failed) \/ Goto("killed")
    PROVE  JobOK'
<1>1. CASE Goto(Failed)
  BY <1>1, StepsFacts, GoesOn DEF JobOK, Deploying, Recording, Checking, Early
<1>2. CASE Goto("killed")
  BY <1>2, StepsFacts, GoesOn DEF Pcs, Deploying, Recording, Checking, Early
<1> QED
  BY <1>1, <1>2

\* Preflight, gates and approval.
LEMMA Decides ==
    ASSUME JobOK, BranchOK, Decide
    PROVE  JobOK' /\ job'.attempt = job.attempt
<1>1. Grown /\ UNCHANGED <<commits, head>>
  BY DEF Decide, branchVars, Grown
<1> USE DEF Deploying, Recording, Checking, Early
<1>2. CASE Preflight
  <2>1. CASE head = None
    BY <1>1, <1>2, <2>1 DEF Preflight, At, JobOK, Job, Pcs
  <2>2. CASE head # None
    <3>1. head \in DOMAIN commits /\ head \in Commit
      BY <2>2, CommitsFacts DEF BranchOK
    <3> QED
      BY <1>1, <1>2, <2>2, <3>1 DEF Preflight, At, JobOK, Job, Pcs
  <2> QED
    BY <2>1, <2>2
<1>3. CASE Gates
  <2>1. job.pc = "gates" /\ job' = [job EXCEPT !.pc =
           IF Gated(job.target, job.state) THEN "approval" ELSE "failed"]
    BY <1>3 DEF Gates, At, Goto
  <2>2. Gated(job.target, job.state)' = Gated(job.target, job.state)
    BY <1>1, <2>1 DEF Gated, JobOK, Job
  <2> QED
    BY <1>1, <2>1, <2>2 DEF JobOK, Job, Pcs, At
<1>4. CASE Approve
  <2>1. job.pc = "approval" /\ (Goto("announce") \/ Goto("failed"))
    BY <1>4 DEF Approve, At, Goto
  <2>2. CASE Goto("announce")
    BY <1>1, <2>1, <2>2, GoesOn DEF JobOK, Pcs, Goto, Job
  <2>3. CASE Goto("failed")
    BY <1>1, <2>1, <2>3, GoesOn DEF JobOK, Pcs, Goto, Job
  <2> QED
    BY <2>1, <2>2, <2>3
<1> QED
  BY <1>2, <1>3, <1>4 DEF Decide, JobOK, Job, Preflight, Gates, Approve, Goto

\* The steps that write to Azure.
LEMMA Writes ==
    ASSUME JobOK, BranchOK, Write
    PROVE  /\ JobOK' /\ job'.attempt = job.attempt /\ Grown
           /\ job.pc \in {"upgrade", "upgrading", "grant", "deploy", "settings"}
           /\ \/ /\ At("upgrade") /\ job'.pc = "upgrading"
                 /\ BeginUpgrade(job.attempt) /\ Touch /\ UNCHANGED slot
              \/ /\ job'.pc = "record-failed" /\ UNCHANGED <<db, slot, touched>>
              \/ /\ ~At("upgrade")
                 /\ job'.pc \in {"grant", "deploy", "settings", "ready"}
                 /\ UNCHANGED touched
                 /\ \/ CommitUpgrade(job.attempt) /\ UNCHANGED slot
                    \/ GrantRuntime /\ UNCHANGED slot
                    \/ Apply(Deployment) /\ At("deploy") /\ UNCHANGED db
                    \/ Apply(Settings) /\ UNCHANGED db
<1>1. Grown /\ UNCHANGED <<commits, head>>
  BY DEF Write, branchVars, Grown
<1> USE DEF Deploying, Recording, Checking, Early
<1> DEFINE Does(p) ==
        /\ Goto(p) /\ job.pc \in {"upgrade", "upgrading", "grant", "deploy", "settings"}
        /\ \/ /\ At("upgrade") /\ p = "upgrading"
              /\ BeginUpgrade(job.attempt) /\ Touch /\ UNCHANGED slot
           \/ p = "record-failed" /\ UNCHANGED <<db, slot, touched>>
           \/ /\ ~At("upgrade") /\ p \in {"grant", "deploy", "settings", "ready"}
              /\ UNCHANGED touched
              /\ \/ CommitUpgrade(job.attempt) /\ UNCHANGED slot
                 \/ GrantRuntime /\ UNCHANGED slot
                 \/ Apply(Deployment) /\ At("deploy") /\ UNCHANGED db
                 \/ Apply(Settings) /\ UNCHANGED db
<1>2. \E p \in {"upgrading", "record-failed", "grant", "deploy", "settings", "ready"} :
        Does(p)
  <2>1. CASE Upgrade
    BY <2>1 DEF Upgrade, At
  <2>2. CASE Deploy
    BY <2>2 DEF Deploy, At
  <2>3. CASE BindScenario
    BY <2>3 DEF BindScenario, At
  <2> QED
    BY <2>1, <2>2, <2>3 DEF Write
<1>3. PICK p \in {"upgrading", "record-failed", "grant", "deploy", "settings", "ready"} :
        Does(p)
  BY <1>2
<1>4. JobOK'
  BY <1>1, <1>3, GoesOn DEF JobOK, Pcs
<1>5. job'.pc = p /\ job'.attempt = job.attempt
  BY <1>3 DEF Goto, JobOK, Job
<1> QED
  BY <1>1, <1>3, <1>4, <1>5

\* A check ends, goes on or is refused.
LEMMA Checks ==
    ASSUME JobOK, BranchOK, Check
    PROVE  /\ JobOK' /\ job'.attempt = job.attempt /\ Grown
           /\ job'.pc \in Checking \cup {"claim-deployment", "record-failed"}
           /\ job.pc \in Checking
           /\ job'.state = job.state
           /\ Passed <=> job'.pc = "claim-deployment"
           /\ Passed /\ job.state = "healthy" => At("recovery-list")
           /\ verified' = verified \cup (IF Passed THEN {job.attempt} ELSE {})
           /\ healed' = healed \cup
                (IF Passed /\ At("recovery-list") THEN {job.attempt} ELSE {})
           /\ artifacts' = artifacts \cup
                (IF Passed /\ At("recovery-list")
                   THEN {Event("recovery", "succeeded")} ELSE {})
<1>0. Passed <=> job'.pc = "claim-deployment"
  BY DEF Passed
<1>9. ASSUME job'.genuine
      PROVE  /\ verified' = verified \cup (IF Passed THEN {job.attempt} ELSE {})
             /\ healed' = healed \cup
                  (IF Passed /\ At("recovery-list") THEN {job.attempt} ELSE {})
             /\ artifacts' = artifacts \cup
                  (IF Passed /\ At("recovery-list")
                     THEN {Event("recovery", "succeeded")} ELSE {})
  <2>1. /\ verified' = IF Passed THEN verified \cup {job.attempt} ELSE verified
        /\ healed' = IF Passed /\ At("recovery-list")
                       THEN healed \cup {job.attempt} ELSE healed
        /\ artifacts' = IF Passed /\ At("recovery-list")
                          THEN artifacts \cup {Event("recovery", "succeeded")}
                          ELSE artifacts
    BY <1>9 DEF Check
  <2> HIDE DEF Passed, At, Event
  <2> QED
    BY <2>1
<1>1. Grown /\ UNCHANGED commits
  BY DEF Check, branchVars, Grown
<1> USE DEF Deploying, Recording, Checking, Early
<1>2. Total \in Nat /\ Total >= 6 /\ job.genuine = TRUE
  BY DemoAssumption DEF Total, JobOK, Job
<1>3. CASE Traffic
  <2>1. /\ job.pc = "traffic" /\ Mine(slot)
        /\ job' = [job EXCEPT !.sent = @ + 1,
                     !.pc = IF job.sent + 1 = Total THEN "claim-deployment" ELSE @,
                     !.genuine = TRUE]
    BY <1>2, <1>3, AnswersAreMine DEF Traffic, At
  <2>2. job.sent + 1 \in 0 .. Total /\ job.sent + 1 <= Total
    BY <1>2, <2>1 DEF JobOK, Job, At
  <2>3. job' \in Job
    BY <2>1, <2>2 DEF JobOK, Job, Pcs
  <2>4. /\ job'.pc \in {"traffic", "claim-deployment"} /\ job'.attempt = job.attempt
        /\ job'.target = job.target /\ job'.state = job.state /\ job'.genuine
        /\ job'.sent = job.sent + 1
        /\ job'.pc = "traffic" => job.sent + 1 < Total
        /\ job'.pc = "claim-deployment" => job.sent + 1 = Total
    BY <1>2, <2>1, <2>2 DEF JobOK, Job
  <2>5. job.state = "regression" /\ Gated(job.target, job.state)
    BY <2>1 DEF JobOK, At
  <2>6. Gated(job.target, job.state)' = Gated(job.target, job.state)
    BY <1>1, <2>4 DEF Gated
  <2>7. JobOK'
    BY <1>1, <2>1, <2>3, <2>4, <2>5, <2>6 DEF JobOK, At
  <2>8. job.state # "healthy" /\ job.pc \in Checking
    BY <2>1, <2>5
  <2> QED
    BY <1>0, <1>1, <1>9, <2>4, <2>7, <2>8
<1>4. CASE Refuse
  <2>1. job.pc \in Checking /\ Goto("record-failed")
    BY <1>4 DEF Refuse
  <2>2. JobOK'
    BY <1>1, <2>1, GoesOn DEF JobOK, Pcs
  <2>3. job'.pc = "record-failed" /\ job'.attempt = job.attempt /\ job'.state = job.state
    BY <2>1 DEF Goto, JobOK, Job
  <2>4. job'.genuine
    BY <2>2 DEF JobOK
  <2> QED
    BY <1>0, <1>1, <1>9, <2>1, <2>2, <2>3, <2>4
<1>5. CASE Ready \/ List \/ RecoveryReady \/ RecoveryList
  <2> DEFINE next == IF At("ready") THEN "list"
                     ELSE IF At("list")
                       THEN IF job.state = "healthy" THEN "recovery-ready" ELSE "traffic"
                     ELSE IF At("recovery-ready") THEN "recovery-list"
                     ELSE "claim-deployment"
  <2>1. /\ job.pc \in {"ready", "list", "recovery-ready", "recovery-list"}
        /\ Mine(slot) /\ Use(next)
    BY <1>5, AnswersAreMine DEF Ready, List, RecoveryReady, RecoveryList, At
  <2>2. Goto(next)
    BY <1>2, <2>1 DEF Use, Goto, JobOK, Job
  <2>3. /\ next \in {"list", "recovery-ready", "traffic", "recovery-list", "claim-deployment"}
        /\ next \in {"recovery-ready", "recovery-list"} => job.state = "healthy"
        /\ next \in Early => job.sent = 0
        /\ next = "traffic" => job.state = "regression" /\ job.sent < Total
        /\ next = "claim-deployment" => job.state = "healthy" /\ At("recovery-list")
    BY <1>2, <2>1 DEF JobOK, Job, At, State
  <2>4. JobOK'
    <3> HIDE DEF next
    <3> QED
      BY <1>1, <2>1, <2>2, <2>3, GoesOn DEF JobOK, Pcs
  <2>5. /\ job'.pc = next /\ job'.attempt = job.attempt /\ job'.genuine
        /\ job'.state = job.state
    BY <2>2, <2>4 DEF Goto, JobOK, Job
  <2> HIDE DEF next
  <2> QED
    BY <1>0, <1>1, <1>9, <2>1, <2>3, <2>4, <2>5
<1> QED
  BY <1>3, <1>4, <1>5 DEF Check

-----------------------------------------------------------------------------
(* Evidence.                                                               *)

Events == [kind : {"deployment", "recovery"},
           status : {"pending", "succeeded", "failed"},
           run : Nat, attempt : Attempt, sha : Commit, at : Nat]
Recordings == [pc : {"idle", "list", "post", "done", "refused"},
               event : Events \cup {<<>>}]

Posted == {c.event : c \in Range(comments)}

\* The job records the event of its step, and only then; when it is done, a
\* comment holds that event.
EvidenceOK ==
    /\ comments \in Seq([by : Writer, event : Events])
    /\ artifacts \subseteq Events
    /\ writers \in [Writer -> Recordings]
    /\ \A w \in Writer : IF writers[w].pc = "idle" THEN writers[w] = Resting
                                                   ELSE writers[w].event \in Events
    /\ writers["job"] # Resting => job.pc \in Recording /\ writers["job"].event = Current
    /\ writers["job"].pc = "done" => Current \in Posted

\* The events that an attempt past its gates may emit.
LEMMA EventFacts ==
    ASSUME JobOK, job.pc \in Deploying, NEW k \in {"deployment", "recovery"},
           NEW t \in {"pending", "succeeded", "failed"}
    PROVE  /\ Event(k, t) \in Events /\ Event(k, t).attempt = job.attempt
           /\ Event(k, t).kind = k /\ Event(k, t).status = t
<1>1. /\ job.run \in Nat /\ job.attempt \in Attempt /\ job.target \in Commit
      /\ job.attempt \in Nat
  BY DemoAssumption DEF JobOK, Job, Deploying, Recording, Checking, Attempt
<1> QED
  BY <1>1 DEF Event, Events

LEMMA CurrentFacts ==
    ASSUME JobOK, job.pc \in Recording
    PROVE  /\ Current \in Events
           /\ Current.attempt = job.attempt
           /\ Current.status = "succeeded" =>
                \/ At("claim-deployment") /\ Current.kind = "deployment"
                \/ At("claim-recovery") /\ Current.kind = "recovery"
           /\ At("claim-deployment") =>
                Current.kind = "deployment" /\ Current.status = "succeeded"
           /\ At("announce") => Current.kind = "deployment" /\ Current.status = "pending"
<1>2. \A k \in {"deployment", "recovery"}, t \in {"pending", "succeeded", "failed"} :
        /\ Event(k, t) \in Events /\ Event(k, t).attempt = job.attempt
        /\ Event(k, t).kind = k /\ Event(k, t).status = t
  BY EventFacts DEF Deploying
<1>3. /\ At("announce") => Current = Event("deployment", "pending")
      /\ At("claim-deployment") => Current = Event("deployment", "succeeded")
      /\ At("claim-recovery") => Current = Event("recovery", "succeeded")
      /\ At("record-failed") => Current = Event("deployment", "failed")
  BY DEF Current, At
<1> QED
  BY <1>2, <1>3 DEF Recording, At

\* A comment at the end of the issue.
LEMMA NewComment ==
    ASSUME comments \in Seq([by : Writer, event : Events]),
           NEW w \in Writer, NEW e \in Events,
           comments' = Append(comments, Comment(w, e))
    PROVE  /\ comments' \in Seq([by : Writer, event : Events])
           /\ Range(comments') = Range(comments) \cup {Comment(w, e)}
           /\ Posted' = Posted \cup {e}
<1>1. Comment(w, e) \in [by : Writer, event : Events] /\ Comment(w, e).event = e
  BY DEF Comment
<1>2. /\ comments' \in Seq([by : Writer, event : Events])
      /\ DOMAIN comments = 1 .. Len(comments) /\ Len(comments) \in Nat
      /\ DOMAIN comments' = 1 .. Len(comments) + 1
      /\ \A i \in 1 .. Len(comments) : comments'[i] = comments[i]
      /\ comments'[Len(comments) + 1] = Comment(w, e)
  BY <1>1
<1>3. Range(comments') = Range(comments) \cup {Comment(w, e)}
  BY <1>2 DEF Range
<1> QED
  BY <1>1, <1>2, <1>3 DEF Posted

\* What a recording process does to the issue and to itself.
Recorder(w) == ListComments(w) \/ PostComment(w)

LEMMA RecorderStep ==
    ASSUME EvidenceOK, NEW w \in Writer, Recorder(w)
    PROVE  /\ writers[w].pc \in {"list", "post"} /\ writers[w].event \in Events
           /\ \E p \in {"post", "done", "refused"} :
                /\ writers' = [writers EXCEPT ![w].pc = p]
                /\ p = "done" => writers[w].event \in Posted'
           /\ comments' \in Seq([by : Writer, event : Events])
           /\ Posted \subseteq Posted'
           /\ \/ UNCHANGED comments
              \/ /\ comments' = Append(comments, Comment(w, writers[w].event))
                 /\ Posted' = Posted \cup {writers[w].event}
<1>1. CASE ListComments(w)
  <2> DEFINE e == writers[w].event
             stored == Stored(Trusted[w], e)
             p == IF stored = {} THEN "post" ELSE IF stored = {e} THEN "done" ELSE "refused"
  <2>1. /\ writers[w].pc = "list" /\ UNCHANGED comments
        /\ writers' = [writers EXCEPT ![w].pc = p]
    BY <1>1 DEF ListComments, Become
  <2>2. stored = {e} => e \in Posted
    BY DEF Stored, Posted
  <2>3. Posted' = Posted
    BY <2>1 DEF Posted
  <2>4. p \in {"post", "done", "refused"} /\ (p = "done" => e \in Posted')
    BY <2>2, <2>3
  <2>5. e \in Events
    BY <2>1 DEF EvidenceOK
  <2>6. comments' \in Seq([by : Writer, event : Events])
    BY <2>1 DEF EvidenceOK
  <2> QED
    BY <2>1, <2>3, <2>4, <2>5, <2>6
<1>2. CASE PostComment(w)
  <2>1. /\ writers[w].pc = "post" /\ writers' = [writers EXCEPT ![w].pc = "done"]
        /\ comments' = Append(comments, Comment(w, writers[w].event))
    BY <1>2 DEF PostComment, Become
  <2>2. writers[w].event \in Events
    BY <2>1 DEF EvidenceOK
  <2> QED
    BY <2>1, <2>2, NewComment DEF EvidenceOK
<1> QED
  BY <1>1, <1>2 DEF Recorder

\* What the recording of evidence does to the attempt.
LEMMA Records ==
    ASSUME JobOK, BranchOK, EvidenceOK, Evidencing
    PROVE  /\ JobOK' /\ job'.attempt = job.attempt /\ Grown
           /\ job'.state = job.state
           /\ UNCHANGED <<db, slot, late, touched, verified, healed, issued>>
           /\ \/ /\ UNCHANGED job
                 /\ \/ Emit /\ job.issue
                    \/ Recorder("job") /\ UNCHANGED artifacts
              \/ /\ job.pc \in Recording
                 /\ \/ Emit /\ ~job.issue /\ job'.pc \in {"upgrade", "failed", "succeeded"}
                    \/ Conclude /\ writers["job"].pc = "done" /\ Goto(Recorded)
                    \/ Conclude /\ job'.pc \in {"failed", "record-failed"}
                 /\ job'.pc \in {"upgrade", "failed"} => ~At("claim-deployment")
                 /\ job'.pc \in {"upgrade", "claim-recovery", "failed",
                                 "record-failed", "succeeded"}
<1>0. "job" \in Writer
  BY DemoAssumption
<1>1. Grown /\ UNCHANGED commits
  BY DEF Evidencing, branchVars, Grown
<1>2. UNCHANGED <<db, slot, late, touched, verified, healed, issued>>
  BY DEF Evidencing, history
<1>3. UNCHANGED job => JobOK'
  BY <1>1 DEF JobOK, At, Gated
<1> USE DEF Deploying, Recording, Checking, Early
<1>4. CASE Emit
  <2>1. CASE job.issue
    BY <1>1, <1>2, <1>3, <1>4, <2>1 DEF Emit
  <2>2. CASE ~job.issue
    <3> DEFINE p == IF At("claim-deployment") THEN "succeeded" ELSE Recorded
    <3>1. job.pc \in Recording /\ Goto(p)
      BY <1>4, <2>2 DEF Emit
    <3>2. /\ p \in {"upgrade", "failed", "succeeded"}
          /\ p = "upgrade" => At("announce")
          /\ p = "failed" => At("record-failed")
      BY <3>1 DEF Recorded, At
    <3> HIDE DEF p
    <3>3. JobOK'
      BY <1>1, <3>1, <3>2, GoesOn DEF JobOK, Pcs, At
    <3>4. /\ job'.pc = p /\ job'.attempt = job.attempt
          /\ job'.state = job.state
      BY <3>1 DEF Goto, JobOK, Job
    <3> QED
      BY <1>1, <1>2, <1>4, <2>2, <3>1, <3>2, <3>3, <3>4 DEF At
  <2> QED
    BY <2>1, <2>2
<1>5. CASE List1 \/ Post
  BY <1>1, <1>2, <1>3, <1>5 DEF List1, Post, Recorder
<1>6. CASE Conclude
  <2>1. writers["job"] # Resting /\ job.pc \in Recording
    BY <1>0, <1>6 DEF Conclude, EvidenceOK, Resting
  <2>2. CASE writers["job"].pc = "done"
    <3>1. Goto(Recorded)
      BY <1>6, <2>2 DEF Conclude
    <3>2. /\ Recorded \in {"upgrade", "claim-recovery", "failed", "succeeded"}
          /\ Recorded = "upgrade" => At("announce")
          /\ Recorded = "failed" => At("record-failed")
          /\ Recorded = "claim-recovery" => job.state = "healthy"
      BY <2>1 DEF Recorded, At
    <3>3. JobOK'
      BY <1>1, <2>1, <3>1, <3>2, GoesOn DEF JobOK, Pcs, At
    <3>4. /\ job'.pc = Recorded /\ job'.attempt = job.attempt
          /\ job'.state = job.state
      BY <3>1 DEF Goto, JobOK, Job
    <3> QED
      BY <1>1, <1>2, <1>6, <2>1, <2>2, <3>1, <3>2, <3>3, <3>4 DEF At
  <2>3. CASE writers["job"].pc # "done"
    <3>1. Goto(Failed)
      BY <1>6, <2>3 DEF Conclude
    <3>2. /\ Failed \in {"failed", "record-failed"}
          /\ Failed = "failed" => At("record-failed")
      BY <2>1 DEF Failed, At
    <3>3. JobOK'
      BY <1>1, <2>1, <3>1, <3>2, GoesOn DEF JobOK, Pcs
    <3>4. /\ job'.pc = Failed /\ job'.attempt = job.attempt
          /\ job'.state = job.state
      BY <3>1 DEF Goto, JobOK, Job
    <3> QED
      BY <1>1, <1>2, <1>6, <2>1, <3>1, <3>2, <3>3, <3>4 DEF At
  <2> QED
    BY <2>2, <2>3
<1> QED
  BY <1>4, <1>5, <1>6 DEF Evidencing

\* The evidence after any step of the attempt, the operator or GitHub.
LEMMA EvidenceStep ==
    ASSUME JobOK, JobOK', BranchOK, EvidenceOK, Next,
           \A w \in late : w.what = "comment" => w.event \in Events
    PROVE  EvidenceOK'
<1>0. {"job", "operator"} \subseteq Writer /\ "job" # "operator"
  BY DemoAssumption
<1>1. Resting.pc = "idle" /\ Resting \in Recordings /\ Resting.pc # "done"
  BY DEF Resting, Recordings
<1>2. job.pc \notin Recording => writers["job"] = Resting
  BY DEF EvidenceOK
<1>3. ASSUME UNCHANGED ledgerVars, UNCHANGED artifacts,
             UNCHANGED job \/ job.pc \notin Recording
      PROVE  EvidenceOK'
  <2>1. Posted' = Posted
    BY <1>3 DEF Posted, ledgerVars
  <2>2. UNCHANGED job => Current' = Current
    BY DEF Current, Event, At
  <2> QED
    BY <1>1, <1>2, <1>3, <2>1, <2>2 DEF EvidenceOK, ledgerVars
<1>4. CASE Dispatch \/ Rerun
  BY <1>3, <1>4 DEF Dispatch, Rerun, Ended, Recording
<1>5. CASE Decide \/ Write
  BY <1>3, <1>5, Writes
  DEF Decide, Write, Preflight, Gates, Approve, At, Recording
<1>12. CASE Check
  <2>1. /\ job.pc \in Checking
        /\ artifacts' \subseteq artifacts \cup {Event("recovery", "succeeded")}
    BY <1>12, Checks
  <2>2. Event("recovery", "succeeded") \in Events
    BY <2>1, EventFacts DEF Deploying
  <2>3. UNCHANGED ledgerVars /\ writers["job"] = Resting
    BY <1>2, <1>12, <2>1 DEF Check, Checking, Recording
  <2>4. Posted' = Posted
    BY <2>3 DEF Posted, ledgerVars
  <2> QED
    BY <1>1, <2>1, <2>2, <2>3, <2>4 DEF EvidenceOK, ledgerVars
<1>6. CASE Evidencing
  <2>1. CASE Emit /\ job.issue
    <3>1. /\ job.pc \in Recording /\ UNCHANGED <<job, comments>>
          /\ artifacts' = artifacts \cup {Current}
          /\ writers' = [writers EXCEPT !["job"] = [pc |-> "list", event |-> Current]]
      BY <2>1 DEF Emit, Record
    <3>2. Current' = Current /\ Posted' = Posted
      BY <3>1 DEF Current, Event, At, Posted
    <3>3. Current \in Events
      BY <3>1, CurrentFacts
    <3> QED
      BY <1>0, <3>1, <3>2, <3>3 DEF EvidenceOK, Recordings
  <2>2. CASE Recorder("job") /\ UNCHANGED <<job, artifacts>>
    <3>1. PICK p \in {"post", "done", "refused"} :
            /\ writers' = [writers EXCEPT !["job"].pc = p]
            /\ p = "done" => writers["job"].event \in Posted'
      BY <1>0, <2>2, RecorderStep
    <3>2. /\ writers["job"].pc \in {"list", "post"} /\ writers["job"].event \in Events
          /\ comments' \in Seq([by : Writer, event : Events])
      BY <1>0, <2>2, RecorderStep
    <3>3. Current' = Current
      BY <2>2 DEF Current, Event, At
    <3>4. writers["job"].event = Current /\ job.pc \in Recording
      BY <1>1, <3>2 DEF EvidenceOK
    <3> QED
      BY <1>0, <2>2, <3>1, <3>2, <3>3, <3>4 DEF EvidenceOK, Recordings
  <2>3. CASE Emit /\ ~job.issue
    <3>1. /\ job.pc \in Recording /\ UNCHANGED ledgerVars
          /\ artifacts' = artifacts \cup {Current} /\ writers["job"] = Resting
      BY <2>3 DEF Emit
    <3>2. Posted' = Posted /\ Current \in Events
      BY <3>1, CurrentFacts DEF Posted, ledgerVars
    <3> QED
      BY <1>1, <3>1, <3>2 DEF EvidenceOK, ledgerVars
  <2>4. CASE Conclude
    <3>1. /\ writers' = [writers EXCEPT !["job"] = Resting]
          /\ UNCHANGED <<comments, artifacts>>
      BY <2>4 DEF Conclude
    <3> QED
      BY <1>0, <1>1, <3>1 DEF EvidenceOK
  <2> QED
    BY <1>6, <2>1, <2>2, <2>3, <2>4, Records
<1>7. CASE Break
  <2>1. /\ writers' = [writers EXCEPT !["job"] = Resting]
        /\ UNCHANGED <<comments, artifacts>>
    BY <1>7 DEF Break
  <2> QED
    BY <1>0, <1>1, <2>1 DEF EvidenceOK
<1>8. CASE Deliver
  <2>1. PICK w \in late :
          /\ IF w.what = "comment"
               THEN comments' = Append(comments, Comment("job", w.event))
               ELSE UNCHANGED comments
          /\ UNCHANGED <<writers, job, artifacts>>
    BY <1>8 DEF Deliver
  <2>2. Current' = Current
    BY <2>1 DEF Current, Event, At
  <2>3. CASE w.what = "comment"
    <3>1. w.event \in Events
      BY <2>3
    <3>2. comments' \in Seq([by : Writer, event : Events]) /\ Posted \subseteq Posted'
      BY <1>0, <2>1, <2>3, <3>1, NewComment DEF EvidenceOK
    <3> QED
      BY <2>1, <2>2, <3>2 DEF EvidenceOK
  <2>4. CASE w.what # "comment"
    BY <1>3, <2>1, <2>4 DEF ledgerVars
  <2> QED
    BY <2>3, <2>4
<1>9. CASE Orphan \/ Interfere \/ Branch
  BY <1>3, <1>9 DEF Orphan, Interfere, Branch
<1>10. CASE RecordByHand
  <2>1. PICK e \in artifacts, at \in {0, 1} : Record("operator", [e EXCEPT !.at = @ * at])
    BY <1>10 DEF RecordByHand
  <2>2. UNCHANGED <<job, artifacts>>
    BY <1>10 DEF RecordByHand
  <2>3. e \in Events /\ e.at * at \in Nat
    <3>1. e \in Events /\ e.at \in Nat
      BY DEF EvidenceOK, Events
    <3>2. e.at * 0 = 0 /\ e.at * 1 = e.at
      BY <3>1
    <3> QED
      BY <3>1, <3>2
  <2> DEFINE f == [e EXCEPT !.at = @ * at]
  <2>4. f \in Events
    BY <2>3 DEF Events
  <2>5. /\ writers' = [writers EXCEPT !["operator"] = [pc |-> "list", event |-> f]]
        /\ UNCHANGED comments
    BY <2>1 DEF Record
  <2>6. Current' = Current /\ Posted' = Posted
    BY <2>2, <2>5 DEF Current, Event, At, Posted
  <2> HIDE DEF f
  <2> QED
    BY <1>0, <2>2, <2>4, <2>5, <2>6 DEF EvidenceOK, Recordings
<1>11. CASE HandDone
  <2>1. UNCHANGED <<job, artifacts>>
    BY <1>11 DEF HandDone
  <2>2. Current' = Current
    BY <2>1 DEF Current, Event, At
  <2>3. CASE Recorder("operator")
    <3>1. PICK p \in {"post", "done", "refused"} :
            writers' = [writers EXCEPT !["operator"].pc = p]
      BY <1>0, <2>3, RecorderStep
    <3>2. /\ writers["operator"].pc \in {"list", "post"}
          /\ writers["operator"].event \in Events
          /\ comments' \in Seq([by : Writer, event : Events])
          /\ Posted \subseteq Posted'
      BY <1>0, <2>3, RecorderStep
    <3> QED
      BY <1>0, <2>1, <2>2, <3>1, <3>2 DEF EvidenceOK, Recordings
  <2>4. CASE writers' = [writers EXCEPT !["operator"] = Resting] /\ UNCHANGED comments
    <3>1. Posted' = Posted
      BY <2>4 DEF Posted
    <3> QED
      BY <1>0, <1>1, <2>1, <2>2, <2>4, <3>1 DEF EvidenceOK
  <2> QED
    BY <1>11, <2>3, <2>4 DEF HandDone, Recorder
<1> QED
  BY <1>4, <1>5, <1>6, <1>7, <1>8, <1>9, <1>10, <1>11, <1>12 DEF Next, Step

-----------------------------------------------------------------------------
(* The slot and the writes that may still be executed.                     *)

GatedAsSomething(c) == \E state \in State : Gated(c, state)

\* Whatever is deployed now, or may still be, has passed the gates.
SlotOK ==
    /\ slot \in [sha : DOMAIN commits \cup {None, OtherSha}, helper : Helper,
                 run : {NoRun, OurRun, OtherRun}]
    /\ slot.sha \in DOMAIN commits => GatedAsSomething(slot.sha)
    /\ \A w \in late :
         \/ w.what = "settings" /\ w.run = OurRun
         \/ w.what = "comment" /\ w.event \in Events
         \/ /\ w.what = "deployment" /\ w.sha \in DOMAIN commits
            /\ w.helper \in Helper /\ GatedAsSomething(w.sha)

\* Gates that were passed stay passed.
LEMMA GatedForGood ==
    ASSUME BranchOK, Grown, NEW c \in DOMAIN commits, GatedAsSomething(c)
    PROVE  GatedAsSomething(c)'
BY DEF GatedAsSomething, Gated, Grown

\* A write to the slot.
LEMMA ApplyStep ==
    ASSUME SlotOK, UNCHANGED commits, NEW w, Apply(w),
           \/ w.what = "settings" /\ w.run = OurRun
           \/ /\ w.what = "deployment" /\ w.sha \in DOMAIN commits
              /\ w.helper \in Helper /\ GatedAsSomething(w.sha)
    PROVE  /\ slot' \in [sha : DOMAIN commits \cup {None, OtherSha}, helper : Helper,
                         run : {NoRun, OurRun, OtherRun}]
           /\ slot'.sha \in DOMAIN commits => GatedAsSomething(slot'.sha)
<1>1. \/ /\ slot' = [slot EXCEPT !.sha = w.sha, !.helper = w.helper]
         /\ w.sha \in DOMAIN commits /\ w.helper \in Helper /\ GatedAsSomething(w.sha)
      \/ slot' = [slot EXCEPT !.run = w.run] /\ w.run = OurRun
  BY DEF Apply
<1> QED
  BY <1>1 DEF SlotOK

\* The deployment of an attempt past the gates.
LEMMA DeploymentFacts ==
    ASSUME JobOK, BranchOK, job.pc \in Deploying
    PROVE  /\ Deployment.what = "deployment" /\ Deployment.sha \in DOMAIN commits
           /\ Deployment.helper \in Helper /\ GatedAsSomething(Deployment.sha)
<1>1. /\ job.target \in DOMAIN commits /\ job.state \in State
      /\ Gated(job.target, job.state)
  BY DEF JobOK, Job
<1>2. commits[job.target].helper \in Helper
  BY <1>1, CommitsFacts DEF Commits
<1> QED
  BY <1>1, <1>2 DEF Deployment, GatedAsSomething

LEMMA SlotStep ==
    ASSUME JobOK, BranchOK, EvidenceOK, SlotOK, Next, Grown,
           (~Branch => UNCHANGED commits)
    PROVE  SlotOK'
<1>1. ASSUME UNCHANGED <<slot, late>>
      PROVE  SlotOK'
  <2>1. slot.sha \in DOMAIN commits' => slot.sha \in DOMAIN commits
    <3>1. CASE Branch
      <4>1. BranchOK'
        BY <3>1, BranchStep DEF Branch, BranchAction
      <4>2. DOMAIN commits' = 1 .. Len(commits')
        BY <4>1 DEF BranchOK
      <4>3. None \notin DOMAIN commits' /\ OtherSha \notin DOMAIN commits'
        BY <4>1, <4>2, DemoAssumption DEF BranchOK
      <4> QED
        BY <1>1, <4>3 DEF SlotOK
    <3>2. CASE ~Branch
      BY <3>2
    <3> QED
      BY <3>1, <3>2
  <2>2. \A c \in DOMAIN commits : GatedAsSomething(c) => GatedAsSomething(c)'
    BY GatedForGood
  <2> QED
    BY <1>1, <2>1, <2>2 DEF SlotOK, Grown
<1>2. ASSUME UNCHANGED commits, NEW new, late' \subseteq late \cup new,
             \A w \in new : \/ w.what = "settings" /\ w.run = OurRun
                            \/ w.what = "comment" /\ w.event \in Events
                            \/ /\ w.what = "deployment" /\ w.sha \in DOMAIN commits
                               /\ w.helper \in Helper /\ GatedAsSomething(w.sha),
             slot' \in [sha : DOMAIN commits \cup {None, OtherSha}, helper : Helper,
                        run : {NoRun, OurRun, OtherRun}],
             slot'.sha \in DOMAIN commits => GatedAsSomething(slot'.sha)
      PROVE  SlotOK'
  <2>1. \A c : GatedAsSomething(c)' = GatedAsSomething(c)
    BY <1>2 DEF GatedAsSomething, Gated
  <2> QED
    BY <1>2, <2>1 DEF SlotOK
<1>3. CASE Dispatch \/ Rerun \/ Decide \/ Check \/ Evidencing \/ Orphan
             \/ RecordByHand \/ HandDone \/ Branch
  BY <1>1, <1>3 DEF Dispatch, Rerun, Decide, Check, Evidencing, Orphan,
                    RecordByHand, HandDone, Branch
<1>4. CASE Write
  <2>1. CASE UNCHANGED slot
    BY <1>1, <1>4, <2>1 DEF Write
  <2>2. CASE Apply(Deployment) /\ At("deploy")
    <3>1. job.pc \in Deploying
      BY <2>2 DEF At, Deploying
    <3>2. UNCHANGED <<commits, late>>
      BY <1>4 DEF Write, branchVars
    <3>3. PICK w : w = Deployment /\ Apply(w)
      BY <2>2
    <3>4. /\ w.what = "deployment" /\ w.sha \in DOMAIN commits
          /\ w.helper \in Helper /\ GatedAsSomething(w.sha)
      BY <3>1, <3>3, DeploymentFacts
    <3>5. /\ slot' \in [sha : DOMAIN commits \cup {None, OtherSha}, helper : Helper,
                        run : {NoRun, OurRun, OtherRun}]
          /\ slot'.sha \in DOMAIN commits => GatedAsSomething(slot'.sha)
      BY <3>2, <3>3, <3>4, ApplyStep
    <3> QED
      BY <1>2, <3>2, <3>5 DEF SlotOK
  <2>3. CASE Apply(Settings)
    <3>1. UNCHANGED <<commits, late>>
      BY <1>4 DEF Write, branchVars
    <3>2. PICK w : w = Settings /\ Apply(w)
      BY <2>3
    <3>3. w.what = "settings" /\ w.run = OurRun
      BY <3>2 DEF Settings
    <3>4. /\ slot' \in [sha : DOMAIN commits \cup {None, OtherSha}, helper : Helper,
                        run : {NoRun, OurRun, OtherRun}]
          /\ slot'.sha \in DOMAIN commits => GatedAsSomething(slot'.sha)
      BY <3>1, <3>2, <3>3, ApplyStep
    <3> QED
      BY <1>2, <3>1, <3>4 DEF SlotOK
  <2> QED
    BY <1>4, <2>1, <2>2, <2>3, Writes
<1>5. CASE Break
  <2>1. UNCHANGED <<commits, slot>> /\ late' \subseteq late \cup InFlight
    BY <1>5 DEF Break, branchVars
  <2>2. \A w \in InFlight : \/ w.what = "settings" /\ w.run = OurRun
                            \/ w.what = "comment" /\ w.event \in Events
                            \/ /\ w.what = "deployment" /\ w.sha \in DOMAIN commits
                               /\ w.helper \in Helper /\ GatedAsSomething(w.sha)
    <3>0. writers["job"].pc = "post" => job.pc \in Recording
      BY DEF EvidenceOK, Resting
    <3>1. CASE At("deploy")
      <4>1. InFlight = {Deployment} /\ job.pc \in Deploying
        BY <3>0, <3>1 DEF InFlight, At, Recording, Deploying
      <4> QED
        BY <4>1, DeploymentFacts
    <3>2. CASE At("settings")
      <4>1. InFlight = {Settings}
        BY <3>0, <3>2 DEF InFlight, At, Recording
      <4> QED
        BY <4>1 DEF Settings
    <3>3. CASE ~At("deploy") /\ ~At("settings") /\ writers["job"].pc = "post"
      <4>1. writers["job"].event \in Events
        BY <3>3, DemoAssumption DEF EvidenceOK
      <4> QED
        BY <3>3, <4>1 DEF InFlight
    <3>4. CASE ~At("deploy") /\ ~At("settings") /\ writers["job"].pc # "post"
      BY <3>4 DEF InFlight
    <3> QED
      BY <3>1, <3>2, <3>3, <3>4
  <2> QED
    BY <1>2, <2>1, <2>2 DEF SlotOK
<1>6. CASE Deliver
  <2>1. PICK w \in late :
          /\ late' = late \ {w} /\ UNCHANGED commits
          /\ IF w.what = "comment" THEN UNCHANGED slot ELSE Apply(w)
    BY <1>6 DEF Deliver, branchVars
  <2>2. CASE w.what = "comment"
    BY <1>2, <2>1, <2>2 DEF SlotOK
  <2>3. CASE w.what # "comment"
    BY <1>2, <2>1, <2>3, ApplyStep DEF SlotOK
  <2> QED
    BY <2>2, <2>3
<1>7. CASE Interfere
  <2>1. UNCHANGED <<commits, late>>
    BY <1>7 DEF Interfere, branchVars
  <2>2. \/ \E helper \in State : slot' = [slot EXCEPT !.sha = OtherSha, !.helper = helper]
        \/ slot' = [slot EXCEPT !.run = OtherRun]
    BY <1>7 DEF Interfere
  <2>3. OtherSha \notin DOMAIN commits
    BY CommitsFacts
  <2> QED
    BY <1>2, <2>1, <2>2, <2>3 DEF SlotOK, State, Helper
<1> QED
  BY <1>3, <1>4, <1>5, <1>6, <1>7 DEF Next, Step

-----------------------------------------------------------------------------
(* Invariance, and what follows from it.                                   *)

Inv == DbOK /\ BranchOK /\ JobOK /\ EvidenceOK /\ SlotOK

\* Who changes the attempt and the branch.
LEMMA JobStep ==
    ASSUME Inv, Next
    PROVE  /\ JobOK' /\ Grown
           /\ ~Branch => UNCHANGED commits
           /\ BranchOK'
<1>1. CASE Branch
  <2>1. BranchOK' /\ Grown /\ UNCHANGED job
    BY <1>1, BranchStep DEF Branch, BranchAction, Inv
  <2>2. job.target # None => Gated(job.target, job.state)' = Gated(job.target, job.state)
    BY <2>1 DEF Inv, JobOK, Gated, Grown
  <2> QED
    BY <1>1, <2>1, <2>2 DEF Inv, JobOK, Grown, At
<1>2. CASE ~Branch
  <2>1. UNCHANGED branchVars
    BY <1>2 DEF Next, Step, Dispatch, Rerun, Decide, Write, Check, Evidencing, Break,
                Deliver, Orphan, Interfere, RecordByHand, HandDone
  <2>2. BranchOK' /\ Grown /\ UNCHANGED commits
    BY <2>1, BranchStep DEF Inv, BranchAction, branchVars
  <2>3. UNCHANGED job => JobOK'
    BY <2>2 DEF Inv, JobOK, At, Gated
  <2>4. CASE Break
    BY <2>2, <2>4, StepFails DEF Break, Inv
  <2>5. CASE Dispatch \/ Rerun \/ Step
    <3>1. JobOK /\ BranchOK /\ EvidenceOK
      BY DEF Inv
    <3>2. CASE Dispatch \/ Rerun
      BY <2>2, <3>1, <3>2, NewAttempt
    <3>3. CASE Decide
      BY <2>2, <3>1, <3>3, Decides
    <3>4. CASE Write
      BY <2>2, <3>1, <3>4, Writes
    <3>5. CASE Check
      BY <2>2, <3>1, <3>5, Checks
    <3>6. CASE Evidencing
      BY <2>2, <3>1, <3>6, Records
    <3> QED
      BY <2>5, <3>2, <3>3, <3>4, <3>5, <3>6 DEF Step
  <2>6. CASE Deliver \/ Orphan \/ Interfere \/ RecordByHand \/ HandDone
    <3>1. UNCHANGED job
      BY <2>6 DEF Deliver, Orphan, Interfere, RecordByHand, HandDone
    <3> QED
      BY <1>2, <2>2, <2>3, <3>1
  <2> QED
    BY <1>2, <2>2, <2>4, <2>5, <2>6 DEF Next
<1> QED
  BY <1>1, <1>2

\* The upgrades are those of the attempts.
LEMMA DbNext ==
    ASSUME Inv, Next
    PROVE  DbOK'
<1>1. UNCHANGED db => DbOK'
  BY DEF DbOK, Inv
<1>2. CASE Write
  <2>1. job.attempt \in Attempt
    BY <1>2, Writes DEF Inv, JobOK
  <2>2. \/ BeginUpgrade(job.attempt) \/ CommitUpgrade(job.attempt) \/ GrantRuntime
        \/ UNCHANGED db
    BY <1>2, Writes DEF Inv
  <2>3. PICK a \in Attempt : a = job.attempt
    BY <2>1
  <2> QED
    BY <2>2, <2>3, DbStep DEF Inv
<1>3. CASE Orphan
  <2>1. PICK a \in Attempts : CommitUpgrade(a) \/ AbortUpgrade(a)
    BY <1>3 DEF Orphan
  <2>2. a \in Attempt
    BY DEF Attempts, DbOK, Inv
  <2> QED
    BY <2>1, <2>2, DbStep DEF Inv
<1>4. CASE ~Write /\ ~Orphan
  <2>1. UNCHANGED db
    BY <1>4 DEF Next, Step, Dispatch, Rerun, Decide, Check, Evidencing, Break,
                Deliver, Interfere, RecordByHand, HandDone, Branch
  <2> QED
    BY <1>1, <2>1
<1> QED
  BY <1>2, <1>3, <1>4

LEMMA InitInv == Init => Inv
<1> SUFFICES ASSUME Init PROVE Inv
  OBVIOUS
<1> USE DemoAssumption
<1>1. DbOK
  BY DEF Init, DbInit, DbOK
<1>2. BranchOK
  <2>1. commits = <<[helper |-> "healthy", parent |-> None, protected |-> FALSE]>>
    BY DEF Init, BranchInit
  <2>2. [helper |-> "healthy", parent |-> None, protected |-> FALSE] \in Commits
    BY DEF Commits, Helper
  <2>3. commits \in Seq(Commits) /\ Len(commits) = 1
    BY <2>1, <2>2
  <2> QED
    BY <2>3 DEF Init, BranchInit, BranchOK, HelperOf, State, Helper
<1>3. JobOK
  <2>1. job \in Job
    BY DEF Init, NoJob, Job, Pcs, State, Total
  <2> QED
    BY <2>1 DEF Init, NoJob, JobOK, Deploying, Recording, Checking, Early, At
<1>4. EvidenceOK
  BY DEF Init, LedgerInit, EvidenceOK, Resting, Recordings
<1>5. SlotOK
  BY <1>2, CommitsFacts DEF Init, SlotOK, Helper
<1> QED
  BY <1>1, <1>2, <1>3, <1>4, <1>5 DEF Inv

\* The invariant that the safety theorems rest on.
THEOREM Invariance == Spec => []Inv
<1>1. ASSUME Inv, [Next]_vars
      PROVE  Inv'
  <2>1. CASE Next
    <3>1. \A w \in late : w.what = "comment" => w.event \in Events
      BY <1>1 DEF Inv, SlotOK
    <3>2. DbOK' /\ BranchOK' /\ JobOK'
      BY <1>1, <2>1, JobStep, DbNext
    <3>3. EvidenceOK'
      BY <1>1, <2>1, <3>1, <3>2, EvidenceStep DEF Inv
    <3>4. SlotOK'
      BY <1>1, <2>1, JobStep, SlotStep DEF Inv
    <3> QED
      BY <3>2, <3>3, <3>4 DEF Inv
  <2>2. CASE UNCHANGED vars
    <3>1. UNCHANGED <<branchVars, ledgerVars, db, slot, job, late, artifacts>>
      BY <2>2 DEF vars
    <3>2. DbOK' /\ BranchOK'
      BY <1>1, <3>1, BranchStep DEF Inv, DbOK, BranchAction
    <3>3. JobOK'
      BY <1>1, <3>1 DEF Inv, JobOK, At, Gated, branchVars
    <3>4. Current' = Current /\ Posted' = Posted
      BY <3>1 DEF Current, Event, At, Posted, ledgerVars
    <3>5. EvidenceOK'
      BY <1>1, <3>1, <3>4 DEF Inv, EvidenceOK, ledgerVars
    <3>6. \A c : GatedAsSomething(c)' = GatedAsSomething(c)
      BY <3>1 DEF GatedAsSomething, Gated, branchVars
    <3>7. SlotOK'
      BY <1>1, <3>1, <3>6 DEF Inv, SlotOK, branchVars
    <3> QED
      BY <3>2, <3>3, <3>5, <3>7 DEF Inv
  <2> QED
    BY <1>1, <2>1, <2>2
<1> QED
  BY <1>1, InitInv, PTL DEF Spec

\* No upgrade works from a schema that another one has changed meanwhile:
\* the advisory lock of do_run_migrations is enough, also when the client of
\* the upgrade is gone.
THEOREM SerialUpgrades == Spec => []UpgradesDoNotCollide
<1>1. Inv => UpgradesDoNotCollide
  BY DEF Inv, DbOK, UpgradesDoNotCollide
<1> QED
  BY <1>1, Invariance, PTL

\* Nothing is served that did not pass the gates as what it is: the target
\* is fixed before the gates, and commits do not change (prepare).
THEOREM OnlyGatedIsServed == Spec => []DeployedWasGated
<1>1. Inv => DeployedWasGated
  BY DEF Inv, SlotOK, GatedAsSomething, DeployedWasGated
<1> QED
  BY <1>1, Invariance, PTL

\* What introduce and reset report is what the branch and the worktree hold,
\* wherever an earlier command was interrupted.
THEOREM ReportsAreReal == Spec => []ReportedStateIsReal
<1>1. Inv => ReportedStateIsReal
  BY DEF Inv, BranchOK, ReportedStateIsReal
<1> QED
  BY <1>1, Invariance, PTL

\* The counts of fault traffic are those of the requests sent, and every
\* number of requests that a run may ask for makes an observable incident
\* (exercise, run_traffic, validate_observation).
THEOREM TrafficIsObserved == Spec => []FaultTrafficIsObservable
<1>1. Inv => FaultTrafficIsObservable
  <2> SUFFICES ASSUME Inv PROVE FaultTrafficIsObservable
    OBVIOUS
  <2>1. At("claim-deployment") /\ job.state = "regression" =>
          TrafficCounts(Requests).eligible = job.sent - 4
    BY DemoAssumption DEF Inv, JobOK, TrafficCounts, Total
  <2>2. ASSUME NEW n \in 1 .. 200, ValidRequests(n)
        PROVE  /\ Observable(TrafficCounts(n))
               /\ Observable([TrafficCounts(n) EXCEPT !.eligible = n])
    <3>1. n \in 21 .. 100
      BY <2>2 DEF ValidRequests
    <3>2. TrafficCounts(n) = [eligible |-> n + 2, failed |-> n]
      BY DEF TrafficCounts
    <3> QED
      BY <3>1, <3>2 DEF Observable
  <2> QED
    BY <2>1, <2>2 DEF FaultTrafficIsObservable, EveryTrafficIsObservable
<1> QED
  BY <1>1, Invariance, PTL
=============================================================================
