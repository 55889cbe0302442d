------------------------- MODULE DemoLedgerProofs -------------------------
(***************************************************************************)
(* DemoRelease implements RecoveryLedger: what the issue claims of an      *)
(* attempt is backed by what the attempt did; and the timeline shows what  *)
(* the records on the issue say.                                           *)
(***************************************************************************)
EXTENDS DemoProofs, FiniteSetTheorems, WellFoundedInduction

Announced == Claims("deployment", "pending")

\* A record that may be posted on the issue is justified already.
Justified(e) ==
    /\ e.kind = "deployment" /\ e.status = "succeeded" => e.attempt \in verified
    /\ e.kind = "recovery" /\ e.status = "succeeded" => e.attempt \in healed

\* The same after the step.
StillJustified(e) ==
    /\ e.kind = "deployment" /\ e.status = "succeeded" => e.attempt \in verified'
    /\ e.kind = "recovery" /\ e.status = "succeeded" => e.attempt \in healed'

\* The steps of an attempt that follow its announcement, its first write,
\* and its last check.
AfterAnnounce == Deploying \ {"announce", "record-failed"}
AfterTouch == AfterAnnounce \ {"upgrade"}
AfterChecks == {"claim-deployment", "claim-recovery"}

\* The attempt has done what its next step relies on.
AttemptOK ==
    /\ touched \cup verified \cup healed \cup issued \subseteq 1 .. job.attempt
    /\ job.attempt \in issued => job.issue
    /\ job.issue /\ (job.attempt \in touched \/ job.pc \in AfterAnnounce) =>
         job.attempt \in Announced
    /\ job.pc \in AfterTouch => job.attempt \in touched
    /\ job.pc \in AfterChecks =>
         /\ job.attempt \in verified
         /\ job.state = "healthy" => job.attempt \in healed

\* Every file that may be recorded, every record that is being made, and every
\* comment that may still appear, is justified.
RecordsOK ==
    /\ \A e \in artifacts : Justified(e)
    /\ \A w \in Writer : writers[w].pc # "idle" => Justified(writers[w].event)
    /\ \A w \in late : w.what = "comment" => Justified(w.event)

LedgerOK == AttemptOK /\ RecordsOK /\ verified \subseteq touched

\* What is claimed, after one more comment and after none.
LEMMA ClaimsGrow ==
    ASSUME comments \in Seq([by : Writer, event : Events]), NEW kind, NEW status
    PROVE  /\ UNCHANGED comments => UNCHANGED Claims(kind, status)
           /\ \A w \in Writer, e \in Events :
                comments' = Append(comments, Comment(w, e)) =>
                  Claims(kind, status)' =
                    Claims(kind, status) \cup
                      (IF e.kind = kind /\ e.status = status THEN {e.attempt} ELSE {})
<1>1. UNCHANGED comments => UNCHANGED Claims(kind, status)
  BY DEF Claims
<1>2. ASSUME NEW w \in Writer, NEW e \in Events,
             comments' = Append(comments, Comment(w, e))
      PROVE  Claims(kind, status)' =
               Claims(kind, status) \cup
                 (IF e.kind = kind /\ e.status = status THEN {e.attempt} ELSE {})
  <2>1. Range(comments') = Range(comments) \cup {Comment(w, e)}
    BY <1>2, NewComment
  <2>2. Comment(w, e).event = e
    BY DEF Comment
  <2> QED
    BY <2>1, <2>2 DEF Claims
<1> QED
  BY <1>1, <1>2

\* Checks that were answered are never taken back, so what is justified
\* stays justified.
LEMMA StaysJustified ==
    ASSUME verified \subseteq verified', healed \subseteq healed', NEW e, Justified(e)
    PROVE  StillJustified(e)
BY DEF Justified, StillJustified

Grows == /\ Announced \subseteq Announced'
         /\ touched \subseteq touched' /\ verified \subseteq verified'
         /\ healed \subseteq healed' /\ issued \subseteq issued'

\* The comments of one step.
LEMMA CommentsOfAStep ==
    ASSUME Inv, Next
    PROVE  \/ UNCHANGED comments
           \/ \E w \in Writer :
                /\ writers[w].pc \in {"list", "post"} /\ writers[w].event \in Events
                /\ comments' = Append(comments, Comment(w, writers[w].event))
                /\ UNCHANGED <<issued, touched, verified, healed>>
           \/ \E w \in late :
                /\ w.what = "comment" /\ w.event \in Events
                /\ comments' = Append(comments, Comment("job", w.event))
                /\ UNCHANGED <<issued, touched, verified, healed>>
<1>1. {"job", "operator"} \subseteq Writer
  BY DemoAssumption
<1>2. CASE Evidencing
  <2>1. CASE Recorder("job")
    BY <1>1, <1>2, <2>1, RecorderStep DEF Inv, Evidencing, history
  <2>2. CASE Emit \/ Conclude
    BY <2>2 DEF Emit, Conclude, Record, ledgerVars
  <2> QED
    BY <1>2, <2>1, <2>2 DEF Evidencing, List1, Post, Recorder
<1>3. CASE HandDone
  <2>1. CASE Recorder("operator")
    BY <1>1, <1>3, <2>1, RecorderStep DEF Inv, HandDone, history
  <2> QED
    BY <1>3, <2>1 DEF HandDone, Recorder
<1>4. CASE Deliver
  <2>1. PICK w \in late :
          IF w.what = "comment"
            THEN comments' = Append(comments, Comment("job", w.event))
            ELSE UNCHANGED comments
    BY <1>4 DEF Deliver
  <2>2. UNCHANGED <<issued, touched, verified, healed>>
    BY <1>4 DEF Deliver, history
  <2>3. w.what = "comment" => w.event \in Events
    BY DEF Inv, SlotOK
  <2> QED
    BY <2>1, <2>2, <2>3
<1>5. CASE RecordByHand
  BY <1>5 DEF RecordByHand, Record
<1>6. CASE Dispatch \/ Rerun \/ Decide \/ Write \/ Check \/ Break \/ Orphan
             \/ Interfere \/ Branch
  BY <1>6 DEF Dispatch, Rerun, Decide, Write, Check, Break, Orphan, Interfere,
              Branch, ledgerVars
<1> QED
  BY <1>2, <1>3, <1>4, <1>5, <1>6 DEF Next, Step

\* What one step does to the histories.
LEMMA HistoryOfAStep ==
    ASSUME Inv, Next
    PROVE  /\ \/ UNCHANGED issued
              \/ /\ Dispatch \/ Rerun
                 /\ job'.issue /\ issued' = issued \cup {job'.attempt}
           /\ \/ UNCHANGED touched
              \/ /\ Write /\ At("upgrade") /\ job'.pc = "upgrading"
                 /\ touched' = touched \cup {job.attempt}
           /\ \/ UNCHANGED <<verified, healed>>
              \/ /\ Check /\ job'.pc = "claim-deployment"
                 /\ verified' = verified \cup {job.attempt}
                 /\ healed' = healed \/ healed' = healed \cup {job.attempt}
<1>1. CASE Write
  BY <1>1, Writes DEF Write, Touch, Inv
<1>2. CASE Check
  <2>1. UNCHANGED <<touched, issued>>
    BY <1>2 DEF Check
  <2>2. \/ UNCHANGED <<verified, healed>>
        \/ /\ job'.pc = "claim-deployment" /\ verified' = verified \cup {job.attempt}
           /\ healed' = healed \/ healed' = healed \cup {job.attempt}
    BY <1>2, Checks DEF Inv
  <2> QED
    BY <1>2, <2>1, <2>2
<1>3. CASE Dispatch \/ Rerun
  BY <1>3 DEF Dispatch, Rerun, Attach
<1>4. CASE ~Write /\ ~Check /\ ~Dispatch /\ ~Rerun
  BY <1>4 DEF Next, Step, Decide, Evidencing, Break, Deliver, Orphan, Interfere,
              RecordByHand, HandDone, Branch, history
<1> QED
  BY <1>1, <1>2, <1>3, <1>4

LEMMA GrowsStep ==
    ASSUME Inv, Next
    PROVE  Grows
<1>1. /\ touched \subseteq touched' /\ verified \subseteq verified'
      /\ healed \subseteq healed' /\ issued \subseteq issued'
  BY HistoryOfAStep
<1>2. ASSUME NEW kind, NEW status
      PROVE  Claims(kind, status) \subseteq Claims(kind, status)'
  <2>1. comments \in Seq([by : Writer, event : Events]) /\ "job" \in Writer
    BY DemoAssumption DEF Inv, EvidenceOK
  <2>2. CASE UNCHANGED comments
    BY <2>1, <2>2, ClaimsGrow
  <2>3. ASSUME NEW w \in Writer, NEW e \in Events,
               comments' = Append(comments, Comment(w, e))
        PROVE  Claims(kind, status) \subseteq Claims(kind, status)'
    BY <2>1, <2>3, ClaimsGrow
  <2> QED
    BY <2>1, <2>2, <2>3, CommentsOfAStep
<1> QED
  BY <1>1, <1>2 DEF Grows, Announced

Same == /\ job'.attempt = job.attempt /\ job'.issue = job.issue
        /\ job'.state = job.state

\* Only a new attempt changes the attempt's number and inputs.
LEMMA SameAttempt ==
    ASSUME Inv, Next, ~Dispatch, ~Rerun
    PROVE  Same
<1> USE DEF Same
<1>1. job \in Job
  BY DEF Inv, JobOK
<1>2. \A p : Goto(p) => Same
  BY <1>1 DEF Goto, Job
<1>3. \A p : Use(p) => Same
  BY <1>1 DEF Use, Job
<1>4. CASE Decide
  BY <1>1, <1>2, <1>4 DEF Decide, Preflight, Gates, Approve, Job
<1>5. CASE Write
  BY <1>2, <1>5 DEF Write, Upgrade, Deploy, BindScenario
<1>6. CASE Check
  BY <1>1, <1>2, <1>3, <1>6
  DEF Check, Ready, List, RecoveryReady, RecoveryList, Traffic, Refuse, Job
<1>7. CASE Evidencing
  BY <1>2, <1>7 DEF Evidencing, Emit, List1, Post, Conclude
<1>8. CASE Break
  BY <1>2, <1>8 DEF Break
<1>9. CASE Deliver \/ Orphan \/ Interfere \/ RecordByHand \/ HandDone \/ Branch
  BY <1>9 DEF Deliver, Orphan, Interfere, RecordByHand, HandDone, Branch
<1> QED
  BY <1>4, <1>5, <1>6, <1>7, <1>8, <1>9 DEF Next, Step

\* A comment with the current event claims the attempt.
LEMMA PostedClaims ==
    ASSUME Current \in Posted
    PROVE  Current.attempt \in Claims(Current.kind, Current.status)
BY DEF Posted, Claims

-----------------------------------------------------------------------------
(* LedgerOK is inductive.                                                  *)

LEMMA AttemptStep ==
    ASSUME Inv, Inv', LedgerOK, Next
    PROVE  AttemptOK'
<1>0. /\ Grows /\ LedgerOK /\ job.attempt \in Nat
  BY GrowsStep DEF Inv, JobOK, Job
<1> USE DEF AfterAnnounce, AfterTouch, AfterChecks, Deploying, Recording, Checking
<1>1. CASE Dispatch \/ Rerun
  <2>1. job'.attempt = job.attempt + 1
    BY <1>1, NewAttempt DEF Inv
  <2>2. job'.pc \in {"preflight", "gates"}
    <3>1. Dispatch => \E i \in Inputs : job'.pc = "preflight"
      BY DEF Dispatch, NoJob
    <3>2. Rerun => job'.pc = "gates"
      BY DEF Rerun, NoJob
    <3> QED
      BY <1>1, <3>1, <3>2
  <2>3. /\ UNCHANGED <<touched, verified, healed>>
        /\ issued' = IF job'.issue THEN issued \cup {job'.attempt} ELSE issued
    BY <1>1 DEF Dispatch, Rerun, Attach
  <2>4. job.attempt + 1 \notin touched \cup verified \cup healed \cup issued
    BY <1>0 DEF LedgerOK, AttemptOK
  <2>5. /\ (touched \cup verified \cup healed \cup issued)' \subseteq 1 .. job'.attempt
        /\ job'.attempt \in issued' => job'.issue
    BY <1>0, <2>1, <2>3, <2>4 DEF LedgerOK, AttemptOK
  <2> QED
    BY <1>0, <2>1, <2>2, <2>3, <2>4, <2>5 DEF AttemptOK
<1>2. ASSUME ~Dispatch, ~Rerun
      PROVE  AttemptOK'
  <2>1. /\ job'.attempt = job.attempt /\ job'.issue = job.issue
        /\ job'.state = job.state
    BY <1>2, SameAttempt DEF Same
  <2>2. job.attempt # 0 \/ job.pc = "none"
    BY DEF Inv, JobOK, Attempt
  \* Bounds and issues.
  <2>3. /\ (touched \cup verified \cup healed \cup issued)' \subseteq 1 .. job'.attempt
        /\ job'.attempt \in issued' => job'.issue
    <3>1. job.pc # "none" => job.attempt \in 1 .. job.attempt
      BY <1>0, <2>2
    <3>2. At("upgrade") => job.pc # "none"
      BY DEF At
    <3>3. Check => job.pc # "none"
      BY Checks DEF Inv
    <3>4. UNCHANGED issued
      BY <1>2, HistoryOfAStep
    <3>5. touched' \subseteq 1 .. job.attempt
      BY <1>0, <3>1, <3>2, HistoryOfAStep DEF LedgerOK, AttemptOK
    <3>6. (verified \cup healed)' \subseteq 1 .. job.attempt
      BY <1>0, <3>1, <3>3, HistoryOfAStep DEF LedgerOK, AttemptOK
    <3> QED
      BY <1>0, <2>1, <3>4, <3>5, <3>6 DEF LedgerOK, AttemptOK
  \* What the next step may rely on.
  <2> DEFINE a == job.attempt
  <2>4. ASSUME job.issue /\ (a \in touched' \/ job'.pc \in AfterAnnounce) =>
                 a \in Announced',
               job'.pc \in AfterTouch => a \in touched',
               job'.pc \in AfterChecks =>
                 a \in verified' /\ (job.state = "healthy" => a \in healed')
        PROVE  AttemptOK'
    BY <2>1, <2>3, <2>4 DEF AttemptOK
  <2>5. ASSUME UNCHANGED touched, job'.pc \notin AfterAnnounce
        PROVE  AttemptOK'
    BY <1>0, <2>4, <2>5 DEF LedgerOK, AttemptOK, Grows
  <2>6. ASSUME UNCHANGED touched, job'.pc = job.pc
        PROVE  AttemptOK'
    BY <1>0, <2>4, <2>6 DEF LedgerOK, AttemptOK, Grows, At
  <2>7. CASE Decide
    <3>1. job'.pc \in {"gates", "approval", "announce", "failed"} /\ UNCHANGED touched
      BY <2>7 DEF Decide, Preflight, Gates, Approve, Goto, Inv, JobOK, Job, history
    <3> QED
      BY <2>5, <3>1
  <2>8. CASE Write
    <3>1. CASE At("upgrade") /\ job'.pc = "upgrading" /\ Touch
      <4>1. a \in touched' /\ job.pc \in AfterAnnounce
        BY <3>1 DEF Touch, At
      <4> QED
        BY <1>0, <2>4, <3>1, <4>1 DEF LedgerOK, AttemptOK, Grows
    <3>2. CASE job'.pc = "record-failed" /\ UNCHANGED touched
      BY <2>5, <3>2
    <3>3. CASE /\ ~At("upgrade") /\ UNCHANGED touched
               /\ job'.pc \in {"grant", "deploy", "settings", "ready"}
      <4>1. job.pc \in AfterTouch
        BY <2>8, <3>3, Writes DEF At, Inv
      <4> QED
        BY <1>0, <2>4, <3>3, <4>1 DEF LedgerOK, AttemptOK, Grows
    <3> QED
      BY <2>8, <3>1, <3>2, <3>3, Writes DEF Inv
  <2>9. CASE Check
    <3>1. /\ job.pc \in AfterTouch /\ UNCHANGED touched
          /\ job'.pc \in Checking \cup {"claim-deployment", "record-failed"}
          /\ job'.pc = "claim-deployment" =>
               a \in verified' /\ (job.state = "healthy" => a \in healed')
      BY <2>9, Checks DEF Inv, Check
    <3> QED
      BY <1>0, <2>4, <3>1 DEF LedgerOK, AttemptOK, Grows
  <2>10. CASE Evidencing
    <3>0. UNCHANGED touched
      BY <2>10 DEF Evidencing, history
    <3>1. CASE UNCHANGED job
      BY <2>6, <3>0, <3>1
    <3>2. CASE Emit /\ ~job.issue /\ job'.pc \in {"upgrade", "failed", "succeeded"}
      BY <1>0, <2>4, <3>0, <3>2 DEF LedgerOK, AttemptOK
    <3>3. CASE job'.pc \in {"failed", "record-failed"}
      BY <2>5, <3>0, <3>3
    <3>4. CASE Conclude /\ writers["job"].pc = "done" /\ Goto(Recorded)
                 /\ job.pc \in Recording
      <4>1. job'.pc = Recorded
        BY <3>4 DEF Goto, Inv, JobOK, Job
      <4>2. a \in Claims(Current.kind, Current.status)
        BY <1>0, <3>4, PostedClaims, CurrentFacts, DemoAssumption
        DEF Inv, EvidenceOK, Resting
      <4>3. CASE At("announce")
        <5>1. a \in Announced /\ job'.pc = "upgrade"
          BY <3>4, <4>1, <4>2, <4>3, CurrentFacts DEF Announced, Recorded, Inv, At
        <5> QED
          BY <1>0, <2>4, <3>0, <4>2, <5>1 DEF Grows
      <4>4. CASE At("claim-deployment")
        <5>1. job'.pc \in {"claim-recovery", "succeeded"}
          BY <4>1, <4>4 DEF Recorded, At
        <5> QED
          BY <1>0, <2>4, <3>0, <4>4, <5>1 DEF LedgerOK, AttemptOK, Grows, At
      <4>5. CASE At("claim-recovery") \/ At("record-failed")
        <5>1. job'.pc \in {"succeeded", "failed"}
          BY <4>1, <4>5 DEF Recorded, At
        <5> QED
          BY <2>5, <3>0, <5>1
      <4> QED
        BY <3>4, <4>3, <4>4, <4>5 DEF At
    <3> QED
      BY <2>10, <3>1, <3>2, <3>3, <3>4, Records DEF Inv
  <2>11. CASE Break
    <3>1. job'.pc \in {"killed", "failed", "record-failed"} /\ UNCHANGED touched
      BY <2>11, StepsFacts DEF Break, Goto, Inv, JobOK, Job, history
    <3> QED
      BY <2>5, <3>1
  <2>12. CASE Deliver \/ Orphan \/ Interfere \/ RecordByHand \/ HandDone \/ Branch
    <3>1. UNCHANGED <<job, touched>>
      BY <2>12 DEF Deliver, Orphan, Interfere, RecordByHand, HandDone, Branch, history
    <3> QED
      BY <2>6, <3>1
  <2> QED
    BY <1>2, <2>7, <2>8, <2>9, <2>10, <2>11, <2>12 DEF Next, Step
<1> QED
  BY <1>1, <1>2

\* The event of the current step, and that of a recovery that was just
\* checked, is justified when it is emitted.
LEMMA CurrentIsJustified ==
    ASSUME Inv, LedgerOK, job.pc \in Recording
    PROVE  Justified(Current)
<1>1. /\ Current.attempt = job.attempt
      /\ Current.status = "succeeded" =>
           \/ At("claim-deployment") /\ Current.kind = "deployment"
           \/ At("claim-recovery") /\ Current.kind = "recovery"
  BY CurrentFacts DEF Inv
<1>2. At("claim-deployment") => job.attempt \in verified
  BY DEF LedgerOK, AttemptOK, AfterChecks, At
<1>3. At("claim-recovery") => job.attempt \in healed
  BY DEF LedgerOK, AttemptOK, AfterChecks, At, Inv, JobOK
<1> QED
  BY <1>1, <1>2, <1>3 DEF Justified

LEMMA RecoveryIsJustified ==
    ASSUME Inv, Check
    PROVE  /\ artifacts' \subseteq artifacts \cup {Event("recovery", "succeeded")}
           /\ artifacts' # artifacts => StillJustified(Event("recovery", "succeeded"))
<1>1. /\ Event("recovery", "succeeded").attempt = job.attempt
      /\ Event("recovery", "succeeded").kind = "recovery"
  BY Checks, EventFacts DEF Inv, Deploying
<1>2. /\ artifacts' = artifacts \cup (IF Passed /\ At("recovery-list")
                          THEN {Event("recovery", "succeeded")} ELSE {})
      /\ healed' = healed \cup (IF Passed /\ At("recovery-list")
                          THEN {job.attempt} ELSE {})
  BY Checks DEF Inv
<1> QED
  BY <1>1, <1>2 DEF StillJustified

LEMMA RecordsStep ==
    ASSUME Inv, Inv', LedgerOK, Next
    PROVE  RecordsOK'
<1>0. /\ Grows /\ LedgerOK /\ "job" \in Writer /\ "operator" \in Writer
      /\ Resting.pc = "idle" /\ writers \in [Writer -> Recordings]
      /\ "job" # "operator"
  BY GrowsStep, DemoAssumption DEF Resting, Inv, EvidenceOK
<1>1. \A e : Justified(e) => StillJustified(e)
  BY <1>0, StaysJustified DEF Grows
<1>2. \A e \in artifacts' : StillJustified(e)
  <2>1. CASE Check
    BY <1>0, <1>1, <2>1, RecoveryIsJustified DEF LedgerOK, RecordsOK
  <2>2. CASE Emit
    <3>1. job.pc \in Recording /\ artifacts' = artifacts \cup {Current}
      BY <2>2 DEF Emit
    <3> QED
      BY <1>0, <1>1, <3>1, CurrentIsJustified DEF LedgerOK, RecordsOK
  <2>3. CASE ~Check /\ ~Emit
    <3>1. artifacts' = artifacts
      BY <2>3 DEF Next, Dispatch, Rerun, Step, Decide, Write, Evidencing, List1, Post,
             Conclude, Break, Deliver, Orphan, Interfere, RecordByHand, HandDone, Branch
    <3> QED
      BY <1>0, <1>1, <3>1 DEF LedgerOK, RecordsOK
  <2> QED
    BY <2>1, <2>2, <2>3
<1>3. \A w \in late' : w.what = "comment" => StillJustified(w.event)
  <2>1. ASSUME late' \subseteq late
        PROVE  \A w \in late' : w.what = "comment" => StillJustified(w.event)
    BY <1>0, <1>1, <2>1 DEF LedgerOK, RecordsOK
  <2>2. CASE Break
    <3>1. late' \subseteq late \cup InFlight
      BY <2>2 DEF Break
    <3>2. ASSUME NEW w \in InFlight, w.what = "comment"
          PROVE  Justified(w.event)
      <4>1. /\ writers["job"].pc = "post" => job.pc \in Recording
            /\ Deployment.what = "deployment" /\ Settings.what = "settings"
        BY DEF Inv, EvidenceOK, Resting, Deployment, Settings
      <4>2. writers["job"].pc = "post" /\ w.event = writers["job"].event
        BY <3>2, <4>1 DEF InFlight, Recording, At
      <4> QED
        BY <1>0, <4>2 DEF LedgerOK, RecordsOK
    <3> QED
      BY <1>0, <1>1, <3>1, <3>2 DEF LedgerOK, RecordsOK
  <2>3. CASE ~Break
    <3>1. late' \subseteq late
      BY <2>3 DEF Next, Dispatch, Rerun, Step, Decide, Write, Check, Evidencing, Deliver,
           Orphan, Interfere, RecordByHand, HandDone, Branch
    <3> QED
      BY <2>1, <3>1
  <2> QED
    BY <2>2, <2>3
<1>4. \A v \in Writer : writers[v].pc # "idle" => StillJustified(writers[v].event)
  BY <1>0, <1>1 DEF LedgerOK, RecordsOK
<1>5. ASSUME NEW w \in Writer, NEW r, writers' = [writers EXCEPT ![w] = r],
             r.pc # "idle" => StillJustified(r.event)
      PROVE  \A v \in Writer : writers'[v].pc # "idle" => StillJustified(writers'[v].event)
  BY <1>0, <1>4, <1>5
<1>7. ASSUME NEW w \in Writer, Recorder(w)
      PROVE  \A v \in Writer : writers'[v].pc # "idle" => StillJustified(writers'[v].event)
  <2>1. PICK p \in {"post", "done", "refused"} : writers' = [writers EXCEPT ![w].pc = p]
    BY <1>7, RecorderStep DEF Inv
  <2>2. writers[w].pc # "idle"
    BY <1>7, RecorderStep DEF Inv
  <2>3. /\ writers'[w].event = writers[w].event
        /\ \A v \in Writer : v # w => writers'[v] = writers[v]
    BY <1>0, <2>1 DEF Recordings
  <2> QED
    BY <1>4, <2>2, <2>3
<1>6. \A w \in Writer : writers'[w].pc # "idle" => StillJustified(writers'[w].event)
  <2>1. CASE UNCHANGED writers
    BY <1>4, <2>1
  <2>2. CASE Emit /\ job.issue
    <3>1. /\ writers' = [writers EXCEPT !["job"] = [pc |-> "list", event |-> Current]]
          /\ job.pc \in Recording
      BY <2>2 DEF Emit, Record
    <3>2. PICK r : r = [pc |-> "list", event |-> Current]
      OBVIOUS
    <3>3. StillJustified(r.event)
      BY <1>0, <1>1, <3>1, <3>2, CurrentIsJustified
    <3> QED
      BY <1>0, <1>5, <3>1, <3>2, <3>3
  <2>3. CASE Recorder("job") \/ Recorder("operator")
    BY <1>0, <1>7, <2>3
  <2>4. CASE \/ writers' = [writers EXCEPT !["job"] = Resting]
             \/ writers' = [writers EXCEPT !["operator"] = Resting]
    BY <1>0, <1>5, <2>4
  <2>5. CASE RecordByHand
    <3>1. PICK e \in artifacts, at \in {0, 1} : Record("operator", [e EXCEPT !.at = @ * at])
      BY <2>5 DEF RecordByHand
    <3>2. PICK r : r = [pc |-> "list", event |-> [e EXCEPT !.at = @ * at]]
      OBVIOUS
    <3>3. writers' = [writers EXCEPT !["operator"] = r]
      BY <3>1, <3>2 DEF Record
    <3>4. e \in Events
      BY DEF Inv, EvidenceOK
    <3>5. r.event.kind = e.kind /\ r.event.status = e.status /\ r.event.attempt = e.attempt
      BY <3>2, <3>4 DEF Events
    <3>6. StillJustified(e)
      BY <1>0, <1>1 DEF LedgerOK, RecordsOK
    <3>7. StillJustified(r.event)
      BY <3>5, <3>6 DEF StillJustified
    <3> QED
      BY <1>0, <1>5, <3>3, <3>7
  <2> QED
    BY <2>1, <2>2, <2>3, <2>4, <2>5
    DEF Next, Step, Dispatch, Rerun, Decide, Write, Check, Evidencing, Emit, List1, Post,
        Conclude, Break, Deliver, Orphan, Interfere, HandDone, Branch, Recorder, ledgerVars
<1> QED
  <2>1. (\A e \in artifacts : Justified(e))'
    BY <1>2 DEF Justified, StillJustified
  <2>2. (\A w \in Writer : writers[w].pc # "idle" => Justified(writers[w].event))'
    BY <1>6 DEF Justified, StillJustified
  <2>3. (\A w \in late : w.what = "comment" => Justified(w.event))'
    BY <1>3 DEF Justified, StillJustified
  <2> QED
    BY <2>1, <2>2, <2>3 DEF RecordsOK

LEMMA LedgerStep ==
    ASSUME Inv, Inv', LedgerOK, Next
    PROVE  LedgerOK'
<1>1. AttemptOK' /\ RecordsOK'
  BY AttemptStep, RecordsStep
<1>2. verified' \subseteq touched'
  <2>1. Check => job.attempt \in touched
    BY Checks
    DEF Inv, LedgerOK, AttemptOK, AfterTouch, AfterAnnounce, Deploying, Recording, Checking
  <2> QED
    BY <2>1, GrowsStep, HistoryOfAStep DEF LedgerOK, Grows
<1> QED
  BY <1>1, <1>2 DEF LedgerOK

\* What the issue may come to say of an attempt is backed by what the attempt did:
\* every artifact, every record that is being made, by the job or an operator, and
\* every comment that may still appear, claims only what was checked (demo.yml,
\* scripts.evidence record).
THEOREM LedgerInvariance == Spec => []LedgerOK
<1>1. Init => LedgerOK
  BY DemoAssumption
  DEF Init, LedgerInit, NoJob, LedgerOK, AttemptOK, RecordsOK, AfterAnnounce, AfterTouch,
      AfterChecks, Deploying, Recording, Checking, Resting
<1>2. ASSUME Inv, Inv', LedgerOK, [Next]_vars
      PROVE  LedgerOK'
  <2>1. CASE Next
    BY <1>2, <2>1, LedgerStep
  <2>2. CASE UNCHANGED vars
    <3>1. UNCHANGED <<comments, writers, job, late, artifacts, touched, verified, healed,
                      issued>>
      BY <2>2 DEF vars, ledgerVars, history
    <3>2. Announced' = Announced
      BY <3>1 DEF Announced, Claims
    <3>3. AttemptOK'
      BY <1>2, <3>1, <3>2 DEF LedgerOK, AttemptOK
    <3>4. RecordsOK'
      BY <1>2, <3>1 DEF LedgerOK, RecordsOK, Justified
    <3> QED
      BY <1>2, <3>1, <3>3, <3>4 DEF LedgerOK
  <2> QED
    BY <1>2, <2>1, <2>2
<1> QED
  BY <1>1, <1>2, Invariance, PTL DEF Spec

-----------------------------------------------------------------------------
(* Theorems.                                                               *)

\* The types of all state.
THEOREM TypeCorrectness == Spec => []TypeOK
<1>1. Inv /\ LedgerOK => TypeOK
  <2> SUFFICES ASSUME Inv, LedgerOK PROVE TypeOK
    OBVIOUS
  <2>1. \A c \in DOMAIN commits : commits[c].helper \in Helper
    BY CommitsFacts DEF Inv, Commits
  <2>2. head \in Commit \cup {None}
    BY CommitsFacts DEF Inv, BranchOK
  <2>3. db.schema \in {0, 1} /\ db.granted \in BOOLEAN /\ Attempts \subseteq Attempt
    BY DEF Inv, DbOK, Attempts
  <2>4. job.attempt \in 0 .. MaxAttempts /\ job.sent \in 0 .. Total
    BY DEF Inv, JobOK, Job
  <2>5. touched \cup verified \cup healed \cup issued \subseteq Attempt
    BY <2>4, DemoAssumption DEF LedgerOK, AttemptOK, Attempt
  <2>6. \A i \in DOMAIN comments : comments[i].event.attempt \in Attempt
    <3>1. \A i \in DOMAIN comments : comments[i] \in [by : Writer, event : Events]
      <4> DEFINE S == [by : Writer, event : Events]
      <4>1. comments \in Seq(S)
        BY DEF Inv, EvidenceOK
      <4> HIDE DEF S
      <4>2. \A i \in DOMAIN comments : comments[i] \in S
        BY <4>1
      <4> QED
        BY <4>2 DEF S
    <3> QED
      BY <3>1 DEF Events
  <2> QED
    BY <2>1, <2>2, <2>3, <2>4, <2>5, <2>6 DEF TypeOK
<1> QED
  BY <1>1, Invariance, LedgerInvariance, PTL

LedgerMoves == Ledger!Next \/ UNCHANGED Ledger!vars

\* A justified record may be added to the issue.
LEMMA JustifiedComment ==
    ASSUME Inv, LedgerOK, NEW w \in Writer, NEW e \in Events, Justified(e),
           comments' = Append(comments, Comment(w, e)),
           UNCHANGED <<issued, touched, verified, healed>>
    PROVE  LedgerMoves
<1>1. comments \in Seq([by : Writer, event : Events]) /\ e.attempt \in Attempt
  BY DEF Inv, EvidenceOK, Events
<1>2. \A kind, status :
        Claims(kind, status)' = Claims(kind, status) \cup
          (IF e.kind = kind /\ e.status = status THEN {e.attempt} ELSE {})
  BY <1>1, ClaimsGrow
<1>3. CASE e.kind = "deployment" /\ e.status = "pending"
  <2>1. Ledger!Announce(e.attempt)
    BY <1>2, <1>3 DEF Ledger!Announce
  <2> QED
    BY <1>1, <2>1 DEF Ledger!Next, LedgerMoves
<1>4. CASE e.kind = "deployment" /\ e.status = "succeeded"
  <2>1. Ledger!ClaimDeployment(e.attempt)
    BY <1>2, <1>4 DEF Ledger!ClaimDeployment, Justified
  <2> QED
    BY <1>1, <2>1 DEF Ledger!Next, LedgerMoves
<1>5. CASE e.kind = "recovery" /\ e.status = "succeeded"
  <2>1. Ledger!ClaimRecovery(e.attempt)
    BY <1>2, <1>5 DEF Ledger!ClaimRecovery, Justified
  <2> QED
    BY <1>1, <2>1 DEF Ledger!Next, LedgerMoves
<1>6. CASE /\ ~(e.kind = "deployment" /\ e.status \in {"pending", "succeeded"})
           /\ ~(e.kind = "recovery" /\ e.status = "succeeded")
  BY <1>2, <1>6 DEF Ledger!vars, LedgerMoves
<1> QED
  BY <1>3, <1>4, <1>5, <1>6

LEMMA RefinesStep ==
    ASSUME Inv, LedgerOK, Next
    PROVE  LedgerMoves
<1>1. CASE UNCHANGED comments
  <2>1. \A kind, status : UNCHANGED Claims(kind, status)
    BY <1>1 DEF Claims
  <2>2. CASE UNCHANGED <<issued, touched, verified, healed>>
    BY <2>1, <2>2 DEF LedgerMoves, Ledger!vars
  <2>3. CASE Dispatch \/ Rerun
    <3>1. /\ UNCHANGED <<touched, verified, healed>>
          /\ issued' = IF job'.issue THEN issued \cup {job'.attempt} ELSE issued
          /\ job'.attempt = job.attempt + 1 /\ job.attempt < MaxAttempts
      BY <2>3, NewAttempt DEF Dispatch, Rerun, Attach, Inv
    <3>2. CASE ~job'.issue
      BY <2>2, <3>1, <3>2
    <3>3. CASE job'.issue
      <4>1. PICK a \in Attempt : a = job'.attempt
        BY <3>1, DemoAssumption DEF Attempt, Inv, JobOK, Job
      <4>2. a \notin touched
        BY <3>1, <4>1 DEF LedgerOK, AttemptOK, Inv, JobOK, Job
      <4>3. Ledger!Attach(a)
        BY <2>1, <3>1, <3>3, <4>1, <4>2 DEF Ledger!Attach
      <4> QED
        BY <4>1, <4>3 DEF Ledger!Next, LedgerMoves
    <3> QED
      BY <3>2, <3>3
  <2>4. CASE Write
    <3>1. UNCHANGED <<issued, verified, healed>>
      BY <2>4 DEF Write
    <3>2. CASE UNCHANGED touched
      BY <2>2, <3>1, <3>2
    <3>3. CASE At("upgrade") /\ touched' = touched \cup {job.attempt}
      <4>1. job.attempt \in Attempt
        BY <3>3 DEF At, Inv, JobOK
      <4>2. job.attempt \in issued => job.attempt \in Announced
        BY <3>3 DEF LedgerOK, AttemptOK, AfterAnnounce, Deploying, At
      <4>3. Ledger!Touch(job.attempt)
        BY <2>1, <3>1, <3>3, <4>2 DEF Ledger!Touch, Announced
      <4> QED
        BY <4>1, <4>3 DEF Ledger!Next, LedgerMoves
    <3> QED
      BY <3>2, <3>3, HistoryOfAStep
  <2>5. CASE Check
    <3>1. UNCHANGED <<issued, touched>>
      BY <2>5 DEF Check
    <3>2. CASE UNCHANGED <<verified, healed>>
      BY <2>2, <3>1, <3>2
    <3>3. CASE /\ verified' = verified \cup {job.attempt}
               /\ healed' = healed \/ healed' = healed \cup {job.attempt}
      <4>1. job.attempt \in touched /\ job.attempt \in Attempt
        BY <2>5, Checks DEF LedgerOK, AttemptOK, AfterTouch, AfterAnnounce, Deploying,
                            Recording, Checking, Inv, JobOK
      <4>2. Ledger!Verify(job.attempt)
        BY <2>1, <3>1, <3>3, <4>1 DEF Ledger!Verify
      <4> QED
        BY <4>1, <4>2 DEF Ledger!Next, LedgerMoves
    <3> QED
      BY <3>2, <3>3, HistoryOfAStep
  <2> QED
    BY <2>2, <2>3, <2>4, <2>5, HistoryOfAStep
<1>2. ASSUME NEW w \in Writer, writers[w].pc \in {"list", "post"},
             writers[w].event \in Events,
             comments' = Append(comments, Comment(w, writers[w].event)),
             UNCHANGED <<issued, touched, verified, healed>>
      PROVE  LedgerMoves
  <2>1. PICK e \in Events : e = writers[w].event
    BY <1>2
  <2>2. Justified(e)
    BY <1>2, <2>1 DEF LedgerOK, RecordsOK
  <2> QED
    BY <1>2, <2>1, <2>2, JustifiedComment
<1>3. ASSUME NEW w \in late, w.what = "comment", w.event \in Events,
             comments' = Append(comments, Comment("job", w.event)),
             UNCHANGED <<issued, touched, verified, healed>>
      PROVE  LedgerMoves
  <2>1. PICK e \in Events : e = w.event
    BY <1>3
  <2>2. Justified(e)
    BY <1>3, <2>1 DEF LedgerOK, RecordsOK
  <2>3. "job" \in Writer
    BY DemoAssumption
  <2> QED
    BY <1>3, <2>1, <2>2, <2>3, JustifiedComment
<1> QED
  BY <1>1, <1>2, <1>3, CommentsOfAStep

\* For every number of attempts, commits, faults and intrusions, the issue
\* claims only what RecoveryLedger permits, whichever of the files that attempts
\* have written an operator records by hand (demo.yml, scripts.evidence).
THEOREM Refinement == Spec => ImplementsRecoveryLedger
<1>1. Init => Ledger!Init
  BY DEF Init, LedgerInit, Ledger!Init, Claims, Range
<1>2. ASSUME Inv, LedgerOK, [Next]_vars
      PROVE  [Ledger!Next]_(Ledger!vars)
  <2>1. CASE Next
    BY <1>2, <2>1, RefinesStep DEF LedgerMoves
  <2>2. CASE UNCHANGED vars
    <3>1. UNCHANGED <<comments, touched, verified, healed, issued>>
      BY <2>2 DEF vars, ledgerVars, history
    <3> QED
      BY <3>1 DEF Claims, Ledger!vars
  <2> QED
    BY <1>2, <2>1, <2>2
<1> QED
  BY <1>1, <1>2, Invariance, LedgerInvariance, PTL
  DEF Spec, ImplementsRecoveryLedger, Ledger!Spec

-----------------------------------------------------------------------------
(* The timeline: what its loop keeps of the comments that it reads, for a  *)
(* listing of any length.                                                  *)

\* A set of numbers has a smallest one: the induction over a listing.
LEMMA SmallestNat ==
    ASSUME NEW S \in SUBSET Nat, S # {}
    PROVE  \E m \in S : \A k \in S : m <= k
<1>1. IsWellFoundedOn({ss \in Nat \X Nat : ss[1] < ss[2]}, Nat)
  BY NatLessThanWellFounded DEF OpToRel
<1>2. PICK m \in S : \A k \in S : <<k, m>> \notin {ss \in Nat \X Nat : ss[1] < ss[2]}
  BY <1>1, WFMin
<1>3. \A k \in S : ~(k < m)
  BY <1>2
<1> QED
  BY <1>3

\* f is the fold of Read over the records at the indices of any set.
Folds(f, base, seq, D) ==
    f = [s \in SUBSET D |->
           IF s = {} THEN base ELSE Read(f[s \ {Max(s)}], seq[Max(s)])]

LEMMA LastIndex ==
    ASSUME NEW k \in Nat, NEW s \in SUBSET (1 .. k), k \in s
    PROVE  Max(s) = k
<1>1. \A x \in s : x \in Nat /\ k >= x
  OBVIOUS
<1>2. \A x \in s : (\A y \in s : x >= y) => x = k
  BY <1>1
<1> QED
  BY <1>1, <1>2 DEF Max

\* There is such a fold: one more record extends the fold of those before.
LEMMA FoldExists ==
    ASSUME NEW base, NEW seq, NEW n \in Nat
    PROVE  \E f : Folds(f, base, seq, 1 .. n)
<1> DEFINE Undefined == {k \in Nat : \A f : ~Folds(f, base, seq, 1 .. k)}
<1> SUFFICES ASSUME Undefined # {} PROVE FALSE
  OBVIOUS
<1>1. PICK m \in Undefined : \A k \in Undefined : m <= k
  BY SmallestNat
<1>2. m # 0
  <2>1. PICK f : f = [s \in SUBSET (1 .. 0) |-> base]
    OBVIOUS
  <2>2. \A s \in SUBSET (1 .. 0) : s = {}
    OBVIOUS
  <2>3. Folds(f, base, seq, 1 .. 0)
    BY <2>1, <2>2 DEF Folds
  <2> QED
    BY <2>3
<1>3. PICK k \in Nat : m = k + 1
  <2>1. m - 1 \in Nat /\ m = (m - 1) + 1
    BY <1>2
  <2> QED
    BY <2>1
<1>4. PICK f : Folds(f, base, seq, 1 .. k)
  BY <1>1, <1>3
<1>5. PICK g : g = [s \in SUBSET (1 .. m) |->
                      IF m \in s THEN Read(f[s \ {m}], seq[m]) ELSE f[s]]
  OBVIOUS
<1>6. \A s \in SUBSET (1 .. m) : m \notin s => s \in SUBSET (1 .. k)
  BY <1>3
<1>7. ASSUME NEW s \in SUBSET (1 .. m)
      PROVE  g[s] = IF s = {} THEN base ELSE Read(g[s \ {Max(s)}], seq[Max(s)])
  <2>1. CASE m \in s
    <3>1. Max(s) = m
      BY <2>1, LastIndex
    <3>2. s \ {m} \in SUBSET (1 .. m) /\ m \notin s \ {m}
      OBVIOUS
    <3>3. g[s \ {m}] = f[s \ {m}]
      BY <1>5, <3>2
    <3> QED
      BY <1>5, <2>1, <3>1, <3>3
  <2>2. CASE m \notin s
    <3>1. s \in SUBSET (1 .. k)
      BY <1>6, <2>2
    <3>2. f[s] = IF s = {} THEN base ELSE Read(f[s \ {Max(s)}], seq[Max(s)])
      BY <1>4, <3>1 DEF Folds
    <3>3. g[s] = f[s]
      BY <1>5, <2>2
    <3>4. g[s \ {Max(s)}] = f[s \ {Max(s)}]
      <4>1. s \ {Max(s)} \in SUBSET (1 .. m) /\ m \notin s \ {Max(s)}
        BY <2>2
      <4> QED
        BY <1>5, <4>1
    <3> QED
      BY <3>2, <3>3, <3>4
  <2> QED
    BY <2>1, <2>2
<1>8. g = [s \in SUBSET (1 .. m) |-> g[s]]
  BY <1>5
<1>9. Folds(g, base, seq, 1 .. m)
  BY <1>7, <1>8 DEF Folds
<1> QED
  BY <1>1, <1>9

\* What timeline has seen at the end of a listing.
NothingSeen == [events |-> {}, conflicts |-> {}]
Seen(listing) ==
    (CHOOSE f : Folds(f, NothingSeen, listing, DOMAIN listing))[DOMAIN listing]

LEMMA RowStateSeen ==
    ASSUME NEW listing, NEW id
    PROVE  RowState(listing, id) =
             IF id \in Seen(listing).conflicts THEN "unknown"
             ELSE (CHOOSE x \in Seen(listing).events : x.id = id).status
BY DEF RowState, FoldLeft, MapThenFoldSet, Seen, Folds, NothingSeen

\* The loop of timeline: what it has seen after each of the comments.
LEMMA Loop ==
    ASSUME NEW n \in Nat, NEW listing, DOMAIN listing = 1 .. n
    PROVE  \E g : /\ g[0] = NothingSeen
                  /\ \A i \in 1 .. n : g[i] = Read(g[i - 1], listing[i])
                  /\ Seen(listing) = g[n]
<1> PICK base : base = NothingSeen
  OBVIOUS
<1>1. PICK f : f = CHOOSE h : Folds(h, base, listing, 1 .. n)
  OBVIOUS
<1>2. Folds(f, base, listing, 1 .. n)
  BY <1>1, FoldExists
<1>4. PICK g : g = [i \in 0 .. n |-> f[1 .. i]]
  OBVIOUS
<1>5. g[0] = base
  <2>1. 1 .. 0 = {} /\ 1 .. 0 \in SUBSET (1 .. n) /\ 0 \in 0 .. n
    OBVIOUS
  <2>2. f[1 .. 0] = base
    BY <1>2, <2>1 DEF Folds
  <2> QED
    BY <1>4, <2>1, <2>2
<1>6. ASSUME NEW i \in 1 .. n
      PROVE  g[i] = Read(g[i - 1], listing[i])
  <2>1. i \in 1 .. i /\ 1 .. i \in SUBSET (1 .. n) /\ (1 .. i) \ {i} = 1 .. i - 1
        /\ i \in 0 .. n /\ i - 1 \in 0 .. n /\ i \in Nat
    OBVIOUS
  <2>2. Max(1 .. i) = i
    BY <2>1, LastIndex
  <2>3. f[1 .. i] = Read(f[1 .. i - 1], listing[i])
    BY <1>2, <2>1, <2>2 DEF Folds
  <2> QED
    BY <1>4, <2>1, <2>3
<1>7. Seen(listing) = g[n]
  BY <1>1, <1>4 DEF Seen
<1> QED
  BY <1>5, <1>6, <1>7

\* Two records of one event_id that differ.
Clash(R, id) == \E x, y \in R : x.id = id /\ y.id = id /\ x # y
IsHandoff(R, id) == \E x \in R : x.id = id /\ x.kind = "handoff"

\* An event_id begins with its kind, so its records are of one kind.
OneKind(R) == \A x, y \in R : x.id = y.id /\ x.kind = "handoff" => y.kind = "handoff"

\* What timeline keeps of the records R that it has seen.
Keeps(events, conflicts, R) ==
    /\ events \subseteq R
    /\ \A e \in R : \E x \in events : x.id = e.id
    /\ \A x, y \in events : x.id = y.id => x = y
    /\ \A id : id \in conflicts <=> Clash(R, id) /\ ~IsHandoff(R, id)
    /\ \A e \in R : e.kind = "handoff" /\ e.status = "accepted" =>
         \E x \in events : x.id = e.id /\ x.status = "accepted"
Tells(seen, R) ==
    /\ seen = [events |-> seen.events, conflicts |-> seen.conflicts]
    /\ Keeps(seen.events, seen.conflicts, R)

\* One comment more.
LEMMA ReadTells ==
    ASSUME NEW seen, NEW R, Tells(seen, R), NEW e, OneKind(R \cup {e})
    PROVE  Tells(Read(seen, e), R \cup {e})
<1> PICK E, C : E = seen.events /\ C = seen.conflicts
  OBVIOUS
<1> PICK S : S = R \cup {e}
  OBVIOUS
<1> PICK old : old = {x \in E : x.id = e.id}
  OBVIOUS
<1>0. /\ seen = [events |-> E, conflicts |-> C]
      /\ E \subseteq R
      /\ \A r \in R : \E x \in E : x.id = r.id
      /\ \A x, y \in E : x.id = y.id => x = y
      /\ \A id : id \in C <=> Clash(R, id) /\ ~IsHandoff(R, id)
      /\ \A r \in R : r.kind = "handoff" /\ r.status = "accepted" =>
           \E x \in E : x.id = r.id /\ x.status = "accepted"
  BY DEF Tells, Keeps
<1>1. ASSUME NEW F, NEW D, Keeps(F, D, S), Read(seen, e) = [events |-> F, conflicts |-> D]
      PROVE  Tells(Read(seen, e), S)
  <2>1. Read(seen, e).events = F /\ Read(seen, e).conflicts = D
    BY <1>1
  <2> QED
    BY <1>1, <2>1 DEF Tells
<1>2. CASE old = {}
  <2>1. Read(seen, e) = [events |-> E \cup {e}, conflicts |-> C]
    BY <1>0, <1>2 DEF Read
  <2>2. \A r \in R : r.id # e.id
    BY <1>0, <1>2
  <2>3. \A id : /\ Clash(S, id) <=> Clash(R, id)
                /\ Clash(R, id) => id # e.id
                /\ id # e.id => (IsHandoff(S, id) <=> IsHandoff(R, id))
    BY <2>2 DEF Clash, IsHandoff
  <2>4. \A id : id \in C <=> Clash(S, id) /\ ~IsHandoff(S, id)
    BY <1>0, <2>3
  <2>5. Keeps(E \cup {e}, C, S)
    BY <1>0, <2>2, <2>4 DEF Keeps
  <2> QED
    BY <1>1, <2>1, <2>5
<1>3. CASE old = {e}
  <2>1. Read(seen, e) = seen /\ S = R
    BY <1>0, <1>3 DEF Read
  <2> QED
    BY <2>1
<1>4. ASSUME NEW o \in E, o.id = e.id, o # e
      PROVE  Tells(Read(seen, e), S)
  <2>0. old = {o} /\ old # {} /\ old # {e} /\ o \in R
    BY <1>0, <1>4
  <2>1. Clash(S, e.id) /\ \A id : id # e.id => (Clash(S, id) <=> Clash(R, id))
    BY <1>4, <2>0 DEF Clash
  <2>2. \A id : IsHandoff(S, id) <=> IsHandoff(R, id)
    BY <1>4, <2>0 DEF IsHandoff, OneKind
  <2>3. CASE SameHandoff(o, e)
    <3>1. IsHandoff(S, e.id) /\ IsHandoff(R, e.id)
      BY <1>4, <2>0, <2>3 DEF IsHandoff, SameHandoff
    <3>2. \A id : id \in C <=> Clash(S, id) /\ ~IsHandoff(S, id)
      BY <1>0, <2>1, <2>2, <3>1
    <3>3. CASE e.status = "accepted" /\ o.status # "accepted"
      <4>1. Read(seen, e) = [events |-> (E \ {o}) \cup {e}, conflicts |-> C]
        BY <1>0, <2>0, <2>3, <3>3 DEF Read
      <4>2. \A r \in S : \E x \in (E \ {o}) \cup {e} : x.id = r.id
        BY <1>0, <1>4
      <4>3. \A x, y \in (E \ {o}) \cup {e} : x.id = y.id => x = y
        BY <1>0, <1>4
      <4>4. \A r \in S : r.kind = "handoff" /\ r.status = "accepted" =>
              \E x \in (E \ {o}) \cup {e} : x.id = r.id /\ x.status = "accepted"
        BY <1>0, <1>4, <3>3
      <4>5. Keeps((E \ {o}) \cup {e}, C, S)
        BY <1>0, <3>2, <4>2, <4>3, <4>4 DEF Keeps
      <4> QED
        BY <1>1, <4>1, <4>5
    <3>4. CASE ~(e.status = "accepted" /\ o.status # "accepted")
      <4>1. Read(seen, e) = [events |-> E, conflicts |-> C]
        BY <1>0, <2>0, <2>3, <3>4 DEF Read
      <4>2. e.status = "accepted" => o.id = e.id /\ o.status = "accepted"
        BY <1>4, <3>4
      <4>3. Keeps(E, C, S)
        BY <1>0, <1>4, <3>2, <4>2 DEF Keeps
      <4> QED
        BY <1>1, <4>1, <4>3
    <3> QED
      BY <3>3, <3>4
  <2>4. CASE ~SameHandoff(o, e)
    <3>1. Read(seen, e) = [events |-> E, conflicts |-> C \cup {e.id}]
      BY <1>0, <2>0, <2>4 DEF Read
    <3>2. ~IsHandoff(S, e.id)
      BY <1>4, <2>0, <2>4 DEF IsHandoff, OneKind, SameHandoff
    <3>3. \A id : id \in C \cup {e.id} <=> Clash(S, id) /\ ~IsHandoff(S, id)
      BY <1>0, <2>1, <2>2, <3>2
    <3>4. e.kind # "handoff"
      BY <3>2 DEF IsHandoff
    <3>5. Keeps(E, C \cup {e.id}, S)
      BY <1>0, <1>4, <3>3, <3>4 DEF Keeps
    <3> QED
      BY <1>1, <3>1, <3>5
  <2> QED
    BY <2>3, <2>4
<1>5. old = {} \/ old = {e} \/ \E o \in E : o.id = e.id /\ o # e
  OBVIOUS
<1> QED
  BY <1>2, <1>3, <1>4, <1>5

\* The whole listing.
LEMMA ListingTells ==
    ASSUME NEW n \in Nat, NEW listing, DOMAIN listing = 1 .. n, OneKind(Range(listing))
    PROVE  Tells(Seen(listing), Range(listing))
<1> DEFINE Upto(i) == {listing[j] : j \in 1 .. i}
<1>1. PICK g : /\ g[0] = NothingSeen
               /\ \A i \in 1 .. n : g[i] = Read(g[i - 1], listing[i])
               /\ Seen(listing) = g[n]
  BY Loop
<1>2. \A i \in 0 .. n : Upto(i) \subseteq Range(listing)
  BY DEF Range
<1>3. Upto(n) = Range(listing)
  BY DEF Range
<1>4. Tells(g[0], Upto(0))
  <2>1. Upto(0) = {}
    OBVIOUS
  <2>2. /\ g[0] = [events |-> {}, conflicts |-> {}]
        /\ g[0].events = {} /\ g[0].conflicts = {}
    BY <1>1 DEF NothingSeen
  <2> HIDE DEF Upto
  <2> QED
    BY <2>1, <2>2 DEF Tells, Keeps, Clash
<1>5. ASSUME NEW i \in 1 .. n, Tells(g[i - 1], Upto(i - 1))
      PROVE  Tells(g[i], Upto(i))
  <2>1. Upto(i) = Upto(i - 1) \cup {listing[i]}
    OBVIOUS
  <2>2. OneKind(Upto(i))
    BY <1>2 DEF OneKind
  <2> HIDE DEF Upto
  <2> QED
    BY <1>1, <1>5, <2>1, <2>2, ReadTells
<1> DEFINE Untold == {i \in 0 .. n : ~Tells(g[i], Upto(i))}
<1>6. Untold = {}
  <2> SUFFICES ASSUME Untold # {} PROVE FALSE
    OBVIOUS
  <2>1. PICK m \in Untold : \A i \in Untold : m <= i
    <3>1. Untold \in SUBSET Nat
      OBVIOUS
    <3> HIDE DEF Untold
    <3> QED
      BY <3>1, SmallestNat
  <2> HIDE DEF Upto
  <2>2. m \in 1 .. n
    BY <1>4, <2>1
  <2>3. m - 1 \in 0 .. n /\ m - 1 \notin Untold
    BY <2>1, <2>2
  <2> QED
    BY <1>5, <2>1, <2>2, <2>3
<1>7. Tells(g[n], Upto(n))
  <2> HIDE DEF Upto
  <2> QED
    BY <1>6
<1> QED
  BY <1>1, <1>3, <1>7

\* The records of a listing are finite.
LEMMA FiniteListing ==
    ASSUME NEW n \in Nat, NEW listing, DOMAIN listing = 1 .. n
    PROVE  IsFiniteSet(Range(listing))
<1>1. PICK f : f = [i \in 1 .. n |-> listing[i]]
  OBVIOUS
<1>2. f \in Surjection(1 .. n, Range(listing))
  BY <1>1 DEF Surjection, Range
<1>3. IsFiniteSet(1 .. n)
  BY FS_Interval
<1> QED
  BY <1>2, <1>3, FS_Surjection

\* For every listing, of any length and in any order, the row of a deployment
\* or a recovery shows the state that all its records agree on, and "unknown"
\* as soon as two of them differ; the row of a handoff is accepted if and only
\* if some record says so (timeline).
THEOREM RowsTell ==
    ASSUME NEW n \in Nat, NEW listing, DOMAIN listing = 1 .. n, OneKind(Range(listing)),
           NEW e \in Range(listing)
    PROVE  /\ e.kind # "handoff" => RowState(listing, e.id) = RowOf(listing, e.id)
           /\ e.kind = "handoff" =>
                (RowState(listing, e.id) = "accepted" <=>
                   \E x \in Range(listing) : x.id = e.id /\ x.status = "accepted")
<1> PICK R, id : R = Range(listing) /\ id = e.id
  OBVIOUS
<1>1. PICK seen : seen = Seen(listing)
  OBVIOUS
<1>2. Tells(seen, R)
  BY <1>1, ListingTells
<1>3. PICK o \in seen.events : o.id = id
  BY <1>2 DEF Tells, Keeps
<1>4. (CHOOSE x \in seen.events : x.id = id) = o
  BY <1>2, <1>3 DEF Tells, Keeps
<1>5. RowState(listing, id) = IF id \in seen.conflicts THEN "unknown" ELSE o.status
  <2>1. RowState(listing, id) =
          IF id \in Seen(listing).conflicts THEN "unknown"
          ELSE (CHOOSE x \in Seen(listing).events : x.id = id).status
    BY RowStateSeen
  <2>2. RowState(listing, id) =
          IF id \in seen.conflicts THEN "unknown"
          ELSE (CHOOSE x \in seen.events : x.id = id).status
    BY <1>1, <2>1
  <2> QED
    BY <1>4, <2>2
<1>6. o \in R /\ (e.kind = "handoff" <=> IsHandoff(R, id))
  BY <1>2, <1>3 DEF Tells, Keeps, IsHandoff, OneKind
<1>7. ASSUME e.kind # "handoff"
      PROVE  RowState(listing, id) = RowOf(listing, id)
  <2> DEFINE records == {x \in R : x.id = id}
  <2>1. IsFiniteSet(records)
    <3>1. IsFiniteSet(R) /\ records \in SUBSET R
      BY FiniteListing
    <3> QED
      BY <3>1, FS_Subset
  <2>2. id \in seen.conflicts <=> Clash(R, id)
    BY <1>2, <1>6, <1>7 DEF Tells, Keeps
  <2>3. CASE Clash(R, id)
    <3>1. \A x : records # {x}
      BY <2>3 DEF Clash
    <3>2. Cardinality(records) # 1
      <4> HIDE DEF records
      <4> QED
        BY <2>1, <3>1, FS_Singleton
    <3> QED
      BY <1>5, <2>2, <2>3, <3>2 DEF RowOf
  <2>4. CASE ~Clash(R, id)
    <3>1. records = {o}
      BY <1>3, <1>6, <2>4 DEF Clash
    <3>2. Cardinality(records) = 1 /\ (CHOOSE x \in records : TRUE) = o
      <4>1. Cardinality({o}) = 1
        BY FS_Singleton
      <4> QED
        BY <3>1, <4>1
    <3> QED
      BY <1>5, <2>2, <2>4, <3>2 DEF RowOf
  <2> QED
    BY <2>3, <2>4
<1>8. ASSUME e.kind = "handoff"
      PROVE  RowState(listing, id) = "accepted" <=>
               \E x \in R : x.id = id /\ x.status = "accepted"
  <2>1. id \notin seen.conflicts
    BY <1>2, <1>6, <1>8 DEF Tells, Keeps
  <2>2. (\E x \in R : x.id = id /\ x.status = "accepted") => o.status = "accepted"
    <3> SUFFICES ASSUME NEW x \in R, x.id = id, x.status = "accepted"
                 PROVE  o.status = "accepted"
      OBVIOUS
    <3>1. x.kind = "handoff"
      BY <1>8 DEF OneKind
    <3> QED
      BY <1>2, <1>3, <3>1 DEF Tells, Keeps
  <2> QED
    BY <1>3, <1>5, <1>6, <2>1, <2>2
<1> QED
  BY <1>7, <1>8

\* For all answers of GitHub about the checks of a pull request: its row shows
\* succeeded only if every check is known, has ended and does not object; and
\* no check more that has failed or has not ended turns a row into one that is
\* fine (pull_request_rows).
THEOREM ChecksTell ==
    ASSUME NEW statuses, NEW checks, statuses.total \in Nat, checks.total \in Nat
    PROVE  LET row == ChecksState(statuses, checks) IN
           /\ row = "succeeded" =>
                /\ Cardinality(checks.runs) = checks.total
                /\ \A r \in checks.runs : r.status = "completed" /\ r.conclusion \in Fine
                /\ statuses.total > 0 => statuses.state = "success"
           /\ row \in {"succeeded", "skipped", "missing"} =>
                \A r : r.conclusion \notin Fine =>
                  ChecksState(statuses, [runs |-> checks.runs \cup {r},
                                         total |-> checks.total + 1])
                    \notin {"succeeded", "skipped", "missing"}
<1>1. ChecksState(statuses, checks) = "succeeded" =>
        /\ Cardinality(checks.runs) = checks.total
        /\ \A r \in checks.runs : r.status = "completed" /\ r.conclusion \in Fine
        /\ statuses.total > 0 => statuses.state = "success"
  BY DEF ChecksState
<1>2. ASSUME NEW r, r.conclusion \notin Fine
      PROVE  ChecksState(statuses, [runs |-> checks.runs \cup {r},
                                    total |-> checks.total + 1])
               \notin {"succeeded", "skipped", "missing"}
  <2>1. PICK more : more = [runs |-> checks.runs \cup {r}, total |-> checks.total + 1]
    OBVIOUS
  <2>2. r \in more.runs /\ statuses.total + more.total # 0
    BY <2>1
  <2>3. ChecksState(statuses, more) \notin {"succeeded", "skipped", "missing"}
    BY <1>2, <2>2 DEF ChecksState
  <2> QED
    BY <2>1, <2>3
<1> QED
  BY <1>1, <1>2

LEMMA Elements ==
    ASSUME NEW S, NEW seq \in Seq(S)
    PROVE  \A i \in DOMAIN seq : seq[i] \in S
<1>1. DOMAIN seq = 1 .. Len(seq) /\ Len(seq) \in Nat
  OBVIOUS
<1>2. \A i \in 1 .. Len(seq) : seq[i] \in S
  OBVIOUS
<1> QED
  BY <1>1, <1>2

\* Listings of bounded length are sequences.
LEMMA BoundedListing ==
    ASSUME NEW S, NEW n \in Nat, NEW listing \in BoundedSeq(S, n)
    PROVE  \E k \in Nat : DOMAIN listing = 1 .. k /\ Range(listing) \subseteq S
<1>1. PICK k \in 0 .. n : listing \in [1 .. k -> S]
  BY DEF BoundedSeq, SeqOf
<1> QED
  BY <1>1 DEF Range

\* On the listings that its run enumerates, timeline is what RowsTell says.
LEMMA ListingsTell == EveryListing
<1>1. ASSUME NEW listing \in BoundedSeq(Evidence, 3), listing # <<>>
      PROVE  RowState(listing, "e") = RowOf(listing, "e")
  <2>1. PICK k \in Nat : DOMAIN listing = 1 .. k /\ Range(listing) \subseteq Evidence
    BY BoundedListing
  <2>2. PICK e : e \in Range(listing)
    <3>1. k # 0
      BY <1>1, <2>1 DEF BoundedSeq, SeqOf
    <3>2. 1 \in DOMAIN listing
      BY <2>1, <3>1
    <3> QED
      BY <3>2 DEF Range
  <2>3. \A x \in Range(listing) : x.id = "e" /\ x.kind = "recovery"
    BY <2>1 DEF Evidence
  <2>4. OneKind(Range(listing))
    BY <2>3 DEF OneKind
  <2> QED
    BY <2>1, <2>2, <2>3, <2>4, RowsTell
<1>2. ASSUME NEW listing \in BoundedSeq(Handoff, 3), listing # <<>>
      PROVE  RowState(listing, "h") = "accepted"
               <=> \E i \in DOMAIN listing : listing[i].status = "accepted"
  <2>1. PICK k \in Nat : DOMAIN listing = 1 .. k /\ Range(listing) \subseteq Handoff
    BY BoundedListing
  <2>2. PICK e : e \in Range(listing)
    <3>1. k # 0
      BY <1>2, <2>1 DEF BoundedSeq, SeqOf
    <3>2. 1 \in DOMAIN listing
      BY <2>1, <3>1
    <3> QED
      BY <3>2 DEF Range
  <2>3. \A x \in Range(listing) : x.id = "h" /\ x.kind = "handoff"
    BY <2>1 DEF Handoff
  <2>4. OneKind(Range(listing))
    BY <2>3 DEF OneKind
  <2>5. RowState(listing, "h") = "accepted"
          <=> \E x \in Range(listing) : x.id = "h" /\ x.status = "accepted"
    BY <2>1, <2>2, <2>3, <2>4, RowsTell
  <2>6. (\E x \in Range(listing) : x.id = "h" /\ x.status = "accepted")
          <=> \E i \in DOMAIN listing : listing[i].status = "accepted"
    BY <2>3 DEF Range
  <2> QED
    BY <2>5, <2>6
<1> QED
  BY <1>1, <1>2 DEF EveryListing

LEMMA RowsOfChecksTell == EveryChecksRow
<1>1. \A s \in Statuses : s.total \in Nat
  BY DEF Statuses
<1>2. \A c \in CheckRuns : c.total \in Nat
  BY DEF CheckRuns
<1> QED
  BY <1>1, <1>2, ChecksTell DEF EveryChecksRow

\* The issue's timeline tells the truth in every state of the demo release,
\* whichever processes have recorded on it and in whatever order
\* (record_event, timeline, pull_request_rows).
THEOREM TimelineTruth == Spec => []TimelineTellsTheTruth
<1>1. Inv => TimelineTellsTheTruth
  <2> SUFFICES ASSUME Inv
               PROVE  \A id \in {e.id : e \in Range(Listing)} :
                        RowState(Listing, id) = RowOf(Listing, id)
    BY ListingsTell, RowsOfChecksTell DEF TimelineTellsTheTruth
  <2>1. comments \in Seq([by : Writer, event : Events])
    BY DEF Inv, EvidenceOK
  <2> PICK listing : listing = Listing
    OBVIOUS
  <2>2. PICK n \in Nat : DOMAIN listing = 1 .. n
    BY <2>1 DEF Listing
  <2>3. \A e \in Range(listing) : e.kind # "handoff"
    <3>1. \A i \in DOMAIN comments : comments[i] \in [by : Writer, event : Events]
      BY <2>1, Elements
    <3>2. \A i \in DOMAIN comments : comments[i].event \in Events
      BY <3>1
    <3>3. \A i \in DOMAIN comments : comments[i].event.kind \in {"deployment", "recovery"}
      BY <3>2 DEF Events
    <3> QED
      BY <3>3 DEF Listing, Range
  <2>4. OneKind(Range(listing))
    BY <2>3 DEF OneKind
  <2>5. ASSUME NEW e \in Range(listing)
        PROVE  RowState(listing, e.id) = RowOf(listing, e.id)
    BY <2>2, <2>3, <2>4, RowsTell
  <2> QED
    BY <2>5
<1> QED
  BY <1>1, Invariance, PTL
=============================================================================
