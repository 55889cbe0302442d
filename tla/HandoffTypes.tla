---------------------------- MODULE HandoffTypes ----------------------------
(***************************************************************************)
(* Type correctness of Handoff, for every set of runs, issues and          *)
(* documents and every bound on interventions and faults.                  *)
(***************************************************************************)
EXTENDS Handoff, TLAPS

LEMMA ConstantFacts ==
    /\ FingerprintOf \in [Document -> Fingerprint]
    /\ None \notin Issue /\ None \notin Document /\ None \notin Intent
    /\ None \notin Comment /\ None \notin Status
    /\ Polls \in Nat \ {0} /\ 0 \in 0 .. Polls
    /\ MaxFaults \in Nat /\ MaxEnvironment \in Nat
BY HandoffAssumption DEF HandoffAssumption

-----------------------------------------------------------------------------
(* Type correctness.  TypeOK alone is not inductive: what a run writes to   *)
(* GitHub is well typed because its local variables are set by the time.   *)

\* The states of a run in which its issue and document are known.
Located == Deciding \cup Reporting \cup {"done", "published"}

LocalOK(s) ==
    /\ s \in RunState
    /\ s.pc \in Located => s.issue \in Issue /\ s.doc \in Document
    /\ s.pc \in {"reserve-issue", "reread", "recheck", "assign"}
         => s.intent \in Intent
    /\ s.pc \in {"publish", "list", "post", "patch", "label"}
         => s.status \in Status
    /\ s.pc = "patch" => s.old \in Comment

ITypeOK == TypeOK /\ \A r \in Run : LocalOK(runs[r])

\* What a step does to the runs is well typed if the stepping run's next local
\* state is.
LEMMA BecomeOK ==
    ASSUME ITypeOK, NEW r \in Run, NEW s, LocalOK(s), Become(r, s)
    PROVE  /\ runs' \in [Run -> RunState]
           /\ \A q \in Run : LocalOK(runs'[q])
BY DEF ITypeOK, TypeOK, LocalOK, Become

LEMMA RaiseOK ==
    ASSUME NEW p \in {"idle"} \cup Ended, p \notin {"done", "published"}
    PROVE  LocalOK([Blank EXCEPT !.pc = p])
BY ConstantFacts DEF Blank, RunState, LocalOK, Ended, Located, Deciding, Reporting

LEMMA OwnedOK ==
    ASSUME NEW s \in RunState, s.intent \in Intent, s.issue \in Issue,
           s.doc \in Document
    PROVE  LocalOK(Owned(s))
BY DEF Owned, Report, LocalOK, RunState, Located, Deciding, Reporting, Status

LEMMA ReportOK ==
    ASSUME NEW s \in RunState, s.issue \in Issue, s.doc \in Document,
           NEW status \in Status
    PROVE  LocalOK(Report(s, status))
BY DEF Report, LocalOK, RunState, Located, Deciding, Reporting

LEMMA RecordedOK ==
    ASSUME NEW s \in RunState, s.issue \in Issue, s.doc \in Document,
           s.status \in Status
    PROVE  LocalOK(Recorded(s))
<1> DEFINE p == IF s.status = "accepted" THEN "label" ELSE "published"
           t == [s EXCEPT !.pc = p, !.old = None]
<1>1. p \in {"label", "published"}
  OBVIOUS
<1>2. t \in RunState
  BY <1>1 DEF RunState, Reporting, Ended
<1>3. t.pc = p /\ t.issue = s.issue /\ t.doc = s.doc /\ t.status = s.status
  BY DEF RunState
<1>4. LocalOK(t)
  <2> HIDE DEF p, t
  <2>1. QED BY <1>1, <1>2, <1>3 DEF LocalOK
<1>5. QED BY <1>4 DEF Recorded

\* A step to a program counter that needs no more than was known before.
LEMMA GotoOK ==
    ASSUME NEW s, LocalOK(s), s.pc \in Located,
           NEW p \in Located,
           p \in {"reserve-issue", "reread", "recheck", "assign"}
             => s.intent \in Intent,
           p \in {"publish", "list", "post", "patch", "label"}
             => s.status \in Status,
           p # "patch"
    PROVE  LocalOK([s EXCEPT !.pc = p])
BY DEF LocalOK, RunState, Located, Deciding, Reporting, Ended

-----------------------------------------------------------------------------
(* Every action keeps ITypeOK. *)

\* A step that changes one run, and at most the fault and intervention counts.
LEMMA LocalStep ==
    ASSUME ITypeOK, NEW r \in Run, NEW s, LocalOK(s), Become(r, s),
           UNCHANGED <<github, history>>,
           faults' \in 0 .. MaxFaults, environment' \in 0 .. MaxEnvironment
    PROVE  ITypeOK'
BY BecomeOK DEF ITypeOK, TypeOK, github, history

LEMMA BeginType ==
    ASSUME ITypeOK, NEW r \in Run, NEW n \in Issue, Begin(r, n)
    PROVE  ITypeOK'
<1> USE ConstantFacts
<1>1. UNCHANGED <<github, history, faults, environment>>
  BY DEF Begin
<1>2. CASE Valid(n)
  <2> DEFINE s == [Blank EXCEPT !.pc = "issue-ref", !.issue = n,
                                !.doc = issues[n].doc]
  <2>1. issues[n].doc \in Document
    BY <1>2 DEF IssueState, Valid, ITypeOK, TypeOK
  <2>2. LocalOK(s)
    BY <2>1 DEF LocalOK, RunState, Located, Deciding, Reporting, Blank
  <2>3. Become(r, s)
    BY <1>2 DEF Begin
  <2>4. QED BY <1>1, <2>2, <2>3, LocalStep DEF ITypeOK, TypeOK
<1>3. CASE ~Valid(n)
  BY <1>1, <1>3, RaiseOK, LocalStep DEF Begin, Raise, Ended, ITypeOK, TypeOK
<1>4. QED BY <1>2, <1>3

\* Both reads of the issue's reservation tag.
LEMMA ReadIssueRefType ==
    ASSUME ITypeOK, NEW r \in Run, ReadIssueRef(r) \/ Reread(r)
    PROVE  ITypeOK'
<1> USE ConstantFacts
<1> DEFINE s == runs[r]
           ref == issueRef[s.issue]
           t(p) == [s EXCEPT !.pc = p, !.claim = ref]
<1>1. /\ UNCHANGED <<github, history, faults, environment>>
      /\ faults \in 0 .. MaxFaults /\ environment \in 0 .. MaxEnvironment
  BY DEF ReadIssueRef, Reread, ITypeOK, TypeOK
<1>2. /\ s \in RunState /\ s.issue \in Issue /\ s.doc \in Document
      /\ s.pc = "reread" => s.intent \in Intent
      /\ ref \in Intent \cup {None}
  BY DEF ITypeOK, TypeOK, LocalOK, ReadIssueRef, Reread, At, Located, Deciding
<1>3. CASE Become(r, [Blank EXCEPT !.pc = "error"])
  BY <1>1, <1>3, RaiseOK, LocalStep DEF Ended
<1>4. CASE ReadIssueRef(r) /\ Become(r, t("fp-ref"))
  <2>1. LocalOK(t("fp-ref"))
    BY <1>2 DEF LocalOK, RunState, Located, Deciding, Reporting
  <2>2. QED BY <1>1, <1>4, <2>1, LocalStep
<1>5. CASE Reread(r) /\ Become(r, t("recheck"))
  <2>1. LocalOK(t("recheck"))
    BY <1>2, <1>5 DEF LocalOK, RunState, Located, Deciding, Reporting, Reread, At
  <2>2. QED BY <1>1, <1>5, <2>1, LocalStep
<1>6. QED
  BY <1>3, <1>4, <1>5 DEF ReadIssueRef, Reread, Raise, Number

LEMMA ReadFpRefType ==
    ASSUME ITypeOK, NEW r \in Run, ReadFpRef(r)
    PROVE  ITypeOK'
<1> USE ConstantFacts
<1> DEFINE s == runs[r]
           ref == fpRef[Fp(r)]
           t == [s EXCEPT !.intent = ref]
<1>1. /\ UNCHANGED <<github, history, faults, environment>>
      /\ faults \in 0 .. MaxFaults /\ environment \in 0 .. MaxEnvironment
  BY DEF ReadFpRef, ITypeOK, TypeOK
<1>2. s \in RunState /\ s.issue \in Issue /\ s.doc \in Document
  BY DEF ITypeOK, LocalOK, ReadFpRef, At, Located, Deciding
<1>3. ref \in Intent \cup {None}
  BY <1>2 DEF ITypeOK, TypeOK, Fp
<1>4. t \in RunState /\ t.issue \in Issue /\ t.doc \in Document /\ t.intent = ref
  BY <1>2, <1>3 DEF RunState
<1>5. CASE Become(r, [Blank EXCEPT !.pc = "disagree"])
  BY <1>1, <1>5, RaiseOK, LocalStep DEF Ended
<1>6. CASE Become(r, [t EXCEPT !.pc = "eligible"])
  <2>1. LocalOK([t EXCEPT !.pc = "eligible"])
    <3> HIDE DEF t
    <3>1. QED BY <1>4 DEF LocalOK, RunState, Located, Deciding, Reporting
  <2>2. QED BY <1>1, <1>6, <2>1, LocalStep
<1>7. CASE ref # None /\ Become(r, Owned(t))
  BY <1>1, <1>3, <1>4, <1>7, OwnedOK, LocalStep
<1>8. QED BY <1>5, <1>6, <1>7 DEF ReadFpRef, Raise

LEMMA CheckLaunchableType ==
    ASSUME ITypeOK, NEW r \in Run, CheckLaunchable(r)
    PROVE  ITypeOK'
<1>1. LocalOK([runs[r] EXCEPT !.pc = "reserve-fp"])
  BY GotoOK DEF ITypeOK, LocalOK, CheckLaunchable, At, Located, Deciding
<1>2. QED
  BY <1>1, LocalStep DEF CheckLaunchable, Goto, ITypeOK, TypeOK

LEMMA CreateFpRefType ==
    ASSUME TypeOK, NEW i \in Intent, CreateFpRef(i)
    PROVE  fpRef' \in [Fingerprint -> Intent \cup {None}]
BY ConstantFacts DEF TypeOK, CreateFpRef, Intent

LEMMA CreateIssueRefType ==
    ASSUME TypeOK, NEW i \in Intent, CreateIssueRef(i)
    PROVE  /\ issueRef' \in [Issue -> Intent \cup {None}]
           /\ since' \in [Issue -> SUBSET (Document \cup {None})]
<1>1. i.issue \in Issue
  BY DEF Intent
<1>2. issues[i.issue].doc \in Document \cup {None}
  BY <1>1 DEF TypeOK, IssueState
<1>3. QED BY <1>1, <1>2 DEF TypeOK, CreateIssueRef

LEMMA ReserveFingerprintType ==
    ASSUME ITypeOK, NEW r \in Run, ReserveFingerprint(r)
    PROVE  ITypeOK'
<1> USE ConstantFacts
<1> DEFINE s == runs[r]
           i == OwnIntent(r)
           a == [s EXCEPT !.pc = "reserve-issue", !.intent = i]
           b == [s EXCEPT !.intent = fpRef[Fp(r)]]
<1>1. s \in RunState /\ s.issue \in Issue /\ s.doc \in Document
  BY DEF ITypeOK, LocalOK, ReserveFingerprint, At, Located, Deciding
<1>2. i \in Intent
  BY <1>1 DEF OwnIntent, Intent, Number
<1>3. PICK t : LocalOK(t) /\ Become(r, t)
  <2>1. CASE fpRef[Fp(r)] = None
    <3>1. LocalOK(a)
      BY <1>1, <1>2 DEF LocalOK, RunState, Located, Deciding, Reporting
    <3>2. QED BY <2>1, <3>1 DEF ReserveFingerprint
  <2>2. CASE fpRef[Fp(r)] # None
    <3>1. fpRef[Fp(r)] \in Intent
      BY <1>1, <2>2 DEF ITypeOK, TypeOK, Fp
    <3>2. /\ b \in RunState /\ b.issue \in Issue /\ b.doc \in Document
          /\ b.intent \in Intent
      BY <1>1, <3>1 DEF RunState
    <3>3. LocalOK(Owned(b))
      BY <3>2, OwnedOK
    <3>4. QED BY <2>2, <3>3 DEF ReserveFingerprint
  <2>3. QED BY <2>1, <2>2
<1>4. fpRef' \in [Fingerprint -> Intent \cup {None}]
  BY <1>2, CreateFpRefType DEF ITypeOK, ReserveFingerprint
<1>5. QED
  BY <1>3, <1>4, BecomeOK DEF ITypeOK, TypeOK, ReserveFingerprint, history

LEMMA ReserveIssueType ==
    ASSUME ITypeOK, NEW r \in Run, ReserveIssue(r)
    PROVE  ITypeOK'
<1> USE ConstantFacts
<1> DEFINE s == runs[r]
           ref == issueRef[s.issue]
           a == [s EXCEPT !.new = TRUE, !.claim = s.intent]
           b == [s EXCEPT !.intent = ref]
<1>1. /\ s \in RunState /\ s.issue \in Issue /\ s.doc \in Document
      /\ s.intent \in Intent
  BY DEF ITypeOK, LocalOK, ReserveIssue, At, Located, Deciding
<1>2. PICK t : LocalOK(t) /\ Become(r, t)
  <2>1. CASE ref = None
    <3>1. /\ a \in RunState /\ a.issue \in Issue /\ a.doc \in Document
          /\ a.intent \in Intent
      BY <1>1 DEF RunState
    <3>2. LocalOK(Owned(a))
      BY <3>1, OwnedOK
    <3>3. QED BY <2>1, <3>2 DEF ReserveIssue, Number
  <2>2. CASE ref # None /\ Become(r, [Blank EXCEPT !.pc = "error"])
    BY <2>2, RaiseOK DEF Ended
  <2>3. CASE ref # None /\ Become(r, Owned(b))
    <3>1. ref \in Intent
      BY <1>1, <2>3 DEF ITypeOK, TypeOK
    <3>2. /\ b \in RunState /\ b.issue \in Issue /\ b.doc \in Document
          /\ b.intent \in Intent
      BY <1>1, <3>1 DEF RunState
    <3>3. LocalOK(Owned(b))
      BY <3>2, OwnedOK
    <3>4. QED BY <2>3, <3>3
  <2>4. QED BY <2>1, <2>2, <2>3 DEF ReserveIssue, Raise, Number
<1>3. /\ issueRef' \in [Issue -> Intent \cup {None}]
      /\ since' \in [Issue -> SUBSET (Document \cup {None})]
  BY <1>1, CreateIssueRefType DEF ITypeOK, ReserveIssue
<1>4. QED
  BY <1>2, <1>3, BecomeOK DEF ITypeOK, TypeOK, ReserveIssue

LEMMA RecheckType ==
    ASSUME ITypeOK, NEW r \in Run, Recheck(r)
    PROVE  ITypeOK'
<1> DEFINE s == runs[r]
<1>1. /\ UNCHANGED <<github, history, faults, environment>>
      /\ faults \in 0 .. MaxFaults /\ environment \in 0 .. MaxEnvironment
  BY DEF Recheck, ITypeOK, TypeOK
<1>2. /\ LocalOK(s) /\ s \in RunState /\ s.issue \in Issue /\ s.doc \in Document
      /\ s.pc \in Located /\ s.intent \in Intent
  BY DEF ITypeOK, LocalOK, Recheck, At, Located, Deciding
<1>3. CASE Become(r, [Blank EXCEPT !.pc = "error"])
  BY <1>1, <1>3, RaiseOK, LocalStep DEF Ended
<1>4. ASSUME NEW status \in {"accepted", "unknown"}, Become(r, Report(s, status))
      PROVE  ITypeOK'
  <2>1. LocalOK(Report(s, status))
    BY <1>2, ReportOK DEF Status
  <2>2. QED BY <1>1, <1>4, <2>1, LocalStep
<1>5. CASE Become(r, [s EXCEPT !.pc = "assign"])
  <2>1. LocalOK([s EXCEPT !.pc = "assign"])
    BY <1>2, GotoOK DEF Located, Deciding
  <2>2. QED BY <1>1, <1>5, <2>1, LocalStep
<1>6. QED BY <1>3, <1>4, <1>5 DEF Recheck, Decided

IssuesOK == issues \in [Issue -> IssueState]

LEMMA IssueUpdates ==
    ASSUME NEW s \in IssueState
    PROVE  /\ [s EXCEPT !.labelled = TRUE] \in IssueState
           /\ \A b \in BOOLEAN : [s EXCEPT !.open = b] \in IssueState
BY DEF IssueState

LEMMA SetIssueOK ==
    ASSUME IssuesOK, NEW n \in Issue, NEW s \in IssueState,
           issues' = [issues EXCEPT ![n] = s]
    PROVE  IssuesOK'
BY DEF IssuesOK

LEMMA AssignedOK ==
    ASSUME IssuesOK, NEW n \in Issue, Assigned(n)
    PROVE  IssuesOK'
BY DEF IssuesOK, IssueState, Assigned

LEMMA LabelledOK ==
    ASSUME IssuesOK, NEW n \in Issue,
           issues' = [issues EXCEPT ![n].labelled = TRUE]
    PROVE  IssuesOK'
<1> DEFINE s == [issues[n] EXCEPT !.labelled = TRUE]
<1>1. s \in IssueState
  BY IssueUpdates DEF IssuesOK
<1>2. issues' = [issues EXCEPT ![n] = s]
  OBVIOUS
<1> HIDE DEF s
<1>3. QED BY <1>1, <1>2, SetIssueOK

LEMMA RejectedOK ==
    ASSUME NEW s \in RunState
    PROVE  [s EXCEPT !.pc = "poll", !.rejected = TRUE] \in RunState
BY DEF RunState, Reporting

LEMMA CountLaunchType ==
    ASSUME ITypeOK, NEW r \in Run, At(r, "assign"), CountLaunch(r)
    PROVE  /\ launches' \in [Fingerprint -> [Issue -> Nat]]
           /\ Fp(r) \in Fingerprint /\ Number(r) \in Issue
<1>1. Fp(r) \in Fingerprint /\ Number(r) \in Issue
  BY ConstantFacts
  DEF ITypeOK, LocalOK, At, Located, Deciding, Fp, Number
<1>2. QED BY <1>1 DEF ITypeOK, TypeOK, CountLaunch

\* The assignment request, whatever becomes of it.
LEMMA AssignType ==
    ASSUME ITypeOK, NEW r \in Run,
           Assign(r) \/ AssignWithoutEffect(r) \/ LoseAssign(r)
    PROVE  ITypeOK'
<1> USE ConstantFacts
<1> DEFINE s == runs[r]
<1>1. /\ At(r, "assign") /\ CountLaunch(r)
      /\ launches' \in [Fingerprint -> [Issue -> Nat]]
      /\ Fp(r) \in Fingerprint /\ Number(r) \in Issue
  BY CountLaunchType DEF Assign, AssignWithoutEffect, LoseAssign
<1>2. /\ LocalOK(s) /\ s \in RunState /\ s.pc \in Located
      /\ s.issue \in Issue /\ s.doc \in Document
  BY <1>1 DEF ITypeOK, LocalOK, At, Located, Deciding
<1>3. LocalOK([s EXCEPT !.pc = "poll"])
  BY <1>2, GotoOK DEF Located, Reporting
<1>4. LocalOK([s EXCEPT !.pc = "poll", !.rejected = TRUE])
  <2> DEFINE t == [s EXCEPT !.pc = "poll", !.rejected = TRUE]
  <2>1. t \in RunState
    BY <1>2, RejectedOK
  <2>2. t.pc = "poll" /\ t.issue = s.issue /\ t.doc = s.doc
    BY <1>2 DEF RunState
  <2>3. LocalOK(t)
    <3> HIDE DEF t
    <3>1. QED BY <1>2, <2>1, <2>2 DEF LocalOK
  <2>4. QED BY <2>3
<1>5. PICK t : LocalOK(t) /\ Become(r, t)
  BY <1>3, <1>4 DEF Assign, AssignWithoutEffect, LoseAssign, Goto
<1>6. runs' \in [Run -> RunState] /\ \A q \in Run : LocalOK(runs'[q])
  BY <1>5, BecomeOK
<1>7. CASE Assign(r)
  <2>1. started' \subseteq Fingerprint \X Issue
    BY <1>1, <1>7 DEF ITypeOK, TypeOK, Assign
  <2>2. IssuesOK'
    BY <1>1, <1>7, AssignedOK DEF ITypeOK, TypeOK, IssuesOK, Assign
  <2>3. QED
    BY <1>1, <1>6, <1>7, <2>1, <2>2 DEF ITypeOK, TypeOK, IssuesOK, Assign
<1>8. CASE AssignWithoutEffect(r)
  <2>1. faults' \in 0 .. MaxFaults
    BY <1>8 DEF ITypeOK, TypeOK, AssignWithoutEffect, Fault
  <2>2. QED
    BY <1>1, <1>6, <1>8, <2>1
    DEF ITypeOK, TypeOK, AssignWithoutEffect, github
<1>9. CASE LoseAssign(r)
  <2>1. late' \subseteq Request
    BY <1>1, <1>9 DEF ITypeOK, TypeOK, LoseAssign, Request
  <2>2. QED BY <1>1, <1>6, <1>9, <2>1 DEF ITypeOK, TypeOK, LoseAssign, Fault
<1>10. QED BY <1>7, <1>8, <1>9

LEMMA PollType ==
    ASSUME ITypeOK, NEW r \in Run, Poll(r)
    PROVE  ITypeOK'
<1> USE ConstantFacts
<1> DEFINE s == runs[r]
<1>1. /\ UNCHANGED <<github, history, faults, environment>>
      /\ faults \in 0 .. MaxFaults /\ environment \in 0 .. MaxEnvironment
  BY DEF Poll, ITypeOK, TypeOK
<1>2. s \in RunState /\ s.issue \in Issue /\ s.doc \in Document /\ s.pc = "poll"
  BY DEF ITypeOK, LocalOK, Poll, At, Located, Reporting
<1>3. CASE Become(r, [Blank EXCEPT !.pc = "error"])
  BY <1>1, <1>3, RaiseOK, LocalStep DEF Ended
<1>4. ASSUME NEW status \in Status, Become(r, Report(s, status))
      PROVE  ITypeOK'
  <2>1. LocalOK(Report(s, status))
    BY <1>2, ReportOK
  <2>2. QED BY <1>1, <1>4, <2>1, LocalStep
<1>5. CASE s.polls + 1 < Polls /\ Become(r, [s EXCEPT !.polls = @ + 1])
  <2>1. LocalOK([s EXCEPT !.polls = @ + 1])
    BY <1>2, <1>5 DEF LocalOK, RunState, Located, Deciding, Reporting
  <2>2. QED BY <1>1, <1>5, <2>1, LocalStep
<1>6. QED BY <1>3, <1>4, <1>5 DEF Poll, Polled, Status

LEMMA PublishType ==
    ASSUME ITypeOK, NEW r \in Run, Publish(r)
    PROVE  ITypeOK'
<1> DEFINE s == runs[r]
<1>1. /\ UNCHANGED <<github, history, faults, environment>>
      /\ faults \in 0 .. MaxFaults /\ environment \in 0 .. MaxEnvironment
  BY DEF Publish, ITypeOK, TypeOK
<1>2. LocalOK(s) /\ s.pc \in Located /\ s.status \in Status
  BY DEF ITypeOK, LocalOK, Publish, At, Located, Reporting
<1>3. LocalOK([s EXCEPT !.pc = "list"]) /\ LocalOK([Blank EXCEPT !.pc = "error"])
  BY <1>2, GotoOK, RaiseOK DEF Located, Reporting, Ended
<1>4. QED BY <1>1, <1>3, LocalStep DEF Publish, Goto, Raise

LEMMA ListStoredType ==
    ASSUME ITypeOK, NEW r \in Run, ListStored(r)
    PROVE  ITypeOK'
<1> DEFINE s == runs[r]
           stored == Stored(s.issue, Fp(r))
           a(old) == [s EXCEPT !.pc = "patch", !.old = old]
<1>1. /\ UNCHANGED <<github, history, faults, environment>>
      /\ faults \in 0 .. MaxFaults /\ environment \in 0 .. MaxEnvironment
  BY DEF ListStored, ITypeOK, TypeOK
<1>2. /\ LocalOK(s) /\ s \in RunState /\ s.pc \in Located /\ s.issue \in Issue
      /\ s.doc \in Document /\ s.status \in Status
  BY DEF ITypeOK, LocalOK, ListStored, At, Located, Reporting
<1>3. CASE Become(r, [s EXCEPT !.pc = "post"])
  <2>1. LocalOK([s EXCEPT !.pc = "post"])
    BY <1>2, GotoOK DEF Located, Reporting
  <2>2. QED BY <1>1, <1>3, <2>1, LocalStep
<1>4. CASE Become(r, Recorded(s))
  BY <1>1, <1>2, <1>4, RecordedOK, LocalStep
<1>5. CASE Become(r, [Blank EXCEPT !.pc = "error"])
  BY <1>1, <1>5, RaiseOK, LocalStep DEF Ended
<1>6. ASSUME NEW old \in stored, Become(r, a(old))
      PROVE  ITypeOK'
  <2>1. old \in Comment
    BY DEF Stored, ITypeOK, TypeOK
  <2>2. a(old) \in RunState
    BY <1>2, <2>1 DEF RunState, Reporting
  <2>3. /\ a(old).pc = "patch" /\ a(old).issue = s.issue /\ a(old).doc = s.doc
        /\ a(old).status = s.status /\ a(old).old = old
    BY <1>2 DEF RunState
  <2>4. LocalOK(a(old))
    <3> HIDE DEF a
    <3>1. QED BY <1>2, <2>1, <2>2, <2>3 DEF LocalOK
  <2>5. QED BY <1>1, <1>6, <2>4, LocalStep
<1>7. \A old \in Foremost(stored) : old \in stored
  BY DEF Foremost
<1>8. QED
  BY <1>3, <1>4, <1>5, <1>6, <1>7 DEF ListStored, Against, Goto, Number

LEMMA ReplaceOK ==
    ASSUME comments \subseteq Comment, NEW old, NEW status \in Status,
           Replace(old, status)
    PROVE  comments' \subseteq Comment
<1>1. \A c \in Comment : [c EXCEPT !.status = status] \in Comment
  BY DEF Comment
<1>2. QED BY <1>1 DEF Replace

LEMMA WriteType ==
    ASSUME ITypeOK, NEW r \in Run, PostComment(r) \/ PatchComment(r) \/ Label(r)
    PROVE  ITypeOK'
<1> USE ConstantFacts
<1> DEFINE s == runs[r]
<1>1. /\ LocalOK(s) /\ s \in RunState /\ s.pc \in Located /\ s.issue \in Issue
      /\ s.doc \in Document /\ s.status \in Status
  BY DEF ITypeOK, LocalOK, PostComment, PatchComment, Label, At, Located, Reporting
<1>2. LocalOK(Recorded(s)) /\ LocalOK([s EXCEPT !.pc = "done"])
  BY <1>1, RecordedOK, GotoOK DEF Located
<1>3. PICK t : LocalOK(t) /\ Become(r, t)
  BY <1>2 DEF PostComment, PatchComment, Label, Goto
<1>4. runs' \in [Run -> RunState] /\ \A q \in Run : LocalOK(runs'[q])
  BY <1>3, BecomeOK
<1>5. CASE PostComment(r)
  <2>1. Event(r) \in Comment
    BY <1>1 DEF Event, Comment, Number, Fp
  <2>2. comments' \subseteq Comment
    BY <1>5, <2>1 DEF ITypeOK, TypeOK, PostComment
  <2>3. QED BY <1>4, <1>5, <2>2 DEF ITypeOK, TypeOK, PostComment, history
<1>6. CASE PatchComment(r)
  <2>1. comments' \subseteq Comment
    BY <1>1, <1>6, ReplaceOK DEF ITypeOK, TypeOK, PatchComment
  <2>2. QED BY <1>4, <1>6, <2>1 DEF ITypeOK, TypeOK, PatchComment, history
<1>7. CASE Label(r)
  <2>1. IssuesOK'
    BY <1>1, <1>7, LabelledOK DEF ITypeOK, TypeOK, IssuesOK, Label, Number
  <2>2. QED BY <1>4, <1>7, <2>1 DEF ITypeOK, TypeOK, IssuesOK, Label, history
<1>8. QED BY <1>5, <1>6, <1>7

LEMMA FaultOK ==
    ASSUME TypeOK, Fault
    PROVE  faults' \in 0 .. MaxFaults
BY ConstantFacts DEF TypeOK, Fault

LEMMA PendingOK ==
    ASSUME ITypeOK, NEW r \in Run,
           runs[r].pc \in {"reserve-fp", "reserve-issue", "post", "patch", "label"}
    PROVE  Pending(r) \in Request
<1> USE ConstantFacts
<1> DEFINE s == runs[r]
<1>1. /\ s \in RunState /\ s.issue \in Issue /\ s.doc \in Document
      /\ s.pc = "reserve-issue" => s.intent \in Intent
      /\ s.pc \in {"post", "patch"} => s.status \in Status
      /\ s.pc = "patch" => s.old \in Comment
  BY DEF ITypeOK, LocalOK, Located, Deciding, Reporting
<1>2. CASE s.pc = "reserve-fp"
  BY <1>1, <1>2 DEF Pending, At, Request, OwnIntent, Intent, Number
<1>3. CASE s.pc = "reserve-issue"
  BY <1>1, <1>3 DEF Pending, At, Request
<1>4. CASE s.pc = "post"
  BY <1>1, <1>4 DEF Pending, At, Request, Event, Comment, Number, Fp
<1>5. CASE s.pc = "patch"
  BY <1>1, <1>5 DEF Pending, At, Request
<1>6. CASE s.pc = "label"
  BY <1>1, <1>6 DEF Pending, At, Request, Number
<1>7. QED BY <1>2, <1>3, <1>4, <1>5, <1>6

LEMMA FailType ==
    ASSUME ITypeOK, NEW r \in Run, LoseWrite(r) \/ Fail(r)
    PROVE  ITypeOK'
<1>1. /\ Become(r, [Blank EXCEPT !.pc = "error"])
      /\ LocalOK([Blank EXCEPT !.pc = "error"])
      /\ faults' \in 0 .. MaxFaults
  BY RaiseOK, FaultOK DEF LoseWrite, Fail, Raise, Ended, ITypeOK
<1>2. runs' \in [Run -> RunState] /\ \A q \in Run : LocalOK(runs'[q])
  BY <1>1, BecomeOK
<1>3. CASE LoseWrite(r)
  <2>1. late' \subseteq Request
    BY <1>3, PendingOK DEF LoseWrite, ITypeOK, TypeOK
  <2>2. QED BY <1>1, <1>2, <1>3, <2>1 DEF LoseWrite, ITypeOK, TypeOK, history
<1>4. CASE Fail(r)
  BY <1>1, <1>2, <1>4 DEF Fail, ITypeOK, TypeOK, github, history
<1>5. QED BY <1>3, <1>4

LEMMA DeliverType ==
    ASSUME ITypeOK, NEW q \in late, Deliver(q)
    PROVE  ITypeOK'
<1>1. /\ q \in Request /\ late' \subseteq Request
      /\ UNCHANGED <<runs, launches, faults, environment>>
  BY DEF ITypeOK, TypeOK, Deliver
<1>2. CASE q.kind = "fp"
  <2>1. q.intent \in Intent
    BY <1>1, <1>2 DEF Request
  <2>2. QED
    BY <1>1, <1>2, <2>1, CreateFpRefType DEF ITypeOK, TypeOK, Deliver
<1>3. CASE q.kind = "issue"
  <2>1. q.intent \in Intent
    BY <1>1, <1>3 DEF Request
  <2>2. QED
    BY <1>1, <1>3, <2>1, CreateIssueRefType DEF ITypeOK, TypeOK, Deliver
<1>4. CASE q.kind = "assign"
  <2>1. q.issue \in Issue /\ q.fp \in Fingerprint
    BY <1>1, <1>4 DEF Request
  <2>2. IssuesOK'
    BY <1>4, <2>1, AssignedOK DEF ITypeOK, TypeOK, IssuesOK, Deliver
  <2>3. QED BY <1>1, <1>4, <2>1, <2>2 DEF ITypeOK, TypeOK, IssuesOK, Deliver
<1>5. CASE q.kind = "post"
  <2>1. q.comment \in Comment
    BY <1>1, <1>5 DEF Request
  <2>2. QED BY <1>1, <1>5, <2>1 DEF ITypeOK, TypeOK, Deliver
<1>6. CASE q.kind = "patch"
  <2>1. q.status \in Status
    BY <1>1, <1>6 DEF Request
  <2>2. comments' \subseteq Comment
    BY <1>6, <2>1, ReplaceOK DEF ITypeOK, TypeOK, Deliver
  <2>3. QED BY <1>1, <1>6, <2>2 DEF ITypeOK, TypeOK, Deliver
<1>7. CASE q.kind = "label"
  <2>1. q.issue \in Issue
    BY <1>1, <1>7 DEF Request
  <2>2. IssuesOK'
    BY <1>7, <2>1, LabelledOK DEF ITypeOK, TypeOK, IssuesOK, Deliver
  <2>3. QED BY <1>1, <1>7, <2>2 DEF ITypeOK, TypeOK, IssuesOK, Deliver
<1>8. QED
  BY <1>1, <1>2, <1>3, <1>4, <1>5, <1>6, <1>7 DEF Request

\* Publishers and operators.
InterveneStep ==
    \/ \E n \in Issue, d \in Document \cup {None} : EditIssue(n, d)
    \/ \E n \in Issue, b \in BOOLEAN : Reopen(n, b)
    \/ \E n \in Issue, c \in {"assigned", "removed"} : SetCopilot(n, c)

LEMMA InterveneType ==
    ASSUME ITypeOK, InterveneStep
    PROVE  ITypeOK'
<1>1. ASSUME Intervene
      PROVE  environment' \in 0 .. MaxEnvironment
  BY <1>1, ConstantFacts DEF ITypeOK, TypeOK, Intervene
<1>2. ASSUME NEW n \in Issue, NEW d \in Document \cup {None}, EditIssue(n, d)
      PROVE  ITypeOK'
  <2>1. IssuesOK' /\ since' \in [Issue -> SUBSET (Document \cup {None})]
    BY <1>2 DEF ITypeOK, TypeOK, IssuesOK, IssueState, EditIssue
  <2>2. QED BY <1>1, <1>2, <2>1 DEF ITypeOK, TypeOK, IssuesOK, EditIssue
<1>3. ASSUME NEW n \in Issue, NEW b \in BOOLEAN, Reopen(n, b)
      PROVE  ITypeOK'
  <2>1. IssuesOK'
    <3> DEFINE s == [issues[n] EXCEPT !.open = b]
    <3>1. s \in IssueState
      BY IssueUpdates DEF ITypeOK, TypeOK
    <3>2. issues' = [issues EXCEPT ![n] = s] /\ IssuesOK
      BY <1>3 DEF Reopen, ITypeOK, TypeOK, IssuesOK
    <3> HIDE DEF s
    <3>3. QED BY <3>1, <3>2, SetIssueOK
  <2>2. QED
    BY <1>1, <1>3, <2>1 DEF ITypeOK, TypeOK, IssuesOK, Reopen, history
<1>4. ASSUME NEW n \in Issue, NEW c \in {"assigned", "removed"}, SetCopilot(n, c)
      PROVE  ITypeOK'
  <2>1. IssuesOK'
    BY <1>4 DEF ITypeOK, TypeOK, IssuesOK, IssueState, SetCopilot
  <2>2. QED
    BY <1>1, <1>4, <2>1 DEF ITypeOK, TypeOK, IssuesOK, SetCopilot, history
<1>5. QED BY <1>2, <1>3, <1>4 DEF InterveneStep

THEOREM ITypeInductive == ITypeOK /\ [Next]_vars => ITypeOK'
<1> SUFFICES ASSUME ITypeOK, [Next]_vars
             PROVE  ITypeOK'
  OBVIOUS
<1>1. ASSUME NEW r \in Run, Step(r)
      PROVE  ITypeOK'
  BY <1>1, ReadIssueRefType, ReadFpRefType, CheckLaunchableType,
     ReserveFingerprintType, ReserveIssueType, RecheckType, AssignType,
     PollType, PublishType, ListStoredType, WriteType
  DEF Step
<1>2. ASSUME NEW r \in Run,
             \/ AssignWithoutEffect(r) \/ LoseAssign(r)
             \/ LoseWrite(r) \/ Fail(r)
      PROVE  ITypeOK'
  BY <1>2, AssignType, FailType
<1>3. ASSUME NEW r \in Run, NEW n \in Issue, Begin(r, n)
      PROVE  ITypeOK'
  BY <1>3, BeginType
<1>4. ASSUME NEW q \in late, Deliver(q)
      PROVE  ITypeOK'
  BY <1>4, DeliverType
<1>5. ASSUME InterveneStep
      PROVE  ITypeOK'
  BY <1>5, InterveneType
<1>6. CASE UNCHANGED vars
  BY <1>6 DEF ITypeOK, TypeOK, vars, github, history
<1>7. QED
  BY <1>1, <1>2, <1>3, <1>4, <1>5, <1>6 DEF Next, InterveneStep

LEMMA InitType == Init => ITypeOK
<1> SUFFICES ASSUME Init
             PROVE  ITypeOK
  OBVIOUS
<1>1. LocalOK(Blank)
  BY ConstantFacts
  DEF Blank, LocalOK, RunState, Located, Deciding, Reporting
<1>2. issues \in [Issue -> IssueState]
  BY DEF Init, IssueState
<1>3. runs \in [Run -> RunState] /\ \A r \in Run : LocalOK(runs[r])
  BY <1>1 DEF Init, LocalOK
<1>4. QED
  BY <1>2, <1>3, ConstantFacts DEF Init, ITypeOK, TypeOK

\* The repository's and the runs' state keeps its shape.
THEOREM TypeCorrectness == Spec => []TypeOK
<1>1. Spec => []ITypeOK
  BY InitType, ITypeInductive, PTL DEF Spec
<1>2. ITypeOK => TypeOK
  BY DEF ITypeOK
<1>3. QED BY <1>1, <1>2, PTL
=============================================================================
