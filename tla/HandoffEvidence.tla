-------------------------- MODULE HandoffEvidence --------------------------
(***************************************************************************)
(* The evidence of a handoff tells the truth, for every set of runs,       *)
(* issues and documents: record_event's list-then-write without a lock,    *)
(* its lost and late requests, and the labels of publish_result.           *)
(***************************************************************************)
EXTENDS HandoffLaunch

(* The inductive invariant adds to the one of the reservations what backs  *)
(* every status a run may still write: a pair once launched without effect *)
(* stays without one, and a pair once seen assigned stays proven.          *)

\* The records on GitHub, and those a lost request may still create.
Written == comments \cup {q.comment : q \in {p \in late : p.kind = "post"}}

\* Two records of one event: a PATCH changes nothing but the status.
Same(c, d) == c.by = d.by /\ c.issue = d.issue /\ c.fp = d.fp
Shown(c) == \E d \in comments : Same(c, d)

\* What an accepted and what a failed record claim of their pair, for ever.
Proven(f, n) == Reserved(f, n) /\ issues[n].copilot # "never"
Refused(f, n) ==
    /\ launches[f][n] > 0
    /\ <<f, n>> \notin started
    /\ [kind |-> "assign", fp |-> f, issue |-> n] \notin late
Backed(status, f, n) ==
    /\ status = "accepted" => Proven(f, n)
    /\ status = "failed" => Refused(f, n)

RecordsOK ==
    /\ \A c \in comments : Backed(c.status, c.fp, c.issue)
    /\ \A c, d \in Written : c.by = d.by => Same(c, d)

\* Whatever is still executed of the lost requests is backed as well.
Sound(q) ==
    /\ q.kind = "assign" => launches[q.fp][q.issue] > 0
    /\ q.kind = "post" => Backed(q.comment.status, q.comment.fp, q.comment.issue)
    /\ q.kind = "patch" => /\ q.status = "accepted"
                           /\ Proven(q.old.fp, q.old.issue) /\ Shown(q.old)
    /\ q.kind = "label" =>
         \E c \in comments : c.issue = q.issue /\ c.status = "accepted"

LateOK == \A q \in late : Sound(q)

StartedOK == \A f \in Fingerprint, n \in Issue :
    <<f, n>> \in started => launches[f][n] > 0

LabelsOK == \A n \in Issue : issues[n].labelled =>
    \E c \in comments : c.issue = n /\ c.status = "accepted"

\* A run that may still post a record.
Unwritten(s) == s.pc \in {"idle", "poll", "publish", "list", "post"} \cup Deciding

\* What run r in local state s knows of its pair and of the records.
Informed(r, s) ==
    LET f == FingerprintOf[s.doc] IN
    /\ Unwritten(s) => \A c \in Written : c.by # r
    /\ s.pc \in Deciding => ~s.rejected
    /\ s.pc = "poll" => /\ Reserved(f, s.issue)
                        /\ s.rejected => Refused(f, s.issue)
    /\ s.pc \in {"publish", "list", "post", "patch"}
         => Backed(s.status, f, s.issue)
    /\ s.pc = "patch" => /\ s.status = "accepted" /\ Shown(s.old)
                         /\ s.old.issue = s.issue /\ s.old.fp = f
    /\ s.pc \in {"label", "done"} => AcceptedShown(s.issue, f)
    /\ s.pc = "published" => Stored(s.issue, f) # {}

InformedOK == \A r \in Run : Informed(r, runs[r])

EInv == RecordsOK /\ LateOK /\ StartedOK /\ LabelsOK /\ InformedOK

-----------------------------------------------------------------------------
(* What no step takes back.                                                *)

\* The steps that touch more than a run's local variables.
WritingStep ==
    \/ \E r \in Run : \/ ReserveFingerprint(r) \/ ReserveIssue(r)
                     \/ Assign(r) \/ AssignWithoutEffect(r) \/ LoseAssign(r)
                     \/ PostComment(r) \/ PatchComment(r) \/ Label(r)
                     \/ LoseWrite(r)
    \/ \E q \in late : Deliver(q)
    \/ InterveneStep

LEMMA StepCases ==
    ASSUME [Next]_vars
    PROVE  UNCHANGED <<github, history>> \/ WritingStep
BY DEF Next, Step, WritingStep, InterveneStep, vars, Begin, ReadIssueRef,
       ReadFpRef, CheckLaunchable, Reread, Recheck, Poll, Publish, ListStored,
       Fail

TagsKept ==
    \A f \in Fingerprint, n \in Issue : Reserved(f, n) => Reserved(f, n)'

LEMMA TagsStay ==
    ASSUME Inv, [Next]_vars
    PROVE  TagsKept
<1>1. CASE UNCHANGED <<fpRef, issueRef>>
  BY <1>1 DEF TagsKept, Reserved
<1>2. ASSUME NEW i \in Intent, CreateFpRef(i), UNCHANGED issueRef
      PROVE  TagsKept
  BY <1>2, ConstantFacts
  DEF TagsKept, CreateFpRef, Reserved, Intent, Inv, ITypeOK, TypeOK
<1>3. ASSUME NEW i \in Intent, CreateIssueRef(i), UNCHANGED fpRef
      PROVE  TagsKept
  BY <1>3, ConstantFacts
  DEF TagsKept, CreateIssueRef, Reserved, Intent, Inv, ITypeOK, TypeOK
<1>4. ASSUME NEW r \in Run, ReserveFingerprint(r)
      PROVE  TagsKept
  <2>1. OwnIntent(r) \in Intent
    BY <1>4, LocatedRun DEF ReserveFingerprint, At, Located, Deciding
  <2>2. QED BY <1>2, <1>4, <2>1 DEF ReserveFingerprint
<1>5. ASSUME NEW r \in Run, ReserveIssue(r)
      PROVE  TagsKept
  <2>1. runs[r].intent \in Intent
    BY <1>5 DEF ReserveIssue, At, Inv, ITypeOK, LocalOK
  <2>2. QED BY <1>3, <1>5, <2>1 DEF ReserveIssue
<1>6. ASSUME NEW q \in late, Deliver(q)
      PROVE  TagsKept
  <2>1. q \in Request
    BY DEF Inv, ITypeOK, TypeOK
  <2>2. CASE q.kind \in {"fp", "issue"}
    <3>1. q.intent \in Intent
      BY <2>1, <2>2 DEF Request
    <3>2. QED BY <1>2, <1>3, <1>6, <2>2, <3>1 DEF Deliver
  <2>3. CASE q.kind \notin {"fp", "issue"}
    BY <1>1, <1>6, <2>3 DEF Deliver
  <2>4. QED BY <2>2, <2>3
<1>7. ASSUME NEW r \in Run,
             \/ Assign(r) \/ AssignWithoutEffect(r) \/ LoseAssign(r)
             \/ PostComment(r) \/ PatchComment(r) \/ Label(r) \/ LoseWrite(r)
      PROVE  UNCHANGED <<fpRef, issueRef>>
  BY <1>7 DEF Assign, AssignWithoutEffect, LoseAssign, PostComment,
              PatchComment, Label, LoseWrite, github
<1>8. CASE InterveneStep
  BY <1>1, <1>8 DEF InterveneStep, EditIssue, Reopen, SetCopilot
<1>9. QED
  BY <1>1, <1>4, <1>5, <1>6, <1>7, <1>8, StepCases DEF WritingStep, github

LEMMA AssigneeStays ==
    ASSUME Inv, [Next]_vars, NEW n \in Issue, issues[n].copilot # "never"
    PROVE  issues'[n].copilot # "never"
<1>1. issues \in [Issue -> IssueState]
  BY DEF Inv, ITypeOK, TypeOK
<1>2. ASSUME NEW m \in Issue,
             \/ Assigned(m)
             \/ issues' = [issues EXCEPT ![m].labelled = TRUE]
             \/ \E d \in Document \cup {None} :
                  issues' = [issues EXCEPT ![m].doc = d]
             \/ \E b \in BOOLEAN : issues' = [issues EXCEPT ![m].open = b]
             \/ \E c \in {"assigned", "removed"} :
                  issues' = [issues EXCEPT ![m].copilot = c]
      PROVE  issues'[n].copilot # "never"
  BY <1>1, <1>2 DEF Assigned, IssueState
<1>3. CASE UNCHANGED issues
  BY <1>3
<1>4. ASSUME NEW r \in Run, Assign(r) \/ Label(r)
      PROVE  issues'[n].copilot # "never"
  <2>1. Number(r) \in Issue
    BY <1>4, LocatedRun
    DEF Assign, Label, At, Located, Deciding, Reporting, Number
  <2>2. QED BY <1>2, <1>4, <2>1 DEF Assign, Label
<1>5. ASSUME NEW r \in Run,
             \/ ReserveFingerprint(r) \/ ReserveIssue(r)
             \/ AssignWithoutEffect(r) \/ LoseAssign(r)
             \/ PostComment(r) \/ PatchComment(r) \/ LoseWrite(r)
      PROVE  UNCHANGED issues
  BY <1>5 DEF ReserveFingerprint, ReserveIssue, AssignWithoutEffect, LoseAssign,
              PostComment, PatchComment, LoseWrite, github
<1>6. ASSUME NEW q \in late, Deliver(q)
      PROVE  issues'[n].copilot # "never"
  <2>1. q \in Request
    BY DEF Inv, ITypeOK, TypeOK
  <2>2. CASE q.kind \in {"assign", "label"}
    BY <1>2, <1>6, <2>1, <2>2 DEF Deliver, Request
  <2>3. CASE q.kind \notin {"assign", "label"}
    BY <1>3, <1>6, <2>3 DEF Deliver
  <2>4. QED BY <2>2, <2>3
<1>7. CASE InterveneStep
  BY <1>2, <1>7 DEF InterveneStep, EditIssue, Reopen, SetCopilot
<1>8. QED
  BY <1>3, <1>4, <1>5, <1>6, <1>7, StepCases DEF WritingStep, github

\* The assignment requests of a pair are one step of one run.
LEMMA LaunchesStay ==
    ASSUME Inv, [Next]_vars,
           NEW f \in Fingerprint, NEW n \in Issue, launches[f][n] > 0
    PROVE  launches'[f][n] > 0
<1>1. CASE UNCHANGED launches
  BY <1>1
<1>2. ASSUME NEW r \in Run, At(r, "assign"), CountLaunch(r)
      PROVE  launches'[f][n] > 0
  BY <1>2, AssigningRun DEF CountLaunch, Inv, ITypeOK, TypeOK
<1>3. ASSUME NEW r \in Run,
             Assign(r) \/ AssignWithoutEffect(r) \/ LoseAssign(r)
      PROVE  launches'[f][n] > 0
  BY <1>2, <1>3 DEF Assign, AssignWithoutEffect, LoseAssign
<1>4. ASSUME NEW r \in Run,
             \/ ReserveFingerprint(r) \/ ReserveIssue(r)
             \/ PostComment(r) \/ PatchComment(r) \/ Label(r) \/ LoseWrite(r)
      PROVE  UNCHANGED launches
  BY <1>4 DEF ReserveFingerprint, ReserveIssue, PostComment, PatchComment,
              Label, LoseWrite, history
<1>5. CASE (\E q \in late : Deliver(q)) \/ InterveneStep
  BY <1>1, <1>5 DEF Deliver, InterveneStep, EditIssue, Reopen, SetCopilot, history
<1>6. QED BY <1>1, <1>3, <1>4, <1>5, StepCases DEF WritingStep, history

\* Once a pair is launched, no run sends another request for it: what was
\* refused is neither executed later nor repeated.
LEMMA RefusalStays ==
    ASSUME Inv, [Next]_vars, NEW f \in Fingerprint, NEW n \in Issue, Refused(f, n)
    PROVE  Refused(f, n)'
<1> DEFINE a == [kind |-> "assign", fp |-> f, issue |-> n]
<1>1. launches'[f][n] > 0
  BY LaunchesStay DEF Refused
<1>2. ASSUME started' \subseteq started, a \notin late'
      PROVE  Refused(f, n)'
  BY <1>1, <1>2 DEF Refused
<1>3. a \notin late /\ <<f, n>> \notin started
  BY DEF Refused
<1>4. ASSUME NEW r \in Run,
             Assign(r) \/ AssignWithoutEffect(r) \/ LoseAssign(r)
      PROVE  Refused(f, n)'
  <2>1. ~(Fp(r) = f /\ Number(r) = n)
    BY <1>4, NotLaunchedYet DEF Refused, Assign, AssignWithoutEffect, LoseAssign
  <2>2. CASE Assign(r)
    BY <1>1, <1>3, <2>1, <2>2 DEF Assign, Refused
  <2>3. CASE AssignWithoutEffect(r)
    BY <1>2, <1>3, <2>3 DEF AssignWithoutEffect, github
  <2>4. CASE LoseAssign(r)
    BY <1>2, <1>3, <2>1, <2>4 DEF LoseAssign
  <2>5. QED BY <1>4, <2>2, <2>3, <2>4
<1>5. ASSUME NEW r \in Run, LoseWrite(r)
      PROVE  Refused(f, n)'
  <2>1. Pending(r).kind # "assign"
    BY <1>5 DEF LoseWrite, Pending, At
  <2>2. QED BY <1>2, <1>3, <1>5, <2>1 DEF LoseWrite, history
<1>6. ASSUME NEW r \in Run,
             \/ ReserveFingerprint(r) \/ ReserveIssue(r)
             \/ PostComment(r) \/ PatchComment(r) \/ Label(r)
      PROVE  Refused(f, n)'
  BY <1>2, <1>3, <1>6 DEF ReserveFingerprint, ReserveIssue, PostComment,
     PatchComment, Label, history
<1>7. ASSUME NEW q \in late, Deliver(q)
      PROVE  Refused(f, n)'
  <2>1. q \in Request /\ late' \subseteq late
    BY <1>7 DEF Deliver, Inv, ITypeOK, TypeOK
  <2>2. CASE q.kind # "assign"
    BY <1>2, <1>3, <1>7, <2>1, <2>2 DEF Deliver
  <2>3. CASE q.kind = "assign"
    <3>1. q = [kind |-> "assign", fp |-> q.fp, issue |-> q.issue]
      BY <2>1, <2>3 DEF Request
    <3>2. <<q.fp, q.issue>> # <<f, n>>
      BY <1>3, <3>1
    <3>3. started' = started \cup {<<q.fp, q.issue>>}
      BY <1>7, <2>3 DEF Deliver
    <3>4. QED BY <1>1, <1>3, <2>1, <3>2, <3>3 DEF Refused
  <2>4. QED BY <2>2, <2>3
<1>8. CASE InterveneStep
  BY <1>2, <1>3, <1>8 DEF InterveneStep, EditIssue, Reopen, SetCopilot, history
<1>9. QED
  BY <1>2, <1>3, <1>4, <1>5, <1>6, <1>7, <1>8, StepCases
  DEF WritingStep, github, history

\* What backs a record's status backs it for ever.
LEMMA BackingStays ==
    ASSUME Inv, [Next]_vars, NEW status, NEW f \in Fingerprint, NEW n \in Issue,
           Backed(status, f, n)
    PROVE  Backed(status, f, n)'
BY TagsStay, AssigneeStays, RefusalStays DEF TagsKept, Backed, Proven
-----------------------------------------------------------------------------
(* Records are never removed, and only ever become accepted.               *)

Kept ==
    \A c \in comments :
        \E d \in comments' : Same(c, d) /\ d.status \in {c.status, "accepted"}

\* An upgrade: what becomes of the records when one author's are patched.
LEMMA Upgrade ==
    ASSUME comments \subseteq Comment, NEW old, Replace(old, "accepted")
    PROVE  /\ Kept
           /\ \A d \in comments' : \E c \in comments :
                Same(c, d) /\ (d = c \/ (c.by = old.by /\ d.status = "accepted"))
           /\ Shown(old) =>
                \E d \in comments' : Same(old, d) /\ d.status = "accepted"
<1> DEFINE new(c) == IF c.by = old.by THEN [c EXCEPT !.status = "accepted"] ELSE c
<1>1. comments' = {new(c) : c \in comments}
  BY DEF Replace
<1>2. \A c \in comments : /\ Same(c, new(c))
                          /\ (new(c) = c \/ c.by = old.by)
                          /\ c.by = old.by => new(c).status = "accepted"
  <2> SUFFICES ASSUME NEW c \in comments
               PROVE  /\ Same(c, new(c)) /\ (new(c) = c \/ c.by = old.by)
                      /\ c.by = old.by => new(c).status = "accepted"
    OBVIOUS
  <2>1. CASE c.by # old.by
    BY <2>1 DEF Same
  <2>2. CASE c.by = old.by
    <3>1. PICK d : d = [c EXCEPT !.status = "accepted"]
      OBVIOUS
    <3>2. Same(c, d) /\ d.status = "accepted"
      BY <3>1 DEF Comment, Same
    <3>3. QED BY <2>2, <3>1, <3>2
  <2>3. QED BY <2>1, <2>2
<1> HIDE DEF new
<1>3. Kept
  BY <1>1, <1>2 DEF Kept
<1>4. \A d \in comments' : \E c \in comments :
        Same(c, d) /\ (d = c \/ (c.by = old.by /\ d.status = "accepted"))
  BY <1>1, <1>2
<1>5. ASSUME Shown(old)
      PROVE  \E d \in comments' : Same(old, d) /\ d.status = "accepted"
  <2>1. PICK c \in comments : Same(old, c)
    BY <1>5 DEF Shown
  <2>2. Same(old, new(c)) /\ new(c).status = "accepted" /\ new(c) \in comments'
    BY <1>1, <1>2, <2>1 DEF Same
  <2>3. QED BY <2>2
<1>6. QED BY <1>3, <1>4, <1>5

LEMMA SameComments ==
    ASSUME comments \subseteq comments'
    PROVE  Kept
BY DEF Kept, Same

LEMMA CommentsStay ==
    ASSUME Inv, LateOK, InformedOK, [Next]_vars
    PROVE  Kept
<1>1. comments \subseteq Comment
  BY DEF Inv, ITypeOK, TypeOK
<1>2. ASSUME NEW r \in Run, PatchComment(r)
      PROVE  Kept
  <2>1. runs[r].status = "accepted"
    BY <1>2 DEF PatchComment, At, InformedOK, Informed
  <2>2. QED BY <1>1, <1>2, <2>1, Upgrade DEF PatchComment
<1>3. ASSUME NEW q \in late, Deliver(q)
      PROVE  Kept
  <2>1. q \in Request
    BY DEF Inv, ITypeOK, TypeOK
  <2>2. CASE q.kind = "patch"
    <3>1. Replace(q.old, "accepted")
      BY <1>3, <2>2 DEF Deliver, LateOK, Sound
    <3>2. QED BY <1>1, <3>1, Upgrade
  <2>3. CASE q.kind # "patch"
    BY <1>3, <2>3, SameComments DEF Deliver
  <2>4. QED BY <2>2, <2>3
<1>4. ASSUME NEW r \in Run,
             \/ ReserveFingerprint(r) \/ ReserveIssue(r)
             \/ Assign(r) \/ AssignWithoutEffect(r) \/ LoseAssign(r)
             \/ PostComment(r) \/ Label(r) \/ LoseWrite(r)
      PROVE  comments \subseteq comments'
  BY <1>4 DEF ReserveFingerprint, ReserveIssue, Assign, AssignWithoutEffect,
     LoseAssign, PostComment, Label, LoseWrite, github
<1>5. CASE UNCHANGED github \/ InterveneStep
  BY <1>5, SameComments DEF github, InterveneStep, EditIssue, Reopen, SetCopilot
<1>6. QED
  BY <1>2, <1>3, <1>4, <1>5, SameComments, StepCases DEF WritingStep

\* What a step finds of the records, later steps find as well.
LEMMA KeptFacts ==
    ASSUME Kept
    PROVE  /\ \A c : Shown(c) => Shown(c)'
           /\ \A n, f : Stored(n, f) # {} => (Stored(n, f) # {})'
           /\ \A n, f : AcceptedShown(n, f) => AcceptedShown(n, f)'
           /\ \A n : (\E c \in comments : c.issue = n /\ c.status = "accepted")
                 => (\E c \in comments' : c.issue = n /\ c.status = "accepted")
<1>1. ASSUME NEW c, Shown(c)
      PROVE  Shown(c)'
  BY <1>1 DEF Kept, Shown, Same
<1>2. ASSUME NEW n, NEW f, Stored(n, f) # {}
      PROVE  (Stored(n, f) # {})'
  BY <1>2 DEF Kept, Stored, Same
<1>3. ASSUME NEW n, NEW f, AcceptedShown(n, f)
      PROVE  AcceptedShown(n, f)'
  BY <1>3 DEF Kept, AcceptedShown, Stored, Same
<1>4. ASSUME NEW n, \E c \in comments : c.issue = n /\ c.status = "accepted"
      PROVE  \E c \in comments' : c.issue = n /\ c.status = "accepted"
  BY <1>4 DEF Kept, Same
<1>5. QED BY <1>1, <1>2, <1>3, <1>4
-----------------------------------------------------------------------------
(* Each part of the invariant holds after a step if what the step adds to  *)
(* it does.                                                                *)

LEMMA BackedStay ==
    ASSUME Inv, EInv, [Next]_vars,
           \A c \in comments' : \/ \E d \in comments : Same(c, d) /\ d.status = c.status
                                \/ Backed(c.status, c.fp, c.issue)'
    PROVE  \A c \in comments' : Backed(c.status, c.fp, c.issue)'
<1> SUFFICES ASSUME NEW c \in comments',
                    NEW d \in comments, Same(c, d), d.status = c.status
             PROVE  Backed(c.status, c.fp, c.issue)'
  OBVIOUS
<1>1. d.fp \in Fingerprint /\ d.issue \in Issue /\ d.fp = c.fp /\ d.issue = c.issue
  BY DEF Same, Inv, ITypeOK, TypeOK, Comment
<1>2. Backed(d.status, d.fp, d.issue)
  BY DEF EInv, RecordsOK
<1>3. PICK status, f, n : status = d.status /\ f = d.fp /\ n = d.issue
  OBVIOUS
<1>4. Backed(status, f, n)'
  BY <1>1, <1>2, <1>3, BackingStays
<1>5. PICK st, g, m : st = c.status /\ g = c.fp /\ m = c.issue
  OBVIOUS
<1>6. QED BY <1>1, <1>3, <1>4 DEF Backed, Proven, Refused, Reserved

\* Nobody writes another record of the same author.
LEMMA AuthorsStay ==
    ASSUME RecordsOK,
           \A c \in Written' : \E d \in Written : Same(c, d)
    PROVE  \A c, d \in Written' : c.by = d.by => Same(c, d)
BY DEF RecordsOK, Same

LEMMA AuthorAdded ==
    ASSUME RecordsOK, NEW e, \A c \in Written : c.by # e.by,
           \A c \in Written' : c = e \/ \E d \in Written : Same(c, d)
    PROVE  \A c, d \in Written' : c.by = d.by => Same(c, d)
BY DEF RecordsOK, Same

LEMMA LateStay ==
    ASSUME Inv, EInv, [Next]_vars, \A q \in late' : q \in late \/ Sound(q)'
    PROVE  LateOK'
<1> SUFFICES ASSUME NEW q \in late, Sound(q)
             PROVE  Sound(q)'
  BY DEF EInv, LateOK
<1>1. PICK p : p = q
  OBVIOUS
<1>2. p \in Request /\ Sound(p)
  BY <1>1 DEF Inv, ITypeOK, TypeOK
<1>3. Kept
  BY CommentsStay DEF EInv
<1>4. CASE p.kind = "assign"
  <2>1. p.fp \in Fingerprint /\ p.issue \in Issue
    BY <1>2, <1>4 DEF Request
  <2>2. Sound(p)'
    BY <1>2, <1>4, <2>1, LaunchesStay DEF Sound
  <2>3. QED BY <1>1, <2>2
<1>5. CASE p.kind = "post"
  <2>1. p.comment.fp \in Fingerprint /\ p.comment.issue \in Issue
    BY <1>2, <1>5 DEF Request, Comment
  <2>2. Sound(p)'
    BY <1>2, <1>5, <2>1, BackingStays DEF Sound
  <2>3. QED BY <1>1, <2>2
<1>6. CASE p.kind = "patch"
  <2>1. p.old.fp \in Fingerprint /\ p.old.issue \in Issue
    BY <1>2, <1>6 DEF Request, Comment
  <2>2. Proven(p.old.fp, p.old.issue)'
    BY <1>2, <1>6, <2>1, TagsStay, AssigneeStays DEF TagsKept, Sound, Proven
  <2>3. Shown(p.old)'
    BY <1>2, <1>3, <1>6, KeptFacts DEF Sound
  <2>4. Sound(p)'
    BY <1>2, <1>6, <2>2, <2>3 DEF Sound
  <2>5. QED BY <1>1, <2>4
<1>7. CASE p.kind = "label"
  <2>1. Sound(p)'
    BY <1>2, <1>3, <1>7, KeptFacts DEF Sound
  <2>2. QED BY <1>1, <2>1
<1>8. CASE p.kind \notin {"assign", "post", "patch", "label"}
  <2>1. Sound(p)'
    BY <1>8 DEF Sound
  <2>2. QED BY <1>1, <2>1
<1>9. QED BY <1>4, <1>5, <1>6, <1>7, <1>8

LEMMA StartedStay ==
    ASSUME Inv, EInv, [Next]_vars,
           \A f \in Fingerprint, n \in Issue :
              <<f, n>> \in started' => <<f, n>> \in started \/ launches'[f][n] > 0
    PROVE  StartedOK'
BY LaunchesStay DEF EInv, StartedOK

LEMMA LabelsStay ==
    ASSUME Inv, EInv, [Next]_vars,
           \A n \in Issue : issues'[n].labelled =>
              \/ issues[n].labelled
              \/ \E c \in comments' : c.issue = n /\ c.status = "accepted"
    PROVE  LabelsOK'
<1>1. Kept
  BY CommentsStay DEF EInv
<1>2. QED BY <1>1, KeptFacts DEF EInv, LabelsOK

\* What a run knows remains true, as long as others write in their own name.
LEMMA KnowledgeStays ==
    ASSUME Inv, EInv, [Next]_vars, NEW q \in Run, NEW s, s = runs[q],
           \A c \in Written' : c.by # q \/ \E d \in Written : Same(c, d)
    PROVE  Informed(q, s)'
<1>1. LocalOK(s) /\ Informed(q, s) /\ Kept
  BY CommentsStay DEF EInv, InformedOK, Inv, ITypeOK
<1>2. Unwritten(s) => \A c \in Written' : c.by # q
  BY <1>1 DEF Informed, Same
<1>3. CASE s.pc \notin Located
  BY <1>2, <1>3 DEF Informed, Located, Reporting
<1>4. CASE s.pc \in Located
  <2>1. PICK f, n : f = FingerprintOf[s.doc] /\ n = s.issue
    OBVIOUS
  <2>2. f \in Fingerprint /\ n \in Issue
    BY <1>1, <1>4, <2>1, ConstantFacts DEF LocalOK
  <2>3. s.pc = "poll" => Reserved(f, n)' /\ (s.rejected => Refused(f, n)')
    BY <1>1, <2>1, <2>2, TagsStay, RefusalStays DEF TagsKept, Informed
  <2>4. s.pc \in {"publish", "list", "post", "patch"} => Backed(s.status, f, n)'
    BY <1>1, <2>1, <2>2, BackingStays DEF Informed
  <2>5. s.pc = "patch" => Shown(s.old)'
    BY <1>1, KeptFacts DEF Informed
  <2>6. s.pc \in {"label", "done"} => AcceptedShown(n, f)'
    BY <1>1, <2>1, KeptFacts DEF Informed
  <2>7. s.pc = "published" => (Stored(n, f) # {})'
    BY <1>1, <2>1, KeptFacts DEF Informed
  <2>8. QED
    BY <1>1, <1>2, <2>1, <2>3, <2>4, <2>5, <2>6, <2>7 DEF Informed
<1>5. QED BY <1>3, <1>4

LEMMA AllInformed ==
    ASSUME Inv, EInv, [Next]_vars, UNCHANGED runs,
           \A c \in Written' : \E d \in Written : Same(c, d)
    PROVE  InformedOK'
<1> SUFFICES ASSUME NEW q \in Run
             PROVE  Informed(q, runs[q])'
  BY DEF InformedOK
<1>1. PICK s : s = runs[q]
  OBVIOUS
<1>2. Informed(q, s)'
  BY <1>1, KnowledgeStays
<1>3. QED BY <1>1, <1>2

LEMMA RunInformed ==
    ASSUME Inv, EInv, [Next]_vars, NEW r \in Run, NEW t, Become(r, t),
           Informed(r, t)',
           \A c \in Written' : c.by = r \/ \E d \in Written : Same(c, d)
    PROVE  InformedOK'
<1> SUFFICES ASSUME NEW q \in Run
             PROVE  Informed(q, runs[q])'
  BY DEF InformedOK
<1>1. runs' = [runs EXCEPT ![r] = t] /\ runs \in [Run -> RunState]
  BY DEF Become, Inv, ITypeOK, TypeOK
<1>2. CASE q = r
  BY <1>1, <1>2
<1>3. CASE q # r
  <2>1. PICK s : s = runs[q]
    OBVIOUS
  <2>2. Informed(q, s)'
    BY <1>3, <2>1, KnowledgeStays
  <2>3. runs'[q] = s
    BY <1>1, <1>3, <2>1
  <2>4. QED BY <2>2, <2>3
<1>4. QED BY <1>2, <1>3
-----------------------------------------------------------------------------
(* The steps up to the assignment request                                  *)

\* A step that leaves GitHub as it is.
LEMMA ReadingStep ==
    ASSUME Inv, EInv, [Next]_vars, UNCHANGED <<github, history>>,
           NEW r \in Run, NEW t, Become(r, t), Informed(r, t)
    PROVE  EInv'
<1>1. UNCHANGED <<issues, fpRef, issueRef, comments, late, launches, started>>
  BY DEF github, history
<1>2. Written' = Written
  BY <1>1 DEF Written
<1>3. Informed(r, t)'
  BY <1>1, <1>2 DEF Informed, Reserved, Backed, Proven, Refused, Shown,
                    AcceptedShown, Stored
<1>4. InformedOK'
  BY <1>2, <1>3, RunInformed DEF Same
<1>5. RecordsOK'
  BY <1>1, <1>2 DEF EInv, RecordsOK, Backed, Proven, Refused, Reserved
<1>6. LateOK' /\ StartedOK' /\ LabelsOK'
  BY <1>1, LateStay, StartedStay, LabelsStay
<1>7. QED BY <1>4, <1>5, <1>6 DEF EInv

\* Before the request a run claims nothing.
Silent(t) ==
    \/ t.pc \in Deciding /\ ~t.rejected
    \/ t.pc \in {"error", "disagree"}
    \/ t.pc = "publish" /\ t.status = "unknown"

LEMMA SilentInformed ==
    ASSUME NEW r \in Run, NEW t, Silent(t), Informed(r, runs[r]), Unwritten(runs[r])
    PROVE  Informed(r, t)
BY DEF Silent, Informed, Unwritten, Deciding, Backed

LEMMA RaisedSilent == /\ Silent([Blank EXCEPT !.pc = "error"])
                      /\ Silent([Blank EXCEPT !.pc = "disagree"])
BY DEF Silent, Blank

LEMMA GotoSilent ==
    ASSUME NEW s \in RunState, ~s.rejected, NEW p \in Deciding
    PROVE  Silent([s EXCEPT !.pc = p])
BY DEF Silent, RunState

LEMMA ReportSilent ==
    ASSUME NEW s \in RunState
    PROVE  Silent(Report(s, "unknown"))
BY DEF Silent, Report, RunState

LEMMA OwnedSilent ==
    ASSUME NEW s \in RunState, ~s.rejected
    PROVE  Silent(Owned(s))
BY GotoSilent, ReportSilent DEF Owned, Deciding

\* The reads of the reservation, and the start of a run.
LEMMA ReadEvidence ==
    ASSUME Inv, EInv, [Next]_vars, NEW r \in Run,
           \/ ReadIssueRef(r) \/ ReadFpRef(r) \/ CheckLaunchable(r) \/ Reread(r)
           \/ \E n \in Issue : Begin(r, n)
    PROVE  EInv'
<1> DEFINE s == runs[r]
<1>1. /\ UNCHANGED <<github, history>>
      /\ Informed(r, s) /\ s \in RunState /\ Unwritten(s)
      /\ ReadFpRef(r) => fpRef[Fp(r)] \in Intent \cup {None}
      /\ ReadIssueRef(r) \/ Reread(r) => issueRef[s.issue] \in Intent \cup {None}
  BY LocatedRun
  DEF ReadIssueRef, ReadFpRef, CheckLaunchable, Reread, Begin, EInv, InformedOK,
      Inv, ITypeOK, TypeOK, At, Unwritten, Deciding, Located, Fp
<1> HIDE DEF s
<1>2. ReadIssueRef(r) \/ ReadFpRef(r) \/ CheckLaunchable(r) \/ Reread(r)
        => ~s.rejected
  BY <1>1 DEF ReadIssueRef, ReadFpRef, CheckLaunchable, Reread, At, Informed,
              Deciding, s
<1> USE DEF s
<1>3. PICK t : Become(r, t) /\ Silent(t)
  <2>1. ASSUME ReadIssueRef(r) \/ Reread(r)
        PROVE  \E t : Become(r, t) /\ Silent(t)
    <3>1. PICK p \in Deciding, ref \in Intent \cup {None} :
             \/ Become(r, [Blank EXCEPT !.pc = "error"])
             \/ Become(r, [s EXCEPT !.pc = p, !.claim = ref])
      BY <1>1, <2>1 DEF ReadIssueRef, Reread, Raise, Number, Deciding
    <3>2. Silent([s EXCEPT !.pc = p, !.claim = ref])
      BY <1>1, <1>2, <2>1 DEF Silent, RunState
    <3>3. QED BY <3>1, <3>2, RaisedSilent
  <2>2. ASSUME ReadFpRef(r)
        PROVE  \E t : Become(r, t) /\ Silent(t)
    <3>1. PICK u : u = [s EXCEPT !.intent = fpRef[Fp(r)]]
      OBVIOUS
    <3>2. u \in RunState /\ ~u.rejected
      BY <1>1, <1>2, <2>2, <3>1 DEF RunState
    <3>3. \/ Become(r, [Blank EXCEPT !.pc = "disagree"])
          \/ Become(r, [u EXCEPT !.pc = "eligible"])
          \/ Become(r, Owned(u))
      BY <2>2, <3>1 DEF ReadFpRef, Raise
    <3>4. QED BY <3>2, <3>3, RaisedSilent, GotoSilent, OwnedSilent DEF Deciding
  <2>3. ASSUME CheckLaunchable(r)
        PROVE  \E t : Become(r, t) /\ Silent(t)
    BY <1>1, <1>2, <2>3, GotoSilent DEF CheckLaunchable, Goto, Deciding
  <2>4. ASSUME NEW n \in Issue, Begin(r, n)
        PROVE  \E t : Become(r, t) /\ Silent(t)
    <3>1. PICK d : \/ Become(r, [Blank EXCEPT !.pc = "error"])
                   \/ Become(r, [Blank EXCEPT !.pc = "issue-ref", !.issue = n,
                                              !.doc = d])
      BY <2>4 DEF Begin, Raise
    <3>2. Silent([Blank EXCEPT !.pc = "issue-ref", !.issue = n, !.doc = d])
      BY DEF Silent, Blank, Deciding
    <3>3. QED BY <3>1, <3>2, RaisedSilent
  <2>5. QED BY <2>1, <2>2, <2>3, <2>4
<1>4. Informed(r, t)
  BY <1>1, <1>3, SilentInformed
<1>5. QED BY <1>1, <1>3, <1>4, ReadingStep

\* A step that writes neither records nor requests.
LEMMA TagStep ==
    ASSUME Inv, EInv, [Next]_vars,
           UNCHANGED <<issues, comments, late, launches, started>>,
           NEW r \in Run, Unwritten(runs[r]), NEW t, Become(r, t), Silent(t)
    PROVE  EInv'
<1>1. Written' = Written /\ Informed(r, runs[r])
  BY DEF Written, EInv, InformedOK
<1>2. Informed(r, t)'
  BY <1>1 DEF Silent, Informed, Unwritten, Deciding, Backed
<1>3. InformedOK'
  BY <1>1, <1>2, RunInformed DEF Same
<1>4. RecordsOK'
  <2>1. \A c \in comments' : Backed(c.status, c.fp, c.issue)'
    BY BackedStay DEF Same
  <2>2. QED BY <1>1, <2>1 DEF EInv, RecordsOK
<1>5. LateOK' /\ StartedOK' /\ LabelsOK'
  BY LateStay, StartedStay, LabelsStay
<1>6. QED BY <1>3, <1>4, <1>5 DEF EInv

LEMMA ReserveEvidence ==
    ASSUME Inv, EInv, [Next]_vars, NEW r \in Run,
           ReserveFingerprint(r) \/ ReserveIssue(r)
    PROVE  EInv'
<1> DEFINE s == runs[r]
<1>1. /\ UNCHANGED <<issues, comments, late, launches, started>>
      /\ s \in RunState /\ Unwritten(s) /\ s.issue \in Issue
      /\ Fp(r) \in Fingerprint /\ OwnIntent(r) \in Intent
      /\ ReserveIssue(r) => s.intent \in Intent
  BY LocatedRun
  DEF ReserveFingerprint, ReserveIssue, history, At, Unwritten, Deciding,
      Located, Fp, Inv, ITypeOK, LocalOK
<1>2. ~s.rejected
  BY DEF EInv, InformedOK, Informed, ReserveFingerprint, ReserveIssue, At, Deciding
<1>3. PICK t : Become(r, t) /\ Silent(t)
  <2>1. CASE ReserveFingerprint(r) /\ fpRef[Fp(r)] = None
    <3>1. Silent([s EXCEPT !.pc = "reserve-issue", !.intent = OwnIntent(r)])
      BY <1>1, <1>2 DEF Silent, RunState, Deciding
    <3>2. QED BY <2>1, <3>1 DEF ReserveFingerprint
  <2>2. CASE ReserveFingerprint(r) /\ fpRef[Fp(r)] # None
    <3>1. PICK u : u = [s EXCEPT !.intent = fpRef[Fp(r)]]
      OBVIOUS
    <3>2. u \in RunState /\ ~u.rejected
      BY <1>1, <1>2, <3>1 DEF RunState, Inv, ITypeOK, TypeOK
    <3>3. QED BY <2>2, <3>1, <3>2, OwnedSilent DEF ReserveFingerprint
  <2>3. CASE ReserveIssue(r)
    <3>1. PICK u, v : /\ u = [s EXCEPT !.new = TRUE, !.claim = s.intent]
                      /\ v = [s EXCEPT !.intent = issueRef[s.issue]]
      OBVIOUS
    <3>2. u \in RunState /\ ~u.rejected
      BY <1>1, <1>2, <2>3, <3>1 DEF RunState
    <3>3. v \in RunState /\ ~v.rejected
      BY <1>1, <1>2, <2>3, <3>1 DEF RunState, Inv, ITypeOK, TypeOK
    <3>4. \/ Become(r, [Blank EXCEPT !.pc = "error"])
          \/ Become(r, Owned(u)) \/ Become(r, Owned(v))
      BY <2>3, <3>1 DEF ReserveIssue, Raise, Number
    <3>5. QED BY <3>2, <3>3, <3>4, RaisedSilent, OwnedSilent
  <2>4. QED BY <2>1, <2>2, <2>3
<1>4. QED BY <1>1, <1>3, TagStep
-----------------------------------------------------------------------------
(* The decision, the polls and the choice of what to record                *)

LEMMA ReportInformed ==
    ASSUME NEW r \in Run, NEW s \in RunState, Informed(r, s), Unwritten(s),
           NEW status, Backed(status, FingerprintOf[s.doc], s.issue)
    PROVE  Informed(r, Report(s, status))
<1>1. PICK t : t = Report(s, status)
  OBVIOUS
<1>2. /\ t.pc = "publish" /\ t.status = status /\ t.doc = s.doc
      /\ t.issue = s.issue
  BY <1>1 DEF Report, RunState
<1>3. Informed(r, t)
  BY <1>2 DEF Informed, Deciding
<1>4. QED BY <1>1, <1>3

LEMMA RaisedInformed ==
    ASSUME NEW r \in Run
    PROVE  Informed(r, [Blank EXCEPT !.pc = "error"])
BY DEF Informed, Blank, Unwritten, Deciding

\* An issue whose reservation describes the run's incident owns the pair.
LEMMA ClaimedPair ==
    ASSUME Inv, NEW r \in Run, runs[r].pc \in Located, runs[r].claim # None
    PROVE  Reserved(Fp(r), Number(r))
<1>1. /\ Number(r) \in Issue /\ Fp(r) \in Fingerprint
      /\ Consistent(r, runs[r])
  BY LocatedRun DEF Fp, Number
<1>2. /\ issueRef[Number(r)] # None
      /\ FingerprintOf[issueRef[Number(r)].doc] = Fp(r)
  BY <1>1 DEF Consistent, Fp, Number
<1>3. QED BY <1>1, <1>2 DEF Inv, RefsOK, Reserved

LEMMA RecheckEvidence ==
    ASSUME Inv, EInv, [Next]_vars, NEW r \in Run, Recheck(r)
    PROVE  EInv'
<1> DEFINE s == runs[r]
<1>1. /\ UNCHANGED <<github, history>>
      /\ Informed(r, s) /\ s \in RunState /\ Unwritten(s) /\ s.pc \in Located
  BY LocatedRun
  DEF Recheck, EInv, InformedOK, At, Unwritten, Deciding, Located
<1>2. Informed(r, [Blank EXCEPT !.pc = "error"])
  BY RaisedInformed
<1>3. Informed(r, Report(s, "unknown"))
  BY <1>1, ReportInformed DEF Backed
<1>4. ASSUME s.claim # None, HasCopilot(s.issue)
      PROVE  Informed(r, Report(s, "accepted"))
  <2>1. Proven(FingerprintOf[s.doc], s.issue)
    BY <1>1, <1>4, ClaimedPair DEF Proven, HasCopilot, Fp, Number
  <2>2. QED BY <1>1, <2>1, ReportInformed DEF Backed
<1>5. Informed(r, [s EXCEPT !.pc = "assign"])
  <2>1. ~s.rejected
    BY <1>1 DEF Recheck, At, Informed, Deciding
  <2>2. QED BY <1>1, <2>1, GotoSilent, SilentInformed DEF Deciding
<1>6. \E t : Become(r, t) /\ Informed(r, t)
  BY <1>2, <1>3, <1>4, <1>5 DEF Recheck, Decided
<1>7. QED BY <1>1, <1>6, ReadingStep

LEMMA PollEvidence ==
    ASSUME Inv, EInv, [Next]_vars, NEW r \in Run, Poll(r)
    PROVE  EInv'
<1> DEFINE s == runs[r]
<1>1. /\ UNCHANGED <<github, history>>
      /\ Informed(r, s) /\ s \in RunState /\ Unwritten(s) /\ s.pc = "poll"
  BY LocatedRun DEF Poll, EInv, InformedOK, At, Unwritten, Reporting, Located
<1>2. /\ Reserved(FingerprintOf[s.doc], s.issue)
      /\ s.rejected => Refused(FingerprintOf[s.doc], s.issue)
  BY <1>1 DEF Informed
<1>3. HasCopilot(s.issue) => Informed(r, Report(s, "accepted"))
  BY <1>1, <1>2, ReportInformed DEF Backed, Proven, HasCopilot
<1>4. s.rejected => Informed(r, Report(s, "failed"))
  BY <1>1, <1>2, ReportInformed DEF Backed
<1>5. Informed(r, Report(s, "unknown"))
  BY <1>1, ReportInformed DEF Backed
<1>6. Informed(r, [s EXCEPT !.polls = @ + 1])
  <2>1. PICK t : t = [s EXCEPT !.polls = s.polls + 1]
    OBVIOUS
  <2>2. /\ t.pc = s.pc /\ t.doc = s.doc /\ t.issue = s.issue
        /\ t.rejected = s.rejected
    BY <1>1, <2>1 DEF RunState
  <2>3. Informed(r, t)
    BY <1>1, <2>2 DEF Informed, Unwritten, Deciding
  <2>4. QED BY <2>1, <2>3
<1>7. \E t : Become(r, t) /\ Informed(r, t)
  BY <1>3, <1>4, <1>5, <1>6, RaisedInformed DEF Poll, Polled
<1>8. QED BY <1>1, <1>7, ReadingStep

LEMMA PublishEvidence ==
    ASSUME Inv, EInv, [Next]_vars, NEW r \in Run, Publish(r)
    PROVE  EInv'
<1> DEFINE s == runs[r]
<1>1. /\ UNCHANGED <<github, history>>
      /\ Informed(r, s) /\ s \in RunState /\ s.pc = "publish"
  BY LocatedRun DEF Publish, EInv, InformedOK, At, Reporting, Located
<1>2. Informed(r, [s EXCEPT !.pc = "list"])
  <2>1. PICK t : t = [s EXCEPT !.pc = "list"]
    OBVIOUS
  <2>2. /\ t.pc = "list" /\ t.doc = s.doc /\ t.issue = s.issue
        /\ t.status = s.status
    BY <1>1, <2>1 DEF RunState
  <2>3. Informed(r, t)
    BY <1>1, <2>2 DEF Informed, Unwritten, Deciding
  <2>4. QED BY <2>1, <2>3
<1>3. QED BY <1>1, <1>2, RaisedInformed, ReadingStep DEF Publish, Raise, Goto

\* What a run goes on with once its event is recorded.
LEMMA RecordedState ==
    ASSUME NEW s \in RunState, NEW t, t = Recorded(s)
    PROVE  /\ t.pc = IF s.status = "accepted" THEN "label" ELSE "published"
           /\ t.doc = s.doc /\ t.issue = s.issue
<1>1. PICK p : /\ p = IF s.status = "accepted" THEN "label" ELSE "published"
               /\ t = [s EXCEPT !.pc = p, !.old = None]
  BY DEF Recorded
<1>2. t.pc = p /\ t.doc = s.doc /\ t.issue = s.issue
  BY <1>1 DEF RunState
<1>3. QED BY <1>1, <1>2

LEMMA RecordedInformed ==
    ASSUME NEW r \in Run, NEW s \in RunState,
           Stored(s.issue, FingerprintOf[s.doc]) # {},
           s.status = "accepted" => AcceptedShown(s.issue, FingerprintOf[s.doc])
    PROVE  Informed(r, Recorded(s))
<1>1. PICK t : t = Recorded(s)
  OBVIOUS
<1>2. Informed(r, t)
  BY <1>1, RecordedState DEF Informed, Unwritten, Deciding
<1>3. QED BY <1>1, <1>2

LEMMA ListEvidence ==
    ASSUME Inv, EInv, [Next]_vars, NEW r \in Run, ListStored(r)
    PROVE  EInv'
<1> DEFINE s == runs[r]
           f == FingerprintOf[s.doc]
           stored == Stored(s.issue, f)
<1>1. /\ UNCHANGED <<github, history>>
      /\ Informed(r, s) /\ s \in RunState /\ s.pc = "list"
  BY LocatedRun DEF ListStored, EInv, InformedOK, At, Reporting, Located
<1>2. Informed(r, [s EXCEPT !.pc = "post"])
  <2>1. PICK t : t = [s EXCEPT !.pc = "post"]
    OBVIOUS
  <2>2. /\ t.pc = "post" /\ t.doc = s.doc /\ t.issue = s.issue
        /\ t.status = s.status
    BY <1>1, <2>1 DEF RunState
  <2>3. Informed(r, t)
    BY <1>1, <2>2 DEF Informed, Unwritten, Deciding
  <2>4. QED BY <2>1, <2>3
<1>3. ASSUME NEW old \in stored
      PROVE  Informed(r, Against(s, old))
  <2>1. old \in comments /\ old.issue = s.issue /\ old.fp = f
    BY <1>3 DEF Stored
  <2>2. CASE old.status \in {s.status, "accepted"}
    <3>1. s.status = "accepted" => AcceptedShown(s.issue, f)
      BY <1>3, <2>2 DEF AcceptedShown
    <3>2. Informed(r, Recorded(s))
      BY <1>1, <1>3, <3>1, RecordedInformed
    <3>3. QED BY <2>2, <3>2 DEF Against
  <2>3. CASE old.status \notin {s.status, "accepted"} /\ s.status = "accepted"
    <3>1. PICK t : t = [s EXCEPT !.pc = "patch", !.old = old]
      OBVIOUS
    <3>2. /\ t.pc = "patch" /\ t.doc = s.doc /\ t.issue = s.issue
          /\ t.status = s.status /\ t.old = old
      BY <1>1, <3>1 DEF RunState
    <3>3. Shown(t.old)
      BY <2>1, <3>2 DEF Shown, Same
    <3>4. Informed(r, t)
      BY <1>1, <2>1, <2>3, <3>2, <3>3 DEF Informed, Unwritten, Deciding
    <3>5. Against(s, old) = t
      BY <2>3, <3>1 DEF Against
    <3>6. QED BY <3>4, <3>5
  <2>4. CASE old.status \notin {s.status, "accepted"} /\ s.status # "accepted"
    BY <2>4, RaisedInformed DEF Against
  <2>5. QED BY <2>2, <2>3, <2>4
<1>4. \A old \in Foremost(stored) : old \in stored
  BY DEF Foremost
<1>5. \E t : Become(r, t) /\ Informed(r, t)
  <2>1. CASE stored = {}
    BY <1>2, <2>1 DEF ListStored, Goto, Number, Fp
  <2>2. CASE stored # {}
    <3>1. PICK old \in Foremost(stored) : Become(r, Against(s, old))
      BY <2>2 DEF ListStored, Number, Fp
    <3>2. QED BY <1>3, <1>4, <3>1
  <2>3. QED BY <2>1, <2>2
<1>6. QED BY <1>1, <1>5, ReadingStep

LEMMA FailEvidence ==
    ASSUME Inv, EInv, [Next]_vars, NEW r \in Run, Fail(r)
    PROVE  EInv'
BY RaisedInformed, ReadingStep DEF Fail, Raise
-----------------------------------------------------------------------------
(* The assignment request                                                  *)

LEMMA AssignEvidence ==
    ASSUME Inv, EInv, [Next]_vars, NEW r \in Run,
           Assign(r) \/ AssignWithoutEffect(r) \/ LoseAssign(r)
    PROVE  EInv'
<1>1. PICK f, n : f = Fp(r) /\ n = Number(r)
  OBVIOUS
<1> DEFINE s == runs[r]
           a == [kind |-> "assign", fp |-> f, issue |-> n]
<1>2. /\ At(r, "assign") /\ CountLaunch(r) /\ UNCHANGED comments
      /\ late' \in {late, late \cup {a}}
      /\ started' \in {started, started \cup {<<f, n>>}}
      /\ UNCHANGED issues \/ Assigned(n)
  BY <1>1 DEF Assign, AssignWithoutEffect, LoseAssign, github
<1>3. f \in Fingerprint /\ n \in Issue /\ Reserved(f, n)
  <2>1. /\ f \in Fingerprint /\ n \in Issue /\ fpRef[f] = issueRef[n]
        /\ fpRef[f] = OwnIntent(r) /\ fpRef[f] # None
    BY <1>1, <1>2, AssigningRun
  <2>2. OwnIntent(r).issue = n
    BY <1>1 DEF OwnIntent
  <2>3. QED BY <2>1, <2>2 DEF Reserved
<1>4. launches[f][n] = 0 /\ launches'[f][n] = 1
  <2>1. launches[f][n] = 0
    BY <1>1, <1>2, <1>3, NotLaunchedYet
  <2>2. QED
    BY <1>1, <1>2, <1>3, <2>1 DEF CountLaunch, Inv, ITypeOK, TypeOK
\* An unsent request is neither executed nor under way.
<1>5. <<f, n>> \notin started /\ a \notin late
  BY <1>3, <1>4 DEF EInv, StartedOK, LateOK, Sound
<1>6. /\ s \in RunState /\ Informed(r, s) /\ Unwritten(s) /\ ~s.rejected
      /\ f = FingerprintOf[s.doc] /\ n = s.issue
  <2>1. s \in RunState /\ Informed(r, s) /\ s.pc = "assign"
    BY <1>2, LocatedRun DEF At, EInv, InformedOK, Located, Deciding
  <2>2. QED BY <1>1, <2>1 DEF Informed, Unwritten, Deciding, Fp, Number
<1>7. Written' = Written
  <2>1. a.kind # "post"
    OBVIOUS
  <2> HIDE DEF a
  <2>2. {p \in late' : p.kind = "post"} = {p \in late : p.kind = "post"}
    BY <1>2, <2>1
  <2>3. QED BY <1>2, <2>2 DEF Written
<1>8. PICK t : /\ Become(r, t) /\ t.pc = "poll" /\ t.doc = s.doc
               /\ t.issue = s.issue /\ (t.rejected => Refused(f, n)')
  <2>1. CASE Become(r, [s EXCEPT !.pc = "poll"])
    <3>1. PICK t : t = [s EXCEPT !.pc = "poll"]
      OBVIOUS
    <3>2. t.pc = "poll" /\ t.doc = s.doc /\ t.issue = s.issue /\ ~t.rejected
      BY <1>6, <3>1 DEF RunState
    <3>3. QED BY <2>1, <3>1, <3>2
  <2>2. CASE /\ AssignWithoutEffect(r)
             /\ Become(r, [s EXCEPT !.pc = "poll", !.rejected = TRUE])
    <3>1. PICK t : t = [s EXCEPT !.pc = "poll", !.rejected = TRUE]
      OBVIOUS
    <3>2. t.pc = "poll" /\ t.doc = s.doc /\ t.issue = s.issue
      BY <1>6, <3>1 DEF RunState
    <3>3. UNCHANGED <<late, started>>
      BY <2>2 DEF AssignWithoutEffect, github
    <3>4. Refused(f, n)'
      BY <1>4, <1>5, <3>3 DEF Refused
    <3>5. QED BY <2>2, <3>1, <3>2, <3>4
  <2>3. QED
    BY <2>1, <2>2 DEF Assign, AssignWithoutEffect, LoseAssign, Goto
<1>9. Informed(r, t)'
  <2>1. Reserved(f, n)' /\ (t.rejected => Refused(f, n)')
    BY <1>3, <1>8, TagsStay DEF TagsKept
  <2>2. \A c \in Written' : c.by # r
    BY <1>6, <1>7 DEF Informed
  <2>3. f = FingerprintOf[t.doc] /\ n = t.issue
    BY <1>6, <1>8
  <2>4. QED BY <1>8, <2>1, <2>2, <2>3 DEF Informed, Deciding
<1>10. InformedOK'
  BY <1>7, <1>8, <1>9, RunInformed DEF Same
<1>11. RecordsOK'
  <2>1. \A c \in comments' : Backed(c.status, c.fp, c.issue)'
    BY <1>2, BackedStay DEF Same
  <2>2. QED BY <1>7, <2>1 DEF EInv, RecordsOK
<1>12. LateOK'
  <2>1. Sound(a)'
    BY <1>4 DEF Sound
  <2>2. QED BY <1>2, <2>1, LateStay
<1>13. StartedOK'
  BY <1>2, <1>4, StartedStay
<1>14. LabelsOK'
  <2>1. \A m \in Issue : issues'[m].labelled = issues[m].labelled
    BY <1>2, <1>3 DEF Assigned, Inv, ITypeOK, TypeOK, IssueState
  <2>2. QED BY <2>1, LabelsStay
<1>15. QED BY <1>10, <1>11, <1>12, <1>13, <1>14 DEF EInv
-----------------------------------------------------------------------------
(* The writes: record_event, the labels, and what is lost of them          *)

\* A run's own event is backed as long as it is about to be written.
LEMMA OwnEvent ==
    ASSUME Inv, EInv, NEW r \in Run, At(r, "post"), NEW e, e = Event(r)
    PROVE  /\ e.by = r /\ e.issue = runs[r].issue /\ e.status = runs[r].status
           /\ e.fp = FingerprintOf[runs[r].doc]
           /\ e.issue \in Issue /\ e.fp \in Fingerprint
           /\ Backed(e.status, e.fp, e.issue)
           /\ \A c \in Written : c.by # e.by
<1>1. /\ e.by = r /\ e.issue = runs[r].issue /\ e.status = runs[r].status
      /\ e.fp = FingerprintOf[runs[r].doc]
  BY DEF Event, Number, Fp
<1>2. runs[r].pc = "post" /\ Informed(r, runs[r])
  BY DEF At, EInv, InformedOK
<1>3. e.issue \in Issue /\ e.fp \in Fingerprint
  BY <1>1, <1>2, LocatedRun DEF Located, Reporting
<1>4. Backed(e.status, e.fp, e.issue) /\ \A c \in Written : c.by # e.by
  BY <1>1, <1>2 DEF Informed, Unwritten
<1>5. QED BY <1>1, <1>3, <1>4

LEMMA PostEvidence ==
    ASSUME Inv, EInv, [Next]_vars, NEW r \in Run, PostComment(r)
    PROVE  EInv'
<1>1. PICK e, s : e = Event(r) /\ s = runs[r]
  OBVIOUS
<1>2. PICK t : t = Recorded(s)
  OBVIOUS
<1>3. /\ e.by = r /\ e.issue = s.issue /\ e.status = s.status
      /\ e.fp = FingerprintOf[s.doc]
      /\ e.issue \in Issue /\ e.fp \in Fingerprint
      /\ Backed(e.status, e.fp, e.issue)
      /\ \A c \in Written : c.by # e.by
  BY <1>1, OwnEvent DEF PostComment
<1>4. s \in RunState
  BY <1>1 DEF Inv, ITypeOK, TypeOK
<1>5. /\ comments' = comments \cup {e} /\ Become(r, t)
      /\ UNCHANGED <<issues, late, launches, started>>
  BY <1>1, <1>2 DEF PostComment, history
<1>6. Written' = Written \cup {e}
  BY <1>5 DEF Written
<1>7. Informed(r, t)'
  <2>1. e \in Stored(s.issue, FingerprintOf[s.doc])'
    BY <1>3, <1>5 DEF Stored
  <2>2. QED
    BY <1>2, <1>3, <1>4, <2>1, RecordedState
    DEF Informed, Unwritten, Deciding, AcceptedShown
<1>8. InformedOK'
  BY <1>3, <1>5, <1>6, <1>7, RunInformed DEF Same
<1>9. RecordsOK'
  <2>1. PICK status, f, n : status = e.status /\ f = e.fp /\ n = e.issue
    OBVIOUS
  <2>2. Backed(status, f, n)'
    BY <1>3, <2>1, BackingStays
  <2>3. \A c \in comments' : Backed(c.status, c.fp, c.issue)'
    BY <1>5, <2>1, <2>2, BackedStay DEF Same
  <2>4. \A c, d \in Written' : c.by = d.by => Same(c, d)
    BY <1>3, <1>6, AuthorAdded DEF EInv, Same
  <2>5. QED BY <2>3, <2>4 DEF RecordsOK
<1>10. LateOK' /\ StartedOK' /\ LabelsOK'
  BY <1>5, LateStay, StartedStay, LabelsStay
<1>11. QED BY <1>8, <1>9, <1>10 DEF EInv

\* A PATCH only ever upgrades records that are proven.
LEMMA UpgradeEvidence ==
    ASSUME Inv, EInv, [Next]_vars, NEW old, Replace(old, "accepted"),
           Shown(old), Proven(old.fp, old.issue),
           \A q \in late' : q \in late
    PROVE  /\ RecordsOK'
           /\ \A c \in Written' : \E d \in Written : Same(c, d)
           /\ \E d \in comments' : Same(old, d) /\ d.status = "accepted"
<1>1. comments \subseteq Comment
  BY DEF Inv, ITypeOK, TypeOK
<1>2. PICK o \in comments : Same(old, o)
  BY DEF Shown
<1>3. o.issue = old.issue /\ o.fp = old.fp /\ o.by = old.by
      /\ old.issue \in Issue /\ old.fp \in Fingerprint
  BY <1>1, <1>2 DEF Same, Comment
<1>4. /\ \A d \in comments' : \E c \in comments :
           Same(c, d) /\ (d = c \/ (c.by = old.by /\ d.status = "accepted"))
      /\ \E d \in comments' : Same(old, d) /\ d.status = "accepted"
  BY <1>1, Upgrade
<1>5. \A c \in Written' : \E d \in Written : Same(c, d)
  BY <1>4 DEF Written, Same
<1>6. \A c \in comments' : Backed(c.status, c.fp, c.issue)'
  <2>1. ASSUME NEW d \in comments', NEW c \in comments, Same(c, d),
               c.by = old.by, d.status = "accepted"
        PROVE  Backed(d.status, d.fp, d.issue)'
    <3>1. Same(c, o)
      BY <1>3, <2>1 DEF EInv, RecordsOK, Written
    <3>2. d.fp = old.fp /\ d.issue = old.issue
      BY <1>3, <2>1, <3>1 DEF Same
    <3>3. PICK f, n : f = old.fp /\ n = old.issue
      OBVIOUS
    <3>4. Proven(f, n)'
      BY <1>3, <3>3, TagsStay, AssigneeStays DEF TagsKept, Proven
    <3>5. QED BY <2>1, <3>2, <3>3, <3>4 DEF Backed
  <2>2. QED BY <1>4, <2>1, BackedStay
<1>7. RecordsOK'
  BY <1>5, <1>6, AuthorsStay DEF EInv, RecordsOK
<1>8. QED BY <1>4, <1>5, <1>7

LEMMA PatchEvidence ==
    ASSUME Inv, EInv, [Next]_vars, NEW r \in Run, PatchComment(r)
    PROVE  EInv'
<1>1. PICK s, old : s = runs[r] /\ old = s.old
  OBVIOUS
<1>2. PICK t : t = Recorded(s)
  OBVIOUS
<1>3. /\ s \in RunState /\ s.pc = "patch" /\ s.status = "accepted"
      /\ Shown(old) /\ Proven(old.fp, old.issue)
      /\ old.issue = s.issue /\ old.fp = FingerprintOf[s.doc]
  BY <1>1 DEF PatchComment, At, EInv, InformedOK, Informed, Backed, Inv, ITypeOK,
              TypeOK
<1>4. /\ Replace(old, "accepted") /\ Become(r, t)
      /\ UNCHANGED <<issues, late, launches, started>>
  BY <1>1, <1>2, <1>3 DEF PatchComment, history
<1>5. /\ RecordsOK'
      /\ \A c \in Written' : \E d \in Written : Same(c, d)
      /\ \E d \in comments' : Same(old, d) /\ d.status = "accepted"
  BY <1>3, <1>4, UpgradeEvidence
<1>6. Informed(r, t)'
  <2>1. AcceptedShown(s.issue, FingerprintOf[s.doc])'
    BY <1>3, <1>5 DEF AcceptedShown, Stored, Same
  <2>2. QED
    BY <1>2, <1>3, <2>1, RecordedState DEF Informed, Unwritten, Deciding
<1>7. InformedOK'
  BY <1>4, <1>5, <1>6, RunInformed
<1>8. LateOK' /\ StartedOK' /\ LabelsOK'
  BY <1>4, LateStay, StartedStay, LabelsStay
<1>9. QED BY <1>5, <1>7, <1>8 DEF EInv
LEMMA LabelEvidence ==
    ASSUME Inv, EInv, [Next]_vars, NEW r \in Run, Label(r)
    PROVE  EInv'
<1>1. PICK s, n : s = runs[r] /\ n = s.issue
  OBVIOUS
<1>2. PICK t : t = [s EXCEPT !.pc = "done"]
  OBVIOUS
<1>3. /\ s \in RunState /\ s.pc = "label" /\ n \in Issue
      /\ AcceptedShown(n, FingerprintOf[s.doc])
  BY <1>1, LocatedRun DEF Label, At, EInv, InformedOK, Informed, Located, Reporting
<1>4. /\ issues' = [issues EXCEPT ![n].labelled = TRUE] /\ Become(r, t)
      /\ UNCHANGED <<comments, late, launches, started>>
  BY <1>1, <1>2 DEF Label, Goto, Number, history
<1>5. Written' = Written
  BY <1>4 DEF Written
<1>6. Informed(r, t)'
  <2>1. t.pc = "done" /\ t.doc = s.doc /\ t.issue = n
    BY <1>1, <1>2, <1>3 DEF RunState
  <2>2. AcceptedShown(n, FingerprintOf[s.doc])'
    BY <1>3, <1>4 DEF AcceptedShown, Stored
  <2>3. QED BY <2>1, <2>2 DEF Informed, Unwritten, Deciding
<1>7. InformedOK'
  BY <1>4, <1>5, <1>6, RunInformed DEF Same
<1>8. RecordsOK'
  <2>1. \A c \in comments' : Backed(c.status, c.fp, c.issue)'
    BY <1>4, BackedStay DEF Same
  <2>2. QED BY <1>5, <2>1 DEF EInv, RecordsOK
<1>9. LateOK' /\ StartedOK'
  BY <1>4, LateStay, StartedStay
<1>10. LabelsOK'
  <2>1. \A m \in Issue : m # n => issues'[m] = issues[m]
    BY <1>3, <1>4 DEF Inv, ITypeOK, TypeOK
  <2>2. \E c \in comments' : c.issue = n /\ c.status = "accepted"
    BY <1>3, <1>4 DEF AcceptedShown, Stored
  <2>3. QED BY <2>1, <2>2, LabelsStay
<1>11. QED BY <1>7, <1>8, <1>9, <1>10 DEF EInv

\* A request whose client gives up is as well backed as the write it was.
LEMMA LoseEvidence ==
    ASSUME Inv, EInv, [Next]_vars, NEW r \in Run, LoseWrite(r)
    PROVE  EInv'
<1>1. PICK s, t, p : /\ s = runs[r] /\ t = [Blank EXCEPT !.pc = "error"]
                     /\ p = Pending(r)
  OBVIOUS
<1>2. /\ late' = late \cup {p} /\ Become(r, t)
      /\ UNCHANGED <<issues, fpRef, issueRef, comments, launches, started>>
  BY <1>1 DEF LoseWrite, Raise, history
<1>3. s \in RunState /\ Informed(r, s)
  BY <1>1 DEF EInv, InformedOK, Inv, ITypeOK, TypeOK
\* What the request says, by the place where the run is.
<1>4. /\ Sound(p)'
      /\ \/ p.kind # "post"
         \/ /\ p.comment.by = r /\ \A c \in Written : c.by # r
            /\ p.kind = "post"
  <2>1. CASE At(r, "reserve-fp") \/ At(r, "reserve-issue")
    BY <1>1, <2>1 DEF Pending, At, Sound
  <2>2. CASE At(r, "post")
    <3>1. PICK e : e = Event(r)
      OBVIOUS
    <3>2. p.kind = "post" /\ p.comment = e
      BY <1>1, <2>2, <3>1 DEF Pending, At
    <3>3. /\ e.by = r /\ e.issue \in Issue /\ e.fp \in Fingerprint
          /\ Backed(e.status, e.fp, e.issue)
          /\ \A c \in Written : c.by # e.by
      BY <2>2, <3>1, OwnEvent
    <3>4. Sound(p)'
      BY <3>2, <3>3, BackingStays DEF Sound
    <3>5. QED BY <3>2, <3>3, <3>4
  <2>3. CASE At(r, "patch")
    <3>1. p.kind = "patch" /\ p.old = s.old /\ p.status = s.status
      BY <1>1, <2>3 DEF Pending, At
    <3>2. /\ s.status = "accepted" /\ Shown(s.old)
          /\ Proven(s.old.fp, s.old.issue)
      BY <1>1, <1>3, <2>3 DEF Informed, At, Backed
    <3>3. Shown(s.old)' /\ Proven(s.old.fp, s.old.issue)'
      BY <1>2, <3>2 DEF Shown, Proven, Reserved
    <3>4. QED BY <3>1, <3>2, <3>3 DEF Sound
  <2>4. CASE At(r, "label")
    <3>1. p.kind = "label" /\ p.issue = s.issue
      BY <1>1, <2>4 DEF Pending, At, Number
    <3>2. AcceptedShown(s.issue, FingerprintOf[s.doc])
      BY <1>1, <1>3, <2>4 DEF Informed, At
    <3>3. \E c \in comments' : c.issue = s.issue /\ c.status = "accepted"
      BY <1>2, <3>2 DEF AcceptedShown, Stored
    <3>4. QED BY <3>1, <3>3 DEF Sound
  <2>5. QED BY <2>1, <2>2, <2>3, <2>4 DEF LoseWrite, At
<1>5. \A c \in Written' : c \in Written \/ (p.kind = "post" /\ c = p.comment)
  BY <1>2 DEF Written
<1>6. Informed(r, t)'
  BY <1>1 DEF Informed, Blank, Unwritten, Deciding
<1>7. InformedOK'
  BY <1>2, <1>4, <1>5, <1>6, RunInformed DEF Same
<1>8. RecordsOK'
  <2>1. \A c \in comments' : Backed(c.status, c.fp, c.issue)'
    BY <1>2, BackedStay DEF Same
  <2>2. CASE p.kind # "post"
    BY <1>5, <2>1, <2>2, AuthorsStay DEF EInv, RecordsOK, Same
  <2>3. CASE p.kind = "post"
    <3>1. PICK e : e = p.comment
      OBVIOUS
    <3>2. \A c \in Written : c.by # e.by
      BY <1>4, <2>3, <3>1
    <3>3. \A c \in Written' : c = e \/ \E d \in Written : Same(c, d)
      BY <1>5, <3>1 DEF Same
    <3>4. QED BY <2>1, <3>2, <3>3, AuthorAdded DEF EInv, RecordsOK
  <2>4. QED BY <2>2, <2>3
<1>9. LateOK' /\ StartedOK' /\ LabelsOK'
  BY <1>2, <1>4, LateStay, StartedStay, LabelsStay
<1>10. QED BY <1>7, <1>8, <1>9 DEF EInv

LEMMA DeliverEvidence ==
    ASSUME Inv, EInv, [Next]_vars, NEW q \in late, Deliver(q)
    PROVE  EInv'
<1>1. /\ q \in Request /\ Sound(q) /\ late' \subseteq late
      /\ UNCHANGED <<runs, launches>>
  BY DEF Deliver, Inv, ITypeOK, TypeOK, EInv, LateOK
<1>2. LateOK'
  BY <1>1, LateStay
\* Enough for a request that neither creates nor changes a record.
<1>3. ASSUME UNCHANGED comments
      PROVE  RecordsOK' /\ InformedOK'
  <2>1. \A c \in Written' : c \in Written
    BY <1>1, <1>3 DEF Written
  <2>2. \A c \in comments' : Backed(c.status, c.fp, c.issue)'
    BY <1>3, BackedStay DEF Same
  <2>3. QED
    BY <1>1, <2>1, <2>2, AuthorsStay, AllInformed DEF EInv, RecordsOK, Same
<1>4. CASE q.kind \in {"fp", "issue"}
  <2>1. UNCHANGED <<issues, comments, started>>
    BY <1>4 DEF Deliver
  <2>2. QED BY <1>2, <1>3, <2>1, StartedStay, LabelsStay DEF EInv
<1>5. CASE q.kind = "assign"
  <2>1. /\ q.issue \in Issue /\ launches[q.fp][q.issue] > 0
        /\ UNCHANGED comments /\ Assigned(q.issue)
        /\ started' = started \cup {<<q.fp, q.issue>>}
    BY <1>1, <1>5 DEF Deliver, Request, Sound
  <2>2. StartedOK'
    BY <1>1, <2>1, StartedStay
  <2>3. \A m \in Issue : issues'[m].labelled = issues[m].labelled
    BY <2>1 DEF Assigned, Inv, ITypeOK, TypeOK, IssueState
  <2>4. QED BY <1>2, <1>3, <2>1, <2>2, <2>3, LabelsStay DEF EInv
<1>6. CASE q.kind = "post"
  <2>1. PICK e : e = q.comment
    OBVIOUS
  <2>2. /\ comments' = comments \cup {e} /\ UNCHANGED <<issues, started>>
        /\ e \in Comment /\ Backed(e.status, e.fp, e.issue) /\ e \in Written
    BY <1>1, <1>6, <2>1 DEF Deliver, Request, Sound, Written
  <2>3. \A c \in Written' : c \in Written
    BY <1>1, <2>2 DEF Written
  <2>4. PICK status, f, n : status = e.status /\ f = e.fp /\ n = e.issue
    OBVIOUS
  <2>5. Backed(status, f, n)'
    BY <2>2, <2>4, BackingStays DEF Comment
  <2>6. \A c \in comments' : Backed(c.status, c.fp, c.issue)'
    BY <2>2, <2>4, <2>5, BackedStay DEF Same
  <2>7. RecordsOK' /\ InformedOK'
    BY <1>1, <2>3, <2>6, AuthorsStay, AllInformed DEF EInv, RecordsOK, Same
  <2>8. QED BY <1>2, <2>2, <2>7, StartedStay, LabelsStay DEF EInv
<1>7. CASE q.kind = "patch"
  <2>1. PICK old : old = q.old
    OBVIOUS
  <2>2. /\ Replace(old, "accepted") /\ UNCHANGED <<issues, started>>
        /\ Shown(old) /\ Proven(old.fp, old.issue)
    BY <1>1, <1>7, <2>1 DEF Deliver, Sound
  <2>3. RecordsOK' /\ \A c \in Written' : \E d \in Written : Same(c, d)
    BY <1>1, <2>2, UpgradeEvidence
  <2>4. QED
    BY <1>1, <1>2, <2>2, <2>3, AllInformed, StartedStay, LabelsStay DEF EInv
<1>8. CASE q.kind = "label"
  <2>1. /\ q.issue \in Issue /\ UNCHANGED <<comments, started>>
        /\ issues' = [issues EXCEPT ![q.issue].labelled = TRUE]
        /\ \E c \in comments : c.issue = q.issue /\ c.status = "accepted"
    BY <1>1, <1>8 DEF Deliver, Request, Sound
  <2>2. \A m \in Issue : m # q.issue => issues'[m] = issues[m]
    BY <2>1 DEF Inv, ITypeOK, TypeOK
  <2>3. LabelsOK'
    BY <2>1, <2>2, LabelsStay
  <2>4. QED BY <1>2, <1>3, <2>1, <2>3, StartedStay DEF EInv
<1>9. QED BY <1>1, <1>4, <1>5, <1>6, <1>7, <1>8 DEF Request

LEMMA InterveneEvidence ==
    ASSUME Inv, EInv, [Next]_vars, InterveneStep
    PROVE  EInv'
<1>1. /\ UNCHANGED <<comments, late, runs, launches, started>>
      /\ \A m \in Issue : issues'[m].labelled = issues[m].labelled
  <2>1. /\ issues \in [Issue -> IssueState]
        /\ UNCHANGED <<comments, late, runs, launches, started>>
    BY DEF InterveneStep, EditIssue, Reopen, SetCopilot, history, Inv, ITypeOK,
           TypeOK
  <2>2. ASSUME NEW n \in Issue, NEW m \in Issue,
               \/ \E d \in Document \cup {None} :
                    issues' = [issues EXCEPT ![n].doc = d]
               \/ \E b \in BOOLEAN : issues' = [issues EXCEPT ![n].open = b]
               \/ \E c \in {"assigned", "removed"} :
                    issues' = [issues EXCEPT ![n].copilot = c]
        PROVE  issues'[m].labelled = issues[m].labelled
    BY <2>1, <2>2 DEF IssueState
  <2>3. QED BY <2>1, <2>2 DEF InterveneStep, EditIssue, Reopen, SetCopilot
<1>2. Written' = Written
  BY <1>1 DEF Written
<1>3. \A c \in comments' : Backed(c.status, c.fp, c.issue)'
  BY <1>1, BackedStay DEF Same
<1>4. RecordsOK' /\ InformedOK'
  BY <1>1, <1>2, <1>3, AllInformed DEF EInv, RecordsOK, Same
<1>5. QED BY <1>1, <1>4, LateStay, StartedStay, LabelsStay DEF EInv

-----------------------------------------------------------------------------

LEMMA InitEvidence == Init => EInv
<1> SUFFICES ASSUME Init
             PROVE  EInv
  OBVIOUS
<1>1. RecordsOK /\ LateOK /\ StartedOK /\ Written = {}
  BY DEF Init, RecordsOK, LateOK, StartedOK, Written
<1>2. LabelsOK
  BY DEF Init, LabelsOK
<1>3. InformedOK
  BY <1>1 DEF Init, InformedOK, Informed, Blank, Deciding
<1>4. QED BY <1>1, <1>2, <1>3 DEF EInv

LEMMA NextEvidence == Inv /\ EInv /\ [Next]_vars => EInv'
<1> SUFFICES ASSUME Inv, EInv, [Next]_vars
             PROVE  EInv'
  OBVIOUS
<1>1. ASSUME NEW r \in Run, Step(r)
      PROVE  EInv'
  BY <1>1, ReadEvidence, ReserveEvidence, RecheckEvidence, AssignEvidence,
     PollEvidence, PublishEvidence, ListEvidence, PostEvidence, PatchEvidence,
     LabelEvidence
  DEF Step
<1>2. ASSUME NEW r \in Run,
             \/ AssignWithoutEffect(r) \/ LoseAssign(r)
             \/ LoseWrite(r) \/ Fail(r) \/ \E n \in Issue : Begin(r, n)
      PROVE  EInv'
  BY <1>2, AssignEvidence, LoseEvidence, FailEvidence, ReadEvidence
<1>3. CASE (\E q \in late : Deliver(q)) \/ InterveneStep
  BY <1>3, DeliverEvidence, InterveneEvidence
<1>4. CASE UNCHANGED vars
  <2>1. UNCHANGED <<issues, fpRef, issueRef, comments, late, runs, launches,
                    started>>
    BY <1>4 DEF vars, github, history
  <2>2. Written' = Written
    BY <2>1 DEF Written
  <2>3. \A c \in comments' : Backed(c.status, c.fp, c.issue)'
    BY <2>1, BackedStay DEF Same
  <2>4. RecordsOK' /\ InformedOK'
    BY <2>1, <2>2, <2>3, AllInformed DEF EInv, RecordsOK, Same
  <2>5. QED BY <2>1, <2>4, LateStay, StartedStay, LabelsStay DEF EInv
<1>5. QED BY <1>1, <1>2, <1>3, <1>4 DEF Next, InterveneStep

\* Every record, every request under way and every run about to write has its
\* status backed by the tags, the assignee and the assignment requests.
THEOREM EvidenceHolds == Spec => []EInv
<1>1. Init => Inv /\ EInv
  BY InitInv, InitEvidence
<1>2. Inv /\ EInv /\ [Next]_vars => (Inv /\ EInv)'
  BY NextInv, NextEvidence
<1>3. QED BY <1>1, <1>2, PTL DEF Spec

\* An accepted record and the copilot-assigned label are only found where the
\* pair is reserved and Copilot has really been an assignee: publish_result and
\* record_event, whatever is edited, unassigned, lost or delayed meanwhile.
THEOREM ProvenEvidence == Spec => []AcceptedIsProven
<1>1. EInv => AcceptedIsProven
  BY DEF EInv, RecordsOK, LabelsOK, Backed, Proven, AcceptedIsProven
<1>2. QED BY <1>1, EvidenceHolds, PTL

\* A failed record tells of a refused request: no agent was started for its
\* incident and issue, and no request under way can start one.
THEOREM FailureIsFinal == Spec => []FailedNeverStarts
<1>1. EInv => FailedNeverStarts
  BY DEF EInv, RecordsOK, Backed, Refused, FailedNeverStarts
<1>2. QED BY <1>1, EvidenceHolds, PTL

\* The exit code of handoff agrees with the evidence on its issue.
THEOREM OutcomeEvidence == Spec => []OutcomeIsRecorded
<1>1. EInv => OutcomeIsRecorded
  BY DEF EInv, InformedOK, Informed, OutcomeIsRecorded, AcceptedShown, At, Fp,
         Number
<1>2. QED BY <1>1, EvidenceHolds, PTL

\* No write takes an accepted record away: the list-then-write of record_event
\* may work on a stale list, but it only ever upgrades.
THEOREM AcceptedStays == Spec => NeverDowngraded
<1>1. Inv /\ EInv /\ [Next]_vars
        => [\A n \in Issue, f \in Fingerprint :
              AcceptedShown(n, f) => AcceptedShown(n, f)']_comments
  BY CommentsStay, KeptFacts DEF EInv
<1>2. QED
  BY <1>1, InvHolds, EvidenceHolds, PTL DEF Spec, NeverDowngraded
=============================================================================
