------------------------------ MODULE Handoff ------------------------------
(***************************************************************************)
(* scripts/sre_handoff.py: handing an incident issue to the Copilot agent, *)
(* with the evidence it leaves through record_event of scripts/evidence.py.*)
(*                                                                         *)
(* A run is one process of the SRE Issue Triage workflow (or of an         *)
(* operator's command line); a rerun is another member of Run.  The        *)
(* workflow's concurrency group serializes its own runs on one issue; here *)
(* runs interleave freely, as command lines may.  Runs share               *)
(* the repository on GitHub: the issues, the two families of reservation   *)
(* tags and the evidence comments.  Every request to GitHub is a step.  A  *)
(* request whose outcome the client never learns stays in `late': GitHub   *)
(* may execute it at any later time, or never.                             *)
(***************************************************************************)
EXTENDS Naturals, FiniteSets

CONSTANTS
    Run,            \* handoff processes
    Issue,          \* issue numbers
    Document,       \* incident documents a publisher may put in an issue body
    Fingerprint,    \* incident fingerprints
    FingerprintOf,  \* FingerprintOf[d]: the fingerprint of document d
    None,           \* Python's None, and a body that is no incident document
    Polls,          \* reads of the issue after the assignment request
    MaxEnvironment, \* bound on what publishers and operators do to the issues
    MaxFaults       \* bound on lost, refused and failed requests

\* What the runs read of an issue.  `open' stands for all that validate_issue
\* demands besides the body; `copilot' remembers that the assignee was there.
IssueState == [open : BOOLEAN,
               doc : Document \cup {None},
               copilot : {"never", "assigned", "removed"},
               labelled : BOOLEAN]
Intent == [by : Run, issue : Issue, doc : Document]
Status == {"accepted", "failed", "unknown"}
Comment == [by : Run, issue : Issue, fp : Fingerprint, status : Status]

ASSUME HandoffAssumption ==
    /\ FingerprintOf \in [Document -> Fingerprint]
    /\ None \notin Issue \cup Document \cup Fingerprint \cup Intent \cup Comment
                   \cup Status
    /\ Polls \in Nat \ {0}
    /\ MaxEnvironment \in Nat /\ MaxFaults \in Nat

VARIABLES
    issues,      \* the issues on GitHub
    fpRef,       \* fpRef[f]: annotation of tag sre-handoff/<f>
    issueRef,    \* issueRef[n]: annotation of tag sre-handoff-issues/<n>
    comments,    \* the trusted handoff-evidence comments
    late,        \* requests given up by their client and not executed (yet)
    runs,        \* the local variables of every run
    launches,    \* launches[f][n]: assignment requests sent for f from n
    started,     \* pairs <<f, n>> whose assignment request GitHub executed
    since,       \* since[n]: bodies issue n had from its reservation on
    faults, environment

github == <<issues, fpRef, issueRef, comments, late>>
history == <<launches, started, since>>
vars == <<github, runs, history, faults, environment>>

-----------------------------------------------------------------------------
(* The state of one run: the local variables of handoff and record_event.  *)

\* Ends of a run: exit code 0, evidence published without acceptance, any
\* raised error or kill, and the errors "incomplete launch reservation" and
\* "launch reservations disagree".
Ended == {"done", "published", "error", "disagree"}

\* Before the assignment request: the states that may still lead to it.
Deciding == {"issue-ref", "fp-ref", "eligible", "reserve-fp", "reserve-issue",
             "reread", "recheck", "assign"}

\* From the assignment request, or from the decision not to send it.
Reporting == {"poll", "publish", "list", "post", "patch", "label"}

Blank == [pc |-> "idle", issue |-> None, doc |-> None, claim |-> None,
          intent |-> None, new |-> FALSE, rejected |-> FALSE, polls |-> 0,
          status |-> None, old |-> None]

RunState == [pc : {"idle"} \cup Deciding \cup Reporting \cup Ended,
             issue : Issue \cup {None},
             doc : Document \cup {None},
             claim : Intent \cup {None},       \* issue_intent
             intent : Intent \cup {None},      \* intent
             new : BOOLEAN,                    \* new_reservation
             rejected : BOOLEAN,
             polls : 0 .. Polls,
             status : Status \cup {None},      \* status of the event to record
             old : Comment \cup {None}]        \* the comment record_event found

At(r, p) == runs[r].pc = p
Active(r) == runs[r].pc \in Deciding \cup Reporting
Number(r) == runs[r].issue
Fp(r) == FingerprintOf[runs[r].doc]

\* Run r is left in local state s.
Become(r, s) == runs' = [runs EXCEPT ![r] = s]
Goto(r, p) == Become(r, [runs[r] EXCEPT !.pc = p])

\* An exception leaves nothing of the run but its exit code.
Raise(r, p) == Become(r, [Blank EXCEPT !.pc = p])

\* publish_result is called with this status.
Report(s, status) == [s EXCEPT !.pc = "publish", !.status = status]

\* A fault the client observes as an error, a kill, or an ignored request.
Fault == faults < MaxFaults /\ faults' = faults + 1

-----------------------------------------------------------------------------
(* Reservation: read_intent and reserve_launch                             *)

\* validate_issue: open, canonical, trusted, with a parsable incident.
Valid(n) == issues[n].open /\ issues[n].doc # None

\* read_intent refuses an issue tag that describes another fingerprint.
Mismatch(ref, f) == ref # None /\ FingerprintOf[ref.doc] # f

\* A run starts, reads its issue and validates it.
Begin(r, n) ==
    /\ At(r, "idle")
    /\ IF Valid(n)
         THEN Become(r, [Blank EXCEPT !.pc = "issue-ref", !.issue = n,
                                      !.doc = issues[n].doc])
         ELSE Raise(r, "error")
    /\ UNCHANGED <<github, history, faults, environment>>

\* issue_intent = read_intent(..., issue_number=number)
ReadIssueRef(r) ==
    /\ At(r, "issue-ref")
    /\ LET ref == issueRef[Number(r)] IN
         IF Mismatch(ref, Fp(r))
           THEN Raise(r, "error")
           ELSE Become(r, [runs[r] EXCEPT !.pc = "fp-ref", !.claim = ref])
    /\ UNCHANGED <<github, history, faults, environment>>

\* Where the run goes once `intent' is known: another issue's reservation is
\* reported, a missing issue_intent is read again, a pair is rechecked.
Owned(s) ==
    IF s.intent.issue # s.issue THEN Report(s, "unknown")
    ELSE IF s.claim = None THEN [s EXCEPT !.pc = "reread"]
    ELSE [s EXCEPT !.pc = "recheck"]

\* intent = read_intent(...)
ReadFpRef(r) ==
    /\ At(r, "fp-ref")
    /\ LET ref == fpRef[Fp(r)]
           s == [runs[r] EXCEPT !.intent = ref]
       IN  IF s.claim # None /\ ref # s.claim THEN Raise(r, "disagree")
           ELSE IF ref = None THEN Become(r, [s EXCEPT !.pc = "eligible"])
           ELSE Become(r, Owned(s))
    /\ UNCHANGED <<github, history, faults, environment>>

\* check_eligibility and the demo branch tip; a refusal is a Fail.
CheckLaunchable(r) ==
    /\ At(r, "eligible")
    /\ Goto(r, "reserve-fp")
    /\ UNCHANGED <<github, history, faults, environment>>

\* The annotation run r writes: created_at tells it from any other run's.
OwnIntent(r) == [by |-> r, issue |-> Number(r), doc |-> runs[r].doc]

\* GitHub creates a reference only if it does not exist.
CreateFpRef(i) ==
    LET f == FingerprintOf[i.doc] IN
      fpRef' = [fpRef EXCEPT ![f] = IF @ = None THEN i ELSE @]
CreateIssueRef(i) ==
    /\ issueRef' = [issueRef EXCEPT ![i.issue] = IF @ = None THEN i ELSE @]
    /\ since' = IF issueRef[i.issue] = None
                  THEN [since EXCEPT ![i.issue] = {issues[i.issue].doc}]
                  ELSE since

\* Mutant of ReserveFingerprint: the fingerprint's tag alone permits a launch.
ReserveFingerprintOnly(r) ==
    /\ At(r, "reserve-fp")
    /\ CreateFpRef(OwnIntent(r))
    /\ Become(r, IF fpRef[Fp(r)] = None
                   THEN Owned([runs[r] EXCEPT !.intent = OwnIntent(r),
                                              !.claim = OwnIntent(r),
                                              !.new = TRUE])
                   ELSE Owned([runs[r] EXCEPT !.intent = fpRef[Fp(r)]]))
    /\ UNCHANGED <<issues, issueRef, comments, late, history, faults,
                   environment>>

\* Mutant of ReserveFingerprint: a conflict does not stop the second claim.
ReserveFingerprintAnyway(r) ==
    /\ At(r, "reserve-fp")
    /\ CreateFpRef(OwnIntent(r))
    /\ Become(r, [runs[r] EXCEPT !.pc = "reserve-issue", !.intent = OwnIntent(r)])
    /\ UNCHANGED <<issues, issueRef, comments, late, history, faults,
                   environment>>

\* POST git/tags, then POST git/refs for the fingerprint: 201, or 409/422 and
\* the owner's annotation is read.
ReserveFingerprint(r) ==
    /\ At(r, "reserve-fp")
    /\ CreateFpRef(OwnIntent(r))
    /\ Become(r, IF fpRef[Fp(r)] = None
                   THEN [runs[r] EXCEPT !.pc = "reserve-issue",
                                        !.intent = OwnIntent(r)]
                   ELSE Owned([runs[r] EXCEPT !.intent = fpRef[Fp(r)]]))
    /\ UNCHANGED <<issues, issueRef, comments, late, history, faults,
                   environment>>

\* Mutant of ReserveIssue: new_reservation is lost with the second claim.
ReserveIssueNotNew(r) ==
    /\ At(r, "reserve-issue")
    /\ CreateIssueRef(runs[r].intent)
    /\ LET ref == issueRef[Number(r)] IN
         IF Mismatch(ref, Fp(r))
           THEN Raise(r, "error")
           ELSE Become(r, Owned(runs[r]))
    /\ UNCHANGED <<issues, fpRef, comments, late, launches, started, faults,
                   environment>>

\* POST git/refs for the issue: only this 201 makes the reservation new.
ReserveIssue(r) ==
    /\ At(r, "reserve-issue")
    /\ CreateIssueRef(runs[r].intent)
    /\ LET ref == issueRef[Number(r)] IN
         IF ref = None
           THEN Become(r, Owned([runs[r] EXCEPT !.new = TRUE,
                                                !.claim = runs[r].intent]))
         ELSE IF Mismatch(ref, Fp(r)) THEN Raise(r, "error")
         ELSE Become(r, Owned([runs[r] EXCEPT !.intent = ref]))
    /\ UNCHANGED <<issues, fpRef, comments, late, launches, started, faults,
                   environment>>

\* The second read of the issue's reservation.
Reread(r) ==
    /\ At(r, "reread")
    /\ LET ref == issueRef[Number(r)] IN
         IF Mismatch(ref, Fp(r))
           THEN Raise(r, "error")
           ELSE Become(r, [runs[r] EXCEPT !.pc = "recheck", !.claim = ref])
    /\ UNCHANGED <<github, history, faults, environment>>

-----------------------------------------------------------------------------
(* Launch: the rest of handoff                                             *)

HasCopilot(n) == issues[n].copilot = "assigned"

\* Mutant of Decided: an existing reservation is launched again.
DecidedRelaunch(s) ==
    IF ~Valid(s.issue) \/ issues[s.issue].doc # s.doc
      THEN [Blank EXCEPT !.pc = "error"]
    ELSE IF s.claim = None      THEN Report(s, "unknown")
    ELSE IF HasCopilot(s.issue) THEN Report(s, "accepted")
    ELSE [s EXCEPT !.pc = "assign"]

\* Mutant of Decided: the incident may have changed.
DecidedStale(s) ==
    IF ~Valid(s.issue)          THEN [Blank EXCEPT !.pc = "error"]
    ELSE IF s.claim = None      THEN Report(s, "unknown")
    ELSE IF HasCopilot(s.issue) THEN Report(s, "accepted")
    ELSE IF ~s.new              THEN Report(s, "unknown")
    ELSE [s EXCEPT !.pc = "assign"]

\* Mutant of Decided: the assignee is read before the reservation.
DecidedAssigneeFirst(s) ==
    IF ~Valid(s.issue) \/ issues[s.issue].doc # s.doc
      THEN [Blank EXCEPT !.pc = "error"]
    ELSE IF HasCopilot(s.issue)      THEN Report(s, "accepted")
    ELSE IF s.claim = None \/ ~s.new THEN Report(s, "unknown")
    ELSE [s EXCEPT !.pc = "assign"]

\* Only an unchanged incident goes on; what the run does next depends on the
\* reservation and on the actual assignee.
Decided(s) ==
    IF ~Valid(s.issue) \/ issues[s.issue].doc # s.doc
      THEN [Blank EXCEPT !.pc = "error"]
    ELSE IF s.claim = None      THEN Report(s, "unknown")
    ELSE IF HasCopilot(s.issue) THEN Report(s, "accepted")
    ELSE IF ~s.new              THEN Report(s, "unknown")
    ELSE [s EXCEPT !.pc = "assign"]

\* The issue is read again before anything is launched.
Recheck(r) ==
    /\ At(r, "recheck")
    /\ Become(r, Decided(runs[r]))
    /\ UNCHANGED <<github, history, faults, environment>>

Assigned(n) == issues' = [issues EXCEPT ![n].copilot = "assigned"]
CountLaunch(r) == launches' = [launches EXCEPT ![Fp(r)][Number(r)] = @ + 1]

\* POST assignees, executed and answered.
Assign(r) ==
    /\ At(r, "assign")
    /\ CountLaunch(r)
    /\ started' = started \cup {<<Fp(r), Number(r)>>}
    /\ Assigned(Number(r))
    /\ Goto(r, "poll")
    /\ UNCHANGED <<fpRef, issueRef, comments, late, since, faults, environment>>

\* POST assignees without an assignee.
AssignWithoutEffect(r) ==
    /\ At(r, "assign")
    /\ Fault
    /\ CountLaunch(r)
    /\ \/ Goto(r, "poll")    \* 201, and the assignee is silently ignored
       \/ Become(r, [runs[r] EXCEPT !.pc = "poll", !.rejected = TRUE])
                             \* 400, 401, 403, 404, 422: nothing was executed
    /\ UNCHANGED <<github, started, since, environment>>

\* Mutant of LoseAssign: a transport failure counts as a refusal.
LoseAssignAsRefusal(r) ==
    /\ At(r, "assign")
    /\ Fault
    /\ CountLaunch(r)
    /\ late' = late \cup {[kind |-> "assign", fp |-> Fp(r), issue |-> Number(r)]}
    /\ Become(r, [runs[r] EXCEPT !.pc = "poll", !.rejected = TRUE])
    /\ UNCHANGED <<issues, fpRef, issueRef, comments, started, since,
                   environment>>

\* POST assignees without a known outcome: the run goes on to the polls.
LoseAssign(r) ==
    /\ At(r, "assign")
    /\ Fault
    /\ CountLaunch(r)
    /\ late' = late \cup {[kind |-> "assign", fp |-> Fp(r), issue |-> Number(r)]}
    /\ Goto(r, "poll")
    /\ UNCHANGED <<issues, fpRef, issueRef, comments, started, since,
                   environment>>

\* Mutant of Polled: one poll too many.
PolledOnceMore(s) ==
    IF ~Valid(s.issue)          THEN [Blank EXCEPT !.pc = "error"]
    ELSE IF HasCopilot(s.issue) THEN Report(s, "accepted")
    ELSE IF s.polls <= Polls    THEN [s EXCEPT !.polls = @ + 1]
    ELSE Report(s, IF s.rejected THEN "failed" ELSE "unknown")

\* Only a live assignee proves acceptance.
Polled(s) ==
    IF ~Valid(s.issue)          THEN [Blank EXCEPT !.pc = "error"]
    ELSE IF HasCopilot(s.issue) THEN Report(s, "accepted")
    ELSE IF s.polls + 1 < Polls THEN [s EXCEPT !.polls = @ + 1]
    ELSE Report(s, IF s.rejected THEN "failed" ELSE "unknown")

\* One of the polls of the issue after the assignment request.
Poll(r) ==
    /\ At(r, "poll")
    /\ Become(r, Polled(runs[r]))
    /\ UNCHANGED <<github, history, faults, environment>>

-----------------------------------------------------------------------------
(* Evidence: record_event for the handoff event of publish_result          *)

\* GET of the issue: its incident must still be the event's, and an accepted
\* event needs a live assignee.
Publish(r) ==
    /\ At(r, "publish")
    /\ LET s == runs[r]
           d == issues[s.issue].doc
       IN  IF \/ d = None
              \/ FingerprintOf[d] # Fp(r)
              \/ s.status = "accepted" /\ ~HasCopilot(s.issue)
             THEN Raise(r, "error")
             ELSE Goto(r, "list")
    /\ UNCHANGED <<github, history, faults, environment>>

\* The stored records of one event_id, on one issue.
Stored(n, f) == {c \in comments : c.issue = n /\ c.fp = f}

\* Accepted records come first; observed_at orders the others, which is
\* abstracted to a choice.
Foremost(cs) ==
    IF \E c \in cs : c.status = "accepted"
      THEN {c \in cs : c.status = "accepted"}
      ELSE cs

\* record_event returned: labels follow an accepted event.
Recorded(s) ==
    [s EXCEPT !.pc = IF s.status = "accepted" THEN "label" ELSE "published",
              !.old = None]

\* Mutant of Against: any record is as good as the event.
AgainstNoUpgrade(s, old) == Recorded(s)

\* Mutant of Against: any other status replaces the record.
AgainstAnyChange(s, old) ==
    IF old.status \in {s.status, "accepted"} THEN Recorded(s)
    ELSE [s EXCEPT !.pc = "patch", !.old = old]

\* Mutant of Against: a failed record is final.
AgainstFailedFinal(s, old) ==
    IF old.status \in {s.status, "accepted"} THEN Recorded(s)
    ELSE IF s.status = "accepted" /\ old.status = "unknown"
      THEN [s EXCEPT !.pc = "patch", !.old = old]
    ELSE [Blank EXCEPT !.pc = "error"]

\* The event against the foremost record of its event_id: nothing to write, an
\* upgrade, or different facts.
Against(s, old) ==
    IF old.status \in {s.status, "accepted"} THEN Recorded(s)
    ELSE IF s.status = "accepted" THEN [s EXCEPT !.pc = "patch", !.old = old]
    ELSE [Blank EXCEPT !.pc = "error"]

\* GET of the comments, and the choice of what to write.
ListStored(r) ==
    /\ At(r, "list")
    /\ LET stored == Stored(Number(r), Fp(r)) IN
         IF stored = {}
           THEN Goto(r, "post")
           ELSE \E old \in Foremost(stored) : Become(r, Against(runs[r], old))
    /\ UNCHANGED <<github, history, faults, environment>>

Event(r) == [by |-> r, issue |-> Number(r), fp |-> Fp(r),
             status |-> runs[r].status]

\* PATCH replaces the body of the comment, whoever changed it meanwhile.
Replace(old, status) ==
    comments' = {IF c.by = old.by THEN [c EXCEPT !.status = status] ELSE c :
                 c \in comments}

PostComment(r) ==
    /\ At(r, "post")
    /\ comments' = comments \cup {Event(r)}
    /\ Become(r, Recorded(runs[r]))
    /\ UNCHANGED <<issues, fpRef, issueRef, late, history, faults, environment>>

PatchComment(r) ==
    /\ At(r, "patch")
    /\ Replace(runs[r].old, runs[r].status)
    /\ Become(r, Recorded(runs[r]))
    /\ UNCHANGED <<issues, fpRef, issueRef, late, history, faults, environment>>

\* publish_result adds the labels of an accepted handoff.
Label(r) ==
    /\ At(r, "label")
    /\ issues' = [issues EXCEPT ![Number(r)].labelled = TRUE]
    /\ Goto(r, "done")
    /\ UNCHANGED <<fpRef, issueRef, comments, late, history, faults, environment>>

-----------------------------------------------------------------------------
(* Failures                                                                *)

\* What a run's pending write asks of GitHub.
Pending(r) ==
    CASE At(r, "reserve-fp")    -> [kind |-> "fp", intent |-> OwnIntent(r)]
      [] At(r, "reserve-issue") -> [kind |-> "issue", intent |-> runs[r].intent]
      [] At(r, "post")          -> [kind |-> "post", comment |-> Event(r)]
      [] At(r, "patch")         -> [kind |-> "patch", old |-> runs[r].old,
                                    status |-> runs[r].status]
      [] At(r, "label")         -> [kind |-> "label", issue |-> Number(r)]

\* A write without a known outcome is never retried: the run fails.
LoseWrite(r) ==
    /\ runs[r].pc \in {"reserve-fp", "reserve-issue", "post", "patch", "label"}
    /\ Fault
    /\ late' = late \cup {Pending(r)}
    /\ Raise(r, "error")
    /\ UNCHANGED <<issues, fpRef, issueRef, comments, history, environment>>

\* A read that fails, a refused request, a cancelled job, a killed process.
Fail(r) ==
    /\ Active(r)
    /\ Fault
    /\ Raise(r, "error")
    /\ UNCHANGED <<github, history, environment>>

\* GitHub executes a request its client gave up on.
Deliver(q) ==
    /\ q \in late
    /\ late' = late \ {q}
    /\ \/ /\ q.kind = "fp"
          /\ CreateFpRef(q.intent)
          /\ UNCHANGED <<issues, issueRef, comments, since, started>>
       \/ /\ q.kind = "issue"
          /\ CreateIssueRef(q.intent)
          /\ UNCHANGED <<issues, fpRef, comments, started>>
       \/ /\ q.kind = "assign"
          /\ Assigned(q.issue)
          /\ started' = started \cup {<<q.fp, q.issue>>}
          /\ UNCHANGED <<fpRef, issueRef, comments, since>>
       \/ /\ q.kind = "post"
          /\ comments' = comments \cup {q.comment}
          /\ UNCHANGED <<issues, fpRef, issueRef, since, started>>
       \/ /\ q.kind = "patch"
          /\ Replace(q.old, q.status)
          /\ UNCHANGED <<issues, fpRef, issueRef, since, started>>
       \/ /\ q.kind = "label"
          /\ issues' = [issues EXCEPT ![q.issue].labelled = TRUE]
          /\ UNCHANGED <<fpRef, issueRef, comments, since, started>>
    /\ UNCHANGED <<runs, launches, faults, environment>>

-----------------------------------------------------------------------------
(* The publisher and the operators, at any moment                          *)

Intervene == environment < MaxEnvironment /\ environment' = environment + 1

\* The publisher updates the observations, or replaces the body altogether.
EditIssue(n, d) ==
    /\ Intervene
    /\ issues[n].doc # d
    /\ issues' = [issues EXCEPT ![n].doc = d]
    /\ since' = IF issueRef[n] = None THEN since
                ELSE [since EXCEPT ![n] = @ \cup {d}]
    /\ UNCHANGED <<fpRef, issueRef, comments, late, runs, launches, started,
                   faults>>

\* Closing, reopening, and every other loss of what validate_issue demands.
Reopen(n, open) ==
    /\ Intervene
    /\ issues[n].open # open
    /\ issues' = [issues EXCEPT ![n].open = open]
    /\ UNCHANGED <<fpRef, issueRef, comments, late, runs, history, faults>>

\* An operator assigns Copilot by hand, or somebody removes it.
SetCopilot(n, c) ==
    /\ Intervene
    /\ c = "removed" => HasCopilot(n)
    /\ issues[n].copilot # c
    /\ issues' = [issues EXCEPT ![n].copilot = c]
    /\ UNCHANGED <<fpRef, issueRef, comments, late, runs, history, faults>>

-----------------------------------------------------------------------------

Init ==
    /\ issues \in [Issue -> [open : {TRUE}, doc : Document, copilot : {"never"},
                             labelled : {FALSE}]]
    /\ fpRef = [f \in Fingerprint |-> None]
    /\ issueRef = [n \in Issue |-> None]
    /\ comments = {} /\ late = {}
    /\ runs = [r \in Run |-> Blank]
    /\ launches = [f \in Fingerprint |-> [n \in Issue |-> 0]]
    /\ started = {}
    /\ since = [n \in Issue |-> {}]
    /\ faults = 0 /\ environment = 0

\* What run r does by itself when nothing fails.
Step(r) ==
    \/ ReadIssueRef(r) \/ ReadFpRef(r) \/ CheckLaunchable(r)
    \/ ReserveFingerprint(r) \/ ReserveIssue(r) \/ Reread(r) \/ Recheck(r)
    \/ Assign(r) \/ Poll(r)
    \/ Publish(r) \/ ListStored(r) \/ PostComment(r) \/ PatchComment(r)
    \/ Label(r)

Next ==
    \/ \E r \in Run : \/ Step(r)
                      \/ AssignWithoutEffect(r) \/ LoseAssign(r)
                      \/ LoseWrite(r) \/ Fail(r)
    \/ \E r \in Run, n \in Issue : Begin(r, n)
    \/ \E q \in late : Deliver(q)
    \/ \E n \in Issue, d \in Document \cup {None} : EditIssue(n, d)
    \/ \E n \in Issue, b \in BOOLEAN : Reopen(n, b)
    \/ \E n \in Issue, c \in {"assigned", "removed"} : SetCopilot(n, c)

Spec == Init /\ [][Next]_vars

\* A started process runs until it ends.  Nobody has to start one, to repair
\* an issue or to execute a lost request.
FairSpec == Spec /\ \A r \in Run : WF_vars(Step(r))

-----------------------------------------------------------------------------
(* Properties                                                              *)

Request ==
    [kind : {"fp", "issue"}, intent : Intent]
    \cup [kind : {"assign"}, fp : Fingerprint, issue : Issue]
    \cup [kind : {"post"}, comment : Comment]
    \cup [kind : {"patch"}, old : Comment, status : Status]
    \cup [kind : {"label"}, issue : Issue]

\* The shape of the repository's and the runs' state.
TypeOK ==
    /\ issues \in [Issue -> IssueState]
    /\ fpRef \in [Fingerprint -> Intent \cup {None}]
    /\ issueRef \in [Issue -> Intent \cup {None}]
    /\ comments \subseteq Comment
    /\ late \subseteq Request
    /\ runs \in [Run -> RunState]
    /\ launches \in [Fingerprint -> [Issue -> Nat]]
    /\ started \subseteq Fingerprint \X Issue
    /\ since \in [Issue -> SUBSET (Document \cup {None})]
    /\ faults \in 0 .. MaxFaults /\ environment \in 0 .. MaxEnvironment

\* The two reservations of a pair are complete and name each other.
Reserved(f, n) ==
    /\ fpRef[f] # None /\ fpRef[f].issue = n
    /\ issueRef[n] = fpRef[f]

\* "Fail-closed, at-most-one automatic Copilot assignment per incident"
\* (module docstring): whatever is lost, delayed, edited or rerun, and however
\* runs on several issues interleave, one assignment request at most is ever
\* sent for a fingerprint, and one at most for an issue.
AtMostOneLaunch ==
    \A f, g \in Fingerprint : \A n, m \in Issue :
        launches[f][n] > 0 /\ launches[g][m] > 0 /\ (f = g \/ n = m)
            => f = g /\ n = m /\ launches[f][n] = 1

\* "Both claims must complete before a new launch" (docs/incident-response.md):
\* an assignment request was only ever sent for a pair whose two reservation
\* tags exist and carry the same annotation, naming that issue and incident.
LaunchIsReserved ==
    \A f \in Fingerprint, n \in Issue : launches[f][n] > 0 => Reserved(f, n)

\* The errors "incomplete launch reservation" and "launch reservations
\* disagree" of handoff tell of a hand that touched the tags: the runs' own
\* interleavings, lost answers and late requests never produce them.
NoDisagreement == \A r \in Run : ~At(r, "disagree")

\* A run that is about to send the assignment request, or has sent it, holds a
\* document the issue still had after the reservation was complete: an edit
\* between validation and reservation is always noticed.
LaunchSawReservedIncident ==
    \A f \in Fingerprint, n \in Issue :
        launches[f][n] > 0 => issueRef[n].doc \in since[n]

\* Evidence of an accepted handoff is on an issue that owns the incident's
\* complete reservation and has really had Copilot as an assignee; the
\* copilot-assigned label appears on no other issue.
AcceptedIsProven ==
    /\ \A c \in comments :
         c.status = "accepted" => /\ Reserved(c.fp, c.issue)
                                  /\ issues[c.issue].copilot # "never"
    /\ \A n \in Issue :
         issues[n].labelled =>
           \E c \in comments : c.issue = n /\ c.status = "accepted"

\* Evidence of a failed handoff is only left by an assignment request GitHub
\* refused: no agent was started for it, and none can be by a late execution.
FailedNeverStarts ==
    \A c \in comments : c.status = "failed" =>
        /\ <<c.fp, c.issue>> \notin started
        /\ [kind |-> "assign", fp |-> c.fp, issue |-> c.issue] \notin late

\* A run's exit code agrees with the durable evidence: 0 only with an accepted
\* record on its issue, and a run that ends without error leaves a record.
OutcomeIsRecorded ==
    \A r \in Run :
        /\ runs[r].pc \in {"done", "published"} => Stored(Number(r), Fp(r)) # {}
        /\ At(r, "done") =>
             \E c \in Stored(Number(r), Fp(r)) : c.status = "accepted"

AcceptedShown(n, f) == \E c \in Stored(n, f) : c.status = "accepted"

\* "Handoff unknown/failed evidence can be upgraded to accepted"
\* (docs/incident-response.md), and never back: neither a concurrent nor a
\* late write of another run takes an accepted record from the timeline.
NeverDowngraded ==
    [][\A n \in Issue, f \in Fingerprint :
          AcceptedShown(n, f) => AcceptedShown(n, f)']_comments

\* The reservation ledger is what the handoff promises.
LedgerOwner == [f \in Fingerprint |->
                  IF fpRef[f] = None THEN None ELSE fpRef[f].issue]
LedgerClaimed == [n \in Issue |->
                    IF issueRef[n] = None THEN None
                    ELSE FingerprintOf[issueRef[n].doc]]
Ledger == INSTANCE LaunchLedger
            WITH owner <- LedgerOwner, claimed <- LedgerClaimed

\* Every step of the runs and of GitHub is a step of the launch ledger: a
\* reservation is made once and never changed, the issue's claim follows the
\* fingerprint's reservation, and the launch follows both.
ImplementsLedger == Ledger!Spec

\* The runs that have taken up incident f.
TakenUp(f) == {r \in Run : Active(r) /\ Fp(r) = f}

\* While no request fails and nobody interferes, an incident some run has taken
\* up ends with accepted evidence, however many issues and runs compete.
Converges ==
    [](faults = 0 /\ environment = 0) =>
        \A f \in Fingerprint :
            TakenUp(f) # {} ~> \E n \in Issue : AcceptedShown(n, f)

\* The runs just begun on a reserved issue with a live Copilot assignee, once
\* failures and interventions are over.
Retrying(n) ==
    {r \in Run : /\ At(r, "issue-ref") /\ Number(r) = n
                 /\ faults = MaxFaults /\ environment = MaxEnvironment
                 /\ Valid(n) /\ issues[n].doc = runs[r].doc
                 /\ Reserved(Fp(r), n) /\ HasCopilot(n)}

\* "Retry the workflow; the assignment is read before any new write"
\* (docs/incident-response.md): such a run publishes the assignment, whatever
\* evidence the earlier runs left.
RetryPublishes ==
    \A r \in Run, n \in Issue : r \in Retrying(n) ~> At(r, "done")
=============================================================================
