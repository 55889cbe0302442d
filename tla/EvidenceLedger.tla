-------------------------- MODULE EvidenceLedger --------------------------
(***************************************************************************)
(* Deployment and recovery evidence on one incident issue                  *)
(* (scripts/evidence.py): record_event reads the comments and then posts,  *)
(* without a lock; timeline and pull_request_rows turn what they read into *)
(* rows.  A process reads the comments of the authors that its command     *)
(* names.  observed_at is the part of an event in which two records of one *)
(* event_id may differ.                                                    *)
(***************************************************************************)
EXTENDS Naturals, Sequences, SequencesExt

CONSTANTS
    Writer,     \* processes that record events, each as an author of its own
    Trusted     \* Trusted[w]: the authors that w's command names

VARIABLES
    comments,   \* records and their authors, in the order GitHub lists them
    writers     \* writers[w]: what w records, and its next request

ledgerVars == <<comments, writers>>

Resting == [pc |-> "idle", event |-> <<>>]
LedgerInit == comments = <<>> /\ writers = [w \in Writer |-> Resting]

Become(w, pc) == writers' = [writers EXCEPT ![w].pc = pc]

\* Mutant of EventId: the attempt of the workflow run is left out.
EventIdOfRun(e) == <<e.kind, e.run, e.status>>

\* emit_evidence: <kind>-<run>-<attempt>-<status>
EventId(e) == <<e.kind, e.run, e.attempt, e.status>>

Comment(w, e) == [by |-> w, event |-> e]

\* What the comments of these authors record of e's event_id.
Stored(actors, e) ==
    {c.event : c \in {x \in Range(comments) :
                        x.by \in actors /\ EventId(x.event) = EventId(e)}}

Record(w, e) ==
    /\ writers[w] = Resting
    /\ writers' = [writers EXCEPT ![w] = [pc |-> "list", event |-> e]]
    /\ UNCHANGED comments

\* record_event: the stored records of this event_id decide.
ListComments(w) ==
    /\ writers[w].pc = "list"
    /\ LET e == writers[w].event
           stored == Stored(Trusted[w], e)
       IN Become(w, IF stored = {} THEN "post"
                    ELSE IF stored = {e} THEN "done"
                    ELSE "refused")
    /\ UNCHANGED comments

PostComment(w) ==
    /\ writers[w].pc = "post"
    /\ comments' = Append(comments, Comment(w, writers[w].event))
    /\ Become(w, "done")

-----------------------------------------------------------------------------
(* timeline: one row per event_id.  A handoff record has the fields id,    *)
(* kind, status and at; same_handoff ignores status and at.                *)

SameHandoff(left, right) ==
    /\ left.kind = "handoff" /\ right.kind = "handoff"
    /\ left.id = right.id

\* Mutant of Read: the last record of an event_id wins.
ReadLast(seen, e) ==
    [seen EXCEPT !.events = {old \in @ : old.id # e.id} \cup {e}]

\* One comment of the listing.
Read(seen, e) ==
    LET old == {x \in seen.events : x.id = e.id} IN
    IF old = {} THEN [seen EXCEPT !.events = @ \cup {e}]
    ELSE IF old = {e} THEN seen
    ELSE IF \E x \in old : SameHandoff(x, e)
      THEN IF e.status = "accepted" /\ \A x \in old : x.status # "accepted"
             THEN [seen EXCEPT !.events = (@ \ old) \cup {e}]
             ELSE seen
    ELSE [seen EXCEPT !.conflicts = @ \cup {e.id}]

\* The state column of an event_id's row.
RowState(listing, id) ==
    LET seen == FoldLeft(Read, [events |-> {}, conflicts |-> {}], listing) IN
    IF id \in seen.conflicts THEN "unknown"
    ELSE (CHOOSE x \in seen.events : x.id = id).status

\* All records that a listing may hold for one event_id.
Evidence == [id : {"e"}, kind : {"recovery"}, status : {"succeeded", "failed"},
             at : {1, 2}]
Handoff == [id : {"h"}, kind : {"handoff"},
            status : {"accepted", "failed", "unknown"}, at : {1, 2}]

\* The row of a deployment or a recovery has a state only if all its records
\* agree; a handoff is shown as accepted if and only if some record says so.
RowOf(listing, id) ==
    LET records == {e \in Range(listing) : e.id = id} IN
    IF Cardinality(records) = 1 THEN (CHOOSE e \in records : TRUE).status
                                ELSE "unknown"

EveryListing ==
    /\ \A listing \in BoundedSeq(Evidence, 3) :
         listing # <<>> => RowState(listing, "e") = RowOf(listing, "e")
    /\ \A listing \in BoundedSeq(Handoff, 3) :
         listing # <<>> =>
           (RowState(listing, "h") = "accepted"
              <=> \E i \in DOMAIN listing : listing[i].status = "accepted")

-----------------------------------------------------------------------------
(* pull_request_rows: the checks of a linked pull request's head.  A       *)
(* statuses answer has total and state; a check-runs answer has a total    *)
(* and the runs of its first page.                                         *)

Bad == {"failure", "timed_out", "cancelled"}
Fine == {"success", "neutral", "skipped"}

ChecksState(statuses, checks) ==
    LET some == statuses.total > 0
        runs == checks.runs IN
    IF Cardinality(runs) # checks.total THEN "unknown"
    ELSE IF statuses.total + checks.total = 0 THEN "missing"
    ELSE IF \/ statuses.state \in {"failure", "error"}
            \/ \E c \in runs : c.conclusion \in Bad
      THEN "failed"
    ELSE IF \/ \E c \in runs : c.status # "completed"
            \/ some /\ statuses.state = "pending"
      THEN "pending"
    ELSE IF (\A c \in runs : c.conclusion \in Fine)
              /\ (some => statuses.state = "success")
      THEN IF some \/ \E c \in runs : c.conclusion = "success"
             THEN "succeeded" ELSE "skipped"
    ELSE "unknown"

CheckRun == [name : {"a", "b"}, status : {"completed"},
             conclusion : Fine \cup {"failure", "cancelled", "action_required"}]
            \cup [name : {"a", "b"}, status : {"queued"}, conclusion : {"none"}]
\* GitHub's combined state of no statuses is pending.
Statuses == [total : {0}, state : {"pending"}]
            \cup [total : {1, 2}, state : {"success", "pending", "failure"}]
CheckRuns == [runs : {r \in SUBSET CheckRun : Cardinality(r) <= 2}, total : 0 .. 3]

\* The checks of a pull request are shown as succeeded only if all of them
\* are known, ended, and none of them objects; and one more check that has
\* not ended or has failed never improves the row.
EveryChecksRow ==
    \A s \in Statuses, c \in CheckRuns :
        LET row == ChecksState(s, c) IN
        /\ row = "succeeded" =>
             /\ Cardinality(c.runs) = c.total
             /\ \A r \in c.runs : r.status = "completed" /\ r.conclusion \in Fine
             /\ s.total > 0 => s.state = "success"
        /\ row \in {"succeeded", "skipped", "missing"} =>
             \A r \in CheckRun \ c.runs :
               r.conclusion \notin Fine =>
                 ChecksState(s, [runs |-> c.runs \cup {r}, total |-> c.total + 1])
                   \notin {"succeeded", "skipped", "missing"}

-----------------------------------------------------------------------------
(* Properties.                                                             *)

\* What timeline reads: the records, each under its event_id.
Listing == [i \in DOMAIN comments |->
              LET e == comments[i].event IN
              [id |-> EventId(e), kind |-> e.kind, status |-> e.status,
               sha |-> e.sha, at |-> e.at]]

\* Whatever processes have recorded on the issue, and in whatever order
\* GitHub lists records, the rows of its timeline say what the records
\* agree on, and nothing is shown as fine that is not known to be (timeline,
\* pull_request_rows).
TimelineTellsTheTruth ==
    /\ LET listing == Listing IN
       \A id \in {e.id : e \in Range(listing)} :
         RowState(listing, id) = RowOf(listing, id)
    /\ EveryListing
    /\ EveryChecksRow
=============================================================================
