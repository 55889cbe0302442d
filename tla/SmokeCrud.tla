----------------------------- MODULE SmokeCrud -----------------------------
(***************************************************************************)
(* One smoke check with --crud (scripts/smoke.py, run_checks after the     *)
(* readiness of its target): check_crud creates a sample, reads and        *)
(* updates it and cleans it up, and check_endpoint lists tasks; other      *)
(* users work with the same service meanwhile.                             *)
(***************************************************************************)
EXTENDS TaskApi

CONSTANTS
    Smoke, User,    \* clients
    Endpoint,       \* the listing of check_endpoint: "all" or "broken"
    MaxRequests     \* bound: requests of the user

\* How a check fails: the exceptions of check_crud and check_endpoint.
Failures == {"create_uncertain", "check", "cleanup_refused", "cleanup_failed",
             "endpoint"}

ASSUME SmokeAssumption ==
    /\ Smoke # User /\ {Smoke, User} \subseteq Client /\ Smoke \in Observed
    /\ None \notin Nat \cup Session \cup Failures

\* MaxId has room for the check's row and for every row of the user.
ASSUME BoundAssumption ==
    /\ MaxId \in Nat /\ MaxRequests \in Nat /\ MaxFaults \in Nat
    /\ MaxRequests < MaxId

VARIABLES
    pc,         \* the next request of the check
    task_id,    \* the sample's identifier, None before its creation
    failure,    \* the exception on its way, None without one
    foreign,    \* history: at the cleanup the sample's description was a user's
    requests    \* requests the user has sent

check == <<pc, task_id, failure, foreign>>
vars == <<taskVars, check, requests>>

Sample == [status |-> "pending", description |-> Smoke]

Init ==
    /\ TaskInit
    /\ pc = "create" /\ task_id = None /\ failure = None /\ foreign = FALSE
    /\ requests = 0

-----------------------------------------------------------------------------
(* The requests of the check, in order.                                    *)

Sent ==
    CASE pc = "create" -> Request(Smoke, "create", None, Sample)
      [] pc = "update" -> Request(Smoke, "update", task_id,
                                  [status |-> "completed"])
      [] pc = "delete" -> Request(Smoke, "delete", task_id, None)
      [] pc = "list"   -> Request(Smoke, "list", None, [filter |-> Endpoint])
      [] pc \in {"read", "reread", "cleanup", "confirm"} ->
                          Request(Smoke, "get", task_id, None)

Ask1 ==
    /\ pc # "ended" /\ inbox[Smoke] = Nothing
    /\ \E s \in Session : Send(s, Sent)
    /\ foreign' = (foreign \/ /\ pc = "cleanup" /\ Exists(task_id)
                              /\ rows[task_id].description # Smoke)
    /\ UNCHANGED <<pc, task_id, failure, requests>>

\* The answer to the current request, and what follows from it.
Got(code) == inbox[Smoke].code = code
Body == inbox[Smoke].body
Goto(p) == /\ pc' = p
           /\ UNCHANGED <<task_id, failure>>
Raise(p, why) == /\ pc' = p /\ failure' = why
                 /\ UNCHANGED task_id

\* A failure inside the try block still runs the finally block.
OnCreate == IF Got(201)
              THEN pc' = "read" /\ task_id' = Body.id /\ UNCHANGED failure
              ELSE Raise("ended", "create_uncertain")

\* Mutant of OnRead: the read is repeated until the sample is there.
OnReadPolling == IF Got(200) THEN Goto("update") ELSE Goto("read")

OnRead == IF Got(200) THEN Goto("update") ELSE Raise("cleanup", "check")
OnUpdate == IF Got(200) /\ Body.row.status = "completed"
              THEN Goto("reread") ELSE Raise("cleanup", "check")
OnReread == IF Got(200) /\ Body.row.status = "completed"
              THEN Goto("cleanup") ELSE Raise("cleanup", "check")

\* The end of the finally block: the exception goes on, or the check does.
Cleaned == Goto(IF failure = None THEN "list" ELSE "ended")

\* Mutant of OnCleanup: whatever has the identifier is deleted.
OnCleanupAnyway ==
    IF Got(404) THEN Cleaned
    ELSE IF Got(200) THEN Goto("delete") ELSE Raise("ended", "check")

OnCleanup ==
    IF Got(404) THEN Cleaned
    ELSE IF ~Got(200) THEN Raise("ended", "check")
    ELSE IF Body.row.description = Smoke THEN Goto("delete")
    ELSE Raise("ended", "cleanup_refused")

\* Without an answer the exception is httpx's, and the report has its type.
CleanupFailed == Raise("ended", IF Got(Lost) THEN "check" ELSE "cleanup_failed")

\* Mutant of OnDelete: 204 is taken for the deletion.
OnDeleteTrusted == IF Got(204) THEN Cleaned ELSE CleanupFailed

OnDelete == IF Got(204) THEN Goto("confirm") ELSE CleanupFailed
OnConfirm == IF Got(404) THEN Cleaned ELSE CleanupFailed

\* check_endpoint's contract of a listing.
Contract(body) ==
    /\ Cardinality(DOMAIN body.items) <= body.total
    /\ Endpoint = "broken" =>
         \A i \in DOMAIN body.items : body.items[i].status = "pending"

OnList == IF Got(200) /\ Contract(Body) THEN Goto("ended")
                                        ELSE Raise("ended", "endpoint")

Receive ==
    /\ pc # "ended" /\ inbox[Smoke].code # 0
    /\ CASE pc = "create"  -> OnCreate
         [] pc = "read"    -> OnRead
         [] pc = "update"  -> OnUpdate
         [] pc = "reread"  -> OnReread
         [] pc = "cleanup" -> OnCleanup
         [] pc = "delete"  -> OnDelete
         [] pc = "confirm" -> OnConfirm
         [] pc = "list"    -> OnList
    /\ inbox' = [inbox EXCEPT ![Smoke] = Nothing]
    /\ UNCHANGED <<service, faults, foreign, requests>>

-----------------------------------------------------------------------------
(* The user takes identifiers from listings and waits for no answer.       *)

UserRequest ==
    {Request(User, "create", None, [status |-> "pending", description |-> User])}
    \cup {Request(User, "update", i, ask) : i \in DOMAIN rows,
            ask \in [{"description"} -> {User}] \cup [{"status"} -> Status]}
    \cup {Request(User, "delete", i, None) : i \in DOMAIN rows}

UserSends ==
    /\ requests < MaxRequests
    /\ requests' = requests + 1
    /\ \E s \in Session, r \in UserRequest : Send(s, r)
    /\ UNCHANGED check

Server == /\ \E s \in Session : Serve(s) \/ Rollback(s)
          /\ UNCHANGED <<check, requests>>
ClientGivesUp == GiveUp(Smoke) /\ UNCHANGED <<check, requests>>

Next == Ask1 \/ Receive \/ UserSends \/ Server \/ ClientGivesUp

\* Every statement and every commit ends (statement_timeout), and the check
\* is a process that runs to its end.  Nothing is assumed of users or faults.
Fairness == /\ WF_vars(Ask1) /\ WF_vars(Receive)
            /\ \A s \in Session : WF_vars(Serve(s) /\ UNCHANGED <<check, requests>>)

Spec == Init /\ [][Next]_vars
FairSpec == Spec /\ Fairness

-----------------------------------------------------------------------------
(* Properties.                                                             *)

Steps == {"create", "read", "update", "reread", "cleanup", "delete", "confirm",
          "list", "ended"}
Ended == pc = "ended"

\* Whether a session may still change the row of an identifier.
Pending(i) == \E s \in Session :
    sessions[s].pc # "free" /\ sessions[s].request.op # "get" /\ Target(s) = i

TypeOK ==
    /\ DOMAIN rows \subseteq 1 .. created /\ created \in 0 .. MaxId
    /\ \A i \in DOMAIN rows : rows[i] \in Row
    /\ pc \in Steps /\ task_id \in Id \cup {None}
    /\ failure \in Failures \cup {None} /\ foreign \in BOOLEAN
    /\ \A s \in Session : sessions[s].pc \in
         {"free", "open", "counted", "selected", "answered"}
    /\ faults \in 0 .. MaxFaults /\ requests \in 0 .. MaxRequests

\* A check that passes has removed its sample, although the create, the
\* update and the delete are each answered before they are committed
\* (check_crud, the finally block; get_db).
PassedLeavesNothing == Ended /\ failure = None => ~Exists(task_id)

\* The check deletes nothing whose description another user had changed
\* before it looked (check_crud: "Refusing cleanup of a non-owned task").
TakenOverIsKept == pc \in {"delete", "confirm"} => ~foreign

\* An update writes the columns it was asked to change and no others: a
\* committed description of a user is not undone by an update of the status
\* that had read the row before it (update_task).
UserEditSurvives ==
    [][\A i \in DOMAIN rows \cap DOMAIN rows' :
         rows[i].description = User => rows'[i].description = User]_vars

\* Whatever an update had read, a deleted task does not come back
\* (update_task between its SELECT and its flush, delete_task, get_db).
DeletedStaysDeleted ==
    [][\A i \in 1 .. created :
         /\ ~Exists(i)
         /\ ~\E s \in Session : Doing(s, "create", "answered") /\ Target(s) = i
         => ~Exists(i)']_vars

\* If nothing is committed between the two statements of a listing, its
\* total and its page agree (list_tasks; the contract of check_endpoint).
QuietListingAgrees ==
    pc = "list" /\ Got(200) /\ Body.quiet =>
        LET n == Cardinality(DOMAIN Body.items) IN
        n = IF Body.total < PerPage THEN Body.total ELSE PerPage

\* The check ends: no request of it waits for ever, neither for the row
\* lock of an update nor for a connection (check_crud, get_db).
CheckEnds == <>Ended

\* A failed check that knows its sample has removed it, as
\* test_crud_cleans_only_its_record_even_after_failure has it
\* (tests/test_delivery.py).  The code does not keep this: the cleanup may
\* read before the create is committed.
FailureCleansUp ==
    /\ Ended /\ task_id # None
    /\ \A s \in Session : sessions[s].pc = "free"
    => ~\E i \in DOMAIN rows : rows[i].description = Smoke
=============================================================================
