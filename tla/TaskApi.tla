------------------------------ MODULE TaskApi ------------------------------
(***************************************************************************)
(* The task service: the handlers of src/routes/tasks.py, each in its own  *)
(* database session (src/database.py), over one table in PostgreSQL with   *)
(* its default isolation, READ COMMITTED.                                  *)
(*                                                                         *)
(* get_db commits when the handler has returned and its answer is on the   *)
(* way, so an answer may reach its client before the commit, or a commit   *)
(* may never follow.  A statement is one step; between two of them any     *)
(* other session may commit.  Task identifiers are numbered in the order   *)
(* of creation, which is also that of created_at.  Titles are left out.    *)
(***************************************************************************)
EXTENDS Naturals, FiniteSets

CONSTANTS
    Session,    \* the connections of the engine's pool
    Client,     \* senders of requests; a row's description names its author
    Observed,   \* the clients whose answers somebody looks at
    None,
    MaxId,      \* bound: rows that the clients' requests can insert
    PerPage,    \* per_page of a listing; only the first page is asked for
    Scenario,   \* "disabled"; "healthy" or "faulty" resolve_demo_status
    MaxFaults   \* bound: lost answers, errors and failed commits

ASSUME TaskAssumption == PerPage \in Nat \ {0}

Status == {"pending", "completed"}
Id == 1 .. MaxId
Row == [status : Status, description : Client]

VARIABLES
    rows,       \* the committed rows of the table, by identifier
    created,    \* identifiers handed out so far
    sessions,   \* sessions[s]: the request that session s works on
    inbox,      \* inbox[c]: the request that c waits for, and its answer
    faults

service == <<rows, created, sessions>>
taskVars == <<service, inbox, faults>>

\* A request: ask holds the columns that create or update sets.
Request(c, op, id, ask) == [by |-> c, op |-> op, id |-> id, ask |-> ask]
Idle == [pc |-> "free", request |-> None, row |-> None, total |-> 0,
         quiet |-> TRUE]
Lost == 599     \* httpx.TransportError
Nothing == [from |-> None, code |-> 0, body |-> None]

TaskInit ==
    /\ rows = [i \in {} |-> None]
    /\ created = 0
    /\ sessions = [s \in Session |-> Idle]
    /\ inbox = [c \in Observed |-> Nothing]
    /\ faults = 0

-----------------------------------------------------------------------------
(* Requests and answers.                                                   *)

Exists(i) == i \in DOMAIN rows
Doing(s, op, pc) == /\ sessions[s].pc = pc
                    /\ sessions[s].request.op = op
Step(s, x) == sessions' = [sessions EXCEPT ![s] = x]
Ask(s) == sessions[s].request.ask
Target(s) == sessions[s].request.id

\* A client's request gets a connection.
Send(s, r) ==
    /\ sessions[s].pc = "free"
    /\ Step(s, [Idle EXCEPT !.pc = "open", !.request = r])
    /\ inbox' = [c \in Observed |-> IF c = r.by THEN [Nothing EXCEPT !.from = s]
                                                ELSE inbox[c]]
    /\ UNCHANGED <<rows, created, faults>>

\* The answer, if the client is still there.
Answer(s, code, body) ==
    LET c == sessions[s].request.by IN
    inbox' = IF c \in Observed /\ inbox[c].from = s
               THEN [inbox EXCEPT ![c].code = code, ![c].body = body]
               ELSE inbox

\* An answer of a session with nothing to commit.
Finish(s, code, body) == /\ Answer(s, code, body)
                         /\ Step(s, Idle)
                         /\ UNCHANGED <<rows, created, faults>>

\* An answer; the session has a transaction to commit.
Respond(s, code, body) == /\ Answer(s, code, body)
                          /\ Step(s, [sessions[s] EXCEPT !.pc = "answered"])
                          /\ UNCHANGED <<rows, faults>>

\* The client gives up after its time limit; the session goes on.
GiveUp(c) ==
    /\ faults < MaxFaults
    /\ inbox[c].from # None /\ inbox[c].code = 0
    /\ inbox' = [inbox EXCEPT ![c] = [Nothing EXCEPT !.code = Lost]]
    /\ faults' = faults + 1
    /\ UNCHANGED service

-----------------------------------------------------------------------------
(* The handlers.                                                           *)

\* create_task: the INSERT is flushed, the answer is the row as inserted.
Create(s) ==
    /\ Doing(s, "create", "open")
    /\ created' = created + 1
    /\ Answer(s, 201, [id |-> created + 1, row |-> Ask(s)])
    /\ Step(s, [sessions[s] EXCEPT !.pc = "answered",
                                   !.request.id = created + 1])
    /\ UNCHANGED <<rows, faults>>

\* get_task
Get(s) ==
    /\ Doing(s, "get", "open")
    /\ IF Exists(Target(s))
         THEN Finish(s, 200, [id |-> Target(s), row |-> rows[Target(s)]])
         ELSE Finish(s, 404, None)

\* The status a listing filters by; the named filter has a default.
Matches(filter, row) == filter = "all" \/ row.status = "pending"
Matching(filter) == {i \in DOMAIN rows : Matches(filter, rows[i])}

\* Mutant of Counted: the count is not filtered.
CountedAll(filter) == Cardinality(DOMAIN rows)

Counted(filter) == Cardinality(Matching(filter))

\* list_tasks: the demo filter may be refused, or fail; then the count.
Count(s) ==
    /\ Doing(s, "list", "open")
    /\ CASE Ask(s).filter = "broken" /\ Scenario = "disabled" -> Finish(s, 403, None)
         [] Ask(s).filter = "broken" /\ Scenario = "faulty"   -> Finish(s, 500, None)
         [] OTHER -> /\ Step(s, [sessions[s] EXCEPT !.pc = "counted",
                                             !.total = Counted(Ask(s).filter)])
                     /\ UNCHANGED <<rows, created, inbox, faults>>

\* list_tasks: the page is a second statement, newest rows first.
Page(s) ==
    /\ Doing(s, "list", "counted")
    /\ LET match == Matching(Ask(s).filter)
           items == {i \in match :
                        Cardinality({j \in match : j > i}) < PerPage}
       IN Finish(s, 200, [total |-> sessions[s].total, quiet |-> sessions[s].quiet,
                          items |-> [i \in items |-> rows[i]]])

\* update_task and delete_task start with the row, or with 404; delete_task
\* has nothing else to do before its answer.
Select(s) ==
    /\ sessions[s].pc = "open"
    /\ sessions[s].request.op \in {"update", "delete"}
    /\ \/ /\ ~Exists(Target(s))
          /\ Finish(s, 404, None)
       \/ /\ Exists(Target(s)) /\ sessions[s].request.op = "delete"
          /\ UNCHANGED created
          /\ Respond(s, 204, None)
       \/ /\ Exists(Target(s)) /\ sessions[s].request.op = "update"
          /\ Step(s, [sessions[s] EXCEPT !.pc = "selected",
                                         !.row = rows[Target(s)]])
          /\ UNCHANGED <<rows, created, inbox, faults>>

\* Columns of an update that differ from the row it selected.
Changed(s) == {k \in DOMAIN Ask(s) : Ask(s)[k] # sessions[s].row[k]}

\* Mutant of Written: the whole selected row is written back.
WrittenWhole(s, row) == [k \in DOMAIN row |->
    IF k \in DOMAIN Ask(s) THEN Ask(s)[k] ELSE sessions[s].row[k]]

\* Mutant of Written: the columns of the request replace the row.
WrittenReplaced(s, row) == Ask(s)

\* The UPDATE sets the changed columns of the row as it is by then.
Written(s, row) == [k \in DOMAIN row |->
    IF k \in Changed(s) THEN Ask(s)[k] ELSE row[k]]

\* An uncommitted UPDATE locks its row.
Locked(i) == \E s \in Session : Doing(s, "update", "answered") /\ Target(s) = i

\* Mutant of Gone: an UPDATE of no row goes unnoticed.
GoneUnnoticed(i) == FALSE

\* The row was deleted since it was selected: StaleDataError, or a refresh
\* that finds no row.
Gone(i) == ~Exists(i)

\* update_task: flush and refresh.
Flush(s) ==
    LET i == Target(s)
        row == IF Exists(i) THEN rows[i] ELSE sessions[s].row IN
    /\ Doing(s, "update", "selected")
    /\ Changed(s) # {} => ~Locked(i)
    /\ \/ Gone(i) /\ Finish(s, 500, None)
       \/ /\ ~Gone(i) /\ Changed(s) = {}
          /\ Finish(s, 200, [id |-> i, row |-> row])
       \/ /\ ~Gone(i) /\ Changed(s) # {}
          /\ UNCHANGED created
          /\ Respond(s, 200, [id |-> i, row |-> Written(s, row)])

\* What a commit makes of the table.  A DELETE of no row is only a warning.
Committed(s) ==
    LET i == Target(s)
        op == sessions[s].request.op IN
    [j \in IF op = "delete" THEN DOMAIN rows \ {i} ELSE DOMAIN rows \cup {i} |->
        IF j # i THEN rows[j]
        ELSE IF op = "create" THEN Ask(s)
        ELSE Written(s, IF Exists(i) THEN rows[i] ELSE sessions[s].row)]

\* get_db: the commit; it sends the DELETE of delete_task, which waits for
\* the row's lock.  A listing between its two statements notices.
Commit(s) ==
    /\ sessions[s].pc = "answered"
    /\ sessions[s].request.op = "delete" => ~Locked(Target(s))
    /\ rows' = Committed(s)
    /\ sessions' = [t \in Session |->
                      IF t = s THEN Idle
                      ELSE IF Doing(t, "list", "counted")
                        THEN [sessions[t] EXCEPT !.quiet = FALSE]
                      ELSE sessions[t]]
    /\ UNCHANGED <<created, inbox, faults>>

\* get_db and ErrorHandlerMiddleware: a statement or the commit fails, and
\* the session is rolled back; only an unanswered client learns of it.
Rollback(s) ==
    /\ faults < MaxFaults
    /\ sessions[s].pc # "free"
    /\ IF sessions[s].pc = "answered" THEN UNCHANGED inbox
                                      ELSE Answer(s, 500, None)
    /\ Step(s, Idle)
    /\ faults' = faults + 1
    /\ UNCHANGED <<rows, created>>

Serve(s) == Create(s) \/ Get(s) \/ Count(s) \/ Page(s)
                \/ Select(s) \/ Flush(s) \/ Commit(s)
=============================================================================
