---------------------------- MODULE TaskProofs ----------------------------
(***************************************************************************)
(* Theorems about SmokeCrud, for any number of sessions, rows, requests    *)
(* and faults.                                                             *)
(***************************************************************************)
EXTENDS SmokeCrud, FiniteSetTheorems, TLAPS

Ops == {"create", "get", "list", "update", "delete"}
Working == {"open", "counted", "selected"}

\* The columns an update may ask for: only users write descriptions.
AskOK(ask) == /\ "status" \in DOMAIN ask => ask["status"] \in Status
              /\ "description" \in DOMAIN ask => ask["description"] = User

WholeRequest(r) == r = [by |-> r.by, op |-> r.op, id |-> r.id, ask |-> r.ask]
RequestOK(r) ==
    /\ WholeRequest(r)
    /\ r.op \in Ops
    /\ r.op = "create" => r.ask \in Row
    /\ r.op = "update" => AskOK(r.ask)

\* What a session may be, by its step.
Whole(x) == x = [pc |-> x.pc, request |-> x.request, row |-> x.row,
                 total |-> x.total, quiet |-> x.quiet]
SessionOK(x) ==
    /\ Whole(x)
    /\ x.pc \in {"free", "answered"} \cup Working
    /\ x.pc # "free" => RequestOK(x.request)
    /\ x.pc = "counted" => x.request.op = "list"
    /\ x.pc = "selected" => x.request.op = "update"
    /\ x.pc = "answered" => x.request.op \in {"create", "update", "delete"}

RowsOK ==
    /\ created \in Nat
    /\ DOMAIN rows \subseteq 1 .. created
    /\ \A i \in DOMAIN rows : rows[i] \in Row

\* The uncommitted rows: an inserted one has an identifier of its own that
\* nobody can see, and an updated one is locked, so it is still there.
Inserting(s, i) == Doing(s, "create", "answered") /\ Target(s) = i
Updating(s, i) == Doing(s, "update", "answered") /\ Target(s) = i
LocksOK ==
    /\ \A s \in Session : Doing(s, "create", "answered") =>
         Target(s) \in 1 .. created /\ ~Exists(Target(s))
    /\ \A s, t \in Session :
         Doing(s, "create", "answered") /\ Inserting(t, Target(s)) => s = t
    /\ \A s \in Session : Doing(s, "update", "answered") => Exists(Target(s))

TaskOK ==
    /\ RowsOK
    /\ sessions = [s \in Session |-> sessions[s]]
    /\ \A s \in Session : SessionOK(sessions[s])
    /\ LocksOK

\* What the updates of a session record do.
LEMMA Reshaped ==
    ASSUME NEW x, Whole(x), NEW p, NEW r, NEW n
    PROVE  /\ [x EXCEPT !.pc = p] = [pc |-> p, request |-> x.request, row |-> x.row,
                                     total |-> x.total, quiet |-> x.quiet]
           /\ [x EXCEPT !.pc = p, !.row = r] =
                [pc |-> p, request |-> x.request, row |-> r, total |-> x.total,
                 quiet |-> x.quiet]
           /\ [x EXCEPT !.pc = p, !.total = n] =
                [pc |-> p, request |-> x.request, row |-> x.row, total |-> n,
                 quiet |-> x.quiet]
           /\ [x EXCEPT !.quiet = n] =
                [pc |-> x.pc, request |-> x.request, row |-> x.row, total |-> x.total,
                 quiet |-> n]
<1> PICK a, b, c, d, e :
         x = [pc |-> a, request |-> b, row |-> c, total |-> d, quiet |-> e]
  BY DEF Whole
<1>1. x.pc = a /\ x.request = b /\ x.row = c /\ x.total = d /\ x.quiet = e
  OBVIOUS
<1>2. DOMAIN x = {"pc", "request", "row", "total", "quiet"}
  OBVIOUS
<1>3. [x EXCEPT !.pc = p] = [pc |-> p, request |-> b, row |-> c, total |-> d, quiet |-> e]
  OBVIOUS
<1>4. [x EXCEPT !.pc = p, !.row = r]
        = [pc |-> p, request |-> b, row |-> r, total |-> d, quiet |-> e]
  <2>1. [x EXCEPT !.pc = p, !.row = r] =
          [k \in DOMAIN x |-> IF k = "row" THEN r ELSE IF k = "pc" THEN p ELSE x[k]]
    OBVIOUS
  <2> QED
    BY <1>2, <2>1
<1>5. [x EXCEPT !.pc = p, !.total = n]
        = [pc |-> p, request |-> b, row |-> c, total |-> n, quiet |-> e]
  <2>1. [x EXCEPT !.pc = p, !.total = n] =
          [k \in DOMAIN x |-> IF k = "total" THEN n ELSE IF k = "pc" THEN p ELSE x[k]]
    OBVIOUS
  <2> QED
    BY <1>2, <2>1
<1>6. [x EXCEPT !.quiet = n]
        = [pc |-> a, request |-> b, row |-> c, total |-> d, quiet |-> n]
  OBVIOUS
<1> QED
  BY <1>1, <1>3, <1>4, <1>5, <1>6

\* The identifier that an INSERT gives its request.
LEMMA Renumbered ==
    ASSUME NEW x, Whole(x), WholeRequest(x.request), NEW p, NEW n
    PROVE  [x EXCEPT !.pc = p, !.request.id = n] =
             [pc |-> p,
              request |-> [by |-> x.request.by, op |-> x.request.op, id |-> n,
                           ask |-> x.request.ask],
              row |-> x.row, total |-> x.total, quiet |-> x.quiet]
<1> PICK a, b, c, d, e :
         x = [pc |-> a, request |-> b, row |-> c, total |-> d, quiet |-> e]
  BY DEF Whole
<1>1. x.pc = a /\ x.request = b /\ x.row = c /\ x.total = d /\ x.quiet = e
  OBVIOUS
<1>2. DOMAIN x = {"pc", "request", "row", "total", "quiet"}
  OBVIOUS
<1> PICK f, g, h, i : b = [by |-> f, op |-> g, id |-> h, ask |-> i]
  BY <1>1 DEF WholeRequest
<1>3. b.by = f /\ b.op = g /\ b.id = h /\ b.ask = i
  OBVIOUS
<1>4. [b EXCEPT !.id = n] = [by |-> f, op |-> g, id |-> n, ask |-> i]
  OBVIOUS
<1>5. [x EXCEPT !.pc = p, !.request.id = n] =
        [k \in DOMAIN x |-> IF k = "request" THEN [b EXCEPT !.id = n]
                            ELSE IF k = "pc" THEN p ELSE x[k]]
  OBVIOUS
<1> QED
  BY <1>1, <1>2, <1>3, <1>4, <1>5

\* An update leaves a row a row, and writes only what it was asked for.
LEMMA WrittenRow ==
    ASSUME NEW s \in Session, NEW row \in Row, AskOK(Ask(s))
    PROVE  /\ Written(s, row) \in Row
           /\ row.description = User => Written(s, row).description = User
           /\ row.description # Smoke => Written(s, row).description # Smoke
<1> DEFINE ask == Ask(s)
           changed == Changed(s)
<1>1. changed \subseteq DOMAIN ask
  BY DEF Changed
<1>2. Written(s, row) = [k \in DOMAIN row |-> IF k \in changed THEN ask[k] ELSE row[k]]
  BY DEF Written
<1>3. DOMAIN row = {"status", "description"}
  BY DEF Row
<1>4. /\ "status" \in changed => ask["status"] \in Status
      /\ "description" \in changed => ask["description"] = User
  BY <1>1 DEF AskOK
<1> HIDE DEF ask, changed
<1>5. User \in Client /\ User # Smoke
  BY SmokeAssumption
<1> QED
  BY <1>2, <1>3, <1>4, <1>5 DEF Row

\* A step of one session that neither inserts nor writes.
LEMMA QuietStep ==
    ASSUME TaskOK, NEW s \in Session, NEW x, SessionOK(x), Step(s, x),
           UNCHANGED <<rows, created>>,
           x.pc = "answered" => x.request.op \in {"update", "delete"},
           x.pc = "answered" /\ x.request.op = "update" => Exists(x.request.id)
    PROVE  TaskOK'
<1>1. /\ sessions'[s] = x
      /\ \A t \in Session : t # s => sessions'[t] = sessions[t]
      /\ sessions' = [t \in Session |-> sessions'[t]]
  BY DEF Step, TaskOK
<1>2. \A t \in Session : SessionOK(sessions'[t])
  BY <1>1 DEF TaskOK
<1>3. LocksOK'
  BY <1>1 DEF TaskOK, LocksOK, Doing, Inserting, Target, Exists
<1> QED
  BY <1>1, <1>2, <1>3 DEF TaskOK, RowsOK, SessionOK, RequestOK

LEMMA IdleOK == SessionOK(Idle)
BY DEF SessionOK, Whole, Idle, Working

LEMMA SendKeeps ==
    ASSUME TaskOK, NEW s \in Session, NEW r, RequestOK(r), Send(s, r)
    PROVE  TaskOK'
<1> PICK x : x = [Idle EXCEPT !.pc = "open", !.request = r]
  OBVIOUS
<1>1. x = [pc |-> "open", request |-> r, row |-> None, total |-> 0, quiet |-> TRUE]
  BY DEF Idle
<1>2. SessionOK(x)
  BY <1>1 DEF SessionOK, Whole, Working
<1>3. Step(s, x) /\ UNCHANGED <<rows, created>>
  BY DEF Send
<1> QED
  BY <1>1, <1>2, <1>3, QuietStep

\* A session that answers without a transaction is free again.
LEMMA FinishKeeps ==
    ASSUME TaskOK, NEW s \in Session, Step(s, Idle), UNCHANGED <<rows, created>>
    PROVE  TaskOK'
<1>1. Idle.pc = "free"
  BY DEF Idle
<1> QED
  BY <1>1, IdleOK, QuietStep

LEMMA CreateKeeps ==
    ASSUME TaskOK, NEW s \in Session, Create(s)
    PROVE  TaskOK'
<1>0. PICK x : x = [sessions[s] EXCEPT !.pc = "answered", !.request.id = created + 1]
  OBVIOUS
<1>1. /\ sessions[s].pc = "open" /\ sessions[s].request.op = "create"
      /\ created' = created + 1 /\ rows' = rows /\ Step(s, x)
  BY <1>0 DEF Create, Doing
<1>2. SessionOK(sessions[s])
  BY DEF TaskOK
<1>3. RequestOK(sessions[s].request)
  BY <1>1, <1>2 DEF SessionOK
<1>4. x = [pc |-> "answered",
           request |-> [by |-> sessions[s].request.by, op |-> "create",
                        id |-> created + 1, ask |-> sessions[s].request.ask],
           row |-> sessions[s].row, total |-> sessions[s].total,
           quiet |-> sessions[s].quiet]
  <2>1. Whole(sessions[s]) /\ WholeRequest(sessions[s].request)
    BY <1>2, <1>3 DEF SessionOK, RequestOK
  <2>2. x = [pc |-> "answered",
             request |-> [by |-> sessions[s].request.by, op |-> sessions[s].request.op,
                          id |-> created + 1, ask |-> sessions[s].request.ask],
             row |-> sessions[s].row, total |-> sessions[s].total,
             quiet |-> sessions[s].quiet]
    BY <1>0, <2>1, Renumbered
  <2> QED
    BY <1>1, <2>2
<1>5. SessionOK(x)
  BY <1>1, <1>3, <1>4 DEF SessionOK, RequestOK, Whole, WholeRequest
<1>6. /\ sessions'[s] = x
      /\ \A t \in Session : t # s => sessions'[t] = sessions[t]
      /\ sessions' = [t \in Session |-> sessions'[t]]
  BY <1>1 DEF Step, TaskOK
<1>7. \A t \in Session : SessionOK(sessions'[t])
  BY <1>5, <1>6 DEF TaskOK
<1>8. RowsOK'
  BY <1>1 DEF RowsOK, TaskOK
<1>9. LocksOK'
  <2>1. x.pc = "answered" /\ x.request.op = "create" /\ x.request.id = created + 1
    BY <1>4
  <2>2. \A t \in Session : Doing(t, "create", "answered") => Target(t) # created + 1
    BY DEF TaskOK, LocksOK, RowsOK
  <2>3. created + 1 \in 1 .. created' /\ ~Exists(created + 1)
    BY <1>1 DEF TaskOK, RowsOK, Exists
  <2>4. 1 .. created \subseteq 1 .. created'
    BY <1>1 DEF TaskOK, RowsOK
  <2> HIDE DEF Create
  <2>5. \A t \in Session : Doing(t, "create", "answered")' =>
          Target(t)' \in 1 .. created' /\ ~Exists(Target(t))'
    BY <1>1, <1>6, <2>1, <2>3, <2>4 DEF TaskOK, LocksOK, Doing, Target, Exists
  <2>6. \A t, u \in Session :
          Doing(t, "create", "answered")' /\ Inserting(u, Target(t))' => t = u
    BY <1>6, <2>1, <2>2 DEF TaskOK, LocksOK, Doing, Inserting, Target
  <2>7. \A t \in Session : Doing(t, "update", "answered")' => Exists(Target(t))'
    BY <1>1, <1>6, <2>1 DEF TaskOK, LocksOK, Doing, Target, Exists
  <2> QED
    BY <2>5, <2>6, <2>7 DEF LocksOK, Inserting, Doing, Target
<1> QED
  BY <1>6, <1>7, <1>8, <1>9 DEF TaskOK, SessionOK, RequestOK

LEMMA CountKeeps ==
    ASSUME TaskOK, NEW s \in Session, Count(s)
    PROVE  TaskOK'
<1> DEFINE x == [sessions[s] EXCEPT !.pc = "counted", !.total = Counted(Ask(s).filter)]
<1>1. \/ Step(s, Idle) /\ UNCHANGED <<rows, created>>
      \/ Step(s, x) /\ UNCHANGED <<rows, created>>
  BY DEF Count, Finish
<1>2. sessions[s].pc = "open" /\ sessions[s].request.op = "list" /\ SessionOK(sessions[s])
  BY DEF Count, Doing, TaskOK
<1>3. x = [pc |-> "counted", request |-> sessions[s].request, row |-> sessions[s].row,
           total |-> Counted(Ask(s).filter), quiet |-> sessions[s].quiet]
  <2>1. Whole(sessions[s])
    BY <1>2 DEF SessionOK
  <2> QED
    BY <2>1, Reshaped
<1>4. SessionOK(x) /\ x.pc = "counted"
  BY <1>2, <1>3 DEF SessionOK, Whole, Working
<1> HIDE DEF x
<1> QED
  BY <1>1, <1>4, FinishKeeps, QuietStep

LEMMA SelectKeeps ==
    ASSUME TaskOK, NEW s \in Session, Select(s)
    PROVE  TaskOK'
<1> DEFINE x == [sessions[s] EXCEPT !.pc = "selected", !.row = rows[Target(s)]]
           y == [sessions[s] EXCEPT !.pc = "answered"]
           old == sessions[s]
<1>1. /\ old.pc = "open" /\ old.request.op \in {"update", "delete"} /\ SessionOK(old)
      /\ UNCHANGED <<rows, created>>
  BY DEF Select, TaskOK, Finish, Respond
<1>2. \/ Step(s, Idle)
      \/ Step(s, y) /\ old.request.op = "delete"
      \/ Step(s, x) /\ old.request.op = "update"
  BY DEF Select, Finish, Respond
<1>3. /\ x = [pc |-> "selected", request |-> old.request, row |-> rows[Target(s)],
              total |-> old.total, quiet |-> old.quiet]
      /\ y = [pc |-> "answered", request |-> old.request, row |-> old.row,
              total |-> old.total, quiet |-> old.quiet]
  <2>1. Whole(old)
    BY <1>1 DEF SessionOK
  <2> QED
    BY <2>1, Reshaped
<1>4. CASE Step(s, Idle)
  BY <1>1, <1>4, FinishKeeps
<1>5. CASE Step(s, y) /\ old.request.op = "delete"
  <2>1. SessionOK(y) /\ y.request.op = "delete"
    BY <1>1, <1>3, <1>5 DEF SessionOK, Whole, Working
  <2> HIDE DEF y
  <2> QED
    BY <1>1, <1>5, <2>1, QuietStep
<1>6. CASE Step(s, x) /\ old.request.op = "update"
  <2>1. SessionOK(x) /\ x.pc = "selected"
    BY <1>1, <1>3, <1>6 DEF SessionOK, Whole, Working
  <2> HIDE DEF x
  <2> QED
    BY <1>1, <1>6, <2>1, QuietStep
<1> QED
  BY <1>2, <1>4, <1>5, <1>6

LEMMA FlushKeeps ==
    ASSUME TaskOK, NEW s \in Session, Flush(s)
    PROVE  TaskOK'
<1> DEFINE y == [sessions[s] EXCEPT !.pc = "answered"]
           old == sessions[s]
<1>1. /\ old.pc = "selected" /\ old.request.op = "update" /\ SessionOK(old)
      /\ UNCHANGED <<rows, created>>
  BY DEF Flush, TaskOK, Finish, Respond, Doing
<1>2. \/ Step(s, Idle)
      \/ Step(s, y) /\ Exists(old.request.id)
  BY DEF Flush, Finish, Respond, Gone, Target
<1>3. y = [pc |-> "answered", request |-> old.request, row |-> old.row,
              total |-> old.total, quiet |-> old.quiet]
  <2>1. Whole(old)
    BY <1>1 DEF SessionOK
  <2> QED
    BY <2>1, Reshaped
<1>4. SessionOK(y) /\ y.request = old.request
  BY <1>1, <1>3 DEF SessionOK, Whole, Working
<1> HIDE DEF y
<1> QED
  BY <1>1, <1>2, <1>4, FinishKeeps, QuietStep

\* What a commit makes of each row.
LEMMA CommitRows ==
    ASSUME TaskOK, NEW s \in Session, Commit(s),
           NEW i, i = Target(s), NEW op, op = sessions[s].request.op
    PROVE  /\ op \in {"create", "update", "delete"}
           /\ DOMAIN rows' = IF op = "delete" THEN DOMAIN rows \ {i}
                                              ELSE DOMAIN rows \cup {i}
           /\ \A j \in DOMAIN rows : j # i /\ j \in DOMAIN rows' => rows'[j] = rows[j]
           /\ op = "create" => /\ i \notin DOMAIN rows /\ i \in 1 .. created
                               /\ rows'[i] = Ask(s)
           /\ op = "update" => i \in DOMAIN rows /\ rows'[i] = Written(s, rows[i])
<1>1. /\ op = "create" => i \notin DOMAIN rows /\ i \in 1 .. created
      /\ op = "update" => i \in DOMAIN rows
  BY DEF TaskOK, LocksOK, Doing, Commit, Exists
<1>2. op \in {"create", "update", "delete"}
  BY DEF TaskOK, SessionOK, Commit
<1>3. rows' =
    [j \in IF op = "delete" THEN DOMAIN rows \ {i} ELSE DOMAIN rows \cup {i} |->
        IF j # i THEN rows[j]
        ELSE IF op = "create" THEN Ask(s)
        ELSE Written(s, IF i \in DOMAIN rows THEN rows[i] ELSE sessions[s].row)]
  BY DEF Commit, Committed, Exists
<1>4. /\ DOMAIN rows' = IF op = "delete" THEN DOMAIN rows \ {i} ELSE DOMAIN rows \cup {i}
      /\ \A j \in DOMAIN rows' :
            rows'[j] = IF j # i THEN rows[j]
                       ELSE IF op = "create" THEN Ask(s)
                       ELSE Written(s, IF i \in DOMAIN rows THEN rows[i]
                                       ELSE sessions[s].row)
  BY <1>3
<1> QED
  BY <1>1, <1>2, <1>4

LEMMA CommitKeeps ==
    ASSUME TaskOK, NEW s \in Session, Commit(s)
    PROVE  TaskOK'
<1> PICK i, op : i = Target(s) /\ op = sessions[s].request.op
  OBVIOUS
<1>1. /\ op \in {"create", "update", "delete"}
      /\ DOMAIN rows' = IF op = "delete" THEN DOMAIN rows \ {i} ELSE DOMAIN rows \cup {i}
      /\ \A j \in DOMAIN rows : j # i /\ j \in DOMAIN rows' => rows'[j] = rows[j]
      /\ op = "create" => i \notin DOMAIN rows /\ i \in 1 .. created /\ rows'[i] = Ask(s)
      /\ op = "update" => i \in DOMAIN rows /\ rows'[i] = Written(s, rows[i])
  BY CommitRows
<1>2. /\ sessions[s].pc = "answered" /\ sessions[s].request.op = op
      /\ op = "delete" => ~Locked(i) /\ created' = created
      /\ created' = created
  BY DEF Commit
<1>3. /\ sessions'[s] = Idle /\ sessions' = [t \in Session |-> sessions'[t]]
      /\ \A t \in Session : t # s =>
            IF Doing(t, "list", "counted")
              THEN sessions'[t] = [sessions[t] EXCEPT !.quiet = FALSE]
              ELSE sessions'[t] = sessions[t]
  BY DEF Commit
<1>4. \A t \in Session : t # s /\ Doing(t, "list", "counted") =>
        sessions'[t] = [pc |-> "counted", request |-> sessions[t].request,
                        row |-> sessions[t].row, total |-> sessions[t].total,
                        quiet |-> FALSE]
  <2> TAKE t \in Session
  <2>1. Whole(sessions[t])
    BY DEF TaskOK, SessionOK
  <2>2. [sessions[t] EXCEPT !.quiet = FALSE] =
          [pc |-> sessions[t].pc, request |-> sessions[t].request,
           row |-> sessions[t].row, total |-> sessions[t].total, quiet |-> FALSE]
    BY <2>1, Reshaped
  <2> QED
    BY <1>3, <2>2 DEF Doing
<1>5. \A t \in Session : t # s =>
        /\ sessions'[t].pc = sessions[t].pc
        /\ sessions'[t].request = sessions[t].request
  BY <1>3, <1>4 DEF Doing
<1>6. \A t \in Session : SessionOK(sessions'[t])
  <2> TAKE t \in Session
  <2>0. SessionOK(sessions[t])
    BY DEF TaskOK
  <2>1. CASE t = s
    BY <1>3, <2>1, IdleOK
  <2>2. CASE t # s /\ Doing(t, "list", "counted")
    <3>1. PICK x : x = sessions'[t]
      OBVIOUS
    <3>2. x = [pc |-> "counted", request |-> sessions[t].request,
               row |-> sessions[t].row, total |-> sessions[t].total, quiet |-> FALSE]
      BY <1>4, <2>2, <3>1
    <3>3. RequestOK(sessions[t].request) /\ sessions[t].request.op = "list"
      BY <2>0, <2>2 DEF SessionOK, Doing
    <3>4. SessionOK(x)
      BY <3>2, <3>3 DEF SessionOK, Whole, Working
    <3> QED
      BY <3>1, <3>4
  <2>3. CASE t # s /\ ~Doing(t, "list", "counted")
    BY <1>3, <2>0, <2>3
  <2> QED
    BY <2>1, <2>2, <2>3
<1>7. RowsOK'
  <2>1. SessionOK(sessions[s]) /\ RequestOK(sessions[s].request) /\ RowsOK
    BY <1>2 DEF TaskOK, SessionOK
  <2>2. op = "create" => rows'[i] \in Row
    BY <1>1, <1>2, <2>1 DEF RequestOK, Ask
  <2>3. op = "update" => rows'[i] \in Row
    <3>1. op = "update" => AskOK(Ask(s)) /\ rows[i] \in Row
      BY <1>1, <1>2, <2>1 DEF RequestOK, Ask, RowsOK
    <3> QED
      BY <1>1, <3>1, WrittenRow
  <2> QED
    BY <1>1, <1>2, <2>1, <2>2, <2>3 DEF RowsOK
<1>8. LocksOK'
  <2>0. Idle.pc = "free"
    BY DEF Idle
  <2>1. \A t \in Session : \A o \in {"create", "update"} :
          sessions'[t].pc = "answered" /\ sessions'[t].request.op = o
            => /\ t # s /\ sessions[t].pc = "answered" /\ sessions[t].request.op = o
               /\ sessions'[t].request.id = sessions[t].request.id
    BY <1>3, <1>5, <2>0
  <2>2. \A t \in Session : Doing(t, "create", "answered") /\ t # s => Target(t) # i \/ op # "create"
    BY <1>2 DEF TaskOK, LocksOK, Doing, Inserting, Target
  <2>3. \A t \in Session : Doing(t, "create", "answered") /\ t # s =>
          Target(t) \notin DOMAIN rows'
    BY <1>1, <2>2 DEF TaskOK, LocksOK, Exists
  <2>4. \A t \in Session : Doing(t, "update", "answered") /\ t # s =>
          Target(t) \in DOMAIN rows'
    BY <1>1, <1>2 DEF TaskOK, LocksOK, Exists, Locked
  <2>5. \A t \in Session : Doing(t, "create", "answered")' =>
          Target(t)' \in 1 .. created' /\ ~Exists(Target(t))'
    BY <1>2, <2>1, <2>3 DEF TaskOK, LocksOK, Doing, Target, Exists
  <2>6. \A t, u \in Session :
          Doing(t, "create", "answered")' /\ Inserting(u, Target(t))' => t = u
    BY <2>1 DEF TaskOK, LocksOK, Doing, Inserting, Target
  <2>7. \A t \in Session : Doing(t, "update", "answered")' => Exists(Target(t))'
    BY <2>1, <2>4 DEF Doing, Target, Exists
  <2> QED
    BY <2>5, <2>6, <2>7 DEF LocksOK, Inserting, Doing, Target
<1> QED
  BY <1>3, <1>6, <1>7, <1>8 DEF TaskOK, SessionOK, RequestOK

LEMMA ServeKeeps ==
    ASSUME TaskOK, NEW s \in Session, Serve(s) \/ Rollback(s)
    PROVE  TaskOK'
<1>1. CASE Get(s) \/ Page(s) \/ Rollback(s)
  <2>1. Step(s, Idle) /\ UNCHANGED <<rows, created>>
    BY <1>1 DEF Get, Page, Rollback, Finish
  <2> QED
    BY <2>1, FinishKeeps
<1> QED
  BY <1>1, CreateKeeps, CountKeeps, SelectKeeps, FlushKeeps, CommitKeeps DEF Serve

\* Every request is one that the handlers expect.
LEMMA SentOK ==
    ASSUME pc \in Steps, pc # "ended"
    PROVE  RequestOK(Sent)
<1>1. Sample \in Row
  BY SmokeAssumption DEF Sample, Row, Status
<1>2. AskOK([status |-> "completed"])
  BY DEF AskOK, Status
<1> QED
  BY <1>1, <1>2 DEF Steps, Sent, Request, RequestOK, WholeRequest, Ops

LEMMA UserRequestOK == \A r \in UserRequest : RequestOK(r)
<1>1. [status |-> "pending", description |-> User] \in Row
  BY SmokeAssumption DEF Row, Status
<1>2. \A ask \in [{"description"} -> {User}] \cup [{"status"} -> Status] : AskOK(ask)
  BY DEF AskOK
<1> QED
  BY <1>1, <1>2 DEF UserRequest, Request, RequestOK, WholeRequest, Ops

LEMMA ReceiveKeepsStep ==
    ASSUME pc \in Steps, Receive
    PROVE  pc' \in Steps
<1>1. \/ OnCreate \/ OnRead \/ OnUpdate \/ OnReread
      \/ OnCleanup \/ OnDelete \/ OnConfirm \/ OnList
  BY DEF Receive, Steps
<1>2. CASE OnCreate
  BY <1>2 DEF OnCreate, Raise, Steps
<1>3. CASE OnRead \/ OnUpdate \/ OnReread \/ OnList
  BY <1>3 DEF OnRead, OnUpdate, OnReread, OnList, Raise, Goto, Steps
<1>4. Cleaned \/ CleanupFailed => pc' \in Steps
  BY DEF Cleaned, CleanupFailed, Raise, Goto, Steps
<1>5. CASE OnCleanup \/ OnDelete \/ OnConfirm
  BY <1>4, <1>5 DEF OnCleanup, OnDelete, OnConfirm, Raise, Goto, Steps
<1> QED
  BY <1>1, <1>2, <1>3, <1>4, <1>5

TaskInv == TaskOK /\ pc \in Steps

\* The service's transactions keep their invariant, whatever its clients do
\* (src/database.py, src/routes/tasks.py).
THEOREM Transactions == Spec => []TaskInv
<1>1. Init => TaskInv
  <2> SUFFICES ASSUME Init PROVE TaskInv
    OBVIOUS
  <2>1. sessions = [s \in Session |-> Idle] /\ rows = [i \in {} |-> None] /\ created = 0
    BY DEF Init, TaskInit
  <2>2. \A s \in Session : sessions[s].pc = "free"
    BY <2>1 DEF Idle
  <2>3. LocksOK
    BY <2>2 DEF LocksOK, Doing
  <2>4. RowsOK
    BY <2>1 DEF RowsOK
  <2>5. pc \in Steps
    BY DEF Init, Steps
  <2> QED
    BY <2>1, <2>3, <2>4, <2>5, IdleOK DEF TaskInv, TaskOK
<1>2. TaskInv /\ [Next]_vars => TaskInv'
  <2> SUFFICES ASSUME TaskInv, [Next]_vars PROVE TaskInv'
    OBVIOUS
  <2>0. TaskOK /\ pc \in Steps
    BY DEF TaskInv
  <2>1. CASE Ask1
    <3>1. PICK s \in Session : Send(s, Sent) /\ pc # "ended" /\ pc' = pc
      BY <2>1 DEF Ask1
    <3> QED
      BY <2>0, <3>1, SentOK, SendKeeps DEF TaskInv
  <2>2. CASE Receive
    <3>1. UNCHANGED <<rows, created, sessions>>
      BY <2>2 DEF Receive, service
    <3>2. TaskOK'
      BY <2>0, <3>1 DEF TaskOK, RowsOK, LocksOK, SessionOK, RequestOK, Doing, Inserting,
                        Target, Exists
    <3> QED
      BY <2>0, <2>2, <3>2, ReceiveKeepsStep DEF TaskInv
  <2>3. CASE UserSends
    <3>1. PICK s \in Session, r \in UserRequest : Send(s, r) /\ pc' = pc
      BY <2>3 DEF UserSends, check
    <3> QED
      BY <2>0, <3>1, UserRequestOK, SendKeeps DEF TaskInv
  <2>4. CASE Server
    BY <2>0, <2>4, ServeKeeps DEF Server, TaskInv, check
  <2>5. CASE ClientGivesUp \/ UNCHANGED vars
    <3>1. UNCHANGED <<rows, created, sessions>> /\ pc' = pc
      BY <2>5 DEF ClientGivesUp, GiveUp, vars, taskVars, service, check
    <3> QED
      BY <2>0, <3>1 DEF TaskInv, TaskOK, RowsOK, LocksOK, SessionOK, RequestOK, Doing,
                        Inserting, Target, Exists
  <2> QED
    BY <2>1, <2>2, <2>3, <2>4, <2>5 DEF Next
<1> QED
  BY <1>1, <1>2, PTL DEF Spec

\* Only a commit changes the table.
LEMMA OnlyCommits ==
    ASSUME [Next]_vars
    PROVE  UNCHANGED rows \/ \E s \in Session : Commit(s)
BY DEF Next, vars, taskVars, service, Ask1, Receive, UserSends, Server, ClientGivesUp,
       GiveUp, Send, Serve, Rollback, Create, Get, Count, Page, Select, Flush, Finish,
       Respond

\* A deleted task does not come back: an update that had selected it finds
\* no row to write (update_task, delete_task, get_db).
THEOREM NoResurrection == Spec => DeletedStaysDeleted
<1>1. TaskInv /\ [Next]_vars =>
        [\A i \in 1 .. created :
           /\ ~Exists(i)
           /\ ~\E s \in Session : Doing(s, "create", "answered") /\ Target(s) = i
           => ~Exists(i)']_vars
  <2> SUFFICES ASSUME TaskInv, [Next]_vars, NEW i \in 1 .. created, i \notin DOMAIN rows,
                      ~\E s \in Session : Doing(s, "create", "answered") /\ Target(s) = i
               PROVE  i \notin DOMAIN rows'
    BY DEF Exists
  <2>1. CASE UNCHANGED rows
    BY <2>1
  <2>2. ASSUME NEW s \in Session, Commit(s)
        PROVE  i \notin DOMAIN rows'
    <3> PICK j, op : j = Target(s) /\ op = sessions[s].request.op
      OBVIOUS
    <3>1. /\ op \in {"create", "update", "delete"}
          /\ DOMAIN rows' = IF op = "delete" THEN DOMAIN rows \ {j}
                                             ELSE DOMAIN rows \cup {j}
          /\ op = "update" => j \in DOMAIN rows
      BY <2>2, CommitRows DEF TaskInv
    <3>2. op = "create" => j # i
      BY <2>2 DEF Commit, Doing
    <3> QED
      BY <3>1, <3>2
  <2> QED
    BY <2>1, <2>2, OnlyCommits
<1> QED
  BY <1>1, Transactions, PTL DEF Spec, DeletedStaysDeleted

\* An update that had read the row before it does not undo what a user has
\* written to it since (update_task).
THEOREM NoLostEdit == Spec => UserEditSurvives
<1>1. TaskInv /\ [Next]_vars =>
        [\A i \in DOMAIN rows \cap DOMAIN rows' :
           rows[i].description = User => rows'[i].description = User]_vars
  <2> SUFFICES ASSUME TaskInv, [Next]_vars, NEW i \in DOMAIN rows, i \in DOMAIN rows',
                      rows[i].description = User
               PROVE  rows'[i].description = User
    OBVIOUS
  <2>1. CASE UNCHANGED rows
    BY <2>1
  <2>2. ASSUME NEW s \in Session, Commit(s)
        PROVE  rows'[i].description = User
    <3> PICK j, op : j = Target(s) /\ op = sessions[s].request.op
      OBVIOUS
    <3>1. /\ op \in {"create", "update", "delete"}
          /\ DOMAIN rows' = IF op = "delete" THEN DOMAIN rows \ {j}
                                             ELSE DOMAIN rows \cup {j}
          /\ i # j => rows'[i] = rows[i]
          /\ op = "create" => j \notin DOMAIN rows
          /\ op = "update" => rows'[j] = Written(s, rows[j])
      BY <2>2, CommitRows DEF TaskInv
    <3>2. op = "update" => AskOK(Ask(s))
      BY <2>2 DEF Commit, TaskInv, TaskOK, SessionOK, RequestOK, Ask
    <3>3. rows[i] \in Row
      BY DEF TaskInv, TaskOK, RowsOK
    <3>4. op = "update" => Written(s, rows[i]).description = User
      BY <3>2, <3>3, WrittenRow
    <3> QED
      BY <3>1, <3>4
  <2> QED
    BY <2>1, <2>2, OnlyCommits
<1> QED
  BY <1>1, Transactions, PTL DEF Spec, UserEditSurvives

-----------------------------------------------------------------------------
(* The check.                                                              *)

\* The check's identifier is of a committed row, or of one deleted since.
Settled(i) == i \in 1 .. created /\ \A s \in Session : ~Inserting(s, i)

\* No row, or one that is no longer the check's.
NotMine(i) == Exists(i) => rows[i].description # Smoke

WholeMessage(m) == m = [from |-> m.from, code |-> m.code, body |-> m.body]
InboxOK == /\ inbox = [c \in Observed |-> inbox[c]]
           /\ WholeMessage(inbox[Smoke])

\* The session whose answer the check waits for does what the check sent.
WaitOK == \A s \in Session :
    /\ sessions[s].pc \in Working /\ sessions[s].request.by = Smoke
    /\ inbox[Smoke].from = s
    => sessions[s].request = Sent

\* What an answer tells at the step the check is at.
AnswerOK(m) ==
    /\ m.code = 201 => m.body.id \in 1 .. created
    /\ pc = "read" /\ m.code = 200 => Settled(task_id)
    /\ pc \in {"cleanup", "confirm"} /\ m.code = 404 /\ failure = None => ~Exists(task_id)
    /\ pc = "cleanup" /\ foreign /\ m.code = 200 => m.body.row.description # Smoke

\* What the check knows at each of its steps.
KnowledgeOK ==
    /\ pc \in {"update", "reread"} => Settled(task_id)
    /\ pc \in {"cleanup", "delete", "confirm"} /\ failure = None => Settled(task_id)
    /\ pc \in {"list", "ended"} /\ failure = None => Settled(task_id) /\ ~Exists(task_id)
    /\ foreign => /\ pc \in {"cleanup", "list", "ended"}
                  /\ Settled(task_id) /\ NotMine(task_id)

CheckInv == TaskInv /\ InboxOK /\ WaitOK /\ AnswerOK(inbox[Smoke]) /\ KnowledgeOK

\* The sessions after a step: whoever inserts did so before or starts now,
\* and whoever works has the request it had or was just asked.
LEMMA SessionsChange ==
    ASSUME TaskInv, NEW s \in Session, Serve(s) \/ Rollback(s)
    PROVE  /\ created' \in Nat /\ created <= created'
           /\ \A t \in Session : Doing(t, "create", "answered")' =>
                \/ Doing(t, "create", "answered") /\ Target(t)' = Target(t)
                \/ Target(t)' = created + 1
           /\ \A t \in Session : sessions'[t].pc \in Working =>
                sessions[t].pc \in Working /\ sessions'[t].request = sessions[t].request
           /\ \A t \in Session : t # s =>
                sessions'[t].pc = sessions[t].pc
                /\ sessions'[t].request = sessions[t].request
<1> DEFINE Same(t) == sessions'[t].pc = sessions[t].pc
                      /\ sessions'[t].request = sessions[t].request
<1>1. created \in Nat /\ \A t \in Session : SessionOK(sessions[t])
  BY DEF TaskInv, TaskOK, RowsOK
<1>2. \A t \in Session : Whole(sessions[t])
  BY <1>1 DEF SessionOK
<1>3. created' \in Nat /\ created <= created'
  BY <1>1 DEF Serve, Rollback, Create, Get, Count, Page, Select, Flush, Commit, Finish,
              Respond
<1>4. \A t \in Session : t # s => Same(t)
  <2>1. CASE Commit(s)
    <3>1. \A t \in Session : t # s =>
            \/ sessions'[t] = sessions[t]
            \/ sessions'[t] = [sessions[t] EXCEPT !.quiet = FALSE]
      BY <2>1 DEF Commit
    <3>2. \A t \in Session : [sessions[t] EXCEPT !.quiet = FALSE] =
            [pc |-> sessions[t].pc, request |-> sessions[t].request,
             row |-> sessions[t].row, total |-> sessions[t].total, quiet |-> FALSE]
      BY <1>2, Reshaped
    <3> QED
      BY <3>1, <3>2
  <2>2. CASE ~Commit(s)
    <3>1. \E x : Step(s, x)
      BY <2>2 DEF Serve, Rollback, Create, Get, Count, Page, Select, Flush, Finish, Respond
    <3> QED
      BY <3>1 DEF Step
  <2> QED
    BY <2>1, <2>2
<1>5. /\ sessions'[s].pc \in Working =>
           sessions[s].pc \in Working /\ sessions'[s].request = sessions[s].request
      /\ Doing(s, "create", "answered")' => Target(s)' = created + 1
  <2>0. Idle.pc = "free" /\ Idle.pc \notin Working
    BY DEF Idle, Working
  <2>1. CASE Commit(s) \/ Rollback(s) \/ Get(s) \/ Page(s)
    <3>1. sessions'[s] = Idle
      BY <2>1 DEF Commit, Rollback, Get, Page, Finish, Step, TaskInv, TaskOK
    <3> QED
      BY <2>0, <3>1 DEF Doing
  <2>2. CASE Create(s)
    <3>1. PICK x : x = [sessions[s] EXCEPT !.pc = "answered", !.request.id = created + 1]
      OBVIOUS
    <3>2. sessions'[s] = x /\ sessions[s].pc = "open"
      BY <2>2, <3>1 DEF Create, Doing, Step, TaskInv, TaskOK
    <3>3. WholeRequest(sessions[s].request)
      BY <1>1, <3>2 DEF SessionOK, RequestOK
    <3>4. x = [pc |-> "answered",
              request |-> [by |-> sessions[s].request.by, op |-> sessions[s].request.op,
                           id |-> created + 1, ask |-> sessions[s].request.ask],
              row |-> sessions[s].row, total |-> sessions[s].total,
              quiet |-> sessions[s].quiet]
      BY <1>2, <3>1, <3>3, Renumbered
    <3>5. x.pc \notin Working /\ x.request.id = created + 1
      BY <3>4 DEF Working
    <3> QED
      BY <3>2, <3>5 DEF Target
  <2>3. CASE Count(s) \/ Select(s) \/ Flush(s)
    <3>1. PICK x : sessions'[s] = x /\
            \/ x = Idle
            \/ x = [sessions[s] EXCEPT !.pc = "counted", !.total = Counted(Ask(s).filter)]
            \/ x = [sessions[s] EXCEPT !.pc = "answered"]
            \/ x = [sessions[s] EXCEPT !.pc = "selected", !.row = rows[Target(s)]]
      <4>1. \/ Step(s, Idle)
            \/ Step(s, [sessions[s] EXCEPT !.pc = "counted", !.total = Counted(Ask(s).filter)])
            \/ Step(s, [sessions[s] EXCEPT !.pc = "answered"])
            \/ Step(s, [sessions[s] EXCEPT !.pc = "selected", !.row = rows[Target(s)]])
        BY <2>3 DEF Count, Select, Flush, Finish, Respond
      <4>2. \A y : Step(s, y) => sessions'[s] = y
        BY DEF Step, TaskInv, TaskOK
      <4> QED
        BY <4>1, <4>2
    <3>2. x.request = sessions[s].request \/ x = Idle
      <4>1. Whole(sessions[s])
        BY <1>2
      <4>2. CASE x = [sessions[s] EXCEPT !.pc = "counted", !.total = Counted(Ask(s).filter)]
        <5>1. x = [pc |-> "counted", request |-> sessions[s].request,
                   row |-> sessions[s].row, total |-> Counted(Ask(s).filter),
                   quiet |-> sessions[s].quiet]
          BY <4>1, <4>2, Reshaped
        <5> QED
          BY <5>1
      <4>3. CASE x = [sessions[s] EXCEPT !.pc = "answered"]
        <5>1. x = [pc |-> "answered", request |-> sessions[s].request,
                   row |-> sessions[s].row, total |-> sessions[s].total,
                   quiet |-> sessions[s].quiet]
          BY <4>1, <4>3, Reshaped
        <5> QED
          BY <5>1
      <4>4. CASE x = [sessions[s] EXCEPT !.pc = "selected", !.row = rows[Target(s)]]
        <5>1. x = [pc |-> "selected", request |-> sessions[s].request,
                   row |-> rows[Target(s)], total |-> sessions[s].total,
                   quiet |-> sessions[s].quiet]
          BY <4>1, <4>4, Reshaped
        <5> QED
          BY <5>1
      <4> QED
        BY <3>1, <4>2, <4>3, <4>4
    <3>3. sessions[s].pc \in Working /\ sessions[s].request.op # "create"
      BY <2>3 DEF Count, Select, Flush, Doing, Working
    <3> QED
      BY <2>0, <3>1, <3>2, <3>3 DEF Doing
  <2> QED
    BY <2>1, <2>2, <2>3 DEF Serve
<1> QED
  BY <1>3, <1>4, <1>5 DEF Doing, Target

\* What the check knows of an identifier stays true.
LEMMA Stable ==
    ASSUME TaskInv, NEW s \in Session, Serve(s) \/ Rollback(s), NEW i, Settled(i)
    PROVE  /\ Settled(i)'
           /\ ~Exists(i) => ~Exists(i)'
           /\ NotMine(i) => NotMine(i)'
<1>0. created \in Nat
  BY DEF TaskInv, TaskOK, RowsOK
<1>1. Settled(i)'
  BY <1>0, SessionsChange DEF Settled, Inserting
<1>2. CASE UNCHANGED rows
  BY <1>1, <1>2 DEF Exists, NotMine
<1>3. CASE Commit(s)
  <2> PICK j, op : j = Target(s) /\ op = sessions[s].request.op
    OBVIOUS
  <2>1. /\ op \in {"create", "update", "delete"}
        /\ DOMAIN rows' = IF op = "delete" THEN DOMAIN rows \ {j} ELSE DOMAIN rows \cup {j}
        /\ i \in DOMAIN rows /\ i # j /\ i \in DOMAIN rows' => rows'[i] = rows[i]
        /\ op = "update" => j \in DOMAIN rows /\ rows'[j] = Written(s, rows[j])
    BY <1>3, CommitRows DEF TaskInv
  <2>2. op = "create" => j # i
    BY <1>3 DEF Commit, Settled, Inserting, Doing
  <2>3. op = "update" => AskOK(Ask(s))
    BY <1>3 DEF Commit, TaskInv, TaskOK, SessionOK, RequestOK, Ask
  <2>4. \A k \in DOMAIN rows : rows[k] \in Row
    BY DEF TaskInv, TaskOK, RowsOK
  <2>5. op = "update" /\ rows[j].description # Smoke => rows'[j].description # Smoke
    BY <2>1, <2>3, <2>4, WrittenRow
  <2> QED
    BY <1>1, <2>1, <2>2, <2>5 DEF Exists, NotMine
<1> QED
  BY <1>2, <1>3 DEF Serve, Rollback, Create, Get, Count, Page, Select, Flush, Finish, Respond

LEMMA Answered ==
    ASSUME InboxOK, NEW s, NEW code, NEW body, Answer(s, code, body)
    PROVE  /\ InboxOK'
           /\ inbox'[Smoke] = IF sessions[s].request.by = Smoke /\ inbox[Smoke].from = s
                               THEN [from |-> inbox[Smoke].from, code |-> code, body |-> body]
                               ELSE inbox[Smoke]
<1> PICK c : c = sessions[s].request.by
  OBVIOUS
<1>0. Smoke \in Observed
  BY SmokeAssumption
<1>1. CASE c \in Observed /\ inbox[c].from = s
  <2> DEFINE new == [inbox[c] EXCEPT !.code = code, !.body = body]
  <2>1. inbox' = [inbox EXCEPT ![c].code = code, ![c].body = body]
    BY <1>1 DEF Answer
  <2>2. inbox' = [d \in Observed |-> IF d = c THEN new ELSE inbox[d]]
    BY <1>1, <2>1 DEF InboxOK
  <2>3. c = Smoke => new = [from |-> inbox[Smoke].from, code |-> code, body |-> body]
    <3> SUFFICES ASSUME c = Smoke
                 PROVE  new = [from |-> inbox[Smoke].from, code |-> code, body |-> body]
      OBVIOUS
    <3> PICK m : m = inbox[Smoke]
      OBVIOUS
    <3> PICK f, g, h : m = [from |-> f, code |-> g, body |-> h]
      BY DEF InboxOK, WholeMessage
    <3>1. m.from = f /\ DOMAIN m = {"from", "code", "body"}
      OBVIOUS
    <3>2. [m EXCEPT !.code = code, !.body = body] =
            [k \in DOMAIN m |-> IF k = "body" THEN body ELSE IF k = "code" THEN code
                                ELSE m[k]]
      OBVIOUS
    <3>3. [m EXCEPT !.code = code, !.body = body] = [from |-> f, code |-> code, body |-> body]
      BY <3>1, <3>2
    <3> QED
      BY <3>1, <3>3
  <2> HIDE DEF new
  <2>4. inbox'[Smoke] = IF c = Smoke
                         THEN [from |-> inbox[Smoke].from, code |-> code, body |-> body]
                         ELSE inbox[Smoke]
    BY <1>0, <2>2, <2>3
  <2>5. WholeMessage(inbox'[Smoke])
    BY <2>4 DEF InboxOK, WholeMessage
  <2>6. inbox' = [d \in Observed |-> inbox'[d]]
    BY <2>2
  <2> QED
    BY <1>1, <2>4, <2>5, <2>6 DEF InboxOK, WholeMessage
<1>2. CASE ~(c \in Observed /\ inbox[c].from = s)
  BY <1>0, <1>2 DEF Answer, InboxOK, WholeMessage
<1> QED
  BY <1>1, <1>2

\* The answers there are.
Outcome(s, code, body) ==
    \/ code = 201 /\ created' = created + 1 /\ body.id = created + 1
    \/ /\ code = 200 /\ sessions[s].request.op = "get"
       /\ Exists(Target(s)) /\ body.row = rows[Target(s)]
    \/ code = 404 /\ sessions[s].request.op = "get" /\ ~Exists(Target(s))
    \/ code # 201 /\ sessions[s].request.op \in {"list", "update", "delete"}
    \/ code \in {204, 403, 500}

LEMMA Outcomes ==
    ASSUME TaskInv, NEW s \in Session, Serve(s) \/ Rollback(s)
    PROVE  \/ inbox' = inbox
           \/ /\ rows' = rows /\ sessions[s].pc \in Working
              /\ \E code, body : Answer(s, code, body) /\ Outcome(s, code, body)
<1>1. CASE Create(s)
  BY <1>1 DEF Create, Outcome, Doing, Working
<1>2. CASE Get(s)
  <2>1. CASE Exists(Target(s))
    BY <1>2, <2>1 DEF Get, Finish, Outcome, Doing, Working
  <2>2. CASE ~Exists(Target(s))
    BY <1>2, <2>2 DEF Get, Finish, Outcome, Doing, Working
  <2> QED
    BY <2>1, <2>2
<1>3. CASE Count(s)
  BY <1>3 DEF Count, Finish, Outcome, Doing, Working
<1>4. CASE Page(s)
  <2>1. PICK body : Answer(s, 200, body) /\ rows' = rows
    BY <1>4 DEF Page, Finish
  <2> QED
    BY <1>4, <2>1 DEF Page, Outcome, Doing, Working
<1>5. CASE Select(s)
  <2>1. \/ inbox' = inbox
        \/ rows' = rows /\ \E code \in {204, 404} : Answer(s, code, None)
    BY <1>5 DEF Select, Finish, Respond
  <2> QED
    BY <1>5, <2>1 DEF Select, Outcome, Working
<1>6. CASE Flush(s)
  <2>1. rows' = rows /\ \E code \in {200, 500} : \E body : Answer(s, code, body)
    BY <1>6 DEF Flush, Finish, Respond
  <2> QED
    BY <1>6, <2>1 DEF Flush, Outcome, Doing, Working
<1>7. CASE Commit(s)
  BY <1>7 DEF Commit
<1>8. CASE Rollback(s)
  <2>1. SessionOK(sessions[s])
    BY DEF TaskInv, TaskOK
  <2> QED
    BY <1>8, <2>1 DEF Rollback, Outcome, SessionOK
<1> QED
  BY <1>1, <1>2, <1>3, <1>4, <1>5, <1>6, <1>7, <1>8 DEF Serve

LEMMA ServerKeepsCheck ==
    ASSUME CheckInv, NEW s \in Session, Serve(s) \/ Rollback(s), UNCHANGED check
    PROVE  CheckInv'
<1> PICK i : i = task_id
  OBVIOUS
<1>0. /\ pc' = pc /\ task_id' = i /\ failure' = failure /\ foreign' = foreign
      /\ TaskInv /\ InboxOK /\ WaitOK /\ AnswerOK(inbox[Smoke]) /\ KnowledgeOK
      /\ created \in Nat
  BY DEF check, CheckInv, TaskInv, TaskOK, RowsOK
<1>1. TaskInv'
  BY <1>0, ServeKeeps DEF TaskInv
<1>2. Settled(i) => /\ Settled(i)'
                    /\ ~Exists(i) => ~Exists(i)'
                    /\ NotMine(i) => NotMine(i)'
  BY <1>0, Stable
<1> DEFINE SettledNext == Settled(i)'
           ExistsNext == Exists(i)'
           NotMineNext == NotMine(i)'
<1>3. KnowledgeOK'
  <2>1. KnowledgeOK' <=>
          /\ pc \in {"update", "reread"} => SettledNext
          /\ pc \in {"cleanup", "delete", "confirm"} /\ failure = None => SettledNext
          /\ pc \in {"list", "ended"} /\ failure = None => SettledNext /\ ~ExistsNext
          /\ foreign => pc \in {"cleanup", "list", "ended"} /\ SettledNext /\ NotMineNext
    BY <1>0 DEF KnowledgeOK, Settled, Exists, NotMine, Inserting, Doing, Target
  <2> HIDE DEF SettledNext, ExistsNext, NotMineNext
  <2> QED
    BY <1>0, <1>2, <2>1 DEF KnowledgeOK, SettledNext, ExistsNext, NotMineNext
<1>4. created' \in Nat /\ created <= created'
  BY <1>0, SessionsChange
<1>5. ASSUME NEW m, m = inbox'[Smoke],
             m.code = 201 => m.body.id \in 1 .. created',
             pc = "read" /\ m.code = 200 => SettledNext,
             pc \in {"cleanup", "confirm"} /\ m.code = 404 /\ failure = None => ~ExistsNext,
             pc = "cleanup" /\ foreign /\ m.code = 200 => m.body.row.description # Smoke
      PROVE  AnswerOK(inbox[Smoke])'
  BY <1>0, <1>5 DEF AnswerOK, Settled, Exists, Inserting, Doing, Target
<1>6. ASSUME inbox'[Smoke] = inbox[Smoke]
      PROVE  AnswerOK(inbox[Smoke])'
  <2> PICK m : m = inbox[Smoke]
    OBVIOUS
  <2>1. /\ m.code = 201 => m.body.id \in 1 .. created
        /\ pc = "read" /\ m.code = 200 => Settled(i)
        /\ pc \in {"cleanup", "confirm"} /\ m.code = 404 /\ failure = None => ~Exists(i)
        /\ pc = "cleanup" /\ foreign /\ m.code = 200 => m.body.row.description # Smoke
    BY <1>0 DEF AnswerOK
  <2>2. pc \in {"cleanup", "confirm"} /\ failure = None => Settled(i)
    BY <1>0 DEF KnowledgeOK
  <2>3. m.code = 201 => m.body.id \in 1 .. created'
    BY <1>0, <1>4, <2>1
  <2> QED
    BY <1>2, <1>5, <1>6, <2>1, <2>2, <2>3
<1>7. ASSUME inbox'[Smoke] # inbox[Smoke]
      PROVE  AnswerOK(inbox[Smoke])'
  <2>1. PICK code, body : Answer(s, code, body) /\ Outcome(s, code, body)
                          /\ rows' = rows /\ sessions[s].pc \in Working
    BY <1>0, <1>7, Outcomes
  <2>2. /\ sessions[s].request.by = Smoke /\ inbox[Smoke].from = s
        /\ inbox'[Smoke] = [from |-> inbox[Smoke].from, code |-> code, body |-> body]
    BY <1>0, <1>7, <2>1, Answered
  <2>3. sessions[s].request = Sent
    BY <1>0, <2>1, <2>2 DEF WaitOK
  <2>4. pc \in {"read", "cleanup", "confirm"} =>
          sessions[s].request.op = "get" /\ Target(s) = i
    BY <2>3 DEF Sent, Request, Target
  <2>5. Exists(i) => Settled(i)
    BY <1>0 DEF TaskInv, TaskOK, RowsOK, LocksOK, Settled, Exists, Inserting
  <2>6. ExistsNext <=> Exists(i)
    BY <2>1 DEF Exists
  <2>7. foreign /\ Exists(i) => rows[i].description # Smoke
    BY <1>0 DEF KnowledgeOK, NotMine
  <2> PICK m : m = inbox'[Smoke]
    OBVIOUS
  <2>8. m.code = code /\ m.body = body
    BY <2>2
  <2>9. code = 201 => body.id \in 1 .. created'
    <3>1. code = 201 => created' = created + 1 /\ body.id = created + 1
      BY <2>1 DEF Outcome
    <3> QED
      BY <1>0, <3>1
  <2>10. pc \in {"read", "cleanup"} /\ code = 200 => Exists(i) /\ body.row = rows[i]
    BY <2>1, <2>4 DEF Outcome
  <2>11. pc \in {"cleanup", "confirm"} /\ code = 404 => ~Exists(i)
    BY <2>1, <2>4 DEF Outcome
  <2> HIDE DEF SettledNext, ExistsNext, NotMineNext
  <2>12. pc = "read" /\ m.code = 200 => SettledNext
    BY <1>2, <2>5, <2>8, <2>10 DEF SettledNext
  <2> QED
    BY <1>5, <2>6, <2>7, <2>8, <2>9, <2>10, <2>11, <2>12
<1>8. InboxOK' /\ inbox'[Smoke].from = inbox[Smoke].from
  <2>1. CASE inbox' = inbox
    BY <1>0, <2>1 DEF InboxOK, WholeMessage
  <2>2. ASSUME NEW code, NEW body, Answer(s, code, body)
        PROVE  InboxOK' /\ inbox'[Smoke].from = inbox[Smoke].from
    <3>1. /\ InboxOK'
          /\ \/ inbox'[Smoke] = [from |-> inbox[Smoke].from, code |-> code, body |-> body]
             \/ inbox'[Smoke] = inbox[Smoke]
      BY <1>0, <2>2, Answered
    <3> QED
      BY <3>1
  <2> QED
    BY <1>0, <2>1, <2>2, Outcomes
<1>9. WaitOK'
  <2>1. Sent' = Sent
    BY <1>0 DEF Sent, Request
  <2> QED
    BY <1>0, <1>8, <2>1, SessionsChange DEF WaitOK
<1> QED
  BY <1>1, <1>3, <1>6, <1>7, <1>8, <1>9 DEF CheckInv

\* A request inserts nothing yet, and touches the check's inbox only if it
\* is the check's.
LEMMA Sending ==
    ASSUME TaskInv, InboxOK, NEW s \in Session, NEW r, Send(s, r)
    PROVE  /\ rows' = rows /\ created' = created /\ InboxOK'
           /\ sessions'[s].pc = "open" /\ sessions'[s].request = r
           /\ \A t \in Session : t # s => sessions'[t] = sessions[t]
           /\ inbox'[Smoke] = IF r.by = Smoke THEN [from |-> s, code |-> 0, body |-> None]
                                             ELSE inbox[Smoke]
<1>0. Smoke \in Observed
  BY SmokeAssumption
<1>1. PICK x : x = [Idle EXCEPT !.pc = "open", !.request = r]
  OBVIOUS
<1>2. x = [pc |-> "open", request |-> r, row |-> None, total |-> 0, quiet |-> TRUE]
  BY <1>1 DEF Idle
<1>3. /\ sessions'[s] = x /\ rows' = rows /\ created' = created
      /\ \A t \in Session : t # s => sessions'[t] = sessions[t]
  BY <1>1 DEF Send, Step, TaskInv, TaskOK
<1>4. PICK m : m = [Nothing EXCEPT !.from = s]
  OBVIOUS
<1>5. m = [from |-> s, code |-> 0, body |-> None]
  BY <1>4 DEF Nothing
<1>6. inbox' = [c \in Observed |-> IF c = r.by THEN m ELSE inbox[c]]
  BY <1>4 DEF Send
<1>7. inbox'[Smoke] = IF r.by = Smoke THEN m ELSE inbox[Smoke]
  BY <1>0, <1>6
<1>8. InboxOK'
  BY <1>5, <1>6, <1>7 DEF InboxOK, WholeMessage
<1> QED
  BY <1>2, <1>3, <1>5, <1>7, <1>8

LEMMA AskKeepsCheck ==
    ASSUME CheckInv, TaskInv', Ask1
    PROVE  CheckInv'
<1>0. /\ pc' = pc /\ task_id' = task_id /\ failure' = failure
      /\ TaskInv /\ InboxOK /\ WaitOK /\ KnowledgeOK
  BY DEF Ask1, CheckInv
<1>a. foreign' => \/ foreign
                  \/ /\ pc = "cleanup" /\ Exists(task_id)
                     /\ rows[task_id].description # Smoke
  BY Zenon DEF Ask1
<1>1. PICK s \in Session : Send(s, Sent) /\ pc # "ended"
  BY DEF Ask1
<1>2. Sent.by = Smoke /\ Sent' = Sent
  BY <1>0, <1>1 DEF TaskInv, Steps, Sent, Request
<1>3. /\ rows' = rows /\ created' = created /\ InboxOK'
      /\ sessions'[s].pc = "open" /\ sessions'[s].request = Sent
      /\ \A t \in Session : t # s => sessions'[t] = sessions[t]
      /\ inbox'[Smoke] = [from |-> s, code |-> 0, body |-> None]
  BY <1>0, <1>1, <1>2, Sending
<1>4. AnswerOK(inbox[Smoke])'
  <2>1. inbox'[Smoke].code = 0
    BY <1>3
  <2> QED
    BY <2>1 DEF AnswerOK
<1>5. WaitOK'
  <2>1. inbox'[Smoke].from = s
    BY <1>3
  <2> QED
    BY <1>2, <1>3, <2>1 DEF WaitOK
<1>6. KnowledgeOK'
  <2>1. \A i : Exists(i) => Settled(i)
    BY <1>0 DEF TaskInv, TaskOK, RowsOK, LocksOK, Settled, Exists, Inserting
  <2>2. Settled(task_id) => Settled(task_id)'
    BY <1>0, <1>3 DEF Settled, Inserting, Doing, Target
  <2>3. (Exists(task_id)' <=> Exists(task_id)) /\ (NotMine(task_id) => NotMine(task_id)')
    BY <1>0, <1>3 DEF Exists, NotMine
  <2>4. foreign' => pc \in {"cleanup", "list", "ended"} /\ Settled(task_id) /\ NotMine(task_id)
    BY <1>0, <1>a, <2>1 DEF KnowledgeOK, NotMine
  <2> QED
    BY <1>0, <2>2, <2>3, <2>4 DEF KnowledgeOK
<1> QED
  BY <1>3, <1>4, <1>5, <1>6 DEF CheckInv

\* Steps that concern neither the check's session nor its answers.
LEMMA OthersKeepCheck ==
    ASSUME CheckInv, TaskInv', UserSends \/ ClientGivesUp \/ UNCHANGED vars
    PROVE  CheckInv'
<1>0. /\ pc' = pc /\ task_id' = task_id /\ failure' = failure /\ foreign' = foreign
      /\ TaskInv /\ InboxOK /\ WaitOK /\ KnowledgeOK /\ AnswerOK(inbox[Smoke])
  BY DEF UserSends, ClientGivesUp, vars, check, CheckInv
<1>1. Sent' = Sent
  BY <1>0 DEF Sent, Request
<1>2. /\ rows' = rows /\ created' = created /\ InboxOK'
      /\ \A t \in Session :
           \/ sessions'[t] = sessions[t]
           \/ sessions'[t].pc = "open" /\ sessions'[t].request.by # Smoke
      /\ \/ inbox'[Smoke] = inbox[Smoke]
         \/ inbox'[Smoke] = [from |-> None, code |-> Lost, body |-> None]
  <2>1. CASE UserSends
    <3>1. PICK s \in Session, r \in UserRequest : Send(s, r)
      BY <2>1 DEF UserSends
    <3>2. r.by # Smoke
      BY <3>1, SmokeAssumption DEF UserRequest, Request
    <3> QED
      BY <1>0, <3>1, <3>2, Sending
  <2>2. CASE ClientGivesUp
    <3>1. PICK m : m = [Nothing EXCEPT !.code = Lost]
      OBVIOUS
    <3>2. m = [from |-> None, code |-> Lost, body |-> None]
      BY <3>1 DEF Nothing
    <3>3. inbox' = [inbox EXCEPT ![Smoke] = m] /\ UNCHANGED service
      BY <2>2, <3>1 DEF ClientGivesUp, GiveUp
    <3>4. inbox'[Smoke] = m /\ inbox' = [c \in Observed |-> inbox'[c]]
      BY <1>0, <3>3, SmokeAssumption DEF InboxOK
    <3>5. InboxOK'
      BY <3>2, <3>4 DEF InboxOK, WholeMessage
    <3> QED
      BY <3>2, <3>3, <3>4, <3>5 DEF service
  <2>3. CASE UNCHANGED vars
    BY <1>0, <2>3 DEF vars, taskVars, service, InboxOK, WholeMessage
  <2> QED
    BY <2>1, <2>2, <2>3
<1>3. /\ inbox'[Smoke] = inbox[Smoke] \/ inbox'[Smoke].code = Lost
      /\ inbox'[Smoke].from = inbox[Smoke].from \/ inbox'[Smoke].from = None
  BY <1>2
<1>4. /\ Settled(task_id) => Settled(task_id)'
      /\ Exists(task_id)' <=> Exists(task_id)
      /\ NotMine(task_id) => NotMine(task_id)'
  <2>1. \A t \in Session : Inserting(t, task_id)' => Inserting(t, task_id)
    BY <1>0, <1>2 DEF Inserting, Doing, Target
  <2> QED
    BY <1>0, <1>2, <2>1 DEF Settled, Exists, NotMine
<1>5. KnowledgeOK'
  BY <1>0, <1>4 DEF KnowledgeOK
<1>6. AnswerOK(inbox[Smoke])'
  <2>1. CASE inbox'[Smoke] = inbox[Smoke]
    BY <1>0, <1>2, <1>4, <2>1 DEF AnswerOK
  <2>2. CASE inbox'[Smoke].code = Lost
    BY <2>2 DEF AnswerOK, Lost
  <2> QED
    BY <1>3, <2>1, <2>2
<1>7. WaitOK'
  BY <1>0, <1>1, <1>2, <1>3, SmokeAssumption DEF WaitOK
<1> QED
  BY <1>2, <1>5, <1>6, <1>7 DEF CheckInv

LEMMA ReceiveKeepsCheck ==
    ASSUME CheckInv, TaskInv', Receive
    PROVE  CheckInv'
<1>0. /\ rows' = rows /\ created' = created /\ sessions' = sessions /\ foreign' = foreign
      /\ pc \in Steps \ {"ended"} /\ inbox' = [inbox EXCEPT ![Smoke] = Nothing]
      /\ InboxOK /\ KnowledgeOK /\ AnswerOK(inbox[Smoke])
  BY DEF Receive, service, CheckInv, TaskInv
<1>1. inbox'[Smoke] = Nothing /\ inbox' = [c \in Observed |-> inbox'[c]]
  BY <1>0, SmokeAssumption DEF InboxOK
<1>2. InboxOK' /\ AnswerOK(inbox[Smoke])' /\ WaitOK'
  <2>1. inbox'[Smoke].code = 0 /\ inbox'[Smoke].from = None /\ WholeMessage(inbox'[Smoke])
    BY <1>1 DEF Nothing, WholeMessage
  <2>2. InboxOK'
    BY <1>1, <2>1 DEF InboxOK, WholeMessage
  <2>3. AnswerOK(inbox[Smoke])'
    BY <2>1 DEF AnswerOK
  <2>4. WaitOK'
    BY <2>1, SmokeAssumption DEF WaitOK
  <2> QED
    BY <2>2, <2>3, <2>4
<1> DEFINE i == task_id
           code == inbox[Smoke].code
<1>3. /\ Settled(i) /\ task_id' = i => Settled(task_id)'
      /\ ~Exists(i) /\ task_id' = i => ~Exists(task_id)'
      /\ NotMine(i) /\ task_id' = i => NotMine(task_id)'
  BY <1>0 DEF Settled, Exists, NotMine, Inserting, Doing, Target
<1>4. None \notin {"create_uncertain", "check", "cleanup_refused", "cleanup_failed", "endpoint"}
  BY SmokeAssumption DEF Failures
\* What the step's answer and the step say together.
<1>5. /\ pc = "create" => OnCreate
      /\ pc = "read" => OnRead
      /\ pc = "update" => OnUpdate
      /\ pc = "reread" => OnReread
      /\ pc = "cleanup" => OnCleanup
      /\ pc = "delete" => OnDelete
      /\ pc = "confirm" => OnConfirm
      /\ pc = "list" => OnList
  BY DEF Receive
<1>6. /\ pc' \in {"update", "reread"} => Settled(i) /\ task_id' = i
      /\ pc' \in {"cleanup", "delete", "confirm"} /\ failure' = None
           => Settled(i) /\ task_id' = i
      /\ pc' \in {"list", "ended"} /\ failure' = None
           => Settled(i) /\ ~Exists(i) /\ task_id' = i
      /\ foreign => pc' \in {"list", "ended"} /\ task_id' = i
  <2>1. CASE pc = "create"
    BY <1>0, <1>4, <1>5, <2>1 DEF OnCreate, Raise, KnowledgeOK
  <2>2. CASE pc \in {"read", "update", "reread"}
    BY <1>0, <1>4, <1>5, <2>2 DEF OnRead, OnUpdate, OnReread, Raise, Goto, Got,
                                  KnowledgeOK, AnswerOK
  <2>3. CASE pc = "cleanup"
    BY <1>0, <1>4, <1>5, <2>3 DEF OnCleanup, Cleaned, Raise, Goto, Got, Body,
                                  KnowledgeOK, AnswerOK
  <2>4. CASE pc \in {"delete", "confirm"}
    BY <1>0, <1>4, <1>5, <2>4 DEF OnDelete, OnConfirm, Cleaned, CleanupFailed, Raise,
                                  Goto, Got, KnowledgeOK, AnswerOK
  <2>5. CASE pc = "list"
    BY <1>0, <1>4, <1>5, <2>5 DEF OnList, Raise, Goto, KnowledgeOK
  <2> QED
    BY <1>0, <2>1, <2>2, <2>3, <2>4, <2>5 DEF Steps
<1>7. KnowledgeOK'
  BY <1>0, <1>3, <1>6 DEF KnowledgeOK
<1> QED
  BY <1>2, <1>7 DEF CheckInv

\* What the check knows at each of its steps is true (check_crud).
THEOREM Knowledge == Spec => []CheckInv
<1>1. Init /\ TaskInv => CheckInv
  <2> SUFFICES ASSUME Init, TaskInv PROVE CheckInv
    OBVIOUS
  <2>1. inbox = [c \in Observed |-> Nothing] /\ pc = "create" /\ foreign = FALSE
    BY DEF Init, TaskInit
  <2>2. inbox[Smoke] = Nothing
    BY <2>1, SmokeAssumption
  <2>3. WholeMessage(inbox[Smoke]) /\ inbox[Smoke].from = None /\ inbox[Smoke].code = 0
    BY <2>2 DEF Nothing, WholeMessage
  <2>4. InboxOK
    BY <2>1, <2>3 DEF InboxOK
  <2>5. WaitOK
    BY <2>3, SmokeAssumption DEF WaitOK
  <2>6. AnswerOK(inbox[Smoke])
    BY <2>3 DEF AnswerOK
  <2>7. KnowledgeOK
    BY <2>1 DEF KnowledgeOK
  <2> QED
    BY <2>4, <2>5, <2>6, <2>7 DEF CheckInv
<1>2. CheckInv /\ TaskInv' /\ [Next]_vars => CheckInv'
  <2> SUFFICES ASSUME CheckInv, TaskInv', [Next]_vars PROVE CheckInv'
    OBVIOUS
  <2>1. CASE Server
    BY <2>1, ServerKeepsCheck DEF Server
  <2> QED
    BY <2>1, AskKeepsCheck, ReceiveKeepsCheck, OthersKeepCheck DEF Next
<1> QED
  BY <1>1, <1>2, Transactions, PTL DEF Spec

\* A check that passes has removed its sample, although each of its writes
\* is answered before it is committed (check_crud, get_db).
THEOREM CleanPass == Spec => []PassedLeavesNothing
<1>1. CheckInv => PassedLeavesNothing
  BY DEF CheckInv, KnowledgeOK, PassedLeavesNothing, Ended
<1> QED
  BY <1>1, Knowledge, PTL

\* The check does not delete a sample that it could see was taken over
\* (check_crud: "Refusing cleanup of a non-owned task").
THEOREM TakenOverKept == Spec => []TakenOverIsKept
<1>1. CheckInv => TakenOverIsKept
  BY DEF CheckInv, KnowledgeOK, TakenOverIsKept
<1> QED
  BY <1>1, Knowledge, PTL


-----------------------------------------------------------------------------
(* Listings.                                                               *)

\* A page of the newest rows is full, or has all of them.
LEMMA PageSize ==
    ASSUME NEW S \in SUBSET Nat, IsFiniteSet(S), NEW P \in Nat
    PROVE  LET page == {i \in S : Cardinality({j \in S : j > i}) < P}
               n == Cardinality(S) IN
             Cardinality(page) = IF n < P THEN n ELSE P
<1> DEFINE Above(i) == {j \in S : j > i}
           n == Cardinality(S)
           rank == [i \in S |-> Cardinality(Above(i))]
           m == IF n < P THEN n ELSE P
           page == {i \in S : Cardinality(Above(i)) < P}
<1>1. n \in Nat
  BY FS_CardinalityType
<1>2. ASSUME NEW i \in S
      PROVE  /\ IsFiniteSet(Above(i)) /\ Cardinality(Above(i)) \in Nat
             /\ Cardinality(Above(i)) < n
  <2>1. Above(i) \in SUBSET (S \ {i})
    OBVIOUS
  <2>2. IsFiniteSet(S \ {i}) /\ Cardinality(S \ {i}) = n - 1
    BY FS_RemoveElement
  <2>3. IsFiniteSet(Above(i)) /\ Cardinality(Above(i)) <= n - 1
    BY <2>1, <2>2, FS_Subset
  <2>4. Cardinality(Above(i)) \in Nat
    BY <2>3, FS_CardinalityType
  <2> HIDE DEF n, Above
  <2> QED
    BY <1>1, <2>3, <2>4
<1>3. ASSUME NEW i \in S, NEW k \in S, i < k
      PROVE  Cardinality(Above(k)) < Cardinality(Above(i))
  <2>1. Above(k) \in SUBSET Above(i) /\ Above(k) # Above(i)
    <3>1. \A j \in S : j > k => j > i
      BY <1>3
    <3>2. k \in Above(i) /\ k \notin Above(k)
      BY <1>3
    <3> QED
      BY <3>1, <3>2
  <2>2. /\ Cardinality(Above(k)) <= Cardinality(Above(i))
        /\ Cardinality(Above(k)) # Cardinality(Above(i))
    BY <1>2, <2>1, FS_Subset
  <2>3. Cardinality(Above(k)) \in Nat /\ Cardinality(Above(i)) \in Nat
    BY <1>2
  <2> HIDE DEF Above
  <2> QED
    BY <2>2, <2>3
<1>4. rank \in Injection(S, 0 .. n - 1)
  <2>1. \A i \in S : rank[i] = Cardinality(Above(i)) /\ rank[i] \in 0 .. n - 1
    <3> HIDE DEF n, Above
    <3> QED
      BY <1>1, <1>2
  <2>2. \A i, k \in S : i # k => rank[i] # rank[k]
    <3> SUFFICES ASSUME NEW i \in S, NEW k \in S, i # k PROVE rank[i] # rank[k]
      OBVIOUS
    <3>1. i < k \/ k < i
      OBVIOUS
    <3>2. Cardinality(Above(i)) \in Nat /\ Cardinality(Above(k)) \in Nat
      BY <1>2
    <3>3. Cardinality(Above(k)) # Cardinality(Above(i))
      <4>1. \/ Cardinality(Above(k)) < Cardinality(Above(i))
            \/ Cardinality(Above(i)) < Cardinality(Above(k))
        BY <1>3, <3>1
      <4> HIDE DEF Above
      <4> QED
        BY <3>2, <4>1
    <3> QED
      BY <2>1, <3>3
  <2> HIDE DEF Above, n
  <2> QED
    BY <2>1, <2>2 DEF Injection, IsInjective
<1>5. rank \in Surjection(S, 0 .. n - 1)
  <2>1. IsFiniteSet(0 .. n - 1) /\ Cardinality(0 .. n - 1) = n
    <3> HIDE DEF n
    <3> QED
      BY <1>1, FS_Interval
  <2> QED
    BY <1>4, <2>1, FS_Injection
<1>6. /\ rank \in [S -> 0 .. n - 1]
      /\ \A i, k \in S : rank[i] = rank[k] => i = k
      /\ \A t \in 0 .. n - 1 : \E i \in S : rank[i] = t
      /\ page = {i \in S : rank[i] < P}
  <2> HIDE DEF n
  <2> QED
    BY <1>4, <1>5 DEF Injection, IsInjective, Surjection
<1> HIDE DEF rank, page, n
<1>7. [i \in page |-> rank[i]] \in Bijection(page, 0 .. m - 1)
  <2>1. [i \in page |-> rank[i]] \in [page -> 0 .. m - 1]
    <3>1. ASSUME NEW i \in page PROVE rank[i] \in 0 .. m - 1
      <4>1. i \in S /\ rank[i] < P
        BY <1>6
      <4>2. rank[i] \in 0 .. n - 1
        BY <1>6, <4>1
      <4> QED
        BY <1>1, <4>1, <4>2
    <3> HIDE DEF m
    <3> QED
      BY <3>1
  <2>2. \A t \in 0 .. m - 1 : \E i \in page : rank[i] = t
    BY <1>1, <1>6
  <2>3. page \subseteq S
    BY <1>6
  <2> QED
    BY <1>6, <2>1, <2>2, <2>3 DEF Bijection, Injection, IsInjective, Surjection
<1>8. IsFiniteSet(page)
  <2>1. page \in SUBSET S
    BY <1>6
  <2> QED
    BY <2>1, FS_Subset
<1>9. Cardinality(0 .. m - 1) = m
  <2>1. m \in Nat
    BY <1>1
  <2> HIDE DEF m
  <2> QED
    BY <2>1, FS_Interval
<1>10. Cardinality(0 .. m - 1) = Cardinality(page)
  BY <1>7, <1>8, FS_Bijection DEF ExistsBijection
<1> QED
  BY <1>9, <1>10 DEF page, n

\* What a listing promises whose two statements no commit separates.
Agrees(body) ==
    body.quiet =>
        LET n == Cardinality(DOMAIN body.items) IN
        n = IF body.total < PerPage THEN body.total ELSE PerPage

\* Until something is committed, the count is that of the page's statement.
QuietOK == \A s \in Session :
    sessions[s].pc = "counted" /\ sessions[s].quiet
    => sessions[s].total = Counted(Ask(s).filter)

\* A listing that has counted stays as it is only while the table does.
LEMMA QuietStays ==
    ASSUME TaskInv, QuietOK, NEW t \in Session, rows' = rows,
           sessions'[t] = sessions[t]
    PROVE  sessions'[t].pc = "counted" /\ sessions'[t].quiet
             => sessions'[t].total = Counted(Ask(t).filter)'
<1> PICK f : f = Ask(t).filter
  OBVIOUS
<1>1. Ask(t)' = Ask(t)
  BY DEF Ask
<1>2. Counted(f)' = Counted(f)
  BY DEF Counted, Matching, Matches
<1>3. Counted(Ask(t).filter)' = Counted(f)
  BY <1>1, <1>2 DEF Counted, Matching, Matches
<1> QED
  BY <1>3 DEF QuietOK

\* Where a step of its own leaves a session.
LEMMA OwnStep ==
    ASSUME TaskInv, NEW s \in Session, Serve(s) \/ Rollback(s)
    PROVE  /\ sessions'[s].pc \in {"free", "counted", "selected", "answered"}
           /\ sessions'[s].pc = "counted" => Count(s)
<1>0. /\ SessionOK(sessions[s]) /\ Whole(sessions[s])
      /\ \A x : Step(s, x) => sessions'[s] = x
  BY DEF TaskInv, TaskOK, SessionOK, Step
<1>a. Whole(sessions[s])
  BY <1>0
<1>b. Idle.pc = "free"
  BY DEF Idle
<1>1. CASE Page(s) \/ Get(s) \/ Rollback(s) \/ Commit(s)
  <2>1. sessions'[s] = Idle
    BY <1>0, <1>1 DEF Page, Get, Rollback, Finish, Commit
  <2> QED
    BY <1>b, <2>1
<1>2. CASE Create(s)
  <2>1. PICK y : y = [sessions[s] EXCEPT !.pc = "answered", !.request.id = created + 1]
    OBVIOUS
  <2>2. WholeRequest(sessions[s].request)
    BY <1>0, <1>2 DEF Create, Doing, SessionOK, RequestOK
  <2>3. y = [pc |-> "answered",
             request |-> [by |-> sessions[s].request.by, op |-> sessions[s].request.op,
                          id |-> created + 1, ask |-> sessions[s].request.ask],
             row |-> sessions[s].row, total |-> sessions[s].total,
             quiet |-> sessions[s].quiet]
    BY <1>a, <2>1, <2>2, Renumbered
  <2>4. y.pc = "answered"
    BY <2>3
  <2>5. sessions'[s] = y
    BY <1>0, <1>2, <2>1 DEF Create
  <2> QED
    BY <2>4, <2>5
<1>3. CASE Count(s)
  <2>1. PICK n : n = Counted(Ask(s).filter)
    OBVIOUS
  <2>2. PICK y : y = [sessions[s] EXCEPT !.pc = "counted", !.total = n]
    OBVIOUS
  <2>3. y = [pc |-> "counted", request |-> sessions[s].request,
             row |-> sessions[s].row, total |-> n, quiet |-> sessions[s].quiet]
    BY <1>a, <2>2, Reshaped
  <2>4. sessions'[s] = Idle \/ sessions'[s] = y
    BY <1>0, <1>3, <2>1, <2>2 DEF Count, Finish
  <2>5. y.pc = "counted"
    BY <2>3
  <2> QED
    BY <1>b, <1>3, <2>4, <2>5
<1>4. CASE Select(s) \/ Flush(s)
  <2>1. PICK y : /\ Step(s, y)
                 /\ \/ y = Idle
                    \/ y = [sessions[s] EXCEPT !.pc = "answered"]
                    \/ y = [sessions[s] EXCEPT !.pc = "selected", !.row = rows[Target(s)]]
    BY <1>4 DEF Select, Flush, Finish, Respond
  <2>2. y.pc \in {"free", "selected", "answered"}
    <3>1. CASE y = [sessions[s] EXCEPT !.pc = "answered"]
      <4>1. y = [pc |-> "answered", request |-> sessions[s].request,
                 row |-> sessions[s].row, total |-> sessions[s].total,
                 quiet |-> sessions[s].quiet]
        BY <1>a, <3>1, Reshaped
      <4> QED
        BY <4>1
    <3>2. CASE y = [sessions[s] EXCEPT !.pc = "selected", !.row = rows[Target(s)]]
      <4>1. y = [pc |-> "selected", request |-> sessions[s].request,
                 row |-> rows[Target(s)], total |-> sessions[s].total,
                 quiet |-> sessions[s].quiet]
        BY <1>a, <3>2, Reshaped
      <4> QED
        BY <4>1
    <3> QED
      BY <1>b, <2>1, <3>1, <3>2
  <2> QED
    BY <1>0, <2>1, <2>2
<1> QED
  BY <1>1, <1>2, <1>3, <1>4 DEF Serve

\* The count, and what a commit does to the listings that have counted.
LEMMA ServerKeepsQuiet ==
    ASSUME TaskInv, QuietOK, NEW s \in Session, Serve(s) \/ Rollback(s)
    PROVE  QuietOK'
<1> DEFINE Quiet(t) == sessions'[t].pc = "counted" /\ sessions'[t].quiet
                         => sessions'[t].total = Counted(Ask(t).filter)'
<1>0. /\ \A t \in Session : SessionOK(sessions[t]) /\ Whole(sessions[t])
      /\ \A x : Step(s, x) => sessions'[s] = x
      /\ \A x : Step(s, x) => \A t \in Session \ {s} : sessions'[t] = sessions[t]
  BY DEF TaskInv, TaskOK, SessionOK, Step
<1>a. Whole(sessions[s])
  BY <1>0
<1>1. Idle.pc = "free"
  BY DEF Idle
<1>2. ASSUME NEW x, Step(s, x), rows' = rows, x.pc # "counted"
      PROVE  \A t \in Session : Quiet(t)
  BY <1>0, <1>2, QuietStays
<1>3. CASE Commit(s)
  <2>1. ASSUME NEW t \in Session PROVE Quiet(t)
    <3>1. CASE t = s
      BY <1>1, <1>3, <3>1 DEF Commit
    <3>2. CASE t # s /\ Doing(t, "list", "counted")
      <4>1. sessions'[t] = [sessions[t] EXCEPT !.quiet = FALSE]
        BY <1>3, <3>2 DEF Commit
      <4>2. [sessions[t] EXCEPT !.quiet = FALSE] =
              [pc |-> sessions[t].pc, request |-> sessions[t].request,
               row |-> sessions[t].row, total |-> sessions[t].total, quiet |-> FALSE]
        BY <1>0, Reshaped
      <4> QED
        BY <4>1, <4>2
    <3>3. CASE t # s /\ ~Doing(t, "list", "counted")
      <4>1. sessions'[t] = sessions[t]
        BY <1>3, <3>3 DEF Commit
      <4>2. sessions[t].pc # "counted"
        BY <1>0, <3>3 DEF SessionOK, Doing
      <4> QED
        BY <4>1, <4>2
    <3> QED
      BY <3>1, <3>2, <3>3
  <2> QED
    BY <2>1 DEF QuietOK
<1>4. CASE Count(s) /\ sessions'[s].pc = "counted"
  <2>1. PICK n : n = Counted(Ask(s).filter)
    OBVIOUS
  <2>2. PICK x : x = [sessions[s] EXCEPT !.pc = "counted", !.total = n]
    OBVIOUS
  <2>3. x = [pc |-> "counted", request |-> sessions[s].request,
             row |-> sessions[s].row, total |-> n, quiet |-> sessions[s].quiet]
    BY <1>a, <2>2, Reshaped
  <2>4. Step(s, x) /\ rows' = rows
    BY <1>0, <1>1, <1>4, <2>1, <2>2 DEF Count, Finish
  <2>5. sessions'[s] = x
    BY <1>0, <2>4
  <2>6. Counted(Ask(s).filter)' = n
    <3> PICK f : f = Ask(s).filter
      OBVIOUS
    <3>1. Ask(s)' = Ask(s)
      BY <2>3, <2>5 DEF Ask
    <3>2. Counted(f)' = Counted(f)
      BY <2>4 DEF Counted, Matching, Matches
    <3> QED
      BY <2>1, <3>1, <3>2 DEF Counted, Matching, Matches
  <2>7. \A t \in Session \ {s} : Quiet(t)
    BY <1>0, <2>4, QuietStays
  <2>8. Quiet(s)
    BY <2>3, <2>5, <2>6
  <2> QED
    BY <2>7, <2>8 DEF QuietOK
<1>5. CASE ~Commit(s) /\ ~(Count(s) /\ sessions'[s].pc = "counted")
  <2>1. PICK x : Step(s, x)
    BY <1>5 DEF Serve, Rollback, Create, Get, Count, Page, Select, Flush, Finish, Respond
  <2>2. rows' = rows
    BY <1>5 DEF Serve, Rollback, Create, Get, Count, Page, Select, Flush, Finish, Respond
  <2>3. x.pc # "counted"
    BY <1>0, <1>5, <2>1, OwnStep
  <2> QED
    BY <1>2, <2>1, <2>2, <2>3 DEF QuietOK
<1> QED
  BY <1>3, <1>4, <1>5

\* A quiet page has as many rows as its count allows.
LEMMA PageAgrees ==
    ASSUME TaskInv, QuietOK, NEW s \in Session, Page(s)
    PROVE  \E body : Answer(s, 200, body) /\ Agrees(body)
<1>1. PICK match : match = Matching(Ask(s).filter)
  OBVIOUS
<1>2. PICK items : items = {i \in match : Cardinality({j \in match : j > i}) < PerPage}
  OBVIOUS
<1>3. PICK body : body = [total |-> sessions[s].total, quiet |-> sessions[s].quiet,
                          items |-> [i \in items |-> rows[i]]]
  OBVIOUS
<1>4. Answer(s, 200, body)
  BY <1>1, <1>2, <1>3 DEF Page, Finish
<1>5. match \in SUBSET Nat /\ IsFiniteSet(match)
  <2>1. match \subseteq 1 .. created /\ created \in Nat
    BY <1>1 DEF Matching, TaskInv, TaskOK, RowsOK
  <2>2. IsFiniteSet(1 .. created)
    BY <2>1, FS_Interval
  <2>3. match \in SUBSET (1 .. created) /\ match \in SUBSET Nat
    BY <2>1
  <2> QED
    BY <2>2, <2>3, FS_Subset
<1>6. PerPage \in Nat
  BY TaskAssumption
<1>7. Cardinality(items) = IF Cardinality(match) < PerPage THEN Cardinality(match)
                                                           ELSE PerPage
  BY <1>2, <1>5, <1>6, PageSize
<1>8. body.quiet => body.total = Cardinality(match)
  BY <1>1, <1>3 DEF Page, Doing, QuietOK, Counted
<1>9. DOMAIN body.items = items
  BY <1>3
<1>10. Agrees(body)
  BY <1>7, <1>8, <1>9 DEF Agrees
<1> QED
  BY <1>4, <1>10

\* The answer of a listing is a page, or not a 200.
LEMMA ListAnswers ==
    ASSUME TaskInv, QuietOK, NEW s \in Session, Serve(s) \/ Rollback(s)
    PROVE  \/ inbox' = inbox
           \/ /\ sessions[s].pc \in Working
              /\ \E code, body :
                   /\ Answer(s, code, body)
                   /\ sessions[s].request.op = "list" /\ code = 200 => Agrees(body)
<1>1. CASE Page(s)
  <2>1. PICK body : Answer(s, 200, body) /\ Agrees(body)
    BY <1>1, PageAgrees
  <2>2. sessions[s].pc \in Working
    BY <1>1 DEF Page, Doing, Working
  <2> QED
    BY <2>1, <2>2
<1>2. CASE Count(s)
  <2>1. \/ inbox' = inbox
        \/ \E code \in {403, 500} : Answer(s, code, None)
    BY <1>2 DEF Count, Finish
  <2> QED
    BY <1>2, <2>1 DEF Count, Doing, Working
<1>3. CASE Create(s)
  BY <1>3 DEF Create, Doing, Working
<1>4. CASE Get(s)
  <2>1. \E code, body : Answer(s, code, body)
    BY <1>4 DEF Get, Finish
  <2> QED
    BY <1>4, <2>1 DEF Get, Doing, Working
<1>5. CASE Select(s)
  <2>1. inbox' = inbox \/ \E code, body : Answer(s, code, body)
    BY <1>5 DEF Select, Finish, Respond
  <2> QED
    BY <1>5, <2>1 DEF Select, Working
<1>6. CASE Flush(s)
  <2>1. \E code, body : Answer(s, code, body)
    BY <1>6 DEF Flush, Finish, Respond
  <2> QED
    BY <1>6, <2>1 DEF Flush, Doing, Working
<1>7. CASE Commit(s)
  BY <1>7 DEF Commit
<1>8. CASE Rollback(s)
  <2>1. SessionOK(sessions[s])
    BY DEF TaskInv, TaskOK
  <2> QED
    BY <1>8, <2>1 DEF Rollback, SessionOK
<1> QED
  BY <1>1, <1>2, <1>3, <1>4, <1>5, <1>6, <1>7, <1>8 DEF Serve

\* The count and the page of a listing between which nothing was committed
\* agree, for every table, filter and page size, whatever other sessions have
\* under way (list_tasks; the contract of check_endpoint).
THEOREM QuietListings == Spec => []QuietListingAgrees
<1> DEFINE PageInv == QuietOK /\ QuietListingAgrees
<1>1. Init => PageInv
  <2> SUFFICES ASSUME Init PROVE PageInv
    OBVIOUS
  <2>1. \A s \in Session : sessions[s].pc = "free"
    BY DEF Init, TaskInit, Idle
  <2> QED
    BY <2>1 DEF Init, QuietOK, QuietListingAgrees
<1>2. CheckInv /\ PageInv /\ [Next]_vars => PageInv'
  <2> SUFFICES ASSUME CheckInv, PageInv, [Next]_vars PROVE PageInv'
    OBVIOUS
  <2>0. TaskInv /\ InboxOK /\ WaitOK
    BY DEF CheckInv
  <2>1. QuietListingAgrees <=> (pc = "list" /\ inbox[Smoke].code = 200
                                  => Agrees(inbox[Smoke].body))
    BY DEF QuietListingAgrees, Agrees, Got, Body
  <2>2. QuietListingAgrees' <=> (pc' = "list" /\ inbox'[Smoke].code = 200
                                   => Agrees(inbox[Smoke].body)')
    BY DEF QuietListingAgrees, Agrees, Got, Body
  <2>3. ASSUME inbox'[Smoke].code # 200 PROVE QuietListingAgrees'
    BY <2>2, <2>3
  <2>4. ASSUME inbox'[Smoke] = inbox[Smoke], pc' = pc PROVE QuietListingAgrees'
    BY <2>1, <2>2, <2>4 DEF Agrees
  <2>5. CASE Server
    <3>1. PICK s \in Session : Serve(s) \/ Rollback(s)
      BY <2>5 DEF Server
    <3>2. pc' = pc
      BY <2>5 DEF Server, check
    <3>3. QuietOK'
      BY <2>0, <3>1, ServerKeepsQuiet
    <3>4. CASE inbox'[Smoke] = inbox[Smoke]
      BY <2>4, <3>2, <3>3, <3>4
    <3>5. CASE inbox'[Smoke] # inbox[Smoke]
      <4>1. PICK code, body :
              /\ Answer(s, code, body) /\ sessions[s].pc \in Working
              /\ sessions[s].request.op = "list" /\ code = 200 => Agrees(body)
        BY <2>0, <3>1, <3>5, ListAnswers
      <4>2. /\ sessions[s].request.by = Smoke /\ inbox[Smoke].from = s
            /\ inbox'[Smoke] = [from |-> inbox[Smoke].from, code |-> code, body |-> body]
        BY <2>0, <3>5, <4>1, Answered
      <4>3. sessions[s].request = Sent
        BY <2>0, <4>1, <4>2 DEF WaitOK
      <4>4. pc = "list" => sessions[s].request.op = "list"
        BY <4>3 DEF Sent, Request
      <4>5. inbox'[Smoke].code = code /\ inbox'[Smoke].body = body
        BY <4>2
      <4>6. pc' = "list" /\ inbox'[Smoke].code = 200 => Agrees(inbox[Smoke].body)'
        BY <3>2, <4>1, <4>4, <4>5 DEF Agrees
      <4> QED
        BY <2>2, <3>3, <4>6
    <3> QED
      BY <3>4, <3>5
  <2>6. ASSUME rows' = rows,
               \A t \in Session :
                 sessions'[t] = sessions[t] \/ sessions'[t].pc = "open"
        PROVE  QuietOK'
    <3>1. ASSUME NEW t \in Session
          PROVE  sessions'[t].pc = "counted" /\ sessions'[t].quiet
                   => sessions'[t].total = Counted(Ask(t).filter)'
      BY <2>0, <2>6, QuietStays
    <3> QED
      BY <3>1 DEF QuietOK
  <2>7. CASE Ask1 \/ UserSends
    <3>1. PICK s \in Session :
            \E r : Send(s, r) /\ (r.by # Smoke => pc' = pc)
      BY <2>7 DEF Ask1, UserSends, check
    <3>6. PICK r : Send(s, r) /\ (r.by # Smoke => pc' = pc)
      BY <3>1
    <3>2. /\ rows' = rows /\ sessions'[s].pc = "open"
          /\ \A t \in Session : t # s => sessions'[t] = sessions[t]
          /\ inbox'[Smoke] = IF r.by = Smoke THEN [from |-> s, code |-> 0, body |-> None]
                                            ELSE inbox[Smoke]
      BY <2>0, <3>6, Sending
    <3>3. QuietOK'
      BY <2>6, <3>2
    <3>4. CASE r.by = Smoke
      BY <2>3, <3>2, <3>3, <3>4
    <3>5. CASE r.by # Smoke
      BY <2>4, <3>2, <3>3, <3>5, <3>6
    <3> QED
      BY <3>4, <3>5
  <2>8. CASE Receive
    <3>1. rows' = rows /\ sessions' = sessions /\ inbox' = [inbox EXCEPT ![Smoke] = Nothing]
      BY <2>8 DEF Receive, service
    <3>2. inbox'[Smoke] = Nothing
      BY <2>0, <3>1, SmokeAssumption DEF InboxOK
    <3>3. inbox'[Smoke].code # 200
      BY <3>2 DEF Nothing
    <3> QED
      BY <2>3, <2>6, <3>1, <3>3
  <2>9. CASE ClientGivesUp
    <3>1. PICK m : m = [Nothing EXCEPT !.code = Lost]
      OBVIOUS
    <3>2. m.code = Lost
      BY <3>1 DEF Nothing
    <3>3. inbox' = [inbox EXCEPT ![Smoke] = m] /\ UNCHANGED service
      BY <2>9, <3>1 DEF ClientGivesUp, GiveUp
    <3>4. inbox'[Smoke].code # 200
      BY <2>0, <3>2, <3>3, SmokeAssumption DEF InboxOK, Lost
    <3>5. rows' = rows /\ sessions' = sessions
      BY <3>3 DEF service
    <3> QED
      BY <2>3, <2>6, <3>4, <3>5
  <2>10. CASE UNCHANGED vars
    BY <2>4, <2>6, <2>10 DEF vars, taskVars, service, check
  <2> QED
    BY <2>5, <2>7, <2>8, <2>9, <2>10 DEF Next
<1> QED
  BY <1>1, <1>2, Knowledge, PTL DEF Spec

-----------------------------------------------------------------------------
(* Bounds.                                                                 *)

\* The sessions about to insert a row.
Opening == {s \in Session : Doing(s, "create", "open")}

\* The check's create, while it has not been sent.
Unasked == pc = "create" /\ inbox[Smoke] = Nothing
Due == IF Unasked THEN 1 ELSE 0

\* Every row there is, every row under way and the row the check still has
\* to ask for stem from one request each.
BoundsOK ==
    /\ requests \in 0 .. MaxRequests /\ faults \in 0 .. MaxFaults
    /\ IsFiniteSet(Opening)
    /\ created + Cardinality(Opening) + Due <= requests + 1
    /\ task_id \in Id \cup {None} /\ failure \in Failures \cup {None}
    /\ foreign \in BOOLEAN

\* The table has no more rows than the requests can insert.
LEMMA Rooms ==
    ASSUME TaskInv, BoundsOK
    PROVE  created \in 0 .. MaxId
<1>1. created \in Nat /\ Cardinality(Opening) \in Nat /\ Due \in {0, 1}
  BY FS_CardinalityType DEF TaskInv, TaskOK, RowsOK, BoundsOK, Due
<1> QED
  BY <1>1, BoundAssumption DEF BoundsOK

\* Fewer sessions about to insert.
LEMMA FewerOpening ==
    ASSUME BoundsOK, Opening' \in SUBSET Opening
    PROVE  /\ IsFiniteSet(Opening') /\ Cardinality(Opening') \in Nat
           /\ Cardinality(Opening) \in Nat
           /\ Cardinality(Opening') <= Cardinality(Opening)
<1>1. IsFiniteSet(Opening)
  BY DEF BoundsOK
<1> HIDE DEF Opening
<1>2. IsFiniteSet(Opening') /\ Cardinality(Opening') <= Cardinality(Opening)
  BY <1>1, FS_Subset
<1> QED
  BY <1>1, <1>2, FS_CardinalityType

LEMMA ServerKeepsBounds ==
    ASSUME CheckInv, BoundsOK, NEW s \in Session, Serve(s) \/ Rollback(s),
           UNCHANGED <<check, requests>>
    PROVE  BoundsOK'
<1>0. /\ TaskInv /\ InboxOK /\ created \in Nat
      /\ pc' = pc /\ task_id' = task_id /\ failure' = failure /\ foreign' = foreign
      /\ requests' = requests
  BY DEF check, CheckInv, TaskInv, TaskOK, RowsOK
<1>1. Opening' \in SUBSET (Opening \ {s})
  <2>1. \A t \in Session : t # s => (Doing(t, "create", "open")' => Doing(t, "create", "open"))
    BY <1>0, SessionsChange DEF Doing
  <2>2. ~Doing(s, "create", "open")'
    BY <1>0, OwnStep DEF Doing
  <2> QED
    BY <2>1, <2>2 DEF Opening
<1>2. IsFiniteSet(Opening) /\ Cardinality(Opening) \in Nat
  BY FS_CardinalityType DEF BoundsOK
<1>3. /\ IsFiniteSet(Opening \ {s})
      /\ Cardinality(Opening \ {s}) = IF s \in Opening THEN Cardinality(Opening) - 1
                                                       ELSE Cardinality(Opening)
  <2> HIDE DEF Opening
  <2> QED
    BY <1>2, FS_RemoveElement
<1>4. /\ IsFiniteSet(Opening') /\ Cardinality(Opening') \in Nat
      /\ Cardinality(Opening') <= Cardinality(Opening \ {s})
  <2> HIDE DEF Opening
  <2> QED
    BY <1>1, <1>3, FS_Subset, FS_CardinalityType
<1>5. created' + Cardinality(Opening') <= created + Cardinality(Opening)
  <2>1. CASE Create(s)
    <3>1. s \in Opening /\ created' = created + 1
      BY <2>1 DEF Create, Opening
    <3> HIDE DEF Opening
    <3> QED
      BY <1>0, <1>2, <1>3, <1>4, <3>1
  <2>2. CASE ~Create(s)
    <3>1. created' = created
      BY <2>2 DEF Serve, Rollback, Get, Count, Page, Select, Flush, Commit, Finish, Respond
    <3> HIDE DEF Opening
    <3> QED
      BY <1>0, <1>2, <1>3, <1>4, <3>1
  <2> QED
    BY <2>1, <2>2
<1>6. Unasked' => Unasked
  <2> SUFFICES ASSUME Unasked', inbox'[Smoke] # inbox[Smoke] PROVE FALSE
    BY <1>0 DEF Unasked
  <2>1. PICK code, body : Answer(s, code, body)
    BY <1>0, Outcomes
  <2>2. /\ inbox[Smoke].from = s
        /\ inbox'[Smoke] = [from |-> inbox[Smoke].from, code |-> code, body |-> body]
    BY <1>0, <2>1, Answered
  <2>3. inbox'[Smoke].from = s
    BY <2>2
  <2> QED
    BY <2>3, SmokeAssumption DEF Unasked, Nothing
<1>7. faults' \in 0 .. MaxFaults
  BY BoundAssumption DEF BoundsOK, Serve, Rollback, Create, Get, Count, Page, Select, Flush,
                         Commit, Finish, Respond
<1>8. Due \in {0, 1} /\ Due' \in {0, 1} /\ Due' <= Due
  BY <1>6 DEF Due
<1>9. requests \in Nat /\ created' \in Nat
  BY <1>0, SessionsChange, BoundAssumption DEF BoundsOK
<1>10. created' + Cardinality(Opening') + Due' <= requests' + 1
  <2>1. created + Cardinality(Opening) + Due <= requests + 1
    BY DEF BoundsOK
  <2> HIDE DEF Opening, Due
  <2> QED
    BY <1>0, <1>2, <1>4, <1>5, <1>8, <1>9, <2>1
<1> QED
  BY <1>0, <1>4, <1>7, <1>10 DEF BoundsOK

LEMMA SendKeepsBounds ==
    ASSUME CheckInv, BoundsOK, Ask1 \/ UserSends
    PROVE  BoundsOK'
<1>0. /\ TaskInv /\ InboxOK /\ created \in Nat /\ requests \in 0 .. MaxRequests
      /\ Due \in {0, 1} /\ Due' \in {0, 1}
  BY DEF CheckInv, TaskInv, TaskOK, RowsOK, BoundsOK, Due
<1>1. /\ pc' = pc /\ task_id' = task_id /\ failure' = failure
      /\ requests' \in 0 .. MaxRequests
      /\ requests' = IF UserSends THEN requests + 1 ELSE requests
  <2>1. CASE UserSends
    BY <1>0, <2>1, BoundAssumption DEF UserSends, check
  <2>2. CASE Ask1 /\ ~UserSends
    BY <1>0, <2>2 DEF Ask1
  <2> QED
    BY <2>1, <2>2
<1>2. foreign' \in BOOLEAN
  <2>1. CASE Ask1
    BY <2>1, Zenon DEF Ask1
  <2>2. CASE UserSends
    BY <2>2 DEF UserSends, check, BoundsOK
  <2> QED
    BY <2>1, <2>2
\* Who sends, and what it adds.
<1>3. PICK s \in Session :
        \E r : /\ Send(s, r)
               /\ UserSends => r.by # Smoke
               /\ ~UserSends => (Unasked /\ r.by = Smoke) \/ r.op # "create"
  <2>1. CASE UserSends
    <3>1. PICK s \in Session, r \in UserRequest : Send(s, r)
      BY <2>1 DEF UserSends
    <3>2. r.by # Smoke
      BY <3>1, SmokeAssumption DEF UserRequest, Request
    <3> QED
      BY <2>1, <3>1, <3>2
  <2>2. CASE Ask1 /\ ~UserSends
    <3>1. PICK s \in Session : Send(s, Sent) /\ pc # "ended" /\ inbox[Smoke] = Nothing
      BY <2>2 DEF Ask1
    <3>2. Sent.by = Smoke /\ (pc = "create" \/ Sent.op # "create")
      BY <1>0, <3>1 DEF TaskInv, Steps, Sent, Request
    <3> QED
      BY <2>2, <3>1, <3>2 DEF Unasked
  <2> QED
    BY <2>1, <2>2
<1>4. PICK r : /\ Send(s, r)
               /\ UserSends => r.by # Smoke
               /\ ~UserSends => (Unasked /\ r.by = Smoke) \/ r.op # "create"
  BY <1>3
<1>5. /\ created' = created
      /\ sessions'[s].pc = "open" /\ sessions'[s].request = r
      /\ \A t \in Session : t # s => sessions'[t] = sessions[t]
      /\ inbox'[Smoke] = IF r.by = Smoke THEN [from |-> s, code |-> 0, body |-> None]
                                         ELSE inbox[Smoke]
  BY <1>0, <1>4, Sending
<1>6. Unasked' => Unasked /\ r.by # Smoke
  BY <1>1, <1>5, SmokeAssumption DEF Unasked, Nothing
<1>7. /\ IsFiniteSet(Opening) /\ Cardinality(Opening) \in Nat
      /\ IsFiniteSet(Opening \cup {s})
      /\ Cardinality(Opening \cup {s}) <= Cardinality(Opening) + 1
      /\ Cardinality(Opening \cup {s}) \in Nat
  <2>1. IsFiniteSet(Opening)
    BY DEF BoundsOK
  <2> HIDE DEF Opening
  <2>2. Cardinality(Opening) \in Nat
    BY <2>1, FS_CardinalityType
  <2>3. /\ IsFiniteSet(Opening \cup {s})
        /\ Cardinality(Opening \cup {s}) = IF s \in Opening THEN Cardinality(Opening)
                                                             ELSE Cardinality(Opening) + 1
    BY <2>1, FS_AddElement
  <2> QED
    BY <2>1, <2>2, <2>3
<1>8. /\ Opening' \in SUBSET (Opening \cup {s})
      /\ r.op # "create" => Opening' \in SUBSET Opening
  BY <1>5 DEF Opening, Doing
<1>9. /\ IsFiniteSet(Opening') /\ Cardinality(Opening') \in Nat
      /\ Cardinality(Opening') <= Cardinality(Opening) + 1
      /\ r.op # "create" => Cardinality(Opening') <= Cardinality(Opening)
  <2>1. IsFiniteSet(Opening') /\ Cardinality(Opening') <= Cardinality(Opening \cup {s})
    <3> HIDE DEF Opening
    <3> QED
      BY <1>7, <1>8, FS_Subset
  <2>2. r.op # "create" => Cardinality(Opening') <= Cardinality(Opening)
    BY <1>8, FewerOpening
  <2>3. Cardinality(Opening') \in Nat
    <3> HIDE DEF Opening
    <3> QED
      BY <2>1, FS_CardinalityType
  <2> HIDE DEF Opening
  <2> QED
    BY <1>7, <2>1, <2>2, <2>3
<1>10. created' + Cardinality(Opening') + Due' <= requests' + 1
  <2>1. created + Cardinality(Opening) + Due <= requests + 1
    BY DEF BoundsOK
  <2>2. /\ Due' <= Due
        /\ ~UserSends /\ r.op = "create" => Due = 1 /\ Due' = 0
    BY <1>4, <1>6 DEF Due
  <2> HIDE DEF Opening, Due
  <2> QED
    BY <1>0, <1>1, <1>5, <1>7, <1>9, <2>1, <2>2
<1>11. faults' = faults
  BY <1>4 DEF Send
<1> QED
  BY <1>1, <1>2, <1>9, <1>10, <1>11 DEF BoundsOK

LEMMA RestKeepsBounds ==
    ASSUME CheckInv, BoundsOK, Receive \/ ClientGivesUp \/ UNCHANGED vars
    PROVE  BoundsOK'
<1>0. /\ TaskInv /\ InboxOK /\ AnswerOK(inbox[Smoke]) /\ created \in 0 .. MaxId
      /\ Due \in {0, 1} /\ Due' \in {0, 1}
  BY Rooms DEF CheckInv, Due
<1>1. /\ created' = created /\ sessions' = sessions /\ requests' = requests
      /\ foreign' = foreign
  BY DEF Receive, ClientGivesUp, GiveUp, vars, taskVars, service, check
<1>2. Opening' = Opening
  BY <1>1 DEF Opening, Doing
<1>3. faults' \in 0 .. MaxFaults
  <2>1. faults' = faults \/ (faults < MaxFaults /\ faults' = faults + 1)
    BY DEF Receive, ClientGivesUp, GiveUp, vars, taskVars
  <2> QED
    BY <2>1, BoundAssumption DEF BoundsOK
<1>4. Unasked' => Unasked
  <2>1. CASE Receive
    <3>1. \/ OnCreate \/ OnRead \/ OnUpdate \/ OnReread
          \/ OnCleanup \/ OnDelete \/ OnConfirm \/ OnList
      BY <1>0, <2>1 DEF Receive, TaskInv, Steps
    <3>2. Cleaned \/ CleanupFailed => pc' # "create"
      BY DEF Cleaned, CleanupFailed, Raise, Goto
    <3>3. OnCreate \/ OnRead \/ OnUpdate \/ OnReread \/ OnList => pc' # "create"
      BY DEF OnCreate, OnRead, OnUpdate, OnReread, OnList, Raise, Goto
    <3>4. OnCleanup \/ OnDelete \/ OnConfirm => pc' # "create"
      BY <3>2 DEF OnCleanup, OnDelete, OnConfirm, Raise, Goto
    <3> QED
      BY <3>1, <3>3, <3>4 DEF Unasked
  <2>2. CASE ClientGivesUp
    <3>1. PICK m : m = [Nothing EXCEPT !.code = Lost]
      OBVIOUS
    <3>2. m.code = Lost
      BY <3>1 DEF Nothing
    <3>3. inbox'[Smoke] = m
      BY <1>0, <2>2, <3>1, SmokeAssumption DEF ClientGivesUp, GiveUp, InboxOK
    <3> QED
      BY <3>2, <3>3 DEF Unasked, Nothing, Lost
  <2>3. CASE UNCHANGED vars
    BY <2>3 DEF vars, taskVars, check, Unasked
  <2> QED
    BY <2>1, <2>2, <2>3
<1>5. task_id' \in Id \cup {None} /\ failure' \in Failures \cup {None}
  <2>0. task_id \in Id \cup {None} /\ failure \in Failures \cup {None}
    BY DEF BoundsOK
  <2>1. CASE Receive
    <3>1. inbox[Smoke].code = 201 => inbox[Smoke].body.id \in Id
      BY <1>0, BoundAssumption DEF AnswerOK, Id
    <3>2. /\ OnCreate => task_id' \in Id \cup {None} /\ failure' \in Failures \cup {None}
          /\ OnRead \/ OnUpdate \/ OnReread \/ OnList
               => task_id' = task_id /\ failure' \in Failures \cup {None}
          /\ Cleaned \/ CleanupFailed
               => task_id' = task_id /\ failure' \in Failures \cup {None}
      BY <2>0, <3>1 DEF OnCreate, OnRead, OnUpdate, OnReread, OnList, Cleaned,
                        CleanupFailed, Raise, Goto, Got, Body, Failures
    <3>3. OnCleanup \/ OnDelete \/ OnConfirm
            => task_id' = task_id /\ failure' \in Failures \cup {None}
      BY <2>0, <3>2 DEF OnCleanup, OnDelete, OnConfirm, Raise, Goto, Failures
    <3>4. \/ OnCreate \/ OnRead \/ OnUpdate \/ OnReread
          \/ OnCleanup \/ OnDelete \/ OnConfirm \/ OnList
      BY <1>0, <2>1 DEF Receive, TaskInv, Steps
    <3> QED
      BY <2>0, <3>2, <3>3, <3>4
  <2>2. CASE ClientGivesUp \/ UNCHANGED vars
    BY <2>0, <2>2 DEF ClientGivesUp, vars, check
  <2> QED
    BY <2>1, <2>2
<1>6. created' + Cardinality(Opening') + Due' <= requests' + 1
  <2>1. created + Cardinality(Opening) + Due <= requests + 1 /\ Due' <= Due
    BY <1>4 DEF BoundsOK, Due
  <2>2. Cardinality(Opening) \in Nat /\ requests \in Nat /\ created \in Nat
    BY <1>0, FS_CardinalityType, BoundAssumption DEF BoundsOK
  <2> HIDE DEF Opening, Due
  <2> QED
    BY <1>0, <1>1, <1>2, <2>1, <2>2
<1> QED
  BY <1>1, <1>2, <1>3, <1>5, <1>6 DEF BoundsOK

\* The types of the service and of the check, and the bounds of the model:
\* no run ever needs an identifier beyond MaxId, since each row has a request
\* of its own behind it (create_task, check_crud).
THEOREM TypeCorrectness == Spec => []TypeOK
<1>1. Init => BoundsOK
  <2> SUFFICES ASSUME Init PROVE BoundsOK
    OBVIOUS
  <2>1. Opening = {}
    BY DEF Init, TaskInit, Opening, Doing, Idle
  <2>2. IsFiniteSet(Opening) /\ Cardinality(Opening) = 0
    <3> HIDE DEF Opening
    <3> QED
      BY <2>1, FS_EmptySet
  <2>3. created = 0 /\ requests = 0 /\ faults = 0 /\ Due \in {0, 1}
    BY DEF Init, TaskInit, Due
  <2>4. created + Cardinality(Opening) + Due <= requests + 1
    <3> HIDE DEF Opening, Due
    <3> QED
      BY <2>2, <2>3
  <2> QED
    <3>1. requests \in 0 .. MaxRequests /\ faults \in 0 .. MaxFaults
      BY <2>3, BoundAssumption
    <3>2. task_id = None /\ failure = None /\ foreign = FALSE
      BY DEF Init
    <3> QED
      BY <2>2, <2>4, <3>1, <3>2 DEF BoundsOK
<1>2. CheckInv /\ BoundsOK /\ [Next]_vars => BoundsOK'
  BY ServerKeepsBounds, SendKeepsBounds, RestKeepsBounds DEF Next, Server
<1>3. CheckInv /\ BoundsOK => TypeOK
  <2> SUFFICES ASSUME CheckInv, BoundsOK PROVE TypeOK
    OBVIOUS
  <2>1. TaskInv /\ created \in 0 .. MaxId
    BY Rooms DEF CheckInv
  <2>2. \A s \in Session : sessions[s].pc \in
          {"free", "open", "counted", "selected", "answered"}
    BY <2>1 DEF TaskInv, TaskOK, SessionOK, Working
  <2> QED
    BY <2>1, <2>2 DEF TypeOK, BoundsOK, TaskInv, TaskOK, RowsOK
<1> QED
  BY <1>1, <1>2, <1>3, Knowledge, PTL DEF Spec
=============================================================================
