----------------------------- MODULE Migration -----------------------------
(***************************************************************************)
(* scripts/migrate.py and alembic/env.py against one database: the upgrade *)
(* is one transaction under an advisory lock, and the grants to the        *)
(* runtime role follow it in another.  A client that is stopped after its  *)
(* time limit leaves its transaction to the server, which ends it later    *)
(* one way or the other.  There is one revision to upgrade to.             *)
(***************************************************************************)
EXTENDS Naturals

VARIABLE db     \* the schema's revision, the grants, the running upgrades

Attempts == {u.by : u \in db.upgrades}

DbInit == db = [schema |-> 0, granted |-> FALSE, upgrades |-> {}]

\* The runtime role can use the table and read the revision.
Usable == db.schema = 1 /\ db.granted

\* Mutant of LockFree: no lock is taken.
LockFreeAnyway == TRUE

\* SELECT pg_advisory_xact_lock: at most one upgrade is past this point.
LockFree == db.upgrades = {}

\* do_run_migrations: the lock, then the current revision.
BeginUpgrade(a) ==
    /\ LockFree
    /\ db' = [db EXCEPT !.upgrades = @ \cup {[by |-> a, seen |-> db.schema]}]

\* The transaction of attempt a commits, or the server rolls it back.
CommitUpgrade(a) ==
    /\ a \in Attempts
    /\ db' = [db EXCEPT !.schema = 1,
                        !.upgrades = {u \in @ : u.by # a}]
AbortUpgrade(a) ==
    /\ a \in Attempts
    /\ db' = [db EXCEPT !.upgrades = {u \in @ : u.by # a}]

\* grant_runtime, which needs the tables.
GrantRuntime ==
    /\ db.schema = 1
    /\ db' = [db EXCEPT !.granted = TRUE]
=============================================================================
