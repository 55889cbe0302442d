---------------------------- MODULE DemoBranch ----------------------------
(***************************************************************************)
(* The branch demo/<run-id> of one demo run: scripts/demo_branch.py in an  *)
(* operator's clone, the pushes of that operator, and pull requests merged *)
(* into the branch on GitHub.                                              *)
(*                                                                         *)
(* A commit is what its src/demo_scenario.py holds, its parent, and        *)
(* whether it differs from the default branch in a path that validate_diff *)
(* protects.  A command of the script is several Git processes and may be  *)
(* interrupted between any two of them.                                    *)
(***************************************************************************)
EXTENDS Naturals, Sequences

CONSTANTS
    None,           \* no commit: the branch does not exist
    MaxCommits      \* bound: commits ever made

Helper == {"healthy", "regression", "other"}
Commit == 1 .. MaxCommits

VARIABLES
    commits,    \* commits[c]: helper, parent and touches_protected of c
    head,       \* the branch on GitHub
    clone       \* the operator's clone, and the command running in it

branchVars == <<commits, head, clone>>

\* The approved base is healthy; the clone is on the default branch.
BranchInit ==
    /\ commits = <<[helper |-> "healthy", parent |-> None, protected |-> FALSE]>>
    /\ head = None
    /\ clone = [pc |-> "idle", goal |-> "none", result |-> "none",
                branch |-> None, tracking |-> FALSE, tree |-> "healthy"]

HelperOf(c) == IF c = None THEN "healthy" ELSE commits[c].helper

\* A commit and its ancestors.
Chain(c) ==
    LET ch[d \in DOMAIN commits] ==
          {d} \cup (IF commits[d].parent = None THEN {}
                                                ELSE ch[commits[d].parent])
    IN ch[c]
Extends(c, d) == d = None \/ (c # None /\ d \in Chain(c))

Committed(helper, parent, protected) ==
    commits' = Append(commits, [helper |-> helper, parent |-> parent,
                                protected |-> protected])

\* Mutant of CleanRepository: the worktree is not looked at.
CleanRepositoryAnyway == clone.pc = "idle"

\* clean_repository: nothing uncommitted, no operation in progress.
CleanRepository == clone.pc = "idle" /\ clone.tree = HelperOf(clone.branch)

\* introduce, up to the new branch: it exists neither locally nor as a
\* remote-tracking branch, and the base has exactly the healthy helper.
Introduce ==
    /\ CleanRepository
    /\ clone.branch = None /\ ~clone.tracking
    /\ \E base \in {c \in DOMAIN commits : commits[c].helper = "healthy"} :
         clone' = [clone EXCEPT !.pc = "write", !.goal = "regression",
                                !.result = "none", !.branch = base,
                                !.tree = "healthy"]
    /\ UNCHANGED <<commits, head>>

\* reset, on the branch: a healthy helper is left alone, a regressed one is
\* restored, anything else is refused.
Reset ==
    /\ CleanRepository
    /\ clone.branch # None
    /\ clone' = CASE HelperOf(clone.branch) = "healthy" ->
                       [clone EXCEPT !.result = "healthy"]
                  [] HelperOf(clone.branch) = "regression" ->
                       [clone EXCEPT !.pc = "write", !.goal = "healthy",
                                     !.result = "none"]
                  [] OTHER -> [clone EXCEPT !.result = "refused"]
    /\ UNCHANGED <<commits, head>>

\* commit_change: the helper is written, then committed on its own.
WriteHelper ==
    /\ clone.pc = "write"
    /\ clone' = [clone EXCEPT !.pc = "commit", !.tree = clone.goal]
    /\ UNCHANGED <<commits, head>>

CommitChange ==
    /\ clone.pc = "commit" /\ Len(commits) < MaxCommits
    /\ Committed(clone.tree, clone.branch, FALSE)
    /\ clone' = [clone EXCEPT !.pc = "idle", !.branch = Len(commits) + 1,
                              !.goal = "none", !.result = clone.goal]
    /\ UNCHANGED head

\* The command is killed, or one of its Git processes fails: nothing is
\* taken back.
Interrupt ==
    /\ clone.pc # "idle"
    /\ clone' = [clone EXCEPT !.pc = "idle", !.goal = "none", !.result = "none"]
    /\ UNCHANGED <<commits, head>>

\* The operator drops uncommitted changes.
Discard ==
    /\ clone.pc = "idle" /\ ~CleanRepository
    /\ clone' = [clone EXCEPT !.tree = HelperOf(clone.branch), !.result = "none"]
    /\ UNCHANGED <<commits, head>>

\* A push without force; a pull that can be fast-forwarded.
Push ==
    /\ clone.pc = "idle" /\ clone.branch # None /\ clone.branch # head
    /\ Extends(clone.branch, head)
    /\ head' = clone.branch
    /\ clone' = [clone EXCEPT !.tracking = TRUE]
    /\ UNCHANGED commits

Pull ==
    /\ CleanRepository
    /\ head # None /\ clone.branch # head /\ Extends(head, clone.branch)
    /\ clone' = [clone EXCEPT !.branch = head, !.tracking = TRUE,
                              !.tree = HelperOf(head), !.result = "none"]
    /\ UNCHANGED <<commits, head>>

\* A pull request is merged: a fix, a wrong fix, or more than the helper.
MergePullRequest ==
    /\ head # None /\ Len(commits) < MaxCommits
    /\ \E helper \in {"healthy", "other"}, protected \in BOOLEAN :
         /\ protected => helper = "healthy"
         /\ Committed(helper, head, protected)
    /\ head' = Len(commits) + 1
    /\ UNCHANGED clone

Command == Introduce \/ Reset \/ WriteHelper \/ CommitChange
=============================================================================
