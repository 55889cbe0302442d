--------------------------- MODULE LaunchLedger ---------------------------
(***************************************************************************)
(* What the Copilot handoff promises, whatever its requests meet: "at most *)
(* one automatic Copilot assignment per incident" (scripts/sre_handoff.py, *)
(* module docstring and reserve_launch).  A fingerprint is reserved by one *)
(* issue, that issue is claimed for one fingerprint, and only a pair whose *)
(* two reservations name each other is ever launched, once.                *)
(***************************************************************************)
EXTENDS Naturals

CONSTANTS
    Fingerprint,    \* incident fingerprints
    Issue,          \* issue numbers of the repository
    None            \* "no reservation"

VARIABLES
    owner,          \* owner[f]: the issue that reserved fingerprint f
    claimed,        \* claimed[n]: the fingerprint issue n is claimed for
    launches        \* launches[f][n]: assignment requests sent for f from n

ledger == <<owner, claimed, launches>>

Init ==
    /\ owner = [f \in Fingerprint |-> None]
    /\ claimed = [n \in Issue |-> None]
    /\ launches = [f \in Fingerprint |-> [n \in Issue |-> 0]]

\* refs/tags/sre-handoff/<fingerprint> comes into existence.
Reserve(f, n) ==
    /\ owner[f] = None
    /\ owner' = [owner EXCEPT ![f] = n]
    /\ UNCHANGED <<claimed, launches>>

\* refs/tags/sre-handoff-issues/<issue> comes into existence, after the
\* fingerprint's own reservation.
Claim(f, n) ==
    /\ owner[f] = n
    /\ claimed[n] = None
    /\ claimed' = [claimed EXCEPT ![n] = f]
    /\ UNCHANGED <<owner, launches>>

\* The one assignment request of a completed pair of reservations.
Launch(f, n) ==
    /\ owner[f] = n
    /\ claimed[n] = f
    /\ launches[f][n] = 0
    /\ launches' = [launches EXCEPT ![f][n] = 1]
    /\ UNCHANGED <<owner, claimed>>

Next ==
    \E f \in Fingerprint, n \in Issue :
        Reserve(f, n) \/ Claim(f, n) \/ Launch(f, n)

Spec == Init /\ [][Next]_ledger
=============================================================================
