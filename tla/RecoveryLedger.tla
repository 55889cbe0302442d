-------------------------- MODULE RecoveryLedger --------------------------
(***************************************************************************)
(* What the issue of a demo incident may claim of the attempts to deploy   *)
(* to the demo slot: an attempt that belongs to the issue is announced     *)
(* there before it writes anything to Azure; a deployment is claimed only  *)
(* after the attempt's own build has answered every check, and a recovery  *)
(* only after its healthy build has answered the original endpoint         *)
(* (.github/workflows/demo.yml, "before any Azure writes", "without        *)
(* claiming recovery").  A recovery may be claimed without its deployment: *)
(* the two records are separate requests, and each may be lost.            *)
(***************************************************************************)
CONSTANT Attempt

VARIABLES issued, announced, touched, verified, healed, deployed, recovered

vars == <<issued, announced, touched, verified, healed, deployed, recovered>>

Init == /\ issued = {} /\ announced = {} /\ touched = {}
        /\ verified = {} /\ healed = {}
        /\ deployed = {} /\ recovered = {}

\* Whether an attempt belongs to the issue is known before its first write.
Attach(a) ==
    /\ a \notin touched
    /\ issued' = issued \cup {a}
    /\ UNCHANGED <<announced, touched, verified, healed, deployed, recovered>>

Announce(a) ==
    /\ announced' = announced \cup {a}
    /\ UNCHANGED <<issued, touched, verified, healed, deployed, recovered>>

\* The first write of the attempt to the database or the slot.
Touch(a) ==
    /\ a \in issued => a \in announced
    /\ touched' = touched \cup {a}
    /\ UNCHANGED <<issued, announced, verified, healed, deployed, recovered>>

\* All checks of the attempt were answered as expected by its own build; the
\* original endpoint is one of them if the attempt is to recover it.
Verify(a) ==
    /\ a \in touched
    /\ verified' = verified \cup {a}
    /\ healed' \in {healed, healed \cup {a}}
    /\ UNCHANGED <<issued, announced, touched, deployed, recovered>>

ClaimDeployment(a) ==
    /\ a \in verified
    /\ deployed' = deployed \cup {a}
    /\ UNCHANGED <<issued, announced, touched, verified, healed, recovered>>

ClaimRecovery(a) ==
    /\ a \in healed
    /\ recovered' = recovered \cup {a}
    /\ UNCHANGED <<issued, announced, touched, verified, healed, deployed>>

Next == \E a \in Attempt : \/ Attach(a) \/ Announce(a) \/ Touch(a) \/ Verify(a)
                           \/ ClaimDeployment(a) \/ ClaimRecovery(a)

Spec == Init /\ [][Next]_vars
=============================================================================
