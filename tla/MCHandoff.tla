----------------------------- MODULE MCHandoff -----------------------------
(* Instances of Handoff for TLC. *)
EXTENDS Handoff, TLC

CONSTANTS r1, r2, r3, i1, i2, f1, f2, d1, d2, e1

\* d1 and d2 are two observations of one incident, e1 another incident.
MCFingerprintOf == [d \in Document |-> IF d \in {d1, d2} THEN f1 ELSE f2]

RunSymmetry == Permutations(Run)
=============================================================================
