------------------------------ MODULE MCDemo ------------------------------
(* Instances of DemoRelease for TLC. *)
EXTENDS DemoRelease

\* A regression is deployed before there is an incident, or again.
MCInputs == [state : State, issue : {TRUE}]
              \cup {[state |-> "regression", issue |-> FALSE]}
MCWriter == {"job", "operator"}
MCTrusted == [w \in MCWriter |-> IF w = "job" THEN {"job"} ELSE MCWriter]
=============================================================================
