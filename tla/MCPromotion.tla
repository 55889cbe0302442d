---------------------------- MODULE MCPromotion ----------------------------
(* Instances of Promotion for TLC. *)
EXTENDS Promotion

\* The second release changes nothing in the schema, the first one may.
SameRevision == [c \in Commit |-> 1]
NewRevision == [c \in Commit |-> IF c = 0 THEN 1 ELSE 2]
=============================================================================
