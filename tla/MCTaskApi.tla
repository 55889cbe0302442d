---------------------------- MODULE MCTaskApi ------------------------------
(* Instances of SmokeCrud for TLC. *)
EXTENDS SmokeCrud

CONSTANTS s1, s2, s3

MCObserved == {Smoke}
MCClient == {Smoke, User}
=============================================================================
