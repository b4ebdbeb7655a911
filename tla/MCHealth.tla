------------------------------ MODULE MCHealth ------------------------------
(* Two failures remove an endpoint, three successes readmit it, and the     *)
(* cooldown outlasts several probes.                                        *)
EXTENDS Health

MCSteps == {-2, 2}
=============================================================================
