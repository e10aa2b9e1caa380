-------------------------- MODULE MCRequestAdmission --------------------------
(* Instances of RequestAdmission for TLC. *)
EXTENDS RequestAdmission

CONSTANTS r1, r2, r3, c1, c2
===============================================================================
