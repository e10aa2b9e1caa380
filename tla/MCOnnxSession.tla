----------------------------- MODULE MCOnnxSession -----------------------------
(* Instances of OnnxSession for TLC. *)
EXTENDS OnnxSession

CONSTANTS t1, t2, t3
===============================================================================
