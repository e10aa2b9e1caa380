---------------------------- MODULE MCInferenceGate ----------------------------
(* Instances of InferenceGate for TLC. *)
EXTENDS InferenceGate, TLC

CONSTANTS c1, c2, c3, g1, g2, g3, g4

MCProvider == [d \in {"cuda", "cpu"} |-> IF d = "cuda" THEN 1 ELSE 2]
===============================================================================
