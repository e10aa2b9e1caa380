---------------------------- MODULE MCArtifactExport ----------------------------
(* Instances of ArtifactExport for TLC. *)
EXTENDS ArtifactExport, TLC

CONSTANTS x1, x2, x3, l1, l2

Symmetry == Permutations(Exporters)
===============================================================================
