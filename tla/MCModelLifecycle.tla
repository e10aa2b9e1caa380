---------------------------- MODULE MCModelLifecycle ----------------------------
(* Instances of ModelLifecycle for TLC. *)
EXTENDS ModelLifecycle, TLC

CONSTANTS n1, n2, l1, l2, o1, o2, o3, o4, o5, o6, a1, a2, a3, p1

Symmetry == Permutations(Admins) \cup Permutations(Names) \cup Permutations(Lengths)

\* No fairness condition and no liveness property of ModelLifecycle tells names apart,
\* and a step of an administrator's request is never a mere permutation of names.
NameSymmetry == Permutations(Names)
===============================================================================
