---------------------------- MODULE MCRerankPipeline ----------------------------
(* Instances of RerankPipeline for TLC. *)
EXTENDS RerankPipeline, TLC

CONSTANTS r1, r2, d1, d2, n1, n2, l1, l2

\* No fairness condition and no liveness property of RerankPipeline tells documents,
\* names or lengths apart, and a fair step of a request is never a mere permutation of
\* them.
DataSymmetry == Permutations(Docs) \cup Permutations(Names) \cup Permutations(Lengths)
Symmetry == Permutations(Requests) \cup DataSymmetry

\* The settings and the active model agree whenever the service is ready: changes meet
\* requests, but no model has a name or a length that the settings do not.
SpecAgreeing == Init /\ [][Next /\ (Ready' => Apart' = {})]_vars

\* No model and no length changes while a request is in progress, unless it dies with
\* the process; and what is installed has the name and the length in force, unless a
\* rollback restores it.
Calm == Quiet \/ Quiet' \/ UNCHANGED <<config, model>>
Current == \/ model' \in {model, NoModel, config'}
           \/ \E i \in DOMAIN previous : model' = previous[i].model
SpecCalm == Init /\ [][Next /\ Calm /\ Current]_vars
===============================================================================
