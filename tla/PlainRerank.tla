------------------------------ MODULE PlainRerank ------------------------------
(***************************************************************************)
(* What rerank promises its callers, as if there were no score cache and   *)
(* no batches (src/reranker_service/service.py): a request is answered in  *)
(* one step, with the scores and under the name of the model in force, or  *)
(* it fails.  Redis is not seen.  RerankPipeline implements this module.   *)
(*                                                                         *)
(* The promise is about the name of the model and about its length, each   *)
(* until `disturbed`: until the settings and the active model differ in it *)
(* while a request waits, or it is changed while one does.  Then old       *)
(* scores may be in the cache, and each score is only that of some model.  *)
(***************************************************************************)
EXTENDS ServedModel

CONSTANTS Requests, Docs

VARIABLES disturbed,  \* the parts of the configuration no longer promised
          status,     \* of each request
          asked,      \* its documents
          reply,      \* their scores, known by the configuration of their model
          named       \* names of models in its response

requests == <<status, asked, reply, named>>
vars == <<served, disturbed, requests>>

Init == /\ ServedInit
        /\ disturbed = {}
        /\ status = [r \in Requests |-> "idle"]
        /\ asked = [r \in Requests |-> {}]
        /\ reply = [r \in Requests |-> <<>>]
        /\ named = [r \in Requests |-> {}]

Accept(r) == /\ Ready /\ status[r] # "waiting"
             /\ status' = [status EXCEPT ![r] = "waiting"]
             /\ \E ds \in (SUBSET Docs) \ {{}} : asked' = [asked EXCEPT ![r] = ds]
             /\ reply' = [reply EXCEPT ![r] = <<>>]
             /\ named' = [named EXCEPT ![r] = {}]
             /\ disturbed' = disturbed \cup Apart
             /\ UNCHANGED served

Answer(r) ==
    /\ status[r] = "waiting"
    /\ status' = [status EXCEPT ![r] = "answered"]
    /\ \E scores \in [asked[r] -> Configs] :
          /\ \A d \in asked[r], p \in Parts \ disturbed : scores[d][p] = config[p]
          /\ reply' = [reply EXCEPT ![r] = scores]
    /\ \E ns \in SUBSET Names :
          /\ "name" \notin disturbed => ns = {config.name}
          /\ named' = [named EXCEPT ![r] = ns \cup {config.name}]
    /\ UNCHANGED <<served, disturbed, asked>>

Fail(r) == /\ status[r] = "waiting"
           /\ status' = [status EXCEPT ![r] = "failed"]
           /\ UNCHANGED <<served, disturbed, asked, reply, named>>

Waited == \E r \in Requests : status[r] = "waiting"

\* The model or the settings change.
Administer == /\ Change
              /\ disturbed' = IF Waited
                              THEN disturbed \cup Apart' \cup {p \in Parts : config'[p] # config[p]}
                              ELSE disturbed
              /\ UNCHANGED requests

\* The process ends; whoever waited is disconnected.
Crash == /\ Stop
         /\ status' = [r \in Requests |-> IF status[r] = "waiting" THEN "failed"
                                          ELSE status[r]]
         /\ UNCHANGED <<disturbed, asked, reply, named>>

Restart == Launch /\ UNCHANGED <<disturbed, requests>>

Next == \/ \E r \in Requests : Accept(r) \/ Answer(r) \/ Fail(r)
        \/ Administer \/ Crash \/ Restart

\* Every request is decided.
Fairness == \A r \in Requests : WF_vars(Answer(r) \/ Fail(r))

Safety == Init /\ [][Next]_vars
Spec == Safety /\ Fairness
===============================================================================
