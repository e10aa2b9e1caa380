----------------------------- MODULE PairScoring -----------------------------
(***************************************************************************)
(* What PairPredictor.predict (batching.py:12-13) promises to its callers: *)
(* every request is decided once, and it is either answered with the       *)
(* scores of exactly its own pairs in its own order, or refused as a       *)
(* whole.  Nothing is said of queues, windows, calls or workers: those are *)
(* DynamicBatcher, which implements this specification.                    *)
(***************************************************************************)
EXTENDS Sequences

CONSTANTS Requests,  \* calls of predict
          OwnScores  \* OwnScores[r]: the scores of r's pairs, in order

VARIABLES status, reply

vars == <<status, reply>>

Init == /\ status = [r \in Requests |-> "new"]
        /\ reply = [r \in Requests |-> <<>>]

Accept(r) == /\ status[r] = "new"
             /\ status' = [status EXCEPT ![r] = "waiting"]
             /\ UNCHANGED reply

Answer(r) == /\ status[r] = "waiting"
             /\ status' = [status EXCEPT ![r] = "answered"]
             /\ reply' = [reply EXCEPT ![r] = OwnScores[r]]

Refuse(r) == /\ status[r] \in {"new", "waiting"}
             /\ status' = [status EXCEPT ![r] = "refused"]
             /\ UNCHANGED reply

Next == \E r \in Requests : Accept(r) \/ Answer(r) \/ Refuse(r)

\* An accepted request is eventually decided.
Fairness == \A r \in Requests :
                WF_vars(status[r] = "waiting" /\ (Answer(r) \/ Refuse(r)))

Safety == Init /\ [][Next]_vars
Spec == Safety /\ Fairness
==============================================================================
