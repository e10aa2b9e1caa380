------------------------ MODULE DynamicBatcherProofs ------------------------
(***************************************************************************)
(* For any requests, weights, limits, handlers and workers: the type       *)
(* invariant of DynamicBatcher, and that it never mixes the results of the *)
(* requests it packs together.                                             *)
(***************************************************************************)
EXTENDS DynamicBatcher, SequenceTheorems, TLAPS

(* The inductive invariant.                                                *)

\* A job's scores are the first cursor[r] of its own; a result is complete; an
\* answer is the request's own.
JobInv ==
    \A r \in Requests :
        /\ cursor[r] \in 0..Size(r)
        /\ scores[r] = [i \in 1..cursor[r] |-> <<r, i>>]
        /\ future[r] = "result" => cursor[r] = Size(r)
        /\ request[r] = "answered" => reply[r] = Own(r)

\* No job is in two places, and a request not yet made is in none.
QueueCustody ==
    /\ \A i \in 1..Len(queue) : request[queue[i]] # "new"
    /\ \A i, j \in 1..Len(queue) : queue[i] = queue[j] => i = j
HeldCustody(w) ==
    /\ \A i \in 1..Len(active[w]) : request[active[w][i]] # "new"
    /\ \A i, j \in 1..Len(active[w]) : active[w][i] = active[w][j] => i = j
    /\ \A i \in 1..Len(queue), j \in 1..Len(active[w]) : queue[i] # active[w][j]
Apart(v, w) ==
    \A i \in 1..Len(active[v]), j \in 1..Len(active[w]) : active[v][i] # active[w][j]
Custody ==
    /\ QueueCustody
    /\ \A w \in Workers : HeldCustody(w)
    /\ \A v, w \in Workers : v # w => Apart(v, w)

\* The pairs of call c after position first are the n of job r after its pair done.
NextPairs(c, first, n, r, done) ==
    /\ first + n <= Len(c.pairs)
    /\ done + n <= Size(r)
    /\ \A i \in 1..n : c.pairs[first + i] = <<r, done + i>>

\* Every slice of a call being packed or in flight is the next pairs of one job,
\* which the worker holds at an earlier position and which has no other slice; so
\* are the pairs counted for the current job.
SliceInv(w) ==
    \A k \in 1..Len(call[w].slices) :
        LET s == call[w].slices[k] IN
        /\ NextPairs(call[w], s.first, s.count, s.job, cursor[s.job])
        /\ \E p \in 1..Len(active[w]) : p < call[w].at /\ active[w][p] = s.job
        /\ \A l \in 1..Len(call[w].slices) : call[w].slices[l].job = s.job => k = l
CountInv(w) ==
    /\ call[w].count <= Len(call[w].pairs)
    /\ call[w].at <= Len(active[w]) =>
          NextPairs(call[w], Len(call[w].pairs) - call[w].count, call[w].count,
                    active[w][call[w].at], cursor[active[w][call[w].at]])
CallInv(w) == task[w] \in {"packing", "inferring"} => SliceInv(w) /\ CountInv(w)

Inv == TypeOK /\ JobInv /\ Custody /\ \A w \in Workers : CallInv(w)
-----------------------------------------------------------------------------
(* Types.                                                                  *)

LEMMA SizeType == \A r \in Requests : Size(r) \in Nat \ {0}
  BY WeightsAssumption, EmptySeq DEF Size

\* Own(r) is a sequence of pairs.
LEMMA OwnType == \A r \in Requests : Own(r) \in Seq(Pairs)
  <1> SUFFICES ASSUME NEW r \in Requests PROVE Own(r) \in Seq(Pairs)
    OBVIOUS
  <1>1. Size(r) \in Nat
    BY SizeType
  <1>2. \A i \in 1..Size(r) : <<r, i>> \in Pairs
    BY <1>1 DEF Pairs
  <1> QED BY <1>1, <1>2 DEF Own

LEMMA NoCallType == NoCall \in CallStates
  BY EmptySeq DEF NoCall, CallStates

LEMMA TypeInit == Init => TypeOK
  <1> SUFFICES ASSUME Init PROVE TypeOK
    OBVIOUS
  <1>1. worker \in Workers \cup {NoWorker}
    BY DEF Init
  <1>2. call \in [Workers -> CallStates]
    BY NoCallType DEF Init
  <1> QED BY <1>1, <1>2, EmptySeq DEF Init, TypeOK

LEMMA TypeRequestStep ==
  ASSUME TypeOK, NEW r \in Requests, RequestStep(r)
  PROVE  TypeOK'
  <1> USE DEF TypeOK, settingVars, workVars, jobVars
  <1>1. CASE PredictDirectly(r)
    BY <1>1 DEF PredictDirectly
  <1>2. CASE Reject(r)
    BY <1>2 DEF Reject
  <1>3. CASE Enqueue(r)
    BY <1>3, AppendProperties DEF Enqueue
  <1>4. CASE DirectReturns(r)
    BY <1>4, OwnType DEF DirectReturns
  <1>5. CASE Resume(r)
    BY <1>5 DEF Resume
  <1>6. CASE Timeout(r)
    BY <1>6 DEF Timeout, CancelFuture
  <1> QED BY <1>1, <1>2, <1>3, <1>4, <1>5, <1>6 DEF RequestStep

\* One round of _process leaves the worker's variables well typed.
LEMMA TypeNextRound ==
  ASSUME TypeOK, NEW w \in Workers, NEW f, NextRound(w, f)
  PROVE  /\ task' \in [Workers -> {"unused", "idle", "collecting", "packing", "inferring",
                                   "cancelling", "stopped"}]
         /\ active' \in [Workers -> Seq(Requests)]
         /\ call' \in [Workers -> CallStates]
  BY NoCallType, EmptySeq DEF TypeOK, NextRound

LEMMA TypeCollect ==
  ASSUME TypeOK, NEW w \in Workers, Collect(w)
  PROVE  TypeOK'
  <1>1. Head(queue) \in Requests /\ Tail(queue) \in Seq(Requests)
    BY HeadTailProperties DEF TypeOK, Collect
  <1>2. active' \in [Workers -> Seq(Requests)]
    BY <1>1, AppendProperties DEF TypeOK, Collect
  <1> QED BY <1>1, <1>2 DEF TypeOK, Collect, settingVars, jobVars

\* The pair that CanTake admits exists.
LEMMA TakenPair ==
  ASSUME TypeOK, NEW w \in Workers, CanTake(w)
  PROVE  LET r == active[w][call[w].at] IN
         /\ r \in Requests
         /\ Taken(w) + 1 \in 1..Size(r)
         /\ Weights[r][Taken(w) + 1] \in Nat \ {0}
         /\ <<r, Taken(w) + 1>> \in Pairs
  <1> DEFINE r == active[w][call[w].at]
  <1>1. call[w].at \in Nat \ {0} /\ call[w].count \in Nat
    BY DEF TypeOK, CallStates
  <1>2. r \in Requests
    BY <1>1, ElementOfSeq DEF TypeOK, CanTake
  <1>3. Taken(w) + 1 \in 1..Size(r)
    <2>1. cursor[r] \in Nat /\ Size(r) \in Nat
      BY <1>2, SizeType DEF TypeOK
    <2>2. Taken(w) = cursor[r] + call[w].count
      BY DEF Taken
    <2>3. Taken(w) < Size(r)
      BY DEF CanTake
    <2> QED BY <1>1, <2>1, <2>2, <2>3
  <1>4. Weights[r][Taken(w) + 1] \in Nat \ {0}
    BY <1>2, <1>3, ElementOfSeq, WeightsAssumption DEF Size
  <1> QED BY <1>2, <1>3, <1>4, SizeType DEF Pairs

LEMMA TypePackPair ==
  ASSUME TypeOK, NEW w \in Workers, PackPair(w)
  PROVE  TypeOK'
  <1> DEFINE r == active[w][call[w].at]
             n == Taken(w) + 1
  <1>1. r \in Requests /\ n \in Nat /\ <<r, n>> \in Pairs /\ Weights[r][n] \in Nat
    BY TakenPair, SizeType DEF PackPair
  <1>2. call[w] \in CallStates
    BY DEF TypeOK
  <1> HIDE DEF r, n
  <1>3. Append(call[w].pairs, <<r, n>>) \in Seq(Pairs)
    BY <1>1, <1>2, AppendProperties DEF CallStates
  <1>4. WithPair(call[w], r, n) \in CallStates
    <2> DEFINE c == call[w]
    <2>1. c.at \in Nat \ {0} /\ c.count \in Nat /\ c.tokens \in Nat
      BY <1>2 DEF CallStates
    <2>2. c.slices \in Seq([job : Requests, first : Nat, count : Nat \ {0}])
      BY <1>2 DEF CallStates
    <2>3. c.count + 1 \in Nat /\ c.tokens + Weights[r][n] \in Nat
      BY <1>1, <2>1
    <2> QED BY <1>3, <2>1, <2>2, <2>3 DEF CallStates, WithPair
  <1>5. call' \in [Workers -> CallStates]
    BY <1>4 DEF TypeOK, PackPair, r, n
  <1> QED BY <1>5 DEF TypeOK, PackPair, settingVars, jobVars

LEMMA TypeCloseSlice ==
  ASSUME TypeOK, NEW w \in Workers, CloseSlice(w), CountInv(w)
  PROVE  TypeOK'
  <1> DEFINE c == call[w]
             r == active[w][c.at]
             s == [job |-> r, first |-> Len(c.pairs) - c.count, count |-> c.count]
  <1>1. c \in CallStates
    BY DEF TypeOK
  <1>2. c.at \in Nat \ {0} /\ c.count \in Nat /\ Len(c.pairs) \in Nat
    BY <1>1, LenProperties DEF CallStates
  <1>3. r \in Requests
    BY <1>2, ElementOfSeq DEF TypeOK, CloseSlice
  <1>4. Len(c.pairs) - c.count \in Nat
    BY <1>2 DEF CountInv
  <1>5. WithSlice(c, r) \in CallStates
    <2>1. CASE c.count = 0
      BY <1>1, <2>1 DEF WithSlice, CallStates
    <2>2. CASE c.count # 0
      <3>1. s \in [job : Requests, first : Nat, count : Nat \ {0}]
        BY <1>2, <1>3, <1>4, <2>2
      <3>2. Append(c.slices, s) \in Seq([job : Requests, first : Nat, count : Nat \ {0}])
        BY <1>1, <3>1, AppendProperties DEF CallStates
      <3> HIDE DEF c, r
      <3> QED BY <1>1, <2>2, <3>2 DEF WithSlice, CallStates
    <2> QED BY <2>1, <2>2
  <1> HIDE DEF r, s
  <1>6. call' \in [Workers -> CallStates]
    BY <1>5 DEF TypeOK, CloseSlice, r
  <1> QED BY <1>6 DEF TypeOK, CloseSlice, settingVars, jobVars

\* What PredictReturns credits to a job: nothing, or the next of its own pairs.
LEMMA CreditIsOwn ==
  ASSUME TypeOK, JobInv, NEW w \in Workers, SliceInv(w), NEW r \in Requests
  PROVE  /\ Credit(w, r) \in Seq(Pairs)
         /\ cursor[r] + Len(Credit(w, r)) \in 0..Size(r)
         /\ \A i \in 1..Len(Credit(w, r)) : Credit(w, r)[i] = <<r, cursor[r] + i>>
  <1>0. cursor[r] \in Nat /\ Size(r) \in Nat /\ cursor[r] <= Size(r)
    BY SizeType DEF TypeOK, JobInv
  <1>1. CASE SlicesOf(w, r) = {}
    BY <1>0, <1>1, EmptySeq DEF Credit
  <1>2. CASE SlicesOf(w, r) # {}
    <2> DEFINE k == CHOOSE i \in SlicesOf(w, r) : TRUE
               s == call[w].slices[k]
    <2>1. k \in 1..Len(call[w].slices) /\ s.job = r
      BY <1>2 DEF SlicesOf
    <2>2. call[w].slices \in Seq([job : Requests, first : Nat, count : Nat \ {0}])
      BY DEF TypeOK, CallStates
    <2>3. s.count \in Nat
      <3>1. s \in [job : Requests, first : Nat, count : Nat \ {0}]
        BY <2>1, <2>2, ElementOfSeq
      <3> HIDE DEF s
      <3> QED BY <3>1
    <2>4. Credit(w, r) = [i \in 1..s.count |-> call[w].pairs[s.first + i]]
      BY <1>2 DEF Credit, SliceScores
    <2>5. cursor[r] + s.count <= Size(r)
          /\ \A i \in 1..s.count : call[w].pairs[s.first + i] = <<r, cursor[r] + i>>
      BY <2>1 DEF SliceInv, NextPairs
    <2> HIDE DEF k, s
    <2>6. ASSUME NEW i \in 1..s.count PROVE call[w].pairs[s.first + i] \in Pairs
      <3>1. cursor[r] + i \in Nat \ {0}
        BY <1>0, <2>3
      <3>2. <<r, cursor[r] + i>> \in Pairs
        BY <3>1 DEF Pairs
      <3> QED BY <2>5, <3>2
    <2>7. Credit(w, r) \in Seq(Pairs) /\ Len(Credit(w, r)) = s.count
      BY <2>3, <2>4, <2>6
    <2> QED BY <1>0, <2>3, <2>4, <2>5, <2>7
  <1> QED BY <1>1, <1>2

LEMMA TypePredictReturns ==
  ASSUME TypeOK, JobInv, NEW w \in Workers, SliceInv(w), PredictReturns(w)
  PROVE  TypeOK'
  <1>1. \A r \in Requests : scores[r] \o Credit(w, r) \in Seq(Pairs)
    BY CreditIsOwn, ConcatProperties DEF TypeOK
  <1>2. \A r \in Requests : cursor[r] + Len(Credit(w, r)) \in Nat
    BY CreditIsOwn, SizeType
  <1>3. future' \in [Requests -> {"none", "pending", "result", "exception", "cancelled"}]
    BY DEF TypeOK, PredictReturns
  <1> QED BY <1>1, <1>2, <1>3, TypeNextRound DEF TypeOK, PredictReturns, settingVars

LEMMA TypeWorkerStep ==
  ASSUME TypeOK, JobInv, NEW w \in Workers, CallInv(w), WorkerStep(w)
  PROVE  TypeOK'
  <1> USE DEF TypeOK, settingVars, jobVars
  <1>1. CASE CloseWindow(w)
    BY <1>1, TypeNextRound DEF CloseWindow
  <1>2. CASE IssueCall(w)
    BY <1>2, EmptySeq DEF IssueCall
  <1>3. CASE PredictReturns(w)
    BY <1>3, TypePredictReturns DEF PredictReturns, CallInv
  <1>4. CASE PredictFails(w)
    BY <1>4, TypeNextRound DEF PredictFails
  <1>5. CASE WorkerStops(w)
    BY <1>5, NoCallType, EmptySeq DEF WorkerStops
  <1>6. CASE CloseSlice(w)
    BY <1>6, TypeCloseSlice DEF CallInv, CloseSlice
  <1> QED BY <1>1, <1>2, <1>3, <1>4, <1>5, <1>6, TypeCollect, TypePackPair
          DEF WorkerStep, Packing, Predictor

LEMMA TypeAdminStep ==
  ASSUME TypeOK, NEW a \in Admins, Patch(a) \/ CloseReturns(a)
  PROVE  TypeOK'
  <1>1. ASSUME FinishClose PROVE /\ worker' \in Workers \cup {NoWorker}
                                 /\ queue' \in Seq(Requests)
                                 /\ future' \in [Requests -> {"none", "pending", "result",
                                                              "exception", "cancelled"}]
    BY <1>1, EmptySeq DEF FinishClose, TypeOK
  <1>2. CASE CloseReturns(a)
    BY <1>1, <1>2 DEF CloseReturns, TypeOK, settingVars, workVars, jobVars
  <1>3. CASE Patch(a)
    <2>1. /\ batching' \in BOOLEAN /\ maxPairs' \in PairLimits
          /\ UNCHANGED <<active, call, cursor, scores, request, reply>>
      BY <1>3 DEF Patch, jobVars
    <2>2. CASE Start
      BY <2>1, <2>2 DEF Start, TypeOK
    <2>3. CASE BeginClose(a)
      <3>1. CASE UNCHANGED <<worker, queue, future>>
        BY <2>1, <2>3, <3>1 DEF BeginClose, TypeOK
      <3>2. CASE FinishClose /\ UNCHANGED <<task, closing>>
        BY <1>1, <2>1, <3>2 DEF TypeOK
      <3> QED BY <2>3, <3>1, <3>2 DEF BeginClose
    <2>4. CASE UNCHANGED <<worker, task, closing, queue, future>>
      BY <2>1, <2>4 DEF TypeOK
    <2> QED BY <1>3, <2>2, <2>3, <2>4 DEF Patch
  <1> QED BY <1>2, <1>3
-----------------------------------------------------------------------------
(* Jobs.                                                                   *)

\* Steps that credit nothing and settle no result.
LEMMA JobStable ==
  ASSUME JobInv, UNCHANGED jobVars,
         \A r \in Requests : future'[r] = "result" => future[r] = "result",
         \A r \in Requests : request'[r] = "answered" =>
             (request[r] = "answered" /\ reply'[r] = reply[r]) \/ reply'[r] = Own(r)
  PROVE  JobInv'
  BY DEF JobInv, jobVars, Own, Size

LEMMA JobRequestStep ==
  ASSUME TypeOK, JobInv, NEW r \in Requests, RequestStep(r)
  PROVE  JobInv'
  <1>1. CASE Resume(r)
    <2>1. future[r] = "result" => scores[r] = Own(r)
      BY DEF JobInv, Own
    <2> QED BY <1>1, <2>1, JobStable DEF Resume, TypeOK
  <1>2. CASE DirectReturns(r)
    BY <1>2, JobStable DEF DirectReturns, TypeOK
  <1>3. CASE PredictDirectly(r) \/ Reject(r)
    BY <1>3, JobStable DEF PredictDirectly, Reject, TypeOK
  <1>4. CASE Enqueue(r)
    BY <1>4, JobStable DEF Enqueue, TypeOK
  <1>5. CASE Timeout(r)
    BY <1>5, JobStable DEF Timeout, CancelFuture, TypeOK
  <1> QED BY <1>1, <1>2, <1>3, <1>4, <1>5 DEF RequestStep

LEMMA JobPredictReturns ==
  ASSUME TypeOK, JobInv, NEW w \in Workers, SliceInv(w), PredictReturns(w)
  PROVE  JobInv'
  <1> SUFFICES ASSUME NEW r \in Requests
               PROVE  /\ cursor'[r] \in 0..Size(r)
                      /\ scores'[r] = [i \in 1..cursor'[r] |-> <<r, i>>]
                      /\ future'[r] = "result" => cursor'[r] = Size(r)
                      /\ request'[r] = "answered" => reply'[r] = Own(r)
    BY DEF JobInv, Own, Size
  <1> DEFINE c == Credit(w, r)
             own == [i \in 1..cursor'[r] |-> <<r, i>>]
  <1>1. /\ c \in Seq(Pairs) /\ Len(c) \in Nat
        /\ cursor[r] + Len(c) \in 0..Size(r)
        /\ \A i \in 1..Len(c) : c[i] = <<r, cursor[r] + i>>
    BY CreditIsOwn, LenProperties
  <1>2. /\ cursor'[r] = cursor[r] + Len(c)
        /\ scores'[r] = scores[r] \o c
        /\ future'[r] = "result" => cursor'[r] = Size(r) \/ future[r] = "result"
        /\ UNCHANGED <<request, reply>>
    BY DEF PredictReturns
  <1>3. /\ cursor[r] \in Nat /\ cursor[r] <= Size(r) /\ Size(r) \in Nat
        /\ scores[r] = [i \in 1..cursor[r] |-> <<r, i>>]
        /\ scores[r] \in Seq(Pairs)
        /\ future[r] = "result" => cursor[r] = Size(r)
        /\ request[r] = "answered" => reply[r] = Own(r)
    BY SizeType DEF TypeOK, JobInv
  <1> HIDE DEF c
  <1>4. Len(scores[r]) = cursor[r]
    BY <1>3
  <1>5. scores[r] \o c \in Seq(Pairs) /\ Len(scores[r] \o c) = cursor'[r]
    BY <1>1, <1>2, <1>3, <1>4, ConcatProperties
  <1>6. \A i \in 1..cursor'[r] : (scores[r] \o c)[i] = <<r, i>>
    <2> TAKE i \in 1..cursor'[r]
    <2>1. (scores[r] \o c)[i] = IF i <= Len(scores[r]) THEN scores[r][i]
                                ELSE c[i - Len(scores[r])]
      BY <1>1, <1>2, <1>3, <1>4, ConcatProperties
    <2>2. CASE i <= cursor[r]
      BY <1>1, <1>2, <1>3, <1>4, <2>1, <2>2
    <2>3. CASE i > cursor[r]
      <3>1. i - cursor[r] \in 1..Len(c) /\ cursor[r] + (i - cursor[r]) = i
        BY <1>1, <1>2, <1>3, <2>3
      <3>2. c[i - cursor[r]] = <<r, i>>
        <4>1. c[i - cursor[r]] = <<r, cursor[r] + (i - cursor[r])>>
          BY <1>1, <3>1
        <4> QED BY <3>1, <4>1
      <3>3. ~(i <= Len(scores[r]))
        BY <1>3, <1>4, <2>3
      <3> QED BY <1>4, <2>1, <3>2, <3>3
    <2>4. i <= cursor[r] \/ i > cursor[r]
      BY <1>3
    <2> QED BY <2>2, <2>3, <2>4, Zenon
  <1>7. scores'[r] = own
    <2>1. own \in Seq(Pairs) /\ Len(own) = cursor'[r]
      <3>1. \A i \in 1..cursor'[r] : <<r, i>> \in Pairs
        BY <1>1, <1>2, <1>3 DEF Pairs
      <3>2. cursor'[r] \in Nat
        BY <1>1, <1>2, <1>3
      <3> QED BY <3>1, <3>2
    <2>2. \A i \in 1..cursor'[r] : own[i] = (scores[r] \o c)[i]
      BY <1>6
    <2> QED BY <1>2, <1>5, <2>1, <2>2, SeqEqual
  <1>8. cursor'[r] \in 0..Size(r)
    BY <1>1, <1>2
  <1>9. future[r] = "result" => cursor'[r] = Size(r)
    BY <1>1, <1>2, <1>3
  <1> QED BY <1>2, <1>3, <1>7, <1>8, <1>9

LEMMA JobWorkerStep ==
  ASSUME TypeOK, JobInv, NEW w \in Workers, CallInv(w), WorkerStep(w)
  PROVE  JobInv'
  <1>1. CASE PredictReturns(w)
    BY <1>1, JobPredictReturns DEF PredictReturns, CallInv
  <1>2. CASE PredictFails(w)
    BY <1>2, JobStable DEF PredictFails, TypeOK
  <1>3. CASE Collect(w) \/ CloseWindow(w) \/ Packing(w) \/ WorkerStops(w)
    <2>1. UNCHANGED <<jobVars, future, request, reply>>
      BY <1>3 DEF Collect, CloseWindow, Packing, PackPair, CloseSlice, IssueCall, WorkerStops
    <2> QED BY <2>1, JobStable
  <1> QED BY <1>1, <1>2, <1>3 DEF WorkerStep, Predictor

LEMMA JobAdminStep ==
  ASSUME TypeOK, JobInv, NEW a \in Admins, Patch(a) \/ CloseReturns(a)
  PROVE  JobInv'
  <1>1. UNCHANGED <<jobVars, request, reply>>
    BY DEF Patch, CloseReturns
  <1>2. \A r \in Requests : future'[r] = "result" => future[r] = "result"
    BY DEF Patch, CloseReturns, Start, BeginClose, FinishClose
  <1> QED BY <1>1, <1>2, JobStable
-----------------------------------------------------------------------------
(* Custody.                                                                *)

\* Steps that only let go of jobs.
LEMMA CustodyShrinks ==
  ASSUME TypeOK, Custody,
         queue' \in {queue, <<>>},
         \A w \in Workers : active'[w] \in {active[w], <<>>},
         \A r \in Requests : request[r] # "new" => request'[r] # "new"
  PROVE  Custody'
  <1>1. \A i \in 1..Len(queue) : queue[i] \in Requests
    BY ElementOfSeq DEF TypeOK
  <1>2. \A w \in Workers : \A i \in 1..Len(active[w]) : active[w][i] \in Requests
    BY ElementOfSeq DEF TypeOK
  <1>3. Len(<<>>) = 0
    BY EmptySeq
  <1>4. QueueCustody'
    BY <1>1, <1>3 DEF Custody, QueueCustody
  <1>5. ASSUME NEW w \in Workers PROVE HeldCustody(w)'
    <2>1. CASE active'[w] = active[w]
      BY <1>2, <1>3, <2>1 DEF Custody, HeldCustody
    <2>2. CASE active'[w] = <<>>
      BY <1>3, <2>2 DEF HeldCustody
    <2> QED BY <2>1, <2>2
  <1>6. ASSUME NEW v \in Workers, NEW w \in Workers, v # w PROVE Apart(v, w)'
    <2>1. CASE active'[v] = <<>> \/ active'[w] = <<>>
      BY <1>3, <2>1 DEF Apart
    <2>2. CASE active'[v] = active[v] /\ active'[w] = active[w]
      BY <1>6, <2>2 DEF Custody, Apart
    <2> QED BY <2>1, <2>2
  <1> QED BY <1>4, <1>5, <1>6 DEF Custody

LEMMA CustodyEnqueue ==
  ASSUME TypeOK, Custody, NEW r \in Requests, Enqueue(r)
  PROVE  Custody'
  <1>1. /\ request[r] = "new" /\ request' = [request EXCEPT ![r] = "queued"]
        /\ queue' = Append(queue, r) /\ active' = active
    BY DEF Enqueue, workVars
  <1>2. /\ Len(queue) \in Nat /\ Len(queue') = Len(queue) + 1
        /\ \A i \in 1..Len(queue) : queue'[i] = queue[i]
        /\ queue'[Len(queue) + 1] = r
    BY <1>1, AppendProperties, LenProperties DEF TypeOK
  <1>3. \A x \in Requests : request'[x] = IF x = r THEN "queued" ELSE request[x]
    BY <1>1 DEF TypeOK
  <1>4. /\ \A i \in 1..Len(queue) : queue[i] \in Requests /\ queue[i] # r
        /\ \A w \in Workers : \A i \in 1..Len(active[w]) :
               active[w][i] \in Requests /\ active[w][i] # r
    BY <1>1, ElementOfSeq DEF TypeOK, Custody, QueueCustody, HeldCustody
  <1>5. \A i \in 1..Len(queue') : i \in 1..Len(queue) \/ i = Len(queue) + 1
    BY <1>2
  <1>6. QueueCustody'
    BY <1>2, <1>3, <1>4, <1>5 DEF Custody, QueueCustody
  <1>7. \A w \in Workers : HeldCustody(w)'
    BY <1>1, <1>2, <1>3, <1>4, <1>5 DEF Custody, HeldCustody
  <1>8. \A v, w \in Workers : v # w => Apart(v, w)'
    BY <1>1 DEF Custody, Apart
  <1> QED BY <1>6, <1>7, <1>8 DEF Custody

LEMMA CustodyCollect ==
  ASSUME TypeOK, Custody, NEW w \in Workers, Collect(w)
  PROVE  Custody'
  <1>1. /\ queue # <<>> /\ queue' = Tail(queue) /\ request' = request
        /\ active' = [active EXCEPT ![w] = Append(active[w], Head(queue))]
    BY DEF Collect
  <1>2. /\ Len(queue) \in Nat \ {0} /\ Len(queue') = Len(queue) - 1
        /\ \A i \in 1..Len(queue') : queue'[i] = queue[i + 1]
        /\ Head(queue) = queue[1] /\ Head(queue) \in Requests
    BY <1>1, HeadTailProperties, EmptySeq DEF TypeOK
  <1>3. active[w] \in Seq(Requests) /\ Len(active[w]) \in Nat
    BY LenProperties DEF TypeOK
  <1>4. /\ Len(active'[w]) = Len(active[w]) + 1
        /\ \A i \in 1..Len(active[w]) : active'[w][i] = active[w][i]
        /\ active'[w][Len(active[w]) + 1] = queue[1]
    BY <1>1, <1>2, <1>3, AppendProperties DEF TypeOK
  <1>5. \A i \in 1..Len(queue') : i + 1 \in 1..Len(queue) /\ i + 1 # 1
    BY <1>2
  <1>6. \A i \in 1..Len(active'[w]) : i \in 1..Len(active[w]) \/ i = Len(active[w]) + 1
    BY <1>3, <1>4
  <1>7. \A v \in Workers : v # w => active'[v] = active[v]
    BY <1>1 DEF TypeOK
  <1>8. 1 \in 1..Len(queue)
    BY <1>2
  <1>9. QueueCustody'
    <2>1. \A i \in 1..Len(queue') : request[queue'[i]] # "new"
      BY <1>2, <1>5 DEF Custody, QueueCustody
    <2>2. ASSUME NEW i \in 1..Len(queue'), NEW j \in 1..Len(queue'), queue'[i] = queue'[j]
          PROVE i = j
      <3>1. i + 1 = j + 1
        BY <1>2, <1>5, <2>2 DEF Custody, QueueCustody
      <3> QED BY <3>1
    <2> QED BY <1>1, <2>1, <2>2 DEF QueueCustody
  <1>10. HeldCustody(w)'
    <2>1. \A i \in 1..Len(active'[w]) : request[active'[w][i]] # "new"
      BY <1>4, <1>6, <1>8 DEF Custody, QueueCustody, HeldCustody
    <2>2. \A i, j \in 1..Len(active'[w]) : active'[w][i] = active'[w][j] => i = j
      BY <1>4, <1>6, <1>8 DEF Custody, HeldCustody
    <2>3. ASSUME NEW i \in 1..Len(queue'), NEW j \in 1..Len(active'[w])
          PROVE queue'[i] # active'[w][j]
      <3>1. queue'[i] = queue[i + 1] /\ i + 1 \in 1..Len(queue) /\ i + 1 # 1
        BY <1>2, <1>5
      <3>2. CASE j \in 1..Len(active[w])
        BY <1>4, <3>1, <3>2 DEF Custody, HeldCustody
      <3>3. CASE j = Len(active[w]) + 1
        <4>1. queue[i + 1] # queue[1]
          BY <1>8, <3>1 DEF Custody, QueueCustody
        <4> QED BY <1>4, <3>1, <3>3, <4>1
      <3> QED BY <1>6, <3>2, <3>3
    <2> QED BY <1>1, <2>1, <2>2, <2>3 DEF HeldCustody
  <1>11. \A v \in Workers : v # w => HeldCustody(v)'
    BY <1>1, <1>2, <1>5, <1>7 DEF Custody, HeldCustody
  <1>12. ASSUME NEW u \in Workers, NEW v \in Workers, u # v PROVE Apart(u, v)'
    <2> DEFINE Clear(x) == \A i \in 1..Len(active'[w]), j \in 1..Len(active[x]) :
                                active'[w][i] # active[x][j]
    <2>0. ASSUME NEW x \in Workers, x # w PROVE Clear(x)
      <3> TAKE i \in 1..Len(active'[w]), j \in 1..Len(active[x])
      <3>1. CASE i \in 1..Len(active[w])
        <4>1. Apart(w, x)
          BY <2>0 DEF Custody
        <4> QED BY <1>4, <3>1, <4>1 DEF Apart
      <3>2. CASE i = Len(active[w]) + 1
        <4>1. queue[1] # active[x][j]
          BY <1>8 DEF Custody, HeldCustody
        <4> QED BY <1>4, <3>2, <4>1
      <3> QED BY <1>6, <3>1, <3>2
    <2>1. CASE u = w
      BY <1>7, <1>12, <2>0, <2>1 DEF Apart
    <2>2. CASE v = w
      BY <1>7, <1>12, <2>0, <2>2 DEF Apart
    <2>3. CASE u # w /\ v # w
      BY <1>7, <1>12, <2>3 DEF Custody, Apart
    <2> QED BY <2>1, <2>2, <2>3
  <1> QED BY <1>9, <1>10, <1>11, <1>12 DEF Custody

LEMMA CustodyStep ==
  ASSUME TypeOK, Custody, [Next]_vars
  PROVE  Custody'
  <1>1. ASSUME NEW r \in Requests, RequestStep(r), ~Enqueue(r) PROVE Custody'
    <2>1. UNCHANGED <<queue, active>> /\ \A x \in Requests : request[x] # "new" => request'[x] # "new"
      BY <1>1 DEF RequestStep, PredictDirectly, Reject, DirectReturns, Resume, Timeout,
                  workVars, TypeOK
    <2> QED BY <2>1, CustodyShrinks
  <1>2. ASSUME NEW w \in Workers, WorkerStep(w), ~Collect(w) PROVE Custody'
    <2>1. UNCHANGED <<queue, request>>
      BY <1>2 DEF WorkerStep, CloseWindow, Packing, PackPair, CloseSlice, IssueCall,
                  Predictor, PredictReturns, PredictFails, WorkerStops
    <2>2. \A v \in Workers : active'[v] \in {active[v], <<>>}
      BY <1>2 DEF WorkerStep, CloseWindow, Packing, PackPair, CloseSlice, IssueCall,
                  Predictor, PredictReturns, PredictFails, WorkerStops, NextRound, TypeOK
    <2> QED BY <2>1, <2>2, CustodyShrinks
  <1>3. ASSUME NEW a \in Admins, Patch(a) \/ CloseReturns(a) PROVE Custody'
    <2>1. UNCHANGED <<active, request>>
      BY <1>3 DEF Patch, CloseReturns, workVars
    <2>2. queue' \in {queue, <<>>}
      BY <1>3 DEF Patch, CloseReturns, Start, BeginClose, FinishClose
    <2> QED BY <2>1, <2>2, CustodyShrinks
  <1>4. CASE UNCHANGED vars
    BY <1>4, CustodyShrinks DEF vars
  <1> QED BY <1>1, <1>2, <1>3, <1>4, CustodyEnqueue, CustodyCollect DEF Next
-----------------------------------------------------------------------------
(* Calls.                                                                  *)

\* A worker whose call and jobs stand still, while none of its jobs is credited.
LEMMA CallStable ==
  ASSUME TypeOK, NEW v \in Workers, CallInv(v),
         task'[v] \in {"packing", "inferring"} =>
            /\ task[v] \in {"packing", "inferring"}
            /\ call'[v] = call[v] /\ active'[v] = active[v]
            /\ \A i \in 1..Len(active[v]) : cursor'[active[v][i]] = cursor[active[v][i]]
  PROVE  CallInv(v)'
  <1> SUFFICES ASSUME task'[v] \in {"packing", "inferring"}
               PROVE  SliceInv(v)' /\ CountInv(v)'
    BY DEF CallInv
  <1>1. SliceInv(v) /\ CountInv(v) /\ call'[v] = call[v] /\ active'[v] = active[v]
    BY DEF CallInv
  <1>2. \A i \in 1..Len(active[v]) : cursor'[active[v][i]] = cursor[active[v][i]]
    OBVIOUS
  <1>3. ASSUME NEW k \in 1..Len(call[v].slices)
        PROVE  cursor'[call[v].slices[k].job] = cursor[call[v].slices[k].job]
    <2>1. PICK p \in 1..Len(active[v]) : active[v][p] = call[v].slices[k].job
      BY <1>1 DEF SliceInv
    <2> QED BY <1>2, <2>1
  <1>4. SliceInv(v)'
    BY <1>1, <1>3 DEF SliceInv
  <1>5. CountInv(v)'
    <2>1. call[v].at \in Nat \ {0} /\ Len(active[v]) \in Nat
      BY LenProperties DEF TypeOK, CallStates
    <2> QED BY <1>1, <1>2, <2>1 DEF CountInv
  <1> QED BY <1>4, <1>5

\* A new round of a worker starts with an empty call.
LEMMA CallFresh ==
  ASSUME TypeOK', JobInv', NEW w \in Workers, call'[w] = NoCall
  PROVE  CallInv(w)'
  <1>1. /\ call'[w].slices = <<>> /\ call'[w].pairs = <<>> /\ call'[w].count = 0
        /\ call'[w].at = 1 /\ Len(<<>>) = 0
    BY EmptySeq DEF NoCall
  <1>2. SliceInv(w)'
    BY <1>1 DEF SliceInv
  <1>3. CountInv(w)'
    <2> SUFFICES ASSUME 1 <= Len(active'[w])
                 PROVE  NextPairs(call'[w], 0, 0, active'[w][1], cursor'[active'[w][1]])
      BY <1>1 DEF CountInv
    <2>1. active'[w] \in Seq(Requests) /\ Len(active'[w]) \in Nat
      BY LenProperties DEF TypeOK
    <2>2. active'[w][1] \in Requests
      BY <2>1, ElementOfSeq
    <2>3. cursor'[active'[w][1]] \in 0..Size(active'[w][1])
      BY <2>2 DEF JobInv, Size
    <2>4. Size(active'[w][1]) \in Nat
      BY <2>2, SizeType
    <2> QED BY <1>1, <2>3, <2>4 DEF NextPairs
  <1> QED BY <1>2, <1>3 DEF CallInv

LEMMA CallPackPair ==
  ASSUME TypeOK, JobInv, NEW w \in Workers, CallInv(w), PackPair(w)
  PROVE  CallInv(w)'
  <1> DEFINE c == call[w]
             r == active[w][c.at]
             n == cursor[r] + c.count + 1
             d == call'[w]
  <1>1. /\ c.pairs \in Seq(Pairs) /\ Len(c.pairs) \in Nat
        /\ c.count \in Nat /\ c.at \in Nat \ {0}
        /\ c.slices \in Seq([job : Requests, first : Nat, count : Nat \ {0}])
    BY LenProperties DEF TypeOK, CallStates
  <1>2. r \in Requests /\ <<r, n>> \in Pairs /\ n <= Size(r) /\ cursor[r] \in Nat
        /\ Size(r) \in Nat /\ c.at <= Len(active[w])
    <2>1. Taken(w) + 1 = n
      BY DEF Taken
    <2>2. r \in Requests /\ n \in 1..Size(r) /\ <<r, n>> \in Pairs
      BY <2>1, TakenPair DEF PackPair
    <2> QED BY <2>2, SizeType DEF TypeOK, PackPair, CanTake
  <1>3. d = WithPair(c, r, n)
    BY DEF PackPair, Taken, TypeOK
  <1>4. UNCHANGED <<active, cursor>> /\ task'[w] = "packing"
    BY DEF PackPair, jobVars
  <1>5. SliceInv(w) /\ CountInv(w)
    BY DEF CallInv, PackPair
  <1> HIDE DEF n
  <1>6. d.at = c.at /\ d.count = c.count + 1 /\ d.slices = c.slices
        /\ d.pairs = Append(c.pairs, <<r, n>>)
    BY <1>3 DEF WithPair
  <1> HIDE DEF d
  <1>7. /\ Len(d.pairs) = Len(c.pairs) + 1
        /\ \A i \in 1..Len(c.pairs) : d.pairs[i] = c.pairs[i]
        /\ d.pairs[Len(c.pairs) + 1] = <<r, n>>
    BY <1>1, <1>2, <1>6, AppendProperties
  <1>8. ASSUME NEW first \in Nat, NEW m \in Nat, NEW q, NEW done,
               NextPairs(c, first, m, q, done)
        PROVE  NextPairs(d, first, m, q, done)
    <2>1. /\ first + m <= Len(c.pairs) /\ done + m <= Size(q)
          /\ \A i \in 1..m : c.pairs[first + i] = <<q, done + i>>
      BY <1>8 DEF NextPairs
    <2>2. \A i \in 1..m : first + i \in 1..Len(c.pairs)
      BY <1>1, <2>1
    <2>3. \A i \in 1..m : d.pairs[first + i] = <<q, done + i>>
      BY <1>7, <2>1, <2>2
    <2>4. first + m <= Len(d.pairs)
      BY <1>1, <1>7, <2>1
    <2> QED BY <2>1, <2>3, <2>4 DEF NextPairs
  <1>9. SliceInv(w)'
    <2> SUFFICES ASSUME NEW k \in 1..Len(d.slices)
                 PROVE  LET s == d.slices[k] IN
                        /\ NextPairs(d, s.first, s.count, s.job, cursor[s.job])
                        /\ \E p \in 1..Len(active[w]) : p < d.at /\ active[w][p] = s.job
                        /\ \A l \in 1..Len(d.slices) : d.slices[l].job = s.job => k = l
      BY <1>4 DEF SliceInv, d
    <2>1. d.slices[k] \in [job : Requests, first : Nat, count : Nat \ {0}]
      BY <1>1, <1>6, ElementOfSeq
    <2>2. d.slices[k].first \in Nat /\ d.slices[k].count \in Nat
      BY <2>1
    <2> QED BY <1>5, <1>6, <1>8, <2>2 DEF SliceInv
  <1>10. CountInv(w)'
    <2>1. NextPairs(c, Len(c.pairs) - c.count, c.count, r, cursor[r]) /\ c.count <= Len(c.pairs)
      BY <1>2, <1>5 DEF CountInv
    <2>2. Len(d.pairs) - d.count = Len(c.pairs) - c.count /\ Len(c.pairs) - c.count \in Nat
      <3>1. d.count = c.count + 1 /\ Len(d.pairs) = Len(c.pairs) + 1
        BY <1>6, <1>7
      <3>2. \A x, y \in Nat : x <= y => (y + 1) - (x + 1) = y - x /\ y - x \in Nat
        OBVIOUS
      <3>3. (Len(c.pairs) + 1) - (c.count + 1) = Len(c.pairs) - c.count
            /\ Len(c.pairs) - c.count \in Nat
        BY <1>1, <2>1, <3>2
      <3> QED BY <3>1, <3>3
    <2>3. NextPairs(d, Len(c.pairs) - c.count, c.count, r, cursor[r])
      BY <1>1, <1>8, <2>1, <2>2
    <2>4. d.pairs[(Len(c.pairs) - c.count) + (c.count + 1)] = <<r, cursor[r] + (c.count + 1)>>
      <3>1. (Len(c.pairs) - c.count) + (c.count + 1) = Len(c.pairs) + 1
        BY <1>1
      <3>2. n = cursor[r] + (c.count + 1)
        BY <1>1, <1>2 DEF n
      <3> QED BY <1>7, <3>1, <3>2
    <2>5. NextPairs(d, Len(d.pairs) - d.count, d.count, r, cursor[r])
      <3>1. \A i \in 1..d.count : i \in 1..c.count \/ i = c.count + 1
        BY <1>1, <1>6
      <3>2. \A i \in 1..d.count :
                d.pairs[(Len(c.pairs) - c.count) + i] = <<r, cursor[r] + i>>
        BY <2>3, <2>4, <3>1 DEF NextPairs
      <3>3. (Len(d.pairs) - d.count) + d.count <= Len(d.pairs)
        BY <1>1, <1>6, <1>7
      <3>4. cursor[r] + d.count <= Size(r)
        BY <1>1, <1>2, <1>6 DEF n
      <3> QED BY <2>2, <3>2, <3>3, <3>4 DEF NextPairs
    <2>6. d.count <= Len(d.pairs)
      BY <1>1, <1>6, <1>7, <2>1
    <2> QED BY <1>4, <1>6, <2>5, <2>6 DEF CountInv, d
  <1> QED BY <1>9, <1>10 DEF CallInv

LEMMA CallCloseSlice ==
  ASSUME TypeOK, JobInv, NEW w \in Workers, HeldCustody(w), CallInv(w), CloseSlice(w)
  PROVE  CallInv(w)'
  <1> DEFINE c == call[w]
             r == active[w][c.at]
             d == call'[w]
             s == [job |-> r, first |-> Len(c.pairs) - c.count, count |-> c.count]
  <1>1. /\ c.pairs \in Seq(Pairs) /\ Len(c.pairs) \in Nat
        /\ c.count \in Nat /\ c.at \in Nat \ {0}
        /\ c.slices \in Seq([job : Requests, first : Nat, count : Nat \ {0}])
        /\ Len(c.slices) \in Nat
        /\ active[w] \in Seq(Requests) /\ Len(active[w]) \in Nat
    BY LenProperties DEF TypeOK, CallStates
  <1>2. c.at \in 1..Len(active[w]) /\ r \in Requests
    BY <1>1, ElementOfSeq DEF CloseSlice
  <1>3. d = WithSlice(c, r)
    BY DEF CloseSlice, TypeOK
  <1>4. UNCHANGED <<active, cursor>> /\ task'[w] = "packing"
    BY DEF CloseSlice, jobVars
  <1>5. SliceInv(w) /\ CountInv(w)
    BY DEF CallInv, CloseSlice
  <1>6. /\ d.at = c.at + 1 /\ d.count = 0 /\ d.pairs = c.pairs
        /\ d.slices = IF c.count = 0 THEN c.slices ELSE Append(c.slices, s)
    BY <1>3 DEF WithSlice
  <1> HIDE DEF d
  <1>7. /\ NextPairs(d, s.first, s.count, r, cursor[r])
        /\ c.count <= Len(c.pairs)
    <2>1. NextPairs(c, Len(c.pairs) - c.count, c.count, r, cursor[r]) /\ c.count <= Len(c.pairs)
      BY <1>1, <1>2, <1>5 DEF CountInv
    <2>2. s.first = Len(c.pairs) - c.count /\ s.count = c.count
      OBVIOUS
    <2> HIDE DEF s
    <2> QED BY <1>6, <2>1, <2>2 DEF NextPairs
  <1>8. ASSUME NEW k \in 1..Len(c.slices)
        PROVE  LET t == c.slices[k] IN
               /\ NextPairs(d, t.first, t.count, t.job, cursor[t.job])
               /\ \E p \in 1..Len(active[w]) : p < d.at /\ active[w][p] = t.job
               /\ \A l \in 1..Len(c.slices) : c.slices[l].job = t.job => k = l
               /\ t.job # r
    <2> DEFINE t == c.slices[k]
    <2>1. /\ NextPairs(c, t.first, t.count, t.job, cursor[t.job])
          /\ \E p \in 1..Len(active[w]) : p < c.at /\ active[w][p] = t.job
          /\ \A l \in 1..Len(c.slices) : c.slices[l].job = t.job => k = l
      BY <1>5 DEF SliceInv
    <2> HIDE DEF t
    <2>2. PICK p \in 1..Len(active[w]) : p < c.at /\ active[w][p] = t.job
      BY <2>1
    <2>3. t.job # r
      BY <1>1, <1>2, <2>2 DEF HeldCustody
    <2>4. NextPairs(d, t.first, t.count, t.job, cursor[t.job])
      BY <1>6, <2>1 DEF NextPairs
    <2>5. p < d.at
      BY <1>1, <1>6, <2>2
    <2> QED BY <2>1, <2>2, <2>3, <2>4, <2>5 DEF t
  <1>9. SliceInv(w)'
    <2>1. CASE c.count = 0
      <3>1. d.slices = c.slices
        BY <1>6, <2>1
      <3> QED BY <1>4, <1>8, <3>1 DEF SliceInv, d
    <2>2. CASE c.count # 0
      <3> DEFINE last == Len(c.slices) + 1
      <3>1. s \in [job : Requests, first : Nat, count : Nat \ {0}]
        BY <1>1, <1>2, <1>7, <2>2
      <3>2. /\ Len(d.slices) = last /\ d.slices[last] = s
            /\ \A k \in 1..Len(c.slices) : d.slices[k] = c.slices[k]
        BY <1>1, <1>6, <2>2, <3>1, AppendProperties
      <3>3. \A k \in 1..Len(d.slices) : k \in 1..Len(c.slices) \/ k = last
        BY <1>1, <3>2
      <3>4. s.job = r /\ c.at < d.at
        BY <1>1, <1>6
      <3> HIDE DEF s, last
      <3> SUFFICES ASSUME NEW k \in 1..Len(d.slices)
                   PROVE  LET t == d.slices[k] IN
                          /\ NextPairs(d, t.first, t.count, t.job, cursor[t.job])
                          /\ \E p \in 1..Len(active[w]) : p < d.at /\ active[w][p] = t.job
                          /\ \A l \in 1..Len(d.slices) : d.slices[l].job = t.job => k = l
        BY <1>4 DEF SliceInv, d
      <3>5. CASE k \in 1..Len(c.slices)
        <4> DEFINE t == d.slices[k]
        <4>1. t = c.slices[k]
          BY <3>2, <3>5
        <4>2. /\ NextPairs(d, t.first, t.count, t.job, cursor[t.job])
              /\ \E p \in 1..Len(active[w]) : p < d.at /\ active[w][p] = t.job
              /\ \A l \in 1..Len(c.slices) : c.slices[l].job = t.job => k = l
              /\ t.job # r
          BY <1>8, <3>5, <4>1
        <4>3. \A l \in 1..Len(d.slices) : d.slices[l].job = t.job => k = l
          BY <3>2, <3>3, <3>4, <4>2
        <4> QED BY <4>2, <4>3
      <3>6. CASE k = last
        <4>1. d.slices[k] = s
          BY <3>2, <3>6
        <4> DEFINE t == d.slices[k]
        <4>2. NextPairs(d, t.first, t.count, t.job, cursor[t.job])
          BY <1>7, <3>4, <4>1
        <4>3. \E p \in 1..Len(active[w]) : p < d.at /\ active[w][p] = t.job
          BY <1>2, <3>4, <4>1
        <4>4. \A l \in 1..Len(d.slices) : d.slices[l].job = t.job => k = l
          BY <1>8, <3>2, <3>3, <3>4, <3>6, <4>1
        <4> QED BY <4>2, <4>3, <4>4
      <3> QED BY <3>3, <3>5, <3>6
    <2> QED BY <2>1, <2>2
  <1>10. CountInv(w)'
    <2> SUFFICES ASSUME d.at <= Len(active[w])
                 PROVE  NextPairs(d, Len(d.pairs), 0, active[w][d.at], cursor[active[w][d.at]])
      BY <1>1, <1>4, <1>6 DEF CountInv, d
    <2>1. active[w][d.at] \in Requests
      BY <1>1, <1>6, ElementOfSeq
    <2>2. /\ cursor[active[w][d.at]] \in Nat /\ Size(active[w][d.at]) \in Nat
          /\ cursor[active[w][d.at]] <= Size(active[w][d.at])
      BY <2>1, SizeType DEF TypeOK, JobInv
    <2> QED BY <1>1, <1>6, <2>2 DEF NextPairs
  <1> QED BY <1>9, <1>10 DEF CallInv

\* What one worker is credited with is not held by another.
LEMMA CreditsApart ==
  ASSUME TypeOK, Custody, NEW v \in Workers, NEW w \in Workers, v # w,
         SliceInv(w), PredictReturns(w), NEW i \in 1..Len(active[v])
  PROVE  cursor'[active[v][i]] = cursor[active[v][i]]
  <1> DEFINE r == active[v][i]
  <1>1. r \in Requests
    BY ElementOfSeq DEF TypeOK
  <1>2. SlicesOf(w, r) = {}
    <2> SUFFICES ASSUME NEW k \in 1..Len(call[w].slices), call[w].slices[k].job = r
                 PROVE  FALSE
      BY DEF SlicesOf
    <2>1. PICK p \in 1..Len(active[w]) : active[w][p] = r
      BY DEF SliceInv
    <2> QED BY <2>1 DEF Custody, Apart
  <1>3. cursor'[r] = cursor[r] + Len(<<>>)
    BY <1>1, <1>2 DEF PredictReturns, Credit
  <1> QED BY <1>1, <1>3, EmptySeq DEF TypeOK

LEMMA CallWorkerStep ==
  ASSUME Inv, NEW w \in Workers, WorkerStep(w), TypeOK', JobInv', NEW v \in Workers
  PROVE  CallInv(v)'
  <1>0. TypeOK /\ JobInv /\ Custody /\ CallInv(v) /\ CallInv(w) /\ HeldCustody(w)
    BY DEF Inv, Custody
  <1>1. CASE v # w
    <2>1. task'[v] = task[v] /\ call'[v] = call[v] /\ active'[v] = active[v]
      BY <1>0, <1>1 DEF WorkerStep, Collect, CloseWindow, Packing, PackPair, CloseSlice,
         IssueCall, Predictor, PredictReturns, PredictFails, WorkerStops, NextRound, TypeOK
    <2>2. \A i \in 1..Len(active[v]) : cursor'[active[v][i]] = cursor[active[v][i]]
      <3>1. CASE PredictReturns(w)
        BY <1>0, <1>1, <3>1, CreditsApart DEF PredictReturns, CallInv
      <3>2. CASE ~PredictReturns(w)
        <4>1. cursor' = cursor
          BY <3>2 DEF WorkerStep, Collect, CloseWindow, Packing, PackPair, CloseSlice,
             IssueCall, Predictor, PredictFails, WorkerStops, jobVars
        <4> QED BY <4>1
      <3> QED BY <3>1, <3>2
    <2> QED BY <1>0, <2>1, <2>2, CallStable
  <1>2. CASE v = w
    <2>1. CASE CloseWindow(w) \/ Predictor(w)
      <3>1. call'[w] = NoCall
        BY <1>0, <2>1 DEF CloseWindow, Predictor, PredictReturns, PredictFails, NextRound, TypeOK
      <3> QED BY <1>2, <3>1, CallFresh
    <2>2. CASE PackPair(w)
      BY <1>0, <1>2, <2>2, CallPackPair
    <2>3. CASE CloseSlice(w)
      BY <1>0, <1>2, <2>3, CallCloseSlice
    <2>4. CASE IssueCall(w)
      <3>1. /\ task[w] = "packing" /\ UNCHANGED <<call, cursor>>
            /\ task'[w] = "inferring" => active'[w] = active[w]
            /\ task'[w] \in {"idle", "inferring"}
        BY <1>0, <2>4 DEF IssueCall, jobVars, TypeOK
      <3> QED BY <1>0, <1>2, <3>1, CallStable
    <2>5. CASE Collect(w) \/ WorkerStops(w)
      <3>1. task'[w] \in {"collecting", "stopped"}
        BY <1>0, <2>5 DEF Collect, WorkerStops, TypeOK
      <3> QED BY <1>2, <3>1 DEF CallInv
    <2> QED BY <2>1, <2>2, <2>3, <2>4, <2>5 DEF WorkerStep, Packing
  <1> QED BY <1>1, <1>2

LEMMA CallOtherStep ==
  ASSUME Inv, NEW v \in Workers,
         \/ \E r \in Requests : RequestStep(r)
         \/ \E a \in Admins : Patch(a) \/ CloseReturns(a)
         \/ UNCHANGED vars
  PROVE  CallInv(v)'
  <1>0. TypeOK /\ CallInv(v)
    BY DEF Inv
  <1>1. UNCHANGED <<call, active, cursor>>
    BY DEF RequestStep, PredictDirectly, Reject, Enqueue, DirectReturns, Resume, Timeout,
           Patch, CloseReturns, vars, workVars, jobVars
  <1>2. task'[v] = task[v] \/ task'[v] \in {"idle", "cancelling"}
    BY <1>0 DEF RequestStep, PredictDirectly, Reject, Enqueue, DirectReturns, Resume, Timeout,
           Patch, Start, BeginClose, CloseReturns, vars, workVars, TypeOK
  <1> QED BY <1>0, <1>1, <1>2, CallStable
-----------------------------------------------------------------------------
LEMMA InvInit == Init => Inv
  <1> SUFFICES ASSUME Init PROVE Inv
    OBVIOUS
  <1>1. TypeOK
    BY TypeInit
  <1>2. JobInv
    <2> SUFFICES ASSUME NEW r \in Requests
                 PROVE  0 \in 0..Size(r) /\ <<>> = [i \in 1..0 |-> <<r, i>>]
      BY DEF JobInv, Init
    <2> QED BY SizeType
  <1>3. Custody
    BY EmptySeq DEF Init, Custody, QueueCustody, HeldCustody, Apart
  <1>4. \A w \in Workers : CallInv(w)
    BY DEF Init, CallInv
  <1> QED BY <1>1, <1>2, <1>3, <1>4 DEF Inv

LEMMA InvNext == Inv /\ [Next]_vars => Inv'
  <1> SUFFICES ASSUME Inv, [Next]_vars PROVE Inv'
    OBVIOUS
  <1>0. TypeOK /\ JobInv /\ Custody /\ \A w \in Workers : CallInv(w)
    BY DEF Inv
  <1>1. TypeOK'
    <2>1. CASE UNCHANGED vars
      BY <1>0, <2>1 DEF TypeOK, vars
    <2> QED BY <1>0, <2>1, TypeRequestStep, TypeWorkerStep, TypeAdminStep DEF Next
  <1>2. JobInv'
    <2>1. CASE UNCHANGED vars
      BY <1>0, <2>1, JobStable DEF vars, jobVars
    <2> QED BY <1>0, <2>1, JobRequestStep, JobWorkerStep, JobAdminStep DEF Next
  <1>3. Custody'
    BY <1>0, CustodyStep
  <1>4. \A v \in Workers : CallInv(v)'
    BY <1>1, <1>2, CallWorkerStep, CallOtherStep DEF Next
  <1> QED BY <1>1, <1>2, <1>3, <1>4 DEF Inv

LEMMA InvAlways == Spec => []Inv
  BY InvInit, InvNext, PTL DEF Spec

\* Every variable of the batcher stays within its type.
THEOREM TypeCorrect == Spec => []TypeOK
  <1>1. Inv => TypeOK
    BY DEF Inv
  <1> QED BY <1>1, InvAlways, PTL

\* However requests are packed, split, given up and cancelled, and whatever patches
\* do meanwhile, an answer consists of the request's own scores in its own order.
THEOREM NoMixedResults == Spec => []ResultIsolation
  <1>1. Inv => ResultIsolation
    BY DEF Inv, JobInv, ResultIsolation
  <1> QED BY <1>1, InvAlways, PTL

\* No job is ever in two places, across any number of workers started and cancelled.
THEOREM NoSharedJob == Spec => []SingleCustody
  <1>1. Inv => SingleCustody
    <2> SUFFICES ASSUME Inv PROVE SingleCustody
      OBVIOUS
    <2>1. /\ queue \in Seq(Requests) /\ DOMAIN queue = 1..Len(queue)
          /\ \A w \in Workers : DOMAIN active[w] = 1..Len(active[w])
      BY LenProperties DEF Inv, TypeOK
    <2>2. IsInjective(queue)
      BY <2>1 DEF Inv, Custody, QueueCustody, IsInjective
    <2>3. \A w \in Workers : IsInjective(active[w])
      BY <2>1 DEF Inv, Custody, HeldCustody, IsInjective
    <2>4. \A w \in Workers : Range(queue) \cap Range(active[w]) = {}
      BY <2>1 DEF Inv, Custody, HeldCustody, Range
    <2>5. \A v, w \in Workers : v # w => Range(active[v]) \cap Range(active[w]) = {}
      BY <2>1 DEF Inv, Custody, Apart, Range
    <2> QED BY <2>2, <2>3, <2>4, <2>5 DEF SingleCustody
  <1> QED BY <1>1, InvAlways, PTL
-----------------------------------------------------------------------------
(* The queue, settled futures and the limits of a call.                    *)

\* As long as predict finds a worker, one runs or a close() is under way.
WorkerInv ==
    worker # NoWorker => task[worker] \in Running \/ \E a \in Admins : closing[a] # NoWorker

\* Nothing is known of a request that is not made yet.
FreshInv == \A r \in Requests : request[r] = "new" => future[r] = "none"

QueueInv == TypeOK /\ WorkerInv /\ NoStuckQueue /\ FreshInv

\* A worker ends only when it is cancelled.
LEMMA RunningStays ==
  ASSUME TypeOK, NEW w \in Workers, WorkerStep(w)
  PROVE  \A v \in Workers : task[v] \in Running => task'[v] \in Running
  <1>1. CASE CloseWindow(w) \/ PredictReturns(w) \/ PredictFails(w)
    BY <1>1 DEF CloseWindow, PredictReturns, PredictFails, NextRound, Running, TypeOK
  <1>2. CASE Collect(w) \/ IssueCall(w) \/ WorkerStops(w)
    BY <1>2 DEF Collect, IssueCall, WorkerStops, Running, TypeOK
  <1>3. CASE PackPair(w) \/ CloseSlice(w)
    BY <1>3 DEF PackPair, CloseSlice
  <1> QED BY <1>1, <1>2, <1>3 DEF WorkerStep, Packing, Predictor

LEMMA QueueInvInit == Init => QueueInv
  <1> SUFFICES ASSUME Init PROVE QueueInv
    OBVIOUS
  <1>1. TypeOK
    BY TypeInit
  <1>2. WorkerInv
    BY LimitsAssumption DEF Init, WorkerInv, Running
  <1>3. NoStuckQueue /\ FreshInv
    BY DEF Init, NoStuckQueue, FreshInv
  <1> QED BY <1>1, <1>2, <1>3 DEF QueueInv

LEMMA QueueInvNext ==
  ASSUME Inv, QueueInv, Next, TypeOK'
  PROVE  QueueInv'
  <1> USE DEF QueueInv
  <1>1. ASSUME NEW r \in Requests, RequestStep(r) PROVE QueueInv'
    <2>1. UNCHANGED <<worker, task, closing>>
      BY <1>1 DEF RequestStep, PredictDirectly, Reject, Enqueue, DirectReturns, Resume, Timeout,
         workVars
    <2>2. WorkerInv'
      BY <2>1 DEF WorkerInv
    <2>3. NoStuckQueue'
      <3>1. CASE Enqueue(r)
        <4>1. worker # NoWorker /\ worker \in Workers
          BY <3>1 DEF Enqueue, TypeOK
        <4> QED BY <2>1, <4>1 DEF WorkerInv, NoStuckQueue
      <3>2. CASE ~Enqueue(r)
        <4>1. queue' = queue
          BY <1>1, <3>2 DEF RequestStep, PredictDirectly, Reject, DirectReturns, Resume, Timeout
        <4> QED BY <2>1, <4>1 DEF NoStuckQueue
      <3> QED BY <3>1, <3>2
    <2>4. FreshInv'
      <3>1. \A q \in Requests : request'[q] = "new" => request[q] = "new"
        BY <1>1 DEF RequestStep, PredictDirectly, Reject, Enqueue, DirectReturns, Resume, Timeout,
           TypeOK
      <3>2. CASE Enqueue(r)
        BY <3>2 DEF Enqueue, FreshInv, TypeOK
      <3>3. CASE Timeout(r)
        BY <3>1, <3>3 DEF Timeout, CancelFuture, FreshInv, TypeOK
      <3>4. CASE UNCHANGED future
        BY <3>1, <3>4 DEF FreshInv
      <3> QED BY <1>1, <3>2, <3>3, <3>4 DEF RequestStep, PredictDirectly, Reject, DirectReturns,
              Resume
    <2> QED BY <2>2, <2>3, <2>4
  <1>2. ASSUME NEW w \in Workers, WorkerStep(w) PROVE QueueInv'
    <2>1. UNCHANGED <<worker, closing, request>>
      BY <1>2 DEF WorkerStep, Collect, CloseWindow, Packing, PackPair, CloseSlice, IssueCall,
         Predictor, PredictReturns, PredictFails, WorkerStops
    <2>2. \A v \in Workers : task[v] \in Running => task'[v] \in Running
      BY <1>2, RunningStays
    <2>3. queue' # <<>> => queue # <<>>
      BY <1>2 DEF WorkerStep, Collect, CloseWindow, Packing, PackPair, CloseSlice, IssueCall,
         Predictor, PredictReturns, PredictFails, WorkerStops
    <2>4. WorkerInv' /\ NoStuckQueue'
      BY <2>1, <2>2, <2>3 DEF WorkerInv, NoStuckQueue, TypeOK
    <2>5. FreshInv'
      <3>1. CASE UNCHANGED future
        BY <2>1, <3>1 DEF FreshInv
      <3>2. CASE PredictReturns(w) \/ PredictFails(w)
        BY <2>1, <3>2 DEF FreshInv, PredictReturns, PredictFails
      <3> QED BY <1>2, <3>1, <3>2 DEF WorkerStep, Collect, CloseWindow, Packing, PackPair,
              CloseSlice, IssueCall, Predictor, WorkerStops
    <2> QED BY <2>4, <2>5
  <1>3. ASSUME NEW a \in Admins, Patch(a) \/ CloseReturns(a) PROVE QueueInv'
    <2>1. CASE FinishClose
      <3>1. worker' = NoWorker /\ queue' = <<>>
        BY <2>1 DEF FinishClose
      <3>2. request' = request
        BY <1>3 DEF Patch, CloseReturns
      <3>3. FreshInv'
        BY <2>1, <3>2 DEF FinishClose, FreshInv
      <3> QED BY <3>1, <3>3 DEF WorkerInv, NoStuckQueue
    <2>2. CASE Patch(a) /\ UNCHANGED <<queue, future>>
      <3>1. FreshInv'
        BY <2>2 DEF Patch, FreshInv
      <3>2. CASE Start
        <4>1. PICK w \in Workers : task[w] = "unused" /\ worker' = w /\ task' = [task EXCEPT ![w] = "idle"]
          BY <3>2 DEF Start
        <4>2. task'[w] \in Running /\ \A v \in Workers : task[v] \in Running => task'[v] \in Running
          BY <4>1 DEF Running, TypeOK
        <4>3. closing' = closing
          BY <3>2 DEF Start
        <4> QED BY <2>2, <3>1, <4>1, <4>2, <4>3 DEF WorkerInv, NoStuckQueue
      <3>3. CASE BeginClose(a) /\ ~FinishClose
        <4>1. worker # NoWorker /\ closing' = [closing EXCEPT ![a] = worker]
          BY <3>3 DEF BeginClose
        <4>2. closing'[a] # NoWorker
          BY <4>1 DEF TypeOK
        <4> QED BY <3>1, <4>2 DEF WorkerInv, NoStuckQueue
      <3>4. CASE UNCHANGED <<worker, task, closing, queue, future>>
        BY <3>1, <3>4 DEF WorkerInv, NoStuckQueue
      <3>5. CASE FinishClose
        BY <2>1, <3>5
      <3> QED BY <2>2, <3>2, <3>3, <3>4, <3>5 DEF Patch
    <2> QED BY <1>3, <2>1, <2>2 DEF Patch, Start, BeginClose, CloseReturns
  <1> QED BY <1>1, <1>2, <1>3 DEF Next

LEMMA QueueInvAlways == Spec => []QueueInv
  <1>1. Inv /\ QueueInv /\ [Next]_vars => QueueInv'
    <2> SUFFICES ASSUME Inv, QueueInv, [Next]_vars PROVE QueueInv'
      OBVIOUS
    <2>1. TypeOK'
      BY InvNext DEF Inv
    <2>2. CASE UNCHANGED vars
      BY <2>1, <2>2 DEF QueueInv, WorkerInv, NoStuckQueue, FreshInv, vars
    <2> QED BY <2>1, <2>2, QueueInvNext
  <1> QED BY <1>1, QueueInvInit, InvAlways, PTL DEF Spec

\* No job is left in the queue with nobody to take it or cancel it, however many
\* administrators turn batching off and on while requests are put in.
THEOREM QueueIsAttended == Spec => []NoStuckQueue
  <1>1. QueueInv => NoStuckQueue
    BY DEF QueueInv
  <1> QED BY <1>1, QueueInvAlways, PTL

\* No step settles a future that is settled, which asyncio would refuse, nor decides a
\* request again: of a deadline, the worker's answer, its failure and the draining of the
\* queue the first one counts.
THEOREM FuturesSettleOnce == Spec => SettledOnce
  <1> DEFINE Once == \A r \in Requests :
                        /\ future[r] \in Decided => future'[r] = future[r]
                        /\ request[r] \notin {"new", "queued", "direct"} =>
                              request'[r] = request[r] /\ reply'[r] = reply[r]
  <1>1. ASSUME QueueInv, Next, NEW q \in Requests
        PROVE  /\ future[q] \in Decided => future'[q] = future[q]
               /\ request[q] \notin {"new", "queued", "direct"} =>
                     request'[q] = request[q] /\ reply'[q] = reply[q]
    <2> USE <1>1 DEF QueueInv
    <2>1. ASSUME NEW r \in Requests, RequestStep(r)
          PROVE  /\ future[q] \in Decided => future'[q] = future[q]
                 /\ request[q] \notin {"new", "queued", "direct"} =>
                       request'[q] = request[q] /\ reply'[q] = reply[q]
      BY <2>1 DEF RequestStep, PredictDirectly, Reject, Enqueue, DirectReturns, Resume, Timeout,
         CancelFuture, FreshInv, TypeOK, Decided
    <2>2. ASSUME NEW w \in Workers, WorkerStep(w)
          PROVE  /\ future[q] \in Decided => future'[q] = future[q]
                 /\ UNCHANGED <<request, reply>>
      BY <2>2 DEF WorkerStep, Collect, CloseWindow, Packing, PackPair, CloseSlice, IssueCall,
         Predictor, PredictReturns, PredictFails, WorkerStops, Decided
    <2>3. ASSUME NEW a \in Admins, Patch(a) \/ CloseReturns(a)
          PROVE  /\ future[q] \in Decided => future'[q] = future[q]
                 /\ UNCHANGED <<request, reply>>
      BY <2>3 DEF Patch, CloseReturns, Start, BeginClose, FinishClose, Decided
    <2> QED BY <2>1, <2>2, <2>3 DEF Next
  <1>2. QueueInv /\ [Next]_vars => [Once]_vars
    BY <1>1
  <1> HIDE DEF Once
  <1>3. Spec => [][Once]_vars
    BY <1>2, QueueInvAlways, PTL DEF Spec
  <1> QED BY <1>3 DEF SettledOnce, Once
-----------------------------------------------------------------------------
(* The limits of a call.                                                   *)

\* The running totals of a call's tokens, up to what the worker has counted.
Counted(c) ==
    \E total \in [0..Len(c.pairs) -> 0..c.tokens] :
        /\ total[0] = 0 /\ total[Len(c.pairs)] = c.tokens
        /\ \A i \in 1..Len(c.pairs) :
              total[i] = total[i - 1] + Weights[c.pairs[i][1]][c.pairs[i][2]]

\* A call that is packed is within the limits, or is one pair.
CapInv(w) ==
    task[w] = "packing" =>
        /\ Len(call[w].pairs) <= maxPairs
        /\ Len(call[w].pairs) <= 1 \/ call[w].tokens <= MaxTokens
        /\ Counted(call[w])

LEMMA CountedNoCall == Counted(NoCall)
  <1> DEFINE total == [i \in 0..0 |-> 0]
  <1>1. NoCall.pairs = <<>> /\ NoCall.tokens = 0 /\ Len(<<>>) = 0
    BY DEF NoCall
  <1>2. total \in [0..0 -> 0..0] /\ total[0] = 0
    OBVIOUS
  <1> HIDE DEF total
  <1>3. \A i \in 1..0 : FALSE
    OBVIOUS
  <1>4. Len(NoCall.pairs) = 0 /\ NoCall.tokens = 0
    BY <1>1
  <1>5. /\ total \in [0..Len(NoCall.pairs) -> 0..NoCall.tokens]
        /\ total[0] = 0 /\ total[Len(NoCall.pairs)] = NoCall.tokens
        /\ \A i \in 1..Len(NoCall.pairs) :
              total[i] = total[i - 1] + Weights[NoCall.pairs[i][1]][NoCall.pairs[i][2]]
    BY <1>2, <1>3, <1>4, Zenon
  <1> QED BY <1>5, Zenon DEF Counted

LEMMA CountedWithPair ==
  ASSUME NEW c \in CallStates, Counted(c), NEW r, NEW n,
         Weights[r][n] \in Nat, <<r, n>> \in Pairs
  PROVE  Counted(WithPair(c, r, n))
  <1> DEFINE d == WithPair(c, r, n)
             L == Len(c.pairs)
             x == Weights[r][n]
  <1>1. L \in Nat /\ c.tokens \in Nat /\ c.pairs \in Seq(Pairs)
    BY LenProperties DEF CallStates
  <1>2. /\ d.pairs = Append(c.pairs, <<r, n>>) /\ d.tokens = c.tokens + x
    BY DEF WithPair
  <1>3. /\ Len(d.pairs) = L + 1 /\ d.pairs[L + 1] = <<r, n>>
        /\ \A i \in 1..L : d.pairs[i] = c.pairs[i]
    BY <1>1, <1>2, AppendProperties
  <1>4. PICK t \in [0..L -> 0..c.tokens] :
           /\ t[0] = 0 /\ t[L] = c.tokens
           /\ \A i \in 1..L : t[i] = t[i - 1] + Weights[c.pairs[i][1]][c.pairs[i][2]]
    BY DEF Counted
  <1> DEFINE total == [i \in 0..(L + 1) |-> IF i <= L THEN t[i] ELSE c.tokens + x]
  <1> HIDE DEF d, L, x
  <1>5. total \in [0..(L + 1) -> 0..(c.tokens + x)]
    <2> SUFFICES ASSUME NEW i \in 0..(L + 1)
                 PROVE  (IF i <= L THEN t[i] ELSE c.tokens + x) \in 0..(c.tokens + x)
      OBVIOUS
    <2>1. CASE i <= L
      <3>1. i \in 0..L
        BY <1>1, <2>1
      <3>2. t[i] \in 0..c.tokens
        BY <3>1
      <3> QED BY <1>1, <2>1, <3>2 DEF x
    <2>2. CASE ~(i <= L)
      BY <1>1, <2>2 DEF x
    <2> QED BY <2>1, <2>2
  <1>6. total[0] = 0 /\ total[L + 1] = c.tokens + x
    BY <1>1, <1>4
  <1>7. ASSUME NEW i \in 1..(L + 1)
        PROVE  total[i] = total[i - 1] + Weights[d.pairs[i][1]][d.pairs[i][2]]
    <2>1. CASE i = L + 1
      <3>1. total[i] = c.tokens + x /\ total[i - 1] = t[L]
        BY <1>1, <2>1
      <3>2. Weights[d.pairs[i][1]][d.pairs[i][2]] = x
        BY <1>3, <2>1 DEF x
      <3> QED BY <1>4, <3>1, <3>2
    <2>2. CASE i \in 1..L
      <3>1. total[i] = t[i] /\ total[i - 1] = t[i - 1]
        BY <1>1, <2>2
      <3> QED BY <1>3, <1>4, <2>2, <3>1
    <2> QED BY <1>1, <2>1, <2>2
  <1> HIDE DEF total
  <1>8. \E u \in [0..Len(d.pairs) -> 0..d.tokens] :
           /\ u[0] = 0 /\ u[Len(d.pairs)] = d.tokens
           /\ \A i \in 1..Len(d.pairs) :
                 u[i] = u[i - 1] + Weights[d.pairs[i][1]][d.pairs[i][2]]
    BY <1>2, <1>3, <1>5, <1>6, <1>7 DEF x
  <1> QED BY <1>8 DEF Counted, d

LEMMA CapInvNext ==
  ASSUME Inv, \A w \in Workers : CapInv(w), [Next]_vars, NEW v \in Workers
  PROVE  CapInv(v)'
  <1> USE DEF Inv
  <1> SUFFICES ASSUME task'[v] = "packing"
               PROVE  /\ Len(call'[v].pairs) <= maxPairs'
                      /\ Len(call'[v].pairs) <= 1 \/ call'[v].tokens <= MaxTokens
                      /\ Counted(call'[v])
    BY DEF CapInv, Counted
  <1>1. CASE call'[v] = NoCall
    <2>1. maxPairs' \in Nat \ {0}
      BY InvNext, LimitsAssumption DEF TypeOK
    <2>2. Len(call'[v].pairs) = 0
      BY <1>1 DEF NoCall
    <2> QED BY <1>1, <2>1, <2>2, CountedNoCall
  <1>2. CASE PackPair(v)
    <2> DEFINE r == active[v][call[v].at]
               n == Taken(v) + 1
               c == call[v]
    <2>1. r \in Requests /\ n \in Nat /\ Weights[r][n] \in Nat \ {0} /\ <<r, n>> \in Pairs
      BY <1>2, TakenPair, SizeType DEF PackPair
    <2>2. call'[v] = WithPair(c, r, n) /\ maxPairs' = maxPairs
      BY <1>2 DEF PackPair, TypeOK, settingVars
    <2>3. /\ Len(c.pairs) < maxPairs
          /\ c.pairs # <<>> => c.tokens + Weights[r][n] <= MaxTokens
      BY <1>2 DEF PackPair, CanTake
    <2>4. c \in CallStates /\ Counted(c) /\ maxPairs \in Nat
      BY <1>2, LimitsAssumption DEF PackPair, CapInv, TypeOK
    <2> HIDE DEF r, n, c
    <2>5. c.pairs \in Seq(Pairs) /\ Len(c.pairs) \in Nat
      BY <2>4, LenProperties DEF CallStates
    <2>6. /\ call'[v].tokens = c.tokens + Weights[r][n]
          /\ Len(call'[v].pairs) = Len(c.pairs) + 1
      BY <2>1, <2>2, <2>5, AppendProperties DEF WithPair
    <2>7. Counted(call'[v])
      BY <2>1, <2>2, <2>4, CountedWithPair
    <2>8. Len(call'[v].pairs) <= 1 \/ call'[v].tokens <= MaxTokens
      <3>1. CASE c.pairs = <<>>
        BY <2>6, <3>1
      <3> QED BY <2>3, <2>6, <3>1
    <2> QED BY <2>2, <2>3, <2>4, <2>5, <2>6, <2>7, <2>8
  <1>3. CASE /\ task[v] = "packing" /\ maxPairs' = maxPairs
             /\ call'[v].pairs = call[v].pairs /\ call'[v].tokens = call[v].tokens
    <2>1. CapInv(v)
      OBVIOUS
    <2>2. /\ Len(call[v].pairs) <= maxPairs
          /\ Len(call[v].pairs) <= 1 \/ call[v].tokens <= MaxTokens
          /\ Counted(call[v])
      BY <1>3, <2>1 DEF CapInv
    <2>3. Counted(call'[v])
      BY <1>3, <2>2 DEF Counted
    <2> QED BY <1>3, <2>2, <2>3
  <1>4. \/ call'[v] = NoCall
        \/ PackPair(v)
        \/ /\ task[v] = "packing" /\ maxPairs' = maxPairs
           /\ call'[v].pairs = call[v].pairs /\ call'[v].tokens = call[v].tokens
    <2>1. ASSUME NEW r \in Requests, RequestStep(r)
          PROVE  UNCHANGED <<task, call, maxPairs>>
      BY <2>1 DEF RequestStep, PredictDirectly, Reject, Enqueue, DirectReturns, Resume, Timeout,
         workVars, settingVars
    <2>2. ASSUME NEW w \in Workers, WorkerStep(w), w # v
          PROVE  task'[v] = task[v] /\ call'[v] = call[v] /\ maxPairs' = maxPairs
      BY <2>2 DEF WorkerStep, Collect, CloseWindow, Packing, PackPair, CloseSlice, IssueCall,
         Predictor, PredictReturns, PredictFails, WorkerStops, NextRound, TypeOK, settingVars
    <2>3. CASE CloseWindow(v) \/ Predictor(v)
      BY <2>3 DEF CloseWindow, Predictor, PredictReturns, PredictFails, NextRound, TypeOK
    <2>4. CASE Collect(v) \/ IssueCall(v) \/ WorkerStops(v)
      BY <2>4 DEF Collect, IssueCall, WorkerStops, TypeOK
    <2>5. CASE CloseSlice(v)
      BY <2>5 DEF CloseSlice, WithSlice, TypeOK, settingVars
    <2>6. ASSUME NEW a \in Admins, Patch(a)
          PROVE  FALSE
      BY <2>6 DEF Patch, LoopFree, Start, BeginClose, TypeOK
    <2>7. ASSUME NEW a \in Admins, CloseReturns(a)
          PROVE  FALSE
      BY <2>7 DEF CloseReturns, LoopFree, workVars
    <2>8. CASE UNCHANGED vars
      BY <2>8 DEF vars
    <2> QED BY <2>1, <2>2, <2>3, <2>4, <2>5, <2>6, <2>7, <2>8 DEF Next, WorkerStep, Packing
  <1> QED BY <1>1, <1>2, <1>3, <1>4

\* Whatever the weights and limits, a call leaves within the pair limit in force, and
\* within the token limit unless it is a single pair.
THEOREM CallsWithinCaps == Spec => CallWithinCaps
  <1> DEFINE CapsInv == \A w \in Workers : CapInv(w)
             Caps == \A w \in Workers : Issued(w) =>
                        /\ Len(call[w].pairs) \in 1..maxPairs
                        /\ Len(call[w].pairs) = 1 \/ WithinTokens(call[w].pairs)
  <1>1. Init => CapsInv
    BY DEF Init, CapInv
  <1>2. Inv /\ CapsInv /\ [Next]_vars => CapsInv'
    BY CapInvNext
  <1>3. ASSUME Inv, CapsInv, Next, NEW w \in Workers, Issued(w)
        PROVE  /\ Len(call[w].pairs) \in 1..maxPairs
               /\ Len(call[w].pairs) = 1 \/ WithinTokens(call[w].pairs)
    <2>1. /\ call[w].pairs \in Seq(Pairs) /\ Len(call[w].pairs) \in Nat
          /\ call[w].tokens \in Nat /\ maxPairs \in Nat
      BY <1>3, LenProperties, LimitsAssumption DEF Inv, TypeOK, CallStates
    <2>2. call[w].pairs # <<>>
      <3>1. ASSUME NEW u \in Workers, WorkerStep(u) PROVE u = w /\ IssueCall(w)
        BY <1>3, <3>1 DEF Issued, WorkerStep, Collect, CloseWindow, Packing, PackPair, CloseSlice,
           IssueCall, Predictor, PredictReturns, PredictFails, WorkerStops, NextRound, LoopFree,
           Inv, TypeOK
      <3>2. ASSUME NEW r \in Requests, RequestStep(r) PROVE FALSE
        BY <1>3, <3>2 DEF Issued, LoopFree, RequestStep, PredictDirectly, Reject, Enqueue,
           DirectReturns, Resume, Timeout
      <3>3. ASSUME NEW a \in Admins, Patch(a) \/ CloseReturns(a) PROVE FALSE
        BY <1>3, <3>3 DEF Issued, LoopFree, Patch, CloseReturns
      <3>4. IssueCall(w)
        BY <1>3, <3>1, <3>2, <3>3 DEF Next
      <3> QED BY <1>3, <3>4 DEF Issued, IssueCall, Inv, TypeOK
    <2>3. /\ Len(call[w].pairs) <= maxPairs
          /\ Len(call[w].pairs) <= 1 \/ call[w].tokens <= MaxTokens
          /\ Counted(call[w])
      BY <1>3 DEF Issued, CapInv
    <2>4. Len(call[w].pairs) \in 1..maxPairs
      BY <2>1, <2>2, <2>3, EmptySeq
    <2>5. ASSUME call[w].tokens <= MaxTokens PROVE WithinTokens(call[w].pairs)
      <3>1. 0..call[w].tokens \subseteq 0..MaxTokens
        BY <2>1, <2>5, LimitsAssumption
      <3> QED BY <2>3, <3>1 DEF Counted, WithinTokens
    <2>6. Len(call[w].pairs) <= 1 => Len(call[w].pairs) = 1
      <3> DEFINE n == Len(call[w].pairs)
      <3>1. n \in 1..maxPairs /\ n \in Nat /\ maxPairs \in Nat
        BY <2>1, <2>4
      <3> HIDE DEF n
      <3>2. n <= 1 => n = 1
        BY <3>1
      <3> QED BY <3>2 DEF n
    <2> QED BY <2>3, <2>4, <2>5, <2>6, Zenon
  <1>4. Inv /\ CapsInv /\ [Next]_vars => [Caps]_vars
    BY <1>3
  <1> HIDE DEF CapsInv, Caps
  <1>5. Spec => [][Caps]_vars
    BY <1>1, <1>2, <1>4, InvAlways, PTL DEF Spec
  <1> QED BY <1>5 DEF CallWithinCaps, Caps

-----------------------------------------------------------------------------
(* Refinement.                                                             *)

LEMMA ScoringStep ==
  ASSUME TypeOK, JobInv, [Next]_vars
  PROVE  [Scoring!Next]_Scoring!vars
  <1> USE DEF Status, OwnScores
  <1>1. ASSUME NEW r \in Requests, RequestStep(r)
        PROVE  \/ Scoring!Next
               \/ UNCHANGED <<Status, reply>>
    <2>0. request \in [Requests -> {"new", "direct", "queued", "answered", "failed",
                                    "timed_out", "cancelled", "overloaded", "not_started"}]
      BY DEF TypeOK
    <2>1. CASE PredictDirectly(r) \/ Enqueue(r)
      <3>1. Scoring!Accept(r)
        BY <2>0, <2>1 DEF PredictDirectly, Enqueue, Scoring!Accept
      <3> QED BY <3>1 DEF Scoring!Next
    <2>2. CASE Reject(r) \/ Timeout(r)
      <3>1. Scoring!Refuse(r)
        BY <2>0, <2>2 DEF Reject, Timeout, Scoring!Refuse
      <3> QED BY <3>1 DEF Scoring!Next
    <2>3. CASE DirectReturns(r)
      <3>1. Scoring!Answer(r) \/ Scoring!Refuse(r)
        BY <2>0, <2>3 DEF DirectReturns, Scoring!Answer, Scoring!Refuse
      <3> QED BY <3>1 DEF Scoring!Next
    <2>4. CASE Resume(r)
      <3>1. CASE future[r] = "result"
        <4>1. scores[r] = Own(r)
          BY <3>1 DEF JobInv, Own
        <4>2. Scoring!Answer(r)
          BY <2>0, <2>4, <3>1, <4>1 DEF Resume, Scoring!Answer
        <4> QED BY <4>2 DEF Scoring!Next
      <3>2. CASE future[r] # "result"
        <4>1. Scoring!Refuse(r)
          BY <2>0, <2>4, <3>2 DEF Resume, Scoring!Refuse
        <4> QED BY <4>1 DEF Scoring!Next
      <3> QED BY <3>1, <3>2
    <2> QED BY <1>1, <2>1, <2>2, <2>3, <2>4 DEF RequestStep
  <1>2. CASE ~ \E r \in Requests : RequestStep(r)
    <2>1. UNCHANGED <<request, reply>>
      BY <1>2 DEF Next, vars, WorkerStep, Collect, CloseWindow, Packing, PackPair, CloseSlice,
         IssueCall, Predictor, PredictReturns, PredictFails, WorkerStops, Patch, CloseReturns
    <2> QED BY <2>1 DEF Scoring!vars
  <1> QED BY <1>1, <1>2 DEF Scoring!vars

\* The batcher does what PairScoring allows: each request is decided at most once,
\* by its own scores or by a refusal.
THEOREM BatcherImplementsScoring == Spec => Scoring!Safety
  <1>1. Init => Scoring!Init
    <2> SUFFICES ASSUME Init PROVE Scoring!Init
      OBVIOUS
    <2>1. Status = [r \in Requests |-> "new"]
      BY DEF Init, Status
    <2> QED BY <2>1 DEF Init, Scoring!Init
  <1>2. Inv /\ [Next]_vars => [Scoring!Next]_Scoring!vars
    BY ScoringStep DEF Inv
  <1> QED BY <1>1, <1>2, InvAlways, PTL DEF Spec, Scoring!Safety
=============================================================================
