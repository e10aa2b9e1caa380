---------------------------- MODULE DynamicBatcher ----------------------------
(***************************************************************************)
(* The micro-batcher of src/reranker_service/batching.py.  Request tasks   *)
(* put jobs in a bounded queue; the worker task collects jobs for a        *)
(* window, packs their pairs into calls of the predictor, and hands each   *)
(* job its scores back through a future.  Administrators switch batching   *)
(* off and on while this goes on, which cancels the worker and starts      *)
(* another.                                                                *)
(*                                                                         *)
(* Every task runs on one asyncio event loop: code between two awaits is   *)
(* not interleaved.  A pair is <<request, index>>, and the predictor's     *)
(* score of a pair is the pair itself, so a score tells whose it is.  The  *)
(* packing loop, which has no await, is modelled pair by pair; while a     *)
(* worker packs no other task takes a step (LoopFree).                     *)
(***************************************************************************)
EXTENDS Integers, Sequences, FiniteSets, SequencesExt

CONSTANTS Requests,    \* calls of predict that reach the batcher
          Weights,     \* Weights[r][i]: approximate tokens of r's i-th pair
          MaxQueue,    \* settings.max_queue_size, read once at construction
          MaxTokens,   \* settings.max_batch_tokens
          PairLimits,  \* values an administrator gives settings.max_batch_pairs
          Admins,      \* PATCH /v1/admin/runtime handlers
          Workers,     \* worker tasks that may be created: bounds the restarts
          NoWorker     \* None

ASSUME WeightsAssumption ==
    Weights \in [Requests -> Seq(Nat \ {0})] /\ \A r \in Requests : Weights[r] # <<>>
ASSUME LimitsAssumption ==
    /\ MaxQueue \in Nat \ {0}
    /\ MaxTokens \in Nat \ {0}
    /\ PairLimits \subseteq Nat \ {0}
    /\ NoWorker \notin Workers

VARIABLES
    batching,  \* settings.dynamic_batching
    maxPairs,  \* settings.max_batch_pairs
    worker,    \* DynamicBatcher._worker
    task,      \* state of each worker task
    active,    \* jobs a worker holds: first a window's jobs, then _process's active
    call,      \* locals of _process for the call being packed or in flight
    queue,     \* DynamicBatcher.queue
    cursor,    \* BatchJob.cursor
    scores,    \* BatchJob.scores
    future,    \* BatchJob.future
    request,   \* state of the task that awaits predict
    reply,     \* what predict returned to it
    closing    \* the worker task whose end a handler awaits in close()

jobVars == <<cursor, scores>>
workVars == <<task, active, call>>
settingVars == <<batching, maxPairs>>
vars == <<batching, maxPairs, worker, task, active, call, queue, cursor, scores,
          future, request, reply, closing>>

Pairs == Requests \X (Nat \ {0})
Size(r) == Len(Weights[r])
Own(r) == [i \in 1..Size(r) |-> <<r, i>>]

NoCall == [at |-> 1, count |-> 0, pairs |-> <<>>, tokens |-> 0, slices |-> <<>>]

\* The event loop is between two tasks' steps.
LoopFree == \A w \in Workers : task[w] # "packing"
-------------------------------------------------------------------------------
Init == /\ batching \in BOOLEAN
        /\ maxPairs \in PairLimits
        /\ worker \in IF batching THEN Workers ELSE {NoWorker}
        /\ task = [w \in Workers |-> IF w = worker THEN "idle" ELSE "unused"]
        /\ active = [w \in Workers |-> <<>>]
        /\ call = [w \in Workers |-> NoCall]
        /\ queue = <<>>
        /\ cursor = [r \in Requests |-> 0]
        /\ scores = [r \in Requests |-> <<>>]
        /\ future = [r \in Requests |-> "none"]
        /\ request = [r \in Requests |-> "new"]
        /\ reply = [r \in Requests |-> <<>>]
        /\ closing = [a \in Admins |-> NoWorker]

-------------------------------------------------------------------------------
(* Request tasks: DynamicBatcher.predict and the wait_for around it.       *)

\* Batching is off: the request calls the predictor itself.
PredictDirectly(r) ==
    /\ LoopFree
    /\ request[r] = "new" /\ ~batching
    /\ request' = [request EXCEPT ![r] = "direct"]
    /\ UNCHANGED <<settingVars, worker, workVars, queue, jobVars, future, reply, closing>>

\* "dynamic batcher is not started", or the queue is full.
Reject(r) ==
    /\ LoopFree
    /\ request[r] = "new" /\ batching
    /\ \/ worker = NoWorker /\ request' = [request EXCEPT ![r] = "not_started"]
       \/ /\ worker # NoWorker /\ Len(queue) >= MaxQueue
          /\ request' = [request EXCEPT ![r] = "overloaded"]
    /\ UNCHANGED <<settingVars, worker, workVars, queue, jobVars, future, reply, closing>>

Enqueue(r) ==
    /\ LoopFree
    /\ request[r] = "new" /\ batching /\ worker # NoWorker
    /\ Len(queue) < MaxQueue
    /\ queue' = Append(queue, r)
    /\ future' = [future EXCEPT ![r] = "pending"]
    /\ request' = [request EXCEPT ![r] = "queued"]
    /\ UNCHANGED <<settingVars, worker, workVars, jobVars, reply, closing>>

\* The predictor answers, or raises, a call made by the request itself.
DirectReturns(r) ==
    /\ LoopFree
    /\ request[r] = "direct"
    /\ \/ /\ request' = [request EXCEPT ![r] = "answered"]
          /\ reply' = [reply EXCEPT ![r] = Own(r)]
       \/ /\ request' = [request EXCEPT ![r] = "failed"]
          /\ UNCHANGED reply
    /\ UNCHANGED <<settingVars, worker, workVars, queue, jobVars, future, closing>>

\* The request task resumes from `await future`.
Resume(r) ==
    /\ LoopFree
    /\ request[r] = "queued" /\ future[r] \in {"result", "exception", "cancelled"}
    /\ request' = [request EXCEPT ![r] =
                      CASE future[r] = "result"    -> "answered"
                        [] future[r] = "exception" -> "failed"
                        [] future[r] = "cancelled" -> "cancelled"]
    /\ reply' = IF future[r] = "result" THEN [reply EXCEPT ![r] = scores[r]] ELSE reply
    /\ UNCHANGED <<settingVars, worker, workVars, queue, jobVars, future, closing>>

CancelFuture(r) == IF future[r] = "pending" THEN [future EXCEPT ![r] = "cancelled"]
                                            ELSE future

\* The request's deadline, or its client's disconnection, cancels the await;
\* the job stays wherever it is.
Timeout(r) ==
    /\ LoopFree
    /\ request[r] \in {"queued", "direct"}
    /\ request' = [request EXCEPT ![r] = "timed_out"]
    /\ future' = CancelFuture(r)
    /\ UNCHANGED <<settingVars, worker, workVars, queue, jobVars, reply, closing>>

-------------------------------------------------------------------------------
(* The worker task: DynamicBatcher._run and _process.                      *)

\* Faulty Collect: looks at the head of the queue without taking it off.
CollectLeavesJob(w) ==
    /\ LoopFree
    /\ task[w] \in {"idle", "collecting"} /\ queue # <<>> /\ Len(active[w]) < 3
    /\ task' = [task EXCEPT ![w] = "collecting"]
    /\ active' = [active EXCEPT ![w] = Append(@, Head(queue))]
    /\ UNCHANGED <<settingVars, worker, call, queue, jobVars, future, request, reply, closing>>

\* The first job of a window, or one more before it closes.
Collect(w) ==
    /\ LoopFree
    /\ task[w] \in {"idle", "collecting"} /\ queue # <<>>
    /\ task' = [task EXCEPT ![w] = "collecting"]
    /\ active' = [active EXCEPT ![w] = Append(@, Head(queue))]
    /\ queue' = Tail(queue)
    /\ UNCHANGED <<settingVars, worker, call, jobVars, future, request, reply, closing>>

\* `while active`: pack the next call, or go back to the queue when no job the
\* worker holds is undecided in f.  Decided jobs are not removed from active[w],
\* they are passed over (CanTake).
NextRound(w, f) ==
    LET again == \E i \in 1..Len(active[w]) : f[active[w][i]] = "pending"
    IN  /\ active' = [active EXCEPT ![w] = IF again THEN @ ELSE <<>>]
        /\ task' = [task EXCEPT ![w] = IF again THEN "packing" ELSE "idle"]
        /\ call' = [call EXCEPT ![w] = NoCall]

\* Faulty CloseWindow: the window stays open until a second job arrives.
CloseWindowWithCompany(w) ==
    /\ LoopFree
    /\ task[w] = "collecting" /\ Len(active[w]) > 1
    /\ NextRound(w, future)
    /\ UNCHANGED <<settingVars, worker, queue, jobVars, future, request, reply, closing>>

\* The window's deadline passes.
CloseWindow(w) ==
    /\ LoopFree
    /\ task[w] = "collecting"
    /\ NextRound(w, future)
    /\ UNCHANGED <<settingVars, worker, queue, jobVars, future, request, reply, closing>>

\* Pairs of the current job scored by earlier calls or taken into this one.
Taken(w) == LET r == active[w][call[w].at] IN cursor[r] + call[w].count

\* Faulty CanTake: one pair too many.
CanTakeOneMore(w) ==
    LET c == call[w]
        r == active[w][c.at]
    IN  /\ c.at <= Len(active[w])
        /\ Len(c.pairs) <= maxPairs
        /\ future[r] = "pending"
        /\ cursor[r] + c.count < Size(r)
        /\ c.pairs # <<>> => c.tokens + Weights[r][cursor[r] + c.count + 1] <= MaxTokens

\* The current job's next pair goes into the call: the job is undecided, and the
\* call is empty or has room for the pair under both limits.
CanTake(w) ==
    LET c == call[w]
        r == active[w][c.at]
    IN  /\ c.at <= Len(active[w])
        /\ Len(c.pairs) < maxPairs
        /\ future[r] = "pending"
        /\ Taken(w) < Size(r)
        /\ c.pairs # <<>> => c.tokens + Weights[r][Taken(w) + 1] <= MaxTokens

\* Faulty WithPair: counts pairs from zero.
WithPairFromZero(c, r, n) ==
    [at |-> c.at, count |-> c.count + 1, pairs |-> Append(c.pairs, <<r, n - 1>>),
     tokens |-> c.tokens + Weights[r][n], slices |-> c.slices]

WithPair(c, r, n) ==
    [at |-> c.at, count |-> c.count + 1, pairs |-> Append(c.pairs, <<r, n>>),
     tokens |-> c.tokens + Weights[r][n], slices |-> c.slices]

PackPair(w) ==
    /\ task[w] = "packing" /\ CanTake(w)
    /\ call' = [call EXCEPT ![w] = WithPair(call[w], active[w][call[w].at], Taken(w) + 1)]
    /\ UNCHANGED <<settingVars, worker, task, active, queue, jobVars, future, request,
                   reply, closing>>

\* `first` is the offset at which the predictor's answer is cut for this slice.
WithSlice(c, r) ==
    [at |-> c.at + 1, count |-> 0, pairs |-> c.pairs, tokens |-> c.tokens,
     slices |-> IF c.count = 0 THEN c.slices
                ELSE Append(c.slices, [job |-> r, first |-> Len(c.pairs) - c.count,
                                       count |-> c.count])]

\* The current job contributes no further pair: record its slice, turn to the next.
CloseSlice(w) ==
    /\ task[w] = "packing" /\ call[w].at <= Len(active[w]) /\ ~CanTake(w)
    /\ call' = [call EXCEPT ![w] = WithSlice(call[w], active[w][call[w].at])]
    /\ UNCHANGED <<settingVars, worker, task, active, queue, jobVars, future, request,
                   reply, closing>>

\* All jobs were considered: await the predictor.
IssueCall(w) ==
    /\ task[w] = "packing" /\ call[w].at > Len(active[w])
    /\ task' = [task EXCEPT ![w] = IF call[w].pairs = <<>> THEN "idle" ELSE "inferring"]
    /\ active' = [active EXCEPT ![w] = IF call[w].pairs = <<>> THEN <<>> ELSE @]
    /\ UNCHANGED <<settingVars, worker, call, queue, jobVars, future, request, reply, closing>>

\* Faulty SliceScores: the offset is not advanced from slice to slice.
SliceScoresFromStart(w, s) == [i \in 1..s.count |-> call[w].pairs[i]]

\* Scores of the slice that starts after `first`, cut from the predictor's answer.
SliceScores(w, s) == [i \in 1..s.count |-> call[w].pairs[s.first + i]]

SlicesOf(w, r) == {k \in 1..Len(call[w].slices) : call[w].slices[k].job = r}
Credit(w, r) ==
    IF SlicesOf(w, r) = {} THEN <<>>
    ELSE SliceScores(w, call[w].slices[CHOOSE k \in SlicesOf(w, r) : TRUE])

\* The predictor answers: every slice is credited to its job, complete jobs are
\* resolved, and the jobs still undecided are packed again.
PredictReturns(w) ==
    /\ LoopFree
    /\ task[w] = "inferring"
    /\ scores' = [r \in Requests |-> scores[r] \o Credit(w, r)]
    /\ cursor' = [r \in Requests |-> cursor[r] + Len(Credit(w, r))]
    /\ future' = [r \in Requests |->
           IF SlicesOf(w, r) # {} /\ future[r] = "pending" /\ cursor'[r] = Size(r)
           THEN "result" ELSE future[r]]
    /\ NextRound(w, future')
    /\ UNCHANGED <<settingVars, worker, queue, request, reply, closing>>

\* Faulty PredictFails: does not look whether the future is done.
PredictFailsAll(w) ==
    /\ LoopFree
    /\ task[w] = "inferring"
    /\ future' = [r \in Requests |-> IF r \in Range(active[w]) THEN "exception" ELSE future[r]]
    /\ NextRound(w, future')
    /\ UNCHANGED <<settingVars, worker, queue, jobVars, request, reply, closing>>

\* The predictor raises or answers with a wrong number of scores: every job the
\* worker holds fails, whether or not it had a slice in this call.
PredictFails(w) ==
    /\ LoopFree
    /\ task[w] = "inferring"
    /\ future' = [r \in Requests |->
           IF r \in Range(active[w]) /\ future[r] = "pending" THEN "exception" ELSE future[r]]
    /\ NextRound(w, future')
    /\ UNCHANGED <<settingVars, worker, queue, jobVars, request, reply, closing>>

\* CancelledError ends the task at its await.  It is not an Exception: the
\* futures of the jobs the worker holds are left as they are.
WorkerStops(w) ==
    /\ LoopFree
    /\ task[w] = "cancelling"
    /\ task' = [task EXCEPT ![w] = "stopped"]
    /\ active' = [active EXCEPT ![w] = <<>>]
    /\ call' = [call EXCEPT ![w] = NoCall]
    /\ UNCHANGED <<settingVars, worker, queue, jobVars, future, request, reply, closing>>
-------------------------------------------------------------------------------
(* PATCH /v1/admin/runtime: DynamicBatcher.reconfigure, start and close.   *)

\* Faulty FinishClose: the queue is not drained.
FinishCloseWithoutDrain == worker' = NoWorker /\ UNCHANGED <<queue, future>>

\* The end of close(): forget the worker, cancel what is still queued.
FinishClose ==
    /\ worker' = NoWorker
    /\ queue' = <<>>
    /\ future' = [r \in Requests |->
           IF r \in Range(queue) /\ future[r] = "pending" THEN "cancelled" ELSE future[r]]

Start ==
    /\ worker = NoWorker
    /\ \E w \in Workers : /\ task[w] = "unused"
                          /\ worker' = w
                          /\ task' = [task EXCEPT ![w] = "idle"]
    /\ UNCHANGED <<closing, queue, future>>

\* close() up to `await self._worker`, which does not suspend when the task
\* has already ended.
BeginClose(a) ==
    /\ worker # NoWorker
    /\ \/ /\ task[worker] # "stopped"
          /\ task' = [task EXCEPT ![worker] = "cancelling"]
          /\ closing' = [closing EXCEPT ![a] = worker]
          /\ UNCHANGED <<worker, queue, future>>
       \/ /\ task[worker] = "stopped"
          /\ FinishClose
          /\ UNCHANGED <<task, closing>>

Patch(a) ==
    /\ LoopFree
    /\ closing[a] = NoWorker
    /\ batching' \in BOOLEAN /\ maxPairs' \in PairLimits
    /\ \/ batching' /\ Start
       \/ ~batching' /\ BeginClose(a)
       \/ batching' = (worker # NoWorker) /\ UNCHANGED <<worker, task, closing, queue, future>>
    /\ UNCHANGED <<active, call, jobVars, request, reply>>

\* The awaited worker has ended and the handler resumes.
CloseReturns(a) ==
    /\ LoopFree
    /\ closing[a] # NoWorker /\ task[closing[a]] = "stopped"
    /\ FinishClose
    /\ closing' = [closing EXCEPT ![a] = NoWorker]
    /\ UNCHANGED <<settingVars, workVars, jobVars, request, reply>>
-------------------------------------------------------------------------------
RequestStep(r) == \/ PredictDirectly(r) \/ Reject(r) \/ Enqueue(r)
                  \/ DirectReturns(r) \/ Resume(r) \/ Timeout(r)
Packing(w) == PackPair(w) \/ CloseSlice(w) \/ IssueCall(w)
Predictor(w) == PredictReturns(w) \/ PredictFails(w)
WorkerStep(w) == Collect(w) \/ CloseWindow(w) \/ Packing(w) \/ Predictor(w) \/ WorkerStops(w)

Next == \/ \E r \in Requests : RequestStep(r)
        \/ \E w \in Workers : WorkerStep(w)
        \/ \E a \in Admins : Patch(a) \/ CloseReturns(a)

\* The event loop runs every ready task; timers fire.
LoopFairness ==
    /\ \A r \in Requests : WF_vars(Resume(r))
    /\ \A w \in Workers : /\ WF_vars(Collect(w)) /\ WF_vars(CloseWindow(w))
                          /\ WF_vars(Packing(w)) /\ WF_vars(WorkerStops(w))
    /\ \A a \in Admins : WF_vars(CloseReturns(a))

\* Deadlines expire; the predictor may hang for ever.
Spec == /\ Init /\ [][Next]_vars /\ LoopFairness
        /\ \A r \in Requests : WF_vars(Timeout(r))

\* No deadline ever expires; instead every inference ends.
SpecUntimed == /\ Init /\ [][Next]_vars /\ LoopFairness
               /\ \A w \in Workers : WF_vars(Predictor(w))
-------------------------------------------------------------------------------
CallStates == [at : Nat \ {0}, count : Nat, pairs : Seq(Pairs), tokens : Nat,
               slices : Seq([job : Requests, first : Nat, count : Nat \ {0}])]

\* Every variable ranges over the values the code can hold.
TypeOK ==
    /\ batching \in BOOLEAN
    /\ maxPairs \in PairLimits
    /\ worker \in Workers \cup {NoWorker}
    /\ task \in [Workers -> {"unused", "idle", "collecting", "packing", "inferring",
                             "cancelling", "stopped"}]
    /\ active \in [Workers -> Seq(Requests)]
    /\ call \in [Workers -> CallStates]
    /\ queue \in Seq(Requests)
    /\ cursor \in [Requests -> Nat]
    /\ scores \in [Requests -> Seq(Pairs)]
    /\ future \in [Requests -> {"none", "pending", "result", "exception", "cancelled"}]
    /\ request \in [Requests -> {"new", "direct", "queued", "answered", "failed", "timed_out",
                                 "cancelled", "overloaded", "not_started"}]
    /\ reply \in [Requests -> Seq(Pairs)]
    /\ closing \in [Admins -> Workers \cup {NoWorker}]

-------------------------------------------------------------------------------
\* "Combines pairs from concurrent requests without mixing their results": a
\* request that predict answers got the scores of all its own pairs, in its own
\* order, whatever was packed with them and however they were split over calls.
ResultIsolation == \A r \in Requests : request[r] = "answered" => reply[r] = Own(r)

Running == {"idle", "collecting", "packing", "inferring"}

\* A job is in one place at most: once in the queue, or once with one worker, even
\* while a cancelled worker and its successor overlap.
SingleCustody ==
    /\ IsInjective(queue)
    /\ \A w \in Workers : /\ IsInjective(active[w])
                          /\ Range(queue) \cap Range(active[w]) = {}
    /\ \A v, w \in Workers : v # w => Range(active[v]) \cap Range(active[w]) = {}

\* No job sits in the queue with nobody to come for it: some worker still reads
\* the queue, or a close() is under way that will drain it.
NoStuckQueue ==
    queue # <<>> => \/ \E w \in Workers : task[w] \in Running
                    \/ \E a \in Admins : closing[a] # NoWorker

\* "The lifecycle-managed micro-batcher": with no patch under way, batching on means a
\* running worker for predict to find.  That there is none is an internal error to it
\* ("dynamic batcher is not started"), and it is every request's from then on.
BatchingIsServed ==
    batching /\ (\A a \in Admins : closing[a] = NoWorker)
        => worker # NoWorker /\ task[worker] \in Running

Decided == {"result", "exception", "cancelled"}

\* A future is settled once (asyncio raises InvalidStateError otherwise, which
\* would end the worker), and a decided request never changes its mind.
SettledOnce ==
    [][\A r \in Requests :
         /\ future[r] \in Decided => future'[r] = future[r]
         /\ request[r] \notin {"new", "queued", "direct"} =>
               request'[r] = request[r] /\ reply'[r] = reply[r]]_vars

\* The tokens of pairs add up to MaxTokens at most: total[i] is the sum of the first i.
WithinTokens(pairs) ==
    \E total \in [0..Len(pairs) -> 0..MaxTokens] :
        /\ total[0] = 0
        /\ \A i \in 1..Len(pairs) : total[i] = total[i - 1] + Weights[pairs[i][1]][pairs[i][2]]
Issued(w) == task[w] = "packing" /\ task'[w] = "inferring"

\* Every call of the predictor is within the pair limit in force when it is packed,
\* and within the token limit unless it is a single pair, which cannot be split.
CallWithinCaps ==
    [][\A w \in Workers : Issued(w) =>
         /\ Len(call[w].pairs) \in 1..maxPairs
         /\ Len(call[w].pairs) = 1 \/ WithinTokens(call[w].pairs)]_vars

\* With batching left alone, the worker itself decides every job: none waits for its
\* deadline because of the jobs it is packed with.
EveryJobScored == \A r \in Requests : future[r] = "pending" ~> future[r] # "pending"

\* The batcher implements PairScoring: all the ways predict can fail are refusals.
Status == [r \in Requests |->
             CASE request[r] \in {"queued", "direct"} -> "waiting"
               [] request[r] \in {"new", "answered"}  -> request[r]
               [] OTHER                               -> "refused"]
OwnScores == [r \in Requests |-> Own(r)]
Scoring == INSTANCE PairScoring WITH status <- Status
ImplementsPairScoring == Scoring!Spec
===============================================================================
