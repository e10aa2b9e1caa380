----------------------------- MODULE BenchmarkRuns -----------------------------
(***************************************************************************)
(* BenchmarkRunner (src/reranker_service/benchmark.py) behind the handlers *)
(* of main.py: benchmarks run as background tasks of the event loop while  *)
(* administrators create, delete and compare them, and the service shuts   *)
(* down.  The shutdown deletes what is left; it begins when the server has *)
(* finished all requests.                                                  *)
(***************************************************************************)
EXTENDS Naturals, Sequences, FiniteSets

CONSTANTS Runs,      \* benchmarks that may be created
          Deleters,  \* administrators who delete, each one benchmark at a time
          Lifespan   \* the shutdown, which deletes as well

ASSUME RunsAssumption == Lifespan \notin Deleters

VARIABLES
    status,    \* of each run: the field of its record, "absent" before there is one
    task,      \* of each run: its asyncio task
    listed,    \* admin.benchmarks
    tracked,   \* BenchmarkRunner.tasks
    baseline,  \* runs whose record has baseline set
    audit,     \* all that was ever recorded of each run, but for baselines: the deque
               \* itself forgets what is older than its newest 1000 records
    call,      \* where each delete() is: the run it awaits, and its last answer
    phase,     \* of the service
    toClose    \* runs close() has still to delete

records == <<status, listed, baseline, audit>>
service == <<phase, toClose>>
vars == <<records, task, tracked, call, service>>

Callers == Deleters \cup {Lifespan}
Live == {"created", "running", "cancelling"}

Says(r, event) == audit' = [audit EXCEPT ![r] = Append(@, event)]
-------------------------------------------------------------------------------
Init == /\ status = [r \in Runs |-> "absent"]
        /\ task = [r \in Runs |-> "none"]
        /\ listed = {} /\ tracked = {} /\ baseline = {}
        /\ audit = [r \in Runs |-> <<>>]
        /\ call = [d \in Callers |-> [awaits |-> {}, answer |-> "none"]]
        /\ phase = "up" /\ toClose = {}

\* The model is ready: the run is recorded and its task scheduled.
Create(r) ==
    /\ phase = "up" /\ status[r] = "absent"
    /\ status' = [status EXCEPT ![r] = "queued"]
    /\ listed' = listed \cup {r}
    /\ tracked' = tracked \cup {r}
    /\ task' = [task EXCEPT ![r] = "created"]
    /\ Says(r, "created")
    /\ UNCHANGED <<baseline, call, service>>

\* _execute begins with its run, which it must find.
TaskBegins(r) ==
    /\ task[r] = "created" /\ r \in listed
    /\ status' = [status EXCEPT ![r] = "running"]
    /\ task' = [task EXCEPT ![r] = "running"]
    /\ UNCHANGED <<listed, baseline, audit, tracked, call, service>>

\* Every rerank returned, or one of them raised.
TaskEnds(r) ==
    /\ task[r] = "running"
    /\ \E outcome \in {"completed", "failed"} :
          /\ status' = [status EXCEPT ![r] = outcome]
          /\ Says(r, outcome)
    /\ task' = [task EXCEPT ![r] = "done"]
    /\ UNCHANGED <<listed, baseline, tracked, call, service>>

\* CancelledError is raised where the task awaits; a task that had not begun never does.
TaskCancelled(r) ==
    /\ task[r] = "cancelling"
    /\ status' = [status EXCEPT ![r] = IF @ = "running" THEN "cancelled" ELSE @]
    /\ task' = [task EXCEPT ![r] = "done"]
    /\ UNCHANGED <<listed, baseline, audit, tracked, call, service>>

\* Faulty Forget: the deletion is told although another one was faster.
ForgetTwice(d, r) ==
    /\ listed' = listed \ {r}
    /\ Says(r, "deleted")
    /\ call' = [call EXCEPT ![d] = [awaits |-> {}, answer |-> "deleted"]]

\* The end of delete(): it answers whether it was the one that took the run.
Forget(d, r) ==
    /\ listed' = listed \ {r}
    /\ IF r \in listed THEN Says(r, "deleted") ELSE UNCHANGED audit
    /\ call' = [call EXCEPT ![d] = [awaits |-> {},
                                    answer |-> IF r \in listed THEN "deleted" ELSE "not_found"]]

\* Faulty Delete: the run is taken first, and its task cancelled after.
DeleteRunFirst(d, r) ==
    /\ tracked' = tracked \ {r}
    /\ Forget(d, r)
    /\ task' = [task EXCEPT ![r] = IF @ \in {"created", "running"} THEN "cancelling" ELSE @]
    /\ UNCHANGED <<status, baseline>>

\* Faulty Delete: a task that has not begun is left alone.
DeleteRunning(d, r) ==
    /\ tracked' = tracked \ {r}
    /\ IF r \in tracked /\ task[r] = "running"
       THEN /\ task' = [task EXCEPT ![r] = "cancelling"]
            /\ call' = [call EXCEPT ![d].awaits = {r}]
            /\ UNCHANGED <<listed, audit>>
       ELSE Forget(d, r) /\ UNCHANGED task
    /\ UNCHANGED <<status, baseline>>

\* delete() up to its await: only the caller that takes a live task cancels it.
Delete(d, r) ==
    /\ tracked' = tracked \ {r}
    /\ IF r \in tracked /\ task[r] \in Live
       THEN /\ task' = [task EXCEPT ![r] = "cancelling"]
            /\ call' = [call EXCEPT ![d].awaits = {r}]
            /\ UNCHANGED <<listed, audit>>
       ELSE Forget(d, r) /\ UNCHANGED task
    /\ UNCHANGED <<status, baseline>>

DeleteBenchmark(d, r) ==
    /\ phase = "up" /\ call[d].awaits = {}
    /\ Delete(d, r)
    /\ UNCHANGED service

\* The awaited task has ended.
DeleteResumes(d) ==
    /\ \E r \in call[d].awaits : task[r] = "done" /\ Forget(d, r)
    /\ UNCHANGED <<status, baseline, task, tracked, service>>

\* The run becomes the only baseline of those listed.
Baseline(r) ==
    /\ phase = "up" /\ r \in listed /\ status[r] = "completed"
    /\ baseline' = (baseline \ listed) \cup {r}
    /\ UNCHANGED <<status, listed, audit, task, tracked, call, service>>

\* Faulty BeginClose: only runs that have not ended are closed.
BeginCloseRunning ==
    /\ phase = "up" /\ \A d \in Deleters : call[d].awaits = {}
    /\ phase' = "closing" /\ toClose' = {r \in tracked : task[r] = "running"}
    /\ UNCHANGED <<records, task, tracked, call>>

\* close() takes the list of tasks there are.
BeginClose ==
    /\ phase = "up" /\ \A d \in Deleters : call[d].awaits = {}
    /\ phase' = "closing" /\ toClose' = tracked
    /\ UNCHANGED <<records, task, tracked, call>>

CloseNext(r) ==
    /\ phase = "closing" /\ r \in toClose /\ call[Lifespan].awaits = {}
    /\ Delete(Lifespan, r)
    /\ toClose' = toClose \ {r}
    /\ UNCHANGED phase

Closed ==
    /\ phase = "closing" /\ toClose = {} /\ call[Lifespan].awaits = {}
    /\ phase' = "closed"
    /\ UNCHANGED <<records, task, tracked, call, toClose>>

Execute(r) == TaskBegins(r) \/ TaskEnds(r) \/ TaskCancelled(r)

Next == \/ \E r \in Runs : \/ Create(r) \/ Execute(r) \/ Baseline(r) \/ CloseNext(r)
                           \/ \E d \in Deleters : DeleteBenchmark(d, r)
        \/ \E d \in Callers : DeleteResumes(d)
        \/ BeginClose \/ Closed

\* The event loop runs what is ready, and every rerank of a benchmark is decided.
Fairness == /\ \A r \in Runs : WF_vars(Execute(r)) /\ WF_vars(CloseNext(r))
            /\ \A d \in Callers : WF_vars(DeleteResumes(d))
            /\ WF_vars(Closed)

Spec == Init /\ [][Next]_vars /\ Fairness
-------------------------------------------------------------------------------
Settled == {"completed", "failed", "cancelled"}

\* Every variable ranges over the values the code can hold.
TypeOK ==
    /\ status \in [Runs -> Settled \cup {"absent", "queued", "running"}]
    /\ task \in [Runs -> Live \cup {"none", "done"}]
    /\ listed \subseteq Runs /\ tracked \subseteq Runs /\ baseline \subseteq Runs
    /\ audit \in [Runs -> Seq({"created", "completed", "failed", "deleted"})]
    /\ call \in [Callers -> [awaits : SUBSET Runs, answer : {"none", "deleted", "not_found"}]]
    /\ phase \in {"up", "closing", "closed"} /\ toClose \subseteq Runs

\* No benchmark runs on out of reach: a live task is listed and can be deleted, or
\* somebody who cancelled it awaits its end; and _execute finds its run in the list.
NoOrphanTask ==
    \A r \in Runs : task[r] \in Live =>
        \/ task[r] # "cancelling" /\ r \in listed /\ r \in tracked
        \/ task[r] = "cancelling" /\ \E d \in Callers : r \in call[d].awaits

\* The life of a run, as far as its status and the list tell it.
Ended(r) == IF status[r] \in {"completed", "failed"} THEN Append(<<"created">>, status[r])
            ELSE <<"created">>
Life(r) == IF r \in listed THEN Ended(r) ELSE Append(Ended(r), "deleted")

\* However deletions of one run overlap, the audit log tells its life in order, each
\* event once and nothing after its deletion, and agrees with the list and the status.
AuditTellsTheLife ==
    \A r \in Runs : audit[r] = IF status[r] = "absent" THEN <<>> ELSE Life(r)

\* close() leaves no task behind for the teardown of the batcher, the cache and the
\* model that follows, and no run listed.
ClosedIsQuiet ==
    phase = "closed" => listed = {} /\ \A r \in Runs : task[r] \notin Live

\* Every deletion is answered, every benchmark comes to an end, and so does the
\* shutdown, whatever it finds running.
EverythingEnds ==
    /\ \A d \in Callers : call[d].awaits # {} ~> call[d].awaits = {}
    /\ \A r \in Runs : task[r] \in Live ~> task[r] \notin Live
    /\ phase = "closing" ~> phase = "closed"
===============================================================================
