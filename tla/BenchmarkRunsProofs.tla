--------------------------- MODULE BenchmarkRunsProofs ---------------------------
(***************************************************************************)
(* For any runs and administrators: no task of a benchmark gets out of     *)
(* reach, the shutdown leaves none behind, and the audit log is true.      *)
(***************************************************************************)
EXTENDS BenchmarkRuns, TLAPS

(* The inductive invariant.                                                *)

Statuses == Settled \cup {"absent", "queued", "running"}
Calls == [awaits : SUBSET Runs, answer : {"none", "deleted", "not_found"}]
Types ==
    /\ status \in [Runs -> Statuses]
    /\ task \in [Runs -> Live \cup {"none", "done"}]
    /\ listed \subseteq Runs /\ tracked \subseteq Runs /\ toClose \subseteq Runs
    /\ call \in [Callers -> Calls]
    /\ phase \in {"up", "closing", "closed"}

\* A deletion awaits one task, which it has cancelled.
CallInv(d) == \A r \in call[d].awaits : call[d].awaits = {r}

\* Who can reach run r: the list, the dictionary of tasks, or who awaits its end.
ReachInv(r) ==
    /\ task[r] \in {"created", "running"} => r \in listed /\ r \in tracked
    /\ task[r] = "cancelling" => \E d \in Callers : r \in call[d].awaits
    /\ r \in listed => r \in tracked \/ \E d \in Callers : r \in call[d].awaits

\* The shutdown begins when no administrator awaits, and has the tracked runs to close.
CloseInv ==
    /\ phase # "up" => tracked \subseteq toClose /\ \A d \in Deleters : call[d].awaits = {}
    /\ phase = "closed" => toClose = {} /\ call[Lifespan].awaits = {}

Reached == (\A d \in Callers : CallInv(d)) /\ (\A r \in Runs : ReachInv(r))
Inv == Types /\ CloseInv /\ Reached
-------------------------------------------------------------------------------
(* Deletions.                                                              *)

\* The end of a deletion.
LEMMA ForgetStep ==
    ASSUME Inv, NEW d \in Callers, NEW r \in Runs, Forget(d, r),
           task[r] \notin {"created", "running"}, task' = task,
           tracked' \in {tracked, tracked \ {r}},
           r \notin tracked' \/ task[r] = "done",
           call[d].awaits \subseteq {r}, task[r] = "cancelling" => call[d].awaits = {},
           status' = status, phase' = phase, toClose' \in {toClose, toClose \ {r}}
    PROVE  Types' /\ Reached'
  <1>1. /\ listed' = listed \ {r}
        /\ \E a \in {"deleted", "not_found"} :
              call' = [call EXCEPT ![d] = [awaits |-> {}, answer |-> a]]
    BY Zenon DEF Forget
  <1>2. call' \in [Callers -> Calls]
    BY <1>1 DEF Inv, Types, Calls
  <1>3. /\ call'[d].awaits = {}
        /\ \A x \in Callers : x # d => call'[x].awaits = call[x].awaits
    BY <1>1 DEF Inv, Types
  <1>4. \A x \in Callers : CallInv(x)'
    BY <1>3 DEF Inv, Reached, CallInv
  <1>5. \A x \in Runs : ReachInv(x)'
    BY <1>1, <1>3 DEF Inv, Reached, ReachInv, Types
  <1> QED BY <1>1, <1>2, <1>4, <1>5 DEF Inv, Types, Reached

\* The beginning of a deletion, which may be all of it.
LEMMA DeleteStep ==
    ASSUME Inv, NEW d \in Callers, NEW r \in Runs, Delete(d, r), call[d].awaits = {},
           phase' = phase, toClose' \in {toClose, toClose \ {r}}
    PROVE  Types' /\ Reached'
  <1>1. CASE r \in tracked /\ task[r] \in Live
    <2>1. /\ tracked' = tracked \ {r} /\ listed' = listed /\ status' = status
          /\ task' = [task EXCEPT ![r] = "cancelling"]
          /\ call' = [call EXCEPT ![d].awaits = {r}]
      BY <1>1, Zenon DEF Delete
    <2>2. call' \in [Callers -> Calls] /\ task' \in [Runs -> Live \cup {"none", "done"}]
      BY <2>1 DEF Inv, Types, Calls, Live
    <2>3. /\ call'[d].awaits = {r}
          /\ \A x \in Callers : x # d => call'[x].awaits = call[x].awaits
      BY <2>1 DEF Inv, Types, Calls
    <2>4. /\ task'[r] = "cancelling"
          /\ \A x \in Runs : x # r => task'[x] = task[x]
      BY <2>1 DEF Inv, Types
    <2>5. \A x \in Callers : CallInv(x)'
      BY <2>3 DEF Inv, Reached, CallInv
    <2>6. \A x \in Runs : ReachInv(x)'
      BY <2>1, <2>3, <2>4 DEF Inv, Reached, ReachInv
    <2> QED BY <2>1, <2>2, <2>5, <2>6 DEF Inv, Types, Reached
  <1>2. CASE ~(r \in tracked /\ task[r] \in Live)
    <2>1. /\ tracked' = tracked \ {r} /\ task' = task /\ status' = status
          /\ Forget(d, r)
      BY <1>2, Zenon DEF Delete
    <2>2. task[r] \notin {"created", "running"}
      BY <1>2 DEF Inv, Reached, ReachInv, Live
    <2> QED BY <2>1, <2>2, ForgetStep
  <1> QED BY <1>1, <1>2

LEMMA ResumeStep ==
    ASSUME Inv, NEW d \in Callers, DeleteResumes(d)
    PROVE  Types' /\ Reached'
  <1>1. PICK r \in call[d].awaits : task[r] = "done" /\ Forget(d, r)
    BY DEF DeleteResumes
  <1>2. r \in Runs /\ call[d].awaits = {r}
    BY DEF Inv, Types, Calls, Reached, CallInv
  <1>3. /\ tracked' = tracked /\ task' = task /\ status' = status /\ phase' = phase
        /\ toClose' = toClose
    BY Zenon DEF DeleteResumes, service
  <1> QED BY <1>1, <1>2, <1>3, ForgetStep
-------------------------------------------------------------------------------
(* The task of a run, and the shutdown.                                    *)

LEMMA TaskStep ==
    ASSUME Inv, NEW r \in Runs, Create(r) \/ Execute(r)
    PROVE  Types' /\ Reached'
  <1> USE DEF Inv, Types, Reached, CallInv, ReachInv, service, Live, Statuses, Settled
  <1>1. CASE Create(r)
    BY <1>1 DEF Create
  <1>2. CASE TaskBegins(r)
    BY <1>2 DEF TaskBegins
  <1>3. CASE TaskEnds(r)
    BY <1>3 DEF TaskEnds
  <1>4. CASE TaskCancelled(r)
    BY <1>4 DEF TaskCancelled
  <1> QED BY <1>1, <1>2, <1>3, <1>4 DEF Execute

LEMMA CloseStep ==
    ASSUME Inv, [Next]_vars
    PROVE  CloseInv'
  <1> USE DEF Inv, Types, CloseInv, service, records
  <1>1. ASSUME NEW r \in Runs, Create(r) \/ Execute(r) \/ Baseline(r) PROVE CloseInv'
    BY <1>1 DEF Create, Execute, TaskBegins, TaskEnds, TaskCancelled, Baseline
  <1>2. ASSUME NEW r \in Runs, CloseNext(r) PROVE CloseInv'
    <2>1. /\ phase = "closing" /\ phase' = "closing" /\ tracked' = tracked \ {r}
          /\ toClose' = toClose \ {r}
      BY <1>2 DEF CloseNext, Delete
    <2>2. \A d \in Deleters : call'[d].awaits = {}
      <3>1. \A d \in Callers : d # Lifespan => call'[d] = call[d]
        BY <1>2 DEF CloseNext, Delete, Forget, Calls
      <3> QED BY <2>1, <3>1, RunsAssumption DEF Callers
    <2> QED BY <2>1, <2>2
  <1>3. ASSUME NEW d \in Deleters, NEW r \in Runs, DeleteBenchmark(d, r) PROVE CloseInv'
    BY <1>3 DEF DeleteBenchmark
  <1>4. ASSUME NEW d \in Callers, DeleteResumes(d) PROVE CloseInv'
    <2>1. /\ \A x \in Callers : x # d => call'[x] = call[x]
          /\ call[d].awaits # {} /\ call'[d].awaits = {}
      BY <1>4 DEF DeleteResumes, Forget, Calls
    <2>2. tracked' = tracked /\ toClose' = toClose /\ phase' = phase
      BY <1>4 DEF DeleteResumes
    <2> QED BY <2>1, <2>2 DEF Callers
  <1>5. CASE BeginClose
    BY <1>5 DEF BeginClose
  <1>6. CASE Closed
    BY <1>6 DEF Closed
  <1>7. CASE UNCHANGED vars
    BY <1>7 DEF vars
  <1> QED BY <1>1, <1>2, <1>3, <1>4, <1>5, <1>6, <1>7, Zenon DEF Next

LEMMA InvInit == Init => Inv
  BY DEF Init, Inv, Types, CloseInv, Reached, CallInv, ReachInv, Statuses, Calls, Live

LEMMA InvStep == Inv /\ [Next]_vars => Inv'
  <1> SUFFICES ASSUME Inv, [Next]_vars PROVE Types' /\ Reached'
    BY CloseStep, Zenon DEF Inv
  <1>1. ASSUME NEW r \in Runs, CloseNext(r) PROVE Types' /\ Reached'
    <2>1. /\ Delete(Lifespan, r) /\ call[Lifespan].awaits = {} /\ Lifespan \in Callers
          /\ phase' = phase /\ toClose' = toClose \ {r}
      BY <1>1 DEF CloseNext, Callers
    <2> QED BY <2>1, DeleteStep
  <1>2. ASSUME NEW d \in Deleters, NEW r \in Runs, DeleteBenchmark(d, r)
        PROVE  Types' /\ Reached'
    <2>1. /\ Delete(d, r) /\ call[d].awaits = {} /\ d \in Callers
          /\ phase' = phase /\ toClose' = toClose
      BY <1>2 DEF DeleteBenchmark, Callers, service
    <2> QED BY <2>1, DeleteStep
  <1>3. ASSUME NEW r \in Runs, Baseline(r) PROVE Types' /\ Reached'
    BY <1>3 DEF Baseline, Inv, Types, Reached, CallInv, ReachInv, service
  <1>4. CASE BeginClose \/ Closed \/ UNCHANGED vars
    BY <1>4 DEF BeginClose, Closed, vars, Inv, Types, Reached, CallInv, ReachInv, service,
                records
  <1> QED BY <1>1, <1>2, <1>3, <1>4, TaskStep, ResumeStep, Zenon DEF Next

LEMMA Invariance == Spec => []Inv
  BY InvInit, InvStep, PTL DEF Spec

\* A live task is listed, or somebody who cancelled it awaits its end
\* (benchmark.py:64-87).
THEOREM TasksStayInReach == Spec => []NoOrphanTask
  <1>1. Inv => NoOrphanTask
    BY DEF Inv, Types, Reached, ReachInv, NoOrphanTask, Live
  <1> QED BY <1>1, Invariance, PTL

\* The shutdown leaves no task and no listed run behind (benchmark.py:89-91).
THEOREM ShutdownIsQuiet == Spec => []ClosedIsQuiet
  <1>1. Inv => ClosedIsQuiet
    BY DEF Inv, Types, CloseInv, Reached, ReachInv, ClosedIsQuiet, Live, Callers
  <1> QED BY <1>1, Invariance, PTL
-------------------------------------------------------------------------------
(* The audit log.                                                          *)

\* What is to come of a run: one that ends had begun, one that begins was queued.
LifeInv(r) ==
    /\ task[r] = "created" => status[r] = "queued"
    /\ task[r] = "running" => status[r] = "running"
    /\ task[r] = "cancelling" => status[r] \in {"queued", "running"}
    /\ r \in listed => status[r] # "absent"
Events == {"created", "completed", "failed", "deleted"}
LogInv == /\ audit \in [Runs -> Seq(Events)] /\ baseline \subseteq Runs
          /\ \A r \in Runs : LifeInv(r)
          /\ AuditTellsTheLife

LEMMA Said == \A s \in Seq(Events), e \in Events : Append(s, e) \in Seq(Events)
  OBVIOUS

LEMMA SaidFirst == \A e \in Events : Append(<<>>, e) = <<e>>
  OBVIOUS

LEMMA LogForget ==
    ASSUME Inv, LogInv, NEW d \in Callers, NEW r \in Runs, Forget(d, r),
           status' = status, baseline' = baseline,
           task' = task, task[r] \notin {"created", "running"}
    PROVE  LogInv'
  <1>1. /\ listed' = listed \ {r}
        /\ audit' = IF r \in listed THEN [audit EXCEPT ![r] = Append(@, "deleted")] ELSE audit
    BY Zenon DEF Forget, Says
  <1>2. audit' \in [Runs -> Seq(Events)]
    BY <1>1, Said DEF LogInv, Events
  <1>3. \A x \in Runs : LifeInv(x)'
    BY <1>1 DEF LogInv, LifeInv
  <1>4. AuditTellsTheLife'
    BY <1>1 DEF LogInv, LifeInv, AuditTellsTheLife, Life, Ended
  <1> QED BY <1>2, <1>3, <1>4 DEF LogInv

LEMMA LogDelete ==
    ASSUME Inv, LogInv, NEW d \in Callers, NEW r \in Runs, Delete(d, r)
    PROVE  LogInv'
  <1>1. CASE r \in tracked /\ task[r] \in Live
    <2>1. /\ listed' = listed /\ status' = status /\ audit' = audit /\ baseline' = baseline
          /\ task' = [task EXCEPT ![r] = "cancelling"]
      BY <1>1, Zenon DEF Delete
    <2> QED BY <1>1, <2>1 DEF LogInv, LifeInv, AuditTellsTheLife, Life, Ended, Inv, Types, Live
  <1>2. CASE ~(r \in tracked /\ task[r] \in Live)
    <2>1. /\ task' = task /\ status' = status /\ baseline' = baseline
          /\ Forget(d, r)
      BY <1>2, Zenon DEF Delete
    <2>2. task[r] \notin {"created", "running"}
      BY <1>2 DEF Inv, Reached, ReachInv, Live
    <2> QED BY <2>1, <2>2, LogForget
  <1> QED BY <1>1, <1>2

LEMMA LogTask ==
    ASSUME Inv, LogInv, NEW r \in Runs, Create(r) \/ Execute(r)
    PROVE  LogInv'
  <1> USE DEF Inv, LogInv, LifeInv, AuditTellsTheLife, Life, Ended, Types, Reached, ReachInv
  <1>1. CASE Create(r)
    <2>1. /\ status[r] = "absent" /\ status' = [status EXCEPT ![r] = "queued"]
          /\ task' = [task EXCEPT ![r] = "created"] /\ listed' = listed \cup {r}
          /\ audit' = [audit EXCEPT ![r] = Append(@, "created")] /\ baseline' = baseline
      BY <1>1, Zenon DEF Create, Says
    <2>2. audit[r] = <<>>
      BY <2>1
    <2>3. audit'[r] = Append(audit[r], "created")
      BY <2>1
    <2>4. audit'[r] = <<"created">>
      BY <2>2, <2>3, SaidFirst DEF Events
    <2>5. audit' \in [Runs -> Seq(Events)]
      BY <2>1, Said DEF Events
    <2>6. AuditTellsTheLife'
      BY <2>1, <2>4
    <2>7. \A x \in Runs : LifeInv(x)'
      BY <2>1
    <2> QED BY <2>1, <2>5, <2>6, <2>7
  <1>2. CASE TaskBegins(r)
    BY <1>2 DEF TaskBegins
  <1>3. CASE TaskEnds(r)
    <2>1. PICK outcome \in {"completed", "failed"} :
             /\ status' = [status EXCEPT ![r] = outcome]
             /\ audit' = [audit EXCEPT ![r] = Append(@, outcome)]
      BY <1>3, Zenon DEF TaskEnds, Says
    <2>2. /\ task[r] = "running" /\ task' = [task EXCEPT ![r] = "done"]
          /\ listed' = listed /\ baseline' = baseline
      BY <1>3, Zenon DEF TaskEnds
    <2>3. audit' \in [Runs -> Seq(Events)]
      BY <2>1, Said DEF Events
    <2>4. AuditTellsTheLife'
      BY <2>1, <2>2
    <2>5. \A x \in Runs : LifeInv(x)'
      BY <2>1, <2>2
    <2> QED BY <2>2, <2>3, <2>4, <2>5
  <1>4. CASE TaskCancelled(r)
    BY <1>4 DEF TaskCancelled, Live
  <1> QED BY <1>1, <1>2, <1>3, <1>4 DEF Execute

LEMMA LogStep == Inv /\ LogInv /\ [Next]_vars => LogInv'
  <1> SUFFICES ASSUME Inv, LogInv, [Next]_vars PROVE LogInv'
    OBVIOUS
  <1>1. ASSUME NEW r \in Runs, CloseNext(r) PROVE LogInv'
    <2>1. Delete(Lifespan, r) /\ Lifespan \in Callers
      BY <1>1 DEF CloseNext, Callers
    <2> QED BY <2>1, LogDelete
  <1>2. ASSUME NEW d \in Deleters, NEW r \in Runs, DeleteBenchmark(d, r) PROVE LogInv'
    <2>1. Delete(d, r) /\ d \in Callers
      BY <1>2 DEF DeleteBenchmark, Callers
    <2> QED BY <2>1, LogDelete
  <1>3. ASSUME NEW d \in Callers, DeleteResumes(d) PROVE LogInv'
    <2>1. PICK r \in call[d].awaits : task[r] = "done" /\ Forget(d, r)
      BY <1>3 DEF DeleteResumes
    <2>2. r \in Runs
      BY DEF Inv, Types, Calls
    <2>3. task' = task /\ status' = status /\ baseline' = baseline
      BY <1>3, Zenon DEF DeleteResumes
    <2> QED BY <2>1, <2>2, <2>3, LogForget
  <1>4. ASSUME NEW r \in Runs, Baseline(r) PROVE LogInv'
    BY <1>4 DEF Baseline, LogInv, LifeInv, AuditTellsTheLife, Life, Ended
  <1>5. CASE BeginClose \/ Closed \/ UNCHANGED vars
    BY <1>5 DEF BeginClose, Closed, vars, LogInv, LifeInv, AuditTellsTheLife, Life, Ended,
                records
  <1> QED BY <1>1, <1>2, <1>3, <1>4, <1>5, LogTask, Zenon DEF Next

LEMMA LogInvariance == Spec => [](Inv /\ LogInv)
  <1>1. Init => LogInv
    BY DEF Init, LogInv, LifeInv, AuditTellsTheLife, Events
  <1> QED BY <1>1, InvInit, InvStep, LogStep, PTL DEF Spec

\* Types of the state (benchmark.py:18-91, admin.py's list of runs).
THEOREM BenchmarkTypes == Spec => []TypeOK
  <1>1. Inv /\ LogInv => TypeOK
    BY DEF Inv, Types, Statuses, Calls, LogInv, Events, TypeOK
  <1> QED BY <1>1, LogInvariance, PTL

\* The audit log tells each run's life once and in order, however deletions overlap
\* (benchmark.py:64-87, main.py's handlers).
THEOREM AuditIsTrue == Spec => []AuditTellsTheLife
  <1>1. LogInv => AuditTellsTheLife
    BY DEF LogInv
  <1> QED BY <1>1, LogInvariance, PTL
===============================================================================
