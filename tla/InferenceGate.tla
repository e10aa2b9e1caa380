----------------------------- MODULE InferenceGate -----------------------------
(***************************************************************************)
(* How ModelRuntime (src/reranker_service/runtime.py) bounds the           *)
(* inferences in progress: predict enters an asyncio.Semaphore, then runs  *)
(* the backend in a thread of a fixed pool.  The semaphore is replaced by  *)
(* a new one whenever the active provider is synchronised, which every     *)
(* predict does when it returns, and whenever an administrator             *)
(* reconfigures the runtime; callers stay with the semaphore they entered. *)
(*                                                                         *)
(* A gate is one semaphore object: free permits and FIFO waiters.  A gate  *)
(* nobody holds or waits for and that is not the current one is garbage,   *)
(* and its name is used again for the next one created.                    *)
(***************************************************************************)
EXTENDS Integers, Sequences, FiniteSets

CONSTANTS Callers,    \* tasks that call predict
          Gates,      \* names of semaphore objects
          Limits,     \* values an administrator gives settings.max_concurrency
          Provider,   \* Provider[d]: settings.gpu_/cpu_max_concurrency
          PoolSize,   \* max_workers of the executor, fixed at construction
          NoGate      \* not a gate: a caller that has entered none yet

ASSUME GateAssumption ==
    /\ Limits \subseteq Nat \ {0} /\ Limits # {}
    /\ Provider \in [{"cuda", "cpu"} -> Nat \ {0}]
    /\ PoolSize \in Nat \ {0} /\ \A d \in {"cuda", "cpu"} : Provider[d] <= PoolSize
    /\ NoGate \notin Gates
    /\ IsFiniteSet(Callers) /\ IsFiniteSet(Gates) /\ Cardinality(Gates) > Cardinality(Callers)

VARIABLES
    limit,     \* settings.max_concurrency
    device,    \* ModelRuntime.device
    provider,  \* active_provider in the loaded model's metadata
    gate,      \* ModelRuntime._semaphore
    size,      \* permits each gate was created with
    free,      \* permits of each gate that are free
    waiters,   \* callers suspended in each gate's acquire
    caller,    \* where each caller is in predict
    entered,   \* the gate it entered
    backlog,   \* work items the executor has not started
    threads    \* callers whose inference occupies a thread

gateVars == <<gate, size, free, waiters>>
poolVars == <<backlog, threads>>
vars == <<limit, device, provider, gateVars, caller, entered, poolVars>>

\* States of a caller that has a permit of the gate it entered.
Holding == {"granted", "submitted", "returned", "raised"}
Holders(g) == {c \in Callers : caller[c] \in Holding /\ entered[c] = g}
InUse(g) == \E c \in Callers : entered[c] = g
-------------------------------------------------------------------------------
Effective(l, d) == IF l <= Provider[d] THEN l ELSE Provider[d]

Init == /\ limit \in Limits /\ limit <= PoolSize
        /\ device \in {"cuda", "cpu"}
        /\ provider = device
        /\ gate \in Gates
        /\ size = [g \in Gates |-> Effective(limit, device)]
        /\ free = size
        /\ waiters = [g \in Gates |-> <<>>]
        /\ caller = [c \in Callers |-> "idle"]
        /\ entered = [c \in Callers |-> NoGate]
        /\ backlog = <<>>
        /\ threads = {}

\* A name for the next semaphore object; which one is immaterial.
Fresh == CHOOSE g \in Gates : ~InUse(g)

\* _configure_concurrency: a fresh semaphore, whatever the old one's state.
NewGate(l, d) ==
    /\ gate' = Fresh
    /\ size' = [size EXCEPT ![Fresh] = Effective(l, d)]
    /\ free' = [free EXCEPT ![Fresh] = Effective(l, d)]
    /\ waiters' = [waiters EXCEPT ![Fresh] = <<>>]

\* The first k waiters of gate g get a permit each; caller c moves to state s.
HandOut(g, f, w, k, c, s) ==
    /\ free' = [f EXCEPT ![g] = @ - k]
    /\ waiters' = [w EXCEPT ![g] = SubSeq(@, k + 1, Len(@))]
    /\ caller' = [x \in Callers |->
                    IF x = c THEN s
                    ELSE IF \E i \in 1..k : w[g][i] = x THEN "granted" ELSE caller[x]]

\* The line without c, which is in it at most once.
Without(s, c) ==
    LET at == CHOOSE i \in DOMAIN s : s[i] = c
    IN IF c \in {s[i] : i \in DOMAIN s}
       THEN SubSeq(s, 1, at - 1) \o SubSeq(s, at + 1, Len(s))
       ELSE s

\* Semaphore.release: the permit goes to the first waiter, or becomes free.
Release(g, f, w, c, s) ==
    HandOut(g, [f EXCEPT ![g] = @ + 1], w, IF w[g] = <<>> THEN 0 ELSE 1, c, s)

\* Whoever stops waiting in acquire wakes as many waiters as permits are free.
WakeAll(g, f, w, c, s) ==
    HandOut(g, f, w, IF f[g] < Len(w[g]) THEN f[g] ELSE Len(w[g]), c, s)
-------------------------------------------------------------------------------
\* Not Semaphore.locked(): a permit is free, and nobody is in line, the callers that
\* were handed a permit and have not resumed included.
Available(g) == /\ free[g] > 0 /\ waiters[g] = <<>>
                /\ \A c \in Callers : entered[c] = g => caller[c] # "granted"

\* predict up to the semaphore: enter at once, or wait in line.
Enter(c) ==
    /\ caller[c] = "idle"
    /\ entered' = [entered EXCEPT ![c] = gate]
    /\ \/ /\ Available(gate)
          /\ free' = [free EXCEPT ![gate] = @ - 1]
          /\ caller' = [caller EXCEPT ![c] = "submitted"]
          /\ backlog' = Append(backlog, c)
          /\ UNCHANGED waiters
       \/ /\ ~Available(gate)
          /\ waiters' = [waiters EXCEPT ![gate] = Append(@, c)]
          /\ caller' = [caller EXCEPT ![c] = "waiting"]
          /\ UNCHANGED <<free, backlog>>
    /\ UNCHANGED <<limit, device, provider, gate, size, threads>>

\* A waiter that was handed a permit resumes and submits its work.
Submit(c) ==
    /\ caller[c] = "granted"
    /\ WakeAll(entered[c], free, waiters, c, "submitted")
    /\ backlog' = Append(backlog, c)
    /\ UNCHANGED <<limit, device, provider, gate, size, entered, threads>>

\* A pool thread takes the oldest work item.
ThreadStarts ==
    /\ backlog # <<>> /\ Cardinality(threads) < PoolSize
    /\ threads' = threads \cup {Head(backlog)}
    /\ backlog' = Tail(backlog)
    /\ UNCHANGED <<limit, device, provider, gateVars, caller, entered>>

\* backend.rerank ends in its thread.  It may have fallen back from CUDA to CPU.
\* The result of an abandoned inference goes nowhere.
ThreadEnds(c) ==
    /\ c \in threads
    /\ threads' = threads \ {c}
    /\ provider' \in {provider, "cpu"}
    /\ \/ caller[c] = "submitted"
          /\ \E s \in {"returned", "raised"} : caller' = [caller EXCEPT ![c] = s]
       \/ caller[c] = "abandoned" /\ caller' = [caller EXCEPT ![c] = "idle"]
    /\ UNCHANGED <<limit, device, gateVars, entered, backlog>>

\* The coroutine resumes with a result: _sync_active_backend_state puts a new gate
\* in place, then `async with` releases the one that was entered.
Return(c) ==
    /\ caller[c] = "returned"
    /\ device' = provider
    /\ gate' = Fresh
    /\ size' = [size EXCEPT ![Fresh] = Effective(limit, provider)]
    /\ Release(entered[c], [free EXCEPT ![Fresh] = Effective(limit, provider)],
               [waiters EXCEPT ![Fresh] = <<>>], c, "idle")
    /\ entered' = [entered EXCEPT ![c] = NoGate]
    /\ UNCHANGED <<limit, provider, poolVars>>

\* Faulty Raise: the permit is not released on an exception.
RaiseKeepsPermit(c) ==
    /\ caller[c] = "raised"
    /\ caller' = [caller EXCEPT ![c] = "idle"]
    /\ entered' = [entered EXCEPT ![c] = NoGate]
    /\ UNCHANGED <<limit, device, provider, gateVars, poolVars>>

\* The coroutine resumes with an exception: nothing is synchronised.
Raise(c) ==
    /\ caller[c] = "raised"
    /\ Release(entered[c], free, waiters, c, "idle")
    /\ entered' = [entered EXCEPT ![c] = NoGate]
    /\ UNCHANGED <<limit, device, provider, gate, size, poolVars>>

\* Faulty Cancel: a waiter that was just handed a permit does not give it back.
CancelGranted(c) ==
    /\ caller[c] \in {"waiting", "granted"}
    /\ waiters' = [waiters EXCEPT ![entered[c]] = Without(@, c)]
    /\ caller' = [caller EXCEPT ![c] = "idle"]
    /\ entered' = [entered EXCEPT ![c] = NoGate]
    /\ UNCHANGED <<limit, device, provider, gate, size, free, poolVars>>

\* The awaiting task is cancelled (deadline, disconnection, close of the batcher).
\* In line: the waiter is removed.  Handed a permit: it is put back.  In the body: the
\* permit is released and a work item not started is dropped, but a running thread
\* goes on without its caller.
Cancel(c) ==
    LET g == entered[c]
        without == [waiters EXCEPT ![g] = Without(@, c)]
    IN
    /\ \/ caller[c] = "waiting" /\ WakeAll(g, free, without, c, "idle")
       \/ caller[c] = "granted" /\ WakeAll(g, [free EXCEPT ![g] = @ + 1], waiters, c, "idle")
       \/ /\ caller[c] \in {"submitted", "returned", "raised"}
          /\ Release(g, free, waiters, c, IF c \in threads THEN "abandoned" ELSE "idle")
    /\ backlog' = Without(backlog, c)
    /\ entered' = [entered EXCEPT ![c] = NoGate]
    /\ UNCHANGED <<limit, device, provider, gate, size, threads>>

\* ModelRuntime.reconfigure (PATCH /v1/admin/runtime).
Reconfigure ==
    /\ limit' \in Limits
    /\ NewGate(limit', device)
    /\ UNCHANGED <<device, provider, caller, entered, poolVars>>

\* Activation or rollback makes a model active whose provider may differ.
SwitchModel ==
    /\ provider' \in {"cuda", "cpu"}
    /\ device' = provider'
    /\ NewGate(limit, provider')
    /\ UNCHANGED <<limit, caller, entered, poolVars>>
-------------------------------------------------------------------------------
Infer == \/ \E c \in Callers : \/ Enter(c) \/ Submit(c) \/ ThreadEnds(c)
                               \/ Return(c) \/ Raise(c)
         \/ ThreadStarts

Next == Infer \/ (\E c \in Callers : Cancel(c)) \/ Reconfigure \/ SwitchModel

\* The event loop runs ready tasks, the pool works, and every inference ends.
Fairness == /\ \A c \in Callers : /\ WF_vars(Submit(c)) /\ WF_vars(ThreadEnds(c))
                                  /\ WF_vars(Return(c)) /\ WF_vars(Raise(c))
            /\ WF_vars(ThreadStarts)

Spec == Init /\ [][Next]_vars /\ Fairness

\* Neither cancellation nor administration: plain traffic.
Traffic == Init /\ [][Infer]_vars /\ Fairness
-------------------------------------------------------------------------------
\* Every variable ranges over the values the code can hold.
TypeOK ==
    /\ limit \in Limits
    /\ device \in {"cuda", "cpu"} /\ provider \in {"cuda", "cpu"}
    /\ gate \in Gates
    /\ size \in [Gates -> Nat \ {0}]
    /\ free \in [Gates -> Nat]
    /\ waiters \in [Gates -> Seq(Callers)]
    /\ caller \in [Callers -> {"idle", "waiting", "granted", "submitted", "returned",
                               "raised", "abandoned"}]
    /\ entered \in [Callers -> Gates \cup {NoGate}]
    /\ backlog \in Seq(Callers)
    /\ threads \subseteq Callers

\* A permit is never lost or made up, wherever in predict a caller is cancelled and
\* however often the semaphore is replaced meanwhile: what is free and what is held
\* of a gate in use is what it was created with.
PermitsConserved ==
    \A g \in Gates :
        g = gate \/ InUse(g) => free[g] + Cardinality(Holders(g)) = size[g]

\* A caller in line on a gate that was replaced is still served.
WaiterServed == \A c \in Callers : caller[c] = "waiting" ~> caller[c] # "waiting"
===============================================================================
