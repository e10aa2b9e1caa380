------------------------------ MODULE OnnxSession ------------------------------
(***************************************************************************)
(* One model of OnnxPairwiseBackend (src/reranker_service/backends/        *)
(* onnx.py): how loading chooses between a CUDA and a CPU session, and how *)
(* the inference threads that share the loaded model leave CUDA for the    *)
(* CPU when it fails.  Nothing locks the model: a thread reads and assigns *)
(* its fields one at a time, between the steps of the others.              *)
(*                                                                         *)
(* The CPU session of a loaded model is validated and never fails with an  *)
(* error that names CUDA.  fallback_provider is set exactly when           *)
(* fallback_reason is.                                                     *)
(***************************************************************************)
EXTENDS Naturals

CONSTANTS Threads,  \* threads that call rerank on the model
          Loader    \* the one of them that loads it and warms it up

ASSUME SessionAssumption == Loader \in Threads

VARIABLES
    policy,     \* settings and the providers onnxruntime has
    stage,      \* of the model
    model,      \* OnnxLoadedModel: session, active_provider, fallback_reason
    thread,     \* where each _infer is, the session it runs, the error it caught
    cudaFailed  \* history: CUDA was missing, or a CUDA session failed with an error that
                \* _is_cuda_provider_error takes for one of CUDA

vars == <<policy, stage, model, thread, cudaFailed>>

Policies == [device : {"auto", "cpu", "cuda"},
             fallback : BOOLEAN,    \* cpu_fallback_enabled
             configured : BOOLEAN,  \* CUDA is among the configured providers
             available : BOOLEAN]   \* CUDA is among the available providers

\* Faulty MayFallBack: forgets that CUDA was asked for by name.
MayFallBackAlways == policy.fallback

MayFallBack == policy.device # "cuda" /\ policy.fallback

Idle == [at |-> "idle", on |-> "nothing", error |-> "none"]
Model(s, reason) == [session |-> s, provider |-> s, reason |-> reason]
-------------------------------------------------------------------------------
Init == /\ policy \in Policies
        /\ stage = "loading"
        /\ model = [session |-> "none", provider |-> "none", reason |-> "none"]
        /\ thread = [t \in Threads |-> Idle]
        /\ cudaFailed = FALSE

\* The artifact, the dependencies, the CPU provider, the CPU session or the inference
\* that tries it are not as required.
LoadFails ==
    /\ stage = "loading"
    /\ stage' = "failed"
    /\ UNCHANGED <<policy, model, thread, cudaFailed>>

\* The CPU session was validated, and CUDA is not wanted, or not configured.
LoadWithoutCuda ==
    /\ stage = "loading"
    /\ policy.device = "cpu" \/ ~policy.configured
    /\ IF policy.device = "cuda"
       THEN stage' = "failed" /\ UNCHANGED model
       ELSE stage' = "serving" /\ model' = Model("cpu", "none")
    /\ UNCHANGED <<policy, thread, cudaFailed>>

\* Faulty DoWithoutCuda: does not say why the model is on the CPU.
DoWithoutCudaSilently(reason) ==
    IF MayFallBack THEN stage' = "serving" /\ model' = Model("cpu", "none")
                   ELSE stage' = "failed" /\ UNCHANGED model

\* CUDA was wanted and is not to be had: the model with the CPU session, or none.
DoWithoutCuda(reason) ==
    IF MayFallBack THEN stage' = "serving" /\ model' = Model("cpu", reason)
                   ELSE stage' = "failed" /\ UNCHANGED model

WantsCuda == stage = "loading" /\ policy.device # "cpu" /\ policy.configured

CudaUnavailable ==
    /\ WantsCuda /\ ~policy.available
    /\ DoWithoutCuda("unavailable")
    /\ cudaFailed' = TRUE
    /\ UNCHANGED <<policy, thread>>

\* The CUDA session is not created, or did not select CUDA.  Whatever was raised is
\* caught, be it an error of CUDA or not.
CudaSessionFails ==
    /\ WantsCuda /\ policy.available
    /\ DoWithoutCuda("initialization")
    /\ cudaFailed' \in {cudaFailed, TRUE}
    /\ UNCHANGED <<policy, thread>>

\* The CUDA session is tried by an inference of its own.
OpenCuda ==
    /\ WantsCuda /\ policy.available
    /\ stage' = "warming"
    /\ model' = Model("cuda", "none")
    /\ thread' = [thread EXCEPT ![Loader] = [Idle EXCEPT !.at = "first"]]
    /\ UNCHANGED <<policy, cudaFailed>>

\* The model is returned as that inference left it, or given up whatever it raised.
WarmupEnds ==
    /\ stage = "warming"
    /\ \/ /\ thread[Loader].at = "answered"
          /\ stage' = "serving" /\ UNCHANGED model
       \/ /\ thread[Loader].at = "failed"
          /\ DoWithoutCuda("initialization")
    /\ thread' = [thread EXCEPT ![Loader] = Idle]
    /\ UNCHANGED <<policy, cudaFailed>>

\* unload, while a thread may be inferring with the model.
Unload ==
    /\ stage = "serving"
    /\ stage' = "unloaded"
    /\ model' = [model EXCEPT !.session = "none"]
    /\ UNCHANGED <<policy, thread, cudaFailed>>
-------------------------------------------------------------------------------
(* _infer of thread t: a first run, one retry, and a last run on the CPU.  *)

Move(t, at, on, error) == thread' = [thread EXCEPT ![t] = [at |-> at, on |-> on, error |-> error]]

Runs == {"first", "retry", "last"}

\* The pairs are encoded for the inputs of the session.
Begin(t) ==
    /\ stage = "serving" /\ thread[t].at \in {"idle", "answered", "failed"}
    /\ Move(t, "first", "nothing", "none")
    /\ UNCHANGED <<policy, stage, model, cudaFailed>>

\* model.session.run is called: None has no run.
Call(t) ==
    /\ thread[t].at \in Runs /\ thread[t].on = "nothing"
    /\ IF model.session = "none"
       THEN Move(t, "failed", "nothing", "other")
       ELSE Move(t, thread[t].at, model.session, thread[t].error)
    /\ UNCHANGED <<policy, stage, model, cudaFailed>>

\* The run returns, and its outputs are one finite score per pair, or are not.
Returns(t) ==
    /\ thread[t].on # "nothing"
    /\ \/ Move(t, "answered", "nothing", thread[t].error)
       \/ Move(t, "failed", "nothing", "other")
    /\ UNCHANGED <<policy, stage, model, cudaFailed>>

\* Faulty AfterError: a retry that fails is not caught.
AfterErrorOfRetry(at, error) ==
    IF at = "first" THEN "caught" ELSE "failed"

\* Where an exception of a run leads.
AfterError(at, error) ==
    CASE at = "first" -> "caught"
      [] at = "retry" /\ error # "other" -> "switch"
      [] OTHER -> "failed"

Raises(t) ==
    /\ thread[t].on # "nothing"
    /\ \E error \in IF thread[t].on = "cuda" THEN {"cuda", "oom", "other"} ELSE {"other"} :
          /\ Move(t, AfterError(thread[t].at, error), "nothing", error)
          /\ cudaFailed' = (cudaFailed \/ error # "other")
    /\ UNCHANGED <<policy, stage, model>>

\* Faulty Handle: what is no error of CUDA leads to the CPU as well.
HandleAnyError(t) ==
    /\ thread[t].at = "caught"
    /\ LET e == thread[t].error
       IN Move(t, IF model.provider # "cuda" \/ ~MayFallBack THEN "failed"
                  ELSE IF e = "cuda" THEN "retry" ELSE "switch", "nothing", e)
    /\ UNCHANGED <<policy, stage, model, cudaFailed>>

\* The handler of the first run: it reads active_provider as it is now.
Handle(t) ==
    /\ thread[t].at = "caught"
    /\ LET e == thread[t].error
       IN Move(t, IF model.provider # "cuda" \/ e = "other" \/ ~MayFallBack THEN "failed"
                  ELSE IF e = "oom" THEN "switch" ELSE "retry", "nothing", e)
    /\ UNCHANGED <<policy, stage, model, cudaFailed>>

\* Faulty Switch: the provider keeps its name.
SwitchUnnamed(t) ==
    /\ \/ /\ thread[t].at = "switch"
          /\ model' = [model EXCEPT !.session = "cpu"]
          /\ Move(t, "name", "nothing", thread[t].error)
       \/ /\ thread[t].at = "name"
          /\ UNCHANGED model
          /\ Move(t, "explain", "nothing", thread[t].error)
       \/ /\ thread[t].at = "explain"
          /\ model' = [model EXCEPT !.reason = "inference"]
          /\ Move(t, "last", "nothing", thread[t].error)
    /\ UNCHANGED <<policy, stage, cudaFailed>>

\* The assignments that take the model to its CPU session, one after another.
Switch(t) ==
    /\ \/ /\ thread[t].at = "switch"
          /\ model' = [model EXCEPT !.session = "cpu"]
          /\ Move(t, "name", "nothing", thread[t].error)
       \/ /\ thread[t].at = "name"
          /\ model' = [model EXCEPT !.provider = "cpu"]
          /\ Move(t, "explain", "nothing", thread[t].error)
       \/ /\ thread[t].at = "explain"
          /\ model' = [model EXCEPT !.reason = "inference"]
          /\ Move(t, "last", "nothing", thread[t].error)
    /\ UNCHANGED <<policy, stage, cudaFailed>>

Proceed(t) == Call(t) \/ Returns(t) \/ Raises(t) \/ Handle(t) \/ Switch(t)

Next == \/ LoadFails \/ LoadWithoutCuda \/ CudaUnavailable \/ CudaSessionFails
        \/ OpenCuda \/ WarmupEnds \/ Unload
        \/ \E t \in Threads : Begin(t) \/ Proceed(t)

\* The threads run, and a session's run ends.
Spec == Init /\ [][Next]_vars /\ \A t \in Threads : WF_vars(Proceed(t))
-------------------------------------------------------------------------------
Switching == {"name", "explain"}

\* Every variable ranges over the values the code can hold.
TypeOK ==
    /\ policy \in Policies
    /\ stage \in {"loading", "warming", "serving", "failed", "unloaded"}
    /\ model \in [session : {"none", "cuda", "cpu"}, provider : {"none", "cuda", "cpu"},
                  reason : {"none", "unavailable", "initialization", "inference"}]
    /\ thread \in [Threads -> [at : Runs \cup Switching \cup
                                    {"idle", "caught", "switch", "answered", "failed"},
                               on : {"nothing", "cuda", "cpu"},
                               error : {"none", "cuda", "oom", "other"}]]
    /\ cudaFailed \in BOOLEAN

\* "Forced CUDA fails closed": whatever fails and whenever, with device=cuda nothing is
\* ever inferred on the CPU session.
ForcedCudaFailsClosed ==
    policy.device = "cuda" => /\ model.session # "cpu"
                              /\ \A t \in Threads : thread[t].on # "cpu"

\* "Only a CUDA-specific failure can activate controlled CPU fallback", when a model is
\* loaded as well as later.
OnlyCudaFailureFallsBack == model.reason # "none" => cudaFailed

\* After loading that holds: whatever the threads meet at the same time, a model leaves
\* CUDA only where a fallback is allowed, after a run failed with an error of CUDA, and
\* by a thread whose own last run did, the retry included.
OnlyCudaErrorLeavesCuda ==
    /\ model.reason = "inference" => MayFallBack /\ cudaFailed
    /\ \A t \in Threads : thread[t].at \in {"switch"} \cup Switching =>
          MayFallBack /\ thread[t].error \in {"cuda", "oom"}

\* What metadata reports is true of the session in use, and a fallback is explained,
\* unless a thread is between the assignments of its switch.
MetadataIsTrue ==
    stage = "serving" /\ (\A t \in Threads : thread[t].at \notin Switching) =>
        /\ model.provider = model.session
        /\ model.session = "cuda" => model.reason = "none"
        /\ model.session = "cpu" /\ policy.device # "cpu" /\ policy.configured
              => model.reason # "none"

\* Where a fallback is allowed, a CUDA error reaches the caller only if another inference
\* had already taken the model off CUDA: never at load time, never without that race.
SurfacesOnlyInRace ==
    MayFallBack => \A t \in Threads :
        thread[t].at = "failed" /\ thread[t].error \in {"cuda", "oom"}
            => model.provider = "cpu"

\* Once an inference has decided to leave CUDA, the model says so, and for good.
FallbackTakesHold ==
    (\E t \in Threads : thread[t].at = "switch") ~> [](model.provider = "cpu")
===============================================================================
