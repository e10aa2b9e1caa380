--------------------------- MODULE OnnxSessionProofs ---------------------------
(***************************************************************************)
(* For any threads: the types of OnnxSession, and that the fallback from   *)
(* CUDA to the CPU happens only where it may, after loading only for an    *)
(* error of CUDA, is told truly, and hides every CUDA error it can.        *)
(*                                                                         *)
(* For any exporters and loaders of the artifact such a session is opened  *)
(* from: the types of ArtifactExport, and that whatever races, dies or is  *)
(* damaged, the artifact directory is complete, and what is loaded from it *)
(* is the work of one export, the same for all.                            *)
(***************************************************************************)
EXTENDS OnnxSession, ArtifactExport, TLAPS

(* OnnxSession: its inductive invariant.                                   *)

Wanted == policy.device # "cpu" /\ policy.configured
Leaving == {"retry", "switch", "name", "explain", "last"}

\* Where a thread may be, given the model and the policy.
ThreadInv(t) ==
    /\ thread[t].at \in Leaving => MayFallBack /\ cudaFailed
    /\ thread[t].at \in {"switch", "name", "explain"} => thread[t].error \in {"cuda", "oom"}
    /\ thread[t].error \in {"cuda", "oom"} => cudaFailed
    /\ thread[t].at = "caught" => thread[t].error # "none"
    /\ thread[t].at # "idle" => stage # "loading" /\ model.provider # "none"
    /\ thread[t].at \in {"name", "explain", "last"} => model.session # "cuda"
    /\ thread[t].on # "nothing" => thread[t].at \in Runs
    /\ thread[t].at = "last" => thread[t].on # "cuda"
    /\ thread[t].on = "cpu" => policy.device # "cuda"
    /\ thread[t].at = "failed" /\ thread[t].error \in {"cuda", "oom"} /\ MayFallBack
          => model.provider = "cpu"

\* What the model is, given the threads that have begun to switch it.
ModelInv ==
    /\ stage = "loading" => model.session = "none" /\ model.reason = "none"
    /\ stage \in {"serving", "warming"} => model.session # "none"
    /\ model.session # "none" => model.provider # "none"
    /\ model.session = "cuda" => model.provider = "cuda" /\ model.reason = "none"
    /\ model.session = "cpu" =>
          /\ policy.device # "cuda"
          /\ model.provider = "cpu" \/ \E t \in Threads : thread[t].at = "name"
          /\ Wanted => \/ model.reason # "none"
                       \/ \E t \in Threads : thread[t].at \in Switching
    /\ model.reason = "inference" => MayFallBack /\ cudaFailed

Inv == TypeOK /\ ModelInv /\ \A t \in Threads : ThreadInv(t)
-------------------------------------------------------------------------------
(* Types.                                                                  *)

Models == [session : {"none", "cuda", "cpu"}, provider : {"none", "cuda", "cpu"},
           reason : {"none", "unavailable", "initialization", "inference"}]
Positions == Runs \cup Switching \cup {"idle", "caught", "switch", "answered", "failed"}
States == [at : Positions, on : {"nothing", "cuda", "cpu"},
           error : {"none", "cuda", "oom", "other"}]
Types ==
    /\ stage \in {"loading", "warming", "serving", "failed", "unloaded"}
    /\ model \in Models
    /\ thread \in [Threads -> States]

LEMMA TypeParts == TypeOK <=> policy \in Policies /\ cudaFailed \in BOOLEAN /\ Types
  BY Zenon DEF TypeOK, Types, Models, States, Positions

\* A move to a state keeps the threads' type.
LEMMA MoveType ==
    ASSUME Types, NEW t \in Threads, NEW to \in Positions,
           NEW on \in {"nothing", "cuda", "cpu"}, NEW error \in {"none", "cuda", "oom", "other"},
           Move(t, to, on, error)
    PROVE  thread' \in [Threads -> States]
  BY DEF Move, Types, States

LEMMA TypesStep == Types /\ [Next]_vars => Types'
  <1> SUFFICES ASSUME Types, [Next]_vars PROVE Types'
    OBVIOUS
  <1> USE DEF Types
  <1>1. CASE LoadFails
    BY <1>1 DEF LoadFails
  <1>2. CASE LoadWithoutCuda
    BY <1>2 DEF LoadWithoutCuda, Model, Models
  <1>3. CASE CudaUnavailable
    BY <1>3 DEF CudaUnavailable, DoWithoutCuda, Model, Models
  <1>4. CASE CudaSessionFails
    BY <1>4 DEF CudaSessionFails, DoWithoutCuda, Model, Models
  <1>5. CASE OpenCuda
    BY <1>5, SessionAssumption DEF OpenCuda, Model, Models, Idle, States, Positions, Runs
  <1>6. CASE WarmupEnds
    <2>1. thread' \in [Threads -> States]
      BY <1>6, SessionAssumption DEF WarmupEnds, Idle, States, Positions
    <2>2. stage' \in {"serving", "failed"} /\ model' \in {model, Model("cpu", "initialization")}
      BY <1>6, Zenon DEF WarmupEnds, DoWithoutCuda
    <2> QED BY <2>1, <2>2 DEF Model, Models
  <1>7. CASE Unload
    BY <1>7 DEF Unload, Models
  <1>8. ASSUME NEW t \in Threads, Begin(t) PROVE Types'
    BY <1>8, MoveType DEF Begin, Positions, Runs
  <1>9. ASSUME NEW t \in Threads, Call(t) PROVE Types'
    BY <1>9, MoveType DEF Call, Positions, Models, States
  <1>10. ASSUME NEW t \in Threads, Returns(t) PROVE Types'
    BY <1>10, MoveType DEF Returns, Positions, States
  <1>11. ASSUME NEW t \in Threads, Raises(t) PROVE Types'
    BY <1>11, MoveType DEF Raises, AfterError, Positions
  <1>12. ASSUME NEW t \in Threads, Handle(t) PROVE Types'
    BY <1>12, MoveType DEF Handle, Positions, Runs, States
  <1>13. ASSUME NEW t \in Threads, Switch(t) PROVE Types'
    <2>1. thread' \in [Threads -> States]
      <3>1. thread[t].error \in {"none", "cuda", "oom", "other"}
        BY DEF States
      <3>2. \E to \in {"name", "explain", "last"} : Move(t, to, "nothing", thread[t].error)
        BY <1>13, Zenon DEF Switch
      <3> QED BY <3>1, <3>2, MoveType DEF Positions, Switching, Runs
    <2>2. model' \in Models
      BY <1>13 DEF Switch, Models
    <2> QED BY <1>13, <2>1, <2>2 DEF Switch
  <1>14. CASE UNCHANGED vars
    BY <1>14 DEF vars
  <1> QED BY <1>1, <1>2, <1>3, <1>4, <1>5, <1>6, <1>7, <1>8, <1>9, <1>10, <1>11, <1>12,
             <1>13, <1>14, Zenon DEF Next, Proceed

LEMMA PolicyStays == [Next]_vars => policy' = policy /\ MayFallBack' = MayFallBack
  <1> SUFFICES ASSUME [Next]_vars PROVE policy' = policy
    BY Zenon DEF MayFallBack
  <1> QED BY Zenon DEF Next, LoadFails, LoadWithoutCuda, CudaUnavailable, CudaSessionFails,
                       OpenCuda, WarmupEnds, Unload, Begin, Proceed, Call, Returns, Raises,
                       Handle, Switch, vars

\* Whether CUDA failed is a Boolean, and stays true.
LEMMA FailureStep == cudaFailed \in BOOLEAN /\ [Next]_vars
                        => cudaFailed' \in BOOLEAN /\ (cudaFailed => cudaFailed')
  BY Zenon DEF Next, LoadFails, LoadWithoutCuda, CudaUnavailable, CudaSessionFails, OpenCuda,
               WarmupEnds, DoWithoutCuda, Unload, Begin, Proceed, Call, Returns, Raises,
               Handle, Switch, vars

LEMMA TypeInit == Init => TypeOK
  <1>1. Init => Types
    BY DEF Init, Types, Models, States, Positions, Idle
  <1>2. Init => policy \in Policies /\ cudaFailed \in BOOLEAN
    BY Zenon DEF Init
  <1> QED BY <1>1, <1>2, TypeParts, Zenon

LEMMA TypeStep == TypeOK /\ [Next]_vars => TypeOK'
  <1>1. (TypeOK <=> policy \in Policies /\ cudaFailed \in BOOLEAN /\ Types)'
    BY TypeParts, PTL
  <1> QED BY <1>1, TypeParts, TypesStep, PolicyStays, FailureStep, Zenon
-------------------------------------------------------------------------------
(* Loading and unloading.                                                  *)

LEMMA Exclusive == MayFallBack => policy.device # "cuda"
  BY Zenon DEF MayFallBack

LEMMA Loading ==
    ASSUME Types, ModelInv, \A t \in Threads : ThreadInv(t), policy' = policy,
           MayFallBack' = MayFallBack, cudaFailed => cudaFailed',
           \/ LoadFails \/ LoadWithoutCuda \/ CudaUnavailable \/ CudaSessionFails
           \/ OpenCuda \/ WarmupEnds \/ Unload
    PROVE  ModelInv' /\ \A t \in Threads : ThreadInv(t)'
  <1> USE Exclusive DEF Types, ModelInv, ThreadInv, Wanted, Model, Idle, Leaving, Runs,
                        Switching
  <1>1. CASE LoadFails
    BY <1>1 DEF LoadFails
  <1>2. CASE LoadWithoutCuda
    BY <1>2 DEF LoadWithoutCuda
  <1>3. CASE CudaUnavailable
    BY <1>3 DEF CudaUnavailable, DoWithoutCuda, WantsCuda
  <1>4. CASE CudaSessionFails
    BY <1>4 DEF CudaSessionFails, DoWithoutCuda, WantsCuda
  <1>5. CASE OpenCuda
    BY <1>5, SessionAssumption DEF OpenCuda, WantsCuda
  <1>6. CASE WarmupEnds
    BY <1>6, SessionAssumption DEF WarmupEnds, DoWithoutCuda
  <1>7. CASE Unload
    BY <1>7 DEF Unload, Models
  <1> QED BY <1>1, <1>2, <1>3, <1>4, <1>5, <1>6, <1>7

(* Inference.                                                              *)

LEMMA Inferring ==
    ASSUME Types, ModelInv, \A t \in Threads : ThreadInv(t), policy' = policy,
           MayFallBack' = MayFallBack, cudaFailed => cudaFailed',
           NEW t \in Threads, Begin(t) \/ Proceed(t)
    PROVE  ModelInv' /\ \A u \in Threads : ThreadInv(u)'
  <1> USE Exclusive DEF Types, ModelInv, ThreadInv, Wanted, Leaving, Runs, Switching, Move
  <1>1. CASE Begin(t)
    BY <1>1 DEF Begin
  <1>2. CASE Call(t)
    BY <1>2 DEF Call
  <1>3. CASE Returns(t)
    BY <1>3 DEF Returns
  <1>4. CASE Raises(t)
    <2>1. PICK error \in {"cuda", "oom", "other"} :
             /\ thread[t].on # "cuda" => error = "other"
             /\ Move(t, AfterError(thread[t].at, error), "nothing", error)
             /\ cudaFailed' = (cudaFailed \/ error # "other")
      BY <1>4 DEF Raises
    <2>2. thread[t].on # "nothing" /\ stage' = stage /\ model' = model
      BY <1>4 DEF Raises
    <2>3. CASE thread[t].at = "first"
      <3>1. Move(t, "caught", "nothing", error)
        BY <2>1, <2>3 DEF AfterError
      <3>2. ThreadInv(t)'
        <4>1. thread'[t] = [at |-> "caught", on |-> "nothing", error |-> error]
          BY <3>1
        <4>2. stage' # "loading" /\ model'.provider # "none"
          BY <2>2, <2>3
        <4>3. error \in {"cuda", "oom"} => cudaFailed'
          BY <2>1
        <4> QED BY <2>1, <4>1, <4>2, <4>3
      <3>3. \A u \in Threads \ {t} : ThreadInv(u)'
        BY <2>2, <3>1
      <3>4. ModelInv'
        BY <2>2, <2>3, <3>1
      <3> QED BY <3>2, <3>3, <3>4
    <2>4. CASE thread[t].at = "retry"
      BY <2>1, <2>2, <2>4 DEF AfterError
    <2>5. CASE thread[t].at = "last"
      BY <2>1, <2>2, <2>5 DEF AfterError
    <2> QED BY <2>2, <2>3, <2>4, <2>5
  <1>5. CASE Handle(t)
    <2>1. thread[t].error \in {"cuda", "oom", "other"} /\ model.provider \in {"cuda", "cpu"}
      BY <1>5 DEF Handle, States, Models
    <2>2. CASE model.provider # "cuda" \/ thread[t].error = "other" \/ ~MayFallBack
      BY <1>5, <2>1, <2>2 DEF Handle
    <2>3. CASE ~(model.provider # "cuda" \/ thread[t].error = "other" \/ ~MayFallBack)
      BY <1>5, <2>1, <2>3 DEF Handle
    <2> QED BY <2>2, <2>3
  <1>6. CASE Switch(t)
    <2>1. CASE thread[t].at = "switch"
      BY <1>6, <2>1 DEF Switch, Models
    <2>2. CASE thread[t].at = "name"
      BY <1>6, <2>2 DEF Switch, Models
    <2>3. CASE thread[t].at = "explain"
      BY <1>6, <2>3 DEF Switch, Models
    <2> QED BY <1>6, <2>1, <2>2, <2>3 DEF Switch
  <1> QED BY <1>1, <1>2, <1>3, <1>4, <1>5, <1>6 DEF Proceed
-------------------------------------------------------------------------------
LEMMA InvInit == Init => Inv
  <1>1. Init => ModelInv /\ \A t \in Threads : ThreadInv(t)
    BY DEF Init, Idle, ModelInv, ThreadInv, Leaving, Runs
  <1> QED BY <1>1, TypeInit DEF Inv

LEMMA InvStep == Inv /\ [Next]_vars => Inv'
  <1> SUFFICES ASSUME Inv, [Next]_vars PROVE Inv'
    OBVIOUS
  <1>1. TypeOK' /\ Types /\ policy' = policy /\ MayFallBack' = MayFallBack
        /\ (cudaFailed => cudaFailed')
    BY TypeStep, TypeParts, PolicyStays, FailureStep, Zenon DEF Inv
  <1>2. ModelInv' /\ \A t \in Threads : ThreadInv(t)'
    <2>1. CASE UNCHANGED vars
      BY <2>1 DEF Inv, vars, ModelInv, ThreadInv, Wanted, MayFallBack
    <2>2. CASE Next
      BY <1>1, <2>2, Loading, Inferring, Zenon DEF Next, Inv
    <2> QED BY <2>1, <2>2
  <1> QED BY <1>1, <1>2, Zenon DEF Inv

LEMMA Invariance == Spec => []Inv
  BY InvInit, InvStep, PTL DEF Spec

\* Every variable ranges over the values the code can hold.
THEOREM SessionTypes == Spec => []TypeOK
  <1>1. Inv => TypeOK
    BY Zenon DEF Inv
  <1> QED BY <1>1, Invariance, PTL

\* With device=cuda nothing is ever inferred on the CPU session (onnx.py:191, 240).
THEOREM ForcedCudaIsKept == Spec => []ForcedCudaFailsClosed
  <1>1. Inv => ForcedCudaFailsClosed
    BY Zenon DEF Inv, ModelInv, ThreadInv, ForcedCudaFailsClosed
  <1> QED BY <1>1, Invariance, PTL

\* A loaded model leaves CUDA only where a fallback is allowed and for an error of CUDA,
\* whatever threads share it (onnx.py:235-255).
THEOREM FallbackHasCause == Spec => []OnlyCudaErrorLeavesCuda
  <1>1. Inv => OnlyCudaErrorLeavesCuda
    <2>1. Inv => \A t \in Threads : ThreadInv(t)
      BY DEF Inv
    <2>2. Inv => (model.reason = "inference" => MayFallBack /\ cudaFailed)
      BY DEF Inv, ModelInv
    <2> QED BY <2>1, <2>2 DEF ThreadInv, Leaving, Switching, OnlyCudaErrorLeavesCuda
  <1> QED BY <1>1, Invariance, PTL

\* Outside the few assignments of a switch, metadata tells the session in use and why.
THEOREM MetadataTellsTruth == Spec => []MetadataIsTrue
  <1>1. Inv => MetadataIsTrue
    <2> SUFFICES ASSUME Inv, stage = "serving",
                        \A t \in Threads : thread[t].at \notin Switching
                 PROVE  /\ model.provider = model.session
                        /\ model.session = "cuda" => model.reason = "none"
                        /\ model.session = "cpu" /\ Wanted => model.reason # "none"
      BY Zenon DEF MetadataIsTrue, Wanted
    <2>1. model.session \in {"cuda", "cpu"}
      BY TypeParts DEF Inv, ModelInv, Types, Models
    <2>2. \A t \in Threads : thread[t].at # "name"
      BY DEF Switching
    <2> QED BY <2>1, <2>2, Zenon DEF Inv, ModelInv
  <1> QED BY <1>1, Invariance, PTL

\* Where a fallback is allowed, a CUDA error surfaces only if another inference had
\* taken the model off CUDA before (onnx.py:238).
THEOREM ErrorsAreHidden == Spec => []SurfacesOnlyInRace
  <1>1. Inv => SurfacesOnlyInRace
    BY Zenon DEF Inv, ThreadInv, SurfacesOnlyInRace
  <1> QED BY <1>1, Invariance, PTL
-------------------------------------------------------------------------------
(* ArtifactExport: its inductive invariant.                                *)

Reading == {"model", "tokenizer", "loaded"}

\* What the staging directory of an export holds before it is published.
StagingInv(p) ==
    /\ at[p] = "describe" =>
          staging[p] = [f \in Files |-> IF f = "manifest" THEN Missing ELSE p]
    /\ at[p] = "publish" => staging[p] = BuiltBy(p)

\* Who has read a manifest holds files of its export only.
ReadInv(p) ==
    /\ at[p] \in Reading => read[p]["manifest"] \in Exporters
    /\ at[p] \in {"tokenizer", "loaded"} => read[p]["model"] = read[p]["manifest"]
    /\ at[p] = "loaded" => read[p]["tokenizer"] = read[p]["manifest"]

\* Until it is removed or lost, the artifact has the manifest that was read, or a torn one.
SameInv ==
    \A p \in Processes : at[p] \in Reading =>
        /\ target # Absent
        /\ target["manifest"] \in {read[p]["manifest"], Torn}
        /\ \A q \in Processes :
              at[q] \in Reading => read[q]["manifest"] = read[p]["manifest"]

ArtifactInv ==
    /\ ArtifactTypeOK
    /\ \A p \in Exporters : StagingInv(p)
    /\ \A p \in Processes : ReadInv(p)
    /\ PublishedIsComplete
    /\ ~removed => SameInv
-------------------------------------------------------------------------------
(* Its types.                                                              *)

ArtifactSteps == Ended \cup {"prepare", "export", "describe", "publish", "clean",
                           "manifest", "model", "tokenizer"}
StoreTypes ==
    /\ target \in Directories
    /\ staging \in [Exporters -> Directories]
    /\ at \in [Processes -> ArtifactSteps]
    /\ read \in [Processes -> [Files -> Contents]]

LEMMA ArtifactTypeParts ==
  ArtifactTypeOK <=> StoreTypes /\ removed \in BOOLEAN /\ damaged \in BOOLEAN
  BY Zenon DEF ArtifactTypeOK, StoreTypes, ArtifactSteps

LEMMA ArtifactTypesInit == ArtifactInit => StoreTypes
  BY DEF ArtifactInit, StoreTypes, Directories, ArtifactSteps, Ended, NoFiles, Contents

LEMMA FoundType == StoreTypes => \A f \in Files : Found(f) \in Contents
  BY DEF StoreTypes, Directories, Found, Contents

LEMMA ArtifactTypesStep ==
    ASSUME StoreTypes, \A p \in Exporters : StagingInv(p), [ArtifactNext]_artifactVars
    PROVE  StoreTypes'
  <1> USE DEF StoreTypes, Go, ArtifactSteps, Ended, Processes
  <1>1. ASSUME NEW p \in Exporters, BeginExport(p) PROVE StoreTypes'
    BY <1>1 DEF BeginExport
  <1>2. ASSUME NEW p \in Exporters, Prepare(p) PROVE StoreTypes'
    <2>1. NoFiles \in Directories
      BY DEF Directories, NoFiles, Contents
    <2>2. staging' \in [Exporters -> Directories] /\ at' \in [Processes -> ArtifactSteps]
      BY <1>2, <2>1 DEF Prepare
    <2> QED BY <1>2, <2>2 DEF Prepare
  <1>3. ASSUME NEW p \in Exporters, Export(p) PROVE StoreTypes'
    BY <1>3 DEF Export, Directories, Contents
  <1>4. ASSUME NEW p \in Exporters, BuildFails(p) PROVE StoreTypes'
    BY <1>4 DEF BuildFails
  <1>5. ASSUME NEW p \in Exporters, Describe(p) PROVE StoreTypes'
    <2>1. staging[p] \in [Files -> Contents]
      BY <1>5 DEF Describe, StagingInv, Contents
    <2>2. [staging[p] EXCEPT !["manifest"] = p] \in [Files -> Contents]
      BY <2>1 DEF Contents
    <2> QED BY <1>5, <2>2 DEF Describe, Directories
  <1>6. ASSUME NEW p \in Exporters, Publish(p) PROVE StoreTypes'
    BY <1>6 DEF Publish, Directories
  <1>7. ASSUME NEW p \in Exporters, Clean(p) PROVE StoreTypes'
    BY <1>7 DEF Clean, Directories
  <1>8. ASSUME NEW p \in Loaders, BeginLoad(p) PROVE StoreTypes'
    BY <1>8 DEF BeginLoad
  <1>9. ASSUME NEW p \in Processes, ReadManifest(p) PROVE StoreTypes'
    BY <1>9, FoundType DEF ReadManifest, Read, Files
  <1>10. ASSUME NEW p \in Processes, VerifyModel(p) PROVE StoreTypes'
    BY <1>10, FoundType DEF VerifyModel, Read, Files
  <1>11. ASSUME NEW p \in Processes, VerifyTokenizer(p) PROVE StoreTypes'
    BY <1>11, FoundType DEF VerifyTokenizer, Read, Files
  <1>12. ASSUME NEW p \in Processes, Kill(p) PROVE StoreTypes'
    BY <1>12 DEF Kill
  <1>13. CASE LosePower
    BY <1>13 DEF LosePower, Directories, Contents
  <1>14. CASE Remove
    BY <1>14 DEF Remove, Directories
  <1>15. CASE UNCHANGED artifactVars
    BY <1>15 DEF artifactVars
  <1> QED BY <1>1, <1>2, <1>3, <1>4, <1>5, <1>6, <1>7, <1>8, <1>9, <1>10, <1>11, <1>12,
             <1>13, <1>14, <1>15, Zenon DEF ArtifactNext, Build, Load
-------------------------------------------------------------------------------
(* What is staged and published.                                           *)

LEMMA StagingStep ==
    ASSUME StoreTypes, [ArtifactNext]_artifactVars, NEW x \in Exporters, StagingInv(x)
    PROVE  StagingInv(x)'
  <1> USE DEF StoreTypes, Go, StagingInv, BuiltBy, Processes
  <1>1. ASSUME NEW p \in Exporters, BeginExport(p) PROVE StagingInv(x)'
    BY <1>1 DEF BeginExport
  <1>2. ASSUME NEW p \in Exporters, Prepare(p) PROVE StagingInv(x)'
    BY <1>2 DEF Prepare
  <1>3. ASSUME NEW p \in Exporters, Export(p) PROVE StagingInv(x)'
    BY <1>3 DEF Export, Files
  <1>4. ASSUME NEW p \in Exporters, BuildFails(p) PROVE StagingInv(x)'
    BY <1>4 DEF BuildFails
  <1>5. ASSUME NEW p \in Exporters, Describe(p) PROVE StagingInv(x)'
    <2>1. CASE x # p
      BY <1>5, <2>1 DEF Describe
    <2>2. CASE x = p
      <3>1. staging'[x] = [staging[x] EXCEPT !["manifest"] = x] /\ at'[x] = "publish"
        BY <1>5, <2>2 DEF Describe
      <3>2. staging[x] = [f \in Files |-> IF f = "manifest" THEN Missing ELSE x]
        BY <1>5, <2>2 DEF Describe
      <3>3. staging'[x] = [f \in Files |-> x]
        BY <3>1, <3>2 DEF Files
      <3> QED BY <3>1, <3>3
    <2> QED BY <2>1, <2>2
  <1>6. ASSUME NEW p \in Exporters, Publish(p) PROVE StagingInv(x)'
    BY <1>6 DEF Publish
  <1>7. ASSUME NEW p \in Exporters, Clean(p) PROVE StagingInv(x)'
    BY <1>7 DEF Clean
  <1>8. ASSUME NEW p \in Loaders, BeginLoad(p) PROVE StagingInv(x)'
    BY <1>8 DEF BeginLoad
  <1>9. ASSUME NEW p \in Processes, Load(p) PROVE StagingInv(x)'
    BY <1>9 DEF Load, ReadManifest, VerifyModel, VerifyTokenizer
  <1>10. ASSUME NEW p \in Processes, Kill(p) PROVE StagingInv(x)'
    BY <1>10 DEF Kill
  <1>11. CASE LosePower
    BY <1>11 DEF LosePower, Ended
  <1>12. CASE Remove \/ UNCHANGED artifactVars
    BY <1>12 DEF Remove, artifactVars
  <1> QED BY <1>1, <1>2, <1>3, <1>4, <1>5, <1>6, <1>7, <1>8, <1>9, <1>10, <1>11, <1>12, Zenon
          DEF ArtifactNext, Build

\* Once something was removed or damaged, it was.
LEMMA HistoryStays ==
    ASSUME removed \in BOOLEAN /\ damaged \in BOOLEAN, [ArtifactNext]_artifactVars
    PROVE  /\ removed' \in BOOLEAN /\ damaged' \in BOOLEAN
           /\ (removed => removed') /\ (damaged => damaged')
  BY Zenon DEF ArtifactNext, Build, BeginExport, Prepare, Export, BuildFails, Describe, Publish,
               Clean, BeginLoad, Load, ReadManifest, VerifyModel, VerifyTokenizer, Kill,
               LosePower, Remove, artifactVars

\* A step leaves the target, publishes a complete one, damages it, or removes it.
LEMMA TargetStep ==
    ASSUME StoreTypes, \A p \in Exporters : StagingInv(p), [ArtifactNext]_artifactVars
    PROVE  \/ target' = target
           \/ target = Absent /\ \E e \in Exporters : target' = BuiltBy(e)
           \/ /\ target # Absent /\ damaged'
              /\ \E lost \in SUBSET Files :
                    target' = [f \in Files |-> IF f \in lost THEN Torn ELSE target[f]]
           \/ target' = Absent /\ removed'
  <1>1. ASSUME NEW p \in Exporters, Publish(p)
        PROVE  \/ target' = target
               \/ target = Absent /\ \E e \in Exporters : target' = BuiltBy(e)
    BY <1>1, Zenon DEF Publish, StagingInv
  <1>2. CASE LosePower
    BY <1>2, Zenon DEF LosePower
  <1>3. CASE Remove
    BY <1>3, Zenon DEF Remove
  <1> QED BY <1>1, <1>2, <1>3, Zenon DEF ArtifactNext, Build, BeginExport, Prepare, Export,
             BuildFails, Describe, Clean, BeginLoad, Load, ReadManifest, VerifyModel, VerifyTokenizer,
             Kill, artifactVars

LEMMA PublishedStep ==
    ASSUME StoreTypes, \A p \in Exporters : StagingInv(p), PublishedIsComplete,
           damaged => damaged', [ArtifactNext]_artifactVars
    PROVE  PublishedIsComplete'
  BY TargetStep DEF PublishedIsComplete, BuiltBy
-------------------------------------------------------------------------------
(* What is read.                                                           *)

\* A step of reading checks what it finds in the artifact against the manifest read.
LEMMA ReadStep ==
    ASSUME StoreTypes, [ArtifactNext]_artifactVars, NEW x \in Processes, ReadInv(x)
    PROVE  ReadInv(x)'
  <1> USE DEF StoreTypes, Go, ReadInv, Reading, Processes
  <1>1. ASSUME NEW p \in Exporters,
               BeginExport(p) \/ Prepare(p) \/ Export(p) \/ BuildFails(p) \/ Describe(p)
                 \/ Publish(p) \/ Clean(p)
        PROVE  ReadInv(x)'
    BY <1>1 DEF BeginExport, Prepare, Export, BuildFails, Describe, Publish, Clean
  <1>2. ASSUME NEW p \in Loaders, BeginLoad(p) PROVE ReadInv(x)'
    BY <1>2 DEF BeginLoad
  <1>3. ASSUME NEW p \in Processes, ReadManifest(p) PROVE ReadInv(x)'
    BY <1>3 DEF ReadManifest, Read, Files
  <1>4. ASSUME NEW p \in Processes, VerifyModel(p) PROVE ReadInv(x)'
    BY <1>4 DEF VerifyModel, Read, Passes, Files
  <1>5. ASSUME NEW p \in Processes, VerifyTokenizer(p) PROVE ReadInv(x)'
    BY <1>5 DEF VerifyTokenizer, Read, Passes, Files
  <1>6. ASSUME NEW p \in Processes, Kill(p) PROVE ReadInv(x)'
    BY <1>6 DEF Kill
  <1>7. CASE LosePower
    BY <1>7 DEF LosePower, Ended
  <1>8. CASE Remove \/ UNCHANGED artifactVars
    BY <1>8 DEF Remove, artifactVars
  <1> QED BY <1>1, <1>2, <1>3, <1>4, <1>5, <1>6, <1>7, <1>8, Zenon DEF ArtifactNext, Build, Load

\* A manifest that is read is the one all have read that read before.
LEMMA SameStep ==
    ASSUME StoreTypes, \A p \in Exporters : StagingInv(p),
           [ArtifactNext]_artifactVars, SameInv, ~removed'
    PROVE  SameInv'
  <1>1. \/ target' = target
        \/ /\ target # Absent /\ target' # Absent
           /\ target'["manifest"] \in {target["manifest"], Torn}
        \/ target = Absent
    BY TargetStep, ExportAssumption DEF StoreTypes, Directories, Contents, Files
  <1>2. CASE \A p \in Processes : at'[p] \in Reading =>
                at[p] \in Reading /\ read'[p]["manifest"] = read[p]["manifest"]
    BY <1>1, <1>2 DEF SameInv
  <1>3. ASSUME NEW p \in Processes, ReadManifest(p), Found("manifest") \in Exporters
        PROVE  SameInv'
    <2>1. /\ target' = target /\ target # Absent
          /\ read' = [read EXCEPT ![p]["manifest"] = target["manifest"]]
          /\ at' = [at EXCEPT ![p] = "model"]
          /\ target["manifest"] \in Exporters
      BY <1>3, ExportAssumption DEF ReadManifest, Read, Go, Found
    <2>2. \A q \in Processes : q # p => at'[q] = at[q] /\ read'[q] = read[q]
      BY <2>1 DEF StoreTypes
    <2>3. read'[p]["manifest"] = target["manifest"]
      BY <2>1 DEF StoreTypes, Files
    <2>4. \A q \in Processes : q # p /\ at[q] \in Reading
             => read[q]["manifest"] = target["manifest"]
      BY <2>1, ExportAssumption DEF SameInv
    <2> QED BY <2>1, <2>2, <2>3, <2>4 DEF SameInv
  <1>4. ASSUME NEW p \in Processes, Load(p), ~(ReadManifest(p) /\ Found("manifest") \in Exporters)
        PROVE  \A q \in Processes : at'[q] \in Reading =>
                  at[q] \in Reading /\ read'[q]["manifest"] = read[q]["manifest"]
    BY <1>4 DEF Load, ReadManifest, VerifyModel, VerifyTokenizer, Read, Go, StoreTypes, Reading,
                Files
  <1>5. ASSUME NEW p \in Exporters, Build(p)
        PROVE  \A q \in Processes : at'[q] \in Reading =>
                  at[q] \in Reading /\ read'[q]["manifest"] = read[q]["manifest"]
    BY <1>5 DEF Build, BeginExport, Prepare, Export, BuildFails, Describe, Publish, Clean, Go,
                StoreTypes, Reading, Processes
  <1>6. ASSUME \/ \E p \in Loaders : BeginLoad(p)
               \/ \E p \in Processes : Kill(p)
               \/ LosePower \/ Remove \/ UNCHANGED artifactVars
        PROVE  \A q \in Processes : at'[q] \in Reading =>
                  at[q] \in Reading /\ read'[q]["manifest"] = read[q]["manifest"]
    BY <1>6 DEF BeginLoad, Kill, LosePower, Remove, artifactVars, Go, StoreTypes, Reading, Processes,
                Ended
  <1> QED BY <1>2, <1>3, <1>4, <1>5, <1>6, Zenon DEF ArtifactNext, Load
-------------------------------------------------------------------------------
LEMMA ArtifactInvInit == ArtifactInit => ArtifactInv
  <1> SUFFICES ASSUME ArtifactInit PROVE ArtifactInv
    OBVIOUS
  <1>1. ArtifactTypeOK
    BY ArtifactTypesInit, ArtifactTypeParts, Zenon DEF ArtifactInit
  <1>2. \A p \in Processes : at[p] = "idle"
    BY DEF ArtifactInit
  <1>3. (\A p \in Exporters : StagingInv(p)) /\ (\A p \in Processes : ReadInv(p)) /\ SameInv
    BY <1>2 DEF StagingInv, ReadInv, SameInv, Reading, Processes
  <1>4. PublishedIsComplete
    BY DEF ArtifactInit, PublishedIsComplete
  <1> QED BY <1>1, <1>3, <1>4 DEF ArtifactInv

LEMMA ArtifactInvStep == ArtifactInv /\ [ArtifactNext]_artifactVars => ArtifactInv'
  <1> SUFFICES ASSUME ArtifactInv, [ArtifactNext]_artifactVars PROVE ArtifactInv'
    OBVIOUS
  <1>1. StoreTypes /\ removed \in BOOLEAN /\ damaged \in BOOLEAN
    BY ArtifactTypeParts, Zenon DEF ArtifactInv
  <1>2. StoreTypes' /\ \A p \in Exporters : StagingInv(p)'
    BY <1>1, ArtifactTypesStep, StagingStep, Zenon DEF ArtifactInv
  <1>3. /\ removed' \in BOOLEAN /\ damaged' \in BOOLEAN
        /\ (removed => removed') /\ (damaged => damaged')
    BY <1>1, HistoryStays, Zenon
  <1>4. (ArtifactTypeOK <=> StoreTypes /\ removed \in BOOLEAN /\ damaged \in BOOLEAN)'
    BY ArtifactTypeParts, PTL
  <1>5. PublishedIsComplete' /\ \A p \in Processes : ReadInv(p)'
    BY <1>1, <1>3, PublishedStep, ReadStep, Zenon DEF ArtifactInv
  <1>6. ~removed' => SameInv'
    BY <1>1, <1>3, SameStep, Zenon DEF ArtifactInv
  <1> QED BY <1>2, <1>3, <1>4, <1>5, <1>6, Zenon DEF ArtifactInv

LEMMA ArtifactInvariance == ArtifactSpec => []ArtifactInv
  BY ArtifactInvInit, ArtifactInvStep, PTL DEF ArtifactSpec

\* Every variable ranges over the values the processes and the disk can hold.
THEOREM ArtifactTypes == ArtifactSpec => []ArtifactTypeOK
  <1>1. ArtifactInv => ArtifactTypeOK
    BY Zenon DEF ArtifactInv
  <1> QED BY <1>1, ArtifactInvariance, PTL

\* What a load or an export returns were the files of one export, undamaged, when they
\* were verified (artifacts.py:111-155).
THEOREM LoadsAreOneBuild == ArtifactSpec => []LoadedIsOneBuild
  <1>1. ArtifactInv => LoadedIsOneBuild
    <2> SUFFICES ASSUME ArtifactInv, NEW p \in Processes, at[p] = "loaded"
                 PROVE  \E e \in Exporters : read[p] = BuiltBy(e)
      BY DEF LoadedIsOneBuild
    <2>1. read[p] \in [Files -> Contents] /\ read[p]["manifest"] \in Exporters
      BY ArtifactTypeParts DEF ArtifactInv, StoreTypes, ReadInv, Reading
    <2>2. \A f \in Files : read[p][f] = read[p]["manifest"]
      BY DEF ArtifactInv, ReadInv, Files
    <2>3. read[p] = BuiltBy(read[p]["manifest"])
      BY <2>1, <2>2 DEF BuiltBy
    <2> QED BY <2>1, <2>3
  <1> QED BY <1>1, ArtifactInvariance, PTL

\* Unless the artifact is removed or its rename lost, all loads and exports return the same one.
THEOREM AllLoadTheSame == ArtifactSpec => []LoadsAgree
  <1>1. ArtifactInv => LoadsAgree
    <2> SUFFICES ASSUME ArtifactInv, ~removed, NEW p \in Processes, NEW q \in Processes,
                        at[p] = "loaded", at[q] = "loaded"
                 PROVE  read[p] = read[q]
      BY DEF LoadsAgree
    <2>1. read[p] \in [Files -> Contents] /\ read[q] \in [Files -> Contents]
      BY ArtifactTypeParts DEF ArtifactInv, StoreTypes
    <2>2. read[p]["manifest"] = read[q]["manifest"]
      BY DEF ArtifactInv, SameInv, Reading
    <2>3. \A f \in Files : read[p][f] = read[q][f]
      BY <2>2 DEF ArtifactInv, ReadInv, Files
    <2> QED BY <2>1, <2>3
  <1> QED BY <1>1, ArtifactInvariance, PTL

\* Wherever exports are killed, the artifact is absent or complete (exporter.py:104-160).
THEOREM PublishedAtOnce == ArtifactSpec => []PublishedIsComplete
  <1>1. ArtifactInv => PublishedIsComplete
    BY Zenon DEF ArtifactInv
  <1> QED BY <1>1, ArtifactInvariance, PTL
===============================================================================
