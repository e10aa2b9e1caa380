----------------------------- MODULE ModelLifecycle -----------------------------
(***************************************************************************)
(* The models a ModelRuntime holds (src/reranker_service/runtime.py): the  *)
(* active one, the candidate loaded beside it, the previous one kept for a *)
(* rollback; and the administrators' operations on them, which take turns  *)
(* under one asyncio.Lock while the initial load runs outside it.          *)
(*                                                                         *)
(* A model's name and revision are one value.  A loaded model is an object *)
(* with the name and the max_length it infers with; an object nobody       *)
(* refers to is garbage and is used again for the next load.  A slot that  *)
(* may be None is a sequence of at most one element.                       *)
(***************************************************************************)
EXTENDS Naturals, Sequences, FiniteSets, SequencesExt

CONSTANTS Names,     \* allowed models with their resolved revisions
          Lengths,   \* values of settings.max_length
          Objects,   \* loaded models
          Admins,    \* requests of administrators
          Callers,   \* inferences that occupy a thread
          Room,      \* how many loaded models fit in memory
          NoObject,  \* None in place of an object
          Free       \* the lock's owner when it has none

ASSUME LifecycleAssumption ==
    /\ Names # {} /\ Lengths # {} /\ Room \in Nat
    /\ NoObject \notin Objects /\ Free \notin Admins
    /\ NoObject \notin [name : Names, length : Lengths]
    /\ IsFiniteSet(Objects) /\ IsFiniteSet(Callers)
    /\ Cardinality(Objects) > Cardinality(Callers) + 4

VARIABLES
    config,     \* settings.model with its revision, and settings.max_length
    built,      \* what each object was loaded as, and the length it uses now
    unloaded,   \* objects given to backend.unload
    model,      \* ModelRuntime.model
    candidate,  \* candidate and candidate_info
    previous,   \* previous
    ready,      \* ready
    boot,       \* the initial load: its step and its arguments
    lock, line, \* _model_lock: its owner and the tasks waiting, oldest first
    admin,      \* where each administrator's request is
    operation,  \* type and status of ModelRuntime.operation
    using,      \* the object each inference captured
    closed,     \* the application has shut down
    overtaken   \* history: the initial load replaced a model an administrator activated

slots == <<model, candidate, previous>>
lockVars == <<lock, line>>
vars == <<config, built, unloaded, slots, ready, boot, lockVars, admin, operation,
          using, closed, overtaken>>

Settings == [name : Names, length : Lengths]
Idle == [step |-> "idle"]
\* Requests suspended in _model_lock.acquire.
Waiting == {"load_waits", "activate_waits", "rollback_waits"}

InSlots == {model} \cup {candidate[i].model : i \in DOMAIN candidate}
                   \cup {previous[i].model : i \in DOMAIN previous}
Tested == {admin[a].object : a \in {x \in Admins : admin[x].step = "testing"}}
InUse == (InSlots \cup Tested \cup {using[c] : c \in Callers}) \ {NoObject}

\* check_candidate: memory has room for one more model at this moment.
Headroom == Cardinality(InUse) < Room

Op(type, status) == operation' = [type |-> type, status |-> status]
-------------------------------------------------------------------------------
\* The lifespan has created the task that loads the configured model.
Init == /\ config \in Settings
        /\ built = [o \in Objects |-> config]
        /\ unloaded = {}
        /\ model = NoObject /\ candidate = <<>> /\ previous = <<>>
        /\ ready = FALSE
        /\ boot = [step |-> "loading", as |-> config]
        /\ lock = Free /\ line = <<>>
        /\ admin = [a \in Admins |-> Idle]
        /\ operation = [type |-> "initial_load", status |-> "running"]
        /\ using = [c \in Callers |-> NoObject]
        /\ closed = FALSE /\ overtaken = FALSE

\* The next model, loaded as s.  Which object it is, is immaterial, and so is what
\* the other objects nobody refers to were.
New == CHOOSE o \in Objects : o \notin InUse
Fresh(s) == /\ built' = [o \in Objects |-> IF o \in InUse THEN built[o] ELSE s]
            /\ unloaded' = unloaded \cap InUse

\* load: the model replaces whatever is active, before its warm-up.
BootReturns ==
    /\ boot.step = "loading"
    /\ Fresh(boot.as)
    /\ model' = New
    /\ boot' = [step |-> "warming"]
    /\ overtaken' = (model # NoObject)
    /\ UNCHANGED <<config, candidate, previous, ready, lockVars, admin, operation, using,
                   closed>>

BootWarm ==
    /\ boot.step = "warming"
    /\ ready' = TRUE
    /\ boot' = [step |-> "up"]
    /\ Op("initial_load", "completed")
    /\ UNCHANGED <<config, built, unloaded, slots, lockVars, admin, using, closed, overtaken>>

\* Loading or warming up raises: the model, if there is one, stays, but is not ready.
BootFails ==
    /\ boot.step \in {"loading", "warming"}
    /\ boot' = [step |-> "failed"]
    /\ Op("initial_load", "error")
    /\ UNCHANGED <<config, built, unloaded, slots, ready, lockVars, admin, using, closed, overtaken>>
-------------------------------------------------------------------------------
\* Faulty Release: forgets the requests in line.
ReleaseAlone(a) == /\ lock' = Free
                   /\ line' = <<>>
                   /\ admin' = [admin EXCEPT ![a] = Idle]

\* The request ends and hands the lock on.
Release(a) == /\ lock' = IF line = <<>> THEN Free ELSE Head(line)
              /\ line' = IF line = <<>> THEN <<>> ELSE Tail(line)
              /\ admin' = [admin EXCEPT ![a] = Idle]

\* The lock is taken: the request waits with r.
Queue(a, r) == /\ lock # Free
               /\ line' = Append(line, a)
               /\ admin' = [admin EXCEPT ![a] = r]
               /\ UNCHANGED lock

\* backend.load is called with the length in force at this moment.
StartLoad(a, n) ==
    /\ lock' = a
    /\ admin' = [admin EXCEPT ![a] = [step |-> "loading",
                                      as |-> [name |-> n, length |-> config.length]]]

\* The server accepts a request.
Available(a) == ~closed /\ admin[a] = Idle

\* load_candidate up to its first suspension, the candidate being acceptable.
LoadCandidate(a, n) ==
    /\ Available(a) /\ Headroom
    /\ Op("candidate_load", "running")
    /\ \/ lock = Free /\ StartLoad(a, n) /\ UNCHANGED line
       \/ Queue(a, [step |-> "load_waits", name |-> n])
    /\ UNCHANGED <<config, built, unloaded, slots, ready, boot, using, closed, overtaken>>

ResumeLoad(a) ==
    /\ admin[a].step = "load_waits" /\ lock = a
    /\ StartLoad(a, admin[a].name)
    /\ UNCHANGED <<config, built, unloaded, slots, ready, boot, line, operation, using,
                   closed, overtaken>>

\* Faulty CheckEnds: the early return leaves the operation running.
CheckEndsSilently(a) ==
    /\ Available(a)
    /\ \/ Op("candidate_load", "error")
       \/ ~Headroom /\ Op("candidate_load", "running")
    /\ UNCHANGED <<config, built, unloaded, slots, ready, boot, lockVars, admin, using,
                   closed, overtaken>>

\* load_candidate ends at its check: the candidate is not allowed or not resolved
\* (error), or there is no memory for a second model (completed).
CheckEnds(a) ==
    /\ Available(a)
    /\ \/ Op("candidate_load", "error")
       \/ ~Headroom /\ Op("candidate_load", "completed")
    /\ UNCHANGED <<config, built, unloaded, slots, ready, boot, lockVars, admin, using,
                   closed, overtaken>>

LoadReturns(a) ==
    /\ admin[a].step = "loading"
    /\ Fresh(admin[a].as)
    /\ admin' = [admin EXCEPT ![a] = [step |-> "testing", as |-> @.as, object |-> New]]
    /\ UNCHANGED <<config, slots, ready, boot, lockVars, operation, using, closed, overtaken>>

LoadRaises(a) ==
    /\ admin[a].step = "loading"
    /\ Op("candidate_load", "error")
    /\ Release(a)
    /\ UNCHANGED <<config, built, unloaded, slots, ready, boot, using, closed, overtaken>>

\* The smoke test of the candidate passes; it replaces the candidate before it.
TestPasses(a) ==
    /\ admin[a].step = "testing"
    /\ candidate' = <<[model |-> admin[a].object, name |-> admin[a].as.name]>>
    /\ Op("candidate_load", "completed")
    /\ Release(a)
    /\ UNCHANGED <<config, built, unloaded, model, previous, ready, boot, using, closed, overtaken>>

\* Faulty TestFails: the candidate was stored before its smoke test.
TestFailsStored(a) ==
    /\ admin[a].step = "testing"
    /\ candidate' = <<[model |-> admin[a].object, name |-> admin[a].as.name]>>
    /\ unloaded' = unloaded \cup {admin[a].object}
    /\ Op("candidate_load", "error")
    /\ Release(a)
    /\ UNCHANGED <<config, built, model, previous, ready, boot, using, closed, overtaken>>

TestFails(a) ==
    /\ admin[a].step = "testing"
    /\ unloaded' = unloaded \cup {admin[a].object}
    /\ Op("candidate_load", "error")
    /\ Release(a)
    /\ UNCHANGED <<config, built, slots, ready, boot, using, closed, overtaken>>
-------------------------------------------------------------------------------
\* Faulty Activation: the active model is replaced before it is remembered.
ActivationForgets ==
    IF candidate = <<>>
    THEN Op("candidate_activate", "error") /\ UNCHANGED <<config, slots>>
    ELSE /\ previous' = <<[model |-> candidate[1].model, name |-> config.name]>>
         /\ model' = candidate[1].model
         /\ config' = [config EXCEPT !.name = candidate[1].name]
         /\ candidate' = <<>>
         /\ Op("candidate_activate", "completed")

\* Faulty Activation: the settings keep the old model's name.
ActivationUnnamed ==
    IF candidate = <<>>
    THEN Op("candidate_activate", "error") /\ UNCHANGED <<config, slots>>
    ELSE /\ previous' = <<[model |-> model, name |-> config.name]>>
         /\ model' = candidate[1].model
         /\ candidate' = <<>>
         /\ Op("candidate_activate", "completed")
         /\ UNCHANGED config

\* The body of activate_candidate, under the lock and without a suspension.
Activation ==
    IF candidate = <<>>
    THEN Op("candidate_activate", "error") /\ UNCHANGED <<config, slots>>
    ELSE /\ previous' = <<[model |-> model, name |-> config.name]>>
         /\ model' = candidate[1].model
         /\ config' = [config EXCEPT !.name = candidate[1].name]
         /\ candidate' = <<>>
         /\ Op("candidate_activate", "completed")

\* The body of rollback.  previous is never None again once a model was activated.
Restoration ==
    /\ model' = previous[1].model
    /\ config' = [config EXCEPT !.name = previous[1].name]
    /\ previous' = <<[model |-> model, name |-> config.name]>>
    /\ Op("rollback", "completed")
    /\ UNCHANGED candidate

ActivateCandidate(a) ==
    /\ Available(a)
    /\ \/ lock = Free /\ Activation /\ UNCHANGED <<lockVars, admin>>
       \/ /\ Queue(a, [step |-> "activate_waits"])
          /\ Op("candidate_activate", "running")
          /\ UNCHANGED <<config, slots>>
    /\ UNCHANGED <<built, unloaded, ready, boot, using, closed, overtaken>>

\* POST /v1/admin/runtime/rollback, there being a previous model.
Rollback(a) ==
    /\ Available(a) /\ previous # <<>>
    /\ \/ lock = Free /\ Restoration /\ UNCHANGED <<lockVars, admin>>
       \/ /\ Queue(a, [step |-> "rollback_waits"])
          /\ Op("rollback", "running")
          /\ UNCHANGED <<config, slots>>
    /\ UNCHANGED <<built, unloaded, ready, boot, using, closed, overtaken>>

ResumeSwitch(a) ==
    /\ lock = a
    /\ \/ admin[a].step = "activate_waits" /\ Activation
       \/ admin[a].step = "rollback_waits" /\ Restoration
    /\ Release(a)
    /\ UNCHANGED <<built, unloaded, ready, boot, using, closed, overtaken>>

\* PATCH /v1/admin/runtime: the new length reaches the active model only.
Reconfigure ==
    /\ ~closed
    /\ \E l \in Lengths :
          /\ config' = [config EXCEPT !.length = l]
          /\ built' = IF model = NoObject THEN built ELSE [built EXCEPT ![model].length = l]
    /\ UNCHANGED <<unloaded, slots, ready, boot, lockVars, admin, operation, using, closed, overtaken>>
-------------------------------------------------------------------------------
\* predict reads self.model and hands it to a thread.
PredictStarts(c) ==
    /\ ready /\ ~closed /\ using[c] = NoObject
    /\ using' = [using EXCEPT ![c] = model]
    /\ UNCHANGED <<config, built, unloaded, slots, ready, boot, lockVars, admin,
                   operation, closed, overtaken>>

PredictEnds(c) ==
    /\ using[c] # NoObject
    /\ using' = [using EXCEPT ![c] = NoObject]
    /\ UNCHANGED <<config, built, unloaded, slots, ready, boot, lockVars, admin,
                   operation, closed, overtaken>>

\* Shutdown, once no request is in progress; a thread whose caller gave up may be.
\* The task of the initial load is cancelled if it has not ended.
Close ==
    /\ ~closed
    /\ \A a \in Admins : admin[a] = Idle
    /\ unloaded' = unloaded \cup (InSlots \ {NoObject})
    /\ model' = NoObject /\ candidate' = <<>> /\ previous' = <<>>
    /\ boot' = IF boot.step \in {"up", "failed"} THEN boot ELSE [step |-> "cancelled"]
    /\ closed' = TRUE
    /\ UNCHANGED <<config, built, ready, lockVars, admin, operation, using, overtaken>>

Boot == BootReturns \/ BootWarm \/ BootFails

Request(a) == \/ \E n \in Names : LoadCandidate(a, n)
              \/ CheckEnds(a)
              \/ ActivateCandidate(a)
              \/ Rollback(a)

Proceed(a) == \/ ResumeLoad(a) \/ ResumeSwitch(a)
              \/ LoadReturns(a) \/ LoadRaises(a)
              \/ TestPasses(a) \/ TestFails(a)

Next == \/ Boot
        \/ \E a \in Admins : Request(a) \/ Proceed(a)
        \/ \E c \in Callers : PredictStarts(c) \/ PredictEnds(c)
        \/ Reconfigure
        \/ Close

\* Every call of a backend returns or raises, and the event loop runs its tasks.
Fairness == \A a \in Admins : WF_vars(Proceed(a))

Spec == Init /\ [][Next]_vars /\ Fairness
-------------------------------------------------------------------------------
Slot == {[model |-> o, name |-> n] : o \in Objects \cup {NoObject}, n \in Names}

\* Every variable ranges over the values the code can hold.
TypeOK ==
    /\ config \in Settings
    /\ built \in [Objects -> Settings]
    /\ unloaded \subseteq Objects
    /\ model \in Objects \cup {NoObject}
    /\ candidate \in {<<>>} \cup {<<s>> : s \in Slot}
    /\ previous \in {<<>>} \cup {<<s>> : s \in Slot}
    /\ ready \in BOOLEAN /\ closed \in BOOLEAN /\ overtaken \in BOOLEAN
    /\ boot \in [step : {"loading"}, as : Settings]
              \cup [step : {"warming", "up", "failed", "cancelled"}]
    /\ lock \in Admins \cup {Free}
    /\ line \in Seq(Admins)
    /\ admin \in [Admins ->
                    {Idle}
                    \cup [step : {"load_waits"}, name : Names]
                    \cup [step : {"activate_waits", "rollback_waits"}]
                    \cup [step : {"loading"}, as : Settings]
                    \cup [step : {"testing"}, as : Settings, object : Objects]]
    /\ operation \in [type : {"initial_load", "candidate_load", "candidate_activate",
                              "rollback"},
                      status : {"running", "completed", "error"}]
    /\ using \in [Callers -> Objects \cup {NoObject}]

\* An inference never runs, and an activation or a rollback never installs, a model
\* that was given to backend.unload: a candidate that failed its smoke test is gone.
NothingUnloadedInUse == ~closed => InUse \cap unloaded = {}

\* Whatever administrators do meanwhile, once nothing is in progress the operation
\* that runtime.state() reports has settled.
OperationSettles ==
    (\A a \in Admins : admin[a] = Idle) /\ boot.step \in {"up", "failed"}
        => operation.status # "running"

\* While the service is ready it serves a model, and under that model's own name unless
\* an administrator's activation was overtaken by the initial load, which takes no lock;
\* and what an activation or a rollback would install is named for what it is.
ServedAsNamed ==
    overtaken \/
    /\ ready /\ ~closed => model # NoObject /\ built[model].name = config.name
    /\ \A s \in ToSet(candidate \o previous) :
          s.model # NoObject => built[s.model].name = s.name

\* Whenever the active model of a ready service changes, a rollback would restore
\* exactly the model and the name that served before.
RollbackUndoes ==
    [][ready /\ model' # model /\ ~closed'
          => previous' = <<[model |-> model, name |-> config.name]>>]_vars

\* Every administrator's request ends, also behind others that fail.
EveryRequestEnds == \A a \in Admins : admin[a] # Idle ~> admin[a] = Idle

\* What requests meet of all this is ServedModel: settings and active model change only
\* as an activation, a rollback, a PATCH, the initial load or the shutdown changes them.
Installed(o) == IF o = NoObject THEN NoObject ELSE built[o]
ModelSeen == Installed(model)
PreviousSeen == [i \in DOMAIN previous |-> [model |-> Installed(previous[i].model),
                                            name |-> previous[i].name]]
BootSeen == IF closed THEN [step |-> "down"] ELSE boot
Served == INSTANCE ServedModel WITH NoModel <- NoObject, model <- ModelSeen,
                                    previous <- PreviousSeen, boot <- BootSeen
ImplementsServedModel == Served!ServedSpec
================================================================================
