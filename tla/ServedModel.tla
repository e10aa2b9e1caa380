------------------------------- MODULE ServedModel -------------------------------
(***************************************************************************)
(* What a request meets of the settings and of ModelRuntime                *)
(* (src/reranker_service/runtime.py): the settings, from which cache keys  *)
(* and responses are made, and the active model, which computes.  They are *)
(* kept apart, as the code keeps them: a model is installed with the       *)
(* length it was loaded with, a new length reaches only the model that is  *)
(* active, and the initial load installs its model whatever was activated  *)
(* before it returned.                                                     *)
(*                                                                         *)
(* ModelLifecycle implements this module.  Here the lock, the operation    *)
(* and the candidate are not seen: an activation installs some model, with *)
(* the length that was in force when its load began, which may be any.     *)
(***************************************************************************)
EXTENDS Naturals

CONSTANTS Names,    \* allowed models with their resolved revisions
          Lengths,  \* values of settings.max_length
          NoModel   \* None in place of a model

VARIABLES
    config,   \* settings.model with its revision, and settings.max_length
    model,    \* the active model: its name, and the length it infers with
    previous, \* the previous one, and the name it would be restored under, if any
    boot      \* the initial load: its step and its arguments

served == <<config, model, previous, boot>>

Configs == [name : Names, length : Lengths]
Parts == {"name", "length"}

\* ModelRuntime.ready.
Ready == boot.step = "up"

\* Where the active model is not what the settings say.
Apart == {p \in Parts : model = NoModel \/ model[p] # config[p]}

-------------------------------------------------------------------------------
\* A process has started, and its initial load.
ServedInit == /\ config \in Configs
              /\ model = NoModel /\ previous = <<>>
              /\ boot = [step |-> "loading", as |-> config]

\* load installs its model, then warms it up, and is ready.
BootReturns == /\ boot.step = "loading"
               /\ model' = boot.as
               /\ boot' = [step |-> "warming"]
               /\ UNCHANGED <<config, previous>>

BootWarm == /\ boot.step = "warming"
            /\ boot' = [step |-> "up"]
            /\ UNCHANGED <<config, model, previous>>

BootFails == /\ boot.step \in {"loading", "warming"}
             /\ boot' = [step |-> "failed"]
             /\ UNCHANGED <<config, model, previous>>

\* m is installed, and the settings take the name n; the length stays what it is.
Install(m, n) == /\ model' = m
                 /\ config' = [config EXCEPT !.name = n]
                 /\ previous' = <<[model |-> model, name |-> config.name]>>
                 /\ UNCHANGED boot

\* activate_candidate, and rollback.
Activate == boot.step # "down" /\ \E m \in Configs : Install(m, m.name)
Rollback == previous # <<>> /\ Install(previous[1].model, previous[1].name)

\* PATCH of max_length: it reaches the model that is active, if there is one.
Reconfigure ==
    /\ boot.step # "down"
    /\ \E l \in Lengths :
          /\ config' = [config EXCEPT !.length = l]
          /\ model' = IF model = NoModel THEN NoModel ELSE [model EXCEPT !.length = l]
    /\ UNCHANGED <<previous, boot>>

\* The process shuts down or dies.
Stop == /\ boot.step # "down"
        /\ model' = NoModel /\ previous' = <<>>
        /\ boot' = [step |-> "down"]
        /\ UNCHANGED config

\* It is started again, with the settings of its environment.
Launch == /\ boot.step = "down"
          /\ \E c \in Configs : /\ config' = c
                               /\ boot' = [step |-> "loading", as |-> c]
          /\ UNCHANGED <<model, previous>>

\* Administrators, and the initial load.
Change == BootReturns \/ BootWarm \/ BootFails \/ Activate \/ Rollback \/ Reconfigure

ServedNext == Change \/ Stop \/ Launch
ServedSpec == ServedInit /\ [][ServedNext]_served
-------------------------------------------------------------------------------
ServedTypeOK ==
    /\ config \in Configs
    /\ model \in Configs \cup {NoModel}
    /\ previous \in {<<>>} \cup {<<s>> : s \in [model : Configs \cup {NoModel}, name : Names]}
    /\ boot \in [step : {"loading"}, as : Configs]
                \cup [step : {"warming", "up", "failed", "down"}]
===============================================================================
