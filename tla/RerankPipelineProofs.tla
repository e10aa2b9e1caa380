-------------------------- MODULE RerankPipelineProofs --------------------------
(***************************************************************************)
(* For any requests, documents, models and lengths: the types of           *)
(* RerankPipeline; that listwise answers rank the scores of one model;     *)
(* that the cache and the responses are honest about the model's name and  *)
(* length, each until settings and active model differ in it, or it is     *)
(* changed, while a request is in progress; and that the pipeline is safe  *)
(* as PlainRerank.                                                         *)
(***************************************************************************)
EXTENDS RerankPipeline, TLAPS

(* The inductive invariant.                                                *)

\* A cache command has the keys it was sent with.
KeysInv(r) == stage[r] \in {"lookup", "storing"} => keys[r] \in Configs

\* Only a request that infers or stores has something to store, and only documents it
\* was asked for; it stores and answers with all of its scores.
ScoresInv(r) ==
    /\ stage[r] \notin {"inferring", "storing"} => toStore[r] = {}
    /\ toStore[r] \subseteq asked[r]
    /\ stage[r] \in {"storing", "answered"} => \A d \in asked[r] : scores[r][d] # NoScore

\* A listwise request meets no cache, and has all of its scores from one call, or none.
ListwiseInv(r) ==
    listwise => /\ stage[r] \notin {"lookup", "storing"}
                /\ \A d, e \in asked[r] : scores[r][d] = scores[r][e]

\* The scores of request r that there are, are right in the part p.
Right(r, p) == \A d \in asked[r] : scores[r][d] # NoScore => scores[r][d][p] = config[p]

\* Where nothing was disturbed, a request in progress has met one configuration only: in
\* the settings, the model, its keys, its scores and the name it will give; and a response
\* gives the name that goes with its scores.
SteadyInv(r, p) ==
    /\ stage[r] \in Unfinished =>
          /\ model # NoModel /\ model[p] = config[p]
          /\ stage[r] \in {"lookup", "storing"} => keys[r][p] = config[p]
          /\ Right(r, p)
          /\ p = "name" => named[r] = {config[p]}
    /\ stage[r] = "answered" /\ p = "name" =>
          \A d \in asked[r] : named[r] = {scores[r][d][p]}

\* No request is in progress while the process is down.
DownInv == boot.step = "down" => Quiet

Inv == /\ TypeOK
       /\ DownInv
       /\ \A r \in Requests : KeysInv(r) /\ ScoresInv(r) /\ ListwiseInv(r)
       /\ \A p \in Parts \ disturbed : Honest(p) /\ \A r \in Requests : SteadyInv(r, p)
-------------------------------------------------------------------------------
(* Types of the settings and the model.                                    *)

LEMMA ServedTypeInit == ASSUME ServedInit PROVE ServedTypeOK
  BY DEF ServedInit, ServedTypeOK, Configs

LEMMA InstallTypes ==
    ASSUME ServedTypeOK, NEW m \in Configs \cup {NoModel}, NEW n \in Names, Install(m, n)
    PROVE  ServedTypeOK'
  <1>1. config' \in Configs
    BY DEF ServedTypeOK, Install, Configs
  <1>2. config.name \in Names
    BY DEF ServedTypeOK, Configs
  <1>3. previous' \in {<<s>> : s \in [model : Configs \cup {NoModel}, name : Names]}
    BY <1>2 DEF ServedTypeOK, Install
  <1> QED BY <1>1, <1>3 DEF ServedTypeOK, Install

LEMMA ServedTypeStep == ASSUME ServedTypeOK, ServedNext PROVE ServedTypeOK'
  <1>1. CASE BootReturns \/ BootWarm \/ BootFails
    BY <1>1 DEF ServedTypeOK, BootReturns, BootWarm, BootFails
  <1>2. CASE Activate
    <2>1. PICK m \in Configs : Install(m, m.name)
      BY <1>2 DEF Activate
    <2>2. m.name \in Names
      BY DEF Configs
    <2> QED BY <2>1, <2>2, InstallTypes
  <1>3. CASE Rollback
    <2>1. previous # <<>> /\ Install(previous[1].model, previous[1].name)
      BY <1>3 DEF Rollback
    <2>2. PICK s \in [model : Configs \cup {NoModel}, name : Names] : previous = <<s>>
      BY <2>1 DEF ServedTypeOK
    <2>3. previous[1].model \in Configs \cup {NoModel} /\ previous[1].name \in Names
      BY <2>2
    <2> QED BY <2>1, <2>3, InstallTypes
  <1>4. CASE Reconfigure
    <2>1. PICK l \in Lengths :
             /\ config' = [config EXCEPT !.length = l]
             /\ model' = IF model = NoModel THEN NoModel ELSE [model EXCEPT !.length = l]
      BY <1>4 DEF Reconfigure
    <2>2. config' \in Configs /\ model' \in Configs \cup {NoModel}
      BY <2>1 DEF ServedTypeOK, Configs
    <2> QED BY <1>4, <2>2 DEF Reconfigure, ServedTypeOK
  <1>5. CASE Stop
    BY <1>5 DEF ServedTypeOK, Stop
  <1>6. CASE Launch
    BY <1>6 DEF ServedTypeOK, Launch
  <1> QED BY <1>1, <1>2, <1>3, <1>4, <1>5, <1>6 DEF ServedNext, Change
-------------------------------------------------------------------------------
(* Types.  The Boolean variables are apart, for provers of their own.      *)

Flags == enabled \in BOOLEAN /\ listwise \in BOOLEAN
Types ==
    /\ cache \in [Docs -> [Configs -> Score]]
    /\ stage \in [Requests -> Unfinished \cup {"idle", "answered", "failed"}]
    /\ asked \in [Requests -> SUBSET Docs]
    /\ keys \in [Requests -> Configs \cup {NoModel}]
    /\ scores \in [Requests -> [Docs -> Score]]
    /\ toStore \in [Requests -> SUBSET Docs]
    /\ named \in [Requests -> SUBSET Names]
    /\ disturbed \subseteq Parts

LEMMA TypeParts == TypeOK <=> ServedTypeOK /\ Flags /\ Types
  BY Zenon DEF TypeOK, Flags, Types

\* What the parts of the types mean where they are used.
LEMMA ServedParts ==
    ASSUME ServedTypeOK
    PROVE  config \in Configs /\ model \in Configs \cup {NoModel} /\ config.name \in Names
  BY DEF ServedTypeOK, Configs

LEMMA FlagsStep == ASSUME Flags, [Next]_vars PROVE Flags'
  <1> USE DEF Flags
  <1>1. ASSUME NEW r \in Requests,
               Start(r) \/ Proceed(r) \/ Infer(r) \/ Set(r)
        PROVE  Flags'
    BY <1>1, Zenon DEF Start, Proceed, LookupReturns, InferFails, Scored, StoreEnds, Infer,
                       Set, settings
  <1>2. CASE Administer \/ Crash \/ Restart
    BY <1>2, Zenon DEF Administer, Crash, Restart
  <1>3. CASE ToggleCache
    BY <1>3, Zenon DEF ToggleCache
  <1>4. CASE Expire
    BY <1>4, Zenon DEF Expire, settings
  <1>5. CASE UNCHANGED vars
    BY <1>5, Zenon DEF vars, settings
  <1> QED BY <1>1, <1>2, <1>3, <1>4, <1>5, Zenon DEF Next

\* Settings and model change only as ServedModel lets them.
LEMMA ServedStep == ASSUME [Next]_vars PROVE [ServedNext]_served
  <1>1. ASSUME NEW r \in Requests,
               Start(r) \/ Proceed(r) \/ Infer(r) \/ Set(r)
        PROVE  UNCHANGED served
    BY <1>1, Zenon DEF Start, Proceed, LookupReturns, InferFails, Scored, StoreEnds, Infer,
                       Set, settings
  <1>2. CASE Administer \/ Crash \/ Restart
    BY <1>2, Zenon DEF Administer, Crash, Restart, ServedNext
  <1>3. CASE ToggleCache \/ Expire \/ UNCHANGED vars
    BY <1>3, Zenon DEF ToggleCache, Expire, vars, settings
  <1> QED BY <1>1, <1>2, <1>3, Zenon DEF Next

LEMMA ServedKept == ASSUME ServedTypeOK, [Next]_vars PROVE ServedTypeOK'
  <1>1. CASE UNCHANGED served
    BY <1>1 DEF served, ServedTypeOK
  <1> QED BY <1>1, ServedStep, ServedTypeStep, Zenon

\* What LookupReturns and Scored do, without their case distinctions.
Responds(r) == /\ stage' = [stage EXCEPT ![r] = "answered"]
               /\ keys' = [keys EXCEPT ![r] = NoModel]
               /\ named' = [named EXCEPT ![r] = @ \cup {config.name}]

LookedUp(r) ==
    /\ stage[r] = "lookup"
    /\ scores' = [scores EXCEPT ![r] = scores'[r]]
    /\ scores'[r] \in [Docs -> Score]
    /\ \A d \in Docs : scores'[r][d] \in {cache[d][keys[r]], NoScore}
    /\ \/ Responds(r) /\ \A d \in asked[r] : scores'[r][d] # NoScore
       \/ /\ stage' = [stage EXCEPT ![r] = "inferring"]
          /\ keys' = [keys EXCEPT ![r] = NoModel]
          /\ named' = named
    /\ served' = served /\ cache' = cache /\ asked' = asked /\ toStore' = toStore
    /\ disturbed' = disturbed

LEMMA LookupEffect ==
    ASSUME Types, NEW r \in Requests, KeysInv(r), LookupReturns(r)
    PROVE  LookedUp(r)
  <1>1. PICK found \in {asked[r], {}} :
           scores' = [scores EXCEPT ![r] =
                        [d \in Docs |-> IF d \in found THEN cache[d][keys[r]] ELSE NoScore]]
    BY DEF LookupReturns
  <1>2. keys[r] \in Configs
    BY DEF LookupReturns, KeysInv
  <1>3. \A d \in Docs : cache[d][keys[r]] \in Score
    BY <1>2 DEF Types
  <1>4. scores'[r] = [d \in Docs |-> IF d \in found THEN cache[d][keys[r]] ELSE NoScore]
    BY <1>1 DEF Types
  <1>5. scores'[r] \in [Docs -> Score]
    BY <1>3, <1>4 DEF Score
  <1>6. \A d \in Docs : scores'[r][d] \in {cache[d][keys[r]], NoScore}
    BY <1>4
  <1>7. \/ Responds(r) /\ \A d \in asked[r] : scores'[r][d] # NoScore
        \/ /\ stage' = [stage EXCEPT ![r] = "inferring"]
           /\ keys' = [keys EXCEPT ![r] = NoModel]
           /\ named' = named
    BY Zenon DEF LookupReturns, Respond, Responds
  <1>8. stage[r] = "lookup" /\ UNCHANGED <<served, cache, asked, toStore, disturbed>>
    BY DEF LookupReturns, settings
  <1>9. scores' = [scores EXCEPT ![r] = scores'[r]]
    BY <1>1, <1>4
  <1> QED BY <1>5, <1>6, <1>7, <1>8, <1>9 DEF LookedUp

AllScored(r) ==
    /\ stage[r] = "inferring"
    /\ \A d \in asked[r] : scores[r][d] # NoScore
    /\ \/ /\ stage' = [stage EXCEPT ![r] = "storing"]
          /\ keys' = [keys EXCEPT ![r] = config]
          /\ toStore' = toStore /\ named' = named
          /\ ~listwise
       \/ /\ Responds(r)
          /\ toStore' = [toStore EXCEPT ![r] = {}]
    /\ served' = served /\ cache' = cache /\ asked' = asked /\ scores' = scores
    /\ disturbed' = disturbed

LEMMA ScoredEffect == ASSUME NEW r \in Requests, Scored(r) PROVE AllScored(r)
  <1>1. \A d \in asked[r] : scores[r][d] # NoScore
    BY Zenon DEF Scored, Misses
  <1>2. \/ /\ stage' = [stage EXCEPT ![r] = "storing"]
           /\ keys' = [keys EXCEPT ![r] = config]
           /\ toStore' = toStore /\ named' = named
           /\ ~listwise
        \/ /\ Responds(r)
           /\ toStore' = [toStore EXCEPT ![r] = {}]
    BY Zenon DEF Scored, Respond, Responds
  <1> QED BY <1>1, <1>2, Zenon DEF Scored, settings, AllScored

LEMMA RespondTypes ==
    ASSUME ServedTypeOK, Types, NEW r \in Requests, Responds(r)
    PROVE  /\ stage' \in [Requests -> Unfinished \cup {"idle", "answered", "failed"}]
           /\ keys' \in [Requests -> Configs \cup {NoModel}]
           /\ named' \in [Requests -> SUBSET Names]
  BY ServedParts DEF Types, Responds

LEMMA TypesStep ==
    ASSUME ServedTypeOK, Types, [Next]_vars, \A r \in Requests : KeysInv(r)
    PROVE  Types'
  <1> USE DEF Types, Score
  <1>0. config \in Configs /\ model \in Configs \cup {NoModel} /\ Apart \subseteq Parts
    BY ServedParts DEF Apart
  <1>1. ASSUME NEW r \in Requests, Start(r) PROVE Types'
    <2>1. asked' \in [Requests -> SUBSET Docs]
      BY <1>1 DEF Start
    <2>2. /\ stage' \in [Requests -> Unfinished \cup {"idle", "answered", "failed"}]
          /\ keys' \in [Requests -> Configs \cup {NoModel}]
      <3>1. stage' \in {[stage EXCEPT ![r] = s] : s \in {"lookup", "inferring"}}
            /\ keys' \in {keys, [keys EXCEPT ![r] = config]}
        BY <1>1, Zenon DEF Start
      <3> QED BY <1>0, <3>1 DEF Unfinished
    <2>3. named' \in [Requests -> SUBSET Names]
      <3>1. (IF model = NoModel THEN {} ELSE {model.name}) \in SUBSET Names
        BY <1>0 DEF Configs
      <3> QED BY <1>1, <3>1 DEF Start
    <2>4. scores' \in [Requests -> [Docs -> Score]]
      BY <1>1 DEF Start, NoScores
    <2> QED BY <1>0, <1>1, <2>1, <2>2, <2>3, <2>4 DEF Start
  <1>2. ASSUME NEW r \in Requests, LookupReturns(r) PROVE Types'
    <2>1. LookedUp(r)
      BY <1>2, LookupEffect
    <2>2. scores' \in [Requests -> [Docs -> Score]]
      BY <2>1 DEF LookedUp
    <2>3. CASE Responds(r)
      BY <2>1, <2>2, <2>3, RespondTypes DEF LookedUp
    <2>4. CASE /\ stage' = [stage EXCEPT ![r] = "inferring"]
               /\ keys' = [keys EXCEPT ![r] = NoModel]
               /\ named' = named
      BY <2>1, <2>2, <2>4 DEF LookedUp, Unfinished
    <2> QED BY <2>1, <2>3, <2>4, Zenon DEF LookedUp
  <1>3. ASSUME NEW r \in Requests, InferFails(r) PROVE Types'
    BY <1>3 DEF InferFails, NoScores
  <1>4. ASSUME NEW r \in Requests, Scored(r) PROVE Types'
    <2>1. AllScored(r)
      BY <1>4, ScoredEffect
    <2>2. toStore' \in [Requests -> SUBSET Docs]
      BY <2>1 DEF AllScored
    <2>3. CASE Responds(r)
      BY <2>1, <2>2, <2>3, RespondTypes DEF AllScored
    <2>4. CASE /\ stage' = [stage EXCEPT ![r] = "storing"]
               /\ keys' = [keys EXCEPT ![r] = config]
               /\ named' = named
      BY <1>0, <2>1, <2>2, <2>4 DEF AllScored, Unfinished
    <2> QED BY <2>1, <2>3, <2>4, Zenon DEF AllScored
  <1>5. ASSUME NEW r \in Requests, StoreEnds(r) PROVE Types'
    <2>1. Responds(r)
      BY <1>5 DEF StoreEnds, Respond, Responds
    <2> QED BY <1>5, <2>1, RespondTypes DEF StoreEnds
  <1>6. ASSUME NEW r \in Requests, Infer(r) PROVE Types'
    <2>1. scores' \in [Requests -> [Docs -> Score]]
      BY <1>0, <1>6 DEF Infer
    <2>2. toStore' \in [Requests -> SUBSET Docs]
      BY <1>6 DEF Infer, Misses
    <2> QED BY <1>6, <2>1, <2>2 DEF Infer
  <1>7. ASSUME NEW r \in Requests, Set(r) PROVE Types'
    <2>1. PICK d \in toStore[r] : /\ cache' = [cache EXCEPT ![d][keys[r]] = scores[r][d]]
                                 /\ toStore' = [toStore EXCEPT ![r] = @ \ {d}]
      BY <1>7 DEF Set
    <2>2. d \in Docs /\ scores[r][d] \in Score /\ cache[d] \in [Configs -> Score]
      OBVIOUS
    <2>3. [cache[d] EXCEPT ![keys[r]] = scores[r][d]] \in [Configs -> Score]
      BY <2>2
    <2>4. cache' \in [Docs -> [Configs -> Score]]
      BY <2>1, <2>2, <2>3
    <2>5. toStore' \in [Requests -> SUBSET Docs]
      BY <2>1
    <2> QED BY <1>7, <2>4, <2>5 DEF Set
  <1>8. CASE Administer
    BY <1>8 DEF Administer, perRequest, Apart
  <1>9. CASE ToggleCache
    BY <1>9 DEF ToggleCache, perRequest
  <1>10. CASE Expire
    BY <1>10 DEF Expire, perRequest
  <1>11. CASE Crash
    BY <1>11 DEF Crash, NoScores
  <1>12. CASE Restart
    BY <1>12 DEF Restart, perRequest
  <1>13. CASE UNCHANGED vars
    BY <1>13 DEF vars, perRequest
  <1> QED BY <1>1, <1>2, <1>3, <1>4, <1>5, <1>6, <1>7, <1>8, <1>9, <1>10, <1>11, <1>12,
             <1>13 DEF Next, Proceed

LEMMA TypeInit == ASSUME Init PROVE TypeOK
  <1>1. Types
    BY PipelineAssumption DEF Init, Types, Score, NoScores
  <1>2. Flags
    BY Zenon DEF Init, Flags
  <1> QED BY <1>1, <1>2, ServedTypeInit, TypeParts DEF Init

LEMMA TypeStep ==
    ASSUME TypeOK, [Next]_vars, \A r \in Requests : KeysInv(r)
    PROVE  TypeOK'
  <1>1. (TypeOK <=> ServedTypeOK /\ Flags /\ Types)'
    BY TypeParts, PTL
  <1> QED BY <1>1, TypeParts, ServedKept, FlagsStep, TypesStep, Zenon

LEMMA KeysStep ==
    ASSUME ServedTypeOK, Types, [Next]_vars, \A r \in Requests : KeysInv(r),
           NEW q \in Requests
    PROVE  KeysInv(q)'
  <1> USE DEF Types, KeysInv
  <1>0. config \in Configs
    BY ServedParts
  <1>1. ASSUME NEW r \in Requests, Start(r) PROVE KeysInv(q)'
    BY <1>0, <1>1 DEF Start
  <1>2. ASSUME NEW r \in Requests, LookupReturns(r) PROVE KeysInv(q)'
    <2>1. LookedUp(r)
      BY <1>2, LookupEffect
    <2> QED BY <2>1 DEF LookedUp, Responds
  <1>3. ASSUME NEW r \in Requests, InferFails(r) PROVE KeysInv(q)'
    BY <1>3 DEF InferFails
  <1>4. ASSUME NEW r \in Requests, Scored(r) PROVE KeysInv(q)'
    <2>1. AllScored(r)
      BY <1>4, ScoredEffect
    <2> QED BY <1>0, <2>1 DEF AllScored, Responds
  <1>5. ASSUME NEW r \in Requests, StoreEnds(r) PROVE KeysInv(q)'
    BY <1>5 DEF StoreEnds, Respond
  <1>6. ASSUME NEW r \in Requests, Infer(r) \/ Set(r) PROVE KeysInv(q)'
    BY <1>6 DEF Infer, Set
  <1>7. CASE Administer \/ ToggleCache \/ Expire \/ Restart \/ UNCHANGED vars
    BY <1>7 DEF Administer, ToggleCache, Expire, Restart, vars, perRequest
  <1>8. CASE Crash
    BY <1>8 DEF Crash, Unfinished
  <1> QED BY <1>1, <1>2, <1>3, <1>4, <1>5, <1>6, <1>7, <1>8 DEF Next, Proceed
-------------------------------------------------------------------------------
(* Scores and listwise answers.                                            *)

LEMMA ScoresStep ==
    ASSUME Types, [Next]_vars, \A r \in Requests : KeysInv(r),
           NEW q \in Requests, ScoresInv(q)
    PROVE  ScoresInv(q)'
  <1> USE DEF Types, ScoresInv, Unfinished
  <1>1. ASSUME NEW r \in Requests, Start(r) PROVE ScoresInv(q)'
    BY <1>1 DEF Start
  <1>2. ASSUME NEW r \in Requests, LookupReturns(r) PROVE ScoresInv(q)'
    <2>1. LookedUp(r)
      BY <1>2, LookupEffect
    <2> QED BY <2>1 DEF LookedUp, Responds
  <1>3. ASSUME NEW r \in Requests, InferFails(r) PROVE ScoresInv(q)'
    BY <1>3 DEF InferFails
  <1>4. ASSUME NEW r \in Requests, Scored(r) PROVE ScoresInv(q)'
    <2>1. AllScored(r)
      BY <1>4, ScoredEffect
    <2> QED BY <2>1 DEF AllScored, Responds
  <1>5. ASSUME NEW r \in Requests, StoreEnds(r) PROVE ScoresInv(q)'
    BY <1>5 DEF StoreEnds, Respond
  <1>6. ASSUME NEW r \in Requests, Infer(r) PROVE ScoresInv(q)'
    BY <1>6 DEF Infer, Misses
  <1>7. ASSUME NEW r \in Requests, Set(r) PROVE ScoresInv(q)'
    BY <1>7 DEF Set
  <1>8. CASE Administer \/ ToggleCache \/ Expire \/ Restart \/ UNCHANGED vars
    BY <1>8 DEF Administer, ToggleCache, Expire, Restart, vars, perRequest
  <1>9. CASE Crash
    BY <1>9 DEF Crash
  <1> QED BY <1>1, <1>2, <1>3, <1>4, <1>5, <1>6, <1>7, <1>8, <1>9 DEF Next, Proceed

LEMMA ListwiseStep ==
    ASSUME Types, [Next]_vars, \A r \in Requests : KeysInv(r),
           NEW q \in Requests, ScoresInv(q), ListwiseInv(q)
    PROVE  ListwiseInv(q)'
  <1> SUFFICES ASSUME listwise' PROVE ListwiseInv(q)'
    BY DEF ListwiseInv
  <1>0. listwise
    BY Zenon DEF Next, Start, Proceed, LookupReturns, InferFails, Scored, StoreEnds, Infer,
                 Set, Administer, ToggleCache, Expire, Crash, Restart, vars, settings
  <1> USE <1>0 DEF Types, ListwiseInv, ScoresInv, Unfinished
  <1>1. ASSUME NEW r \in Requests, Start(r) PROVE ListwiseInv(q)'
    BY <1>1 DEF Start, NoScores
  <1>2. ASSUME NEW r \in Requests, LookupReturns(r) PROVE ListwiseInv(q)'
    <2>1. LookedUp(r)
      BY <1>2, LookupEffect
    <2> QED BY <2>1 DEF LookedUp, Responds
  <1>3. ASSUME NEW r \in Requests, InferFails(r) PROVE ListwiseInv(q)'
    BY <1>3 DEF InferFails, NoScores
  <1>4. ASSUME NEW r \in Requests, Scored(r) PROVE ListwiseInv(q)'
    <2>1. AllScored(r)
      BY <1>4, ScoredEffect
    <2> QED BY <2>1 DEF AllScored, Responds
  <1>5. ASSUME NEW r \in Requests, StoreEnds(r) PROVE ListwiseInv(q)'
    BY <1>5 DEF StoreEnds, Respond
  <1>6. ASSUME NEW r \in Requests, Infer(r) PROVE ListwiseInv(q)'
    BY <1>6 DEF Infer, Misses
  <1>7. ASSUME NEW r \in Requests, Set(r) PROVE ListwiseInv(q)'
    BY <1>7 DEF Set
  <1>8. CASE Administer \/ ToggleCache \/ Expire \/ Restart \/ UNCHANGED vars
    BY <1>8 DEF Administer, ToggleCache, Expire, Restart, vars, perRequest
  <1>9. CASE Crash
    BY <1>9 DEF Crash, NoScores
  <1> QED BY <1>1, <1>2, <1>3, <1>4, <1>5, <1>6, <1>7, <1>8, <1>9 DEF Next, Proceed

LEMMA DownStep == ASSUME Types, [Next]_vars, DownInv PROVE DownInv'
  <1> USE DEF Types, Quiet
  <1>1. ASSUME NEW r \in Requests, Start(r) \/ Proceed(r) \/ Infer(r) \/ Set(r)
        PROVE  DownInv'
    <2>1. boot' = boot /\ boot.step # "down"
      <3>1. stage[r] \in Unfinished \/ Ready
        BY <1>1, Zenon DEF Start, Proceed, LookupReturns, InferFails, Scored, StoreEnds, Infer,
                           Set, Unfinished
      <3>2. boot' = boot
        BY <1>1, Zenon DEF Start, Proceed, LookupReturns, InferFails, Scored, StoreEnds, Infer,
                           Set, settings, served
      <3> QED BY <3>1, <3>2 DEF DownInv, Ready
    <2> QED BY <2>1 DEF DownInv
  <1>2. CASE Administer
    <2>1. boot' = boot \/ boot'.step \in {"warming", "up", "failed"}
      BY <1>2 DEF Administer, Change, BootReturns, BootWarm, BootFails, Activate, Rollback,
                  Install, Reconfigure
    <2> QED BY <1>2, <2>1 DEF Administer, perRequest, DownInv
  <1>3. CASE ToggleCache \/ Expire \/ UNCHANGED vars
    BY <1>3 DEF ToggleCache, Expire, vars, settings, served, perRequest, DownInv
  <1>4. CASE Crash
    BY <1>4 DEF Crash, DownInv, Unfinished
  <1>5. CASE Restart
    BY <1>5 DEF Restart, Launch, DownInv
  <1> QED BY <1>1, <1>2, <1>3, <1>4, <1>5 DEF Next
-------------------------------------------------------------------------------
(* Honesty, where nothing was disturbed.                                   *)

LEMMA HonestStep ==
    ASSUME Types, [Next]_vars, NEW p \in Parts, Honest(p),
           \A r \in Requests : KeysInv(r) /\ ScoresInv(r) /\ SteadyInv(r, p)
    PROVE  Honest(p)'
  <1> USE DEF Types, Honest
  <1>1. ASSUME NEW r \in Requests, Set(r) PROVE Honest(p)'
    <2>1. PICK d \in toStore[r] : cache' = [cache EXCEPT ![d][keys[r]] = scores[r][d]]
      BY <1>1 DEF Set
    <2>2. stage[r] = "storing" /\ d \in asked[r] /\ keys[r] \in Configs
      BY <1>1 DEF Set, KeysInv, ScoresInv
    <2>3. scores[r][d] # NoScore => scores[r][d][p] = keys[r][p]
      BY <2>2 DEF SteadyInv, Right, Unfinished
    <2> QED BY <2>1, <2>2, <2>3
  <1>2. CASE Expire
    BY <1>2 DEF Expire
  <1>3. CASE UNCHANGED cache
    BY <1>3
  <1> QED BY <1>1, <1>2, <1>3 DEF Next, Start, Proceed, LookupReturns, InferFails, Scored,
             StoreEnds, Infer, Administer, ToggleCache, Crash, Restart, vars

\* Whether its last scores came from the cache or from the model, a request that was not
\* disturbed has those of the configuration in force.
LEMMA FreshScores ==
    ASSUME NEW r \in Requests, NEW p \in Parts, Types, KeysInv(r), SteadyInv(r, p), Honest(p),
           stage[r] \in Unfinished, LookedUp(r) \/ scores' = scores,
           NEW d \in asked[r], scores'[r][d] # NoScore
    PROVE  scores'[r][d][p] = config[p]
  <1>1. CASE scores' = scores
    BY <1>1 DEF SteadyInv, Right
  <1>2. CASE LookedUp(r)
    <2>1. /\ d \in Docs /\ scores'[r][d] = cache[d][keys[r]]
          /\ keys[r] \in Configs /\ keys[r][p] = config[p]
      BY <1>2 DEF Types, LookedUp, KeysInv, SteadyInv
    <2> QED BY <2>1 DEF Honest
  <1> QED BY <1>1, <1>2

\* A request that responds, was undisturbed, and has all its scores, keeps its promise.
LEMMA SteadyResponse ==
    ASSUME NEW r \in Requests, NEW p \in Parts, Types, Responds(r), SteadyInv(r, p),
           stage[r] \in Unfinished, asked' = asked,
           \A d \in asked[r] : scores'[r][d][p] = config[p]
    PROVE  SteadyInv(r, p)'
  <1>1. stage'[r] = "answered" /\ named'[r] = named[r] \cup {config.name} /\ asked'[r] = asked[r]
    BY DEF Types, Responds
  <1>2. p = "name" => named[r] = {config.name}
    BY DEF SteadyInv
  <1>3. p = "name" => \A d \in asked[r] : named'[r] = {scores'[r][d][p]}
    BY <1>1, <1>2
  <1> QED BY <1>1, <1>3 DEF SteadyInv, Unfinished

\* Requests are not touched by the steps of others.
LEMMA SteadyOther ==
    ASSUME NEW q \in Requests, NEW p \in Parts, SteadyInv(q, p),
           UNCHANGED <<config, model>>,
           stage'[q] = stage[q], asked'[q] = asked[q], keys'[q] = keys[q],
           scores'[q] = scores[q], named'[q] = named[q]
    PROVE  SteadyInv(q, p)'
  BY DEF SteadyInv, Right

LEMMA SteadyStep ==
    ASSUME ServedTypeOK, Types, [Next]_vars, DownInv, NEW p \in Parts \ disturbed', Honest(p),
           \A r \in Requests : KeysInv(r) /\ ScoresInv(r), NEW q \in Requests, SteadyInv(q, p)
    PROVE  SteadyInv(q, p)'
  <1> USE DEF Types
  <1>1. ASSUME NEW r \in Requests, Start(r) PROVE SteadyInv(q, p)'
    <2>1. UNCHANGED <<config, model>>
      BY <1>1, Zenon DEF Start, settings, served
    <2>2. CASE q # r
      BY <1>1, <2>1, <2>2, SteadyOther DEF Start
    <2>3. CASE q = r
      <3>1. model # NoModel /\ model[p] = config[p]
        BY <1>1 DEF Start, Apart
      <3>2. /\ stage'[r] \in {"lookup", "inferring"}
            /\ stage'[r] = "lookup" => keys'[r] = config
        BY <1>1 DEF Start
      <3>3. Right(r, p)'
        BY <1>1 DEF Start, Right, NoScores
      <3>4. named'[r] = {model.name}
        BY <1>1, <3>1 DEF Start
      <3>5. p = "name" => named'[r] = {config[p]}
        BY <3>1, <3>4
      <3>6. config' = config /\ model' = model
        BY <2>1
      <3> QED BY <2>3, <3>1, <3>2, <3>3, <3>5, <3>6 DEF SteadyInv
    <2> QED BY <2>2, <2>3
  <1>2. ASSUME NEW r \in Requests, LookupReturns(r) PROVE SteadyInv(q, p)'
    <2>1. LookedUp(r)
      BY <1>2, LookupEffect
    <2>2. stage[r] \in Unfinished /\ UNCHANGED <<config, model>>
      BY <2>1 DEF LookedUp, Unfinished, served
    <2>3. CASE q # r
      BY <2>1, <2>2, <2>3, SteadyOther DEF LookedUp, Responds
    <2>4. CASE q = r
      <3>1. \A d \in asked[r] : scores'[r][d] # NoScore => scores'[r][d][p] = config[p]
        BY <2>1, <2>2, <2>4, FreshScores
      <3>2. CASE Responds(r) /\ \A d \in asked[r] : scores'[r][d] # NoScore
        BY <2>1, <2>2, <2>4, <3>1, <3>2, SteadyResponse DEF LookedUp
      <3>3. CASE stage' = [stage EXCEPT ![r] = "inferring"] /\ named' = named
        <4>1. Right(r, p)'
          BY <2>1, <2>2, <3>1 DEF LookedUp, Right
        <4> QED BY <2>1, <2>2, <2>4, <3>3, <4>1 DEF LookedUp, SteadyInv
      <3> QED BY <2>1, <3>2, <3>3, Zenon DEF LookedUp
    <2> QED BY <2>3, <2>4
  <1>3. ASSUME NEW r \in Requests, InferFails(r) PROVE SteadyInv(q, p)'
    <2>1. UNCHANGED <<config, model>>
      BY <1>3, Zenon DEF InferFails, settings, served
    <2>2. CASE q # r
      BY <1>3, <2>1, <2>2, SteadyOther DEF InferFails
    <2>3. CASE q = r
      BY <1>3, <2>3 DEF InferFails, SteadyInv, Unfinished
    <2> QED BY <2>2, <2>3
  <1>4. ASSUME NEW r \in Requests, Scored(r) PROVE SteadyInv(q, p)'
    <2>1. AllScored(r)
      BY <1>4, ScoredEffect
    <2>2. stage[r] \in Unfinished /\ UNCHANGED <<config, model>>
      BY <2>1 DEF AllScored, Unfinished, served
    <2>3. CASE q # r
      BY <2>1, <2>2, <2>3, SteadyOther DEF AllScored, Responds
    <2>4. CASE q = r
      <3>1. \A d \in asked[r] : scores'[r][d] # NoScore => scores'[r][d][p] = config[p]
        BY <2>1, <2>2, <2>4, FreshScores DEF AllScored
      <3>2. CASE Responds(r)
        BY <2>1, <2>2, <2>4, <3>1, <3>2, SteadyResponse DEF AllScored
      <3>3. CASE /\ stage' = [stage EXCEPT ![r] = "storing"]
                 /\ keys' = [keys EXCEPT ![r] = config]
                 /\ named' = named
        <4>1. Right(r, p)'
          BY <2>1, <2>2, <3>1 DEF AllScored, Right
        <4> QED BY <2>1, <2>2, <2>4, <3>3, <4>1 DEF SteadyInv
      <3> QED BY <2>1, <3>2, <3>3, Zenon DEF AllScored
    <2> QED BY <2>3, <2>4
  <1>5. ASSUME NEW r \in Requests, StoreEnds(r) PROVE SteadyInv(q, p)'
    <2>1. /\ stage[r] = "storing" /\ Responds(r)
          /\ UNCHANGED <<config, model, asked, scores>>
      BY <1>5, Zenon DEF StoreEnds, Respond, Responds, settings, served
    <2>2. CASE q # r
      BY <2>1, <2>2, SteadyOther DEF Responds
    <2>3. CASE q = r
      <3>1. \A d \in asked[r] : scores'[r][d][p] = config[p]
        BY <2>1, <2>3 DEF SteadyInv, Right, ScoresInv, Unfinished
      <3> QED BY <2>1, <2>3, <3>1, SteadyResponse DEF Unfinished
    <2> QED BY <2>2, <2>3
  <1>6. ASSUME NEW r \in Requests, Infer(r) PROVE SteadyInv(q, p)'
    <2>1. stage[r] = "inferring" /\ UNCHANGED <<config, model, stage, asked, keys, named>>
      BY <1>6, Zenon DEF Infer, settings, served
    <2>2. CASE q # r
      BY <1>6, <2>1, <2>2, SteadyOther DEF Infer
    <2>3. CASE q = r
      <3>1. model[p] = config[p] /\ Right(r, p)
        BY <2>1, <2>3 DEF SteadyInv, Unfinished
      <3>2. \A d \in Docs : scores'[r][d] \in {model, scores[r][d]}
        BY <1>6 DEF Infer
      <3>3. Right(r, p)'
        BY <2>1, <3>1, <3>2 DEF Right
      <3> QED BY <2>1, <2>3, <3>3 DEF SteadyInv
    <2> QED BY <2>2, <2>3
  <1>7. ASSUME NEW r \in Requests, Set(r) PROVE SteadyInv(q, p)'
    BY <1>7, SteadyOther DEF Set, settings, served
  <1>8. CASE Administer
    <2>1. UNCHANGED <<stage, asked, keys, scores, named>>
      BY <1>8, Zenon DEF Administer, perRequest
    <2>2. CASE Quiet
      BY <2>1, <2>2 DEF Quiet, SteadyInv
    <2>3. CASE ~Quiet
      <3>1. model' # NoModel /\ model'[p] = config'[p] /\ config'[p] = config[p]
        BY <1>8, <2>3 DEF Administer, Apart
      <3> QED BY <2>1, <3>1 DEF SteadyInv, Right
    <2> QED BY <2>2, <2>3
  <1>9. CASE ToggleCache \/ Expire \/ UNCHANGED vars
    BY <1>9, SteadyOther DEF ToggleCache, Expire, vars, perRequest, settings, served
  <1>10. CASE Crash
    BY <1>10 DEF Crash, SteadyInv, Unfinished
  <1>11. CASE Restart
    BY <1>11 DEF Restart, Launch, DownInv, Quiet, SteadyInv, perRequest
  <1> QED BY <1>1, <1>2, <1>3, <1>4, <1>5, <1>6, <1>7, <1>8, <1>9, <1>10, <1>11
          DEF Next, Proceed

\* What was disturbed stays so.
LEMMA DisturbedStays == ASSUME [Next]_vars PROVE disturbed \subseteq disturbed'
  <1>1. ASSUME NEW r \in Requests, Start(r) \/ Proceed(r) \/ Infer(r) \/ Set(r)
        PROVE  disturbed \subseteq disturbed'
    BY <1>1, Zenon DEF Start, Proceed, LookupReturns, InferFails, Scored, StoreEnds, Infer, Set
  <1>2. CASE Administer
    BY <1>2 DEF Administer
  <1>3. CASE ToggleCache \/ Expire \/ Crash \/ Restart \/ UNCHANGED vars
    BY <1>3, Zenon DEF ToggleCache, Expire, Crash, Restart, vars
  <1> QED BY <1>1, <1>2, <1>3 DEF Next
-------------------------------------------------------------------------------
LEMMA InvInit == Init => Inv
  <1> SUFFICES ASSUME Init PROVE Inv
    OBVIOUS
  <1>1. \A r \in Requests : KeysInv(r) /\ ScoresInv(r) /\ ListwiseInv(r)
    BY DEF Init, KeysInv, ScoresInv, ListwiseInv, NoScores
  <1>2. \A p \in Parts : Honest(p) /\ \A r \in Requests : SteadyInv(r, p)
    BY DEF Init, Honest, SteadyInv, Unfinished
  <1>3. DownInv
    BY DEF Init, DownInv, Quiet, Unfinished
  <1> QED BY <1>1, <1>2, <1>3, TypeInit DEF Inv

LEMMA InvStep == Inv /\ [Next]_vars => Inv'
  <1> SUFFICES ASSUME Inv, [Next]_vars PROVE Inv'
    OBVIOUS
  <1>1. TypeOK' /\ ServedTypeOK /\ Types
    BY TypeStep, TypeParts, Zenon DEF Inv
  <1>2. \A r \in Requests : KeysInv(r)' /\ ScoresInv(r)' /\ ListwiseInv(r)'
    BY <1>1, KeysStep, ScoresStep, ListwiseStep, Zenon DEF Inv
  <1>3. DownInv'
    BY <1>1, DownStep, Zenon DEF Inv
  <1>4. ASSUME NEW p \in Parts \ disturbed'
        PROVE  Honest(p)' /\ \A r \in Requests : SteadyInv(r, p)'
    <2>1. p \in Parts \ disturbed
      BY DisturbedStays
    <2>2. Honest(p) /\ \A r \in Requests : SteadyInv(r, p)
      BY <2>1, Zenon DEF Inv
    <2>3. DownInv /\ \A r \in Requests : KeysInv(r) /\ ScoresInv(r)
      BY Zenon DEF Inv
    <2> QED BY <1>1, <2>1, <2>2, <2>3, HonestStep, SteadyStep, Zenon
  <1> QED BY <1>1, <1>2, <1>3, <1>4, Zenon DEF Inv

LEMMA Invariance == Spec => []Inv
  BY InvInit, InvStep, PTL DEF Spec, Safety

\* Every variable ranges over the values the code can hold.
THEOREM PipelineTypes == Spec => []TypeOK
  <1>1. Inv => TypeOK
    BY DEF Inv
  <1> QED BY <1>1, Invariance, PTL

\* An answer of the listwise backend ranks scores of one model, whatever was administered
\* while it was computed (service.py:81, 106).
THEOREM ListwiseAnswers == Spec => []ListwiseIsWhole
  <1>1. Inv => ListwiseIsWhole
    BY Zenon DEF Inv, ListwiseInv, ListwiseIsWhole
  <1> QED BY <1>1, Invariance, PTL

\* What is stored under a key was computed by a model of the name in the key, and with the
\* length in it: each until settings and active model differ in it, or it changes, while a
\* request is in progress (cache.py:24, service.py:103, runtime.py:82, 204, 321).
THEOREM CacheStaysHonest == Spec => []HonestUnlessDisturbed
  <1>1. Inv => HonestUnlessDisturbed
    BY Zenon DEF Inv, HonestUnlessDisturbed
  <1> QED BY <1>1, Invariance, PTL

\* Until then for the name, a response gives the name of the one model that computed its
\* scores (service.py:73, 142).
THEOREM ResponsesNameTheirModel == Spec => []NamesItsModel
  <1>1. ASSUME Inv PROVE NamesItsModel
    <2>1. "name" \notin disturbed => \A r \in Requests : SteadyInv(r, "name")
      BY <1>1, Zenon DEF Inv, Parts
    <2> QED BY <2>1, Zenon DEF SteadyInv, NamesItsModel
  <1> QED BY <1>1, Invariance, PTL
-------------------------------------------------------------------------------
(* Refinement.  Steps between the arrival of a request and its answer, and *)
(* those of Redis, are stutters of PlainRerank.                            *)

\* PlainRerank is about the same settings and the same model.
LEMMA PlainServed ==
  /\ Plain!Ready = Ready
  /\ Plain!Apart = Apart /\ (Plain!Apart)' = Apart'
  /\ Plain!Configs = Configs
  /\ Plain!Parts = Parts
  /\ Plain!ServedInit = ServedInit
  /\ Plain!Change = Change
  /\ Plain!Stop = Stop
  /\ Plain!Launch = Launch
  <1>1. /\ Plain!Ready = Ready /\ Plain!Configs = Configs /\ Plain!Parts = Parts
        /\ Plain!Stop = Stop
    BY DEF Plain!Ready, Ready, Plain!Configs, Configs, Plain!Parts, Parts, Plain!Stop, Stop
  <1>2. Plain!Apart = Apart /\ (Plain!Apart)' = Apart'
    BY DEF Plain!Apart, Apart, Plain!Parts, Parts
  <1>3. Plain!ServedInit = ServedInit /\ Plain!Launch = Launch
    BY DEF Plain!ServedInit, ServedInit, Plain!Launch, Launch, Plain!Configs, Configs
  <1>4. /\ Plain!BootReturns = BootReturns /\ Plain!BootWarm = BootWarm
        /\ Plain!BootFails = BootFails
    BY DEF Plain!BootReturns, BootReturns, Plain!BootWarm, BootWarm, Plain!BootFails, BootFails
  <1>5. /\ Plain!Activate = Activate /\ Plain!Rollback = Rollback
        /\ Plain!Reconfigure = Reconfigure
    BY DEF Plain!Activate, Activate, Plain!Rollback, Rollback, Plain!Install, Install,
           Plain!Reconfigure, Reconfigure, Plain!Configs, Configs
  <1>6. Plain!Change = Change
    BY <1>4, <1>5 DEF Plain!Change, Change
  <1> QED BY <1>1, <1>2, <1>3, <1>6

LEMMA StatusIs ==
  ASSUME Types, NEW r \in Requests
  PROVE  /\ Status[r] = "waiting" <=> stage[r] \in Unfinished
         /\ Status[r] = "answered" <=> stage[r] = "answered"
         /\ stage[r] \notin Unfinished => Status[r] = stage[r]
  BY DEF Types, Status, Unfinished

\* Nothing that a caller sees changes.
LEMMA HiddenStep ==
  ASSUME UNCHANGED <<served, asked, disturbed>>,
         \A q \in Requests : /\ stage'[q] \in Unfinished <=> stage[q] \in Unfinished
                             /\ stage[q] \notin Unfinished => stage'[q] = stage[q]
                             /\ stage[q] = "answered" => /\ scores'[q] = scores[q]
                                                         /\ named'[q] = named[q]
  PROVE  UNCHANGED Plain!vars
  <1>1. Status' = Status
    BY DEF Status
  <1>2. \A q \in Requests : (stage[q] = "answered" <=> stage'[q] = "answered")
    BY DEF Unfinished
  <1>3. \A q \in Requests :
           (IF stage'[q] = "answered" THEN [d \in asked'[q] |-> scores'[q][d]] ELSE <<>>)
         = (IF stage[q] = "answered" THEN [d \in asked[q] |-> scores[q][d]] ELSE <<>>)
    BY <1>2
  <1>4. Reply' = Reply
    BY <1>3 DEF Reply
  <1>5. Named' = Named
    BY <1>2 DEF Named
  <1> QED BY <1>1, <1>4, <1>5 DEF Plain!vars, Plain!requests, Plain!served, served

\* Callers see functions of the requests, and the step of one changes them at one point.
LEMMA SeenChange ==
  ASSUME NEW r \in Requests, NEW v
  PROVE  /\ (/\ Status'[r] = v
             /\ \A q \in Requests \ {r} : Status'[q] = Status[q])
            => Status' = [Status EXCEPT ![r] = v]
         /\ (/\ Reply'[r] = v
             /\ \A q \in Requests \ {r} : Reply'[q] = Reply[q])
            => Reply' = [Reply EXCEPT ![r] = v]
         /\ (/\ Named'[r] = v
             /\ \A q \in Requests \ {r} : Named'[q] = Named[q])
            => Named' = [Named EXCEPT ![r] = v]
  <1>1. ASSUME NEW f, NEW g, f = [q \in Requests |-> f[q]], g = [q \in Requests |-> g[q]],
               g[r] = v, \A q \in Requests \ {r} : g[q] = f[q]
        PROVE  g = [f EXCEPT ![r] = v]
    BY <1>1
  <1>2. /\ Status = [q \in Requests |-> Status[q]] /\ Status' = [q \in Requests |-> Status'[q]]
        /\ Reply = [q \in Requests |-> Reply[q]] /\ Reply' = [q \in Requests |-> Reply'[q]]
        /\ Named = [q \in Requests |-> Named[q]] /\ Named' = [q \in Requests |-> Named'[q]]
    BY Zenon DEF Status, Reply, Named
  <1> QED BY <1>1, <1>2, Zenon

\* A request's end or beginning changes only what is seen of that request.
LEMMA OthersKept ==
  ASSUME Types, NEW r \in Requests, NEW s, stage' = [stage EXCEPT ![r] = s],
         \A q \in Requests \ {r} : /\ scores'[q] = scores[q] /\ named'[q] = named[q]
                                   /\ asked'[q] = asked[q]
  PROVE  /\ stage'[r] = s
         /\ \A q \in Requests \ {r} : /\ Status'[q] = Status[q] /\ Reply'[q] = Reply[q]
                                      /\ Named'[q] = Named[q]
  <1>1. stage'[r] = s /\ \A q \in Requests \ {r} : stage'[q] = stage[q]
    BY DEF Types
  <1>2. \A q \in Requests \ {r} :
           (IF stage'[q] = "answered" THEN [d \in asked'[q] |-> scores'[q][d]] ELSE <<>>)
         = (IF stage[q] = "answered" THEN [d \in asked[q] |-> scores[q][d]] ELSE <<>>)
    BY <1>1
  <1>3. \A q \in Requests \ {r} : Reply'[q] = Reply[q]
    BY <1>2 DEF Reply
  <1> QED BY <1>1, <1>3 DEF Status, Named

\* The response is what PlainRerank would answer: computed scores and, where it was
\* undisturbed, those of the configuration in force, under its name.
LEMMA AnsweringStep ==
  ASSUME Types, Types', ServedTypeOK, NEW r \in Requests, stage[r] \in Unfinished, Responds(r),
         UNCHANGED <<served, asked, disturbed>>,
         \A q \in Requests \ {r} : scores'[q] = scores[q],
         \A d \in asked[r] : scores'[r][d] # NoScore,
         \A p \in Parts \ disturbed : /\ \A d \in asked[r] : scores'[r][d][p] = config[p]
                                      /\ SteadyInv(r, p)
  PROVE  Plain!Answer(r)
  <1> DEFINE ranked == [d \in asked[r] |-> scores'[r][d]]
             ns == named[r]
  <1>1. /\ stage'[r] = "answered"
        /\ \A q \in Requests \ {r} : /\ Status'[q] = Status[q] /\ Reply'[q] = Reply[q]
                                     /\ Named'[q] = Named[q]
    BY OthersKept DEF Responds, Types
  <1>2. \A d \in asked[r] : scores'[r][d] \in Configs
    BY DEF Types, Score
  <1>3. /\ ranked \in [asked[r] -> Configs]
        /\ \A d \in asked[r], p \in Parts \ disturbed : ranked[d][p] = config[p]
    BY <1>2
  <1>4. ns \in SUBSET Names /\ ("name" \notin disturbed => ns = {config.name})
    <2>1. "name" \notin disturbed => SteadyInv(r, "name")
      BY DEF Parts
    <2> QED BY <2>1 DEF Types, SteadyInv
  <1>5. Status[r] = "waiting" /\ Status' = [Status EXCEPT ![r] = "answered"]
    <2>1. Status'[r] = "answered"
      BY <1>1 DEF Status, Unfinished
    <2> QED BY <1>1, <2>1, StatusIs, SeenChange
  <1>6. Reply' = [Reply EXCEPT ![r] = ranked]
    <2>1. Reply'[r] = ranked
      BY <1>1 DEF Reply
    <2> HIDE DEF ranked
    <2> QED BY <1>1, <2>1, SeenChange
  <1>7. Named' = [Named EXCEPT ![r] = ns \cup {config.name}]
    <2>1. Named'[r] = ns \cup {config.name}
      BY <1>1 DEF Named, Responds, Types
    <2> HIDE DEF ns
    <2> QED BY <1>1, <2>1, SeenChange
  <1> HIDE DEF ranked, ns
  <1> QED BY <1>3, <1>4, <1>5, <1>6, <1>7, PlainServed, Zenon
          DEF Plain!Answer, served, Plain!served

LEMMA PlainRequestStep ==
  ASSUME Inv, Inv', NEW r \in Requests,
         Start(r) \/ Proceed(r) \/ Infer(r) \/ Set(r)
  PROVE  Plain!Next \/ UNCHANGED Plain!vars
  <1>1. Types /\ Types' /\ ServedTypeOK
    <2>1. (TypeOK <=> ServedTypeOK /\ Flags /\ Types)'
      BY TypeParts, PTL
    <2> QED BY <2>1, TypeParts, Zenon DEF Inv
  <1>2. KeysInv(r) /\ ScoresInv(r) /\ \A p \in Parts \ disturbed : Honest(p) /\ SteadyInv(r, p)
    BY Zenon DEF Inv
  <1>3. CASE Start(r)
    <2>1. /\ stage[r] \notin Unfinished /\ Ready /\ UNCHANGED served
          /\ disturbed' = disturbed \cup Apart
          /\ stage' = [stage EXCEPT ![r] = "lookup"] \/ stage' = [stage EXCEPT ![r] = "inferring"]
          /\ \E ds \in (SUBSET Docs) \ {{}} : asked' = [asked EXCEPT ![r] = ds]
      BY <1>3, Zenon DEF Start, settings
    <2>2. \A q \in Requests \ {r} : /\ scores'[q] = scores[q] /\ named'[q] = named[q]
                                    /\ asked'[q] = asked[q]
      BY <1>1, <1>3 DEF Start, Types
    <2>3. /\ stage'[r] \in Unfinished
          /\ \A q \in Requests \ {r} : /\ Status'[q] = Status[q] /\ Reply'[q] = Reply[q]
                                       /\ Named'[q] = Named[q]
      BY <1>1, <2>1, <2>2, OthersKept DEF Unfinished
    <2>4. Status[r] # "waiting" /\ Status' = [Status EXCEPT ![r] = "waiting"]
      <3>1. Status'[r] = "waiting"
        BY <2>3 DEF Status
      <3> QED BY <1>1, <2>1, <2>3, <3>1, StatusIs, SeenChange
    <2>5. Reply' = [Reply EXCEPT ![r] = <<>>]
      <3>1. Reply'[r] = <<>>
        BY <2>3 DEF Reply, Unfinished
      <3> QED BY <2>3, <3>1, SeenChange
    <2>6. Named' = [Named EXCEPT ![r] = {}]
      <3>1. Named'[r] = {}
        BY <2>3 DEF Named, Unfinished
      <3> QED BY <2>3, <3>1, SeenChange
    <2>7. Plain!Accept(r)
      BY <2>1, <2>4, <2>5, <2>6, PlainServed, Zenon DEF Plain!Accept, served, Plain!served
    <2> QED BY <2>7 DEF Plain!Next
  <1>4. CASE LookupReturns(r)
    <2>1. LookedUp(r) /\ stage[r] \in Unfinished
      BY <1>1, <1>2, <1>4, LookupEffect DEF LookedUp, Unfinished
    <2>2. \A q \in Requests \ {r} : scores'[q] = scores[q]
      BY <1>1, <2>1 DEF Types, LookedUp
    <2>3. CASE Responds(r) /\ \A d \in asked[r] : scores'[r][d] # NoScore
      <3>1. \A p \in Parts \ disturbed : \A d \in asked[r] : scores'[r][d][p] = config[p]
        BY <1>1, <1>2, <2>1, <2>3, FreshScores
      <3>2. Plain!Answer(r)
        BY <1>1, <1>2, <2>1, <2>2, <2>3, <3>1, AnsweringStep DEF LookedUp
      <3> QED BY <3>2 DEF Plain!Next
    <2>4. CASE stage' = [stage EXCEPT ![r] = "inferring"] /\ named' = named
      BY <1>1, <2>1, <2>2, <2>4, HiddenStep DEF LookedUp, Types, Unfinished
    <2> QED BY <2>1, <2>3, <2>4, Zenon DEF LookedUp
  <1>5. CASE Infer(r)
    <2>1. /\ stage[r] = "inferring"
          /\ UNCHANGED <<served, asked, disturbed, stage, named>>
          /\ \E f : scores' = [scores EXCEPT ![r] = f]
      BY <1>5, Zenon DEF Infer, settings
    <2>2. \A q \in Requests : stage[q] = "answered" => scores'[q] = scores[q]
      BY <1>1, <2>1 DEF Types
    <2> QED BY <2>1, <2>2, HiddenStep
  <1>6. CASE InferFails(r)
    <2>1. /\ stage[r] = "inferring" /\ stage' = [stage EXCEPT ![r] = "failed"]
          /\ scores' = [scores EXCEPT ![r] = NoScores]
          /\ UNCHANGED <<served, asked, disturbed, named>>
      BY <1>6, Zenon DEF InferFails, settings
    <2>2. /\ stage'[r] = "failed"
          /\ \A q \in Requests \ {r} : /\ Status'[q] = Status[q] /\ Reply'[q] = Reply[q]
                                       /\ Named'[q] = Named[q]
      BY <1>1, <2>1, OthersKept DEF Types
    <2>3. Status[r] = "waiting" /\ Status' = [Status EXCEPT ![r] = "failed"]
      <3>1. Status'[r] = "failed"
        BY <2>2 DEF Status, Unfinished
      <3> QED BY <1>1, <2>1, <2>2, <3>1, StatusIs, SeenChange DEF Unfinished
    <2>4. Reply' = Reply /\ Named' = Named
      <3>1. Reply'[r] = Reply[r] /\ Named'[r] = Named[r]
        BY <2>1, <2>2 DEF Reply, Named
      <3> QED BY <2>2, <3>1 DEF Reply, Named
    <2>5. Plain!Fail(r)
      BY <2>1, <2>3, <2>4, Zenon DEF Plain!Fail, served, Plain!served
    <2> QED BY <2>5 DEF Plain!Next
  <1>7. CASE Scored(r)
    <2>1. AllScored(r) /\ stage[r] \in Unfinished
      BY <1>7, ScoredEffect DEF AllScored, Unfinished
    <2>2. CASE Responds(r)
      <3>1. \A p \in Parts \ disturbed : \A d \in asked[r] : scores'[r][d][p] = config[p]
        BY <1>1, <1>2, <2>1, FreshScores DEF AllScored
      <3>2. Plain!Answer(r)
        BY <1>1, <1>2, <2>1, <2>2, <3>1, AnsweringStep DEF AllScored
      <3> QED BY <3>2 DEF Plain!Next
    <2>3. CASE stage' = [stage EXCEPT ![r] = "storing"] /\ named' = named
      BY <1>1, <2>1, <2>3, HiddenStep DEF AllScored, Types, Unfinished
    <2> QED BY <2>1, <2>2, <2>3, Zenon DEF AllScored
  <1>8. CASE Set(r)
    <2>1. UNCHANGED <<served, asked, disturbed, stage, scores, named>>
      BY <1>8, Zenon DEF Set, settings
    <2> QED BY <2>1, HiddenStep
  <1>9. CASE StoreEnds(r)
    <2>1. /\ stage[r] = "storing" /\ Responds(r)
          /\ UNCHANGED <<served, asked, disturbed, scores>>
      BY <1>9, Zenon DEF StoreEnds, Respond, Responds, settings
    <2>2. stage[r] \in Unfinished /\ \A d \in asked[r] : scores'[r][d] # NoScore
      BY <1>2, <2>1 DEF Unfinished, ScoresInv
    <2>3. \A p \in Parts \ disturbed : \A d \in asked[r] : scores'[r][d][p] = config[p]
      BY <1>1, <1>2, <2>1, <2>2, FreshScores
    <2>4. Plain!Answer(r)
      BY <1>1, <1>2, <2>1, <2>2, <2>3, AnsweringStep
    <2> QED BY <2>4 DEF Plain!Next
  <1> QED BY <1>3, <1>4, <1>5, <1>6, <1>7, <1>8, <1>9 DEF Proceed

LEMMA PlainServiceStep ==
  ASSUME Inv, Administer \/ ToggleCache \/ Expire \/ Crash \/ Restart \/ UNCHANGED vars
  PROVE  Plain!Next \/ UNCHANGED Plain!vars
  <1>1. Types
    BY TypeParts, Zenon DEF Inv
  <1>2. CASE Administer
    <2>1. UNCHANGED <<asked, stage, scores, named>>
      BY <1>2, Zenon DEF Administer, perRequest
    <2>2. Status' = Status /\ Reply' = Reply /\ Named' = Named
      BY <2>1 DEF Status, Reply, Named
    <2>3. Quiet <=> ~Plain!Waited
      BY <1>1, StatusIs DEF Quiet, Plain!Waited
    <2>4. disturbed' = IF Plain!Waited
                       THEN disturbed \cup Apart' \cup {p \in Parts : config'[p] # config[p]}
                       ELSE disturbed
      BY <1>2, <2>3 DEF Administer
    <2>5. Change
      BY <1>2 DEF Administer
    <2>6. Plain!Administer
      BY <2>1, <2>2, <2>4, <2>5, PlainServed DEF Plain!Administer, Plain!requests
    <2> QED BY <2>6 DEF Plain!Next
  <1>3. CASE ToggleCache \/ Expire \/ UNCHANGED vars
    <2>1. UNCHANGED <<served, asked, disturbed, stage, scores, named>>
      BY <1>3, Zenon DEF ToggleCache, Expire, vars, perRequest, settings
    <2> QED BY <2>1, HiddenStep
  <1>4. CASE Crash
    <2>1. /\ Stop /\ UNCHANGED <<asked, disturbed, named>>
          /\ stage' = [r \in Requests |-> IF stage[r] \in Unfinished THEN "failed"
                                          ELSE stage[r]]
          /\ scores' = [r \in Requests |-> IF stage[r] \in Unfinished THEN NoScores
                                           ELSE scores[r]]
      BY <1>4, Zenon DEF Crash
    <2>2. Status' = [r \in Requests |-> IF Status[r] = "waiting" THEN "failed" ELSE Status[r]]
      BY <1>1, <2>1 DEF Types, Status, Unfinished
    <2>3. \A q \in Requests : /\ stage[q] = "answered" <=> stage'[q] = "answered"
                              /\ stage[q] = "answered" => scores'[q] = scores[q]
      BY <2>1 DEF Unfinished
    <2>4. Named' = Named
      BY <2>1, <2>3 DEF Named
    <2>5. Reply' = Reply
      <3>1. \A q \in Requests :
               (IF stage'[q] = "answered" THEN [d \in asked'[q] |-> scores'[q][d]] ELSE <<>>)
             = (IF stage[q] = "answered" THEN [d \in asked[q] |-> scores[q][d]] ELSE <<>>)
        BY <2>1, <2>3
      <3> QED BY <3>1 DEF Reply
    <2>6. Plain!Crash
      BY <2>1, <2>2, <2>4, <2>5, PlainServed, Zenon DEF Plain!Crash
    <2> QED BY <2>6 DEF Plain!Next
  <1>5. CASE Restart
    <2>1. Launch /\ UNCHANGED <<asked, disturbed, stage, scores, named>>
      BY <1>5, Zenon DEF Restart, perRequest
    <2>2. Status' = Status /\ Reply' = Reply /\ Named' = Named
      BY <2>1 DEF Status, Reply, Named
    <2>3. Plain!Restart
      BY <2>1, <2>2, PlainServed DEF Plain!Restart, Plain!requests
    <2> QED BY <2>3 DEF Plain!Next
  <1> QED BY <1>2, <1>3, <1>4, <1>5

LEMMA PlainInit == Init => Plain!Init
  <1> SUFFICES ASSUME Init PROVE Plain!Init
    OBVIOUS
  <1>1. \A r \in Requests : stage[r] = "idle"
    BY DEF Init
  <1>2. Status = [r \in Requests |-> "idle"]
    BY <1>1 DEF Init, Status, Unfinished
  <1>3. Reply = [r \in Requests |-> <<>>]
    BY <1>1 DEF Reply
  <1>4. Named = [r \in Requests |-> {}]
    BY <1>1 DEF Named
  <1> QED BY <1>2, <1>3, <1>4, PlainServed DEF Init, Plain!Init

\* For any documents, models, lengths and requests, the pipeline with its cache is safe as
\* the plain service without one: no failure of Redis and no stale hit can be seen in a
\* score's model or length until settings and model differ in it, or it is changed, while
\* a request is in progress.
THEOREM PipelineImplementsPlainRerank == Spec => Plain!Safety
  <1>1. Inv /\ Inv' /\ [Next]_vars => [Plain!Next]_Plain!vars
    <2> SUFFICES ASSUME Inv, Inv', [Next]_vars PROVE Plain!Next \/ UNCHANGED Plain!vars
      OBVIOUS
    <2> QED BY PlainRequestStep, PlainServiceStep, Zenon DEF Next
  <1> QED BY <1>1, PlainInit, Invariance, PTL DEF Spec, Safety, Plain!Safety
===============================================================================
