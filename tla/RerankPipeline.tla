----------------------------- MODULE RerankPipeline -----------------------------
(***************************************************************************)
(* RerankService.rerank (src/reranker_service/service.py) with its score   *)
(* cache in Redis (src/reranker_service/cache.py): look the documents up,  *)
(* have the missing ones scored, store those, answer; while administrators *)
(* change the model or its length, Redis fails, keys expire and the        *)
(* process restarts over a cache that survives it.                         *)
(*                                                                         *)
(* A cache key holds, besides the texts, a configuration taken from the    *)
(* settings: name and length here; backend and precision never change.  A  *)
(* score is known by the configuration of the model that computed it,      *)
(* which need not be that of the settings (ServedModel).  A document       *)
(* stands for its normalised text next to one query, so it is a key but    *)
(* for the configuration.                                                  *)
(***************************************************************************)
EXTENDS ServedModel

CONSTANTS Requests,  \* calls of rerank; one that ended stands for the next as well
          Docs,      \* documents, with the query they are ranked for
          NoScore    \* None in place of a score

ASSUME PipelineAssumption ==
    /\ Names # {} /\ Lengths # {}
    /\ NoModel \notin Configs /\ NoScore \notin Configs

VARIABLES
    enabled,   \* settings.cache_enabled
    listwise,  \* the backend ranks a whole request in one call
    cache,     \* Redis: the score under each key
    stage,     \* where each call of rerank is
    asked,     \* its documents
    keys,      \* configuration of the keys of the cache command it has sent, if any
    scores,    \* its list of scores
    toStore,   \* documents its pipeline has still to set
    named,     \* names its response gives: of the model captured at the beginning,
               \* whose revision it reports, and of the settings at the end
    disturbed  \* history: parts of the configuration in which settings and model
               \* differed, or which were changed, while a request was in progress

settings == <<served, enabled, listwise>>
perRequest == <<stage, asked, keys, scores, toStore, named>>
vars == <<settings, cache, perRequest, disturbed>>

Misses(r) == {d \in asked[r] : scores[r][d] = NoScore}
NoScores == [d \in Docs |-> NoScore]
Unfinished == {"lookup", "inferring", "storing"}
Quiet == \A r \in Requests : stage[r] \notin Unfinished
-------------------------------------------------------------------------------
Init == /\ ServedInit
        /\ enabled \in BOOLEAN /\ listwise \in BOOLEAN
        /\ cache = [d \in Docs |-> [k \in Configs |-> NoScore]]
        /\ stage = [r \in Requests |-> "idle"]
        /\ asked = [r \in Requests |-> {}]
        /\ keys = [r \in Requests |-> NoModel]
        /\ scores = [r \in Requests |-> NoScores]
        /\ toStore = [r \in Requests |-> {}]
        /\ named = [r \in Requests |-> {}]
        /\ disturbed = {}

\* The response is built: it names the model of this moment.
Respond(r) == /\ stage' = [stage EXCEPT ![r] = "answered"]
              /\ keys' = [keys EXCEPT ![r] = NoModel]
              /\ named' = [named EXCEPT ![r] = @ \cup {config.name}]

\* rerank up to its first suspension: capture the model, send MGET unless the cache is
\* off or the backend is listwise.
Start(r) ==
    /\ Ready /\ stage[r] \notin Unfinished
    /\ \E ds \in (SUBSET Docs) \ {{}} : asked' = [asked EXCEPT ![r] = ds]
    /\ scores' = [scores EXCEPT ![r] = NoScores]
    /\ named' = [named EXCEPT ![r] = IF model = NoModel THEN {} ELSE {model.name}]
    /\ disturbed' = disturbed \cup Apart
    /\ \/ /\ enabled /\ ~listwise
          /\ stage' = [stage EXCEPT ![r] = "lookup"]
          /\ keys' = [keys EXCEPT ![r] = config]
       \/ /\ ~enabled \/ listwise
          /\ stage' = [stage EXCEPT ![r] = "inferring"]
          /\ UNCHANGED keys
    /\ UNCHANGED <<settings, cache, toStore>>

\* Faulty LookupReturns: the keys do not tell models apart.
LookupAnyModel(r) ==
    /\ stage[r] = "lookup"
    /\ \E k \in Configs :
          scores' = [scores EXCEPT ![r] =
                       [d \in Docs |-> IF d \in asked[r] THEN cache[d][k] ELSE NoScore]]
    /\ \/ /\ \A d \in asked[r] : scores'[r][d] # NoScore
          /\ Respond(r)
       \/ /\ \E d \in asked[r] : scores'[r][d] = NoScore
          /\ stage' = [stage EXCEPT ![r] = "inferring"]
          /\ keys' = [keys EXCEPT ![r] = NoModel]
          /\ UNCHANGED named
    /\ UNCHANGED <<settings, cache, asked, toStore, disturbed>>

\* MGET answers: what it finds, nothing if it fails.
LookupReturns(r) ==
    /\ stage[r] = "lookup"
    /\ \E found \in {asked[r], {}} :
          scores' = [scores EXCEPT ![r] =
                       [d \in Docs |-> IF d \in found THEN cache[d][keys[r]] ELSE NoScore]]
    /\ \/ /\ \A d \in asked[r] : scores'[r][d] # NoScore
          /\ Respond(r)
       \/ /\ \E d \in asked[r] : scores'[r][d] = NoScore
          /\ stage' = [stage EXCEPT ![r] = "inferring"]
          /\ keys' = [keys EXCEPT ![r] = NoModel]
          /\ UNCHANGED named
    /\ UNCHANGED <<settings, cache, asked, toStore, disturbed>>

\* Faulty Infer: a listwise request may be split as well.
InferPiecemeal(r) ==
    /\ stage[r] = "inferring" /\ model # NoModel
    /\ \E ds \in (SUBSET Misses(r)) \ {{}} :
          /\ scores' = [scores EXCEPT ![r] = [d \in Docs |-> IF d \in ds THEN model
                                                             ELSE scores[r][d]]]
          /\ toStore' = [toStore EXCEPT ![r] = @ \cup ds]
    /\ UNCHANGED <<settings, cache, stage, asked, keys, named, disturbed>>

\* The active model scores documents of the request: all of them when listwise; those
\* of one inference call when the batcher splits the request into several.
Infer(r) ==
    /\ stage[r] = "inferring" /\ model # NoModel
    /\ \E ds \in (SUBSET Misses(r)) \ {{}} :
          /\ listwise => ds = Misses(r)
          /\ scores' = [scores EXCEPT ![r] = [d \in Docs |-> IF d \in ds THEN model
                                                             ELSE scores[r][d]]]
          /\ toStore' = [toStore EXCEPT ![r] = @ \cup ds]
    /\ UNCHANGED <<settings, cache, stage, asked, keys, named, disturbed>>

\* Inference raises or its deadline passes; scores that arrive later go nowhere.
InferFails(r) ==
    /\ stage[r] = "inferring"
    /\ stage' = [stage EXCEPT ![r] = "failed"]
    /\ scores' = [scores EXCEPT ![r] = NoScores]
    /\ toStore' = [toStore EXCEPT ![r] = {}]
    /\ UNCHANGED <<settings, cache, asked, keys, named, disturbed>>

\* rerank resumes with all scores: the keys to store them under are made now.
Scored(r) ==
    /\ stage[r] = "inferring" /\ Misses(r) = {}
    /\ \/ /\ enabled /\ ~listwise
          /\ stage' = [stage EXCEPT ![r] = "storing"]
          /\ keys' = [keys EXCEPT ![r] = config]
          /\ UNCHANGED <<toStore, named>>
       \/ /\ ~enabled \/ listwise
          /\ Respond(r)
          /\ toStore' = [toStore EXCEPT ![r] = {}]
    /\ UNCHANGED <<settings, cache, asked, scores, disturbed>>

\* Faulty Set: the key names no model.
SetForAnyModel(r) ==
    /\ stage[r] = "storing"
    /\ \E d \in toStore[r] :
          /\ cache' = [cache EXCEPT ![d] = [k \in Configs |-> scores[r][d]]]
          /\ toStore' = [toStore EXCEPT ![r] = @ \ {d}]
    /\ UNCHANGED <<settings, stage, asked, keys, scores, named, disturbed>>

\* Redis executes one SET of the pipeline, which is no transaction.
Set(r) ==
    /\ stage[r] = "storing"
    /\ \E d \in toStore[r] :
          /\ cache' = [cache EXCEPT ![d][keys[r]] = scores[r][d]]
          /\ toStore' = [toStore EXCEPT ![r] = @ \ {d}]
    /\ UNCHANGED <<settings, stage, asked, keys, scores, named, disturbed>>

\* Faulty StoreEnds: a failure of Redis is left to surface as an error.
StoreEndsOrDies(r) ==
    /\ stage[r] = "storing"
    /\ toStore[r] = {}
    /\ Respond(r)
    /\ UNCHANGED <<settings, cache, asked, scores, toStore, disturbed>>

\* The pipeline ends, or fails part way; the request is answered all the same.
StoreEnds(r) ==
    /\ stage[r] = "storing"
    /\ Respond(r)
    /\ toStore' = [toStore EXCEPT ![r] = {}]
    /\ UNCHANGED <<settings, cache, asked, scores, disturbed>>
-------------------------------------------------------------------------------
\* The model or the settings change, and perhaps under a request.
Administer ==
    /\ Change
    /\ disturbed' = IF Quiet THEN disturbed
                    ELSE disturbed \cup Apart' \cup {p \in Parts : config'[p] # config[p]}
    /\ UNCHANGED <<enabled, listwise, cache, perRequest>>

\* PATCH /v1/admin/cache.
ToggleCache == /\ boot.step # "down"
               /\ enabled' = ~enabled
               /\ UNCHANGED <<served, listwise, cache, perRequest, disturbed>>

\* A key's time to live ends, Redis evicts it, or an administrator's clear deletes it.
Expire == \E d \in Docs, k \in Configs :
             /\ cache' = [cache EXCEPT ![d][k] = NoScore]
             /\ UNCHANGED <<settings, perRequest, disturbed>>

\* The process ends, with whatever it was doing; Redis keeps its keys.
Crash == /\ Stop
         /\ stage' = [r \in Requests |-> IF stage[r] \in Unfinished THEN "failed"
                                         ELSE stage[r]]
         /\ scores' = [r \in Requests |-> IF stage[r] \in Unfinished THEN NoScores
                                          ELSE scores[r]]
         /\ keys' = [r \in Requests |-> NoModel]
         /\ toStore' = [r \in Requests |-> {}]
         /\ UNCHANGED <<enabled, listwise, cache, asked, named, disturbed>>

Restart == Launch /\ UNCHANGED <<enabled, listwise, cache, perRequest, disturbed>>

Proceed(r) == LookupReturns(r) \/ InferFails(r) \/ Scored(r) \/ StoreEnds(r)

Next == \/ \E r \in Requests : Start(r) \/ Proceed(r) \/ Infer(r) \/ Set(r)
        \/ Administer \/ ToggleCache \/ Expire \/ Crash \/ Restart

\* The deadline around inference, and the event loop.
InferenceEnds == \A r \in Requests : WF_vars(InferFails(r) \/ Scored(r))

\* Redis answers, or its client raises.  Nothing in the code sees to it: the client has
\* no time limit, and no deadline is around its commands.
RedisAnswers == \A r \in Requests : WF_vars(LookupReturns(r) \/ StoreEnds(r))

Safety == Init /\ [][Next]_vars
Spec == Safety /\ InferenceEnds /\ RedisAnswers

\* Nothing is known of Redis.
SpecRedisMayHang == Safety /\ InferenceEnds
-------------------------------------------------------------------------------
Score == Configs \cup {NoScore}

\* Every variable ranges over the values the code can hold.
TypeOK ==
    /\ ServedTypeOK
    /\ enabled \in BOOLEAN /\ listwise \in BOOLEAN
    /\ cache \in [Docs -> [Configs -> Score]]
    /\ stage \in [Requests -> Unfinished \cup {"idle", "answered", "failed"}]
    /\ asked \in [Requests -> SUBSET Docs]
    /\ keys \in [Requests -> Configs \cup {NoModel}]
    /\ scores \in [Requests -> [Docs -> Score]]
    /\ toStore \in [Requests -> SUBSET Docs]
    /\ named \in [Requests -> SUBSET Names]
    /\ disturbed \subseteq Parts

\* What is stored under a key was computed by a model of the name, or with the length,
\* in the key.
Honest(p) == \A d \in Docs, k \in Configs :
                cache[d][k] # NoScore => cache[d][k][p] = k[p]

\* "Cache keys contain only SHA-256 over immutable model revision, backend, precision,
\* normalized texts, and relevant inference configuration": what is stored under a key
\* was computed with the configuration in the key.
CacheIsHonest == \A p \in Parts : Honest(p)

\* Across restarts, expiries and commands that fail part way, the cache stays honest
\* about the model's name, and about its length, each until settings and model differ in
\* it under a request or it is changed under one.  Differences that no request meets do
\* no harm, and a wrong length leaves the names right.
HonestUnlessDisturbed == \A p \in Parts \ disturbed : Honest(p)

\* Until names differ or change under a request, a response names the one model that
\* computed all its scores, and reports the revision and normalisation of that model.
NamesItsModel ==
    "name" \notin disturbed => \A r \in Requests : stage[r] = "answered" =>
        \A d \in asked[r] : named[r] = {scores[r][d].name}

\* A listwise backend sees the whole request, so its scores are of one model whatever
\* administrators do, although the response may name another.
ListwiseIsWhole ==
    \A r \in Requests : listwise /\ stage[r] = "answered" =>
        \A d, e \in asked[r] : scores[r][d] = scores[r][e]

\* "Redis failures reduce cache effectiveness but never make inference or readiness
\* fail": a request whose lookup was sent gets past it.
LookupEnds == \A r \in Requests : stage[r] = "lookup" ~> stage[r] # "lookup"

\* To its callers the pipeline is PlainRerank: neither the cache nor its failures can be
\* told from a fresh inference, and every request is decided.
Status == [r \in Requests |-> IF stage[r] \in Unfinished THEN "waiting" ELSE stage[r]]
Reply == [r \in Requests |-> IF stage[r] = "answered"
                             THEN [d \in asked[r] |-> scores[r][d]] ELSE <<>>]
Named == [r \in Requests |-> IF stage[r] = "answered" THEN named[r] ELSE {}]
Plain == INSTANCE PlainRerank WITH status <- Status, reply <- Reply, named <- Named
ImplementsPlainRerank == Plain!Spec
===============================================================================
