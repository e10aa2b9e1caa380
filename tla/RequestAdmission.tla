---------------------------- MODULE RequestAdmission ----------------------------
(***************************************************************************)
(* A request's way through the HTTP application of src/reranker_service/   *)
(* main.py: the middlewares, authentication and the sliding-window rate    *)
(* limit of security.py, the rerank handlers, which gather one or several  *)
(* calls of RerankService.rerank, and the bounded history of what was      *)
(* answered.  All of it runs on one event loop.                            *)
(*                                                                         *)
(* A request asks for some items: none when it only reads, one for rerank, *)
(* any number for a batch.                                                 *)
(***************************************************************************)
EXTENDS Naturals, Sequences, FiniteSets, SequencesExt

CONSTANTS Requests,
          Clients,      \* hosts the rate limiter tells apart
          Limit,        \* rate_limit_per_minute
          Window,       \* the minute, in ticks of the clock
          MaxBatch,     \* max_batch_requests
          HistorySize,  \* maxlen of admin.requests
          MaxTime       \* bound of the clock, for model checking

ASSUME AdmissionAssumption ==
    /\ {Limit, Window, MaxBatch, HistorySize} \subseteq Nat \ {0}
    /\ MaxTime \in Nat

VARIABLES
    now,       \* time.monotonic
    window,    \* Security._requests: for each client, when its requests passed
    stage,     \* where each request is
    answer,    \* what it is answered
    client,    \* where it comes from
    item,      \* its calls of RerankService.rerank
    history,   \* admin.requests, the newest record first
    passed,    \* history: for each client, when all its requests passed
    recorded   \* history: all that was ever recorded, oldest first

log == <<history, recorded>>
limiter == <<now, window, passed>>
vars == <<limiter, log, stage, answer, client, item>>

Go(r, s) == stage' = [stage EXCEPT ![r] = s]
Reply(r, a) == Go(r, "done") /\ answer' = [answer EXCEPT ![r] = a]
-------------------------------------------------------------------------------
Init == /\ now = 0
        /\ window = [c \in Clients |-> <<>>] /\ passed = window
        /\ stage = [r \in Requests |-> "idle"]
        /\ answer = [r \in Requests |-> "none"]
        /\ client \in [Requests -> Clients]
        /\ item = [r \in Requests |-> <<>>]
        /\ history = <<>> /\ recorded = <<>>

Tick == /\ now < MaxTime
        /\ now' = now + 1
        /\ UNCHANGED <<window, passed, log, stage, answer, client, item>>

\* The body is too large by its header, the backend is not the one served, the body no
\* JSON, or the token missing or wrong; otherwise the rate limiter is next.
Arrive(r) ==
    /\ stage[r] = "idle"
    /\ Reply(r, "refused") \/ (Go(r, "authenticated") /\ UNCHANGED answer)
    /\ UNCHANGED <<limiter, log, client, item>>

\* Faulty Recent: a request exactly a minute old is gone.
RecentMinute(c) ==
    LET old == {n \in 0 .. Len(window[c]) : \A i \in 1 .. n : window[c][i] + Window <= now}
    IN SubSeq(window[c], Max(old) + 1, Len(window[c]))

\* The window after the loop that takes old entries from its left end.
Recent(c) ==
    LET old == {n \in 0 .. Len(window[c]) : \A i \in 1 .. n : window[c][i] + Window < now}
    IN SubSeq(window[c], Max(old) + 1, Len(window[c]))

\* rate_limit: a refused request leaves no mark in the window.
RateLimit(r) ==
    /\ stage[r] = "authenticated"
    /\ LET c == client[r]
       IN IF Len(Recent(c)) >= Limit
          THEN /\ window' = [window EXCEPT ![c] = Recent(c)]
               /\ Reply(r, "rate_limited")
               /\ UNCHANGED passed
          ELSE /\ window' = [window EXCEPT ![c] = Append(Recent(c), now)]
               /\ passed' = [passed EXCEPT ![c] = Append(@, now)]
               /\ Go(r, "admitted") /\ UNCHANGED answer
    /\ UNCHANGED <<now, log, client, item>>

\* The body is not valid, or is a batch of too many; or the handler starts its calls.
Begin(r) ==
    /\ stage[r] = "admitted"
    /\ \/ Reply(r, "refused") /\ UNCHANGED item
       \/ \E n \in 0 .. MaxBatch :
             /\ item' = [item EXCEPT ![r] = [i \in 1 .. n |-> "running"]]
             /\ IF n = 0 THEN Reply(r, "ok") ELSE Go(r, "working") /\ UNCHANGED answer
    /\ UNCHANGED <<limiter, log, client>>

\* RerankService.rerank returns or raises, whether or not somebody still waits for it.
ItemEnds(r, i) ==
    /\ item[r][i] = "running"
    /\ \E result \in {"scored", "raised"} : item' = [item EXCEPT ![r][i] = result]
    /\ UNCHANGED <<limiter, log, stage, answer, client>>

\* gather raises the first exception at once; the other calls go on.
Fail(r) ==
    /\ stage[r] = "working"
    /\ \E i \in DOMAIN item[r] : item[r][i] = "raised"
    /\ Reply(r, "failed")
    /\ UNCHANGED <<limiter, log, client, item>>

\* Faulty Push: the deque drops the record that is new.
PushLast(records) ==
    LET all == history \o records
    IN history' = SubSeq(all, 1, IF Len(all) < HistorySize THEN Len(all) ELSE HistorySize)

\* appendleft of each record in turn, to a deque that drops from its right end.
Push(records) ==
    LET all == Reverse(records) \o history
    IN history' = SubSeq(all, 1, IF Len(all) < HistorySize THEN Len(all) ELSE HistorySize)

\* Faulty Respond: records what has been scored so far.
RespondEarly(r) ==
    /\ stage[r] = "working"
    /\ \A i \in DOMAIN item[r] : item[r][i] # "running"
    /\ LET records == SelectSeq([i \in DOMAIN item[r] |-> <<r, i>>],
                                LAMBDA x : item[r][x[2]] = "scored")
       IN Push(records) /\ recorded' = recorded \o records
    /\ Reply(r, "ok")
    /\ UNCHANGED <<limiter, client, item>>

\* All calls returned: their responses are recorded in order, and answered.
Respond(r) ==
    /\ stage[r] = "working"
    /\ \A i \in DOMAIN item[r] : item[r][i] = "scored"
    /\ LET records == [i \in DOMAIN item[r] |-> <<r, i>>]
       IN Push(records) /\ recorded' = recorded \o records
    /\ Reply(r, "ok")
    /\ UNCHANGED <<limiter, client, item>>

Proceed(r) == RateLimit(r) \/ Begin(r) \/ Fail(r) \/ Respond(r)

Next == \/ Tick
        \/ \E r \in Requests : \/ Arrive(r) \/ Proceed(r)
                               \/ \E i \in DOMAIN item[r] : ItemEnds(r, i)

Spec == Init /\ [][Next]_vars
-------------------------------------------------------------------------------
TypeOK ==
    /\ now \in Nat
    /\ {window, passed} \subseteq [Clients -> Seq(Nat)]
    /\ stage \in [Requests -> {"idle", "authenticated", "admitted", "working", "done"}]
    /\ answer \in [Requests -> {"none", "refused", "rate_limited", "failed", "ok"}]
    /\ client \in [Requests -> Clients]
    /\ item \in [Requests -> Seq({"running", "scored", "raised"})]
    /\ {history, recorded} \subseteq Seq(Requests \X Nat)

\* Those of a client's requests that passed in the last minute.
Minute(c) == {i \in DOMAIN passed[c] : passed[c][i] + Window >= now}

\* The limiter forgets old entries, and yet decides as if it remembered all: a request
\* passes exactly when fewer than Limit of its client's passed in the minute up to and
\* including the tick a minute ago.
RateIsExact ==
    [][\A r \in Requests :
         /\ stage[r] = "authenticated" /\ stage'[r] = "admitted"
               => Cardinality(Minute(client[r])) < Limit
         /\ answer[r] = "none" /\ answer'[r] = "rate_limited"
               => Cardinality(Minute(client[r])) >= Limit]_vars

\* A batch is recorded whole, in its order and with nothing between, and only if it is
\* answered: of one that failed, what its siblings score later is never seen.
BatchIsWhole ==
    \A r \in Requests :
        LET mine == {n \in DOMAIN recorded : recorded[n][1] = r}
        IN IF answer[r] # "ok" \/ item[r] = <<>> THEN mine = {}
           ELSE \E first \in mine :
                   /\ mine = first .. first + Len(item[r]) - 1
                   /\ \A n \in mine : recorded[n] = <<r, n - first + 1>>

\* The dashboard shows the newest: the bounded history holds as many of the last records
\* as it has room for, the newest first.
HistoryIsNewest ==
    history = SubSeq(Reverse(recorded), 1, Min({HistorySize, Len(recorded)}))
===============================================================================
