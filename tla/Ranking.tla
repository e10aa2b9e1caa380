-------------------------------- MODULE Ranking --------------------------------
(***************************************************************************)
(* What RerankService.rerank (src/reranker_service/service.py) computes    *)
(* for one request: the character limits, the scores put together from the *)
(* cache and inference or scattered from the ranking of the listwise       *)
(* backend (backends/jina.py), the stable sort and top_n; and what         *)
(* ranking_parity (parity.py) says of two such rankings.                   *)
(*                                                                         *)
(* A text is its length, and a document its place in the request.  Scores  *)
(* are whole numbers; fractions are pairs.                                 *)
(***************************************************************************)
EXTENDS Integers, Sequences, FiniteSets, SequencesExt

CONSTANTS MaxDocuments, MaxQuery, MaxDocument, MaxTotal,  \* limits of the settings
          DefaultTop,  \* default_top_n
          Lengths,     \* texts that are sent
          Scores,      \* finite scores
          MaxSent,     \* bound on the documents sent, for model checking
          MaxRanked    \* bound on the rankings a model returns, for model checking

ASSUME RankingAssumption ==
    /\ {MaxDocuments, MaxQuery, MaxDocument, MaxTotal, DefaultTop, MaxSent,
        MaxRanked} \subseteq Nat \ {0}
    /\ Lengths \subseteq Nat \ {0} /\ Scores \subseteq Nat

VARIABLES
    stage,
    request,   \* query, texts, truncate
    prepared,  \* query and texts as they are scored
    raw,       \* the model's scores, with the document each is for
    hits,      \* documents whose score the cache had
    scores,    \* the list scores of rerank
    top,       \* top_n, 0 for None
    results,   \* the answer: documents by rank
    rival,     \* another ranking, compared with the answer
    parity     \* what ranking_parity returns

vars == <<stage, request, prepared, raw, hits, scores, top, results, rival, parity>>

None == -1
NotFinite == -2
Rejected == <<>>
Least(a, b) == IF a < b THEN a ELSE b
\* The sum of a list.
SumOf(list) ==
    LET sum[n \in 0 .. Len(list)] == IF n = 0 THEN 0 ELSE sum[n - 1] + list[n]
    IN sum[Len(list)]
UpTo(n, S) == UNION {[1 .. k -> S] : k \in 1 .. n}
Entries == [index : -1 .. MaxSent, score : Scores \cup {NotFinite}]
-------------------------------------------------------------------------------
Init == /\ stage = "received"
        /\ request \in [query : Lengths, texts : UpTo(MaxSent, Lengths), truncate : BOOLEAN]
        /\ prepared = [query |-> request.query, texts |-> request.texts]
        /\ raw = <<>> /\ hits = {} /\ scores = <<>> /\ top = 0 /\ results = <<>>
        /\ rival = <<>> /\ parity = Rejected

\* Faulty Cut: what is cut fits, whether or not it was to be.
CutAnyway == [query |-> Least(request.query, MaxQuery),
              texts |-> request.texts,
              fits |-> \A i \in DOMAIN request.texts : request.texts[i] <= MaxDocument]

\* The texts as _validate leaves them, and whether none had to be cut against the request.
Cut == [query |-> Least(request.query, MaxQuery),
        texts |-> [i \in DOMAIN request.texts |-> Least(request.texts[i], MaxDocument)],
        fits |-> request.truncate \/ /\ request.query <= MaxQuery
                                     /\ \A i \in DOMAIN request.texts :
                                           request.texts[i] <= MaxDocument]

Total(query, texts) == query + SumOf(texts)

\* The total counts what is left after cutting.
Validate ==
    /\ stage = "received"
    /\ IF Len(request.texts) <= MaxDocuments /\ Cut.fits /\ Total(Cut.query, Cut.texts) <= MaxTotal
       THEN stage' = "prepared" /\ prepared' = [query |-> Cut.query, texts |-> Cut.texts]
       ELSE stage' = "refused" /\ UNCHANGED prepared
    /\ UNCHANGED <<request, raw, hits, scores, top, results, rival, parity>>

Sent == DOMAIN request.texts

\* A set of documents in the order they were sent.
InOrder(S) == CHOOSE order \in [1 .. Cardinality(S) -> S] :
                  \A j, k \in DOMAIN order : j < k => order[j] < order[k]

\* scores: those found, and inference's in the order of the misses.
Merge(cached, inferred) ==
    [i \in Sent |-> IF i \in DOMAIN cached THEN cached[i]
                    ELSE inferred[Cardinality((1 .. i) \ DOMAIN cached)]]

\* A pairwise backend, whose score of a document is the cache's as well.
ScorePairs ==
    /\ stage = "prepared"
    /\ hits' \in SUBSET Sent
    /\ \E of \in [Sent -> Scores] :
          LET misses == InOrder(Sent \ hits')
          IN /\ raw' = [i \in Sent |-> [index |-> i - 1, score |-> of[i]]]
             /\ scores' = Merge([i \in hits' |-> of[i]],
                                [k \in DOMAIN misses |-> of[misses[k]]])
    /\ stage' = "scored"
    /\ UNCHANGED <<request, prepared, top, results, rival, parity>>

\* Faulty Place: a later entry replaces an earlier one.
PlaceAgain(list, entry) ==
    IF list = Rejected \/ entry.index \notin 0 .. Len(list) - 1 \/ entry.score = NotFinite
    THEN Rejected
    ELSE [list EXCEPT ![entry.index + 1] = entry.score]

\* One entry of the ranking goes to the place it names, which must exist and be free.
Place(list, entry) ==
    IF \/ list = Rejected \/ entry.index \notin 0 .. Len(list) - 1
       \/ list[entry.index + 1] # None \/ entry.score = NotFinite
    THEN Rejected
    ELSE [list EXCEPT ![entry.index + 1] = entry.score]

Scatter(ranked) ==
    LET placed[k \in 0 .. Len(ranked)] == IF k = 0 THEN [i \in Sent |-> None]
                                          ELSE Place(placed[k - 1], ranked[k])
    IN placed[Len(ranked)]

\* The listwise backend, whatever ranking its model returns.
ScoreList ==
    /\ stage = "prepared"
    /\ raw' \in UpTo(MaxRanked, Entries)
    /\ scores' = Scatter(raw')
    /\ stage' = IF scores' = Rejected \/ \E i \in Sent : scores'[i] = None
                THEN "failed" ELSE "scored"
    /\ UNCHANGED <<request, prepared, hits, top, results, rival, parity>>

\* Faulty Insert: among equals the last one comes first.
InsertBefore(order, i) ==
    InsertAt(order, 1 + Cardinality({k \in DOMAIN order : scores[order[k]] > scores[i]}), i)

\* The stable sort by descending score, one document after another.
Insert(order, i) ==
    InsertAt(order, 1 + Cardinality({k \in DOMAIN order : scores[order[k]] >= scores[i]}), i)

Sorted ==
    LET sorted[n \in 0 .. Len(scores)] == IF n = 0 THEN <<>> ELSE Insert(sorted[n - 1], n)
    IN sorted[Len(scores)]

Rank ==
    /\ stage = "scored"
    /\ top' \in 0 .. MaxSent
    /\ results' = SubSeq(Sorted, 1, Least(IF top' = 0 THEN DefaultTop ELSE top', Len(scores)))
    /\ stage' = "answered"
    /\ UNCHANGED <<request, prepared, raw, hits, scores, rival, parity>>
-------------------------------------------------------------------------------
Position(list, id) == CHOOSE i \in DOMAIN list : list[i] = id

\* Faulty Ordered: pairs next to each other stand for all.
OrderedNext(base, cand) ==
    {p \in (DOMAIN base) \X (DOMAIN base) :
        p[1] + 1 = p[2] /\ Position(cand, base[p[1]]) < Position(cand, base[p[2]])}

\* The pairs of the baseline that the candidate has in the same order.
Ordered(base, cand) ==
    {p \in (DOMAIN base) \X (DOMAIN base) :
        p[1] < p[2] /\ Position(cand, base[p[1]]) < Position(cand, base[p[2]])}

\* The sum of the squared differences between the places a document has.
Squares(base, cand) ==
    SumOf([i \in DOMAIN base |-> (Position(base, base[i]) - Position(cand, base[i]))
                                 * (Position(base, base[i]) - Position(cand, base[i]))])

\* The first k of a ranking.
Top(list, k) == {list[i] : i \in 1 .. Least(k, Len(list))}

\* ranking_parity, for each top_k up to one more than there are documents.
Parity(base, cand) ==
    LET n == Len(base)
        pairs == (n * (n - 1)) \div 2
    IN IF n # Len(cand) \/ ToSet(base) # ToSet(cand) \/ Cardinality(ToSet(base)) # n
       THEN Rejected
       ELSE [spearman |-> IF n < 2 THEN <<1, 1>>
                          ELSE <<n * (n * n - 1) - 6 * Squares(base, cand), n * (n * n - 1)>>,
             kendall |-> IF n < 2 THEN <<1, 1>>
                         ELSE <<2 * Cardinality(Ordered(base, cand)) - pairs, pairs>>,
             agrees |-> base[1] = cand[1],
             overlap |-> [k \in 1 .. n + 1 |->
                            <<Cardinality(Top(base, k) \cap Top(cand, k)), Least(k, n)>>]]

\* The answer is compared with another list of documents.
Compare ==
    /\ stage = "answered"
    /\ rival' \in UpTo(Len(request.texts), Sent)
    /\ parity' = Parity(results, rival')
    /\ stage' = "compared"
    /\ UNCHANGED <<request, prepared, raw, hits, scores, top, results>>

Next == Validate \/ ScorePairs \/ ScoreList \/ Rank \/ Compare

Spec == Init /\ [][Next]_vars
-------------------------------------------------------------------------------
\* What is scored keeps to every limit, and nothing is cut unless the request allows it;
\* a request is refused only if it cannot be brought within the limits it accepts.
LimitsKept ==
    /\ stage \notin {"received", "refused"} =>
          /\ Len(prepared.texts) <= MaxDocuments /\ prepared.query <= MaxQuery
          /\ \A i \in Sent : prepared.texts[i] <= MaxDocument
          /\ Total(prepared.query, prepared.texts) <= MaxTotal
          /\ ~request.truncate => /\ prepared.query = request.query
                                  /\ prepared.texts = request.texts
    /\ stage = "refused" =>
          \/ Len(request.texts) > MaxDocuments
          \/ Total(Least(request.query, MaxQuery),
                   [i \in Sent |-> Least(request.texts[i], MaxDocument)]) > MaxTotal
          \/ ~request.truncate /\ (request.query > MaxQuery
                                   \/ \E i \in Sent : request.texts[i] > MaxDocument)

\* However the scores of a request are found in the cache or inferred, each document is
\* ranked by its own; a listwise ranking counts exactly if it names each document once,
\* with a finite score.
OwnScore ==
    /\ stage = "failed" => ~\E p \in [DOMAIN raw -> Sent] :
          /\ {p[k] : k \in DOMAIN raw} = Sent /\ Len(raw) = Len(request.texts)
          /\ \A k \in DOMAIN raw : raw[k].index = p[k] - 1 /\ raw[k].score # NotFinite
    /\ stage \in {"scored", "answered", "compared"} =>
          /\ Len(raw) = Len(request.texts)
          /\ \A i \in Sent : \E k \in DOMAIN raw :
                raw[k] = [index |-> i - 1, score |-> scores[i]]

\* The answer is the best documents, best first, equals in the order they were sent, as
\* many as were asked for or there are.
BestFirst ==
    stage \in {"answered", "compared"} =>
        /\ Len(results) = Least(IF top = 0 THEN DefaultTop ELSE top, Len(request.texts))
        /\ \A i \in DOMAIN results, d \in Sent :
              (\A k \in 1 .. i : results[k] # d) =>
                  \/ scores[results[i]] > scores[d]
                  \/ scores[results[i]] = scores[d] /\ results[i] < d

Is(fraction, value) == fraction[1] = value * fraction[2]

\* Parity is a measure of order: symmetric, 1 for the same ranking and only for it, -1
\* for the reverse of two or more, between them otherwise; and it is refused unless both
\* rank the same documents.
ParityMeasuresOrder ==
    stage = "compared" =>
        IF parity = Rejected
        THEN ~\E p \in [DOMAIN results -> DOMAIN rival] :
                /\ IsInjective(p) /\ Len(results) = Len(rival)
                /\ \A i \in DOMAIN results : rival[p[i]] = results[i]
        ELSE /\ parity = Parity(rival, results)
             /\ \A measure \in {parity.spearman, parity.kendall} :
                   /\ -measure[2] <= measure[1] /\ measure[1] <= measure[2]
                   /\ Is(measure, 1) <=> rival = results
                   /\ Is(measure, -1) <=> rival = Reverse(results) /\ Len(rival) > 1
             /\ parity.agrees <=> Is(parity.overlap[1], 1)
             /\ \A k \in DOMAIN parity.overlap : k >= Len(rival) => Is(parity.overlap[k], 1)
===============================================================================
