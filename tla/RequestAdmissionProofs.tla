------------------------ MODULE RequestAdmissionProofs ------------------------
(***************************************************************************)
(* For any requests, clients and limits: the types of RequestAdmission,    *)
(* that the bounded history is the newest of what was recorded, that a     *)
(* batch is recorded whole or not at all, and that the rate limiter, which *)
(* forgets, decides as one that remembers everything.                      *)
(***************************************************************************)
EXTENDS RequestAdmission, SequenceTheorems, FiniteSetTheorems, TLAPS

Records == Requests \X Nat
States == {"running", "scored", "raised"}

\* The records a request has in the log.
Mine(r) == {n \in DOMAIN recorded : recorded[n][1] = r}
\* What respond writes of a request.
Written(r) == [i \in DOMAIN item[r] |-> <<r, i>>]

(* The inductive invariant.                                                *)

\* The history, entry by entry.
NewestInv ==
    /\ Len(history) = IF Len(recorded) < HistorySize THEN Len(recorded) ELSE HistorySize
    /\ \A i \in 1 .. Len(history) : history[i] = recorded[Len(recorded) + 1 - i]

\* Calls start when a request is admitted, it is answered when it is done, and an answer
\* of ok has all its calls scored.
ItemsInv(r) ==
    /\ stage[r] \in {"idle", "authenticated", "admitted"} => item[r] = <<>>
    /\ stage[r] # "done" => answer[r] = "none"
    /\ answer[r] = "ok" => \A i \in DOMAIN item[r] : item[r][i] = "scored"

\* Where a request's records are.
WholeInv(r) ==
    IF answer[r] # "ok" \/ item[r] = <<>> THEN Mine(r) = {}
    ELSE \E first \in Mine(r) :
            /\ Mine(r) = first .. first + Len(item[r]) - 1
            /\ \A n \in Mine(r) : recorded[n] = <<r, n - first + 1>>

\* The times a client passed at never decrease, and its window is all of them but the
\* first k, which are more than a minute old.
WindowInv(c) ==
    /\ \A i, j \in 1 .. Len(passed[c]) : i <= j => passed[c][i] <= passed[c][j]
    /\ \A i \in 1 .. Len(passed[c]) : passed[c][i] <= now
    /\ \E k \in 0 .. Len(passed[c]) :
          /\ Len(window[c]) = Len(passed[c]) - k
          /\ \A i \in 1 .. Len(window[c]) : window[c][i] = passed[c][k + i]
          /\ \A i \in 1 .. k : passed[c][i] + Window < now
-------------------------------------------------------------------------------
(* Facts about the operators.                                              *)

\* A window has a longest expired prefix: every entry of it is expired, the next is not.
LEMMA ExpiredPrefix ==
  ASSUME NEW w \in Seq(Nat), NEW t \in Nat
  PROVE  LET old == {n \in 0 .. Len(w) : \A i \in 1 .. n : w[i] + Window < t}
         IN /\ Max(old) \in 0 .. Len(w)
            /\ \A i \in 1 .. Max(old) : w[i] + Window < t
            /\ Max(old) < Len(w) => w[Max(old) + 1] + Window >= t
  <1> DEFINE L == Len(w)
             old == {n \in 0 .. L : \A i \in 1 .. n : w[i] + Window < t}
             size == Cardinality(old)
  <1>1. L \in Nat /\ \A i \in 1 .. L : w[i] \in Nat
    BY LenProperties, ElementOfSeq
  <1>2. Window \in Nat
    BY AdmissionAssumption
  <1>3. old \subseteq 0 .. L /\ 0 \in old
    BY <1>1
  <1>4. \A n \in old : 0 .. n \subseteq old
    BY <1>1
  <1>5. \A i \in 1 .. L : i \notin old /\ i - 1 \in old => w[i] + Window >= t
    BY <1>1, <1>2
  <1>6. \A n \in old : \A i \in 1 .. n : w[i] + Window < t
    OBVIOUS
  <1> HIDE DEF old, L
  <1>7. IsFiniteSet(old)
    <2>1. IsFiniteSet(0 .. L)
      BY <1>1, FS_Interval
    <2>2. old \in SUBSET (0 .. L)
      BY <1>3
    <2> QED BY <2>1, <2>2, FS_Subset
  <1> HIDE DEF size
  <1>8. size \in Nat /\ size = Cardinality(old)
    BY <1>7, FS_CardinalityType DEF size
  <1>9. \A n \in old : n + 1 <= size
    <2> SUFFICES ASSUME NEW n \in old PROVE n + 1 <= size
      OBVIOUS
    <2>1. n \in Nat /\ 0 .. n \in SUBSET old
      BY <1>1, <1>3, <1>4
    <2>2. Cardinality(0 .. n) = n + 1
      BY <2>1, FS_Interval
    <2>3. Cardinality(0 .. n) <= Cardinality(old)
      BY <2>1, <1>7, FS_Subset
    <2> QED BY <2>2, <2>3, <1>8
  <1>10. size >= 1 /\ old \subseteq 0 .. size - 1
    BY <1>1, <1>3, <1>8, <1>9
  <1>11. IsFiniteSet(0 .. size - 1) /\ Cardinality(0 .. size - 1) = size
    <2>1. size - 1 \in Int /\ 0 \in Int /\ ~(0 > size - 1) /\ (size - 1) - 0 + 1 = size
      BY <1>8, <1>10
    <2> QED BY <2>1, FS_Interval
  <1>12. old = 0 .. size - 1
    BY <1>8, <1>10, <1>11, FS_Subset
  <1>13. size - 1 \in old /\ \A n \in old : size - 1 >= n
    <2>1. size - 1 \in 0 .. size - 1 /\ \A n \in 0 .. size - 1 : size - 1 >= n
      BY <1>8, <1>10
    <2> QED BY <2>1, <1>12, Zenon
  <1>14. \A m \in old : (\A n \in old : m >= n) => m = size - 1
    BY <1>8, <1>12, <1>13
  <1>15. Max(old) = size - 1
    BY <1>13, <1>14 DEF Max
  <1>16. size <= L => size \notin old /\ size \in 1 .. L
    BY <1>1, <1>8, <1>10, <1>12
  <1>17. size - 1 < L => w[size] + Window >= t
    BY <1>1, <1>5, <1>8, <1>13, <1>16
  <1>18. size - 1 \in 0 .. L /\ \A i \in 1 .. size - 1 : w[i] + Window < t
    BY <1>3, <1>6, <1>13
  <1>19. /\ Max(old) \in 0 .. L
         /\ \A i \in 1 .. Max(old) : w[i] + Window < t
         /\ Max(old) < L => w[Max(old) + 1] + Window >= t
    BY <1>8, <1>15, <1>17, <1>18
  <1> QED BY <1>19, Zenon DEF old, L

\* What is left of a client's window: a suffix of what was there, the rest of it expired,
\* and its first entry not.
LEMMA RecentSuffix ==
  ASSUME TypeOK, NEW c \in Clients
  PROVE  \E m \in 0 .. Len(window[c]) :
            /\ Recent(c) \in Seq(Nat)
            /\ Len(Recent(c)) = Len(window[c]) - m
            /\ \A i \in 1 .. Len(Recent(c)) : Recent(c)[i] = window[c][m + i]
            /\ \A i \in 1 .. m : window[c][i] + Window < now
            /\ m < Len(window[c]) => window[c][m + 1] + Window >= now
  <1> DEFINE w == window[c]
             L == Len(w)
             old == {n \in 0 .. Len(w) : \A i \in 1 .. n : w[i] + Window < now}
             m == Max(old)
  <1>1. w \in Seq(Nat) /\ now \in Nat
    BY DEF TypeOK
  <1>2. L \in Nat /\ \A i \in 1 .. L : w[i] \in Nat
    BY <1>1, LenProperties, ElementOfSeq
  <1>3. /\ m \in 0 .. L
        /\ \A i \in 1 .. m : w[i] + Window < now
        /\ m < L => w[m + 1] + Window >= now
    BY <1>1, ExpiredPrefix
  <1>4. Recent(c) = SubSeq(w, m + 1, L)
    BY DEF Recent
  <1> HIDE DEF m, L, w
  <1>5. m + 1 \in Int /\ L \in Int /\ \A i \in m + 1 .. L : w[i] \in Nat
    BY <1>2, <1>3
  <1>6. /\ Recent(c) \in Seq(Nat)
        /\ Len(Recent(c)) = IF m + 1 <= L THEN L - (m + 1) + 1 ELSE 0
        /\ \A i \in 1 .. L - (m + 1) + 1 : Recent(c)[i] = w[m + 1 + i - 1]
    BY <1>4, <1>5, SubSeqProperties
  <1>7. Len(Recent(c)) = L - m
    BY <1>2, <1>3, <1>6
  <1>8. \A i \in 1 .. Len(Recent(c)) : Recent(c)[i] = w[m + i]
    BY <1>2, <1>3, <1>6, <1>7
  <1>9. \E k \in 0 .. L :
            /\ Recent(c) \in Seq(Nat)
            /\ Len(Recent(c)) = L - k
            /\ \A i \in 1 .. Len(Recent(c)) : Recent(c)[i] = w[k + i]
            /\ \A i \in 1 .. k : w[i] + Window < now
            /\ k < L => w[k + 1] + Window >= now
    BY <1>3, <1>6, <1>7, <1>8, Zenon
  <1> QED BY <1>9, Zenon DEF L, w

\* The records of a request are a sequence.
LEMMA WrittenType ==
  ASSUME TypeOK, NEW r \in Requests
  PROVE  /\ Written(r) \in Seq(Records) /\ Len(Written(r)) = Len(item[r])
         /\ Len(item[r]) \in Nat
         /\ DOMAIN item[r] = 1 .. Len(item[r])
         /\ \A i \in 1 .. Len(item[r]) : Written(r)[i] = <<r, i>>
  <1>1. item[r] \in Seq(States)
    BY DEF TypeOK, States
  <1>2. Len(item[r]) \in Nat /\ DOMAIN item[r] = 1 .. Len(item[r])
    BY <1>1, LenProperties
  <1>3. Written(r) = [i \in 1 .. Len(item[r]) |-> <<r, i>>]
    BY <1>2 DEF Written
  <1>4. \A i \in 1 .. Len(item[r]) : <<r, i>> \in Records
    BY <1>2 DEF Records
  <1>5. Written(r) \in Seq(Records) /\ Len(Written(r)) = Len(item[r])
    BY <1>2, <1>3, <1>4
  <1> QED BY <1>2, <1>3, <1>5
-------------------------------------------------------------------------------
(* Types.                                                                  *)

LEMMA TypeInit == Init => TypeOK
  <1> SUFFICES ASSUME Init PROVE TypeOK
    OBVIOUS
  <1>1. window \in [Clients -> Seq(Nat)] /\ passed \in [Clients -> Seq(Nat)]
    BY DEF Init
  <1>2. item \in [Requests -> Seq(States)]
    BY DEF Init
  <1> QED BY <1>1, <1>2 DEF Init, TypeOK, States

\* The limiter keeps sequences of times.
LEMMA TypeRateLimit ==
  ASSUME TypeOK, NEW r \in Requests, RateLimit(r)
  PROVE  TypeOK'
  <1> DEFINE c == client[r]
  <1>1. c \in Clients /\ now \in Nat
    BY DEF TypeOK
  <1>2. Recent(c) \in Seq(Nat) /\ passed[c] \in Seq(Nat)
    BY <1>1, RecentSuffix DEF TypeOK
  <1>3. Append(Recent(c), now) \in Seq(Nat) /\ Append(passed[c], now) \in Seq(Nat)
    BY <1>1, <1>2
  <1>4. \/ /\ window' = [window EXCEPT ![c] = Recent(c)]
           /\ Reply(r, "rate_limited") /\ passed' = passed
        \/ /\ window' = [window EXCEPT ![c] = Append(Recent(c), now)]
           /\ passed' = [passed EXCEPT ![c] = Append(passed[c], now)]
           /\ Go(r, "admitted") /\ answer' = answer
    BY Zenon DEF RateLimit
  <1>5. UNCHANGED <<now, log, client, item>>
    BY DEF RateLimit
  <1> HIDE DEF c
  <1>6. window' \in [Clients -> Seq(Nat)] /\ passed' \in [Clients -> Seq(Nat)]
    <2>1. window \in [Clients -> Seq(Nat)] /\ passed \in [Clients -> Seq(Nat)]
      BY DEF TypeOK
    <2>2. CASE window' = [window EXCEPT ![c] = Recent(c)] /\ passed' = passed
      BY <1>1, <1>2, <2>1, <2>2
    <2>3. CASE /\ window' = [window EXCEPT ![c] = Append(Recent(c), now)]
               /\ passed' = [passed EXCEPT ![c] = Append(passed[c], now)]
      BY <1>1, <1>3, <2>1, <2>3
    <2> QED BY <1>4, <2>2, <2>3
  <1>7. /\ stage' \in [Requests -> {"idle", "authenticated", "admitted", "working", "done"}]
        /\ answer' \in [Requests -> {"none", "refused", "rate_limited", "failed", "ok"}]
    BY <1>4 DEF TypeOK, Go, Reply
  <1> QED BY <1>5, <1>6, <1>7 DEF TypeOK, log

LEMMA TypeBegin ==
  ASSUME TypeOK, NEW r \in Requests, Begin(r)
  PROVE  TypeOK'
  <1>1. item' \in [Requests -> Seq(States)]
    <2>1. CASE UNCHANGED item
      BY <2>1 DEF TypeOK, States
    <2>2. CASE ~UNCHANGED item
      <3>1. PICK n \in 0 .. MaxBatch :
               item' = [item EXCEPT ![r] = [i \in 1 .. n |-> "running"]]
        BY <2>2 DEF Begin
      <3>2. n \in Nat /\ "running" \in States
        BY AdmissionAssumption DEF States
      <3>3. [i \in 1 .. n |-> "running"] \in Seq(States)
        BY <3>2
      <3> QED BY <3>1, <3>3 DEF TypeOK, States
    <2> QED BY <2>1, <2>2
  <1>2. /\ stage' \in [Requests -> {"idle", "authenticated", "admitted", "working", "done"}]
        /\ answer' \in [Requests -> {"none", "refused", "rate_limited", "failed", "ok"}]
    BY DEF Begin, TypeOK, Go, Reply
  <1> QED BY <1>1, <1>2 DEF TypeOK, Begin, log, limiter, States

LEMMA TypeItemEnds ==
  ASSUME TypeOK, NEW r \in Requests, NEW i \in DOMAIN item[r], ItemEnds(r, i)
  PROVE  TypeOK'
  <1>1. PICK result \in States : item' = [item EXCEPT ![r][i] = result]
    BY DEF ItemEnds, States
  <1>2. item[r] \in Seq(States) /\ i \in 1 .. Len(item[r])
    BY LenProperties DEF TypeOK, States
  <1>3. [item[r] EXCEPT ![i] = result] \in Seq(States)
    BY <1>2, ExceptSeq
  <1>4. item' = [item EXCEPT ![r] = [item[r] EXCEPT ![i] = result]]
    BY <1>1
  <1>5. item' \in [Requests -> Seq(States)]
    BY <1>3, <1>4 DEF TypeOK, States
  <1> QED BY <1>5 DEF TypeOK, ItemEnds, log, limiter, States

\* Push keeps a sequence of records, as many as there is room for: first what is new,
\* the latest first, then what was there.
LEMMA PushEntries ==
  ASSUME NEW records \in Seq(Records), history \in Seq(Records), Push(records)
  PROVE  /\ history' \in Seq(Records)
         /\ LET all == Len(records) + Len(history)
            IN Len(history') = IF all < HistorySize THEN all ELSE HistorySize
         /\ \A i \in 1 .. Len(history') :
               history'[i] = IF i <= Len(records) THEN records[Len(records) + 1 - i]
                             ELSE history[i - Len(records)]
  <1> DEFINE L == Len(records)
             H == Len(history)
             all == Reverse(records) \o history
             n == IF Len(all) < HistorySize THEN Len(all) ELSE HistorySize
  <1>1. L \in Nat /\ H \in Nat /\ \A i \in 1 .. L : records[i] \in Records
    BY LenProperties, ElementOfSeq
  <1>2. Reverse(records) = [i \in 1 .. L |-> records[(L - i) + 1]]
    BY DEF Reverse
  <1> HIDE DEF L, H
  <1>3. \A i \in 1 .. L : records[(L - i) + 1] \in Records
    BY <1>1
  <1>4. /\ Reverse(records) \in Seq(Records) /\ Len(Reverse(records)) = L
        /\ \A i \in 1 .. L : Reverse(records)[i] = records[L + 1 - i]
    BY <1>1, <1>2, <1>3
  <1>5. /\ all \in Seq(Records) /\ Len(all) = L + H
        /\ \A i \in 1 .. L + H :
              all[i] = IF i <= L THEN records[L + 1 - i] ELSE history[i - L]
    <2>1. /\ all \in Seq(Records) /\ Len(all) = Len(Reverse(records)) + Len(history)
          /\ \A i \in 1 .. Len(Reverse(records)) + Len(history) :
                all[i] = IF i <= Len(Reverse(records)) THEN Reverse(records)[i]
                         ELSE history[i - Len(Reverse(records))]
      BY <1>4, ConcatProperties
    <2> QED BY <2>1, <1>1, <1>4 DEF H
  <1>6. history' = SubSeq(all, 1, n)
    BY DEF Push
  <1> HIDE DEF all
  <1>7. n \in Nat /\ n = (IF L + H < HistorySize THEN L + H ELSE HistorySize) /\ n <= L + H
    <2>1. HistorySize \in Nat /\ Len(all) = L + H /\ L + H \in Nat
      BY <1>1, <1>5, AdmissionAssumption
    <2> QED BY <2>1
  <1> HIDE DEF n
  <1>8. \A i \in 1 .. n : all[i] \in Records
    BY <1>1, <1>5, <1>7, ElementOfSeq
  <1>9. /\ history' \in Seq(Records)
        /\ Len(history') = IF 1 <= n THEN n - 1 + 1 ELSE 0
        /\ \A i \in 1 .. n - 1 + 1 : history'[i] = all[1 + i - 1]
    BY <1>6, <1>7, <1>8, SubSeqProperties
  <1>10. Len(history') = n
    BY <1>7, <1>9
  <1>11. \A i \in 1 .. n :
            history'[i] = IF i <= L THEN records[L + 1 - i] ELSE history[i - L]
    BY <1>1, <1>5, <1>7, <1>9
  <1> QED BY <1>7, <1>9, <1>10, <1>11, Zenon DEF L, H

\* What Respond does, in terms of what is written.
LEMMA RespondWrites ==
  ASSUME TypeOK, NEW r \in Requests, Respond(r)
  PROVE  Push(Written(r)) /\ recorded' = recorded \o Written(r)
  BY DEF Respond, Written

LEMMA TypeRespond ==
  ASSUME TypeOK, NEW r \in Requests, Respond(r)
  PROVE  TypeOK'
  <1>1. Written(r) \in Seq(Records) /\ history \in Seq(Records) /\ recorded \in Seq(Records)
    BY WrittenType DEF TypeOK, Records
  <1>2. history' \in Seq(Records) /\ recorded' \in Seq(Records)
    BY <1>1, RespondWrites, PushEntries, ConcatProperties
  <1>3. /\ stage' \in [Requests -> {"idle", "authenticated", "admitted", "working", "done"}]
        /\ answer' \in [Requests -> {"none", "refused", "rate_limited", "failed", "ok"}]
    BY DEF Respond, TypeOK, Go, Reply
  <1> QED BY <1>2, <1>3 DEF TypeOK, Respond, limiter, Records

LEMMA TypeNext == TypeOK /\ [Next]_vars => TypeOK'
  <1> SUFFICES ASSUME TypeOK, [Next]_vars PROVE TypeOK'
    OBVIOUS
  <1>1. CASE Tick
    BY <1>1 DEF Tick, TypeOK, log
  <1>2. ASSUME NEW r \in Requests, Arrive(r) PROVE TypeOK'
    BY <1>2 DEF Arrive, TypeOK, Go, Reply, log, limiter
  <1>3. ASSUME NEW r \in Requests, Fail(r) PROVE TypeOK'
    BY <1>3 DEF Fail, TypeOK, Go, Reply, log, limiter
  <1>4. CASE UNCHANGED vars
    BY <1>4 DEF vars, TypeOK, log, limiter
  <1> QED BY <1>1, <1>2, <1>3, <1>4, TypeRateLimit, TypeBegin, TypeItemEnds, TypeRespond
          DEF Next, Proceed

\* The types of RequestAdmission.
THEOREM AdmissionTypes == Spec => []TypeOK
  BY TypeInit, TypeNext, PTL DEF Spec
-------------------------------------------------------------------------------
(* The history.                                                            *)

\* Only Respond touches what is recorded.
LEMMA LogStep ==
  ASSUME TypeOK, [Next]_vars, ~UNCHANGED log
  PROVE  \E r \in Requests : Respond(r)
  BY DEF Next, Proceed, vars, Tick, Arrive, RateLimit, Begin, ItemEnds, Fail, limiter

LEMMA NewestNext ==
  ASSUME TypeOK, NewestInv, [Next]_vars
  PROVE  NewestInv'
  <1>1. CASE UNCHANGED log
    BY <1>1 DEF log, NewestInv
  <1>2. CASE ~UNCHANGED log
    <2>1. PICK r \in Requests : Respond(r)
      BY <1>2, LogStep
    <2> DEFINE new == Written(r)
               n == Len(new)
               R == Len(recorded)
               H == Len(history)
    <2>2. new \in Seq(Records) /\ history \in Seq(Records) /\ recorded \in Seq(Records)
      BY WrittenType DEF TypeOK, Records
    <2>3. n \in Nat /\ R \in Nat /\ H \in Nat /\ HistorySize \in Nat
      BY <2>2, LenProperties, AdmissionAssumption
    <2>4. /\ Len(history') = IF n + H < HistorySize THEN n + H ELSE HistorySize
          /\ \A i \in 1 .. Len(history') :
                history'[i] = IF i <= n THEN new[n + 1 - i] ELSE history[i - n]
      BY <2>1, <2>2, RespondWrites, PushEntries
    <2>5. /\ Len(recorded') = R + n
          /\ \A i \in 1 .. R + n :
                recorded'[i] = IF i <= R THEN recorded[i] ELSE new[i - R]
      BY <2>1, <2>2, RespondWrites, ConcatProperties
    <2>6. /\ H = IF R < HistorySize THEN R ELSE HistorySize
          /\ \A i \in 1 .. H : history[i] = recorded[R + 1 - i]
      BY DEF NewestInv
    <2> HIDE DEF new, n, R, H
    <2>7. Len(history') = IF R + n < HistorySize THEN R + n ELSE HistorySize
      BY <2>3, <2>4, <2>6
    <2>8. ASSUME NEW i \in 1 .. Len(history')
          PROVE  history'[i] = recorded'[Len(recorded') + 1 - i]
      <3>0. i \in 1 .. R + n /\ Len(recorded') + 1 - i = R + n + 1 - i
        BY <2>3, <2>5, <2>7
      <3>1. CASE i <= n
        <4>1. R + n + 1 - i \in 1 .. R + n /\ ~(R + n + 1 - i <= R)
              /\ (R + n + 1 - i) - R = n + 1 - i
          BY <2>3, <3>0, <3>1
        <4>2. recorded'[R + n + 1 - i] = new[n + 1 - i]
          BY <2>5, <4>1
        <4> QED BY <2>4, <3>0, <3>1, <4>2
      <3>2. CASE ~(i <= n)
        <4>1. R + n + 1 - i \in 1 .. R + n /\ R + n + 1 - i <= R
              /\ i - n \in 1 .. H /\ R + 1 - (i - n) = R + n + 1 - i
          BY <2>3, <2>6, <2>7, <3>0, <3>2
        <4>2. recorded'[R + n + 1 - i] = recorded[R + n + 1 - i]
          BY <2>5, <4>1
        <4>3. history[i - n] = recorded[R + n + 1 - i]
          BY <2>6, <4>1
        <4> QED BY <2>4, <3>0, <3>2, <4>2, <4>3
      <3> QED BY <3>1, <3>2
    <2> QED BY <2>5, <2>7, <2>8 DEF NewestInv
  <1> QED BY <1>1, <1>2

LEMMA MinOfTwo ==
  ASSUME NEW a \in Nat, NEW b \in Nat
  PROVE  Min({a, b}) = IF b < a THEN b ELSE a
  <1> DEFINE m == IF b < a THEN b ELSE a
  <1>1. m \in {a, b} /\ \A y \in {a, b} : m <= y
    OBVIOUS
  <1>2. \A x \in {a, b} : (\A y \in {a, b} : x <= y) => x = m
    OBVIOUS
  <1> HIDE DEF m
  <1>3. Min({a, b}) = m
    BY <1>1, <1>2 DEF Min
  <1> QED BY <1>3 DEF m

LEMMA NewestIsHistory ==
  ASSUME TypeOK, NewestInv
  PROVE  HistoryIsNewest
  <1> DEFINE R == Len(recorded)
             all == Reverse(recorded)
             n == Min({HistorySize, R})
             newest == SubSeq(all, 1, n)
  <1>1. recorded \in Seq(Records) /\ history \in Seq(Records)
    BY DEF TypeOK, Records
  <1>2. R \in Nat /\ HistorySize \in Nat
    BY <1>1, LenProperties, AdmissionAssumption
  <1>3. n = IF R < HistorySize THEN R ELSE HistorySize
    BY <1>2, MinOfTwo
  <1>4. \A i \in 1 .. R : recorded[i] \in Records
    BY <1>1, ElementOfSeq
  <1>5. all = [i \in 1 .. R |-> recorded[(R - i) + 1]]
    BY DEF Reverse
  <1>6. /\ Len(history) = IF R < HistorySize THEN R ELSE HistorySize
        /\ \A i \in 1 .. Len(history) : history[i] = recorded[R + 1 - i]
    BY DEF NewestInv
  <1>7. HistoryIsNewest <=> history = newest
    BY DEF HistoryIsNewest
  <1> HIDE DEF R, n, all
  <1>8. n \in 0 .. R
    BY <1>2, <1>3
  <1>9. \A i \in 1 .. n : all[i] = recorded[R + 1 - i] /\ all[i] \in Records
    BY <1>2, <1>4, <1>5, <1>8
  <1>10. /\ newest \in Seq(Records)
         /\ Len(newest) = IF 1 <= n THEN n - 1 + 1 ELSE 0
         /\ \A i \in 1 .. n - 1 + 1 : newest[i] = all[1 + i - 1]
    <2>1. 1 \in Int /\ n \in Int
      BY <1>8
    <2> QED BY <1>9, <2>1, SubSeqProperties
  <1> HIDE DEF newest
  <1>11. Len(newest) = n /\ Len(history) = n
    BY <1>3, <1>6, <1>8, <1>10
  <1>12. \A i \in 1 .. n : newest[i] = history[i]
    BY <1>6, <1>8, <1>9, <1>10, <1>11
  <1>13. newest = history
    BY <1>1, <1>10, <1>11, <1>12, SeqEqual
  <1> QED BY <1>7, <1>13

\* However many batches of whatever size are recorded, the dashboard's bounded history is
\* the newest of all that was recorded, the newest first.
THEOREM HistoryStaysNewest == Spec => []HistoryIsNewest
  <1>1. Init => NewestInv
    BY AdmissionAssumption DEF Init, NewestInv
  <1>2. TypeOK /\ NewestInv /\ [Next]_vars => NewestInv'
    BY NewestNext
  <1>3. TypeOK /\ NewestInv => HistoryIsNewest
    BY NewestIsHistory
  <1> QED BY <1>1, <1>2, <1>3, AdmissionTypes, PTL DEF Spec
-------------------------------------------------------------------------------
(* Batches.                                                                *)

LEMMA ItemsNext ==
  ASSUME TypeOK, NEW q \in Requests, ItemsInv(q), [Next]_vars
  PROVE  ItemsInv(q)'
  <1> USE DEF ItemsInv
  <1>1. CASE Tick \/ UNCHANGED vars
    BY <1>1 DEF Tick, vars
  <1>2. ASSUME NEW r \in Requests, Arrive(r) \/ RateLimit(r) \/ Fail(r)
        PROVE  ItemsInv(q)'
    BY <1>2 DEF Arrive, RateLimit, Fail, Go, Reply, TypeOK
  <1>3. ASSUME NEW r \in Requests, Begin(r)
        PROVE  ItemsInv(q)'
    <2>1. CASE q # r
      BY <1>3, <2>1 DEF Begin, Go, Reply, TypeOK
    <2>2. CASE q = r /\ UNCHANGED item
      BY <1>3, <2>2 DEF Begin, Go, Reply, TypeOK
    <2>3. CASE q = r /\ ~UNCHANGED item
      <3>1. PICK n \in 0 .. MaxBatch :
               /\ item' = [item EXCEPT ![r] = [i \in 1 .. n |-> "running"]]
               /\ IF n = 0 THEN Reply(r, "ok") ELSE Go(r, "working") /\ UNCHANGED answer
        BY <1>3, <2>3 DEF Begin
      <3>2. stage[r] = "admitted" /\ answer[r] = "none"
        BY <1>3, <2>3 DEF Begin
      <3>3. CASE n = 0
        <4>1. item'[r] = [i \in 1 .. 0 |-> "running"] /\ stage'[r] = "done" /\ answer'[r] = "ok"
          BY <3>1, <3>3 DEF Reply, Go, TypeOK
        <4>2. DOMAIN item'[r] = {}
          BY <4>1
        <4> QED BY <2>3, <4>1, <4>2
      <3>4. CASE n # 0
        <4>1. stage'[r] = "working" /\ answer'[r] = "none"
          BY <3>1, <3>2, <3>4 DEF Go, TypeOK
        <4> QED BY <2>3, <4>1
      <3> QED BY <3>3, <3>4
    <2> QED BY <2>1, <2>2, <2>3
  <1>4. ASSUME NEW r \in Requests, NEW i \in DOMAIN item[r], ItemEnds(r, i)
        PROVE  ItemsInv(q)'
    <2>1. item[r][i] = "running" /\ UNCHANGED <<stage, answer>>
      BY <1>4 DEF ItemEnds
    <2>2. PICK result \in States : item' = [item EXCEPT ![r][i] = result]
      BY <1>4 DEF ItemEnds, States
    <2>3. CASE q # r
      BY <2>1, <2>2, <2>3 DEF TypeOK
    <2>4. CASE q = r
      <3>1. item[q] # <<>>
        BY <2>4
      <3>2. answer[q] # "ok"
        BY <2>1, <2>4
      <3> QED BY <2>1, <3>1, <3>2
    <2> QED BY <2>3, <2>4
  <1>5. ASSUME NEW r \in Requests, Respond(r)
        PROVE  ItemsInv(q)'
    BY <1>5 DEF Respond, Go, Reply, TypeOK
  <1> QED BY <1>1, <1>2, <1>3, <1>4, <1>5 DEF Next, Proceed

\* Respond appends the records of its request, in order, after all others.
LEMMA MineAfterRespond ==
  ASSUME TypeOK, NEW r \in Requests, Respond(r)
  PROVE  /\ Len(recorded) \in Nat
         /\ \A q \in Requests \ {r} : Mine(q)' = Mine(q)
         /\ \A n \in DOMAIN recorded : recorded'[n] = recorded[n]
         /\ Mine(r) = {} => Mine(r)' = Len(recorded) + 1 .. Len(recorded) + Len(item[r])
         /\ \A n \in Len(recorded) + 1 .. Len(recorded) + Len(item[r]) :
               recorded'[n] = <<r, n - Len(recorded)>>
  <1> DEFINE R == Len(recorded)
             k == Len(item[r])
  <1>1. recorded \in Seq(Records) /\ Written(r) \in Seq(Records)
    BY WrittenType DEF TypeOK, Records
  <1>2. R \in Nat /\ k \in Nat /\ DOMAIN recorded = 1 .. R
    BY <1>1, LenProperties, WrittenType
  <1>3. /\ Len(Written(r)) = k
        /\ \A i \in 1 .. k : Written(r)[i] = <<r, i>>
    BY WrittenType
  <1>4. /\ recorded' \in Seq(Records)
        /\ Len(recorded') = R + Len(Written(r))
        /\ \A i \in 1 .. R + Len(Written(r)) :
              recorded'[i] = IF i <= R THEN recorded[i] ELSE Written(r)[i - R]
    BY <1>1, RespondWrites, ConcatProperties
  <1>5. DOMAIN recorded' = 1 .. Len(recorded')
    BY <1>4, LenProperties
  <1> HIDE DEF R, k
  <1>6. DOMAIN recorded' = 1 .. R + k
    BY <1>3, <1>4, <1>5
  <1>7. \A n \in 1 .. R : n \in 1 .. R + k /\ recorded'[n] = recorded[n]
    BY <1>2, <1>3, <1>4
  <1>8. \A n \in R + 1 .. R + k : n \in 1 .. R + k /\ recorded'[n] = <<r, n - R>>
    BY <1>2, <1>3, <1>4
  <1>9. \A n \in 1 .. R + k : n \in 1 .. R \/ n \in R + 1 .. R + k
    BY <1>2
  <1>10. \A n \in R + 1 .. R + k : recorded'[n][1] = r
    BY <1>8
  <1>11. ASSUME NEW q \in Requests \ {r} PROVE Mine(q)' = Mine(q)
    BY <1>2, <1>6, <1>7, <1>9, <1>10 DEF Mine
  <1>12. ASSUME Mine(r) = {} PROVE Mine(r)' = R + 1 .. R + k
    <2>1. \A n \in 1 .. R : recorded[n][1] # r
      BY <1>2, <1>12 DEF Mine
    <2> QED BY <2>1, <1>6, <1>7, <1>8, <1>9, <1>10 DEF Mine
  <1> QED BY <1>2, <1>7, <1>8, <1>11, <1>12 DEF R, k

\* The records of a request that is not being answered stay as they are.
LEMMA WholeUndisturbed ==
  ASSUME NEW q \in Requests, WholeInv(q),
         Mine(q)' = Mine(q), \A n \in Mine(q) : recorded'[n] = recorded[n],
         answer'[q] = answer[q], Len(item'[q]) = Len(item[q]),
         item[q] = <<>> <=> item'[q] = <<>>
  PROVE  WholeInv(q)'
  <1>1. CASE answer[q] # "ok" \/ item[q] = <<>>
    BY <1>1 DEF WholeInv
  <1>2. CASE ~(answer[q] # "ok" \/ item[q] = <<>>)
    <2>1. PICK first \in Mine(q) :
             /\ Mine(q) = first .. first + Len(item[q]) - 1
             /\ \A n \in Mine(q) : recorded[n] = <<q, n - first + 1>>
      BY <1>2 DEF WholeInv
    <2>2. /\ first \in Mine(q)'
          /\ Mine(q)' = first .. first + Len(item'[q]) - 1
          /\ \A n \in Mine(q)' : recorded'[n] = <<q, n - first + 1>>
      BY <2>1
    <2>3. ~(answer'[q] # "ok" \/ item'[q] = <<>>)
      BY <1>2
    <2> QED BY <2>2, <2>3 DEF WholeInv
  <1> QED BY <1>1, <1>2

LEMMA MineKept ==
  ASSUME UNCHANGED recorded, NEW q \in Requests
  PROVE  Mine(q)' = Mine(q)
  BY DEF Mine

\* Where nothing is recorded, a request that gets an answer, or starts its calls, has no
\* records and needs none.
LEMMA WholeAnswered ==
  ASSUME NEW q \in Requests, WholeInv(q), UNCHANGED recorded,
         answer[q] = "none", answer'[q] # "ok" \/ item'[q] = <<>>
  PROVE  WholeInv(q)'
  BY MineKept DEF WholeInv

LEMMA WholeNext ==
  ASSUME TypeOK, NEW q \in Requests, ItemsInv(q), WholeInv(q), [Next]_vars
  PROVE  WholeInv(q)'
  <1>0. /\ answer \in [Requests -> {"none", "refused", "rate_limited", "failed", "ok"}]
        /\ item \in [Requests -> Seq(States)]
    BY DEF TypeOK, States
  <1>1. CASE Tick \/ UNCHANGED vars
    <2>1. UNCHANGED <<recorded, answer, item>>
      BY <1>1 DEF Tick, vars, log
    <2> QED BY <2>1, MineKept, WholeUndisturbed
  <1>2. ASSUME NEW r \in Requests, Arrive(r) \/ RateLimit(r) \/ Fail(r)
        PROVE  WholeInv(q)'
    <2>1. UNCHANGED <<recorded, item>> /\ stage[r] # "done"
      BY <1>2 DEF Arrive, RateLimit, Fail, log
    <2>2. CASE answer'[q] = answer[q]
      BY <2>1, <2>2, MineKept, WholeUndisturbed
    <2>3. CASE answer'[q] # answer[q]
      <3>1. q = r /\ answer'[q] # "ok"
        BY <1>0, <1>2, <2>3 DEF Arrive, RateLimit, Fail, Go, Reply
      <3>2. answer[q] = "none"
        BY <2>1, <3>1 DEF ItemsInv
      <3> QED BY <2>1, <3>1, <3>2, WholeAnswered
    <2> QED BY <2>2, <2>3
  <1>3. ASSUME NEW r \in Requests, Begin(r)
        PROVE  WholeInv(q)'
    <2>1. UNCHANGED recorded /\ stage[r] = "admitted"
      BY <1>3 DEF Begin, log
    <2>2. CASE q # r
      <3>1. answer'[q] = answer[q] /\ item'[q] = item[q]
        BY <1>0, <1>3, <2>2 DEF Begin, Go, Reply
      <3> QED BY <2>1, <3>1, MineKept, WholeUndisturbed
    <2>3. CASE q = r
      <3>1. answer[q] = "none" /\ item[q] = <<>>
        BY <2>1, <2>3 DEF ItemsInv
      <3>2. CASE UNCHANGED item
        BY <2>1, <3>1, <3>2, WholeAnswered
      <3>3. CASE ~UNCHANGED item
        <4>1. PICK n \in 0 .. MaxBatch :
                 /\ item' = [item EXCEPT ![r] = [i \in 1 .. n |-> "running"]]
                 /\ IF n = 0 THEN Reply(r, "ok") ELSE Go(r, "working") /\ UNCHANGED answer
          BY <1>3, <3>3 DEF Begin
        <4>2. CASE n = 0
          <5>1. item'[q] = [i \in 1 .. 0 |-> "running"]
            BY <1>0, <2>3, <4>1, <4>2
          <5>2. item'[q] = <<>>
            BY <5>1
          <5> QED BY <2>1, <3>1, <5>2, WholeAnswered
        <4>3. CASE n # 0
          <5>1. answer'[q] # "ok"
            BY <3>1, <4>1, <4>3
          <5> QED BY <2>1, <3>1, <5>1, WholeAnswered
        <4> QED BY <4>2, <4>3
      <3> QED BY <3>2, <3>3
    <2> QED BY <2>2, <2>3
  <1>4. ASSUME NEW r \in Requests, NEW i \in DOMAIN item[r], ItemEnds(r, i)
        PROVE  WholeInv(q)'
    <2>1. UNCHANGED <<recorded, answer>>
      BY <1>4 DEF ItemEnds, log
    <2>2. PICK result \in States : item' = [item EXCEPT ![r][i] = result]
      BY <1>4 DEF ItemEnds, States
    <2>3. item[r] \in Seq(States) /\ i \in 1 .. Len(item[r])
      BY <1>0, LenProperties
    <2>4. /\ [item[r] EXCEPT ![i] = result] \in Seq(States)
          /\ Len([item[r] EXCEPT ![i] = result]) = Len(item[r])
      BY <2>2, <2>3, ExceptSeq
    <2>5. item'[q] = IF q = r THEN [item[r] EXCEPT ![i] = result] ELSE item[q]
      BY <1>0, <2>2
    <2>6. item'[q] \in Seq(States) /\ Len(item'[q]) = Len(item[q])
      BY <1>0, <2>4, <2>5
    <2>7. item[q] = <<>> <=> item'[q] = <<>>
      BY <1>0, <2>6, EmptySeq
    <2> QED BY <2>1, <2>6, <2>7, MineKept, WholeUndisturbed
  <1>5. ASSUME NEW r \in Requests, Respond(r)
        PROVE  WholeInv(q)'
    <2>1. UNCHANGED item /\ stage[r] = "working" /\ answer' = [answer EXCEPT ![r] = "ok"]
      BY <1>5 DEF Respond, Reply
    <2>2. CASE q # r
      <3>1. Mine(q)' = Mine(q) /\ \A n \in Mine(q) : recorded'[n] = recorded[n]
        BY <1>5, <2>2, MineAfterRespond DEF Mine
      <3>2. answer'[q] = answer[q] /\ item'[q] = item[q]
        BY <1>0, <2>1, <2>2
      <3> QED BY <3>1, <3>2, WholeUndisturbed
    <2>3. CASE q = r
      <3> DEFINE R == Len(recorded)
                 k == Len(item[r])
      <3>1. answer[r] = "none" /\ Mine(r) = {}
        BY <2>1, <2>3 DEF ItemsInv, WholeInv
      <3>2. /\ Mine(r)' = R + 1 .. R + k
            /\ \A n \in R + 1 .. R + k : recorded'[n] = <<r, n - R>>
        BY <1>5, <3>1, MineAfterRespond
      <3>3. R \in Nat /\ k \in Nat /\ item'[r] = item[r] /\ answer'[r] = "ok"
        BY <1>0, <1>5, <2>1, WrittenType, MineAfterRespond
      <3>4. k = 0 <=> item[r] = <<>>
        BY <1>0, EmptySeq
      <3> HIDE DEF R, k
      <3>5. CASE k = 0
        <4>1. Mine(r)' = {}
          BY <3>2, <3>3, <3>5
        <4>2. item'[r] = <<>>
          BY <3>3, <3>4, <3>5
        <4> QED BY <2>3, <4>1, <4>2 DEF WholeInv
      <3>6. CASE k # 0
        <4>1. R + 1 \in Mine(r)' /\ Mine(r)' = R + 1 .. (R + 1) + k - 1
          BY <3>2, <3>3, <3>6
        <4>2. \A n \in Mine(r)' : recorded'[n] = <<r, n - (R + 1) + 1>>
          <5>1. \A n \in R + 1 .. R + k : n - R = n - (R + 1) + 1
            BY <3>3
          <5> QED BY <3>2, <5>1
        <4>3. ~(answer'[r] # "ok" \/ item'[r] = <<>>) /\ Len(item'[r]) = k
          BY <3>3, <3>4, <3>6 DEF k
        <4>4. \E first \in Mine(r)' :
                 /\ Mine(r)' = first .. first + Len(item'[r]) - 1
                 /\ \A n \in Mine(r)' : recorded'[n] = <<r, n - first + 1>>
          BY <4>1, <4>2, <4>3
        <4> QED BY <2>3, <4>3, <4>4 DEF WholeInv
      <3> QED BY <3>5, <3>6
    <2> QED BY <2>2, <2>3
  <1> QED BY <1>1, <1>2, <1>3, <1>4, <1>5 DEF Next, Proceed

\* A batch of any size is recorded whole, in order and uninterrupted, if it is answered,
\* and not at all if one of its calls raised, whatever the others return later.
THEOREM BatchesStayWhole == Spec => []BatchIsWhole
  <1> DEFINE Items == \A r \in Requests : ItemsInv(r)
             Whole == \A r \in Requests : WholeInv(r)
  <1>1. Init => Items /\ Whole
    <2> SUFFICES ASSUME Init, NEW r \in Requests PROVE ItemsInv(r) /\ WholeInv(r)
      OBVIOUS
    <2>1. item[r] = <<>> /\ answer[r] = "none" /\ recorded = <<>>
      BY DEF Init
    <2>2. Mine(r) = {}
      BY <2>1 DEF Mine
    <2> QED BY <2>1, <2>2 DEF ItemsInv, WholeInv
  <1>2. TypeOK /\ Items /\ Whole /\ [Next]_vars => Items' /\ Whole'
    <2> SUFFICES ASSUME TypeOK, Items, Whole, [Next]_vars PROVE Items' /\ Whole'
      OBVIOUS
    <2> QED BY ItemsNext, WholeNext
  <1>3. Whole => BatchIsWhole
    BY DEF WholeInv, Mine, BatchIsWhole
  <1> HIDE DEF Items, Whole
  <1> QED BY <1>1, <1>2, <1>3, AdmissionTypes, PTL DEF Spec
-------------------------------------------------------------------------------
(* The rate limit.                                                         *)

\* The window, once its expired entries are gone, is what passed in the last minute.
LEMMA RecentIsMinute ==
  ASSUME TypeOK, NEW c \in Clients, WindowInv(c)
  PROVE  \E k \in 0 .. Len(passed[c]) :
            /\ Len(Recent(c)) = Len(passed[c]) - k
            /\ \A i \in 1 .. Len(Recent(c)) : Recent(c)[i] = passed[c][k + i]
            /\ \A i \in 1 .. k : passed[c][i] + Window < now
            /\ Minute(c) = k + 1 .. Len(passed[c])
  <1> DEFINE w == window[c]
             p == passed[c]
             W == Len(w)
             P == Len(p)
             rest == Recent(c)
  <1>1. w \in Seq(Nat) /\ p \in Seq(Nat) /\ now \in Nat /\ Window \in Nat
    BY AdmissionAssumption DEF TypeOK
  <1>2. /\ W \in Nat /\ P \in Nat /\ DOMAIN p = 1 .. P
        /\ \A i \in 1 .. P : p[i] \in Nat
    BY <1>1, LenProperties, ElementOfSeq
  <1>3. \A i, j \in 1 .. P : i <= j => p[i] <= p[j]
    BY DEF WindowInv
  <1>4. PICK k \in 0 .. P : /\ W = P - k
                            /\ \A i \in 1 .. W : w[i] = p[k + i]
                            /\ \A i \in 1 .. k : p[i] + Window < now
    BY DEF WindowInv
  <1>5. PICK m \in 0 .. W : /\ Len(rest) = W - m
                            /\ \A i \in 1 .. Len(rest) : rest[i] = w[m + i]
                            /\ \A i \in 1 .. m : w[i] + Window < now
                            /\ m < W => w[m + 1] + Window >= now
    BY RecentSuffix
  <1>6. Minute(c) = {i \in 1 .. P : p[i] + Window >= now}
    BY <1>2 DEF Minute
  <1> HIDE DEF w, p, W, P, rest
  <1>7. k + m \in 0 .. P /\ Len(rest) = P - (k + m)
    BY <1>2, <1>4, <1>5
  <1>8. ASSUME NEW i \in 1 .. Len(rest) PROVE rest[i] = p[k + m + i]
    <2>1. m + i \in 1 .. W /\ k + (m + i) = k + m + i
      BY <1>2, <1>4, <1>5
    <2> QED BY <1>4, <1>5, <2>1
  <1>9. ASSUME NEW i \in 1 .. k + m PROVE p[i] + Window < now
    <2>1. CASE i <= k
      BY <1>4, <2>1
    <2>2. CASE ~(i <= k)
      <3>1. i - k \in 1 .. m /\ i - k \in 1 .. W /\ k + (i - k) = i
        BY <1>2, <1>4, <1>5, <2>2
      <3> QED BY <1>4, <1>5, <3>1
    <2> QED BY <2>1, <2>2
  <1>10. ASSUME NEW i \in k + m + 1 .. P PROVE p[i] + Window >= now
    <2>1. m < W /\ m + 1 \in 1 .. W /\ k + (m + 1) = k + m + 1 /\ k + m + 1 \in 1 .. P
          /\ i \in 1 .. P /\ k + m + 1 <= i
      BY <1>2, <1>4, <1>5
    <2>2. p[k + m + 1] + Window >= now
      BY <1>4, <1>5, <2>1
    <2>3. p[k + m + 1] <= p[i] /\ p[k + m + 1] \in Nat /\ p[i] \in Nat
      BY <1>2, <1>3, <2>1
    <2> QED BY <1>1, <2>2, <2>3
  <1>11. Minute(c) = k + m + 1 .. P
    <2>1. \A i \in 1 .. P : i \in 1 .. k + m \/ i \in k + m + 1 .. P
      BY <1>2, <1>7
    <2>2. \A i \in k + m + 1 .. P : i \in 1 .. P
      BY <1>2, <1>7
    <2>3. \A i \in 1 .. k + m : ~(p[i] + Window >= now) /\ p[i] \in Nat
      <3>1. \A i \in 1 .. k + m : i \in 1 .. P
        BY <1>2, <1>7
      <3>2. \A i \in 1 .. k + m : p[i] + Window < now /\ p[i] \in Nat
        BY <1>2, <1>9, <3>1, Zenon
      <3>3. \A x \in Nat : x + Window < now => ~(x + Window >= now)
        BY <1>1
      <3> QED BY <3>2, <3>3, Zenon
    <2> QED BY <1>6, <1>10, <2>1, <2>2, <2>3
  <1>12. \E n \in 0 .. P : /\ Len(rest) = P - n
                           /\ \A i \in 1 .. Len(rest) : rest[i] = p[n + i]
                           /\ \A i \in 1 .. n : p[i] + Window < now
                           /\ Minute(c) = n + 1 .. P
    <2> DEFINE n == k + m
    <2>1. /\ Len(rest) = P - n
          /\ \A i \in 1 .. Len(rest) : rest[i] = p[n + i]
          /\ \A i \in 1 .. n : p[i] + Window < now
          /\ Minute(c) = n + 1 .. P
      BY <1>7, <1>8, <1>9, <1>11
    <2>2. n \in 0 .. P
      BY <1>7
    <2> HIDE DEF n
    <2> QED BY <2>1, <2>2, Zenon
  <1> QED BY <1>12, Zenon DEF rest, p, P

\* The limiter counts what passed in the last minute.
LEMMA RecentCounts ==
  ASSUME TypeOK, NEW c \in Clients, WindowInv(c)
  PROVE  Len(Recent(c)) = Cardinality(Minute(c))
  <1> DEFINE P == Len(passed[c])
  <1>1. PICK k \in 0 .. P : /\ Len(Recent(c)) = P - k
                            /\ Minute(c) = k + 1 .. P
    BY RecentIsMinute
  <1>2. P \in Nat
    BY LenProperties DEF TypeOK
  <1> HIDE DEF P
  <1>3. k + 1 \in Int /\ P \in Int
    BY <1>2
  <1>4. Cardinality(k + 1 .. P) = IF k + 1 > P THEN 0 ELSE P - (k + 1) + 1
    BY <1>3, FS_Interval
  <1> QED BY <1>1, <1>2, <1>4

LEMMA WindowNext ==
  ASSUME TypeOK, NEW c \in Clients, WindowInv(c), [Next]_vars
  PROVE  WindowInv(c)'
  <1>1. CASE UNCHANGED limiter
    BY <1>1 DEF limiter, WindowInv
  <1>2. CASE Tick
    <2>1. now' = now + 1 /\ UNCHANGED <<window, passed>> /\ now \in Nat
      BY <1>2 DEF Tick, TypeOK
    <2>2. passed[c] \in Seq(Nat) /\ Window \in Nat
      BY AdmissionAssumption DEF TypeOK
    <2>3. /\ Len(passed[c]) \in Nat
          /\ \A i \in 1 .. Len(passed[c]) : passed[c][i] \in Nat
      BY <2>2, LenProperties, ElementOfSeq
    <2>4. \A i \in 1 .. Len(passed[c]) : passed[c][i] <= now + 1
      BY <2>1, <2>3 DEF WindowInv
    <2>5. \A k \in 0 .. Len(passed[c]) : \A i \in 1 .. k :
             passed[c][i] + Window < now => passed[c][i] + Window < now + 1
      BY <2>1, <2>2, <2>3
    <2> QED BY <2>1, <2>4, <2>5 DEF WindowInv
  <1>3. ASSUME NEW r \in Requests, RateLimit(r)
        PROVE  WindowInv(c)'
    <2>0. client[r] \in Clients /\ window \in [Clients -> Seq(Nat)]
          /\ passed \in [Clients -> Seq(Nat)] /\ now \in Nat /\ now' = now
      BY <1>3 DEF TypeOK, RateLimit
    <2>1. CASE c # client[r]
      <3>1. window'[c] = window[c] /\ passed'[c] = passed[c]
        <4>1. \/ window' = [window EXCEPT ![client[r]] = Recent(client[r])] /\ passed' = passed
              \/ /\ window' = [window EXCEPT ![client[r]] = Append(Recent(client[r]), now)]
                 /\ passed' = [passed EXCEPT ![client[r]] = Append(passed[client[r]], now)]
          BY <1>3, Zenon DEF RateLimit
        <4> QED BY <2>0, <2>1, <4>1
      <3> QED BY <2>0, <3>1 DEF WindowInv
    <2>2. CASE c = client[r]
      <3> DEFINE p == passed[c]
                 P == Len(p)
                 rest == Recent(c)
      <3>1. p \in Seq(Nat) /\ rest \in Seq(Nat)
        BY <2>0, RecentSuffix
      <3>2. P \in Nat /\ \A i \in 1 .. P : p[i] \in Nat
        BY <3>1, LenProperties, ElementOfSeq
      <3>3. PICK k \in 0 .. P : /\ Len(rest) = P - k
                                /\ \A i \in 1 .. Len(rest) : rest[i] = p[k + i]
                                /\ \A i \in 1 .. k : p[i] + Window < now
        BY RecentIsMinute
      <3>4. /\ \A i, j \in 1 .. P : i <= j => p[i] <= p[j]
            /\ \A i \in 1 .. P : p[i] <= now
        BY DEF WindowInv
      <3>5. \/ window'[c] = rest /\ passed'[c] = p
            \/ window'[c] = Append(rest, now) /\ passed'[c] = Append(p, now)
        <4>1. \/ window' = [window EXCEPT ![c] = Recent(c)] /\ passed' = passed
              \/ /\ window' = [window EXCEPT ![c] = Append(Recent(c), now)]
                 /\ passed' = [passed EXCEPT ![c] = Append(passed[c], now)]
          BY <1>3, <2>2, Zenon DEF RateLimit
        <4> QED BY <2>0, <4>1
      <3> HIDE DEF p, P, rest
      <3>6. CASE window'[c] = rest /\ passed'[c] = p
        BY <2>0, <3>3, <3>4, <3>6 DEF WindowInv, P
      <3>7. CASE window'[c] = Append(rest, now) /\ passed'[c] = Append(p, now)
        <4>1. /\ Len(passed'[c]) = P + 1
              /\ \A i \in 1 .. P : passed'[c][i] = p[i]
              /\ passed'[c][P + 1] = now
          BY <2>0, <3>1, <3>2, <3>7 DEF P
        <4>2. /\ Len(window'[c]) = Len(rest) + 1
              /\ \A i \in 1 .. Len(rest) : window'[c][i] = rest[i]
              /\ window'[c][Len(rest) + 1] = now
          <5>1. Len(rest) \in Nat
            BY <3>1, LenProperties
          <5> QED BY <2>0, <3>1, <3>7, <5>1
        <4>3. \A i \in 1 .. P + 1 : i \in 1 .. P \/ i = P + 1
          BY <3>2
        <4>4. \A i \in 1 .. P + 1 : passed'[c][i] <= now
          <5>1. now <= now
            BY <2>0
          <5> QED BY <3>4, <4>1, <4>3, <5>1, Zenon
        <4>5. \A i, j \in 1 .. P + 1 : i <= j => passed'[c][i] <= passed'[c][j]
          <5> SUFFICES ASSUME NEW i \in 1 .. P + 1, NEW j \in 1 .. P + 1, i <= j
                       PROVE  passed'[c][i] <= passed'[c][j]
            OBVIOUS
          <5>1. CASE j = P + 1
            BY <4>1, <4>4, <5>1
          <5>2. CASE j # P + 1
            <6>1. i \in 1 .. P /\ j \in 1 .. P
              BY <3>2, <5>2
            <6> QED BY <3>4, <4>1, <6>1
          <5> QED BY <5>1, <5>2
        <4>6. k \in 0 .. P + 1 /\ Len(window'[c]) = (P + 1) - k
          BY <3>2, <3>3, <4>2
        <4>7. ASSUME NEW i \in 1 .. Len(window'[c])
              PROVE  window'[c][i] = passed'[c][k + i]
          <5>1. CASE i = Len(rest) + 1
            <6>1. k + i = P + 1
              BY <3>2, <3>3, <5>1
            <6> QED BY <4>1, <4>2, <5>1, <6>1
          <5>2. CASE i # Len(rest) + 1
            <6>1. i \in 1 .. Len(rest) /\ k + i \in 1 .. P
              BY <3>2, <3>3, <4>2, <5>2
            <6> QED BY <3>3, <4>1, <4>2, <6>1
          <5> QED BY <5>1, <5>2
        <4>8. \A i \in 1 .. k : passed'[c][i] + Window < now
          <5>1. \A i \in 1 .. k : i \in 1 .. P
            BY <3>2
          <5> QED BY <3>3, <4>1, <5>1
        <4>9. \E n \in 0 .. P + 1 :
                 /\ Len(window'[c]) = (P + 1) - n
                 /\ \A i \in 1 .. Len(window'[c]) : window'[c][i] = passed'[c][n + i]
                 /\ \A i \in 1 .. n : passed'[c][i] + Window < now
          BY <4>6, <4>7, <4>8
        <4> QED BY <2>0, <4>1, <4>4, <4>5, <4>9 DEF WindowInv
      <3> QED BY <3>5, <3>6, <3>7
    <2> QED BY <2>1, <2>2
  <1>4. UNCHANGED limiter \/ Tick \/ \E r \in Requests : RateLimit(r)
    BY DEF Next, Proceed, vars, Arrive, Begin, ItemEnds, Fail, Respond
  <1> QED BY <1>1, <1>2, <1>3, <1>4

\* What decides over a request that waits at the limiter.
LEMMA LimiterDecides ==
  ASSUME TypeOK, NEW r \in Requests, Next,
         \/ stage[r] = "authenticated" /\ stage'[r] = "admitted"
         \/ answer[r] = "none" /\ answer'[r] = "rate_limited"
  PROVE  RateLimit(r)
  <1>0. /\ stage \in [Requests -> {"idle", "authenticated", "admitted", "working", "done"}]
        /\ answer \in [Requests -> {"none", "refused", "rate_limited", "failed", "ok"}]
    BY DEF TypeOK
  <1>1. ~Tick /\ \A q \in Requests : \A i \in DOMAIN item[q] : ~ItemEnds(q, i)
    BY DEF Tick, ItemEnds
  <1>2. ~(UNCHANGED <<stage, answer>>)
    OBVIOUS
  <1>3. PICK q \in Requests : Arrive(q) \/ Proceed(q)
    BY <1>2 DEF Next, Tick, ItemEnds
  <1>4. q = r
    BY <1>0, <1>3 DEF Arrive, Proceed, RateLimit, Begin, Fail, Respond, Go, Reply
  <1>5. ~Arrive(r) /\ ~Begin(r) /\ ~Fail(r) /\ ~Respond(r)
    <2>1. ~Arrive(r)
      BY <1>0 DEF Arrive, Go, Reply
    <2>2. ~Begin(r)
      BY <1>0 DEF Begin, Go, Reply
    <2>3. ~Fail(r) /\ ~Respond(r)
      BY <1>0 DEF Fail, Respond, Go, Reply
    <2> QED BY <2>1, <2>2, <2>3
  <1> QED BY <1>3, <1>4, <1>5 DEF Proceed

\* Whatever the limit and the clock, forgetting expired entries changes no decision: a
\* request passes exactly when fewer than Limit of its client's passed in the last minute.
THEOREM RateStaysExact == Spec => RateIsExact
  <1> DEFINE Windows == \A c \in Clients : WindowInv(c)
             Exact == \A r \in Requests :
                /\ stage[r] = "authenticated" /\ stage'[r] = "admitted"
                      => Cardinality(Minute(client[r])) < Limit
                /\ answer[r] = "none" /\ answer'[r] = "rate_limited"
                      => Cardinality(Minute(client[r])) >= Limit
  <1>1. Init => Windows
    <2> SUFFICES ASSUME Init, NEW c \in Clients PROVE WindowInv(c)
      OBVIOUS
    <2>1. window[c] = <<>> /\ passed[c] = <<>>
      BY DEF Init
    <2>2. /\ \A i, j \in 1 .. 0 : i <= j => passed[c][i] <= passed[c][j]
          /\ \A i \in 1 .. 0 : passed[c][i] <= now
          /\ Len(window[c]) = 0 - 0
          /\ \A i \in 1 .. 0 : window[c][i] = passed[c][0 + i]
          /\ \A i \in 1 .. 0 : passed[c][i] + Window < now
      BY <2>1
    <2> QED BY <2>1, <2>2 DEF WindowInv
  <1>2. TypeOK /\ Windows /\ [Next]_vars => Windows'
    BY WindowNext
  <1>3. ASSUME TypeOK, Windows, Next PROVE Exact
    <2> SUFFICES ASSUME NEW r \in Requests
                 PROVE  /\ stage[r] = "authenticated" /\ stage'[r] = "admitted"
                              => Cardinality(Minute(client[r])) < Limit
                        /\ answer[r] = "none" /\ answer'[r] = "rate_limited"
                              => Cardinality(Minute(client[r])) >= Limit
      OBVIOUS
    <2> DEFINE c == client[r]
               n == Len(Recent(c))
    <2>1. c \in Clients
      BY <1>3 DEF TypeOK
    <2>2. n = Cardinality(Minute(c))
      BY <1>3, <2>1, RecentCounts
    <2>3. n \in Nat /\ Limit \in Nat
      BY <1>3, <2>1, RecentSuffix, LenProperties, AdmissionAssumption
    <2>4. /\ stage \in [Requests -> {"idle", "authenticated", "admitted", "working", "done"}]
          /\ answer \in [Requests -> {"none", "refused", "rate_limited", "failed", "ok"}]
      BY <1>3 DEF TypeOK
    <2>5. ASSUME RateLimit(r)
          PROVE  \/ n >= Limit /\ stage'[r] # "admitted"
                 \/ ~(n >= Limit) /\ answer'[r] = answer[r]
      BY <2>4, <2>5, Zenon DEF RateLimit, Go, Reply
    <2> HIDE DEF n, c
    <2>6. n < Limit <=> ~(n >= Limit)
      BY <2>3
    <2>7. ASSUME stage[r] = "authenticated", stage'[r] = "admitted" PROVE n < Limit
      BY <1>3, <2>5, <2>6, <2>7, LimiterDecides
    <2>8. ASSUME answer[r] = "none", answer'[r] = "rate_limited" PROVE n >= Limit
      BY <1>3, <2>5, <2>8, LimiterDecides
    <2> QED BY <2>2, <2>7, <2>8 DEF c
  <1>4. TypeOK /\ Windows /\ [Next]_vars => [Exact]_vars
    BY <1>3
  <1> HIDE DEF Windows, Exact
  <1>5. Spec => [][Exact]_vars
    BY <1>1, <1>2, <1>4, AdmissionTypes, PTL DEF Spec
  <1> QED BY <1>5 DEF RateIsExact, Exact
===============================================================================
