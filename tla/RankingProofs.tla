----------------------------- MODULE RankingProofs -----------------------------
(***************************************************************************)
(* For any limits, texts, scores and rankings: a request is scored within  *)
(* its limits, each document is ranked by its own score, the answer is the *)
(* best documents, best first, and ranking_parity measures their order.    *)
(*                                                                         *)
(* Sums, the scatter of a ranking and the sort are functions defined by    *)
(* recursion on the number of steps.  That such a function exists, and     *)
(* what its steps keep, follows by induction up to that number, and the    *)
(* induction from the least number for which a claim would fail.           *)
(*                                                                         *)
(* Two rankings of the same documents make a permutation q of their        *)
(* places.  With q moving i by i - q[i], the squares of i - q[i] and of    *)
(* i + q[i] - (n + 1) add up to half of what the squares of 2i - (n + 1)   *)
(* and of 2q[i] - (n + 1) do, and a sum is the same in any order: so the   *)
(* squared differences are bounded by n(n * n - 1) / 3, reached only by    *)
(* the reverse.  The pairs q keeps in order are all of them only for a q   *)
(* that rises, which is the identity, and none only for the reverse.       *)
(***************************************************************************)
EXTENDS Ranking, FiniteSetTheorems, SequenceTheorems, TLAPS

(* Numbers, and functions defined by recursion on them.                    *)

\* A set of natural numbers that is not empty has a least one.
LEMMA LeastNatural ==
  ASSUME NEW T \in SUBSET Nat, T # {}
  PROVE  \E n \in T : \A m \in T : n <= m
  <1> DEFINE Less == {p \in Nat \X Nat : p[1] < p[2]}
  <1>1. IsWellFoundedOn(Less, Nat)
    BY NatLessThanWellFounded DEF OpToRel
  <1> HIDE DEF Less
  <1>2. PICK n \in T : \A m \in T : <<m, n>> \notin Less
    BY <1>1, WFMin, Zenon
  <1>3. ASSUME NEW m \in T PROVE n <= m
    <2>1. ~(m < n)
      BY <1>2 DEF Less
    <2> QED
      BY <2>1
  <1> QED
    BY <1>3

\* Induction up to a number, for the numbers of which something holds.
LEMMA InductionTo ==
  ASSUME NEW m \in Nat, NEW T, 0 \in T, \A k \in 0 .. m - 1 : k \in T => k + 1 \in T
  PROVE  \A k \in 0 .. m : k \in T
  <1> DEFINE Rest == {k \in 0 .. m : k \notin T}
  <1> SUFFICES ASSUME Rest # {} PROVE FALSE
    OBVIOUS
  <1>1. PICK n \in Rest : \A k \in Rest : n <= k
    <2>1. Rest \in SUBSET Nat
      OBVIOUS
    <2> HIDE DEF Rest
    <2> QED
      BY <2>1, LeastNatural
  <1>2. n # 0 /\ n \in 0 .. m
    BY <1>1
  <1>3. n - 1 \in 0 .. m - 1 /\ n - 1 \notin Rest
    BY <1>1, <1>2
  <1>4. n - 1 \in T
    BY <1>3
  <1>5. (n - 1) + 1 \in T
    BY <1>3, <1>4
  <1> QED
    BY <1>1, <1>2, <1>5

\* f is computed from base by the steps up to m, and its values are of S.
Follows(f, m, S, base, step) ==
    /\ f \in [0 .. m -> S] /\ f[0] = base
    /\ \A k \in 1 .. m : f[k] = step[k][f[k - 1]]

\* What is computed step by step exists, and has a type that the steps keep.
LEMMA Recursion ==
  ASSUME NEW m \in Nat, NEW S, NEW base \in S, NEW step \in [1 .. m -> [S -> S]]
  PROVE  \E f : Follows(f, m, S, base, step)
  <1> DEFINE Steps(n, f) == Follows(f, n, S, base, step)
             T == {n \in 0 .. m : \E f : Steps(n, f)}
  <1>1. 0 \in T
    <2>1. Steps(0, [k \in 0 .. 0 |-> base])
      BY DEF Follows
    <2>2. \E f : Steps(0, f)
      BY <2>1
    <2> HIDE DEF Steps
    <2> QED
      BY <2>2
  <1>2. ASSUME NEW n \in 0 .. m - 1, n \in T PROVE n + 1 \in T
    <2> USE DEF Follows
    <2>1. PICK f : Steps(n, f)
      BY <1>2
    <2> DEFINE g == [k \in 0 .. n + 1 |-> IF k = n + 1 THEN step[n + 1][f[n]] ELSE f[k]]
    <2>2. f[n] \in S /\ n + 1 \in 1 .. m
      BY <2>1
    <2>3. step[n + 1][f[n]] \in S
      BY <2>2
    <2>4. g \in [0 .. n + 1 -> S] /\ g[0] = base
      BY <2>1, <2>3
    <2>5. ASSUME NEW k \in 1 .. n + 1 PROVE g[k] = step[k][g[k - 1]]
      <3>1. CASE k = n + 1
        <4>1. g[n] = f[n] /\ k - 1 = n /\ g[k] = step[n + 1][f[n]]
          BY <3>1
        <4> QED
          BY <4>1, <3>1
      <3>2. CASE k # n + 1
        <4>1. k \in 1 .. n /\ k - 1 \in 0 .. n /\ k - 1 # n + 1
          BY <3>2
        <4>2. g[k] = f[k] /\ g[k - 1] = f[k - 1]
          BY <4>1, <3>2
        <4> QED
          BY <4>1, <4>2, <2>1
      <3> QED
        BY <3>1, <3>2
    <2> HIDE DEF g
    <2>6. Steps(n + 1, g)
      BY <2>4, <2>5
    <2> HIDE DEF Follows
    <2> QED
      BY <2>6
  <1> HIDE DEF T
  <1>3. \A k \in 0 .. m : k \in T
    BY <1>1, <1>2, InductionTo
  <1>4. m \in T
    BY <1>3
  <1> QED
    BY <1>4 DEF T

\* How many a set has that is counted from 1 to k.
LEMMA Counted ==
  ASSUME NEW S, NEW k \in Nat, NEW f \in Bijection(1 .. k, S)
  PROVE  IsFiniteSet(S) /\ Cardinality(S) = k
  <1>1. IsFiniteSet(1 .. k) /\ Cardinality(1 .. k) = k
    BY FS_Interval
  <1>2. ExistsBijection(1 .. k, S)
    BY DEF ExistsBijection
  <1> QED
    BY <1>1, <1>2, FS_Bijection
-------------------------------------------------------------------------------
(* Sums.                                                                   *)

\* s adds f up, one number after another.
AddsUp(s, f, n) ==
    s \in [0 .. n -> Int] /\ s[0] = 0 /\ \A k \in 1 .. n : s[k] = s[k - 1] + f[k]

\* There is one way to add up.
LEMMA AddsUpOnce ==
  ASSUME NEW n \in Nat, NEW f \in [1 .. n -> Int],
         NEW s, NEW r, AddsUp(s, f, n), AddsUp(r, f, n)
  PROVE  s = r
  <1> DEFINE T == {k \in 0 .. n : s[k] = r[k]}
  <1>1. 0 \in T
    BY DEF AddsUp
  <1>2. ASSUME NEW k \in 0 .. n - 1, k \in T PROVE k + 1 \in T
    <2>1. k + 1 \in 1 .. n /\ (k + 1) - 1 = k
      OBVIOUS
    <2>2. s[k + 1] = s[k] + f[k + 1] /\ r[k + 1] = r[k] + f[k + 1]
      BY <2>1 DEF AddsUp
    <2> QED
      BY <1>2, <2>1, <2>2
  <1> HIDE DEF T
  <1>3. \A k \in 0 .. n : k \in T
    BY <1>1, <1>2, InductionTo
  <1>4. \A k \in 0 .. n : s[k] = r[k]
    BY <1>3 DEF T
  <1> QED
    BY <1>4 DEF AddsUp

\* SumOf adds up.
LEMMA SumAddsUp ==
  ASSUME NEW n \in Nat, NEW f \in [1 .. n -> Int]
  PROVE  \E s : AddsUp(s, f, n) /\ SumOf(f) = s[n]
  <1> DEFINE sum == CHOOSE g : g = [k \in 0 .. n |-> IF k = 0 THEN 0 ELSE g[k - 1] + f[k]]
             step == [k \in 1 .. n |-> [a \in Int |-> a + f[k]]]
  <1>1. step \in [1 .. n -> [Int -> Int]]
    OBVIOUS
  <1>2. PICK s : Follows(s, n, Int, 0, step)
    <2>1. 0 \in Int
      OBVIOUS
    <2> HIDE DEF step
    <2> QED
      BY <1>1, <2>1, Recursion
  <1>3. AddsUp(s, f, n)
    <2> SUFFICES ASSUME NEW k \in 1 .. n PROVE s[k] = s[k - 1] + f[k]
      BY <1>2 DEF Follows, AddsUp
    <2>1. s[k - 1] \in Int /\ s[k] = step[k][s[k - 1]]
      <3> HIDE DEF step
      <3> QED
        BY <1>2 DEF Follows
    <2> QED
      BY <2>1
  <1>4. s = [k \in 0 .. n |-> IF k = 0 THEN 0 ELSE s[k - 1] + f[k]]
    <2>1. \A k \in 0 .. n : s[k] = IF k = 0 THEN 0 ELSE s[k - 1] + f[k]
      BY <1>3 DEF AddsUp
    <2> QED
      BY <1>3, <2>1 DEF AddsUp
  <1>5. sum = [k \in 0 .. n |-> IF k = 0 THEN 0 ELSE sum[k - 1] + f[k]]
    BY <1>4
  <1>6. SumOf(f) = sum[n]
    <2>1. Len(f) = n
      OBVIOUS
    <2> QED
      BY <2>1 DEF SumOf
  <1> HIDE DEF sum
  <1> DEFINE T == {k \in 0 .. n : sum[k] = s[k]}
  <1>7. 0 \in T
    BY <1>3, <1>5 DEF AddsUp
  <1>8. ASSUME NEW k \in 0 .. n - 1, k \in T PROVE k + 1 \in T
    <2>1. k + 1 \in 1 .. n /\ (k + 1) - 1 = k
      OBVIOUS
    <2>2. sum[k + 1] = sum[k] + f[k + 1] /\ s[k + 1] = s[k] + f[k + 1]
      BY <1>3, <1>5, <2>1 DEF AddsUp
    <2> QED
      BY <1>8, <2>1, <2>2
  <1> HIDE DEF T
  <1>9. \A k \in 0 .. n : k \in T
    BY <1>7, <1>8, InductionTo
  <1>10. n \in T
    BY <1>9
  <1> QED
    BY <1>3, <1>6, <1>10 DEF T

\* A sum is a number.
LEMMA SumType ==
  ASSUME NEW n \in Nat, NEW f \in [1 .. n -> Int]
  PROVE  SumOf(f) \in Int
  BY SumAddsUp DEF AddsUp

\* A list without what comes after n.
UpToPlace(f, n) == [i \in 1 .. n |-> f[i]]

\* The sum of nothing is 0, and one number more adds itself.
LEMMA SumOfNothing ==
  ASSUME NEW f \in [1 .. 0 -> Int]
  PROVE  SumOf(f) = 0
  <1>1. PICK s : AddsUp(s, f, 0) /\ SumOf(f) = s[0]
    BY SumAddsUp
  <1> QED
    BY <1>1 DEF AddsUp

LEMMA SumOfMore ==
  ASSUME NEW n \in Nat, NEW f \in [1 .. n + 1 -> Int]
  PROVE  /\ UpToPlace(f, n) \in [1 .. n -> Int]
         /\ SumOf(UpToPlace(f, n)) \in Int
         /\ SumOf(f) = SumOf(UpToPlace(f, n)) + f[n + 1]
  <1> DEFINE e == UpToPlace(f, n)
  <1>1. e \in [1 .. n -> Int] /\ \A k \in 1 .. n : e[k] = f[k]
    BY DEF UpToPlace
  <1> HIDE DEF e
  <1>2. PICK s : AddsUp(s, f, n + 1) /\ SumOf(f) = s[n + 1]
    <2>1. n + 1 \in Nat
      OBVIOUS
    <2> QED
      BY <2>1, SumAddsUp
  <1>3. PICK r : AddsUp(r, e, n) /\ SumOf(e) = r[n]
    BY <1>1, SumAddsUp
  <1> DEFINE q == [k \in 0 .. n |-> s[k]]
  <1>4. AddsUp(q, e, n)
    <2>1. \A k \in 0 .. n : k \in 0 .. n + 1 /\ q[k] = s[k]
      OBVIOUS
    <2>2. q \in [0 .. n -> Int] /\ q[0] = 0
      BY <1>2, <2>1 DEF AddsUp
    <2>3. ASSUME NEW k \in 1 .. n PROVE q[k] = q[k - 1] + e[k]
      <3>1. k \in 1 .. n + 1 /\ k - 1 \in 0 .. n /\ k \in 0 .. n
        OBVIOUS
      <3>2. s[k] = s[k - 1] + f[k]
        BY <1>2, <3>1 DEF AddsUp
      <3> QED
        BY <1>1, <2>1, <3>1, <3>2
    <2> HIDE DEF q
    <2> QED
      BY <2>2, <2>3 DEF AddsUp
  <1>5. q = r
    <2> HIDE DEF q
    <2> QED
      BY <1>1, <1>3, <1>4, AddsUpOnce
  <1>6. r[n] = s[n] /\ r[n] \in Int
    BY <1>3, <1>5 DEF AddsUp
  <1>7. s[n + 1] = s[n] + f[n + 1]
    <2>1. n + 1 \in 1 .. n + 1 /\ (n + 1) - 1 = n
      OBVIOUS
    <2> QED
      BY <1>2, <2>1 DEF AddsUp
  <1> QED
    BY <1>1, <1>2, <1>3, <1>6, <1>7 DEF e

\* The next number is added.
LEMMA NextSum ==
  ASSUME NEW n \in Nat, NEW f \in [1 .. n -> Int], NEW s, AddsUp(s, f, n), NEW k \in 0 .. n - 1
  PROVE  /\ s[k] \in Int /\ f[k + 1] \in Int /\ k + 1 \in 1 .. n
         /\ s[k + 1] = s[k] + f[k + 1]
  <1>1. k + 1 \in 1 .. n /\ (k + 1) - 1 = k
    OBVIOUS
  <1> QED
    BY <1>1 DEF AddsUp

\* No number that is not negative exceeds a sum of such numbers.
LEMMA SumCovers ==
  ASSUME NEW n \in Nat, NEW f \in [1 .. n -> Int], \A i \in 1 .. n : f[i] >= 0
  PROVE  SumOf(f) >= 0 /\ \A i \in 1 .. n : f[i] <= SumOf(f)
  <1>1. PICK s : AddsUp(s, f, n) /\ SumOf(f) = s[n]
    BY SumAddsUp
  <1> DEFINE T == {k \in 0 .. n : s[k] >= 0 /\ \A i \in 1 .. k : f[i] <= s[k]}
  <1>2. 0 \in T
    BY <1>1 DEF AddsUp
  <1>3. ASSUME NEW k \in 0 .. n - 1, k \in T PROVE k + 1 \in T
    <2>1. k + 1 \in 1 .. n /\ (k + 1) - 1 = k /\ \A i \in 1 .. k + 1 : i \in 1 .. k \/ i = k + 1
      OBVIOUS
    <2>2. s[k + 1] = s[k] + f[k + 1] /\ s[k] \in Int
      BY <1>1, <2>1 DEF AddsUp
    <2>3. f[k + 1] \in Int /\ f[k + 1] >= 0
      BY <2>1
    <2>4. ASSUME NEW i \in 1 .. k + 1 PROVE f[i] <= s[k + 1]
      <3>1. i \in 1 .. n
        OBVIOUS
      <3>2. i \in 1 .. k => f[i] <= s[k]
        BY <1>3
      <3>3. f[i] \in Int
        BY <3>1
      <3>4. CASE i = k + 1
        <4>1. s[k] >= 0
          BY <1>3
        <4> QED
          BY <2>2, <2>3, <3>4, <4>1
      <3>5. CASE i # k + 1
        <4>1. f[i] <= s[k]
          BY <2>1, <3>2, <3>5
        <4> QED
          BY <2>2, <2>3, <3>3, <4>1
      <3> QED
        BY <3>4, <3>5
    <2>5. s[k] >= 0
      BY <1>3
    <2>6. s[k + 1] >= 0
      BY <2>2, <2>3, <2>5
    <2> QED
      BY <2>1, <2>4, <2>6
  <1> HIDE DEF T
  <1>4. \A k \in 0 .. n : k \in T
    BY <1>2, <1>3, InductionTo
  <1>5. n \in T
    BY <1>4
  <1> QED
    BY <1>1, <1>5 DEF T

\* A sum of sums.
LEMMA SumOfSums ==
  ASSUME NEW n \in Nat, NEW f \in [1 .. n -> Int], NEW g \in [1 .. n -> Int],
         NEW h \in [1 .. n -> Int], \A i \in 1 .. n : h[i] = f[i] + g[i]
  PROVE  SumOf(h) = SumOf(f) + SumOf(g)
  <1>1. PICK s : AddsUp(s, f, n) /\ SumOf(f) = s[n]
    BY SumAddsUp
  <1>2. PICK r : AddsUp(r, g, n) /\ SumOf(g) = r[n]
    BY SumAddsUp
  <1>3. PICK q : AddsUp(q, h, n) /\ SumOf(h) = q[n]
    BY SumAddsUp
  <1> DEFINE T == {k \in 0 .. n : q[k] = s[k] + r[k]}
  <1>4. 0 \in T
    BY <1>1, <1>2, <1>3 DEF AddsUp
  <1>5. ASSUME NEW k \in 0 .. n - 1, k \in T PROVE k + 1 \in T
    <2>1. k + 1 \in 1 .. n /\ (k + 1) - 1 = k
      OBVIOUS
    <2>2. /\ s[k + 1] = s[k] + f[k + 1] /\ r[k + 1] = r[k] + g[k + 1]
          /\ q[k + 1] = q[k] + h[k + 1] /\ s[k] \in Int /\ r[k] \in Int
      BY <1>1, <1>2, <1>3, NextSum
    <2>3. f[k + 1] \in Int /\ g[k + 1] \in Int /\ h[k + 1] = f[k + 1] + g[k + 1]
      BY <2>1
    <2> QED
      BY <1>5, <2>1, <2>2, <2>3
  <1> HIDE DEF T
  <1>6. \A k \in 0 .. n : k \in T
    BY <1>4, <1>5, InductionTo
  <1>7. n \in T
    BY <1>6
  <1> QED
    BY <1>1, <1>2, <1>3, <1>7 DEF T

\* Where one number changes, the sum changes by as much.
LEMMA SumOfChanged ==
  ASSUME NEW n \in Nat, NEW f \in [1 .. n -> Int], NEW g \in [1 .. n -> Int],
         NEW j \in 1 .. n, \A i \in 1 .. n : i # j => f[i] = g[i]
  PROVE  SumOf(f) = SumOf(g) + f[j] - g[j]
  <1>1. PICK s : AddsUp(s, f, n) /\ SumOf(f) = s[n]
    BY SumAddsUp
  <1>2. PICK r : AddsUp(r, g, n) /\ SumOf(g) = r[n]
    BY SumAddsUp
  <1> DEFINE T == {k \in 0 .. n : s[k] = IF k < j THEN r[k] ELSE r[k] + f[j] - g[j]}
  <1>3. 0 \in T
    BY <1>1, <1>2 DEF AddsUp
  <1>4. ASSUME NEW k \in 0 .. n - 1, k \in T PROVE k + 1 \in T
    <2>1. k + 1 \in 1 .. n /\ (k + 1) - 1 = k
      OBVIOUS
    <2>2. /\ s[k + 1] = s[k] + f[k + 1] /\ r[k + 1] = r[k] + g[k + 1]
          /\ s[k] \in Int /\ r[k] \in Int
      BY <1>1, <1>2, NextSum
    <2>3. /\ f[k + 1] \in Int /\ g[k + 1] \in Int /\ f[j] \in Int /\ g[j] \in Int
          /\ k + 1 # j => f[k + 1] = g[k + 1]
      BY <2>1
    <2>4. s[k] = IF k < j THEN r[k] ELSE r[k] + f[j] - g[j]
      BY <1>4
    <2>5. s[k + 1] = IF k + 1 < j THEN r[k + 1] ELSE r[k + 1] + f[j] - g[j]
      <3>1. CASE k + 1 = j
        <4>1. s[k] = r[k] /\ k < j /\ ~(k + 1 < j)
          BY <2>4, <3>1
        <4>2. s[k + 1] = r[k] + f[j] /\ r[k + 1] = r[k] + g[j]
          BY <2>2, <3>1, <4>1
        <4>3. s[k + 1] = r[k + 1] + f[j] - g[j]
          BY <2>2, <2>3, <4>2
        <4> QED
          BY <4>1, <4>3
      <3>2. CASE k + 1 # j
        BY <2>2, <2>3, <2>4, <3>2
      <3> QED
        BY <3>1, <3>2
    <2> QED
      BY <2>1, <2>5
  <1> HIDE DEF T
  <1>5. \A k \in 0 .. n : k \in T
    BY <1>3, <1>4, InductionTo
  <1>6. n \in T
    BY <1>5
  <1> QED
    BY <1>1, <1>2, <1>6 DEF T

\* The total is a number.
LEMMA TotalType ==
  ASSUME NEW query \in Nat, NEW n \in Nat, NEW texts \in [1 .. n -> Nat]
  PROVE  Total(query, texts) \in Nat
  <1>1. texts \in [1 .. n -> Int] /\ \A i \in 1 .. n : texts[i] >= 0
    OBVIOUS
  <1>2. SumOf(texts) \in Int /\ SumOf(texts) >= 0
    BY <1>1, SumType, SumCovers
  <1> QED
    BY <1>2 DEF Total
-------------------------------------------------------------------------------
(* The scatter of a listwise ranking.                                      *)

\* The first k entries name documents that were sent, each once, with a finite score.
Good(ranked, k) ==
    \A j \in 1 .. k : /\ ranked[j].index \in 0 .. Len(request.texts) - 1
                      /\ ranked[j].score # NotFinite
                      /\ \A l \in 1 .. j - 1 : ranked[l].index # ranked[j].index

\* What the listwise backend has made of them: their scores at the documents they name,
\* or nothing if an entry was bad.
Placed(list, ranked, k) ==
    /\ ~Good(ranked, k) => list = <<>>
    /\ Good(ranked, k) =>
          /\ list \in [Sent -> Scores \cup {None}]
          /\ \A j \in 1 .. k : list[ranked[j].index + 1] = ranked[j].score
          /\ \A i \in Sent :
                (\A j \in 1 .. k : ranked[j].index # i - 1) => list[i] = None

Lists == [Sent -> Scores \cup {None}] \cup {<<>>}

\* Placing an entry keeps the list a list.
LEMMA PlaceType ==
  ASSUME NEW n \in Nat \ {0}, request.texts \in [1 .. n -> Nat],
         NEW list \in Lists, NEW entry \in Entries
  PROVE  Place(list, entry) \in Lists
  <1> USE DEF Place, Entries, Lists, Sent, Rejected,
              None, NotFinite
  <1>1. CASE list = <<>>
    BY <1>1
  <1>2. CASE list # <<>>
    <2>1. list \in [1 .. n -> Scores \cup {-1}] /\ Len(list) = n
      BY <1>2
    <2> QED
      BY <2>1
  <1> QED
    BY <1>1, <1>2

\* One more entry is placed, or spoils the list.
LEMMA PlaceStep ==
  ASSUME NEW n \in Nat \ {0}, request.texts \in [1 .. n -> Nat], Scores \subseteq Nat,
         NEW m \in Nat, NEW ranked \in [1 .. m -> Entries],
         NEW k \in 0 .. m - 1, NEW list, Placed(list, ranked, k)
  PROVE  Placed(Place(list, ranked[k + 1]), ranked, k + 1)
  <1> DEFINE entry == ranked[k + 1]
  <1>1. /\ entry \in Entries /\ entry.index \in Int
        /\ entry.score \in Scores \cup {-2}
        /\ Sent = 1 .. n /\ Len(request.texts) = n
    BY DEF Entries, Sent, NotFinite
  <1>2. Good(ranked, k + 1) <=> /\ Good(ranked, k)
                                /\ entry.index \in 0 .. n - 1 /\ entry.score # -2
                                /\ \A l \in 1 .. k : ranked[l].index # entry.index
    <2>1. 1 .. k + 1 = (1 .. k) \cup {k + 1} /\ (k + 1) - 1 = k
      OBVIOUS
    <2> QED
      BY <2>1, <1>1 DEF Good, NotFinite
  <1>3. CASE ~Good(ranked, k)
    BY <1>2, <1>3 DEF Placed, Place, Rejected
  <1>4. CASE Good(ranked, k)
    <2>1. /\ list \in [1 .. n -> Scores \cup {-1}] /\ Len(list) = n /\ list # <<>>
          /\ \A j \in 1 .. k : list[ranked[j].index + 1] = ranked[j].score
          /\ \A i \in 1 .. n : (\A j \in 1 .. k : ranked[j].index # i - 1) => list[i] = -1
      BY <1>1, <1>4 DEF Placed, None
    <2>2. ASSUME NEW j \in 1 .. k
          PROVE  ranked[j].index \in 0 .. n - 1 /\ ranked[j].score \in Scores
      BY <1>1, <1>4 DEF Good, NotFinite, Entries
    <2>3. ASSUME entry.index \in 0 .. n - 1
          PROVE  list[entry.index + 1] # -1 <=> \E l \in 1 .. k : ranked[l].index = entry.index
      <3>1. entry.index + 1 \in 1 .. n /\ (entry.index + 1) - 1 = entry.index
        BY <2>3
      <3>2. ASSUME NEW l \in 1 .. k, ranked[l].index = entry.index
            PROVE  list[entry.index + 1] # -1
        <4>1. list[entry.index + 1] = ranked[l].score
          BY <2>1, <3>2
        <4>2. ranked[l].score \in Nat
          BY <2>2
        <4> QED
          BY <4>1, <4>2
      <3> QED
        BY <2>1, <3>1, <3>2
    <2>4. CASE ~Good(ranked, k + 1)
      <3>1. Place(list, entry) = <<>>
        BY <1>2, <1>4, <2>1, <2>3, <2>4
           DEF Place, Rejected, None, NotFinite
      <3> QED
        BY <3>1, <2>4 DEF Placed
    <2>5. CASE Good(ranked, k + 1)
      <3>1. /\ entry.index \in 0 .. n - 1 /\ entry.score \in Scores
            /\ \A l \in 1 .. k : ranked[l].index # entry.index
        BY <1>1, <1>2, <2>5
      <3>2. Place(list, entry) = [list EXCEPT ![entry.index + 1] = entry.score]
        BY <1>1, <2>1, <2>3, <3>1
           DEF Place, Rejected, None, NotFinite
      <3> DEFINE new == [list EXCEPT ![entry.index + 1] = entry.score]
      <3>3. /\ new \in [1 .. n -> Scores \cup {-1}]
            /\ new[entry.index + 1] = entry.score
            /\ \A i \in 1 .. n : i # entry.index + 1 => new[i] = list[i]
        BY <2>1, <3>1
      <3> HIDE DEF new
      <3>4. ASSUME NEW j \in 1 .. k + 1 PROVE new[ranked[j].index + 1] = ranked[j].score
        <4>1. CASE j = k + 1
          BY <3>3, <4>1
        <4>2. CASE j # k + 1
          <5>1. j \in 1 .. k
            BY <4>2
          <5>2. /\ ranked[j].index \in 0 .. n - 1 /\ ranked[j].index # entry.index
                /\ list[ranked[j].index + 1] = ranked[j].score
            BY <5>1, <2>1, <2>2, <3>1
          <5>3. ranked[j].index + 1 \in 1 .. n /\ ranked[j].index + 1 # entry.index + 1
            <6>1. \A a, b \in 0 .. n - 1 : a # b => a + 1 \in 1 .. n /\ a + 1 # b + 1
              OBVIOUS
            <6> HIDE DEF entry
            <6> QED
              BY <6>1, <5>2, <3>1
          <5>4. new[ranked[j].index + 1] = list[ranked[j].index + 1]
            BY <5>3, <3>3
          <5> QED
            BY <5>2, <5>4
        <4> QED
          BY <4>1, <4>2
      <3>5. ASSUME NEW i \in 1 .. n, \A j \in 1 .. k + 1 : ranked[j].index # i - 1
            PROVE  new[i] = -1
        <4>1. entry.index # i - 1 /\ \A j \in 1 .. k : ranked[j].index # i - 1
          BY <3>5
        <4>2. i # entry.index + 1
          BY <4>1, <3>1
        <4>3. new[i] = list[i] /\ list[i] = -1
          BY <4>1, <4>2, <2>1, <3>3
        <4> QED
          BY <4>3
      <3> QED
        BY <1>1, <2>5, <3>2, <3>3, <3>4, <3>5 DEF Placed, None, new
    <2> QED
      BY <2>4, <2>5
  <1> QED
    BY <1>3, <1>4

\* What Scatter returns.
LEMMA ScatterPlaces ==
  ASSUME NEW n \in Nat \ {0}, request.texts \in [1 .. n -> Nat], Scores \subseteq Nat,
         NEW m \in Nat, NEW ranked \in [1 .. m -> Entries]
  PROVE  Placed(Scatter(ranked), ranked, m)
  <1> DEFINE base == [i \in Sent |-> None]
             placed == CHOOSE g : g = [k \in 0 .. m |-> IF k = 0 THEN base
                                                        ELSE Place(g[k - 1], ranked[k])]
             step == [k \in 1 .. m |-> [list \in Lists |-> Place(list, ranked[k])]]
  <1>1. step \in [1 .. m -> [Lists -> Lists]]
    BY PlaceType
  <1>2. base \in Lists
    BY DEF Lists
  <1>3. PICK f : Follows(f, m, Lists, base, step)
    <2> HIDE DEF step, base
    <2> QED
      BY <1>1, <1>2, Recursion
  <1>4. \A k \in 0 .. m : f[k] = IF k = 0 THEN base ELSE Place(f[k - 1], ranked[k])
    <2> HIDE DEF base
    <2> SUFFICES ASSUME NEW k \in 1 .. m PROVE f[k] = Place(f[k - 1], ranked[k])
      BY <1>3 DEF Follows
    <2>1. f[k - 1] \in Lists /\ f[k] = step[k][f[k - 1]]
      <3> HIDE DEF step
      <3> QED
        BY <1>3 DEF Follows
    <2> QED
      BY <2>1
  <1>5. f = [k \in 0 .. m |-> IF k = 0 THEN base ELSE Place(f[k - 1], ranked[k])]
    <2> HIDE DEF base
    <2> QED
      BY <1>3, <1>4 DEF Follows
  <1>6. placed = [k \in 0 .. m |-> IF k = 0 THEN base
                                   ELSE Place(placed[k - 1], ranked[k])]
    <2> HIDE DEF base
    <2> QED
      BY <1>5
  <1>7. Scatter(ranked) = placed[m]
    <2>1. Len(ranked) = m
      OBVIOUS
    <2> QED
      BY <2>1 DEF Scatter
  <1> HIDE DEF placed
  <1> DEFINE T == {k \in 0 .. m : Placed(placed[k], ranked, k)}
  <1>8. 0 \in T
    <2>1. placed[0] = base
      BY <1>6
    <2> QED
      BY <2>1 DEF Placed, Good
  <1>9. ASSUME NEW k \in 0 .. m - 1, k \in T PROVE k + 1 \in T
    <2>1. placed[k + 1] = Place(placed[k], ranked[k + 1])
      <3> HIDE DEF base
      <3> QED
        BY <1>6
    <2>2. Placed(placed[k], ranked, k)
      BY <1>9
    <2>3. Placed(Place(placed[k], ranked[k + 1]), ranked, k + 1)
      BY <2>2, PlaceStep
    <2> QED
      BY <2>1, <2>3
  <1> HIDE DEF T
  <1>10. \A k \in 0 .. m : k \in T
    BY <1>8, <1>9, InductionTo
  <1>11. m \in T
    BY <1>10
  <1> QED
    BY <1>7, <1>11 DEF T

\* A list with a score for every document.
Filled(list) == list # <<>> /\ \A i \in Sent : list[i] # None

\* As many entries as documents, one for each document, with its score.
Complete(list, ranked, n, m) ==
    /\ m = n /\ list \in [1 .. n -> Scores]
    /\ \A i \in 1 .. n : \E k \in 1 .. m :
          ranked[k] = [index |-> i - 1, score |-> list[i]]

\* A listwise ranking that fills the list has one entry for each document, with its score.
LEMMA FullList ==
  ASSUME NEW n \in Nat \ {0}, request.texts \in [1 .. n -> Nat], Scores \subseteq Nat,
         NEW m \in Nat, NEW ranked \in [1 .. m -> Entries],
         NEW list, Placed(list, ranked, m), Filled(list)
  PROVE  Complete(list, ranked, n, m)
  <1>1. /\ Sent = 1 .. n /\ Len(request.texts) = n
        /\ \A j \in 1 .. m : /\ ranked[j] \in Entries /\ ranked[j].index \in Int
                             /\ ranked[j] = [index |-> ranked[j].index,
                                             score |-> ranked[j].score]
    BY DEF Sent, Entries
  <1>2. Good(ranked, m)
    BY DEF Placed, Filled
  <1>3. /\ list \in [1 .. n -> Scores \cup {-1}]
        /\ \A j \in 1 .. m : list[ranked[j].index + 1] = ranked[j].score
        /\ \A i \in 1 .. n : \E j \in 1 .. m : ranked[j].index = i - 1
    BY <1>1, <1>2 DEF Placed, Filled, None
  <1>4. ASSUME NEW i \in 1 .. n
        PROVE  \E k \in 1 .. m : ranked[k] = [index |-> i - 1, score |-> list[i]]
    <2>1. PICK j \in 1 .. m : ranked[j].index = i - 1
      BY <1>3
    <2>2. ranked[j].index + 1 = i
      BY <2>1
    <2>3. list[i] = ranked[j].score
      BY <2>2, <1>3
    <2> QED
      BY <1>1, <2>1, <2>3
  <1> DEFINE f == [j \in 1 .. m |-> ranked[j].index + 1]
  <1>5. \A j \in 1 .. m : ranked[j].index \in 0 .. n - 1
    BY <1>1, <1>2 DEF Good
  <1>6. f \in [1 .. m -> 1 .. n]
    BY <1>5
  <1>7. ASSUME NEW i \in 1 .. m, NEW j \in 1 .. m, f[i] = f[j] PROVE i = j
    <2>1. ranked[i].index = ranked[j].index
      BY <1>1, <1>7
    <2>2. ~(i < j) /\ ~(j < i)
      BY <1>2, <2>1 DEF Good
    <2> QED
      BY <2>2
  <1>8. ASSUME NEW i \in 1 .. n PROVE \E j \in 1 .. m : f[j] = i
    <2>1. PICK j \in 1 .. m : ranked[j].index = i - 1
      BY <1>3
    <2> QED
      BY <2>1
  <1>9. Cardinality(1 .. n) = m
    <2>1. f \in Bijection(1 .. m, 1 .. n)
      <3> HIDE DEF f
      <3> QED
        BY <1>6, <1>7, <1>8 DEF Bijection, Injection, IsInjective, Surjection
    <2> HIDE DEF f
    <2> QED
      BY <2>1, Counted
  <1>10. Cardinality(1 .. n) = n
    <2>1. n \in Int /\ 1 \in Int /\ ~(1 > n)
      OBVIOUS
    <2>2. Cardinality(1 .. n) = n - 1 + 1
      BY <2>1, FS_Interval
    <2> QED
      BY <2>2
  <1>11. list \in [1 .. n -> Scores]
    BY <1>1, <1>3 DEF Filled, None
  <1> QED
    BY <1>4, <1>9, <1>10, <1>11 DEF Complete

\* A listwise ranking that leaves a gap, or is refused, does not name each document once.
LEMMA GapInList ==
  ASSUME NEW n \in Nat \ {0}, request.texts \in [1 .. n -> Nat], Scores \subseteq Nat,
         NEW ranked \in [1 .. n -> Entries],
         NEW list, Placed(list, ranked, n),
         list = <<>> \/ \E i \in Sent : list[i] = None,
         NEW p \in Surjection(1 .. n, 1 .. n),
         \A k \in 1 .. n : ranked[k].index = p[k] - 1 /\ ranked[k].score # NotFinite
  PROVE  FALSE
  <1>1. Sent = 1 .. n /\ Len(request.texts) = n
    BY DEF Sent
  <1>2. p \in [1 .. n -> 1 .. n]
    BY DEF Surjection
  <1>3. p \in Injection(1 .. n, 1 .. n)
    BY FS_Interval, FS_SurjSameCardinalityImpliesInj
  <1>4. Good(ranked, n)
    <2> SUFFICES ASSUME NEW j \in 1 .. n
                 PROVE  /\ ranked[j].index \in 0 .. n - 1
                        /\ \A l \in 1 .. j - 1 : ranked[l].index # ranked[j].index
      BY <1>1 DEF Good
    <2>1. ranked[j].index = p[j] - 1 /\ p[j] \in 1 .. n
      BY <1>2
    <2>2. ASSUME NEW l \in 1 .. j - 1 PROVE ranked[l].index # ranked[j].index
      <3>1. l \in 1 .. n /\ l # j
        OBVIOUS
      <3>2. p[l] # p[j] /\ p[l] \in 1 .. n /\ ranked[l].index = p[l] - 1
        BY <1>2, <1>3, <3>1 DEF Injection, IsInjective
      <3> QED
        BY <2>1, <3>2
    <2> QED
      BY <2>1, <2>2
  <1>5. /\ list \in [1 .. n -> Scores \cup {-1}]
        /\ \A j \in 1 .. n : list[ranked[j].index + 1] = ranked[j].score
    BY <1>1, <1>4 DEF Placed, None
  <1>6. list # <<>>
    BY <1>5
  <1>7. PICK i \in 1 .. n : list[i] = -1
    BY <1>1, <1>6 DEF None
  <1>8. PICK k \in 1 .. n : p[k] = i
    BY DEF Surjection
  <1>9. ranked[k].index + 1 = i
    BY <1>8
  <1>10. ranked[k].score = -1
    BY <1>5, <1>7, <1>9
  <1>11. ranked[k].score \in Scores
    BY DEF Entries, NotFinite
  <1> QED
    BY <1>10, <1>11
-------------------------------------------------------------------------------
(* Scores from the cache and from inference.                               *)

\* What is missing from the cache comes back in the order it was asked for.
LEMMA InOrderCounts ==
  ASSUME NEW n \in Nat, NEW S \in SUBSET (1 .. n)
  PROVE  /\ InOrder(S) \in [1 .. Cardinality(S) -> S]
         /\ \A i \in S : /\ Cardinality((1 .. i) \cap S) \in 1 .. Cardinality(S)
                         /\ InOrder(S)[Cardinality((1 .. i) \cap S)] = i
  <1> DEFINE Enumerates(k, c, o) ==
                /\ c \in Nat /\ o \in [1 .. c -> S \cap (1 .. k)]
                /\ \A i, j \in 1 .. c : i < j => o[i] < o[j]
                /\ \A s \in S \cap (1 .. k) : \E i \in 1 .. c : o[i] = s
             T == {k \in 0 .. n : \E c, o : Enumerates(k, c, o)}
  <1>1. 0 \in T
    <2>1. Enumerates(0, 0, [i \in 1 .. 0 |-> 0])
      OBVIOUS
    <2>2. \E c, o : Enumerates(0, c, o)
      BY <2>1
    <2> HIDE DEF Enumerates
    <2> QED
      BY <2>2
  <1>2. ASSUME NEW k \in 0 .. n - 1, k \in T PROVE k + 1 \in T
    <2>1. PICK c, o : Enumerates(k, c, o)
      BY <1>2
    <2>2. CASE k + 1 \notin S
      <3>1. S \cap (1 .. k + 1) = S \cap (1 .. k)
        BY <2>2
      <3>2. Enumerates(k + 1, c, o)
        BY <2>1, <3>1
      <3> HIDE DEF Enumerates
      <3> QED
        BY <3>2
    <2>3. CASE k + 1 \in S
      <3> DEFINE new == [i \in 1 .. c + 1 |-> IF i = c + 1 THEN k + 1 ELSE o[i]]
      <3>1. S \cap (1 .. k + 1) = (S \cap (1 .. k)) \cup {k + 1} /\ c \in Nat
        BY <2>1, <2>3
      <3>2. /\ new \in [1 .. c + 1 -> S \cap (1 .. k + 1)]
            /\ new[c + 1] = k + 1 /\ \A i \in 1 .. c : new[i] = o[i] /\ o[i] \in 1 .. k
        BY <2>1, <3>1
      <3> HIDE DEF new
      <3>3. ASSUME NEW i \in 1 .. c + 1, NEW j \in 1 .. c + 1, i < j PROVE new[i] < new[j]
        <4>1. i \in 1 .. c /\ (j \in 1 .. c \/ j = c + 1)
          BY <3>1, <3>3
        <4>2. new[i] = o[i] /\ o[i] < k + 1
          BY <4>1, <3>2
        <4>3. CASE j = c + 1
          BY <4>2, <4>3, <3>2
        <4>4. CASE j \in 1 .. c
          <5>1. o[i] < o[j] /\ new[j] = o[j]
            BY <4>1, <4>4, <3>2, <3>3, <2>1
          <5> QED
            BY <5>1, <4>2
        <4> QED
          BY <4>1, <4>3, <4>4
      <3>4. ASSUME NEW s \in S \cap (1 .. k + 1) PROVE \E i \in 1 .. c + 1 : new[i] = s
        <4>1. CASE s = k + 1
          BY <4>1, <3>1, <3>2
        <4>2. CASE s # k + 1
          <5>1. PICK i \in 1 .. c : o[i] = s
            BY <4>2, <3>1, <2>1
          <5>2. i \in 1 .. c + 1
            BY <3>1
          <5> QED
            BY <5>1, <5>2, <3>2
        <4> QED
          BY <4>1, <4>2
      <3>5. Enumerates(k + 1, c + 1, new)
        BY <3>1, <3>2, <3>3, <3>4
      <3> HIDE DEF Enumerates
      <3> QED
        BY <3>5
    <2> QED
      BY <2>2, <2>3
  <1> HIDE DEF T
  <1>3. \A k \in 0 .. n : k \in T
    BY <1>1, <1>2, InductionTo
  <1>4. n \in T
    BY <1>3
  <1>5. PICK c, o : Enumerates(n, c, o)
    BY <1>4 DEF T
  <1>6. S \cap (1 .. n) = S
    OBVIOUS
  <1>7. ASSUME NEW d \in Nat, NEW q \in [1 .. d -> S], \A i, j \in 1 .. d : i < j => q[i] < q[j],
               NEW i \in 1 .. d, NEW j \in 1 .. d, q[i] = q[j]
        PROVE  i = j
    <2>1. q[i] \in 1 .. n /\ q[j] \in 1 .. n
      OBVIOUS
    <2>2. ~(i < j) /\ ~(j < i)
      BY <1>7, <2>1
    <2> QED
      BY <2>2
  <1>8. Cardinality(S) = c /\ IsFiniteSet(S)
    <2>1. /\ c \in Nat /\ o \in [1 .. c -> S] /\ \A s \in S : \E i \in 1 .. c : o[i] = s
          /\ \A i, j \in 1 .. c : i < j => o[i] < o[j]
      BY <1>5, <1>6
    <2>2. \A i, j \in 1 .. c : o[i] = o[j] => i = j
      BY <1>7, <2>1
    <2>3. o \in Bijection(1 .. c, S)
      BY <2>1, <2>2 DEF Bijection, Injection, IsInjective, Surjection
    <2> QED
      BY <2>1, <2>3, Counted
  <1> DEFINE q == InOrder(S)
  <1>9. q \in [1 .. c -> S] /\ \A i, j \in 1 .. c : i < j => q[i] < q[j]
    <2>1. \E r \in [1 .. c -> S] : \A i, j \in DOMAIN r : i < j => r[i] < r[j]
      BY <1>5, <1>6
    <2> QED
      BY <1>8, <2>1 DEF InOrder
  <1>10. c \in Nat
    BY <1>5
  <1> HIDE DEF q
  <1>11. \A s \in S : \E i \in 1 .. c : q[i] = s
    <2>1. q \in Injection(1 .. c, S)
      BY <1>7, <1>9, <1>10 DEF Injection, IsInjective
    <2>2. Cardinality(1 .. c) = c
      BY <1>10, FS_Interval
    <2>3. q \in Surjection(1 .. c, S)
      BY <2>1, <2>2, <1>8, FS_Injection
    <2> QED
      BY <2>3 DEF Surjection
  <1>12. ASSUME NEW i \in S
         PROVE  Cardinality((1 .. i) \cap S) \in 1 .. c
                /\ q[Cardinality((1 .. i) \cap S)] = i
    <2>1. PICK j \in 1 .. c : q[j] = i
      BY <1>11
    <2> DEFINE f == [l \in 1 .. j |-> q[l]]
    <2>2. j \in Nat /\ \A l \in 1 .. j : l \in 1 .. c
      BY <1>10
    <2>3. f \in [1 .. j -> (1 .. i) \cap S]
      <3> SUFFICES ASSUME NEW l \in 1 .. j PROVE q[l] \in (1 .. i) \cap S
        OBVIOUS
      <3>1. q[l] \in S /\ q[l] \in 1 .. n /\ i \in 1 .. n
        BY <2>2, <1>9
      <3>2. l = j \/ q[l] < q[j]
        BY <2>2, <1>9
      <3> QED
        BY <3>1, <3>2, <2>1
    <2>4. ASSUME NEW a \in 1 .. j, NEW b \in 1 .. j, f[a] = f[b] PROVE a = b
      BY <2>2, <2>4, <1>7, <1>9, <1>10
    <2>5. ASSUME NEW s \in (1 .. i) \cap S PROVE \E l \in 1 .. j : f[l] = s
      <3>1. PICK l \in 1 .. c : q[l] = s
        BY <1>11
      <3>2. ~(j < l)
        <4> SUFFICES ASSUME j < l PROVE FALSE
          OBVIOUS
        <4>1. q[j] < q[l]
          BY <1>9
        <4> QED
          BY <4>1, <2>1, <3>1
      <3>3. l \in 1 .. j
        BY <3>2, <1>10
      <3> QED
        BY <3>1, <3>3
    <2> HIDE DEF f
    <2>6. Cardinality((1 .. i) \cap S) = j
      <3>1. f \in Bijection(1 .. j, (1 .. i) \cap S)
        BY <2>3, <2>4, <2>5 DEF Bijection, Injection, IsInjective, Surjection
      <3> QED
        BY <2>2, <3>1, Counted
    <2> QED
      BY <2>1, <2>6
  <1> QED
    BY <1>8, <1>9, <1>12 DEF q

\* A document the cache had is ranked by that score, and one it had not by the score
\* inferred for it.
LEMMA MergeOwn ==
  ASSUME NEW n \in Nat \ {0}, request.texts \in [1 .. n -> Nat],
         NEW found \in SUBSET (1 .. n), NEW of \in [1 .. n -> Scores]
  PROVE  LET misses == InOrder(Sent \ found)
         IN  Merge([i \in found |-> of[i]], [k \in DOMAIN misses |-> of[misses[k]]]) = of
  <1> DEFINE S == (1 .. n) \ found
             misses == InOrder(S)
             cached == [i \in found |-> of[i]]
             inferred == [k \in DOMAIN misses |-> of[misses[k]]]
  <1>1. Sent = 1 .. n /\ DOMAIN cached = found
    BY DEF Sent
  <1>2. /\ misses \in [1 .. Cardinality(S) -> S]
        /\ \A i \in S : /\ Cardinality((1 .. i) \cap S) \in 1 .. Cardinality(S)
                        /\ misses[Cardinality((1 .. i) \cap S)] = i
    <2>1. S \in SUBSET (1 .. n)
      OBVIOUS
    <2> HIDE DEF S
    <2> QED
      BY <2>1, InOrderCounts
  <1>3. ASSUME NEW i \in 1 .. n
        PROVE  (IF i \in found THEN cached[i]
                ELSE inferred[Cardinality((1 .. i) \ found)]) = of[i]
    <2>1. CASE i \in found
      BY <2>1
    <2>2. CASE i \notin found
      <3>1. i \in S /\ (1 .. i) \ found = (1 .. i) \cap S
        BY <2>2
      <3>2. /\ Cardinality((1 .. i) \ found) \in DOMAIN misses
            /\ misses[Cardinality((1 .. i) \ found)] = i
        <4> HIDE DEF S, misses
        <4> QED
          BY <3>1, <1>2
      <3> HIDE DEF misses
      <3> QED
        BY <2>2, <3>2
    <2> QED
      BY <2>1, <2>2
  <1>4. Merge(cached, inferred) = of
    <2> HIDE DEF misses, inferred
    <2> QED
      BY <1>1, <1>3 DEF Merge
  <1> QED
    BY <1>1, <1>4
-------------------------------------------------------------------------------
(* The stable sort.                                                        *)

\* A part of 1 .. k that has every number below one it has is the numbers up to its size.
LEMMA Segment ==
  ASSUME NEW k \in Nat, NEW D \in SUBSET (1 .. k),
         \A b \in D : \A a \in 1 .. b : a \in D
  PROVE  Cardinality(D) \in 0 .. k /\ D = 1 .. Cardinality(D)
  <1> DEFINE Rest == {a \in 1 .. k + 1 : a \notin D}
  <1>1. Rest \in SUBSET Nat /\ k + 1 \in Rest
    OBVIOUS
  <1>2. PICK least \in Rest : \A a \in Rest : least <= a
    <2> HIDE DEF Rest
    <2> QED
      BY <1>1, LeastNatural
  <1>3. least \in 1 .. k + 1 /\ least \notin D
    BY <1>2
  <1>4. ASSUME NEW a \in D PROVE a \in 1 .. least - 1
    <2>1. ~(least <= a)
      BY <1>3
    <2> QED
      BY <2>1, <1>3
  <1>5. ASSUME NEW a \in 1 .. least - 1 PROVE a \in D
    <2>1. a \in 1 .. k + 1 /\ ~(least <= a)
      BY <1>3
    <2> QED
      BY <2>1, <1>2
  <1>6. D = 1 .. least - 1
    BY <1>4, <1>5
  <1>7. Cardinality(D) = least - 1
    BY <1>3, <1>6, FS_Interval
  <1> QED
    BY <1>3, <1>6, <1>7

\* Where the stable sort by descending score has i before j.
Before(i, j) == \/ scores[i] > scores[j]
                \/ scores[i] = scores[j] /\ i < j

\* order has the first k documents, in that order.
SortedTo(order, k) ==
    /\ order \in [1 .. k -> 1 .. k]
    /\ \A a, b \in 1 .. k : a < b => Before(order[a], order[b])
    /\ \A d \in 1 .. k : \E a \in 1 .. k : order[a] = d

\* The first c stay, e comes next, and the others move up.
Inserted(order, k, c, e) ==
    [a \in 1 .. k + 1 |-> IF a <= c THEN order[a] ELSE IF a = c + 1 THEN e ELSE order[a - 1]]

\* InsertAt does that.
LEMMA InsertAtPlace ==
  ASSUME NEW S, NEW k \in Nat, NEW order \in [1 .. k -> S], NEW c \in 0 .. k, NEW e \in S
  PROVE  InsertAt(order, 1 + c, e) = Inserted(order, k, c, e)
  <1>1. order \in Seq(S) /\ Len(order) = k
    OBVIOUS
  <1>2. InsertAt(order, 1 + c, e) = SubSeq(order, 1, c) \o <<e>> \o SubSeq(order, 1 + c, k)
    BY <1>1 DEF InsertAt
  <1> DEFINE left == SubSeq(order, 1, c)
             right == SubSeq(order, 1 + c, k)
  <1>3. left \in Seq(S) /\ Len(left) = c /\ \A a \in 1 .. c : left[a] = order[a]
    <2>1. \A a \in 1 .. c : order[a] \in S
      OBVIOUS
    <2> QED
      BY <2>1, SubSeqProperties
  <1>4. /\ right \in Seq(S) /\ Len(right) = k - c
        /\ \A a \in 1 .. k - c : right[a] = order[a + c]
    <2>1. \A a \in 1 + c .. k : order[a] \in S
      OBVIOUS
    <2>2. /\ right \in Seq(S) /\ Len(right) = IF 1 + c <= k THEN k - (1 + c) + 1 ELSE 0
          /\ \A a \in 1 .. k - (1 + c) + 1 : right[a] = order[(1 + c) + a - 1]
      BY <2>1, SubSeqProperties
    <2>3. \A a \in 1 .. k - c : a \in 1 .. k - (1 + c) + 1 /\ (1 + c) + a - 1 = a + c
      OBVIOUS
    <2> HIDE DEF right
    <2> QED
      BY <2>2, <2>3
  <1> HIDE DEF left, right
  <1> DEFINE front == left \o <<e>>
             new == front \o right
  <1>5. /\ front \in Seq(S) /\ Len(front) = c + 1
        /\ \A a \in 1 .. c + 1 : front[a] = IF a <= c THEN order[a] ELSE e
    <2>1. <<e>> \in Seq(S) /\ Len(<<e>>) = 1 /\ <<e>>[1] = e
      OBVIOUS
    <2>2. /\ front \in Seq(S) /\ Len(front) = c + 1
          /\ \A a \in 1 .. c + 1 : front[a] = IF a <= c THEN left[a] ELSE <<e>>[a - c]
      BY <1>3, <2>1, ConcatProperties
    <2>3. \A a \in 1 .. c + 1 : IF a <= c THEN a \in 1 .. c ELSE a - c = 1
      OBVIOUS
    <2> HIDE DEF front
    <2> QED
      BY <1>3, <2>1, <2>2, <2>3
  <1> HIDE DEF front
  <1>6. /\ new \in Seq(S) /\ Len(new) = k + 1
        /\ \A a \in 1 .. k + 1 : new[a] = IF a <= c + 1 THEN front[a] ELSE right[a - (c + 1)]
    <2>1. (c + 1) + (k - c) = k + 1
      OBVIOUS
    <2>2. /\ new \in Seq(S) /\ Len(new) = Len(front) + Len(right)
          /\ \A a \in 1 .. Len(front) + Len(right) :
                new[a] = IF a <= Len(front) THEN front[a] ELSE right[a - Len(front)]
      BY <1>4, <1>5, ConcatProperties
    <2> HIDE DEF new
    <2> QED
      BY <1>4, <1>5, <2>1, <2>2
  <1> HIDE DEF new
  <1>7. ASSUME NEW a \in 1 .. k + 1
        PROVE  new[a] = IF a <= c THEN order[a] ELSE IF a = c + 1 THEN e ELSE order[a - 1]
    <2>1. CASE a <= c + 1
      <3>1. a \in 1 .. c + 1
        BY <2>1
      <3> QED
        BY <2>1, <3>1, <1>5, <1>6
    <2>2. CASE ~(a <= c + 1)
      <3>1. a - (c + 1) \in 1 .. k - c /\ (a - (c + 1)) + c = a - 1 /\ ~(a <= c) /\ a # c + 1
        BY <2>2
      <3>2. right[a - (c + 1)] = order[a - 1]
        BY <3>1, <1>4
      <3> QED
        BY <2>2, <3>1, <3>2, <1>6
    <2> QED
      BY <2>1, <2>2
  <1>8. new = [a \in 1 .. k + 1 |-> IF a <= c THEN order[a]
                                    ELSE IF a = c + 1 THEN e ELSE order[a - 1]]
    BY <1>6, <1>7
  <1> QED
    BY <1>2, <1>8 DEF new, front, left, right, Inserted

\* One more document is inserted after those at least as good.
LEMMA InsertKeepsSorted ==
  ASSUME NEW n \in Nat, scores \in [1 .. n -> Nat],
         NEW k \in 0 .. n - 1, NEW order, SortedTo(order, k)
  PROVE  SortedTo(Insert(order, k + 1), k + 1)
  <1> DEFINE D == {a \in DOMAIN order : scores[order[a]] >= scores[k + 1]}
             c == Cardinality(D)
  <1>1. /\ order \in [1 .. k -> 1 .. k] /\ k \in Nat /\ k + 1 \in 1 .. n
        /\ \A a, b \in 1 .. k : a < b => Before(order[a], order[b])
        /\ DOMAIN order = 1 .. k /\ \A a \in 1 .. k : order[a] \in 1 .. n /\ order[a] <= k
    <2>1. k \in Nat /\ k + 1 \in 1 .. n /\ \A a \in 1 .. k : a \in 1 .. n
      OBVIOUS
    <2>2. /\ order \in [1 .. k -> 1 .. k]
          /\ \A a, b \in 1 .. k : a < b => Before(order[a], order[b])
      BY DEF SortedTo
    <2>3. \A a \in 1 .. k : order[a] \in 1 .. k
      BY <2>2
    <2>4. \A d \in 1 .. k : d \in 1 .. n /\ d <= k
      BY <2>1
    <2>5. DOMAIN order = 1 .. k
      BY <2>2
    <2> QED
      BY <2>1, <2>2, <2>3, <2>4, <2>5
  <1>2. \A d \in 1 .. n : scores[d] \in Nat
    OBVIOUS
  <1>3. D \in SUBSET (1 .. k) /\ \A b \in D : \A a \in 1 .. b : a \in D
    <2>1. ASSUME NEW b \in D, NEW a \in 1 .. b PROVE a \in D
      <3>1. b \in 1 .. k /\ scores[order[b]] >= scores[k + 1]
        BY <1>1
      <3> HIDE DEF D
      <3>2. a \in 1 .. k /\ (a = b \/ a < b)
        BY <3>1
      <3>3. /\ scores[order[a]] \in Nat /\ scores[order[b]] \in Nat
            /\ scores[k + 1] \in Nat
        BY <1>1, <1>2, <3>1, <3>2
      <3>4. a < b => Before(order[a], order[b])
        BY <1>1, <3>1, <3>2
      <3>5. a < b => scores[order[a]] >= scores[order[b]]
        BY <3>3, <3>4 DEF Before
      <3>6. scores[order[a]] >= scores[k + 1]
        BY <3>1, <3>2, <3>3, <3>5
      <3> QED
        BY <1>1, <3>2, <3>6 DEF D
    <2> QED
      BY <1>1, <2>1
  <1>4. c \in 0 .. k /\ D = 1 .. c
    <2> HIDE DEF D
    <2> QED
      BY <1>1, <1>3, Segment
  <1>5. \A a \in 1 .. k : a <= c <=> scores[order[a]] >= scores[k + 1]
    <2>1. \A a \in 1 .. k : a \in D <=> a \in 1 .. c
      <3> HIDE DEF D, c
      <3> QED
        BY <1>4
    <2>2. \A a \in 1 .. k : a \in D <=> scores[order[a]] >= scores[k + 1]
      BY <1>1
    <2> HIDE DEF D, c
    <2>3. \A a \in 1 .. k : a \in 1 .. c <=> a <= c
      BY <1>4
    <2> QED
      BY <2>1, <2>2, <2>3
  <1> DEFINE new == [a \in 1 .. k + 1 |-> IF a <= c THEN order[a]
                                          ELSE IF a = c + 1 THEN k + 1 ELSE order[a - 1]]
  <1>6. Insert(order, k + 1) = new
    <2>1. order \in [1 .. k -> 1 .. k + 1] /\ k + 1 \in 1 .. k + 1
      BY <1>1
    <2>2. InsertAt(order, 1 + c, k + 1) = new
      <3>1. c \in 0 .. k
        BY <1>4
      <3> HIDE DEF c
      <3>2. InsertAt(order, 1 + c, k + 1) = Inserted(order, k, c, k + 1)
        BY <1>1, <2>1, <3>1, InsertAtPlace
      <3> QED
        BY <3>2 DEF Inserted
    <2> QED
      BY <2>2 DEF Insert
  <1> HIDE DEF c, D
  <1>7. new \in [1 .. k + 1 -> 1 .. k + 1]
    <2> SUFFICES ASSUME NEW a \in 1 .. k + 1 PROVE new[a] \in 1 .. k + 1
      OBVIOUS
    <2>1. \A x \in 1 .. k : order[x] \in 1 .. k + 1
      BY <1>1
    <2>2. a > c + 1 => a - 1 \in 1 .. k
      BY <1>1, <1>4
    <2>3. a <= c => a \in 1 .. k
      BY <1>1, <1>4
    <2> QED
      BY <1>1, <1>4, <2>1, <2>2, <2>3
  <1>8. ASSUME NEW a \in 1 .. k + 1, NEW b \in 1 .. k + 1, a < b
        PROVE  Before(new[a], new[b])
    <2>1. CASE b <= c
      <3>1. a \in 1 .. k /\ b \in 1 .. k /\ new[a] = order[a] /\ new[b] = order[b]
        BY <1>1, <1>4, <1>8, <2>1
      <3> QED
        BY <1>1, <1>8, <3>1
    <2>2. CASE b = c + 1
      <3>1. a \in 1 .. k /\ a <= c /\ new[a] = order[a] /\ new[b] = k + 1
        BY <1>1, <1>4, <1>8, <2>2
      <3>2. scores[order[a]] >= scores[k + 1] /\ order[a] < k + 1
        BY <1>1, <1>5, <3>1
      <3>3. scores[order[a]] \in Nat /\ scores[k + 1] \in Nat /\ order[a] \in Nat
        BY <1>1, <1>2, <3>1
      <3>4. Before(order[a], k + 1)
        <4> HIDE DEF new
        <4> QED
          BY <3>2, <3>3, <1>1 DEF Before
      <3> QED
        BY <3>1, <3>4
    <2>3. CASE b > c + 1 /\ a <= c
      <3>1. /\ a \in 1 .. k /\ b - 1 \in 1 .. k /\ a < b - 1
            /\ new[a] = order[a] /\ new[b] = order[b - 1]
        BY <1>1, <1>4, <2>3
      <3> QED
        BY <1>1, <3>1
    <2>4. CASE b > c + 1 /\ a = c + 1
      <3>1. /\ b - 1 \in 1 .. k /\ ~(b - 1 <= c)
            /\ new[a] = k + 1 /\ new[b] = order[b - 1]
        BY <1>1, <1>4, <2>4
      <3>2. ~(scores[order[b - 1]] >= scores[k + 1])
        BY <1>5, <3>1
      <3>3. scores[order[b - 1]] \in Nat /\ scores[k + 1] \in Nat
        BY <1>1, <1>2, <3>1
      <3>4. Before(k + 1, order[b - 1])
        <4> HIDE DEF new
        <4> QED
          BY <3>2, <3>3 DEF Before
      <3> QED
        BY <3>1, <3>4
    <2>5. CASE a > c + 1
      <3>1. /\ a - 1 \in 1 .. k /\ b - 1 \in 1 .. k /\ a - 1 < b - 1
            /\ new[a] = order[a - 1] /\ new[b] = order[b - 1]
        BY <1>1, <1>4, <1>8, <2>5
      <3> QED
        BY <1>1, <3>1
    <2> QED
      BY <1>1, <1>4, <1>8, <2>1, <2>2, <2>3, <2>4, <2>5
  <1>9. ASSUME NEW d \in 1 .. k + 1 PROVE \E a \in 1 .. k + 1 : new[a] = d
    <2>1. CASE d = k + 1
      <3>1. c + 1 \in 1 .. k + 1 /\ new[c + 1] = k + 1
        BY <1>1, <1>4
      <3> QED
        BY <2>1, <3>1
    <2>2. CASE d # k + 1
      <3>1. PICK a \in 1 .. k : order[a] = d
        BY <1>1, <2>2 DEF SortedTo
      <3>2. CASE a <= c
        BY <1>1, <3>1, <3>2
      <3>3. CASE ~(a <= c)
        <4>1. a + 1 \in 1 .. k + 1 /\ ~(a + 1 <= c) /\ a + 1 # c + 1 /\ (a + 1) - 1 = a
          BY <1>1, <1>4, <3>3
        <4>2. new[a + 1] = order[a]
          BY <4>1
        <4> QED
          BY <3>1, <4>1, <4>2
      <3> QED
        BY <3>2, <3>3
    <2> QED
      BY <2>1, <2>2
  <1> QED
    <2> HIDE DEF new
    <2> QED
      BY <1>6, <1>7, <1>8, <1>9 DEF SortedTo

\* Inserting into a sequence of documents gives one.
LEMMA InsertType ==
  ASSUME NEW order \in Seq(Nat), NEW i \in Nat
  PROVE  Insert(order, i) \in Seq(Nat)
  <1> DEFINE D == {a \in DOMAIN order : scores[order[a]] >= scores[i]}
  <1>1. PICK k \in Nat : order \in [1 .. k -> Nat]
    <2>1. Len(order) \in Nat /\ order \in [1 .. Len(order) -> Nat]
      OBVIOUS
    <2> QED
      BY <2>1
  <1>2. D \in SUBSET (1 .. k)
    BY <1>1
  <1> HIDE DEF D
  <1>3. Cardinality(D) \in 0 .. k
    <2>1. IsFiniteSet(1 .. k) /\ Cardinality(1 .. k) = k
      BY <1>1, FS_Interval
    <2>2. IsFiniteSet(D) /\ Cardinality(D) <= k
      BY <1>2, <2>1, FS_Subset
    <2>3. Cardinality(D) \in Nat
      BY <2>2, FS_CardinalityType
    <2> QED
      BY <1>1, <2>2, <2>3
  <1> DEFINE c == Cardinality(D)
             new == [a \in 1 .. k + 1 |-> IF a <= c THEN order[a]
                                          ELSE IF a = c + 1 THEN i ELSE order[a - 1]]
  <1>4. c \in 0 .. k
    BY <1>3
  <1> HIDE DEF c
  <1>5. InsertAt(order, 1 + c, i) = new
    <2>1. InsertAt(order, 1 + c, i) = Inserted(order, k, c, i)
      BY <1>1, <1>4, InsertAtPlace
    <2> QED
      BY <2>1 DEF Inserted
  <1>6. \A a \in 1 .. k + 1 : new[a] \in Nat
    <2> SUFFICES ASSUME NEW a \in 1 .. k + 1 PROVE new[a] \in Nat
      OBVIOUS
    <2>1. (a <= c => a \in 1 .. k) /\ (a > c + 1 => a - 1 \in 1 .. k)
      BY <1>1, <1>4
    <2> QED
      BY <1>1, <1>4, <2>1
  <1>7. new \in Seq(Nat)
    BY <1>6
  <1> QED
    BY <1>5, <1>7 DEF Insert, c, D

\* What Sorted is.
LEMMA SortedOrders ==
  ASSUME NEW n \in Nat, scores \in [1 .. n -> Nat]
  PROVE  SortedTo(Sorted, n)
  <1> DEFINE sorted == CHOOSE g : g = [k \in 0 .. n |-> IF k = 0 THEN <<>>
                                                        ELSE Insert(g[k - 1], k)]
             step == [k \in 1 .. n |-> [order \in Seq(Nat) |-> Insert(order, k)]]
  <1>1. step \in [1 .. n -> [Seq(Nat) -> Seq(Nat)]]
    BY InsertType
  <1>2. PICK f : Follows(f, n, Seq(Nat), <<>>, step)
    <2>1. <<>> \in Seq(Nat)
      OBVIOUS
    <2> HIDE DEF step
    <2> QED
      BY <1>1, <2>1, Recursion
  <1>3. \A k \in 0 .. n : f[k] = IF k = 0 THEN <<>> ELSE Insert(f[k - 1], k)
    <2> SUFFICES ASSUME NEW k \in 1 .. n PROVE f[k] = Insert(f[k - 1], k)
      BY <1>2 DEF Follows
    <2>1. f[k - 1] \in Seq(Nat) /\ f[k] = step[k][f[k - 1]]
      <3>1. k - 1 \in 0 .. n
        OBVIOUS
      <3>2. f \in [0 .. n -> Seq(Nat)] /\ \A j \in 1 .. n : f[j] = step[j][f[j - 1]]
        <4> HIDE DEF step
        <4> QED
          BY <1>2 DEF Follows
      <3> HIDE DEF step
      <3> QED
        BY <3>1, <3>2
    <2> QED
      BY <2>1
  <1>4. f = [k \in 0 .. n |-> IF k = 0 THEN <<>> ELSE Insert(f[k - 1], k)]
    BY <1>2, <1>3 DEF Follows
  <1>5. sorted = [k \in 0 .. n |-> IF k = 0 THEN <<>> ELSE Insert(sorted[k - 1], k)]
    BY <1>4
  <1>6. Sorted = sorted[n]
    <2>1. Len(scores) = n
      OBVIOUS
    <2> QED
      BY <2>1 DEF Sorted
  <1> HIDE DEF sorted
  <1> DEFINE T == {k \in 0 .. n : SortedTo(sorted[k], k)}
  <1>7. 0 \in T
    <2>1. sorted[0] = <<>>
      BY <1>5
    <2>2. SortedTo(<<>>, 0)
      BY DEF SortedTo
    <2> QED
      BY <2>1, <2>2
  <1>8. ASSUME NEW k \in 0 .. n - 1, k \in T PROVE k + 1 \in T
    <2>1. sorted[k + 1] = Insert(sorted[k], k + 1)
      BY <1>5
    <2>2. SortedTo(sorted[k], k)
      BY <1>8
    <2>3. SortedTo(Insert(sorted[k], k + 1), k + 1)
      BY <2>2, InsertKeepsSorted
    <2> QED
      BY <2>1, <2>3
  <1> HIDE DEF T
  <1>9. \A k \in 0 .. n : k \in T
    BY <1>7, <1>8, InductionTo
  <1>10. n \in T
    BY <1>9
  <1> QED
    BY <1>6, <1>10 DEF T

\* t of n documents, each once, that comes before all that are not above it.
Best(best, t, n) ==
    /\ Len(best) = t /\ best \in [1 .. t -> 1 .. n]
    /\ \A i, j \in 1 .. t : best[i] = best[j] => i = j
    /\ \A i \in 1 .. t, d \in 1 .. n :
          (\A k \in 1 .. i : best[k] # d) => Before(best[i], d)

\* The first of a sorted list are the best, best first.
LEMMA FirstAreBest ==
  ASSUME NEW n \in Nat, scores \in [1 .. n -> Nat],
         NEW order, SortedTo(order, n), NEW t \in 0 .. n,
         NEW best, best = SubSeq(order, 1, t)
  PROVE  Best(best, t, n)
  <1>1. /\ order \in [1 .. n -> 1 .. n]
        /\ \A a, b \in 1 .. n : a < b => Before(order[a], order[b])
        /\ \A d \in 1 .. n : \E a \in 1 .. n : order[a] = d
    BY DEF SortedTo
  <1>2. /\ best \in Seq(1 .. n) /\ Len(best) = t
        /\ \A i \in 1 .. t : best[i] = order[i]
    <2>1. \A i \in 1 .. t : order[i] \in 1 .. n
      BY <1>1
    <2> QED
      BY <2>1, SubSeqProperties
  <1>3. ASSUME NEW i \in 1 .. t, NEW d \in 1 .. n, \A k \in 1 .. i : best[k] # d
        PROVE  Before(best[i], d)
    <2>1. PICK a \in 1 .. n : order[a] = d
      BY <1>1
    <2>2. i < a
      <3>1. a \in 1 .. i => best[a] = order[a]
        BY <1>2
      <3> QED
        BY <1>3, <2>1, <3>1
    <2>3. i \in 1 .. n
      OBVIOUS
    <2> QED
      BY <1>1, <1>2, <2>1, <2>2, <2>3
  <1>4. best \in [1 .. t -> 1 .. n]
    BY <1>2, LenProperties
  <1>5. ASSUME NEW i \in 1 .. t, NEW j \in 1 .. t, best[i] = best[j], i < j PROVE FALSE
    <2>1. i \in 1 .. n /\ j \in 1 .. n
      OBVIOUS
    <2>2. Before(best[i], best[i])
      BY <1>1, <1>2, <1>5, <2>1
    <2>3. best[i] \in 1 .. n /\ scores[best[i]] \in Nat
      BY <1>4
    <2> QED
      BY <2>2, <2>3 DEF Before
  <1>6. \A i, j \in 1 .. t : best[i] = best[j] => i = j
    BY <1>5
  <1> QED
    BY <1>2, <1>3, <1>4, <1>6 DEF Best
-------------------------------------------------------------------------------
(* Sums in any order.                                                      *)

\* q puts the numbers up to n in another order; p puts them back.
Permutes(q, n) ==
    /\ q \in [1 .. n -> 1 .. n]
    /\ \A i, j \in 1 .. n : q[i] = q[j] => i = j
    /\ \A k \in 1 .. n : \E i \in 1 .. n : q[i] = k

Permuted(f, q, n) == [i \in 1 .. n |-> f[q[i]]]

\* Without its greatest number, a permutation is one of the others.
LEMMA PermutesLess ==
  ASSUME NEW m \in Nat, NEW q, Permutes(q, m + 1), NEW k \in 1 .. m + 1, q[k] = m + 1
  PROVE  Permutes([i \in 1 .. m |-> IF i = k THEN q[m + 1] ELSE q[i]], m)
  <1> DEFINE e == [i \in 1 .. m |-> IF i = k THEN q[m + 1] ELSE q[i]]
  <1>1. /\ m + 1 \in 1 .. m + 1 /\ \A i \in 1 .. m : i \in 1 .. m + 1 /\ i # m + 1
        /\ \A i \in 1 .. m + 1 : i # m + 1 => i \in 1 .. m
    OBVIOUS
  <1>2. /\ \A i \in 1 .. m + 1 : q[i] \in 1 .. m + 1
        /\ \A i, j \in 1 .. m + 1 : q[i] = q[j] => i = j
        /\ \A t \in 1 .. m + 1 : \E i \in 1 .. m + 1 : q[i] = t
    BY DEF Permutes
  <1>3. \A i \in 1 .. m : e[i] = IF i = k THEN q[m + 1] ELSE q[i]
    OBVIOUS
  <1>4. ASSUME NEW i \in 1 .. m PROVE e[i] \in 1 .. m
    <2>1. i = k => k # m + 1 /\ q[m + 1] # m + 1
      BY <1>1, <1>2
    <2>2. i # k => q[i] # m + 1
      BY <1>1, <1>2
    <2> QED
      BY <1>1, <1>2, <1>3, <2>1, <2>2
  <1>5. ASSUME NEW i \in 1 .. m, NEW j \in 1 .. m, e[i] = e[j] PROVE i = j
    <2> HIDE DEF e
    <2> QED
      BY <1>1, <1>2, <1>3, <1>5
  <1>6. ASSUME NEW t \in 1 .. m PROVE \E i \in 1 .. m : e[i] = t
    <2>1. PICK i \in 1 .. m + 1 : q[i] = t
      BY <1>1, <1>2
    <2>2. i # k
      BY <1>1, <2>1
    <2>3. CASE i = m + 1
      <3>1. k \in 1 .. m /\ e[k] = t
        BY <1>1, <1>3, <2>1, <2>2, <2>3
      <3> QED
        BY <3>1
    <2>4. CASE i # m + 1
      <3>1. i \in 1 .. m /\ e[i] = t
        BY <1>1, <1>3, <2>1, <2>2, <2>4
      <3> QED
        BY <3>1
    <2> QED
      BY <2>3, <2>4
  <1>7. e \in [1 .. m -> 1 .. m]
    BY <1>4
  <1> QED
    BY <1>5, <1>6, <1>7 DEF Permutes

\* In whatever order they are taken, numbers have the same sum.
LEMMA SumInAnyOrder ==
  ASSUME NEW n \in Nat, NEW f \in [1 .. n -> Int], NEW p, Permutes(p, n)
  PROVE  SumOf(Permuted(f, p, n)) = SumOf(f)
  <1> DEFINE T == {m \in 0 .. n : \A q : Permutes(q, m) =>
                      SumOf(Permuted(f, q, m)) = SumOf(UpToPlace(f, m))}
  <1>1. 0 \in T
    <2> SUFFICES ASSUME NEW q PROVE SumOf(Permuted(f, q, 0)) = SumOf(UpToPlace(f, 0))
      OBVIOUS
    <2>1. Permuted(f, q, 0) \in [1 .. 0 -> Int] /\ UpToPlace(f, 0) \in [1 .. 0 -> Int]
      BY DEF Permuted, UpToPlace
    <2> QED
      BY <2>1, SumOfNothing
  <1>2. ASSUME NEW m \in 0 .. n - 1, m \in T PROVE m + 1 \in T
    <2> SUFFICES ASSUME NEW q, Permutes(q, m + 1)
                 PROVE  SumOf(Permuted(f, q, m + 1)) = SumOf(UpToPlace(f, m + 1))
      OBVIOUS
    <2>1. /\ m \in Nat /\ m + 1 \in 1 .. m + 1 /\ \A i \in 1 .. m + 1 : i \in 1 .. n
          /\ \A i \in 1 .. m : i \in 1 .. m + 1 /\ i \in 1 .. n
      OBVIOUS
    <2>2. PICK k \in 1 .. m + 1 : q[k] = m + 1
      BY <2>1 DEF Permutes
    <2> DEFINE e == [i \in 1 .. m |-> IF i = k THEN q[m + 1] ELSE q[i]]
               h == Permuted(f, q, m + 1)
               a == UpToPlace(h, m)
               b == Permuted(f, e, m)
    <2>3. Permutes(e, m)
      BY <2>1, <2>2, PermutesLess
    <2>4. SumOf(b) = SumOf(UpToPlace(f, m))
      <3> HIDE DEF e, b
      <3> QED
        BY <1>2, <2>3 DEF b
    <2>5. \A i \in 1 .. m + 1 : q[i] \in 1 .. n /\ f[q[i]] \in Int
      <3>1. \A i \in 1 .. m + 1 : q[i] \in 1 .. m + 1
        BY DEF Permutes
      <3> QED
        BY <2>1, <3>1
    <2>6. h \in [1 .. m + 1 -> Int] /\ \A i \in 1 .. m + 1 : h[i] = f[q[i]]
      BY <2>5 DEF Permuted
    <2>7. /\ a \in [1 .. m -> Int] /\ SumOf(a) \in Int /\ SumOf(h) = SumOf(a) + f[q[m + 1]]
          /\ \A i \in 1 .. m : a[i] = f[q[i]]
      <3>1. \A i \in 1 .. m : a[i] = h[i]
        BY DEF UpToPlace
      <3> HIDE DEF h
      <3>2. a \in [1 .. m -> Int] /\ SumOf(a) \in Int /\ SumOf(h) = SumOf(a) + h[m + 1]
        BY <2>1, <2>6, SumOfMore
      <3> HIDE DEF a
      <3> QED
        BY <2>1, <2>6, <3>1, <3>2
    <2>8. /\ b \in [1 .. m -> Int]
          /\ \A i \in 1 .. m : b[i] = IF i = k THEN f[q[m + 1]] ELSE f[q[i]]
      <3>1. \A i \in 1 .. m : b[i] = IF i = k THEN f[q[m + 1]] ELSE f[q[i]]
        BY DEF Permuted
      <3>2. \A i \in 1 .. m : b[i] \in Int
        BY <2>1, <2>5, <3>1
      <3>3. b = [i \in 1 .. m |-> b[i]]
        BY DEF Permuted
      <3> HIDE DEF b
      <3> QED
        BY <3>1, <3>2, <3>3
    <2>9. /\ SumOf(UpToPlace(f, m + 1)) = SumOf(UpToPlace(f, m)) + f[m + 1]
          /\ SumOf(UpToPlace(f, m)) \in Int /\ f[m + 1] \in Int
      <3> DEFINE g == UpToPlace(f, m + 1)
      <3>1. g \in [1 .. m + 1 -> Int] /\ g[m + 1] = f[m + 1] /\ UpToPlace(g, m) = UpToPlace(f, m)
        BY <2>1 DEF UpToPlace
      <3> HIDE DEF g
      <3>2. SumOf(g) = SumOf(UpToPlace(g, m)) + g[m + 1] /\ SumOf(UpToPlace(g, m)) \in Int
        BY <2>1, <3>1, SumOfMore
      <3>3. f[m + 1] \in Int
        BY <2>1
      <3> QED
        BY <3>1, <3>2, <3>3 DEF g
    <2> HIDE DEF h, e, a, b
    <2>10. CASE k = m + 1
      <3>1. \A i \in 1 .. m : a[i] = b[i]
        BY <2>7, <2>8, <2>10, <2>1
      <3>2. a = b
        BY <2>7, <2>8, <3>1
      <3> QED
        BY <2>2, <2>4, <2>7, <2>9, <2>10, <3>2 DEF h
    <2>11. CASE k # m + 1
      <3>1. k \in 1 .. m /\ a[k] = f[m + 1] /\ b[k] = f[q[m + 1]]
        <4>1. k \in 1 .. m
          BY <2>11
        <4>2. a[k] = f[q[k]]
          BY <2>7, <4>1
        <4> QED
          BY <2>2, <2>8, <4>1, <4>2
      <3>2. \A i \in 1 .. m : i # k => a[i] = b[i]
        BY <2>7, <2>8
      <3>3. SumOf(a) = SumOf(b) + f[m + 1] - f[q[m + 1]]
        BY <2>1, <2>7, <2>8, <3>1, <3>2, SumOfChanged
      <3>4. f[q[m + 1]] \in Int
        BY <2>1, <2>5
      <3>5. SumOf(h) = SumOf(b) + f[m + 1]
        BY <2>4, <2>7, <2>9, <3>3, <3>4
      <3> QED
        BY <2>4, <2>9, <3>5 DEF h
    <2> QED
      BY <2>10, <2>11
  <1> HIDE DEF T
  <1>3. \A m \in 0 .. n : m \in T
    BY <1>1, <1>2, InductionTo
  <1>4. n \in T
    BY <1>3
  <1>5. UpToPlace(f, n) = f
    BY DEF UpToPlace
  <1> QED
    BY <1>4, <1>5 DEF T
-------------------------------------------------------------------------------
(* Squared differences of places.                                          *)

\* How far q moves each number; how far it is from turning their order round; and the
\* distances from the middle.
Apart(q, n) == [i \in 1 .. n |-> (i - q[i]) * (i - q[i])]
Away(q, n) == [i \in 1 .. n |-> (i + q[i] - (n + 1)) * (i + q[i] - (n + 1))]
Around(n) == [i \in 1 .. n |-> (2 * i - (n + 1)) * (2 * i - (n + 1))]

\* A square is not negative, and 0 only if the number is.
LEMMA Square ==
  ASSUME NEW a \in Int
  PROVE  a * a \in Int /\ a * a >= 0 /\ (a * a <= 0 => a = 0)
  <1>1. CASE a = 0
    BY <1>1
  <1>2. CASE a > 0
    <2>1. a * a > 0
      BY <1>2
    <2> QED
      BY <1>2, <2>1
  <1>3. CASE a < 0
    <2>1. a * a > 0
      BY <1>3
    <2> QED
      BY <1>3, <2>1
  <1> QED
    BY <1>1, <1>2, <1>3

\* The sum of the squared distances from the middle.
LEMMA SumAround ==
  ASSUME NEW n \in Nat
  PROVE  /\ Around(n) \in [1 .. n -> Int] /\ SumOf(Around(n)) \in Int
         /\ 3 * SumOf(Around(n)) = n * (n * n - 1)
  <1> DEFINE c == n + 1
             f == Around(n)
             Is3(m) == 2 * m * (m + 1) * (2 * m + 1) - 6 * c * m * (m + 1) + 3 * m * c * c
  <1>1. f \in [1 .. n -> Int] /\ \A i \in 1 .. n : f[i] = (2 * i - c) * (2 * i - c)
    BY DEF Around
  <1> HIDE DEF f
  <1>2. PICK s : AddsUp(s, f, n) /\ SumOf(f) = s[n]
    BY <1>1, SumAddsUp
  <1>3. \A m, d \in Int :
           2 * (m + 1) * ((m + 1) + 1) * (2 * (m + 1) + 1) - 6 * d * (m + 1) * ((m + 1) + 1)
             + 3 * (m + 1) * d * d
           = 2 * m * (m + 1) * (2 * m + 1) - 6 * d * m * (m + 1) + 3 * m * d * d
             + 3 * ((2 * (m + 1) - d) * (2 * (m + 1) - d))
    OBVIOUS
  <1> DEFINE T == {m \in 0 .. n : 3 * s[m] = Is3(m)}
  <1>4. 0 \in T
    BY <1>2 DEF AddsUp
  <1>5. ASSUME NEW m \in 0 .. n - 1, m \in T PROVE m + 1 \in T
    <2>1. /\ s[m] \in Int /\ f[m + 1] \in Int /\ m + 1 \in 1 .. n
          /\ s[m + 1] = s[m] + f[m + 1]
      BY <1>1, <1>2, NextSum
    <2>2. f[m + 1] = (2 * (m + 1) - c) * (2 * (m + 1) - c)
      BY <1>1, <2>1
    <2>3. 3 * s[m + 1] = 3 * s[m] + 3 * f[m + 1]
      BY <2>1
    <2>4. 3 * s[m] = Is3(m)
      BY <1>5
    <2>5. m \in Int /\ c \in Int
      OBVIOUS
    <2>6. Is3(m + 1) = Is3(m) + 3 * ((2 * (m + 1) - c) * (2 * (m + 1) - c))
      <3> HIDE DEF c
      <3> QED
        BY <1>3, <2>5
    <2>7. 3 * s[m + 1] = Is3(m + 1)
      <3> HIDE DEF Is3, c
      <3> QED
        BY <2>2, <2>3, <2>4, <2>6
    <2>8. m + 1 \in 0 .. n
      OBVIOUS
    <2> HIDE DEF Is3
    <2> QED
      BY <2>7, <2>8
  <1> HIDE DEF T
  <1>6. \A m \in 0 .. n : m \in T
    BY <1>4, <1>5, InductionTo
  <1>7. n \in T
    BY <1>6
  <1>8. 3 * s[n] = Is3(n)
    BY <1>7 DEF T
  <1>9. Is3(n) = n * (n * n - 1)
    OBVIOUS
  <1>10. s[n] \in Int
    BY <1>2 DEF AddsUp
  <1> HIDE DEF Is3
  <1> QED
    BY <1>1, <1>2, <1>8, <1>9, <1>10 DEF f

\* They are lists of numbers, and none is negative.
LEMMA SquaresTypes ==
  ASSUME NEW n \in Nat, NEW q, Permutes(q, n)
  PROVE  /\ Apart(q, n) \in [1 .. n -> Int] /\ Away(q, n) \in [1 .. n -> Int]
         /\ \A i \in 1 .. n :
               /\ q[i] \in 1 .. n
               /\ Apart(q, n)[i] = (i - q[i]) * (i - q[i]) /\ Apart(q, n)[i] >= 0
               /\ Apart(q, n)[i] <= 0 => q[i] = i
               /\ Away(q, n)[i] = (i + q[i] - (n + 1)) * (i + q[i] - (n + 1))
               /\ Away(q, n)[i] >= 0
               /\ Away(q, n)[i] <= 0 => q[i] = n + 1 - i
  <1>1. \A i \in 1 .. n : q[i] \in 1 .. n
    BY DEF Permutes
  <1>2. ASSUME NEW i \in 1 .. n
        PROVE  LET a == i - q[i]
                   w == i + q[i] - (n + 1)
               IN  /\ a * a \in Int /\ a * a >= 0 /\ (a * a <= 0 => q[i] = i)
                   /\ w * w \in Int /\ w * w >= 0 /\ (w * w <= 0 => q[i] = n + 1 - i)
    <2> DEFINE a == i - q[i]
               w == i + q[i] - (n + 1)
    <2>1. q[i] \in Int /\ i \in Int /\ a \in Int /\ w \in Int
      BY <1>1
    <2>2. (a = 0 => q[i] = i) /\ (w = 0 => q[i] = n + 1 - i)
      BY <2>1
    <2> HIDE DEF a, w
    <2>3. /\ a * a \in Int /\ a * a >= 0 /\ (a * a <= 0 => a = 0)
          /\ w * w \in Int /\ w * w >= 0 /\ (w * w <= 0 => w = 0)
      BY <2>1, Square
    <2>4. /\ a * a \in Int /\ a * a >= 0 /\ (a * a <= 0 => q[i] = i)
          /\ w * w \in Int /\ w * w >= 0 /\ (w * w <= 0 => q[i] = n + 1 - i)
      BY <2>2, <2>3
    <2> QED
      BY <2>4 DEF a, w
  <1>3. /\ \A i \in 1 .. n : Apart(q, n)[i] = (i - q[i]) * (i - q[i])
        /\ \A i \in 1 .. n : Away(q, n)[i] = (i + q[i] - (n + 1)) * (i + q[i] - (n + 1))
    BY DEF Apart, Away
  <1>4. Apart(q, n) \in [1 .. n -> Int]
    <2>1. \A i \in 1 .. n : (i - q[i]) * (i - q[i]) \in Int
      BY <1>2, Zenon
    <2> QED
      BY <2>1 DEF Apart
  <1>5. Away(q, n) \in [1 .. n -> Int]
    <2>1. \A i \in 1 .. n : (i + q[i] - (n + 1)) * (i + q[i] - (n + 1)) \in Int
      BY <1>2, Zenon
    <2> QED
      BY <2>1 DEF Away
  <1> QED
    BY <1>1, <1>2, <1>3, <1>4, <1>5

\* Together they are fixed by the number of places: this is what bounds the sum of the
\* squared differences.
LEMMA ApartAndAway ==
  ASSUME NEW n \in Nat, NEW q, Permutes(q, n)
  PROVE  3 * SumOf(Apart(q, n)) + 3 * SumOf(Away(q, n)) = n * (n * n - 1)
  <1> DEFINE u == Around(n)
             v == Permuted(u, q, n)
             a == Apart(q, n)
             w == Away(q, n)
             aw == [i \in 1 .. n |-> a[i] + w[i]]
             twice == [i \in 1 .. n |-> aw[i] + aw[i]]
  <1>1. /\ u \in [1 .. n -> Int] /\ SumOf(u) \in Int /\ 3 * SumOf(u) = n * (n * n - 1)
        /\ \A i \in 1 .. n : u[i] = (2 * i - (n + 1)) * (2 * i - (n + 1))
    BY SumAround DEF Around
  <1>2. /\ a \in [1 .. n -> Int] /\ w \in [1 .. n -> Int]
        /\ \A i \in 1 .. n : /\ q[i] \in 1 .. n
                             /\ a[i] = (i - q[i]) * (i - q[i])
                             /\ w[i] = (i + q[i] - (n + 1)) * (i + q[i] - (n + 1))
    BY SquaresTypes
  <1> HIDE DEF u, a, w
  <1>3. v \in [1 .. n -> Int] /\ \A i \in 1 .. n : v[i] = u[q[i]]
    BY <1>1, <1>2 DEF Permuted
  <1>4. SumOf(v) = SumOf(u)
    BY <1>1, SumInAnyOrder
  <1>5. /\ aw \in [1 .. n -> Int] /\ \A i \in 1 .. n : aw[i] = a[i] + w[i]
        /\ twice \in [1 .. n -> Int] /\ \A i \in 1 .. n : twice[i] = aw[i] + aw[i]
    BY <1>2
  <1>6. ASSUME NEW i \in 1 .. n PROVE twice[i] = u[i] + v[i]
    <2>1. \A x, y, c \in Int :
             ((x - y) * (x - y) + (x + y - c) * (x + y - c))
               + ((x - y) * (x - y) + (x + y - c) * (x + y - c))
             = (2 * x - c) * (2 * x - c) + (2 * y - c) * (2 * y - c)
      OBVIOUS
    <2>2. i \in Int /\ q[i] \in Int /\ n + 1 \in Int
      BY <1>2
    <2>3. v[i] = (2 * q[i] - (n + 1)) * (2 * q[i] - (n + 1))
      BY <1>1, <1>2, <1>3
    <2>4. twice[i] = (a[i] + w[i]) + (a[i] + w[i])
      BY <1>5
    <2> HIDE DEF aw, twice, v
    <2>5. ((i - q[i]) * (i - q[i]) + (i + q[i] - (n + 1)) * (i + q[i] - (n + 1)))
            + ((i - q[i]) * (i - q[i]) + (i + q[i] - (n + 1)) * (i + q[i] - (n + 1)))
          = (2 * i - (n + 1)) * (2 * i - (n + 1)) + (2 * q[i] - (n + 1)) * (2 * q[i] - (n + 1))
      BY <2>1, <2>2
    <2>6. u[i] = (2 * i - (n + 1)) * (2 * i - (n + 1))
      BY <1>1
    <2>7. /\ a[i] = (i - q[i]) * (i - q[i])
          /\ w[i] = (i + q[i] - (n + 1)) * (i + q[i] - (n + 1))
      BY <1>2
    <2> QED
      BY <2>3, <2>4, <2>5, <2>6, <2>7, Zenon
  <1> HIDE DEF aw, twice, v
  <1>7. SumOf(twice) = SumOf(u) + SumOf(v)
    BY <1>1, <1>3, <1>5, <1>6, SumOfSums
  <1>8. SumOf(twice) = SumOf(aw) + SumOf(aw)
    BY <1>5, SumOfSums
  <1>9. SumOf(aw) = SumOf(a) + SumOf(w)
    BY <1>2, <1>5, SumOfSums
  <1>10. SumOf(a) \in Int /\ SumOf(w) \in Int /\ SumOf(aw) \in Int
    BY <1>2, <1>5, SumType
  <1>11. SumOf(a) + SumOf(w) = SumOf(u)
    BY <1>1, <1>4, <1>7, <1>8, <1>9, <1>10
  <1>12. 3 * SumOf(a) + 3 * SumOf(w) = 3 * SumOf(u)
    BY <1>1, <1>10, <1>11
  <1> QED
    BY <1>1, <1>12 DEF a, w

\* A sum of nothing but 0 is 0.
LEMMA SumOfZeros ==
  ASSUME NEW n \in Nat, NEW f \in [1 .. n -> Int], \A i \in 1 .. n : f[i] = 0
  PROVE  SumOf(f) = 0
  <1>1. SumOf(f) = SumOf(f) + SumOf(f)
    BY SumOfSums
  <1>2. SumOf(f) \in Int
    BY SumType
  <1> QED
    BY <1>1, <1>2

\* The squared differences are least, 0, where nothing moves, and greatest where the order
\* is turned round.
LEMMA SquaresBounded ==
  ASSUME NEW n \in Nat, NEW q, Permutes(q, n)
  PROVE  /\ SumOf(Apart(q, n)) \in Int
         /\ 0 <= SumOf(Apart(q, n)) /\ 3 * SumOf(Apart(q, n)) <= n * (n * n - 1)
         /\ SumOf(Apart(q, n)) = 0 <=> \A i \in 1 .. n : q[i] = i
         /\ 3 * SumOf(Apart(q, n)) = n * (n * n - 1) <=> \A i \in 1 .. n : q[i] = n + 1 - i
  <1> DEFINE a == Apart(q, n)
             w == Away(q, n)
  <1>1. /\ a \in [1 .. n -> Int] /\ w \in [1 .. n -> Int]
        /\ \A i \in 1 .. n : /\ q[i] \in 1 .. n
                             /\ a[i] = (i - q[i]) * (i - q[i]) /\ a[i] >= 0
                             /\ a[i] <= 0 => q[i] = i
                             /\ w[i] = (i + q[i] - (n + 1)) * (i + q[i] - (n + 1))
                             /\ w[i] >= 0 /\ (w[i] <= 0 => q[i] = n + 1 - i)
    BY SquaresTypes
  <1>2. 3 * SumOf(a) + 3 * SumOf(w) = n * (n * n - 1)
    BY ApartAndAway
  <1> HIDE DEF a, w
  <1>3. /\ SumOf(a) >= 0 /\ \A i \in 1 .. n : a[i] <= SumOf(a)
        /\ SumOf(w) >= 0 /\ \A i \in 1 .. n : w[i] <= SumOf(w)
    BY <1>1, SumCovers
  <1>4. SumOf(a) \in Int /\ SumOf(w) \in Int
    BY <1>1, SumType
  <1>5. SumOf(a) = 0 <=> \A i \in 1 .. n : q[i] = i
    <2>1. ASSUME SumOf(a) = 0, NEW i \in 1 .. n PROVE q[i] = i
      BY <1>1, <1>3, <2>1
    <2>2. ASSUME \A i \in 1 .. n : q[i] = i PROVE SumOf(a) = 0
      <3>1. \A i \in 1 .. n : a[i] = 0
        <4> SUFFICES ASSUME NEW i \in 1 .. n PROVE a[i] = 0
          OBVIOUS
        <4>1. i - q[i] = 0
          BY <2>2
        <4>2. a[i] = 0 * 0
          BY <1>1, <4>1
        <4> QED
          BY <4>2
      <3> QED
        BY <1>1, <3>1, SumOfZeros
    <2> QED
      BY <2>1, <2>2
  <1>6. SumOf(w) = 0 <=> \A i \in 1 .. n : q[i] = n + 1 - i
    <2>1. ASSUME SumOf(w) = 0, NEW i \in 1 .. n PROVE q[i] = n + 1 - i
      BY <1>1, <1>3, <2>1
    <2>2. ASSUME \A i \in 1 .. n : q[i] = n + 1 - i PROVE SumOf(w) = 0
      <3>1. \A i \in 1 .. n : w[i] = 0
        <4> SUFFICES ASSUME NEW i \in 1 .. n PROVE w[i] = 0
          OBVIOUS
        <4>1. i + q[i] - (n + 1) = 0
          BY <2>2
        <4>2. w[i] = 0 * 0
          BY <1>1, <4>1
        <4> QED
          BY <4>2
      <3> QED
        BY <1>1, <3>1, SumOfZeros
    <2> QED
      BY <2>1, <2>2
  <1>7. n * (n * n - 1) \in Int
    OBVIOUS
  <1>8. /\ 0 <= SumOf(a) /\ 3 * SumOf(a) <= n * (n * n - 1)
        /\ 3 * SumOf(a) = n * (n * n - 1) <=> SumOf(w) = 0
    BY <1>2, <1>3, <1>4, <1>7
  <1> QED
    BY <1>4, <1>5, <1>6, <1>8 DEF a

\* p puts back what q moves.
PutsBack(p, q, n) == \A i \in 1 .. n : p[q[i]] = i

\* Moving there and moving back are as far.
LEMMA SquaresSymmetric ==
  ASSUME NEW n \in Nat, NEW q, Permutes(q, n), NEW p, Permutes(p, n), PutsBack(p, q, n)
  PROVE  SumOf(Apart(q, n)) = SumOf(Apart(p, n))
  <1> DEFINE a == Apart(q, n)
             b == Apart(p, n)
  <1>1. /\ a \in [1 .. n -> Int] /\ b \in [1 .. n -> Int]
        /\ \A i \in 1 .. n : q[i] \in 1 .. n /\ a[i] = (i - q[i]) * (i - q[i])
        /\ \A i \in 1 .. n : b[i] = (i - p[i]) * (i - p[i])
    BY SquaresTypes
  <1> HIDE DEF a, b
  <1>2. ASSUME NEW i \in 1 .. n PROVE b[q[i]] = a[i]
    <2>1. b[q[i]] = (q[i] - i) * (q[i] - i)
      BY <1>1 DEF PutsBack
    <2>2. \A x, y \in Int : (x - y) * (x - y) = (y - x) * (y - x)
      OBVIOUS
    <2>3. q[i] \in Int /\ i \in Int
      BY <1>1
    <2> QED
      BY <1>1, <2>1, <2>2, <2>3
  <1>3. Permuted(b, q, n) = a
    BY <1>1, <1>2 DEF Permuted
  <1>4. SumOf(Permuted(b, q, n)) = SumOf(b)
    BY <1>1, SumInAnyOrder
  <1> QED
    BY <1>3, <1>4 DEF a, b
-------------------------------------------------------------------------------
(* Pairs in order.                                                         *)

\* The pairs of numbers up to n, and those that q leaves in order.
Pairs(n) == {x \in (1 .. n) \X (1 .. n) : x[1] < x[2]}
Kept(q, n) == {x \in (1 .. n) \X (1 .. n) : x[1] < x[2] /\ q[x[1]] < q[x[2]]}

\* There are as many pairs as ranking_parity counts.
LEMMA PairsCounted ==
  ASSUME NEW n \in Nat
  PROVE  IsFiniteSet(Pairs(n)) /\ Cardinality(Pairs(n)) = (n * (n - 1)) \div 2
  <1> DEFINE T == {m \in 0 .. n : /\ IsFiniteSet(Pairs(m))
                                  /\ 2 * Cardinality(Pairs(m)) = m * (m - 1)}
  <1>1. 0 \in T
    <2>1. Pairs(0) = {}
      BY DEF Pairs
    <2> QED
      BY <2>1, FS_EmptySet
  <1>2. ASSUME NEW m \in 0 .. n - 1, m \in T PROVE m + 1 \in T
    <2> DEFINE New == {<<i, m + 1>> : i \in 1 .. m}
               f == [i \in 1 .. m |-> <<i, m + 1>>]
    <2>1. m \in Nat
      OBVIOUS
    <2>2. IsFiniteSet(New) /\ Cardinality(New) = m
      <3>1. f \in Bijection(1 .. m, New)
        <4>1. f \in [1 .. m -> New] /\ \A x \in New : \E i \in 1 .. m : f[i] = x
          OBVIOUS
        <4>2. \A i, j \in 1 .. m : f[i] = f[j] => i = j
          OBVIOUS
        <4> HIDE DEF f, New
        <4> QED
          BY <4>1, <4>2 DEF Bijection, Injection, IsInjective, Surjection
      <3> HIDE DEF f, New
      <3> QED
        BY <2>1, <3>1, Counted
    <2>3. Pairs(m + 1) = Pairs(m) \cup New
      <3>1. ASSUME NEW x \in Pairs(m + 1) PROVE x \in Pairs(m) \cup New
        <4>1. PICK i \in 1 .. m + 1, j \in 1 .. m + 1 : x = <<i, j>> /\ i < j
          BY DEF Pairs
        <4>2. i \in 1 .. m /\ (j = m + 1 \/ j \in 1 .. m)
          BY <2>1, <4>1
        <4> QED
          BY <4>1, <4>2 DEF Pairs
      <3>2. ASSUME NEW x \in Pairs(m) PROVE x \in Pairs(m + 1)
        <4>1. PICK i \in 1 .. m, j \in 1 .. m : x = <<i, j>> /\ i < j
          BY DEF Pairs
        <4>2. i \in 1 .. m + 1 /\ j \in 1 .. m + 1
          BY <2>1
        <4> QED
          BY <4>1, <4>2 DEF Pairs
      <3>3. ASSUME NEW x \in New PROVE x \in Pairs(m + 1)
        <4>1. PICK i \in 1 .. m : x = <<i, m + 1>>
          OBVIOUS
        <4>2. i \in 1 .. m + 1 /\ m + 1 \in 1 .. m + 1 /\ i < m + 1
          BY <2>1
        <4> QED
          BY <4>1, <4>2 DEF Pairs
      <3> QED
        BY <3>1, <3>2, <3>3
    <2>4. Pairs(m) \cap New = {}
      <3> SUFFICES ASSUME NEW x \in Pairs(m), x \in New PROVE FALSE
        OBVIOUS
      <3>1. x[2] \in 1 .. m
        BY DEF Pairs
      <3>2. x[2] = m + 1
        OBVIOUS
      <3> QED
        BY <2>1, <3>1, <3>2
    <2>5. IsFiniteSet(Pairs(m)) /\ 2 * Cardinality(Pairs(m)) = m * (m - 1)
      BY <1>2
    <2> HIDE DEF New
    <2>6. /\ IsFiniteSet(Pairs(m + 1))
          /\ Cardinality(Pairs(m + 1)) = Cardinality(Pairs(m)) + m - 0
      BY <2>2, <2>3, <2>4, <2>5, FS_Union, FS_EmptySet
    <2>7. Cardinality(Pairs(m)) \in Nat
      BY <2>5, FS_CardinalityType
    <2>8. 2 * Cardinality(Pairs(m + 1)) = 2 * Cardinality(Pairs(m)) + 2 * m
      BY <2>1, <2>6, <2>7
    <2>9. m * (m - 1) + 2 * m = (m + 1) * ((m + 1) - 1)
      BY <2>1
    <2>10. m + 1 \in 0 .. n
      OBVIOUS
    <2> QED
      BY <2>5, <2>6, <2>8, <2>9, <2>10
  <1> HIDE DEF T
  <1>3. \A m \in 0 .. n : m \in T
    BY <1>1, <1>2, InductionTo
  <1>4. n \in T
    BY <1>3
  <1>5. IsFiniteSet(Pairs(n)) /\ 2 * Cardinality(Pairs(n)) = n * (n - 1)
    BY <1>4 DEF T
  <1>6. Cardinality(Pairs(n)) \in Nat
    BY <1>5, FS_CardinalityType
  <1>7. \A c \in Nat : (2 * c) \div 2 = c
    OBVIOUS
  <1> QED
    BY <1>5, <1>6, <1>7

\* Numbers that rise as fast as their places are their places.
LEMMA RisingIsSame ==
  ASSUME NEW n \in Nat, NEW q \in [1 .. n -> 1 .. n],
         \A i, j \in 1 .. n : i < j => q[i] < q[j]
  PROVE  \A i \in 1 .. n : q[i] = i
  <1> DEFINE T == {k \in 0 .. n : k # 0 => q[k] >= k}
             U == {k \in 0 .. n : k # n => q[n - k] <= n - k}
  <1>1. \A i \in 1 .. n : q[i] \in 1 .. n
    OBVIOUS
  <1>2. \A k \in 0 .. n : k \in T
    <2>1. 0 \in T
      OBVIOUS
    <2>2. ASSUME NEW k \in 0 .. n - 1, k \in T PROVE k + 1 \in T
      <3>1. k + 1 \in 1 .. n /\ q[k + 1] \in 1 .. n
        BY <1>1
      <3>2. CASE k = 0
        BY <3>1, <3>2
      <3>3. CASE k # 0
        <4>1. k \in 1 .. n /\ k < k + 1 /\ q[k] >= k
          BY <2>2, <3>3
        <4>2. q[k] < q[k + 1] /\ q[k] \in 1 .. n
          BY <1>1, <3>1, <4>1
        <4> QED
          BY <3>1, <4>1, <4>2
      <3> QED
        BY <3>2, <3>3
    <2> HIDE DEF T
    <2> QED
      BY <2>1, <2>2, InductionTo
  <1>3. \A k \in 0 .. n : k \in U
    <2>1. 0 \in U
      <3>1. n # 0 => q[n] \in 1 .. n
        BY <1>1
      <3>2. n - 0 = n
        OBVIOUS
      <3> QED
        BY <3>1, <3>2
    <2>2. ASSUME NEW k \in 0 .. n - 1, k \in U PROVE k + 1 \in U
      <3>1. k + 1 \in 0 .. n
        OBVIOUS
      <3>2. ASSUME k + 1 # n PROVE q[n - (k + 1)] <= n - (k + 1)
        <4>1. /\ n - (k + 1) \in 1 .. n /\ n - k \in 1 .. n /\ n - (k + 1) < n - k
              /\ q[n - k] <= n - k
          BY <2>2, <3>2
        <4>2. /\ q[n - (k + 1)] < q[n - k]
              /\ q[n - (k + 1)] \in 1 .. n /\ q[n - k] \in 1 .. n
          BY <1>1, <4>1
        <4> QED
          BY <4>1, <4>2
      <3> QED
        BY <3>1, <3>2
    <2> HIDE DEF U
    <2> QED
      BY <2>1, <2>2, InductionTo
  <1>4. ASSUME NEW i \in 1 .. n PROVE q[i] = i
    <2>1. q[i] >= i
      BY <1>2
    <2>2. n - i \in 0 .. n /\ n - i # n /\ n - (n - i) = i
      OBVIOUS
    <2>3. q[i] <= i
      BY <1>3, <2>2
    <2> QED
      BY <1>1, <2>1, <2>3
  <1> QED
    BY <1>4

\* All pairs stay in order where nothing moves, and none where the order is turned round.
LEMMA KeptBounded ==
  ASSUME NEW n \in Nat, NEW q, Permutes(q, n)
  PROVE  /\ Cardinality(Kept(q, n)) \in Nat /\ (n * (n - 1)) \div 2 \in Nat
         /\ Cardinality(Kept(q, n)) <= (n * (n - 1)) \div 2
         /\ Cardinality(Kept(q, n)) = (n * (n - 1)) \div 2 <=> \A i \in 1 .. n : q[i] = i
         /\ Cardinality(Kept(q, n)) = 0 <=> \A i \in 1 .. n : q[i] = n + 1 - i
  <1>1. IsFiniteSet(Pairs(n)) /\ Cardinality(Pairs(n)) = (n * (n - 1)) \div 2
    BY PairsCounted
  <1>2. Kept(q, n) \in SUBSET Pairs(n)
    BY DEF Kept, Pairs
  <1>3. /\ IsFiniteSet(Kept(q, n)) /\ Cardinality(Kept(q, n)) <= Cardinality(Pairs(n))
        /\ Cardinality(Pairs(n)) = Cardinality(Kept(q, n)) => Pairs(n) = Kept(q, n)
    BY <1>1, <1>2, FS_Subset
  <1>4. Cardinality(Kept(q, n)) \in Nat /\ Cardinality(Pairs(n)) \in Nat
    BY <1>1, <1>3, FS_CardinalityType
  <1>5. /\ q \in [1 .. n -> 1 .. n] /\ \A i \in 1 .. n : q[i] \in 1 .. n
        /\ \A i, j \in 1 .. n : q[i] = q[j] => i = j
    BY DEF Permutes
  <1>6. ASSUME NEW i \in 1 .. n, NEW j \in 1 .. n, i < j
        PROVE  <<i, j>> \in Pairs(n) /\ (<<i, j>> \in Kept(q, n) <=> q[i] < q[j])
    BY <1>6 DEF Pairs, Kept
  <1>7. ASSUME \A i \in 1 .. n : q[i] = i PROVE Pairs(n) = Kept(q, n)
    BY <1>7 DEF Pairs, Kept
  <1>8. ASSUME Pairs(n) = Kept(q, n) PROVE \A i \in 1 .. n : q[i] = i
    <2>1. \A i, j \in 1 .. n : i < j => q[i] < q[j]
      BY <1>6, <1>8
    <2> QED
      BY <1>5, <2>1, RisingIsSame
  <1>9. ASSUME \A i \in 1 .. n : q[i] = n + 1 - i PROVE Kept(q, n) = {}
    <2> SUFFICES ASSUME NEW x \in Kept(q, n) PROVE FALSE
      OBVIOUS
    <2>1. PICK i \in 1 .. n, j \in 1 .. n : i < j /\ q[i] < q[j]
      BY DEF Kept
    <2>2. q[i] = n + 1 - i /\ q[j] = n + 1 - j
      BY <1>9
    <2> QED
      BY <2>1, <2>2
  <1>10. ASSUME Kept(q, n) = {} PROVE \A i \in 1 .. n : q[i] = n + 1 - i
    <2> DEFINE t == [i \in 1 .. n |-> n + 1 - q[i]]
    <2>1. t \in [1 .. n -> 1 .. n]
      <3> SUFFICES ASSUME NEW i \in 1 .. n PROVE n + 1 - q[i] \in 1 .. n
        OBVIOUS
      <3>1. q[i] \in 1 .. n
        BY <1>5
      <3> QED
        BY <3>1
    <2>2. ASSUME NEW i \in 1 .. n, NEW j \in 1 .. n, i < j PROVE t[i] < t[j]
      <3>1. q[i] \in 1 .. n /\ q[j] \in 1 .. n /\ q[i] # q[j]
        BY <1>5, <2>2
      <3>2. ~(q[i] < q[j])
        BY <1>6, <1>10, <2>2
      <3>3. n + 1 - q[i] < n + 1 - q[j]
        BY <3>1, <3>2
      <3> QED
        BY <3>3
    <2>3. \A i \in 1 .. n : t[i] = n + 1 - q[i]
      OBVIOUS
    <2> HIDE DEF t
    <2>4. \A i \in 1 .. n : t[i] = i
      BY <2>1, <2>2, RisingIsSame
    <2>5. ASSUME NEW i \in 1 .. n PROVE q[i] = n + 1 - i
      <3>1. n + 1 - q[i] = i /\ q[i] \in 1 .. n
        BY <1>5, <2>3, <2>4
      <3> QED
        BY <3>1
    <2> QED
      BY <2>5
  <1>11. Cardinality(Kept(q, n)) = 0 <=> Kept(q, n) = {}
    BY <1>3, FS_EmptySet
  <1> QED
    BY <1>1, <1>3, <1>4, <1>7, <1>8, <1>9, <1>10, <1>11

\* The pairs left in order by moving there and by moving back are as many.
LEMMA KeptSymmetric ==
  ASSUME NEW n \in Nat, NEW q, Permutes(q, n), NEW p, Permutes(p, n),
         PutsBack(p, q, n), PutsBack(q, p, n)
  PROVE  Cardinality(Kept(q, n)) = Cardinality(Kept(p, n))
  <1> DEFINE f == [x \in Kept(q, n) |-> <<q[x[1]], q[x[2]]>>]
  <1>1. /\ \A i \in 1 .. n : q[i] \in 1 .. n /\ p[i] \in 1 .. n
        /\ \A i \in 1 .. n : p[q[i]] = i /\ q[p[i]] = i
    BY DEF Permutes, PutsBack
  <1>2. ASSUME NEW x \in Kept(q, n) PROVE f[x] \in Kept(p, n)
    <2>1. x[1] \in 1 .. n /\ x[2] \in 1 .. n /\ x[1] < x[2] /\ q[x[1]] < q[x[2]]
      BY DEF Kept
    <2>2. /\ q[x[1]] \in 1 .. n /\ q[x[2]] \in 1 .. n
          /\ p[q[x[1]]] < p[q[x[2]]]
      BY <1>1, <2>1
    <2>3. f[x] = <<q[x[1]], q[x[2]]>>
      OBVIOUS
    <2> QED
      BY <2>1, <2>2, <2>3 DEF Kept
  <1>3. ASSUME NEW x \in Kept(q, n), NEW y \in Kept(q, n), f[x] = f[y] PROVE x = y
    <2>1. /\ x[1] \in 1 .. n /\ x[2] \in 1 .. n /\ x = <<x[1], x[2]>>
          /\ y[1] \in 1 .. n /\ y[2] \in 1 .. n /\ y = <<y[1], y[2]>>
      BY DEF Kept
    <2>2. q[x[1]] = q[y[1]] /\ q[x[2]] = q[y[2]]
      BY <1>3
    <2>3. x[1] = y[1] /\ x[2] = y[2]
      BY <1>1, <2>1, <2>2
    <2> QED
      BY <2>1, <2>3
  <1>4. ASSUME NEW y \in Kept(p, n) PROVE \E x \in Kept(q, n) : f[x] = y
    <2>1. /\ y[1] \in 1 .. n /\ y[2] \in 1 .. n /\ y = <<y[1], y[2]>>
          /\ y[1] < y[2] /\ p[y[1]] < p[y[2]]
      BY DEF Kept
    <2> DEFINE x == <<p[y[1]], p[y[2]]>>
    <2>2. x[1] = p[y[1]] /\ x[2] = p[y[2]] /\ q[x[1]] = y[1] /\ q[x[2]] = y[2]
      BY <1>1, <2>1
    <2>3. x \in Kept(q, n)
      BY <1>1, <2>1, <2>2 DEF Kept
    <2>4. f[x] = y
      BY <2>1, <2>2, <2>3
    <2> QED
      BY <2>3, <2>4
  <1>5. f \in Bijection(Kept(q, n), Kept(p, n))
    <2>1. f \in [Kept(q, n) -> Kept(p, n)]
      <3>1. \A x \in Kept(q, n) : f[x] \in Kept(p, n)
        BY <1>2
      <3>2. f = [x \in Kept(q, n) |-> f[x]]
        OBVIOUS
      <3> HIDE DEF f
      <3> QED
        BY <3>1, <3>2
    <2> HIDE DEF f
    <2> QED
      BY <2>1, <1>3, <1>4 DEF Bijection, Injection, IsInjective, Surjection
  <1>6. IsFiniteSet(Kept(q, n))
    <2>1. Kept(q, n) \in SUBSET Pairs(n)
      BY DEF Kept, Pairs
    <2> QED
      BY <2>1, PairsCounted, FS_Subset
  <1>7. ExistsBijection(Kept(q, n), Kept(p, n))
    BY <1>5 DEF ExistsBijection
  <1> QED
    BY <1>6, <1>7, FS_Bijection
-------------------------------------------------------------------------------
(* Two rankings of the same documents.                                     *)

\* Lists of n documents, each of them once, the same in both.
SameDocuments(base, cand, n) ==
    /\ base \in [1 .. n -> Nat] /\ cand \in [1 .. n -> Nat]
    /\ \A i, j \in 1 .. n : base[i] = base[j] => i = j
    /\ \A i, j \in 1 .. n : cand[i] = cand[j] => i = j
    /\ \A i \in 1 .. n : \E j \in 1 .. n : cand[j] = base[i]
    /\ \A j \in 1 .. n : \E i \in 1 .. n : base[i] = cand[j]

\* Where cand has what base has in each place.
Places(base, cand, n) == [i \in 1 .. n |-> Position(cand, base[i])]

\* A document that is in a list once has one position in it.
LEMMA PositionFound ==
  ASSUME NEW n \in Nat, NEW list \in [1 .. n -> Nat],
         \A i, j \in 1 .. n : list[i] = list[j] => i = j, NEW k \in 1 .. n
  PROVE  Position(list, list[k]) = k
  <1>1. DOMAIN list = 1 .. n
    OBVIOUS
  <1>2. \A i \in 1 .. n : list[i] = list[k] => i = k
    OBVIOUS
  <1> DEFINE p == CHOOSE i \in 1 .. n : list[i] = list[k]
  <1>3. p \in 1 .. n /\ list[p] = list[k]
    OBVIOUS
  <1>4. Position(list, list[k]) = p
    BY <1>1 DEF Position
  <1> HIDE DEF p
  <1> QED
    BY <1>2, <1>3, <1>4

\* The places of the documents are a permutation, and going back is its inverse.
LEMMA PlacesPermute ==
  ASSUME NEW n \in Nat, NEW base, NEW cand, SameDocuments(base, cand, n)
  PROVE  /\ Permutes(Places(base, cand, n), n) /\ Permutes(Places(cand, base, n), n)
         /\ PutsBack(Places(cand, base, n), Places(base, cand, n), n)
         /\ PutsBack(Places(base, cand, n), Places(cand, base, n), n)
         /\ \A i \in 1 .. n : cand[Places(base, cand, n)[i]] = base[i]
  <1> DEFINE q == Places(base, cand, n)
             p == Places(cand, base, n)
  <1>1. /\ base \in [1 .. n -> Nat] /\ cand \in [1 .. n -> Nat]
        /\ \A i, j \in 1 .. n : base[i] = base[j] => i = j
        /\ \A i, j \in 1 .. n : cand[i] = cand[j] => i = j
        /\ \A i \in 1 .. n : \E j \in 1 .. n : cand[j] = base[i]
        /\ \A j \in 1 .. n : \E i \in 1 .. n : base[i] = cand[j]
    BY DEF SameDocuments
  <1>2. ASSUME NEW i \in 1 .. n PROVE q[i] \in 1 .. n /\ cand[q[i]] = base[i]
    <2>1. PICK j \in 1 .. n : cand[j] = base[i]
      BY <1>1
    <2>2. Position(cand, cand[j]) = j
      BY <1>1, PositionFound
    <2>3. q[i] = j
      BY <2>1, <2>2 DEF Places
    <2> QED
      BY <2>1, <2>3
  <1>3. ASSUME NEW i \in 1 .. n PROVE p[i] \in 1 .. n /\ base[p[i]] = cand[i]
    <2>1. PICK j \in 1 .. n : base[j] = cand[i]
      BY <1>1
    <2>2. Position(base, base[j]) = j
      BY <1>1, PositionFound
    <2>3. p[i] = j
      BY <2>1, <2>2 DEF Places
    <2> QED
      BY <2>1, <2>3
  <1>4. q = [i \in 1 .. n |-> q[i]] /\ p = [i \in 1 .. n |-> p[i]]
    BY DEF Places
  <1> HIDE DEF q, p
  <1>5. q \in [1 .. n -> 1 .. n] /\ p \in [1 .. n -> 1 .. n]
    BY <1>2, <1>3, <1>4
  <1>6. \A i \in 1 .. n : p[q[i]] = i /\ q[p[i]] = i
    <2> SUFFICES ASSUME NEW i \in 1 .. n PROVE p[q[i]] = i /\ q[p[i]] = i
      OBVIOUS
    <2>1. p[q[i]] \in 1 .. n /\ base[p[q[i]]] = cand[q[i]] /\ cand[q[i]] = base[i]
      BY <1>2, <1>3
    <2>2. q[p[i]] \in 1 .. n /\ cand[q[p[i]]] = base[p[i]] /\ base[p[i]] = cand[i]
      BY <1>2, <1>3
    <2>3. /\ \A a, b \in 1 .. n : base[a] = base[b] => a = b
          /\ \A a, b \in 1 .. n : cand[a] = cand[b] => a = b
      BY <1>1
    <2>4. base[p[q[i]]] = base[i] /\ cand[q[p[i]]] = cand[i]
      BY <2>1, <2>2
    <2>5. p[q[i]] = i
      BY <2>1, <2>3, <2>4
    <2>6. q[p[i]] = i
      BY <2>2, <2>3, <2>4
    <2> QED
      BY <2>5, <2>6
  <1>7. Permutes(q, n)
    <2>1. \A i, j \in 1 .. n : q[i] = q[j] => i = j
      BY <1>6
    <2>2. \A k \in 1 .. n : \E i \in 1 .. n : q[i] = k
      BY <1>3, <1>6
    <2> QED
      BY <1>5, <2>1, <2>2 DEF Permutes
  <1>8. Permutes(p, n)
    <2>1. \A i, j \in 1 .. n : p[i] = p[j] => i = j
      BY <1>6
    <2>2. \A k \in 1 .. n : \E i \in 1 .. n : p[i] = k
      BY <1>2, <1>6
    <2> QED
      BY <1>5, <2>1, <2>2 DEF Permutes
  <1> QED
    BY <1>2, <1>6, <1>7, <1>8 DEF q, p, PutsBack

\* What ranking_parity sums and counts is what the places say.
LEMMA ParityOfPlaces ==
  ASSUME NEW n \in Nat, NEW base, NEW cand, SameDocuments(base, cand, n)
  PROVE  /\ Squares(base, cand) = SumOf(Apart(Places(base, cand, n), n))
         /\ Ordered(base, cand) = Kept(Places(base, cand, n), n)
  <1> DEFINE q == Places(base, cand, n)
  <1>1. /\ base \in [1 .. n -> Nat] /\ DOMAIN base = 1 .. n
        /\ \A i, j \in 1 .. n : base[i] = base[j] => i = j
    BY DEF SameDocuments
  <1>2. \A i \in 1 .. n : Position(base, base[i]) = i
    BY <1>1, PositionFound
  <1>3. \A i \in 1 .. n : q[i] = Position(cand, base[i])
    BY DEF Places
  <1> HIDE DEF q
  <1>4. Ordered(base, cand) = Kept(q, n)
    BY <1>1, <1>3 DEF Ordered, Kept
  <1> DEFINE a == [i \in 1 .. n |-> (Position(base, base[i]) - Position(cand, base[i]))
                                    * (Position(base, base[i]) - Position(cand, base[i]))]
  <1>5. a = Apart(q, n)
    <2>1. \A i \in 1 .. n : (Position(base, base[i]) - Position(cand, base[i]))
                              * (Position(base, base[i]) - Position(cand, base[i]))
                            = (i - q[i]) * (i - q[i])
      BY <1>2, <1>3
    <2> QED
      BY <2>1 DEF Apart
  <1>6. Squares(base, cand) = SumOf(a)
    BY <1>1 DEF Squares
  <1> QED
    BY <1>4, <1>5, <1>6 DEF q

\* Nothing moves only between a ranking and itself, and the order is turned round only
\* between a ranking and its reverse.
LEMMA PlacesOfSameAndReverse ==
  ASSUME NEW n \in Nat, NEW base, NEW cand, SameDocuments(base, cand, n)
  PROVE  /\ (\A i \in 1 .. n : Places(base, cand, n)[i] = i) <=> cand = base
         /\ (\A i \in 1 .. n : Places(base, cand, n)[i] = n + 1 - i) <=> cand = Reverse(base)
  <1> DEFINE q == Places(base, cand, n)
  <1>1. /\ base \in [1 .. n -> Nat] /\ cand \in [1 .. n -> Nat] /\ Len(base) = n
        /\ \A i, j \in 1 .. n : cand[i] = cand[j] => i = j
    <2>1. /\ base \in [1 .. n -> Nat] /\ cand \in [1 .. n -> Nat]
          /\ \A i, j \in 1 .. n : cand[i] = cand[j] => i = j
      BY DEF SameDocuments
    <2>2. Len(base) = n
      BY <2>1
    <2> QED
      BY <2>1, <2>2
  <1>2. \A i \in 1 .. n : q[i] \in 1 .. n /\ cand[q[i]] = base[i]
    BY PlacesPermute DEF Permutes
  <1> HIDE DEF q
  <1>3. (\A i \in 1 .. n : q[i] = i) <=> cand = base
    <2>1. ASSUME \A i \in 1 .. n : q[i] = i PROVE cand = base
      <3>1. \A i \in 1 .. n : cand[i] = base[i]
        BY <1>2, <2>1
      <3> QED
        BY <1>1, <3>1
    <2>2. ASSUME cand = base, NEW i \in 1 .. n PROVE q[i] = i
      BY <1>1, <1>2, <2>2
    <2> QED
      BY <2>1, <2>2
  <1>4. \A i \in 1 .. n : n + 1 - i \in 1 .. n /\ n + 1 - (n + 1 - i) = i /\ (n - i) + 1 = n + 1 - i
    OBVIOUS
  <1> DEFINE turned == Reverse(base)
  <1>5. /\ turned = [i \in 1 .. n |-> base[n + 1 - i]]
        /\ \A i \in 1 .. n : turned[i] = base[n + 1 - i]
    BY <1>1, <1>4 DEF Reverse
  <1> HIDE DEF turned
  <1>6. (\A i \in 1 .. n : q[i] = n + 1 - i) <=> cand = turned
    <2>1. ASSUME \A i \in 1 .. n : q[i] = n + 1 - i PROVE cand = turned
      <3>1. ASSUME NEW i \in 1 .. n PROVE cand[i] = turned[i]
        <4>1. q[n + 1 - i] = i
          BY <1>4, <2>1
        <4>2. cand[i] = base[n + 1 - i]
          BY <1>2, <1>4, <4>1
        <4> QED
          BY <1>5, <4>2
      <3> QED
        BY <1>1, <1>5, <3>1
    <2>2. ASSUME cand = turned, NEW i \in 1 .. n PROVE q[i] = n + 1 - i
      <3>1. cand[n + 1 - i] = base[i]
        BY <1>4, <1>5, <2>2
      <3>2. cand[q[i]] = base[i] /\ q[i] \in 1 .. n /\ n + 1 - i \in 1 .. n
        BY <1>2, <1>4
      <3> QED
        BY <1>1, <3>1, <3>2
    <2> QED
      BY <2>1, <2>2
  <1> QED
    BY <1>3, <1>6 DEF q, turned

\* ranking_parity compares two lists exactly when they are rankings of the same documents.
Comparable(base, cand) ==
    Len(base) = Len(cand) /\ ToSet(base) = ToSet(cand) /\ Cardinality(ToSet(base)) = Len(base)

LEMMA ComparableIsSame ==
  ASSUME NEW b \in Nat, NEW c \in Nat, NEW base \in [1 .. b -> Nat], NEW cand \in [1 .. c -> Nat]
  PROVE  Comparable(base, cand) <=> b = c /\ SameDocuments(base, cand, b)
  <1> DEFINE S == ToSet(base)
             T == ToSet(cand)
  <1>1. Len(base) = b /\ Len(cand) = c
    OBVIOUS
  <1>2. /\ \A i \in 1 .. b : base[i] \in S
        /\ \A s \in S : \E i \in 1 .. b : base[i] = s
        /\ \A i \in 1 .. c : cand[i] \in T
        /\ \A s \in T : \E i \in 1 .. c : cand[i] = s
    BY DEF ToSet
  <1> HIDE DEF S, T
  <1>3. base \in Surjection(1 .. b, S) /\ cand \in Surjection(1 .. c, T)
    BY <1>2 DEF Surjection
  <1>4. IsFiniteSet(1 .. b) /\ Cardinality(1 .. b) = b
    BY FS_Interval
  <1>5. ASSUME b = c, S = T, Cardinality(S) = b PROVE SameDocuments(base, cand, b)
    <2>1. base \in Injection(1 .. b, S) /\ cand \in Injection(1 .. b, S)
      BY <1>3, <1>4, <1>5, FS_Surjection
    <2>2. /\ \A i, j \in 1 .. b : base[i] = base[j] => i = j
          /\ \A i, j \in 1 .. b : cand[i] = cand[j] => i = j
      BY <2>1 DEF Injection, IsInjective
    <2>3. \A i \in 1 .. b : \E j \in 1 .. b : cand[j] = base[i]
      BY <1>2, <1>5
    <2>4. \A j \in 1 .. b : \E i \in 1 .. b : base[i] = cand[j]
      BY <1>2, <1>5
    <2> QED
      BY <1>5, <2>2, <2>3, <2>4 DEF SameDocuments
  <1>6. ASSUME b = c, SameDocuments(base, cand, b) PROVE S = T /\ Cardinality(S) = b
    <2>1. /\ \A i, j \in 1 .. b : base[i] = base[j] => i = j
          /\ \A i \in 1 .. b : \E j \in 1 .. b : cand[j] = base[i]
          /\ \A j \in 1 .. b : \E i \in 1 .. b : base[i] = cand[j]
      BY <1>6 DEF SameDocuments
    <2>2. S = T
      <3>1. \A s \in S : s \in T
        BY <1>2, <1>6, <2>1
      <3>2. \A s \in T : s \in S
        BY <1>2, <1>6, <2>1
      <3> QED
        BY <3>1, <3>2
    <2>3. base \in Bijection(1 .. b, S)
      BY <1>3, <2>1 DEF Bijection, Injection, Surjection, IsInjective
    <2> QED
      BY <2>2, <2>3, Counted
  <1> QED
    BY <1>1, <1>5, <1>6 DEF Comparable, S, T

\* The denominators of the measures are positive where there is more than one document.
LEMMA Denominators ==
  ASSUME NEW n \in Nat, n >= 2
  PROVE  /\ n * (n * n - 1) \in Nat /\ n * (n * n - 1) > 0
         /\ (n * (n - 1)) \div 2 \in Nat /\ (n * (n - 1)) \div 2 > 0
  <1>1. \A a, b \in Nat : a > 0 /\ b > 0 => a * b \in Nat /\ a * b > 0 /\ a * b >= a
    OBVIOUS
  <1>2. n * n >= n /\ n * n \in Nat
    BY <1>1
  <1>3. n * n - 1 \in Nat /\ n * n - 1 > 0
    BY <1>2
  <1>4. n * (n * n - 1) \in Nat /\ n * (n * n - 1) > 0
    <2> DEFINE m == n * n - 1
    <2>1. m \in Nat /\ m > 0
      BY <1>3
    <2> HIDE DEF m
    <2>2. n * m \in Nat /\ n * m > 0
      BY <1>1, <2>1
    <2> QED
      BY <2>2 DEF m
  <1>5. n * (n - 1) \in Nat /\ n * (n - 1) >= n
    <2>1. n - 1 \in Nat /\ n - 1 > 0
      OBVIOUS
    <2> QED
      BY <1>1, <2>1
  <1>6. (n * (n - 1)) \div 2 \in Nat /\ (n * (n - 1)) \div 2 > 0
    <2> DEFINE m == n * (n - 1)
    <2>1. m \in Nat /\ m >= 2
      BY <1>5
    <2> HIDE DEF m
    <2>2. m \div 2 \in Nat /\ m \div 2 > 0
      BY <2>1
    <2> QED
      BY <2>2 DEF m
  <1> QED
    BY <1>4, <1>6

\* The measures, and the first places in common.
Spearman(base, cand, n) ==
    IF n < 2 THEN <<1, 1>> ELSE <<n * (n * n - 1) - 6 * Squares(base, cand), n * (n * n - 1)>>
Kendall(base, cand, n) ==
    IF n < 2 THEN <<1, 1>>
    ELSE <<2 * Cardinality(Ordered(base, cand)) - (n * (n - 1)) \div 2, (n * (n - 1)) \div 2>>
Overlap(base, cand, n) ==
    [k \in 1 .. n + 1 |-> <<Cardinality(Top(base, k) \cap Top(cand, k)), Least(k, n)>>]

\* What ranking_parity returns for rankings of the same documents.
LEMMA ParityIs ==
  ASSUME NEW n \in Nat, NEW base, NEW cand, Len(base) = n
  PROVE  /\ ~Comparable(base, cand) => Parity(base, cand) = Rejected
         /\ Comparable(base, cand) =>
               /\ Parity(base, cand) = [spearman |-> Spearman(base, cand, n),
                                        kendall |-> Kendall(base, cand, n),
                                        agrees |-> base[1] = cand[1],
                                        overlap |-> Overlap(base, cand, n)]
               /\ Parity(base, cand) # Rejected
  <1> DEFINE is == [spearman |-> Spearman(base, cand, n), kendall |-> Kendall(base, cand, n),
                    agrees |-> base[1] = cand[1], overlap |-> Overlap(base, cand, n)]
  <1>1. ~Comparable(base, cand) => Parity(base, cand) = Rejected
    BY Zenon DEF Comparable, Parity
  <1>2. Comparable(base, cand) => Parity(base, cand) = is
    BY Zenon DEF Comparable, Parity, Spearman, Kendall, Overlap
  <1>3. "spearman" \in DOMAIN is
    OBVIOUS
  <1> HIDE DEF is
  <1>4. is # Rejected
    <2>1. DOMAIN Rejected = {}
      BY DEF Rejected
    <2> QED
      BY <1>3, <2>1
  <1> QED
    BY <1>1, <1>2, <1>4 DEF is

\* The same measures either way.
LEMMA ParitySymmetric ==
  ASSUME NEW n \in Nat, NEW base, NEW cand, SameDocuments(base, cand, n),
         Len(base) = n, Len(cand) = n, Comparable(base, cand), Comparable(cand, base)
  PROVE  Parity(base, cand) = Parity(cand, base)
  <1> DEFINE q == Places(base, cand, n)
             p == Places(cand, base, n)
  <1>1. /\ Permutes(q, n) /\ Permutes(p, n) /\ PutsBack(p, q, n) /\ PutsBack(q, p, n)
    BY PlacesPermute
  <1>2. SameDocuments(cand, base, n)
    BY DEF SameDocuments
  <1>3. /\ Squares(base, cand) = SumOf(Apart(q, n)) /\ Ordered(base, cand) = Kept(q, n)
        /\ Squares(cand, base) = SumOf(Apart(p, n)) /\ Ordered(cand, base) = Kept(p, n)
    BY <1>2, ParityOfPlaces
  <1> HIDE DEF q, p
  <1>4. /\ Squares(base, cand) = Squares(cand, base)
        /\ Cardinality(Ordered(base, cand)) = Cardinality(Ordered(cand, base))
    BY <1>1, <1>3, SquaresSymmetric, KeptSymmetric
  <1>5. /\ Spearman(base, cand, n) = Spearman(cand, base, n)
        /\ Kendall(base, cand, n) = Kendall(cand, base, n)
    BY <1>4 DEF Spearman, Kendall
  <1>6. Overlap(base, cand, n) = Overlap(cand, base, n)
    <2>1. \A k \in 1 .. n + 1 : Top(base, k) \cap Top(cand, k) = Top(cand, k) \cap Top(base, k)
      OBVIOUS
    <2> QED
      BY <2>1 DEF Overlap
  <1>7. (base[1] = cand[1]) = (cand[1] = base[1])
    OBVIOUS
  <1>8. /\ Parity(base, cand) = [spearman |-> Spearman(base, cand, n),
                                 kendall |-> Kendall(base, cand, n),
                                 agrees |-> base[1] = cand[1],
                                 overlap |-> Overlap(base, cand, n)]
        /\ Parity(cand, base) = [spearman |-> Spearman(cand, base, n),
                                 kendall |-> Kendall(cand, base, n),
                                 agrees |-> cand[1] = base[1],
                                 overlap |-> Overlap(cand, base, n)]
    BY ParityIs
  <1> QED
    BY <1>5, <1>6, <1>7, <1>8, Zenon

\* A measure is 1 for the same ranking and only for it, -1 for the reverse of two or more and
\* only for it, and between them otherwise.
Measures(measure, base, cand) ==
    /\ -measure[2] <= measure[1] /\ measure[1] <= measure[2]
    /\ Is(measure, 1) <=> cand = base
    /\ Is(measure, -1) <=> cand = Reverse(base) /\ Len(cand) > 1

LEMMA OneDocument ==
  ASSUME NEW base, NEW cand, SameDocuments(base, cand, 1), Len(cand) = 1
  PROVE  Measures(<<1, 1>>, base, cand)
  <1>1. cand = base
    <2>1. /\ base \in [1 .. 1 -> Nat] /\ cand \in [1 .. 1 -> Nat]
          /\ \A i \in 1 .. 1 : \E j \in 1 .. 1 : cand[j] = base[i]
      BY DEF SameDocuments
    <2>2. 1 \in 1 .. 1 /\ \A j \in 1 .. 1 : j = 1
      OBVIOUS
    <2>3. cand[1] = base[1]
      BY <2>1, <2>2
    <2>4. \A i \in 1 .. 1 : cand[i] = base[i]
      BY <2>2, <2>3
    <2> QED
      BY <2>1, <2>4
  <1>2. Is(<<1, 1>>, 1) /\ ~Is(<<1, 1>>, -1)
    BY DEF Is
  <1>3. /\ -(<<1, 1>>[2]) <= <<1, 1>>[1] /\ <<1, 1>>[1] <= <<1, 1>>[2]
    OBVIOUS
  <1>4. ~(Len(cand) > 1)
    OBVIOUS
  <1> QED
    BY <1>1, <1>2, <1>3, <1>4, Zenon DEF Measures

LEMMA SpearmanMeasures ==
  ASSUME NEW n \in Nat \ {0}, NEW base, NEW cand, SameDocuments(base, cand, n), Len(cand) = n
  PROVE  Measures(Spearman(base, cand, n), base, cand)
  <1>1. CASE n = 1
    <2>1. Spearman(base, cand, n) = <<1, 1>>
      BY <1>1 DEF Spearman
    <2> QED
      BY <1>1, <2>1, OneDocument
  <1>2. CASE n >= 2
    <2> DEFINE q == Places(base, cand, n)
               s == Squares(base, cand)
               d == n * (n * n - 1)
               m == Spearman(base, cand, n)
    <2>1. Permutes(q, n)
      BY PlacesPermute
    <2>2. s = SumOf(Apart(q, n))
      BY ParityOfPlaces
    <2>3. /\ (\A i \in 1 .. n : q[i] = i) <=> cand = base
          /\ (\A i \in 1 .. n : q[i] = n + 1 - i) <=> cand = Reverse(base)
      BY PlacesOfSameAndReverse
    <2>4. d \in Nat /\ d > 0
      BY <1>2, Denominators
    <2> HIDE DEF q, s
    <2>5. /\ s \in Int /\ 0 <= s /\ 3 * s <= d
          /\ s = 0 <=> \A i \in 1 .. n : q[i] = i
          /\ 3 * s = d <=> \A i \in 1 .. n : q[i] = n + 1 - i
      BY <2>1, <2>2, SquaresBounded
    <2>6. m = <<d - 6 * s, d>>
      <3>1. ~(n < 2)
        BY <1>2
      <3> QED
        BY <3>1 DEF Spearman, s
    <2> HIDE DEF d, m
    <2>7. m[1] = d - 6 * s /\ m[2] = d
      BY <2>6
    <2>8. /\ -m[2] <= m[1] /\ m[1] <= m[2]
          /\ Is(m, 1) <=> s = 0
          /\ Is(m, -1) <=> 3 * s = d
      BY <2>4, <2>5, <2>7 DEF Is
    <2>9. Len(cand) > 1
      BY <1>2
    <2>10. Measures(m, base, cand)
      BY <2>3, <2>5, <2>8, <2>9, Zenon DEF Measures
    <2> QED
      BY <2>10 DEF m
  <1> QED
    BY <1>1, <1>2

LEMMA KendallMeasures ==
  ASSUME NEW n \in Nat \ {0}, NEW base, NEW cand, SameDocuments(base, cand, n), Len(cand) = n
  PROVE  Measures(Kendall(base, cand, n), base, cand)
  <1>1. CASE n = 1
    <2>1. Kendall(base, cand, n) = <<1, 1>>
      BY <1>1 DEF Kendall
    <2> QED
      BY <1>1, <2>1, OneDocument
  <1>2. CASE n >= 2
    <2> DEFINE q == Places(base, cand, n)
               s == Cardinality(Ordered(base, cand))
               d == (n * (n - 1)) \div 2
               m == Kendall(base, cand, n)
    <2>1. Permutes(q, n)
      BY PlacesPermute
    <2>2. s = Cardinality(Kept(q, n))
      BY ParityOfPlaces
    <2>3. /\ (\A i \in 1 .. n : q[i] = i) <=> cand = base
          /\ (\A i \in 1 .. n : q[i] = n + 1 - i) <=> cand = Reverse(base)
      BY PlacesOfSameAndReverse
    <2>4. d \in Nat /\ d > 0
      BY <1>2, Denominators
    <2> HIDE DEF q, s
    <2>5. /\ s \in Nat /\ s <= d
          /\ s = d <=> \A i \in 1 .. n : q[i] = i
          /\ s = 0 <=> \A i \in 1 .. n : q[i] = n + 1 - i
      BY <2>1, <2>2, KeptBounded
    <2>6. m = <<2 * s - d, d>>
      <3>1. ~(n < 2)
        BY <1>2
      <3> QED
        BY <3>1 DEF Kendall, s
    <2> HIDE DEF d, m
    <2>7. m[1] = 2 * s - d /\ m[2] = d
      BY <2>6
    <2>8. /\ -m[2] <= m[1] /\ m[1] <= m[2]
          /\ Is(m, 1) <=> s = d
          /\ Is(m, -1) <=> s = 0
      BY <2>4, <2>5, <2>7 DEF Is
    <2>9. Len(cand) > 1
      BY <1>2
    <2>10. Measures(m, base, cand)
      BY <2>3, <2>5, <2>8, <2>9, Zenon DEF Measures
    <2> QED
      BY <2>10 DEF m
  <1> QED
    BY <1>1, <1>2

\* The first places agree exactly if they have a document in common, and all places have all
\* documents in common.
LEMMA OverlapMeasures ==
  ASSUME NEW n \in Nat \ {0}, NEW base, NEW cand, Len(base) = n, Len(cand) = n,
         DOMAIN base = 1 .. n, DOMAIN cand = 1 .. n, Comparable(base, cand)
  PROVE  /\ base[1] = cand[1] <=> Is(Overlap(base, cand, n)[1], 1)
         /\ \A k \in DOMAIN Overlap(base, cand, n) :
               k >= n => Is(Overlap(base, cand, n)[k], 1)
  <1> DEFINE o == Overlap(base, cand, n)
  <1>1. /\ DOMAIN o = 1 .. n + 1
        /\ \A k \in 1 .. n + 1 :
              o[k] = <<Cardinality(Top(base, k) \cap Top(cand, k)), Least(k, n)>>
    BY DEF Overlap
  <1> HIDE DEF o
  <1>2. \A c, d \in Nat : Is(<<c, d>>, 1) <=> c = d
    BY DEF Is
  <1>3. base[1] = cand[1] <=> Is(o[1], 1)
    <2>1. Least(1, n) = 1 /\ 1 \in 1 .. n + 1
      BY DEF Least
    <2>2. Top(base, 1) = {base[1]} /\ Top(cand, 1) = {cand[1]}
      <3>1. Least(1, Len(base)) = 1 /\ Least(1, Len(cand)) = 1 /\ 1 .. 1 = {1}
        BY <2>1
      <3> QED
        BY <3>1 DEF Top
    <2> DEFINE S == Top(base, 1) \cap Top(cand, 1)
    <2>3. CASE base[1] = cand[1]
      <3>1. S = {base[1]}
        BY <2>2, <2>3
      <3>2. Cardinality(S) = 1
        BY <3>1, FS_Singleton
      <3>3. Is(<<1, 1>>, 1)
        BY <1>2
      <3> HIDE DEF S
      <3>4. o[1] = <<1, 1>>
        BY <1>1, <2>1, <3>2 DEF S
      <3> QED
        BY <2>3, <3>3, <3>4
    <2>4. CASE base[1] # cand[1]
      <3>1. S = {}
        BY <2>2, <2>4
      <3>2. Cardinality(S) = 0
        BY <3>1, FS_EmptySet
      <3>3. ~Is(<<0, 1>>, 1)
        BY <1>2
      <3> HIDE DEF S
      <3>4. o[1] = <<0, 1>>
        BY <1>1, <2>1, <3>2 DEF S
      <3> QED
        BY <2>4, <3>3, <3>4
    <2> QED
      BY <2>3, <2>4
  <1>4. ASSUME NEW k \in 1 .. n + 1, k >= n PROVE Is(o[k], 1)
    <2>1. Least(k, n) = n
      BY <1>4 DEF Least
    <2>2. Top(base, k) = ToSet(base) /\ Top(cand, k) = ToSet(cand)
      BY <2>1 DEF Top, ToSet
    <2>3. ToSet(base) = ToSet(cand) /\ Cardinality(ToSet(base)) = n
      BY DEF Comparable
    <2>4. Top(base, k) \cap Top(cand, k) = ToSet(base)
      BY <2>2, <2>3
    <2>5. o[k] = <<n, n>>
      BY <1>1, <2>1, <2>3, <2>4
    <2> QED
      BY <1>2, <2>5
  <1> QED
    BY <1>1, <1>3, <1>4 DEF o

\* What ranking_parity says of a ranking and another list.
MeasuresOrder(found, list, other) ==
    /\ found = Rejected =>
          ~\E p \in [DOMAIN list -> DOMAIN other] :
              /\ IsInjective(p) /\ Len(list) = Len(other)
              /\ \A i \in DOMAIN list : other[p[i]] = list[i]
    /\ found # Rejected =>
          /\ found = Parity(other, list)
          /\ Measures(found.spearman, list, other) /\ Measures(found.kendall, list, other)
          /\ found.agrees <=> Is(found.overlap[1], 1)
          /\ \A k \in DOMAIN found.overlap : k >= Len(other) => Is(found.overlap[k], 1)

LEMMA ParityMeasures ==
  ASSUME NEW t \in Nat, NEW c \in Nat \ {0}, NEW list \in [1 .. t -> Nat],
         NEW other \in [1 .. c -> Nat],
         \A i, j \in 1 .. t : list[i] = list[j] => i = j,
         NEW found, found = Parity(list, other)
  PROVE  MeasuresOrder(found, list, other)
  <1>1. /\ Len(list) = t /\ DOMAIN list = 1 .. t
        /\ Len(other) = c /\ DOMAIN other = 1 .. c
    OBVIOUS
  <1>2. Comparable(list, other) <=> t = c /\ SameDocuments(list, other, t)
    BY ComparableIsSame
  <1>3. ASSUME NEW p \in [1 .. t -> 1 .. c], IsInjective(p), t = c,
               \A i \in 1 .. t : other[p[i]] = list[i]
        PROVE  SameDocuments(list, other, t)
    <2>1. p \in Injection(1 .. t, 1 .. t)
      BY <1>3 DEF Injection, IsInjective
    <2>2. p \in Surjection(1 .. t, 1 .. t)
      BY <2>1, FS_Interval, FS_Injection
    <2>3. \A j \in 1 .. t : \E i \in 1 .. t : p[i] = j
      BY <2>2 DEF Surjection
    <2>4. \A j \in 1 .. t : \E i \in 1 .. t : list[i] = other[j]
      BY <1>3, <2>3
    <2>5. \A i \in 1 .. t : \E j \in 1 .. t : other[j] = list[i]
      BY <1>3
    <2>6. ASSUME NEW i \in 1 .. t, NEW j \in 1 .. t, other[i] = other[j] PROVE i = j
      <3>1. PICK a \in 1 .. t : p[a] = i
        BY <2>3
      <3>2. PICK e \in 1 .. t : p[e] = j
        BY <2>3
      <3>3. list[a] = other[i] /\ list[e] = other[j]
        BY <1>3, <3>1, <3>2
      <3> QED
        BY <2>6, <3>1, <3>2, <3>3
    <2> QED
      BY <1>3, <2>4, <2>5, <2>6 DEF SameDocuments
  <1>4. /\ ~Comparable(list, other) => found = Rejected
        /\ Comparable(list, other) =>
              /\ found = [spearman |-> Spearman(list, other, t),
                          kendall |-> Kendall(list, other, t),
                          agrees |-> list[1] = other[1],
                          overlap |-> Overlap(list, other, t)]
              /\ found # Rejected
    BY <1>1, ParityIs
  <1>5. ASSUME found = Rejected, NEW p \in [1 .. t -> 1 .. c], IsInjective(p), t = c,
               \A i \in 1 .. t : other[p[i]] = list[i]
        PROVE  FALSE
    BY <1>2, <1>3, <1>4, <1>5
  <1>6. ASSUME found # Rejected
        PROVE  /\ found = Parity(other, list)
               /\ Measures(found.spearman, list, other) /\ Measures(found.kendall, list, other)
               /\ found.agrees <=> Is(found.overlap[1], 1)
               /\ \A k \in DOMAIN found.overlap :
                     k >= c => Is(found.overlap[k], 1)
    <2>1. Comparable(list, other) /\ t = c /\ SameDocuments(list, other, t)
      BY <1>2, <1>4, <1>6
    <2>2. Comparable(other, list)
      BY <2>1 DEF Comparable
    <2>3. found = Parity(other, list)
      BY <1>1, <2>1, <2>2, ParitySymmetric
    <2>4. /\ found.spearman = Spearman(list, other, t) /\ found.kendall = Kendall(list, other, t)
          /\ found.overlap = Overlap(list, other, t)
      BY <1>4, <2>1
    <2>5. found.agrees <=> list[1] = other[1]
      <3> DEFINE same == list[1] = other[1]
                 sp == Spearman(list, other, t)
                 ke == Kendall(list, other, t)
                 ov == Overlap(list, other, t)
      <3>1. found = [spearman |-> sp, kendall |-> ke, agrees |-> same, overlap |-> ov]
        BY <1>4, <2>1
      <3> HIDE DEF same, sp, ke, ov
      <3>2. found.agrees = same
        BY <3>1
      <3>3. found.agrees <=> same
        BY <3>2
      <3> QED
        BY <3>3 DEF same
    <2>6. /\ Measures(Spearman(list, other, t), list, other)
          /\ Measures(Kendall(list, other, t), list, other)
      BY <1>1, <2>1, SpearmanMeasures, KendallMeasures
    <2>7. /\ list[1] = other[1] <=> Is(Overlap(list, other, t)[1], 1)
          /\ \A k \in DOMAIN Overlap(list, other, t) :
                k >= t => Is(Overlap(list, other, t)[k], 1)
      BY <1>1, <2>1, OverlapMeasures
    <2>8. found.agrees <=> Is(found.overlap[1], 1)
      BY <2>4, <2>5, <2>7, Zenon
    <2>9. \A k \in DOMAIN found.overlap : k >= c => Is(found.overlap[k], 1)
      BY <2>1, <2>4, <2>7
    <2> QED
      BY <2>3, <2>4, <2>6, <2>8, <2>9
  <1> QED
    BY <1>1, <1>5, <1>6 DEF MeasuresOrder
-------------------------------------------------------------------------------
(* The inductive invariant of Ranking.                                     *)

Decided == {"scored", "answered", "compared"}

\* A request has texts, the scores of a decided one are one for each, and an answer has no
\* document twice.
RankInv ==
    /\ stage \in {"received", "prepared", "refused", "failed"} \cup Decided
    /\ request.query \in Nat /\ \E n \in Nat \ {0} : request.texts \in [1 .. n -> Nat]
    /\ stage \in Decided => scores \in [Sent -> Scores]
    /\ stage \in {"answered", "compared"} =>
          \E t \in Nat : /\ results \in [1 .. t -> Sent]
                         /\ \A i, j \in 1 .. t : results[i] = results[j] => i = j

RankingInv == RankInv /\ LimitsKept /\ OwnScore /\ BestFirst /\ ParityMeasuresOrder

\* What the invariant says of a request that has just been received.
LEMMA RankingStart ==
  ASSUME Init
  PROVE  RankingInv
  <1> USE DEF Init
  <1>1. request.query \in Nat
    BY RankingAssumption
  <1>2. \E n \in Nat \ {0} : request.texts \in [1 .. n -> Nat]
    <2>1. PICK n \in 1 .. MaxSent : request.texts \in [1 .. n -> Lengths]
      BY DEF UpTo
    <2>2. n \in Nat \ {0} /\ Lengths \subseteq Nat
      BY RankingAssumption
    <2>3. request.texts \in [1 .. n -> Nat]
      BY <2>1, <2>2
    <2> QED
      BY <2>2, <2>3
  <1> QED
    BY <1>1, <1>2 DEF RankingInv, RankInv, Decided, LimitsKept, OwnScore,
                      BestFirst, ParityMeasuresOrder

\* A request within the limits is prepared, and any other is refused.
LEMMA ValidateKeeps ==
  ASSUME RankingInv, Validate
  PROVE  RankingInv'
  <1>1. /\ request' = request /\ stage' \in {"prepared", "refused"}
        /\ Sent' = Sent
    BY DEF Validate, Sent
  <1>2. /\ {MaxDocuments, MaxQuery, MaxDocument, MaxTotal} \subseteq Nat
    BY RankingAssumption
  <1>3. PICK n \in Nat \ {0} : request.texts \in [1 .. n -> Nat]
    BY DEF RankingInv, RankInv
  <1>4. request.query \in Nat /\ Len(request.texts) = n /\ Sent = 1 .. n
    BY <1>3 DEF RankingInv, RankInv, Sent
  <1> DEFINE query == Least(request.query, MaxQuery)
             texts == [i \in Sent |-> Least(request.texts[i], MaxDocument)]
             total == Total(query, texts)
  <1>5. /\ Cut.query = query /\ Cut.texts = texts
        /\ Cut.fits <=> \/ request.truncate
                               \/ /\ request.query <= MaxQuery
                                  /\ \A i \in 1 .. n : request.texts[i] <= MaxDocument
    BY <1>4, Zenon DEF Cut, Sent
  <1>6. query \in Nat /\ query <= MaxQuery /\ (request.query <= MaxQuery => query = request.query)
    BY <1>2, <1>4 DEF Least
  <1>7. /\ texts \in [1 .. n -> Nat]
        /\ \A i \in 1 .. n :
              /\ texts[i] <= MaxDocument
              /\ request.texts[i] <= MaxDocument => texts[i] = request.texts[i]
    <2>1. ASSUME NEW a \in Nat
          PROVE  /\ Least(a, MaxDocument) \in Nat
                 /\ Least(a, MaxDocument) <= MaxDocument
                 /\ a <= MaxDocument => Least(a, MaxDocument) = a
      BY <1>2 DEF Least
    <2>2. \A i \in 1 .. n : request.texts[i] \in Nat
      BY <1>3
    <2>3. \A i \in 1 .. n : texts[i] = Least(request.texts[i], MaxDocument)
      BY <1>4
    <2>4. texts \in [1 .. n -> Nat]
      BY <1>4, <2>1, <2>2
    <2> HIDE DEF texts
    <2>5. ASSUME NEW i \in 1 .. n
          PROVE  /\ texts[i] <= MaxDocument
                 /\ request.texts[i] <= MaxDocument => texts[i] = request.texts[i]
      BY <2>1, <2>2, <2>3
    <2> QED
      BY <2>4, <2>5
  <1>8. total \in Nat
    <2> HIDE DEF query, texts
    <2> QED
      BY <1>6, <1>7, TotalType
  <1>9. ASSUME \A i \in 1 .. n : request.texts[i] <= MaxDocument PROVE texts = request.texts
    <2>1. \A i \in 1 .. n : texts[i] = request.texts[i]
      BY <1>7, <1>9
    <2> HIDE DEF texts
    <2> QED
      BY <2>1, <1>3, <1>7
  <1> DEFINE accepted == n <= MaxDocuments /\ Cut.fits /\ total <= MaxTotal
  <1>10. /\ accepted => /\ stage' = "prepared"
                        /\ prepared' = [query |-> query, texts |-> texts]
         /\ ~accepted => stage' = "refused"
    <2> HIDE DEF query, texts
    <2> QED
      BY <1>4, <1>5 DEF Validate
  <1>11. CASE accepted
    <2>1. stage' = "prepared" /\ prepared'.query = query /\ prepared'.texts = texts
      <3> HIDE DEF query, texts, accepted
      <3> QED
        BY <1>10, <1>11
    <2>2. ~request.truncate => query = request.query /\ texts = request.texts
      <3> HIDE DEF query, texts
      <3> QED
        BY <1>5, <1>6, <1>9, <1>11
    <2>3. Len(texts) = n
      <3> HIDE DEF texts
      <3> QED
        BY <1>7
    <2>4. LimitsKept'
      <3> HIDE DEF query, texts
      <3> QED
        BY <1>1, <1>4, <1>6, <1>7, <1>11, <2>1, <2>2, <2>3 DEF LimitsKept
    <2> QED
      BY <1>1, <2>1, <2>4
         DEF RankingInv, RankInv, Decided, OwnScore,
             BestFirst, ParityMeasuresOrder
  <1>12. CASE ~accepted
    <2>1. stage' = "refused"
      BY <1>10, <1>12
    <2>2. \/ n > MaxDocuments
          \/ total > MaxTotal
          \/ ~Cut.fits
      <3> HIDE DEF total
      <3> QED
        BY <1>2, <1>8, <1>12
    <2>3. ~Cut.fits => ~request.truncate /\ (request.query > MaxQuery
                              \/ \E i \in 1 .. n : request.texts[i] > MaxDocument)
      BY <1>2, <1>3, <1>4, <1>5
    <2>4. LimitsKept'
      BY <1>1, <1>4, <2>1, <2>2, <2>3 DEF LimitsKept
    <2> QED
      BY <1>1, <2>1, <2>4
         DEF RankingInv, RankInv, Decided, OwnScore,
             BestFirst, ParityMeasuresOrder
  <1> QED
    BY <1>11, <1>12

\* A request that was accepted keeps what was prepared of it.
LEMMA LimitsStay ==
  ASSUME RankingInv, stage \notin {"received", "refused"},
         stage' \notin {"received", "refused"},
         UNCHANGED <<request, prepared>>
  PROVE  LimitsKept'
  BY DEF RankingInv, LimitsKept, Sent

\* Scores from the cache and from inference meet their documents.
LEMMA ScorePairsKeeps ==
  ASSUME RankingInv, ScorePairs
  PROVE  RankingInv'
  <1>1. PICK n \in Nat \ {0} : request.texts \in [1 .. n -> Nat]
    BY DEF RankingInv, RankInv
  <1>2. Sent = 1 .. n /\ Len(request.texts) = n
    BY <1>1 DEF Sent
  <1>3. /\ stage = "prepared" /\ stage' = "scored" /\ Sent' = Sent
        /\ UNCHANGED <<request, prepared>>
        /\ hits' \in SUBSET (1 .. n)
    BY <1>2 DEF ScorePairs, Sent
  <1> DEFINE misses == InOrder(Sent \ hits')
  <1>4. PICK of \in [1 .. n -> Scores] :
           /\ raw' = [i \in 1 .. n |-> [index |-> i - 1, score |-> of[i]]]
           /\ scores' = Merge([i \in hits' |-> of[i]],
                                         [k \in DOMAIN misses |-> of[misses[k]]])
    BY <1>2 DEF ScorePairs
  <1>5. scores' = of
    BY <1>1, <1>3, <1>4, MergeOwn
  <1>6. Len(raw') = n /\ \A i \in 1 .. n : raw'[i] = [index |-> i - 1, score |-> scores'[i]]
    <2>1. Len(raw') = n
      BY <1>4
    <2> QED
      BY <1>4, <1>5, <2>1
  <1>7. OwnScore'
    BY <1>2, <1>3, <1>6, <1>4 DEF OwnScore
  <1>8. LimitsKept'
    BY <1>3, LimitsStay
  <1> QED
    BY <1>2, <1>3, <1>5, <1>7, <1>8
       DEF RankingInv, RankInv, Decided,
           BestFirst, ParityMeasuresOrder

\* A listwise ranking is scattered to its documents, or fails.
LEMMA ScoreListKeeps ==
  ASSUME RankingInv, ScoreList
  PROVE  RankingInv'
  <1>1. PICK n \in Nat \ {0} : request.texts \in [1 .. n -> Nat]
    BY DEF RankingInv, RankInv
  <1>2. Sent = 1 .. n /\ Len(request.texts) = n
    BY <1>1 DEF Sent
  <1>3. /\ stage = "prepared" /\ stage' \in {"failed", "scored"}
        /\ Sent' = Sent /\ UNCHANGED <<request, prepared>>
        /\ raw' \in UpTo(MaxRanked, Entries)
        /\ scores' = Scatter(raw')
        /\ stage' = "failed" <=> \/ scores' = <<>>
                                     \/ \E i \in Sent : scores'[i] = None
    BY DEF ScoreList, Sent, Rejected
  <1>4. PICK m \in 1 .. MaxRanked : raw' \in [1 .. m -> Entries]
    BY <1>3 DEF UpTo
  <1>5. m \in Nat /\ Scores \subseteq Nat
    BY RankingAssumption
  <1>6. Placed(scores', raw', m)
    BY <1>1, <1>3, <1>4, <1>5, ScatterPlaces
  <1>7. DOMAIN raw' = 1 .. m /\ Len(raw') = m
    BY <1>4, <1>5
  <1>8. LimitsKept'
    BY <1>3, LimitsStay
  <1>9. CASE stage' = "scored"
    <2>1. /\ m = n /\ scores' \in [1 .. n -> Scores]
          /\ \A i \in 1 .. n : \E k \in 1 .. m :
                raw'[k] = [index |-> i - 1, score |-> scores'[i]]
      <3>1. scores' # <<>> /\ \A i \in Sent : scores'[i] # None
        BY <1>3, <1>9
      <3>2. Filled(scores')
        BY <3>1 DEF Filled
      <3>3. Complete(scores', raw', n, m)
        BY <1>1, <1>4, <1>5, <1>6, <3>2, FullList
      <3> QED
        BY <3>3 DEF Complete
    <2>2. OwnScore'
      BY <1>2, <1>3, <1>7, <1>9, <2>1 DEF OwnScore
    <2> QED
      BY <1>2, <1>3, <1>8, <1>9, <2>1, <2>2
         DEF RankingInv, RankInv, Decided,
             BestFirst, ParityMeasuresOrder
  <1>10. CASE stage' = "failed"
    <2>1. ASSUME NEW p \in [1 .. m -> 1 .. n], {p[k] : k \in 1 .. m} = 1 .. n, m = n,
                 \A k \in 1 .. m : /\ raw'[k].index = p[k] - 1
                                   /\ raw'[k].score # NotFinite
          PROVE  FALSE
      <3>1. p \in Surjection(1 .. n, 1 .. n)
        <4>1. \A t \in 1 .. n : t \in {p[k] : k \in 1 .. m}
          BY <2>1
        <4> QED
          BY <2>1, <4>1 DEF Surjection
      <3>2. scores' = <<>> \/ \E i \in Sent : scores'[i] = None
        BY <1>3, <1>10
      <3> QED
        BY <1>1, <1>4, <1>5, <1>6, <2>1, <3>1, <3>2, GapInList
    <2>2. OwnScore'
      BY <1>2, <1>3, <1>7, <1>10, <2>1 DEF OwnScore
    <2> QED
      BY <1>3, <1>8, <1>10, <2>2
         DEF RankingInv, RankInv, Decided,
             BestFirst, ParityMeasuresOrder
  <1> QED
    BY <1>3, <1>9, <1>10

\* The answer is the first of the sorted documents.
LEMMA RankKeeps ==
  ASSUME RankingInv, Rank
  PROVE  RankingInv'
  <1>1. PICK n \in Nat \ {0} : request.texts \in [1 .. n -> Nat]
    BY DEF RankingInv, RankInv
  <1>2. Sent = 1 .. n /\ Len(request.texts) = n
    BY <1>1 DEF Sent
  <1> DEFINE asked == IF top' = 0 THEN DefaultTop ELSE top'
             t == Least(asked, n)
  <1>3. scores \in [1 .. n -> Scores] /\ Scores \subseteq Nat
    BY <1>2, RankingAssumption DEF Rank, RankingInv, RankInv, Decided
  <1>4. scores \in [1 .. n -> Nat] /\ Len(scores) = n
    <2>1. \A i \in 1 .. n : scores[i] \in Nat
      BY <1>3
    <2> QED
      BY <1>3, <2>1
  <1>5. /\ stage = "scored" /\ stage' = "answered" /\ Sent' = Sent
        /\ UNCHANGED <<request, prepared, raw, scores>>
        /\ top' \in 0 .. MaxSent
        /\ results' = SubSeq(Sorted, 1, t)
    BY <1>4 DEF Rank, Sent
  <1>6. t \in 0 .. n
    BY <1>5, RankingAssumption DEF Least
  <1>7. SortedTo(Sorted, n)
    BY <1>4, SortedOrders
  <1>8. /\ Len(results') = t /\ results' \in [1 .. t -> 1 .. n]
        /\ \A i, j \in 1 .. t : results'[i] = results'[j] => i = j
        /\ \A i \in 1 .. t, d \in 1 .. n :
              (\A k \in 1 .. i : results'[k] # d) => Before(results'[i], d)
    <2>1. Best(results', t, n)
      <3> HIDE DEF t
      <3> QED
        BY <1>4, <1>5, <1>6, <1>7, FirstAreBest
    <2> QED
      BY <2>1 DEF Best
  <1>9. BestFirst'
    <2> HIDE DEF t
    <2>1. DOMAIN results' = 1 .. t
      BY <1>8
    <2>2. \A i \in 1 .. t, d \in 1 .. n :
             (\A k \in 1 .. i : results'[k] # d) =>
                \/ scores'[results'[i]] > scores'[d]
                \/ scores'[results'[i]] = scores'[d] /\ results'[i] < d
      BY <1>5, <1>8 DEF Before
    <2>3. Len(results') = Least(IF top' = 0 THEN DefaultTop ELSE top', Len(request.texts'))
      BY <1>2, <1>5, <1>8 DEF t
    <2> QED
      BY <1>2, <1>5, <2>1, <2>2, <2>3 DEF BestFirst
  <1>10. LimitsKept'
    BY <1>5, LimitsStay
  <1>11. OwnScore'
    BY <1>5 DEF OwnScore, RankingInv
  <1>12. /\ t \in Nat /\ results' \in [1 .. t -> Sent']
         /\ \A i, j \in 1 .. t : results'[i] = results'[j] => i = j
    <2> HIDE DEF t
    <2> QED
      BY <1>2, <1>5, <1>6, <1>8
  <1>13. RankInv'
    <2> HIDE DEF t
    <2> QED
      BY <1>2, <1>3, <1>5, <1>12 DEF RankingInv, RankInv, Decided
  <1>14. ParityMeasuresOrder'
    BY <1>5 DEF ParityMeasuresOrder
  <1> QED
    BY <1>9, <1>10, <1>11, <1>13, <1>14 DEF RankingInv

\* A comparison leaves the answer as it is, and its parity measures the order.
LEMMA CompareKeeps ==
  ASSUME RankingInv, Compare
  PROVE  RankingInv'
  <1>1. /\ stage = "answered" /\ stage' = "compared" /\ Sent' = Sent
        /\ UNCHANGED <<request, prepared, raw, scores, top, results>>
    BY DEF Compare, Sent
  <1>2. LimitsKept'
    BY <1>1, LimitsStay
  <1>3. OwnScore'
    BY <1>1 DEF OwnScore, RankingInv
  <1>4. BestFirst'
    BY <1>1 DEF BestFirst, RankingInv
  <1>5. RankInv'
    BY <1>1 DEF RankingInv, RankInv, Decided
  <1>6. PICK n \in Nat \ {0} : request.texts \in [1 .. n -> Nat]
    BY DEF RankingInv, RankInv
  <1>7. Sent = 1 .. n /\ Len(request.texts) = n
    BY <1>6 DEF Sent
  <1>8. PICK t \in Nat : /\ results \in [1 .. t -> Sent]
                         /\ \A i, j \in 1 .. t : results[i] = results[j] => i = j
    BY <1>1 DEF RankingInv, RankInv
  <1>9. PICK c \in 1 .. n : rival' \in [1 .. c -> 1 .. n]
    <2>1. rival' \in UpTo(n, 1 .. n)
      BY <1>7 DEF Compare
    <2> QED
      BY <2>1 DEF UpTo
  <1>10. /\ results' \in [1 .. t -> Nat] /\ rival' \in [1 .. c -> Nat] /\ c \in Nat \ {0}
         /\ \A i, j \in 1 .. t : results'[i] = results'[j] => i = j
         /\ parity' = Parity(results', rival')
    <2>1. 1 .. n \subseteq Nat
      OBVIOUS
    <2>2. results \in [1 .. t -> Nat]
      BY <1>7, <1>8, <2>1
    <2>3. rival' \in [1 .. c -> Nat]
      BY <1>9, <2>1
    <2>4. parity' = Parity(results', rival')
      BY <1>1 DEF Compare
    <2>5. c \in Nat \ {0}
      OBVIOUS
    <2> QED
      BY <1>1, <1>8, <2>2, <2>3, <2>4, <2>5
  <1>11. MeasuresOrder(parity', results', rival')
    BY <1>10, ParityMeasures
  <1>12. ParityMeasuresOrder'
    BY <1>11, Zenon DEF ParityMeasuresOrder, MeasuresOrder, Measures
  <1> QED
    BY <1>2, <1>3, <1>4, <1>5, <1>12 DEF RankingInv

\* Every step keeps the invariant.
LEMMA RankingStep ==
  ASSUME RankingInv, [Next]_vars
  PROVE  RankingInv'
  <1>1. CASE Next
    BY <1>1, ValidateKeeps, ScorePairsKeeps, ScoreListKeeps, RankKeeps, CompareKeeps, Zenon
       DEF Next
  <1>2. CASE UNCHANGED vars
    <2>1. UNCHANGED <<stage, request, prepared, raw, scores, top, results, rival, parity>>
          /\ Sent' = Sent
      BY <1>2 DEF vars, Sent
    <2>2. RankInv'
      BY <2>1 DEF RankingInv, RankInv
    <2>3. LimitsKept'
      BY <2>1 DEF RankingInv, LimitsKept
    <2>4. OwnScore'
      BY <2>1 DEF RankingInv, OwnScore
    <2>5. BestFirst'
      BY <2>1 DEF RankingInv, BestFirst
    <2>6. ParityMeasuresOrder'
      BY <2>1, Zenon DEF RankingInv, ParityMeasuresOrder
    <2> QED
      BY <2>2, <2>3, <2>4, <2>5, <2>6 DEF RankingInv
  <1> QED
    BY <1>1, <1>2

LEMMA RankingHolds == Spec => []RankingInv
  <1>1. Init => RankingInv
    BY RankingStart
  <1>2. RankingInv /\ [Next]_vars => RankingInv'
    BY RankingStep
  <1> QED
    BY <1>1, <1>2, PTL DEF Spec

\* For any limits and texts: what is scored keeps to every limit, nothing is cut that may not
\* be, and only what cannot be brought within the limits is refused (RerankService._validate).
THEOREM LimitsAreKept == Spec => []LimitsKept
  BY RankingHolds, PTL DEF RankingInv

\* For any hits, scores and rankings: each document is ranked by the score that is its own,
\* and a listwise ranking fails unless it names every document once, with a finite score
\* (RerankService.rerank, JinaV3Backend.rerank).
THEOREM DocumentsKeepTheirScores == Spec => []OwnScore
  BY RankingHolds, PTL DEF RankingInv

\* For any scores and top_n: the answer is the best documents, best first, equals in the
\* order they were sent (RerankService.rerank).
THEOREM AnswerIsBestFirst == Spec => []BestFirst
  BY RankingHolds, PTL DEF RankingInv

\* For any ranking and list of documents: ranking_parity is symmetric, its Spearman and
\* Kendall measures are 1 for the same ranking and only for it, -1 for the reverse of two or
\* more, and between them otherwise; two lists are refused only if they do not rank the same
\* documents (ranking_parity in parity.py).
THEOREM ParityIsAMeasure == Spec => []ParityMeasuresOrder
  BY RankingHolds, PTL DEF RankingInv
===============================================================================
