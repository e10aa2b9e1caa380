-------------------------- MODULE InferenceGateProofs --------------------------
(***************************************************************************)
(* For any callers, limits and pool: the types of InferenceGate, and that  *)
(* no permit of a semaphore in use is lost or made up.                     *)
(***************************************************************************)
EXTENDS InferenceGate, FiniteSetTheorems, SequenceTheorems, TLAPS

(* The inductive invariant.                                                *)

Places == {"idle", "waiting", "granted", "submitted", "returned", "raised", "abandoned"}

\* Who is in a line is waiting for that gate, and is in it once.
Line(w) ==
    \A g \in Gates :
        /\ \A i \in 1 .. Len(w[g]) : caller[w[g][i]] = "waiting" /\ entered[w[g][i]] = g
        /\ \A i, j \in 1 .. Len(w[g]) : w[g][i] = w[g][j] => i = j

\* A caller inside predict has entered a gate.
Inside == \A c \in Callers : caller[c] \notin {"idle", "abandoned"} => entered[c] \in Gates

Inv == TypeOK /\ Line(waiters) /\ Inside /\ PermitsConserved
-------------------------------------------------------------------------------
(* Lines and counts.                                                       *)

LEMMA EffectiveType ==
    ASSUME NEW l \in Limits, NEW d \in {"cuda", "cpu"}
    PROVE  Effective(l, d) \in Nat \ {0}
  BY GateAssumption DEF Effective

\* There are more gates than callers.
LEMMA FreshExists == TypeOK => Fresh \in Gates /\ ~InUse(Fresh)
  <1> SUFFICES ASSUME TypeOK, \A g \in Gates : InUse(g) PROVE FALSE
    BY DEF Fresh
  <1> DEFINE f == [g \in Gates |-> CHOOSE c \in Callers : entered[c] = g]
  <1>1. f \in [Gates -> Callers] /\ \A g \in Gates : entered[f[g]] = g
    BY DEF InUse
  <1> HIDE DEF f
  <1>2. Cardinality(Callers) < Cardinality(Gates)
    <2>1. Cardinality(Callers) \in Nat /\ Cardinality(Gates) \in Nat
      BY GateAssumption, FS_CardinalityType
    <2> QED BY <2>1, GateAssumption
  <1>3. \E x, y \in Gates : x # y /\ f[x] = f[y]
    BY <1>1, <1>2, GateAssumption, FS_PigeonHole
  <1> QED BY <1>1, <1>3

LEMMA HoldersFinite ==
    ASSUME NEW g PROVE IsFiniteSet(Holders(g)) /\ Cardinality(Holders(g)) \in Nat
  BY GateAssumption, FS_Subset, FS_CardinalityType DEF Holders

\* The first k of a line in which nobody is twice are k callers.
LEMMA ServedCount ==
    ASSUME NEW s \in Seq(Callers), NEW k \in 0 .. Len(s),
           \A i, j \in 1 .. Len(s) : s[i] = s[j] => i = j
    PROVE  LET served == {s[i] : i \in 1 .. k}
           IN IsFiniteSet(served) /\ Cardinality(served) = k
  <1> DEFINE served == {s[i] : i \in 1 .. k}
             f == [i \in 1 .. k |-> s[i]]
  <1>1. f \in Bijection(1 .. k, served)
    BY DEF Bijection, Injection, Surjection, IsInjective
  <1>2. IsFiniteSet(1 .. k) /\ Cardinality(1 .. k) = k
    BY FS_Interval
  <1> QED BY <1>1, <1>2, FS_Bijection DEF ExistsBijection

\* What is left of a line that c leaves.
LEMMA WithoutProperties ==
    ASSUME NEW s \in Seq(Callers), NEW c \in Callers
    PROVE  /\ Without(s, c) \in Seq(Callers)
           /\ (\A i, j \in 1 .. Len(s) : s[i] = s[j] => i = j) =>
                 /\ \A i \in 1 .. Len(Without(s, c)) :
                       Without(s, c)[i] # c /\ \E j \in 1 .. Len(s) : s[j] = Without(s, c)[i]
                 /\ \A i, j \in 1 .. Len(Without(s, c)) :
                       Without(s, c)[i] = Without(s, c)[j] => i = j
  <1> DEFINE at == CHOOSE i \in DOMAIN s : s[i] = c
  <1>1. CASE \E i \in DOMAIN s : s[i] = c
    <2>1. at \in 1 .. Len(s) /\ s[at] = c
      BY <1>1
    <2> HIDE DEF at
    <2> DEFINE l == SubSeq(s, 1, at - 1)
               r == SubSeq(s, at + 1, Len(s))
    <2>2. /\ l \in Seq(Callers) /\ Len(l) = at - 1
          /\ \A i \in 1 .. at - 1 : l[i] = s[i]
      BY <2>1, SubSeqProperties
    <2>3. /\ r \in Seq(Callers) /\ Len(r) = Len(s) - at
          /\ \A i \in 1 .. Len(s) - at : r[i] = s[at + i]
      BY <2>1, SubSeqProperties
    <2>4. Without(s, c) = l \o r
      BY <1>1 DEF Without, at
    <2> HIDE DEF l, r
    <2>5. /\ l \o r \in Seq(Callers) /\ Len(l \o r) = Len(s) - 1
          /\ \A i \in 1 .. Len(s) - 1 :
                (l \o r)[i] = IF i <= at - 1 THEN l[i] ELSE r[i - (at - 1)]
      <3>1. /\ l \o r \in Seq(Callers) /\ Len(l \o r) = Len(l) + Len(r)
            /\ \A i \in 1 .. Len(l) + Len(r) :
                  (l \o r)[i] = IF i <= Len(l) THEN l[i] ELSE r[i - Len(l)]
        BY <2>2, <2>3, ConcatProperties
      <3>2. Len(l) + Len(r) = Len(s) - 1
        BY <2>1, <2>2, <2>3
      <3> QED BY <2>2, <3>1, <3>2
    <2>6. ASSUME NEW i \in 1 .. Len(s) - 1
          PROVE  (l \o r)[i] = s[IF i < at THEN i ELSE i + 1]
      <3>1. CASE i < at
        BY <2>1, <2>2, <2>5, <3>1
      <3>2. CASE i >= at
        <4> DEFINE j == i - (at - 1)
        <4>1. j \in 1 .. Len(s) - at /\ at + j = i + 1 /\ ~(i <= at - 1)
          BY <2>1, <3>2
        <4>2. (l \o r)[i] = r[j]
          BY <2>5, <4>1
        <4> HIDE DEF j
        <4>3. r[j] = s[at + j]
          BY <2>3, <4>1
        <4> QED BY <2>1, <3>2, <4>1, <4>2, <4>3
      <3>3. i < at \/ i >= at
        BY <2>1
      <3> QED BY <3>1, <3>2, <3>3, Zenon
    <2> DEFINE q == l \o r
               n(i) == IF i < at THEN i ELSE i + 1
    <2>7. /\ q \in Seq(Callers) /\ Len(q) = Len(s) - 1
          /\ \A i \in 1 .. Len(q) : q[i] = s[n(i)]
      BY <2>5, <2>6
    <2>8. \A i \in 1 .. Len(q) : n(i) \in 1 .. Len(s) /\ n(i) # at
      BY <2>1, <2>7
    <2>9. \A i, j \in 1 .. Len(q) : n(i) = n(j) => i = j
      BY <2>1, <2>7
    <2> HIDE DEF q, n
    <2>10. Without(s, c) = q
      BY <2>4 DEF q
    <2>11. ASSUME \A i, j \in 1 .. Len(s) : s[i] = s[j] => i = j
           PROVE  /\ \A i \in 1 .. Len(q) : q[i] # c /\ \E j \in 1 .. Len(s) : s[j] = q[i]
                  /\ \A i, j \in 1 .. Len(q) : q[i] = q[j] => i = j
      BY <2>1, <2>7, <2>8, <2>9, <2>11
    <2> QED BY <2>7, <2>10, <2>11
  <1>2. CASE ~\E i \in DOMAIN s : s[i] = c
    <2>1. Without(s, c) = s
      BY <1>2 DEF Without
    <2> QED BY <1>2, <2>1
  <1> QED BY <1>1, <1>2
-------------------------------------------------------------------------------
(* Handing out permits.                                                    *)

\* A step of caller c, which entered gate g, that gives permits to the first k in line.
Handing(g, f, w, k, c, s) ==
    /\ g \in Gates /\ f \in [Gates -> Nat] /\ w \in [Gates -> Seq(Callers)] /\ Line(w)
    /\ k \in Nat /\ k <= f[g] /\ k <= Len(w[g])
    /\ c \in Callers /\ entered[c] = g
    /\ \A h \in Gates : \A i \in 1 .. Len(w[h]) : w[h][i] # c
    /\ HandOut(g, f, w, k, c, s)
    /\ \/ s = "submitted" /\ entered' = entered
       \/ s \in {"idle", "abandoned"} /\ entered' = [entered EXCEPT ![c] = NoGate]

\* What it keeps, and how it counts.
Handed(g, f, c, s) ==
    /\ free' \in [Gates -> Nat] /\ waiters' \in [Gates -> Seq(Callers)]
    /\ caller' \in [Callers -> Places] /\ entered' \in [Callers -> Gates \cup {NoGate}]
    /\ Line(waiters)'
    /\ Inside => Inside'
    /\ \A h \in Gates \ {g} : free'[h] = f[h] /\ Holders(h)' = Holders(h)
    /\ s = "submitted" /\ caller[c] \in Holding =>
          free'[g] + Cardinality(Holders(g)') = f[g] + Cardinality(Holders(g))
    /\ s # "submitted" =>
          free'[g] + Cardinality(Holders(g)') = f[g] + Cardinality(Holders(g) \ {c})

LEMMA HandOutStep ==
    ASSUME TypeOK, NEW g, NEW f, NEW w, NEW k, NEW c, NEW s, Handing(g, f, w, k, c, s)
    PROVE  Handed(g, f, c, s)
  <1> USE DEF Handing
  <1> DEFINE served == {w[g][i] : i \in 1 .. k}
  <1>0. NoGate \notin Gates
    BY GateAssumption
  <1>1. /\ free' = [f EXCEPT ![g] = f[g] - k]
        /\ waiters' = [w EXCEPT ![g] = SubSeq(w[g], k + 1, Len(w[g]))]
        /\ caller' = [x \in Callers |->
              IF x = c THEN s ELSE IF x \in served THEN "granted" ELSE caller[x]]
    BY DEF HandOut
  <1>2. served \subseteq Callers /\ \A x \in served : caller[x] = "waiting" /\ entered[x] = g /\ x # c
    BY DEF Line
  <1>3. IsFiniteSet(served) /\ Cardinality(served) = k
    <2>1. /\ w[g] \in Seq(Callers) /\ k \in 0 .. Len(w[g])
          /\ \A i, j \in 1 .. Len(w[g]) : w[g][i] = w[g][j] => i = j
      BY DEF Line
    <2> QED BY <2>1, ServedCount
  <1>4. /\ SubSeq(w[g], k + 1, Len(w[g])) \in Seq(Callers)
        /\ Len(SubSeq(w[g], k + 1, Len(w[g]))) = Len(w[g]) - k
        /\ \A i \in 1 .. Len(w[g]) - k : SubSeq(w[g], k + 1, Len(w[g]))[i] = w[g][k + i]
    BY SubSeqProperties
  <1>5. free' \in [Gates -> Nat] /\ waiters' \in [Gates -> Seq(Callers)]
    BY <1>1, <1>4
  <1>6. caller' \in [Callers -> Places] /\ entered' \in [Callers -> Gates \cup {NoGate}]
    BY <1>1 DEF TypeOK, Places
  <1>7. \A i \in 1 .. Len(w[g]) - k : w[g][k + i] \notin served
    <2>1. \A i, j \in 1 .. Len(w[g]) : w[g][i] = w[g][j] => i = j
      BY DEF Line
    <2>2. \A i \in 1 .. Len(w[g]) - k, j \in 1 .. k :
             k + i \in 1 .. Len(w[g]) /\ j \in 1 .. Len(w[g]) /\ k + i # j
      OBVIOUS
    <2> QED BY <2>1, <2>2
  <1>8. Line(waiters)'
    <2> SUFFICES ASSUME NEW h \in Gates
                 PROVE  /\ \A i \in 1 .. Len(waiters'[h]) :
                              caller'[waiters'[h][i]] = "waiting" /\ entered'[waiters'[h][i]] = h
                        /\ \A i, j \in 1 .. Len(waiters'[h]) :
                              waiters'[h][i] = waiters'[h][j] => i = j
      BY DEF Line
    <2>1. \A x \in Callers : x # c => entered'[x] = entered[x]
      BY DEF TypeOK
    <2>2. CASE h = g
      <3>1. waiters'[h] = SubSeq(w[g], k + 1, Len(w[g]))
        BY <1>1, <2>2
      <3>2. \A i \in 1 .. Len(w[g]) - k : w[g][k + i] \in Callers /\ w[g][k + i] # c
        OBVIOUS
      <3>3. \A i \in 1 .. Len(w[g]) - k :
               caller'[w[g][k + i]] = "waiting" /\ entered'[w[g][k + i]] = g
        BY <1>1, <1>7, <2>1, <3>2 DEF Line
      <3>4. \A i, j \in 1 .. Len(w[g]) - k : w[g][k + i] = w[g][k + j] => i = j
        <4>1. \A i, j \in 1 .. Len(w[g]) : w[g][i] = w[g][j] => i = j
          BY DEF Line
        <4>2. \A i \in 1 .. Len(w[g]) - k : k + i \in 1 .. Len(w[g])
          OBVIOUS
        <4>3. \A i, j \in 1 .. Len(w[g]) - k : k + i = k + j => i = j
          OBVIOUS
        <4> QED BY <4>1, <4>2, <4>3
      <3> HIDE DEF served
      <3> DEFINE q == SubSeq(w[g], k + 1, Len(w[g]))
      <3>5. Len(q) = Len(w[g]) - k /\ \A i \in 1 .. Len(q) : q[i] = w[g][k + i]
        BY <1>4
      <3>6. waiters'[h] = q
        BY <3>1
      <3> HIDE DEF q
      <3>7. \A i \in 1 .. Len(q) : caller'[q[i]] = "waiting" /\ entered'[q[i]] = h
        BY <2>2, <3>3, <3>5
      <3>8. ASSUME NEW i \in 1 .. Len(q), NEW j \in 1 .. Len(q), q[i] = q[j] PROVE i = j
        <4>1. w[g][k + i] = w[g][k + j]
          BY <3>5, <3>8
        <4> QED BY <3>4, <3>5, <4>1
      <3> QED BY <3>6, <3>7, <3>8
    <2>3. CASE h # g
      <3>1. waiters'[h] = w[h]
        BY <1>1, <2>3
      <3>2. \A i \in 1 .. Len(w[h]) :
               /\ w[h][i] \in Callers /\ w[h][i] # c
               /\ caller[w[h][i]] = "waiting" /\ entered[w[h][i]] = h
        BY DEF Line
      <3>3. \A i \in 1 .. Len(w[h]) : w[h][i] \notin served
        BY <1>2, <2>3, <3>2
      <3> HIDE DEF served
      <3>4. \A i \in 1 .. Len(w[h]) : caller'[w[h][i]] = "waiting" /\ entered'[w[h][i]] = h
        BY <1>1, <2>1, <3>2, <3>3
      <3> QED BY <3>1, <3>4 DEF Line
    <2> QED BY <2>2, <2>3
  <1>9. Inside => Inside'
    BY <1>1, <1>2, <1>6 DEF Inside, TypeOK
  <1>10. \A h \in Gates \ {g} : free'[h] = f[h] /\ Holders(h)' = Holders(h)
    BY <1>0, <1>1, <1>2 DEF Holders, Holding, TypeOK
  <1>11. \A H : IsFiniteSet(H) /\ H \cap served = {} /\ Holders(g)' = H \cup served =>
               free'[g] + Cardinality(Holders(g)') = f[g] + Cardinality(H)
    <2> SUFFICES ASSUME NEW H, IsFiniteSet(H), H \cap served = {}, Holders(g)' = H \cup served
                 PROVE  free'[g] + Cardinality(Holders(g)') = f[g] + Cardinality(H)
      OBVIOUS
    <2>1. Cardinality(H \cup served) = Cardinality(H) + Cardinality(served) - Cardinality(H \cap served)
      BY <1>3, FS_Union
    <2>2. Cardinality(H) \in Nat /\ Cardinality(H \cap served) = 0
      BY FS_CardinalityType, FS_EmptySet
    <2>3. free'[g] = f[g] - k /\ f[g] \in Nat
      BY <1>1
    <2>4. Cardinality(Holders(g)') = Cardinality(H) + k
      BY <1>3, <2>1, <2>2
    <2> HIDE DEF served
    <2> QED BY <2>2, <2>3, <2>4
  <1>12. /\ IsFiniteSet(Holders(g)) /\ IsFiniteSet(Holders(g) \ {c})
         /\ Holders(g) \cap served = {} /\ (Holders(g) \ {c}) \cap served = {}
    <2>1. Holders(g) \cap served = {}
      BY <1>2 DEF Holders, Holding
    <2> QED BY <2>1, HoldersFinite, FS_RemoveElement
  <1>13. s = "submitted" /\ caller[c] \in Holding => Holders(g)' = Holders(g) \cup served
    BY <1>0, <1>1, <1>2 DEF Holders, Holding, TypeOK
  <1>14. s # "submitted" => Holders(g)' = (Holders(g) \ {c}) \cup served
    BY <1>0, <1>1, <1>2 DEF Holders, Holding, TypeOK
  <1> QED BY <1>5, <1>6, <1>8, <1>9, <1>10, <1>11, <1>12, <1>13, <1>14 DEF Handed

\* What a step that hands out permits of gate g, and replaces no gate, keeps.
LEMMA Conserve ==
    ASSUME TypeOK, PermitsConserved, NEW c \in Callers, NEW g \in Gates, entered[c] = g,
           gate' = gate, size' = size,
           entered' = entered \/ entered' = [entered EXCEPT ![c] = NoGate],
           \A h \in Gates \ {g} : free'[h] = free[h] /\ Holders(h)' = Holders(h),
           free'[g] + Cardinality(Holders(g)') = size[g]
    PROVE  PermitsConserved'
  <1> SUFFICES ASSUME NEW h \in Gates, h = gate' \/ InUse(h)'
               PROVE  free'[h] + Cardinality(Holders(h)') = size'[h]
    BY DEF PermitsConserved
  <1>1. CASE h = g
    BY <1>1
  <1>2. CASE h # g
    <2>1. h = gate \/ InUse(h)
      BY GateAssumption DEF InUse, TypeOK
    <2> QED BY <1>2, <2>1 DEF PermitsConserved
  <1> QED BY <1>1, <1>2

\* A holder counts for one permit.
LEMMA HolderCounts ==
    ASSUME TypeOK, PermitsConserved, NEW c \in Callers, caller[c] \in Holding,
           entered[c] \in Gates
    PROVE  /\ free[entered[c]] + Cardinality(Holders(entered[c])) = size[entered[c]]
           /\ Cardinality(Holders(entered[c]) \ {c}) = Cardinality(Holders(entered[c])) - 1
           /\ Cardinality(Holders(entered[c])) \in Nat
  <1>1. InUse(entered[c]) /\ c \in Holders(entered[c])
    BY DEF InUse, Holders
  <1> QED BY <1>1, HoldersFinite, FS_RemoveElement DEF PermitsConserved

\* Nobody in a line is at another place.
LEMMA NotInLine ==
    ASSUME TypeOK, Line(waiters), NEW c \in Callers, caller[c] # "waiting"
    PROVE  \A h \in Gates : \A i \in 1 .. Len(waiters[h]) : waiters[h][i] # c
  BY DEF Line

\* One permit comes back and goes to the first in line, if there is one; c leaves.
LEMMA ReleaseStep ==
    ASSUME Inv, NEW c \in Callers, caller[c] \in Holding, NEW s \in {"idle", "abandoned"},
           Release(entered[c], free, waiters, c, s), gate' = gate, size' = size,
           entered' = [entered EXCEPT ![c] = NoGate]
    PROVE  /\ free' \in [Gates -> Nat] /\ waiters' \in [Gates -> Seq(Callers)]
           /\ caller' \in [Callers -> Places] /\ entered' \in [Callers -> Gates \cup {NoGate}]
           /\ Line(waiters)' /\ Inside' /\ PermitsConserved'
  <1>1. PICK g \in Gates : g = entered[c]
    BY DEF Inv, Inside, Holding
  <1> DEFINE f == [free EXCEPT ![g] = @ + 1]
             k == IF waiters[g] = <<>> THEN 0 ELSE 1
  <1>2. f \in [Gates -> Nat] /\ f[g] = free[g] + 1 /\ \A h \in Gates \ {g} : f[h] = free[h]
    BY <1>1 DEF Inv, TypeOK
  <1>3. waiters \in [Gates -> Seq(Callers)]
    BY DEF Inv, TypeOK
  <1>4. k \in Nat /\ k <= f[g] /\ k <= Len(waiters[g])
    BY <1>1, <1>2, <1>3 DEF Inv, TypeOK
  <1>5. HandOut(g, f, waiters, k, c, s)
    BY <1>1 DEF Release
  <1>6. \A h \in Gates : \A i \in 1 .. Len(waiters[h]) : waiters[h][i] # c
    BY NotInLine DEF Inv, Holding
  <1>7. TypeOK /\ Line(waiters) /\ Inside /\ PermitsConserved
    BY DEF Inv
  <1>8. s # "submitted"
    OBVIOUS
  <1> HIDE DEF f, k
  <1>9. Handed(g, f, c, s)
    <2>1. Handing(g, f, waiters, k, c, s)
      BY <1>1, <1>2, <1>3, <1>4, <1>5, <1>6, <1>7 DEF Handing
    <2> QED BY <1>7, <2>1, HandOutStep
  <1>10. free'[g] + Cardinality(Holders(g)') = size[g]
    <2>1. /\ free[g] + Cardinality(Holders(g)) = size[g]
          /\ Cardinality(Holders(g) \ {c}) = Cardinality(Holders(g)) - 1
          /\ Cardinality(Holders(g)) \in Nat
      BY <1>1, <1>7, HolderCounts
    <2>2. free[g] \in Nat
      BY <1>1, <1>7 DEF TypeOK
    <2> QED BY <1>2, <1>9, <2>1, <2>2 DEF Handed
  <1>11. \A h \in Gates \ {g} : free'[h] = free[h] /\ Holders(h)' = Holders(h)
    BY <1>2, <1>9 DEF Handed
  <1>12. PermitsConserved'
    BY <1>1, <1>7, <1>10, <1>11, Conserve
  <1> QED BY <1>7, <1>9, <1>12 DEF Handed

\* Free permits go to those in line; c, who holds none, leaves, or holds one and stays.
LEMMA WakeStep ==
    ASSUME Inv, NEW c \in Callers, entered[c] \in Gates,
           NEW f \in [Gates -> Nat], NEW w \in [Gates -> Seq(Callers)], Line(w),
           \A h \in Gates : \A i \in 1 .. Len(w[h]) : w[h][i] # c,
           \A h \in Gates \ {entered[c]} : f[h] = free[h],
           NEW s, WakeAll(entered[c], f, w, c, s), gate' = gate, size' = size,
           \/ /\ s = "submitted" /\ entered' = entered /\ caller[c] = "granted"
              /\ f[entered[c]] + Cardinality(Holders(entered[c])) = size[entered[c]]
           \/ /\ s = "idle" /\ entered' = [entered EXCEPT ![c] = NoGate]
              /\ f[entered[c]] + Cardinality(Holders(entered[c]) \ {c}) = size[entered[c]]
    PROVE  /\ free' \in [Gates -> Nat] /\ waiters' \in [Gates -> Seq(Callers)]
           /\ caller' \in [Callers -> Places] /\ entered' \in [Callers -> Gates \cup {NoGate}]
           /\ Line(waiters)' /\ Inside' /\ PermitsConserved'
  <1>0. PICK g \in Gates : g = entered[c]
    OBVIOUS
  <1> DEFINE k == IF f[g] < Len(w[g]) THEN f[g] ELSE Len(w[g])
  <1>1. k \in Nat /\ k <= f[g] /\ k <= Len(w[g])
    OBVIOUS
  <1>2. HandOut(g, f, w, k, c, s)
    BY <1>0 DEF WakeAll
  <1>3. TypeOK /\ Line(waiters) /\ Inside /\ PermitsConserved
    BY DEF Inv
  <1>4. \/ s = "submitted" /\ entered' = entered
        \/ s \in {"idle", "abandoned"} /\ entered' = [entered EXCEPT ![c] = NoGate]
    OBVIOUS
  <1> HIDE DEF k
  <1>5. Handed(g, f, c, s)
    <2>1. Handing(g, f, w, k, c, s)
      BY <1>0, <1>1, <1>2, <1>4 DEF Handing
    <2> QED BY <1>3, <2>1, HandOutStep
  <1>6. free'[g] + Cardinality(Holders(g)') = size[g]
    BY <1>0, <1>5 DEF Handed, Holding
  <1>7. \A h \in Gates \ {g} : free'[h] = free[h] /\ Holders(h)' = Holders(h)
    BY <1>0, <1>5 DEF Handed
  <1>8. entered' = entered \/ entered' = [entered EXCEPT ![c] = NoGate]
    BY <1>4
  <1>9. PermitsConserved'
    BY <1>0, <1>3, <1>6, <1>7, <1>8, Conserve
  <1> QED BY <1>3, <1>5, <1>9 DEF Handed
-------------------------------------------------------------------------------
(* The steps.                                                              *)

\* The types without what the callers and gates of a step change.
Rest == /\ limit \in Limits
        /\ device \in {"cuda", "cpu"} /\ provider \in {"cuda", "cpu"}
        /\ gate \in Gates /\ size \in [Gates -> Nat \ {0}]
        /\ backlog \in Seq(Callers) /\ threads \subseteq Callers
Moved == /\ free \in [Gates -> Nat] /\ waiters \in [Gates -> Seq(Callers)]
         /\ caller \in [Callers -> Places] /\ entered \in [Callers -> Gates \cup {NoGate}]

LEMMA TypeParts == (TypeOK => Rest /\ Moved) /\ (Rest' /\ Moved' => TypeOK')
  BY DEF TypeOK, Rest, Moved, Places

LEMMA EnterStep ==
    ASSUME Inv, NEW c \in Callers, Enter(c)
    PROVE  Inv'
  <1> PICK g \in Gates : g = gate
    BY DEF Inv, TypeOK
  <1> USE DEF Inv
  <1>0. /\ caller[c] = "idle" /\ entered' = [entered EXCEPT ![c] = g]
        /\ UNCHANGED <<limit, device, provider, gate, size, threads>>
    BY DEF Enter
  <1>1. \A x \in Callers : x # c => entered'[x] = entered[x]
    BY <1>0 DEF TypeOK
  <1>2. \A h \in Gates \ {g} : InUse(h)' => InUse(h)
    BY <1>0, <1>1 DEF InUse, TypeOK
  <1>3. CASE Available(g)
    <2>1. /\ free' = [free EXCEPT ![g] = @ - 1] /\ free[g] > 0
          /\ caller' = [caller EXCEPT ![c] = "submitted"]
          /\ backlog' = Append(backlog, c) /\ waiters' = waiters
      BY <1>3 DEF Enter, Available
    <2>2. TypeOK'
      BY <1>0, <2>1 DEF TypeOK
    <2>3. Line(waiters)'
      BY <1>0, <1>1, <2>1, NotInLine DEF Line, TypeOK
    <2>4. Inside'
      BY <1>0, <2>1 DEF Inside, TypeOK
    <2>5. \A h \in Gates \ {g} : Holders(h)' = Holders(h) /\ free'[h] = free[h]
      BY <1>0, <2>1 DEF Holders, Holding, TypeOK
    <2>6. Holders(g)' = Holders(g) \cup {c} /\ c \notin Holders(g)
      BY <1>0, <2>1 DEF Holders, Holding, TypeOK
    <2>7. Cardinality(Holders(g)') = Cardinality(Holders(g)) + 1
      BY <2>6, HoldersFinite, FS_AddElement
    <2>8. free'[g] + Cardinality(Holders(g)') = size[g]
      BY <2>1, <2>7, HoldersFinite DEF PermitsConserved, TypeOK
    <2>9. PermitsConserved'
      BY <1>0, <1>2, <2>5, <2>8 DEF PermitsConserved
    <2> QED BY <2>2, <2>3, <2>4, <2>9
  <1>4. CASE ~Available(g)
    <2>1. /\ waiters' = [waiters EXCEPT ![g] = Append(@, c)]
          /\ caller' = [caller EXCEPT ![c] = "waiting"]
          /\ free' = free /\ backlog' = backlog
      BY <1>4 DEF Enter
    <2>2. TypeOK'
      BY <1>0, <2>1 DEF TypeOK
    <2>3. Line(waiters)'
      <3>1. /\ waiters'[g] = Append(waiters[g], c)
            /\ \A h \in Gates \ {g} : waiters'[h] = waiters[h]
        BY <2>1 DEF TypeOK
      <3>2. \A h \in Gates : \A i \in 1 .. Len(waiters[h]) :
               /\ waiters[h][i] \in Callers /\ waiters[h][i] # c
               /\ caller'[waiters[h][i]] = "waiting" /\ entered'[waiters[h][i]] = h
        BY <1>0, <1>1, <2>1, NotInLine DEF Line, TypeOK
      <3>3. /\ Len(waiters'[g]) = Len(waiters[g]) + 1 /\ Len(waiters[g]) \in Nat
            /\ waiters'[g][Len(waiters[g]) + 1] = c
            /\ \A i \in 1 .. Len(waiters[g]) : waiters'[g][i] = waiters[g][i]
        BY <3>1 DEF TypeOK
      <3>4. caller'[c] = "waiting" /\ entered'[c] = g
        BY <1>0, <2>1 DEF TypeOK
      <3>5. \A i \in 1 .. Len(waiters'[g]) :
               caller'[waiters'[g][i]] = "waiting" /\ entered'[waiters'[g][i]] = g
        BY <3>2, <3>3, <3>4
      <3>6. \A i, j \in 1 .. Len(waiters'[g]) : waiters'[g][i] = waiters'[g][j] => i = j
        <4>1. \A i, j \in 1 .. Len(waiters[g]) : waiters[g][i] = waiters[g][j] => i = j
          BY DEF Line
        <4>2. PICK n \in Nat : n = Len(waiters[g])
          BY <3>3
        <4>3. PICK q, r : q = waiters[g] /\ r = waiters'[g]
          OBVIOUS
        <4>4. \A i \in 1 .. n : r[i] = q[i] /\ q[i] # c
          BY <3>2, <3>3, <4>2, <4>3
        <4>5. Len(r) = n + 1 /\ r[n + 1] = c
          BY <3>3, <4>2, <4>3
        <4>6. \A i, j \in 1 .. n : q[i] = q[j] => i = j
          BY <4>1, <4>2, <4>3
        <4>7. \A i, j \in 1 .. n + 1 : r[i] = r[j] => i = j
          <5>1. \A i \in 1 .. n + 1 : i \in 1 .. n \/ i = n + 1
            OBVIOUS
          <5> QED BY <4>4, <4>5, <4>6, <5>1
        <4> QED BY <4>3, <4>5, <4>7
      <3>7. \A h \in Gates \ {g} :
               /\ \A i \in 1 .. Len(waiters'[h]) :
                     caller'[waiters'[h][i]] = "waiting" /\ entered'[waiters'[h][i]] = h
               /\ \A i, j \in 1 .. Len(waiters'[h]) : waiters'[h][i] = waiters'[h][j] => i = j
        BY <3>1, <3>2 DEF Line
      <3> QED BY <3>5, <3>6, <3>7 DEF Line
    <2>4. Inside'
      BY <1>0, <2>1 DEF Inside, TypeOK
    <2>5. \A h \in Gates : Holders(h)' = Holders(h) /\ free'[h] = free[h]
      BY <1>0, <2>1 DEF Holders, Holding, TypeOK
    <2>6. PermitsConserved'
      BY <1>0, <1>2, <2>5 DEF PermitsConserved
    <2> QED BY <2>2, <2>3, <2>4, <2>6
  <1> QED BY <1>3, <1>4

LEMMA SubmitStep ==
    ASSUME Inv, NEW c \in Callers, Submit(c)
    PROVE  Inv'
  <1>1. /\ caller[c] = "granted" /\ entered[c] \in Gates
        /\ WakeAll(entered[c], free, waiters, c, "submitted")
        /\ backlog' = Append(backlog, c) /\ entered' = entered
        /\ UNCHANGED <<limit, device, provider, gate, size, threads>>
    BY DEF Submit, Inv, Inside
  <1>2. PICK f \in [Gates -> Nat], w \in [Gates -> Seq(Callers)] : f = free /\ w = waiters
    BY DEF Inv, TypeOK
  <1>3. Line(w) /\ \A h \in Gates : \A i \in 1 .. Len(w[h]) : w[h][i] # c
    BY <1>1, <1>2, NotInLine DEF Inv
  <1>4. f[entered[c]] + Cardinality(Holders(entered[c])) = size[entered[c]]
    BY <1>1, <1>2, HolderCounts DEF Inv, Holding
  <1>5. Moved' /\ Line(waiters)' /\ Inside' /\ PermitsConserved'
    BY <1>1, <1>2, <1>3, <1>4, WakeStep DEF Moved
  <1>6. Rest'
    BY <1>1, TypeParts DEF Rest, Inv
  <1> QED BY <1>5, <1>6, TypeParts DEF Inv

LEMMA RaiseStep ==
    ASSUME Inv, NEW c \in Callers, Raise(c)
    PROVE  Inv'
  <1>1. /\ caller[c] \in Holding /\ Release(entered[c], free, waiters, c, "idle")
        /\ entered' = [entered EXCEPT ![c] = NoGate]
        /\ UNCHANGED <<limit, device, provider, gate, size, poolVars>>
    BY DEF Raise, Holding
  <1>2. Moved' /\ Line(waiters)' /\ Inside' /\ PermitsConserved'
    BY <1>1, ReleaseStep DEF Moved
  <1>3. Rest'
    BY <1>1, TypeParts DEF Rest, Inv, poolVars
  <1> QED BY <1>2, <1>3, TypeParts DEF Inv

LEMMA CancelStep ==
    ASSUME Inv, NEW c \in Callers, Cancel(c)
    PROVE  Inv'
  <1>0. /\ backlog' = Without(backlog, c) /\ entered' = [entered EXCEPT ![c] = NoGate]
        /\ UNCHANGED <<limit, device, provider, gate, size, threads>>
    BY DEF Cancel
  <1>1. Rest'
    <2>1. Rest
      BY TypeParts DEF Inv
    <2>2. Without(backlog, c) \in Seq(Callers)
      BY <2>1, WithoutProperties DEF Rest
    <2> QED BY <1>0, <2>1, <2>2 DEF Rest
  <1>2. PICK g : g = entered[c]
    OBVIOUS
  <1>3. CASE caller[c] = "waiting"
    <2>1. g \in Gates /\ WakeAll(g, free, [waiters EXCEPT ![g] = Without(@, c)], c, "idle")
      BY <1>2, <1>3 DEF Cancel, Inv, Inside
    <2>2. PICK f, w : f \in [Gates -> Nat] /\ f = free
                      /\ w = [waiters EXCEPT ![g] = Without(@, c)]
      BY DEF Inv, TypeOK
    <2>3. /\ Without(waiters[g], c) \in Seq(Callers)
          /\ \A i \in 1 .. Len(Without(waiters[g], c)) :
                /\ Without(waiters[g], c)[i] # c
                /\ \E j \in 1 .. Len(waiters[g]) : waiters[g][j] = Without(waiters[g], c)[i]
          /\ \A i, j \in 1 .. Len(Without(waiters[g], c)) :
                Without(waiters[g], c)[i] = Without(waiters[g], c)[j] => i = j
      <3>1. /\ waiters[g] \in Seq(Callers)
            /\ \A i, j \in 1 .. Len(waiters[g]) : waiters[g][i] = waiters[g][j] => i = j
        BY <2>1 DEF Inv, TypeOK, Line
      <3> QED BY <3>1, WithoutProperties
    <2>4. /\ w \in [Gates -> Seq(Callers)] /\ w[g] = Without(waiters[g], c)
          /\ \A h \in Gates \ {g} : w[h] = waiters[h]
      BY <2>1, <2>2, <2>3 DEF Inv, TypeOK
    <2>5. Line(w) /\ \A h \in Gates : \A i \in 1 .. Len(w[h]) : w[h][i] # c
      <3>1. \A h \in Gates :
               /\ \A i \in 1 .. Len(waiters[h]) :
                     caller[waiters[h][i]] = "waiting" /\ entered[waiters[h][i]] = h
               /\ \A i, j \in 1 .. Len(waiters[h]) : waiters[h][i] = waiters[h][j] => i = j
        BY DEF Inv, Line
      <3>2. \A i \in 1 .. Len(w[g]) :
               w[g][i] # c /\ caller[w[g][i]] = "waiting" /\ entered[w[g][i]] = g
        <4> DEFINE q == Without(waiters[g], c)
        <4>1. \A i \in 1 .. Len(q) : q[i] # c /\ \E j \in 1 .. Len(waiters[g]) : waiters[g][j] = q[i]
          BY <2>3
        <4>2. \A j \in 1 .. Len(waiters[g]) :
                 caller[waiters[g][j]] = "waiting" /\ entered[waiters[g][j]] = g
          BY <2>1, <3>1
        <4>3. w[g] = q
          BY <2>4
        <4> HIDE DEF q
        <4> QED BY <4>1, <4>2, <4>3
      <3>3. \A i, j \in 1 .. Len(w[g]) : w[g][i] = w[g][j] => i = j
        BY <2>3, <2>4
      <3>4. \A h \in Gates \ {g} :
               /\ \A i \in 1 .. Len(w[h]) :
                     w[h][i] # c /\ caller[w[h][i]] = "waiting" /\ entered[w[h][i]] = h
               /\ \A i, j \in 1 .. Len(w[h]) : w[h][i] = w[h][j] => i = j
        BY <1>2, <2>4, <3>1
      <3> QED BY <3>2, <3>3, <3>4 DEF Line
    <2>7. f[g] + Cardinality(Holders(g) \ {c}) = size[g]
      <3>1. Holders(g) \ {c} = Holders(g)
        BY <1>3 DEF Holders, Holding
      <3> QED BY <1>2, <2>1, <2>2, <3>1 DEF Inv, PermitsConserved, InUse
    <2>8. /\ WakeAll(entered[c], f, w, c, "idle") /\ entered[c] \in Gates
          /\ \A h \in Gates \ {entered[c]} : f[h] = free[h]
          /\ f[entered[c]] + Cardinality(Holders(entered[c]) \ {c}) = size[entered[c]]
      BY <1>2, <2>1, <2>2, <2>7
    <2>9. Moved' /\ Line(waiters)' /\ Inside' /\ PermitsConserved'
      BY <1>0, <2>2, <2>4, <2>5, <2>8, WakeStep DEF Moved
    <2> QED BY <1>1, <2>9, TypeParts DEF Inv
  <1>4. CASE caller[c] = "granted"
    <2>1. g \in Gates /\ WakeAll(g, [free EXCEPT ![g] = @ + 1], waiters, c, "idle")
      BY <1>2, <1>4 DEF Cancel, Inv, Inside
    <2>10. [free EXCEPT ![g] = @ + 1] \in [Gates -> Nat] /\ waiters \in [Gates -> Seq(Callers)]
      BY <2>1 DEF Inv, TypeOK
    <2>2. PICK f \in [Gates -> Nat], w \in [Gates -> Seq(Callers)] :
             f = [free EXCEPT ![g] = @ + 1] /\ w = waiters
      BY <2>10
    <2>3. Line(w) /\ \A h \in Gates : \A i \in 1 .. Len(w[h]) : w[h][i] # c
      BY <1>4, <2>2, NotInLine DEF Inv
    <2>4. f[g] + Cardinality(Holders(g) \ {c}) = size[g]
      <3>1. /\ free[g] + Cardinality(Holders(g)) = size[g]
            /\ Cardinality(Holders(g) \ {c}) = Cardinality(Holders(g)) - 1
            /\ Cardinality(Holders(g)) \in Nat
        BY <1>2, <1>4, <2>1, HolderCounts DEF Inv, Holding
      <3>2. f[g] = free[g] + 1 /\ free[g] \in Nat
        <4>1. free \in [Gates -> Nat]
          BY DEF Inv, TypeOK
        <4> QED BY <2>1, <2>2, <4>1
      <3> DEFINE n == Cardinality(Holders(g))
                 m == Cardinality(Holders(g) \ {c})
      <3>3. m = n - 1 /\ n \in Nat /\ free[g] + n = size[g]
        BY <3>1
      <3> HIDE DEF n, m
      <3>4. f[g] + m = size[g]
        BY <3>2, <3>3
      <3> QED BY <3>4 DEF m
    <2>5. /\ WakeAll(entered[c], f, w, c, "idle") /\ entered[c] \in Gates
          /\ \A h \in Gates \ {entered[c]} : f[h] = free[h]
          /\ f[entered[c]] + Cardinality(Holders(entered[c]) \ {c}) = size[entered[c]]
      BY <1>2, <2>1, <2>2, <2>4 DEF Inv, TypeOK
    <2>6. Moved' /\ Line(waiters)' /\ Inside' /\ PermitsConserved'
      BY <1>0, <2>3, <2>5, WakeStep DEF Moved
    <2> QED BY <1>1, <2>6, TypeParts DEF Inv
  <1>5. CASE caller[c] \in {"submitted", "returned", "raised"}
    <2>1. PICK s \in {"idle", "abandoned"} : Release(entered[c], free, waiters, c, s)
      BY <1>5 DEF Cancel
    <2>2. Moved' /\ Line(waiters)' /\ Inside' /\ PermitsConserved'
      BY <1>0, <1>5, <2>1, ReleaseStep DEF Moved, Holding
    <2> QED BY <1>1, <2>2, TypeParts DEF Inv
  <1> QED BY <1>3, <1>4, <1>5 DEF Cancel

\* A gate nobody has entered is put in place.
LEMMA NewGateStep ==
    ASSUME Inv, NEW l \in Limits, NEW d \in {"cuda", "cpu"}, NewGate(l, d),
           UNCHANGED <<caller, entered>>
    PROVE  /\ gate' \in Gates /\ size' \in [Gates -> Nat \ {0}] /\ Moved'
           /\ Line(waiters)' /\ Inside' /\ PermitsConserved'
  <1> USE DEF Inv
  <1>1. PICK n \in Gates : n = Fresh /\ ~InUse(n)
    BY FreshExists
  <1>2. PICK e \in Nat \ {0} : e = Effective(l, d)
    BY EffectiveType
  <1>3. /\ gate' = n /\ size' = [size EXCEPT ![n] = e] /\ free' = [free EXCEPT ![n] = e]
        /\ waiters' = [waiters EXCEPT ![n] = <<>>]
    BY <1>1, <1>2 DEF NewGate
  <1>4. size' \in [Gates -> Nat \ {0}] /\ Moved'
    BY <1>3, TypeParts DEF Moved, TypeOK
  <1>5. Line(waiters)'
    BY <1>3 DEF Line, TypeOK
  <1>6. Inside'
    BY DEF Inside
  <1>7. \A h \in Gates : Holders(h)' = Holders(h) /\ (InUse(h)' <=> InUse(h))
    BY DEF Holders, InUse
  <1>8. Holders(n) = {}
    BY <1>1 DEF Holders, InUse
  <1>9. PermitsConserved'
    <2>1. free'[n] + Cardinality(Holders(n)') = size'[n]
      <3>1. free'[n] = e /\ size'[n] = e
        BY <1>3 DEF TypeOK
      <3>2. Cardinality(Holders(n)') = 0
        BY <1>7, <1>8, FS_EmptySet
      <3> QED BY <3>1, <3>2
    <2>2. \A h \in Gates \ {n} : free'[h] = free[h] /\ size'[h] = size[h]
      BY <1>3 DEF TypeOK
    <2> QED BY <1>3, <1>7, <2>1, <2>2 DEF PermitsConserved
  <1> QED BY <1>3, <1>4, <1>5, <1>6, <1>9

LEMMA ReturnStep ==
    ASSUME Inv, NEW c \in Callers, Return(c)
    PROVE  Inv'
  <1>1. TypeOK /\ Line(waiters) /\ Inside /\ PermitsConserved
    BY DEF Inv
  <1>2. caller[c] = "returned" /\ entered' = [entered EXCEPT ![c] = NoGate]
    BY DEF Return
  <1>3. PICK g \in Gates : g = entered[c]
    BY <1>1, <1>2 DEF Inside
  <1>4. PICK n \in Gates : n = Fresh /\ ~InUse(n)
    BY <1>1, FreshExists
  <1>5. n # g
    BY <1>3, <1>4 DEF InUse
  <1>6. PICK e \in Nat \ {0} : e = Effective(limit, provider)
    BY <1>1, EffectiveType DEF TypeOK
  <1>7. /\ device' = provider /\ gate' = n /\ size' = [size EXCEPT ![n] = e]
        /\ UNCHANGED <<limit, provider, backlog, threads>>
        /\ Release(g, [free EXCEPT ![n] = e], [waiters EXCEPT ![n] = <<>>], c, "idle")
    BY <1>3, <1>4, <1>6 DEF Return, poolVars
  <1>8. /\ [free EXCEPT ![n] = e] \in [Gates -> Nat]
        /\ [waiters EXCEPT ![n] = <<>>] \in [Gates -> Seq(Callers)]
    BY <1>1 DEF TypeOK
  <1>9. PICK w \in [Gates -> Seq(Callers)] : w = [waiters EXCEPT ![n] = <<>>]
    BY <1>8
  <1>10. [[free EXCEPT ![n] = e] EXCEPT ![g] = @ + 1] \in [Gates -> Nat]
    BY <1>8
  <1>11. PICK f \in [Gates -> Nat] : f = [[free EXCEPT ![n] = e] EXCEPT ![g] = @ + 1]
    BY <1>10
  <1>12. PICK k \in Nat : k = IF w[g] = <<>> THEN 0 ELSE 1
    OBVIOUS
  <1>13. HandOut(g, f, w, k, c, "idle")
    BY <1>7, <1>9, <1>11, <1>12 DEF Release
  <1>14. f[g] = free[g] + 1 /\ f[n] = e /\ \A h \in Gates \ {g, n} : f[h] = free[h]
    BY <1>1, <1>5, <1>11 DEF TypeOK
  <1>15. w[n] = <<>> /\ \A h \in Gates \ {n} : w[h] = waiters[h]
    BY <1>1, <1>9 DEF TypeOK
  <1>16. Line(w) /\ \A h \in Gates : \A i \in 1 .. Len(w[h]) : w[h][i] # c
    <2>1. \A h \in Gates :
             /\ \A i \in 1 .. Len(waiters[h]) :
                   /\ waiters[h][i] # c
                   /\ caller[waiters[h][i]] = "waiting" /\ entered[waiters[h][i]] = h
             /\ \A i, j \in 1 .. Len(waiters[h]) : waiters[h][i] = waiters[h][j] => i = j
      BY <1>1, <1>2, NotInLine DEF Line
    <2>2. 1 .. Len(w[n]) = {}
      BY <1>15
    <2> SUFFICES ASSUME NEW h \in Gates
                 PROVE  /\ \A i \in 1 .. Len(w[h]) :
                              /\ w[h][i] # c
                              /\ caller[w[h][i]] = "waiting" /\ entered[w[h][i]] = h
                        /\ \A i, j \in 1 .. Len(w[h]) : w[h][i] = w[h][j] => i = j
      BY DEF Line
    <2>3. CASE h = n
      BY <2>2, <2>3
    <2>4. CASE h # n
      <3>1. w[h] = waiters[h]
        BY <1>15, <2>4
      <3> QED BY <2>1, <3>1
    <2> QED BY <2>3, <2>4
  <1>18. k <= f[g] /\ k <= Len(w[g])
    <2>1. free[g] \in Nat
      BY <1>1 DEF TypeOK
    <2>2. w[g] # <<>> => Len(w[g]) >= 1
      OBVIOUS
    <2> QED BY <1>12, <1>14, <2>1, <2>2
  <1>19. Handed(g, f, c, "idle")
    <2>1. Handing(g, f, w, k, c, "idle")
      BY <1>2, <1>3, <1>13, <1>16, <1>18 DEF Handing
    <2> QED BY <1>1, <2>1, HandOutStep
  <1>20. /\ free' \in [Gates -> Nat] /\ waiters' \in [Gates -> Seq(Callers)]
         /\ caller' \in [Callers -> Places] /\ entered' \in [Callers -> Gates \cup {NoGate}]
         /\ Line(waiters)' /\ Inside'
         /\ \A h \in Gates \ {g} : free'[h] = f[h] /\ Holders(h)' = Holders(h)
         /\ free'[g] + Cardinality(Holders(g)') = f[g] + Cardinality(Holders(g) \ {c})
    BY <1>1, <1>19 DEF Handed
  <1>21. size' \in [Gates -> Nat \ {0}] /\ size'[n] = e /\ \A h \in Gates \ {n} : size'[h] = size[h]
    BY <1>1, <1>7 DEF TypeOK
  <1>22. PermitsConserved'
    <2> SUFFICES ASSUME NEW h \in Gates, h = gate' \/ InUse(h)'
                 PROVE  free'[h] + Cardinality(Holders(h)') = size'[h]
      BY DEF PermitsConserved
    <2>1. CASE h = g
      <3>1. /\ free[g] + Cardinality(Holders(g)) = size[g]
            /\ Cardinality(Holders(g) \ {c}) = Cardinality(Holders(g)) - 1
            /\ Cardinality(Holders(g)) \in Nat
        BY <1>1, <1>2, <1>3, HolderCounts DEF Holding
      <3>2. free[g] \in Nat /\ f[g] = free[g] + 1
        BY <1>1, <1>14 DEF TypeOK
      <3> DEFINE a == Cardinality(Holders(g))
                 b == Cardinality(Holders(g) \ {c})
                 z == Cardinality(Holders(g)')
      <3>3. b = a - 1 /\ a \in Nat /\ free[g] + a = size[g] /\ free'[g] + z = f[g] + b
        BY <1>20, <3>1
      <3> HIDE DEF a, b, z
      <3>4. f[g] + b = size[g]
        BY <3>2, <3>3
      <3>5. size'[g] = size[g]
        BY <1>5, <1>21
      <3> QED BY <2>1, <3>3, <3>4, <3>5 DEF z
    <2>2. CASE h = n
      <3>1. Holders(n)' = {}
        BY <1>4, <1>5, <1>20 DEF Holders, InUse
      <3>2. free'[n] = e
        BY <1>5, <1>14, <1>20
      <3> QED BY <1>21, <2>2, <3>1, <3>2, FS_EmptySet
    <2>3. CASE h # g /\ h # n
      <3>1. InUse(h)
        BY <1>1, <1>2, <1>7, <2>3, GateAssumption DEF InUse, TypeOK
      <3> QED BY <1>1, <1>14, <1>20, <1>21, <2>3, <3>1 DEF PermitsConserved
    <2> QED BY <2>1, <2>2, <2>3
  <1>23. TypeOK'
    <2>1. Rest'
      BY <1>1, <1>7, <1>21 DEF Rest, TypeOK
    <2>2. Moved'
      BY <1>20 DEF Moved
    <2> QED BY <2>1, <2>2, TypeParts
  <1> QED BY <1>20, <1>22, <1>23 DEF Inv

LEMMA ThreadStep ==
    ASSUME Inv, ThreadStarts \/ \E c \in Callers : ThreadEnds(c)
    PROVE  Inv'
  <1> USE DEF Inv
  <1>1. CASE ThreadStarts
    <2>1. /\ threads' = threads \cup {Head(backlog)} /\ backlog' = Tail(backlog)
          /\ backlog # <<>>
          /\ UNCHANGED <<limit, device, provider, gate, size, free, waiters, caller, entered>>
      BY <1>1 DEF ThreadStarts, gateVars
    <2>2. Head(backlog) \in Callers /\ Tail(backlog) \in Seq(Callers)
      BY <2>1, HeadTailProperties DEF TypeOK
    <2>3. TypeOK'
      BY <2>1, <2>2 DEF TypeOK
    <2> QED BY <2>1, <2>3 DEF Line, Inside, PermitsConserved, Holders, InUse
  <1>2. ASSUME NEW c \in Callers, ThreadEnds(c) PROVE Inv'
    <2>1. PICK s \in {"returned", "raised", "idle"} :
             /\ caller' = [caller EXCEPT ![c] = s]
             /\ (caller[c] = "submitted" /\ s # "idle") \/ (caller[c] = "abandoned" /\ s = "idle")
      BY <1>2 DEF ThreadEnds
    <2>2. /\ UNCHANGED <<limit, device, gate, size, free, waiters, entered, backlog>>
          /\ provider' \in {provider, "cpu"} /\ threads' = threads \ {c}
      BY <1>2 DEF ThreadEnds, gateVars
    <2>3. TypeOK'
      BY <2>1, <2>2 DEF TypeOK
    <2>4. Line(waiters)'
      BY <2>1, <2>2, NotInLine DEF Line, TypeOK
    <2>5. Inside'
      BY <2>1, <2>2 DEF Inside, TypeOK
    <2>6. \A h \in Gates : Holders(h)' = Holders(h)
      BY <2>1, <2>2 DEF Holders, Holding, TypeOK
    <2>7. PermitsConserved'
      BY <2>2, <2>6 DEF PermitsConserved, InUse
    <2> QED BY <2>3, <2>4, <2>5, <2>7
  <1> QED BY <1>1, <1>2

LEMMA InvInit == Init => Inv
  <1> SUFFICES ASSUME Init PROVE Inv
    OBVIOUS
  <1>1. PICK e \in Nat \ {0} : e = Effective(limit, device)
    BY EffectiveType DEF Init
  <1>2. size = [g \in Gates |-> e] /\ free = size
    BY <1>1 DEF Init
  <1>3. TypeOK
    BY <1>2 DEF Init, TypeOK
  <1>4. Line(waiters) /\ Inside
    BY DEF Init, Line, Inside
  <1>5. \A g \in Gates : Holders(g) = {}
    BY DEF Init, Holders, Holding
  <1>6. PermitsConserved
    BY <1>2, <1>5, FS_EmptySet DEF PermitsConserved
  <1> QED BY <1>3, <1>4, <1>6 DEF Inv

LEMMA InvStep == Inv /\ [Next]_vars => Inv'
  <1> SUFFICES ASSUME Inv, [Next]_vars PROVE Inv'
    OBVIOUS
  <1>1. CASE Reconfigure
    <2>1. limit' \in Limits /\ device \in {"cuda", "cpu"} /\ NewGate(limit', device)
      BY <1>1 DEF Reconfigure, Inv, TypeOK
    <2>2. PICK l \in Limits, d \in {"cuda", "cpu"} : l = limit' /\ d = device
      BY <2>1
    <2>3. NewGate(l, d) /\ UNCHANGED <<device, provider, caller, entered, backlog, threads>>
      BY <1>1, <2>1, <2>2 DEF Reconfigure, poolVars
    <2>4. /\ gate' \in Gates /\ size' \in [Gates -> Nat \ {0}] /\ Moved'
          /\ Line(waiters)' /\ Inside' /\ PermitsConserved'
      BY <2>3, NewGateStep
    <2>5. Rest'
      BY <2>1, <2>3, <2>4 DEF Rest, Inv, TypeOK
    <2> QED BY <2>4, <2>5, TypeParts DEF Inv
  <1>2. CASE SwitchModel
    <2>1. /\ limit \in Limits /\ provider' \in {"cuda", "cpu"} /\ device' = provider'
          /\ NewGate(limit, provider')
      BY <1>2 DEF SwitchModel, Inv, TypeOK
    <2>2. PICK l \in Limits, d \in {"cuda", "cpu"} : l = limit /\ d = provider'
      BY <2>1
    <2>3. NewGate(l, d) /\ UNCHANGED <<limit, caller, entered, backlog, threads>>
      BY <1>2, <2>1, <2>2 DEF SwitchModel, poolVars
    <2>4. /\ gate' \in Gates /\ size' \in [Gates -> Nat \ {0}] /\ Moved'
          /\ Line(waiters)' /\ Inside' /\ PermitsConserved'
      BY <2>3, NewGateStep
    <2>5. Rest'
      BY <2>1, <2>3, <2>4 DEF Rest, Inv, TypeOK
    <2> QED BY <2>4, <2>5, TypeParts DEF Inv
  <1>3. CASE UNCHANGED vars
    <2>1. UNCHANGED <<limit, device, provider, gate, size, free, waiters, caller, entered,
                      backlog, threads>>
      BY <1>3, Zenon DEF vars, gateVars, poolVars
    <2>2. TypeOK'
      BY <2>1 DEF Inv, TypeOK
    <2>3. \A h \in Gates : Holders(h)' = Holders(h) /\ (InUse(h)' <=> InUse(h))
      BY <2>1 DEF Holders, InUse
    <2> QED BY <2>1, <2>2, <2>3 DEF Inv, Line, Inside, PermitsConserved
  <1>4. CASE Infer
    BY <1>4, EnterStep, SubmitStep, ThreadStep, ReturnStep, RaiseStep, Zenon DEF Infer
  <1> QED BY <1>1, <1>2, <1>3, <1>4, CancelStep, Zenon DEF Next

LEMMA Invariance == Spec => []Inv
  BY InvInit, InvStep, PTL DEF Spec

\* Types of the state (runtime.py:28-46, 129-142, 347-354).
THEOREM GateTypes == Spec => []TypeOK
  <1>1. Inv => TypeOK
    BY DEF Inv
  <1> QED BY <1>1, Invariance, PTL

\* No permit of a semaphore in use is lost or made up, wherever callers are cancelled and
\* however often it is replaced (runtime.py:129-142, 354).
THEOREM NoPermitLost == Spec => []PermitsConserved
  <1>1. Inv => PermitsConserved
    BY DEF Inv
  <1> QED BY <1>1, Invariance, PTL
===============================================================================
