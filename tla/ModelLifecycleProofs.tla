-------------------------- MODULE ModelLifecycleProofs --------------------------
(***************************************************************************)
(* What ModelLifecycle promises for all names, lengths, administrators and *)
(* inferences, and any memory.                                             *)
(***************************************************************************)
EXTENDS ModelLifecycle, FiniteSetTheorems, SequenceTheorems, TLAPS

\* The lock: who loads or tests has it, and only requests that wait for it, each once,
\* are in line behind one that has not ended.
LockInv ==
    /\ lock = Free => line = <<>>
    /\ \A a \in Admins : lock = a => admin[a] # Idle
    /\ \A a \in Admins : admin[a].step \in {"loading", "testing"} => lock = a
    /\ \A i \in 1 .. Len(line) : admin[line[i]].step \in Waiting /\ line[i] # lock
    /\ \A i, j \in 1 .. Len(line) : line[i] = line[j] => i = j

\* After the shutdown nothing is in progress, and until then a rollback that waits
\* has something to restore.
ClosedInv ==
    /\ closed => \A a \in Admins : admin[a] = Idle
    /\ closed => boot.step \in {"up", "failed", "cancelled"}
    /\ \A a \in Admins : admin[a].step = "rollback_waits" => previous # <<>>

\* A model under test is nowhere else, and what an activation installs is a model.
TestInv ==
    /\ \A a \in Admins : admin[a].step = "testing" =>
          /\ admin[a].object \notin InSlots
          /\ \A c \in Callers : using[c] # admin[a].object
          /\ built[admin[a].object].name = admin[a].as.name
    /\ \A i \in DOMAIN candidate : candidate[i].model # NoObject

\* The initial load: while it runs, the place it will fill is active or is what a
\* rollback restores, under the name it was started for; once it has filled it, there
\* is no empty place to return to, unless it overtook an activation.
BootInv ==
    /\ ready => boot.step = "up"
    /\ boot.step = "loading" =>
          /\ ~overtaken
          /\ model = NoObject => config.name = boot.as.name
          /\ \A i \in DOMAIN previous : previous[i].model = NoObject =>
                model # NoObject /\ previous[i].name = boot.as.name
    /\ boot.step \in {"warming", "up"} /\ ~overtaken =>
          /\ ~closed => model # NoObject
          /\ \A i \in DOMAIN previous : previous[i].model # NoObject

\* Every model that is active, or that a switch would install, is named for what it is.
NameInv ==
    ~overtaken =>
        /\ model # NoObject => built[model].name = config.name
        /\ \A i \in DOMAIN candidate : built[candidate[i].model].name = candidate[i].name
        /\ \A i \in DOMAIN previous :
              previous[i].model # NoObject => built[previous[i].model].name = previous[i].name

Inv == /\ TypeOK /\ LockInv /\ ClosedInv /\ TestInv /\ BootInv /\ NameInv
       /\ NothingUnloadedInUse /\ OperationSettles
-------------------------------------------------------------------------------
\* Where a request may be.
Where == {Idle}
         \cup [step : {"load_waits"}, name : Names]
         \cup [step : {"activate_waits", "rollback_waits"}]
         \cup [step : {"loading"}, as : Settings]
         \cup [step : {"testing"}, as : Settings, object : Objects]

LEMMA WhereIs ==
    ASSUME NEW w \in Where
    PROVE  /\ w = Idle <=> w.step = "idle"
           /\ w.step \in {"idle", "load_waits", "activate_waits", "rollback_waits", "loading",
                          "testing"}
           /\ w.step = "load_waits" => w.name \in Names
           /\ w.step \in {"loading", "testing"} => w.as \in Settings
           /\ w.step = "testing" => w.object \in Objects
  BY DEF Where, Idle

LEMMA AdminIs ==
    ASSUME TypeOK, NEW a \in Admins
    PROVE  /\ admin[a] \in Where
           /\ admin[a] = Idle <=> admin[a].step = "idle"
           /\ admin[a].step \in {"idle", "load_waits", "activate_waits", "rollback_waits",
                                 "loading", "testing"}
           /\ admin[a].step = "load_waits" => admin[a].name \in Names
           /\ admin[a].step \in {"loading", "testing"} => admin[a].as \in Settings
           /\ admin[a].step = "testing" => admin[a].object \in Objects
  <1>1. admin[a] \in Where
    BY DEF TypeOK, Where
  <1> QED BY <1>1, WhereIs

\* A slot holds nothing or one model with its name.
LEMMA SlotIs ==
    ASSUME NEW s \in {<<>>} \cup {<<x>> : x \in Slot}
    PROVE  /\ s = <<>> => DOMAIN s = {} /\ Len(s) = 0
           /\ s # <<>> => /\ DOMAIN s = {1} /\ Len(s) = 1
                          /\ s = <<s[1]>> /\ s[1] \in Slot
                          /\ s[1].model \in Objects \cup {NoObject} /\ s[1].name \in Names
           /\ \A i \in DOMAIN s : i = 1 /\ s # <<>>
  <1>1. CASE s = <<>>
    BY <1>1
  <1>2. ASSUME NEW x \in Slot, s = <<x>> PROVE s[1] = x /\ DOMAIN s = {1} /\ Len(s) = 1 /\ s # <<>>
    BY <1>2
  <1>3. \A x \in Slot : x.model \in Objects \cup {NoObject} /\ x.name \in Names
    BY DEF Slot
  <1> QED BY <1>1, <1>2, <1>3

LEMMA SlotOf ==
    ASSUME NEW o \in Objects \cup {NoObject}, NEW n \in Names
    PROVE  \E s \in Slot : s = [model |-> o, name |-> n] /\ s.model = o /\ s.name = n
  <1>1. [model |-> o, name |-> n] \in Slot
    BY DEF Slot
  <1> QED BY <1>1

\* What is in use, and what will be.
LEMMA InUseIs ==
    /\ \A o : o \in InUse <=>
          /\ o # NoObject
          /\ \/ o = model
             \/ \E i \in DOMAIN candidate : candidate[i].model = o
             \/ \E i \in DOMAIN previous : previous[i].model = o
             \/ \E a \in Admins : admin[a].step = "testing" /\ admin[a].object = o
             \/ \E c \in Callers : using[c] = o
    /\ \A o : o \in InUse' <=>
          /\ o # NoObject
          /\ \/ o = model'
             \/ \E i \in DOMAIN candidate' : candidate'[i].model = o
             \/ \E i \in DOMAIN previous' : previous'[i].model = o
             \/ \E a \in Admins : admin'[a].step = "testing" /\ admin'[a].object = o
             \/ \E c \in Callers : using'[c] = o
  BY DEF InUse, InSlots, Tested

\* At most one model is under test, each slot holds one and each inference uses one, so
\* that some object is always free for the next load.
LEMMA NewIsFree ==
    ASSUME TypeOK, LockInv
    PROVE  New \in Objects /\ New \notin InUse
  <1> DEFINE Used == {using[c] : c \in Callers}
             Cand == {candidate[i].model : i \in DOMAIN candidate}
             Prev == {previous[i].model : i \in DOMAIN previous}
  <1>1. IsFiniteSet(Used) /\ Cardinality(Used) <= Cardinality(Callers)
    <2>1. using \in Surjection(Callers, Used)
      <3>1. using \in [Callers -> Used]
        BY DEF TypeOK
      <3>2. \A u \in Used : \E c \in Callers : using[c] = u
        OBVIOUS
      <3> QED BY <3>1, <3>2 DEF Surjection
    <2> QED BY <2>1, FS_Surjection, LifecycleAssumption
  <1>2. PICK x : Cand \subseteq {x}
    <2>1. \A i \in DOMAIN candidate : i = 1
      BY SlotIs DEF TypeOK
    <2>2. Cand \subseteq {candidate[1].model}
      BY <2>1
    <2> QED BY <2>2
  <1>3. PICK y : Prev \subseteq {y}
    <2>1. \A i \in DOMAIN previous : i = 1
      BY SlotIs DEF TypeOK
    <2>2. Prev \subseteq {previous[1].model}
      BY <2>1
    <2> QED BY <2>2
  <1>4. PICK z : Tested \subseteq {z}
    BY DEF LockInv, Tested
  <1> DEFINE S1 == Used \cup {x}
             S2 == S1 \cup {y}
             S3 == S2 \cup {z}
             S4 == S3 \cup {model}
  <1>5. InUse \subseteq S4
    BY <1>2, <1>3, <1>4 DEF InUse, InSlots
  <1>6. IsFiniteSet(S1) /\ Cardinality(S1) <= Cardinality(Callers) + 1
    <2> HIDE DEF Used
    <2>1. Cardinality(Used) \in Nat /\ Cardinality(Callers) \in Nat
      BY <1>1, FS_CardinalityType, LifecycleAssumption
    <2>2. /\ IsFiniteSet(Used \cup {x})
          /\ Cardinality(Used \cup {x}) = IF x \in Used THEN Cardinality(Used)
                                          ELSE Cardinality(Used) + 1
      BY <1>1, FS_AddElement
    <2> QED BY <1>1, <2>1, <2>2
  <1> HIDE DEF S1
  <1>7. IsFiniteSet(S2) /\ Cardinality(S2) <= Cardinality(Callers) + 2
    <2>1. Cardinality(S1) \in Nat /\ Cardinality(Callers) \in Nat
      BY <1>6, FS_CardinalityType, LifecycleAssumption
    <2> QED BY <1>6, <2>1, FS_AddElement
  <1> HIDE DEF S2
  <1>8. IsFiniteSet(S3) /\ Cardinality(S3) <= Cardinality(Callers) + 3
    <2>1. Cardinality(S2) \in Nat /\ Cardinality(Callers) \in Nat
      BY <1>7, FS_CardinalityType, LifecycleAssumption
    <2> QED BY <1>7, <2>1, FS_AddElement
  <1> HIDE DEF S3
  <1>9. IsFiniteSet(S4) /\ Cardinality(S4) <= Cardinality(Callers) + 4
    <2>1. Cardinality(S3) \in Nat /\ Cardinality(Callers) \in Nat
      BY <1>8, FS_CardinalityType, LifecycleAssumption
    <2> QED BY <1>8, <2>1, FS_AddElement
  <1> HIDE DEF S4
  <1>10. \E o \in Objects : o \notin InUse
    <2> SUFFICES ASSUME Objects \subseteq S4 PROVE FALSE
      BY <1>5
    <2>1. Cardinality(Objects) <= Cardinality(S4)
      BY <1>9, FS_Subset
    <2>2. Cardinality(Objects) \in Nat /\ Cardinality(S4) \in Nat /\ Cardinality(Callers) \in Nat
      BY <1>9, FS_CardinalityType, LifecycleAssumption
    <2> QED BY <1>9, <2>1, <2>2, LifecycleAssumption
  <1> QED BY <1>10 DEF New

\* Loading keeps every model in use, and what was unloaded of them.
LEMMA FreshStep ==
    ASSUME TypeOK, LockInv, NEW s \in Settings, Fresh(s)
    PROVE  /\ built' \in [Objects -> Settings] /\ unloaded' \subseteq Objects
           /\ \A o \in Objects : o \in InUse => built'[o] = built[o]
           /\ built'[New] = s
           /\ unloaded' = unloaded \cap InUse
           /\ New \in Objects /\ New \notin InUse /\ New # NoObject
  <1>1. New \in Objects /\ New \notin InUse
    BY NewIsFree
  <1> QED BY <1>1, LifecycleAssumption DEF Fresh, TypeOK
-------------------------------------------------------------------------------
\* A request ends and hands the lock on.
LEMMA ReleaseStep ==
    ASSUME TypeOK, LockInv, NEW a \in Admins, lock = a, Release(a)
    PROVE  /\ LockInv'
           /\ lock' \in Admins \cup {Free} /\ line' \in Seq(Admins)
           /\ admin' = [admin EXCEPT ![a] = Idle] /\ admin' \in [Admins -> Where]
  <1>1. admin' = [admin EXCEPT ![a] = Idle] /\ admin' \in [Admins -> Where]
    BY AdminIs DEF Release, TypeOK, Where
  <1>2. \A b \in Admins : admin'[b] = IF b = a THEN Idle ELSE admin[b]
    BY <1>1 DEF TypeOK
  <1>3. Idle.step = "idle"
    BY DEF Idle
  <1>4. CASE line = <<>>
    <2>1. lock' = Free /\ line' = <<>>
      BY <1>4 DEF Release
    <2>2. \A b \in Admins : admin'[b].step \notin {"loading", "testing"}
      BY <1>2, <1>3 DEF LockInv
    <2> QED BY <1>1, <2>1, <2>2, LifecycleAssumption DEF LockInv
  <1>5. CASE line # <<>>
    <2>1. lock' = Head(line) /\ line' = Tail(line)
      BY <1>5 DEF Release
    <2>2. /\ line \in Seq(Admins) /\ Len(line) \in Nat \ {0} /\ Head(line) = line[1]
          /\ Tail(line) \in Seq(Admins) /\ Len(Tail(line)) = Len(line) - 1
          /\ \A i \in 1 .. Len(line) - 1 : Tail(line)[i] = line[i + 1]
      BY <1>5 DEF TypeOK
    <2>3. \A i \in 1 .. Len(line) : line[i] \in Admins /\ line[i] # a /\ admin[line[i]].step \in Waiting
      BY <2>2 DEF LockInv
    <2>4. line[1] \in Admins /\ line[1] # a /\ admin[line[1]].step \in Waiting
      BY <2>2, <2>3
    <2>5. lock' \in Admins /\ lock' # Free /\ admin'[lock'] # Idle
      BY <1>2, <2>1, <2>2, <2>4, <1>3, LifecycleAssumption DEF Waiting
    <2>6. \A b \in Admins : admin'[b].step \notin {"loading", "testing"}
      BY <1>2, <1>3 DEF LockInv
    <2>7. \A i \in 1 .. Len(line) - 1 : i + 1 \in 1 .. Len(line) /\ 1 \in 1 .. Len(line) /\ i + 1 # 1
      BY <2>2
    <2>8. \A i \in 1 .. Len(line') : admin'[line'[i]].step \in Waiting /\ line'[i] # lock'
      BY <1>2, <2>1, <2>2, <2>3, <2>7 DEF LockInv
    <2>9. \A i, j \in 1 .. Len(line') : line'[i] = line'[j] => i = j
      <3> SUFFICES ASSUME NEW i \in 1 .. Len(line) - 1, NEW j \in 1 .. Len(line) - 1,
                          line[i + 1] = line[j + 1]
                   PROVE  i = j
        BY <2>1, <2>2
      <3>1. i + 1 = j + 1
        BY <2>7 DEF LockInv
      <3> QED BY <3>1, <2>2
    <2> QED BY <1>1, <2>1, <2>2, <2>5, <2>6, <2>8, <2>9 DEF LockInv
  <1> QED BY <1>4, <1>5

\* A request waits behind the lock's owner.
LEMMA QueueStep ==
    ASSUME TypeOK, LockInv, NEW a \in Admins, admin[a] = Idle, NEW r \in Where,
           r.step \in Waiting, Queue(a, r)
    PROVE  /\ LockInv'
           /\ lock' \in Admins \cup {Free} /\ line' \in Seq(Admins)
           /\ admin' = [admin EXCEPT ![a] = r] /\ admin' \in [Admins -> Where]
  <1>1. admin' = [admin EXCEPT ![a] = r] /\ admin' \in [Admins -> Where]
    BY AdminIs DEF Queue, TypeOK
  <1>2. \A b \in Admins : admin'[b] = IF b = a THEN r ELSE admin[b]
    BY <1>1 DEF TypeOK
  <1>3. Idle.step = "idle" /\ r # Idle /\ r.step \notin {"loading", "testing"}
    BY DEF Idle, Waiting
  <1>4. lock' = lock /\ lock # Free /\ line' = Append(line, a)
    BY DEF Queue
  <1>5. /\ line \in Seq(Admins) /\ Len(line) \in Nat
        /\ line' \in Seq(Admins) /\ Len(line') = Len(line) + 1 /\ line'[Len(line) + 1] = a
        /\ \A i \in 1 .. Len(line) : line'[i] = line[i] /\ line[i] \in Admins
    BY <1>4 DEF TypeOK
  <1>6. \A i \in 1 .. Len(line) : line[i] # a
    BY <1>3 DEF LockInv, Waiting
  <1>7. \A i \in 1 .. Len(line') : i \in 1 .. Len(line) \/ i = Len(line) + 1
    BY <1>5
  <1>8. \A i \in 1 .. Len(line') : admin'[line'[i]].step \in Waiting /\ line'[i] # lock'
    BY <1>2, <1>4, <1>5, <1>6, <1>7 DEF LockInv
  <1>9. \A i, j \in 1 .. Len(line') : line'[i] = line'[j] => i = j
    BY <1>5, <1>6, <1>7 DEF LockInv
  <1>10. \A b \in Admins : /\ lock' = b => admin'[b] # Idle
                           /\ admin'[b].step \in {"loading", "testing"} => lock' = b
    BY <1>2, <1>3, <1>4 DEF LockInv
  <1> QED BY <1>1, <1>4, <1>5, <1>8, <1>9, <1>10, LifecycleAssumption DEF LockInv, TypeOK
-------------------------------------------------------------------------------
(* The initial load.                                                       *)

LEMMA BootIs ==
    ASSUME TypeOK
    PROVE  /\ boot.step \in {"loading", "warming", "up", "failed", "cancelled"}
           /\ boot.step = "loading" => boot.as \in Settings
  BY DEF TypeOK

LEMMA BootReturnsStep ==
    ASSUME Inv, BootReturns
    PROVE  Inv'
  <1> USE DEF Inv
  <1>1. boot.as \in Settings /\ ~closed /\ ~ready /\ ~overtaken
    BY BootIs DEF BootReturns, ClosedInv, BootInv
  <1>2. PICK n \in Objects : n = New
    BY NewIsFree
  <1>3. /\ built' \in [Objects -> Settings] /\ unloaded' \subseteq Objects
        /\ \A o \in Objects : o \in InUse => built'[o] = built[o]
        /\ built'[n] = boot.as
        /\ unloaded' = unloaded \cap InUse
        /\ n \notin InUse /\ n # NoObject
    BY <1>1, <1>2, FreshStep DEF BootReturns
  <1>4. /\ model' = n /\ boot' = [step |-> "warming"] /\ overtaken' = (model # NoObject)
        /\ UNCHANGED <<config, candidate, previous, ready, lock, line, admin, operation, using,
                       closed>>
    BY <1>2 DEF BootReturns, lockVars
  <1>5. TypeOK'
    BY <1>3, <1>4 DEF TypeOK
  <1>6. LockInv' /\ ClosedInv'
    BY <1>1, <1>4 DEF LockInv, ClosedInv
  <1>7. \A o : o \in InUse' => o = n \/ o \in InUse
    BY <1>4, InUseIs
  <1>8. /\ \A i \in DOMAIN candidate : candidate[i].model \in Objects \cup {NoObject}
        /\ \A i \in DOMAIN previous : previous[i].model \in Objects \cup {NoObject}
        /\ model \in Objects \cup {NoObject}
        /\ \A a \in Admins : admin[a].step = "testing" => admin[a].object \in Objects
    BY SlotIs, AdminIs DEF TypeOK
  <1>9. TestInv'
    <2>1. \A a \in Admins : admin[a].step = "testing" => admin[a].object \in InUse
      BY <1>8, InUseIs, LifecycleAssumption
    <2>2. InSlots' \subseteq InSlots \cup {n}
      BY <1>4 DEF InSlots
    <2> QED BY <1>3, <1>4, <1>8, <2>1, <2>2 DEF TestInv
  <1>10. BootInv'
    <2>1. boot'.step = "warming" /\ ~ready' /\ model' # NoObject
      BY <1>1, <1>3, <1>4
    <2>2. ~overtaken' => \A i \in DOMAIN previous' : previous'[i].model # NoObject
      BY <1>4 DEF BootInv, BootReturns
    <2> QED BY <2>1, <2>2 DEF BootInv
  <1>11. NameInv'
    <2> SUFFICES ASSUME model = NoObject PROVE NameInv'
      BY <1>4 DEF NameInv
    <2>1. config.name = boot.as.name
      BY DEF BootInv, BootReturns
    <2>2. /\ \A i \in DOMAIN candidate : candidate[i].model # NoObject => candidate[i].model \in InUse
          /\ \A i \in DOMAIN previous : previous[i].model # NoObject => previous[i].model \in InUse
      BY InUseIs
    <2> QED BY <1>1, <1>3, <1>4, <1>8, <2>1, <2>2 DEF NameInv, TestInv
  <1>12. NothingUnloadedInUse'
    BY <1>1, <1>3, <1>7 DEF NothingUnloadedInUse
  <1>13. OperationSettles'
    BY <1>4 DEF OperationSettles
  <1> QED BY <1>5, <1>6, <1>9, <1>10, <1>11, <1>12, <1>13

LEMMA BootEndsStep ==
    ASSUME Inv, BootWarm \/ BootFails
    PROVE  Inv'
  <1> USE DEF Inv
  <1>1. /\ boot.step \in {"loading", "warming"} /\ boot'.step \in {"up", "failed"}
        /\ \/ boot' = [step |-> "up"] /\ boot.step = "warming" /\ ready' = TRUE
           \/ boot' = [step |-> "failed"] /\ ready' = ready
        /\ operation'.status # "running"
        /\ operation' \in [type : {"initial_load"}, status : {"completed", "error"}]
        /\ UNCHANGED <<config, built, unloaded, slots, lockVars, admin, using, closed, overtaken>>
    BY DEF BootWarm, BootFails, Op
  <1>2. TypeOK'
    BY <1>1 DEF TypeOK, slots, lockVars
  <1>3. LockInv' /\ ClosedInv' /\ TestInv' /\ NameInv'
    BY <1>1 DEF slots, lockVars, LockInv, ClosedInv, TestInv, NameInv, InSlots
  <1>4. BootInv'
    BY <1>1 DEF slots, BootInv, ClosedInv
  <1>5. NothingUnloadedInUse'
    BY <1>1 DEF slots, NothingUnloadedInUse, InUse, InSlots, Tested
  <1> QED BY <1>1, <1>2, <1>3, <1>4, <1>5 DEF OperationSettles
-------------------------------------------------------------------------------
(* Requests that leave the models alone.                                   *)

OpTypes == {"initial_load", "candidate_load", "candidate_activate", "rollback"}
OpStates == {"running", "completed", "error"}

\* What such a step has to show for the invariant to hold after it.
LEMMA StepAside ==
    ASSUME Inv, ~closed, NEW a \in Admins, NEW w \in Where,
           w.step # "testing", w.step = "rollback_waits" => previous # <<>>,
           admin' = [admin EXCEPT ![a] = w],
           LockInv', lock' \in Admins \cup {Free}, line' \in Seq(Admins),
           operation' \in [type : OpTypes, status : OpStates],
           w = Idle => operation'.status # "running",
           UNCHANGED <<config, built, unloaded, slots, ready, boot, using, closed, overtaken>>
    PROVE  Inv'
  <1> USE DEF Inv, slots
  <1>1. admin' \in [Admins -> Where] /\ \A b \in Admins : admin'[b] = IF b = a THEN w ELSE admin[b]
    BY AdminIs DEF TypeOK
  <1>2. TypeOK'
    BY <1>1 DEF TypeOK, Where, OpTypes, OpStates
  <1>3. ClosedInv' /\ TestInv'
    BY <1>1 DEF ClosedInv, TestInv, InSlots
  <1>4. BootInv' /\ NameInv'
    BY DEF BootInv, NameInv
  <1>5. NothingUnloadedInUse'
    <2>1. \A o : o \in InUse' => o \in InUse
      BY <1>1, InUseIs
    <2> QED BY <2>1 DEF NothingUnloadedInUse
  <1>6. OperationSettles'
    BY <1>1 DEF OperationSettles
  <1> QED BY <1>2, <1>3, <1>4, <1>5, <1>6

LEMMA StillOpen ==
    ASSUME Inv, NEW a \in Admins, admin[a] # Idle
    PROVE  ~closed
  BY DEF Inv, ClosedInv

\* The load of a candidate begins, the lock being free or handed on to it.
LEMMA StartStep ==
    ASSUME TypeOK, LockInv, NEW a \in Admins, NEW n \in Names,
           lock = Free \/ lock = a, line' = line, StartLoad(a, n)
    PROVE  /\ LockInv' /\ lock' \in Admins \cup {Free} /\ line' \in Seq(Admins)
           /\ \E w \in Where : w.step = "loading" /\ w # Idle /\ admin' = [admin EXCEPT ![a] = w]
  <1> DEFINE w == [step |-> "loading", as |-> [name |-> n, length |-> config.length]]
  <1>1. w \in Where /\ w.step = "loading" /\ w # Idle
    BY DEF TypeOK, Settings, Where, Idle
  <1>2. lock' = a /\ admin' = [admin EXCEPT ![a] = w]
    BY DEF StartLoad
  <1> HIDE DEF w
  <1>3. \A b \in Admins : admin'[b] = IF b = a THEN w ELSE admin[b]
    BY <1>2 DEF TypeOK
  <1>4. \A b \in Admins : admin'[b].step \in {"loading", "testing"} => b = a
    BY <1>3, LifecycleAssumption DEF LockInv
  <1>5. line \in Seq(Admins) /\ \A i \in 1 .. Len(line) : line[i] \in Admins
    BY DEF TypeOK
  <1>6. \A i \in 1 .. Len(line) : admin[line[i]].step \in Waiting /\ line[i] # a
    <2>1. CASE lock = a
      BY <2>1 DEF LockInv
    <2>2. CASE lock = Free
      BY <2>2 DEF LockInv
    <2> QED BY <2>1, <2>2
  <1>7. \A i \in 1 .. Len(line') : admin'[line'[i]].step \in Waiting /\ line'[i] # lock'
    BY <1>2, <1>3, <1>5, <1>6
  <1>8. LockInv'
    <2>1. /\ lock' # Free
          /\ \A b \in Admins : lock' = b => admin'[b] # Idle
          /\ \A b \in Admins : admin'[b].step \in {"loading", "testing"} => lock' = b
      BY <1>1, <1>2, <1>3, <1>4, LifecycleAssumption
    <2>2. \A i, j \in 1 .. Len(line') : line'[i] = line'[j] => i = j
      BY DEF LockInv
    <2> QED BY <1>7, <2>1, <2>2 DEF LockInv
  <1> QED BY <1>1, <1>2, <1>5, <1>8

LEMMA LoadCandidateStep ==
    ASSUME Inv, NEW a \in Admins, NEW n \in Names, LoadCandidate(a, n)
    PROVE  Inv'
  <1>1. /\ ~closed /\ admin[a] = Idle
        /\ operation' \in [type : OpTypes, status : OpStates]
        /\ UNCHANGED <<config, built, unloaded, slots, ready, boot, using, closed, overtaken>>
    BY DEF LoadCandidate, Available, Op, OpTypes, OpStates
  <1>2. CASE lock = Free /\ StartLoad(a, n) /\ line' = line
    <2>1. PICK w \in Where : w.step = "loading" /\ w # Idle /\ admin' = [admin EXCEPT ![a] = w]
      BY <1>2, StartStep DEF Inv
    <2>2. LockInv' /\ lock' \in Admins \cup {Free} /\ line' \in Seq(Admins)
      BY <1>2, StartStep DEF Inv
    <2> QED BY <1>1, <2>1, <2>2, StepAside
  <1>3. CASE Queue(a, [step |-> "load_waits", name |-> n])
    <2>1. PICK w \in Where : w = [step |-> "load_waits", name |-> n]
      BY DEF Where
    <2>2. w.step = "load_waits" /\ w # Idle
      BY <2>1 DEF Idle
    <2>3. /\ LockInv' /\ lock' \in Admins \cup {Free} /\ line' \in Seq(Admins)
          /\ admin' = [admin EXCEPT ![a] = w]
      BY <1>1, <1>3, <2>1, <2>2, QueueStep DEF Inv, Waiting
    <2> QED BY <1>1, <2>2, <2>3, StepAside
  <1> QED BY <1>2, <1>3 DEF LoadCandidate

LEMMA ResumeLoadStep ==
    ASSUME Inv, NEW a \in Admins, ResumeLoad(a)
    PROVE  Inv'
  <1>1. admin[a].step = "load_waits" /\ lock = a /\ line' = line /\ StartLoad(a, admin[a].name)
    BY DEF ResumeLoad
  <1>2. admin[a].name \in Names /\ admin[a] # Idle
    BY <1>1, AdminIs DEF Inv
  <1>3. PICK w \in Where : w.step = "loading" /\ w # Idle /\ admin' = [admin EXCEPT ![a] = w]
    BY <1>1, <1>2, StartStep DEF Inv
  <1>4. LockInv' /\ lock' \in Admins \cup {Free} /\ line' \in Seq(Admins)
    BY <1>1, <1>2, StartStep DEF Inv
  <1>5. operation' \in [type : OpTypes, status : OpStates]
    BY DEF ResumeLoad, Inv, TypeOK, OpTypes, OpStates
  <1>6. UNCHANGED <<config, built, unloaded, slots, ready, boot, using, closed, overtaken>>
    BY DEF ResumeLoad
  <1>7. ~closed
    BY <1>2, StillOpen
  <1> QED BY <1>3, <1>4, <1>5, <1>6, <1>7, StepAside

LEMMA CheckEndsStep ==
    ASSUME Inv, NEW a \in Admins, CheckEnds(a)
    PROVE  Inv'
  <1>1. /\ ~closed /\ admin[a] = Idle
        /\ operation' \in [type : OpTypes, status : OpStates] /\ operation'.status # "running"
        /\ UNCHANGED <<config, built, unloaded, slots, ready, boot, using, closed, overtaken>>
        /\ UNCHANGED <<lock, line, admin>>
    BY DEF CheckEnds, Available, Op, OpTypes, OpStates, lockVars
  <1>2. LockInv' /\ lock' \in Admins \cup {Free} /\ line' \in Seq(Admins)
    BY <1>1 DEF Inv, LockInv, TypeOK
  <1>3. admin' = [admin EXCEPT ![a] = Idle]
    BY <1>1 DEF Inv, TypeOK
  <1>4. Idle \in Where /\ Idle.step = "idle"
    BY DEF Where, Idle
  <1> QED BY <1>1, <1>2, <1>3, <1>4, StepAside

LEMMA LoadRaisesStep ==
    ASSUME Inv, NEW a \in Admins, LoadRaises(a)
    PROVE  Inv'
  <1>1. /\ admin[a].step = "loading" /\ Release(a)
        /\ operation' \in [type : OpTypes, status : OpStates] /\ operation'.status # "running"
        /\ UNCHANGED <<config, built, unloaded, slots, ready, boot, using, closed, overtaken>>
    BY DEF LoadRaises, Op, OpTypes, OpStates
  <1>2. lock = a /\ ~closed
    BY <1>1, AdminIs, StillOpen DEF Inv, LockInv
  <1>3. /\ LockInv' /\ lock' \in Admins \cup {Free} /\ line' \in Seq(Admins)
        /\ admin' = [admin EXCEPT ![a] = Idle]
    BY <1>1, <1>2, ReleaseStep DEF Inv
  <1>4. Idle \in Where /\ Idle.step = "idle"
    BY DEF Where, Idle
  <1> QED BY <1>1, <1>2, <1>3, <1>4, StepAside
-------------------------------------------------------------------------------
(* The candidate is loaded and tested.                                     *)

LEMMA LoadReturnsStep ==
    ASSUME Inv, NEW a \in Admins, LoadReturns(a)
    PROVE  Inv'
  <1> USE DEF Inv
  <1>1. /\ admin[a].step = "loading" /\ admin[a].as \in Settings /\ admin[a] # Idle
        /\ lock = a /\ ~closed
    BY AdminIs, StillOpen DEF LoadReturns, LockInv
  <1>2. PICK n \in Objects : n = New
    BY NewIsFree
  <1>3. /\ built' \in [Objects -> Settings] /\ unloaded' \subseteq Objects
        /\ \A o \in Objects : o \in InUse => built'[o] = built[o]
        /\ built'[n] = admin[a].as
        /\ unloaded' = unloaded \cap InUse
        /\ n \notin InUse /\ n # NoObject
    BY <1>1, <1>2, FreshStep DEF LoadReturns
  <1>4. PICK w \in Where : w = [step |-> "testing", as |-> admin[a].as, object |-> n]
    BY <1>1 DEF Where
  <1>5. /\ admin' = [admin EXCEPT ![a] = w]
        /\ UNCHANGED <<config, model, candidate, previous, ready, boot, lock, line, operation, using,
                       closed, overtaken>>
    BY <1>2, <1>4 DEF LoadReturns, slots, lockVars
  <1>6. admin' \in [Admins -> Where] /\ \A b \in Admins : admin'[b] = IF b = a THEN w ELSE admin[b]
    BY <1>5, AdminIs DEF TypeOK
  <1>7. w.step = "testing" /\ w.object = n /\ w.as = admin[a].as /\ w # Idle
    BY <1>4 DEF Idle
  <1>8. TypeOK'
    BY <1>3, <1>5, <1>6 DEF TypeOK, Where
  <1>9. LockInv'
    <2>1. \A i \in 1 .. Len(line) : line[i] \in Admins /\ line[i] # a
      BY <1>1 DEF TypeOK, LockInv
    <2>2. \A i \in 1 .. Len(line') : admin'[line'[i]].step \in Waiting /\ line'[i] # lock'
      BY <1>5, <1>6, <2>1 DEF LockInv
    <2>3. /\ \A b \in Admins : lock' = b => admin'[b] # Idle
          /\ \A b \in Admins : admin'[b].step \in {"loading", "testing"} => lock' = b
      BY <1>1, <1>5, <1>6, <1>7 DEF LockInv
    <2> QED BY <1>5, <2>2, <2>3 DEF LockInv
  <1>10. ClosedInv'
    BY <1>1, <1>5, <1>6, <1>7 DEF ClosedInv
  <1>11. \A b \in Admins : admin'[b].step = "testing" => b = a
    BY <1>1, <1>6 DEF LockInv
  <1>12. /\ \A i \in DOMAIN candidate : candidate[i].model \in Objects \cup {NoObject}
         /\ \A i \in DOMAIN previous : previous[i].model \in Objects \cup {NoObject}
         /\ model \in Objects \cup {NoObject}
    BY SlotIs DEF TypeOK
  <1>13. TestInv'
    <2>1. n \notin InSlots /\ \A c \in Callers : using[c] # n
      BY <1>3 DEF InUse
    <2>2. InSlots' = InSlots
      BY <1>5 DEF InSlots
    <2> QED BY <1>3, <1>5, <1>6, <1>7, <1>11, <2>1, <2>2 DEF TestInv
  <1>14. BootInv'
    BY <1>5 DEF BootInv
  <1>15. NameInv'
    <2>1. /\ \A i \in DOMAIN candidate : candidate[i].model \in InUse
          /\ \A i \in DOMAIN previous : previous[i].model # NoObject => previous[i].model \in InUse
          /\ model # NoObject => model \in InUse
      BY InUseIs DEF TestInv
    <2> QED BY <1>3, <1>5, <1>12, <2>1 DEF NameInv, TestInv
  <1>16. NothingUnloadedInUse'
    <2>1. \A o : o \in InUse' => o = n \/ o \in InUse
      BY <1>5, <1>6, <1>7, InUseIs
    <2> QED BY <1>1, <1>3, <2>1 DEF NothingUnloadedInUse
  <1>17. OperationSettles'
    BY <1>6, <1>7 DEF OperationSettles
  <1> QED BY <1>8, <1>9, <1>10, <1>13, <1>14, <1>15, <1>16, <1>17

\* A test that ends leaves no model under test.
LEMMA TestEnds ==
    ASSUME Inv, NEW a \in Admins, admin[a].step = "testing", Release(a)
    PROVE  /\ lock = a /\ ~closed /\ admin[a].object \in Objects /\ admin[a].as \in Settings
           /\ LockInv' /\ lock' \in Admins \cup {Free} /\ line' \in Seq(Admins)
           /\ admin' \in [Admins -> Where]
           /\ \A b \in Admins : admin'[b] = IF b = a THEN Idle ELSE admin[b]
           /\ \A b \in Admins : admin'[b].step # "testing"
  <1>1. lock = a /\ ~closed
    BY AdminIs, StillOpen DEF Inv, LockInv
  <1>2. /\ LockInv' /\ lock' \in Admins \cup {Free} /\ line' \in Seq(Admins)
        /\ admin' = [admin EXCEPT ![a] = Idle] /\ admin' \in [Admins -> Where]
    BY <1>1, ReleaseStep DEF Inv
  <1>3. \A b \in Admins : admin'[b] = IF b = a THEN Idle ELSE admin[b]
    BY <1>2 DEF Inv, TypeOK
  <1>4. Idle.step = "idle"
    BY DEF Idle
  <1>5. \A b \in Admins : admin'[b].step # "testing"
    BY <1>1, <1>3, <1>4 DEF Inv, LockInv
  <1>6. admin[a].object \in Objects /\ admin[a].as \in Settings
    BY AdminIs DEF Inv
  <1> QED BY <1>1, <1>2, <1>3, <1>5, <1>6

LEMMA TestPassesStep ==
    ASSUME Inv, NEW a \in Admins, TestPasses(a)
    PROVE  Inv'
  <1> USE DEF Inv
  <1>1. admin[a].step = "testing" /\ Release(a)
    BY DEF TestPasses
  <1>2. /\ ~closed /\ admin[a].object \in Objects /\ admin[a].as \in Settings
        /\ LockInv' /\ lock' \in Admins \cup {Free} /\ line' \in Seq(Admins)
        /\ admin' \in [Admins -> Where]
        /\ \A b \in Admins : admin'[b] = IF b = a THEN Idle ELSE admin[b]
        /\ \A b \in Admins : admin'[b].step # "testing"
    BY <1>1, TestEnds
  <1>3. PICK s \in Slot : s = [model |-> admin[a].object, name |-> admin[a].as.name]
    <2>1. admin[a].object \in Objects \cup {NoObject} /\ admin[a].as.name \in Names
      BY <1>2 DEF Settings
    <2> QED BY <2>1, SlotOf
  <1>4. /\ candidate' = <<s>>
        /\ operation' = [type |-> "candidate_load", status |-> "completed"]
        /\ UNCHANGED <<config, built, unloaded, model, previous, ready, boot, using, closed, overtaken>>
    BY <1>3 DEF TestPasses, Op
  <1>5. TypeOK'
    BY <1>2, <1>4 DEF TypeOK, Where
  <1>6. ClosedInv'
    BY <1>2, <1>4 DEF ClosedInv, Idle
  <1>7. DOMAIN candidate' = {1} /\ candidate'[1] = s
    BY <1>4
  <1>8. s.model = admin[a].object /\ s.name = admin[a].as.name /\ s.model # NoObject
    BY <1>2, <1>3, LifecycleAssumption
  <1>9. TestInv'
    BY <1>2, <1>7, <1>8 DEF TestInv
  <1>10. BootInv'
    BY <1>4 DEF BootInv
  <1>11. NameInv'
    BY <1>1, <1>4, <1>7, <1>8 DEF NameInv, TestInv
  <1>12. NothingUnloadedInUse'
    <2>1. s.model \in InUse
      BY <1>1, <1>8, InUseIs
    <2>2. \A o : o \in InUse' => o \in InUse
      BY <1>2, <1>4, <1>7, <2>1, InUseIs
    <2> QED BY <1>4, <2>2 DEF NothingUnloadedInUse
  <1>13. OperationSettles'
    BY <1>4 DEF OperationSettles
  <1> QED BY <1>2, <1>5, <1>6, <1>9, <1>10, <1>11, <1>12, <1>13

LEMMA TestFailsStep ==
    ASSUME Inv, NEW a \in Admins, TestFails(a)
    PROVE  Inv'
  <1> USE DEF Inv
  <1>1. admin[a].step = "testing" /\ Release(a)
    BY DEF TestFails
  <1>2. /\ ~closed /\ admin[a].object \in Objects /\ admin[a].as \in Settings
        /\ LockInv' /\ lock' \in Admins \cup {Free} /\ line' \in Seq(Admins)
        /\ admin' \in [Admins -> Where]
        /\ \A b \in Admins : admin'[b] = IF b = a THEN Idle ELSE admin[b]
        /\ \A b \in Admins : admin'[b].step # "testing"
    BY <1>1, TestEnds
  <1>3. /\ unloaded' = unloaded \cup {admin[a].object}
        /\ operation' = [type |-> "candidate_load", status |-> "error"]
        /\ UNCHANGED <<config, built, model, candidate, previous, ready, boot, using, closed, overtaken>>
    BY DEF TestFails, Op, slots
  <1>4. TypeOK'
    BY <1>2, <1>3 DEF TypeOK, Where
  <1>5. ClosedInv'
    BY <1>2, <1>3 DEF ClosedInv, Idle
  <1>6. TestInv' /\ BootInv' /\ NameInv'
    BY <1>2, <1>3 DEF TestInv, BootInv, NameInv
  <1>7. NothingUnloadedInUse'
    <2>1. \A o : o \in InUse' => o \in InUse /\ o # admin[a].object
      <3>1. admin[a].object \notin InSlots' /\ \A c \in Callers : using'[c] # admin[a].object
        BY <1>1, <1>3 DEF TestInv, InSlots
      <3>2. admin[a].object \notin InUse'
        BY <1>2, <3>1 DEF InUse, Tested
      <3> QED BY <1>2, <1>3, <3>2, InUseIs
    <2> QED BY <1>3, <2>1 DEF NothingUnloadedInUse
  <1>8. OperationSettles'
    BY <1>3 DEF OperationSettles
  <1> QED BY <1>2, <1>4, <1>5, <1>6, <1>7, <1>8
-------------------------------------------------------------------------------
(* Activation and rollback.                                                *)

\* Either one moves models between the slots, with their names.
LEMMA SwitchStep ==
    ASSUME Inv, ~closed, Activation \/ (previous # <<>> /\ Restoration), NEW a \in Admins,
           LockInv', lock' \in Admins \cup {Free}, line' \in Seq(Admins),
           admin' = [admin EXCEPT ![a] = Idle],
           UNCHANGED <<built, unloaded, ready, boot, using, closed, overtaken>>
    PROVE  Inv'
  <1> USE DEF Inv
  <1>1. admin' \in [Admins -> Where] /\ \A b \in Admins : admin'[b] = IF b = a THEN Idle ELSE admin[b]
    BY AdminIs DEF TypeOK, Where
  <1>2. Idle.step = "idle"
    BY DEF Idle
  <1>3. /\ operation' \in [type : {"candidate_activate", "rollback"}, status : {"completed", "error"}]
        /\ operation'.status # "running"
    BY DEF Activation, Restoration, Op
  <1>4. /\ candidate # <<>> => DOMAIN candidate = {1} /\ candidate[1].name \in Names
                               /\ candidate[1].model \in Objects \cup {NoObject}
        /\ previous # <<>> => DOMAIN previous = {1} /\ previous[1].name \in Names
                              /\ previous[1].model \in Objects \cup {NoObject}
        /\ candidate = <<>> => DOMAIN candidate = {}
        /\ config.name \in Names /\ model \in Objects \cup {NoObject}
    BY SlotIs DEF TypeOK, Settings
  <1>5. PICK s \in Slot : s = [model |-> model, name |-> config.name]
    BY <1>4, SlotOf
  <1>6. s.model = model /\ s.name = config.name
    BY <1>5
  <1>7. CASE candidate = <<>> /\ Activation
    <2>1. UNCHANGED <<config, model, candidate, previous>>
      BY <1>7 DEF Activation, slots
    <2>2. TypeOK'
      BY <1>1, <1>3, <2>1 DEF TypeOK, Where
    <2>3. ClosedInv' /\ TestInv' /\ BootInv' /\ NameInv'
      BY <1>1, <1>2, <2>1 DEF ClosedInv, TestInv, InSlots, BootInv, NameInv
    <2>4. \A o : o \in InUse' => o \in InUse
      BY <1>1, <1>2, <2>1, InUseIs
    <2> QED BY <1>3, <2>2, <2>3, <2>4 DEF NothingUnloadedInUse, OperationSettles
  <1>8. CASE candidate # <<>> /\ Activation
    <2>1. /\ previous' = <<s>> /\ model' = candidate[1].model /\ candidate' = <<>>
          /\ config' = [config EXCEPT !.name = candidate[1].name]
      BY <1>5, <1>8 DEF Activation
    <2>2. /\ DOMAIN previous' = {1} /\ previous'[1] = s /\ DOMAIN candidate' = {}
          /\ config' \in Settings /\ config'.name = candidate[1].name /\ model' # NoObject
      <3>1. DOMAIN previous' = {1} /\ previous'[1] = s /\ DOMAIN candidate' = {}
        BY <2>1
      <3>2. config' \in Settings /\ config'.name = candidate[1].name
        BY <1>4, <1>8, <2>1 DEF TypeOK, Settings
      <3>3. model' # NoObject
        BY <1>4, <1>8, <2>1 DEF TestInv
      <3> QED BY <3>1, <3>2, <3>3
    <2>3. TypeOK'
      BY <1>1, <1>3, <1>4, <1>8, <2>1, <2>2 DEF TypeOK, Where
    <2>4. \A o : o \in InUse' => o \in InUse
      BY <1>1, <1>2, <1>4, <1>6, <1>8, <2>1, <2>2, InUseIs
    <2>5. InSlots' \subseteq InSlots
      BY <1>4, <1>6, <1>8, <2>1, <2>2 DEF InSlots
    <2>6. ClosedInv' /\ TestInv'
      BY <1>1, <1>2, <2>1, <2>2, <2>5 DEF ClosedInv, TestInv
    <2>7. BootInv'
      BY <1>6, <2>1, <2>2 DEF BootInv
    <2>8. NameInv'
      BY <1>4, <1>6, <1>8, <2>1, <2>2 DEF NameInv
    <2> QED BY <1>3, <2>3, <2>4, <2>6, <2>7, <2>8 DEF NothingUnloadedInUse, OperationSettles
  <1>9. CASE previous # <<>> /\ Restoration
    <2>1. /\ previous' = <<s>> /\ model' = previous[1].model /\ candidate' = candidate
          /\ config' = [config EXCEPT !.name = previous[1].name]
      BY <1>5, <1>9 DEF Restoration
    <2>2. /\ DOMAIN previous' = {1} /\ previous'[1] = s
          /\ config' \in Settings /\ config'.name = previous[1].name
      BY <1>4, <1>9, <2>1 DEF TypeOK, Settings
    <2>3. TypeOK'
      BY <1>1, <1>3, <1>4, <1>9, <2>1, <2>2 DEF TypeOK, Where
    <2>4. \A o : o \in InUse' => o \in InUse
      BY <1>1, <1>2, <1>4, <1>6, <1>9, <2>1, <2>2, InUseIs
    <2>5. InSlots' \subseteq InSlots
      BY <1>4, <1>6, <1>9, <2>1, <2>2 DEF InSlots
    <2>6. ClosedInv' /\ TestInv'
      BY <1>1, <1>2, <2>1, <2>2, <2>5 DEF ClosedInv, TestInv
    <2>7. BootInv'
      BY <1>4, <1>6, <1>9, <2>1, <2>2 DEF BootInv
    <2>8. NameInv'
      BY <1>4, <1>6, <1>9, <2>1, <2>2 DEF NameInv
    <2> QED BY <1>3, <2>3, <2>4, <2>6, <2>7, <2>8 DEF NothingUnloadedInUse, OperationSettles
  <1> QED BY <1>7, <1>8, <1>9

LEMMA SwitchRequestStep ==
    ASSUME Inv, NEW a \in Admins, ActivateCandidate(a) \/ Rollback(a)
    PROVE  Inv'
  <1>1. /\ ~closed /\ admin[a] = Idle
        /\ UNCHANGED <<built, unloaded, ready, boot, using, closed, overtaken>>
    BY DEF ActivateCandidate, Rollback, Available
  <1>2. CASE /\ lock = Free /\ UNCHANGED <<lockVars, admin>>
             /\ Activation \/ (previous # <<>> /\ Restoration)
    <2>1. LockInv' /\ lock' \in Admins \cup {Free} /\ line' \in Seq(Admins)
      BY <1>2 DEF Inv, LockInv, TypeOK, lockVars
    <2>2. admin' = [admin EXCEPT ![a] = Idle]
      BY <1>1, <1>2 DEF Inv, TypeOK
    <2> QED BY <1>1, <1>2, <2>1, <2>2, SwitchStep
  <1>3. ASSUME NEW t \in {"activate_waits", "rollback_waits"}, Queue(a, [step |-> t]),
               t = "rollback_waits" => previous # <<>>,
               operation' \in [type : OpTypes, status : OpStates],
               UNCHANGED <<config, slots>>
        PROVE  Inv'
    <2>1. PICK w \in Where : w = [step |-> t]
      BY DEF Where
    <2>2. w.step = t /\ w # Idle /\ w.step \in Waiting
      BY <2>1 DEF Idle, Waiting
    <2>3. /\ LockInv' /\ lock' \in Admins \cup {Free} /\ line' \in Seq(Admins)
          /\ admin' = [admin EXCEPT ![a] = w]
      BY <1>1, <1>3, <2>1, <2>2, QueueStep DEF Inv
    <2> QED BY <1>1, <1>3, <2>2, <2>3, StepAside
  <1>4. CASE ActivateCandidate(a)
    <2>1. \/ lock = Free /\ Activation /\ UNCHANGED <<lockVars, admin>>
          \/ /\ Queue(a, [step |-> "activate_waits"])
             /\ Op("candidate_activate", "running")
             /\ UNCHANGED <<config, slots>>
      BY <1>4 DEF ActivateCandidate
    <2>2. Op("candidate_activate", "running") => operation' \in [type : OpTypes, status : OpStates]
      BY DEF Op, OpTypes, OpStates
    <2> QED BY <1>2, <1>3, <2>1, <2>2
  <1>5. CASE Rollback(a)
    <2>1. /\ previous # <<>>
          /\ \/ lock = Free /\ Restoration /\ UNCHANGED <<lockVars, admin>>
             \/ /\ Queue(a, [step |-> "rollback_waits"])
                /\ Op("rollback", "running")
                /\ UNCHANGED <<config, slots>>
      BY <1>5 DEF Rollback
    <2>2. Op("rollback", "running") => operation' \in [type : OpTypes, status : OpStates]
      BY DEF Op, OpTypes, OpStates
    <2> QED BY <1>2, <1>3, <2>1, <2>2
  <1> QED BY <1>4, <1>5

LEMMA ResumeSwitchStep ==
    ASSUME Inv, NEW a \in Admins, ResumeSwitch(a)
    PROVE  Inv'
  <1>1. /\ lock = a /\ Release(a) /\ admin[a] # Idle
        /\ UNCHANGED <<built, unloaded, ready, boot, using, closed, overtaken>>
    BY AdminIs DEF ResumeSwitch, Inv
  <1>2. Activation \/ (previous # <<>> /\ Restoration)
    BY DEF ResumeSwitch, Inv, ClosedInv
  <1>3. /\ LockInv' /\ lock' \in Admins \cup {Free} /\ line' \in Seq(Admins)
        /\ admin' = [admin EXCEPT ![a] = Idle]
    BY <1>1, ReleaseStep DEF Inv
  <1>4. ~closed
    BY <1>1, StillOpen
  <1> QED BY <1>1, <1>2, <1>3, <1>4, SwitchStep
-------------------------------------------------------------------------------
(* The settings, inferences and the shutdown.                              *)

LEMMA ReconfigureStep ==
    ASSUME Inv, Reconfigure
    PROVE  Inv'
  <1> USE DEF Inv
  <1>1. PICK l \in Lengths :
           /\ config' = [config EXCEPT !.length = l]
           /\ built' = IF model = NoObject THEN built ELSE [built EXCEPT ![model].length = l]
    BY DEF Reconfigure
  <1>2. UNCHANGED <<unloaded, model, candidate, previous, ready, boot, lock, line, admin, operation,
                    using, closed, overtaken>>
    BY DEF Reconfigure, slots, lockVars
  <1>3. config' \in Settings /\ config'.name = config.name
    BY <1>1 DEF TypeOK, Settings
  <1>4. built' \in [Objects -> Settings] /\ \A o \in Objects : built'[o].name = built[o].name
    BY <1>1 DEF TypeOK, Settings
  <1>5. TypeOK'
    BY <1>2, <1>3, <1>4 DEF TypeOK
  <1>6. LockInv' /\ ClosedInv'
    BY <1>2 DEF LockInv, ClosedInv
  <1>7. /\ \A i \in DOMAIN candidate : candidate[i].model \in Objects \cup {NoObject}
        /\ \A i \in DOMAIN previous : previous[i].model \in Objects \cup {NoObject}
        /\ model \in Objects \cup {NoObject}
        /\ \A a \in Admins : admin[a].step = "testing" => admin[a].object \in Objects
    BY SlotIs, AdminIs DEF TypeOK
  <1>8. TestInv'
    BY <1>2, <1>4, <1>7 DEF TestInv, InSlots
  <1>9. BootInv' /\ NameInv'
    BY <1>2, <1>3, <1>4, <1>7 DEF BootInv, NameInv, TestInv
  <1>10. NothingUnloadedInUse' /\ OperationSettles'
    BY <1>2 DEF NothingUnloadedInUse, OperationSettles, InUse, InSlots, Tested
  <1> QED BY <1>5, <1>6, <1>8, <1>9, <1>10

LEMMA PredictStep ==
    ASSUME Inv, NEW c \in Callers, PredictStarts(c) \/ PredictEnds(c)
    PROVE  Inv'
  <1> USE DEF Inv
  <1>1. PICK o \in {model, NoObject} : using' = [using EXCEPT ![c] = o]
    BY DEF PredictStarts, PredictEnds
  <1>2. UNCHANGED <<config, built, unloaded, model, candidate, previous, ready, boot, lock, line,
                    admin, operation, closed, overtaken>>
    BY DEF PredictStarts, PredictEnds, slots, lockVars
  <1>3. /\ using' \in [Callers -> Objects \cup {NoObject}]
        /\ \A d \in Callers : using'[d] = IF d = c THEN o ELSE using[d]
    BY <1>1 DEF TypeOK
  <1>4. TypeOK' /\ LockInv' /\ ClosedInv'
    BY <1>2, <1>3 DEF TypeOK, LockInv, ClosedInv
  <1>5. TestInv'
    <2>1. model \in InSlots
      BY DEF InSlots
    <2>2. \A a \in Admins : admin[a].step = "testing" => admin[a].object # NoObject
      BY AdminIs, LifecycleAssumption
    <2> QED BY <1>2, <1>3, <2>1, <2>2 DEF TestInv, InSlots
  <1>6. BootInv' /\ NameInv'
    BY <1>2 DEF BootInv, NameInv
  <1>7. NothingUnloadedInUse'
    <2>1. \A x : x \in InUse' => x \in InUse
      BY <1>2, <1>3, InUseIs
    <2> QED BY <1>2, <2>1 DEF NothingUnloadedInUse
  <1>8. OperationSettles'
    BY <1>2 DEF OperationSettles
  <1> QED BY <1>4, <1>5, <1>6, <1>7, <1>8

LEMMA CloseStep ==
    ASSUME Inv, Close
    PROVE  Inv'
  <1> USE DEF Inv
  <1>1. /\ \A a \in Admins : admin[a] = Idle
        /\ unloaded' = unloaded \cup (InSlots \ {NoObject})
        /\ model' = NoObject /\ candidate' = <<>> /\ previous' = <<>>
        /\ boot' = IF boot.step \in {"up", "failed"} THEN boot ELSE [step |-> "cancelled"]
        /\ closed' = TRUE
        /\ UNCHANGED <<config, built, ready, lock, line, admin, operation, using, overtaken>>
    BY DEF Close, lockVars
  <1>2. InSlots \subseteq Objects \cup {NoObject}
    BY SlotIs DEF InSlots, TypeOK
  <1>3. /\ boot'.step \in {"up", "failed", "cancelled"}
        /\ boot' = boot \/ boot' = [step |-> "cancelled"]
        /\ boot'.step \in {"up", "failed"} => boot' = boot
        /\ boot.step = "up" => boot'.step = "up"
    BY <1>1
  <1>4. TypeOK'
    <2>1. boot' \in [step : {"loading"}, as : Settings]
                    \cup [step : {"warming", "up", "failed", "cancelled"}]
      BY <1>3 DEF TypeOK
    <2> QED BY <1>1, <1>2, <2>1 DEF TypeOK
  <1>5. LockInv'
    BY <1>1 DEF LockInv
  <1>6. Idle.step = "idle" /\ DOMAIN candidate' = {} /\ DOMAIN previous' = {}
    BY <1>1 DEF Idle
  <1>7. ClosedInv' /\ TestInv'
    BY <1>1, <1>3, <1>6 DEF ClosedInv, TestInv
  <1>8. BootInv' /\ NameInv'
    BY <1>1, <1>3, <1>6 DEF BootInv, NameInv
  <1>9. NothingUnloadedInUse'
    BY <1>1 DEF NothingUnloadedInUse
  <1>10. OperationSettles'
    BY <1>1, <1>3 DEF OperationSettles
  <1> QED BY <1>4, <1>5, <1>7, <1>8, <1>9, <1>10
-------------------------------------------------------------------------------
(* The theorems.                                                           *)

LEMMA InitInv == Init => Inv
  <1> SUFFICES ASSUME Init PROVE Inv
    OBVIOUS
  <1> USE DEF Init
  <1>1. Idle.step = "idle" /\ DOMAIN candidate = {} /\ DOMAIN previous = {}
    BY DEF Idle
  <1>2. TypeOK
    <2>1. admin \in [Admins -> Where] /\ line \in Seq(Admins)
      BY DEF Where
    <2>2. built \in [Objects -> Settings] /\ using \in [Callers -> Objects \cup {NoObject}]
      OBVIOUS
    <2>3. boot \in [step : {"loading"}, as : Settings]
      OBVIOUS
    <2> QED BY <2>1, <2>2, <2>3 DEF TypeOK, Where
  <1>3. LockInv
    BY <1>1, LifecycleAssumption DEF LockInv
  <1>4. ClosedInv /\ TestInv
    BY <1>1 DEF ClosedInv, TestInv
  <1>5. BootInv /\ NameInv
    BY <1>1 DEF BootInv, NameInv
  <1>6. NothingUnloadedInUse /\ OperationSettles
    BY DEF NothingUnloadedInUse, OperationSettles
  <1> QED BY <1>2, <1>3, <1>4, <1>5, <1>6 DEF Inv

LEMMA NextInv == Inv /\ [Next]_vars => Inv'
  <1> SUFFICES ASSUME Inv, [Next]_vars PROVE Inv'
    OBVIOUS
  <1>1. CASE Boot
    BY <1>1, BootReturnsStep, BootEndsStep DEF Boot
  <1>2. ASSUME NEW a \in Admins, Request(a) PROVE Inv'
    BY <1>2, LoadCandidateStep, CheckEndsStep, SwitchRequestStep DEF Request
  <1>3. ASSUME NEW a \in Admins, Proceed(a) PROVE Inv'
    BY <1>3, ResumeLoadStep, ResumeSwitchStep, LoadReturnsStep, LoadRaisesStep, TestPassesStep,
       TestFailsStep DEF Proceed
  <1>4. ASSUME NEW c \in Callers, PredictStarts(c) \/ PredictEnds(c) PROVE Inv'
    BY <1>4, PredictStep
  <1>5. CASE Reconfigure
    BY <1>5, ReconfigureStep
  <1>6. CASE Close
    BY <1>6, CloseStep
  <1>7. CASE UNCHANGED vars
    <2> USE <1>7 DEF vars, slots, lockVars
    <2>1. TypeOK' /\ LockInv' /\ ClosedInv'
      BY DEF Inv, TypeOK, LockInv, ClosedInv
    <2>2. TestInv' /\ BootInv' /\ NameInv'
      BY DEF Inv, TestInv, InSlots, BootInv, NameInv
    <2>3. NothingUnloadedInUse' /\ OperationSettles'
      BY DEF Inv, NothingUnloadedInUse, InUse, InSlots, Tested, OperationSettles
    <2> QED BY <2>1, <2>2, <2>3 DEF Inv
  <1> QED BY <1>1, <1>2, <1>3, <1>4, <1>5, <1>6, <1>7 DEF Next

LEMMA Invariance == Spec => []Inv
  BY InitInv, NextInv, PTL DEF Spec

\* Every variable keeps its type; in particular load_candidate and the initial load always
\* find an object that is free, since one test at a time and one inference per caller leave
\* one over.
THEOREM LifecycleTypes == Spec => []TypeOK
  <1>1. Inv => TypeOK
    BY DEF Inv
  <1> QED BY <1>1, Invariance, PTL

\* Whatever administrators, inferences and the initial load do in whatever order, nothing
\* that was given to backend.unload is used again or can be installed.
THEOREM UnloadedIsGone == Spec => []NothingUnloadedInUse
  <1>1. Inv => NothingUnloadedInUse
    BY DEF Inv
  <1> QED BY <1>1, Invariance, PTL

\* Once nothing is in progress the operation the admin API reports has settled, for any
\* number of overlapping requests.
THEOREM OperationsSettle == Spec => []OperationSettles
  <1>1. Inv => OperationSettles
    BY DEF Inv
  <1> QED BY <1>1, Invariance, PTL

LEMMA ServedAsNamedHolds == Inv => ServedAsNamed
  <1> SUFFICES ASSUME Inv, ~overtaken PROVE ServedAsNamed
    BY DEF ServedAsNamed
  <1>1. ready /\ ~closed => model # NoObject /\ built[model].name = config.name
    BY DEF Inv, BootInv, NameInv
  <1>2. \A s \in ToSet(candidate \o previous) :
           (\E i \in DOMAIN candidate : s = candidate[i]) \/ (\E i \in DOMAIN previous : s = previous[i])
    <2>1. candidate \in Seq(Slot) /\ previous \in Seq(Slot)
      <3>1. <<>> \in Seq(Slot) /\ \A x \in Slot : <<x>> \in Seq(Slot)
        OBVIOUS
      <3> DEFINE Q == Seq(Slot)
      <3>2. <<>> \in Q /\ \A x \in Slot : <<x>> \in Q
        BY <3>1
      <3> HIDE DEF Q
      <3>3. \A s \in {<<>>} \cup {<<x>> : x \in Slot} : s \in Q
        BY <3>2
      <3>4. candidate \in Q /\ previous \in Q
        BY <3>3 DEF Inv, TypeOK
      <3> QED BY <3>4 DEF Q
    <2>2. /\ Len(candidate \o previous) = Len(candidate) + Len(previous)
          /\ \A i \in 1 .. Len(candidate) + Len(previous) : (candidate \o previous)[i]
                = IF i <= Len(candidate) THEN candidate[i] ELSE previous[i - Len(candidate)]
          /\ Len(candidate) \in Nat /\ Len(previous) \in Nat
          /\ DOMAIN (candidate \o previous) = 1 .. Len(candidate) + Len(previous)
          /\ DOMAIN candidate = 1 .. Len(candidate) /\ DOMAIN previous = 1 .. Len(previous)
      BY <2>1
    <2>3. \A i \in 1 .. Len(candidate) + Len(previous) :
             /\ i <= Len(candidate) => i \in 1 .. Len(candidate)
             /\ ~(i <= Len(candidate)) => i - Len(candidate) \in 1 .. Len(previous)
      BY <2>2
    <2> QED BY <2>2, <2>3 DEF ToSet
  <1>3. \A i \in DOMAIN candidate :
           candidate[i].model # NoObject => built[candidate[i].model].name = candidate[i].name
    BY DEF Inv, NameInv
  <1>4. \A i \in DOMAIN previous :
           previous[i].model # NoObject => built[previous[i].model].name = previous[i].name
    BY DEF Inv, NameInv
  <1> QED BY <1>1, <1>2, <1>3, <1>4 DEF ServedAsNamed

\* The model that serves, and any that a switch would install, goes by the name it was
\* loaded under, unless the initial load overtook an activation.
THEOREM ModelsServeAsNamed == Spec => []ServedAsNamed
  BY Invariance, ServedAsNamedHolds, PTL

\* A switch of the active model of a ready service can be undone: only an activation or a
\* rollback makes one, the initial load having ended, and each remembers what it replaces.
THEOREM SwitchesCanBeUndone == Spec => RollbackUndoes
  <1> DEFINE Undoes == ready /\ model' # model /\ ~closed'
                          => previous' = <<[model |-> model, name |-> config.name]>>
  <1>1. ASSUME Inv, Next, ready, model' # model, ~closed'
        PROVE  previous' = <<[model |-> model, name |-> config.name]>>
    <2>1. ~BootReturns
      BY <1>1 DEF Inv, BootInv, BootReturns
    <2>2. Activation \/ Restoration
      BY <1>1, <2>1 DEF Next, Boot, BootWarm, BootFails, Request, LoadCandidate, CheckEnds,
         ActivateCandidate, Rollback, Proceed, ResumeLoad, ResumeSwitch, LoadReturns, LoadRaises,
         TestPasses, TestFails, PredictStarts, PredictEnds, Reconfigure, Close, slots
    <2> QED BY <1>1, <2>2 DEF Activation, Restoration, slots
  <1>2. Inv /\ [Next]_vars => [Undoes]_vars
    BY <1>1
  <1> HIDE DEF Undoes
  <1>3. Spec => [][Undoes]_vars
    BY <1>2, Invariance, PTL DEF Spec
  <1> QED BY <1>3 DEF RollbackUndoes, Undoes
-------------------------------------------------------------------------------
(* ServedModel.                                                            *)

\* No two slots hold the same model, and a candidate goes by the name it was loaded under
\* whatever the initial load overtook.
SlotInv ==
    /\ \A i \in DOMAIN candidate : /\ candidate[i].model # model
                                   /\ built[candidate[i].model].name = candidate[i].name
    /\ \A i \in DOMAIN previous : previous[i].model # NoObject => previous[i].model # model
    /\ \A i \in DOMAIN candidate, j \in DOMAIN previous : candidate[i].model # previous[j].model

\* The slots hold objects, or nothing.
LEMMA SlotsHold ==
    ASSUME TypeOK
    PROVE  /\ model \in Objects \cup {NoObject}
           /\ \A i \in DOMAIN candidate : /\ i = 1 /\ candidate # <<>>
                                          /\ candidate[i].model \in Objects \cup {NoObject}
           /\ \A i \in DOMAIN previous : /\ i = 1 /\ previous # <<>>
                                         /\ previous[i].model \in Objects \cup {NoObject}
           /\ candidate # <<>> => 1 \in DOMAIN candidate
           /\ previous # <<>> => 1 \in DOMAIN previous
  BY SlotIs DEF TypeOK

\* What a load, or a test that fails, leaves of the models in the slots.
LEMMA SlotsStay ==
    ASSUME Inv, SlotInv, UNCHANGED slots,
           \A o \in Objects : o \in InUse => built'[o].name = built[o].name
    PROVE  SlotInv'
  <1>1. \A i \in DOMAIN candidate : candidate[i].model \in Objects /\ candidate[i].model \in InUse
    BY SlotsHold, InUseIs DEF Inv, TestInv
  <1> QED BY <1>1 DEF SlotInv, slots

LEMMA SwitchKeepsSlots ==
    ASSUME Inv, SlotInv, Activation \/ (previous # <<>> /\ Restoration), UNCHANGED built
    PROVE  SlotInv'
  <1>1. CASE Activation /\ candidate = <<>>
    BY <1>1, SlotsStay DEF Activation
  <1>2. CASE Activation /\ candidate # <<>>
    <2>1. /\ candidate' = <<>> /\ model' = candidate[1].model
          /\ previous' = <<[model |-> model, name |-> config.name]>>
      BY <1>2 DEF Activation
    <2>2. DOMAIN candidate' = {} /\ DOMAIN previous' = {1} /\ previous'[1].model = model
      BY <2>1
    <2>3. candidate[1].model # model
      BY <1>2, SlotsHold DEF SlotInv, Inv
    <2> QED BY <2>1, <2>2, <2>3 DEF SlotInv
  <1>3. CASE previous # <<>> /\ Restoration
    <2>1. /\ candidate' = candidate /\ model' = previous[1].model
          /\ previous' = <<[model |-> model, name |-> config.name]>>
      BY <1>3 DEF Restoration
    <2>2. DOMAIN previous' = {1} /\ previous'[1].model = model /\ 1 \in DOMAIN previous
      BY <1>3, <2>1, SlotsHold DEF Inv
    <2>3. model # NoObject => previous[1].model # model
      BY <2>2 DEF SlotInv
    <2> QED BY <2>1, <2>2, <2>3 DEF SlotInv
  <1> QED BY <1>1, <1>2, <1>3

LEMMA SlotInvNext == Inv /\ SlotInv /\ [Next]_vars => SlotInv'
  <1> SUFFICES ASSUME Inv, SlotInv, [Next]_vars PROVE SlotInv'
    OBVIOUS
  <1>1. CASE BootReturns
    <2>1. boot.as \in Settings /\ Fresh(boot.as) /\ model' = New
      BY <1>1, BootIs DEF BootReturns, Inv
    <2>2. /\ \A o \in Objects : o \in InUse => built'[o] = built[o]
          /\ New \notin InUse /\ New # NoObject
      BY <2>1, FreshStep DEF Inv
    <2>3. UNCHANGED <<candidate, previous>>
      BY <1>1 DEF BootReturns
    <2>4. \A i \in DOMAIN candidate : candidate[i].model \in Objects /\ candidate[i].model \in InUse
      BY SlotsHold, InUseIs DEF Inv, TestInv
    <2>5. \A i \in DOMAIN previous : previous[i].model # NoObject => previous[i].model \in InUse
      BY InUseIs
    <2> QED BY <2>1, <2>2, <2>3, <2>4, <2>5 DEF SlotInv
  <1>2. ASSUME NEW a \in Admins, LoadReturns(a) PROVE SlotInv'
    <2>1. admin[a].as \in Settings /\ Fresh(admin[a].as)
      BY <1>2, AdminIs DEF LoadReturns, Inv
    <2>2. \A o \in Objects : o \in InUse => built'[o] = built[o]
      BY <2>1, FreshStep DEF Inv
    <2> QED BY <1>2, <2>2, SlotsStay DEF LoadReturns
  <1>3. ASSUME NEW a \in Admins, TestPasses(a) PROVE SlotInv'
    <2>1. /\ candidate' = <<[model |-> admin[a].object, name |-> admin[a].as.name]>>
          /\ UNCHANGED <<built, model, previous>>
      BY <1>3 DEF TestPasses
    <2>2. /\ DOMAIN candidate' = {1} /\ candidate'[1].model = admin[a].object
          /\ candidate'[1].name = admin[a].as.name
      BY <2>1
    <2>3. /\ admin[a].object # model
          /\ \A i \in DOMAIN previous : admin[a].object # previous[i].model
          /\ built[admin[a].object].name = admin[a].as.name
      BY <1>3 DEF TestPasses, Inv, TestInv, InSlots
    <2> QED BY <2>1, <2>2, <2>3 DEF SlotInv
  <1>4. ASSUME NEW a \in Admins, ActivateCandidate(a) \/ Rollback(a) \/ ResumeSwitch(a)
        PROVE  SlotInv'
    <2>1. /\ UNCHANGED built
          /\ Activation \/ (previous # <<>> /\ Restoration) \/ UNCHANGED slots
      BY <1>4 DEF ActivateCandidate, Rollback, ResumeSwitch, Inv, ClosedInv, slots
    <2> QED BY <2>1, SwitchKeepsSlots, SlotsStay
  <1>5. CASE Reconfigure
    <2>1. UNCHANGED slots
      BY <1>5 DEF Reconfigure
    <2>2. \A o \in Objects : built'[o].name = built[o].name
      BY <1>5 DEF Reconfigure, Inv, TypeOK, Settings
    <2> QED BY <2>1, <2>2, SlotsStay
  <1>6. CASE Close
    <2>1. DOMAIN candidate' = {} /\ DOMAIN previous' = {}
      BY <1>6 DEF Close
    <2> QED BY <2>1 DEF SlotInv
  <1>7. CASE UNCHANGED <<slots, built>>
    BY <1>7, SlotsStay
  <1>8. \/ BootReturns \/ Reconfigure \/ Close
        \/ \E a \in Admins : \/ LoadReturns(a) \/ TestPasses(a)
                             \/ ActivateCandidate(a) \/ Rollback(a) \/ ResumeSwitch(a)
        \/ UNCHANGED <<slots, built>>
    BY DEF Next, Boot, BootWarm, BootFails, Request, LoadCandidate, CheckEnds, Proceed, ResumeLoad,
       LoadRaises, TestFails, PredictStarts, PredictEnds, vars
  <1> QED BY <1>1, <1>2, <1>3, <1>4, <1>5, <1>6, <1>7, <1>8

\* What requests see of the slots, before and after a step.
LEMMA SeenIs ==
    ASSUME TypeOK
    PROVE  /\ previous = <<>> <=> PreviousSeen = <<>>
           /\ previous # <<>> => /\ PreviousSeen[1].model = Installed(previous[1].model)
                                 /\ PreviousSeen[1].name = previous[1].name
           /\ \A o, n : previous' = <<[model |-> o, name |-> n]>>
                 => PreviousSeen' = <<[model |-> Installed(o)', name |-> n]>>
           /\ previous' = <<>> => PreviousSeen' = <<>>
  <1>1. /\ previous = <<>> => PreviousSeen = <<>>
        /\ previous' = <<>> => PreviousSeen' = <<>>
    BY DEF PreviousSeen
  <1>2. previous # <<>> => /\ PreviousSeen[1].model = Installed(previous[1].model)
                           /\ PreviousSeen[1].name = previous[1].name
                           /\ PreviousSeen # <<>>
    <2> SUFFICES ASSUME previous # <<>>
                 PROVE  /\ PreviousSeen[1].model = Installed(previous[1].model)
                        /\ PreviousSeen[1].name = previous[1].name
                        /\ PreviousSeen # <<>>
      OBVIOUS
    <2>1. DOMAIN previous = {1}
      BY SlotIs DEF TypeOK
    <2>2. DOMAIN PreviousSeen = {1} /\ DOMAIN <<>> = {}
      BY <2>1 DEF PreviousSeen
    <2> QED BY <2>1, <2>2 DEF PreviousSeen
  <1>3. ASSUME NEW o, NEW n, previous' = <<[model |-> o, name |-> n]>>
        PROVE  PreviousSeen' = <<[model |-> Installed(o)', name |-> n]>>
    <2>1. DOMAIN previous' = {1} /\ previous'[1].model = o /\ previous'[1].name = n
      BY <1>3
    <2>2. PreviousSeen' = [i \in {1} |-> [model |-> Installed(o)', name |-> n]]
      BY <2>1 DEF PreviousSeen, Installed
    <2> QED BY <2>2
  <1> QED BY <1>1, <1>2, <1>3

\* Nothing of it changes unless a slot, the model in it or the settings do.
LEMMA Unseen ==
    ASSUME Inv, UNCHANGED <<model, previous>>,
           \A o \in Objects : o \in InUse => built'[o] = built[o]
    PROVE  UNCHANGED <<ModelSeen, PreviousSeen>>
  <1>1. /\ model # NoObject => built'[model] = built[model]
        /\ \A i \in DOMAIN previous :
              previous[i].model # NoObject => built'[previous[i].model] = built[previous[i].model]
    BY SlotsHold, InUseIs DEF Inv
  <1>2. ModelSeen' = ModelSeen
    BY <1>1 DEF ModelSeen, Installed
  <1>3. PreviousSeen' = PreviousSeen
    BY <1>1 DEF PreviousSeen, Installed
  <1> QED BY <1>2, <1>3

LEMMA ServedStart == Init => Served!ServedInit
  <1> SUFFICES ASSUME Init PROVE Served!ServedInit
    OBVIOUS
  <1>1. config \in Served!Configs
    BY DEF Init, Settings, Served!Configs
  <1>2. ModelSeen = NoObject
    BY DEF Init, ModelSeen, Installed
  <1>3. PreviousSeen = <<>>
    BY DEF Init, PreviousSeen
  <1>4. BootSeen = [step |-> "loading", as |-> config]
    BY DEF Init, BootSeen
  <1> QED BY <1>1, <1>2, <1>3, <1>4 DEF Served!ServedInit

\* A switch of the active model.
LEMMA SwitchServed ==
    ASSUME Inv, SlotInv, ~closed, UNCHANGED <<built, boot, closed>>,
           \/ candidate # <<>> /\ Activation
           \/ previous # <<>> /\ Restoration
    PROVE  Served!Change
  <1>1. /\ \A o : Installed(o)' = Installed(o)
        /\ ModelSeen = Installed(model)
    BY DEF Installed, ModelSeen
  <1>2. BootSeen.step # "down" /\ BootSeen' = BootSeen
    BY BootIs DEF Inv, BootSeen
  <1>3. previous' = <<[model |-> model, name |-> config.name]>>
    BY DEF Activation, Restoration
  <1>4. PreviousSeen' = <<[model |-> ModelSeen, name |-> config.name]>>
    BY <1>1, <1>3, SeenIs DEF Inv
  <1>5. CASE candidate # <<>> /\ Activation
    <2>1. /\ ModelSeen' = built[candidate[1].model]
          /\ built[candidate[1].model] \in Settings
          /\ built[candidate[1].model].name = candidate[1].name
          /\ config' = [config EXCEPT !.name = candidate[1].name]
      <3>1. candidate[1].model \in Objects /\ candidate[1].model # NoObject
        BY <1>5, SlotsHold DEF Inv, TestInv
      <3>2. built[candidate[1].model].name = candidate[1].name
        BY <1>5, SlotsHold DEF Inv, SlotInv
      <3>3. model' = candidate[1].model /\ config' = [config EXCEPT !.name = candidate[1].name]
        BY <1>5 DEF Activation
      <3>4. ModelSeen' = built[candidate[1].model]
        BY <3>1, <3>3 DEF ModelSeen, Installed
      <3> QED BY <3>1, <3>2, <3>3, <3>4 DEF Inv, TypeOK
    <2>2. Served!Install(built[candidate[1].model], built[candidate[1].model].name)
      BY <1>2, <1>4, <2>1 DEF Served!Install
    <2>3. Served!Activate
      BY <1>2, <2>1, <2>2 DEF Served!Activate, Served!Configs, Settings
    <2> QED BY <2>3 DEF Served!Change
  <1>6. CASE previous # <<>> /\ Restoration
    <2>1. /\ PreviousSeen # <<>>
          /\ PreviousSeen[1].model = Installed(previous[1].model)
          /\ PreviousSeen[1].name = previous[1].name
      BY <1>6, SeenIs DEF Inv
    <2>2. ModelSeen' = PreviousSeen[1].model
      <3>1. model' = previous[1].model
        BY <1>6 DEF Restoration
      <3> QED BY <2>1, <3>1 DEF ModelSeen, Installed
    <2>3. config' = [config EXCEPT !.name = PreviousSeen[1].name]
      BY <1>6, <2>1 DEF Restoration
    <2>4. Served!Rollback
      BY <1>2, <1>4, <2>1, <2>2, <2>3 DEF Served!Rollback, Served!Install
    <2> QED BY <2>4 DEF Served!Change
  <1> QED BY <1>5, <1>6

LEMMA ServedStep == Inv /\ SlotInv /\ [Next]_vars => [Served!ServedNext]_(Served!served)
  <1> SUFFICES ASSUME Inv, SlotInv, [Next]_vars
               PROVE  Served!ServedNext \/ UNCHANGED Served!served
    OBVIOUS
  <1>1. CASE BootReturns
    <2>1. /\ boot.as \in Settings /\ boot.step = "loading" /\ ~closed
          /\ Fresh(boot.as) /\ model' = New
          /\ boot' = [step |-> "warming"]
          /\ UNCHANGED <<config, candidate, previous, closed>>
      BY <1>1, BootIs DEF BootReturns, Inv, ClosedInv
    <2>2. /\ \A o \in Objects : o \in InUse => built'[o] = built[o]
          /\ built'[New] = boot.as /\ New # NoObject
      BY <2>1, FreshStep DEF Inv
    <2>3. ModelSeen' = boot.as
      BY <2>1, <2>2 DEF ModelSeen, Installed
    <2>4. PreviousSeen' = PreviousSeen
      <3>1. \A i \in DOMAIN previous :
               previous[i].model # NoObject => built'[previous[i].model] = built[previous[i].model]
        BY <2>2, SlotsHold, InUseIs DEF Inv
      <3> QED BY <2>1, <3>1 DEF PreviousSeen, Installed
    <2>5. BootSeen = boot /\ BootSeen' = [step |-> "warming"]
      BY <2>1 DEF BootSeen
    <2>6. Served!BootReturns
      BY <2>1, <2>3, <2>4, <2>5 DEF Served!BootReturns
    <2> QED BY <2>6 DEF Served!Change, Served!ServedNext
  <1>2. CASE BootWarm \/ BootFails
    <2>1. UNCHANGED <<config, built, model, previous, closed>>
      BY <1>2 DEF BootWarm, BootFails, slots
    <2>2. UNCHANGED <<ModelSeen, PreviousSeen>>
      BY <2>1, Unseen
    <2>3. ~closed
      BY <1>2 DEF BootWarm, BootFails, Inv, ClosedInv
    <2>4. BootSeen = boot /\ BootSeen' = boot'
      BY <2>1, <2>3 DEF BootSeen
    <2>5. Served!BootWarm \/ Served!BootFails
      BY <1>2, <2>1, <2>2, <2>4 DEF BootWarm, BootFails, Served!BootWarm, Served!BootFails
    <2> QED BY <2>5 DEF Served!Change, Served!ServedNext
  <1>3. ASSUME NEW a \in Admins, ActivateCandidate(a) \/ Rollback(a) \/ ResumeSwitch(a)
        PROVE  Served!ServedNext \/ UNCHANGED Served!served
    <2>1. /\ UNCHANGED <<built, boot, closed>>
          /\ \/ candidate # <<>> /\ Activation
             \/ previous # <<>> /\ Restoration
             \/ UNCHANGED <<config, slots>>
      BY <1>3 DEF ActivateCandidate, Rollback, ResumeSwitch, Activation, Inv, ClosedInv
    <2>2. ~closed
      BY <1>3 DEF ActivateCandidate, Rollback, ResumeSwitch, Available, Inv, ClosedInv, LockInv
    <2>3. CASE UNCHANGED <<config, slots>>
      <3>1. UNCHANGED <<ModelSeen, PreviousSeen, BootSeen>>
        BY <2>1, <2>3, Unseen DEF slots, BootSeen
      <3> QED BY <2>3, <3>1 DEF Served!served
    <2>4. CASE Served!Change
      BY <2>4 DEF Served!ServedNext
    <2> QED BY <2>1, <2>2, <2>3, <2>4, SwitchServed
  <1>4. CASE Reconfigure
    <2>1. PICK l \in Lengths :
             /\ config' = [config EXCEPT !.length = l]
             /\ built' = IF model = NoObject THEN built ELSE [built EXCEPT ![model].length = l]
      BY <1>4 DEF Reconfigure
    <2>2. ~closed /\ UNCHANGED <<model, previous, boot, closed>>
      BY <1>4 DEF Reconfigure, slots
    <2>3. ModelSeen' = IF ModelSeen = NoObject THEN NoObject ELSE [ModelSeen EXCEPT !.length = l]
      <3>1. CASE model = NoObject
        BY <2>1, <2>2, <3>1 DEF ModelSeen, Installed
      <3>2. CASE model # NoObject
        <4>1. model \in Objects /\ built[model] \in Settings /\ built[model] # NoObject
          BY <3>2, LifecycleAssumption DEF Inv, TypeOK, Settings
        <4> QED BY <2>1, <2>2, <3>2, <4>1 DEF ModelSeen, Installed, Inv, TypeOK
      <3> QED BY <3>1, <3>2
    <2>4. PreviousSeen' = PreviousSeen
      <3>1. \A i \in DOMAIN previous : previous[i].model # NoObject
                => /\ previous[i].model \in Objects
                   /\ built'[previous[i].model] = built[previous[i].model]
        BY <2>1, SlotsHold DEF SlotInv, Inv, TypeOK
      <3> QED BY <2>2, <3>1 DEF PreviousSeen, Installed
    <2>5. BootSeen' = BootSeen /\ BootSeen.step # "down"
      BY <2>2, BootIs DEF BootSeen, Inv
    <2>6. Served!Reconfigure
      BY <2>1, <2>3, <2>4, <2>5 DEF Served!Reconfigure
    <2> QED BY <2>6 DEF Served!Change, Served!ServedNext
  <1>5. CASE Close
    <2>1. ModelSeen' = NoObject
      BY <1>5 DEF Close, ModelSeen, Installed
    <2>2. PreviousSeen' = <<>>
      BY <1>5 DEF Close, PreviousSeen
    <2>3. BootSeen.step # "down" /\ BootSeen' = [step |-> "down"]
      BY <1>5, BootIs DEF Close, BootSeen, Inv
    <2>4. Served!Stop
      BY <1>5, <2>1, <2>2, <2>3 DEF Close, Served!Stop
    <2> QED BY <2>4 DEF Served!ServedNext
  <1>6. ASSUME NEW a \in Admins, LoadReturns(a) PROVE UNCHANGED Served!served
    <2>1. admin[a].as \in Settings /\ Fresh(admin[a].as)
      BY <1>6, AdminIs DEF LoadReturns, Inv
    <2>2. \A o \in Objects : o \in InUse => built'[o] = built[o]
      BY <2>1, FreshStep DEF Inv
    <2>3. UNCHANGED <<config, model, previous, boot, closed>>
      BY <1>6 DEF LoadReturns, slots
    <2>4. UNCHANGED <<ModelSeen, PreviousSeen, BootSeen>>
      BY <2>2, <2>3, Unseen DEF BootSeen
    <2> QED BY <2>3, <2>4 DEF Served!served
  <1>7. CASE UNCHANGED <<config, built, model, previous, boot, closed>>
    <2>1. UNCHANGED <<ModelSeen, PreviousSeen, BootSeen>>
      BY <1>7, Unseen DEF BootSeen
    <2> QED BY <1>7, <2>1 DEF Served!served
  <1>8. \/ BootReturns \/ BootWarm \/ BootFails \/ Reconfigure \/ Close
        \/ \E a \in Admins : \/ LoadReturns(a)
                             \/ ActivateCandidate(a) \/ Rollback(a) \/ ResumeSwitch(a)
        \/ UNCHANGED <<config, built, model, previous, boot, closed>>
    BY DEF Next, Boot, Request, LoadCandidate, CheckEnds, Proceed, ResumeLoad, LoadRaises,
       TestPasses, TestFails, PredictStarts, PredictEnds, vars, slots
  <1> QED BY <1>1, <1>2, <1>3, <1>4, <1>5, <1>6, <1>7, <1>8

\* Requests meet the settings and the active model as ServedModel has them change: by an
\* activation, a rollback, a PATCH of max_length, the initial load or the shutdown, in any
\* order of administrators, whatever the initial load overtakes.
THEOREM RequestsMeetServedModel == Spec => ImplementsServedModel
  <1>1. Init => SlotInv
    BY DEF Init, SlotInv
  <1>2. Spec => []SlotInv
    BY <1>1, SlotInvNext, Invariance, PTL DEF Spec
  <1>3. Spec => Served!ServedInit /\ [][Served!ServedNext]_(Served!served)
    BY <1>2, Invariance, ServedStart, ServedStep, PTL DEF Spec
  <1> QED BY <1>3 DEF ImplementsServedModel, Served!ServedSpec
===============================================================================
