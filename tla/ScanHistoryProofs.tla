-------------------------- MODULE ScanHistoryProofs --------------------------
(***************************************************************************)
(* The scans and their reports, for any number of ClusterScan and          *)
(* CloudAccountConfig objects, any history limit, and any number of        *)
(* faults, restarts and reports the cache has not seen.                    *)
(***************************************************************************)
EXTENDS ScanHistory, FiniteSetTheorems, TLAPS

(* The label that selects reports has only the name of the object they are *)
(* of: of two objects with one name, one may prune the reports of the      *)
(* other.                                                                  *)
DistinctNames == \A o, p \in Owners : NameOf[o] = NameOf[p] => o = p

(* Where a reconcile is once it has found the finalizer on the object, and *)
(* once it has said that the scan runs.                                    *)
Scanning == {"scan", "mark", "prune", "status"}
Guarded == {"reconciling", "suspended", "identity", "start", "scan", "mark", "prune", "status",
            "cleanup", "release"}

(* The finalizer, the phase and the reconcile of an object go together.    *)
OrderlyAt(o) ==
  /\ obj[o] = "absent" => ~finalizer[o]
  /\ obj[o] = "deleting" => finalizer[o]
  /\ ~finalizer[o] => phase[o] = ""
  /\ pc[o] \in Guarded => finalizer[o]
  /\ pc[o] = "finalize" /\ ~stale[o] => obj[o] = "live"
  /\ pc[o] \in {"cleanup", "release"} => obj[o] = "deleting"
  /\ pc[o] \in Scanning => phase[o] = "Running"
Orderly == \A o \in Owners : OrderlyAt(o)

(* The newest report of an object exists and has its owner.                *)
IsNewest(o, i) == i \in Current(o) /\ \A j \in Reports(o) : j <= i

(* A reconcile that has created a report, and a status that names one,     *)
(* have the newest.                                                        *)
NewestAt(o) ==
  /\ pc[o] \in {"mark", "prune", "status"} => IsNewest(o, mine[o])
  /\ obj[o] = "live" /\ phase[o] = "Completed" => IsNewest(o, lastReport[o])
NewestKept == \A o \in Owners : NewestAt(o)

(* What an owner that is gone left behind is older than the reports of the *)
(* owner that came back under its name.                                    *)
OrphansFirst ==
  \A i, j \in DOMAIN log :
    log[i].owner = log[j].owner /\ i < j /\ log[j].orphan => log[i].orphan

(* A deleted report has enough newer ones, unless its owner is going away. *)
Leaving(o) == obj[o] = "deleting" /\ pc[o] \in {"idle", "cleanup", "release"}
Newer(o, i) == {j \in Current(o) : j > i}
CoveredAt(o) ==
  \A i \in Reports(o) :
    ~log[i].live /\ ~log[i].orphan => Leaving(o) \/ Cardinality(Newer(o, i)) >= Limit
Covered == \A o \in Owners : CoveredAt(o)

(* The two halves of the type invariant: the objects, and the reports.     *)
ObjTyped ==
  /\ obj \in [Owners -> {"absent", "live", "deleting"}]
  /\ finalizer \in [Owners -> BOOLEAN] /\ suspend \in [Owners -> BOOLEAN]
  /\ phase \in [Owners -> {"", "Pending", "Active", "Running", "Degraded", "Failed",
                           "Completed"}]
  /\ pc \in [Owners -> {"idle", "finalize", "reconciling", "suspended", "identity",
                        "start", "scan", "mark", "prune", "status", "cleanup", "release"}]
  /\ due \in [Owners -> {"no", "own", "outside"}] /\ stale \in [Owners -> BOOLEAN]
LogTyped ==
  /\ log \in Seq(Report) /\ Len(log) <= MaxReports
  /\ lastReport \in [Owners -> 0 .. Len(log)] /\ mine \in [Owners -> 0 .. Len(log)]

Histories == NewestKept /\ OrphansFirst /\ Covered

HInv == TypeOK /\ Orderly /\ Histories
-----------------------------------------------------------------------------
(* The places that CacheForgets and Restart give to the reports they keep: *)
(* 1, 2 and so on, in the same order.                                      *)
LEMMA PlacesInOrder ==
  ASSUME NEW n \in Nat, NEW keep \in SUBSET (1 .. n)
  PROVE  /\ IsFiniteSet(keep) /\ Cardinality(keep) \in Nat /\ Cardinality(keep) <= n
         /\ \A i \in keep : Place(keep, i) \in 1 .. Cardinality(keep)
         /\ \A i, j \in keep : i < j => Place(keep, i) < Place(keep, j)
         /\ \A i, j \in keep : Place(keep, i) = Place(keep, j) => i = j
<1>1. /\ IsFiniteSet(keep) /\ Cardinality(keep) \in Nat /\ Cardinality(keep) <= n
  <2>1. IsFiniteSet(1 .. n) /\ Cardinality(1 .. n) = n
    BY FS_Interval
  <2> QED BY <2>1, FS_Subset, FS_CardinalityType
<1> DEFINE B(i) == {j \in keep : j <= i}
<1>2. ASSUME NEW i \in keep
      PROVE  /\ B(i) \in SUBSET keep /\ IsFiniteSet(B(i)) /\ i \in B(i)
             /\ Cardinality(B(i)) \in 1 .. Cardinality(keep)
             /\ Place(keep, i) = Cardinality(B(i))
  <2>1. B(i) \in SUBSET keep /\ i \in B(i)
    OBVIOUS
  <2>2. IsFiniteSet(B(i)) /\ Cardinality(B(i)) <= Cardinality(keep) /\ Cardinality(B(i)) \in Nat
    BY <1>1, <2>1, FS_Subset, FS_CardinalityType
  <2>3. Cardinality(B(i)) # 0
    <3> HIDE DEF B
    <3>1. Cardinality(B(i)) = 0 <=> B(i) = {}
      BY <2>2, FS_EmptySet
    <3> QED BY <2>1, <3>1
  <2>4. Place(keep, i) = Cardinality(B(i))
    BY DEF Place
  <2> HIDE DEF B
  <2> QED BY <1>1, <2>1, <2>2, <2>3, <2>4
<1>3. ASSUME NEW i \in keep, NEW j \in keep, i < j
      PROVE  Place(keep, i) < Place(keep, j)
  <2>1. B(i) \in SUBSET B(j) /\ j \notin B(i) /\ j \in B(j)
    <3>1. \A x \in keep : x \in Nat
      OBVIOUS
    <3>2. ASSUME NEW x \in B(i) PROVE x \in B(j)
      BY <1>3, <3>1, <3>2
    <3>3. j \notin B(i) /\ j \in B(j)
      BY <1>3, <3>1
    <3> HIDE DEF B
    <3> QED BY <3>2, <3>3
  <2>2. Cardinality(B(i)) <= Cardinality(B(j)) /\ Cardinality(B(i)) # Cardinality(B(j))
    <3>1. IsFiniteSet(B(j))
      BY <1>2
    <3> HIDE DEF B
    <3>2. /\ Cardinality(B(i)) <= Cardinality(B(j))
          /\ Cardinality(B(j)) = Cardinality(B(i)) => B(j) = B(i)
      BY <2>1, <3>1, FS_Subset
    <3> QED BY <2>1, <3>2
  <2> HIDE DEF B
  <2> QED BY <1>1, <1>2, <2>2
<1>4. ASSUME NEW i \in keep, NEW j \in keep, Place(keep, i) = Place(keep, j)
      PROVE  i = j
  <2>1. i \in Nat /\ j \in Nat
    OBVIOUS
  <2>2. Place(keep, i) \in Nat
    <3> HIDE DEF B
    <3> QED BY <1>1, <1>2
  <2> QED BY <1>3, <1>4, <2>1, <2>2
<1> QED BY <1>1, <1>2, <1>3, <1>4

(* No place is left empty.                                                 *)
LEMMA PlacesFilled ==
  ASSUME NEW n \in Nat, NEW keep \in SUBSET (1 .. n)
  PROVE  \A m \in 1 .. Cardinality(keep) : \E i \in keep : Place(keep, i) = m
<1> DEFINE c == Cardinality(keep)
           f == [i \in keep |-> Place(keep, i)]
<1>1. /\ IsFiniteSet(keep) /\ c \in Nat
      /\ \A i \in keep : Place(keep, i) \in 1 .. c
      /\ \A i, j \in keep : Place(keep, i) = Place(keep, j) => i = j
  BY PlacesInOrder
<1>2. IsFiniteSet(1 .. c) /\ Cardinality(1 .. c) = c
  BY <1>1, FS_Interval
<1>3. f \in Injection(keep, 1 .. c)
  BY <1>1 DEF Injection, IsInjective
<1>4. f \in Surjection(keep, 1 .. c)
  <2> HIDE DEF f, c
  <2> QED BY <1>2, <1>3, FS_Injection DEF c
<1> QED BY <1>4 DEF Surjection

(* The oldest k of a list.                                                 *)
OldestOf(L, k) == {i \in L : Cardinality({j \in L : j <= i}) <= k}

(* They are at most k, and with one of them come all older ones.           *)
LEMMA OldestFew ==
  ASSUME NEW n \in Nat, NEW L \in SUBSET (1 .. n), NEW k \in Nat
  PROVE  /\ IsFiniteSet(OldestOf(L, k)) /\ Cardinality(OldestOf(L, k)) \in Nat
         /\ Cardinality(OldestOf(L, k)) <= k
         /\ \A i \in OldestOf(L, k), j \in L : j <= i => j \in OldestOf(L, k)
<1> DEFINE S == OldestOf(L, k)
           f == [i \in S |-> Place(L, i)]
<1>1. /\ \A i \in L : Place(L, i) \in 1 .. Cardinality(L)
      /\ \A i, j \in L : Place(L, i) = Place(L, j) => i = j
      /\ \A i, j \in L : i < j => Place(L, i) < Place(L, j)
      /\ Cardinality(L) \in Nat /\ IsFiniteSet(L)
  BY PlacesInOrder
<1>2. S = {i \in L : Place(L, i) <= k}
  BY DEF Place, OldestOf
<1> HIDE DEF S
<1>3. IsFiniteSet(1 .. k) /\ Cardinality(1 .. k) = k
  BY FS_Interval
<1>4. f \in Injection(S, 1 .. k)
  <2>1. \A i \in S : i \in L /\ Place(L, i) \in 1 .. k
    <3> SUFFICES ASSUME NEW i \in S PROVE i \in L /\ Place(L, i) \in 1 .. k
      OBVIOUS
    <3>1. i \in L /\ Place(L, i) <= k
      BY <1>2
    <3>2. Place(L, i) \in 1 .. Cardinality(L)
      BY <1>1, <3>1
    <3> QED BY <1>1, <3>1, <3>2
  <2> QED BY <1>1, <2>1 DEF Injection, IsInjective
<1>5. IsFiniteSet(S) /\ Cardinality(S) <= k
  <2> HIDE DEF f
  <2> QED BY <1>3, <1>4, FS_Injection
<1>6. ASSUME NEW i \in S, NEW j \in L, j <= i PROVE j \in S
  <2>1. Place(L, j) <= Place(L, i) /\ Place(L, i) <= k
    BY <1>1, <1>2, <1>6
  <2>2. Place(L, j) \in Nat /\ Place(L, i) \in Nat
    BY <1>1, <1>2
  <2> QED BY <1>2, <2>1, <2>2
<1> QED BY <1>5, <1>6, FS_CardinalityType DEF S

(* Forget keeps the reports at the places of keep, in their order.         *)
LEMMA ForgetRenumbers ==
  ASSUME log \in Seq(Report), NEW keep \in SUBSET DOMAIN log, Forget(keep)
  PROVE  /\ log' \in Seq(Report) /\ Len(log') = Cardinality(keep)
         /\ Cardinality(keep) \in Nat /\ Cardinality(keep) <= Len(log)
         /\ \A i \in keep : /\ Place(keep, i) \in DOMAIN log'
                            /\ log'[Place(keep, i)] = log[i]
         /\ \A m \in DOMAIN log' : \E i \in keep : m = Place(keep, i)
<1> DEFINE c == Cardinality(keep)
           At(m) == CHOOSE i \in keep : Place(keep, i) = m
<1>1. keep \in SUBSET (1 .. Len(log)) /\ Len(log) \in Nat
  OBVIOUS
<1>2. /\ c \in Nat /\ c <= Len(log)
      /\ \A i \in keep : Place(keep, i) \in 1 .. c
      /\ \A i, j \in keep : Place(keep, i) = Place(keep, j) => i = j
  BY <1>1, PlacesInOrder
<1>3. \A m \in 1 .. c : \E i \in keep : Place(keep, i) = m
  BY <1>1, PlacesFilled
<1>4. \A m \in 1 .. c : At(m) \in keep /\ Place(keep, At(m)) = m
  BY <1>3
<1>5. \A i \in keep : At(Place(keep, i)) = i
  BY <1>2, <1>4
<1>6. log' = [m \in 1 .. c |-> log[At(m)]]
  BY DEF Forget
<1> HIDE DEF c, At
<1>7. \A m \in 1 .. c : log[At(m)] \in Report
  BY <1>1, <1>4
<1>8. log' \in Seq(Report) /\ Len(log') = c /\ DOMAIN log' = 1 .. c
  BY <1>2, <1>6, <1>7
<1>9. \A i \in keep : Place(keep, i) \in DOMAIN log' /\ log'[Place(keep, i)] = log[i]
  BY <1>2, <1>5, <1>6, <1>8
<1> QED BY <1>2, <1>3, <1>8, <1>9 DEF c
-----------------------------------------------------------------------------
(* The state of the objects and that of the reports, typed apart: most     *)
(* steps touch one of them.                                                *)
LEMMA Halves == TypeOK <=> ObjTyped /\ LogTyped
BY DEF TypeOK, ObjTyped, LogTyped

(* The work queue stays one.                                               *)
LEMMA QueuedTyped ==
  ASSUME NEW q \in [Owners -> {"no", "own", "outside"}], NEW o, NEW c
  PROVE  Queued(q, o, c) \in [Owners -> {"no", "own", "outside"}]
BY DEF Queued

(* A status write may put its own object back into the queue.              *)
LEMMA TriggersTyped ==
  ASSUME ObjTyped, NEW o \in Owners, WriteTriggers(o)
  PROVE  due' \in [Owners -> {"no", "own", "outside"}]
<1>1. due \in [Owners -> {"no", "own", "outside"}]
  BY DEF ObjTyped
<1>2. Queued(due, o, "own") \in [Owners -> {"no", "own", "outside"}]
  BY <1>1, QueuedTyped
<1> QED BY <1>1, <1>2 DEF WriteTriggers

(* A step for one object leaves the others as they are.                    *)
Apart(q) ==
  /\ obj'[q] = obj[q] /\ finalizer'[q] = finalizer[q] /\ phase'[q] = phase[q]
  /\ pc'[q] = pc[q] /\ stale'[q] = stale[q]

(* So only the object the step is for can cease to be orderly.             *)
LEMMA OthersOrderly ==
  ASSUME Orderly, NEW o, \A q \in Owners \ {o} : Apart(q), o \in Owners => OrderlyAt(o)'
  PROVE  Orderly'
<1> SUFFICES ASSUME NEW q \in Owners PROVE OrderlyAt(q)'
  BY DEF Orderly
<1>1. CASE q = o
  BY <1>1
<1>2. CASE q # o
  <2>1. Apart(q) /\ OrderlyAt(q)
    BY <1>2 DEF Orderly
  <2> QED BY <2>1 DEF Apart, OrderlyAt
<1> QED BY <1>1, <1>2

(* A failed write only ends the reconcile.                                 *)
LEMMA FailOrderly ==
  ASSUME ObjTyped, Orderly, NEW o \in Owners, WriteFails(o)
  PROVE  ObjTyped' /\ Orderly'
<1>1. due' \in [Owners -> {"no", "own", "outside"}]
  BY WriteFails(o) DEF WriteFails, ObjTyped
<1>2. ObjTyped'
  BY WriteFails(o), <1>1 DEF WriteFails, Return, Goto, object, ObjTyped
<1>3. \A q \in Owners \ {o} : Apart(q)
  BY WriteFails(o) DEF WriteFails, Return, Goto, object, ObjTyped, Apart
<1>4. OrderlyAt(o)'
  <2>1. OrderlyAt(o)
    BY DEF Orderly
  <2> QED BY WriteFails(o), <2>1 DEF WriteFails, Return, Goto, object, ObjTyped, OrderlyAt, Scanning, Guarded
<1> QED BY <1>2, <1>3, <1>4, OthersOrderly

(* An object and its reconcile keep going together, whatever happens to    *)
(* the reports.                                                            *)
LEMMA ObjNext ==
  ASSUME ObjTyped, Orderly, [Next]_vars
  PROVE  ObjTyped' /\ Orderly'
<1>1. ASSUME NEW o \in Owners, Begin(o) PROVE ObjTyped' /\ Orderly'
  <2>1. due' \in [Owners -> {"no", "own", "outside"}]
    BY <1>1 DEF Begin, Goto, object, ObjTyped
  <2>2. ObjTyped'
    <3>1. UNCHANGED <<obj, finalizer, suspend, phase>>
      BY <1>1 DEF Begin, object
    <3>2. stale' \in [Owners -> BOOLEAN]
      BY <1>1 DEF Begin, ObjTyped
    <3>3. UNCHANGED pc \/ \E t \in {"cleanup", "finalize", "reconciling", "suspended", "start"} :
                             pc' = [pc EXCEPT ![o] = t]
      BY <1>1 DEF Begin, Goto
    <3>4. pc' \in [Owners -> {"idle", "finalize", "reconciling", "suspended", "identity",
                               "start", "scan", "mark", "prune", "status", "cleanup",
                               "release"}]
      BY <3>3 DEF ObjTyped
    <3> QED BY <2>1, <3>1, <3>2, <3>4 DEF ObjTyped
  <2>3. \A q \in Owners \ {o} : Apart(q)
    BY <1>1 DEF Begin, Goto, object, ObjTyped, Apart
  <2>4. OrderlyAt(o)'
    <3>1. OrderlyAt(o)
      BY DEF Orderly
    <3> QED BY <1>1, <3>1 DEF Begin, Goto, object, ObjTyped, OrderlyAt, Scanning, Guarded
  <2> QED BY <2>2, <2>3, <2>4, OthersOrderly
<1>2. ASSUME NEW o \in Owners, AddFinalizer(o) PROVE ObjTyped' /\ Orderly'
  <2>1. CASE WriteFails(o)
    BY <2>1, FailOrderly
  <2>2. CASE ~WriteFails(o)
    <3>1. due' \in [Owners -> {"no", "own", "outside"}]
      BY <1>2, <2>2, TriggersTyped DEF AddFinalizer
    <3>2. ObjTyped'
      BY <1>2, <2>2, <3>1 DEF AddFinalizer, Return, Goto, ObjTyped
    <3>3. \A q \in Owners \ {o} : Apart(q)
      BY <1>2, <2>2 DEF AddFinalizer, Return, Goto, ObjTyped, Apart
    <3>4. OrderlyAt(o)'
      <4>1. OrderlyAt(o)
        BY DEF Orderly
      <4> QED BY <1>2, <2>2, <4>1 DEF AddFinalizer, Return, Goto, ObjTyped, OrderlyAt, Scanning, Guarded
    <3> QED BY <3>2, <3>3, <3>4, OthersOrderly
  <2> QED BY <2>1, <2>2
<1>3. ASSUME NEW o \in Owners, MarkReconciling(o) PROVE ObjTyped' /\ Orderly'
  <2>1. CASE WriteFails(o)
    BY <2>1, FailOrderly
  <2>2. CASE ~WriteFails(o)
    <3>1. due' \in [Owners -> {"no", "own", "outside"}]
      BY <1>3, <2>2, TriggersTyped DEF MarkReconciling
    <3>2. ObjTyped'
      BY <1>3, <2>2, <3>1 DEF MarkReconciling, Goto, object, ObjTyped
    <3>3. \A q \in Owners \ {o} : Apart(q)
      BY <1>3, <2>2 DEF MarkReconciling, Goto, object, ObjTyped, Apart
    <3>4. OrderlyAt(o)'
      <4>1. OrderlyAt(o)
        BY DEF Orderly
      <4> QED BY <1>3, <2>2, <4>1 DEF MarkReconciling, Goto, object, ObjTyped, OrderlyAt, Scanning, Guarded
    <3> QED BY <3>2, <3>3, <3>4, OthersOrderly
  <2> QED BY <2>1, <2>2
<1>4. ASSUME NEW o \in Owners, Suspended(o) PROVE ObjTyped' /\ Orderly'
  <2>1. CASE WriteFails(o)
    BY <2>1, FailOrderly
  <2>2. CASE ~WriteFails(o)
    <3>1. due' \in [Owners -> {"no", "own", "outside"}]
      BY <1>4, <2>2, TriggersTyped DEF Suspended
    <3>2. ObjTyped'
      BY <1>4, <2>2, <3>1 DEF Suspended, SetPhase, Return, Goto, ObjTyped
    <3>3. \A q \in Owners \ {o} : Apart(q)
      BY <1>4, <2>2 DEF Suspended, SetPhase, Return, Goto, ObjTyped, Apart
    <3>4. OrderlyAt(o)'
      <4>1. OrderlyAt(o)
        BY DEF Orderly
      <4> QED BY <1>4, <2>2, <4>1 DEF Suspended, SetPhase, Return, Goto, ObjTyped, OrderlyAt, Scanning, Guarded
    <3> QED BY <3>2, <3>3, <3>4, OthersOrderly
  <2> QED BY <2>1, <2>2
<1>5. ASSUME NEW o \in Owners, StartScan(o) PROVE ObjTyped' /\ Orderly'
  <2>1. CASE WriteFails(o)
    BY <2>1, FailOrderly
  <2>2. CASE ~WriteFails(o)
    <3>1. due' \in [Owners -> {"no", "own", "outside"}]
      BY <1>5, <2>2, TriggersTyped DEF StartScan
    <3>2. ObjTyped'
      BY <1>5, <2>2, <3>1 DEF StartScan, SetPhase, Goto, ObjTyped
    <3>3. \A q \in Owners \ {o} : Apart(q)
      BY <1>5, <2>2 DEF StartScan, SetPhase, Goto, ObjTyped, Apart
    <3>4. OrderlyAt(o)'
      <4>1. OrderlyAt(o)
        BY DEF Orderly
      <4> QED BY <1>5, <2>2, <4>1 DEF StartScan, SetPhase, Goto, ObjTyped, OrderlyAt, Scanning, Guarded
    <3> QED BY <3>2, <3>3, <3>4, OthersOrderly
  <2> QED BY <2>1, <2>2
<1>6. ASSUME NEW o \in Owners, TargetsFail(o) PROVE ObjTyped' /\ Orderly'
  <2>1. due' \in [Owners -> {"no", "own", "outside"}]
    BY <1>6 DEF TargetsFail, SetPhase, Return, Goto, ObjTyped
  <2>2. ObjTyped'
    BY <1>6, <2>1 DEF TargetsFail, SetPhase, Return, Goto, ObjTyped
  <2>3. \A q \in Owners \ {o} : Apart(q)
    BY <1>6 DEF TargetsFail, SetPhase, Return, Goto, ObjTyped, Apart
  <2>4. OrderlyAt(o)'
    <3>1. OrderlyAt(o)
      BY DEF Orderly
    <3> QED BY <1>6, <3>1 DEF TargetsFail, SetPhase, Return, Goto, ObjTyped, OrderlyAt, Scanning, Guarded
  <2> QED BY <2>2, <2>3, <2>4, OthersOrderly
<1>7. ASSUME NEW o \in Owners, CreateReport(o) PROVE ObjTyped' /\ Orderly'
  <2>1. due' \in [Owners -> {"no", "own", "outside"}]
    BY <1>7 DEF CreateReport, ReportCreated, Return, Goto, object, queue, ObjTyped
  <2>2. ObjTyped'
    BY <1>7, <2>1 DEF CreateReport, ReportCreated, Return, Goto, object, queue, ObjTyped
  <2>3. \A q \in Owners \ {o} : Apart(q)
    BY <1>7 DEF CreateReport, ReportCreated, Return, Goto, object, queue, ObjTyped, Apart
  <2>4. OrderlyAt(o)'
    <3>1. OrderlyAt(o)
      BY DEF Orderly
    <3> QED BY <1>7, <3>1 DEF CreateReport, ReportCreated, Return, Goto, object, queue, ObjTyped, OrderlyAt, Scanning, Guarded
  <2> QED BY <2>2, <2>3, <2>4, OthersOrderly
<1>8. ASSUME NEW o \in Owners, MarkReport(o) PROVE ObjTyped' /\ Orderly'
  <2>1. due' \in [Owners -> {"no", "own", "outside"}]
    <3>1. due \in [Owners -> {"no", "own", "outside"}]
      BY DEF ObjTyped
    <3>2. Queued(due, o, "own") \in [Owners -> {"no", "own", "outside"}]
      BY <3>1, QueuedTyped
    <3>3. due' = Queued(due, o, "own") \/ due' = due
      BY <1>8 DEF MarkReport
    <3> QED BY <3>1, <3>2, <3>3
  <2>2. ObjTyped'
    BY <1>8, <2>1 DEF MarkReport, Goto, object, ObjTyped
  <2>3. \A q \in Owners \ {o} : Apart(q)
    BY <1>8 DEF MarkReport, Goto, object, ObjTyped, Apart
  <2>4. OrderlyAt(o)'
    <3>1. OrderlyAt(o)
      BY DEF Orderly
    <3> QED BY <1>8, <3>1 DEF MarkReport, Goto, object, ObjTyped, OrderlyAt, Scanning, Guarded
  <2> QED BY <2>2, <2>3, <2>4, OthersOrderly
<1>9. ASSUME NEW o \in Owners, EnforceHistoryLimit(o) PROVE ObjTyped' /\ Orderly'
  <2>1. due' \in [Owners -> {"no", "own", "outside"}]
    BY <1>9 DEF EnforceHistoryLimit, Goto, object, queue, ObjTyped
  <2>2. ObjTyped'
    BY <1>9, <2>1 DEF EnforceHistoryLimit, Goto, object, queue, ObjTyped
  <2>3. \A q \in Owners \ {o} : Apart(q)
    BY <1>9 DEF EnforceHistoryLimit, Goto, object, queue, ObjTyped, Apart
  <2>4. OrderlyAt(o)'
    <3>1. OrderlyAt(o)
      BY DEF Orderly
    <3> QED BY <1>9, <3>1 DEF EnforceHistoryLimit, Goto, object, queue, ObjTyped, OrderlyAt, Scanning, Guarded
  <2> QED BY <2>2, <2>3, <2>4, OthersOrderly
<1>10. ASSUME NEW o \in Owners, UpdateStatus(o) PROVE ObjTyped' /\ Orderly'
  <2>1. CASE WriteFails(o)
    BY <2>1, FailOrderly
  <2>2. CASE ~WriteFails(o)
    <3>1. due' \in [Owners -> {"no", "own", "outside"}]
      BY <1>10, <2>2, TriggersTyped DEF UpdateStatus
    <3>2. ObjTyped'
      BY <1>10, <2>2, <3>1 DEF UpdateStatus, SetPhase, Return, Goto, ObjTyped
    <3>3. \A q \in Owners \ {o} : Apart(q)
      BY <1>10, <2>2 DEF UpdateStatus, SetPhase, Return, Goto, ObjTyped, Apart
    <3>4. OrderlyAt(o)'
      <4>1. OrderlyAt(o)
        BY DEF Orderly
      <4> QED BY <1>10, <2>2, <4>1 DEF UpdateStatus, SetPhase, Return, Goto, ObjTyped, OrderlyAt, Scanning, Guarded
    <3> QED BY <3>2, <3>3, <3>4, OthersOrderly
  <2> QED BY <2>1, <2>2
<1>11. ASSUME NEW o \in Owners, CleanupScanReports(o) PROVE ObjTyped' /\ Orderly'
  <2>1. due' \in [Owners -> {"no", "own", "outside"}]
    BY <1>11 DEF CleanupScanReports, Return, Goto, object, ObjTyped
  <2>2. ObjTyped'
    BY <1>11, <2>1 DEF CleanupScanReports, Return, Goto, object, ObjTyped
  <2>3. \A q \in Owners \ {o} : Apart(q)
    BY <1>11 DEF CleanupScanReports, Return, Goto, object, ObjTyped, Apart
  <2>4. OrderlyAt(o)'
    <3>1. OrderlyAt(o)
      BY DEF Orderly
    <3> QED BY <1>11, <3>1 DEF CleanupScanReports, Return, Goto, object, ObjTyped, OrderlyAt, Scanning, Guarded
  <2> QED BY <2>2, <2>3, <2>4, OthersOrderly
<1>12. ASSUME NEW o \in Owners, RemoveFinalizer(o) PROVE ObjTyped' /\ Orderly'
  <2>1. CASE WriteFails(o)
    BY <2>1, FailOrderly
  <2>2. CASE ~WriteFails(o)
    <3>1. due' \in [Owners -> {"no", "own", "outside"}]
      <4>1. due \in [Owners -> {"no", "own", "outside"}]
        BY DEF ObjTyped
      <4>2. Queued(due, o, "own") \in [Owners -> {"no", "own", "outside"}]
        BY <4>1, QueuedTyped
      <4>3. due' = Queued(due, o, "own")
        BY <1>12, <2>2 DEF RemoveFinalizer
      <4> QED BY <4>2, <4>3
    <3>2. ObjTyped'
      BY <1>12, <2>2, <3>1 DEF RemoveFinalizer, SetPhase, Goto, ObjTyped
    <3>3. \A q \in Owners \ {o} : Apart(q)
      BY <1>12, <2>2 DEF RemoveFinalizer, SetPhase, Goto, ObjTyped, Apart
    <3>4. OrderlyAt(o)'
      <4>1. OrderlyAt(o)
        BY DEF Orderly
      <4> QED BY <1>12, <2>2, <4>1 DEF RemoveFinalizer, SetPhase, Goto, ObjTyped, OrderlyAt, Scanning, Guarded
    <3> QED BY <3>2, <3>3, <3>4, OthersOrderly
  <2> QED BY <2>1, <2>2
<1>13. ASSUME NEW o \in Owners, TimerFires(o) PROVE ObjTyped' /\ Orderly'
  <2>1. due' \in [Owners -> {"no", "own", "outside"}]
    BY <1>13, QueuedTyped DEF TimerFires, ObjTyped
  <2>2. ObjTyped'
    BY <1>13, <2>1 DEF TimerFires, object, worker, ObjTyped
  <2>3. \A q \in Owners \ {o} : Apart(q)
    BY <1>13 DEF TimerFires, object, worker, ObjTyped, Apart
  <2>4. OrderlyAt(o)'
    <3>1. OrderlyAt(o)
      BY DEF Orderly
    <3> QED BY <1>13, <3>1 DEF TimerFires, object, worker, ObjTyped, OrderlyAt, Scanning, Guarded
  <2> QED BY <2>2, <2>3, <2>4, OthersOrderly
<1>14. ASSUME NEW o \in Owners, UserChanges(o) PROVE ObjTyped' /\ Orderly'
  <2>1. due' \in [Owners -> {"no", "own", "outside"}]
    BY <1>14, QueuedTyped DEF UserChanges, ObjTyped
  <2>2. ObjTyped'
    BY <1>14, <2>1 DEF UserChanges, ObjTyped
  <2>3. \A q \in Owners \ {o} : Apart(q)
    BY <1>14 DEF UserChanges, ObjTyped, Apart
  <2>4. OrderlyAt(o)'
    <3>1. OrderlyAt(o)
      BY DEF Orderly
    <3> QED BY <1>14, <3>1 DEF UserChanges, ObjTyped, OrderlyAt, Scanning, Guarded
  <2> QED BY <2>2, <2>3, <2>4, OthersOrderly
<1>15. ASSUME NEW o \in Owners, VerifyIdentity(o) PROVE ObjTyped' /\ Orderly'
  <2>1. CASE WriteFails(o)
    BY <2>1, FailOrderly
  <2>2. CASE Goto(o, "start") /\ UNCHANGED <<object, log, stale, mine, why, queue, faults, user>>
    <3>1. due' \in [Owners -> {"no", "own", "outside"}]
      BY <1>15, <2>2 DEF queue, ObjTyped
    <3>2. ObjTyped'
      BY <1>15, <2>2, <3>1 DEF VerifyIdentity, Goto, object, queue, ObjTyped
    <3>3. \A q \in Owners \ {o} : Apart(q)
      BY <1>15, <2>2 DEF VerifyIdentity, Goto, object, queue, ObjTyped, Apart
    <3>4. OrderlyAt(o)'
      <4>1. OrderlyAt(o)
        BY DEF Orderly
      <4> QED BY <1>15, <2>2, <4>1 DEF VerifyIdentity, Goto, object, queue, ObjTyped, OrderlyAt, Scanning, Guarded
    <3> QED BY <3>2, <3>3, <3>4, OthersOrderly
  <2>3. CASE /\ SetPhase(o, "Degraded") /\ WriteTriggers(o) /\ Return(o)
             /\ UNCHANGED <<kind, obj, finalizer, suspend, lastReport, log, stale, user>>
    <3>1. due' \in [Owners -> {"no", "own", "outside"}]
      BY <1>15, <2>3, TriggersTyped
    <3>2. ObjTyped'
      BY <1>15, <2>3, <3>1 DEF VerifyIdentity, SetPhase, Return, Goto, ObjTyped
    <3>3. \A q \in Owners \ {o} : Apart(q)
      BY <1>15, <2>3 DEF VerifyIdentity, SetPhase, Return, Goto, ObjTyped, Apart
    <3>4. OrderlyAt(o)'
      <4>1. OrderlyAt(o)
        BY DEF Orderly
      <4> QED BY <1>15, <2>3, <4>1 DEF VerifyIdentity, SetPhase, Return, Goto, ObjTyped, OrderlyAt, Scanning, Guarded
    <3> QED BY <3>2, <3>3, <3>4, OthersOrderly
  <2> QED BY <1>15, <2>1, <2>2, <2>3 DEF VerifyIdentity
<1>16. ASSUME NEW i \in DOMAIN log, CacheSees(i) \/ CacheForgets(i) \/ ReconcileReport(i)
       PROVE  ObjTyped' /\ Orderly'
  <2>1. UNCHANGED <<obj, finalizer, suspend, phase, pc, stale>>
    BY <1>16 DEF CacheSees, CacheForgets, ReconcileReport, object, worker
  <2>2. due' = Queued(due, log[i].owner, "own")
    BY <1>16 DEF CacheSees, CacheForgets, ReconcileReport
  <2>3. due' \in [Owners -> {"no", "own", "outside"}]
    BY <2>2, QueuedTyped DEF ObjTyped
  <2> QED BY <2>1, <2>3 DEF ObjTyped, Orderly, OrderlyAt
<1>17. ASSUME NEW i \in DOMAIN log, GarbageCollect(i) PROVE ObjTyped' /\ Orderly'
  BY <1>17 DEF GarbageCollect, object, worker, queue, ObjTyped, Orderly, OrderlyAt
<1>18. ASSUME Restart PROVE ObjTyped' /\ Orderly'
  <2>1. /\ UNCHANGED <<obj, finalizer, suspend, phase, stale>>
        /\ pc' = [o \in Owners |-> "idle"]
        /\ due' = [o \in Owners |-> IF obj[o] = "absent" THEN "no" ELSE "outside"]
    BY <1>18 DEF Restart
  <2>2. ObjTyped'
    BY <2>1 DEF ObjTyped
  <2>3. Orderly'
    BY <2>1 DEF Orderly, OrderlyAt, Scanning, Guarded
  <2> QED BY <2>2, <2>3
<1>19. ASSUME UNCHANGED vars PROVE ObjTyped' /\ Orderly'
  BY <1>19 DEF vars, object, worker, queue, ObjTyped, Orderly, OrderlyAt
<1> QED BY <1>1, <1>2, <1>3, <1>4, <1>5, <1>6, <1>7, <1>8, <1>9, <1>10, <1>11, <1>12, <1>13, <1>14, <1>15, <1>16, <1>17, <1>18, <1>19 DEF Next, Reconcile
-----------------------------------------------------------------------------
(* The fields of a report are set one at a time: that the cache has it,    *)
LEMMA SeenSet ==
  ASSUME NEW r \in Report, NEW v \in BOOLEAN
  PROVE  /\ [r EXCEPT !.seen = v] \in Report /\ [r EXCEPT !.seen = v].owner = r.owner
         /\ [r EXCEPT !.seen = v].live = r.live /\ [r EXCEPT !.seen = v].orphan = r.orphan
BY DEF Report

(* ... that it is complete,                                                *)
LEMMA MarkedSet ==
  ASSUME NEW r \in Report, NEW v \in BOOLEAN
  PROVE  /\ [r EXCEPT !.marked = v] \in Report /\ [r EXCEPT !.marked = v].owner = r.owner
         /\ [r EXCEPT !.marked = v].live = r.live /\ [r EXCEPT !.marked = v].orphan = r.orphan
BY DEF Report

(* ... that it exists,                                                     *)
LEMMA LiveSet ==
  ASSUME NEW r \in Report, NEW v \in BOOLEAN
  PROVE  /\ [r EXCEPT !.live = v] \in Report /\ [r EXCEPT !.live = v].owner = r.owner
         /\ [r EXCEPT !.live = v].live = v /\ [r EXCEPT !.live = v].orphan = r.orphan
BY DEF Report

(* ... and that its owner is gone.                                         *)
LEMMA OrphanSet ==
  ASSUME NEW r \in Report, NEW v \in BOOLEAN
  PROVE  /\ [r EXCEPT !.orphan = v] \in Report /\ [r EXCEPT !.orphan = v].owner = r.owner
         /\ [r EXCEPT !.orphan = v].live = r.live /\ [r EXCEPT !.orphan = v].orphan = v
BY DEF Report

(* What a report in the log is.                                            *)
LEMMA LogReport ==
  ASSUME log \in Seq(Report), NEW i \in DOMAIN log
  PROVE  /\ log[i] \in Report /\ log[i].owner \in Owners
         /\ log[i].live \in BOOLEAN /\ log[i].orphan \in BOOLEAN
<1>1. log[i] \in Report
  OBVIOUS
<1> QED BY <1>1 DEF Report

(* Nothing happens to the reports but that the cache sees one, that one is *)
(* marked, or that one without an owner is collected.                      *)
SameReports ==
  /\ log' \in Seq(Report) /\ Len(log') = Len(log) /\ DOMAIN log' = DOMAIN log
  /\ \A i \in DOMAIN log : /\ log'[i].owner = log[i].owner /\ log'[i].orphan = log[i].orphan
                           /\ ~log[i].orphan => log'[i].live = log[i].live

(* The log as it was.                                                      *)
LEMMA SameUnchanged ==
  ASSUME LogTyped, UNCHANGED log
  PROVE  SameReports
BY DEF LogTyped, SameReports

(* The log with one report seen, or marked.                                *)
LEMMA SameTouched ==
  ASSUME LogTyped, NEW i \in DOMAIN log,
         \/ log' = [log EXCEPT ![i].seen = TRUE]
         \/ log' = [log EXCEPT ![i].marked = TRUE]
  PROVE  SameReports
<1>1. log \in Seq(Report) /\ log[i] \in Report
  BY DEF LogTyped
<1>2. PICK r \in Report : /\ log' = [log EXCEPT ![i] = r]
                          /\ r.owner = log[i].owner /\ r.live = log[i].live
                          /\ r.orphan = log[i].orphan
  <2>1. CASE log' = [log EXCEPT ![i].seen = TRUE]
    <3> DEFINE r == [log[i] EXCEPT !.seen = TRUE]
    <3>1. /\ r \in Report /\ r.owner = log[i].owner /\ r.live = log[i].live
          /\ r.orphan = log[i].orphan
      BY <1>1, SeenSet
    <3>2. log' = [log EXCEPT ![i] = r]
      BY <2>1
    <3> QED BY <3>1, <3>2
  <2>2. CASE log' = [log EXCEPT ![i].marked = TRUE]
    <3> DEFINE r == [log[i] EXCEPT !.marked = TRUE]
    <3>1. /\ r \in Report /\ r.owner = log[i].owner /\ r.live = log[i].live
          /\ r.orphan = log[i].orphan
      BY <1>1, MarkedSet
    <3>2. log' = [log EXCEPT ![i] = r]
      BY <2>2
    <3> QED BY <3>1, <3>2
  <2> QED BY <2>1, <2>2
<1>3. log' \in Seq(Report) /\ Len(log') = Len(log) /\ DOMAIN log' = DOMAIN log
  BY <1>1, <1>2
<1>4. \A j \in DOMAIN log : log'[j] = IF j = i THEN r ELSE log[j]
  BY <1>1, <1>2
<1> QED BY <1>2, <1>3, <1>4 DEF SameReports

(* The same for the reports of one object.                                 *)
SameFor(q) ==
  /\ Reports(q)' = Reports(q)
  /\ \A i \in Reports(q) : /\ log'[i].orphan = log[i].orphan
                           /\ ~log[i].orphan => log'[i].live = log[i].live

(* A step that changes no report changes none of one object's.             *)
LEMMA SameForEach ==
  ASSUME SameReports, NEW q
  PROVE  SameFor(q)
<1>1. Reports(q)' = Reports(q) /\ \A i \in Reports(q) : i \in DOMAIN log
  BY DEF SameReports, Reports
<1> QED BY <1>1 DEF SameReports, SameFor

(* Then its newest report is the newest, and its deleted ones are covered, *)
(* as before.                                                              *)
LEMMA OwnerStays ==
  ASSUME NEW q \in Owners, NewestAt(q), CoveredAt(q), SameFor(q),
         pc'[q] \in {"mark", "prune", "status"}
           => pc[q] \in {"mark", "prune", "status"} /\ mine'[q] = mine[q],
         obj'[q] = "live" /\ phase'[q] = "Completed" => IsNewest(q, lastReport'[q]),
         Leaving(q) => Leaving(q)'
  PROVE  NewestAt(q)' /\ CoveredAt(q)'
<1>1. Reports(q)' = Reports(q) /\ Current(q)' = Current(q)
  BY DEF SameFor, Current
<1>2. NewestAt(q)'
  <2>1. /\ pc'[q] \in {"mark", "prune", "status"} => IsNewest(q, mine'[q])
        /\ obj'[q] = "live" /\ phase'[q] = "Completed" => IsNewest(q, lastReport'[q])
    BY DEF NewestAt
  <2> QED BY <1>1, <2>1 DEF NewestAt, IsNewest
<1>3. CoveredAt(q)'
  <2> SUFFICES ASSUME NEW i \in Reports(q)', ~log'[i].live, ~log'[i].orphan
               PROVE  Leaving(q)' \/ Cardinality(Newer(q, i)') >= Limit
    BY DEF CoveredAt
  <2>1. i \in Reports(q) /\ Newer(q, i)' = Newer(q, i)
    BY <1>1 DEF Newer
  <2>2. ~log[i].live /\ ~log[i].orphan
    BY <2>1 DEF SameFor
  <2> QED BY <2>1, <2>2 DEF CoveredAt
<1> QED BY <1>2, <1>3

(* A step that is not about the object.                                    *)
LogApart(q) == Apart(q) /\ mine'[q] = mine[q] /\ lastReport'[q] = lastReport[q]

(* It keeps what is claimed of the object's history.                       *)
LEMMA OtherStays ==
  ASSUME NEW q \in Owners, NewestAt(q), CoveredAt(q), SameFor(q), LogApart(q)
  PROVE  NewestAt(q)' /\ CoveredAt(q)'
<1>1. /\ pc'[q] \in {"mark", "prune", "status"}
           => pc[q] \in {"mark", "prune", "status"} /\ mine'[q] = mine[q]
      /\ Leaving(q) => Leaving(q)'
  BY DEF LogApart, Apart, Leaving
<1>2. obj'[q] = "live" /\ phase'[q] = "Completed" => IsNewest(q, lastReport'[q])
  BY DEF LogApart, Apart, NewestAt
<1> QED BY <1>1, <1>2, OwnerStays

(* A step for one object that leaves the reports alone.                    *)
LEMMA SameStep ==
  ASSUME Histories, SameReports, NEW o \in Owners,
         \A q \in Owners \ {o} : LogApart(q),
         pc'[o] \in {"mark", "prune", "status"}
           => pc[o] \in {"mark", "prune", "status"} /\ mine'[o] = mine[o],
         obj'[o] = "live" /\ phase'[o] = "Completed" => IsNewest(o, lastReport'[o]),
         Leaving(o) => Leaving(o)'
  PROVE  Histories'
<1>1. ASSUME NEW q \in Owners PROVE NewestAt(q)' /\ CoveredAt(q)'
  <2>1. NewestAt(q) /\ CoveredAt(q) /\ SameFor(q)
    BY SameForEach DEF Histories, NewestKept, Covered
  <2>2. CASE q = o
    BY <2>1, <2>2, OwnerStays
  <2>3. CASE q # o
    BY <2>1, <2>3, OtherStays
  <2> QED BY <2>2, <2>3
<1>2. OrphansFirst'
  BY DEF Histories, OrphansFirst, SameReports
<1> QED BY <1>1, <1>2 DEF Histories, NewestKept, Covered
-----------------------------------------------------------------------------
(* With names that differ the list is of the object's own reports.         *)
LEMMA ListedOwn ==
  ASSUME DistinctNames, LogTyped, NEW o \in Owners
  PROVE  Listed(o) \in SUBSET Reports(o)
<1>1. \A i \in DOMAIN log : log[i].owner \in Owners
  BY LogReport DEF LogTyped
<1> QED BY <1>1 DEF Listed, Matches, Reports, DistinctNames

(* DeleteOldest removes the reports of Oldest and does nothing else.       *)
LEMMA Deletes ==
  ASSUME LogTyped, NEW o, NEW k, DeleteOldest(o, k)
  PROVE  /\ log' \in Seq(Report) /\ Len(log') = Len(log) /\ DOMAIN log' = DOMAIN log
         /\ \A i \in DOMAIN log :
              /\ log'[i].owner = log[i].owner /\ log'[i].orphan = log[i].orphan
              /\ log'[i].live <=> log[i].live /\ i \notin Oldest(o, k)
<1> DEFINE v(i) == log[i].live /\ i \notin Oldest(o, k)
           R(i) == [log[i] EXCEPT !.live = v(i)]
<1>1. log \in Seq(Report) /\ DOMAIN log = 1 .. Len(log) /\ Len(log) \in Nat
  BY DEF LogTyped
<1>2. log' = [i \in DOMAIN log |-> R(i)]
  BY DEF DeleteOldest
<1>3. ASSUME NEW i \in DOMAIN log
      PROVE  /\ R(i) \in Report /\ R(i).owner = log[i].owner /\ R(i).orphan = log[i].orphan
             /\ R(i).live = v(i)
  <2>1. log[i] \in Report /\ v(i) \in BOOLEAN
    BY <1>1
  <2> HIDE DEF v
  <2> QED BY <2>1, LiveSet
<1> HIDE DEF R
<1>4. log' \in Seq(Report) /\ Len(log') = Len(log) /\ DOMAIN log' = DOMAIN log
  BY <1>1, <1>2, <1>3
<1> QED BY <1>2, <1>3, <1>4

(* The reports of others stay.                                             *)
LEMMA DeletesOwn ==
  ASSUME DistinctNames, LogTyped, NEW o \in Owners, NEW k, DeleteOldest(o, k),
         NEW q \in Owners \ {o}
  PROVE  SameFor(q)
<1>1. /\ DOMAIN log' = DOMAIN log
      /\ \A i \in DOMAIN log :
           /\ log'[i].owner = log[i].owner /\ log'[i].orphan = log[i].orphan
           /\ log'[i].live <=> log[i].live /\ i \notin Oldest(o, k)
  BY Deletes
<1>2. Reports(q)' = Reports(q)
  BY <1>1 DEF Reports
<1>3. \A i \in Reports(q) : i \in DOMAIN log /\ i \notin Oldest(o, k)
  BY ListedOwn DEF Oldest, Reports
<1>4. \A i \in Reports(q) : log[i].live \in BOOLEAN /\ log'[i].live \in BOOLEAN
  <2> SUFFICES ASSUME NEW i \in Reports(q)
               PROVE  log[i].live \in BOOLEAN /\ log'[i].live \in BOOLEAN
    OBVIOUS
  <2>1. log \in Seq(Report) /\ log' \in Seq(Report)
    BY Deletes DEF LogTyped
  <2>2. log[i] \in Report /\ log'[i] \in Report
    BY <1>1, <1>3, <2>1
  <2> QED BY <2>2 DEF Report
<1> QED BY <1>1, <1>2, <1>3, <1>4 DEF SameFor

(* The newer reports of its object that stay when enforceHistoryLimit      *)
(* removes report i.                                                       *)
Staying(o, i) == {j \in Current(o) : j > i /\ log'[j].live}

(* Whether or not a deletion fails on the way, those are at least          *)
(* historyLimit.                                                           *)
LEMMA PruneCovers ==
  ASSUME DistinctNames, LogTyped, Histories, NEW o \in Owners, ~Leaving(o),
         NEW k \in Nat, k = 0 \/ k <= Cardinality(Listed(o)) - Limit, DeleteOldest(o, k),
         NEW i \in Current(o), ~log'[i].live
  PROVE  IsFiniteSet(Staying(o, i)) /\ Cardinality(Staying(o, i)) >= Limit
<1> DEFINE L == Listed(o)
           S == Oldest(o, k)
           G == Staying(o, i)
<1>1. /\ DOMAIN log = 1 .. Len(log) /\ Len(log) \in Nat /\ Limit \in Nat
      /\ L \in SUBSET Reports(o) /\ Reports(o) \in SUBSET DOMAIN log
      /\ Current(o) \in SUBSET Reports(o)
  BY ListedOwn, ScanAssumption DEF LogTyped, Reports, Current
<1>2. /\ L \in SUBSET (1 .. Len(log)) /\ S = OldestOf(L, k) /\ S \in SUBSET L
  BY <1>1 DEF Oldest, OldestOf
<1>3. \A x \in DOMAIN log : /\ log'[x].owner = log[x].owner /\ log'[x].orphan = log[x].orphan
                            /\ log'[x].live <=> log[x].live /\ x \notin S
  BY Deletes
<1>4. IsFiniteSet(DOMAIN log)
  BY <1>1, FS_Interval
<1>5. G \in SUBSET DOMAIN log
  BY <1>1 DEF Staying
<1>6. IsFiniteSet(G) /\ Cardinality(G) \in Nat /\ IsFiniteSet(L) /\ Cardinality(L) \in Nat
  BY <1>1, <1>2, <1>4, <1>5, FS_Subset, FS_CardinalityType
<1>7. i \in S /\ ~log[i].orphan /\ log[i].owner = o /\ log[i].live
  BY <1>1, <1>3 DEF Current, Reports
<1>8. \A x \in L : log[x].owner = o /\ x \in DOMAIN log /\ x \in Nat
  BY <1>1 DEF Reports
<1> HIDE DEF L, S, G
<1>9. /\ IsFiniteSet(S) /\ Cardinality(S) \in Nat /\ Cardinality(S) <= k
      /\ \A x \in S, y \in L : y <= x => y \in S
  BY <1>1, <1>2, OldestFew
<1>10. i \in L /\ S \in SUBSET L
  BY <1>2, <1>7
<1>11. k # 0
  <2>1. Cardinality(S) # 0
    BY <1>7, <1>9, FS_EmptySet
  <2> QED BY <1>9, <2>1
<1> DEFINE N == L \ S
<1>12. IsFiniteSet(N) /\ Cardinality(N) \in Nat /\ Cardinality(N) >= Limit
  <2>1. IsFiniteSet(N) /\ Cardinality(N) = Cardinality(L) - Cardinality(L \cap S)
    BY <1>6, FS_Difference
  <2>2. L \cap S = S
    BY <1>10
  <2>3. k <= Cardinality(L) - Limit
    BY <1>11 DEF L
  <2>4. Cardinality(N) \in Nat
    BY <2>1, FS_CardinalityType
  <2>5. Cardinality(N) = Cardinality(L) - Cardinality(S)
    BY <2>1, <2>2
  <2> HIDE DEF N
  <2>6. ASSUME NEW a \in Nat, NEW b \in Nat, b <= k, k <= a - Limit PROVE a - b >= Limit
    BY <1>1, <2>6
  <2> QED BY <1>6, <1>9, <2>1, <2>3, <2>4, <2>5, <2>6
<1>13. ASSUME NEW j \in N
       PROVE  j > i /\ j \in Reports(o) /\ ~log[j].orphan
  <2>1. ~(j <= i) /\ j \in Nat /\ i \in Nat
    BY <1>7, <1>8, <1>9, <1>10
  <2>2. ~log[j].orphan
    BY <1>7, <1>8, <1>10, <2>1 DEF Histories, OrphansFirst
  <2> QED BY <1>8, <2>1, <2>2 DEF Reports
<1>14. CASE \A j \in N : log[j].live
  <2>1. ASSUME NEW j \in N PROVE j \in G
    <3>1. j \in DOMAIN log /\ j \notin S
      BY <1>8
    <3> QED BY <1>3, <1>13, <1>14, <3>1 DEF G, Staying, Current
  <2>2. N \in SUBSET G
    BY <2>1
  <2>3. Cardinality(N) <= Cardinality(G)
    BY <1>6, <2>2, FS_Subset
  <2> HIDE DEF N
  <2> QED BY <1>1, <1>6, <1>12, <2>3 DEF G
<1>15. CASE \E j \in N : ~log[j].live
  <2>1. PICK j \in N : ~log[j].live
    BY <1>15
  <2>2. Cardinality(Newer(o, j)) >= Limit
    BY <1>13, <2>1 DEF Histories, Covered, CoveredAt
  <2>3. ASSUME NEW x \in Newer(o, j) PROVE x \in G
    <3>1. x \in Current(o) /\ x > j /\ x \in DOMAIN log /\ x \in Nat /\ j \in Nat /\ i \in Nat
      BY <1>1, <1>8, <1>10 DEF Newer
    <3>2. x \notin S
      BY <1>9, <3>1
    <3>3. x > i
      BY <1>13, <3>1
    <3>4. log[x].live
      BY <3>1 DEF Current
    <3> QED BY <1>3, <3>1, <3>2, <3>3, <3>4 DEF G, Staying
  <2>4. Newer(o, j) \in SUBSET G
    BY <2>3
  <2>5. Cardinality(Newer(o, j)) <= Cardinality(G) /\ IsFiniteSet(Newer(o, j))
    BY <1>6, <2>4, FS_Subset
  <2>6. Cardinality(Newer(o, j)) \in Nat
    BY <2>5, FS_CardinalityType
  <2> QED BY <1>1, <1>6, <2>2, <2>5, <2>6 DEF G
<1> QED BY <1>14, <1>15

(* A set of reports in the log can be counted.                             *)
LEMMA Countable ==
  ASSUME LogTyped, NEW S \in SUBSET DOMAIN log
  PROVE  IsFiniteSet(S) /\ Cardinality(S) \in Nat
<1>1. DOMAIN log = 1 .. Len(log) /\ Len(log) \in Nat
  BY DEF LogTyped
<1>2. IsFiniteSet(DOMAIN log)
  BY <1>1, FS_Interval
<1> QED BY <1>2, FS_Subset, FS_CardinalityType

(* Deleting reports does not change what orphans there are.                *)
LEMMA DeletesOrphans ==
  ASSUME LogTyped, OrphansFirst, NEW o, NEW k, DeleteOldest(o, k)
  PROVE  OrphansFirst'
<1>1. /\ DOMAIN log' = DOMAIN log
      /\ \A i \in DOMAIN log : log'[i].owner = log[i].owner /\ log'[i].orphan = log[i].orphan
  BY Deletes
<1> QED BY <1>1 DEF OrphansFirst

(* enforceHistoryLimit keeps what is known of the histories: the report of *)
(* this reconcile is the newest and has no newer ones, so it stays.        *)
LEMMA PruneKeeps ==
  ASSUME DistinctNames, LogTyped, Orderly, Histories, NEW o \in Owners, pc[o] = "prune",
         NEW k \in Nat, k = 0 \/ k <= Cardinality(Listed(o)) - Limit, DeleteOldest(o, k),
         \A q \in Owners \ {o} : LogApart(q),
         obj' = obj, phase' = phase, mine' = mine
  PROVE  Histories'
<1>1. /\ DOMAIN log' = DOMAIN log
      /\ \A i \in DOMAIN log :
           /\ log'[i].owner = log[i].owner /\ log'[i].orphan = log[i].orphan
           /\ log'[i].live <=> log[i].live /\ i \notin Oldest(o, k)
  BY Deletes
<1>2. ~Leaving(o)
  BY DEF Leaving
<1>3. \A i \in Current(o) :
        ~log'[i].live => IsFiniteSet(Staying(o, i)) /\ Cardinality(Staying(o, i)) >= Limit
  BY <1>2, PruneCovers
<1>4. /\ Reports(o)' = Reports(o) /\ Reports(o) \in SUBSET DOMAIN log
      /\ Current(o)' = {j \in Current(o) : log'[j].live}
  BY <1>1 DEF Reports, Current
<1>5. Limit \in Nat /\ Limit > 0
  BY ScanAssumption
<1>6. ASSUME NEW q \in Owners \ {o} PROVE NewestAt(q)' /\ CoveredAt(q)'
  <2>1. NewestAt(q) /\ CoveredAt(q)
    BY DEF Histories, NewestKept, Covered
  <2>2. SameFor(q) /\ LogApart(q)
    BY DeletesOwn
  <2> QED BY <2>1, <2>2, OtherStays
<1>7. NewestAt(o)'
  <2>1. IsNewest(o, mine[o]) /\ phase[o] = "Running"
    BY DEF Histories, NewestKept, NewestAt, Orderly, OrderlyAt, Scanning
  <2>2. log'[mine[o]].live
    <3> SUFFICES ASSUME ~log'[mine[o]].live PROVE FALSE
      OBVIOUS
    <3>1. mine[o] \in Current(o)
      BY <2>1 DEF IsNewest
    <3>2. IsFiniteSet(Staying(o, mine[o])) /\ Cardinality(Staying(o, mine[o])) >= Limit
      BY <1>3, <3>1
    <3>3. Staying(o, mine[o]) = {}
      <4>1. ASSUME NEW j \in Staying(o, mine[o]) PROVE FALSE
        <5>1. j \in Reports(o) /\ j > mine[o]
          BY DEF Staying, Current
        <5>2. j <= mine[o]
          BY <2>1, <5>1 DEF IsNewest
        <5>3. j \in Nat /\ mine[o] \in Nat
          BY <1>4, <3>1, <5>1 DEF LogTyped, Current
        <5> QED BY <5>1, <5>2, <5>3
      <4> QED BY <4>1
    <3>4. Cardinality({}) = 0
      BY FS_EmptySet
    <3> QED BY <1>5, <3>2, <3>3, <3>4
  <2>3. IsNewest(o, mine[o])'
    BY <1>4, <2>1, <2>2 DEF IsNewest
  <2> QED BY <2>1, <2>3 DEF NewestAt
<1>8. CoveredAt(o)'
  <2> SUFFICES ASSUME NEW i \in Reports(o)', ~log'[i].live, ~log'[i].orphan
               PROVE  Cardinality(Newer(o, i)') >= Limit
    BY DEF CoveredAt
  <2>1. i \in Reports(o) /\ i \in DOMAIN log /\ ~log[i].orphan
    BY <1>1, <1>4
  <2>2. \A j : Newer(o, j)' = Staying(o, j)
    BY <1>4 DEF Newer, Staying
  <2>3. CASE log[i].live
    <3>1. i \in Current(o)
      BY <2>1, <2>3 DEF Current
    <3> QED BY <1>3, <2>2, <3>1
  <2>4. CASE ~log[i].live
    <3>1. Cardinality(Newer(o, i)) >= Limit
      BY <1>2, <2>1, <2>4 DEF Histories, Covered, CoveredAt
    <3>2. CASE \A j \in Newer(o, i) : log'[j].live
      <4>1. Staying(o, i) = Newer(o, i)
        BY <3>2 DEF Staying, Newer
      <4> QED BY <2>2, <3>1, <4>1
    <3>3. CASE \E j \in Newer(o, i) : ~log'[j].live
      <4>1. PICK j \in Newer(o, i) : ~log'[j].live
        BY <3>3
      <4>2. j \in Current(o) /\ j > i /\ j \in DOMAIN log
        BY <1>4 DEF Newer, Current
      <4>3. Cardinality(Staying(o, j)) >= Limit
        BY <1>3, <4>1, <4>2
      <4>4. \A x \in DOMAIN log : x \in Nat
        BY DEF LogTyped
      <4>5. Staying(o, j) \in SUBSET Staying(o, i) /\ Staying(o, i) \in SUBSET DOMAIN log
        BY <1>4, <2>1, <4>2, <4>4 DEF Staying, Current
      <4>6. /\ IsFiniteSet(Staying(o, i)) /\ Cardinality(Staying(o, i)) \in Nat
            /\ Cardinality(Staying(o, j)) \in Nat
        BY <4>5, Countable
      <4>7. Cardinality(Staying(o, j)) <= Cardinality(Staying(o, i))
        BY <4>5, <4>6, FS_Subset
      <4> QED BY <1>5, <2>2, <4>3, <4>6, <4>7
    <3> QED BY <3>2, <3>3
  <2> QED BY <2>3, <2>4
<1>9. OrphansFirst'
  BY DeletesOrphans DEF Histories
<1> QED BY <1>6, <1>7, <1>8, <1>9 DEF Histories, NewestKept, Covered

(* cleanupScanReports deletes reports of an object that is going away.     *)
LEMMA CleanupKeeps ==
  ASSUME DistinctNames, LogTyped, Histories, NEW o \in Owners, NEW k, DeleteOldest(o, k),
         \A q \in Owners \ {o} : LogApart(q), Leaving(o)', pc'[o] \in {"idle", "release"}
  PROVE  Histories'
<1>1. ASSUME NEW q \in Owners \ {o} PROVE NewestAt(q)' /\ CoveredAt(q)'
  <2>1. NewestAt(q) /\ CoveredAt(q)
    BY DEF Histories, NewestKept, Covered
  <2>2. SameFor(q) /\ LogApart(q)
    BY DeletesOwn
  <2> QED BY <2>1, <2>2, OtherStays
<1>2. NewestAt(o)' /\ CoveredAt(o)'
  BY DEF Leaving, NewestAt, CoveredAt
<1>3. OrphansFirst'
  BY DeletesOrphans DEF Histories
<1> QED BY <1>1, <1>2, <1>3 DEF Histories, NewestKept, Covered

(* RemoveFinalizer: the object is gone and its reports are orphans.        *)
LEMMA ReleaseKeeps ==
  ASSUME LogTyped, Histories, NEW o \in Owners,
         log' = [i \in DOMAIN log |-> [log[i] EXCEPT !.orphan = @ \/ log[i].owner = o]],
         \A q \in Owners \ {o} : LogApart(q), pc'[o] = "idle", obj'[o] = "absent"
  PROVE  /\ Histories'
         /\ log' \in Seq(Report) /\ Len(log') = Len(log)
<1> DEFINE v(i) == log[i].orphan \/ log[i].owner = o
           R(i) == [log[i] EXCEPT !.orphan = v(i)]
<1>1. log \in Seq(Report) /\ DOMAIN log = 1 .. Len(log) /\ Len(log) \in Nat
  BY DEF LogTyped
<1>2. log' = [i \in DOMAIN log |-> R(i)]
  OBVIOUS
<1>3. ASSUME NEW i \in DOMAIN log
      PROVE  /\ R(i) \in Report /\ R(i).owner = log[i].owner /\ R(i).live = log[i].live
             /\ R(i).orphan = v(i)
  <2>1. log[i] \in Report /\ v(i) \in BOOLEAN
    BY <1>1
  <2> HIDE DEF v
  <2> QED BY <2>1, OrphanSet
<1> HIDE DEF R
<1>4. log' \in Seq(Report) /\ Len(log') = Len(log) /\ DOMAIN log' = DOMAIN log
  BY <1>1, <1>2, <1>3
<1>5. \A i \in DOMAIN log : /\ log'[i].owner = log[i].owner /\ log'[i].live = log[i].live
                            /\ log'[i].orphan <=> log[i].orphan \/ log[i].owner = o
  BY <1>2, <1>3
<1>6. ASSUME NEW q \in Owners \ {o} PROVE NewestAt(q)' /\ CoveredAt(q)'
  <2>1. NewestAt(q) /\ CoveredAt(q)
    BY DEF Histories, NewestKept, Covered
  <2>2. Reports(q)' = Reports(q) /\ \A i \in Reports(q) : i \in DOMAIN log /\ log[i].owner # o
    BY <1>4, <1>5 DEF Reports
  <2>3. \A i \in Reports(q) : log[i].orphan \in BOOLEAN /\ log'[i].orphan = log[i].orphan
    BY <1>1, <1>2, <1>3, <2>2, LogReport
  <2>4. SameFor(q) /\ LogApart(q)
    BY <1>5, <2>2, <2>3 DEF SameFor
  <2> QED BY <2>1, <2>4, OtherStays
<1>7. NewestAt(o)' /\ CoveredAt(o)'
  <2>1. \A i \in Reports(o)' : log'[i].orphan
    BY <1>4, <1>5 DEF Reports
  <2> QED BY <2>1 DEF NewestAt, CoveredAt
<1>8. OrphansFirst'
  <2> SUFFICES ASSUME NEW i \in DOMAIN log, NEW j \in DOMAIN log,
                      log'[i].owner = log'[j].owner, i < j, log'[j].orphan
               PROVE  log'[i].orphan
    BY <1>4 DEF OrphansFirst
  <2> QED BY <1>5 DEF Histories, OrphansFirst
<1> QED BY <1>4, <1>6, <1>7, <1>8 DEF Histories, NewestKept, Covered

(* ReportCreated: the report of this reconcile is the newest now.          *)
LEMMA CreateKeeps ==
  ASSUME LogTyped, ObjTyped, Orderly, Histories, NEW o \in Owners, pc[o] = "scan",
         ReportCreated(o)
  PROVE  Histories' /\ LogTyped'
<1> DEFINE rec == [owner |-> o, live |-> TRUE, seen |-> FALSE, orphan |-> FALSE,
                   marked |-> FALSE]
           n == Len(log) + 1
<1>1. log \in Seq(Report) /\ DOMAIN log = 1 .. Len(log) /\ Len(log) \in Nat
  BY DEF LogTyped
<1>2. rec \in Report /\ rec.owner = o /\ rec.live /\ ~rec.orphan
  BY DEF Report
<1>3. /\ log' = Append(log, rec) /\ UNCHANGED <<obj, finalizer, phase, lastReport, stale>>
      /\ Len(log) < MaxReports /\ mine' = [mine EXCEPT ![o] = Len(log')]
      /\ pc' = [pc EXCEPT ![o] = "mark"]
  BY DEF ReportCreated, Goto, object
<1> HIDE DEF rec
<1>4. /\ log' \in Seq(Report) /\ Len(log') = n /\ DOMAIN log' = DOMAIN log \cup {n}
      /\ n \notin DOMAIN log /\ log'[n] = rec /\ \A i \in DOMAIN log : log'[i] = log[i]
      /\ \A i \in DOMAIN log : i < n
  BY <1>1, <1>2, <1>3
<1>5. LogTyped'
  <2>1. mine \in [Owners -> 0 .. Len(log)] /\ lastReport \in [Owners -> 0 .. Len(log)]
    BY DEF LogTyped
  <2>2. 0 .. Len(log) \subseteq 0 .. n /\ n \in 0 .. n /\ n <= MaxReports
    BY <1>1, <1>3, ScanAssumption
  <2>3. mine' \in [Owners -> 0 .. n] /\ lastReport' \in [Owners -> 0 .. n]
    <3> HIDE DEF n
    <3> QED BY <1>3, <1>4, <2>1, <2>2
  <2> QED BY <1>4, <2>2, <2>3 DEF LogTyped
<1> HIDE DEF n
<1>6. ASSUME NEW q \in Owners \ {o} PROVE NewestAt(q)' /\ CoveredAt(q)'
  <2>1. NewestAt(q) /\ CoveredAt(q)
    BY DEF Histories, NewestKept, Covered
  <2>2. Reports(q)' = Reports(q) /\ Reports(q) \in SUBSET DOMAIN log
    BY <1>2, <1>4 DEF Reports
  <2>3. SameFor(q)
    BY <1>4, <2>2 DEF SameFor
  <2>4. LogApart(q)
    BY <1>3 DEF LogApart, Apart, ObjTyped, LogTyped
  <2> QED BY <2>1, <2>3, <2>4, OtherStays
<1>7. NewestAt(o)'
  <2>1. mine'[o] = n /\ phase'[o] = "Running"
    BY <1>3, <1>4 DEF LogTyped, Orderly, OrderlyAt, Scanning
  <2>2. n \in Current(o)' /\ \A j \in Reports(o)' : j <= n
    BY <1>1, <1>2, <1>4 DEF Current, Reports, n
  <2> QED BY <2>1, <2>2 DEF NewestAt, IsNewest
<1>8. CoveredAt(o)'
  <2> SUFFICES ASSUME NEW i \in Reports(o)', ~log'[i].live, ~log'[i].orphan
               PROVE  Cardinality(Newer(o, i)') >= Limit
    BY DEF CoveredAt
  <2>1. i \in DOMAIN log /\ i \in Reports(o) /\ ~log[i].live /\ ~log[i].orphan
    BY <1>2, <1>4 DEF Reports
  <2>2. Cardinality(Newer(o, i)) >= Limit
    BY <2>1 DEF Histories, Covered, CoveredAt, Leaving
  <2>3. Newer(o, i) \in SUBSET Newer(o, i)' /\ Newer(o, i)' \in SUBSET DOMAIN log'
    BY <1>4 DEF Newer, Current, Reports
  <2>4. Newer(o, i) \in SUBSET DOMAIN log
    BY DEF Newer, Current, Reports
  <2>5. IsFiniteSet(Newer(o, i)') /\ Cardinality(Newer(o, i)') \in Nat
    <3>1. DOMAIN log' = 1 .. Len(log') /\ Len(log') \in Nat
      BY <1>4
    <3>2. IsFiniteSet(DOMAIN log')
      BY <3>1, FS_Interval
    <3> QED BY <2>3, <3>2, FS_Subset, FS_CardinalityType
  <2>6. Cardinality(Newer(o, i)) <= Cardinality(Newer(o, i)')
    BY <2>3, <2>5, FS_Subset
  <2>7. Cardinality(Newer(o, i)) \in Nat /\ Limit \in Nat
    BY <2>4, Countable, ScanAssumption
  <2> QED BY <2>2, <2>5, <2>6, <2>7
<1>9. OrphansFirst'
  <2> SUFFICES ASSUME NEW i \in DOMAIN log', NEW j \in DOMAIN log',
                      log'[i].owner = log'[j].owner, i < j, log'[j].orphan
               PROVE  log'[i].orphan
    BY DEF OrphansFirst
  <2>1. j \in DOMAIN log
    BY <1>2, <1>4
  <2>2. i # n
    <3>1. j < n /\ j \in Nat /\ n \in Nat
      BY <1>1, <1>4, <2>1 DEF n
    <3> QED BY <3>1
  <2>3. i \in DOMAIN log
    BY <1>4, <2>2
  <2> QED BY <1>4, <2>1, <2>3 DEF Histories, OrphansFirst
<1> QED BY <1>5, <1>6, <1>7, <1>8, <1>9 DEF Histories, NewestKept, Covered

(* The cache forgets deleted reports: the others keep their order, so that *)
(* what was newest, newer or left behind is so at its new place.           *)
LEMMA ForgetKeeps ==
  ASSUME LogTyped, Histories, NEW keep \in SUBSET DOMAIN log, Forget(keep),
         \A i \in DOMAIN log : log[i].live => i \in keep,
         UNCHANGED <<obj, phase>>,
         \A o \in Owners : /\ pc'[o] \in {"mark", "prune", "status"}
                                => pc'[o] = pc[o] /\ mine'[o] = Place(keep, mine[o])
                           /\ Leaving(o) => Leaving(o)',
         \/ mine' = [o \in Owners |-> 0]
         \/ mine' = [o \in Owners |-> Place(keep, mine[o])]
  PROVE  Histories' /\ LogTyped'
<1> DEFINE P(i) == Place(keep, i)
<1>1. /\ log \in Seq(Report) /\ DOMAIN log = 1 .. Len(log) /\ Len(log) \in Nat
      /\ Len(log) <= MaxReports /\ MaxReports \in Nat /\ Limit \in Nat
  BY ScanAssumption DEF LogTyped
<1>2. /\ log' \in Seq(Report) /\ Len(log') = Cardinality(keep)
      /\ Cardinality(keep) \in Nat /\ Cardinality(keep) <= Len(log)
      /\ \A i \in keep : P(i) \in DOMAIN log' /\ log'[P(i)] = log[i]
      /\ \A m \in DOMAIN log' : \E i \in keep : m = P(i)
  BY <1>1, ForgetRenumbers
<1>3. /\ \A i, j \in keep : i < j => P(i) < P(j)
      /\ \A i, j \in keep : P(i) = P(j) => i = j
      /\ \A i \in keep : P(i) \in 1 .. Cardinality(keep)
  BY <1>1, PlacesInOrder
<1>4. \A i \in keep : i \in Nat /\ P(i) \in Nat
  BY <1>1, <1>2, <1>3
<1>5. lastReport' = [o \in Owners |-> P(lastReport[o])]
  BY DEF Forget
<1>6. \A i : i \notin keep => P(i) = 0
  BY DEF Place
<1> HIDE DEF P
<1>7. LogTyped'
  <2>1. \A i : P(i) \in 0 .. Len(log') /\ 0 \in 0 .. Len(log')
    BY <1>2, <1>3, <1>6
  <2>2. lastReport' \in [Owners -> 0 .. Len(log')] /\ mine' \in [Owners -> 0 .. Len(log')]
    BY <1>5, <2>1 DEF P
  <2>3. Len(log') <= MaxReports
    BY <1>1, <1>2
  <2> QED BY <1>2, <2>2, <2>3 DEF LogTyped
<1>8. ASSUME NEW o \in Owners
      PROVE  /\ \A i \in Reports(o) \cap keep : P(i) \in Reports(o)'
             /\ \A i \in Current(o) : i \in keep /\ P(i) \in Current(o)'
             /\ \A m \in Reports(o)' : \E i \in Reports(o) \cap keep : m = P(i)
  <2>1. ASSUME NEW i \in Current(o) PROVE i \in keep /\ P(i) \in Current(o)'
    BY <1>2 DEF Current, Reports
  <2>2. ASSUME NEW m \in Reports(o)' PROVE \E i \in Reports(o) \cap keep : m = P(i)
    BY <1>2 DEF Reports
  <2>3. ASSUME NEW i \in Reports(o) \cap keep PROVE P(i) \in Reports(o)'
    BY <1>2 DEF Reports
  <2> QED BY <2>1, <2>2, <2>3
<1>9. ASSUME NEW o \in Owners, NEW i, IsNewest(o, i)
      PROVE  P(i) \in Current(o)' /\ \A m \in Reports(o)' : m <= P(i)
  <2>1. i \in Current(o) /\ i \in keep /\ P(i) \in Current(o)'
    BY <1>8, <1>9 DEF IsNewest
  <2>2. ASSUME NEW m \in Reports(o)' PROVE m <= P(i)
    <3>1. PICK j \in Reports(o) \cap keep : m = P(j)
      BY <1>8
    <3>2. j <= i
      BY <1>9 DEF IsNewest
    <3> QED BY <1>3, <1>4, <2>1, <3>1, <3>2
  <2> QED BY <2>1, <2>2
<1>10. ASSUME NEW o \in Owners PROVE NewestAt(o)'
  <2>1. NewestAt(o)
    BY DEF Histories, NewestKept
  <2>2. ASSUME pc'[o] \in {"mark", "prune", "status"} PROVE IsNewest(o, mine[o])'
    <3>1. IsNewest(o, mine[o]) /\ mine'[o] = P(mine[o])
      BY <2>1, <2>2 DEF NewestAt, P
    <3> QED BY <1>9, <3>1 DEF IsNewest
  <2>3. ASSUME obj'[o] = "live", phase'[o] = "Completed" PROVE IsNewest(o, lastReport[o])'
    <3>1. IsNewest(o, lastReport[o]) /\ lastReport'[o] = P(lastReport[o])
      BY <1>5, <2>1, <2>3 DEF NewestAt
    <3> QED BY <1>9, <3>1 DEF IsNewest
  <2> QED BY <2>2, <2>3 DEF NewestAt
<1>11. ASSUME NEW o \in Owners PROVE CoveredAt(o)'
  <2> SUFFICES ASSUME NEW m \in Reports(o)', ~log'[m].live, ~log'[m].orphan
               PROVE  Leaving(o)' \/ Cardinality(Newer(o, m)') >= Limit
    BY DEF CoveredAt
  <2>1. PICK i \in Reports(o) \cap keep : m = P(i)
    BY <1>8
  <2>2. ~log[i].live /\ ~log[i].orphan
    BY <1>2, <2>1
  <2>3. Leaving(o) \/ Cardinality(Newer(o, i)) >= Limit
    BY <2>2 DEF Histories, Covered, CoveredAt
  <2>4. CASE Cardinality(Newer(o, i)) >= Limit
    <3> DEFINE f == [j \in Newer(o, i) |-> P(j)]
               N == Newer(o, m)'
    <3>1. ASSUME NEW j \in Newer(o, i) PROVE j \in keep /\ P(j) \in N
      <4>1. j \in Current(o) /\ j > i /\ j \in keep /\ P(j) \in Current(o)'
        BY <1>8 DEF Newer
      <4>2. P(j) > P(i)
        BY <1>3, <1>4, <2>1, <4>1
      <4> QED BY <2>1, <4>1, <4>2 DEF Newer
    <3>2. N \in SUBSET DOMAIN log'
      BY DEF Newer, Current, Reports
    <3>3. IsFiniteSet(N) /\ Cardinality(N) \in Nat
      <4>1. DOMAIN log' = 1 .. Len(log') /\ Len(log') \in Nat
        BY <1>2
      <4>2. IsFiniteSet(DOMAIN log')
        BY <4>1, FS_Interval
      <4> QED BY <3>2, <4>2, FS_Subset, FS_CardinalityType
    <3>4. f \in Injection(Newer(o, i), N)
      <4> HIDE DEF N
      <4> QED BY <1>3, <3>1 DEF Injection, IsInjective
    <3>5. Cardinality(Newer(o, i)) <= Cardinality(N) /\ IsFiniteSet(Newer(o, i))
      <4> HIDE DEF f, N
      <4> QED BY <3>3, <3>4, FS_Injection
    <3>6. Cardinality(Newer(o, i)) \in Nat
      BY <3>5, FS_CardinalityType
    <3> QED BY <1>1, <2>4, <3>3, <3>5, <3>6
  <2>5. CASE Leaving(o)
    BY <2>5
  <2> QED BY <2>3, <2>4, <2>5
<1>12. OrphansFirst'
  <2> SUFFICES ASSUME NEW x \in DOMAIN log', NEW y \in DOMAIN log',
                      log'[x].owner = log'[y].owner, x < y, log'[y].orphan
               PROVE  log'[x].orphan
    BY DEF OrphansFirst
  <2>1. PICK i \in keep : x = P(i)
    BY <1>2
  <2>2. PICK j \in keep : y = P(j)
    BY <1>2
  <2>3. i < j
    BY <1>3, <1>4, <2>1, <2>2
  <2> QED BY <1>2, <2>1, <2>2, <2>3 DEF Histories, OrphansFirst
<1> QED BY <1>7, <1>10, <1>11, <1>12 DEF Histories, NewestKept, Covered

(* A failed write leaves the reports alone.                                *)
LEMMA FailKeeps ==
  ASSUME LogTyped, ObjTyped, Orderly, Histories, NEW o \in Owners, WriteFails(o)
  PROVE  LogTyped' /\ Histories'
<1>1. \A q \in Owners \ {o} : LogApart(q)
  BY WriteFails(o) DEF WriteFails, Return, Goto, object, ObjTyped, LogTyped, LogApart, Apart
<1>2. SameReports
  BY WriteFails(o), SameUnchanged DEF WriteFails, Return, Goto, object
<1>3. LogTyped'
  BY WriteFails(o), <1>2 DEF WriteFails, Return, Goto, object, LogTyped, SameReports
<1>4. /\ pc'[o] \in {"mark", "prune", "status"}
           => pc[o] \in {"mark", "prune", "status"} /\ mine'[o] = mine[o]
      /\ obj'[o] = "live" /\ phase'[o] = "Completed" => IsNewest(o, lastReport'[o])
      /\ Leaving(o) => Leaving(o)'
  <2>1. NewestAt(o) /\ OrderlyAt(o)
    BY DEF Orderly, Histories, NewestKept
  <2> QED BY WriteFails(o), <2>1 DEF WriteFails, Return, Goto, object, ObjTyped, LogTyped, NewestAt, OrderlyAt, Scanning, Guarded, Leaving
<1> QED BY <1>1, <1>2, <1>3, <1>4, SameStep

(* What is known of the reports and the histories survives every step.     *)
LEMMA LogNext ==
  ASSUME DistinctNames, LogTyped, ObjTyped, Orderly, Histories, [Next]_vars
  PROVE  LogTyped' /\ Histories'
<1>1. ASSUME NEW o \in Owners, Begin(o) PROVE LogTyped' /\ Histories'
  <2>1. \A q \in Owners \ {o} : LogApart(q)
    BY <1>1 DEF Begin, Goto, object, ObjTyped, LogTyped, LogApart, Apart
  <2>2. SameReports
    BY <1>1, SameUnchanged DEF Begin, Goto, object
  <2>3. LogTyped'
    BY <1>1, <2>2 DEF Begin, Goto, object, LogTyped, SameReports
  <2>4. /\ pc'[o] \in {"mark", "prune", "status"}
             => pc[o] \in {"mark", "prune", "status"} /\ mine'[o] = mine[o]
        /\ obj'[o] = "live" /\ phase'[o] = "Completed" => IsNewest(o, lastReport'[o])
        /\ Leaving(o) => Leaving(o)'
    <3>1. NewestAt(o) /\ OrderlyAt(o)
      BY DEF Orderly, Histories, NewestKept
    <3> QED BY <1>1, <3>1 DEF Begin, Goto, object, ObjTyped, LogTyped, NewestAt, OrderlyAt, Scanning, Guarded, Leaving
  <2> QED BY <2>1, <2>2, <2>3, <2>4, SameStep
<1>2. ASSUME NEW o \in Owners, AddFinalizer(o) PROVE LogTyped' /\ Histories'
  <2>1. CASE WriteFails(o)
    BY <2>1, FailKeeps
  <2>2. CASE ~WriteFails(o)
    <3>1. \A q \in Owners \ {o} : LogApart(q)
      BY <1>2, <2>2 DEF AddFinalizer, Return, Goto, ObjTyped, LogTyped, LogApart, Apart
    <3>2. SameReports
      BY <1>2, <2>2, SameUnchanged DEF AddFinalizer, Return, Goto
    <3>3. LogTyped'
      <4>1. lastReport' = lastReport /\ mine' = [mine EXCEPT ![o] = 0]
        BY <1>2, <2>2 DEF AddFinalizer, Return
      <4> QED BY <3>2, <4>1 DEF LogTyped, SameReports
    <3>4. /\ pc'[o] \in {"mark", "prune", "status"}
               => pc[o] \in {"mark", "prune", "status"} /\ mine'[o] = mine[o]
          /\ obj'[o] = "live" /\ phase'[o] = "Completed" => IsNewest(o, lastReport'[o])
          /\ Leaving(o) => Leaving(o)'
      <4>1. NewestAt(o) /\ OrderlyAt(o)
        BY DEF Orderly, Histories, NewestKept
      <4> QED BY <1>2, <2>2, <4>1 DEF AddFinalizer, Return, Goto, ObjTyped, LogTyped, NewestAt, OrderlyAt, Scanning, Guarded, Leaving
    <3> QED BY <3>1, <3>2, <3>3, <3>4, SameStep
  <2> QED BY <2>1, <2>2
<1>3. ASSUME NEW o \in Owners, MarkReconciling(o) PROVE LogTyped' /\ Histories'
  <2>1. CASE WriteFails(o)
    BY <2>1, FailKeeps
  <2>2. CASE ~WriteFails(o)
    <3>1. \A q \in Owners \ {o} : LogApart(q)
      BY <1>3, <2>2 DEF MarkReconciling, Goto, object, ObjTyped, LogTyped, LogApart, Apart
    <3>2. SameReports
      BY <1>3, <2>2, SameUnchanged DEF MarkReconciling, Goto, object
    <3>3. LogTyped'
      BY <1>3, <2>2, <3>2 DEF MarkReconciling, Goto, object, LogTyped, SameReports
    <3>4. /\ pc'[o] \in {"mark", "prune", "status"}
               => pc[o] \in {"mark", "prune", "status"} /\ mine'[o] = mine[o]
          /\ obj'[o] = "live" /\ phase'[o] = "Completed" => IsNewest(o, lastReport'[o])
          /\ Leaving(o) => Leaving(o)'
      <4>1. NewestAt(o) /\ OrderlyAt(o)
        BY DEF Orderly, Histories, NewestKept
      <4> QED BY <1>3, <2>2, <4>1 DEF MarkReconciling, Goto, object, ObjTyped, LogTyped, NewestAt, OrderlyAt, Scanning, Guarded, Leaving
    <3> QED BY <3>1, <3>2, <3>3, <3>4, SameStep
  <2> QED BY <2>1, <2>2
<1>4. ASSUME NEW o \in Owners, Suspended(o) PROVE LogTyped' /\ Histories'
  <2>1. CASE WriteFails(o)
    BY <2>1, FailKeeps
  <2>2. CASE ~WriteFails(o)
    <3>1. \A q \in Owners \ {o} : LogApart(q)
      BY <1>4, <2>2 DEF Suspended, SetPhase, Return, Goto, ObjTyped, LogTyped, LogApart, Apart
    <3>2. SameReports
      BY <1>4, <2>2, SameUnchanged DEF Suspended, SetPhase, Return, Goto
    <3>3. LogTyped'
      BY <1>4, <2>2, <3>2 DEF Suspended, SetPhase, Return, Goto, LogTyped, SameReports
    <3>4. /\ pc'[o] \in {"mark", "prune", "status"}
               => pc[o] \in {"mark", "prune", "status"} /\ mine'[o] = mine[o]
          /\ obj'[o] = "live" /\ phase'[o] = "Completed" => IsNewest(o, lastReport'[o])
          /\ Leaving(o) => Leaving(o)'
      <4>1. NewestAt(o) /\ OrderlyAt(o)
        BY DEF Orderly, Histories, NewestKept
      <4> QED BY <1>4, <2>2, <4>1 DEF Suspended, SetPhase, Return, Goto, ObjTyped, LogTyped, NewestAt, OrderlyAt, Scanning, Guarded, Leaving
    <3> QED BY <3>1, <3>2, <3>3, <3>4, SameStep
  <2> QED BY <2>1, <2>2
<1>5. ASSUME NEW o \in Owners, StartScan(o) PROVE LogTyped' /\ Histories'
  <2>1. CASE WriteFails(o)
    BY <2>1, FailKeeps
  <2>2. CASE ~WriteFails(o)
    <3>1. \A q \in Owners \ {o} : LogApart(q)
      BY <1>5, <2>2 DEF StartScan, SetPhase, Goto, ObjTyped, LogTyped, LogApart, Apart
    <3>2. SameReports
      BY <1>5, <2>2, SameUnchanged DEF StartScan, SetPhase, Goto
    <3>3. LogTyped'
      BY <1>5, <2>2, <3>2 DEF StartScan, SetPhase, Goto, LogTyped, SameReports
    <3>4. /\ pc'[o] \in {"mark", "prune", "status"}
               => pc[o] \in {"mark", "prune", "status"} /\ mine'[o] = mine[o]
          /\ obj'[o] = "live" /\ phase'[o] = "Completed" => IsNewest(o, lastReport'[o])
          /\ Leaving(o) => Leaving(o)'
      <4>1. NewestAt(o) /\ OrderlyAt(o)
        BY DEF Orderly, Histories, NewestKept
      <4> QED BY <1>5, <2>2, <4>1 DEF StartScan, SetPhase, Goto, ObjTyped, LogTyped, NewestAt, OrderlyAt, Scanning, Guarded, Leaving
    <3> QED BY <3>1, <3>2, <3>3, <3>4, SameStep
  <2> QED BY <2>1, <2>2
<1>6. ASSUME NEW o \in Owners, TargetsFail(o) PROVE LogTyped' /\ Histories'
  <2>1. \A q \in Owners \ {o} : LogApart(q)
    BY <1>6 DEF TargetsFail, SetPhase, Return, Goto, ObjTyped, LogTyped, LogApart, Apart
  <2>2. SameReports
    BY <1>6, SameUnchanged DEF TargetsFail, SetPhase, Return, Goto
  <2>3. LogTyped'
    BY <1>6, <2>2 DEF TargetsFail, SetPhase, Return, Goto, LogTyped, SameReports
  <2>4. /\ pc'[o] \in {"mark", "prune", "status"}
             => pc[o] \in {"mark", "prune", "status"} /\ mine'[o] = mine[o]
        /\ obj'[o] = "live" /\ phase'[o] = "Completed" => IsNewest(o, lastReport'[o])
        /\ Leaving(o) => Leaving(o)'
    <3>1. NewestAt(o) /\ OrderlyAt(o)
      BY DEF Orderly, Histories, NewestKept
    <3> QED BY <1>6, <3>1 DEF TargetsFail, SetPhase, Return, Goto, ObjTyped, LogTyped, NewestAt, OrderlyAt, Scanning, Guarded, Leaving
  <2> QED BY <2>1, <2>2, <2>3, <2>4, SameStep
<1>7. ASSUME NEW o \in Owners, UpdateStatus(o) PROVE LogTyped' /\ Histories'
  <2>1. CASE WriteFails(o)
    BY <2>1, FailKeeps
  <2>2. CASE ~WriteFails(o)
    <3>1. \A q \in Owners \ {o} : LogApart(q)
      BY <1>7, <2>2 DEF UpdateStatus, SetPhase, Return, Goto, ObjTyped, LogTyped, LogApart, Apart
    <3>2. SameReports
      BY <1>7, <2>2, SameUnchanged DEF UpdateStatus, SetPhase, Return, Goto
    <3>3. LogTyped'
      <4>1. /\ lastReport' = [lastReport EXCEPT ![o] = mine[o]]
            /\ mine' = [mine EXCEPT ![o] = 0]
        BY <1>7, <2>2 DEF UpdateStatus, Return
      <4> QED BY <3>2, <4>1 DEF LogTyped, SameReports
    <3>4. /\ pc'[o] \in {"mark", "prune", "status"}
               => pc[o] \in {"mark", "prune", "status"} /\ mine'[o] = mine[o]
          /\ obj'[o] = "live" /\ phase'[o] = "Completed" => IsNewest(o, lastReport'[o])
          /\ Leaving(o) => Leaving(o)'
      <4>1. NewestAt(o) /\ OrderlyAt(o)
        BY DEF Orderly, Histories, NewestKept
      <4> QED BY <1>7, <2>2, <4>1 DEF UpdateStatus, SetPhase, Return, Goto, ObjTyped, LogTyped, NewestAt, OrderlyAt, Scanning, Guarded, Leaving
    <3> QED BY <3>1, <3>2, <3>3, <3>4, SameStep
  <2> QED BY <2>1, <2>2
<1>8. ASSUME NEW o \in Owners, TimerFires(o) PROVE LogTyped' /\ Histories'
  <2>1. \A q \in Owners \ {o} : LogApart(q)
    BY <1>8 DEF TimerFires, object, worker, ObjTyped, LogTyped, LogApart, Apart
  <2>2. SameReports
    BY <1>8, SameUnchanged DEF TimerFires, object, worker
  <2>3. LogTyped'
    BY <1>8, <2>2 DEF TimerFires, object, worker, LogTyped, SameReports
  <2>4. /\ pc'[o] \in {"mark", "prune", "status"}
             => pc[o] \in {"mark", "prune", "status"} /\ mine'[o] = mine[o]
        /\ obj'[o] = "live" /\ phase'[o] = "Completed" => IsNewest(o, lastReport'[o])
        /\ Leaving(o) => Leaving(o)'
    <3>1. NewestAt(o) /\ OrderlyAt(o)
      BY DEF Orderly, Histories, NewestKept
    <3> QED BY <1>8, <3>1 DEF TimerFires, object, worker, ObjTyped, LogTyped, NewestAt, OrderlyAt, Scanning, Guarded, Leaving
  <2> QED BY <2>1, <2>2, <2>3, <2>4, SameStep
<1>9. ASSUME NEW o \in Owners, UserChanges(o) PROVE LogTyped' /\ Histories'
  <2>1. \A q \in Owners \ {o} : LogApart(q)
    BY <1>9 DEF UserChanges, ObjTyped, LogTyped, LogApart, Apart
  <2>2. SameReports
    BY <1>9, SameUnchanged DEF UserChanges
  <2>3. LogTyped'
    BY <1>9, <2>2 DEF UserChanges, LogTyped, SameReports
  <2>4. /\ pc'[o] \in {"mark", "prune", "status"}
             => pc[o] \in {"mark", "prune", "status"} /\ mine'[o] = mine[o]
        /\ obj'[o] = "live" /\ phase'[o] = "Completed" => IsNewest(o, lastReport'[o])
        /\ Leaving(o) => Leaving(o)'
    <3>1. NewestAt(o) /\ OrderlyAt(o)
      BY DEF Orderly, Histories, NewestKept
    <3> QED BY <1>9, <3>1 DEF UserChanges, ObjTyped, LogTyped, NewestAt, OrderlyAt, Scanning, Guarded, Leaving
  <2> QED BY <2>1, <2>2, <2>3, <2>4, SameStep
<1>10. ASSUME NEW o \in Owners, VerifyIdentity(o) PROVE LogTyped' /\ Histories'
  <2>1. CASE WriteFails(o)
    BY <2>1, FailKeeps
  <2>2. CASE Goto(o, "start") /\ UNCHANGED <<object, log, stale, mine, why, queue, faults, user>>
    <3>1. \A q \in Owners \ {o} : LogApart(q)
      BY <1>10, <2>2 DEF VerifyIdentity, Goto, object, ObjTyped, LogTyped, LogApart, Apart
    <3>2. SameReports
      BY <1>10, <2>2, SameUnchanged DEF VerifyIdentity, Goto, object
    <3>3. LogTyped'
      BY <1>10, <2>2, <3>2 DEF VerifyIdentity, Goto, object, LogTyped, SameReports
    <3>4. /\ pc'[o] \in {"mark", "prune", "status"}
               => pc[o] \in {"mark", "prune", "status"} /\ mine'[o] = mine[o]
          /\ obj'[o] = "live" /\ phase'[o] = "Completed" => IsNewest(o, lastReport'[o])
          /\ Leaving(o) => Leaving(o)'
      <4>1. NewestAt(o) /\ OrderlyAt(o)
        BY DEF Orderly, Histories, NewestKept
      <4> QED BY <1>10, <2>2, <4>1 DEF VerifyIdentity, Goto, object, ObjTyped, LogTyped, NewestAt, OrderlyAt, Scanning, Guarded, Leaving
    <3> QED BY <3>1, <3>2, <3>3, <3>4, SameStep
  <2>3. CASE /\ SetPhase(o, "Degraded") /\ WriteTriggers(o) /\ Return(o)
             /\ UNCHANGED <<kind, obj, finalizer, suspend, lastReport, log, stale, user>>
    <3>1. \A q \in Owners \ {o} : LogApart(q)
      BY <1>10, <2>3 DEF VerifyIdentity, SetPhase, Return, Goto, ObjTyped, LogTyped, LogApart, Apart
    <3>2. SameReports
      BY <1>10, <2>3, SameUnchanged DEF VerifyIdentity, SetPhase, Return, Goto
    <3>3. LogTyped'
      BY <1>10, <2>3, <3>2 DEF VerifyIdentity, SetPhase, Return, Goto, LogTyped, SameReports
    <3>4. /\ pc'[o] \in {"mark", "prune", "status"}
               => pc[o] \in {"mark", "prune", "status"} /\ mine'[o] = mine[o]
          /\ obj'[o] = "live" /\ phase'[o] = "Completed" => IsNewest(o, lastReport'[o])
          /\ Leaving(o) => Leaving(o)'
      <4>1. NewestAt(o) /\ OrderlyAt(o)
        BY DEF Orderly, Histories, NewestKept
      <4> QED BY <1>10, <2>3, <4>1 DEF VerifyIdentity, SetPhase, Return, Goto, ObjTyped, LogTyped, NewestAt, OrderlyAt, Scanning, Guarded, Leaving
    <3> QED BY <3>1, <3>2, <3>3, <3>4, SameStep
  <2> QED BY <1>10, <2>1, <2>2, <2>3 DEF VerifyIdentity
<1>11. ASSUME NEW o \in Owners, CreateReport(o) PROVE LogTyped' /\ Histories'
  <2>1. CASE ReportCreated(o)
    BY <1>11, <2>1, CreateKeeps DEF CreateReport
  <2>2. CASE Return(o) /\ UNCHANGED <<object, log, stale, due, user>>
    <3>1. \A q \in Owners \ {o} : LogApart(q)
      BY <1>11, <2>2 DEF CreateReport, Return, Goto, object, ObjTyped, LogTyped, LogApart, Apart
    <3>2. SameReports
      BY <1>11, <2>2, SameUnchanged DEF CreateReport, Return, Goto, object
    <3>3. LogTyped'
      BY <1>11, <2>2, <3>2 DEF CreateReport, Return, Goto, object, LogTyped, SameReports
    <3>4. /\ pc'[o] \in {"mark", "prune", "status"}
               => pc[o] \in {"mark", "prune", "status"} /\ mine'[o] = mine[o]
          /\ obj'[o] = "live" /\ phase'[o] = "Completed" => IsNewest(o, lastReport'[o])
          /\ Leaving(o) => Leaving(o)'
      <4>1. NewestAt(o) /\ OrderlyAt(o)
        BY DEF Orderly, Histories, NewestKept
      <4> QED BY <1>11, <2>2, <4>1 DEF CreateReport, Return, Goto, object, ObjTyped, LogTyped, NewestAt, OrderlyAt, Scanning, Guarded, Leaving
    <3> QED BY <3>1, <3>2, <3>3, <3>4, SameStep
  <2> QED BY <1>11, <2>1, <2>2 DEF CreateReport
<1>12. ASSUME NEW o \in Owners, MarkReport(o) PROVE LogTyped' /\ Histories'
  <2>1. \A q \in Owners \ {o} : LogApart(q)
    BY <1>12 DEF MarkReport, Goto, object, ObjTyped, LogTyped, LogApart, Apart
  <2>2. SameReports
    <3>1. CASE UNCHANGED log
      BY <3>1, SameUnchanged
    <3>2. CASE mine[o] # 0 /\ log' = [log EXCEPT ![mine[o]].marked = TRUE]
      <4>1. mine[o] \in DOMAIN log
        BY <3>2 DEF LogTyped
      <4> QED BY <3>2, <4>1, SameTouched
    <3> QED BY <1>12, <3>1, <3>2 DEF MarkReport
  <2>3. LogTyped'
    BY <1>12, <2>2 DEF MarkReport, Goto, object, LogTyped, SameReports
  <2>4. /\ pc'[o] \in {"mark", "prune", "status"}
             => pc[o] \in {"mark", "prune", "status"} /\ mine'[o] = mine[o]
        /\ obj'[o] = "live" /\ phase'[o] = "Completed" => IsNewest(o, lastReport'[o])
        /\ Leaving(o) => Leaving(o)'
    <3>1. NewestAt(o) /\ OrderlyAt(o)
      BY DEF Orderly, Histories, NewestKept
    <3> QED BY <1>12, <3>1 DEF MarkReport, Goto, object, ObjTyped, LogTyped, NewestAt, OrderlyAt, Scanning, Guarded, Leaving
  <2> QED BY <2>1, <2>2, <2>3, <2>4, SameStep
<1>13. ASSUME NEW o \in Owners, EnforceHistoryLimit(o) PROVE LogTyped' /\ Histories'
  <2> DEFINE c == Cardinality(Listed(o))
             excess == IF c <= Limit THEN 0 ELSE c - Limit
  <2>1. c \in Nat /\ Limit \in Nat /\ Limit > 0
    <3>1. Listed(o) \in SUBSET DOMAIN log
      BY DEF Listed
    <3> QED BY <3>1, Countable, ScanAssumption
  <2>2. \E k \in 0 .. excess : DeleteOldest(o, k)
    <3>1. excess \in 0 .. excess
      BY <2>1
    <3> HIDE DEF excess
    <3> QED BY <1>13, <3>1 DEF EnforceHistoryLimit, excess
  <2>3. PICK k \in 0 .. excess : DeleteOldest(o, k)
    BY <2>2
  <2>4. k \in Nat /\ (k = 0 \/ k <= c - Limit)
    BY <2>1
  <2>5. \A q \in Owners \ {o} : LogApart(q)
    BY <1>13 DEF EnforceHistoryLimit, Goto, object, ObjTyped, LogApart, Apart
  <2>6. /\ pc[o] = "prune" /\ UNCHANGED <<obj, phase, mine, lastReport>>
    BY <1>13 DEF EnforceHistoryLimit, object
  <2>7. Histories'
    BY <2>3, <2>4, <2>5, <2>6, PruneKeeps
  <2>8. log' \in Seq(Report) /\ Len(log') = Len(log)
    BY <2>3, Deletes
  <2> QED BY <2>6, <2>7, <2>8 DEF LogTyped
<1>14. ASSUME NEW o \in Owners, CleanupScanReports(o) PROVE LogTyped' /\ Histories'
  <2>1. PICK k : DeleteOldest(o, k)
    BY <1>14 DEF CleanupScanReports
  <2>2. /\ \A q \in Owners \ {o} : LogApart(q)
        /\ pc'[o] \in {"idle", "release"} /\ UNCHANGED <<obj, lastReport>>
    BY <1>14 DEF CleanupScanReports, Return, Goto, object, ObjTyped, LogTyped, LogApart, Apart
  <2>3. Leaving(o)'
    BY <1>14, <2>2 DEF CleanupScanReports, Leaving, Orderly, OrderlyAt
  <2>4. Histories'
    BY <2>1, <2>2, <2>3, CleanupKeeps
  <2>5. log' \in Seq(Report) /\ Len(log') = Len(log)
    BY <2>1, Deletes
  <2>6. mine' = mine \/ mine' = [mine EXCEPT ![o] = 0]
    BY <1>14 DEF CleanupScanReports, Return
  <2> QED BY <2>2, <2>4, <2>5, <2>6 DEF LogTyped
<1>15. ASSUME NEW o \in Owners, RemoveFinalizer(o) PROVE LogTyped' /\ Histories'
  <2>1. CASE WriteFails(o)
    BY <2>1, FailKeeps
  <2>2. CASE ~WriteFails(o)
    <3>1. log' = [i \in DOMAIN log |-> [log[i] EXCEPT !.orphan = @ \/ log[i].owner = o]]
      BY <1>15, <2>2 DEF RemoveFinalizer
    <3>2. /\ \A q \in Owners \ {o} : LogApart(q)
          /\ pc'[o] = "idle" /\ obj'[o] = "absent"
      BY <1>15, <2>2 DEF RemoveFinalizer, SetPhase, Goto, ObjTyped, LogTyped, LogApart, Apart
    <3>3. Histories' /\ log' \in Seq(Report) /\ Len(log') = Len(log)
      BY <3>1, <3>2, ReleaseKeeps
    <3>4. mine' = mine /\ lastReport' = [lastReport EXCEPT ![o] = 0]
      BY <1>15, <2>2 DEF RemoveFinalizer
    <3> QED BY <3>3, <3>4 DEF LogTyped
  <2> QED BY <2>1, <2>2
<1>16. ASSUME NEW i \in DOMAIN log, CacheSees(i) \/ ReconcileReport(i) \/ GarbageCollect(i)
       PROVE  LogTyped' /\ Histories'
  <2>1. UNCHANGED <<obj, finalizer, phase, pc, stale, mine, lastReport>>
    BY <1>16 DEF CacheSees, ReconcileReport, GarbageCollect, object, worker
  <2>2. SameReports
    <3>1. CASE CacheSees(i) \/ ReconcileReport(i)
      BY <3>1, SameTouched DEF CacheSees, ReconcileReport
    <3>2. CASE GarbageCollect(i)
      <4> DEFINE r == [log[i] EXCEPT !.live = FALSE]
      <4>1. log \in Seq(Report) /\ log[i] \in Report /\ log[i].orphan
        BY <3>2 DEF GarbageCollect, LogTyped
      <4>2. r \in Report /\ r.owner = log[i].owner /\ r.orphan = log[i].orphan
        BY <4>1, LiveSet
      <4>3. log' = [log EXCEPT ![i] = r]
        BY <3>2 DEF GarbageCollect
      <4> HIDE DEF r
      <4>4. log' \in Seq(Report) /\ Len(log') = Len(log) /\ DOMAIN log' = DOMAIN log
        BY <4>1, <4>2, <4>3
      <4>5. \A j \in DOMAIN log : log'[j] = IF j = i THEN r ELSE log[j]
        BY <4>1, <4>3
      <4> QED BY <4>1, <4>2, <4>4, <4>5 DEF SameReports
    <3> QED BY <1>16, <3>1, <3>2
  <2>3. ASSUME NEW q \in Owners PROVE LogApart(q)
    BY <2>1 DEF LogApart, Apart
  <2>4. ASSUME NEW q \in Owners PROVE NewestAt(q)' /\ CoveredAt(q)'
    <3>1. NewestAt(q) /\ CoveredAt(q) /\ SameFor(q) /\ LogApart(q)
      BY <2>2, <2>3, SameForEach DEF Histories, NewestKept, Covered
    <3> QED BY <3>1, OtherStays
  <2>5. OrphansFirst'
    BY <2>2 DEF Histories, OrphansFirst, SameReports
  <2>6. LogTyped'
    BY <2>1, <2>2 DEF LogTyped, SameReports
  <2> QED BY <2>4, <2>5, <2>6 DEF Histories, NewestKept, Covered
<1>17. ASSUME NEW i \in DOMAIN log, CacheForgets(i) PROVE LogTyped' /\ Histories'
  <2> DEFINE keep == DOMAIN log \ {i}
  <2>1. /\ keep \in SUBSET DOMAIN log /\ Forget(keep)
        /\ \A j \in DOMAIN log : log[j].live => j \in keep
        /\ UNCHANGED <<obj, phase>> /\ pc' = pc
        /\ mine' = [o \in Owners |-> Place(keep, mine[o])]
    BY <1>17 DEF CacheForgets
  <2> HIDE DEF keep
  <2>2. \A o \in Owners : /\ pc'[o] = pc[o] /\ mine'[o] = Place(keep, mine[o])
                          /\ Leaving(o) => Leaving(o)'
    BY <2>1 DEF Leaving
  <2> QED BY <2>1, <2>2, ForgetKeeps
<1>18. ASSUME Restart PROVE LogTyped' /\ Histories'
  <2> DEFINE keep == {i \in DOMAIN log : log[i].live}
  <2>1. /\ keep \in SUBSET DOMAIN log /\ Forget(keep)
        /\ \A j \in DOMAIN log : log[j].live => j \in keep
        /\ UNCHANGED <<obj, phase>> /\ pc' = [o \in Owners |-> "idle"]
        /\ mine' = [o \in Owners |-> 0]
    BY <1>18 DEF Restart
  <2> HIDE DEF keep
  <2>2. \A o \in Owners : /\ pc'[o] = "idle" /\ Leaving(o) => Leaving(o)'
    BY <2>1 DEF Leaving
  <2> QED BY <2>1, <2>2, ForgetKeeps
<1>19. ASSUME UNCHANGED vars PROVE LogTyped' /\ Histories'
  <2>1. UNCHANGED <<obj, finalizer, phase, pc, stale, mine, lastReport, log>>
    BY <1>19 DEF vars, object, worker
  <2>2. SameReports
    BY <2>1, SameUnchanged
  <2>3. ASSUME NEW q \in Owners PROVE NewestAt(q)' /\ CoveredAt(q)'
    <3>1. NewestAt(q) /\ CoveredAt(q) /\ SameFor(q)
      BY <2>2, SameForEach DEF Histories, NewestKept, Covered
    <3>2. LogApart(q)
      BY <2>1 DEF LogApart, Apart
    <3> QED BY <3>1, <3>2, OtherStays
  <2>4. OrphansFirst' /\ LogTyped'
    BY <2>1 DEF Histories, OrphansFirst, LogTyped
  <2> QED BY <2>3, <2>4 DEF Histories, NewestKept, Covered
<1> QED BY <1>1, <1>2, <1>3, <1>4, <1>5, <1>6, <1>7, <1>8, <1>9, <1>10, <1>11, <1>12, <1>13, <1>14, <1>15, <1>16, <1>17, <1>18, <1>19 DEF Next, Reconcile
-----------------------------------------------------------------------------
(* Nothing exists at first.                                                *)
LEMMA HInit == Init => HInv
<1> SUFFICES ASSUME Init PROVE HInv
  OBVIOUS
<1>1. /\ log = <<>> /\ DOMAIN log = {} /\ Len(log) = 0 /\ log \in Seq(Report)
      /\ MaxReports \in Nat
  <2>1. log = <<>>
    BY DEF Init
  <2>2. <<>> \in Seq(Report) /\ Len(<<>>) = 0 /\ DOMAIN <<>> = {}
    OBVIOUS
  <2> QED BY <2>1, <2>2, ScanAssumption
<1>2. ObjTyped /\ Orderly
  BY DEF Init, ObjTyped, Orderly, OrderlyAt, Scanning, Guarded
<1>3. LogTyped
  <2>1. lastReport = [o \in Owners |-> 0] /\ mine = [o \in Owners |-> 0]
    BY DEF Init
  <2>2. 0 \in 0 .. Len(log)
    BY <1>1
  <2>3. lastReport \in [Owners -> 0 .. Len(log)] /\ mine \in [Owners -> 0 .. Len(log)]
    BY <2>1, <2>2
  <2>4. Len(log) <= MaxReports
    BY <1>1
  <2> QED BY <1>1, <2>3, <2>4 DEF LogTyped
<1>4. Histories
  <2>1. \A o \in Owners : Reports(o) = {}
    BY <1>1 DEF Reports
  <2> QED BY <1>1, <2>1 DEF Init, Histories, NewestKept, NewestAt, OrphansFirst, Covered, CoveredAt
<1> QED BY <1>2, <1>3, <1>4, Halves DEF HInv

(* The two halves of the invariant together.                               *)
LEMMA HNext == DistinctNames /\ HInv /\ [Next]_vars => HInv'
<1> SUFFICES ASSUME DistinctNames, HInv, [Next]_vars PROVE HInv'
  OBVIOUS
<1>1. ObjTyped /\ LogTyped /\ Orderly /\ Histories
  BY Halves DEF HInv
<1>2. ObjTyped' /\ Orderly'
  BY <1>1, ObjNext
<1>3. LogTyped' /\ Histories'
  BY <1>1, LogNext
<1>4. TypeOK'
  BY <1>2, <1>3 DEF TypeOK, ObjTyped, LogTyped
<1> QED BY <1>2, <1>3, <1>4 DEF HInv

(* The inductive invariant holds.                                          *)
LEMMA HInvariance == ASSUME DistinctNames PROVE Spec => []HInv
BY DistinctNames, HInit, HNext, PTL DEF Spec

(* CompletedNamesNewest holds for objects with names of their own: the     *)
(* reconciles of clusterscan_controller.go and of                          *)
(* cloudaccountconfig_controller.go write a Completed status only for the  *)
(* newest report, which pruning, cleanup and restarts leave alone.         *)
THEOREM CompletedNamesNewestAlways ==
  ASSUME DistinctNames PROVE Spec => []CompletedNamesNewest
<1>1. HInv => CompletedNamesNewest
  BY DEF HInv, Histories, NewestKept, NewestAt, IsNewest, CompletedNamesNewest, Current
<1> QED BY <1>1, HInvariance, PTL

(* A step of enforceHistoryLimit keeps to OnlyOldPruned.                   *)
PrunesOld ==
  \A o \in Owners :
    pc[o] = "prune" /\ pc'[o] = "status" =>
      \A i \in Current(o) :
        ~log'[i].live => Cardinality({j \in Current(o) : j > i /\ log'[j].live}) >= Limit

(* Every step from "prune" to "status" is such a one.                      *)
LEMMA PruneStep == ASSUME DistinctNames, HInv, [Next]_vars PROVE PrunesOld
<1> SUFFICES ASSUME NEW o \in Owners, pc[o] = "prune", pc'[o] = "status",
                    NEW i \in Current(o), ~log'[i].live
             PROVE  Cardinality(Staying(o, i)) >= Limit
  BY DEF PrunesOld, Staying
<1>1. ObjTyped /\ LogTyped /\ Orderly /\ Histories
  BY Halves DEF HInv
<1>2. EnforceHistoryLimit(o)
  <2>1. ASSUME NEW p \in Owners, Reconcile(p) PROVE EnforceHistoryLimit(o)
    <3>1. CASE p = o
      BY <2>1, <3>1 DEF Reconcile, Begin, AddFinalizer, MarkReconciling, Suspended,
         VerifyIdentity, StartScan, TargetsFail, CreateReport, MarkReport, UpdateStatus,
         CleanupScanReports, RemoveFinalizer
    <3>2. CASE p # o
      <4>1. UNCHANGED pc \/ \E x : pc' = [pc EXCEPT ![p] = x]
        <5>1. \A x : Goto(p, x) => pc' = [pc EXCEPT ![p] = x]
          BY DEF Goto
        <5>2. Return(p) => Goto(p, "idle")
          BY DEF Return
        <5>3. WriteFails(p) => Return(p)
          BY DEF WriteFails
        <5>4. UNCHANGED pc \/ WriteFails(p) \/ Return(p) \/ \E x : Goto(p, x)
          BY <2>1 DEF Reconcile, Begin, AddFinalizer, MarkReconciling, Suspended,
             VerifyIdentity, StartScan, TargetsFail, CreateReport, ReportCreated, MarkReport,
             EnforceHistoryLimit, UpdateStatus, CleanupScanReports, RemoveFinalizer
        <5> QED BY <5>1, <5>2, <5>3, <5>4
      <4>2. pc'[o] = pc[o]
        BY <1>1, <3>2, <4>1 DEF ObjTyped
      <4> QED BY <4>2
    <3> QED BY <3>1, <3>2
  <2>2. ASSUME UNCHANGED pc PROVE EnforceHistoryLimit(o)
    BY <2>2
  <2>3. ASSUME Restart PROVE EnforceHistoryLimit(o)
    BY <2>3 DEF Restart
  <2>4. \/ \E p \in Owners : Reconcile(p)
        \/ UNCHANGED pc \/ Restart
    BY DEF Next, TimerFires, UserChanges, CacheSees, CacheForgets, ReconcileReport,
           GarbageCollect, vars, worker
  <2> QED BY <2>1, <2>2, <2>3, <2>4
<1> DEFINE c == Cardinality(Listed(o))
           excess == IF c <= Limit THEN 0 ELSE c - Limit
<1>3. c \in Nat /\ Limit \in Nat
  <2>1. Listed(o) \in SUBSET DOMAIN log
    BY DEF Listed
  <2> QED BY <1>1, <2>1, Countable, ScanAssumption
<1>4. PICK k \in 0 .. excess : DeleteOldest(o, k)
  <2>1. excess \in 0 .. excess
    BY <1>3
  <2> HIDE DEF excess
  <2> QED BY <1>2, <2>1 DEF EnforceHistoryLimit, excess
<1>5. k \in Nat /\ (k = 0 \/ k <= c - Limit)
  BY <1>3
<1>6. ~Leaving(o)
  BY DEF Leaving
<1> QED BY <1>1, <1>4, <1>5, <1>6, PruneCovers

(* OnlyOldPruned holds for objects with names of their own, for any limit: *)
(* enforceHistoryLimit, which works on a list that lags behind and may     *)
(* fail half way, never takes one of the newest reports.                   *)
THEOREM OnlyOldPrunedAlways == ASSUME DistinctNames PROVE Spec => OnlyOldPruned
<1>1. HInv /\ [Next]_vars => [PrunesOld]_vars
  BY DistinctNames, PruneStep
<1>2. OnlyOldPruned <=> [][PrunesOld]_vars
  BY PTL DEF OnlyOldPruned, PrunesOld
<1> QED BY <1>1, <1>2, HInvariance, PTL DEF Spec
=============================================================================
