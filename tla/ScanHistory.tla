----------------------------- MODULE ScanHistory -----------------------------
(***************************************************************************)
(* The scans that produce ScanReports: the ClusterScan controller, the     *)
(* CloudAccountConfig controller and the ScanReport controller of          *)
(* internal/controller, over the Kubernetes API server.  A reconcile reads *)
(* its object, and every later call to the API server is a step of its     *)
(* own, which may fail; a write to an object that someone else has changed *)
(* since it was read is refused as a conflict.  Lists are answered by the  *)
(* informer cache, which learns of created and deleted reports later.      *)
(*                                                                         *)
(* What scanners find plays no role here: a report is its identity and its *)
(* place in the order of creation timestamps, which is assumed to be the   *)
(* order of creation.                                                      *)
(***************************************************************************)
EXTENDS Naturals, Sequences, FiniteSets

CONSTANTS
  Owners,      \* the ClusterScan and CloudAccountConfig objects
  NameOf,      \* [Owners -> names]; all are in one namespace
  Kinds,       \* [Owners -> SUBSET {"cluster", "cloud"}]: what each may be
  Limit,       \* spec.historyLimit, after its default of 10 is applied
  MaxReports,  \* bound on the reports known at a time
  MaxUnseen,   \* bound on the reports the cache may be missing at a time
  MaxFaults,   \* bound on failed calls and restarts of the operator
  MaxUser      \* bound on what users do to the objects

ASSUME ScanAssumption ==
  /\ Limit \in Nat \ {0} /\ MaxReports \in Nat /\ MaxUnseen \in Nat \ {0}
  /\ MaxFaults \in Nat /\ MaxUser \in Nat
  /\ Kinds \in [Owners -> SUBSET {"cluster", "cloud"}]

VARIABLES
  kind,       \* what each object is
  obj,        \* "absent", "live" or "deleting" (has a deletion timestamp)
  finalizer,  \* whether the object carries the cleanup finalizer
  suspend,    \* spec.suspend
  phase,      \* status.phase
  lastReport, \* status.lastReportName: its place in log, 0 if it is in none
  log,        \* the reports, oldest first, until the cache forgets them
  pc,         \* per object: where its reconcile is
  stale,      \* per object: changed by others since the reconcile read it
  mine,       \* per object: the report this reconcile created, or 0
  due,        \* per object: why it is in the work queue: "no", "own", "outside"
  why,        \* per object: why this reconcile runs
  timer,      \* per object: RequeueAfter or the retry after an error is set
  faults, user

object == <<kind, obj, finalizer, suspend, phase, lastReport>>
worker == <<pc, stale, mine, why>>
queue == <<due, timer>>
vars == <<object, log, worker, queue, faults, user>>

(* live: it exists; seen: it is in the cache; orphan: its owner is gone;   *)
(* marked: its status.phase is Complete.                                   *)
Report == [owner : Owners, live : BOOLEAN, seen : BOOLEAN, orphan : BOOLEAN, marked : BOOLEAN]
Reports(o) == {i \in DOMAIN log : log[i].owner = o}
Unseen == {i \in DOMAIN log : ~log[i].seen}
Fault == faults < MaxFaults /\ faults' = faults + 1

Init ==
  /\ kind \in {k \in [Owners -> {"cluster", "cloud"}] : \A o \in Owners : k[o] \in Kinds[o]}
  /\ obj = [o \in Owners |-> "absent"]
  /\ finalizer = [o \in Owners |-> FALSE] /\ suspend = finalizer
  /\ phase = [o \in Owners |-> ""]
  /\ lastReport = [o \in Owners |-> 0]
  /\ log = <<>>
  /\ pc = [o \in Owners |-> "idle"]
  /\ stale = [o \in Owners |-> FALSE]
  /\ mine = [o \in Owners |-> 0]
  /\ due = [o \in Owners |-> "no"] /\ why = due
  /\ timer = [o \in Owners |-> FALSE]
  /\ faults = 0 /\ user = 0
-----------------------------------------------------------------------------
(* The work queue holds an object once, however often it is added.         *)
Queued(q, o, cause) ==
  [q EXCEPT ![o] = IF cause = "outside" \/ @ = "outside" THEN "outside" ELSE "own"]

(* Only ClusterScan filters its own status writes out, with                *)
(* GenerationChangedPredicate.                                             *)
WriteTriggers(o) == IF kind[o] = "cloud" THEN due' = Queued(due, o, "own")
                                         ELSE UNCHANGED due

Goto(o, step) == pc' = [pc EXCEPT ![o] = step]

(* Reconcile returns; every way out asks to be run again.                  *)
Return(o) ==
  /\ Goto(o, "idle") /\ timer' = [timer EXCEPT ![o] = TRUE]
  /\ mine' = [mine EXCEPT ![o] = 0]
  /\ why' = [why EXCEPT ![o] = "no"]

(* A write of the object or its status is a conflict, or fails otherwise:  *)
(* the reconcile returns the error.                                        *)
WriteFails(o) ==
  /\ IF stale[o] THEN UNCHANGED faults ELSE Fault
  /\ Return(o)
  /\ UNCHANGED <<object, log, stale, due, user>>

SetPhase(o, p) == phase' = [phase EXCEPT ![o] = p]

(* Reconcile reads the object.  Each controller has one worker.            *)
Begin(o) ==
  /\ due[o] # "no" /\ pc[o] = "idle"
  /\ \A p \in Owners : kind[p] = kind[o] => pc[p] = "idle"
  /\ due' = [due EXCEPT ![o] = "no"]
  /\ stale' = [stale EXCEPT ![o] = FALSE]
  /\ IF obj[o] = "absent" THEN UNCHANGED <<pc, why>>
     ELSE /\ why' = [why EXCEPT ![o] = due[o]]
          /\ Goto(o, IF obj[o] = "deleting" THEN "cleanup"
                     ELSE IF ~finalizer[o] THEN "finalize"
                     ELSE IF kind[o] = "cloud" THEN "reconciling"
                     ELSE IF suspend[o] THEN "suspended" ELSE "start")
  /\ UNCHANGED <<object, log, mine, timer, faults, user>>

AddFinalizer(o) ==
  /\ pc[o] = "finalize"
  /\ \/ /\ ~stale[o]
        /\ finalizer' = [finalizer EXCEPT ![o] = TRUE]
        /\ WriteTriggers(o) /\ Return(o)
        /\ UNCHANGED <<kind, obj, suspend, phase, lastReport, log, stale, faults, user>>
     \/ WriteFails(o)

(* Cloud only: MarkReconciling, then the test for suspension.              *)
MarkReconciling(o) ==
  /\ pc[o] = "reconciling"
  /\ \/ /\ ~stale[o]
        /\ Goto(o, IF suspend[o] THEN "suspended" ELSE "identity")
        /\ WriteTriggers(o)
        /\ UNCHANGED <<object, log, stale, mine, why, timer, faults, user>>
     \/ WriteFails(o)

Suspended(o) ==
  /\ pc[o] = "suspended"
  /\ \/ /\ ~stale[o]
        /\ SetPhase(o, IF kind[o] = "cloud" THEN "Active" ELSE "Pending")
        /\ WriteTriggers(o) /\ Return(o)
        /\ UNCHANGED <<kind, obj, finalizer, suspend, lastReport, log, stale, faults, user>>
     \/ WriteFails(o)

(* Cloud only: the credentials are built and verified; when that fails the *)
(* account is Degraded.                                                    *)
VerifyIdentity(o) ==
  /\ pc[o] = "identity"
  /\ \/ Goto(o, "start") /\ UNCHANGED <<object, log, stale, mine, why, queue, faults, user>>
     \/ /\ ~stale[o] /\ Fault
        /\ SetPhase(o, "Degraded")
        /\ WriteTriggers(o) /\ Return(o)
        /\ UNCHANGED <<kind, obj, finalizer, suspend, lastReport, log, stale, user>>
     \/ WriteFails(o)

(* Mutant: a refused write of the phase is ignored.                        *)
StartScanAnyway(o) ==
  /\ pc[o] = "start"
  /\ IF stale[o] THEN UNCHANGED <<phase, due>> ELSE SetPhase(o, "Running") /\ WriteTriggers(o)
  /\ Goto(o, "scan")
  /\ UNCHANGED <<kind, obj, finalizer, suspend, lastReport, log, stale, mine, why, timer, faults, user>>

StartScan(o) ==
  /\ pc[o] = "start"
  /\ \/ /\ ~stale[o]
        /\ SetPhase(o, "Running")
        /\ WriteTriggers(o)
        /\ Goto(o, "scan")
        /\ UNCHANGED <<kind, obj, finalizer, suspend, lastReport, log, stale, mine, why,
                       timer, faults, user>>
     \/ WriteFails(o)

(* ClusterScan only: resolveTargetPods fails.                              *)
TargetsFail(o) ==
  /\ pc[o] = "scan" /\ kind[o] = "cluster" /\ ~stale[o] /\ Fault
  /\ SetPhase(o, "Failed") /\ Return(o)
  /\ UNCHANGED <<kind, obj, finalizer, suspend, lastReport, log, stale, due, user>>

ReportCreated(o) ==
  /\ Len(log) < MaxReports /\ Cardinality(Unseen) < MaxUnseen
  /\ log' = Append(log, [owner |-> o, live |-> TRUE, seen |-> FALSE,
                         orphan |-> FALSE, marked |-> FALSE])
  /\ mine' = [mine EXCEPT ![o] = Len(log')]
  /\ Goto(o, "mark")
  /\ UNCHANGED <<object, stale, why, queue, faults, user>>

(* Mutant: the error of a failed create is swallowed, so nothing retries.  *)
CreateReportSwallowed(o) ==
  /\ pc[o] = "scan"
  /\ \/ ReportCreated(o)
     \/ /\ Fault /\ Goto(o, "idle") /\ why' = [why EXCEPT ![o] = "no"]
        /\ UNCHANGED <<object, log, stale, mine, queue, user>>

(* The scanners run, whatever they find or fail at, and the report is      *)
(* created, with an owner reference.  The second case is also TargetsFail  *)
(* whose status write is refused.                                          *)
CreateReport(o) ==
  /\ pc[o] = "scan"
  /\ \/ ReportCreated(o)
     \/ Fault /\ Return(o) /\ UNCHANGED <<object, log, stale, due, user>>

(* The report's own status; a failure (it may be gone) is only logged.     *)
MarkReport(o) ==
  /\ pc[o] = "mark" /\ Goto(o, "prune")
  /\ \/ /\ mine[o] # 0 /\ log[mine[o]].live
        /\ log' = [log EXCEPT ![mine[o]].marked = TRUE]
        /\ due' = Queued(due, o, "own") /\ UNCHANGED faults
     \/ /\ IF mine[o] = 0 \/ ~log[mine[o]].live THEN UNCHANGED faults ELSE Fault
        /\ UNCHANGED <<log, due>>
  /\ UNCHANGED <<object, stale, mine, why, timer, user>>
-----------------------------------------------------------------------------
(* What the cache answers to the list for an object's reports, oldest      *)
(* first.  The label of a ClusterScan selects by name only, that of a      *)
(* CloudAccountConfig also by the scan type "cloud".                       *)
Matches(o, r) ==
  /\ NameOf[r.owner] = NameOf[o]
  /\ kind[o] = "cloud" => kind[r.owner] = "cloud"
Listed(o) == {i \in DOMAIN log : Matches(o, log[i]) /\ log[i].seen}

(* The oldest n of the listed reports are deleted; the ones already gone   *)
(* are skipped.                                                            *)
Oldest(o, n) == {i \in Listed(o) : Cardinality({j \in Listed(o) : j <= i}) <= n}
DeleteOldest(o, n) ==
  log' = [i \in DOMAIN log |-> [log[i] EXCEPT !.live = @ /\ i \notin Oldest(o, n)]]

(* Mutant: one report too many is deleted.                                 *)
EnforceOneTooMany(o) ==
  LET n == Cardinality(Listed(o)) IN
  /\ pc[o] = "prune" /\ Goto(o, "status")
  /\ DeleteOldest(o, IF n < Limit THEN 0 ELSE n + 1 - Limit)
  /\ UNCHANGED <<object, stale, mine, why, queue, faults, user>>

(* Mutant: the limit is enforced only when the list is exactly one over.   *)
EnforceOnlyNext(o) ==
  LET n == Cardinality(Listed(o)) IN
  /\ pc[o] = "prune" /\ Goto(o, "status")
  /\ \/ DeleteOldest(o, IF n = Limit + 1 THEN 1 ELSE 0) /\ UNCHANGED faults
     \/ Fault /\ UNCHANGED log
  /\ UNCHANGED <<object, stale, mine, why, queue, user>>

(* enforceHistoryLimit: a failure, before or between the deletions, is     *)
(* only logged.                                                            *)
EnforceHistoryLimit(o) ==
  LET n == Cardinality(Listed(o))
      excess == IF n <= Limit THEN 0 ELSE n - Limit
  IN /\ pc[o] = "prune" /\ Goto(o, "status")
     /\ \/ DeleteOldest(o, excess) /\ UNCHANGED faults
        \/ Fault /\ \E k \in 0 .. excess : DeleteOldest(o, k)
     /\ UNCHANGED <<object, stale, mine, why, queue, user>>

(* updateFinalStatus.  A scanner error would make a ClusterScan Degraded,  *)
(* a phase its enumeration lacks, so that write is refused (WriteFails);   *)
(* no built-in scanner returns one.  A cloud scan skips scanner errors.    *)
UpdateStatus(o) ==
  /\ pc[o] = "status"
  /\ \/ /\ ~stale[o]
        /\ SetPhase(o, "Completed")
        /\ lastReport' = [lastReport EXCEPT ![o] = mine[o]]
        /\ WriteTriggers(o) /\ Return(o)
        /\ UNCHANGED <<kind, obj, finalizer, suspend, log, stale, faults, user>>
     \/ WriteFails(o)

(* The object is being deleted: its listed reports are removed ...         *)
CleanupScanReports(o) ==
  LET n == Cardinality(Listed(o)) IN
  /\ pc[o] = "cleanup"
  /\ \/ DeleteOldest(o, n) /\ Goto(o, "release") /\ UNCHANGED <<mine, why, timer, faults>>
     \/ Fault /\ (\E k \in 0 .. n : DeleteOldest(o, k)) /\ Return(o)
  /\ UNCHANGED <<object, stale, due, user>>

(* ... and then the finalizer, which lets the API server drop the object.  *)
RemoveFinalizer(o) ==
  /\ pc[o] = "release"
  /\ \/ /\ ~stale[o]
        /\ obj' = [obj EXCEPT ![o] = "absent"]
        /\ finalizer' = [finalizer EXCEPT ![o] = FALSE]
        /\ suspend' = [suspend EXCEPT ![o] = FALSE]
        /\ SetPhase(o, "")
        /\ lastReport' = [lastReport EXCEPT ![o] = 0]
        /\ log' = [i \in DOMAIN log |-> [log[i] EXCEPT !.orphan = @ \/ log[i].owner = o]]
        /\ Goto(o, "idle") /\ why' = [why EXCEPT ![o] = "no"]
        /\ due' = Queued(due, o, "own")
        /\ UNCHANGED <<kind, stale, mine, timer, faults, user>>
     \/ WriteFails(o)

Reconcile(o) ==
  \/ Begin(o) \/ AddFinalizer(o) \/ MarkReconciling(o) \/ Suspended(o)
  \/ VerifyIdentity(o) \/ StartScan(o) \/ TargetsFail(o) \/ CreateReport(o)
  \/ MarkReport(o) \/ EnforceHistoryLimit(o) \/ UpdateStatus(o)
  \/ CleanupScanReports(o) \/ RemoveFinalizer(o)
-----------------------------------------------------------------------------
(* RequeueAfter, or the retry of an error.                                 *)
TimerFires(o) ==
  /\ timer[o] /\ timer' = [timer EXCEPT ![o] = FALSE]
  /\ due' = Queued(due, o, "outside")
  /\ UNCHANGED <<object, log, worker, faults, user>>

(* The watch tells the cache, and the queue of the owner, of a new report. *)
CacheSees(i) ==
  /\ ~log[i].seen
  /\ log' = [log EXCEPT ![i].seen = TRUE]
  /\ due' = Queued(due, log[i].owner, "own")
  /\ UNCHANGED <<object, worker, timer, faults, user>>

(* Only the reports at the places in keep stay, at new places.             *)
Place(keep, i) == IF i \in keep THEN Cardinality({j \in keep : j <= i}) ELSE 0
Forget(keep) ==
  /\ log' = [n \in 1 .. Cardinality(keep) |-> log[CHOOSE i \in keep : Place(keep, i) = n]]
  /\ lastReport' = [o \in Owners |-> Place(keep, lastReport[o])]

(* ... and of a deleted one.                                               *)
CacheForgets(i) ==
  LET keep == DOMAIN log \ {i} IN
  /\ ~log[i].live
  /\ Forget(keep)
  /\ mine' = [o \in Owners |-> Place(keep, mine[o])]
  /\ due' = Queued(due, log[i].owner, "own")
  /\ UNCHANGED <<kind, obj, finalizer, suspend, phase, pc, stale, why, timer, faults, user>>

(* The ScanReport controller completes a report nobody has marked.         *)
ReconcileReport(i) ==
  /\ log[i].live /\ log[i].seen /\ ~log[i].marked
  /\ log' = [log EXCEPT ![i].marked = TRUE]
  /\ due' = Queued(due, log[i].owner, "own")
  /\ UNCHANGED <<object, worker, timer, faults, user>>

(* Kubernetes collects the reports whose owner is gone.                    *)
GarbageCollect(i) ==
  /\ log[i].live /\ log[i].orphan
  /\ log' = [log EXCEPT ![i].live = FALSE]
  /\ UNCHANGED <<object, worker, queue, faults, user>>

(* Users create, suspend or resume, and delete the objects.                *)
UserChanges(o) ==
  /\ user < MaxUser /\ user' = user + 1
  /\ \/ obj[o] = "absent" /\ obj' = [obj EXCEPT ![o] = "live"] /\ UNCHANGED suspend
     \/ obj[o] = "live" /\ suspend' = [suspend EXCEPT ![o] = ~@] /\ UNCHANGED obj
     \/ /\ obj[o] = "live"
        /\ obj' = [obj EXCEPT ![o] = IF finalizer[o] THEN "deleting" ELSE "absent"]
        /\ suspend' = IF finalizer[o] THEN suspend ELSE [suspend EXCEPT ![o] = FALSE]
  /\ stale' = [stale EXCEPT ![o] = TRUE]
  /\ due' = Queued(due, o, "outside")
  /\ UNCHANGED <<kind, finalizer, phase, lastReport, log, pc, mine, why, timer, faults>>

(* The operator restarts: reconciles, queues and cache start afresh.       *)
Restart ==
  /\ Fault
  /\ pc' = [o \in Owners |-> "idle"] /\ mine' = [o \in Owners |-> 0]
  /\ why' = [o \in Owners |-> "no"] /\ timer' = [o \in Owners |-> FALSE]
  /\ due' = [o \in Owners |-> IF obj[o] = "absent" THEN "no" ELSE "outside"]
  /\ Forget({i \in DOMAIN log : log[i].live})
  /\ UNCHANGED <<kind, obj, finalizer, suspend, phase, stale, user>>

Next ==
  \/ \E o \in Owners : Reconcile(o) \/ TimerFires(o) \/ UserChanges(o)
  \/ \E i \in DOMAIN log : CacheSees(i) \/ CacheForgets(i) \/ ReconcileReport(i)
                           \/ GarbageCollect(i)
  \/ Restart

(* Workers and timers of the manager run, watches deliver, and Kubernetes  *)
(* collects its garbage.                                                   *)
Fairness ==
  /\ \A o \in Owners : WF_vars(Reconcile(o)) /\ WF_vars(TimerFires(o))
  /\ WF_vars(\E i \in DOMAIN log : CacheSees(i))
  /\ WF_vars(\E i \in DOMAIN log : CacheForgets(i))
  /\ WF_vars(\E i \in DOMAIN log : ReconcileReport(i))
  /\ WF_vars(\E i \in DOMAIN log : GarbageCollect(i))

Spec == Init /\ [][Next]_vars /\ Fairness
-----------------------------------------------------------------------------
TypeOK ==
  /\ obj \in [Owners -> {"absent", "live", "deleting"}]
  /\ finalizer \in [Owners -> BOOLEAN] /\ suspend \in [Owners -> BOOLEAN]
  /\ phase \in [Owners -> {"", "Pending", "Active", "Running", "Degraded", "Failed",
                           "Completed"}]
  /\ log \in Seq(Report) /\ Len(log) <= MaxReports
  /\ lastReport \in [Owners -> 0 .. Len(log)] /\ mine \in [Owners -> 0 .. Len(log)]
  /\ pc \in [Owners -> {"idle", "finalize", "reconciling", "suspended", "identity",
                        "start", "scan", "mark", "prune", "status", "cleanup", "release"}]
  /\ due \in [Owners -> {"no", "own", "outside"}] /\ stale \in [Owners -> BOOLEAN]

Current(o) == {i \in Reports(o) : log[i].live /\ ~log[i].orphan}

(* A Completed scan names its newest report, and that report exists: not   *)
(* after conflicts, failed and retried scans, restarts, and pruning from a *)
(* stale cache is the status about an older or a deleted one.              *)
CompletedNamesNewest ==
  \A o \in Owners :
    obj[o] = "live" /\ phase[o] = "Completed" =>
      lastReport[o] \in Current(o) /\ \A j \in Current(o) : j <= lastReport[o]

(* History pruning works on a list that still has deleted reports and      *)
(* lacks new ones.  It never deletes a report of its object unless at      *)
(* least historyLimit newer ones remain.                                   *)
OnlyOldPruned ==
  [][\A o \in Owners :
       pc[o] = "prune" /\ pc'[o] = "status" =>
         \A i \in Current(o) :
           ~log'[i].live =>
             Cardinality({j \in Current(o) : j > i /\ log'[j].live}) >= Limit]_vars

(* Whatever failed before, an object that keeps being scanned comes back   *)
(* to its history limit, give or take the reports the cache had not seen   *)
(* when the limit was last enforced.                                       *)
HistoryComesBack ==
  \A o \in Owners :
    <>[](obj[o] = "live" /\ ~suspend[o])
      => []<>(Cardinality({i \in Reports(o) : log[i].live}) <= Limit + MaxUnseen)

(* No scan is shown as Running for ever: a reconcile that fails, or dies   *)
(* with the operator, between the Running status and the final one is      *)
(* repeated.                                                               *)
RunningEnds ==
  \A o \in Owners : phase[o] = "Running" ~> phase[o] # "Running"

(* A scan starts because a user changed the object or its interval is      *)
(* over ("If empty, the scan runs once", and the hot loop the comment on   *)
(* SetupWithManager rules out), never just because of what the previous    *)
(* scan itself wrote.                                                      *)
NoSelfTriggeredScan ==
  [][\A o \in Owners :
       pc[o] = "start" /\ pc'[o] = "scan" => why[o] = "outside"]_vars
=============================================================================
