-------------------------- MODULE RemediationPolicy --------------------------
(***************************************************************************)
(* The remediation loop: the RemediationPolicy controller (one worker, see  *)
(* internal/controller/remediationpolicy_controller.go) and the strategy,   *)
(* client and engine registry of internal/remediation/engine.go it drives, *)
(* composed with the incident board the correlator implements and with the *)
(* pull-request service the GitHub engine implements.  All policies target *)
(* one repository.                                                         *)
(*                                                                         *)
(* While a cycle runs, findings form and extend incidents, the ZelyoConfig *)
(* controller changes the engine's client and strategy, the dashboard opens *)
(* the pull requests of presets, reviewers close pull requests, REST calls *)
(* fail or lose their reply, and the operator may restart, which loses all *)
(* of its state except the policies' status.                               *)
(***************************************************************************)
EXTENDS IncidentBoard, PullRequestService

CONSTANTS
  RPolicies,        \* the RemediationPolicy objects
  PolicySpec,       \* [RPolicies -> spec], see SpecType
  Signals,          \* the findings the controllers may report
  BranchName(_, _), \* gitops.BranchName of a resource and a finding title
  PresetBranches,   \* zelyo-operator/preset/..., the dashboard's branches
  MaxFaults,        \* bound on LLM, REST and status failures
  MaxConfig,        \* bound on changes by the ZelyoConfig controller
  MaxOutside        \* bound on growing incidents, closed pull requests,
                    \* presets' pull requests and restarts together

SpecType == [dryRun : BOOLEAN, maxPRs : Nat, minSeverity : Severities,
             targets : SUBSET Policies]

ASSUME RemediationAssumption ==
  /\ PolicySpec \in [RPolicies -> SpecType]
  /\ Signals \subseteq [resource : Resources, severity : Severities,
                        policy : Policies, message : Messages]
  /\ {MaxFaults, MaxConfig, MaxOutside} \subseteq Nat
  /\ Resources # {} /\ Messages # {}
  /\ \A s \in Severities : severityOrder(s) \in Nat
  /\ PresetBranches \subseteq Branches
  /\ \A r \in Resources, m \in Messages :
       BranchName(r, m) \in Branches \ PresetBranches
  /\ Callers = {"worker"} /\ RPolicies # {}

VARIABLES
  wpc,        \* where the worker is in Reconcile
  rp,         \* the policy it reconciles
  snap,       \* incidents read by GetOpenIncidents and not yet looked at
  cur,        \* id of the incident in remediateIncident, 0 for none
  entry,      \* the worker's copy of that incident
  openPRs,    \* count returned by snapshotOpenPRs
  existing,   \* branches returned by snapshotOpenPRs, plus this cycle's
  processed,  \* plan generations charged to this cycle
  created,    \* prsCreated of this cycle
  strategy,   \* Engine.strategy
  client,     \* whether Engine.llmClient is set
  registered, \* whether an engine is registered for the repository
  applied,    \* status.remediationsApplied of each policy
  ever,       \* branches that backed an open pull request at some time
  opened,     \* pull requests the worker's calls have opened
  uncounted,  \* branches whose open pull request openPRs leaves out
  audit,      \* the strategy has been "dry-run" since cur's plan was made
  spent       \* how much of each bound is used up

cycle == <<rp, snap, cur, entry, openPRs, existing, processed, created>>
engine == <<strategy, client, registered>>
history == <<ever, opened, uncounted, audit>>
vars == <<board, open, reply, wpc, cycle, engine, applied, history, spent>>

(* blind is no bound: it marks that a ListOpenPRs has failed.              *)
Kinds == {"blind", "faults", "config", "outside"}

(* One unit of the named bound is used by this step.                       *)
Spend(kind, max) == spent[kind] < max /\ spent' = [spent EXCEPT ![kind] = @ + 1]

theSpec == PolicySpec[rp]
branchOf(e) == BranchName(e.resource, e.latest)

NoEntries == [i \in {} |-> {}]
AnEntry == CHOOSE e \in BoardEntry : TRUE
APolicy == CHOOSE p \in RPolicies : TRUE

IdleCycle ==
  /\ wpc = "idle" /\ rp = APolicy /\ snap = NoEntries /\ cur = 0 /\ entry = AnEntry
  /\ openPRs = 0 /\ existing = {} /\ processed = 0 /\ created = 0

(* The operator starts with what an earlier run of it and the dashboard    *)
(* left on GitHub.                                                         *)
Init ==
  /\ BoardInit /\ IdleCycle
  /\ open \in SUBSET Branches /\ IsFiniteSet(open)
  /\ reply = [c \in Callers |-> "none"]
  /\ strategy = "dry-run" /\ client = FALSE /\ registered = FALSE
  /\ applied = [p \in RPolicies |-> 0]
  /\ ever = open /\ opened = 0 /\ uncounted = {} /\ audit = FALSE
  /\ spent = [k \in Kinds |-> 0]
-----------------------------------------------------------------------------
(* Reconcile steps 1 and 2 pass.  When the repository or a target policy    *)
(* is missing, or the API server fails, the cycle ends here: it only       *)
(* writes the phase and the conditions, which no code reads.               *)
Start(p) ==
  /\ wpc = "idle" /\ wpc' = "engine"
  /\ rp' = p
  /\ UNCHANGED <<board, open, reply, snap, cur, entry, openPRs, existing,
                 processed, created, engine, applied, history, spent>>

(* ensureGitOpsEngineFromSecret: an unreadable secret leaves what is        *)
(* registered.                                                             *)
EnsureGitOpsEngine ==
  /\ wpc = "engine" /\ wpc' = "incidents"
  /\ registered' \in {TRUE, registered}
  /\ UNCHANGED <<board, open, reply, cycle, strategy, client, applied, history, spent>>

ReadIncidents ==
  /\ wpc = "incidents" /\ wpc' = "list"
  /\ snap' = [i \in {j \in DOMAIN board : ~board[j].resolved} |-> board[i]]
  /\ UNCHANGED <<board, open, reply, rp, cur, entry, openPRs, existing,
                 processed, created, engine, applied, history, spent>>

(* Mutant: the budget test is off by one.                                  *)
AfterListOffByOne(count) ==
  wpc' = IF DOMAIN snap = {} \/ theSpec.maxPRs <= count + 1 THEN "status" ELSE "loop"

(* What follows the snapshot: nothing to do, no budget, or the loop.       *)
AfterList(count) ==
  wpc' = IF DOMAIN snap = {} \/ theSpec.maxPRs <= count THEN "status" ELSE "loop"

(* snapshotOpenPRs: no engine and a failed ListOpenPRs both count as zero   *)
(* open pull requests and no branches.                                     *)
SnapshotOpenPRs ==
  /\ wpc = "list"
  /\ \/ /\ registered
        /\ openPRs' = Cardinality(open) /\ existing' = open /\ uncounted' = {}
        /\ UNCHANGED spent
     \/ /\ \/ ~registered /\ UNCHANGED spent
           \/ /\ registered /\ spent["faults"] < MaxFaults
              /\ spent' = [spent EXCEPT !["faults"] = @ + 1, !["blind"] = 1]
        /\ openPRs' = 0 /\ existing' = {} /\ uncounted' = open
  /\ AfterList(openPRs')
  /\ UNCHANGED <<board, open, reply, rp, snap, cur, entry, processed, created,
                 engine, applied, ever, opened, audit>>
-----------------------------------------------------------------------------
(* incidentMatchesTargets; an event without a policy matches nothing.      *)
incidentMatchesTargets(e, targets) == e.policies \cap targets # {}

InScope(e, spec) ==
  /\ spec.targets = {} \/ incidentMatchesTargets(e, spec.targets)
  /\ severityOrder(e.severity) >= severityOrder(spec.minSeverity)

(* The loop takes the next incident of the snapshot; its order is that of  *)
(* a Go map.                                                               *)
Take(i) ==
  /\ wpc = "loop" /\ openPRs + processed < theSpec.maxPRs
  /\ i \in DOMAIN snap
  /\ snap' = [j \in DOMAIN snap \ {i} |-> snap[j]]

(* Out of scope or below the severity filter: left alone.                  *)
SkipIncident(i) ==
  /\ Take(i)
  /\ ~InScope(snap[i], theSpec)
  /\ UNCHANGED <<board, open, reply, wpc, rp, cur, entry, openPRs, existing,
                 processed, created, engine, applied, history, spent>>

(* Mutant: the branch is looked up before the filters are applied.         *)
DedupUnfiltered(i) ==
  /\ Take(i)
  /\ branchOf(snap[i]) \in existing
  /\ IF theSpec.dryRun THEN UNCHANGED board ELSE Resolve(i)
  /\ UNCHANGED <<open, reply, wpc, rp, cur, entry, openPRs, existing, processed,
                 created, engine, applied, history, spent>>

(* An open pull request already covers the branch.                         *)
DedupIncident(i) ==
  /\ Take(i)
  /\ InScope(snap[i], theSpec) /\ branchOf(snap[i]) \in existing
  /\ IF theSpec.dryRun THEN UNCHANGED board ELSE Resolve(i)
  /\ UNCHANGED <<open, reply, wpc, rp, cur, entry, openPRs, existing, processed,
                 created, engine, applied, history, spent>>

(* GeneratePlan fails, or the policy only previews: charged, left open.    *)
PlanOnly(i) ==
  /\ Take(i)
  /\ InScope(snap[i], theSpec) /\ branchOf(snap[i]) \notin existing
  /\ \/ ~client /\ UNCHANGED spent
     \/ client /\ Spend("faults", MaxFaults)
     \/ client /\ theSpec.dryRun /\ UNCHANGED spent
  /\ processed' = processed + 1
  /\ UNCHANGED <<board, open, reply, wpc, rp, cur, entry, openPRs, existing,
                 created, engine, applied, history>>

(* GeneratePlan returns a plan for a policy that is not a dry run.         *)
PlanForApply(i) ==
  /\ Take(i)
  /\ InScope(snap[i], theSpec) /\ branchOf(snap[i]) \notin existing
  /\ client /\ ~theSpec.dryRun
  /\ wpc' = "apply" /\ cur' = i /\ entry' = snap[i]
  /\ audit' = (strategy = "dry-run")
  /\ UNCHANGED <<board, open, reply, rp, openPRs, existing, processed, created,
                 engine, applied, ever, opened, uncounted, spent>>

(* remediateIncident returns to the loop; the plan is charged.             *)
Charge ==
  /\ wpc' = "loop" /\ cur' = 0 /\ entry' = AnEntry
  /\ processed' = processed + 1

(* ApplyPlan reads the strategy once.  In the dry-run strategy it returns  *)
(* no result and no error.                                                 *)
ApplyAudit ==
  /\ wpc = "apply" /\ strategy = "dry-run"
  /\ wpc' = "audited"
  /\ UNCHANGED <<board, open, reply, cycle, engine, applied, history, spent>>

(* Mutant: a nil result is counted as an opened pull request.              *)
AuditedCounts ==
  /\ wpc = "audited"
  /\ Charge /\ Resolve(cur)
  /\ created' = created + 1
  /\ UNCHANGED <<open, reply, rp, snap, openPRs, existing, engine, applied,
                 history, spent>>

(* remediateIncident resolves the incident on a nil result too, whatever   *)
(* the strategy has become by then.                                        *)
Audited ==
  /\ wpc = "audited"
  /\ Charge /\ Resolve(cur)
  /\ UNCHANGED <<open, reply, rp, snap, openPRs, existing, created, engine,
                 applied, history, spent>>

ApplyNoEngine ==
  /\ wpc = "apply" /\ strategy = "gitops-pr" /\ ~registered
  /\ Charge
  /\ UNCHANGED <<board, open, reply, rp, snap, openPRs, existing, created,
                 engine, applied, history, spent>>

CreatePR ==
  /\ wpc = "apply" /\ strategy = "gitops-pr" /\ registered
  /\ Call("worker") /\ wpc' = "waiting"
  /\ UNCHANGED <<board, cycle, engine, applied, history, spent>>

(* The pull-request service works on the call.                             *)
ServiceAnswers ==
  /\ wpc = "waiting"
  /\ LET b == branchOf(entry) IN
     \/ OpenNew("worker", b) /\ opened' = opened + 1 /\ UNCHANGED spent
     \/ OpenUnconfirmed("worker", b) /\ opened' = opened + 1
        /\ Spend("faults", MaxFaults)
     \/ ReturnExisting("worker", b) /\ UNCHANGED <<opened, spent>>
     \/ Fail("worker") /\ Spend("faults", MaxFaults) /\ UNCHANGED opened
  /\ ever' = ever \cup open'
  /\ UNCHANGED <<board, wpc, cycle, engine, applied, uncounted, audit>>

(* ApplyPlan returned: a result, new or existing, counts as an opened pull *)
(* request and resolves the incident; an error leaves it open.             *)
Applied ==
  /\ wpc = "waiting" /\ reply["worker"] \in {"new", "existing"}
  /\ Charge /\ Resolve(cur)
  /\ existing' = existing \cup {branchOf(entry)}
  /\ created' = created + 1
  /\ UNCHANGED <<open, reply, rp, snap, openPRs, engine, applied, history, spent>>

(* Mutant: a failed call is not charged to the cycle's budget.             *)
ApplyFailedUncharged ==
  /\ wpc = "waiting" /\ reply["worker"] = "error"
  /\ wpc' = "loop" /\ cur' = 0 /\ entry' = AnEntry
  /\ UNCHANGED <<board, open, reply, rp, snap, openPRs, existing, processed,
                 created, engine, applied, history, spent>>

(* Mutant: the incident is resolved whatever ApplyPlan returned.           *)
ApplyFailedResolves ==
  /\ wpc = "waiting" /\ reply["worker"] = "error"
  /\ Charge /\ Resolve(cur)
  /\ UNCHANGED <<open, reply, rp, snap, openPRs, existing, created, engine,
                 applied, history, spent>>

ApplyFailed ==
  /\ wpc = "waiting" /\ reply["worker"] = "error"
  /\ Charge
  /\ UNCHANGED <<board, open, reply, rp, snap, openPRs, existing, created,
                 engine, applied, history, spent>>

EndLoop ==
  /\ wpc = "loop"
  /\ DOMAIN snap = {} \/ openPRs + processed >= theSpec.maxPRs
  /\ wpc' = "status"
  /\ UNCHANGED <<board, open, reply, cycle, engine, applied, history, spent>>

(* Reconcile step 4; a failed status update loses the cycle's counts.      *)
UpdateStatus ==
  /\ wpc = "status" /\ wpc' = "idle"
  /\ \/ /\ applied' = [applied EXCEPT ![rp] = @ + created]
        /\ UNCHANGED spent
     \/ Spend("faults", MaxFaults) /\ UNCHANGED applied
  /\ rp' = APolicy /\ snap' = NoEntries /\ openPRs' = 0 /\ existing' = {}
  /\ processed' = 0 /\ created' = 0 /\ uncounted' = {} /\ audit' = FALSE
  /\ UNCHANGED <<board, open, reply, cur, entry, engine, ever, opened>>

Worker ==
  \/ EnsureGitOpsEngine \/ ReadIncidents \/ SnapshotOpenPRs
  \/ \E i \in DOMAIN snap :
       SkipIncident(i) \/ DedupIncident(i) \/ PlanOnly(i) \/ PlanForApply(i)
  \/ ApplyAudit \/ Audited \/ ApplyNoEngine \/ CreatePR \/ ServiceAnswers
  \/ Applied \/ ApplyFailed \/ EndLoop \/ UpdateStatus
-----------------------------------------------------------------------------
(* The security and monitoring controllers, through the correlator.        *)
Findings ==
  /\ \E sig \in Signals :
       \/ /\ Form(sig.resource, sig.severity, {sig.policy}, sig.message)
          /\ UNCHANGED spent
       \/ /\ \E i \in DOMAIN board :
               /\ board[i].resource = sig.resource
               /\ Grow(i, sig.severity, sig.policy, sig.message)
          /\ Spend("outside", MaxOutside)
  /\ UNCHANGED <<open, reply, wpc, cycle, engine, applied, history>>

(* The ZelyoConfig controller: SetLLMClient, then SetConfig with the        *)
(* strategy of spec.mode.                                                  *)
Configure ==
  /\ Spend("config", MaxConfig)
  /\ \/ ~client /\ client' = TRUE /\ UNCHANGED strategy
     \/ client /\ strategy' \in {"dry-run", "gitops-pr"} \ {strategy}
        /\ UNCHANGED client
  /\ audit' = (cur # 0 /\ (audit \/ strategy' = "dry-run"))
  /\ UNCHANGED <<board, open, reply, wpc, cycle, registered, applied, ever,
                 opened, uncounted>>

(* handlePresetPropose: openPresetPR opens a pull request on the same      *)
(* repository, at any time and without asking how many are open.           *)
PresetOpens(b) ==
  /\ Spend("outside", MaxOutside)
  /\ OpenByUser(b)
  /\ ever' = ever \cup {b} /\ uncounted' = uncounted \cup {b}
  /\ UNCHANGED <<board, wpc, cycle, engine, applied, opened, audit>>

Reviewers ==
  /\ Spend("outside", MaxOutside)
  /\ \E b \in Branches : CloseByUser(b)
  /\ UNCHANGED <<board, wpc, cycle, engine, applied, history>>

(* The operator process restarts: incidents, configuration and the cycle   *)
(* are gone, the pull requests and the policies' status are not.           *)
Restart ==
  /\ Spend("outside", MaxOutside)
  /\ board' = <<>> /\ reply' = [c \in Callers |-> "none"]
  /\ strategy' = "dry-run" /\ client' = FALSE /\ registered' = FALSE
  /\ wpc' = "idle" /\ rp' = APolicy /\ snap' = NoEntries /\ cur' = 0 /\ entry' = AnEntry
  /\ openPRs' = 0 /\ existing' = {} /\ processed' = 0 /\ created' = 0
  /\ uncounted' = {} /\ audit' = FALSE
  /\ UNCHANGED <<open, applied, ever, opened>>

Next ==
  \/ \E p \in RPolicies : Start(p)
  \/ Worker \/ Findings \/ Configure \/ Reviewers \/ Restart
  \/ \E b \in PresetBranches : PresetOpens(b)

(* Every policy is requeued after each cycle and the work queue is fair;   *)
(* a cycle that has begun runs to its end.                                 *)
Fairness ==
  /\ WF_vars(Worker)
  /\ \A p \in RPolicies : SF_vars(Start(p))

Spec == Init /\ [][Next]_vars /\ Fairness
-----------------------------------------------------------------------------
TypeOK ==
  /\ board \in Boards /\ open \subseteq Branches
  /\ reply \in [Callers -> Replies]
  /\ wpc \in {"idle", "engine", "incidents", "list", "loop", "apply",
              "audited", "waiting", "status"}
  /\ rp \in RPolicies
  /\ cur \in 0 .. MaxIncidents /\ entry \in BoardEntry
  /\ openPRs \in Nat /\ processed \in Nat /\ created \in Nat
  /\ existing \subseteq Branches
  /\ strategy \in {"dry-run", "gitops-pr"} /\ client \in BOOLEAN
  /\ registered \in BOOLEAN
  /\ applied \in [RPolicies -> Nat]
  /\ ever \subseteq Branches /\ opened \in Nat
  /\ uncounted \subseteq Branches /\ audit \in BOOLEAN
  /\ spent \in [Kinds -> Nat]

(* What the remediation loop keeps to, across cycles, policies, lost       *)
(* replies and restarts: when it opens a pull request, there is room for   *)
(* it among all the operator's open ones, presets' included, but those     *)
(* that its list did not show: the ones the dashboard opened since, and    *)
(* the ones a failed list has hidden.                                      *)
OpensWithinCap ==
  [][opened' > opened => Cardinality(open \ uncounted) < theSpec.maxPRs]_vars

(* RemediationsApplied only counts pull requests that a cycle really       *)
(* opened (processIncidents: "prsCreated only ticks when a real PR was     *)
(* opened"), again until a ListOpenPRs fails: a blind cycle is answered    *)
(* with a pull request that exists and counts it as one of its own.        *)
AppliedAreReal ==
  spent["blind"] = 0 => \A p \in RPolicies : applied[p] <= opened

(* An incident is never closed with nothing done: when one is resolved,    *)
(* the pull request for the finding the worker read has existed, or the    *)
(* engine has been in the dry-run strategy since the worker made the plan, *)
(* which it may have left again by now; a dry-run policy resolves none.    *)
NothingSilentlyClosed ==
  [][\A i \in DOMAIN board \cap DOMAIN board' :
       ~board[i].resolved /\ board'[i].resolved =>
         /\ ~theSpec.dryRun
         /\ \/ i = cur /\ (audit \/ branchOf(entry) \in ever)
            \/ i \in DOMAIN snap /\ branchOf(snap[i]) \in ever]_vars

(* A resolved incident is in the scope of some policy that may act, judged *)
(* on the incident as it is now and not on the worker's older copy.        *)
OnlyInScopeResolved ==
  \A i \in DOMAIN board :
    board[i].resolved =>
      \E p \in RPolicies : ~PolicySpec[p].dryRun /\ InScope(board[i], PolicySpec[p])

(* An incident that a policy may act on does not stay open for ever while  *)
(* the engine is configured and the cap has room, whatever order the loop  *)
(* visits the incidents in and whatever replies were lost before: each     *)
(* cycle of Reconcile re-reads the incidents that are still open.          *)
Actionable(i) ==
  /\ strategy = "gitops-pr" /\ client /\ registered
  /\ i \in DOMAIN board
  /\ \E p \in RPolicies :
       /\ ~PolicySpec[p].dryRun /\ InScope(board[i], PolicySpec[p])
       /\ Cardinality(open) < PolicySpec[p].maxPRs
InScopeGetsResolved ==
  \A i \in Ids : <>[]Actionable(i) => <>(i \in DOMAIN board /\ board[i].resolved)
=============================================================================
