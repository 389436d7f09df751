# TLA+ models of the Zelyo operator

The operator (module `aotanami`, binary "Zelyo Operator") watches a Kubernetes
cluster and cloud accounts, correlates what it finds into incidents, asks an LLM
for a fix and proposes it as a pull request. This directory holds TLA+ models of
its core, TLC configurations that check them, and TLAPS proofs about them.

    tlc -workers 2 -config MCCorrelator.cfg MCCorrelator
    tlapm CorrelatorProofs.tla

## 1. The system

```
 scanners ──> SecurityPolicy ──┐                       ┌── ZelyoConfig (client, strategy)
 pods     ──> MonitoringPolicy ┴─> Correlator ─> RemediationPolicy ─> Remediation engine ─> LLM client
                                   (incidents)       │                        │
                                                     │                        └─> GitHub engine ─> GitHub
 ClusterScan / CloudAccountConfig ─> ScanReport      │                               ^
 dashboard (HTTP handlers): presets ─────────────────┼───────────────────────────────┘
 event bus / remediation store <─────────────────────┘ ─> SSE clients
```

All controllers run in one process under controller-runtime, each with one
worker goroutine; the HTTP handlers of the dashboard have a goroutine per
request. What they share is in memory (correlator, remediation engine, LLM
client, event bus, preset store), in the Kubernetes API server, or on GitHub.

### Inventory

| Component | State it keeps | Operations | What makes it correct | Module |
|---|---|---|---|---|
| Correlation engine, `internal/correlator` | events of the last ten windows, incidents by id | `Ingest`, `GetOpenIncidents`, `ResolveIncident`, pruning | evidence for one resource goes to one incident; severities never understate; no related pair is missed | `Correlator`, `IncidentBoard` |
| GitHub engine, `internal/github/engine.go` | none; GitHub's refs, commits and pull requests | `CreatePullRequest` (six REST calls), `ListOpenPRs`, `GetFile` | commits do not pile up on a pull request under review; only complete ones are opened; calls end | `GitHubEngine`, `PullRequestService` |
| RemediationPolicy controller and remediation engine | strategy, client, engine registry; policy status | `Reconcile`, `processIncidents`, `snapshotOpenPRs`, `GeneratePlan`, `ApplyPlan`, `SetConfig`/`SetLLMClient` | what a cycle opens fits the cap; counters; incidents are closed only for a reason, and are closed in the end | `RemediationPolicy` |
| LLM client, `internal/llm` | breaker state per client | `Complete` with fallback, breaker and retries | the breaker neither wedges nor lets through too much; calls end | `LLMClient` |
| Dashboard presets | preset state, demo goroutines | propose, apply, demo merge | no state announces a missing pull request; states move on | `DashboardPresets` |
| ClusterScan, CloudAccountConfig, ScanReport controllers | objects, reports, finalizers, status | `Reconcile`, `enforceHistoryLimit`, `cleanupScanReports` | status names the newest report; history is bounded; no endless Running; nobody else's reports deleted | `ScanHistory` |
| Cloud scan: clients, registry, 48 scanners, compliance | clients of the regions, findings, report | `runCloudScans`, `runSingleScanner`, `Scan`, `EvaluateFindings` | a complete scan finds exactly what is there; what a failure hides leaves a trace; compliance agrees with the findings | `CloudScan`, `CloudRules`, `Compliance` |
| Event bus, SSE server, pipeline page | ring of events, subscribers, connections, the page's panel | `Publish`, `Subscribe`, `Recent`, `Broadcast`, `handleSSE`, `Start`, `loadPipeline`, `refreshPanelIfOpen` | order is kept; what a page misses has a known cause; the panel shows what was announced; the server stops | `EventStream` |
| Remediation store | contexts by pull request, two indexes | `Upsert`, `MarkMerged`, `MarkResolved`, eviction | the indexes name exactly the contexts that are there | `RemediationStore` |
| SecurityPolicy controller, pod scanners, NotificationChannel controller, notifier | status, phases, dedup and rate maps of one reconcile | `Reconcile`, `resolveTargetPods`, `runPolicyScanners`, `sendNotifications`, `Send` | counts belong to the pods and the spec they name; channels hear what their filter lets pass; the status catches up | `Policies`, `PodRules`, `Notifier` |
| MonitoringPolicy controller, anomaly detector | status, baselines | `Reconcile`, `observePodMetrics`, `Observe` | only a recent change is an anomaly | `Policies`, `AnomalyDetector` |
| ZelyoConfig controller | status; the engine's client and strategy | `Reconcile` | the engine is never half configured | its effect on `RemediationPolicy` |
| CostPolicy controller | status | `Reconcile` | – | not modelled |
| GitOpsRepository controller, sources, adapters, discovery | clones, sync status | `Reconcile`, `Resolve`, discovery | a failed sync never shows as synced | not modelled |
| GitHub App client | cached installation token | `Token` | no expired token is used | not modelled |
| Webhook, data views, explain | none | pure functions | per object | not modelled: no state |
| Drift, cost optimizer, policy evaluator, supply chain, threat, multi-cluster, monitor, `internal/api` | own maps | – | – | not modelled: imported by no other package |

`PROJECT.json` lists every component with its sources and status, the hazards at
their lines, and for each definition the lines it models.

### What is hard here

- *Stale reads.* The remediation worker works for minutes through a snapshot of
  incidents that keep growing; history limits are enforced on lists from a cache
  that lags; handlers check a store, go over the network, then write the store.
- *Lost replies.* GitHub acts on a request and the answer never arrives; the
  retry meets a repository it did not expect.
- *Partial failure.* Six REST calls make one pull request; a scan writes a
  report, prunes others, then fails to write its status.
- *Late results.* A breaker's result arrives in a different state than the one
  that admitted the request.
- *Restarts.* Incidents, strategy and registry are lost; pull requests, policy
  counters and phases stay.
- *Swallowed errors.* A scanner, a region or a single read fails and the scan
  goes on; what was not looked at looks clean.
- *Two locks, two requests.* An event is appended and fanned out under separate
  locks; a page loads history, stream and panel by separate requests.
- *Progress.* Budgets, caps and random map order must not starve an incident;
  a half-open breaker must not refuse for ever.

## 2. The modules

`Correlator` has one action per exported method: each holds `Engine.mu` for all
of its body. `Ingest` is split by its outcome: `IngestJoins` (an open incident
correlates), `IngestForms` (related events make a new one), `IngestAlone`. Time
is a tick counter. Go's random map order is a choice over `Correlating`.
`IncidentBoard` is what consumers rely on: incidents appear, gather evidence
while open, and are resolved once. `RefinesBoard` shows that the engine
implements it.

`GitHubEngine` runs `CreatePullRequest` call by call (`getRef`, `createRef`,
`lookup`, `commit` per file, `openPR`, `addLabels`) for several callers. Each
call may succeed, fail, or fail after GitHub has acted. Reviewers merge and close
in between. `PullRequestService` is the abstract service: a call ends with a new
pull request, the existing one, or an error that does not say whether one was
opened. `RefinesService` shows the implementation. `Serves` says which callers
use a branch: the remediation worker and the dashboard use disjoint name spaces
(`zelyo-operator/fix/`, `zelyo-operator/preset/`), and all requests for a preset
share its branch. The lookup for a pull request and the commits are separate calls,
so a second request, or a reviewer, may open a pull request on the branch between
them. The history variable `meanwhile` records for each call that its branch got a
pull request or was deleted since the call began. `NoCommitOnStandingPR` says with it
what the code guarantees: a call adds nothing to a pull request that was open when
the call began, so commits do not pile up from call to call. `NoCommitOnOpenPR`, that
no commit ever hits an open one, is what the comments say, and `double_click` shows it
violated.

`DashboardPresets` extends `GitHubEngine`, where presets are the branches and
the request goroutines the callers, all of which may use any branch, and adds the
preset store, `/apply` and the demo goroutine.

`RemediationPolicy` composes `IncidentBoard` and `PullRequestService` with the
controller: `Start` (the work queue picks a policy), the early exits of
`Reconcile`, `snapshotOpenPRs`, the loop over the snapshot with its scope,
dedup, budget and strategy tests, `GeneratePlan`, `ApplyPlan`, the resolution
and the status update, each call a step. `ApplyPlan` reads the strategy in one step
(`ApplyAudit`), and the incident is resolved in a later one (`Audited`), by when the
strategy may be another. Around it: findings, the ZelyoConfig controller, reviewers,
failures, a restart, and the dashboard, which opens the pull requests of presets on
the same repository without asking how many are open (`PresetOpens`). Three history
variables serve the properties: `opened` counts what the worker opened, `uncounted`
has the branches that the cycle's list does not show, `audit` remembers a dry-run
strategy since the plan was made.

`LLMClient` models `FallbackClient`, the breaker's `allowRequest` and
`recordResult`, and the retry loop, for several callers on two clients.
`consecutiveFails` saturates at the threshold, the only value it is compared to.

`ScanHistory` models the ClusterScan and the CloudAccountConfig controllers,
which share their life cycle, and the ScanReport controller. Every call to the
API server is a step that may fail; a write is refused when someone changed the
object since it was read. The read itself returns the current object: a read
from a stale cache ends in a conflict at the first write, which every path makes
before it does anything else, so it is a refused write here. Lists of reports do
come from a cache that learns of new and deleted reports later. The log of
reports is ordered by creation; a report is its place in that log, so removing
one renumbers the others. The work queue records why an object is queued: by its
own writes (`"own"`) or by a timer, a user or a start (`"outside"`).

`CloudRules` has one record per cloud scanner: category, global or regional,
severity, whether it follows all pages, and its verdict on every resource it can
meet, including what a failed read about the resource leaves behind (a warning,
the scan's error, or nothing). `CloudScan` runs one scan over an estate, any
sequence of resources: credentials, a client per region, the categories in order,
each scanner once or once per region, the report with its summary and its
`Compliance` results, and the status. The findings are a bag: `sort.Slice` orders
them by severity only and is not stable, so nothing may depend on their order. What precedes a scan and what becomes of
its report is `ScanHistory`; a scan is one step there and many here.

`RemediationStore` is the store with its two indexes. `EventStream` extends it
with the bus, the bridge, the SSE connections, the page and the shutdown.
Publishers run short programs, which are the calls of `Upsert`, `MarkMerged`,
`MarkResolved` and the `Emit` helpers that a remediation, a preset, the demo or a scan
makes, in the code's order and with the code's keys: a preset's findings are recorded
under the path they are committed to, and marked resolved under the preset's own.
`Publish` is three steps, for its two critical sections and its send. A browser opens
its stream, loads the page, opens its panel, stalls, or leaves at any time. A load is
three steps: `render` asks and registers its handlers (`LoadPipeline`), the server
answers (`ServeLoad`), and the answer arrives and replaces the columns (`LoadArrives`);
events are delivered and listed between any two of them. `meanwhile` has those that
came between the last two, and `Handled` the types that the page has a handler for,
which `config.pr.drafted` is not. The panel asks when it is opened and again after each
refreshing event; any number of requests may be under way, and their answers arrive in
any order. Three variables record what a panel can be wrong by: `late` and `stale` that
what it shows was overtaken by an earlier answer, `unannounced` that the store has
changed and no refreshing event was published since.

`PodRules` has the eight pod scanners as sets of findings, and beside them a
table of what a hardened container and pod look like, written from the fields
and not from the checks. `Notifier` and `AnomalyDetector` are operators on the
state that `Send` and `Observe` keep; the detector's mean and deviation are
compared without division, so the arithmetic is exact. `Policies` composes them:
the SecurityPolicy reconcile call by call, the other two by the parts that change
something, over pods, a policy and channels that users and the cluster change.
A pod is kept as its findings under each policy spec, computed once, because a
pod's spec does not change. The scanners never fail, so the branch of
`updatePolicyStatus` for scanner errors cannot be taken.

The API server refuses a status with a phase outside the type's enumeration.
`Degraded` is in none of those of SecurityPolicy, MonitoringPolicy and
ClusterScan: `WritePhase` says so in `Policies`, and in `ScanHistory` it is a
refused write.

Operators whose comment begins with *Mutant* are faulty variants of the
definition that follows them. No specification uses them: they stand for bugs
the properties must catch, and each property has one, listed in `PROJECT.json`.

## 3. The runs

| Run | Configuration | Shows |
|---|---|---|
| `correlator` | `MCCorrelator.cfg` | `OneFreshOpenIncident`, `SeverityIsHighest`, `NoMissedPair`, `SharedOnlyAtWindowEdge`, `RefinesBoard` |
| `presets` | `MCDashboardPresets.cfg` | `NoCommitOnStandingPR`, `OpensOnlyComplete`, `EveryCallReturns`, `RefinesService`; `PendingHasPR`, `DemoPresetGetsEnabled` |
| `double_click` | `MCDoubleClick.cfg` | violated: `NoCommitOnOpenPR` |
| `remediation` | `MCRemediation.cfg` | `OpensWithinCap`, `AppliedAreReal`, `OnlyInScopeResolved`, `NothingSilentlyClosed`, `InScopeGetsResolved` |
| `llm_client` | `MCLLMClient.cfg` | `HalfOpenHasProbe`, `OpenIffTooManyFailures`, `EveryCallReturns`, `BreakerRecovers` |
| `llm_two_probes` | `MCLLMProbe.cfg` | violated: `OnlyOneInFlightProbe` |
| `scans` | `MCScanHistory.cfg` | `CompletedNamesNewest`, `OnlyOldPruned`, `HistoryComesBack`, `RunningEnds` |
| `scans_hot_loop` | `MCScansHotLoop.cfg` | violated: `NoSelfTriggeredScan` |
| `cloud_scan` | `MCCloudScan.cfg` | `CleanScanIsExact`, `FaultsReportedOrLogged`, `NothingMadeUp`, `CriticalFailsCompliance` |
| `events` | `MCEventStream.cfg` | `StreamInOrder`, `NothingMissed`, `StopsCleanly` |
| `side_panel` | `MCSidePanel.cfg` | `IndexesExact`, `PanelAgrees`, `PanelShowsMerge` |
| `policies` | `MCPolicies.cfg` | `CountIsHonest`, `AlertsReachChannels`, `Settles`, `AnomaliesAreReal` |

The runs `correlator` and `llm_client` also check the type invariants that are
proved below; those of `GitHubEngine` and `RemediationPolicy` are only proved. Of the
40 properties 30 are proved for every value of the constants (section 4).

What the violated ones say of the code:

- *Double click.* Two requests for a preset both pass the idempotency check of
  `handlePresetPropose`; both find the branch without a pull request, and the second
  commits to the one that the first has opened ("Double-clicks, retries, and page
  refreshes should all be safe").
- *Two probes.* A late failure of an old request discards a probe that is still
  in flight; after the reset timeout a second one is let through.
- *Hot loop.* `Owns(ScanReport)` has no predicate: the report of a scan starts
  the next scan at once, whatever the schedule.

Other places where the code and what is said of it differ, met while modelling. The
models have each of them, and the properties say what holds in spite of it:

- `maxConcurrentPRs` "limits the number of open Zelyo-generated PRs on the target repo
  at any time" (`remediationpolicy_types.go:44`; `README.md:79` says the same), and
  `ListOpenPRs` counts those of presets (`github/engine.go:291`), but `openPresetPR`
  opens its own at any number (`presets_handler.go:363`). What the remediation loop
  itself opens does fit: `OpensWithinCap`, whose `uncounted` has the presets' opened
  since the cycle's list.
- The page lists what its stream brings while it awaits the history (`pipeline.js:62`),
  then replaces its columns by the answer (63): what came after the server answered is
  gone, although the history is kept so that late joiners "can backfill recent activity"
  (`events.go:62`). In `NothingMissed` this is `meanwhile`.
- `config.pr.drafted` "lands in the Fix stage of the Pipeline" (`events.go:331-334`), but
  a page that is open has no handler for it (`pipeline.js:613-618`). In `NothingMissed`
  this is `Unhandled`.
- The files of a merged preset are marked resolved (`presets_handler.go:565`) after
  `pr.merged`, the last event about it, so an open panel does not flip to green, against
  the comments at `presets_handler.go:562` and `pipeline.js:90`. In `PanelAgrees` this is
  `unannounced`; `PanelShowsMerge` holds in spite of it.
- A panel does not number its refreshes (`pipeline.js:571-575`): an older answer that
  arrives last stays on show, even where every write is announced, as in the demo. In
  `PanelAgrees` and `PanelShowsMerge` this is `stale`.
- The findings of a preset are recorded by committed path (`presets_handler.go:212-217`,
  246) and marked resolved by the preset's own (565): under a GitOps path none is ever
  resolved. `side_panel` has both kinds of repository.
- A MonitoringPolicy whose channel is missing is given the phase `Degraded`
  (`monitoringpolicy_controller.go:89`; `docs/architecture.md:152-162` has it for every
  controller), which its API type does not have (`monitoringpolicy_types.go:137`): the
  status is refused, and the policy stays `Active` if it was. This is `WritePhase`.
- `loadPipeline` and the stream may both bring an event; the page does not compare
  IDs and lists it twice. `StreamInOrder` is about the stream alone.
- `docs/scanners.md:27-28,51,53` gives four checks other severities than the scanners
  do: `runAsNonRoot` (High; medium in the code), `readOnlyRootFilesystem` (Medium;
  low), and a missing CPU or memory limit (Medium; high). `PodRules` has the code's.
- A switch of the strategy to dry-run between `GeneratePlan` and `ApplyPlan` resolves
  the incident with nothing done (`nil, nil`); `NothingSilentlyClosed` exempts it.
- A direct apply that fails half way overwrites a pending proposal of its preset.
- Nothing outside demo mode moves a preset on from `pending_merge`, although the
  comment on `demoAdvancePreset` names a controller that does. Hence
  `DemoPresetGetsEnabled` is about demo mode.
- `snapshotOpenPRs` takes a failed list for an empty repository. That cycle can
  exceed `maxConcurrentPRs`, and it counts a pull request that existed as its
  own. `OpensWithinCap` therefore leaves out what a failed list has hidden, and
  `AppliedAreReal` speaks of the time before the first failed list.
- A ClusterScan deletes reports by the label `zelyo.ai/scan` alone, so it also
  deletes those of a CloudAccountConfig of its name. `scans` has one object.
- An account without regions is scanned in `us-east-1` only, while the type says
  "Empty means all available regions for the provider".
- Seven cloud scanners skip a failed read in silence; `FaultsReportedOrLogged`
  names them as `Wordless`.
- A comment in `resolveTargetPods` says that system namespaces are left out; only
  `excludeNamespaces` are.
- A notifier lives for one reconcile, so deduplication and rate limits never
  carry over to the next; only channels of type slack are ever sent to, while the
  others are also shown as ready.

### Bounds

Every bound is a constant named `Max...`.

- `correlator`: window 2, clock to 4, four events, two resources, three
  severities. Two windows suffice for an incident to be joined, to go stale and
  be succeeded by another, and for events to be pruned (`PruneFactor` 2 for 10:
  pruning happens, and later than a window, which is all the properties use).
- `presets`: one preset, and so one branch, that two handlers share; two files (so a
  call can stop between them), three calls and two reviewer steps: two calls that
  overlap and a retry; a branch that is closed and deleted, or closed and reopened,
  under a call; one `/apply`. Presets share nothing but the code, and the worker's
  branches nothing with theirs.
- `double_click`: the same with one file, two calls, no `/apply` and no reviewer.
- `remediation`: two incidents on branches of their own and an out-of-scope
  finding that shares a branch, a cap of two with a left-over third branch, one
  fault (a failed list included), two configuration changes and one outside event
  (a preset's pull request, a closed one, a restart or a finding that joins an
  incident). The third branch is a preset's.
- `llm_client`: two callers (one probing, one late), threshold 2, one retry.
- `scans`: one object of either kind, history limit 1, one failure or restart,
  three user changes (create, delete, create again; or suspend and resume), one
  report the cache has not seen, five reports known at a time. With the cache
  behind by `MaxUnseen` when the limit is enforced, the history settles at
  `Limit + MaxUnseen`, not at `Limit`; `HistoryComesBack` states the former.

- `cloud_scan`: for each of the 48 scanners every resource its verdict tells
  apart, in each of two regions and on the first or the second page of its
  listing, next to a faulty resource of a global or a regional scanner; five
  accounts, with categories and regions given in full, in part, twice or not at
  all, and every credential method. Every call may fail.
- `events`: two publishers with two workloads (a preset proposed and merged, a
  remediation beside a scan), channels of one place, so that both overflow, a history
  of three of which two are asked for, one heartbeat, one browser with one connection.
- `side_panel`: five workloads (a preset proposed and merged, in a repository with its
  manifests at the root or under a path; a second proposal on the
  same pull request, one that evicts another from a store of one, the demo's
  remediation with a finding it leaves unresolved), otherwise the same and without
  heartbeats.
- `policies`: one pod in more than a hundred variants (a hardened pod with one
  field changed, in it or in either container) under all rules; two pods, three
  policies, two channels, one failure and two changes; and monitoring with three
  changes of one pod (a restart, its end, another of its name) in a namespace
  listed twice, a window of four values and a sensitivity of
  0.7, which such a window can exceed.

`CHECK_DEADLOCK FALSE` is given where the system may stop: when the bounds on
calls, users or time are used up and nothing is in progress, or when all objects
are gone. `remediation`, `llm_client`, `cloud_scan` and `policies` check deadlock.

### Fairness

Weak fairness of a call in progress: HTTP requests have timeouts, so a step of
`CreatePullRequest`, of `Complete` or of a reconcile is not postponed for ever.
Weak fairness of timers (`RequeueAfter`, the breaker's reset timeout, the demo
sleeps): time passes. Strong fairness of starting each RemediationPolicy: every
policy is requeued after each cycle and the work queue is first in, first out.
Weak fairness of the informer's watches, of the ScanReport controller and of
Kubernetes' garbage collector; weak fairness of the policies' reconciles, which
are called again after an error, a timer or an event. In `EventStream` only a
handler that sees the server's context and the return of `Start` are fair; a
stalled write is not, and `Shutdown` has its timeout for that. `CloudScan` has no
liveness property. No fairness is assumed of users, reviewers,
failures, findings or configuration changes.

## 4. The proofs

Each proof module extends the module it is about. What it proves holds for every
value of the constants that the named ASSUMEs allow: `CorrelatorAssumption`,
`EngineAssumption`, `LLMAssumption`, `RemediationAssumption`, `StreamAssumption`,
`StoreAssumption`, `ScanAssumption`, `PresetsAssumption`, `CloudAssumption`,
`VerdictAssumption`, `TablesAssumption`, `PoliciesAssumption`,
`FindingsAssumption`, `ScopeAssumption`, `DetectorAssumption`. They give the
constants their types, make windows, thresholds, queues and file counts positive,
and say that programs, channels, estates, pods and specs are well formed; three of
them, `VerdictAssumption`, `TablesAssumption` and `FindingsAssumption`, state a
fact about the tables of scanners and controls that would be a finite evaluation
to prove. TLC evaluates all of them in the runs.

Three theorems have a hypothesis of their own, without which they are false:

- `DistinctNames` (the two on scan history): no scan has the name of an account.
- `ChecksAgree` (`CountIsHonestAlways`): a rule whose scanner finds nothing in a
  pod has the pod in its table of hardened ones. Only the last part of the property
  needs it (`CountInBoundsAlways` does without), and the pods of `policies` have it.

| Module | Theorem | Property |
|---|---|---|
| `CorrelatorProofs` | `TypeCorrectness`, `OneFreshOpenIncidentHolds`, `SeverityIsHighestHolds`, `NoMissedPairHolds`, `SharedOnlyAtWindowEdgeHolds`, `RefinesBoardHolds` | invariants, refinement |
| `GitHubEngineProofs` | `GitHubTypeCorrect`, `NoCommitOnStandingPRHolds`, `OpensOnlyCompleteHolds`, `RefinesServiceHolds`, `PendingHasPRAlways`, `PresetsUseService` | invariants, action properties, refinements |
| `LLMClientProofs` | `LLMTypeCorrect`, `HalfOpenHasProbeHolds`, `OpenIffTooManyFailuresHolds` | invariants |
| `RemediationProofs` | `RemediationTypeCorrect`, `OpensWithinCapHolds`, `AppliedAreRealAlways`, `OnlyInScopeResolvedAlways`, `NothingSilentlyClosedHolds` | invariants, action property |
| `EventStreamProofs` | `NeverCrashes`, `StreamInOrderAlways`, `NothingMissedAlways`, `IndexesExactAlways`, `PanelAgreesAlways` | invariants |
| `ScanHistoryProofs` | `CompletedNamesNewestAlways`, `OnlyOldPrunedAlways` | invariant, action property |
| `CloudScanProofs` | `NothingMadeUpAlways`, `CleanScanIsExactAlways`, `FaultsReportedOrLoggedAlways`, `CriticalFailsComplianceAlways` | invariants |
| `PoliciesProofs` | `AlertsReachChannelsHolds`, `AnomaliesAreRealAlways`, `CountInBoundsAlways`, `CountIsHonestAlways` | action properties |

Along which arguments:

- *Correlator.* The invariants are not inductive one by one: which incident an
  event may join depends on when incidents were last touched and by which events.
  `IInv` (in `Correlator`) conjoins them with `TimesAreOrdered`: nothing is
  stamped in the future, an incident is at least as recent as its events, and all
  of those are about its resource. There is one lemma per action; `Ingest` is
  proved by outcome. The refinement adds `HasLatest`, that every incident has a
  latest event, and maps each outcome of `Ingest` to a step of
  `IncidentBoard` or to a stutter.
- *GitHub engine.* `TInv` (types, the commit loop is not past its last file, an
  open pull request has its branch) is enough for `TypeOK` and for the refinement, however
  callers share branches: opening the pull request is the step that answers a
  call. `GInv` adds what the other two theorems need, and none of it assumes that a
  branch has one caller: between its lookup and its last commit a call's branch backs
  no open pull request, but one opened meanwhile (`CommitsOnQuietBranch`); a branch that
  was found or created is gone only if it was deleted meanwhile; and as long as it
  exists it carries every file the call has committed, unless it was deleted and
  another of its callers may have created it anew (`FilesOnBranch`).
- *LLM client.* `BreakerInv`: that a half-open breaker has a probe relies on the
  failure count that opened it, so both are proved together.
- *Remediation.* `OpensWithinCap` is about a set of pull requests and the worker about
  a number it read minutes ago. `RInv` relates them. `Budgeted`: there are no more open
  ones, but those the list did not show, than the list had, plus what the cycle has
  charged to its budget, plus the one being opened; an attempt whose reply was
  lost is charged too. `Accounted`: what a cycle counts, and what it opened and
  has not counted yet, was opened by the worker. `CopiesAreOlder`: the snapshot
  and the entry at work are older copies of incidents on the board, whose policies
  and severity only grow, so a copy in scope is an incident in scope. `AuditSeen`: a plan
  that `ApplyPlan` did not apply was under a dry-run strategy at some time.
- *Presets.* `SInv` (in `GitHubEngineProofs`): a handler that is about to write the
  store has been given a pull request for the preset it writes. What the store adds
  leaves GitHub alone, so the engine's invariant and refinement carry over:
  `PresetsUseService`.
- *Event stream.* `BInv`: events belong to their publishers, a publisher that has
  decided to send holds the lock under which the channel is open, and the ring is
  the most recent part of what was numbered. `WayInOrder` follows an event through
  outbox, inbox, channel and page: each part is in order for each publisher, and
  what is further along is older. `MInv` says of a page that is loading or has loaded
  that it is served (`PageIsServed`), and of every event that the page shows it or will
  when the answer arrives, or that it is on its way, was lost or is too old, came
  meanwhile, or has no handler (`AllGot`): the answer has every event that had a number,
  and a later one is still before the stream. `KInv` is the store's: the indexes are exact before and after
  each of the removals and the insertion that `Upsert` is made of, and of a store
  over its capacity exactly the oldest goes. This rests on lemmas about removal
  from a sequence without duplicates and about folds over a set of one element.
  `PInv` is the panel's (`PanelTyped`, `PanelServed`, `PanelsUpToDate`): unless an
  event that makes it ask again is still to come, or an announcement is, what the store
  has is what the newest request will be answered, or has been, or what is shown;
  and if that was overtaken, the panel is stale. It holds of every program, because
  `unannounced` follows what the programs do.
- *Scan history.* `HInv`: `Orderly` ties finalizer, phase and reconcile of an
  object together. `NewestKept`: a reconcile that has created a report, and a
  status that is Completed, name the newest one. `OrphansFirst`: what an earlier
  object of the name left behind precedes the object's own reports. `Covered`: a
  deleted report has at least `Limit` newer ones, unless its object is going. It is
  this last part that makes a list that still has deleted reports, and lacks the
  newest, safe to prune by.
  The theorems assume `DistinctNames`: reports are selected by the label
  with the name alone, so an account and a scan of one name delete each other's
  (`clusterscan_controller.go:463`). Counting the oldest of a list is proved from
  the library's theorems on finite cardinalities.
- *Cloud scan.* `ScanInv` follows each resource of the estate through the loops. A
  resource has been counted at most once for every place of its category that is
  behind, or once in all if its scanner is global, and exactly so if nothing is
  logged (`CountedAt`, `OnceAt`); if it is faulty it has been reported or a failure
  of its own client, scanner or read is in the log, wordless scanners aside
  (`CaughtAt`); and a scan that is `Through` has every place behind it. That the counts of one resource are untouched by what
  fails for another is why the argument goes resource by resource. Compliance is
  then a matter of the tables, and of the rounding of the pass rate: a failed
  control keeps it below 100.
- *Policies.* `CInv`: a reconcile that notifies has counted its findings and has
  one; with it the proof computes who `Send` reaches. The two tables of severities
  are compared entry by entry. `DInv` says how many of a baseline's latest values
  are the present restart count; a window of equal values has an exact variance of
  zero because sums of a constant are products, which is proved by least
  counterexample on the library's fold. `HInv` is for the count. After d namespaces
  what has been listed lies between what is due by then of the pods that ran
  throughout and of those that ever ran (`Between`); a pod that stops or starts
  only moves these bounds apart; the copy of the policy is older than the policy or
  the same; and a written status is one of the same. To compare sums over
  namespaces, pods, severities and rules, a sum is the size of a set of pairs
  (`Stack`), so that adding, reordering and exchanging sums are facts about
  cardinalities of unions and bijections, and the library's fold is shown to be
  such a size (`FoldIsAmount`).

The proof of `AnomaliesAreReal` showed where it depended on the bounds of its run,
and the property was corrected. It had counted the observations of the
cycle itself, and would have failed for a namespace that is listed twice and a low
sensitivity; it now speaks of the observations before the cycle. A pod that is
replaced by another of its name starts again at zero restarts, which the detector
may report: `PodChanges` has that step now. `Extend` takes a namespace
that is listed any number of times.

Only model-checked, and why:

- Everything under fairness: `EveryCallReturns`, `BreakerRecovers`,
  `InScopeGetsResolved`, `DemoPresetGetsEnabled`, `HistoryComesBack`,
  `RunningEnds`, `Settles`, and that a server that is told to stop does stop
  (`StopsCleanly`; that it does not crash is `NeverCrashes`).
- `PanelShowsMerge`: that the code's programs announce each proposal and each merge,
  and so the panel shows them in the end, is a fact about finitely many programs.
- That the checks of the pod scanners agree with the table of hardened pods
  (`ChecksAgree`), and what the tables of cloud scanners and controls have in common
  (`VerdictAssumption`, `TablesAssumption`): finite evaluations, for which TLC is the
  right tool. The theorems hold for every system in which they are true.

Every other invariant, action property and refinement that a passing run checks is
stated by a theorem.

## 5. Left out, and the plan

Abstracted throughout: names, messages, prompts, manifests, HTTP bodies,
metrics, logs and Kubernetes events. In `ScanHistory` creation times are
distinct, while the code sorts by timestamps of one-second resolution with an
unstable sort. In `RemediationPolicy` all policies target one repository, and
`maxBlastRadius` does not appear because no code enforces it.

In `CloudScan` an estate is fixed for the length of a scan. In `EventStream` the
page is its stream, its columns and its panel, one panel for each connection; its
counters and its other cards are views of the same events. A column shows the twelve
newest events and here keeps all, and it is a set: the same event listed twice is
listed once. A request that fails is one that is never answered. In `Policies` time is not counted: a reconcile may run
at any time, and a learning period may end at any time once it has begun.

Not modelled, and why:

- *GitOpsRepository controller, sources, adapters, discovery.* They clone and
  render manifests with external tools and write what they found to a status that
  no other controller reads before it acts.
- *GitHub App client.* A cached token and JWT signing; a refused token is a failed
  REST call in `GitHubEngine`.
- *CostPolicy controller, the ZelyoConfig controller's own status, admission
  webhook.* Sequential code on one object, with nothing that interleaves.
- *Prompt building and the parsing of the LLM's answer.* Text; an answer that
  cannot be used is a failure of `GeneratePlan`.
- *Dashboard data views and explain, REST API server, metrics, conditions.* Reads
  and counters.
- *Token budget, drift, cost optimizer, policy evaluator, supply chain, threat
  feed, multi-cluster, monitor.* No package of the operator uses them.
- *Demo data, generated deep copies, type declarations.* No behaviour.

Next, in this order:

1. `GitOpsRepository` with its sync status, and the cached token.
2. `Policies` composed with `Correlator`, in place of the free choice of events
   there.
