------------------------------ MODULE Policies -------------------------------
(***************************************************************************)
(* The SecurityPolicy, NotificationChannel and MonitoringPolicy            *)
(* controllers over one cluster: pods start, stop and restart, users edit  *)
(* the policy, its channels and their secrets, and calls of the API server *)
(* and of the webhooks fail.  There is one object of each policy; what the *)
(* correlator makes of the events is the subject of Correlator.            *)
(*                                                                         *)
(* The SecurityPolicy reconcile is cut at its calls, for pods change while *)
(* it lists one namespace after the other.  The other two are one action   *)
(* for each part that changes something.                                   *)
(***************************************************************************)
EXTENDS PodRules, Notifier, AnomalyDetector, SequencesExt

CONSTANTS
  Scenarios,     \* how the cluster may start: [pods, exists, spec, channels, faults,
                 \* changes], exists being false if there is no SecurityPolicy
  Specs,         \* the specs that users give the SecurityPolicy
  Namespaces,    \* all namespaces, in the order of their list
  ChannelNames,  \* the names of channels
  Secrets,       \* what users do to secrets: their URL key, "other" or "missing"
  Targets,       \* targetNamespaces of the MonitoringPolicy
  Wanted,        \* its notificationChannels
  MaxRestarts    \* restarts of a container

(* A channel: its spec, whether its secret can be used, and its status.    *)
ChannelState ==
  [type : STRING, filter : DOMAIN severityOrder,
   secret : {"url", "webhook-url", "other", "missing"}, exists : BOOLEAN,
   phase : {"", "Active", "Error"}]

ASSUME PoliciesAssumption ==
  /\ MaxRestarts \in Nat
  /\ Targets \in Seq(ToSet(Targets)) /\ Secrets \subseteq {"url", "webhook-url", "other", "missing"}
  /\ \A s \in Scenarios :
       /\ IsFiniteSet(DOMAIN s.pods) /\ s.faults \in Nat /\ s.spec \in Specs
       /\ \A p \in DOMAIN s.pods : s.pods[p].restarts \in Nat
       /\ s.channels \in [DOMAIN s.channels -> ChannelState]
  /\ \A s \in Specs : s.rules \in Seq(RuleTypes) /\ s.severity \in DOMAIN severityOrder

(* No scanner of pods gives a finding the severity info.                   *)
ASSUME FindingsAssumption ==
  \A s \in Scenarios : \A p \in DOMAIN s.pods, rule \in RuleTypes :
    LET found == Scan(rule, s.pods[p])
    IN IsFiniteSet(found) /\ \A f \in found : f.severity \in DOMAIN severityOrder \ {"info"}

VARIABLES
  pods,       \* the pods: phase, restarts, and what the scanners make of them
  policy,     \* the SecurityPolicy: exists, spec, generation
  secp,       \* its reconcile: pc, the copy it got, and what it has so far
  status,     \* its status: phase, violationCount, observedGeneration
  queued,     \* whether the work queue will call the reconcile (again)
  channels,   \* the NotificationChannels, their secrets and their phases
  alert,      \* what the last notification came to
  ran,        \* history: the pods that ran always, and ever, in this reconcile
  monitor,    \* the MonitoringPolicy: where its reconcile is, and status.phase
  baseline,   \* the detector's baselines, by pod
  learned,    \* the pods whose learning period is over
  anomalies,  \* what the last cycle told the correlator: severities, by pod
  since,      \* history: observations since the restart count last changed
  faults,     \* calls that may still fail
  changes     \* things that users and the cluster may still do

sec == <<policy, secp, status, queued, alert>>
mon == <<monitor, baseline, learned, anomalies>>
budget == <<faults, changes>>
vars == <<pods, sec, channels, ran, mon, since, budget>>

(* resolveTargetPods: the namespaces, as given or all but those excluded,  *)
(* and the selector of a policy.                                           *)
Scope(spec) ==
  IF spec.namespaces # <<>> THEN spec.namespaces
  ELSE SelectSeq(Namespaces, LAMBDA ns : ns \notin spec.exclude)
Selected(spec, pod) == spec.selector = "none" \/ spec.selector \in pod.labels

ASSUME ScopeAssumption == \A s \in Specs : Scope(s) \in Seq(ToSet(Scope(s)))

(* runPolicyScanners on one pod: the findings of each severity, from the   *)
(* most severe on, that the policy wants.                                  *)
Levels == <<"critical", "high", "medium", "low", "info">>
Tally(pod, spec) ==
  [k \in DOMAIN Levels |->
     IF severityOrder[Levels[k]] > severityOrder[spec.severity] THEN 0
     ELSE Cardinality(UNION {{<<i, f>> : f \in {g \in Scan(spec.rules[i], pod) : g.severity = Levels[k]}} :
                               i \in DOMAIN spec.rules})]

(* The spec of a pod does not change: it is kept as its tally under every  *)
(* policy.  For the properties it has the number that it should add to the *)
(* count of each policy, and the rules that it is hardened for.            *)
WeightUnder(pod, spec) ==
  IF ~Selected(spec, pod) THEN 0
  ELSE Cardinality({j \in DOMAIN Scope(spec) : Scope(spec)[j] = pod.namespace})
       * Cardinality(UNION {{<<i, f>> : f \in
             {g \in Scan(spec.rules[i], pod) :
                severityOrder[g.severity] <= severityOrder[spec.severity]}} :
           i \in DOMAIN spec.rules})
Judged(pod) ==
  [namespace |-> pod.namespace, labels |-> pod.labels, phase |-> pod.phase,
   restarts |-> pod.restarts,
   tally |-> [spec \in Specs |-> Tally(pod, spec)],
   weight |-> [spec \in Specs |-> WeightUnder(pod, spec)],
   hard |-> {rule \in RuleTypes : Hardened(rule, pod)}]

Running == {p \in DOMAIN pods : pods[p].phase = "Running"}
Idle == [pc |-> "idle", spec |-> <<>>, generation |-> 0, todo |-> <<>>, pods |-> <<>>,
         findings |-> <<>>]
NoAlert == [delivered |-> {}, failed |-> {}, listed |-> TRUE]

Init ==
  \E s \in Scenarios :
    /\ pods = [p \in DOMAIN s.pods |-> Judged(s.pods[p])]
    /\ channels = s.channels /\ changes = s.changes /\ faults = s.faults
    /\ policy = [exists |-> s.exists, spec |-> s.spec, generation |-> 1]
    /\ secp = Idle /\ status = [phase |-> "", count |-> 0, generation |-> 0]
    /\ queued = TRUE /\ alert = NoAlert
    /\ ran = [always |-> {}, ever |-> {}]
    /\ monitor = [pc |-> "idle", phase |-> ""]
    /\ baseline = [p \in DOMAIN s.pods |-> NoBaseline]
    /\ learned = {} /\ anomalies = <<>> /\ since = [p \in DOMAIN s.pods |-> MaxValues]

Fault == faults > 0 /\ faults' = faults - 1
FaultIf(condition) == IF condition THEN Fault ELSE UNCHANGED faults
-----------------------------------------------------------------------------
(* SecurityPolicyReconciler.Reconcile.                                     *)
Goto(pc) == secp' = [secp EXCEPT !.pc = pc]

(* A deleted policy is not queued again.                                   *)
GetPolicy ==
  /\ secp.pc = "idle" /\ queued
  /\ \/ /\ policy.exists
        /\ secp' = [Idle EXCEPT !.pc = "scope", !.spec = policy.spec,
                                !.generation = policy.generation]
        /\ ran' = [always |-> Running, ever |-> Running]
        /\ queued' = FALSE /\ UNCHANGED faults
     \/ ~policy.exists /\ queued' = FALSE /\ UNCHANGED <<secp, ran, faults>>
     \/ Fault /\ UNCHANGED <<queued, secp, ran>>
  /\ UNCHANGED <<pods, policy, status, channels, alert, mon, since, changes>>

(* resolveTargetPods begins with the namespaces and the selector ...       *)
ResolveScope ==
  /\ secp.pc = "scope"
  /\ \/ /\ secp.spec.selector # "invalid"
        /\ secp' = [secp EXCEPT !.pc = "pods", !.todo = Scope(secp.spec)]
        /\ UNCHANGED faults
     \/ secp.spec.selector = "invalid" /\ Goto("failed") /\ UNCHANGED faults
     \/ secp.spec.namespaces = <<>> /\ Fault /\ Goto("failed")
  /\ UNCHANGED <<pods, policy, status, queued, channels, alert, ran, mon, since, changes>>

(* Mutant: pods are taken in whatever phase they are.                      *)
ListPodsAnyPhase ==
  /\ secp.pc = "pods" /\ secp.todo # <<>>
  /\ LET listed == {p \in DOMAIN pods : /\ pods[p].namespace = Head(secp.todo)
                                        /\ Selected(secp.spec, pods[p])}
     IN secp' = [secp EXCEPT !.todo = Tail(@), !.pods = @ \o SetToSeq(listed)]
  /\ UNCHANGED <<pods, policy, status, queued, channels, alert, ran, mon, since, budget>>

(* ... and goes on with the running pods of one namespace after the other. *)
ListPods ==
  /\ secp.pc = "pods" /\ secp.todo # <<>>
  /\ \/ LET listed == {p \in Running : /\ pods[p].namespace = Head(secp.todo)
                                       /\ Selected(secp.spec, pods[p])}
        IN /\ secp' = [secp EXCEPT !.todo = Tail(@), !.pods = @ \o SetToSeq(listed)]
           /\ UNCHANGED faults
     \/ Fault /\ Goto("failed")
  /\ UNCHANGED <<pods, policy, status, queued, channels, alert, ran, mon, since, changes>>

FoundIn(names, spec) ==
  [k \in DOMAIN Levels |->
     MapThenSumSet(LAMBDA j : pods[names[j]].tally[spec][k], DOMAIN names)]

(* Mutant: the findings are sorted the other way round.                    *)
FirstIsMildest(found) == Levels[Max({k \in DOMAIN found : found[k] > 0})]

(* The findings are sorted by severity; this is the first one's.           *)
First(found) == Levels[Min({k \in DOMAIN found : found[k] > 0})]

(* runPolicyScanners: the findings are all handed to the correlator, and   *)
(* notified of if there are any.                                           *)
Evaluate ==
  /\ secp.pc = "pods" /\ secp.todo = <<>>
  /\ LET found == FoundIn(secp.pods, secp.spec)
         any == \E k \in DOMAIN Levels : found[k] > 0
     IN secp' = [secp EXCEPT !.findings = found, !.pc = IF any THEN "notify" ELSE "status"]
  /\ UNCHANGED <<pods, policy, status, queued, channels, alert, ran, mon, since, budget>>

Count(found) == MapThenSumSet(LAMBDA k : found[k], DOMAIN Levels)

(* sendNotifications: of all channels of the cluster, those of type slack  *)
(* whose secret can be read and has a URL under one of two keys.  Every    *)
(* reconcile has a Notifier of its own.  No failure outlives the step.     *)
HasURL(ch) == channels[ch].secret \in {"url", "webhook-url"}
SendNotifications ==
  LET slack == {ch \in DOMAIN channels : channels[ch].exists /\ channels[ch].type = "slack"}
      notif == [severity |-> First(secp.findings), key |-> Count(secp.findings)]
  IN /\ secp.pc = "notify" /\ Goto("status")
     /\ \/ \E unread \in SUBSET slack :
             LET ready == {ch \in slack \ unread : HasURL(ch)}
                 to == Recipients(New([ch \in ready |-> channels[ch].filter]), notif)
             IN \E lost \in SUBSET to :
                  /\ FaultIf(unread \cup lost # {})
                  /\ alert' = [delivered |-> to \ lost, failed |-> unread \cup lost, listed |-> TRUE]
        \/ Fault /\ alert' = [NoAlert EXCEPT !.listed = FALSE]
     /\ UNCHANGED <<pods, policy, status, queued, channels, ran, mon, since, changes>>

(* Status().Update fails if the object is not the one that was read.  Then *)
(* the reconcile is retried; else it is called again after the interval,   *)
(* or at once, for the write is an event of the policy itself.             *)
Current == policy.exists /\ policy.generation = secp.generation
UpdateStatus(written) ==
  /\ secp' = Idle /\ alert' = NoAlert /\ ran' = [always |-> {}, ever |-> {}]
  /\ queued' = TRUE
  /\ \/ Current /\ status' = written /\ UNCHANGED faults
     \/ FaultIf(Current) /\ UNCHANGED status
  /\ UNCHANGED <<pods, policy, channels, mon, since, changes>>

(* updatePolicyStatus.  No scanner fails, so the policy is Active.         *)
UpdatePolicyStatus ==
  /\ secp.pc = "status"
  /\ UpdateStatus([phase |-> "Active", count |-> Count(secp.findings),
                   generation |-> secp.generation])

(* Mutant: the reconcile ends without a status, and without a requeue.     *)
ResolutionErrorDropped ==
  /\ secp.pc = "failed" /\ secp' = Idle
  /\ UNCHANGED <<pods, policy, status, queued, channels, alert, ran, mon, since, budget>>

(* handlePodResolutionError keeps the count of the evaluation before.      *)
HandlePodResolutionError ==
  /\ secp.pc = "failed"
  /\ UpdateStatus([status EXCEPT !.phase = "Error", !.generation = secp.generation])
-----------------------------------------------------------------------------
(* NotificationChannelReconciler.Reconcile: the secret decides.            *)
ReconcileChannel(ch) ==
  /\ channels[ch].exists
  /\ \/ /\ channels' = [channels EXCEPT ![ch].phase =
                          IF channels[ch].secret = "missing" THEN "Error" ELSE "Active"]
        /\ UNCHANGED faults
     \/ Fault /\ UNCHANGED channels
  /\ UNCHANGED <<pods, sec, ran, mon, since, changes>>
-----------------------------------------------------------------------------
(* MonitoringPolicyReconciler.Reconcile.  A missing channel is written as  *)
(* phase Degraded, which the enumeration of the API type does not have:    *)
(* the API server turns the whole write down and the reconcile is retried. *)
MonitoringPhases == {"Pending", "Active", "Error"}
WritePhase(phase) == IF phase \in MonitoringPhases THEN phase ELSE monitor.phase
CheckChannels ==
  /\ monitor.pc = "idle"
  /\ \/ /\ \A ch \in Wanted : channels[ch].exists
        /\ monitor' = [monitor EXCEPT !.pc = "observe"] /\ UNCHANGED faults
     \/ /\ \E ch \in Wanted : ~channels[ch].exists
        /\ monitor' = [monitor EXCEPT !.phase = WritePhase("Degraded")] /\ UNCHANGED faults
     \/ Fault /\ UNCHANGED monitor
  /\ UNCHANGED <<pods, sec, channels, ran, baseline, learned, anomalies, since, changes>>

(* observePodMetrics: the restart count of the container of every running  *)
(* pod, as often as its namespace is listed, and each time judged.         *)
ObservePodMetrics ==
  /\ monitor.pc = "observe" /\ monitor' = [monitor EXCEPT !.pc = "status"]
  /\ \E skipped \in SUBSET ToSet(Targets) :
       LET times(p) == IF p \in Running /\ pods[p].namespace \notin skipped
                       THEN Cardinality({i \in DOMAIN Targets : Targets[i] = pods[p].namespace})
                       ELSE 0
           seen == {p \in DOMAIN pods : times(p) > 0}
           after(p, i) == Extend(baseline[p], pods[p].restarts, i)
           verdict(p, i) == Judge(after(p, i), pods[p].restarts, p \notin learned)
           verdicts(p) == {verdict(p, i) : i \in 1 .. times(p)} \ {"none"}
       IN /\ FaultIf(skipped # {})
          /\ baseline' = [p \in DOMAIN pods |-> after(p, times(p))]
          /\ anomalies' = [p \in {q \in seen : verdicts(q) # {}} |-> verdicts(p)]
          /\ since' = [p \in DOMAIN pods |->
               IF since[p] + times(p) > MaxValues THEN MaxValues ELSE since[p] + times(p)]
  /\ UNCHANGED <<pods, sec, channels, ran, learned, changes>>

WriteMonitoring ==
  /\ monitor.pc = "status"
  /\ \/ monitor' = [pc |-> "idle", phase |-> WritePhase("Active")] /\ UNCHANGED faults
     \/ Fault /\ monitor' = [monitor EXCEPT !.pc = "idle"]
  /\ anomalies' = <<>>
  /\ UNCHANGED <<pods, sec, channels, ran, baseline, learned, since, changes>>

(* The learning period of a baseline ends.                                 *)
LearningEnds ==
  /\ \E p \in DOMAIN pods \ learned :
       baseline[p].count > 0 /\ learned' = learned \cup {p}
  /\ UNCHANGED <<pods, sec, channels, ran, monitor, baseline, anomalies, since, budget>>
-----------------------------------------------------------------------------
(* What users and the cluster do.                                          *)
Change == changes > 0 /\ changes' = changes - 1

(* A pod that starts again is the same one, or another of its name, whose  *)
(* restarts count from zero.                                               *)
PodChanges ==
  /\ Change
  /\ \E p \in DOMAIN pods :
       \/ /\ p \in Running
          /\ pods' = [pods EXCEPT ![p].phase = "Succeeded"]
          /\ ran' = [ran EXCEPT !.always = @ \ {p}] /\ UNCHANGED since
       \/ /\ p \notin Running
          /\ \E r \in {pods[p].restarts, 0} :
               /\ pods' = [pods EXCEPT ![p].phase = "Running", ![p].restarts = r]
               /\ since' = [since EXCEPT ![p] = IF r = pods[p].restarts THEN @ ELSE 0]
          /\ ran' = [ran EXCEPT !.ever = @ \cup {p}]
       \/ /\ p \in Running /\ pods[p].restarts < MaxRestarts
          /\ pods' = [pods EXCEPT ![p].restarts = @ + 1]
          /\ since' = [since EXCEPT ![p] = 0] /\ UNCHANGED ran
  /\ UNCHANGED <<sec, channels, mon, faults>>

PolicyChanges ==
  /\ Change /\ policy.exists
  /\ \/ \E s \in Specs \ {policy.spec} :
          policy' = [policy EXCEPT !.spec = s, !.generation = @ + 1]
     \/ policy' = [policy EXCEPT !.exists = FALSE]
  /\ queued' = TRUE
  /\ UNCHANGED <<pods, secp, status, channels, alert, ran, mon, since, faults>>

ChannelChanges ==
  /\ Change
  /\ \E ch \in DOMAIN channels :
       \/ \E s \in Secrets \ {channels[ch].secret} :
            channels[ch].exists /\ channels' = [channels EXCEPT ![ch].secret = s]
       \/ channels' = [channels EXCEPT ![ch].exists = ~@, ![ch].phase = ""]
  /\ UNCHANGED <<pods, sec, ran, mon, since, faults>>
-----------------------------------------------------------------------------
SecurityPolicyStep ==
  GetPolicy \/ ResolveScope \/ ListPods \/ Evaluate \/ SendNotifications
  \/ UpdatePolicyStatus \/ HandlePodResolutionError
MonitoringStep == CheckChannels \/ ObservePodMetrics \/ WriteMonitoring
ReconcileChannels == \E ch \in DOMAIN channels : ReconcileChannel(ch)

Next ==
  \/ SecurityPolicyStep \/ MonitoringStep \/ ReconcileChannels
  \/ LearningEnds \/ PodChanges \/ PolicyChanges \/ ChannelChanges

(* The work queues call every reconcile again: after an error, after a     *)
(* timer, or after an event.                                               *)
Spec ==
  /\ Init /\ [][Next]_vars
  /\ WF_vars(SecurityPolicyStep) /\ WF_vars(MonitoringStep)
  /\ \A ch \in ChannelNames : WF_vars(ch \in DOMAIN channels /\ ReconcileChannel(ch))
-----------------------------------------------------------------------------
Weight(spec, names) == MapThenSumSet(LAMBDA p : pods[p].weight[spec], names)
InScope(spec, p) == pods[p].namespace \in ToSet(Scope(spec)) /\ Selected(spec, pods[p])

(* However pods come and go while the namespaces are listed, and whoever   *)
(* edits the policy meanwhile, a violationCount that is written counts     *)
(* every finding, under the spec of the observedGeneration, of the pods    *)
(* that ran throughout, and none of a pod that never ran.  A count of zero *)
(* at severity low means that the pods are hardened, for every rule of the *)
(* policy.                                                                 *)
CountIsHonest ==
  [][secp.pc = "status" /\ secp'.pc = "idle" /\ (status' # status \/ (Current /\ faults' = faults)) =>
       /\ status'.generation = policy.generation
       /\ Weight(policy.spec, ran.always) <= status'.count
       /\ status'.count <= Weight(policy.spec, ran.ever)
       /\ status'.count = 0 /\ policy.spec.severity \in {"low", "info"} =>
            \A p \in ran.always, rule \in ToSet(policy.spec.rules) :
              InScope(policy.spec, p) => rule \in pods[p].hard]_vars

(* The two orders of severities agree with the filters: a slack channel    *)
(* with a URL hears of the violations if its filter lets one of them pass, *)
(* and not otherwise, unless a call failed and that is logged.             *)
AlertsReachChannels ==
  [][secp.pc = "notify" /\ secp'.pc = "status" =>
       \A ch \in DOMAIN channels :
         LET due == /\ channels[ch].exists /\ channels[ch].type = "slack" /\ HasURL(ch)
                    /\ \E k \in DOMAIN Levels :
                         /\ secp.findings[k] > 0
                         /\ severityOrder[Levels[k]] <= severityOrder[channels[ch].filter]
         IN /\ due => ch \in alert'.delivered \cup alert'.failed \/ ~alert'.listed
            /\ ch \in alert'.delivered => due]_vars

(* An anomaly is reported only of a container whose restart count changed, *)
(* and was observed fewer than MaxValues - 1 times between then and this   *)
(* cycle: a count that stays as it is becomes the new normal, and one that *)
(* always was, is.                                                         *)
AnomaliesAreReal ==
  [][monitor.pc = "observe" /\ monitor'.pc = "status" =>
       \A p \in DOMAIN anomalies' : since[p] < MaxValues - 1]_vars

(* Once nobody changes anything and calls succeed, the status of the       *)
(* policy is that of the cluster and the phases of the channels are those  *)
(* of their secrets, for good: no failed call or lost race is the last.    *)
Settled ==
  /\ policy.exists =>
       /\ status.generation = policy.generation
       /\ IF policy.spec.selector = "invalid" THEN status.phase = "Error"
          ELSE status.phase = "Active" /\ status.count = Weight(policy.spec, Running)
  /\ \A ch \in DOMAIN channels : channels[ch].exists =>
       channels[ch].phase = IF channels[ch].secret = "missing" THEN "Error" ELSE "Active"
Settles == <>[]Settled
=============================================================================
