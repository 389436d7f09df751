------------------------------ MODULE PodRules -------------------------------
(***************************************************************************)
(* The eight scanners of internal/scanner, each a set of checks on a pod   *)
(* and its containers.  They read nothing but the pods they are given and  *)
(* never fail.                                                             *)
(*                                                                         *)
(* An optional Boolean of the pod spec is "nil", "true" or "false".  A     *)
(* container without a security context has context = FALSE, and "nil" in  *)
(* the fields of that context.                                             *)
(***************************************************************************)
EXTENDS Integers, Sequences, FiniteSets, TLC

severityOrder == [critical |-> 0, high |-> 1, medium |-> 2, low |-> 3, info |-> 4]

Check(flagged, severity, what) ==
  IF flagged THEN {[severity |-> severity, what |-> <<what>>]} ELSE {}

(* Each finding names the container, volume or the like that it is about.  *)
At(checks, place) == {[k EXCEPT !.what = Append(@, place)] : k \in checks}
AllContainers(pod) == DOMAIN pod.containers
Containers(pod) == {c \in DOMAIN pod.containers : ~pod.containers[c].init}
PerContainer(pod, names, Checks(_)) ==
  UNION {At(Checks(pod.containers[c]), c) : c \in names}

isSystemNamespace(ns) == ns \in {"kube-system", "kube-public", "kube-node-lease", "zelyo-system"}
-----------------------------------------------------------------------------
(* The pod's runAsNonRoot makes up for the container's.                    *)
ContainerSecurityContext(pod) == PerContainer(pod, AllContainers(pod), LAMBDA c :
  IF ~c.context THEN Check(TRUE, "high", "no security context")
  ELSE Check(c.privileged = "true", "critical", "privileged")
       \cup Check(c.nonRoot # "true" /\ pod.nonRoot # "true", "medium", "may run as root")
       \cup Check(c.readOnly # "true", "low", "writable root filesystem")
       \cup Check(c.escalation # "false", "medium", "privilege escalation"))

ResourceLimits(pod) == PerContainer(pod, Containers(pod), LAMBDA c :
  Check("cpu" \notin c.requests, "medium", "no CPU request")
  \cup Check("memory" \notin c.requests, "medium", "no memory request")
  \cup Check("cpu" \notin c.limits, "high", "no CPU limit")
  \cup Check("memory" \notin c.limits, "high", "no memory limit"))

(* An image has a digest, a tag, both or neither.                          *)
isDigestPinned(image) == image.digest
isLatestTag(image) == ~image.digest /\ image.tag \in {"none", "latest"}
ImagePinning(pod) == PerContainer(pod, AllContainers(pod), LAMBDA c :
  Check(isLatestTag(c.image), "high", "latest tag")
  \cup Check(~isDigestPinned(c.image), "medium", "no digest"))

checkHostNamespaces(pod) ==
  Check("network" \in pod.host, "critical", "host network")
  \cup Check("pid" \in pod.host, "critical", "host PID namespace")
  \cup Check("ipc" \in pod.host, "high", "host IPC namespace")

(* hostPath volumes.  The paths are compared as strings: /etcd starts with *)
(* /etc, and the root of the file system with none of the prefixes.        *)
SensitivePaths == {"/var/run/docker.sock", "/etc", "/etcd", "/root"}
checkHostPaths(pod) ==
  UNION {At(Check(TRUE, IF path \in SensitivePaths THEN "critical" ELSE "high", "host path"), path) :
           path \in pod.hostPaths}

dangerousCapabilities == {"SYS_ADMIN", "NET_RAW", "SYS_PTRACE", "SYS_MODULE", "DAC_OVERRIDE"}
checkCapabilities(pod) == PerContainer(pod, AllContainers(pod), LAMBDA c :
  UNION {At(Check(TRUE, "high", "capability"), added) : added \in c.adds \cap dangerousCapabilities})

checkProcessSharing(pod) == Check(pod.shareProcess = "true", "medium", "shared process namespace")

PodSecurity(pod) ==
  checkHostNamespaces(pod) \cup checkHostPaths(pod) \cup checkCapabilities(pod)
  \cup checkProcessSharing(pod)

(* Mutant: a token that is mounted by default is not noticed.              *)
EscalationIfAsked(pod) ==
  Check(pod.automount = "true", "medium", "service account token mounted")
  \cup Check(pod.rootUser, "critical", "pod runs as root")
  \cup Check(pod.rootGroup, "medium", "pod runs as root group")
checkPodEscalation(pod) ==
  Check(pod.automount # "false", "medium", "service account token mounted")
  \cup Check(pod.rootUser, "critical", "pod runs as root")
  \cup Check(pod.rootGroup, "medium", "pod runs as root group")
checkContainerEscalation(pod) == PerContainer(pod, Containers(pod), LAMBDA c :
  Check(c.rootUser, "critical", "runs as root")
  \cup Check(c.unmasked, "critical", "unmasked /proc"))
PrivilegeEscalation(pod) == checkPodEscalation(pod) \cup checkContainerEscalation(pod)

(* A variable: whether its name has one of the keywords, and what it holds *)
(* (a value, nothing, the key of a secret, another reference).             *)
SecretsExposure(pod) == PerContainer(pod, AllContainers(pod), LAMBDA c :
  UNION {At(Check(TRUE, "medium", "whole secret"), s) : s \in c.envFrom}
  \cup UNION {At(Check(v.holds = "value", "critical", "hardcoded secret")
                 \cup Check(v.holds = "secretKey", "low", "secret in variable"), v) :
                v \in {w \in c.env : w.sensitive}})

NetworkPolicy(pod) ==
  IF isSystemNamespace(pod.namespace) THEN {}
  ELSE Check(pod.labels = {}, "medium", "no labels")
       \cup PerContainer(pod, Containers(pod), LAMBDA c :
              UNION {At(Check(TRUE, "high", "host port"), port) : port \in c.hostPorts})

(* Names with one of the four patterns in them.                            *)
DangerousNames == {"admin", "cluster-admin", "chroot"}
RBACAudit(pod) ==
  LET saName == IF pod.account = "" THEN "default" ELSE pod.account IN
  IF isSystemNamespace(pod.namespace) THEN {}
  ELSE Check(saName = "default", "medium", "default service account")
       \cup Check(saName \in DangerousNames, "high", "powerful service account")
       \cup Check(pod.oldAccount # "" /\ pod.oldAccount # saName, "low", "deprecated field")
-----------------------------------------------------------------------------
(* DefaultRegistry and the rule types of the scanners.                     *)
RuleTypes == {"container-security-context", "resource-limits", "image-vulnerability",
              "pod-security", "privilege-escalation", "secrets-exposure", "network-policy",
              "rbac-audit"}
Scan(rule, pod) ==
  CASE rule = "container-security-context" -> ContainerSecurityContext(pod)
    [] rule = "resource-limits" -> ResourceLimits(pod)
    [] rule = "image-vulnerability" -> ImagePinning(pod)
    [] rule = "pod-security" -> PodSecurity(pod)
    [] rule = "privilege-escalation" -> PrivilegeEscalation(pod)
    [] rule = "secrets-exposure" -> SecretsExposure(pod)
    [] rule = "network-policy" -> NetworkPolicy(pod)
    [] rule = "rbac-audit" -> RBACAudit(pod)
-----------------------------------------------------------------------------
(* The reference that the checks are compared with: what a hardened pod    *)
(* looks like to each rule, field by field.                                *)
HardContainer ==
  "container-security-context" :>
    [context |-> {TRUE}, privileged |-> {"nil", "false"}, readOnly |-> {"true"},
     escalation |-> {"false"}]
  @@ "resource-limits" :> [requests |-> {{"cpu", "memory"}}, limits |-> {{"cpu", "memory"}}]
  @@ "image-vulnerability" :> [image |-> [tag : {"none", "latest", "v1"}, digest : {TRUE}]]
  @@ "pod-security" :> [adds |-> {{}, {"NET_BIND_SERVICE"}}]
  @@ "privilege-escalation" :> [rootUser |-> {FALSE}, unmasked |-> {FALSE}]
  @@ "secrets-exposure" :>
    [envFrom |-> {{}},
     env |-> {{}} \cup {{v} : v \in [sensitive : {FALSE}, holds : {"value", "nothing", "secretKey", "field"}]
                                    \cup [sensitive : {TRUE}, holds : {"nothing", "field"}]}]
  @@ "network-policy" :> [hostPorts |-> {{}}]
  @@ "rbac-audit" :> <<>>
HardPod ==
  "pod-security" :> [host |-> {{}}, hostPaths |-> {{}}, shareProcess |-> {"nil", "false"}]
  @@ "privilege-escalation" :>
    [automount |-> {"false"}, rootUser |-> {FALSE}, rootGroup |-> {FALSE}]
  @@ "network-policy" :> [labels |-> {{"app"}}]
  @@ "rbac-audit" :> [account |-> {"app"}, oldAccount |-> {"", "app"}]
  @@ [rule \in RuleTypes |-> <<>>]

(* Three rules do not look at init containers, two not at system pods.     *)
BlindToInit == {"resource-limits", "privilege-escalation", "network-policy"}
BlindToSystem == {"network-policy", "rbac-audit"}
Fits(x, hard) == \A field \in DOMAIN hard : x[field] \in hard[field]
Hardened(rule, pod) ==
  \/ rule \in BlindToSystem /\ isSystemNamespace(pod.namespace)
  \/ /\ Fits(pod, HardPod[rule])
     /\ \A c \in AllContainers(pod) :
          \/ pod.containers[c].init /\ rule \in BlindToInit
          \/ /\ Fits(pod.containers[c], HardContainer[rule])
             /\ \/ rule # "container-security-context" \/ pod.nonRoot = "true"
                \/ pod.containers[c].nonRoot = "true"
=============================================================================
