----------------------------- MODULE MCPolicies ------------------------------
EXTENDS Policies

Container == [init |-> FALSE, context |-> TRUE, privileged |-> "nil", nonRoot |-> "true",
  readOnly |-> "true", escalation |-> "false", rootUser |-> FALSE, unmasked |-> FALSE,
  adds |-> {}, image |-> [tag |-> "v1", digest |-> TRUE], requests |-> {"cpu", "memory"},
  limits |-> {"cpu", "memory"}, hostPorts |-> {}, env |-> {}, envFrom |-> {}]
Pod == [namespace |-> "a", phase |-> "Running", restarts |-> 0, labels |-> {"app"},
  host |-> {}, hostPaths |-> {}, shareProcess |-> "nil", automount |-> "false",
  rootUser |-> FALSE, rootGroup |-> FALSE, nonRoot |-> "nil", account |-> "app",
  oldAccount |-> "app",
  containers |-> [main |-> Container, setup |-> [Container EXCEPT !.init = TRUE]]]

Flags == {"nil", "true", "false"}
ContainerValues == [context |-> BOOLEAN, privileged |-> Flags, nonRoot |-> Flags,
  readOnly |-> Flags, escalation |-> Flags, rootUser |-> BOOLEAN, unmasked |-> BOOLEAN,
  adds |-> {{"NET_BIND_SERVICE"}, {"SYS_ADMIN", "NET_RAW"}},
  image |-> [tag : {"none", "latest", "v1"}, digest : BOOLEAN],
  requests |-> SUBSET {"cpu", "memory"}, limits |-> SUBSET {"cpu", "memory"},
  hostPorts |-> {{80}, {80, 443}}, envFrom |-> {{"s"}},
  env |-> {{v} : v \in [sensitive : BOOLEAN, holds : {"value", "nothing", "secretKey", "field"}]}]
PodValues == [labels |-> {{}}, host |-> SUBSET {"network", "pid", "ipc"},
  hostPaths |-> {{"/etcd"}, {"/", "/root"}}, shareProcess |-> Flags, automount |-> Flags,
  rootUser |-> BOOLEAN, rootGroup |-> BOOLEAN, nonRoot |-> Flags,
  account |-> {"", "default", "admin"}, oldAccount |-> {"", "old"},
  namespace |-> {"kube-system"}]

(* The hardened pod with one thing changed, in it or in a container.       *)
Variants ==
  UNION {{[Pod EXCEPT ![f] = v] : v \in PodValues[f]} : f \in DOMAIN PodValues}
  \cup UNION {{[Pod EXCEPT !.containers[c][f] = v] : v \in ContainerValues[f]} :
                c \in {"main", "setup"}, f \in DOMAIN ContainerValues}
  \cup {[Pod EXCEPT !.nonRoot = "true", !.containers.main.nonRoot = v] : v \in Flags}
  \cup {[Pod EXCEPT !.namespace = "kube-system", !.labels = {}, !.account = ""]}

(* A pod with a critical, a high, a medium and a low finding.              *)
Faulty == [Pod EXCEPT !.namespace = "b", !.host = {"network"}, !.automount = "nil",
                      !.containers.main.hostPorts = {80},
                      !.containers.main.readOnly = "false"]

PolicySpec(rules, severity, namespaces, exclude, selector) ==
  [rules |-> rules, severity |-> severity, namespaces |-> namespaces, exclude |-> exclude,
   selector |-> selector]
AllRules == <<"container-security-context", "resource-limits", "image-vulnerability",
  "pod-security", "privilege-escalation", "secrets-exposure", "network-policy", "rbac-audit">>
Everything == PolicySpec(AllRules, "low", <<>>, {}, "none")
Lowest == PolicySpec(<<"network-policy", "pod-security">>, "high", <<"b", "a", "b">>, {}, "app")
MCSpecs == {Lowest,
  PolicySpec(<<"privilege-escalation", "container-security-context">>, "low", <<>>, {"a"}, "none"),
  PolicySpec(<<"pod-security">>, "medium", <<"b">>, {"b"}, "invalid")}

Channel(type, filter, secret) ==
  [type |-> type, filter |-> filter, secret |-> secret, exists |-> TRUE, phase |-> "Active"]
Gone == [Channel("msteams", "info", "url") EXCEPT !.exists = FALSE, !.phase = ""]

(* One pod under all rules; two pods, and changes, under other policies    *)
(* without monitoring; monitoring, without a SecurityPolicy.               *)
Scenario(ps, exists, spec, chs, f, c) ==
  [pods |-> ps, exists |-> exists, spec |-> spec, channels |-> chs, faults |-> f, changes |-> c]
MCScenarios ==
  {Scenario([p1 |-> v], TRUE, Everything, [ops |-> Gone], 0, 0) : v \in Variants}
  \cup {Scenario([p1 |-> [Pod EXCEPT !.automount = "true"], p2 |-> Faulty], TRUE, s,
                 [all |-> Channel("slack", "info", "other"),
                  top |-> Channel("slack", "critical", "webhook-url"), ops |-> Gone],
                 1, IF s.selector = "invalid" THEN 1 ELSE 2) :
          s \in MCSpecs}
  \cup {Scenario([p1 |-> Pod], FALSE, Everything,
                 [ops |-> Channel("msteams", "info", "url")], 1, 3)}

MCSpecsAll == MCSpecs \cup {Everything}
MCNamespaces == <<"a", "b", "kube-system">>
MCTargets == <<"a", "a">>
=============================================================================
