---------------------------- MODULE IncidentBoard ----------------------------
(***************************************************************************)
(* What the correlation engine promises to the controllers that consume    *)
(* its incidents (internal/correlator, as internal/controller/             *)
(* remediationpolicy_controller.go uses it): a board of numbered incidents. *)
(* An incident appears, may gather more evidence while it is open, and is  *)
(* resolved once; nothing about a resolved incident changes any more.      *)
(* Correlator refines this specification, RemediationPolicy is composed    *)
(* with it.                                                                *)
(***************************************************************************)
EXTENDS Naturals, FiniteSets

CONSTANTS
  Resources,     \* namespace/name pairs of the resources findings are about
  Severities,    \* severity labels
  Policies,      \* (name, namespace) pairs of SecurityPolicies, and "none"
  Messages,      \* finding titles
  MaxIncidents,  \* bound on the number of incidents
  severityOrder(_)

ASSUME BoardAssumption == MaxIncidents \in Nat

VARIABLE board

Ids == 1 .. MaxIncidents

(* What a consumer reads of an incident: correlator.Incident, with its     *)
(* events reduced to the policies that produced them and to the message of *)
(* the latest one.                                                         *)
BoardEntry == [resource : Resources, severity : Severities,
               policies : SUBSET Policies, latest : Messages,
               resolved : BOOLEAN]

Boards == UNION {[1 .. n -> BoardEntry] : n \in 0 .. MaxIncidents}

BoardInit == board = <<>>

(* A new incident, numbered after all the earlier ones.                    *)
Form(resource, severity, policies, latest) ==
  LET n == Cardinality(DOMAIN board) + 1 IN
  /\ n \in Ids
  /\ board' = [i \in DOMAIN board \cup {n} |->
                 IF i = n
                 THEN [resource |-> resource, severity |-> severity,
                       policies |-> policies, latest |-> latest,
                       resolved |-> FALSE]
                 ELSE board[i]]

(* An open incident gathers one more event: its severity never falls and   *)
(* the policies behind it never shrink.                                    *)
Grow(i, severity, policy, latest) ==
  /\ ~board[i].resolved
  /\ severityOrder(severity) >= severityOrder(board[i].severity)
  /\ board' = [board EXCEPT
                 ![i].severity = severity,
                 ![i].policies = @ \cup {policy},
                 ![i].latest = latest]

Resolve(i) ==
  board' = [board EXCEPT ![i].resolved = TRUE]

(* The board may take any of these steps; the arguments are read off the   *)
(* entry it leaves.                                                        *)
BoardNext ==
  \/ LET n == Cardinality(DOMAIN board) + 1
         e == board'[n]
     IN /\ n \in DOMAIN board' /\ e \in BoardEntry
        /\ Form(e.resource, e.severity, e.policies, e.latest)
  \/ \E i \in DOMAIN board \cap DOMAIN board' :
       LET e == board'[i] IN
       /\ e \in BoardEntry
       /\ Resolve(i) \/ \E p \in Policies : Grow(i, e.severity, p, e.latest)

BoardSpec == BoardInit /\ [][BoardNext]_board
=============================================================================
