----------------------------- MODULE Correlator -----------------------------
(***************************************************************************)
(* The correlation engine of internal/correlator/engine.go.  Findings of   *)
(* the SecurityPolicy controller and anomalies of the MonitoringPolicy     *)
(* controller are ingested from their own goroutines; the RemediationPolicy *)
(* controller reads the open incidents and resolves them.  Every exported  *)
(* method holds Engine.mu for its whole body (the callback and the         *)
(* dashboard event after the unlock only read copies), so each one is a    *)
(* single action.                                                          *)
(*                                                                         *)
(* Time is a counter of ticks.  An event is identified by its position n   *)
(* in the order of ingestion, which makes the slices of the code sets here *)
(* without losing their order.                                             *)
(***************************************************************************)
EXTENDS Naturals, FiniteSets

CONSTANTS
  Resources,    \* namespace/name pairs
  Policies,     \* SecurityPolicy keys; "none" for events without one
  Messages,     \* finding titles
  Signals,      \* the events the controllers may report, without a timestamp
  Window,       \* Engine.window, in ticks
  PruneFactor,  \* events are kept for this many windows (10 in the code)
  MaxTime,      \* bound on the clock
  MaxEvents     \* bound on the number of events ingested

Severities == {"critical", "high", "medium", "low", "info"}

ASSUME CorrelatorAssumption ==
  /\ Signals \subseteq [resource : Resources, severity : Severities,
                        policy : Policies, message : Messages]
  /\ Window \in Nat \ {0}
  /\ PruneFactor \in Nat \ {0}
  /\ MaxTime \in Nat
  /\ MaxEvents \in Nat

VARIABLES
  now,         \* the wall clock
  ingested,    \* how many events were ingested so far
  events,      \* Engine.events
  incidents    \* Engine.incidents, keyed by 1 .. Engine.incidentSeq

vars == <<now, ingested, events, incidents>>

Event == [n : 1 .. MaxEvents, sig : Signals, ts : 0 .. MaxTime]

Incident == [resource : Resources, severity : Severities,
             events : SUBSET Event,
             createdAt : 0 .. MaxTime, updatedAt : 0 .. MaxTime,
             resolved : BOOLEAN]

incidentSeq == Cardinality(DOMAIN incidents)

severityOrder(s) ==
  IF s = "critical" THEN 5
  ELSE IF s = "high" THEN 4
  ELSE IF s = "medium" THEN 3
  ELSE IF s = "low" THEN 2
  ELSE 1

(* The most severe label among the events, "info" when none ranks higher.  *)
highestSeverity(evs) ==
  CHOOSE s \in Severities :
    /\ s = "info" \/ \E e \in evs : e.sig.severity = s
    /\ \A e \in evs : severityOrder(e.sig.severity) <= severityOrder(s)
-----------------------------------------------------------------------------
(* Mutant: the age of the incident is counted from its creation.           *)
CorrelatesByCreation(event, incident) ==
  /\ event.sig.resource = incident.resource
  /\ now - incident.createdAt < Window

(* Same resource, and the incident was touched less than a window ago.     *)
correlates(event, incident) ==
  /\ event.sig.resource = incident.resource
  /\ now - incident.updatedAt < Window

(* Mutant: resolved incidents are not skipped.                             *)
CorrelatingResolved(event) ==
  {i \in DOMAIN incidents : correlates(event, incidents[i])}

(* The open incidents that Ingest may meet first in its range over the map, *)
(* whose iteration order Go leaves open.                                    *)
Correlating(event) ==
  {i \in DOMAIN incidents :
     ~incidents[i].resolved /\ correlates(event, incidents[i])}

(* Mutant: an event exactly one window old is too old.                     *)
FindRelatedExclusive(evs, event) ==
  {e \in evs : e.ts + Window > now /\ e.sig.resource = event.sig.resource}

(* Mutant: the whole log is searched, without the cutoff.                  *)
FindRelatedNoCutoff(evs, event) ==
  {e \in evs : e.sig.resource = event.sig.resource}

(* Events of the same resource that are not older than a window, whether   *)
(* or not an earlier incident already holds them.                          *)
findRelated(evs, event) ==
  {e \in evs : e.ts + Window >= now /\ e.sig.resource = event.sig.resource}

pruneOldEvents(evs) ==
  {e \in evs : e.ts + PruneFactor * Window > now}

(* Mutant: the severity is not escalated.                                  *)
ExtendedKeepsSeverity(incident, event) ==
  [incident EXCEPT !.events = @ \cup {event}, !.updatedAt = now]

(* The incident as Ingest leaves it after appending the event.             *)
Extended(incident, event) ==
  [incident EXCEPT
     !.events = @ \cup {event},
     !.updatedAt = now,
     !.severity = IF severityOrder(event.sig.severity) > severityOrder(@)
                  THEN event.sig.severity ELSE @]

NewIncident(event, related) ==
  [resource |-> event.sig.resource, severity |-> highestSeverity(related),
   events |-> related, createdAt |-> now, updatedAt |-> now,
   resolved |-> FALSE]
-----------------------------------------------------------------------------
Init ==
  /\ now = 0
  /\ ingested = 0
  /\ events = {}
  /\ incidents = [i \in {} |-> {}]

(* Mutant: the event is stamped with the end of its window.                *)
StampedAhead(sig) == [n |-> ingested + 1, sig |-> sig, ts |-> now + Window]

(* The event Ingest is called with; the callers leave the timestamp zero,  *)
(* so it is stamped with the time of the call.                             *)
Stamped(sig) == [n |-> ingested + 1, sig |-> sig, ts |-> now]

(* What Ingest does to the event log before it looks for an incident.      *)
Record(sig) ==
  /\ ingested < MaxEvents
  /\ ingested' = ingested + 1
  /\ events' = pruneOldEvents(events \cup {Stamped(sig)})
  /\ UNCHANGED now

(* Ingest, the event joins an open incident.                               *)
IngestJoins(sig) ==
  /\ Record(sig)
  /\ \E i \in Correlating(Stamped(sig)) :
       incidents' = [incidents EXCEPT ![i] = Extended(@, Stamped(sig))]

(* Ingest, no open incident matches and another recent event on the same   *)
(* resource makes a new one.                                               *)
IngestForms(sig) ==
  LET event == Stamped(sig)
      related == findRelated(events', event)
      id == incidentSeq + 1
  IN /\ Record(sig)
     /\ Correlating(event) = {}
     /\ \E e1, e2 \in related : e1 # e2        \* len(related) >= 2
     /\ incidents' = [i \in DOMAIN incidents \cup {id} |->
                        IF i = id THEN NewIncident(event, related)
                        ELSE incidents[i]]

(* Ingest, the event is only recorded.                                     *)
IngestAlone(sig) ==
  /\ Record(sig)
  /\ Correlating(Stamped(sig)) = {}
  /\ \A e1, e2 \in findRelated(events', Stamped(sig)) : e1 = e2
  /\ UNCHANGED incidents

Ingest(sig) == IngestJoins(sig) \/ IngestForms(sig) \/ IngestAlone(sig)

(* The RemediationPolicy controller may resolve an incident it read some   *)
(* time ago: by then it can have grown, or be resolved already.            *)
ResolveIncident(id) ==
  /\ incidents' = [incidents EXCEPT ![id].resolved = TRUE,
                                    ![id].updatedAt = now]
  /\ UNCHANGED <<now, ingested, events>>

GetOpenIncidents == {i \in DOMAIN incidents : ~incidents[i].resolved}

Tick ==
  /\ now < MaxTime
  /\ now' = now + 1
  /\ UNCHANGED <<ingested, events, incidents>>

Next ==
  \/ \E sig \in Signals : Ingest(sig)
  \/ \E id \in DOMAIN incidents : ResolveIncident(id)
  \/ Tick

Spec == Init /\ [][Next]_vars
-----------------------------------------------------------------------------
TypeOK ==
  /\ now \in 0 .. MaxTime
  /\ ingested \in 0 .. MaxEvents
  /\ events \subseteq Event
  /\ \E k \in 0 .. ingested : incidents \in [1 .. k -> Incident]

Fresh(i) == ~incidents[i].resolved /\ now - incidents[i].updatedAt < Window

(* Ingest stops at the first open incident its range over the map meets,   *)
(* and Go randomises that order.  The result is still deterministic: no    *)
(* resource ever has two open incidents an event could join.               *)
OneFreshOpenIncident ==
  \A i, j \in DOMAIN incidents :
    Fresh(i) /\ Fresh(j) /\ incidents[i].resource = incidents[j].resource
      => i = j

(* However an incident was formed and grew, its severity is the highest    *)
(* one of its events: the escalation in Ingest and highestSeverity agree.  *)
SeverityIsHighest ==
  \A i \in DOMAIN incidents :
    LET inc == incidents[i]
        ranks == {severityOrder(e.sig.severity) : e \in inc.events}
    IN /\ severityOrder(inc.severity) \in ranks
       /\ \A r \in ranks : r <= severityOrder(inc.severity)

(* No signal pair is missed: of two events on one resource at most a       *)
(* window apart the later one is always part of an incident, also when     *)
(* incidents were resolved or went stale between them.                     *)
NoMissedPair ==
  \A e, f \in events :
    /\ e.n < f.n
    /\ e.sig.resource = f.sig.resource
    /\ f.ts - e.ts <= Window
    => \E i \in DOMAIN incidents : f \in incidents[i].events

(* correlates uses `< window` and findRelated `>= cutoff`, so an event can *)
(* be reported by two open incidents, but only when it lies exactly one    *)
(* window before the later incident was formed.                            *)
SharedOnlyAtWindowEdge ==
  \A i, j \in GetOpenIncidents :
    i < j => \A e \in incidents[i].events \cap incidents[j].events :
               e.ts + Window = incidents[j].createdAt

(* The strengthening that makes the invariants above inductive: nothing is *)
(* stamped in the future, an incident is at least as recent as its events, *)
(* and all of them are about its resource.                                 *)
TimesAreOrdered ==
  /\ \A e \in events : e.ts <= now /\ e.n <= ingested
  /\ \A i \in DOMAIN incidents :
       LET inc == incidents[i] IN
       /\ inc.createdAt <= inc.updatedAt /\ inc.updatedAt <= now
       /\ \A e \in inc.events :
            /\ e.ts <= inc.updatedAt
            /\ e.n <= ingested
            /\ e.sig.resource = inc.resource

IInv ==
  /\ TypeOK
  /\ TimesAreOrdered
  /\ OneFreshOpenIncident
  /\ SeverityIsHighest
  /\ NoMissedPair
  /\ SharedOnlyAtWindowEdge

(* What a consumer sees of an incident.                                    *)
Latest(evs) == CHOOSE e \in evs : \A f \in evs : f.n <= e.n

boardView ==
  [i \in DOMAIN incidents |->
     [resource |-> incidents[i].resource,
      severity |-> incidents[i].severity,
      policies |-> {e.sig.policy : e \in incidents[i].events},
      latest   |-> Latest(incidents[i].events).sig.message,
      resolved |-> incidents[i].resolved]]

Board == INSTANCE IncidentBoard
           WITH board <- boardView, MaxIncidents <- MaxEvents

(* The engine implements the incident board: ids are handed out in order,  *)
(* severity never falls, the policies behind an incident never shrink, and *)
(* a resolved incident neither reopens nor changes, in every interleaving  *)
(* of Ingest with ResolveIncident on incidents read earlier.               *)
RefinesBoard == Board!BoardSpec
=============================================================================
