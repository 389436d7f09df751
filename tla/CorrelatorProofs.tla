-------------------------- MODULE CorrelatorProofs --------------------------
(***************************************************************************)
(* Proofs about Correlator, for every set of signals, every window and     *)
(* every bound.                                                            *)
(***************************************************************************)
EXTENDS Correlator, FiniteSetTheorems, TLAPS

(* The engine numbers incidents 1, 2, 3, ...: incidentSeq is the last one. *)
LEMMA SeqIsLast ==
  ASSUME NEW k \in Nat, DOMAIN incidents = 1 .. k
  PROVE  incidentSeq = k
  BY FS_Interval DEF incidentSeq

(* Severity labels are ranked 1 to 5 and no two labels share a rank.       *)
LEMMA SeverityRanks ==
  /\ \A s \in Severities : severityOrder(s) \in 1 .. 5
  /\ \A s, t \in Severities : severityOrder(s) = severityOrder(t) => s = t
  BY DEF Severities, severityOrder

(* highestSeverity returns a label, ranked no lower than any event of the  *)
(* list and carried by one of them.                                        *)
LEMMA HighestSeverityIsMax ==
  ASSUME NEW S \in SUBSET Event, S # {}
  PROVE  /\ highestSeverity(S) \in Severities
         /\ \E e \in S : severityOrder(e.sig.severity) = severityOrder(highestSeverity(S))
         /\ \A e \in S : severityOrder(e.sig.severity) <= severityOrder(highestSeverity(S))
<1> DEFINE sev(e) == e.sig.severity
           P(s) == /\ s = "info" \/ \E e \in S : sev(e) = s
                   /\ \A e \in S : severityOrder(sev(e)) <= severityOrder(s)
<1>1. \A e \in S : sev(e) \in Severities
  BY CorrelatorAssumption DEF Event
<1>2. \E s \in Severities : P(s)
  <2>1. CASE \E e \in S : sev(e) = "critical"
    BY <2>1, <1>1 DEF Severities, severityOrder
  <2>2. CASE /\ \A e \in S : sev(e) # "critical"
             /\ \E e \in S : sev(e) = "high"
    BY <2>2, <1>1 DEF Severities, severityOrder
  <2>3. CASE /\ \A e \in S : sev(e) \notin {"critical", "high"}
             /\ \E e \in S : sev(e) = "medium"
    BY <2>3, <1>1 DEF Severities, severityOrder
  <2>4. CASE /\ \A e \in S : sev(e) \notin {"critical", "high", "medium"}
             /\ \E e \in S : sev(e) = "low"
    BY <2>4, <1>1 DEF Severities, severityOrder
  <2>5. CASE \A e \in S : sev(e) \notin {"critical", "high", "medium", "low"}
    BY <2>5, <1>1 DEF Severities, severityOrder
  <2> QED  BY <2>1, <2>2, <2>3, <2>4, <2>5
<1> DEFINE h == highestSeverity(S)
<1>3. h \in Severities /\ P(h)
  BY <1>2 DEF highestSeverity
<1>4. \E e \in S : severityOrder(sev(e)) = severityOrder(h)
  <2>1. CASE \E e \in S : sev(e) = h
    BY <2>1
  <2>2. CASE h = "info"
    <3>1. PICK e \in S : TRUE
      OBVIOUS
    <3>2. severityOrder(h) = 1
      BY <2>2 DEF severityOrder
    <3>3. severityOrder(sev(e)) \in 1 .. 5 /\ severityOrder(sev(e)) <= 1
      BY <1>1, <1>3, <3>1, <3>2, SeverityRanks
    <3> QED  BY <3>1, <3>2, <3>3
  <2> QED  BY <1>3, <2>1, <2>2
<1> QED  BY <1>3, <1>4

-----------------------------------------------------------------------------
(* What Ingest changes of the incident an event joins.                     *)
LEMMA ExtendedFields ==
  ASSUME NEW inc \in Incident, NEW e \in Event, now \in 0 .. MaxTime
  PROVE  /\ Extended(inc, e) \in Incident
         /\ Extended(inc, e).resource = inc.resource
         /\ Extended(inc, e).events = inc.events \cup {e}
         /\ Extended(inc, e).createdAt = inc.createdAt
         /\ Extended(inc, e).updatedAt = now
         /\ Extended(inc, e).resolved = inc.resolved
         /\ Extended(inc, e).severity =
              IF severityOrder(e.sig.severity) > severityOrder(inc.severity)
              THEN e.sig.severity ELSE inc.severity
<1> DEFINE s == IF severityOrder(e.sig.severity) > severityOrder(inc.severity)
                THEN e.sig.severity ELSE inc.severity
<1>1. Extended(inc, e) = [inc EXCEPT !.events = inc.events \cup {e}, !.updatedAt = now,
                                     !.severity = s]
  BY Zenon DEF Extended
<1>2. e.sig.severity \in Severities /\ inc.severity \in Severities
  BY CorrelatorAssumption DEF Event, Incident
<1>3. s \in Severities
  BY <1>2
<1> HIDE DEF s
<1>4. Extended(inc, e) \in Incident
  BY <1>1, <1>3 DEF Incident
<1>5. /\ Extended(inc, e).resource = inc.resource
      /\ Extended(inc, e).events = inc.events \cup {e}
      /\ Extended(inc, e).createdAt = inc.createdAt
      /\ Extended(inc, e).updatedAt = now
      /\ Extended(inc, e).severity = s
  BY <1>1 DEF Incident
<1>6. Extended(inc, e).resolved = inc.resolved
  BY <1>1 DEF Incident
<1> QED  BY <1>4, <1>5, <1>6 DEF s

(* Facts about the values one Ingest call handles, used by every case.     *)
LEMMA IngestFacts ==
  ASSUME IInv, NEW sig \in Signals, Record(sig)
  PROVE  /\ Stamped(sig) \in Event
         /\ Stamped(sig) = [n |-> ingested + 1, sig |-> sig, ts |-> now]
         /\ events' \subseteq events \cup {Stamped(sig)}
         /\ Stamped(sig) \in events'
         /\ events' \subseteq Event
         /\ now' = now
         /\ ingested' = ingested + 1
         /\ ingested' \in 0 .. MaxEvents
<1>1. Stamped(sig) \in Event
  BY CorrelatorAssumption DEF IInv, TypeOK, Record, Stamped, Event
<1>2. PruneFactor * Window > 0
  BY CorrelatorAssumption
<1>3. Stamped(sig) \in events'
  BY <1>1, <1>2, CorrelatorAssumption DEF Record, pruneOldEvents, Stamped, IInv, TypeOK
<1> QED
  BY <1>1, <1>3, CorrelatorAssumption DEF Record, pruneOldEvents, Stamped, IInv, TypeOK

(* The initial state satisfies the invariant: nothing has been ingested.   *)
LEMMA InitIInv == Init => IInv
<1> SUFFICES ASSUME Init PROVE IInv
  OBVIOUS
<1> USE DEF Init
<1>1. incidents \in [1 .. 0 -> Incident] /\ DOMAIN incidents = {}
  OBVIOUS
<1>2. TypeOK
  BY <1>1, CorrelatorAssumption DEF TypeOK
<1> QED
  BY <1>1, <1>2 DEF IInv, TimesAreOrdered, OneFreshOpenIncident, SeverityIsHighest,
                    NoMissedPair, SharedOnlyAtWindowEdge, GetOpenIncidents

(* An event that joins an open incident preserves the invariant.           *)
LEMMA JoinsPreserves ==
  ASSUME IInv, NEW sig \in Signals, IngestJoins(sig)
  PROVE  IInv'
<1> DEFINE ev == Stamped(sig)
<1>1. PICK i \in Correlating(ev) :
        incidents' = [incidents EXCEPT ![i] = Extended(@, ev)]
  BY DEF IngestJoins
<1>2. PICK k \in 0 .. ingested : incidents \in [1 .. k -> Incident]
  BY DEF IInv, TypeOK
<1>f. /\ ev \in Event /\ ev = [n |-> ingested + 1, sig |-> sig, ts |-> now]
      /\ events' \subseteq events \cup {ev} /\ ev \in events' /\ events' \subseteq Event
      /\ now' = now /\ ingested' = ingested + 1 /\ ingested' \in 0 .. MaxEvents
  BY IngestFacts DEF IngestJoins
<1> DEFINE old == incidents[i]
           new == incidents'[i]
<1>3. /\ i \in DOMAIN incidents /\ old \in Incident
      /\ ~old.resolved /\ sig.resource = old.resource
      /\ now - old.updatedAt < Window
  BY <1>2, <1>f DEF Correlating, correlates
<1>t. /\ now \in 0 .. MaxTime /\ MaxTime \in Nat /\ Window \in Nat \ {0}
      /\ ingested \in 0 .. MaxEvents /\ MaxEvents \in Nat
      /\ sig.severity \in Severities /\ sig.resource \in Resources
  BY CorrelatorAssumption DEF IInv, TypeOK
<1>4. /\ new = Extended(old, ev) /\ DOMAIN incidents' = DOMAIN incidents
      /\ \A j \in DOMAIN incidents : j # i => incidents'[j] = incidents[j]
  BY <1>1, <1>2, <1>3
<1>5. /\ new.resource = old.resource /\ new.events = old.events \cup {ev}
      /\ new.createdAt = old.createdAt /\ new.updatedAt = now
      /\ new.resolved = FALSE
      /\ new.severity = IF severityOrder(sig.severity) > severityOrder(old.severity)
                        THEN sig.severity ELSE old.severity
      /\ new \in Incident
  <2>1. old.resolved = FALSE
    BY <1>3 DEF Incident
  <2>2. ev.sig.severity = sig.severity
    BY <1>f
  <2> QED  BY <1>3, <1>4, <1>f, <1>t, <2>1, <2>2, ExtendedFields
<1>6. TypeOK'
  <2>1. incidents' \in [1 .. k -> Incident]
    BY <1>1, <1>2, <1>3, <1>4, <1>5
  <2>2. k \in 0 .. ingested'
    BY <1>2, <1>f, <1>t
  <2> QED  BY <1>f, <1>t, <2>1, <2>2 DEF TypeOK
<1>7. TimesAreOrdered'
  <2>1. \A e \in events' : e.ts <= now' /\ e.n <= ingested'
    BY <1>f, <1>t DEF IInv, TimesAreOrdered, TypeOK, Event
  <2>2. /\ new.createdAt <= new.updatedAt /\ new.updatedAt <= now'
        /\ \A e \in new.events : /\ e.ts <= new.updatedAt /\ e.n <= ingested'
                                 /\ e.sig.resource = new.resource
    <3>1. /\ old.createdAt <= old.updatedAt /\ old.updatedAt <= now
          /\ \A e \in old.events : /\ e.ts <= old.updatedAt /\ e.n <= ingested
                                   /\ e.sig.resource = old.resource
      BY <1>3 DEF IInv, TimesAreOrdered
    <3>2. old.createdAt \in Nat /\ old.updatedAt \in Nat /\ now \in Nat /\ old.events \subseteq Event
      BY <1>3, <1>t DEF Incident
    <3>3. \A e \in old.events : e.ts \in Nat /\ e.n \in Nat
      BY <3>2, <1>t DEF Event
    <3> QED  BY <3>1, <3>2, <3>3, <1>3, <1>5, <1>f, <1>t
  <2>3. \A j \in DOMAIN incidents' : j # i =>
          /\ incidents'[j].createdAt <= incidents'[j].updatedAt
          /\ incidents'[j].updatedAt <= now'
          /\ \A e \in incidents'[j].events :
               /\ e.ts <= incidents'[j].updatedAt /\ e.n <= ingested'
               /\ e.sig.resource = incidents'[j].resource
    <3> SUFFICES ASSUME NEW j \in DOMAIN incidents, j # i
                 PROVE  /\ incidents[j].createdAt <= incidents[j].updatedAt
                        /\ incidents[j].updatedAt <= now
                        /\ \A e \in incidents[j].events :
                             /\ e.ts <= incidents[j].updatedAt /\ e.n <= ingested + 1
                             /\ e.sig.resource = incidents[j].resource
      BY <1>4, <1>f
    <3>1. \A e \in incidents[j].events : e.n \in Nat
      BY <1>2, <1>t DEF Incident, Event
    <3> QED  BY <3>1, <1>t DEF IInv, TimesAreOrdered
  <2> QED  BY <2>1, <2>2, <2>3 DEF TimesAreOrdered
<1>8. OneFreshOpenIncident'
  <2> SUFFICES ASSUME NEW a \in DOMAIN incidents, NEW b \in DOMAIN incidents,
                      Fresh(a)', Fresh(b)', incidents'[a].resource = incidents'[b].resource
               PROVE  a = b
    BY <1>4 DEF OneFreshOpenIncident
  <2>1. Fresh(i)
    BY <1>3 DEF Fresh
  <2>2. Fresh(a) /\ Fresh(b)
    BY <2>1, <1>4, <1>f DEF Fresh
  <2>3. incidents[a].resource = incidents[b].resource
    BY <1>4, <1>5
  <2> QED  BY <2>2, <2>3 DEF IInv, OneFreshOpenIncident
<1>9. SeverityIsHighest'
  <2> SUFFICES ASSUME NEW j \in DOMAIN incidents
               PROVE  /\ \E e \in incidents'[j].events :
                           severityOrder(e.sig.severity) = severityOrder(incidents'[j].severity)
                      /\ \A e \in incidents'[j].events :
                           severityOrder(e.sig.severity) <= severityOrder(incidents'[j].severity)
    BY <1>4 DEF SeverityIsHighest
  <2>1. /\ \E e \in incidents[j].events :
             severityOrder(e.sig.severity) = severityOrder(incidents[j].severity)
        /\ \A e \in incidents[j].events :
             severityOrder(e.sig.severity) <= severityOrder(incidents[j].severity)
    BY DEF IInv, SeverityIsHighest
  <2>2. CASE j # i
    BY <2>1, <2>2, <1>4
  <2>3. CASE j = i
    <3>1. /\ severityOrder(sig.severity) \in Nat /\ severityOrder(old.severity) \in Nat
          /\ \A e \in old.events : severityOrder(e.sig.severity) \in Nat
      <4>1. \A e \in old.events : e.sig \in Signals
        BY <1>3 DEF Incident, Event
      <4>2. \A e \in old.events : e.sig.severity \in Severities
        BY <4>1, CorrelatorAssumption
      <4> QED  BY <4>2, <1>3, <1>t, SeverityRanks DEF Incident
    <3> QED  BY <2>1, <2>3, <1>5, <1>f, <3>1
  <2> QED  BY <2>2, <2>3
<1>10. NoMissedPair'
  <2> SUFFICES ASSUME NEW e \in events', NEW f \in events', e.n < f.n,
                      e.sig.resource = f.sig.resource, f.ts - e.ts <= Window
               PROVE  \E j \in DOMAIN incidents' : f \in incidents'[j].events
    BY DEF NoMissedPair
  <2>1. CASE f = ev
    BY <2>1, <1>3, <1>4, <1>5
  <2>2. CASE f # ev
    <3>1. f \in events /\ f.n <= ingested /\ f.n \in Nat
      BY <2>2, <1>f DEF IInv, TimesAreOrdered, Event
    <3>2. e \in events
      BY <3>1, <1>f, <1>t
    <3>3. PICK j \in DOMAIN incidents : f \in incidents[j].events
      BY <3>1, <3>2 DEF IInv, NoMissedPair
    <3> QED  BY <3>3, <1>4, <1>5
  <2> QED  BY <2>1, <2>2
<1>11. SharedOnlyAtWindowEdge'
  <2> SUFFICES ASSUME NEW a \in DOMAIN incidents, NEW b \in DOMAIN incidents,
                      ~incidents'[a].resolved, ~incidents'[b].resolved, a < b,
                      NEW e \in incidents'[a].events \cap incidents'[b].events
               PROVE  e.ts + Window = incidents'[b].createdAt
    BY <1>4 DEF SharedOnlyAtWindowEdge, GetOpenIncidents
  <2>1. ~incidents[a].resolved /\ ~incidents[b].resolved
    BY <1>3, <1>4
  <2>2. incidents'[b].createdAt = incidents[b].createdAt
    BY <1>4, <1>5
  <2>3. \A j \in DOMAIN incidents : ev \notin incidents[j].events
    BY <1>f, <1>t, <1>2 DEF IInv, TimesAreOrdered, Incident, Event
  <2>4. a # b
    BY <1>2
  <2>5. e \in incidents[a].events \cap incidents[b].events
    BY <2>3, <2>4, <1>4, <1>5
  <2> QED  BY <2>1, <2>2, <2>5 DEF IInv, SharedOnlyAtWindowEdge, GetOpenIncidents
<1> QED  BY <1>6, <1>7, <1>8, <1>9, <1>10, <1>11 DEF IInv

(* An event that only goes to the log preserves the invariant: with it, no *)
(* pair of events is left uncovered, since no other event is a window away. *)
LEMMA AlonePreserves ==
  ASSUME IInv, NEW sig \in Signals, IngestAlone(sig)
  PROVE  IInv'
<1> DEFINE ev == Stamped(sig)
<1>f. /\ ev \in Event /\ ev = [n |-> ingested + 1, sig |-> sig, ts |-> now]
      /\ events' \subseteq events \cup {ev} /\ ev \in events' /\ events' \subseteq Event
      /\ now' = now /\ ingested' = ingested + 1 /\ ingested' \in 0 .. MaxEvents
  BY IngestFacts DEF IngestAlone
<1>i. incidents' = incidents
  BY DEF IngestAlone
<1>t. /\ now \in 0 .. MaxTime /\ MaxTime \in Nat /\ Window \in Nat \ {0}
      /\ ingested \in 0 .. MaxEvents /\ MaxEvents \in Nat
  BY CorrelatorAssumption DEF IInv, TypeOK
<1>2. PICK k \in 0 .. ingested : incidents \in [1 .. k -> Incident]
  BY DEF IInv, TypeOK
<1>6. TypeOK'
  <2>1. k \in 0 .. ingested'
    BY <1>2, <1>f, <1>t
  <2> QED  BY <1>2, <1>i, <1>f, <1>t, <2>1 DEF TypeOK
<1>7. TimesAreOrdered'
  <2>1. \A e \in events' : e.ts <= now' /\ e.n <= ingested'
    BY <1>f, <1>t DEF IInv, TimesAreOrdered, TypeOK, Event
  <2>2. ASSUME NEW j \in DOMAIN incidents, NEW e \in incidents[j].events
        PROVE  e.n <= ingested'
    <3>1. e.n \in Nat /\ e.n <= ingested
      BY <1>2 DEF IInv, TimesAreOrdered, Incident, Event
    <3> QED  BY <3>1, <1>f, <1>t
  <2> QED  BY <2>1, <2>2, <1>i, <1>f DEF IInv, TimesAreOrdered
<1>8. OneFreshOpenIncident' /\ SeverityIsHighest' /\ SharedOnlyAtWindowEdge'
  BY <1>i, <1>f DEF IInv, OneFreshOpenIncident, SeverityIsHighest,
                    SharedOnlyAtWindowEdge, GetOpenIncidents, Fresh
<1>10. NoMissedPair'
  <2> SUFFICES ASSUME NEW e \in events', NEW f \in events', e.n < f.n,
                      e.sig.resource = f.sig.resource, f.ts - e.ts <= Window
               PROVE  \E j \in DOMAIN incidents : f \in incidents[j].events
    BY <1>i DEF NoMissedPair
  <2>1. f # ev
    <3> SUFFICES ASSUME f = ev PROVE FALSE
      OBVIOUS
    <3>1. e # ev /\ e.ts \in Nat
      BY <1>f, <1>t DEF Event
    <3>2. {e, ev} \subseteq findRelated(events', ev)
      BY <1>f, <1>t, <3>1 DEF findRelated
    <3> QED  BY <3>1, <3>2 DEF IngestAlone
  <2>2. f \in events /\ f.n <= ingested /\ f.n \in Nat
    BY <2>1, <1>f DEF IInv, TimesAreOrdered, Event
  <2>3. e \in events
    BY <2>2, <1>f, <1>t
  <2> QED  BY <2>2, <2>3 DEF IInv, NoMissedPair
<1> QED  BY <1>6, <1>7, <1>8, <1>10 DEF IInv

(* A new incident preserves the invariant.  It is formed only when no open *)
(* incident on its resource is fresh; an older open one can share an event *)
(* with it only if that event is exactly a window old.                     *)
LEMMA FormsPreserves ==
  ASSUME IInv, NEW sig \in Signals, IngestForms(sig)
  PROVE  IInv'
<1> DEFINE ev == Stamped(sig)
           rel == findRelated(events', ev)
<1>2. PICK k \in 0 .. ingested : incidents \in [1 .. k -> Incident]
  BY DEF IInv, TypeOK
<1> DEFINE id == k + 1
<1>t. /\ now \in 0 .. MaxTime /\ MaxTime \in Nat /\ Window \in Nat \ {0}
      /\ ingested \in 0 .. MaxEvents /\ MaxEvents \in Nat /\ k \in Nat
      /\ sig.severity \in Severities /\ sig.resource \in Resources
  BY <1>2, CorrelatorAssumption DEF IInv, TypeOK
<1>f. /\ ev \in Event /\ ev = [n |-> ingested + 1, sig |-> sig, ts |-> now]
      /\ events' \subseteq events \cup {ev} /\ ev \in events' /\ events' \subseteq Event
      /\ now' = now /\ ingested' = ingested + 1 /\ ingested' \in 0 .. MaxEvents
  BY IngestFacts DEF IngestForms
<1>1. /\ incidents' = [i \in DOMAIN incidents \cup {id} |->
                        IF i = id THEN NewIncident(ev, rel) ELSE incidents[i]]
      /\ Correlating(ev) = {}
  <2>1. incidentSeq = k
    BY <1>2, <1>t, SeqIsLast
  <2> QED  BY <2>1 DEF IngestForms
<1> DEFINE new == NewIncident(ev, rel)
<1>r. /\ rel \subseteq Event /\ ev \in rel
      /\ \A e \in rel : e.ts + Window >= now /\ e.sig.resource = sig.resource
                        /\ e \in events'
  BY <1>f, <1>t DEF findRelated
<1>h. /\ highestSeverity(rel) \in Severities
      /\ \E e \in rel : severityOrder(e.sig.severity) = severityOrder(highestSeverity(rel))
      /\ \A e \in rel : severityOrder(e.sig.severity) <= severityOrder(highestSeverity(rel))
  <2>1. rel \in SUBSET Event /\ rel # {}
    BY <1>r
  <2> HIDE DEF rel
  <2> QED  BY <2>1, HighestSeverityIsMax
<1> HIDE DEF rel
<1>4. /\ id \notin DOMAIN incidents /\ DOMAIN incidents = 1 .. k
      /\ DOMAIN incidents' = DOMAIN incidents \cup {id}
      /\ DOMAIN incidents' = 1 .. id
      /\ incidents'[id] = new
      /\ \A j \in DOMAIN incidents : incidents'[j] = incidents[j]
  BY <1>1, <1>2, <1>t
<1>5. /\ new.resource = sig.resource /\ new.events = rel
      /\ new.createdAt = now /\ new.updatedAt = now /\ new.resolved = FALSE
      /\ new.severity = highestSeverity(rel)
      /\ new \in Incident
  BY <1>f, <1>t, <1>r, <1>h DEF NewIncident, Incident
<1> HIDE DEF new
<1>6. TypeOK'
  <2>1. incidents' \in [1 .. id -> Incident]
    BY <1>1, <1>2, <1>4, <1>5 DEF new
  <2>2. id \in 0 .. ingested'
    BY <1>2, <1>f, <1>t
  <2> QED  BY <1>f, <1>t, <2>1, <2>2 DEF TypeOK
<1>e. \A e \in events' : e.ts <= now /\ e.n <= ingested + 1 /\ e.ts \in Nat
  BY <1>f, <1>t DEF IInv, TimesAreOrdered, TypeOK, Event
<1>7. TimesAreOrdered'
  <2>1. /\ new.createdAt <= new.updatedAt /\ new.updatedAt <= now'
        /\ \A e \in new.events : /\ e.ts <= new.updatedAt /\ e.n <= ingested'
                                 /\ e.sig.resource = new.resource
    BY <1>e, <1>5, <1>r, <1>f, <1>t
  <2>2. ASSUME NEW j \in DOMAIN incidents, NEW e \in incidents[j].events
        PROVE  e.n <= ingested'
    <3>1. e.n \in Nat /\ e.n <= ingested
      BY <1>2 DEF IInv, TimesAreOrdered, Incident, Event
    <3> QED  BY <3>1, <1>f, <1>t
  <2>3. \A j \in DOMAIN incidents :
          LET inc == incidents'[j] IN
          /\ inc.createdAt <= inc.updatedAt /\ inc.updatedAt <= now'
          /\ \A e \in inc.events : /\ e.ts <= inc.updatedAt /\ e.n <= ingested'
                                   /\ e.sig.resource = inc.resource
    BY <2>2, <1>4, <1>f DEF IInv, TimesAreOrdered
  <2> QED  BY <1>e, <1>f, <1>4, <2>1, <2>3 DEF TimesAreOrdered
<1>8. OneFreshOpenIncident'
  <2>1. \A j \in DOMAIN incidents : Fresh(j)' = Fresh(j)
    BY <1>4, <1>f DEF Fresh
  <2>2. \A j \in DOMAIN incidents : Fresh(j) => incidents[j].resource # sig.resource
    BY <1>1, <1>f DEF Fresh, Correlating, correlates
  <2> QED  BY <1>4, <1>5, <2>1, <2>2 DEF IInv, OneFreshOpenIncident
<1>9. SeverityIsHighest'
  <2> SUFFICES ASSUME NEW j \in DOMAIN incidents'
               PROVE  /\ \E e \in incidents'[j].events :
                           severityOrder(e.sig.severity) = severityOrder(incidents'[j].severity)
                      /\ \A e \in incidents'[j].events :
                           severityOrder(e.sig.severity) <= severityOrder(incidents'[j].severity)
    BY DEF SeverityIsHighest
  <2>1. CASE j = id
    BY <2>1, <1>4, <1>5, <1>h
  <2>2. CASE j \in DOMAIN incidents
    <3>1. /\ \E e \in incidents[j].events :
               severityOrder(e.sig.severity) = severityOrder(incidents[j].severity)
          /\ \A e \in incidents[j].events :
               severityOrder(e.sig.severity) <= severityOrder(incidents[j].severity)
      BY <2>2 DEF IInv, SeverityIsHighest
    <3> QED  BY <3>1, <2>2, <1>4
  <2> QED  BY <2>1, <2>2, <1>4
<1>10. NoMissedPair'
  <2> SUFFICES ASSUME NEW e \in events', NEW f \in events', e.n < f.n,
                      e.sig.resource = f.sig.resource, f.ts - e.ts <= Window
               PROVE  \E j \in DOMAIN incidents' : f \in incidents'[j].events
    BY DEF NoMissedPair
  <2>1. CASE f = ev
    BY <2>1, <1>4, <1>5, <1>r
  <2>2. CASE f # ev
    <3>1. f \in events /\ f.n <= ingested /\ f.n \in Nat
      BY <2>2, <1>f DEF IInv, TimesAreOrdered, Event
    <3>2. e \in events
      BY <3>1, <1>f, <1>t
    <3>3. PICK j \in DOMAIN incidents : f \in incidents[j].events
      BY <3>1, <3>2 DEF IInv, NoMissedPair
    <3> QED  BY <3>3, <1>4
  <2> QED  BY <2>1, <2>2
<1>11. SharedOnlyAtWindowEdge'
  <2> SUFFICES ASSUME NEW a \in DOMAIN incidents', NEW b \in DOMAIN incidents',
                      ~incidents'[a].resolved, ~incidents'[b].resolved, a < b,
                      NEW e \in incidents'[a].events \cap incidents'[b].events
               PROVE  e.ts + Window = incidents'[b].createdAt
    BY DEF SharedOnlyAtWindowEdge, GetOpenIncidents
  <2>1. a \in DOMAIN incidents
    BY <1>4, <1>t
  <2>2. CASE b \in DOMAIN incidents
    BY <2>1, <2>2, <1>4 DEF IInv, SharedOnlyAtWindowEdge, GetOpenIncidents
  <2>3. CASE b = id
    <3> DEFINE inc == incidents[a]
    <3>1. e \in rel /\ e \in inc.events /\ ~inc.resolved
      BY <2>1, <2>3, <1>4, <1>5
    <3>2. inc \in Incident /\ inc.resource = sig.resource /\ e.ts <= inc.updatedAt
      BY <2>1, <3>1, <1>2, <1>r DEF IInv, TimesAreOrdered
    <3>3. ~(now - inc.updatedAt < Window)
      BY <2>1, <3>1, <3>2, <1>1, <1>f DEF Correlating, correlates
    <3>4. e.ts + Window >= now /\ e.ts \in Nat /\ inc.updatedAt \in Nat
      BY <3>1, <3>2, <1>r, <1>e, <1>t DEF Incident
    <3>5. e.ts + Window = now
      BY <3>2, <3>3, <3>4, <1>t
    <3>6. incidents'[b].createdAt = now
      BY <2>3, <1>4, <1>5
    <3> QED  BY <3>5, <3>6
  <2> QED  BY <2>2, <2>3, <1>4
<1> QED  BY <1>6, <1>7, <1>8, <1>9, <1>10, <1>11 DEF IInv

(* Resolving an incident, however stale the caller's copy of it, preserves *)
(* the invariant.                                                          *)
LEMMA ResolvePreserves ==
  ASSUME IInv, NEW id \in DOMAIN incidents, ResolveIncident(id)
  PROVE  IInv'
<1>2. PICK k \in 0 .. ingested : incidents \in [1 .. k -> Incident]
  BY DEF IInv, TypeOK
<1>t. /\ now \in 0 .. MaxTime /\ MaxTime \in Nat
      /\ ingested \in 0 .. MaxEvents /\ MaxEvents \in Nat
  BY CorrelatorAssumption DEF IInv, TypeOK
<1>u. now' = now /\ ingested' = ingested /\ events' = events
  BY DEF ResolveIncident
<1> DEFINE old == incidents[id]
           new == incidents'[id]
<1>4. /\ DOMAIN incidents' = DOMAIN incidents
      /\ \A j \in DOMAIN incidents : j # id => incidents'[j] = incidents[j]
      /\ old \in Incident
      /\ new = [old EXCEPT !.resolved = TRUE, !.updatedAt = now]
  BY <1>2 DEF ResolveIncident
<1>5. /\ new \in Incident /\ new.resource = old.resource /\ new.events = old.events
      /\ new.createdAt = old.createdAt /\ new.updatedAt = now
      /\ new.severity = old.severity
  BY <1>4, <1>t DEF Incident
<1>6. new.resolved = TRUE
  BY <1>4 DEF Incident
<1>7. TypeOK'
  <2>1. incidents' \in [1 .. k -> Incident]
    BY <1>2, <1>4, <1>5 DEF ResolveIncident
  <2> QED  BY <1>2, <1>t, <1>u, <2>1 DEF TypeOK, IInv
<1>8. TimesAreOrdered'
  <2>1. /\ old.createdAt <= old.updatedAt /\ old.updatedAt <= now
        /\ \A e \in old.events : /\ e.ts <= old.updatedAt /\ e.n <= ingested
                                 /\ e.sig.resource = old.resource
    BY DEF IInv, TimesAreOrdered
  <2>2. /\ old.createdAt \in Nat /\ old.updatedAt \in Nat
        /\ \A e \in old.events : e.ts \in Nat
    BY <1>4, <1>t DEF Incident, Event
  <2>3. /\ new.createdAt <= new.updatedAt /\ new.updatedAt <= now
        /\ \A e \in new.events : /\ e.ts <= new.updatedAt /\ e.n <= ingested
                                 /\ e.sig.resource = new.resource
    BY <2>1, <2>2, <1>5, <1>t
  <2> QED  BY <2>3, <1>4, <1>u DEF IInv, TimesAreOrdered
<1>9. OneFreshOpenIncident'
  <2>1. \A j \in DOMAIN incidents : Fresh(j)' => Fresh(j) /\ j # id
    BY <1>4, <1>6, <1>u DEF Fresh
  <2> QED  BY <2>1, <1>4 DEF IInv, OneFreshOpenIncident
<1>10. SeverityIsHighest'
  BY <1>4, <1>5 DEF IInv, SeverityIsHighest
<1>11. NoMissedPair'
  BY <1>4, <1>5, <1>u DEF IInv, NoMissedPair
<1>12. SharedOnlyAtWindowEdge'
  <2>1. \A j \in GetOpenIncidents' : j \in GetOpenIncidents /\ incidents'[j] = incidents[j]
    BY <1>4, <1>6 DEF GetOpenIncidents
  <2> QED  BY <2>1 DEF IInv, SharedOnlyAtWindowEdge
<1> QED  BY <1>7, <1>8, <1>9, <1>10, <1>11, <1>12 DEF IInv

(* The passing of time preserves the invariant: it only makes incidents    *)
(* stale.                                                                  *)
LEMMA TickPreserves ==
  ASSUME IInv, Tick
  PROVE  IInv'
<1>t. now \in Nat /\ MaxTime \in Nat /\ Window \in Nat /\ now' = now + 1 /\ now' \in 0 .. MaxTime
  BY CorrelatorAssumption DEF IInv, TypeOK, Tick
<1>u. ingested' = ingested /\ events' = events /\ incidents' = incidents
  BY DEF Tick
<1>2. PICK k \in 0 .. ingested : incidents \in [1 .. k -> Incident]
  BY DEF IInv, TypeOK
<1>3. \A i \in DOMAIN incidents : incidents[i].updatedAt \in Nat /\ incidents[i].updatedAt <= now
  BY <1>2 DEF Incident, IInv, TimesAreOrdered
<1>4. \A e \in events : e.ts \in Nat /\ e.ts <= now
  BY DEF IInv, TypeOK, TimesAreOrdered, Event
<1>5. TypeOK'
  BY <1>t, <1>u DEF IInv, TypeOK
<1>6. TimesAreOrdered'
  BY <1>t, <1>u, <1>3, <1>4 DEF IInv, TimesAreOrdered
<1>7. \A i \in DOMAIN incidents : Fresh(i)' => Fresh(i)
  BY <1>t, <1>u, <1>3 DEF Fresh
<1>8. OneFreshOpenIncident'
  BY <1>7, <1>u DEF IInv, OneFreshOpenIncident
<1>9. SeverityIsHighest' /\ NoMissedPair' /\ SharedOnlyAtWindowEdge'
  BY <1>u DEF IInv, SeverityIsHighest, NoMissedPair, SharedOnlyAtWindowEdge, GetOpenIncidents
<1> QED  BY <1>5, <1>6, <1>8, <1>9 DEF IInv
-----------------------------------------------------------------------------
(* Ingest, ResolveIncident and the clock preserve the inductive invariant. *)
LEMMA NextIInv == IInv /\ [Next]_vars => IInv'
<1> SUFFICES ASSUME IInv, [Next]_vars PROVE IInv'
  OBVIOUS
<1>1. ASSUME NEW sig \in Signals, Ingest(sig) PROVE IInv'
  BY <1>1, JoinsPreserves, FormsPreserves, AlonePreserves DEF Ingest
<1>2. ASSUME NEW id \in DOMAIN incidents, ResolveIncident(id) PROVE IInv'
  BY <1>2, ResolvePreserves
<1>3. CASE Tick
  BY <1>3, TickPreserves
<1>4. CASE UNCHANGED vars
  BY <1>4 DEF vars, IInv, TypeOK, TimesAreOrdered, OneFreshOpenIncident, SeverityIsHighest,
              NoMissedPair, SharedOnlyAtWindowEdge, GetOpenIncidents, Fresh
<1> QED  BY <1>1, <1>2, <1>3, <1>4 DEF Next

(* The inductive invariant holds in every reachable state of the engine.   *)
THEOREM Invariance == Spec => []IInv
  BY InitIInv, NextIInv, PTL DEF Spec

(* Type correctness of the engine's state.                                 *)
THEOREM TypeCorrectness == Spec => []TypeOK
<1>1. IInv => TypeOK
  BY DEF IInv
<1> QED  BY Invariance, <1>1, PTL

(* Ingest's choice of incident is deterministic: a resource never has two  *)
(* open incidents that a new event could join.                             *)
THEOREM OneFreshOpenIncidentHolds == Spec => []OneFreshOpenIncident
<1>1. IInv => OneFreshOpenIncident
  BY DEF IInv
<1> QED  BY Invariance, <1>1, PTL

(* An incident is always as severe as the most severe of its events.       *)
THEOREM SeverityIsHighestHolds == Spec => []SeverityIsHighest
<1>1. IInv => SeverityIsHighest
  BY DEF IInv
<1> QED  BY Invariance, <1>1, PTL

(* Two events on one resource within a window are never left uncorrelated. *)
THEOREM NoMissedPairHolds == Spec => []NoMissedPair
<1>1. IInv => NoMissedPair
  BY DEF IInv
<1> QED  BY Invariance, <1>1, PTL

(* Two open incidents share only events exactly one window older than the  *)
(* later of them.                                                          *)
THEOREM SharedOnlyAtWindowEdgeHolds == Spec => []SharedOnlyAtWindowEdge
<1>1. IInv => SharedOnlyAtWindowEdge
  BY DEF IInv
<1> QED  BY Invariance, <1>1, PTL
-----------------------------------------------------------------------------
(* What a consumer reads of one incident.                                  *)
EntryOf(inc) ==
  [resource |-> inc.resource, severity |-> inc.severity,
   policies |-> {e.sig.policy : e \in inc.events},
   latest   |-> Latest(inc.events).sig.message, resolved |-> inc.resolved]

(* Every incident has a latest event.                                      *)
HasLatest ==
  \A i \in DOMAIN incidents :
    \E e \in incidents[i].events : \A f \in incidents[i].events : f.n <= e.n

(* An event that is numbered after all the others is the latest one.       *)
LEMMA LatestIsNew ==
  ASSUME NEW S \in SUBSET Event, NEW ev \in S,
         \A f \in S : f # ev => f.n < ev.n
  PROVE  Latest(S) = ev
<1>1. \A f \in S : f.n \in Nat
  BY DEF Event
<1>2. \A f \in S : f.n <= ev.n
  BY <1>1
<1>3. \A e \in S : (\A f \in S : f.n <= e.n) => e = ev
  BY <1>1
<1> QED  BY <1>2, <1>3 DEF Latest

(* The board's entry of an incident is well formed.                        *)
LEMMA EntryTyped ==
  ASSUME NEW inc \in Incident,
         \E e \in inc.events : \A f \in inc.events : f.n <= e.n
  PROVE  EntryOf(inc) \in Board!BoardEntry
<1>1. Latest(inc.events) \in inc.events
  BY DEF Latest
<1>2. \A e \in inc.events : e.sig.policy \in Policies /\ e.sig.message \in Messages
  BY CorrelatorAssumption DEF Incident, Event
<1> QED  BY <1>1, <1>2 DEF EntryOf, Incident, Board!BoardEntry

(* Entries that agree on every field are the same entry.                   *)
LEMMA SameEntry ==
  ASSUME NEW a \in Board!BoardEntry, NEW b \in Board!BoardEntry,
         a.resource = b.resource, a.severity = b.severity, a.policies = b.policies,
         a.latest = b.latest, a.resolved = b.resolved
  PROVE  a = b
  BY DEF Board!BoardEntry

(* The view has one entry for each incident.                               *)
LEMMA ViewOf ==
  /\ DOMAIN boardView = DOMAIN incidents
  /\ \A i \in DOMAIN incidents : boardView[i] = EntryOf(incidents[i])
  BY DEF boardView, EntryOf

(* The same in the next state.                                             *)
LEMMA ViewOfNext ==
  /\ DOMAIN boardView' = DOMAIN incidents'
  /\ \A i \in DOMAIN incidents' : boardView'[i] = EntryOf(incidents'[i])
  BY DEF boardView, EntryOf

(* Forming, extending and resolving leave every incident a latest event:   *)
(* the one being ingested, or the one it had.                              *)
LEMMA HasLatestNext ==
  ASSUME IInv, HasLatest, [Next]_vars
  PROVE  HasLatest'
<1>2. PICK k \in 0 .. ingested : incidents \in [1 .. k -> Incident]
  BY DEF IInv, TypeOK
<1>3. ASSUME NEW i \in DOMAIN incidents, NEW f \in incidents[i].events
      PROVE  f.n \in Nat /\ f.n <= ingested
  BY <1>2 DEF IInv, TimesAreOrdered, Incident, Event
<1>t. ingested \in Nat
  BY DEF IInv, TypeOK
<1>4. ASSUME NEW sig \in Signals, IngestJoins(sig) PROVE HasLatest'
  <2> DEFINE ev == Stamped(sig)
  <2>1. PICK i \in Correlating(ev) : incidents' = [incidents EXCEPT ![i] = Extended(@, ev)]
    BY <1>4 DEF IngestJoins
  <2>2. i \in DOMAIN incidents /\ incidents[i] \in Incident
    BY <1>2 DEF Correlating
  <2>3. ev \in Event /\ ev.n = ingested + 1
    BY <1>4, IngestFacts DEF IngestJoins
  <2>4. incidents'[i].events = incidents[i].events \cup {ev}
    BY <2>1, <2>2, <2>3, ExtendedFields DEF IInv, TypeOK
  <2>5. \A f \in incidents'[i].events : f.n <= ev.n
    BY <1>3, <1>t, <2>2, <2>3, <2>4
  <2>6. /\ DOMAIN incidents' = DOMAIN incidents
        /\ \A j \in DOMAIN incidents : j # i => incidents'[j] = incidents[j]
    BY <1>2, <2>1
  <2> QED  BY <2>4, <2>5, <2>6 DEF HasLatest
<1>5. ASSUME NEW sig \in Signals, IngestForms(sig) PROVE HasLatest'
  <2> DEFINE ev == Stamped(sig)
             rel == findRelated(events', ev)
  <2>1. incidents' = [i \in DOMAIN incidents \cup {incidentSeq + 1} |->
                        IF i = incidentSeq + 1 THEN NewIncident(ev, rel) ELSE incidents[i]]
    BY <1>5 DEF IngestForms
  <2>2. incidentSeq = k
    BY <1>2, <1>t, SeqIsLast
  <2>3. /\ ev \in Event /\ ev.n = ingested + 1 /\ ev.ts = now /\ ev \in events'
        /\ events' \subseteq events \cup {ev} /\ now' = now
    BY <1>5, IngestFacts DEF IngestForms
  <2>4. \A f \in events' : f.n <= ev.n
    BY <2>3, <1>t DEF IInv, TypeOK, TimesAreOrdered, Event
  <2>5. ev \in rel /\ \A f \in rel : f.n <= ev.n
    BY <2>3, <2>4, CorrelatorAssumption DEF findRelated, IInv, TypeOK
  <2>6. NewIncident(ev, rel).events = rel
    BY DEF NewIncident
  <2> QED  BY <2>1, <2>5, <2>6 DEF HasLatest
<1>6. ASSUME NEW id \in DOMAIN incidents, ResolveIncident(id) PROVE HasLatest'
  <2>1. /\ DOMAIN incidents' = DOMAIN incidents
        /\ \A j \in DOMAIN incidents : j # id => incidents'[j] = incidents[j]
        /\ incidents[id] \in Incident
        /\ incidents'[id] = [incidents[id] EXCEPT !.resolved = TRUE, !.updatedAt = now]
    BY <1>2, <1>6 DEF ResolveIncident
  <2>2. incidents'[id].events = incidents[id].events
    BY <2>1 DEF Incident
  <2> QED  BY <2>1, <2>2 DEF HasLatest
<1>7. CASE UNCHANGED incidents
  BY <1>7 DEF HasLatest
<1> QED  BY <1>4, <1>5, <1>6, <1>7 DEF Next, Ingest, IngestAlone, Tick, vars

(* Ingest of an event that joins an incident is the board's Grow.          *)
LEMMA JoinsGrows ==
  ASSUME IInv, HasLatest, NEW sig \in Signals, IngestJoins(sig)
  PROVE  \E i \in DOMAIN boardView \cap DOMAIN boardView' :
           /\ boardView'[i] \in Board!BoardEntry
           /\ \E p \in Policies : Board!Grow(i, boardView'[i].severity, p, boardView'[i].latest)
<1> DEFINE ev == Stamped(sig)
<1>1. PICK i \in Correlating(ev) : incidents' = [incidents EXCEPT ![i] = Extended(@, ev)]
  BY DEF IngestJoins
<1>2. PICK k \in 0 .. ingested : incidents \in [1 .. k -> Incident]
  BY DEF IInv, TypeOK
<1> DEFINE old == incidents[i]
           new == incidents'[i]
<1>3. i \in DOMAIN incidents /\ old \in Incident /\ ~old.resolved
  BY <1>2 DEF Correlating
<1>4. ev \in Event /\ ev.n = ingested + 1 /\ ev.sig = sig
  BY IngestFacts DEF IngestJoins
<1>5. /\ new \in Incident
      /\ new.resource = old.resource
      /\ new.events = old.events \cup {ev}
      /\ new.resolved = old.resolved
      /\ new.severity = IF severityOrder(sig.severity) > severityOrder(old.severity)
                        THEN sig.severity ELSE old.severity
  BY <1>1, <1>3, <1>4, ExtendedFields DEF IInv, TypeOK
<1>6. /\ DOMAIN incidents' = DOMAIN incidents
      /\ \A j \in DOMAIN incidents : j # i => incidents'[j] = incidents[j]
  BY <1>1, <1>2
<1>7. /\ \A f \in old.events : f.n \in Nat /\ f.n <= ingested
      /\ ingested \in Nat
  BY <1>2, <1>3 DEF IInv, TypeOK, TimesAreOrdered, Incident, Event
<1>8. Latest(new.events) = ev
  <2>1. new.events \in SUBSET Event /\ ev \in new.events
    BY <1>5 DEF Incident
  <2>2. \A f \in new.events : f # ev => f.n < ev.n
    BY <1>4, <1>5, <1>7
  <2> QED  BY <2>1, <2>2, LatestIsNew
<1>9. EntryOf(new) \in Board!BoardEntry
  <2>1. \A f \in new.events : f.n <= ev.n
    BY <1>4, <1>5, <1>7
  <2> QED  BY <1>5, <2>1, EntryTyped
<1> DEFINE a == EntryOf(old)
           b == EntryOf(new)
<1>10. sig.severity \in Severities /\ sig.policy \in Policies /\ old.severity \in Severities
  BY <1>3, CorrelatorAssumption DEF Incident
<1>11. severityOrder(b.severity) >= severityOrder(a.severity)
  <2>1. severityOrder(sig.severity) \in Nat /\ severityOrder(old.severity) \in Nat
    BY <1>10, SeverityRanks
  <2> QED  BY <1>5, <2>1 DEF EntryOf
<1>12. b.policies = a.policies \cup {sig.policy}
  BY <1>4, <1>5 DEF EntryOf
<1>13. b = [a EXCEPT !.severity = b.severity, !.policies = a.policies \cup {sig.policy},
                     !.latest = b.latest]
  <2> DEFINE c == [a EXCEPT !.severity = b.severity, !.policies = a.policies \cup {sig.policy},
                            !.latest = b.latest]
  <2>1. a \in Board!BoardEntry /\ b \in Board!BoardEntry
    BY <1>3, <1>9, EntryTyped DEF HasLatest
  <2>2. b.resource = a.resource /\ b.resolved = a.resolved
    BY <1>5 DEF EntryOf
  <2> HIDE DEF a, b
  <2>3. c \in Board!BoardEntry /\ c.resolved = a.resolved
    BY <1>10, <2>1 DEF Board!BoardEntry
  <2>4. /\ c.resource = a.resource /\ c.severity = b.severity
        /\ c.policies = a.policies \cup {sig.policy} /\ c.latest = b.latest
    BY <2>1 DEF Board!BoardEntry
  <2> HIDE DEF c
  <2>5. b = c
    BY <1>12, <2>1, <2>2, <2>3, <2>4, SameEntry
  <2> QED  BY <2>5 DEF c
<1>14. ~a.resolved
  BY <1>3 DEF EntryOf
<1>15. /\ boardView[i] = a /\ boardView'[i] = b /\ DOMAIN boardView = DOMAIN boardView'
       /\ i \in DOMAIN boardView
       /\ \A j \in DOMAIN boardView : j # i => boardView'[j] = boardView[j]
  BY <1>3, <1>6, ViewOf, ViewOfNext
<1>16. boardView' = [boardView EXCEPT ![i] = b]
  BY <1>15 DEF boardView
<1> HIDE DEF a, b
<1>17. boardView' = [boardView EXCEPT ![i].severity = b.severity,
                                      ![i].policies = @ \cup {sig.policy},
                                      ![i].latest = b.latest]
  BY <1>13, <1>15, <1>16
<1>18. Board!Grow(i, b.severity, sig.policy, b.latest)
  BY <1>11, <1>14, <1>15, <1>17 DEF Board!Grow
<1> QED  BY <1>9, <1>10, <1>15, <1>18 DEF b

(* The board counts its incidents the way the engine does.                 *)
LEMMA BoardCounts == Board!Cardinality(DOMAIN boardView) = Cardinality(DOMAIN boardView)
  BY DEF Cardinality, Board!Cardinality

(* Ingest of an event that makes a new incident is the board's Form: the   *)
(* incident is numbered after all the others.                              *)
LEMMA FormsForm ==
  ASSUME IInv, NEW sig \in Signals, IngestForms(sig)
  PROVE  LET n == Board!Cardinality(DOMAIN boardView) + 1
             e == boardView'[n]
         IN  /\ n \in DOMAIN boardView' /\ e \in Board!BoardEntry
             /\ Board!Form(e.resource, e.severity, e.policies, e.latest)
<1> DEFINE ev == Stamped(sig)
           rel == findRelated(events', ev)
           new == NewIncident(ev, rel)
<1>2. PICK k \in 0 .. ingested : incidents \in [1 .. k -> Incident]
  BY DEF IInv, TypeOK
<1> DEFINE id == k + 1
<1>t. /\ now \in 0 .. MaxTime /\ Window \in Nat /\ ingested \in Nat /\ k \in Nat /\ MaxEvents \in Nat
      /\ ingested < MaxEvents /\ sig.resource \in Resources
  BY <1>2, CorrelatorAssumption DEF IInv, TypeOK, IngestForms, Record
<1>3. incidentSeq = k
  BY <1>2, <1>t, SeqIsLast
<1>4. incidents' = [i \in DOMAIN incidents \cup {id} |-> IF i = id THEN new ELSE incidents[i]]
  BY <1>3 DEF IngestForms
<1>f. /\ ev \in Event /\ ev.n = ingested + 1 /\ ev.sig = sig /\ ev.ts = now
      /\ events' \subseteq events \cup {ev} /\ ev \in events' /\ events' \subseteq Event
      /\ now' = now
  BY IngestFacts DEF IngestForms
<1>5. \A f \in events : f.n \in Nat /\ f.n <= ingested
  BY DEF IInv, TypeOK, TimesAreOrdered, Event
<1>6. rel \in SUBSET Event /\ ev \in rel /\ \A f \in rel : f.n <= ev.n
  BY <1>f, <1>t, <1>5 DEF findRelated
<1> HIDE DEF rel
<1>7. highestSeverity(rel) \in Severities
  BY <1>6, HighestSeverityIsMax
<1>8. new \in Incident /\ new.events = rel /\ new.resolved = FALSE
  BY <1>6, <1>7, <1>f, <1>t DEF NewIncident, Incident
<1> HIDE DEF new
<1>9. EntryOf(new) \in Board!BoardEntry
  BY <1>6, <1>8, EntryTyped
<1> DEFINE b == EntryOf(new)
<1>10. b = [resource |-> b.resource, severity |-> b.severity, policies |-> b.policies,
            latest |-> b.latest, resolved |-> FALSE]
  BY <1>8 DEF EntryOf
<1>11. Board!Cardinality(DOMAIN boardView) + 1 = id
  BY <1>3, ViewOf, BoardCounts DEF incidentSeq
<1>12. /\ id \notin DOMAIN incidents /\ DOMAIN incidents' = DOMAIN incidents \cup {id}
       /\ incidents'[id] = new /\ \A j \in DOMAIN incidents : incidents'[j] = incidents[j]
  BY <1>2, <1>4, <1>t
<1>13. /\ DOMAIN boardView' = DOMAIN boardView \cup {id}
       /\ boardView'[id] = b
       /\ \A j \in DOMAIN boardView : j # id /\ boardView'[j] = boardView[j]
  BY <1>12, ViewOf, ViewOfNext
<1> HIDE DEF b
<1>14. boardView' = [i \in DOMAIN boardView \cup {id} |-> IF i = id THEN b ELSE boardView[i]]
  BY <1>13 DEF boardView
<1>15. id \in Board!Ids
  BY <1>2, <1>t DEF Board!Ids
<1>16. Board!Form(b.resource, b.severity, b.policies, b.latest)
  BY <1>10, <1>11, <1>14, <1>15 DEF Board!Form
<1> QED  BY <1>9, <1>11, <1>13, <1>16 DEF b

(* ResolveIncident is the board's Resolve, on an incident of any age.      *)
LEMMA ResolvesOnBoard ==
  ASSUME IInv, HasLatest, NEW id \in DOMAIN incidents, ResolveIncident(id)
  PROVE  /\ id \in DOMAIN boardView \cap DOMAIN boardView'
         /\ boardView'[id] \in Board!BoardEntry
         /\ Board!Resolve(id)
<1>2. PICK k \in 0 .. ingested : incidents \in [1 .. k -> Incident]
  BY DEF IInv, TypeOK
<1>t. now \in 0 .. MaxTime
  BY DEF IInv, TypeOK
<1> DEFINE old == incidents[id]
           new == incidents'[id]
<1>3. /\ DOMAIN incidents' = DOMAIN incidents
      /\ \A j \in DOMAIN incidents : j # id => incidents'[j] = incidents[j]
      /\ old \in Incident
      /\ new = [old EXCEPT !.resolved = TRUE, !.updatedAt = now]
  BY <1>2 DEF ResolveIncident
<1>4. /\ new \in Incident /\ new.resource = old.resource /\ new.events = old.events
      /\ new.severity = old.severity
  BY <1>3, <1>t DEF Incident
<1>5. new.resolved = TRUE
  BY <1>3 DEF Incident
<1>6. EntryOf(new) \in Board!BoardEntry
  BY <1>4, EntryTyped DEF HasLatest
<1>7. EntryOf(new) = [EntryOf(old) EXCEPT !.resolved = TRUE]
  <2> DEFINE a == EntryOf(old)
             b == EntryOf(new)
             c == [a EXCEPT !.resolved = TRUE]
  <2>1. a \in Board!BoardEntry /\ b \in Board!BoardEntry
    BY <1>3, <1>6, EntryTyped DEF HasLatest
  <2>2. b.resource = a.resource /\ b.severity = a.severity /\ b.policies = a.policies
        /\ b.latest = a.latest /\ b.resolved = TRUE
    BY <1>4, <1>5 DEF EntryOf
  <2> HIDE DEF a, b
  <2>3. c \in Board!BoardEntry /\ c.resolved = TRUE
    BY <2>1 DEF Board!BoardEntry
  <2>4. /\ c.resource = a.resource /\ c.severity = a.severity
        /\ c.policies = a.policies /\ c.latest = a.latest
    BY <2>1 DEF Board!BoardEntry
  <2> HIDE DEF c
  <2>5. b = c
    BY <2>1, <2>2, <2>3, <2>4, SameEntry
  <2> QED  BY <2>5 DEF a, b, c
<1>8. /\ boardView[id] = EntryOf(old) /\ boardView'[id] = EntryOf(new)
      /\ DOMAIN boardView = DOMAIN boardView' /\ id \in DOMAIN boardView
      /\ \A j \in DOMAIN boardView : j # id => boardView'[j] = boardView[j]
  BY <1>3, ViewOf, ViewOfNext
<1>9. boardView' = [boardView EXCEPT ![id] = EntryOf(new)]
  BY <1>8 DEF boardView
<1>10. Board!Resolve(id)
  BY <1>7, <1>8, <1>9 DEF Board!Resolve
<1> QED  BY <1>6, <1>8, <1>10

(* The correlation engine implements the incident board its consumers      *)
(* rely on: ids are handed out in order, severity never falls, policies    *)
(* never disappear, and a resolved incident neither reopens nor changes,   *)
(* for every window, every stream of findings and every moment at which    *)
(* ResolveIncident is called.                                              *)
THEOREM RefinesBoardHolds == Spec => RefinesBoard
<1>1. Init => Board!BoardInit /\ HasLatest
  BY DEF Init, Board!BoardInit, boardView, HasLatest
<1>2. ASSUME IInv, HasLatest, [Next]_vars PROVE [Board!BoardNext]_boardView
  <2>1. ASSUME NEW sig \in Signals, IngestJoins(sig) PROVE Board!BoardNext
    BY <1>2, <2>1, JoinsGrows DEF Board!BoardNext
  <2>2. ASSUME NEW sig \in Signals, IngestForms(sig) PROVE Board!BoardNext
    BY <1>2, <2>2, FormsForm DEF Board!BoardNext
  <2>3. ASSUME NEW id \in DOMAIN incidents, ResolveIncident(id) PROVE Board!BoardNext
    BY <1>2, <2>3, ResolvesOnBoard DEF Board!BoardNext
  <2>4. CASE UNCHANGED incidents
    BY <2>4 DEF boardView
  <2> QED  BY <1>2, <2>1, <2>2, <2>3, <2>4 DEF Next, Ingest, IngestAlone, Tick, vars
<1>3. IInv /\ HasLatest /\ [Next]_vars => HasLatest'
  BY HasLatestNext
<1> QED  BY <1>1, <1>2, <1>3, Invariance, PTL DEF Spec, RefinesBoard, Board!BoardSpec
=============================================================================
