-------------------------- MODULE RemediationProofs --------------------------
(***************************************************************************)
(* Proofs about RemediationPolicy, for any number of policies, incidents,  *)
(* branches and failures, and every order in which findings, reviewers,    *)
(* configuration changes and restarts interleave with a cycle.             *)
(***************************************************************************)
EXTENDS RemediationPolicy, FiniteSetTheorems, TLAPS

(* The policies behind an incident and its severity only ever grow.        *)
Older(e, f) ==
  /\ e.policies \subseteq f.policies
  /\ severityOrder(e.severity) <= severityOrder(f.severity)

(* remediateIncident is inside ApplyPlan, or has its result.               *)
Acting == wpc \in {"apply", "audited", "waiting"}

(* The loop of processIncidents.                                           *)
Looping == wpc \in {"loop", "apply", "audited", "waiting"}

(* CreatePullRequest has returned a pull request.                          *)
Answered == wpc = "waiting" /\ reply["worker"] \in {"new", "existing"}

(* The worker's copies are of incidents on the board, as they were.        *)
CopiesAreOlder ==
  /\ DOMAIN snap \subseteq DOMAIN board
  /\ \A i \in DOMAIN snap : snap[i] \in BoardEntry /\ Older(snap[i], board[i])
  /\ Acting => cur \in DOMAIN board /\ Older(entry, board[cur])

(* A plan is applied only for an incident in the scope of a policy that    *)
(* may act, on a branch the cycle has not seen.                            *)
ActsInScope ==
  Acting => /\ ~theSpec.dryRun /\ InScope(entry, theSpec)
            /\ branchOf(entry) \notin existing

(* The cycle's counters start at zero.                                     *)
CountersReset ==
  wpc \in {"idle", "engine", "incidents", "list"} => created = 0 /\ processed = 0

(* The pull requests the list could show are counted before they are       *)
(* opened: by openPRs, by processed, or by the plan that is being applied. *)
Budgeted ==
  /\ IsFiniteSet(open)
  /\ Acting => openPRs + processed < theSpec.maxPRs
  /\ wpc = "waiting" => registered
  /\ Looping =>
       Cardinality(open \ uncounted) <=
         openPRs + processed + (IF wpc = "waiting" /\ reply["worker"] # "busy" THEN 1 ELSE 0)

(* Every branch the worker knows of has backed a pull request.             *)
KnownHaveBeenOpen ==
  /\ existing \subseteq ever /\ open \subseteq ever
  /\ Answered => branchOf(entry) \in ever

(* The branches on which the worker will not open a pull request.          *)
Known == existing \cup PresetBranches

(* What a cycle counts, and what it has opened and not yet counted, was    *)
(* opened by the worker.                                                   *)
Accounted ==
  spent["blind"] = 0 =>
    \A p \in RPolicies :
      /\ applied[p] + created <= opened
      /\ registered /\ Looping =>
           applied[p] + created + Cardinality(open \ Known) <= opened
      /\ Answered =>
           applied[p] + created + 1 + Cardinality(open \ (Known \cup {branchOf(entry)})) <= opened

(* While a plan is being made or applied, audit knows of the dry-run       *)
(* strategy.                                                               *)
AuditSeen ==
  /\ wpc = "apply" /\ strategy = "dry-run" => audit
  /\ wpc = "audited" => audit

RInv ==
  /\ TypeOK /\ CopiesAreOlder /\ ActsInScope /\ CountersReset /\ Budgeted
  /\ KnownHaveBeenOpen /\ Accounted /\ AuditSeen /\ OnlyInScopeResolved
-----------------------------------------------------------------------------
(* ResolveIncident changes one field of one incident.                      *)
LEMMA ResolveFacts ==
  ASSUME NEW n \in Nat, board \in [1 .. n -> BoardEntry], NEW i \in 1 .. n, Resolve(i)
  PROVE  /\ board' \in [1 .. n -> BoardEntry]
         /\ \A j \in 1 .. n : j # i => board'[j] = board[j]
         /\ board'[i].resolved
         /\ board'[i].policies = board[i].policies
         /\ board'[i].severity = board[i].severity
         /\ board[i].resolved => board'[i] = board[i]
<1> DEFINE old == board[i]
           new == [old EXCEPT !.resolved = TRUE]
<1>1. board' = [board EXCEPT ![i] = new]
  BY DEF Resolve
<1>2. old \in BoardEntry
  OBVIOUS
<1> HIDE DEF old
<1>3. new \in BoardEntry /\ new.resolved = TRUE
  BY <1>2 DEF BoardEntry
<1>4. /\ new.resource = old.resource /\ new.severity = old.severity
      /\ new.policies = old.policies /\ new.latest = old.latest
  BY <1>2 DEF BoardEntry
<1>5. ASSUME old.resolved PROVE new = old
  <2>1. old.resolved = TRUE
    BY <1>2, <1>5 DEF BoardEntry
  <2> HIDE DEF new
  <2> QED  BY <1>2, <1>3, <1>4, <2>1 DEF BoardEntry
<1> HIDE DEF new
<1> QED  BY <1>1, <1>3, <1>4, <1>5 DEF old

(* One more event for an open incident changes neither whether it is       *)
(* resolved nor any other incident.                                        *)
LEMMA GrowFacts ==
  ASSUME NEW n \in Nat, board \in [1 .. n -> BoardEntry], NEW i \in 1 .. n,
         NEW s \in Severities, NEW p \in Policies, NEW m \in Messages, Grow(i, s, p, m)
  PROVE  /\ board' \in [1 .. n -> BoardEntry]
         /\ \A j \in 1 .. n : j # i => board'[j] = board[j]
         /\ ~board[i].resolved /\ ~board'[i].resolved
         /\ Older(board[i], board'[i])
<1> DEFINE old == board[i]
           new == [old EXCEPT !.severity = s, !.policies = old.policies \cup {p}, !.latest = m]
<1>1. board' = [board EXCEPT ![i] = new]
  BY DEF Grow
<1>2. old \in BoardEntry /\ ~old.resolved /\ severityOrder(s) >= severityOrder(old.severity)
  BY DEF Grow
<1> HIDE DEF old
<1>3. new \in BoardEntry /\ new.resolved = old.resolved
  BY <1>2 DEF BoardEntry
<1>4. new.severity = s /\ new.policies = old.policies \cup {p}
  BY <1>2 DEF BoardEntry
<1>5. severityOrder(s) \in Nat /\ severityOrder(old.severity) \in Nat
  BY <1>2, RemediationAssumption DEF BoardEntry
<1>6. Older(old, new)
  <2> HIDE DEF new
  <2> QED  BY <1>2, <1>4, <1>5 DEF Older
<1> HIDE DEF new
<1> QED  BY <1>1, <1>2, <1>3, <1>6 DEF old

(* A new incident is open and numbered after the others.                   *)
LEMMA FormFacts ==
  ASSUME NEW n \in 0 .. MaxIncidents, board \in [1 .. n -> BoardEntry], NEW r \in Resources,
         NEW s \in Severities, NEW p \in Policies, NEW m \in Messages, Form(r, s, {p}, m)
  PROVE  /\ n + 1 \in 0 .. MaxIncidents
         /\ board' \in [1 .. (n + 1) -> BoardEntry]
         /\ \A j \in 1 .. n : board'[j] = board[j]
         /\ ~board'[n + 1].resolved
<1>1. Cardinality(DOMAIN board) = n
  <2>1. DOMAIN board = 1 .. n /\ n \in Nat
    BY BoardAssumption
  <2> QED  BY <2>1, FS_Interval
<1> DEFINE new == [resource |-> r, severity |-> s, policies |-> {p}, latest |-> m, resolved |-> FALSE]
<1>2. /\ n + 1 \in Ids
      /\ board' = [i \in DOMAIN board \cup {n + 1} |-> IF i = n + 1 THEN new ELSE board[i]]
  BY <1>1, Zenon DEF Form
<1>3. new \in BoardEntry /\ ~new.resolved
  BY DEF BoardEntry
<1> HIDE DEF new
<1>4. n \in Nat /\ DOMAIN board \cup {n + 1} = 1 .. (n + 1) /\ n + 1 \in 0 .. MaxIncidents
  BY <1>2, BoardAssumption DEF Ids
<1> QED  BY <1>2, <1>3, <1>4

(* The severity of an entry is ranked.                                     *)
LEMMA EntryRank ==
  ASSUME NEW e \in BoardEntry
  PROVE  severityOrder(e.severity) \in Nat
  BY RemediationAssumption DEF BoardEntry

(* Reading a board entry now instead of earlier never takes it out of a    *)
(* policy's scope.                                                         *)
LEMMA ScopeGrows ==
  ASSUME NEW e \in BoardEntry, NEW f \in BoardEntry, NEW p \in RPolicies, Older(e, f),
         InScope(e, PolicySpec[p])
  PROVE  InScope(f, PolicySpec[p])
<1>1. severityOrder(PolicySpec[p].minSeverity) \in Nat
  BY RemediationAssumption DEF SpecType
<1> QED  BY <1>1, EntryRank DEF Older, InScope, incidentMatchesTargets

(* Older is a preorder on entries.                                         *)
LEMMA OlderOrder ==
  /\ \A e \in BoardEntry : Older(e, e)
  /\ \A e, f, g \in BoardEntry : Older(e, f) /\ Older(f, g) => Older(e, g)
  BY EntryRank DEF Older

(* The board has as many entries as it has numbers.                        *)
LEMMA BoardShape ==
  ASSUME TypeOK
  PROVE  \E n \in 0 .. MaxIncidents : n \in Nat /\ board \in [1 .. n -> BoardEntry]
  BY BoardAssumption DEF TypeOK, Boards

(* The worker resolves incident i in this step.                            *)
WorkerResolves(i) ==
  \/ i = cur /\ (Audited \/ Applied)
  \/ i \in DOMAIN snap /\ DedupIncident(i) /\ ~theSpec.dryRun

(* What a step that is no restart does to an incident.                     *)
EntryMoves(i) ==
  /\ board[i] \in BoardEntry /\ board'[i] \in BoardEntry
  /\ Older(board[i], board'[i])
  /\ board[i].resolved => board'[i] = board[i]
  /\ ~board[i].resolved /\ board'[i].resolved => WorkerResolves(i)

(* Between restarts the board only grows, and only the worker resolves.    *)
LEMMA BoardMoves ==
  ASSUME TypeOK, CopiesAreOlder, [Next]_vars
  PROVE  /\ board' \in Boards
         /\ \/ Restart
            \/ /\ DOMAIN board \subseteq DOMAIN board'
               /\ \A i \in DOMAIN board : EntryMoves(i)
               /\ \A i \in DOMAIN board' \ DOMAIN board :
                    board'[i] \in BoardEntry /\ ~board'[i].resolved
<1> DEFINE Moves == /\ board' \in Boards
                    /\ DOMAIN board \subseteq DOMAIN board'
                    /\ \A i \in DOMAIN board : EntryMoves(i)
                    /\ \A i \in DOMAIN board' \ DOMAIN board :
                         board'[i] \in BoardEntry /\ ~board'[i].resolved
<1>n. PICK n \in 0 .. MaxIncidents : n \in Nat /\ board \in [1 .. n -> BoardEntry]
  BY BoardShape
<1>o. \A i \in DOMAIN board : board[i] \in BoardEntry /\ Older(board[i], board[i])
  BY <1>n, OlderOrder
<1>b. ASSUME NEW m \in 0 .. MaxIncidents, board' \in [1 .. m -> BoardEntry] PROVE board' \in Boards
  BY <1>b DEF Boards
<1>1. ASSUME UNCHANGED board PROVE Moves
  BY <1>1, <1>o DEF EntryMoves, TypeOK
<1>2. ASSUME NEW i \in DOMAIN board, Resolve(i), WorkerResolves(i) PROVE Moves
  <2>1. /\ board' \in [1 .. n -> BoardEntry]
        /\ \A j \in 1 .. n : j # i => board'[j] = board[j]
        /\ board'[i].resolved
        /\ board'[i].policies = board[i].policies
        /\ board'[i].severity = board[i].severity
        /\ board[i].resolved => board'[i] = board[i]
    BY <1>n, <1>2, ResolveFacts
  <2>2. board' \in Boards /\ DOMAIN board' = DOMAIN board /\ DOMAIN board = 1 .. n
    BY <1>b, <1>n, <2>1
  <2>3. Older(board[i], board'[i])
    BY <1>o, <2>1, EntryRank DEF Older
  <2>4. EntryMoves(i)
    BY <1>2, <1>n, <2>1, <2>2, <2>3 DEF EntryMoves
  <2>5. \A j \in DOMAIN board : j # i => EntryMoves(j)
    BY <1>o, <2>1, <2>2 DEF EntryMoves
  <2> QED  BY <2>2, <2>4, <2>5
<1>3. ASSUME NEW i \in DOMAIN snap, DedupIncident(i) PROVE Moves
  <2>1. CASE theSpec.dryRun
    BY <1>1, <1>3, <2>1 DEF DedupIncident
  <2>2. CASE ~theSpec.dryRun
    <3>1. Resolve(i) /\ WorkerResolves(i) /\ i \in DOMAIN board
      BY <1>3, <2>2 DEF DedupIncident, CopiesAreOlder, WorkerResolves
    <3> QED  BY <1>2, <3>1
  <2> QED  BY <2>1, <2>2
<1>4. CASE Audited \/ Applied
  <2>1. cur \in DOMAIN board
    BY <1>4 DEF Audited, Applied, CopiesAreOlder, Acting
  <2> QED  BY <1>2, <1>4, <2>1 DEF Audited, Applied, WorkerResolves
<1>5. CASE Findings
  <2>1. PICK sig \in Signals :
          \/ Form(sig.resource, sig.severity, {sig.policy}, sig.message)
          \/ \E i \in DOMAIN board : Grow(i, sig.severity, sig.policy, sig.message)
    BY <1>5 DEF Findings
  <2>2. /\ sig.resource \in Resources /\ sig.severity \in Severities
        /\ sig.policy \in Policies /\ sig.message \in Messages
    BY RemediationAssumption
  <2>3. CASE Form(sig.resource, sig.severity, {sig.policy}, sig.message)
    <3>1. /\ n + 1 \in 0 .. MaxIncidents
          /\ board' \in [1 .. (n + 1) -> BoardEntry]
          /\ \A j \in 1 .. n : board'[j] = board[j]
          /\ ~board'[n + 1].resolved
      BY <1>n, <2>2, <2>3, FormFacts
    <3>2. board' \in Boards /\ DOMAIN board = 1 .. n /\ DOMAIN board' = 1 .. n \cup {n + 1}
      BY <1>b, <1>n, <3>1
    <3>3. \A i \in DOMAIN board : EntryMoves(i)
      BY <1>o, <3>1, <3>2 DEF EntryMoves
    <3> QED  BY <3>1, <3>2, <3>3
  <2>4. ASSUME NEW i \in DOMAIN board, Grow(i, sig.severity, sig.policy, sig.message) PROVE Moves
    <3>1. /\ board' \in [1 .. n -> BoardEntry]
          /\ \A j \in 1 .. n : j # i => board'[j] = board[j]
          /\ ~board[i].resolved /\ ~board'[i].resolved
          /\ Older(board[i], board'[i])
      BY <1>n, <2>2, <2>4, GrowFacts
    <3>2. board' \in Boards /\ DOMAIN board' = DOMAIN board /\ DOMAIN board = 1 .. n
      BY <1>b, <1>n, <3>1
    <3>3. \A j \in DOMAIN board : EntryMoves(j)
      BY <1>o, <3>1, <3>2 DEF EntryMoves
    <3> QED  BY <3>2, <3>3
  <2> QED  BY <2>1, <2>3, <2>4
<1>6. CASE Restart
  <2>1. <<>> \in [1 .. 0 -> BoardEntry] /\ 0 \in 0 .. MaxIncidents
    BY BoardAssumption
  <2>2. board' \in Boards
    BY <1>6, <2>1, <1>b DEF Restart
  <2> QED  BY <1>6, <2>2
<1>7. CASE \/ \E p \in RPolicies : Start(p)
           \/ EnsureGitOpsEngine \/ ReadIncidents \/ SnapshotOpenPRs
           \/ \E i \in DOMAIN snap : SkipIncident(i) \/ PlanOnly(i) \/ PlanForApply(i)
           \/ ApplyAudit \/ ApplyNoEngine \/ CreatePR \/ ServiceAnswers
           \/ ApplyFailed \/ EndLoop \/ UpdateStatus
           \/ Configure \/ Reviewers \/ UNCHANGED vars
           \/ \E b \in PresetBranches : PresetOpens(b)
  <2>1. UNCHANGED board
    BY <1>7 DEF Start, EnsureGitOpsEngine, ReadIncidents, SnapshotOpenPRs, SkipIncident, PlanOnly,
                PlanForApply, ApplyAudit, ApplyNoEngine, CreatePR, ServiceAnswers, ApplyFailed,
                EndLoop, UpdateStatus, Configure, Reviewers, PresetOpens, vars
  <2> QED  BY <1>1, <2>1
<1> QED  BY <1>3, <1>4, <1>5, <1>6, <1>7 DEF Next, Worker

(* What the typing of the state says of the values a step combines.        *)
LEMMA Values ==
  ASSUME TypeOK
  PROVE  /\ APolicy \in RPolicies /\ AnEntry \in BoardEntry
         /\ theSpec \in SpecType /\ theSpec.maxPRs \in Nat
         /\ branchOf(entry) \in Branches
         /\ \A e \in BoardEntry : branchOf(e) \in Branches
         /\ reply["worker"] \in Replies
         /\ \A p \in RPolicies : applied[p] \in Nat /\ PolicySpec[p].maxPRs \in Nat
<1>1. rp \in RPolicies /\ entry \in BoardEntry
  BY DEF TypeOK
<1>2. APolicy \in RPolicies /\ AnEntry \in BoardEntry
  BY <1>1 DEF APolicy, AnEntry
<1>3. /\ theSpec \in SpecType /\ theSpec.maxPRs \in Nat
      /\ \A p \in RPolicies : applied[p] \in Nat /\ PolicySpec[p].maxPRs \in Nat
  BY <1>1, RemediationAssumption DEF theSpec, SpecType, TypeOK
<1>4. \A e \in BoardEntry : branchOf(e) \in Branches
  BY RemediationAssumption DEF branchOf, BoardEntry
<1> QED  BY <1>1, <1>2, <1>3, <1>4, RemediationAssumption DEF TypeOK

(* Every step keeps the state well typed.                                  *)
LEMMA TypeNext ==
  ASSUME TypeOK, CopiesAreOlder, IsFiniteSet(open), [Next]_vars
  PROVE  TypeOK'
<1>b. board' \in Boards
  BY BoardMoves
<1>v. /\ APolicy \in RPolicies /\ AnEntry \in BoardEntry /\ branchOf(entry) \in Branches
      /\ \A e \in BoardEntry : branchOf(e) \in Branches
      /\ \A p \in RPolicies : applied[p] \in Nat
  BY Values
<1>c. Cardinality(open) \in Nat
  BY FS_CardinalityType
<1>s. DOMAIN snap \subseteq 1 .. MaxIncidents /\ \A i \in DOMAIN snap : snap[i] \in BoardEntry
  BY BoardShape, BoardAssumption DEF CopiesAreOlder
<1> USE <1>b, RemediationAssumption DEF TypeOK, cycle, engine, history, Kinds, Spend
<1>1. ASSUME NEW p \in RPolicies, Start(p) PROVE TypeOK'
  BY <1>1 DEF Start
<1>2. CASE EnsureGitOpsEngine \/ ReadIncidents
  BY <1>2 DEF EnsureGitOpsEngine, ReadIncidents
<1>3. CASE SnapshotOpenPRs
  BY <1>3, <1>c DEF SnapshotOpenPRs, AfterList
<1>4. ASSUME NEW i \in DOMAIN snap,
             SkipIncident(i) \/ DedupIncident(i) \/ PlanOnly(i)
      PROVE  TypeOK'
  BY <1>4 DEF SkipIncident, DedupIncident, PlanOnly, Take
<1>5. ASSUME NEW i \in DOMAIN snap, PlanForApply(i) PROVE TypeOK'
  BY <1>5, <1>s DEF PlanForApply, Take
<1>6. CASE Audited \/ ApplyNoEngine \/ ApplyFailed
  BY <1>6, <1>v, BoardAssumption DEF Audited, ApplyNoEngine, ApplyFailed, Charge
<1>7. CASE CreatePR
  BY <1>7 DEF CreatePR, Call, Answer, Replies
<1>8. CASE ServiceAnswers
  <2>1. reply' \in [Callers -> Replies] /\ open' \subseteq Branches
    BY <1>8, <1>v DEF ServiceAnswers, OpenNew, OpenUnconfirmed, ReturnExisting, Fail, Answer, Replies
  <2>2. opened' \in Nat /\ spent' \in [Kinds -> Nat]
    BY <1>8 DEF ServiceAnswers
  <2> QED  BY <1>8, <2>1, <2>2 DEF ServiceAnswers
<1>9. CASE Applied
  BY <1>9, <1>v, BoardAssumption DEF Applied, Charge
<1>10. CASE EndLoop \/ ApplyAudit
  BY <1>10 DEF EndLoop, ApplyAudit
<1>11. CASE UpdateStatus
  <2>1. /\ wpc' = "idle" /\ rp' \in RPolicies /\ DOMAIN snap' = {}
        /\ openPRs' = 0 /\ existing' = {} /\ processed' = 0 /\ created' = 0
        /\ uncounted' = {} /\ audit' = FALSE
        /\ UNCHANGED <<open, reply, cur, entry, strategy, client, registered, ever, opened>>
    BY <1>11, <1>v DEF UpdateStatus, NoEntries
  <2>2. applied' \in [RPolicies -> Nat] /\ spent' \in [Kinds -> Nat]
    BY <1>11, <1>v DEF UpdateStatus
  <2> QED  BY <2>1, <2>2
<1>12. CASE Findings \/ Configure \/ Reviewers
  <2>1. CASE Findings
    <3>1. spent' \in [Kinds -> Nat]
      BY <2>1 DEF Findings
    <3> QED  BY <2>1, <3>1 DEF Findings
  <2>2. CASE Configure
    <3>1. client' \in BOOLEAN /\ strategy' \in {"dry-run", "gitops-pr"} /\ audit' \in BOOLEAN
      BY <2>2 DEF Configure
    <3> QED  BY <2>2, <3>1 DEF Configure
  <2>3. CASE Reviewers
    BY <2>3 DEF Reviewers, CloseByUser
  <2> QED  BY <1>12, <2>1, <2>2, <2>3
<1>13. CASE Restart
  <2>1. /\ wpc' = "idle" /\ rp' \in RPolicies /\ cur' = 0 /\ entry' \in BoardEntry
        /\ openPRs' = 0 /\ existing' = {} /\ processed' = 0 /\ created' = 0
        /\ strategy' = "dry-run" /\ client' \in BOOLEAN /\ registered' \in BOOLEAN
        /\ uncounted' = {} /\ audit' = FALSE
        /\ UNCHANGED <<open, applied, ever, opened>>
    BY <1>13, <1>v DEF Restart
  <2>2. reply' \in [Callers -> Replies] /\ spent' \in [Kinds -> Nat]
    BY <1>13 DEF Restart, Replies
  <2>3. cur' \in 0 .. MaxIncidents
    BY <2>1, BoardAssumption
  <2> QED  BY <2>1, <2>2, <2>3
<1>14. CASE UNCHANGED vars
  BY <1>14 DEF vars
<1>15. ASSUME NEW b \in PresetBranches, PresetOpens(b) PROVE TypeOK'
  BY <1>15 DEF PresetOpens, OpenByUser
<1> QED  BY <1>1, <1>2, <1>3, <1>4, <1>5, <1>6, <1>7, <1>8, <1>9, <1>10, <1>11, <1>12, <1>13, <1>14,
            <1>15 DEF Next, Worker

(* The worker's copies stay older than the board, however it grows.        *)
LEMMA CopiesNext ==
  ASSUME TypeOK, CopiesAreOlder, [Next]_vars
  PROVE  CopiesAreOlder'
<1>1. CASE Restart
  <2>1. DOMAIN snap' = {} /\ wpc' = "idle"
    BY <1>1 DEF Restart, NoEntries
  <2> QED  BY <2>1 DEF CopiesAreOlder, Acting
<1>2. CASE ~Restart
  <2>1. /\ DOMAIN board \subseteq DOMAIN board'
        /\ \A i \in DOMAIN board : /\ board[i] \in BoardEntry /\ board'[i] \in BoardEntry
                                   /\ Older(board[i], board'[i])
    BY <1>2, BoardMoves DEF EntryMoves
  <2>2. \A e \in BoardEntry, i \in DOMAIN board : Older(e, board[i]) => Older(e, board'[i])
    BY <2>1, OlderOrder
  <2>3. ASSUME DOMAIN snap' \subseteq DOMAIN snap,
               \A i \in DOMAIN snap' : snap'[i] = snap[i],
               Acting' => Acting /\ cur' = cur /\ entry' = entry
        PROVE  CopiesAreOlder'
    BY <2>1, <2>2, <2>3 DEF CopiesAreOlder, TypeOK
  <2>4. CASE ReadIncidents
    <3>1. /\ DOMAIN snap' \subseteq DOMAIN board /\ \A i \in DOMAIN snap' : snap'[i] = board[i]
          /\ wpc' = "list"
      BY <2>4 DEF ReadIncidents
    <3>2. \A i \in DOMAIN board : Older(board[i], board[i])
      BY <2>1, OlderOrder
    <3> QED  BY <2>1, <2>2, <3>1, <3>2 DEF CopiesAreOlder, Acting
  <2>5. ASSUME NEW i \in DOMAIN snap, PlanForApply(i) PROVE CopiesAreOlder'
    <3>1. /\ DOMAIN snap' \subseteq DOMAIN snap /\ \A j \in DOMAIN snap' : snap'[j] = snap[j]
          /\ cur' = i /\ entry' = snap[i]
      BY <2>5 DEF PlanForApply, Take
    <3> QED  BY <2>1, <2>2, <3>1 DEF CopiesAreOlder
  <2>6. ASSUME NEW i \in DOMAIN snap, SkipIncident(i) \/ DedupIncident(i) \/ PlanOnly(i)
        PROVE  CopiesAreOlder'
    BY <2>3, <2>6 DEF SkipIncident, DedupIncident, PlanOnly, Take, Acting
  <2>7. ASSUME NEW p \in RPolicies, Start(p) PROVE CopiesAreOlder'
    BY <2>3, <2>7 DEF Start, Acting
  <2>8. CASE EnsureGitOpsEngine \/ SnapshotOpenPRs \/ EndLoop \/ CreatePR \/ ServiceAnswers
    BY <2>3, <2>8 DEF EnsureGitOpsEngine, SnapshotOpenPRs, AfterList, EndLoop, CreatePR, ServiceAnswers,
                      Acting, cycle
  <2>9. CASE ApplyAudit \/ Audited \/ ApplyNoEngine \/ ApplyFailed \/ Applied
    BY <2>3, <2>9 DEF ApplyAudit, Audited, ApplyNoEngine, ApplyFailed, Applied, Charge, Acting, cycle
  <2>10. CASE UpdateStatus
    BY <2>3, <2>10 DEF UpdateStatus, NoEntries, Acting
  <2>11. CASE Findings \/ Configure \/ Reviewers \/ UNCHANGED vars
    BY <2>3, <2>11 DEF Findings, Configure, Reviewers, vars, cycle, Acting
  <2>12. ASSUME NEW b \in PresetBranches, PresetOpens(b) PROVE CopiesAreOlder'
    BY <2>3, <2>12 DEF PresetOpens, cycle, Acting
  <2> QED  BY <1>2, <2>4, <2>5, <2>6, <2>7, <2>8, <2>9, <2>10, <2>11, <2>12 DEF Next, Worker
<1> QED  BY <1>1, <1>2

(* Only a plan that passed the filters, for a branch the cycle does not    *)
(* know, is applied; nothing the cycle reads of its policy changes on the  *)
(* way.                                                                    *)
LEMMA ScopeNext ==
  ASSUME TypeOK, ActsInScope, CountersReset, [Next]_vars
  PROVE  ActsInScope' /\ CountersReset'
<1> USE DEF ActsInScope, CountersReset, Acting, cycle, theSpec
<1>1. ASSUME NEW p \in RPolicies, Start(p) PROVE ActsInScope' /\ CountersReset'
  BY <1>1 DEF Start
<1>2. CASE EnsureGitOpsEngine \/ ReadIncidents \/ SnapshotOpenPRs \/ EndLoop
  BY <1>2 DEF EnsureGitOpsEngine, ReadIncidents, SnapshotOpenPRs, AfterList, EndLoop
<1>3. ASSUME NEW i \in DOMAIN snap, SkipIncident(i) \/ DedupIncident(i) \/ PlanOnly(i)
      PROVE  ActsInScope' /\ CountersReset'
  BY <1>3 DEF SkipIncident, DedupIncident, PlanOnly, Take
<1>4. ASSUME NEW i \in DOMAIN snap, PlanForApply(i) PROVE ActsInScope' /\ CountersReset'
  BY <1>4 DEF PlanForApply, Take
<1>5. CASE CreatePR \/ ServiceAnswers
  BY <1>5 DEF CreatePR, ServiceAnswers
<1>6. CASE ApplyAudit \/ Audited \/ ApplyNoEngine \/ ApplyFailed \/ Applied
  BY <1>6 DEF ApplyAudit, Audited, ApplyNoEngine, ApplyFailed, Applied, Charge
<1>7. CASE UpdateStatus
  BY <1>7 DEF UpdateStatus
<1>8. CASE Findings \/ Configure \/ Reviewers \/ UNCHANGED vars
  BY <1>8 DEF Findings, Configure, Reviewers, vars
<1>9. CASE Restart
  BY <1>9 DEF Restart
<1>10. ASSUME NEW b \in PresetBranches, PresetOpens(b) PROVE ActsInScope' /\ CountersReset'
  BY <1>10 DEF PresetOpens
<1> QED  BY <1>1, <1>2, <1>3, <1>4, <1>5, <1>6, <1>7, <1>8, <1>9, <1>10 DEF Next, Worker

(* What the pull-request service may do while the worker waits.            *)
LEMMA ServiceFacts ==
  ASSUME TypeOK, ServiceAnswers
  PROVE  LET b == branchOf(entry) IN
         /\ wpc = "waiting" /\ wpc' = "waiting" /\ reply["worker"] = "busy"
         /\ spent'["blind"] = spent["blind"] /\ ever' = ever \cup open'
         /\ UNCHANGED <<entry, existing, openPRs, processed, created, registered, applied, rp,
                       uncounted>>
         /\ \/ /\ b \notin open /\ open' = open \cup {b} /\ opened' = opened + 1
               /\ reply'["worker"] \in {"new", "error"}
            \/ /\ b \in open /\ open' = open /\ opened' = opened
               /\ reply'["worker"] = "existing"
            \/ /\ open' = open /\ opened' = opened
               /\ reply'["worker"] = "error"
<1>1. "worker" \in DOMAIN reply
  BY RemediationAssumption DEF TypeOK
<1>2. spent'["blind"] = spent["blind"]
  BY DEF ServiceAnswers, Spend, TypeOK, Kinds
<1> QED  BY <1>1, <1>2 DEF ServiceAnswers, cycle, engine, OpenNew, OpenUnconfirmed, ReturnExisting, Fail, Answer

(* The pull requests the list could show are covered by what the cycle has *)
(* counted.                                                                *)
LEMMA BudgetNext ==
  ASSUME TypeOK, Budgeted, CountersReset, [Next]_vars
  PROVE  Budgeted'
<1> DEFINE Shown == open \ uncounted
<1>v. /\ theSpec.maxPRs \in Nat /\ openPRs \in Nat /\ processed \in Nat
      /\ IsFiniteSet(Shown) /\ Cardinality(Shown) \in Nat /\ Cardinality(open) \in Nat
  BY Values, FS_Subset, FS_CardinalityType DEF TypeOK, Budgeted
<1> USE DEF Budgeted, Acting, Looping, cycle, engine, history, theSpec
<1>1. ASSUME NEW p \in RPolicies, Start(p) PROVE Budgeted'
  BY <1>1 DEF Start
<1>2. CASE EnsureGitOpsEngine \/ ReadIncidents
  BY <1>2 DEF EnsureGitOpsEngine, ReadIncidents
<1>3. CASE SnapshotOpenPRs
  <2>1. /\ processed = 0 /\ open' = open /\ processed' = processed
        /\ wpc' \in {"loop", "status"}
    BY <1>3 DEF SnapshotOpenPRs, AfterList, CountersReset
  <2>2. Cardinality(open' \ uncounted') = openPRs'
    <3>1. CASE openPRs' = Cardinality(open) /\ uncounted' = {}
      <4>1. open \ {} = open
        OBVIOUS
      <4> QED  BY <2>1, <3>1, <4>1
    <3>2. CASE openPRs' = 0 /\ uncounted' = open
      <4>1. open \ open = {} /\ Cardinality({}) = 0
        BY FS_EmptySet
      <4> QED  BY <2>1, <3>2, <4>1
    <3> QED  BY <1>3, <3>1, <3>2 DEF SnapshotOpenPRs
  <2>3. openPRs' \in Nat
    BY <1>3, <1>v DEF SnapshotOpenPRs
  <2> QED  BY <1>v, <2>1, <2>2, <2>3
<1>4. ASSUME NEW i \in DOMAIN snap, SkipIncident(i) \/ DedupIncident(i) PROVE Budgeted'
  BY <1>4 DEF SkipIncident, DedupIncident, Take
<1>5. ASSUME NEW i \in DOMAIN snap, PlanOnly(i) PROVE Budgeted'
  BY <1>5, <1>v DEF PlanOnly, Take
<1>6. ASSUME NEW i \in DOMAIN snap, PlanForApply(i) PROVE Budgeted'
  BY <1>6, <1>v DEF PlanForApply, Take
<1>7. CASE Audited \/ ApplyNoEngine \/ ApplyFailed \/ Applied
  BY <1>7, <1>v DEF Audited, ApplyNoEngine, ApplyFailed, Applied, Charge
<1>8. CASE CreatePR
  BY <1>8, <1>v, RemediationAssumption DEF CreatePR, Call, Answer, TypeOK
<1>9. CASE ServiceAnswers
  <2> DEFINE b == branchOf(entry)
  <2>1. CASE b \notin open /\ open' = open \cup {b} /\ reply'["worker"] \in {"new", "error"}
    <3>1. open' \ uncounted \subseteq Shown \cup {b}
      BY <2>1
    <3>2. IsFiniteSet(Shown \cup {b}) /\ Cardinality(Shown \cup {b}) <= Cardinality(Shown) + 1
      <4>1. IsFiniteSet(Shown) /\ Cardinality(Shown) \in Nat
        BY <1>v
      <4> HIDE DEF b, Shown
      <4>2. /\ IsFiniteSet(Shown \cup {b})
            /\ Cardinality(Shown \cup {b}) = IF b \in Shown THEN Cardinality(Shown)
                                            ELSE Cardinality(Shown) + 1
        BY <4>1, FS_AddElement
      <4> QED  BY <4>1, <4>2
    <3>3. /\ Cardinality(open' \ uncounted) <= Cardinality(Shown) + 1
          /\ Cardinality(open' \ uncounted) \in Nat /\ IsFiniteSet(open')
          /\ Cardinality(Shown \cup {b}) \in Nat
      <4>1. /\ IsFiniteSet(open' \ uncounted)
            /\ Cardinality(open' \ uncounted) <= Cardinality(Shown \cup {b})
        BY <3>1, <3>2, FS_Subset
      <4>2. Cardinality(open' \ uncounted) \in Nat /\ Cardinality(Shown \cup {b}) \in Nat
        BY <3>2, <4>1, FS_CardinalityType
      <4>3. IsFiniteSet(open \cup {b})
        BY FS_AddElement
      <4> HIDE DEF b, Shown
      <4> QED  BY <1>v, <2>1, <3>2, <4>1, <4>2, <4>3
    <3> QED  BY <1>9, <1>v, <2>1, <3>3, ServiceFacts
  <2>2. CASE open' = open
    BY <1>9, <1>v, <2>2, ServiceFacts
  <2> QED  BY <1>9, <2>1, <2>2, ServiceFacts
<1>10. CASE EndLoop \/ ApplyAudit
  BY <1>10 DEF EndLoop, ApplyAudit
<1>11. CASE UpdateStatus
  BY <1>11 DEF UpdateStatus
<1>12. CASE Findings
  BY <1>12 DEF Findings
<1>13. CASE Configure
  BY <1>13 DEF Configure
<1>14. CASE Reviewers
  <2>1. PICK b \in open : open' = open \ {b}
    BY <1>14 DEF Reviewers, CloseByUser
  <2>2. open' \ uncounted \subseteq Shown /\ open' \subseteq open
    BY <2>1
  <2>3. /\ IsFiniteSet(open') /\ IsFiniteSet(open' \ uncounted)
        /\ Cardinality(open' \ uncounted) <= Cardinality(Shown)
    BY <1>v, <2>2, FS_Subset
  <2>4. Cardinality(open' \ uncounted) \in Nat
    BY <2>3, FS_CardinalityType
  <2>5. UNCHANGED <<wpc, openPRs, processed, rp, registered, reply, uncounted>>
    BY <1>14 DEF Reviewers, CloseByUser
  <2> QED  BY <1>v, <2>3, <2>4, <2>5
<1>15. CASE Restart
  BY <1>15 DEF Restart
<1>16. CASE UNCHANGED vars
  BY <1>16 DEF vars
<1>17. ASSUME NEW b \in PresetBranches, PresetOpens(b) PROVE Budgeted'
  <2>1. /\ open' = open \cup {b} /\ uncounted' = uncounted \cup {b}
        /\ UNCHANGED <<wpc, openPRs, processed, rp, registered, reply>>
    BY <1>17 DEF PresetOpens, OpenByUser
  <2>2. open' \ uncounted' \subseteq Shown
    BY <2>1
  <2>3. Cardinality(open' \ uncounted') <= Cardinality(Shown) /\ IsFiniteSet(open' \ uncounted')
    BY <1>v, <2>2, FS_Subset
  <2>4. Cardinality(open' \ uncounted') \in Nat /\ IsFiniteSet(open')
    BY <2>1, <2>3, FS_AddElement, FS_CardinalityType
  <2> QED  BY <1>v, <2>1, <2>3, <2>4
<1> QED  BY <1>1, <1>2, <1>3, <1>4, <1>5, <1>6, <1>7, <1>8, <1>9, <1>10, <1>11, <1>12, <1>13, <1>14,
            <1>15, <1>16, <1>17 DEF Next, Worker

(* What was open once is remembered.                                       *)
LEMMA KnownNext ==
  ASSUME TypeOK, KnownHaveBeenOpen, [Next]_vars
  PROVE  KnownHaveBeenOpen'
<1> USE DEF KnownHaveBeenOpen, Answered, cycle, history
<1>1. CASE ServiceAnswers
  BY <1>1, ServiceFacts
<1>2. CASE Applied
  BY <1>2 DEF Applied, Charge
<1>3. CASE CreatePR
  BY <1>3, RemediationAssumption DEF CreatePR, Call, Answer, TypeOK
<1>4. ASSUME NEW i \in DOMAIN snap,
             SkipIncident(i) \/ DedupIncident(i) \/ PlanOnly(i) \/ PlanForApply(i)
      PROVE  KnownHaveBeenOpen'
  BY <1>4 DEF SkipIncident, DedupIncident, PlanOnly, PlanForApply, Take
<1>5. CASE \/ \E p \in RPolicies : Start(p)
           \/ EnsureGitOpsEngine \/ ReadIncidents \/ SnapshotOpenPRs \/ EndLoop \/ UpdateStatus
  BY <1>5 DEF Start, EnsureGitOpsEngine, ReadIncidents, SnapshotOpenPRs, AfterList, EndLoop, UpdateStatus
<1>6. CASE ApplyAudit \/ Audited \/ ApplyNoEngine \/ ApplyFailed
  BY <1>6 DEF ApplyAudit, Audited, ApplyNoEngine, ApplyFailed, Charge
<1>7. CASE Findings \/ Configure \/ Reviewers \/ Restart \/ UNCHANGED vars
  BY <1>7 DEF Findings, Configure, Reviewers, CloseByUser, Restart, vars
<1>8. ASSUME NEW b \in PresetBranches, PresetOpens(b) PROVE KnownHaveBeenOpen'
  BY <1>8 DEF PresetOpens, OpenByUser
<1> QED  BY <1>1, <1>2, <1>3, <1>4, <1>5, <1>6, <1>7, <1>8 DEF Next, Worker

(* A failed ListOpenPRs is not forgotten, and only one in snapshotOpenPRs  *)
(* counts.                                                                 *)
LEMMA BlindKept ==
  ASSUME TypeOK, [Next]_vars
  PROVE  spent'["blind"] = 0 => spent["blind"] = 0
<1> USE DEF TypeOK, Kinds, Spend
<1>1. CASE SnapshotOpenPRs
  BY <1>1 DEF SnapshotOpenPRs
<1>2. ASSUME NEW i \in DOMAIN snap,
             SkipIncident(i) \/ DedupIncident(i) \/ PlanOnly(i) \/ PlanForApply(i)
      PROVE  spent'["blind"] = spent["blind"]
  BY <1>2 DEF SkipIncident, DedupIncident, PlanOnly, PlanForApply
<1>3. CASE \/ \E p \in RPolicies : Start(p)
           \/ EnsureGitOpsEngine \/ ReadIncidents \/ EndLoop \/ UpdateStatus
           \/ ApplyAudit \/ Audited \/ ApplyNoEngine \/ ApplyFailed \/ Applied \/ CreatePR
           \/ \E b \in PresetBranches : PresetOpens(b)
  BY <1>3 DEF Start, EnsureGitOpsEngine, ReadIncidents, EndLoop, UpdateStatus, ApplyAudit, Audited,
              ApplyNoEngine, ApplyFailed, Applied, CreatePR, PresetOpens
<1>4. CASE Findings \/ Configure \/ Reviewers \/ Restart \/ UNCHANGED vars
  BY <1>4 DEF Findings, Configure, Reviewers, Restart, vars
<1>5. CASE ServiceAnswers
  BY <1>5, ServiceFacts
<1> QED  BY <1>1, <1>2, <1>3, <1>4, <1>5 DEF Next, Worker

(* A change of the strategy while a plan is made or applied is noted.      *)
LEMMA AuditNext ==
  ASSUME TypeOK, CopiesAreOlder, AuditSeen, [Next]_vars
  PROVE  AuditSeen'
<1>v. Acting => cur # 0
  BY BoardShape DEF CopiesAreOlder
<1> USE DEF AuditSeen, Acting, cycle, engine, history
<1>1. CASE Configure
  <2>1. wpc \in {"apply", "audited"} => audit' = (audit \/ strategy' = "dry-run")
    BY <1>v, <1>1 DEF Configure
  <2> QED  BY <1>1, <2>1 DEF Configure
<1>2. ASSUME NEW i \in DOMAIN snap, PlanForApply(i) PROVE AuditSeen'
  BY <1>2 DEF PlanForApply
<1>3. CASE ApplyAudit
  BY <1>3 DEF ApplyAudit
<1>4. CASE wpc' \notin {"apply", "audited"}
  BY <1>4
<1>5. CASE UNCHANGED <<wpc, strategy, audit>>
  BY <1>5
<1>6. ASSUME NEW p \in RPolicies, Start(p) PROVE AuditSeen'
  BY <1>4, <1>6 DEF Start
<1>7. ASSUME NEW i \in DOMAIN snap, SkipIncident(i) \/ DedupIncident(i) \/ PlanOnly(i)
      PROVE  AuditSeen'
  BY <1>5, <1>7 DEF SkipIncident, DedupIncident, PlanOnly
<1>8. CASE \/ EnsureGitOpsEngine \/ ReadIncidents \/ SnapshotOpenPRs \/ EndLoop \/ UpdateStatus
           \/ Audited \/ ApplyNoEngine \/ ApplyFailed \/ Applied \/ CreatePR \/ Restart
  BY <1>4, <1>8 DEF EnsureGitOpsEngine, ReadIncidents, SnapshotOpenPRs, AfterList, EndLoop,
                    UpdateStatus, Audited, ApplyNoEngine, ApplyFailed, Applied, Charge, CreatePR, Restart
<1>9. CASE \/ ServiceAnswers \/ Findings \/ Reviewers \/ UNCHANGED vars
           \/ \E b \in PresetBranches : PresetOpens(b)
  BY <1>5, <1>9 DEF ServiceAnswers, Findings, Reviewers, PresetOpens, vars
<1> QED  BY <1>1, <1>2, <1>3, <1>6, <1>7, <1>8, <1>9 DEF Next, Worker

(* Reconcile counts a pull request once, and only one that the worker      *)
(* opened: either the call that counts it opened it, or an earlier call of *)
(* the cycle did and lost the reply.                                       *)
LEMMA AccountedNext ==
  ASSUME TypeOK, Budgeted, ActsInScope, CountersReset, Accounted, [Next]_vars
  PROVE  Accounted'
<1> SUFFICES ASSUME spent'["blind"] = 0, spent["blind"] = 0, NEW p \in RPolicies
             PROVE  /\ applied'[p] + created' <= opened'
                    /\ registered' /\ Looping' =>
                         applied'[p] + created' + Cardinality(open' \ Known') <= opened'
                    /\ Answered' =>
                         applied'[p] + created' + 1
                           + Cardinality(open' \ (Known' \cup {branchOf(entry')})) <= opened'
  BY BlindKept DEF Accounted, branchOf
<1> DEFINE b == branchOf(entry)
           Out == Cardinality(open \ Known)
           Rest == Cardinality(open \ (Known \cup {b}))
<1>v. applied[p] \in Nat /\ created \in Nat /\ opened \in Nat
  BY DEF TypeOK
<1>f. /\ IsFiniteSet(open) /\ IsFiniteSet(open \ Known) /\ Out \in Nat
      /\ IsFiniteSet(open \ (Known \cup {b})) /\ Rest \in Nat
  BY FS_Subset, FS_CardinalityType DEF Budgeted
<1>b. b \notin PresetBranches
  BY RemediationAssumption DEF TypeOK, BoardEntry, branchOf
<1>a. /\ applied[p] + created <= opened
      /\ registered /\ Looping => applied[p] + created + Out <= opened
      /\ Answered => applied[p] + created + 1 + Rest <= opened
  BY DEF Accounted
<1> USE DEF Looping, Answered, Known, cycle, engine, history
<1> HIDE DEF b, Out, Rest
<1>2. ASSUME NEW q \in RPolicies, Start(q) PROVE applied'[p] + created' <= opened' /\ ~Looping'
  BY <1>2, <1>a DEF Start
<1>3. CASE EnsureGitOpsEngine \/ ReadIncidents
  BY <1>3, <1>a DEF EnsureGitOpsEngine, ReadIncidents
<1>4. CASE SnapshotOpenPRs
  <2>1. registered => existing' = open
    BY <1>4 DEF SnapshotOpenPRs, TypeOK, Kinds
  <2>2. wpc' # "waiting" /\ UNCHANGED <<applied, created, opened, registered, open>>
    BY <1>4 DEF SnapshotOpenPRs, AfterList
  <2>3. registered' => open' \ Known' = {}
    BY <2>1, <2>2
  <2>4. registered' => Cardinality(open' \ Known') = 0
    BY <2>3, FS_EmptySet
  <2> QED  BY <1>a, <1>v, <2>2, <2>4
<1>5. ASSUME NEW i \in DOMAIN snap,
             SkipIncident(i) \/ DedupIncident(i) \/ PlanOnly(i) \/ PlanForApply(i)
      PROVE  /\ wpc = "loop" /\ wpc' # "waiting"
             /\ UNCHANGED <<applied, created, opened, registered, open, existing>>
  BY <1>5 DEF SkipIncident, DedupIncident, PlanOnly, PlanForApply, Take
<1>6. CASE ApplyAudit \/ Audited \/ ApplyNoEngine \/ ApplyFailed
  <2>1. /\ Looping /\ wpc' \in {"loop", "audited"}
        /\ UNCHANGED <<applied, created, opened, registered, open, existing>>
    BY <1>6 DEF ApplyAudit, Audited, ApplyNoEngine, ApplyFailed, Charge
  <2> QED  BY <1>a, <2>1 DEF Out
<1>7. CASE CreatePR
  <2>1. /\ wpc = "apply" /\ reply'["worker"] = "busy"
        /\ UNCHANGED <<applied, created, opened, registered, open, existing>>
    BY <1>7, RemediationAssumption DEF CreatePR, Call, Answer, TypeOK
  <2> QED  BY <1>a, <2>1 DEF Out
<1>8. CASE ServiceAnswers
  <2>1. /\ wpc = "waiting" /\ wpc' = "waiting" /\ registered /\ b \notin existing
        /\ UNCHANGED <<entry, existing, created, registered, applied>>
    BY <1>8, ServiceFacts DEF ActsInScope, Acting, Budgeted, b
  <2>2. CASE /\ b \notin open /\ open' = open \cup {b} /\ opened' = opened + 1
    <3>1. /\ open' \ Known = (open \ Known) \cup {b} /\ b \notin open \ Known
          /\ open' \ (Known \cup {b}) = open \ Known
      BY <1>b, <2>1, <2>2
    <3>2. Cardinality(open' \ Known) = Out + 1
      BY <1>f, <3>1, FS_AddElement DEF Out
    <3>3. Cardinality(open' \ (Known \cup {b})) = Out
      BY <3>1 DEF Out
    <3> QED  BY <1>a, <1>v, <1>f, <2>1, <2>2, <3>2, <3>3 DEF b
  <2>3. CASE b \in open /\ open' = open /\ opened' = opened
    <3>1. open \ (Known \cup {b}) = (open \ Known) \ {b} /\ b \in open \ Known
      BY <1>b, <2>1, <2>3
    <3>2. Rest = Out - 1
      BY <1>f, <3>1, FS_RemoveElement DEF Out, Rest
    <3> QED  BY <1>a, <1>v, <1>f, <2>1, <2>3, <3>2 DEF b, Out, Rest
  <2>4. CASE open' = open /\ opened' = opened /\ reply'["worker"] = "error"
    BY <1>a, <2>1, <2>4 DEF Out
  <2> QED  BY <1>8, <2>2, <2>3, <2>4, ServiceFacts DEF b
<1>9. CASE Applied
  <2>1. /\ Answered /\ wpc' = "loop" /\ created' = created + 1 /\ existing' = existing \cup {b}
        /\ UNCHANGED <<applied, opened, open>>
    BY <1>9 DEF Applied, Charge, b
  <2>2. open' \ Known' = open \ (Known \cup {b})
    BY <2>1
  <2>3. Cardinality(open' \ Known') = Rest
    BY <2>2 DEF Rest
  <2> HIDE DEF Known
  <2> QED  BY <1>a, <1>v, <1>f, <2>1, <2>3
<1>10. CASE EndLoop
  BY <1>10, <1>a DEF EndLoop
<1>11. CASE UpdateStatus
  <2>1. /\ wpc' = "idle" /\ created' = 0 /\ opened' = opened
        /\ applied'[p] \in {applied[p], applied[p] + created}
    BY <1>11 DEF UpdateStatus, TypeOK
  <2> QED  BY <1>a, <1>v, <2>1
<1>12. CASE Reviewers
  <2>1. PICK c \in open : open' = open \ {c}
    BY <1>12 DEF Reviewers, CloseByUser
  <2>2. UNCHANGED <<wpc, entry, existing, created, opened, applied, registered, reply>>
    BY <1>12 DEF Reviewers, CloseByUser
  <2>3. open' \ Known \subseteq open \ Known
        /\ open' \ (Known \cup {b}) \subseteq open \ (Known \cup {b})
    BY <2>1
  <2>4. Cardinality(open' \ Known) <= Out /\ Cardinality(open' \ Known) \in Nat
    BY <1>f, <2>3, FS_Subset, FS_CardinalityType DEF Out
  <2>5. /\ Cardinality(open' \ (Known \cup {b})) <= Rest
        /\ Cardinality(open' \ (Known \cup {b})) \in Nat
    BY <1>f, <2>3, FS_Subset, FS_CardinalityType DEF Rest
  <2> QED  BY <1>a, <1>v, <1>f, <2>2, <2>4, <2>5 DEF b
<1>13. CASE Restart
  BY <1>13, <1>a, <1>v DEF Restart
<1>14. CASE Findings \/ Configure \/ UNCHANGED vars
  <2>1. UNCHANGED <<wpc, entry, existing, created, opened, applied, registered, reply, open>>
    BY <1>14 DEF Findings, Configure, vars
  <2> QED  BY <1>a, <2>1 DEF Out, Rest, b
<1>15. ASSUME NEW i \in DOMAIN snap,
              SkipIncident(i) \/ DedupIncident(i) \/ PlanOnly(i) \/ PlanForApply(i)
       PROVE  /\ applied'[p] + created' <= opened'
              /\ registered' => applied'[p] + created' + Cardinality(open' \ Known') <= opened'
              /\ ~Answered'
  BY <1>5, <1>15, <1>a DEF Out
<1>16. ASSUME NEW c \in PresetBranches, PresetOpens(c)
       PROVE  /\ open' \ Known' = open \ Known
              /\ open' \ (Known' \cup {b}) = open \ (Known \cup {b})
              /\ UNCHANGED <<wpc, entry, existing, created, opened, applied, registered, reply>>
  BY <1>16 DEF PresetOpens, OpenByUser
<1>17. ASSUME NEW c \in PresetBranches, PresetOpens(c)
       PROVE  /\ applied'[p] + created' <= opened'
              /\ registered' /\ Looping' =>
                   applied'[p] + created' + Cardinality(open' \ Known') <= opened'
              /\ Answered' =>
                   applied'[p] + created' + 1 + Cardinality(open' \ (Known' \cup {branchOf(entry')})) <= opened'
  <2>1. branchOf(entry') = b
    BY <1>16, <1>17 DEF b
  <2> HIDE DEF Known
  <2> QED  BY <1>16, <1>17, <1>a, <2>1 DEF Out, Rest
<1> QED  BY <1>2, <1>3, <1>4, <1>6, <1>7, <1>8, <1>9, <1>10, <1>11, <1>12, <1>13, <1>14, <1>15, <1>17
         DEF Next, Worker

(* A resolved incident was in scope when the worker acted on its copy, and *)
(* is in scope as it stands.                                               *)
LEMMA ResolvedNext ==
  ASSUME TypeOK, CopiesAreOlder, ActsInScope, OnlyInScopeResolved, [Next]_vars
  PROVE  OnlyInScopeResolved'
<1>1. CASE Restart
  BY <1>1 DEF Restart, OnlyInScopeResolved
<1>2. CASE ~Restart
  <2> SUFFICES ASSUME NEW i \in DOMAIN board', board'[i].resolved
               PROVE  \E p \in RPolicies : ~PolicySpec[p].dryRun /\ InScope(board'[i], PolicySpec[p])
    BY DEF OnlyInScopeResolved, InScope, incidentMatchesTargets
  <2>1. i \in DOMAIN board /\ EntryMoves(i)
    BY <1>2, BoardMoves
  <2>2. CASE board[i].resolved
    BY <2>1, <2>2 DEF EntryMoves, OnlyInScopeResolved
  <2>3. CASE ~board[i].resolved
    <3>1. WorkerResolves(i)
      BY <2>1, <2>3 DEF EntryMoves
    <3>2. \E e \in BoardEntry : Older(e, board[i]) /\ InScope(e, theSpec) /\ ~theSpec.dryRun
      <4>1. CASE i = cur /\ (Audited \/ Applied)
        BY <4>1 DEF Audited, Applied, CopiesAreOlder, ActsInScope, Acting, TypeOK
      <4>2. CASE i \in DOMAIN snap /\ DedupIncident(i) /\ ~theSpec.dryRun
        BY <4>2 DEF DedupIncident, CopiesAreOlder
      <4> QED  BY <3>1, <4>1, <4>2 DEF WorkerResolves
    <3>3. PICK e \in BoardEntry : Older(e, board[i]) /\ InScope(e, theSpec) /\ ~theSpec.dryRun
      BY <3>2
    <3>4. Older(e, board'[i]) /\ board'[i] \in BoardEntry
      BY <2>1, <3>3, OlderOrder DEF EntryMoves
    <3>5. rp \in RPolicies /\ theSpec = PolicySpec[rp]
      BY DEF TypeOK, theSpec
    <3> QED  BY <3>3, <3>4, <3>5, ScopeGrows
  <2> QED  BY <2>2, <2>3
<1> QED  BY <1>1, <1>2

-----------------------------------------------------------------------------
(* The operator starts with its counters at zero and no incidents.         *)
LEMMA RInit == Init => RInv
<1> SUFFICES ASSUME Init PROVE RInv
  OBVIOUS
<1>1. board = <<>> /\ DOMAIN snap = {} /\ wpc = "idle" /\ created = 0 /\ processed = 0 /\ existing = {}
  BY DEF Init, BoardInit, IdleCycle, NoEntries
<1>2. TypeOK
  <2>1. <<>> \in [1 .. 0 -> BoardEntry] /\ 0 \in 0 .. MaxIncidents
    BY BoardAssumption
  <2>2. board \in Boards
    BY <1>1, <2>1 DEF Boards
  <2>3. \E p \in RPolicies : PolicySpec[p].minSeverity \in Severities
    BY RemediationAssumption DEF SpecType
  <2>4. rp \in RPolicies
    BY <2>3 DEF Init, IdleCycle, APolicy
  <2>5. BoardEntry # {}
    <3>1. PICK r \in Resources, s \in Severities, m \in Messages : TRUE
      BY <2>3, RemediationAssumption
    <3>2. [resource |-> r, severity |-> s, policies |-> {}, latest |-> m, resolved |-> FALSE] \in BoardEntry
      BY DEF BoardEntry
    <3> QED  BY <3>2
  <2>6. entry \in BoardEntry
    BY <2>5 DEF Init, IdleCycle, AnEntry
  <2> QED  BY <2>1, <2>2, <2>4, <2>6 DEF Init, IdleCycle, TypeOK, Replies, Kinds
<1>3. CopiesAreOlder /\ ActsInScope /\ CountersReset /\ OnlyInScopeResolved
  BY <1>1 DEF CopiesAreOlder, ActsInScope, CountersReset, OnlyInScopeResolved, Acting
<1>4. Budgeted /\ KnownHaveBeenOpen /\ AuditSeen
  BY <1>1 DEF Init, Budgeted, Acting, Looping, KnownHaveBeenOpen, Answered, AuditSeen
<1>5. Accounted
  BY <1>1 DEF Init, Accounted, Looping, Answered
<1> QED  BY <1>2, <1>3, <1>4, <1>5 DEF RInv

(* Every step of the worker, the controllers, the reviewers and a restart  *)
(* keeps the invariant.                                                    *)
LEMMA RNext == RInv /\ [Next]_vars => RInv'
<1> SUFFICES ASSUME RInv, [Next]_vars PROVE RInv'
  OBVIOUS
<1>1. TypeOK' /\ CopiesAreOlder'
  BY TypeNext, CopiesNext DEF RInv, Budgeted
<1>2. ActsInScope' /\ CountersReset' /\ Budgeted' /\ KnownHaveBeenOpen'
  BY ScopeNext, BudgetNext, KnownNext DEF RInv
<1>3. Accounted' /\ AuditSeen' /\ OnlyInScopeResolved'
  BY AccountedNext, AuditNext, ResolvedNext DEF RInv
<1> QED  BY <1>1, <1>2, <1>3 DEF RInv

(* The inductive invariant of the remediation loop.                        *)
LEMMA RInvariance == Spec => []RInv
  BY RInit, RNext, PTL DEF Spec

(* Type correctness of the composition of worker, board and pull-request   *)
(* service.                                                                *)
THEOREM RemediationTypeCorrect == Spec => []TypeOK
<1>1. RInv => TypeOK
  BY DEF RInv
<1> QED  BY RInvariance, <1>1, PTL

(* processIncidents keeps to maxConcurrentPRs: it opens a pull request     *)
(* only while the open ones its list could show, those of presets among    *)
(* them, are fewer than the cap, whatever replies are lost, however        *)
(* policies share the repository and whenever the operator restarts.       *)
THEOREM OpensWithinCapHolds == Spec => OpensWithinCap
<1> DEFINE Room == opened' > opened => Cardinality(open \ uncounted) < theSpec.maxPRs
<1>1. ASSUME RInv, [Next]_vars PROVE [Room]_vars
  <2> SUFFICES ASSUME Next, opened' > opened PROVE Cardinality(open \ uncounted) < theSpec.maxPRs
    BY <1>1
  <2>0. opened \in Nat /\ TypeOK
    BY <1>1 DEF RInv, TypeOK
  <2>1. ServiceAnswers
    <3>1. ASSUME NEW p \in RPolicies, Start(p) PROVE opened' = opened
      BY <3>1 DEF Start, history
    <3>2. ASSUME NEW i \in DOMAIN snap,
                 SkipIncident(i) \/ DedupIncident(i) \/ PlanOnly(i) \/ PlanForApply(i)
          PROVE  opened' = opened
      BY <3>2 DEF SkipIncident, DedupIncident, PlanOnly, PlanForApply, history
    <3>3. ASSUME \/ EnsureGitOpsEngine \/ ReadIncidents \/ SnapshotOpenPRs \/ ApplyAudit \/ Audited
                 \/ ApplyNoEngine \/ CreatePR \/ Applied \/ ApplyFailed \/ EndLoop \/ UpdateStatus
          PROVE  opened' = opened
      BY <3>3 DEF EnsureGitOpsEngine, ReadIncidents, SnapshotOpenPRs, ApplyAudit, Audited,
                  ApplyNoEngine, CreatePR, Applied, ApplyFailed, EndLoop, UpdateStatus, history
    <3>4. ASSUME Findings \/ Configure \/ Reviewers \/ Restart \/ \E b \in PresetBranches : PresetOpens(b)
          PROVE  opened' = opened
      BY <3>4 DEF Findings, Configure, Reviewers, Restart, PresetOpens, history
    <3> QED  BY <2>0, <3>1, <3>2, <3>3, <3>4 DEF Next, Worker
  <2>2. wpc = "waiting" /\ reply["worker"] = "busy"
    BY <2>0, <2>1, ServiceFacts
  <2>3. /\ openPRs + processed < theSpec.maxPRs
        /\ Cardinality(open \ uncounted) <= openPRs + processed
    BY <1>1, <2>2 DEF RInv, Budgeted, Acting, Looping, TypeOK
  <2>4. IsFiniteSet(open \ uncounted) /\ Cardinality(open \ uncounted) \in Nat
    BY <1>1, FS_Subset, FS_CardinalityType DEF RInv, Budgeted
  <2>5. openPRs \in Nat /\ processed \in Nat /\ theSpec.maxPRs \in Nat
    BY <2>0, Values DEF TypeOK
  <2> QED  BY <2>3, <2>4, <2>5
<1>2. Spec => [][Next]_vars
  BY PTL DEF Spec
<1> QED  BY <1>1, <1>2, RInvariance, PTL DEF OpensWithinCap

(* status.remediationsApplied never exceeds the pull requests the worker   *)
(* opened, until a ListOpenPRs fails.                                      *)
THEOREM AppliedAreRealAlways == Spec => []AppliedAreReal
<1>1. RInv => AppliedAreReal
  <2> SUFFICES ASSUME RInv, spent["blind"] = 0, NEW p \in RPolicies PROVE applied[p] <= opened
    BY DEF AppliedAreReal
  <2>1. applied[p] \in Nat /\ created \in Nat /\ opened \in Nat
    BY DEF RInv, TypeOK
  <2>2. applied[p] + created <= opened
    BY DEF RInv, Accounted
  <2> QED  BY <2>1, <2>2
<1> QED  BY RInvariance, <1>1, PTL

(* A resolved incident is in the scope of a policy that may act, although  *)
(* the worker judged an older copy of it.                                  *)
THEOREM OnlyInScopeResolvedAlways == Spec => []OnlyInScopeResolved
<1>1. RInv => OnlyInScopeResolved
  BY DEF RInv
<1> QED  BY RInvariance, <1>1, PTL

(* processIncidents never closes an incident with nothing done: its pull   *)
(* request has existed, or the strategy was to audit at some time since    *)
(* the plan was made; a policy that previews closes none.                  *)
THEOREM NothingSilentlyClosedHolds == Spec => NothingSilentlyClosed
<1> DEFINE Done(i) == /\ ~theSpec.dryRun
                      /\ \/ i = cur /\ (audit \/ branchOf(entry) \in ever)
                         \/ i \in DOMAIN snap /\ branchOf(snap[i]) \in ever
           Accountable == \A i \in DOMAIN board \cap DOMAIN board' :
                            ~board[i].resolved /\ board'[i].resolved => Done(i)
<1>1. ASSUME RInv, [Next]_vars PROVE [Accountable]_vars
  <2> SUFFICES ASSUME NEW i \in DOMAIN board \cap DOMAIN board',
                      ~board[i].resolved, board'[i].resolved
               PROVE  Done(i)
    OBVIOUS
  <2>1. ~Restart
    BY DEF Restart
  <2>2. WorkerResolves(i)
    BY <1>1, <2>1, BoardMoves DEF RInv, EntryMoves
  <2>3. CASE i = cur /\ Audited
    BY <1>1, <2>3 DEF Audited, RInv, ActsInScope, Acting, AuditSeen
  <2>4. CASE i = cur /\ Applied
    BY <1>1, <2>4 DEF Applied, RInv, ActsInScope, Acting, KnownHaveBeenOpen, Answered
  <2>5. CASE i \in DOMAIN snap /\ DedupIncident(i) /\ ~theSpec.dryRun
    BY <1>1, <2>5 DEF DedupIncident, RInv, KnownHaveBeenOpen
  <2> QED  BY <2>2, <2>3, <2>4, <2>5 DEF WorkerResolves
<1>2. Spec => [][Next]_vars
  BY PTL DEF Spec
<1> QED  BY <1>1, <1>2, RInvariance, PTL DEF NothingSilentlyClosed
=============================================================================
