----------------------------- MODULE CloudScan -------------------------------
(***************************************************************************)
(* One cloud scan of the CloudAccountConfig controller: credentials, the   *)
(* clients of the regions, the scanners of every category, the report and  *)
(* the status.  ScanHistory models how such scans start, and what becomes  *)
(* of their reports; here it is what they find that matters.               *)
(*                                                                         *)
(* The account holds a few resources, each known to one scanner.  Scanners *)
(* of other rule types find nothing and are left out of the registry.      *)
(***************************************************************************)
EXTENDS CloudRules, Compliance, SequencesExt

CONSTANTS
  Accounts,    \* the specs of accounts: [categories, regions, method, secret]
  Regions,     \* all regions of the provider
  Default,     \* the region us-east-1
  Estates      \* what accounts may hold: sequences of resources

RuleTypes == DOMAIN Registry
Severities == {"critical", "high", "medium", "low", "info"}
Frameworks == <<"SOC-2", "PCI-DSS", "HIPAA", "CIS-Kubernetes", "NIST-800-53", "ISO-27001">>

(* A resource is kept as what its scanner makes of it: the number of its   *)
(* findings, the trace, whether the scanner's listing gets to it, and      *)
(* whether it would be reported if all calls about it were answered.       *)
Answered(s) == [f \in DOMAIN s |-> IF f = "fails" THEN {} ELSE s[f]]
Resource(rule, s, region, page) ==
  LET scanner == Registry[rule]
      verdict == scanner.verdict[s]
  IN [rule |-> rule, category |-> scanner.category, global |-> scanner.global,
      severity |-> scanner.severity, region |-> region,
      listed |-> scanner.allPages \/ page = 1,
      found |-> Cardinality(verdict.found), trace |-> verdict.trace,
      faulty |-> scanner.verdict[Answered(s)].found # {}]
Resources(rule) ==
  {Resource(rule, s, r, p) :
     s \in DOMAIN Registry[rule].verdict,
     r \in IF Registry[rule].global THEN {Default} ELSE Regions,
     p \in 1 .. 2}
AllResources == UNION {Resources(rule) : rule \in RuleTypes}

ASSUME CloudAssumption ==
  /\ Default \in Regions
  /\ \A a \in Accounts : a.categories \in Seq(STRING) /\ a.regions \in Seq(Regions)
  /\ Estates \subseteq Seq(AllResources)

(* The scanners that pass over a resource they cannot read without a word. *)
Wordless == {"ciem-mfa-not-enforced", "network-alb-not-https", "dspm-s3-public-acls",
             "dspm-s3-no-encryption", "dspm-dynamodb-encryption",
             "dspm-ebs-snapshots-public", "dspm-s3-object-lock"}

(* What the verdicts of the 48 scanners have in common, whatever calls     *)
(* about a resource fail: a resource that would be reported if they were   *)
(* answered is reported, or the failure leaves a trace.                    *)
ASSUME VerdictAssumption ==
  \A z \in AllResources :
    /\ z.found \in Nat
    /\ z.faulty => \/ z.found > 0 \/ z.trace \in {"warning", "error"}
                   \/ z.rule \in Wordless /\ z.trace = "silent"

(* What the tables of controls have in common: no framework is empty, and  *)
(* a control of SOC 2, PCI-DSS or HIPAA is about each critical rule type.  *)
ASSUME TablesAssumption ==
  /\ \A i \in DOMAIN Frameworks :
       LET controls == DOMAIN Controls(Frameworks[i])
       IN IsFiniteSet(controls) /\ controls # {}
  /\ \A rule \in RuleTypes :
       Registry[rule].severity = "critical" =>
         \E i \in 1 .. 3 : \E c \in DOMAIN Controls(Frameworks[i]) :
           rule \in Controls(Frameworks[i])[c]

VARIABLES
  account,        \* the spec
  estate,         \* the account's resources, a sequence
  pc,             \* where the reconcile is
  clients,        \* the regions that have clients
  category,       \* how many categories are left behind
  todo,           \* the scanners of this category that have not run
  scannedGlobal,  \* the rule types of the global scanners that have run
  found,          \* the findings so far, as a bag: how many of each resource
  checks,         \* scans that succeeded
  log,            \* what was logged about failures in this scan
  report,         \* the report of this scan; what becomes of it is ScanHistory's
  status          \* status.phase and status.scannedRegions

vars == <<account, estate, pc, clients, category, todo, scannedGlobal, found, checks,
          log, report, status>>

(* sort.Slice is not stable and compares severities only, which belong to  *)
(* the resource, so the bag is all there is to the order of a report too.  *)
Nothing == [x \in DOMAIN estate |-> 0]
NoReport == [findings |-> Nothing, summary |-> [s \in Severities |-> 0], checks |-> 0,
             compliance |-> <<>>]

Init ==
  /\ estate \in Estates
  /\ account \in Accounts
  /\ pc = "idle" /\ clients = {} /\ category = 0 /\ todo = {} /\ scannedGlobal = {}
  /\ found = Nothing /\ checks = 0 /\ log = {}
  /\ report = NoReport
  /\ status = [phase |-> "", regions |-> <<>>]
-----------------------------------------------------------------------------
(* An empty list stands for all categories, and for the default region.    *)
Categories ==
  IF account.categories = <<>>
  THEN <<"cspm", "ciem", "network", "dspm", "supply-chain", "cicd-pipeline">>
  ELSE account.categories
ScanRegions == IF account.regions = <<>> THEN <<Default>> ELSE account.regions

(* GetByCategoryAndProvider, of the registered scanners.                   *)
Scanners(c) == {estate[x].rule : x \in {y \in DOMAIN estate : estate[y].category = c}}
IsGlobal(rule) == \E x \in DOMAIN estate : estate[x].rule = rule /\ estate[x].global

(* buildCredentialConfig and loadAWSConfig.  workload-identity is a method *)
(* that the API accepts and the client does not know.  A secret may be     *)
(* missing, lack a key, or hold empty ones.                                *)
CredentialsUsable ==
  \/ account.method \in {"irsa", "pod-identity"}
  \/ account.method = "secret" /\ account.secret = "whole"

(* A reconcile builds the credentials and verifies the identity, which     *)
(* fails with a Degraded account, and then says that the scan is Running.  *)
Start ==
  /\ pc = "idle"
  /\ \/ /\ CredentialsUsable
        /\ status' = [status EXCEPT !.phase = "Running"] /\ pc' = "clients"
     \/ status' = [status EXCEPT !.phase = "Degraded"] /\ UNCHANGED pc
  /\ UNCHANGED <<account, estate, clients, category, todo, scannedGlobal, found, checks,
                 log, report>>

(* Without clients for the default region the scan is over, with nothing   *)
(* found.  Regions without clients are skipped.                            *)
NewClients ==
  /\ pc = "clients"
  /\ \/ /\ log' = {[what |-> "clients"]}
        /\ pc' = "report" /\ UNCHANGED clients
     \/ /\ clients' \in SUBSET ToSet(ScanRegions)
        /\ log' = {[what |-> "region", region |-> r] : r \in ToSet(ScanRegions) \ clients'}
        /\ pc' = "category"
  /\ UNCHANGED <<account, estate, category, todo, scannedGlobal, found, checks, report, status>>

(* Mutant: a category without scanners ends the loop.                      *)
NextCategoryBreaks ==
  LET later == {i \in DOMAIN Categories : i = category + 1 /\ Scanners(Categories[i]) # {}} IN
  /\ pc = "category" /\ todo = {}
  /\ IF later = {} THEN pc' = "report" /\ UNCHANGED <<category, todo>>
     ELSE /\ category' = Min(later)
          /\ todo' = Scanners(Categories[category'])
          /\ UNCHANGED pc
  /\ UNCHANGED <<account, estate, clients, scannedGlobal, found, checks, log, report, status>>

(* The next category that has scanners.                                    *)
NextCategory ==
  LET later == {i \in DOMAIN Categories : i > category /\ Scanners(Categories[i]) # {}} IN
  /\ pc = "category" /\ todo = {}
  /\ IF later = {} THEN pc' = "report" /\ UNCHANGED <<category, todo>>
     ELSE /\ category' = Min(later)
          /\ todo' = Scanners(Categories[category'])
          /\ UNCHANGED pc
  /\ UNCHANGED <<account, estate, clients, scannedGlobal, found, checks, log, report, status>>
-----------------------------------------------------------------------------
(* What a scanner is shown: of global resources all, wherever it looks.    *)
Shown(rule, region) ==
  {x \in DOMAIN estate : /\ estate[x].rule = rule /\ estate[x].listed
                         /\ estate[x].global \/ estate[x].region = region}

(* A scan may fail in its listings, and does if a read that it depends on  *)
(* fails; then nothing of it counts, whatever was found before.            *)
ScanFails(rule, region) == \E x \in Shown(rule, region) : estate[x].trace = "error"
Warnings(rule, region) ==
  {[what |-> "resource", at |-> x] : x \in {y \in Shown(rule, region) : estate[y].trace = "warning"}}

(* The regions runSingleScanner visits, by their place in the spec, and    *)
(* the ones among them whose scan succeeds.  A global scanner is run once  *)
(* and has no region, which is written as Default.                         *)
Visits(rule) ==
  IF IsGlobal(rule)
  THEN IF rule \in scannedGlobal THEN {} ELSE {1}
  ELSE {i \in DOMAIN ScanRegions : ScanRegions[i] \in clients}
At(rule, i) == IF IsGlobal(rule) THEN Default ELSE ScanRegions[i]
Succeeds(rule, good) ==
  good \subseteq Visits(rule) /\ \A i \in good : ~ScanFails(rule, At(rule, i))

Hits(x, rule, good) == {i \in good : x \in Shown(rule, At(rule, i))}
Collect(rule, good) ==
  [x \in DOMAIN estate |->
     found[x] + Cardinality(Hits(x, rule, good)) * estate[x].found]

Failures(rule, visits) ==
  {[what |-> "scan", rule |-> rule, region |-> At(rule, i)] : i \in visits}
Ran(rule, good) ==
  /\ found' = Collect(rule, good)
  /\ checks' = checks + Cardinality(good)
  /\ log' = log \cup Failures(rule, Visits(rule) \ good)
                \cup UNION {Warnings(rule, At(rule, i)) : i \in good}

(* Mutant: a failed region ends the loop over the regions.                 *)
RunScannerStops(rule) ==
  /\ pc = "category" /\ rule \in todo /\ todo' = todo \ {rule}
  /\ \E good \in SUBSET Visits(rule) :
       /\ Succeeds(rule, good)
       /\ \A i \in good, j \in Visits(rule) \ good : i < j
       /\ found' = Collect(rule, good)
       /\ checks' = checks + Cardinality(good)
       /\ log' = log \cup Failures(rule, {i \in Visits(rule) \ good :
                                          \A j \in Visits(rule) \ good : i <= j})
                     \cup UNION {Warnings(rule, At(rule, i)) : i \in good}
  /\ scannedGlobal' = scannedGlobal \cup (IF IsGlobal(rule) THEN {rule} ELSE {})
  /\ UNCHANGED <<account, estate, pc, clients, category, report, status>>

(* Mutant: a global scanner is not remembered.                             *)
RunScannerForgets(rule) ==
  /\ pc = "category" /\ rule \in todo /\ todo' = todo \ {rule}
  /\ \E good \in SUBSET Visits(rule) : Succeeds(rule, good) /\ Ran(rule, good)
  /\ UNCHANGED <<account, estate, pc, clients, category, scannedGlobal, report, status>>

(* runSingleScanner.                                                       *)
RunScanner(rule) ==
  /\ pc = "category" /\ rule \in todo /\ todo' = todo \ {rule}
  /\ \E good \in SUBSET Visits(rule) : Succeeds(rule, good) /\ Ran(rule, good)
  /\ scannedGlobal' = scannedGlobal \cup (IF IsGlobal(rule) THEN {rule} ELSE {})
  /\ UNCHANGED <<account, estate, pc, clients, category, report, status>>
-----------------------------------------------------------------------------
(* The findings of a bag, each a resource and which one of its findings.   *)
Members(bag) == UNION {{x} \X (1 .. bag[x]) : x \in DOMAIN bag}
Count(bag, severity) == Cardinality({f \in Members(bag) : estate[f[1]].severity = severity})

buildFindingsSummary == [s \in Severities |-> Count(found, s)]

(* The spec asks for some of the frameworks; each is evaluated by itself,  *)
(* so they are all evaluated here.                                         *)
evaluateCloudCompliance ==
  [i \in DOMAIN Frameworks |->
     EvaluateFindings(Frameworks[i], {estate[f[1]].rule : f \in Members(found)})]

(* The reconcile returns, and what it had found and logged is gone.        *)
Return ==
  /\ pc' = "idle"
  /\ clients' = {} /\ category' = 0 /\ todo' = {} /\ scannedGlobal' = {}
  /\ found' = Nothing /\ checks' = 0 /\ log' = {} /\ report' = NoReport

(* A report of the findings is made; if it cannot be created the reconcile *)
(* is repeated.                                                            *)
CreateReport ==
  /\ pc = "report"
  /\ \/ /\ report' = [findings |-> found, summary |-> buildFindingsSummary,
                      checks |-> checks, compliance |-> evaluateCloudCompliance]
        /\ pc' = "status"
        /\ UNCHANGED <<clients, category, todo, scannedGlobal, found, checks, log>>
     \/ Return
  /\ UNCHANGED <<account, estate, status>>

(* updateCloudStatus; a refused write leaves the status Running.           *)
UpdateStatus ==
  /\ pc = "status" /\ Return
  /\ status' \in {status, [phase |-> "Completed", regions |-> ScanRegions]}
  /\ UNCHANGED <<account, estate>>

Next ==
  \/ Start \/ NewClients \/ NextCategory
  \/ \E rule \in todo : RunScanner(rule)
  \/ CreateReport \/ UpdateStatus

Spec == Init /\ [][Next]_vars
-----------------------------------------------------------------------------
(* What a complete scan finds, stated without the loops: every listed      *)
(* resource, once for every time its category and its region are asked     *)
(* for, and only once if it is global.                                     *)
Times(seq, e) == Cardinality({i \in DOMAIN seq : seq[i] = e})
Asked(x) ==
  LET c == Times(Categories, estate[x].category) IN
  IF estate[x].global THEN IF c > 0 THEN 1 ELSE 0
  ELSE c * Times(ScanRegions, estate[x].region)
Expected(x) == IF estate[x].listed THEN Asked(x) * estate[x].found ELSE 0
Reported(x) == report.findings[x]
Fresh == pc = "status"

(* A scan that logged no failure reports exactly what is there: nothing is *)
(* lost between categories, regions, clients and the registry, nothing is  *)
(* reported twice because two categories or regions lead to it, and the    *)
(* summary adds up to it.                                                  *)
CleanScanIsExact ==
  Fresh /\ log = {} =>
    /\ \A x \in DOMAIN estate : Reported(x) = Expected(x)
    /\ \A s \in Severities :
         report.summary[s] = Count([x \in DOMAIN estate |-> Expected(x)], s)

(* What the log says that may concern a resource.                          *)
Logged(x) ==
  LET here == estate[x].region IN
  log \cap ({[what |-> "clients"], [what |-> "resource", at |-> x],
             [what |-> "scan", rule |-> estate[x].rule, region |-> here]}
            \cup IF estate[x].global THEN {} ELSE {[what |-> "region", region |-> here]})
    # {}

(* Failures stay local and are never hidden: whatever clients, regions,    *)
(* scanners and reads fail, a faulty resource that the spec asks for is in *)
(* the report, or the log names a failure of its own client, scanner or    *)
(* read.  Only the Wordless scanners pass over what they cannot read.      *)
FaultsReportedOrLogged ==
  Fresh =>
    \A x \in DOMAIN estate :
      /\ estate[x].listed /\ Asked(x) > 0
      /\ estate[x].faulty
      => \/ Reported(x) > 0 \/ Logged(x)
         \/ estate[x].rule \in Wordless /\ estate[x].trace = "silent"

(* A failure only takes away: no scan reports a resource more often than a *)
(* complete one, and a global resource once however often its category is  *)
(* listed ("should only run once per account, not per-region").            *)
NothingMadeUp ==
  Fresh => \A x \in DOMAIN estate : Reported(x) <= Expected(x)

(* The severities of the scanners and the tables of controls agree: no     *)
(* report with a critical finding is fully compliant with all of SOC 2,    *)
(* PCI-DSS and HIPAA, and a report without findings is with each.          *)
CriticalFailsCompliance ==
  Fresh =>
    /\ report.summary["critical"] > 0
         => \E i \in 1 .. 3 : report.compliance[i].passRate < 100
    /\ report.findings = Nothing
         => \A i \in DOMAIN Frameworks : report.compliance[i].passRate = 100
=============================================================================
