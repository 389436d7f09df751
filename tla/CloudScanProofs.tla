--------------------------- MODULE CloudScanProofs ----------------------------
(***************************************************************************)
(* What a report of a cloud scan says of the account, for any account, any *)
(* number of resources, any lists of categories and regions, and whatever  *)
(* clients, regions, scanners and reads fail.  Of the scanners' verdicts   *)
(* and the frameworks' controls only VerdictAssumption and                 *)
(* TablesAssumption are used, which TLC evaluates on all the tables.       *)
(***************************************************************************)
EXTENDS CloudScan, FiniteSetTheorems, WellFoundedInduction, TLAPS

(* A set of numbers that is not empty has a least one.                     *)
LEMMA LeastOf ==
  ASSUME NEW S \in SUBSET Nat, S # {}
  PROVE  Min(S) \in S /\ \A y \in S : Min(S) <= y
<1> DEFINE R == OpToRel(<, Nat)
<1>1. R = {pair \in Nat \X Nat : pair[1] < pair[2]}
  BY DEF OpToRel
<1>2. IsWellFoundedOn(R, Nat)
  BY NatLessThanWellFounded
<1> HIDE DEF R
<1>3. PICK x \in S : \A y \in S : <<y, x>> \notin R
  BY <1>2, WFMin
<1>4. ASSUME NEW y \in S PROVE x <= y
  <2>1. <<y, x>> \in Nat \X Nat /\ <<y, x>> \notin R
    BY <1>3
  <2>2. ~(<<y, x>>[1] < <<y, x>>[2])
    BY <1>1, <2>1
  <2> QED BY <2>1, <2>2
<1> QED BY <1>4 DEF Min
-----------------------------------------------------------------------------
(* A resource has what its rule type says of the registry, and its verdict *)
(* leaves a trace of what it misses.                                       *)
LEMMA ResourceFacts ==
  ASSUME NEW z \in AllResources
  PROVE  /\ z.category = Registry[z.rule].category
         /\ z.global = Registry[z.rule].global
         /\ z.global => z.region = Default
         /\ z.rule \in RuleTypes /\ z.severity = Registry[z.rule].severity
         /\ z.found \in Nat
         /\ z.faulty => \/ z.found > 0 \/ z.trace \in {"warning", "error"}
                        \/ z.rule \in Wordless /\ z.trace = "silent"
<1>1. PICK rule \in RuleTypes : z \in Resources(rule)
  BY DEF AllResources
<1>2. PICK s \in DOMAIN Registry[rule].verdict,
           r \in IF Registry[rule].global THEN {Default} ELSE Regions,
           p \in 1 .. 2 :
        z = Resource(rule, s, r, p)
  BY <1>1 DEF Resources
<1>3. /\ z.rule = rule /\ z.category = Registry[rule].category
      /\ z.global = Registry[rule].global /\ z.region = r
      /\ z.severity = Registry[rule].severity
  BY <1>2 DEF Resource
<1> QED BY <1>2, <1>3, VerdictAssumption
-----------------------------------------------------------------------------
(* How often findings are due after n of the categories of a resource.     *)
Due(x, n) ==
  IF estate[x].listed
  THEN (IF estate[x].global THEN IF n > 0 THEN 1 ELSE 0
        ELSE n * Times(ScanRegions, estate[x].region)) * estate[x].found
  ELSE 0

(* The places of the resource's category, and those that are behind.       *)
Places(x) == {i \in DOMAIN Categories : Categories[i] = estate[x].category}
Past(x) ==
  {i \in Places(x) : i <= category} \ (IF estate[x].rule \in todo THEN {category} ELSE {})

Inputs ==
  /\ account \in Accounts /\ estate \in Estates

Progress ==
  /\ category \in Nat /\ found \in [DOMAIN estate -> Nat]
  /\ todo # {} => category \in DOMAIN Categories /\ todo \subseteq Scanners(Categories[category])

(* Every region without clients is in the log.                             *)
ClientsLogged ==
  pc = "category" =>
    /\ clients \subseteq ToSet(ScanRegions)
    /\ \A r \in ToSet(ScanRegions) \ clients : [what |-> "region", region |-> r] \in log

(* What is found of a resource is no more than is due, and all of it if    *)
(* nothing has failed.                                                     *)
CountedAt(x) ==
  /\ found[x] <= Due(x, Cardinality(Past(x)))
  /\ log = {} => found[x] = Due(x, Cardinality(Past(x)))

(* A global scanner is remembered from its first run on.                   *)
OnceAt(x) == estate[x].global => (estate[x].rule \in scannedGlobal <=> Past(x) # {})

(* A fault whose scanner has been run is found, or something is logged.    *)
Caught(x) ==
  \/ found[x] > 0 \/ Logged(x)
  \/ estate[x].rule \in Wordless /\ estate[x].trace = "silent"
CaughtAt(x) ==
  /\ estate[x].listed /\ estate[x].faulty /\ Past(x) # {}
  /\ estate[x].global \/ estate[x].region \in ToSet(ScanRegions)
  => Caught(x)

(* The scan ends with all categories behind, or without clients.           *)
Through ==
  pc \in {"report", "status"} =>
    [what |-> "clients"] \in log \/ \A x \in DOMAIN estate : Past(x) = Places(x)

ReportIsOfScan ==
  pc = "status" => /\ report.findings = found /\ report.summary = buildFindingsSummary
                   /\ report.compliance = evaluateCloudCompliance

(* Before the first category nothing has been done.                        *)
NothingDone == category = 0 /\ todo = {} /\ found = Nothing /\ scannedGlobal = {}
AtStart == pc \in {"idle", "clients"} => NothingDone

AllResourcesWell == \A x \in DOMAIN estate : CountedAt(x) /\ OnceAt(x) /\ CaughtAt(x)

ScanInv ==
  /\ Inputs /\ Progress /\ AtStart /\ ClientsLogged
  /\ AllResourcesWell /\ Through /\ ReportIsOfScan
-----------------------------------------------------------------------------
(* The lists of the spec are sequences, empty or not, and the account's    *)
(* resources are what the registry knows.                                  *)
LEMMA InputFacts ==
  ASSUME Inputs
  PROVE  /\ DOMAIN Categories = 1 .. Len(Categories) /\ Len(Categories) \in Nat
         /\ DOMAIN ScanRegions = 1 .. Len(ScanRegions) /\ Len(ScanRegions) \in Nat
         /\ \A x \in DOMAIN estate : estate[x] \in AllResources
<1>0. account.categories \in Seq(STRING) /\ account.regions \in Seq(Regions)
  BY CloudAssumption DEF Inputs
<1>1. DOMAIN Categories = 1 .. Len(Categories) /\ Len(Categories) \in Nat
  <2>1. CASE account.categories = <<>>
    BY <2>1 DEF Categories
  <2>2. CASE account.categories # <<>>
    <3>1. Categories = account.categories
      BY <2>2 DEF Categories
    <3> QED BY <1>0, <3>1
  <2> QED BY <2>1, <2>2
<1>2. ScanRegions \in Seq(Regions)
  BY <1>0, CloudAssumption DEF ScanRegions
<1>3. estate \in Seq(AllResources)
  BY CloudAssumption DEF Inputs
<1> QED BY <1>1, <1>2, <1>3

(* Occurrences in a list are counted.                                      *)
LEMMA CountFacts ==
  ASSUME Inputs
  PROVE  /\ \A r : Times(ScanRegions, r) \in Nat
         /\ \A x : /\ IsFiniteSet(Places(x)) /\ Cardinality(Places(x)) \in Nat
                   /\ IsFiniteSet(Past(x)) /\ Cardinality(Past(x)) \in Nat
                   /\ Cardinality(Past(x)) <= Cardinality(Places(x))
                   /\ Cardinality(Past(x)) = 0 <=> Past(x) = {}
<1>1. IsFiniteSet(DOMAIN Categories) /\ IsFiniteSet(DOMAIN ScanRegions)
  BY InputFacts, FS_Interval
<1>2. ASSUME NEW r PROVE Times(ScanRegions, r) \in Nat
  <2>1. {i \in DOMAIN ScanRegions : ScanRegions[i] = r} \subseteq DOMAIN ScanRegions
    OBVIOUS
  <2> QED BY <1>1, <2>1, FS_Subset, FS_CardinalityType DEF Times
<1>3. ASSUME NEW x
      PROVE  /\ IsFiniteSet(Places(x)) /\ Cardinality(Places(x)) \in Nat
             /\ IsFiniteSet(Past(x)) /\ Cardinality(Past(x)) \in Nat
             /\ Cardinality(Past(x)) <= Cardinality(Places(x))
             /\ Cardinality(Past(x)) = 0 <=> Past(x) = {}
  <2>1. Places(x) \subseteq DOMAIN Categories /\ Past(x) \subseteq Places(x)
    BY DEF Places, Past
  <2> QED BY <1>1, <2>1, FS_Subset, FS_CardinalityType, FS_EmptySet
<1> QED BY <1>2, <1>3

(* What is due is a number and grows with the categories.                  *)
LEMMA DueFacts ==
  ASSUME Inputs, NEW x \in DOMAIN estate, NEW n \in Nat
  PROVE  /\ Due(x, n) \in Nat
         /\ n = 0 => Due(x, n) = 0
         /\ \A m \in Nat : n <= m => Due(x, n) <= Due(x, m)
<1> DEFINE t == Times(ScanRegions, estate[x].region)
           f == estate[x].found
<1>1. t \in Nat /\ f \in Nat
  BY InputFacts, CountFacts, ResourceFacts
<1>2. \A m \in Nat : m * t \in Nat /\ (m * t) * f \in Nat /\ 0 * t = 0
  BY <1>1
<1>3. ASSUME NEW m \in Nat, n <= m PROVE n * t <= m * t /\ (n * t) * f <= (m * t) * f
  <2>1. PICK d \in Nat : m = n + d
    BY <1>3
  <2>2. m * t = n * t + d * t /\ n * t \in Nat /\ d * t \in Nat
    BY <1>1, <2>1
  <2>3. (n * t + d * t) * f = (n * t) * f + (d * t) * f
    BY <1>1, <2>2
  <2>4. (n * t) * f \in Nat /\ (d * t) * f \in Nat
    BY <1>1, <2>2
  <2> HIDE DEF t, f
  <2> QED BY <2>2, <2>3, <2>4
<1> QED
  <2> SUFFICES ASSUME estate[x].listed
               PROVE  /\ Due(x, n) \in Nat
                      /\ n = 0 => Due(x, n) = 0
                      /\ \A m \in Nat : n <= m => Due(x, n) <= Due(x, m)
    BY DEF Due
  <2>1. CASE estate[x].global
    <3>1. \A k \in Nat : Due(x, k) = IF k > 0 THEN f ELSE 0
      BY <1>1, <2>1 DEF Due
    <3> HIDE DEF f
    <3> QED BY <1>1, <3>1
  <2>2. CASE ~estate[x].global
    <3>1. \A k : Due(x, k) = (k * t) * f
      BY <2>2 DEF Due
    <3> HIDE DEF f, t
    <3> QED BY <1>1, <1>2, <1>3, <3>1
  <2> QED BY <2>1, <2>2

(* When nothing has been done, nothing is due.                             *)
LEMMA WellAtStart == Inputs /\ NothingDone => AllResourcesWell
<1> SUFFICES ASSUME Inputs, NothingDone, NEW x \in DOMAIN estate
             PROVE  CountedAt(x) /\ OnceAt(x) /\ CaughtAt(x)
  BY DEF AllResourcesWell
<1>1. Past(x) = {}
  BY InputFacts DEF NothingDone, Past, Places
<1>2. Due(x, Cardinality(Past(x))) = 0
  BY <1>1, FS_EmptySet, DueFacts
<1>3. found[x] = 0 /\ scannedGlobal = {}
  BY DEF NothingDone, Nothing
<1> QED BY <1>1, <1>2, <1>3 DEF CountedAt, OnceAt, CaughtAt

(* The invariant holds at the start of a reconcile and again at its end.   *)
LEMMA ScanInit == Init => ScanInv
<1> SUFFICES ASSUME Init PROVE ScanInv
  OBVIOUS
<1>1. Inputs /\ NothingDone /\ pc = "idle"
  BY DEF Init, Inputs, NothingDone
<1>2. Progress
  BY DEF Init, Progress, Nothing
<1> QED
  BY <1>1, <1>2, WellAtStart
  DEF ScanInv, AtStart, ClientsLogged, Through, ReportIsOfScan

LEMMA ScanReturn ==
  ASSUME ScanInv, Return, UNCHANGED <<account, estate>>
  PROVE  ScanInv'
<1>1. Inputs' /\ NothingDone' /\ pc' = "idle"
  BY DEF ScanInv, Inputs, NothingDone, Return, Nothing
<1>2. Progress'
  BY DEF Return, Progress, Nothing
<1>3. AllResourcesWell'
  BY <1>1, WellAtStart, PTL
<1> QED
  BY <1>1, <1>2, <1>3 DEF ScanInv, AtStart, ClientsLogged, Through, ReportIsOfScan
-----------------------------------------------------------------------------
(* A rule type belongs to one category and is global or not.               *)
LEMMA SameRule ==
  ASSUME Inputs, NEW x \in DOMAIN estate, NEW y \in DOMAIN estate,
         estate[x].rule = estate[y].rule
  PROVE  estate[x].category = estate[y].category /\ estate[x].global = estate[y].global
BY InputFacts, ResourceFacts

(* A resource is well after a step that leaves what was done for it alone  *)
(* and only adds to the log.                                               *)
LEMMA StaysWell ==
  ASSUME Inputs, UNCHANGED <<account, estate>>, NEW x \in DOMAIN estate,
         CountedAt(x), OnceAt(x), CaughtAt(x),
         Past(x)' = Past(x), found'[x] = found[x], log \subseteq log',
         estate[x].rule \in scannedGlobal' <=> estate[x].rule \in scannedGlobal
  PROVE  CountedAt(x)' /\ OnceAt(x)' /\ CaughtAt(x)'
<1>1. CountedAt(x)'
  <2>1. \A n : Due(x, n)' = Due(x, n)
    BY DEF Due, Times, ScanRegions
  <2>2. log' = {} => log = {}
    OBVIOUS
  <2> QED BY <2>1, <2>2 DEF CountedAt
<1>2. OnceAt(x)'
  BY DEF OnceAt
<1>3. Logged(x) => Logged(x)'
  BY DEF Logged
<1>4. CaughtAt(x)'
  BY <1>3 DEF CaughtAt, Caught, ScanRegions
<1> QED BY <1>1, <1>2, <1>4

(* The loop over the categories passes over none that has scanners, so     *)
(* nothing more is behind until they run, and everything is at the end.    *)
LEMMA CategoryStep ==
  ASSUME ScanInv, NextCategory
  PROVE  ScanInv'
<1> DEFINE later == {i \in DOMAIN Categories : i > category /\ Scanners(Categories[i]) # {}}
<1>1. /\ Inputs /\ Progress /\ AllResourcesWell /\ ClientsLogged
      /\ pc = "category" /\ todo = {}
      /\ UNCHANGED <<account, estate, clients, scannedGlobal, found, log, report>>
  BY DEF ScanInv, NextCategory
<1>2. DOMAIN Categories = 1 .. Len(Categories) /\ Len(Categories) \in Nat /\ category \in Nat
  BY <1>1, InputFacts DEF Progress
<1>3. /\ later \in SUBSET Nat
      /\ \A x \in DOMAIN estate : \A i \in Places(x) :
           i \in Nat /\ (i > category => i \in later)
  BY <1>2 DEF Places, Scanners
<1>4. CASE later = {}
  <2>1. pc' = "report" /\ UNCHANGED <<category, todo>>
    BY <1>4 DEF NextCategory
  <2>2. \A x \in DOMAIN estate : Past(x)' = Past(x)
    BY <1>1, <2>1 DEF Past, Places, Categories
  <2>3. AllResourcesWell'
    BY <1>1, <2>2, StaysWell DEF AllResourcesWell
  <2>4. ASSUME NEW x \in DOMAIN estate PROVE Past(x) = Places(x)
    <3>1. \A i \in Places(x) : i <= category
      <4>1. ASSUME NEW i \in Places(x) PROVE i <= category
        <5>1. i \in Nat /\ ~(i > category)
          BY <1>3, <1>4
        <5> QED BY <1>2, <5>1
      <4> QED BY <4>1
    <3> QED BY <1>1, <3>1 DEF Past
  <2>5. Through'
    BY <1>1, <2>2, <2>4 DEF Through, Places, Categories
  <2>6. Inputs' /\ Progress' /\ AtStart' /\ ClientsLogged' /\ ReportIsOfScan'
    BY <1>1, <2>1 DEF Inputs, Progress, AtStart, ClientsLogged, ReportIsOfScan
  <2> QED BY <2>3, <2>5, <2>6 DEF ScanInv
<1>5. CASE later # {}
  <2>1. /\ category' = Min(later) /\ todo' = Scanners(Categories[category']) /\ pc' = pc
        /\ Categories' = Categories /\ \A c : Scanners(c)' = Scanners(c)
    BY <1>1, <1>5 DEF NextCategory, Scanners, Categories
  <2>2. category' \in later /\ \A i \in later : category' <= i
    <3> HIDE DEF later
    <3> QED BY <1>3, <1>5, <2>1, LeastOf
  <2>3. category' \in Nat /\ category < category' /\ category' \in DOMAIN Categories
    BY <1>2, <2>2
  <2>4. ASSUME NEW x \in DOMAIN estate PROVE Past(x)' = Past(x)
    <3>1. Places(x)' = Places(x) /\ \A i \in Places(x) : i \in Nat
      BY <1>1, <1>2 DEF Places, Categories
    <3>2. category' \in Places(x) => estate[x].rule \in todo'
      BY <2>1 DEF Places, Scanners
    <3>3. \A i \in Places(x) : i <= category' => i <= category \/ i = category'
      BY <1>2, <1>3, <2>2, <2>3, <3>1
    <3>4. Past(x) = {i \in Places(x) : i <= category}
      BY <1>1 DEF Past
    <3>5. Past(x)' = {i \in Places(x) : i <= category'}
                      \ (IF estate[x].rule \in todo' THEN {category'} ELSE {})
      BY <1>1, <3>1 DEF Past
    <3>6. ASSUME NEW i \in Places(x) PROVE i \in Past(x)' <=> i \in Past(x)
      BY <1>2, <2>3, <3>1, <3>2, <3>3, <3>4, <3>5
    <3> QED BY <3>4, <3>5, <3>6
  <2>5. AllResourcesWell'
    BY <1>1, <2>4, StaysWell DEF AllResourcesWell
  <2>6. Progress'
    <3>1. todo' = Scanners(Categories[category])' /\ category' \in (DOMAIN Categories)'
      BY <1>1, <2>1, <2>3 DEF Scanners
    <3> QED BY <1>1, <2>3, <3>1 DEF Progress
  <2>7. Inputs' /\ AtStart' /\ ClientsLogged' /\ Through' /\ ReportIsOfScan'
    BY <1>1, <2>1 DEF Inputs, AtStart, ClientsLogged, Through, ReportIsOfScan, ScanRegions
  <2> QED BY <2>5, <2>6, <2>7 DEF ScanInv
<1> QED BY <1>4, <1>5
-----------------------------------------------------------------------------
(* runSingleScanner, with the visits that succeed.                         *)
Runs(rule, good) ==
  /\ pc = "category" /\ rule \in todo /\ todo' = todo \ {rule}
  /\ good \subseteq Visits(rule) /\ Succeeds(rule, good) /\ Ran(rule, good)
  /\ scannedGlobal' = scannedGlobal \cup (IF IsGlobal(rule) THEN {rule} ELSE {})
  /\ UNCHANGED <<account, estate, pc, clients, category, report>>

(* The category in hand is behind for the resources of the scanner.        *)
LEMMA OneMorePlace ==
  ASSUME ScanInv, NEW rule, NEW good, Runs(rule, good),
         NEW x \in DOMAIN estate, estate[x].rule = rule
  PROVE  /\ IsGlobal(rule) <=> estate[x].global
         /\ Past(x)' # {}
         /\ Cardinality(Past(x)') = Cardinality(Past(x)) + 1
<1>1. Inputs /\ Progress /\ rule \in todo
  BY DEF ScanInv, Runs
<1>2. PICK y \in DOMAIN estate : estate[y].category = Categories[category] /\ estate[y].rule = rule
  BY <1>1 DEF Progress, Scanners
<1>3. category \in Places(x) /\ category \in Nat
  BY <1>1, <1>2, SameRule DEF Progress, Places
<1>4. IsGlobal(rule) <=> estate[x].global
  BY <1>1, SameRule DEF IsGlobal
<1>5. Places(x)' = Places(x) /\ UNCHANGED <<category, estate>> /\ rule \notin todo'
  BY DEF Runs, Places, Categories
<1>6. Past(x) = {i \in Places(x) : i <= category} \ {category}
  BY <1>1 DEF Past
<1>7. Past(x)' = {i \in Places(x) : i <= category}
  BY <1>5 DEF Past
<1>8. Past(x)' = Past(x) \cup {category} /\ category \notin Past(x)
  BY <1>3, <1>6, <1>7
<1>9. Cardinality(Past(x) \cup {category}) = Cardinality(Past(x)) + 1
  BY <1>1, <1>8, CountFacts, FS_AddElement
<1> QED BY <1>4, <1>8, <1>9

(* Nothing is logged only if every visit succeeded; and what was logged    *)
(* stays.                                                                  *)
LEMMA SilentRun ==
  ASSUME NEW rule, NEW good, Runs(rule, good)
  PROVE  log \subseteq log' /\ (log' = {} => log = {} /\ good = Visits(rule))
<1>1. log \subseteq log' /\ Failures(rule, Visits(rule) \ good) \subseteq log'
  <2> DEFINE warned == UNION {Warnings(rule, At(rule, i)) : i \in good}
  <2>1. log' = log \cup Failures(rule, Visits(rule) \ good) \cup warned
    BY DEF Runs, Ran
  <2> HIDE DEF warned
  <2> QED BY <2>1
<1>2. ASSUME Failures(rule, Visits(rule) \ good) = {} PROVE Visits(rule) \subseteq good
  BY <1>2 DEF Failures
<1>3. good \subseteq Visits(rule)
  BY DEF Runs
<1> QED BY <1>1, <1>2, <1>3

(* What a global scanner finds is due once.                                *)
LEMMA GlobalRun ==
  ASSUME ScanInv, NEW rule, NEW good, Runs(rule, good),
         NEW x \in DOMAIN estate, estate[x].rule = rule, IsGlobal(rule), estate[x].listed,
         NEW n \in Nat, n = Cardinality(Past(x))
  PROVE  LET hits == Cardinality(Hits(x, rule, good)) * estate[x].found IN
         /\ hits \in Nat
         /\ found[x] + hits <= Due(x, n + 1)
         /\ log' = {} => found[x] + hits = Due(x, n + 1)
<1> DEFINE f == estate[x].found
           h == Cardinality(Hits(x, rule, good))
<1>1. Inputs /\ Progress /\ CountedAt(x) /\ OnceAt(x) /\ estate[x].global
  BY OneMorePlace DEF ScanInv, AllResourcesWell
<1>2. f \in Nat /\ found[x] \in Nat
  BY <1>1, InputFacts, ResourceFacts DEF Progress
<1>3. \A k \in Nat : Due(x, k) = IF k > 0 THEN f ELSE 0
  BY <1>1, <1>2 DEF Due
<1>4. found[x] <= Due(x, n) /\ (log = {} => found[x] = Due(x, n))
  BY <1>1 DEF CountedAt
<1>5. Hits(x, rule, good) = good
  BY <1>1 DEF Hits, Shown
<1>6. CASE rule \in scannedGlobal
  <2>1. h = 0
    BY <1>5, <1>6, FS_EmptySet DEF Runs, Visits
  <2>2. n > 0
    BY <1>1, <1>6, CountFacts DEF OnceAt
  <2> HIDE DEF f, h
  <2>3. h * f = 0
    BY <1>2, <2>1
  <2>4. log' = {} => log = {}
    BY SilentRun
  <2> QED BY <1>2, <1>3, <1>4, <2>2, <2>3, <2>4 DEF f, h
<1>7. CASE rule \notin scannedGlobal
  <2>1. n = 0
    BY <1>1, <1>7, CountFacts DEF OnceAt
  <2>2. Visits(rule) = {1}
    BY <1>7 DEF Visits
  <2>3. found[x] = 0
    BY <1>2, <1>3, <1>4, <2>1
  <2>4. CASE good = {}
    <3>1. h = 0 /\ log' # {}
      BY <1>5, <2>2, <2>4, FS_EmptySet, SilentRun
    <3> HIDE DEF f, h
    <3>2. h * f = 0
      BY <1>2, <3>1
    <3> QED BY <1>2, <1>3, <2>1, <2>3, <3>1, <3>2 DEF f, h
  <2>5. CASE good = {1}
    <3>1. h = 1
      BY <1>5, <2>5, FS_Singleton
    <3> HIDE DEF f, h
    <3>2. h * f = f
      BY <1>2, <3>1
    <3> QED BY <1>2, <1>3, <2>1, <2>3, <3>2 DEF f, h
  <2>6. good \subseteq {1}
    BY <2>2 DEF Runs
  <2> QED BY <2>4, <2>5, <2>6
<1> QED BY <1>6, <1>7

(* What a regional scanner finds in this category is due once for every    *)
(* time the region of the resource is asked for.                           *)
LEMMA RegionalRun ==
  ASSUME ScanInv, NEW rule, NEW good, Runs(rule, good),
         NEW x \in DOMAIN estate, estate[x].rule = rule, ~IsGlobal(rule), estate[x].listed,
         NEW n \in Nat, n = Cardinality(Past(x))
  PROVE  LET hits == Cardinality(Hits(x, rule, good)) * estate[x].found IN
         /\ hits \in Nat
         /\ found[x] + hits <= Due(x, n + 1)
         /\ log' = {} => found[x] + hits = Due(x, n + 1)
<1> DEFINE f == estate[x].found
           H == Hits(x, rule, good)
           R == {i \in DOMAIN ScanRegions : ScanRegions[i] = estate[x].region}
           h == Cardinality(H)
           t == Cardinality(R)
<1>1. /\ Inputs /\ Progress /\ CountedAt(x) /\ ~estate[x].global
      /\ ClientsLogged /\ pc = "category"
  BY OneMorePlace DEF ScanInv, AllResourcesWell, Runs
<1>2. f \in Nat /\ found[x] \in Nat /\ t \in Nat /\ t = Times(ScanRegions, estate[x].region)
  <2>1. f \in Nat /\ found[x] \in Nat
    BY <1>1, InputFacts, ResourceFacts DEF Progress
  <2>2. t = Times(ScanRegions, estate[x].region)
    BY DEF Times
  <2> HIDE DEF t, f
  <2> QED BY <1>1, <2>1, <2>2, CountFacts
<1>3. \A k : Due(x, k) = (k * t) * f
  BY <1>1, <1>2 DEF Due
<1>4. found[x] <= Due(x, n) /\ (log = {} => found[x] = Due(x, n))
  BY <1>1 DEF CountedAt
<1>5. H = {i \in good : ScanRegions[i] = estate[x].region} /\ good \subseteq DOMAIN ScanRegions
  BY <1>1 DEF Hits, Shown, At, Runs, Visits
<1>6. h \in Nat /\ h <= t
  <2>1. IsFiniteSet(DOMAIN ScanRegions) /\ R \subseteq DOMAIN ScanRegions
    <3>1. DOMAIN ScanRegions = 1 .. Len(ScanRegions) /\ Len(ScanRegions) \in Nat
      BY <1>1, InputFacts
    <3>2. 1 \in Int /\ Len(ScanRegions) \in Int
      BY <3>1
    <3> QED BY <3>1, <3>2, FS_Interval
  <2>2. H \subseteq R
    BY <1>5
  <2> HIDE DEF H, R
  <2> QED BY <2>1, <2>2, FS_Subset, FS_CardinalityType
<1>7. ASSUME log' = {} PROVE log = {} /\ h = t
  <2>1. log = {} /\ good = Visits(rule)
    BY <1>7, SilentRun
  <2>2. ToSet(ScanRegions) \subseteq clients
    BY <1>1, <2>1 DEF ClientsLogged
  <2>3. good = DOMAIN ScanRegions
    BY <2>1, <2>2 DEF Visits, ToSet
  <2> QED BY <1>5, <2>1, <2>3
<1> HIDE DEF f, h, t
<1>8. /\ h * f \in Nat /\ t * f \in Nat /\ n * t \in Nat /\ (n * t) * f \in Nat
      /\ (n + 1) * t = n * t + t
  BY <1>2, <1>6
<1>9. ((n + 1) * t) * f = (n * t) * f + t * f
  BY <1>2, <1>8
<1>10. h * f <= t * f
  <2>1. PICK d \in Nat : t = h + d
    BY <1>2, <1>6
  <2>2. t * f = h * f + d * f /\ d * f \in Nat
    BY <1>2, <1>6, <2>1
  <2> QED BY <1>8, <2>2
<1>11. found[x] + h * f <= Due(x, n + 1)
  BY <1>2, <1>3, <1>4, <1>8, <1>9, <1>10
<1>12. log' = {} => found[x] + h * f = Due(x, n + 1)
  BY <1>2, <1>3, <1>4, <1>7, <1>8, <1>9
<1> QED BY <1>8, <1>11, <1>12 DEF f, h

(* Whatever is found in this category is due in it.                        *)
LEMMA CountedAfterRun ==
  ASSUME ScanInv, NEW rule, NEW good, Runs(rule, good),
         NEW x \in DOMAIN estate, estate[x].rule = rule
  PROVE  CountedAt(x)' /\ found'[x] \in Nat /\ found[x] <= found'[x]
<1> DEFINE n == Cardinality(Past(x))
           hits == Cardinality(Hits(x, rule, good)) * estate[x].found
<1>1. Inputs /\ Progress /\ CountedAt(x)
  BY DEF ScanInv, AllResourcesWell
<1>2. n \in Nat /\ found[x] \in Nat /\ estate[x].found \in Nat
  BY <1>1, CountFacts, InputFacts, ResourceFacts DEF Progress
<1>3. found'[x] = found[x] + hits
  BY <1>1 DEF Runs, Ran, Collect, Progress
<1>4. Cardinality(Past(x)') = n + 1
  BY OneMorePlace
<1>5. \A k : Due(x, k)' = Due(x, k)
  BY DEF Due, Times, ScanRegions, Runs
<1>6. /\ hits \in Nat /\ found[x] + hits <= Due(x, n + 1)
      /\ log' = {} => found[x] + hits = Due(x, n + 1)
  <2>1. CASE ~estate[x].listed
    <3>1. Hits(x, rule, good) = {}
      BY <2>1 DEF Hits, Shown
    <3>2. Cardinality(Hits(x, rule, good)) = 0
      BY <3>1, FS_EmptySet
    <3>3. hits = 0
      BY <1>2, <3>2
    <3>4. \A k : Due(x, k) = 0
      BY <2>1 DEF Due
    <3> HIDE DEF hits, n
    <3> QED BY <1>1, <1>2, <3>3, <3>4 DEF CountedAt, n
  <2>2. CASE estate[x].listed /\ IsGlobal(rule)
    BY <1>2, <2>2, GlobalRun
  <2>3. CASE estate[x].listed /\ ~IsGlobal(rule)
    BY <1>2, <2>3, RegionalRun
  <2> QED BY <2>1, <2>2, <2>3
<1> HIDE DEF n, hits
<1>7. CountedAt(x)'
  BY <1>3, <1>4, <1>5, <1>6 DEF CountedAt
<1> QED BY <1>2, <1>3, <1>6, <1>7

(* A visit to the region of a fault finds it, fails, or warns of it.       *)
LEMMA CaughtByVisit ==
  ASSUME ScanInv, NEW rule, NEW good, Runs(rule, good),
         NEW x \in DOMAIN estate, estate[x].rule = rule, estate[x].listed, estate[x].faulty,
         NEW i \in Visits(rule), At(rule, i) = estate[x].region
  PROVE  Caught(x)'
<1>1. Inputs /\ Progress
  BY DEF ScanInv
<1>2. UNCHANGED estate
  BY DEF Runs
<1>3. x \in Shown(rule, At(rule, i))
  BY DEF Shown
<1>4. CASE i \notin good
  <2>1. [what |-> "scan", rule |-> rule, region |-> estate[x].region]
          \in Failures(rule, Visits(rule) \ good)
    BY <1>4 DEF Failures
  <2>2. Failures(rule, Visits(rule) \ good) \subseteq log'
    BY DEF Runs, Ran
  <2>3. [what |-> "scan", rule |-> estate[x].rule, region |-> estate[x].region] \in log'
    BY <2>1, <2>2
  <2> QED BY <1>2, <2>3 DEF Caught, Logged
<1>5. CASE i \in good
  <2> DEFINE H == Hits(x, rule, good)
             f == estate[x].found
  <2>1. i \in H /\ H \subseteq good /\ estate[x].trace # "error"
    BY <1>3, <1>5 DEF Hits, Runs, Succeeds, ScanFails
  <2>2. found'[x] = found[x] + Cardinality(H) * f
    BY <1>1 DEF Runs, Ran, Collect, Progress
  <2>3. f \in Nat /\ found[x] \in Nat
    BY <1>1, InputFacts, ResourceFacts DEF Progress
  <2>4. Cardinality(H) \in Nat /\ Cardinality(H) # 0
    <3>1. DOMAIN ScanRegions = 1 .. Len(ScanRegions) /\ Len(ScanRegions) \in Int
      BY <1>1, InputFacts
    <3>2. IsFiniteSet(DOMAIN ScanRegions)
      <4>1. 1 \in Int
        OBVIOUS
      <4> QED BY <3>1, <4>1, FS_Interval
    <3>5. IsFiniteSet({1})
      BY FS_Singleton
    <3>3. good \subseteq DOMAIN ScanRegions \/ good \subseteq {1}
      BY DEF Runs, Visits
    <3>4. IsFiniteSet(H)
      <4> HIDE DEF H
      <4> QED BY <2>1, <3>2, <3>3, <3>5, FS_Subset
    <3> HIDE DEF H
    <3> QED BY <2>1, <3>4, FS_CardinalityType, FS_EmptySet
  <2>5. CASE f > 0
    <3>1. Cardinality(H) * f > 0
      BY <2>3, <2>4, <2>5
    <3>2. found'[x] > 0
      <4> HIDE DEF f, H
      <4> QED BY <2>2, <2>3, <2>4, <3>1
    <3> QED BY <3>2 DEF Caught
  <2>6. CASE estate[x].trace = "warning"
    <3>1. [what |-> "resource", at |-> x] \in Warnings(rule, At(rule, i))
      BY <1>3, <2>6 DEF Warnings
    <3>2. UNION {Warnings(rule, At(rule, k)) : k \in good} \subseteq log'
      BY DEF Runs, Ran
    <3>3. [what |-> "resource", at |-> x] \in log'
      BY <1>5, <3>1, <3>2
    <3> QED BY <1>2, <3>3 DEF Caught, Logged
  <2>7. CASE estate[x].rule \in Wordless /\ estate[x].trace = "silent"
    BY <1>2, <2>7 DEF Caught
  <2> QED BY <1>1, <2>1, <2>5, <2>6, <2>7, InputFacts, ResourceFacts
<1> QED BY <1>4, <1>5

(* After its scanner has run a fault is found or something is logged.      *)
LEMMA CaughtAfterRun ==
  ASSUME ScanInv, NEW rule, NEW good, Runs(rule, good),
         NEW x \in DOMAIN estate, estate[x].rule = rule
  PROVE  CaughtAt(x)'
<1>1. /\ Inputs /\ Progress /\ CaughtAt(x) /\ OnceAt(x) /\ ClientsLogged /\ pc = "category"
      /\ UNCHANGED <<account, estate>>
  BY DEF ScanInv, AllResourcesWell, Runs
<1> SUFFICES ASSUME estate[x].listed, estate[x].faulty,
                    estate[x].global \/ estate[x].region \in ToSet(ScanRegions)
             PROVE  Caught(x)'
  BY <1>1 DEF CaughtAt, ScanRegions
<1>2. ASSUME Caught(x) PROVE Caught(x)'
  <2>1. log \subseteq log' /\ found'[x] \in Nat /\ found[x] <= found'[x] /\ found[x] \in Nat
    BY <1>1, SilentRun, CountedAfterRun DEF Progress
  <2>2. Logged(x) => Logged(x)'
    BY <1>1, <2>1 DEF Logged
  <2> QED BY <1>1, <1>2, <2>1, <2>2 DEF Caught
<1>3. IsGlobal(rule) <=> estate[x].global
  BY OneMorePlace
<1>4. CASE estate[x].global
  <2>1. CASE rule \in scannedGlobal
    BY <1>1, <1>2, <1>4, <2>1 DEF OnceAt, CaughtAt
  <2>2. CASE rule \notin scannedGlobal
    <3>1. 1 \in Visits(rule) /\ At(rule, 1) = Default
      BY <1>3, <1>4, <2>2 DEF Visits, At
    <3>2. estate[x].region = Default
      BY <1>1, <1>4, InputFacts, ResourceFacts
    <3> QED BY <3>1, <3>2, CaughtByVisit
  <2> QED BY <2>1, <2>2
<1>5. CASE ~estate[x].global
  <2>1. PICK i \in DOMAIN ScanRegions : ScanRegions[i] = estate[x].region
    BY <1>5 DEF ToSet
  <2>2. CASE estate[x].region \in clients
    <3>1. i \in Visits(rule) /\ At(rule, i) = estate[x].region
      BY <1>3, <1>5, <2>1, <2>2 DEF Visits, At
    <3> QED BY <3>1, CaughtByVisit
  <2>3. CASE estate[x].region \notin clients
    <3>1. [what |-> "region", region |-> estate[x].region] \in log
      BY <1>1, <1>5, <2>3 DEF ClientsLogged
    <3>2. Logged(x)
      BY <1>5, <3>1 DEF Logged
    <3> QED BY <1>2, <3>2 DEF Caught
  <2> QED BY <2>2, <2>3
<1> QED BY <1>4, <1>5

(* A scanner's run keeps the invariant, of its own resources and of the    *)
(* others.                                                                 *)
LEMMA ScannerStep ==
  ASSUME ScanInv, NEW rule \in todo, RunScanner(rule)
  PROVE  ScanInv'
<1>1. PICK good \in SUBSET Visits(rule) : Runs(rule, good)
  BY DEF RunScanner, Runs
<1>2. /\ Inputs /\ Progress /\ AllResourcesWell /\ ClientsLogged /\ pc = "category"
      /\ UNCHANGED <<account, estate, pc, clients, category, report>>
      /\ todo' = todo \ {rule}
      /\ scannedGlobal' = scannedGlobal \cup (IF IsGlobal(rule) THEN {rule} ELSE {})
  BY <1>1 DEF ScanInv, Runs
<1>3. ASSUME NEW x \in DOMAIN estate, estate[x].rule = rule
      PROVE  CountedAt(x)' /\ OnceAt(x)' /\ CaughtAt(x)'
  <2>1. CountedAt(x)' /\ CaughtAt(x)'
    BY <1>1, <1>3, CountedAfterRun, CaughtAfterRun
  <2>2. OnceAt(x)'
    BY <1>1, <1>2, <1>3, OneMorePlace DEF OnceAt
  <2> QED BY <2>1, <2>2
<1>4. ASSUME NEW x \in DOMAIN estate, estate[x].rule # rule
      PROVE  /\ CountedAt(x)' /\ OnceAt(x)' /\ CaughtAt(x)'
             /\ found'[x] = found[x]
  <2>1. Past(x)' = Past(x)
    BY <1>2, <1>4 DEF Past, Places, Categories
  <2>2. Hits(x, rule, good) = {} /\ estate[x].found \in Nat /\ found[x] \in Nat
    BY <1>2, <1>4, InputFacts, ResourceFacts DEF Hits, Shown, Progress
  <2>3. found'[x] = found[x] + 0 * estate[x].found
    BY <1>1, <1>2, <2>2, FS_EmptySet DEF Runs, Ran, Collect, Progress
  <2>4. found'[x] = found[x]
    BY <2>2, <2>3
  <2>5. log \subseteq log'
    BY <1>1, SilentRun
  <2>6. estate[x].rule \in scannedGlobal' <=> estate[x].rule \in scannedGlobal
    BY <1>2, <1>4
  <2> QED BY <1>2, <2>1, <2>4, <2>5, <2>6, StaysWell DEF AllResourcesWell
<1>5. AllResourcesWell'
  BY <1>2, <1>3, <1>4 DEF AllResourcesWell
<1>6. Progress'
  <2>1. found' = [x \in DOMAIN estate |-> found'[x]]
    BY <1>1 DEF Runs, Ran, Collect
  <2>2. \A x \in DOMAIN estate : found'[x] \in Nat
    BY <1>1, <1>2, <1>4, CountedAfterRun DEF Progress
  <2>3. todo' # {} => category \in DOMAIN Categories /\ todo' \subseteq Scanners(Categories[category])
    BY <1>2 DEF Progress
  <2>4. Categories' = Categories /\ Scanners(Categories[category])' = Scanners(Categories[category])
    BY <1>2 DEF Categories, Scanners
  <2>5. found' \in [DOMAIN estate -> Nat]
    BY <2>1, <2>2
  <2> QED BY <1>2, <2>3, <2>4, <2>5 DEF Progress
<1>7. ClientsLogged'
  BY <1>1, <1>2, SilentRun DEF ClientsLogged, ScanRegions
<1>8. Inputs' /\ AtStart' /\ Through' /\ ReportIsOfScan'
  BY <1>2 DEF Inputs, AtStart, Through, ReportIsOfScan
<1> QED BY <1>5, <1>6, <1>7, <1>8 DEF ScanInv

(* No action of the reconcile breaks the invariant.                        *)
LEMMA ScanNext == ScanInv /\ [Next]_vars => ScanInv'
<1> SUFFICES ASSUME ScanInv, [Next]_vars PROVE ScanInv'
  OBVIOUS
<1>1. ASSUME UNCHANGED <<account, estate, clients, category, todo, scannedGlobal, found,
                         log>>,
             Through', ReportIsOfScan', pc' = "category" => pc = "category",
             pc' \in {"idle", "clients"} => pc \in {"idle", "clients"}
      PROVE  ScanInv'
  <2>1. Inputs' /\ Progress' /\ AtStart' /\ ClientsLogged'
    BY <1>1 DEF ScanInv, Inputs, Progress, AtStart, NothingDone, Nothing, ClientsLogged,
       Scanners, Categories, ScanRegions
  <2>2. \A x \in DOMAIN estate : Past(x)' = Past(x)
    BY <1>1 DEF Past, Places, Categories
  <2>3. AllResourcesWell'
    BY <1>1, <2>2, StaysWell DEF ScanInv, AllResourcesWell
  <2> QED BY <1>1, <2>1, <2>3 DEF ScanInv
<1>2. CASE Start
  BY <1>1, <1>2 DEF Start, ScanInv, Through, ReportIsOfScan
<1>3. CASE NewClients
  <2>1. pc = "clients" /\ Inputs /\ NothingDone /\ Progress /\ NothingDone'
    BY <1>3 DEF NewClients, ScanInv, AtStart, NothingDone, Nothing
  <2>2. UNCHANGED <<account, estate, category, todo, found>>
    BY <1>3 DEF NewClients
  <2>3. Inputs' /\ Progress'
    BY <2>1, <2>2 DEF Inputs, Progress, Scanners, Categories
  <2>4. AllResourcesWell'
    BY <2>1, <2>3, WellAtStart, PTL
  <2>5. CASE pc' = "report" /\ log' = {[what |-> "clients"]}
    BY <2>1, <2>3, <2>4, <2>5 DEF ScanInv, AtStart, ClientsLogged, Through, ReportIsOfScan
  <2>6. CASE /\ clients' \in SUBSET ToSet(ScanRegions) /\ pc' = "category"
             /\ log' = {[what |-> "region", region |-> r] : r \in ToSet(ScanRegions) \ clients'}
    <3>1. ClientsLogged'
      BY <2>2, <2>6 DEF ClientsLogged, ScanRegions
    <3> QED BY <2>3, <2>4, <2>6, <3>1 DEF ScanInv, AtStart, Through, ReportIsOfScan
  <2> QED BY <1>3, <2>5, <2>6 DEF NewClients
<1>4. CASE NextCategory
  BY <1>4, CategoryStep
<1>5. ASSUME NEW rule \in todo, RunScanner(rule) PROVE ScanInv'
  BY <1>5, ScannerStep
<1>6. CASE CreateReport
  <2>1. CASE Return
    BY <1>6, <2>1, ScanReturn DEF CreateReport
  <2>2. CASE /\ report'.findings = found /\ report'.summary = buildFindingsSummary
             /\ report'.compliance = evaluateCloudCompliance
             /\ pc' = "status"
             /\ UNCHANGED <<clients, category, todo, scannedGlobal, found, log>>
    <3>1. pc = "report" /\ UNCHANGED <<account, estate>>
      BY <1>6 DEF CreateReport
    <3>2. Through'
      BY <2>2, <3>1 DEF ScanInv, Through, Past, Places, Categories
    <3>3. ReportIsOfScan'
      BY <2>2, <3>1 DEF ReportIsOfScan, buildFindingsSummary, Count, evaluateCloudCompliance
    <3> QED BY <1>1, <2>2, <3>1, <3>2, <3>3
  <2> QED BY <1>6, <2>1, <2>2 DEF CreateReport
<1>7. CASE UpdateStatus
  BY <1>7, ScanReturn DEF UpdateStatus
<1>8. CASE UNCHANGED vars
  <2>1. Through' /\ ReportIsOfScan'
    BY <1>8 DEF vars, ScanInv, Through, ReportIsOfScan, Past, Places, Categories,
       buildFindingsSummary, Count, evaluateCloudCompliance
  <2> QED BY <1>1, <1>8, <2>1 DEF vars
<1> QED BY <1>2, <1>3, <1>4, <1>5, <1>6, <1>7, <1>8 DEF Next
-----------------------------------------------------------------------------
(* Every state of a scan.                                                  *)
LEMMA ScanInvariance == Spec => []ScanInv
<1> QED BY ScanInit, ScanNext, PTL DEF Spec

(* What is expected is what is due after all categories.                   *)
LEMMA ExpectedIsDue ==
  ASSUME ScanInv, NEW x \in DOMAIN estate
  PROVE  Expected(x) = Due(x, Cardinality(Places(x)))
<1> DEFINE c == Times(Categories, estate[x].category)
           t == Times(ScanRegions, estate[x].region)
           f == estate[x].found
<1>1. c = Cardinality(Places(x)) /\ c \in Nat /\ t \in Nat /\ f \in Nat
  BY CountFacts, InputFacts, ResourceFacts DEF ScanInv, Times, Places
<1>2. Expected(x) = IF estate[x].listed
                    THEN (IF estate[x].global THEN IF c > 0 THEN 1 ELSE 0 ELSE c * t) * f
                    ELSE 0
  BY DEF Expected, Asked
<1> HIDE DEF c, t, f
<1> QED BY <1>1, <1>2 DEF Due, t, f

(* runCloudScans makes nothing up: no resource is reported more often than *)
(* its category, its region and its findings ask for, and a global one not *)
(* once per region or category, whatever fails.                            *)
THEOREM NothingMadeUpAlways == Spec => []NothingMadeUp
<1>1. ScanInv => NothingMadeUp
  <2> SUFFICES ASSUME ScanInv, Fresh, NEW x \in DOMAIN estate
               PROVE  Reported(x) <= Expected(x)
    BY DEF NothingMadeUp
  <2>1. Inputs /\ Progress /\ CountedAt(x) /\ Reported(x) = found[x]
    BY DEF ScanInv, AllResourcesWell, ReportIsOfScan, Fresh, Reported
  <2>2. Due(x, Cardinality(Past(x))) <= Due(x, Cardinality(Places(x)))
    BY <2>1, CountFacts, DueFacts
  <2>3. /\ found[x] \in Nat /\ Due(x, Cardinality(Past(x))) \in Nat
        /\ Due(x, Cardinality(Places(x))) \in Nat
    BY <2>1, CountFacts, DueFacts DEF Progress
  <2> QED BY <2>1, <2>2, <2>3, ExpectedIsDue DEF CountedAt
<1> QED BY <1>1, ScanInvariance, PTL

(* A scan that logs no failure reports exactly what the account holds and  *)
(* the spec asks for, and its summary counts that.                         *)
THEOREM CleanScanIsExactAlways == Spec => []CleanScanIsExact
<1>1. ScanInv => CleanScanIsExact
  <2> SUFFICES ASSUME ScanInv, Fresh, log = {}
               PROVE  /\ \A x \in DOMAIN estate : Reported(x) = Expected(x)
                      /\ \A s \in Severities :
                           report.summary[s] = Count([x \in DOMAIN estate |-> Expected(x)], s)
    BY DEF CleanScanIsExact
  <2>1. /\ Progress /\ report.findings = found /\ report.summary = buildFindingsSummary
        /\ \A x \in DOMAIN estate : Past(x) = Places(x)
    BY DEF ScanInv, ReportIsOfScan, Through, Fresh
  <2>2. ASSUME NEW x \in DOMAIN estate PROVE found[x] = Expected(x)
    BY <2>1, ExpectedIsDue DEF ScanInv, AllResourcesWell, CountedAt
  <2>3. found = [x \in DOMAIN estate |-> Expected(x)]
    BY <2>1, <2>2 DEF Progress
  <2>4. ASSUME NEW s \in Severities
        PROVE  report.summary[s] = Count([x \in DOMAIN estate |-> Expected(x)], s)
    BY <2>1, <2>3 DEF buildFindingsSummary
  <2> QED BY <2>1, <2>2, <2>4 DEF Reported
<1> QED BY <1>1, ScanInvariance, PTL

(* A fault that the spec asks for and a listing shows is in the report, or *)
(* the log has a failure of its own client, scanner or read: nothing that  *)
(* fails for one region, scanner or resource hides another, except for the *)
(* scanners that pass over what they cannot read.                          *)
THEOREM FaultsReportedOrLoggedAlways == Spec => []FaultsReportedOrLogged
<1>1. ScanInv => FaultsReportedOrLogged
  <2> SUFFICES ASSUME ScanInv, Fresh, NEW x \in DOMAIN estate,
                      estate[x].listed, Asked(x) > 0, estate[x].faulty
               PROVE  \/ Reported(x) > 0 \/ Logged(x)
                      \/ estate[x].rule \in Wordless /\ estate[x].trace = "silent"
    BY DEF FaultsReportedOrLogged
  <2>1. /\ Inputs /\ Reported(x) = found[x] /\ CaughtAt(x)
        /\ [what |-> "clients"] \in log \/ Past(x) = Places(x)
    BY DEF ScanInv, AllResourcesWell, ReportIsOfScan, Through, Fresh, Reported
  <2>2. CASE [what |-> "clients"] \in log
    BY <2>2 DEF Logged
  <2>3. CASE Past(x) = Places(x)
    <3> DEFINE c == Times(Categories, estate[x].category)
               t == Times(ScanRegions, estate[x].region)
    <3>1. c = Cardinality(Places(x)) /\ c \in Nat /\ t \in Nat
      BY <2>1, CountFacts DEF Times, Places
    <3>2. Asked(x) = IF estate[x].global THEN IF c > 0 THEN 1 ELSE 0 ELSE c * t
      BY DEF Asked
    <3> HIDE DEF c, t
    <3>3. c # 0
      <4>1. ~estate[x].global /\ c = 0 => c * t = 0
        BY <3>1
      <4> QED BY <3>1, <3>2, <4>1
    <3>4. ~estate[x].global => t # 0
      <4>1. ~estate[x].global /\ t = 0 => c * t = 0
        BY <3>1
      <4> QED BY <3>1, <3>2, <4>1
    <3>5. Past(x) # {}
      BY <2>3, <3>1, <3>3, FS_EmptySet
    <3>6. t # 0 => estate[x].region \in ToSet(ScanRegions)
      <4> DEFINE R == {i \in DOMAIN ScanRegions : ScanRegions[i] = estate[x].region}
      <4>1. t # 0 => R # {}
        BY FS_EmptySet DEF t, Times
      <4> QED BY <4>1 DEF ToSet
    <3> QED BY <2>1, <3>4, <3>5, <3>6 DEF CaughtAt, Caught
  <2> QED BY <2>1, <2>2, <2>3
<1> QED BY <1>1, ScanInvariance, PTL
-----------------------------------------------------------------------------
(* A pass rate that is cut to a whole number is below 100 as soon as one   *)
(* control fails, and is 100 if none does.                                 *)
LEMMA PassRate ==
  ASSUME NEW t \in Nat, NEW n \in Nat, n <= t, t > 0
  PROVE  /\ n > 0 => ((t - n) * 100) \div t < 100
         /\ n = 0 => ((t - n) * 100) \div t = 100
<1> DEFINE a == (t - n) * 100
           q == a \div t
<1>1. a \in Nat /\ a <= t * 100 /\ (n > 0 => a < t * 100)
  OBVIOUS
<1>2. n = 0 => a = t * 100
  OBVIOUS
<1>3. q \in Int /\ t * q <= a /\ a < t * q + t
  BY <1>1
<1> HIDE DEF a, q
<1>4. q <= 100
  <2>1. ASSUME q >= 101 PROVE FALSE
    <3>1. PICK d \in Nat : q = 101 + d
      BY <1>3, <2>1
    <3>2. t * q = t * 101 + t * d /\ t * d \in Nat
      BY <3>1
    <3> QED BY <1>1, <1>3, <3>2
  <2> QED BY <1>3, <2>1
<1>5. n > 0 => q # 100
  BY <1>1, <1>3
<1>6. n = 0 => q >= 100
  <2>1. ASSUME n = 0, q <= 99 PROVE FALSE
    <3>1. PICK d \in Nat : q + d = 99
      BY <1>3, <2>1
    <3>2. t * q + t * d = t * 99 /\ t * d \in Nat /\ t * q \in Int
      BY <1>3, <3>1
    <3> QED BY <1>2, <1>3, <2>1, <3>2
  <2> QED BY <1>3, <2>1
<1> QED BY <1>3, <1>4, <1>5, <1>6 DEF q, a

(* EvaluateFindings: a framework is passed in full if and only if none of  *)
(* its controls is about a rule type of a finding.                         *)
LEMMA FullyCompliant ==
  ASSUME NEW i \in DOMAIN Frameworks, NEW types
  PROVE  LET controls == Controls(Frameworks[i])
             rate == EvaluateFindings(Frameworks[i], types).passRate
         IN /\ (\E c \in DOMAIN controls : controls[c] \cap types # {}) => rate < 100
            /\ (\A c \in DOMAIN controls : controls[c] \cap types = {}) => rate = 100
<1> DEFINE controls == Controls(Frameworks[i])
           failed == {c \in DOMAIN controls : controls[c] \cap types # {}}
           t == Cardinality(DOMAIN controls)
           n == Cardinality(failed)
<1>1. EvaluateFindings(Frameworks[i], types).passRate = ((t - n) * 100) \div t
  BY DEF EvaluateFindings
<1>2. IsFiniteSet(DOMAIN controls) /\ DOMAIN controls # {} /\ failed \subseteq DOMAIN controls
  BY TablesAssumption
<1>3. IsFiniteSet(failed) /\ n <= t
  BY <1>2, FS_Subset
<1>4. t \in Nat /\ n \in Nat
  BY <1>2, <1>3, FS_CardinalityType
<1>5. t # 0 /\ (n = 0 <=> failed = {})
  BY <1>2, <1>3, FS_EmptySet
<1>6. /\ n > 0 => ((t - n) * 100) \div t < 100
      /\ n = 0 => ((t - n) * 100) \div t = 100
  <2> HIDE DEF t, n
  <2> QED BY <1>3, <1>4, <1>5, PassRate
<1>7. /\ (\E c \in DOMAIN controls : controls[c] \cap types # {}) => n > 0
      /\ (\A c \in DOMAIN controls : controls[c] \cap types = {}) => n = 0
  <2>1. /\ (\E c \in DOMAIN controls : controls[c] \cap types # {}) => failed # {}
        /\ (\A c \in DOMAIN controls : controls[c] \cap types = {}) => failed = {}
    OBVIOUS
  <2> HIDE DEF n, failed
  <2> QED BY <1>4, <1>5, <2>1
<1> QED BY <1>1, <1>6, <1>7

(* A report with a critical finding fails a control of SOC 2, PCI-DSS or   *)
(* HIPAA, and its rounded rate shows it; a report without findings passes  *)
(* every framework in full.                                                *)
THEOREM CriticalFailsComplianceAlways == Spec => []CriticalFailsCompliance
<1>1. ScanInv => CriticalFailsCompliance
  <2> SUFFICES ASSUME ScanInv, Fresh
               PROVE  /\ report.summary["critical"] > 0
                           => \E i \in 1 .. 3 : report.compliance[i].passRate < 100
                      /\ report.findings = Nothing
                           => \A i \in DOMAIN Frameworks : report.compliance[i].passRate = 100
    BY DEF CriticalFailsCompliance
  <2> DEFINE types == {estate[f[1]].rule : f \in Members(found)}
  <2>1. /\ Inputs /\ Progress /\ report.findings = found
        /\ report.summary = buildFindingsSummary
        /\ report.compliance = evaluateCloudCompliance
    BY DEF ScanInv, ReportIsOfScan, Fresh
  <2>2. \A i \in DOMAIN Frameworks :
          report.compliance[i] = EvaluateFindings(Frameworks[i], types)
    BY <2>1 DEF evaluateCloudCompliance
  <2>3. DOMAIN Frameworks = 1 .. 6
    BY DEF Frameworks
  <2>4. ASSUME report.summary["critical"] > 0
        PROVE  \E i \in 1 .. 3 : report.compliance[i].passRate < 100
    <3> DEFINE F == {f \in Members(found) : estate[f[1]].severity = "critical"}
    <3>1. Cardinality(F) > 0
      BY <2>1, <2>4 DEF buildFindingsSummary, Count, Severities
    <3>2. PICK f \in Members(found) : estate[f[1]].severity = "critical"
      BY <3>1, FS_EmptySet
    <3>3. f[1] \in DOMAIN estate
      BY <2>1 DEF Members, Progress
    <3>4. /\ estate[f[1]].rule \in RuleTypes
          /\ Registry[estate[f[1]].rule].severity = "critical"
      BY <2>1, <3>2, <3>3, InputFacts, ResourceFacts
    <3>5. PICK i \in 1 .. 3 : \E c \in DOMAIN Controls(Frameworks[i]) :
                 estate[f[1]].rule \in Controls(Frameworks[i])[c]
      BY <3>4, TablesAssumption
    <3>6. \E c \in DOMAIN Controls(Frameworks[i]) :
            Controls(Frameworks[i])[c] \cap types # {}
      BY <3>5
    <3>7. i \in DOMAIN Frameworks
      BY <2>3
    <3>8. EvaluateFindings(Frameworks[i], types).passRate < 100
      BY <3>6, <3>7, FullyCompliant
    <3> QED BY <2>2, <3>7, <3>8
  <2>5. ASSUME report.findings = Nothing, NEW i \in DOMAIN Frameworks
        PROVE  report.compliance[i].passRate = 100
    <3>1. Members(found) = {}
      BY <2>1, <2>5 DEF Members, Nothing
    <3>2. types = {}
      BY <3>1
    <3>3. \A c \in DOMAIN Controls(Frameworks[i]) :
            Controls(Frameworks[i])[c] \cap types = {}
      BY <3>2
    <3>4. EvaluateFindings(Frameworks[i], types).passRate = 100
      <4> HIDE DEF types
      <4> QED BY <3>3, FullyCompliant
    <3> QED BY <2>2, <3>4
  <2> QED BY <2>4, <2>5
<1> QED BY <1>1, ScanInvariance, PTL
=============================================================================
