--------------------------- MODULE PoliciesProofs ----------------------------
(***************************************************************************)
(* The notifications and the count of violations of the SecurityPolicy     *)
(* controller, and the anomalies of the MonitoringPolicy controller, for   *)
(* any cluster, any specs and any settings of the detector.                *)
(***************************************************************************)
EXTENDS Policies, FiniteSetTheorems, WellFoundedInduction, TLAPS

(* A set of numbers that is not empty has a least one.                     *)
LEMMA LeastNumber ==
  ASSUME NEW S \in SUBSET Nat, S # {}
  PROVE  \E x \in S : \A y \in S : x <= y
<1> DEFINE R == OpToRel(<, Nat)
<1>1. R = {ss \in Nat \X Nat : ss[1] < ss[2]}
  BY DEF OpToRel
<1>2. IsWellFoundedOn(R, Nat)
  BY NatLessThanWellFounded
<1> HIDE DEF R
<1>3. \E x \in S : \A y \in S : ~(<<y, x>> \in R)
  BY <1>2, WFMin
<1>4. PICK x \in S : \A y \in S : ~(<<y, x>> \in R)
  BY <1>3
<1>5. ASSUME NEW y \in S PROVE x <= y
  <2>1. <<y, x>> \in Nat \X Nat /\ ~(<<y, x>> \in R)
    BY <1>4
  <2>2. ~(<<y, x>>[1] < <<y, x>>[2])
    BY <1>1, <2>1
  <2> QED BY <2>1, <2>2
<1> QED BY <1>5

(* The element of a set that a fold takes next.                            *)
Chosen(s) == CHOOSE x \in s : TRUE

(* It is one.                                                              *)
LEMMA ChosenIn == \A s : s # {} => Chosen(s) \in s
BY DEF Chosen

(* A table of sums: of a number, added once for every element of a set.    *)
Sums(g, S, c) ==
  \A s \in SUBSET S : g[s] = IF s = {} THEN 0 ELSE c + g[s \ {Chosen(s)}]

(* Adding up a number once for every element of a set multiplies it.       *)
LEMMA ConstantFold ==
  ASSUME NEW S, IsFiniteSet(S), NEW c \in Int, NEW g, Sums(g, S, c)
  PROVE  g[S] = Cardinality(S) * c
<1> DEFINE Wrong == {k \in Nat : \E s \in SUBSET S : Cardinality(s) = k /\ g[s] # k * c}
<1>1. \A s \in SUBSET S : IsFiniteSet(s) /\ Cardinality(s) \in Nat
  BY FS_Subset, FS_CardinalityType
<1>2. ASSUME Wrong # {} PROVE FALSE
  <2>1. PICK k \in Wrong : \A m \in Wrong : k <= m
    BY <1>2, LeastNumber
  <2>2. PICK s \in SUBSET S : Cardinality(s) = k /\ g[s] # k * c
    OBVIOUS
  <2> DEFINE x == Chosen(s)
             rest == s \ {x}
  <2>3. CASE s = {}
    BY <2>2, <2>3, FS_EmptySet DEF Sums
  <2>4. CASE s # {}
    <3>1. x \in s
      BY <2>4 DEF Chosen
    <3>2. Cardinality(rest) = k - 1 /\ rest \in SUBSET S
      BY <1>1, <2>2, <3>1, FS_RemoveElement
    <3>3. g[s] = c + g[rest]
      BY <2>4 DEF Sums
    <3>4. k - 1 \in Nat /\ k \in Nat
      BY <1>1, <3>2
    <3>5. g[rest] = (k - 1) * c
      <4>1. k - 1 \notin Wrong
        BY <2>1, <3>4
      <4> QED BY <3>2, <3>4, <4>1
    <3> HIDE DEF rest, x, Wrong
    <3>6. g[s] = k * c
      BY <3>3, <3>4, <3>5
    <3> QED BY <2>2, <3>6
  <2> QED BY <2>3, <2>4
<1> QED BY <1>1, <1>2

(* So the total of a baseline of equal values, and that of their squares,  *)
(* are products, and its deviation, which Observe divides by, is zero.     *)
LEMMA EqualValues ==
  ASSUME NEW values \in Seq(Nat), NEW v \in Nat, \A i \in DOMAIN values : values[i] = v
  PROVE  Variance(values) = 0
<1> DEFINE S == DOMAIN values
           n == Len(values)
           Fold(c, f) == [s \in SUBSET S |->
                            IF s = {} THEN 0 ELSE c + f[s \ {Chosen(s)}]]
<1>1. n \in Nat /\ S = 1 .. n /\ IsFiniteSet(S) /\ Cardinality(S) = n
  <2>1. n \in Nat /\ S = 1 .. n
    OBVIOUS
  <2> QED BY <2>1, FS_Interval
<1>2. ASSUME NEW c \in Int PROVE (CHOOSE f : f = Fold(c, f))[S] = n * c
  <2> DEFINE h == [s \in SUBSET S |-> Cardinality(s) * c]
             f == CHOOSE f : f = Fold(c, f)
  <2>1. h = Fold(c, h)
    <3>1. ASSUME NEW s \in SUBSET S
          PROVE  Cardinality(s) * c
                   = IF s = {} THEN 0 ELSE c + h[s \ {Chosen(s)}]
      <4>1. IsFiniteSet(s) /\ Cardinality(s) \in Nat
        BY <1>1, FS_Subset, FS_CardinalityType
      <4>2. CASE s = {}
        BY <4>2, FS_EmptySet
      <4>3. CASE s # {}
        <5> DEFINE x == Chosen(s)
        <5>1. x \in s
          BY <4>3 DEF Chosen
        <5>2. Cardinality(s \ {x}) = Cardinality(s) - 1 /\ s \ {x} \in SUBSET S
          BY <4>1, <5>1, FS_RemoveElement
        <5>3. h[s \ {x}] = (Cardinality(s) - 1) * c
          BY <5>2
        <5>4. Cardinality(s) * c = c + (Cardinality(s) - 1) * c
          BY <4>1
        <5> QED BY <4>3, <5>3, <5>4
      <4> QED BY <4>2, <4>3
    <3> QED BY <3>1
  <2>2. f = Fold(c, f)
    BY <2>1
  <2>3. Sums(f, S, c)
    <3> HIDE DEF f, S
    <3> QED BY <2>2 DEF Sums
  <2>4. f[S] = Cardinality(S) * c
    <3> HIDE DEF f, S, h
    <3> QED BY <1>1, <2>3, ConstantFold
  <2> QED BY <1>1, <2>4
<1>3. Total(values) = n * v
  <2> DEFINE F(f) == [s \in SUBSET S |->
               IF s = {} THEN 0
               ELSE values[Chosen(s)] + f[s \ {Chosen(s)}]]
  <2>1. \A f : F(f) = Fold(v, f)
    BY ChosenIn
  <2>2. Total(values) = (CHOOSE f : f = F(f))[S]
    BY DEF Total, MapThenSumSet, MapThenFoldSet, Chosen
  <2> HIDE DEF F, Fold, S, n
  <2> QED BY <1>2, <2>1, <2>2
<1>4. Squares(values) = n * (v * v)
  <2> DEFINE F(f) == [s \in SUBSET S |->
               IF s = {} THEN 0
               ELSE values[Chosen(s)] * values[Chosen(s)]
                      + f[s \ {Chosen(s)}]]
  <2>1. \A f : F(f) = Fold(v * v, f)
    BY ChosenIn
  <2>2. Squares(values) = (CHOOSE f : f = F(f))[S]
    BY DEF Squares, MapThenSumSet, MapThenFoldSet, Chosen
  <2>3. v * v \in Int
    OBVIOUS
  <2> HIDE DEF F, Fold, S, n
  <2> QED BY <1>2, <2>1, <2>2, <2>3
<1> HIDE DEF n, S
<1>5. n * (n * (v * v)) - (n * v) * (n * v) = 0
  BY <1>1
<1> QED BY <1>3, <1>4, <1>5 DEF Variance, n
-----------------------------------------------------------------------------
Baselines == [values : Seq(Nat), count : Nat]
PodFields == {"namespace", "labels", "phase", "restarts", "tally", "weight", "hard"}
IsPod(r) == r = [f \in PodFields |-> r[f]] /\ r.restarts \in Nat

(* The latest values of a baseline, as many as were observed since the     *)
(* count changed last, are the count.                                      *)
LatestAre(values, many, v) ==
  \A i \in DOMAIN values : i > Len(values) - many => values[i] = v

(* What the anomaly detector knows of a container.                         *)
DInv ==
  /\ pods = [p \in DOMAIN pods |-> pods[p]] /\ \A p \in DOMAIN pods : IsPod(pods[p])
  /\ baseline \in [DOMAIN pods -> Baselines] /\ since \in [DOMAIN pods -> 0 .. MaxValues]
  /\ \A p \in DOMAIN pods : /\ Len(baseline[p].values) <= MaxValues
                            /\ LatestAre(baseline[p].values, since[p], pods[p].restarts)

(* Cutting the head of a sequence.                                         *)
LEMMA Cut ==
  ASSUME NEW s \in Seq(Nat), NEW d \in Nat, d < Len(s)
  PROVE  /\ SubSeq(s, d + 1, Len(s)) \in Seq(Nat)
         /\ Len(SubSeq(s, d + 1, Len(s))) = Len(s) - d
         /\ \A i \in 1 .. Len(s) - d : SubSeq(s, d + 1, Len(s))[i] = s[i + d]
<1>1. Len(s) \in Nat /\ DOMAIN s = 1 .. Len(s) /\ \A i \in 1 .. Len(s) : s[i] \in Nat
  OBVIOUS
<1>2. SubSeq(s, d + 1, Len(s)) = [i \in 1 .. Len(s) - d |-> s[i + d]]
  BY <1>1
<1>3. Len(s) - d \in Nat
  BY <1>1
<1>4. \A i \in 1 .. Len(s) - d : s[i + d] \in Nat
  BY <1>1
<1> QED BY <1>2, <1>3, <1>4

(* Observing a count once more makes the latest equal values more.         *)
LEMMA ExtendLatest ==
  ASSUME NEW b \in Baselines, Len(b.values) <= MaxValues, NEW v \in Nat, NEW times \in Nat,
         NEW k \in Nat, LatestAre(b.values, k, v)
  PROVE  /\ Extend(b, v, times) \in Baselines
         /\ Len(Extend(b, v, times).values) <= MaxValues
         /\ LatestAre(Extend(b, v, times).values, k + times, v)
<1> DEFINE old == b.values
           more == [i \in 1 .. times |-> v]
           longer == old \o more
           over == Len(longer) - MaxValues
           e == Extend(b, v, times)
<1>1. MaxValues \in Nat /\ MaxValues > 0 /\ MinDataPoints \in Nat
  BY DetectorAssumption
<1>2. old \in Seq(Nat) /\ b.count \in Nat /\ more \in Seq(Nat) /\ Len(more) = times
  BY DEF Baselines
<1>3. /\ longer \in Seq(Nat) /\ Len(longer) = Len(old) + times /\ Len(old) \in Nat
      /\ \A i \in 1 .. Len(longer) :
           longer[i] = IF i <= Len(old) THEN old[i] ELSE more[i - Len(old)]
  BY <1>2
<1>4. \A i \in 1 .. Len(longer) : i > Len(longer) - (k + times) => longer[i] = v
  <2> SUFFICES ASSUME NEW i \in 1 .. Len(longer), i > Len(longer) - (k + times)
               PROVE  longer[i] = v
    OBVIOUS
  <2>1. CASE i <= Len(old)
    <3>1. i \in DOMAIN old /\ i > Len(old) - k
      BY <1>2, <1>3, <2>1
    <3> QED BY <1>3, <2>1, <3>1 DEF LatestAre
  <2>2. CASE i > Len(old)
    <3>1. i - Len(old) \in 1 .. times
      BY <1>3, <2>2
    <3> QED BY <1>3, <2>2, <3>1
  <2> QED BY <1>3, <2>1, <2>2
<1>5. /\ e.values = IF over > 0 THEN SubSeq(longer, over + 1, Len(longer)) ELSE longer
      /\ e.count = IF b.count + times < MinDataPoints THEN b.count + times ELSE MinDataPoints
      /\ e = [values |-> e.values, count |-> e.count]
  BY DEF Extend
<1>6. e.count \in Nat
  BY <1>1, <1>2, <1>5
<1> HIDE DEF longer, more, old, e, over
<1>7. CASE over > 0
  <2>1. over \in Nat /\ over < Len(longer) /\ Len(longer) - over = MaxValues
    BY <1>1, <1>3, <1>7 DEF over, old
  <2> DEFINE w == SubSeq(longer, over + 1, Len(longer))
  <2>2. e.values = w
    BY <1>5, <1>7
  <2>3. /\ w \in Seq(Nat) /\ Len(w) = Len(longer) - over
        /\ \A i \in 1 .. Len(longer) - over : w[i] = longer[i + over]
    BY <1>3, <2>1, Cut
  <2> HIDE DEF w
  <2>4. DOMAIN w = 1 .. MaxValues /\ Len(w) = MaxValues
    BY <2>1, <2>3
  <2>5. ASSUME NEW i \in 1 .. MaxValues, i > MaxValues - (k + times) PROVE w[i] = v
    <3>1. i + over \in 1 .. Len(longer) /\ i + over > Len(longer) - (k + times)
      BY <1>1, <1>3, <2>1, <2>5
    <3> QED BY <1>4, <2>1, <2>3, <3>1
  <2>6. LatestAre(w, k + times, v)
    BY <2>4, <2>5 DEF LatestAre
  <2>7. Len(w) <= MaxValues
    BY <1>1, <2>4
  <2> QED BY <1>5, <1>6, <2>2, <2>3, <2>6, <2>7 DEF Baselines, e
<1>8. CASE ~(over > 0)
  <2>1. e.values = longer /\ Len(longer) <= MaxValues
    BY <1>1, <1>3, <1>5, <1>8 DEF over
  <2>2. LatestAre(e.values, k + times, v)
    BY <1>3, <1>4, <2>1 DEF LatestAre
  <2> QED BY <1>3, <1>5, <1>6, <2>1, <2>2 DEF Baselines, e
<1> QED BY <1>7, <1>8

(* When only one value is left in the window there is nothing to report.   *)
LEMMA OldNewsIsNoNews ==
  ASSUME NEW b \in Baselines, Len(b.values) <= MaxValues, NEW v \in Nat, NEW many \in Nat,
         many >= MaxValues, LatestAre(b.values, many, v), NEW learning
  PROVE  Judge(b, v, learning) = "none"
<1>1. b.values \in Seq(Nat) /\ MaxValues \in Nat
  BY DetectorAssumption DEF Baselines
<1>2. \A i \in DOMAIN b.values : b.values[i] = v
  BY <1>1 DEF LatestAre
<1>3. Variance(b.values) = 0
  BY <1>1, <1>2, EqualValues
<1> QED BY <1>3 DEF Judge

(* How often a pod is observed in a cycle.                                 *)
Times(p, skipped) ==
  IF p \in Running /\ pods[p].namespace \notin skipped
  THEN Cardinality({i \in DOMAIN Targets : Targets[i] = pods[p].namespace}) ELSE 0

(* It is a number.                                                         *)
LEMMA TimesTyped == ASSUME NEW p, NEW skipped PROVE Times(p, skipped) \in Nat
<1>1. Targets \in Seq(ToSet(Targets))
  BY PoliciesAssumption
<1>2. Len(Targets) \in Nat /\ DOMAIN Targets = 1 .. Len(Targets)
  BY <1>1
<1>3. IsFiniteSet(1 .. Len(Targets))
  BY <1>2, FS_Interval
<1>4. Cardinality({i \in DOMAIN Targets : Targets[i] = pods[p].namespace}) \in Nat
  BY <1>2, <1>3, FS_Subset, FS_CardinalityType
<1> QED BY <1>4 DEF Times

(* A pod is scanned once and for all when it is created.                   *)
LEMMA JudgedIsPod ==
  ASSUME NEW pod, pod.restarts \in Nat
  PROVE  IsPod(Judged(pod)) /\ Judged(pod).restarts = pod.restarts
BY DEF IsPod, Judged, PodFields

(* It changes its phase ...                                                *)
LEMMA PhaseOfPod ==
  ASSUME NEW r, IsPod(r), NEW v
  PROVE  IsPod([r EXCEPT !.phase = v]) /\ [r EXCEPT !.phase = v].restarts = r.restarts
BY DEF IsPod, PodFields

(* ... and its restarts, and nothing else.                                 *)
LEMMA RestartsOfPod ==
  ASSUME NEW r, IsPod(r), NEW v \in Nat
  PROVE  IsPod([r EXCEPT !.restarts = v]) /\ [r EXCEPT !.restarts = v].restarts = v
BY DEF IsPod, PodFields

(* The detector has seen nothing of a container at first.                  *)
LEMMA DInit == Init => DInv
<1> SUFFICES ASSUME Init PROVE DInv
  OBVIOUS
<1>1. PICK s \in Scenarios :
         /\ pods = [p \in DOMAIN s.pods |-> Judged(s.pods[p])]
         /\ baseline = [p \in DOMAIN s.pods |-> NoBaseline]
         /\ since = [p \in DOMAIN s.pods |-> MaxValues]
  BY DEF Init
<1>2. \A p \in DOMAIN s.pods : s.pods[p].restarts \in Nat
  BY PoliciesAssumption
<1>3. DOMAIN pods = DOMAIN s.pods /\ \A p \in DOMAIN pods : IsPod(pods[p])
  BY <1>1, <1>2, JudgedIsPod
<1>4. MaxValues \in Nat
  BY DetectorAssumption
<1>5. NoBaseline \in Baselines /\ Len(NoBaseline.values) = 0 /\ DOMAIN NoBaseline.values = {}
  BY DEF NoBaseline, Baselines
<1>6. pods = [p \in DOMAIN pods |-> pods[p]]
  BY <1>1
<1>7. baseline \in [DOMAIN pods -> Baselines] /\ since \in [DOMAIN pods -> 0 .. MaxValues]
  BY <1>1, <1>3, <1>4, <1>5
<1>8. \A p \in DOMAIN pods : /\ Len(baseline[p].values) <= MaxValues
                             /\ LatestAre(baseline[p].values, since[p], pods[p].restarts)
  BY <1>1, <1>3, <1>4, <1>5 DEF LatestAre
<1> QED BY <1>3, <1>6, <1>7, <1>8 DEF DInv

(* A pod's count changes only with since set back.                         *)
LEMMA CountChanges ==
  ASSUME DInv, baseline' = baseline, DOMAIN pods' = DOMAIN pods,
         pods' = [q \in DOMAIN pods' |-> pods'[q]], since' \in [DOMAIN pods -> 0 .. MaxValues],
         \A q \in DOMAIN pods :
           /\ IsPod(pods'[q])
           /\ \/ since'[q] = 0
              \/ since'[q] = since[q] /\ pods'[q].restarts = pods[q].restarts
  PROVE  DInv'
<1>1. ASSUME NEW q \in DOMAIN pods
      PROVE  LatestAre(baseline'[q].values, since'[q], pods'[q].restarts)
  <2>1. Len(baseline[q].values) \in Nat /\ DOMAIN baseline[q].values = 1 .. Len(baseline[q].values)
    BY DEF DInv, Baselines
  <2>2. CASE since'[q] = 0
    BY <2>1, <2>2 DEF LatestAre
  <2>3. CASE since'[q] = since[q] /\ pods'[q].restarts = pods[q].restarts
    BY <2>3 DEF DInv
  <2> QED BY <2>2, <2>3
<1> QED BY <1>1 DEF DInv

(* Pods that come, go and restart.                                         *)
LEMMA DPods == DInv /\ PodChanges => DInv'
<1> SUFFICES ASSUME DInv, PodChanges PROVE DInv'
  OBVIOUS
<1>1. PICK p \in DOMAIN pods :
         \/ /\ pods' = [pods EXCEPT ![p].phase = "Succeeded"] /\ since' = since
         \/ \E r \in {pods[p].restarts, 0} :
              /\ pods' = [pods EXCEPT ![p].phase = "Running", ![p].restarts = r]
              /\ since' = [since EXCEPT ![p] = IF r = pods[p].restarts THEN @ ELSE 0]
         \/ /\ pods' = [pods EXCEPT ![p].restarts = @ + 1]
            /\ since' = [since EXCEPT ![p] = 0]
  BY DEF PodChanges
<1>2. /\ pods = [q \in DOMAIN pods |-> pods[q]] /\ \A q \in DOMAIN pods : IsPod(pods[q])
      /\ pods[p].restarts \in Nat
  BY DEF DInv, IsPod
<1>3. since \in [DOMAIN pods -> 0 .. MaxValues] /\ 0 \in 0 .. MaxValues
  BY DetectorAssumption DEF DInv
<1>4. baseline' = baseline
  BY DEF PodChanges, mon
<1>5. CASE /\ pods' = [pods EXCEPT ![p].phase = "Succeeded"] /\ since' = since
  <2>1. pods' = [pods EXCEPT ![p] = [pods[p] EXCEPT !.phase = "Succeeded"]]
    BY <1>5
  <2>2. /\ DOMAIN pods' = DOMAIN pods /\ pods' = [q \in DOMAIN pods' |-> pods'[q]]
        /\ \A q \in DOMAIN pods : IsPod(pods'[q]) /\ pods'[q].restarts = pods[q].restarts
    BY <1>2, <2>1, PhaseOfPod
  <2> QED BY <1>3, <1>4, <1>5, <2>2, CountChanges
<1>6. ASSUME NEW r \in {pods[p].restarts, 0},
             pods' = [pods EXCEPT ![p].phase = "Running", ![p].restarts = r],
             since' = [since EXCEPT ![p] = IF r = pods[p].restarts THEN @ ELSE 0]
      PROVE  DInv'
  <2> DEFINE a == [pods[p] EXCEPT !.phase = "Running"]
             b == [a EXCEPT !.restarts = r]
  <2>1. pods' = [pods EXCEPT ![p] = b]
    BY <1>6
  <2>2. IsPod(b) /\ b.restarts = r
    <3>1. IsPod(a)
      BY <1>2, PhaseOfPod
    <3> HIDE DEF a
    <3> QED BY <1>2, <3>1, RestartsOfPod
  <2> HIDE DEF b
  <2>3. /\ DOMAIN pods' = DOMAIN pods /\ pods' = [q \in DOMAIN pods' |-> pods'[q]]
        /\ \A q \in DOMAIN pods : IsPod(pods'[q]) /\ (q # p => pods'[q] = pods[q])
        /\ pods'[p].restarts = r
    BY <1>2, <2>1, <2>2
  <2>4. /\ since' \in [DOMAIN pods -> 0 .. MaxValues]
        /\ \A q \in DOMAIN pods : q # p => since'[q] = since[q]
        /\ since'[p] = IF r = pods[p].restarts THEN since[p] ELSE 0
    BY <1>3, <1>6
  <2>5. \A q \in DOMAIN pods :
           \/ since'[q] = 0
           \/ since'[q] = since[q] /\ pods'[q].restarts = pods[q].restarts
    BY <2>3, <2>4
  <2> QED BY <1>4, <2>3, <2>4, <2>5, CountChanges
<1>7. CASE /\ pods' = [pods EXCEPT ![p].restarts = @ + 1] /\ since' = [since EXCEPT ![p] = 0]
  <2> DEFINE b == [pods[p] EXCEPT !.restarts = pods[p].restarts + 1]
  <2>1. pods' = [pods EXCEPT ![p] = b]
    BY <1>7
  <2>2. IsPod(b)
    BY <1>2, RestartsOfPod
  <2> HIDE DEF b
  <2>3. /\ DOMAIN pods' = DOMAIN pods /\ pods' = [q \in DOMAIN pods' |-> pods'[q]]
        /\ \A q \in DOMAIN pods : IsPod(pods'[q]) /\ (q # p => pods'[q] = pods[q])
    BY <1>2, <2>1, <2>2
  <2>4. /\ since' \in [DOMAIN pods -> 0 .. MaxValues]
        /\ \A q \in DOMAIN pods : q # p => since'[q] = since[q]
        /\ since'[p] = 0
    BY <1>3, <1>7
  <2> QED BY <1>4, <2>3, <2>4, CountChanges
<1> QED BY <1>1, <1>5, <1>6, <1>7

(* A cycle of the MonitoringPolicy: the new baselines, and which pods it   *)
(* may report.                                                             *)
LEMMA DObserves ==
  ASSUME DInv, ObservePodMetrics
  PROVE  DInv' /\ \A p \in DOMAIN anomalies' : since[p] < MaxValues - 1
<1> DEFINE after(p, i) == Extend(baseline[p], pods[p].restarts, i)
<1>1. PICK skipped \in SUBSET ToSet(Targets) :
         /\ baseline' = [p \in DOMAIN pods |-> after(p, Times(p, skipped))]
         /\ \A p \in DOMAIN anomalies' :
              /\ p \in DOMAIN pods
              /\ \E i \in 1 .. Times(p, skipped) :
                   Judge(after(p, i), pods[p].restarts, p \notin learned) # "none"
         /\ since' = [p \in DOMAIN pods |->
              IF since[p] + Times(p, skipped) > MaxValues THEN MaxValues
              ELSE since[p] + Times(p, skipped)]
  <2> HIDE DEF after
  <2> QED BY DEF ObservePodMetrics, Times, after
<1>2. pods' = pods /\ MaxValues \in Nat
  BY DetectorAssumption DEF ObservePodMetrics
<1>3. ASSUME NEW p \in DOMAIN pods, NEW i \in Nat
      PROVE  /\ after(p, i) \in Baselines /\ Len(after(p, i).values) <= MaxValues
             /\ LatestAre(after(p, i).values, since[p] + i, pods[p].restarts)
             /\ since[p] \in Nat /\ pods[p].restarts \in Nat
  <2>1. /\ baseline[p] \in Baselines /\ Len(baseline[p].values) <= MaxValues
        /\ pods[p].restarts \in Nat /\ since[p] \in Nat
        /\ LatestAre(baseline[p].values, since[p], pods[p].restarts)
    BY <1>2 DEF DInv, IsPod
  <2> QED BY <2>1, ExtendLatest
<1> HIDE DEF after
<1>4. DInv'
  <2>1. ASSUME NEW p \in DOMAIN pods
        PROVE  /\ baseline'[p] \in Baselines /\ since'[p] \in 0 .. MaxValues
               /\ Len(baseline'[p].values) <= MaxValues
               /\ LatestAre(baseline'[p].values, since'[p], pods'[p].restarts)
    <3> DEFINE t == Times(p, skipped)
    <3>1. t \in Nat
      BY TimesTyped
    <3> HIDE DEF t
    <3>2. /\ baseline'[p] = after(p, t)
          /\ since'[p] = IF since[p] + t > MaxValues THEN MaxValues ELSE since[p] + t
      BY <1>1 DEF t
    <3>3. /\ after(p, t) \in Baselines /\ Len(after(p, t).values) <= MaxValues
          /\ LatestAre(after(p, t).values, since[p] + t, pods[p].restarts)
          /\ since[p] \in Nat
      BY <1>3, <3>1
    <3>4. since'[p] \in 0 .. MaxValues
      BY <1>2, <3>1, <3>2, <3>3
    <3>5. LatestAre(after(p, t).values, since'[p], pods[p].restarts)
      <4> DEFINE w == after(p, t).values
      <4>1. w \in Seq(Nat)
        BY <3>3 DEF Baselines
      <4> HIDE DEF w
      <4>2. Len(w) <= MaxValues /\ LatestAre(w, since[p] + t, pods[p].restarts)
        BY <3>3 DEF w
      <4>3. LatestAre(w, since'[p], pods[p].restarts)
        BY <1>2, <3>1, <3>2, <3>3, <4>1, <4>2 DEF LatestAre
      <4> QED BY <4>3 DEF w
    <3> QED BY <1>2, <3>2, <3>3, <3>4, <3>5
  <2>2. baseline' \in [DOMAIN pods -> Baselines] /\ since' \in [DOMAIN pods -> 0 .. MaxValues]
    BY <1>1, <2>1
  <2> QED BY <1>2, <2>1, <2>2 DEF DInv
<1>5. ASSUME NEW p \in DOMAIN anomalies', ~(since[p] < MaxValues - 1) PROVE FALSE
  <2>1. PICK i \in 1 .. Times(p, skipped) :
           Judge(after(p, i), pods[p].restarts, p \notin learned) # "none"
    BY <1>1, <1>5
  <2>2. i \in Nat /\ i >= 1 /\ p \in DOMAIN pods
    BY <1>1, <1>5, TimesTyped
  <2>3. /\ after(p, i) \in Baselines /\ Len(after(p, i).values) <= MaxValues
        /\ LatestAre(after(p, i).values, since[p] + i, pods[p].restarts)
        /\ since[p] \in Nat /\ pods[p].restarts \in Nat
    BY <1>3, <2>2
  <2>4. since[p] + i \in Nat /\ since[p] + i >= MaxValues
    BY <1>2, <1>5, <2>2, <2>3
  <2> QED BY <2>1, <2>3, <2>4, OldNewsIsNoNews
<1> QED BY <1>4, <1>5

(* Every other step leaves pods, baselines and counts alone.               *)
LEMMA DNext == DInv /\ [Next]_vars => DInv'
<1> SUFFICES ASSUME DInv, [Next]_vars PROVE DInv'
  OBVIOUS
<1>1. CASE UNCHANGED <<pods, baseline, since>>
  BY <1>1 DEF DInv
<1>2. CASE ObservePodMetrics
  BY <1>2, DObserves
<1>3. CASE PodChanges
  BY <1>3, DPods
<1>4. \/ ObservePodMetrics \/ PodChanges \/ UNCHANGED <<pods, baseline, since>>
  <2>1. CASE UNCHANGED vars
    BY <2>1 DEF vars, mon
  <2>2. CASE SecurityPolicyStep
    BY <2>2 DEF SecurityPolicyStep, GetPolicy, ResolveScope, ListPods, Evaluate,
                SendNotifications, UpdatePolicyStatus, HandlePodResolutionError, UpdateStatus, mon
  <2>3. CASE MonitoringStep
    BY <2>3 DEF MonitoringStep, CheckChannels, WriteMonitoring
  <2>4. CASE ReconcileChannels
    BY <2>4 DEF ReconcileChannels, ReconcileChannel, mon
  <2>5. CASE LearningEnds \/ PolicyChanges \/ ChannelChanges
    BY <2>5 DEF LearningEnds, PolicyChanges, ChannelChanges, mon
  <2> QED BY <2>1, <2>2, <2>3, <2>4, <2>5 DEF Next
<1> QED BY <1>1, <1>2, <1>3, <1>4

(* Observe reports no anomaly of a restart count that has been the same    *)
(* for a whole window, whatever the sensitivity, the learning period and   *)
(* the pods around it, and however often a namespace is listed: the        *)
(* deviation of such a window is zero, and zero is not divided by.         *)
THEOREM AnomaliesAreRealAlways == Spec => AnomaliesAreReal
<1> DEFINE Real == monitor.pc = "observe" /\ monitor'.pc = "status" =>
                     \A p \in DOMAIN anomalies' : since[p] < MaxValues - 1
<1>1. ASSUME DInv, [Next]_vars PROVE [Real]_vars
  <2> SUFFICES ASSUME Next, monitor.pc = "observe", monitor'.pc = "status"
               PROVE  \A p \in DOMAIN anomalies' : since[p] < MaxValues - 1
    BY <1>1
  <2>1. CASE ObservePodMetrics
    BY <1>1, <2>1, DObserves
  <2>2. CASE SecurityPolicyStep
    BY <2>2 DEF SecurityPolicyStep, GetPolicy, ResolveScope, ListPods, Evaluate,
                SendNotifications, UpdatePolicyStatus, HandlePodResolutionError, UpdateStatus, mon
  <2>3. CASE CheckChannels \/ WriteMonitoring
    BY <2>3 DEF CheckChannels, WriteMonitoring
  <2>4. CASE ReconcileChannels
    BY <2>4 DEF ReconcileChannels, ReconcileChannel, mon
  <2>5. CASE LearningEnds \/ PodChanges \/ PolicyChanges \/ ChannelChanges
    BY <2>5 DEF LearningEnds, PodChanges, PolicyChanges, ChannelChanges, mon
  <2> QED BY <2>1, <2>2, <2>3, <2>4, <2>5 DEF Next, MonitoringStep
<1>2. DInv /\ [Next]_vars => [Real]_vars
  BY <1>1
<1> QED BY <1>2, DInit, DNext, PTL DEF Spec, AnomaliesAreReal
-----------------------------------------------------------------------------
SecpFields == {"pc", "spec", "generation", "todo", "pods", "findings"}
IsReconcile(r) == r = [f \in SecpFields |-> r[f]]

(* Who is to be notified, and of what: a reconcile that notifies has       *)
(* counted its findings by severity, and there is one.                     *)
CInv ==
  /\ channels \in [DOMAIN channels -> ChannelState]
  /\ IsReconcile(secp)
  /\ secp.pc = "notify" =>
       DOMAIN secp.findings = 1 .. 5 /\ \E k \in 1 .. 5 : secp.findings[k] > 0

(* The reconcile moves on.                                                 *)
LEMMA GotoReconcile ==
  ASSUME NEW r, IsReconcile(r), NEW v
  PROVE  IsReconcile([r EXCEPT !.pc = v]) /\ [r EXCEPT !.pc = v].pc = v
         /\ [r EXCEPT !.pc = v].findings = r.findings
BY DEF IsReconcile, SecpFields

(* It remembers the namespaces that are left ...                           *)
LEMMA TodoReconcile ==
  ASSUME NEW r, IsReconcile(r), NEW v
  PROVE  IsReconcile([r EXCEPT !.todo = v]) /\ [r EXCEPT !.todo = v].pc = r.pc
BY DEF IsReconcile, SecpFields

(* ... the pods it has listed ...                                          *)
LEMMA PodsReconcile ==
  ASSUME NEW r, IsReconcile(r), NEW v
  PROVE  IsReconcile([r EXCEPT !.pods = v]) /\ [r EXCEPT !.pods = v].pc = r.pc
BY DEF IsReconcile, SecpFields

(* ... and its findings.                                                   *)
LEMMA FindingsReconcile ==
  ASSUME NEW r, IsReconcile(r), NEW v
  PROVE  IsReconcile([r EXCEPT !.findings = v]) /\ [r EXCEPT !.findings = v].findings = v
BY DEF IsReconcile, SecpFields

(* A reconcile that begins.                                                *)
LEMMA BeginsReconcile ==
  ASSUME NEW s, NEW g
  PROVE  /\ IsReconcile(Idle) /\ Idle.pc = "idle"
         /\ IsReconcile([Idle EXCEPT !.pc = "scope", !.spec = s, !.generation = g])
         /\ [Idle EXCEPT !.pc = "scope", !.spec = s, !.generation = g].pc = "scope"
BY DEF IsReconcile, SecpFields, Idle

(* The channels as users made them.                                        *)
LEMMA CInit == Init => CInv
<1> SUFFICES ASSUME Init PROVE CInv
  OBVIOUS
<1>1. PICK s \in Scenarios : channels = s.channels
  BY DEF Init
<1>2. channels \in [DOMAIN channels -> ChannelState]
  <2>1. s.channels \in [DOMAIN s.channels -> ChannelState]
    BY PoliciesAssumption
  <2> QED BY <1>1, <2>1
<1>3. secp = Idle
  BY DEF Init
<1> QED BY <1>2, <1>3, BeginsReconcile DEF CInv

(* The SecurityPolicy controller goes on to notify only from Evaluate.     *)
LEMMA CSecurity ==
  ASSUME CInv, SecurityPolicyStep
  PROVE  /\ IsReconcile(secp') /\ channels' = channels
         /\ secp'.pc = "notify" => /\ DOMAIN secp'.findings = 1 .. 5
                                   /\ \E k \in 1 .. 5 : secp'.findings[k] > 0
<1>1. IsReconcile(secp)
  BY DEF CInv
<1>2. CASE GetPolicy
  <2>1. \/ secp' = [Idle EXCEPT !.pc = "scope", !.spec = policy.spec,
                                !.generation = policy.generation]
        \/ secp' = secp
    BY <1>2 DEF GetPolicy
  <2>2. secp.pc = "idle" /\ channels' = channels
    BY <1>2 DEF GetPolicy
  <2>3. CASE secp' = secp
    BY <1>1, <2>2, <2>3
  <2>4. ASSUME secp' # secp PROVE IsReconcile(secp') /\ secp'.pc = "scope"
    BY <2>1, <2>4, BeginsReconcile
  <2> QED BY <2>2, <2>3, <2>4
<1>3. CASE ResolveScope
  <2>1. \/ secp' = [secp EXCEPT !.pc = "pods", !.todo = Scope(secp.spec)]
        \/ secp' = [secp EXCEPT !.pc = "failed"]
    BY <1>3 DEF ResolveScope, Goto
  <2>2. channels' = channels
    BY <1>3 DEF ResolveScope
  <2>3. IsReconcile(secp') /\ secp'.pc \in {"pods", "failed"}
    <3> DEFINE a == [secp EXCEPT !.pc = "pods"]
    <3>1. IsReconcile(a) /\ a.pc = "pods"
      BY <1>1, GotoReconcile
    <3>2. secp' = [a EXCEPT !.todo = Scope(secp.spec)] \/ secp' = [secp EXCEPT !.pc = "failed"]
      BY <2>1
    <3> HIDE DEF a
    <3>3. CASE secp' = [a EXCEPT !.todo = Scope(secp.spec)]
      BY <3>1, <3>3, TodoReconcile
    <3>4. CASE secp' = [secp EXCEPT !.pc = "failed"]
      BY <1>1, <3>4, GotoReconcile
    <3> QED BY <3>2, <3>3, <3>4
  <2> QED BY <2>2, <2>3
<1>4. CASE ListPods
  <2> DEFINE listed == {p \in Running : /\ pods[p].namespace = Head(secp.todo)
                                        /\ Selected(secp.spec, pods[p])}
  <2>1. \/ secp' = [secp EXCEPT !.todo = Tail(@), !.pods = @ \o SetToSeq(listed)]
        \/ secp' = [secp EXCEPT !.pc = "failed"]
    BY <1>4 DEF ListPods, Goto
  <2>2. channels' = channels /\ secp.pc = "pods"
    BY <1>4 DEF ListPods
  <2> HIDE DEF listed
  <2>3. ASSUME secp' = [secp EXCEPT !.todo = Tail(@), !.pods = @ \o SetToSeq(listed)]
        PROVE  IsReconcile(secp') /\ secp'.pc = "pods"
    <3> DEFINE a == [secp EXCEPT !.todo = Tail(secp.todo)]
    <3>1. secp' = [a EXCEPT !.pods = a.pods \o SetToSeq(listed)]
      BY <2>3
    <3>2. IsReconcile(a) /\ a.pc = "pods"
      BY <1>1, <2>2, TodoReconcile
    <3> HIDE DEF a
    <3> QED BY <3>1, <3>2, PodsReconcile
  <2>4. ASSUME secp' = [secp EXCEPT !.pc = "failed"]
        PROVE  IsReconcile(secp') /\ secp'.pc = "failed"
    BY <1>1, <2>4, GotoReconcile
  <2> QED BY <2>1, <2>2, <2>3, <2>4
<1>5. CASE Evaluate
  <2> DEFINE found == FoundIn(secp.pods, secp.spec)
             any == \E k \in DOMAIN Levels : found[k] > 0
             next == IF any THEN "notify" ELSE "status"
             a == [secp EXCEPT !.findings = found]
  <2>1. DOMAIN Levels = 1 .. 5
    BY DEF Levels
  <2>2. DOMAIN found = 1 .. 5
    BY <2>1 DEF FoundIn
  <2>3. secp' = [a EXCEPT !.pc = next] /\ channels' = channels
    BY <1>5 DEF Evaluate
  <2>4. IsReconcile(a) /\ a.findings = found
    <3> HIDE DEF found
    <3> QED BY <1>1, FindingsReconcile
  <2>5. next = "notify" => \E k \in 1 .. 5 : found[k] > 0
    BY <2>1
  <2> HIDE DEF found, next, a, any
  <2>6. IsReconcile(secp') /\ secp'.pc = next /\ secp'.findings = found
    BY <2>3, <2>4, GotoReconcile
  <2> QED BY <2>2, <2>3, <2>5, <2>6
<1>6. CASE SendNotifications
  <2>1. secp' = [secp EXCEPT !.pc = "status"] /\ channels' = channels
    BY <1>6 DEF SendNotifications, Goto
  <2> QED BY <1>1, <2>1, GotoReconcile
<1>7. CASE UpdatePolicyStatus \/ HandlePodResolutionError
  <2>1. secp' = Idle /\ channels' = channels
    BY <1>7 DEF UpdatePolicyStatus, HandlePodResolutionError, UpdateStatus
  <2> QED BY <2>1, BeginsReconcile
<1> QED BY <1>2, <1>3, <1>4, <1>5, <1>6, <1>7 DEF SecurityPolicyStep

(* Users change a channel's secret, or delete and create it; its           *)
(* controller writes its phase.                                            *)
LEMMA ChannelSet ==
  ASSUME NEW c \in ChannelState, NEW secret \in {"url", "webhook-url", "other", "missing"},
         NEW ph \in {"", "Active", "Error"}, NEW e \in BOOLEAN
  PROVE  /\ [c EXCEPT !.secret = secret] \in ChannelState
         /\ [c EXCEPT !.phase = ph] \in ChannelState
         /\ [c EXCEPT !.exists = e] \in ChannelState
BY DEF ChannelState

(* So channels stay channels.                                              *)
LEMMA ChannelsTyped ==
  ASSUME channels \in [DOMAIN channels -> ChannelState], ReconcileChannels \/ ChannelChanges
  PROVE  channels' \in [DOMAIN channels' -> ChannelState]
<1>1. ASSUME NEW ch \in DOMAIN channels, NEW c \in ChannelState,
             channels' = [channels EXCEPT ![ch] = c]
      PROVE  channels' \in [DOMAIN channels' -> ChannelState]
  BY <1>1
<1>2. ASSUME NEW ch \in DOMAIN channels, ReconcileChannel(ch)
      PROVE  channels' \in [DOMAIN channels' -> ChannelState]
  <2> DEFINE ph == IF channels[ch].secret = "missing" THEN "Error" ELSE "Active"
  <2>1. \/ channels' = channels
        \/ channels' = [channels EXCEPT ![ch] = [channels[ch] EXCEPT !.phase = ph]]
    BY <1>2 DEF ReconcileChannel
  <2>2. ph \in {"", "Active", "Error"} /\ channels[ch] \in ChannelState
    OBVIOUS
  <2> HIDE DEF ph
  <2>3. [channels[ch] EXCEPT !.phase = ph] \in ChannelState
    BY <2>2, ChannelSet
  <2> QED BY <1>1, <2>1, <2>3
<1>3. ASSUME ChannelChanges PROVE channels' \in [DOMAIN channels' -> ChannelState]
  <2>1. PICK ch \in DOMAIN channels :
           \/ \E s \in Secrets : channels' = [channels EXCEPT ![ch].secret = s]
           \/ channels' = [channels EXCEPT ![ch].exists = ~@, ![ch].phase = ""]
    BY <1>3 DEF ChannelChanges
  <2>2. channels[ch] \in ChannelState /\ channels[ch].exists \in BOOLEAN
    BY DEF ChannelState
  <2>3. ASSUME NEW s \in Secrets, channels' = [channels EXCEPT ![ch].secret = s]
        PROVE  channels' \in [DOMAIN channels' -> ChannelState]
    <3>1. s \in {"url", "webhook-url", "other", "missing"}
      BY <2>3, PoliciesAssumption
    <3>2. [channels[ch] EXCEPT !.secret = s] \in ChannelState
      BY <2>2, <3>1, ChannelSet
    <3>3. channels' = [channels EXCEPT ![ch] = [channels[ch] EXCEPT !.secret = s]]
      BY <2>3
    <3> QED BY <1>1, <3>2, <3>3
  <2>4. ASSUME channels' = [channels EXCEPT ![ch].exists = ~@, ![ch].phase = ""]
        PROVE  channels' \in [DOMAIN channels' -> ChannelState]
    <3> DEFINE a == [channels[ch] EXCEPT !.exists = ~channels[ch].exists]
    <3>1. a \in ChannelState
      BY <2>2, ChannelSet
    <3>2. [a EXCEPT !.phase = ""] \in ChannelState
      <4> HIDE DEF a
      <4> QED BY <3>1, ChannelSet
    <3>3. channels' = [channels EXCEPT ![ch] = [a EXCEPT !.phase = ""]]
      BY <2>4
    <3> QED BY <1>1, <3>2, <3>3
  <2> QED BY <2>1, <2>3, <2>4
<1> QED BY <1>2, <1>3 DEF ReconcileChannels

(* Every step of the three controllers and of users.                       *)
LEMMA CNext == CInv /\ [Next]_vars => CInv'
<1> SUFFICES ASSUME CInv, [Next]_vars PROVE CInv'
  OBVIOUS
<1>1. CASE SecurityPolicyStep
  BY <1>1, CSecurity DEF CInv
<1>2. CASE ReconcileChannels \/ ChannelChanges
  <2>1. secp' = secp
    BY <1>2 DEF ReconcileChannels, ReconcileChannel, ChannelChanges, sec
  <2> QED BY <1>2, <2>1, ChannelsTyped DEF CInv
<1>3. CASE secp' = secp /\ channels' = channels
  BY <1>3 DEF CInv
<1>4. CASE UNCHANGED vars
  BY <1>3, <1>4 DEF vars, sec
<1>5. CASE MonitoringStep
  BY <1>3, <1>5 DEF MonitoringStep, CheckChannels, ObservePodMetrics, WriteMonitoring, sec
<1>6. CASE LearningEnds \/ PodChanges \/ PolicyChanges
  BY <1>3, <1>6 DEF LearningEnds, PodChanges, PolicyChanges, sec
<1> QED BY <1>1, <1>2, <1>4, <1>5, <1>6 DEF Next

(* The notifier's order and the controller's are each other's reverse, and *)
(* the first finding is the most severe: it passes a filter exactly if any *)
(* finding does.                                                           *)
LEMMA OrdersAgree ==
  ASSUME NEW found, DOMAIN found = 1 .. 5, \E k \in 1 .. 5 : found[k] > 0,
         NEW filter \in DOMAIN severityOrder
  PROVE  meetsMinSeverity(First(found), filter) <=>
           \E k \in DOMAIN Levels :
             found[k] > 0 /\ severityOrder[Levels[k]] <= severityOrder[filter]
<1> DEFINE some == {k \in DOMAIN found : found[k] > 0}
           m == Min(some)
<1>1. m \in some /\ \A k \in some : m <= k
  <2>1. some \in SUBSET Nat /\ some # {}
    OBVIOUS
  <2> HIDE DEF some
  <2>2. \E x \in some : \A y \in some : x <= y
    BY <2>1, LeastNumber
  <2> QED BY <2>2 DEF Min
<1>2. m \in 1 .. 5 /\ found[m] > 0 /\ \A k \in 1 .. 5 : found[k] > 0 => m <= k
  BY <1>1
<1> HIDE DEF m
<1>3. First(found) = Levels[m]
  BY DEF First, m
<1>4. DOMAIN Levels = 1 .. 5 /\ \A k \in 1 .. 5 : severityOrder[Levels[k]] = k - 1
  BY DEF Levels, severityOrder
<1>5. \A k \in 1 .. 5 : urgency[Levels[k]] = 6 - k
  BY DEF Levels, urgency
<1>6. severityOrder[filter] \in 0 .. 4 /\ urgency[filter] = 5 - severityOrder[filter]
  BY DEF severityOrder, urgency
<1>7. meetsMinSeverity(First(found), filter) <=> m - 1 <= severityOrder[filter]
  BY <1>2, <1>3, <1>5, <1>6 DEF meetsMinSeverity
<1>8. (\E k \in DOMAIN Levels : found[k] > 0 /\ severityOrder[Levels[k]] <= severityOrder[filter])
        <=> m - 1 <= severityOrder[filter]
  BY <1>2, <1>4, <1>6
<1> QED BY <1>7, <1>8

(* A notifier that has just been made has seen nothing and limits nothing. *)
LEMMA NewNotifierSends ==
  ASSUME NEW ready, NEW f, NEW notif
  PROVE  Recipients(New([ch \in ready |-> f[ch].filter]), notif)
           = {ch \in ready : meetsMinSeverity(notif.severity, f[ch].filter)}
BY DEF Recipients, New, isDuplicate, allow

(* sendNotifications, whose findings the controller has sorted by one      *)
(* order of severities and whose notifier filters by another: a slack      *)
(* channel that has a URL is sent the alert exactly if one of the findings *)
(* passes its filter, unless a call failed.                                *)
THEOREM AlertsReachChannelsHolds == Spec => AlertsReachChannels
<1> DEFINE Due(ch) == /\ channels[ch].exists /\ channels[ch].type = "slack" /\ HasURL(ch)
                      /\ \E k \in DOMAIN Levels :
                           /\ secp.findings[k] > 0
                           /\ severityOrder[Levels[k]] <= severityOrder[channels[ch].filter]
           Told(ch) == /\ Due(ch) => ch \in alert'.delivered \cup alert'.failed \/ ~alert'.listed
                       /\ ch \in alert'.delivered => Due(ch)
           Reach == secp.pc = "notify" /\ secp'.pc = "status" =>
                      \A ch \in DOMAIN channels : Told(ch)
<1>1. ASSUME CInv, SendNotifications, NEW ch \in DOMAIN channels PROVE Told(ch)
  <2> DEFINE slack == {c \in DOMAIN channels : channels[c].exists /\ channels[c].type = "slack"}
             notif == [severity |-> First(secp.findings), key |-> Count(secp.findings)]
             ready(unread) == {c \in slack \ unread : HasURL(c)}
             to(unread) == Recipients(New([c \in ready(unread) |-> channels[c].filter]), notif)
  <2>1. \/ \E unread \in SUBSET slack : \E lost \in SUBSET to(unread) :
             alert' = [delivered |-> to(unread) \ lost, failed |-> unread \cup lost, listed |-> TRUE]
        \/ alert' = [NoAlert EXCEPT !.listed = FALSE]
    BY <1>1 DEF SendNotifications
  <2>2. secp.pc = "notify"
    BY <1>1 DEF SendNotifications
  <2>3. \A c \in DOMAIN channels :
           meetsMinSeverity(First(secp.findings), channels[c].filter) <=>
             \E k \in DOMAIN Levels :
               /\ secp.findings[k] > 0
               /\ severityOrder[Levels[k]] <= severityOrder[channels[c].filter]
    <3>1. /\ DOMAIN secp.findings = 1 .. 5 /\ \E k \in 1 .. 5 : secp.findings[k] > 0
          /\ \A c \in DOMAIN channels : channels[c].filter \in DOMAIN severityOrder
      BY <1>1, <2>2 DEF CInv, ChannelState
    <3> QED BY <3>1, OrdersAgree
  <2>4. ASSUME NEW unread
        PROVE  ch \in to(unread) <=> ch \notin unread /\ Due(ch)
    <3>1. to(unread) = {c \in ready(unread) :
                          meetsMinSeverity(First(secp.findings), channels[c].filter)}
      <4>1. notif.severity = First(secp.findings)
        OBVIOUS
      <4> HIDE DEF notif, ready
      <4>2. to(unread) = {c \in ready(unread) :
                            meetsMinSeverity(notif.severity, channels[c].filter)}
        BY NewNotifierSends
      <4> QED BY <4>1, <4>2
    <3> QED BY <2>3, <3>1
  <2> HIDE DEF to, Due
  <2>5. CASE alert' = [NoAlert EXCEPT !.listed = FALSE]
    BY <2>5 DEF NoAlert
  <2>6. ASSUME NEW unread \in SUBSET slack, NEW lost \in SUBSET to(unread),
               alert' = [delivered |-> to(unread) \ lost, failed |-> unread \cup lost,
                         listed |-> TRUE]
        PROVE  Told(ch)
    BY <2>4, <2>6
  <2> QED BY <2>1, <2>5, <2>6
<1> HIDE DEF Told
<1>2. ASSUME CInv, [Next]_vars PROVE [Reach]_vars
  <2> SUFFICES ASSUME Next, secp.pc = "notify", secp'.pc = "status" PROVE SendNotifications
    BY <1>1, <1>2
  <2>1. CASE UpdatePolicyStatus \/ HandlePodResolutionError
    BY <2>1 DEF UpdatePolicyStatus, HandlePodResolutionError
  <2>2. CASE GetPolicy \/ ResolveScope \/ ListPods \/ Evaluate
    BY <2>2 DEF GetPolicy, ResolveScope, ListPods, Evaluate
  <2>3. CASE MonitoringStep
    BY <2>3 DEF MonitoringStep, CheckChannels, ObservePodMetrics, WriteMonitoring, sec
  <2>4. CASE ReconcileChannels
    BY <2>4 DEF ReconcileChannels, ReconcileChannel, sec
  <2>5. CASE LearningEnds \/ PodChanges \/ PolicyChanges \/ ChannelChanges
    BY <2>5 DEF LearningEnds, PodChanges, PolicyChanges, ChannelChanges, sec
  <2> QED BY <2>1, <2>2, <2>3, <2>4, <2>5 DEF Next, SecurityPolicyStep
<1>3. CInv /\ [Next]_vars => [Reach]_vars
  BY <1>2
<1>4. AlertsReachChannels <=> [][Reach]_vars
  BY PTL DEF AlertsReachChannels, Told
<1> QED BY <1>3, <1>4, CInit, CNext, PTL DEF Spec
-----------------------------------------------------------------------------
(* A sum of numbers is the size of a set: as many pairs of each element as *)
(* its number.                                                             *)
Stack(h, S) == {q \in S \X Nat : 1 <= q[2] /\ q[2] <= h[q[1]]}
Amount(h, S) == Cardinality(Stack(h, S))

(* The stack of one element.                                               *)
LEMMA StackOfOne ==
  ASSUME NEW h, NEW x, h[x] \in Nat
  PROVE  IsFiniteSet(Stack(h, {x})) /\ Amount(h, {x}) = h[x]
<1>1. Stack(h, {x}) = {x} \X (1 .. h[x])
  BY DEF Stack
<1>2. IsFiniteSet({x}) /\ Cardinality({x}) = 1
  BY FS_Singleton
<1>3. IsFiniteSet(1 .. h[x]) /\ Cardinality(1 .. h[x]) = h[x]
  BY FS_Interval
<1>4. IsFiniteSet({x} \X (1 .. h[x]))
  BY <1>2, <1>3, FS_Product
<1>5. Cardinality({x} \X (1 .. h[x])) = Cardinality({x}) * Cardinality(1 .. h[x])
  BY <1>2, <1>3, FS_Product
<1>6. Cardinality({x}) * Cardinality(1 .. h[x]) = h[x]
  BY <1>2, <1>3
<1>7. Amount(h, {x}) = h[x]
  BY <1>1, <1>5, <1>6 DEF Amount
<1> QED BY <1>1, <1>4, <1>7

(* Stacks of finite sets are finite.                                       *)
LEMMA StackFinite ==
  ASSUME NEW S, IsFiniteSet(S), NEW h, \A x \in S : h[x] \in Nat
  PROVE  IsFiniteSet(Stack(h, S)) /\ Amount(h, S) \in Nat
<1> DEFINE f == [x \in S |-> Stack(h, {x})]
           T == {f[x] : x \in S}
<1>1. f \in Surjection(S, T)
  BY DEF Surjection
<1>2. IsFiniteSet(T)
  <2> HIDE DEF T, f
  <2> QED BY <1>1, FS_Surjection
<1>3. \A t \in T : IsFiniteSet(t)
  BY StackOfOne
<1>4. IsFiniteSet(UNION T)
  <2> HIDE DEF T
  <2> QED BY <1>2, <1>3, FS_UNION
<1>5. Stack(h, S) = UNION T
  BY DEF Stack
<1>6. IsFiniteSet(Stack(h, S))
  BY <1>4, <1>5
<1> QED BY <1>6, FS_CardinalityType DEF Amount

(* A sum over two sets that have nothing in common.                        *)
LEMMA AmountOfTwo ==
  ASSUME NEW S, IsFiniteSet(S), NEW T, IsFiniteSet(T), S \cap T = {}, NEW h,
         \A x \in S \cup T : h[x] \in Nat
  PROVE  Amount(h, S \cup T) = Amount(h, S) + Amount(h, T)
<1>1. Stack(h, S \cup T) = Stack(h, S) \cup Stack(h, T)
  BY DEF Stack
<1>2. Stack(h, S) \cap Stack(h, T) = {}
  BY DEF Stack
<1>3. /\ IsFiniteSet(Stack(h, S)) /\ IsFiniteSet(Stack(h, T))
      /\ Amount(h, S) \in Nat /\ Amount(h, T) \in Nat
  BY StackFinite
<1>4. Cardinality(Stack(h, S) \cup Stack(h, T))
        = Cardinality(Stack(h, S)) + Cardinality(Stack(h, T)) - Cardinality({})
  BY <1>2, <1>3, FS_Union
<1>5. Cardinality({}) = 0
  BY FS_EmptySet
<1>6. /\ Amount(h, S) = Cardinality(Stack(h, S)) /\ Amount(h, T) = Cardinality(Stack(h, T))
      /\ Amount(h, S \cup T) = Cardinality(Stack(h, S) \cup Stack(h, T))
  BY <1>1 DEF Amount
<1> QED BY <1>3, <1>4, <1>5, <1>6

(* A sum over fewer elements is no larger.                                 *)
LEMMA AmountOfFewer ==
  ASSUME NEW T, IsFiniteSet(T), NEW S \in SUBSET T, NEW h, \A x \in T : h[x] \in Nat
  PROVE  Amount(h, S) <= Amount(h, T)
<1>1. Stack(h, S) \subseteq Stack(h, T)
  BY DEF Stack
<1> QED BY <1>1, StackFinite, FS_Subset DEF Amount

(* What a sum depends on, and what zeros add to it.                        *)
LEMMA AmountOfNonzero ==
  ASSUME NEW S, NEW T \in SUBSET S, NEW h, NEW g,
         \A x \in T : g[x] = h[x], \A x \in S \ T : g[x] = 0
  PROVE  Amount(g, S) = Amount(h, T)
<1>1. Stack(g, S) = Stack(h, T)
  BY DEF Stack
<1> QED BY <1>1 DEF Amount

(* A sum of nothing.                                                       *)
LEMMA AmountOfNone == \A h : Amount(h, {}) = 0
<1>1. \A h : Stack(h, {}) = {}
  BY DEF Stack
<1> QED BY <1>1, FS_EmptySet DEF Amount

(* A sum that is read in another order.                                    *)
LEMMA AmountMoved ==
  ASSUME NEW S, IsFiniteSet(S), NEW T, NEW b \in Bijection(S, T), NEW h, NEW g,
         \A x \in S : h[x] \in Nat /\ g[b[x]] = h[x]
  PROVE  Amount(h, S) = Amount(g, T)
<1> DEFINE m == [q \in Stack(h, S) |-> <<b[q[1]], q[2]>>]
<1>1. /\ \A x \in S : b[x] \in T
      /\ \A x \in S : \A y \in S : b[x] = b[y] => x = y
      /\ \A y \in T : \E x \in S : b[x] = y
  BY DEF Bijection, Injection, Surjection, IsInjective
<1>2. \A q \in Stack(h, S) : q \in S \X Nat /\ m[q] \in Stack(g, T)
  BY <1>1 DEF Stack
<1>3. \A q \in Stack(h, S) : \A r \in Stack(h, S) : m[q] = m[r] => q = r
  BY <1>1 DEF Stack
<1>4. ASSUME NEW r \in Stack(g, T) PROVE \E q \in Stack(h, S) : m[q] = r
  <2>1. PICK x \in S : b[x] = r[1]
    BY <1>1 DEF Stack
  <2>2. r = <<r[1], r[2]>> /\ <<x, r[2]>> \in Stack(h, S)
    BY <2>1 DEF Stack
  <2>3. m[<<x, r[2]>>] = <<b[x], r[2]>>
    BY <2>2
  <2> QED BY <2>1, <2>2, <2>3
<1>5. m \in Bijection(Stack(h, S), Stack(g, T))
  <2>1. DOMAIN m = Stack(h, S) /\ m \in [Stack(h, S) -> Stack(g, T)]
    BY <1>2
  <2> HIDE DEF m
  <2>2. IsInjective(m)
    BY <1>3, <2>1 DEF IsInjective
  <2> QED BY <1>4, <2>1, <2>2 DEF Bijection, Injection, Surjection
<1>6. ExistsBijection(Stack(h, S), Stack(g, T))
  <2> HIDE DEF m
  <2> QED BY <1>5 DEF ExistsBijection
<1> QED BY <1>6, StackFinite, FS_Bijection DEF Amount

(* A sum of sums.                                                          *)
LEMMA AmountOfSums ==
  ASSUME NEW S, IsFiniteSet(S), NEW h, NEW g, NEW f,
         \A x \in S : h[x] \in Nat /\ g[x] \in Nat /\ f[x] = h[x] + g[x]
  PROVE  Amount(f, S) = Amount(h, S) + Amount(g, S)
<1> DEFINE A == Stack(h, S)
           B == {q \in S \X Nat : h[q[1]] < q[2] /\ q[2] <= f[q[1]]}
           m == [q \in B |-> <<q[1], q[2] - h[q[1]]>>]
<1>1. Stack(f, S) = A \cup B /\ A \cap B = {}
  BY DEF Stack
<1>2. \A x \in S : h[x] \in Nat /\ g[x] \in Nat /\ f[x] \in Nat
  OBVIOUS
<1>3. IsFiniteSet(A) /\ IsFiniteSet(Stack(f, S)) /\ IsFiniteSet(Stack(g, S))
  BY <1>2, StackFinite
<1>4. IsFiniteSet(B)
  BY <1>1, <1>3, FS_Subset
<1>5. m \in Bijection(B, Stack(g, S))
  <2>1. DOMAIN m = B /\ m \in [B -> Stack(g, S)]
    BY <1>2 DEF Stack
  <2>2. \A q \in B : \A r \in B : m[q] = m[r] => q = r
    BY <1>2
  <2>3. ASSUME NEW r \in Stack(g, S) PROVE \E q \in B : m[q] = r
    <3>1. r \in S \X Nat /\ r[1] \in S /\ r[2] \in Nat /\ 1 <= r[2] /\ r[2] <= g[r[1]]
      BY DEF Stack
    <3>2. <<r[1], h[r[1]] + r[2]>> \in B
      BY <1>2, <3>1
    <3>3. m[<<r[1], h[r[1]] + r[2]>>] = <<r[1], r[2]>>
      BY <1>2, <3>1, <3>2
    <3> QED BY <3>1, <3>2, <3>3
  <2> HIDE DEF m, B
  <2>4. IsInjective(m)
    BY <2>1, <2>2 DEF IsInjective
  <2> QED BY <2>1, <2>3, <2>4 DEF Bijection, Injection, Surjection
<1> HIDE DEF m, B
<1>6. ExistsBijection(B, Stack(g, S))
  BY <1>5 DEF ExistsBijection
<1>7. Cardinality(Stack(g, S)) = Cardinality(B)
  BY <1>4, <1>6, FS_Bijection
<1>8. Cardinality(A \cup B) = Cardinality(A) + Cardinality(B) - Cardinality({})
  BY <1>1, <1>3, <1>4, FS_Union
<1>9. Cardinality(A) \in Nat /\ Cardinality(B) \in Nat
  BY <1>3, <1>4, FS_CardinalityType
<1> QED BY <1>1, <1>7, <1>8, <1>9, FS_EmptySet DEF Amount

(* What the library's fold adds up is that sum, whatever it chooses first. *)
LEMMA FoldIsAmount ==
  ASSUME NEW S, IsFiniteSet(S), NEW h, \A x \in S : h[x] \in Nat
  PROVE  (CHOOSE f : f = [s \in SUBSET S |->
                            IF s = {} THEN 0 ELSE h[Chosen(s)] + f[s \ {Chosen(s)}]])[S]
           = Amount(h, S)
<1> DEFINE Fold(f) == [s \in SUBSET S |->
                         IF s = {} THEN 0 ELSE h[Chosen(s)] + f[s \ {Chosen(s)}]]
           table == [s \in SUBSET S |-> Amount(h, s)]
           f == CHOOSE f : f = Fold(f)
           Wrong == {k \in Nat : \E s \in SUBSET S : Cardinality(s) = k /\ f[s] # Amount(h, s)}
<1>1. \A s \in SUBSET S : IsFiniteSet(s) /\ Cardinality(s) \in Nat
  BY FS_Subset, FS_CardinalityType
<1>2. ASSUME NEW s \in SUBSET S, s # {}
      PROVE  /\ s \ {Chosen(s)} \in SUBSET S /\ Chosen(s) \in s
             /\ Amount(h, s) = h[Chosen(s)] + Amount(h, s \ {Chosen(s)})
  <2> DEFINE x == Chosen(s)
             rest == s \ {x}
  <2>1. x \in s /\ rest \in SUBSET S
    BY <1>2, ChosenIn
  <2>2. IsFiniteSet({x}) /\ IsFiniteSet(rest)
    BY <1>1, <2>1, FS_Singleton
  <2>3. s = {x} \cup rest /\ {x} \cap rest = {} /\ \A y \in {x} \cup rest : h[y] \in Nat
    BY <2>1
  <2>4. Amount(h, {x} \cup rest) = Amount(h, {x}) + Amount(h, rest)
    <3> HIDE DEF rest, x
    <3> QED BY <2>2, <2>3, AmountOfTwo
  <2>5. Amount(h, {x}) = h[x]
    BY <2>1, StackOfOne
  <2> QED BY <2>1, <2>3, <2>4, <2>5
<1>3. table = Fold(table)
  <2>1. ASSUME NEW s \in SUBSET S
        PROVE  Amount(h, s) = IF s = {} THEN 0 ELSE h[Chosen(s)] + table[s \ {Chosen(s)}]
    BY <1>2, AmountOfNone
  <2> QED BY <2>1
<1>4. f = Fold(f)
  BY <1>3
<1>5. \A s \in SUBSET S : f[s] = IF s = {} THEN 0 ELSE h[Chosen(s)] + f[s \ {Chosen(s)}]
  <2> HIDE DEF f
  <2> QED BY <1>4
<1> HIDE DEF f, table, Fold
<1>6. ASSUME Wrong # {} PROVE FALSE
  <2>1. PICK k \in Wrong : \A m \in Wrong : k <= m
    BY <1>6, LeastNumber
  <2>2. PICK s \in SUBSET S : Cardinality(s) = k /\ f[s] # Amount(h, s)
    OBVIOUS
  <2>3. CASE s = {}
    BY <1>5, <2>2, <2>3, AmountOfNone
  <2>4. CASE s # {}
    <3> DEFINE rest == s \ {Chosen(s)}
    <3>1. rest \in SUBSET S /\ Chosen(s) \in s /\ Amount(h, s) = h[Chosen(s)] + Amount(h, rest)
      BY <1>2, <2>4
    <3>2. Cardinality(rest) = k - 1
      BY <1>1, <2>2, <3>1, FS_RemoveElement
    <3>3. k - 1 \in Nat /\ k \in Nat
      BY <1>1, <3>1, <3>2
    <3>4. k - 1 \notin Wrong
      <4> HIDE DEF Wrong
      <4> QED BY <2>1, <3>3
    <3>5. f[rest] = Amount(h, rest)
      BY <3>1, <3>2, <3>3, <3>4
    <3> QED BY <1>5, <2>2, <2>4, <3>1, <3>5
  <2> QED BY <2>3, <2>4
<1>7. f[S] = Amount(h, S)
  BY <1>1, <1>6
<1> QED BY <1>7 DEF f, Fold

(* A sum over five numbers.                                                *)
LEMMA AmountOfFive ==
  ASSUME NEW h, \A k \in 1 .. 5 : h[k] \in Nat
  PROVE  Amount(h, 1 .. 5) = h[1] + h[2] + h[3] + h[4] + h[5]
<1>1. ASSUME NEW n \in 1 .. 5
      PROVE  Amount(h, 1 .. n) = Amount(h, 1 .. n - 1) + h[n]
  <2>1. 1 .. n = (1 .. n - 1) \cup {n} /\ (1 .. n - 1) \cap {n} = {}
    OBVIOUS
  <2>2. IsFiniteSet(1 .. n - 1) /\ IsFiniteSet({n})
    <3>1. 1 \in Int /\ n - 1 \in Int
      OBVIOUS
    <3>2. IsFiniteSet(1 .. n - 1)
      BY <3>1, FS_Interval
    <3> QED BY <3>2, FS_Singleton
  <2>3. \A x \in (1 .. n - 1) \cup {n} : h[x] \in Nat
    OBVIOUS
  <2>4. Amount(h, (1 .. n - 1) \cup {n}) = Amount(h, 1 .. n - 1) + Amount(h, {n})
    BY <2>1, <2>2, <2>3, AmountOfTwo
  <2> QED BY <2>1, <2>4, StackOfOne
<1>2. Amount(h, 1 .. 0) = 0
  <2>1. 1 .. 0 = {}
    OBVIOUS
  <2> QED BY <2>1, AmountOfNone
<1>3. /\ Amount(h, 1 .. 1) = Amount(h, 1 .. 0) + h[1]
      /\ Amount(h, 1 .. 2) = Amount(h, 1 .. 1) + h[2]
      /\ Amount(h, 1 .. 3) = Amount(h, 1 .. 2) + h[3]
      /\ Amount(h, 1 .. 4) = Amount(h, 1 .. 3) + h[4]
      /\ Amount(h, 1 .. 5) = Amount(h, 1 .. 4) + h[5]
  <2>1. 1 - 1 = 0 /\ 2 - 1 = 1 /\ 3 - 1 = 2 /\ 4 - 1 = 3 /\ 5 - 1 = 4
    OBVIOUS
  <2>2. 1 \in 1 .. 5 /\ 2 \in 1 .. 5 /\ 3 \in 1 .. 5 /\ 4 \in 1 .. 5 /\ 5 \in 1 .. 5
    OBVIOUS
  <2> QED BY <1>1, <2>1, <2>2
<1> QED BY <1>2, <1>3

(* Findings of five levels are counted level by level.                     *)
Leveled(c, U, lev, n) ==
  \A k \in 1 .. 5 : c[k] = IF k > n THEN 0 ELSE Cardinality({q \in U : lev[q] = k})
UpTo(U, lev, n) == {q \in U : lev[q] <= n}

(* The counts of the levels add up.                                        *)
LEMMA UpToLevel ==
  ASSUME NEW U, IsFiniteSet(U), NEW lev \in [U -> 1 .. 5], NEW n \in 1 .. 5, NEW c,
         Leveled(c, U, lev, n)
  PROVE  /\ \A k \in 1 .. 5 : c[k] \in Nat
         /\ Cardinality(UpTo(U, lev, n)) = c[1] + c[2] + c[3] + c[4] + c[5]
<1> DEFINE Eq(k) == {q \in U : lev[q] = k}
           Le(k) == {q \in U : lev[q] <= k}
<1>1. \A k : /\ IsFiniteSet(Eq(k)) /\ Cardinality(Eq(k)) \in Nat
             /\ IsFiniteSet(Le(k)) /\ Cardinality(Le(k)) \in Nat
  <2>1. ASSUME NEW k PROVE IsFiniteSet(Eq(k)) /\ IsFiniteSet(Le(k))
    BY FS_Subset
  <2> QED BY <2>1, FS_CardinalityType
<1>2. ASSUME NEW k \in 1 .. 5 PROVE Cardinality(Le(k)) = Cardinality(Le(k - 1)) + Cardinality(Eq(k))
  <2>1. Le(k) = Le(k - 1) \cup Eq(k) /\ Le(k - 1) \cap Eq(k) = {}
    OBVIOUS
  <2> HIDE DEF Le, Eq
  <2>2. IsFiniteSet(Le(k - 1)) /\ IsFiniteSet(Eq(k))
    BY <1>1
  <2>3. Cardinality(Le(k - 1) \cup Eq(k))
          = Cardinality(Le(k - 1)) + Cardinality(Eq(k)) - Cardinality(Le(k - 1) \cap Eq(k))
    BY <2>2, FS_Union
  <2>4. Cardinality(Le(k - 1) \cap Eq(k)) = 0
    BY <2>1, FS_EmptySet
  <2> QED BY <1>1, <2>1, <2>3, <2>4
<1>3. Cardinality(Le(0)) = 0
  <2>1. Le(0) = {}
    OBVIOUS
  <2> QED BY <2>1, FS_EmptySet
<1>4. \A k \in 1 .. 5 : c[k] = IF k > n THEN 0 ELSE Cardinality(Eq(k))
  BY DEF Leveled
<1> HIDE DEF Le, Eq
<1>5. /\ Cardinality(Le(1)) = Cardinality(Le(0)) + Cardinality(Eq(1))
      /\ Cardinality(Le(2)) = Cardinality(Le(1)) + Cardinality(Eq(2))
      /\ Cardinality(Le(3)) = Cardinality(Le(2)) + Cardinality(Eq(3))
      /\ Cardinality(Le(4)) = Cardinality(Le(3)) + Cardinality(Eq(4))
      /\ Cardinality(Le(5)) = Cardinality(Le(4)) + Cardinality(Eq(5))
  <2>1. 1 - 1 = 0 /\ 2 - 1 = 1 /\ 3 - 1 = 2 /\ 4 - 1 = 3 /\ 5 - 1 = 4
    OBVIOUS
  <2> QED BY <1>2, <2>1
<1>6. \A k \in 1 .. 5 : c[k] \in Nat
  BY <1>1, <1>4
<1>7. Cardinality(Le(n)) = c[1] + c[2] + c[3] + c[4] + c[5]
  BY <1>1, <1>3, <1>4, <1>5
<1> QED BY <1>6, <1>7 DEF Le, UpTo
-----------------------------------------------------------------------------
(* The findings in a pod, and how often they are due once d namespaces of  *)
(* the scope have been listed.                                             *)
PodCount(r, spec) ==
  r.tally[spec][1] + r.tally[spec][2] + r.tally[spec][3] + r.tally[spec][4] + r.tally[spec][5]
Seen(spec, d, ns) == Cardinality({j \in 1 .. d : Scope(spec)[j] = ns})
DueOf(r, spec, d) ==
  IF Selected(spec, r) THEN Seen(spec, d, r.namespace) * PodCount(r, spec) ELSE 0

(* What the scanners do not complain of is hardened: the checks agree with *)
(* the reference, on the pods of a scenario.                               *)
ChecksAgree ==
  \A s \in Scenarios : \A p \in DOMAIN s.pods, rule \in RuleTypes :
    Scan(rule, s.pods[p]) = {} => Hardened(rule, s.pods[p])

(* A pod whose findings are counted as they should be.                     *)
CountedPod(r) ==
  \A spec \in Specs :
    /\ \A k \in 1 .. 5 : r.tally[spec][k] \in Nat
    /\ r.weight[spec] = DueOf(r, spec, Len(Scope(spec)))
    /\ ChecksAgree /\ PodCount(r, spec) = 0 /\ spec.severity \in {"low", "info"} =>
         ToSet(spec.rules) \subseteq r.hard

(* runPolicyScanners: a severity is one of five levels, and the threshold  *)
(* cuts them off by the same order.                                        *)
LEMMA LevelFacts ==
  /\ DOMAIN Levels = 1 .. 5
  /\ \A k \in 1 .. 5 : severityOrder[Levels[k]] = k - 1
  /\ \A v \in DOMAIN severityOrder :
       /\ severityOrder[v] + 1 \in 1 .. 5
       /\ \A k \in 1 .. 5 : v = Levels[k] <=> severityOrder[v] + 1 = k
  /\ \A v \in DOMAIN severityOrder \ {"info"} : severityOrder[v] <= 3
  /\ severityOrder["low"] = 3 /\ severityOrder["info"] = 4
<1>1. DOMAIN Levels = 1 .. 5 /\ \A k \in 1 .. 5 : severityOrder[Levels[k]] = k - 1
  BY DEF Levels, severityOrder
<1>2. \A v \in DOMAIN severityOrder :
        /\ severityOrder[v] + 1 \in 1 .. 5
        /\ \A k \in 1 .. 5 : v = Levels[k] <=> severityOrder[v] + 1 = k
  BY DEF Levels, severityOrder
<1>3. \A v \in DOMAIN severityOrder \ {"info"} : severityOrder[v] <= 3
  BY DEF severityOrder
<1>4. severityOrder["low"] = 3 /\ severityOrder["info"] = 4
  BY DEF severityOrder
<1> QED BY <1>1, <1>2, <1>3, <1>4

(* The tally of a pod adds up to what the reference weighs it with.        *)
LEMMA JudgedIsCounted ==
  ASSUME NEW s \in Scenarios, NEW p \in DOMAIN s.pods
  PROVE  CountedPod(Judged(s.pods[p]))
<1> DEFINE pod == s.pods[p]
           r == Judged(pod)
<1> SUFFICES ASSUME NEW spec \in Specs
             PROVE  /\ \A k \in 1 .. 5 : r.tally[spec][k] \in Nat
                    /\ r.weight[spec] = DueOf(r, spec, Len(Scope(spec)))
                    /\ ChecksAgree /\ PodCount(r, spec) = 0 /\ spec.severity \in {"low", "info"}
                         => ToSet(spec.rules) \subseteq r.hard
  BY DEF CountedPod
<1> DEFINE I == DOMAIN spec.rules
           found(i) == Scan(spec.rules[i], pod)
           part == [i \in I |-> {i} \X found(i)]
           U == UNION {part[i] : i \in I}
           n == severityOrder[spec.severity] + 1
           lev == [q \in U |-> severityOrder[q[2].severity] + 1]
           c == Tally(pod, spec)
<1>1. /\ spec.rules \in Seq(RuleTypes) /\ spec.severity \in DOMAIN severityOrder
      /\ Scope(spec) \in Seq(ToSet(Scope(spec)))
  BY PoliciesAssumption, ScopeAssumption
<1>2. IsFiniteSet(I) /\ \A i \in I : spec.rules[i] \in RuleTypes
  <2>1. I = 1 .. Len(spec.rules) /\ Len(spec.rules) \in Nat
    BY <1>1
  <2>2. IsFiniteSet(I)
    BY <2>1, FS_Interval
  <2> QED BY <1>1, <2>2
<1>3. \A i \in I : /\ IsFiniteSet(found(i))
                   /\ \A f \in found(i) : f.severity \in DOMAIN severityOrder \ {"info"}
  BY <1>2, FindingsAssumption
<1> HIDE DEF found, pod
<1>4. IsFiniteSet(U)
  <2> DEFINE T == {part[i] : i \in I}
  <2>1. \A i \in I : IsFiniteSet(part[i])
    BY <1>3, FS_Product, FS_Singleton
  <2>2. part \in Surjection(I, T)
    BY DEF Surjection
  <2>3. \A t \in T : IsFiniteSet(t)
    BY <2>1
  <2> HIDE DEF part, T
  <2>4. IsFiniteSet(T)
    BY <1>2, <2>2, FS_Surjection
  <2>5. IsFiniteSet(UNION T)
    BY <2>3, <2>4, FS_UNION
  <2> QED BY <2>5 DEF T
<1>5. \A q : q \in U <=> \E i \in I : \E f \in found(i) : q = <<i, f>>
  <2>1. ASSUME NEW i \in I PROVE \A q : q \in part[i] <=> \E f \in found(i) : q = <<i, f>>
    OBVIOUS
  <2> HIDE DEF part
  <2> QED BY <2>1
<1> HIDE DEF U
<1>6. \A q \in U : q[2].severity \in DOMAIN severityOrder \ {"info"}
  <2>1. ASSUME NEW q \in U PROVE q[2].severity \in DOMAIN severityOrder \ {"info"}
    <3>1. PICK i \in I : \E f \in found(i) : q = <<i, f>>
      BY <1>5
    <3>2. q[2] \in found(i)
      BY <3>1
    <3> QED BY <1>3, <3>2
  <2> QED BY <2>1
<1>7. n \in 1 .. 5 /\ lev \in [U -> 1 .. 5]
  BY <1>1, <1>6, LevelFacts
<1>8. ASSUME NEW k \in 1 .. 5
      PROVE  c[k] = IF k > n THEN 0 ELSE Cardinality({q \in U : lev[q] = k})
  <2> DEFINE V == UNION {{<<i, f>> : f \in {g \in found(i) : g.severity = Levels[k]}} : i \in I}
  <2>1. c[k] = IF severityOrder[Levels[k]] > severityOrder[spec.severity] THEN 0
               ELSE Cardinality(V)
    BY LevelFacts DEF Tally, found
  <2>2. V = {q \in U : q[2].severity = Levels[k]}
    BY <1>5
  <2>3. V = {q \in U : lev[q] = k}
    <3>1. \A q \in U : q[2].severity = Levels[k] <=> lev[q] = k
      BY <1>6, LevelFacts
    <3> QED BY <2>2, <3>1
  <2>4. severityOrder[Levels[k]] > severityOrder[spec.severity] <=> k > n
    BY <1>1, LevelFacts
  <2> HIDE DEF V, n, lev, c
  <2> QED BY <2>1, <2>3, <2>4
<1>9. /\ \A k \in 1 .. 5 : c[k] \in Nat
      /\ Cardinality({q \in U : lev[q] <= n}) = c[1] + c[2] + c[3] + c[4] + c[5]
  <2> HIDE DEF lev, n, c
  <2>1. Leveled(c, U, lev, n)
    BY <1>8 DEF Leveled
  <2>2. /\ \A k \in 1 .. 5 : c[k] \in Nat
        /\ Cardinality(UpTo(U, lev, n)) = c[1] + c[2] + c[3] + c[4] + c[5]
    BY <1>4, <1>7, <2>1, UpToLevel
  <2> QED BY <2>2 DEF UpTo
<1>10. /\ r.tally[spec] = c /\ r.namespace = pod.namespace /\ r.labels = pod.labels
       /\ r.weight[spec] = WeightUnder(pod, spec)
       /\ r.hard = {rule \in RuleTypes : Hardened(rule, pod)}
  <2> HIDE DEF c
  <2> QED BY DEF Judged, c
<1>11. PodCount(r, spec) = Cardinality({q \in U : lev[q] <= n})
  <2> HIDE DEF c, lev, n, r
  <2> QED BY <1>9, <1>10 DEF PodCount
<1>12. r.weight[spec] = DueOf(r, spec, Len(Scope(spec)))
  <2> DEFINE W == UNION {{<<i, f>> : f \in {g \in found(i) :
                            severityOrder[g.severity] <= severityOrder[spec.severity]}} : i \in I}
  <2>1. WeightUnder(pod, spec) =
          IF ~Selected(spec, pod) THEN 0
          ELSE Cardinality({j \in DOMAIN Scope(spec) : Scope(spec)[j] = pod.namespace})
               * Cardinality(W)
    BY DEF WeightUnder, found
  <2>2. W = {q \in U : severityOrder[q[2].severity] <= severityOrder[spec.severity]}
    BY <1>5
  <2>3. W = {q \in U : lev[q] <= n}
    <3>1. \A q \in U : severityOrder[q[2].severity] <= severityOrder[spec.severity] <=> lev[q] <= n
      BY <1>1, <1>6, LevelFacts
    <3> QED BY <2>2, <3>1
  <2>4. Selected(spec, r) <=> Selected(spec, pod)
    BY <1>10 DEF Selected
  <2>5. DOMAIN Scope(spec) = 1 .. Len(Scope(spec))
    BY <1>1
  <2> HIDE DEF W, r, lev, n
  <2>6. Seen(spec, Len(Scope(spec)), r.namespace)
          = Cardinality({j \in DOMAIN Scope(spec) : Scope(spec)[j] = pod.namespace})
    BY <1>10, <2>5 DEF Seen
  <2>7. PodCount(r, spec) = Cardinality(W)
    BY <1>11, <2>3
  <2> QED BY <1>10, <2>1, <2>4, <2>6, <2>7 DEF DueOf
<1>13. ASSUME ChecksAgree, PodCount(r, spec) = 0, spec.severity \in {"low", "info"}, NEW rule \in ToSet(spec.rules)
       PROVE  rule \in r.hard
  <2>1. PICK i \in I : rule = spec.rules[i]
    BY DEF ToSet
  <2>2. {q \in U : lev[q] <= n} = U
    BY <1>6, <1>13, LevelFacts
  <2>3. U = {}
    <3> HIDE DEF r
    <3> QED BY <1>4, <1>11, <1>13, <2>2, FS_EmptySet
  <2>4. Scan(rule, pod) = {}
    BY <1>5, <2>1, <2>3 DEF found
  <2>5. rule \in RuleTypes
    BY <1>2, <2>1
  <2>6. Hardened(rule, pod)
    BY <1>13, <2>4, <2>5 DEF ChecksAgree, pod
  <2> QED BY <1>10, <2>5, <2>6
<1>14. \A k \in 1 .. 5 : r.tally[spec][k] \in Nat
  <2> HIDE DEF r, c
  <2> QED BY <1>9, <1>10
<1> QED
  <2> HIDE DEF r
  <2> QED BY <1>12, <1>13, <1>14
-----------------------------------------------------------------------------
(* Pods that are counted as they should be.                                *)
CountedPods(ps) ==
  /\ IsFiniteSet(DOMAIN ps) /\ ps = [p \in DOMAIN ps |-> ps[p]]
  /\ \A p \in DOMAIN ps : IsPod(ps[p]) /\ CountedPod(ps[p])

Counts(ps, spec) == [p \in DOMAIN ps |-> PodCount(ps[p], spec)]
Dues(ps, spec, d) == [p \in DOMAIN ps |-> DueOf(ps[p], spec, d)]

(* The findings in the pods that have been listed, each as often as it was *)
(* listed.                                                                 *)
OfListed(h, names) == [j \in DOMAIN names |-> h[names[j]]]
InListed(ps, spec, names) == Amount(OfListed(Counts(ps, spec), names), DOMAIN names)

(* What is counted after d namespaces: all that is due of the pods that    *)
(* ran throughout, and nothing but what is due of those that ever ran.     *)
Between(ps, rn, spec, d, n) ==
  Amount(Dues(ps, spec, d), rn.always) <= n /\ n <= Amount(Dues(ps, spec, d), rn.ever)

(* A namespace more of the scope has been listed.                          *)
LEMMA SeenFacts ==
  ASSUME NEW spec \in Specs, NEW d \in 0 .. Len(Scope(spec)), NEW ns
  PROVE  /\ Seen(spec, d, ns) \in Nat /\ Seen(spec, 0, ns) = 0
         /\ Seen(spec, d, ns) > 0 <=> \E j \in 1 .. d : Scope(spec)[j] = ns
         /\ d + 1 <= Len(Scope(spec)) =>
              Seen(spec, d + 1, ns) = Seen(spec, d, ns) + IF Scope(spec)[d + 1] = ns THEN 1 ELSE 0
<1> DEFINE S(e) == {j \in 1 .. e : Scope(spec)[j] = ns}
<1>1. Len(Scope(spec)) \in Nat
  BY ScopeAssumption
<1>2. ASSUME NEW e \in Nat PROVE IsFiniteSet(S(e)) /\ Cardinality(S(e)) \in Nat
  <2>1. IsFiniteSet(1 .. e)
    BY FS_Interval
  <2>2. IsFiniteSet(S(e))
    BY <2>1, FS_Subset
  <2> QED BY <2>2, FS_CardinalityType
<1>3. d \in Nat
  BY <1>1
<1>4. S(0) = {} /\ Cardinality(S(0)) = 0
  <2>1. S(0) = {}
    OBVIOUS
  <2> QED BY <2>1, FS_EmptySet
<1>5. Cardinality(S(d)) > 0 <=> S(d) # {}
  <2>1. IsFiniteSet(S(d)) /\ Cardinality(S(d)) \in Nat
    BY <1>2, <1>3
  <2> HIDE DEF S
  <2>2. Cardinality(S(d)) = 0 <=> S(d) = {}
    BY <2>1, FS_EmptySet
  <2> QED BY <2>1, <2>2
<1>6. Cardinality(S(d + 1)) = Cardinality(S(d)) + IF Scope(spec)[d + 1] = ns THEN 1 ELSE 0
  <2>1. d + 1 \notin S(d)
    BY <1>3
  <2>2. S(d + 1) = IF Scope(spec)[d + 1] = ns THEN S(d) \cup {d + 1} ELSE S(d)
    BY <1>3
  <2> HIDE DEF S
  <2>3. CASE Scope(spec)[d + 1] = ns
    <3>1. Cardinality(S(d) \cup {d + 1}) = Cardinality(S(d)) + 1
      BY <1>2, <1>3, <2>1, FS_AddElement
    <3> QED BY <2>2, <2>3, <3>1
  <2>4. CASE Scope(spec)[d + 1] # ns
    BY <1>2, <1>3, <2>2, <2>4
  <2> QED BY <2>3, <2>4
<1> QED BY <1>2, <1>3, <1>4, <1>5, <1>6 DEF Seen

(* Five numbers add up to a number.                                        *)
LEMMA FiveAdded ==
  ASSUME NEW a \in Nat, NEW b \in Nat, NEW c \in Nat, NEW d \in Nat, NEW e \in Nat
  PROVE  a + b + c + d + e \in Nat
OBVIOUS

(* So what is due of a pod grows by its findings if that is its namespace. *)
LEMMA DueFacts ==
  ASSUME NEW r, CountedPod(r), NEW spec \in Specs, NEW d \in 0 .. Len(Scope(spec))
  PROVE  /\ PodCount(r, spec) \in Nat /\ DueOf(r, spec, d) \in Nat /\ DueOf(r, spec, 0) = 0
         /\ d + 1 <= Len(Scope(spec)) =>
              DueOf(r, spec, d + 1) = DueOf(r, spec, d) +
                IF Selected(spec, r) /\ r.namespace = Scope(spec)[d + 1]
                THEN PodCount(r, spec) ELSE 0
<1> DEFINE n == PodCount(r, spec)
           a == Seen(spec, d, r.namespace)
           b == Seen(spec, d + 1, r.namespace)
<1>1. n \in Nat
  <2> DEFINE t == r.tally[spec]
  <2>1. \A k \in 1 .. 5 : t[k] \in Nat
    BY DEF CountedPod
  <2>2. n = t[1] + t[2] + t[3] + t[4] + t[5]
    BY DEF PodCount
  <2> HIDE DEF t, n
  <2>3. t[1] \in Nat /\ t[2] \in Nat /\ t[3] \in Nat /\ t[4] \in Nat /\ t[5] \in Nat
    BY <2>1
  <2>4. t[1] + t[2] + t[3] + t[4] + t[5] \in Nat
    BY <2>3, FiveAdded
  <2> QED BY <2>2, <2>4
<1>2. /\ a \in Nat /\ Seen(spec, 0, r.namespace) = 0
      /\ d + 1 <= Len(Scope(spec)) =>
           b = a + IF Scope(spec)[d + 1] = r.namespace THEN 1 ELSE 0
  BY SeenFacts
<1>3. /\ DueOf(r, spec, d) = IF Selected(spec, r) THEN a * n ELSE 0
      /\ DueOf(r, spec, d + 1) = IF Selected(spec, r) THEN b * n ELSE 0
      /\ DueOf(r, spec, 0) = IF Selected(spec, r) THEN 0 * n ELSE 0
  BY <1>2 DEF DueOf
<1> HIDE DEF n, a, b
<1>4. a * n \in Nat /\ 0 * n = 0 /\ (a + 1) * n = a * n + n
  BY <1>1, <1>2
<1>5. DueOf(r, spec, d) \in Nat /\ DueOf(r, spec, 0) = 0
  BY <1>3, <1>4
<1>6. ASSUME d + 1 <= Len(Scope(spec))
      PROVE  DueOf(r, spec, d + 1) = DueOf(r, spec, d) +
               IF Selected(spec, r) /\ r.namespace = Scope(spec)[d + 1] THEN n ELSE 0
  <2>1. CASE ~Selected(spec, r)
    BY <1>3, <2>1
  <2>2. CASE Selected(spec, r) /\ r.namespace = Scope(spec)[d + 1]
    <3>1. b = a + 1
      BY <1>2, <1>6, <2>2
    <3> QED BY <1>3, <1>4, <2>2, <3>1
  <2>3. CASE Selected(spec, r) /\ r.namespace # Scope(spec)[d + 1]
    <3>1. b = a
      BY <1>2, <1>6, <2>3
    <3> QED BY <1>3, <1>4, <2>3, <3>1
  <2> QED BY <2>1, <2>2, <2>3
<1> QED BY <1>1, <1>5, <1>6 DEF n

(* Before the first namespace nothing is due and nothing is counted.       *)
LEMMA BetweenAtStart ==
  ASSUME NEW ps, CountedPods(ps), NEW rn, rn.always \subseteq DOMAIN ps, rn.ever \subseteq DOMAIN ps,
         NEW spec \in Specs
  PROVE  Between(ps, rn, spec, 0, InListed(ps, spec, <<>>))
<1>1. 0 \in 0 .. Len(Scope(spec))
  BY ScopeAssumption
<1>2. \A p \in DOMAIN ps : Dues(ps, spec, 0)[p] = 0
  BY <1>1, DueFacts DEF CountedPods, Dues
<1>3. ASSUME NEW S \in SUBSET DOMAIN ps PROVE Amount(Dues(ps, spec, 0), S) = 0
  <2>1. {} \in SUBSET S /\ \A x \in S \ {} : Dues(ps, spec, 0)[x] = 0
    BY <1>2
  <2>2. Amount(Dues(ps, spec, 0), S) = Amount(Dues(ps, spec, 0), {})
    BY <2>1, AmountOfNonzero
  <2> QED BY <2>2, AmountOfNone
<1>4. InListed(ps, spec, <<>>) = 0
  <2>1. DOMAIN <<>> = {}
    OBVIOUS
  <2> QED BY <2>1, AmountOfNone DEF InListed
<1> QED BY <1>3, <1>4 DEF Between

(* A namespace is listed: whoever ran throughout runs now, and whoever     *)
(* runs now has run at some time.                                          *)
LEMMA BetweenGoesOn ==
  ASSUME NEW ps, CountedPods(ps), NEW rn, NEW running,
         rn.always \subseteq running, running \subseteq rn.ever, rn.ever \subseteq DOMAIN ps,
         NEW spec \in Specs, NEW d \in 0 .. Len(Scope(spec)), d + 1 <= Len(Scope(spec)),
         NEW listed,
         listed = {p \in running : ps[p].namespace = Scope(spec)[d + 1] /\ Selected(spec, ps[p])},
         NEW n \in Nat, Between(ps, rn, spec, d, n)
  PROVE  Between(ps, rn, spec, d + 1, n + Amount(Counts(ps, spec), listed))
<1> DEFINE Hit(p) == ps[p].namespace = Scope(spec)[d + 1] /\ Selected(spec, ps[p])
           hit == [p \in DOMAIN ps |-> IF Hit(p) THEN PodCount(ps[p], spec) ELSE 0]
           old == Dues(ps, spec, d)
           new == Dues(ps, spec, d + 1)
           C == Counts(ps, spec)
<1>1. IsFiniteSet(DOMAIN ps) /\ \A p \in DOMAIN ps : CountedPod(ps[p])
  BY DEF CountedPods
<1>2. \A p \in DOMAIN ps : /\ old[p] \in Nat /\ hit[p] \in Nat /\ C[p] \in Nat
                           /\ new[p] = old[p] + hit[p] /\ hit[p] = IF Hit(p) THEN C[p] ELSE 0
  BY <1>1, DueFacts DEF Dues, Counts
<1> HIDE DEF hit, old, new, C
<1>3. ASSUME NEW S \in SUBSET DOMAIN ps
      PROVE  /\ Amount(new, S) = Amount(old, S) + Amount(C, {p \in S : Hit(p)})
             /\ Amount(old, S) \in Nat
             /\ IsFiniteSet(S) /\ IsFiniteSet({p \in S : Hit(p)})
             /\ Amount(C, {p \in S : Hit(p)}) \in Nat
  <2> DEFINE T == {p \in S : Hit(p)}
  <2>1. IsFiniteSet(S) /\ IsFiniteSet(T)
    <3>1. IsFiniteSet(S)
      BY <1>1, FS_Subset
    <3>2. T \subseteq S
      OBVIOUS
    <3> QED BY <3>1, <3>2, FS_Subset
  <2>2. Amount(new, S) = Amount(old, S) + Amount(hit, S)
    BY <1>2, <2>1, AmountOfSums
  <2>3. T \in SUBSET S /\ (\A x \in T : hit[x] = C[x]) /\ \A x \in S \ T : hit[x] = 0
    BY <1>2
  <2>4. \A x \in S : old[x] \in Nat /\ C[x] \in Nat
    BY <1>2
  <2> HIDE DEF T
  <2>5. Amount(hit, S) = Amount(C, T)
    BY <2>3, AmountOfNonzero
  <2>6. Amount(old, S) \in Nat /\ Amount(C, T) \in Nat
    BY <2>1, <2>3, <2>4, StackFinite
  <2> QED BY <2>1, <2>2, <2>5, <2>6 DEF T
<1> DEFINE A == {p \in rn.always : Hit(p)}
           E == {p \in rn.ever : Hit(p)}
<1>4. A \subseteq listed /\ listed \subseteq E /\ E \subseteq DOMAIN ps
  OBVIOUS
<1>5. /\ Amount(new, rn.always) = Amount(old, rn.always) + Amount(C, A)
      /\ Amount(new, rn.ever) = Amount(old, rn.ever) + Amount(C, E)
      /\ Amount(old, rn.always) \in Nat /\ Amount(old, rn.ever) \in Nat
      /\ Amount(C, A) \in Nat /\ Amount(C, E) \in Nat /\ IsFiniteSet(E)
  BY <1>3
<1> HIDE DEF A, E, Hit
<1>6. IsFiniteSet(listed) /\ (\A x \in listed : C[x] \in Nat) /\ \A x \in E : C[x] \in Nat
  BY <1>2, <1>4, <1>5, FS_Subset
<1>7. Amount(C, listed) \in Nat /\ Amount(C, A) <= Amount(C, listed)
        /\ Amount(C, listed) <= Amount(C, E)
  <2>1. Amount(C, listed) \in Nat
    BY <1>6, StackFinite
  <2>2. Amount(C, A) <= Amount(C, listed)
    BY <1>4, <1>6, AmountOfFewer
  <2>3. Amount(C, listed) <= Amount(C, E)
    BY <1>4, <1>5, <1>6, AmountOfFewer
  <2> QED BY <2>1, <2>2, <2>3
<1>8. Amount(old, rn.always) <= n /\ n <= Amount(old, rn.ever)
  BY DEF Between, old
<1>9. /\ Amount(new, rn.always) <= n + Amount(C, listed)
      /\ n + Amount(C, listed) <= Amount(new, rn.ever)
  BY <1>5, <1>7, <1>8
<1> QED BY <1>9 DEF Between, new, C

(* SetToSeq lists a set, each element once.                                *)
LEMMA ListsOnce ==
  ASSUME NEW S, IsFiniteSet(S)
  PROVE  /\ SetToSeq(S) \in Bijection(1 .. Cardinality(S), S)
         /\ Cardinality(S) \in Nat
<1> DEFINE n == Cardinality(S)
<1>1. n \in Nat /\ ExistsBijection(1 .. n, S)
  BY FS_CardinalityType
<1>2. PICK f : f \in Bijection(1 .. n, S)
  BY <1>1 DEF ExistsBijection
<1>3. f \in [1 .. n -> S] /\ IsInjective(f)
  BY <1>2 DEF Bijection, Injection
<1>4. SetToSeq(S) \in [1 .. n -> S] /\ IsInjective(SetToSeq(S))
  BY <1>3 DEF SetToSeq
<1>5. SetToSeq(S) \in Injection(1 .. n, S)
  BY <1>4 DEF Injection
<1>6. Cardinality(1 .. n) = n
  BY <1>1, FS_Interval
<1>7. SetToSeq(S) \in Surjection(1 .. n, S)
  BY <1>5, <1>6, FS_Injection
<1> QED BY <1>1, <1>5, <1>7 DEF Bijection

(* Listing more pods adds their findings, each pod's once.                 *)
LEMMA ListedMore ==
  ASSUME NEW P, NEW names \in Seq(P), NEW listed \in SUBSET P, IsFiniteSet(listed), NEW h,
         \A x \in P : h[x] \in Nat
  PROVE  LET new == names \o SetToSeq(listed)
         IN /\ new \in Seq(P)
            /\ Amount(OfListed(h, new), DOMAIN new)
                 = Amount(OfListed(h, names), DOMAIN names) + Amount(h, listed)
<1> DEFINE more == SetToSeq(listed)
           new == names \o more
           m == Len(names)
           c == Cardinality(listed)
           A == 1 .. m
           B == m + 1 .. m + c
           g == OfListed(h, new)
           b == [j \in B |-> more[j - m]]
<1>1. c \in Nat /\ more \in Bijection(1 .. c, listed)
  BY ListsOnce
<1>2. m \in Nat /\ DOMAIN names = A /\ \A j \in A : names[j] \in P
  OBVIOUS
<1>3. /\ more \in [1 .. c -> listed]
      /\ \A i \in 1 .. c : \A j \in 1 .. c : more[i] = more[j] => i = j
      /\ \A x \in listed : \E i \in 1 .. c : more[i] = x
  BY <1>1 DEF Bijection, Injection, Surjection, IsInjective
<1>4. more \in Seq(P) /\ Len(more) = c
  <2>1. more \in [1 .. c -> P]
    BY <1>3
  <2> HIDE DEF more
  <2> QED BY <1>1, <2>1
<1> HIDE DEF more, c
<1>5. /\ new \in Seq(P) /\ DOMAIN new = 1 .. m + c
      /\ \A j \in A : new[j] = names[j]
      /\ \A j \in B : new[j] = more[j - m]
  BY <1>1, <1>2, <1>4
<1>6. DOMAIN new = A \cup B /\ A \cap B = {}
  BY <1>1, <1>2, <1>5
<1>7. IsFiniteSet(A) /\ IsFiniteSet(B)
  <2>1. 1 \in Int /\ m \in Int /\ m + 1 \in Int /\ m + c \in Int
    BY <1>1, <1>2
  <2>2. IsFiniteSet(1 .. m)
    BY <2>1, FS_Interval
  <2>3. IsFiniteSet(m + 1 .. m + c)
    BY <2>1, FS_Interval
  <2> QED BY <2>2, <2>3
<1>8. /\ \A j \in A : g[j] = h[names[j]] /\ g[j] \in Nat
      /\ \A j \in B : g[j] = h[more[j - m]] /\ g[j] \in Nat
  <2> HIDE DEF A, B, new
  <2>1. \A j \in A \cup B : g[j] = h[new[j]]
    BY <1>6 DEF OfListed
  <2>2. \A j \in B : more[j - m] \in P
    <3> USE DEF B
    <3>1. \A j \in B : j - m \in 1 .. c
      BY <1>1, <1>2
    <3> QED BY <1>3, <3>1
  <2> QED BY <1>2, <1>5, <2>1, <2>2
<1> HIDE DEF g, new
<1>9. Amount(g, DOMAIN new) = Amount(g, A) + Amount(g, B)
  <2>1. \A x \in A \cup B : g[x] \in Nat
    BY <1>8
  <2> HIDE DEF A, B
  <2> QED BY <1>6, <1>7, <2>1, AmountOfTwo
<1>10. Amount(g, A) = Amount(OfListed(h, names), DOMAIN names)
  <2>1. \A j \in A : g[j] = OfListed(h, names)[j]
    BY <1>2, <1>8 DEF OfListed
  <2> HIDE DEF A
  <2>2. A \in SUBSET A /\ \A j \in A \ A : g[j] = 0
    OBVIOUS
  <2> QED BY <1>2, <2>1, <2>2, AmountOfNonzero
<1>11. Amount(g, B) = Amount(h, listed)
  <2>1. \A j \in B : j - m \in 1 .. c
    BY <1>1, <1>2
  <2>2. b \in [B -> listed]
    BY <1>3, <2>1
  <2>3. \A i \in B : \A j \in B : b[i] = b[j] => i = j
    <3> SUFFICES ASSUME NEW i \in B, NEW j \in B, b[i] = b[j] PROVE i = j
      OBVIOUS
    <3>1. i - m = j - m
      BY <1>3, <2>1
    <3> QED BY <1>1, <1>2, <3>1
  <2>4. ASSUME NEW x \in listed PROVE \E j \in B : b[j] = x
    <3>1. PICK i \in 1 .. c : more[i] = x
      BY <1>3
    <3>2. i + m \in B /\ (i + m) - m = i
      BY <1>1, <1>2
    <3> QED BY <3>1, <3>2
  <2>5. \A j \in B : g[j] \in Nat /\ h[b[j]] = g[j]
    BY <1>8
  <2> HIDE DEF b, B
  <2>6. b \in Bijection(B, listed)
    BY <2>2, <2>3, <2>4 DEF Bijection, Injection, Surjection, IsInjective
  <2> QED BY <1>7, <2>5, <2>6, AmountMoved
<1> QED BY <1>5, <1>9, <1>10, <1>11 DEF g, new, more

(* The findings in the listed pods are numbers to add up.                  *)
LEMMA InListedTyped ==
  ASSUME NEW ps, CountedPods(ps), NEW spec \in Specs, NEW names \in Seq(DOMAIN ps)
  PROVE  InListed(ps, spec, names) \in Nat
<1>1. \A p \in DOMAIN ps : Counts(ps, spec)[p] \in Nat
  <2>1. 0 \in 0 .. Len(Scope(spec))
    BY ScopeAssumption
  <2> QED BY <2>1, DueFacts DEF CountedPods, Counts
<1>2. IsFiniteSet(DOMAIN names) /\ \A j \in DOMAIN names : names[j] \in DOMAIN ps
  <2>1. DOMAIN names = 1 .. Len(names) /\ Len(names) \in Nat
    OBVIOUS
  <2> QED BY <2>1, FS_Interval
<1>3. \A j \in DOMAIN names : OfListed(Counts(ps, spec), names)[j] \in Nat
  BY <1>1, <1>2 DEF OfListed
<1> QED BY <1>2, <1>3, StackFinite DEF InListed

(* runPolicyScanners: the findings of each severity, over all listed pods, *)
(* add up to the findings in each pod, over all severities.                *)
LEMMA CountOfFound ==
  ASSUME CountedPods(pods), NEW spec \in Specs, NEW names \in Seq(DOMAIN pods)
  PROVE  Count(FoundIn(names, spec)) = InListed(pods, spec, names)
<1> DEFINE J == DOMAIN names
           t(k) == [j \in J |-> pods[names[j]].tally[spec][k]]
           found == FoundIn(names, spec)
           two == [j \in J |-> t(1)[j] + t(2)[j]]
           three == [j \in J |-> two[j] + t(3)[j]]
           four == [j \in J |-> three[j] + t(4)[j]]
           five == [j \in J |-> four[j] + t(5)[j]]
<1>1. IsFiniteSet(J) /\ \A j \in J : names[j] \in DOMAIN pods
  <2>1. J = 1 .. Len(names) /\ Len(names) \in Nat
    OBVIOUS
  <2> QED BY <2>1, FS_Interval
<1>2. \A k \in 1 .. 5 : \A j \in J : t(k)[j] \in Nat
  BY <1>1 DEF CountedPods, CountedPod
<1>3. ASSUME NEW k \in 1 .. 5 PROVE found[k] = Amount(t(k), J)
  <2> DEFINE h == t(k)
             F(f) == [s \in SUBSET J |->
                IF s = {} THEN 0
                ELSE pods[names[Chosen(s)]].tally[spec][k] + f[s \ {Chosen(s)}]]
             G(f) == [s \in SUBSET J |-> IF s = {} THEN 0 ELSE h[Chosen(s)] + f[s \ {Chosen(s)}]]
  <2>1. found[k] = (CHOOSE f : f = F(f))[J]
    BY LevelFacts DEF FoundIn, MapThenSumSet, MapThenFoldSet, Chosen
  <2>2. \A f : F(f) = G(f)
    BY ChosenIn
  <2>3. (CHOOSE f : f = G(f))[J] = Amount(h, J)
    <3>1. \A j \in J : h[j] \in Nat
      BY <1>2
    <3> HIDE DEF h, J
    <3> QED BY <1>1, <3>1, FoldIsAmount
  <2> HIDE DEF F, G
  <2> QED BY <2>1, <2>2, <2>3
<1>4. \A k \in 1 .. 5 : found[k] \in Nat
  <2>1. ASSUME NEW k \in 1 .. 5 PROVE found[k] \in Nat
    <3>1. \A j \in J : t(k)[j] \in Nat
      BY <1>2
    <3> HIDE DEF t, J, found
    <3>2. Amount(t(k), J) \in Nat
      BY <1>1, <3>1, StackFinite
    <3> QED BY <1>3, <3>2
  <2> QED BY <2>1
<1>5. Count(found) = Amount(found, 1 .. 5)
  <2> DEFINE D == 1 .. 5
             F(f) == [s \in SUBSET D |->
                        IF s = {} THEN 0 ELSE found[Chosen(s)] + f[s \ {Chosen(s)}]]
  <2> HIDE DEF found
  <2>1. Count(found) = (CHOOSE f : f = F(f))[D]
    BY LevelFacts DEF Count, MapThenSumSet, MapThenFoldSet, Chosen
  <2>2. IsFiniteSet(D) /\ \A k \in D : found[k] \in Nat
    <3>1. 1 \in Int /\ 5 \in Int
      OBVIOUS
    <3>2. IsFiniteSet(1 .. 5)
      BY <3>1, FS_Interval
    <3> QED BY <1>4, <3>2
  <2> HIDE DEF D
  <2>3. (CHOOSE f : f = F(f))[D] = Amount(found, D)
    BY <2>2, FoldIsAmount
  <2> QED BY <2>1, <2>3 DEF D
<1>6. Count(found) = found[1] + found[2] + found[3] + found[4] + found[5]
  <2> HIDE DEF found
  <2> QED BY <1>4, <1>5, AmountOfFive
<1>7. /\ \A j \in J : /\ t(1)[j] \in Nat /\ t(2)[j] \in Nat /\ t(3)[j] \in Nat
                      /\ t(4)[j] \in Nat /\ t(5)[j] \in Nat
      /\ \A j \in J : two[j] \in Nat /\ three[j] \in Nat /\ four[j] \in Nat
      /\ \A j \in J : /\ two[j] = t(1)[j] + t(2)[j] /\ three[j] = two[j] + t(3)[j]
                      /\ four[j] = three[j] + t(4)[j] /\ five[j] = four[j] + t(5)[j]
  <2>1. \A j \in J : /\ t(1)[j] \in Nat /\ t(2)[j] \in Nat /\ t(3)[j] \in Nat
                     /\ t(4)[j] \in Nat /\ t(5)[j] \in Nat
    BY <1>2
  <2> HIDE DEF t
  <2>2. \A j \in J : two[j] = t(1)[j] + t(2)[j] /\ two[j] \in Nat
    BY <2>1
  <2> HIDE DEF two
  <2>3. \A j \in J : three[j] = two[j] + t(3)[j] /\ three[j] \in Nat
    BY <2>1, <2>2
  <2> HIDE DEF three
  <2>4. \A j \in J : four[j] = three[j] + t(4)[j] /\ four[j] \in Nat
    BY <2>1, <2>3
  <2> HIDE DEF four
  <2>5. \A j \in J : five[j] = four[j] + t(5)[j]
    BY <2>1, <2>4
  <2> QED BY <2>1, <2>2, <2>3, <2>4, <2>5
<1>8. five = OfListed(Counts(pods, spec), names)
  <2>1. \A j \in J : five[j] = PodCount(pods[names[j]], spec)
    BY DEF PodCount
  <2> QED BY <1>1, <2>1 DEF OfListed, Counts
<1> HIDE DEF t, two, three, four, five, found, J
<1>9. /\ Amount(two, J) = Amount(t(1), J) + Amount(t(2), J)
      /\ Amount(three, J) = Amount(two, J) + Amount(t(3), J)
      /\ Amount(four, J) = Amount(three, J) + Amount(t(4), J)
      /\ Amount(five, J) = Amount(four, J) + Amount(t(5), J)
  BY <1>1, <1>7, AmountOfSums
<1>10. /\ found[1] = Amount(t(1), J) /\ found[2] = Amount(t(2), J) /\ found[3] = Amount(t(3), J)
       /\ found[4] = Amount(t(4), J) /\ found[5] = Amount(t(5), J)
  BY <1>3
<1>11. /\ found[1] \in Nat /\ found[2] \in Nat /\ found[3] \in Nat /\ found[4] \in Nat
       /\ found[5] \in Nat
  BY <1>4
<1>12. Amount(five, J) = found[1] + found[2] + found[3] + found[4] + found[5]
  BY <1>9, <1>10, <1>11
<1>13. InListed(pods, spec, names) = Amount(five, J)
  BY <1>8 DEF InListed, J
<1> QED BY <1>6, <1>12, <1>13 DEF found
-----------------------------------------------------------------------------
(* The SecurityPolicy as users left it, and a copy of it that a reconcile  *)
(* works with: an old one, or that one.                                    *)
PolicyFields == {"exists", "spec", "generation"}
IsPolicy(pol) ==
  pol = [f \in PolicyFields |-> pol[f]] /\ pol.spec \in Specs /\ pol.generation \in Nat
CopyOf(r, pol) ==
  /\ r.spec \in Specs /\ r.generation \in Nat /\ r.generation <= pol.generation
  /\ r.generation = pol.generation => r.spec = pol.spec

(* Who ran throughout runs, and who runs has run at some time.             *)
IsHistory(rn) == rn = [f \in {"always", "ever"} |-> rn[f]]
RunningIn(ps) == {p \in DOMAIN ps : ps[p].phase = "Running"}
Watched(ps, rn) ==
  rn.always \subseteq RunningIn(ps) /\ RunningIn(ps) \subseteq rn.ever /\ rn.ever \subseteq DOMAIN ps

(* d namespaces of the scope have been listed, and the others are to do.   *)
Left(todo, spec, d) ==
  /\ todo \in Seq(ToSet(Scope(spec))) /\ Len(todo) = Len(Scope(spec)) - d
  /\ \A i \in 1 .. Len(todo) : todo[i] = Scope(spec)[d + i]
Listing(ps, rn, r) ==
  /\ r.pods \in Seq(DOMAIN ps)
  /\ \E d \in 0 .. Len(Scope(r.spec)) :
       Left(r.todo, r.spec, d) /\ Between(ps, rn, r.spec, d, InListed(ps, r.spec, r.pods))

(* What the reconcile has counted so far is between what is due of the     *)
(* pods that ran throughout and what is due of those that ever ran.        *)
Progress(ps, rn, r) ==
  /\ r.pc = "scope" => r.pods = <<>>
  /\ r.pc = "pods" => Listing(ps, rn, r)
  /\ r.pc \in {"notify", "status"} =>
       /\ Count(r.findings) \in Nat
       /\ Between(ps, rn, r.spec, Len(Scope(r.spec)), Count(r.findings))
HInv ==
  /\ CountedPods(pods) /\ faults \in Nat
  /\ IsPolicy(policy) /\ IsReconcile(secp) /\ IsHistory(ran)
  /\ secp.pc # "idle" => /\ CopyOf(secp, policy) /\ Watched(pods, ran)
                         /\ Progress(pods, ran, secp)

(* The reconcile moves on with all that it has.                            *)
LEMMA GoesOn ==
  ASSUME NEW r, IsReconcile(r), NEW v, NEW new, new = [r EXCEPT !.pc = v]
  PROVE  /\ IsReconcile(new) /\ new.pc = v /\ new.spec = r.spec /\ new.generation = r.generation
         /\ new.findings = r.findings
BY DEF IsReconcile, SecpFields

(* The cluster as it starts.                                               *)
LEMMA HInit == Init => HInv
<1> SUFFICES ASSUME Init PROVE HInv
  OBVIOUS
<1>1. PICK s \in Scenarios :
         /\ pods = [p \in DOMAIN s.pods |-> Judged(s.pods[p])] /\ faults = s.faults
         /\ policy = [exists |-> s.exists, spec |-> s.spec, generation |-> 1]
  BY DEF Init
<1>2. /\ IsFiniteSet(DOMAIN s.pods) /\ s.faults \in Nat /\ s.spec \in Specs
      /\ \A p \in DOMAIN s.pods : s.pods[p].restarts \in Nat
  BY PoliciesAssumption
<1>3. CountedPods(pods)
  <2>1. DOMAIN pods = DOMAIN s.pods /\ pods = [p \in DOMAIN pods |-> pods[p]]
    BY <1>1
  <2>2. \A p \in DOMAIN pods : IsPod(pods[p]) /\ CountedPod(pods[p])
    BY <1>1, <1>2, JudgedIsPod, JudgedIsCounted
  <2> QED BY <1>2, <2>1, <2>2 DEF CountedPods
<1>4. IsPolicy(policy)
  BY <1>1, <1>2 DEF IsPolicy, PolicyFields
<1>5. IsHistory(ran)
  BY DEF Init, IsHistory
<1>6. secp = Idle
  BY DEF Init
<1> QED BY <1>1, <1>2, <1>3, <1>4, <1>5, <1>6, BeginsReconcile DEF HInv

(* Two pods, or one before and after a change, with the same findings.     *)
SameFindings(r, q) ==
  /\ q.namespace = r.namespace /\ q.labels = r.labels
  /\ q.tally = r.tally /\ q.weight = r.weight /\ q.hard = r.hard
SamePods(ps, qs) ==
  /\ DOMAIN qs = DOMAIN ps /\ qs = [p \in DOMAIN qs |-> qs[p]]
  /\ \A p \in DOMAIN ps : IsPod(qs[p]) /\ SameFindings(ps[p], qs[p])

(* They are due the same.                                                  *)
LEMMA SameDues ==
  ASSUME NEW r, NEW q, SameFindings(r, q)
  PROVE  /\ CountedPod(r) => CountedPod(q)
         /\ \A spec, d : DueOf(q, spec, d) = DueOf(r, spec, d)
         /\ \A spec : PodCount(q, spec) = PodCount(r, spec)
<1>1. \A spec : PodCount(q, spec) = PodCount(r, spec)
  BY DEF PodCount, SameFindings
<1>2. \A spec, d : DueOf(q, spec, d) = DueOf(r, spec, d)
  BY <1>1 DEF DueOf, Selected, SameFindings
<1>3. ASSUME CountedPod(r) PROVE CountedPod(q)
  <2> SUFFICES ASSUME NEW spec \in Specs
               PROVE  /\ \A k \in 1 .. 5 : q.tally[spec][k] \in Nat
                      /\ q.weight[spec] = DueOf(q, spec, Len(Scope(spec)))
                      /\ ChecksAgree /\ PodCount(q, spec) = 0 /\ spec.severity \in {"low", "info"}
                           => ToSet(spec.rules) \subseteq q.hard
    BY DEF CountedPod
  <2>1. /\ \A k \in 1 .. 5 : r.tally[spec][k] \in Nat
        /\ r.weight[spec] = DueOf(r, spec, Len(Scope(spec)))
        /\ ChecksAgree /\ PodCount(r, spec) = 0 /\ spec.severity \in {"low", "info"}
             => ToSet(spec.rules) \subseteq r.hard
    BY <1>3 DEF CountedPod
  <2> QED BY <1>1, <1>2, <2>1 DEF SameFindings
<1> QED BY <1>1, <1>2, <1>3

(* So what has been counted stays between the two sums while pods change,  *)
(* for fewer have run throughout and more have ever run.                   *)
LEMMA CountsStay ==
  ASSUME NEW ps, CountedPods(ps), NEW qs, SamePods(ps, qs)
  PROVE  /\ CountedPods(qs)
         /\ \A spec, d : Dues(qs, spec, d) = Dues(ps, spec, d)
         /\ \A spec, names : InListed(qs, spec, names) = InListed(ps, spec, names)
<1>1. \A p \in DOMAIN ps : SameFindings(ps[p], qs[p]) /\ CountedPod(ps[p])
  BY DEF SamePods, CountedPods
<1>2. CountedPods(qs)
  BY <1>1, SameDues DEF CountedPods, SamePods
<1>3. \A spec, d : Dues(qs, spec, d) = Dues(ps, spec, d)
  BY <1>1, SameDues DEF Dues, SamePods
<1>4. \A spec : Counts(qs, spec) = Counts(ps, spec)
  BY <1>1, SameDues DEF Counts, SamePods
<1> QED BY <1>2, <1>3, <1>4 DEF InListed

(* The bounds give way.                                                    *)
LEMMA BetweenGivesWay ==
  ASSUME NEW ps, CountedPods(ps), NEW rn, NEW rm, rm.always \subseteq rn.always,
         rn.ever \subseteq rm.ever, rn.always \subseteq rn.ever, rm.ever \subseteq DOMAIN ps,
         NEW spec \in Specs, NEW d \in 0 .. Len(Scope(spec)), NEW n \in Nat,
         Between(ps, rn, spec, d, n)
  PROVE  Between(ps, rm, spec, d, n)
<1> DEFINE h == Dues(ps, spec, d)
<1>1. \A p \in DOMAIN ps : h[p] \in Nat
  BY DueFacts DEF CountedPods, Dues
<1>2. IsFiniteSet(rm.ever) /\ IsFiniteSet(rn.always) /\ IsFiniteSet(rn.ever) /\ IsFiniteSet(rm.always)
  <2>1. IsFiniteSet(DOMAIN ps)
    BY DEF CountedPods
  <2>2. IsFiniteSet(rm.ever)
    BY <2>1, FS_Subset
  <2>3. IsFiniteSet(rn.ever)
    BY <2>2, FS_Subset
  <2>4. IsFiniteSet(rn.always)
    BY <2>3, FS_Subset
  <2>5. IsFiniteSet(rm.always)
    BY <2>4, FS_Subset
  <2> QED BY <2>2, <2>3, <2>4, <2>5
<1>3. Amount(h, rn.always) <= n /\ n <= Amount(h, rn.ever)
  BY DEF Between
<1> HIDE DEF h
<1>4. Amount(h, rm.always) <= Amount(h, rn.always)
  BY <1>1, <1>2, AmountOfFewer
<1>5. Amount(h, rn.ever) <= Amount(h, rm.ever)
  BY <1>1, <1>2, AmountOfFewer
<1>6. /\ Amount(h, rm.always) \in Nat /\ Amount(h, rn.always) \in Nat
      /\ Amount(h, rn.ever) \in Nat /\ Amount(h, rm.ever) \in Nat
  BY <1>1, <1>2, StackFinite
<1>7. Amount(h, rm.always) <= n /\ n <= Amount(h, rm.ever)
  BY <1>3, <1>4, <1>5, <1>6
<1> QED BY <1>7 DEF Between, h

(* And with them the progress of the reconcile.                            *)
LEMMA ProgressStays ==
  ASSUME NEW ps, CountedPods(ps), NEW qs, SamePods(ps, qs), NEW rn, NEW rm, Watched(ps, rn),
         rm.always \subseteq rn.always, rn.ever \subseteq rm.ever, rm.ever \subseteq DOMAIN ps,
         NEW r, r.spec \in Specs, Progress(ps, rn, r)
  PROVE  Progress(qs, rm, r)
<1>1. /\ CountedPods(qs) /\ DOMAIN qs = DOMAIN ps
      /\ \A spec, d : Dues(qs, spec, d) = Dues(ps, spec, d)
      /\ \A spec, names : InListed(qs, spec, names) = InListed(ps, spec, names)
  BY CountsStay DEF SamePods
<1>2. rn.always \subseteq rn.ever
  BY DEF Watched
<1>3. ASSUME NEW d \in 0 .. Len(Scope(r.spec)), NEW n \in Nat, Between(ps, rn, r.spec, d, n)
      PROVE  Between(qs, rm, r.spec, d, n)
  <2>1. Between(ps, rm, r.spec, d, n)
    BY <1>2, <1>3, BetweenGivesWay
  <2> QED BY <1>1, <2>1 DEF Between
<1>4. ASSUME r.pc = "pods" PROVE Listing(qs, rm, r)
  <2>1. r.pods \in Seq(DOMAIN ps)
    BY <1>4 DEF Progress, Listing
  <2>2. PICK d \in 0 .. Len(Scope(r.spec)) :
           Left(r.todo, r.spec, d) /\ Between(ps, rn, r.spec, d, InListed(ps, r.spec, r.pods))
    BY <1>4 DEF Progress, Listing
  <2>3. InListed(ps, r.spec, r.pods) \in Nat
    BY <2>1, InListedTyped
  <2>4. Between(qs, rm, r.spec, d, InListed(qs, r.spec, r.pods))
    BY <1>1, <1>3, <2>2, <2>3
  <2> QED BY <1>1, <2>1, <2>2, <2>4 DEF Listing
<1>5. ASSUME r.pc \in {"notify", "status"}
      PROVE  /\ Count(r.findings) \in Nat
             /\ Between(qs, rm, r.spec, Len(Scope(r.spec)), Count(r.findings))
  <2>1. Len(Scope(r.spec)) \in 0 .. Len(Scope(r.spec))
    BY ScopeAssumption
  <2>2. /\ Count(r.findings) \in Nat
        /\ Between(ps, rn, r.spec, Len(Scope(r.spec)), Count(r.findings))
    BY <1>5 DEF Progress
  <2> QED BY <1>3, <2>1, <2>2
<1>6. r.pc = "scope" => r.pods = <<>>
  BY DEF Progress
<1> QED BY <1>4, <1>5, <1>6 DEF Progress

(* A pod with another phase or other restarts has the same findings.       *)
LEMMA PhaseKeepsFindings ==
  ASSUME NEW r, IsPod(r), NEW v
  PROVE  LET q == [r EXCEPT !.phase = v]
         IN IsPod(q) /\ SameFindings(r, q) /\ q.phase = v
BY DEF IsPod, PodFields, SameFindings

(* Likewise.                                                               *)
LEMMA RestartsKeepFindings ==
  ASSUME NEW r, IsPod(r), NEW v \in Nat
  PROVE  LET q == [r EXCEPT !.restarts = v]
         IN IsPod(q) /\ SameFindings(r, q) /\ q.phase = r.phase
BY DEF IsPod, PodFields, SameFindings

(* One pod is replaced by one with the same findings.                      *)
LEMMA OnePodChanges ==
  ASSUME NEW ps, CountedPods(ps), NEW p \in DOMAIN ps, NEW b, IsPod(b), SameFindings(ps[p], b),
         NEW qs, qs = [ps EXCEPT ![p] = b]
  PROVE  /\ SamePods(ps, qs)
         /\ b.phase = "Running" => RunningIn(qs) = RunningIn(ps) \cup {p}
         /\ b.phase # "Running" => RunningIn(qs) = RunningIn(ps) \ {p}
<1>1. /\ ps = [q \in DOMAIN ps |-> ps[q]] /\ \A q \in DOMAIN ps : IsPod(ps[q])
  BY DEF CountedPods
<1>2. /\ DOMAIN qs = DOMAIN ps /\ qs = [q \in DOMAIN qs |-> qs[q]] /\ qs[p] = b
      /\ \A q \in DOMAIN ps : q # p => qs[q] = ps[q]
  BY <1>1
<1>3. \A q \in DOMAIN ps : SameFindings(ps[q], ps[q])
  BY DEF SameFindings
<1>4. SamePods(ps, qs)
  BY <1>1, <1>2, <1>3 DEF SamePods
<1>5. /\ b.phase = "Running" => RunningIn(qs) = RunningIn(ps) \cup {p}
      /\ b.phase # "Running" => RunningIn(qs) = RunningIn(ps) \ {p}
  BY <1>2 DEF RunningIn
<1> QED BY <1>4, <1>5

(* The invariant while pods change, whatever the reconcile is at.          *)
LEMMA HPodsKept ==
  ASSUME HInv, SamePods(pods, pods'), secp' = secp, policy' = policy, faults' = faults,
         IsHistory(ran'), ran'.always \subseteq ran.always, ran.ever \subseteq ran'.ever,
         Watched(pods, ran) => Watched(pods', ran')
  PROVE  HInv'
<1>1. CountedPods(pods')
  BY CountsStay DEF HInv
<1>2. ASSUME secp.pc # "idle"
      PROVE  /\ CopyOf(secp, policy) /\ Watched(pods', ran') /\ Progress(pods', ran', secp)
  <2>1. CopyOf(secp, policy) /\ Watched(pods, ran) /\ Progress(pods, ran, secp)
    BY <1>2 DEF HInv
  <2>2. secp.spec \in Specs
    BY <2>1 DEF CopyOf
  <2>3. ran'.ever \subseteq DOMAIN pods
    BY <2>1 DEF Watched, SamePods
  <2> QED BY <2>1, <2>2, <2>3, ProgressStays DEF HInv
<1> QED BY <1>1, <1>2 DEF HInv

(* Pods that come, go and restart while the namespaces are listed.         *)
LEMMA HPods == HInv /\ PodChanges => HInv'
<1> SUFFICES ASSUME HInv, PodChanges PROVE HInv'
  OBVIOUS
<1>1. PICK p \in DOMAIN pods :
         \/ /\ pods' = [pods EXCEPT ![p].phase = "Succeeded"]
            /\ ran' = [ran EXCEPT !.always = @ \ {p}]
         \/ \E r \in {pods[p].restarts, 0} :
              /\ pods' = [pods EXCEPT ![p].phase = "Running", ![p].restarts = r]
              /\ ran' = [ran EXCEPT !.ever = @ \cup {p}]
         \/ /\ pods[p].phase = "Running"
            /\ pods' = [pods EXCEPT ![p].restarts = @ + 1] /\ ran' = ran
  BY DEF PodChanges, Running
<1>2. CountedPods(pods) /\ IsPod(pods[p]) /\ pods[p].restarts \in Nat /\ IsHistory(ran)
  BY DEF HInv, CountedPods, IsPod
<1>3. secp' = secp /\ policy' = policy /\ faults' = faults
  BY DEF PodChanges, sec
<1>4. CASE /\ pods' = [pods EXCEPT ![p].phase = "Succeeded"]
           /\ ran' = [ran EXCEPT !.always = @ \ {p}]
  <2> DEFINE b == [pods[p] EXCEPT !.phase = "Succeeded"]
  <2>1. pods' = [pods EXCEPT ![p] = b]
    BY <1>4
  <2>2. IsPod(b) /\ SameFindings(pods[p], b) /\ b.phase = "Succeeded"
    BY <1>2, PhaseKeepsFindings
  <2> HIDE DEF b
  <2>3. SamePods(pods, pods') /\ RunningIn(pods') = RunningIn(pods) \ {p}
    <3>1. /\ SamePods(pods, pods')
          /\ b.phase # "Running" => RunningIn(pods') = RunningIn(pods) \ {p}
      BY <1>2, <2>1, <2>2, OnePodChanges
    <3> QED BY <2>2, <3>1
  <2>4. IsHistory(ran') /\ ran'.always = ran.always \ {p} /\ ran'.ever = ran.ever
    BY <1>2, <1>4 DEF IsHistory
  <2>5. Watched(pods, ran) => Watched(pods', ran')
    BY <2>3, <2>4 DEF Watched, SamePods
  <2> QED BY <1>3, <2>3, <2>4, <2>5, HPodsKept
<1>5. ASSUME NEW r \in {pods[p].restarts, 0},
             pods' = [pods EXCEPT ![p].phase = "Running", ![p].restarts = r],
             ran' = [ran EXCEPT !.ever = @ \cup {p}]
      PROVE  HInv'
  <2> DEFINE a == [pods[p] EXCEPT !.phase = "Running"]
             b == [a EXCEPT !.restarts = r]
  <2>1. pods' = [pods EXCEPT ![p] = b]
    BY <1>5
  <2>2. IsPod(b) /\ SameFindings(pods[p], b) /\ b.phase = "Running"
    <3>1. IsPod(a) /\ SameFindings(pods[p], a) /\ a.phase = "Running"
      BY <1>2, PhaseKeepsFindings
    <3> HIDE DEF a
    <3>2. IsPod(b) /\ SameFindings(a, b) /\ b.phase = a.phase
      BY <1>2, <3>1, RestartsKeepFindings
    <3> HIDE DEF b
    <3> QED BY <3>1, <3>2 DEF SameFindings
  <2> HIDE DEF b
  <2>3. SamePods(pods, pods') /\ RunningIn(pods') = RunningIn(pods) \cup {p}
    <3>1. /\ SamePods(pods, pods')
          /\ b.phase = "Running" => RunningIn(pods') = RunningIn(pods) \cup {p}
      BY <1>2, <2>1, <2>2, OnePodChanges
    <3> QED BY <2>2, <3>1
  <2>4. IsHistory(ran') /\ ran'.always = ran.always /\ ran'.ever = ran.ever \cup {p}
    BY <1>2, <1>5 DEF IsHistory
  <2>5. Watched(pods, ran) => Watched(pods', ran')
    BY <2>3, <2>4 DEF Watched, SamePods
  <2> QED BY <1>3, <2>3, <2>4, <2>5, HPodsKept
<1>6. CASE /\ pods[p].phase = "Running"
           /\ pods' = [pods EXCEPT ![p].restarts = @ + 1] /\ ran' = ran
  <2> DEFINE b == [pods[p] EXCEPT !.restarts = pods[p].restarts + 1]
  <2>1. pods' = [pods EXCEPT ![p] = b]
    BY <1>6
  <2>2. IsPod(b) /\ SameFindings(pods[p], b) /\ b.phase = "Running"
    BY <1>2, <1>6, RestartsKeepFindings
  <2> HIDE DEF b
  <2>3. SamePods(pods, pods') /\ RunningIn(pods') = RunningIn(pods) \cup {p}
    <3>1. /\ SamePods(pods, pods')
          /\ b.phase = "Running" => RunningIn(pods') = RunningIn(pods) \cup {p}
      BY <1>2, <2>1, <2>2, OnePodChanges
    <3> QED BY <2>2, <3>1
  <2>4. RunningIn(pods') = RunningIn(pods)
    BY <1>6, <2>3 DEF RunningIn
  <2>5. Watched(pods, ran) => Watched(pods', ran')
    BY <1>6, <2>3, <2>4 DEF Watched, SamePods
  <2> QED BY <1>2, <1>3, <1>6, <2>3, <2>5, HPodsKept
<1> QED BY <1>1, <1>4, <1>5, <1>6

(* Calls that may still fail are a number.                                 *)
LEMMA FaultsTyped ==
  ASSUME faults \in Nat, Fault \/ UNCHANGED faults
  PROVE  faults' \in Nat
BY DEF Fault

(* The reconcile makes a step with the copy of the policy that it has.     *)
LEMMA HGoesOn ==
  ASSUME HInv, secp.pc # "idle", UNCHANGED <<pods, policy, ran>>, Fault \/ UNCHANGED faults,
         IsReconcile(secp'), secp'.spec = secp.spec, secp'.generation = secp.generation,
         Progress(pods, ran, secp')
  PROVE  HInv'
<1>1. CopyOf(secp, policy) /\ Watched(pods, ran)
  BY DEF HInv
<1>2. CopyOf(secp', policy)
  BY <1>1 DEF CopyOf
<1>3. faults' \in Nat
  BY FaultsTyped DEF HInv
<1> QED BY <1>1, <1>2, <1>3 DEF HInv

(* The policy is read, and the pods are watched from then on.              *)
LEMMA HGets == HInv /\ GetPolicy => HInv'
<1> SUFFICES ASSUME HInv, GetPolicy PROVE HInv'
  OBVIOUS
<1>1. /\ pods' = pods /\ policy' = policy /\ secp.pc = "idle"
      /\ Fault \/ UNCHANGED faults
      /\ \/ /\ secp' = [Idle EXCEPT !.pc = "scope", !.spec = policy.spec,
                                    !.generation = policy.generation]
            /\ ran' = [always |-> Running, ever |-> Running]
         \/ secp' = secp /\ ran' = ran
  BY DEF GetPolicy
<1>2. faults' \in Nat
  BY <1>1, FaultsTyped DEF HInv
<1>3. CASE secp' = secp /\ ran' = ran
  BY <1>1, <1>2, <1>3 DEF HInv
<1>4. CASE /\ secp' = [Idle EXCEPT !.pc = "scope", !.spec = policy.spec,
                                   !.generation = policy.generation]
           /\ ran' = [always |-> Running, ever |-> Running]
  <2>1. /\ IsReconcile(secp') /\ secp'.pc = "scope" /\ secp'.spec = policy.spec
        /\ secp'.generation = policy.generation /\ secp'.pods = <<>>
    BY <1>4 DEF IsReconcile, SecpFields, Idle
  <2>2. CopyOf(secp', policy)
    BY <2>1 DEF HInv, IsPolicy, CopyOf
  <2>3. IsHistory(ran') /\ Watched(pods, ran')
    BY <1>4 DEF IsHistory, Watched, RunningIn, Running
  <2>4. Progress(pods, ran', secp')
    BY <2>1 DEF Progress
  <2> QED BY <1>1, <1>2, <2>1, <2>2, <2>3, <2>4 DEF HInv
<1> QED BY <1>1, <1>3, <1>4

(* Nothing is listed yet when the scope is resolved.                       *)
LEMMA HResolves == HInv /\ ResolveScope => HInv'
<1> SUFFICES ASSUME HInv, ResolveScope PROVE HInv'
  OBVIOUS
<1>1. /\ UNCHANGED <<pods, policy, ran>> /\ secp.pc = "scope" /\ (Fault \/ UNCHANGED faults)
      /\ \/ secp' = [secp EXCEPT !.pc = "pods", !.todo = Scope(secp.spec)]
         \/ secp' = [secp EXCEPT !.pc = "failed"]
  BY DEF ResolveScope, Goto
<1>2. /\ CountedPods(pods) /\ IsReconcile(secp) /\ CopyOf(secp, policy) /\ Watched(pods, ran)
      /\ secp.pods = <<>> /\ secp.spec \in Specs
  BY <1>1 DEF HInv, Progress, CopyOf
<1>3. CASE secp' = [secp EXCEPT !.pc = "failed"]
  <2>1. /\ IsReconcile(secp') /\ secp'.pc = "failed" /\ secp'.spec = secp.spec
        /\ secp'.generation = secp.generation
    BY <1>2, <1>3, GoesOn
  <2>2. Progress(pods, ran, secp')
    BY <2>1 DEF Progress
  <2> QED BY <1>1, <2>1, <2>2, HGoesOn
<1>4. CASE secp' = [secp EXCEPT !.pc = "pods", !.todo = Scope(secp.spec)]
  <2>1. /\ IsReconcile(secp') /\ secp'.pc = "pods" /\ secp'.spec = secp.spec
        /\ secp'.generation = secp.generation /\ secp'.todo = Scope(secp.spec)
        /\ secp'.pods = <<>>
    BY <1>2, <1>4 DEF IsReconcile, SecpFields
  <2> DEFINE scope == Scope(secp.spec)
  <2>2. scope \in Seq(ToSet(scope))
    BY <1>2, ScopeAssumption
  <2>3. 0 \in 0 .. Len(scope) /\ Left(scope, secp.spec, 0)
    <3> HIDE DEF scope
    <3>1. Len(scope) \in Nat /\ Len(scope) = Len(scope) - 0 /\ \A i \in 1 .. Len(scope) : 0 + i = i
      BY <2>2
    <3> QED BY <2>2, <3>1 DEF Left, scope
  <2>4. Between(pods, ran, secp.spec, 0, InListed(pods, secp.spec, <<>>))
    BY <1>2, BetweenAtStart DEF Watched, RunningIn
  <2>5. <<>> \in Seq(DOMAIN pods)
    OBVIOUS
  <2>6. Listing(pods, ran, secp')
    BY <2>1, <2>3, <2>4, <2>5 DEF Listing
  <2>7. Progress(pods, ran, secp')
    BY <2>1, <2>6 DEF Progress
  <2> QED BY <1>1, <2>1, <2>7, HGoesOn
<1> QED BY <1>1, <1>3, <1>4

(* One more namespace is listed.                                           *)
LEMMA LeftLess ==
  ASSUME NEW spec \in Specs, NEW d \in 0 .. Len(Scope(spec)), NEW todo, Left(todo, spec, d),
         todo # <<>>
  PROVE  /\ d + 1 \in 0 .. Len(Scope(spec)) /\ Head(todo) = Scope(spec)[d + 1]
         /\ Left(Tail(todo), spec, d + 1)
<1> DEFINE S == ToSet(Scope(spec))
           n == Len(Scope(spec))
           at(i) == Scope(spec)[i]
<1>1. n \in Nat
  BY ScopeAssumption
<1>2. todo \in Seq(S) /\ Len(todo) = n - d /\ \A i \in 1 .. Len(todo) : todo[i] = at(d + i)
  BY DEF Left
<1> HIDE DEF S, n, at
<1>3. d \in Nat /\ d <= n
  BY <1>1 DEF n
<1>4. Len(todo) # 0 /\ Len(todo) \in Nat
  BY <1>2
<1>5. d + 1 \in 0 .. n
  BY <1>1, <1>2, <1>3, <1>4
<1>6. Head(todo) = at(d + 1)
  BY <1>2, <1>4
<1>7. /\ Tail(todo) \in Seq(S) /\ Len(Tail(todo)) = Len(todo) - 1
      /\ \A i \in 1 .. Len(Tail(todo)) : Tail(todo)[i] = todo[i + 1]
  BY <1>2
<1>8. Len(Tail(todo)) = n - (d + 1)
  BY <1>1, <1>2, <1>3, <1>7
<1>9. ASSUME NEW i \in 1 .. Len(Tail(todo)) PROVE Tail(todo)[i] = at((d + 1) + i)
  <2>1. i + 1 \in 1 .. Len(todo) /\ d + (i + 1) = (d + 1) + i
    BY <1>3, <1>4, <1>7
  <2> QED BY <1>2, <1>7, <2>1
<1> QED BY <1>5, <1>6, <1>7, <1>8, <1>9 DEF Left, S, n, at

(* The running pods of a namespace are listed, or the call fails.          *)
LEMMA HLists == HInv /\ ListPods => HInv'
<1> SUFFICES ASSUME HInv, ListPods PROVE HInv'
  OBVIOUS
<1> DEFINE listed == {p \in Running : /\ pods[p].namespace = Head(secp.todo)
                                      /\ Selected(secp.spec, pods[p])}
           t == Tail(secp.todo)
           q == secp.pods \o SetToSeq(listed)
<1>1. /\ UNCHANGED <<pods, policy, ran>> /\ secp.pc = "pods" /\ (Fault \/ UNCHANGED faults)
      /\ secp.todo # <<>>
      /\ \/ secp' = [secp EXCEPT !.todo = t, !.pods = q]
         \/ secp' = [secp EXCEPT !.pc = "failed"]
  BY DEF ListPods, Goto
<1>2. /\ CountedPods(pods) /\ IsReconcile(secp) /\ Watched(pods, ran)
      /\ secp.spec \in Specs /\ Listing(pods, ran, secp)
  BY <1>1 DEF HInv, Progress, CopyOf
<1>3. CASE secp' = [secp EXCEPT !.pc = "failed"]
  <2>1. /\ IsReconcile(secp') /\ secp'.pc = "failed" /\ secp'.spec = secp.spec
        /\ secp'.generation = secp.generation
    BY <1>2, <1>3, GoesOn
  <2>2. Progress(pods, ran, secp')
    BY <2>1 DEF Progress
  <2> QED BY <1>1, <2>1, <2>2, HGoesOn
<1>4. CASE secp' = [secp EXCEPT !.todo = t, !.pods = q]
  <2>1. /\ IsReconcile(secp') /\ secp'.pc = "pods" /\ secp'.spec = secp.spec
        /\ secp'.generation = secp.generation /\ secp'.todo = t /\ secp'.pods = q
    <3> HIDE DEF t, q
    <3> QED BY <1>1, <1>2, <1>4 DEF IsReconcile, SecpFields
  <2> DEFINE spec == secp.spec
             n == InListed(pods, spec, secp.pods)
  <2>2. secp.pods \in Seq(DOMAIN pods)
    BY <1>2 DEF Listing
  <2>3. PICK d \in 0 .. Len(Scope(spec)) :
           Left(secp.todo, spec, d) /\ Between(pods, ran, spec, d, n)
    BY <1>2 DEF Listing
  <2>4. /\ d + 1 \in 0 .. Len(Scope(spec)) /\ Head(secp.todo) = Scope(spec)[d + 1]
        /\ Left(t, spec, d + 1)
    BY <1>1, <1>2, <2>3, LeftLess
  <2>5. n \in Nat
    BY <1>2, <2>2, InListedTyped
  <2>6. Running = RunningIn(pods) /\ listed \in SUBSET DOMAIN pods
    BY DEF Running, RunningIn
  <2>7. IsFiniteSet(listed) /\ \A p \in DOMAIN pods : Counts(pods, spec)[p] \in Nat
    <3>1. IsFiniteSet(listed)
      BY <1>2, <2>6, FS_Subset DEF CountedPods
    <3>2. \A p \in DOMAIN pods : Counts(pods, spec)[p] \in Nat
      BY <1>2, <2>3, DueFacts DEF CountedPods, Counts
    <3> QED BY <3>1, <3>2
  <2>8. listed = {p \in Running : pods[p].namespace = Scope(spec)[d + 1] /\ Selected(spec, pods[p])}
    BY <2>4
  <2> HIDE DEF listed, n, t
  <2>9. q \in Seq(DOMAIN pods) /\ InListed(pods, spec, q) = n + Amount(Counts(pods, spec), listed)
    <3> DEFINE C == Counts(pods, spec)
               names == secp.pods
    <3>1. /\ names \in Seq(DOMAIN pods) /\ listed \in SUBSET DOMAIN pods /\ IsFiniteSet(listed)
          /\ \A p \in DOMAIN pods : C[p] \in Nat
      BY <2>2, <2>6, <2>7
    <3> HIDE DEF C, names, spec
    <3>2. LET new == names \o SetToSeq(listed)
          IN /\ new \in Seq(DOMAIN pods)
             /\ Amount(OfListed(C, new), DOMAIN new)
                  = Amount(OfListed(C, names), DOMAIN names) + Amount(C, listed)
      BY <3>1, ListedMore
    <3> QED BY <3>2 DEF InListed, n, C, names
  <2>10. Between(pods, ran, spec, d + 1, n + Amount(Counts(pods, spec), listed))
    <3>1. /\ ran.always \subseteq Running /\ Running \subseteq ran.ever
          /\ ran.ever \subseteq DOMAIN pods
      BY <1>2, <2>6 DEF Watched
    <3>2. d + 1 <= Len(Scope(spec)) /\ spec \in Specs
      BY <1>2, <2>4
    <3> HIDE DEF spec
    <3> QED BY <1>2, <2>3, <2>5, <2>8, <3>1, <3>2, BetweenGoesOn
  <2> HIDE DEF q
  <2>11. Listing(pods, ran, secp')
    BY <2>1, <2>4, <2>9, <2>10 DEF Listing
  <2>12. Progress(pods, ran, secp')
    BY <2>1, <2>11 DEF Progress
  <2> QED BY <1>1, <2>1, <2>12, HGoesOn
<1> QED BY <1>1, <1>3, <1>4

(* With no namespace left, what has been listed is counted.                *)
LEMMA HEvaluates == HInv /\ Evaluate => HInv'
<1> SUFFICES ASSUME HInv, Evaluate PROVE HInv'
  OBVIOUS
<1> DEFINE found == FoundIn(secp.pods, secp.spec)
           any == \E k \in DOMAIN Levels : found[k] > 0
           v == IF any THEN "notify" ELSE "status"
           spec == secp.spec
           n == Len(Scope(spec))
<1>1. /\ UNCHANGED <<pods, policy, ran>> /\ secp.pc = "pods" /\ UNCHANGED faults
      /\ secp.todo = <<>> /\ secp' = [secp EXCEPT !.findings = found, !.pc = v]
  BY DEF Evaluate, budget
<1>2. /\ CountedPods(pods) /\ IsReconcile(secp) /\ spec \in Specs /\ Listing(pods, ran, secp)
  BY <1>1 DEF HInv, Progress, CopyOf
<1>3. secp.pods \in Seq(DOMAIN pods)
  BY <1>2 DEF Listing
<1>4. Count(found) = InListed(pods, spec, secp.pods) /\ Count(found) \in Nat
  <2> HIDE DEF found
  <2> QED BY <1>2, <1>3, CountOfFound, InListedTyped DEF found
<1>5. Between(pods, ran, spec, n, InListed(pods, spec, secp.pods))
  <2>1. PICK d \in 0 .. n :
           Left(secp.todo, spec, d) /\ Between(pods, ran, spec, d, InListed(pods, spec, secp.pods))
    BY <1>2 DEF Listing
  <2>2. n \in Nat
    BY <1>2, ScopeAssumption
  <2>3. Len(<<>>) = n - d
    BY <1>1, <2>1 DEF Left
  <2>4. d = n
    <3> HIDE DEF n
    <3> QED BY <2>1, <2>2, <2>3
  <2> QED BY <2>1, <2>4
<1>6. v \in {"notify", "status"}
  OBVIOUS
<1> HIDE DEF found, v, any
<1>7. /\ IsReconcile(secp') /\ secp'.pc = v /\ secp'.spec = spec
      /\ secp'.generation = secp.generation /\ secp'.findings = found
  BY <1>1, <1>2 DEF IsReconcile, SecpFields
<1>8. Progress(pods, ran, secp')
  BY <1>4, <1>5, <1>6, <1>7 DEF Progress
<1> QED BY <1>1, <1>7, <1>8, HGoesOn

(* Notifying changes nothing of the count.                                 *)
LEMMA HSends == HInv /\ SendNotifications => HInv'
<1> SUFFICES ASSUME HInv, SendNotifications PROVE HInv'
  OBVIOUS
<1>1. /\ UNCHANGED <<pods, policy, ran>> /\ secp.pc = "notify" /\ (Fault \/ UNCHANGED faults)
      /\ secp' = [secp EXCEPT !.pc = "status"]
  BY DEF SendNotifications, Goto, FaultIf
<1>2. IsReconcile(secp) /\ Progress(pods, ran, secp)
  BY <1>1 DEF HInv
<1>3. /\ IsReconcile(secp') /\ secp'.pc = "status" /\ secp'.spec = secp.spec
      /\ secp'.generation = secp.generation /\ secp'.findings = secp.findings
  BY <1>1, <1>2, GoesOn
<1>4. Progress(pods, ran, secp')
  BY <1>1, <1>2, <1>3 DEF Progress
<1> QED BY <1>1, <1>3, <1>4, HGoesOn

(* The reconcile ends, with whatever it writes.                            *)
LEMMA HEnds ==
  ASSUME HInv, UpdatePolicyStatus \/ HandlePodResolutionError
  PROVE  HInv'
<1>1. /\ pods' = pods /\ policy' = policy /\ secp' = Idle /\ ran' = [always |-> {}, ever |-> {}]
      /\ Fault \/ UNCHANGED faults
  BY DEF UpdatePolicyStatus, HandlePodResolutionError, UpdateStatus, FaultIf
<1>2. IsReconcile(secp') /\ secp'.pc = "idle"
  BY <1>1, BeginsReconcile
<1>3. IsHistory(ran')
  BY <1>1 DEF IsHistory
<1>4. faults' \in Nat
  BY <1>1, FaultsTyped DEF HInv
<1> QED BY <1>1, <1>2, <1>3, <1>4 DEF HInv

(* A user edits or deletes the policy: the copy becomes an old one.        *)
LEMMA HEdits == HInv /\ PolicyChanges => HInv'
<1> SUFFICES ASSUME HInv, PolicyChanges PROVE HInv'
  OBVIOUS
<1>1. /\ UNCHANGED <<pods, secp, ran, faults>>
      /\ \/ \E s \in Specs : policy' = [policy EXCEPT !.spec = s, !.generation = @ + 1]
         \/ policy' = [policy EXCEPT !.exists = FALSE]
  BY DEF PolicyChanges
<1>2. IsPolicy(policy)
  BY DEF HInv
<1>3. CASE policy' = [policy EXCEPT !.exists = FALSE]
  <2>1. IsPolicy(policy') /\ policy'.spec = policy.spec /\ policy'.generation = policy.generation
    BY <1>2, <1>3 DEF IsPolicy, PolicyFields
  <2> QED BY <1>1, <2>1 DEF HInv, CopyOf
<1>4. ASSUME NEW s \in Specs, policy' = [policy EXCEPT !.spec = s, !.generation = @ + 1]
      PROVE  HInv'
  <2>1. policy.generation \in Nat
    BY <1>2 DEF IsPolicy
  <2> DEFINE g == policy.generation + 1
  <2>2. IsPolicy(policy') /\ policy'.generation = g
    <3>1. policy' = [policy EXCEPT !.spec = s, !.generation = g] /\ g \in Nat
      BY <1>4, <2>1
    <3> HIDE DEF g
    <3> QED BY <1>2, <3>1 DEF IsPolicy, PolicyFields
  <2>3. CopyOf(secp, policy) => CopyOf(secp, policy')
    BY <2>1, <2>2 DEF CopyOf
  <2> QED BY <1>1, <2>2, <2>3 DEF HInv
<1> QED BY <1>1, <1>3, <1>4

(* Every step of the three controllers, of users and of the cluster.       *)
LEMMA HNext == HInv /\ [Next]_vars => HInv'
<1> SUFFICES ASSUME HInv, [Next]_vars PROVE HInv'
  OBVIOUS
<1>1. CASE UNCHANGED <<pods, policy, secp, ran>> /\ (Fault \/ UNCHANGED faults)
  <2>1. faults' \in Nat
    BY <1>1, FaultsTyped DEF HInv
  <2> QED BY <1>1, <2>1 DEF HInv
<1>2. CASE UNCHANGED vars
  BY <1>1, <1>2 DEF vars, sec, budget
<1>3. CASE SecurityPolicyStep
  BY <1>3, HGets, HResolves, HLists, HEvaluates, HSends, HEnds DEF SecurityPolicyStep
<1>4. CASE MonitoringStep
  BY <1>1, <1>4 DEF MonitoringStep, CheckChannels, ObservePodMetrics, WriteMonitoring, sec, FaultIf
<1>5. CASE ReconcileChannels
  BY <1>1, <1>5 DEF ReconcileChannels, ReconcileChannel, sec
<1>6. CASE LearningEnds \/ ChannelChanges
  BY <1>1, <1>6 DEF LearningEnds, ChannelChanges, sec, budget
<1>7. CASE PodChanges
  BY <1>7, HPods
<1>8. CASE PolicyChanges
  BY <1>8, HEdits
<1> QED BY <1>2, <1>3, <1>4, <1>5, <1>6, <1>7, <1>8 DEF Next

(* The weight of pods is what is due of them when all is listed.           *)
LEMMA WeightIsDue ==
  ASSUME CountedPods(pods), NEW spec \in Specs, NEW names \in SUBSET DOMAIN pods
  PROVE  /\ Weight(spec, names) = Amount(Dues(pods, spec, Len(Scope(spec))), names)
         /\ IsFiniteSet(names)
         /\ \A p \in names : Dues(pods, spec, Len(Scope(spec)))[p] \in Nat
<1> DEFINE h == Dues(pods, spec, Len(Scope(spec)))
           F(f) == [s \in SUBSET names |->
              IF s = {} THEN 0 ELSE pods[Chosen(s)].weight[spec] + f[s \ {Chosen(s)}]]
           G(f) == [s \in SUBSET names |-> IF s = {} THEN 0 ELSE h[Chosen(s)] + f[s \ {Chosen(s)}]]
<1>1. Weight(spec, names) = (CHOOSE f : f = F(f))[names]
  BY DEF Weight, MapThenSumSet, MapThenFoldSet, Chosen
<1>2. \A p \in names : h[p] = pods[p].weight[spec]
  BY DEF CountedPods, CountedPod, Dues
<1>3. \A p \in names : h[p] \in Nat
  <2>1. Len(Scope(spec)) \in 0 .. Len(Scope(spec))
    BY ScopeAssumption
  <2> QED BY <2>1, DueFacts DEF CountedPods, Dues
<1>4. IsFiniteSet(names)
  BY FS_Subset DEF CountedPods
<1> HIDE DEF h
<1>5. \A f : F(f) = G(f)
  BY <1>2, ChosenIn
<1>6. (CHOOSE f : f = G(f))[names] = Amount(h, names)
  BY <1>3, <1>4, FoldIsAmount
<1> HIDE DEF F, G
<1>7. Weight(spec, names) = Amount(h, names)
  BY <1>1, <1>5, <1>6
<1> QED BY <1>3, <1>4, <1>7 DEF h

(* A product is zero only if a factor is.                                  *)
LEMMA NoFactor == ASSUME NEW a \in Nat, NEW n \in Nat, a > 0, a * n = 0 PROVE n = 0
OBVIOUS

(* If nothing is due of pods, the ones in scope are hardened.              *)
LEMMA NothingDue ==
  ASSUME ChecksAgree, CountedPods(pods), NEW spec \in Specs, spec.severity \in {"low", "info"},
         NEW names \in SUBSET DOMAIN pods, Weight(spec, names) <= 0,
         NEW p \in names, InScope(spec, p)
  PROVE  ToSet(spec.rules) \subseteq pods[p].hard
<1> DEFINE scope == Scope(spec)
           d == Len(scope)
           h == Dues(pods, spec, d)
           n == PodCount(pods[p], spec)
           a == Seen(spec, d, pods[p].namespace)
<1>1. CountedPod(pods[p]) /\ scope \in Seq(ToSet(scope)) /\ d \in 0 .. d
  BY ScopeAssumption DEF CountedPods
<1>2. h[p] = 0
  <2>1. Amount(h, names) <= 0 /\ IsFiniteSet(names) /\ \A q \in names : h[q] \in Nat
    BY WeightIsDue
  <2> HIDE DEF h
  <2>2. Amount(h, {p}) <= Amount(h, names)
    BY <2>1, AmountOfFewer
  <2>3. Amount(h, {p}) = h[p] /\ Amount(h, names) \in Nat /\ h[p] \in Nat
    BY <2>1, StackOfOne, StackFinite
  <2> QED BY <2>1, <2>2, <2>3
<1>3. Selected(spec, pods[p]) /\ \E j \in 1 .. d : scope[j] = pods[p].namespace
  <2>1. Selected(spec, pods[p]) /\ pods[p].namespace \in ToSet(scope)
    BY DEF InScope
  <2>2. \E j \in DOMAIN scope : scope[j] = pods[p].namespace
    BY <2>1 DEF ToSet
  <2> QED BY <1>1, <2>1, <2>2
<1>4. h[p] = a * n
  BY <1>3 DEF Dues, DueOf
<1>5. a \in Nat /\ a > 0
  BY <1>1, <1>3, SeenFacts
<1>6. n \in Nat
  BY <1>1, DueFacts
<1>7. n = 0
  <2> HIDE DEF n, a, h
  <2> QED BY <1>2, <1>4, <1>5, <1>6, NoFactor
<1> QED BY <1>1, <1>7 DEF CountedPod

(* The status is written by a reconcile whose copy is the policy's, and    *)
(* its count is between the two sums.                                      *)
LEMMA HonestStep ==
  ASSUME HInv, Next, secp.pc = "status", secp'.pc = "idle",
         status' # status \/ (Current /\ faults' = faults)
  PROVE  /\ status'.generation = policy.generation
         /\ Weight(policy.spec, ran.always) <= status'.count
         /\ status'.count <= Weight(policy.spec, ran.ever)
         /\ ChecksAgree /\ status'.count = 0 /\ policy.spec.severity \in {"low", "info"} =>
              \A p \in ran.always, rule \in ToSet(policy.spec.rules) :
                InScope(policy.spec, p) => rule \in pods[p].hard
<1> DEFINE n == Count(secp.findings)
           spec == policy.spec
           written == [phase |-> "Active", count |-> n, generation |-> secp.generation]
<1>1. UpdatePolicyStatus
  <2>1. CASE SecurityPolicyStep
    BY <2>1 DEF SecurityPolicyStep, GetPolicy, ResolveScope, ListPods, Evaluate,
                SendNotifications, HandlePodResolutionError
  <2>2. secp' # secp
    OBVIOUS
  <2>3. CASE MonitoringStep
    BY <2>2, <2>3 DEF MonitoringStep, CheckChannels, ObservePodMetrics, WriteMonitoring, sec
  <2>4. CASE ReconcileChannels
    BY <2>2, <2>4 DEF ReconcileChannels, ReconcileChannel, sec
  <2>5. CASE LearningEnds \/ PodChanges \/ PolicyChanges \/ ChannelChanges
    BY <2>2, <2>5 DEF LearningEnds, PodChanges, PolicyChanges, ChannelChanges, sec
  <2> QED BY <2>1, <2>3, <2>4, <2>5 DEF Next
<1>2. Current /\ status' = written
  <2>1. (Current /\ status' = written) \/ (FaultIf(Current) /\ status' = status)
    BY <1>1 DEF UpdatePolicyStatus, UpdateStatus
  <2>2. ASSUME FaultIf(Current), status' = status PROVE FALSE
    BY <2>2 DEF FaultIf, Fault, HInv
  <2> QED BY <2>1, <2>2
<1>3. /\ CountedPods(pods) /\ Watched(pods, ran) /\ CopyOf(secp, policy)
      /\ Progress(pods, ran, secp)
  BY DEF HInv
<1>4. secp.spec = spec /\ spec \in Specs
  BY <1>2, <1>3 DEF CopyOf, Current
<1>5. n \in Nat /\ Between(pods, ran, spec, Len(Scope(spec)), n)
  BY <1>3, <1>4 DEF Progress
<1>6. ran.always \in SUBSET DOMAIN pods /\ ran.ever \in SUBSET DOMAIN pods
  BY <1>3 DEF Watched, RunningIn
<1>7. Weight(spec, ran.always) <= n /\ n <= Weight(spec, ran.ever)
  <2> HIDE DEF n, spec
  <2> QED BY <1>3, <1>4, <1>5, <1>6, WeightIsDue DEF Between
<1>8. status'.count = n /\ status'.generation = policy.generation
  <2> HIDE DEF n
  <2> QED BY <1>2 DEF Current
<1>9. ASSUME ChecksAgree, n = 0, spec.severity \in {"low", "info"},
             NEW p \in ran.always, NEW rule \in ToSet(spec.rules), InScope(spec, p)
      PROVE  rule \in pods[p].hard
  <2> HIDE DEF n, spec
  <2> QED BY <1>3, <1>4, <1>6, <1>7, <1>9, NothingDue
<1> HIDE DEF n
<1> QED BY <1>7, <1>8, <1>9

(* A status that is written has a count of its own generation, within the  *)
(* two sums.                                                               *)
CountInBounds ==
  secp.pc = "status" /\ secp'.pc = "idle" /\ (status' # status \/ (Current /\ faults' = faults)) =>
    /\ status'.generation = policy.generation
    /\ Weight(policy.spec, ran.always) <= status'.count
    /\ status'.count <= Weight(policy.spec, ran.ever)

(* However many pods, namespaces and rules there are, and however pods     *)
(* come and go between the calls that list them, the violationCount that   *)
(* updatePolicyStatus writes is that of the policy it is written to, has   *)
(* all findings of the pods that ran throughout, and none of a pod that    *)
(* never ran.  This takes no hypothesis about the scanners.                *)
THEOREM CountInBoundsAlways == Spec => [][CountInBounds]_vars
<1>1. HInv /\ [Next]_vars => [CountInBounds]_vars
  BY HonestStep DEF CountInBounds
<1> QED BY <1>1, HInit, HNext, PTL DEF Spec

(* And a count of zero that updatePolicyStatus writes means that the pods  *)
(* are hardened, given that each scanner is silent only on pods that the   *)
(* reference calls so.                                                     *)
THEOREM CountIsHonestAlways == ASSUME ChecksAgree PROVE Spec => CountIsHonest
<1> DEFINE Honest ==
      secp.pc = "status" /\ secp'.pc = "idle" /\ (status' # status \/ (Current /\ faults' = faults)) =>
       /\ status'.generation = policy.generation
       /\ Weight(policy.spec, ran.always) <= status'.count
       /\ status'.count <= Weight(policy.spec, ran.ever)
       /\ status'.count = 0 /\ policy.spec.severity \in {"low", "info"} =>
            \A p \in ran.always, rule \in ToSet(policy.spec.rules) :
              InScope(policy.spec, p) => rule \in pods[p].hard
<1>1. HInv /\ [Next]_vars => [Honest]_vars
  BY HonestStep
<1> QED BY <1>1, HInit, HNext, PTL DEF Spec, CountIsHonest
=============================================================================
