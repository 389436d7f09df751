--------------------------- MODULE RemediationStore --------------------------
(***************************************************************************)
(* internal/events/remediations.go: the remediations by PR URL, with an    *)
(* index by scan and one by resource, bounded by evicting the oldest.      *)
(* Every operation holds the store's lock, so each is one step.            *)
(***************************************************************************)
EXTENDS Integers, SequencesExt

CONSTANTS
  Keys,       \* PR URLs
  Scans,      \* scan names
  Resources,  \* resource keys
  Capacity    \* at most this many remediations are kept; 0 is no bound

ASSUME StoreAssumption == Capacity \in Nat

VARIABLES
  byKey,           \* the remediations that are kept, by PR URL
  scanToKeys,      \* the PR URLs of a scan's remediations
  resourceToKeys,  \* the PR URLs of the remediations of a resource
  clock            \* counts Upserts, for CreatedAt

storeVars == <<byKey, scanToKeys, resourceToKeys, clock>>

(* A proposal as a caller passes it: the resources of its findings, which  *)
(* may name one resource several times.  A kept one also knows when it was *)
(* created, whether it is merged, and which of its resources are resolved. *)
Proposal == [scan : Scans, resources : Seq(Resources)]

StoreInit ==
  /\ byKey = << >> /\ clock = 0
  /\ scanToKeys = [s \in Scans |-> << >>]
  /\ resourceToKeys = [r \in Resources |-> << >>]

appendUnique(keys, key) == IF Contains(keys, key) THEN keys ELSE Append(keys, key)

(* An index after a key is added under, or removed from, some entries.     *)
Indexed(index, entries, key) ==
  [e \in DOMAIN index |-> IF e \in entries THEN appendUnique(index[e], key) ELSE index[e]]
Unindexed(index, entries, key) ==
  [e \in DOMAIN index |-> IF e \in entries THEN RemoveFirst(index[e], key) ELSE index[e]]

(* The store without a key.                                                *)
removeLocked(store, key) ==
  IF key \notin DOMAIN store.byKey THEN store
  ELSE LET ctx == store.byKey[key] IN
       [byKey |-> Restrict(store.byKey, DOMAIN store.byKey \ {key}),
        scans |-> Unindexed(store.scans, {ctx.scan}, key),
        resources |-> Unindexed(store.resources, ToSet(ctx.resources), key)]

(* The remediations that leave a store over its capacity, oldest first.    *)
Evicted(kept) ==
  LET excess == IF Capacity = 0 THEN 0 ELSE Cardinality(DOMAIN kept) - Capacity
  IN {k \in DOMAIN kept :
        Cardinality({j \in DOMAIN kept : kept[j].created < kept[k].created}) < excess}

(* A map with one more entry, and a proposal as the store keeps it first.  *)
Put(map, key, value) ==
  [k \in DOMAIN map \cup {key} |-> IF k = key THEN value ELSE map[k]]
Fresh(proposal) ==
  [scan |-> proposal.scan, resources |-> proposal.resources, created |-> clock,
   merged |-> FALSE, resolved |-> {}]

(* Mutant: the references of an earlier Upsert stay in the indexes.        *)
UpsertKeepsReferences(key, proposal) ==
  LET added == [byKey |-> Put(byKey, key, Fresh(proposal)),
                scans |-> Indexed(scanToKeys, {proposal.scan}, key),
                resources |-> Indexed(resourceToKeys, ToSet(proposal.resources), key)]
      store == FoldSet(LAMBDA k, s : removeLocked(s, k), added, Evicted(added.byKey))
  IN /\ byKey' = store.byKey /\ scanToKeys' = store.scans
     /\ resourceToKeys' = store.resources /\ clock' = clock + 1

(* A proposal replaces an earlier one of the same PR, whose references go  *)
(* first.  It is neither merged nor resolved, whatever the earlier one was.*)
Upsert(key, proposal) ==
  LET old == removeLocked([byKey |-> byKey, scans |-> scanToKeys,
                           resources |-> resourceToKeys], key)
      added == [byKey |-> Put(old.byKey, key, Fresh(proposal)),
                scans |-> Indexed(old.scans, {proposal.scan}, key),
                resources |-> Indexed(old.resources, ToSet(proposal.resources), key)]
      store == FoldSet(LAMBDA k, s : removeLocked(s, k), added, Evicted(added.byKey))
  IN /\ byKey' = store.byKey /\ scanToKeys' = store.scans
     /\ resourceToKeys' = store.resources /\ clock' = clock + 1

MarkMerged(key) ==
  /\ byKey' = [k \in DOMAIN byKey |-> [byKey[k] EXCEPT !.merged = @ \/ k = key]]
  /\ UNCHANGED <<scanToKeys, resourceToKeys, clock>>

(* The index leads to the remediations; keys that are gone are skipped.    *)
MarkResolved(resource) ==
  /\ byKey' = [k \in DOMAIN byKey |->
                 [byKey[k] EXCEPT !.resolved =
                    @ \cup (IF Contains(resourceToKeys[resource], k) THEN {resource} ELSE {})]]
  /\ UNCHANGED <<scanToKeys, resourceToKeys, clock>>
-----------------------------------------------------------------------------
(* The two indexes say exactly what the remediations say, each PR once per *)
(* entry, and the store keeps to its capacity: after any sequence of       *)
(* proposals, proposals of the same PR with other findings, and evictions, *)
(* no entry is stale and none is missing, so that a resolved resource is   *)
(* marked on every remediation of it and on no other.                      *)
IndexesExact ==
  /\ \A s \in Scans : ToSet(scanToKeys[s]) = {k \in DOMAIN byKey : byKey[k].scan = s}
  /\ \A r \in Resources :
       ToSet(resourceToKeys[r]) = {k \in DOMAIN byKey : Contains(byKey[k].resources, r)}
  /\ \A s \in Scans : IsInjective(scanToKeys[s])
  /\ \A r \in Resources : IsInjective(resourceToKeys[r])
  /\ Capacity > 0 => Cardinality(DOMAIN byKey) <= Capacity
  /\ \A k \in DOMAIN byKey : byKey[k].resolved \subseteq ToSet(byKey[k].resources)
=============================================================================
