-------------------------- MODULE DashboardPresets --------------------------
(***************************************************************************)
(* The compliance presets of the dashboard (internal/dashboard/            *)
(* presets_handler.go, presets.go): HTTP handlers, one goroutine per       *)
(* request, that propose a preset as a pull request or apply it to the     *)
(* cluster, and keep its status in the preset store.  A proposal outside   *)
(* demo mode runs GitHubEngine.CreatePullRequest; in demo mode it invents  *)
(* a pull request and starts a goroutine that merges it.                   *)
(*                                                                         *)
(* A preset stands for its branch zelyo-operator/preset/<id>.              *)
(***************************************************************************)
EXTENDS GitHubEngine

CONSTANT
  MaxApplies   \* bound on /apply requests

ASSUME PresetsAssumption == MaxApplies \in Nat

Presets == Branches    \* the preset catalog
Handlers == Callers    \* requests that can be served at the same time

(* Any request may be for any preset: what Serves is in a run of this      *)
(* module.                                                                 *)
EveryHandler == [p \in Presets |-> Handlers]

VARIABLES
  state,    \* PresetStatus.State of each preset
  hpc,      \* per handler: where the request is
  hp,       \* per handler: the preset of the request
  demo,     \* per preset: demoAdvancePreset goroutines before the merge
  syncing,  \* per preset: the ones between the merge and "enabled"
  merged,   \* presets whose pull request was merged
  drafted,  \* presets a pull request was opened, found or simulated for
  applies,  \* /apply requests so far
  demoMode  \* ZELYO_DEMO_MODE of the process

storeVars == <<state, hpc, hp, demo, syncing, merged, drafted, applies,
               demoMode>>
presetsVars == <<vars, storeVars>>

InFlight == {"proposing", "pending_merge", "enabled"}

PresetsInit ==
  /\ Init
  /\ state = [p \in Presets |-> "not_enabled"]
  /\ hpc = [h \in Handlers |-> "idle"]
  /\ hp \in [Handlers -> Presets]
  /\ demo = [p \in Presets |-> 0] /\ syncing = demo
  /\ merged = {} /\ drafted = {} /\ applies = 0
  /\ demoMode \in BOOLEAN

Serve(h, step) == hpc' = [hpc EXCEPT ![h] = step]
SetState(p, s) == state' = [state EXCEPT ![p] = s]
-----------------------------------------------------------------------------
(* handlePresetPropose up to the pull request.  A preset already in flight *)
(* is answered from the store and changes nothing, so only the other case  *)
(* is an action.  The store is read here and written only in Record.       *)
Propose(h, p) ==
  /\ hpc[h] = "idle" /\ state[p] \notin InFlight
  /\ hp' = [hp EXCEPT ![h] = p]
  /\ \/ /\ ~demoMode
        /\ Begin(h, p)
        /\ Serve(h, "opening")
        /\ UNCHANGED drafted
     \/ /\ demoMode /\ calls < MaxCalls
        /\ calls' = calls + 1
        /\ Serve(h, "record")
        /\ drafted' = drafted \cup {p}
        /\ UNCHANGED <<refs, commits, open, pc, head, file, byUser, meanwhile>>
  /\ UNCHANGED <<state, demo, syncing, merged, applies, demoMode>>

(* A REST call of the handler's CreatePullRequest.                         *)
EngineStep(h) ==
  /\ CreatePullRequestStep(h)
  /\ UNCHANGED storeVars

(* Mutant: the error of openPresetPR is dropped.                           *)
PRReturnedIgnoresError(h) ==
  /\ hpc[h] = "opening" /\ pc[h] \in {"new", "existing", "error"}
  /\ Serve(h, "record")
  /\ drafted' = IF pc[h] = "error" THEN drafted ELSE drafted \cup {hp[h]}
  /\ UNCHANGED <<vars, state, hp, demo, syncing, merged, applies, demoMode>>

(* openPresetPR returned.                                                  *)
PRReturned(h) ==
  /\ hpc[h] = "opening"
  /\ \/ pc[h] \in {"new", "existing"} /\ Serve(h, "record")
        /\ drafted' = drafted \cup {hp[h]}
     \/ pc[h] = "error" /\ Serve(h, "idle") /\ UNCHANGED drafted
  /\ UNCHANGED <<vars, state, hp, demo, syncing, merged, applies, demoMode>>

(* The first store.update after the pull request.                          *)
Record(h) ==
  /\ hpc[h] = "record"
  /\ SetState(hp[h], "proposing")
  /\ Serve(h, "pending")
  /\ UNCHANGED <<vars, hp, demo, syncing, merged, drafted, applies, demoMode>>

(* Mutant: the goroutine that advances the preset is not started.          *)
MarkPendingOnly(h) ==
  /\ hpc[h] = "pending"
  /\ SetState(hp[h], "pending_merge")
  /\ Serve(h, "idle")
  /\ UNCHANGED <<vars, hp, demo, syncing, merged, drafted, applies, demoMode>>

(* The second one; in demo mode the handler then starts demoAdvancePreset. *)
MarkPending(h) ==
  /\ hpc[h] = "pending"
  /\ SetState(hp[h], "pending_merge")
  /\ Serve(h, "idle")
  /\ demo' = IF demoMode THEN [demo EXCEPT ![hp[h]] = @ + 1] ELSE demo
  /\ UNCHANGED <<vars, hp, syncing, merged, drafted, applies, demoMode>>

(* demoAdvancePreset: after one sleep the simulated pull request is        *)
(* merged, after another the preset is enabled, whatever the store says by *)
(* then.  (It also returns when the server shuts down, with the store.)    *)
DemoMerge(p) ==
  /\ demo[p] > 0
  /\ demo' = [demo EXCEPT ![p] = @ - 1]
  /\ syncing' = [syncing EXCEPT ![p] = @ + 1]
  /\ merged' = merged \cup {p}
  /\ UNCHANGED <<vars, state, hpc, hp, drafted, applies, demoMode>>

DemoEnable(p) ==
  /\ syncing[p] > 0
  /\ syncing' = [syncing EXCEPT ![p] = @ - 1]
  /\ SetState(p, "enabled")
  /\ UNCHANGED <<vars, hpc, hp, demo, merged, drafted, applies, demoMode>>

(* handlePresetApply: the request arrives, the files are applied to the    *)
(* cluster, and only a full success changes the state.                     *)
Apply(h, p) ==
  /\ hpc[h] = "idle" /\ applies < MaxApplies
  /\ applies' = applies + 1
  /\ hp' = [hp EXCEPT ![h] = p]
  /\ Serve(h, "applying")
  /\ UNCHANGED <<vars, state, demo, syncing, merged, drafted, demoMode>>

ApplyReturned(h) ==
  /\ hpc[h] = "applying"
  /\ SetState(hp[h], "enabled") \/ UNCHANGED state
  /\ Serve(h, "idle")
  /\ UNCHANGED <<vars, hp, demo, syncing, merged, drafted, applies, demoMode>>

(* Reviewers: what they merge is remembered in merged.                     *)
Review ==
  /\ Reviewer
  /\ \/ merged' = merged \cup (open \ open')
     \/ UNCHANGED merged
  /\ UNCHANGED <<state, hpc, hp, demo, syncing, drafted, applies, demoMode>>

HandlerStep(h) ==
  EngineStep(h) \/ PRReturned(h) \/ Record(h) \/ MarkPending(h) \/ ApplyReturned(h)

PresetsNext ==
  \/ \E h \in Handlers :
       \/ \E p \in Presets : Propose(h, p) \/ Apply(h, p)
       \/ HandlerStep(h)
  \/ \E p \in Presets : DemoMerge(p) \/ DemoEnable(p)
  \/ Review

(* Handlers run to the end of their request and sleeping goroutines wake.  *)
PresetsFairness ==
  /\ \A h \in Handlers : WF_presetsVars(HandlerStep(h))
  /\ \A p \in Presets : WF_presetsVars(DemoMerge(p)) /\ WF_presetsVars(DemoEnable(p))

PresetsSpec == PresetsInit /\ [][PresetsNext]_presetsVars /\ PresetsFairness
-----------------------------------------------------------------------------
(* The store never announces a pull request that does not exist: a preset  *)
(* is shown as proposed or waiting for its merge only after one was        *)
(* opened, found open or simulated, however proposals, failures and direct *)
(* applies interleave.                                                     *)
PendingHasPR ==
  \A p \in Presets : state[p] \in {"proposing", "pending_merge"} => p \in drafted

(* In demo mode every proposed preset ends up enabled, also when two       *)
(* proposals of it, or a proposal and a direct apply, overlap.             *)
DemoPresetGetsEnabled ==
  \A p \in Presets :
    demoMode /\ state[p] = "pending_merge" ~> state[p] = "enabled"
=============================================================================
