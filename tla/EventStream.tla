----------------------------- MODULE EventStream -----------------------------
(***************************************************************************)
(* The pipeline's events on their way to a browser: the bus of             *)
(* internal/events with its history and its subscribers, the bridge and    *)
(* the SSE handlers of internal/dashboard/server.go, and the pipeline      *)
(* page: its columns of events, loaded once and then filled from the       *)
(* stream, and its side panel, which reads the remediation store when an   *)
(* event says that it changed.                                             *)
(*                                                                         *)
(* A publisher is a goroutine that runs one program: the calls to the      *)
(* store and to the bus that a proposal, a merge or a scan makes.          *)
(***************************************************************************)
EXTENDS RemediationStore

CONSTANTS
  Publishers,   \* goroutines that publish
  Workloads,    \* what they may be doing: a set of functions to programs
  Browsers,     \* dashboards that are open somewhere
  History,      \* the capacity of the bus's buffer
  Limit,        \* how many events a load of the page asks for
  BusQueue,     \* the capacity of a bus subscriber's channel
  StreamQueue,  \* the capacity of an SSE subscriber's channel
  MaxBeats,     \* bound: heartbeats
  MaxConnects   \* bound: connections of one browser

(* The steps that programs are made of, and the events they publish.       *)
Types == {"scan.started", "remediation.drafted", "config.pr.drafted", "pr.opened",
          "pr.merged", "finding.resolved"}
Stages == {"scan", "fix", "verify"}
Step ==
  [op : {"upsert"}, key : Keys, proposal : Proposal] \cup [op : {"merged"}, key : Keys]
    \cup [op : {"resolved"}, resource : Resources]
    \cup [op : {"publish"}, type : Types, stage : Stages, key : Keys \cup {""}]

ASSUME StreamAssumption ==
  /\ Workloads \subseteq [Publishers -> Seq(Step)]
  /\ History \in Nat \ {0} /\ Limit \in Nat \ {0}
  /\ BusQueue \in Nat \ {0} /\ StreamQueue \in Nat \ {0}
  /\ MaxBeats \in Nat /\ MaxConnects \in Nat

VARIABLES
  program,   \* the rest of each publisher's program
  unannounced, \* history: the store changed since an event last made panels read it
  outbox,    \* the event each publisher is publishing, and how far it is
  buffer,    \* the bus's history, oldest first
  seq,       \* the number of events published
  bridge,    \* the bridge: [state, inbox]
  stream,    \* of each browser: its SSE handler's state and channel, and what it was sent
  page,      \* of each browser: the pipeline page's load and its columns
  panel,     \* of each browser: its side panel
  lost,      \* of each browser: events that a full channel dropped
  beats,     \* heartbeats so far
  server     \* Start: serving, stopping, and how it returned

streamVars == <<program, unannounced, outbox, buffer, seq, bridge, stream, page, panel,
                lost, beats, server>>
vars == <<storeVars, streamVars>>

NoEvent == [id |-> 0, by |-> "", type |-> "", stage |-> "", key |-> ""]
Pending == [done |-> FALSE, answer |-> {}]
Idle == [event |-> NoEvent, at |-> "idle"]
Closed == [state |-> "closed", queue |-> <<>>, seen |-> <<>>, connects |-> 0]
NoPage == [state |-> "none", answer |-> {}, upTo |-> 0, shown |-> {}, meanwhile |-> {}]
NoPanel == [open |-> FALSE, key |-> "", shown |-> {}, fetches |-> <<>>, opening |-> FALSE,
            late |-> 0, stale |-> FALSE]

(* Start has returned control to its goroutines: the bridge is about to    *)
(* subscribe.                                                              *)
Init ==
  /\ StoreInit
  /\ program \in Workloads /\ unannounced = FALSE
  /\ outbox = [p \in Publishers |-> Idle]
  /\ buffer = <<>> /\ seq = 0
  /\ bridge = [state |-> "starting", inbox |-> <<>>]
  /\ stream = [b \in Browsers |-> Closed]
  /\ page = [b \in Browsers |-> NoPage]
  /\ panel = [b \in Browsers |-> NoPanel]
  /\ lost = [b \in Browsers |-> {}]
  /\ beats = 0 /\ server = "serving"
-----------------------------------------------------------------------------
(* The programs.                                                           *)
Proposes(key, proposal) == [op |-> "upsert", key |-> key, proposal |-> proposal]
Emits(type, stage, key) == [op |-> "publish", type |-> type, stage |-> stage, key |-> key]

(* createPR of the remediation engine, once the pull request is there.     *)
RemediationProposed(key, proposal) ==
  <<Proposes(key, proposal), Emits("remediation.drafted", "fix", ""),
    Emits("pr.opened", "fix", key)>>

(* A reconcile of a ClusterScan announces that it starts.                  *)
ScanStarts == <<Emits("scan.started", "scan", "")>>

(* fireSequence of the demo, once it has scanned: it also merges the pull  *)
(* request and verifies the findings that it has correlated.               *)
fireSequence(key, proposal, correlated) ==
  RemediationProposed(key, proposal)
    \o <<[op |-> "merged", key |-> key], Emits("pr.merged", "fix", key)>>
    \o FlattenSeq([i \in 1 .. correlated |->
         <<[op |-> "resolved", resource |-> proposal.resources[i]],
           Emits("finding.resolved", "verify", "")>>])

(* handlePresetPropose, likewise.  The findings of a preset are its files, *)
(* by the paths they are committed to: "under" is pathpkg.Join with the    *)
(* first path of the GitOps repository.                                    *)
PresetProposed(key, preset, under) ==
  <<Proposes(key, [preset EXCEPT !.resources = [i \in DOMAIN @ |-> under[@[i]]]]),
    Emits("config.pr.drafted", "fix", key), Emits("pr.opened", "fix", key)>>

(* Mutant: the merge is announced before it is recorded.                   *)
AnnouncesFirst(key, preset) ==
  <<Emits("pr.merged", "fix", key), [op |-> "merged", key |-> key]>>
    \o [i \in DOMAIN preset.resources |->
         [op |-> "resolved", resource |-> preset.resources[i]]]

(* The files are marked resolved by the paths the preset gives them, and   *)
(* nobody says so.                                                         *)
demoAdvancePreset(key, preset) ==
  <<[op |-> "merged", key |-> key], Emits("pr.merged", "fix", key)>>
    \o [i \in DOMAIN preset.resources |->
         [op |-> "resolved", resource |-> preset.resources[i]]]

(* A step of a program on the store.                                       *)
StoreStep(p) ==
  /\ program[p] # <<>> /\ server # "crashed"
  /\ LET step == Head(program[p]) IN
       \/ step.op = "upsert" /\ Upsert(step.key, step.proposal)
       \/ step.op = "merged" /\ MarkMerged(step.key)
       \/ step.op = "resolved" /\ MarkResolved(step.resource)
  /\ unannounced' = (unannounced \/ byKey' # byKey)
  /\ program' = [program EXCEPT ![p] = Tail(@)]
  /\ UNCHANGED <<outbox, buffer, seq, bridge, stream, page, panel, lost, beats, server>>
-----------------------------------------------------------------------------
(* Publish.  The bus's lock is held for reading by publishers that are     *)
(* about to send.                                                          *)
Registered(b) == stream[b].state \in {"open", "stalled"}
Readers == {p \in Publishers : outbox[p].at = "sending"}

(* The events that make a page ask again for what its side panel shows.    *)
Refreshing == {"finding.resolved", "pr.merged", "pr.opened"}

(* The first half, with the lock: the event gets its ID and a place in the *)
(* history.                                                                *)
PublishAppends(p) ==
  /\ program[p] # <<>> /\ Head(program[p]).op = "publish"
  /\ outbox[p] = Idle /\ Readers = {} /\ server # "crashed"
  /\ LET step == Head(program[p])
         event == [id |-> seq + 1, by |-> p, type |-> step.type, stage |-> step.stage,
                   key |-> step.key]
         longer == Append(buffer, event)
         drop == IF Len(longer) > History THEN Len(longer) - History ELSE 0
     IN /\ buffer' = SubSeq(longer, drop + 1, Len(longer))
        /\ outbox' = [outbox EXCEPT ![p] = [event |-> event, at |-> "appended"]]
        /\ unannounced' = (unannounced /\ step.type \notin Refreshing)
  /\ seq' = seq + 1
  /\ UNCHANGED <<storeVars, program, bridge, stream, page, panel, lost, beats, server>>

(* The second half takes the lock again, for reading, and goes through the *)
(* subscribers, of which the bridge is the only one.                       *)
Published(p) ==
  /\ outbox' = [outbox EXCEPT ![p] = Idle]
  /\ program' = [program EXCEPT ![p] = Tail(@)]

PublishLocks(p) ==
  /\ outbox[p].at = "appended" /\ server # "crashed"
  /\ IF bridge.state = "subscribed"
     THEN outbox' = [outbox EXCEPT ![p].at = "sending"] /\ UNCHANGED program
     ELSE Published(p)
  /\ UNCHANGED <<storeVars, unannounced, buffer, seq, bridge, stream, page, panel, lost,
                 beats, server>>

(* The send to a full channel drops the event; one to a closed channel     *)
(* panics, and with it the process.                                        *)
PublishSends(p) ==
  /\ outbox[p].at = "sending" /\ server # "crashed"
  /\ Published(p)
  /\ LET full == Len(bridge.inbox) = BusQueue IN
       CASE bridge.state # "subscribed" ->
              server' = "crashed" /\ UNCHANGED <<bridge, lost>>
         [] bridge.state = "subscribed" /\ full ->
              /\ lost' = [b \in Browsers |->
                            IF Registered(b) THEN lost[b] \cup {outbox[p].event.id} ELSE lost[b]]
              /\ UNCHANGED <<bridge, server>>
         [] OTHER ->
              /\ bridge' = [bridge EXCEPT !.inbox = Append(@, outbox[p].event)]
              /\ UNCHANGED <<lost, server>>
  /\ UNCHANGED <<storeVars, unannounced, buffer, seq, stream, page, panel, beats>>

(* Mutant: the newest event is left out.                                   *)
RecentSkipsNewest(stage, limit) ==
  LET matching == SelectSeq(SubSeq(buffer, 1, Len(buffer) - 1),
                            LAMBDA e : stage = "" \/ e.stage = stage)
      n == Len(matching)
  IN SubSeq(Reverse(matching), 1, IF n < limit THEN n ELSE limit)

(* The newest events of a stage, or of all, newest first.                  *)
Recent(stage, limit) ==
  LET matching == IF stage = "" THEN buffer
                  ELSE SelectSeq(buffer, LAMBDA e : e.stage = stage)
      n == Len(matching)
  IN SubSeq(Reverse(matching), 1, IF n < limit THEN n ELSE limit)
-----------------------------------------------------------------------------
(* bridgePipelineEvents.  Subscribe and its cancel function take the bus's *)
(* lock.                                                                   *)
BridgeSubscribes ==
  /\ bridge.state = "starting" /\ Readers = {} /\ server # "crashed"
  /\ bridge' = [bridge EXCEPT !.state = "subscribed"]
  /\ UNCHANGED <<storeVars, program, unannounced, outbox, buffer, seq, stream, page,
                 panel, lost, beats, server>>

(* Mutant: the subscriber's channel is closed without the bus's lock.      *)
BridgeCancelsUnlocked ==
  /\ bridge.state = "subscribed"
  /\ server \notin {"serving", "crashed"}
  /\ bridge' = [bridge EXCEPT !.state = "closed"]
  /\ UNCHANGED <<storeVars, program, unannounced, outbox, buffer, seq, stream, page,
                 panel, lost, beats, server>>

BridgeCancels ==
  /\ bridge.state = "subscribed" /\ Readers = {}
  /\ server \notin {"serving", "crashed"}
  /\ bridge' = [bridge EXCEPT !.state = "closed"]
  /\ UNCHANGED <<storeVars, program, unannounced, outbox, buffer, seq, stream, page,
                 panel, lost, beats, server>>

(* Broadcast holds the server's lock, for reading, over all its sends.     *)
Broadcast(event) ==
  /\ stream' = [b \in Browsers |->
                  IF Registered(b) /\ Len(stream[b].queue) < StreamQueue
                  THEN [stream[b] EXCEPT !.queue = Append(@, event)] ELSE stream[b]]
  /\ lost' = [b \in Browsers |->
                IF Registered(b) /\ Len(stream[b].queue) = StreamQueue
                THEN lost[b] \cup ({event.id} \ {0}) ELSE lost[b]]

(* Mutant: the event is sent, and kept.                                    *)
BridgeForwardsAgain ==
  /\ bridge.state = "subscribed" /\ bridge.inbox # <<>> /\ server # "crashed"
  /\ Broadcast(Head(bridge.inbox))
  /\ bridge' \in {bridge, [bridge EXCEPT !.inbox = Tail(@)]}
  /\ UNCHANGED <<storeVars, program, unannounced, outbox, buffer, seq, page, panel,
                 beats, server>>

(* The bridge receives and broadcasts; nobody sees what it holds between.  *)
BridgeForwards ==
  /\ bridge.state = "subscribed" /\ bridge.inbox # <<>> /\ server # "crashed"
  /\ Broadcast(Head(bridge.inbox))
  /\ bridge' = [bridge EXCEPT !.inbox = Tail(@)]
  /\ UNCHANGED <<storeVars, program, unannounced, outbox, buffer, seq, page, panel,
                 beats, server>>

Heartbeat ==
  /\ server = "serving" /\ beats < MaxBeats /\ beats' = beats + 1
  /\ Broadcast([NoEvent EXCEPT !.type = "overview.refresh"])
  /\ UNCHANGED <<storeVars, program, unannounced, outbox, buffer, seq, bridge, page,
                 panel, server>>
-----------------------------------------------------------------------------
(* handleSSE.  A handler may be stuck in a write to a browser that does    *)
(* not read, and is then deaf to everything.                               *)
Connect(b) ==
  /\ stream[b].state = "closed" /\ server = "serving"
  /\ stream[b].connects < MaxConnects
  /\ stream' = [stream EXCEPT ![b] = [state |-> "open", queue |-> <<>>, seen |-> <<>>,
                                      connects |-> @.connects + 1]]
  /\ UNCHANGED <<storeVars, program, unannounced, outbox, buffer, seq, bridge, page,
                 panel, lost, beats, server>>

Stall(b) ==
  /\ stream[b].state = "open" /\ server # "crashed"
  /\ stream' = [stream EXCEPT ![b].state = "stalled"]
  /\ UNCHANGED <<storeVars, program, unannounced, outbox, buffer, seq, bridge, page,
                 panel, lost, beats, server>>

(* The handler returns, and with it the subscription; its channel is never *)
(* closed.  What a page without a stream shows is not followed any more.   *)
Unsubscribed(b) ==
  /\ stream' = [stream EXCEPT ![b] = [Closed EXCEPT !.connects = stream[b].connects]]
  /\ page' = [page EXCEPT ![b] = NoPage]
  /\ panel' = [panel EXCEPT ![b] = NoPanel]
  /\ lost' = [lost EXCEPT ![b] = {}]
  /\ UNCHANGED <<storeVars, program, unannounced, outbox, buffer, seq, bridge, beats,
                 server>>

(* The browser goes away, which also ends a write that is stuck.           *)
Disconnect(b) == Registered(b) /\ server # "crashed" /\ Unsubscribed(b)

(* Mutant: the handler does not watch the server's context.                *)
HandlerIgnoresServer(b) ==
  /\ ~Registered(b) /\ server \in {"stopping", "failed"} /\ Unsubscribed(b)

HandlerStops(b) ==
  /\ stream[b].state = "open" /\ server \in {"stopping", "failed"} /\ Unsubscribed(b)

(* The events that the pipeline page has a handler for: render lists them, *)
(* and config.pr.drafted is not among them.                                *)
Handled == {"scan.started", "remediation.drafted", "pr.opened", "pr.merged",
            "finding.resolved"}

(* Mutant: a panel that waits for an answer does not ask again.            *)
AskedOnce(pn) ==
  IF pn.fetches = <<>> THEN [pn EXCEPT !.fetches = <<Pending>>] ELSE pn
Asked(pn) == [pn EXCEPT !.fetches = Append(@, Pending)]

Handles(b, event) == page[b].state # "none" /\ event.type \in Handled

(* An event is written to the stream and handled by the page.              *)
Deliver(b) ==
  /\ stream[b].state = "open" /\ stream[b].queue # <<>> /\ server # "crashed"
  /\ LET event == Head(stream[b].queue) IN
       /\ stream' = [stream EXCEPT ![b].queue = Tail(@),
                       ![b].seen = IF event.id = 0 THEN @ ELSE Append(@, event)]
       /\ page' = [page EXCEPT
            ![b].shown = IF Handles(b, event) THEN @ \cup {event} ELSE @,
            ![b].meanwhile = IF page[b].state = "answered" THEN @ \cup {event.id} ELSE @]
       /\ panel' = [panel EXCEPT ![b] =
                      IF @.open /\ event.type \in Refreshing THEN Asked(@) ELSE @]
  /\ UNCHANGED <<storeVars, program, unannounced, outbox, buffer, seq, bridge, lost,
                 beats, server>>

(* render: the page asks for the history and registers its handlers.  A    *)
(* connection is followed for the page it loads, once the bridge has       *)
(* subscribed.                                                             *)
LoadPipeline(b) ==
  /\ stream[b].state = "open" /\ page[b] = NoPage
  /\ server = "serving" /\ bridge.state = "subscribed"
  /\ page' = [page EXCEPT ![b].state = "asked"]
  /\ UNCHANGED <<storeVars, program, unannounced, outbox, buffer, seq, bridge, stream,
                 panel, lost, beats, server>>

(* handlePipeline.                                                         *)
ServeLoad(b) ==
  /\ page[b].state = "asked" /\ server = "serving"
  /\ page' = [page EXCEPT ![b].state = "answered", ![b].upTo = seq,
                         ![b].answer = ToSet(Recent("", Limit))]
  /\ UNCHANGED <<storeVars, program, unannounced, outbox, buffer, seq, bridge, stream,
                 panel, lost, beats, server>>

(* The rest of loadPipeline: the columns are emptied, then filled from the *)
(* answer.  A request that fails is one that is never answered.            *)
LoadArrives(b) ==
  /\ page[b].state = "answered" /\ server # "crashed"
  /\ page' = [page EXCEPT ![b].state = "loaded", ![b].shown = page[b].answer,
                         ![b].answer = {}]
  /\ UNCHANGED <<storeVars, program, unannounced, outbox, buffer, seq, bridge, stream,
                 panel, lost, beats, server>>

(* openPanel, for the URL of an event that the page shows.                 *)
OpenPanel(b, key) ==
  /\ page[b].state = "loaded" /\ ~panel[b].open
  /\ \E e \in page[b].shown : e.key = key
  /\ panel' = [panel EXCEPT ![b] = Asked([@ EXCEPT !.open = TRUE, !.key = key,
                                                  !.opening = TRUE])]
  /\ UNCHANGED <<storeVars, program, unannounced, outbox, buffer, seq, bridge, stream,
                 page, lost, beats, server>>

(* handleRemediations: the remediation of a URL, if the store has it.      *)
Get(key) == IF key \in DOMAIN byKey THEN {byKey[key]} ELSE {}
ServeFetch(b, i) ==
  /\ ~panel[b].fetches[i].done /\ server = "serving"
  /\ panel' = [panel EXCEPT ![b].fetches[i] = [done |-> TRUE, answer |-> Get(panel[b].key)]]
  /\ UNCHANGED <<storeVars, program, unannounced, outbox, buffer, seq, bridge, stream,
                 page, lost, beats, server>>

(* Answers arrive in any order, and each one is shown; the error that      *)
(* answers for a missing remediation is ignored, except by openPanel,      *)
(* which shows it in place of a remediation.  The first "late" requests    *)
(* were overtaken by the answer to a later one.                            *)
Answered(pn, i) ==
  LET answer == pn.fetches[i].answer
      shows == answer # {} \/ (pn.opening /\ i = 1)
  IN [pn EXCEPT !.fetches = RemoveAt(@, i),
                !.opening = @ /\ i > 1,
                !.late = IF i <= @ THEN @ - 1 ELSE i - 1,
                !.shown = IF shows THEN answer ELSE @,
                !.stale = IF shows THEN i <= pn.late ELSE @]
FetchArrives(b, i) ==
  /\ panel[b].fetches[i].done /\ server # "crashed"
  /\ panel' = [panel EXCEPT ![b] = Answered(@, i)]
  /\ UNCHANGED <<storeVars, program, unannounced, outbox, buffer, seq, bridge, stream,
                 page, lost, beats, server>>
-----------------------------------------------------------------------------
(* Start: the context is cancelled, and Shutdown waits for the handlers,   *)
(* for ten seconds, which only a handler that is stuck outlasts.           *)
Cancel ==
  /\ server = "serving" /\ server' = "stopping"
  /\ UNCHANGED <<storeVars, program, unannounced, outbox, buffer, seq, bridge, stream,
                 page, panel, lost, beats>>

ShutdownReturns ==
  /\ server = "stopping"
  /\ \/ (\A b \in Browsers : ~Registered(b)) /\ server' = "stopped"
     \/ /\ \E b \in Browsers : Registered(b)
        /\ \A b \in Browsers : Registered(b) => stream[b].state = "stalled"
        /\ server' = "failed"
  /\ UNCHANGED <<storeVars, program, unannounced, outbox, buffer, seq, bridge, stream,
                 page, panel, lost, beats>>

PublisherStep(p) ==
  StoreStep(p) \/ PublishAppends(p) \/ PublishLocks(p) \/ PublishSends(p)
BridgeStep == BridgeSubscribes \/ BridgeForwards \/ BridgeCancels
BrowserStep(b) ==
  \/ Connect(b) \/ Stall(b) \/ Disconnect(b)
  \/ LoadPipeline(b) \/ ServeLoad(b) \/ LoadArrives(b)
  \/ \E key \in Keys : OpenPanel(b, key)
  \/ \E i \in DOMAIN panel[b].fetches : ServeFetch(b, i) \/ FetchArrives(b, i)

Next ==
  \/ \E p \in Publishers : PublisherStep(p)
  \/ BridgeStep \/ Heartbeat \/ Cancel \/ ShutdownReturns
  \/ \E b \in Browsers : BrowserStep(b) \/ Deliver(b) \/ HandlerStops(b)

(* A handler whose context is done returns unless it is stuck in a write,  *)
(* and Shutdown returns when it can; both are goroutines that need nobody. *)
Spec ==
  /\ Init /\ [][Next]_vars
  /\ \A b \in Browsers : WF_vars(HandlerStops(b))
  /\ WF_vars(ShutdownReturns)
-----------------------------------------------------------------------------
(* Events that are still on their way to a browser.                        *)
UnderWay(b) ==
  {outbox[p].event.id : p \in Publishers} \cup {e.id : e \in ToSet(bridge.inbox)}
    \cup {e.id : e \in ToSet(stream[b].queue)}
Seen(b) == {e.id : e \in ToSet(stream[b].seen)}

(* Two publishers may overtake each other between the history and the      *)
(* subscribers, but a browser sees the events of one publisher in their    *)
(* order, and no event twice on one connection.                            *)
StreamInOrder ==
  \A b \in Browsers : \A i, j \in DOMAIN stream[b].seen :
    LET e == stream[b].seen[i]
        f == stream[b].seen[j]
    IN i < j /\ e.by = f.by => e.id < f.id

(* What happens to an event for a page that has loaded, or asked: it is    *)
(* shown, it is on its way, a full channel dropped it, or it was too old   *)
(* for the limit of the load.                                              *)
TooOld(b, id) == id <= page[b].upTo - (IF Limit < History THEN Limit ELSE History)
Accounted(b, id) ==
  \/ id \in {e.id : e \in page[b].shown} \cup UnderWay(b) \cup lost[b]
  \/ TooOld(b, id)
Unhandled(b) == {e.id : e \in {f \in ToSet(stream[b].seen) : f.type \notin Handled}}

(* A page that loads the history while its stream is open has, or will     *)
(* get, every event since, because an event enters the history before it   *)
(* is sent.  What the page can miss is exactly this: what full channels    *)
(* dropped, what the limit cut off, what it has no handler for, and what   *)
(* it was sent between the server's answer and the answer's arrival, which *)
(* empties the columns.                                                    *)
NothingMissed ==
  \A b \in Browsers : page[b].state = "loaded" /\ server = "serving" =>
    \A id \in 1 .. seq : Accounted(b, id) \/ id \in page[b].meanwhile \cup Unhandled(b)

(* A panel that waits for nothing, on a stream that owes it nothing.       *)
Settled(b) ==
  /\ panel[b].open /\ server = "serving"
  /\ lost[b] = {} /\ UnderWay(b) \subseteq {0}
  /\ panel[b].fetches = <<>>
ShowsStore(pn) == pn.key \notin DOMAIN byKey \/ pn.shown = Get(pn.key)

(* The side panel keeps up with what is announced: a settled panel shows   *)
(* the remediation as the store has it, unless the store changed since an  *)
(* event last said so, the remediation was evicted, or what the panel      *)
(* shows was overtaken by an answer it showed before.                      *)
PanelAgrees ==
  \A b \in Browsers :
    Settled(b) /\ ~unannounced /\ ~panel[b].stale => ShowsStore(panel[b])

(* Every proposal and every merge is announced: when the publishers are    *)
(* done, a settled panel shows the proposal that the store has, and that   *)
(* it is merged if it is, even if nobody announced what was resolved.      *)
Finished == \A p \in Publishers : program[p] = <<>>
Unresolved(contexts) == {[c EXCEPT !.resolved = {}] : c \in contexts}
PanelShowsMerge ==
  \A b \in Browsers : Settled(b) /\ Finished /\ ~panel[b].stale =>
    LET pn == panel[b] IN
    pn.key \notin DOMAIN byKey \/ Unresolved(pn.shown) = Unresolved(Get(pn.key))

(* Once its context is cancelled Start returns, whatever events, browsers  *)
(* and stuck writes there are; and on the way no publisher, however late,  *)
(* sends to the channel that the bridge closes.                            *)
StopsCleanly ==
  /\ (server = "stopping") ~> (server \in {"stopped", "failed"})
  /\ [](server # "crashed")
=============================================================================
